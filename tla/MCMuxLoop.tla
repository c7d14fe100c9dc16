------------------------------ MODULE MCMuxLoop ------------------------------
EXTENDS MuxLoop, TLC

Symmetry == Permutations(Prog)
=============================================================================
