---------------------------- MODULE MCMuxSession ----------------------------
(* MuxSession on small sets; everything interchangeable is symmetric.       *)
EXTENDS MuxSession, TLC

MCSymmetry == Permutations(Proc) \cup Permutations(Prog)
                \cup Permutations(Sock) \cup Permutations(Conn)
=============================================================================
