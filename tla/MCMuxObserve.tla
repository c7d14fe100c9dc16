---------------------------- MODULE MCMuxObserve -----------------------------
EXTENDS MuxObserve

MCSizes == {<<1, 2>>, <<2, 1>>}
MCViewSizes == {<<2, 2>>}
MCBudgets == {[out |-> 2, act |-> 0, winch |-> 0, keys |-> 4]}
=============================================================================
