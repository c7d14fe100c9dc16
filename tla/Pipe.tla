-------------------------------- MODULE Pipe --------------------------------
(* A one-way pipe of items: what the reader gets is what the writer put in,  *)
(* in order, and it sees the end only after all of it.                       *)
EXTENDS Naturals, Sequences

VARIABLES
  written,  \* how many items were put in: 1, 2, ...
  read,     \* the items taken out
  ended,    \* the writer has finished
  drained   \* the reader has seen the end

Init == written = 0 /\ read = <<>> /\ ended = FALSE /\ drained = FALSE

Write == ~ended /\ written' \in Nat /\ written' > written /\ UNCHANGED <<read, ended, drained>>
End == ~ended /\ ended' = TRUE /\ UNCHANGED <<written, read, drained>>
Read ==
  /\ ~drained /\ \E n \in 1 .. written - Len(read) :
                    read' = read \o [i \in 1..n |-> Len(read) + i]
  /\ UNCHANGED <<written, ended, drained>>
Drain ==
  /\ ended /\ Len(read) = written /\ ~drained /\ drained' = TRUE
  /\ UNCHANGED <<written, read, ended>>

Next == Write \/ End \/ Read \/ Drain
Spec == Init /\ [][Next]_<<written, read, ended, drained>>
=============================================================================
