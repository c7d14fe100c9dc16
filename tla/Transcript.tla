----------------------------- MODULE Transcript -----------------------------
(* What a terminal promises to the text a program prints: the finished lines *)
(* are kept, in order and unchanged, whatever the width they are shown at;   *)
(* only the oldest may be forgotten, as whole lines.                         *)
EXTENDS Sequences, Integers

CONSTANT Char

VARIABLES
  done,    \* the finished lines
  open,    \* the line being printed
  torn     \* whether a resize cut that line, which its program has to redraw

vars == <<done, open, torn>>

Init == done = <<>> /\ open = <<>> /\ torn = FALSE

Keeps(new, old) == \E k \in 1 .. Len(old) + 1 : new = SubSeq(old, k, Len(old))

Add(c) ==
  /\ Keeps(done', done) /\ UNCHANGED torn
  /\ ~torn => open' = Append(open, c)
NewLine == Keeps(done', Append(done, open)) /\ open' = <<>> /\ torn' = FALSE
Resize == Keeps(done', done) /\ torn' = TRUE

Next == (\E c \in Char : Add(c)) \/ NewLine \/ Resize

Spec == Init /\ [][Next]_vars
=============================================================================
