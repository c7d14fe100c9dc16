------------------------------- MODULE VtText -------------------------------
(* The emulator under a program that only prints lines, on a terminal that   *)
(* is resized: its screen and scrollback together implement a Transcript.    *)
EXTENDS VtReflow

CONSTANTS
  Rows, Cols,  \* the size at the start
  Sizes,       \* the sizes the terminal is given later
  MaxOps, MaxLine, MaxResizes   \* bounds: steps, characters of a line, resizes

ASSUME TextAssumption ==
  \A z \in Sizes \cup {<<Rows, Cols>>} : z[1] >= 1 /\ z[2] >= 2 /\ z[2] < Cap

(* The text of the scrollback and the rows above and at the cursor, a row    *)
(* that wraps going on in the next, as lines without their last blanks.      *)
TextOf(s) ==
  LET shown == s.hist \o FlattenSeq([r \in 1 .. s.row - 1 |-> RowText(s.cells[r], Wraps(s, r))])
                 \o CellText(s.cells[s.row])
      lines == Split(shown)
  IN  [i \in DOMAIN lines |-> Trim(lines[i])]

VARIABLES
  s,        \* the screen
  text,     \* TextOf(s)
  torn,     \* whether the line being printed was resized
  line,     \* how many characters it has
  ops, resizes

vars == <<s, text, torn, line, ops, resizes>>

Init ==
  /\ s = ScrInit(Rows, Cols) /\ text = <<<<>>>>
  /\ torn = FALSE /\ line = 0 /\ ops = 0 /\ resizes = 0

(* Bound: with the blanks a resize leaves in it, a line is shorter than the   *)
(* scrollback.  (Of a longer one, scrollback_capture forgets the beginning.) *)
Becomes(t) == s' = t /\ text' = TextOf(t) /\ Len(Last(text')) < Cap
Tick == ops < MaxOps /\ ops' = ops + 1

Show(ch) ==
  /\ Tick /\ line < MaxLine /\ line' = line + 1
  /\ Becomes(PutChar(s, ch))
  /\ UNCHANGED <<torn, resizes>>

(* The kernel writes a newline of the program as CR LF. *)
Return ==
  /\ Tick /\ line' = 0 /\ torn' = FALSE
  /\ Becomes(C0(C0(s, "CR"), "LF"))
  /\ UNCHANGED resizes

Resize(nr, nc) ==
  /\ Tick /\ resizes < MaxResizes /\ resizes' = resizes + 1
  /\ <<nr, nc>> # <<s.rows, s.cols>>
  /\ Becomes(VtResize(s, nr, nc)) /\ torn' = TRUE
  /\ UNCHANGED line

Next ==
  \/ \E ch \in Narrow \cup Wide : Show(ch)
  \/ Return
  \/ \E z \in Sizes : Resize(z[1], z[2])

Spec == Init /\ [][Next]_vars

-----------------------------------------------------------------------------
(* Text printed in lines, scrolled off, pushed out of a full scrollback, and *)
(* re-laid at other widths and heights is the text that was printed: no line *)
(* is lost but the oldest, none is split, doubled or reordered.              *)
T == INSTANCE Transcript WITH Char <- Narrow \cup Wide, done <- Front(text),
                              open <- Last(text), torn <- torn
KeepsText == T!Spec

(* The scrollback forgets only for want of room: what it keeps and the line  *)
(* it dropped last did not fit together (scrollback_capture drops the oldest *)
(* line, and no more than it must).                                          *)
ForgetsLate ==
  [][LET added == IF line' = 0 /\ line # 0 THEN <<Last(text)>> ELSE <<>>
         before == Front(text) \o added
         forgot == Len(before) - (Len(text') - 1)
     IN  forgot > 0 => Len(s'.hist) + Len(before[forgot]) + 1 > Cap]_vars
=============================================================================
