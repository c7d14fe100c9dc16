----------------------------- MODULE VtTerminal -----------------------------
(* A terminal whose program may send any control of the emulator at any      *)
(* time, which is resized, and which is handed from one process to another:  *)
(* the operations of VtScreen and VtReflow in every order.                   *)
EXTENDS VtReflow

CONSTANTS
  First,          \* the rows and columns at the start
  Sizes,          \* the sizes the terminal is given later
  Moves, Edits,   \* controls <<final byte, parameters>> of dispatch_csi
  Privates,       \* the same with the private marker
  Escapes, Controls,
  MaxOps          \* bound: controls, resizes and handovers of a behaviour

(* A row and its newline fit in the scrollback: capture takes at most 4096   *)
(* bytes of a row, the scrollback holds 32768.                               *)
VtBounds ==
  /\ \A z \in Sizes \cup {First} : z[1] >= 2 /\ z[2] >= 2 /\ z[2] < Cap
  /\ MaxOps \in Nat /\ TabStop \in Nat \ {0}

VARIABLES
  s,      \* the screen
  op,     \* what was done last
  ops     \* how many things were done

vars == <<s, op, ops>>

Init == s = ScrInit(First[1], First[2]) /\ op = "init" /\ ops = 0

Does(name, t) == ops < MaxOps /\ ops' = ops + 1 /\ op' = name /\ s' = t

Show(ch) == Does("print", PutChar(s, ch))
Control(c) == Does(c, C0(s, c))
Move(f, ps) == Does(f, CsiMove(s, f, ps))
Edit(f, ps) == Does(f, CsiEdit(s, f, ps))
Private(f, ps) == Does("private", CsiPrivate(s, f, ps))
Escape(f) == Does(IF f = "c" THEN "reset" ELSE "escape", Esc(s, f))
Resize(nr, nc) == <<nr, nc>> # <<s.rows, s.cols>> /\ Does("resize", VtResize(s, nr, nc))
HandOver == Does("handover", Handover(s))

Next ==
  \/ \E ch \in Narrow \cup Wide \cup ZeroWidth : Show(ch)
  \/ \E c \in Controls : Control(c)
  \/ \E m \in Moves : Move(m[1], m[2])
  \/ \E e \in Edits : Edit(e[1], e[2])
  \/ \E p \in Privates : Private(p[1], p[2])
  \/ \E f \in Escapes : Escape(f)
  \/ \E z \in Sizes : Resize(z[1], z[2])
  \/ HandOver

Spec == Init /\ [][Next]_vars

-----------------------------------------------------------------------------
Cell == Narrow \cup Wide \cup {Blank, Cont, Pad, Stale}
IsGrid(g) == DOMAIN g = 1..s.rows /\ \A r \in 1..s.rows : g[r] \in [1..s.cols -> Cell]

(* Whatever was printed, erased, scrolled, switched and resized, both grids  *)
(* and their wrap flags have the size of the screen, and the cursor, the two *)
(* saved cursors and the scroll region lie on it: nothing the emulator does  *)
(* next indexes outside an allocation.                                       *)
OnScreen ==
  /\ IsGrid(s.cells) /\ (s.alt = Null \/ IsGrid(s.alt)) /\ (s.inAlt => s.alt # Null)
  /\ \A f \in {s.flags, s.altFlags} : f = Null \/ f \in [1..s.rows -> BOOLEAN]
  /\ \A c \in {[row |-> s.row, col |-> s.col], s.altSaved,
               [row |-> s.saved.row, col |-> s.saved.col]} :
        c.row \in 1..s.rows /\ c.col \in 1..s.cols
  /\ s.top \in 1..s.bot /\ s.bot \in 1..s.rows
  /\ Len(s.hist) <= Cap

(* What a full-screen program does on the alternate screen leaves the        *)
(* primary screen, its wrap flags and the scrollback as they were, and       *)
(* coming back shows them again (the comments at alt_swap and scroll_up).    *)
PrimaryKept ==
  [][s.inAlt /\ op' \notin {"resize", "handover", "reset"} =>
       /\ s'.hist = s.hist
       /\ IF s'.inAlt THEN s'.alt = s.alt /\ s'.altFlags = s.altFlags
          ELSE s'.cells = s.alt /\ s'.flags = s.altFlags]_vars

(* Scrolling, inserting and deleting lines and printing change no row        *)
(* outside the scroll region except the cursor's: a status line a program    *)
(* keeps below its region survives.                                          *)
RegionKept ==
  [][op' \in {"print", "LF", "L", "M", "S", "T", "@", "P", "X", "K", "b"} =>
       \A r \in 1..s.rows :
          r \notin s.top..s.bot /\ r \notin {s.row, s'.row} =>
             s'.cells[r] = s.cells[r]]_vars

(* A resize that re-lays the text out keeps the cursor's row: its cells, cut *)
(* or padded to the new width, with the cursor on the cell it was on, and it *)
(* still continues the row above it if it did (the comment at reflow: the    *)
(* shell repaints its input from the first row of that line).                *)
PromptKept ==
  [][op' = "resize" /\ Reflows(s) =>
       LET w == Min({s.cols, s'.cols})
           col == s.col + (IF s.pend THEN 1 ELSE 0)
       IN  /\ s'.col = Min({col, s'.cols}) /\ ~s'.pend
           /\ \A c \in 1..w : \/ s'.cells[s'.row][c] = s.cells[s.row][c]
                              \/ c = s'.cols /\ s.cells[s.row][c] \in Wide
           /\ s.row > 1 /\ s'.row > 1 /\ Wraps(s, s.row - 1) => Wraps(s', s'.row - 1)]_vars

(* A row is marked as continuing on the next one only by a character printed *)
(* with the cursor at the right margin (src/_lib/vt.h:4, "line reached right *)
(* margin via autowrap").  The code breaks it: a wrap that is due on one     *)
(* screen is still due after a switch to the other, with the cursor moved.   *)
WrapAtMargin ==
  [][op' = "print" /\ s.row < s.bot /\ s.flags # Null =>
       \A r \in 1..s.rows : s'.flags[r] /\ ~s.flags[r] => s.col >= s.cols - 1]_vars

(* A handover leaves the receiving process with the screen the sending one   *)
(* had ("the complete VT parser + screen state", src/_lib/vt.h:185).  The    *)
(* code breaks it: the wrap flags and the scrollback are not sent.           *)
HandoverComplete == [][op' = "handover" => s' = s]_vars
=============================================================================
