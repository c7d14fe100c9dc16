------------------------------ MODULE MuxRender -----------------------------
(* The renderer of tmux (src/tmux/render.c): it draws a screen and a status  *)
(* row on the terminal by sending what differs from what it believes the     *)
(* terminal to show.  Its state and the terminal's are the record `d', the   *)
(* terminal (external) being d.t.  Rows and columns count from 1; 0 is a     *)
(* row or a column that is not known.                                        *)
EXTENDS Integers, Sequences, SequencesExt, FiniteSets

CONSTANTS
  \* Of the screen, at most 8 (CsiLen counts one digit) and two columns or
  \* more; the terminal has one more row, the status row.
  Rows, Cols,
  Wide,           \* the characters that take two columns
  Lines,          \* what a program may put into a row, and whether it shows
                  \* the cursor: [cells, wraps, visible]
  Bars,           \* the rows of cells the status row may be given
  Screens,        \* the screens of other windows, as sequences of Lines
  GapFill,        \* GAP_FILL_MAX
  EraseMin,       \* so many cells are sent rather than erased (3)
  MinSaving,      \* SCROLL_MIN_SAVING
  HideMin,        \* HIDE_MIN_CELLS
  MaxEdits        \* bound: changes of the screen between two drawings

VARIABLES
  scr,      \* the screen: cells, wraps (ROW_WRAPPED), row, col, visible
  d,        \* the renderer and the terminal
  edits     \* changes of the screen since it was drawn

vars == <<scr, d, edits>>

(* A cell is the character it shows and its style: the background and the   *)
(* attributes.                                                               *)
Default == <<"dfl", {}>>
Back(style) == style[1]
Attrs(style) == style[2]
Cell(ch, style) == <<ch, style>>
Char(cell) == cell[1]
Style(cell) == cell[2]
Blank == Cell(" ", Default)     \* BLANK_CELL
Unknown == Cell("?", Default)   \* the impossible value of alloc_shadow
Cont == "cont"                  \* CELL_WIDE_CONT
IsCont(cell) == Char(cell) = Cont
Width(cell) == IF Char(cell) \in Wide THEN 2 ELSE 1
\* (The empty tuple makes it one, which TLC updates better than a function.)
Times(x, n) == <<>> \o [k \in 1..n |-> x]
Row(cell) == Times(cell, Cols)
Grid(cell) == Times(Row(cell), Rows + 1)
NoWraps(n) == Times(FALSE, n)
Shown(cell) ==   \* cell_is_blank
  ~(Char(cell) = " " /\ Back(Style(cell)) = "dfl" /\ "reverse" \notin Attrs(Style(cell)))
Numbers(n) == [k \in 1..n |-> k]

-----------------------------------------------------------------------------
(* The terminal: cells, wraps, the cursor (row, col, pend), style, visible,  *)
(* and lost: whether its bottom line was scrolled.  Half of a wide character *)
(* that is written over takes the other half with it.                        *)

TermDown(t, n) ==   \* n line feeds
  IF t.row + n <= Rows + 1 THEN [t EXCEPT !.row = @ + n] ELSE [t EXCEPT !.row = Rows + 1, !.lost = TRUE]
TermWrap(t) == [TermDown([t EXCEPT !.wraps[t.row] = TRUE], 1) EXCEPT !.col = 1, !.pend = FALSE]
TermPrint(t, ch) ==
  LET w == IF ch \in Wide THEN 2 ELSE 1
      u == IF t.pend \/ t.col + w - 1 > Cols THEN TermWrap(t) ELSE t
      old == u.cells[u.row]   from == u.col   to == u.col + w - 1
  IN  [u EXCEPT
        !.cells[u.row] = [c \in 1..Cols |->
            IF c = from THEN Cell(ch, u.style) ELSE IF c = to THEN Cell(Cont, u.style)
            ELSE IF \/ c = from - 1 /\ IsCont(old[from])
                    \/ c = to + 1 /\ IsCont(old[c]) THEN Blank ELSE old[c]],
        !.col = IF to = Cols THEN Cols ELSE to + 1, !.pend = to = Cols]
TermGo(t, r, c) == [t EXCEPT !.row = r, !.col = c, !.pend = FALSE]
TermErase(t) ==   \* to the end of the line; from its first column it ends a wrap
  [t EXCEPT !.cells[t.row] = SubSeq(@, 1, t.col - 1) \o [c \in 1 .. Cols - t.col + 1 |-> Cell(" ", <<Back(t.style), {}>>)],
            !.wraps[t.row] = @ /\ t.col > 1]

\* src_row, for a screen moved up by shift (down if negative): 0 for none.
SrcRow(r, shift) == IF r + shift \in 1..Rows THEN r + shift ELSE 0
Moved(seq, shift, fill) ==
  (IF shift > 0 THEN SubSeq(seq, 1 + shift, Rows) \o Times(fill, shift)
   ELSE Times(fill, -shift) \o SubSeq(seq, 1, Rows + shift)) \o SubSeq(seq, Rows + 1, Len(seq))
TermScroll(t, shift) ==
  [TermGo(t, 1, 1) EXCEPT !.cells = Moved(@, shift, Row(Blank)), !.wraps = Moved(@, shift, FALSE)]

-----------------------------------------------------------------------------
(* What is sent *)

CsiLen(n) == IF n = 1 THEN 3 ELSE 4
\* The shorter of the two ways to (r, c): CUP, or a vertical move and a
\* horizontal one from where the cursor is believed to be.
EmitMove(x, r, c) ==
  LET known == x.col \in 1..Cols
      dr == r - x.row
      vert == IF dr \in 0..3 THEN dr ELSE CsiLen(IF dr > 0 THEN dr ELSE -dr)
      horiz == IF c = 1 THEN 1 ELSE IF known /\ c < x.col /\ x.col - c <= 3 THEN x.col - c
               ELSE IF known /\ c > x.col THEN CsiLen(c - x.col)
               ELSE IF known /\ c = x.col THEN 0 ELSE CsiLen(c)
      cup == 3 + (IF r > 1 THEN 1 ELSE 0) + (IF c > 1 THEN 2 ELSE 0)
      vertically == IF dr \in 0..3 THEN TermDown(x.t, dr) ELSE [x.t EXCEPT !.row = @ + dr, !.pend = FALSE]
      there == [vertically EXCEPT !.col = IF c = 1 \/ ~known THEN c ELSE @ + c - x.col,
                                  !.pend = @ /\ known /\ c = x.col /\ c > 1]
  IN  IF x.row = r /\ x.col = c THEN x
      ELSE [x EXCEPT !.row = r, !.col = c,
              !.t = IF x.row > 0 /\ vert + horiz < cup THEN there ELSE TermGo(@, r, c)]

\* sgr_params with inc: what is new in a style, sent to a terminal that has one.
Added(on, old, new) ==
  <<IF Back(new) = Back(old) THEN Back(on) ELSE Back(new), Attrs(on) \cup (Attrs(new) \ Attrs(old))>>
\* What is new, if no attribute must go; otherwise a reset and all of it.
\* (Where the reset is the shorter it is sent, to the same effect.)
EmitSgr(x, style) ==
  [x EXCEPT !.style = style,
            !.t.style = IF style = x.style THEN @
                        ELSE IF Attrs(x.style) \subseteq Attrs(style) THEN Added(@, x.style, style)
                        ELSE style]

Printed(x, r, c, cell) ==
  [x EXCEPT
    !.t = TermPrint(@, IF IsCont(cell) THEN " " ELSE Char(cell)),
    !.shadow[r] = [k \in 1..Cols |-> IF k = c THEN cell
                      ELSE IF k = c + 1 /\ Width(cell) = 2 THEN Cell(Cont, Style(cell)) ELSE x.shadow[r][k]],
    !.row = r, !.col = c + Width(cell)]
PutCell(x, r, c, cell, move) ==
  Printed(EmitSgr(IF move THEN EmitMove(x, r, c) ELSE x, Style(cell)), r, c, cell)

\* Blanks over a short gap since what was printed last.
FillGap(x, row, r, c) ==
  LET after[k \in x.col .. c] == IF k = x.col THEN x.t ELSE TermPrint(after[k - 1], " ")
  IN  IF /\ x.row = r /\ x.col \in 1..c-1 /\ c - x.col <= GapFill /\ x.style = Default
         /\ \A k \in x.col .. c - 1 : ~Shown(row[k])
      THEN [x EXCEPT !.t = after[c], !.col = c] ELSE x

\* An erase to the end of the row, which the shadow has from c on.
Erased(x, r, c, rest) == [x EXCEPT !.t = TermErase(@), !.shadow[r] = SubSeq(@, 1, c - 1) \o rest]
EraseTail(x, r, c, rest) == Erased(EmitSgr(EmitMove(x, r, c), Default), r, c, rest)

\* draw_row, a column at a time: x, whether the wrap was made, whether the row
\* is done.  What follows a cell that reaches the last column:
AtEnd(w, y, r, wrapped, below) ==
  IF y.col <= Cols THEN [w EXCEPT !.x = y]
  ELSE IF wrapped THEN [w EXCEPT !.x = PutCell(y, r + 1, 1, below[1], FALSE), !.made = TRUE]
  ELSE [w EXCEPT !.x = [y EXCEPT !.col = 0]]
Column(w, row, r, wrapped, force, below, c) ==
  LET cell == row[c]
      rest == ~wrapped /\ Cols - c + 1 > EraseMin /\ \A k \in c..Cols : ~Shown(row[k])
  IN  IF w.done THEN w
      ELSE IF IsCont(cell) THEN [w EXCEPT !.x.shadow[r][c] = cell]
      ELSE IF c # force /\ cell = w.x.shadow[r][c] THEN w
      ELSE IF rest THEN [w EXCEPT !.x = EraseTail(@, r, c, SubSeq(row, c, Cols)), !.done = TRUE]
      ELSE AtEnd(w, PutCell(FillGap(w.x, row, r, c), r, c, cell, TRUE), r, wrapped, below)
DrawRow(x, row, r, wrapped, force, below) ==
  LET after[c \in 0..Cols] ==
        IF c = 0 THEN [x |-> x, made |-> FALSE, done |-> FALSE]
        ELSE Column(after[c - 1], row, r, wrapped, force, below, c)
  IN  after[Cols]

-----------------------------------------------------------------------------
(* A frame *)

RowWantsWrap(s, r) == r < Rows /\ s.wraps[r]
WrapCellCol(s, r) == IF IsCont(s.cells[r][Cols]) THEN Cols - 1 ELSE Cols
FlagsDiffer(x, s) == \E r \in 1..Rows : RowWantsWrap(s, r) # x.wrapped[r]

CountChanged(x, s, shift) ==
  Cardinality({rc \in (1..Rows) \X (1..Cols) :
    LET cell == s.cells[rc[1]][rc[2]]   src == SrcRow(rc[1], shift)
    IN  ~IsCont(cell) /\ cell # (IF src = 0 THEN Blank ELSE x.shadow[src][rc[2]])})
StatusChanged(x) ==
  IF x.status = <<>> THEN 0 ELSE Cardinality({c \in 1..Cols : x.status[c] # x.shadow[Rows + 1][c]})

\* maybe_scroll: the shift that matches the most rows, upward and the smaller first.
Matching(x, s, shift) ==
  Cardinality({r \in 1..Rows : SrcRow(r, shift) > 0 /\ x.shadow[SrcRow(r, shift)] = s.cells[r]})
Shifts == [k \in 1 .. 2 * (Rows - 1) |-> IF k % 2 = 1 THEN (k + 1) \div 2 ELSE -(k \div 2)]
BestShift(x, s) ==
  FoldLeft(LAMBDA best, i :
      LET m == Matching(x, s, i) IN IF m > best.rows THEN [rows |-> m, shift |-> i] ELSE best,
    [rows |-> 0, shift |-> 0], Shifts)
ScrollLines(x, shift) ==
  LET y == EmitSgr(x, Default)
  IN  [y EXCEPT !.t = TermScroll(@, shift), !.row = 1, !.col = 1,
         !.shadow = Moved(@, shift, Row(Blank)), !.wrapped = Moved(@, shift, FALSE)]
MaybeScroll(x, s) ==
  LET base == CountChanged(x, s, 0)   best == BestShift(x, s)
  IN  IF Rows >= 2 /\ base >= MinSaving /\ best.rows >= 2
           /\ base - CountChanged(x, s, best.shift) >= MinSaving
      THEN ScrollLines(x, best.shift) ELSE x

ClearRowFlag(x, r) == [EraseTail(x, r, 1, Row(Blank)) EXCEPT !.wrapped[r] = FALSE]
RowDone(w, r) == [w.x EXCEPT !.wrapped[r] = @ \/ w.made]
DrawScreenRow(x, s, r, want) ==
  RowDone(DrawRow(x, s.cells[r], r, want, IF want /\ ~x.wrapped[r] THEN WrapCellCol(s, r) ELSE 0,
                  IF want THEN s.cells[r + 1] ELSE <<>>), r)
\* Mutant: a wrap that is gone is left on the terminal.
ScreenRow_Stale(x, s, r) == DrawScreenRow(x, s, r, RowWantsWrap(s, r))
ScreenRow(x, s, r) ==
  LET want == RowWantsWrap(s, r)
  IN  DrawScreenRow(IF x.wrapped[r] /\ ~want THEN ClearRowFlag(x, r) ELSE x, s, r, want)

CursorOk(x, s) == x.visible = s.visible /\ (s.visible => x.row = s.row /\ x.col = s.col)
Hide(x, s) ==
  IF x.visible /\ CountChanged(x, s, 0) + StatusChanged(x) >= HideMin
  THEN [x EXCEPT !.visible = FALSE, !.t.visible = FALSE] ELSE x
DrawStatus(x) ==
  IF StatusChanged(x) = 0 THEN x ELSE DrawRow(x, x.status, Rows + 1, FALSE, 0, <<>>).x
DrawScreen(x, s) ==
  LET after[r \in 0..Rows] == IF r = 0 THEN x ELSE ScreenRow(after[r - 1], s, r)
  IN  after[Rows]
Park(x, s) ==
  [IF s.visible THEN EmitMove(x, s.row, s.col) ELSE x
     EXCEPT !.visible = s.visible, !.t.visible = IF s.visible # x.visible THEN s.visible ELSE @]
RenderScreen(x, s) ==
  IF CountChanged(x, s, 0) + StatusChanged(x) = 0 /\ CursorOk(x, s) /\ ~FlagsDiffer(x, s) THEN x
  ELSE Park(EmitSgr(DrawStatus(DrawScreen(Hide(MaybeScroll(x, s), s), s)), Default), s)

RenderFullRedraw(x, s) ==
  RenderScreen(
    [x EXCEPT !.wrapped = NoWraps(Rows), !.style = Default, !.row = 1, !.col = 1,
       !.shadow = Grid(Blank),
       !.t = [TermGo(@, 1, 1) EXCEPT !.style = Default, !.cells = Grid(Blank),
                                     !.wraps = NoWraps(Rows + 1)]], s)

\* render_status_row, the first time, and status_cells
RenderStatusRow(x, bar) ==
  [x EXCEPT !.status = bar, !.shadow[Rows + 1] = IF x.status = <<>> THEN Row(Unknown) ELSE @]

\* render_init, on a terminal that shows something
RenderInit ==
  [shadow |-> Grid(Unknown), wrapped |-> NoWraps(Rows),
   status |-> <<>>, row |-> 0, col |-> 0, style |-> Default, visible |-> TRUE,
   t |-> [cells |-> Grid(Unknown), wraps |-> NoWraps(Rows + 1),
          row |-> 2, col |-> 2, pend |-> FALSE, style |-> Default, visible |-> TRUE, lost |-> FALSE]]

-----------------------------------------------------------------------------

ScreenOf(lines) ==
  [cells |-> <<>> \o [r \in 1..Rows |-> lines[r].cells],
   wraps |-> <<>> \o [r \in 1..Rows |-> lines[r].wraps],
   row |-> 1, col |-> 1, visible |-> TRUE]

Init ==
  /\ \E lines \in Screens : scr = ScreenOf(lines)
  /\ \E bar \in Bars : d = RenderStatusRow(RenderInit, bar)
  /\ edits = MaxEdits

\* The program: a row written, the screen moved up or down, the cursor.
Edit(s) == edits < MaxEdits /\ edits' = edits + 1 /\ scr' = s /\ UNCHANGED d
Write(r, line) ==
  Edit([scr EXCEPT !.cells[r] = line.cells, !.wraps[r] = line.wraps,
                   !.row = r, !.col = Cols - 1, !.visible = line.visible])
Scroll(shift, line) ==
  Edit([scr EXCEPT !.cells = Moved(@, shift, line.cells), !.wraps = Moved(@, shift, line.wraps)])
\* Another window, or the scrollback viewer
Switch(lines) == Edit(ScreenOf(lines))

Drawn(x) == d' = x /\ edits' = 0 /\ UNCHANGED scr
\* What a program wrote is drawn.
Draw == edits > 0 /\ Drawn(RenderScreen(d, scr))
\* set_status: on every way to a drawing but the main loop's own
SetStatus(bar) ==
  /\ bar # d.status /\ edits = 0 /\ edits' = MaxEdits /\ d' = RenderStatusRow(d, bar)
  /\ UNCHANGED scr
FullRedraw == Drawn(RenderFullRedraw(d, scr))

Next ==
  \/ \E r \in 1..Rows, line \in Lines : Write(r, line)
  \/ \E shift \in {1, -1}, line \in Lines : Scroll(shift, line)
  \/ \E lines \in Screens : Switch(lines)
  \/ Draw \/ FullRedraw \/ \E bar \in Bars : SetStatus(bar)

Spec == Init /\ [][Next]_vars

-----------------------------------------------------------------------------
\* How a cell looks: one that shows nothing is as good as a blank.
Look(cell) == IF Shown(cell) THEN cell ELSE Blank
LooksAs(a, b) == \A c \in 1..Cols : Look(a[c]) = Look(b[c])

(* Whatever was sent and left out, moved over, erased or scrolled: when a    *)
(* frame is done the terminal shows the screen and the status row, wraps the *)
(* rows that wrap and no others (so that a selection copies lines whole),    *)
(* has the cursor where the screen has it, and nothing was scrolled away.    *)
TerminalShows ==
  edits = 0 =>
    /\ \A r \in 1..Rows : LooksAs(d.t.cells[r], scr.cells[r])
    /\ d.status # <<>> => LooksAs(d.t.cells[Rows + 1], d.status)
    /\ \A r \in 1..Rows : d.t.wraps[r] = RowWantsWrap(scr, r)
    /\ d.t.visible = scr.visible
    /\ scr.visible => d.t.row = scr.row /\ d.t.col = scr.col /\ ~d.t.pend
    /\ d.t.style = Default /\ ~d.t.lost
=============================================================================
