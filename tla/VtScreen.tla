------------------------------ MODULE VtScreen ------------------------------
(* The screen of the terminal emulator (src/_lib/vt.c): two grids of cells,  *)
(* the wrap flags of their rows, the cursor, the scroll region, the modes    *)
(* and the scrollback, as a record `s', and the operations of the program's  *)
(* output on it.  Rows and columns count from 1.  A cell is the character it *)
(* shows: a wide one is its first half followed by Cont, and Pad is the      *)
(* blank that a wide one leaves at the margin.  Colours and attributes are   *)
(* left to VtParser; no operation here looks at them.                        *)
EXTENDS Integers, Sequences, SequencesExt, FiniteSetsExt

CONSTANTS
  Narrow, Wide, ZeroWidth,  \* the characters, by the columns they take
  Cap,                      \* SCROLLBACK_BYTES, in characters
  TabStop                   \* distance of the tab stops (8)

Blank == " "
Cont == "cont"     \* CELL_WIDE_CONT
Pad == "pad"       \* CELL_PAD
NL == "nl"         \* the newline that ends a line of the scrollback
None == "none"     \* last_graphic before anything was printed
Null == <<>>       \* a grid or an array of flags that was never allocated

Width(ch) == IF ch \in Wide THEN 2 ELSE IF ch \in ZeroWidth THEN 0 ELSE 1
Clamp(x, lo, hi) == IF x < lo THEN lo ELSE IF x > hi THEN hi ELSE x
Blanks(n) == [i \in 1..n |-> Blank]
Grid(rows, cols) == [r \in 1..rows |-> Blanks(cols)]
NoFlags(rows) == [r \in 1..rows |-> FALSE]
TabsReset(cols) == {c \in 1..cols : (c - 1) % TabStop = 0}

(* scr_init and tabs_reset.  What memset leaves of the saved cursor is the   *)
(* home position with autowrap off.                                          *)
ScrInit(rows, cols) ==
  [rows |-> rows, cols |-> cols, cells |-> Grid(rows, cols), flags |-> NoFlags(rows),
   alt |-> Null, altFlags |-> Null, inAlt |-> FALSE, hist |-> <<>>,
   row |-> 1, col |-> 1, pend |-> FALSE, top |-> 1, bot |-> rows,
   modes |-> {"autowrap", "visible"}, mouse |-> 0, enc |-> 0,
   saved |-> [row |-> 1, col |-> 1, wrap |-> FALSE],
   altSaved |-> [row |-> 1, col |-> 1],
   tabs |-> TabsReset(cols), last |-> None]

Wraps(s, r) == s.flags # Null /\ s.flags[r]
ClearRow(s, r, from, to) ==
  [s EXCEPT !.cells[r] = [c \in 1..s.cols |-> IF c \in from..to THEN Blank ELSE @[c]]]
ClearRows(s, R) ==
  [s EXCEPT !.cells = [r \in 1..s.rows |-> IF r \in R THEN Blanks(s.cols) ELSE @[r]]]
Unflag(s, R) ==
  IF s.flags = Null THEN s ELSE [s EXCEPT !.flags = [r \in 1..s.rows |-> r \notin R /\ @[r]]]

-----------------------------------------------------------------------------
(* Scrolling *)

Trim(text) ==
  LET used == {i \in DOMAIN text : text[i] # Blank}
  IN  IF used = {} THEN <<>> ELSE SubSeq(text, 1, Max(used))
CellText(row) == SelectSeq(row, LAMBDA c : c \notin {Cont, Pad})
RowText(row, wrapped) ==
  IF wrapped THEN CellText(row) ELSE Append(Trim(CellText(row)), NL)

(* The text goes at the end of the scrollback, whole lines leaving at the    *)
(* front until it fits; with no line to drop everything goes.                *)
\* Mutant: a full scrollback is emptied.
Capture_Empties(hist, text) == (IF Len(hist) + Len(text) <= Cap THEN hist ELSE <<>>) \o text
Capture(hist, text) ==
  LET cuts == {0} \cup {i \in DOMAIN hist : hist[i] = NL}
      room == {k \in cuts : Len(hist) - k + Len(text) <= Cap}
  IN  (IF room = {} THEN <<>> ELSE SubSeq(hist, Min(room) + 1, Len(hist))) \o text
CaptureRows(hist, rows, flags) ==
  FoldLeftDomain(LAMBDA h, r : Capture(h, RowText(rows[r], flags # Null /\ flags[r])), hist, rows)

ShiftUp(seq, top, bot, n, fill) ==
  SubSeq(seq, 1, top - 1) \o SubSeq(seq, top + n, bot) \o [i \in 1..n |-> fill]
    \o SubSeq(seq, bot + 1, Len(seq))
ShiftDown(seq, top, bot, n, fill) ==
  SubSeq(seq, 1, top - 1) \o [i \in 1..n |-> fill] \o SubSeq(seq, top, bot - n)
    \o SubSeq(seq, bot + 1, Len(seq))

\* Mutant: a full-screen program scrolls its lines into the scrollback.
ScrollUp_Alt(s, lines) ==
  LET n == Min({lines, s.bot - s.top + 1})
  IN  [s EXCEPT !.cells = ShiftUp(@, s.top, s.bot, n, Blanks(s.cols)),
                !.flags = IF @ = Null THEN Null ELSE ShiftUp(@, s.top, s.bot, n, FALSE),
                !.hist = IF s.top = 1 THEN CaptureRows(@, SubSeq(s.cells, 1, n), s.flags) ELSE @]
\* Mutant: the screen scrolls below the region too.
ScrollUp_Below(s, lines) ==
  LET n == Min({lines, s.rows - s.top + 1})
      captured == s.top = 1 /\ ~s.inAlt
  IN  [s EXCEPT !.cells = ShiftUp(@, s.top, s.rows, n, Blanks(s.cols)),
                !.hist = IF captured THEN CaptureRows(@, SubSeq(s.cells, 1, n), s.flags) ELSE @]
ScrollUp(s, lines) ==
  LET n == Min({lines, s.bot - s.top + 1})
      captured == s.top = 1 /\ ~s.inAlt
  IN  [s EXCEPT !.cells = ShiftUp(@, s.top, s.bot, n, Blanks(s.cols)),
                !.flags = IF @ = Null THEN Null ELSE ShiftUp(@, s.top, s.bot, n, FALSE),
                !.hist = IF captured THEN CaptureRows(@, SubSeq(s.cells, 1, n), s.flags) ELSE @]
ScrollDown(s, lines) ==
  LET n == Min({lines, s.bot - s.top + 1})
  IN  [s EXCEPT !.cells = ShiftDown(@, s.top, s.bot, n, Blanks(s.cols)),
                !.flags = IF @ = Null THEN Null ELSE ShiftDown(@, s.top, s.bot, n, FALSE)]

-----------------------------------------------------------------------------
(* The cursor, and a character *)

CursorSet(s, row, col) ==
  LET confined == "origin" \in s.modes
  IN  [s EXCEPT !.row = Clamp(row, IF confined THEN s.top ELSE 1,
                                   IF confined THEN s.bot ELSE s.rows),
                !.col = Clamp(col, 1, s.cols),
                !.pend = FALSE]
DoLf(s) ==
  LET moved == IF s.row = s.bot THEN ScrollUp(s, 1)
               ELSE [s EXCEPT !.row = Min({@ + 1, s.rows})]
  IN  [moved EXCEPT !.pend = FALSE]
DoRi(s) ==
  LET moved == IF s.row = s.top THEN ScrollDown(s, 1)
               ELSE [s EXCEPT !.row = Max({@ - 1, 1})]
  IN  [moved EXCEPT !.pend = FALSE]

Wrap(s) ==
  LET flagged == IF s.flags = Null THEN s ELSE [s EXCEPT !.flags[s.row] = TRUE]
  IN  DoLf([flagged EXCEPT !.col = 1])

InsertBlanks(row, col, n) ==
  SubSeq(row, 1, col - 1) \o Blanks(n) \o SubSeq(row, col, Len(row) - n)
DeleteCells(row, col, n) ==
  SubSeq(row, 1, col - 1) \o SubSeq(row, col + n, Len(row)) \o Blanks(n)

Store(s, ch, w) ==
  LET row == IF "insert" \in s.modes THEN InsertBlanks(s.cells[s.row], s.col, w)
             ELSE s.cells[s.row]
  IN  [s EXCEPT !.cells[s.row] = [c \in DOMAIN row |-> IF c = s.col THEN ch
                                    ELSE IF w = 2 /\ c = s.col + 1 THEN Cont ELSE row[c]],
                !.col = Min({@ + w, s.cols}),
                !.pend = s.col + w > s.cols]

PutChar(s, ch) ==
  LET w == Width(ch)
      wrapping == "autowrap" \in s.modes
      due == IF s.pend /\ wrapping THEN Wrap(s) ELSE [s EXCEPT !.pend = FALSE]
      tight == w = 2 /\ due.col >= due.cols
      padded == [due EXCEPT !.cells[due.row][due.col] = Pad]
      ready == IF ~tight THEN due ELSE IF wrapping THEN Wrap(padded) ELSE padded
      done == IF tight /\ ~wrapping THEN padded ELSE Store(ready, ch, w)
  IN  IF w = 0 THEN s ELSE [done EXCEPT !.last = ch]

(* handle_c0 *)
Tab(s) ==
  LET stops == {c \in s.tabs : c > s.col} \cup {s.cols}
  IN  [s EXCEPT !.col = Min(stops), !.pend = FALSE]
C0(s, c) ==
  CASE c = "BS" -> IF s.col > 1 THEN [s EXCEPT !.col = @ - 1, !.pend = FALSE] ELSE s
    [] c = "HT" -> Tab(s)
    [] c = "LF" -> DoLf(s)
    [] c = "CR" -> [s EXCEPT !.col = 1, !.pend = FALSE]
    [] OTHER -> s

-----------------------------------------------------------------------------
(* dispatch_csi: the final byte f with the parameters ps *)

P(ps, i, def) == IF i <= Len(ps) /\ ps[i] > 0 THEN ps[i] ELSE def
Times(s, n, Op(_)) == FoldLeft(LAMBDA x, i : Op(x), s, [i \in 1..n |-> i])

BackTab(s, n) ==
  LET back(x) == IF x.col = 1 THEN x
                 ELSE [x EXCEPT !.col = Max({1} \cup {c \in s.tabs : c < x.col})]
  IN  [Times(s, n, back) EXCEPT !.pend = FALSE]

EraseDisplay(s, m) ==
  CASE m = 0 -> Unflag(ClearRows(ClearRow(s, s.row, s.col, s.cols), s.row + 1 .. s.rows),
                       s.row .. s.rows)
    [] m = 1 -> Unflag(ClearRow(ClearRows(s, 1 .. s.row - 1), s.row, 1, s.col), 1 .. s.row - 1)
    [] m \in {2, 3} -> Unflag(ClearRows(s, 1 .. s.rows), 1 .. s.rows)
    [] OTHER -> s
EraseLine(s, m) ==
  CASE m = 0 -> Unflag(ClearRow(s, s.row, s.col, s.cols), {s.row})
    [] m = 1 -> ClearRow(s, s.row, 1, s.col)
    [] m = 2 -> ClearRow(s, s.row, 1, s.cols)
    [] OTHER -> s

InRegion(s) == s.row \in s.top .. s.bot
FromCursor(s, Scroll(_, _), n) ==   \* IL and DL: the region shrunk to start at the cursor
  LET moved == IF InRegion(s)
               THEN [Scroll([s EXCEPT !.top = s.row], n) EXCEPT !.top = s.top] ELSE s
  IN  [moved EXCEPT !.col = 1, !.pend = FALSE]
EditRow(s, Edit(_, _, _), n) ==
  [s EXCEPT !.cells[s.row] = Edit(@, s.col, Min({n, s.cols - s.col + 1}))]

SetRegion(s, top, bot) ==
  LET b == Min({bot, s.rows})
      set == IF top < b THEN [s EXCEPT !.top = top, !.bot = b] ELSE s
  IN  CursorSet(set, IF "origin" \in s.modes THEN set.top ELSE 1, 1)

SaveCursor(s) ==
  [s EXCEPT !.saved = [row |-> s.row, col |-> s.col, wrap |-> "autowrap" \in s.modes]]
SetMode(s, m, on) == [s EXCEPT !.modes = IF on THEN @ \cup {m} ELSE @ \ {m}]
RestoreCursor(s) ==
  [SetMode(s, "autowrap", s.saved.wrap) EXCEPT !.row = s.saved.row, !.col = s.saved.col,
                                               !.pend = FALSE]

CsiMove(s, f, ps) ==
  LET n == P(ps, 1, 1)
  IN  CASE f = "A" -> CursorSet(s, s.row - n, s.col)
        [] f = "B" -> CursorSet(s, s.row + n, s.col)
        [] f = "C" -> CursorSet(s, s.row, s.col + n)
        [] f = "D" -> CursorSet(s, s.row, s.col - n)
        [] f = "E" -> CursorSet(s, s.row + n, 1)
        [] f = "F" -> CursorSet(s, s.row - n, 1)
        [] f = "G" -> CursorSet(s, s.row, n)
        [] f = "d" -> CursorSet(s, n, s.col)
        [] f = "H" -> CursorSet(s, n + (IF "origin" \in s.modes THEN s.top - 1 ELSE 0), P(ps, 2, 1))
        [] f = "I" -> Times(s, n, Tab)
        [] f = "Z" -> BackTab(s, n)
        [] f = "r" -> SetRegion(s, n, P(ps, 2, s.rows))
        [] f = "s" -> SaveCursor(s)
        [] f = "u" -> RestoreCursor(s)
CsiEdit(s, f, ps) ==
  LET n == P(ps, 1, 1)
  IN  CASE f = "J" -> EraseDisplay(s, P(ps, 1, 0))
        [] f = "K" -> EraseLine(s, P(ps, 1, 0))
        [] f = "X" -> ClearRow(s, s.row, s.col, s.col + n - 1)
        [] f = "b" -> IF s.last = None THEN s ELSE Times(s, n, LAMBDA x : PutChar(x, s.last))
        [] f = "@" -> EditRow(s, InsertBlanks, n)
        [] f = "P" -> EditRow(s, DeleteCells, n)
        [] f = "L" -> FromCursor(s, ScrollDown, n)
        [] f = "M" -> FromCursor(s, ScrollUp, n)
        [] f = "S" -> ScrollUp(s, n)
        [] f = "T" -> ScrollDown(s, n)
        [] f = "h" -> IF P(ps, 1, 0) = 4 THEN SetMode(s, "insert", TRUE) ELSE s
        [] f = "l" -> IF P(ps, 1, 0) = 4 THEN SetMode(s, "insert", FALSE) ELSE s
        [] f = "g" -> [s EXCEPT !.tabs = CASE P(ps, 1, 0) = 0 -> @ \ {s.col}
                                           [] P(ps, 1, 0) = 3 -> {}
                                           [] OTHER -> @]

-----------------------------------------------------------------------------
(* dispatch_csi with the private marker, and dispatch_esc *)

AltEnter(s) ==
  [s EXCEPT !.cells = Grid(s.rows, s.cols), !.flags = NoFlags(s.rows),
            !.alt = s.cells, !.altFlags = s.flags, !.inAlt = TRUE,
            !.altSaved = [row |-> s.row, col |-> s.col],
            !.row = 1, !.col = 1, !.top = 1, !.bot = s.rows]
AltLeave(s) ==
  [s EXCEPT !.cells = s.alt, !.flags = s.altFlags, !.alt = s.cells, !.altFlags = s.flags,
            !.inAlt = FALSE, !.row = s.altSaved.row, !.col = s.altSaved.col]

MouseMode == [v \in {1000, 1002, 1003} |-> IF v = 1000 THEN 1 ELSE v - 1000]
PlainMode == [v \in {1, 7, 25, 2004} |->
                CASE v = 1 -> "app" [] v = 7 -> "autowrap" [] v = 25 -> "visible" [] OTHER -> "paste"]

PrivSet(s, v) ==
  CASE v \in DOMAIN PlainMode -> SetMode(s, PlainMode[v], TRUE)
    [] v = 6 -> CursorSet(SetMode(s, "origin", TRUE), s.top, 1)
    [] v \in {47, 1047, 1049} -> IF s.inAlt THEN s ELSE AltEnter(s)
    [] v \in DOMAIN MouseMode -> [s EXCEPT !.mouse = MouseMode[v]]
    [] v = 1006 -> [s EXCEPT !.enc = 2]
    [] OTHER -> s
PrivReset(s, v) ==
  CASE v \in DOMAIN PlainMode -> SetMode(s, PlainMode[v], FALSE)
    [] v = 6 -> CursorSet(SetMode(s, "origin", FALSE), 1, 1)
    [] v \in {47, 1047, 1049} -> IF s.inAlt THEN AltLeave(s) ELSE s
    [] v \in DOMAIN MouseMode -> [s EXCEPT !.mouse = 0]
    [] v = 1006 -> [s EXCEPT !.enc = IF @ = 2 THEN 0 ELSE @]
    [] OTHER -> s
CsiPrivate(s, f, ps) ==
  FoldLeft(LAMBDA x, v : IF f = "h" THEN PrivSet(x, v) ELSE PrivReset(x, v), s, ps)

Esc(s, f) ==
  CASE f = "7" -> SaveCursor(s)
    [] f = "8" -> RestoreCursor(s)
    [] f = "D" -> DoLf(s)
    [] f = "E" -> DoLf([s EXCEPT !.col = 1])
    [] f = "H" -> [s EXCEPT !.tabs = @ \cup {s.col}]
    [] f = "M" -> DoRi(s)
    [] f = "c" -> [ScrInit(s.rows, s.cols) EXCEPT !.last = s.last]
    [] OTHER -> s
=============================================================================
