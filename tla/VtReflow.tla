------------------------------ MODULE VtReflow ------------------------------
(* Resizing the screen (reflow, scr_resize, vt_resize of src/_lib/vt.c) and  *)
(* its passage to another process (vt_serialize, vt_deserialize).            *)
EXTENDS VtScreen

CONSTANT Stale    \* a cell that was never written: what malloc returned

(* The cursor's line: the rows from CursorFirst to CursorLast. *)
\* Mutant: only the cursor's row is kept, not its line.
CursorFirst_Row(s) == s.row
CursorFirst(s) == Min({r \in 1..s.row : \A k \in r .. s.row - 1 : Wraps(s, k)})
CursorLast(s) == Max({r \in s.row..s.rows : \A k \in s.row .. r - 1 : Wraps(s, k)})

(* The cells of rows `from' to `to' in one buffer, without the padding. *)
Run(s, from, to) ==
  SelectSeq(FlattenSeq(SubSeq(s.cells, from, to)), LAMBDA c : c # Pad)

(* The logical lines among the rows `from' to `to': each the run of rows     *)
(* joined by their flags, trimmed of its last blanks, with the cell that     *)
(* follows it in the buffer of all lines, where `beyond' comes after `to'.   *)
LinesOf(s, from, to, beyond) ==
  LET starts == SelectSeq([i \in 1 .. to - from + 1 |-> from + i - 1],
                          LAMBDA r : r = from \/ ~Wraps(s, r - 1))
      last(i) == IF i < Len(starts) THEN starts[i + 1] - 1 ELSE to
      line(i) == LET whole == Run(s, starts[i], last(i))
                     text == Trim(whole)
                 IN  [text |-> text,
                      next |-> (whole \o Run(s, last(i) + 1, to) \o <<beyond>>)[Len(text) + 1]]
  IN  [i \in DOMAIN starts |-> line(i)]

(* lay_line: the rows of one line at nc columns.  A wide character brings    *)
(* the cell after it, whatever that is.                                      *)
LayLine(line, nc) ==
  LET cell(i) == IF i <= Len(line.text) THEN line.text[i] ELSE line.next
      place(acc, i) ==
        LET w == IF line.text[i] \in Wide THEN 2 ELSE 1
            full == Len(acc.row) + w > nc
            cells == [k \in 1..w |-> cell(i + k - 1)]
        IN  CASE acc.skip -> [acc EXCEPT !.skip = FALSE]
              [] OTHER -> [skip |-> w = 2,
                           row |-> IF full THEN cells ELSE acc.row \o cells,
                           done |-> IF full
                                    THEN Append(acc.done, acc.row \o [k \in 1 .. nc - Len(acc.row) |-> Pad])
                                    ELSE acc.done]
      laid == FoldLeft(place, [done |-> <<>>, row |-> <<>>, skip |-> FALSE],
                       [i \in DOMAIN line.text |-> i])
      rows == Append(laid.done, laid.row \o Blanks(nc - Len(laid.row)))
  IN  [i \in DOMAIN rows |-> [cells |-> rows[i], wrap |-> i < Len(rows)]]
LayLines(lines, nc) == FlattenSeq([i \in DOMAIN lines |-> LayLine(lines[i], nc)])

(* The lines of a stretch of scrollback that ends with a newline, in cells:  *)
(* decode_text gives a wide character its second half.                       *)
DecodeText(text) ==
  FoldLeft(LAMBDA cells, c : cells \o (IF c \in Wide THEN <<c, Cont>> ELSE <<c>>), <<>>, text)
Split(text) ==
  FoldLeft(LAMBDA lines, c : IF c = NL THEN Append(lines, <<>>)
                             ELSE [lines EXCEPT ![Len(lines)] = Append(@, c)], <<<<>>>>, text)
HistoryLines(text) ==
  LET lines == Split(text)
  IN  [i \in 1 .. Len(lines) - 1 |-> [text |-> DecodeText(lines[i]), next |-> Blank]]
OpenAt(hist) == Max({0} \cup {i \in DOMAIN hist : hist[i] = NL})   \* cut

(* The rows of the cursor's line, cut or padded to nc columns. *)
FrozenRows(s, nc) ==
  LET cut(row) == [c \in 1..nc |-> IF c > s.cols \/ (c = nc /\ row[c] \in Wide)
                                   THEN Blank ELSE row[c]]
  IN  [k \in 1 .. CursorLast(s) - CursorFirst(s) + 1 |->
        LET r == CursorFirst(s) + k - 1 IN [cells |-> cut(s.cells[r]), wrap |-> Wraps(s, r)]]

(* The whole lines at the end of the scrollback that a taller screen takes   *)
(* back: as many as fit beside the `used' rows.                              *)
\* Mutant: lines are taken back although the last one is still open.
Pulled_Open(s, used, nr, nc) ==
  LET lines == HistoryLines(s.hist)
      tail(k) == SubSeq(lines, Len(lines) - k + 1, Len(lines))
      fits == {k \in 0..Len(lines) : Len(LayLines(tail(k), nc)) + used <= nr}
  IN  IF nr > s.rows THEN tail(Max({0} \cup fits)) ELSE <<>>
Pulled(s, used, nr, nc) ==
  LET lines == HistoryLines(s.hist)
      tail(k) == SubSeq(lines, Len(lines) - k + 1, Len(lines))
      fits == {k \in 0..Len(lines) : Len(LayLines(tail(k), nc)) + used <= nr}
  IN  IF nr > s.rows /\ OpenAt(s.hist) = Len(s.hist) THEN tail(Max({0} \cup fits)) ELSE <<>>
WithoutLines(hist, n) ==
  LET lines == Split(hist)
  IN  IF n = 0 THEN hist
      ELSE FlattenSeq([i \in 1 .. Len(lines) - 1 - n |-> Append(lines[i], NL)])

ResizeGrid(grid, nr, nc) ==
  [r \in 1..nr |-> [c \in 1..nc |-> IF r <= Len(grid) /\ c <= Len(grid[1])
                                    THEN grid[r][c] ELSE Blank]]
ResizeFlags(flags, nr) == [r \in 1..nr |-> r <= Len(flags) /\ flags[r]]
\* Mutant: the cursor saved by the alternate screen is left where it was.
ClampSaved_One(s) ==
  [s EXCEPT !.saved.row = Min({@, s.rows}), !.saved.col = Min({@, s.cols})]
ClampSaved(s) ==
  [s EXCEPT !.saved.row = Min({@, s.rows}), !.saved.col = Min({@, s.cols}),
            !.altSaved.row = Min({@, s.rows}), !.altSaved.col = Min({@, s.cols})]

(* The rows above the cursor's line, and those below it without the empty    *)
(* lines at the end.                                                         *)
Above(s, nc) ==
  LET first == Head(Append(Run(s, CursorLast(s) + 1, s.rows), Stale))
  IN  LayLines(LinesOf(s, 1, CursorFirst(s) - 1, first), nc)
Below(s, nc) ==
  LET below == LinesOf(s, CursorLast(s) + 1, s.rows, Stale)
      text == {i \in DOMAIN below : below[i].text # <<>>}
  IN  LayLines(IF text = {} THEN <<>> ELSE SubSeq(below, 1, Max(text)), nc)

(* All rows, of which those over the screen's height go to the scrollback,   *)
(* and then the cursor's.  Its last n lines are in `all'.                    *)
Fitted(s, nr, nc, n, all, cursor) ==
  LET over == Min({Max({0, Len(all) - nr}), cursor - 1})
      at(r) == IF over + r <= Len(all) THEN all[over + r] ELSE [cells |-> Blanks(nc), wrap |-> FALSE]
  IN  ClampSaved([s EXCEPT
        !.rows = nr, !.cols = nc, !.top = 1, !.bot = nr,
        !.cells = [r \in 1..nr |-> at(r).cells], !.flags = [r \in 1..nr |-> at(r).wrap],
        !.alt = IF @ = Null THEN Null ELSE ResizeGrid(@, nr, nc),
        !.hist = CaptureRows(WithoutLines(@, n), [i \in 1..over |-> all[i].cells],
                             [i \in 1..over |-> all[i].wrap]),
        !.row = Min({cursor - over, nr}),
        !.col = Min({@ + (IF s.pend THEN 1 ELSE 0), nc}), !.pend = FALSE])
Joined(s, nr, nc, n, before, after) ==
  Fitted(s, nr, nc, n, before \o after, Len(before) + s.row - CursorFirst(s) + 1)
WithPulled(s, nr, nc, pulled, above, after) ==
  Joined(s, nr, nc, Len(pulled), LayLines(pulled, nc) \o above, after)
WithRest(s, nr, nc, above, after) ==
  WithPulled(s, nr, nc, Pulled(s, Len(above) + Len(after), nr, nc), above, after)
Reflow(s, nr, nc) == WithRest(s, nr, nc, Above(s, nc), FrozenRows(s, nc) \o Below(s, nc))

(* The rest of scr_resize: what does not fit is cut off. *)
CutResize(s, nr, nc) ==
  LET whole == s.top = 1 /\ s.bot = s.rows
      top == IF whole \/ s.top > nr THEN 1 ELSE s.top
      bot == IF whole THEN nr ELSE Min({s.bot, nr})
  IN  ClampSaved([s EXCEPT
        !.rows = nr, !.cols = nc,
        !.cells = ResizeGrid(@, nr, nc),
        !.alt = IF @ = Null THEN Null ELSE ResizeGrid(@, nr, nc),
        !.flags = IF @ = Null THEN Null ELSE ResizeFlags(@, nr),
        !.row = Min({@, nr}), !.col = Min({@, nc}),
        !.pend = @ /\ s.row <= nr /\ s.col <= nc,
        !.top = top, !.bot = IF top > bot THEN nr ELSE bot])

Reflows(s) == ~s.inAlt /\ s.top = 1 /\ s.bot = s.rows
VtResize(s, nr, nc) ==
  LET sized == IF Reflows(s) THEN Reflow(s, nr, nc) ELSE CutResize(s, nr, nc)
  IN  IF nr = s.rows /\ nc = s.cols THEN s
      ELSE [sized EXCEPT !.altFlags = IF @ = Null THEN Null ELSE ResizeFlags(@, nr),
                         !.tabs = TabsReset(nc)]

(* vt_deserialize of what vt_serialize wrote: a fresh parser and screen of   *)
(* the same size, then every field the two wire structures hold, the cells   *)
(* and, if there was one, the other grid.                                    *)
Handover(s) ==
  [ScrInit(s.rows, s.cols) EXCEPT
     !.cells = s.cells, !.alt = s.alt, !.inAlt = s.inAlt, !.row = s.row, !.col = s.col,
     !.pend = s.pend, !.top = s.top, !.bot = s.bot, !.modes = s.modes, !.mouse = s.mouse,
     !.enc = s.enc, !.saved = s.saved, !.altSaved = s.altSaved, !.tabs = s.tabs]
=============================================================================
