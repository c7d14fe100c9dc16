------------------------------ MODULE VtParser ------------------------------
(* The parser of the terminal emulator (vt_feed of src/_lib/vt.c and what it *)
(* calls): a byte at a time, with the state it carries from one byte to the  *)
(* next, the event each byte gives the screen, and the colours and           *)
(* attributes (the pen), which handle_sgr sets.                              *)
EXTENDS Integers, Sequences, SequencesExt

CONSTANTS
  Bytes,       \* the bytes the program may send, of 0..255
  MaxParams,   \* VT_MAX_PARAMS (16)
  MaxInter,    \* VT_MAX_INTER
  Guard,       \* a parameter takes no digit once it is this large (16384)
  MaxOsc       \* VT_MAX_OSC

VARIABLE p   \* the parser, the pen and the event of the last byte

ESC == 27
CAN == 24
SUB == 26
BEL == 7
ST == 156
Nothing == <<>>

Bold == 1
Dim == 2
DefaultPen == [fg |-> "default", bg |-> "default", attrs |-> {}]
BlackPen == [fg |-> 0, bg |-> 0, attrs |-> {}]   \* what memset leaves of a saved one
Fresh ==
  [state |-> "ground", params |-> <<>>, inter |-> 0, priv |-> FALSE, osc |-> <<>>,
   utf8 |-> <<>>, want |-> 0, dec |-> FALSE, escInter |-> 0,
   pen |-> DefaultPen, saved |-> BlackPen, altSaved |-> BlackPen, inAlt |-> FALSE,
   out |-> Nothing]

-----------------------------------------------------------------------------
(* handle_sgr: a parameter, and those of a colour it takes with it *)

SgrOne(pen, v) ==
  CASE v = 0 -> DefaultPen
    [] v \in {1, 2, 3, 4, 5, 7, 8, 9} -> [pen EXCEPT !.attrs = @ \cup {v}]
    [] v = 22 -> [pen EXCEPT !.attrs = @ \ {Bold, Dim}]
    [] v \in {23, 24, 25, 27, 28, 29} -> [pen EXCEPT !.attrs = @ \ {v - 20}]
    [] v = 39 -> [pen EXCEPT !.fg = "default"]
    [] v = 49 -> [pen EXCEPT !.bg = "default"]
    [] v \in 30..37 -> [pen EXCEPT !.fg = v - 30]
    [] v \in 40..47 -> [pen EXCEPT !.bg = v - 40]
    [] v \in 90..97 -> [pen EXCEPT !.fg = v - 90 + 8]
    [] v \in 100..107 -> [pen EXCEPT !.bg = v - 100 + 8]
    [] OTHER -> pen
Indexed(ps, i) == ps[i] \in {38, 48} /\ i + 2 <= Len(ps) /\ ps[i + 1] = 5
TrueColour(ps, i) == ps[i] \in {38, 48} /\ i + 4 <= Len(ps) /\ ps[i + 1] = 2
Taken(ps, i) == IF Indexed(ps, i) THEN 2 ELSE IF TrueColour(ps, i) THEN 4 ELSE 0
HandleSgr(pen, ps) ==
  FoldLeftDomain(LAMBDA acc, i :
      IF acc.skip > 0 THEN [acc EXCEPT !.skip = @ - 1]
      ELSE [skip |-> Taken(ps, i),
            pen |-> IF ~Indexed(ps, i) THEN SgrOne(acc.pen, ps[i])
                    ELSE IF ps[i] = 38 THEN [acc.pen EXCEPT !.fg = ps[i + 2]]
                    ELSE [acc.pen EXCEPT !.bg = ps[i + 2]]],
    [skip |-> 0, pen |-> IF ps = <<>> THEN DefaultPen ELSE pen], ps).pen

-----------------------------------------------------------------------------
(* utf8_feed and the ground state *)

Lead(c) == IF c \in 192..223 THEN 2 ELSE IF c \in 224..239 THEN 3 ELSE IF c \in 240..247 THEN 4 ELSE 0
LeadBits(c) == IF c < 224 THEN c - 192 ELSE IF c < 240 THEN c - 224 ELSE c - 240
Decode(bytes) == FoldLeft(LAMBDA acc, b : acc * 64 + (b - 128), LeadBits(Head(bytes)), Tail(bytes))
Graphic(q, cp) == [q EXCEPT !.out = <<"print", IF q.dec /\ cp \in 96..126 THEN "line" ELSE cp>>]
Utf8Feed(q, c) ==
  LET bytes == Append(q.utf8, c)
      idle == [q EXCEPT !.want = 0, !.utf8 = <<>>]
  IN  CASE q.want = 0 /\ c < 128 -> Graphic(q, c)
        [] q.want = 0 /\ c >= 128 ->
             IF Lead(c) = 0 THEN q ELSE [q EXCEPT !.want = Lead(c), !.utf8 = <<c>>]
        [] q.want > 0 /\ c \notin 128..191 -> idle
        [] OTHER -> IF Len(bytes) < q.want THEN [q EXCEPT !.utf8 = bytes]
                    ELSE Graphic(idle, Decode(bytes))
Ground(q, c) ==
  IF c < 32 THEN [q EXCEPT !.out = <<"c0", c>>]
  ELSE IF c = 127 THEN q ELSE Utf8Feed(q, c)

-----------------------------------------------------------------------------
(* Sequences *)

CsiClear(q) == [q EXCEPT !.params = <<>>, !.inter = 0, !.priv = FALSE]
CsiOpen(q) == IF q.params = <<>> THEN <<0>> ELSE q.params
CsiDigit(q, d) ==
  LET ps == CsiOpen(q)
  IN  [q EXCEPT !.params = IF Last(ps) < Guard THEN [ps EXCEPT ![Len(ps)] = @ * 10 + d] ELSE ps]
CsiSep(q) ==
  LET ps == CsiOpen(q)
  IN  [q EXCEPT !.params = IF Len(ps) < MaxParams THEN Append(ps, 0) ELSE ps]
CsiInter(q) == [q EXCEPT !.inter = IF @ < MaxInter THEN @ + 1 ELSE @, !.state = "csi_inter"]

To(q, state) == [q EXCEPT !.state = state]
(* The pen goes with the cursor where that is saved and restored. *)
ToScreen(q, on) ==
  CASE on /\ ~q.inAlt -> [q EXCEPT !.altSaved = q.pen, !.inAlt = TRUE]
    [] ~on /\ q.inAlt -> [q EXCEPT !.pen = q.altSaved, !.inAlt = FALSE]
    [] OTHER -> q
Pen(q, c) ==
  LET switches == {q.params[i] : i \in DOMAIN q.params} \cap {47, 1047, 1049}
  IN  CASE ~q.priv /\ c = 109 -> [q EXCEPT !.pen = HandleSgr(@, q.params)]
        [] ~q.priv /\ c = 115 -> [q EXCEPT !.saved = q.pen]
        [] ~q.priv /\ c = 117 -> [q EXCEPT !.pen = q.saved]
        [] q.priv /\ c \in {104, 108} /\ switches # {} -> ToScreen(q, c = 104)
        [] OTHER -> q
DispatchCsi(q, c) == [To(Pen(q, c), "ground") EXCEPT !.out = <<"csi", c, q.priv, q.params>>]
DispatchEsc(q, c) ==
  LET done == [To(q, "ground") EXCEPT !.out = <<"esc", c>>]
  IN  CASE c = 55 -> [done EXCEPT !.saved = q.pen]
        [] c = 56 -> [done EXCEPT !.pen = q.saved]
        [] c = 99 -> [Fresh EXCEPT !.out = done.out, !.utf8 = q.utf8, !.want = q.want,
                                   !.escInter = q.escInter, !.osc = q.osc]
        [] OTHER -> done
DispatchOsc(q) ==   \* a title is the text after the first `;' of commands 0, 1 and 2
  IF 59 \in {q.osc[i] : i \in DOMAIN q.osc} THEN [q EXCEPT !.out = <<"osc", q.osc>>] ELSE q

Inters == 32..47
InEsc(q, c) ==
  CASE c = 91 -> To(CsiClear(q), "csi_param")
    [] c = 93 -> To([q EXCEPT !.osc = <<>>], "osc")
    [] c \in {80, 94, 95} -> To(q, "dcs")
    [] c \in Inters -> To([q EXCEPT !.escInter = c], "esc_inter")
    [] c \in 48..126 \ {91, 93, 80, 94, 95} -> DispatchEsc(q, c)
    [] OTHER -> To(q, "ground")
InEscInter(q, c) ==
  IF c \notin 48..126 THEN q
  ELSE To([q EXCEPT !.dec = IF q.escInter = 40 /\ c \in {48, 66} THEN c = 48 ELSE @], "ground")
InParam(q, c) ==
  CASE c \in 48..57 -> CsiDigit(q, c - 48)
    [] c = 59 -> CsiSep(q)
    [] c = 63 -> [q EXCEPT !.priv = TRUE]
    [] c \in 60..62 -> q
    [] c \in Inters -> CsiInter(q)
    [] c \in 64..126 -> DispatchCsi(q, c)
    [] OTHER -> To(q, "ground")
InInter(q, c) ==
  IF c \in Inters THEN CsiInter(q) ELSE IF c \in 64..126 THEN DispatchCsi(q, c) ELSE To(q, "ground")
InOsc(q, c) ==
  IF c \in {BEL, ST} THEN To(DispatchOsc(q), "ground")
  ELSE IF Len(q.osc) < MaxOsc - 1 THEN [q EXCEPT !.osc = Append(@, c)] ELSE q
InDcs(q, c) == IF c \in {BEL, ST} THEN To(q, "ground") ELSE q

ByState(q, c) ==
  CASE q.state = "ground" -> Ground(q, c)
    [] q.state = "esc" -> InEsc(q, c)
    [] q.state = "esc_inter" -> InEscInter(q, c)
    [] q.state = "csi_param" -> InParam(q, c)
    [] q.state = "csi_inter" -> InInter(q, c)
    [] q.state = "osc" -> InOsc(q, c)
    [] q.state = "dcs" -> InDcs(q, c)

\* Mutant: an ESC inside a string belongs to the string.
Feed_EscInString(p0, c) ==
  LET q == [p0 EXCEPT !.out = Nothing]
  IN  CASE c \in {CAN, SUB} /\ q.state # "ground" -> To(q, "ground")
        [] c = ESC /\ q.state \notin {"osc", "dcs"} -> To(CsiClear(q), "esc")
        [] OTHER -> ByState(q, c)

Feed(p0, c) ==
  LET q == [p0 EXCEPT !.out = Nothing]
  IN  CASE c \in {CAN, SUB} /\ q.state # "ground" -> To(q, "ground")
        [] c = ESC -> To(CsiClear(IF q.state = "osc" THEN DispatchOsc(q) ELSE q), "esc")
        [] OTHER -> ByState(q, c)

Init == p = Fresh
Next == \E c \in Bytes : p' = Feed(p, c)

-----------------------------------------------------------------------------
FeedAll(q, bytes) == FoldLeft(Feed, q, bytes)

(* An escape sequence means the same whatever broken or unended sequence or  *)
(* string came before it: here CSI ? 7 h, CSI 1 m and ESC M.  And of plain   *)
(* text one character is lost at the most, with the byte that breaks a       *)
(* multibyte one (utf8_feed says it should be fed again, vt_feed skips it).  *)
Resyncs ==
  \A seq \in {<<ESC, 91, 63, 55, 104>>, <<ESC, 91, 49, 109>>, <<ESC, 77>>} :
     /\ FeedAll(p, seq).out = FeedAll(Fresh, seq).out
     /\ FeedAll(p, seq).state = "ground"
     /\ FeedAll(p, <<CAN, 65, 66>>).out[1] = "print"

=============================================================================
