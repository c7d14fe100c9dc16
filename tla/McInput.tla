------------------------------ MODULE McInput -------------------------------
(* Keys in src/mc/mc.c: the block read from the terminal, the keys decoded   *)
(* from it, the wait for the rest of a key cut off by its end, a job, whose  *)
(* question takes its keys from the same block and whose copies read what    *)
(* the terminal has and drop it, the shell view, which takes the bytes as    *)
(* they are, and the line they edit.                                         *)
EXTENDS Integers, Sequences, SequencesExt, FiniteSets

CONSTANTS
  Typed,       \* the bytes the user may type
  JobKey,      \* the key that starts a job: a copy, a question, a copy
  Yes,         \* the key that answers it so that the job goes on
  BlockSize,   \* sizeof kbuf
  LineSize,    \* sizeof buf of a line: its bytes and the last 0
  Field,       \* the columns of the line's field: w
  Button,      \* the columns a button takes of it: hist
  MaxTyped     \* bound: bytes typed and not dropped

ESC == 27
CtrlO == 15
Peek == 8             \* sizeof k in esc_typed
Incomplete == <<"incomplete">>

VARIABLES
  typed,     \* history: all the user typed but what a copy read (EscTyped)
  unread,    \* what of it the terminal still has
  block, at, \* kbuf[0..kbuf_n), kbuf_i
  waiting,   \* in wait_input
  chain,     \* esc_chain
  recent,    \* esc_recent()
  hidden,    \* the shell is shown
  busy,      \* its shell runs a command (fixed)
  job,       \* "no", or a job at its "first" copy, at its question (modal_wait), at its "second"
  line,      \* the command line: cmdl
  keys,      \* history: the keys and the shell's bytes, as they were taken
  since      \* history: where the account of keys began last, and whether a block was full

vars == <<typed, unread, block, at, waiting, chain, recent, hidden, busy, job, line, keys, since>>

-----------------------------------------------------------------------------
(* Decoding: a key and how many bytes it takes *)

Key(k, n) == [key |-> k, len |-> n]
Cont(c) == c \in 128..191
\* char_key.  (Of the characters only the two-byte ones are typed here.)
\* Mutant: a character cut off by the end of the block is its byte.
CharKey_Cut(in, i) ==
  IF in[i] \in 194..223 /\ i + 1 <= Len(in) /\ Cont(in[i + 1])
  THEN Key(<<"char", in[i], in[i + 1]>>, 2) ELSE Key(<<"byte", in[i]>>, 1)
CharKey(in, i) ==
  LET c == in[i]
  IN  IF c \notin 194..223 THEN Key(<<"byte", c>>, 1)
      ELSE IF i + 1 > Len(in) THEN Key(Incomplete, 0)
      ELSE IF ~Cont(in[i + 1]) THEN Key(<<"byte", c>>, 1)
      ELSE Key(<<"char", c, in[i + 1]>>, 2)

Digits == 48..57
Semicolon == 59
\* The first and the second number of a sequence, -1 for none.
Nums(par) ==
  FoldLeft(LAMBDA n, c :
      LET old == IF n.second THEN n.b ELSE n.a
          new == (IF old < 0 THEN 0 ELSE old) * 10 + c - 48
      IN  IF c \in Digits THEN (IF n.second THEN [n EXCEPT !.b = new] ELSE [n EXCEPT !.a = new])
          ELSE [n EXCEPT !.second = @ \/ c = Semicolon],
    [a |-> -1, b |-> -1, second |-> FALSE], par)
Tilde(n) ==
  CASE n \in {1, 7} -> <<"home">> [] n \in {4, 8} -> <<"end">> [] n = 2 -> <<"ins">>
    [] n = 3 -> <<"del">> [] n = 5 -> <<"pgup">> [] n = 6 -> <<"pgdn">> [] n = 13 -> <<"f3">>
    [] n = 15 -> <<"f5">> [] n = 17 -> <<"f6">> [] n = 19 -> <<"f8">> [] n = 21 -> <<"f10">>
    [] OTHER -> <<"none">>
Sequence(fin, ss3, n) ==
  CASE fin = 65 -> IF n.b = 2 THEN <<"s-up">> ELSE <<"up">>
    [] fin = 66 -> IF n.b = 2 THEN <<"s-down">> ELSE <<"down">>
    [] fin = 67 -> IF n.b = 5 THEN <<"c-right">> ELSE <<"right">>
    [] fin = 68 -> IF n.b = 5 THEN <<"c-left">> ELSE <<"left">>
    [] fin = 72 -> <<"home">>
    [] fin = 70 -> <<"end">>
    [] fin = 82 -> IF ss3 THEN <<"f3">> ELSE <<"none">>
    [] fin = 126 -> Tilde(n.a)
    [] OTHER -> <<"none">>

KeyParse(in, i) ==
  IF in[i] # ESC THEN CharKey(in, i)
  ELSE IF i + 1 > Len(in) THEN Key(Incomplete, 0)
  ELSE LET c == in[i + 1]
       IN  IF c \in {127, 8} THEN Key(<<"alt-bs">>, 2)
           ELSE IF c = ESC \/ c >= 128 THEN Key(<<"esc">>, 1)
           ELSE IF c \notin {91, 79} THEN Key(<<"alt", c>>, 2)   \* neither [ nor O
           ELSE LET ends == {j \in i + 2 .. Len(in) : in[j] \notin 32..63}
                    j == CHOOSE j \in ends : \A k \in ends : j <= k
                IN  IF ends = {} THEN Key(Incomplete, 0)
                    ELSE Key(Sequence(in[j], c = 79, Nums(SubSeq(in, i + 2, j - 1))), j + 1 - i)

-----------------------------------------------------------------------------
(* The line editor: bytes, the cursor and the first byte shown, counted from *)
(* 0 as in the code *)

Boundary(l, p) == p = 0 \/ p = Len(l.buf) \/ ~Cont(l.buf[p + 1])
CharPrev(l, p) ==
  IF p = 0 THEN 0 ELSE CHOOSE q \in 0..p-1 : Boundary(l, q) /\ \A k \in q+1..p-1 : ~Boundary(l, k)
CharNext(l, p) ==
  IF p = Len(l.buf) THEN p
  ELSE CHOOSE q \in p+1..Len(l.buf) : Boundary(l, q) /\ \A k \in p+1..q-1 : ~Boundary(l, k)

\* tcols: the cells of some bytes, one for a character or a stray byte
TCols(s) ==
  Cardinality({i \in DOMAIN s : ~(Cont(s[i]) /\ i > 1 /\ s[i - 1] \in 192..223)})
BackCells(l, p, cells) ==
  FoldLeft(LAMBDA q, k : CharPrev(l, q), p, [k \in 1..cells |-> k])
View == IF Field - Button < 1 THEN 1 ELSE Field - Button
LineView(l) ==
  IF l.pos < l.first \/ TCols(SubSeq(l.buf, l.first + 1, l.pos)) >= View
  THEN [l EXCEPT !.first = BackCells(l, l.pos, Field \div 3)] ELSE l

LineCut(l, a, b) ==   \* delete [a, b)
  [l EXCEPT !.buf = SubSeq(@, 1, a) \o SubSeq(@, b + 1, Len(@)), !.pos = a]
LineInsert(l, bytes) ==
  [l EXCEPT !.buf = SubSeq(@, 1, l.pos) \o bytes \o SubSeq(@, l.pos + 1, Len(@)),
            !.pos = @ + Len(bytes)]
Blank(l, p) == l.buf[p + 1] = 32
\* The last place up to p that is 0 or comes after a byte that is (or is not) a blank.
After(l, p, blank) ==
  CHOOSE q \in 0..p : (q = 0 \/ Blank(l, q - 1) = blank) /\ \A k \in q+1..p : Blank(l, k - 1) # blank
WordLeft(l) == After(l, After(l, l.pos, FALSE), TRUE)
\* The first place from p on that is the end or a byte that is (or is not) a blank.
Until(l, p, blank) ==
  CHOOSE q \in p..Len(l.buf) : (q = Len(l.buf) \/ Blank(l, q) = blank) /\ \A k \in p..q-1 : Blank(l, k) # blank

Fits(l, n) == Len(l.buf) + n < LineSize
\* Mutant: Backspace takes a byte.
Edit_Byte(l, k) ==
  CASE k = <<"left">> -> [l EXCEPT !.pos = CharPrev(l, @)]
    [] k = <<"byte", 127>> -> IF l.pos > 0 THEN LineCut(l, l.pos - 1, l.pos) ELSE l
    [] k[1] = "char" -> IF Fits(l, 2) THEN LineInsert(l, Tail(k)) ELSE l
    [] OTHER -> l
Edit(l, k) ==
  CASE k = <<"left">> -> [l EXCEPT !.pos = CharPrev(l, @)]
    [] k = <<"right">> -> [l EXCEPT !.pos = CharNext(l, @)]
    [] k = <<"c-left">> -> [l EXCEPT !.pos = WordLeft(l)]
    [] k = <<"c-right">> -> [l EXCEPT !.pos = Until(l, Until(l, @, FALSE), TRUE)]
    [] k = <<"alt-bs">> -> LineCut(l, WordLeft(l), l.pos)
    [] k \in {<<"byte", 8>>, <<"byte", 127>>} -> LineCut(l, CharPrev(l, l.pos), l.pos)
    [] k = <<"del">> -> LineCut(l, l.pos, CharNext(l, l.pos))
    [] k[1] = "char" -> IF Fits(l, 2) THEN LineInsert(l, Tail(k)) ELSE l
    [] k[1] = "byte" /\ k[2] \in 32..255 \ {127} -> IF Fits(l, 1) THEN LineInsert(l, <<k[2]>>) ELSE l
    [] OTHER -> l
LineKey(l, k) == LineView(Edit(l, k))

-----------------------------------------------------------------------------
(* Taking keys *)

Init ==
  /\ typed = <<>> /\ unread = <<>> /\ block = <<>> /\ at = 0 /\ waiting = FALSE
  /\ chain = FALSE /\ recent = FALSE /\ hidden = FALSE /\ busy \in BOOLEAN /\ job = "no"
  /\ line = [buf |-> <<195, 169, 32, 121>>, pos |-> 4, first |-> 0]
  /\ keys = <<>>
  /\ since = [typed |-> 0, keys |-> 0, hidden |-> FALSE, job |-> "no", full |-> FALSE]

Consumed == Len(typed) - Len(unread) - (Len(block) - at)
Before(s, n) == SubSeq(s, 1, IF Len(s) < n THEN Len(s) ELSE n)
Left(s, n) == SubSeq(s, n + 1, Len(s))

Type(b) ==
  /\ Len(typed) < MaxTyped /\ typed' = Append(typed, b) /\ unread' = Append(unread, b)
  /\ UNCHANGED <<block, at, waiting, chain, recent, hidden, busy, job, line, keys, since>>

\* While a job copies no key is taken.
Copies == job \in {"first", "second"}

\* The loop of main, and take_key for a question: a block is used up.
Read ==
  /\ ~waiting /\ ~Copies /\ at = Len(block) /\ unread # <<>>
  /\ block' = Before(unread, BlockSize) /\ unread' = Left(unread, BlockSize) /\ at' = 0
  /\ UNCHANGED <<typed, waiting, chain, recent, hidden, busy, job, line, keys, since>>

\* handle_key, for what it does to the state here: who takes the key, and what
\* it does to the job.
Abort == {<<"esc">>, <<"byte", 97>>, <<"byte", 65>>}
Turn(j, k) ==
  CASE j = "asks" -> IF k = Yes THEN "second" ELSE IF k \in Abort THEN "no" ELSE j
    [] OTHER -> IF k = JobKey THEN "first" ELSE j
Tag(k, j) == IF j = "asks" THEN <<"question">> \o k ELSE k
Handle(k) ==
  /\ keys' = Append(keys, Tag(k, job))
  /\ job' = Turn(job, k)
  /\ hidden' = (job = "no" /\ k = <<"byte", CtrlO>>)
  /\ line' = IF job = "asks" THEN line ELSE LineKey(line, k)
  /\ UNCHANGED <<typed, busy>>
\* A copy that comes to its end.
Copied(j) == CASE j = "first" -> "asks" [] j = "second" -> "no" [] OTHER -> j
\* History: the account begins anew n bytes on.
Anew(n) ==
  since' = [typed |-> n, keys |-> Len(keys'), hidden |-> hidden', job |-> Copied(job'),
            full |-> since.full]

\* A key that is whole.
TakeKey ==
  LET k == KeyParse(block, at + 1)
  IN  /\ ~waiting /\ ~Copies /\ ~hidden /\ at < Len(block) /\ k.key # Incomplete
      /\ at' = at + k.len /\ chain' = (k.key = <<"esc">>)
      /\ recent' = (recent \/ k.key = <<"esc">>)
      /\ Handle(k.key)
      /\ UNCHANGED <<unread, block, waiting, since>>
Cut ==
  ~waiting /\ ~Copies /\ ~hidden /\ at < Len(block) /\ KeyParse(block, at + 1).key = Incomplete
\* An Esc at the end of the block, soon after another: taken at once.
TakeChained ==
  /\ Cut /\ chain /\ block[at + 1] = ESC /\ recent
  /\ at' = at + 1 /\ Handle(<<"esc">>) /\ Anew(Consumed + 1)
  /\ UNCHANGED <<unread, block, waiting, chain, recent>>
\* Another key cut off: the screen is drawn, and the rest waited for ...
WaitInput ==
  /\ Cut /\ ~(chain /\ block[at + 1] = ESC /\ recent) /\ waiting' = TRUE
  /\ chain' = (chain /\ block[at + 1] # ESC)
  /\ UNCHANGED <<typed, unread, block, at, recent, hidden, busy, job, line, keys, since>>
More ==
  /\ waiting /\ Len(block) < BlockSize /\ unread # <<>> /\ waiting' = FALSE
  /\ block' = block \o Before(unread, BlockSize - Len(block))
  /\ unread' = Left(unread, BlockSize - Len(block))
  /\ UNCHANGED <<typed, at, chain, recent, hidden, busy, job, line, keys, since>>
\* ... until the time is up, or a signal comes, or the block has no more room.
GiveUp ==
  /\ waiting /\ (unread = <<>> \/ Len(block) >= BlockSize) /\ waiting' = FALSE /\ chain' = FALSE
  /\ IF block[at + 1] = ESC /\ at + 1 = Len(block)
     THEN at' = at + 1 /\ Handle(<<"esc">>)
     ELSE at' = Len(block) /\ UNCHANGED <<typed, hidden, busy, job, line, keys>>
  /\ IF Len(block) >= BlockSize THEN since' = [since EXCEPT !.full = TRUE]
     ELSE Anew(Consumed + (at' - at))
  /\ UNCHANGED <<unread, block, recent>>

\* The shell view: its bytes as they are, but Ctrl+O (toggle_hidden).
ShellIn ==
  /\ ~waiting /\ hidden /\ at < Len(block) /\ at' = at + 1
  /\ keys' = Append(keys, <<"shell", block[at + 1]>>)
  /\ hidden' = ~(block[at + 1] = CtrlO /\ ~busy)
  /\ UNCHANGED <<typed, unread, block, waiting, chain, recent, busy, job, line, since>>

\* esc_typed, after each piece of a copy: what the terminal has, up to the size of
\* its buffer, is read and dropped; Esc or A alone ends the job.
EscTyped ==
  LET k == Before(unread, Peek)
      n == Len(k)
  IN  /\ Copies /\ unread # <<>>
      /\ unread' = Left(unread, n) /\ typed' = Before(typed, Len(typed) - Len(unread)) \o unread'
      /\ job' = IF (n = 1 /\ k[1] \in {97, 65}) \/ (k[1] = ESC /\ (n = 1 \/ k[2] = ESC))
                THEN "no" ELSE job
      /\ UNCHANGED <<block, at, waiting, chain, recent, hidden, busy, line, keys>>
      /\ IF job' = job THEN UNCHANGED since ELSE Anew(Consumed)
\* The end of a copy: the job goes on to its question, or ends.
CopyDone ==
  /\ Copies /\ job' = Copied(job)
  /\ UNCHANGED <<typed, unread, block, at, waiting, chain, recent, hidden, busy, line, keys, since>>

\* ESC_WAIT_MS pass.
Elapse ==
  /\ recent /\ recent' = FALSE
  /\ UNCHANGED <<typed, unread, block, at, waiting, chain, hidden, busy, job, line, keys, since>>

Next ==
  \/ \E b \in Typed : Type(b)
  \/ Read \/ TakeKey \/ TakeChained \/ WaitInput \/ More \/ GiveUp \/ ShellIn
  \/ EscTyped \/ CopyDone \/ Elapse

Spec == Init /\ [][Next]_vars

-----------------------------------------------------------------------------
\* What bytes mean when they all come at once: the keys from the i-th on, and where
\* each ends.
RECURSIVE Whole(_, _, _, _)
Whole(in, i, hid, j) ==
  IF i > Len(in) THEN <<>>
  ELSE IF hid
  THEN <<[key |-> <<"shell", in[i]>>, end |-> i]>> \o Whole(in, i + 1, ~(in[i] = CtrlO /\ ~busy), j)
  ELSE LET k == KeyParse(in, i).key
           next == i + KeyParse(in, i).len
       IN  IF k = Incomplete THEN <<>>
           ELSE <<[key |-> Tag(k, j), end |-> next - 1]>>
                  \o Whole(in, next, j = "no" /\ k = <<"byte", CtrlO>>, Copied(Turn(j, k)))

(* The bytes that a copy read while it ran are lost, also in the middle of a  *)
(* key.  However the others are split over reads, what has been taken of them *)
(* is what they mean when they come at once, no key more and no key less,     *)
(* each taken by whom it is for: the shell, the question or the panels.  The  *)
(* account begins anew after a key given up because its rest did not come in  *)
(* time, an Esc taken at once because it follows another, and an Esc that     *)
(* ended the job.  It does not hold once a key is cut off by the end of a     *)
(* full block, whose rest is not waited for (WaitsForRest).                   *)
SplitBlind ==
  LET all == Whole(SubSeq(typed, since.typed + 1, Len(typed)), 1, since.hidden, since.job)
      done == SelectSeq(all, LAMBDA k : k.end <= Consumed - since.typed)
  IN  since.full \/ SubSeq(keys, since.keys + 1, Len(keys)) = [i \in DOMAIN done |-> done[i].key]

(* A line typed and edited in characters stays one of characters: no half of *)
(* one is left by a deletion, a move or the line's end, and the cursor stays *)
(* in the field, on the start of a character.                                *)
LineWhole ==
  (\A i \in DOMAIN keys : keys[i][1] = "byte" => keys[i][2] < 128) =>
     /\ \A i \in DOMAIN line.buf :
          /\ Cont(line.buf[i]) => i > 1 /\ line.buf[i - 1] \in 194..223
          /\ line.buf[i] \in 194..223 => i < Len(line.buf) /\ Cont(line.buf[i + 1])
     /\ Len(line.buf) < LineSize
     /\ line.pos \in line.first..Len(line.buf)
     /\ Boundary(line, line.pos) /\ Boundary(line, line.first)
     /\ TCols(SubSeq(line.buf, line.first + 1, line.pos)) < View

(* A key cut off by the end of a read is given up only when its rest did not *)
(* come in time ("A lone Esc at the end of the block may be the start of a   *)
(* sequence, so it waits ESC_WAIT_MS for the rest", mc.c:5276).              *)
WaitsForRest == ~since.full
=============================================================================
