------------------------------ MODULE McPanel -------------------------------
(* The two panels of src/mc/mc.c: directories and archives listed, the       *)
(* highlight and its window, the marks, quick search and quick cd, commands  *)
(* and the shell (Ctrl+O), while other programs change the files.            *)
EXTENDS Integers, Sequences, SequencesExt, FiniteSets

CONSTANTS
  Names,       \* file names: sequences of character codes
  Kind,        \* Kind[n]: what a file named n is: "dir", "exe", "arc", "other"
  Makeable,    \* the paths other programs may make, in directory order
  Home,        \* $HOME, a path
  Members,     \* Members[v]: the entries of version v of an archive, in order:
               \* [path, dir]; version 0 cannot be read
  Typed,       \* what may be typed in quick cd: [from, comps]
  Letters,     \* the characters typed in a quick search
  Sizes,       \* the rows the terminal may have
  MaxE,        \* MAXE: entries of a listing
  MaxMembers,  \* AR_MAXE: entries of an archive
  MarkRoom,    \* bytes of ob, which keeps the marked names over a rescan
  MaxSub,      \* how deep p->sub may go (its 256 bytes)
  MaxOps, MaxChanges   \* bounds: steps, and changes by other programs

Dot == 46
Up == <<Dot, Dot>>
None == <<>>

VARIABLES
  fs,       \* the paths that exist
  ver,      \* the version of every archive file
  pan,      \* P[0], P[1]
  act,      \* the active panel
  mode,     \* "normal", "err", "qsearch" ("qcd" is one step here)
  pref,     \* the letters of the quick search: qline
  rows,
  hidden,   \* the shell is shown
  alt,      \* the terminal shows the alternate screen: on_alt
  shell,    \* the shell: [at, busy], or None
  over,     \* mc has ended
  ops, changes

files == <<fs, ver>>
show == <<hidden, alt, shell, over>>
vars == <<fs, ver, pan, act, mode, pref, rows, hidden, alt, shell, over, ops, changes>>

Least(a, b) == IF a < b THEN a ELSE b
Most(a, b) == IF a > b THEN a ELSE b

-----------------------------------------------------------------------------
(* The order of names *)

Common(a, b) ==   \* the length of what both begin with
  LET same == {k \in 0..Least(Len(a), Len(b)) : SubSeq(a, 1, k) = SubSeq(b, 1, k)}
  IN  CHOOSE k \in same : \A j \in same : j <= k
Scmp(a, b) ==
  LET k == Common(a, b)
  IN  IF a = b THEN 0 ELSE IF k = Len(a) THEN -1 ELSE IF k = Len(b) THEN 1
      ELSE a[k + 1] - b[k + 1]
Stem(a) ==
  IF \E k \in DOMAIN a : a[k] = Dot
  THEN SubSeq(a, 1, (CHOOSE k \in DOMAIN a : a[k] = Dot /\ \A j \in 1..k-1 : a[j] # Dot) - 1)
  ELSE a
Rest(a) == SubSeq(a, Len(Stem(a)) + 1, Len(a))   \* the first dot and what follows
Ncmp(a, b) ==
  IF Stem(a) # Stem(b) THEN Scmp(Stem(a), Stem(b))
  ELSE IF Rest(a) = Rest(b) THEN 0
  ELSE IF Rest(a) = <<>> THEN -1 ELSE IF Rest(b) = <<>> THEN 1
  ELSE Scmp(Tail(Rest(a)), Tail(Rest(b)))
NameOrder == [x \in Names \X Names |-> Ncmp(x[1], x[2])]
Ecmp(e, f) ==
  IF e.dir # f.dir THEN (IF e.dir THEN -1 ELSE 1) ELSE NameOrder[<<e.name, f.name>>]

SortList(list) == SortSeq(list, LAMBDA e, f : Ecmp(e, f) < 0)   \* stable, as its insertion sort

-----------------------------------------------------------------------------
(* Reading a place.  A panel p: path, arc (the archive shown, or None), sub, *)
(* ar (the version its index is of, or -1), list, cur, top, and drift, which *)
(* is set when cur was left where it was by a load that did not scroll.      *)

DirPaths == {<<>>} \cup {q \in fs : Kind[Last(q)] = "dir"}
Version(q) == IF q \in fs THEN ver ELSE 0

Entry(n, d) == [name |-> n, dir |-> d, up |-> FALSE, sel |-> FALSE]
LoadUp == [name |-> Up, dir |-> TRUE, up |-> TRUE, sel |-> FALSE]

\* A member's path without the "./" (and "/") it begins with.
NormName(path) ==
  LET kept == {i \in DOMAIN path : \E j \in 1..i : path[j] # <<Dot>>}
  IN  [i \in 1..Cardinality(kept) |-> path[i + Len(path) - Cardinality(kept)]]
ArchiveAdd(index, x) ==
  IF NormName(x.path) = <<>> \/ Len(index) >= MaxMembers THEN index
  ELSE Append(index, [x EXCEPT !.path = NormName(@)])
\* archive_scan of every version that can be read
Index == [v \in DOMAIN Members |-> FoldLeft(ArchiveAdd, <<>>, Members[v])]
\* vfs_add: an entry below p->sub, a directory once
VfsAdd(p, list, x) ==
  LET n == x.path[Len(p.sub) + 1]
      d == Len(x.path) > Len(p.sub) + 1 \/ x.dir
  IN  IF \/ ~IsStrictPrefix(p.sub, x.path) \/ n \in {<<Dot>>, Up}
         \/ d /\ \E e \in Range(list) : e.dir /\ e.name = n
         \/ Len(list) >= MaxE - 1
      THEN list ELSE Append(list, Entry(n, d))
ArchiveList(p) == FoldLeft(LAMBDA list, x : VfsAdd(p, list, x), <<>>, Index[p.ar])

DirList(path) ==
  LET here == SelectSeq(Makeable, LAMBDA q : q \in fs /\ Front(q) = path)
  IN  IF path \notin DirPaths THEN <<>>
      ELSE [i \in 1..Least(Len(here), MaxE - 1) |->
              Entry(Last(here[i]), Kind[Last(here[i])] = "dir")]

ArchiveFresh(p) == p.ar # -1 /\ p.path \o p.arc \in fs /\ p.ar = Version(p.path \o p.arc)
ArchiveRead(p) ==   \* a new index, or the old one kept
  IF Version(p.path \o p.arc) = 0 THEN p ELSE [p EXCEPT !.ar = Version(p.path \o p.arc)]

\* load: whether it could be read, and the panel with its list
Listed(p) ==
  LET ok == p.arc = None \/ ArchiveFresh(p)
      items == IF ~ok THEN <<>> ELSE IF p.arc = None THEN DirList(p.path) ELSE ArchiveList(p)
      up == IF p.arc = None /\ p.path = <<>> THEN <<>> ELSE <<LoadUp>>
  IN  [ok |-> ok, p |-> [p EXCEPT !.list = up \o SortList(items)]]
Load(p) == Listed(IF p.arc = None \/ ArchiveFresh(p) THEN p ELSE ArchiveRead(p))
VfsForget(p) == [p EXCEPT !.arc = None, !.sub = <<>>, !.ar = -1]

-----------------------------------------------------------------------------
(* The highlight and its window.  cur and top count from 0. *)

Body(r) == Most(r - 6, 1)
Half(b) == Most(b \div 2, 1)
CeilDiv(a, b) == (a + b - 1) \div b
\* Mutant: the list moves up only until the window would be past the end.
Scroll_NoClamp(p, r) ==
  LET n == Len(p.list)
      cur == IF p.cur >= n THEN Most(n - 1, 0) ELSE p.cur
  IN  [p EXCEPT !.cur = cur, !.drift = FALSE,
         !.top = IF cur < @ THEN Most(0, @ - Half(Body(r))) ELSE @]
Scroll(p, r) ==
  LET n == Len(p.list)   b == Body(r)   h == Half(b)
      cur == IF p.cur >= n THEN Most(n - 1, 0) ELSE p.cur
      down == IF cur >= p.top + b THEN p.top + h * CeilDiv(cur - p.top - b + 1, h) ELSE p.top
      last == IF down > n - b THEN Most(n - b, 0) ELSE down
  IN  [p EXCEPT !.cur = cur, !.drift = FALSE,
         !.top = IF cur < last THEN Most(0, last - h * CeilDiv(last - cur, h)) ELSE last]

GoHome(p) == [p EXCEPT !.cur = 0, !.top = 0]
GoEnd(p, r) ==
  [p EXCEPT !.cur = Most(Len(p.list) - 1, 0), !.top = Most(Len(p.list) - Body(r), 0)]
PageDown(p, r) ==
  LET n == Len(p.list)   b == Body(r)
      some == IF p.top > n - 2 * b THEN n - b - p.top ELSE b
      items == IF p.top + some < 0 THEN -p.top ELSE some
  IN  IF n = 0 \/ p.cur = n - 1 THEN p
      ELSE [p EXCEPT !.cur = IF items = 0 THEN n - 1 ELSE @ + items, !.top = @ + items]
PageUp(p, r) ==
  LET items == Least(p.top, Body(r))
  IN  IF p.cur = 0 /\ p.top = 0 THEN p
      ELSE [p EXCEPT !.cur = IF items = 0 THEN 0 ELSE @ - items, !.top = @ - items]
NavKeys == {"up", "down", "home", "end", "pgup", "pgdn"}
NavKey(p, k, r) ==
  Scroll(CASE k = "up" -> [p EXCEPT !.cur = Most(@ - 1, 0)]
           [] k = "down" -> IF p.cur < Len(p.list) - 1 THEN [p EXCEPT !.cur = @ + 1] ELSE p
           [] k = "home" -> GoHome(p)
           [] k = "end" -> GoEnd(p, r)
           [] k = "pgup" -> PageUp(p, r)
           [] k = "pgdn" -> PageDown(p, r), r)

\* The entry under the highlight.  One left past the end of the list shows
\* whatever the list held there before, which may be any entry.
OnEntry(p) ==
  IF p.cur < Len(p.list) THEN {p.list[p.cur + 1]}
  ELSE {Entry(n, Kind[n] = "dir") : n \in Names}
HighlightName(p) == IF p.cur < Len(p.list) THEN p.list[p.cur + 1].name ELSE None
PlaceOf(p) == <<p.path, p.arc, p.sub>>
Marked(p) == {e.name : e \in {f \in Range(p.list) : f.sel}}

\* The first of the entries that satisfy Test, counted from 0; d if there is none.
FirstAt(list, Test(_), d) ==
  IF \E i \in DOMAIN list : Test(list[i])
  THEN (CHOOSE i \in DOMAIN list : Test(list[i]) /\ \A j \in 1..i-1 : ~Test(list[j])) - 1
  ELSE d

\* panel_rescan
KeptMarks(p) ==   \* the marked names that fit into ob
  FoldLeft(LAMBDA acc, e :
      IF e.sel /\ ~e.up /\ acc.k + Len(e.name) + 1 <= MarkRoom
      THEN [k |-> acc.k + Len(e.name) + 1, names |-> acc.names \cup {e.name}] ELSE acc,
    [k |-> 0, names |-> {}], p.list).names
\* An archive that cannot be read any more is left.
Reread(p, l) == IF ~l.ok /\ p.arc # None THEN Load(VfsForget(p)).p ELSE l.p
Remarked(list, kept) ==
  [i \in DOMAIN list |-> [list[i] EXCEPT !.sel = ~list[i].up /\ list[i].name \in kept]]
Refound(p, q, r) ==
  LET name == HighlightName(p)
      d == Least(p.cur, Most(Len(q.list) - 1, 0))
  IN  Scroll([q EXCEPT !.list = Remarked(@, KeptMarks(p)),
                       !.cur = FirstAt(q.list, LAMBDA e : e.name = name, d)], r)
\* Mutant: the highlight keeps its position, not its name.
PanelRescan_Position(p, r) ==
  Scroll([Reread(p, Load(p)) EXCEPT !.list = Remarked(@, KeptMarks(p))], r)
PanelRescan(p, r) == Refound(p, Reread(p, Load(p)), r)

-----------------------------------------------------------------------------
(* Going from place to place: the new panel, and whether it was an error *)

Canon(path, comps) ==
  FoldLeft(LAMBDA acc, c : IF c = <<Dot>> THEN acc
                           ELSE IF c # Up THEN Append(acc, c)
                           ELSE IF acc = <<>> THEN acc ELSE Front(acc), path, comps)
PathOf(typed, base) ==
  Canon(CASE typed.from = "here" -> base [] typed.from = "root" -> <<>>
          [] typed.from = "home" -> Home, typed.comps)

Fine(p) == [p |-> p, err |-> FALSE]
Failed(p) == [p |-> p, err |-> TRUE]

\* Mutant: the directory we came from is not looked for.
ChangeTo_Top(p, res, r) ==
  IF res \notin DirPaths THEN Failed(p)
  ELSE Fine([Load([VfsForget(p) EXCEPT !.path = res]).p EXCEPT !.cur = 0, !.top = 0, !.drift = FALSE])
Arrived(p, q, res, r) ==   \* the highlight on the directory we came from
  LET from == IF IsStrictPrefix(res, p.path) THEN p.path[Len(res) + 1] ELSE None
      i == FirstAt(q.list, LAMBDA e : e.name = from, 0)
      t == Least(i - (r - 3) \div 2, Len(q.list) - Body(r))
  IN  IF i = 0 THEN q ELSE [q EXCEPT !.cur = i, !.top = Most(t, 0)]
ChangeTo(p, res, r) ==
  IF res \notin DirPaths THEN Failed(p)
  ELSE Fine(Arrived(p, [Load([VfsForget(p) EXCEPT !.path = res]).p
                          EXCEPT !.cur = 0, !.top = 0, !.drift = FALSE], res, r))

SelectName(p, name, r) ==
  Scroll([p EXCEPT !.top = 0, !.cur = FirstAt(p.list, LAMBDA e : e.name = name, 0)], r)
Opened(l, r) ==
  IF l.ok THEN Fine(Scroll([l.p EXCEPT !.cur = 0, !.top = 0], r))
  ELSE Failed([Load(VfsForget(l.p)).p EXCEPT !.drift = TRUE])
VfsOpen(p, name, r) == Opened(Load([p EXCEPT !.arc = <<name>>, !.sub = <<>>]), r)
VfsEnter(p, name, r) ==
  IF Len(p.sub) >= MaxSub THEN Fine(p)
  ELSE Fine(Scroll([Load([p EXCEPT !.sub = Append(@, name)]).p EXCEPT !.cur = 0, !.top = 0], r))
VfsUp(p, r) ==
  IF p.sub = <<>> THEN Fine(SelectName(Load(VfsForget(p)).p, p.arc[1], r))
  ELSE Fine(SelectName(Load([p EXCEPT !.sub = Front(@)]).p, Last(p.sub), r))
EnterDir(p, e, r) ==
  IF p.arc # None THEN IF e.up THEN VfsUp(p, r) ELSE VfsEnter(p, e.name, r)
  ELSE ChangeTo(p, Canon(p.path, <<e.name>>), r)

-----------------------------------------------------------------------------
(* Keys and events *)

Active == pan[act]
Tick == ~over /\ ops < MaxOps /\ ops' = ops + 1
\* A key in the panels: a quick search is left first (qs_handle).
Key == Tick /\ ~hidden /\ mode \in {"normal", "qsearch"}
Result(x) ==
  /\ pan' = [pan EXCEPT ![act] = x.p]
  /\ mode' = IF x.err THEN "err" ELSE "normal"
\* rescan_changed.  What a command, a job or the shell changed is a step of
\* OtherPrograms before it: nothing looks at the files in between.
Rescanned(P) == [k \in {0, 1} |-> PanelRescan(P[k], rows)]

Init ==
  /\ fs = Range(Makeable) /\ ver = 1
  /\ \E start \in DirPaths :   \* the directory mc is started in
       pan = [k \in {0, 1} |-> Load([path |-> start, arc |-> None, sub |-> <<>>, ar |-> -1,
                                      list |-> <<>>, cur |-> 0, top |-> 0, drift |-> FALSE]).p]
  /\ act = 0 /\ mode = "normal" /\ pref = <<>> /\ rows \in Sizes
  /\ hidden = FALSE /\ alt = TRUE /\ shell = None /\ over = FALSE
  /\ ops = 0 /\ changes = 0

Navigate(k) ==
  /\ Key /\ Result(Fine(NavKey(Active, k, rows)))
  /\ UNCHANGED <<files, act, pref, rows, show, changes>>

\* sel_key: Insert and Shift+Down go down, Shift+Up goes up
SelKey(up) ==
  /\ Key /\ Active.list # <<>>
  /\ LET p == Active   n == Len(p.list)   at == p.cur + 1
         q == IF at > n \/ p.list[at].up THEN p ELSE [p EXCEPT !.list[at].sel = ~@]
     IN  Result(Fine(Scroll([q EXCEPT !.cur = IF up THEN Most(@ - 1, 0)
                                              ELSE IF @ < n - 1 THEN @ + 1 ELSE @], rows)))
  /\ UNCHANGED <<files, act, pref, rows, show, changes>>

\* A program runs in the place of the panels (run_child): nothing of it is
\* seen here, but that the panels are read again when it is done.
RunChild == pan' = Rescanned(pan) /\ mode' = "normal"
\* F3 on a file of an archive: it is written out, shown, and removed.
VfsView(p) ==
  IF Version(p.path \o p.arc) = 0 THEN Result(Failed(p)) ELSE RunChild
\* Enter (enter_item) and F3 (view_item) on the highlighted item
EnterItem ==
  /\ Key /\ Active.list # <<>>
  /\ \E e \in OnEntry(Active) :
       IF e.dir THEN Result(EnterDir(Active, e, rows))
       ELSE IF Active.arc # None \/ Kind[e.name] = "other" THEN Result(Fine(Active))
       ELSE IF Kind[e.name] = "arc" THEN Result(VfsOpen(Active, e.name, rows))
       ELSE RunChild
  /\ UNCHANGED <<files, act, pref, rows, show, changes>>

ViewItem ==
  /\ Key /\ Active.list # <<>>
  /\ \E e \in OnEntry(Active) :
       IF e.dir THEN Result(EnterDir(Active, e, rows))
       ELSE IF Active.arc # None THEN VfsView(Active) ELSE RunChild
  /\ UNCHANGED <<files, act, pref, rows, show, changes>>

\* Enter in the quick cd box, and "cd DIR" on the command line (run_command)
QuickCd(typed) ==
  /\ Key /\ Result(ChangeTo(Active, PathOf(typed, Active.path), rows))
  /\ UNCHANGED <<files, act, pref, rows, show, changes>>

\* Another command line, and the end of a job, whose items lose their marks
RunCommand ==
  /\ Key /\ RunChild
  /\ UNCHANGED <<files, act, pref, rows, show, changes>>
JobEnds(done) ==
  /\ Key /\ done \subseteq Marked(Active) /\ done # {} /\ mode' = "normal"
  /\ pan' = Rescanned([pan EXCEPT ![act].list =
               [i \in DOMAIN @ |-> [@[i] EXCEPT !.sel = @ /\ Active.list[i].name \notin done]]])
  /\ UNCHANGED <<files, act, pref, rows, show, changes>>

Tab ==
  /\ Key /\ act' = 1 - act /\ mode' = "normal"
  /\ UNCHANGED <<files, pan, pref, rows, show, changes>>
CtrlR ==
  /\ Key /\ Result(Fine(PanelRescan(Active, rows)))
  /\ UNCHANGED <<files, act, pref, rows, show, changes>>
CloseError ==   \* any key
  /\ Tick /\ ~hidden /\ mode = "err" /\ mode' = "normal"
  /\ UNCHANGED <<files, pan, act, pref, rows, show, changes>>

\* Quick search: opened, a letter, the next one, a letter back, left
QsFind(list, from, letters) ==
  LET n == Len(list)
      found == {j \in 0..n-1 : IsPrefix(letters, list[((from + j) % n) + 1].name)}
  IN  IF found = {} THEN -1 ELSE (from + (CHOOSE j \in found : \A k \in found : j <= k)) % n
SearchLetter(c) ==
  LET at == QsFind(Active.list, Active.cur, Append(pref, c))
  IN  /\ Tick /\ mode = "qsearch" /\ at >= 0
      /\ pref' = Append(pref, c) /\ pan' = [pan EXCEPT ![act] = Scroll([@ EXCEPT !.cur = at], rows)]
      /\ UNCHANGED <<files, act, mode, rows, show, changes>>
SearchOpen ==
  /\ Key /\ mode = "normal" /\ mode' = "qsearch" /\ pref' = <<>>
  /\ UNCHANGED <<files, pan, act, rows, show, changes>>
SearchNext ==
  LET at == QsFind(Active.list, Active.cur + 1, pref)
  IN  /\ Tick /\ mode = "qsearch" /\ at >= 0
      /\ pan' = [pan EXCEPT ![act] = Scroll([@ EXCEPT !.cur = at], rows)]
      /\ UNCHANGED <<files, act, mode, pref, rows, show, changes>>
SearchBack ==
  /\ Tick /\ mode = "qsearch" /\ pref # <<>> /\ pref' = Front(pref)
  /\ UNCHANGED <<files, pan, act, mode, rows, show, changes>>
SearchLeave ==
  /\ Tick /\ mode = "qsearch" /\ mode' = "normal"
  /\ UNCHANGED <<files, pan, act, pref, rows, show, changes>>

\* Ctrl+O (toggle_hidden): the shell is started and shown; sh_start may fail.
ShStart == shell' = [at |-> Active.path, busy |-> FALSE]
ShowShell ==
  /\ Key /\ mode' = "normal"
  /\ \/ ShStart /\ hidden' = TRUE /\ alt' = FALSE
     \/ UNCHANGED <<hidden, alt, shell>>
  /\ UNCHANGED <<files, pan, act, pref, rows, over, changes>>
\* Or the panels again, in the directory the shell says it is in, if it answers
\* in time (sh_where); refused while it runs a command (sh_idle).
ShIdle == ~shell.busy
ShWhere(answers) == IF answers THEN shell.at ELSE Active.path
ShPark(where) == IF where # Active.path THEN ChangeTo(Active, where, rows) ELSE Fine(Active)
SwitchBack(answers) ==
  LET x == ShPark(ShWhere(answers))
  IN  /\ Tick /\ hidden /\ ShIdle
      /\ hidden' = FALSE /\ alt' = TRUE /\ shell' = None
      /\ pan' = Rescanned([pan EXCEPT ![act] = x.p])
      /\ mode' = IF x.err THEN "err" ELSE mode
      /\ UNCHANGED <<files, act, pref, rows, over, changes>>
ShellDoes ==
  /\ Tick /\ hidden
  /\ \/ \E d \in DirPaths : d # shell.at /\ ShIdle /\ shell' = [shell EXCEPT !.at = d]
     \/ shell' = [shell EXCEPT !.busy = ~@]
  /\ UNCHANGED <<files, pan, act, mode, pref, rows, hidden, alt, over, changes>>
ShellEnds ==   \* and mc with it (shell_out)
  /\ Tick /\ hidden /\ over' = TRUE /\ shell' = None
  /\ UNCHANGED <<files, pan, act, mode, pref, rows, hidden, alt, changes>>
Quit ==
  /\ Key /\ over' = TRUE /\ alt' = FALSE /\ mode' = "normal"
  /\ UNCHANGED <<files, pan, act, pref, rows, hidden, shell, changes>>

\* check_size
Resize(r) ==
  /\ Tick /\ r # rows /\ rows' = r /\ pan' = [k \in {0, 1} |-> Scroll(pan[k], r)]
  /\ UNCHANGED <<files, act, mode, pref, show, changes>>

\* Files changed by another program, or by one mc runs: a path made or removed
\* with what is in it, or an archive written anew.
OtherPrograms ==
  /\ ~over /\ changes < MaxChanges /\ changes' = changes + 1
  /\ \/ \E q \in Range(Makeable) \ fs : Front(q) \in DirPaths /\ fs' = fs \cup {q} /\ UNCHANGED ver
     \/ \E q \in fs : fs' = {s \in fs : ~IsPrefix(q, s)} /\ UNCHANGED ver
     \/ \E v \in DOMAIN Members \cup {0} : v # ver /\ ver' = v /\ UNCHANGED fs
  /\ UNCHANGED <<pan, act, mode, pref, rows, show, ops>>

Next ==
  \/ \E k \in NavKeys : Navigate(k)
  \/ \E up \in BOOLEAN : SelKey(up)
  \/ EnterItem \/ ViewItem \/ \E typed \in Typed : QuickCd(typed)
  \/ RunCommand \/ \E done \in SUBSET Marked(Active) : JobEnds(done)
  \/ Tab \/ CtrlR \/ CloseError
  \/ SearchOpen \/ \E c \in Letters : SearchLetter(c)
  \/ SearchNext \/ SearchBack \/ SearchLeave
  \/ ShowShell \/ \E answers \in BOOLEAN : SwitchBack(answers)
  \/ ShellDoes \/ ShellEnds \/ Quit
  \/ \E r \in Sizes : Resize(r)
  \/ OtherPrograms

Spec == Init /\ [][Next]_vars

-----------------------------------------------------------------------------
(* The highlight is in the window, and the window shows no more empty rows   *)
(* than it must, whatever was read, resized, searched or gone back to; in a  *)
(* quick search it is on a name that begins with the letters.  (Not when the *)
(* list was read again without scrolling, and in less than ten rows.)        *)
HighlightShown ==
  ~over =>
  /\ \A k \in {0, 1} :
       LET p == pan[k]   n == Len(p.list)
       IN  rows >= 10 /\ n > 0 /\ ~p.drift =>
             /\ p.cur < n /\ p.cur \in p.top .. p.top + Body(rows) - 1
             /\ p.top \in 0..Most(n - Body(rows), 0)
  /\ mode = "qsearch" /\ pref # <<>> => IsPrefix(pref, HighlightName(Active))

(* Reading a place again takes the highlight and the marks along with their  *)
(* names: what a job would work on is what was marked, where it still is.    *)
Keeps(p, q) ==
  LET listed == {e.name : e \in Range(q.list)}
  IN  /\ PlaceOf(q) = PlaceOf(p) /\ HighlightName(p) \in listed => HighlightName(q) = HighlightName(p)
      /\ Marked(q) = KeptMarks(p) \cap listed
      /\ p.arc # None => PlaceOf(q) \in {PlaceOf(p), <<p.path, None, <<>>>>}
      /\ q.arc # None => q.ar = Version(q.path \o q.arc)
RescanKeeps == \A k \in {0, 1} : Keeps(pan[k], PanelRescan(pan[k], rows))

(* Into a directory, or an archive, and back: the panel is where it was, the *)
(* highlight on what was entered, if that is still listed.                   *)
Returns(p, e, back) ==
  /\ PlaceOf(back) = PlaceOf(p)
  /\ (\E f \in Range(back.list) : f.name = e.name) => HighlightName(back) = e.name
Entered(p, e, into) ==
  ~into.err /\ PlaceOf(into.p) # PlaceOf(p) => Returns(p, e, EnterDir(into.p, LoadUp, rows).p)
BackWhereItWas ==
  \A e \in Range(Active.list) :
    ~e.up /\ (e.dir \/ (Active.arc = None /\ Kind[e.name] = "arc")) =>
      Entered(Active, e, IF e.dir THEN EnterDir(Active, e, rows) ELSE VfsOpen(Active, e.name, rows))
=============================================================================
