------------------------------- MODULE McJob -------------------------------
(***************************************************************************)
(* F5, F6 and F8 of mc: copy, move and delete a set of items, trees and    *)
(* all, while other programs use the same files, calls fail, and questions *)
(* are answered in the middle of the walk.                                 *)
(*                                                                         *)
(* The code walks down a tree by recursion.  Here the recursion is a stack *)
(* of frames: one frame stands for one call of del_tree, copy_tree or      *)
(* move_tree (with leaf, make_dir and copy_file, which they call, as       *)
(* places "pc" of the frame), and one step of the model is one system call *)
(* that can fail or be overtaken.  A file is a sequence of blocks, each    *)
(* named for the file it came from; a link is followed where open() does.  *)
(***************************************************************************)
EXTENDS Naturals, Sequences, FiniteSets, SequencesExt

CONSTANTS
    Order,      \* the names, in the order of the panel
    Depth,      \* a path longer than this is ENAMETOOLONG
    Room,       \* blocks a file may have before the disk is full
    Trees,      \* the trees a job may start from: functions from paths to nodes
    Homes,      \* the directories the panel may show
    Cwd,        \* the directory mc was started in
    Dests,      \* what may be typed as the destination
    Kinds,      \* "copy", "move", "delete"
    Faults,     \* how many calls may fail for a reason of their own
    Foreign,    \* how many files another program may create
    Jobs        \* how many jobs are run

VARIABLES
    fs,         \* the files: path -> node
    cross,      \* are the two top directories on different devices?
    here,       \* P[act].path
    base,       \* job_base
    dst,        \* job_dst
    job,        \* kind, sel, dir, pos, skip_err, and the highlighted name
    marks,      \* the names marked in the panel
    skips,      \* job_skips
    grp,        \* the answers that stand: dgrp, cf_group, cf_zero
    stack,      \* the calls being run, outermost first
    ask,        \* the question on the screen, "none" when there is none
    phase,      \* "idle", "query" (F8's question), "run", "over"
    budget,     \* faults and foreign files left
    past        \* what was so when the job began, and what has been answered

vars == <<fs, cross, here, base, dst, job, marks, skips, grp, stack, ask, phase, budget, past>>

Names == Range(Order)
None == [t |-> "none"]
Dir == [t |-> "dir"]
File(data, mt) == [t |-> "file", data |-> data, mt |-> mt]
Link(to) == [t |-> "link", to |-> to]
Paths == UNION {{<<r>> \o s : s \in SeqOf(Names, Depth - 1)} : r \in {"A", "B"}}

\* A path is one of the two top directories and names; a tree has one node at each.
Path == Seq(Names \cup {"A", "B"})
IsNode(x) ==
    /\ x.t \in {"none", "dir", "file", "link"}
    /\ x.t = "none" => x = None
    /\ x.t = "dir" => x = Dir
    /\ x.t = "file" => x = File(x.data, x.mt)
    /\ x.t = "link" => x = Link(x.to)

ASSUME OrderAssumption == Order \in Seq(Names) /\ Order # <<>> /\ IsInjective(Order)
ASSUME TreesAssumption ==
    \A f \in Trees : f \in [Paths -> Range(f)] /\ \A p \in Paths : IsNode(f[p])
ASSUME PathsAssumption == Homes \subseteq Path /\ Dests \subseteq Path /\ Cwd \in Path
ASSUME BoundAssumption ==
    /\ Depth \in Nat \ {0} /\ Room \in Nat
    /\ Faults \in Nat /\ Foreign \in Nat /\ Jobs \in Nat
    /\ Kinds \subseteq {"copy", "move", "delete"}

Exists(p) == p \in Paths /\ fs[p] # None
IsDir(p) == p \in Paths /\ fs[p] = Dir
Size(p) == IF fs[p].t = "file" THEN Len(fs[p].data) ELSE 1
Mtime(p) == IF fs[p].t = "file" THEN fs[p].mt ELSE 0
Children(p) == {n \in Names : Exists(Append(p, n))}
SameFile(p, q) == p = q
Under(d, s) == Len(d) > Len(s) /\ IsPrefix(s, d)
Within(d, s) == IsPrefix(s, d)
Target(p) == IF fs[p].t = "link" THEN fs[p].to ELSE p
Rest(p, s) == SubSeq(p, Len(s) + 1, Len(p))
Now == 2

\* Can an entry be made at p?  Its directory is there, and the path is not too long.
CanMake(p) == p \in Paths /\ Len(p) > 1 /\ IsDir(Front(p))

----------------------------------------------------------------------------
(* The items of the job.                                                   *)

Top == stack[Len(stack)]
Item == Order[job.pos - 1]
SrcOf(n) == Append(base, n)
DstOf(n) == IF job.dir THEN Append(dst, n) ELSE dst

\* Mutant: the highlighted item goes with the marked ones.
Chosen_CurToo(n) == (job.sel /\ n \in marks) \/ n = job.cur

Chosen(n) == IF job.sel THEN n \in marks ELSE n = job.cur
NextAt == {i \in job.pos .. Len(Order) : Chosen(Order[i])}
JobNext == CHOOSE i \in NextAt : \A j \in NextAt : i <= j

Frame(op, s, d, approved) ==
    [op |-> op, src |-> s, dst |-> d, pc |-> "start", how |-> "new", s0 |-> 0,
     left |-> {}, off |-> 0, approved |-> approved]

NoJob == [kind |-> "none", sel |-> FALSE, dir |-> FALSE, pos |-> 1, skipErr |-> FALSE, cur |-> Order[1]]
Begins == [fs |-> fs, base |-> base, here |-> here, agreed |-> {}, approved |-> {}, foreign |-> {},
           skips |-> skips, cancelled |-> FALSE, blind |-> FALSE, seen |-> marks]

Init ==
    /\ fs \in Trees
    /\ cross \in BOOLEAN
    /\ here \in Homes
    /\ base = Cwd                       \* empty: a name alone, which is taken from there
    /\ dst = <<>>
    /\ job = NoJob
    /\ marks \in SUBSET Children(here)
    /\ skips = 0
    /\ grp = [dir |-> "ask", file |-> "ask", zero |-> FALSE]
    /\ stack = <<>>
    /\ ask = "none"
    /\ phase = "idle"
    /\ budget = [fault |-> Faults, foreign |-> Foreign, jobs |-> Jobs]
    /\ past = Begins

JobRun ==
    /\ grp' = [dir |-> "ask", file |-> "ask", zero |-> FALSE]
    /\ phase' = "run"
    /\ past' = [Begins EXCEPT !.base = base']

(* F5, F6: the question, and Enter in it with a destination typed.         *)
OpConfirm(kind, cur, d) ==
    /\ phase = "idle" /\ budget.jobs > 0
    /\ marks = {} => cur \in Children(here)
    /\ marks # {} => IsDir(d)
    /\ base' = here
    /\ dst' = d
    /\ job' = [kind |-> kind, sel |-> marks # {}, dir |-> IsDir(d), pos |-> 1, skipErr |-> FALSE, cur |-> cur]
    /\ JobRun
    /\ budget' = [budget EXCEPT !.jobs = @ - 1]
    /\ UNCHANGED <<fs, cross, here, marks, skips, stack, ask>>

(* F8: the question first.                                                 *)
DeleteOpen(cur) ==
    /\ phase = "idle" /\ budget.jobs > 0
    /\ marks = {} => cur \in Children(here)
    /\ job' = [job EXCEPT !.kind = "delete", !.sel = marks # {}, !.cur = cur]
    /\ phase' = "query"
    /\ UNCHANGED <<fs, cross, here, base, dst, marks, skips, grp, stack, ask, budget, past>>

QyChoose(yes) ==
    /\ phase = "query"
    /\ IF yes
       THEN /\ job' = [job EXCEPT !.dir = FALSE, !.pos = 1, !.skipErr = FALSE]
            /\ base' = base
            /\ JobRun
            /\ budget' = [budget EXCEPT !.jobs = @ - 1]
       ELSE /\ phase' = "idle"
            /\ UNCHANGED <<base, job, grp, past, budget>>
    /\ UNCHANGED <<fs, cross, here, dst, marks, skips, stack, ask>>

(* The next item: one call of job_item.                                    *)
JobItem ==
    /\ phase = "run" /\ stack = <<>> /\ NextAt # {}
    /\ LET n == Order[JobNext]
           f == IF job.kind = "delete" THEN Frame("delete", SrcOf(n), SrcOf(n), FALSE)
                                       ELSE Frame(job.kind, SrcOf(n), DstOf(n), TRUE)
       IN  stack' = <<f>>
    /\ job' = [job EXCEPT !.pos = JobNext + 1]
    /\ UNCHANGED <<fs, cross, here, base, dst, marks, skips, grp, ask, phase, budget, past>>

JobEnd ==
    /\ phase = "run" /\ stack = <<>> /\ NextAt = {}
    /\ phase' = "over"
    /\ UNCHANGED <<fs, cross, here, base, dst, job, marks, skips, grp, stack, ask, budget, past>>

(* The panel is read again and another key is waited for.                  *)
Again ==
    /\ phase = "over"
    /\ phase' = "idle"
    /\ here' \in Homes
    /\ marks' = IF here' = here THEN marks \cap Children(here) ELSE {}
    /\ UNCHANGED <<fs, cross, base, dst, job, skips, grp, stack, ask, budget, past>>

----------------------------------------------------------------------------
(* How a call of the walk ends, or goes on.                                *)

Still == UNCHANGED <<cross, here, base, dst>>
Goto(f) == stack' = [stack EXCEPT ![Len(stack)] = f] /\ UNCHANGED <<marks, phase, ask, skips>>
At(pc) == Goto([Top EXCEPT !.pc = pc])

\* The call returns 0: at the top of the job the item loses its mark.
Returns ==
    /\ stack' = Front(stack)
    /\ marks' = IF Len(stack) = 1 THEN marks \ {Item} ELSE marks

Return == Returns /\ UNCHANGED <<phase, ask, skips>>
PassOver == Returns /\ skips' = skips + 1 /\ UNCHANGED <<phase, ask>>

\* -ECANCELED goes up through every call and ends the job: the mark stays.
Cancel ==
    /\ stack' = <<>>
    /\ phase' = "over"
    /\ past' = [past EXCEPT !.cancelled = TRUE]
    /\ UNCHANGED <<marks, skips>>

\* fail_ask: a question, or none when Skip all was chosen.  item: it cannot be tried again.
Fail(item, pc) ==
    IF job.skipErr
    THEN PassOver
    ELSE /\ ask' = IF item THEN "item" ELSE "fail"
         /\ stack' = [stack EXCEPT ![Len(stack)].pc = pc]
         /\ UNCHANGED <<marks, phase, skips>>

FailAnswer(a) ==
    /\ phase = "run" /\ ask \in {"fail", "item"}
    /\ ask' = "none"
    /\ CASE a = "abort" -> Cancel /\ job' = job
         [] a = "retry" /\ ask = "fail" ->
              UNCHANGED <<stack, marks, phase, skips, job, past>>
         [] OTHER ->
              /\ Returns
              /\ skips' = skips + 1
              /\ job' = [job EXCEPT !.skipErr = @ \/ a = "skipall"]
              /\ UNCHANGED <<phase, past>>
    /\ Still /\ UNCHANGED <<fs, grp, budget>>

\* A call fails for a reason of its own (permission, input and output, a full disk).
Faulty(outcome) ==
    /\ budget.fault > 0
    /\ budget' = [budget EXCEPT !.fault = @ - 1]
    /\ outcome

Running(op, pc) ==
    /\ phase = "run" /\ ask = "none" /\ stack # <<>>
    /\ Top.op \in op /\ Top.pc = pc

Same == Still /\ UNCHANGED <<job, grp>>
Put(p, node) == fs' = [fs EXCEPT ![p] = node]

Call(f, pc) == stack' = [stack EXCEPT ![Len(stack)].pc = pc] \o <<f>> /\ UNCHANGED <<marks, phase, ask, skips>>
Quiet == UNCHANGED <<fs, budget, past>>
Gone(p) == Put(p, None) /\ UNCHANGED <<budget, past>>

----------------------------------------------------------------------------
(* del_tree: a file or a link is unlinked, an empty directory removed.     *)

\* dir_ask, with the answer that stands for the rest of the job.
Approve == /\ Goto([Top EXCEPT !.pc = "open", !.approved = TRUE])
           /\ past' = [past EXCEPT !.approved = @ \cup {Top.src}]
\* Mutant: a directory is taken as approved.
DirAsk_Never == At("open") /\ past' = past

DirAsk ==
    CASE grp.dir = "all"  -> Approve
      [] grp.dir = "none" -> PassOver /\ past' = past
      [] OTHER            -> ask' = "dir" /\ UNCHANGED <<stack, marks, phase, skips, past>>

DirAnswer(a) ==
    /\ phase = "run" /\ ask = "dir"
    /\ ask' = "none"
    /\ grp' = [grp EXCEPT !.dir = IF a \in {"all", "none"} THEN a ELSE @]
    /\ CASE a = "abort"          -> Cancel
         [] a \in {"no", "none"} -> Returns /\ skips' = skips + 1 /\ UNCHANGED <<phase, past>>
         [] OTHER -> /\ stack' = [stack EXCEPT ![Len(stack)].pc = "open",
                                               ![Len(stack)].approved = TRUE]
                     /\ past' = [past EXCEPT !.approved = @ \cup {Top.src}]
                     /\ UNCHANGED <<marks, phase, skips>>
    /\ Still /\ UNCHANGED <<fs, job, budget>>

DelTree ==
    /\ Running({"delete"}, "start")
    /\ LET p == Top.src
       IN  \/ ~Exists(p) /\ Return /\ Quiet
           \/ \* statx fails, for any reason: taken for a file that is gone
              Exists(p) /\ Faulty(Return) /\ fs' = fs /\ past' = [past EXCEPT !.blind = TRUE]
           \/ Exists(p) /\ Faulty(Fail(FALSE, "start")) /\ UNCHANGED <<fs, past>>
           \/ Exists(p) /\ (IsDir(p) => Children(p) = {}) /\ Gone(p) /\ Return
           \/ /\ IsDir(p) /\ Children(p) # {}
              /\ IF Top.approved THEN At("open") /\ past' = past ELSE DirAsk
              /\ UNCHANGED <<fs, budget>>
    /\ Same

----------------------------------------------------------------------------
(* copy_tree and move_tree.                                                *)

\* What both ask of the two paths first.  A file or a link is a leaf.
CopyTree ==
    /\ Running({"copy", "move"}, "start")
    /\ \/ Faulty(Fail(TRUE, "start")) /\ UNCHANGED <<fs, past>>
       \/ \* a copy that cannot look at the destination takes it for a free place
          /\ Top.op = "copy" /\ IsDir(Top.src) /\ Top.dst \in Paths /\ ~Under(Top.dst, Top.src)
          /\ Faulty(Goto([Top EXCEPT !.pc = "mkdir", !.s0 = skips])) /\ UNCHANGED <<fs, past>>
       \/ /\ Quiet
          /\ LET d == Top.dst
                 no == \/ d \notin Paths \/ ~Exists(Top.src)
                       \/ /\ IsDir(Top.src)
                          /\ \/ Under(d, Top.src)
                             \/ Exists(d) /\ (~IsDir(d) \/ SameFile(d, Top.src))
                 into == IF Exists(d) THEN "open" ELSE IF Top.op = "copy" THEN "mkdir" ELSE "mvdir"
             IN  \/ no /\ Fail(TRUE, "start")
                 \/ ~no /\ ~IsDir(Top.src) /\ At("conflict")
                 \/ ~no /\ IsDir(Top.src) /\ Goto([Top EXCEPT !.pc = into, !.s0 = skips])
    /\ Same

MakeDir ==
    /\ Running({"copy"}, "mkdir")
    /\ \/ Exists(Top.dst) /\ At("open") /\ Quiet                                  \* EEXIST
       \/ ~Exists(Top.dst) /\ ~CanMake(Top.dst) /\ Fail(FALSE, "mkdir") /\ Quiet
       \/ CanMake(Top.dst) /\ ~Exists(Top.dst)
          /\ \/ Put(Top.dst, Dir) /\ At("open") /\ UNCHANGED <<budget, past>>
             \/ Faulty(Fail(FALSE, "mkdir")) /\ UNCHANGED <<fs, past>>
    /\ Same

\* each_entry: the names are read, and the call made for each of them.
EachEntry ==
    /\ \/ /\ Running({"copy", "move", "delete"}, "open")
          /\ \/ Goto([Top EXCEPT !.pc = "each", !.left = Children(Top.src)]) /\ Quiet
             \/ Faulty(Fail(Top.op # "delete", "start")) /\ UNCHANGED <<fs, past>>
       \/ /\ Running({"copy", "move", "delete"}, "each")
          /\ \E n \in Top.left :
               stack' = Append([stack EXCEPT ![Len(stack)].left = @ \ {n}],
                               Frame(Top.op, Append(Top.src, n), Append(Top.dst, n), TRUE))
          /\ UNCHANGED <<marks, phase, ask, skips>> /\ Quiet
    /\ Same

\* The last entry is done.  A directory moved away, or deleted, is removed; one of which
\* something was passed over stays.
Entered ==
    /\ Running({"copy", "move", "delete"}, "each") /\ Top.left = {}
    /\ LET p == Top.src
       IN  \/ (Top.op = "copy" \/ (Top.op = "move" /\ skips # Top.s0)) /\ Return /\ Quiet
           \/ /\ Top.op = "delete" \/ (Top.op = "move" /\ skips = Top.s0)
              /\ \/ Children(p) = {} /\ Gone(p) /\ Return
                 \/ Children(p) # {} /\ Fail(Top.op = "move", "start") /\ Quiet
                 \/ Children(p) = {} /\ Faulty(Fail(Top.op = "move", "start")) /\ UNCHANGED <<fs, past>>
    /\ Same

\* A directory to a free place: a rename, or across devices a copy.
Device(p) == IF cross THEN Head(p) ELSE "one"
RenameTree(s, d) ==
    fs' = [p \in Paths |-> CASE Within(p, d) -> IF (s \o Rest(p, d)) \in Paths THEN fs[s \o Rest(p, d)] ELSE None
                             [] Within(p, s) /\ ~Within(p, d) -> None
                             [] OTHER -> fs[p]]
MoveDir ==
    /\ Running({"move"}, "mvdir")
    /\ IF Device(Top.src) # Device(Top.dst)
       THEN Call(Frame("copy", Top.src, Top.dst, TRUE), "copied") /\ Quiet
       ELSE \/ CanMake(Top.dst) /\ ~Exists(Top.dst)
               /\ RenameTree(Top.src, Top.dst) /\ Return /\ UNCHANGED <<budget, past>>
            \/ (~CanMake(Top.dst) \/ Exists(Top.dst)) /\ Fail(TRUE, "mvdir") /\ Quiet
            \/ Faulty(Fail(TRUE, "mvdir")) /\ UNCHANGED <<fs, past>>
    /\ Same

\* Mutant: the source goes, whatever was passed over.
Copied_Always ==
    /\ Running({"move"}, "copied")
    /\ Goto(Frame("delete", Top.src, Top.src, TRUE))
    /\ Quiet /\ Same

\* The copy across devices is made: the source goes, unless something was passed over.
Copied ==
    /\ Running({"move"}, "copied")
    /\ IF skips # Top.s0
       THEN Return
       ELSE Goto(Frame("delete", Top.src, Top.src, TRUE))
    /\ Quiet /\ Same

----------------------------------------------------------------------------
(* leaf: one file or link.                                                 *)

Write(how) == [Top EXCEPT !.pc = IF Top.op = "move" THEN "write" ELSE "copy", !.how = how, !.off = 0]
Agreed == past' = [past EXCEPT !.agreed = @ \cup {Top.dst}]

\* conflict_rule: the answer that stands, for this pair.
Rule(g) ==
    LET s == Top.src
        zero == grp.zero /\ Size(s) = 0
        over == CASE g = "all" -> ~zero
                  [] g = "older" -> Mtime(s) > Mtime(Top.dst) /\ ~zero
                  [] g = "none" -> FALSE
                  [] g = "smaller" -> Size(s) > Size(Top.dst)
                  [] g = "size" -> Size(s) # Size(Top.dst) /\ ~zero
    IN  IF over THEN "over" ELSE "skip"

Decide(d) ==
    IF d = "skip"
    THEN Returns /\ skips' = skips + 1 /\ UNCHANGED <<phase, past>>
    ELSE stack' = [stack EXCEPT ![Len(stack)] = Write(d)] /\ Agreed /\ UNCHANGED <<marks, phase, skips>>

Conflict ==
    /\ Running({"copy", "move"}, "conflict")
    /\ \/ ~Exists(Top.dst) /\ Goto(Write("new")) /\ Quiet
       \/ Exists(Top.dst) /\ Faulty(Goto(Write("new"))) /\ UNCHANGED <<fs, past>>    \* statx fails
       \/ /\ Exists(Top.dst) /\ UNCHANGED <<fs, budget>>
          /\ CASE SameFile(Top.src, Top.dst) -> Fail(TRUE, "conflict") /\ past' = past
               [] ~SameFile(Top.src, Top.dst) /\ grp.file = "ask" ->
                    ask' = "conflict" /\ UNCHANGED <<stack, marks, phase, skips, past>>
               [] OTHER -> Decide(Rule(grp.file)) /\ ask' = ask
    /\ Same

CfChoose(a) ==
    /\ phase = "run" /\ ask = "conflict"
    /\ ask' = IF a = "zero" THEN ask ELSE "none"
    /\ grp' = CASE a = "zero" -> [grp EXCEPT !.zero = ~@]
                [] a \in {"all", "older", "none", "smaller", "size"} -> [grp EXCEPT !.file = a]
                [] OTHER -> grp
    /\ CASE a = "zero"   -> UNCHANGED <<stack, marks, phase, skips, past>>
         [] a = "abort"  -> Cancel
         [] a = "yes"    -> Decide("over")
         [] a = "no"     -> Decide("skip")
         [] a = "append" -> Decide("append")
         [] OTHER        -> Decide(Rule(a))
    /\ Still /\ UNCHANGED <<fs, job, budget>>

\* op_file: a new place must be free, when it is looked at.
OpFile ==
    /\ Running({"move"}, "write")
    /\ CASE Top.how = "new" /\ Exists(Top.dst) -> Fail(FALSE, "write")
         [] Top.how = "append" -> At("copy")
         [] OTHER -> At("rename")
    /\ Quiet /\ Same

\* renameat2, which replaces what is there by now.
Rename ==
    /\ Running({"move"}, "rename")
    /\ IF Device(Top.src) # Device(Top.dst)
       THEN Goto([Top EXCEPT !.pc = "copy"]) /\ Quiet
       ELSE \/ /\ CanMake(Top.dst) /\ ~IsDir(Top.dst)
               /\ fs' = [fs EXCEPT ![Top.src] = None, ![Top.dst] = fs[Top.src]]
               /\ Return /\ UNCHANGED <<budget, past>>
            \/ (~CanMake(Top.dst) \/ IsDir(Top.dst)) /\ Fail(FALSE, "write") /\ Quiet
            \/ Faulty(Fail(FALSE, "write")) /\ UNCHANGED <<fs, past>>
    /\ Same

Restart(f) == IF f.op = "move" THEN "write" ELSE "copy"
Finish == IF Top.op = "move" THEN At("unlink") ELSE Return

\* copy_file of a link: a link is replaced, not written in.
CopyLink ==
    /\ Running({"copy", "move"}, "copy") /\ fs[Top.src].t = "link"
    /\ LET gone == IF Top.how # "new" /\ Exists(Top.dst) /\ ~IsDir(Top.dst) THEN {Top.dst} ELSE {}
           cleared == [p \in Paths |-> IF p \in gone THEN None ELSE fs[p]]
       IN  \/ /\ CanMake(Top.dst) /\ cleared[Top.dst] = None
              /\ Put(Top.dst, fs[Top.src]) /\ Finish /\ UNCHANGED <<budget, past>>
           \/ /\ ~CanMake(Top.dst) \/ cleared[Top.dst] # None
              /\ Fail(FALSE, Restart(Top)) /\ Quiet
           \/ Faulty(Fail(FALSE, Restart(Top))) /\ fs' = cleared /\ past' = past
    /\ Same

\* Mutant: the destination is opened without O_EXCL.
OpenBoth_NoExcl ==
    /\ Running({"copy", "move"}, "copy") /\ fs[Top.src].t = "file"
    /\ LET q == IF Exists(Top.dst) THEN Target(Top.dst) ELSE Top.dst
           old == IF Exists(q) /\ Top.how = "append" THEN fs[q].data ELSE <<>>
       IN  /\ CanMake(q) /\ ~IsDir(q)
           /\ Put(q, File(old, Now))
           /\ Goto([Top EXCEPT !.pc = "data", !.off = 0]) /\ UNCHANGED <<budget, past>>
    /\ Same

\* copy_file of a file: the destination is made, emptied or added to.
OpenBoth ==
    /\ Running({"copy", "move"}, "copy") /\ fs[Top.src].t = "file"
    /\ LET q == IF Top.how # "new" /\ Exists(Top.dst) THEN Target(Top.dst) ELSE Top.dst
           old == IF Exists(q) /\ Top.how = "append" THEN fs[q].data ELSE <<>>
       IN  \/ /\ CanMake(q) /\ ~IsDir(q) /\ (Top.how = "new" => ~Exists(q))
              /\ Put(q, File(old, Now))
              /\ Goto([Top EXCEPT !.pc = "data", !.off = 0]) /\ UNCHANGED <<budget, past>>
           \/ /\ ~CanMake(q) \/ IsDir(q) \/ (Top.how = "new" /\ Exists(q))
              /\ Fail(FALSE, Restart(Top)) /\ Quiet
           \/ Faulty(Fail(FALSE, Restart(Top))) /\ UNCHANGED <<fs, past>>
    /\ Same

\* copy_data fails: a destination made here goes again.
Undone == IF Top.how = "new" THEN Put(Top.dst, None) ELSE fs' = fs
\* Mutant: a write that came short is taken for the end.
CopyData_ShortWrite ==
    /\ Running({"copy", "move"}, "data")
    /\ LET q == Target(Top.dst)
           more == Top.off < Len(fs[Top.src].data)
           full == Len(fs[q].data) = Room
       IN  \/ /\ more /\ ~full
              /\ Put(q, [fs[q] EXCEPT !.data = Append(@, fs[Top.src].data[Top.off + 1])])
              /\ Goto([Top EXCEPT !.off = @ + 1]) /\ UNCHANGED <<budget, past>>
           \/ more /\ full /\ Finish /\ Quiet
           \/ ~more /\ Finish /\ Quiet
    /\ Same

CopyData ==
    /\ Running({"copy", "move"}, "data")
    /\ LET q == Target(Top.dst)
           more == Top.off < Len(fs[Top.src].data)
           full == Len(fs[q].data) = Room
       IN  \/ /\ more /\ ~full
              /\ Put(q, [fs[q] EXCEPT !.data = Append(@, fs[Top.src].data[Top.off + 1])])
              /\ Goto([Top EXCEPT !.off = @ + 1]) /\ UNCHANGED <<budget, past>>
           \/ more /\ full /\ Fail(FALSE, Restart(Top)) /\ Undone /\ UNCHANGED <<budget, past>>
           \/ more /\ Faulty(Fail(FALSE, Restart(Top))) /\ Undone /\ past' = past
           \/ ~more /\ Finish /\ Quiet
    /\ Same

\* Esc, or A, typed while the bytes go across.
EscTyped ==
    /\ Running({"copy", "move"}, "data") /\ Top.off > 0
    /\ Undone /\ Cancel /\ ask' = ask /\ budget' = budget
    /\ Same

\* The source of a move by copy goes last.
UnlinkSource ==
    /\ Running({"move"}, "unlink")
    /\ \/ Gone(Top.src) /\ Return
       \/ Faulty(Fail(FALSE, "write")) /\ UNCHANGED <<fs, past>>
    /\ Same

(* Another program makes a file.                                           *)
Other(p) ==
    /\ phase = "run" /\ budget.foreign > 0
    /\ CanMake(p) /\ ~Exists(p)
    /\ Put(p, File(<<"other">>, 1))
    /\ budget' = [budget EXCEPT !.foreign = @ - 1]
    /\ past' = [past EXCEPT !.foreign = @ \cup {p}]
    /\ Same /\ UNCHANGED <<marks, phase, ask, skips, stack>>

Next ==
    \/ \E k \in Kinds \ {"delete"}, c \in Names, d \in Dests : OpConfirm(k, c, d)
    \/ \E c \in Names : "delete" \in Kinds /\ DeleteOpen(c)
    \/ \E yes \in BOOLEAN : QyChoose(yes)
    \/ JobItem
    \/ JobEnd
    \/ Again
    \/ DelTree
    \/ CopyTree
    \/ MakeDir
    \/ EachEntry
    \/ Entered
    \/ MoveDir
    \/ Copied
    \/ Conflict
    \/ OpFile
    \/ Rename
    \/ CopyLink
    \/ OpenBoth
    \/ CopyData
    \/ EscTyped
    \/ UnlinkSource
    \/ \E a \in {"skip", "skipall", "retry", "abort"} : FailAnswer(a)
    \/ \E a \in {"yes", "no", "all", "none", "abort"} : DirAnswer(a)
    \/ \E a \in {"yes", "no", "append", "zero", "all", "older", "none", "smaller", "size", "abort"} : CfChoose(a)
    \/ \E p \in Paths : Other(p)

Spec == Init /\ [][Next]_vars

----------------------------------------------------------------------------
(* Properties.                                                             *)

Working == phase \in {"run", "over"}
Items == {n \in Names : IF job.sel THEN n \in past.seen ELSE n = job.cur}
ItemSrc(n) == Append(past.base, n)
ItemDst(n) == IF job.dir THEN Append(dst, n) ELSE dst
Sources == {p \in Paths : past.fs[p] # None /\ \E n \in Items : Within(p, ItemSrc(n))}
Image(p) == LET n == p[Len(past.base) + 1] IN ItemDst(n) \o Rest(p, ItemSrc(n))
Aliased(p) == \E l \in Paths : past.fs[l] = Link(p)
Holds(p, node) ==
    /\ Exists(p)
    /\ IF node.t = "file" THEN fs[p].t = "file" /\ IsSuffix(node.data, fs[p].data)
                          ELSE fs[p] = node

\* Whatever fails, is answered or is typed in the middle, every file and link a job copies or
\* moves is whole in one of its two places, unless it was itself written over by an answer.  (A
\* file that a link names is another matter: open() follows the link at the destination, and
\* O_TRUNC empties the very file that is to be read.)
NothingLost ==
    Working /\ job.kind \in {"copy", "move"} =>
        \A p \in Sources : past.fs[p] # Dir /\ ~Aliased(p) /\ p \notin past.agreed =>
            \/ Holds(p, past.fs[p])
            \/ job.kind = "move" /\ Holds(Image(p), past.fs[p])

\* A job touches its items, their places at the destination, and nothing else: not the items
\* beside them, nor what is beside their copies.
OnlyTheItems ==
    Working => \A p \in Paths :
        \/ fs[p] = past.fs[p]
        \/ p \in past.foreign
        \/ \E n \in Items : Within(p, ItemSrc(n)) \/ (job.kind # "delete" /\ Within(p, ItemDst(n)))
        \/ \E l \in Paths, n \in Items : past.fs[l] = Link(p) /\ Within(l, ItemDst(n))

\* A copy changes a file that is there, or that another program made there while it ran, only
\* after an answer that says so.
KeepsUnasked ==
    Working /\ job.kind = "copy" =>
        \A p \in Paths :
            LET was == IF p \in past.foreign THEN File(<<"other">>, 1) ELSE past.fs[p]
            IN  was \notin {None, Dir} /\ fs[p] # was =>
                    \/ p \in past.agreed
                    \/ \E l \in past.agreed : past.fs[l] = Link(p)

\* A job that ends with nothing passed over and nothing stopped has done what it said: a copy is
\* whole, what was moved or deleted is gone.  (blind: del_tree could not look at a file.)
DoneMeansDone ==
    phase = "over" /\ ~past.cancelled /\ ~past.blind /\ skips = past.skips =>
        \A p \in Sources : ~Aliased(p) =>
            /\ job.kind # "delete" => Holds(Image(p), past.fs[p])
            /\ job.kind # "copy" => ~Exists(p) \/ p \in past.foreign

\* F8 takes what is in a directory only after Yes or All was answered for that directory.
DeletesApproved ==
    Working /\ job.kind = "delete" =>
        \A p \in Sources :
            fs[p] # past.fs[p] /\ Len(p) > Len(past.base) + 1 =>
                ItemSrc(p[Len(past.base) + 1]) \in past.approved

\* What F8 deletes is in the directory the panel shows.  ("job_base: where the items are: the
\* panel's directory, or the staging directory", mc.c:4206.)
DeletesWhatIsShown ==
    Working /\ job.kind = "delete" =>
        \A p \in Paths : fs[p] # past.fs[p] /\ p \notin past.foreign => Within(p, past.here)

=============================================================================
