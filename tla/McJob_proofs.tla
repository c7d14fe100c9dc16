----------------------------- MODULE McJob_proofs -----------------------------
(* OnlyTheItems, KeepsUnasked and DeletesApproved of McJob, for any names,  *)
(* trees, depth, destinations, faults, foreign files and number of jobs.    *)
(*                                                                          *)
(* The walk is a stack of calls, each within the source and the destination *)
(* of the item (Placed); a call that writes over something has the answer   *)
(* for it, and the first call of a deletion has the answer for all of it    *)
(* (First).  What makes this hard is that open() follows a link at the      *)
(* destination.  The file it names may be written in only if the link was   *)
(* there when the job began, for then it was asked about: so wherever a     *)
(* call or a later item may still come (Ahead, Later), a link is an old one *)
(* (LinksOld).  The links a job makes itself are behind it: a call makes    *)
(* nothing where the calls around it come again (Apart).                    *)
(*                                                                          *)
(* A step touches the source or the destination of the innermost call       *)
(* (Touches), a copy only what yields (Asks), and then that call and those  *)
(* around it end, it goes on, or it calls another (Quits, Pops, Swaps,      *)
(* Pushes).  Each of these keeps the invariant; an action is shown to be    *)
(* one of them.                                                             *)
EXTENDS McJob, TLAPS, WellFoundedInduction

-----------------------------------------------------------------------------
(* Paths.                                                                   *)

LEMMA WithinIs ==
  ASSUME NEW S, NEW p \in Seq(S), NEW s \in Seq(S)
  PROVE  Within(p, s) <=> Len(s) <= Len(p) /\ \A i \in 1..Len(s) : p[i] = s[i]
<1>1. ASSUME Len(s) <= Len(p)
      PROVE  /\ Len(SubSeq(s, 1, Len(s))) = Len(s) /\ Len(SubSeq(p, 1, Len(s))) = Len(s)
             /\ \A i \in 1..Len(s) : SubSeq(s, 1, Len(s))[i] = s[i] /\ SubSeq(p, 1, Len(s))[i] = p[i]
  BY <1>1
<1>2. ASSUME Len(s) <= Len(p), \A i \in 1..Len(s) : p[i] = s[i]
      PROVE  SubSeq(s, 1, Len(s)) = SubSeq(p, 1, Len(s))
  BY <1>2
<1>. QED BY <1>1, <1>2 DEF Within, IsPrefix

LEMMA WithinSelf == \A p : Within(p, p)
BY DEF Within, IsPrefix

LEMMA WithinTrans ==
  ASSUME NEW S, NEW p \in Seq(S), NEW q \in Seq(S), NEW r \in Seq(S), Within(p, q), Within(q, r)
  PROVE  Within(p, r)
<1>1. Len(q) <= Len(p) /\ \A i \in 1..Len(q) : p[i] = q[i]
  BY WithinIs
<1>2. Len(r) <= Len(q) /\ \A i \in 1..Len(r) : q[i] = r[i]
  BY WithinIs
<1>3. Len(r) <= Len(p) /\ \A i \in 1..Len(r) : p[i] = r[i]
  BY <1>1, <1>2
<1>. QED BY <1>3, WithinIs

\* A child, and what is within it.
LEMMA WithinChild ==
  ASSUME NEW S, NEW d \in Seq(S), NEW n \in S
  PROVE  /\ Append(d, n) \in Seq(S) /\ Within(Append(d, n), d)
         /\ \A p \in Seq(S) : Within(p, Append(d, n)) => p[Len(d) + 1] = n /\ Len(p) > Len(d)
<1>. DEFINE c == Append(d, n)
<1>1. /\ c \in Seq(S) /\ Len(c) = Len(d) + 1 /\ c[Len(d) + 1] = n
      /\ \A i \in 1..Len(d) : c[i] = d[i]
  OBVIOUS
<1>. HIDE DEF c
<1>2. Within(c, d)
  BY <1>1, WithinIs
<1>3. ASSUME NEW p \in Seq(S), Within(p, c)
      PROVE  p[Len(d) + 1] = n /\ Len(p) > Len(d)
  <2>1. Len(c) <= Len(p) /\ \A i \in 1..Len(c) : p[i] = c[i]
    BY <1>1, <1>3, WithinIs
  <2>. QED BY <1>1, <2>1
<1>. QED BY <1>1, <1>2, <1>3 DEF c

LEMMA PathsArePath == Paths \subseteq Path
<1> SUFFICES ASSUME NEW p \in Paths PROVE p \in Path
  OBVIOUS
<1>1. PICK r \in {"A", "B"}, s \in SeqOf(Names, Depth - 1) : p = <<r>> \o s
  BY DEF Paths
<1>2. PICK m \in 0..Depth - 1 : s \in [1..m -> Names]
  BY <1>1 DEF SeqOf
<1>3. s \in Seq(Names) /\ s \in Seq(Names \cup {"A", "B"})
  BY <1>2, BoundAssumption
<1>. QED BY <1>1, <1>3 DEF Path

LEMMA ChildPath ==
  ASSUME NEW p \in Path, NEW n \in Names
  PROVE  Append(p, n) \in Path
BY DEF Path

LEMMA WithinTransPath ==
  ASSUME NEW p \in Path, NEW q \in Path, NEW r \in Path, Within(p, q), Within(q, r)
  PROVE  Within(p, r)
BY WithinTrans DEF Path

\* What is within a child is within its directory, and not within another child.
LEMMA ChildIn ==
  ASSUME NEW d \in Path, NEW n \in Names
  PROVE  /\ Append(d, n) \in Path /\ Within(Append(d, n), d)
         /\ \A p \in Path : Within(p, Append(d, n)) => /\ Within(p, d) /\ p[Len(d) + 1] = n
                                                     /\ Len(p) > Len(d)
<1>1. n \in Names \cup {"A", "B"} /\ d \in Seq(Names \cup {"A", "B"})
  BY DEF Path
<1>2. /\ Append(d, n) \in Path /\ Within(Append(d, n), d)
      /\ \A p \in Path : Within(p, Append(d, n)) => p[Len(d) + 1] = n /\ Len(p) > Len(d)
  BY <1>1, WithinChild DEF Path
<1>. QED BY <1>2, WithinTransPath

LEMMA OrderNames == /\ \A i \in 1..Len(Order) : Order[i] \in Names
                /\ Len(Order) \in Nat \ {0}
                /\ \A i, j \in 1..Len(Order) : Order[i] = Order[j] => i = j
<1>1. Order \in Seq(Names) /\ Order # <<>> /\ IsInjective(Order)
  BY OrderAssumption
<1>. QED BY <1>1 DEF IsInjective

-----------------------------------------------------------------------------
(* The stack.                                                               *)

LEMMA Popped ==
  ASSUME NEW S, NEW s \in Seq(S), s # <<>>
  PROVE  /\ Front(s) \in Seq(S) /\ Len(Front(s)) = Len(s) - 1
         /\ \A i \in 1..Len(s) - 1 : Front(s)[i] = s[i]
<1>. DEFINE m == Len(s) - 1
<1>1. Len(s) = m + 1 /\ m \in Nat /\ m <= Len(s)
  OBVIOUS
<1>. HIDE DEF m
<1>2. Len(SubSeq(s, 1, m)) = m
  BY <1>1
<1>3. \A i \in 1..m : SubSeq(s, 1, m)[i] = s[i]
  BY <1>1
<1>4. SubSeq(s, 1, m) \in Seq(S)
  BY <1>1
<1>. QED BY <1>2, <1>3, <1>4 DEF Front, m

LEMMA Swapped ==
  ASSUME NEW S, NEW s \in Seq(S), s # <<>>, NEW f \in S
  PROVE  /\ [s EXCEPT ![Len(s)] = f] \in Seq(S) /\ Len([s EXCEPT ![Len(s)] = f]) = Len(s)
         /\ [s EXCEPT ![Len(s)] = f][Len(s)] = f
         /\ \A i \in 1..Len(s) - 1 : [s EXCEPT ![Len(s)] = f][i] = s[i]
         /\ [s EXCEPT ![Len(s)] = f] # <<>>
OBVIOUS

LEMMA Pushed ==
  ASSUME NEW S, NEW s \in Seq(S), s # <<>>, NEW f \in S, NEW g \in S,
         NEW t, t = Append([s EXCEPT ![Len(s)] = f], g)
  PROVE  /\ t \in Seq(S) /\ Len(t) = Len(s) + 1
         /\ t[Len(s) + 1] = g /\ t[Len(s)] = f
         /\ \A i \in 1..Len(s) - 1 : t[i] = s[i]
<1>. DEFINE u == [s EXCEPT ![Len(s)] = f]
<1>1. /\ u \in Seq(S) /\ Len(u) = Len(s)
      /\ u[Len(s)] = f /\ \A i \in 1..Len(s) - 1 : u[i] = s[i]
  BY Swapped
<1>2. t = Append(u, g)
  OBVIOUS
<1>. HIDE DEF u
<1>3. Len(s) \in Nat /\ Len(s) > 0
  OBVIOUS
<1>4. t \in Seq(S) /\ Len(t) = Len(s) + 1
  BY <1>1, <1>2
<1>5. /\ t[Len(s) + 1] = g
      /\ \A i \in 1..Len(s) : t[i] = u[i]
  BY <1>1, <1>2, <1>3
<1>. QED BY <1>1, <1>3, <1>4, <1>5

-----------------------------------------------------------------------------
(* The inductive invariant.                                                 *)

FsOK(tree) == tree = [p \in Paths |-> tree[p]] /\ \A p \in Paths : IsNode(tree[p])
Places == {"start", "open", "each", "mkdir", "mvdir", "copied",
           "conflict", "write", "rename", "copy", "data", "unlink"}
LeafPC == {"conflict", "write", "rename", "copy", "data", "unlink"}
Frames == [op : {"copy", "move", "delete"}, src : Path, dst : Path, pc : Places,
           how : {"new", "over", "append"}, s0 : Nat, left : SUBSET Names, off : Nat,
           approved : BOOLEAN]
JobType == [kind : {"none", "copy", "move", "delete"}, sel : BOOLEAN, dir : BOOLEAN,
            pos : 1..Len(Order) + 1, skipErr : BOOLEAN, cur : Names]
PastOK ==
  /\ past = [fs |-> past.fs, base |-> past.base, here |-> past.here, agreed |-> past.agreed,
             approved |-> past.approved, foreign |-> past.foreign, skips |-> past.skips,
             cancelled |-> past.cancelled, blind |-> past.blind, seen |-> past.seen]
  /\ past.seen \subseteq Names
Typed ==
  /\ FsOK(fs) /\ PastOK
  /\ here \in Path /\ base \in Path /\ dst \in Path
  /\ job \in JobType /\ marks \subseteq Names /\ skips \in Nat
  /\ stack \in Seq(Frames) /\ phase \in {"idle", "query", "run", "over"}

\* A job has begun, and what is run is for one of its items.
Course ==
  /\ phase # "run" => stack = <<>> /\ ask = "none"
  /\ phase = "query" => job.kind = "delete"
  /\ Working => /\ past.base = base /\ marks \subseteq past.seen /\ job.kind # "none"
                /\ job.kind # "delete" /\ job.sel => job.dir
  /\ stack # <<>> => job.pos > 1 /\ Item \in Items
  /\ ask # "none" => stack # <<>>
  /\ ask = "conflict" => Top.pc = "conflict" /\ Top.src # Top.dst
  /\ ask = "dir" => Top.op = "delete"

\* A call works within its item, and writes over what is there after an answer.
Placed(f) ==
  /\ Within(f.src, SrcOf(Item))
  /\ f.op # "delete" => Within(f.dst, DstOf(Item))
  /\ job.kind \in {"copy", "delete"} => f.op = job.kind
  /\ job.kind = "delete" /\ f.pc \in {"open", "each"} => f.approved
  /\ f.how # "new" => f.dst \in past.agreed /\ f.src # f.dst
\* The file a call copies is there, and so is the copy.
Leaf(tree, f) ==
  /\ f.pc \in LeafPC => f.src \in Paths /\ f.dst \in Paths /\ tree[f.src] # None
  /\ f.pc = "data" =>
       LET q == IF tree[f.dst].t = "link" THEN tree[f.dst].to ELSE f.dst
       IN  /\ f.src # f.dst /\ q \in Paths /\ tree[q].t = "file"
           /\ f.how = "new" => q = f.dst
\* A place that is not to be written over is one that was free, or was written over before.
Was(p) == IF p \in past.foreign THEN File(<<"other">>, 1) ELSE past.fs[p]
Yields(p) == \/ Was(p) \in {None, Dir} \/ p \in past.agreed
             \/ \E l \in past.agreed : past.fs[l] = Link(p)
Mild(f) == job.kind = "copy" /\ f.pc = "data" /\ f.how = "new" => Yields(f.dst)
Calls ==
  /\ \A i \in 1..Len(stack) : Placed(stack[i]) /\ Leaf(fs, stack[i]) /\ Mild(stack[i])
  /\ \A i \in 1..Len(stack) - 1 : stack[i].pc \in {"each", "copied"}

\* The first call of a deletion has the answer for all of it.
First ==
  stack # <<>> /\ job.kind = "delete" =>
    /\ stack[1].src = SrcOf(Item)
    /\ stack[1].approved => stack[1].src \in past.approved
    /\ Len(stack) > 1 => stack[1].approved

\* Where a call may still make something: a link there is the one that was
\* there when the job began, so that who follows it was asked about it.
Ahead(tree, f, l) ==
  /\ f.op # "delete" /\ f.pc # "copied"
  /\ IF f.pc = "each" THEN \E n \in f.left : Within(l, Append(f.dst, n)) ELSE Within(l, f.dst)
  /\ f.pc \in {"write", "rename", "copy", "unlink"} => tree[f.src].t = "file"
Later(l) ==
  /\ phase = "run" /\ job.kind # "delete"
  /\ \E i \in job.pos .. Len(Order) : Chosen(Order[i]) /\ Within(l, DstOf(Order[i]))
Awaited(l) == \/ Later(l)
              \/ \E i \in 1..Len(stack) : /\ Ahead(fs, stack[i], l)
                                          /\ i = Len(stack) => ask # "item"
LinksOld == \A l \in Paths : Awaited(l) /\ fs[l].t = "link" => past.fs[l] = fs[l]
\* What one call makes the calls around it do not come to again.
Apart ==
  \A j \in 1..Len(stack) : \A i \in 1..j - 1 : \A l \in Paths :
    stack[j].op # "delete" /\ Within(l, stack[j].dst) => ~Ahead(fs, stack[i], l)

JobInv == /\ Typed /\ Course /\ Calls /\ First /\ LinksOld /\ Apart
          /\ OnlyTheItems /\ KeepsUnasked /\ DeletesApproved

-----------------------------------------------------------------------------
(* What the steps of a job have in common.                                  *)

Steady ==
  /\ phase = "run" /\ stack # <<>> /\ phase' \in {"run", "over"}
  /\ UNCHANGED <<here, base, dst>>
  /\ FsOK(fs') /\ PastOK' /\ job' \in JobType /\ skips' \in Nat /\ marks' \subseteq marks
  /\ job'.kind = job.kind /\ job'.sel = job.sel /\ job'.dir = job.dir
  /\ job'.pos = job.pos /\ job'.cur = job.cur
  /\ past'.fs = past.fs /\ past'.base = past.base
  /\ past'.seen = past.seen /\ past'.foreign = past.foreign
  /\ past.agreed \subseteq past'.agreed /\ past.approved \subseteq past'.approved

\* The innermost call changes its source, its destination, or what a link there names,
Touches ==
  \A p \in Paths : fs'[p] # fs[p] =>
    \/ fs'[p] = None /\ Within(p, Top.src) /\ (Top.op = "delete" => p = Top.src)
    \/ Top.op # "delete" /\ Within(p, Top.dst)
    \/ /\ Top.op # "delete" /\ Top.dst \in Paths
       /\ past.fs[Top.dst] = Link(p) /\ fs'[p].t # "link"
\* and a copy what is not there, or was agreed to.
Asks == job.kind = "copy" => \A p \in Paths : fs'[p] # fs[p] => fs[p] = None \/ Yields(p)

LEMMA SteadySame ==
  ASSUME Steady
  PROVE  /\ Items' = Items /\ Item' = Item
         /\ \A n : SrcOf(n)' = SrcOf(n) /\ DstOf(n)' = DstOf(n)
         /\ \A n : ItemSrc(n)' = ItemSrc(n) /\ ItemDst(n)' = ItemDst(n)
         /\ \A n : Chosen(n)' => Chosen(n)
         /\ Sources' = Sources
         /\ \A p : Was(p)' = Was(p) /\ (Yields(p) => Yields(p)')
<1>1. Items' = Items
  BY DEF Steady, Items
<1>2. Item' = Item
  BY DEF Steady, Item
<1>3. \A n : SrcOf(n)' = SrcOf(n) /\ DstOf(n)' = DstOf(n) /\ ItemDst(n)' = ItemDst(n)
  BY DEF Steady, SrcOf, DstOf, ItemDst
<1>4. \A n : ItemSrc(n)' = ItemSrc(n)
  BY DEF Steady, ItemSrc
<1>5. \A n : Chosen(n)' => Chosen(n)
  BY DEF Steady, Chosen
<1>6. Sources' = Sources
  BY <1>1, <1>4 DEF Steady, Sources
<1>7. \A p : Was(p)' = Was(p)
  BY DEF Steady, Was
<1>8. ASSUME NEW p, Yields(p) PROVE Yields(p)'
  BY <1>7, <1>8 DEF Steady, Yields
<1>. QED BY <1>1, <1>2, <1>3, <1>4, <1>5, <1>6, <1>7, <1>8

\* The call that runs is placed, and its paths are paths.
LEMMA TopIs ==
  ASSUME JobInv, stack # <<>>
  PROVE  /\ Len(stack) \in Nat \ {0} /\ (Len(stack) = 1 \/ Len(stack) > 1)
         /\ Top = stack[Len(stack)] /\ Top \in Frames
         /\ Top.src \in Path /\ Top.dst \in Path
         /\ Placed(Top) /\ Leaf(fs, Top) /\ Mild(Top)
         /\ Item \in Items /\ Item \in Names /\ Working
         /\ job.pos - 1 \in 1..Len(Order) /\ Item = Order[job.pos - 1]
         /\ SrcOf(Item) \in Path /\ DstOf(Item) \in Path
         /\ ItemSrc(Item) = SrcOf(Item) /\ ItemDst(Item) = DstOf(Item)
<1>0. /\ Len(stack) \in Nat \ {0}
      /\ Top = stack[Len(stack)] /\ Top \in Frames /\ Len(stack) \in 1..Len(stack)
  BY DEF JobInv, Typed, Top
<1>1. Len(stack) = 1 \/ Len(stack) > 1
  <2>1. \A n \in Nat \ {0} : n = 1 \/ n > 1
    OBVIOUS
  <2>. QED BY <1>0, <2>1, Zenon
<1>2. Top.src \in Path /\ Top.dst \in Path
  BY <1>0 DEF Frames
<1>3. Placed(Top) /\ Leaf(fs, Top) /\ Mild(Top)
  BY <1>0 DEF JobInv, Calls
<1>4. Item \in Items /\ Item \in Names /\ Working
  BY DEF JobInv, Course, Items, Working
<1>5. job.pos - 1 \in 1..Len(Order) /\ Item = Order[job.pos - 1]
  BY OrderNames DEF JobInv, Course, Typed, JobType, Item
<1>6. SrcOf(Item) \in Path /\ DstOf(Item) \in Path
  BY <1>4, ChildPath DEF JobInv, Typed, SrcOf, DstOf
<1>7. ItemSrc(Item) = SrcOf(Item) /\ ItemDst(Item) = DstOf(Item)
  BY <1>4 DEF JobInv, Course, ItemSrc, SrcOf, ItemDst, DstOf
<1>. QED BY <1>0, <1>1, <1>2, <1>3, <1>4, <1>5, <1>6, <1>7

\* The three properties are kept by a step that touches what is its own.
LEMMA PropertiesKept ==
  ASSUME JobInv, Steady, Touches, Asks
  PROVE  OnlyTheItems' /\ KeepsUnasked' /\ DeletesApproved'
<1>. USE PathsArePath
<1>1. /\ Working /\ Working' /\ Items' = Items
      /\ \A n : ItemSrc(n)' = ItemSrc(n) /\ ItemDst(n)' = ItemDst(n)
  BY SteadySame DEF Steady, Working
<1>2. stack # <<>>
  BY DEF Steady
<1>3. /\ Top.src \in Path /\ Top.dst \in Path /\ Placed(Top) /\ Item \in Items /\ Item \in Names
      /\ SrcOf(Item) \in Path /\ DstOf(Item) \in Path
      /\ ItemSrc(Item) = SrcOf(Item) /\ ItemDst(Item) = DstOf(Item)
  BY <1>2, TopIs
<1>4. job.kind = "delete" => Top.op = "delete"
  BY <1>3 DEF Placed
<1>5. OnlyTheItems'
  <2>. SUFFICES ASSUME NEW p \in Paths, fs'[p] # past.fs[p], p \notin past.foreign
                PROVE  \/ \E n \in Items : \/ Within(p, ItemSrc(n))
                                           \/ job.kind # "delete" /\ Within(p, ItemDst(n))
                       \/ \E l \in Paths, n \in Items : past.fs[l] = Link(p) /\ Within(l, ItemDst(n))
    BY <1>1 DEF OnlyTheItems, Steady
  <2>1. CASE fs'[p] = fs[p]
    BY <1>1, <2>1 DEF JobInv, OnlyTheItems
  <2>2. CASE Within(p, Top.src)
    BY <1>3, <2>2, WithinTransPath DEF Placed
  <2>3. CASE Top.op # "delete" /\ Within(p, Top.dst)
    BY <1>3, <1>4, <2>3, WithinTransPath DEF Placed
  <2>4. CASE Top.op # "delete" /\ Top.dst \in Paths /\ past.fs[Top.dst] = Link(p)
    BY <1>3, <2>4 DEF Placed
  <2>. QED BY <2>1, <2>2, <2>3, <2>4 DEF Touches
<1>6. KeepsUnasked'
  <2>. SUFFICES ASSUME job.kind = "copy", NEW p \in Paths, Was(p) \notin {None, Dir}, fs'[p] # Was(p)
                PROVE  Yields(p)'
    BY <1>1, SteadySame DEF KeepsUnasked, Steady, Was, Yields
  <2>1. CASE fs[p] # Was(p)
    BY <1>1, <2>1, SteadySame DEF JobInv, KeepsUnasked, Was, Yields
  <2>2. CASE fs[p] = Was(p)
    BY <2>2, SteadySame DEF Asks
  <2>. QED BY <2>1, <2>2
<1>7. DeletesApproved'
  <2>. SUFFICES ASSUME job.kind = "delete", NEW p \in Sources, fs'[p] # past.fs[p],
                       Len(p) > Len(past.base) + 1
                PROVE  ItemSrc(p[Len(past.base) + 1]) \in past'.approved
    BY <1>1, SteadySame DEF DeletesApproved, Steady
  <2>1. p \in Paths /\ p \in Path /\ past.base = base /\ base \in Path
    BY <1>1 DEF Sources, JobInv, Course, Typed
  <2>2. CASE fs[p] # past.fs[p]
    BY <1>1, <2>2 DEF JobInv, DeletesApproved, Steady
  <2>3. CASE fs[p] = past.fs[p]
    <3>1. p = Top.src
      BY <1>4, <2>1, <2>3 DEF Touches
    <3>2. Within(p, SrcOf(Item)) /\ SrcOf(Item) = Append(base, Item)
      BY <1>3, <3>1 DEF Placed, SrcOf
    <3>3. p[Len(base) + 1] = Item
      BY <1>3, <2>1, <3>2, ChildIn
    <3>4. Len(stack) = 1 \/ Len(stack) > 1
      BY <1>2, TopIs
    <3>0. First /\ stack[1].src = SrcOf(Item)
      BY <1>2 DEF JobInv, First
    <3>5. Len(stack) # 1
      <4>. SUFFICES ASSUME Len(stack) = 1 PROVE FALSE
        OBVIOUS
      <4>1. p = Append(base, Item)
        BY <3>1, <3>2, <3>0 DEF Top
      <4>. QED BY <1>3, <2>1, <4>1 DEF Path
    <3>6. stack[1].src \in past.approved
      <4>1. Len(stack) > 1
        BY <3>4, <3>5
      <4>2. /\ stack[1].approved => stack[1].src \in past.approved
            /\ Len(stack) > 1 => stack[1].approved
        BY <1>2, <3>0, Zenon DEF First
      <4>. QED BY <4>1, <4>2
    <3>. QED BY <1>3, <2>1, <3>3, <3>0, <3>6 DEF Steady
  <2>. QED BY <2>2, <2>3
<1>. QED BY <1>5, <1>6, <1>7

\* The calls after a step are those of the invariant, if each of them is fit for it.
Fit(f) ==
  /\ Within(f.src, SrcOf(Item))
  /\ f.op # "delete" => Within(f.dst, DstOf(Item))
  /\ job.kind \in {"copy", "delete"} => f.op = job.kind
  /\ job.kind = "delete" /\ f.pc \in {"open", "each"} => f.approved
  /\ f.how # "new" => f.dst \in past'.agreed /\ f.src # f.dst
  /\ Leaf(fs', f)
  /\ job.kind = "copy" /\ f.pc = "data" /\ f.how = "new" => Yields(f.dst)

LEMMA FitCalls ==
  ASSUME JobInv, Steady, stack' \in Seq(Frames), \A i \in 1..Len(stack') : Fit(stack'[i]),
         \A i \in 1..Len(stack') - 1 : stack'[i].pc \in {"each", "copied"}
  PROVE  Calls'
<1>1. ASSUME NEW i \in 1..Len(stack') PROVE Placed(stack[i])' /\ Mild(stack[i])' /\ Leaf(fs, stack[i])'
  <2>1. Fit(stack'[i])
    BY <1>1
  <2>2. Item' = Item /\ \A n : SrcOf(n)' = SrcOf(n) /\ DstOf(n)' = DstOf(n)
    BY SteadySame
  <2>3. SrcOf(Item)' = SrcOf(Item) /\ DstOf(Item)' = DstOf(Item)
    BY DEF Steady, SrcOf, DstOf, Item
  <2>4. job'.kind = job.kind /\ job'.dir = job.dir
    BY DEF Steady
  <2>5. Placed(stack[i])'
    BY <2>1, <2>3, <2>4 DEF Fit, Placed
  <2>6. Mild(stack[i])'
    BY <2>1, <2>4, SteadySame DEF Fit, Mild
  <2>7. Leaf(fs, stack[i])'
    BY <2>1 DEF Fit, Leaf
  <2>. QED BY <2>5, <2>6, <2>7
<1>. QED BY <1>1 DEF Calls

\* The calls around the innermost one.
LEMMA Below ==
  ASSUME JobInv, Steady, NEW i \in 1..Len(stack) - 1
  PROVE  /\ i \in 1..Len(stack) /\ stack[i] \in Frames /\ stack[i].pc \in {"each", "copied"}
         /\ Fit(stack[i])
         /\ \A l \in Paths : Ahead(fs', stack[i], l) => Ahead(fs, stack[i], l)
<1>0. stack # <<>>
  BY DEF Steady
<1>1. i \in 1..Len(stack) /\ stack[i] \in Frames
  BY <1>0, TopIs DEF JobInv, Typed
<1>2. stack[i].pc \in {"each", "copied"} /\ Placed(stack[i])
  BY <1>1 DEF JobInv, Calls
<1>3. Leaf(fs', stack[i])
  BY <1>2 DEF Leaf, LeafPC
<1>4. stack[i].pc # "data"
  BY <1>2
<1>5. Fit(stack[i])
  BY <1>2, <1>3, <1>4 DEF Fit, Placed, Steady
<1>6. \A l \in Paths : Ahead(fs', stack[i], l) => Ahead(fs, stack[i], l)
  BY <1>2 DEF Ahead
<1>. QED BY <1>1, <1>2, <1>5, <1>6

\* No link is made where another item, or a call around this one, may still come.
LEMMA LinksElsewhere ==
  ASSUME JobInv, Steady, Touches, NEW l \in Paths, fs'[l].t = "link", fs'[l] # fs[l]
  PROVE  ~Later(l) /\ \A i \in 1..Len(stack) - 1 : ~Ahead(fs, stack[i], l)
<1>0. stack # <<>> /\ l \in Path
  BY PathsArePath DEF Steady
<1>1. Top.op # "delete" /\ Within(l, Top.dst)
  BY DEF Touches, None
<1>2. \A i \in 1..Len(stack) - 1 : ~Ahead(fs, stack[i], l)
  BY <1>0, <1>1, TopIs DEF JobInv, Apart
<1>3. /\ Within(l, DstOf(Item)) /\ Item \in Items /\ Item \in Names
      /\ job.pos - 1 \in 1..Len(Order) /\ Item = Order[job.pos - 1]
  <2>1. Within(Top.dst, DstOf(Item)) /\ Top.dst \in Path /\ DstOf(Item) \in Path
    BY <1>0, <1>1, TopIs DEF Placed
  <2>. QED BY <1>0, <1>1, <2>1, TopIs, WithinTransPath
<1>4. ASSUME NEW i \in job.pos .. Len(Order), job.kind # "delete", Chosen(Order[i]),
             Within(l, DstOf(Order[i]))
      PROVE  FALSE
  <2>1. i \in 1..Len(Order) /\ i # job.pos - 1 /\ Order[i] \in Names
    BY OrderNames DEF JobInv, Typed, JobType
  <2>2. Order[i] # Item
    BY <1>3, <2>1, OrderNames
  <2>3. CASE job.dir
    <3>1. Within(l, Append(dst, Item)) /\ Within(l, Append(dst, Order[i])) /\ dst \in Path
      BY <1>3, <1>4, <2>3 DEF DstOf, JobInv, Typed
    <3>2. l[Len(dst) + 1] = Item /\ l[Len(dst) + 1] = Order[i]
      BY <1>0, <1>3, <2>1, <3>1, ChildIn
    <3>. QED BY <2>2, <3>2
  <2>4. CASE ~job.dir
    <3>1. ~job.sel
      BY <1>0, <1>4, <2>4 DEF JobInv, Course, Working, Steady
    <3>2. Order[i] = job.cur /\ Item = job.cur
      BY <1>3, <1>4, <3>1 DEF Chosen, Items
    <3>. QED BY <2>2, <3>2
  <2>. QED BY <2>3, <2>4
<1>. QED BY <1>2, <1>4 DEF Later

\* So the links ahead stay as they were, if those of the innermost call do.
LEMMA LinksKept ==
  ASSUME JobInv, Steady, Touches, NEW l \in Paths, fs'[l].t = "link",
         \/ Later(l)'
         \/ \E i \in 1..Len(stack) - 1 : Ahead(fs', stack[i], l)
         \/ ask # "item" /\ Ahead(fs, Top, l) /\ fs'[l] = fs[l]
  PROVE  past'.fs[l] = fs'[l]
<1>0. stack # <<>> /\ past'.fs = past.fs /\ Len(stack) \in Nat \ {0} /\ Top = stack[Len(stack)]
  BY TopIs DEF Steady
<1>1. CASE Later(l)'
  <2>1. Later(l)
    <3>1. PICK i \in job'.pos .. Len(Order) : Chosen(Order[i])' /\ Within(l, DstOf(Order[i])')
      BY <1>1 DEF Later
    <3>2. Chosen(Order[i])
      BY <3>1 DEF Chosen, Steady
    <3>3. DstOf(Order[i])' = DstOf(Order[i])
      BY DEF Steady, DstOf
    <3>. QED BY <1>1, <3>1, <3>2, <3>3 DEF Later, Steady
  <2>2. fs'[l] = fs[l]
    BY <2>1, LinksElsewhere
  <2>. QED BY <1>0, <2>1, <2>2 DEF JobInv, LinksOld, Awaited
<1>2. ASSUME NEW i \in 1..Len(stack) - 1, Ahead(fs', stack[i], l) PROVE past'.fs[l] = fs'[l]
  <2>1. Ahead(fs, stack[i], l) /\ i \in 1..Len(stack) /\ i # Len(stack)
    BY <1>0, <1>2, Below
  <2>2. fs'[l] = fs[l]
    BY <2>1, LinksElsewhere
  <2>. QED BY <1>0, <2>1, <2>2 DEF JobInv, LinksOld, Awaited
<1>3. CASE ask # "item" /\ Ahead(fs, Top, l) /\ fs'[l] = fs[l]
  <2>1. Awaited(l)
    BY <1>0, <1>3 DEF Awaited
  <2>. QED BY <1>0, <1>3, <2>1 DEF JobInv, LinksOld
<1>. QED BY <1>1, <1>2, <1>3

-----------------------------------------------------------------------------
(* How the stack goes on: all calls end, the innermost one ends, it goes on, *)
(* or it calls another.                                                     *)

Quits == stack' = <<>> /\ phase' = "over" /\ ask' = "none"
Pops == stack' = Front(stack) /\ phase' = "run" /\ ask' = "none"
Follows(f) ==
  /\ f \in Frames /\ f.src = Top.src
  /\ \/ f.op = Top.op /\ f.dst = Top.dst
     \/ f.op = "delete" /\ job.kind = "move"
  /\ f.how # "new" => f.dst \in past'.agreed /\ f.src # f.dst
  /\ Leaf(fs', f)
  /\ job.kind = "copy" /\ f.pc = "data" /\ f.how = "new" => Yields(f.dst)
  /\ job.kind = "delete" => /\ f.pc \in {"open", "each"} => f.approved
                            /\ f.approved => Top.approved \/ Top.src \in past'.approved
                            /\ Top.approved => f.approved
  /\ \A l \in Paths : Ahead(fs', f, l) /\ ask' # "item" =>
                        Ahead(fs, Top, l) /\ (fs'[l].t = "link" => fs'[l] = fs[l])
  /\ ask' = "conflict" => f.pc = "conflict" /\ f.src # f.dst
  /\ ask' = "dir" => f.op = "delete"
Swaps(f) == /\ ask # "item" /\ phase' = "run"
            /\ stack' = [stack EXCEPT ![Len(stack)] = f] /\ Follows(f)
Waits(f) == /\ f \in Frames /\ f.pc \in {"each", "copied"}
            /\ f.src = Top.src /\ f.dst = Top.dst /\ f.op = Top.op
            /\ f.how = Top.how /\ f.approved = Top.approved
            /\ job.kind = "delete" => f.approved
Begun(f, g) == /\ g \in Frames /\ g.pc = "start" /\ g.how = "new"
               /\ Within(g.src, Top.src) /\ Within(g.dst, Top.dst)
               /\ g.op = Top.op \/ (g.op = "copy" /\ job.kind = "move" /\ Top.op # "delete")
               /\ \A l \in Paths : Ahead(fs', f, l) \/ Ahead(fs', g, l) => Ahead(fs, Top, l)
               /\ \A l \in Paths : g.op # "delete" /\ Within(l, g.dst) => ~Ahead(fs', f, l)
Pushes(f, g) == /\ ask = "none" /\ ask' = "none" /\ phase' = "run" /\ fs' = fs
                /\ stack' = Append([stack EXCEPT ![Len(stack)] = f], g)
                /\ Waits(f) /\ Begun(f, g)

LEMMA SteadyCourse ==
  ASSUME JobInv, Steady, phase' # "run" => stack' = <<>> /\ ask' = "none",
         ask' # "none" => stack' # <<>>,
         ask' = "conflict" => Top'.pc = "conflict" /\ Top'.src # Top'.dst,
         ask' = "dir" => Top'.op = "delete"
  PROVE  Course'
<1>1. Working /\ Working' /\ stack # <<>> /\ phase' # "query"
  BY DEF Steady, Working
<1>2. Items' = Items /\ Item' = Item
  BY SteadySame
<1>3. Item \in Items /\ job.pos > 1
  BY <1>1 DEF JobInv, Course
<1>4. /\ past'.base = base' /\ marks' \subseteq past'.seen /\ job'.kind # "none"
      /\ job'.kind # "delete" /\ job'.sel => job'.dir
  BY <1>1 DEF Steady, JobInv, Course
<1>5. job'.pos > 1 /\ Item' \in Items'
  BY <1>2, <1>3 DEF Steady
<1>. QED BY <1>1, <1>4, <1>5 DEF Course

LEMMA SteadyTyped ==
  ASSUME JobInv, Steady, stack' \in Seq(Frames)
  PROVE  Typed'
BY DEF JobInv, Typed, Steady

LEMMA QuitsKeep ==
  ASSUME JobInv, Steady, Touches, Asks, Quits
  PROVE  JobInv'
<1>1. stack' = <<>> /\ stack' \in Seq(Frames) /\ Len(stack') = 0 /\ phase' = "over" /\ ask' = "none"
  BY DEF Quits
<1>2. Typed' /\ Course'
  BY <1>1, SteadyTyped, SteadyCourse
<1>3. Calls' /\ First' /\ Apart'
  BY <1>1 DEF Calls, First, Apart
<1>4. LinksOld'
  BY <1>1 DEF LinksOld, Awaited, Later
<1>. QED BY <1>2, <1>3, <1>4, PropertiesKept DEF JobInv

LEMMA PopsKeep ==
  ASSUME JobInv, Steady, Touches, Asks, Pops
  PROVE  JobInv'
<1>0. stack \in Seq(Frames) /\ stack # <<>> /\ phase' = "run" /\ ask' = "none" /\ Len(stack) \in Nat \ {0}
  BY TopIs DEF JobInv, Typed, Steady, Pops
<1>1. /\ stack' \in Seq(Frames) /\ Len(stack') = Len(stack) - 1
      /\ \A i \in 1..Len(stack) - 1 : stack'[i] = stack[i]
  BY <1>0, Popped DEF Pops
<1>2. Typed' /\ Course'
  BY <1>0, <1>1, SteadyTyped, SteadyCourse
<1>3. Calls'
  <2>1. ASSUME NEW i \in 1..Len(stack')
        PROVE  Fit(stack'[i]) /\ stack'[i].pc \in {"each", "copied"}
    BY <1>1, Below
  <2>2. \A i \in 1..Len(stack') - 1 : i \in 1..Len(stack')
    BY <1>0, <1>1
  <2>. QED BY <1>1, <2>1, <2>2, FitCalls
<1>4. First'
  <2>. SUFFICES ASSUME stack' # <<>>, job.kind = "delete"
                PROVE  /\ stack'[1].src = SrcOf(Item)'
                       /\ Len(stack') > 1 => stack'[1].approved
                       /\ stack'[1].approved => stack'[1].src \in past'.approved
    BY DEF First, Steady
  <2>1. 1 \in 1..Len(stack) - 1
    BY <1>1
  <2>2. stack'[1] = stack[1] /\ Len(stack) > 1
    BY <1>0, <1>1, <2>1
  <2>3. SrcOf(Item)' = SrcOf(Item)
    BY DEF Steady, SrcOf, Item
  <2>. QED BY <1>0, <2>2, <2>3 DEF JobInv, First, Steady
<1>5. LinksOld'
  <2>. SUFFICES ASSUME NEW l \in Paths, Awaited(l)', fs'[l].t = "link"
                PROVE  past'.fs[l] = fs'[l]
    BY DEF LinksOld
  <2>1. Later(l)' \/ \E i \in 1..Len(stack) - 1 : Ahead(fs', stack[i], l)
    BY <1>1 DEF Awaited
  <2>. QED BY <2>1, LinksKept
<1>6. Apart'
  <2>. SUFFICES ASSUME NEW j \in 1..Len(stack'), NEW i \in 1..j - 1, NEW l \in Paths,
                       stack'[j].op # "delete", Within(l, stack'[j].dst), Ahead(fs', stack'[i], l)
                PROVE  FALSE
    BY DEF Apart
  <2>1. /\ j \in 1..Len(stack) - 1 /\ i \in 1..Len(stack) - 1 /\ j \in 1..Len(stack)
        /\ stack'[j] = stack[j] /\ stack'[i] = stack[i]
    BY <1>0, <1>1
  <2>2. Ahead(fs, stack[i], l)
    BY <2>1, Below
  <2>. QED BY <2>1, <2>2 DEF JobInv, Apart
<1>. QED BY <1>2, <1>3, <1>4, <1>5, <1>6, PropertiesKept DEF JobInv

LEMMA SwapsKeep ==
  ASSUME JobInv, Steady, Touches, Asks, NEW f, Swaps(f)
  PROVE  JobInv'
<1>0. /\ stack \in Seq(Frames) /\ stack # <<>> /\ phase' = "run" /\ Len(stack) \in Nat \ {0}
      /\ Follows(f) /\ f \in Frames /\ Top = stack[Len(stack)] /\ Len(stack) \in 1..Len(stack)
  BY TopIs DEF JobInv, Typed, Steady, Swaps, Follows
<1>1. /\ stack' \in Seq(Frames) /\ Len(stack') = Len(stack) /\ stack' # <<>>
      /\ stack'[Len(stack)] = f
      /\ \A i \in 1..Len(stack) - 1 : stack'[i] = stack[i]
  BY <1>0, Swapped DEF Swaps
<1>2. Top' = f
  BY <1>1 DEF Top
<1>3. Typed' /\ Course'
  BY <1>0, <1>1, <1>2, SteadyTyped, SteadyCourse DEF Follows
<1>4. Fit(f)
  BY <1>0, TopIs DEF Follows, Fit, Placed
<1>5. Calls'
  <2>1. ASSUME NEW i \in 1..Len(stack') - 1
        PROVE  Fit(stack'[i]) /\ stack'[i].pc \in {"each", "copied"}
    BY <1>1, Below
  <2>2. \A i \in 1..Len(stack') : i \in 1..Len(stack') - 1 \/ i = Len(stack)
    BY <1>0, <1>1
  <2>. QED BY <1>1, <1>4, <2>1, <2>2, FitCalls
<1>6. First'
  <2>. SUFFICES ASSUME job.kind = "delete"
                PROVE  /\ stack'[1].src = SrcOf(Item)'
                       /\ Len(stack') > 1 => stack'[1].approved
                       /\ stack'[1].approved => stack'[1].src \in past'.approved
    BY DEF First, Steady
  <2>1. SrcOf(Item)' = SrcOf(Item)
    BY DEF Steady, SrcOf, Item
  <2>2. /\ stack[1].src = SrcOf(Item)
        /\ stack[1].approved => stack[1].src \in past.approved
        /\ Len(stack) > 1 => stack[1].approved
    BY <1>0 DEF JobInv, First
  <2>3. CASE Len(stack) = 1
    BY <1>0, <1>1, <2>1, <2>2, <2>3 DEF Follows, Steady
  <2>4. CASE Len(stack) > 1
    <3>1. stack'[1] = stack[1]
      BY <1>0, <1>1, <2>4
    <3>. QED BY <2>1, <2>2, <2>4, <3>1 DEF Steady
  <2>. QED BY <1>0, <2>3, <2>4, TopIs
<1>7. LinksOld'
  <2>. SUFFICES ASSUME NEW l \in Paths, Awaited(l)', fs'[l].t = "link"
                PROVE  past'.fs[l] = fs'[l]
    BY DEF LinksOld
  <2>1. \/ Later(l)' \/ \E i \in 1..Len(stack) - 1 : Ahead(fs', stack[i], l)
        \/ Ahead(fs', f, l) /\ ask' # "item"
    <3>1. CASE Later(l)'
      BY <3>1
    <3>2. ASSUME NEW i \in 1..Len(stack'), Ahead(fs', stack'[i], l), i = Len(stack') => ask' # "item"
          PROVE  \/ \E m \in 1..Len(stack) - 1 : Ahead(fs', stack[m], l)
                 \/ Ahead(fs', f, l) /\ ask' # "item"
      <4>1. i \in 1..Len(stack) - 1 \/ i = Len(stack)
        BY <1>0, <1>1
      <4>. QED BY <1>1, <3>2, <4>1
    <3>. QED BY <3>1, <3>2 DEF Awaited
  <2>. QED BY <1>0, <2>1, LinksKept DEF Swaps, Follows
<1>8. Apart'
  <2>. SUFFICES ASSUME NEW j \in 1..Len(stack'), NEW i \in 1..j - 1, NEW l \in Paths,
                       stack'[j].op # "delete", Within(l, stack'[j].dst), Ahead(fs', stack'[i], l)
                PROVE  FALSE
    BY DEF Apart
  <2>1. /\ i \in 1..Len(stack) - 1 /\ j \in 1..Len(stack) /\ stack'[i] = stack[i]
        /\ j = Len(stack) \/ stack'[j] = stack[j]
    BY <1>0, <1>1
  <2>2. stack[j].op # "delete" /\ Within(l, stack[j].dst)
    BY <1>0, <1>1, <2>1 DEF Follows
  <2>3. Ahead(fs, stack[i], l)
    BY <2>1, Below
  <2>. QED BY <2>1, <2>2, <2>3 DEF JobInv, Apart
<1>. QED BY <1>3, <1>5, <1>6, <1>7, <1>8, PropertiesKept DEF JobInv

LEMMA PushesKeep ==
  ASSUME JobInv, Steady, Touches, Asks, NEW f, NEW g, Pushes(f, g)
  PROVE  JobInv'
<1>. DEFINE N == Len(stack)
<1>0. /\ stack \in Seq(Frames) /\ stack # <<>> /\ phase' = "run" /\ N \in Nat \ {0}
      /\ Waits(f) /\ Begun(f, g) /\ f \in Frames /\ g \in Frames
      /\ Top = stack[N] /\ N \in 1..N /\ ask = "none" /\ ask' = "none" /\ fs' = fs
  BY TopIs DEF JobInv, Typed, Steady, Pushes, Waits, Begun
<1>1. /\ stack' \in Seq(Frames) /\ Len(stack') = N + 1
      /\ stack'[N + 1] = g /\ stack'[N] = f
      /\ \A i \in 1..N - 1 : stack'[i] = stack[i]
  BY <1>0, Pushed DEF Pushes
<1>2. stack' # <<>>
  BY <1>0, <1>1
<1>. HIDE DEF N
<1>t. /\ Top.src \in Path /\ Top.dst \in Path /\ Placed(Top) /\ Mild(Top)
      /\ SrcOf(Item) \in Path /\ DstOf(Item) \in Path
      /\ g.src \in Path /\ g.dst \in Path
  BY <1>0, TopIs DEF Frames
<1>3. Typed' /\ Course'
  BY <1>0, <1>1, <1>2, SteadyTyped, SteadyCourse
<1>i. \A i \in 1..Len(stack') : i \in 1..N - 1 \/ i = N \/ i = N + 1
  BY <1>0, <1>1
<1>5. Calls'
  <2>1. ASSUME NEW i \in 1..N - 1
        PROVE  Fit(stack'[i]) /\ stack'[i].pc \in {"each", "copied"}
    BY <1>1, Below DEF N
  <2>2. Fit(f)
    <3>1. Leaf(fs', f) /\ f.pc # "data"
      BY <1>0 DEF Waits, Leaf, LeafPC
    <3>. QED BY <1>0, <1>t, <3>1 DEF Waits, Fit, Placed, Steady
  <2>3. Fit(g)
    <3>1. Leaf(fs', g) /\ g.pc = "start" /\ g.how = "new"
      BY <1>0 DEF Begun, Leaf, LeafPC
    <3>2. Within(g.src, SrcOf(Item))
      BY <1>0, <1>t, WithinTransPath DEF Begun, Placed
    <3>3. g.op # "delete" => Within(g.dst, DstOf(Item))
      BY <1>0, <1>t, WithinTransPath DEF Begun, Placed
    <3>4. job.kind \in {"copy", "delete"} => g.op = job.kind
      BY <1>0, <1>t DEF Begun, Placed
    <3>. QED BY <3>1, <3>2, <3>3, <3>4 DEF Fit
  <2>4. f.pc \in {"each", "copied"}
    BY <1>0 DEF Waits
  <2>5. \A i \in 1..Len(stack') - 1 : i \in 1..N - 1 \/ i = N
    BY <1>0, <1>1
  <2>6. \A i \in 1..Len(stack') : Fit(stack'[i])
    BY <1>1, <1>i, <2>1, <2>2, <2>3
  <2>7. \A i \in 1..Len(stack') - 1 : stack'[i].pc \in {"each", "copied"}
    BY <1>1, <2>1, <2>4, <2>5
  <2>. QED BY <1>1, <2>6, <2>7, FitCalls
<1>6. First'
  <2>. SUFFICES ASSUME job.kind = "delete"
                PROVE  /\ stack'[1].src = SrcOf(Item)'
                       /\ Len(stack') > 1 => stack'[1].approved
                       /\ stack'[1].approved => stack'[1].src \in past'.approved
    BY DEF First, Steady
  <2>1. SrcOf(Item)' = SrcOf(Item)
    BY DEF Steady, SrcOf, Item
  <2>2. /\ stack[1].src = SrcOf(Item)
        /\ stack[1].approved => stack[1].src \in past.approved
        /\ N > 1 => stack[1].approved
    BY <1>0 DEF JobInv, First, N
  <2>3. CASE N = 1
    BY <1>0, <1>1, <2>1, <2>2, <2>3 DEF Waits, Steady
  <2>4. CASE N > 1
    <3>1. stack'[1] = stack[1]
      BY <1>0, <1>1, <2>4
    <3>. QED BY <2>1, <2>2, <2>4, <3>1 DEF Steady
  <2>. QED BY <1>0, <2>3, <2>4, TopIs DEF N
<1>7. LinksOld'
  <2>. SUFFICES ASSUME NEW l \in Paths, Awaited(l)', fs'[l].t = "link"
                PROVE  past'.fs[l] = fs'[l]
    BY DEF LinksOld
  <2>1. CASE Later(l)'
    BY <2>1, LinksKept
  <2>2. ASSUME NEW i \in 1..Len(stack'), Ahead(fs', stack'[i], l)
        PROVE  past'.fs[l] = fs'[l]
    <3>1. CASE i \in 1..N - 1
      BY <1>1, <2>2, <3>1, LinksKept DEF N
    <3>2. CASE i = N \/ i = N + 1
      <4>1. Ahead(fs, Top, l)
        BY <1>0, <1>1, <2>2, <3>2 DEF Begun
      <4>. QED BY <1>0, <4>1, LinksKept
    <3>. QED BY <1>i, <3>1, <3>2
  <2>. QED BY <2>1, <2>2 DEF Awaited
<1>8. Apart'
  <2>. SUFFICES ASSUME NEW j \in 1..Len(stack'), NEW i \in 1..j - 1, NEW l \in Paths,
                       stack'[j].op # "delete", Within(l, stack'[j].dst), Ahead(fs', stack'[i], l)
                PROVE  FALSE
    BY DEF Apart
  <2>0. l \in Path
    BY PathsArePath
  <2>1. CASE j = N + 1 /\ i = N
    BY <1>0, <1>1, <2>1 DEF Begun
  <2>2. CASE i \in 1..N - 1
    <3>1. Ahead(fs, stack[i], l) /\ i \in 1..N /\ i \in Nat
      BY <1>0, <1>1, <2>2, Below DEF N
    <3>2. CASE j = N + 1 \/ j = N
      <4>1. Within(l, Top.dst) /\ Top.op # "delete"
        BY <1>0, <1>1, <1>t, <2>0, <3>2, WithinTransPath DEF Waits, Begun
      <4>2. i \in 1..N - 1 /\ N \in 1..N
        BY <1>0, <2>2
      <4>. QED BY <1>0, <3>1, <4>1, <4>2 DEF JobInv, Apart, N
    <3>3. CASE j \in 1..N - 1
      <4>1. stack'[j] = stack[j] /\ j \in 1..N
        BY <1>0, <1>1, <3>3
      <4>. QED BY <3>1, <4>1 DEF JobInv, Apart, N
    <3>. QED BY <1>i, <3>2, <3>3
  <2>3. i \in 1..N - 1 \/ (j = N + 1 /\ i = N)
    BY <1>0, <1>1
  <2>. QED BY <2>1, <2>2, <2>3
<1>. QED BY <1>3, <1>5, <1>6, <1>7, <1>8, PropertiesKept DEF JobInv

-----------------------------------------------------------------------------
(* The beginning and the end of a job and of its items.                     *)

LEMMA Least ==
  ASSUME NEW S, S \subseteq Nat, S # {}
  PROVE  \E n \in S : \A m \in S : n <= m
<1>1. PICK R : R = OpToRel(<, Nat)
  OBVIOUS
<1>w. IsWellFoundedOn(R, Nat)
  BY <1>1, NatLessThanWellFounded
<1>2. PICK n \in S : \A m \in S : ~(<<m, n>> \in R)
  BY <1>w, WFMin
<1>3. \A x, y \in Nat : x < y => <<x, y>> \in R
  <2>1. R = {ss \in Nat \X Nat : ss[1] < ss[2]}
    BY <1>1 DEF OpToRel
  <2>. QED BY <2>1, Zenon
<1>4. ASSUME NEW m \in S PROVE n <= m
  <2>1. n \in Nat /\ m \in Nat /\ ~(m < n)
    BY ONLY <1>2, <1>3, n \in S, m \in S, S \subseteq Nat
  <2>. QED BY ONLY <2>1
<1>. QED BY <1>4

LEMMA InitInv == Init => JobInv
<1>. SUFFICES ASSUME Init PROVE JobInv
  OBVIOUS
<1>1. fs \in Trees /\ here \in Path /\ base \in Path /\ <<>> \in Path
  BY PathsAssumption DEF Init, Path
<1>2. FsOK(fs)
  <2>1. fs \in [Paths -> Range(fs)] /\ \A p \in Paths : IsNode(fs[p])
    BY <1>1, TreesAssumption
  <2>. QED BY <2>1 DEF FsOK
<1>3. job \in JobType
  BY OrderNames DEF Init, NoJob, JobType
<1>4. marks \subseteq Names
  BY DEF Init, Children
<1>5. PastOK
  BY <1>4 DEF Init, Begins, PastOK
<1>6. Typed
  BY <1>1, <1>2, <1>3, <1>4, <1>5 DEF Init, Typed
<1>7. stack = <<>> /\ phase = "idle" /\ ask = "none" /\ Len(stack) = 0
  BY DEF Init
<1>8. Course /\ Calls /\ First /\ LinksOld /\ Apart
  BY <1>7 DEF Course, Working, Calls, First, LinksOld, Awaited, Later, Apart
<1>9. OnlyTheItems /\ KeepsUnasked /\ DeletesApproved
  BY <1>7 DEF Working, OnlyTheItems, KeepsUnasked, DeletesApproved
<1>. QED BY <1>6, <1>8, <1>9 DEF JobInv

\* A step before a job, or after it.
LEMMA IdleKeeps ==
  ASSUME JobInv, phase \in {"idle", "query", "over"}, phase' \in {"idle", "query"},
         phase' = "query" => job'.kind = "delete",
         UNCHANGED <<fs, past, stack, ask, base, dst, skips>>,
         here' \in Path, job' \in JobType, marks' \subseteq Names
  PROVE  JobInv'
<1>1. Typed'
  BY DEF JobInv, Typed, FsOK, PastOK
<1>2. stack' = <<>> /\ ask' = "none" /\ Len(stack') = 0
  BY DEF JobInv, Course
<1>3. Course' /\ Calls' /\ First' /\ LinksOld' /\ Apart'
  BY <1>2 DEF Course, Working, Calls, First, LinksOld, Awaited, Later, Apart
<1>4. OnlyTheItems' /\ KeepsUnasked' /\ DeletesApproved'
  BY DEF Working, OnlyTheItems, KeepsUnasked, DeletesApproved
<1>. QED BY <1>1, <1>3, <1>4 DEF JobInv

\* A job begins: what is there now is what was there.
LEMMA BeginsKeep ==
  ASSUME JobInv, phase \in {"idle", "query"}, JobRun, UNCHANGED <<fs, here, marks, skips, stack, ask>>,
         base' \in Path, dst' \in Path, job' \in JobType, job'.kind # "none",
         job'.kind # "delete" /\ job'.sel => job'.dir
  PROVE  JobInv'
<1>1. /\ past' = [Begins EXCEPT !.base = base'] /\ phase' = "run"
      /\ past'.fs = fs' /\ past'.base = base' /\ past'.seen = marks'
      /\ past'.agreed = {} /\ past'.approved = {} /\ past'.foreign = {}
  BY DEF JobRun, Begins
<1>2. PastOK'
  BY <1>1 DEF PastOK, Begins, JobInv, Typed
<1>3. Typed'
  BY <1>1, <1>2 DEF JobInv, Typed, FsOK
<1>4. stack' = <<>> /\ ask' = "none" /\ Len(stack') = 0
  BY DEF JobInv, Course
<1>5. Course' /\ Calls' /\ First' /\ Apart'
  BY <1>1, <1>4 DEF Course, Working, Calls, First, Apart
<1>6. LinksOld'
  BY <1>1 DEF LinksOld
<1>7. OnlyTheItems' /\ KeepsUnasked' /\ DeletesApproved'
  BY <1>1 DEF OnlyTheItems, KeepsUnasked, DeletesApproved, Sources
<1>. QED BY <1>3, <1>5, <1>6, <1>7 DEF JobInv

\* An item is taken: a call for it, alone.
LEMMA ItemKeeps == JobInv /\ JobItem => JobInv'
<1>. SUFFICES ASSUME JobInv, JobItem PROVE JobInv'
  OBVIOUS
<1>. DEFINE n == Order[JobNext]
           f == IF job.kind = "delete" THEN Frame("delete", SrcOf(n), SrcOf(n), FALSE)
                                       ELSE Frame(job.kind, SrcOf(n), DstOf(n), TRUE)
<1>1. JobNext \in NextAt
  <2>1. NextAt \subseteq Nat /\ NextAt # {}
    BY OrderNames DEF NextAt, JobItem, JobInv, Typed, JobType
  <2>2. \E i \in NextAt : \A j \in NextAt : i <= j
    BY <2>1, Least
  <2>. QED BY <2>2 DEF JobNext
<1>2. /\ JobNext \in job.pos .. Len(Order) /\ JobNext \in 1..Len(Order) /\ Chosen(n)
      /\ job.pos \in Nat /\ JobNext \in Nat /\ job.pos <= JobNext
  BY <1>1, OrderNames DEF NextAt, JobInv, Typed, JobType
<1>3. /\ stack = <<>> /\ stack' = <<f>> /\ phase = "run" /\ phase' = "run" /\ ask = "none" /\ ask' = "none"
      /\ job' = [job EXCEPT !.pos = JobNext + 1]
      /\ UNCHANGED <<fs, here, base, dst, marks, skips, past>>
  <2>1. phase = "run" /\ stack = <<>>
    BY DEF JobItem
  <2>2. ask = "none"
    BY <2>1 DEF JobInv, Course
  <2>. QED BY <2>1, <2>2 DEF JobItem
<1>4. /\ n \in Names /\ n = Order[JobNext] /\ JobNext + 1 \in 1..Len(Order) + 1 /\ JobNext + 1 > 1
      /\ JobNext + 1 - 1 = JobNext
  BY <1>2, OrderNames
<1>5. SrcOf(n) \in Path /\ DstOf(n) \in Path
  BY <1>4, ChildPath DEF JobInv, Typed, SrcOf, DstOf
<1>6. Working /\ Working' /\ job.kind \in {"copy", "move", "delete"}
  BY <1>3 DEF Working, JobInv, Course, Typed, JobType
<1>7. /\ f \in Frames /\ f.pc = "start" /\ f.how = "new" /\ f.src = SrcOf(n)
      /\ f.op = job.kind /\ (f.op # "delete" => f.dst = DstOf(n))
      /\ job.kind = "delete" => f.approved = FALSE
  BY <1>5, <1>6 DEF Frame, Frames, Places
<1>8. /\ job' \in JobType /\ job'.pos = JobNext + 1
      /\ job'.kind = job.kind /\ job'.sel = job.sel /\ job'.dir = job.dir /\ job'.cur = job.cur
  BY <1>3, <1>4 DEF JobInv, Typed, JobType
<1>. HIDE DEF f, n
<1>9. Item' = n /\ Items' = Items
  <2>1. job'.pos - 1 = JobNext
    BY <1>2, <1>8
  <2>2. Item' = n
    BY <1>4, <2>1 DEF Item
  <2>. QED BY <1>3, <1>8, <2>2 DEF Items
<1>10. n \in Items
  BY <1>2, <1>4, <1>6 DEF Items, Chosen, JobInv, Course
<1>11. /\ SrcOf(Item)' = SrcOf(n) /\ DstOf(Item)' = DstOf(n)
       /\ \A m : DstOf(m)' = DstOf(m) /\ Chosen(m)' = Chosen(m)
       /\ \A m : ItemSrc(m)' = ItemSrc(m) /\ ItemDst(m)' = ItemDst(m)
  BY <1>3, <1>8, <1>9 DEF SrcOf, DstOf, Chosen, ItemSrc, ItemDst
<1>12. Len(stack') = 1 /\ stack'[1] = f /\ stack' \in Seq(Frames) /\ stack' # <<>> /\ Top' = f
  BY <1>3, <1>7 DEF Top
<1>13. Typed'
  BY <1>3, <1>8, <1>12 DEF JobInv, Typed, FsOK, PastOK
<1>14. Course'
  <2>1. /\ past.base = base /\ marks \subseteq past.seen /\ job.kind # "none"
        /\ job.kind # "delete" /\ job.sel => job.dir
    BY <1>6 DEF JobInv, Course
  <2>2. Item' \in Items'
    BY <1>9, <1>10
  <2>. QED BY <1>3, <1>4, <1>8, <1>12, <2>1, <2>2 DEF Course
<1>15. Calls'
  <2>1. Placed(stack[1])'
    BY <1>5, <1>7, <1>8, <1>11, <1>12, WithinSelf DEF Placed
  <2>2. Leaf(fs, stack[1])' /\ Mild(stack[1])'
    BY <1>7, <1>12 DEF Leaf, LeafPC, Mild
  <2>. QED BY <1>12, <2>1, <2>2 DEF Calls
<1>16. First' /\ Apart'
  BY <1>7, <1>8, <1>11, <1>12 DEF First, Apart
<1>17. LinksOld'
  <2>. SUFFICES ASSUME NEW l \in Paths, Awaited(l)', fs[l].t = "link"
                PROVE  past.fs[l] = fs[l]
    BY <1>3 DEF LinksOld
  <2>1. Later(l)
    <3>1. CASE Later(l)'
      <4>1. PICK i \in JobNext + 1 .. Len(Order) : Chosen(Order[i]) /\ Within(l, DstOf(Order[i]))
        BY <1>8, <1>11, <3>1 DEF Later
      <4>2. i \in job.pos .. Len(Order)
        BY <1>2, <4>1, OrderNames
      <4>. QED BY <1>3, <1>8, <3>1, <4>1, <4>2 DEF Later
    <3>2. CASE Ahead(fs', f, l)
      <4>1. job.kind # "delete" /\ Within(l, DstOf(n))
        BY <1>7, <3>2 DEF Ahead
      <4>. QED BY <1>2, <1>3, <1>4, <4>1 DEF Later
    <3>. QED BY <1>12, <3>1, <3>2 DEF Awaited
  <2>. QED BY <2>1 DEF JobInv, LinksOld, Awaited
<1>18. OnlyTheItems' /\ KeepsUnasked' /\ DeletesApproved'
  BY <1>3, <1>6, <1>8, <1>9, <1>11 DEF JobInv, OnlyTheItems, KeepsUnasked, DeletesApproved, Sources
<1>. QED BY <1>13, <1>14, <1>15, <1>16, <1>17, <1>18 DEF JobInv

LEMMA JobEndKeeps == JobInv /\ JobEnd => JobInv'
<1>. SUFFICES ASSUME JobInv, JobEnd PROVE JobInv'
  OBVIOUS
<1>1. /\ stack = <<>> /\ stack' = <<>> /\ phase = "run" /\ phase' = "over" /\ ask' = ask
      /\ UNCHANGED <<fs, here, base, dst, job, marks, skips, past>>
  BY DEF JobEnd
<1>2. ask = "none" /\ Len(stack') = 0 /\ Working /\ Working'
  BY <1>1 DEF JobInv, Course, Working
<1>3. Typed'
  BY <1>1 DEF JobInv, Typed, FsOK, PastOK
<1>4. Course'
  BY <1>1, <1>2 DEF JobInv, Course
<1>5. Calls' /\ First' /\ Apart' /\ LinksOld'
  BY <1>1, <1>2 DEF Calls, First, Apart, LinksOld, Awaited, Later
<1>6. Items' = Items /\ \A m : ItemSrc(m)' = ItemSrc(m) /\ ItemDst(m)' = ItemDst(m)
  BY <1>1 DEF Items, ItemSrc, ItemDst
<1>7. OnlyTheItems' /\ KeepsUnasked' /\ DeletesApproved'
  BY <1>1, <1>2, <1>6 DEF JobInv, OnlyTheItems, KeepsUnasked, DeletesApproved, Sources
<1>. QED BY <1>3, <1>4, <1>5, <1>7 DEF JobInv

\* Another program makes a file where there is nothing.
LEMMA OtherKeeps == ASSUME JobInv, NEW p \in Paths, Other(p) PROVE JobInv'
<1>1. /\ phase = "run" /\ fs[p] = None /\ UNCHANGED <<here, base, dst, job, marks, phase, ask, skips, stack>>
      /\ fs' = [fs EXCEPT ![p] = File(<<"other">>, 1)]
      /\ past' = [past EXCEPT !.foreign = @ \cup {p}]
  BY DEF Other, Exists, Put, Same, Still
<1>2. /\ PastOK' /\ past'.fs = past.fs /\ past'.base = past.base /\ past'.seen = past.seen
      /\ past'.agreed = past.agreed /\ past'.approved = past.approved
      /\ past'.foreign = past.foreign \cup {p}
  BY <1>1 DEF PastOK, JobInv, Typed
<1>3. FsOK(fs') /\ fs'[p] = File(<<"other">>, 1) /\ \A q \in Paths : q # p => fs'[q] = fs[q]
  BY <1>1 DEF JobInv, Typed, FsOK, IsNode, File
<1>4. Typed'
  BY <1>1, <1>2, <1>3 DEF JobInv, Typed
<1>5. /\ Working /\ Working' /\ Items' = Items /\ Item' = Item /\ Top' = Top
      /\ \A m : ItemSrc(m)' = ItemSrc(m) /\ ItemDst(m)' = ItemDst(m)
      /\ \A m : SrcOf(m)' = SrcOf(m) /\ DstOf(m)' = DstOf(m) /\ Chosen(m)' = Chosen(m)
      /\ SrcOf(Item)' = SrcOf(Item) /\ DstOf(Item)' = DstOf(Item)
  BY <1>1, <1>2 DEF Working, Items, Item, Top, ItemSrc, ItemDst, SrcOf, DstOf, Chosen
<1>6. Course'
  BY <1>1, <1>2, <1>5 DEF JobInv, Course
<1>7. ASSUME NEW i \in 1..Len(stack)
      PROVE  /\ stack'[i] = stack[i] /\ Placed(stack[i])' /\ Leaf(fs', stack[i]) /\ Mild(stack[i])'
             /\ \A l : Ahead(fs', stack[i], l) => Ahead(fs, stack[i], l)
  <2>1. Placed(stack[i]) /\ Leaf(fs, stack[i]) /\ Mild(stack[i]) /\ stack'[i] = stack[i]
    BY <1>1 DEF JobInv, Calls
  <2>2. Placed(stack[i])'
    BY <1>1, <1>2, <1>5, <2>1 DEF Placed
  <2>3. stack[i].pc = "data" => stack[i].dst # p
    BY <1>1, <2>1 DEF Leaf, LeafPC, None
  <2>4. Leaf(fs', stack[i])
    <3>1. fs[p].t = "none"
      BY <1>1 DEF None
    <3>2. ASSUME stack[i].pc \in LeafPC
          PROVE  stack[i].src \in Paths /\ stack[i].dst \in Paths /\ fs'[stack[i].src] = fs[stack[i].src]
      BY <1>1, <1>3, <2>1, <3>2 DEF Leaf
    <3>3. \A q \in Paths : fs[q].t = "file" => fs'[q] = fs[q]
      BY <1>3, <3>1
    <3>4. stack[i].pc = "data" => fs'[stack[i].dst] = fs[stack[i].dst]
      BY <1>3, <2>3, <3>2 DEF LeafPC
    <3>5. stack[i].pc = "data" =>
            LET q == IF fs'[stack[i].dst].t = "link" THEN fs'[stack[i].dst].to ELSE stack[i].dst
            IN  /\ stack[i].src # stack[i].dst /\ q \in Paths /\ fs'[q].t = "file"
                /\ stack[i].how = "new" => q = stack[i].dst
      BY <2>1, <3>3, <3>4 DEF Leaf
    <3>. QED BY <2>1, <3>2, <3>5 DEF Leaf
  <2>5. Mild(stack[i])'
    BY <1>1, <1>2, <2>1, <2>3 DEF Mild, Yields, Was
  <2>6. \A l : Ahead(fs', stack[i], l) => Ahead(fs, stack[i], l)
    BY <1>1, <1>3, <2>1 DEF Ahead, Leaf, LeafPC
  <2>. QED BY <2>1, <2>2, <2>4, <2>5, <2>6
<1>8. Calls'
  <2>1. Len(stack') = Len(stack)
    BY <1>1
  <2>2. ASSUME NEW i \in 1..Len(stack')
        PROVE  Placed(stack[i])' /\ Leaf(fs, stack[i])' /\ Mild(stack[i])'
    <3>1. i \in 1..Len(stack)
      BY <2>1
    <3>2. Placed(stack[i])' /\ Mild(stack[i])' /\ Leaf(fs', stack'[i])
      BY <1>7, <3>1
    <3>. QED BY <3>2 DEF Leaf
  <2>. QED BY <1>1, <2>2 DEF JobInv, Calls
<1>9. First'
  BY <1>1, <1>2, <1>5 DEF JobInv, First
<1>10. Apart'
  <2>. SUFFICES ASSUME NEW j \in 1..Len(stack), NEW i \in 1..j - 1, NEW l \in Paths,
                       stack[j].op # "delete", Within(l, stack[j].dst), Ahead(fs', stack[i], l)
                PROVE  FALSE
    BY <1>1 DEF Apart
  <2>1. i \in 1..Len(stack)
    BY DEF JobInv, Typed
  <2>. QED BY <1>7, <2>1 DEF JobInv, Apart
<1>11. LinksOld'
  <2>. SUFFICES ASSUME NEW l \in Paths, Awaited(l)', fs'[l].t = "link"
                PROVE  past.fs[l] = fs'[l]
    BY <1>2 DEF LinksOld
  <2>1. fs'[l] = fs[l]
    BY <1>3 DEF File
  <2>2. Awaited(l)
    BY <1>1, <1>5, <1>7 DEF Awaited, Later
  <2>. QED BY <2>1, <2>2 DEF JobInv, LinksOld
<1>12. OnlyTheItems'
  BY <1>1, <1>2, <1>3, <1>5 DEF JobInv, OnlyTheItems
<1>13. KeepsUnasked'
  BY <1>1, <1>2, <1>3, <1>5 DEF JobInv, KeepsUnasked
<1>14. DeletesApproved'
  BY <1>1, <1>2, <1>3, <1>5 DEF JobInv, DeletesApproved, Sources
<1>. QED BY <1>4, <1>6, <1>8, <1>9, <1>10, <1>11, <1>12, <1>13, <1>14 DEF JobInv

LEMMA UnchangedKeeps == JobInv /\ UNCHANGED vars => JobInv'
<1>. SUFFICES ASSUME JobInv, UNCHANGED vars PROVE JobInv'
  OBVIOUS
<1>1. UNCHANGED <<fs, here, base, dst, job, marks, skips, stack, ask, phase, past>>
  BY DEF vars
<1>2. /\ Working' = Working /\ Items' = Items /\ Item' = Item /\ Top' = Top /\ Sources' = Sources
      /\ \A m : ItemSrc(m)' = ItemSrc(m) /\ ItemDst(m)' = ItemDst(m)
      /\ \A m : SrcOf(m)' = SrcOf(m) /\ DstOf(m)' = DstOf(m) /\ Chosen(m)' = Chosen(m)
      /\ \A f : Placed(f)' = Placed(f) /\ Mild(f)' = Mild(f)
      /\ \A l : Awaited(l)' = Awaited(l)
      /\ SrcOf(Item)' = SrcOf(Item)
  BY <1>1 DEF Working, Items, Item, Top, Sources, ItemSrc, ItemDst, SrcOf, DstOf, Chosen, Placed, Mild,
              Yields, Was, Awaited, Later
<1>3. Typed' /\ Course' /\ First' /\ LinksOld' /\ Apart'
  BY <1>1, <1>2 DEF JobInv, Typed, FsOK, PastOK, Course, First, LinksOld, Apart
<1>4. Calls'
  BY <1>1 DEF JobInv, Calls, Placed, Mild, Leaf, SrcOf, DstOf, Item, Yields, Was
<1>5. OnlyTheItems' /\ KeepsUnasked' /\ DeletesApproved'
  BY <1>1, <1>2 DEF JobInv, OnlyTheItems, KeepsUnasked, DeletesApproved
<1>. QED BY <1>3, <1>4, <1>5 DEF JobInv

-----------------------------------------------------------------------------
(* The steps of the calls, by how each of them goes on.                     *)

PastGrows ==
  /\ PastOK' /\ past'.fs = past.fs /\ past'.base = past.base
  /\ past'.seen = past.seen /\ past'.foreign = past.foreign
  /\ past.agreed \subseteq past'.agreed /\ past.approved \subseteq past'.approved

LEMMA PastSteps ==
  ASSUME JobInv
  PROVE  /\ past' = past => PastGrows
         /\ past' = [past EXCEPT !.cancelled = TRUE] => PastGrows
         /\ past' = [past EXCEPT !.blind = TRUE] => PastGrows
         /\ \A p : past' = [past EXCEPT !.approved = @ \cup {p}] => PastGrows /\ p \in past'.approved
         /\ \A p : past' = [past EXCEPT !.agreed = @ \cup {p}] => PastGrows /\ p \in past'.agreed
<1>0. PastOK
  BY DEF JobInv, Typed
<1>1. past' = past => PastGrows
  BY <1>0 DEF PastGrows, PastOK
<1>2. past' = [past EXCEPT !.cancelled = TRUE] => PastGrows
  BY <1>0 DEF PastGrows, PastOK
<1>3. past' = [past EXCEPT !.blind = TRUE] => PastGrows
  BY <1>0 DEF PastGrows, PastOK
<1>4. ASSUME NEW p, past' = [past EXCEPT !.approved = @ \cup {p}]
      PROVE  PastGrows /\ p \in past'.approved
  BY <1>0, <1>4 DEF PastGrows, PastOK
<1>5. ASSUME NEW p, past' = [past EXCEPT !.agreed = @ \cup {p}]
      PROVE  PastGrows /\ p \in past'.agreed
  BY <1>0, <1>5 DEF PastGrows, PastOK
<1>. QED BY <1>1, <1>2, <1>3, <1>4, <1>5

LEMMA Puts ==
  ASSUME JobInv, NEW p, NEW x, IsNode(x), Put(p, x)
  PROVE  /\ FsOK(fs') /\ (p \in Paths => fs'[p] = x)
         /\ \A q \in Paths : q # p => fs'[q] = fs[q]
BY DEF JobInv, Typed, FsOK, Put

LEMMA Nodes == /\ IsNode(None) /\ IsNode(Dir) /\ \A d, m : IsNode(File(d, m))
               /\ None.t = "none" /\ Dir.t = "dir" /\ \A d, m : File(d, m).t = "file"
               /\ \A p : Link(p).t = "link" /\ Link(p).to = p
BY DEF IsNode, None, Dir, File, Link

\* A step with nothing changed but the stack.
LEMMA QuietStep ==
  ASSUME JobInv, stack # <<>>, fs' = fs
  PROVE  FsOK(fs') /\ Touches /\ Asks
BY DEF JobInv, Typed, Touches, Asks

LEMMA SteadyIf ==
  ASSUME JobInv, phase = "run", stack # <<>>, phase' \in {"run", "over"}, Still, job' = job,
         FsOK(fs'), skips' \in Nat, marks' \subseteq marks, PastGrows
  PROVE  Steady
BY DEF JobInv, Typed, Steady, Still, PastGrows

LEMMA CancelKeeps ==
  ASSUME JobInv, phase = "run", stack # <<>>, Still, job' = job, FsOK(fs'), Touches, Asks,
         Cancel, ask' = "none"
  PROVE  JobInv'
<1>1. PastGrows
  BY PastSteps DEF Cancel
<1>2. Steady
  BY <1>1, SteadyIf DEF Cancel, JobInv, Typed
<1>. QED BY <1>2, QuitsKeep DEF Quits, Cancel

LEMMA ReturnsKeep ==
  ASSUME JobInv, phase = "run", stack # <<>>, Still, job' = job, FsOK(fs'), Touches, Asks,
         Returns, ask' = "none", phase' = phase, skips' \in Nat, PastGrows
  PROVE  JobInv'
<1>1. marks' \subseteq marks
  BY DEF Returns
<1>2. Steady
  BY <1>1, SteadyIf
<1>. QED BY <1>2, PopsKeep DEF Pops, Returns

LEMMA GotoKeeps ==
  ASSUME JobInv, phase = "run", stack # <<>>, Still, job' = job, FsOK(fs'), Touches, Asks,
         ask # "item", marks' = marks, phase' = phase, skips' \in Nat, PastGrows,
         NEW f, stack' = [stack EXCEPT ![Len(stack)] = f], Follows(f)
  PROVE  JobInv'
<1>1. Steady
  BY SteadyIf
<1>. QED BY <1>1, SwapsKeep DEF Swaps

\* What the innermost call is at another place.
LEMMA TopAt ==
  ASSUME JobInv, stack # <<>>, NEW pc \in Places, NEW f, f = [Top EXCEPT !.pc = pc]
  PROVE  /\ f \in Frames /\ f.pc = pc
         /\ f.op = Top.op /\ f.src = Top.src /\ f.dst = Top.dst
         /\ f.how = Top.how /\ f.approved = Top.approved /\ f.left = Top.left
         /\ [stack EXCEPT ![Len(stack)].pc = pc] = [stack EXCEPT ![Len(stack)] = f]
<1>1. Top \in Frames /\ Top = stack[Len(stack)] /\ stack \in Seq(Frames)
  BY TopIs DEF JobInv, Typed
<1>2. /\ f \in Frames /\ f.pc = pc
      /\ f.op = Top.op /\ f.src = Top.src /\ f.dst = Top.dst
      /\ f.how = Top.how /\ f.approved = Top.approved /\ f.left = Top.left
  BY <1>1 DEF Frames
<1>3. [stack EXCEPT ![Len(stack)].pc = pc] = [stack EXCEPT ![Len(stack)] = f]
  BY <1>1
<1>. QED BY <1>2, <1>3

\* It waits for an answer at a place it will try again, or is passed over.
LEMMA FailKeeps ==
  ASSUME JobInv, phase = "run", stack # <<>>, ask = "none", Still, job' = job, FsOK(fs'), Touches, Asks,
         past' = past, NEW item \in BOOLEAN, NEW pc \in Places \ {"open", "each", "data"}, Fail(item, pc),
         Leaf(fs', [Top EXCEPT !.pc = pc]),
         \/ item \/ Top.op = "delete"
         \/ \A l \in Paths : Ahead(fs', [Top EXCEPT !.pc = pc], l) =>
                               Ahead(fs, Top, l) /\ (fs'[l].t = "link" => fs'[l] = fs[l])
  PROVE  JobInv'
<1>1. PastGrows
  BY PastSteps
<1>2. CASE job.skipErr
  <2>1. Returns /\ skips' = skips + 1 /\ ask' = "none" /\ phase' = phase /\ skips \in Nat
    BY <1>2 DEF Fail, PassOver, JobInv, Typed
  <2>. QED BY <1>1, <2>1, ReturnsKeep
<1>3. CASE ~job.skipErr
  <2>1. PICK f : f = [Top EXCEPT !.pc = pc]
    OBVIOUS
  <2>2. /\ f \in Frames /\ f.pc = pc
        /\ f.op = Top.op /\ f.src = Top.src /\ f.dst = Top.dst
        /\ f.how = Top.how /\ f.approved = Top.approved /\ f.left = Top.left
        /\ [stack EXCEPT ![Len(stack)].pc = pc] = [stack EXCEPT ![Len(stack)] = f]
    BY <2>1, TopAt
  <2>3. /\ ask' = IF item THEN "item" ELSE "fail"
        /\ stack' = [stack EXCEPT ![Len(stack)] = f]
        /\ marks' = marks /\ phase' = phase /\ skips' = skips
    BY <1>3, <2>2 DEF Fail
  <2>4. Placed(Top) /\ past'.agreed = past.agreed /\ skips \in Nat
    BY TopIs DEF JobInv, Typed
  <2>5. \A l \in Paths : Ahead(fs', f, l) /\ ask' # "item" =>
                           Ahead(fs, Top, l) /\ (fs'[l].t = "link" => fs'[l] = fs[l])
    <3>1. CASE item
      BY <2>3, <3>1
    <3>2. CASE Top.op = "delete"
      BY <2>2, <3>2 DEF Ahead
    <3>3. CASE \A l \in Paths : Ahead(fs', [Top EXCEPT !.pc = pc], l) =>
                               Ahead(fs, Top, l) /\ (fs'[l].t = "link" => fs'[l] = fs[l])
      BY <2>1, <3>3
    <3>. QED BY <3>1, <3>2, <3>3
  <2>6. ask' # "conflict" /\ ask' # "dir"
    BY <2>3
  <2>7. Leaf(fs', f)
    BY <2>1
  <2>8. Follows(f)
    BY <2>2, <2>4, <2>5, <2>6, <2>7 DEF Follows, Placed
  <2>. QED BY <1>1, <2>3, <2>4, <2>8, GotoKeeps
<1>4. job.skipErr \in BOOLEAN
  BY DEF JobInv, Typed, JobType
<1>. QED BY <1>2, <1>3, <1>4

\* It goes on at another place, with nothing changed.
LEMMA AtKeeps ==
  ASSUME JobInv, phase = "run", stack # <<>>, ask = "none", Still, job' = job, fs' = fs, past' = past,
         NEW f \in Frames, f.op = Top.op, f.src = Top.src, f.dst = Top.dst,
         f.how \in {Top.how, "new"}, f.approved = Top.approved, f.pc # "data", Leaf(fs, f), Goto(f),
         job.kind = "delete" /\ f.pc \in {"open", "each"} => f.approved,
         \A l \in Paths : Ahead(fs, f, l) => Ahead(fs, Top, l)
  PROVE  JobInv'
<1>1. PastGrows /\ FsOK(fs') /\ Touches /\ Asks
  BY PastSteps, QuietStep
<1>2. /\ stack' = [stack EXCEPT ![Len(stack)] = f]
      /\ marks' = marks /\ phase' = phase /\ skips' = skips /\ ask' = "none"
  BY DEF Goto
<1>3. Placed(Top) /\ past'.agreed = past.agreed /\ skips \in Nat
  BY TopIs DEF JobInv, Typed
<1>4. Follows(f)
  BY <1>2, <1>3 DEF Follows, Placed
<1>. QED BY <1>1, <1>2, <1>3, <1>4, GotoKeeps

\* Only the question changes: asked, or answered with Retry.
LEMMA AskKeeps ==
  ASSUME JobInv, phase = "run", stack # <<>>, ask # "item", Still, job' = job, fs' = fs, past' = past,
         UNCHANGED <<stack, marks, phase, skips>>,
         ask' = "conflict" => Top.pc = "conflict" /\ Top.src # Top.dst,
         ask' = "dir" => Top.op = "delete"
  PROVE  JobInv'
<1>1. PastGrows /\ FsOK(fs') /\ Touches /\ Asks
  BY PastSteps, QuietStep
<1>2. PICK f : f = Top
  OBVIOUS
<1>3. /\ f \in Frames /\ stack \in Seq(Frames) /\ f = stack[Len(stack)]
      /\ Placed(f) /\ Leaf(fs, f) /\ Mild(f) /\ skips \in Nat
  BY <1>2, TopIs DEF JobInv, Typed
<1>4. stack' = [stack EXCEPT ![Len(stack)] = f]
  BY <1>3
<1>5. Follows(f)
  BY <1>2, <1>3 DEF Follows, Placed, Mild
<1>. QED BY <1>1, <1>3, <1>4, <1>5, GotoKeeps

LEMMA RunningIs ==
  ASSUME JobInv, NEW op, NEW pc, Running(op, pc)
  PROVE  /\ phase = "run" /\ ask = "none" /\ stack # <<>> /\ Top.op \in op /\ Top.pc = pc
         /\ Top \in Frames /\ Top.src \in Path /\ Top.dst \in Path
         /\ Placed(Top) /\ Leaf(fs, Top) /\ Mild(Top)
         /\ job.kind = "copy" => Top.op = "copy"
         /\ job.kind = "delete" => Top.op = "delete"
         /\ Top.op = "move" => job.kind = "move"
         /\ skips \in Nat
<1>1. phase = "run" /\ ask = "none" /\ stack # <<>> /\ Top.op \in op /\ Top.pc = pc
  BY DEF Running
<1>2. /\ Top \in Frames /\ Top.src \in Path /\ Top.dst \in Path
      /\ Placed(Top) /\ Leaf(fs, Top) /\ Mild(Top)
  BY <1>1, TopIs
<1>3. job.kind \in {"copy", "move", "delete"} /\ skips \in Nat
  BY <1>1 DEF JobInv, Typed, JobType, Course, Working
<1>. QED BY <1>1, <1>2, <1>3 DEF Placed

-----------------------------------------------------------------------------
(* del_tree.                                                                *)

LEMMA GoneKeeps ==
  ASSUME JobInv, phase = "run", stack # <<>>, ask = "none", Same, Top.op # "copy",
         Gone(Top.src), Return
  PROVE  JobInv'
<1>1. FsOK(fs') /\ \A q \in Paths : q # Top.src => fs'[q] = fs[q]
  BY Puts, Nodes DEF Gone
<1>2. Top.src \in Paths => fs'[Top.src] = None
  BY Puts, Nodes DEF Gone
<1>3. Touches
  BY <1>1, <1>2, WithinSelf DEF Touches
<1>4. Asks
  BY TopIs DEF Asks, Placed
<1>5. PastGrows /\ skips \in Nat
  BY PastSteps DEF Gone, JobInv, Typed
<1>. QED BY <1>1, <1>3, <1>4, <1>5, ReturnsKeep DEF Return, Same, Gone

\* It returns, with nothing changed.
LEMMA ReturnKeeps ==
  ASSUME JobInv, phase = "run", stack # <<>>, ask = "none", Same, Return, fs' = fs, PastGrows
  PROVE  JobInv'
<1>1. FsOK(fs') /\ Touches /\ Asks /\ skips \in Nat
  BY QuietStep DEF JobInv, Typed
<1>. QED BY <1>1, ReturnsKeep DEF Return, Same

\* A call fails where nothing can be made any more, or before anything is.
LEMMA FailEarly ==
  ASSUME JobInv, phase = "run", stack # <<>>, ask = "none", Same, fs' = fs, past' = past,
         NEW item \in BOOLEAN, NEW pc \in Places \ {"open", "each", "data"}, Fail(item, pc),
         pc \in LeafPC => Top.pc \in LeafPC,
         \/ item \/ Top.op = "delete" \/ Top.pc = pc
         \/ /\ Top.pc \in {"write", "rename", "copy", "unlink"}
            /\ pc \in {"write", "rename", "copy", "unlink"}
  PROVE  JobInv'
<1>1. FsOK(fs') /\ Touches /\ Asks
  BY QuietStep
<1>2. PICK f : f = [Top EXCEPT !.pc = pc]
  OBVIOUS
<1>3. /\ f \in Frames /\ f.pc = pc
      /\ f.op = Top.op /\ f.src = Top.src /\ f.dst = Top.dst /\ f.left = Top.left
  BY <1>2, TopAt
<1>4. Leaf(fs', f)
  BY <1>3, TopIs DEF Leaf
<1>5. \/ item \/ Top.op = "delete"
      \/ \A l \in Paths : Ahead(fs', f, l) => Ahead(fs, Top, l) /\ (fs'[l].t = "link" => fs'[l] = fs[l])
  BY <1>3 DEF Ahead
<1>. QED BY <1>1, <1>2, <1>4, <1>5, FailKeeps DEF Same

LEMMA DelTreeKeeps == JobInv /\ DelTree => JobInv'
<1>. SUFFICES ASSUME JobInv, DelTree PROVE JobInv'
  OBVIOUS
<1>0. Running({"delete"}, "start") /\ Same
  BY DEF DelTree
<1>1. /\ phase = "run" /\ ask = "none" /\ stack # <<>> /\ Top.op = "delete" /\ Top.pc = "start"
      /\ Top \in Frames /\ Placed(Top) /\ skips \in Nat
  BY <1>0, RunningIs
<1>2. CASE Return /\ Quiet
  BY <1>0, <1>1, <1>2, ReturnKeeps, PastSteps DEF Quiet
<1>3. CASE Return /\ fs' = fs /\ past' = [past EXCEPT !.blind = TRUE]
  BY <1>0, <1>1, <1>3, ReturnKeeps, PastSteps
<1>4. CASE Fail(FALSE, "start") /\ UNCHANGED <<fs, past>>
  BY <1>0, <1>1, <1>4, FailEarly DEF Places, LeafPC
<1>5. CASE Gone(Top.src) /\ Return
  BY <1>0, <1>1, <1>5, GoneKeeps
<1>6. CASE Top.approved /\ At("open") /\ past' = past /\ fs' = fs
  <2>1. PICK f : f = [Top EXCEPT !.pc = "open"]
    OBVIOUS
  <2>p. "open" \in Places
    BY DEF Places
  <2>2. /\ f \in Frames /\ f.pc = "open" /\ f.op = Top.op /\ f.src = Top.src /\ f.dst = Top.dst
        /\ f.how = Top.how /\ f.approved = Top.approved
    BY <1>1, <2>1, <2>p, TopAt
  <2>3. Leaf(fs, f) /\ Goto(f) /\ \A l : ~Ahead(fs, f, l)
    BY <1>1, <1>6, <2>1, <2>2 DEF Leaf, LeafPC, At, Ahead
  <2>. QED BY <1>0, <1>1, <1>6, <2>2, <2>3, AtKeeps DEF Same
<1>7. CASE Approve /\ fs' = fs
  <2>1. PICK f : f = [Top EXCEPT !.pc = "open", !.approved = TRUE]
    OBVIOUS
  <2>2. /\ f \in Frames /\ f.pc = "open" /\ f.op = Top.op /\ f.src = Top.src /\ f.dst = Top.dst
        /\ f.how = Top.how /\ f.approved
    BY <1>1, <2>1 DEF Frames, Places
  <2>3. /\ stack' = [stack EXCEPT ![Len(stack)] = f] /\ ask' = ask /\ marks' = marks
        /\ phase' = phase /\ skips' = skips /\ past' = [past EXCEPT !.approved = @ \cup {Top.src}]
    BY <1>7, <2>1 DEF Approve, Goto
  <2>4. PastGrows /\ Top.src \in past'.approved /\ FsOK(fs') /\ Touches /\ Asks
    BY <1>1, <1>7, <2>3, PastSteps, QuietStep
  <2>5. Follows(f)
    BY <1>1, <2>2, <2>3, <2>4 DEF Follows, Placed, Leaf, LeafPC, Ahead, PastGrows
  <2>. QED BY <1>0, <1>1, <2>3, <2>4, <2>5, GotoKeeps DEF Same
<1>8. CASE PassOver /\ past' = past /\ fs' = fs
  <2>1. PastGrows /\ FsOK(fs') /\ Touches /\ Asks
    BY <1>1, <1>8, PastSteps, QuietStep
  <2>. QED BY <1>0, <1>1, <1>8, <2>1, ReturnsKeep DEF PassOver, Same
<1>9. CASE ask' = "dir" /\ UNCHANGED <<stack, marks, phase, skips, past>> /\ fs' = fs
  BY <1>0, <1>1, <1>9, AskKeeps DEF Same
<1>10. DirAsk => \/ Approve
                 \/ PassOver /\ past' = past
                 \/ ask' = "dir" /\ UNCHANGED <<stack, marks, phase, skips, past>>
  <2>1. CASE grp.dir = "all"
    BY <2>1 DEF DirAsk
  <2>2. CASE grp.dir = "none"
    BY <2>2 DEF DirAsk
  <2>3. CASE grp.dir \notin {"all", "none"}
    BY <2>3 DEF DirAsk
  <2>. QED BY <2>1, <2>2, <2>3
<1>. QED BY <1>2, <1>3, <1>4, <1>5, <1>6, <1>7, <1>8, <1>9, <1>10 DEF DelTree, Faulty

-----------------------------------------------------------------------------
(* copy_tree and move_tree.                                                 *)

\* It goes on at another place, at which it is still to make what it makes.
LEMMA AtPlace ==
  ASSUME JobInv, phase = "run", stack # <<>>, ask = "none", Same, fs' = fs, past' = past,
         NEW pc \in Places \ {"each", "data"}, At(pc),
         pc \in LeafPC => Top.pc \in LeafPC, Top.pc \notin {"each", "copied"},
         job.kind = "delete" /\ pc = "open" => Top.approved,
         Top.pc \in {"write", "rename", "copy", "unlink"} => pc \in {"write", "rename", "copy", "unlink"}
  PROVE  JobInv'
<1>1. PICK f : f = [Top EXCEPT !.pc = pc]
  OBVIOUS
<1>p. pc \in Places
  OBVIOUS
<1>2. /\ f \in Frames /\ f.pc = pc /\ f.op = Top.op /\ f.src = Top.src /\ f.dst = Top.dst
      /\ f.how = Top.how /\ f.approved = Top.approved
  BY ONLY JobInv, stack # <<>>, <1>p, <1>1, TopAt
<1>3. Leaf(fs, f) /\ Goto(f)
  <2>1. Leaf(fs, Top)
    BY TopIs
  <2>2. Leaf(fs, f)
    BY <1>2, <2>1 DEF Leaf
  <2>. QED BY <1>1, <2>2 DEF At
<1>4. \A l \in Paths : Ahead(fs, f, l) => Ahead(fs, Top, l)
  BY <1>2 DEF Ahead
<1>. QED BY <1>2, <1>3, <1>4, AtKeeps DEF Same

LEMMA CopyTreeKeeps == JobInv /\ CopyTree => JobInv'
<1>. SUFFICES ASSUME JobInv, CopyTree PROVE JobInv'
  OBVIOUS
<1>0. Running({"copy", "move"}, "start") /\ Same
  BY DEF CopyTree
<1>1. /\ phase = "run" /\ ask = "none" /\ stack # <<>> /\ Top.op \in {"copy", "move"} /\ Top.pc = "start"
      /\ Top \in Frames /\ Placed(Top) /\ skips \in Nat
      /\ job.kind # "delete"
  BY <1>0, RunningIs
<1>2. CASE Fail(TRUE, "start") /\ fs' = fs /\ past' = past
  BY <1>0, <1>1, <1>2, FailEarly DEF Places, LeafPC
<1>3. CASE Quiet /\ At("conflict") /\ Top.dst \in Paths /\ Exists(Top.src)
  <2>1. PICK f : f = [Top EXCEPT !.pc = "conflict"]
    OBVIOUS
  <2>p. "conflict" \in Places
    BY DEF Places
  <2>2. /\ f \in Frames /\ f.pc = "conflict" /\ f.op = Top.op /\ f.src = Top.src /\ f.dst = Top.dst
        /\ f.how = Top.how /\ f.approved = Top.approved
    BY <1>1, <2>1, <2>p, TopAt
  <2>3. Leaf(fs, f) /\ Goto(f)
    BY <1>3, <2>1, <2>2 DEF Leaf, At, Exists
  <2>4. \A l \in Paths : Ahead(fs, f, l) => Ahead(fs, Top, l)
    BY <1>1, <2>2 DEF Ahead
  <2>. QED BY <1>0, <1>1, <1>3, <2>2, <2>3, <2>4, AtKeeps DEF Same, Quiet
<1>4. ASSUME NEW pc \in {"open", "mkdir", "mvdir"}, fs' = fs, past' = past,
             Goto([Top EXCEPT !.pc = pc, !.s0 = skips])
      PROVE  JobInv'
  <2>1. PICK f : f = [Top EXCEPT !.pc = pc, !.s0 = skips]
    OBVIOUS
  <2>2. /\ f \in Frames /\ f.pc = pc /\ f.op = Top.op /\ f.src = Top.src /\ f.dst = Top.dst
        /\ f.how = Top.how /\ f.approved = Top.approved
    BY <1>1, <2>1 DEF Frames, Places
  <2>3. Leaf(fs, f) /\ Goto(f)
    BY <1>4, <2>1, <2>2 DEF Leaf, LeafPC
  <2>4. \A l \in Paths : Ahead(fs, f, l) => Ahead(fs, Top, l)
    BY <1>1, <2>2 DEF Ahead
  <2>. QED BY <1>0, <1>1, <1>4, <2>2, <2>3, <2>4, AtKeeps DEF Same
<1>5. \/ Fail(TRUE, "start") /\ fs' = fs /\ past' = past
      \/ Quiet /\ At("conflict") /\ Top.dst \in Paths /\ Exists(Top.src)
      \/ \E pc \in {"open", "mkdir", "mvdir"} :
            fs' = fs /\ past' = past /\ Goto([Top EXCEPT !.pc = pc, !.s0 = skips])
  <2>. DEFINE into == IF Exists(Top.dst) THEN "open" ELSE IF Top.op = "copy" THEN "mkdir" ELSE "mvdir"
  <2>1. into \in {"open", "mkdir", "mvdir"}
    OBVIOUS
  <2>2. \/ Fail(TRUE, "start") /\ fs' = fs /\ past' = past
        \/ Quiet /\ At("conflict") /\ Top.dst \in Paths /\ Exists(Top.src)
        \/ fs' = fs /\ past' = past /\ Goto([Top EXCEPT !.pc = into, !.s0 = skips])
        \/ fs' = fs /\ past' = past /\ Goto([Top EXCEPT !.pc = "mkdir", !.s0 = skips])
    BY DEF CopyTree, Faulty, Quiet
  <2>. HIDE DEF into
  <2>. QED BY <2>1, <2>2
<1>. QED BY <1>2, <1>3, <1>4, <1>5

LEMMA MakeDirKeeps == JobInv /\ MakeDir => JobInv'
<1>. SUFFICES ASSUME JobInv, MakeDir PROVE JobInv'
  OBVIOUS
<1>0. Running({"copy"}, "mkdir") /\ Same
  BY DEF MakeDir
<1>1. /\ phase = "run" /\ ask = "none" /\ stack # <<>> /\ Top.op = "copy" /\ Top.pc = "mkdir"
      /\ Top \in Frames /\ Placed(Top) /\ skips \in Nat
      /\ job.kind # "delete"
  BY <1>0, RunningIs
<1>2. CASE Fail(FALSE, "mkdir") /\ fs' = fs /\ past' = past
  BY <1>0, <1>1, <1>2, FailEarly DEF Places, LeafPC
<1>3. CASE At("open") /\ Quiet
  BY <1>0, <1>1, <1>3, AtPlace DEF Quiet, Places, LeafPC
<1>4. CASE CanMake(Top.dst) /\ ~Exists(Top.dst) /\ Put(Top.dst, Dir) /\ At("open") /\ past' = past
  <2>1. PICK f : f = [Top EXCEPT !.pc = "open"]
    OBVIOUS
  <2>p. "open" \in Places
    BY DEF Places
  <2>2. /\ f \in Frames /\ f.pc = "open" /\ f.op = Top.op /\ f.src = Top.src /\ f.dst = Top.dst
        /\ f.how = Top.how /\ f.approved = Top.approved
    BY <1>1, <2>1, <2>p, TopAt
  <2>3. Top.dst \in Paths /\ fs[Top.dst] = None
    BY <1>4 DEF CanMake, Exists
  <2>4. FsOK(fs') /\ fs'[Top.dst] = Dir /\ \A q \in Paths : q # Top.dst => fs'[q] = fs[q]
    BY <1>4, <2>3, Puts, Nodes
  <2>5. Touches /\ Asks /\ PastGrows
    BY <1>1, <1>4, <2>3, <2>4, WithinSelf, PastSteps DEF Touches, Asks
  <2>6. /\ stack' = [stack EXCEPT ![Len(stack)] = f] /\ ask' = ask /\ marks' = marks
        /\ phase' = phase /\ skips' = skips
    BY <1>4, <2>1 DEF At, Goto
  <2>7. \A l \in Paths : Ahead(fs', f, l) => Ahead(fs, Top, l) /\ (fs'[l].t = "link" => fs'[l] = fs[l])
    BY <1>1, <2>2, <2>4, Nodes DEF Ahead
  <2>8. Follows(f)
    BY <1>1, <1>4, <2>2, <2>6, <2>7 DEF Follows, Placed, Leaf, LeafPC
  <2>. QED BY <1>0, <1>1, <2>4, <2>5, <2>6, <2>8, GotoKeeps DEF Same
<1>. QED BY <1>2, <1>3, <1>4 DEF MakeDir, Quiet, Faulty

LEMMA EachEntryKeeps == JobInv /\ EachEntry => JobInv'
<1>. SUFFICES ASSUME JobInv, EachEntry PROVE JobInv'
  OBVIOUS
<1>. DEFINE ops == {"copy", "move", "delete"}
<1>0. Same /\ (Running(ops, "open") \/ Running(ops, "each"))
  BY DEF EachEntry
<1>1. /\ phase = "run" /\ ask = "none" /\ stack # <<>> /\ Top.pc \in {"open", "each"}
      /\ Top \in Frames /\ Placed(Top) /\ skips \in Nat /\ Top.src \in Path /\ Top.dst \in Path
  BY <1>0, RunningIs
<1>2. CASE /\ Running(ops, "open") /\ Quiet
           /\ Goto([Top EXCEPT !.pc = "each", !.left = Children(Top.src)])
  <2>1. PICK f : f = [Top EXCEPT !.pc = "each", !.left = Children(Top.src)]
    OBVIOUS
  <2>2. /\ f \in Frames /\ f.pc = "each" /\ f.op = Top.op /\ f.src = Top.src /\ f.dst = Top.dst
        /\ f.how = Top.how /\ f.approved = Top.approved /\ f.left \subseteq Names
    BY <1>1, <2>1 DEF Frames, Places, Children
  <2>3. Leaf(fs, f) /\ Goto(f) /\ Top.pc = "open"
    BY <1>2, <2>1, <2>2 DEF Leaf, LeafPC, Running
  <2>4. \A l \in Paths : Ahead(fs, f, l) => Ahead(fs, Top, l)
    BY <1>1, <2>2, <2>3, ChildIn, PathsArePath DEF Ahead
  <2>5. job.kind = "delete" /\ f.pc \in {"open", "each"} => f.approved
    BY <1>1, <2>2 DEF Placed
  <2>. QED BY <1>0, <1>1, <1>2, <2>2, <2>3, <2>4, <2>5, AtKeeps DEF Same, Quiet
<1>3. CASE Running(ops, "open") /\ Fail(Top.op # "delete", "start") /\ UNCHANGED <<fs, past>>
  <2>1. (Top.op # "delete") \/ Top.op = "delete"
    OBVIOUS
  <2>2. "start" \in Places \ {"open", "each", "data"} /\ "start" \notin LeafPC
    BY DEF Places, LeafPC
  <2>. QED BY <1>0, <1>1, <1>3, <2>1, <2>2, FailEarly
<1>4. ASSUME Running(ops, "each"), NEW n \in Top.left, Quiet, UNCHANGED <<marks, phase, ask, skips>>,
             stack' = Append([stack EXCEPT ![Len(stack)].left = @ \ {n}],
                             Frame(Top.op, Append(Top.src, n), Append(Top.dst, n), TRUE))
      PROVE  JobInv'
  <2>0. n \in Names /\ Top.pc = "each" /\ Top.left \subseteq Names
    BY <1>1, <1>4 DEF Frames, Running
  <2>1. PICK f : f = [Top EXCEPT !.left = @ \ {n}]
    OBVIOUS
  <2>2. /\ f \in Frames /\ f.pc = "each" /\ f.op = Top.op /\ f.src = Top.src /\ f.dst = Top.dst
        /\ f.how = Top.how /\ f.approved = Top.approved /\ f.left = Top.left \ {n}
    BY <1>1, <2>0, <2>1 DEF Frames
  <2>3. PICK g : g = Frame(Top.op, Append(Top.src, n), Append(Top.dst, n), TRUE)
    OBVIOUS
  <2>c. /\ Append(Top.src, n) \in Path /\ Append(Top.dst, n) \in Path
        /\ Within(Append(Top.src, n), Top.src) /\ Within(Append(Top.dst, n), Top.dst)
    BY <1>1, <2>0, ChildIn
  <2>4. /\ g \in Frames /\ g.pc = "start" /\ g.how = "new" /\ g.op = Top.op
        /\ g.src = Append(Top.src, n) /\ g.dst = Append(Top.dst, n)
    BY <1>1, <2>3, <2>c DEF Frame, Frames, Places
  <2>5. [stack EXCEPT ![Len(stack)].left = @ \ {n}] = [stack EXCEPT ![Len(stack)] = f]
    BY <1>1, <2>1, TopIs DEF JobInv, Typed
  <2>6. Waits(f)
    BY <1>1, <2>2 DEF Waits, Placed
  <2>7. ASSUME NEW l \in Paths, g.op # "delete", Within(l, g.dst) PROVE ~Ahead(fs', f, l)
    <3>1. l \in Path /\ l[Len(Top.dst) + 1] = n
      <4>1. l \in Path /\ Within(l, Append(Top.dst, n))
        BY <2>4, <2>7, PathsArePath
      <4>. QED BY <1>1, <2>0, <4>1, ChildIn
    <3>2. ASSUME NEW m \in Top.left \ {n}, Within(l, Append(Top.dst, m)) PROVE FALSE
      BY <1>1, <2>0, <3>1, <3>2, ChildIn
    <3>. QED BY <2>2, <3>2 DEF Ahead
  <2>8. ASSUME NEW l \in Paths, Ahead(fs', f, l) \/ Ahead(fs', g, l) PROVE Ahead(fs, Top, l)
    BY <2>0, <2>2, <2>4, <2>8 DEF Ahead
  <2>9. Begun(f, g)
    BY <2>4, <2>7, <2>8, <2>c DEF Begun
  <2>10. Steady /\ Touches /\ Asks
    BY <1>0, <1>1, <1>4, SteadyIf, QuietStep, PastSteps DEF Quiet, Same
  <2>11. Pushes(f, g)
    BY <1>1, <1>4, <2>3, <2>5, <2>6, <2>9 DEF Pushes, Quiet
  <2>. QED BY <2>10, <2>11, PushesKeep
<1>. QED BY <1>2, <1>3, <1>4 DEF EachEntry, Faulty

LEMMA EnteredKeeps == JobInv /\ Entered => JobInv'
<1>. SUFFICES ASSUME JobInv, Entered PROVE JobInv'
  OBVIOUS
<1>0. Running({"copy", "move", "delete"}, "each") /\ Same
  BY DEF Entered
<1>1. /\ phase = "run" /\ ask = "none" /\ stack # <<>> /\ Top.pc = "each"
      /\ Top \in Frames /\ Placed(Top) /\ skips \in Nat
  BY <1>0, RunningIs
<1>2. CASE Return /\ Quiet
  BY <1>0, <1>1, <1>2, ReturnKeeps, PastSteps DEF Quiet
<1>3. CASE Top.op \in {"delete", "move"} /\ Gone(Top.src) /\ Return
  BY <1>0, <1>1, <1>3, GoneKeeps
<1>4. CASE Top.op \in {"delete", "move"} /\ Fail(Top.op = "move", "start") /\ UNCHANGED <<fs, past>>
  <2>2. "start" \in Places \ {"open", "each", "data"} /\ "start" \notin LeafPC
    BY DEF Places, LeafPC
  <2>. QED BY <1>0, <1>1, <1>4, <2>2, FailEarly
<1>. QED BY <1>2, <1>3, <1>4 DEF Entered, Quiet, Faulty

LEMMA MoveDirKeeps == JobInv /\ MoveDir => JobInv'
<1>. SUFFICES ASSUME JobInv, MoveDir PROVE JobInv'
  OBVIOUS
<1>0. Running({"move"}, "mvdir") /\ Same
  BY DEF MoveDir
<1>1. /\ phase = "run" /\ ask = "none" /\ stack # <<>> /\ Top.op = "move" /\ Top.pc = "mvdir"
      /\ Top \in Frames /\ Placed(Top) /\ skips \in Nat /\ Top.src \in Path /\ Top.dst \in Path
      /\ job.kind = "move"
  BY <1>0, RunningIs
<1>2. CASE Fail(TRUE, "mvdir") /\ UNCHANGED <<fs, past>>
  BY <1>0, <1>1, <1>2, FailEarly DEF Places, LeafPC
<1>3. CASE Call(Frame("copy", Top.src, Top.dst, TRUE), "copied") /\ Quiet
  <2>1. PICK f : f = [Top EXCEPT !.pc = "copied"]
    OBVIOUS
  <2>p. "copied" \in Places
    BY DEF Places
  <2>2. /\ f \in Frames /\ f.pc = "copied" /\ f.op = Top.op /\ f.src = Top.src /\ f.dst = Top.dst
        /\ f.how = Top.how /\ f.approved = Top.approved
        /\ [stack EXCEPT ![Len(stack)].pc = "copied"] = [stack EXCEPT ![Len(stack)] = f]
    BY <1>1, <2>1, <2>p, TopAt
  <2>3. PICK g : g = Frame("copy", Top.src, Top.dst, TRUE)
    OBVIOUS
  <2>4. /\ g \in Frames /\ g.pc = "start" /\ g.how = "new" /\ g.op = "copy"
        /\ g.src = Top.src /\ g.dst = Top.dst
    BY <1>1, <2>3 DEF Frame, Frames, Places
  <2>5. stack' = Append([stack EXCEPT ![Len(stack)] = f], g)
    <3>1. PICK u : u = [stack EXCEPT ![Len(stack)] = f]
      OBVIOUS
    <3>2. u \in Seq(Frames)
      BY <1>1, <2>2, <3>1, Swapped DEF JobInv, Typed
    <3>3. u \o <<g>> = Append(u, g)
      BY <2>4, <3>2
    <3>. QED BY <1>3, <2>2, <2>3, <3>1, <3>3 DEF Call
  <2>6. Waits(f)
    BY <1>1, <2>2 DEF Waits
  <2>7. Begun(f, g)
    BY <1>1, <2>2, <2>4, WithinSelf DEF Begun, Ahead
  <2>8. Steady /\ Touches /\ Asks
    BY <1>0, <1>1, <1>3, SteadyIf, QuietStep, PastSteps DEF Quiet, Same, Call
  <2>9. Pushes(f, g)
    BY <1>1, <1>3, <2>5, <2>6, <2>7 DEF Pushes, Quiet, Call
  <2>. QED BY <2>8, <2>9, PushesKeep
<1>4. CASE RenameTree(Top.src, Top.dst) /\ Return /\ past' = past
  <2>1. ASSUME NEW p \in Paths
        PROVE  /\ IsNode(fs'[p])
               /\ fs'[p] # fs[p] => Within(p, Top.dst) \/ (Within(p, Top.src) /\ fs'[p] = None)
    <3>0. \A q \in Paths : IsNode(fs[q])
      BY DEF JobInv, Typed, FsOK
    <3>1. CASE Within(p, Top.dst)
      <4>1. fs'[p] = IF (Top.src \o Rest(p, Top.dst)) \in Paths THEN fs[Top.src \o Rest(p, Top.dst)] ELSE None
        BY <1>4, <3>1 DEF RenameTree
      <4>. QED BY <3>0, <3>1, <4>1, Nodes
    <3>2. CASE ~Within(p, Top.dst) /\ Within(p, Top.src)
      <4>1. fs'[p] = None
        BY <1>4, <3>2 DEF RenameTree
      <4>. QED BY <3>2, <4>1, Nodes
    <3>3. CASE ~Within(p, Top.dst) /\ ~Within(p, Top.src)
      <4>1. fs'[p] = fs[p]
        BY <1>4, <3>3 DEF RenameTree
      <4>. QED BY <3>0, <4>1
    <3>. QED BY <3>1, <3>2, <3>3
  <2>2. FsOK(fs')
    <3>1. fs' = [p \in Paths |-> fs'[p]]
      BY <1>4 DEF RenameTree
    <3>. QED BY <2>1, <3>1 DEF FsOK
  <2>3. Touches /\ Asks /\ PastGrows
    BY <1>1, <1>4, <2>1, PastSteps DEF Touches, Asks
  <2>. QED BY <1>0, <1>1, <1>4, <2>2, <2>3, ReturnsKeep DEF Return, Same
<1>. QED BY <1>2, <1>3, <1>4 DEF MoveDir, Faulty, Quiet

LEMMA CopiedKeeps == JobInv /\ Copied => JobInv'
<1>. SUFFICES ASSUME JobInv, Copied PROVE JobInv'
  OBVIOUS
<1>0. Running({"move"}, "copied") /\ Same /\ Quiet
  BY DEF Copied
<1>1. /\ phase = "run" /\ ask = "none" /\ stack # <<>> /\ Top.op = "move"
      /\ skips \in Nat /\ Top.src \in Path /\ job.kind = "move"
  BY <1>0, RunningIs
<1>2. CASE Return
  BY <1>0, <1>1, <1>2, ReturnKeeps, PastSteps DEF Quiet
<1>3. CASE Goto(Frame("delete", Top.src, Top.src, TRUE))
  <2>1. PICK f : f = Frame("delete", Top.src, Top.src, TRUE)
    OBVIOUS
  <2>2. f \in Frames /\ f.pc = "start" /\ f.how = "new" /\ f.op = "delete" /\ f.src = Top.src
    BY <1>1, <2>1 DEF Frame, Frames, Places
  <2>3. FsOK(fs') /\ Touches /\ Asks /\ PastGrows
    BY <1>0, <1>1, QuietStep, PastSteps DEF Quiet
  <2>4. /\ stack' = [stack EXCEPT ![Len(stack)] = f] /\ ask' = ask /\ marks' = marks
        /\ phase' = phase /\ skips' = skips
    BY <1>3, <2>1 DEF Goto
  <2>5. Follows(f)
    BY <1>1, <2>2, <2>4 DEF Follows, Leaf, LeafPC, Ahead
  <2>. QED BY <1>0, <1>1, <2>3, <2>4, <2>5, GotoKeeps DEF Same
<1>. QED BY <1>2, <1>3 DEF Copied

-----------------------------------------------------------------------------
(* leaf, op_file and copy_file.                                             *)

LEMMA WriteIs ==
  ASSUME JobInv, stack # <<>>, Top.pc = "conflict", NEW how \in {"new", "over", "append"},
         NEW f, f = Write(how)
  PROVE  /\ f \in Frames /\ f.pc \in {"write", "copy"} /\ f.how = how
         /\ f.op = Top.op /\ f.src = Top.src /\ f.dst = Top.dst /\ f.approved = Top.approved
         /\ Leaf(fs, f) /\ \A l : Ahead(fs, f, l) => Ahead(fs, Top, l)
<1>1. Top \in Frames /\ Leaf(fs, Top)
  BY TopIs
<1>2. /\ f \in Frames /\ f.pc \in {"write", "copy"} /\ f.how = how
      /\ f.op = Top.op /\ f.src = Top.src /\ f.dst = Top.dst /\ f.approved = Top.approved
  BY <1>1 DEF Write, Frames, Places
<1>3. Leaf(fs, f)
  BY <1>1, <1>2 DEF Leaf, LeafPC
<1>4. \A l : Ahead(fs, f, l) => Ahead(fs, Top, l)
  BY <1>2 DEF Ahead
<1>. QED BY <1>2, <1>3, <1>4

LEMMA DecideKeeps ==
  ASSUME JobInv, phase = "run", stack # <<>>, ask # "item", Top.pc = "conflict", Top.src # Top.dst,
         Still, job' = job, fs' = fs, ask' = "none", NEW d \in {"skip", "over", "append"}, Decide(d)
  PROVE  JobInv'
<1>1. FsOK(fs') /\ Touches /\ Asks /\ skips \in Nat
  BY QuietStep DEF JobInv, Typed
<1>2. CASE d = "skip"
  <2>1. PastGrows /\ Returns /\ skips' = skips + 1 /\ phase' = phase
    BY <1>2, PastSteps DEF Decide
  <2>. QED BY <1>1, <2>1, ReturnsKeep
<1>3. CASE d # "skip"
  <2>1. PICK f : f = Write(d)
    OBVIOUS
  <2>2. /\ f \in Frames /\ f.pc \in {"write", "copy"}
        /\ f.op = Top.op /\ f.src = Top.src /\ f.dst = Top.dst /\ f.approved = Top.approved
        /\ Leaf(fs, f) /\ \A l : Ahead(fs, f, l) => Ahead(fs, Top, l)
    BY <1>3, <2>1, WriteIs
  <2>3. /\ stack' = [stack EXCEPT ![Len(stack)] = f] /\ marks' = marks /\ phase' = phase /\ skips' = skips
        /\ past' = [past EXCEPT !.agreed = @ \cup {Top.dst}]
    BY <1>3, <2>1 DEF Decide, Agreed
  <2>4. PastGrows /\ Top.dst \in past'.agreed
    BY <2>3, PastSteps
  <2>5. Follows(f)
    BY <1>1, <2>2, <2>3, <2>4 DEF Follows
  <2>. QED BY <1>1, <2>3, <2>4, <2>5, GotoKeeps
<1>. QED BY <1>2, <1>3

LEMMA RuleIs == \A g : Rule(g) \in {"over", "skip"}
BY DEF Rule

LEMMA ConflictKeeps == JobInv /\ Conflict => JobInv'
<1>. SUFFICES ASSUME JobInv, Conflict PROVE JobInv'
  OBVIOUS
<1>0. Running({"copy", "move"}, "conflict") /\ Same
  BY DEF Conflict
<1>1. /\ phase = "run" /\ ask = "none" /\ stack # <<>> /\ Top.pc = "conflict" /\ Top \in Frames
  BY <1>0, RunningIs
<1>2. CASE Goto(Write("new")) /\ fs' = fs /\ past' = past
  <2>1. PICK f : f = Write("new")
    OBVIOUS
  <2>2. /\ f \in Frames /\ f.pc \in {"write", "copy"} /\ f.how = "new"
        /\ f.op = Top.op /\ f.src = Top.src /\ f.dst = Top.dst /\ f.approved = Top.approved
        /\ Leaf(fs, f) /\ \A l : Ahead(fs, f, l) => Ahead(fs, Top, l)
    BY <1>1, <2>1, WriteIs
  <2>3. Goto(f)
    BY <1>2, <2>1
  <2>. QED BY <1>0, <1>1, <1>2, <2>2, <2>3, AtKeeps DEF Same
<1>3. CASE Fail(TRUE, "conflict") /\ past' = past /\ fs' = fs
  BY <1>0, <1>1, <1>3, FailEarly DEF Places, LeafPC
<1>4. CASE /\ Top.src # Top.dst /\ ask' = "conflict" /\ fs' = fs
           /\ UNCHANGED <<stack, marks, phase, skips, past>>
  BY <1>0, <1>1, <1>4, AskKeeps DEF Same
<1>5. CASE Top.src # Top.dst /\ Decide(Rule(grp.file)) /\ ask' = ask /\ fs' = fs
  BY <1>0, <1>1, <1>5, DecideKeeps, RuleIs DEF Same
<1>6. CASE /\ Exists(Top.dst) /\ UNCHANGED <<fs, budget>>
           /\ CASE SameFile(Top.src, Top.dst) -> Fail(TRUE, "conflict") /\ past' = past
                [] ~SameFile(Top.src, Top.dst) /\ grp.file = "ask" ->
                     ask' = "conflict" /\ UNCHANGED <<stack, marks, phase, skips, past>>
                [] OTHER -> Decide(Rule(grp.file)) /\ ask' = ask
  <2>1. CASE Top.src = Top.dst
    BY <1>3, <1>6, <2>1 DEF SameFile
  <2>2. CASE Top.src # Top.dst /\ grp.file = "ask"
    BY <1>4, <1>6, <2>2 DEF SameFile
  <2>3. CASE Top.src # Top.dst /\ grp.file # "ask"
    BY <1>5, <1>6, <2>3 DEF SameFile
  <2>. QED BY <2>1, <2>2, <2>3
<1>. QED BY <1>2, <1>6 DEF Conflict, Faulty, Quiet

LEMMA CfChooseKeeps ==
  ASSUME JobInv, NEW a \in {"yes", "no", "append", "zero", "all", "older", "none", "smaller", "size", "abort"},
         CfChoose(a)
  PROVE  JobInv'
<1>1. /\ phase = "run" /\ ask = "conflict" /\ Still /\ UNCHANGED <<fs, job, budget>>
      /\ ask' = IF a = "zero" THEN ask ELSE "none"
  BY DEF CfChoose
<1>2. stack # <<>> /\ Top.pc = "conflict" /\ Top.src # Top.dst
  BY <1>1 DEF JobInv, Course
<1>3. CASE a = "zero"
  <2>1. UNCHANGED <<stack, marks, phase, skips, past>>
    BY <1>3 DEF CfChoose
  <2>. QED BY <1>1, <1>2, <1>3, <2>1, AskKeeps
<1>4. CASE a = "abort"
  <2>1. Cancel
    BY <1>4 DEF CfChoose
  <2>. QED BY <1>1, <1>2, <1>4, <2>1, QuietStep, CancelKeeps
<1>5. CASE a \notin {"zero", "abort"}
  <2>1. \E d \in {"skip", "over", "append"} : Decide(d)
    <3>1. CASE a = "yes"
      BY <3>1 DEF CfChoose
    <3>2. CASE a = "no"
      BY <3>2 DEF CfChoose
    <3>3. CASE a = "append"
      BY <3>3 DEF CfChoose
    <3>4. CASE a \notin {"yes", "no", "append"}
      <4>1. Decide(Rule(a))
        BY <1>5, <3>4 DEF CfChoose
      <4>. QED BY <4>1, RuleIs
    <3>. QED BY <3>1, <3>2, <3>3, <3>4
  <2>. QED BY <1>1, <1>2, <1>5, <2>1, DecideKeeps
<1>. QED BY <1>3, <1>4, <1>5

LEMMA OpFileKeeps == JobInv /\ OpFile => JobInv'
<1>. SUFFICES ASSUME JobInv, OpFile PROVE JobInv'
  OBVIOUS
<1>0. Running({"move"}, "write") /\ Same /\ Quiet
  BY DEF OpFile
<1>1. /\ phase = "run" /\ ask = "none" /\ stack # <<>> /\ Top.pc = "write" /\ Top \in Frames
  BY <1>0, RunningIs
<1>2. CASE Fail(FALSE, "write")
  BY <1>0, <1>1, <1>2, FailEarly DEF Places, LeafPC, Quiet
<1>3. CASE At("copy")
  BY <1>0, <1>1, <1>3, AtPlace DEF Quiet, Places, LeafPC
<1>4. CASE At("rename")
  BY <1>0, <1>1, <1>4, AtPlace DEF Quiet, Places, LeafPC
<1>5. Fail(FALSE, "write") \/ At("copy") \/ At("rename")
  <2>1. CASE Top.how = "new" /\ Exists(Top.dst)
    BY <2>1 DEF OpFile
  <2>2. CASE Top.how = "append"
    BY <2>2 DEF OpFile
  <2>3. CASE ~(Top.how = "new" /\ Exists(Top.dst)) /\ Top.how # "append"
    BY <2>3 DEF OpFile
  <2>. QED BY <2>1, <2>2, <2>3
<1>. QED BY <1>2, <1>3, <1>4, <1>5

LEMMA RenameKeeps == JobInv /\ Rename => JobInv'
<1>. SUFFICES ASSUME JobInv, Rename PROVE JobInv'
  OBVIOUS
<1>0. Running({"move"}, "rename") /\ Same
  BY DEF Rename
<1>1. /\ phase = "run" /\ ask = "none" /\ stack # <<>> /\ Top.pc = "rename" /\ Top \in Frames
      /\ Top.op = "move" /\ job.kind = "move" /\ skips \in Nat
      /\ Top.src \in Paths /\ Top.dst \in Paths
  BY <1>0, RunningIs DEF Leaf, LeafPC
<1>2. CASE Fail(FALSE, "write") /\ UNCHANGED <<fs, past>>
  BY <1>0, <1>1, <1>2, FailEarly DEF Places, LeafPC
<1>3. CASE Goto([Top EXCEPT !.pc = "copy"]) /\ Quiet
  <2>1. At("copy")
    BY <1>3 DEF At
  <2>. QED BY <1>0, <1>1, <1>3, <2>1, AtPlace DEF Quiet, Places, LeafPC
<1>4. CASE /\ fs' = [fs EXCEPT ![Top.src] = None, ![Top.dst] = fs[Top.src]]
           /\ Return /\ past' = past
  <2>1. FsOK(fs') /\ \A q \in Paths : q # Top.src /\ q # Top.dst => fs'[q] = fs[q]
    BY <1>1, <1>4, Nodes DEF JobInv, Typed, FsOK
  <2>2. Top.src # Top.dst => fs'[Top.src] = None
    BY <1>1, <1>4 DEF JobInv, Typed, FsOK
  <2>3. Touches
    BY <1>1, <2>1, <2>2, WithinSelf DEF Touches
  <2>4. Asks /\ PastGrows
    BY <1>1, <1>4, PastSteps DEF Asks
  <2>. QED BY <1>0, <1>1, <1>4, <2>1, <2>3, <2>4, ReturnsKeep DEF Return, Same
<1>. QED BY <1>2, <1>3, <1>4 DEF Rename, Quiet, Faulty

LEMMA RestartIs == Restart(Top) \in {"write", "copy"}
BY DEF Restart

\* The copy that is made is opened by its own name, or by that of a link that was there.
LEMMA LinkAtDst ==
  ASSUME JobInv, phase = "run", stack # <<>>, ask # "item", Top.dst \in Paths, Ahead(fs, Top, Top.dst),
         fs[Top.dst].t = "link"
  PROVE  past.fs[Top.dst] = Link(fs[Top.dst].to)
<1>1. Awaited(Top.dst)
  BY TopIs DEF Awaited, JobInv, Typed
<1>2. past.fs[Top.dst] = fs[Top.dst] /\ IsNode(fs[Top.dst])
  BY <1>1 DEF JobInv, LinksOld, Typed, FsOK
<1>. QED BY <1>2 DEF IsNode

\* What is written in where nothing was to be written over yields.
LEMMA FreeYields ==
  ASSUME JobInv, Working, job.kind = "copy", NEW p \in Paths, fs[p] = None
  PROVE  Yields(p)
BY DEF JobInv, KeepsUnasked, Yields, Was

LEMMA CopyLinkKeeps == JobInv /\ CopyLink => JobInv'
<1>. SUFFICES ASSUME JobInv, CopyLink PROVE JobInv'
  OBVIOUS
<1>0. Running({"copy", "move"}, "copy") /\ fs[Top.src].t = "link" /\ Same
  BY DEF CopyLink
<1>1. /\ phase = "run" /\ ask = "none" /\ stack # <<>> /\ Top.pc = "copy" /\ Top \in Frames
      /\ Top.op \in {"copy", "move"} /\ skips \in Nat /\ Placed(Top)
      /\ Top.src \in Paths /\ Top.dst \in Paths /\ fs[Top.src] # None
  BY <1>0, RunningIs DEF Leaf, LeafPC
<1>. DEFINE gone == IF Top.how # "new" /\ Exists(Top.dst) /\ ~IsDir(Top.dst) THEN {Top.dst} ELSE {}
            cleared == [p \in Paths |-> IF p \in gone THEN None ELSE fs[p]]
<1>g. /\ \A p \in gone : p = Top.dst /\ p \in past.agreed /\ p # Top.src
      /\ \A p \in Paths : cleared[p] = IF p \in gone THEN None ELSE fs[p]
  BY <1>1 DEF Placed
<1>h. CopyLink => \/ cleared[Top.dst] = None /\ Put(Top.dst, fs[Top.src]) /\ Finish /\ past' = past
                  \/ Fail(FALSE, Restart(Top)) /\ Quiet
                  \/ Fail(FALSE, Restart(Top)) /\ fs' = cleared /\ past' = past
  BY DEF CopyLink, Faulty
<1>c. cleared = [p \in Paths |-> cleared[p]]
  OBVIOUS
<1>. HIDE DEF gone, cleared
<1>2. CASE cleared[Top.dst] = None /\ Put(Top.dst, fs[Top.src]) /\ Finish /\ past' = past
  <2>1. /\ FsOK(fs') /\ fs'[Top.dst] = fs[Top.src] /\ fs'[Top.src] = fs[Top.src]
        /\ \A q \in Paths : q # Top.dst => fs'[q] = fs[q]
    BY <1>1, <1>2, Puts DEF JobInv, Typed, FsOK
  <2>2. Touches /\ PastGrows
    BY <1>1, <1>2, <2>1, WithinSelf, PastSteps DEF Touches
  <2>3. Asks
    BY <1>1, <1>2, <1>g, <2>1 DEF Asks, Yields
  <2>4. CASE Return
    BY <1>0, <1>1, <2>1, <2>2, <2>3, <2>4, ReturnsKeep DEF Return, Same
  <2>5. CASE At("unlink")
    <3>1. PICK f : f = [Top EXCEPT !.pc = "unlink"]
      OBVIOUS
    <3>p. "unlink" \in Places
      BY DEF Places
    <3>2. /\ f \in Frames /\ f.pc = "unlink" /\ f.op = Top.op /\ f.src = Top.src /\ f.dst = Top.dst
          /\ f.how = Top.how /\ f.approved = Top.approved
      BY <1>1, <3>1, <3>p, TopAt
    <3>3. /\ stack' = [stack EXCEPT ![Len(stack)] = f] /\ ask' = ask /\ marks' = marks
          /\ phase' = phase /\ skips' = skips
      BY <2>5, <3>1 DEF At, Goto
    <3>4. Leaf(fs', f) /\ \A l \in Paths : ~Ahead(fs', f, l)
      BY <1>0, <1>1, <2>1, <3>2 DEF Leaf, LeafPC, Ahead
    <3>5. Follows(f)
      BY <1>1, <1>2, <3>2, <3>3, <3>4 DEF Follows, Placed
    <3>. QED BY <1>0, <1>1, <2>1, <2>2, <2>3, <3>3, <3>5, GotoKeeps DEF Same
  <2>. QED BY <1>2, <2>4, <2>5 DEF Finish
<1>3. CASE Fail(FALSE, Restart(Top)) /\ Quiet
  BY <1>0, <1>1, <1>3, FailEarly, RestartIs DEF Places, LeafPC, Quiet
<1>4. CASE Fail(FALSE, Restart(Top)) /\ fs' = cleared /\ past' = past
  <2>1. \A q \in Paths : fs'[q] = IF q \in gone THEN None ELSE fs[q]
    BY <1>4, <1>g
  <2>2. FsOK(fs')
    BY <1>4, <1>c, <2>1, Nodes DEF JobInv, Typed, FsOK
  <2>3. Touches
    BY <1>1, <1>g, <2>1, WithinSelf DEF Touches
  <2>4. Asks
    BY <1>g, <2>1 DEF Asks, Yields
  <2>5. PICK f : f = [Top EXCEPT !.pc = Restart(Top)]
    OBVIOUS
  <2>p. Restart(Top) \in Places \ {"open", "each", "data"} /\ Restart(Top) \in {"write", "copy"}
    BY RestartIs DEF Places
  <2>6. f.pc = Restart(Top) /\ f.src = Top.src /\ f.dst = Top.dst
    BY <1>1, <2>5, <2>p, TopAt
  <2>7. fs'[Top.src] = fs[Top.src]
    BY <1>1, <1>g, <2>1
  <2>8. Leaf(fs', f) /\ \A l \in Paths : ~Ahead(fs', f, l)
    BY <1>0, <1>1, <2>p, <2>6, <2>7 DEF Leaf, Ahead
  <2>. QED BY <1>0, <1>1, <1>4, <2>2, <2>3, <2>4, <2>5, <2>8, <2>p, FailKeeps DEF Same
<1>. QED BY <1>2, <1>3, <1>4, <1>h

LEMMA OpenBothKeeps == JobInv /\ OpenBoth => JobInv'
<1>. SUFFICES ASSUME JobInv, OpenBoth PROVE JobInv'
  OBVIOUS
<1>0. Running({"copy", "move"}, "copy") /\ fs[Top.src].t = "file" /\ Same
  BY DEF OpenBoth
<1>1. /\ phase = "run" /\ ask = "none" /\ stack # <<>> /\ Top.pc = "copy" /\ Top \in Frames
      /\ Top.op \in {"copy", "move"} /\ skips \in Nat /\ Placed(Top) /\ Working
      /\ Top.src \in Paths /\ Top.dst \in Paths /\ fs[Top.src] # None
  BY <1>0, RunningIs DEF Leaf, LeafPC, Working
<1>2. CASE Fail(FALSE, Restart(Top)) /\ UNCHANGED <<fs, past>>
  BY <1>0, <1>1, <1>2, FailEarly, RestartIs DEF Places, LeafPC
<1>. DEFINE q == IF Top.how # "new" /\ Exists(Top.dst) THEN Target(Top.dst) ELSE Top.dst
            f == [Top EXCEPT !.pc = "data", !.off = 0]
<1>3. ASSUME NEW old, CanMake(q), Top.how = "new" => ~Exists(q), Put(q, File(old, Now)), Goto(f), past' = past
      PROVE  JobInv'
  <2>1. /\ q \in Paths /\ FsOK(fs') /\ fs'[q] = File(old, Now) /\ fs'[q].t = "file" /\ fs'[q] # None
        /\ \A p \in Paths : p # q => fs'[p] = fs[p]
    BY <1>3, Puts, Nodes DEF CanMake
  <2>2. /\ Top.how = "new" => q = Top.dst /\ fs[q] = None /\ Top.src # Top.dst
        /\ Top.how # "new" => Top.dst \in past.agreed /\ Top.src # Top.dst
        /\ q # Top.dst => fs[Top.dst].t = "link" /\ fs[Top.dst].to = q
        /\ fs[Top.dst].t = "link" => q = fs[Top.dst].to
    <3>1. Top.how = "new" => q = Top.dst /\ fs[q] = None /\ Top.src # Top.dst
      BY <1>1, <1>3, <2>1 DEF Exists
    <3>2. Top.how # "new" => Top.dst \in past.agreed /\ Top.src # Top.dst
      BY <1>1 DEF Placed
    <3>3. q # Top.dst => fs[Top.dst].t = "link" /\ fs[Top.dst].to = q
      BY DEF Target
    <3>4. fs[Top.dst].t = "link" => q = fs[Top.dst].to
      BY <1>1, <3>1, Nodes DEF Target, Exists
    <3>. QED BY <3>1, <3>2, <3>3, <3>4
  <2>f. /\ f \in Frames /\ f.pc = "data" /\ f.op = Top.op /\ f.src = Top.src /\ f.dst = Top.dst
        /\ f.how = Top.how /\ f.approved = Top.approved
    BY <1>1 DEF Frames, Places
  <2>s. /\ stack' = [stack EXCEPT ![Len(stack)] = f] /\ ask' = ask /\ marks' = marks
        /\ phase' = phase /\ skips' = skips
    BY <1>3 DEF Goto
  <2>. HIDE DEF q, f
  <2>3. q # Top.dst => past.fs[Top.dst] = Link(q)
    <3>1. Ahead(fs, Top, Top.dst)
      BY <1>0, <1>1, WithinSelf DEF Ahead
    <3>. QED BY <1>1, <2>2, <3>1, LinkAtDst
  <2>4. Touches /\ PastGrows
    BY <1>1, <1>3, <2>1, <2>3, WithinSelf, PastSteps DEF Touches
  <2>5. Asks
    BY <2>1, <2>2, <2>3 DEF Asks, Yields
  <2>6. Leaf(fs', f)
    <3>1. fs'[Top.src] # None
      BY <1>1, <2>1
    <3>2. fs'[Top.dst].t = "link" => fs'[Top.dst].to = q
      BY <1>1, <2>1, <2>2
    <3>3. fs'[Top.dst].t # "link" => q = Top.dst
      BY <1>1, <2>1, <2>2
    <3>. QED BY <1>1, <2>1, <2>2, <2>f, <3>1, <3>2, <3>3 DEF Leaf
  <2>7. job.kind = "copy" /\ f.how = "new" => Yields(f.dst)
    BY <1>1, <2>2, <2>f, FreeYields
  <2>8. \A l \in Paths : Ahead(fs', f, l) => Ahead(fs, Top, l) /\ (fs'[l].t = "link" => fs'[l] = fs[l])
    BY <1>0, <1>1, <2>1, <2>f DEF Ahead
  <2>9. Follows(f)
    BY <1>1, <1>3, <2>f, <2>s, <2>2, <2>6, <2>7, <2>8 DEF Follows, Placed
  <2>. QED BY <1>0, <1>1, <2>1, <2>4, <2>5, <2>9, <2>s, GotoKeeps DEF Same
<1>. QED BY <1>2, <1>3 DEF OpenBoth, Faulty, Quiet

\* Where the bytes go, while they go.
LEMMA DataIs ==
  ASSUME JobInv, phase = "run", stack # <<>>, ask = "none", Top.pc = "data", Top.op \in {"copy", "move"}
  PROVE  /\ Top.src \in Paths /\ Top.dst \in Paths /\ fs[Top.src] # None /\ Top.src # Top.dst
         /\ Target(Top.dst) \in Paths /\ fs[Target(Top.dst)].t = "file"
         /\ Top.how = "new" => Target(Top.dst) = Top.dst
         /\ Target(Top.dst) # Top.dst => /\ past.fs[Top.dst] = Link(Target(Top.dst))
                                         /\ fs[Top.dst].t = "link"
         /\ job.kind = "copy" => Yields(Target(Top.dst))
<1>1. Top \in Frames /\ Leaf(fs, Top) /\ Placed(Top) /\ Mild(Top)
  BY TopIs
<1>2. /\ Top.src \in Paths /\ Top.dst \in Paths /\ fs[Top.src] # None /\ Top.src # Top.dst
      /\ Target(Top.dst) \in Paths /\ fs[Target(Top.dst)].t = "file"
      /\ Top.how = "new" => Target(Top.dst) = Top.dst
  BY <1>1 DEF Leaf, LeafPC, Target
<1>3. Ahead(fs, Top, Top.dst)
  BY WithinSelf DEF Ahead
<1>4. Target(Top.dst) # Top.dst => /\ past.fs[Top.dst] = Link(Target(Top.dst))
                                   /\ fs[Top.dst].t = "link"
  BY <1>2, <1>3, LinkAtDst DEF Target
<1>5. job.kind = "copy" => Yields(Target(Top.dst))
  BY <1>1, <1>2, <1>4 DEF Placed, Mild, Yields
<1>. QED BY <1>2, <1>4, <1>5

\* A destination made by this call is removed again.
LEMMA UndoneIs ==
  ASSUME JobInv, phase = "run", stack # <<>>, ask = "none", Top.pc = "data", Top.op \in {"copy", "move"},
         Undone
  PROVE  /\ FsOK(fs') /\ Touches /\ Asks
         /\ \A p \in Paths : fs'[p] # fs[p] => p = Top.dst /\ fs'[p] = None
<1>1. \A p \in Paths : fs'[p] # fs[p] => p = Top.dst /\ fs'[p] = None /\ Top.how = "new"
  BY Puts, Nodes DEF Undone
<1>2. FsOK(fs')
  BY Puts, Nodes DEF Undone, JobInv, Typed
<1>3. Touches
  BY <1>1, DataIs, WithinSelf DEF Touches
<1>4. Asks
  BY <1>1, DataIs DEF Asks
<1>. QED BY <1>1, <1>2, <1>3, <1>4

LEMMA CopyDataKeeps == JobInv /\ CopyData => JobInv'
<1>. SUFFICES ASSUME JobInv, CopyData PROVE JobInv'
  OBVIOUS
<1>0. Running({"copy", "move"}, "data") /\ Same
  BY DEF CopyData
<1>1. /\ phase = "run" /\ ask = "none" /\ stack # <<>> /\ Top.pc = "data" /\ Top \in Frames
      /\ Top.op \in {"copy", "move"} /\ skips \in Nat /\ Placed(Top)
  BY <1>0, RunningIs
<1>. DEFINE q == Target(Top.dst)
            f == [Top EXCEPT !.off = @ + 1]
<1>2. ASSUME NEW old, Put(q, [fs[q] EXCEPT !.data = old]), Goto(f), past' = past
      PROVE  JobInv'
  <2>f. /\ f \in Frames /\ f.pc = "data" /\ f.op = Top.op /\ f.src = Top.src /\ f.dst = Top.dst
        /\ f.how = Top.how /\ f.approved = Top.approved
    BY <1>1 DEF Frames
  <2>s. /\ stack' = [stack EXCEPT ![Len(stack)] = f] /\ ask' = ask /\ marks' = marks
        /\ phase' = phase /\ skips' = skips
    BY <1>2 DEF Goto
  <2>0. /\ Top.src \in Paths /\ Top.dst \in Paths /\ fs[Top.src] # None /\ Top.src # Top.dst
        /\ q \in Paths /\ fs[q].t = "file"
        /\ Top.how = "new" => q = Top.dst
        /\ q # Top.dst => past.fs[Top.dst] = Link(q) /\ fs[Top.dst].t = "link"
        /\ fs[Top.dst].t = "link" => fs[Top.dst].to = q
        /\ job.kind = "copy" => Yields(q)
    BY <1>1, DataIs DEF Target
  <2>. HIDE DEF q, f
  <2>1. IsNode([fs[q] EXCEPT !.data = old])
    <3>1. IsNode(fs[q])
      BY <2>0 DEF JobInv, Typed, FsOK
    <3>2. fs[q] = [t |-> "file", data |-> fs[q].data, mt |-> fs[q].mt]
      BY <2>0, <3>1 DEF IsNode, File
    <3>3. [fs[q] EXCEPT !.data = old] = File(old, fs[q].mt)
      BY <3>2 DEF File
    <3>. QED BY <3>3, Nodes
  <2>2. /\ FsOK(fs') /\ fs'[q] = [fs[q] EXCEPT !.data = old]
        /\ \A p \in Paths : p # q => fs'[p] = fs[p]
    BY <1>2, <2>0, <2>1, Puts
  <2>3. fs'[q].t = "file" /\ fs'[q] # None
    <3>1. IsNode(fs[q])
      BY <2>0 DEF JobInv, Typed, FsOK
    <3>2. fs[q] = [t |-> "file", data |-> fs[q].data, mt |-> fs[q].mt]
      BY <2>0, <3>1 DEF IsNode, File
    <3>. QED BY <2>2, <3>2 DEF None
  <2>4. Touches /\ PastGrows
    BY <1>1, <1>2, <2>0, <2>2, <2>3, WithinSelf, PastSteps DEF Touches
  <2>5. Asks
    BY <2>0, <2>2 DEF Asks
  <2>6. Leaf(fs', f)
    <3>1. fs'[Top.src] # None
      BY <2>0, <2>2, <2>3
    <3>2. fs'[Top.dst].t = "link" => fs'[Top.dst].to = q
      BY <2>0, <2>2, <2>3
    <3>3. fs'[Top.dst].t # "link" => q = Top.dst
      BY <2>0, <2>2
    <3>. QED BY <2>0, <2>3, <2>f, <3>1, <3>2, <3>3 DEF Leaf
  <2>7. \A l \in Paths : Ahead(fs', f, l) => Ahead(fs, Top, l) /\ (fs'[l].t = "link" => fs'[l] = fs[l])
    BY <1>1, <2>2, <2>3, <2>f DEF Ahead
  <2>8. job.kind = "copy" /\ f.how = "new" => Yields(f.dst)
    BY <2>0, <2>f
  <2>9. Follows(f)
    BY <1>1, <1>2, <2>f, <2>s, <2>6, <2>7, <2>8 DEF Follows, Placed
  <2>. QED BY <1>0, <1>1, <2>2, <2>4, <2>5, <2>9, <2>s, GotoKeeps DEF Same
<1>3. CASE Fail(FALSE, Restart(Top)) /\ Undone /\ past' = past
  <2>1. /\ FsOK(fs') /\ Touches /\ Asks
        /\ \A p \in Paths : fs'[p] # fs[p] => p = Top.dst /\ fs'[p] = None
    BY <1>1, <1>3, UndoneIs
  <2>2. PICK g : g = [Top EXCEPT !.pc = Restart(Top)]
    OBVIOUS
  <2>p. Restart(Top) \in Places \ {"open", "each", "data"} /\ Restart(Top) \in {"write", "copy"}
    BY RestartIs DEF Places
  <2>3. g.pc = Restart(Top) /\ g.src = Top.src /\ g.dst = Top.dst /\ g.op = Top.op
    BY <1>1, <2>2, <2>p, TopAt
  <2>4. Leaf(fs', g)
    BY <1>1, <2>1, <2>3, <2>p, DataIs DEF Leaf
  <2>5. \A l \in Paths : Ahead(fs', g, l) => Ahead(fs, Top, l) /\ (fs'[l].t = "link" => fs'[l] = fs[l])
    <3>1. None.t # "link"
      BY Nodes
    <3>. QED BY <1>1, <2>1, <2>3, <2>p, <3>1 DEF Ahead
  <2>. QED BY <1>0, <1>1, <1>3, <2>1, <2>2, <2>4, <2>5, <2>p, FailKeeps DEF Same
<1>4. CASE Finish /\ Quiet
  <2>1. CASE Return
    BY <1>0, <1>1, <1>4, <2>1, ReturnKeeps, PastSteps DEF Quiet
  <2>2. CASE At("unlink")
    BY <1>0, <1>1, <1>4, <2>2, AtPlace DEF Quiet, Places, LeafPC
  <2>. QED BY <1>4, <2>1, <2>2 DEF Finish
<1>. QED BY <1>2, <1>3, <1>4 DEF CopyData, Faulty

LEMMA EscTypedKeeps == JobInv /\ EscTyped => JobInv'
<1>. SUFFICES ASSUME JobInv, EscTyped PROVE JobInv'
  OBVIOUS
<1>0. Running({"copy", "move"}, "data") /\ Same /\ Undone /\ Cancel /\ ask' = ask
  BY DEF EscTyped
<1>1. /\ phase = "run" /\ ask = "none" /\ stack # <<>> /\ Top.pc = "data" /\ Top.op \in {"copy", "move"}
  BY <1>0, RunningIs
<1>. QED BY <1>0, <1>1, UndoneIs, CancelKeeps DEF Same

LEMMA UnlinkSourceKeeps == JobInv /\ UnlinkSource => JobInv'
<1>. SUFFICES ASSUME JobInv, UnlinkSource PROVE JobInv'
  OBVIOUS
<1>0. Running({"move"}, "unlink") /\ Same
  BY DEF UnlinkSource
<1>1. /\ phase = "run" /\ ask = "none" /\ stack # <<>> /\ Top.pc = "unlink" /\ Top.op = "move"
  BY <1>0, RunningIs
<1>2. CASE Gone(Top.src) /\ Return
  BY <1>0, <1>1, <1>2, GoneKeeps
<1>3. CASE Fail(FALSE, "write") /\ UNCHANGED <<fs, past>>
  BY <1>0, <1>1, <1>3, FailEarly DEF Places, LeafPC
<1>. QED BY <1>2, <1>3 DEF UnlinkSource, Faulty

-----------------------------------------------------------------------------
(* The answers.                                                             *)

LEMMA FailAnswerKeeps ==
  ASSUME JobInv, NEW a \in {"skip", "skipall", "retry", "abort"}, FailAnswer(a)
  PROVE  JobInv'
<1>1. /\ phase = "run" /\ ask \in {"fail", "item"} /\ ask' = "none" /\ Still /\ fs' = fs
  BY DEF FailAnswer
<1>2. stack # <<>> /\ skips \in Nat /\ FsOK(fs') /\ Touches /\ Asks
  BY <1>1, QuietStep DEF JobInv, Course, Typed
<1>3. CASE a = "abort"
  <2>1. Cancel /\ job' = job
    BY <1>3 DEF FailAnswer
  <2>. QED BY <1>1, <1>2, <2>1, CancelKeeps
<1>4. CASE a = "retry" /\ ask = "fail"
  <2>1. UNCHANGED <<stack, marks, phase, skips, job, past>>
    BY <1>4 DEF FailAnswer
  <2>. QED BY <1>1, <1>2, <1>4, <2>1, AskKeeps
<1>5. CASE a # "abort" /\ ~(a = "retry" /\ ask = "fail")
  <2>1. /\ Returns /\ skips' = skips + 1 /\ job' = [job EXCEPT !.skipErr = @ \/ a = "skipall"]
        /\ phase' = phase /\ past' = past
    BY <1>5 DEF FailAnswer
  <2>2. /\ job' \in JobType /\ job'.kind = job.kind /\ job'.sel = job.sel /\ job'.dir = job.dir
        /\ job'.pos = job.pos /\ job'.cur = job.cur
    <3>1. job \in JobType /\ (job.skipErr \/ a = "skipall") \in BOOLEAN
      BY DEF JobInv, Typed
    <3>. QED BY <2>1, <3>1 DEF JobType
  <2>3. PastGrows /\ marks' \subseteq marks
    BY <2>1, PastSteps DEF Returns
  <2>4. Steady
    BY <1>1, <1>2, <2>1, <2>2, <2>3 DEF Steady, Still, PastGrows, JobInv, Typed
  <2>. QED BY <1>1, <1>2, <2>1, <2>4, PopsKeep DEF Pops, Returns
<1>. QED BY <1>3, <1>4, <1>5

LEMMA DirAnswerKeeps ==
  ASSUME JobInv, NEW a \in {"yes", "no", "all", "none", "abort"}, DirAnswer(a)
  PROVE  JobInv'
<1>1. /\ phase = "run" /\ ask = "dir" /\ ask' = "none" /\ Still /\ fs' = fs /\ job' = job
  BY DEF DirAnswer
<1>2. stack # <<>> /\ Top.op = "delete" /\ skips \in Nat /\ FsOK(fs') /\ Touches /\ Asks
  BY <1>1, QuietStep DEF JobInv, Course, Typed
<1>3. CASE a = "abort"
  <2>1. Cancel
    BY <1>3 DEF DirAnswer
  <2>. QED BY <1>1, <1>2, <2>1, CancelKeeps
<1>4. CASE a \in {"no", "none"}
  <2>1. Returns /\ skips' = skips + 1 /\ UNCHANGED <<phase, past>>
    BY <1>4 DEF DirAnswer
  <2>. QED BY <1>1, <1>2, <2>1, PastSteps, ReturnsKeep
<1>5. CASE a \in {"yes", "all"}
  <2>0. /\ stack' = [stack EXCEPT ![Len(stack)].pc = "open", ![Len(stack)].approved = TRUE]
        /\ past' = [past EXCEPT !.approved = @ \cup {Top.src}]
        /\ UNCHANGED <<marks, phase, skips>>
    BY <1>5 DEF DirAnswer
  <2>1. PICK f : f = [Top EXCEPT !.pc = "open", !.approved = TRUE]
    OBVIOUS
  <2>2. Top \in Frames /\ Placed(Top) /\ Top = stack[Len(stack)] /\ stack \in Seq(Frames)
    BY <1>2, TopIs DEF JobInv, Typed
  <2>3. /\ f \in Frames /\ f.pc = "open" /\ f.op = Top.op /\ f.src = Top.src /\ f.dst = Top.dst
        /\ f.how = Top.how /\ f.approved
    BY <2>1, <2>2 DEF Frames, Places
  <2>4. stack' = [stack EXCEPT ![Len(stack)] = f]
    BY <1>2, <2>0, <2>1, <2>2
  <2>5. PastGrows /\ Top.src \in past'.approved
    BY <2>0, PastSteps
  <2>6. Follows(f)
    BY <1>1, <1>2, <2>2, <2>3, <2>5 DEF Follows, Placed, Leaf, LeafPC, Ahead, PastGrows
  <2>. QED BY <1>1, <1>2, <2>0, <2>4, <2>5, <2>6, GotoKeeps
<1>. QED BY <1>3, <1>4, <1>5

-----------------------------------------------------------------------------
(* The keys before a job, and the theorems.                                 *)

LEMMA OpConfirmKeeps ==
  ASSUME JobInv, NEW k \in Kinds \ {"delete"}, NEW c \in Names, NEW d \in Dests, OpConfirm(k, c, d)
  PROVE  JobInv'
<1>1. /\ phase = "idle" /\ JobRun /\ base' = here /\ dst' = d
      /\ job' = [kind |-> k, sel |-> marks # {}, dir |-> IsDir(d), pos |-> 1, skipErr |-> FALSE, cur |-> c]
      /\ marks # {} => IsDir(d)
      /\ UNCHANGED <<fs, here, marks, skips, stack, ask>>
  BY DEF OpConfirm
<1>2. base' \in Path /\ dst' \in Path
  BY <1>1, PathsAssumption DEF JobInv, Typed
<1>3. k \in {"copy", "move"}
  BY BoundAssumption
<1>4. (marks # {}) \in BOOLEAN /\ IsDir(d) \in BOOLEAN /\ 1 \in 1..Len(Order) + 1
  BY OrderNames DEF IsDir
<1>5. job' \in JobType /\ job'.kind = k /\ job'.sel = (marks # {}) /\ job'.dir = IsDir(d)
  BY <1>1, <1>3, <1>4 DEF JobType
<1>. QED BY <1>1, <1>2, <1>3, <1>5, BeginsKeep

LEMMA DeleteOpenKeeps == ASSUME JobInv, NEW c \in Names, DeleteOpen(c) PROVE JobInv'
<1>1. /\ phase = "idle" /\ phase' = "query"
      /\ job' = [job EXCEPT !.kind = "delete", !.sel = marks # {}, !.cur = c]
      /\ UNCHANGED <<fs, here, base, dst, marks, skips, stack, ask, past>>
  BY DEF DeleteOpen
<1>2. job' \in JobType /\ job'.kind = "delete"
  <2>1. job \in JobType /\ (marks # {}) \in BOOLEAN
    BY DEF JobInv, Typed
  <2>. QED BY <1>1, <2>1 DEF JobType
<1>3. here' \in Path /\ marks' \subseteq Names
  BY <1>1 DEF JobInv, Typed
<1>. QED BY <1>1, <1>2, <1>3, IdleKeeps

LEMMA QyChooseKeeps == ASSUME JobInv, NEW yes \in BOOLEAN, QyChoose(yes) PROVE JobInv'
<1>1. phase = "query" /\ UNCHANGED <<fs, here, dst, marks, skips, stack, ask>>
  BY DEF QyChoose
<1>2. job.kind = "delete" /\ job \in JobType /\ here \in Path /\ base \in Path /\ dst \in Path /\ marks \subseteq Names
  BY <1>1 DEF JobInv, Course, Typed
<1>3. CASE yes
  <2>1. job' = [job EXCEPT !.dir = FALSE, !.pos = 1, !.skipErr = FALSE] /\ base' = base /\ JobRun
    BY <1>3 DEF QyChoose
  <2>2. 1 \in 1..Len(Order) + 1
    BY OrderNames
  <2>3. job' \in JobType /\ job'.kind = "delete"
    BY <1>2, <2>1, <2>2 DEF JobType
  <2>. QED BY <1>1, <1>2, <2>1, <2>3, BeginsKeep
<1>4. CASE ~yes
  <2>1. phase' = "idle" /\ UNCHANGED <<base, job, grp, past, budget>>
    BY <1>4 DEF QyChoose
  <2>. QED BY <1>1, <1>2, <2>1, IdleKeeps
<1>. QED BY <1>3, <1>4

LEMMA AgainKeeps == JobInv /\ Again => JobInv'
<1>. SUFFICES ASSUME JobInv, Again PROVE JobInv'
  OBVIOUS
<1>1. /\ phase = "over" /\ phase' = "idle" /\ here' \in Homes
      /\ marks' = IF here' = here THEN marks \cap Children(here) ELSE {}
      /\ UNCHANGED <<fs, base, dst, job, skips, stack, ask, past>>
  BY DEF Again
<1>2. here' \in Path /\ marks' \subseteq Names /\ job' \in JobType
  BY <1>1, PathsAssumption DEF JobInv, Typed
<1>. QED BY <1>1, <1>2, IdleKeeps

LEMMA NextKeeps == JobInv /\ [Next]_vars => JobInv'
<1>. SUFFICES ASSUME JobInv, [Next]_vars PROVE JobInv'
  OBVIOUS
<1>1. ASSUME NEW k \in Kinds \ {"delete"}, NEW c \in Names, NEW d \in Dests, OpConfirm(k, c, d)
      PROVE  JobInv'
  BY <1>1, OpConfirmKeeps
<1>2. ASSUME NEW c \in Names, DeleteOpen(c) PROVE JobInv'
  BY <1>2, DeleteOpenKeeps
<1>3. ASSUME NEW yes \in BOOLEAN, QyChoose(yes) PROVE JobInv'
  BY <1>3, QyChooseKeeps
<1>4. ASSUME NEW a \in {"skip", "skipall", "retry", "abort"}, FailAnswer(a) PROVE JobInv'
  BY <1>4, FailAnswerKeeps
<1>5. ASSUME NEW a \in {"yes", "no", "all", "none", "abort"}, DirAnswer(a) PROVE JobInv'
  BY <1>5, DirAnswerKeeps
<1>6. ASSUME NEW a \in {"yes", "no", "append", "zero", "all", "older", "none", "smaller", "size", "abort"},
             CfChoose(a)
      PROVE  JobInv'
  BY <1>6, CfChooseKeeps
<1>7. ASSUME NEW p \in Paths, Other(p) PROVE JobInv'
  BY <1>7, OtherKeeps
<1>8. CASE JobItem \/ JobEnd \/ Again \/ UNCHANGED vars
  BY <1>8, ItemKeeps, JobEndKeeps, AgainKeeps, UnchangedKeeps
<1>9. CASE DelTree \/ CopyTree \/ MakeDir \/ EachEntry \/ Entered \/ MoveDir \/ Copied
  BY <1>9, DelTreeKeeps, CopyTreeKeeps, MakeDirKeeps, EachEntryKeeps, EnteredKeeps, MoveDirKeeps, CopiedKeeps
<1>10. CASE Conflict \/ OpFile \/ Rename \/ CopyLink \/ OpenBoth \/ CopyData \/ EscTyped \/ UnlinkSource
  BY <1>10, ConflictKeeps, OpFileKeeps, RenameKeeps, CopyLinkKeeps, OpenBothKeeps, CopyDataKeeps,
     EscTypedKeeps, UnlinkSourceKeeps
<1>. QED BY <1>1, <1>2, <1>3, <1>4, <1>5, <1>6, <1>7, <1>8, <1>9, <1>10 DEF Next

LEMMA JobInvariant == Spec => []JobInv
<1>1. Init => JobInv
  BY InitInv
<1>2. JobInv /\ [Next]_vars => JobInv'
  BY NextKeeps
<1>. QED BY <1>1, <1>2, PTL DEF Spec

\* A job of mc (job_item and what it calls) changes its items, their places at the destination, and
\* what a link there named when the job began: never an item beside them, whatever fails, is
\* answered, or is made by another program meanwhile.
THEOREM ItemsOnly == Spec => []OnlyTheItems
<1>1. JobInv => OnlyTheItems
  BY DEF JobInv
<1>. QED BY <1>1, JobInvariant, PTL

\* A copy (leaf, copy_file) changes a file that was there, or that another program made there
\* meanwhile, only after an answer to the question of cf_open, or one that stands for it.
THEOREM AskedFirst == Spec => []KeepsUnasked
<1>1. JobInv => KeepsUnasked
  BY DEF JobInv
<1>. QED BY <1>1, JobInvariant, PTL

\* What is in a directory is deleted (del_tree) only after Yes or All was answered for the item it
\* is in.
THEOREM ApprovedFirst == Spec => []DeletesApproved
<1>1. JobInv => DeletesApproved
  BY DEF JobInv
<1>. QED BY <1>1, JobInvariant, PTL

=============================================================================
