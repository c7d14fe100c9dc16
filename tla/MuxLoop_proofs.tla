--------------------------- MODULE MuxLoop_proofs ---------------------------
(* Theorems about MuxLoop, for any number of slots, programs and keys, any  *)
(* timer and bound, with or without an observer and signals.                *)
EXTENDS MuxLoop, WellFoundedInduction, TLAPS

-----------------------------------------------------------------------------
(* The invariant, in parts.  m stands for mux, or for what a handler has    *)
(* made of it.                                                              *)

\* There is a window to show, or the last live one was closed.
Showing(m) == m.end \in {"no", "asked"} => m.cur \in Open(m)

\* No two windows have one pty; a window's pty is open.
OnePty(m) ==
  /\ \A i, j \in Open(m) : m.wins[i].prog = m.wins[j].prog => i = j
  /\ Programs(m) \subseteq m.masters

\* A window whose program got keys, or that "ESC [" is held for, was typed to.
Marked(m) ==
  \A i \in Open(m) : m.wins[i].pristine => m.wins[i].prog \notin m.own \cup {m.held}

\* What the programs and their ptys have to do with the table: a pty that is
\* open belongs to a window or its program has ended, and a dead window's has.
Processes ==
  /\ mux.own \subseteq running
  /\ mux.masters \cap running \subseteq Programs(mux) \cap slave
  /\ \A i \in Open(mux) \ Alive(mux) : mux.wins[i].prog \notin slave
  /\ zombies \cap running = {}

Typed == /\ mux \in Mux /\ scan \in Slot
         /\ running \subseteq Prog /\ slave \subseteq Prog

LoopInv == Typed /\ Showing(mux) /\ OnePty(mux) /\ Marked(mux) /\ Processes /\ OwnKept

-----------------------------------------------------------------------------
(* The table.                                                               *)

LEMMA FirstIn ==
  ASSUME NEW S \in SUBSET Slot, S # {}
  PROVE  First(S) \in S
<1>1. \E i \in S : \A j \in S : ~(<<j, i>> \in OpToRel(<, Nat))
  <2>1. S \subseteq Nat
    BY LoopAssumption DEF Slot
  <2>. QED BY <2>1, NatLessThanWellFounded, WFMin
<1>2. PICK i \in S : \A j \in S : ~(j < i)
  BY <1>1, LoopAssumption DEF OpToRel, Slot
<1>3. \A j \in S : i <= j
  BY <1>2, LoopAssumption DEF Slot
<1>. QED BY <1>3 DEF First

\* What the two operations on the table leave of m.
Same(m, n) == n.cur = m.cur /\ n.held = m.held /\ n.own = m.own /\ n.end = m.end

LEMMA CreatedIs ==
  ASSUME NEW m \in Mux, NEW i \in Slot, NEW g \in Prog
  PROVE  LET n == Created(m, i, g) IN
         /\ n \in Mux /\ Same(m, n)
         /\ n.masters = m.masters \cup {g}
         /\ Open(n) = Open(m) \cup {i}
         /\ n.wins[i].prog = g /\ n.wins[i].alive
         /\ \A j \in Slot \ {i} : n.wins[j] = m.wins[j]
<1> DEFINE n == Created(m, i, g)
           w == [prog |-> g, alive |-> TRUE, pristine |-> TRUE, app |-> FALSE]
<1>0. w \in Window
  BY DEF Window
<1>1. w # None
  BY <1>0, NoneAssumption
<1>2. n = [m EXCEPT !.wins = [m.wins EXCEPT ![i] = w], !.masters = m.masters \cup {g}]
  BY DEF Created
<1>3. n \in Mux
  <2>1. [m.wins EXCEPT ![i] = w] \in [Slot -> Window \cup {None}]
    BY <1>0 DEF Mux
  <2>2. m.masters \cup {g} \in SUBSET Prog
    BY DEF Mux
  <2>. QED BY <1>2, <2>1, <2>2 DEF Mux
<1>4. n.wins = [m.wins EXCEPT ![i] = w] /\ n.masters = m.masters \cup {g} /\ Same(m, n)
  BY <1>2 DEF Mux, Same
<1>5. n.wins[i] = w /\ \A j \in Slot \ {i} : n.wins[j] = m.wins[j]
  BY <1>4 DEF Mux
<1>6. Open(n) = Open(m) \cup {i}
  BY <1>1, <1>5 DEF Open
<1>. QED BY <1>3, <1>4, <1>5, <1>6

LEMMA FreedIs ==
  ASSUME NEW m \in Mux, NEW i \in Open(m)
  PROVE  LET n == Freed(m, i) IN
         /\ n \in Mux /\ Same(m, n)
         /\ n.masters = m.masters \ {m.wins[i].prog}
         /\ Open(n) = Open(m) \ {i}
         /\ \A j \in Open(n) : n.wins[j] = m.wins[j]
<1> DEFINE n == Freed(m, i)
<1>1. n = [m EXCEPT !.wins = [m.wins EXCEPT ![i] = None],
                    !.masters = m.masters \ {m.wins[i].prog}]
  BY DEF Freed
<1>2. n \in Mux
  <2>1. [m.wins EXCEPT ![i] = None] \in [Slot -> Window \cup {None}]
    BY DEF Mux
  <2>2. m.masters \ {m.wins[i].prog} \in SUBSET Prog
    BY DEF Mux
  <2>. QED BY <1>1, <2>1, <2>2 DEF Mux
<1>3. /\ n.wins = [m.wins EXCEPT ![i] = None]
      /\ n.masters = m.masters \ {m.wins[i].prog} /\ Same(m, n)
  BY <1>1 DEF Mux, Same
<1>4. n.wins[i] = None /\ \A j \in Slot \ {i} : n.wins[j] = m.wins[j]
  BY <1>3 DEF Mux, Open
<1>5. Open(n) = Open(m) \ {i}
  BY <1>4 DEF Open
<1>. QED BY <1>2, <1>3, <1>4, <1>5 DEF Open

\* A handler has made m of mux: the invariant still holds of the table and of
\* what was running, what is new is a live window's, and the process quits for
\* want of windows only without a live one, and did not draw without one.
Made(m) ==
  /\ m \in Mux /\ OnePty(m) /\ Marked(m)
  /\ m.own \subseteq Programs(m) \cap running
  /\ m.masters \cap running \subseteq Programs(m)
  /\ \A g \in m.masters \ mux.masters : g \in Programs(m) /\ g \notin running \cup zombies
  /\ \A i \in Open(m) \ Alive(m) : m.wins[i].prog \in mux.masters
  /\ mux.end = "no" /\ m.end = "empty" => Alive(m) = {}
  /\ mux.end \in {"no", "asked"} => m.end # "fault"

\* A dead window's program has let go of its pty.
DeadEnded(m) == \A i \in Open(m) \ Alive(m) : m.wins[i].prog \notin slave

LEMMA CreatedMade ==
  ASSUME NEW m, Made(m), NEW i \in Slot \ Open(m),
         NEW g \in Prog \ (m.masters \cup mux.masters \cup running \cup zombies \cup {m.held}),
         m.end = mux.end
  PROVE  Made(Created(m, i, g)) /\ (DeadEnded(m) => DeadEnded(Created(m, i, g)))
<1> DEFINE n == Created(m, i, g)
<1>1. /\ n \in Mux /\ Same(m, n)
      /\ n.masters = m.masters \cup {g}
      /\ Open(n) = Open(m) \cup {i}
      /\ n.wins[i].prog = g /\ n.wins[i].alive
      /\ \A j \in Slot \ {i} : n.wins[j] = m.wins[j]
  BY CreatedIs DEF Made
<1> HIDE DEF n
<1>2. \A j \in Open(m) : j \in Slot \ {i} /\ n.wins[j] = m.wins[j]
  BY <1>1 DEF Open
<1>3. Programs(n) = Programs(m) \cup {g}
  BY <1>1, <1>2 DEF Programs
<1>4. OnePty(n)
  BY <1>1, <1>2, <1>3 DEF OnePty, Made, Programs
<1>5. Marked(n)
  BY <1>1, <1>2 DEF Marked, Made, Same
<1>6. Open(n) \ Alive(n) = Open(m) \ Alive(m)
  BY <1>1, <1>2 DEF Alive
<1>7. Made(n)
  BY <1>1, <1>2, <1>3, <1>4, <1>5, <1>6 DEF Made, Same
<1>8. DeadEnded(m) => DeadEnded(n)
  BY <1>2, <1>6 DEF DeadEnded
<1>. QED BY <1>7, <1>8 DEF n

LEMMA FreedMade ==
  ASSUME NEW m, Made(m), NEW i \in Open(m), m.wins[i].prog \notin m.own
  PROVE  Made(Freed(m, i)) /\ (DeadEnded(m) => DeadEnded(Freed(m, i)))
<1> DEFINE n == Freed(m, i)
<1>1. /\ n \in Mux /\ Same(m, n)
      /\ n.masters = m.masters \ {m.wins[i].prog}
      /\ Open(n) = Open(m) \ {i}
      /\ \A j \in Open(n) : n.wins[j] = m.wins[j]
  BY FreedIs DEF Made
<1> HIDE DEF n
<1>2. Programs(n) = Programs(m) \ {m.wins[i].prog}
  BY <1>1 DEF Programs, Made, OnePty
<1>3. OnePty(n)
  BY <1>1, <1>2 DEF OnePty, Made
<1>4. Marked(n)
  BY <1>1 DEF Marked, Made, Same
<1>5. Alive(n) = Alive(m) \ {i}
  BY <1>1 DEF Alive
<1>6. Made(n)
  BY <1>1, <1>2, <1>3, <1>4, <1>5 DEF Made, Same
<1>7. DeadEnded(m) => DeadEnded(n)
  BY <1>1, <1>5 DEF DeadEnded
<1>. QED BY <1>6, <1>7 DEF n

\* A handler that leaves the table alone, and perhaps forgets who got keys.
LEMMA TableMade ==
  ASSUME NEW m, Made(m), NEW n \in Mux,
         n.wins = m.wins, n.masters = m.masters, n.own \subseteq m.own,
         n.held \in {m.held, None}, n.end = "empty" => m.end = "empty" \/ Alive(m) = {},
         n.end = "fault" => m.end = "fault" \/ mux.end \notin {"no", "asked"}
  PROVE  Made(n) /\ (DeadEnded(m) => DeadEnded(n))
<1>1. Open(n) = Open(m)
  BY DEF Open
<1>2. Alive(n) = Alive(m) /\ Programs(n) = Programs(m)
  BY <1>1 DEF Alive, Programs
<1>3. OnePty(n)
  BY <1>1, <1>2 DEF OnePty, Made
<1>4. Marked(n)
  <2>1. \A i \in Open(m) : m.wins[i].prog # None
    BY LoopAssumption DEF Made, Mux, Open, Window
  <2>. QED BY <1>1, <2>1 DEF Marked, Made
<1>5. DeadEnded(m) => DeadEnded(n)
  BY <1>1, <1>2 DEF DeadEnded
<1>6. Made(n)
  BY <1>1, <1>2, <1>3, <1>4 DEF Made
<1>. QED BY <1>5, <1>6

\* Drawing does no harm as long as the process has a window to show.
LEMMA RedrawnMade ==
  ASSUME NEW m, Made(m), mux.end \in {"no", "asked"} => m.cur \in Open(m), Showing(m)
  PROVE  LET n == Redrawn(m) IN
         /\ Made(n) /\ Showing(n) /\ n.own = m.own /\ n.masters = m.masters
         /\ DeadEnded(m) => DeadEnded(n)
<1>1. CASE m.cur \in Open(m)
  BY <1>1 DEF Redrawn
<1>2. CASE m.cur \notin Open(m)
  <2> DEFINE n == [m EXCEPT !.end = "fault"]
  <2>1. Redrawn(m) = n
    BY <1>2 DEF Redrawn
  <2>2. n \in Mux
    BY DEF Made, Mux
  <2>3. /\ n.wins = m.wins /\ n.masters = m.masters /\ n.own = m.own
        /\ n.held = m.held /\ n.end = "fault"
    BY DEF Made, Mux
  <2> HIDE DEF n
  <2>4. Made(n) /\ (DeadEnded(m) => DeadEnded(n))
    BY <1>2, <2>2, <2>3, TableMade
  <2>5. Showing(n)
    BY <2>3 DEF Showing
  <2>. QED BY <2>1, <2>3, <2>4, <2>5
<1>. QED BY <1>1, <1>2

LEMMA StatusRedrawnMade ==
  ASSUME NEW m, Made(m), mux.end \in {"no", "asked"} => m.cur \in Open(m), Showing(m)
  PROVE  LET n == StatusRedrawn(m) IN
         /\ Made(n) /\ Showing(n) /\ n.own = m.own /\ n.masters = m.masters
         /\ DeadEnded(m) => DeadEnded(n)
<1>1. CASE m.view
  BY <1>1, RedrawnMade DEF StatusRedrawn
<1>2. CASE ~m.view
  BY <1>2 DEF StatusRedrawn
<1>. QED BY <1>1, <1>2

\* What a fork may give: a name that nothing knows.
Fresh(m) == Prog \ (m.masters \cup mux.masters \cup running \cup zombies \cup {m.held})

LEMMA SwitchMade ==
  ASSUME NEW m, Made(m), NEW i, NEW g \in {None} \cup Fresh(m), g # None => m.end = mux.end
  PROVE  LET n == SwitchTo(m, i, g) IN
         /\ Made(n) /\ n.end = m.end /\ n.own = m.own
         /\ Showing(m) \/ i \in Open(m) => Showing(n)
         /\ DeadEnded(m) => DeadEnded(n)
<1> DEFINE n == SwitchTo(m, i, g)
           a == IF i \in Open(m) THEN m ELSE Created(m, i, g)
           b == IF m.cur # i /\ m.cur \in Open(m) /\ Shown(m).pristine
                THEN Freed(a, m.cur) ELSE a
<1>1. CASE i \notin Slot \/ (i \notin Open(m) /\ g = None)
  <2>1. n = m /\ i \notin Open(m)
    BY <1>1 DEF SwitchTo, Open
  <2>. QED BY <2>1
<1>2. CASE i \in Slot /\ (i \in Open(m) \/ g # None)
  <2> DEFINE c == [b EXCEPT !.cur = i, !.view = FALSE]
  <2>1. n = Redrawn(c)
    BY <1>2 DEF SwitchTo
  <2>2. Made(a) /\ (DeadEnded(m) => DeadEnded(a))
    <3>1. CASE i \in Open(m)
      BY <3>1
    <3>2. CASE i \notin Open(m)
      BY <1>2, <3>2, CreatedMade DEF Fresh
    <3>. QED BY <3>1, <3>2
  <2>3. /\ Same(m, a) /\ i \in Open(a) /\ Open(m) \subseteq Open(a)
        /\ m.cur # i /\ m.cur \in Open(m) => a.wins[m.cur] = m.wins[m.cur]
    <3>1. CASE i \in Open(m)
      BY <3>1 DEF Same
    <3>2. CASE i \notin Open(m)
      <4>1. m \in Mux /\ g \in Prog /\ m.cur \in Slot
        BY <1>2, <3>2 DEF Fresh, Made, Mux
      <4>. QED BY <1>2, <3>2, <4>1, CreatedIs
    <3>. QED BY <3>1, <3>2
  <2> HIDE DEF a
  <2>4. Made(b) /\ Same(m, b) /\ i \in Open(b) /\ (DeadEnded(m) => DeadEnded(b))
    <3>1. CASE m.cur # i /\ m.cur \in Open(m) /\ Shown(m).pristine
      <4>1. m.cur \in Open(a) /\ a.wins[m.cur].prog \notin a.own
        BY <2>3, <3>1 DEF Made, Marked, Shown, Same
      <4>2. Same(a, Freed(a, m.cur)) /\ i \in Open(Freed(a, m.cur))
        BY <2>2, <2>3, <3>1, <4>1, FreedIs DEF Made
      <4>3. Made(Freed(a, m.cur)) /\ (DeadEnded(m) => DeadEnded(Freed(a, m.cur)))
        BY <2>2, <4>1, FreedMade
      <4>. QED BY <2>3, <3>1, <4>2, <4>3 DEF Same
    <3>2. CASE ~(m.cur # i /\ m.cur \in Open(m) /\ Shown(m).pristine)
      BY <2>2, <2>3, <3>2
    <3>. QED BY <3>1, <3>2
  <2> HIDE DEF b
  <2>9. c \in Mux
    BY <1>2, <2>4 DEF Made, Mux
  <2>10. /\ c.wins = b.wins /\ c.masters = b.masters /\ c.cur = i
         /\ c.own = m.own /\ c.held = m.held /\ c.end = m.end
    BY <2>4 DEF Made, Mux, Same
  <2> HIDE DEF c
  <2>11. n = c
    BY <2>1, <2>4, <2>10 DEF Redrawn, Open
  <2>5. n \in Mux
    BY <2>9, <2>11
  <2>6. /\ n.wins = b.wins /\ n.masters = b.masters /\ n.cur = i
        /\ n.own = m.own /\ n.held = m.held /\ n.end = m.end
    BY <2>10, <2>11
  <2> HIDE DEF n
  <2>7. Made(n) /\ (DeadEnded(m) => DeadEnded(n))
    BY <2>4, <2>5, <2>6, TableMade DEF Same
  <2>8. Showing(n)
    BY <2>4, <2>6 DEF Showing, Open
  <2>. QED BY <2>6, <2>7, <2>8 DEF n
<1>. QED BY <1>1, <1>2

LEMMA ClosedMade ==
  ASSUME NEW m, Made(m), Showing(m), m.end = mux.end,
         NEW i \in Slot, i \in Open(m) => m.wins[i].prog \notin m.own
  PROVE  /\ Made(Closed(m, i)) /\ Showing(Closed(m, i)) /\ Closed(m, i).own = m.own
         /\ DeadEnded(m) => DeadEnded(Closed(m, i))
<1> DEFINE a == Freed(m, i)
<1>1. Made(a) /\ (DeadEnded(m) => DeadEnded(a)) /\ Same(m, a) /\ Open(a) = Open(m) \ {i}
  <2>1. CASE i \in Open(m)
    BY <2>1, FreedMade, FreedIs DEF Made
  <2>2. CASE i \notin Open(m)
    BY <2>2 DEF Freed, Same
  <2>. QED BY <2>1, <2>2
<1> HIDE DEF a
<1>2. CASE i # m.cur
  <2>1. Closed(m, i) = StatusRedrawn(a)
    BY <1>2 DEF Closed, a
  <2>2. Showing(a) /\ (mux.end \in {"no", "asked"} => a.cur \in Open(a))
    BY <1>1, <1>2 DEF Showing, Same
  <2>. QED BY <1>1, <2>1, <2>2, StatusRedrawnMade DEF Same
<1>3. CASE i = m.cur /\ Alive(a) # {}
  <2>1. Closed(m, i) = SwitchTo(a, First(Alive(a)), None)
    BY <1>3 DEF Closed, a
  <2>2. First(Alive(a)) \in Open(a)
    BY <1>3, FirstIn DEF Alive, Open
  <2>. QED BY <1>1, <2>1, <2>2, SwitchMade DEF Same
<1>4. CASE i = m.cur /\ Alive(a) = {}
  <2> DEFINE n == [a EXCEPT !.end = "empty"]
  <2>1. Closed(m, i) = n
    BY <1>4 DEF Closed, a
  <2>2. n \in Mux
    BY <1>1 DEF Made, Mux
  <2>3. /\ n.wins = a.wins /\ n.masters = a.masters /\ n.own = a.own
        /\ n.held = a.held /\ n.end = "empty"
    BY <1>1 DEF Made, Mux
  <2> HIDE DEF n
  <2>4. Made(n) /\ (DeadEnded(m) => DeadEnded(n))
    BY <1>1, <1>4, <2>2, <2>3, TableMade
  <2>5. Showing(n)
    BY <2>3 DEF Showing
  <2>. QED BY <1>1, <2>1, <2>3, <2>4, <2>5 DEF Same
<1>. QED BY <1>2, <1>3, <1>4

-----------------------------------------------------------------------------
(* Keys on their way to a program.                                          *)

\* The ptys of gs are written to: no window nobody typed to is among them.
LEMMA WrittenMade ==
  ASSUME NEW m, Made(m), NEW gs, NEW eof \in SUBSET mux.masters,
         \A i \in Open(m) : m.wins[i].pristine => m.wins[i].prog \notin gs
  PROVE  LET n == Written(m, gs, eof) IN
         /\ Made(n) /\ Open(n) = Open(m)
         /\ n.cur = m.cur /\ n.held = m.held /\ n.end = m.end /\ n.masters = m.masters
         /\ \A i \in Open(m) : /\ n.wins[i].prog = m.wins[i].prog
                               /\ n.wins[i].pristine = m.wins[i].pristine
<1> DEFINE n == Written(m, gs, eof)
           hit(i) == i \in Open(m) /\ m.wins[i].prog \in gs \cap eof
           wins == [i \in Slot |-> IF hit(i) THEN [m.wins[i] EXCEPT !.alive = FALSE]
                                   ELSE m.wins[i]]
           own == m.own \cup (gs \cap m.masters \cap running)
<1>1. n = [m EXCEPT !.wins = wins, !.own = own]
  BY DEF Written
<1>2. \A i \in Open(m) : m.wins[i] \in Window
  BY DEF Made, Mux, Open
<1>3. \A i \in Slot : hit(i) => /\ wins[i] = [m.wins[i] EXCEPT !.alive = FALSE]
                                /\ wins[i] \in Window /\ wins[i] # None
  <2> TAKE i \in Slot
  <2> HAVE hit(i)
  <2>1. wins[i] = [m.wins[i] EXCEPT !.alive = FALSE]
    OBVIOUS
  <2>2. m.wins[i] \in Window
    BY <1>2
  <2> HIDE DEF wins
  <2>3. wins[i] \in Window
    BY <2>1, <2>2 DEF Window
  <2>. QED BY <2>1, <2>3, NoneAssumption
<1>4. \A i \in Slot : ~hit(i) => wins[i] = m.wins[i]
  OBVIOUS
<1>5. \A i \in Open(m) : /\ wins[i].prog = m.wins[i].prog
                         /\ wins[i].pristine = m.wins[i].pristine
                         /\ wins[i].alive \/ m.wins[i].prog \in eof \/ ~m.wins[i].alive
                         /\ wins[i].alive => m.wins[i].alive
                         /\ wins[i] # None
  <2> TAKE i \in Open(m)
  <2>1. i \in Slot /\ m.wins[i] \in Window
    BY <1>2 DEF Open
  <2>2. CASE hit(i)
    BY <1>3, <2>1, <2>2 DEF Window
  <2>3. CASE ~hit(i)
    BY <1>4, <2>1, <2>3 DEF Open
  <2>. QED BY <2>2, <2>3
<1>6. wins \in [Slot -> Window \cup {None}]
  <2>1. ASSUME NEW i \in Slot PROVE wins[i] \in Window \cup {None}
    BY <1>3, <1>4 DEF Made, Mux
  <2>. QED BY <2>1
<1>7. own \in SUBSET Prog
  BY DEF Made, Mux
<1> HIDE DEF wins
<1>8. n \in Mux
  BY <1>1, <1>6, <1>7 DEF Made, Mux
<1>9. /\ n.wins = wins /\ n.own = own /\ n.cur = m.cur /\ n.held = m.held
      /\ n.end = m.end /\ n.masters = m.masters
  BY <1>1 DEF Made, Mux
<1> HIDE DEF n
<1>10. Open(n) = Open(m)
  <2>1. ASSUME NEW i \in Slot PROVE i \in Open(n) <=> i \in Open(m)
    BY <1>4, <1>5, <1>9 DEF Open
  <2>. QED BY <2>1 DEF Open
<1>11. Alive(n) \subseteq Alive(m) /\ Programs(n) = Programs(m)
  BY <1>5, <1>9, <1>10 DEF Alive, Programs
<1>12. OnePty(n)
  BY <1>5, <1>9, <1>10, <1>11 DEF OnePty, Made
<1>13. Marked(n)
  BY <1>5, <1>9, <1>10 DEF Marked, Made
<1>14. \A i \in Open(n) \ Alive(n) : n.wins[i].prog \in mux.masters
  BY <1>5, <1>9, <1>10 DEF Alive, Made
<1>15. Made(n)
  BY <1>8, <1>9, <1>11, <1>12, <1>13, <1>14 DEF Made
<1>. QED BY <1>5, <1>9, <1>10, <1>15 DEF n

LEMMA StdinKeysMade ==
  ASSUME NEW m, Made(m), Showing(m), m.cur \in Open(m), ~Shown(m).pristine, NEW bs,
         NEW eof \in SUBSET mux.masters
  PROVE  Made(StdinKeys(m, bs, eof)) /\ Showing(StdinKeys(m, bs, eof))
<1> DEFINE g == Shown(m).prog
           arrow == Shown(m).app /\ bs[1] = "A"
           held == IF m.held = None \/ arrow THEN {} ELSE {m.held}
           hold == Shown(m).app /\ bs = <<"esc", "[">>
           gs == held \cup (IF hold THEN {} ELSE {g})
           w == Written(m, gs, eof)
           n == [w EXCEPT !.held = IF hold THEN g ELSE None]
<1>1. StdinKeys(m, bs, eof) = n
  BY DEF StdinKeys
<1>2. \A i \in Open(m) : m.wins[i].pristine => m.wins[i].prog \notin gs
  <2>1. \A i \in Open(m) : m.wins[i].pristine => m.wins[i].prog # g
    BY DEF Made, OnePty, Shown
  <2>. QED BY <2>1 DEF Made, Marked
<1>3. /\ Made(w) /\ Open(w) = Open(m) /\ w.cur = m.cur /\ w.end = m.end
      /\ \A i \in Open(m) : /\ w.wins[i].prog = m.wins[i].prog
                            /\ w.wins[i].pristine = m.wins[i].pristine
  <2> HIDE DEF gs
  <2>. QED BY <1>2, WrittenMade
<1>4. g \in Prog
  BY DEF Made, Mux, Open, Window, Shown
<1> HIDE DEF w, g, hold
<1>5. n \in Mux
  BY <1>3, <1>4 DEF Made, Mux
<1>6. /\ n.wins = w.wins /\ n.masters = w.masters /\ n.own = w.own /\ n.end = w.end
      /\ n.cur = w.cur /\ n.held = IF hold THEN g ELSE None
  BY <1>3 DEF Made, Mux
<1> HIDE DEF n
<1>7. CASE ~hold
  <2>1. Made(n)
    BY <1>3, <1>5, <1>6, <1>7, TableMade DEF Made
  <2>. QED BY <1>1, <1>3, <1>6, <2>1 DEF Showing, Open
<1>8. CASE hold
  <2>1. Open(n) = Open(w)
    BY <1>6 DEF Open
  <2>2. Alive(n) = Alive(w) /\ Programs(n) = Programs(w)
    BY <1>6, <2>1 DEF Alive, Programs
  <2>3. \A i \in Open(n) : n.wins[i].pristine => n.wins[i].prog # g
    BY <1>3, <1>6, <2>1 DEF Made, OnePty, Shown, g
  <2>4. Marked(n)
    BY <1>3, <1>6, <1>8, <2>1, <2>3 DEF Made, Marked
  <2>5. OnePty(n)
    BY <1>3, <1>6, <2>1, <2>2 DEF Made, OnePty
  <2>6. Made(n)
    BY <1>3, <1>5, <1>6, <2>1, <2>2, <2>4, <2>5 DEF Made
  <2>. QED BY <1>1, <1>3, <1>6, <2>1, <2>6 DEF Showing
<1>. QED BY <1>7, <1>8

\* One window is changed, but not its pty: typed to, found dead, its cursor keys.
LEMMA WindowMade ==
  ASSUME NEW m, Made(m), NEW i \in Open(m), NEW w \in Window,
         w.prog = m.wins[i].prog, w.pristine => m.wins[i].pristine,
         w.alive => m.wins[i].alive, ~w.alive => w.prog \in mux.masters
  PROVE  LET n == [m EXCEPT !.wins = [m.wins EXCEPT ![i] = w]] IN
         /\ Made(n) /\ Open(n) = Open(m) /\ Same(m, n)
         /\ n.wins[i] = w
         /\ Showing(m) => Showing(n)
<1> DEFINE n == [m EXCEPT !.wins = [m.wins EXCEPT ![i] = w]]
<1>1. n \in Mux
  <2>1. [m.wins EXCEPT ![i] = w] \in [Slot -> Window \cup {None}]
    BY DEF Made, Mux
  <2>. QED BY <2>1 DEF Made, Mux
<1>2. /\ n.wins = [m.wins EXCEPT ![i] = w] /\ n.own = m.own /\ n.cur = m.cur
      /\ n.held = m.held /\ n.end = m.end /\ n.masters = m.masters
  BY DEF Made, Mux
<1> HIDE DEF n
<1>3. i \in Slot /\ n.wins[i] = w /\ w # None /\ \A j \in Slot \ {i} : n.wins[j] = m.wins[j]
  BY <1>2, NoneAssumption DEF Made, Mux, Open
<1>4. Open(n) = Open(m)
  BY <1>3 DEF Open
<1>5. \A j \in Open(m) : /\ n.wins[j].prog = m.wins[j].prog
                         /\ n.wins[j].pristine => m.wins[j].pristine
                         /\ n.wins[j].alive => m.wins[j].alive
                         /\ n.wins[j].alive \/ ~m.wins[j].alive \/ n.wins[j].prog \in mux.masters
  BY <1>3 DEF Open
<1>6. Alive(n) \subseteq Alive(m) /\ Programs(n) = Programs(m)
  BY <1>4, <1>5 DEF Alive, Programs
<1>7. OnePty(n)
  BY <1>2, <1>4, <1>5, <1>6 DEF OnePty, Made
<1>8. Marked(n)
  BY <1>2, <1>4, <1>5 DEF Marked, Made
<1>9. \A j \in Open(n) \ Alive(n) : n.wins[j].prog \in mux.masters
  BY <1>4, <1>5 DEF Alive, Made
<1>10. Made(n)
  BY <1>1, <1>2, <1>4, <1>6, <1>7, <1>8, <1>9 DEF Made
<1>11. Same(m, n) /\ (Showing(m) => Showing(n))
  BY <1>2, <1>4 DEF Same, Showing
<1>. QED BY <1>3, <1>4, <1>10, <1>11 DEF n

-----------------------------------------------------------------------------
(* The handlers, from a state of the loop.                                  *)

LEMMA InvMade ==
  ASSUME LoopInv
  PROVE  Made(mux)
<1>1. \A i \in Open(mux) \ Alive(mux) : mux.wins[i].prog \in mux.masters
  BY DEF LoopInv, OnePty, Programs
<1>. QED BY <1>1 DEF LoopInv, Typed, Processes, OwnKept, Made

LEMMA LuckIs ==
  ASSUME NEW luck \in Luck
  PROVE  luck.fresh \in {None} \cup Fresh(mux) /\ luck.eof \in SUBSET mux.masters
BY DEF Luck, Unknown, Fresh

\* Enter in a dead window: what ended there had been the user's, and is no more.
LEMMA RespawnMade ==
  ASSUME LoopInv, mux.cur \in Open(mux), ~Shown(mux).alive, NEW g \in Fresh(mux), NEW n,
         n = [mux EXCEPT !.wins[mux.cur] = [@ EXCEPT !.prog = g, !.alive = TRUE, !.app = FALSE],
                         !.masters = @ \cup {g}]
  PROVE  Made(n) /\ Showing(n)
<1> DEFINE i == mux.cur
           w == [mux.wins[i] EXCEPT !.prog = g, !.alive = TRUE, !.app = FALSE]
<1>1. mux \in Mux /\ i \in Open(mux) /\ i \in Slot /\ g \in Prog
  BY DEF LoopInv, Typed, Mux, Fresh
<1>2. mux.wins[i] \in Window
  BY <1>1 DEF Mux, Open
<1>3. w \in Window /\ w.prog = g /\ w.alive /\ w.pristine = mux.wins[i].pristine
  BY <1>1, <1>2 DEF Window
<1>4. n = [mux EXCEPT !.wins = [mux.wins EXCEPT ![i] = w], !.masters = mux.masters \cup {g}]
  OBVIOUS
<1> HIDE DEF w
<1>5. n \in Mux
  <2>1. [mux.wins EXCEPT ![i] = w] \in [Slot -> Window \cup {None}]
    BY <1>1, <1>3 DEF Mux
  <2>2. mux.masters \cup {g} \in SUBSET Prog
    BY <1>1 DEF Mux
  <2>. QED BY <1>1, <1>4, <2>1, <2>2 DEF Mux
<1>6. /\ n.wins = [mux.wins EXCEPT ![i] = w] /\ n.masters = mux.masters \cup {g}
      /\ n.own = mux.own /\ n.cur = i /\ n.held = mux.held /\ n.end = mux.end
  BY <1>1, <1>4 DEF Mux
<1>7. n.wins[i] = w /\ w # None /\ \A j \in Slot \ {i} : n.wins[j] = mux.wins[j]
  BY <1>1, <1>3, <1>6, NoneAssumption DEF Mux
<1>8. Open(n) = Open(mux)
  BY <1>1, <1>7 DEF Open
<1>9. Programs(n) = (Programs(mux) \ {mux.wins[i].prog}) \cup {g}
  BY <1>1, <1>3, <1>7, <1>8 DEF Programs, LoopInv, OnePty, Open
<1>10. mux.wins[i].prog \notin running \cup mux.own
  BY <1>1 DEF LoopInv, Processes, OnePty, Shown, Alive, Programs
<1>11. g \notin mux.own /\ g # mux.held /\ g \notin running \cup zombies \cup mux.masters
  BY DEF Fresh, LoopInv, Processes
<1>12. OnePty(n)
  BY <1>1, <1>3, <1>6, <1>7, <1>8, <1>9, <1>11 DEF OnePty, LoopInv, Programs, Open
<1>13. Marked(n)
  BY <1>3, <1>6, <1>7, <1>8, <1>11 DEF Marked, LoopInv, Open
<1>14. \A j \in Open(n) \ Alive(n) : n.wins[j].prog \in mux.masters
  BY <1>3, <1>7, <1>8 DEF Alive, LoopInv, OnePty, Programs, Open
<1>15. \A h \in n.masters \ mux.masters : h \in Programs(n) /\ h \notin running \cup zombies
  BY <1>6, <1>9, <1>11
<1>16. /\ n.own \subseteq Programs(n) \cap running
       /\ n.masters \cap running \subseteq Programs(n)
  BY <1>6, <1>9, <1>10, <1>11 DEF LoopInv, Processes, OwnKept
<1>17. Made(n)
  BY <1>5, <1>6, <1>12, <1>13, <1>14, <1>15, <1>16 DEF Made
<1>. QED BY <1>1, <1>6, <1>8, <1>17 DEF Showing

LEMMA ToActiveMade ==
  ASSUME LoopInv, NEW bs, NEW luck \in Luck
  PROVE  Made(ToActive(mux, bs, luck)) /\ Showing(ToActive(mux, bs, luck))
<1>1. Made(mux) /\ Showing(mux) /\ mux \in Mux
  BY InvMade DEF LoopInv, Typed
<1>2. luck.fresh \in {None} \cup Fresh(mux) /\ luck.eof \in SUBSET mux.masters
  BY LuckIs
<1>3. CASE mux.cur \in Open(mux) /\ Shown(mux).alive
  <2> DEFINE w == [mux.wins[mux.cur] EXCEPT !.pristine = FALSE]
             n == [mux EXCEPT !.wins[mux.cur].pristine = FALSE]
  <2>1. mux.wins[mux.cur] \in Window
    BY <1>1, <1>3 DEF Mux, Open
  <2>2. /\ w \in Window /\ w.prog = mux.wins[mux.cur].prog /\ ~w.pristine /\ w.alive
        /\ mux.wins[mux.cur].alive
    BY <1>3, <2>1 DEF Window, Shown
  <2>3. n = [mux EXCEPT !.wins = [mux.wins EXCEPT ![mux.cur] = w]]
    OBVIOUS
  <2>4. ToActive(mux, bs, luck) = StdinKeys(n, bs, luck.eof)
    BY <1>3 DEF ToActive
  <2> HIDE DEF w, n
  <2>5. /\ Made(n) /\ Open(n) = Open(mux) /\ Same(mux, n) /\ Showing(n)
        /\ n.wins[mux.cur] = w
    BY <1>1, <1>3, <2>2, <2>3, WindowMade
  <2>6. n.cur \in Open(n) /\ ~Shown(n).pristine
    BY <1>3, <2>2, <2>5 DEF Same, Shown
  <2>. QED BY <1>2, <2>4, <2>5, <2>6, StdinKeysMade
<1>4. CASE /\ mux.cur \in Open(mux) /\ ~Shown(mux).alive
           /\ luck.fresh # None /\ \E k \in DOMAIN bs : bs[k] = "cr"
  <2> DEFINE n == [mux EXCEPT !.wins[mux.cur] = [@ EXCEPT !.prog = luck.fresh,
                                                           !.alive = TRUE, !.app = FALSE],
                              !.masters = @ \cup {luck.fresh}]
  <2>1. ToActive(mux, bs, luck) = Redrawn(n)
    BY <1>4 DEF ToActive
  <2>2. Made(n) /\ Showing(n) /\ n.end = mux.end
    BY <1>1, <1>2, <1>4, RespawnMade DEF Mux
  <2> HIDE DEF n
  <2>3. mux.end \in {"no", "asked"} => n.cur \in Open(n)
    BY <2>2 DEF Showing
  <2>. QED BY <2>1, <2>2, <2>3, RedrawnMade
<1>5. CASE \/ mux.cur \notin Open(mux)
           \/ /\ ~Shown(mux).alive
              /\ ~(luck.fresh # None /\ \E k \in DOMAIN bs : bs[k] = "cr")
  BY <1>1, <1>5 DEF ToActive
<1>. QED BY <1>3, <1>4, <1>5

LEMMA HandledMade ==
  ASSUME LoopInv, NEW ev, NEW luck \in Luck
  PROVE  Made(Handled(mux, ev, luck)) /\ Showing(Handled(mux, ev, luck))
<1> DEFINE n == Handled(mux, ev, luck)
<1>1. Made(mux) /\ Showing(mux) /\ mux \in Mux
  BY InvMade DEF LoopInv, Typed
<1>2. luck.fresh \in {None} \cup Fresh(mux)
  BY LuckIs
<1>3. \A i : Made(SwitchTo(mux, i, luck.fresh)) /\ Showing(SwitchTo(mux, i, luck.fresh))
  BY <1>1, <1>2, SwitchMade
<1>4. CASE ev.cmd = "pass"
  BY <1>4, ToActiveMade DEF Handled
<1>5. CASE ev.cmd \in {"select", "next", "prev", "new"}
  BY <1>1, <1>3, <1>5 DEF Handled
<1>6. CASE ev.cmd = "close"
  <2> DEFINE m == [mux EXCEPT !.own = @ \ IF mux.cur \in Open(mux) THEN {Shown(mux).prog} ELSE {}]
  <2>1. n = Closed(m, mux.cur)
    BY <1>6 DEF Handled
  <2>2. m \in Mux
    BY <1>1 DEF Mux
  <2>3. /\ m.wins = mux.wins /\ m.masters = mux.masters /\ m.held = mux.held
        /\ m.end = mux.end /\ m.cur = mux.cur /\ m.own \subseteq mux.own
        /\ mux.cur \in Open(mux) => Shown(mux).prog \notin m.own
    BY <1>1 DEF Mux
  <2> HIDE DEF m
  <2>4. Made(m)
    BY <1>1, <2>2, <2>3, TableMade
  <2>5. Showing(m) /\ Open(m) = Open(mux)
    BY <1>1, <2>3 DEF Showing, Open
  <2>6. mux.cur \in Slot
    BY <1>1 DEF Mux
  <2>7. mux.cur \in Open(m) => m.wins[mux.cur].prog \notin m.own
    BY <2>3, <2>5 DEF Shown
  <2>. QED BY <2>1, <2>3, <2>4, <2>5, <2>6, <2>7, ClosedMade
<1>7. CASE ev.cmd \in {"scroll", "quit", "detach"}
  <2>1. /\ n \in Mux /\ n.wins = mux.wins /\ n.masters = mux.masters /\ n.held = mux.held
        /\ n.cur = mux.cur /\ n.own = mux.own
        /\ \/ n.end \in {mux.end, "detach"}
           \/ n.end = "asked" /\ mux.end = "no"
    BY <1>1, <1>7 DEF Handled, Mux
  <2>2. Made(n)
    BY <1>1, <2>1, TableMade
  <2>3. Showing(n)
    BY <1>1, <2>1 DEF Showing, Open
  <2>. QED BY <2>2, <2>3
<1>8. CASE ev.cmd = "redraw"
  <2>1. n = Redrawn(mux)
    BY <1>8 DEF Handled
  <2>2. mux.end \in {"no", "asked"} => mux.cur \in Open(mux)
    BY <1>1 DEF Showing
  <2>. QED BY <1>1, <2>1, <2>2, RedrawnMade
<1>9. CASE ev.cmd \notin {"pass", "select", "next", "prev", "new", "close",
                          "scroll", "redraw", "quit", "detach"}
  BY <1>1, <1>9 DEF Handled
<1>. QED BY <1>4, <1>5, <1>6, <1>7, <1>8, <1>9

LEMMA KeysFlushedMade ==
  ASSUME NEW m, Made(m), Showing(m), NEW eof \in SUBSET mux.masters
  PROVE  Made(KeysFlushed(m, eof)) /\ Showing(KeysFlushed(m, eof))
<1>1. CASE m.held = None
  BY <1>1 DEF KeysFlushed
<1>2. CASE m.held # None
  <2> DEFINE gs == {m.wins[i].prog : i \in Alive(m)} \cap {m.held}
             w == Written(m, gs, eof)
             n == [w EXCEPT !.held = None]
  <2>1. KeysFlushed(m, eof) = n
    BY <1>2 DEF KeysFlushed
  <2>2. \A i \in Open(m) : m.wins[i].pristine => m.wins[i].prog \notin gs
    BY DEF Made, Marked
  <2> HIDE DEF gs
  <2>3. Made(w) /\ Open(w) = Open(m) /\ w.cur = m.cur /\ w.end = m.end
    BY <2>2, WrittenMade
  <2> HIDE DEF w
  <2>4. n \in Mux
    BY <2>3 DEF Made, Mux
  <2>5. /\ n.wins = w.wins /\ n.masters = w.masters /\ n.own = w.own /\ n.end = w.end
        /\ n.cur = w.cur /\ n.held = None
    BY <2>3 DEF Made, Mux
  <2> HIDE DEF n
  <2>6. Made(n)
    BY <2>3, <2>4, <2>5, TableMade
  <2>7. Showing(n)
    BY <2>3, <2>5 DEF Showing, Open
  <2>. QED BY <2>1, <2>6, <2>7
<1>. QED BY <1>1, <1>2

-----------------------------------------------------------------------------
(* The steps.                                                               *)

\* EmptyQuits and CurOpen, of one step.
QuitsHonestly == /\ mux.end = "no" /\ mux'.end = "empty" => mux'.own = {}
                 /\ mux.end \in {"no", "asked"} => mux'.end # "fault"

\* The table is what a handler made of it, and who runs is known.
LEMMA StepInv ==
  ASSUME LoopInv, NEW m, Made(m), Showing(m),
         mux'.own \subseteq m.own, mux' = [m EXCEPT !.own = mux'.own],
         scan' \in Slot, running' \subseteq Prog, slave' \subseteq Prog,
         mux'.own \subseteq running',
         running' \subseteq running \cup (m.masters \ mux.masters),
         m.masters \cap running' \subseteq slave',
         DeadEnded(mux)', zombies' \cap running' = {}
  PROVE  LoopInv' /\ QuitsHonestly
<1> DEFINE n == mux'
<1>1. /\ n.wins = m.wins /\ n.masters = m.masters /\ n.held = m.held
      /\ n.end = m.end /\ n.cur = m.cur
  BY DEF Made, Mux
<1>2. n \in Mux
  <2>1. mux'.own \in SUBSET Prog
    BY DEF Made, Mux
  <2>. QED BY <2>1 DEF Made, Mux
<1>3. Made(n)
  BY <1>1, <1>2, TableMade DEF Made
<1>4. Open(n) = Open(m) /\ Alive(n) = Alive(m) /\ Programs(n) = Programs(m)
  BY <1>1 DEF Open, Alive, Programs
<1>5. Showing(n)
  BY <1>1, <1>4 DEF Showing
<1>6. n.masters \cap running' \subseteq Programs(n)
  BY <1>1, <1>4 DEF Made
<1>7. Typed' /\ Showing(mux)' /\ OnePty(mux)' /\ Marked(mux)' /\ OwnKept'
  BY <1>2, <1>3, <1>5 DEF Typed, Made, OwnKept, LoopInv
<1>8. Processes'
  BY <1>1, <1>6 DEF Processes, DeadEnded
<1>9. QuitsHonestly
  <2>0. mux.end \in {"no", "asked"} => n.end # "fault"
    BY <1>3 DEF Made
  <2> SUFFICES ASSUME mux.end = "no", n.end = "empty", NEW g \in n.own
               PROVE  FALSE
    BY <2>0 DEF QuitsHonestly
  <2>1. PICK i \in Open(n) : n.wins[i].prog = g
    BY <1>3 DEF Made, Programs
  <2>2. i \notin Alive(n)
    BY <1>3 DEF Made
  <2>3. g \notin slave'
    BY <2>1, <2>2 DEF DeadEnded
  <2>4. g \in n.masters
    BY <1>3, <2>1 DEF Made, OnePty, Programs
  <2>. QED BY <1>1, <2>3, <2>4
<1>. QED BY <1>7, <1>8, <1>9 DEF LoopInv

LEMMA BecomesInv ==
  ASSUME LoopInv, NEW m, Made(m), Showing(m), Becomes(m), scan' \in Slot
  PROVE  LoopInv' /\ QuitsHonestly
<1> DEFINE new == m.masters \ mux.masters
           gone == {m.wins[i].prog : i \in Open(m) \ Alive(m)} \cap slave
<1>1. /\ mux' = [m EXCEPT !.own = m.own \ gone]
      /\ running' = (running \cup new) \ gone
      /\ slave' = ((slave \cap m.masters) \cup new) \ gone
      /\ zombies' = zombies \cup (gone \cap kids \cap running)
  BY DEF Becomes
<1>2. mux'.own = m.own \ gone /\ mux'.wins = m.wins
  BY <1>1 DEF Made, Mux
<1>3. mux.masters \cap running \subseteq slave /\ zombies \cap running = {}
  BY DEF LoopInv, Processes
<1>4. \A i \in Open(m) \ Alive(m) : m.wins[i].prog \notin new
  BY DEF Made
<1>5. \A i \in Open(m) \ Alive(m) : m.wins[i].prog \notin slave'
  BY <1>1, <1>4
<1>6. running' \subseteq Prog /\ slave' \subseteq Prog
  BY <1>1 DEF LoopInv, Typed, Made, Mux
<1>7. \A g \in new : g \notin running \cup zombies
  BY DEF Made
<1> HIDE DEF gone
<1>8. mux'.own \subseteq running' /\ running' \subseteq running \cup new
  BY <1>1, <1>2 DEF Made
<1>9. m.masters \cap running' \subseteq slave'
  BY <1>1, <1>3
<1>10. zombies' \cap running' = {}
  BY <1>1, <1>3, <1>7
<1>11. DeadEnded(mux)'
  BY <1>2, <1>5 DEF DeadEnded, Open, Alive
<1>. QED BY <1>1, <1>2, <1>6, <1>8, <1>9, <1>10, <1>11, StepInv

\* The table stays as it is; programs may end, or let go of their pty.
LEMMA QuietInv ==
  ASSUME LoopInv, scan' \in Slot, UNCHANGED mux, running' = running,
         slave' \subseteq slave, slave \cap running \subseteq slave', UNCHANGED zombies
  PROVE  LoopInv' /\ QuitsHonestly
<1>1. Made(mux) /\ Showing(mux)
  BY InvMade DEF LoopInv
<1>2. mux' = [mux EXCEPT !.own = mux'.own]
  BY DEF LoopInv, Typed, Mux
<1>3. /\ running' \subseteq Prog /\ slave' \subseteq Prog /\ mux'.own \subseteq running'
      /\ mux.masters \cap running' \subseteq slave' /\ zombies' \cap running' = {}
  BY DEF LoopInv, Typed, Processes
<1>4. DeadEnded(mux)'
  BY DEF LoopInv, Processes, DeadEnded
<1>. QED BY <1>1, <1>2, <1>3, <1>4, StepInv

\* The loop has closed a window, and let go of the ptys that are closed.
LEMMA ClosingInv ==
  ASSUME LoopInv, NEW m, Made(m), Showing(m), DeadEnded(m), mux' = m, scan' \in Slot,
         UNCHANGED running, slave' = slave \cap mux'.masters, zombies' \subseteq zombies
  PROVE  LoopInv' /\ QuitsHonestly
<1>1. mux' = [m EXCEPT !.own = mux'.own]
  BY DEF Made, Mux
<1>2. /\ mux'.own \subseteq running' /\ running' \subseteq Prog /\ slave' \subseteq Prog
      /\ zombies' \cap running' = {}
  BY DEF Made, LoopInv, Typed, Processes
<1>3. m.masters \cap running' \subseteq slave'
  BY DEF Made, LoopInv, Processes
<1>4. DeadEnded(mux)'
  BY DEF DeadEnded
<1>. QED BY <1>1, <1>2, <1>3, <1>4, StepInv

LEMMA ReapInv == LoopInv /\ Reap => LoopInv' /\ QuitsHonestly
<1> SUFFICES ASSUME LoopInv, Reap
             PROVE  LoopInv' /\ QuitsHonestly
  OBVIOUS
<1> DEFINE at(z) == {i \in Open(mux) : mux.wins[i].prog = z}
<1>1. PICK z \in zombies :
        /\ mux' = IF at(z) = {} THEN mux ELSE Closed(mux, First(at(z)))
        /\ slave' = slave \cap mux'.masters
        /\ zombies' = zombies \ {z}
  BY DEF Reap
<1>2. UNCHANGED <<running, scan>>
  BY DEF Reap
<1>3. Made(mux) /\ Showing(mux) /\ DeadEnded(mux)
  BY InvMade DEF LoopInv, Processes, DeadEnded
<1>4. Made(mux') /\ Showing(mux') /\ DeadEnded(mux')
  <2>1. CASE at(z) = {}
    BY <1>1, <1>3, <2>1
  <2>2. CASE at(z) # {}
    <3>1. First(at(z)) \in at(z) /\ First(at(z)) \in Slot
      BY <2>2, FirstIn DEF Open
    <3>2. z \notin mux.own
      BY DEF LoopInv, Processes
    <3>. QED BY <1>1, <1>3, <2>2, <3>1, <3>2, ClosedMade
  <2>. QED BY <2>1, <2>2
<1>5. scan' \in Slot
  BY <1>2 DEF LoopInv, Typed
<1> HIDE DEF at
<1>. QED BY <1>1, <1>2, <1>4, <1>5, ClosingInv

LEMMA ScanInv == LoopInv /\ Scan => LoopInv' /\ QuitsHonestly
<1> SUFFICES ASSUME LoopInv, Scan
             PROVE  LoopInv' /\ QuitsHonestly
  OBVIOUS
<1>1. /\ UNCHANGED <<running, zombies>> /\ slave' = slave \cap mux'.masters
      /\ scan \in Slot /\ mux \in Mux
  BY DEF Scan, LoopInv, Typed
<1>2. scan' \in Slot
  BY LoopAssumption, <1>1 DEF Scan, Slot
<1>3. Made(mux) /\ Showing(mux) /\ DeadEnded(mux)
  BY InvMade DEF LoopInv, Processes, DeadEnded
<1>4. CASE UNCHANGED mux
  BY <1>1, <1>2, <1>3, <1>4, ClosingInv
<1>5. CASE scan \in Open(mux) /\ mux' # mux
  <2> DEFINE w == mux.wins[scan]
  <2>1. w \in Window /\ w.prog \in mux.masters
    BY <1>1, <1>5 DEF Mux, Open, LoopInv, OnePty, Programs
  <2>2. CASE w.alive /\ w.prog \in slave
    <3>1. PICK b \in BOOLEAN : mux' = [mux EXCEPT !.wins[scan].app = b]
      BY <1>5, <2>2 DEF Scan
    <3> DEFINE v == [w EXCEPT !.app = b]
    <3>2. v \in Window /\ v.prog = w.prog /\ v.pristine = w.pristine /\ v.alive
      BY <2>1, <2>2 DEF Window
    <3>3. mux' = [mux EXCEPT !.wins = [mux.wins EXCEPT ![scan] = v]]
      BY <3>1
    <3> HIDE DEF v
    <3>4. Made(mux') /\ Showing(mux') /\ Open(mux') = Open(mux) /\ mux'.wins[scan] = v
      BY <1>3, <1>5, <2>2, <3>2, <3>3, WindowMade
    <3>5. \A j \in Slot \ {scan} : mux'.wins[j] = mux.wins[j]
      BY <1>1, <3>3 DEF Mux
    <3>6. DeadEnded(mux')
      BY <1>3, <3>2, <3>4, <3>5 DEF DeadEnded, Alive, Open
    <3>. QED BY <1>1, <1>2, <3>4, <3>6, ClosingInv
  <2>3. CASE ~(w.alive /\ w.prog \in slave)
    <3> DEFINE v == [w EXCEPT !.alive = FALSE]
               m == [mux EXCEPT !.wins[scan].alive = FALSE]
    <3>1. mux' = Closed(m, scan)
      BY <1>5, <2>3 DEF Scan
    <3>2. v \in Window /\ v.prog = w.prog /\ v.pristine = w.pristine /\ ~v.alive
      BY <2>1 DEF Window
    <3>3. m = [mux EXCEPT !.wins = [mux.wins EXCEPT ![scan] = v]]
      OBVIOUS
    <3>4. w.prog \notin slave /\ w.prog \notin mux.own
      BY <1>3, <1>5, <2>1, <2>3 DEF DeadEnded, Alive, LoopInv, Processes
    <3> HIDE DEF v, m
    <3>5. /\ Made(m) /\ Showing(m) /\ Open(m) = Open(mux) /\ m.wins[scan] = v
          /\ Same(mux, m)
      BY <1>3, <1>5, <2>1, <3>2, <3>3, WindowMade
    <3>6. \A j \in Slot \ {scan} : m.wins[j] = mux.wins[j]
      BY <1>1, <3>3 DEF Mux
    <3>7. DeadEnded(m)
      BY <1>3, <3>2, <3>4, <3>5, <3>6 DEF DeadEnded, Alive, Open
    <3>8. m.wins[scan].prog \notin m.own
      BY <3>2, <3>4, <3>5 DEF Same
    <3>9. Made(mux') /\ Showing(mux') /\ DeadEnded(mux')
      BY <1>1, <3>1, <3>5, <3>7, <3>8, ClosedMade DEF Same
    <3>. QED BY <1>1, <1>2, <3>9, ClosingInv
  <2>. QED BY <2>2, <2>3
<1>. QED BY <1>4, <1>5 DEF Scan

LEMMA FlushesInv ==
  ASSUME LoopInv, NEW next, Flushes(next)
  PROVE  LoopInv' /\ QuitsHonestly
<1> DEFINE m(luck) == IF fsm = "esc" THEN Handled(mux, Pass(<<"esc">>), luck) ELSE mux
<1>1. PICK luck \in Luck : Becomes(KeysFlushed(m(luck), luck.eof)) /\ UNCHANGED scan
  BY DEF Flushes
<1>2. Made(m(luck)) /\ Showing(m(luck))
  BY HandledMade, InvMade DEF LoopInv
<1>3. Made(KeysFlushed(m(luck), luck.eof)) /\ Showing(KeysFlushed(m(luck), luck.eof))
  BY <1>2, KeysFlushedMade, LuckIs
<1>4. scan' \in Slot
  BY <1>1 DEF LoopInv, Typed
<1>. QED BY <1>1, <1>3, <1>4, BecomesInv

LEMMA ObserverKeysInv == LoopInv /\ ObserverKeys => LoopInv' /\ QuitsHonestly
<1> SUFFICES ASSUME LoopInv, ObserverKeys
             PROVE  LoopInv' /\ QuitsHonestly
  OBVIOUS
<1>1. Made(mux) /\ Showing(mux) /\ mux \in Mux
  BY InvMade DEF LoopInv, Typed
<1>2. scan' \in Slot
  BY LoopAssumption DEF ObserverKeys, Slot
<1>3. CASE mux.cur \notin Alive(mux)
  BY <1>1, <1>2, <1>3, BecomesInv DEF ObserverKeys
<1>4. CASE mux.cur \in Alive(mux)
  <2> DEFINE g == Shown(mux).prog
             w == [mux.wins[mux.cur] EXCEPT !.pristine = FALSE]
             m == [mux EXCEPT !.wins[mux.cur].pristine = FALSE]
  <2>1. PICK luck \in Luck : Becomes(Written(m, {g}, luck.eof))
    BY <1>4 DEF ObserverKeys
  <2>2. mux.cur \in Open(mux) /\ mux.wins[mux.cur] \in Window /\ mux.wins[mux.cur].alive
    BY <1>1, <1>4 DEF Alive, Open, Mux
  <2>3. w \in Window /\ w.prog = mux.wins[mux.cur].prog /\ ~w.pristine /\ w.alive
    BY <2>2 DEF Window
  <2>4. m = [mux EXCEPT !.wins = [mux.wins EXCEPT ![mux.cur] = w]]
    OBVIOUS
  <2> HIDE DEF w, m
  <2>5. /\ Made(m) /\ Showing(m) /\ Open(m) = Open(mux) /\ m.wins[mux.cur] = w
    BY <1>1, <2>2, <2>3, <2>4, WindowMade
  <2>6. \A i \in Open(m) : m.wins[i].pristine => m.wins[i].prog \notin {g}
    BY <2>2, <2>3, <2>5 DEF Made, OnePty, Shown
  <2>7. /\ Made(Written(m, {g}, luck.eof)) /\ Open(Written(m, {g}, luck.eof)) = Open(m)
        /\ Written(m, {g}, luck.eof).cur = m.cur /\ Written(m, {g}, luck.eof).end = m.end
    BY <2>5, <2>6, LuckIs, WrittenMade
  <2>8. Showing(Written(m, {g}, luck.eof))
    BY <2>5, <2>7 DEF Showing
  <2>. QED BY <1>2, <2>1, <2>7, <2>8, BecomesInv
<1>. QED BY <1>3, <1>4

\* The shown window, or the view of its history, has been drawn.
LEMMA DrawnInv ==
  ASSUME LoopInv, NEW m, Made(m), Showing(m), DeadEnded(m), mux' = m,
         m.masters = mux.masters, m.own = mux.own,
         UNCHANGED <<running, slave, zombies>>, scan' \in Slot
  PROVE  LoopInv' /\ QuitsHonestly
<1>1. mux' = [m EXCEPT !.own = mux'.own]
  BY DEF Made, Mux
<1>2. /\ running' \subseteq Prog /\ slave' \subseteq Prog /\ mux'.own \subseteq running'
      /\ m.masters \cap running' \subseteq slave' /\ zombies' \cap running' = {}
  BY InvMade DEF LoopInv, Typed, Processes
<1>3. DeadEnded(mux)'
  BY DEF DeadEnded
<1>. QED BY <1>1, <1>2, <1>3, StepInv

LEMMA ViewKeyInv == LoopInv /\ ViewKey => LoopInv' /\ QuitsHonestly
<1> SUFFICES ASSUME LoopInv, ViewKey
             PROVE  LoopInv' /\ QuitsHonestly
  OBVIOUS
<1> DEFINE n == [mux EXCEPT !.view = FALSE]
<1>1. UNCHANGED <<running, slave, zombies, scan>> /\ scan' \in Slot
  BY DEF ViewKey, progVars, LoopInv, Typed
<1>2. /\ Made(mux) /\ Showing(mux) /\ DeadEnded(mux) /\ mux \in Mux
      /\ mux.end \in {"no", "asked"} => mux.cur \in Open(mux)
  BY InvMade DEF LoopInv, Processes, DeadEnded, Typed, Showing
<1>3. CASE UNCHANGED mux
  BY <1>1, <1>3, QuietInv
<1>4. CASE mux' = Redrawn(mux)
  BY <1>1, <1>2, <1>4, RedrawnMade, DrawnInv
<1>5. CASE mux' = Redrawn(n)
  <2>1. /\ n \in Mux /\ n.wins = mux.wins /\ n.masters = mux.masters
        /\ n.own = mux.own /\ n.held = mux.held /\ n.end = mux.end
        /\ n.cur = mux.cur
    BY <1>2 DEF Mux
  <2> HIDE DEF n
  <2>2. Made(n) /\ DeadEnded(n)
    BY <1>2, <2>1, TableMade
  <2>3. Showing(n) /\ (mux.end \in {"no", "asked"} => n.cur \in Open(n))
    BY <1>2, <2>1 DEF Showing, Open
  <2>. QED BY <1>1, <1>5, <2>1, <2>2, <2>3, RedrawnMade, DrawnInv
<1>. QED BY <1>3, <1>4, <1>5 DEF ViewKey

LEMMA ClockTickInv == LoopInv /\ ClockTick => LoopInv' /\ QuitsHonestly
<1> SUFFICES ASSUME LoopInv, ClockTick
             PROVE  LoopInv' /\ QuitsHonestly
  OBVIOUS
<1>1. /\ Made(mux) /\ Showing(mux) /\ DeadEnded(mux)
      /\ mux.end \in {"no", "asked"} => mux.cur \in Open(mux)
  BY InvMade DEF LoopInv, Processes, DeadEnded, Typed, Showing
<1>2. /\ UNCHANGED <<running, slave, zombies>> /\ scan' \in Slot
      /\ mux' = StatusRedrawn(mux)
  BY DEF ClockTick, progVars, LoopInv, Typed
<1>. QED BY <1>1, <1>2, StatusRedrawnMade, DrawnInv

\* At the top of a round that is not the last there is a window to draw.
LEMMA TopInv == LoopInv /\ Top => LoopInv' /\ QuitsHonestly
<1> SUFFICES ASSUME LoopInv, Top
             PROVE  LoopInv' /\ QuitsHonestly
  OBVIOUS
<1>1. UNCHANGED <<running, slave, zombies>> /\ scan' \in Slot
  BY DEF Top, progVars, LoopInv, Typed
<1>2. UNCHANGED mux
  BY DEF Top, LoopInv, Showing, Redrawn
<1>. QED BY <1>1, <1>2, QuietInv

LEMMA ExitsInv ==
  ASSUME LoopInv, NEW g \in Prog, Exits(g)
  PROVE  LoopInv' /\ QuitsHonestly
<1>1. /\ mux' = [mux EXCEPT !.own = @ \ {g}] /\ running' = running \ {g}
      /\ UNCHANGED <<slave, scan>> /\ zombies' \subseteq zombies \cup {g}
  BY DEF Exits, loopVars
<1>2. /\ Made(mux) /\ Showing(mux) /\ DeadEnded(mux) /\ mux \in Mux
      /\ mux.masters \cap running \subseteq slave /\ mux.own \subseteq running
  BY InvMade DEF LoopInv, Processes, DeadEnded, Typed
<1>3. mux'.own = mux.own \ {g} /\ mux'.wins = mux.wins
  BY <1>1, <1>2 DEF Mux
<1>4. DeadEnded(mux)'
  BY <1>1, <1>2, <1>3 DEF DeadEnded, Open, Alive
<1>5. /\ running' \subseteq Prog /\ slave' \subseteq Prog /\ mux'.own \subseteq running'
      /\ mux.masters \cap running' \subseteq slave' /\ zombies' \cap running' = {}
      /\ scan' \in Slot
  BY <1>1, <1>2, <1>3 DEF LoopInv, Typed, Processes
<1>. QED BY <1>1, <1>2, <1>3, <1>4, <1>5, StepInv

LEMMA TerminatedInv == LoopInv /\ Terminated => LoopInv' /\ QuitsHonestly
<1> SUFFICES ASSUME LoopInv, Terminated
             PROVE  LoopInv' /\ QuitsHonestly
  OBVIOUS
<1>1. /\ mux' = [mux EXCEPT !.end = "asked"] /\ UNCHANGED <<running, slave, zombies, scan>>
      /\ mux.end = "no"
  BY DEF Terminated, progVars
<1>2. /\ Made(mux) /\ Showing(mux) /\ DeadEnded(mux) /\ mux \in Mux
      /\ mux.masters \cap running \subseteq slave /\ mux.own \subseteq running
  BY InvMade DEF LoopInv, Processes, DeadEnded, Typed
<1>3. /\ mux' \in Mux /\ mux'.wins = mux.wins /\ mux'.masters = mux.masters
      /\ mux'.own = mux.own /\ mux'.held = mux.held /\ mux'.end = "asked"
      /\ mux'.cur = mux.cur
  BY <1>1, <1>2 DEF Mux
<1>4. Made(mux') /\ DeadEnded(mux') /\ Showing(mux')
  <2>1. Made(mux') /\ DeadEnded(mux')
    BY <1>2, <1>3, TableMade
  <2>. QED BY <1>1, <1>2, <1>3, <2>1 DEF Showing, Open
<1>5. mux' = [mux' EXCEPT !.own = mux'.own]
  BY <1>3 DEF Mux
<1>6. /\ running' \subseteq Prog /\ slave' \subseteq Prog /\ mux'.own \subseteq running'
      /\ mux'.masters \cap running' \subseteq slave' /\ zombies' \cap running' = {}
      /\ DeadEnded(mux)' /\ scan' \in Slot
  BY <1>1, <1>2, <1>3, <1>4 DEF LoopInv, Typed, Processes, DeadEnded
<1>. QED BY <1>1, <1>4, <1>5, <1>6, StepInv

LEMMA LoopInit == Init => LoopInv
<1> SUFFICES ASSUME Init
             PROVE  LoopInv
  OBVIOUS
<1>1. PICK S \in SUBSET Slot, f \in [Slot -> Prog], c \in Slot, fresh \in BOOLEAN,
           pristine \in SUBSET Slot, app \in SUBSET Slot :
        /\ c \in S
        /\ \A i, j \in S : f[i] = f[j] => i = j
        /\ fresh => c = 0 /\ \A i \in S, j \in Slot : j < i => j \in S
        /\ IF fresh THEN pristine \subseteq S /\ app = {} ELSE pristine = {} /\ app \subseteq S
        /\ mux = [wins |-> [i \in Slot |->
                    IF i \in S THEN [prog |-> f[i], alive |-> TRUE, pristine |-> i \in pristine,
                                           app |-> i \in app]
                    ELSE None],
                 cur |-> c, view |-> FALSE, held |-> None,
                 masters |-> {f[i] : i \in S}, own |-> {}, end |-> "no"]
        /\ kids = IF fresh THEN {f[i] : i \in S} ELSE {}
        /\ running \in SUBSET {f[i] : i \in S}
        /\ fresh => running = kids
  BY DEF Init
<1>2. slave = running /\ zombies = {} /\ scan = 0
  BY DEF Init
<1> DEFINE w(i) == [prog |-> f[i], alive |-> TRUE, pristine |-> i \in pristine, app |-> i \in app]
<1>3. \A i \in S : w(i) \in Window /\ w(i) # None /\ w(i).prog = f[i] /\ w(i).alive
  <2> TAKE i \in S
  <2>1. w(i) \in Window
    BY <1>1 DEF Window
  <2>. QED BY <2>1, NoneAssumption
<1>4. mux.wins = [i \in Slot |-> IF i \in S THEN w(i) ELSE None]
  BY <1>1
<1>5. /\ mux.cur = c /\ mux.held = None /\ mux.masters = {f[i] : i \in S} /\ mux.own = {}
      /\ mux.view = FALSE /\ mux.end = "no"
  BY <1>1
<1>6. mux \in Mux
  <2>1. [i \in Slot |-> IF i \in S THEN w(i) ELSE None] \in [Slot -> Window \cup {None}]
    BY <1>3
  <2>2. {f[i] : i \in S} \in SUBSET Prog
    BY <1>1
  <2> HIDE DEF w
  <2>. QED BY <1>1, <2>1, <2>2 DEF Mux, w
<1> HIDE DEF w
<1>7. Open(mux) = S /\ \A i \in S : mux.wins[i] = w(i)
  BY <1>1, <1>3, <1>4 DEF Open
<1>8. Alive(mux) = S /\ Programs(mux) = {f[i] : i \in S}
  BY <1>3, <1>7 DEF Alive, Programs
<1>9. \A i \in S : f[i] # None
  BY <1>1, LoopAssumption
<1>10. Showing(mux) /\ OnePty(mux) /\ Marked(mux) /\ OwnKept
  <2>1. Showing(mux) /\ OwnKept
    BY <1>1, <1>5, <1>7 DEF Showing, OwnKept
  <2>2. \A i, j \in Open(mux) : mux.wins[i].prog = mux.wins[j].prog => i = j
    <3>1. \A i \in S : mux.wins[i].prog = f[i]
      BY <1>3, <1>7
    <3>2. \A i, j \in S : f[i] = f[j] => i = j
      BY <1>1
    <3>. QED BY <1>7, <3>1, <3>2
  <2>3. Marked(mux)
    BY <1>3, <1>5, <1>7, <1>9 DEF Marked
  <2>4. OnePty(mux)
    BY <1>5, <1>8, <2>2 DEF OnePty
  <2>. QED BY <2>1, <2>3, <2>4
<1>11. Processes
  BY <1>1, <1>2, <1>5, <1>7, <1>8 DEF Processes
<1>12. Typed
  BY <1>1, <1>2, <1>6, LoopAssumption DEF Typed, Slot
<1>. QED BY <1>10, <1>11, <1>12 DEF LoopInv

LEMMA LoopNext == LoopInv /\ [Next]_vars => LoopInv' /\ QuitsHonestly
<1> SUFFICES ASSUME LoopInv, [Next]_vars
             PROVE  LoopInv' /\ QuitsHonestly
  OBVIOUS
<1> USE DEF progVars, envVars, keyVars, loopVars
<1>0. scan \in Slot /\ 0 \in Slot
  BY LoopAssumption DEF LoopInv, Typed, Slot
<1>1. CASE Top
  BY <1>1, TopInv
<1>2. CASE Reap
  BY <1>2, ReapInv
<1>3. CASE ReapEnd
  BY <1>0, <1>3, QuietInv DEF ReapEnd
<1>4. CASE FlushNow
  BY <1>4, FlushesInv DEF FlushNow
<1>5. CASE Sleep
  BY <1>0, <1>5, QuietInv DEF Sleep, SelectFor
<1>6. CASE Interrupted
  BY <1>0, <1>6, QuietInv DEF Interrupted
<1>7. CASE FlushAfter
  BY <1>0, <1>7, QuietInv, FlushesInv DEF FlushAfter
<1>8. CASE NoObserver
  BY <1>0, <1>8, QuietInv DEF NoObserver
<1>9. CASE Scan
  BY <1>9, ScanInv
<1>10. CASE Stdin
  BY <1>0, <1>10, QuietInv DEF Stdin
<1>11. CASE ViewKey
  BY <1>11, ViewKeyInv
<1>12. CASE KeyByte
  <2>1. PICK luck \in Luck : Becomes(Handled(mux, EventOf(fsm, Head(batch)), luck))
    BY <1>12 DEF KeyByte
  <2>2. scan' \in Slot
    BY <1>0, <1>12 DEF KeyByte
  <2>. QED BY <2>1, <2>2, HandledMade, BecomesInv
<1>13. CASE KeysEnd
  BY <1>0, <1>13, QuietInv DEF KeysEnd
<1>14. CASE Type
  BY <1>0, <1>14, QuietInv DEF Type
<1>15. CASE ObserverKeys
  BY <1>15, ObserverKeysInv
<1>16. CASE ObserverCommand
  <2>1. PICK ev, luck : luck \in Luck /\ Becomes(Handled(mux, ev, luck))
    BY <1>16 DEF ObserverCommand
  <2>2. scan' \in Slot
    BY <1>0, <1>16 DEF ObserverCommand
  <2>. QED BY <2>1, <2>2, HandledMade, BecomesInv
<1>17. CASE HangUp
  BY <1>0, <1>17, QuietInv DEF HangUp
<1>18. CASE Terminated
  BY <1>18, TerminatedInv
<1>19. ASSUME NEW g \in Prog, Exits(g) PROVE LoopInv' /\ QuitsHonestly
  BY <1>19, ExitsInv
<1>20. ASSUME NEW g \in Prog, Lets(g) PROVE LoopInv' /\ QuitsHonestly
  BY <1>0, <1>20, QuietInv DEF Lets
<1>21. CASE ClockTick
  BY <1>21, ClockTickInv
<1>22. CASE UNCHANGED vars
  BY <1>0, <1>22, QuietInv DEF vars
<1>. QED
  BY <1>1, <1>2, <1>3, <1>4, <1>5, <1>6, <1>7, <1>8, <1>9, <1>10, <1>11, <1>12, <1>13, <1>14,
     <1>15, <1>16, <1>17, <1>18, <1>19, <1>20, <1>21, <1>22
  DEF Next, Round, Environment

-----------------------------------------------------------------------------
LEMMA LoopInvariant == Spec => []LoopInv
BY LoopInit, LoopNext, PTL DEF Spec

\* Whatever closes or switches windows, after every step of a round there is one
\* to show, until the last live one is closed or the session detached; and until
\* then no handler draws a window that is not there, whatever it or another has
\* closed and switched before it draws.
THEOREM AlwaysShown == Spec => CurOpen
<1>1. LoopInv /\ [Next]_vars => LoopInv' /\ [QuitsHonestly]_vars
  BY LoopNext
<1>2. LoopInv' => (mux'.end \in {"no", "asked"} => mux'.cur \in Open(mux'))
  BY DEF LoopInv, Showing
<1>3. LoopInv' /\ [QuitsHonestly]_vars
        => [/\ mux'.end \in {"no", "asked"} => mux'.cur \in Open(mux')
            /\ mux.end \in {"no", "asked"} => mux'.end # "fault"]_vars
  BY <1>2 DEF QuitsHonestly
<1>. QED BY <1>1, <1>3, LoopInvariant, PTL DEF Spec, CurOpen

\* A program that runs and got keys never loses its window but on request.
THEOREM ProgramsKept == Spec => []OwnKept
<1>1. LoopInv => OwnKept
  BY DEF LoopInv
<1>. QED BY <1>1, LoopInvariant, PTL

\* The loop gives up for want of windows only when no such program is left.
THEOREM QuitsEmpty == Spec => EmptyQuits
<1>1. LoopInv /\ [Next]_vars => [QuitsHonestly]_vars
  BY LoopNext
<1>2. [QuitsHonestly]_vars => [mux.end = "no" /\ mux'.end = "empty" => mux'.own = {}]_vars
  BY DEF QuitsHonestly
<1>. QED BY <1>1, <1>2, LoopInvariant, PTL DEF Spec, EmptyQuits
=============================================================================
