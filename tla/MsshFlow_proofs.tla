---------------------------- MODULE MsshFlow_proofs ----------------------------
(* Theorems about what flows through an ssh channel of MsshChannel, by the   *)
(* conversation of MsshTalk_proofs.  First, that the windows of both sides   *)
(* are kept and given back: they count the bytes and the grants.  Then what  *)
(* a channel is for: the input and the output each go through a pipe (Pipe), *)
(* complete and in order, with the end after all of it, whatever the         *)
(* windows, the sizes of the packets, and the key exchanges and requests in  *)
(* between.  They number the items: a message that carries some begins where *)
(* the one before it ended.                                                  *)
EXTENDS MsshTalk_proofs, WellFoundedInduction

-----------------------------------------------------------------------------
(* Sums of sequences of numbers, by induction on their length.               *)

LEMMA Least ==
  ASSUME NEW S, S \subseteq Nat, S # {}
  PROVE  \E n \in S : \A m \in S : n <= m
<1>1. PICK R : R = OpToRel(<, Nat)
  OBVIOUS
<1>2. IsWellFoundedOn(R, Nat)
  BY <1>1, NatLessThanWellFounded
<1>3. PICK n \in S : \A m \in S : ~(<<m, n>> \in R)
  BY <1>2, WFMin
<1>4. R = {ss \in Nat \X Nat : ss[1] < ss[2]}
  BY <1>1 DEF OpToRel
<1>5. \A x, y \in Nat : x < y => <<x, y>> \in R
  BY <1>4, Zenon
<1>6. ASSUME NEW m \in S PROVE n <= m
  <2>1. n \in Nat /\ m \in Nat /\ ~(m < n)
    BY ONLY <1>3, <1>5, n \in S, m \in S, S \subseteq Nat
  <2>. QED BY ONLY <2>1
<1>. QED BY <1>6

LEMMA ByInduction ==
  ASSUME NEW S, 0 \in S, \A n \in Nat : n \in S => n + 1 \in S
  PROVE  Nat \subseteq S
<1> SUFFICES ASSUME NEW T, T = Nat \ S, T # {} PROVE FALSE
  OBVIOUS
<1>1. PICK n \in T : \A m \in T : n <= m
  BY Least
<1>2. n # 0 /\ n \in Nat /\ n - 1 \in Nat
  OBVIOUS
<1>3. n - 1 \in S /\ n - 1 + 1 = n
  BY <1>1, <1>2
<1>. QED BY <1>2, <1>3

\* f is the running total of the first n numbers of l.
Totals(l, n, f) ==
  /\ f = [i \in 0..n |-> f[i]] /\ f[0] = 0
  /\ \A i \in 1..n : f[i] = f[i - 1] + l[i]
SumOf(l) == (CHOOSE f : Totals(l, Len(l), f))[Len(l)]

LEMMA TotalsExist ==
  ASSUME NEW l \in Seq(Nat)
  PROVE  \E f : Totals(l, Len(l), f) /\ \A i \in 0..Len(l) : f[i] \in Nat
<1> DEFINE N == Len(l)
           S == {n \in Nat : n <= N =>
                    \E f : Totals(l, n, f) /\ \A i \in 0..n : f[i] \in Nat}
<1>1. N \in Nat /\ \A i \in 1..N : l[i] \in Nat
  OBVIOUS
<1> HIDE DEF N
<1>2. 0 \in S
  <2>1. Totals(l, 0, [i \in 0..0 |-> 0])
    BY DEF Totals
  <2>2. \A i \in 0..0 : [j \in 0..0 |-> 0][i] \in Nat
    OBVIOUS
  <2>. QED BY <2>1, <2>2
<1>3. ASSUME NEW n \in Nat, n \in S PROVE n + 1 \in S
  <2>1. CASE n + 1 <= N
    <3>1. PICK f : Totals(l, n, f) /\ \A i \in 0..n : f[i] \in Nat
      BY <1>1, <1>3, <2>1
    <3>2. n + 1 \in 1..N /\ l[n + 1] \in Nat
      BY <1>1, <2>1
    <3> DEFINE g == [i \in 0..n + 1 |-> IF i = n + 1 THEN f[n] + l[n + 1] ELSE f[i]]
    <3>3. g[n + 1] = f[n] + l[n + 1] /\ \A i \in 0..n : g[i] = f[i]
      OBVIOUS
    <3>4. g = [i \in 0..n + 1 |-> g[i]]
      OBVIOUS
    <3> HIDE DEF g
    <3>5. \A i \in 0..n + 1 : g[i] \in Nat
      <4>1. g[n + 1] \in Nat
        BY <3>1, <3>2, <3>3
      <4>2. \A i \in 0..n : g[i] \in Nat
        BY <3>1, <3>3
      <4>. QED BY <4>1, <4>2
    <3>6. g[0] = 0
      <4>1. 0 \in 0..n
        OBVIOUS
      <4>2. g[0] = f[0]
        BY <3>3, <4>1
      <4>. QED BY <3>1, <4>2 DEF Totals
    <3>7. ASSUME NEW i \in 1..n + 1 PROVE g[i] = g[i - 1] + l[i]
      <4>1. CASE i = n + 1
        BY <3>3, <4>1
      <4>2. CASE i # n + 1
        <5>1. i \in 1..n /\ i \in 0..n /\ i - 1 \in 0..n
          BY <4>2
        <5>. QED BY <3>1, <3>3, <5>1 DEF Totals
      <4>. QED BY <4>1, <4>2
    <3>8. Totals(l, n + 1, g)
      BY <3>4, <3>6, <3>7 DEF Totals
    <3>. QED BY <3>5, <3>8
  <2>. QED BY <2>1
<1>4. Nat \subseteq S
  <2> HIDE DEF S
  <2>. QED BY <1>2, <1>3, ByInduction
<1>5. N \in S
  BY <1>1, <1>4
<1>. QED BY <1>1, <1>5 DEF N

LEMMA TotalsUnique ==
  ASSUME NEW l, NEW n \in Nat, NEW f, NEW g, Totals(l, n, f), Totals(l, n, g)
  PROVE  f = g
<1> DEFINE S == {i \in Nat : i <= n => f[i] = g[i]}
<1>1. 0 \in S
  BY DEF Totals
<1>2. ASSUME NEW i \in Nat, i \in S PROVE i + 1 \in S
  <2>1. CASE i + 1 <= n
    <3>1. i + 1 \in 1..n /\ i <= n /\ (i + 1) - 1 = i
      BY <2>1
    <3>2. f[i + 1] = f[i] + l[i + 1] /\ g[i + 1] = g[i] + l[i + 1]
      BY <3>1 DEF Totals
    <3>. QED BY <1>2, <3>1, <3>2
  <2>. QED BY <2>1
<1>3. Nat \subseteq S
  <2> HIDE DEF S
  <2>. QED BY <1>1, <1>2, ByInduction
<1>4. \A i \in 0..n : f[i] = g[i]
  BY <1>3
<1>. QED BY <1>4 DEF Totals

LEMMA SumIs ==
  ASSUME NEW l \in Seq(Nat), NEW f, Totals(l, Len(l), f)
  PROVE  SumOf(l) = f[Len(l)] /\ SumOf(l) \in Nat
<1>1. Len(l) \in Nat /\ Len(l) \in 0..Len(l)
  OBVIOUS
<1>2. PICK h : Totals(l, Len(l), h) /\ \A i \in 0..Len(l) : h[i] \in Nat
  BY TotalsExist
<1> DEFINE g == CHOOSE x : Totals(l, Len(l), x)
<1>3. Totals(l, Len(l), g)
  BY <1>2
<1>4. SumOf(l) = g[Len(l)]
  BY DEF SumOf
<1> HIDE DEF g
<1>5. f = g /\ f = h
  BY <1>1, <1>2, <1>3, TotalsUnique
<1>. QED BY <1>1, <1>2, <1>4, <1>5

LEMMA SumJoined ==
  ASSUME NEW l \in Seq(Nat), NEW m \in Seq(Nat)
  PROVE  /\ SumOf(l \o m) = SumOf(l) + SumOf(m)
         /\ SumOf(l) \in Nat /\ SumOf(m) \in Nat
<1>1. PICK f : Totals(l, Len(l), f) /\ \A i \in 0..Len(l) : f[i] \in Nat
  BY TotalsExist
<1>2. PICK g : Totals(m, Len(m), g) /\ \A i \in 0..Len(m) : g[i] \in Nat
  BY TotalsExist
<1>3. SumOf(l) = f[Len(l)] /\ SumOf(m) = g[Len(m)] /\ SumOf(l) \in Nat /\ SumOf(m) \in Nat
  BY <1>1, <1>2, SumIs
<1>4. /\ l \o m \in Seq(Nat) /\ Len(l) \in Nat /\ Len(m) \in Nat
      /\ Len(l \o m) = Len(l) + Len(m)
      /\ \A i \in 1..Len(l) : (l \o m)[i] = l[i]
      /\ \A i \in Len(l) + 1 .. Len(l) + Len(m) : (l \o m)[i] = m[i - Len(l)]
  BY Joined
<1> DEFINE h == [i \in 0 .. Len(l) + Len(m) |->
                   IF i <= Len(l) THEN f[i] ELSE f[Len(l)] + g[i - Len(l)]]
<1>5. h = [i \in 0 .. Len(l) + Len(m) |-> h[i]]
  OBVIOUS
<1>6. \A i \in 0 .. Len(l) + Len(m) :
         h[i] = IF i <= Len(l) THEN f[i] ELSE f[Len(l)] + g[i - Len(l)]
  OBVIOUS
<1> HIDE DEF h
<1>7. f[0] = 0 /\ g[0] = 0
  BY <1>1, <1>2 DEF Totals
<1>8. h[0] = 0
  BY <1>4, <1>6, <1>7
<1>9. ASSUME NEW i \in 1 .. Len(l) + Len(m)
      PROVE  h[i] = h[i - 1] + (l \o m)[i]
  <2>0. /\ i \in 0 .. Len(l) + Len(m) /\ i - 1 \in 0 .. Len(l) + Len(m)
        /\ i <= Len(l) \/ i = Len(l) + 1 \/ i > Len(l) + 1
    <3>1. Len(l) \in Nat /\ Len(m) \in Nat /\ i \in 1 .. Len(l) + Len(m)
      BY <1>4
    <3>. QED BY ONLY <3>1
  <2>1. CASE i <= Len(l)
    <3>1. i \in 1..Len(l) /\ i - 1 <= Len(l)
      BY <1>4, <2>1
    <3>2. f[i] = f[i - 1] + l[i]
      BY <1>1, <3>1 DEF Totals
    <3>. QED BY <1>4, <1>6, <2>0, <2>1, <3>1, <3>2
  <2>2. CASE i = Len(l) + 1
    <3>1. /\ i - 1 = Len(l) /\ i - Len(l) = 1 /\ 1 \in 1..Len(m) /\ i \in Len(l) + 1 .. Len(l) + Len(m)
          /\ ~(i <= Len(l)) /\ i - 1 <= Len(l)
      BY <1>4, <2>2
    <3>2. g[1] = g[0] + m[1]
      <4>1. g[1] = g[1 - 1] + m[1]
        BY <1>2, <3>1 DEF Totals
      <4>. QED BY <4>1
    <3>3. m[1] \in Nat
      BY <3>1
    <3>4. h[i] = f[Len(l)] + g[1] /\ h[i - 1] = f[Len(l)] /\ (l \o m)[i] = m[1]
      BY <1>4, <1>6, <2>0, <3>1
    <3>. QED BY <1>3, <1>7, <3>2, <3>3, <3>4
  <2>3. CASE i > Len(l) + 1
    <3> DEFINE j == i - Len(l)
    <3>1. /\ j \in 1..Len(m) /\ j - 1 \in 0..Len(m) /\ j \in 0..Len(m) /\ j - 1 = (i - 1) - Len(l)
          /\ i \in Len(l) + 1 .. Len(l) + Len(m) /\ ~(i <= Len(l)) /\ ~(i - 1 <= Len(l))
      BY <1>4, <2>3
    <3>2. h[i] = f[Len(l)] + g[j] /\ h[i - 1] = f[Len(l)] + g[j - 1] /\ (l \o m)[i] = m[j]
      BY <1>4, <1>6, <2>0, <3>1
    <3> HIDE DEF j
    <3>3. g[j] = g[j - 1] + m[j]
      BY <1>2, <3>1 DEF Totals
    <3>4. g[j] \in Nat /\ g[j - 1] \in Nat /\ m[j] \in Nat
      BY <1>2, <3>1, SMTT(30)
    <3>. QED BY <1>3, <3>2, <3>3, <3>4, SMTT(30)
  <2>. QED BY <2>0, <2>1, <2>2, <2>3
<1>10. Totals(l \o m, Len(l \o m), h)
  BY <1>4, <1>5, <1>8, <1>9 DEF Totals
<1>11. SumOf(l \o m) = h[Len(l \o m)]
  BY <1>4, <1>10, SumIs
<1>12. h[Len(l) + Len(m)] = f[Len(l)] + g[Len(m)]
  <2>1. CASE Len(m) = 0
    BY <1>3, <1>4, <1>6, <1>7, <2>1
  <2>2. CASE Len(m) # 0
    <3>1. /\ Len(l) + Len(m) \in 0 .. Len(l) + Len(m) /\ ~(Len(l) + Len(m) <= Len(l))
          /\ (Len(l) + Len(m)) - Len(l) = Len(m)
      BY <1>4, <2>2
    <3>. QED BY <1>6, <3>1
  <2>. QED BY <2>1, <2>2
<1>. QED BY <1>3, <1>4, <1>11, <1>12

LEMMA SumZero ==
  ASSUME NEW l \in Seq(Nat), \A i \in 1..Len(l) : l[i] = 0
  PROVE  SumOf(l) = 0
<1> DEFINE f == [i \in 0..Len(l) |-> 0]
<1>1. Len(l) \in Nat
  OBVIOUS
<1>2. f = [i \in 0..Len(l) |-> f[i]] /\ \A i \in 0..Len(l) : f[i] = 0
  OBVIOUS
<1> HIDE DEF f
<1>3. ASSUME NEW i \in 1..Len(l) PROVE f[i] = f[i - 1] + l[i]
  <2>1. i \in 0..Len(l) /\ i - 1 \in 0..Len(l)
    BY <1>1
  <2>. QED BY <1>2, <2>1
<1>4. f[0] = 0 /\ f[Len(l)] = 0
  BY <1>1, <1>2
<1>5. Totals(l, Len(l), f)
  BY <1>2, <1>3, <1>4 DEF Totals
<1>. QED BY <1>4, <1>5, SumIs

LEMMA SumOne ==
  ASSUME NEW n \in Nat
  PROVE  SumOf(<<n>>) = n
<1> DEFINE f == [i \in 0..1 |-> IF i = 0 THEN 0 ELSE n]
<1>1. <<n>> \in Seq(Nat) /\ Len(<<n>>) = 1 /\ <<n>>[1] = n
  OBVIOUS
<1>2. f = [i \in 0..1 |-> f[i]] /\ f[0] = 0 /\ f[1] = n
  OBVIOUS
<1> HIDE DEF f
<1>3. ASSUME NEW i \in 1..1 PROVE f[i] = f[i - 1] + <<n>>[i]
  <2>1. i = 1 /\ i - 1 = 0
    OBVIOUS
  <2>. QED BY <1>1, <1>2, <2>1
<1>4. Totals(<<n>>, 1, f)
  BY <1>2, <1>3 DEF Totals
<1>. QED BY <1>1, <1>2, <1>4, SumIs

-----------------------------------------------------------------------------
(* What messages weigh.                                                      *)

Goods == {"DATA", "EXT_DATA", "ADJUST"}
LoadOf(m, types) ==
  IF m[1] \notin types THEN 0 ELSE IF m[1] = "ADJUST" THEN m[2] ELSE Len(m[2])
Loads(q, types) == [i \in 1..Len(q) |-> LoadOf(q[i], types)]
Weight(q, types) == SumOf(Loads(q, types))

LEMMA LoadNat ==
  ASSUME NEW m \in Messages, NEW T, T \subseteq Goods
  PROVE  LoadOf(m, T) \in Nat
BY Carries DEF LoadOf, Goods

LEMMA LoadsAre ==
  ASSUME NEW q \in Seq(Messages), NEW T, T \subseteq Goods
  PROVE  /\ Loads(q, T) \in Seq(Nat) /\ Len(Loads(q, T)) = Len(q)
         /\ \A i \in 1..Len(q) : Loads(q, T)[i] = LoadOf(q[i], T)
<1>1. Len(q) \in Nat /\ \A i \in 1..Len(q) : q[i] \in Messages
  OBVIOUS
<1>2. Loads(q, T) \in [1..Len(q) -> Nat]
  BY <1>1, LoadNat DEF Loads
<1>3. \A i \in 1..Len(q) : Loads(q, T)[i] = LoadOf(q[i], T)
  BY DEF Loads
<1> DEFINE l == Loads(q, T)
<1> HIDE DEF l
<1>4. l \in Seq(Nat) /\ Len(l) = Len(q)
  BY <1>1, <1>2 DEF l
<1>. QED BY <1>3, <1>4 DEF l

LEMMA WeightJoined ==
  ASSUME NEW q \in Seq(Messages), NEW r \in Seq(Messages), NEW T, T \subseteq Goods
  PROVE  /\ Weight(q \o r, T) = Weight(q, T) + Weight(r, T)
         /\ Weight(q, T) \in Nat /\ Weight(r, T) \in Nat
<1> DEFINE x == q \o r
           l == Loads(q, T)
           m == Loads(r, T)
           y == Loads(x, T)
           z == l \o m
<1>1. /\ x \in Seq(Messages) /\ Len(q) \in Nat /\ Len(r) \in Nat /\ Len(x) = Len(q) + Len(r)
      /\ \A i \in 1..Len(q) : x[i] = q[i]
      /\ \A i \in Len(q) + 1 .. Len(q) + Len(r) : x[i] = r[i - Len(q)]
  BY Joined
<1>2. l \in Seq(Nat) /\ Len(l) = Len(q) /\ \A i \in 1..Len(q) : l[i] = LoadOf(q[i], T)
  BY LoadsAre
<1>3. m \in Seq(Nat) /\ Len(m) = Len(r) /\ \A i \in 1..Len(r) : m[i] = LoadOf(r[i], T)
  BY LoadsAre
<1> HIDE DEF x, l, m
<1>4. y \in Seq(Nat) /\ Len(y) = Len(x) /\ \A i \in 1..Len(x) : y[i] = LoadOf(x[i], T)
  BY <1>1, LoadsAre
<1> HIDE DEF y
<1>5. /\ z \in Seq(Nat) /\ Len(z) = Len(l) + Len(m)
      /\ \A i \in 1..Len(l) : z[i] = l[i]
      /\ \A i \in Len(l) + 1 .. Len(l) + Len(m) : z[i] = m[i - Len(l)]
  BY <1>2, <1>3, Joined, ZenonT(30)
<1> HIDE DEF z
<1>6. ASSUME NEW i \in 1..Len(y) PROVE y[i] = z[i]
  <2>0. i \in 1..Len(x) /\ (i <= Len(q) \/ i > Len(q))
    BY <1>1, <1>4
  <2>1. CASE i <= Len(q)
    <3>1. i \in 1..Len(q) /\ i \in 1..Len(l)
      BY <1>1, <1>2, <2>0, <2>1
    <3>. QED BY <1>1, <1>2, <1>4, <1>5, <2>0, <3>1
  <2>2. CASE i > Len(q)
    <3>1. /\ i \in Len(q) + 1 .. Len(q) + Len(r) /\ i \in Len(l) + 1 .. Len(l) + Len(m)
          /\ i - Len(q) \in 1..Len(r) /\ i - Len(l) = i - Len(q)
      BY <1>1, <1>2, <1>3, <2>0, <2>2
    <3>. QED BY <1>1, <1>3, <1>4, <1>5, <2>0, <3>1
  <2>. QED BY <2>0, <2>1, <2>2
<1>7. Len(y) = Len(z)
  BY <1>1, <1>2, <1>3, <1>4, <1>5
<1>8. y = z
  BY <1>4, <1>5, <1>6, <1>7, SeqEqual
<1>9. SumOf(z) = SumOf(l) + SumOf(m) /\ SumOf(l) \in Nat /\ SumOf(m) \in Nat
  BY <1>2, <1>3, SumJoined DEF z
<1>. QED BY <1>8, <1>9 DEF Weight, x, l, m, y

LEMMA WeightHere ==
  ASSUME NEW T, T \subseteq Goods
  PROVE  /\ \A m \in Messages : Weight(<<m>>, T) = LoadOf(m, T)
         /\ \A q \in Seq(Messages) : Only(q, T, 0) => Weight(q, T) = 0
         /\ Weight(<<>>, T) = 0
<1>1. ASSUME NEW m \in Messages PROVE Weight(<<m>>, T) = LoadOf(m, T)
  <2>1. Loads(<<m>>, T) = <<LoadOf(m, T)>>
    <3>1. <<m>> \in Seq(Messages) /\ Len(<<m>>) = 1 /\ <<m>>[1] = m
      OBVIOUS
    <3>2. Loads(<<m>>, T) = [i \in 1..1 |-> LoadOf(m, T)]
      BY <3>1 DEF Loads
    <3>3. \A x : [i \in 1..1 |-> x] = <<x>>
      OBVIOUS
    <3>. QED BY <3>2, <3>3
  <2>. QED BY <2>1, LoadNat, SumOne DEF Weight
<1>2. ASSUME NEW q \in Seq(Messages), Only(q, T, 0) PROVE Weight(q, T) = 0
  <2>1. \A i \in 1..Len(q) : q[i][1] \notin T
    <3>1. \A i \in 1..Len(q) : i # 0
      OBVIOUS
    <3>. QED BY <1>2, <3>1 DEF Only
  <2>2. \A i \in 1..Len(q) : LoadOf(q[i], T) = 0
    BY <2>1 DEF LoadOf
  <2>3. /\ Loads(q, T) \in Seq(Nat) /\ Len(Loads(q, T)) = Len(q)
        /\ \A i \in 1..Len(q) : Loads(q, T)[i] = LoadOf(q[i], T)
    BY LoadsAre
  <2>4. \A i \in 1..Len(Loads(q, T)) : Loads(q, T)[i] = 0
    BY <2>2, <2>3
  <2>. QED BY <2>3, <2>4, SumZero DEF Weight
<1>3. Weight(<<>>, T) = 0
  <2>1. <<>> \in Seq(Messages) /\ Only(<<>>, T, 0)
    BY OnlyHere
  <2>. QED BY <1>2, <2>1
<1>. QED BY <1>1, <1>2, <1>3

LEMMA WeightHead ==
  ASSUME NEW q \in Seq(Messages), q # <<>>, NEW T, T \subseteq Goods
  PROVE  /\ Weight(q, T) = LoadOf(Head(q), T) + Weight(Tail(q), T)
         /\ Weight(q, T) \in Nat /\ Weight(Tail(q), T) \in Nat /\ LoadOf(Head(q), T) \in Nat
<1>1. /\ Len(q) \in Nat /\ Len(q) >= 1 /\ Head(q) = q[1] /\ Tail(q) \in Seq(Messages)
      /\ Len(Tail(q)) = Len(q) - 1
      /\ \A i \in 1 .. Len(q) - 1 : Tail(q)[i] = q[i + 1]
  BY HeadTail
<1>2. Head(q) \in Messages
  BY <1>1
<1>3. PICK p : p = <<Head(q)>>
  OBVIOUS
<1>4. p \in Seq(Messages) /\ Len(p) = 1 /\ p[1] = Head(q)
  BY <1>2, <1>3
<1> DEFINE x == p \o Tail(q)
<1>5. /\ x \in Seq(Messages) /\ Len(x) = Len(p) + Len(Tail(q))
      /\ \A i \in 1..Len(p) : x[i] = p[i]
      /\ \A i \in Len(p) + 1 .. Len(p) + Len(Tail(q)) : x[i] = Tail(q)[i - Len(p)]
  <2>1. p \in Seq(Messages) /\ Tail(q) \in Seq(Messages)
    BY <1>1, <1>4
  <2>. QED BY ONLY <2>1, Joined
<1> HIDE DEF x
<1>6. ASSUME NEW i \in 1..Len(q) PROVE q[i] = x[i]
  <2>1. CASE i = 1
    <3>1. 1 \in 1..Len(p)
      BY <1>4
    <3>. QED BY <1>1, <1>4, <1>5, <2>1, <3>1
  <2>2. CASE i # 1
    <3>1. /\ i \in Len(p) + 1 .. Len(p) + Len(Tail(q)) /\ i - Len(p) \in 1 .. Len(q) - 1
          /\ (i - Len(p)) + 1 = i
      BY <1>1, <1>4, <2>2
    <3>. QED BY <1>1, <1>5, <3>1
  <2>. QED BY <2>1, <2>2
<1>7. q = x
  BY <1>1, <1>4, <1>5, <1>6, SeqEqual
<1>8. Weight(x, T) = Weight(p, T) + Weight(Tail(q), T) /\ Weight(Tail(q), T) \in Nat
  BY <1>1, <1>4, WeightJoined DEF x
<1>9. Weight(p, T) = LoadOf(Head(q), T) /\ LoadOf(Head(q), T) \in Nat
  BY <1>2, <1>3, WeightHere, LoadNat
<1>. QED BY <1>7, <1>8, <1>9

\* What the properties count is what the messages weigh.
LEMMA CarriedIs ==
  ASSUME NEW q \in Seq(Packets), NEW T, T \subseteq Goods
  PROVE  Carried(q, T) = Weight(Msgs(q), T)
<1> DEFINE m == Msgs(q)
           l == Loads(m, T)
           d == CHOOSE f : f = [i \in 0..Len(q) |-> IF i = 0 THEN 0 ELSE f[i - 1] + Load(q[i], T)]
<1>1. m \in Seq(Messages) /\ Len(m) = Len(q) /\ \A i \in 1..Len(q) : m[i] = q[i].msg
  BY MsgsAre
<1> HIDE DEF m
<1>2. l \in Seq(Nat) /\ Len(l) = Len(q) /\ \A i \in 1..Len(q) : l[i] = LoadOf(m[i], T)
  BY <1>1, LoadsAre
<1> HIDE DEF l
<1>3. \A i \in 1..Len(q) : l[i] = Load(q[i], T)
  BY <1>1, <1>2 DEF Load, LoadOf
<1>4. PICK h : Totals(l, Len(q), h)
  BY <1>2, TotalsExist
<1>5. Len(q) \in Nat
  OBVIOUS
<1>6. h = [i \in 0..Len(q) |-> IF i = 0 THEN 0 ELSE h[i - 1] + Load(q[i], T)]
  <2>1. \A i \in 0..Len(q) : h[i] = IF i = 0 THEN 0 ELSE h[i - 1] + Load(q[i], T)
    <3>1. \A i \in 0..Len(q) : i = 0 \/ i \in 1..Len(q)
      BY <1>5
    <3>. QED BY <1>3, <1>4, <3>1 DEF Totals
  <2>2. h = [i \in 0..Len(q) |-> h[i]]
    BY <1>4 DEF Totals
  <2>. QED BY <2>1, <2>2
<1>7. d = [i \in 0..Len(q) |-> IF i = 0 THEN 0 ELSE d[i - 1] + Load(q[i], T)]
  BY <1>6
<1>8. Carried(q, T) = d[Len(q)]
  BY DEF Carried
<1> HIDE DEF d
<1>9. Totals(l, Len(q), d)
  <2>1. d[0] = 0
    BY <1>5, <1>7
  <2>2. ASSUME NEW i \in 1..Len(q) PROVE d[i] = d[i - 1] + l[i]
    <3>1. i \in 0..Len(q) /\ i # 0
      BY <1>5
    <3>2. d[i] = d[i - 1] + Load(q[i], T)
      BY <1>7, <3>1
    <3>. QED BY <1>3, <3>2
  <2>3. d = [i \in 0..Len(q) |-> d[i]]
    BY <1>7
  <2>. QED BY <2>1, <2>2, <2>3 DEF Totals
<1>10. SumOf(l) = d[Len(q)]
  BY <1>2, <1>9, SumIs
<1>. QED BY <1>8, <1>10 DEF Weight, l, m

\* What is let go of the input is what fits.
LEMMA WeightChunks ==
  ASSUME Typed, NEW q \in Seq(Nat), NEW w \in Nat
  PROVE  Weight(Chunks(q, w), {"DATA"}) = Fits(q, w)
<1> DEFINE n == Fits(q, w)
           k == (n + c.maxpkt - 1) \div c.maxpkt
           at(i) == IF i * c.maxpkt <= n THEN i * c.maxpkt ELSE n
           r == Chunks(q, w)
           T == {"DATA"}
           l == Loads(r, T)
           f == [i \in 0..k |-> at(i)]
<1>1. c.maxpkt \in Nat \ {0} /\ n \in Nat
  BY FitsIs DEF Typed, ClientState
<1>2. /\ r \in Seq(Messages) /\ Len(r) = k /\ at(0) = 0 /\ at(k) = n
      /\ \A i \in 1..k : at(i) \in Nat /\ at(i - 1) \in Nat /\ r[i][1] = "DATA"
                         /\ Len(r[i][2]) = at(i) - at(i - 1)
  BY <1>1, ChunksAre, ZenonT(90)
<1>3. k \in Nat
  BY <1>2
<1>4. f = [i \in 0..k |-> f[i]] /\ \A i \in 0..k : f[i] = at(i)
  OBVIOUS
<1> HIDE DEF at, k, r, f
<1>5. /\ l \in Seq(Nat) /\ Len(l) = k /\ \A i \in 1..k : l[i] = LoadOf(r[i], T)
  BY <1>2, LoadsAre DEF Goods
<1> HIDE DEF l
<1>6. f[0] = 0 /\ f[k] = n
  BY <1>2, <1>3, <1>4
<1>7. ASSUME NEW i \in 1..k PROVE f[i] = f[i - 1] + l[i]
  <2>1. i \in 0..k /\ i - 1 \in 0..k
    BY <1>3
  <2>2. l[i] = at(i) - at(i - 1) /\ at(i) \in Nat /\ at(i - 1) \in Nat
    BY <1>2, <1>5 DEF LoadOf
  <2>3. f[i] = at(i) /\ f[i - 1] = at(i - 1)
    BY <1>4, <2>1
  <2>. QED BY <2>2, <2>3
<1>8. Totals(l, Len(l), f)
  BY <1>4, <1>5, <1>6, <1>7 DEF Totals
<1>9. SumOf(l) = n
  BY <1>5, <1>6, <1>8, SumIs
<1>. QED BY <1>9 DEF Weight, l, r

LEMMA WeightInserted ==
  ASSUME NEW q \in Seq(Messages), NEW h \in Seq(Messages), NEW x \in Messages, NEW y \in Messages,
         NEW T, T \subseteq Goods, x[1] \notin T, y[1] \notin T
  PROVE  Weight(Insert(q, x, y, h), T) = Weight(q \o h, T)
<1>1. PICK p : p = <<x, y>>
  OBVIOUS
<1>2. p \in Seq(Messages) /\ Only(p, T, 0)
  <2>1. p \in Seq(Messages) /\ Len(p) = 2 /\ p[1] = x /\ p[2] = y
    BY <1>1
  <2>. QED BY <2>1 DEF Only
<1>3. Weight(p, T) = 0
  BY <1>2, WeightHere
<1>4. q \o p \in Seq(Messages) /\ Weight(q \o p, T) = Weight(q, T) + Weight(p, T) /\ Weight(q, T) \in Nat
  BY <1>2, Joined, WeightJoined
<1>5. /\ Weight((q \o p) \o h, T) = Weight(q \o p, T) + Weight(h, T) /\ Weight(h, T) \in Nat
  BY <1>4, WeightJoined
<1>6. Weight(q \o h, T) = Weight(q, T) + Weight(h, T)
  BY WeightJoined
<1>. QED BY <1>1, <1>3, <1>4, <1>5, <1>6 DEF Insert

\* The windows that confirmations on their way announce.
Confirming(q) == {i \in 1..Len(q) : q[i][1] = "CONFIRM"}
Promised(q) == {q[i][2][1] : i \in Confirming(q)}

LEMMA PromisedIs ==
  ASSUME NEW q
  PROVE  /\ \A i \in 1..Len(q) : q[i][1] = "CONFIRM" => q[i][2][1] \in Promised(q)
         /\ \A w \in Promised(q) : \E i \in 1..Len(q) : q[i][1] = "CONFIRM" /\ w = q[i][2][1]
BY DEF Promised, Confirming

LEMMA PromisedTail ==
  ASSUME NEW q \in Seq(Messages), q # <<>>
  PROVE  /\ Promised(Tail(q)) \subseteq Promised(q)
         /\ Head(q)[1] # "CONFIRM" => Promised(Tail(q)) = Promised(q)
         /\ Head(q)[1] = "CONFIRM" => Head(q)[2][1] \in Promised(q)
<1>1. /\ Len(q) \in Nat /\ Len(q) >= 1 /\ Head(q) = q[1] /\ Tail(q) \in Seq(Messages)
      /\ Len(Tail(q)) = Len(q) - 1
      /\ \A i \in 1 .. Len(q) - 1 : Tail(q)[i] = q[i + 1]
  BY HeadTail
<1>2. ASSUME NEW w \in Promised(Tail(q)) PROVE w \in Promised(q)
  <2>1. PICK i \in 1..Len(Tail(q)) : Tail(q)[i][1] = "CONFIRM" /\ w = Tail(q)[i][2][1]
    BY PromisedIs
  <2>2. i + 1 \in 1..Len(q) /\ Tail(q)[i] = q[i + 1]
    BY <1>1
  <2>. QED BY <2>1, <2>2, PromisedIs
<1>3. ASSUME Head(q)[1] # "CONFIRM", NEW w \in Promised(q) PROVE w \in Promised(Tail(q))
  <2>1. PICK i \in 1..Len(q) : q[i][1] = "CONFIRM" /\ w = q[i][2][1]
    BY PromisedIs
  <2>2. i # 1
    BY <1>1, <1>3, <2>1
  <2>3. i - 1 \in 1..Len(Tail(q)) /\ i - 1 \in 1 .. Len(q) - 1 /\ (i - 1) + 1 = i
    BY <1>1, <2>2
  <2>4. Tail(q)[i - 1] = q[i]
    BY <1>1, <2>3
  <2>. QED BY <2>1, <2>3, <2>4, PromisedIs
<1>4. Head(q)[1] = "CONFIRM" => Head(q)[2][1] \in Promised(q)
  <2>1. 1 \in 1..Len(q)
    BY <1>1
  <2>. QED BY <1>1, <2>1, PromisedIs
<1>. QED BY <1>2, <1>3, <1>4

LEMMA PromisedJoined ==
  ASSUME NEW q \in Seq(Messages), NEW r \in Seq(Messages)
  PROVE  Promised(q \o r) = Promised(q) \cup Promised(r)
<1> DEFINE x == q \o r
<1>1. /\ x \in Seq(Messages) /\ Len(q) \in Nat /\ Len(r) \in Nat /\ Len(x) = Len(q) + Len(r)
      /\ \A i \in 1..Len(q) : x[i] = q[i]
      /\ \A i \in Len(q) + 1 .. Len(q) + Len(r) : x[i] = r[i - Len(q)]
  BY Joined
<1> HIDE DEF x
<1>2. ASSUME NEW w \in Promised(x) PROVE w \in Promised(q) \cup Promised(r)
  <2>1. PICK i \in 1..Len(x) : x[i][1] = "CONFIRM" /\ w = x[i][2][1]
    BY PromisedIs
  <2>2. \/ i \in 1..Len(q) /\ x[i] = q[i]
        \/ i - Len(q) \in 1..Len(r) /\ x[i] = r[i - Len(q)]
    <3>1. i \in 1..Len(q) \/ (i \in Len(q) + 1 .. Len(q) + Len(r) /\ i - Len(q) \in 1..Len(r))
      BY <1>1
    <3>. QED BY <1>1, <3>1
  <2>. QED BY <2>1, <2>2, PromisedIs
<1>3. ASSUME NEW w \in Promised(q) PROVE w \in Promised(x)
  <2>1. PICK i \in 1..Len(q) : q[i][1] = "CONFIRM" /\ w = q[i][2][1]
    BY PromisedIs
  <2>2. i \in 1..Len(x) /\ x[i] = q[i]
    BY <1>1
  <2>. QED BY <2>1, <2>2, PromisedIs
<1>4. ASSUME NEW w \in Promised(r) PROVE w \in Promised(x)
  <2>1. PICK i \in 1..Len(r) : r[i][1] = "CONFIRM" /\ w = r[i][2][1]
    BY PromisedIs
  <2>2. /\ Len(q) + i \in 1..Len(x) /\ Len(q) + i \in Len(q) + 1 .. Len(q) + Len(r)
        /\ (Len(q) + i) - Len(q) = i
    BY <1>1
  <2>3. x[Len(q) + i] = r[i]
    BY <1>1, <2>2
  <2>. QED BY <2>1, <2>2, <2>3, PromisedIs
<1>. QED BY <1>2, <1>3, <1>4 DEF x

LEMMA PromisedNone ==
  /\ \A q \in Seq(Messages) : Only(q, Answers, 0) => Promised(q) = {}
  /\ \A m \in Messages : m[1] # "CONFIRM" => Promised(<<m>>) = {}
  /\ \A w, p : Promised(<<Msg("CONFIRM", <<w, p>>)>>) = {w}
  /\ \A m, n \in Messages : m[1] # "CONFIRM" /\ n[1] # "CONFIRM" => Promised(<<m, n>>) = {}
<1>1. ASSUME NEW q \in Seq(Messages), Only(q, Answers, 0) PROVE Promised(q) = {}
  <2>1. \A i \in 1..Len(q) : i # 0
    OBVIOUS
  <2>2. \A i \in 1..Len(q) : q[i][1] \notin Answers
    BY <1>1, <2>1 DEF Only
  <2>. QED BY <2>2, PromisedIs DEF Answers
<1>2. ASSUME NEW m PROVE Len(<<m>>) = 1 /\ <<m>>[1] = m
  OBVIOUS
<1>3. ASSUME NEW m \in Messages, m[1] # "CONFIRM" PROVE Promised(<<m>>) = {}
  BY <1>2, <1>3 DEF Promised, Confirming
<1>4. ASSUME NEW w, NEW p PROVE Promised(<<Msg("CONFIRM", <<w, p>>)>>) = {w}
  <2>1. PICK m : m = Msg("CONFIRM", <<w, p>>)
    OBVIOUS
  <2>2. m[1] = "CONFIRM" /\ m[2][1] = w
    BY <2>1 DEF Msg
  <2>3. Len(<<m>>) = 1 /\ <<m>>[1] = m
    BY <1>2
  <2>4. Promised(<<m>>) = {w}
    BY <2>2, <2>3 DEF Promised, Confirming
  <2>. QED BY <2>1, <2>4
<1>5. ASSUME NEW m \in Messages, NEW n \in Messages, m[1] # "CONFIRM", n[1] # "CONFIRM"
      PROVE  Promised(<<m, n>>) = {}
  <2>1. PICK q : q = <<m, n>>
    OBVIOUS
  <2>2. Len(q) = 2 /\ q[1] = m /\ q[2] = n
    BY <2>1
  <2>3. \A i \in 1..Len(q) : q[i][1] # "CONFIRM"
    BY <1>5, <2>2
  <2>. QED BY <2>1, <2>3, PromisedIs
<1>. QED BY <1>1, <1>3, <1>4, <1>5

LEMMA PromisedInserted ==
  ASSUME NEW q \in Seq(Messages), NEW h \in Seq(Messages), NEW x \in Messages, NEW y \in Messages,
         x[1] # "CONFIRM", y[1] # "CONFIRM"
  PROVE  Promised(Insert(q, x, y, h)) = Promised(q \o h)
<1>1. PICK p : p = <<x, y>>
  OBVIOUS
<1>2. p \in Seq(Messages) /\ Promised(p) = {}
  BY <1>1, PromisedNone
<1>3. q \o p \in Seq(Messages) /\ Promised(q \o p) = Promised(q) \cup Promised(p)
  BY <1>2, Joined, PromisedJoined
<1>4. Promised((q \o p) \o h) = Promised(q \o p) \cup Promised(h)
  BY <1>3, PromisedJoined
<1>5. Promised(q \o h) = Promised(q) \cup Promised(h)
  BY PromisedJoined
<1>. QED BY <1>1, <1>2, <1>3, <1>4, <1>5 DEF Insert

-----------------------------------------------------------------------------
(* The account of a channel: input and grants on their way, output and what  *)
(* is given back for it.                                                     *)

Out == {"DATA", "EXT_DATA"}
Fed == Weight(Going, {"DATA"})
Granted == Weight(Coming, {"ADJUST"})
Produced == Weight(Coming, Out)
Repaid == Weight(Going, {"ADJUST"})

\* Before the server's window is known.
Early == Phase \in Quietly \cup {"open"} /\ Promised(Coming) = {}
Plus == Fed + Granted + c.window
Owed == Produced + c.pending + Repaid
RoomInv ==
  /\ c.window \in 0..MaxWindow /\ Plus <= s.room
  /\ Alive => /\ \A w \in Promised(Coming) : Plus + w <= s.room
              /\ Early => Plus <= 0
OwedInv == Alive => IF Early THEN Owed = 0 ELSE s.window + Owed = WindowSize

LEMMA FlowNat ==
  ASSUME Typed
  PROVE  /\ Fed \in Nat /\ Granted \in Nat /\ Produced \in Nat /\ Repaid \in Nat
         /\ c.window \in Nat /\ c.pending \in Nat /\ s.room \in Int /\ s.window \in Int
         /\ \A w \in Promised(Coming) : w \in Nat
<1>1. Going \in Seq(Messages) /\ Coming \in Seq(Messages)
  BY TalkTyped
<1>2. {"DATA"} \subseteq Goods /\ {"ADJUST"} \subseteq Goods /\ Out \subseteq Goods
  BY DEF Goods, Out
<1>3. Fed \in Nat /\ Granted \in Nat /\ Produced \in Nat /\ Repaid \in Nat
  BY <1>1, <1>2, WeightJoined DEF Fed, Granted, Produced, Repaid
<1>4. ASSUME NEW w \in Promised(Coming) PROVE w \in Nat
  <2>1. PICK i \in 1..Len(Coming) : Coming[i][1] = "CONFIRM" /\ w = Coming[i][2][1]
    BY PromisedIs
  <2>2. Coming[i] \in Messages
    BY <1>1
  <2>. QED BY <2>1, <2>2, Carries
<1>. QED BY <1>3, <1>4 DEF Typed, ClientState, ServerState

\* Up: the client says `msgs'; down: it hears what comes first.
GoesOut(msgs) ==
  /\ Fed' = Fed + Weight(msgs, {"DATA"}) /\ Repaid' = Repaid + Weight(msgs, {"ADJUST"})
ComesIn ==
  /\ Granted = (IF Heard[1] = "ADJUST" THEN Heard[2] ELSE 0) + Granted'
  /\ Produced = (IF Heard[1] \in Out THEN Len(Heard[2]) ELSE 0) + Produced'
  /\ Promised(Coming') \subseteq Promised(Coming)
  /\ Heard[1] # "CONFIRM" => Promised(Coming') = Promised(Coming)
  /\ Heard[1] = "CONFIRM" => Heard[2][1] \in Promised(Coming)
\* The server hears what comes first, and says `msgs'.
GoesIn ==
  /\ Fed = (IF Asked[1] = "DATA" THEN Len(Asked[2]) ELSE 0) + Fed'
  /\ Repaid = (IF Asked[1] = "ADJUST" THEN Asked[2] ELSE 0) + Repaid'
ComesOut(msgs) ==
  /\ Granted' = Granted + Weight(msgs, {"ADJUST"}) /\ Produced' = Produced + Weight(msgs, Out)
  /\ Promised(Coming') = Promised(Coming) \cup Promised(msgs)

LEMMA FlowUp ==
  ASSUME Typed, NEW msgs \in Seq(Messages), Going' = Going \o msgs
  PROVE  GoesOut(msgs)
<1>1. Going \in Seq(Messages)
  BY TalkTyped
<1>2. {"DATA"} \subseteq Goods /\ {"ADJUST"} \subseteq Goods
  BY DEF Goods
<1>. QED BY <1>1, <1>2, WeightJoined DEF GoesOut, Fed, Repaid

LEMMA FlowHeard ==
  ASSUME Typed, Coming # <<>>, Coming' = Tail(Coming)
  PROVE  ComesIn /\ Heard \in Messages
<1>1. Coming \in Seq(Messages)
  BY TalkTyped
<1>2. {"ADJUST"} \subseteq Goods /\ Out \subseteq Goods
  BY DEF Goods, Out
<1>3. /\ Granted = LoadOf(Heard, {"ADJUST"}) + Granted'
      /\ Produced = LoadOf(Heard, Out) + Produced'
  BY <1>1, <1>2, WeightHead DEF Granted, Produced, Heard
<1>4. /\ LoadOf(Heard, {"ADJUST"}) = (IF Heard[1] = "ADJUST" THEN Heard[2] ELSE 0)
      /\ LoadOf(Heard, Out) = (IF Heard[1] \in Out THEN Len(Heard[2]) ELSE 0)
  BY DEF LoadOf, Out
<1>5. /\ Promised(Coming') \subseteq Promised(Coming)
      /\ Heard[1] # "CONFIRM" => Promised(Coming') = Promised(Coming)
      /\ Heard[1] = "CONFIRM" => Heard[2][1] \in Promised(Coming)
  BY <1>1, PromisedTail DEF Heard
<1>6. Heard \in Messages
  BY <1>1, HeadTail DEF Heard
<1>. QED BY <1>3, <1>4, <1>5, <1>6 DEF ComesIn

LEMMA FlowAsked ==
  ASSUME Typed, Going # <<>>, Going' = Tail(Going)
  PROVE  GoesIn /\ Asked \in Messages
<1>1. Going \in Seq(Messages)
  BY TalkTyped
<1>2. {"ADJUST"} \subseteq Goods /\ {"DATA"} \subseteq Goods
  BY DEF Goods
<1>3. /\ Fed = LoadOf(Asked, {"DATA"}) + Fed'
      /\ Repaid = LoadOf(Asked, {"ADJUST"}) + Repaid'
  BY <1>1, <1>2, WeightHead DEF Fed, Repaid, Asked
<1>4. /\ LoadOf(Asked, {"ADJUST"}) = (IF Asked[1] = "ADJUST" THEN Asked[2] ELSE 0)
      /\ LoadOf(Asked, {"DATA"}) = (IF Asked[1] = "DATA" THEN Len(Asked[2]) ELSE 0)
  BY DEF LoadOf
<1>5. Asked \in Messages
  BY <1>1, HeadTail DEF Asked
<1>. QED BY <1>3, <1>4, <1>5 DEF GoesIn

LEMMA FlowDown ==
  ASSUME Typed, NEW msgs \in Seq(Messages), Coming' = Coming \o msgs
  PROVE  ComesOut(msgs)
<1>1. Coming \in Seq(Messages)
  BY TalkTyped
<1>2. {"ADJUST"} \subseteq Goods /\ Out \subseteq Goods
  BY DEF Goods, Out
<1>. QED BY <1>1, <1>2, WeightJoined, PromisedJoined DEF ComesOut, Granted, Produced

LEMMA FlowMet ==
  ASSUME Typed, Coming' = Insert(Msgs(down), M("ECDH_REPLY"), M("NEWKEYS"), s.held)
  PROVE  Granted' = Granted /\ Produced' = Produced /\ Promised(Coming') = Promised(Coming)
<1>1. Coming = Msgs(down) \o s.held /\ Msgs(down) \in Seq(Messages) /\ s.held \in Seq(Messages)
  BY TalkTyped DEF Coming
<1>2. PICK x, y : x = M("ECDH_REPLY") /\ y = M("NEWKEYS")
  OBVIOUS
<1>3. x \in Messages /\ y \in Messages /\ x[1] = "ECDH_REPLY" /\ y[1] = "NEWKEYS"
  BY <1>2, Plainly DEF Plain, M, Msg
<1>4. {"ADJUST"} \subseteq Goods /\ Out \subseteq Goods
  BY DEF Goods, Out
<1>5. /\ \A T : T \subseteq Goods /\ x[1] \notin T /\ y[1] \notin T =>
            Weight(Insert(Msgs(down), x, y, s.held), T) = Weight(Msgs(down) \o s.held, T)
      /\ Promised(Insert(Msgs(down), x, y, s.held)) = Promised(Msgs(down) \o s.held)
  BY <1>1, <1>3, WeightInserted, PromisedInserted
<1>6. x[1] \notin {"ADJUST"} /\ y[1] \notin {"ADJUST"} /\ x[1] \notin Out /\ y[1] \notin Out
  BY <1>3 DEF Out
<1>. QED BY <1>1, <1>2, <1>4, <1>5, <1>6 DEF Granted, Produced

-----------------------------------------------------------------------------
(* What messages that are said weigh and promise.                            *)

LEMMA Light ==
  ASSUME NEW msgs \in Seq(Messages)
  PROVE  /\ Only(msgs, Goods, 0) =>
              \A T : T \subseteq Goods => Weight(msgs, T) = 0
         /\ Only(msgs, Answers, 0) => Promised(msgs) = {}
         /\ AllOf(msgs, Quiet) => Only(msgs, Goods, 0) /\ Only(msgs, Answers, 0)
<1>1. ASSUME Only(msgs, Goods, 0), NEW T, T \subseteq Goods PROVE Weight(msgs, T) = 0
  <2>1. Only(msgs, T, 0)
    BY <1>1, OnlyFewer
  <2>. QED BY <1>1, <2>1, WeightHere
<1>2. Only(msgs, Answers, 0) => Promised(msgs) = {}
  BY PromisedNone
<1>3. AllOf(msgs, Quiet) => Only(msgs, Goods, 0) /\ Only(msgs, Answers, 0)
  <2>1. Quiet \cap Goods = {} /\ Quiet \cap Answers = {}
    BY DEF Quiet, Goods, Plain
  <2>. QED BY <2>1, OnlyHere
<1>. QED BY <1>1, <1>2, <1>3

-----------------------------------------------------------------------------
(* No output is on its way before the answer that starts the command, so     *)
(* none of it is dropped.                                                    *)

Late(b, stage) ==
  \A i \in 1..Len(b) : b[i][1] \in Out =>
    stage # "login" /\ \A j \in 1..Len(b) : b[j][1] \in Answers => j < i
LateInv == Alive => Late(Coming, s.stage)

LEMMA LateTail ==
  ASSUME NEW b \in Seq(Messages), b # <<>>, NEW st, Late(b, st)
  PROVE  /\ Late(Tail(b), st)
         /\ Head(b)[1] \in Out => st # "login" /\ \A n : Only(b, Answers, n) => n = 0
<1>1. /\ Len(b) \in Nat /\ Len(b) >= 1 /\ Head(b) = b[1] /\ Tail(b) \in Seq(Messages)
      /\ Len(Tail(b)) = Len(b) - 1
      /\ \A i \in 1 .. Len(b) - 1 : Tail(b)[i] = b[i + 1]
  BY HeadTail
<1>2. ASSUME NEW i \in 1..Len(Tail(b)), Tail(b)[i][1] \in Out
      PROVE  st # "login" /\ \A j \in 1..Len(Tail(b)) : Tail(b)[j][1] \in Answers => j < i
  <2>1. i + 1 \in 1..Len(b) /\ Tail(b)[i] = b[i + 1]
    BY <1>1
  <2>2. st # "login" /\ \A j \in 1..Len(b) : b[j][1] \in Answers => j < i + 1
    BY <1>2, <2>1 DEF Late
  <2>3. ASSUME NEW j \in 1..Len(Tail(b)), Tail(b)[j][1] \in Answers PROVE j < i
    <3>1. j + 1 \in 1..Len(b) /\ Tail(b)[j] = b[j + 1]
      BY <1>1
    <3>2. j + 1 < i + 1
      BY <2>2, <2>3, <3>1
    <3>. QED BY <1>1, <3>2
  <2>. QED BY <2>2, <2>3
<1>3. ASSUME Head(b)[1] \in Out, NEW n, Only(b, Answers, n) PROVE n = 0
  <2>1. 1 \in 1..Len(b) /\ b[1][1] \in Out
    BY <1>1, <1>3
  <2>2. \A j \in 1..Len(b) : b[j][1] \in Answers => j < 1
    BY <2>1 DEF Late
  <2>3. n \in 0..Len(b) /\ (n \in 1..Len(b) => b[n][1] \in Answers)
    BY <1>3 DEF Only
  <2>4. n \in 1..Len(b) => n < 1
    BY <2>2, <2>3
  <2>. QED BY <1>1, <2>3, <2>4
<1>4. Head(b)[1] \in Out => st # "login"
  <2>1. 1 \in 1..Len(b)
    BY <1>1
  <2>. QED BY <1>1, <2>1 DEF Late
<1>5. Late(Tail(b), st)
  BY <1>2 DEF Late
<1>. QED BY <1>3, <1>4, <1>5

LEMMA LateSaid ==
  ASSUME NEW b \in Seq(Messages), NEW r \in Seq(Messages), NEW st, Late(b, st),
         NEW st2, st2 = st \/ (st = "login" /\ Only(r, Out, 0)),
         \/ Only(r, Answers, 0) /\ Only(r, Out, 0)
         \/ st = "login" /\ Only(r, Out, 0)
         \/ st # "login" /\ Only(r, Answers, 0)
  PROVE  Late(b \o r, st2)
<1> DEFINE x == b \o r
<1>1. /\ x \in Seq(Messages) /\ Len(b) \in Nat /\ Len(r) \in Nat /\ Len(x) = Len(b) + Len(r)
      /\ \A i \in 1..Len(b) : x[i] = b[i]
      /\ \A i \in Len(b) + 1 .. Len(b) + Len(r) : x[i] = r[i - Len(b)]
  BY Joined
<1> HIDE DEF x
<1>2. \A i \in 1..Len(r) : i # 0
  OBVIOUS
<1>3. /\ Only(r, Out, 0) => \A i \in 1..Len(r) : r[i][1] \notin Out
      /\ Only(r, Answers, 0) => \A i \in 1..Len(r) : r[i][1] \notin Answers
  BY <1>2 DEF Only
<1>4. \A i \in 1..Len(x) : i \in 1..Len(b) \/ (i > Len(b) /\ i - Len(b) \in 1..Len(r) /\ x[i] = r[i - Len(b)])
  BY <1>1
<1>5. ASSUME NEW i \in 1..Len(x), x[i][1] \in Out
      PROVE  st2 # "login" /\ \A j \in 1..Len(x) : x[j][1] \in Answers => j < i
  <2>1. CASE i \in 1..Len(b)
    <3>1. /\ b[i] = x[i] /\ st # "login" /\ \A j \in 1..Len(b) : b[j][1] \in Answers => j < i
      BY <1>1, <1>5, <2>1 DEF Late
    <3>2. \A k \in 1..Len(r) : r[k][1] \notin Answers
      BY <1>3, <3>1
    <3>3. ASSUME NEW j \in 1..Len(x), x[j][1] \in Answers PROVE j < i
      <4>1. j \in 1..Len(b)
        BY <1>4, <3>2, <3>3
      <4>. QED BY <1>1, <3>1, <3>3, <4>1
    <3>. QED BY <3>1, <3>3
  <2>2. CASE i > Len(b) /\ i - Len(b) \in 1..Len(r) /\ x[i] = r[i - Len(b)]
    <3>1. st # "login" /\ Only(r, Answers, 0) /\ st2 = st
      BY <1>3, <1>5, <2>2
    <3>2. ASSUME NEW j \in 1..Len(x), x[j][1] \in Answers PROVE j < i
      <4>1. j \in 1..Len(b)
        BY <1>3, <1>4, <3>1, <3>2
      <4>. QED BY <1>1, <2>2, <4>1
    <3>. QED BY <3>1, <3>2
  <2>. QED BY <1>4, <2>1, <2>2
<1>. QED BY <1>5 DEF Late, x

LEMMA LateMet ==
  ASSUME NEW q \in Seq(Messages), NEW h \in Seq(Messages), NEW x \in Messages, NEW y \in Messages,
         x[1] \notin Out \cup Answers, y[1] \notin Out \cup Answers, NEW st, Late(q \o h, st)
  PROVE  Late(Insert(q, x, y, h), st)
<1> DEFINE old == q \o h
           new == Insert(q, x, y, h)
           k == Len(q)
<1>1. Between(k, old, x, y, new) /\ Late(old, st)
  BY Inserted
<1> HIDE DEF old, new, k
<1>2. /\ k \in Nat /\ Len(old) \in Nat
      /\ \A j \in 1..Len(new) : new[j][1] \in Out \cup Answers =>
            \E i \in 1..Len(old) : j = Place(i, k) /\ new[j] = old[i]
  BY <1>1 DEF Between
<1>3. ASSUME NEW i \in 1..Len(new), new[i][1] \in Out
      PROVE  st # "login" /\ \A j \in 1..Len(new) : new[j][1] \in Answers => j < i
  <2>1. PICK i1 \in 1..Len(old) : i = Place(i1, k) /\ new[i] = old[i1]
    BY <1>2, <1>3
  <2>2. st # "login" /\ \A j \in 1..Len(old) : old[j][1] \in Answers => j < i1
    BY <1>1, <1>3, <2>1 DEF Late
  <2>3. ASSUME NEW j \in 1..Len(new), new[j][1] \in Answers PROVE j < i
    <3>1. PICK j1 \in 1..Len(old) : j = Place(j1, k) /\ new[j] = old[j1]
      BY <1>2, <2>3
    <3>2. j1 < i1
      BY <2>2, <2>3, <3>1
    <3>3. j1 \in Int /\ i1 \in Int
      OBVIOUS
    <3>. QED BY ONLY <1>2, <2>1, <3>1, <3>2, <3>3 DEF Place
  <2>. QED BY <2>2, <2>3
<1>. QED BY <1>3 DEF Late, new

\* What the state of a session tells about its account.
LEMMA TalksStand ==
  ASSUME NEW a, NEW b, NEW x, NEW g, NEW n, NEW e, NEW k, Talks(a, b, x, g, n, e, k)
  PROVE  /\ x.stage # "login" => x.phase \in {"run", "exec"}
         /\ x.phase \in {"pty", "exec"} /\ n = 0 => x.stage = "login"
         /\ Only(b, Answers, n)
BY DEF Talks, InAnswer

\* What is dropped while an answer is awaited is no output.
LEMMA NothingDropped ==
  ASSUME Typed, TalkInv, LateInv, Drops
  PROVE  Heard[1] \notin Out
<1>1. Hears(<<>>) /\ Phase \in {"pty", "exec"} /\ Alive
  BY DEF Drops, Hears
<1>2. PICK g, n, e, k : Talks(Going, Coming, Affairs, g, n, e, k)
  BY <1>1 DEF TalkInv
<1>3. Only(Coming, Answers, n) /\ (n = 0 => s.stage = "login")
  BY <1>1, <1>2, TalksStand DEF Affairs
<1>4. Coming \in Seq(Messages) /\ Coming # <<>> /\ Late(Coming, s.stage)
  BY <1>1, TalkTyped DEF Hears, LateInv
<1>5. Heard[1] \in Out => s.stage # "login" /\ n = 0
  BY <1>3, <1>4, LateTail DEF Heard
<1>. QED BY <1>3, <1>5

LEMMA LateNext ==
  ASSUME Typed, TalkInv, LateInv, Talk
  PROVE  LateInv'
<1>1. Alive
  BY DEF Talk, ClientSide, UserSide, ServerSide, ServerMore, Chats, LogsIn,
     TakesTurn, EndsTurn, Asks, Confirmed, AsksOn, Runs, Notes, Drops, Widens, Shows, IsTold, Leaves,
     Dies, Hears, Remarks, TypesMore, Finishes, Says, Obliges, Responds, Confirms, Starts, Reads,
     ReadsEnd, IsRepaid, Exchanges, Switches, Reacts, Murmurs, Renews, Grants, Writes, Exits, Shuts,
     Adds, Speaks
<1>2. PICK g, n, e, k : Talks(Going, Coming, Affairs, g, n, e, k)
  BY <1>1 DEF TalkInv
<1>3. Going \in Seq(Messages) /\ Coming \in Seq(Messages) /\ Late(Coming, s.stage)
  BY <1>1, TalkTyped DEF LateInv
<1>4. ASSUME NEW st, st = s'.stage, Late(Coming', st)
      PROVE  LateInv'
  BY <1>4 DEF LateInv
<1>5. ASSUME ClientSide \/ UserSide
      PROVE  \/ s' = s /\ Coming # <<>> /\ Coming' = Tail(Coming)
             \/ s' = s /\ Coming' = Coming
  BY <1>5 DEF ClientSide, UserSide, Chats, LogsIn,
     TakesTurn, EndsTurn, Asks, Confirmed, AsksOn, Runs, Notes, Drops, Widens, Shows, IsTold, Leaves,
     Dies, Hears, Remarks, TypesMore, Finishes, Says
<1>6. CASE ClientSide \/ UserSide
  <2>1. CASE s' = s /\ Coming' = Coming
    BY <1>3, <1>4, <2>1
  <2>2. CASE s' = s /\ Coming # <<>> /\ Coming' = Tail(Coming)
    <3>1. Late(Tail(Coming), s.stage)
      BY <1>3, <2>2, LateTail
    <3>. QED BY <1>4, <2>2, <3>1
  <2>. QED BY <1>5, <1>6, <2>1, <2>2
<1>7. \A t, m : Reacts(t, m) => /\ Going # <<>> /\ Head(Going)[1] = t /\ Coming' = Coming \o m
                                /\ m \in Seq(Messages)
  BY DEF Reacts, Speaks, Asked
<1>8. \A m : Adds(m) => Coming' = Coming \o m /\ m \in Seq(Messages)
  BY DEF Adds, Speaks
<1>9. ASSUME NEW m \in Seq(Messages), Coming' = Coming \o m, s'.stage = s.stage,
             Only(m, Answers, 0), Only(m, Out, 0)
      PROVE  LateInv'
  <2>1. Late(Coming \o m, s.stage)
    BY <1>3, <1>9, LateSaid
  <2>. QED BY <1>4, <1>9, <2>1
<1>10. ASSUME NEW m \in Seq(Messages), Coming' = Coming \o m, s.stage = "login", Only(m, Out, 0)
       PROVE  LateInv'
  <2>1. \A st : Late(Coming \o m, st)
    BY <1>3, <1>10, LateSaid
  <2>. QED BY <1>4, <1>10, <2>1
<1>11. ASSUME NEW m \in Seq(Messages), Coming' = Coming \o m, s.stage # "login", s'.stage # "login",
              Only(m, Answers, 0)
       PROVE  LateInv'
  <2>1. Late(Coming \o m, s.stage)
    BY <1>3, <1>11, LateSaid
  <2>2. Late(Coming \o m, s'.stage)
    BY <1>11, <2>1 DEF Late
  <2>. QED BY <1>4, <1>11, <2>2
<1>12. ASSUME NEW t \in Questions, NEW m, Reacts(t, m)
       PROVE  s.stage = "login"
  <2>1. Affairs.stage = "login"
    BY <1>2, <1>3, <1>7, <1>12, TalksServed
  <2>. QED BY <2>1 DEF Affairs
<1>13. \A m \in Seq(Messages) : AllOf(m, Quiet) => Only(m, Answers, 0) /\ Only(m, Out, 0)
  <2>1. Quiet \cap Answers = {} /\ Quiet \cap Out = {}
    BY DEF Quiet, Out, Plain
  <2>. QED BY <2>1, OnlyHere
<1>14. /\ \A t : t \notin Answers => Only(<<M(t)>>, Answers, 0) /\ \A v : Only(<<Msg(t, v)>>, Answers, 0)
       /\ \A t : t \notin Out => Only(<<M(t)>>, Out, 0) /\ \A v : Only(<<Msg(t, v)>>, Out, 0)
       /\ Only(<<>>, Answers, 0) /\ Only(<<>>, Out, 0)
  BY Spoken
<1>15. CASE Obliges
  BY <1>7, <1>9, <1>13, <1>15 DEF Obliges, Serving
<1>16. CASE Responds \/ Confirms
  BY <1>7, <1>10, <1>12, <1>14, <1>16 DEF Responds, Confirms, Questions, Out
<1>17. CASE Starts
  <2>1. PICK w \in Windows, f \in EarlyFates \cup {<<>>} :
           Reacts("EXEC", <<Msg("ADJUST", w)>> \o Exit(f) \o <<M("SUCCESS")>>)
    BY <1>17 DEF Starts
  <2>2. Only(<<Msg("ADJUST", w)>> \o Exit(f) \o <<M("SUCCESS")>>, Out, 0)
    BY StartsSays DEF Out
  <2>. QED BY <1>7, <1>10, <1>12, <2>1, <2>2 DEF Questions
<1>18. CASE Reads \/ ReadsEnd \/ IsRepaid \/ Switches
  BY <1>7, <1>9, <1>14, <1>18 DEF Reads, ReadsEnd, IsRepaid, Switches, Serving
<1>19. CASE Exchanges
  <2>1. Coming' = Insert(Msgs(down), M("ECDH_REPLY"), M("NEWKEYS"), s.held) /\ s'.stage = s.stage
    BY <1>19 DEF Exchanges, Insert, Serving
  <2>2. Coming = Msgs(down) \o s.held /\ Msgs(down) \in Seq(Messages) /\ s.held \in Seq(Messages)
    BY TalkTyped DEF Coming
  <2>3. /\ M("ECDH_REPLY") \in Messages /\ M("NEWKEYS") \in Messages
        /\ M("ECDH_REPLY")[1] \notin Out \cup Answers /\ M("NEWKEYS")[1] \notin Out \cup Answers
    BY Plainly DEF Plain, M, Msg, Out, Answers
  <2>4. Late(Insert(Msgs(down), M("ECDH_REPLY"), M("NEWKEYS"), s.held), s.stage)
    BY <1>3, <2>2, <2>3, LateMet
  <2>. QED BY <1>4, <2>1, <2>4
<1>20. CASE Murmurs
  BY <1>8, <1>9, <1>13, <1>20 DEF Murmurs, Serving
<1>21. CASE Renews \/ Grants
  BY <1>8, <1>9, <1>14, <1>21 DEF Renews, Grants, Serving, Answers, Out
<1>22. CASE Writes
  BY <1>8, <1>11, <1>14, <1>22 DEF Writes, Answers
<1>23. CASE Exits
  <2>1. PICK f \in AllFates \cup {<<>>} : Adds(<<M("EOF")>> \o Exit(f))
    BY <1>23 DEF Exits
  <2>2. <<M("EOF")>> \in Seq(Messages) /\ Exit(f) \in Seq(Messages)
    BY Plainly, One DEF Exit, Plain
  <2>3. Only(<<M("EOF")>> \o Exit(f), Answers, 0)
    BY <1>14, <2>2, Spoken DEF Answers
  <2>. QED BY <1>8, <1>11, <1>23, <2>1, <2>3 DEF Exits
<1>24. CASE Shuts
  BY <1>8, <1>11, <1>14, <1>24 DEF Shuts, Answers
<1>. QED
  BY <1>6, <1>15, <1>16, <1>17, <1>18, <1>19, <1>20, <1>21, <1>22, <1>23, <1>24
     DEF Talk, ServerSide, ServerMore

-----------------------------------------------------------------------------
(* Every step keeps the account.                                             *)

LEMMA FlowKept ==
  ASSUME Typed, Alive, RoomInv, OwedInv,
         c'.window \in 0..MaxWindow, Plus' \in Int, s'.room \in Int, Owed' \in Int, s'.window \in Int,
         Plus' - s'.room <= Plus - s.room, Promised(Coming') \subseteq Promised(Coming),
         Alive' => /\ Early' <=> Early
                   /\ Early => Plus' <= Plus /\ Owed' = Owed
                   /\ s'.window + Owed' = s.window + Owed
  PROVE  RoomInv' /\ OwedInv'
<1>1. /\ Plus \in Int /\ Owed \in Int /\ s.room \in Int /\ s.window \in Int
      /\ \A w \in Promised(Coming) : w \in Nat
  BY FlowNat DEF Plus, Owed
<1>2. Plus' <= s'.room
  BY <1>1 DEF RoomInv
<1>3. \A w \in Promised(Coming') : Plus' + w <= s'.room
  <2> SUFFICES ASSUME NEW w \in Promised(Coming') PROVE Plus' + w <= s'.room
    OBVIOUS
  <2>1. w \in Nat /\ Plus + w <= s.room
    BY <1>1 DEF RoomInv
  <2>. QED BY <1>1, <2>1
<1>4. Alive' => (Early' => Plus' <= 0)
  <2>1. ASSUME Alive', Early' PROVE Plus' <= 0
    <3>1. Early /\ Plus <= 0 /\ Plus' <= Plus
      BY <2>1 DEF RoomInv
    <3>. QED BY <1>1, <3>1
  <2>. QED BY <2>1
<1>5. RoomInv'
  BY <1>2, <1>3, <1>4 DEF RoomInv
<1>6. OwedInv'
  <2>1. ASSUME Alive', Early' PROVE Owed' = 0
    BY <2>1 DEF OwedInv
  <2>2. ASSUME Alive', ~Early' PROVE s'.window + Owed' = WindowSize
    <3>1. ~Early /\ s.window + Owed = WindowSize /\ s'.window + Owed' = s.window + Owed
      BY <2>2 DEF OwedInv
    <3>. QED BY <3>1
  <2>. QED BY <2>1, <2>2 DEF OwedInv
<1>. QED BY <1>5, <1>6

LEMMA WeightNat ==
  ASSUME NEW q \in Seq(Messages), NEW T, T \subseteq Goods
  PROVE  Weight(q, T) \in Nat
<1>1. Weight(q \o q, T) = Weight(q, T) + Weight(q, T) /\ Weight(q, T) \in Nat
  BY WeightJoined
<1>. QED BY <1>1

LEMMA FlowHears ==
  ASSUME Typed, NEW msgs, Hears(msgs)
  PROVE  ComesIn /\ GoesOut(msgs) /\ s' = s /\ Heard \in Messages
BY FlowHeard, FlowUp DEF Hears

LEMMA AddWindowBound ==
  ASSUME Typed, NEW n \in Nat
  PROVE  /\ AddWindow(n) \in Nat /\ AddWindow(n) <= MaxWindow
         /\ AddWindow(n) <= c.window + n
<1>1. c.window \in Nat /\ MaxWindow \in Nat
  BY ChannelAssumption DEF Typed, ClientState
<1>2. AddWindow(n) = IF MaxWindow <= c.window + n THEN MaxWindow ELSE c.window + n
  BY <1>1, MinIs DEF AddWindow
<1>. QED BY <1>1, <1>2

\* The client hears what weighs nothing and says what weighs nothing.
LEMMA FlowIdle ==
  ASSUME Typed, Alive, RoomInv, OwedInv, NEW msgs \in Seq(Messages), Only(msgs, Goods, 0),
         \/ Hears(msgs) /\ Heard[1] \notin Goods \cup {"CONFIRM"}
         \/ Says(msgs),
         c'.window = c.window, c'.pending = c.pending,
         Alive' => (Phase' \in Quietly \cup {"open"} <=> Phase \in Quietly \cup {"open"})
  PROVE  RoomInv' /\ OwedInv'
<1>1. Weight(msgs, {"DATA"}) = 0 /\ Weight(msgs, {"ADJUST"}) = 0
  BY Light DEF Goods
<1>2. s' = s /\ Fed' = Fed /\ Repaid' = Repaid
  <2>1. GoesOut(msgs) /\ s' = s
    BY FlowHears, FlowUp DEF Says
  <2>. QED BY <1>1, <2>1, FlowNat DEF GoesOut
<1>3. Granted' = Granted /\ Produced' = Produced /\ Promised(Coming') = Promised(Coming)
  <2>1. CASE Hears(msgs) /\ Heard[1] \notin Goods \cup {"CONFIRM"}
    <3>1. ComesIn
      BY <2>1, FlowHears
    <3>2. Heard[1] # "ADJUST" /\ Heard[1] \notin Out /\ Heard[1] # "CONFIRM"
      BY <2>1 DEF Goods, Out
    <3>3. Granted = 0 + Granted' /\ Produced = 0 + Produced'
      BY <3>1, <3>2 DEF ComesIn
    <3>4. Granted' = Granted /\ Produced' = Produced
      <4>1. Coming' \in Seq(Messages)
        <5>1. Coming \in Seq(Messages) /\ Coming # <<>> /\ Coming' = Tail(Coming)
          BY <2>1, TalkTyped DEF Hears
        <5>. QED BY <5>1, HeadTail
      <4>2. {"ADJUST"} \subseteq Goods /\ Out \subseteq Goods
        BY DEF Goods, Out
      <4>3. Granted' \in Nat /\ Produced' \in Nat
        BY <4>1, <4>2, WeightNat DEF Granted, Produced
      <4>4. \A x \in Nat : 0 + x = x
        OBVIOUS
      <4>5. 0 + Granted' = Granted' /\ 0 + Produced' = Produced'
        BY <4>3, <4>4
      <4>. QED BY <3>3, <4>5, Zenon
    <3>. QED BY <3>1, <3>2, <3>4 DEF ComesIn
  <2>2. CASE Says(msgs)
    BY <2>2 DEF Says, Granted, Produced
  <2>. QED BY <2>1, <2>2
<1>4. Plus' = Plus /\ Owed' = Owed
  BY <1>2, <1>3 DEF Plus, Owed
<1>5. Alive' => (Early' <=> Early)
  BY <1>3 DEF Early
<1>6. /\ Plus \in Int /\ Owed \in Int /\ s.room \in Int /\ s.window \in Int
  BY FlowNat DEF Plus, Owed
<1>7. c'.window \in 0..MaxWindow /\ Plus' \in Int /\ s'.room \in Int /\ Owed' \in Int /\ s'.window \in Int
  BY <1>2, <1>4, <1>6 DEF RoomInv
<1>8. Plus' - s'.room <= Plus - s.room /\ s'.window + Owed' = s.window + Owed
  BY <1>2, <1>4, <1>6
<1>9. Plus' <= Plus
  BY <1>4, <1>6
<1>. QED BY <1>3, <1>4, <1>5, <1>7, <1>8, <1>9, FlowKept

\* What is on its way after the client heard a message and said `msgs'.
LEMMA FlowAfter ==
  ASSUME Typed, NEW msgs, Hears(msgs)
  PROVE  /\ Granted' \in Nat /\ Produced' \in Nat /\ s' = s /\ Heard \in Messages
         /\ Fed' = Fed + Weight(msgs, {"DATA"}) /\ Repaid' = Repaid + Weight(msgs, {"ADJUST"})
         /\ Heard[1] = "ADJUST" => Granted = Heard[2] + Granted'
         /\ Heard[1] # "ADJUST" => Granted' = Granted
         /\ Heard[1] \in Out => Produced = Len(Heard[2]) + Produced'
         /\ Heard[1] \notin Out => Produced' = Produced
         /\ Promised(Coming') \subseteq Promised(Coming)
         /\ Heard[1] # "CONFIRM" => Promised(Coming') = Promised(Coming)
         /\ Heard[1] = "CONFIRM" => Heard[2][1] \in Promised(Coming)
<1>1. ComesIn /\ GoesOut(msgs) /\ s' = s /\ Heard \in Messages
  BY FlowHears
<1>2. Coming' \in Seq(Messages)
  <2>1. Coming \in Seq(Messages) /\ Coming # <<>> /\ Coming' = Tail(Coming)
    BY TalkTyped DEF Hears
  <2>. QED BY <2>1, HeadTail
<1>3. {"ADJUST"} \subseteq Goods /\ Out \subseteq Goods
  BY DEF Goods, Out
<1>4. Granted' \in Nat /\ Produced' \in Nat
  BY <1>2, <1>3, WeightNat DEF Granted, Produced
<1>5. \A x \in Nat : 0 + x = x
  OBVIOUS
<1>6. 0 + Granted' = Granted' /\ 0 + Produced' = Produced'
  BY <1>4, <1>5
<1>7. /\ Heard[1] = "ADJUST" => Granted = Heard[2] + Granted'
      /\ Heard[1] # "ADJUST" => Granted = 0 + Granted'
      /\ Heard[1] \in Out => Produced = Len(Heard[2]) + Produced'
      /\ Heard[1] \notin Out => Produced = 0 + Produced'
  BY <1>1 DEF ComesIn
<1>8. /\ Heard[1] # "ADJUST" => Granted' = Granted
      /\ Heard[1] \notin Out => Produced' = Produced
  BY <1>6, <1>7, Zenon
<1>. QED BY <1>1, <1>4, <1>7, <1>8 DEF ComesIn, GoesOut

\* The window the server announced is the client's from now on.
LEMMA FlowConfirmed ==
  ASSUME Typed, TalkInv, RoomInv, OwedInv, Confirmed
  PROVE  RoomInv' /\ OwedInv'
<1>1. PICK type \in {"PTY_REQ", "EXEC"} : Hears(<<M(type)>>)
  BY DEF Confirmed
<1>2. Alive /\ Coming # <<>> /\ Coming' = Tail(Coming) /\ Coming \in Seq(Messages)
  BY <1>1, TalkTyped DEF Hears
<1>3. /\ Heard[1] = "CONFIRM" /\ c'.window = Heard[2][1] /\ c'.pending = c.pending
      /\ Phase' \in {"pty", "exec"}
  BY DEF Confirmed, Showing
<1>4. PICK msgs \in Seq(Messages) : msgs = <<M(type)>>
  BY <1>1 DEF Hears
<1>5. Weight(msgs, {"DATA"}) = 0 /\ Weight(msgs, {"ADJUST"}) = 0
  <2>1. Only(msgs, Goods, 0)
    BY <1>4, Spoken DEF Goods
  <2>. QED BY <2>1, Light DEF Goods
<1>6. /\ Granted' = Granted /\ Produced' = Produced /\ Fed' = Fed + 0 /\ Repaid' = Repaid + 0
      /\ s' = s /\ Heard[2][1] \in Promised(Coming) /\ Heard \in Messages
  <2>1. Hears(msgs) /\ Heard[1] # "ADJUST" /\ Heard[1] \notin Out
    BY <1>1, <1>3, <1>4 DEF Out
  <2>. QED BY <1>3, <1>5, <2>1, FlowAfter
<1>7. Promised(Coming') = {}
  <2>1. PICK n : Only(Coming, Answers, n)
    BY <1>2, TalksStand DEF TalkInv
  <2>2. n = 1 /\ Only(Tail(Coming), Answers, Shift(n))
    BY <1>2, <1>3, <2>1, OnlyTail DEF Answers, Heard
  <2>3. Tail(Coming) \in Seq(Messages) /\ Only(Tail(Coming), Answers, 0)
    BY <1>2, <2>2, HeadTail DEF Shift
  <2>. QED BY <1>2, <2>3, PromisedNone
<1>8. ~Early /\ ~Early'
  BY <1>3, <1>6 DEF Early, Quietly
<1>9. PICK w : w = Heard[2][1]
  OBVIOUS
<1>10. w \in Nat /\ w \in 0..MaxWindow
  BY <1>3, <1>6, <1>9, Carries
<1>11. Plus + w <= s.room /\ s.window + Owed = WindowSize
  BY <1>2, <1>6, <1>8, <1>9 DEF RoomInv, OwedInv
<1>12. Plus' <= s.room /\ Owed' = Owed
  <2>1. /\ Fed \in Nat /\ Granted \in Nat /\ c.window \in Nat /\ c.pending \in Nat /\ Produced \in Nat
        /\ Repaid \in Nat /\ s.room \in Int
    BY FlowNat
  <2>2. Plus' = Fed + Granted + w /\ Owed' = Produced + c.pending + Repaid
    BY <1>3, <1>6, <1>9, <2>1 DEF Plus, Owed
  <2>. QED BY <1>10, <1>11, <2>1, <2>2 DEF Plus, Owed
<1>13. RoomInv'
  BY <1>3, <1>6, <1>7, <1>8, <1>9, <1>10, <1>12 DEF RoomInv
<1>14. OwedInv'
  BY <1>6, <1>8, <1>11, <1>12 DEF OwedInv
<1>. QED BY <1>13, <1>14

LEMMA FlowClient ==
  ASSUME Typed, Alive, TalkInv, LateInv, RoomInv, OwedInv, ClientSide
  PROVE  RoomInv' /\ OwedInv'
<1>1. /\ Fed \in Nat /\ Granted \in Nat /\ Produced \in Nat /\ Repaid \in Nat
      /\ c.window \in Nat /\ c.pending \in Nat /\ s.room \in Int /\ s.window \in Int
      /\ c.window \in 0..MaxWindow /\ c.outq \in Seq(Nat) /\ MaxWindow \in Nat
  BY FlowNat, ChannelAssumption DEF RoomInv, Typed, ClientState
<1>2. ASSUME NEW msgs, Hears(msgs), Only(msgs, Goods, 0), Heard[1] \notin Goods \cup {"CONFIRM"},
             c'.window = c.window, c'.pending = c.pending,
             Alive' => (Phase' \in Quietly \cup {"open"} <=> Phase \in Quietly \cup {"open"})
      PROVE  RoomInv' /\ OwedInv'
  <2>1. msgs \in Seq(Messages)
    BY <1>2 DEF Hears
  <2>. QED BY <1>2, <2>1, FlowIdle
<1>3. \A msgs : Hears(msgs) /\ AllOf(msgs, Quiet) => Only(msgs, Goods, 0)
  BY Light DEF Hears
<1>4. Quiet \cap Goods = {} /\ "CONFIRM" \notin Quiet /\ Quietly \cap {"pty", "exec", "run"} = {}
  BY DEF Quiet, Goods, Plain, Answers, Quietly
<1>5. /\ \A t : t \notin Goods => Only(<<M(t)>>, Goods, 0) /\ \A v : Only(<<Msg(t, v)>>, Goods, 0)
      /\ Only(<<>>, Goods, 0)
  BY Spoken
<1>6. CASE Chats
  BY <1>2, <1>3, <1>4, <1>6 DEF Chats, Stays, Sending, Showing, Goods
<1>7. CASE LogsIn
  BY <1>2, <1>3, <1>4, <1>7 DEF LogsIn, Sending, Showing
<1>8. CASE TakesTurn
  <2>1. Only(<<M("ECDH_INIT")>>, Goods, 0) /\ Only(<<M("KEXINIT"), M("ECDH_INIT")>>, Goods, 0)
    <3>1. M("ECDH_INIT")[1] = "ECDH_INIT" /\ M("KEXINIT")[1] = "KEXINIT"
      BY DEF M, Msg
    <3>2. \A m, n : Len(<<m, n>>) = 2 /\ <<m, n>>[1] = m /\ <<m, n>>[2] = n
      OBVIOUS
    <3>. QED BY <1>5, <3>1, <3>2 DEF Only, Goods
  <2>. QED BY <1>2, <1>8, <2>1 DEF TakesTurn, Stays, Sending, Showing, Goods
<1>9. CASE EndsTurn
  BY <1>2, <1>5, <1>9 DEF EndsTurn, Stays, Sending, Showing, Goods
<1>10. CASE Asks
  BY <1>2, <1>4, <1>5, <1>10 DEF Asks, Sending, Showing, Goods
<1>11. CASE AsksOn \/ Runs
  BY <1>2, <1>4, <1>5, <1>11 DEF AsksOn, Runs, Sending, Showing, Goods
<1>12. CASE IsTold
  BY <1>2, <1>5, <1>12 DEF IsTold, Sending, Showing, Goods
<1>13. CASE Leaves
  BY <1>2, <1>5, <1>13 DEF Leaves, Sending, Showing, Goods, Alive
<1>14. CASE Confirmed
  BY <1>14, FlowConfirmed
<1>15. CASE Drops
  <2>1. Hears(<<>>) /\ Phase \in {"pty", "exec"} /\ Stays
    BY <1>15 DEF Drops
  <2>2. Heard[1] \notin Out
    BY <1>15, NothingDropped
  <2>3. Heard[1] \notin Goods \cup {"CONFIRM"}
    BY <1>15, <2>2 DEF Drops, Out, Goods
  <2>. QED BY <1>2, <1>5, <2>1, <2>3 DEF Stays, Sending, Showing
<1>16. ASSUME NEW msgs, Hears(msgs), Phase \notin Quietly \cup {"open"}, Phase' = Phase,
              Heard[1] # "CONFIRM",
              c'.window \in 0..MaxWindow, c'.pending \in Nat,
              Weight(msgs, {"DATA"}) \in Nat, Weight(msgs, {"ADJUST"}) \in Nat,
              Weight(msgs, {"DATA"}) + Granted' + c'.window <= Granted + c.window,
              Produced' + c'.pending + Weight(msgs, {"ADJUST"}) = Produced + c.pending
       PROVE  RoomInv' /\ OwedInv'
  <2>1. /\ Granted' \in Nat /\ Produced' \in Nat /\ s' = s /\ Promised(Coming') = Promised(Coming)
        /\ Fed' = Fed + Weight(msgs, {"DATA"}) /\ Repaid' = Repaid + Weight(msgs, {"ADJUST"})
    BY <1>16, FlowAfter
  <2>2. ~Early /\ ~Early'
    BY <1>16 DEF Early
  <2>3. PICK x, y, d : x = Weight(msgs, {"DATA"}) /\ y = Weight(msgs, {"ADJUST"}) /\ d = c'.window
    OBVIOUS
  <2>4. x \in Nat /\ y \in Nat /\ d \in Nat
    BY <1>16, <2>3
  <2>5. Plus' = Fed + x + Granted' + d /\ Owed' = Produced' + c'.pending + (Repaid + y)
    BY <2>1, <2>3 DEF Plus, Owed
  <2>6. x + Granted' + d <= Granted + c.window /\ Produced' + c'.pending + y = Produced + c.pending
    BY <1>16, <2>3
  <2>7. /\ Plus' \in Int /\ Owed' \in Int /\ Plus' <= Plus /\ Owed' = Owed /\ Plus \in Int /\ Owed \in Int
    <3>1. PICK p, q, r : p = c'.pending /\ q = Granted' /\ r = Produced'
      OBVIOUS
    <3>2. p \in Nat /\ q \in Nat /\ r \in Nat
      BY <1>16, <2>1, <3>1
    <3>3. Plus' = Fed + x + q + d /\ Owed' = r + p + (Repaid + y)
      BY <2>5, <3>1
    <3>4. x + q + d <= Granted + c.window /\ r + p + y = Produced + c.pending
      BY <2>6, <3>1
    <3>5. Plus' \in Int /\ Plus' <= Plus /\ Plus \in Int
      BY <1>1, <2>4, <3>2, <3>3, <3>4, SMTT(30) DEF Plus
    <3>6. Owed' \in Int /\ Owed' = Owed /\ Owed \in Int
      BY <1>1, <2>4, <3>2, <3>3, <3>4, SMTT(30) DEF Owed
    <3>. QED BY <3>5, <3>6
  <2>8. /\ s'.room \in Int /\ s'.window \in Int /\ Plus' - s'.room <= Plus - s.room
        /\ s'.window + Owed' = s.window + Owed
    BY <1>1, <2>1, <2>7
  <2>. QED BY <1>16, <2>1, <2>2, <2>7, <2>8, FlowKept
<1>17. /\ Weight(<<>>, {"DATA"}) = 0 /\ Weight(<<>>, {"ADJUST"}) = 0
       /\ \A n \in Nat : /\ Weight(<<Msg("ADJUST", n)>>, {"DATA"}) = 0
                         /\ Weight(<<Msg("ADJUST", n)>>, {"ADJUST"}) = n
  <2>1. {"DATA"} \subseteq Goods /\ {"ADJUST"} \subseteq Goods
    BY DEF Goods
  <2>2. ASSUME NEW n \in Nat, NEW m, m = Msg("ADJUST", n)
        PROVE  Weight(<<m>>, {"DATA"}) = 0 /\ Weight(<<m>>, {"ADJUST"}) = n
    <3>1. m \in Messages /\ m[1] = "ADJUST" /\ m[2] = n
      BY <2>2, Plainly DEF Msg
    <3>2. LoadOf(m, {"DATA"}) = 0 /\ LoadOf(m, {"ADJUST"}) = n
      BY <3>1 DEF LoadOf
    <3>. QED BY <2>1, <3>1, <3>2, WeightHere
  <2>. QED BY <2>1, <2>2, WeightHere
<1>18. CASE Notes
  <2>1. /\ Heard[1] = "ADJUST" /\ Hears(<<>>) /\ Phase \in {"pty", "exec"} /\ Phase' = Phase
        /\ c'.window = AddWindow(Heard[2]) /\ c'.pending = c.pending
    BY <1>18 DEF Notes, Showing
  <2>2. PICK n \in Nat : n = Heard[2] /\ Granted = n + Granted' /\ Produced' = Produced /\ Granted' \in Nat
    BY <2>1, FlowAfter, Carries DEF Out
  <2>3. c'.window \in Nat /\ c'.window <= MaxWindow /\ c'.window <= c.window + n
    BY <2>1, <2>2, AddWindowBound
  <2>4. c'.window \in 0..MaxWindow /\ 0 + Granted' + c'.window <= Granted + c.window
    <3>1. PICK q, d : q = Granted' /\ d = c'.window
      OBVIOUS
    <3>2. PICK o, gr : o = c.window /\ gr = Granted
      OBVIOUS
    <3>3. /\ d \in Nat /\ d <= MaxWindow /\ d <= o + n /\ gr = n + q
          /\ q \in Nat /\ o \in Nat /\ gr \in Nat /\ MaxWindow \in Nat
      BY <1>1, <2>2, <2>3, <3>1, <3>2
    <3>4. d \in 0..MaxWindow /\ 0 + q + d <= gr + o
      BY ONLY <3>3, n \in Nat
    <3>. QED BY <3>1, <3>2, <3>4
  <2>5. Produced' + c'.pending + 0 = Produced + c.pending /\ c'.pending \in Nat
    BY <1>1, <2>1, <2>2
  <2>6. Phase \notin Quietly \cup {"open"} /\ Heard[1] # "CONFIRM"
    BY <1>4, <2>1
  <2>. QED BY <1>16, <1>17, <2>1, <2>4, <2>5, <2>6
<1>19. CASE Shows
  <2>1. /\ Heard[1] \in Out /\ Phase = "run" /\ Phase' = Phase /\ c'.window = c.window
    BY <1>19 DEF Shows, Sending, Out
  <2>2. PICK l \in Nat : l = Len(Heard[2])
    <3>1. \E msgs : Hears(msgs)
      BY <1>19 DEF Shows
    <3>2. Heard[2] \in Seq(Nat)
      BY <2>1, <3>1, FlowAfter, Carries DEF Out
    <3>. QED BY <3>2
  <2>3. PICK o : o = c.pending + l
    OBVIOUS
  <2>4. o \in Nat
    BY <1>1, <2>3
  <2>5. \/ Hears(<<>>) /\ c'.pending = o
        \/ Hears(<<Msg("ADJUST", o)>>) /\ c'.pending = 0
    BY <1>19, <2>2, <2>3 DEF Shows
  <2>6. Granted' = Granted /\ Produced = l + Produced' /\ Produced' \in Nat /\ Heard[1] # "CONFIRM"
    BY <2>1, <2>2, <2>5, FlowAfter DEF Out
  <2>7. Phase \notin Quietly \cup {"open"}
    BY <1>4, <2>1
  <2>8. 0 + Granted' + c'.window <= Granted + c.window
    BY <1>1, <2>1, <2>6
  <2>9. Produced' + o + 0 = Produced + c.pending /\ Produced' + 0 + o = Produced + c.pending
    BY <1>1, <2>3, <2>6
  <2>10. CASE Hears(<<>>) /\ c'.pending = o
    <3>1. PICK msgs : msgs = <<>>
      OBVIOUS
    <3>2. Weight(msgs, {"DATA"}) = 0 /\ Weight(msgs, {"ADJUST"}) = 0 /\ Hears(msgs)
      BY <1>17, <2>10, <3>1
    <3>3. /\ Weight(msgs, {"DATA"}) \in Nat /\ Weight(msgs, {"ADJUST"}) \in Nat
          /\ Weight(msgs, {"DATA"}) + Granted' + c'.window <= Granted + c.window
          /\ Produced' + c'.pending + Weight(msgs, {"ADJUST"}) = Produced + c.pending
          /\ c'.window \in 0..MaxWindow /\ c'.pending \in Nat
      BY <1>1, <2>1, <2>4, <2>8, <2>9, <2>10, <3>2
    <3>. QED BY <1>16, <2>1, <2>6, <2>7, <3>2, <3>3
  <2>11. CASE Hears(<<Msg("ADJUST", o)>>) /\ c'.pending = 0
    <3>1. PICK msgs : msgs = <<Msg("ADJUST", o)>>
      OBVIOUS
    <3>2. Weight(msgs, {"DATA"}) = 0 /\ Weight(msgs, {"ADJUST"}) = o /\ Hears(msgs)
      BY <1>17, <2>4, <2>11, <3>1
    <3>3. /\ Weight(msgs, {"DATA"}) \in Nat /\ Weight(msgs, {"ADJUST"}) \in Nat
          /\ Weight(msgs, {"DATA"}) + Granted' + c'.window <= Granted + c.window
          /\ Produced' + c'.pending + Weight(msgs, {"ADJUST"}) = Produced + c.pending
          /\ c'.window \in 0..MaxWindow /\ c'.pending \in Nat
      BY <1>1, <2>1, <2>4, <2>8, <2>9, <2>11, <3>2
    <3>. QED BY <1>16, <2>1, <2>6, <2>7, <3>2, <3>3
  <2>. QED BY <2>5, <2>10, <2>11
<1>20. CASE Widens
  <2>1. PICK n \in Nat, w \in Nat :
           n = Heard[2] /\ w = AddWindow(n) /\ w <= MaxWindow /\ w <= c.window + n
    <3>1. Heard[1] = "ADJUST" /\ \E msgs : Hears(msgs)
      BY <1>20 DEF Widens
    <3>2. Heard[2] \in Nat
      BY <3>1, FlowAfter, Carries
    <3>. QED BY <3>2, AddWindowBound
  <2>2. PICK ends : ends = (c.eofPending /\ Rest(c.outq, w) = <<>>)
    OBVIOUS
  <2>3. PICK msgs : msgs = Chunks(c.outq, w) \o (IF ends THEN <<M("EOF")>> ELSE <<>>)
    OBVIOUS
  <2>4. /\ Heard[1] = "ADJUST" /\ Hears(msgs) /\ Phase = "run" /\ Phase' = Phase
        /\ c'.window = w - Fits(c.outq, w) /\ c'.pending = c.pending
    BY <1>20, <2>1, <2>2, <2>3 DEF Widens, Showing
  <2>5. PICK f \in Nat : f = Fits(c.outq, w) /\ f <= w /\ Weight(Chunks(c.outq, w), {"DATA"}) = f
    BY <1>1, FitsIs, WeightChunks, ZenonT(30)
  <2>6. Weight(msgs, {"DATA"}) = f
    <3>1. PICK last : last = IF ends THEN <<M("EOF")>> ELSE <<>>
      OBVIOUS
    <3>2. last \in Seq(Messages) /\ Weight(last, {"DATA"}) = 0
      <4>1. <<M("EOF")>> \in Seq(Messages) /\ <<>> \in Seq(Messages)
        BY Plainly, One DEF Plain
      <4>2. Weight(<<M("EOF")>>, {"DATA"}) = 0
        <5>1. Only(<<M("EOF")>>, Goods, 0)
          BY <1>5 DEF Goods
        <5>. QED BY <4>1, <5>1, Light DEF Goods
      <4>. QED BY <1>17, <3>1, <4>1, <4>2
    <3>3. Chunks(c.outq, w) \in Seq(Messages)
      <4>1. "DATA" \notin Answers
        BY DEF Answers
      <4>. QED BY <1>1, <4>1, ChunksSpoken
    <3>4. Weight(Chunks(c.outq, w) \o last, {"DATA"}) = f + 0
      BY <2>5, <3>2, <3>3, WeightJoined DEF Goods
    <3>. QED BY <2>3, <3>1, <3>4
  <2>7. Weight(msgs, {"ADJUST"}) = 0
    <3>1. Only(Chunks(c.outq, AddWindow(n)) \o (IF ends THEN <<M("EOF")>> ELSE <<>>), {"ADJUST"}, 0)
      BY WidensSays
    <3>2. Only(msgs, {"ADJUST"}, 0) /\ msgs \in Seq(Messages)
      BY <2>1, <2>3, <2>4, <3>1 DEF Hears
    <3>. QED BY <3>2, WeightHere DEF Goods
  <2>8. Granted = n + Granted' /\ Produced' = Produced /\ Granted' \in Nat /\ Heard[1] # "CONFIRM"
    BY <2>1, <2>4, FlowAfter DEF Out
  <2>9. PICK d : d = w - f
    OBVIOUS
  <2>10. c'.window = d /\ d \in 0..MaxWindow /\ f + Granted' + d <= Granted + c.window
    <3>1. c'.window = d
      BY <2>4, <2>5, <2>9
    <3>2. PICK q : q = Granted'
      OBVIOUS
    <3>3. PICK o, gr : o = c.window /\ gr = Granted
      OBVIOUS
    <3>4. /\ w <= MaxWindow /\ w <= o + n /\ gr = n + q /\ d = w - f /\ f <= w
          /\ q \in Nat /\ o \in Nat /\ gr \in Nat /\ MaxWindow \in Nat
      BY <1>1, <2>1, <2>5, <2>8, <2>9, <3>2, <3>3
    <3>5. d \in 0..MaxWindow /\ f + q + d <= gr + o
      BY ONLY <3>4, n \in Nat, w \in Nat, f \in Nat
    <3>. QED BY <3>1, <3>2, <3>3, <3>5
  <2>11. Phase \notin Quietly \cup {"open"}
    BY <1>4, <2>4
  <2>12. Produced' + c'.pending + 0 = Produced + c.pending /\ c'.pending \in Nat
    BY <1>1, <2>4, <2>8
  <2>13. /\ Weight(msgs, {"DATA"}) \in Nat /\ Weight(msgs, {"ADJUST"}) \in Nat
         /\ Weight(msgs, {"DATA"}) + Granted' + c'.window <= Granted + c.window
         /\ Produced' + c'.pending + Weight(msgs, {"ADJUST"}) = Produced + c.pending
         /\ c'.window \in 0..MaxWindow
    BY <2>5, <2>6, <2>7, <2>10, <2>12
  <2>. QED BY <1>16, <2>4, <2>8, <2>11, <2>12, <2>13
<1>21. CASE Dies
  <2>1. /\ ~Alive' /\ s' = s /\ Fed' = Fed /\ c'.window = c.window
    BY <1>21 DEF Dies, Alive, Fed, Sending
  <2>2. Granted' \in Nat /\ Granted' <= Granted
    <3>1. CASE Coming' = Coming
      BY <1>1, <3>1 DEF Granted
    <3>2. CASE Coming # <<>> /\ Coming' = Tail(Coming)
      <4>1. Coming \in Seq(Messages) /\ {"ADJUST"} \subseteq Goods
        BY TalkTyped DEF Goods
      <4>2. /\ Granted = LoadOf(Head(Coming), {"ADJUST"}) + Weight(Tail(Coming), {"ADJUST"})
            /\ LoadOf(Head(Coming), {"ADJUST"}) \in Nat /\ Weight(Tail(Coming), {"ADJUST"}) \in Nat
        BY <3>2, <4>1, WeightHead DEF Granted
      <4>3. Granted' = Weight(Tail(Coming), {"ADJUST"})
        BY <3>2 DEF Granted
      <4>. QED BY <4>2, <4>3
    <3>. QED BY <1>21, <3>1, <3>2 DEF Dies
  <2>3. Plus' <= s'.room
    <3>1. Plus' = Fed + Granted' + c.window
      BY <2>1 DEF Plus
    <3>2. Fed + Granted + c.window <= s.room
      BY DEF RoomInv, Plus
    <3>3. Fed + Granted' + c.window <= s.room
      BY <1>1, <2>2, <3>2
    <3>. QED BY <2>1, <3>1, <3>3
  <2>. QED BY <1>1, <2>1, <2>3 DEF RoomInv, OwedInv
<1>. QED
  BY <1>6, <1>7, <1>8, <1>9, <1>10, <1>11, <1>12, <1>13, <1>14, <1>15, <1>18, <1>19, <1>20, <1>21
     DEF ClientSide

LEMMA FlowUser ==
  ASSUME Typed, Alive, RoomInv, OwedInv, UserSide
  PROVE  RoomInv' /\ OwedInv'
<1>1. /\ Fed \in Nat /\ Granted \in Nat /\ Produced \in Nat /\ Repaid \in Nat
      /\ c.window \in Nat /\ c.pending \in Nat /\ s.room \in Int /\ s.window \in Int
      /\ c.window \in 0..MaxWindow /\ MaxWindow \in Nat
  BY FlowNat, ChannelAssumption DEF RoomInv
<1>2. Only(<<>>, Goods, 0) /\ Only(<<M("EOF")>>, Goods, 0)
  BY Spoken DEF Goods
<1>3. ASSUME NEW msgs, Says(msgs), Only(msgs, Goods, 0), Phase' = Phase,
             c'.window = c.window, c'.pending = c.pending
      PROVE  RoomInv' /\ OwedInv'
  <2>1. msgs \in Seq(Messages)
    BY <1>3 DEF Says
  <2>. QED BY <1>3, <2>1, FlowIdle
<1>4. CASE Remarks
  BY <1>3, <1>4, Light DEF Remarks, Says, Stays, Sending, Showing
<1>5. CASE Finishes
  BY <1>2, <1>3, <1>5 DEF Finishes, Showing
<1>6. CASE TypesMore
  <2>1. PICK n \in 1..MaxBurst : \E data :
           /\ data = [i \in 1..n |-> typed + i]
           /\ \/ Says(<<>>) /\ c'.window = c.window
              \/ Says(Chunks(data, c.window)) /\ c'.window = c.window - Fits(data, c.window)
    BY <1>6 DEF TypesMore
  <2>2. PICK data \in Seq(Nat) :
           \/ Says(<<>>) /\ c'.window = c.window
           \/ Says(Chunks(data, c.window)) /\ c'.window = c.window - Fits(data, c.window)
    <3>1. typed \in Nat /\ n \in Nat
      BY DEF Typed
    <3>2. [i \in 1..n |-> typed + i] \in Seq(Nat)
      BY <3>1
    <3>. QED BY <2>1, <3>2
  <2>3. Phase' = Phase /\ c'.pending = c.pending
    BY <1>6 DEF TypesMore, Showing
  <2>4. CASE Says(<<>>) /\ c'.window = c.window
    BY <1>2, <1>3, <2>3, <2>4
  <2>5. CASE Says(Chunks(data, c.window)) /\ c'.window = c.window - Fits(data, c.window)
    <3>1. PICK msgs, f, o, d : /\ msgs = Chunks(data, c.window) /\ f = Fits(data, c.window)
                               /\ o = c.window /\ d = o - f
      OBVIOUS
    <3>2. f \in Nat /\ f <= o /\ Weight(msgs, {"DATA"}) = f
      BY <1>1, <2>2, <3>1, FitsIs, WeightChunks
    <3>3. Says(msgs) /\ c'.window = d /\ o \in Nat /\ msgs \in Seq(Messages)
      BY <1>1, <2>5, <3>1 DEF Says
    <3>4. Weight(msgs, {"ADJUST"}) = 0
      <4>1. "DATA" \notin {"ADJUST"}
        OBVIOUS
      <4>2. Only(msgs, {"ADJUST"}, 0)
        BY <1>1, <2>2, <3>1, <4>1, ChunksSpoken
      <4>. QED BY <3>3, <4>2, WeightHere DEF Goods
    <3>5. /\ s' = s /\ Granted' = Granted /\ Produced' = Produced /\ Promised(Coming') = Promised(Coming)
      BY <3>3 DEF Says, Granted, Produced
    <3>6. Fed' = Fed + f /\ Repaid' = Repaid + 0
      BY <3>2, <3>3, <3>4, FlowUp DEF Says, GoesOut
    <3>7. ~Early /\ ~Early'
      <4>1. Phase = "run"
        BY <2>5 DEF Says, Phase, InKex
      <4>. QED BY <2>3, <4>1 DEF Early, Quietly
    <3>8. Plus' = (Fed + f) + Granted + d /\ Plus = Fed + Granted + o
      BY <3>1, <3>3, <3>5, <3>6 DEF Plus
    <3>9. d \in Nat /\ d <= o /\ Plus' \in Int /\ Plus' = Plus /\ Plus \in Int
      <4>1. d \in Nat /\ d <= o
        BY ONLY <3>1, <3>2, <3>3
      <4>2. (Fed + f) + Granted + d = Fed + Granted + o
        BY ONLY <1>1, <3>1, <3>2, <3>3, SMTT(30)
      <4>. QED BY <1>1, <3>3, <3>8, <4>1, <4>2
    <3>10. Owed' = Owed /\ Owed \in Int
      BY <1>1, <2>3, <3>5, <3>6 DEF Owed
    <3>11. /\ c'.window \in 0..MaxWindow /\ Plus' - s'.room <= Plus - s.room
           /\ s'.window + Owed' = s.window + Owed /\ s'.room \in Int /\ s'.window \in Int
           /\ Owed' \in Int
      BY <1>1, <3>1, <3>3, <3>5, <3>9, <3>10
    <3>. QED BY <3>5, <3>7, <3>9, <3>11, FlowKept
  <2>. QED BY <2>2, <2>4, <2>5
<1>. QED BY <1>4, <1>5, <1>6 DEF UserSide

\* What is on its way after the server heard a message, and after it said `msgs'.
LEMMA FlowTaken ==
  ASSUME Typed, Going # <<>>, Going' = Tail(Going), NEW t, Asked[1] = t
  PROVE  /\ Fed' \in Nat /\ Repaid' \in Nat /\ Asked \in Messages /\ Asked[1] = t
         /\ t = "DATA" => Fed = Len(Asked[2]) + Fed'
         /\ t # "DATA" => Fed' = Fed
         /\ t = "ADJUST" => Repaid = Asked[2] + Repaid'
         /\ t # "ADJUST" => Repaid' = Repaid
<1>2. GoesIn /\ Asked \in Messages
  BY FlowAsked
<1>3. Going' \in Seq(Messages) /\ {"DATA"} \subseteq Goods /\ {"ADJUST"} \subseteq Goods
  BY TalkTyped, HeadTail DEF Goods
<1>4. Fed' \in Nat /\ Repaid' \in Nat
  BY <1>3, WeightNat DEF Fed, Repaid
<1>5. \A x \in Nat : 0 + x = x
  OBVIOUS
<1>6. 0 + Fed' = Fed' /\ 0 + Repaid' = Repaid'
  BY <1>4, <1>5
<1>7. /\ t = "DATA" => Fed = Len(Asked[2]) + Fed'
      /\ t # "DATA" => Fed = 0 + Fed'
      /\ t = "ADJUST" => Repaid = Asked[2] + Repaid'
      /\ t # "ADJUST" => Repaid = 0 + Repaid'
  BY <1>2 DEF GoesIn
<1>8. (t # "DATA" => Fed' = Fed) /\ (t # "ADJUST" => Repaid' = Repaid)
  BY <1>6, <1>7, Zenon
<1>. QED BY <1>2, <1>4, <1>7, <1>8

LEMMA FlowSpeaks ==
  ASSUME Typed, NEW msgs, Speaks(msgs)
  PROVE  /\ Alive /\ c' = c /\ msgs \in Seq(Messages)
         /\ Granted' = Granted + Weight(msgs, {"ADJUST"}) /\ Granted' \in Nat
         /\ Produced' = Produced + Weight(msgs, Out) /\ Produced' \in Nat
         /\ Promised(Coming') = Promised(Coming) \cup Promised(msgs)
<1>1. Alive /\ c' = c /\ msgs \in Seq(Messages) /\ ComesOut(msgs)
  BY FlowDown DEF Speaks
<1>2. Weight(msgs, {"ADJUST"}) \in Nat /\ Weight(msgs, Out) \in Nat
  BY <1>1, WeightNat DEF Goods, Out
<1>. QED BY <1>1, <1>2, FlowNat, SMTT(30) DEF ComesOut

LEMMA FlowServed ==
  ASSUME Typed, Alive, RoomInv, OwedInv, c' = c, Promised(Coming') = Promised(Coming),
         Fed' \in Nat, Granted' \in Nat, Produced' \in Nat, Repaid' \in Nat,
         s'.room \in Int, s'.window \in Int,
         Fed' + Granted' - s'.room <= Fed + Granted - s.room,
         s'.window + Produced' + Repaid' = s.window + Produced + Repaid,
         Early => Fed' + Granted' <= Fed + Granted /\ Produced' + Repaid' = Produced + Repaid
  PROVE  RoomInv' /\ OwedInv'
<1>1. /\ Fed \in Nat /\ Granted \in Nat /\ Produced \in Nat /\ Repaid \in Nat
      /\ c.window \in Nat /\ c.pending \in Nat /\ s.room \in Int /\ s.window \in Int
  BY FlowNat
<1>2. PICK f, g, p, r, o, w, d, e :
         /\ f = Fed' /\ g = Granted' /\ p = Produced' /\ r = Repaid' /\ o = s'.room /\ w = s'.window
         /\ d = c.window /\ e = c.pending
  OBVIOUS
<1>3. /\ f \in Nat /\ g \in Nat /\ p \in Nat /\ r \in Nat /\ o \in Int /\ w \in Int /\ d \in Nat /\ e \in Nat
      /\ f + g - o <= Fed + Granted - s.room /\ w + p + r = s.window + Produced + Repaid
      /\ Early => f + g <= Fed + Granted /\ p + r = Produced + Repaid
  BY <1>1, <1>2
<1>4. /\ Plus' = f + g + d /\ Owed' = p + e + r /\ Plus = Fed + Granted + d /\ Owed = Produced + e + Repaid
  BY <1>2 DEF Plus, Owed
<1>5. Plus' \in Int /\ Owed' \in Int
  BY <1>3, <1>4
<1>6. Plus' - o <= Plus - s.room /\ w + Owed' = s.window + Owed
  BY <1>1, <1>3, <1>4
<1>7. Early => Plus' <= Plus /\ Owed' = Owed
  BY <1>1, <1>3, <1>4
<1>8. Early' <=> Early
  BY DEF Early, Phase, InKex
<1>9. c'.window \in 0..MaxWindow
  BY DEF RoomInv
<1>. QED BY <1>2, <1>3, <1>5, <1>6, <1>7, <1>8, <1>9, FlowKept

LEMMA FlowServer ==
  ASSUME Typed, TalkInv, LateInv, RoomInv, OwedInv, ServerSide \/ ServerMore
  PROVE  RoomInv' /\ OwedInv'
<1>1. /\ Fed \in Nat /\ Granted \in Nat /\ Produced \in Nat /\ Repaid \in Nat
      /\ c.window \in Nat /\ c.pending \in Nat /\ s.room \in Int /\ s.window \in Int
  BY FlowNat
<1>2. /\ \A t, m : Reacts(t, m) => Speaks(m) /\ Going # <<>> /\ Going' = Tail(Going) /\ Asked[1] = t
      /\ \A m : Adds(m) => Speaks(m) /\ Going' = Going
  BY DEF Reacts, Adds
\* What weighs and promises nothing is heard, and said.
<1>3. ASSUME NEW m, Speaks(m), Weight(m, {"ADJUST"}) = 0, Weight(m, Out) = 0, Promised(m) = {},
             s'.room = s.room, s'.window = s.window,
             \/ Going' = Going
             \/ Going # <<>> /\ Going' = Tail(Going) /\ Asked[1] \notin Goods
      PROVE  RoomInv' /\ OwedInv'
  <2>1. /\ Alive /\ c' = c /\ Granted' = Granted + 0 /\ Produced' = Produced + 0
        /\ Promised(Coming') = Promised(Coming)
    BY <1>3, FlowSpeaks
  <2>2. Fed' = Fed /\ Repaid' = Repaid
    <3>1. CASE Going' = Going
      BY <3>1 DEF Fed, Repaid
    <3>2. CASE Going # <<>> /\ Going' = Tail(Going) /\ Asked[1] \notin Goods
      BY <3>2, FlowTaken DEF Goods
    <3>. QED BY <1>3, <3>1, <3>2
  <2>3. Granted' = Granted /\ Produced' = Produced
    BY <1>1, <2>1
  <2>. QED BY <1>1, <1>3, <2>1, <2>2, <2>3, FlowServed
<1>4. ASSUME NEW m \in Seq(Messages), Only(m, Goods, 0)
      PROVE  Weight(m, {"ADJUST"}) = 0 /\ Weight(m, Out) = 0
  BY <1>4, Light DEF Goods, Out
<1>5. ASSUME NEW m \in Seq(Messages), AllOf(m, Quiet)
      PROVE  Weight(m, {"ADJUST"}) = 0 /\ Weight(m, Out) = 0 /\ Promised(m) = {}
  BY <1>4, <1>5, Light
<1>6. /\ Only(<<>>, Goods, 0) /\ <<>> \in Seq(Messages) /\ Promised(<<>>) = {}
      /\ Weight(<<>>, {"ADJUST"}) = 0 /\ Weight(<<>>, Out) = 0
  <2>1. <<>> \in Seq(Messages)
    OBVIOUS
  <2>2. Only(<<>>, Goods, 0) /\ Only(<<>>, Answers, 0)
    BY Spoken
  <2>. QED BY <1>4, <2>1, <2>2, Light
<1>7. ASSUME NEW t \in Plain \ {"OPEN", "PTY_REQ", "EXEC"}, NEW m, m = <<M(t)>>
      PROVE  /\ m \in Seq(Messages)
             /\ Weight(m, {"ADJUST"}) = 0 /\ Weight(m, Out) = 0 /\ Promised(m) = {}
  <2>1. M(t) \in Messages /\ M(t)[1] = t /\ t \notin Goods /\ t # "CONFIRM"
    BY Plainly DEF M, Msg, Plain, Goods
  <2>2. m \in Seq(Messages) /\ Promised(m) = {} /\ Only(m, Goods, 0)
    BY <1>7, <2>1, PromisedNone, OnlyHere, One
  <2>. QED BY <1>4, <2>2
<1>8. CASE Obliges
  <2>1. PICK t \in Quiet \cup {"KEXINIT", "OPEN"}, m \in Seq(Messages) : Reacts(t, m) /\ AllOf(m, Quiet)
    BY <1>8 DEF Obliges
  <2>2. t \notin Goods
    BY DEF Quiet, Goods, Plain
  <2>. QED BY <1>2, <1>3, <1>5, <1>8, <2>1, <2>2 DEF Obliges, Serving
<1>9. CASE Responds
  <2>1. PICK t \in {"PTY_REQ", "EXEC"}, a \in {"SUCCESS", "FAILURE"} : Reacts(t, <<M(a)>>)
    BY <1>9 DEF Responds
  <2>2. a \in Plain \ {"OPEN", "PTY_REQ", "EXEC"} /\ t \notin Goods
    BY DEF Plain, Goods
  <2>. QED BY <1>2, <1>3, <1>7, <1>9, <2>1, <2>2 DEF Responds, Serving
<1>10. CASE ReadsEnd \/ Switches
  <2>1. PICK t \in {"EOF", "NEWKEYS"} : Reacts(t, <<>>)
    BY <1>10 DEF ReadsEnd, Switches
  <2>2. t \notin Goods /\ s'.room = s.room /\ s'.window = s.window
    BY <1>10 DEF ReadsEnd, Switches, Serving, Goods
  <2>. QED BY <1>2, <1>3, <1>6, <2>1, <2>2
<1>11. CASE Murmurs
  BY <1>2, <1>3, <1>5, <1>11 DEF Murmurs, Serving, Adds, Speaks
<1>12. CASE Renews \/ Shuts
  <2>1. PICK t \in {"KEXINIT", "CLOSE"} : Adds(<<M(t)>>)
    BY <1>12 DEF Renews, Shuts
  <2>2. t \in Plain \ {"OPEN", "PTY_REQ", "EXEC"} /\ s'.room = s.room /\ s'.window = s.window
    BY <1>12 DEF Plain, Renews, Shuts, Serving
  <2>. QED BY <1>2, <1>3, <1>7, <2>1, <2>2
<1>13. ASSUME NEW f \in AllFates \cup {<<>>}
       PROVE  /\ Exit(f) \in Seq(Messages) /\ Promised(Exit(f)) = {}
              /\ Weight(Exit(f), {"ADJUST"}) = 0 /\ Weight(Exit(f), Out) = 0
  <2>1. Exit(f) \in Seq(Messages)
    BY Plainly, One DEF Exit
  <2>2. Only(Exit(f), Goods, 0) /\ Only(Exit(f), Answers, 0)
    BY Spoken DEF Goods, Answers
  <2>. QED BY <1>4, <2>1, <2>2, Light
<1>14. ASSUME NEW m \in Seq(Messages), NEW n \in Seq(Messages), NEW x \in Nat,
              Weight(m, {"ADJUST"}) = x, Weight(n, {"ADJUST"}) = 0,
              Weight(m, Out) = 0, Weight(n, Out) = 0, Promised(m) = {}, Promised(n) = {}
       PROVE  /\ m \o n \in Seq(Messages) /\ Promised(m \o n) = {}
              /\ Weight(m \o n, {"ADJUST"}) = x /\ Weight(m \o n, Out) = 0
  <2>1. Promised(m \o n) = Promised(m) \cup Promised(n) /\ m \o n \in Seq(Messages)
    BY PromisedJoined, Joined
  <2>2. {"ADJUST"} \subseteq Goods /\ Out \subseteq Goods
    BY DEF Goods, Out
  <2>3. Weight(m \o n, {"ADJUST"}) = x + 0 /\ Weight(m \o n, Out) = 0 + 0
    BY <1>14, <2>2, WeightJoined
  <2>. QED BY <1>14, <2>1, <2>3
<1>15. CASE Exits
  <2>1. PICK f \in AllFates \cup {<<>>} : Adds(<<M("EOF")>> \o Exit(f))
    BY <1>15 DEF Exits
  <2>2. PICK m, n : m = <<M("EOF")>> /\ n = Exit(f)
    OBVIOUS
  <2>3. /\ m \in Seq(Messages) /\ Promised(m) = {} /\ Weight(m, {"ADJUST"}) = 0 /\ Weight(m, Out) = 0
    BY <1>7, <2>2 DEF Plain
  <2>4. /\ n \in Seq(Messages) /\ Promised(n) = {} /\ Weight(n, {"ADJUST"}) = 0 /\ Weight(n, Out) = 0
    BY <1>13, <2>2
  <2>5. /\ Promised(m \o n) = {} /\ Weight(m \o n, {"ADJUST"}) = 0 /\ Weight(m \o n, Out) = 0
    BY <1>14, <2>3, <2>4
  <2>. QED BY <1>2, <1>3, <1>15, <2>1, <2>2, <2>5 DEF Exits
<1>16. ASSUME NEW n \in Nat, NEW m, m = <<Msg("ADJUST", n)>>
       PROVE  /\ m \in Seq(Messages) /\ Promised(m) = {}
              /\ Weight(m, {"ADJUST"}) = n /\ Weight(m, Out) = 0
  <2>1. PICK x : x = Msg("ADJUST", n)
    OBVIOUS
  <2>2. x \in Messages /\ x[1] = "ADJUST" /\ x[2] = n
    BY <2>1, Plainly DEF Msg
  <2>3. LoadOf(x, {"ADJUST"}) = n /\ LoadOf(x, Out) = 0
    BY <2>2 DEF LoadOf, Out
  <2>4. {"ADJUST"} \subseteq Goods /\ Out \subseteq Goods
    BY DEF Goods, Out
  <2>5. Weight(<<x>>, {"ADJUST"}) = n /\ Weight(<<x>>, Out) = 0 /\ Promised(<<x>>) = {}
    BY <2>2, <2>3, <2>4, WeightHere, PromisedNone
  <2>. QED BY <1>16, <2>1, <2>2, <2>5, One
\* The server lets the client send more.
<1>17. ASSUME NEW n \in Nat, NEW m, Speaks(m), ~Early, Fed' = Fed, Repaid' = Repaid,
              Weight(m, {"ADJUST"}) = n, Weight(m, Out) = 0, Promised(m) = {},
              s'.room = s.room + n, s'.window = s.window
       PROVE  RoomInv' /\ OwedInv'
  <2>1. /\ Alive /\ c' = c /\ Granted' = Granted + n /\ Produced' = Produced + 0
        /\ Promised(Coming') = Promised(Coming)
    BY <1>17, FlowSpeaks
  <2>2. Granted' \in Nat /\ Produced' = Produced
    BY <1>1, <2>1
  <2>3. s'.room \in Int /\ Fed' + Granted' - s'.room <= Fed + Granted - s.room
    BY <1>1, <1>17, <2>1
  <2>. QED BY <1>1, <1>17, <2>1, <2>2, <2>3, FlowServed
<1>18. Alive => \E g, n, e, k : Talks(Going, Coming, Affairs, g, n, e, k)
  BY DEF TalkInv
<1>19. ASSUME s.stage # "login", Alive PROVE ~Early
  <2>1. Phase \in {"run", "exec"}
    BY <1>18, <1>19, TalksStand DEF Affairs
  <2>. QED BY <2>1 DEF Early, Quietly
<1>20. CASE Grants
  <2>1. PICK n \in Nat : Adds(<<Msg("ADJUST", n)>>) /\ s'.room = s.room + n
    BY <1>20 DEF Grants
  <2>2. s'.window = s.window /\ s.stage = "running"
    BY <1>20 DEF Grants
  <2>3. PICK m : m = <<Msg("ADJUST", n)>>
    OBVIOUS
  <2>4. Speaks(m) /\ Fed' = Fed /\ Repaid' = Repaid /\ Alive
    BY <1>2, <2>1, <2>3 DEF Fed, Repaid, Speaks
  <2>. QED BY <1>16, <1>17, <1>19, <2>1, <2>2, <2>3, <2>4
<1>21. CASE Starts
  <2>1. PICK w \in Windows, f \in EarlyFates \cup {<<>>} :
           /\ Reacts("EXEC", (<<Msg("ADJUST", w)>> \o Exit(f)) \o <<M("SUCCESS")>>)
           /\ s'.room = s.room + w
    BY <1>21 DEF Starts
  <2>2. w \in Nat /\ f \in AllFates \cup {<<>>} /\ s'.window = s.window
    BY <1>21, ChannelAssumption DEF Starts, AllFates
  <2>3. PICK x, y, z, m : x = <<Msg("ADJUST", w)>> /\ y = Exit(f) /\ z = <<M("SUCCESS")>> /\ m = (x \o y) \o z
    OBVIOUS
  <2>4. /\ x \in Seq(Messages) /\ Promised(x) = {} /\ Weight(x, {"ADJUST"}) = w /\ Weight(x, Out) = 0
    BY <1>16, <2>2, <2>3
  <2>5. /\ y \in Seq(Messages) /\ Promised(y) = {} /\ Weight(y, {"ADJUST"}) = 0 /\ Weight(y, Out) = 0
    BY <1>13, <2>2, <2>3
  <2>6. /\ z \in Seq(Messages) /\ Promised(z) = {} /\ Weight(z, {"ADJUST"}) = 0 /\ Weight(z, Out) = 0
    BY <1>7, <2>3 DEF Plain
  <2>7. /\ x \o y \in Seq(Messages) /\ Promised(x \o y) = {}
        /\ Weight(x \o y, {"ADJUST"}) = w /\ Weight(x \o y, Out) = 0
    BY <1>14, <2>2, <2>4, <2>5
  <2>8. Promised(m) = {} /\ Weight(m, {"ADJUST"}) = w /\ Weight(m, Out) = 0
    <3>1. PICK v : v = x \o y
      OBVIOUS
    <3>2. Promised(v \o z) = {} /\ Weight(v \o z, {"ADJUST"}) = w /\ Weight(v \o z, Out) = 0
      BY <1>14, <2>2, <2>6, <2>7, <3>1
    <3>. QED BY <2>3, <3>1, <3>2
  <2>9. /\ Speaks(m) /\ Going # <<>> /\ Going' = Tail(Going) /\ Asked[1] = "EXEC" /\ Alive
    BY <1>2, <2>1, <2>3 DEF Speaks
  <2>10. Fed' = Fed /\ Repaid' = Repaid
    BY <2>9, FlowTaken
  <2>11. ~Early
    <3>1. PICK g, n, e, k : Talks(Going, Coming, Affairs, g, n, e, k)
      BY <1>18, <2>9
    <3>2. Affairs.phase = "exec"
      BY <2>9, <3>1, TalkTyped, TalksServed DEF Asked, Questions
    <3>. QED BY <3>2 DEF Affairs, Early, Quietly
  <2>. QED BY <1>17, <2>1, <2>2, <2>8, <2>9, <2>10, <2>11
<1>22. CASE Writes
  <2>1. s.stage = "running" /\ s'.room = s.room
    BY <1>22 DEF Writes
  <2>2. PICK n \in 1..2, t \in {"DATA", "EXT_DATA"} :
           /\ Adds(<<Msg(t, [i \in 1..n |-> s.sent + i])>>)
           /\ s'.window = s.window - n
    BY <1>22 DEF Writes
  <2>3. PICK d, x, m : d = [i \in 1..n |-> s.sent + i] /\ x = Msg(t, d) /\ m = <<x>>
    OBVIOUS
  <2>4. d \in Seq(Nat) /\ Len(d) = n
    <3>1. s.sent \in Nat /\ n \in Nat
      BY DEF Typed, ServerState
    <3>. QED BY <2>3, <3>1
  <2>5. x \in Messages /\ x[1] = t /\ x[2] = d
    BY <2>3, <2>4, Plainly DEF Msg
  <2>6. LoadOf(x, {"ADJUST"}) = 0 /\ LoadOf(x, Out) = n
    BY <2>4, <2>5 DEF LoadOf, Out
  <2>7. {"ADJUST"} \subseteq Goods /\ Out \subseteq Goods
    BY DEF Goods, Out
  <2>8. Weight(m, {"ADJUST"}) = 0 /\ Weight(m, Out) = n /\ Promised(m) = {}
    BY <2>3, <2>5, <2>6, <2>7, WeightHere, PromisedNone
  <2>9. Speaks(m) /\ Fed' = Fed /\ Repaid' = Repaid /\ Alive
    BY <1>2, <2>2, <2>3 DEF Fed, Repaid, Speaks
  <2>10. /\ c' = c /\ Granted' = Granted + 0 /\ Produced' = Produced + n
         /\ Promised(Coming') = Promised(Coming)
    BY <2>8, <2>9, FlowSpeaks
  <2>11. ~Early
    BY <1>19, <2>1, <2>9
  <2>12. /\ Granted' = Granted /\ Produced' \in Nat /\ s'.window \in Int
         /\ s'.window + Produced' + Repaid' = s.window + Produced + Repaid
    BY <1>1, <2>2, <2>9, <2>10, SMTT(30)
  <2>. QED BY <1>1, <2>1, <2>9, <2>10, <2>11, <2>12, FlowServed
\* The server hears what weighs something, and says nothing.
<1>23. ASSUME NEW t, Reacts(t, <<>>)
       PROVE  /\ Alive /\ c' = c /\ Granted' = Granted /\ Produced' = Produced
              /\ Promised(Coming') = Promised(Coming) /\ Asked[1] = t
              /\ Fed' \in Nat /\ Repaid' \in Nat /\ Asked \in Messages
              /\ t = "DATA" => Fed = Len(Asked[2]) + Fed'
              /\ t # "DATA" => Fed' = Fed
              /\ t = "ADJUST" => Repaid = Asked[2] + Repaid'
              /\ t # "ADJUST" => Repaid' = Repaid
  <2>1. Speaks(<<>>) /\ Going # <<>> /\ Going' = Tail(Going) /\ Asked[1] = t
    BY <1>2, <1>23
  <2>2. /\ Alive /\ c' = c /\ Granted' = Granted + 0 /\ Produced' = Produced + 0
        /\ Promised(Coming') = Promised(Coming)
    BY <1>6, <2>1, FlowSpeaks
  <2>3. Granted' = Granted /\ Produced' = Produced
    BY <1>1, <2>2
  <2>. QED BY <2>1, <2>2, <2>3, FlowTaken
<1>24. CASE Reads
  <2>1. Reacts("DATA", <<>>) /\ s'.room = s.room - Len(Asked[2]) /\ s'.window = s.window
    BY <1>24 DEF Reads
  <2>2. /\ Alive /\ c' = c /\ Granted' = Granted /\ Produced' = Produced
        /\ Promised(Coming') = Promised(Coming) /\ Asked[1] = "DATA" /\ Asked \in Messages
        /\ Fed' \in Nat /\ Repaid' = Repaid /\ Fed = Len(Asked[2]) + Fed'
    BY <1>23, <2>1
  <2>3. PICK l \in Nat : l = Len(Asked[2])
    <3>1. Asked[2] \in Seq(Nat)
      BY <2>2, Carries
    <3>. QED BY <3>1
  <2>4. PICK f, o : f = Fed' /\ o = s'.room
    OBVIOUS
  <2>5. f \in Nat /\ Fed = l + f /\ o = s.room - l
    BY <2>1, <2>2, <2>3, <2>4
  <2>6. o \in Int /\ f + Granted - o <= Fed + Granted - s.room /\ f + Granted <= Fed + Granted
    BY <1>1, <2>5
  <2>7. /\ s'.room \in Int /\ Fed' + Granted' - s'.room <= Fed + Granted - s.room
        /\ Fed' + Granted' <= Fed + Granted /\ Produced' + Repaid' = Produced + Repaid
        /\ s'.window + Produced' + Repaid' = s.window + Produced + Repaid
    BY <2>1, <2>2, <2>4, <2>6
  <2>. QED BY <1>1, <2>1, <2>2, <2>7, FlowServed
<1>25. CASE IsRepaid
  <2>1. Reacts("ADJUST", <<>>) /\ s'.window = s.window + Asked[2] /\ s'.room = s.room
    BY <1>25 DEF IsRepaid
  <2>2. /\ Alive /\ c' = c /\ Granted' = Granted /\ Produced' = Produced
        /\ Promised(Coming') = Promised(Coming) /\ Asked[1] = "ADJUST" /\ Asked \in Messages
        /\ Fed' = Fed /\ Repaid' \in Nat /\ Repaid = Asked[2] + Repaid'
    BY <1>23, <2>1
  <2>3. PICK l \in Nat : l = Asked[2]
    BY <2>2, Carries
  <2>4. PICK r, w : r = Repaid' /\ w = s'.window
    OBVIOUS
  <2>5. r \in Nat /\ Repaid = l + r /\ w = s.window + l
    BY <2>1, <2>2, <2>3, <2>4
  <2>6. w \in Int /\ w + Produced + r = s.window + Produced + Repaid
    BY <1>1, <2>5
  <2>7. Early => r = Repaid
    <3>1. ASSUME Early PROVE r = Repaid
      <4>1. Produced + c.pending + Repaid = 0
        BY <2>2, <3>1 DEF OwedInv, Owed
      <4>. QED BY <1>1, <2>5, <4>1
    <3>. QED BY <3>1
  <2>8. /\ s'.window \in Int /\ s'.window + Produced' + Repaid' = s.window + Produced + Repaid
        /\ Early => Fed' + Granted' <= Fed + Granted /\ Produced' + Repaid' = Produced + Repaid
        /\ Fed' + Granted' - s'.room <= Fed + Granted - s.room
    <3>1. s'.window \in Int /\ s'.window + Produced' + Repaid' = s.window + Produced + Repaid
      BY <2>2, <2>4, <2>6
    <3>2. Early => Fed' + Granted' <= Fed + Granted /\ Produced' + Repaid' = Produced + Repaid
      BY <1>1, <2>2, <2>4, <2>7
    <3>3. Fed' + Granted' - s'.room <= Fed + Granted - s.room
      BY <1>1, <2>1, <2>2
    <3>. QED BY <3>1, <3>2, <3>3
  <2>. QED BY <1>1, <2>1, <2>2, <2>8, FlowServed
<1>26. CASE Exchanges
  <2>1. /\ Alive /\ c' = c /\ Going # <<>> /\ Going' = Tail(Going) /\ Asked[1] = "ECDH_INIT"
        /\ Coming' = Insert(Msgs(down), M("ECDH_REPLY"), M("NEWKEYS"), s.held)
        /\ s'.room = s.room /\ s'.window = s.window
    BY <1>26 DEF Exchanges, Insert, Serving
  <2>2. Granted' = Granted /\ Produced' = Produced /\ Promised(Coming') = Promised(Coming)
    BY <2>1, FlowMet
  <2>3. Fed' = Fed /\ Repaid' = Repaid
    BY <2>1, FlowTaken
  <2>. QED BY <1>1, <2>1, <2>2, <2>3, FlowServed
<1>27. CASE Confirms
  <2>1. PICK w \in Windows \cup {0}, p \in MaxPkts :
           Reacts("OPEN", <<Msg("CONFIRM", <<w, p>>)>>) /\ s'.room = w
    BY <1>27 DEF Confirms
  <2>2. w \in Nat /\ s'.window = WindowSize /\ WindowSize \in Nat
    BY <1>27, ChannelAssumption DEF Confirms
  <2>3. PICK x, m : x = Msg("CONFIRM", <<w, p>>) /\ m = <<x>>
    OBVIOUS
  <2>4. x \in Messages /\ x[1] = "CONFIRM" /\ Promised(m) = {w}
    BY <2>3, Plainly, PromisedNone DEF Msg
  <2>5. Weight(m, {"ADJUST"}) = 0 /\ Weight(m, Out) = 0
    <3>1. m \in Seq(Messages) /\ Only(m, Goods, 0)
      BY <2>3, <2>4, One, OnlyHere DEF Goods
    <3>. QED BY <1>4, <3>1
  <2>6. Speaks(m) /\ Going # <<>> /\ Going' = Tail(Going) /\ Asked[1] = "OPEN"
    BY <1>2, <2>1, <2>3
  <2>7. /\ Alive /\ c' = c /\ Granted' = Granted + 0 /\ Produced' = Produced + 0
        /\ Promised(Coming') = Promised(Coming) \cup {w}
    BY <2>4, <2>5, <2>6, FlowSpeaks
  <2>8. Fed' = Fed /\ Repaid' = Repaid
    BY <2>6, FlowTaken
  <2>9. Phase = "open" /\ Promised(Coming) = {}
    <3>1. PICK g, n, e, k : Talks(Going, Coming, Affairs, g, n, e, k)
      BY <1>18, <2>7
    <3>2. Affairs.phase = "open" /\ Talks(Tail(Going), Coming, Affairs, 0, 0, e, k)
      BY <2>6, <3>1, TalkTyped, TalksServed DEF Asked, Questions
    <3>3. Only(Coming, Answers, 0)
      BY <3>2 DEF Talks, InAnswer
    <3>. QED BY <3>2, <3>3, TalkTyped, PromisedNone DEF Affairs
  <2>10. Plus <= 0 /\ Owed = 0
    BY <2>7, <2>9 DEF Early, RoomInv, OwedInv
  <2>11. Plus' = Plus /\ Owed' = Owed /\ Plus \in Nat
    <3>1. Granted' = Granted /\ Produced' = Produced
      BY <1>1, <2>7
    <3>. QED BY <1>1, <2>7, <2>8, <3>1 DEF Plus, Owed
  <2>12. Plus' = 0 /\ Owed' = 0
    BY <2>10, <2>11
  <2>13. Promised(Coming') = {w}
    BY <2>7, <2>9
  <2>14. ~Early'
    BY <2>13 DEF Early
  <2>15. RoomInv'
    <3>1. c'.window \in 0..MaxWindow /\ Plus' <= s'.room
      BY <2>1, <2>2, <2>7, <2>12 DEF RoomInv
    <3>2. \A v \in Promised(Coming') : Plus' + v <= s'.room
      BY <2>1, <2>2, <2>12, <2>13
    <3>. QED BY <2>14, <3>1, <3>2 DEF RoomInv
  <2>16. OwedInv'
    BY <2>2, <2>12, <2>14 DEF OwedInv
  <2>. QED BY <2>15, <2>16
<1>. QED
  BY <1>8, <1>9, <1>10, <1>11, <1>12, <1>15, <1>20, <1>21, <1>22, <1>24, <1>25, <1>26,
     <1>27 DEF ServerSide, ServerMore

-----------------------------------------------------------------------------
(* The server writes nothing while it holds its answers back, so no output   *)
(* is among them.                                                            *)

HeldQuiet == Only(s.held, Out, 0)

LEMMA RepliesHold ==
  ASSUME Typed, HeldQuiet, NEW s2 \in ServerState, s2.held = s.held,
         NEW msgs \in Seq(Messages), Only(msgs, Out, 0), Replies(s2, msgs)
  PROVE  HeldQuiet'
<1>1. s.held \in Seq(Messages)
  BY DEF Typed, ServerState
<1>2. s'.held = s.held \/ s'.held = s.held \o msgs
  BY ZenonT(30) DEF Replies, ServerState
<1>3. Only(s.held, Out, 0) /\ Only(s.held \o msgs, Out, 0)
  BY <1>1, Spoken DEF HeldQuiet
<1>. QED BY <1>2, <1>3 DEF HeldQuiet

LEMMA HeldNext ==
  ASSUME Typed, TurnInv, HeldQuiet, Next
  PROVE  HeldQuiet'
<1>1. s \in ServerState /\ In \in ServerState /\ In.held = s.held
  <2>1. s \in ServerState /\ (s.recvSeq + 1) % SeqWrap \in Numbers
    BY NumberIs, InNumbers, SMTT(30) DEF Typed, ServerState
  <2>. QED BY <2>1, ZenonT(30) DEF In, ServerState
<1>2. ASSUME s'.held = s.held PROVE HeldQuiet'
  BY <1>2 DEF HeldQuiet
<1>3. CASE Client \/ User
  <2>1. ClientSide \/ UserSide
    BY <1>3, HandshakeForms, PumpForms, UserForms DEF Client
  <2>2. s' = s
    BY <2>1 DEF ClientSide, Chats, LogsIn, TakesTurn, EndsTurn, Asks, Confirmed, AsksOn, Runs,
       Notes, Drops, Widens, Shows, IsTold, Leaves, Dies, Hears, UserSide, Remarks, TypesMore,
       Finishes, Says
  <2>. QED BY <1>2, <2>2
<1>4. \A t \in Plain : <<M(t)>> \in Seq(Messages) /\ Only(<<M(t)>>, Out, 0)
  BY Plainly, One, Spoken DEF Plain, Out
<1>5. ASSUME NEW msgs \in Seq(Messages), Only(msgs, Out, 0), NEW s2 \in ServerState,
             s2.held = s.held, Replies(s2, msgs)
      PROVE  HeldQuiet'
  BY <1>5, RepliesHold
<1>6. CASE SrvKexInit \/ SrvEof \/ SrvInput \/ SrvAdjust \/ SrvNoted \/ SrvNewKeys
  <2>1. s'.held = s.held
    BY <1>1, <1>6, ZenonT(30) DEF SrvKexInit, SrvEof, SrvInput, SrvAdjust, SrvNoted, SrvNewKeys, ServerState
  <2>. QED BY <1>2, <2>1
<1>7. CASE SrvEcdh
  <2>1. s'.held = <<>>
    BY <1>1, <1>7, ZenonT(30) DEF SrvEcdh, ServerState
  <2>. QED BY <2>1, Spoken DEF HeldQuiet
<1>8. CASE SrvAnswer
  BY <1>1, <1>4, <1>5, <1>8 DEF SrvAnswer, Plain
<1>9. CASE SrvLogin
  <2>1. \/ \E t \in Plain : Replies(In, <<M(t)>>)
        \/ Replies(In, <<M("BANNER"), M("AUTH_SUCCESS")>>)
        \/ \E w \in Windows \cup {0}, p \in MaxPkts :
              Replies([In EXCEPT !.room = w, !.window = WindowSize], <<Msg("CONFIRM", <<w, p>>)>>)
        \/ \E w \in Windows, f \in EarlyFates \cup {<<>>} :
              Replies([In EXCEPT !.stage = "running", !.room = @ + w, !.early = f # <<>>, !.fate = f],
                      (<<Msg("ADJUST", w)>> \o Exit(f)) \o <<M("SUCCESS")>>)
    BY <1>9 DEF SrvLogin, Plain, Exit
  <2>2. CASE \E t \in Plain : Replies(In, <<M(t)>>)
    BY <1>1, <1>4, <1>5, <2>2
  <2>3. CASE Replies(In, <<M("BANNER"), M("AUTH_SUCCESS")>>)
    <3>1. PICK x, y, m : x = M("BANNER") /\ y = M("AUTH_SUCCESS") /\ m = <<x, y>>
      OBVIOUS
    <3>2. x \in Messages /\ y \in Messages /\ x[1] = "BANNER" /\ y[1] = "AUTH_SUCCESS"
      BY <3>1, Plainly DEF Plain, M, Msg
    <3>3. m \in Seq(Messages) /\ Len(m) = 2 /\ m[1] = x /\ m[2] = y
      BY <3>1, <3>2
    <3>4. Only(m, Out, 0)
      BY <3>2, <3>3 DEF Only, Out
    <3>. QED BY <1>1, <1>5, <2>3, <3>1, <3>3, <3>4
  <2>4. ASSUME NEW w \in Windows \cup {0}, NEW p \in MaxPkts,
               Replies([In EXCEPT !.room = w, !.window = WindowSize], <<Msg("CONFIRM", <<w, p>>)>>)
        PROVE  HeldQuiet'
    <3>1. w \in Int /\ WindowSize \in Int
      BY ChannelAssumption
    <3>2. PICK s2 : s2 = [In EXCEPT !.room = w, !.window = WindowSize]
      OBVIOUS
    <3>3. s2 \in ServerState /\ s2.held = s.held
      BY <1>1, <3>1, <3>2, ZenonT(30) DEF ServerState
    <3>4. <<Msg("CONFIRM", <<w, p>>)>> \in Seq(Messages) /\ Only(<<Msg("CONFIRM", <<w, p>>)>>, Out, 0)
      BY Plainly, One, Spoken DEF Out
    <3>. QED BY <1>5, <2>4, <3>2, <3>3, <3>4
  <2>5. ASSUME NEW w \in Windows, NEW f \in EarlyFates \cup {<<>>},
               Replies([In EXCEPT !.stage = "running", !.room = @ + w, !.early = f # <<>>, !.fate = f],
                       (<<Msg("ADJUST", w)>> \o Exit(f)) \o <<M("SUCCESS")>>)
        PROVE  HeldQuiet'
    <3>1. PICK r, e, m : /\ r = In.room + w /\ e = (f # <<>>)
                         /\ m = (<<Msg("ADJUST", w)>> \o Exit(f)) \o <<M("SUCCESS")>>
      OBVIOUS
    <3>2. r \in Int /\ e \in BOOLEAN /\ f \in AllFates \cup {<<>>}
      <4>1. In.room \in Int /\ w \in Int
        BY <1>1, ChannelAssumption DEF ServerState
      <4>2. r \in Int
        BY <3>1, <4>1
      <4>3. e \in BOOLEAN
        BY <3>1, Zenon
      <4>. QED BY <4>2, <4>3 DEF AllFates
    <3>3. PICK s2 : s2 = [In EXCEPT !.stage = "running", !.room = r, !.early = e, !.fate = f]
      OBVIOUS
    <3>4. s2 \in ServerState /\ s2.held = s.held
      BY <1>1, <3>2, <3>3, ZenonT(30) DEF ServerState
    <3>5. Only(m, Out, 0) /\ m \in Seq(Messages)
      <4>1. /\ <<Msg("ADJUST", w)>> \o Exit(f) \in Seq(Messages) /\ <<M("SUCCESS")>> \in Seq(Messages)
            /\ Only((<<Msg("ADJUST", w)>> \o Exit(f)) \o <<M("SUCCESS")>>, Out, 0)
        <5>1. "ADJUST" \notin Out /\ "EXIT" \notin Out /\ "SUCCESS" \notin Out /\ "SUCCESS" \in Plain
          BY DEF Out, Plain
        <5>2. /\ <<Msg("ADJUST", w)>> \o Exit(f) \in Seq(Messages)
              /\ Only((<<Msg("ADJUST", w)>> \o Exit(f)) \o <<M("SUCCESS")>>, Out, 0)
          BY <5>1, StartsSays
        <5>. QED BY <1>4, <5>1, <5>2
      <4>. QED BY <3>1, <4>1, Joined
    <3>6. Replies(s2, m)
      BY <2>5, <3>1, <3>3
    <3>. QED BY <1>5, <3>4, <3>5, <3>6
  <2>. QED BY <2>1, <2>2, <2>3, <2>4, <2>5
<1>10. ASSUME NEW s2, NEW msgs, Serves(s2, msgs), DOMAIN s2 = DOMAIN s, s2.held = s.held
       PROVE  HeldQuiet'
  <2>1. s'.held = s2.held
    <3>1. s' = [s2 EXCEPT !.sendSeq = (@ + Len(msgs)) % SeqWrap]
      BY <1>10 DEF Serves, MaySend, Replies
    <3>2. "held" \in DOMAIN s2
      BY <1>1, <1>10 DEF ServerState
    <3>. QED BY <3>1, <3>2
  <2>. QED BY <1>2, <1>10, <2>1
<1>11. CASE ServerSends
  <2>1. CASE SrvRekey
    <3>1. s' = [s EXCEPT !.kex = "init", !.rekeys = @ + 1, !.sendSeq = (@ + 1) % SeqWrap]
      BY <2>1 DEF SrvRekey
    <3>. QED BY <1>1, <1>2, <3>1 DEF ServerState
  <2>2. CASE \E n \in 1..2 : SrvOutput(n)
    <3>1. PICK n \in 1..2 : \E s2, msgs : s2 = [s EXCEPT !.sent = @ + n, !.window = @ - n] /\ Serves(s2, msgs)
      BY <2>2 DEF SrvOutput
    <3>. QED BY <1>1, <1>10, <3>1 DEF ServerState
  <2>3. CASE SrvGrant
    <3>1. PICK s2, msgs : s2 = [s EXCEPT !.unread = 0, !.room = @ + s.unread] /\ Serves(s2, msgs)
      BY <2>3 DEF SrvGrant
    <3>. QED BY <1>1, <1>10, <3>1 DEF ServerState
  <2>4. CASE SrvSpare
    <3>1. PICK s2, msgs : s2 = [s EXCEPT !.extra = @ + 1, !.room = @ + MaxWindow] /\ Serves(s2, msgs)
      BY <2>4 DEF SrvSpare
    <3>. QED BY <1>1, <1>10, <3>1 DEF ServerState
  <2>5. CASE SrvNoise
    BY <1>1, <1>10, <2>5 DEF SrvNoise, ServerState
  <2>6. CASE SrvExit
    <3>1. PICK f : \E s2, msgs :
             s2 = [s EXCEPT !.stage = "exited", !.fate = IF s.early THEN @ ELSE f] /\ Serves(s2, msgs)
      BY <2>6 DEF SrvExit
    <3>. QED BY <1>1, <1>10, <3>1 DEF ServerState
  <2>7. CASE SrvClose
    <3>1. PICK s2, msgs : s2 = [s EXCEPT !.stage = "closing"] /\ Serves(s2, msgs)
      BY <2>7 DEF SrvClose
    <3>. QED BY <1>1, <1>10, <3>1 DEF ServerState
  <2>. QED BY <1>11, <2>1, <2>2, <2>3, <2>4, <2>5, <2>6, <2>7 DEF ServerSends
<1>12. CASE Vanish
  BY <1>1, <1>2, <1>12 DEF Vanish, ServerState
<1>. QED
  BY <1>3, <1>6, <1>7, <1>8, <1>9, <1>11, <1>12 DEF Next, ServerReceives

-----------------------------------------------------------------------------
(* The theorems.                                                             *)

LEMMA InitFlow == Init => LateInv /\ RoomInv /\ OwedInv /\ HeldQuiet
<1> SUFFICES ASSUME Init PROVE LateInv /\ RoomInv /\ OwedInv /\ HeldQuiet
  OBVIOUS
<1>1. PICK strict \in Strict :
         /\ down = Seal(<<Msg("KEXINIT", IF strict THEN 1 ELSE 0)>>, 0, 0)
         /\ s.room = 0 /\ s.window = 0 /\ s.held = <<>>
  BY DEF Init
<1>2. /\ c.wait = "kexinit" /\ c.back = "service" /\ up = Seal(<<M("KEXINIT")>>, 0, 0)
      /\ c.window = 0 /\ c.pending = 0
  BY DEF Init
<1>3. PICK hello \in Messages : hello[1] = "KEXINIT" /\ down = Seal(<<hello>>, 0, 0)
  <2>1. PICK v \in {0, 1} : down = Seal(<<Msg("KEXINIT", v)>>, 0, 0)
    BY <1>1
  <2>2. Msg("KEXINIT", v) \in Messages /\ Msg("KEXINIT", v)[1] = "KEXINIT"
    BY Plainly DEF Msg
  <2>. QED BY <2>1, <2>2
<1>4. M("KEXINIT") \in Messages /\ M("KEXINIT")[1] = "KEXINIT"
  BY Plainly DEF M, Msg
<1>5. Going = <<M("KEXINIT")>> /\ Coming = <<hello>>
  <2>1. \A m \in Messages : Msgs(Seal(<<m>>, 0, 0)) = <<m>>
    BY DEF Msgs, Seal
  <2>2. Going = <<M("KEXINIT")>>
    BY <1>2, <1>4, <2>1 DEF Going
  <2>3. Msgs(down) = <<hello>>
    BY <1>3, <2>1
  <2>. QED BY <1>1, <2>2, <2>3, ConcatEmptySeq DEF Coming
<1>6. Going \in Seq(Messages) /\ Coming \in Seq(Messages)
  BY <1>3, <1>4, <1>5
<1>7. Only(Going, Goods, 0) /\ Only(Coming, Goods, 0) /\ Only(Coming, Answers, 0)
  BY <1>3, <1>4, <1>5, OnlyHere DEF Goods, Answers
<1>8. Fed = 0 /\ Repaid = 0 /\ Granted = 0 /\ Produced = 0 /\ Promised(Coming) = {}
  BY <1>6, <1>7, Light DEF Goods, Out, Fed, Repaid, Granted, Produced
<1>9. Early
  BY <1>2, <1>8 DEF Early, Phase, InKex, Quietly
<1>10. LateInv
  BY <1>3, <1>5 DEF LateInv, Late, Out
<1>11. RoomInv /\ OwedInv
  BY <1>1, <1>2, <1>8, <1>9, ChannelAssumption DEF RoomInv, OwedInv, Plus, Owed
<1>12. HeldQuiet
  BY <1>1, Spoken DEF HeldQuiet
<1>. QED BY <1>10, <1>11, <1>12

FlowInv == Typed /\ TurnInv /\ TalkInv /\ LateInv /\ RoomInv /\ OwedInv /\ HeldQuiet

LEMMA FlowAlways == Spec => []FlowInv
<1>1. FlowInv /\ [Next]_vars => FlowInv'
  <2> SUFFICES ASSUME FlowInv, [Next]_vars PROVE FlowInv'
    OBVIOUS
  <2>1. /\ Typed /\ TurnInv /\ TalkInv /\ LateInv /\ RoomInv /\ OwedInv /\ HeldQuiet
    BY DEF FlowInv
  <2>2. Typed'
    BY <2>1, NextTyped
  <2>3. CASE UNCHANGED vars
    <3>1. UNCHANGED <<Going, Coming, Affairs, Phase, s, c>>
      BY <2>3 DEF vars, Going, Coming, Msgs, Affairs, Phase, InKex
    <3>2. TurnInv' /\ TalkInv' /\ LateInv' /\ HeldQuiet'
      BY <2>1, <3>1 DEF TurnInv, HeldRight, Turn, Alive, TalkInv, LateInv, HeldQuiet
    <3>3. UNCHANGED <<Plus, Owed, Early>>
      BY <3>1 DEF Plus, Owed, Early, Fed, Granted, Produced, Repaid
    <3>4. RoomInv' /\ OwedInv'
      BY <2>1, <3>1, <3>3 DEF RoomInv, OwedInv, Alive
    <3>. QED BY <2>2, <3>2, <3>4 DEF FlowInv
  <2>4. CASE Next
    <3>1. Talk /\ HeldRight'
      BY <2>1, <2>4, NextForms
    <3>2. TurnInv' /\ TalkInv'
      BY <2>1, <3>1, TurnNext, TalkNext
    <3>3. LateInv' /\ HeldQuiet'
      BY <2>1, <2>4, <3>1, LateNext, HeldNext
    <3>4. RoomInv' /\ OwedInv'
      <4>1. CASE ServerSide \/ ServerMore
        BY <2>1, <4>1, FlowServer
      <4>2. CASE ClientSide \/ UserSide
        <5>1. Alive
          BY <4>2 DEF ClientSide, UserSide, Chats, LogsIn, TakesTurn, EndsTurn, Asks, Confirmed,
             AsksOn, Runs, Notes, Drops, Widens, Shows, IsTold, Leaves, Dies, Hears, Remarks,
             TypesMore, Finishes, Says
        <5>. QED BY <2>1, <4>2, <5>1, FlowClient, FlowUser
      <4>. QED BY <3>1, <4>1, <4>2 DEF Talk
    <3>. QED BY <2>2, <3>2, <3>3, <3>4 DEF FlowInv
  <2>. QED BY <2>3, <2>4
<1>2. Init => FlowInv
  BY InitTyped, InitTalks, InitFlow DEF FlowInv
<1>. QED BY <1>1, <1>2, PTL DEF Spec

\* What is carried each way: the weight of what is said.
LEMMA CarriedEachWay ==
  ASSUME Typed, HeldQuiet
  PROVE  /\ Carried(up, {"DATA"}) = Fed /\ Carried(up, {"ADJUST"}) = Repaid
         /\ Carried(down, {"DATA", "EXT_DATA"}) = Produced
         /\ Carried(down, {"ADJUST"}) \in Nat /\ Carried(down, {"ADJUST"}) <= Granted
<1>1. up \in Seq(Packets) /\ down \in Seq(Packets)
  BY DEF Typed
<1>2. /\ {"DATA"} \subseteq Goods /\ {"ADJUST"} \subseteq Goods /\ Out \subseteq Goods
      /\ Out = {"DATA", "EXT_DATA"}
  BY DEF Goods, Out
<1>3. Carried(up, {"DATA"}) = Fed /\ Carried(up, {"ADJUST"}) = Repaid
  BY <1>1, <1>2, CarriedIs DEF Fed, Repaid, Going
<1>4. /\ Carried(down, {"ADJUST"}) = Weight(Msgs(down), {"ADJUST"})
      /\ Carried(down, Out) = Weight(Msgs(down), Out)
  BY <1>1, <1>2, CarriedIs
<1>5. /\ Granted = Weight(Msgs(down), {"ADJUST"}) + Weight(s.held, {"ADJUST"})
      /\ Produced = Weight(Msgs(down), Out) + Weight(s.held, Out)
      /\ Weight(Msgs(down), {"ADJUST"}) \in Nat /\ Weight(s.held, {"ADJUST"}) \in Nat
      /\ Weight(Msgs(down), Out) \in Nat
  BY <1>2, TalkTyped, WeightJoined DEF Granted, Produced, Coming
<1>6. Weight(s.held, Out) = 0
  BY <1>2, TalkTyped, WeightHere DEF HeldQuiet
<1>. QED BY <1>2, <1>3, <1>4, <1>5, <1>6

\* The client never has more input on its way and in hand than the server let
\* it send: its window only ever counts bytes it was granted, with the grants
\* that come while input is queued, before the command runs, and up to the
\* 32 bits it is kept in (add_window, ssh_pump and channel_request in
\* src/mssh/mssh.c).
THEOREM NeverOversendsAlways == Spec => []NeverOversends
<1>1. FlowInv => NeverOversends
  <2> SUFFICES ASSUME FlowInv PROVE NeverOversends
    OBVIOUS
  <2>1. Typed /\ RoomInv /\ HeldQuiet
    BY DEF FlowInv
  <2>2. PICK g : g = Carried(down, {"ADJUST"})
    OBVIOUS
  <2>3. Carried(up, {"DATA"}) = Fed /\ g \in Nat /\ g <= Granted
    BY <2>1, <2>2, CarriedEachWay
  <2>4. c.window \in 0..MaxWindow /\ Fed + Granted + c.window <= s.room
    BY <2>1 DEF RoomInv, Plus
  <2>5. Fed \in Nat /\ Granted \in Nat /\ c.window \in Nat /\ s.room \in Int
    BY <2>1, FlowNat
  <2>6. c.window + Fed + g <= s.room
    BY <2>3, <2>4, <2>5
  <2>. QED BY <2>2, <2>3, <2>4, <2>6 DEF NeverOversends
<1>. QED BY <1>1, FlowAlways, PTL

\* Nothing of the window mssh opened is lost: from the start of the command
\* what the server may still send, the output on its way, what the client has
\* shown and not yet given back, and what it has given back add up to the
\* whole of it (ssh_pump in src/mssh/mssh.c), however the output, the key
\* exchanges and the end of the input overlap.
THEOREM WindowAlwaysReturned == Spec => []WindowReturned
<1>1. FlowInv => WindowReturned
  <2> SUFFICES ASSUME FlowInv, Alive, s.stage # "login"
      PROVE  s.window + Carried(down, {"DATA", "EXT_DATA"}) + c.pending + Carried(up, {"ADJUST"}) = WindowSize
    BY DEF WindowReturned
  <2>1. Typed /\ TalkInv /\ OwedInv /\ HeldQuiet
    BY DEF FlowInv
  <2>2. ~Early
    <3>1. PICK g, n, e, k : Talks(Going, Coming, Affairs, g, n, e, k)
      BY <2>1 DEF TalkInv
    <3>2. Phase \in {"run", "exec"}
      BY <3>1, TalksStand DEF Affairs
    <3>. QED BY <3>2 DEF Early, Quietly
  <2>3. s.window + (Produced + c.pending + Repaid) = WindowSize
    BY <2>1, <2>2 DEF OwedInv, Owed
  <2>4. Produced \in Nat /\ c.pending \in Nat /\ Repaid \in Nat /\ s.window \in Int
    BY <2>1, FlowNat
  <2>5. s.window + Produced + c.pending + Repaid = WindowSize
    BY <2>3, <2>4
  <2>. QED BY <2>1, <2>5, CarriedEachWay
<1>. QED BY <1>1, FlowAlways, PTL

-----------------------------------------------------------------------------
(* Items from one number to another, in a sequence and in messages.          *)

Counts(q, from, to) == to = from + Len(q) /\ \A j \in 1..Len(q) : q[j] = from + j
\* off[i] is the number of the last item that the first i messages carry.  A
\* message of type `last' comes after the last item.
Offsets(q, types, last, from, to, off) ==
  /\ off[0] = from /\ off[Len(q)] = to
  /\ \A i \in 0..Len(q) : off[i] \in Nat /\ off[i] <= to
  /\ \A i \in 1..Len(q) :
       /\ IF q[i][1] \in types THEN Counts(q[i][2], off[i - 1], off[i]) ELSE off[i] = off[i - 1]
       /\ q[i][1] = last => off[i] = to
InOrder(q, types, last, from, to) == \E off : Offsets(q, types, last, from, to, off)

LEMMA InOrderNat ==
  ASSUME NEW q \in Seq(Messages), NEW T, NEW l, NEW a, NEW b, InOrder(q, T, l, a, b)
  PROVE  a \in Nat /\ b \in Nat /\ a <= b
<1>1. PICK off : Offsets(q, T, l, a, b, off)
  BY DEF InOrder
<1>2. Len(q) \in Nat /\ 0 \in 0..Len(q) /\ Len(q) \in 0..Len(q)
  OBVIOUS
<1>. QED BY <1>1, <1>2 DEF Offsets

\* What carries nothing.
LEMMA InOrderNone ==
  ASSUME NEW q \in Seq(Messages), NEW T, NEW l, NEW a \in Nat, Only(q, T, 0)
  PROVE  InOrder(q, T, l, a, a)
<1>1. PICK off : off = [i \in 0..Len(q) |-> a]
  OBVIOUS
<1>2. \A i \in 0..Len(q) : off[i] = a
  BY <1>1
<1>3. Len(q) \in Nat /\ 0 \in 0..Len(q) /\ Len(q) \in 0..Len(q)
  OBVIOUS
<1>4. \A i \in 1..Len(q) : q[i][1] \notin T /\ i \in 0..Len(q) /\ i - 1 \in 0..Len(q)
  BY <1>3 DEF Only
<1>5. Offsets(q, T, l, a, a, off)
  BY <1>2, <1>3, <1>4 DEF Offsets
<1>. QED BY <1>5 DEF InOrder

\* One message.
LEMMA InOrderOne ==
  ASSUME NEW m \in Messages, NEW T, m[1] \in T, NEW l, m[1] # l,
         NEW a \in Nat, NEW b \in Nat, Counts(m[2], a, b), a <= b
  PROVE  InOrder(<<m>>, T, l, a, b)
<1>1. PICK off : off = [i \in 0..1 |-> IF i = 0 THEN a ELSE b]
  OBVIOUS
<1>2. off[0] = a /\ off[1] = b
  BY <1>1
<1>3. Len(<<m>>) = 1 /\ <<m>>[1] = m
  OBVIOUS
<1>4. /\ \A i \in 0..1 : i = 0 \/ i = 1
      /\ \A i \in 1..1 : i = 1 /\ i - 1 = 0
  OBVIOUS
<1>5. Offsets(<<m>>, T, l, a, b, off)
  BY <1>2, <1>3, <1>4 DEF Offsets
<1>. QED BY <1>5 DEF InOrder

LEMMA InOrderTail ==
  ASSUME NEW q \in Seq(Messages), q # <<>>, NEW T, NEW l, NEW a, NEW b, InOrder(q, T, l, a, b)
  PROVE  /\ Head(q)[1] \notin T => InOrder(Tail(q), T, l, a, b)
         /\ Head(q)[1] = l /\ l \notin T => a = b
         /\ Head(q)[1] \in T => \E n \in Nat : /\ Counts(Head(q)[2], a, n) /\ n <= b
                                               /\ InOrder(Tail(q), T, l, n, b)
<1>1. /\ Len(q) \in Nat /\ Len(q) >= 1 /\ Head(q) = q[1] /\ Tail(q) \in Seq(Messages)
      /\ Len(Tail(q)) = Len(q) - 1
      /\ \A i \in 1 .. Len(q) - 1 : Tail(q)[i] = q[i + 1]
  BY HeadTail
<1>2. PICK off : Offsets(q, T, l, a, b, off)
  BY DEF InOrder
<1>3. PICK g : g = [i \in 0..Len(q) - 1 |-> off[i + 1]]
  OBVIOUS
<1>4. \A i \in 0 .. Len(q) - 1 : g[i] = off[i + 1] /\ i + 1 \in 0..Len(q)
  BY <1>1, <1>3
<1>5. g[0] = off[1] /\ g[Len(Tail(q))] = b
  <2>1. 0 \in 0 .. Len(q) - 1 /\ Len(q) - 1 \in 0 .. Len(q) - 1 /\ (Len(q) - 1) + 1 = Len(q) /\ 0 + 1 = 1
    BY <1>1
  <2>2. g[Len(q) - 1] = off[Len(q)] /\ g[0] = off[1]
    BY <1>4, <2>1
  <2>. QED BY <1>1, <1>2, <2>2 DEF Offsets
<1>6. ASSUME NEW i \in 1..Len(Tail(q))
      PROVE  /\ IF Tail(q)[i][1] \in T THEN Counts(Tail(q)[i][2], g[i - 1], g[i]) ELSE g[i] = g[i - 1]
             /\ Tail(q)[i][1] = l => g[i] = b
  <2>1. /\ i \in 0 .. Len(q) - 1 /\ i - 1 \in 0 .. Len(q) - 1 /\ (i - 1) + 1 = i /\ (i + 1) - 1 = i
        /\ i + 1 \in 1..Len(q) /\ i \in 1 .. Len(q) - 1
    BY <1>1
  <2>2. g[i] = off[i + 1] /\ g[i - 1] = off[i] /\ Tail(q)[i] = q[i + 1]
    BY <1>1, <1>4, <2>1
  <2>3. /\ IF q[i + 1][1] \in T THEN Counts(q[i + 1][2], off[(i + 1) - 1], off[i + 1])
                                ELSE off[i + 1] = off[(i + 1) - 1]
        /\ q[i + 1][1] = l => off[i + 1] = b
    BY <1>2, <2>1 DEF Offsets
  <2>. QED BY <2>1, <2>2, <2>3
<1>7. \A i \in 0..Len(Tail(q)) : g[i] \in Nat /\ g[i] <= b
  BY <1>1, <1>2, <1>4 DEF Offsets
<1>8. Offsets(Tail(q), T, l, off[1], b, g)
  BY <1>5, <1>6, <1>7 DEF Offsets
<1>9. InOrder(Tail(q), T, l, off[1], b)
  BY <1>8 DEF InOrder
<1>10. /\ off[0] = a /\ off[1] \in Nat /\ off[1] <= b
       /\ IF q[1][1] \in T THEN Counts(q[1][2], off[0], off[1]) ELSE off[1] = off[0]
       /\ q[1][1] = l => off[1] = b
  <2>1. 1 \in 1..Len(q) /\ 1 \in 0..Len(q) /\ 1 - 1 = 0
    BY <1>1
  <2>. QED BY <1>2, <2>1 DEF Offsets
<1>. QED BY <1>1, <1>9, <1>10

LEMMA InOrderJoined ==
  ASSUME NEW q \in Seq(Messages), NEW r \in Seq(Messages), NEW T, NEW l, NEW a, NEW b, NEW d,
         InOrder(q, T, l, a, b), InOrder(r, T, l, b, d), b = d \/ Only(q, {l}, 0)
  PROVE  InOrder(q \o r, T, l, a, d)
<1>1. PICK off : Offsets(q, T, l, a, b, off)
  BY DEF InOrder
<1>2. PICK more : Offsets(r, T, l, b, d, more)
  BY DEF InOrder
<1>3. PICK x : x = q \o r
  OBVIOUS
<1>4. /\ x \in Seq(Messages) /\ Len(q) \in Nat /\ Len(r) \in Nat /\ Len(x) = Len(q) + Len(r)
      /\ \A i \in 1..Len(q) : x[i] = q[i]
      /\ \A i \in Len(q) + 1 .. Len(q) + Len(r) : x[i] = r[i - Len(q)]
  BY <1>3, Joined
<1>5. PICK g : g = [i \in 0 .. Len(q) + Len(r) |-> IF i <= Len(q) THEN off[i] ELSE more[i - Len(q)]]
  OBVIOUS
<1>6. /\ \A i \in 0..Len(q) : g[i] = off[i]
      /\ \A i \in Len(q) .. Len(q) + Len(r) : g[i] = more[i - Len(q)]
  <2>1. \A i \in 0..Len(q) : g[i] = off[i]
    BY <1>4, <1>5
  <2>2. off[Len(q)] = more[0]
    BY <1>1, <1>2 DEF Offsets
  <2>3. ASSUME NEW i \in Len(q) .. Len(q) + Len(r) PROVE g[i] = more[i - Len(q)]
    <3>1. CASE i = Len(q)
      <4>1. i \in 0..Len(q) /\ i - Len(q) = 0
        BY <1>4, <3>1
      <4>. QED BY <2>1, <2>2, <3>1, <4>1
    <3>2. CASE i # Len(q)
      <4>1. i \in 0 .. Len(q) + Len(r) /\ ~(i <= Len(q))
        BY <1>4, <3>2
      <4>. QED BY <1>5, <4>1
    <3>. QED BY <3>1, <3>2
  <2>. QED BY <2>1, <2>3
<1>7. g[0] = a /\ g[Len(x)] = d
  <2>1. 0 \in 0..Len(q) /\ Len(x) \in Len(q) .. Len(q) + Len(r) /\ Len(x) - Len(q) = Len(r)
    BY <1>4
  <2>. QED BY <1>1, <1>2, <1>6, <2>1 DEF Offsets
<1>8. /\ \A i \in 0..Len(q) : off[i] \in Nat /\ off[i] <= b
      /\ \A i \in 0..Len(r) : more[i] \in Nat /\ more[i] <= d
      /\ b <= d /\ b \in Nat /\ d \in Nat
  BY InOrderNat, <1>1, <1>2 DEF Offsets
<1>9. ASSUME NEW i \in 0..Len(x) PROVE g[i] \in Nat /\ g[i] <= d
  <2>1. CASE i \in 0..Len(q)
    <3>1. PICK n \in Nat : n = off[i] /\ n <= b
      BY <1>8, <2>1
    <3>. QED BY <1>6, <1>8, <2>1, <3>1
  <2>2. CASE i \in Len(q) .. Len(q) + Len(r) /\ i - Len(q) \in 0..Len(r)
    BY <1>6, <1>8, <2>2
  <2>3. i \in 0..Len(q) \/ (i \in Len(q) .. Len(q) + Len(r) /\ i - Len(q) \in 0..Len(r))
    BY <1>4
  <2>. QED BY <2>1, <2>2, <2>3
<1>10. ASSUME NEW i \in 1..Len(x)
       PROVE  /\ IF x[i][1] \in T THEN Counts(x[i][2], g[i - 1], g[i]) ELSE g[i] = g[i - 1]
              /\ x[i][1] = l => g[i] = d
  <2>1. CASE i \in 1..Len(q)
    <3>1. x[i] = q[i] /\ i \in 0..Len(q) /\ i - 1 \in 0..Len(q)
      BY <1>4, <2>1
    <3>2. g[i] = off[i] /\ g[i - 1] = off[i - 1]
      BY <1>6, <3>1
    <3>3. /\ IF q[i][1] \in T THEN Counts(q[i][2], off[i - 1], off[i]) ELSE off[i] = off[i - 1]
          /\ q[i][1] = l => off[i] = b
      BY <1>1, <2>1 DEF Offsets
    <3>4. q[i][1] = l => b = d
      <4>1. i # 0
        BY <2>1
      <4>. QED BY <2>1, <4>1 DEF Only
    <3>. QED BY <3>1, <3>2, <3>3, <3>4
  <2>2. CASE i \in Len(q) + 1 .. Len(q) + Len(r)
    <3>1. PICK k : k = i - Len(q)
      OBVIOUS
    <3>2. /\ k \in 1..Len(r) /\ i \in Len(q) .. Len(q) + Len(r)
          /\ i - 1 \in Len(q) .. Len(q) + Len(r) /\ (i - 1) - Len(q) = k - 1
      BY <1>4, <2>2, <3>1
    <3>3. x[i] = r[k] /\ g[i] = more[k] /\ g[i - 1] = more[k - 1]
      BY <1>4, <1>6, <2>2, <3>1, <3>2
    <3>4. /\ IF r[k][1] \in T THEN Counts(r[k][2], more[k - 1], more[k]) ELSE more[k] = more[k - 1]
          /\ r[k][1] = l => more[k] = d
      BY <1>2, <3>2 DEF Offsets
    <3>. QED BY <3>3, <3>4
  <2>3. i \in 1..Len(q) \/ i \in Len(q) + 1 .. Len(q) + Len(r)
    BY <1>4
  <2>. QED BY <2>1, <2>2, <2>3
<1>11. Offsets(x, T, l, a, d, g)
  BY <1>7, <1>9, <1>10 DEF Offsets
<1>. QED BY <1>3, <1>11 DEF InOrder

\* The server's part in a key exchange, put before what it held back.
LEMMA InOrderMet ==
  ASSUME NEW q \in Seq(Messages), NEW h \in Seq(Messages), NEW x \in Messages, NEW y \in Messages,
         NEW T, NEW l, x[1] \notin T \cup {l}, y[1] \notin T \cup {l}, NEW a, NEW b,
         InOrder(q \o h, T, l, a, b)
  PROVE  InOrder(Insert(q, x, y, h), T, l, a, b)
<1>1. PICK old, new, k : old = q \o h /\ new = Insert(q, x, y, h) /\ k = Len(q)
  OBVIOUS
<1>2. PICK off : Offsets(old, T, l, a, b, off)
  BY <1>1 DEF InOrder
<1>3. /\ k \in Nat /\ Len(old) \in Nat /\ k <= Len(old) /\ Len(new) = Len(old) + 2
      /\ new[k + 1] = x /\ new[k + 2] = y
      /\ \A i \in 1..Len(old) : new[Place(i, k)] = old[i]
      /\ \A j \in 1..Len(new) :
            j = k + 1 \/ j = k + 2 \/ \E i \in 1..Len(old) : j = Place(i, k) /\ new[j] = old[i]
  <2>1. Between(k, old, x, y, new)
    BY <1>1, Inserted
  <2>. QED BY <2>1 DEF Between
<1>4. PICK at : at = [i \in 0..Len(old) + 2 |-> IF i <= k THEN i ELSE IF i <= k + 2 THEN k ELSE i - 2]
  OBVIOUS
<1>5. /\ \A i \in 0..Len(old) + 2 : at[i] \in 0..Len(old)
      /\ at[0] = 0 /\ at[Len(old) + 2] = Len(old)
      /\ at[k] = k /\ at[k + 1] = k /\ at[k + 2] = k
      /\ \A i \in 1..Len(old) : at[Place(i, k)] = i /\ at[Place(i, k) - 1] = i - 1
  <2>1. \A i \in 0..Len(old) + 2 :
           at[i] = IF i <= k THEN i ELSE IF i <= k + 2 THEN k ELSE i - 2
    BY <1>4
  <2>2. \A i \in 0..Len(old) + 2 : at[i] \in 0..Len(old)
    BY <1>3, <2>1
  <2>3. /\ 0 \in 0..Len(old) + 2 /\ Len(old) + 2 \in 0..Len(old) + 2 /\ k \in 0..Len(old) + 2
        /\ k + 1 \in 0..Len(old) + 2 /\ k + 2 \in 0..Len(old) + 2
    BY <1>3
  <2>4. at[0] = 0 /\ at[k] = k /\ at[k + 1] = k /\ at[k + 2] = k
    BY <1>3, <2>1, <2>3
  <2>5. at[Len(old) + 2] = Len(old)
    BY <1>3, <2>1, <2>3
  <2>6. ASSUME NEW i \in 1..Len(old)
        PROVE  at[Place(i, k)] = i /\ at[Place(i, k) - 1] = i - 1
    <3>1. CASE i <= k
      <4>1. Place(i, k) = i /\ i \in 0..Len(old) + 2 /\ i - 1 \in 0..Len(old) + 2 /\ i - 1 <= k
        BY <1>3, <3>1 DEF Place
      <4>. QED BY <2>1, <3>1, <4>1
    <3>2. CASE i > k
      <4>1. /\ Place(i, k) = i + 2 /\ i + 2 \in 0..Len(old) + 2 /\ i + 1 \in 0..Len(old) + 2
            /\ (i + 2) - 1 = i + 1 /\ ~(i + 2 <= k) /\ ~(i + 2 <= k + 2) /\ ~(i + 1 <= k)
            /\ (i + 2) - 2 = i
        BY <1>3, <3>2 DEF Place
      <4>2. at[i + 2] = i
        BY <2>1, <4>1
      <4>3. at[i + 1] = i - 1
        <5>1. i + 1 <= k + 2 => k = i - 1
          BY <1>3, <3>2
        <5>2. at[i + 1] = IF i + 1 <= k + 2 THEN k ELSE (i + 1) - 2
          BY <2>1, <4>1
        <5>3. (i + 1) - 2 = i - 1
          OBVIOUS
        <5>. QED BY <5>1, <5>2, <5>3
      <4>. QED BY <4>1, <4>2, <4>3
    <3>3. i <= k \/ i > k
      BY <1>3
    <3>. QED BY <3>1, <3>2, <3>3
  <2>. QED BY <2>2, <2>4, <2>5, <2>6
<1>6. PICK g : g = [i \in 0..Len(old) + 2 |-> off[at[i]]]
  OBVIOUS
<1>7. \A i \in 0..Len(old) + 2 : g[i] = off[at[i]]
  BY <1>6
<1>8. g[0] = a /\ g[Len(new)] = b
  <2>1. 0 \in 0..Len(old) + 2 /\ Len(old) + 2 \in 0..Len(old) + 2
    BY <1>3
  <2>. QED BY <1>2, <1>3, <1>5, <1>7, <2>1 DEF Offsets
<1>9. \A i \in 0..Len(new) : g[i] \in Nat /\ g[i] <= b
  BY <1>2, <1>3, <1>5, <1>7 DEF Offsets
<1>10. ASSUME NEW j \in 1..Len(new)
       PROVE  /\ IF new[j][1] \in T THEN Counts(new[j][2], g[j - 1], g[j]) ELSE g[j] = g[j - 1]
              /\ new[j][1] = l => g[j] = b
  <2>0. j \in 0..Len(old) + 2 /\ j - 1 \in 0..Len(old) + 2
    BY <1>3
  <2>1. CASE j = k + 1
    <3>1. g[j] = off[at[k + 1]] /\ g[j - 1] = off[at[k]]
      <4>1. (k + 1) - 1 = k
        BY <1>3
      <4>. QED BY <1>7, <2>0, <2>1, <4>1
    <3>. QED BY <1>3, <1>5, <2>1, <3>1
  <2>2. CASE j = k + 2
    <3>1. g[j] = off[at[k + 2]] /\ g[j - 1] = off[at[k + 1]]
      <4>1. (k + 2) - 1 = k + 1
        BY <1>3
      <4>. QED BY <1>7, <2>0, <2>2, <4>1
    <3>. QED BY <1>3, <1>5, <2>2, <3>1
  <2>3. ASSUME NEW i \in 1..Len(old), j = Place(i, k), new[j] = old[i]
        PROVE  /\ IF new[j][1] \in T THEN Counts(new[j][2], g[j - 1], g[j]) ELSE g[j] = g[j - 1]
               /\ new[j][1] = l => g[j] = b
    <3>1. g[j] = off[i] /\ g[j - 1] = off[i - 1]
      <4>1. at[j] = i /\ at[j - 1] = i - 1
        BY <1>5, <2>3
      <4>. QED BY <1>7, <2>0, <4>1
    <3>2. /\ IF old[i][1] \in T THEN Counts(old[i][2], off[i - 1], off[i]) ELSE off[i] = off[i - 1]
          /\ old[i][1] = l => off[i] = b
      BY <1>2 DEF Offsets
    <3>. QED BY <2>3, <3>1, <3>2
  <2>. QED BY <1>3, <2>1, <2>2, <2>3
<1>11. Offsets(new, T, l, a, b, g)
  BY <1>8, <1>9, <1>10 DEF Offsets
<1>. QED BY <1>1, <1>11 DEF InOrder

\* What is typed later goes behind what is queued.
LEMMA CountsJoined ==
  ASSUME NEW q \in Seq(Nat), NEW r \in Seq(Nat), NEW a \in Nat, NEW b, NEW d,
         Counts(q, a, b), Counts(r, b, d)
  PROVE  Counts(q \o r, a, d)
<1>1. PICK x : x = q \o r
  OBVIOUS
<1>2. /\ Len(q) \in Nat /\ Len(r) \in Nat /\ Len(x) = Len(q) + Len(r)
      /\ \A i \in 1..Len(q) : x[i] = q[i]
      /\ \A i \in Len(q) + 1 .. Len(q) + Len(r) : x[i] = r[i - Len(q)]
  BY <1>1, Joined
<1>3. b = a + Len(q) /\ d = b + Len(r)
  BY DEF Counts
<1>4. ASSUME NEW i \in 1..Len(x) PROVE x[i] = a + i
  <2>1. CASE i \in 1..Len(q)
    BY <1>2, <2>1 DEF Counts
  <2>2. CASE i \in Len(q) + 1 .. Len(q) + Len(r)
    <3>1. i - Len(q) \in 1..Len(r) /\ b + (i - Len(q)) = a + i
      BY <1>2, <1>3, <2>2
    <3>2. r[i - Len(q)] = b + (i - Len(q))
      BY <3>1 DEF Counts
    <3>. QED BY <1>2, <2>2, <3>1, <3>2
  <2>3. i \in 1..Len(q) \/ i \in Len(q) + 1 .. Len(q) + Len(r)
    BY <1>2
  <2>. QED BY <2>1, <2>2, <2>3
<1>5. d = a + Len(x)
  BY <1>2, <1>3
<1>. QED BY <1>1, <1>4, <1>5 DEF Counts

\* Input that fits in the window goes out in order, and the rest stays in order.
LEMMA InOrderChunks ==
  ASSUME Typed, NEW q \in Seq(Nat), NEW w \in Nat, NEW a \in Nat, NEW b, Counts(q, a, b)
  PROVE  \E m \in Nat : /\ m <= b /\ m = a + Fits(q, w)
                        /\ Counts(Rest(q, w), m, b)
                        /\ InOrder(Chunks(q, w), {"DATA"}, "EOF", a, m)
<1> DEFINE n == Fits(q, w)
           k == (n + c.maxpkt - 1) \div c.maxpkt
           at(i) == IF i * c.maxpkt <= n THEN i * c.maxpkt ELSE n
           r == Chunks(q, w)
           T == {"DATA"}
<1>1. c.maxpkt \in Nat \ {0} /\ Len(q) \in Nat
  BY DEF Typed, ClientState
<1>2. /\ n \in Nat /\ n <= Len(q) /\ Len(Rest(q, w)) = Len(q) - n
      /\ \A j \in 1..Len(Rest(q, w)) : Rest(q, w)[j] = q[n + j]
  BY FitsIs
<1>3. /\ r \in Seq(Messages) /\ Len(r) = k /\ at(0) = 0 /\ at(k) = n
      /\ \A i \in 1..k : /\ at(i) \in Nat /\ at(i - 1) \in Nat /\ at(i) <= n /\ r[i][1] = "DATA"
                         /\ Len(r[i][2]) = at(i) - at(i - 1)
                         /\ \A j \in 1 .. at(i) - at(i - 1) : r[i][2][j] = q[at(i - 1) + j]
  BY <1>1, ChunksAre, ZenonT(90)
<1>4. k \in Nat
  BY <1>3
<1> HIDE DEF n, k, at, r
<1>5. b = a + Len(q) /\ \A j \in 1..Len(q) : q[j] = a + j
  BY DEF Counts
<1>6. PICK m : m = a + n
  OBVIOUS
<1>7. m \in Nat /\ m <= b
  BY <1>1, <1>2, <1>5, <1>6
<1>8. Counts(Rest(q, w), m, b)
  <2>1. PICK z : z = Rest(q, w)
    OBVIOUS
  <2>2. Len(z) = Len(q) - n /\ \A j \in 1..Len(z) : z[j] = q[n + j]
    BY <1>2, <2>1
  <2>3. b = m + Len(z)
    BY <1>1, <1>2, <1>5, <1>6, <2>2
  <2>4. ASSUME NEW j \in 1..Len(z) PROVE z[j] = m + j
    <3>1. n + j \in 1..Len(q) /\ a + (n + j) = m + j
      BY <1>1, <1>2, <1>6, <2>2
    <3>. QED BY <1>5, <2>2, <3>1
  <2>. QED BY <2>1, <2>3, <2>4 DEF Counts
<1>9. PICK off : off = [i \in 0..k |-> a + at(i)]
  OBVIOUS
<1>10. \A i \in 0..k : off[i] = a + at(i)
  BY <1>9
<1>11. off[0] = a /\ off[k] = m
  BY <1>3, <1>4, <1>6, <1>10
<1>12. ASSUME NEW i \in 0..k PROVE off[i] \in Nat /\ off[i] <= m
  <2>1. at(i) \in Nat /\ at(i) <= n
    <3>1. i = 0 \/ i \in 1..k
      BY <1>4
    <3>. QED BY <1>2, <1>3, <3>1
  <2>2. off[i] = a + at(i)
    BY <1>10
  <2>3. PICK p : p = at(i)
    OBVIOUS
  <2>. QED BY <1>2, <1>6, <2>1, <2>2, <2>3
<1>13. ASSUME NEW i \in 1..k PROVE r[i][1] = "DATA" /\ Counts(r[i][2], off[i - 1], off[i])
  <2>1. i \in 0..k /\ i - 1 \in 0..k
    BY <1>4
  <2>2. PICK u, v, z : u = at(i - 1) /\ v = at(i) /\ z = r[i][2]
    OBVIOUS
  <2>3. /\ u \in Nat /\ v \in Nat /\ v <= n /\ Len(z) = v - u
        /\ \A j \in 1 .. v - u : z[j] = q[u + j]
    BY <1>3, <2>2
  <2>4. off[i - 1] = a + u /\ off[i] = a + v
    BY <1>10, <2>1, <2>2
  <2>5. a + v = (a + u) + Len(z)
    BY <2>3
  <2>6. ASSUME NEW j \in 1..Len(z) PROVE z[j] = (a + u) + j
    <3>1. j \in 1 .. v - u /\ u + j \in 1..Len(q) /\ a + (u + j) = (a + u) + j
      BY <1>1, <1>2, <2>3
    <3>. QED BY <1>5, <2>3, <3>1
  <2>. QED BY <1>3, <2>2, <2>4, <2>5, <2>6 DEF Counts
<1>14. Offsets(r, T, "EOF", a, m, off)
  <2>1. Len(r) = k
    BY <1>3
  <2>. QED BY <1>11, <1>12, <1>13, <2>1 DEF Offsets
<1>15. InOrder(Chunks(q, w), {"DATA"}, "EOF", a, m)
  BY <1>14 DEF InOrder, r
<1>. QED BY <1>6, <1>7, <1>8, <1>15 DEF n

-----------------------------------------------------------------------------
(* The input.  What the command has read, what is on its way and what is     *)
(* queued follow each other, and the end is said when all of it has been.    *)

InAt(mid) ==
  /\ InOrder(Going, {"DATA"}, "EOF", Len(s.got), mid)
  /\ Counts(c.outq, mid, typed)
  /\ c.eofPending => c.clientEof
  /\ \/ c.clientEof /\ mid = typed
     \/ Only(Going, {"EOF"}, 0) /\ ~s.gotEof
  /\ s.gotEof => Len(s.got) = typed
InInv == Alive => \E mid \in Nat : InAt(mid)
InSteps == [InPipe!Next]_<<typed, s.got, c.clientEof, s.gotEof>>

LEMMA InKnown ==
  ASSUME Typed, Alive, InInv
  PROVE  \E mid \in Nat :
           /\ InAt(mid) /\ mid <= typed /\ typed = mid + Len(c.outq) /\ Len(s.got) <= mid
           /\ Going \in Seq(Messages) /\ typed \in Nat /\ c.outq \in Seq(Nat) /\ s.got \in Seq(Nat)
           /\ Len(s.got) \in Nat /\ c.window \in Nat
           /\ c.eofPending \in BOOLEAN /\ c.clientEof \in BOOLEAN /\ s.gotEof \in BOOLEAN
<1>1. PICK mid \in Nat : InAt(mid)
  BY DEF InInv
<1>2. /\ Going \in Seq(Messages) /\ typed \in Nat /\ c.outq \in Seq(Nat) /\ s.got \in Seq(Nat)
      /\ Len(s.got) \in Nat /\ c.window \in Nat
      /\ c.eofPending \in BOOLEAN /\ c.clientEof \in BOOLEAN /\ s.gotEof \in BOOLEAN
  BY TalkTyped DEF Typed, ClientState, ServerState
<1>3. typed = mid + Len(c.outq) /\ Len(c.outq) \in Nat
  BY <1>1, <1>2 DEF InAt, Counts
<1>4. Len(s.got) <= mid
  BY <1>1, <1>2, InOrderNat DEF InAt
<1>. QED BY <1>1, <1>2, <1>3, <1>4

\* Nothing of the input and its end is said, or heard.
LEMMA InIdle ==
  ASSUME Typed, InInv, Alive, UNCHANGED <<c.outq, c.eofPending, c.clientEof, typed, s.got, s.gotEof>>,
         \/ \E msgs \in Seq(Messages) : Going' = Going \o msgs /\ Only(msgs, {"DATA", "EOF"}, 0)
         \/ Going # <<>> /\ Going' = Tail(Going) /\ Asked[1] \notin {"DATA", "EOF"}
         \/ Going' = Going
  PROVE  InInv' /\ InSteps
<1>1. PICK mid \in Nat : InAt(mid) /\ Going \in Seq(Messages)
  BY InKnown
<1>2. InOrder(Going, {"DATA"}, "EOF", Len(s.got), mid)
  BY <1>1 DEF InAt
<1>3. ASSUME InOrder(Going', {"DATA"}, "EOF", Len(s.got), mid),
             Only(Going, {"EOF"}, 0) => Only(Going', {"EOF"}, 0)
      PROVE  InInv' /\ InSteps
  <2>1. InAt(mid)'
    BY <1>1, <1>3 DEF InAt
  <2>. QED BY <2>1 DEF InInv, InSteps
<1>4. CASE \E msgs \in Seq(Messages) : Going' = Going \o msgs /\ Only(msgs, {"DATA", "EOF"}, 0)
  <2>1. PICK msgs \in Seq(Messages) : Going' = Going \o msgs /\ Only(msgs, {"DATA", "EOF"}, 0)
    BY <1>4
  <2>2. Only(msgs, {"DATA"}, 0) /\ Only(msgs, {"EOF"}, 0)
    BY <2>1, OnlyFewer
  <2>3. InOrder(msgs, {"DATA"}, "EOF", mid, mid)
    BY <2>2, InOrderNone
  <2>4. InOrder(Going \o msgs, {"DATA"}, "EOF", Len(s.got), mid)
    BY <1>1, <1>2, <2>3, InOrderJoined
  <2>5. Only(Going, {"EOF"}, 0) => Only(Going \o msgs, {"EOF"}, 0)
    BY <1>1, <2>2, Spoken
  <2>. QED BY <1>3, <2>1, <2>4, <2>5
<1>5. CASE Going # <<>> /\ Going' = Tail(Going) /\ Asked[1] \notin {"DATA", "EOF"}
  <2>1. InOrder(Tail(Going), {"DATA"}, "EOF", Len(s.got), mid)
    BY <1>1, <1>2, <1>5, InOrderTail DEF Asked
  <2>2. Only(Going, {"EOF"}, 0) => Only(Tail(Going), {"EOF"}, 0)
    BY <1>1, <1>5, OnlyTail DEF Shift
  <2>. QED BY <1>3, <1>5, <2>1, <2>2
<1>6. CASE Going' = Going
  BY <1>2, <1>3, <1>6
<1>. QED BY <1>4, <1>5, <1>6

\* Items in order behind what is on its way.
LEMMA InFollows ==
  ASSUME Typed, InInv, Alive, NEW mid \in Nat, InAt(mid), NEW m \in Nat,
         NEW msgs \in Seq(Messages), InOrder(msgs, {"DATA"}, "EOF", mid, m),
         c.clientEof => m <= typed
  PROVE  InOrder(Going \o msgs, {"DATA"}, "EOF", Len(s.got), m)
<1>1. Going \in Seq(Messages) /\ typed \in Nat
  BY TalkTyped DEF Typed
<1>2. InOrder(Going, {"DATA"}, "EOF", Len(s.got), mid)
  BY DEF InAt
<1>3. mid <= m
  BY InOrderNat
<1>4. mid = m \/ Only(Going, {"EOF"}, 0)
  BY <1>1, <1>3 DEF InAt
<1>. QED BY <1>1, <1>2, <1>4, InOrderJoined

\* The user types more: it is written, and goes out or is queued.
LEMMA InTypes ==
  ASSUME Typed, InInv, Alive, TypesMore
  PROVE  InInv' /\ InSteps
<1>1. PICK mid \in Nat :
         /\ InAt(mid) /\ mid <= typed /\ typed = mid + Len(c.outq) /\ Len(s.got) <= mid
         /\ Going \in Seq(Messages) /\ typed \in Nat /\ c.outq \in Seq(Nat) /\ c.window \in Nat
  BY InKnown
<1>2. PICK n \in 1..MaxBurst : \E data :
         /\ data = [i \in 1..n |-> typed + i] /\ typed' = typed + n
         /\ \/ c.outq # <<>> /\ Says(<<>>) /\ c'.outq = c.outq \o data
            \/ c.outq = <<>> /\ Says(Chunks(data, c.window)) /\ c'.outq = Rest(data, c.window)
  BY DEF TypesMore
<1>3. PICK data :
         /\ data = [i \in 1..n |-> typed + i]
         /\ \/ c.outq # <<>> /\ Says(<<>>) /\ c'.outq = c.outq \o data
            \/ c.outq = <<>> /\ Says(Chunks(data, c.window)) /\ c'.outq = Rest(data, c.window)
  BY <1>2
<1>4. n \in Nat /\ n >= 1
  OBVIOUS
<1>5. PICK t : t = typed + n
  OBVIOUS
<1>6. typed' = t /\ t \in Nat /\ t > typed
  <2>1. typed' = typed + n
    BY <1>2, Zenon
  <2>2. typed \in Nat
    BY <1>1
  <2>. QED BY <1>4, <1>5, <2>1, <2>2
<1>7. data \in Seq(Nat) /\ Len(data) = n /\ \A i \in 1..n : data[i] = typed + i
  <2>1. \A i \in 1..n : typed + i \in Nat
    BY <1>1, <1>4
  <2>2. data \in [1..n -> Nat]
    BY <1>3, <2>1
  <2>. QED BY <1>3, <1>4, <2>2
<1>8. Counts(data, typed, t)
  BY <1>5, <1>7 DEF Counts
<1>9. ~c.clientEof /\ s' = s /\ UNCHANGED <<c.eofPending, c.clientEof>>
  BY <1>3, Zenon DEF TypesMore, Says
<1>10. InSteps
  BY <1>6, <1>9 DEF InSteps, InPipe!Next, InPipe!Write
<1>11. Only(Going, {"EOF"}, 0) /\ ~s.gotEof
  BY <1>1, <1>9 DEF InAt
<1>12. ASSUME NEW m \in Nat, InOrder(Going', {"DATA"}, "EOF", Len(s.got), m),
              Counts(c'.outq, m, t), Only(Going', {"EOF"}, 0)
       PROVE  InInv'
  <2>1. InAt(m)'
    BY <1>1, <1>6, <1>9, <1>11, <1>12 DEF InAt
  <2>. QED BY <2>1 DEF InInv
<1>13. CASE c.outq # <<>> /\ Says(<<>>) /\ c'.outq = c.outq \o data
  <2>1. Going' = Going
    BY <1>1, <1>13, ConcatEmptySeq DEF Says
  <2>2. Counts(c.outq \o data, mid, t)
    BY <1>1, <1>7, <1>8, CountsJoined DEF InAt
  <2>. QED BY <1>1, <1>10, <1>11, <1>12, <1>13, <2>1, <2>2 DEF InAt
<1>14. CASE c.outq = <<>> /\ Says(Chunks(data, c.window)) /\ c'.outq = Rest(data, c.window)
  <2>1. mid = typed
    BY <1>1, <1>14
  <2>2. PICK msgs \in Seq(Messages) : msgs = Chunks(data, c.window) /\ Going' = Going \o msgs
    BY <1>14 DEF Says
  <2>3. PICK m \in Nat : /\ Counts(Rest(data, c.window), m, t)
                         /\ InOrder(Chunks(data, c.window), {"DATA"}, "EOF", typed, m)
    BY <1>1, <1>7, <1>8, InOrderChunks
  <2>4. InOrder(Going \o msgs, {"DATA"}, "EOF", Len(s.got), m)
    BY <1>1, <1>9, <2>1, <2>2, <2>3, InFollows
  <2>5. Only(msgs, {"EOF"}, 0)
    <3>1. "DATA" \notin {"EOF"}
      OBVIOUS
    <3>. QED BY <1>1, <1>7, <2>2, <3>1, ChunksSpoken
  <2>6. Only(Going \o msgs, {"EOF"}, 0)
    BY <1>1, <1>11, <2>5, Spoken
  <2>. QED BY <1>10, <1>12, <1>14, <2>2, <2>3, <2>4, <2>6
<1>. QED BY <1>3, <1>13, <1>14

\* The user ends it: the end is said once nothing is queued.
LEMMA InFinishes ==
  ASSUME Typed, InInv, Alive, Finishes
  PROVE  InInv' /\ InSteps
<1>1. PICK mid \in Nat :
         /\ InAt(mid) /\ mid <= typed /\ typed = mid + Len(c.outq)
         /\ Going \in Seq(Messages) /\ typed \in Nat /\ c.outq \in Seq(Nat)
  BY InKnown
<1>2. /\ ~c.clientEof /\ c'.clientEof = TRUE /\ s' = s /\ UNCHANGED <<c.outq, typed>>
      /\ \/ Says(<<>>)
         \/ c.outq = <<>> /\ Says(<<M("EOF")>>)
  BY DEF Finishes, Says
<1>3. InSteps
  BY <1>2 DEF InSteps, InPipe!Next, InPipe!End
<1>4. Only(Going, {"EOF"}, 0) /\ ~s.gotEof
  BY <1>1, <1>2 DEF InAt
<1>5. ASSUME InOrder(Going', {"DATA"}, "EOF", Len(s.got), mid), mid = typed \/ Only(Going', {"EOF"}, 0)
      PROVE  InInv'
  <2>1. InAt(mid)'
    BY <1>1, <1>2, <1>4, <1>5 DEF InAt
  <2>. QED BY <2>1 DEF InInv
<1>6. CASE Says(<<>>)
  <2>1. Going' = Going
    BY <1>1, <1>6, ConcatEmptySeq DEF Says
  <2>. QED BY <1>1, <1>3, <1>4, <1>5, <2>1 DEF InAt
<1>7. CASE c.outq = <<>> /\ Says(<<M("EOF")>>)
  <2>1. mid = typed
    BY <1>1, <1>7
  <2>2. PICK msgs \in Seq(Messages) : msgs = <<M("EOF")>> /\ Going' = Going \o msgs
    BY <1>7 DEF Says
  <2>3. Only(msgs, {"DATA"}, 0)
    BY <2>2, Spoken
  <2>4. InOrder(msgs, {"DATA"}, "EOF", mid, mid)
    BY <2>3, InOrderNone
  <2>5. InOrder(Going \o msgs, {"DATA"}, "EOF", Len(s.got), mid)
    BY <1>1, <1>2, <2>4, InFollows
  <2>. QED BY <1>3, <1>5, <2>1, <2>2, <2>5
<1>. QED BY <1>2, <1>6, <1>7

\* A grown window lets out what fits, and the end when nothing is left.
LEMMA InWidens ==
  ASSUME Typed, InInv, Alive, Widens
  PROVE  InInv' /\ InSteps
<1>1. PICK mid \in Nat :
         /\ InAt(mid) /\ mid <= typed /\ typed = mid + Len(c.outq) /\ Counts(c.outq, mid, typed)
         /\ Going \in Seq(Messages) /\ typed \in Nat /\ c.outq \in Seq(Nat)
         /\ c.eofPending \in BOOLEAN /\ c.clientEof \in BOOLEAN
  BY InKnown DEF InAt
<1>2. PICK w \in Nat : w = AddWindow(Heard[2])
  <2>1. Heard[1] = "ADJUST" /\ \E msgs : Hears(msgs)
    BY DEF Widens
  <2>2. Heard[2] \in Nat
    BY <2>1, FlowAfter, Carries
  <2>. QED BY <2>2, AddWindowBound
<1>3. PICK ends : ends = (c.eofPending /\ Rest(c.outq, w) = <<>>)
  OBVIOUS
<1>4. PICK end : end = IF ends THEN <<M("EOF")>> ELSE <<>>
  OBVIOUS
<1>5. PICK chunks : chunks = Chunks(c.outq, w)
  OBVIOUS
<1>6. /\ Hears(chunks \o end) /\ c'.outq = Rest(c.outq, w) /\ c'.eofPending = (c.eofPending /\ ~ends)
      /\ UNCHANGED <<c.clientEof, typed>>
  BY <1>2, <1>3, <1>4, <1>5 DEF Widens
<1>7. s' = s /\ Going' = Going \o (chunks \o end)
  BY <1>6 DEF Hears
<1>8. InSteps
  BY <1>6, <1>7 DEF InSteps
<1>9. PICK m \in Nat : /\ m <= typed /\ Counts(Rest(c.outq, w), m, typed)
                       /\ InOrder(chunks, {"DATA"}, "EOF", mid, m)
  BY <1>1, <1>5, InOrderChunks
<1>10. /\ chunks \in Seq(Messages) /\ end \in Seq(Messages)
       /\ Only(chunks, {"EOF"}, 0) /\ Only(end, {"DATA"}, 0)
       /\ ~ends => Only(end, {"EOF"}, 0)
  <2>1. "DATA" \notin {"EOF"} /\ "EOF" \notin {"DATA"}
    OBVIOUS
  <2>2. chunks \in Seq(Messages) /\ Only(chunks, {"EOF"}, 0)
    BY <1>1, <1>5, <2>1, ChunksSpoken
  <2>3. <<M("EOF")>> \in Seq(Messages) /\ <<>> \in Seq(Messages)
    BY Plainly, One DEF Plain
  <2>4. Only(<<M("EOF")>>, {"DATA"}, 0) /\ Only(<<>>, {"DATA"}, 0) /\ Only(<<>>, {"EOF"}, 0)
    BY <2>1, Spoken
  <2>. QED BY <1>4, <2>2, <2>3, <2>4
<1>11. InOrder(chunks \o end, {"DATA"}, "EOF", mid, m) /\ chunks \o end \in Seq(Messages)
  <2>1. InOrder(end, {"DATA"}, "EOF", m, m)
    BY <1>10, InOrderNone
  <2>. QED BY <1>9, <1>10, <2>1, InOrderJoined, Joined
<1>12. InOrder(Going', {"DATA"}, "EOF", Len(s.got), m)
  BY <1>1, <1>7, <1>9, <1>11, InFollows
<1>13. \/ c.clientEof /\ m = typed
       \/ Only(Going', {"EOF"}, 0) /\ ~s.gotEof
  <2>1. CASE c.clientEof /\ mid = typed
    <3>1. mid <= m
      BY <1>9, <1>10, InOrderNat
    <3>. QED BY <1>1, <1>9, <2>1, <3>1
  <2>2. CASE ends
    <3>1. Rest(c.outq, w) = <<>> /\ c.clientEof
      BY <1>1, <1>3, <2>2 DEF InAt
    <3>2. typed = m + Len(<<>>) /\ Len(<<>>) = 0
      BY <1>9, <3>1 DEF Counts
    <3>. QED BY <3>1, <3>2
  <2>3. CASE Only(Going, {"EOF"}, 0) /\ ~s.gotEof /\ ~ends
    <3>1. Only(chunks \o end, {"EOF"}, 0)
      BY <1>10, <2>3, Spoken
    <3>2. Only(Going \o (chunks \o end), {"EOF"}, 0)
      BY <1>1, <1>11, <2>3, <3>1, Spoken
    <3>. QED BY <1>7, <2>3, <3>2
  <2>4. ends \in BOOLEAN
    BY <1>3
  <2>. QED BY <1>1, <2>1, <2>2, <2>3, <2>4 DEF InAt
<1>14. c'.eofPending => c'.clientEof
  BY <1>1, <1>6 DEF InAt
<1>15. InAt(m)'
  BY <1>1, <1>6, <1>7, <1>9, <1>12, <1>13, <1>14 DEF InAt
<1>. QED BY <1>8, <1>15 DEF InInv

\* The command reads what comes first.
LEMMA InReads ==
  ASSUME Typed, InInv, Alive, Reads
  PROVE  InInv' /\ InSteps
<1>1. PICK mid \in Nat :
         /\ InAt(mid) /\ mid <= typed /\ Len(s.got) <= mid
         /\ Going \in Seq(Messages) /\ typed \in Nat /\ s.got \in Seq(Nat) /\ Len(s.got) \in Nat
         /\ s.gotEof \in BOOLEAN
  BY InKnown
<1>2. /\ Going # <<>> /\ Asked[1] = "DATA" /\ Going' = Tail(Going)
      /\ s'.got = s.got \o Asked[2] /\ s'.gotEof = s.gotEof /\ c' = c /\ typed' = typed
  BY DEF Reads, Reacts, Speaks
<1>3. PICK n \in Nat : /\ Counts(Asked[2], Len(s.got), n) /\ n <= mid
                       /\ InOrder(Tail(Going), {"DATA"}, "EOF", n, mid)
  <2>1. InOrder(Going, {"DATA"}, "EOF", Len(s.got), mid)
    BY <1>1 DEF InAt
  <2>. QED BY <1>1, <1>2, <2>1, InOrderTail DEF Asked
<1>4. PICK data \in Seq(Nat) : data = Asked[2]
  <2>1. Asked \in Messages
    BY <1>1, <1>2, HeadTail DEF Asked
  <2>. QED BY <1>2, <2>1, Carries
<1>5. PICK got : got = s.got \o data
  OBVIOUS
<1>6. PICK l \in Nat : l = Len(data)
  OBVIOUS
<1>7. /\ got \in Seq(Nat) /\ Len(got) = n /\ n = Len(s.got) + l
      /\ \A j \in 1..l : data[j] = Len(s.got) + j
  <2>1. Len(got) = Len(s.got) + Len(data) /\ got \in Seq(Nat)
    BY <1>1, <1>5, Joined
  <2>. QED BY <1>3, <1>4, <1>6, <2>1 DEF Counts
<1>8. data = [i \in 1..l |-> Len(s.got) + i]
  BY <1>6, <1>7
<1>9. s.gotEof => l = 0
  BY <1>1, <1>3, <1>7 DEF InAt
<1>10. InAt(mid)'
  <2>1. s'.got = got
    BY <1>2, <1>4, <1>5
  <2>2. s.gotEof => Len(got) = typed
    BY <1>1, <1>7, <1>9 DEF InAt
  <2>3. Only(Going, {"EOF"}, 0) => Only(Tail(Going), {"EOF"}, 0)
    BY <1>1, <1>2, OnlyTail DEF Shift
  <2>. QED BY <1>1, <1>2, <1>3, <1>7, <2>1, <2>2, <2>3 DEF InAt
<1>11. InSteps
  <2>1. s'.got = got /\ UNCHANGED <<typed, c.clientEof, s.gotEof>>
    BY <1>2, <1>4, <1>5
  <2>2. CASE l = 0
    <3>1. data = <<>>
      BY <1>6, <2>2, EmptySeq
    <3>2. got = s.got
      BY <1>1, <1>5, <3>1, ConcatEmptySeq
    <3>. QED BY <2>1, <3>2 DEF InSteps
  <2>3. CASE l # 0
    <3>1. l \in 1 .. typed - Len(s.got) /\ s.gotEof = FALSE
      BY <1>1, <1>3, <1>7, <1>9, <2>3
    <3>2. s'.got = s.got \o [i \in 1..l |-> Len(s.got) + i]
      BY <1>5, <1>8, <2>1
    <3>. QED BY <2>1, <3>1, <3>2 DEF InSteps, InPipe!Next, InPipe!Read
  <2>. QED BY <2>2, <2>3
<1>. QED BY <1>10, <1>11 DEF InInv

\* The command hears the end: it has read all there was.
LEMMA InReadsEnd ==
  ASSUME Typed, InInv, Alive, ReadsEnd
  PROVE  InInv' /\ InSteps
<1>1. PICK mid \in Nat :
         /\ InAt(mid) /\ Going \in Seq(Messages) /\ s.gotEof \in BOOLEAN
  BY InKnown
<1>2. /\ Going # <<>> /\ Asked[1] = "EOF" /\ Going' = Tail(Going)
      /\ s'.got = s.got /\ s'.gotEof = TRUE /\ c' = c /\ typed' = typed
  BY DEF ReadsEnd, Reacts, Speaks
<1>3. Len(s.got) = mid /\ InOrder(Tail(Going), {"DATA"}, "EOF", Len(s.got), mid)
  <2>1. InOrder(Going, {"DATA"}, "EOF", Len(s.got), mid)
    BY <1>1 DEF InAt
  <2>. QED BY <1>1, <1>2, <2>1, InOrderTail DEF Asked
<1>4. c.clientEof /\ mid = typed
  <2>1. ~Only(Going, {"EOF"}, 0)
    BY <1>1, <1>2, OnlyTail DEF Asked
  <2>. QED BY <1>1, <2>1 DEF InAt
<1>5. InAt(mid)'
  BY <1>1, <1>2, <1>3, <1>4 DEF InAt
<1>6. InSteps
  <2>1. CASE s.gotEof
    BY <1>1, <1>2, <2>1 DEF InSteps
  <2>2. CASE ~s.gotEof
    BY <1>1, <1>2, <1>3, <1>4, <2>2 DEF InSteps, InPipe!Next, InPipe!Drain
  <2>. QED BY <2>1, <2>2
<1>. QED BY <1>5, <1>6 DEF InInv

LEMMA InNext ==
  ASSUME Typed, InInv, Alive, Talk
  PROVE  InInv' /\ InSteps
<1>1. ASSUME NEW msgs, Hears(msgs) \/ Says(msgs), Only(msgs, {"DATA", "EOF"}, 0),
             UNCHANGED <<c.outq, c.eofPending, c.clientEof, typed>>
      PROVE  InInv' /\ InSteps
  <2>1. msgs \in Seq(Messages) /\ Going' = Going \o msgs /\ s' = s
    BY <1>1 DEF Hears, Says
  <2>. QED BY <1>1, <2>1, InIdle
<1>2. ASSUME NEW t, NEW msgs, Reacts(t, msgs), t \notin {"DATA", "EOF"},
             UNCHANGED <<s.got, s.gotEof>>
      PROVE  InInv' /\ InSteps
  <2>1. Going # <<>> /\ Asked[1] = t /\ Going' = Tail(Going) /\ c' = c /\ typed' = typed
    BY <1>2 DEF Reacts, Speaks
  <2>. QED BY <1>2, <2>1, InIdle
<1>3. ASSUME NEW msgs, Adds(msgs), UNCHANGED <<s.got, s.gotEof>>
      PROVE  InInv' /\ InSteps
  <2>1. Going' = Going /\ c' = c /\ typed' = typed
    BY <1>3 DEF Adds, Speaks
  <2>. QED BY <1>3, <2>1, InIdle
<1>4. \A msgs \in Seq(Messages) : AllOf(msgs, Quiet) => Only(msgs, {"DATA", "EOF"}, 0)
  <2>1. Quiet \cap {"DATA", "EOF"} = {}
    BY DEF Quiet, Plain
  <2>. QED BY <2>1, OnlyHere
<1>5. /\ \A t : t \notin {"DATA", "EOF"} =>
            Only(<<M(t)>>, {"DATA", "EOF"}, 0) /\ \A v : Only(<<Msg(t, v)>>, {"DATA", "EOF"}, 0)
      /\ Only(<<>>, {"DATA", "EOF"}, 0)
  BY Spoken
<1>6. CASE Chats \/ LogsIn \/ Remarks
  BY <1>1, <1>4, <1>6 DEF Chats, LogsIn, Remarks, Hears, Says, Stays, Sending
<1>7. CASE TakesTurn
  <2>1. Only(<<M("KEXINIT"), M("ECDH_INIT")>>, {"DATA", "EOF"}, 0)
    <3>1. M("ECDH_INIT")[1] = "ECDH_INIT" /\ M("KEXINIT")[1] = "KEXINIT"
      BY DEF M, Msg
    <3>2. \A m, n : Len(<<m, n>>) = 2 /\ <<m, n>>[1] = m /\ <<m, n>>[2] = n
      OBVIOUS
    <3>. QED BY <3>1, <3>2 DEF Only
  <2>. QED BY <1>1, <1>5, <1>7, <2>1 DEF TakesTurn, Stays, Sending
<1>8. CASE EndsTurn
  BY <1>1, <1>5, <1>8 DEF EndsTurn, Stays, Sending
<1>9. CASE Asks \/ AsksOn \/ Runs \/ IsTold
  BY <1>1, <1>5, <1>9 DEF Asks, AsksOn, Runs, IsTold, Sending
<1>10. CASE Confirmed
  BY <1>1, <1>5, <1>10 DEF Confirmed
<1>11. CASE Notes \/ Drops
  BY <1>1, <1>5, <1>11 DEF Notes, Drops, Stays, Sending
<1>12. CASE Shows
  BY <1>1, <1>5, <1>12 DEF Shows, Sending
<1>13. CASE Leaves
  BY <1>1, <1>5, <1>13 DEF Leaves, Sending
<1>14. CASE Dies
  BY <1>14, InIdle DEF Dies, Sending
<1>15. CASE Widens \/ TypesMore \/ Finishes
  BY <1>15, InWidens, InTypes, InFinishes
<1>16. CASE Obliges
  <2>1. PICK t \in Quiet \cup {"KEXINIT", "OPEN"}, msgs \in Seq(Messages) : Reacts(t, msgs)
    BY <1>16 DEF Obliges
  <2>2. t \notin {"DATA", "EOF"}
    BY DEF Quiet, Plain
  <2>. QED BY <1>2, <1>16, <2>1, <2>2 DEF Obliges, Serving
<1>17. CASE Responds \/ Confirms \/ Starts
  <2>1. UNCHANGED <<s.got, s.gotEof>>
    BY <1>17 DEF Responds, Confirms, Starts, Serving
  <2>2. (\E msgs : Reacts("PTY_REQ", msgs)) \/ (\E msgs : Reacts("EXEC", msgs))
           \/ (\E msgs : Reacts("OPEN", msgs))
    BY <1>17, Zenon DEF Responds, Confirms, Starts
  <2>. QED BY <1>2, <2>1, <2>2
<1>18. CASE Reads \/ ReadsEnd
  BY <1>18, InReads, InReadsEnd
<1>19. CASE IsRepaid \/ Switches
  BY <1>2, <1>19 DEF IsRepaid, Switches, Serving
<1>20. CASE Exchanges
  <2>1. /\ Going # <<>> /\ Asked[1] \notin {"DATA", "EOF"} /\ Going' = Tail(Going)
        /\ c' = c /\ typed' = typed /\ UNCHANGED <<s.got, s.gotEof>>
    BY <1>20 DEF Exchanges, Serving
  <2>. QED BY <2>1, InIdle
<1>21. CASE Murmurs \/ Renews
  BY <1>3, <1>21 DEF Murmurs, Renews, Serving
<1>22. CASE Grants \/ Writes \/ Exits \/ Shuts
  BY <1>3, <1>22 DEF Grants, Writes, Exits, Shuts
<1>. QED
  BY <1>6, <1>7, <1>8, <1>9, <1>10, <1>11, <1>12, <1>13, <1>14, <1>15, <1>16, <1>17, <1>18, <1>19,
     <1>20, <1>21, <1>22
     DEF Talk, ClientSide, UserSide, ServerSide, ServerMore

-----------------------------------------------------------------------------
(* The output.  What is shown and what is on its way follow each other, and  *)
(* the close comes behind all of it.                                         *)

Finished == s.stage \notin {"login", "running"}
OutInv == Alive =>
  /\ Phase # "over"
  /\ InOrder(Coming, Out, "CLOSE", Len(shown), s.sent)
  /\ Only(Coming, {"CLOSE"}, 0) \/ s.stage = "closing"
OutSteps == [OutPipe!Next]_<<s.sent, shown, s.stage \notin {"login", "running"}, c.wait = "over">>

LEMMA OutKnown ==
  ASSUME Typed, Alive, OutInv
  PROVE  /\ Phase # "over" /\ c.wait # "over" /\ Coming \in Seq(Messages)
         /\ InOrder(Coming, Out, "CLOSE", Len(shown), s.sent) /\ Len(shown) <= s.sent
         /\ Only(Coming, {"CLOSE"}, 0) \/ s.stage = "closing"
         /\ shown \in Seq(Nat) /\ Len(shown) \in Nat /\ s.sent \in Nat
<1>1. Coming \in Seq(Messages) /\ shown \in Seq(Nat) /\ Len(shown) \in Nat
  BY TalkTyped DEF Typed
<1>2. InOrder(Coming, Out, "CLOSE", Len(shown), s.sent)
  BY DEF OutInv
<1>. QED BY <1>1, <1>2, InOrderNat DEF OutInv, Alive

\* No output and no close is heard or said, and nothing is over.
LEMMA OutIdle ==
  ASSUME Typed, OutInv, Alive, UNCHANGED <<s.sent, shown>>, Alive' => Phase' # "over", c'.wait # "over",
         Finished' = Finished, s.stage = "closing" => s'.stage = "closing",
         \/ \E msgs \in Seq(Messages) : Coming' = Coming \o msgs /\ Only(msgs, Out \cup {"CLOSE"}, 0)
         \/ Coming # <<>> /\ Coming' = Tail(Coming) /\ Heard[1] \notin Out
         \/ Coming' = Coming
  PROVE  OutInv' /\ OutSteps
<1>1. /\ InOrder(Coming, Out, "CLOSE", Len(shown), s.sent) /\ Coming \in Seq(Messages) /\ s.sent \in Nat
      /\ c.wait # "over"
  BY OutKnown
<1>2. ASSUME InOrder(Coming', Out, "CLOSE", Len(shown), s.sent),
             Only(Coming, {"CLOSE"}, 0) => Only(Coming', {"CLOSE"}, 0)
      PROVE  OutInv' /\ OutSteps
  <2>1. Only(Coming, {"CLOSE"}, 0) \/ s.stage = "closing"
    BY OutKnown
  <2>2. OutInv'
    BY <1>2, <2>1 DEF OutInv
  <2>3. OutSteps
    BY <1>1 DEF OutSteps, Finished
  <2>. QED BY <2>2, <2>3
<1>3. CASE \E msgs \in Seq(Messages) : Coming' = Coming \o msgs /\ Only(msgs, Out \cup {"CLOSE"}, 0)
  <2>1. PICK msgs \in Seq(Messages) : Coming' = Coming \o msgs /\ Only(msgs, Out \cup {"CLOSE"}, 0)
    BY <1>3
  <2>2. Only(msgs, Out, 0) /\ Only(msgs, {"CLOSE"}, 0)
    BY <2>1, OnlyFewer
  <2>3. InOrder(msgs, Out, "CLOSE", s.sent, s.sent)
    BY <1>1, <2>2, InOrderNone
  <2>4. InOrder(Coming \o msgs, Out, "CLOSE", Len(shown), s.sent)
    BY <1>1, <2>3, InOrderJoined
  <2>5. Only(Coming, {"CLOSE"}, 0) => Only(Coming \o msgs, {"CLOSE"}, 0)
    BY <1>1, <2>2, Spoken
  <2>. QED BY <1>2, <2>1, <2>4, <2>5
<1>4. CASE Coming # <<>> /\ Coming' = Tail(Coming) /\ Heard[1] \notin Out
  <2>1. InOrder(Tail(Coming), Out, "CLOSE", Len(shown), s.sent)
    BY <1>1, <1>4, InOrderTail DEF Heard
  <2>2. Only(Coming, {"CLOSE"}, 0) => Only(Tail(Coming), {"CLOSE"}, 0)
    BY <1>1, <1>4, OnlyTail DEF Shift
  <2>. QED BY <1>2, <1>4, <2>1, <2>2
<1>5. CASE Coming' = Coming
  BY <1>1, <1>2, <1>5
<1>. QED BY <1>3, <1>4, <1>5

\* The client shows what comes first.
LEMMA OutShows ==
  ASSUME Typed, OutInv, Alive, Shows
  PROVE  OutInv' /\ OutSteps
<1>1. /\ Phase # "over" /\ c.wait # "over" /\ Coming \in Seq(Messages)
      /\ InOrder(Coming, Out, "CLOSE", Len(shown), s.sent) /\ Len(shown) <= s.sent
      /\ Only(Coming, {"CLOSE"}, 0) \/ s.stage = "closing"
      /\ shown \in Seq(Nat) /\ Len(shown) \in Nat /\ s.sent \in Nat
  BY OutKnown
<1>2. /\ Coming # <<>> /\ Heard[1] \in Out /\ Coming' = Tail(Coming) /\ shown' = shown \o Heard[2]
      /\ s' = s /\ Phase' = Phase
  BY DEF Shows, Hears, Out
<1>3. c'.wait # "over"
  BY <1>1, <1>2 DEF Phase, InKex
<1>4. PICK n \in Nat : /\ Counts(Heard[2], Len(shown), n) /\ n <= s.sent
                       /\ InOrder(Tail(Coming), Out, "CLOSE", n, s.sent)
  BY <1>1, <1>2, InOrderTail DEF Heard
<1>5. PICK data \in Seq(Nat) : data = Heard[2]
  <2>1. Heard \in Messages
    BY <1>1, <1>2, HeadTail DEF Heard
  <2>. QED BY <1>2, <2>1, Carries DEF Out
<1>6. PICK all : all = shown \o data
  OBVIOUS
<1>7. PICK l \in Nat : l = Len(data)
  OBVIOUS
<1>8. /\ all \in Seq(Nat) /\ Len(all) = n /\ n = Len(shown) + l
      /\ \A j \in 1..l : data[j] = Len(shown) + j
  <2>1. Len(all) = Len(shown) + Len(data) /\ all \in Seq(Nat)
    BY <1>1, <1>6, Joined
  <2>. QED BY <1>4, <1>5, <1>7, <2>1 DEF Counts
<1>9. data = [i \in 1..l |-> Len(shown) + i]
  BY <1>7, <1>8
<1>10. OutInv'
  <2>1. Only(Coming, {"CLOSE"}, 0) => Only(Tail(Coming), {"CLOSE"}, 0)
    BY <1>1, <1>2, OnlyTail DEF Shift
  <2>2. shown' = all
    BY <1>2, <1>5, <1>6
  <2>. QED BY <1>1, <1>2, <1>4, <1>8, <2>1, <2>2 DEF OutInv
<1>11. OutSteps
  <2>1. shown' = all /\ UNCHANGED <<s.sent, s.stage \notin {"login", "running"}>>
    BY <1>2, <1>5, <1>6
  <2>2. CASE l = 0
    <3>1. data = <<>>
      BY <1>7, <2>2, EmptySeq
    <3>2. all = shown
      BY <1>1, <1>6, <3>1, ConcatEmptySeq
    <3>. QED BY <1>1, <1>3, <2>1, <3>2 DEF OutSteps
  <2>3. CASE l # 0
    <3>1. l \in 1 .. s.sent - Len(shown)
      BY <1>1, <1>4, <1>8, <2>3
    <3>2. shown' = shown \o [i \in 1..l |-> Len(shown) + i]
      BY <1>6, <1>9, <2>1
    <3>. QED BY <1>1, <1>3, <2>1, <3>1, <3>2 DEF OutSteps, OutPipe!Next, OutPipe!Read
  <2>. QED BY <2>2, <2>3
<1>. QED BY <1>10, <1>11

\* The client hears the close: it has shown all there was.
LEMMA OutLeaves ==
  ASSUME Typed, OutInv, Alive, Leaves
  PROVE  OutInv' /\ OutSteps
<1>1. /\ Coming # <<>> /\ Heard[1] = "CLOSE" /\ s' = s /\ shown' = shown /\ c'.wait = "over"
  BY DEF Leaves, Hears, Showing
<1>2. /\ InOrder(Coming, Out, "CLOSE", Len(shown), s.sent) /\ Coming \in Seq(Messages)
      /\ Only(Coming, {"CLOSE"}, 0) \/ s.stage = "closing"
      /\ c.wait # "over"
  BY OutKnown
<1>3. Len(shown) = s.sent
  <2>1. "CLOSE" \notin Out
    BY DEF Out
  <2>. QED BY <1>1, <1>2, <2>1, InOrderTail DEF Heard
<1>4. s.stage = "closing"
  <2>1. ~Only(Coming, {"CLOSE"}, 0)
    BY <1>1, <1>2, OnlyTail DEF Heard
  <2>. QED BY <1>2, <2>1
<1>5. OutSteps
  BY <1>1, <1>2, <1>3, <1>4 DEF OutSteps, OutPipe!Next, OutPipe!Drain
<1>6. OutInv'
  BY <1>1 DEF OutInv, Alive
<1>. QED BY <1>5, <1>6

\* The command writes, ends, and the channel is closed.
LEMMA OutWrites ==
  ASSUME Typed, OutInv, Alive, Writes
  PROVE  OutInv' /\ OutSteps
<1>1. /\ Phase # "over" /\ c.wait # "over" /\ Coming \in Seq(Messages)
      /\ InOrder(Coming, Out, "CLOSE", Len(shown), s.sent)
      /\ Only(Coming, {"CLOSE"}, 0) \/ s.stage = "closing"
      /\ s.sent \in Nat
  BY OutKnown
<1>2. s.stage = "running" /\ s'.stage = s.stage
  BY DEF Writes
<1>3. PICK n \in 1..2, t \in {"DATA", "EXT_DATA"} :
         Adds(<<Msg(t, [i \in 1..n |-> s.sent + i])>>) /\ s'.sent = s.sent + n
  BY DEF Writes
<1>4. PICK data : data = [i \in 1..n |-> s.sent + i]
  OBVIOUS
<1>5. data \in Seq(Nat) /\ Len(data) = n /\ \A i \in 1..n : data[i] = s.sent + i
  <2>1. n \in Nat /\ \A i \in 1..n : s.sent + i \in Nat
    BY <1>1
  <2>2. data \in [1..n -> Nat]
    BY <1>4, <2>1
  <2>. QED BY <1>4, <2>1, <2>2
<1>6. PICK to : to = s.sent + n
  OBVIOUS
<1>7. to \in Nat /\ to > s.sent /\ Counts(data, s.sent, to)
  BY <1>1, <1>5, <1>6 DEF Counts
<1>8. PICK m \in Messages : m = Msg(t, data) /\ m[1] = t /\ m[2] = data
  BY <1>5, Plainly DEF Msg
<1>9. c' = c /\ shown' = shown /\ Coming' = Coming \o <<m>> /\ <<m>> \in Seq(Messages)
  BY <1>3, <1>4, <1>8 DEF Adds, Speaks
<1>10. InOrder(<<m>>, Out, "CLOSE", s.sent, to)
  <2>1. m[1] \in Out /\ m[1] # "CLOSE" /\ Counts(m[2], s.sent, to) /\ s.sent <= to
    BY <1>1, <1>7, <1>8 DEF Out
  <2>. QED BY <1>1, <1>7, <2>1, InOrderOne
<1>11. Only(Coming, {"CLOSE"}, 0)
  BY <1>1, <1>2
<1>12. InOrder(Coming \o <<m>>, Out, "CLOSE", Len(shown), to)
  BY <1>1, <1>9, <1>10, <1>11, InOrderJoined
<1>13. Only(Coming \o <<m>>, {"CLOSE"}, 0)
  <2>1. Only(<<m>>, {"CLOSE"}, 0)
    BY <1>8, OnlyHere
  <2>. QED BY <1>1, <1>9, <1>11, <2>1, Spoken
<1>14. Phase' # "over" /\ s'.sent = to
  BY <1>1, <1>3, <1>6, <1>9 DEF Phase, InKex
<1>15. OutInv'
  BY <1>9, <1>12, <1>13, <1>14 DEF OutInv
<1>16. OutSteps
  BY <1>1, <1>2, <1>7, <1>9, <1>14 DEF OutSteps, OutPipe!Next, OutPipe!Write
<1>. QED BY <1>15, <1>16

LEMMA OutExits ==
  ASSUME Typed, OutInv, Alive, Exits
  PROVE  OutInv' /\ OutSteps
<1>1. /\ Phase # "over" /\ c.wait # "over" /\ Coming \in Seq(Messages)
      /\ InOrder(Coming, Out, "CLOSE", Len(shown), s.sent)
      /\ Only(Coming, {"CLOSE"}, 0) \/ s.stage = "closing"
      /\ s.sent \in Nat
  BY OutKnown
<1>2. s.stage = "running" /\ s'.stage = "exited" /\ s'.sent = s.sent
  BY DEF Exits
<1>3. PICK f \in AllFates \cup {<<>>} : Adds(<<M("EOF")>> \o Exit(f))
  BY DEF Exits
<1>4. PICK msgs \in Seq(Messages) : msgs = <<M("EOF")>> \o Exit(f)
  BY <1>3 DEF Adds, Speaks
<1>5. c' = c /\ shown' = shown /\ Coming' = Coming \o msgs
  BY <1>3, <1>4 DEF Adds, Speaks
<1>6. Only(msgs, Out, 0) /\ Only(msgs, {"CLOSE"}, 0)
  <2>1. <<M("EOF")>> \in Seq(Messages) /\ Exit(f) \in Seq(Messages)
    BY Plainly, One DEF Exit, Plain
  <2>2. /\ Only(<<M("EOF")>>, Out, 0) /\ Only(Exit(f), Out, 0)
        /\ Only(<<M("EOF")>>, {"CLOSE"}, 0) /\ Only(Exit(f), {"CLOSE"}, 0)
    BY Spoken DEF Out
  <2>. QED BY <1>4, <2>1, <2>2, Spoken
<1>7. InOrder(Coming \o msgs, Out, "CLOSE", Len(shown), s.sent)
  BY <1>1, <1>6, InOrderNone, InOrderJoined
<1>8. Only(Coming \o msgs, {"CLOSE"}, 0)
  BY <1>1, <1>2, <1>6, Spoken
<1>9. Phase' # "over"
  BY <1>1, <1>5 DEF Phase, InKex
<1>10. OutInv'
  BY <1>2, <1>5, <1>7, <1>8, <1>9 DEF OutInv
<1>11. OutSteps
  BY <1>1, <1>2, <1>5 DEF OutSteps, OutPipe!Next, OutPipe!End
<1>. QED BY <1>10, <1>11

LEMMA OutShuts ==
  ASSUME Typed, OutInv, Alive, Shuts
  PROVE  OutInv' /\ OutSteps
<1>1. /\ Phase # "over" /\ c.wait # "over" /\ Coming \in Seq(Messages)
      /\ InOrder(Coming, Out, "CLOSE", Len(shown), s.sent)
      /\ s.sent \in Nat
  BY OutKnown
<1>2. s.stage = "exited" /\ s'.stage = "closing" /\ s'.sent = s.sent
  BY DEF Shuts
<1>3. PICK msgs \in Seq(Messages) : msgs = <<M("CLOSE")>> /\ Coming' = Coming \o msgs
  BY DEF Shuts, Adds, Speaks
<1>4. c' = c /\ shown' = shown
  BY DEF Shuts, Adds, Speaks
<1>5. Only(msgs, Out, 0)
  BY <1>3, Spoken DEF Out
<1>6. InOrder(Coming \o msgs, Out, "CLOSE", Len(shown), s.sent)
  BY <1>1, <1>5, InOrderNone, InOrderJoined
<1>7. Phase' # "over"
  BY <1>1, <1>4 DEF Phase, InKex
<1>8. OutInv'
  BY <1>2, <1>3, <1>4, <1>6, <1>7 DEF OutInv
<1>9. OutSteps
  BY <1>1, <1>2, <1>4 DEF OutSteps
<1>. QED BY <1>8, <1>9

\* The server's part in a key exchange overtakes what it held.
LEMMA OutExchanges ==
  ASSUME Typed, OutInv, Alive, Exchanges
  PROVE  OutInv' /\ OutSteps
<1>1. /\ Phase # "over" /\ c.wait # "over" /\ Coming \in Seq(Messages)
      /\ InOrder(Coming, Out, "CLOSE", Len(shown), s.sent)
      /\ Only(Coming, {"CLOSE"}, 0) \/ s.stage = "closing"
  BY OutKnown
<1>2. /\ Coming' = Insert(Msgs(down), M("ECDH_REPLY"), M("NEWKEYS"), s.held)
      /\ c' = c /\ shown' = shown /\ UNCHANGED <<s.sent, s.stage>>
  BY DEF Exchanges, Insert, Serving
<1>3. Coming = Msgs(down) \o s.held /\ Msgs(down) \in Seq(Messages) /\ s.held \in Seq(Messages)
  BY TalkTyped DEF Coming
<1>4. PICK x, y : x = M("ECDH_REPLY") /\ y = M("NEWKEYS")
  OBVIOUS
<1>5. /\ x \in Messages /\ y \in Messages /\ x[1] = "ECDH_REPLY" /\ y[1] = "NEWKEYS"
      /\ x[1] \notin Out \cup {"CLOSE"} /\ y[1] \notin Out \cup {"CLOSE"}
  BY <1>4, Plainly DEF Plain, M, Msg, Out
<1>6. InOrder(Insert(Msgs(down), x, y, s.held), Out, "CLOSE", Len(shown), s.sent)
  BY <1>1, <1>3, <1>5, InOrderMet
<1>7. Only(Coming, {"CLOSE"}, 0) => Only(Insert(Msgs(down), x, y, s.held), {"CLOSE"}, 0)
  <2>1. SUFFICES ASSUME Only(Coming, {"CLOSE"}, 0)
                 PROVE  Only(Insert(Msgs(down), x, y, s.held), {"CLOSE"}, 0)
    OBVIOUS
  <2>2. x[1] \notin {"CLOSE"} /\ y[1] \notin {"CLOSE"}
    BY <1>5
  <2>3. Only(Insert(Msgs(down), x, y, s.held), {"CLOSE"}, Place(0, Len(Msgs(down))))
    BY <1>3, <1>5, <2>1, <2>2, OnlyInserted
  <2>4. Place(0, Len(Msgs(down))) = 0
    BY <1>3 DEF Place
  <2>. QED BY <2>3, <2>4
<1>8. Phase' # "over"
  BY <1>1, <1>2 DEF Phase, InKex
<1>9. OutInv'
  BY <1>1, <1>2, <1>4, <1>6, <1>7, <1>8 DEF OutInv
<1>10. OutSteps
  BY <1>1, <1>2 DEF OutSteps
<1>. QED BY <1>9, <1>10

LEMMA OutNext ==
  ASSUME Typed, TalkInv, LateInv, OutInv, Alive, Talk
  PROVE  OutInv' /\ OutSteps
<1>1. Phase # "over" /\ c.wait # "over" /\ Coming \in Seq(Messages) /\ Going \in Seq(Messages)
  BY OutKnown, TalkTyped
<1>2. Phase' # "over" => c'.wait # "over"
  BY DEF Phase, InKex
<1>3. ASSUME NEW msgs, Hears(msgs), Heard[1] \notin Out, shown' = shown, Phase' # "over"
      PROVE  OutInv' /\ OutSteps
  <2>1. Coming # <<>> /\ Coming' = Tail(Coming) /\ s' = s
    BY <1>3 DEF Hears
  <2>. QED BY <1>2, <1>3, <2>1, OutIdle DEF Finished
<1>4. ASSUME NEW msgs, Says(msgs), shown' = shown, Phase' = Phase
      PROVE  OutInv' /\ OutSteps
  <2>1. Coming' = Coming /\ s' = s
    BY <1>4 DEF Says
  <2>. QED BY <1>1, <1>2, <1>4, <2>1, OutIdle DEF Finished
<1>5. ASSUME NEW msgs, Speaks(msgs), Only(msgs, Out \cup {"CLOSE"}, 0), s'.sent = s.sent,
             Finished' = Finished, s.stage = "closing" => s'.stage = "closing"
      PROVE  OutInv' /\ OutSteps
  <2>1. msgs \in Seq(Messages) /\ Coming' = Coming \o msgs /\ c' = c /\ shown' = shown
    BY <1>5 DEF Speaks
  <2>2. Phase' # "over"
    BY <1>1, <2>1 DEF Phase, InKex
  <2>. QED BY <1>2, <1>5, <2>1, <2>2, OutIdle
<1>6. \A t, m : Reacts(t, m) => Speaks(m) /\ Going # <<>> /\ Head(Going)[1] = t
  BY DEF Reacts, Asked
<1>7. \A m : Adds(m) => Speaks(m)
  BY DEF Adds
<1>8. Quiet \cap (Out \cup {"CLOSE"}) = {}
  BY DEF Quiet, Plain, Out
<1>9. \A m : Speaks(m) /\ AllOf(m, Quiet) => Only(m, Out \cup {"CLOSE"}, 0)
  BY <1>8, OnlyHere DEF Speaks
<1>10. /\ \A t : t \notin Out \cup {"CLOSE"} =>
             Only(<<M(t)>>, Out \cup {"CLOSE"}, 0) /\ \A v : Only(<<Msg(t, v)>>, Out \cup {"CLOSE"}, 0)
       /\ Only(<<>>, Out \cup {"CLOSE"}, 0)
  BY Spoken
<1>11. "over" \notin Quietly \cup {"open", "pty", "exec", "run"}
  BY DEF Quietly
<1>12. CASE Chats
  BY <1>1, <1>3, <1>8, <1>12 DEF Chats, Stays, Showing, Out
<1>13. CASE LogsIn \/ Asks
  BY <1>3, <1>8, <1>11, <1>13 DEF LogsIn, Asks, Showing
<1>14. CASE TakesTurn \/ EndsTurn
  BY <1>1, <1>3, <1>14 DEF TakesTurn, EndsTurn, Stays, Showing, Out
<1>15. CASE Confirmed \/ AsksOn \/ Runs
  BY <1>3, <1>11, <1>15 DEF Confirmed, AsksOn, Runs, Showing, Out
<1>16. CASE Notes \/ Widens \/ IsTold
  BY <1>1, <1>3, <1>16 DEF Notes, Widens, IsTold, Showing, Out
<1>17. CASE Drops
  BY <1>1, <1>3, <1>17, NothingDropped DEF Drops, Stays, Showing
<1>18. CASE Shows \/ Leaves
  BY <1>18, OutShows, OutLeaves
<1>19. CASE Dies
  <2>1. OutInv'
    BY <1>19 DEF Dies, OutInv, Alive
  <2>2. OutSteps
    BY <1>1, <1>19 DEF Dies, Showing, OutSteps
  <2>. QED BY <2>1, <2>2
<1>20. CASE Remarks \/ TypesMore \/ Finishes
  <2>1. Phase' = Phase /\ shown' = shown
    BY <1>20 DEF Remarks, TypesMore, Finishes, Stays, Showing
  <2>2. \E msgs : Says(msgs)
    BY <1>20, Zenon DEF Remarks, TypesMore, Finishes
  <2>. QED BY <1>4, <2>1, <2>2
<1>21. CASE Obliges \/ Murmurs
  <2>1. UNCHANGED <<s.sent, s.stage>>
    BY <1>21 DEF Obliges, Murmurs, Serving
  <2>2. \E m : Speaks(m) /\ AllOf(m, Quiet)
    BY <1>6, <1>7, <1>21 DEF Obliges, Murmurs
  <2>. QED BY <1>5, <1>9, <2>1, <2>2 DEF Finished
<1>22. CASE Responds \/ Confirms
  <2>1. UNCHANGED <<s.sent, s.stage>>
    BY <1>22 DEF Responds, Confirms, Serving
  <2>2. \E m : Speaks(m) /\ Only(m, Out \cup {"CLOSE"}, 0)
    BY <1>6, <1>10, <1>22 DEF Responds, Confirms, Out
  <2>. QED BY <1>5, <2>1, <2>2 DEF Finished
<1>23. CASE Starts
  <2>1. PICK w \in Windows, f \in EarlyFates \cup {<<>>} :
           Reacts("EXEC", <<Msg("ADJUST", w)>> \o Exit(f) \o <<M("SUCCESS")>>)
    BY <1>23 DEF Starts
  <2>2. Only(<<Msg("ADJUST", w)>> \o Exit(f) \o <<M("SUCCESS")>>, Out \cup {"CLOSE"}, 0)
    BY StartsSays DEF Out
  <2>3. s.stage = "login"
    <3>1. PICK g, n, e, k : Talks(Going, Coming, Affairs, g, n, e, k)
      BY DEF TalkInv
    <3>2. Going # <<>> /\ Head(Going)[1] \in Questions
      BY <1>6, <2>1 DEF Questions
    <3>3. Affairs.stage = "login"
      BY <1>1, <3>1, <3>2, TalksServed
    <3>. QED BY <3>3 DEF Affairs
  <2>4. s'.stage = "running" /\ s'.sent = s.sent
    BY <1>23 DEF Starts
  <2>. QED BY <1>5, <1>6, <2>1, <2>2, <2>3, <2>4 DEF Finished
<1>24. CASE Reads \/ ReadsEnd \/ IsRepaid \/ Switches
  <2>1. UNCHANGED <<s.sent, s.stage>>
    BY <1>24 DEF Reads, ReadsEnd, IsRepaid, Switches, Serving
  <2>2. Speaks(<<>>)
    BY <1>6, <1>24 DEF Reads, ReadsEnd, IsRepaid, Switches
  <2>. QED BY <1>5, <1>10, <2>1, <2>2 DEF Finished
<1>25. CASE Renews \/ Grants
  <2>1. UNCHANGED <<s.sent, s.stage>>
    BY <1>25 DEF Renews, Grants, Serving
  <2>2. \E m : Speaks(m) /\ Only(m, Out \cup {"CLOSE"}, 0)
    BY <1>7, <1>10, <1>25 DEF Renews, Grants, Out
  <2>. QED BY <1>5, <2>1, <2>2 DEF Finished
<1>26. CASE Exchanges \/ Writes \/ Exits \/ Shuts
  BY <1>26, OutExchanges, OutWrites, OutExits, OutShuts
<1>. QED
  BY <1>12, <1>13, <1>14, <1>15, <1>16, <1>17, <1>18, <1>19, <1>20, <1>21, <1>22, <1>23, <1>24,
     <1>25, <1>26
     DEF Talk, ClientSide, UserSide, ServerSide, ServerMore

-----------------------------------------------------------------------------
(* The theorems.                                                             *)

LEMMA InitPipes == Init => InInv /\ OutInv /\ InPipe!Init /\ OutPipe!Init
<1> SUFFICES ASSUME Init PROVE InInv /\ OutInv /\ InPipe!Init /\ OutPipe!Init
  OBVIOUS
<1>1. PICK strict \in Strict :
         /\ down = Seal(<<Msg("KEXINIT", IF strict THEN 1 ELSE 0)>>, 0, 0)
         /\ s.held = <<>> /\ s.got = <<>> /\ s.gotEof = FALSE /\ s.sent = 0 /\ s.stage = "login"
  BY DEF Init
<1>2. /\ c.wait = "kexinit" /\ c.back = "service" /\ up = Seal(<<M("KEXINIT")>>, 0, 0)
      /\ c.outq = <<>> /\ c.eofPending = FALSE /\ c.clientEof = FALSE /\ typed = 0 /\ shown = <<>>
  BY DEF Init
<1>3. PICK hello \in Messages : hello[1] = "KEXINIT" /\ down = Seal(<<hello>>, 0, 0)
  <2>1. PICK v \in {0, 1} : down = Seal(<<Msg("KEXINIT", v)>>, 0, 0)
    BY <1>1
  <2>2. Msg("KEXINIT", v) \in Messages /\ Msg("KEXINIT", v)[1] = "KEXINIT"
    BY Plainly DEF Msg
  <2>. QED BY <2>1, <2>2
<1>4. M("KEXINIT") \in Messages /\ M("KEXINIT")[1] = "KEXINIT"
  BY Plainly DEF M, Msg
<1>5. Going = <<M("KEXINIT")>> /\ Coming = <<hello>>
  <2>1. \A m \in Messages : Msgs(Seal(<<m>>, 0, 0)) = <<m>>
    BY DEF Msgs, Seal
  <2>2. Going = <<M("KEXINIT")>>
    BY <1>2, <1>4, <2>1 DEF Going
  <2>3. Msgs(down) = <<hello>>
    BY <1>3, <2>1
  <2>. QED BY <1>1, <2>2, <2>3, ConcatEmptySeq DEF Coming
<1>6. Going \in Seq(Messages) /\ Coming \in Seq(Messages)
  BY <1>3, <1>4, <1>5
<1>7. /\ Only(Going, {"DATA"}, 0) /\ Only(Going, {"EOF"}, 0)
      /\ Only(Coming, Out, 0) /\ Only(Coming, {"CLOSE"}, 0)
  BY <1>3, <1>4, <1>5, OnlyHere DEF Out
<1>8. InOrder(Going, {"DATA"}, "EOF", 0, 0) /\ InOrder(Coming, Out, "CLOSE", 0, 0)
  BY <1>6, <1>7, InOrderNone
<1>9. Len(<<>>) = 0
  OBVIOUS
<1>10. Counts(<<>>, 0, 0)
  BY <1>9 DEF Counts
<1>11. InAt(0)
  BY <1>1, <1>2, <1>7, <1>8, <1>9, <1>10 DEF InAt
<1>12. InInv
  BY <1>11 DEF InInv
<1>13. OutInv
  BY <1>1, <1>2, <1>7, <1>8, <1>9 DEF OutInv, Phase, InKex
<1>14. InPipe!Init /\ OutPipe!Init
  BY <1>1, <1>2 DEF InPipe!Init, OutPipe!Init
<1>. QED BY <1>12, <1>13, <1>14

PipesInv == FlowInv /\ InInv /\ OutInv

\* A step keeps both, and is a step of each pipe or none.
LEMMA PipesNext == PipesInv /\ [Next]_vars => InInv' /\ OutInv' /\ InSteps /\ OutSteps
<1> SUFFICES ASSUME PipesInv, [Next]_vars PROVE InInv' /\ OutInv' /\ InSteps /\ OutSteps
  OBVIOUS
<1>1. Typed /\ TurnInv /\ TalkInv /\ LateInv /\ InInv /\ OutInv
  BY DEF PipesInv, FlowInv
<1>2. CASE UNCHANGED vars
  <2>1. UNCHANGED <<Going, Coming, Phase, s, c, typed, shown>>
    BY <1>2 DEF vars, Going, Coming, Msgs, Phase, InKex
  <2>2. InInv' /\ OutInv'
    BY <1>1, <2>1 DEF InInv, InAt, OutInv, Alive
  <2>3. InSteps /\ OutSteps
    BY <2>1 DEF InSteps, OutSteps
  <2>. QED BY <2>2, <2>3
<1>3. CASE Next
  <2>1. Talk
    BY <1>1, <1>3, NextForms
  <2>2. Alive
    BY <2>1 DEF Talk, ClientSide, UserSide, ServerSide, ServerMore, Chats, LogsIn,
       TakesTurn, EndsTurn, Asks, Confirmed, AsksOn, Runs, Notes, Drops, Widens, Shows, IsTold, Leaves,
       Dies, Hears, Remarks, TypesMore, Finishes, Says, Obliges, Responds, Confirms, Starts, Reads,
       ReadsEnd, IsRepaid, Exchanges, Switches, Reacts, Murmurs, Renews, Grants, Writes, Exits, Shuts,
       Adds, Speaks
  <2>. QED BY <1>1, <2>1, <2>2, InNext, OutNext
<1>. QED BY <1>2, <1>3

LEMMA PipesAlways == Spec => []PipesInv
<1>1. PipesInv /\ FlowInv' /\ [Next]_vars => PipesInv'
  BY PipesNext DEF PipesInv
<1>2. Init /\ FlowInv => PipesInv
  BY InitPipes DEF PipesInv
<1>. QED BY <1>1, <1>2, FlowAlways, PTL DEF Spec

\* MsshChannel implements Pipe: the input the user gives reaches the command
\* complete, in order and once, whatever of it is queued for want of a window,
\* cut to the server's packets or held up by a key exchange, and the command
\* is told of its end only after all of it (ssh_send, ssh_send_eof and
\* ssh_pump in src/mssh/mssh.c).
THEOREM InputAlwaysKept == Spec => InputKept
<1>1. PipesInv /\ [Next]_vars => InSteps
  BY PipesNext
<1>2. Init => InPipe!Init
  BY InitPipes
<1>. QED BY <1>1, <1>2, PipesAlways, PTL DEF Spec, InputKept, InPipe!Spec, InSteps

\* And it implements Pipe the other way: what the command writes, to either
\* stream, is shown complete and in order, none of it is dropped while an
\* answer is awaited, and a session that is over has shown all of it (ssh_pump
\* and channel_request in src/mssh/mssh.c).
THEOREM OutputAlwaysKept == Spec => OutputKept
<1>1. PipesInv /\ [Next]_vars => OutSteps
  BY PipesNext
<1>2. Init => OutPipe!Init
  BY InitPipes
<1>. QED BY <1>1, <1>2, PipesAlways, PTL DEF Spec, OutputKept, OutPipe!Spec, OutSteps
=============================================================================
