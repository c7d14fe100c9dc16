-------------------------- MODULE MuxObserve_proofs --------------------------
(* KeysInOrder and ShowsOwner of MuxObserve, for any number of windows, any  *)
(* sizes of the two terminals, any room in the socket buffers, any number of *)
(* keys, and any interleaving of the owner, the observer and their users.    *)
(*                                                                           *)
(* Both are about a stream that is cut anywhere, and both are proved by      *)
(* saying what the stream still means.  Upwards, the owner's unfinished      *)
(* packet, the bytes on the link and the observer's due writes are together  *)
(* a sequence of whole packets, whose meaning is what is wanted and not yet  *)
(* done (Parsed).  Downwards, what the owner has not pushed and what is on   *)
(* the link is a sequence of whole frames after the one the observer is in   *)
(* (FedBy), the last of which is of the screen as it is (Latest).            *)
EXTENDS MuxObserve, SequenceTheorems, TLAPS

-----------------------------------------------------------------------------
(* What goes up: packets, and what each of them means.                       *)

Sym == Key \cup Digit \cup
       {"K", "C", "W", "esc", "new", "next", "prev", "close", "redraw", "scroll"}

Packet == {<<"K", "1", b>> : b \in Sym} \cup {<<"K", "2", a, b>> : a, b \in Sym}
          \cup {<<"W", d>> : d \in Digit} \cup {<<"C", c, "0">> : c \in Sym}
MeaningOf(p) == IF p[1] = "K" THEN SubSeq(p, 3, Len(p))
                ELSE IF p[1] = "W" THEN p ELSE <<"C", p[2]>>

\* The writes that are due are at most two.
Joined(writes) ==
  IF writes = <<>> THEN <<>> ELSE IF Len(writes) = 1 THEN writes[1] ELSE writes[1] \o writes[2]

LEMMA Regroup == \A a, b, c \in Seq(Sym) : (a \o b) \o c = a \o (b \o c)
<1> SUFFICES ASSUME NEW a \in Seq(Sym), NEW b \in Seq(Sym), NEW c \in Seq(Sym)
             PROVE  (a \o b) \o c = a \o (b \o c)
  OBVIOUS
<1>. QED BY ConcatAssociative

LEMMA Digits ==
  ASSUME NEW b \in Digit
  PROVE  Index(b) \in 0..9 /\ DigitOrder[Index(b) + 1] = b
<1>1. DOMAIN DigitOrder = 1..10
  BY DEF DigitOrder
<1>2. PICK i \in 1..10 : DigitOrder[i] = b
  BY <1>1 DEF Digit
<1>3. i - 1 \in 0..9 /\ DigitOrder[(i - 1) + 1] = b
  BY <1>2
<1> HIDE DEF DigitOrder
<1>. QED BY <1>3 DEF Index

LEMMA DigitSyms == {"0", "1", "2"} \subseteq Digit
<1>1. DOMAIN DigitOrder = 1..10
  BY DEF DigitOrder
<1>2. DigitOrder[10] = "0" /\ DigitOrder[1] = "1" /\ DigitOrder[2] = "2"
  BY DEF DigitOrder
<1>. QED BY <1>1, <1>2 DEF Digit

LEMMA SlotDigit ==
  ASSUME NEW i \in 0..9
  PROVE  DigitOrder[i + 1] \in Digit
BY DEF Digit, DigitOrder

LEMMA Cut1 ==
  ASSUME NEW S, NEW s \in Seq(S), Len(s) = 3
  PROVE  SubSeq(s, 3, 3) = <<s[3]>>
<1>1. 3 \in 1..Len(s) /\ \A i \in 1..Len(s) : s[i] \in S
  OBVIOUS
<1>2. SubSeq(s, 3, 3) \in Seq(S) /\ Len(SubSeq(s, 3, 3)) = 1
      /\ \A i \in 1..1 : SubSeq(s, 3, 3)[i] = s[3 + i - 1]
  BY <1>1
<1>3. <<s[3]>> \in Seq(S) /\ Len(<<s[3]>>) = 1 /\ <<s[3]>>[1] = s[3]
  BY <1>1
<1>4. \A i \in 1..1 : i = 1 /\ 3 + i - 1 = 3
  OBVIOUS
<1>5. \A i \in 1..1 : SubSeq(s, 3, 3)[i] = <<s[3]>>[i]
  BY <1>2, <1>3, <1>4
<1>. QED BY <1>2, <1>3, <1>5, SeqEqual

LEMMA Cut2 ==
  ASSUME NEW S, NEW s \in Seq(S), Len(s) = 4
  PROVE  SubSeq(s, 3, 4) = <<s[3], s[4]>>
<1>1. 3 \in 1..Len(s) /\ 4 \in 1..Len(s) /\ \A i \in 1..Len(s) : s[i] \in S
  <2>1. 3 \in 1..Len(s) /\ 4 \in 1..Len(s)
    OBVIOUS
  <2>2. ASSUME NEW i \in 1..Len(s) PROVE s[i] \in S
    BY ONLY s \in Seq(S), i \in 1..Len(s), ElementOfSeq
  <2>. QED BY <2>1, <2>2
<1>2. SubSeq(s, 3, 4) \in Seq(S) /\ Len(SubSeq(s, 3, 4)) = 2
      /\ \A i \in 1..2 : SubSeq(s, 3, 4)[i] = s[3 + i - 1]
  BY <1>1
<1>3. <<s[3], s[4]>> \in Seq(S) /\ Len(<<s[3], s[4]>>) = 2
      /\ <<s[3], s[4]>>[1] = s[3] /\ <<s[3], s[4]>>[2] = s[4]
  BY <1>1
<1>4. \A i \in 1..2 : (i = 1 /\ 3 + i - 1 = 3) \/ (i = 2 /\ 3 + i - 1 = 4)
  OBVIOUS
<1>5. \A i \in 1..2 : SubSeq(s, 3, 4)[i] = <<s[3], s[4]>>[i]
  BY <1>2, <1>3, <1>4
<1>. QED BY <1>2, <1>3, <1>5, SeqEqual

LEMMA Glue1 ==
  ASSUME NEW S, NEW a \in S, NEW b \in S, NEW c \in S
  PROVE  <<a, b>> \o <<c>> = <<a, b, c>>
<1>1. <<a, b>> \in Seq(S) /\ <<c>> \in Seq(S) /\ <<a, b, c>> \in Seq(S)
  OBVIOUS
<1>2. Len(<<a, b>>) = 2 /\ Len(<<c>>) = 1 /\ Len(<<a, b, c>>) = 3
  OBVIOUS
<1>3. Len(<<a, b>> \o <<c>>) = 3 /\ <<a, b>> \o <<c>> \in Seq(S)
  BY <1>1, <1>2
<1>4. \A i \in 1..3 : (<<a, b>> \o <<c>>)[i] = IF i <= 2 THEN <<a, b>>[i] ELSE <<c>>[i - 2]
  BY <1>1, <1>2
<1>5. \A i \in 1..3 : (<<a, b>> \o <<c>>)[i] = <<a, b, c>>[i]
  <2>1. \A i \in 1..3 : i = 1 \/ i = 2 \/ i = 3
    OBVIOUS
  <2>. QED BY <1>4, <2>1
<1>. QED BY <1>1, <1>2, <1>3, <1>5, SeqEqual

LEMMA Glue2 ==
  ASSUME NEW S, NEW a \in S, NEW b \in S, NEW c \in S, NEW d \in S
  PROVE  <<a, b>> \o <<c, d>> = <<a, b, c, d>>
<1>1. <<a, b>> \in Seq(S) /\ <<c, d>> \in Seq(S) /\ <<a, b, c, d>> \in Seq(S)
  OBVIOUS
<1>2. Len(<<a, b>>) = 2 /\ Len(<<c, d>>) = 2 /\ Len(<<a, b, c, d>>) = 4
  OBVIOUS
<1>3. Len(<<a, b>> \o <<c, d>>) = 4 /\ <<a, b>> \o <<c, d>> \in Seq(S)
  BY <1>1, <1>2
<1>4. \A i \in 1..4 : (<<a, b>> \o <<c, d>>)[i] = IF i <= 2 THEN <<a, b>>[i] ELSE <<c, d>>[i - 2]
  BY <1>1, <1>2
<1>5. \A i \in 1..4 : (<<a, b>> \o <<c, d>>)[i] = <<a, b, c, d>>[i]
  <2>1. \A i \in 1..4 : i = 1 \/ i = 2 \/ i = 3 \/ i = 4
    OBVIOUS
  <2>. QED BY <1>4, <2>1
<1>. QED BY <1>1, <1>2, <1>3, <1>5, SeqEqual

Commands == {"new", "next", "prev", "close", "redraw", "scroll", "quit", "detach"}

\* What a packet is, byte by byte.
LEMMA PacketIs ==
  ASSUME NEW p \in Packet
  PROVE  /\ p \in Seq(Sym) /\ Len(p) \in Nat /\ 2 <= Len(p) /\ Len(p) <= 4
         /\ MeaningOf(p) \in Seq(Sym)
         /\ \/ p[1] = "K" /\ Len(p) = 3 /\ p[2] = "1" /\ MeaningOf(p) = <<p[3]>>
            \/ p[1] = "K" /\ Len(p) = 4 /\ p[2] = "2" /\ MeaningOf(p) = <<p[3], p[4]>>
            \/ p[1] = "W" /\ Len(p) = 2 /\ MeaningOf(p) = p
            \/ p[1] = "C" /\ Len(p) = 3 /\ MeaningOf(p) = <<"C", p[2]>>
<1>1. CASE \E b \in Sym : p = <<"K", "1", b>>
  <2>1. PICK b \in Sym : p = <<"K", "1", b>>
    BY <1>1
  <2>2. p \in Seq(Sym) /\ Len(p) = 3 /\ p[1] = "K" /\ p[2] = "1" /\ p[3] = b
    BY <2>1, DigitSyms DEF Sym
  <2>3. SubSeq(p, 3, 3) = <<p[3]>>
    BY <2>2, Cut1
  <2>. QED BY <2>2, <2>3 DEF MeaningOf
<1>2. CASE \E a, b \in Sym : p = <<"K", "2", a, b>>
  <2>1. PICK a \in Sym, b \in Sym : p = <<"K", "2", a, b>>
    BY <1>2
  <2>2. p \in Seq(Sym) /\ Len(p) = 4 /\ p[1] = "K" /\ p[2] = "2" /\ p[3] = a /\ p[4] = b
    BY <2>1, DigitSyms DEF Sym
  <2>3. SubSeq(p, 3, 4) = <<p[3], p[4]>>
    BY <2>2, Cut2
  <2>. QED BY <2>2, <2>3 DEF MeaningOf
<1>3. CASE \E d \in Digit : p = <<"W", d>>
  <2>1. PICK d \in Digit : p = <<"W", d>>
    BY <1>3
  <2>2. p \in Seq(Sym) /\ Len(p) = 2 /\ p[1] = "W"
    BY <2>1 DEF Sym
  <2>. QED BY <2>2 DEF MeaningOf
<1>4. CASE \E c \in Sym : p = <<"C", c, "0">>
  <2>1. PICK c \in Sym : p = <<"C", c, "0">>
    BY <1>4
  <2>2. p \in Seq(Sym) /\ Len(p) = 3 /\ p[1] = "C" /\ p[2] = c /\ "C" \in Sym
    BY <2>1, DigitSyms DEF Sym
  <2>. QED BY <2>2 DEF MeaningOf
<1>. QED BY <1>1, <1>2, <1>3, <1>4 DEF Packet

LEMMA EventIs ==
  ASSUME NEW st, NEW b
  PROVE  \/ EventOf(st, b).cmd = "none"
         \/ EventOf(st, b).cmd = "pass" /\ EventOf(st, b).bytes \in {<<b>>, <<"esc", b>>}
         \/ EventOf(st, b).cmd = "select" /\ EventOf(st, b).slot \in 0..9
         \/ EventOf(st, b).cmd \in Commands
<1>1. b \in Digit => Index(b) \in 0..9
  BY Digits
<1>2. b \in Letter => CommandOf(b) \in Commands
  BY DEF Letter, CommandOf, Commands
<1> HIDE DEF Digit, Letter, Index, CommandOf
<1>. QED BY <1>1, <1>2 DEF EventOf, Pass, Select, Do, Nothing, Commands

\* The writes for an event make one packet, and the packet means the event.
LEMMA PacketsMean ==
  ASSUME NEW st, NEW b \in Key, EventOf(st, b).cmd \notin {"quit", "detach"}
  PROVE  /\ Packets(EventOf(st, b)) \in Seq(Seq(Sym))
         /\ Len(Packets(EventOf(st, b))) <= 2
         /\ \/ Packets(EventOf(st, b)) = <<>> /\ Meaning(EventOf(st, b)) = <<>>
            \/ /\ Packets(EventOf(st, b)) # <<>>
               /\ Joined(Packets(EventOf(st, b))) \in Packet
               /\ Meaning(EventOf(st, b)) = MeaningOf(Joined(Packets(EventOf(st, b))))
<1> DEFINE ev == EventOf(st, b)
<1>1. \/ ev.cmd = "none"
      \/ ev.cmd = "pass" /\ ev.bytes \in {<<b>>, <<"esc", b>>}
      \/ ev.cmd = "select" /\ ev.slot \in 0..9
      \/ ev.cmd \in Commands
  BY EventIs
<1>2. b \in Sym /\ "esc" \in Sym /\ "K" \in Sym /\ "1" \in Sym /\ "2" \in Sym /\ "W" \in Sym
      /\ "C" \in Sym /\ "0" \in Sym /\ (Commands \ {"quit", "detach"}) \subseteq Sym
      /\ Digit \subseteq Sym
  BY DigitSyms DEF Sym, Commands
<1> HIDE DEF ev
<1>3. CASE ev.cmd = "none"
  BY <1>3 DEF Packets, Meaning, ev
<1>4. CASE ev.cmd = "pass" /\ ev.bytes = <<b>>
  <2>1. Packets(ev) = <<<<"K", "1">> \o <<b>>>> /\ Meaning(ev) = <<b>>
    BY <1>4 DEF Packets, Meaning
  <2>2. <<"K", "1">> \o <<b>> = <<"K", "1", b>>
    BY <1>2, Glue1
  <2>3. <<"K", "1", b>> \in Seq(Sym) /\ <<"K", "1", b>> \in Packet
    BY <1>2 DEF Packet
  <2>4. Packets(ev) \in Seq(Seq(Sym)) /\ Len(Packets(ev)) = 1 /\ Joined(Packets(ev)) = <<"K", "1", b>>
    BY <2>1, <2>2, <2>3 DEF Joined
  <2>5. MeaningOf(<<"K", "1", b>>) = <<b>>
    BY <2>3, PacketIs
  <2>. QED BY <2>1, <2>3, <2>4, <2>5 DEF ev
<1>5. CASE ev.cmd = "pass" /\ ev.bytes = <<"esc", b>>
  <2>1. Packets(ev) = <<<<"K", "2">>, <<"esc", b>>>> /\ Meaning(ev) = <<"esc", b>>
    BY <1>5 DEF Packets, Meaning
  <2>2. <<"K", "2">> \o <<"esc", b>> = <<"K", "2", "esc", b>>
    BY <1>2, Glue2
  <2>3. <<"K", "2">> \in Seq(Sym) /\ <<"esc", b>> \in Seq(Sym) /\ <<"K", "2", "esc", b>> \in Packet
    BY <1>2 DEF Packet
  <2>4. Packets(ev) \in Seq(Seq(Sym)) /\ Len(Packets(ev)) = 2
        /\ Joined(Packets(ev)) = <<"K", "2", "esc", b>>
    BY <2>1, <2>2, <2>3 DEF Joined
  <2>5. MeaningOf(<<"K", "2", "esc", b>>) = <<"esc", b>>
    BY <2>3, PacketIs
  <2>. QED BY <2>1, <2>3, <2>4, <2>5 DEF ev
<1>6. CASE ev.cmd = "select" /\ ev.slot \in 0..9
  <2> DEFINE d == DigitOrder[ev.slot + 1]
  <2>0. d \in Digit
    BY <1>6, SlotDigit
  <2> HIDE DEF d
  <2>1. Packets(ev) = <<<<"W", d>>>> /\ Meaning(ev) = <<"W", d>>
    BY <1>6 DEF Packets, Meaning, d
  <2>3. <<"W", d>> \in Seq(Sym) /\ <<"W", d>> \in Packet
    BY <1>2, <2>0 DEF Packet
  <2>4. Packets(ev) \in Seq(Seq(Sym)) /\ Len(Packets(ev)) = 1 /\ Joined(Packets(ev)) = <<"W", d>>
    BY <2>1, <2>3 DEF Joined
  <2>5. MeaningOf(<<"W", d>>) = <<"W", d>>
    BY <2>3, PacketIs
  <2>. QED BY <2>1, <2>3, <2>4, <2>5 DEF ev
<1>7. CASE ev.cmd \in Commands
  <2>0. ev.cmd \in Sym /\ ev.cmd \notin {"none", "pass", "select"}
    BY <1>2, <1>7 DEF Commands, ev
  <2>1. Packets(ev) = <<<<"C", ev.cmd, "0">>>> /\ Meaning(ev) = <<"C", ev.cmd>>
    BY <2>0 DEF Packets, Meaning
  <2>3. <<"C", ev.cmd, "0">> \in Seq(Sym) /\ <<"C", ev.cmd, "0">> \in Packet
    BY <1>2, <2>0 DEF Packet
  <2>4. Packets(ev) \in Seq(Seq(Sym)) /\ Len(Packets(ev)) = 1
        /\ Joined(Packets(ev)) = <<"C", ev.cmd, "0">>
    BY <2>1, <2>3 DEF Joined
  <2>5. MeaningOf(<<"C", ev.cmd, "0">>) = <<"C", ev.cmd>>
    BY <2>3, PacketIs
  <2>. QED BY <2>1, <2>3, <2>4, <2>5 DEF ev
<1>. QED BY <1>1, <1>3, <1>4, <1>5, <1>6, <1>7

-----------------------------------------------------------------------------
(* Bytes on their way: byte i of b is byte k[i] of the packet p[i], which    *)
(* means what w holds after its first m[i].                                  *)

Means(p, m, w) ==
  /\ m \in Nat /\ m + Len(MeaningOf(p)) <= Len(w)
  /\ \A j \in 1..Len(MeaningOf(p)) : w[m + j] = MeaningOf(p)[j]

\* The packets follow each other, the first means what comes after d, and unless
\* the sender is gone the last is whole and nothing comes after its meaning.
ParsedBy(b, p, k, m, d, w, over) ==
  /\ \A i \in 1..Len(b) : /\ p[i] \in Packet /\ k[i] \in 1..Len(p[i]) /\ b[i] = p[i][k[i]]
                          /\ Means(p[i], m[i], w)
  /\ \A i \in 1..Len(b) - 1 :
       IF k[i] < Len(p[i]) THEN p[i + 1] = p[i] /\ k[i + 1] = k[i] + 1 /\ m[i + 1] = m[i]
       ELSE k[i + 1] = 1 /\ m[i + 1] = m[i] + Len(MeaningOf(p[i]))
  /\ Len(b) > 0 => k[1] = 1 /\ m[1] = Len(d)
  /\ ~over => IF Len(b) = 0 THEN Len(d) = Len(w)
              ELSE k[Len(b)] = Len(p[Len(b)])
                   /\ m[Len(b)] + Len(MeaningOf(p[Len(b)])) = Len(w)
Parsed(b, d, w, over) == \E p, k, m : ParsedBy(b, p, k, m, d, w, over)

Begins(a, b) == Len(a) <= Len(b) /\ \A i \in 1..Len(a) : a[i] = b[i]

\* When the sender ends, what it has not written is lost.
LEMMA ParsedCut ==
  ASSUME NEW b \in Seq(Sym), NEW c \in Seq(Sym), Begins(c, b),
         NEW d \in Seq(Sym), NEW w \in Seq(Sym), NEW over \in BOOLEAN, Parsed(b, d, w, over)
  PROVE  Parsed(c, d, w, TRUE)
<1>1. PICK p, k, m : ParsedBy(b, p, k, m, d, w, over)
  BY DEF Parsed
<1>2. Len(c) \in Nat /\ Len(b) \in Nat /\ Len(c) <= Len(b)
  BY DEF Begins
<1>3. ASSUME NEW i \in 1..Len(c)
      PROVE  p[i] \in Packet /\ k[i] \in 1..Len(p[i]) /\ c[i] = p[i][k[i]] /\ Means(p[i], m[i], w)
  <2>1. i \in 1..Len(b) /\ c[i] = b[i]
    BY <1>2 DEF Begins
  <2>. QED BY <1>1, <2>1 DEF ParsedBy
<1>4. \A i \in 1..Len(c) - 1 : i \in 1..Len(b) - 1
  BY <1>2
<1>5. Len(c) > 0 => Len(b) > 0
  BY <1>2
<1>6. ParsedBy(c, p, k, m, d, w, TRUE)
  BY <1>1, <1>3, <1>4, <1>5 DEF ParsedBy
<1>. QED BY <1>6 DEF Parsed

\* An event's packet comes last.
LEMMA ParsedMore ==
  ASSUME NEW b \in Seq(Sym), NEW q \in Packet,
         NEW d \in Seq(Sym), NEW w \in Seq(Sym), Parsed(b, d, w, FALSE)
  PROVE  Parsed(b \o q, d, w \o MeaningOf(q), FALSE)
<1>1. PICK p, k, m : ParsedBy(b, p, k, m, d, w, FALSE)
  BY DEF Parsed
<1>q. q \in Seq(Sym) /\ Len(q) \in Nat /\ 2 <= Len(q) /\ Len(q) <= 4 /\ MeaningOf(q) \in Seq(Sym)
  BY PacketIs
<1> DEFINE n == Len(b)
           x == MeaningOf(q)
           ww == w \o x
           c == b \o q
           P == [i \in 1..n + Len(q) |-> IF i <= n THEN p[i] ELSE q]
           K == [i \in 1..n + Len(q) |-> IF i <= n THEN k[i] ELSE i - n]
           M == [i \in 1..n + Len(q) |-> IF i <= n THEN m[i] ELSE Len(w)]
<1>2. n \in Nat /\ Len(q) \in Nat /\ Len(w) \in Nat /\ Len(x) \in Nat /\ Len(c) = n + Len(q)
      /\ Len(ww) = Len(w) + Len(x) /\ Len(d) \in Nat /\ n + Len(q) > n
  <2>1. n \in Nat /\ Len(w) \in Nat /\ Len(d) \in Nat
    BY ONLY b \in Seq(Sym), w \in Seq(Sym), d \in Seq(Sym), LenProperties
  <2>1a. Len(q) \in Nat /\ Len(q) > 0
    BY ONLY <1>q
  <2>2. x \in Seq(Sym) /\ Len(x) \in Nat
    BY <1>q
  <2> HIDE DEF x
  <2>3. Len(c) = n + Len(q) /\ Len(ww) = Len(w) + Len(x)
    BY <1>q, <2>2
  <2>4. n + Len(q) > n
    BY ONLY <2>1, <2>1a
  <2>. QED BY <2>1, <2>1a, <2>2, <2>3, <2>4
<1>3. (\A i \in 1..n : c[i] = b[i]) /\ (\A i \in 1..Len(q) : c[n + i] = q[i])
  BY <1>q
<1>4. (\A i \in 1..Len(w) : ww[i] = w[i]) /\ (\A i \in 1..Len(x) : ww[Len(w) + i] = x[i])
  BY <1>q
<1>5. \A i \in 1..n : P[i] = p[i] /\ K[i] = k[i] /\ M[i] = m[i]
  BY <1>2
<1>6. \A i \in n + 1..n + Len(q) : P[i] = q /\ K[i] = i - n /\ M[i] = Len(w)
  BY <1>2
<1> HIDE DEF P, K, M, c, ww, n, x
<1>7. ASSUME NEW i \in 1..Len(c)
      PROVE  P[i] \in Packet /\ K[i] \in 1..Len(P[i]) /\ c[i] = P[i][K[i]] /\ Means(P[i], M[i], ww)
  <2>1. CASE i \in 1..n
    <3>1. p[i] \in Packet /\ k[i] \in 1..Len(p[i]) /\ b[i] = p[i][k[i]] /\ Means(p[i], m[i], w)
      BY <1>1, <2>1 DEF ParsedBy, n
    <3> DEFINE y == MeaningOf(p[i])
    <3>2. y \in Seq(Sym) /\ Len(y) \in Nat
      BY <3>1, PacketIs
    <3>3. m[i] \in Nat /\ m[i] + Len(y) <= Len(w) /\ \A j \in 1..Len(y) : w[m[i] + j] = y[j]
      BY <3>1 DEF Means
    <3> HIDE DEF y
    <3>4. \A j \in 1..Len(y) : m[i] + j \in 1..Len(w)
      <4> DEFINE a == m[i]  l == Len(y)  e == Len(w)
      <4>1. a \in Nat /\ l \in Nat /\ e \in Nat /\ a + l <= e
        BY <1>2, <3>2, <3>3
      <4> HIDE DEF a, l, e
      <4>2. \A j \in 1..l : a + j \in 1..e
        BY ONLY <4>1
      <4>. QED BY <4>2 DEF a, l, e
    <3>5. \A j \in 1..Len(y) : ww[m[i] + j] = y[j]
      BY <1>4, <3>3, <3>4
    <3>6. m[i] + Len(y) <= Len(ww)
      BY <1>2, <3>2, <3>3
    <3>7. Means(p[i], m[i], ww)
      BY <3>3, <3>5, <3>6 DEF Means, y
    <3>. QED BY <1>3, <1>5, <2>1, <3>1, <3>7
  <2>2. CASE i \in n + 1..n + Len(q)
    <3>1. P[i] = q /\ K[i] = i - n /\ M[i] = Len(w)
      BY <1>6, <2>2
    <3>2. i - n \in 1..Len(q) /\ n + (i - n) = i
      BY <1>2, <2>2
    <3>3. c[i] = q[i - n]
      BY <1>3, <3>2
    <3>4. Means(q, Len(w), ww)
      BY <1>2, <1>4 DEF Means, x
    <3>. QED BY <3>1, <3>2, <3>3, <3>4
  <2>. QED BY <1>2, <2>1, <2>2
<1>8. ASSUME NEW i \in 1..Len(c) - 1
      PROVE  IF K[i] < Len(P[i]) THEN P[i + 1] = P[i] /\ K[i + 1] = K[i] + 1 /\ M[i + 1] = M[i]
             ELSE K[i + 1] = 1 /\ M[i + 1] = M[i] + Len(MeaningOf(P[i]))
  <2>1. CASE i < n
    <3>1. i \in 1..n - 1 /\ i \in 1..n /\ i + 1 \in 1..n
      BY <1>2, <2>1
    <3>2. IF k[i] < Len(p[i]) THEN p[i + 1] = p[i] /\ k[i + 1] = k[i] + 1 /\ m[i + 1] = m[i]
          ELSE k[i + 1] = 1 /\ m[i + 1] = m[i] + Len(MeaningOf(p[i]))
      BY <1>1, <3>1 DEF ParsedBy, n
    <3>. QED BY <1>5, <3>1, <3>2
  <2>2. CASE i = n
    <3>1. n \in 1..n /\ n # 0 /\ n + 1 \in n + 1..n + Len(q) /\ (n + 1) - n = 1
      BY <1>2, <1>q, <2>2
    <3>2. k[n] = Len(p[n]) /\ m[n] + Len(MeaningOf(p[n])) = Len(w)
      BY <1>1, <3>1 DEF ParsedBy, n
    <3>2a. p[n] \in Packet
      BY <1>1, <3>1 DEF ParsedBy, n
    <3>3. P[i] = p[n] /\ K[i] = k[n] /\ M[i] = m[n]
      BY <1>5, <2>2, <3>1
    <3>4. K[i + 1] = 1 /\ M[i + 1] = Len(w)
      BY <1>6, <2>2, <3>1
    <3>5. ~(K[i] < Len(P[i]))
      <4>1. Len(p[n]) \in Nat
        BY <3>2a, PacketIs
      <4>. QED BY <3>2, <3>3, <4>1
    <3>. QED BY <3>2, <3>3, <3>4, <3>5
  <2>3. CASE i > n
    <3>1. i \in n + 1..n + Len(q) /\ i + 1 \in n + 1..n + Len(q) /\ i - n < Len(q)
          /\ (i + 1) - n = (i - n) + 1
      BY <1>2, <2>3
    <3>. QED BY <1>6, <3>1
  <2>. QED BY <1>2, <2>1, <2>2, <2>3
<1>9. K[1] = 1 /\ M[1] = Len(d)
  <2>1. CASE n = 0
    <3>1. Len(d) = Len(w)
      BY <1>1, <2>1 DEF ParsedBy, n
    <3>2. 1 \in n + 1..n + Len(q) /\ 1 - n = 1
      BY <1>2, <1>q, <2>1
    <3>. QED BY <1>6, <3>1, <3>2
  <2>2. CASE n # 0
    <3>1. n > 0 /\ 1 \in 1..n
      BY <1>2, <2>2
    <3>2. k[1] = 1 /\ m[1] = Len(d)
      BY <1>1, <3>1 DEF ParsedBy, n
    <3>. QED BY <1>5, <3>1, <3>2
  <2>. QED BY <2>1, <2>2
<1>10. Len(c) # 0 /\ K[Len(c)] = Len(P[Len(c)]) /\ M[Len(c)] + Len(MeaningOf(P[Len(c)])) = Len(ww)
  <2>1. Len(c) \in n + 1..n + Len(q) /\ Len(c) - n = Len(q) /\ Len(c) # 0
    BY <1>2
  <2>. QED BY <1>2, <1>6, <2>1 DEF x
<1>11. ParsedBy(c, P, K, M, d, ww, FALSE)
  BY <1>7, <1>8, <1>9, <1>10 DEF ParsedBy
<1>. QED BY <1>11 DEF Parsed, c, ww, x

\* The first bytes: as far as the packet they begin goes, they are its bytes.
LEMMA FirstBytes ==
  ASSUME NEW b \in Seq(Sym), NEW d, NEW w, NEW over, NEW p, NEW k, NEW m,
         ParsedBy(b, p, k, m, d, w, over), Len(b) > 0
  PROVE  \A i \in 1..Len(b) : i <= Len(p[1]) => p[i] = p[1] /\ k[i] = i /\ m[i] = m[1]
<1>1. Len(b) \in Nat /\ 1 \in 1..Len(b) /\ p[1] \in Packet /\ k[1] = 1
  BY DEF ParsedBy
<1>2. Len(p[1]) \in Nat /\ 2 <= Len(p[1]) /\ Len(p[1]) <= 4
  BY <1>1, PacketIs
<1> DEFINE Same(i) == p[i] = p[1] /\ k[i] = i /\ m[i] = m[1]
<1>3. ASSUME NEW i \in 1..Len(b) - 1, Same(i), i < Len(p[1])
      PROVE  Same(i + 1)
  BY <1>3 DEF ParsedBy
<1>4. Same(1)
  BY <1>1
<1> HIDE DEF Same
<1>5. 2 <= Len(b) => Same(2)
  <2>1. 1 \in 1..Len(b) - 1 \/ ~(2 <= Len(b))
    BY <1>1
  <2>2. 1 + 1 = 2 /\ 1 < Len(p[1])
    BY <1>2
  <2>. QED BY <1>3, <1>4, <2>1, <2>2
<1>6. 3 <= Len(b) /\ 3 <= Len(p[1]) => Same(3)
  <2>1. 3 <= Len(b) => 2 \in 1..Len(b) - 1 /\ 2 <= Len(b)
    BY <1>1
  <2>2. 2 + 1 = 3 /\ (3 <= Len(p[1]) => 2 < Len(p[1]))
    BY <1>2
  <2>. QED BY <1>3, <1>5, <2>1, <2>2
<1>7. 4 <= Len(b) /\ 4 <= Len(p[1]) => Same(4)
  <2>1. 4 <= Len(b) => 3 \in 1..Len(b) - 1 /\ 3 <= Len(b)
    BY <1>1
  <2>2. 3 + 1 = 4 /\ (4 <= Len(p[1]) => 3 < Len(p[1]) /\ 3 <= Len(p[1]))
    BY <1>2
  <2>. QED BY <1>3, <1>6, <2>1, <2>2
<1>8. ASSUME NEW i \in 1..Len(b), i <= Len(p[1]) PROVE Same(i)
  <2>1. i = 1 \/ i = 2 \/ i = 3 \/ i = 4
    BY ONLY <1>1, <1>2, <1>8, i \in 1..Len(b)
  <2>. QED BY <1>4, <1>5, <1>6, <1>7, <1>8, <2>1
<1>. QED BY <1>8 DEF Same

\* PacketLen knows how long the packet is from what it has been given of it.
LEMMA LenKnown ==
  ASSUME NEW q \in Packet, NEW r \in Seq(Sym), Len(r) > 0,
         \A i \in 1..Len(r) : i <= Len(q) => r[i] = q[i],
         Len(r) <= PacketLen(r)
  PROVE  Len(r) <= Len(q) /\ (Len(r) = PacketLen(r) <=> Len(r) = Len(q))
<1>1. Len(r) \in Nat /\ 1 \in 1..Len(r) /\ r[1] = q[1] /\ (Len(r) > 1 => r[2] = q[2])
  <2>1. Len(q) \in Nat /\ 2 <= Len(q) /\ Len(q) <= 4 /\ Len(r) \in Nat
    BY PacketIs
  <2>2. 1 \in 1..Len(r) /\ 1 <= Len(q) /\ (Len(r) > 1 => 2 \in 1..Len(r)) /\ 2 <= Len(q)
    BY <2>1
  <2>. QED BY <2>1, <2>2
<1>2. CASE q[1] = "K" /\ Len(q) = 3 /\ q[2] = "1"
  BY <1>1, <1>2 DEF PacketLen
<1>3. CASE q[1] = "K" /\ Len(q) = 4 /\ q[2] = "2"
  BY <1>1, <1>3 DEF PacketLen
<1>4. CASE q[1] = "W" /\ Len(q) = 2
  BY <1>1, <1>4 DEF PacketLen
<1>5. CASE q[1] = "C" /\ Len(q) = 3
  BY <1>1, <1>5 DEF PacketLen
<1>. QED BY <1>2, <1>3, <1>4, <1>5, PacketIs

\* What was read of the stream is a part of its first packet, or all of it.
LEMMA ReadsFirst ==
  ASSUME NEW b \in Seq(Sym), NEW d, NEW w, NEW over, NEW p, NEW k, NEW m,
         ParsedBy(b, p, k, m, d, w, over), NEW r \in Seq(Sym), Len(r) > 0, Begins(r, b),
         Len(r) <= PacketLen(r)
  PROVE  /\ p[1] \in Packet /\ Len(r) <= Len(p[1])
         /\ \A i \in 1..Len(r) : r[i] = p[1][i]
         /\ Len(r) = PacketLen(r) <=> Len(r) = Len(p[1])
<1>1. Len(b) \in Nat /\ Len(r) \in Nat /\ Len(b) > 0 /\ Len(r) <= Len(b) /\ 1 \in 1..Len(b)
  BY DEF Begins
<1>2. p[1] \in Packet
  BY <1>1 DEF ParsedBy
<1>3. ASSUME NEW i \in 1..Len(r), i <= Len(p[1]) PROVE r[i] = p[1][i]
  <2>1. i \in 1..Len(b) /\ r[i] = b[i]
    BY <1>1 DEF Begins
  <2>2. p[i] = p[1] /\ k[i] = i
    BY <1>1, <1>3, <2>1, FirstBytes
  <2>3. b[i] = p[i][k[i]]
    BY <2>1 DEF ParsedBy
  <2>. QED BY <2>1, <2>2, <2>3
<1>4. Len(r) <= Len(p[1]) /\ (Len(r) = PacketLen(r) <=> Len(r) = Len(p[1]))
  BY <1>2, <1>3, LenKnown
<1>5. \A i \in 1..Len(r) : i <= Len(p[1])
  <2>1. Len(p[1]) \in Nat
    BY <1>2, PacketIs
  <2>. QED BY <1>1, <1>4, <2>1
<1>. QED BY <1>2, <1>3, <1>4, <1>5

\* The first packet is taken off, and done.
LEMMA ParsedTaken ==
  ASSUME NEW b \in Seq(Sym), NEW d \in Seq(Sym), NEW w \in Seq(Sym), NEW over \in BOOLEAN,
         NEW p, NEW k, NEW m, ParsedBy(b, p, k, m, d, w, over), Len(b) >= Len(p[1]), Len(b) > 0,
         NEW c \in Seq(Sym), Len(c) = Len(b) - Len(p[1]),
         \A i \in 1..Len(c) : c[i] = b[Len(p[1]) + i],
         NEW e \in Seq(Sym), Len(e) = Len(d) + Len(MeaningOf(p[1]))
  PROVE  Parsed(c, e, w, over)
<1> DEFINE n == Len(p[1])
           P == [i \in 1..Len(c) |-> p[n + i]]
           K == [i \in 1..Len(c) |-> k[n + i]]
           M == [i \in 1..Len(c) |-> m[n + i]]
<1>1. 1 \in 1..Len(b) /\ p[1] \in Packet /\ m[1] = Len(d) /\ Len(b) \in Nat
  BY DEF ParsedBy
<1>2. n \in Nat /\ 2 <= n /\ n <= 4 /\ Len(c) \in Nat /\ n \in 1..Len(b) /\ Len(c) + n = Len(b)
  <2>1. n \in Nat /\ 2 <= n /\ n <= 4
    BY <1>1, PacketIs
  <2>2. Len(c) \in Nat /\ Len(c) = Len(b) - n /\ Len(b) >= n
    BY LenProperties
  <2> HIDE DEF n
  <2>. QED BY ONLY <1>1, <2>1, <2>2
<1>3. p[n] = p[1] /\ k[n] = n /\ m[n] = m[1]
  <2>1. n <= Len(p[1])
    BY ONLY <1>2
  <2>2. \A i \in 1..Len(b) : i <= Len(p[1]) => p[i] = p[1] /\ k[i] = i /\ m[i] = m[1]
    BY FirstBytes
  <2> HIDE DEF n
  <2>. QED BY ONLY <1>2, <2>1, <2>2
<1>4. \A i \in 1..Len(c) : P[i] = p[n + i] /\ K[i] = k[n + i] /\ M[i] = m[n + i] /\ n + i \in 1..Len(b)
  <2>1. \A i \in 1..Len(c) : P[i] = p[n + i] /\ K[i] = k[n + i] /\ M[i] = m[n + i]
    OBVIOUS
  <2> HIDE DEF n, P, K, M
  <2>2. \A i \in 1..Len(c) : n + i \in 1..Len(b)
    BY ONLY <1>1, <1>2
  <2>. QED BY ONLY <2>1, <2>2
<1>c. \A i \in 1..Len(c) : c[i] = b[n + i]
  OBVIOUS
<1>e. Len(e) = Len(d) + Len(MeaningOf(p[1]))
  OBVIOUS
<1>n. n = Len(p[1])
  OBVIOUS
<1> HIDE DEF P, K, M, n
<1>5. ASSUME NEW i \in 1..Len(c)
      PROVE  P[i] \in Packet /\ K[i] \in 1..Len(P[i]) /\ c[i] = P[i][K[i]] /\ Means(P[i], M[i], w)
  BY <1>4, <1>c DEF ParsedBy
<1>6. ASSUME NEW i \in 1..Len(c) - 1
      PROVE  IF K[i] < Len(P[i]) THEN P[i + 1] = P[i] /\ K[i + 1] = K[i] + 1 /\ M[i + 1] = M[i]
             ELSE K[i + 1] = 1 /\ M[i + 1] = M[i] + Len(MeaningOf(P[i]))
  <2>1. i \in 1..Len(c) /\ i + 1 \in 1..Len(c) /\ n + i \in 1..Len(b) - 1
        /\ n + (i + 1) = (n + i) + 1
    BY ONLY <1>1, <1>2, i \in 1..Len(c) - 1
  <2>2. IF k[n + i] < Len(p[n + i])
        THEN p[(n + i) + 1] = p[n + i] /\ k[(n + i) + 1] = k[n + i] + 1 /\ m[(n + i) + 1] = m[n + i]
        ELSE k[(n + i) + 1] = 1 /\ m[(n + i) + 1] = m[n + i] + Len(MeaningOf(p[n + i]))
    BY <2>1 DEF ParsedBy
  <2>3. PICK x, y : x = i + 1 /\ y = n + i
    OBVIOUS
  <2>4. P[i] = p[y] /\ K[i] = k[y] /\ M[i] = m[y]
    BY ONLY <1>4, <2>1, <2>3
  <2>5. P[x] = p[y + 1] /\ K[x] = k[y + 1] /\ M[x] = m[y + 1]
    <3>1. x \in 1..Len(c) /\ n + x = y + 1
      BY ONLY <2>1, <2>3
    <3>2. P[x] = p[n + x] /\ K[x] = k[n + x] /\ M[x] = m[n + x]
      BY ONLY <1>4, <3>1
    <3>. QED BY ONLY <3>1, <3>2
  <2>6. IF k[y] < Len(p[y]) THEN p[y + 1] = p[y] /\ k[y + 1] = k[y] + 1 /\ m[y + 1] = m[y]
        ELSE k[y + 1] = 1 /\ m[y + 1] = m[y] + Len(MeaningOf(p[y]))
    BY ONLY <2>2, <2>3
  <2>. QED BY ONLY <2>3, <2>4, <2>5, <2>6
<1>7. Len(c) > 0 => K[1] = 1 /\ M[1] = Len(e)
  <2> SUFFICES ASSUME Len(c) > 0 PROVE K[1] = 1 /\ M[1] = Len(e)
    OBVIOUS
  <2>1. 1 \in 1..Len(c) /\ n \in 1..Len(b) - 1 /\ ~(n < n)
    BY <1>2
  <2>2. k[n + 1] = 1 /\ m[n + 1] = m[n] + Len(MeaningOf(p[n]))
    BY <1>3, <1>n, <2>1 DEF ParsedBy
  <2>. QED BY <1>1, <1>3, <1>4, <1>e, <2>1, <2>2
<1>8. ~over => IF Len(c) = 0 THEN Len(e) = Len(w)
               ELSE K[Len(c)] = Len(P[Len(c)]) /\ M[Len(c)] + Len(MeaningOf(P[Len(c)])) = Len(w)
  <2> SUFFICES ASSUME ~over
               PROVE  IF Len(c) = 0 THEN Len(e) = Len(w)
                      ELSE K[Len(c)] = Len(P[Len(c)])
                           /\ M[Len(c)] + Len(MeaningOf(P[Len(c)])) = Len(w)
    OBVIOUS
  <2>1. k[Len(b)] = Len(p[Len(b)]) /\ m[Len(b)] + Len(MeaningOf(p[Len(b)])) = Len(w)
    BY <1>1 DEF ParsedBy
  <2>2. CASE Len(c) = 0
    <3>1. n = Len(b)
      BY <1>1, <1>2, <2>2
    <3>. QED BY <1>1, <1>3, <1>e, <2>1, <2>2, <3>1
  <2>3. CASE Len(c) # 0
    <3>1. Len(c) \in 1..Len(c) /\ n + Len(c) = Len(b)
      BY <1>2, <2>3
    <3>. QED BY <1>4, <2>1, <2>3, <3>1
  <2>. QED BY <2>2, <2>3
<1>9. ParsedBy(c, P, K, M, e, w, over)
  BY <1>5, <1>6, <1>7, <1>8 DEF ParsedBy
<1>. QED BY <1>9 DEF Parsed

-----------------------------------------------------------------------------
(* The invariant: the bytes on their way up, with those read of a packet and  *)
(* those due to be written, are the packets of what is still to be done.     *)

OwnerFields == {"wins", "cur", "view", "size", "behind", "link", "rest", "packet", "hup", "gone"}
ViewerFields == {"pc", "ses", "our", "local", "known", "row", "fsm", "esc", "in", "sock", "typed",
                 "batch", "out", "winch", "ret", "lost"}

KeyTyped ==
  /\ OwnerFields \subseteq DOMAIN o /\ ViewerFields \subseteq DOMAIN v
  /\ o.packet \in Seq(Sym) /\ up \in Seq(Sym) /\ wanted \in Seq(Sym) /\ done \in Seq(Sym)
  /\ v.typed \in Seq(Key) /\ v.batch \in Seq(Key)
  /\ v.out \in Seq(Seq(Sym)) /\ Len(v.out) <= 2
  /\ v.pc = "end" => v.out = <<>>
PartRead == o.packet # <<>> => Len(o.packet) < PacketLen(o.packet)

Stream == (o.packet \o up) \o Joined(v.out)

KeyInv ==
  /\ KeyTyped
  /\ PartRead
  /\ Begins(done, wanted)
  /\ o.link # "closed" => Parsed(Stream, done, wanted, v.pc = "end")

LEMMA OneOrTwo ==
  ASSUME NEW T, NEW ws \in Seq(T), Len(ws) <= 2, ws # <<>>
  PROVE  /\ Head(ws) = ws[1] /\ ws[1] \in T /\ Tail(ws) \in Seq(T) /\ Len(Tail(ws)) <= 2
         /\ \/ Len(ws) = 1 /\ Tail(ws) = <<>>
            \/ /\ Len(ws) = 2 /\ ws[2] \in T /\ Tail(ws) # <<>>
               /\ Len(Tail(ws)) = 1 /\ Tail(ws)[1] = ws[2]
<1> DEFINE n == Len(ws)
           tl == Tail(ws)
           k == Len(tl)
<1>1. n \in Nat \ {0}
  BY EmptySeq
<1>2. tl \in Seq(T) /\ k = n - 1 /\ \A i \in 1..k : tl[i] = ws[i + 1]
  BY HeadTailProperties
<1>3. Head(ws) = ws[1] /\ n <= 2
  OBVIOUS
<1>4. \A i \in 1..n : ws[i] \in T
  BY ElementOfSeq
<1>5. tl \in Seq(T) => (k = 0 <=> tl = <<>>)
  BY EmptySeq
<1>. HIDE DEF n, tl, k
<1>6. n = 1 \/ n = 2
  BY <1>1, <1>3
<1>7. ws[1] \in T /\ (n = 2 => ws[2] \in T)
  <2>1. 1 \in 1..n /\ (n = 2 => 2 \in 1..n)
    BY <1>1
  <2>. QED BY <1>4, <2>1
<1>8. CASE n = 1
  <2>1. k = 0
    BY <1>2, <1>8
  <2>2. tl = <<>>
    BY <1>2, <1>5, <2>1
  <2>3. k <= 2
    BY <2>1
  <2>. QED BY <1>2, <1>3, <1>7, <1>8, <2>2, <2>3 DEF n, tl, k
<1>9. CASE n = 2
  <2>1. k = 1
    BY <1>2, <1>9
  <2>2. tl # <<>>
    BY <1>2, <1>5, <2>1
  <2>3. 1 \in 1..k /\ 1 + 1 = 2
    BY <2>1
  <2>4. tl[1] = ws[2]
    BY <1>2, <2>3
  <2>5. k <= 2
    BY <2>1
  <2>. QED BY <1>2, <1>3, <1>7, <1>9, <2>1, <2>2, <2>4, <2>5 DEF n, tl, k
<1>. QED BY <1>6, <1>8, <1>9

LEMMA BeginsIt ==
  ASSUME NEW S, NEW s \in Seq(S), NEW u \in Seq(S)
  PROVE  Begins(s, s \o u)
<1>1. Len(s) \in Nat /\ Len(u) \in Nat /\ Len(s \o u) = Len(s) + Len(u)
      /\ \A i \in 1..Len(s) + Len(u) : (s \o u)[i] = IF i <= Len(s) THEN s[i] ELSE u[i - Len(s)]
  BY ConcatProperties, LenProperties
<1>2. \A i \in 1..Len(s) : i \in 1..Len(s) + Len(u) /\ i <= Len(s)
  BY ONLY <1>1
<1>3. \A i \in 1..Len(s) : (s \o u)[i] = s[i]
  BY ONLY <1>1, <1>2
<1>. QED BY <1>1, <1>3 DEF Begins

LEMMA JoinedIs ==
  ASSUME NEW ws \in Seq(Seq(Sym)), Len(ws) <= 2
  PROVE  /\ Joined(ws) \in Seq(Sym)
         /\ ws # <<>> => /\ Head(ws) \in Seq(Sym) /\ Tail(ws) \in Seq(Seq(Sym)) /\ Len(Tail(ws)) <= 2
                         /\ Joined(ws) = Head(ws) \o Joined(Tail(ws))
<1>1. CASE ws = <<>>
  BY <1>1 DEF Joined
<1>2. CASE ws # <<>>
  <2> DEFINE T == Seq(Sym)
  <2>0. ws \in Seq(T)
    OBVIOUS
  <2> HIDE DEF T
  <2>1. /\ Head(ws) = ws[1] /\ ws[1] \in T /\ Tail(ws) \in Seq(T) /\ Len(Tail(ws)) <= 2
        /\ \/ Len(ws) = 1 /\ Tail(ws) = <<>>
           \/ /\ Len(ws) = 2 /\ ws[2] \in T /\ Tail(ws) # <<>>
              /\ Len(Tail(ws)) = 1 /\ Tail(ws)[1] = ws[2]
    BY <1>2, <2>0, OneOrTwo
  <2>2. CASE Len(ws) = 1 /\ Tail(ws) = <<>>
    <3>1. Joined(ws) = ws[1] /\ Joined(Tail(ws)) = <<>>
      BY <1>2, <2>2 DEF Joined
    <3>1a. ws[1] \in Seq(Sym)
      BY <2>1 DEF T
    <3>2. ws[1] \o <<>> = ws[1]
      BY <3>1a, ConcatEmptySeq
    <3>. QED BY <2>1, <3>1, <3>1a, <3>2 DEF T
  <2>3. CASE Len(ws) = 2 /\ Tail(ws) # <<>> /\ Len(Tail(ws)) = 1 /\ Tail(ws)[1] = ws[2] /\ ws[2] \in T
    <3>1. Joined(ws) = ws[1] \o ws[2] /\ Joined(Tail(ws)) = ws[2]
      BY <1>2, <2>3 DEF Joined
    <3>1a. ws[1] \in Seq(Sym) /\ ws[2] \in Seq(Sym)
      BY <2>1, <2>3 DEF T
    <3>2. ws[1] \o ws[2] \in Seq(Sym)
      BY <3>1a, ConcatProperties
    <3>. QED BY <2>1, <3>1, <3>1a, <3>2 DEF T
  <2>. QED BY <2>1, <2>2, <2>3
<1>. QED BY <1>1, <1>2

LEMMA StreamTyped ==
  ASSUME KeyTyped
  PROVE  Stream \in Seq(Sym) /\ Joined(v.out) \in Seq(Sym) /\ o.packet \o up \in Seq(Sym)
<1>1. Joined(v.out) \in Seq(Sym)
  BY JoinedIs DEF KeyTyped
<1>2. o.packet \o up \in Seq(Sym)
  BY DEF KeyTyped
<1>. QED BY <1>1, <1>2 DEF Stream

\* Steps that touch none of it; the link is not opened again.
LEMMA KeysQuiet ==
  ASSUME KeyInv, OwnerFields \subseteq DOMAIN o', ViewerFields \subseteq DOMAIN v',
         o'.packet = o.packet, o'.link # "closed" => o.link # "closed", up' = up,
         v'.out = v.out, v'.typed \in Seq(Key), v'.batch \in Seq(Key),
         v'.pc = "end" <=> v.pc = "end", wanted' = wanted, done' = done
  PROVE  KeyInv'
<1>1. KeyTyped'
  BY DEF KeyInv, KeyTyped
<1>2. PartRead' /\ Begins(done, wanted)'
  BY DEF KeyInv, PartRead
<1>3. Stream' = Stream
  BY DEF Stream
<1>4. (v'.pc = "end") = (v.pc = "end")
  OBVIOUS
<1>. QED BY <1>1, <1>2, <1>3, <1>4 DEF KeyInv

\* The observer ends.
LEMMA KeysEnded ==
  ASSUME KeyInv, o' = o, ViewerFields \subseteq DOMAIN v', up' = up, v'.out = <<>>,
         v'.typed = v.typed, v'.batch = v.batch, v'.pc = "end", wanted' = wanted, done' = done
  PROVE  KeyInv'
<1>0. <<>> \in Seq(Seq(Sym)) /\ Len(<<>>) <= 2
  OBVIOUS
<1>1. KeyTyped'
  BY <1>0 DEF KeyInv, KeyTyped
<1>2. PartRead' /\ Begins(done, wanted)'
  BY DEF KeyInv, PartRead
<1>3. Stream' = (o.packet \o up) \o <<>>
  BY DEF Stream, Joined
<1>4. Stream' = o.packet \o up
  BY <1>3, StreamTyped DEF KeyInv
<1>5. Begins(o.packet \o up, Stream)
  <2>1. o.packet \o up \in Seq(Sym) /\ Joined(v.out) \in Seq(Sym)
    BY StreamTyped DEF KeyInv
  <2>. QED BY <2>1, BeginsIt DEF Stream
<1>6. ASSUME o.link # "closed" PROVE Parsed(Stream', done, wanted, TRUE)
  <2>1. Parsed(Stream, done, wanted, v.pc = "end")
    BY <1>6 DEF KeyInv
  <2>2. Stream \in Seq(Sym) /\ o.packet \o up \in Seq(Sym) /\ done \in Seq(Sym) /\ wanted \in Seq(Sym)
    BY StreamTyped DEF KeyInv, KeyTyped
  <2>3. (v.pc = "end") \in BOOLEAN
    OBVIOUS
  <2>. QED BY ONLY <1>4, <1>5, <2>1, <2>2, <2>3, ParsedCut
<1>. QED BY <1>1, <1>2, <1>6 DEF KeyInv

\* A packet comes to be due.
LEMMA KeysMore ==
  ASSUME KeyInv, o' = o, ViewerFields \subseteq DOMAIN v', up' = up, done' = done,
         v.out = <<>>, v.pc # "end", v'.pc # "end",
         v'.typed \in Seq(Key), v'.batch \in Seq(Key),
         v'.out \in Seq(Seq(Sym)), Len(v'.out) <= 2, Joined(v'.out) \in Packet,
         wanted' = wanted \o MeaningOf(Joined(v'.out))
  PROVE  KeyInv'
<1> DEFINE q == Joined(v'.out)
<1>q. q \in Packet /\ q \in Seq(Sym) /\ MeaningOf(q) \in Seq(Sym) /\ wanted' = wanted \o MeaningOf(q)
  BY PacketIs
<1> HIDE DEF q
<1>1. KeyTyped'
  BY <1>q DEF KeyInv, KeyTyped
<1>2. PartRead'
  BY DEF KeyInv, PartRead
<1>3. Begins(done', wanted')
  <2>1. Len(wanted) \in Nat /\ Len(done) \in Nat /\ wanted \in Seq(Sym)
    BY DEF KeyInv, KeyTyped
  <2>2. Len(done) <= Len(wanted) /\ \A i \in 1..Len(done) : done[i] = wanted[i]
    BY DEF KeyInv, Begins
  <2>3. Len(wanted') = Len(wanted) + Len(MeaningOf(q)) /\ \A i \in 1..Len(wanted) : wanted'[i] = wanted[i]
    BY <1>q, <2>1
  <2>4. Len(MeaningOf(q)) \in Nat
    BY <1>q
  <2>. QED BY <2>1, <2>2, <2>3, <2>4 DEF Begins
<1>4. o.packet \o up \in Seq(Sym) /\ Stream = (o.packet \o up) \o <<>>
  BY StreamTyped DEF KeyInv, Stream, Joined
<1>5. Stream = o.packet \o up
  BY <1>4
<1>6. Stream' = Stream \o q
  BY <1>5 DEF Stream, q
<1>7. ASSUME o.link # "closed" PROVE Parsed(Stream', done, wanted', FALSE)
  <2>1. Parsed(Stream, done, wanted, v.pc = "end") /\ (v.pc = "end") = FALSE
    BY <1>7 DEF KeyInv
  <2>2. Stream \in Seq(Sym) /\ done \in Seq(Sym) /\ wanted \in Seq(Sym)
    BY StreamTyped DEF KeyInv, KeyTyped
  <2>3. Parsed(Stream, done, wanted, FALSE)
    BY <2>1
  <2>. QED BY ONLY <1>6, <1>q, <2>2, <2>3, ParsedMore
<1>8. (v'.pc = "end") = FALSE
  OBVIOUS
<1>. QED BY <1>1, <1>2, <1>3, <1>7, <1>8 DEF KeyInv

\* A write that was due is on the link.
LEMMA WriteKeys ==
  ASSUME KeyInv, Write
  PROVE  KeyInv'
<1>0. ViewerFields \subseteq DOMAIN v /\ v.out # <<>> /\ v.out \in Seq(Seq(Sym)) /\ Len(v.out) <= 2
      /\ v.pc # "end"
  BY DEF KeyInv, KeyTyped, Write
<1>1. CASE o.link = "closed" /\ Ends(0) /\ UNCHANGED up
  <2>1. o' = o /\ wanted' = wanted /\ done' = done
    BY DEF Write, viewerKeeps
  <2>2. v'.pc = "end" /\ v'.out = <<>> /\ v'.typed = v.typed /\ v'.batch = v.batch
        /\ ViewerFields \subseteq DOMAIN v'
    BY <1>0, <1>1 DEF Ends, ViewerFields
  <2>. QED BY <1>1, <2>1, <2>2, KeysEnded
<1>2. CASE o.link # "closed" /\ up' = up \o Head(v.out) /\ v' = [v EXCEPT !.out = Tail(@)]
  <2>1. o' = o /\ wanted' = wanted /\ done' = done
    BY DEF Write, viewerKeeps
  <2>2. v'.out = Tail(v.out) /\ v'.typed = v.typed /\ v'.batch = v.batch /\ v'.pc = v.pc
        /\ ViewerFields \subseteq DOMAIN v'
    BY <1>0, <1>2 DEF ViewerFields
  <2>3. /\ Joined(v.out) = Head(v.out) \o Joined(Tail(v.out))
        /\ Head(v.out) \in Seq(Sym) /\ Tail(v.out) \in Seq(Seq(Sym)) /\ Len(Tail(v.out)) <= 2
    BY <1>0, JoinedIs
  <2>4. up \in Seq(Sym) /\ o.packet \in Seq(Sym)
    BY DEF KeyInv, KeyTyped
  <2>5. up' \in Seq(Sym)
    BY <1>2, <2>3, <2>4, ConcatProperties
  <2>6. KeyTyped'
    BY <1>0, <2>1, <2>2, <2>3, <2>5 DEF KeyInv, KeyTyped
  <2>7. PartRead' /\ Begins(done, wanted)'
    BY <2>1 DEF KeyInv, PartRead
  <2>8. Stream' = Stream
    <3> DEFINE a == o.packet
               h == Head(v.out)
               j == Joined(Tail(v.out))
    <3>1. a \in Seq(Sym) /\ h \in Seq(Sym) /\ j \in Seq(Sym)
      BY <2>3, <2>4, JoinedIs
    <3>1a. Stream = (a \o up) \o (h \o j) /\ Stream' = (a \o (up \o h)) \o j
      BY <1>2, <2>1, <2>2, <2>3 DEF Stream
    <3> HIDE DEF a, h, j
    <3>2. (a \o up) \o h = a \o (up \o h)
      <4>1. PICK u : u = up
        OBVIOUS
      <4>2. u \in Seq(Sym)
        BY <2>4, <4>1
      <4>3. (a \o u) \o h = a \o (u \o h)
        BY ONLY <3>1, <4>2, Regroup
      <4>. QED BY ONLY <4>1, <4>3
    <3>3. a \o up \in Seq(Sym)
      BY <2>4, <3>1, ConcatProperties
    <3>4. ((a \o up) \o h) \o j = (a \o up) \o (h \o j)
      <4>1. PICK u : u = a \o up
        OBVIOUS
      <4>2. u \in Seq(Sym)
        BY ONLY <3>3, <4>1
      <4>3. (u \o h) \o j = u \o (h \o j)
        BY ONLY <3>1, <4>2, Regroup
      <4>. QED BY ONLY <4>1, <4>3
    <3>. QED BY ONLY <3>1a, <3>2, <3>4
  <2>9. (v'.pc = "end") = (v.pc = "end")
    BY <2>2
  <2>. QED BY <2>1, <2>6, <2>7, <2>8, <2>9 DEF KeyInv
<1>. QED BY <1>1, <1>2 DEF Write

-----------------------------------------------------------------------------
(* What the owner does with a packet leaves the link's packet alone.         *)

LEMMA PushedKeeps ==
  ASSUME NEW p, OwnerFields \subseteq DOMAIN p
  PROVE  /\ OwnerFields \subseteq DOMAIN Pushed(p)
         /\ Pushed(p).packet = p.packet /\ Pushed(p).link = p.link
BY DEF OwnerFields, Pushed

LEMMA SwitchedKeeps ==
  ASSUME NEW p, OwnerFields \subseteq DOMAIN p, NEW i
  PROVE  /\ OwnerFields \subseteq DOMAIN SwitchedTo(p, i)
         /\ SwitchedTo(p, i).packet = p.packet /\ SwitchedTo(p, i).link = p.link
<1> DEFINE q == [p EXCEPT !.cur = i, !.view = FALSE]
<1>1. OwnerFields \subseteq DOMAIN q /\ q.packet = p.packet /\ q.link = p.link
  BY DEF OwnerFields
<1>2. OwnerFields \subseteq DOMAIN Pushed(q) /\ Pushed(q).packet = q.packet /\ Pushed(q).link = q.link
  BY <1>1, PushedKeeps
<1>3. SwitchedTo(p, i) = IF i \in Slot THEN Pushed(q) ELSE p
  BY DEF SwitchedTo
<1> HIDE DEF q
<1>. QED BY <1>1, <1>2, <1>3

LEMMA DoneKeeps ==
  ASSUME NEW p, OwnerFields \subseteq DOMAIN p, NEW ev, NEW other, NEW history
  PROVE  /\ OwnerFields \subseteq DOMAIN Done(p, ev, other, history)
         /\ Done(p, ev, other, history).packet = p.packet
         /\ Done(p, ev, other, history).link = p.link
<1> DEFINE d == Done(p, ev, other, history)
<1>1. \/ \E i : d = SwitchedTo(p, i)
      \/ d = Pushed(p)
      \/ d = [p EXCEPT !.view = @ \/ history]
      \/ d = p
  BY DEF Done
<1> HIDE DEF d
<1>2. ASSUME NEW i, d = SwitchedTo(p, i)
      PROVE  OwnerFields \subseteq DOMAIN d /\ d.packet = p.packet /\ d.link = p.link
  BY <1>2, SwitchedKeeps
<1>3. ASSUME d = Pushed(p)
      PROVE  OwnerFields \subseteq DOMAIN d /\ d.packet = p.packet /\ d.link = p.link
  BY <1>3, PushedKeeps
<1>4. ASSUME d = [p EXCEPT !.view = @ \/ history]
      PROVE  OwnerFields \subseteq DOMAIN d /\ d.packet = p.packet /\ d.link = p.link
  BY <1>4 DEF OwnerFields
<1>5. OwnerFields \subseteq DOMAIN d /\ d.packet = p.packet /\ d.link = p.link
  BY <1>1, <1>2, <1>3, <1>4
<1>. QED BY <1>5 DEF d

LEMMA ObeyedKeeps ==
  ASSUME OwnerFields \subseteq DOMAIN o, NEW r, Obeyed(r)
  PROVE  OwnerFields \subseteq DOMAIN o' /\ o'.packet = <<>> /\ o'.link = o.link
<1> DEFINE at == [o EXCEPT !.packet = <<>>]
<1>1. OwnerFields \subseteq DOMAIN at /\ at.packet = <<>> /\ at.link = o.link
  BY DEF OwnerFields
<1>2. \/ o' = at
      \/ o' = [at EXCEPT !.wins[o.cur] = @ + 1, !.behind = TRUE]
      \/ \E i : o' = SwitchedTo(at, i)
      \/ \E ev, other, history : o' = Done(at, ev, other, history)
  BY DEF Obeyed
<1> HIDE DEF at
<1>3. CASE o' = at
  BY <1>1, <1>3
<1>4. CASE o' = [at EXCEPT !.wins[o.cur] = @ + 1, !.behind = TRUE]
  BY <1>1, <1>4 DEF OwnerFields
<1>5. CASE \E i : o' = SwitchedTo(at, i)
  BY <1>1, <1>5, SwitchedKeeps
<1>6. CASE \E ev, other, history : o' = Done(at, ev, other, history)
  BY <1>1, <1>6, DoneKeeps
<1>. QED BY <1>2, <1>3, <1>4, <1>5, <1>6

\* What is done is what the packet means, as far as it was read.
LEMMA ObeyedMeans ==
  ASSUME NEW r \in Seq(Sym), Len(r) > 0, Obeyed(r), done \in Seq(Sym),
         NEW q \in Packet, Len(r) <= Len(q), \A i \in 1..Len(r) : r[i] = q[i]
  PROVE  \E x \in Seq(Sym) :
           /\ done' = done \o x
           /\ Begins(x, MeaningOf(q))
           /\ Len(r) = Len(q) => Len(x) = Len(MeaningOf(q))
<1> DEFINE n == Len(r)
<1>0. n \in Nat /\ n > 0 /\ n <= Len(q)
  BY LenProperties
<1>q. Len(q) \in Nat /\ q \in Seq(Sym) /\ MeaningOf(q) \in Seq(Sym)
  BY PacketIs
<1>r. \A i \in 1..n : r[i] = q[i] /\ r[i] \in Sym
  BY ElementOfSeq
<1>n. n = Len(r)
  OBVIOUS
<1> HIDE DEF n
<1>1. r[1] = q[1] /\ (n > 1 => r[2] = q[2] /\ r[2] \in Sym) /\ (n > 2 => r[3] = q[3] /\ r[3] \in Sym)
      /\ (n > 3 => r[4] = q[4] /\ r[4] \in Sym)
  <2>1. 1 \in 1..n /\ (n > 1 => 2 \in 1..n) /\ (n > 2 => 3 \in 1..n) /\ (n > 3 => 4 \in 1..n)
    BY <1>0
  <2>. QED BY <1>r, <2>1
<1>e. <<>> \in Seq(Sym) /\ Len(<<>>) = 0 /\ done \o <<>> = done
  BY EmptySeq, ConcatEmptySeq
<1>f. Begins(<<>>, MeaningOf(q))
  <2>1. Len(MeaningOf(q)) \in Nat
    BY <1>q, LenProperties
  <2>. QED BY <2>1 DEF Begins
<1>2. CASE q[1] = "K" /\ ((Len(q) = 3 /\ MeaningOf(q) = <<q[3]>>)
                          \/ (Len(q) = 4 /\ MeaningOf(q) = <<q[3], q[4]>>))
  <2>1. done' = done \o SubSeq(r, 3, n)
    BY <1>1, <1>2, <1>n DEF Obeyed
  <2>2. CASE n < 3
    <3>1. SubSeq(r, 3, n) = <<>>
      BY <1>0, <2>2, SubSeqEmpty
    <3>2. n # Len(q)
      BY <1>0, <1>2, <2>2
    <3>. QED BY <1>e, <1>f, <1>n, <2>1, <3>1, <3>2
  <2>3. CASE n = 3
    <3>1. SubSeq(r, 3, n) = <<q[3]>> /\ q[3] \in Sym
      <4>1. Len(r) = 3
        BY <1>n, <2>3
      <4>2. SubSeq(r, 3, 3) = <<r[3]>>
        BY <4>1, Cut1
      <4>3. r[3] = q[3] /\ r[3] \in Sym
        BY <1>1, <2>3
      <4>. QED BY <2>3, <4>2, <4>3
    <3>2. <<q[3]>> \in Seq(Sym) /\ Len(<<q[3]>>) = 1 /\ <<q[3]>>[1] = q[3]
      BY <3>1
    <3>3. Len(MeaningOf(q)) \in {1, 2} /\ MeaningOf(q)[1] = q[3] /\ (Len(q) = 3 => Len(MeaningOf(q)) = 1)
      <4>1. CASE Len(q) = 3 /\ MeaningOf(q) = <<q[3]>>
        BY ONLY <4>1
      <4>2. CASE Len(q) = 4 /\ MeaningOf(q) = <<q[3], q[4]>>
        BY ONLY <4>2
      <4>. QED BY ONLY <1>2, <4>1, <4>2
    <3>4. Begins(<<q[3]>>, MeaningOf(q))
      <4>1. \A i \in 1..1 : i = 1
        OBVIOUS
      <4>. QED BY <3>2, <3>3, <4>1 DEF Begins
    <3>. QED BY <1>n, <2>1, <2>3, <3>1, <3>2, <3>3, <3>4
  <2>4. CASE n = 4
    <3>1. SubSeq(r, 3, n) = <<q[3], q[4]>> /\ q[3] \in Sym /\ q[4] \in Sym
      <4>1. Len(r) = 4
        BY <1>n, <2>4
      <4>2. SubSeq(r, 3, 4) = <<r[3], r[4]>>
        BY <4>1, Cut2
      <4>3. r[3] = q[3] /\ r[3] \in Sym /\ r[4] = q[4] /\ r[4] \in Sym
        BY <1>1, <2>4
      <4>. QED BY <2>4, <4>2, <4>3
    <3>2. <<q[3], q[4]>> = MeaningOf(q)
      BY <1>0, <1>2, <2>4
    <3>3. Len(MeaningOf(q)) \in Nat /\ Begins(MeaningOf(q), MeaningOf(q))
      <4>1. Len(MeaningOf(q)) \in Nat
        BY <1>q, LenProperties
      <4>. QED BY <4>1 DEF Begins
    <3>4. done' = done \o MeaningOf(q)
      BY <2>1, <3>1, <3>2
    <3>. QED BY ONLY <1>q, <3>3, <3>4
  <2>5. n < 3 \/ n = 3 \/ n = 4
    <3>1. Len(q) <= 4 /\ Len(q) \in Nat
      BY <1>q, PacketIs
    <3> DEFINE l == Len(q)
    <3>2. n \in Nat /\ n <= l /\ l <= 4 /\ l \in Nat
      BY <1>0, <3>1
    <3> HIDE DEF l
    <3>. QED BY ONLY <3>2
  <2>. QED BY ONLY <2>2, <2>3, <2>4, <2>5
<1>3. CASE q[1] = "W" /\ Len(q) = 2 /\ MeaningOf(q) = q
  <2>1. CASE n = 2
    <3>1. done' = done \o r
      BY <1>1, <1>3, <1>n, <2>1 DEF Obeyed
    <3>2. r = q
      BY <1>q, <1>n, <1>3, <2>1, <1>r, SeqEqual
    <3>3. Begins(q, q)
      BY <1>q DEF Begins
    <3>. QED BY <1>3, <3>1, <3>2, <3>3
  <2>2. CASE n # 2
    <3>1. done' = done
      BY <1>1, <1>3, <1>n, <2>2 DEF Obeyed
    <3>2. n # Len(q)
      BY <1>3, <2>2
    <3>. QED BY <1>e, <1>f, <1>n, <3>1, <3>2
  <2>. QED BY <2>1, <2>2
<1>4. CASE q[1] = "C" /\ Len(q) = 3 /\ MeaningOf(q) = <<"C", q[2]>>
  <2>1. CASE n = 3
    <3>1. done' = done \o <<"C", r[2]>> /\ r[2] = q[2]
      BY <1>1, <1>4, <1>n, <2>1 DEF Obeyed
    <3>2. Len(MeaningOf(q)) \in Nat /\ Begins(MeaningOf(q), MeaningOf(q))
      <4>1. Len(MeaningOf(q)) \in Nat
        BY <1>q, LenProperties
      <4>. QED BY <4>1 DEF Begins
    <3>. QED BY <1>q, <1>4, <3>1, <3>2
  <2>2. CASE n # 3
    <3>1. done' = done
      BY <1>1, <1>4, <1>n, <2>2 DEF Obeyed
    <3>2. n # Len(q)
      BY <1>4, <2>2
    <3>. QED BY <1>e, <1>f, <1>n, <3>1, <3>2
  <2>. QED BY <2>1, <2>2
<1>. QED BY <1>2, <1>3, <1>4, PacketIs

\* The beginning of the stream r is read, of which s remains; x is done.
LEMMA ReadsOn ==
  ASSUME NEW b \in Seq(Sym), NEW d \in Seq(Sym), NEW w \in Seq(Sym), NEW over \in BOOLEAN,
         NEW p, NEW k, NEW m, ParsedBy(b, p, k, m, d, w, over), Begins(d, w), Len(b) > 0,
         NEW x \in Seq(Sym), Begins(x, MeaningOf(p[1]))
  PROVE  Begins(d \o x, w)
<1>1. p[1] \in Packet /\ m[1] = Len(d) /\ Means(p[1], m[1], w)
  <2>1. 1 \in 1..Len(b)
    BY LenProperties
  <2>. QED BY <2>1 DEF ParsedBy
<1> DEFINE y == MeaningOf(p[1])
<1>2. y \in Seq(Sym)
  BY <1>1, PacketIs
<1>3. Len(d) + Len(y) <= Len(w) /\ \A j \in 1..Len(y) : w[Len(d) + j] = y[j]
  BY <1>1 DEF Means
<1>4. Len(x) <= Len(y) /\ \A j \in 1..Len(x) : x[j] = y[j]
  BY DEF Begins
<1>5. Len(d) <= Len(w) /\ \A j \in 1..Len(d) : d[j] = w[j]
  BY DEF Begins
<1> DEFINE nd == Len(d) nx == Len(x) ny == Len(y) nw == Len(w)
<1>6. nd \in Nat /\ nx \in Nat /\ ny \in Nat /\ nw \in Nat
  BY <1>2, LenProperties
<1>7. Len(d \o x) = nd + nx
      /\ \A i \in 1..nd + nx : (d \o x)[i] = IF i <= nd THEN d[i] ELSE x[i - nd]
  BY ConcatProperties
<1>8. nd + ny <= nw /\ nx <= ny
  BY <1>3, <1>4
<1> HIDE DEF y, nd, nx, ny, nw
<1>9. nd + nx <= nw
  BY ONLY <1>6, <1>8
<1>10. ASSUME NEW i \in 1..nd + nx PROVE (d \o x)[i] = w[i]
  <2>1. CASE i <= nd
    <3>1. i \in 1..nd
      BY <1>6, <2>1
    <3>. QED BY <1>5, <1>7, <2>1, <3>1 DEF nd
  <2>2. CASE ~(i <= nd)
    <3>1. i - nd \in 1..nx /\ i - nd \in 1..ny /\ nd + (i - nd) = i
      BY ONLY <1>6, <1>8, <2>2, i \in 1..nd + nx
    <3>2. (d \o x)[i] = x[i - nd]
      BY <1>7, <2>2
    <3>3. x[i - nd] = y[i - nd]
      BY <1>4, <3>1 DEF nx
    <3>4. w[nd + (i - nd)] = y[i - nd]
      BY <1>3, <3>1 DEF ny, nd
    <3>. QED BY <3>1, <3>2, <3>3, <3>4
  <2>. QED BY <2>1, <2>2
<1>. QED BY <1>7, <1>9, <1>10 DEF Begins, nw

LEMMA ReadLinkKeys ==
  ASSUME KeyInv, ReadLink
  PROVE  KeyInv'
<1> DEFINE j == Joined(v.out)
<1>1. /\ OwnerFields \subseteq DOMAIN o /\ o.packet \in Seq(Sym) /\ up \in Seq(Sym)
      /\ wanted \in Seq(Sym) /\ done \in Seq(Sym) /\ j \in Seq(Sym)
  BY StreamTyped DEF KeyInv, KeyTyped
<1>2. o.link = "open" /\ v' = v /\ wanted' = wanted
  BY DEF ReadLink, ownerKeeps
<1>3. PICK k \in 1..Len(up) :
        LET r == o.packet \o SubSeq(up, 1, k) IN
        /\ Len(r) <= PacketLen(r)
        /\ up' = SubSeq(up, k + 1, Len(up))
        /\ IF Len(r) = PacketLen(r) THEN Obeyed(r)
           ELSE o' = [o EXCEPT !.packet = r] /\ UNCHANGED <<done, left>>
  BY DEF ReadLink
<1> DEFINE r == o.packet \o SubSeq(up, 1, k)
           new == SubSeq(up, 1, k)
           rest == SubSeq(up, k + 1, Len(up))
<1>4. /\ new \in Seq(Sym) /\ Len(new) = k
      /\ rest \in Seq(Sym) /\ Len(rest) = Len(up) - k
      /\ new \o rest = up
  <2>1. Len(up) \in Nat /\ k \in Nat /\ k >= 1 /\ k <= Len(up)
    BY <1>1
  <2>2. \A i \in 1..Len(up) : up[i] \in Sym
    BY <1>1, ElementOfSeq
  <2>3. new \in Seq(Sym) /\ Len(new) = k
    <3>1. \A i \in 1..k : up[i] \in Sym
      BY <2>1, <2>2
    <3>. QED BY <2>1, <3>1, SubSeqProperties
  <2>4. rest \in Seq(Sym) /\ Len(rest) = Len(up) - k
    <3>1. \A i \in k + 1..Len(up) : up[i] \in Sym
      BY <2>1, <2>2
    <3>2. rest \in Seq(Sym) /\ Len(rest) = IF k + 1 <= Len(up) THEN Len(up) - (k + 1) + 1 ELSE 0
      BY <2>1, <3>1, SubSeqProperties
    <3> DEFINE l == Len(up) lr == Len(rest)
    <3>3. l \in Nat /\ lr = IF k + 1 <= l THEN l - (k + 1) + 1 ELSE 0
      BY <2>1, <3>2
    <3>4. k \in Nat /\ k <= l
      BY <2>1
    <3> HIDE DEF l, lr, rest
    <3>5. lr = l - k
      BY ONLY <3>3, <3>4
    <3>. QED BY <3>2, <3>5 DEF l, lr
  <2>5. new \o rest = up
    <3>1. 1 \in 1..Len(up) + 1 /\ k \in 1 - 1..Len(up) /\ Len(up) \in k..Len(up)
      BY <2>1
    <3>2. new \o rest = SubSeq(up, 1, Len(up))
      BY <1>1, <3>1, ConcatAdjacentSubSeq
    <3>. QED BY <1>1, <3>2, SubSeqFull
  <2>. QED BY <2>3, <2>4, <2>5
<1>5. r = o.packet \o new /\ up' = rest /\ Len(r) <= PacketLen(r)
  BY <1>3
<1>6. IF Len(r) = PacketLen(r) THEN Obeyed(r)
      ELSE o' = [o EXCEPT !.packet = r] /\ UNCHANGED done
  BY <1>3
<1>k. k \in Nat /\ k > 0
  BY <1>1
<1> HIDE DEF r, new, rest, j
<1>7. r \in Seq(Sym) /\ Len(r) \in Nat /\ Len(r) > 0
  <2>1. r \in Seq(Sym) /\ Len(r) = Len(o.packet) + k
    BY <1>1, <1>4, <1>5, ConcatProperties
  <2>2. Len(o.packet) \in Nat
    BY <1>1, LenProperties
  <2> DEFINE a == Len(o.packet) b == Len(r)
  <2>3. a \in Nat /\ b = a + k
    BY <2>1, <2>2
  <2> HIDE DEF a, b
  <2>4. b \in Nat /\ b > 0
    BY ONLY <2>3, <1>k
  <2>. QED BY <2>1, <2>4 DEF b
<1> DEFINE s == rest \o j
<1>8. s \in Seq(Sym) /\ Stream = r \o s
  <2>1. s \in Seq(Sym)
    BY <1>1, <1>4, ConcatProperties
  <2> DEFINE a == o.packet
  <2>2. a \in Seq(Sym) /\ Stream = (a \o up) \o j
    BY <1>1 DEF Stream, j
  <2> HIDE DEF a
  <2>3. (a \o new) \o rest = a \o (new \o rest)
    <3>1. a \in Seq(Sym) /\ new \in Seq(Sym) /\ rest \in Seq(Sym)
      BY <1>4, <2>2
    <3>. QED BY ONLY <3>1, Regroup
  <2>4. a \o new = r
    BY <1>5 DEF a
  <2>5. (r \o rest) \o j = r \o (rest \o j)
    <3>1. r \in Seq(Sym) /\ rest \in Seq(Sym) /\ j \in Seq(Sym)
      BY <1>1, <1>4, <1>7
    <3> HIDE DEF r, rest, j
    <3>. QED BY ONLY <3>1, Regroup
  <2>. QED BY ONLY <1>4, <2>1, <2>2, <2>3, <2>4, <2>5 DEF s
<1> HIDE DEF s
<1> DEFINE over == v.pc = "end"
<1>o. over \in BOOLEAN
  OBVIOUS
<1>p. Parsed(Stream, done, wanted, over)
  BY <1>2 DEF KeyInv
<1> HIDE DEF over
<1>9. PICK p, kk, m : ParsedBy(Stream, p, kk, m, done, wanted, over)
  BY <1>p DEF Parsed
<1> DEFINE q == p[1]
<1>10. Stream \in Seq(Sym) /\ Len(Stream) = Len(r) + Len(s) /\ Len(s) \in Nat /\ Len(Stream) > 0
       /\ \A i \in 1..Len(s) : Stream[Len(r) + i] = s[i]
  <2>1. Stream \in Seq(Sym) /\ Len(Stream) = Len(r) + Len(s) /\ Len(s) \in Nat
        /\ \A i \in 1..Len(r) + Len(s) : Stream[i] = IF i <= Len(r) THEN r[i] ELSE s[i - Len(r)]
    BY <1>7, <1>8, ConcatProperties, LenProperties
  <2> DEFINE a == Len(r) b == Len(s) c == Len(Stream)
  <2>2. a \in Nat /\ a > 0 /\ b \in Nat /\ c = a + b
    BY <1>7, <2>1
  <2>3. \A i \in 1..a + b : Stream[i] = IF i <= a THEN r[i] ELSE s[i - a]
    BY <2>1
  <2> HIDE DEF a, b, c
  <2>4. c > 0
    BY ONLY <2>2
  <2>5. ASSUME NEW i \in 1..b PROVE Stream[a + i] = s[i]
    <3>1. a + i \in 1..a + b /\ ~(a + i <= a) /\ (a + i) - a = i
      BY ONLY <2>2, i \in 1..b
    <3>. QED BY <2>3, <3>1
  <2>. QED BY <2>1, <2>4, <2>5 DEF a, b, c
<1>11. Begins(r, Stream)
  BY <1>7, <1>8, BeginsIt
<1>12. /\ q \in Packet /\ Len(r) <= Len(q)
       /\ \A i \in 1..Len(r) : r[i] = q[i]
       /\ Len(r) = PacketLen(r) <=> Len(r) = Len(q)
  <2>1. Stream \in Seq(Sym) /\ r \in Seq(Sym) /\ Len(r) > 0 /\ Len(r) <= PacketLen(r)
    BY <1>5, <1>7, <1>10
  <2>. QED BY ONLY <1>9, <1>11, <2>1, ReadsFirst
<1> HIDE DEF q
<1>13. ASSUME NEW e \in Seq(Sym), e = done', OwnerFields \subseteq DOMAIN o', o'.packet \in Seq(Sym),
              o'.packet # <<>> => Len(o'.packet) < PacketLen(o'.packet),
              Begins(e, wanted), Parsed(Stream', e, wanted, over)
       PROVE  KeyInv'
  <2>1. KeyTyped'
    BY <1>1, <1>2, <1>4, <1>5, <1>13 DEF KeyInv, KeyTyped
  <2>2. PartRead' /\ Begins(done', wanted')
    BY <1>2, <1>13 DEF PartRead
  <2>3. Parsed(Stream', done', wanted', v'.pc = "end")
    BY <1>2, <1>13 DEF over
  <2>. QED BY <2>1, <2>2, <2>3 DEF KeyInv
<1>14. CASE Len(r) = PacketLen(r)
  <2>1. Obeyed(r) /\ Len(r) = Len(q)
    BY <1>6, <1>12, <1>14
  <2>2. OwnerFields \subseteq DOMAIN o' /\ o'.packet = <<>>
    BY <1>1, <2>1, ObeyedKeeps
  <2>3a. \E x \in Seq(Sym) :
           /\ done' = done \o x
           /\ Begins(x, MeaningOf(q))
           /\ Len(r) = Len(q) => Len(x) = Len(MeaningOf(q))
    <3>1. r \in Seq(Sym) /\ Len(r) > 0 /\ Obeyed(r) /\ done \in Seq(Sym) /\ q \in Packet
          /\ Len(r) <= Len(q)
      BY <1>1, <1>7, <1>12, <2>1
    <3>2. \A i \in 1..Len(r) : r[i] = q[i]
      BY <1>12
    <3>. QED BY ONLY <3>1, <3>2, ObeyedMeans
  <2>3. PICK x \in Seq(Sym) : /\ done' = done \o x
                              /\ Begins(x, MeaningOf(q))
                              /\ Len(r) = Len(q) => Len(x) = Len(MeaningOf(q))
    BY ONLY <2>3a
  <2>4. done' \in Seq(Sym) /\ Len(done') = Len(done) + Len(MeaningOf(q))
    <3>1. x \in Seq(Sym) /\ done \in Seq(Sym)
      BY <1>1
    <3>2. done \o x \in Seq(Sym) /\ Len(done \o x) = Len(done) + Len(x)
      BY ONLY <3>1, ConcatProperties
    <3>. QED BY ONLY <2>1, <2>3, <3>2
  <2>5. Begins(done', wanted)
    <3>1. Begins(done, wanted)
      BY DEF KeyInv
    <3>2. Begins(done \o x, wanted)
      BY ONLY <1>1, <1>o, <1>9, <1>10, <2>3, <3>1, ReadsOn DEF q
    <3>. QED BY <2>3, <3>2
  <2>6. Stream' = s
    <3>1. Stream' = (<<>> \o rest) \o j
      BY <1>2, <1>5, <2>2 DEF Stream, j
    <3>. QED BY <1>4, <3>1, ConcatEmptySeq DEF s
  <2>7. Len(Stream) >= Len(q) /\ Len(s) = Len(Stream) - Len(q)
        /\ \A i \in 1..Len(s) : s[i] = Stream[Len(q) + i]
    <3>1. Len(r) = Len(q)
      BY <2>1
    <3> DEFINE a == Len(r) b == Len(s) c == Len(Stream)
    <3>2. a \in Nat /\ b \in Nat /\ c = a + b
      BY <1>7, <1>10
    <3> HIDE DEF a, b, c
    <3>3. c >= a /\ b = c - a
      BY ONLY <3>2
    <3>. QED BY <1>10, <3>1, <3>3 DEF a, b, c
  <2>8. Parsed(s, done', wanted, over)
    <3>1. Stream \in Seq(Sym) /\ done \in Seq(Sym) /\ wanted \in Seq(Sym) /\ over \in BOOLEAN
          /\ Len(Stream) > 0 /\ s \in Seq(Sym) /\ done' \in Seq(Sym)
      BY <1>1, <1>o, <1>8, <1>10, <2>4
    <3>2. Len(Stream) >= Len(p[1]) /\ Len(s) = Len(Stream) - Len(p[1])
          /\ Len(done') = Len(done) + Len(MeaningOf(p[1]))
      BY <2>4, <2>7 DEF q
    <3>3. \A i \in 1..Len(s) : s[i] = Stream[Len(p[1]) + i]
      BY <2>7 DEF q
    <3> HIDE DEF s
    <3> HIDE DEF q
    <3>4. PICK b, d, w, c, e : b = Stream /\ d = done /\ w = wanted /\ c = s /\ e = done'
      OBVIOUS
    <3>5. /\ b \in Seq(Sym) /\ d \in Seq(Sym) /\ w \in Seq(Sym) /\ over \in BOOLEAN
          /\ c \in Seq(Sym) /\ e \in Seq(Sym) /\ Len(b) > 0 /\ Len(b) >= Len(p[1])
          /\ Len(c) = Len(b) - Len(p[1]) /\ Len(e) = Len(d) + Len(MeaningOf(p[1]))
      BY ONLY <3>1, <3>2, <3>4
    <3>6. \A i \in 1..Len(c) : c[i] = b[Len(p[1]) + i]
      BY ONLY <3>3, <3>4
    <3>7. ParsedBy(b, p, kk, m, d, w, over)
      BY ONLY <1>9, <3>4
    <3>8. Parsed(c, e, w, over)
      BY ONLY <3>5, <3>6, <3>7, ParsedTaken, SMTT(60)
    <3>. QED BY ONLY <3>4, <3>8
  <2>9. o'.packet \in Seq(Sym)
    BY <2>2, EmptySeq
  <2>. QED BY <1>13, <2>2, <2>4, <2>5, <2>6, <2>8, <2>9
<1>15. CASE Len(r) # PacketLen(r)
  <2>1. o' = [o EXCEPT !.packet = r] /\ done' = done
    BY <1>6, <1>15
  <2>2. OwnerFields \subseteq DOMAIN o' /\ o'.packet = r
    BY <1>1, <2>1 DEF OwnerFields
  <2>3. Len(r) < PacketLen(r)
    <3> DEFINE a == Len(r) b == PacketLen(r)
    <3>1. b \in Int
      BY DEF PacketLen
    <3>2. a \in Nat /\ a <= b /\ a # b
      BY <1>5, <1>7, <1>15
    <3> HIDE DEF a, b
    <3>3. a < b
      BY ONLY <3>1, <3>2
    <3>. QED BY <3>3 DEF a, b
  <2>4. Stream' = Stream
    <3>1. Stream' = (r \o rest) \o j
      BY <1>2, <1>5, <2>2 DEF Stream, j
    <3>2. (r \o rest) \o j = r \o (rest \o j)
      <4>1. r \in Seq(Sym) /\ rest \in Seq(Sym) /\ j \in Seq(Sym)
        BY <1>1, <1>4, <1>7
      <4> HIDE DEF r, rest, j
      <4>. QED BY ONLY <4>1, Regroup
    <3>. QED BY <1>8, <3>1, <3>2 DEF s
  <2>5. Begins(done, wanted)
    BY DEF KeyInv
  <2>. QED BY <1>1, <1>7, <1>p, <1>13, <2>1, <2>2, <2>3, <2>4, <2>5
<1>. QED BY <1>14, <1>15

LEMMA ReadEndKeys ==
  ASSUME KeyInv, ReadEnd
  PROVE  KeyInv'
<1>1. /\ OwnerFields \subseteq DOMAIN o /\ ViewerFields \subseteq DOMAIN v /\ v.out = <<>>
      /\ o.packet \in Seq(Sym) /\ wanted \in Seq(Sym) /\ done \in Seq(Sym)
      /\ v.typed \in Seq(Key) /\ v.batch \in Seq(Key)
  BY DEF KeyInv, KeyTyped, ReadEnd
<1>2. o.link = "open" /\ v' = v /\ wanted' = wanted /\ up' = up /\ up = <<>> /\ v.pc = "end"
  BY DEF ReadEnd, ownerKeeps
<1>3. CASE o.packet = <<>>
  <2>1. o' = [o EXCEPT !.link = "closed"] /\ done' = done
    BY <1>3 DEF ReadEnd
  <2>2. OwnerFields \subseteq DOMAIN o' /\ o'.packet = o.packet /\ o'.link = "closed"
    BY <1>1, <2>1 DEF OwnerFields
  <2>. QED BY <1>1, <1>2, <2>1, <2>2, KeysQuiet
<1>4. CASE o.packet # <<>>
  <2> DEFINE r == o.packet
  <2>1. Obeyed(r) /\ r \in Seq(Sym) /\ Len(r) \in Nat /\ Len(r) > 0 /\ Len(r) < PacketLen(r)
    <3>1. Obeyed(r) /\ Len(r) < PacketLen(r)
      BY <1>4 DEF ReadEnd, KeyInv, PartRead
    <3>2. Len(r) \in Nat \ {0}
      BY <1>1, <1>4, EmptySeq
    <3>. QED BY <1>1, <3>1, <3>2
  <2>2. OwnerFields \subseteq DOMAIN o' /\ o'.packet = <<>>
    BY <1>1, <2>1, ObeyedKeeps
  <2>3. Stream = r
    <3>1. Stream = (r \o <<>>) \o <<>>
      BY <1>1, <1>2 DEF Stream, Joined
    <3>. QED BY <1>1, <3>1, ConcatEmptySeq
  <2> DEFINE over == v.pc = "end"
  <2>o. over \in BOOLEAN
    OBVIOUS
  <2>3a. Parsed(r, done, wanted, over)
    BY <1>2, <2>3 DEF KeyInv
  <2> HIDE DEF over
  <2>4. PICK p, k, m : ParsedBy(r, p, k, m, done, wanted, over)
    BY <2>3a DEF Parsed
  <2> HIDE DEF r
  <2> DEFINE q == p[1]
  <2>5. q \in Packet /\ Len(r) <= Len(q) /\ \A i \in 1..Len(r) : r[i] = q[i]
    <3>1. r \in Seq(Sym) /\ Len(r) > 0 /\ Len(r) <= PacketLen(r)
      <4>1. PacketLen(r) \in Nat
        BY DEF PacketLen
      <4>. QED BY <2>1, <4>1
    <3>2. Begins(r, r)
      BY <2>1 DEF Begins
    <3>. QED BY ONLY <2>4, <3>1, <3>2, ReadsFirst
  <2> HIDE DEF q
  <2>6. \E x \in Seq(Sym) :
          /\ done' = done \o x
          /\ Begins(x, MeaningOf(q))
          /\ Len(r) = Len(q) => Len(x) = Len(MeaningOf(q))
    <3>1. r \in Seq(Sym) /\ Len(r) > 0 /\ Obeyed(r) /\ done \in Seq(Sym) /\ q \in Packet
          /\ Len(r) <= Len(q)
      BY <1>1, <2>1, <2>5
    <3>2. \A i \in 1..Len(r) : r[i] = q[i]
      BY <2>5
    <3>. QED BY ONLY <3>1, <3>2, ObeyedMeans
  <2>7. PICK x \in Seq(Sym) : done' = done \o x /\ Begins(x, MeaningOf(q))
    BY ONLY <2>6
  <2>8. done' \in Seq(Sym)
    <3>1. x \in Seq(Sym) /\ done \in Seq(Sym)
      BY <1>1
    <3>. QED BY ONLY <2>7, <3>1, ConcatProperties
  <2>9. Begins(done', wanted)
    <3>1. r \in Seq(Sym) /\ done \in Seq(Sym) /\ wanted \in Seq(Sym) /\ over \in BOOLEAN
          /\ Begins(done, wanted) /\ Len(r) > 0 /\ x \in Seq(Sym) /\ Begins(x, MeaningOf(p[1]))
      BY <1>1, <2>o, <2>1, <2>7 DEF KeyInv, q
    <3>2. Begins(done \o x, wanted)
      BY ONLY <2>4, <3>1, ReadsOn
    <3>. QED BY <2>7, <3>2
  <2>10. Stream' = <<>>
    <3>1. Stream' = (<<>> \o <<>>) \o <<>>
      BY <1>1, <1>2, <2>2 DEF Stream, Joined
    <3>2. <<>> \in Seq(Sym)
      BY EmptySeq
    <3>. QED BY <3>1, <3>2, ConcatEmptySeq
  <2>11. Parsed(<<>>, done', wanted, TRUE)
    <3>1. Len(<<>>) = 0 /\ 1..0 = {} /\ 1..0 - 1 = {}
      OBVIOUS
    <3>2. ParsedBy(<<>>, 0, 0, 0, done', wanted, TRUE)
      BY <3>1 DEF ParsedBy
    <3>. QED BY <3>2 DEF Parsed
  <2>12. KeyTyped'
    <3>1. <<>> \in Seq(Sym)
      BY EmptySeq
    <3>. QED BY <1>1, <1>2, <2>2, <2>8, <3>1 DEF KeyInv, KeyTyped
  <2>13. PartRead'
    BY <2>2 DEF PartRead
  <2>14. (v'.pc = "end") = TRUE
    BY <1>2
  <2>15. Begins(done', wanted') /\ Parsed(Stream', done', wanted', v'.pc = "end")
    BY <1>2, <2>9, <2>10, <2>11, <2>14
  <2>. QED BY <2>12, <2>13, <2>15 DEF KeyInv
<1>. QED BY <1>3, <1>4

\* The pending ESC becomes a packet.
LEMMA EscExpiresKeys ==
  ASSUME KeyInv, EscExpires
  PROVE  KeyInv'
<1>1. /\ ViewerFields \subseteq DOMAIN v /\ v.typed \in Seq(Key) /\ v.batch \in Seq(Key)
      /\ OwnerFields \subseteq DOMAIN o /\ wanted \in Seq(Sym)
  BY DEF KeyInv, KeyTyped
<1>2. v.pc = "esc" /\ v.out = <<>> /\ o' = o /\ up' = up /\ done' = done
  BY DEF EscExpires, Runs, viewerKeeps
<1> DEFINE flush == v.esc /\ ~v.in
<1>3. /\ v' = [v EXCEPT !.pc = "keys", !.esc = @ /\ ~flush, !.fsm = IF flush THEN "ground" ELSE @,
                        !.out = IF flush THEN <<<<"K", "1", "esc">>>> ELSE @,
                        !.batch = IF v.in THEN v.typed ELSE <<>>,
                        !.typed = IF v.in THEN <<>> ELSE @]
      /\ wanted' = IF flush THEN Append(wanted, "esc") ELSE wanted
  BY DEF EscExpires
<1> HIDE DEF flush
<1>4. /\ ViewerFields \subseteq DOMAIN v' /\ v'.pc = "keys"
      /\ v'.out = IF flush THEN <<<<"K", "1", "esc">>>> ELSE v.out
      /\ v'.batch = (IF v.in THEN v.typed ELSE <<>>) /\ v'.typed = (IF v.in THEN <<>> ELSE v.typed)
  BY <1>1, <1>3 DEF ViewerFields
<1>5. v'.batch \in Seq(Key) /\ v'.typed \in Seq(Key)
  <2>1. <<>> \in Seq(Key)
    BY EmptySeq
  <2>. QED BY <1>1, <1>4, <2>1
<1>6. CASE ~flush
  <2>1. v'.out = v.out /\ wanted' = wanted
    BY <1>3, <1>4, <1>6
  <2>2. v'.pc = "end" <=> v.pc = "end"
    BY <1>2, <1>4
  <2>. QED BY <1>1, <1>2, <1>4, <1>5, <2>1, <2>2, KeysQuiet
<1>7. CASE flush
  <2> DEFINE q == <<"K", "1", "esc">>
  <2>1. q \in Packet /\ "esc" \in Sym
    BY DEF Packet, Sym
  <2>2. MeaningOf(q) = <<"esc">> /\ q \in Seq(Sym)
    BY <2>1, PacketIs
  <2>3. v'.out = <<q>>
    BY <1>4, <1>7
  <2> HIDE DEF q
  <2>4. v'.out \in Seq(Seq(Sym)) /\ Len(v'.out) = 1 /\ Joined(v'.out) = q
    BY <2>2, <2>3 DEF Joined
  <2>5. wanted' = wanted \o MeaningOf(Joined(v'.out))
    <3>1. wanted' = Append(wanted, "esc")
      BY <1>3, <1>7
    <3>2. Append(wanted, "esc") = wanted \o <<"esc">>
      BY <1>1, <2>1, AppendIsConcat
    <3>. QED BY <2>2, <2>4, <3>1, <3>2
  <2>6. Len(v'.out) <= 2 /\ v.pc # "end" /\ v'.pc # "end" /\ Joined(v'.out) \in Packet
    BY <1>2, <1>4, <2>1, <2>4
  <2>. QED BY <1>2, <1>4, <1>5, <2>4, <2>5, <2>6, KeysMore
<1>. QED BY <1>6, <1>7

LEMMA KeyByteKeys ==
  ASSUME KeyInv, KeyByte
  PROVE  KeyInv'
<1>1. /\ ViewerFields \subseteq DOMAIN v /\ v.typed \in Seq(Key) /\ v.batch \in Seq(Key)
      /\ OwnerFields \subseteq DOMAIN o /\ wanted \in Seq(Sym)
  BY DEF KeyInv, KeyTyped
<1>2. v.pc = "keys" /\ v.out = <<>> /\ v.batch # <<>> /\ o' = o /\ up' = up /\ done' = done
  BY DEF KeyByte, Runs, viewerKeeps
<1> DEFINE b == Head(v.batch)
           ev == EventOf(v.fsm, b)
           fsm == NextFsm(v.fsm, b)
<1>3. IF ev.cmd \in {"quit", "detach"} THEN Ends(0) /\ UNCHANGED wanted
      ELSE /\ v' = [v EXCEPT !.fsm = fsm, !.esc = fsm = "esc", !.batch = Tail(@), !.out = Packets(ev)]
           /\ wanted' = wanted \o Meaning(ev)
  BY DEF KeyByte
<1>4. b \in Key /\ Tail(v.batch) \in Seq(Key)
  BY <1>1, <1>2, HeadTailProperties
<1>e. ev = EventOf(v.fsm, b)
  OBVIOUS
<1> HIDE DEF b, ev, fsm
<1>5. CASE ev.cmd \in {"quit", "detach"}
  <2>1. v'.pc = "end" /\ v'.out = <<>> /\ v'.typed = v.typed /\ v'.batch = v.batch
        /\ ViewerFields \subseteq DOMAIN v' /\ wanted' = wanted
    BY <1>1, <1>3, <1>5 DEF Ends, ViewerFields
  <2>. QED BY <1>2, <2>1, KeysEnded
<1>6. CASE ev.cmd \notin {"quit", "detach"}
  <2>1. /\ v' = [v EXCEPT !.fsm = fsm, !.esc = fsm = "esc", !.batch = Tail(@), !.out = Packets(ev)]
        /\ wanted' = wanted \o Meaning(ev)
    BY <1>3, <1>6
  <2>2. v'.pc = "keys" /\ v'.out = Packets(ev) /\ v'.typed = v.typed /\ v'.batch = Tail(v.batch)
        /\ ViewerFields \subseteq DOMAIN v'
    BY <1>1, <1>2, <2>1 DEF ViewerFields
  <2>3. /\ Packets(ev) \in Seq(Seq(Sym)) /\ Len(Packets(ev)) <= 2
        /\ \/ Packets(ev) = <<>> /\ Meaning(ev) = <<>>
           \/ /\ Joined(Packets(ev)) \in Packet
              /\ Meaning(ev) = MeaningOf(Joined(Packets(ev)))
    BY <1>4, <1>6, <1>e, PacketsMean
  <2>4. CASE Packets(ev) = <<>> /\ Meaning(ev) = <<>>
    <3>1. wanted' = wanted
      BY <1>1, <2>1, <2>4, ConcatEmptySeq
    <3>2. v'.out = v.out /\ (v'.pc = "end" <=> v.pc = "end")
      BY <1>2, <2>2, <2>4
    <3>. QED BY <1>1, <1>2, <1>4, <2>2, <3>1, <3>2, KeysQuiet
  <2>5. CASE /\ Joined(Packets(ev)) \in Packet
             /\ Meaning(ev) = MeaningOf(Joined(Packets(ev)))
    <3>1. /\ v'.out \in Seq(Seq(Sym)) /\ Len(v'.out) <= 2 /\ Joined(v'.out) \in Packet
          /\ wanted' = wanted \o MeaningOf(Joined(v'.out))
      BY <2>1, <2>2, <2>3, <2>5
    <3>2. v.pc # "end" /\ v'.pc # "end" /\ v'.typed \in Seq(Key) /\ v'.batch \in Seq(Key)
      BY <1>1, <1>2, <1>4, <2>2
    <3>. QED BY <1>2, <2>2, <3>1, <3>2, KeysMore
  <2>. QED BY <2>3, <2>4, <2>5
<1>. QED BY <1>5, <1>6

\* The owner's other steps.
LEMMA OwnerQuiet ==
  ASSUME KeyInv, Accept \/ Send \/ Output \/ Acts \/ Drained \/ Detach \/ Drop \/ HangUp
  PROVE  KeyInv'
<1>1. /\ OwnerFields \subseteq DOMAIN o /\ ViewerFields \subseteq DOMAIN v
      /\ v.typed \in Seq(Key) /\ v.batch \in Seq(Key)
  BY DEF KeyInv, KeyTyped
<1>2. v' = v /\ up' = up /\ wanted' = wanted /\ done' = done
  BY DEF Accept, Send, Output, Acts, Drained, Detach, Drop, HangUp, ownerKeeps
<1> SUFFICES OwnerFields \subseteq DOMAIN o' /\ o'.packet = o.packet
             /\ (o'.link # "closed" => o.link # "closed")
  BY <1>1, <1>2, KeysQuiet
<1> DEFINE Kept(q) == OwnerFields \subseteq DOMAIN q /\ q.packet = o.packet /\ q.link = o.link
<1>3. \A q : Kept(q) => Kept(Pushed(q)) /\ \A i : Kept(SwitchedTo(q, i))
  BY PushedKeeps, SwitchedKeeps
<1>4. Kept(o)
  BY <1>1
<1>5. CASE Accept
  BY <1>1, <1>5 DEF Accept, OwnerFields
<1>6. CASE Send
  BY <1>1, <1>6 DEF Send, OwnerFields
<1>7. CASE Output
  <2>1. PICK i \in Slot : LET q == [o EXCEPT !.wins[i] = @ + 1] IN
                          o' = IF i = o.cur THEN Pushed(q) ELSE q
    BY <1>7 DEF Output
  <2> DEFINE q == [o EXCEPT !.wins[i] = @ + 1]
  <2>2. Kept(q)
    BY <1>1 DEF OwnerFields
  <2>3. o' = IF i = o.cur THEN Pushed(q) ELSE q
    BY <2>1
  <2> HIDE DEF q, Kept
  <2>4. Kept(o')
    BY <1>3, <2>2, <2>3
  <2>. QED BY <2>4 DEF Kept
<1>8. CASE Acts
  <2> DEFINE q == [o EXCEPT !.view = FALSE]
             r == [o EXCEPT !.view = TRUE]
             s(size) == [o EXCEPT !.size = size]
  <2>1. Kept(q) /\ Kept(r) /\ \A size : Kept(s(size))
    BY <1>1 DEF OwnerFields
  <2>2. \/ \E i : o' = SwitchedTo(o, i)
        \/ o' = r \/ o' = Pushed(q) \/ \E size : o' = Pushed(s(size))
    BY <1>8 DEF Acts
  <2> HIDE DEF q, r, s, Kept
  <2>3. Kept(o')
    BY <1>3, <1>4, <2>1, <2>2
  <2>. QED BY <2>3 DEF Kept
<1>9. CASE Drained
  <2> DEFINE q == [o EXCEPT !.behind = FALSE]
  <2>1. Kept(q) /\ o' = Pushed(q)
    BY <1>1, <1>9 DEF Drained, OwnerFields
  <2> HIDE DEF q, Kept
  <2>2. Kept(o')
    BY <1>3, <2>1
  <2>. QED BY <2>2 DEF Kept
<1>10. CASE Detach
  BY <1>1, <1>10 DEF Detach, OwnerFields
<1>11. CASE Drop
  BY <1>1, <1>11 DEF Drop, OwnerFields
<1>12. CASE HangUp
  BY <1>1, <1>12 DEF HangUp, OwnerFields
<1>. QED BY <1>5, <1>6, <1>7, <1>8, <1>9, <1>10, <1>11, <1>12

\* The observer's other steps.
LEMMA ObserverQuiet ==
  ASSUME KeyInv, \/ ReadSize \/ Relayout \/ Wait \/ KeysEnd \/ ReadHeader \/ ReadRow
                 \/ Dies \/ Type \/ Winch
  PROVE  KeyInv'
<1>1. /\ OwnerFields \subseteq DOMAIN o /\ ViewerFields \subseteq DOMAIN v
      /\ v.typed \in Seq(Key) /\ v.batch \in Seq(Key)
  BY DEF KeyInv, KeyTyped
<1>2. o' = o /\ up' = up /\ wanted' = wanted /\ done' = done
  BY DEF ReadSize, Relayout, Wait, KeysEnd, ReadHeader, ReadRow, Dies, Type, Winch, viewerKeeps
<1>3. ASSUME NEW ret, Ends(ret) PROVE KeyInv'
  <2>1. v'.pc = "end" /\ v'.out = <<>> /\ v'.typed = v.typed /\ v'.batch = v.batch
        /\ ViewerFields \subseteq DOMAIN v'
    BY <1>1, <1>3 DEF Ends, ViewerFields
  <2>. QED BY <1>2, <2>1, KeysEnded
<1>4. ASSUME ViewerFields \subseteq DOMAIN v', v'.out = v.out, v'.typed \in Seq(Key),
             v'.batch = v.batch, v'.pc = "end" <=> v.pc = "end"
      PROVE  KeyInv'
  BY <1>1, <1>2, <1>4, KeysQuiet
<1>5. CASE ReadSize
  <2>1. CASE Ends(-1)
    BY <1>3, <2>1
  <2>2. CASE v' = [v EXCEPT !.pc = "top", !.ses = <<Head(down).rows, Head(down).cols>>]
    BY <1>1, <1>4, <1>5, <2>2 DEF ReadSize, ViewerFields
  <2>. QED BY <1>5, <2>1, <2>2 DEF ReadSize
<1>6. CASE Relayout
  BY <1>1, <1>4, <1>6 DEF Relayout, ViewerFields
<1>7. CASE Wait
  <2>1. \E in, sock : v' = [v EXCEPT !.pc = "esc", !.in = in, !.sock = sock]
    BY <1>7 DEF Wait
  <2>2. v.pc = "top"
    BY <1>7 DEF Wait
  <2>. QED BY <1>1, <1>4, <2>1, <2>2 DEF ViewerFields
<1>8. CASE KeysEnd
  BY <1>1, <1>4, <1>8 DEF KeysEnd, ViewerFields
<1>9. CASE ReadHeader
  <2>0. v.pc = "frame"
    BY <1>9 DEF ReadHeader
  <2>1. CASE \E ret : Ends(ret)
    BY <1>3, <2>1
  <2>2. CASE v' = [v EXCEPT !.lost = TRUE]
    BY <1>1, <1>4, <2>0, <2>2 DEF ViewerFields
  <2>3. CASE \E ses, local : v' = [v EXCEPT !.pc = "cells", !.known = TRUE, !.row = 1, !.ses = ses,
                                            !.local = local]
    BY <1>1, <1>4, <2>0, <2>3 DEF ViewerFields
  <2>4. (\E ret : Ends(ret)) \/ v' = [v EXCEPT !.lost = TRUE]
        \/ \E ses, local : v' = [v EXCEPT !.pc = "cells", !.known = TRUE, !.row = 1, !.ses = ses,
                                          !.local = local]
    BY <1>9 DEF ReadHeader
  <2>. QED BY <2>1, <2>2, <2>3, <2>4
<1>10. CASE ReadRow
  <2>0. v.pc = "cells"
    BY <1>10 DEF ReadRow
  <2>1. CASE \E ret : Ends(ret)
    BY <1>3, <2>1
  <2>2. CASE v' = [v EXCEPT !.lost = TRUE]
    BY <1>1, <1>4, <2>0, <2>2 DEF ViewerFields
  <2>3. CASE \E local, last : v' = [v EXCEPT !.local = local, !.row = @ + 1,
                                             !.pc = IF last THEN "top" ELSE @]
    BY <1>1, <1>4, <2>0, <2>3 DEF ViewerFields
  <2>4. (\E ret : Ends(ret)) \/ v' = [v EXCEPT !.lost = TRUE]
        \/ \E local, last : v' = [v EXCEPT !.local = local, !.row = @ + 1,
                                           !.pc = IF last THEN "top" ELSE @]
    BY <1>10 DEF ReadRow
  <2>. QED BY <2>1, <2>2, <2>3, <2>4
<1>11. CASE Dies
  BY <1>3, <1>11 DEF Dies
<1>12. CASE Type
  <2>1. PICK b \in Key : v' = [v EXCEPT !.typed = Append(@, b)]
    BY <1>12 DEF Type
  <2>2. Append(v.typed, b) \in Seq(Key)
    BY <1>1, AppendProperties
  <2>. QED BY <1>1, <1>4, <2>1, <2>2 DEF ViewerFields
<1>13. CASE Winch
  BY <1>1, <1>4, <1>13 DEF Winch, ViewerFields
<1>. QED BY <1>5, <1>6, <1>7, <1>8, <1>9, <1>10, <1>11, <1>12, <1>13

LEMMA InitKeys == Init => KeyInv
<1> SUFFICES ASSUME Init PROVE KeyInv
  OBVIOUS
<1>1. PICK size \in Sizes, our \in ViewSizes, taken \in BOOLEAN :
        LET p == [wins |-> [i \in Slot |-> 0], cur |-> 0, view |-> FALSE, size |-> size,
                  behind |-> FALSE, link |-> IF taken THEN "open" ELSE "new", rest |-> <<>>,
                  packet |-> <<>>, hup |-> FALSE, gone |-> FALSE]
        IN /\ o = IF taken THEN [p EXCEPT !.rest = Frame(p)] ELSE p
           /\ v = [pc |-> IF taken THEN "top" ELSE "size", ses |-> <<Rows(size) + 1, Cols(size)>>,
                   our |-> our, local |-> <<>>, known |-> FALSE, row |-> 1, fsm |-> "ground",
                   esc |-> FALSE, in |-> FALSE, sock |-> FALSE, typed |-> <<>>, batch |-> <<>>,
                   out |-> <<>>, winch |-> FALSE, ret |-> 0, lost |-> FALSE]
  BY DEF Init
<1>2. OwnerFields \subseteq DOMAIN o /\ o.packet = <<>>
  BY <1>1 DEF OwnerFields
<1>3. /\ ViewerFields \subseteq DOMAIN v /\ v.pc # "end"
      /\ v.typed = <<>> /\ v.batch = <<>> /\ v.out = <<>>
  BY <1>1 DEF ViewerFields
<1>4. up = <<>> /\ wanted = <<>> /\ done = <<>>
  BY DEF Init
<1>5. <<>> \in Seq(Sym) /\ <<>> \in Seq(Key) /\ <<>> \in Seq(Seq(Sym)) /\ Len(<<>>) = 0
  BY EmptySeq
<1>6. KeyTyped
  BY <1>2, <1>3, <1>4, <1>5 DEF KeyTyped
<1>7. PartRead /\ Begins(done, wanted)
  BY <1>2, <1>4, <1>5 DEF PartRead, Begins
<1>8. Stream = <<>>
  <2>1. Stream = (<<>> \o <<>>) \o <<>>
    BY <1>2, <1>3, <1>4 DEF Stream, Joined
  <2>. QED BY <1>5, <2>1, ConcatEmptySeq
<1>9. ParsedBy(Stream, 0, 0, 0, done, wanted, v.pc = "end")
  <2>1. 1..0 = {} /\ 1..0 - 1 = {}
    OBVIOUS
  <2>. QED BY <1>3, <1>4, <1>5, <1>8, <2>1 DEF ParsedBy
<1>10. Parsed(Stream, done, wanted, v.pc = "end")
  BY <1>9 DEF Parsed
<1>. QED BY <1>6, <1>7, <1>10 DEF KeyInv

LEMMA NextKeys == KeyInv /\ [Next]_vars => KeyInv'
<1> SUFFICES ASSUME KeyInv, [Next]_vars PROVE KeyInv'
  OBVIOUS
<1>1. CASE Accept \/ Send \/ Output \/ Acts \/ Drained \/ Detach \/ Drop \/ HangUp
  BY <1>1, OwnerQuiet
<1>2. CASE \/ ReadSize \/ Relayout \/ Wait \/ KeysEnd \/ ReadHeader \/ ReadRow
           \/ Dies \/ Type \/ Winch
  BY <1>2, ObserverQuiet
<1>3. CASE ReadLink
  BY <1>3, ReadLinkKeys
<1>4. CASE ReadEnd
  BY <1>4, ReadEndKeys
<1>5. CASE EscExpires
  BY <1>5, EscExpiresKeys
<1>6. CASE KeyByte
  BY <1>6, KeyByteKeys
<1>7. CASE Write
  BY <1>7, WriteKeys
<1>8. CASE UNCHANGED vars
  <2>1. o' = o /\ v' = v /\ up' = up /\ wanted' = wanted /\ done' = done
    BY <1>8 DEF vars
  <2>. QED BY <2>1, KeysQuiet DEF KeyInv, KeyTyped
<1>. QED BY <1>1, <1>2, <1>3, <1>4, <1>5, <1>6, <1>7, <1>8 DEF Next, OwnerRuns, ObserverRuns

LEMMA KeyInvOrders == KeyInv => KeysInOrder
<1> SUFFICES ASSUME KeyInv PROVE KeysInOrder
  OBVIOUS
<1>1. /\ done \in Seq(Sym) /\ wanted \in Seq(Sym) /\ Begins(done, wanted)
      /\ Len(done) \in Nat /\ Len(wanted) \in Nat
  BY LenProperties DEF KeyInv, KeyTyped
<1>2. Len(done) <= Len(wanted) /\ \A i \in 1..Len(done) : done[i] = wanted[i]
  BY <1>1 DEF Begins
<1>3. IsPrefix(done, wanted)
  <2> DEFINE n == Len(done)
  <2>1. n \in Nat /\ n <= Len(wanted)
    BY <1>1, <1>2
  <2>2. SubSeq(done, 1, n) = done
    BY <1>1, SubSeqFull
  <2>3. SubSeq(wanted, 1, n) \in Seq(Sym) /\ Len(SubSeq(wanted, 1, n)) = n
        /\ \A i \in 1..n : SubSeq(wanted, 1, n)[i] = wanted[i]
    <3>1. \A i \in 1..Len(wanted) : wanted[i] \in Sym
      BY <1>1, ElementOfSeq
    <3>2. \A i \in 1..n : wanted[i] \in Sym
      BY <1>1, <2>1, <3>1
    <3>. QED BY <2>1, <3>2, SubSeqProperties
  <2>4. \A i \in 1..n : SubSeq(wanted, 1, n)[i] = done[i]
    BY <1>2, <2>3
  <2>5. SubSeq(wanted, 1, n) = done
    BY <1>1, <2>3, <2>4, SeqEqual
  <2>. QED BY <1>2, <2>2, <2>5 DEF IsPrefix
<1>4. ASSUME o.link = "open", o.packet = <<>>, up = <<>>, Runs
      PROVE  done = wanted
  <2>1. v.pc # "end" /\ v.out = <<>> /\ <<>> \in Seq(Sym)
    BY <1>4, EmptySeq DEF Runs
  <2>2. Stream = <<>>
    <3>1. Stream = (<<>> \o <<>>) \o <<>>
      BY <1>4, <2>1 DEF Stream, Joined
    <3>. QED BY <2>1, <3>1, ConcatEmptySeq
  <2>3. PICK p, k, m : ParsedBy(<<>>, p, k, m, done, wanted, v.pc = "end")
    BY <1>4, <2>2 DEF KeyInv, Parsed
  <2>4. Len(<<>>) = 0
    OBVIOUS
  <2>5. Len(done) = Len(wanted)
    BY <2>1, <2>3, <2>4 DEF ParsedBy
  <2>. QED BY <1>1, <1>2, <2>5, SeqEqual
<1>. QED BY <1>3, <1>4 DEF KeysInOrder

(* What the owner does for an observer is what its keys mean, in order and    *)
(* each once, for any keys, any number of windows, buffers of any size and    *)
(* any way the link splits the packets.                                      *)
THEOREM KeysDoneInOrder == Spec => []KeysInOrder
<1>1. Spec => []KeyInv
  BY InitKeys, NextKeys, PTL DEF Spec
<1>. QED BY <1>1, KeyInvOrders, PTL

-----------------------------------------------------------------------------
(* What goes down: frames, each a header and its rows.                       *)

Farewell == <<-1, 0>>

Shown(p) == <<p.cur, p.wins[p.cur]>>
RowOf(c, r) == <<c[1], c[2], r>>
RowPiece(z, c, r) == [kind |-> "row", cols |-> Cols(z), of |-> RowOf(c, r)]
HeadPiece(z) == Header(Rows(z), Cols(z))

Piece == {Header(rows, cols) : rows \in Int, cols \in Int}
         \cup {[kind |-> "row", cols |-> cols, of |-> x] : cols \in Int, x \in Slot \X Nat \X Nat}

OwnerRec(p) ==
  /\ OwnerFields \subseteq DOMAIN p
  /\ p.wins \in [Slot -> Nat] /\ p.cur \in Slot /\ p.view \in BOOLEAN /\ p.size \in Sizes
  /\ p.behind \in BOOLEAN /\ p.link \in {"new", "open", "closed"} /\ p.rest \in Seq(Piece)

(* Pieces on their way: s[i] is the row r[i] (0: the header) of a frame of    *)
(* size z[i] that shows the window c[i]; 0 is the piece before the first.    *)
FedBy(s, z, c, r, link) ==
  /\ \A i \in 1..Len(s) : s[i] = IF r[i] = 0 THEN HeadPiece(z[i]) ELSE RowPiece(z[i], c[i], r[i])
  /\ \A i \in 0..Len(s) :
       /\ r[i] \in Nat
       /\ \/ IsSize(z[i]) /\ r[i] <= Rows(z[i])
          \/ z[i] = Farewell /\ r[i] = 0 /\ i = Len(s) /\ i > 0 /\ link # "open"
  /\ \A i \in 0..Len(s) - 1 :
       IF r[i] < Rows(z[i]) THEN z[i + 1] = z[i] /\ c[i + 1] = c[i] /\ r[i + 1] = r[i] + 1
       ELSE r[i + 1] = 0
  /\ IsSize(z[Len(s)]) => r[Len(s)] = Rows(z[Len(s)])

LEMMA SizeIs ==
  ASSUME NEW size, IsSize(size)
  PROVE  /\ Rows(size) \in Nat /\ Rows(size) > 0 /\ Cols(size) \in Nat /\ Cols(size) > 0
         /\ size = <<Rows(size), Cols(size)>> /\ size # Farewell
BY DEF IsSize, Rows, Cols, Farewell

LEMMA FrameIs ==
  ASSUME Sized, NEW p, OwnerRec(p)
  PROVE  /\ Frame(p) \in Seq(Piece) /\ Len(Frame(p)) = Rows(p.size) + 1
         /\ Frame(p)[1] = HeadPiece(p.size)
         /\ \A i \in 2..Rows(p.size) + 1 : Frame(p)[i] = RowPiece(p.size, Shown(p), i - 1)
<1> DEFINE n == Rows(p.size)
           h == <<Header(Rows(p.size), Cols(p.size))>>
           rows == [r \in 1..n |-> [kind |-> "row", cols |-> Cols(p.size), of |-> Content(p, r)]]
<1>1. n \in Nat /\ n > 0 /\ Cols(p.size) \in Nat
  BY SizeIs DEF Sized, OwnerRec
<1>2. h \in Seq(Piece) /\ Len(h) = 1 /\ h[1] = HeadPiece(p.size)
  BY <1>1 DEF Piece, HeadPiece
<1>3. \A r \in 1..n : rows[r] = RowPiece(p.size, Shown(p), r)
  BY DEF RowPiece, Content, RowOf, Shown
<1>4. \A r \in 1..n : rows[r] \in Piece
  <2> SUFFICES ASSUME NEW r \in 1..n PROVE rows[r] \in Piece
    OBVIOUS
  <2>1. Content(p, r) \in Slot \X Nat \X Nat
    <3>1. p.cur \in Slot /\ p.wins[p.cur] \in Nat /\ r \in Nat
      BY <1>1 DEF OwnerRec
    <3>2. <<p.cur, p.wins[p.cur], r>> \in Slot \X Nat \X Nat
      BY ONLY <3>1
    <3>. QED BY <3>2 DEF Content
  <2>2. rows[r] = [kind |-> "row", cols |-> Cols(p.size), of |-> Content(p, r)]
    OBVIOUS
  <2>3. PICK cols, x : cols = Cols(p.size) /\ x = Content(p, r)
    OBVIOUS
  <2> HIDE DEF rows
  <2>4. cols \in Int /\ x \in Slot \X Nat \X Nat
    BY <1>1, <2>1, <2>3
  <2>5. [kind |-> "row", cols |-> cols, of |-> x] \in Piece
    BY ONLY <2>4 DEF Piece
  <2>. QED BY ONLY <2>2, <2>3, <2>5
<1>5. rows \in Seq(Piece) /\ Len(rows) = n
  <2>1. rows \in [1..n -> Piece]
    BY <1>4
  <2>. QED BY <1>1, <2>1
<1>6. Frame(p) = h \o rows
  BY DEF Frame
<1> HIDE DEF n, h, rows
<1>7. Frame(p) \in Seq(Piece) /\ Len(Frame(p)) = 1 + n
      /\ \A i \in 1..1 + n : Frame(p)[i] = IF i <= 1 THEN h[i] ELSE rows[i - 1]
  <2>1. /\ h \o rows \in Seq(Piece) /\ Len(h \o rows) = Len(h) + Len(rows)
        /\ \A i \in 1..Len(h) + Len(rows) :
             (h \o rows)[i] = IF i <= Len(h) THEN h[i] ELSE rows[i - Len(h)]
    BY <1>2, <1>5, ConcatProperties
  <2>. QED BY <1>2, <1>5, <1>6, <2>1
<1>8. Frame(p)[1] = HeadPiece(p.size)
  <2>1. 1 \in 1..1 + n
    BY <1>1
  <2>. QED BY <1>2, <1>7, <2>1
<1>9. ASSUME NEW i \in 2..n + 1 PROVE Frame(p)[i] = RowPiece(p.size, Shown(p), i - 1)
  <2>1. i \in 1..1 + n /\ ~(i <= 1) /\ i - 1 \in 1..n
    BY <1>1
  <2>. QED BY <1>3, <1>7, <2>1
<1>10. 1 + n = n + 1
  BY <1>1
<1>. QED BY <1>7, <1>8, <1>9, <1>10 DEF n

\* Another frame comes last.
LEMMA FedMore ==
  ASSUME Sized, NEW p, OwnerRec(p), NEW s \in Seq(Piece), NEW z, NEW c, NEW r,
         FedBy(s, z, c, r, "open")
  PROVE  \E zz, cc, rr :
           /\ FedBy(s \o Frame(p), zz, cc, rr, "open")
           /\ \A i \in 0..Len(s) : zz[i] = z[i] /\ cc[i] = c[i] /\ rr[i] = r[i]
           /\ zz[Len(s) + 1] = p.size
           /\ zz[Len(s \o Frame(p))] = p.size /\ cc[Len(s \o Frame(p))] = Shown(p)
<1> DEFINE n == Len(s)
           k == Rows(p.size)
           f == Frame(p)
           u == s \o f
           l == Len(u)
           Z == [i \in 0..n + k + 1 |-> IF i <= n THEN z[i] ELSE p.size]
           C == [i \in 0..n + k + 1 |-> IF i <= n THEN c[i] ELSE Shown(p)]
           R == [i \in 0..n + k + 1 |-> IF i <= n THEN r[i] ELSE i - n - 1]
<1>1. n \in Nat /\ k \in Nat /\ k > 0 /\ IsSize(p.size)
  BY SizeIs, LenProperties DEF Sized, OwnerRec
<1>2. f \in Seq(Piece) /\ Len(f) = k + 1 /\ f[1] = HeadPiece(p.size)
      /\ \A i \in 2..k + 1 : f[i] = RowPiece(p.size, Shown(p), i - 1)
  BY FrameIs
<1>3. Len(u) = n + Len(f) /\ \A i \in 1..n + Len(f) : u[i] = IF i <= n THEN s[i] ELSE f[i - n]
  BY <1>2, ConcatProperties
<1>4. \A i \in 0..n : Z[i] = z[i] /\ C[i] = c[i] /\ R[i] = r[i]
  BY <1>1
<1>5. \A i \in n + 1..n + k + 1 : Z[i] = p.size /\ C[i] = Shown(p) /\ R[i] = i - n - 1
  BY <1>1
<1>6. /\ \A i \in 1..n : s[i] = IF r[i] = 0 THEN HeadPiece(z[i]) ELSE RowPiece(z[i], c[i], r[i])
      /\ \A i \in 0..n : r[i] \in Nat /\ IsSize(z[i]) /\ r[i] <= Rows(z[i])
      /\ \A i \in 0..n - 1 :
           IF r[i] < Rows(z[i]) THEN z[i + 1] = z[i] /\ c[i + 1] = c[i] /\ r[i + 1] = r[i] + 1
           ELSE r[i + 1] = 0
      /\ r[n] = Rows(z[n])
  <2>1. n \in 0..n
    BY <1>1
  <2>. QED BY <2>1 DEF FedBy
<1> HIDE DEF n, k, f, u, Z, C, R
<1>7. l = n + k + 1 /\ l \in Nat
  BY <1>1, <1>2, <1>3
<1> HIDE DEF l
<1>8. ASSUME NEW i \in 1..l
      PROVE  u[i] = IF R[i] = 0 THEN HeadPiece(Z[i]) ELSE RowPiece(Z[i], C[i], R[i])
  <2>0. i \in 1..n + Len(f)
    BY <1>2, <1>7, <1>1
  <2>1. CASE i <= n
    <3>1. i \in 0..n /\ i \in 1..n
      BY <1>1, <2>1
    <3>2. u[i] = s[i]
      BY <1>3, <2>0, <2>1
    <3>. QED BY <1>4, <1>6, <3>1, <3>2
  <2>2. CASE i = n + 1
    <3>1. i \in n + 1..n + k + 1 /\ i - n = 1 /\ i - n - 1 = 0 /\ ~(i <= n)
      BY <1>1, <2>2
    <3>2. u[i] = f[1]
      BY <1>3, <2>0, <3>1
    <3>. QED BY <1>2, <1>5, <3>1, <3>2
  <2>3. CASE i > n + 1
    <3>1. i \in n + 1..n + k + 1 /\ i - n \in 2..k + 1 /\ i - n - 1 # 0 /\ ~(i <= n)
      BY <1>1, <1>7, <2>3
    <3>2. u[i] = f[i - n]
      BY <1>3, <2>0, <3>1
    <3>3. f[i - n] = RowPiece(p.size, Shown(p), i - n - 1)
      BY <1>2, <3>1
    <3>. QED BY <1>5, <3>1, <3>2, <3>3
  <2>. QED BY <1>1, <2>1, <2>2, <2>3
<1>9. ASSUME NEW i \in 0..l PROVE R[i] \in Nat /\ IsSize(Z[i]) /\ R[i] <= Rows(Z[i])
  <2>1. CASE i <= n
    <3>1. i \in 0..n
      BY <1>1, <2>1
    <3>. QED BY <1>4, <1>6, <3>1
  <2>2. CASE i > n
    <3>1. i \in n + 1..n + k + 1 /\ i - n - 1 \in Nat /\ i - n - 1 <= k
      BY <1>1, <1>7, <2>2
    <3>. QED BY <1>1, <1>5, <3>1 DEF k
  <2>. QED BY <1>1, <2>1, <2>2
<1>10. ASSUME NEW i \in 0..l - 1
       PROVE  IF R[i] < Rows(Z[i]) THEN Z[i + 1] = Z[i] /\ C[i + 1] = C[i] /\ R[i + 1] = R[i] + 1
              ELSE R[i + 1] = 0
  <2>1. CASE i < n
    <3>1. i \in 0..n /\ i + 1 \in 0..n /\ i \in 0..n - 1
      BY <1>1, <2>1
    <3>. QED BY <1>4, <1>6, <3>1
  <2>2. CASE i = n
    <3>1. n \in 0..n /\ n + 1 \in n + 1..n + k + 1 /\ n + 1 - n - 1 = 0
      BY <1>1
    <3>2. R[n] = Rows(Z[n]) /\ R[n] \in Nat
      BY <1>4, <1>6, <3>1
    <3>3. ~(R[n] < Rows(Z[n]))
      BY <3>2
    <3>. QED BY <1>5, <2>2, <3>1, <3>3
  <2>3. CASE i > n
    <3>0. PICK j : j = i + 1
      OBVIOUS
    <3>1. i \in n + 1..n + k + 1 /\ j \in n + 1..n + k + 1 /\ j - n - 1 = i - n - 1 + 1
          /\ i - n - 1 < k
      BY ONLY <1>1, <1>7, <2>3, <3>0, i \in 0..l - 1
    <3>2. Z[i] = p.size /\ C[i] = Shown(p) /\ R[i] = i - n - 1
      BY ONLY <1>5, <3>1
    <3>3. Z[j] = p.size /\ C[j] = Shown(p) /\ R[j] = j - n - 1
      BY ONLY <1>5, <3>1
    <3>4. R[i] < Rows(Z[i])
      BY ONLY <3>1, <3>2 DEF k
    <3>5. R[j] = R[i] + 1
      BY ONLY <3>1, <3>2, <3>3
    <3>. QED BY ONLY <3>0, <3>2, <3>3, <3>4, <3>5
  <2>. QED BY <1>1, <2>1, <2>2, <2>3
<1>11. R[l] = Rows(Z[l]) /\ Z[l] = p.size /\ C[l] = Shown(p)
  <2>1. l \in n + 1..n + k + 1 /\ l - n - 1 = k
    BY <1>1, <1>7
  <2>. QED BY <1>5, <2>1 DEF k
<1>12. Z[n + 1] = p.size
  <2>1. n + 1 \in n + 1..n + k + 1
    BY <1>1
  <2>. QED BY <1>5, <2>1
<1>13. FedBy(u, Z, C, R, "open")
  BY <1>8, <1>9, <1>10, <1>11 DEF FedBy, l
<1>. QED BY <1>4, <1>11, <1>12, <1>13 DEF n, u, f, l

\* Nothing on its way yet.
LEMMA FedNone ==
  ASSUME NEW size, IsSize(size), NEW c, NEW link
  PROVE  FedBy(<<>>, [i \in 0..0 |-> size], [i \in 0..0 |-> c], [i \in 0..0 |-> Rows(size)], link)
<1>1. Len(<<>>) = 0 /\ 1..0 = {} /\ 0..0 - 1 = {} /\ \A i \in 0..0 : i = 0
  OBVIOUS
<1>2. Rows(size) \in Nat
  BY SizeIs
<1>. QED BY <1>1, <1>2 DEF FedBy

\* The owner's farewell is the last piece.
LEMMA FedBye ==
  ASSUME NEW s \in Seq(Piece), NEW z, NEW c, NEW r, FedBy(s, z, c, r, "open")
  PROVE  \E zz, cc, rr :
           /\ FedBy(s \o <<HeadPiece(Farewell)>>, zz, cc, rr, "closed")
           /\ \A i \in 0..Len(s) : zz[i] = z[i] /\ cc[i] = c[i] /\ rr[i] = r[i]
<1> DEFINE n == Len(s)
           b == <<HeadPiece(Farewell)>>
           u == s \o b
           l == Len(u)
           Z == [i \in 0..n + 1 |-> IF i <= n THEN z[i] ELSE Farewell]
           C == [i \in 0..n + 1 |-> IF i <= n THEN c[i] ELSE <<>>]
           R == [i \in 0..n + 1 |-> IF i <= n THEN r[i] ELSE 0]
<1>1. n \in Nat
  BY LenProperties
<1>2. b \in Seq(Piece) /\ Len(b) = 1 /\ b[1] = HeadPiece(Farewell)
  <2>1. HeadPiece(Farewell) = Header(-1, 0)
    BY DEF HeadPiece, Farewell, Rows, Cols
  <2>2. -1 \in Int /\ 0 \in Int
    OBVIOUS
  <2>3. PICK x, y : x = -1 /\ y = 0
    OBVIOUS
  <2>4. x \in Int /\ y \in Int
    BY <2>2, <2>3
  <2>5. Header(x, y) \in Piece
    BY ONLY <2>4 DEF Piece
  <2>6. HeadPiece(Farewell) \in Piece
    BY ONLY <2>1, <2>3, <2>5
  <2>. QED BY <2>6
<1>3. Len(u) = n + Len(b) /\ \A i \in 1..n + Len(b) : u[i] = IF i <= n THEN s[i] ELSE b[i - n]
  BY <1>2, ConcatProperties
<1>4. \A i \in 0..n : Z[i] = z[i] /\ C[i] = c[i] /\ R[i] = r[i]
  BY <1>1
<1>5. Z[n + 1] = Farewell /\ R[n + 1] = 0
  BY <1>1
<1>6. /\ \A i \in 1..n : s[i] = IF r[i] = 0 THEN HeadPiece(z[i]) ELSE RowPiece(z[i], c[i], r[i])
      /\ \A i \in 0..n : r[i] \in Nat /\ IsSize(z[i]) /\ r[i] <= Rows(z[i])
      /\ \A i \in 0..n - 1 :
           IF r[i] < Rows(z[i]) THEN z[i + 1] = z[i] /\ c[i + 1] = c[i] /\ r[i + 1] = r[i] + 1
           ELSE r[i + 1] = 0
      /\ r[n] = Rows(z[n])
  <2>1. n \in 0..n
    BY <1>1
  <2>. QED BY <2>1 DEF FedBy
<1> HIDE DEF n, b, u, Z, C, R
<1>7. l = n + 1 /\ l \in Nat /\ l > 0
  BY <1>1, <1>2, <1>3
<1> HIDE DEF l
<1>8. ASSUME NEW i \in 1..l
      PROVE  u[i] = IF R[i] = 0 THEN HeadPiece(Z[i]) ELSE RowPiece(Z[i], C[i], R[i])
  <2>0. i \in 1..n + Len(b)
    BY <1>2, <1>7
  <2>1. CASE i <= n
    <3>1. i \in 0..n /\ i \in 1..n
      BY <1>1, <2>1
    <3>2. u[i] = s[i]
      BY <1>3, <2>0, <2>1
    <3>. QED BY <1>4, <1>6, <3>1, <3>2
  <2>2. CASE i = n + 1
    <3>1. i - n = 1 /\ ~(i <= n)
      BY <1>1, <2>2
    <3>2. u[i] = b[1]
      BY <1>3, <2>0, <3>1
    <3>. QED BY <1>2, <1>5, <2>2, <3>2
  <2>3. i <= n \/ i = n + 1
    BY <1>1, <1>7
  <2>. QED BY <2>1, <2>2, <2>3
<1>9. ASSUME NEW i \in 0..l
      PROVE  /\ R[i] \in Nat
             /\ \/ IsSize(Z[i]) /\ R[i] <= Rows(Z[i])
                \/ Z[i] = Farewell /\ R[i] = 0 /\ i = l /\ i > 0 /\ "closed" # "open"
  <2>1. CASE i <= n
    <3>1. i \in 0..n
      BY <1>1, <2>1
    <3>. QED BY <1>4, <1>6, <3>1
  <2>2. CASE i = n + 1
    BY <1>5, <1>7, <2>2
  <2>3. i <= n \/ i = n + 1
    BY <1>1, <1>7
  <2>. QED BY <2>1, <2>2, <2>3
<1>10. ASSUME NEW i \in 0..l - 1
       PROVE  IF R[i] < Rows(Z[i]) THEN Z[i + 1] = Z[i] /\ C[i + 1] = C[i] /\ R[i + 1] = R[i] + 1
              ELSE R[i + 1] = 0
  <2>1. CASE i < n
    <3>0. PICK j : j = i + 1
      OBVIOUS
    <3>1. i \in 0..n /\ j \in 0..n /\ i \in 0..n - 1
      BY <1>1, <2>1, <3>0
    <3>2. Z[i] = z[i] /\ C[i] = c[i] /\ R[i] = r[i] /\ Z[j] = z[j] /\ C[j] = c[j] /\ R[j] = r[j]
      BY <1>4, <3>1
    <3>. QED BY <1>6, <3>0, <3>1, <3>2
  <2>2. CASE i = n
    <3>1. n \in 0..n
      BY <1>1
    <3>2. R[n] = Rows(Z[n]) /\ R[n] \in Nat
      BY <1>4, <1>6, <3>1
    <3>3. ~(R[n] < Rows(Z[n]))
      BY <3>2
    <3>. QED BY <1>5, <2>2, <3>3
  <2>3. i < n \/ i = n
    BY <1>1, <1>7
  <2>. QED BY <2>1, <2>2, <2>3
<1>11. ~IsSize(Z[l])
  BY <1>5, <1>7, SizeIs
<1>13. FedBy(u, Z, C, R, "closed")
  BY <1>8, <1>9, <1>10, <1>11 DEF FedBy, l
<1>. QED BY <1>4, <1>13 DEF n, u, b

\* The first piece is taken off.
LEMMA FedTaken ==
  ASSUME NEW s \in Seq(Piece), s # <<>>, NEW z, NEW c, NEW r, NEW link, FedBy(s, z, c, r, link),
         IsSize(z[1])
  PROVE  \E zz, cc, rr :
           /\ FedBy(Tail(s), zz, cc, rr, link)
           /\ \A i \in 0..Len(Tail(s)) : zz[i] = z[i + 1] /\ cc[i] = c[i + 1] /\ rr[i] = r[i + 1]
<1> DEFINE u == Tail(s)
           n == Len(s)
           l == Len(u)
           Z == [i \in 0..l |-> z[i + 1]]
           C == [i \in 0..l |-> c[i + 1]]
           R == [i \in 0..l |-> r[i + 1]]
<1>1. n \in Nat /\ n # 0 /\ l = n - 1 /\ \A i \in 1..l : u[i] = s[i + 1]
  BY EmptySeq, HeadTailProperties
<1>2. \A i \in 0..l : Z[i] = z[i + 1] /\ C[i] = c[i + 1] /\ R[i] = r[i + 1]
  OBVIOUS
<1>3. /\ \A i \in 1..n : s[i] = IF r[i] = 0 THEN HeadPiece(z[i]) ELSE RowPiece(z[i], c[i], r[i])
      /\ \A i \in 0..n :
           /\ r[i] \in Nat
           /\ \/ IsSize(z[i]) /\ r[i] <= Rows(z[i])
              \/ z[i] = Farewell /\ r[i] = 0 /\ i = n /\ i > 0 /\ link # "open"
      /\ \A i \in 0..n - 1 :
           IF r[i] < Rows(z[i]) THEN z[i + 1] = z[i] /\ c[i + 1] = c[i] /\ r[i + 1] = r[i] + 1
           ELSE r[i + 1] = 0
      /\ IsSize(z[n]) => r[n] = Rows(z[n])
  BY DEF FedBy
<1> HIDE DEF u, n, l, Z, C, R
<1>4. l \in Nat /\ l + 1 = n
  BY ONLY <1>1
<1>5. ASSUME NEW i \in 1..l
      PROVE  u[i] = IF R[i] = 0 THEN HeadPiece(Z[i]) ELSE RowPiece(Z[i], C[i], R[i])
  <2>0. PICK j : j = i + 1
    OBVIOUS
  <2>1. j \in 1..n /\ i \in 0..l
    BY ONLY <1>4, <2>0, i \in 1..l
  <2>2. Z[i] = z[j] /\ C[i] = c[j] /\ R[i] = r[j] /\ u[i] = s[j]
    BY <1>1, <1>2, <2>0, <2>1
  <2>3. s[j] = IF r[j] = 0 THEN HeadPiece(z[j]) ELSE RowPiece(z[j], c[j], r[j])
    BY <1>3, <2>1
  <2>. QED BY ONLY <2>2, <2>3
<1>6. ASSUME NEW i \in 0..l
      PROVE  /\ R[i] \in Nat
             /\ \/ IsSize(Z[i]) /\ R[i] <= Rows(Z[i])
                \/ Z[i] = Farewell /\ R[i] = 0 /\ i = l /\ i > 0 /\ link # "open"
  <2>0. PICK j : j = i + 1
    OBVIOUS
  <2>1. j \in 0..n /\ (j = n => i = l) /\ (i = 0 \/ i > 0)
    BY ONLY <1>4, <2>0, i \in 0..l
  <2>2. Z[i] = z[j] /\ C[i] = c[j] /\ R[i] = r[j]
    BY <1>2, <2>0
  <2>3. /\ r[j] \in Nat
        /\ \/ IsSize(z[j]) /\ r[j] <= Rows(z[j])
           \/ z[j] = Farewell /\ r[j] = 0 /\ j = n /\ j > 0 /\ link # "open"
    BY <1>3, <2>1
  <2>4. i = 0 => IsSize(z[j])
    BY <2>0
  <2>5. i = 0 => z[j] # Farewell
    BY <2>4, SizeIs
  <2>. QED BY ONLY <2>1, <2>2, <2>3, <2>5
<1>7. ASSUME NEW i \in 0..l - 1
      PROVE  IF R[i] < Rows(Z[i]) THEN Z[i + 1] = Z[i] /\ C[i + 1] = C[i] /\ R[i + 1] = R[i] + 1
             ELSE R[i + 1] = 0
  <2>0. PICK j, k : j = i + 1 /\ k = j + 1
    OBVIOUS
  <2>1. i \in 0..l /\ j \in 0..l /\ j \in 0..n - 1
    BY ONLY <1>4, <2>0, i \in 0..l - 1
  <2>2. Z[i] = z[j] /\ C[i] = c[j] /\ R[i] = r[j]
    BY <1>2, <2>0, <2>1
  <2>3. Z[j] = z[k] /\ C[j] = c[k] /\ R[j] = r[k]
    BY <1>2, <2>0, <2>1
  <2>4. IF r[j] < Rows(z[j]) THEN z[k] = z[j] /\ c[k] = c[j] /\ r[k] = r[j] + 1 ELSE r[k] = 0
    BY <1>3, <2>0, <2>1
  <2>. QED BY ONLY <2>0, <2>2, <2>3, <2>4
<1>8. IsSize(Z[l]) => R[l] = Rows(Z[l])
  <2>1. l \in 0..l
    BY <1>4
  <2>2. Z[l] = z[n] /\ R[l] = r[n]
    BY <1>2, <1>4, <2>1
  <2>. QED BY ONLY <1>3, <2>2
<1>9. FedBy(u, Z, C, R, link)
  BY <1>5, <1>6, <1>7, <1>8 DEF FedBy, l
<1>. QED BY <1>2, <1>9 DEF u, l

-----------------------------------------------------------------------------
(* Queues: what is at the front stays there, what is appended comes last.     *)

LEMMA TailJoined ==
  ASSUME NEW S, NEW q \in Seq(S), q # <<>>, NEW w \in Seq(S)
  PROVE  q \o w # <<>> /\ Head(q \o w) = Head(q) /\ Tail(q \o w) = Tail(q) \o w
<1> DEFINE n == Len(q)
           k == Len(w)
           u == q \o w
           a == Tail(q)
           b == Tail(u)
           d == a \o w
<1>1. n \in Nat /\ n > 0 /\ k \in Nat /\ u \in Seq(S) /\ Len(u) = n + k
      /\ \A i \in 1..n + k : u[i] = IF i <= n THEN q[i] ELSE w[i - n]
  BY ConcatProperties, EmptySeq, LenProperties
<1>2. u # <<>>
  BY <1>1, EmptySeq
<1>3. a \in Seq(S) /\ Len(a) = n - 1 /\ \A i \in 1..n - 1 : a[i] = q[i + 1]
  BY HeadTailProperties
<1>4. b \in Seq(S) /\ Len(b) = n + k - 1 /\ \A i \in 1..n + k - 1 : b[i] = u[i + 1]
  BY <1>1, <1>2, HeadTailProperties
<1>5. d \in Seq(S) /\ Len(d) = n - 1 + k
      /\ \A i \in 1..n - 1 + k : d[i] = IF i <= n - 1 THEN a[i] ELSE w[i - (n - 1)]
  BY <1>3, ConcatProperties
<1>6. Head(u) = Head(q)
  <2>1. u[1] = q[1]
    BY <1>1
  <2>. QED BY <2>1
<1> HIDE DEF n, k, u, a, b, d
<1>7. ASSUME NEW i \in 1..n + k - 1 PROVE b[i] = d[i]
  <2>0. PICK j : j = i + 1
    OBVIOUS
  <2>1. j \in 1..n + k /\ i \in 1..n - 1 + k /\ (j <= n <=> i <= n - 1) /\ j - n = i - (n - 1)
        /\ (i <= n - 1 => i \in 1..n - 1)
    BY ONLY <1>1, <2>0, i \in 1..n + k - 1
  <2>2. b[i] = u[j] /\ u[j] = IF j <= n THEN q[j] ELSE w[j - n]
    BY <1>1, <1>4, <2>0, <2>1
  <2>3. d[i] = IF i <= n - 1 THEN q[j] ELSE w[i - (n - 1)]
    BY <1>3, <1>5, <2>0, <2>1
  <2>. QED BY ONLY <2>1, <2>2, <2>3
<1>8. Len(b) = Len(d) /\ Len(b) = n + k - 1
  BY <1>1, <1>4, <1>5
<1>9. b = d
  BY ONLY <1>4, <1>5, <1>7, <1>8, SeqEqual
<1>. QED BY <1>2, <1>6, <1>9 DEF u, b, d, a

\* What was written is one piece nearer.
LEMMA PieceMoved ==
  ASSUME NEW S, NEW q \in Seq(S), NEW w \in Seq(S), w # <<>>
  PROVE  Append(q, Head(w)) \in Seq(S) /\ Append(q, Head(w)) \o Tail(w) = q \o w
<1> DEFINE h == Head(w)
           a == Tail(w)
<1>1. h \in S /\ a \in Seq(S)
  BY HeadTailProperties
<1>2. w = <<h>> \o a
  OBVIOUS
<1> HIDE DEF h, a
<1>3. Append(q, h) = q \o <<h>> /\ Append(q, h) \in Seq(S) /\ <<h>> \in Seq(S)
  BY <1>1, AppendIsConcat, AppendProperties
<1>4. (q \o <<h>>) \o a = q \o (<<h>> \o a)
  BY ONLY <1>1, <1>3, q \in Seq(S), ConcatAssociative
<1>. QED BY <1>2, <1>3, <1>4 DEF h, a
-----------------------------------------------------------------------------
(* What the observer will make of what is on its way.                        *)

Pending == down \o o.rest
Feed == IF v.pc = "size" /\ Pending # <<>> THEN Tail(Pending) ELSE Pending
\* The size the first header is compared with.
Opening == IF v.pc = "size" THEN <<Head(Pending).rows, Head(Pending).cols>> ELSE v.ses

\* It has read r[0] rows of the frame before what is on its way.
ReaderAt(z, c, r) ==
  /\ IF v.pc = "cells" THEN v.known /\ v.row \in 1..Rows(v.ses) /\ r[0] = v.row - 1
     ELSE r[0] = Rows(z[0])
  /\ v.known => /\ v.pc # "size" /\ z[0] = v.ses /\ DOMAIN v.local = 1..Rows(v.ses)
                /\ \A j \in 1..r[0] : v.local[j] = RowOf(c[0], j)
  /\ ~v.known /\ Len(Feed) > 0 => z[1] # Opening

\* The last frame on its way, or else the one it has read, is of what is shown.
Latest(z, c) ==
  o.link = "open" /\ ~o.view /\ ~o.behind => z[Len(Feed)] = o.size /\ c[Len(Feed)] = Shown(o)

Follows == \E z, c, r : FedBy(Feed, z, c, r, o.link) /\ ReaderAt(z, c, r) /\ Latest(z, c)

Linked == /\ o.link = "new" => v.pc = "size" /\ Pending = <<>>
          /\ o.link = "open" /\ ~v.known => Len(Feed) > 0

\* What the terminal shows: row r, column c of the part `shown', and blanks around it.
Beyond(shown, r, c) == c > Cols(shown) \/ r > Rows(shown) + 1
Cell(local, shown, r) == IF r > Rows(shown) THEN Bar ELSE local[r]
Shape(term) ==
  /\ {"size", "cells"} \subseteq DOMAIN term
  /\ term.size \in ViewSizes /\ DOMAIN term.cells = 1..Rows(term.size)
  /\ \A r \in 1..Rows(term.size) : DOMAIN term.cells[r] = 1..Cols(term.size)
Picture ==
  ~v.winch =>
    /\ v.our = t.size
    /\ v.known => \A r \in 1..Rows(t.size), c \in 1..Cols(t.size) :
         IF Beyond(Clip(v.ses, t.size), r, c) THEN t.cells[r][c] = Blank
         ELSE v.pc # "cells" => t.cells[r][c] = Cell(v.local, Clip(v.ses, t.size), r)

Types == /\ OwnerRec(o) /\ ViewerFields \subseteq DOMAIN v /\ down \in Seq(Piece) /\ Shape(t)
         /\ ~v.lost
ShowInv == Types /\ (v.pc # "end" => Linked /\ Picture /\ Follows)

-----------------------------------------------------------------------------
(* The owner's steps: what is on its way stays as it is, or a frame follows. *)

Quiet(p, q) ==
  /\ q.rest = p.rest
  /\ q.link = "open" /\ ~q.view /\ ~q.behind =>
       ~p.view /\ ~p.behind /\ q.size = p.size /\ Shown(q) = Shown(p)
Pushes(q) == q.link = "open" /\ q.rest = Frame(q)
Moves(p, q) == OwnerRec(q) /\ q.link = p.link /\ (Quiet(p, q) \/ Pushes(q))

LEMMA PushedMoves ==
  ASSUME Sized, NEW p, OwnerRec(p), NEW x, Quiet(x, p) \/ (p.rest = x.rest /\ (p.link = "open" => ~p.view)),
         p.link = x.link
  PROVE  Moves(x, Pushed(p))
<1>1. CASE p.link = "open" /\ ~p.view
  <2> DEFINE f == Frame(p)
             q == [p EXCEPT !.rest = f]
  <2>1. Pushed(p) = q
    BY <1>1 DEF Pushed
  <2>2. f \in Seq(Piece)
    BY FrameIs
  <2> HIDE DEF f
  <2>3. OwnerRec(q) /\ q.link = "open" /\ q.rest = f
    BY <1>1, <2>2 DEF OwnerRec, OwnerFields
  <2>4. q.cur = p.cur /\ q.wins = p.wins /\ q.size = p.size
    BY DEF OwnerRec, OwnerFields
  <2> HIDE DEF q
  <2>5. Frame(q) = f
    BY <2>4 DEF Frame, Content, f
  <2>. QED BY <1>1, <2>1, <2>3, <2>5 DEF Moves, Pushes
<1>2. CASE ~(p.link = "open" /\ ~p.view)
  <2>1. Pushed(p) = p
    BY <1>2 DEF Pushed
  <2>2. Quiet(x, p)
    BY <1>2 DEF Quiet
  <2>. QED BY <2>1, <2>2 DEF Moves
<1>. QED BY <1>1, <1>2

LEMMA SwitchedMoves ==
  ASSUME Sized, NEW p, OwnerRec(p), NEW x, Quiet(x, p), p.link = x.link, NEW i
  PROVE  Moves(x, SwitchedTo(p, i))
<1>1. CASE i \in Slot
  <2> DEFINE q == [p EXCEPT !.cur = i, !.view = FALSE]
  <2>1. OwnerRec(q) /\ q.link = x.link /\ q.rest = x.rest /\ ~q.view
    BY <1>1 DEF OwnerRec, OwnerFields, Quiet
  <2>2. SwitchedTo(p, i) = Pushed(q)
    BY <1>1 DEF SwitchedTo
  <2> HIDE DEF q
  <2>. QED BY <2>1, <2>2, PushedMoves
<1>2. CASE i \notin Slot
  BY <1>2 DEF SwitchedTo, Moves
<1>. QED BY <1>1, <1>2

LEMMA DoneMoves ==
  ASSUME Sized, NEW p, OwnerRec(p), NEW x, Quiet(x, p), p.link = x.link,
         NEW ev, NEW other \in Slot, NEW history \in BOOLEAN
  PROVE  Moves(x, Done(p, ev, other, history))
<1>1. CASE ev = "next"
  BY <1>1, SwitchedMoves DEF Done
<1>2. CASE ev = "prev"
  BY <1>2, SwitchedMoves DEF Done
<1>3. CASE ev \in {"new", "close"}
  BY <1>3, SwitchedMoves DEF Done
<1>4. CASE ev = "scroll"
  <2> DEFINE q == [p EXCEPT !.view = @ \/ history]
  <2>1. Done(p, ev, other, history) = q
    BY <1>4 DEF Done
  <2>2. OwnerRec(q) /\ q.link = x.link /\ Quiet(x, q)
    BY DEF OwnerRec, OwnerFields, Quiet, Shown
  <2>. QED BY <2>1, <2>2 DEF Moves
<1>5. CASE ev = "redraw"
  BY <1>5, PushedMoves DEF Done
<1>6. CASE ev \notin {"next", "prev", "new", "close", "scroll", "redraw"}
  BY <1>6 DEF Done, Moves
<1>. QED BY <1>1, <1>2, <1>3, <1>4, <1>5, <1>6

LEMMA ObeyedMoves ==
  ASSUME Sized, OwnerRec(o), NEW p, Obeyed(p)
  PROVE  Moves(o, o')
<1> DEFINE at == [o EXCEPT !.packet = <<>>]
<1>1. OwnerRec(at) /\ at.link = o.link /\ Quiet(o, at)
  BY DEF OwnerRec, OwnerFields, Quiet, Shown
<1>2. Moves(o, at)
  BY <1>1 DEF Moves
<1>3. Obeyed(p) =>
        \/ o' = at
        \/ o' = [at EXCEPT !.wins[o.cur] = @ + 1, !.behind = TRUE]
        \/ o' = SwitchedTo(at, Index(p[2]))
        \/ \E other \in Slot, history \in BOOLEAN : o' = Done(at, p[2], other, history)
  BY DEF Obeyed
<1>4. ASSUME o' = [at EXCEPT !.wins[o.cur] = @ + 1, !.behind = TRUE]
      PROVE  Moves(o, o')
  <2>1. OwnerRec(o') /\ o'.link = o.link /\ o'.behind /\ o'.rest = o.rest
    BY <1>1, <1>4 DEF OwnerRec, OwnerFields
  <2>. QED BY <2>1 DEF Moves, Quiet
<1> HIDE DEF at
<1>. QED BY <1>1, <1>2, <1>3, <1>4, SwitchedMoves, DoneMoves

LEMMA QueuesTyped ==
  ASSUME Types
  PROVE  /\ down \in Seq(Piece) /\ o.rest \in Seq(Piece) /\ Pending \in Seq(Piece)
         /\ Feed \in Seq(Piece)
<1>1. down \in Seq(Piece) /\ o.rest \in Seq(Piece)
  BY DEF Types, OwnerRec
<1>2. Pending \in Seq(Piece)
  BY <1>1, ConcatProperties DEF Pending
<1>3. Pending # <<>> => Tail(Pending) \in Seq(Piece)
  BY <1>2, HeadTailProperties
<1>. QED BY <1>1, <1>2, <1>3 DEF Feed

LEMMA PendingSame ==
  ASSUME ShowInv, v' = v, t' = t, OwnerRec(o'), down' \in Seq(Piece), Pending' = Pending,
         o'.link = o.link \/ o'.link = "closed",
         o'.link = "open" /\ ~o'.view /\ ~o'.behind =>
           ~o.view /\ ~o.behind /\ o'.size = o.size /\ Shown(o') = Shown(o)
  PROVE  ShowInv'
<1>1. Types'
  BY DEF ShowInv, Types, Shape
<1>2. Feed' = Feed /\ Opening' = Opening
  BY DEF Feed, Opening
<1>3. ASSUME v.pc # "end" PROVE (Linked /\ Picture /\ Follows)'
  <2>1. Linked /\ Picture /\ Follows
    BY <1>3 DEF ShowInv
  <2>2. Linked' /\ Picture'
    BY <1>2, <2>1 DEF Linked, Picture
  <2>3. PICK z, c, r : FedBy(Feed, z, c, r, o.link) /\ ReaderAt(z, c, r) /\ Latest(z, c)
    BY <2>1 DEF Follows
  <2>4. FedBy(Feed', z, c, r, o'.link)
    BY <1>2, <2>3 DEF FedBy
  <2>5. ReaderAt(z, c, r)'
    BY <1>2, <2>3 DEF ReaderAt
  <2>6. Latest(z, c)'
    BY <1>2, <2>3 DEF Latest
  <2>. QED BY <2>2, <2>4, <2>5, <2>6 DEF Follows
<1>. QED BY <1>1, <1>3 DEF ShowInv

LEMMA FeedMore ==
  ASSUME Sized, ShowInv, v' = v, t' = t, OwnerRec(o'), down' \in Seq(Piece), v.pc # "end",
         o.link = "open", o'.link = "open",
         Pending' = Pending \o Frame(o')
  PROVE  ShowInv'
<1> DEFINE f == Frame(o')
<1>1. Types'
  BY DEF ShowInv, Types, Shape
<1>2. Linked /\ Picture /\ Follows /\ Types
  BY DEF ShowInv
<1>3. Pending \in Seq(Piece) /\ Feed \in Seq(Piece) /\ f \in Seq(Piece) /\ Len(f) > 0
  <2>1. Rows(o'.size) \in Nat
    BY SizeIs DEF OwnerRec, Sized
  <2>. QED BY <1>2, <2>1, QueuesTyped, FrameIs
<1>4. v.pc = "size" => Pending # <<>>
  <2> SUFFICES ASSUME v.pc = "size", Pending = <<>> PROVE FALSE
    OBVIOUS
  <2>1. ~v.known
    BY <1>2 DEF ReaderAt, Follows
  <2>2. Len(Feed) > 0 /\ Feed = <<>>
    BY <1>2, <2>1 DEF Linked, Feed
  <2>. QED BY <2>2, EmptySeq
<1>5. Feed' = Feed \o f /\ Opening' = Opening
  <2>0. Pending' = Pending \o f
    OBVIOUS
  <2> HIDE DEF f
  <2>1. CASE v.pc = "size"
    <3>1. Pending' # <<>> /\ Tail(Pending') = Tail(Pending) \o f /\ Head(Pending') = Head(Pending)
      BY <1>3, <1>4, <2>0, <2>1, TailJoined
    <3>. QED BY <1>4, <2>1, <3>1 DEF Feed, Opening
  <2>2. CASE v.pc # "size"
    BY <2>0, <2>2 DEF Feed, Opening
  <2>. QED BY <2>1, <2>2
<1>6. PICK z, c, r : FedBy(Feed, z, c, r, "open") /\ ReaderAt(z, c, r)
  BY <1>2 DEF Follows
<1>7. PICK zz, cc, rr :
        /\ FedBy(Feed \o f, zz, cc, rr, "open")
        /\ \A i \in 0..Len(Feed) : zz[i] = z[i] /\ cc[i] = c[i] /\ rr[i] = r[i]
        /\ zz[Len(Feed) + 1] = o'.size
        /\ zz[Len(Feed \o f)] = o'.size /\ cc[Len(Feed \o f)] = Shown(o')
  BY <1>3, <1>6, FedMore
<1> HIDE DEF f
<1>8. Len(Feed) \in Nat /\ Len(Feed') > 0
  BY <1>3, <1>5
<1>9. Linked' /\ Picture'
  BY <1>2, <1>8 DEF Linked, Picture
<1>10. ReaderAt(zz, cc, rr)'
  <2>1. zz[0] = z[0] /\ cc[0] = c[0] /\ rr[0] = r[0]
    BY <1>7, <1>8
  <2>2. ~v.known => zz[1] # Opening
    <3> SUFFICES ASSUME ~v.known PROVE zz[1] # Opening
      OBVIOUS
    <3>1. Len(Feed) > 0
      BY <1>2 DEF Linked
    <3>2. zz[1] = z[1]
      BY <1>7, <1>8, <3>1
    <3>. QED BY <1>6, <3>1, <3>2 DEF ReaderAt
  <2>. QED BY <1>5, <1>6, <2>1, <2>2 DEF ReaderAt
<1>11. Latest(zz, cc)'
  BY <1>5, <1>7 DEF Latest
<1>12. Follows'
  BY <1>5, <1>7, <1>10, <1>11 DEF Follows
<1>. QED BY <1>1, <1>9, <1>12 DEF ShowInv

LEMMA OwnerMoves ==
  ASSUME Sized, ShowInv, v' = v, t' = t, down' = down, o.rest = <<>>, Moves(o, o')
  PROVE  ShowInv'
<1>1. Types /\ down \in Seq(Piece)
  BY QueuesTyped DEF ShowInv
<1>2. CASE v.pc = "end"
  BY <1>1, <1>2 DEF ShowInv, Types, Shape, Moves
<1>3. CASE v.pc # "end" /\ Quiet(o, o')
  <2>1. Pending' = Pending
    BY <1>3 DEF Pending, Quiet
  <2>. QED BY <1>1, <1>3, <2>1, PendingSame DEF Moves, Quiet
<1>4. CASE v.pc # "end" /\ Pushes(o')
  <2>1. Pending = down
    BY <1>1 DEF Pending
  <2>2. Pending' = Pending \o Frame(o')
    BY <1>4, <2>1 DEF Pending, Pushes
  <2>. QED BY <1>1, <1>4, <2>2, FeedMore DEF Moves, Pushes
<1>. QED BY <1>2, <1>3, <1>4 DEF Moves

\* A first frame.
LEMMA FedFirst ==
  ASSUME Sized, NEW p, OwnerRec(p)
  PROVE  \E zz, cc, rr :
           /\ FedBy(Frame(p), zz, cc, rr, "open")
           /\ zz[0] = p.size /\ rr[0] = Rows(p.size) /\ zz[1] = p.size
           /\ zz[Len(Frame(p))] = p.size /\ cc[Len(Frame(p))] = Shown(p)
<1>0. IsSize(p.size)
  BY DEF Sized, OwnerRec
<1>1. PICK e, z, c, r : e = <<>> /\ z = [i \in 0..0 |-> p.size] /\ c = [i \in 0..0 |-> <<>>]
                        /\ r = [i \in 0..0 |-> Rows(p.size)]
  OBVIOUS
<1>2. FedBy(e, z, c, r, "open")
  BY <1>0, <1>1, FedNone
<1>3. e \in Seq(Piece) /\ Len(e) = 0 /\ z[0] = p.size /\ r[0] = Rows(p.size)
  BY <1>1
<1>4. PICK zz, cc, rr :
        /\ FedBy(e \o Frame(p), zz, cc, rr, "open")
        /\ \A i \in 0..Len(e) : zz[i] = z[i] /\ cc[i] = c[i] /\ rr[i] = r[i]
        /\ zz[Len(e) + 1] = p.size
        /\ zz[Len(e \o Frame(p))] = p.size /\ cc[Len(e \o Frame(p))] = Shown(p)
  <2>1. /\ Sized /\ OwnerRec(p) /\ e \in Seq(Piece) /\ FedBy(e, z, c, r, "open")
    BY <1>2, <1>3
  <2>. QED BY ONLY <2>1, FedMore
<1>5. PICK u : u = e \o Frame(p)
  OBVIOUS
<1>6. FedBy(u, zz, cc, rr, "open") /\ zz[Len(u)] = p.size /\ cc[Len(u)] = Shown(p)
  BY ONLY <1>4, <1>5
<1>7. u = Frame(p)
  BY <1>1, <1>5, FrameIs
<1>8. 0 \in 0..Len(e) /\ Len(e) + 1 = 1
  BY <1>3
<1>9. zz[0] = p.size /\ rr[0] = Rows(p.size) /\ zz[1] = p.size
  BY ONLY <1>3, <1>4, <1>8
<1>. QED BY ONLY <1>6, <1>7, <1>9

LEMMA AcceptShows ==
  ASSUME Sized, ShowInv, Accept
  PROVE  ShowInv'
<1> DEFINE p == [o EXCEPT !.link = "open"]
           h == Header(Rows(o.size) + 1, Cols(o.size))
           s == <<h>> \o Frame(p)
           q == [p EXCEPT !.rest = s]
<1>1. o.link = "new" /\ o.rest = <<>> /\ o' = q /\ v' = v /\ t' = t /\ down' = down
  BY DEF Accept, Idle, ownerKeeps
<1>2. OwnerRec(o) /\ Types
  BY DEF ShowInv, Types
<1>3. OwnerRec(p) /\ p.size = o.size /\ IsSize(o.size) /\ IsSize(p.size)
  BY <1>2 DEF OwnerRec, OwnerFields, Sized
<1>4. Frame(p) \in Seq(Piece)
  BY <1>3, FrameIs
<1>5. <<h>> \in Seq(Piece) /\ s \in Seq(Piece)
  <2>1. PICK x, y : x = Rows(o.size) + 1 /\ y = Cols(o.size)
    OBVIOUS
  <2>2. x \in Int /\ y \in Int
    BY <1>3, <2>1, SizeIs
  <2>3. Header(x, y) \in Piece
    BY ONLY <2>2 DEF Piece
  <2>4. <<h>> \in Seq(Piece)
    BY ONLY <2>1, <2>3
  <2>. QED BY ONLY <1>4, <2>4, ConcatProperties
<1> HIDE DEF s
<1>6. OwnerRec(q) /\ q.link = "open" /\ q.rest = s
  BY <1>3, <1>5 DEF OwnerRec, OwnerFields
<1>7. Shown(q) = Shown(p) /\ q.size = o.size
  BY <1>3 DEF OwnerRec, OwnerFields, Shown
<1> HIDE DEF p, q, h
<1>8. Types'
  BY <1>1, <1>2, <1>6 DEF Types, Shape
<1>9. ASSUME v.pc # "end" PROVE (Linked /\ Picture /\ Follows)'
  <2>1. Linked /\ Picture /\ Follows
    BY <1>9 DEF ShowInv
  <2>2. v.pc = "size" /\ Pending = <<>> /\ ~v.known
    BY <1>1, <2>1 DEF Linked, Follows, ReaderAt
  <2>3. down = <<>>
    <3>1. down \in Seq(Piece)
      BY <1>2 DEF Types
    <3>2. Len(down \o <<>>) = Len(down)
      BY <3>1
    <3>3. Len(down) = 0
      BY <1>1, <2>2, <3>2 DEF Pending
    <3>. QED BY <3>1, <3>3, EmptySeq
  <2>4. Pending' = s
    BY <1>1, <1>5, <1>6, <2>3 DEF Pending
  <2>5. s # <<>> /\ Head(s) = h /\ Tail(s) = Frame(p)
    BY <1>4 DEF s
  <2>6. Feed' = Frame(p) /\ Opening' = <<h.rows, h.cols>>
    BY <1>1, <2>2, <2>4, <2>5 DEF Feed, Opening
  <2>9. PICK zz, cc, rr :
          /\ FedBy(Frame(p), zz, cc, rr, "open")
          /\ zz[0] = p.size /\ rr[0] = Rows(p.size) /\ zz[1] = p.size
          /\ zz[Len(Frame(p))] = p.size /\ cc[Len(Frame(p))] = Shown(p)
    BY <1>3, FedFirst
  <2>10. FedBy(Frame(p), zz, cc, rr, "open") /\ zz[0] = o.size /\ rr[0] = Rows(o.size)
         /\ zz[1] = o.size /\ zz[Len(Frame(p))] = o.size /\ cc[Len(Frame(p))] = Shown(p)
    BY <1>3, <2>9
  <2>11. ReaderAt(zz, cc, rr)'
    <3>1. o.size # <<Rows(o.size) + 1, Cols(o.size)>>
      <4>1. Rows(o.size) \in Nat
        BY <1>3, SizeIs
      <4>2. Rows(o.size) # Rows(<<Rows(o.size) + 1, Cols(o.size)>>)
        BY <4>1 DEF Rows
      <4>. QED BY <4>2
    <3>2. h.rows = Rows(o.size) + 1 /\ h.cols = Cols(o.size)
      BY DEF h, Header
    <3>. QED BY <1>1, <2>2, <2>6, <2>10, <3>1, <3>2 DEF ReaderAt
  <2>12. Latest(zz, cc)'
    BY <1>1, <1>7, <2>6, <2>10 DEF Latest
  <2>13. Follows'
    BY <1>1, <1>6, <2>6, <2>10, <2>11, <2>12 DEF Follows
  <2>14. Len(Frame(p)) > 0
    <3>1. Rows(o.size) \in Nat
      BY <1>3, SizeIs
    <3>. QED BY <1>3, <3>1, FrameIs
  <2>15. Linked' /\ Picture'
    BY <1>1, <1>6, <2>1, <2>6, <2>14 DEF Linked, Picture
  <2>. QED BY <2>13, <2>15
<1>. QED BY <1>1, <1>8, <1>9 DEF ShowInv

LEMMA SendShows ==
  ASSUME ShowInv, Send
  PROVE  ShowInv'
<1>1. Types /\ o.rest \in Seq(Piece) /\ down \in Seq(Piece) /\ o.rest # <<>> /\ v' = v /\ t' = t
  BY QueuesTyped DEF ShowInv, Send, ownerKeeps
<1>2. CASE v.pc = "end"
  <2>1. OwnerRec(o') /\ down' = down
    <3>1. OwnerRec(o) /\ o' = [o EXCEPT !.rest = <<>>, !.link = "closed"] /\ down' = down
      BY <1>1, <1>2 DEF Types, Send
    <3>2. <<>> \in Seq(Piece)
      BY EmptySeq
    <3>. QED BY <3>1, <3>2 DEF OwnerRec, OwnerFields
  <2>. QED BY <1>1, <1>2, <2>1 DEF ShowInv, Types, Shape
<1>3. CASE v.pc # "end"
  <2> DEFINE w == Tail(o.rest)
  <2>1. down' = Append(down, Head(o.rest)) /\ o' = [o EXCEPT !.rest = w]
    BY <1>3 DEF Send
  <2>2. w \in Seq(Piece)
    BY <1>1, HeadTailProperties
  <2>3. down' \in Seq(Piece) /\ down' \o w = Pending
    BY <1>1, <2>1, PieceMoved DEF Pending
  <2> HIDE DEF w
  <2>4. OwnerRec(o') /\ o'.rest = w /\ o'.link = o.link /\ o'.view = o.view /\ o'.behind = o.behind
        /\ o'.size = o.size /\ Shown(o') = Shown(o)
    BY <1>1, <2>1, <2>2 DEF Types, OwnerRec, OwnerFields, Shown
  <2>5. Pending' = Pending
    BY <2>3, <2>4 DEF Pending
  <2>. QED BY <1>1, <2>3, <2>4, <2>5, PendingSame
<1>. QED BY <1>2, <1>3

LEMMA OutputShows ==
  ASSUME Sized, ShowInv, Output
  PROVE  ShowInv'
<1>1. v' = v /\ t' = t /\ down' = down /\ o.rest = <<>> /\ OwnerRec(o)
  BY DEF Output, ownerKeeps, Idle, ShowInv, Types
<1>2. PICK i \in Slot : LET p == [o EXCEPT !.wins[i] = @ + 1] IN o' = IF i = o.cur THEN Pushed(p) ELSE p
  BY DEF Output
<1> DEFINE p == [o EXCEPT !.wins[i] = @ + 1]
<1>3. OwnerRec(p) /\ p.rest = o.rest /\ p.link = o.link /\ p.view = o.view /\ p.behind = o.behind
      /\ p.size = o.size /\ (i # o.cur => Shown(p) = Shown(o))
  <2>1. OwnerRec(p)
    <3> DEFINE w == [o.wins EXCEPT ![i] = @ + 1]
    <3>1. w \in [Slot -> Nat]
      BY <1>1 DEF OwnerRec
    <3>2. p = [o EXCEPT !.wins = w]
      BY <1>1 DEF OwnerRec, OwnerFields
    <3> HIDE DEF w, p
    <3>. QED BY <1>1, <3>1, <3>2 DEF OwnerRec, OwnerFields
  <2>2. p.rest = o.rest /\ p.link = o.link /\ p.view = o.view /\ p.behind = o.behind
        /\ p.size = o.size /\ p.cur = o.cur
    BY <1>1 DEF OwnerRec, OwnerFields
  <2>3. i # o.cur => p.wins[o.cur] = o.wins[o.cur]
    BY <1>1 DEF OwnerRec, OwnerFields
  <2>. QED BY <2>1, <2>2, <2>3 DEF Shown
<1>4. o' = IF i = o.cur THEN Pushed(p) ELSE p
  BY <1>2
<1> HIDE DEF p
<1>5. CASE i = o.cur
  <2>1. Moves(o, Pushed(p))
    <3>1. Quiet(o, p) \/ (p.rest = o.rest /\ (p.link = "open" => ~p.view))
      BY <1>3 DEF Quiet
    <3>. QED BY <1>3, <3>1, PushedMoves
  <2>. QED BY <1>1, <1>4, <1>5, <2>1, OwnerMoves
<1>6. CASE i # o.cur
  <2>1. Moves(o, p)
    BY <1>3, <1>6 DEF Moves, Quiet
  <2>. QED BY <1>1, <1>4, <1>6, <2>1, OwnerMoves
<1>. QED BY <1>5, <1>6

LEMMA ActsShows ==
  ASSUME Sized, ShowInv, Acts
  PROVE  ShowInv'
<1>1. v' = v /\ t' = t /\ down' = down /\ o.rest = <<>> /\ OwnerRec(o)
  BY DEF Acts, ownerKeeps, Idle, ShowInv, Types
<1>2. \/ \E i \in Slot : o' = SwitchedTo(o, i)
      \/ ~o.view /\ o' = [o EXCEPT !.view = TRUE]
      \/ o.view /\ o' = Pushed([o EXCEPT !.view = FALSE])
      \/ \E size \in Sizes \ {o.size} : o' = Pushed([o EXCEPT !.size = size])
  BY DEF Acts
<1>3. ASSUME NEW i \in Slot, o' = SwitchedTo(o, i) PROVE Moves(o, o')
  BY <1>1, <1>3, SwitchedMoves DEF Quiet
<1>4. ASSUME o' = [o EXCEPT !.view = TRUE] PROVE Moves(o, o')
  BY <1>1, <1>4 DEF Moves, Quiet, OwnerRec, OwnerFields
<1>5. ASSUME o' = Pushed([o EXCEPT !.view = FALSE]) PROVE Moves(o, o')
  <2> DEFINE p == [o EXCEPT !.view = FALSE]
  <2>1. OwnerRec(p) /\ p.rest = o.rest /\ p.link = o.link /\ ~p.view
    BY <1>1 DEF OwnerRec, OwnerFields
  <2>2. o' = Pushed(p)
    BY <1>5
  <2> HIDE DEF p
  <2>. QED BY <2>1, <2>2, PushedMoves
<1>6. ASSUME NEW size \in Sizes, o' = Pushed([o EXCEPT !.size = size]) PROVE Moves(o, o')
  <2> DEFINE p == [o EXCEPT !.size = size]
  <2>1. OwnerRec(p) /\ p.rest = o.rest /\ p.link = o.link /\ p.view = o.view
    BY <1>1 DEF OwnerRec, OwnerFields
  <2>2. o' = Pushed(p)
    BY <1>6
  <2> HIDE DEF p
  <2>3. Quiet(o, p) \/ (p.rest = o.rest /\ (p.link = "open" => ~p.view))
    BY <2>1 DEF Quiet
  <2>. QED BY <2>1, <2>2, <2>3, PushedMoves
<1>7. Moves(o, o')
  BY <1>2, <1>3, <1>4, <1>5, <1>6
<1>. QED BY <1>1, <1>7, OwnerMoves

LEMMA DrainedShows ==
  ASSUME Sized, ShowInv, Drained
  PROVE  ShowInv'
<1> DEFINE p == [o EXCEPT !.behind = FALSE]
<1>1. v' = v /\ t' = t /\ down' = down /\ o.rest = <<>> /\ OwnerRec(o) /\ o' = Pushed(p)
  BY DEF Drained, ownerKeeps, Idle, ShowInv, Types
<1>2. OwnerRec(p) /\ p.rest = o.rest /\ p.link = o.link /\ p.view = o.view
  BY <1>1 DEF OwnerRec, OwnerFields
<1> HIDE DEF p
<1>3. Quiet(o, p) \/ (p.rest = o.rest /\ (p.link = "open" => ~p.view))
  BY <1>2 DEF Quiet
<1>4. Moves(o, o')
  BY <1>1, <1>2, <1>3, PushedMoves
<1>. QED BY <1>1, <1>4, OwnerMoves

LEMMA ReadLinkShows ==
  ASSUME Sized, ShowInv, ReadLink
  PROVE  ShowInv'
<1>1. v' = v /\ t' = t /\ down' = down /\ o.rest = <<>> /\ OwnerRec(o)
  BY DEF ReadLink, ownerKeeps, ShowInv, Types
<1>2. \E p : Obeyed(p) \/ o' = [o EXCEPT !.packet = p]
  BY DEF ReadLink
<1>3. ASSUME NEW p, o' = [o EXCEPT !.packet = p] PROVE Moves(o, o')
  BY <1>1, <1>3 DEF Moves, Quiet, OwnerRec, OwnerFields, Shown
<1>4. Moves(o, o')
  BY <1>1, <1>2, <1>3, ObeyedMoves
<1>. QED BY <1>1, <1>4, OwnerMoves

\* The link is closed: what is on its way stays.
LEMMA Closed ==
  ASSUME ShowInv, v' = v, t' = t, down' = down, o.rest = <<>>,
         NEW gone, o' = [o EXCEPT !.gone = gone, !.link = "closed"]
  PROVE  ShowInv'
<1>1. Types /\ OwnerRec(o) /\ down \in Seq(Piece)
  BY DEF ShowInv, Types
<1>2. OwnerRec(o') /\ o'.rest = o.rest /\ o'.link = "closed"
  BY <1>1 DEF OwnerRec, OwnerFields
<1>3. Pending' = Pending
  BY <1>2 DEF Pending
<1>. QED BY <1>1, <1>2, <1>3, PendingSame

LEMMA ReadEndShows ==
  ASSUME Sized, ShowInv, ReadEnd
  PROVE  ShowInv'
<1>1. v' = v /\ t' = t /\ down' = down /\ o.rest = <<>> /\ OwnerRec(o)
  BY DEF ReadEnd, ownerKeeps, ShowInv, Types
<1>2. Obeyed(o.packet) \/ o' = [o EXCEPT !.link = "closed"]
  BY DEF ReadEnd
<1>3. CASE Obeyed(o.packet)
  BY <1>1, <1>3, ObeyedMoves, OwnerMoves
<1>4. CASE o' = [o EXCEPT !.link = "closed"]
  <2>1. o' = [o EXCEPT !.gone = o.gone, !.link = "closed"]
    BY <1>1, <1>4 DEF OwnerRec, OwnerFields
  <2>. QED BY <1>1, <2>1, Closed
<1>. QED BY <1>2, <1>3, <1>4

LEMMA DropShows ==
  ASSUME ShowInv, Drop
  PROVE  ShowInv'
BY Closed DEF Drop, ownerKeeps, Idle

LEMMA HangUpShows ==
  ASSUME Sized, ShowInv, HangUp
  PROVE  ShowInv'
<1>1. v' = v /\ t' = t /\ down' = down /\ OwnerRec(o) /\ o' = [o EXCEPT !.hup = TRUE] /\ Types
  BY DEF HangUp, ownerKeeps, ShowInv, Types
<1>2. OwnerRec(o') /\ o'.rest = o.rest /\ o'.link = o.link /\ o'.view = o.view
      /\ o'.behind = o.behind /\ o'.size = o.size /\ Shown(o') = Shown(o)
  BY <1>1 DEF OwnerRec, OwnerFields, Shown
<1>3. Pending' = Pending /\ down' \in Seq(Piece)
  BY <1>1, <1>2 DEF Pending, Types
<1>. QED BY <1>1, <1>2, <1>3, PendingSame

LEMMA DetachShows ==
  ASSUME ShowInv, Detach
  PROVE  ShowInv'
<1> DEFINE h == HeadPiece(Farewell)
           b == <<h>>
<1>1. v' = v /\ t' = t /\ o.rest = <<>> /\ o' = [o EXCEPT !.gone = TRUE, !.link = "closed"] /\ Types
      /\ OwnerRec(o) /\ down \in Seq(Piece)
  BY DEF Detach, ownerKeeps, Idle, ShowInv, Types
<1>2. CASE o.link = "open" /\ v.pc # "end" /\ Len(down) < DownRoom
  <2>0. h = Header(-1, 0)
    BY DEF HeadPiece, Farewell, Rows, Cols
  <2>1. down' = Append(down, h)
    <3> HIDE DEF h
    <3>. QED BY <1>2, <2>0 DEF Detach
  <2>2. b \in Seq(Piece)
    <3>2. PICK x, y : x = -1 /\ y = 0
      OBVIOUS
    <3>3. x \in Int /\ y \in Int
      BY <3>2
    <3>4. Header(x, y) \in Piece
      BY ONLY <3>3 DEF Piece
    <3>5. h \in Piece
      BY ONLY <2>0, <3>2, <3>4
    <3>. QED BY <3>5
  <2>3. h \in Piece
    BY <2>2
  <2> HIDE DEF h
  <2>4. down' \in Seq(Piece) /\ down' = down \o b
    BY <1>1, <2>1, <2>3, AppendProperties, AppendIsConcat
  <2>5. OwnerRec(o') /\ o'.rest = <<>> /\ o'.link = "closed"
    BY <1>1 DEF OwnerRec, OwnerFields
  <2>6. Pending = down /\ Pending' = Pending \o b /\ Pending \in Seq(Piece)
    <3>1. down \o <<>> = down
      BY ONLY <1>1, ConcatEmptySeq
    <3>2. Pending = down
      BY <1>1, <3>1 DEF Pending
    <3>3. down' \o <<>> = down'
      BY ONLY <2>4, ConcatEmptySeq
    <3>4. Pending' = down'
      BY <2>5, <3>3 DEF Pending
    <3>. QED BY ONLY <1>1, <2>4, <3>2, <3>4
  <2>7. Types'
    BY <1>1, <2>4, <2>5 DEF Types, Shape
  <2>8. Linked /\ Picture /\ Follows
    BY <1>2 DEF ShowInv
  <2>9. v.pc = "size" => Pending # <<>>
    <3> SUFFICES ASSUME v.pc = "size", Pending = <<>> PROVE FALSE
      OBVIOUS
    <3>1. ~v.known
      BY <2>8 DEF ReaderAt, Follows
    <3>2. Len(Feed) > 0 /\ Feed = <<>>
      BY <1>2, <2>8, <3>1 DEF Linked, Feed
    <3>. QED BY <3>2, EmptySeq
  <2> HIDE DEF b
  <2>10. Feed' = Feed \o b /\ Opening' = Opening
    <3>1. CASE v.pc = "size"
      <4>1. Pending' # <<>> /\ Tail(Pending') = Tail(Pending) \o b /\ Head(Pending') = Head(Pending)
        BY <2>2, <2>6, <2>9, <3>1, TailJoined
      <4>. QED BY <1>1, <2>9, <3>1, <4>1 DEF Feed, Opening
    <3>2. CASE v.pc # "size"
      BY <1>1, <2>6, <3>2 DEF Feed, Opening
    <3>. QED BY <3>1, <3>2
  <2>11. Feed \in Seq(Piece) /\ Len(Feed) \in Nat
    BY <1>1, QueuesTyped, LenProperties
  <2>12. PICK z, c, r : FedBy(Feed, z, c, r, "open") /\ ReaderAt(z, c, r)
    BY <1>2, <2>8 DEF Follows
  <2>13. PICK zz, cc, rr :
           /\ FedBy(Feed', zz, cc, rr, "closed")
           /\ \A i \in 0..Len(Feed) : zz[i] = z[i] /\ cc[i] = c[i] /\ rr[i] = r[i]
    BY <2>10, <2>11, <2>12, FedBye DEF b, h
  <2>14. ReaderAt(zz, cc, rr)'
    <3>1. zz[0] = z[0] /\ cc[0] = c[0] /\ rr[0] = r[0]
      BY <2>11, <2>13
    <3>2. ~v.known => zz[1] # Opening
      <4> SUFFICES ASSUME ~v.known PROVE zz[1] # Opening
        OBVIOUS
      <4>1. Len(Feed) > 0
        BY <1>2, <2>8 DEF Linked
      <4>2. zz[1] = z[1]
        BY <2>11, <2>13, <4>1
      <4>. QED BY <2>12, <4>1, <4>2 DEF ReaderAt
    <3>. QED BY <1>1, <2>10, <2>12, <3>1, <3>2 DEF ReaderAt
  <2>15. Follows' /\ Linked' /\ Picture'
    BY <1>1, <2>5, <2>8, <2>13, <2>14 DEF Follows, Latest, Linked, Picture
  <2>. QED BY <2>7, <2>15 DEF ShowInv
<1>3. CASE ~(o.link = "open" /\ v.pc # "end" /\ Len(down) < DownRoom)
  <2>1. down' = down
    BY <1>3 DEF Detach
  <2>. QED BY <1>1, <2>1, Closed
<1>. QED BY <1>2, <1>3

-----------------------------------------------------------------------------
(* The observer's steps.                                                     *)

LEMMA BlankedIs ==
  ASSUME NEW size \in ViewSizes
  PROVE  /\ Shape(Blanked(size)) /\ Blanked(size).size = size
         /\ \A r \in 1..Rows(size), c \in 1..Cols(size) : Blanked(size).cells[r][c] = Blank
BY DEF Blanked, Shape

LEMMA DrawnIs ==
  ASSUME NEW term, Shape(term), NEW local, NEW view
  PROVE  /\ Shape(Drawn(term, local, view)) /\ Drawn(term, local, view).size = term.size
         /\ \A r \in 1..Rows(term.size), c \in 1..Cols(term.size) :
              Drawn(term, local, view).cells[r][c] =
                IF Beyond(view, r, c) THEN term.cells[r][c] ELSE Cell(local, view, r)
<1> DEFINE f == [r \in DOMAIN term.cells |-> [c \in DOMAIN term.cells[r] |->
                   IF c > Cols(view) \/ r > Rows(view) + 1 THEN term.cells[r][c]
                   ELSE IF r > Rows(view) THEN Bar ELSE local[r]]]
           d == [term EXCEPT !.cells = f]
<1>1. Drawn(term, local, view) = d
  BY DEF Drawn
<1>2. DOMAIN f = 1..Rows(term.size)
  BY DEF Shape
<1>3. ASSUME NEW r \in 1..Rows(term.size)
      PROVE  /\ DOMAIN f[r] = 1..Cols(term.size)
             /\ \A c \in 1..Cols(term.size) :
                  f[r][c] = IF Beyond(view, r, c) THEN term.cells[r][c] ELSE Cell(local, view, r)
  BY DEF Shape, Beyond, Cell
<1> HIDE DEF f
<1>4. {"size", "cells"} \subseteq DOMAIN d /\ d.size = term.size /\ d.cells = f
  BY DEF Shape
<1> HIDE DEF d
<1>5. Shape(d)
  BY <1>2, <1>3, <1>4 DEF Shape
<1>. QED BY <1>1, <1>3, <1>4, <1>5

LEMMA EndShows ==
  ASSUME ShowInv, NEW ret, Ends(ret), o' = o, t' = t, down' \in Seq(Piece)
  PROVE  ShowInv'
BY DEF ShowInv, Types, Shape, Ends, ViewerFields

\* The observer stays before the same piece.
LEMMA ReaderSame ==
  ASSUME Follows, o' = o, Feed' = Feed, Opening' = Opening, v'.known = v.known,
         v'.pc = "cells" <=> v.pc = "cells",
         v.known => v'.ses = v.ses /\ v'.local = v.local /\ v'.row = v.row /\ v'.pc # "size"
  PROVE  Follows'
<1>1. PICK z, c, r : FedBy(Feed, z, c, r, o.link) /\ ReaderAt(z, c, r) /\ Latest(z, c)
  BY DEF Follows
<1>2. ReaderAt(z, c, r)'
  BY <1>1 DEF ReaderAt
<1>3. Latest(z, c)'
  BY <1>1 DEF Latest
<1>. QED BY <1>1, <1>2, <1>3 DEF Follows

LEMMA QuietShows ==
  ASSUME ShowInv, v.pc # "end", o' = o, t' = t, down' = down, ViewerFields \subseteq DOMAIN v',
         v'.ses = v.ses, v'.our = v.our, v'.local = v.local, v'.known = v.known, v'.row = v.row,
         v'.winch = v.winch, v'.lost = v.lost,
         v'.pc = v.pc \/ (v.pc \notin {"size", "cells"} /\ v'.pc \notin {"size", "cells"})
  PROVE  ShowInv'
<1>1. Types /\ Linked /\ Picture /\ Follows
  BY DEF ShowInv
<1>2. Types'
  BY <1>1 DEF Types, Shape
<1>3. Pending' = Pending
  BY DEF Pending
<1>4. Feed' = Feed /\ Opening' = Opening
  BY <1>3 DEF Feed, Opening
<1>5. v.known => v'.pc # "size"
  BY <1>1 DEF Follows, ReaderAt
<1>6. Follows'
  <2>1. v'.pc = "cells" <=> v.pc = "cells"
    OBVIOUS
  <2>. QED BY <1>1, <1>4, <1>5, <2>1, ReaderSame
<1>7. Linked'
  BY <1>1, <1>3, <1>4 DEF Linked
<1>8. Picture'
  BY <1>1 DEF Picture
<1>. QED BY <1>2, <1>6, <1>7, <1>8 DEF ShowInv

LEMMA QuietSteps ==
  ASSUME ShowInv, Wait \/ EscExpires \/ KeyByte \/ KeysEnd \/ Write \/ Type \/ Dies
  PROVE  ShowInv'
<1>0. Types /\ ViewerFields \subseteq DOMAIN v /\ down \in Seq(Piece)
  BY DEF ShowInv, Types
<1>1. CASE Wait
  BY <1>0, <1>1, QuietShows DEF Wait, Runs, viewerKeeps, ViewerFields
<1>2. CASE EscExpires
  <2> DEFINE flush == v.esc /\ ~v.in
  <2>1. PICK esc, fsm, out, batch, typed :
          v' = [v EXCEPT !.pc = "keys", !.esc = esc, !.fsm = fsm, !.out = out, !.batch = batch,
                         !.typed = typed]
    BY <1>0, <1>2 DEF EscExpires, ViewerFields
  <2>. QED BY <1>0, <1>2, <2>1, QuietShows DEF EscExpires, Runs, viewerKeeps, ViewerFields
<1>3. CASE KeyByte
  <2>1. CASE Ends(0)
    BY <1>0, <1>3, <2>1, EndShows DEF KeyByte, viewerKeeps
  <2>2. CASE ~Ends(0)
    <3>1. PICK esc, fsm, out, batch :
            v' = [v EXCEPT !.fsm = fsm, !.esc = esc, !.batch = batch, !.out = out]
      <4> DEFINE b == Head(v.batch)
                 fsm == NextFsm(v.fsm, b)
                 esc == fsm = "esc"
                 out == Packets(EventOf(v.fsm, b))
                 batch == Tail(v.batch)
      <4>1. v' = [v EXCEPT !.fsm = fsm, !.esc = esc, !.batch = batch, !.out = out]
        BY <1>0, <1>3, <2>2 DEF KeyByte, ViewerFields
      <4> HIDE DEF b, fsm, esc, out, batch
      <4>. QED BY <4>1
    <3>. QED BY <1>0, <1>3, <3>1, QuietShows DEF KeyByte, Runs, viewerKeeps, ViewerFields
  <2>. QED BY <2>1, <2>2
<1>4. CASE KeysEnd
  BY <1>0, <1>4, QuietShows DEF KeysEnd, Runs, viewerKeeps, ViewerFields
<1>5. CASE Write
  <2>1. CASE Ends(0)
    <3>1. o' = o /\ t' = t /\ down' = down
      BY <1>5 DEF Write, viewerKeeps
    <3>. QED BY <1>0, <2>1, <3>1, EndShows
  <2>2. CASE ~Ends(0)
    <3>1. v' = [v EXCEPT !.out = Tail(@)] /\ v.pc # "end" /\ o' = o /\ t' = t /\ down' = down
      BY <1>5, <2>2 DEF Write, viewerKeeps
    <3>. QED BY <1>0, <3>1, QuietShows DEF ViewerFields
  <2>. QED BY <2>1, <2>2
<1>6. CASE Type
  BY <1>0, <1>6, QuietShows DEF Type, ViewerFields
<1>7. CASE Dies
  BY <1>0, <1>7, EndShows DEF Dies, viewerKeeps
<1>. QED BY <1>1, <1>2, <1>3, <1>4, <1>5, <1>6, <1>7

LEMMA ReadSizeShows ==
  ASSUME ShowInv, ReadSize
  PROVE  ShowInv'
<1>1. Types /\ Linked /\ Picture /\ Follows /\ v.pc = "size" /\ o' = o /\ t' = t
  BY DEF ShowInv, ReadSize, viewerKeeps
<1>2. down \in Seq(Piece) /\ o.rest \in Seq(Piece) /\ ViewerFields \subseteq DOMAIN v
  BY <1>1, QueuesTyped DEF Types
<1>3. CASE down = <<>>
  BY <1>1, <1>2, <1>3, EndShows DEF ReadSize
<1>4. CASE down # <<>>
  <2>1. v' = [v EXCEPT !.pc = "top", !.ses = <<Head(down).rows, Head(down).cols>>]
        /\ down' = Tail(down)
    BY <1>4 DEF ReadSize
  <2>2. down' \in Seq(Piece)
    BY <1>2, <1>4, <2>1, HeadTailProperties
  <2>3. Pending # <<>> /\ Head(Pending) = Head(down) /\ Tail(Pending) = Pending'
    BY <1>1, <1>2, <1>4, <2>1, TailJoined DEF Pending
  <2> DEFINE ses == <<Head(down).rows, Head(down).cols>>
  <2>4. ViewerFields \subseteq DOMAIN v' /\ v'.pc = "top" /\ v'.ses = ses /\ v'.our = v.our
        /\ v'.known = v.known /\ v'.winch = v.winch /\ v'.lost = v.lost
    BY <1>2, <2>1 DEF ViewerFields
  <2>5. Feed' = Feed
    BY <1>1, <2>3, <2>4 DEF Feed
  <2>6. Opening' = Opening
    BY <1>1, <2>3, <2>4 DEF Opening
  <2>7. ~v.known
    BY <1>1 DEF Follows, ReaderAt
  <2>8. Follows'
    BY <1>1, <2>4, <2>5, <2>6, <2>7, ReaderSame
  <2>9. Linked'
    BY <1>1, <2>3, <2>4, <2>5 DEF Linked
  <2>10. Picture'
    BY <1>1, <2>4, <2>7 DEF Picture
  <2>11. Types'
    BY <1>1, <2>2, <2>4 DEF Types, Shape
  <2>. QED BY <2>8, <2>9, <2>10, <2>11 DEF ShowInv
<1>. QED BY <1>3, <1>4

LEMMA RelayoutShows ==
  ASSUME ShowInv, Relayout
  PROVE  ShowInv'
<1>1. Types /\ Linked /\ Picture /\ Follows /\ v.pc = "top" /\ o' = o /\ down' = down
      /\ ViewerFields \subseteq DOMAIN v /\ Shape(t) /\ t.size \in ViewSizes
  BY DEF ShowInv, Types, Relayout, Runs, viewerKeeps, Shape
<1>2. v' = [v EXCEPT !.winch = FALSE, !.our = t.size]
      /\ t' = IF v.known THEN Drawn(Blanked(t.size), v.local, Clip(v.ses, t.size)) ELSE Blanked(t.size)
  BY DEF Relayout
<1>3. ViewerFields \subseteq DOMAIN v' /\ v'.pc = "top" /\ v'.ses = v.ses /\ v'.our = t.size
      /\ v'.known = v.known /\ v'.local = v.local /\ v'.row = v.row /\ v'.lost = v.lost
  BY <1>1, <1>2 DEF ViewerFields
<1>4. /\ Shape(t') /\ t'.size = t.size
      /\ v.known => \A r \in 1..Rows(t.size), c \in 1..Cols(t.size) :
           t'.cells[r][c] = IF Beyond(Clip(v.ses, t.size), r, c) THEN Blank
                            ELSE Cell(v.local, Clip(v.ses, t.size), r)
  <2>1. CASE v.known
    <3> DEFINE b == Blanked(t.size)
    <3>1. Shape(b) /\ b.size = t.size
          /\ \A r \in 1..Rows(t.size), c \in 1..Cols(t.size) : b.cells[r][c] = Blank
      BY <1>1, BlankedIs
    <3> HIDE DEF b
    <3>2. t' = Drawn(b, v.local, Clip(v.ses, t.size))
      BY <1>2, <2>1 DEF b
    <3>3. /\ Shape(t') /\ t'.size = b.size
          /\ \A r \in 1..Rows(b.size), c \in 1..Cols(b.size) :
               t'.cells[r][c] = IF Beyond(Clip(v.ses, t.size), r, c) THEN b.cells[r][c]
                                ELSE Cell(v.local, Clip(v.ses, t.size), r)
      BY <3>1, <3>2, DrawnIs
    <3>. QED BY <3>1, <3>3
  <2>2. CASE ~v.known
    <3>1. Shape(Blanked(t.size)) /\ Blanked(t.size).size = t.size
      BY <1>1, BlankedIs
    <3>2. t' = Blanked(t.size)
      BY <1>2, <2>2
    <3>. QED BY ONLY <2>2, <3>1, <3>2
  <2>. QED BY <2>1, <2>2
<1>5. Pending' = Pending
  BY <1>1 DEF Pending
<1>6. Feed' = Feed /\ Opening' = Opening
  BY <1>1, <1>3, <1>5 DEF Feed, Opening
<1>7. Follows'
  BY <1>1, <1>3, <1>6, ReaderSame
<1>8. Linked'
  BY <1>1, <1>3, <1>5, <1>6 DEF Linked
<1>9. Picture'
  BY <1>3, <1>4 DEF Picture
<1>10. Types'
  BY <1>1, <1>3, <1>4 DEF Types, Shape
<1>. QED BY <1>7, <1>8, <1>9, <1>10 DEF ShowInv

LEMMA WinchShows ==
  ASSUME ShowInv, Winch
  PROVE  ShowInv'
<1>1. Types /\ Linked /\ Follows /\ v.pc \notin {"size", "end"} /\ o' = o /\ down' = down
      /\ ViewerFields \subseteq DOMAIN v /\ v' = [v EXCEPT !.winch = TRUE]
  BY DEF ShowInv, Types, Winch
<1>2. ViewerFields \subseteq DOMAIN v' /\ v'.pc = v.pc /\ v'.ses = v.ses /\ v'.winch
      /\ v'.known = v.known /\ v'.local = v.local /\ v'.row = v.row /\ v'.lost = v.lost
  BY <1>1 DEF ViewerFields
<1>3. Shape(t)'
  <2>1. PICK size \in ViewSizes :
          t' = [size |-> size, cells |-> [r \in 1..Rows(size) |-> [c \in 1..Cols(size) |-> Junk]]]
    BY DEF Winch
  <2>. QED BY <2>1 DEF Shape
<1>4. Pending' = Pending
  BY <1>1 DEF Pending
<1>5. Feed' = Feed /\ Opening' = Opening
  BY <1>1, <1>2, <1>4 DEF Feed, Opening
<1>6. Follows'
  BY <1>1, <1>2, <1>5, ReaderSame
<1>7. Linked' /\ Picture'
  BY <1>1, <1>2, <1>4, <1>5 DEF Linked, Picture
<1>8. Types'
  BY <1>1, <1>2, <1>3 DEF Types
<1>. QED BY <1>6, <1>7, <1>8 DEF ShowInv

LEMMA LastOf ==
  ASSUME NEW s \in Seq(Piece), s # <<>>
  PROVE  /\ Len(s) \in Nat /\ Len(s) > 0 /\ 1 \in 1..Len(s) /\ 0 \in 0..Len(s) /\ 1 \in 0..Len(s)
         /\ 0 \in 0..Len(s) - 1 /\ s[1] = Head(s)
         /\ Tail(s) \in Seq(Piece) /\ Len(Tail(s)) \in Nat /\ Len(Tail(s)) + 1 = Len(s)
         /\ 0 \in 0..Len(Tail(s)) /\ Len(Tail(s)) \in 0..Len(Tail(s))
<1>1. Len(s) \in Nat \ {0} /\ Tail(s) \in Seq(Piece) /\ Len(Tail(s)) = Len(s) - 1
  BY EmptySeq, HeadTailProperties
<1>. QED BY <1>1

\* What is read next, and what follows it.
LEMMA NextPiece ==
  ASSUME Types, v.pc \notin {"size", "end"}, down # <<>>, down' = Tail(down), o' = o,
         v'.pc \notin {"size", "end"}
  PROVE  /\ Feed = Pending /\ Feed # <<>> /\ Feed[1] = Head(down)
         /\ Feed' = Tail(Feed) /\ Pending' = Tail(Feed) /\ down' \in Seq(Piece)
<1>1. down \in Seq(Piece) /\ o.rest \in Seq(Piece) /\ Pending \in Seq(Piece)
  BY QueuesTyped
<1>2. Pending # <<>> /\ Head(Pending) = Head(down) /\ Tail(Pending) = Tail(down) \o o.rest
  BY <1>1, TailJoined DEF Pending
<1>3. Pending' = Tail(Pending)
  BY <1>2 DEF Pending
<1>4. Feed = Pending /\ Feed' = Pending'
  BY DEF Feed
<1>5. Tail(down) \in Seq(Piece)
  BY <1>1, HeadTailProperties
<1>6. Pending[1] = Head(Pending)
  BY <1>1, <1>2, LastOf
<1>. QED BY <1>2, <1>3, <1>4, <1>5, <1>6

LEMMA ReadHeaderShows ==
  ASSUME ShowInv, ReadHeader
  PROVE  ShowInv'
<1>1. Types /\ Linked /\ Picture /\ Follows /\ v.pc = "frame" /\ o' = o /\ ~v.lost
      /\ ViewerFields \subseteq DOMAIN v /\ Shape(t) /\ t.size \in ViewSizes /\ down \in Seq(Piece)
  BY DEF ShowInv, Types, ReadHeader, Runs, viewerKeeps, Shape
<1>2. CASE down = <<>>
  BY <1>1, <1>2, EndShows DEF ReadHeader
<1>3. CASE down # <<>>
  <2> DEFINE h == Head(down)
             s == Pending
             f == Tail(s)
  <2>1. down' = Tail(down) /\ down' \in Seq(Piece) /\ s \in Seq(Piece) /\ s # <<>> /\ Feed = s
        /\ s[1] = h
    <3>1. down' = Tail(down)
      BY <1>3 DEF ReadHeader
    <3>2. s # <<>> /\ Head(s) = h /\ s \in Seq(Piece)
      BY <1>1, <1>3, QueuesTyped, TailJoined DEF Pending
    <3>3. down' \in Seq(Piece)
      BY <1>1, <1>3, <3>1, HeadTailProperties
    <3>4. s[1] = Head(s)
      BY <3>2, LastOf
    <3>. QED BY <1>1, <3>1, <3>2, <3>3, <3>4 DEF Feed
  <2>2. /\ Len(s) \in Nat /\ Len(s) > 0 /\ 1 \in 1..Len(s) /\ 0 \in 0..Len(s) /\ 1 \in 0..Len(s)
        /\ 0 \in 0..Len(s) - 1
        /\ f \in Seq(Piece) /\ Len(f) \in Nat /\ Len(f) + 1 = Len(s)
        /\ 0 \in 0..Len(f) /\ Len(f) \in 0..Len(f)
    BY <2>1, LastOf
  <2> HIDE DEF s
  <2>3. PICK z, c, r : FedBy(s, z, c, r, o.link) /\ ReaderAt(z, c, r) /\ Latest(z, c)
    BY <1>1, <2>1 DEF Follows
  <2>4. IsSize(z[0]) /\ r[0] = Rows(z[0]) /\ r[0] \in Nat
    <3>1. r[0] = Rows(z[0])
      BY <1>1, <2>3 DEF ReaderAt
    <3>2. r[0] \in Nat
          /\ \/ IsSize(z[0]) /\ r[0] <= Rows(z[0])
             \/ z[0] = Farewell /\ r[0] = 0 /\ 0 = Len(s) /\ 0 > 0 /\ o.link # "open"
      BY ONLY <2>2, <2>3 DEF FedBy
    <3>. QED BY <3>1, <3>2
  <2>5. r[1] = 0
    <3>1. IF r[0] < Rows(z[0]) THEN z[0 + 1] = z[0] /\ c[0 + 1] = c[0] /\ r[0 + 1] = r[0] + 1
          ELSE r[0 + 1] = 0
      BY <2>2, <2>3 DEF FedBy
    <3>2. ~(r[0] < Rows(z[0]))
      BY <2>4
    <3>. QED BY <3>1, <3>2
  <2>6. h = HeadPiece(z[1])
    <3>1. s[1] = IF r[1] = 0 THEN HeadPiece(z[1]) ELSE RowPiece(z[1], c[1], r[1])
      BY ONLY <2>2, <2>3 DEF FedBy
    <3>2. s[1] = h
      BY <2>1
    <3> HIDE DEF h
    <3>. QED BY ONLY <2>5, <3>1, <3>2
  <2>7. h.kind = "head" /\ h.rows = Rows(z[1]) /\ h.cols = Cols(z[1])
    BY <2>6 DEF HeadPiece, Header
  <2>8. IsSize(z[1]) \/ z[1] = Farewell
    BY <2>2, <2>3 DEF FedBy
  <2> HIDE DEF h, f
  <2>9. CASE z[1] = Farewell
    <3>1. h.rows = -1
      BY <2>7, <2>9 DEF Farewell, Rows
    <3>2. Ends(1) /\ t' = t
      BY <1>3, <2>7, <3>1 DEF ReadHeader, h
    <3>. QED BY <1>1, <2>1, <3>2, EndShows
  <2>10. CASE IsSize(z[1])
    <3> DEFINE ses == z[1]
               local == IF ses = v.ses THEN v.local ELSE [i \in 1..Rows(ses) |-> Blank]
    <3>0. Rows(ses) \in Nat /\ Rows(ses) > 0 /\ ses = <<Rows(ses), Cols(ses)>>
      BY <2>10, SizeIs
    <3>1. h.rows # -1 /\ ses = <<h.rows, h.cols>>
      BY <2>7, <3>0
    <3>2. v' = [v EXCEPT !.pc = "cells", !.known = TRUE, !.row = 1, !.ses = ses, !.local = local]
          /\ t' = Cleared(ses)
      <4>1. LET x == <<h.rows, h.cols>> IN
              /\ v' = [v EXCEPT !.pc = "cells", !.known = TRUE, !.row = 1, !.ses = x,
                                !.local = IF x = v.ses THEN @ ELSE [i \in 1..Rows(x) |-> Blank]]
              /\ t' = Cleared(x)
        BY <1>3, <2>7, <3>1 DEF ReadHeader, h
      <4> HIDE DEF ses
      <4>2. /\ v' = [v EXCEPT !.pc = "cells", !.known = TRUE, !.row = 1, !.ses = ses,
                              !.local = IF ses = v.ses THEN @ ELSE [i \in 1..Rows(ses) |-> Blank]]
            /\ t' = Cleared(ses)
        BY ONLY <3>1, <4>1
      <4>. QED BY <1>1, <4>2 DEF ViewerFields
    <3> HIDE DEF local, ses
    <3>3. ViewerFields \subseteq DOMAIN v' /\ v'.pc = "cells" /\ v'.known /\ v'.row = 1
          /\ v'.ses = ses /\ v'.local = local /\ v'.our = v.our /\ v'.winch = v.winch /\ ~v'.lost
      BY <1>1, <3>2 DEF ViewerFields
    <3>4. Feed' = f /\ Pending' = f
      BY <1>1, <1>3, <2>1, <3>3, NextPiece DEF s, f
    <3>5. PICK zz, cc, rr :
            /\ FedBy(f, zz, cc, rr, o.link)
            /\ \A i \in 0..Len(f) : zz[i] = z[i + 1] /\ cc[i] = c[i + 1] /\ rr[i] = r[i + 1]
      BY <2>1, <2>3, <2>10, FedTaken DEF f
    <3>6. zz[0] = ses /\ rr[0] = 0
      <4>1. 0 \in 0..Len(f) /\ 0 + 1 = 1
        BY <2>2
      <4>. QED BY <2>5, <3>5, <4>1 DEF ses
    <3>7. ses = v.ses => v.known
      <4> SUFFICES ASSUME ~v.known PROVE ses # v.ses
        OBVIOUS
      <4>. QED BY <1>1, <2>1, <2>2, <2>3 DEF ReaderAt, Opening, ses
    <3>8. DOMAIN local = 1..Rows(ses)
      BY <2>3, <3>7 DEF local, ReaderAt
    <3>9. ReaderAt(zz, cc, rr)'
      <4>1. v'.row \in 1..Rows(v'.ses) /\ rr[0] = v'.row - 1 /\ 1..rr[0] = {}
        BY <3>0, <3>3, <3>6
      <4>. QED BY <3>3, <3>6, <3>8, <4>1 DEF ReaderAt
    <3>10. Latest(zz, cc)'
      <4>1. zz[Len(f)] = z[Len(f) + 1] /\ cc[Len(f)] = c[Len(f) + 1]
        BY <2>2, <3>5
      <4>2. zz[Len(f)] = z[Len(s)] /\ cc[Len(f)] = c[Len(s)]
        BY <2>2, <4>1
      <4>. QED BY <1>1, <2>1, <2>3, <3>4, <4>2 DEF Latest
    <3>11. Follows'
      BY <1>1, <3>4, <3>5, <3>9, <3>10 DEF Follows
    <3>12. Linked'
      BY <1>1, <3>3 DEF Linked
    <3>13. Shape(t') /\ t'.size = t.size
      BY <1>1, <3>2, BlankedIs DEF Cleared
    <3>14. Picture'
      <4> SUFFICES ASSUME ~v.winch
                   PROVE  /\ v'.our = t'.size
                          /\ \A i \in 1..Rows(t'.size), j \in 1..Cols(t'.size) :
                               Beyond(Clip(v'.ses, t'.size), i, j) => t'.cells[i][j] = Blank
        BY <3>3 DEF Picture
      <4>1. v'.our = t'.size
        BY <1>1, <3>3, <3>13 DEF Picture
      <4>2. CASE ses = v.ses
        BY <1>1, <3>2, <3>3, <3>7, <4>2 DEF Cleared, Picture
      <4>3. CASE ses # v.ses
        <5>1. t' = Blanked(t.size)
          BY <3>2, <4>3 DEF Cleared
        <5>2. \A i \in 1..Rows(t.size), j \in 1..Cols(t.size) : t'.cells[i][j] = Blank
          BY <1>1, <5>1, BlankedIs
        <5>. QED BY <3>13, <4>1, <5>2
      <4>. QED BY <4>1, <4>2, <4>3
    <3>15. Types'
      BY <1>1, <2>1, <3>3, <3>13 DEF Types, Shape
    <3>. QED BY <3>11, <3>12, <3>14, <3>15 DEF ShowInv
  <2>. QED BY <2>8, <2>9, <2>10
<1>. QED BY <1>2, <1>3

LEMMA ReadRowShows ==
  ASSUME ShowInv, ReadRow
  PROVE  ShowInv'
<1>1. Types /\ Linked /\ Picture /\ Follows /\ v.pc = "cells" /\ o' = o /\ ~v.lost
      /\ ViewerFields \subseteq DOMAIN v /\ Shape(t) /\ t.size \in ViewSizes /\ down \in Seq(Piece)
  BY DEF ShowInv, Types, ReadRow, Runs, viewerKeeps, Shape
<1>2. CASE down = <<>>
  BY <1>1, <1>2, EndShows DEF ReadRow
<1>3. CASE down # <<>>
  <2> DEFINE h == Head(down)
             s == Pending
             f == Tail(s)
             k == v.row
             n == Rows(v.ses)
  <2>1. down' = Tail(down) /\ down' \in Seq(Piece) /\ s \in Seq(Piece) /\ s # <<>> /\ Feed = s
        /\ s[1] = h
    <3>1. down' = Tail(down)
      BY <1>3 DEF ReadRow
    <3>2. s # <<>> /\ Head(s) = h /\ s \in Seq(Piece)
      BY <1>1, <1>3, QueuesTyped, TailJoined DEF Pending
    <3>3. down' \in Seq(Piece)
      BY <1>1, <1>3, <3>1, HeadTailProperties
    <3>4. s[1] = Head(s)
      BY <3>2, LastOf
    <3>. QED BY <1>1, <3>1, <3>2, <3>3, <3>4 DEF Feed
  <2>2. /\ Len(s) \in Nat /\ Len(s) > 0 /\ 1 \in 1..Len(s) /\ 0 \in 0..Len(s) /\ 1 \in 0..Len(s)
        /\ 0 \in 0..Len(s) - 1
        /\ f \in Seq(Piece) /\ Len(f) \in Nat /\ Len(f) + 1 = Len(s)
        /\ 0 \in 0..Len(f) /\ Len(f) \in 0..Len(f)
    BY <2>1, LastOf
  <2> HIDE DEF s
  <2>3. PICK z, c, r : FedBy(s, z, c, r, o.link) /\ ReaderAt(z, c, r) /\ Latest(z, c)
    BY <1>1, <2>1 DEF Follows
  <2>4. /\ v.known /\ k \in 1..n /\ r[0] = k - 1 /\ z[0] = v.ses /\ DOMAIN v.local = 1..n
        /\ \A j \in 1..r[0] : v.local[j] = RowOf(c[0], j)
    BY <1>1, <2>3 DEF ReaderAt
  <2>5. IsSize(z[0]) /\ n \in Nat
    <3>1. \/ IsSize(z[0]) /\ r[0] <= Rows(z[0])
          \/ z[0] = Farewell /\ r[0] = 0 /\ 0 = Len(s) /\ 0 > 0 /\ o.link # "open"
      BY ONLY <2>2, <2>3 DEF FedBy
    <3>. QED BY <2>4, <3>1, SizeIs DEF n
  <2> HIDE DEF k, n
  <2>6. z[1] = v.ses /\ c[1] = c[0] /\ r[1] = k
    <3>1. IF r[0] < Rows(z[0]) THEN z[0 + 1] = z[0] /\ c[0 + 1] = c[0] /\ r[0 + 1] = r[0] + 1
          ELSE r[0 + 1] = 0
      BY <2>2, <2>3 DEF FedBy
    <3>2. r[0] < n /\ r[0] + 1 = k
      BY ONLY <2>4, <2>5
    <3>3. Rows(z[0]) = n
      BY <2>4 DEF n
    <3>. QED BY ONLY <2>4, <3>1, <3>2, <3>3
  <2>7. h = RowPiece(v.ses, c[0], k)
    <3>1. s[1] = IF r[1] = 0 THEN HeadPiece(z[1]) ELSE RowPiece(z[1], c[1], r[1])
      BY ONLY <2>2, <2>3 DEF FedBy
    <3>2. s[1] = h /\ k # 0
      BY <2>1, <2>4
    <3> HIDE DEF h
    <3>. QED BY ONLY <2>6, <3>1, <3>2
  <2>8. h.kind = "row" /\ h.cols = Cols(v.ses) /\ h.of = RowOf(c[0], k)
    BY <2>7 DEF RowPiece
  <2> HIDE DEF h, f
  <2> DEFINE local == [v.local EXCEPT ![k] = RowOf(c[0], k)]
             pc == IF k = n THEN "top" ELSE "cells"
  <2>9. v' = [v EXCEPT !.local = local, !.row = k + 1, !.pc = pc]
        /\ t' = IF k = n THEN Drawn(t, local, Clip(v.ses, v.our)) ELSE t
    <3>1. LET x == [v.local EXCEPT ![v.row] = h.of]
              last == v.row = Rows(v.ses)
          IN /\ v' = [v EXCEPT !.local = x, !.row = @ + 1, !.pc = IF last THEN "top" ELSE @]
             /\ t' = IF last THEN Drawn(t, x, Clip(v.ses, v.our)) ELSE t
      BY <1>3, <2>8 DEF ReadRow, h
    <3>2. k = v.row /\ n = Rows(v.ses)
      BY DEF k, n
    <3>. QED BY <1>1, <2>8, <3>1, <3>2 DEF ViewerFields
  <2>10. /\ DOMAIN local = 1..n
         /\ \A j \in 1..k : local[j] = RowOf(c[0], j)
    <3>1. DOMAIN local = 1..n
      BY <2>4
    <3>2. ASSUME NEW j \in 1..k PROVE local[j] = RowOf(c[0], j)
      <4>1. j \in 1..n /\ (j # k => j \in 1..r[0])
        BY ONLY <2>4, <2>5, j \in 1..k
      <4>. QED BY <2>4, <4>1
    <3>. QED BY <3>1, <3>2
  <2> HIDE DEF local, pc
  <2>11. ViewerFields \subseteq DOMAIN v' /\ v'.pc = pc /\ v'.known = v.known /\ v'.row = k + 1
         /\ v'.ses = v.ses /\ v'.local = local /\ v'.our = v.our /\ v'.winch = v.winch /\ ~v'.lost
    BY <1>1, <2>9 DEF ViewerFields
  <2>12. pc = IF k = n THEN "top" ELSE "cells"
    BY DEF pc
  <2>13. Feed' = f /\ Pending' = f
    BY <1>1, <1>3, <2>1, <2>11, <2>12, NextPiece DEF s, f
  <2>14. PICK zz, cc, rr :
           /\ FedBy(f, zz, cc, rr, o.link)
           /\ \A i \in 0..Len(f) : zz[i] = z[i + 1] /\ cc[i] = c[i + 1] /\ rr[i] = r[i + 1]
    <3>1. /\ s \in Seq(Piece) /\ s # <<>> /\ f = Tail(s)
          /\ FedBy(s, z, c, r, o.link) /\ IsSize(z[1])
      BY <2>1, <2>3, <2>4, <2>5, <2>6 DEF f
    <3>2. PICK link : link = o.link
      OBVIOUS
    <3>3. FedBy(s, z, c, r, link)
      BY <3>1, <3>2
    <3>. QED BY ONLY <3>1, <3>2, <3>3, FedTaken, SMTT(60)
  <2>15. zz[0] = v.ses /\ cc[0] = c[0] /\ rr[0] = k
    <3>1. 0 \in 0..Len(f) /\ 0 + 1 = 1
      BY <2>2
    <3>. QED BY <2>6, <2>14, <3>1
  <2>16. ReaderAt(zz, cc, rr)'
    <3>1. Rows(v'.ses) = n
      BY <2>11 DEF n
    <3>2. CASE k = n
      <4>1. v'.pc = "top" /\ rr[0] = Rows(zz[0])
        BY <2>11, <2>12, <2>15, <3>2 DEF n
      <4>. QED BY <2>4, <2>10, <2>11, <2>15, <3>1, <4>1 DEF ReaderAt
    <3>3. CASE k # n
      <4>1. v'.pc = "cells" /\ v'.row \in 1..n /\ rr[0] = v'.row - 1
        BY <2>4, <2>5, <2>11, <2>12, <2>15, <3>3
      <4>. QED BY <2>4, <2>10, <2>11, <2>15, <3>1, <4>1 DEF ReaderAt
    <3>. QED BY <3>2, <3>3
  <2>17. Latest(zz, cc)'
    <3>1. zz[Len(f)] = z[Len(f) + 1] /\ cc[Len(f)] = c[Len(f) + 1]
      BY <2>2, <2>14
    <3>2. zz[Len(f)] = z[Len(s)] /\ cc[Len(f)] = c[Len(s)]
      BY <2>2, <3>1
    <3>. QED BY <1>1, <2>1, <2>3, <2>13, <3>2 DEF Latest
  <2>18. Follows'
    BY <1>1, <2>13, <2>14, <2>16, <2>17 DEF Follows
  <2>19. Linked'
    BY <1>1, <2>4, <2>11 DEF Linked
  <2>20. Types' /\ Picture'
    <3>1. CASE k # n
      <4>1. t' = t /\ v'.pc = "cells"
        BY <2>9, <2>11, <2>12, <3>1
      <4>2. Picture'
        BY <1>1, <2>4, <2>11, <4>1 DEF Picture
      <4>3. Types'
        BY <1>1, <2>1, <2>11, <4>1 DEF Types, Shape
      <4>. QED BY <4>2, <4>3
    <3>2. CASE k = n
      <4> DEFINE view == Clip(v.ses, v.our)
      <4>1. t' = Drawn(t, local, view) /\ v'.pc = "top"
        BY <2>9, <2>11, <2>12, <3>2
      <4>2. view = Clip(v.ses, v.our)
        OBVIOUS
      <4> HIDE DEF view
      <4>3. /\ Shape(t') /\ t'.size = t.size
            /\ \A i \in 1..Rows(t.size), j \in 1..Cols(t.size) :
                 t'.cells[i][j] = IF Beyond(view, i, j) THEN t.cells[i][j] ELSE Cell(local, view, i)
        BY <1>1, <4>1, DrawnIs
      <4>4. Types'
        BY <1>1, <2>1, <2>11, <4>3 DEF Types, Shape
      <4>5. ~v.winch => v.our = t.size /\ view = Clip(v.ses, t.size)
        BY <1>1, <4>2 DEF Picture
      <4>6. ~v.winch => \A i \in 1..Rows(t.size), j \in 1..Cols(t.size) :
              Beyond(view, i, j) => t.cells[i][j] = Blank
        BY <1>1, <2>4, <4>5 DEF Picture
      <4>7. Picture'
        BY <2>11, <4>3, <4>5, <4>6 DEF Picture
      <4>. QED BY <4>4, <4>7
    <3>. QED BY <3>1, <3>2
  <2>. QED BY <2>18, <2>19, <2>20 DEF ShowInv
<1>. QED BY <1>2, <1>3

-----------------------------------------------------------------------------
LEMMA InitShows ==
  ASSUME Sized, Init
  PROVE  ShowInv
<1>1. PICK size \in Sizes, our \in ViewSizes, taken \in BOOLEAN :
        LET p == [wins |-> [i \in Slot |-> 0], cur |-> 0, view |-> FALSE, size |-> size,
                  behind |-> FALSE, link |-> IF taken THEN "open" ELSE "new", rest |-> <<>>,
                  packet |-> <<>>, hup |-> FALSE, gone |-> FALSE]
        IN /\ o = IF taken THEN [p EXCEPT !.rest = Frame(p)] ELSE p
           /\ v = [pc |-> IF taken THEN "top" ELSE "size", ses |-> <<Rows(size) + 1, Cols(size)>>,
                   our |-> our, local |-> <<>>, known |-> FALSE, row |-> 1, fsm |-> "ground",
                   esc |-> FALSE, in |-> FALSE, sock |-> FALSE, typed |-> <<>>, batch |-> <<>>,
                   out |-> <<>>, winch |-> FALSE, ret |-> 0, lost |-> FALSE]
           /\ t = Blanked(our)
  BY DEF Init
<1> DEFINE p == [wins |-> [i \in Slot |-> 0], cur |-> 0, view |-> FALSE, size |-> size,
                 behind |-> FALSE, link |-> IF taken THEN "open" ELSE "new", rest |-> <<>>,
                 packet |-> <<>>, hup |-> FALSE, gone |-> FALSE]
           f == Frame(p)
           q == [p EXCEPT !.rest = f]
<1>2. o = IF taken THEN q ELSE p
  BY <1>1
<1>3. IsSize(size) /\ Rows(size) \in Nat
  BY SizeIs DEF Sized
<1>4. OwnerRec(p) /\ p.size = size /\ p.rest = <<>> /\ p.link = (IF taken THEN "open" ELSE "new")
  <2>1. 0 \in Slot
    BY DEF Sized, Slot
  <2>2. <<>> \in Seq(Piece)
    BY EmptySeq
  <2>. QED BY <2>1, <2>2 DEF OwnerRec, OwnerFields
<1>5. f \in Seq(Piece) /\ Len(f) > 0
  BY <1>3, <1>4, FrameIs
<1> HIDE DEF f
<1>6. OwnerRec(q) /\ q.rest = f /\ q.link = p.link /\ q.size = size /\ Shown(q) = Shown(p)
  <2> HIDE DEF p
  <2>1. OwnerRec(q) /\ q.rest = f /\ q.link = p.link /\ q.size = size
    BY <1>4, <1>5 DEF OwnerRec, OwnerFields
  <2>2. q.cur = p.cur /\ q.wins = p.wins
    BY <1>4 DEF OwnerRec, OwnerFields
  <2>. QED BY <2>1, <2>2 DEF Shown
<1> HIDE DEF p, q
<1>7. /\ ViewerFields \subseteq DOMAIN v /\ v.pc = (IF taken THEN "top" ELSE "size")
      /\ v.ses = <<Rows(size) + 1, Cols(size)>> /\ v.our = our /\ ~v.known /\ ~v.winch /\ ~v.lost
  BY <1>1 DEF ViewerFields
<1>8. Shape(t) /\ t.size = our /\ down = <<>>
  BY <1>1, BlankedIs DEF Init
<1>9. Types
  BY <1>2, <1>4, <1>6, <1>7, <1>8, EmptySeq DEF Types
<1>10. Picture
  BY <1>7, <1>8 DEF Picture
<1>11. CASE taken
  <2>1. Pending = f /\ Feed = f /\ Opening = <<Rows(size) + 1, Cols(size)>> /\ o.link = "open"
    <3>1. <<>> \o f = f
      BY <1>5, ConcatEmptySeq
    <3>. QED BY <1>2, <1>4, <1>6, <1>7, <1>8, <1>11, <3>1 DEF Pending, Feed, Opening
  <2>2. PICK zz, cc, rr :
          /\ FedBy(f, zz, cc, rr, "open")
          /\ zz[0] = p.size /\ rr[0] = Rows(p.size) /\ zz[1] = p.size
          /\ zz[Len(f)] = p.size /\ cc[Len(f)] = Shown(p)
    BY <1>4, FedFirst DEF f
  <2>3. size # Opening
    <3>1. Rows(size) # Rows(<<Rows(size) + 1, Cols(size)>>)
      BY <1>3 DEF Rows
    <3>. QED BY <2>1, <3>1
  <2>4. ReaderAt(zz, cc, rr)
    BY <1>4, <1>7, <1>11, <2>1, <2>2, <2>3 DEF ReaderAt
  <2>5. Latest(zz, cc)
    BY <1>2, <1>4, <1>6, <1>11, <2>1, <2>2 DEF Latest
  <2>6. Follows
    BY <2>1, <2>2, <2>4, <2>5 DEF Follows
  <2>7. Linked
    BY <1>5, <2>1 DEF Linked
  <2>. QED BY <1>9, <1>10, <2>6, <2>7 DEF ShowInv
<1>12. CASE ~taken
  <2>1. Pending = <<>> /\ Feed = <<>> /\ o.link = "new"
    BY <1>2, <1>4, <1>7, <1>8, <1>12 DEF Pending, Feed
  <2>2. PICK e, z, c, r : e = <<>> /\ z = [i \in 0..0 |-> size] /\ c = [i \in 0..0 |-> <<>>]
                          /\ r = [i \in 0..0 |-> Rows(size)]
    OBVIOUS
  <2>3. FedBy(e, z, c, r, "new") /\ z[0] = size /\ r[0] = Rows(size)
    BY <1>3, <2>2, FedNone
  <2>4. ReaderAt(z, c, r)
    BY <1>7, <1>12, <2>1, <2>3 DEF ReaderAt
  <2>5. Latest(z, c)
    BY <2>1 DEF Latest
  <2>6. Follows
    BY <2>1, <2>2, <2>3, <2>4, <2>5 DEF Follows
  <2>7. Linked
    BY <1>7, <1>12, <2>1 DEF Linked
  <2>. QED BY <1>9, <1>10, <2>6, <2>7 DEF ShowInv
<1>. QED BY <1>11, <1>12

LEMMA NextShows ==
  ASSUME Sized, ShowInv, [Next]_vars
  PROVE  ShowInv'
<1>1. CASE OwnerRuns
  BY <1>1, AcceptShows, SendShows, DrainedShows, ReadLinkShows, ReadEndShows, DetachShows
  DEF OwnerRuns
<1>2. CASE Output \/ Acts \/ Drop \/ HangUp
  BY <1>2, OutputShows, ActsShows, DropShows, HangUpShows
<1>3. CASE ObserverRuns
  BY <1>3, QuietSteps, ReadSizeShows, RelayoutShows, ReadHeaderShows, ReadRowShows DEF ObserverRuns
<1>4. CASE Dies \/ Type \/ Winch
  BY <1>4, QuietSteps, WinchShows
<1>5. CASE UNCHANGED vars
  <2>1. o' = o /\ v' = v /\ t' = t /\ down' = down
    BY <1>5 DEF vars
  <2>2. Types /\ OwnerRec(o') /\ down' \in Seq(Piece) /\ Pending' = Pending
    BY <2>1 DEF ShowInv, Types, Pending
  <2>. QED BY <2>1, <2>2, PendingSame
<1>. QED BY <1>1, <1>2, <1>3, <1>4, <1>5 DEF Next

\* Between frames, the picture of the last one is the screen.
LEMMA ShowInvShows ==
  ASSUME Sized, ShowInv
  PROVE  ShowsOwner
<1>1. ~v.lost /\ OwnerRec(o) /\ Shape(t) /\ Types
  BY DEF ShowInv, Types
<1> SUFFICES ASSUME Settled,
                    NEW i \in 1..Rows(t.size), NEW j \in 1..Cols(t.size)
             PROVE  LET bar == Least(Rows(o.size) + 1, Rows(t.size)) IN
                    t.cells[i][j] = IF j > Cols(o.size) \/ i > bar THEN Blank
                                    ELSE IF i = bar THEN Bar ELSE Content(o, i)
  BY <1>1 DEF ShowsOwner
<1>2. /\ o.rest = <<>> /\ o.link = "open" /\ ~o.view /\ ~o.behind /\ down = <<>>
      /\ v.pc = "top" /\ ~v.winch /\ v.known
  BY DEF Settled, Idle
<1>3. Picture /\ Follows
  BY <1>2 DEF ShowInv
<1>4. Feed = <<>>
  BY <1>2 DEF Feed, Pending
<1>5. PICK z, c, r : FedBy(Feed, z, c, r, o.link) /\ ReaderAt(z, c, r) /\ Latest(z, c)
  BY <1>3 DEF Follows
<1>6. Len(Feed) = 0
  BY <1>4
<1>7. /\ z[0] = o.size /\ c[0] = Shown(o) /\ v.ses = o.size /\ r[0] = Rows(o.size)
      /\ \A k \in 1..Rows(o.size) : v.local[k] = RowOf(Shown(o), k)
  BY <1>2, <1>5, <1>6 DEF Latest, ReaderAt
<1>8. \A k : RowOf(Shown(o), k) = Content(o, k)
  BY DEF RowOf, Shown, Content
<1> DEFINE R == Rows(o.size)
           C == Cols(o.size)
           T == Rows(t.size)
           W == Cols(t.size)
           view == Clip(o.size, t.size)
<1>9. R \in Nat /\ R > 0 /\ C \in Nat /\ T \in Nat /\ T > 0 /\ W \in Nat
  BY <1>1, SizeIs DEF Sized, OwnerRec, Shape
<1>10. Rows(view) = Least(R, T - 1) /\ Cols(view) = Least(C, W)
  BY DEF Clip, Rows, Cols
<1>11. t.cells[i][j] = IF Beyond(view, i, j) THEN Blank ELSE Cell(v.local, view, i)
  BY <1>2, <1>3, <1>7 DEF Picture
<1> HIDE DEF R, C, T, W, view
<1>12. i \in 1..T /\ j \in 1..W
  BY DEF T, W
<1> DEFINE bar == Least(R + 1, T)
<1>13. /\ Beyond(view, i, j) <=> j > C \/ i > bar
       /\ ~(i > bar) => (i > Rows(view) <=> i = bar)
       /\ ~(i > bar) /\ i # bar => i \in 1..R
  BY <1>9, <1>10, <1>12 DEF Beyond, Least
<1> HIDE DEF bar
<1>14. ~(i > bar) /\ i # bar => v.local[i] = Content(o, i)
  BY <1>7, <1>8, <1>13 DEF R
<1>15. t.cells[i][j] = IF j > C \/ i > bar THEN Blank ELSE IF i = bar THEN Bar ELSE Content(o, i)
  BY <1>11, <1>13, <1>14 DEF Cell
<1>. QED BY <1>15 DEF bar, R, C, T

(* The owner's screen on the observer's terminal, for any number of windows   *)
(* and any sizes: see ShowsOwner.                                            *)
THEOREM ShowsOwnerAlways == Spec => []ShowsOwner
<1>. USE SizesAssumption
<1>1. Init => ShowInv
  BY InitShows
<1>2. ShowInv /\ [Next]_vars => ShowInv'
  BY NextShows
<1>3. ShowInv => ShowsOwner
  BY ShowInvShows
<1>. QED BY <1>1, <1>2, <1>3, PTL DEF Spec
=============================================================================
