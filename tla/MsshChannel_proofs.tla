------------------------- MODULE MsshChannel_proofs -------------------------
(* Theorems about MsshChannel, for any windows, packet sizes, amounts of     *)
(* input and output, number of key exchanges, and length of the sequence     *)
(* numbers' round.                                                           *)
EXTENDS MsshChannel, SequenceTheorems, TLAPS

-----------------------------------------------------------------------------
(* Types.                                                                    *)

Plain == {"KEXINIT", "ECDH_INIT", "ECDH_REPLY", "NEWKEYS", "IGNORE", "GLOBAL_REQUEST",
          "REQUEST_FAILURE", "SERVICE_REQUEST", "SERVICE_ACCEPT", "PROBE", "PK_OK", "AUTH",
          "AUTH_SUCCESS", "REFUSED", "BANNER", "OPEN", "PTY_REQ", "EXEC", "SUCCESS", "FAILURE",
          "EOF", "CLOSE", "WINDOW_CHANGE", "KEEPALIVE"}
AllFates == Fates \cup EarlyFates
Messages ==
  (Plain \X {0, 1}) \cup ({"DATA", "EXT_DATA"} \X Seq(Nat)) \cup ({"ADJUST"} \X Nat)
    \cup ({"CONFIRM"} \X ((Windows \cup {0}) \X MaxPkts)) \cup ({"EXIT"} \X AllFates)
Packets == [key : Nat, seq : Nat, msg : Messages]
Numbers == 0 .. SeqWrap - 1

ClientState ==
  [wait : Waits, back : Waits, sendKey : Nat, sendSeq : Numbers, recvKey : Nat, recvSeq : Numbers,
   strict : BOOLEAN, window : Nat, maxpkt : Nat \ {0}, outq : Seq(Nat), eofPending : BOOLEAN,
   clientEof : BOOLEAN, pending : Nat, exit : {1, 255} \cup {Status(f) : f \in AllFates},
   asked : BOOLEAN, asks : Nat]
ServerState ==
  [kex : {"init", "keys", "idle"}, sendKey : Nat, sendSeq : Numbers, recvKey : Nat,
   recvSeq : Numbers, strict : BOOLEAN,
   stage : {"login", "running", "exited", "closing"}, window : Int, room : Int, unread : Nat,
   got : Seq(Nat), gotEof : BOOLEAN, sent : Nat, fate : AllFates \cup {<<>>}, rekeys : Nat,
   extra : Nat, held : Seq(Messages), early : BOOLEAN, gone : BOOLEAN, stuck : BOOLEAN]

Typed ==
  /\ c \in ClientState /\ s \in ServerState
  /\ up \in Seq(Packets) /\ down \in Seq(Packets)
  /\ typed \in Nat /\ shown \in Seq(Nat)

-----------------------------------------------------------------------------
(* Numbers, and packets that are sealed.                                     *)

LEMMA ModUnique ==
  ASSUME NEW w \in Nat, NEW q \in Int, NEW r \in Nat, r < w
  PROVE  (w * q + r) % w = r
BY SMT

LEMMA ModSucc ==
  ASSUME NEW a \in Nat, NEW w \in Nat, w >= 2
  PROVE  ((a % w) + 1) % w = (a + 1) % w
<1> DEFINE q == a \div w
           r == a % w
<1>1. q \in Nat /\ r \in Nat /\ r < w /\ a = w * q + r
  BY SMT
<1> HIDE DEF q, r
<1>2. CASE r + 1 < w
  <2>1. (w * q + (r + 1)) % w = r + 1
    BY <1>1, <1>2, ModUnique
  <2>2. (r + 1) % w = r + 1
    BY <1>1, <1>2, SMT
  <2>3. a + 1 = w * q + (r + 1)
    BY <1>1
  <2>. QED BY <2>1, <2>2, <2>3 DEF r
<1>3. CASE r + 1 = w
  <2>1. (w * (q + 1) + 0) % w = 0
    BY <1>1, ModUnique
  <2>2. a + 1 = w * (q + 1) + 0
    BY <1>1, <1>3, SMT
  <2>3. w % w = 0
    BY <1>1, SMT
  <2>. QED BY <1>3, <2>1, <2>2, <2>3 DEF r
<1>. QED BY <1>1, <1>2, <1>3

LEMMA InNumbers ==
  ASSUME NEW a \in Nat
  PROVE  a % SeqWrap \in Numbers
BY ChannelAssumption, SMT DEF Numbers

LEMMA NumberIs ==
  ASSUME NEW a \in Numbers
  PROVE  a \in Nat /\ a % SeqWrap = a /\ 0 \in Numbers /\ 1 \in Numbers
BY ChannelAssumption, SMT DEF Numbers

LEMMA Sealed ==
  ASSUME NEW msgs \in Seq(Messages), NEW key \in Nat, NEW seq \in Nat
  PROVE  LET q == Seal(msgs, key, seq) IN
         /\ q \in Seq(Packets) /\ Len(q) = Len(msgs)
         /\ \A i \in 1..Len(msgs) :
               q[i].key = key /\ q[i].seq = (seq + i - 1) % SeqWrap /\ q[i].msg = msgs[i]
<1> DEFINE q == Seal(msgs, key, seq)
<1>1. q = [i \in 1..Len(msgs) |->
             [key |-> key, seq |-> (seq + i - 1) % SeqWrap, msg |-> msgs[i]]]
  BY DEF Seal
<1>2. \A i \in 1..Len(msgs) :
        [key |-> key, seq |-> (seq + i - 1) % SeqWrap, msg |-> msgs[i]] \in Packets
  <2>1. TAKE i \in 1..Len(msgs)
  <2>2. seq + i - 1 \in Nat
    OBVIOUS
  <2>3. (seq + i - 1) % SeqWrap \in Nat
    BY <2>2, InNumbers, NumberIs
  <2>. QED BY <2>3 DEF Packets
<1>3. Len(msgs) \in Nat
  OBVIOUS
<1>4. q \in [1..Len(msgs) -> Packets]
  BY <1>1, <1>2
<1>5. \A i \in 1..Len(msgs) :
        q[i].key = key /\ q[i].seq = (seq + i - 1) % SeqWrap /\ q[i].msg = msgs[i]
  BY <1>1
<1> HIDE DEF q
<1>6. q \in Seq(Packets) /\ Len(q) = Len(msgs)
  BY <1>3, <1>4
<1>. QED BY <1>5, <1>6 DEF q

LEMMA Plainly ==
  /\ \A t \in Plain : M(t) \in Messages
  /\ \A v \in {0, 1} : Msg("KEXINIT", v) \in Messages /\ Msg("GLOBAL_REQUEST", v) \in Messages
  /\ \A n \in Nat : Msg("ADJUST", n) \in Messages
  /\ \A t \in {"DATA", "EXT_DATA"}, d \in Seq(Nat) : Msg(t, d) \in Messages
  /\ \A w \in Windows \cup {0}, p \in MaxPkts : Msg("CONFIRM", <<w, p>>) \in Messages
  /\ \A f \in AllFates : Msg("EXIT", f) \in Messages
BY DEF M, Msg, Messages, Plain

LEMMA Carries ==
  ASSUME NEW m \in Messages
  PROVE  /\ m[1] = "ADJUST" => m[2] \in Nat
         /\ m[1] \in {"DATA", "EXT_DATA"} => m[2] \in Seq(Nat)
         /\ m[1] = "CONFIRM" => m[2] = <<m[2][1], m[2][2]>> /\ m[2][1] \in 0..MaxWindow
                                /\ m[2][1] \in Nat /\ m[2][2] \in Nat \ {0}
         /\ m[1] = "EXIT" => m[2] \in AllFates
<1>1. \A w \in Windows \cup {0} : w \in 0..MaxWindow /\ w \in Nat
  BY ChannelAssumption
<1>2. \A p \in MaxPkts : p \in Nat \ {0}
  BY ChannelAssumption
<1>. QED BY <1>1, <1>2 DEF Messages, Plain

LEMMA SendsTyped ==
  ASSUME Typed, NEW c2 \in ClientState, NEW msgs \in Seq(Messages), Sends(c2, msgs)
  PROVE  c' \in ClientState /\ up' \in Seq(Packets)
<1>1. c.sendKey \in Nat /\ c.sendSeq \in Nat /\ c2.sendSeq \in Nat
  BY NumberIs DEF Typed, ClientState
<1>2. Seal(msgs, c.sendKey, c.sendSeq) \in Seq(Packets)
  BY <1>1, Sealed
<1>3. up \o Seal(msgs, c.sendKey, c.sendSeq) \in Seq(Packets)
  BY <1>2 DEF Typed
<1>4. (c2.sendSeq + Len(msgs)) % SeqWrap \in Numbers
  BY <1>1, InNumbers
<1>5. [c2 EXCEPT !.sendSeq = (@ + Len(msgs)) % SeqWrap] \in ClientState
  BY <1>4, ZenonT(30) DEF ClientState
<1>. QED BY <1>3, <1>5 DEF Sends

LEMMA TakesTyped ==
  ASSUME Typed, Arrived
  PROVE  /\ Got \in ClientState /\ Tail(down) \in Seq(Packets)
         /\ Head(down) \in Packets /\ Head(down).msg \in Messages
<1>1. down # <<>> /\ down \in Seq(Packets)
  BY DEF Arrived, Typed
<1>2. Taken \in Numbers
  BY InNumbers, NumberIs DEF Typed, ClientState, Taken
<1>3. Got \in ClientState
  BY <1>2 DEF Typed, ClientState, Got
<1>4. Head(down) \in Packets /\ Tail(down) \in Seq(Packets)
  BY <1>1
<1>. QED BY <1>3, <1>4 DEF Packets

LEMMA SentTyped ==
  ASSUME Typed, NEW c2 \in ClientState, NEW msgs \in Seq(Messages), Sent(c2, msgs),
         down' \in {down, Tail(down)}, down' # down => Arrived
  PROVE  Typed'
<1>1. down' \in Seq(Packets)
  BY TakesTyped DEF Typed
<1>. QED BY <1>1, SendsTyped DEF Typed, Sent

LEMMA DieTyped ==
  ASSUME Typed, NEW c2 \in ClientState, Die(c2),
         down' \in {down, Tail(down)}, down' # down => Arrived
  PROVE  Typed'
<1>1. down' \in Seq(Packets)
  BY TakesTyped DEF Typed
<1>2. [c2 EXCEPT !.wait = "died", !.exit = 1] \in ClientState
  BY ZenonT(30) DEF ClientState, Waits
<1>. QED BY <1>1, <1>2 DEF Typed, Die

LEMMA One ==
  /\ <<>> \in Seq(Messages)
  /\ \A m \in Messages : <<m>> \in Seq(Messages)
  /\ \A m, n \in Messages : <<m, n>> \in Seq(Messages)
OBVIOUS

LEMMA HandshakeTyped ==
  ASSUME Typed, Handshake
  PROVE  Typed'
<1> USE DEF Waits
<1>0. Arrived /\ down' = Tail(down)
  BY DEF Handshake, KexInit, Rekey, EcdhReply, NewKeys, Service, Banner, Probed, Authenticated,
     Refused, Opened, PtyAnswered, Started, NotStarted, Takes
<1>1. Got \in ClientState /\ down' \in Seq(Packets) /\ Head(down).msg \in Messages
  BY <1>0, TakesTyped
<1>2. \A t \in Plain : <<M(t)>> \in Seq(Messages)
  BY Plainly, One
<1>3. CASE KexInit
  <2>1. \A v \in BOOLEAN : [Got EXCEPT !.strict = v, !.wait = "ecdh_reply"] \in ClientState
    BY <1>1, ZenonT(30) DEF ClientState
  <2>2. <<M("ECDH_INIT")>> \in Seq(Messages)
    BY <1>2 DEF Plain
  <2>. QED BY <1>0, <1>1, <1>3, <2>1, <2>2, SentTyped, DieTyped DEF KexInit
<1>4. CASE Rekey
  <2>0. \A b \in Waits : [Got EXCEPT !.wait = "ecdh_reply", !.back = b] \in ClientState
    BY <1>1, ZenonT(30) DEF ClientState, Waits
  <2>10. c.wait \in Waits
    BY ZenonT(30) DEF ClientState, Typed
  <2>1. [Got EXCEPT !.wait = "ecdh_reply", !.back = c.wait] \in ClientState
    BY <2>0, <2>10
  <2>2. <<M("KEXINIT"), M("ECDH_INIT")>> \in Seq(Messages)
    BY Plainly, One DEF Plain
  <2>. QED BY <1>0, <1>4, <2>1, <2>2, SentTyped DEF Rekey
<1>5. CASE EcdhReply
  <2>1. CASE c.sendKey = 0 /\ Die(Got)
    BY <1>0, <1>1, <2>1, DieTyped
  <2>2. CASE ~(c.sendKey = 0 /\ Die(Got))
    <3> DEFINE n == IF c.strict THEN 0 ELSE (Got.sendSeq + 1) % SeqWrap
    <3>1. c.sendKey \in Nat /\ c.sendSeq \in Nat /\ Got.sendSeq \in Nat
      BY <1>1, NumberIs DEF Typed, ClientState
    <3>2. Seal(<<M("NEWKEYS")>>, c.sendKey, c.sendSeq) \in Seq(Packets)
      BY <1>2, <3>1, Sealed DEF Plain
    <3>3. n \in Numbers
      BY <3>1, InNumbers, NumberIs
    <3>4. /\ up' = up \o Seal(<<M("NEWKEYS")>>, c.sendKey, c.sendSeq)
          /\ c' = [Got EXCEPT !.wait = "newkeys", !.sendKey = @ + 1, !.sendSeq = n]
          /\ UNCHANGED <<s, typed, shown>>
      BY <1>5, <2>2 DEF EcdhReply
    <3> HIDE DEF n
    <3>5. Got.sendKey + 1 \in Nat
      BY <1>1 DEF ClientState
    <3>8. \A k \in Nat, m \in Numbers :
            [Got EXCEPT !.wait = "newkeys", !.sendKey = k, !.sendSeq = m] \in ClientState
      BY <1>1, ZenonT(30) DEF ClientState, Waits
    <3>7. c' \in ClientState
      BY <3>3, <3>4, <3>5, <3>8
    <3>6. up' \in Seq(Packets)
      BY <3>2, <3>4 DEF Typed
    <3>. QED BY <1>1, <3>4, <3>6, <3>7 DEF Typed
  <2>. QED BY <2>1, <2>2, <1>5 DEF EcdhReply
<1>6. CASE NewKeys
  <2>00. c.back \in Waits
    BY DEF ClientState, Typed
  <2>01. Got.recvKey \in Nat
    BY <1>1 DEF ClientState
  <2>0. c.back \in Waits /\ Got.recvKey + 1 \in Nat
    BY ONLY <2>00, <2>01
  <2>1. \A n \in Numbers :
          [Got EXCEPT !.wait = c.back, !.recvKey = @ + 1, !.recvSeq = n] \in ClientState
    BY <1>1, <2>0, ZenonT(30) DEF ClientState
  <2>2. (IF c.strict THEN 0 ELSE Got.recvSeq) \in Numbers
    BY <1>1, NumberIs, ZenonT(30) DEF ClientState
  <2>3. [Got EXCEPT !.wait = c.back, !.recvKey = @ + 1,
                    !.recvSeq = IF c.strict THEN 0 ELSE @] \in ClientState
    BY <2>1, <2>2
  <2>4. <<M("SERVICE_REQUEST")>> \in Seq(Messages) /\ <<>> \in Seq(Messages)
    BY <1>2, One DEF Plain
  <2>. QED BY <1>0, <1>6, <2>3, <2>4, SentTyped DEF NewKeys, Sent
<1>7. CASE Service \/ Probed \/ Authenticated \/ PtyAnswered \/ Started
  <2>1. \A w \in Waits : [Got EXCEPT !.wait = w] \in ClientState
    BY <1>1, ZenonT(30) DEF ClientState
  <2>2. <<>> \in Seq(Messages) /\ \A t \in {"PROBE", "AUTH", "OPEN", "EXEC"} : <<M(t)>> \in Seq(Messages)
    BY <1>2, One DEF Plain
  <2>. QED BY <1>0, <1>7, <2>1, <2>2, SentTyped
           DEF Service, Probed, Authenticated, PtyAnswered, Started
<1>8. CASE Banner
  BY <1>0, <1>1, <1>8, One, SentTyped DEF Banner
<1>9. CASE Refused \/ NotStarted
  BY <1>0, <1>1, <1>9, DieTyped DEF Refused, NotStarted
<1>10. CASE Opened
  <2>1. Value[1] \in Nat /\ Value[2] \in Nat \ {0}
    BY <1>1, <1>10, Carries DEF Opened, Takes, Packet, Value
  <2>2. \A w \in {"pty", "exec"} :
          [[Got EXCEPT !.window = Value[1], !.maxpkt = Value[2]] EXCEPT !.wait = w] \in ClientState
    BY <1>1, <2>1, ZenonT(30) DEF ClientState
  <2>3. <<M("PTY_REQ")>> \in Seq(Messages) /\ <<M("EXEC")>> \in Seq(Messages)
    BY <1>2 DEF Plain
  <2>. QED BY <1>0, <1>10, <2>2, <2>3, SentTyped DEF Opened
<1>. QED BY <1>3, <1>4, <1>5, <1>6, <1>7, <1>8, <1>9, <1>10 DEF Handshake

-----------------------------------------------------------------------------
(* Input in chunks.                                                          *)

LEMMA MinIs ==
  ASSUME NEW a \in Int, NEW b \in Int
  PROVE  Min({a, b}) = IF a <= b THEN a ELSE b
BY SMT DEF Min

LEMMA FitsIs ==
  ASSUME NEW q \in Seq(Nat), NEW w \in Nat
  PROVE  /\ Fits(q, w) \in Nat /\ Fits(q, w) <= Len(q) /\ Fits(q, w) <= w
         /\ Fits(q, w) = Len(q) \/ Fits(q, w) = w
         /\ Rest(q, w) \in Seq(Nat) /\ Len(Rest(q, w)) = Len(q) - Fits(q, w)
         /\ \A j \in 1..Len(Rest(q, w)) : Rest(q, w)[j] = q[Fits(q, w) + j]
<1>1. Len(q) \in Nat
  OBVIOUS
<1>2. Fits(q, w) = IF Len(q) <= w THEN Len(q) ELSE w
  BY <1>1, MinIs DEF Fits
<1>3. /\ Fits(q, w) \in Nat /\ Fits(q, w) <= Len(q) /\ Fits(q, w) <= w
      /\ Fits(q, w) = Len(q) \/ Fits(q, w) = w
  BY <1>1, <1>2
<1> DEFINE f == Fits(q, w)
<1>4. Rest(q, w) = SubSeq(q, f + 1, Len(q))
  BY DEF Rest
<1>5. f + 1 \in Int /\ Len(q) \in Int /\ \A i \in f + 1 .. Len(q) : q[i] \in Nat
  BY <1>1, <1>3
<1> HIDE DEF f
<1>6. /\ SubSeq(q, f + 1, Len(q)) \in Seq(Nat)
      /\ Len(SubSeq(q, f + 1, Len(q))) = IF f + 1 <= Len(q) THEN Len(q) - (f + 1) + 1 ELSE 0
      /\ \A i \in 1 .. Len(q) - (f + 1) + 1 : SubSeq(q, f + 1, Len(q))[i] = q[f + 1 + i - 1]
  BY <1>5, SubSeqProperties
<1>7. f \in Nat /\ f <= Len(q)
  BY <1>3 DEF f
<1>8. /\ Len(SubSeq(q, f + 1, Len(q))) = Len(q) - f
      /\ \A i \in 1 .. Len(q) - f : SubSeq(q, f + 1, Len(q))[i] = q[f + i]
  <2>1. Len(SubSeq(q, f + 1, Len(q))) = Len(q) - f
    BY <1>1, <1>6, <1>7
  <2>2. ASSUME NEW i \in 1 .. Len(q) - f
        PROVE  SubSeq(q, f + 1, Len(q))[i] = q[f + i]
    <3>1. f + 1 + i - 1 = f + i /\ i \in 1 .. Len(q) - (f + 1) + 1
      BY <1>1, <1>7
    <3>. QED BY <1>6, <3>1
  <2>. QED BY <2>1, <2>2
<1>. QED BY <1>3, <1>4, <1>6, <1>8 DEF f

\* The chunks of what fits: each begins where the one before ends.
LEMMA ChunksAre ==
  ASSUME NEW q \in Seq(Nat), NEW w \in Nat, c.maxpkt \in Nat \ {0}
  PROVE  LET f == Fits(q, w)
             k == (f + c.maxpkt - 1) \div c.maxpkt
             at(i) == IF i * c.maxpkt <= f THEN i * c.maxpkt ELSE f
         IN  /\ Chunks(q, w) \in Seq(Messages) /\ Len(Chunks(q, w)) = k
             /\ at(0) = 0 /\ at(k) = f
             /\ \A i \in 1..k :
                  /\ at(i) \in Nat /\ at(i - 1) \in Nat /\ at(i - 1) < at(i) /\ at(i) <= f
                  /\ Chunks(q, w)[i][1] = "DATA"
                  /\ Chunks(q, w)[i][2] \in Seq(Nat)
                  /\ Len(Chunks(q, w)[i][2]) = at(i) - at(i - 1)
                  /\ \A j \in 1 .. at(i) - at(i - 1) : Chunks(q, w)[i][2][j] = q[at(i - 1) + j]
<1> DEFINE d == c.maxpkt
           f == Fits(q, w)
           k == (f + d - 1) \div d
           at(i) == IF i * d <= f THEN i * d ELSE f
           chunk(i) == SubSeq(q, (i - 1) * d + 1, at(i))
<1>1. d \in Nat /\ d >= 1 /\ f \in Nat /\ f <= Len(q) /\ Len(q) \in Nat
  BY FitsIs
<1>2. k \in Nat /\ k * d >= f /\ (k - 1) * d < f
  <2> HIDE DEF f, d
  <2>. QED BY <1>1, SMT
<1>3. at(0) = 0 /\ at(k) = f
  <2> HIDE DEF f, d, k
  <2>. QED BY <1>1, <1>2, SMT
<1>4. ASSUME NEW i \in 1..k
      PROVE  /\ at(i) \in Nat /\ at(i - 1) \in Nat /\ at(i - 1) < at(i) /\ at(i) <= f
             /\ at(i - 1) = (i - 1) * d
  <2> HIDE DEF f, d, k
  <2>1. (i - 1) * d <= (k - 1) * d
    BY <1>1, <1>2, SMT
  <2>2. (i - 1) * d < f /\ (i - 1) * d \in Nat /\ i * d \in Nat /\ (i - 1) * d < i * d
    BY <1>1, <1>2, <2>1, SMT
  <2>. QED BY <1>1, <2>2, SMT
<1>5. Chunks(q, w) = [i \in 1..k |-> <<"DATA", chunk(i)>>]
  <2>1. ASSUME NEW i \in 1..k
        PROVE  Min({i * c.maxpkt, Fits(q, w)}) = at(i)
    <3>1. i * c.maxpkt \in Int /\ Fits(q, w) \in Int
      BY <1>1, <1>2
    <3>. QED BY <3>1, MinIs
  <2>. QED BY <2>1 DEF Chunks, Msg
<1>6. ASSUME NEW i \in 1..k
      PROVE  /\ chunk(i) \in Seq(Nat) /\ Len(chunk(i)) = at(i) - at(i - 1)
             /\ \A j \in 1 .. at(i) - at(i - 1) : chunk(i)[j] = q[at(i - 1) + j]
  <2> HIDE DEF f, d, k, at
  <2> DEFINE m == at(i - 1) + 1
             n == at(i)
  <2>1. m \in Int /\ n \in Int /\ m <= n /\ \A j \in m..n : q[j] \in Nat
    BY <1>1, <1>4, SMTT(30)
  <2>2. chunk(i) = SubSeq(q, m, n)
    BY <1>4
  <2>3. n - m + 1 = at(i) - at(i - 1)
    BY <1>4
  <2> HIDE DEF m, n, chunk
  <2>4. /\ SubSeq(q, m, n) \in Seq(Nat) /\ Len(SubSeq(q, m, n)) = IF m <= n THEN n - m + 1 ELSE 0
        /\ \A j \in 1 .. n - m + 1 : SubSeq(q, m, n)[j] = q[m + j - 1]
    BY <2>1, SubSeqProperties
  <2>5. ASSUME NEW j \in 1 .. at(i) - at(i - 1)
        PROVE  chunk(i)[j] = q[at(i - 1) + j]
    <3>1. m + j - 1 = at(i - 1) + j
      BY <1>4 DEF m
    <3>. QED BY <2>2, <2>3, <2>4, <3>1
  <2>. QED BY <2>1, <2>2, <2>3, <2>4, <2>5
<1>7. ASSUME NEW i \in 1..k PROVE <<"DATA", chunk(i)>> \in Messages
  BY <1>6, Plainly DEF Msg
<1>8. Chunks(q, w) \in Seq(Messages) /\ Len(Chunks(q, w)) = k
  <2> HIDE DEF k, chunk
  <2>. QED BY <1>2, <1>5, <1>7
<1>9. ASSUME NEW i \in 1..k
      PROVE  Chunks(q, w)[i] = <<"DATA", chunk(i)>>
  BY <1>5
<1> HIDE DEF chunk, at, k, f
<1>10. ASSUME NEW i \in 1..k
       PROVE  /\ Chunks(q, w)[i][1] = "DATA" /\ Chunks(q, w)[i][2] \in Seq(Nat)
              /\ Len(Chunks(q, w)[i][2]) = at(i) - at(i - 1)
              /\ \A j \in 1 .. at(i) - at(i - 1) : Chunks(q, w)[i][2][j] = q[at(i - 1) + j]
  BY <1>6, <1>9
<1>. QED BY <1>3, <1>4, <1>8, <1>10 DEF at, k, f

-----------------------------------------------------------------------------
(* The other steps keep the types.                                           *)

LEMMA AddWindowIs ==
  ASSUME Typed, NEW n \in Nat
  PROVE  AddWindow(n) \in Nat
<1>1. MaxWindow \in Int /\ c.window + n \in Int /\ c.window + n >= 0 /\ MaxWindow >= 0
  BY ChannelAssumption, SMTT(30) DEF Typed, ClientState
<1>. QED BY <1>1, MinIs DEF AddWindow

LEMMA ConsumedTyped ==
  ASSUME Typed, NEW c2 \in ClientState, NEW n \in Nat, Consumed(c2, n)
  PROVE  c' \in ClientState /\ up' \in Seq(Packets)
<1>1. c2.pending + n \in Nat
  BY DEF ClientState
<1>2. \A p \in Nat : [c2 EXCEPT !.pending = p] \in ClientState
  BY ZenonT(30) DEF ClientState
<1>3. <<Msg("ADJUST", c2.pending + n)>> \in Seq(Messages) /\ <<>> \in Seq(Messages)
  BY <1>1, Plainly, One
<1>. QED BY <1>1, <1>2, <1>3, SendsTyped DEF Consumed

LEMMA PumpTyped ==
  ASSUME Typed, Pump
  PROVE  Typed'
<1>0. Arrived /\ down' = Tail(down)
  BY DEF Pump, Skipped, GlobalRequest, EarlyAdjust, Dropped, Adjusted, Output, Exited, ServerEof,
     Closed, Answered, Takes
<1>1. Got \in ClientState /\ down' \in Seq(Packets) /\ Head(down).msg \in Messages
  BY <1>0, TakesTyped
<1>2. \A t \in Plain : <<M(t)>> \in Seq(Messages)
  BY Plainly, One
<1>3. CASE Skipped
  BY <1>0, <1>1, <1>3, One, SentTyped, DieTyped DEF Skipped
<1>4. CASE GlobalRequest
  <2>1. <<M("REQUEST_FAILURE")>> \in Seq(Messages)
    BY <1>2 DEF Plain
  <2>. QED BY <1>0, <1>1, <1>4, <2>1, One, SentTyped, DieTyped DEF GlobalRequest
<1>5. CASE EarlyAdjust
  <2>1. AddWindow(Value) \in Nat
    BY <1>1, <1>5, Carries, AddWindowIs DEF EarlyAdjust, Takes, Packet, Value
  <2>2. [Got EXCEPT !.window = AddWindow(Value)] \in ClientState
    BY <1>1, <2>1, ZenonT(30) DEF ClientState
  <2>. QED BY <1>0, <1>5, <2>2, One, SentTyped DEF EarlyAdjust
<1>6. CASE Dropped \/ ServerEof \/ Answered
  BY <1>0, <1>1, <1>6, One, SentTyped DEF Dropped, ServerEof, Answered
<1>7. CASE Adjusted
  <2> DEFINE w == AddWindow(Value)
             ends == c.eofPending /\ Rest(c.outq, w) = <<>>
  <2>1. w \in Nat /\ c.outq \in Seq(Nat)
    BY <1>1, <1>7, Carries, AddWindowIs DEF Adjusted, Takes, Packet, Value, Typed, ClientState
  <2>2. Rest(c.outq, w) \in Seq(Nat) /\ w - Fits(c.outq, w) \in Nat
    BY <2>1, FitsIs
  <2>3. Got.outq = c.outq /\ (Got.eofPending /\ ~ends) \in BOOLEAN
    BY DEF Got, Typed, ClientState
  <2> DEFINE msgs == Chunks(c.outq, w) \o (IF ends THEN <<M("EOF")>> ELSE <<>>)
  <2>4. msgs \in Seq(Messages)
    <3>1. c.maxpkt \in Nat \ {0}
      BY DEF Typed, ClientState
    <3>2. Chunks(c.outq, w) \in Seq(Messages)
      BY <2>1, <3>1, ChunksAre
    <3>3. <<M("EOF")>> \in Seq(Messages) /\ <<>> \in Seq(Messages)
      BY <1>2, One DEF Plain
    <3>. QED BY <3>2, <3>3
  <2>5. Sent([Got EXCEPT !.window = w - Fits(c.outq, w), !.outq = Rest(c.outq, w),
                         !.eofPending = @ /\ ~ends], msgs)
    BY <1>7, <2>3 DEF Adjusted
  <2> HIDE DEF w, ends, msgs
  <2>6. \A x \in Nat, y \in Seq(Nat), v \in BOOLEAN :
          [Got EXCEPT !.window = x, !.outq = y, !.eofPending = v] \in ClientState
    BY <1>1, ZenonT(30) DEF ClientState
  <2>7. [Got EXCEPT !.window = w - Fits(c.outq, w), !.outq = Rest(c.outq, w),
                    !.eofPending = @ /\ ~ends] \in ClientState
    BY <2>2, <2>3, <2>6
  <2>. QED BY <1>0, <2>4, <2>5, <2>7, SentTyped
<1>8. CASE Output
  <2>1. Value \in Seq(Nat) /\ Len(Value) \in Nat
    BY <1>1, <1>8, Carries DEF Output, Takes, Packet, Value
  <2>2. c' \in ClientState /\ up' \in Seq(Packets)
    BY <1>1, <1>8, <2>1, ConsumedTyped DEF Output
  <2>3. shown' \in Seq(Nat)
    BY <1>8, <2>1 DEF Output, Typed
  <2>. QED BY <1>1, <1>8, <2>2, <2>3 DEF Output, Typed
<1>9. CASE Exited
  <2>1. Value \in AllFates
    BY <1>1, <1>9, Carries DEF Exited, Takes, Packet, Value
  <2> DEFINE x == Status(Value)
  <2>3. x \in {Status(f) : f \in AllFates}
    BY <2>1
  <2> HIDE DEF x
  <2>4. [Got EXCEPT !.exit = x] \in ClientState
    BY <1>1, <2>3, ZenonT(30) DEF ClientState
  <2>2. [Got EXCEPT !.exit = Status(Value)] \in ClientState
    BY <2>4 DEF x
  <2>. QED BY <1>0, <1>9, <2>2, One, SentTyped DEF Exited
<1>10. CASE Closed
  <2>1. [Got EXCEPT !.wait = "over"] \in ClientState
    BY <1>1, ZenonT(30) DEF ClientState, Waits
  <2>2. <<M("CLOSE")>> \in Seq(Messages)
    BY <1>2 DEF Plain
  <2>. QED BY <1>0, <1>10, <2>1, <2>2, SentTyped DEF Closed
<1>. QED BY <1>3, <1>4, <1>5, <1>6, <1>7, <1>8, <1>9, <1>10 DEF Pump

LEMMA UserTyped ==
  ASSUME Typed, User \/ Keepalive \/ GivesUp
  PROVE  Typed'
<1>1. c \in ClientState
  BY DEF Typed
<1>2. \A t \in Plain : <<M(t)>> \in Seq(Messages)
  BY Plainly, One
<1>3. ASSUME NEW n \in 1..MaxBurst, Input(n)
      PROVE  Typed'
  <2> DEFINE data == [i \in 1..n |-> typed + i]
  <2>1. data \in Seq(Nat) /\ typed + n \in Nat
    BY DEF Typed
  <2>2. c.window \in Nat /\ c.maxpkt \in Nat \ {0} /\ c.outq \in Seq(Nat)
    BY <1>1 DEF ClientState
  <2> HIDE DEF data
  <2>3. /\ Rest(data, c.window) \in Seq(Nat) /\ c.window - Fits(data, c.window) \in Nat
        /\ c.outq \o data \in Seq(Nat)
    BY <2>1, <2>2, FitsIs
  <2>6. Chunks(data, c.window) \in Seq(Messages)
    BY <2>1, <2>2, ChunksAre
  <2>7. \A x \in Nat, y \in Seq(Nat) :
          [c EXCEPT !.outq = y] \in ClientState /\ [c EXCEPT !.outq = y, !.window = x] \in ClientState
    BY <1>1, ZenonT(30) DEF ClientState
  <2>4. /\ [c EXCEPT !.outq = @ \o data] \in ClientState
        /\ [c EXCEPT !.outq = Rest(data, c.window),
                     !.window = @ - Fits(data, c.window)] \in ClientState
    BY <2>3, <2>7
  <2>5. c' \in ClientState /\ up' \in Seq(Packets)
    BY <1>3, <2>4, <2>6, One, SendsTyped DEF Input, data
  <2>. QED BY <1>3, <2>1, <2>5 DEF Input, Typed
<1>4. CASE InputEnds
  <2>1. /\ [c EXCEPT !.clientEof = TRUE] \in ClientState
        /\ [[c EXCEPT !.clientEof = TRUE] EXCEPT !.eofPending = TRUE] \in ClientState
    BY <1>1, ZenonT(30) DEF ClientState
  <2>2. <<M("EOF")>> \in Seq(Messages)
    BY <1>2 DEF Plain
  <2>. QED BY <1>4, <2>1, <2>2, One, SentTyped DEF InputEnds
<1>5. CASE WindowChange
  <2>0. c.asks + 1 \in Nat
    BY <1>1 DEF ClientState
  <2>1. [c EXCEPT !.asks = @ + 1] \in ClientState
    BY <1>1, <2>0, ZenonT(30) DEF ClientState
  <2>2. <<M("WINDOW_CHANGE")>> \in Seq(Messages)
    BY <1>2 DEF Plain
  <2>. QED BY <1>5, <2>1, <2>2, SentTyped DEF WindowChange
<1>6. CASE Keepalive
  <2>1. c.asks + 1 \in Int /\ MaxExtra \in Int /\ c.asks + 1 >= 0 /\ MaxExtra >= 0
    BY <1>1, ChannelAssumption DEF ClientState
  <2>2. Min({c.asks + 1, MaxExtra}) \in Nat
    BY <2>1, MinIs
  <2>3. [c EXCEPT !.asked = TRUE, !.asks = Min({@ + 1, MaxExtra})] \in ClientState
    BY <1>1, <2>2, ZenonT(30) DEF ClientState
  <2>4. <<M("KEEPALIVE")>> \in Seq(Messages)
    BY <1>2 DEF Plain
  <2>. QED BY <1>6, <2>3, <2>4, SentTyped DEF Keepalive
<1>7. CASE GivesUp
  BY <1>1, <1>7, DieTyped DEF GivesUp
<1>. QED BY <1>3, <1>4, <1>5, <1>6, <1>7 DEF User

LEMMA ServerTakesTyped ==
  ASSUME Typed, NEW t, ServerTakes(t)
  PROVE  /\ In \in ServerState /\ up' \in Seq(Packets) /\ Head(up) \in Packets
         /\ Head(up).msg \in Messages /\ Head(up).msg[1] = t
         /\ c' \in ClientState /\ typed' \in Nat /\ shown' \in Seq(Nat)
<1>1. up # <<>> /\ up \in Seq(Packets) /\ up' = Tail(up) /\ Head(up).msg[1] = t
  BY DEF ServerTakes, Typed
<1>2. Head(up) \in Packets /\ Tail(up) \in Seq(Packets)
  BY <1>1
<1>3. s.recvSeq + 1 \in Nat
  BY NumberIs, SMTT(30) DEF Typed, ServerState
<1>4. (s.recvSeq + 1) % SeqWrap \in Numbers
  BY <1>3, InNumbers
<1>5. In \in ServerState
  BY <1>4 DEF Typed, ServerState, In
<1>. QED BY <1>1, <1>2, <1>5 DEF Packets, ServerTakes, Typed

LEMMA RepliesTyped ==
  ASSUME Typed, NEW s2 \in ServerState, NEW msgs \in Seq(Messages), Replies(s2, msgs)
  PROVE  s' \in ServerState /\ down' \in Seq(Packets)
<1>1. CASE s.kex = "init"
  <2>1. s2.held \o msgs \in Seq(Messages)
    BY DEF ServerState
  <2>2. [s2 EXCEPT !.held = @ \o msgs] \in ServerState
    BY <2>1, ZenonT(30) DEF ServerState
  <2>. QED BY <1>1, <2>2 DEF Replies, Typed
<1>2. CASE s.kex # "init"
  <2>1. s.sendKey \in Nat /\ s.sendSeq \in Nat /\ s2.sendSeq \in Nat
    BY NumberIs DEF Typed, ServerState
  <2>2. Seal(msgs, s.sendKey, s.sendSeq) \in Seq(Packets)
    BY <2>1, Sealed
  <2>3. (s2.sendSeq + Len(msgs)) % SeqWrap \in Numbers
    BY <2>1, InNumbers
  <2>4. [s2 EXCEPT !.sendSeq = (@ + Len(msgs)) % SeqWrap] \in ServerState
    BY <2>3, ZenonT(30) DEF ServerState
  <2>5. /\ down' = down \o Seal(msgs, s.sendKey, s.sendSeq)
        /\ s' = [s2 EXCEPT !.sendSeq = (@ + Len(msgs)) % SeqWrap]
    BY <1>2 DEF Replies
  <2>. QED BY <2>2, <2>4, <2>5 DEF Typed
<1>. QED BY <1>1, <1>2

LEMMA ReceivesTyped ==
  ASSUME Typed, ServerReceives
  PROVE  Typed'
<1>1. ASSUME NEW t, ServerTakes(t), NEW s2 \in ServerState, s' = s2, UNCHANGED down
      PROVE  Typed'
  BY <1>1, ServerTakesTyped DEF Typed
<1>2. ASSUME NEW t, ServerTakes(t), NEW s2 \in ServerState, NEW msgs \in Seq(Messages),
             Replies(s2, msgs)
      PROVE  Typed'
  BY <1>2, ServerTakesTyped, RepliesTyped DEF Typed
<1>3. \A t \in Plain : M(t) \in Messages /\ <<M(t)>> \in Seq(Messages)
  BY Plainly, One
<1>4. CASE SrvKexInit
  BY <1>1, <1>4, ServerTakesTyped DEF SrvKexInit
<1>5. CASE SrvEcdh
  <2> DEFINE under == Seal(<<M("ECDH_REPLY"), M("NEWKEYS")>>, s.sendKey, s.sendSeq)
             seq == IF s.strict THEN 0 ELSE (s.sendSeq + 2) % SeqWrap
             held == Seal(s.held, s.sendKey + 1, seq)
  <2>1. s.sendKey \in Nat /\ s.sendSeq \in Nat /\ s.held \in Seq(Messages)
    BY NumberIs DEF Typed, ServerState
  <2>2. <<M("ECDH_REPLY"), M("NEWKEYS")>> \in Seq(Messages)
    BY Plainly, One DEF Plain
  <2>3. seq \in Numbers /\ seq \in Nat
    BY <2>1, InNumbers, NumberIs
  <2>4. under \in Seq(Packets)
    BY <2>1, <2>2, Sealed
  <2> HIDE DEF seq
  <2>5. held \in Seq(Packets)
    BY <2>1, <2>3, Sealed
  <2>6. (seq + Len(s.held)) % SeqWrap \in Numbers
    BY <2>1, <2>3, InNumbers
  <2>7. In \in ServerState /\ In.sendKey + 1 \in Nat
    BY <1>5, ServerTakesTyped DEF SrvEcdh, ServerState
  <2>12. \A n \in Numbers, h \in Seq(Messages) :
          [In EXCEPT !.kex = "keys", !.sendKey = @ + 1, !.held = h, !.sendSeq = n] \in ServerState
    BY <2>7, ZenonT(30) DEF ServerState
  <2>8. [In EXCEPT !.kex = "keys", !.sendKey = @ + 1, !.held = <<>>,
                   !.sendSeq = (seq + Len(s.held)) % SeqWrap] \in ServerState
    BY <2>6, <2>12, One
  <2>9. down' = down \o under \o held
    BY <1>5 DEF SrvEcdh, seq
  <2>10. down' \in Seq(Packets)
    <3> HIDE DEF under, held
    <3>. QED BY <2>4, <2>5, <2>9 DEF Typed
  <2>11. s' \in ServerState
    BY <1>5, <2>8 DEF SrvEcdh, seq
  <2>. QED BY <1>5, <2>10, <2>11, ServerTakesTyped DEF SrvEcdh, Typed
<1>6. CASE SrvNewKeys
  <2>1. In \in ServerState /\ In.recvKey + 1 \in Nat /\ In.recvSeq \in Numbers
    BY <1>6, ServerTakesTyped DEF SrvNewKeys, ServerState
  <2>2. (IF s.strict THEN 0 ELSE In.recvSeq) \in Numbers
    BY <2>1, NumberIs
  <2>3. \A n \in Numbers :
          [In EXCEPT !.kex = "idle", !.recvKey = @ + 1, !.recvSeq = n] \in ServerState
    BY <2>1, ZenonT(30) DEF ServerState
  <2>4. [In EXCEPT !.kex = "idle", !.recvKey = @ + 1,
                   !.recvSeq = IF s.strict THEN 0 ELSE @] \in ServerState
    BY <2>2, <2>3
  <2>. QED BY <1>1, <1>6, <2>4 DEF SrvNewKeys
<1>7. CASE SrvLogin
  <2>1. In \in ServerState
    BY <1>7, ServerTakesTyped DEF SrvLogin
  <2>2. /\ <<M("SERVICE_ACCEPT")>> \in Seq(Messages) /\ <<M("PK_OK")>> \in Seq(Messages)
        /\ <<M("AUTH_SUCCESS")>> \in Seq(Messages) /\ <<M("REFUSED")>> \in Seq(Messages)
        /\ <<M("BANNER"), M("AUTH_SUCCESS")>> \in Seq(Messages)
        /\ <<M("SUCCESS")>> \in Seq(Messages) /\ <<M("FAILURE")>> \in Seq(Messages)
    BY <1>3, One DEF Plain
  <2>3. CASE \/ ServerTakes("SERVICE_REQUEST") /\ Replies(In, <<M("SERVICE_ACCEPT")>>)
             \/ ServerTakes("OPEN") /\ Replies(In, <<M("REFUSED")>>)
             \/ ServerTakes("EXEC") /\ Replies(In, <<M("FAILURE")>>)
    BY <1>2, <2>1, <2>2, <2>3
  <2>4. CASE ServerTakes("PROBE") /\ \E a \in {<<M("PK_OK")>>, <<M("AUTH_SUCCESS")>>, <<M("REFUSED")>>} :
                                Replies(In, a)
    BY <1>2, <2>1, <2>2, <2>4
  <2>5. CASE ServerTakes("AUTH") /\ \E a \in {<<M("BANNER"), M("AUTH_SUCCESS")>>, <<M("REFUSED")>>} :
                                Replies(In, a)
    BY <1>2, <2>1, <2>2, <2>5
  <2>6. CASE ServerTakes("PTY_REQ") /\ \E a \in {"SUCCESS", "FAILURE"} : Replies(In, <<M(a)>>)
    BY <1>2, <2>1, <2>2, <2>6
  <2>7. ASSUME NEW w \in Windows \cup {0}, NEW p \in MaxPkts, ServerTakes("OPEN"),
               Replies([In EXCEPT !.room = w, !.window = WindowSize], <<Msg("CONFIRM", <<w, p>>)>>)
        PROVE  Typed'
    <3>1. w \in Nat /\ p \in Nat \ {0} /\ WindowSize \in Int
      BY ChannelAssumption
    <3>2. <<Msg("CONFIRM", <<w, p>>)>> \in Seq(Messages)
      BY <3>1, Plainly, One
    <3>4. \A x \in Int, y \in Int : [In EXCEPT !.room = x, !.window = y] \in ServerState
      BY <2>1, ZenonT(30) DEF ServerState
    <3>5. w \in Int /\ WindowSize \in Int
      BY <3>1
    <3>3. [In EXCEPT !.room = w, !.window = WindowSize] \in ServerState
      BY <3>4, <3>5
    <3>. QED BY <1>2, <2>7, <3>2, <3>3
  <2>8. ASSUME NEW w \in Windows, NEW f \in EarlyFates \cup {<<>>}, ServerTakes("EXEC"),
               Replies([In EXCEPT !.stage = "running", !.room = @ + w, !.early = f # <<>>, !.fate = f],
                       <<Msg("ADJUST", w)>> \o (IF f = <<>> THEN <<>> ELSE <<Msg("EXIT", f)>>)
                         \o <<M("SUCCESS")>>)
        PROVE  Typed'
    <3>1. w \in Nat /\ In.room + w \in Int
      BY <2>1, ChannelAssumption, SMTT(30) DEF ServerState
    <3>2. /\ <<Msg("ADJUST", w)>> \in Seq(Messages)
          /\ (IF f = <<>> THEN <<>> ELSE <<Msg("EXIT", f)>>) \in Seq(Messages)
      BY <3>1, Plainly, One DEF AllFates
    <3>3. \A e \in BOOLEAN :
            [In EXCEPT !.stage = "running", !.room = @ + w, !.early = e, !.fate = f] \in ServerState
      BY <2>1, <3>1, ZenonT(30) DEF ServerState, AllFates
    <3>4. [In EXCEPT !.stage = "running", !.room = @ + w, !.early = f # <<>>, !.fate = f] \in ServerState
      BY <3>3
    <3> DEFINE exit == IF f = <<>> THEN <<>> ELSE <<Msg("EXIT", f)>>
    <3> HIDE DEF exit
    <3>5. <<Msg("ADJUST", w)>> \o exit \o <<M("SUCCESS")>> \in Seq(Messages)
      BY <2>2, <3>2 DEF exit
    <3>. QED BY <1>2, <2>8, <3>4, <3>5 DEF exit
  <2>. QED BY <1>7, <2>3, <2>4, <2>5, <2>6, <2>7, <2>8 DEF SrvLogin
<1>8. CASE SrvInput
  <2> DEFINE data == Head(up).msg[2]
  <2>1. In \in ServerState /\ data \in Seq(Nat)
    BY <1>8, ServerTakesTyped, Carries DEF SrvInput
  <2> HIDE DEF data
  <2>2. In.got \o data \in Seq(Nat) /\ In.unread + Len(data) \in Nat /\ In.room - Len(data) \in Int
    BY <2>1 DEF ServerState
  <2>3. [In EXCEPT !.got = @ \o data, !.unread = @ + Len(data), !.room = @ - Len(data)] \in ServerState
    BY <2>1, <2>2, ZenonT(30) DEF ServerState
  <2>. QED BY <1>1, <1>8, <2>3 DEF SrvInput, data
<1>9. CASE SrvEof
  <2>1. [In EXCEPT !.gotEof = TRUE] \in ServerState
    BY <1>9, ServerTakesTyped, ZenonT(30) DEF SrvEof, ServerState
  <2>. QED BY <1>1, <1>9, <2>1 DEF SrvEof
<1>10. CASE SrvAdjust
  <2>1. In \in ServerState /\ Head(up).msg[2] \in Nat
    BY <1>10, ServerTakesTyped, Carries DEF SrvAdjust
  <2>2. In.window + Head(up).msg[2] \in Int
    BY <2>1, SMTT(30) DEF ServerState
  <2>3. [In EXCEPT !.window = @ + Head(up).msg[2]] \in ServerState
    BY <2>1, <2>2, ZenonT(30) DEF ServerState
  <2>. QED BY <1>1, <1>10, <2>3 DEF SrvAdjust
<1>11. CASE SrvAnswer
  <2>1. <<M("REQUEST_FAILURE")>> \in Seq(Messages)
    BY <1>3 DEF Plain
  <2>. QED BY <1>2, <1>11, <2>1, ServerTakesTyped DEF SrvAnswer
<1>12. CASE SrvNoted
  BY <1>1, <1>12, ServerTakesTyped DEF SrvNoted
<1>. QED BY <1>4, <1>5, <1>6, <1>7, <1>8, <1>9, <1>10, <1>11, <1>12 DEF ServerReceives

LEMMA ServerSendsTyped ==
  ASSUME Typed, ServerSends \/ Vanish
  PROVE  Typed'
<1>1. ASSUME NEW s2 \in ServerState, NEW msgs \in Seq(Messages), Serves(s2, msgs)
      PROVE  Typed'
  BY <1>1, RepliesTyped DEF Typed, Serves
<1>2. \A t \in Plain : M(t) \in Messages /\ <<M(t)>> \in Seq(Messages)
  BY Plainly, One
<1>3. s \in ServerState
  BY DEF Typed
<1>4. ASSUME NEW n \in 1..2, SrvOutput(n)
      PROVE  Typed'
  <2>1. PICK t \in Streams :
          Serves([s EXCEPT !.sent = @ + n, !.window = @ - n], <<Msg(t, [i \in 1..n |-> s.sent + i])>>)
    BY <1>4 DEF SrvOutput
  <2>2. s.sent \in Nat /\ s.sent + n \in Nat /\ s.window - n \in Int
    BY <1>3 DEF ServerState
  <2>3. [s EXCEPT !.sent = @ + n, !.window = @ - n] \in ServerState
    BY <1>3, <2>2, ZenonT(30) DEF ServerState
  <2>4. [i \in 1..n |-> s.sent + i] \in Seq(Nat)
    BY <2>2
  <2>5. <<Msg(t, [i \in 1..n |-> s.sent + i])>> \in Seq(Messages)
    BY <2>4, Plainly, One, ChannelAssumption
  <2>. QED BY <1>1, <2>1, <2>3, <2>5
<1>5. CASE SrvGrant
  <2>1. s.unread \in Nat /\ s.room + s.unread \in Int
    BY <1>3 DEF ServerState
  <2>2. [s EXCEPT !.unread = 0, !.room = @ + s.unread] \in ServerState
    BY <1>3, <2>1, ZenonT(30) DEF ServerState
  <2>3. <<Msg("ADJUST", s.unread)>> \in Seq(Messages)
    BY <2>1, Plainly, One
  <2>. QED BY <1>1, <1>5, <2>2, <2>3 DEF SrvGrant
<1>6. CASE SrvSpare
  <2>1. MaxWindow \in Nat /\ s.extra + 1 \in Nat /\ s.room + MaxWindow \in Int
    <3>1. MaxWindow \in Nat /\ s.extra \in Nat /\ s.room \in Int
      BY <1>3, ChannelAssumption DEF ServerState
    <3>. QED BY ONLY <3>1
  <2>2. [s EXCEPT !.extra = @ + 1, !.room = @ + MaxWindow] \in ServerState
    BY <1>3, <2>1, ZenonT(30) DEF ServerState
  <2>3. <<Msg("ADJUST", MaxWindow)>> \in Seq(Messages)
    BY <2>1, Plainly, One
  <2>. QED BY <1>1, <1>6, <2>2, <2>3 DEF SrvSpare
<1>7. CASE SrvNoise
  <2>1. s.extra + 1 \in Nat
    BY <1>3 DEF ServerState
  <2>2. [s EXCEPT !.extra = @ + 1] \in ServerState
    BY <1>3, <2>1, ZenonT(30) DEF ServerState
  <2>3. \A m \in {M("IGNORE"), Msg("GLOBAL_REQUEST", 1)} : <<m>> \in Seq(Messages)
    BY <1>2, Plainly, One DEF Plain
  <2>. QED BY <1>1, <1>7, <2>2, <2>3 DEF SrvNoise
<1>8. CASE SrvRekey
  <2>10. s.sendKey \in Nat /\ s.sendSeq \in Nat /\ s.rekeys \in Nat
    BY <1>3, NumberIs DEF ServerState
  <2>1. s.sendKey \in Nat /\ s.sendSeq \in Nat /\ s.sendSeq + 1 \in Nat /\ s.rekeys + 1 \in Nat
    BY ONLY <2>10
  <2>2. <<M("KEXINIT")>> \in Seq(Messages)
    BY <1>2 DEF Plain
  <2>3. Seal(<<M("KEXINIT")>>, s.sendKey, s.sendSeq) \in Seq(Packets)
    BY <2>1, <2>2, Sealed
  <2>4. (s.sendSeq + 1) % SeqWrap \in Numbers
    BY <2>1, InNumbers
  <2>5. [s EXCEPT !.kex = "init", !.rekeys = @ + 1, !.sendSeq = (@ + 1) % SeqWrap] \in ServerState
    BY <1>3, <2>1, <2>4, ZenonT(30) DEF ServerState
  <2>6. down' = down \o Seal(<<M("KEXINIT")>>, s.sendKey, s.sendSeq) /\ s' \in ServerState
    BY <1>8, <2>5 DEF SrvRekey
  <2>. QED BY <1>8, <2>3, <2>6, SMTT(30) DEF SrvRekey, Typed
<1>9. CASE SrvExit
  <2>1. PICK f \in IF s.early THEN {<<>>} ELSE Fates \cup {<<>>} :
          Serves([s EXCEPT !.stage = "exited", !.fate = IF s.early THEN @ ELSE f],
                 <<M("EOF")>> \o (IF f = <<>> THEN <<>> ELSE <<Msg("EXIT", f)>>))
    BY <1>9 DEF SrvExit
  <2>2. f \in AllFates \cup {<<>>} /\ s.fate \in AllFates \cup {<<>>}
    BY <1>3 DEF AllFates, ServerState
  <2>3. \A g \in AllFates \cup {<<>>} : [s EXCEPT !.stage = "exited", !.fate = g] \in ServerState
    BY <1>3, ZenonT(30) DEF ServerState
  <2>4. [s EXCEPT !.stage = "exited", !.fate = IF s.early THEN @ ELSE f] \in ServerState
    BY <2>2, <2>3
  <2> DEFINE exit == IF f = <<>> THEN <<>> ELSE <<Msg("EXIT", f)>>
  <2>5. exit \in Seq(Messages) /\ <<M("EOF")>> \in Seq(Messages)
    BY <1>2, <2>2, Plainly, One DEF Plain
  <2> HIDE DEF exit
  <2>6. <<M("EOF")>> \o exit \in Seq(Messages)
    BY <2>5
  <2>. QED BY <1>1, <2>1, <2>4, <2>6 DEF exit
<1>10. CASE SrvClose
  <2>1. [s EXCEPT !.stage = "closing"] \in ServerState
    BY <1>3, ZenonT(30) DEF ServerState
  <2>2. <<M("CLOSE")>> \in Seq(Messages)
    BY <1>2 DEF Plain
  <2>. QED BY <1>1, <1>10, <2>1, <2>2 DEF SrvClose
<1>11. CASE Vanish
  <2>1. PICK stuck \in BOOLEAN : s' = [s EXCEPT !.gone = TRUE, !.stuck = stuck]
    BY <1>11 DEF Vanish
  <2>2. [s EXCEPT !.gone = TRUE, !.stuck = stuck] \in ServerState
    BY <1>3, ZenonT(30) DEF ServerState
  <2>. QED BY <1>11, <2>1, <2>2 DEF Vanish, Typed
<1>. QED BY <1>4, <1>5, <1>6, <1>7, <1>8, <1>9, <1>10, <1>11 DEF ServerSends

LEMMA InitTyped == Init => Typed
<1> SUFFICES ASSUME Init PROVE Typed
  OBVIOUS
<1>1. 0 \in Numbers /\ 1 \in Numbers
  BY ChannelAssumption DEF Numbers
<1>2. c \in ClientState
  BY <1>1 DEF Init, ClientState, Waits
<1>3. PICK strict \in Strict : 
         /\ down = Seal(<<Msg("KEXINIT", IF strict THEN 1 ELSE 0)>>, 0, 0)
         /\ s = [kex |-> "init", sendKey |-> 0, sendSeq |-> 1, recvKey |-> 0, recvSeq |-> 0,
                strict |-> strict, stage |-> "login", window |-> 0, room |-> 0, unread |-> 0,
                got |-> <<>>, gotEof |-> FALSE, sent |-> 0, fate |-> <<>>, rekeys |-> 0,
                extra |-> 0, held |-> <<>>, early |-> FALSE, gone |-> FALSE, stuck |-> FALSE]
  BY DEF Init
<1>4. strict \in BOOLEAN
  BY ChannelAssumption
<1>5. s \in ServerState
  BY <1>1, <1>3, <1>4 DEF ServerState
<1>6. <<Msg("KEXINIT", IF strict THEN 1 ELSE 0)>> \in Seq(Messages)
  BY Plainly, One
<1>7. down \in Seq(Packets)
  BY <1>3, <1>6, Sealed
<1>8. up \in Seq(Packets)
  <2>1. <<M("KEXINIT")>> \in Seq(Messages)
    BY Plainly, One DEF Plain
  <2>. QED BY <2>1, Sealed DEF Init
<1>. QED BY <1>2, <1>5, <1>7, <1>8 DEF Init, Typed

LEMMA NextTyped ==
  ASSUME Typed, [Next]_vars
  PROVE  Typed'
<1>1. CASE UNCHANGED vars
  BY <1>1 DEF Typed, vars
<1>. QED
  BY <1>1, HandshakeTyped, PumpTyped, UserTyped, ReceivesTyped, ServerSendsTyped DEF Next, Client

-----------------------------------------------------------------------------
(* Keys.  The numbers of the packets on their way follow each other from the *)
(* receiver's to the sender's, with the key changed behind each NEWKEYS.     *)

At(q, i, to) == IF i <= Len(q) THEN <<q[i].key, q[i].seq>> ELSE to
After(p, strict) ==
  IF p.msg[1] = "NEWKEYS" THEN <<p.key + 1, IF strict THEN 0 ELSE (p.seq + 1) % SeqWrap>>
  ELSE <<p.key, (p.seq + 1) % SeqWrap>>
Numbered(q, from, to, strict) ==
  /\ At(q, 1, to) = from
  /\ \A i \in 1..Len(q) : At(q, i + 1, to) = After(q[i], strict)

\* Before the client has read the server's first packet.
Fresh ==
  /\ s.kex = "init" /\ Len(down) = 1
  /\ down[1].msg = <<"KEXINIT", IF s.strict THEN 1 ELSE 0>>
  /\ \A i \in 1..Len(up) : up[i].msg[1] \notin {"ECDH_INIT", "NEWKEYS"}

KeyInv ==
  Alive =>
    /\ Numbered(down, <<c.recvKey, c.recvSeq>>, <<s.sendKey, s.sendSeq>>, s.strict)
    /\ Numbered(up, <<s.recvKey, s.recvSeq>>, <<c.sendKey, c.sendSeq>>, s.strict)
    /\ c.back # "kexinit"
    /\ IF c.wait = "kexinit" THEN Fresh ELSE c.strict = s.strict
    /\ \A i \in 1..Len(s.held) : s.held[i][1] # "NEWKEYS"

LEMMA HeadTail ==
  ASSUME NEW S, NEW q \in Seq(S), q # <<>>
  PROVE  /\ Len(q) \in Nat /\ Len(q) >= 1 /\ Head(q) = q[1] /\ Tail(q) \in Seq(S)
         /\ Len(Tail(q)) = Len(q) - 1
         /\ \A i \in 1 .. Len(q) - 1 : Tail(q)[i] = q[i + 1]
OBVIOUS

LEMMA Joined ==
  ASSUME NEW S, NEW q \in Seq(S), NEW r \in Seq(S)
  PROVE  /\ q \o r \in Seq(S) /\ Len(q) \in Nat /\ Len(r) \in Nat
         /\ Len(q \o r) = Len(q) + Len(r)
         /\ \A i \in 1..Len(q) : (q \o r)[i] = q[i]
         /\ \A i \in Len(q) + 1 .. Len(q) + Len(r) : (q \o r)[i] = r[i - Len(q)]
OBVIOUS

LEMMA NumberedTail ==
  ASSUME NEW q \in Seq(Packets), q # <<>>, NEW from, NEW to, NEW strict,
         Numbered(q, from, to, strict)
  PROVE  from = <<Head(q).key, Head(q).seq>> /\ Numbered(Tail(q), After(Head(q), strict), to, strict)
<1>1. /\ Len(q) \in Nat /\ Len(q) >= 1 /\ Head(q) = q[1] /\ Tail(q) \in Seq(Packets)
      /\ Len(Tail(q)) = Len(q) - 1
      /\ \A i \in 1 .. Len(q) - 1 : Tail(q)[i] = q[i + 1]
  BY HeadTail
<1>2. \A i \in 1..Len(q) : At(Tail(q), i, to) = At(q, i + 1, to)
  BY <1>1 DEF At
<1>3. from = <<Head(q).key, Head(q).seq>> /\ At(Tail(q), 1, to) = After(Head(q), strict)
  BY <1>1, <1>2 DEF Numbered, At
<1>4. ASSUME NEW i \in 1..Len(Tail(q))
      PROVE  At(Tail(q), i + 1, to) = After(Tail(q)[i], strict)
  <2>1. i + 1 \in 1..Len(q) /\ Tail(q)[i] = q[i + 1]
    BY <1>1
  <2>2. At(q, (i + 1) + 1, to) = After(q[i + 1], strict)
    BY <2>1 DEF Numbered
  <2>. QED BY <1>2, <2>1, <2>2
<1>. QED BY <1>3, <1>4 DEF Numbered

LEMMA NumberedSeal ==
  ASSUME NEW q \in Seq(Packets), NEW from, NEW key \in Nat, NEW seq \in Numbers, NEW strict,
         NEW msgs \in Seq(Messages), \A i \in 1..Len(msgs) : msgs[i][1] # "NEWKEYS",
         Numbered(q, from, <<key, seq>>, strict)
  PROVE  Numbered(q \o Seal(msgs, key, seq), from, <<key, (seq + Len(msgs)) % SeqWrap>>, strict)
<1> DEFINE r == Seal(msgs, key, seq)
           x == q \o r
           to == <<key, (seq + Len(msgs)) % SeqWrap>>
           a == Len(q)
           b == Len(msgs)
<1>0. seq \in Nat /\ seq % SeqWrap = seq /\ b \in Nat /\ a \in Nat
  BY NumberIs
<1>1. /\ r \in Seq(Packets) /\ Len(r) = b
      /\ \A i \in 1..b :
            r[i].key = key /\ r[i].seq = (seq + i - 1) % SeqWrap /\ r[i].msg = msgs[i]
  BY <1>0, Sealed
<1> HIDE DEF r
<1>2. /\ Len(x) = a + b
      /\ \A i \in 1..a : x[i] = q[i]
      /\ \A i \in a + 1 .. a + b : x[i] = r[i - a]
  BY <1>1, Joined
<1>3. to = <<key, (seq + b) % SeqWrap>>
  OBVIOUS
<1> HIDE DEF x, to, a, b
<1>4. ASSUME NEW i \in a + 1 .. a + b + 1
      PROVE  At(x, i, to) = <<key, (seq + (i - a) - 1) % SeqWrap>>
  <2>1. CASE i <= a + b
    <3>1. i \in a + 1 .. a + b /\ i - a \in 1..b
      BY <1>0, <2>1
    <3>. QED BY <1>1, <1>2, <2>1, <3>1 DEF At
  <2>2. CASE i = a + b + 1
    <3>1. seq + (i - a) - 1 = seq + b /\ ~(i <= Len(x))
      BY <1>0, <1>2, <2>2
    <3>. QED BY <1>3, <3>1 DEF At
  <2>. QED BY <1>0, <2>1, <2>2
<1>5. ASSUME NEW i \in 1 .. a + 1
      PROVE  At(x, i, to) = At(q, i, <<key, seq>>)
  <2>1. CASE i <= a
    BY <1>0, <1>2, <2>1 DEF At, a
  <2>2. CASE i = a + 1
    <3>1. At(q, i, <<key, seq>>) = <<key, seq>>
      BY <1>0, <2>2 DEF At, a
    <3>2. i \in a + 1 .. a + b + 1 /\ seq + (i - a) - 1 = seq
      BY <1>0, <2>2
    <3>. QED BY <1>0, <1>4, <3>1, <3>2
  <2>. QED BY <1>0, <2>1, <2>2
<1>6. ASSUME NEW i \in 1..Len(x)
      PROVE  At(x, i + 1, to) = After(x[i], strict)
  <2>1. CASE i <= a
    <3>1. i \in 1..a /\ i \in 1..Len(q) /\ i + 1 \in 1 .. a + 1
      BY <1>0, <2>1 DEF a
    <3>2. At(q, i + 1, <<key, seq>>) = After(q[i], strict)
      BY <3>1 DEF Numbered
    <3>. QED BY <1>2, <1>5, <3>1, <3>2
  <2>2. CASE i > a
    <3> DEFINE n == seq + (i - a) - 1
    <3>1. /\ i \in a + 1 .. a + b /\ i - a \in 1..b /\ i + 1 \in a + 1 .. a + b + 1
          /\ n \in Nat /\ n + 1 = seq + ((i + 1) - a) - 1
      BY <1>0, <1>2, <2>2
    <3>2. At(x, i + 1, to) = <<key, (n + 1) % SeqWrap>>
      BY <1>4, <3>1
    <3>3. x[i].key = key /\ x[i].seq = n % SeqWrap /\ x[i].msg[1] # "NEWKEYS"
      BY <1>1, <1>2, <3>1, SMTT(30) DEF b
    <3>4. ((n % SeqWrap) + 1) % SeqWrap = (n + 1) % SeqWrap
      BY <3>1, ModSucc, ChannelAssumption
    <3>. QED BY <3>2, <3>3, <3>4 DEF After
  <2>. QED BY <1>0, <1>2, <2>1, <2>2
<1>7. At(x, 1, to) = from
  BY <1>0, <1>5, SMTT(30) DEF Numbered
<1>. QED BY <1>6, <1>7 DEF Numbered, r, x, to, b

LEMMA NumberedNewKeys ==
  ASSUME NEW q \in Seq(Packets), NEW from, NEW key \in Nat, NEW seq \in Numbers, NEW strict,
         Numbered(q, from, <<key, seq>>, strict)
  PROVE  Numbered(q \o Seal(<<M("NEWKEYS")>>, key, seq), from,
                  <<key + 1, IF strict THEN 0 ELSE (seq + 1) % SeqWrap>>, strict)
<1> DEFINE m == <<M("NEWKEYS")>>
           r == Seal(m, key, seq)
           x == q \o r
           to == <<key + 1, IF strict THEN 0 ELSE (seq + 1) % SeqWrap>>
           a == Len(q)
<1>0. seq \in Nat /\ seq % SeqWrap = seq /\ a \in Nat /\ seq + 1 - 1 = seq
  BY NumberIs
<1>1. m \in Seq(Messages) /\ Len(m) = 1 /\ m[1] = M("NEWKEYS")
  BY Plainly, One DEF Plain
<1> HIDE DEF m
<1>2. /\ r \in Seq(Packets) /\ Len(r) = Len(m)
      /\ \A i \in 1..Len(m) :
            r[i].key = key /\ r[i].seq = (seq + i - 1) % SeqWrap /\ r[i].msg = m[i]
  BY <1>0, <1>1, Sealed
<1>3. /\ Len(r) = 1 /\ r[1].key = key /\ r[1].seq = seq /\ r[1].msg[1] = "NEWKEYS"
  BY <1>0, <1>1, <1>2 DEF M, Msg
<1> HIDE DEF r
<1>11. q \in Seq(Packets) /\ r \in Seq(Packets)
  BY <1>2
<1>10. /\ Len(x) = a + Len(r)
       /\ \A i \in 1..a : x[i] = q[i]
       /\ \A i \in a + 1 .. a + Len(r) : x[i] = r[i - a]
  BY ONLY <1>11, Joined
<1>4. /\ Len(x) = a + 1
      /\ \A i \in 1..a : x[i] = q[i]
      /\ \A i \in a + 1 .. a + Len(r) : x[i] = r[i - a]
  BY <1>3, <1>10
<1>5. x[a + 1] = r[1]
  <2>1. a + 1 \in a + 1 .. a + Len(r) /\ (a + 1) - a = 1
    BY <1>0, <1>3
  <2>. QED BY <1>4, <2>1
<1>9. to = After(r[1], strict)
  BY <1>3 DEF After
<1> HIDE DEF x, to, a
<1>6. ASSUME NEW i \in 1 .. a + 1
      PROVE  At(x, i, to) = At(q, i, <<key, seq>>)
  <2>1. CASE i <= a
    BY <1>0, <1>4, <2>1 DEF At, a
  <2>2. CASE i = a + 1
    BY <1>0, <1>3, <1>4, <1>5, <2>2 DEF At, a
  <2>. QED BY <1>0, <2>1, <2>2
<1>7. ASSUME NEW i \in 1..Len(x)
      PROVE  At(x, i + 1, to) = After(x[i], strict)
  <2>1. CASE i <= a
    <3>1. i \in 1..a /\ i \in 1..Len(q) /\ i + 1 \in 1 .. a + 1
      BY <1>0, <2>1 DEF a
    <3>2. At(q, i + 1, <<key, seq>>) = After(q[i], strict)
      BY <3>1 DEF Numbered
    <3>. QED BY <1>4, <1>6, <3>1, <3>2
  <2>2. CASE i = a + 1
    BY <1>0, <1>4, <1>5, <1>9, <2>2 DEF At
  <2>. QED BY <1>0, <1>4, <2>1, <2>2
<1>8. At(x, 1, to) = from
  BY <1>0, <1>6 DEF Numbered
<1>. QED BY <1>7, <1>8 DEF Numbered, r, x, to, m

\* A step of the client that changes no key: it sends `msgs', and takes a
\* packet, which is not NEWKEYS, or none.
ClientKeeps(msgs) ==
  /\ msgs \in Seq(Messages) /\ \A i \in 1..Len(msgs) : msgs[i][1] # "NEWKEYS"
  /\ up' = up \o Seal(msgs, c.sendKey, c.sendSeq)
  /\ c'.sendKey = c.sendKey /\ c'.sendSeq = (c.sendSeq + Len(msgs)) % SeqWrap
  /\ c'.recvKey = c.recvKey /\ c'.wait # "kexinit" /\ c'.back # "kexinit"
  /\ c'.strict = s.strict /\ s' = s
  /\ \/ down' = down /\ c'.recvSeq = c.recvSeq
     \/ down # <<>> /\ down' = Tail(down) /\ Packet # "NEWKEYS" /\ c'.recvSeq = Taken

LEMMA ClientKeepsKeys ==
  ASSUME Typed, KeyInv, Alive, NEW msgs, ClientKeeps(msgs)
  PROVE  KeyInv'
<1>1. c.sendKey \in Nat /\ c.sendSeq \in Numbers /\ up \in Seq(Packets) /\ down \in Seq(Packets)
  BY DEF Typed, ClientState
<1>2. Numbered(up', <<s.recvKey, s.recvSeq>>, <<c'.sendKey, c'.sendSeq>>, s.strict)
  <2>1. Numbered(up, <<s.recvKey, s.recvSeq>>, <<c.sendKey, c.sendSeq>>, s.strict)
    BY DEF KeyInv
  <2>2. msgs \in Seq(Messages) /\ \A i \in 1..Len(msgs) : msgs[i][1] # "NEWKEYS"
    BY DEF ClientKeeps
  <2>. QED BY <1>1, <2>1, <2>2, NumberedSeal DEF ClientKeeps
<1>3. Numbered(down', <<c'.recvKey, c'.recvSeq>>, <<s.sendKey, s.sendSeq>>, s.strict)
  <2>1. Numbered(down, <<c.recvKey, c.recvSeq>>, <<s.sendKey, s.sendSeq>>, s.strict)
    BY DEF KeyInv
  <2>2. CASE down' = down /\ c'.recvSeq = c.recvSeq
    BY <2>1, <2>2 DEF ClientKeeps
  <2>3. CASE down # <<>> /\ down' = Tail(down) /\ Packet # "NEWKEYS" /\ c'.recvSeq = Taken
    <3>1. <<c.recvKey, c.recvSeq>> = <<Head(down).key, Head(down).seq>>
          /\ Numbered(Tail(down), After(Head(down), s.strict), <<s.sendKey, s.sendSeq>>, s.strict)
      BY <1>1, <2>1, <2>3, NumberedTail
    <3>2. After(Head(down), s.strict) = <<c'.recvKey, c'.recvSeq>>
      BY <2>3, <3>1 DEF After, Packet, Taken, ClientKeeps
    <3>. QED BY <2>3, <3>1, <3>2
  <2>. QED BY <2>2, <2>3 DEF ClientKeeps
<1>. QED BY <1>2, <1>3 DEF KeyInv, ClientKeeps

\* As long as the server's first packet is not read it is the one to read.
LEMMA FreshFirst ==
  ASSUME Typed, KeyInv, Arrived, c.wait = "kexinit"
  PROVE  Packet = "KEXINIT" /\ (Value = 1 <=> s.strict)
<1>1. Len(down) = 1 /\ down[1].msg = <<"KEXINIT", IF s.strict THEN 1 ELSE 0>> /\ down \in Seq(Packets)
  BY DEF KeyInv, Fresh, Arrived, Typed
<1>2. Head(down) = down[1]
  BY <1>1
<1>. QED BY <1>1, <1>2 DEF Packet, Value

\* What a client that goes on with `c2' sends under its own key keeps them.
LEMMA SentKeepsKeys ==
  ASSUME Typed, KeyInv, Arrived, Packet # "NEWKEYS", down' = Tail(down),
         NEW c2, c2 \in ClientState, c2.sendKey = c.sendKey, c2.sendSeq = c.sendSeq,
         c2.recvKey = c.recvKey, c2.recvSeq = Taken, c2.strict = s.strict,
         c2.wait # "kexinit", c2.back # "kexinit",
         NEW msgs \in Seq(Messages), \A i \in 1..Len(msgs) : msgs[i][1] # "NEWKEYS",
         Sends(c2, msgs), s' = s
  PROVE  KeyInv'
<1>1. ClientKeeps(msgs)
  <2>1. c' = [c2 EXCEPT !.sendSeq = (c.sendSeq + Len(msgs)) % SeqWrap]
        /\ up' = up \o Seal(msgs, c.sendKey, c.sendSeq)
    BY DEF Sends
  <2>2. /\ c'.sendKey = c.sendKey /\ c'.sendSeq = (c.sendSeq + Len(msgs)) % SeqWrap
        /\ c'.recvKey = c.recvKey /\ c'.wait # "kexinit" /\ c'.back # "kexinit"
        /\ c'.strict = s.strict /\ c'.recvSeq = Taken
    BY <2>1 DEF ClientState
  <2>. QED BY <2>1, <2>2 DEF ClientKeeps, Arrived
<1>. QED BY <1>1, ClientKeepsKeys DEF Arrived

LEMMA DeadKeys ==
  ASSUME NEW c2 \in ClientState, Die(c2)
  PROVE  KeyInv'
<1>1. c'.wait = "died"
  BY DEF Die, ClientState
<1>. QED BY <1>1 DEF KeyInv, Alive

LEMMA PlainMsgs ==
  \A t \in Plain \ {"NEWKEYS"} :
     /\ <<M(t)>> \in Seq(Messages) /\ \A i \in 1..Len(<<M(t)>>) : <<M(t)>>[i][1] # "NEWKEYS"
<1> SUFFICES ASSUME NEW t \in Plain \ {"NEWKEYS"}
             PROVE  /\ <<M(t)>> \in Seq(Messages)
                    /\ \A i \in 1..Len(<<M(t)>>) : <<M(t)>>[i][1] # "NEWKEYS"
  OBVIOUS
<1>1. <<M(t)>> \in Seq(Messages)
  BY Plainly, One
<1>2. Len(<<M(t)>>) = 1 /\ <<M(t)>>[1] = M(t) /\ M(t)[1] = t
  BY DEF M, Msg
<1>. QED BY <1>1, <1>2

LEMMA HandshakeKeys ==
  ASSUME Typed, KeyInv, Handshake
  PROVE  KeyInv'
<1>0. Arrived /\ down' = Tail(down) /\ Opens(Head(down))
  BY DEF Handshake, KexInit, Rekey, EcdhReply, NewKeys, Service, Banner, Probed, Authenticated,
     Refused, Opened, PtyAnswered, Started, NotStarted, Takes
<1>1. Got \in ClientState /\ c \in ClientState
  BY <1>0, TakesTyped DEF Typed
<1>2. /\ Got.sendKey = c.sendKey /\ Got.sendSeq = c.sendSeq /\ Got.recvKey = c.recvKey
      /\ Got.recvSeq = Taken /\ Got.strict = c.strict /\ Got.wait = c.wait /\ Got.back = c.back
  BY <1>1 DEF Got, ClientState
<1>3. c.back # "kexinit" /\ (c.wait # "kexinit" => c.strict = s.strict)
  BY <1>0 DEF KeyInv, Arrived
<1>4. \A t \in Plain \ {"NEWKEYS"} :
        /\ <<M(t)>> \in Seq(Messages) /\ \A i \in 1..Len(<<M(t)>>) : <<M(t)>>[i][1] # "NEWKEYS"
  BY PlainMsgs
<1>5. <<>> \in Seq(Messages) /\ \A i \in 1..Len(<<>>) : <<>>[i][1] # "NEWKEYS"
  OBVIOUS
<1>6. CASE KexInit
  <2> DEFINE c2 == [Got EXCEPT !.strict = (Value = 1), !.wait = "ecdh_reply"]
  <2>1. CASE Die(Got)
    BY <1>1, <2>1, DeadKeys
  <2>2. CASE Sent(c2, <<M("ECDH_INIT")>>)
    <3>1. (Value = 1) = s.strict
      BY <1>0, <1>6, FreshFirst DEF KexInit, Typed, ServerState
    <3>2. c2 \in ClientState
      <4>1. \A v \in BOOLEAN : [Got EXCEPT !.strict = v, !.wait = "ecdh_reply"] \in ClientState
        BY <1>1, ZenonT(30) DEF ClientState, Waits
      <4>. QED BY <4>1
    <3>3. /\ c2.sendKey = c.sendKey /\ c2.sendSeq = c.sendSeq /\ c2.recvKey = c.recvKey
          /\ c2.recvSeq = Taken /\ c2.strict = s.strict /\ c2.wait # "kexinit" /\ c2.back # "kexinit"
      BY <1>1, <1>2, <1>3, <3>1 DEF ClientState
    <3>4. Packet # "NEWKEYS"
      BY <1>6 DEF KexInit, Takes
    <3>5. /\ <<M("ECDH_INIT")>> \in Seq(Messages)
          /\ \A i \in 1..Len(<<M("ECDH_INIT")>>) : <<M("ECDH_INIT")>>[i][1] # "NEWKEYS"
      BY <1>4 DEF Plain
    <3> HIDE DEF c2
    <3>. QED BY <1>0, <2>2, <3>2, <3>3, <3>4, <3>5, SentKeepsKeys DEF Sent
  <2>. QED BY <1>6, <2>1, <2>2 DEF KexInit
<1>7. CASE Rekey
  <2> DEFINE c2 == [Got EXCEPT !.wait = "ecdh_reply", !.back = c.wait]
             msgs == <<M("KEXINIT"), M("ECDH_INIT")>>
  <2>1. c2 \in ClientState
    BY <1>1, ZenonT(30) DEF ClientState, Waits
  <2>2. c.wait # "kexinit" /\ Packet # "NEWKEYS"
    BY <1>7 DEF Rekey, InKex, Takes
  <2>3. /\ c2.sendKey = c.sendKey /\ c2.sendSeq = c.sendSeq /\ c2.recvKey = c.recvKey
        /\ c2.recvSeq = Taken /\ c2.strict = s.strict /\ c2.wait # "kexinit" /\ c2.back # "kexinit"
    BY <1>1, <1>2, <1>3, <2>2 DEF ClientState
  <2>4. msgs \in Seq(Messages) /\ \A i \in 1..Len(msgs) : msgs[i][1] # "NEWKEYS"
    BY Plainly, One DEF Plain, M, Msg
  <2> HIDE DEF c2, msgs
  <2>5. Sent(c2, msgs)
    BY <1>7 DEF Rekey, c2, msgs
  <2>. QED BY <1>0, <2>1, <2>2, <2>3, <2>4, <2>5, SentKeepsKeys DEF Sent
<1>8. CASE EcdhReply
  <2>1. CASE c.sendKey = 0 /\ Die(Got)
    BY <1>1, <2>1, DeadKeys
  <2>2. CASE ~(c.sendKey = 0 /\ Die(Got))
    <3> DEFINE n == IF c.strict THEN 0 ELSE (Got.sendSeq + 1) % SeqWrap
    <3>1. /\ up' = up \o Seal(<<M("NEWKEYS")>>, c.sendKey, c.sendSeq)
          /\ c' = [Got EXCEPT !.wait = "newkeys", !.sendKey = @ + 1, !.sendSeq = n]
          /\ s' = s
      BY <1>8, <2>2 DEF EcdhReply
    <3>2. n = IF s.strict THEN 0 ELSE (c.sendSeq + 1) % SeqWrap
      BY <1>2, <1>3, <1>8 DEF EcdhReply
    <3>9. Packet # "NEWKEYS" /\ c.wait # "kexinit"
      BY <1>8 DEF EcdhReply, Takes
    <3> HIDE DEF n
    <3>3. /\ c'.sendKey = c.sendKey + 1 /\ c'.sendSeq = n /\ c'.recvKey = c.recvKey
          /\ c'.recvSeq = Taken /\ c'.wait # "kexinit" /\ c'.back # "kexinit" /\ c'.strict = s.strict
      BY <1>1, <1>2, <1>3, <3>1, <3>9 DEF ClientState
    <3>4. Numbered(up, <<s.recvKey, s.recvSeq>>, <<c.sendKey, c.sendSeq>>, s.strict)
      BY <1>0 DEF KeyInv, Arrived
    <3>5. Numbered(up', <<s.recvKey, s.recvSeq>>, <<c'.sendKey, c'.sendSeq>>, s.strict)
      <4>1. c.sendKey \in Nat /\ c.sendSeq \in Numbers /\ up \in Seq(Packets)
        BY DEF Typed, ClientState
      <4>. QED BY <3>1, <3>2, <3>3, <3>4, <4>1, NumberedNewKeys
    <3>6. Numbered(down', <<c'.recvKey, c'.recvSeq>>, <<s.sendKey, s.sendSeq>>, s.strict)
      <4>1. /\ <<c.recvKey, c.recvSeq>> = <<Head(down).key, Head(down).seq>>
            /\ Numbered(Tail(down), After(Head(down), s.strict), <<s.sendKey, s.sendSeq>>, s.strict)
        BY <1>0, NumberedTail DEF KeyInv, Arrived, Typed
      <4>2. After(Head(down), s.strict) = <<c'.recvKey, c'.recvSeq>>
        BY <3>3, <3>9, <4>1 DEF After, Packet, Taken
      <4>. QED BY <1>0, <4>1, <4>2
    <3>. QED BY <1>0, <3>1, <3>3, <3>5, <3>6 DEF KeyInv, Arrived
  <2>. QED BY <2>1, <2>2
<1>9. CASE NewKeys
  <2> DEFINE c2 == [Got EXCEPT !.wait = c.back, !.recvKey = @ + 1,
                               !.recvSeq = IF c.strict THEN 0 ELSE @]
             msgs == IF c.recvKey = 0 THEN <<M("SERVICE_REQUEST")>> ELSE <<>>
  <2>1. Sends(c2, msgs) /\ s' = s /\ Packet = "NEWKEYS" /\ c.wait # "kexinit"
    BY <1>9 DEF NewKeys, Takes
  <2>2. msgs \in Seq(Messages) /\ \A i \in 1..Len(msgs) : msgs[i][1] # "NEWKEYS"
    BY <1>4, <1>5 DEF Plain
  <2>3. /\ c2.sendKey = c.sendKey /\ c2.sendSeq = c.sendSeq /\ c2.recvKey = c.recvKey + 1
        /\ c2.recvSeq = (IF s.strict THEN 0 ELSE Taken)
        /\ c2.wait # "kexinit" /\ c2.back # "kexinit" /\ c2.strict = s.strict
    BY <1>1, <1>2, <1>3, <2>1 DEF ClientState
  <2>4. DOMAIN c2 = DOMAIN Got /\ "sendSeq" \in DOMAIN Got
    BY <1>1 DEF ClientState
  <2> HIDE DEF c2, msgs
  <2>5. /\ up' = up \o Seal(msgs, c.sendKey, c.sendSeq)
        /\ c'.sendKey = c.sendKey /\ c'.sendSeq = (c.sendSeq + Len(msgs)) % SeqWrap
        /\ c'.recvKey = c.recvKey + 1 /\ c'.recvSeq = (IF s.strict THEN 0 ELSE Taken)
        /\ c'.wait # "kexinit" /\ c'.back # "kexinit" /\ c'.strict = s.strict
    BY <2>1, <2>3, <2>4 DEF Sends
  <2>6. c.sendKey \in Nat /\ c.sendSeq \in Numbers /\ up \in Seq(Packets) /\ down \in Seq(Packets)
    BY DEF Typed, ClientState
  <2>7. Numbered(up', <<s.recvKey, s.recvSeq>>, <<c'.sendKey, c'.sendSeq>>, s.strict)
    <3>1. Numbered(up, <<s.recvKey, s.recvSeq>>, <<c.sendKey, c.sendSeq>>, s.strict)
      BY <1>0 DEF KeyInv, Arrived
    <3>. QED BY <2>2, <2>5, <2>6, <3>1, NumberedSeal
  <2>8. Numbered(down', <<c'.recvKey, c'.recvSeq>>, <<s.sendKey, s.sendSeq>>, s.strict)
    <3>1. /\ <<c.recvKey, c.recvSeq>> = <<Head(down).key, Head(down).seq>>
          /\ Numbered(Tail(down), After(Head(down), s.strict), <<s.sendKey, s.sendSeq>>, s.strict)
      BY <1>0, <2>6, NumberedTail DEF KeyInv, Arrived
    <3>2. After(Head(down), s.strict) = <<c'.recvKey, c'.recvSeq>>
      BY <2>1, <2>5, <3>1 DEF After, Packet, Taken
    <3>. QED BY <1>0, <3>1, <3>2
  <2>. QED BY <1>0, <2>1, <2>5, <2>7, <2>8 DEF KeyInv, Arrived
<1>10. ASSUME NEW c2 \in ClientState, NEW w \in Waits \ {"kexinit"}, NEW x, NEW y,
              c2 \in {Got, [Got EXCEPT !.wait = w],
                      [[Got EXCEPT !.window = x, !.maxpkt = y] EXCEPT !.wait = w]},
              c.wait # "kexinit", Packet # "NEWKEYS",
              NEW msgs \in Seq(Messages), \A i \in 1..Len(msgs) : msgs[i][1] # "NEWKEYS",
              Sent(c2, msgs)
       PROVE  KeyInv'
  <2>1. /\ c2.sendKey = c.sendKey /\ c2.sendSeq = c.sendSeq
        /\ c2.recvKey = c.recvKey /\ c2.recvSeq = Taken /\ c2.strict = s.strict
        /\ c2.wait # "kexinit" /\ c2.back # "kexinit"
    <3>1. CASE c2 = Got
      BY <1>2, <1>3, <1>10, <3>1
    <3>2. CASE c2 = [Got EXCEPT !.wait = w]
      BY <1>1, <1>2, <1>3, <1>10, <3>2, ZenonT(30) DEF ClientState
    <3>3. CASE c2 = [[Got EXCEPT !.window = x, !.maxpkt = y] EXCEPT !.wait = w]
      BY <1>1, <1>2, <1>3, <1>10, <3>3, ZenonT(30) DEF ClientState
    <3>. QED BY <1>10, <3>1, <3>2, <3>3
  <2>. QED BY <1>0, <1>10, <2>1, SentKeepsKeys DEF Sent
<1>12. \A t \in {"PROBE", "AUTH", "OPEN", "PTY_REQ", "EXEC"} : t \in Plain \ {"NEWKEYS"}
  BY DEF Plain
<1>13. CASE Service \/ Probed \/ Authenticated \/ PtyAnswered \/ Started
  <2>1. \A w \in Waits : [Got EXCEPT !.wait = w] \in ClientState
    BY <1>1, ZenonT(30) DEF ClientState
  <2>2. c.wait # "kexinit" /\ Packet # "NEWKEYS"
    BY <1>13 DEF Service, Probed, Authenticated, PtyAnswered, Started, Takes
  <2>3. PICK w \in {"probe", "auth", "open", "exec", "run"} :
          \/ \E t \in {"PROBE", "AUTH", "OPEN", "PTY_REQ", "EXEC"} :
                Sent([Got EXCEPT !.wait = w], <<M(t)>>)
          \/ Sent([Got EXCEPT !.wait = w], <<>>)
    BY <1>13 DEF Service, Probed, Authenticated, PtyAnswered, Started
  <2>4. w \in Waits \ {"kexinit"}
    BY DEF Waits
  <2>. QED BY <1>4, <1>5, <1>10, <1>12, <2>1, <2>2, <2>3, <2>4
<1>14. CASE Banner
  <2>1. c.wait # "kexinit" /\ Packet # "NEWKEYS" /\ "run" \in Waits \ {"kexinit"}
    BY <1>14 DEF Banner, Takes, Waits
  <2>. QED BY <1>1, <1>5, <1>10, <1>14, <2>1 DEF Banner
<1>15. CASE Opened
  <2>1. c.wait # "kexinit" /\ Packet # "NEWKEYS"
    BY <1>15 DEF Opened, Takes
  <2>2. Value[1] \in Nat /\ Value[2] \in Nat \ {0}
    BY <1>0, <1>15, TakesTyped, Carries DEF Opened, Takes, Packet, Value
  <2>3. \A w \in Waits :
          [[Got EXCEPT !.window = Value[1], !.maxpkt = Value[2]] EXCEPT !.wait = w] \in ClientState
    BY <1>1, <2>2, ZenonT(30) DEF ClientState
  <2>4. PICK w \in {"pty", "exec"}, t \in {"PTY_REQ", "EXEC"} :
          Sent([[Got EXCEPT !.window = Value[1], !.maxpkt = Value[2]] EXCEPT !.wait = w], <<M(t)>>)
    BY <1>15 DEF Opened
  <2>5. w \in Waits \ {"kexinit"} /\ w \in Waits
    BY DEF Waits
  <2> DEFINE c2 == [[Got EXCEPT !.window = Value[1], !.maxpkt = Value[2]] EXCEPT !.wait = w]
             msgs == <<M(t)>>
  <2>6. c2 \in ClientState /\ Sent(c2, msgs)
    BY <2>3, <2>4, <2>5
  <2>7. msgs \in Seq(Messages) /\ \A i \in 1..Len(msgs) : msgs[i][1] # "NEWKEYS"
    BY <1>4, <1>12
  <2>8. /\ c2.sendKey = c.sendKey /\ c2.sendSeq = c.sendSeq
        /\ c2.recvKey = c.recvKey /\ c2.recvSeq = Taken /\ c2.strict = s.strict
        /\ c2.wait # "kexinit" /\ c2.back # "kexinit"
    BY <1>1, <1>2, <1>3, <2>1, <2>5 DEF ClientState
  <2> HIDE DEF c2, msgs
  <2>. QED BY <1>0, <2>1, <2>6, <2>7, <2>8, SentKeepsKeys DEF Sent
<1>11. CASE Refused \/ NotStarted
  BY <1>1, <1>11, DeadKeys DEF Refused, NotStarted
<1>. QED BY <1>6, <1>7, <1>8, <1>9, <1>11, <1>13, <1>14, <1>15 DEF Handshake

\* A state of the client with the keys of Got.
Keyed(c2) ==
  /\ c2 \in ClientState /\ c2.sendKey = c.sendKey /\ c2.sendSeq = c.sendSeq
  /\ c2.recvKey = c.recvKey /\ c2.recvSeq = Taken /\ c2.strict = c.strict
  /\ c2.wait # "kexinit" /\ c2.back = c.back

LEMMA KeyedKeeps ==
  ASSUME Typed, KeyInv, Arrived, Packet # "NEWKEYS", down' = Tail(down), c.wait # "kexinit",
         NEW c2, Keyed(c2),
         NEW msgs \in Seq(Messages), \A i \in 1..Len(msgs) : msgs[i][1] # "NEWKEYS",
         Sends(c2, msgs), s' = s
  PROVE  KeyInv'
<1>1. c.back # "kexinit" /\ c.strict = s.strict
  BY DEF KeyInv, Arrived
<1>. QED BY <1>1, SentKeepsKeys DEF Keyed

LEMMA PumpKeys ==
  ASSUME Typed, KeyInv, Pump
  PROVE  KeyInv'
<1>0. Arrived /\ down' = Tail(down)
  BY DEF Pump, Skipped, GlobalRequest, EarlyAdjust, Dropped, Adjusted, Output, Exited, ServerEof,
     Closed, Answered, Takes
<1>1. Got \in ClientState /\ c \in ClientState /\ Head(down).msg \in Messages
  BY <1>0, TakesTyped DEF Typed
<1>2. /\ Got.sendKey = c.sendKey /\ Got.sendSeq = c.sendSeq /\ Got.recvKey = c.recvKey
      /\ Got.recvSeq = Taken /\ Got.strict = c.strict /\ Got.wait = c.wait /\ Got.back = c.back
  BY <1>1 DEF Got, ClientState
<1>3. c.wait # "kexinit" /\ Packet # "NEWKEYS"
  <2>1. Packet # "KEXINIT" /\ Packet # "NEWKEYS"
    BY DEF Pump, Skipped, GlobalRequest, EarlyAdjust, Dropped, Adjusted, Output, Exited, ServerEof,
     Closed, Answered, Takes
  <2>. QED BY <1>0, <2>1, FreshFirst
<1>4. \A t \in Plain \ {"NEWKEYS"} :
        /\ <<M(t)>> \in Seq(Messages) /\ \A i \in 1..Len(<<M(t)>>) : <<M(t)>>[i][1] # "NEWKEYS"
  BY PlainMsgs
<1>5. <<>> \in Seq(Messages) /\ \A i \in 1..Len(<<>>) : <<>>[i][1] # "NEWKEYS"
  OBVIOUS
<1>6. Keyed(Got)
  BY <1>1, <1>2, <1>3 DEF Keyed
<1>7. ASSUME NEW c2, Keyed(c2),
             NEW msgs \in Seq(Messages), \A i \in 1..Len(msgs) : msgs[i][1] # "NEWKEYS",
             Sends(c2, msgs), s' = s
      PROVE  KeyInv'
  BY <1>0, <1>3, <1>7, KeyedKeeps
<1>8. CASE Skipped
  BY <1>1, <1>5, <1>6, <1>7, <1>8, DeadKeys DEF Skipped, Sent
<1>9. CASE GlobalRequest
  <2>1. "REQUEST_FAILURE" \in Plain \ {"NEWKEYS"}
    BY DEF Plain
  <2> DEFINE msgs == IF Value = 1 THEN <<M("REQUEST_FAILURE")>> ELSE <<>>
  <2>2. msgs \in Seq(Messages) /\ \A i \in 1..Len(msgs) : msgs[i][1] # "NEWKEYS"
    BY <1>4, <1>5, <2>1
  <2>3. Die(Got) \/ (Sends(Got, msgs) /\ s' = s)
    BY <1>9 DEF GlobalRequest, Sent
  <2> HIDE DEF msgs
  <2>. QED BY <1>1, <1>6, <1>7, <2>2, <2>3, DeadKeys
<1>10. CASE EarlyAdjust
  <2>1. AddWindow(Value) \in Nat
    BY <1>1, <1>10, Carries, AddWindowIs DEF EarlyAdjust, Takes, Packet, Value
  <2> DEFINE c2 == [Got EXCEPT !.window = AddWindow(Value)]
  <2>2. Keyed(c2)
    BY <1>1, <1>2, <1>3, <2>1, ZenonT(30) DEF Keyed, ClientState
  <2>3. Sends(c2, <<>>) /\ s' = s
    BY <1>10 DEF EarlyAdjust, Sent
  <2> HIDE DEF c2
  <2>. QED BY <1>5, <1>7, <2>2, <2>3
<1>11. CASE Dropped \/ ServerEof \/ Answered
  <2>1. Sends(Got, <<>>) /\ s' = s
    BY <1>11 DEF Dropped, ServerEof, Answered, Sent
  <2>. QED BY <1>5, <1>6, <1>7, <2>1
<1>12. CASE Adjusted
  <2> DEFINE w == AddWindow(Value)
             ends == c.eofPending /\ Rest(c.outq, w) = <<>>
             msgs == Chunks(c.outq, w) \o (IF ends THEN <<M("EOF")>> ELSE <<>>)
             c2 == [Got EXCEPT !.window = w - Fits(c.outq, w), !.outq = Rest(@, w),
                               !.eofPending = @ /\ ~ends]
  <2>1. w \in Nat /\ c.outq \in Seq(Nat) /\ c.maxpkt \in Nat \ {0}
    BY <1>1, <1>12, Carries, AddWindowIs, ZenonT(30) DEF Adjusted, Takes, Packet, Value, Typed, ClientState
  <2>2. Rest(c.outq, w) \in Seq(Nat) /\ w - Fits(c.outq, w) \in Nat
    BY <2>1, FitsIs
  <2>3. Got.outq = c.outq /\ (Got.eofPending /\ ~ends) \in BOOLEAN
    BY DEF Got, Typed, ClientState
  <2>4. msgs \in Seq(Messages) /\ \A i \in 1..Len(msgs) : msgs[i][1] # "NEWKEYS"
    <3> DEFINE k == Chunks(c.outq, w)
               e == IF ends THEN <<M("EOF")>> ELSE <<>>
    <3>1. k \in Seq(Messages) /\ \A i \in 1..Len(k) : k[i][1] # "NEWKEYS"
      BY <2>1, ChunksAre DEF Chunks, Msg
    <3>2. e \in Seq(Messages) /\ \A i \in 1..Len(e) : e[i][1] # "NEWKEYS"
      BY <1>4, <1>5 DEF Plain
    <3> HIDE DEF k, e
    <3>3. k \o e \in Seq(Messages) /\ \A i \in 1..Len(k \o e) : (k \o e)[i][1] # "NEWKEYS"
      BY <3>1, <3>2
    <3>. QED BY <3>3 DEF k, e
  <2>5. Sends(c2, msgs) /\ s' = s
    BY <1>12 DEF Adjusted, Sent
  <2>6. Keyed(c2)
    <3>1. ASSUME NEW x \in Nat, NEW y \in Seq(Nat), NEW v \in BOOLEAN
          PROVE  Keyed([Got EXCEPT !.window = x, !.outq = y, !.eofPending = v])
      <4>1. [Got EXCEPT !.window = x, !.outq = y, !.eofPending = v] \in ClientState
        BY <1>1, ZenonT(30) DEF ClientState
      <4>. QED BY <1>1, <1>2, <1>3, <4>1 DEF Keyed, ClientState
    <3>2. c2 = [Got EXCEPT !.window = w - Fits(c.outq, w), !.outq = Rest(c.outq, w),
                           !.eofPending = Got.eofPending /\ ~ends]
      BY <2>3
    <3> HIDE DEF w, ends, c2
    <3>. QED BY <2>2, <2>3, <3>1, <3>2
  <2> HIDE DEF msgs, c2
  <2>. QED BY <1>7, <2>4, <2>5, <2>6
<1>13. CASE Output
  <2>1. Value \in Seq(Nat) /\ Len(Value) \in Nat
    BY <1>1, <1>13, Carries DEF Output, Takes, Packet, Value
  <2> DEFINE owed == Got.pending + Len(Value)
  <2>2. owed \in Nat
    BY <1>1, <2>1, SMTT(30) DEF ClientState
  <2>3. /\ <<Msg("ADJUST", owed)>> \in Seq(Messages)
        /\ \A i \in 1..Len(<<Msg("ADJUST", owed)>>) : <<Msg("ADJUST", owed)>>[i][1] # "NEWKEYS"
    BY <2>2, Plainly, One DEF Msg
  <2>4. \A n \in Nat : Keyed([Got EXCEPT !.pending = n])
    BY <1>1, <1>2, <1>3, ZenonT(30) DEF Keyed, ClientState
  <2>5. Keyed([Got EXCEPT !.pending = owed]) /\ Keyed([Got EXCEPT !.pending = 0])
    BY <2>2, <2>4
  <2>6. /\ \/ Sends([Got EXCEPT !.pending = owed], <<>>)
           \/ Sends([Got EXCEPT !.pending = 0], <<Msg("ADJUST", owed)>>)
        /\ s' = s
    BY <1>13 DEF Output, Consumed
  <2> HIDE DEF owed
  <2>. QED BY <1>5, <1>7, <2>3, <2>5, <2>6
<1>14. CASE Exited
  <2>1. Value \in AllFates
    BY <1>1, <1>14, Carries DEF Exited, Takes, Packet, Value
  <2> DEFINE c2 == [Got EXCEPT !.exit = Status(Value)]
  <2>2. Keyed(c2)
    BY <1>1, <1>2, <1>3, <2>1, ZenonT(30) DEF Keyed, ClientState
  <2>3. Sends(c2, <<>>) /\ s' = s
    BY <1>14 DEF Exited, Sent
  <2> HIDE DEF c2
  <2>. QED BY <1>5, <1>7, <2>2, <2>3
<1>15. CASE Closed
  <2>1. Keyed([Got EXCEPT !.wait = "over"])
    <3>1. [Got EXCEPT !.wait = "over"] \in ClientState
      BY <1>1, ZenonT(30) DEF ClientState, Waits
    <3>. QED BY <1>1, <1>2, <3>1 DEF Keyed, ClientState
  <2>2. Sends([Got EXCEPT !.wait = "over"], <<M("CLOSE")>>) /\ s' = s
    BY <1>15 DEF Closed, Sent
  <2>3. "CLOSE" \in Plain \ {"NEWKEYS"}
    BY DEF Plain
  <2>. QED BY <1>4, <1>7, <2>1, <2>2, <2>3
<1>. QED BY <1>8, <1>9, <1>10, <1>11, <1>12, <1>13, <1>14, <1>15 DEF Pump

\* Two states of the client with the same keys, that wait for the same.
Alike(d, e) ==
  /\ d.sendKey = e.sendKey /\ d.sendSeq = e.sendSeq /\ d.recvKey = e.recvKey
  /\ d.recvSeq = e.recvSeq /\ d.strict = e.strict /\ d.wait = e.wait /\ d.back = e.back

LEMMA UserKeys ==
  ASSUME Typed, KeyInv, User \/ Keepalive \/ GivesUp
  PROVE  KeyInv'
<1>0. Alive /\ c \in ClientState
  BY DEF User, Input, InputEnds, WindowChange, Keepalive, GivesUp, Silent, Alive, Typed
<1>1. ASSUME c.wait = "run", NEW c2, c2 \in ClientState, Alike(c2, c),
             NEW msgs \in Seq(Messages), \A i \in 1..Len(msgs) : msgs[i][1] # "NEWKEYS",
             Sends(c2, msgs), s' = s, down' = down
      PROVE  KeyInv'
  <2>1. c' = [c2 EXCEPT !.sendSeq = (c.sendSeq + Len(msgs)) % SeqWrap]
        /\ up' = up \o Seal(msgs, c.sendKey, c.sendSeq)
    BY <1>1 DEF Sends, Alike
  <2>2. /\ c'.sendKey = c.sendKey /\ c'.sendSeq = (c.sendSeq + Len(msgs)) % SeqWrap
        /\ c'.recvKey = c.recvKey /\ c'.wait = c.wait /\ c'.back = c.back
        /\ c'.strict = c.strict /\ c'.recvSeq = c.recvSeq
    BY <1>1, <2>1 DEF ClientState, Alike
  <2>3. c.back # "kexinit" /\ c.strict = s.strict
    BY <1>0, <1>1 DEF KeyInv
  <2>4. ClientKeeps(msgs)
    BY <1>1, <2>1, <2>2, <2>3 DEF ClientKeeps
  <2>. QED BY <1>0, <2>4, ClientKeepsKeys
<1>2. \A t \in Plain \ {"NEWKEYS"} :
        /\ <<M(t)>> \in Seq(Messages) /\ \A i \in 1..Len(<<M(t)>>) : <<M(t)>>[i][1] # "NEWKEYS"
  BY PlainMsgs
<1>3. <<>> \in Seq(Messages) /\ \A i \in 1..Len(<<>>) : <<>>[i][1] # "NEWKEYS"
  OBVIOUS
<1>4. ASSUME NEW n \in 1..MaxBurst, Input(n)
      PROVE  KeyInv'
  <2> DEFINE data == [i \in 1..n |-> typed + i]
             fits == Fits(data, c.window)
             rest == Rest(data, c.window)
             msgs == Chunks(data, c.window)
  <2>1. data \in Seq(Nat)
    BY DEF Typed
  <2>2. c.window \in Nat /\ c.maxpkt \in Nat \ {0} /\ c.outq \in Seq(Nat)
    BY <1>0 DEF ClientState
  <2>3. /\ \/ Sends([c EXCEPT !.outq = @ \o data], <<>>)
           \/ Sends([c EXCEPT !.outq = rest, !.window = @ - fits], msgs)
        /\ s' = s /\ down' = down /\ c.wait = "run"
    BY <1>4 DEF Input
  <2>4. rest \in Seq(Nat) /\ c.window - fits \in Nat
    <3> HIDE DEF data
    <3>. QED BY <2>1, <2>2, FitsIs
  <2>5. msgs \in Seq(Messages) /\ \A i \in 1..Len(msgs) : msgs[i][1] # "NEWKEYS"
    <3>1. \A i \in 1..Len(msgs) : msgs[i][1] = "DATA"
      <4> HIDE DEF data
      <4>. QED BY <2>1, <2>2, ChunksAre DEF Chunks, Msg
    <3>2. msgs \in Seq(Messages)
      <4> HIDE DEF data
      <4>. QED BY <2>1, <2>2, ChunksAre
    <3>. QED BY <3>1, <3>2
  <2>6. \A y \in Seq(Nat), x \in Nat :
           [c EXCEPT !.outq = y] \in ClientState /\ [c EXCEPT !.outq = y, !.window = x] \in ClientState
    BY <1>0, ZenonT(30) DEF ClientState
  <2>7. c.outq \o data \in Seq(Nat)
    BY <2>1, <2>2
  <2>8. /\ [c EXCEPT !.outq = @ \o data] \in ClientState
        /\ [c EXCEPT !.outq = rest, !.window = @ - fits] \in ClientState
    <3> HIDE DEF data, rest, fits
    <3>. QED BY <2>4, <2>6, <2>7
  <2> DEFINE c2 == [c EXCEPT !.outq = @ \o data]
             c3 == [c EXCEPT !.outq = rest, !.window = @ - fits]
  <2>90. /\ \A y : Alike([c EXCEPT !.outq = y], c)
         /\ \A x, y : Alike([c EXCEPT !.outq = y, !.window = x], c)
    BY <1>0, ZenonT(30) DEF ClientState, Alike
  <2>9. ASSUME NEW d \in {c2, c3}
        PROVE  Alike(d, c)
    <3>1. Alike(c2, c)
      BY ONLY <2>90
    <3>2. Alike(c3, c)
      BY ONLY <2>90
    <3> HIDE DEF c2, c3
    <3>. QED BY <3>1, <3>2
  <2> HIDE DEF data, rest, fits, msgs, c2, c3
  <2>10. c2 \in ClientState /\ c3 \in ClientState /\ (Sends(c2, <<>>) \/ Sends(c3, msgs))
    BY <2>3, <2>8 DEF c2, c3
  <2>. QED BY <1>1, <1>3, <2>3, <2>5, <2>9, <2>10
<1>5. CASE InputEnds
  <2> DEFINE c2 == [c EXCEPT !.clientEof = TRUE]
             c3 == [c2 EXCEPT !.eofPending = TRUE]
  <2>1. c2 \in ClientState /\ c3 \in ClientState
    BY <1>0, ZenonT(30) DEF ClientState
  <2>2. /\ Sends(c3, <<>>) \/ Sends(c2, <<M("EOF")>>)
        /\ s' = s /\ down' = down /\ c.wait = "run"
    BY <1>5 DEF InputEnds, Sent
  <2>3. "EOF" \in Plain \ {"NEWKEYS"}
    BY DEF Plain
  <2>4. ASSUME NEW d \in {c2, c3}
        PROVE  Alike(d, c)
    <3>1. \A r \in ClientState :
            Alike([r EXCEPT !.clientEof = TRUE], r) /\ Alike([r EXCEPT !.eofPending = TRUE], r)
      BY ZenonT(30) DEF ClientState, Alike
    <3>2. Alike(c2, c) /\ Alike(c3, c2)
      BY <1>0, <2>1, <3>1
    <3>. QED BY <3>2 DEF Alike
  <2> HIDE DEF c2, c3
  <2>. QED BY <1>1, <1>2, <1>3, <2>1, <2>2, <2>3, <2>4
<1>6. CASE WindowChange
  <2> DEFINE c2 == [c EXCEPT !.asks = @ + 1]
  <2>1. c.asks + 1 \in Nat
    BY <1>0 DEF ClientState
  <2>2. c2 \in ClientState
    BY <1>0, <2>1, ZenonT(30) DEF ClientState
  <2>3. Sends(c2, <<M("WINDOW_CHANGE")>>) /\ s' = s /\ down' = down /\ c.wait = "run"
    BY <1>6 DEF WindowChange, Sent
  <2>4. "WINDOW_CHANGE" \in Plain \ {"NEWKEYS"}
    BY DEF Plain
  <2>5. Alike(c2, c)
    BY <1>0 DEF Alike
  <2> HIDE DEF c2
  <2>. QED BY <1>1, <1>2, <2>2, <2>3, <2>4, <2>5
<1>7. CASE Keepalive
  <2> DEFINE n == Min({c.asks + 1, MaxExtra})
             c2 == [c EXCEPT !.asked = TRUE, !.asks = n]
  <2>1. c.asks + 1 \in Int /\ MaxExtra \in Int /\ c.asks + 1 >= 0 /\ MaxExtra >= 0
    BY <1>0, ChannelAssumption DEF ClientState
  <2>2. n \in Nat
    BY <2>1, MinIs
  <2>3. Sends(c2, <<M("KEEPALIVE")>>) /\ s' = s /\ down' = down /\ c.wait = "run"
    BY <1>7 DEF Keepalive, Sent
  <2> HIDE DEF n
  <2>4. c2 \in ClientState
    BY <1>0, <2>2, ZenonT(30) DEF ClientState
  <2>5. "KEEPALIVE" \in Plain \ {"NEWKEYS"}
    BY DEF Plain
  <2>6. Alike(c2, c)
    BY <1>0 DEF Alike
  <2> HIDE DEF c2
  <2>. QED BY <1>1, <1>2, <2>3, <2>4, <2>5, <2>6
<1>8. CASE GivesUp
  BY <1>0, <1>8, DeadKeys DEF GivesUp
<1>. QED BY <1>4, <1>5, <1>6, <1>7, <1>8 DEF User

\* A server that sends `msgs' keeps the numbers, and what it holds has no NEWKEYS.
LEMMA RepliesKeepKeys ==
  ASSUME Typed, KeyInv, Alive,
         NEW s2 \in ServerState, s2.sendKey = s.sendKey, s2.sendSeq = s.sendSeq, s2.held = s.held,
         NEW msgs \in Seq(Messages), \A i \in 1..Len(msgs) : msgs[i][1] # "NEWKEYS",
         Replies(s2, msgs)
  PROVE  /\ Numbered(down', <<c.recvKey, c.recvSeq>>, <<s'.sendKey, s'.sendSeq>>, s.strict)
         /\ \A i \in 1..Len(s'.held) : s'.held[i][1] # "NEWKEYS"
         /\ s'.strict = s2.strict /\ s'.kex = s2.kex
         /\ s'.recvKey = s2.recvKey /\ s'.recvSeq = s2.recvSeq
         /\ s.kex = "init" => down' = down
<1>1. /\ Numbered(down, <<c.recvKey, c.recvSeq>>, <<s.sendKey, s.sendSeq>>, s.strict)
      /\ \A i \in 1..Len(s.held) : s.held[i][1] # "NEWKEYS"
  BY DEF KeyInv
<1>2. CASE s.kex = "init"
  <2>1. s' = [s2 EXCEPT !.held = s.held \o msgs] /\ down' = down
    BY <1>2 DEF Replies
  <2>2. /\ s'.sendKey = s.sendKey /\ s'.sendSeq = s.sendSeq /\ s'.strict = s2.strict
        /\ s'.kex = s2.kex /\ s'.held = s.held \o msgs
        /\ s'.recvKey = s2.recvKey /\ s'.recvSeq = s2.recvSeq
    BY <2>1 DEF ServerState
  <2>3. s.held \in Seq(Messages)
    BY DEF Typed, ServerState
  <2>4. \A i \in 1..Len(s.held \o msgs) : (s.held \o msgs)[i][1] # "NEWKEYS"
    BY <1>1, <2>3
  <2>. QED BY <1>1, <2>1, <2>2, <2>4
<1>3. CASE s.kex # "init"
  <2>1. /\ down' = down \o Seal(msgs, s.sendKey, s.sendSeq)
        /\ s' = [s2 EXCEPT !.sendSeq = (s.sendSeq + Len(msgs)) % SeqWrap]
    BY <1>3 DEF Replies
  <2>2. /\ s'.sendKey = s.sendKey /\ s'.sendSeq = (s.sendSeq + Len(msgs)) % SeqWrap
        /\ s'.strict = s2.strict /\ s'.kex = s2.kex /\ s'.held = s.held
        /\ s'.recvKey = s2.recvKey /\ s'.recvSeq = s2.recvSeq
    BY <2>1 DEF ServerState
  <2>3. s.sendKey \in Nat /\ s.sendSeq \in Numbers /\ down \in Seq(Packets)
    BY DEF Typed, ServerState
  <2>. QED BY <1>1, <1>3, <2>1, <2>2, <2>3, NumberedSeal
<1>. QED BY <1>2, <1>3

\* A packet that the server takes leaves the rest numbered from the next.
LEMMA TakenKeepsKeys ==
  ASSUME Typed, KeyInv, NEW t, ServerTakes(t)
  PROVE  /\ Alive /\ In \in ServerState
         /\ In.sendKey = s.sendKey /\ In.sendSeq = s.sendSeq /\ In.held = s.held
         /\ In.strict = s.strict /\ In.kex = s.kex /\ In.recvKey = s.recvKey
         /\ IF t = "NEWKEYS"
            THEN Numbered(up', <<s.recvKey + 1, IF s.strict THEN 0 ELSE In.recvSeq>>,
                          <<c.sendKey, c.sendSeq>>, s.strict)
            ELSE Numbered(up', <<s.recvKey, In.recvSeq>>, <<c.sendKey, c.sendSeq>>, s.strict)
         /\ c.wait = "kexinit" =>
              t \notin {"ECDH_INIT", "NEWKEYS"} /\ \A i \in 1..Len(up') : up'[i].msg[1] \notin {"ECDH_INIT", "NEWKEYS"}
<1>1. Alive /\ up # <<>> /\ Head(up).msg[1] = t /\ up' = Tail(up) /\ up \in Seq(Packets)
  BY DEF ServerTakes, Up, Typed
<1>2. In \in ServerState
  BY ServerTakesTyped
<1>3. /\ In.sendKey = s.sendKey /\ In.sendSeq = s.sendSeq /\ In.held = s.held
      /\ In.strict = s.strict /\ In.kex = s.kex /\ In.recvKey = s.recvKey
      /\ In.recvSeq = (s.recvSeq + 1) % SeqWrap
  BY DEF In, Typed, ServerState
<1>4. Numbered(up, <<s.recvKey, s.recvSeq>>, <<c.sendKey, c.sendSeq>>, s.strict)
  BY <1>1 DEF KeyInv
<1>5. /\ <<s.recvKey, s.recvSeq>> = <<Head(up).key, Head(up).seq>>
      /\ Numbered(Tail(up), After(Head(up), s.strict), <<c.sendKey, c.sendSeq>>, s.strict)
  BY <1>1, <1>4, NumberedTail
<1>6. After(Head(up), s.strict) =
        IF t = "NEWKEYS" THEN <<s.recvKey + 1, IF s.strict THEN 0 ELSE In.recvSeq>>
        ELSE <<s.recvKey, In.recvSeq>>
  BY <1>1, <1>3, <1>5 DEF After
<1>7. ASSUME c.wait = "kexinit"
      PROVE  t \notin {"ECDH_INIT", "NEWKEYS"} /\ \A i \in 1..Len(up') : up'[i].msg[1] \notin {"ECDH_INIT", "NEWKEYS"}
  <2>1. \A i \in 1..Len(up) : up[i].msg[1] \notin {"ECDH_INIT", "NEWKEYS"}
    BY <1>1, <1>7 DEF KeyInv, Fresh
  <2>2. /\ Len(up) \in Nat /\ Len(up) >= 1 /\ Head(up) = up[1]
        /\ Len(Tail(up)) = Len(up) - 1
        /\ \A i \in 1 .. Len(up) - 1 : Tail(up)[i] = up[i + 1]
    BY <1>1, HeadTail
  <2>. QED BY <1>1, <2>1, <2>2
<1>. QED BY <1>1, <1>2, <1>3, <1>5, <1>6, <1>7

\* Two states of the server with the same keys that hold the same.
Abreast(d, e) ==
  /\ d \in ServerState /\ d.sendKey = e.sendKey /\ d.sendSeq = e.sendSeq /\ d.held = e.held
  /\ d.strict = e.strict /\ d.kex = e.kex /\ d.recvKey = e.recvKey /\ d.recvSeq = e.recvSeq

LEMMA TwoOnes ==
  ASSUME NEW x, NEW y
  PROVE  <<x>> \o <<y>> = <<x, y>>
<1> DEFINE S == {x, y}
<1>1. <<x>> \in Seq(S) /\ <<y>> \in Seq(S) /\ <<x, y>> \in Seq(S)
  OBVIOUS
<1>2. <<x>> \o <<y>> \in Seq(S) /\ Len(<<x>> \o <<y>>) = 2 /\ Len(<<x, y>>) = 2
  BY <1>1
<1>3. (<<x>> \o <<y>>)[1] = x /\ (<<x>> \o <<y>>)[2] = y
  BY <1>1
<1>4. \A i \in 1..2 : (<<x>> \o <<y>>)[i] = <<x, y>>[i]
  BY <1>3
<1> HIDE DEF S
<1>. QED BY <1>1, <1>2, <1>4, SeqEqual

LEMMA ReceivesKeys ==
  ASSUME Typed, KeyInv, ServerReceives
  PROVE  KeyInv'
<1>0. ASSUME NEW t, t # "NEWKEYS", ServerTakes(t)
      PROVE  /\ Alive /\ c' = c /\ In.sendKey = s.sendKey /\ In.sendSeq = s.sendSeq
             /\ In.held = s.held /\ In.strict = s.strict /\ In.kex = s.kex /\ In.recvKey = s.recvKey
             /\ Numbered(up', <<s.recvKey, In.recvSeq>>, <<c.sendKey, c.sendSeq>>, s.strict)
             /\ c.wait = "kexinit" =>
                  \A i \in 1..Len(up') : up'[i].msg[1] \notin {"ECDH_INIT", "NEWKEYS"}
  <2>1. c' = c
    BY <1>0 DEF ServerTakes
  <2>. QED BY <1>0, <2>1, TakenKeepsKeys
<1>1. ASSUME NEW t, t # "NEWKEYS", ServerTakes(t), NEW s2, Abreast(s2, In), s' = s2, down' = down
      PROVE  KeyInv'
  <2>1. /\ s'.sendKey = s.sendKey /\ s'.sendSeq = s.sendSeq
        /\ s'.held = s.held /\ s'.strict = s.strict /\ s'.kex = s.kex
        /\ s'.recvKey = s.recvKey /\ s'.recvSeq = In.recvSeq
    BY <1>0, <1>1 DEF Abreast
  <2>2. Numbered(up', <<s'.recvKey, s'.recvSeq>>, <<c.sendKey, c.sendSeq>>, s.strict)
    BY <1>0, <1>1, <2>1
  <2>. QED BY <1>0, <1>1, <2>1, <2>2 DEF KeyInv, Fresh
<1>2. ASSUME NEW t, t # "NEWKEYS", ServerTakes(t), NEW s2, Abreast(s2, In),
             NEW msgs \in Seq(Messages), \A i \in 1..Len(msgs) : msgs[i][1] # "NEWKEYS",
             Replies(s2, msgs)
      PROVE  KeyInv'
  <2>1. /\ s2 \in ServerState
        /\ s2.sendKey = s.sendKey /\ s2.sendSeq = s.sendSeq
        /\ s2.held = s.held /\ s2.strict = s.strict /\ s2.kex = s.kex
        /\ s2.recvKey = s.recvKey /\ s2.recvSeq = In.recvSeq
    BY <1>0, <1>2 DEF Abreast
  <2>2. /\ Numbered(down', <<c.recvKey, c.recvSeq>>, <<s'.sendKey, s'.sendSeq>>, s.strict)
        /\ \A i \in 1..Len(s'.held) : s'.held[i][1] # "NEWKEYS"
        /\ s'.strict = s2.strict /\ s'.kex = s2.kex
        /\ s'.recvKey = s2.recvKey /\ s'.recvSeq = s2.recvSeq
        /\ s.kex = "init" => down' = down
    BY <1>0, <1>2, <2>1, RepliesKeepKeys
  <2>3. Numbered(up', <<s'.recvKey, s'.recvSeq>>, <<c.sendKey, c.sendSeq>>, s.strict)
    BY <1>0, <1>2, <2>1, <2>2
  <2>. QED BY <1>0, <1>2, <2>1, <2>2, <2>3 DEF KeyInv, Fresh
<1>3. \A t \in Plain \ {"NEWKEYS"} :
        /\ <<M(t)>> \in Seq(Messages) /\ \A i \in 1..Len(<<M(t)>>) : <<M(t)>>[i][1] # "NEWKEYS"
  BY PlainMsgs
<1>4. ASSUME NEW t, ServerTakes(t)
      PROVE  In \in ServerState /\ Abreast(In, In)
  BY <1>4, TakenKeepsKeys DEF Abreast
<1>5. CASE SrvKexInit
  BY <1>1, <1>4, <1>5 DEF SrvKexInit
<1>6. CASE SrvEcdh
  <2> DEFINE a == Seal(<<M("ECDH_REPLY")>>, s.sendKey, s.sendSeq)
             n == (s.sendSeq + 1) % SeqWrap
             b == Seal(<<M("NEWKEYS")>>, s.sendKey, n)
             under == Seal(<<M("ECDH_REPLY"), M("NEWKEYS")>>, s.sendKey, s.sendSeq)
             seq == IF s.strict THEN 0 ELSE (s.sendSeq + 2) % SeqWrap
             held == Seal(s.held, s.sendKey + 1, seq)
  <2>1. /\ s.sendKey \in Nat /\ s.sendKey + 1 \in Nat /\ s.sendSeq \in Numbers /\ s.sendSeq \in Nat
        /\ s.held \in Seq(Messages) /\ down \in Seq(Packets)
    BY NumberIs, SMTT(30) DEF Typed, ServerState
  <2>2. n \in Numbers /\ n \in Nat
    BY <2>1, InNumbers, NumberIs
  <2>3. seq = IF s.strict THEN 0 ELSE (n + 1) % SeqWrap
    <3>1. s.sendSeq + 1 \in Nat /\ SeqWrap \in Nat /\ SeqWrap >= 2 /\ (s.sendSeq + 1) + 1 = s.sendSeq + 2
      BY <2>1, ChannelAssumption
    <3>. QED BY <3>1, ModSucc
  <2>4. seq \in Numbers
    BY <2>2, <2>3, InNumbers, NumberIs
  <2>5. /\ <<M("ECDH_REPLY")>> \in Seq(Messages) /\ <<M("NEWKEYS")>> \in Seq(Messages)
        /\ <<M("ECDH_REPLY"), M("NEWKEYS")>> \in Seq(Messages)
    BY Plainly, One DEF Plain
  <2>6. a \o b = under
    <3>1. /\ (s.sendSeq + 1 - 1) % SeqWrap = s.sendSeq /\ s.sendSeq + 2 - 1 = s.sendSeq + 1
          /\ (n + 1 - 1) % SeqWrap = n
      BY <2>1, <2>2, NumberIs
    <3>2. a = <<[key |-> s.sendKey, seq |-> s.sendSeq, msg |-> M("ECDH_REPLY")]>>
      BY <3>1 DEF Seal
    <3>3. b = <<[key |-> s.sendKey, seq |-> n, msg |-> M("NEWKEYS")]>>
      BY <3>1 DEF Seal
    <3>4. under = <<[key |-> s.sendKey, seq |-> s.sendSeq, msg |-> M("ECDH_REPLY")],
                    [key |-> s.sendKey, seq |-> n, msg |-> M("NEWKEYS")]>>
      BY <3>1 DEF Seal
    <3> HIDE DEF a, b, under, n
    <3>. QED BY <3>2, <3>3, <3>4, TwoOnes
  <2>7. a \in Seq(Packets) /\ b \in Seq(Packets)
    BY <2>1, <2>2, <2>5, Sealed
  <2>8. down' = (down \o a) \o b \o held
    <3>1. down' = (down \o under) \o held
      BY <1>6 DEF SrvEcdh
    <3> HIDE DEF a, b, under, held
    <3>2. down \o (a \o b) = (down \o a) \o b
      BY <2>1, <2>7, ConcatAssociative, SMTT(30)
    <3>. QED BY <2>6, <3>1, <3>2
  <2>9. Alive
    BY <1>6, TakenKeepsKeys DEF SrvEcdh
  <2>10. Numbered(down \o a, <<c.recvKey, c.recvSeq>>, <<s.sendKey, n>>, s.strict)
    <3>1. Len(<<M("ECDH_REPLY")>>) = 1
          /\ \A i \in 1..Len(<<M("ECDH_REPLY")>>) : <<M("ECDH_REPLY")>>[i][1] # "NEWKEYS"
      BY DEF M, Msg
    <3>2. Numbered(down, <<c.recvKey, c.recvSeq>>, <<s.sendKey, s.sendSeq>>, s.strict)
      BY <2>9 DEF KeyInv
    <3>. QED BY <2>1, <2>5, <3>1, <3>2, NumberedSeal
  <2>11. down \o a \in Seq(Packets)
    <3> HIDE DEF a
    <3>. QED BY <2>1, <2>7
  <2>12. Numbered((down \o a) \o b, <<c.recvKey, c.recvSeq>>, <<s.sendKey + 1, seq>>, s.strict)
    <3> DEFINE x == down \o a
    <3>1. x \in Seq(Packets) /\ Numbered(x, <<c.recvKey, c.recvSeq>>, <<s.sendKey, n>>, s.strict)
      BY <2>10, <2>11
    <3> HIDE DEF x, n, seq
    <3>2. Numbered(x \o Seal(<<M("NEWKEYS")>>, s.sendKey, n), <<c.recvKey, c.recvSeq>>,
                   <<s.sendKey + 1, IF s.strict THEN 0 ELSE (n + 1) % SeqWrap>>, s.strict)
      BY <2>1, <2>2, <3>1, NumberedNewKeys
    <3>. QED BY <2>3, <3>2 DEF x
  <2>13. (down \o a) \o b \in Seq(Packets)
    <3> HIDE DEF a, b
    <3>. QED BY <2>7, <2>11
  <2>14. Numbered(down', <<c.recvKey, c.recvSeq>>,
                  <<s.sendKey + 1, (seq + Len(s.held)) % SeqWrap>>, s.strict)
    <3>1. \A i \in 1..Len(s.held) : s.held[i][1] # "NEWKEYS"
      BY <2>9 DEF KeyInv
    <3> HIDE DEF seq, a, b
    <3>. QED BY <2>1, <2>4, <2>8, <2>12, <2>13, <3>1, NumberedSeal
  <2>15. /\ In \in ServerState /\ In.sendKey = s.sendKey
         /\ In.strict = s.strict /\ In.recvKey = s.recvKey /\ c.wait # "kexinit" /\ c' = c
         /\ Numbered(up', <<s.recvKey, In.recvSeq>>, <<c.sendKey, c.sendSeq>>, s.strict)
    BY <1>6, TakenKeepsKeys DEF SrvEcdh, ServerTakes
  <2>16. s' = [In EXCEPT !.kex = "keys", !.sendKey = @ + 1, !.held = <<>>,
                         !.sendSeq = (seq + Len(s.held)) % SeqWrap]
    BY <1>6 DEF SrvEcdh
  <2> HIDE DEF seq
  <2>17. /\ s'.sendKey = s.sendKey + 1 /\ s'.sendSeq = (seq + Len(s.held)) % SeqWrap
         /\ s'.held = <<>> /\ s'.strict = s.strict
         /\ s'.recvKey = s.recvKey /\ s'.recvSeq = In.recvSeq
    BY <2>15, <2>16 DEF ServerState
  <2>18. \A i \in 1..Len(s'.held) : s'.held[i][1] # "NEWKEYS"
    BY <2>17
  <2>. QED BY <2>9, <2>14, <2>15, <2>17, <2>18 DEF KeyInv
<1>7. CASE SrvNewKeys
  <2>1. /\ Alive /\ In \in ServerState /\ In.sendKey = s.sendKey /\ In.sendSeq = s.sendSeq
        /\ In.held = s.held /\ In.strict = s.strict /\ In.recvKey = s.recvKey
        /\ c.wait # "kexinit" /\ c' = c /\ down' = down
        /\ Numbered(up', <<s.recvKey + 1, IF s.strict THEN 0 ELSE In.recvSeq>>,
                    <<c.sendKey, c.sendSeq>>, s.strict)
    BY <1>7, TakenKeepsKeys DEF SrvNewKeys, ServerTakes
  <2>2. s' = [In EXCEPT !.kex = "idle", !.recvKey = @ + 1, !.recvSeq = IF s.strict THEN 0 ELSE @]
    BY <1>7 DEF SrvNewKeys
  <2>3. /\ s'.sendKey = s.sendKey /\ s'.sendSeq = s.sendSeq /\ s'.held = s.held
        /\ s'.strict = s.strict /\ s'.recvKey = s.recvKey + 1
        /\ s'.recvSeq = (IF s.strict THEN 0 ELSE In.recvSeq)
    BY <2>1, <2>2 DEF ServerState
  <2>. QED BY <2>1, <2>3 DEF KeyInv
<1>8. CASE SrvLogin
  <2>1. ASSUME NEW m \in Messages, m[1] # "NEWKEYS"
        PROVE  <<m>> \in Seq(Messages) /\ \A i \in 1..Len(<<m>>) : <<m>>[i][1] # "NEWKEYS"
    BY <2>1, One
  <2>2. <<M("BANNER"), M("AUTH_SUCCESS")>> \in Seq(Messages)
        /\ \A i \in 1..Len(<<M("BANNER"), M("AUTH_SUCCESS")>>) :
              <<M("BANNER"), M("AUTH_SUCCESS")>>[i][1] # "NEWKEYS"
    BY Plainly, One DEF Plain, M, Msg
  <2>3. ASSUME NEW t \in {"SERVICE_REQUEST", "PROBE", "AUTH", "OPEN", "PTY_REQ", "EXEC"},
               NEW u \in Plain \ {"NEWKEYS"}, ServerTakes(t), Replies(In, <<M(u)>>)
        PROVE  KeyInv'
    BY <1>2, <1>3, <1>4, <2>3
  <2>4. CASE \/ ServerTakes("SERVICE_REQUEST") /\ Replies(In, <<M("SERVICE_ACCEPT")>>)
             \/ ServerTakes("OPEN") /\ Replies(In, <<M("REFUSED")>>)
             \/ ServerTakes("EXEC") /\ Replies(In, <<M("FAILURE")>>)
    BY <2>3, <2>4 DEF Plain
  <2>5. CASE ServerTakes("PROBE") /\ \E a \in {<<M("PK_OK")>>, <<M("AUTH_SUCCESS")>>, <<M("REFUSED")>>} :
                                Replies(In, a)
    BY <2>3, <2>5 DEF Plain
  <2>6. CASE ServerTakes("AUTH") /\ \E a \in {<<M("BANNER"), M("AUTH_SUCCESS")>>, <<M("REFUSED")>>} :
                                Replies(In, a)
    <3>1. CASE ServerTakes("AUTH") /\ Replies(In, <<M("REFUSED")>>)
      BY <2>3, <3>1 DEF Plain
    <3>2. CASE ServerTakes("AUTH") /\ Replies(In, <<M("BANNER"), M("AUTH_SUCCESS")>>)
      BY <1>2, <1>4, <2>2, <3>2
    <3>. QED BY <2>6, <3>1, <3>2
  <2>7. CASE ServerTakes("PTY_REQ") /\ \E a \in {"SUCCESS", "FAILURE"} : Replies(In, <<M(a)>>)
    BY <2>3, <2>7 DEF Plain
  <2>8. ASSUME NEW w \in Windows \cup {0}, NEW p \in MaxPkts, ServerTakes("OPEN"),
               Replies([In EXCEPT !.room = w, !.window = WindowSize], <<Msg("CONFIRM", <<w, p>>)>>)
        PROVE  KeyInv'
    <3>1. w \in Nat /\ p \in Nat \ {0} /\ WindowSize \in Int /\ w \in Int
      BY ChannelAssumption
    <3>2. Msg("CONFIRM", <<w, p>>) \in Messages /\ Msg("CONFIRM", <<w, p>>)[1] # "NEWKEYS"
      BY <3>1, Plainly DEF Msg
    <3> DEFINE s2 == [In EXCEPT !.room = w, !.window = WindowSize]
    <3>3. s2 \in ServerState
      BY <1>4, <2>8, <3>1, ZenonT(30) DEF ServerState
    <3>4. Abreast(s2, In)
      BY <1>4, <2>8, <3>3, ZenonT(30) DEF Abreast, ServerState
    <3> HIDE DEF s2
    <3>5. Replies(s2, <<Msg("CONFIRM", <<w, p>>)>>)
      BY <2>8 DEF s2
    <3> DEFINE msgs == <<Msg("CONFIRM", <<w, p>>)>>
    <3>6. msgs \in Seq(Messages) /\ \A i \in 1..Len(msgs) : msgs[i][1] # "NEWKEYS"
      BY <2>1, <3>2
    <3> HIDE DEF msgs
    <3>7. Replies(s2, msgs)
      BY <3>5 DEF msgs
    <3>. QED BY <1>2, <2>8, <3>4, <3>6, <3>7
  <2>9. ASSUME NEW w \in Windows, NEW f \in EarlyFates \cup {<<>>}, ServerTakes("EXEC"),
               Replies([In EXCEPT !.stage = "running", !.room = @ + w, !.early = f # <<>>, !.fate = f],
                       <<Msg("ADJUST", w)>> \o (IF f = <<>> THEN <<>> ELSE <<Msg("EXIT", f)>>)
                         \o <<M("SUCCESS")>>)
        PROVE  KeyInv'
    <3> DEFINE exit == IF f = <<>> THEN <<>> ELSE <<Msg("EXIT", f)>>
               msgs == <<Msg("ADJUST", w)>> \o exit \o <<M("SUCCESS")>>
               e == f # <<>>
               s2 == [In EXCEPT !.stage = "running", !.room = @ + w, !.early = e, !.fate = f]
    <3>10. w \in Nat
      BY ChannelAssumption
    <3>11. In.room \in Int
      BY <1>4, <2>9 DEF ServerState
    <3>1. w \in Nat /\ In.room + w \in Int
      BY ONLY <3>10, <3>11
    <3>2. <<Msg("ADJUST", w)>> \in Seq(Messages) /\ Msg("ADJUST", w)[1] # "NEWKEYS"
      BY <3>1, Plainly, One DEF Msg
    <3>3. exit \in Seq(Messages) /\ \A i \in 1..Len(exit) : exit[i][1] # "NEWKEYS"
      BY Plainly, One DEF AllFates, Msg
    <3>4. <<M("SUCCESS")>> \in Seq(Messages) /\ M("SUCCESS")[1] # "NEWKEYS"
      BY <1>3 DEF Plain, M, Msg
    <3>5. msgs \in Seq(Messages) /\ \A i \in 1..Len(msgs) : msgs[i][1] # "NEWKEYS"
      <4> HIDE DEF exit
      <4> DEFINE x == <<Msg("ADJUST", w)>> \o exit
      <4>1. x \in Seq(Messages) /\ \A i \in 1..Len(x) : x[i][1] # "NEWKEYS"
        BY <3>2, <3>3
      <4> HIDE DEF x
      <4>2. x \o <<M("SUCCESS")>> \in Seq(Messages)
            /\ \A i \in 1..Len(x \o <<M("SUCCESS")>>) : (x \o <<M("SUCCESS")>>)[i][1] # "NEWKEYS"
        BY <3>4, <4>1
      <4>. QED BY <4>2 DEF x
    <3>6. Replies(s2, msgs)
      BY <2>9
    <3>7. e \in BOOLEAN
      OBVIOUS
    <3> HIDE DEF e, exit, msgs
    <3>8. s2 \in ServerState
      BY <1>4, <2>9, <3>1, <3>7, ZenonT(30) DEF ServerState, AllFates
    <3>9. Abreast(s2, In)
      BY <1>4, <2>9, <3>8, ZenonT(30) DEF Abreast, ServerState
    <3> HIDE DEF s2
    <3>. QED BY <1>2, <2>9, <3>5, <3>6, <3>9
  <2>. QED BY <1>8, <2>4, <2>5, <2>6, <2>7, <2>8, <2>9 DEF SrvLogin
<1>9. CASE SrvInput
  <2> DEFINE data == Head(up).msg[2]
             s2 == [In EXCEPT !.got = @ \o data, !.unread = @ + Len(data), !.room = @ - Len(data)]
  <2>1. In \in ServerState /\ data \in Seq(Nat)
    BY <1>9, ServerTakesTyped, Carries DEF SrvInput
  <2>2. ServerTakes("DATA") /\ s' = s2 /\ down' = down
    BY <1>9 DEF SrvInput
  <2> HIDE DEF data
  <2>3. In.got \o data \in Seq(Nat) /\ In.unread + Len(data) \in Nat /\ In.room - Len(data) \in Int
    BY <2>1 DEF ServerState
  <2>4. s2 \in ServerState
    BY <2>1, <2>3, ZenonT(30) DEF ServerState
  <2>5. Abreast(s2, In)
    BY <2>1, <2>4, ZenonT(30) DEF Abreast, ServerState
  <2> HIDE DEF s2
  <2>. QED BY <1>1, <2>2, <2>5
<1>10. CASE SrvEof
  <2> DEFINE s2 == [In EXCEPT !.gotEof = TRUE]
  <2>1. ServerTakes("EOF") /\ s' = s2 /\ down' = down
    BY <1>10 DEF SrvEof
  <2>2. s2 \in ServerState
    BY <1>4, <2>1, ZenonT(30) DEF ServerState
  <2>3. Abreast(s2, In)
    BY <1>4, <2>1, <2>2, ZenonT(30) DEF Abreast, ServerState
  <2> HIDE DEF s2
  <2>. QED BY <1>1, <2>1, <2>3
<1>11. CASE SrvAdjust
  <2> DEFINE n == Head(up).msg[2]
             s2 == [In EXCEPT !.window = @ + n]
  <2>1. ServerTakes("ADJUST") /\ s' = s2 /\ down' = down
    BY <1>11 DEF SrvAdjust
  <2>2. In \in ServerState /\ n \in Nat
    BY <2>1, ServerTakesTyped, Carries
  <2> HIDE DEF n
  <2>3. In.window + n \in Int
    BY <2>2 DEF ServerState
  <2>4. s2 \in ServerState
    BY <2>2, <2>3, ZenonT(30) DEF ServerState
  <2>5. Abreast(s2, In)
    BY <2>2, <2>4, ZenonT(30) DEF Abreast, ServerState
  <2> HIDE DEF s2
  <2>. QED BY <1>1, <2>1, <2>5
<1>12. CASE SrvAnswer
  <2>1. "REQUEST_FAILURE" \in Plain \ {"NEWKEYS"}
    BY DEF Plain
  <2>. QED BY <1>2, <1>3, <1>4, <1>12, <2>1 DEF SrvAnswer
<1>13. CASE SrvNoted
  BY <1>1, <1>4, <1>13 DEF SrvNoted
<1>. QED BY <1>5, <1>6, <1>7, <1>8, <1>9, <1>10, <1>11, <1>12, <1>13 DEF ServerReceives

LEMMA ServerSendsKeys ==
  ASSUME Typed, KeyInv, ServerSends \/ Vanish
  PROVE  KeyInv'
<1>0. s \in ServerState
  BY DEF Typed
<1>1. ASSUME NEW s2, Abreast(s2, s),
             NEW msgs \in Seq(Messages), \A i \in 1..Len(msgs) : msgs[i][1] # "NEWKEYS",
             Serves(s2, msgs)
      PROVE  KeyInv'
  <2>1. /\ Alive /\ s.kex # "init" /\ c' = c /\ up' = up /\ Replies(s2, msgs)
        /\ s2 \in ServerState /\ s2.sendKey = s.sendKey /\ s2.sendSeq = s.sendSeq
        /\ s2.held = s.held /\ s2.strict = s.strict
        /\ s2.recvKey = s.recvKey /\ s2.recvSeq = s.recvSeq
    BY <1>1 DEF Serves, MaySend, Up, Abreast
  <2>2. /\ Numbered(down', <<c.recvKey, c.recvSeq>>, <<s'.sendKey, s'.sendSeq>>, s.strict)
        /\ \A i \in 1..Len(s'.held) : s'.held[i][1] # "NEWKEYS"
        /\ s'.strict = s2.strict
        /\ s'.recvKey = s2.recvKey /\ s'.recvSeq = s2.recvSeq
    BY <1>1, <2>1, RepliesKeepKeys
  <2>3. c.wait # "kexinit"
    BY <2>1 DEF KeyInv, Fresh
  <2>. QED BY <2>1, <2>2, <2>3 DEF KeyInv
<1>2. ASSUME NEW m \in Messages, m[1] # "NEWKEYS"
      PROVE  <<m>> \in Seq(Messages) /\ \A i \in 1..Len(<<m>>) : <<m>>[i][1] # "NEWKEYS"
  BY <1>2, One
<1>3. ASSUME NEW s2, Abreast(s2, s), NEW m \in Messages, m[1] # "NEWKEYS", Serves(s2, <<m>>)
      PROVE  KeyInv'
  <2> DEFINE msgs == <<m>>
  <2>1. msgs \in Seq(Messages) /\ \A i \in 1..Len(msgs) : msgs[i][1] # "NEWKEYS"
    BY <1>2, <1>3
  <2>2. Serves(s2, msgs)
    BY <1>3
  <2> HIDE DEF msgs
  <2>. QED BY <1>1, <1>3, <2>1, <2>2
<1>4. ASSUME NEW n \in 1..2, SrvOutput(n)
      PROVE  KeyInv'
  <2> DEFINE data == [i \in 1..n |-> s.sent + i]
             s2 == [s EXCEPT !.sent = @ + n, !.window = @ - n]
  <2>1. PICK t \in Streams : Serves(s2, <<Msg(t, data)>>)
    BY <1>4 DEF SrvOutput
  <2>2. s.sent \in Nat /\ s.sent + n \in Nat /\ s.window - n \in Int
    BY <1>0 DEF ServerState
  <2>3. s2 \in ServerState
    BY <1>0, <2>2, ZenonT(30) DEF ServerState
  <2>4. Abreast(s2, s)
    BY <1>0, <2>3, ZenonT(30) DEF Abreast, ServerState
  <2>5. data \in Seq(Nat) /\ t \in {"DATA", "EXT_DATA"}
    BY <2>2, ChannelAssumption
  <2> HIDE DEF data, s2
  <2>6. Msg(t, data) \in Messages /\ Msg(t, data)[1] # "NEWKEYS"
    BY <2>5, Plainly DEF Msg
  <2>. QED BY <1>3, <2>1, <2>4, <2>6
<1>5. CASE SrvGrant
  <2> DEFINE s2 == [s EXCEPT !.unread = 0, !.room = @ + s.unread]
  <2>1. s.unread \in Nat /\ s.room + s.unread \in Int
    BY <1>0 DEF ServerState
  <2>2. s2 \in ServerState
    BY <1>0, <2>1, ZenonT(30) DEF ServerState
  <2>3. Abreast(s2, s)
    BY <1>0, <2>2, ZenonT(30) DEF Abreast, ServerState
  <2>4. Msg("ADJUST", s.unread) \in Messages /\ Msg("ADJUST", s.unread)[1] # "NEWKEYS"
    BY <2>1, Plainly DEF Msg
  <2>5. Serves(s2, <<Msg("ADJUST", s.unread)>>)
    BY <1>5 DEF SrvGrant
  <2> HIDE DEF s2
  <2>. QED BY <1>3, <2>3, <2>4, <2>5
<1>6. CASE SrvSpare
  <2> DEFINE s2 == [s EXCEPT !.extra = @ + 1, !.room = @ + MaxWindow]
  <2>1. MaxWindow \in Nat /\ s.extra + 1 \in Nat /\ s.room + MaxWindow \in Int
    <3>1. MaxWindow \in Nat /\ s.extra \in Nat /\ s.room \in Int
      BY <1>0, ChannelAssumption, ZenonT(30) DEF ServerState
    <3>. QED BY ONLY <3>1
  <2>2. s2 \in ServerState
    BY <1>0, <2>1, ZenonT(30) DEF ServerState
  <2>3. Abreast(s2, s)
    BY <1>0, <2>2, ZenonT(30) DEF Abreast, ServerState
  <2>4. Msg("ADJUST", MaxWindow) \in Messages /\ Msg("ADJUST", MaxWindow)[1] # "NEWKEYS"
    BY <2>1, Plainly DEF Msg
  <2>5. Serves(s2, <<Msg("ADJUST", MaxWindow)>>)
    BY <1>6 DEF SrvSpare
  <2> HIDE DEF s2
  <2>. QED BY <1>3, <2>3, <2>4, <2>5
<1>7. CASE SrvNoise
  <2> DEFINE s2 == [s EXCEPT !.extra = @ + 1]
  <2>1. s.extra + 1 \in Nat
    BY <1>0 DEF ServerState
  <2>2. s2 \in ServerState
    BY <1>0, <2>1, ZenonT(30) DEF ServerState
  <2>3. Abreast(s2, s)
    BY <1>0, <2>2, ZenonT(30) DEF Abreast, ServerState
  <2>4. PICK m \in {M("IGNORE"), Msg("GLOBAL_REQUEST", 1)} : Serves(s2, <<m>>)
    BY <1>7 DEF SrvNoise
  <2>5. m \in Messages /\ m[1] # "NEWKEYS"
    BY Plainly, SMTT(30) DEF M, Msg, Plain
  <2> HIDE DEF s2
  <2>. QED BY <1>3, <2>3, <2>4, <2>5
<1>8. CASE SrvRekey
  <2>1. s.kex = "idle" /\ Alive /\ c' = c /\ up' = up
    BY <1>8 DEF SrvRekey, Up
  <2>2. c.wait # "kexinit"
    BY <2>1 DEF KeyInv, Fresh
  <2>3. s' = [s EXCEPT !.kex = "init", !.rekeys = @ + 1, !.sendSeq = (@ + 1) % SeqWrap]
        /\ down' = down \o Seal(<<M("KEXINIT")>>, s.sendKey, s.sendSeq)
    BY <1>8 DEF SrvRekey
  <2>4. /\ s'.sendKey = s.sendKey /\ s'.sendSeq = (s.sendSeq + 1) % SeqWrap /\ s'.held = s.held
        /\ s'.strict = s.strict /\ s'.recvKey = s.recvKey /\ s'.recvSeq = s.recvSeq
    BY <1>0, <2>3 DEF ServerState
  <2>5. Numbered(down, <<c.recvKey, c.recvSeq>>, <<s.sendKey, s.sendSeq>>, s.strict)
    BY <2>1 DEF KeyInv
  <2> DEFINE msgs == <<M("KEXINIT")>>
  <2>6. msgs \in Seq(Messages) /\ \A i \in 1..Len(msgs) : msgs[i][1] # "NEWKEYS"
    BY PlainMsgs DEF Plain
  <2>7. Len(msgs) = 1 /\ down' = down \o Seal(msgs, s.sendKey, s.sendSeq)
    BY <2>3
  <2> HIDE DEF msgs
  <2>8. s.sendKey \in Nat /\ s.sendSeq \in Numbers /\ down \in Seq(Packets)
    BY DEF Typed, ServerState
  <2>9. Numbered(down', <<c.recvKey, c.recvSeq>>, <<s'.sendKey, s'.sendSeq>>, s.strict)
    BY <2>4, <2>5, <2>6, <2>7, <2>8, NumberedSeal
  <2>. QED BY <2>1, <2>2, <2>4, <2>9 DEF KeyInv
<1>9. CASE SrvExit
  <2> DEFINE exit(f) == IF f = <<>> THEN <<>> ELSE <<Msg("EXIT", f)>>
             s2(f) == [s EXCEPT !.stage = "exited", !.fate = IF s.early THEN @ ELSE f]
  <2>1. PICK f \in IF s.early THEN {<<>>} ELSE Fates \cup {<<>>} :
          Serves(s2(f), <<M("EOF")>> \o exit(f))
    BY <1>9 DEF SrvExit
  <2>2. f \in AllFates \cup {<<>>} /\ s.fate \in AllFates \cup {<<>>}
    BY <1>0 DEF AllFates, ServerState
  <2>3. \A g \in AllFates \cup {<<>>} : [s EXCEPT !.stage = "exited", !.fate = g] \in ServerState
    BY <1>0, ZenonT(30) DEF ServerState
  <2>4. s2(f) \in ServerState
    BY <2>2, <2>3
  <2>5. Abreast(s2(f), s)
    BY <1>0, <2>4, ZenonT(30) DEF Abreast, ServerState
  <2>6. exit(f) \in Seq(Messages) /\ \A i \in 1..Len(exit(f)) : exit(f)[i][1] # "NEWKEYS"
    BY <2>2, Plainly, One DEF Msg
  <2>7. <<M("EOF")>> \in Seq(Messages) /\ M("EOF")[1] # "NEWKEYS"
    BY Plainly, One DEF Plain, M, Msg
  <2> DEFINE msgs == <<M("EOF")>> \o exit(f)
  <2> HIDE DEF exit, s2
  <2>8. msgs \in Seq(Messages) /\ \A i \in 1..Len(msgs) : msgs[i][1] # "NEWKEYS"
    BY <2>6, <2>7
  <2>9. Serves(s2(f), msgs)
    BY <2>1
  <2> HIDE DEF msgs
  <2>. QED BY <1>1, <2>5, <2>8, <2>9
<1>10. CASE SrvClose
  <2> DEFINE s2 == [s EXCEPT !.stage = "closing"]
  <2>1. s2 \in ServerState
    BY <1>0, ZenonT(30) DEF ServerState
  <2>2. Abreast(s2, s)
    BY <1>0, <2>1, ZenonT(30) DEF Abreast, ServerState
  <2>3. M("CLOSE") \in Messages /\ M("CLOSE")[1] # "NEWKEYS"
    BY Plainly DEF Plain, M, Msg
  <2>4. Serves(s2, <<M("CLOSE")>>)
    BY <1>10 DEF SrvClose
  <2> HIDE DEF s2
  <2>. QED BY <1>3, <2>2, <2>3, <2>4
<1>11. CASE Vanish
  <2>1. /\ c' = c /\ up' = up /\ down' = down
        /\ s'.sendKey = s.sendKey /\ s'.sendSeq = s.sendSeq /\ s'.held = s.held /\ s'.kex = s.kex
        /\ s'.strict = s.strict /\ s'.recvKey = s.recvKey /\ s'.recvSeq = s.recvSeq
    BY <1>0, <1>11 DEF Vanish, ServerState
  <2>. QED BY <2>1 DEF KeyInv, Fresh, Alive
<1>. QED BY <1>4, <1>5, <1>6, <1>7, <1>8, <1>9, <1>10, <1>11 DEF ServerSends

LEMMA InitKeys == Init => KeyInv
<1> SUFFICES ASSUME Init PROVE KeyInv
  OBVIOUS
<1>1. PICK strict \in Strict :
         /\ down = Seal(<<Msg("KEXINIT", IF strict THEN 1 ELSE 0)>>, 0, 0)
         /\ s.kex = "init" /\ s.sendKey = 0 /\ s.sendSeq = 1 /\ s.recvKey = 0 /\ s.recvSeq = 0
         /\ s.strict = strict /\ s.held = <<>>
  BY DEF Init
<1>2. /\ c.wait = "kexinit" /\ c.back = "service" /\ c.recvKey = 0 /\ c.recvSeq = 0
      /\ c.sendKey = 0 /\ c.sendSeq = 1 /\ up = Seal(<<M("KEXINIT")>>, 0, 0)
  BY DEF Init
<1>3. ASSUME NEW m \in Messages, m[1] = "KEXINIT", NEW q, q = Seal(<<m>>, 0, 0)
      PROVE  /\ Len(q) = 1 /\ q[1].msg = m
             /\ Numbered(q, <<0, 0>>, <<0, 1>>, strict)
  <2>1. 0 % SeqWrap = 0 /\ 1 % SeqWrap = 1
    BY ChannelAssumption, NumberIs DEF Numbers
  <2>2. q = <<[key |-> 0, seq |-> 0, msg |-> m]>>
    BY <1>3, <2>1 DEF Seal
  <2>3. Len(q) = 1 /\ q[1].key = 0 /\ q[1].seq = 0 /\ q[1].msg = m
    BY <2>2
  <2>4. After(q[1], strict) = <<0, 1>>
    BY <1>3, <2>1, <2>3 DEF After
  <2>5. At(q, 1, <<0, 1>>) = <<0, 0>> /\ At(q, 2, <<0, 1>>) = <<0, 1>>
    BY <2>3 DEF At
  <2>. QED BY <2>3, <2>4, <2>5 DEF Numbered
<1>4. Msg("KEXINIT", IF strict THEN 1 ELSE 0) \in Messages /\ M("KEXINIT") \in Messages
  BY Plainly DEF Plain
<1>5. /\ Len(down) = 1 /\ down[1].msg = Msg("KEXINIT", IF strict THEN 1 ELSE 0)
      /\ Numbered(down, <<0, 0>>, <<0, 1>>, strict)
  BY <1>1, <1>3, <1>4 DEF Msg
<1>6. /\ Len(up) = 1 /\ up[1].msg = M("KEXINIT") /\ Numbered(up, <<0, 0>>, <<0, 1>>, strict)
  BY <1>2, <1>3, <1>4 DEF M, Msg
<1>7. Fresh
  BY <1>1, <1>5, <1>6 DEF Fresh, M, Msg
<1>. QED BY <1>1, <1>2, <1>5, <1>6, <1>7 DEF KeyInv

LEMMA NextKeys ==
  ASSUME Typed, KeyInv, [Next]_vars
  PROVE  KeyInv'
<1>1. CASE UNCHANGED vars
  BY <1>1 DEF KeyInv, Fresh, Alive, vars
<1>. QED
  BY <1>1, HandshakeKeys, PumpKeys, UserKeys, ReceivesKeys, ServerSendsKeys DEF Next, Client

\* Whatever the peers do, packets carry what their type says and every field
\* keeps its range: windows handed to chunking are numbers, sequence numbers
\* stay below SeqWrap (the SSH structure of src/mssh/mssh.c).
THEOREM TypeKept == Spec => []Typed
<1>1. Typed /\ [Next]_vars => Typed'
  BY NextTyped
<1>. QED BY InitTyped, <1>1, PTL DEF Spec

\* Neither side ever gets a packet it cannot open, for any number of key
\* exchanges and any interleaving of them with what the session sends
\* (pkt_send, pkt_recv, do_kex and ssh_pump in src/mssh/mssh.c).
THEOREM KeysAlwaysAgree == Spec => []KeysAgree
<1>1. Typed /\ KeyInv /\ [Next]_vars => Typed' /\ KeyInv'
  BY NextTyped, NextKeys
<1>2. Typed /\ KeyInv => KeysAgree
  <2> SUFFICES ASSUME Typed, KeyInv PROVE KeysAgree
    OBVIOUS
  <2>1. ASSUME Arrived PROVE Opens(Head(down))
    <3>1. <<c.recvKey, c.recvSeq>> = <<Head(down).key, Head(down).seq>>
      BY <2>1, NumberedTail DEF KeyInv, Arrived, Typed
    <3>. QED BY <3>1 DEF Opens
  <2>2. ASSUME Up PROVE ServerOpens
    <3>1. ASSUME up # <<>>
          PROVE  <<s.recvKey, s.recvSeq>> = <<Head(up).key, Head(up).seq>>
      BY <2>2, <3>1, NumberedTail DEF KeyInv, Up, Typed
    <3>. QED BY <3>1 DEF ServerOpens
  <2>. QED BY <2>1, <2>2 DEF KeysAgree
<1>. QED BY InitTyped, InitKeys, <1>1, <1>2, PTL DEF Spec
=============================================================================
