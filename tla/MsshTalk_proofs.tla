--------------------------- MODULE MsshTalk_proofs ---------------------------
(* A theorem about what is said on an ssh connection of MsshChannel: the     *)
(* status mssh ends with is the command's.  It reads the connection as a     *)
(* conversation: the messages on their way, without keys and numbers, with   *)
(* what the server holds back behind those it has sent.                      *)
EXTENDS MsshChannel_proofs

Msgs(q) == [i \in 1..Len(q) |-> q[i].msg]
Going == Msgs(up)
Coming == Msgs(down) \o s.held
Heard == Head(Coming)
Asked == Head(Going)
\* Where the client is, key exchanges left out.
Phase == IF InKex THEN c.back ELSE c.wait

Turns == {"ECDH_INIT", "NEWKEYS"}          \* the client's part in a key exchange
ServerTurns == {"KEXINIT", "ECDH_REPLY"}   \* the server's
Questions == {"OPEN", "PTY_REQ", "EXEC"}
Answers == {"CONFIRM", "SUCCESS", "FAILURE"}
\* Types no theorem here is about.
Quiet == Plain \ (Turns \cup ServerTurns \cup Questions \cup Answers \cup {"EOF", "CLOSE"})
AllOf(msgs, types) == \A i \in 1..Len(msgs) : msgs[i][1] \in types

\* The i of the one message of `q' of these types, 0 if there is none.
Only(q, types, n) ==
  n \in 0..Len(q) /\ \A i \in 1..Len(q) : q[i][1] \in types <=> i = n

-----------------------------------------------------------------------------
(* A key exchange is one thing being said at a time, and the server holds    *)
(* nothing unless it waits for the client's part in one.                     *)

TurnOf(kex, a, b, g, n) ==
  /\ Only(a, Turns, g) /\ Only(b, ServerTurns, n)
  /\ kex = "idle" => g = 0 /\ n = 0
  /\ kex = "init" => \/ g = 0 /\ n > 0 /\ b[n][1] = "KEXINIT"
                     \/ n = 0 /\ g > 0 /\ a[g][1] = "ECDH_INIT"
  /\ kex = "keys" => \/ g = 0 /\ n > 0 /\ b[n][1] = "ECDH_REPLY"
                     \/ n = 0 /\ g > 0 /\ a[g][1] = "NEWKEYS"
Turn(g, n) == TurnOf(s.kex, Going, Coming, g, n)
Quietly == {"service", "probe", "auth"}
HeldRight == s.kex # "init" => s.held = <<>>
TurnInv ==
  /\ HeldRight
  /\ Alive => \E g \in 0..Len(Going), n \in 0..Len(Coming) : Turn(g, n)

-----------------------------------------------------------------------------
(* What a step changes in the conversation and in what it is about.          *)

Sending == <<c.window, c.outq, c.eofPending, c.clientEof, typed>>
Showing == <<c.pending, shown>>
Serving == <<s.window, s.room, s.got, s.gotEof, s.sent, s.stage, s.fate, s.early>>

\* The client hears a message and says `msgs'.
Hears(msgs) ==
  /\ Alive /\ Coming # <<>> /\ Coming' = Tail(Coming)
  /\ msgs \in Seq(Messages) /\ Going' = Going \o msgs /\ s' = s
Stays == UNCHANGED <<Phase, Sending, Showing, c.exit>>

Chats == \E msgs \in Seq(Messages) :
  Hears(msgs) /\ AllOf(msgs, Quiet) /\ Heard[1] \in Quiet \cup {"EOF", "NEWKEYS"} /\ Stays
LogsIn ==
  \E msgs \in Seq(Messages) :
    /\ Hears(msgs) /\ AllOf(msgs, Quiet) /\ Heard[1] \in Quiet
    /\ Phase \in Quietly /\ Phase' \in Quietly /\ UNCHANGED <<Sending, Showing, c.exit>>
TakesTurn ==
  /\ Stays /\ Heard[1] = "KEXINIT"
  /\ Hears(<<M("ECDH_INIT")>>) \/ Hears(<<M("KEXINIT"), M("ECDH_INIT")>>)
EndsTurn == Stays /\ Heard[1] = "ECDH_REPLY" /\ Hears(<<M("NEWKEYS")>>)
Asks ==
  /\ Hears(<<M("OPEN")>>) /\ Heard[1] \in Quiet /\ Phase \in Quietly /\ Phase' = "open"
  /\ UNCHANGED <<Sending, Showing, c.exit>>
Confirmed ==
  /\ Heard[1] = "CONFIRM" /\ Phase = "open"
  /\ \/ Phase' = "pty" /\ Hears(<<M("PTY_REQ")>>)
     \/ Phase' = "exec" /\ Hears(<<M("EXEC")>>)
  /\ c'.window = Heard[2][1] /\ UNCHANGED <<c.outq, c.eofPending, c.clientEof, typed, Showing, c.exit>>
AsksOn ==
  /\ Heard[1] \in {"SUCCESS", "FAILURE"} /\ Phase = "pty" /\ Phase' = "exec"
  /\ Hears(<<M("EXEC")>>) /\ UNCHANGED <<Sending, Showing, c.exit>>
Runs ==
  /\ Heard[1] = "SUCCESS" /\ Phase = "exec" /\ Phase' = "run"
  /\ Hears(<<>>) /\ UNCHANGED <<Sending, Showing, c.exit>>
Notes ==
  /\ Heard[1] = "ADJUST" /\ Phase \in {"pty", "exec"}
  /\ Hears(<<>>) /\ c'.window = AddWindow(Heard[2])
  /\ UNCHANGED <<Phase, c.outq, c.eofPending, c.clientEof, typed, Showing, c.exit>>
Drops ==
  /\ Heard[1] \in {"DATA", "EXT_DATA", "EXIT", "EOF", "CLOSE"} /\ Phase \in {"pty", "exec"}
  /\ Hears(<<>>) /\ Stays
Widens ==
  /\ Heard[1] = "ADJUST" /\ Phase = "run"
  /\ LET w == AddWindow(Heard[2])
         ends == c.eofPending /\ Rest(c.outq, w) = <<>>
     IN  /\ Hears(Chunks(c.outq, w) \o (IF ends THEN <<M("EOF")>> ELSE <<>>))
         /\ c'.window = w - Fits(c.outq, w) /\ c'.outq = Rest(c.outq, w)
         /\ c'.eofPending = (c.eofPending /\ ~ends)
  /\ UNCHANGED <<Phase, c.clientEof, typed, Showing, c.exit>>
Shows ==
  /\ Heard[1] \in {"DATA", "EXT_DATA"} /\ Phase = "run" /\ shown' = shown \o Heard[2]
  /\ LET owed == c.pending + Len(Heard[2])
     IN  \/ Hears(<<>>) /\ c'.pending = owed
         \/ Hears(<<Msg("ADJUST", owed)>>) /\ c'.pending = 0
  /\ UNCHANGED <<Phase, Sending, c.exit>>
IsTold ==
  /\ Heard[1] = "EXIT" /\ Phase = "run" /\ Hears(<<>>) /\ c'.exit = Status(Heard[2])
  /\ UNCHANGED <<Phase, Sending, Showing>>
Leaves ==
  /\ Heard[1] = "CLOSE" /\ Phase = "run" /\ Hears(<<M("CLOSE")>>) /\ c'.wait = "over"
  /\ UNCHANGED <<Sending, Showing, c.exit>>
Dies ==
  /\ Alive /\ c'.wait = "died" /\ s' = s /\ Going' = Going
  /\ \/ Coming' = Coming
     \/ Coming # <<>> /\ Coming' = Tail(Coming)
  /\ UNCHANGED <<Sending, Showing>>

\* The client says something of its own.
Says(msgs) ==
  /\ Alive /\ c.wait = "run" /\ msgs \in Seq(Messages)
  /\ Going' = Going \o msgs /\ Coming' = Coming /\ s' = s
Remarks == \E msgs \in Seq(Messages) : Says(msgs) /\ AllOf(msgs, Quiet) /\ Stays
TypesMore ==
  /\ ~c.clientEof
  /\ \E n \in 1..MaxBurst :
       LET data == [i \in 1..n |-> typed + i]
       IN  /\ typed' = typed + n
           /\ \/ /\ c.outq # <<>> /\ Says(<<>>)
                 /\ c'.outq = c.outq \o data /\ c'.window = c.window
              \/ /\ c.outq = <<>> /\ Says(Chunks(data, c.window))
                 /\ c'.outq = Rest(data, c.window) /\ c'.window = c.window - Fits(data, c.window)
  /\ UNCHANGED <<Phase, c.eofPending, c.clientEof, Showing, c.exit>>
Finishes ==
  /\ ~c.clientEof /\ c'.clientEof = TRUE
  /\ \/ c.outq # <<>> /\ Says(<<>>) /\ c'.eofPending = TRUE
     \/ c.outq = <<>> /\ Says(<<M("EOF")>>) /\ c'.eofPending = c.eofPending
  /\ UNCHANGED <<Phase, c.window, c.outq, typed, Showing, c.exit>>

\* The server says `msgs', to a message it hears, or unasked.
Speaks(msgs) ==
  /\ Alive /\ c' = c /\ typed' = typed /\ shown' = shown
  /\ msgs \in Seq(Messages) /\ Coming' = Coming \o msgs
Reacts(type, msgs) ==
  Going # <<>> /\ Asked[1] = type /\ Going' = Tail(Going) /\ Speaks(msgs)
Adds(msgs) == Going' = Going /\ Speaks(msgs)
Exit(f) == IF f = <<>> THEN <<>> ELSE <<Msg("EXIT", f)>>

Obliges ==
  /\ \E t \in Quiet \cup {"KEXINIT", "OPEN"}, msgs \in Seq(Messages) :
        Reacts(t, msgs) /\ AllOf(msgs, Quiet)
  /\ UNCHANGED <<Serving, s.kex>>
Responds ==
  /\ \/ Reacts("PTY_REQ", <<M("SUCCESS")>>) \/ Reacts("PTY_REQ", <<M("FAILURE")>>)
     \/ Reacts("EXEC", <<M("FAILURE")>>)
  /\ UNCHANGED <<Serving, s.kex>>
Confirms ==
  /\ \E w \in Windows \cup {0}, p \in MaxPkts :
        Reacts("OPEN", <<Msg("CONFIRM", <<w, p>>)>>) /\ s'.room = w
  /\ s'.window = WindowSize
  /\ UNCHANGED <<s.got, s.gotEof, s.sent, s.stage, s.fate, s.early, s.kex>>
Starts ==
  /\ \E w \in Windows, f \in EarlyFates \cup {<<>>} :
        /\ Reacts("EXEC", <<Msg("ADJUST", w)>> \o Exit(f) \o <<M("SUCCESS")>>)
        /\ s'.room = s.room + w /\ s'.early = (f # <<>>) /\ s'.fate = f
  /\ s'.stage = "running" /\ UNCHANGED <<s.window, s.got, s.gotEof, s.sent, s.kex>>
Reads ==
  /\ Reacts("DATA", <<>>)
  /\ s'.got = s.got \o Asked[2] /\ s'.room = s.room - Len(Asked[2])
  /\ UNCHANGED <<s.window, s.gotEof, s.sent, s.stage, s.fate, s.early, s.kex>>
ReadsEnd ==
  /\ Reacts("EOF", <<>>) /\ s'.gotEof = TRUE
  /\ UNCHANGED <<s.window, s.room, s.got, s.sent, s.stage, s.fate, s.early, s.kex>>
IsRepaid ==
  /\ Reacts("ADJUST", <<>>) /\ s'.window = s.window + Asked[2]
  /\ UNCHANGED <<s.room, s.got, s.gotEof, s.sent, s.stage, s.fate, s.early, s.kex>>
Exchanges ==
  /\ Alive /\ c' = c /\ typed' = typed /\ shown' = shown
  /\ Going # <<>> /\ Asked[1] = "ECDH_INIT" /\ Going' = Tail(Going)
  /\ Coming' = (Msgs(down) \o <<M("ECDH_REPLY"), M("NEWKEYS")>>) \o s.held
  /\ s'.kex = "keys" /\ UNCHANGED Serving
Switches == Reacts("NEWKEYS", <<>>) /\ s'.kex = "idle" /\ UNCHANGED Serving

Murmurs ==
  /\ \E msgs \in Seq(Messages) : Adds(msgs) /\ AllOf(msgs, Quiet)
  /\ UNCHANGED <<Serving, s.kex>>
Renews ==
  s.kex = "idle" /\ Adds(<<M("KEXINIT")>>) /\ s'.kex = "init" /\ UNCHANGED Serving
Grants ==
  /\ s.stage = "running"
  /\ \E n \in Nat : Adds(<<Msg("ADJUST", n)>>) /\ s'.room = s.room + n
  /\ UNCHANGED <<s.window, s.got, s.gotEof, s.sent, s.stage, s.fate, s.early, s.kex>>
Writes ==
  /\ s.stage = "running"
  /\ \E n \in 1..2, t \in {"DATA", "EXT_DATA"} :
        /\ Adds(<<Msg(t, [i \in 1..n |-> s.sent + i])>>)
        /\ s'.sent = s.sent + n /\ s'.window = s.window - n
  /\ UNCHANGED <<s.room, s.got, s.gotEof, s.stage, s.fate, s.early, s.kex>>
Exits ==
  /\ s.stage = "running" /\ s'.stage = "exited"
  /\ \E f \in AllFates \cup {<<>>} :
        /\ Adds(<<M("EOF")>> \o Exit(f)) /\ (s.early => f = <<>>)
        /\ s'.fate = IF s.early THEN s.fate ELSE f
  /\ UNCHANGED <<s.window, s.room, s.got, s.gotEof, s.sent, s.early, s.kex>>
Shuts ==
  /\ s.stage = "exited" /\ s'.stage = "closing" /\ Adds(<<M("CLOSE")>>)
  /\ UNCHANGED <<s.window, s.room, s.got, s.gotEof, s.sent, s.fate, s.early, s.kex>>

ClientSide == Chats \/ LogsIn \/ TakesTurn \/ EndsTurn \/ Asks \/ Confirmed \/ AsksOn \/ Runs
              \/ Notes \/ Drops \/ Widens \/ Shows \/ IsTold \/ Leaves \/ Dies
UserSide == Remarks \/ TypesMore \/ Finishes
ServerSide == Obliges \/ Responds \/ Confirms \/ Starts \/ Reads \/ ReadsEnd \/ IsRepaid
              \/ Exchanges \/ Switches
ServerMore == Murmurs \/ Renews \/ Grants \/ Writes \/ Exits \/ Shuts

-----------------------------------------------------------------------------
(* The messages of the packets on their way.                                 *)

LEMMA MsgsAre ==
  ASSUME NEW q \in Seq(Packets)
  PROVE  /\ Msgs(q) \in Seq(Messages) /\ Len(Msgs(q)) = Len(q)
         /\ \A i \in 1..Len(q) : Msgs(q)[i] = q[i].msg
<1>1. \A i \in 1..Len(q) : q[i].msg \in Messages
  <2>1. \A i \in 1..Len(q) : q[i] \in Packets
    OBVIOUS
  <2>. QED BY <2>1 DEF Packets
<1>2. Len(q) \in Nat
  OBVIOUS
<1>3. Msgs(q) \in [1..Len(q) -> Messages]
  BY <1>1 DEF Msgs
<1>4. \A i \in 1..Len(q) : Msgs(q)[i] = q[i].msg
  BY DEF Msgs
<1> DEFINE m == Msgs(q)
<1> HIDE DEF m
<1>5. m \in Seq(Messages) /\ Len(m) = Len(q)
  BY <1>2, <1>3 DEF m
<1>. QED BY <1>4, <1>5 DEF m

LEMMA MsgsTail ==
  ASSUME NEW q \in Seq(Packets), q # <<>>
  PROVE  Msgs(q) # <<>> /\ Head(Msgs(q)) = Head(q).msg /\ Msgs(Tail(q)) = Tail(Msgs(q))
<1> DEFINE m == Msgs(q)
           t == Msgs(Tail(q))
<1>1. /\ Len(q) \in Nat /\ Len(q) >= 1 /\ Head(q) = q[1] /\ Tail(q) \in Seq(Packets)
      /\ Len(Tail(q)) = Len(q) - 1
      /\ \A i \in 1 .. Len(q) - 1 : Tail(q)[i] = q[i + 1]
  BY HeadTail
<1>2. m \in Seq(Messages) /\ Len(m) = Len(q) /\ \A i \in 1..Len(q) : m[i] = q[i].msg
  BY MsgsAre
<1>3. t \in Seq(Messages) /\ Len(t) = Len(q) - 1 /\ \A i \in 1 .. Len(q) - 1 : t[i] = Tail(q)[i].msg
  BY <1>1, MsgsAre
<1> HIDE DEF m, t
<1>4. m # <<>>
  BY <1>1, <1>2
<1>5. /\ Head(m) = m[1] /\ Tail(m) \in Seq(Messages) /\ Len(Tail(m)) = Len(m) - 1
      /\ \A i \in 1 .. Len(m) - 1 : Tail(m)[i] = m[i + 1]
  BY <1>2, <1>4, HeadTail
<1>6. ASSUME NEW i \in 1..Len(t)
      PROVE  t[i] = Tail(m)[i]
  <2>1. i \in 1 .. Len(q) - 1 /\ i + 1 \in 1..Len(q) /\ i \in 1 .. Len(m) - 1
    BY <1>1, <1>2, <1>3
  <2>. QED BY <1>1, <1>2, <1>3, <1>5, <2>1
<1>7. t = Tail(m)
  BY <1>2, <1>3, <1>5, <1>6, SeqEqual
<1>8. 1 \in 1..Len(q)
  BY <1>1
<1>. QED BY <1>1, <1>2, <1>4, <1>5, <1>7, <1>8 DEF m, t

LEMMA MsgsSealed ==
  ASSUME NEW q \in Seq(Packets), NEW msgs \in Seq(Messages), NEW key \in Nat, NEW seq \in Nat
  PROVE  Msgs(q \o Seal(msgs, key, seq)) = Msgs(q) \o msgs
<1> DEFINE r == Seal(msgs, key, seq)
           x == q \o r
           m == Msgs(q)
           y == Msgs(x)
           z == m \o msgs
<1>1. r \in Seq(Packets) /\ Len(r) = Len(msgs) /\ \A i \in 1..Len(msgs) : r[i].msg = msgs[i]
  BY Sealed
<1>2. m \in Seq(Messages) /\ Len(m) = Len(q) /\ \A i \in 1..Len(q) : m[i] = q[i].msg
  BY MsgsAre
<1> HIDE DEF r, m
<1>3. /\ x \in Seq(Packets) /\ Len(q) \in Nat /\ Len(r) \in Nat
      /\ Len(x) = Len(q) + Len(r)
      /\ \A i \in 1..Len(q) : x[i] = q[i]
      /\ \A i \in Len(q) + 1 .. Len(q) + Len(r) : x[i] = r[i - Len(q)]
  <2>1. q \in Seq(Packets) /\ r \in Seq(Packets)
    BY <1>1
  <2>. QED BY ONLY <2>1, Joined
<1> HIDE DEF x
<1>4. y \in Seq(Messages) /\ Len(y) = Len(x) /\ \A i \in 1..Len(x) : y[i] = x[i].msg
  BY <1>3, MsgsAre
<1> HIDE DEF y
<1>5. /\ z \in Seq(Messages) /\ Len(z) = Len(m) + Len(msgs)
      /\ \A i \in 1..Len(m) : z[i] = m[i]
      /\ \A i \in Len(m) + 1 .. Len(m) + Len(msgs) : z[i] = msgs[i - Len(m)]
  BY <1>2, Joined, ZenonT(30)
<1> HIDE DEF z
<1>6. ASSUME NEW i \in 1..Len(y)
      PROVE  y[i] = z[i]
  <2>1. CASE i <= Len(q)
    <3>1. i \in 1..Len(q) /\ i \in 1..Len(m) /\ i \in 1..Len(x)
      BY <1>2, <1>3, <1>4, <2>1
    <3>. QED BY <1>2, <1>3, <1>4, <1>5, <3>1
  <2>2. CASE i > Len(q)
    <3>1. /\ i \in Len(q) + 1 .. Len(q) + Len(r) /\ i \in Len(m) + 1 .. Len(m) + Len(msgs)
          /\ i \in 1..Len(x) /\ i - Len(q) \in 1..Len(msgs) /\ i - Len(m) = i - Len(q)
      BY <1>1, <1>2, <1>3, <1>4, <2>2
    <3>. QED BY <1>1, <1>3, <1>4, <1>5, <3>1
  <2>. QED BY <1>3, <2>1, <2>2
<1>7. Len(y) = Len(z)
  BY <1>1, <1>2, <1>3, <1>4, <1>5
<1>8. y = z
  BY <1>4, <1>5, <1>6, <1>7, SeqEqual
<1>. QED BY <1>8 DEF x, y, z, r, m

LEMMA TailJoined ==
  ASSUME NEW S, NEW q \in Seq(S), NEW r \in Seq(S), q # <<>>
  PROVE  q \o r # <<>> /\ Head(q \o r) = Head(q) /\ Tail(q \o r) = Tail(q) \o r
<1> DEFINE x == q \o r
           y == Tail(q) \o r
<1>1. /\ Len(q) \in Nat /\ Len(q) >= 1 /\ Head(q) = q[1] /\ Tail(q) \in Seq(S)
      /\ Len(Tail(q)) = Len(q) - 1
      /\ \A i \in 1 .. Len(q) - 1 : Tail(q)[i] = q[i + 1]
  BY HeadTail
<1>2. /\ x \in Seq(S) /\ Len(r) \in Nat /\ Len(x) = Len(q) + Len(r)
      /\ \A i \in 1..Len(q) : x[i] = q[i]
      /\ \A i \in Len(q) + 1 .. Len(q) + Len(r) : x[i] = r[i - Len(q)]
  BY Joined
<1>3. /\ y \in Seq(S) /\ Len(y) = Len(Tail(q)) + Len(r)
      /\ \A i \in 1..Len(Tail(q)) : y[i] = Tail(q)[i]
      /\ \A i \in Len(Tail(q)) + 1 .. Len(Tail(q)) + Len(r) : y[i] = r[i - Len(Tail(q))]
  BY <1>1, Joined
<1> HIDE DEF x, y
<1>4. x # <<>>
  BY <1>1, <1>2
<1>5. /\ Head(x) = x[1] /\ Tail(x) \in Seq(S) /\ Len(Tail(x)) = Len(x) - 1
      /\ \A i \in 1 .. Len(x) - 1 : Tail(x)[i] = x[i + 1]
  BY <1>2, <1>4, HeadTail
<1>6. ASSUME NEW i \in 1..Len(y)
      PROVE  y[i] = Tail(x)[i]
  <2>0. i \in 1 .. Len(x) - 1 /\ Tail(x)[i] = x[i + 1]
    BY <1>1, <1>2, <1>3, <1>5
  <2>1. CASE i <= Len(q) - 1
    <3>1. i \in 1..Len(Tail(q)) /\ i \in 1 .. Len(q) - 1 /\ i + 1 \in 1..Len(q)
      BY <1>1, <2>1
    <3>. QED BY <1>1, <1>2, <1>3, <2>0, <3>1
  <2>2. CASE i > Len(q) - 1
    <3>1. /\ i \in Len(Tail(q)) + 1 .. Len(Tail(q)) + Len(r) /\ i + 1 \in Len(q) + 1 .. Len(q) + Len(r)
          /\ i - Len(Tail(q)) = (i + 1) - Len(q)
      BY <1>1, <1>2, <1>3, <2>2
    <3>. QED BY <1>2, <1>3, <2>0, <3>1
  <2>. QED BY <1>1, <1>2, <1>3, <2>1, <2>2
<1>7. Len(y) = Len(Tail(x))
  BY <1>1, <1>2, <1>3, <1>5
<1>8. y = Tail(x)
  BY <1>3, <1>5, <1>6, <1>7, SeqEqual
<1>9. Head(x) = Head(q)
  BY <1>1, <1>2, <1>5
<1>. QED BY <1>4, <1>8, <1>9 DEF x, y

LEMMA TalkTyped ==
  ASSUME Typed
  PROVE  /\ Msgs(down) \in Seq(Messages) /\ s.held \in Seq(Messages)
         /\ Going \in Seq(Messages) /\ Coming \in Seq(Messages)
<1>1. Msgs(up) \in Seq(Messages) /\ Msgs(down) \in Seq(Messages) /\ s.held \in Seq(Messages)
  BY MsgsAre DEF Typed, ServerState
<1>. QED BY <1>1 DEF Going, Coming

-----------------------------------------------------------------------------
(* Every step of the client, the user and the server is one of those above.  *)

KexWaits == {"kexinit", "ecdh_reply", "newkeys"}
\* The client's state `d' but for what a key exchange or a login changes.
Like(d) ==
  /\ d \in ClientState /\ d.window = c.window /\ d.outq = c.outq /\ d.eofPending = c.eofPending
  /\ d.clientEof = c.clientEof /\ d.pending = c.pending
PhaseOf(d) == IF d.wait \in KexWaits THEN d.back ELSE d.wait

LEMMA Hearing ==
  ASSUME Typed, Arrived, down' = Tail(down)
  PROVE  /\ Coming # <<>> /\ Heard = Head(down).msg /\ Heard \in Messages
         /\ Heard[1] = Packet /\ Heard[2] = Value
         /\ s'.held = s.held => Coming' = Tail(Coming)
<1>1. down # <<>> /\ down \in Seq(Packets) /\ s.held \in Seq(Messages)
  BY DEF Arrived, Typed, ServerState
<1>2. /\ Msgs(down) # <<>> /\ Head(Msgs(down)) = Head(down).msg
      /\ Msgs(Tail(down)) = Tail(Msgs(down)) /\ Msgs(down) \in Seq(Messages)
  BY <1>1, MsgsTail, MsgsAre
<1>3. /\ Msgs(down) \o s.held # <<>> /\ Head(Msgs(down) \o s.held) = Head(Msgs(down))
      /\ Tail(Msgs(down) \o s.held) = Tail(Msgs(down)) \o s.held
  BY <1>1, <1>2, TailJoined
<1>4. Head(down).msg \in Messages
  BY TakesTyped
<1>5. s'.held = s.held => Coming' = Msgs(Tail(down)) \o s.held
  BY DEF Coming
<1>. QED BY <1>2, <1>3, <1>4, <1>5 DEF Coming, Heard, Packet, Value

LEMMA Saying ==
  ASSUME Typed, NEW c2 \in ClientState, NEW msgs \in Seq(Messages), Sends(c2, msgs)
  PROVE  /\ Going' = Going \o msgs
         /\ c'.wait = c2.wait /\ c'.back = c2.back /\ c'.window = c2.window /\ c'.outq = c2.outq
         /\ c'.eofPending = c2.eofPending /\ c'.clientEof = c2.clientEof
         /\ c'.pending = c2.pending /\ c'.exit = c2.exit /\ Phase' = PhaseOf(c2)
<1>1. c.sendKey \in Nat /\ c.sendSeq \in Nat /\ up \in Seq(Packets)
  BY NumberIs DEF Typed, ClientState
<1>2. Going' = Going \o msgs
  BY <1>1, MsgsSealed DEF Going, Sends
<1>3. c' = [c2 EXCEPT !.sendSeq = (@ + Len(msgs)) % SeqWrap]
  BY DEF Sends
<1>4. /\ c'.wait = c2.wait /\ c'.back = c2.back /\ c'.window = c2.window /\ c'.outq = c2.outq
      /\ c'.eofPending = c2.eofPending /\ c'.clientEof = c2.clientEof
      /\ c'.pending = c2.pending /\ c'.exit = c2.exit
  BY <1>3 DEF ClientState
<1>. QED BY <1>2, <1>4 DEF Phase, PhaseOf, InKex, KexWaits

LEMMA Dying ==
  ASSUME Typed, Alive, NEW c2, Like(c2), Die(c2), down' = down \/ (Arrived /\ down' = Tail(down))
  PROVE  Dies
<1>1. /\ c'.wait = "died" /\ s' = s /\ up' = up
      /\ c'.window = c.window /\ c'.outq = c.outq /\ c'.eofPending = c.eofPending
      /\ c'.clientEof = c.clientEof /\ c'.pending = c.pending
      /\ typed' = typed /\ shown' = shown
  BY DEF Die, Like, ClientState
<1>2. Going' = Going
  BY <1>1 DEF Going
<1>3. \/ Coming' = Coming
      \/ Coming # <<>> /\ Coming' = Tail(Coming)
  BY <1>1, Hearing DEF Coming
<1>. QED BY <1>1, <1>2, <1>3 DEF Dies, Sending, Showing

LEMMA QuietMsgs ==
  /\ \A t \in Quiet : <<M(t)>> \in Seq(Messages) /\ AllOf(<<M(t)>>, Quiet)
  /\ <<>> \in Seq(Messages) /\ AllOf(<<>>, Quiet)
  /\ \A m \in Messages : <<m>> \in Seq(Messages)
  /\ \A t \in Plain : M(t) \in Messages
<1>1. \A t \in Quiet : t \in Plain
  BY DEF Quiet
<1>2. \A t \in Quiet : <<M(t)>> \in Seq(Messages)
  BY <1>1, Plainly, One
<1>3. ASSUME NEW t \in Quiet PROVE AllOf(<<M(t)>>, Quiet)
  <2>1. Len(<<M(t)>>) = 1 /\ <<M(t)>>[1] = M(t) /\ M(t)[1] = t
    BY DEF M, Msg
  <2>. QED BY <2>1 DEF AllOf
<1>4. AllOf(<<>>, Quiet)
  BY DEF AllOf
<1>. QED BY <1>2, <1>3, <1>4, Plainly, One

\* The client goes on with `c2', which differs from what it was in nothing
\* that counts here, but for where it is.
LEMMA GoesOn ==
  ASSUME Typed, Arrived, down' = Tail(down), NEW c2, Like(c2), c2.exit = c.exit,
         NEW msgs \in Seq(Messages), Sent(c2, msgs)
  PROVE  /\ Hears(msgs) /\ UNCHANGED <<Sending, Showing, c.exit>>
         /\ Phase' = PhaseOf(c2) /\ Heard[1] = Packet /\ Heard[2] = Value
<1>1. /\ Sends(c2, msgs) /\ s' = s /\ typed' = typed /\ shown' = shown /\ c2 \in ClientState /\ Alive
  BY DEF Sent, Like, Arrived
<1>2. /\ Going' = Going \o msgs
      /\ c'.window = c2.window /\ c'.outq = c2.outq
      /\ c'.eofPending = c2.eofPending /\ c'.clientEof = c2.clientEof
      /\ c'.pending = c2.pending /\ c'.exit = c2.exit /\ Phase' = PhaseOf(c2)
  BY <1>1, Saying
<1>3. /\ Coming # <<>> /\ Heard[1] = Packet /\ Heard[2] = Value /\ Coming' = Tail(Coming)
  BY <1>1, Hearing
<1>. QED BY <1>1, <1>2, <1>3 DEF Hears, Sending, Showing, Like

LEMMA HandshakeForms ==
  ASSUME Typed, Handshake
  PROVE  ClientSide
<1>0. Arrived /\ down' = Tail(down) /\ Alive
  BY DEF Handshake, KexInit, Rekey, EcdhReply, NewKeys, Service, Banner, Probed, Authenticated,
     Refused, Opened, PtyAnswered, Started, NotStarted, Takes, Arrived
<1>1. Got \in ClientState /\ c \in ClientState
  BY <1>0, TakesTyped DEF Typed
<1>2. /\ Got.wait = c.wait /\ Got.back = c.back /\ Like(Got) /\ Got.exit = c.exit
      /\ Got.sendSeq = c.sendSeq /\ Got.sendKey = c.sendKey
  BY <1>1 DEF Got, ClientState, Like
<1>3. ASSUME NEW w \in Waits
      PROVE  /\ Like([Got EXCEPT !.wait = w]) /\ [Got EXCEPT !.wait = w].exit = c.exit
             /\ PhaseOf([Got EXCEPT !.wait = w]) = IF w \in KexWaits THEN c.back ELSE w
  BY <1>1, <1>2, ZenonT(30) DEF Like, ClientState, PhaseOf
<1>4. Phase = PhaseOf(c) /\ PhaseOf(Got) = PhaseOf(c)
  BY <1>2 DEF Phase, PhaseOf, InKex, KexWaits
<1>5. c.back \in Waits
  BY <1>1, ZenonT(30) DEF ClientState
<1>6. ASSUME NEW msgs \in Seq(Messages), NEW w \in Waits, Sent([Got EXCEPT !.wait = w], msgs)
      PROVE  /\ Hears(msgs) /\ UNCHANGED <<Sending, Showing, c.exit>>
             /\ Phase' = (IF w \in KexWaits THEN c.back ELSE w)
             /\ Heard[1] = Packet /\ Heard[2] = Value
  <2> DEFINE c2 == [Got EXCEPT !.wait = w]
  <2>1. Like(c2) /\ c2.exit = c.exit /\ PhaseOf(c2) = (IF w \in KexWaits THEN c.back ELSE w)
        /\ Sent(c2, msgs)
    BY <1>3, <1>6
  <2> HIDE DEF c2
  <2>. QED BY <1>0, <1>6, <2>1, GoesOn
<1>7. \A t \in {"SERVICE_REQUEST", "PROBE", "AUTH"} : t \in Quiet
  BY DEF Quiet, Plain, Turns, ServerTurns, Questions, Answers
<1>8. \A t \in {"SERVICE_ACCEPT", "BANNER", "PK_OK", "AUTH_SUCCESS"} : t \in Quiet
  BY DEF Quiet, Plain, Turns, ServerTurns, Questions, Answers
<1>9. \A t \in {"OPEN", "PTY_REQ", "EXEC", "KEXINIT", "ECDH_INIT", "NEWKEYS"} :
         <<M(t)>> \in Seq(Messages)
  BY Plainly, One DEF Plain
<1>10. CASE KexInit
  <2> DEFINE v == Value = 1
             c2 == [Got EXCEPT !.strict = v, !.wait = "ecdh_reply"]
  <2>1. CASE Die(Got)
    BY <1>0, <1>2, <2>1, Dying DEF ClientSide
  <2>2. CASE Sent(c2, <<M("ECDH_INIT")>>)
    <3>1. v \in BOOLEAN
      OBVIOUS
    <3> HIDE DEF v
    <3>2. c2 \in ClientState
      BY <1>1, <3>1, ZenonT(30) DEF ClientState, Waits
    <3>3. Like(c2) /\ c2.exit = c.exit /\ PhaseOf(c2) = c.back
      BY <1>1, <1>2, <3>2, ZenonT(30) DEF Like, ClientState, PhaseOf, KexWaits
    <3> HIDE DEF c2
    <3>4. /\ Hears(<<M("ECDH_INIT")>>) /\ UNCHANGED <<Sending, Showing, c.exit>>
          /\ Phase' = c.back /\ Heard[1] = Packet
      BY <1>0, <1>9, <2>2, <3>3, GoesOn
    <3>5. Phase = c.back /\ Packet = "KEXINIT"
      BY <1>10 DEF KexInit, Takes, Phase, InKex
    <3>. QED BY <3>4, <3>5 DEF TakesTurn, Stays, ClientSide
  <2>. QED BY <1>10, <2>1, <2>2 DEF KexInit
<1>11. CASE Rekey
  <2> DEFINE c2 == [Got EXCEPT !.wait = "ecdh_reply", !.back = c.wait]
             msgs == <<M("KEXINIT"), M("ECDH_INIT")>>
  <2>1. c2 \in ClientState
    BY <1>1, ZenonT(30) DEF ClientState, Waits
  <2>2. Like(c2) /\ c2.exit = c.exit /\ PhaseOf(c2) = c.wait
    BY <1>1, <1>2, <2>1, ZenonT(30) DEF Like, ClientState, PhaseOf, KexWaits
  <2>3. msgs \in Seq(Messages)
    BY Plainly, One DEF Plain
  <2> HIDE DEF c2, msgs
  <2>4. Sent(c2, msgs)
    BY <1>11 DEF Rekey, c2, msgs
  <2>5. /\ Hears(msgs) /\ UNCHANGED <<Sending, Showing, c.exit>> /\ Phase' = c.wait /\ Heard[1] = Packet
    BY <1>0, <2>2, <2>3, <2>4, GoesOn
  <2>6. Phase = c.wait /\ Packet = "KEXINIT"
    BY <1>11 DEF Rekey, Takes, Phase
  <2>. QED BY <2>5, <2>6 DEF TakesTurn, Stays, ClientSide, msgs
<1>12. CASE EcdhReply
  <2>1. CASE c.sendKey = 0 /\ Die(Got)
    BY <1>0, <1>2, <2>1, Dying DEF ClientSide
  <2>2. CASE ~(c.sendKey = 0 /\ Die(Got))
    <3> DEFINE n == IF c.strict THEN 0 ELSE (Got.sendSeq + 1) % SeqWrap
               msgs == <<M("NEWKEYS")>>
    <3>1. /\ up' = up \o Seal(msgs, c.sendKey, c.sendSeq)
          /\ c' = [Got EXCEPT !.wait = "newkeys", !.sendKey = @ + 1, !.sendSeq = n]
          /\ s' = s /\ typed' = typed /\ shown' = shown
      BY <1>12, <2>2 DEF EcdhReply
    <3> HIDE DEF n
    <3>2. /\ c'.wait = "newkeys" /\ c'.back = c.back /\ c'.window = c.window /\ c'.outq = c.outq
          /\ c'.eofPending = c.eofPending /\ c'.clientEof = c.clientEof
          /\ c'.pending = c.pending /\ c'.exit = c.exit
      BY <1>1, <1>2, <3>1 DEF ClientState, Like
    <3>3. Phase = c.back /\ Phase' = c.back /\ Packet = "ECDH_REPLY"
      BY <1>12, <3>2 DEF EcdhReply, Takes, Phase, InKex
    <3>4. msgs \in Seq(Messages)
      BY <1>9
    <3>5. c.sendKey \in Nat /\ c.sendSeq \in Nat /\ up \in Seq(Packets)
      BY NumberIs DEF Typed, ClientState
    <3> HIDE DEF msgs
    <3>6. Going' = Going \o msgs
      BY <3>1, <3>4, <3>5, MsgsSealed DEF Going
    <3>7. Coming # <<>> /\ Heard[1] = Packet /\ Coming' = Tail(Coming)
      BY <1>0, <3>1, Hearing
    <3>8. Hears(msgs)
      BY <1>0, <3>1, <3>4, <3>6, <3>7 DEF Hears
    <3>9. UNCHANGED <<Phase, Sending, Showing, c.exit>>
      BY <3>1, <3>2, <3>3 DEF Sending, Showing
    <3>. QED BY <3>3, <3>7, <3>8, <3>9 DEF EndsTurn, Stays, ClientSide, msgs
  <2>. QED BY <2>1, <2>2
<1>13. CASE NewKeys
  <2> DEFINE n == IF c.strict THEN 0 ELSE Got.recvSeq
             c2 == [Got EXCEPT !.wait = c.back, !.recvKey = @ + 1, !.recvSeq = n]
             msgs == IF c.recvKey = 0 THEN <<M("SERVICE_REQUEST")>> ELSE <<>>
  <2>1. Sent(c2, msgs)
    BY <1>13 DEF NewKeys, Sent
  <2>2. msgs \in Seq(Messages) /\ AllOf(msgs, Quiet)
    BY <1>7, QuietMsgs
  <2>3. n \in Numbers /\ Got.recvKey + 1 \in Nat
    <3>1. Got.recvSeq \in Numbers /\ Got.recvKey \in Nat
      BY <1>1 DEF ClientState
    <3>. QED BY <3>1, NumberIs
  <2> HIDE DEF n, msgs
  <2>4. c2 \in ClientState
    BY <1>1, <1>5, <2>3, ZenonT(30) DEF ClientState
  <2>5. Like(c2) /\ c2.exit = c.exit /\ PhaseOf(c2) = c.back
    <3>1. c2.wait = c.back /\ c2.back = c.back
      BY <1>1, <1>2 DEF ClientState
    <3>2. Like(c2) /\ c2.exit = c.exit
      BY <1>1, <1>2, <2>4, ZenonT(30) DEF Like, ClientState
    <3> HIDE DEF c2
    <3>. QED BY <3>1, <3>2 DEF PhaseOf
  <2> HIDE DEF c2
  <2>6. /\ Hears(msgs) /\ UNCHANGED <<Sending, Showing, c.exit>> /\ Phase' = c.back /\ Heard[1] = Packet
    BY <1>0, <2>1, <2>2, <2>5, GoesOn
  <2>7. Phase = c.back /\ Packet = "NEWKEYS"
    BY <1>13 DEF NewKeys, Takes, Phase, InKex
  <2>. QED BY <2>2, <2>6, <2>7 DEF Chats, Stays, ClientSide
<1>14. CASE Service
  <2>1. Sent([Got EXCEPT !.wait = "probe"], <<M("PROBE")>>) /\ c.wait = "service" /\ Packet = "SERVICE_ACCEPT"
    BY <1>14 DEF Service, Takes
  <2>2. <<M("PROBE")>> \in Seq(Messages) /\ AllOf(<<M("PROBE")>>, Quiet)
    BY <1>7, QuietMsgs
  <2>3. /\ Hears(<<M("PROBE")>>) /\ UNCHANGED <<Sending, Showing, c.exit>>
        /\ Phase' = "probe" /\ Heard[1] = Packet
    BY <1>6, <2>1, <2>2 DEF Waits, KexWaits
  <2>4. Phase \in Quietly /\ Phase' \in Quietly
    BY <1>4, <2>1, <2>3 DEF PhaseOf, KexWaits, Quietly
  <2>5. Packet \in Quiet
    BY <1>8, <2>1
  <2>. QED BY <2>2, <2>3, <2>4, <2>5 DEF LogsIn, ClientSide
<1>15. CASE Banner
  <2>1. Sent(Got, <<>>) /\ Packet = "BANNER"
    BY <1>15 DEF Banner, Takes
  <2>2. /\ Hears(<<>>) /\ UNCHANGED <<Sending, Showing, c.exit>>
        /\ Phase' = PhaseOf(Got) /\ Heard[1] = Packet
    BY <1>0, <1>2, <2>1, QuietMsgs, GoesOn
  <2>. QED BY <1>4, <1>8, <2>1, <2>2, QuietMsgs DEF Chats, Stays, ClientSide
<1>16. CASE Probed
  <2>1. Sent([Got EXCEPT !.wait = "auth"], <<M("AUTH")>>) /\ c.wait = "probe" /\ Packet = "PK_OK"
    BY <1>16 DEF Probed, Takes
  <2>2. <<M("AUTH")>> \in Seq(Messages) /\ AllOf(<<M("AUTH")>>, Quiet)
    BY <1>7, QuietMsgs
  <2>3. /\ Hears(<<M("AUTH")>>) /\ UNCHANGED <<Sending, Showing, c.exit>>
        /\ Phase' = "auth" /\ Heard[1] = Packet
    BY <1>6, <2>1, <2>2 DEF Waits, KexWaits
  <2>4. Phase \in Quietly /\ Phase' \in Quietly
    BY <1>4, <2>1, <2>3 DEF PhaseOf, KexWaits, Quietly
  <2>5. Packet \in Quiet
    BY <1>8, <2>1
  <2>. QED BY <2>2, <2>3, <2>4, <2>5 DEF LogsIn, ClientSide
<1>17. CASE Authenticated
  <2>1. /\ Sent([Got EXCEPT !.wait = "open"], <<M("OPEN")>>) /\ c.wait \in {"probe", "auth"}
        /\ Packet = "AUTH_SUCCESS"
    BY <1>17 DEF Authenticated, Takes
  <2>2. /\ Hears(<<M("OPEN")>>) /\ UNCHANGED <<Sending, Showing, c.exit>>
        /\ Phase' = "open" /\ Heard[1] = Packet
    BY <1>6, <1>9, <2>1 DEF Waits, KexWaits
  <2>3. Phase \in Quietly
    BY <1>4, <2>1 DEF PhaseOf, KexWaits, Quietly
  <2>. QED BY <1>8, <2>1, <2>2, <2>3 DEF Asks, ClientSide
<1>18. CASE Refused \/ NotStarted
  BY <1>0, <1>2, <1>18, Dying DEF Refused, NotStarted, ClientSide
<1>19. CASE Opened
  <2> DEFINE d == [Got EXCEPT !.window = Value[1], !.maxpkt = Value[2]]
  <2>1. c.wait = "open" /\ Packet = "CONFIRM"
    BY <1>19 DEF Opened, Takes
  <2>2. Value[1] \in Nat /\ Value[2] \in Nat \ {0}
    BY <1>0, <2>1, TakesTyped, Carries DEF Packet, Value
  <2>3. d \in ClientState
    BY <1>1, <2>2 DEF ClientState
  <2>4. /\ d.window = Value[1] /\ d.outq = c.outq /\ d.eofPending = c.eofPending
        /\ d.clientEof = c.clientEof /\ d.pending = c.pending /\ d.exit = c.exit
    BY <1>1, <1>2 DEF ClientState, Like
  <2>5. ASSUME NEW w \in {"pty", "exec"}, NEW t \in {"PTY_REQ", "EXEC"},
               Sent([d EXCEPT !.wait = w], <<M(t)>>)
        PROVE  /\ Hears(<<M(t)>>) /\ Phase' = w /\ c'.window = Value[1]
               /\ UNCHANGED <<c.outq, c.eofPending, c.clientEof, typed, Showing, c.exit>>
    <3> DEFINE c2 == [d EXCEPT !.wait = w]
               msgs == <<M(t)>>
    <3> HIDE DEF d
    <3>1. c2 \in ClientState
      BY <2>3, ZenonT(30) DEF ClientState, Waits
    <3>2. /\ c2.window = Value[1] /\ c2.outq = c.outq /\ c2.eofPending = c.eofPending
          /\ c2.clientEof = c.clientEof /\ c2.pending = c.pending /\ c2.exit = c.exit /\ c2.wait = w
      BY <2>3, <2>4 DEF ClientState
    <3>3. msgs \in Seq(Messages) /\ Sent(c2, msgs)
      BY <1>9, <2>5
    <3> HIDE DEF c2, msgs
    <3>4. /\ Sends(c2, msgs) /\ s' = s /\ typed' = typed /\ shown' = shown
      BY <3>3 DEF Sent
    <3>5. /\ Going' = Going \o msgs /\ c'.window = c2.window /\ c'.outq = c2.outq
          /\ c'.eofPending = c2.eofPending /\ c'.clientEof = c2.clientEof
          /\ c'.pending = c2.pending /\ c'.exit = c2.exit /\ Phase' = PhaseOf(c2)
      BY <3>1, <3>3, <3>4, Saying
    <3>6. Coming # <<>> /\ Coming' = Tail(Coming)
      BY <1>0, <3>4, Hearing
    <3>7. Hears(msgs)
      BY <1>0, <3>3, <3>4, <3>5, <3>6 DEF Hears
    <3>8. Phase' = w
      BY <3>2, <3>5 DEF PhaseOf, KexWaits
    <3>. QED BY <3>2, <3>4, <3>5, <3>7, <3>8 DEF Showing, msgs
  <2>6. \/ Sent([d EXCEPT !.wait = "pty"], <<M("PTY_REQ")>>)
        \/ Sent([d EXCEPT !.wait = "exec"], <<M("EXEC")>>)
    BY <1>19 DEF Opened
  <2>7. Heard[1] = Packet /\ Heard[2] = Value
    BY <1>0, Hearing
  <2>8. Phase = "open"
    BY <2>1 DEF Phase, InKex
  <2> HIDE DEF d
  <2>. QED BY <2>1, <2>5, <2>6, <2>7, <2>8 DEF Confirmed, ClientSide
<1>20. CASE PtyAnswered
  <2>1. /\ Sent([Got EXCEPT !.wait = "exec"], <<M("EXEC")>>) /\ c.wait = "pty"
        /\ Packet \in {"SUCCESS", "FAILURE"}
    BY <1>20 DEF PtyAnswered, Takes
  <2>2. /\ Hears(<<M("EXEC")>>) /\ UNCHANGED <<Sending, Showing, c.exit>>
        /\ Phase' = "exec" /\ Heard[1] = Packet
    BY <1>6, <1>9, <2>1 DEF Waits, KexWaits
  <2>3. Phase = "pty"
    BY <2>1 DEF Phase, InKex
  <2>. QED BY <2>1, <2>2, <2>3 DEF AsksOn, ClientSide
<1>21. CASE Started
  <2>1. Sent([Got EXCEPT !.wait = "run"], <<>>) /\ c.wait = "exec" /\ Packet = "SUCCESS"
    BY <1>21 DEF Started, Takes
  <2>2. /\ Hears(<<>>) /\ UNCHANGED <<Sending, Showing, c.exit>>
        /\ Phase' = "run" /\ Heard[1] = Packet
    BY <1>6, <2>1, QuietMsgs DEF Waits, KexWaits
  <2>3. Phase = "exec"
    BY <2>1 DEF Phase, InKex
  <2>. QED BY <2>1, <2>2, <2>3 DEF Runs, ClientSide
<1>. QED
  BY <1>10, <1>11, <1>12, <1>13, <1>14, <1>15, <1>16, <1>17, <1>18, <1>19, <1>20, <1>21
  DEF Handshake

LEMMA PumpForms ==
  ASSUME Typed, Pump
  PROVE  ClientSide
<1>0. Arrived /\ down' = Tail(down) /\ Alive
  BY DEF Pump, Skipped, GlobalRequest, EarlyAdjust, Dropped, Adjusted, Output, Exited, ServerEof,
     Closed, Answered, Takes, Arrived
<1>1. Got \in ClientState /\ c \in ClientState /\ Head(down).msg \in Messages
  BY <1>0, TakesTyped DEF Typed
<1>2. /\ Got.wait = c.wait /\ Got.back = c.back /\ Like(Got) /\ Got.exit = c.exit
      /\ Got.window = c.window /\ Got.outq = c.outq /\ Got.eofPending = c.eofPending
      /\ Got.clientEof = c.clientEof /\ Got.pending = c.pending
  BY <1>1 DEF Got, ClientState, Like
<1>3. PhaseOf(Got) = Phase
  BY <1>2 DEF Phase, PhaseOf, InKex, KexWaits
<1>4. Coming # <<>> /\ Heard[1] = Packet /\ Heard[2] = Value /\ (s' = s => Coming' = Tail(Coming))
  BY <1>0, Hearing
<1>5. ASSUME NEW msgs \in Seq(Messages), Sent(Got, msgs)
      PROVE  Hears(msgs) /\ Stays
  BY <1>0, <1>2, <1>3, <1>5, GoesOn DEF Stays
<1>6. ASSUME NEW msgs \in Seq(Messages), AllOf(msgs, Quiet), Sent(Got, msgs),
             Packet \in Quiet \cup {"EOF"}
      PROVE  ClientSide
  BY <1>4, <1>5, <1>6 DEF Chats, ClientSide
<1>7. {"IGNORE", "GLOBAL_REQUEST", "REQUEST_FAILURE"} \subseteq Quiet
  BY DEF Quiet, Plain, Turns, ServerTurns, Questions, Answers
<1>8. CASE Skipped
  <2>1. Packet = "IGNORE" /\ (Die(Got) \/ Sent(Got, <<>>))
    BY <1>8 DEF Skipped, Takes
  <2>2. Die(Got) => Dies
    BY <1>0, <1>2, Dying
  <2>. QED BY <1>6, <1>7, <2>1, <2>2, QuietMsgs DEF ClientSide
<1>9. CASE GlobalRequest
  <2> DEFINE msgs == IF Value = 1 THEN <<M("REQUEST_FAILURE")>> ELSE <<>>
  <2>1. Packet = "GLOBAL_REQUEST" /\ (Die(Got) \/ Sent(Got, msgs))
    BY <1>9 DEF GlobalRequest, Takes
  <2>2. msgs \in Seq(Messages) /\ AllOf(msgs, Quiet)
    BY <1>7, QuietMsgs
  <2>3. Die(Got) => Dies
    BY <1>0, <1>2, Dying
  <2> HIDE DEF msgs
  <2>. QED BY <1>6, <1>7, <2>1, <2>2, <2>3 DEF ClientSide
\* The client goes on with `c2', where it was.
<1>10. ASSUME NEW c2 \in ClientState, NEW msgs \in Seq(Messages), Sends(c2, msgs), s' = s,
              c2.wait = c.wait, c2.back = c.back
       PROVE  /\ Hears(msgs) /\ Phase' = Phase
              /\ c'.window = c2.window /\ c'.outq = c2.outq /\ c'.eofPending = c2.eofPending
              /\ c'.clientEof = c2.clientEof /\ c'.pending = c2.pending /\ c'.exit = c2.exit
  <2>1. /\ Going' = Going \o msgs /\ Phase' = PhaseOf(c2)
        /\ c'.window = c2.window /\ c'.outq = c2.outq /\ c'.eofPending = c2.eofPending
        /\ c'.clientEof = c2.clientEof /\ c'.pending = c2.pending /\ c'.exit = c2.exit
    BY <1>10, Saying
  <2>2. Hears(msgs)
    BY <1>0, <1>4, <1>10, <2>1 DEF Hears
  <2>3. PhaseOf(c2) = Phase
    BY <1>2, <1>3, <1>10 DEF PhaseOf
  <2>. QED BY <2>1, <2>2, <2>3
<1>11. CASE EarlyAdjust
  <2> DEFINE w == AddWindow(Value)
             c2 == [Got EXCEPT !.window = w]
  <2>1. c.wait \in {"pty", "exec"} /\ Packet = "ADJUST" /\ Sent(c2, <<>>)
    BY <1>11 DEF EarlyAdjust, Takes
  <2>2. w \in Nat
    BY <1>1, <2>1, Carries, AddWindowIs DEF Packet, Value
  <2> HIDE DEF w
  <2>3. c2 \in ClientState
    BY <1>1, <2>2, ZenonT(30) DEF ClientState
  <2>4. /\ c2.window = w /\ c2.outq = c.outq /\ c2.eofPending = c.eofPending
        /\ c2.clientEof = c.clientEof /\ c2.pending = c.pending /\ c2.exit = c.exit
        /\ c2.wait = c.wait /\ c2.back = c.back
    BY <1>1, <1>2 DEF ClientState
  <2> HIDE DEF c2
  <2>5. Sends(c2, <<>>) /\ s' = s /\ typed' = typed /\ shown' = shown
    BY <2>1 DEF Sent
  <2>6. /\ Hears(<<>>) /\ Phase' = Phase
        /\ c'.window = c2.window /\ c'.outq = c2.outq /\ c'.eofPending = c2.eofPending
        /\ c'.clientEof = c2.clientEof /\ c'.pending = c2.pending /\ c'.exit = c2.exit
    BY <1>10, <2>3, <2>4, <2>5, QuietMsgs
  <2>7. Phase \in {"pty", "exec"}
    BY <2>1 DEF Phase, InKex
  <2>. QED BY <1>4, <2>1, <2>4, <2>5, <2>6, <2>7 DEF Notes, ClientSide, Showing, w
<1>12. CASE Dropped
  <2>1. /\ Packet \in {"DATA", "EXT_DATA", "EXIT", "EOF", "CLOSE"} /\ c.wait \in {"pty", "exec"}
        /\ Sent(Got, <<>>)
    BY <1>12 DEF Dropped
  <2>2. Phase \in {"pty", "exec"}
    BY <2>1 DEF Phase, InKex
  <2>. QED BY <1>4, <1>5, <2>1, <2>2, QuietMsgs DEF Drops, ClientSide
<1>13. CASE Adjusted
  <2> DEFINE w == AddWindow(Value)
             ends == c.eofPending /\ Rest(c.outq, w) = <<>>
             msgs == Chunks(c.outq, w) \o (IF ends THEN <<M("EOF")>> ELSE <<>>)
             x == w - Fits(c.outq, w)
             y == Rest(c.outq, w)
             v == Got.eofPending /\ ~ends
             c2 == [Got EXCEPT !.window = x, !.outq = y, !.eofPending = v]
  <2>0. c.wait = "run" /\ Packet = "ADJUST"
    BY <1>13 DEF Adjusted, Takes
  <2>1. w \in Nat /\ c.outq \in Seq(Nat) /\ c.maxpkt \in Nat \ {0}
    BY <1>1, <2>0, Carries, AddWindowIs DEF Packet, Value, ClientState
  <2>2. y \in Seq(Nat) /\ x \in Nat
    BY <2>1, FitsIs
  <2>3. v \in BOOLEAN /\ v = (c.eofPending /\ ~ends)
    BY <1>1, <1>2 DEF ClientState
  <2>4. msgs \in Seq(Messages)
    <3>1. Chunks(c.outq, w) \in Seq(Messages)
      BY <2>1, ChunksAre
    <3>2. <<M("EOF")>> \in Seq(Messages) /\ <<>> \in Seq(Messages)
      BY Plainly, One DEF Plain
    <3>. QED BY <3>1, <3>2
  <2>5. Sent(c2, msgs)
    BY <1>2, <1>13 DEF Adjusted
  <2> HIDE DEF x, y, v
  <2>60. \A n \in Nat, q \in Seq(Nat), e \in BOOLEAN :
           [Got EXCEPT !.window = n, !.outq = q, !.eofPending = e] \in ClientState
    BY <1>1, ZenonT(30) DEF ClientState
  <2>6. c2 \in ClientState
    BY <2>2, <2>3, <2>60
  <2>7. /\ c2.window = x /\ c2.outq = y /\ c2.eofPending = v
        /\ c2.clientEof = c.clientEof /\ c2.pending = c.pending /\ c2.exit = c.exit
        /\ c2.wait = c.wait /\ c2.back = c.back
    BY <1>1, <1>2 DEF ClientState
  <2> HIDE DEF c2, msgs
  <2>8. Sends(c2, msgs) /\ s' = s /\ typed' = typed /\ shown' = shown
    BY <2>5 DEF Sent
  <2>9. /\ Hears(msgs) /\ Phase' = Phase
        /\ c'.window = c2.window /\ c'.outq = c2.outq /\ c'.eofPending = c2.eofPending
        /\ c'.clientEof = c2.clientEof /\ c'.pending = c2.pending /\ c'.exit = c2.exit
    BY <1>10, <2>4, <2>6, <2>7, <2>8
  <2>10. Phase = "run"
    BY <2>0 DEF Phase, InKex
  <2>11. /\ c'.window = w - Fits(c.outq, w) /\ c'.outq = Rest(c.outq, w)
         /\ c'.eofPending = (c.eofPending /\ ~ends)
    BY <2>3, <2>7, <2>9 DEF x, y
  <2>12. Heard[1] = "ADJUST" /\ AddWindow(Heard[2]) = w
    BY <1>4, <2>0
  <2>13. UNCHANGED <<Phase, c.clientEof, typed, Showing, c.exit>>
    BY <2>7, <2>8, <2>9 DEF Showing
  <2>14. Widens
    <3> HIDE DEF w
    <3>. QED BY <2>9, <2>10, <2>11, <2>12, <2>13 DEF Widens, msgs
  <2>. QED BY <2>14 DEF ClientSide
<1>14. CASE Output
  <2> DEFINE owed == Got.pending + Len(Value)
  <2>1. /\ Packet \in {"DATA", "EXT_DATA"} /\ c.wait = "run" /\ s' = s /\ typed' = typed
        /\ shown' = shown \o Value
        /\ \/ Sends([Got EXCEPT !.pending = owed], <<>>)
           \/ Sends([Got EXCEPT !.pending = 0], <<Msg("ADJUST", owed)>>)
    BY <1>14 DEF Output, Consumed, Takes
  <2>2. Value \in Seq(Nat) /\ Len(Value) \in Nat
    BY <1>1, <2>1, Carries DEF Packet, Value
  <2>3. owed \in Nat /\ owed = c.pending + Len(Heard[2])
    BY <1>1, <1>2, <1>4, <2>2 DEF ClientState
  <2>4. <<Msg("ADJUST", owed)>> \in Seq(Messages)
    BY <2>3, Plainly, One
  <2> DEFINE d(n) == [Got EXCEPT !.pending = n]
  <2>5. ASSUME NEW n \in Nat
        PROVE  /\ d(n) \in ClientState /\ d(n).pending = n
               /\ d(n).window = c.window /\ d(n).outq = c.outq /\ d(n).eofPending = c.eofPending
               /\ d(n).clientEof = c.clientEof /\ d(n).exit = c.exit
               /\ d(n).wait = c.wait /\ d(n).back = c.back
    <3>1. d(n) \in ClientState
      BY <1>1 DEF ClientState
    <3>. QED BY <1>1, <1>2, <3>1 DEF ClientState
  <2>6. Phase = "run"
    BY <2>1 DEF Phase, InKex
  <2> HIDE DEF owed, d
  <2>7. ASSUME NEW n \in Nat, NEW msgs \in Seq(Messages), Sends(d(n), msgs)
        PROVE  Hears(msgs) /\ c'.pending = n /\ UNCHANGED <<Phase, Sending, c.exit>>
    <3>1. /\ Hears(msgs) /\ Phase' = Phase
          /\ c'.window = d(n).window /\ c'.outq = d(n).outq /\ c'.eofPending = d(n).eofPending
          /\ c'.clientEof = d(n).clientEof /\ c'.pending = d(n).pending /\ c'.exit = d(n).exit
      BY <1>10, <2>1, <2>5, <2>7
    <3>. QED BY <2>1, <2>5, <3>1 DEF Sending
  <2>8. \/ Sends(d(owed), <<>>)
        \/ Sends(d(0), <<Msg("ADJUST", owed)>>)
    BY <2>1 DEF d
  <2>9. /\ UNCHANGED <<Phase, Sending, c.exit>>
        /\ \/ Hears(<<>>) /\ c'.pending = owed
           \/ Hears(<<Msg("ADJUST", owed)>>) /\ c'.pending = 0
    BY <2>3, <2>4, <2>7, <2>8, QuietMsgs
  <2>10. Shows
    BY <1>4, <2>1, <2>3, <2>6, <2>9 DEF Shows
  <2>. QED BY <2>10 DEF ClientSide
<1>15. CASE Exited
  <2> DEFINE x == Status(Value)
             c2 == [Got EXCEPT !.exit = x]
  <2>1. c.wait = "run" /\ Packet = "EXIT" /\ Sent(c2, <<>>)
    BY <1>15 DEF Exited, Takes
  <2>2. Value \in AllFates
    BY <1>1, <2>1, Carries DEF Packet, Value
  <2>3. c2 \in ClientState
    BY <1>1, <2>2, ZenonT(30) DEF ClientState
  <2>4. /\ c2.window = c.window /\ c2.outq = c.outq /\ c2.eofPending = c.eofPending
        /\ c2.clientEof = c.clientEof /\ c2.pending = c.pending /\ c2.exit = x
        /\ c2.wait = c.wait /\ c2.back = c.back
    BY <1>1, <1>2 DEF ClientState
  <2> HIDE DEF c2, x
  <2>5. Sends(c2, <<>>) /\ s' = s /\ typed' = typed /\ shown' = shown
    BY <2>1 DEF Sent
  <2>6. /\ Hears(<<>>) /\ Phase' = Phase
        /\ c'.window = c2.window /\ c'.outq = c2.outq /\ c'.eofPending = c2.eofPending
        /\ c'.clientEof = c2.clientEof /\ c'.pending = c2.pending /\ c'.exit = c2.exit
    BY <1>10, <2>3, <2>4, <2>5, QuietMsgs
  <2>7. Phase = "run"
    BY <2>1 DEF Phase, InKex
  <2>8. UNCHANGED <<Phase, Sending, Showing>> /\ c'.exit = x
    BY <2>4, <2>5, <2>6 DEF Sending, Showing
  <2>9. x = Status(Heard[2])
    BY <1>4 DEF x
  <2>. QED BY <1>4, <2>1, <2>6, <2>7, <2>8, <2>9 DEF IsTold, ClientSide
<1>16. CASE ServerEof \/ Answered
  <2>1. Sent(Got, <<>>) /\ Packet \in Quiet \cup {"EOF"}
    BY <1>7, <1>16 DEF ServerEof, Answered, Takes
  <2>. QED BY <1>6, <2>1, QuietMsgs
<1>17. CASE Closed
  <2> DEFINE c2 == [Got EXCEPT !.wait = "over"]
             msgs == <<M("CLOSE")>>
  <2>1. c.wait = "run" /\ Packet = "CLOSE" /\ Sent(c2, msgs)
    BY <1>17 DEF Closed, Takes
  <2>2. c2 \in ClientState
    BY <1>1, ZenonT(30) DEF ClientState, Waits
  <2>3. Like(c2) /\ c2.exit = c.exit /\ c2.wait = "over"
    BY <1>1, <1>2, <2>2, ZenonT(30) DEF ClientState, Like
  <2>4. msgs \in Seq(Messages)
    BY Plainly, One DEF Plain
  <2> HIDE DEF c2, msgs
  <2>5. Hears(msgs) /\ UNCHANGED <<Sending, Showing, c.exit>>
    BY <1>0, <2>1, <2>3, <2>4, GoesOn
  <2>6. c'.wait = "over"
    BY <2>1, <2>2, <2>3, <2>4, Saying DEF Sent
  <2>7. Phase = "run"
    BY <2>1 DEF Phase, InKex
  <2>. QED BY <1>4, <2>1, <2>5, <2>6, <2>7 DEF Leaves, ClientSide, msgs
<1>. QED
  BY <1>8, <1>9, <1>11, <1>12, <1>13, <1>14, <1>15, <1>16, <1>17 DEF Pump

LEMMA UserForms ==
  ASSUME Typed, User \/ Keepalive \/ GivesUp
  PROVE  UserSide \/ ClientSide
<1>0. c \in ClientState /\ down' = down /\ Alive
  BY DEF User, Input, InputEnds, WindowChange, Keepalive, GivesUp, Silent, Alive, Typed
<1>1. ASSUME NEW c2 \in ClientState, NEW msgs \in Seq(Messages), Sends(c2, msgs), s' = s,
             c.wait = "run", c2.wait = c.wait, c2.back = c.back
      PROVE  /\ Says(msgs) /\ Phase' = Phase
             /\ c'.window = c2.window /\ c'.outq = c2.outq /\ c'.eofPending = c2.eofPending
             /\ c'.clientEof = c2.clientEof /\ c'.pending = c2.pending /\ c'.exit = c2.exit
  <2>1. /\ Going' = Going \o msgs /\ Phase' = PhaseOf(c2)
        /\ c'.window = c2.window /\ c'.outq = c2.outq /\ c'.eofPending = c2.eofPending
        /\ c'.clientEof = c2.clientEof /\ c'.pending = c2.pending /\ c'.exit = c2.exit
    BY <1>1, Saying
  <2>2. Coming' = Coming
    BY <1>0, <1>1 DEF Coming
  <2>3. PhaseOf(c2) = Phase
    BY <1>1 DEF PhaseOf, Phase, InKex, KexWaits
  <2>. QED BY <1>0, <1>1, <2>1, <2>2, <2>3 DEF Says
<1>2. {"WINDOW_CHANGE", "KEEPALIVE"} \subseteq Quiet
  BY DEF Quiet, Plain, Turns, ServerTurns, Questions, Answers
<1>3. ASSUME NEW n \in 1..MaxBurst, Input(n)
      PROVE  TypesMore
  <2> DEFINE data == [i \in 1..n |-> typed + i]
             x == c.window - Fits(data, c.window)
             y == Rest(data, c.window)
             z == c.outq \o data
             msgs == Chunks(data, c.window)
             c2 == [c EXCEPT !.outq = z]
             c3 == [c EXCEPT !.outq = y, !.window = x]
  <2>1. data \in Seq(Nat)
    BY DEF Typed
  <2>2. c.window \in Nat /\ c.maxpkt \in Nat \ {0} /\ c.outq \in Seq(Nat)
    BY <1>0 DEF ClientState
  <2>3. /\ \/ c.outq # <<>> /\ Sends(c2, <<>>)
           \/ c.outq = <<>> /\ Sends(c3, msgs)
        /\ s' = s /\ c.wait = "run" /\ ~c.clientEof /\ typed' = typed + n /\ shown' = shown
    BY <1>3 DEF Input
  <2> HIDE DEF data
  <2>40. y \in Seq(Nat) /\ x \in Nat
    BY <2>1, <2>2, FitsIs
  <2>41. msgs \in Seq(Messages)
    BY <2>1, <2>2, ChunksAre
  <2>4. y \in Seq(Nat) /\ x \in Nat /\ msgs \in Seq(Messages)
    BY ONLY <2>40, <2>41
  <2>5. z \in Seq(Nat)
    BY <2>1, <2>2
  <2> HIDE DEF data, x, y, z, msgs
  <2>6. c2 \in ClientState /\ c3 \in ClientState
    BY <1>0, <2>4, <2>5, ZenonT(30) DEF ClientState
  <2>7. /\ c2.window = c.window /\ c2.outq = z /\ c2.eofPending = c.eofPending
        /\ c2.clientEof = c.clientEof /\ c2.pending = c.pending /\ c2.exit = c.exit
        /\ c2.wait = c.wait /\ c2.back = c.back
    BY <1>0 DEF ClientState
  <2>8. /\ c3.window = x /\ c3.outq = y /\ c3.eofPending = c.eofPending
        /\ c3.clientEof = c.clientEof /\ c3.pending = c.pending /\ c3.exit = c.exit
        /\ c3.wait = c.wait /\ c3.back = c.back
    BY <1>0 DEF ClientState
  <2> HIDE DEF c2, c3
  <2>9. CASE c.outq # <<>> /\ Sends(c2, <<>>)
    <3>1. /\ Says(<<>>) /\ Phase' = Phase
          /\ c'.window = c2.window /\ c'.outq = c2.outq /\ c'.eofPending = c2.eofPending
          /\ c'.clientEof = c2.clientEof /\ c'.pending = c2.pending /\ c'.exit = c2.exit
      BY <1>1, <2>3, <2>6, <2>7, <2>9, QuietMsgs
    <3>2. c'.outq = c.outq \o data /\ c'.window = c.window
      BY <2>7, <3>1 DEF z
    <3>3. UNCHANGED <<Phase, c.eofPending, c.clientEof, Showing, c.exit>>
      BY <2>3, <2>7, <3>1 DEF Showing
    <3>. QED BY <2>3, <2>9, <3>1, <3>2, <3>3 DEF TypesMore, data
  <2>10. CASE c.outq = <<>> /\ Sends(c3, msgs)
    <3>1. /\ Says(msgs) /\ Phase' = Phase
          /\ c'.window = c3.window /\ c'.outq = c3.outq /\ c'.eofPending = c3.eofPending
          /\ c'.clientEof = c3.clientEof /\ c'.pending = c3.pending /\ c'.exit = c3.exit
      BY <1>1, <2>3, <2>4, <2>6, <2>8, <2>10
    <3>2. c'.outq = Rest(data, c.window) /\ c'.window = c.window - Fits(data, c.window)
      BY <2>8, <3>1 DEF x, y
    <3>3. UNCHANGED <<Phase, c.eofPending, c.clientEof, Showing, c.exit>>
      BY <2>3, <2>8, <3>1 DEF Showing
    <3>. QED BY <2>3, <2>10, <3>1, <3>2, <3>3 DEF TypesMore, data, msgs
  <2>. QED BY <2>3, <2>9, <2>10
<1>4. CASE InputEnds
  <2> DEFINE c2 == [c EXCEPT !.clientEof = TRUE]
             c3 == [c2 EXCEPT !.eofPending = TRUE]
             msgs == <<M("EOF")>>
  <2>1. c2 \in ClientState
    BY <1>0, ZenonT(30) DEF ClientState
  <2>2. /\ c2.window = c.window /\ c2.outq = c.outq /\ c2.eofPending = c.eofPending
        /\ c2.clientEof = TRUE /\ c2.pending = c.pending /\ c2.exit = c.exit
        /\ c2.wait = c.wait /\ c2.back = c.back
    BY <1>0 DEF ClientState
  <2>3. /\ \/ c.outq # <<>> /\ Sends(c3, <<>>)
           \/ c.outq = <<>> /\ Sends(c2, msgs)
        /\ s' = s /\ c.wait = "run" /\ ~c.clientEof /\ typed' = typed /\ shown' = shown
    BY <1>4 DEF InputEnds, Sent
  <2> HIDE DEF c2
  <2>4. c3 \in ClientState
    BY <2>1 DEF ClientState
  <2>5. /\ c3.window = c.window /\ c3.outq = c.outq /\ c3.eofPending = TRUE
        /\ c3.clientEof = TRUE /\ c3.pending = c.pending /\ c3.exit = c.exit
        /\ c3.wait = c.wait /\ c3.back = c.back
    BY <2>1, <2>2 DEF ClientState
  <2>6. msgs \in Seq(Messages)
    BY Plainly, One DEF Plain
  <2> HIDE DEF c3, msgs
  <2>7. CASE c.outq # <<>> /\ Sends(c3, <<>>)
    <3>1. /\ Says(<<>>) /\ Phase' = Phase
          /\ c'.window = c3.window /\ c'.outq = c3.outq /\ c'.eofPending = c3.eofPending
          /\ c'.clientEof = c3.clientEof /\ c'.pending = c3.pending /\ c'.exit = c3.exit
      BY <1>1, <2>3, <2>4, <2>5, <2>7, QuietMsgs
    <3>2. UNCHANGED <<Phase, c.window, c.outq, typed, Showing, c.exit>>
      BY <2>3, <2>5, <3>1 DEF Showing
    <3>. QED BY <2>3, <2>5, <2>7, <3>1, <3>2 DEF Finishes, UserSide
  <2>8. CASE c.outq = <<>> /\ Sends(c2, msgs)
    <3>1. /\ Says(msgs) /\ Phase' = Phase
          /\ c'.window = c2.window /\ c'.outq = c2.outq /\ c'.eofPending = c2.eofPending
          /\ c'.clientEof = c2.clientEof /\ c'.pending = c2.pending /\ c'.exit = c2.exit
      BY <1>1, <2>1, <2>2, <2>3, <2>6, <2>8
    <3>2. UNCHANGED <<Phase, c.window, c.outq, typed, Showing, c.exit>>
      BY <2>2, <2>3, <3>1 DEF Showing
    <3>. QED BY <2>2, <2>3, <2>8, <3>1, <3>2 DEF Finishes, UserSide, msgs
  <2>. QED BY <2>3, <2>7, <2>8
<1>5. ASSUME NEW c2 \in ClientState, NEW t \in {"WINDOW_CHANGE", "KEEPALIVE"}, Sent(c2, <<M(t)>>),
             c.wait = "run", c2.wait = c.wait, c2.back = c.back, Like(c2), c2.exit = c.exit
      PROVE  Remarks
  <2> DEFINE msgs == <<M(t)>>
  <2>1. msgs \in Seq(Messages) /\ AllOf(msgs, Quiet)
    BY <1>2, QuietMsgs
  <2>2. Sends(c2, msgs) /\ s' = s /\ typed' = typed /\ shown' = shown
    BY <1>5 DEF Sent
  <2> HIDE DEF msgs
  <2>3. /\ Says(msgs) /\ Phase' = Phase
        /\ c'.window = c2.window /\ c'.outq = c2.outq /\ c'.eofPending = c2.eofPending
        /\ c'.clientEof = c2.clientEof /\ c'.pending = c2.pending /\ c'.exit = c2.exit
    BY <1>1, <1>5, <2>1, <2>2
  <2>. QED BY <1>5, <2>1, <2>2, <2>3 DEF Remarks, Stays, Sending, Showing, Like
<1>6. CASE WindowChange
  <2> DEFINE c2 == [c EXCEPT !.asks = @ + 1]
  <2>0. c.asks + 1 \in Nat
    BY <1>0 DEF ClientState
  <2>1. c2 \in ClientState
    BY <1>0, <2>0, ZenonT(30) DEF ClientState
  <2>2. Like(c2) /\ c2.exit = c.exit /\ c2.wait = c.wait /\ c2.back = c.back
    BY <1>0, <2>1, ZenonT(30) DEF ClientState, Like
  <2>3. Sent(c2, <<M("WINDOW_CHANGE")>>) /\ c.wait = "run"
    BY <1>6 DEF WindowChange
  <2> HIDE DEF c2
  <2>. QED BY <1>5, <2>1, <2>2, <2>3 DEF UserSide
<1>7. CASE Keepalive
  <2> DEFINE n == Min({c.asks + 1, MaxExtra})
             c2 == [c EXCEPT !.asked = TRUE, !.asks = n]
  <2>1. c.asks + 1 \in Int /\ MaxExtra \in Int /\ c.asks + 1 >= 0 /\ MaxExtra >= 0
    BY <1>0, ChannelAssumption DEF ClientState
  <2>2. n \in Nat
    BY <2>1, MinIs
  <2>3. Sent(c2, <<M("KEEPALIVE")>>) /\ c.wait = "run"
    BY <1>7 DEF Keepalive
  <2> HIDE DEF n
  <2>4. c2 \in ClientState
    BY <1>0, <2>2, ZenonT(30) DEF ClientState
  <2>5. Like(c2) /\ c2.exit = c.exit /\ c2.wait = c.wait /\ c2.back = c.back
    BY <1>0, <2>4, ZenonT(30) DEF ClientState, Like
  <2> HIDE DEF c2
  <2>. QED BY <1>5, <2>3, <2>4, <2>5 DEF UserSide
<1>8. CASE GivesUp
  <2>1. Like(c)
    BY <1>0 DEF Like
  <2>. QED BY <1>0, <1>8, <2>1, Dying DEF GivesUp, ClientSide
<1>. QED BY <1>3, <1>4, <1>6, <1>7, <1>8 DEF User, UserSide

-----------------------------------------------------------------------------
(* The server.                                                               *)

\* What the server's states x and y have in common.
SameServer(x, y) ==
  /\ x.window = y.window /\ x.room = y.room /\ x.got = y.got /\ x.gotEof = y.gotEof
  /\ x.sent = y.sent /\ x.stage = y.stage /\ x.fate = y.fate /\ x.early = y.early

LEMMA ReplyIs ==
  ASSUME Typed, HeldRight, NEW s2 \in ServerState, s2.held = s.held, s2.kex = s.kex,
         NEW msgs \in Seq(Messages), Replies(s2, msgs)
  PROVE  Coming' = Coming \o msgs /\ s'.kex = s.kex /\ HeldRight' /\ SameServer(s', s2)
<1>0. /\ Msgs(down) \in Seq(Messages) /\ s.held \in Seq(Messages) /\ down \in Seq(Packets)
      /\ s.sendKey \in Nat /\ s.sendSeq \in Nat
  BY TalkTyped, NumberIs DEF Typed, ServerState
<1>1. CASE s.kex = "init"
  <2>1. s' = [s2 EXCEPT !.held = @ \o msgs] /\ down' = down
    BY <1>1 DEF Replies
  <2>2. s'.held = s.held \o msgs /\ s'.kex = s.kex /\ SameServer(s', s2)
    BY <2>1, ZenonT(30) DEF ServerState, SameServer
  <2>3. Coming' = Msgs(down) \o (s.held \o msgs)
    BY <2>1, <2>2 DEF Coming
  <2>4. (Msgs(down) \o s.held) \o msgs = Msgs(down) \o (s.held \o msgs)
    <3> DEFINE m == Msgs(down)
               h == s.held
    <3>1. m \in Seq(Messages) /\ h \in Seq(Messages)
      BY <1>0
    <3> HIDE DEF m, h
    <3>2. (m \o h) \o msgs = m \o (h \o msgs)
      BY <3>1, ConcatAssociative
    <3>. QED BY <3>2 DEF m, h
  <2>. QED BY <1>1, <2>2, <2>3, <2>4 DEF Coming, HeldRight
<1>2. CASE s.kex # "init"
  <2>1. /\ s' = [s2 EXCEPT !.sendSeq = (@ + Len(msgs)) % SeqWrap]
        /\ down' = down \o Seal(msgs, s.sendKey, s.sendSeq)
    BY <1>2 DEF Replies
  <2>2. s'.held = s.held /\ s'.kex = s.kex /\ SameServer(s', s2) /\ s.held = <<>>
    BY <1>2, <2>1 DEF ServerState, SameServer, HeldRight
  <2>3. Msgs(down)' = Msgs(down) \o msgs
    BY <1>0, <2>1, MsgsSealed
  <2>4. (Msgs(down) \o msgs) \o <<>> = Msgs(down) \o msgs /\ Msgs(down) \o <<>> = Msgs(down)
    <3>1. Msgs(down) \o msgs \in Seq(Messages)
      BY <1>0, Joined
    <3>. QED BY <1>0, <3>1, ConcatEmptySeq
  <2>. QED BY <2>2, <2>3, <2>4 DEF Coming, HeldRight
<1>. QED BY <1>1, <1>2

LEMMA Asking ==
  ASSUME Typed, NEW t, ServerTakes(t)
  PROVE  /\ Going # <<>> /\ Asked = Head(up).msg /\ Asked \in Messages /\ Asked[1] = t
         /\ Going' = Tail(Going) /\ c' = c /\ typed' = typed /\ shown' = shown /\ Alive
         /\ In \in ServerState /\ SameServer(In, s) /\ In.held = s.held /\ In.kex = s.kex
<1>1. /\ up # <<>> /\ up \in Seq(Packets) /\ up' = Tail(up)
      /\ c' = c /\ typed' = typed /\ shown' = shown /\ Alive
  BY DEF ServerTakes, Typed, Up
<1>2. Going # <<>> /\ Asked = Head(up).msg /\ Going' = Tail(Going)
  BY <1>1, MsgsTail DEF Going, Asked
<1>3. In \in ServerState /\ Head(up).msg \in Messages /\ Head(up).msg[1] = t
  BY ServerTakesTyped
<1>4. SameServer(In, s) /\ In.held = s.held /\ In.kex = s.kex
  BY DEF SameServer, In, ServerState, Typed
<1>. QED BY <1>1, <1>2, <1>3, <1>4

LEMMA Answering ==
  ASSUME Typed, HeldRight, NEW t, ServerTakes(t), NEW s2 \in ServerState, s2.held = s.held,
         s2.kex = s.kex, NEW msgs \in Seq(Messages), Replies(s2, msgs)
  PROVE  Reacts(t, msgs) /\ s'.kex = s.kex /\ HeldRight' /\ SameServer(s', s2)
BY ReplyIs, Asking DEF Reacts, Speaks

LEMMA Noting ==
  ASSUME Typed, NEW t, ServerTakes(t), NEW s2 \in ServerState, s2.held = s.held,
         s' = s2, UNCHANGED down
  PROVE  Reacts(t, <<>>) /\ SameServer(s', s2)
<1>1. Coming' = Coming
  BY DEF Coming
<1>2. Coming \o <<>> = Coming
  BY TalkTyped, ConcatEmptySeq
<1>. QED BY <1>1, <1>2, Asking, QuietMsgs DEF Reacts, Speaks, SameServer

LEMMA Serves1 ==
  ASSUME Typed, HeldRight, NEW s2 \in ServerState, s2.held = s.held, s2.kex = s.kex,
         NEW msgs \in Seq(Messages), Serves(s2, msgs)
  PROVE  Adds(msgs) /\ s'.kex = s.kex /\ HeldRight' /\ SameServer(s', s2)
<1>1. Replies(s2, msgs) /\ Alive /\ c' = c /\ up' = up /\ typed' = typed /\ shown' = shown
  BY DEF Serves, MaySend, Up
<1>2. Going' = Going
  BY <1>1 DEF Going
<1>. QED BY <1>1, <1>2, ReplyIs DEF Adds, Speaks

LEMMA ReceivesForms ==
  ASSUME Typed, TurnInv, ServerReceives
  PROVE  ServerSide /\ HeldRight'
<1>0. HeldRight
  BY DEF TurnInv
<1>1. /\ {"KEXINIT", "OPEN"} \cap Quiet = {}
      /\ {"SERVICE_REQUEST", "PROBE", "AUTH", "KEEPALIVE", "WINDOW_CHANGE", "REQUEST_FAILURE"}
           \subseteq Quiet
      /\ {"SERVICE_ACCEPT", "PK_OK", "AUTH_SUCCESS", "REFUSED", "REQUEST_FAILURE", "BANNER"}
           \subseteq Quiet
  BY DEF Quiet, Plain, Turns, ServerTurns, Questions, Answers
<1>2. \A t \in Plain : <<M(t)>> \in Seq(Messages)
  BY Plainly, One
<1>3. ASSUME NEW t \in Quiet \cup {"KEXINIT", "OPEN"}, ServerTakes(t), NEW msgs \in Seq(Messages),
             AllOf(msgs, Quiet), Replies(In, msgs)
      PROVE  ServerSide /\ HeldRight'
  <2>1. /\ In \in ServerState /\ SameServer(In, s) /\ In.held = s.held /\ In.kex = s.kex
    BY <1>3, Asking
  <2>2. Reacts(t, msgs) /\ s'.kex = s.kex /\ HeldRight' /\ SameServer(s', In)
    BY <1>0, <1>3, <2>1, Answering
  <2>. QED BY <1>3, <2>1, <2>2 DEF Obliges, Serving, SameServer, ServerSide
<1>4. ASSUME NEW t \in Quiet \cup {"KEXINIT", "OPEN"}, ServerTakes(t), s' = In, UNCHANGED down
      PROVE  ServerSide /\ HeldRight'
  <2>1. /\ In \in ServerState /\ SameServer(In, s) /\ In.held = s.held /\ In.kex = s.kex
    BY <1>4, Asking
  <2>2. Reacts(t, <<>>) /\ SameServer(s', In) /\ s'.kex = s.kex /\ HeldRight'
    BY <1>0, <1>4, <2>1, Noting DEF HeldRight
  <2>. QED BY <1>4, <2>1, <2>2, QuietMsgs DEF Obliges, Serving, SameServer, ServerSide
<1>5. ASSUME NEW t \in {"PTY_REQ", "EXEC"}, NEW a \in {"SUCCESS", "FAILURE"}, ServerTakes(t),
             t = "PTY_REQ" \/ a = "FAILURE", Replies(In, <<M(a)>>)
      PROVE  ServerSide /\ HeldRight'
  <2>1. /\ In \in ServerState /\ SameServer(In, s) /\ In.held = s.held /\ In.kex = s.kex
    BY <1>5, Asking
  <2>2. <<M(a)>> \in Seq(Messages)
    BY <1>2 DEF Plain
  <2>3. Reacts(t, <<M(a)>>) /\ s'.kex = s.kex /\ HeldRight' /\ SameServer(s', In)
    BY <1>0, <1>5, <2>1, <2>2, Answering
  <2>4. Responds
    BY <1>5, <2>1, <2>3 DEF Responds, Serving, SameServer
  <2>. QED BY <2>3, <2>4 DEF ServerSide
<1>6. CASE SrvKexInit
  BY <1>4, <1>6 DEF SrvKexInit
<1>7. CASE SrvEcdh
  <2> DEFINE two == <<M("ECDH_REPLY"), M("NEWKEYS")>>
             under == Seal(two, s.sendKey, s.sendSeq)
             seq == IF s.strict THEN 0 ELSE (s.sendSeq + 2) % SeqWrap
             held == Seal(s.held, s.sendKey + 1, seq)
             n == (seq + Len(s.held)) % SeqWrap
  <2>1. /\ s.sendKey \in Nat /\ s.sendSeq \in Nat /\ s.held \in Seq(Messages)
        /\ s.sendKey + 1 \in Nat /\ down \in Seq(Packets) /\ ServerTakes("ECDH_INIT")
        /\ Msgs(down) \in Seq(Messages)
    <3>1. /\ s.sendKey \in Nat /\ s.sendSeq \in Nat /\ s.held \in Seq(Messages)
          /\ down \in Seq(Packets)
      BY NumberIs DEF Typed, ServerState
    <3>2. s.sendKey + 1 \in Nat
      BY <3>1
    <3>3. ServerTakes("ECDH_INIT")
      BY <1>7 DEF SrvEcdh
    <3>. QED BY <3>1, <3>2, <3>3, TalkTyped
  <2>2. two \in Seq(Messages)
    BY Plainly, One DEF Plain
  <2>3. seq \in Nat
    BY <2>1, InNumbers, NumberIs
  <2>4. /\ down' = (down \o under) \o held
        /\ s' = [In EXCEPT !.kex = "keys", !.sendKey = @ + 1, !.held = <<>>, !.sendSeq = n]
    BY <1>7 DEF SrvEcdh
  <2> HIDE DEF seq, n, two
  <2>5. under \in Seq(Packets)
    BY <2>1, <2>2, Sealed
  <2>6. Msgs(down \o under) = Msgs(down) \o two
    BY <2>1, <2>2, MsgsSealed
  <2>7. Msgs((down \o under) \o held) = Msgs(down \o under) \o s.held
    <3> DEFINE q == down \o under
    <3>1. q \in Seq(Packets)
      BY <2>1, <2>5, Joined
    <3> HIDE DEF q, under
    <3>2. Msgs(q \o Seal(s.held, s.sendKey + 1, seq)) = Msgs(q) \o s.held
      BY <2>1, <2>3, <3>1, MsgsSealed
    <3>. QED BY <3>2 DEF q
  <2>8. /\ s'.kex = "keys" /\ s'.held = <<>> /\ SameServer(s', In)
    <3>1. In \in ServerState
      BY <2>1, Asking
    <3>. QED BY <2>4, <3>1 DEF ServerState, SameServer
  <2>9. Coming' = ((Msgs(down) \o two) \o s.held) \o <<>>
    <3>1. Msgs(down)' = (Msgs(down) \o two) \o s.held
      BY <2>4, <2>6, <2>7
    <3>. QED BY <2>8, <3>1 DEF Coming
  <2>10. (Msgs(down) \o two) \o s.held \in Seq(Messages)
    <3>1. Msgs(down) \o two \in Seq(Messages)
      BY <2>1, <2>2, Joined
    <3>. QED BY ONLY <2>1, <3>1, Joined
  <2>11. Coming' = (Msgs(down) \o two) \o s.held
    BY <2>9, <2>10, ConcatEmptySeq
  <2>12. /\ Going # <<>> /\ Asked[1] = "ECDH_INIT" /\ Going' = Tail(Going) /\ Alive
         /\ c' = c /\ typed' = typed /\ shown' = shown /\ SameServer(In, s)
    BY <2>1, Asking
  <2>13. Exchanges
    BY <2>8, <2>11, <2>12 DEF Exchanges, Serving, SameServer, two
  <2>. QED BY <2>8, <2>13 DEF ServerSide, HeldRight
<1>8. CASE SrvNewKeys
  <2>1. ServerTakes("NEWKEYS")
    BY <1>8 DEF SrvNewKeys
  <2>2. /\ Going # <<>> /\ Asked[1] = "NEWKEYS" /\ Alive
        /\ In \in ServerState /\ SameServer(In, s) /\ In.held = s.held /\ In.kex = s.kex
    BY <2>1, Asking
  <2>3. Going \in Seq(Messages)
    BY TalkTyped
  <2>4. 1 \in 1..Len(Going) /\ Going[1][1] = "NEWKEYS"
    BY <2>2, <2>3, HeadTail DEF Asked
  <2>5. s.kex = "keys"
    <3>1. PICK g \in 0..Len(Going), n \in 0..Len(Coming) : Turn(g, n)
      BY <2>2 DEF TurnInv
    <3>2. g = 1
      BY <2>4, <3>1 DEF Turn, TurnOf, Only, Turns
    <3>3. s.kex \in {"init", "keys", "idle"}
      BY DEF Typed, ServerState
    <3>. QED BY <2>4, <3>1, <3>2, <3>3 DEF Turn, TurnOf
  <2>6. s.held = <<>>
    BY <1>0, <2>5 DEF HeldRight
  <2> DEFINE n == IF s.strict THEN 0 ELSE In.recvSeq
             k == In.recvKey + 1
             s2 == [In EXCEPT !.kex = "idle", !.recvKey = k, !.recvSeq = n]
  <2>7. In.recvSeq \in Numbers /\ k \in Nat
    BY <2>2 DEF ServerState
  <2>8. n \in Numbers
    BY <2>7, NumberIs
  <2>9. s' = s2 /\ down' = down
    BY <1>8 DEF SrvNewKeys
  <2> HIDE DEF n, k
  <2>10. s2 \in ServerState
    BY <2>2, <2>7, <2>8, ZenonT(30) DEF ServerState
  <2>11. s2.held = s.held /\ s2.kex = "idle" /\ SameServer(s2, s)
    BY <2>2, <2>10 DEF ServerState, SameServer
  <2> HIDE DEF s2
  <2>12. Reacts("NEWKEYS", <<>>) /\ SameServer(s', s2)
    BY <2>1, <2>9, <2>10, <2>11, Noting
  <2>13. Switches
    BY <2>9, <2>11, <2>12 DEF Switches, SameServer, Serving
  <2>. QED BY <2>6, <2>9, <2>11, <2>13 DEF ServerSide, HeldRight
<1>9. CASE SrvLogin
  <2>1. /\ \A t \in {"SERVICE_ACCEPT", "PK_OK", "AUTH_SUCCESS", "REFUSED"} :
             <<M(t)>> \in Seq(Messages) /\ AllOf(<<M(t)>>, Quiet)
        /\ <<M("BANNER"), M("AUTH_SUCCESS")>> \in Seq(Messages)
    BY <1>1, QuietMsgs, Plainly, One DEF Plain
  <2>2. AllOf(<<M("BANNER"), M("AUTH_SUCCESS")>>, Quiet)
    BY <1>1 DEF AllOf, M, Msg
  <2>3. CASE \/ ServerTakes("SERVICE_REQUEST") /\ Replies(In, <<M("SERVICE_ACCEPT")>>)
             \/ ServerTakes("OPEN") /\ Replies(In, <<M("REFUSED")>>)
    BY <1>1, <1>3, <2>1, <2>3
  <2>4. CASE ServerTakes("PROBE") /\ \E a \in {<<M("PK_OK")>>, <<M("AUTH_SUCCESS")>>, <<M("REFUSED")>>} :
                                Replies(In, a)
    BY <1>1, <1>3, <2>1, <2>4
  <2>5. CASE ServerTakes("AUTH") /\ \E a \in {<<M("BANNER"), M("AUTH_SUCCESS")>>, <<M("REFUSED")>>} :
                                Replies(In, a)
    BY <1>1, <1>3, <2>1, <2>2, <2>5
  <2>6. CASE ServerTakes("PTY_REQ") /\ \E a \in {"SUCCESS", "FAILURE"} : Replies(In, <<M(a)>>)
    BY <1>5, <2>6
  <2>60. CASE ServerTakes("EXEC") /\ Replies(In, <<M("FAILURE")>>)
    BY <1>5, <2>60
  <2>7. ASSUME NEW w \in Windows \cup {0}, NEW p \in MaxPkts, ServerTakes("OPEN"),
               Replies([In EXCEPT !.room = w, !.window = WindowSize], <<Msg("CONFIRM", <<w, p>>)>>)
        PROVE  ServerSide /\ HeldRight'
    <3> DEFINE msgs == <<Msg("CONFIRM", <<w, p>>)>>
               s2 == [In EXCEPT !.room = w, !.window = WindowSize]
    <3>1. w \in Int /\ WindowSize \in Int
      BY ChannelAssumption
    <3>2. msgs \in Seq(Messages)
      BY Plainly, One
    <3>3. In \in ServerState /\ SameServer(In, s) /\ In.held = s.held /\ In.kex = s.kex
      BY <2>7, Asking
    <3>4. s2 \in ServerState
      BY <3>1, <3>3, ZenonT(30) DEF ServerState
    <3>5. /\ s2.held = s.held /\ s2.kex = s.kex /\ s2.room = w /\ s2.window = WindowSize
          /\ s2.got = s.got /\ s2.gotEof = s.gotEof /\ s2.sent = s.sent /\ s2.stage = s.stage
          /\ s2.fate = s.fate /\ s2.early = s.early
      BY <3>3, <3>4 DEF ServerState, SameServer
    <3> HIDE DEF msgs, s2
    <3>6. Replies(s2, msgs)
      BY <2>7 DEF s2, msgs
    <3>7. Reacts("OPEN", msgs) /\ s'.kex = s.kex /\ HeldRight' /\ SameServer(s', s2)
      BY <1>0, <2>7, <3>2, <3>4, <3>5, <3>6, Answering
    <3>8. Confirms
      BY <3>5, <3>7 DEF Confirms, SameServer, msgs
    <3>. QED BY <3>7, <3>8 DEF ServerSide
  <2>8. ASSUME NEW w \in Windows, NEW f \in EarlyFates \cup {<<>>}, ServerTakes("EXEC"),
               Replies([In EXCEPT !.stage = "running", !.room = @ + w, !.early = f # <<>>, !.fate = f],
                       <<Msg("ADJUST", w)>> \o (IF f = <<>> THEN <<>> ELSE <<Msg("EXIT", f)>>)
                         \o <<M("SUCCESS")>>)
        PROVE  ServerSide /\ HeldRight'
    <3> DEFINE msgs == <<Msg("ADJUST", w)>> \o Exit(f) \o <<M("SUCCESS")>>
               r == In.room + w
               e == f # <<>>
               s2 == [In EXCEPT !.stage = "running", !.room = r, !.early = e, !.fate = f]
    <3>1. w \in Nat /\ e \in BOOLEAN
      BY ChannelAssumption
    <3>2. msgs \in Seq(Messages)
      <4>1. <<Msg("ADJUST", w)>> \in Seq(Messages) /\ <<M("SUCCESS")>> \in Seq(Messages)
        BY <1>2, <3>1, Plainly, One DEF Plain
      <4>2. Exit(f) \in Seq(Messages)
        BY Plainly, One DEF AllFates, Exit
      <4>. QED BY <4>1, <4>2
    <3>3. In \in ServerState /\ SameServer(In, s) /\ In.held = s.held /\ In.kex = s.kex
      BY <2>8, Asking
    <3>4. r \in Int /\ r = s.room + w
      BY <3>1, <3>3 DEF ServerState, SameServer
    <3>6. Replies(s2, msgs)
      BY <2>8 DEF Exit
    <3> HIDE DEF r, e, msgs
    <3>40. \A x \in Int, v \in BOOLEAN :
            [In EXCEPT !.stage = "running", !.room = x, !.early = v, !.fate = f] \in ServerState
      BY <3>3, ZenonT(30) DEF ServerState, AllFates
    <3>41. s2 \in ServerState
      BY <3>1, <3>4, <3>40 DEF e
    <3>5. /\ s2.held = s.held /\ s2.kex = s.kex /\ s2.room = r /\ s2.window = s.window
          /\ s2.got = s.got /\ s2.gotEof = s.gotEof /\ s2.sent = s.sent /\ s2.stage = "running"
          /\ s2.fate = f /\ s2.early = e
      BY <3>3, <3>41 DEF ServerState, SameServer
    <3> HIDE DEF s2
    <3>7. Reacts("EXEC", msgs) /\ s'.kex = s.kex /\ HeldRight' /\ SameServer(s', s2)
      BY <1>0, <2>8, <3>2, <3>41, <3>5, <3>6, Answering
    <3>8. s'.room = s.room + w /\ s'.early = (f # <<>>) /\ s'.fate = f /\ s'.stage = "running"
          /\ UNCHANGED <<s.window, s.got, s.gotEof, s.sent, s.kex>>
      BY <3>4, <3>5, <3>7 DEF SameServer, e
    <3>9. Starts
      BY <3>7, <3>8 DEF Starts, msgs
    <3>. QED BY <3>7, <3>9 DEF ServerSide
  <2>. QED BY <1>9, <2>3, <2>4, <2>5, <2>6, <2>60, <2>7, <2>8 DEF SrvLogin
<1>10. CASE SrvInput
  <2> DEFINE data == Head(up).msg[2]
             g == In.got \o data
             u == In.unread + Len(data)
             r == In.room - Len(data)
             s2 == [In EXCEPT !.got = g, !.unread = u, !.room = r]
  <2>1. ServerTakes("DATA") /\ down' = down /\ s' = s2
    BY <1>10 DEF SrvInput
  <2>2. /\ In \in ServerState /\ SameServer(In, s) /\ In.held = s.held /\ In.kex = s.kex
        /\ Asked = Head(up).msg /\ Asked \in Messages /\ Asked[1] = "DATA"
    BY <2>1, Asking
  <2>3. data \in Seq(Nat) /\ data = Asked[2]
    BY <2>2, Carries
  <2> HIDE DEF data
  <2>40. In.got \in Seq(Nat) /\ In.unread \in Nat /\ In.room \in Int /\ Len(data) \in Nat
    BY <2>2, <2>3 DEF ServerState
  <2>41. g \in Seq(Nat) /\ u \in Nat /\ r \in Int
    BY <2>3, <2>40
  <2>42. g = s.got \o data /\ r = s.room - Len(data)
    BY <2>2 DEF SameServer
  <2>4. g \in Seq(Nat) /\ u \in Nat /\ r \in Int /\ g = s.got \o data /\ r = s.room - Len(data)
    BY <2>41, <2>42
  <2> HIDE DEF g, u, r
  <2>5. s2 \in ServerState
    BY <2>2, <2>4, ZenonT(30) DEF ServerState
  <2>6. /\ s2.held = s.held /\ s2.kex = s.kex /\ s2.room = r /\ s2.window = s.window
        /\ s2.got = g /\ s2.gotEof = s.gotEof /\ s2.sent = s.sent /\ s2.stage = s.stage
        /\ s2.fate = s.fate /\ s2.early = s.early
    BY <2>2, <2>5 DEF ServerState, SameServer
  <2> HIDE DEF s2
  <2>7. Reacts("DATA", <<>>) /\ s'.kex = s.kex /\ s'.held = s.held
    BY <2>1, <2>5, <2>6, Noting
  <2>8. Reads
    BY <2>1, <2>3, <2>4, <2>6, <2>7 DEF Reads
  <2>. QED BY <1>0, <2>7, <2>8 DEF ServerSide, HeldRight
<1>11. CASE SrvEof
  <2> DEFINE s2 == [In EXCEPT !.gotEof = TRUE]
  <2>1. ServerTakes("EOF") /\ down' = down /\ s' = s2
    BY <1>11 DEF SrvEof
  <2>2. In \in ServerState /\ SameServer(In, s) /\ In.held = s.held /\ In.kex = s.kex
    BY <2>1, Asking
  <2>3. s2 \in ServerState
    BY <2>2, ZenonT(30) DEF ServerState
  <2>4. /\ s2.held = s.held /\ s2.kex = s.kex /\ s2.room = s.room /\ s2.window = s.window
        /\ s2.got = s.got /\ s2.gotEof = TRUE /\ s2.sent = s.sent /\ s2.stage = s.stage
        /\ s2.fate = s.fate /\ s2.early = s.early
    BY <2>2, <2>3 DEF ServerState, SameServer
  <2> HIDE DEF s2
  <2>5. Reacts("EOF", <<>>) /\ s'.kex = s.kex /\ s'.held = s.held
    BY <2>1, <2>3, <2>4, Noting
  <2>6. ReadsEnd
    BY <2>1, <2>4, <2>5 DEF ReadsEnd
  <2>. QED BY <1>0, <2>5, <2>6 DEF ServerSide, HeldRight
<1>12. CASE SrvAdjust
  <2> DEFINE w == In.window + Head(up).msg[2]
             s2 == [In EXCEPT !.window = w]
  <2>1. ServerTakes("ADJUST") /\ down' = down /\ s' = s2
    BY <1>12 DEF SrvAdjust
  <2>2. /\ In \in ServerState /\ SameServer(In, s) /\ In.held = s.held /\ In.kex = s.kex
        /\ Asked = Head(up).msg /\ Asked \in Messages /\ Asked[1] = "ADJUST"
    BY <2>1, Asking
  <2>3. w \in Int /\ w = s.window + Asked[2]
    BY <2>2, Carries DEF ServerState, SameServer
  <2> HIDE DEF w
  <2>4. s2 \in ServerState
    BY <2>2, <2>3, ZenonT(30) DEF ServerState
  <2>5. /\ s2.held = s.held /\ s2.kex = s.kex /\ s2.room = s.room /\ s2.window = w
        /\ s2.got = s.got /\ s2.gotEof = s.gotEof /\ s2.sent = s.sent /\ s2.stage = s.stage
        /\ s2.fate = s.fate /\ s2.early = s.early
    BY <2>2, <2>4 DEF ServerState, SameServer
  <2> HIDE DEF s2
  <2>6. Reacts("ADJUST", <<>>) /\ s'.kex = s.kex /\ s'.held = s.held
    BY <2>1, <2>4, <2>5, Noting
  <2>7. IsRepaid
    BY <2>1, <2>3, <2>5, <2>6 DEF IsRepaid
  <2>. QED BY <1>0, <2>6, <2>7 DEF ServerSide, HeldRight
<1>13. CASE SrvAnswer
  BY <1>1, <1>3, <1>13, QuietMsgs DEF SrvAnswer
<1>14. CASE SrvNoted
  BY <1>1, <1>4, <1>14 DEF SrvNoted
<1>. QED BY <1>6, <1>7, <1>8, <1>9, <1>10, <1>11, <1>12, <1>13, <1>14 DEF ServerReceives

LEMMA SendsForms ==
  ASSUME Typed, HeldRight, ServerSends \/ Vanish
  PROVE  ServerMore /\ HeldRight'
<1>0. s \in ServerState
  BY DEF Typed
<1>1. /\ s.sent \in Nat /\ s.window \in Int /\ s.room \in Int /\ s.unread \in Nat
      /\ s.extra \in Nat /\ s.rekeys \in Nat
  BY <1>0 DEF ServerState
<1>2. ASSUME NEW n \in 1..2, SrvOutput(n)
      PROVE  ServerMore /\ HeldRight'
  <2> DEFINE data == [i \in 1..n |-> s.sent + i]
             x == s.sent + n
             y == s.window - n
             s2 == [s EXCEPT !.sent = x, !.window = y]
  <2>1. PICK t \in Streams : Running /\ Serves(s2, <<Msg(t, data)>>)
    BY <1>2 DEF SrvOutput
  <2>2. x \in Nat /\ y \in Int /\ t \in {"DATA", "EXT_DATA"}
    BY <1>1, ChannelAssumption
  <2>3. data \in Seq(Nat)
    BY <1>1
  <2>4. <<Msg(t, data)>> \in Seq(Messages)
    BY <2>2, <2>3, Plainly, One
  <2> HIDE DEF data, x, y
  <2>5. s2 \in ServerState
    BY <1>0, <2>2, ZenonT(30) DEF ServerState
  <2>6. /\ s2.held = s.held /\ s2.kex = s.kex /\ s2.room = s.room /\ s2.window = y
        /\ s2.got = s.got /\ s2.gotEof = s.gotEof /\ s2.sent = x /\ s2.stage = s.stage
        /\ s2.fate = s.fate /\ s2.early = s.early
    BY <1>0 DEF ServerState
  <2> HIDE DEF s2
  <2>7. Adds(<<Msg(t, data)>>) /\ s'.kex = s.kex /\ HeldRight' /\ SameServer(s', s2)
    BY <2>1, <2>4, <2>5, <2>6, Serves1
  <2>8. /\ s'.sent = s.sent + n /\ s'.window = s.window - n
        /\ UNCHANGED <<s.room, s.got, s.gotEof, s.stage, s.fate, s.early, s.kex>>
    BY <2>6, <2>7 DEF SameServer, x, y
  <2>9. Writes
    BY <2>1, <2>2, <2>7, <2>8 DEF Writes, Running, data
  <2>. QED BY <2>7, <2>9 DEF ServerMore
<1>3. ASSUME NEW s2 \in ServerState, NEW n \in Nat, s2.held = s.held, s2.kex = s.kex,
             s2.room = s.room + n, s2.window = s.window, s2.got = s.got, s2.gotEof = s.gotEof,
             s2.sent = s.sent, s2.stage = s.stage, s2.fate = s.fate, s2.early = s.early,
             Running, Serves(s2, <<Msg("ADJUST", n)>>)
      PROVE  ServerMore /\ HeldRight'
  <2>1. <<Msg("ADJUST", n)>> \in Seq(Messages)
    BY Plainly, One
  <2>2. Adds(<<Msg("ADJUST", n)>>) /\ s'.kex = s.kex /\ HeldRight' /\ SameServer(s', s2)
    BY <1>3, <2>1, Serves1
  <2>3. Grants
    BY <1>3, <2>2 DEF Grants, Running, SameServer
  <2>. QED BY <2>2, <2>3 DEF ServerMore
<1>4. CASE SrvGrant
  <2> DEFINE r == s.room + s.unread
             s2 == [s EXCEPT !.unread = 0, !.room = r]
  <2>1. Running /\ Serves(s2, <<Msg("ADJUST", s.unread)>>)
    BY <1>4 DEF SrvGrant
  <2>2. r \in Int
    BY <1>1
  <2>3. s2 \in ServerState
    <3> HIDE DEF r
    <3>. QED BY <1>0, <2>2, ZenonT(30) DEF ServerState
  <2>4. /\ s2.held = s.held /\ s2.kex = s.kex /\ s2.room = s.room + s.unread /\ s2.window = s.window
        /\ s2.got = s.got /\ s2.gotEof = s.gotEof /\ s2.sent = s.sent /\ s2.stage = s.stage
        /\ s2.fate = s.fate /\ s2.early = s.early
    BY <1>0 DEF ServerState
  <2> HIDE DEF s2
  <2>. QED BY <1>1, <1>3, <2>1, <2>3, <2>4
<1>5. CASE SrvSpare
  <2> DEFINE r == s.room + MaxWindow
             e == s.extra + 1
             s2 == [s EXCEPT !.extra = e, !.room = r]
  <2>1. Running /\ Serves(s2, <<Msg("ADJUST", MaxWindow)>>)
    BY <1>5 DEF SrvSpare
  <2>2. r \in Int /\ MaxWindow \in Nat /\ e \in Nat
    <3>1. MaxWindow \in Nat
      BY ChannelAssumption
    <3>. QED BY <1>1, <3>1
  <2>3. s2 \in ServerState
    <3> HIDE DEF r, e
    <3>. QED BY <1>0, <2>2, ZenonT(30) DEF ServerState
  <2>4. /\ s2.held = s.held /\ s2.kex = s.kex /\ s2.room = s.room + MaxWindow /\ s2.window = s.window
        /\ s2.got = s.got /\ s2.gotEof = s.gotEof /\ s2.sent = s.sent /\ s2.stage = s.stage
        /\ s2.fate = s.fate /\ s2.early = s.early
    BY <1>0 DEF ServerState
  <2> HIDE DEF s2
  <2>. QED BY <1>3, <2>1, <2>2, <2>3, <2>4
<1>6. CASE SrvNoise
  <2> DEFINE e == s.extra + 1
             s2 == [s EXCEPT !.extra = e]
  <2>1. PICK m \in {M("IGNORE"), Msg("GLOBAL_REQUEST", 1)} : Serves(s2, <<m>>)
    BY <1>6 DEF SrvNoise
  <2>2. <<m>> \in Seq(Messages)
    BY Plainly, One DEF Plain
  <2>3. AllOf(<<m>>, Quiet)
    <3>1. m[1] \in Quiet
      BY DEF M, Msg, Quiet, Plain, Turns, ServerTurns, Questions, Answers
    <3>2. Len(<<m>>) = 1 /\ <<m>>[1] = m
      OBVIOUS
    <3>. QED BY <3>1, <3>2 DEF AllOf
  <2>4. e \in Nat
    BY <1>1
  <2> HIDE DEF e
  <2>5. s2 \in ServerState
    BY <1>0, <2>4, ZenonT(30) DEF ServerState
  <2>6. s2.held = s.held /\ s2.kex = s.kex /\ SameServer(s2, s)
    BY <1>0 DEF ServerState, SameServer
  <2> HIDE DEF s2
  <2>7. Adds(<<m>>) /\ s'.kex = s.kex /\ HeldRight' /\ SameServer(s', s2)
    BY <2>1, <2>2, <2>5, <2>6, Serves1
  <2>8. Murmurs
    BY <2>2, <2>3, <2>6, <2>7 DEF Murmurs, Serving, SameServer
  <2>. QED BY <2>7, <2>8 DEF ServerMore
<1>7. CASE SrvRekey
  <2> DEFINE msgs == <<M("KEXINIT")>>
             k == s.rekeys + 1
             n == (s.sendSeq + 1) % SeqWrap
  <2>1. /\ s.kex = "idle" /\ down' = down \o Seal(msgs, s.sendKey, s.sendSeq) /\ Alive
        /\ s' = [s EXCEPT !.kex = "init", !.rekeys = k, !.sendSeq = n]
        /\ c' = c /\ up' = up /\ typed' = typed /\ shown' = shown
    BY <1>7 DEF SrvRekey, Up
  <2>2. msgs \in Seq(Messages)
    BY Plainly, One DEF Plain
  <2>3. s.held = <<>>
    BY <2>1 DEF HeldRight
  <2>4. /\ s'.held = s.held /\ s'.kex = "init" /\ SameServer(s', s)
    BY <1>0, <2>1 DEF ServerState, SameServer
  <2>5. /\ down \in Seq(Packets) /\ s.sendKey \in Nat /\ s.sendSeq \in Nat
        /\ Msgs(down) \in Seq(Messages)
    BY NumberIs, TalkTyped DEF Typed, ServerState
  <2> HIDE DEF msgs
  <2>6. Msgs(down)' = Msgs(down) \o msgs
    BY <2>1, <2>2, <2>5, MsgsSealed
  <2>7. (Msgs(down) \o msgs) \o <<>> = Msgs(down) \o msgs /\ Msgs(down) \o <<>> = Msgs(down)
    <3>1. Msgs(down) \o msgs \in Seq(Messages)
      BY <2>2, <2>5, Joined
    <3>. QED BY <2>5, <3>1, ConcatEmptySeq
  <2>8. Coming' = Coming \o msgs /\ Going' = Going
    BY <2>1, <2>3, <2>4, <2>6, <2>7 DEF Coming, Going
  <2>9. Renews
    BY <2>1, <2>2, <2>4, <2>8 DEF Renews, Adds, Speaks, Serving, SameServer, msgs
  <2>. QED BY <2>4, <2>9 DEF ServerMore, HeldRight
<1>8. CASE SrvExit
  <2>1. PICK f \in Fates \cup {<<>>} :
          /\ Running /\ (s.early => f = <<>>)
          /\ Serves([s EXCEPT !.stage = "exited", !.fate = IF s.early THEN @ ELSE f],
                    <<M("EOF")>> \o Exit(f))
    BY <1>8 DEF SrvExit, Exit
  <2> DEFINE g == IF s.early THEN s.fate ELSE f
             s2 == [s EXCEPT !.stage = "exited", !.fate = g]
             msgs == <<M("EOF")>> \o Exit(f)
  <2>2. Exit(f) \in Seq(Messages) /\ f \in AllFates \cup {<<>>}
    BY Plainly, One DEF Exit, AllFates
  <2>3. msgs \in Seq(Messages)
    <3>1. <<M("EOF")>> \in Seq(Messages)
      BY Plainly, One DEF Plain
    <3>. QED BY <2>2, <3>1, Joined
  <2>4. Serves(s2, msgs)
    BY <2>1
  <2>5. g \in AllFates \cup {<<>>}
    BY <1>0, <2>2 DEF ServerState
  <2> HIDE DEF g, msgs
  <2>6. s2 \in ServerState
    BY <1>0, <2>5, ZenonT(30) DEF ServerState
  <2>7. /\ s2.held = s.held /\ s2.kex = s.kex /\ s2.room = s.room /\ s2.window = s.window
        /\ s2.got = s.got /\ s2.gotEof = s.gotEof /\ s2.sent = s.sent /\ s2.stage = "exited"
        /\ s2.fate = g /\ s2.early = s.early
    BY <1>0 DEF ServerState
  <2> HIDE DEF s2
  <2>8. Adds(msgs) /\ s'.kex = s.kex /\ HeldRight' /\ SameServer(s', s2)
    BY <2>3, <2>4, <2>6, <2>7, Serves1
  <2>9. /\ s'.stage = "exited" /\ s'.fate = (IF s.early THEN s.fate ELSE f)
        /\ UNCHANGED <<s.window, s.room, s.got, s.gotEof, s.sent, s.early, s.kex>>
    BY <2>7, <2>8 DEF SameServer, g
  <2>10. Exits
    <3>1. Adds(<<M("EOF")>> \o Exit(f))
      BY <2>8 DEF msgs
    <3>2. f \in AllFates \cup {<<>>} /\ (s.early => f = <<>>)
      BY <2>1, <2>2
    <3>3. s.stage = "running"
      BY <2>1 DEF Running
    <3>. QED BY <2>9, <3>1, <3>2, <3>3 DEF Exits
  <2>. QED BY <2>8, <2>10 DEF ServerMore
<1>9. CASE SrvClose
  <2> DEFINE msgs == <<M("CLOSE")>>
             s2 == [s EXCEPT !.stage = "closing"]
  <2>1. s.stage = "exited" /\ Serves(s2, msgs)
    BY <1>9 DEF SrvClose
  <2>2. msgs \in Seq(Messages)
    BY Plainly, One DEF Plain
  <2>3. s2 \in ServerState
    BY <1>0, ZenonT(30) DEF ServerState
  <2>4. /\ s2.held = s.held /\ s2.kex = s.kex /\ s2.room = s.room /\ s2.window = s.window
        /\ s2.got = s.got /\ s2.gotEof = s.gotEof /\ s2.sent = s.sent /\ s2.stage = "closing"
        /\ s2.fate = s.fate /\ s2.early = s.early
    BY <1>0 DEF ServerState
  <2> HIDE DEF s2, msgs
  <2>5. Adds(msgs) /\ s'.kex = s.kex /\ HeldRight' /\ SameServer(s', s2)
    BY <2>1, <2>2, <2>3, <2>4, Serves1
  <2>6. Shuts
    BY <2>1, <2>4, <2>5 DEF Shuts, SameServer, msgs
  <2>. QED BY <2>5, <2>6 DEF ServerMore
<1>10. CASE Vanish
  <2>1. PICK stuck \in BOOLEAN :
          /\ s' = [s EXCEPT !.gone = TRUE, !.stuck = stuck] /\ Alive
          /\ c' = c /\ up' = up /\ down' = down /\ typed' = typed /\ shown' = shown
    BY <1>10 DEF Vanish, Up
  <2>2. s'.held = s.held /\ s'.kex = s.kex /\ SameServer(s', s)
    BY <1>0, <2>1 DEF ServerState, SameServer
  <2>3. Coming' = Coming /\ Going' = Going
    BY <2>1, <2>2 DEF Coming, Going
  <2>4. Coming \o <<>> = Coming
    BY TalkTyped, ConcatEmptySeq
  <2>5. Adds(<<>>)
    BY <2>1, <2>3, <2>4, QuietMsgs DEF Adds, Speaks
  <2>6. Murmurs
    BY <2>2, <2>5, QuietMsgs DEF Murmurs, Serving, SameServer
  <2>. QED BY <2>2, <2>6 DEF ServerMore, HeldRight
<1>. QED
  BY <1>2, <1>4, <1>5, <1>6, <1>7, <1>8, <1>9, <1>10 DEF ServerSends

\* The whole of Next.
Talk == ClientSide \/ UserSide \/ ServerSide \/ ServerMore
LEMMA NextForms ==
  ASSUME Typed, TurnInv, Next
  PROVE  Talk /\ HeldRight'
<1>1. CASE Client \/ User
  <2>1. ClientSide \/ UserSide
    BY <1>1, HandshakeForms, PumpForms, UserForms DEF Client
  <2>2. s' = s
    <3>1. CASE ClientSide
      BY <3>1 DEF ClientSide, Chats, LogsIn, TakesTurn, EndsTurn, Asks, Confirmed, AsksOn, Runs,
         Notes, Drops, Widens, Shows, IsTold, Leaves, Dies, Hears
    <3>2. CASE UserSide
      BY <3>2 DEF UserSide, Remarks, TypesMore, Finishes, Says
    <3>. QED BY <2>1, <3>1, <3>2
  <2>. QED BY <2>1, <2>2 DEF Talk, TurnInv, HeldRight
<1>2. CASE ServerReceives
  BY <1>2, ReceivesForms DEF Talk
<1>3. CASE ServerSends \/ Vanish
  BY <1>3, SendsForms DEF Talk, TurnInv
<1>. QED BY <1>1, <1>2, <1>3 DEF Next

-----------------------------------------------------------------------------
(* Where a message is after a step.                                          *)

Shift(n) == IF n = 0 THEN 0 ELSE n - 1

LEMMA OnlyTail ==
  ASSUME NEW q \in Seq(Messages), q # <<>>, NEW T, NEW n, Only(q, T, n)
  PROVE  /\ Only(Tail(q), T, Shift(n)) /\ (Head(q)[1] \in T <=> n = 1)
         /\ n > 1 => Shift(n) > 0 /\ Tail(q)[Shift(n)] = q[n]
         /\ n \in Nat /\ Shift(n) \in Nat
<1>1. /\ Len(q) \in Nat /\ Len(q) >= 1 /\ Head(q) = q[1] /\ Tail(q) \in Seq(Messages)
      /\ Len(Tail(q)) = Len(q) - 1
      /\ \A i \in 1 .. Len(q) - 1 : Tail(q)[i] = q[i + 1]
  BY HeadTail
<1>2. n \in 0..Len(q) /\ \A i \in 1..Len(q) : q[i][1] \in T <=> i = n
  BY DEF Only
<1>3. Shift(n) \in 0..Len(Tail(q))
  BY <1>1, <1>2 DEF Shift
<1>4. ASSUME NEW i \in 1..Len(Tail(q))
      PROVE  Tail(q)[i][1] \in T <=> i = Shift(n)
  <2>1. i + 1 \in 1..Len(q) /\ Tail(q)[i] = q[i + 1]
    BY <1>1
  <2>2. i + 1 = n <=> i = Shift(n)
    BY <1>1, <1>2, <2>1 DEF Shift
  <2>3. q[i + 1][1] \in T <=> i + 1 = n
    BY <1>2, <2>1
  <2>. QED BY <2>1, <2>2, <2>3
<1>5. 1 \in 1..Len(q)
  BY <1>1
<1>6. n > 1 => Shift(n) > 0 /\ Tail(q)[Shift(n)] = q[n]
  BY <1>1, <1>2 DEF Shift
<1>7. Only(Tail(q), T, Shift(n))
  BY <1>3, <1>4 DEF Only
<1>8. Head(q)[1] \in T <=> n = 1
  BY <1>1, <1>2, <1>5
<1>9. n \in Nat /\ Shift(n) \in Nat
  BY <1>1, <1>2 DEF Shift
<1>. QED BY <1>6, <1>7, <1>8, <1>9

LEMMA OnlyJoined ==
  ASSUME NEW q \in Seq(Messages), NEW r \in Seq(Messages), NEW T, NEW n, NEW k,
         Only(q, T, n), Only(r, T, k), n = 0 \/ k = 0
  PROVE  /\ k = 0 => Only(q \o r, T, n)
         /\ k > 0 => Only(q \o r, T, Len(q) + k) /\ (q \o r)[Len(q) + k] = r[k]
         /\ n > 0 => (q \o r)[n] = q[n]
         /\ Len(q) \in Nat /\ n \in Nat /\ k \in Nat /\ n <= Len(q)
<1> DEFINE x == q \o r
           m == IF k > 0 THEN Len(q) + k ELSE n
<1>1. /\ Len(q) \in Nat /\ Len(r) \in Nat /\ Len(x) = Len(q) + Len(r)
      /\ \A i \in 1..Len(q) : x[i] = q[i]
      /\ \A i \in Len(q) + 1 .. Len(q) + Len(r) : x[i] = r[i - Len(q)]
  BY Joined
<1> HIDE DEF x
<1>2. /\ n \in 0..Len(q) /\ \A i \in 1..Len(q) : q[i][1] \in T <=> i = n
      /\ k \in 0..Len(r) /\ \A i \in 1..Len(r) : r[i][1] \in T <=> i = k
  BY DEF Only
<1>3. m \in 0..Len(x) /\ (k = 0 => m = n) /\ (k > 0 => m = Len(q) + k)
  BY <1>1, <1>2
<1>4. ASSUME NEW i \in 1..Len(x)
      PROVE  x[i][1] \in T <=> i = m
  <2>1. CASE i <= Len(q)
    <3>1. i \in 1..Len(q) /\ x[i] = q[i]
      BY <1>1, <2>1
    <3>2. i = m <=> i = n
      BY <1>1, <1>2, <3>1
    <3>. QED BY <1>2, <3>1, <3>2
  <2>2. CASE i > Len(q)
    <3>1. i \in Len(q) + 1 .. Len(q) + Len(r) /\ i - Len(q) \in 1..Len(r)
      BY <1>1, <2>2
    <3>2. x[i] = r[i - Len(q)]
      BY <1>1, <3>1
    <3>3. i = m <=> i - Len(q) = k
      BY <1>1, <1>2, <3>1
    <3>4. r[i - Len(q)][1] \in T <=> i - Len(q) = k
      BY <1>2, <3>1
    <3>. QED BY <3>2, <3>3, <3>4
  <2>. QED BY <1>1, <2>1, <2>2
<1>5. n > 0 => x[n] = q[n]
  BY <1>1, <1>2
<1>6. ASSUME k > 0 PROVE x[Len(q) + k] = r[k]
  <2>1. Len(q) + k \in Len(q) + 1 .. Len(q) + Len(r) /\ (Len(q) + k) - Len(q) = k
    BY <1>1, <1>2, <1>6
  <2>. QED BY <1>1, <2>1
<1>7. Only(x, T, m)
  BY <1>3, <1>4 DEF Only
<1>8. k \in Nat /\ n \in Nat /\ n <= Len(q)
  BY <1>1, <1>2
<1> HIDE DEF m
<1>9. (k = 0 => Only(x, T, n)) /\ (k > 0 => Only(x, T, Len(q) + k))
  BY <1>3, <1>7
<1>. QED BY <1>1, <1>5, <1>6, <1>8, <1>9 DEF x

LEMMA OnlyNext ==
  ASSUME NEW q \in Seq(Messages), NEW r \in Seq(Messages), NEW T,
         Only(q, T, 0), Only(r, T, 1)
  PROVE  Only(q \o r, T, Len(q) + 1) /\ (q \o r)[Len(q) + 1] = r[1]
<1>1. 1 > 0
  OBVIOUS
<1>. QED BY <1>1, OnlyJoined

LEMMA OnlyHere ==
  /\ \A T : Only(<<>>, T, 0)
  /\ \A m, T : m[1] \in T => Only(<<m>>, T, 1)
  /\ \A m, T : m[1] \notin T => Only(<<m>>, T, 0)
  /\ \A msgs \in Seq(Messages) : \A S, T : AllOf(msgs, S) /\ S \cap T = {} => Only(msgs, T, 0)
<1>1. \A m : Len(<<m>>) = 1 /\ <<m>>[1] = m
  OBVIOUS
<1>2. \A T : Only(<<>>, T, 0)
  BY DEF Only
<1>3. \A m, T : m[1] \in T => Only(<<m>>, T, 1)
  BY <1>1 DEF Only
<1>4. \A m, T : m[1] \notin T => Only(<<m>>, T, 0)
  BY <1>1 DEF Only
<1>5. ASSUME NEW msgs \in Seq(Messages), NEW S, NEW T, AllOf(msgs, S), S \cap T = {}
      PROVE  Only(msgs, T, 0)
  <2>1. Len(msgs) \in Nat
    OBVIOUS
  <2>2. \A i \in 1..Len(msgs) : msgs[i][1] \notin T
    BY <1>5 DEF AllOf
  <2>. QED BY <2>1, <2>2 DEF Only
<1>. QED BY <1>2, <1>3, <1>4, <1>5

\* The server's part in a key exchange is put before what it held back.
Place(i, n) == IF i <= n THEN i ELSE i + 2
Insert(q, x, y, h) == (q \o <<x, y>>) \o h
Between(k, old, x, y, new) ==
  /\ k \in Nat /\ Len(old) \in Nat /\ k <= Len(old) /\ Len(new) = Len(old) + 2
  /\ new[k + 1] = x /\ new[k + 2] = y
  /\ \A i \in 1..Len(old) : new[Place(i, k)] = old[i]
  /\ \A j \in 1..Len(new) :
        j = k + 1 \/ j = k + 2 \/ \E i \in 1..Len(old) : j = Place(i, k) /\ new[j] = old[i]
LEMMA Inserted ==
  ASSUME NEW q \in Seq(Messages), NEW h \in Seq(Messages), NEW x \in Messages, NEW y \in Messages
  PROVE  /\ Between(Len(q), q \o h, x, y, Insert(q, x, y, h))
         /\ Insert(q, x, y, h) \in Seq(Messages)
<1> DEFINE old == q \o h
           new == Insert(q, x, y, h)
<1>0. /\ <<x, y>> \in Seq(Messages) /\ Len(<<x, y>>) = 2
      /\ <<x, y>>[1] = x /\ <<x, y>>[2] = y
  OBVIOUS
<1>1. PICK two : two = <<x, y>> /\ two \in Seq(Messages) /\ Len(two) = 2 /\ two[1] = x /\ two[2] = y
  BY <1>0
<1> DEFINE p == q \o two
<1>2. /\ p \in Seq(Messages) /\ Len(q) \in Nat /\ Len(p) = Len(q) + 2
      /\ \A i \in 1..Len(q) : p[i] = q[i]
      /\ \A i \in Len(q) + 1 .. Len(q) + 2 : p[i] = two[i - Len(q)]
  BY <1>1, Joined
<1>a. new = p \o h
  BY <1>1 DEF Insert
<1> HIDE DEF p, new
<1>3. /\ Len(new) = Len(p) + Len(h) /\ Len(h) \in Nat /\ new \in Seq(Messages)
      /\ \A i \in 1..Len(p) : new[i] = p[i]
      /\ \A i \in Len(p) + 1 .. Len(p) + Len(h) : new[i] = h[i - Len(p)]
  <2>1. /\ Len(p \o h) = Len(p) + Len(h) /\ Len(h) \in Nat /\ p \o h \in Seq(Messages)
        /\ \A i \in 1..Len(p) : (p \o h)[i] = p[i]
        /\ \A i \in Len(p) + 1 .. Len(p) + Len(h) : (p \o h)[i] = h[i - Len(p)]
    <3>1. p \in Seq(Messages) /\ h \in Seq(Messages)
      BY <1>2
    <3>. QED BY ONLY <3>1, Joined
  <2>. QED BY <1>a, <2>1
<1>4. /\ Len(old) = Len(q) + Len(h)
      /\ \A i \in 1..Len(q) : old[i] = q[i]
      /\ \A i \in Len(q) + 1 .. Len(q) + Len(h) : old[i] = h[i - Len(q)]
  BY Joined
<1> HIDE DEF old
<1>5. new[Len(q) + 1] = x /\ new[Len(q) + 2] = y
  <2>1. /\ Len(q) + 1 \in 1..Len(p) /\ Len(q) + 2 \in 1..Len(p)
        /\ Len(q) + 1 \in Len(q) + 1 .. Len(q) + 2
        /\ Len(q) + 2 \in Len(q) + 1 .. Len(q) + 2
        /\ (Len(q) + 1) - Len(q) = 1 /\ (Len(q) + 2) - Len(q) = 2
    BY <1>2
  <2>2. p[Len(q) + 1] = two[1] /\ p[Len(q) + 2] = two[2]
    BY <1>2, <2>1
  <2>. QED BY <1>1, <1>3, <2>1, <2>2
<1>6. ASSUME NEW i \in 1..Len(old)
      PROVE  new[Place(i, Len(q))] = old[i]
  <2>1. CASE i <= Len(q)
    <3>1. i \in 1..Len(q) /\ i \in 1..Len(p) /\ Place(i, Len(q)) = i
      BY <1>2, <2>1 DEF Place
    <3>. QED BY <1>2, <1>3, <1>4, <3>1
  <2>2. CASE i > Len(q)
    <3>1. /\ i \in Len(q) + 1 .. Len(q) + Len(h) /\ i + 2 \in Len(p) + 1 .. Len(p) + Len(h)
          /\ (i + 2) - Len(p) = i - Len(q) /\ Place(i, Len(q)) = i + 2
      BY <1>2, <1>3, <1>4, <2>2 DEF Place
    <3>2. new[i + 2] = h[(i + 2) - Len(p)] /\ old[i] = h[i - Len(q)]
      BY <1>3, <1>4, <3>1
    <3>. QED BY <3>1, <3>2
  <2>3. i <= Len(q) \/ i > Len(q)
    BY <1>2, <1>3, <1>4
  <2>. QED BY ONLY <2>1, <2>2, <2>3
<1>7. ASSUME NEW j \in 1..Len(new), j # Len(q) + 1, j # Len(q) + 2
      PROVE  \E i \in 1..Len(old) : j = Place(i, Len(q)) /\ new[j] = old[i]
  <2>1. CASE j <= Len(q)
    <3>1. j \in 1..Len(old) /\ j = Place(j, Len(q))
      BY <1>2, <1>3, <1>4, <2>1 DEF Place
    <3>. QED BY <1>6, <3>1
  <2>2. CASE j > Len(q) + 2
    <3>1. j - 2 \in 1..Len(old) /\ j = Place(j - 2, Len(q))
      BY <1>2, <1>3, <1>4, <2>2 DEF Place
    <3>2. new[Place(j - 2, Len(q))] = old[j - 2]
      BY <1>6, <3>1
    <3>. QED BY ONLY <3>1, <3>2
  <2>3. j <= Len(q) \/ j > Len(q) + 2
    BY <1>2, <1>3, <1>7
  <2>. QED BY ONLY <2>1, <2>2, <2>3
<1>8. Len(new) = Len(old) + 2 /\ Len(q) <= Len(old) /\ Len(old) \in Nat
  BY <1>2, <1>3, <1>4
<1>. QED BY <1>2, <1>3, <1>5, <1>6, <1>7, <1>8 DEF old, new, Between

LEMMA OnlyInserted ==
  ASSUME NEW q \in Seq(Messages), NEW h \in Seq(Messages), NEW x \in Messages, NEW y \in Messages,
         NEW T, NEW n, Only(q \o h, T, n), y[1] \notin T, x[1] \in T => n = 0
  PROVE  LET new == Insert(q, x, y, h)
         IN  /\ x[1] \in T => Only(new, T, Len(q) + 1)
             /\ x[1] \notin T => Only(new, T, Place(n, Len(q)))
             /\ new[Len(q) + 1] = x
             /\ n > 0 => new[Place(n, Len(q))] = (q \o h)[n]
             /\ n \in Nat /\ Len(q) \in Nat
<1> DEFINE old == q \o h
           new == Insert(q, x, y, h)
           m == IF x[1] \in T THEN Len(q) + 1 ELSE Place(n, Len(q))
<1>1. /\ Len(q) \in Nat /\ Len(old) \in Nat /\ Len(q) <= Len(old) /\ Len(new) = Len(old) + 2
      /\ new[Len(q) + 1] = x /\ new[Len(q) + 2] = y
      /\ \A i \in 1..Len(old) : new[Place(i, Len(q))] = old[i]
      /\ \A j \in 1..Len(new) :
            \/ j = Len(q) + 1 \/ j = Len(q) + 2
            \/ \E i \in 1..Len(old) : j = Place(i, Len(q)) /\ new[j] = old[i]
  <2>1. Between(Len(q), old, x, y, new)
    BY Inserted
  <2> HIDE DEF old, new
  <2>. QED BY <2>1 DEF Between
<1>0. Only(old, T, n)
  OBVIOUS
<1> HIDE DEF old, new
<1>2. n \in 0..Len(old) /\ \A i \in 1..Len(old) : old[i][1] \in T <=> i = n
  BY <1>0 DEF Only
<1>3. m \in 0..Len(new)
  BY ONLY <1>1, <1>2 DEF Place
<1>4. ASSUME NEW j \in 1..Len(new)
      PROVE  new[j][1] \in T <=> j = m
  <2>1. CASE j = Len(q) + 1
    <3>1. Place(n, Len(q)) # Len(q) + 1
      BY ONLY <1>1, <1>2 DEF Place
    <3>. QED BY <1>1, <2>1, <3>1
  <2>2. CASE j = Len(q) + 2
    <3>1. Place(n, Len(q)) # Len(q) + 2 /\ Len(q) + 1 # Len(q) + 2
      BY ONLY <1>1, <1>2 DEF Place
    <3>. QED BY <1>1, <2>2, <3>1
  <2>3. ASSUME NEW i \in 1..Len(old), j = Place(i, Len(q)), new[j] = old[i]
        PROVE  new[j][1] \in T <=> j = m
    <3>1. (Place(i, Len(q)) = Place(n, Len(q)) <=> i = n) /\ Place(i, Len(q)) # Len(q) + 1
      BY ONLY <1>1, <1>2, <2>3 DEF Place
    <3>2. old[i][1] \in T <=> i = n
      BY <1>2
    <3>3. i # 0
      BY <1>1
    <3>. QED BY <2>3, <3>1, <3>2, <3>3
  <2>. QED BY <1>1, <2>1, <2>2, <2>3
<1>5. Only(new, T, m)
  BY <1>3, <1>4 DEF Only
<1>6. ASSUME n > 0 PROVE new[Place(n, Len(q))] = old[n]
  <2>1. n \in 1..Len(old)
    BY <1>1, <1>2, <1>6
  <2>. QED BY <1>1, <2>1
<1>7. n \in Nat
  BY <1>1, <1>2
<1>. QED BY <1>1, <1>5, <1>6, <1>7 DEF old, new

LEMMA OnlyFewer ==
  ASSUME NEW q \in Seq(Messages), NEW T, Only(q, T, 0), NEW U, U \subseteq T
  PROVE  Only(q, U, 0)
BY DEF Only

-----------------------------------------------------------------------------
(* A key exchange goes on unless its next word is said.                      *)

LEMMA TurnGoing ==
  ASSUME NEW a \in Seq(Messages), NEW b \in Seq(Messages), NEW kex, NEW g, NEW n,
         TurnOf(kex, a, b, g, n)
  PROVE  /\ \A msgs \in Seq(Messages) : Only(msgs, Turns, 0) => TurnOf(kex, a \o msgs, b, g, n)
         /\ a # <<>> /\ Head(a)[1] \notin Turns => TurnOf(kex, Tail(a), b, Shift(g), n)
<1>1. Only(a, Turns, g)
  BY DEF TurnOf
<1>2. ASSUME NEW msgs \in Seq(Messages), Only(msgs, Turns, 0)
      PROVE  TurnOf(kex, a \o msgs, b, g, n)
  <2>1. Only(a \o msgs, Turns, g) /\ (g > 0 => (a \o msgs)[g] = a[g])
    BY <1>1, <1>2, OnlyJoined
  <2>. QED BY <2>1 DEF TurnOf
<1>3. ASSUME a # <<>>, Head(a)[1] \notin Turns
      PROVE  TurnOf(kex, Tail(a), b, Shift(g), n)
  <2>1. /\ Only(Tail(a), Turns, Shift(g)) /\ g # 1 /\ g \in Nat
        /\ g > 1 => Shift(g) > 0 /\ Tail(a)[Shift(g)] = a[g]
    BY <1>1, <1>3, OnlyTail
  <2>2. CASE g = 0
    BY <2>1, <2>2 DEF TurnOf, Shift
  <2>3. CASE g > 1
    <3>1. Shift(g) > 0 /\ Tail(a)[Shift(g)] = a[g]
      BY <2>1, <2>3
    <3>2. g > 0 /\ g # 0 /\ Shift(g) # 0
      BY <2>1, <2>3, <3>1
    <3>. QED BY <2>1, <3>1, <3>2 DEF TurnOf
  <2>. QED BY <2>1, <2>2, <2>3
<1>. QED BY <1>2, <1>3

LEMMA TurnComing ==
  ASSUME NEW a \in Seq(Messages), NEW b \in Seq(Messages), NEW kex, NEW g, NEW n,
         TurnOf(kex, a, b, g, n)
  PROVE  /\ \A msgs \in Seq(Messages) : Only(msgs, ServerTurns, 0) => TurnOf(kex, a, b \o msgs, g, n)
         /\ b # <<>> /\ Head(b)[1] \notin ServerTurns => TurnOf(kex, a, Tail(b), g, Shift(n))
<1>1. Only(b, ServerTurns, n)
  BY DEF TurnOf
<1>2. ASSUME NEW msgs \in Seq(Messages), Only(msgs, ServerTurns, 0)
      PROVE  TurnOf(kex, a, b \o msgs, g, n)
  <2>1. Only(b \o msgs, ServerTurns, n) /\ (n > 0 => (b \o msgs)[n] = b[n])
    BY <1>1, <1>2, OnlyJoined
  <2>. QED BY <2>1 DEF TurnOf
<1>3. ASSUME b # <<>>, Head(b)[1] \notin ServerTurns
      PROVE  TurnOf(kex, a, Tail(b), g, Shift(n))
  <2>1. /\ Only(Tail(b), ServerTurns, Shift(n)) /\ n # 1 /\ n \in Nat
        /\ n > 1 => Shift(n) > 0 /\ Tail(b)[Shift(n)] = b[n]
    BY <1>1, <1>3, OnlyTail
  <2>2. CASE n = 0
    BY <2>1, <2>2 DEF TurnOf, Shift
  <2>3. CASE n > 1
    <3>1. Shift(n) > 0 /\ Tail(b)[Shift(n)] = b[n]
      BY <2>1, <2>3
    <3>2. n > 0 /\ n # 0 /\ Shift(n) # 0
      BY <2>1, <2>3, <3>1
    <3>. QED BY <2>1, <3>1, <3>2 DEF TurnOf
  <2>. QED BY <2>1, <2>2, <2>3
<1>. QED BY <1>2, <1>3

\* Each side says its next word.
LEMMA TurnTaken ==
  ASSUME NEW a \in Seq(Messages), NEW b \in Seq(Messages), NEW kex, NEW g, NEW n, b # <<>>,
         TurnOf(kex, a, b, g, n), kex \in {"init", "keys", "idle"}, Head(b)[1] = "KEXINIT",
         NEW msgs, msgs \in {<<M("ECDH_INIT")>>, <<M("KEXINIT"), M("ECDH_INIT")>>}
  PROVE  kex = "init" /\ \E k : TurnOf("init", a \o msgs, Tail(b), k, 0)
<1>1. Only(a, Turns, g) /\ Only(b, ServerTurns, n) /\ Head(b) = b[1]
  BY DEF TurnOf
<1>2. Only(Tail(b), ServerTurns, 0) /\ g = 0 /\ kex = "init"
  <2>1. n = 1 /\ Only(Tail(b), ServerTurns, Shift(n))
    BY <1>1, OnlyTail DEF ServerTurns
  <2>. QED BY <1>1, <2>1 DEF Shift, TurnOf
<1>3. PICK i \in 1..2 : Only(msgs, Turns, i) /\ msgs[i][1] = "ECDH_INIT" /\ msgs \in Seq(Messages)
  <2>1. /\ M("KEXINIT") \in Messages /\ M("ECDH_INIT") \in Messages
        /\ M("KEXINIT")[1] = "KEXINIT" /\ M("ECDH_INIT")[1] = "ECDH_INIT"
    BY Plainly DEF Plain, M, Msg
  <2>2. CASE msgs = <<M("ECDH_INIT")>>
    <3>1. Len(msgs) = 1 /\ msgs[1] = M("ECDH_INIT") /\ msgs \in Seq(Messages)
      BY <2>1, <2>2
    <3>. QED BY <2>1, <3>1 DEF Only, Turns
  <2>3. CASE msgs = <<M("KEXINIT"), M("ECDH_INIT")>>
    <3>1. /\ Len(msgs) = 2 /\ msgs[1] = M("KEXINIT") /\ msgs[2] = M("ECDH_INIT")
          /\ msgs \in Seq(Messages)
      BY <2>1, <2>3
    <3>. QED BY <2>1, <3>1 DEF Only, Turns
  <2>. QED BY <2>2, <2>3
<1>4. /\ Only(a \o msgs, Turns, Len(a) + i) /\ (a \o msgs)[Len(a) + i] = msgs[i]
      /\ Len(a) + i > 0
  <2>1. Len(a) \in Nat /\ i > 0
    OBVIOUS
  <2>. QED BY <1>1, <1>2, <1>3, <2>1, OnlyJoined
<1>5. TurnOf("init", a \o msgs, Tail(b), Len(a) + i, 0)
  BY <1>2, <1>3, <1>4 DEF TurnOf
<1>. QED BY <1>2, <1>5

LEMMA TurnEnded ==
  ASSUME NEW a \in Seq(Messages), NEW b \in Seq(Messages), NEW kex, NEW g, NEW n, b # <<>>,
         TurnOf(kex, a, b, g, n), kex \in {"init", "keys", "idle"}, Head(b)[1] = "ECDH_REPLY"
  PROVE  kex = "keys" /\ \E k : TurnOf("keys", a \o <<M("NEWKEYS")>>, Tail(b), k, 0)
<1> DEFINE msgs == <<M("NEWKEYS")>>
<1>1. Only(a, Turns, g) /\ Only(b, ServerTurns, n) /\ Head(b) = b[1]
  BY DEF TurnOf
<1>2. Only(Tail(b), ServerTurns, 0) /\ g = 0 /\ kex = "keys"
  <2>1. n = 1 /\ Only(Tail(b), ServerTurns, Shift(n))
    BY <1>1, OnlyTail DEF ServerTurns
  <2>. QED BY <1>1, <2>1 DEF Shift, TurnOf
<1>3. msgs \in Seq(Messages) /\ Only(msgs, Turns, 1) /\ msgs[1][1] = "NEWKEYS"
  <2>1. M("NEWKEYS") \in Messages /\ M("NEWKEYS")[1] = "NEWKEYS"
    BY Plainly DEF Plain, M, Msg
  <2>2. Only(msgs, Turns, 1)
    BY <2>1, OnlyHere DEF Turns
  <2>. QED BY <2>1, <2>2
<1> HIDE DEF msgs
<1>4. /\ Only(a \o msgs, Turns, Len(a) + 1) /\ (a \o msgs)[Len(a) + 1] = msgs[1]
      /\ Len(a) + 1 > 0
  <2>1. Len(a) \in Nat
    OBVIOUS
  <2>. QED BY <1>1, <1>2, <1>3, <2>1, OnlyJoined
<1>5. TurnOf("keys", a \o msgs, Tail(b), Len(a) + 1, 0)
  BY <1>2, <1>3, <1>4 DEF TurnOf
<1>. QED BY <1>2, <1>5 DEF msgs

LEMMA TurnMet ==
  ASSUME NEW a \in Seq(Messages), NEW q \in Seq(Messages), NEW h \in Seq(Messages),
         NEW kex, NEW g, NEW n, a # <<>>, Head(a)[1] = "ECDH_INIT",
         kex \in {"init", "keys", "idle"}, TurnOf(kex, a, q \o h, g, n)
  PROVE  \E k : TurnOf("keys", Tail(a), Insert(q, M("ECDH_REPLY"), M("NEWKEYS"), h), 0, k)
<1>1. Only(a, Turns, g) /\ Only(q \o h, ServerTurns, n) /\ Head(a) = a[1]
  BY DEF TurnOf
<1>2. Only(Tail(a), Turns, 0) /\ n = 0
  <2>1. g = 1 /\ Only(Tail(a), Turns, Shift(g))
    BY <1>1, OnlyTail DEF Turns
  <2>. QED BY <1>1, <2>1 DEF Shift, TurnOf
<1>3. /\ M("ECDH_REPLY") \in Messages /\ M("NEWKEYS") \in Messages
      /\ M("ECDH_REPLY")[1] = "ECDH_REPLY" /\ M("NEWKEYS")[1] = "NEWKEYS"
      /\ "ECDH_REPLY" \in ServerTurns /\ "NEWKEYS" \notin ServerTurns
  BY Plainly DEF Plain, M, Msg, ServerTurns
<1>4. PICK new : new = Insert(q, M("ECDH_REPLY"), M("NEWKEYS"), h)
  OBVIOUS
<1>5. Only(new, ServerTurns, Len(q) + 1) /\ new[Len(q) + 1] = M("ECDH_REPLY") /\ Len(q) \in Nat
  BY <1>1, <1>2, <1>3, <1>4, OnlyInserted
<1>6. TurnOf("keys", Tail(a), new, 0, Len(q) + 1)
  BY <1>2, <1>3, <1>5 DEF TurnOf
<1>. QED BY <1>4, <1>6

LEMMA TurnSwitched ==
  ASSUME NEW a \in Seq(Messages), NEW b \in Seq(Messages), NEW kex, NEW g, NEW n, a # <<>>,
         Head(a)[1] = "NEWKEYS", kex \in {"init", "keys", "idle"}, TurnOf(kex, a, b, g, n)
  PROVE  TurnOf("idle", Tail(a), b, 0, 0)
<1>1. Only(a, Turns, g) /\ Only(b, ServerTurns, n) /\ Head(a) = a[1]
  BY DEF TurnOf
<1>2. g = 1 /\ Only(Tail(a), Turns, Shift(g))
  BY <1>1, OnlyTail DEF Turns
<1>3. n = 0
  BY <1>1, <1>2 DEF TurnOf
<1>. QED BY <1>1, <1>2, <1>3 DEF Shift, TurnOf

LEMMA TurnBegun ==
  ASSUME NEW a \in Seq(Messages), NEW b \in Seq(Messages), NEW g, NEW n, TurnOf("idle", a, b, g, n)
  PROVE  \E k : TurnOf("init", a, b \o <<M("KEXINIT")>>, 0, k)
<1> DEFINE msgs == <<M("KEXINIT")>>
<1>1. Only(a, Turns, 0) /\ Only(b, ServerTurns, 0)
  BY DEF TurnOf
<1>2. msgs \in Seq(Messages) /\ Only(msgs, ServerTurns, 1) /\ msgs[1][1] = "KEXINIT"
  <2>1. M("KEXINIT") \in Messages /\ M("KEXINIT")[1] = "KEXINIT"
    BY Plainly DEF Plain, M, Msg
  <2>2. Only(msgs, ServerTurns, 1)
    BY <2>1, OnlyHere DEF ServerTurns
  <2>. QED BY <2>1, <2>2
<1> HIDE DEF msgs
<1>3. /\ Only(b \o msgs, ServerTurns, Len(b) + 1) /\ (b \o msgs)[Len(b) + 1] = msgs[1]
      /\ Len(b) + 1 > 0
  <2>1. Len(b) \in Nat
    OBVIOUS
  <2>. QED BY <1>1, <1>2, <2>1, OnlyJoined
<1>4. TurnOf("init", a, b \o msgs, 0, Len(b) + 1)
  BY <1>1, <1>2, <1>3 DEF TurnOf
<1>. QED BY <1>4 DEF msgs

\* What the messages that are said are not about.
LEMMA Spoken ==
  ASSUME NEW T
  PROVE  /\ Only(<<>>, T, 0)
         /\ \A t : t \notin T => Only(<<M(t)>>, T, 0) /\ \A v : Only(<<Msg(t, v)>>, T, 0)
         /\ \A t \in T : Only(<<M(t)>>, T, 1) /\ \A v : Only(<<Msg(t, v)>>, T, 1)
         /\ "EXIT" \notin T => \A f : Only(Exit(f), T, 0)
         /\ \A p \in Seq(Messages), q \in Seq(Messages) :
               Only(p, T, 0) /\ Only(q, T, 0) => Only(p \o q, T, 0)
<1>1. \A t : M(t)[1] = t /\ \A v : Msg(t, v)[1] = t
  BY DEF M, Msg
<1>2. \A p \in Seq(Messages), q \in Seq(Messages) :
         Only(p, T, 0) /\ Only(q, T, 0) => Only(p \o q, T, 0)
  BY OnlyJoined
<1>3. \A t : t \notin T => Only(<<M(t)>>, T, 0) /\ \A v : Only(<<Msg(t, v)>>, T, 0)
  BY <1>1, OnlyHere
<1>4. "EXIT" \notin T => \A f : Only(Exit(f), T, 0)
  BY <1>3, OnlyHere DEF Exit
<1>5. \A t \in T : Only(<<M(t)>>, T, 1) /\ \A v : Only(<<Msg(t, v)>>, T, 1)
  BY <1>1, OnlyHere
<1>. QED BY <1>2, <1>3, <1>4, <1>5, OnlyHere

LEMMA ChunksSpoken ==
  ASSUME Typed, NEW q \in Seq(Nat), NEW w \in Nat, NEW T, "DATA" \notin T
  PROVE  Chunks(q, w) \in Seq(Messages) /\ Only(Chunks(q, w), T, 0)
<1>1. c.maxpkt \in Nat \ {0}
  BY DEF Typed, ClientState
<1>2. PICK k : /\ Chunks(q, w) \in Seq(Messages) /\ Len(Chunks(q, w)) = k
               /\ \A i \in 1..k : Chunks(q, w)[i][1] = "DATA"
  <2> DEFINE f == Fits(q, w)
             k == (f + c.maxpkt - 1) \div c.maxpkt
  <2>1. Chunks(q, w) \in Seq(Messages) /\ Len(Chunks(q, w)) = k
    BY <1>1, ChunksAre
  <2>2. \A i \in 1..k : Chunks(q, w)[i][1] = "DATA"
    BY <1>1, ChunksAre
  <2> HIDE DEF k
  <2>. QED BY <2>1, <2>2
<1>3. AllOf(Chunks(q, w), {"DATA"})
  BY <1>2 DEF AllOf
<1>. QED BY <1>2, <1>3, OnlyHere

\* The input that a grown window lets go, and the end of it.
LEMMA WidensSays ==
  ASSUME Typed, NEW n \in Nat, NEW T, "DATA" \notin T, "EOF" \notin T, NEW ends
  PROVE  Only(Chunks(c.outq, AddWindow(n)) \o (IF ends THEN <<M("EOF")>> ELSE <<>>), T, 0)
<1>1. AddWindow(n) \in Nat /\ c.outq \in Seq(Nat)
  BY AddWindowIs DEF Typed, ClientState
<1>2. /\ Chunks(c.outq, AddWindow(n)) \in Seq(Messages)
      /\ Only(Chunks(c.outq, AddWindow(n)), T, 0)
  BY <1>1, ChunksSpoken
<1>3. <<M("EOF")>> \in Seq(Messages) /\ <<>> \in Seq(Messages)
  BY Plainly, One DEF Plain
<1>4. Only(<<M("EOF")>>, T, 0) /\ Only(<<>>, T, 0)
  BY Spoken
<1>. QED BY <1>2, <1>3, <1>4, Spoken

LEMMA StartsSays ==
  ASSUME NEW w \in Windows, NEW f \in EarlyFates \cup {<<>>}, NEW T, "ADJUST" \notin T, "EXIT" \notin T
  PROVE  LET msgs == <<Msg("ADJUST", w)>> \o Exit(f)
         IN  /\ msgs \in Seq(Messages) /\ Only(msgs, T, 0)
             /\ "SUCCESS" \notin T => Only(msgs \o <<M("SUCCESS")>>, T, 0)
<1>1. /\ <<Msg("ADJUST", w)>> \in Seq(Messages) /\ Only(<<Msg("ADJUST", w)>>, T, 0)
      /\ Exit(f) \in Seq(Messages) /\ Only(Exit(f), T, 0)
  <2>1. w \in Nat
    BY ChannelAssumption
  <2>2. Exit(f) \in Seq(Messages)
    BY Plainly, One DEF Exit, AllFates
  <2>. QED BY <2>1, <2>2, Plainly, One, Spoken
<1> DEFINE msgs == <<Msg("ADJUST", w)>> \o Exit(f)
<1>2. msgs \in Seq(Messages) /\ Only(msgs, T, 0)
  BY <1>1, Joined, Spoken
<1>3. <<M("SUCCESS")>> \in Seq(Messages)
  BY Plainly, One DEF Plain
<1> HIDE DEF msgs
<1>4. "SUCCESS" \notin T => Only(msgs \o <<M("SUCCESS")>>, T, 0)
  BY <1>2, <1>3, Spoken
<1>. QED BY <1>2, <1>4 DEF msgs

LEMMA TurnNext ==
  ASSUME Typed, TurnInv, Talk, HeldRight'
  PROVE  TurnInv'
<1>1. Alive /\ s.kex \in {"init", "keys", "idle"}
  BY DEF Typed, ServerState, Talk, ClientSide, UserSide, ServerSide, ServerMore, Chats, LogsIn,
     TakesTurn, EndsTurn, Asks, Confirmed, AsksOn, Runs, Notes, Drops, Widens, Shows, IsTold, Leaves,
     Dies, Hears, Remarks, TypesMore, Finishes, Says, Obliges, Responds, Confirms, Starts, Reads,
     ReadsEnd, IsRepaid, Exchanges, Switches, Reacts, Murmurs, Renews, Grants, Writes, Exits, Shuts,
     Adds, Speaks
<1>2. PICK g, n : TurnOf(s.kex, Going, Coming, g, n)
  BY <1>1 DEF TurnInv, Turn
<1>3. Going \in Seq(Messages) /\ Coming \in Seq(Messages)
  BY TalkTyped
<1>4. ASSUME NEW i, NEW j, TurnOf(s'.kex, Going', Coming', i, j)
      PROVE  TurnInv'
  BY <1>4 DEF TurnInv, Turn, TurnOf, Only
<1>5. ASSUME NEW msgs, Hears(msgs), Only(msgs, Turns, 0), Heard[1] \notin ServerTurns
      PROVE  TurnInv'
  <2>1. TurnOf(s.kex, Going, Tail(Coming), g, Shift(n)) /\ Tail(Coming) \in Seq(Messages)
    BY <1>2, <1>3, <1>5, TurnComing DEF Hears, Heard
  <2>2. TurnOf(s.kex, Going \o msgs, Tail(Coming), g, Shift(n))
    BY <1>3, <1>5, <2>1, TurnGoing DEF Hears
  <2>. QED BY <1>4, <1>5, <2>2 DEF Hears
<1>6. ASSUME NEW msgs, Says(msgs), Only(msgs, Turns, 0)
      PROVE  TurnInv'
  <2>1. TurnOf(s.kex, Going \o msgs, Coming, g, n)
    BY <1>2, <1>3, <1>6, TurnGoing DEF Says
  <2>. QED BY <1>4, <1>6, <2>1 DEF Says
<1>7. ASSUME NEW t, NEW msgs, Reacts(t, msgs), t \notin Turns, Only(msgs, ServerTurns, 0), s'.kex = s.kex
      PROVE  TurnInv'
  <2>1. TurnOf(s.kex, Tail(Going), Coming, Shift(g), n) /\ Tail(Going) \in Seq(Messages)
    BY <1>2, <1>3, <1>7, TurnGoing DEF Reacts, Asked
  <2>2. TurnOf(s.kex, Tail(Going), Coming \o msgs, Shift(g), n)
    BY <1>3, <1>7, <2>1, TurnComing DEF Reacts, Speaks
  <2>. QED BY <1>4, <1>7, <2>2 DEF Reacts, Speaks
<1>8. ASSUME NEW msgs, Adds(msgs), Only(msgs, ServerTurns, 0), s'.kex = s.kex
      PROVE  TurnInv'
  <2>1. TurnOf(s.kex, Going, Coming \o msgs, g, n)
    BY <1>2, <1>3, <1>8, TurnComing DEF Adds, Speaks
  <2>. QED BY <1>4, <1>8, <2>1 DEF Adds, Speaks
<1>9. ASSUME NEW msgs \in Seq(Messages), AllOf(msgs, Quiet)
      PROVE  Only(msgs, Turns, 0) /\ Only(msgs, ServerTurns, 0)
  <2>1. Quiet \cap Turns = {} /\ Quiet \cap ServerTurns = {}
    BY DEF Quiet
  <2>. QED BY <1>9, <2>1, OnlyHere
<1>10. \A t : t \notin Turns => Only(<<M(t)>>, Turns, 0) /\ \A v : Only(<<Msg(t, v)>>, Turns, 0)
  BY Spoken
<1>11. \A t : t \notin ServerTurns =>
                 Only(<<M(t)>>, ServerTurns, 0) /\ \A v : Only(<<Msg(t, v)>>, ServerTurns, 0)
  BY Spoken
<1>12. Only(<<>>, Turns, 0) /\ Only(<<>>, ServerTurns, 0)
  BY Spoken
<1>13. ASSUME ClientSide \/ UserSide PROVE TurnInv'
  <2>1. CASE Chats \/ LogsIn
    BY <1>5, <1>9, <2>1 DEF Chats, LogsIn, Hears, Quiet, ServerTurns
  <2>2. CASE TakesTurn
    <3>1. PICK msgs \in {<<M("ECDH_INIT")>>, <<M("KEXINIT"), M("ECDH_INIT")>>} :
             Hears(msgs) /\ Heard[1] = "KEXINIT"
      BY <2>2 DEF TakesTurn
    <3>2. Coming # <<>> /\ Going' = Going \o msgs /\ Coming' = Tail(Coming) /\ s' = s
      BY <3>1 DEF Hears
    <3>3. s.kex = "init" /\ \E k : TurnOf("init", Going \o msgs, Tail(Coming), k, 0)
      BY <1>1, <1>2, <1>3, <3>1, <3>2, TurnTaken DEF Heard
    <3>. QED BY <1>4, <3>2, <3>3
  <2>3. CASE EndsTurn
    <3>1. /\ Coming # <<>> /\ Going' = Going \o <<M("NEWKEYS")>> /\ Coming' = Tail(Coming) /\ s' = s
          /\ Heard[1] = "ECDH_REPLY"
      BY <2>3 DEF EndsTurn, Hears
    <3>2. s.kex = "keys" /\ \E k : TurnOf("keys", Going \o <<M("NEWKEYS")>>, Tail(Coming), k, 0)
      BY <1>1, <1>2, <1>3, <3>1, TurnEnded DEF Heard
    <3>. QED BY <1>4, <3>1, <3>2
  <2>4. CASE Asks \/ Confirmed \/ AsksOn
    BY <1>5, <1>10, <2>4 DEF Asks, Confirmed, AsksOn, Turns, ServerTurns, Quiet
  <2>5. CASE Runs \/ Notes \/ Drops \/ IsTold
    BY <1>5, <1>12, <2>5 DEF Runs, Notes, Drops, IsTold, ServerTurns
  <2>6. CASE Widens
    <3> DEFINE w == AddWindow(Heard[2])
               ends == c.eofPending /\ Rest(c.outq, w) = <<>>
    <3>1. Hears(Chunks(c.outq, w) \o (IF ends THEN <<M("EOF")>> ELSE <<>>)) /\ Heard[1] = "ADJUST"
      BY <2>6 DEF Widens
    <3>2. Heard[2] \in Nat
      <4>1. Heard \in Messages
        BY <1>3, <3>1, HeadTail DEF Hears, Heard
      <4>. QED BY <3>1, <4>1, Carries
    <3>3. Only(Chunks(c.outq, w) \o (IF ends THEN <<M("EOF")>> ELSE <<>>), Turns, 0)
      BY <3>2, WidensSays DEF Turns
    <3> HIDE DEF w, ends
    <3>. QED BY <1>5, <3>1, <3>3 DEF ServerTurns
  <2>7. CASE Shows
    BY <1>5, <1>10, <1>12, <2>7 DEF Shows, Turns, ServerTurns
  <2>8. CASE Leaves \/ Dies
    BY <2>8 DEF Leaves, Dies, Alive, TurnInv
  <2>9. CASE Remarks
    BY <1>6, <1>9, <2>9 DEF Remarks
  <2>10. CASE TypesMore
    <3>1. PICK m \in 1..MaxBurst : LET data == [i \in 1..m |-> typed + i]
                                   IN  Says(<<>>) \/ Says(Chunks(data, c.window))
      BY <2>10 DEF TypesMore
    <3> DEFINE data == [i \in 1..m |-> typed + i]
    <3>2. data \in Seq(Nat) /\ c.window \in Nat
      BY DEF Typed, ClientState
    <3>3. Says(<<>>) \/ Says(Chunks(data, c.window))
      BY <3>1
    <3> HIDE DEF data
    <3>4. Only(Chunks(data, c.window), Turns, 0)
      BY <3>2, ChunksSpoken DEF Turns
    <3>. QED BY <1>6, <1>12, <3>3, <3>4
  <2>11. CASE Finishes
    BY <1>6, <1>10, <1>12, <2>11 DEF Finishes, Turns
  <2>. QED
    BY <1>13, <2>1, <2>2, <2>3, <2>4, <2>5, <2>6, <2>7, <2>8, <2>9, <2>10, <2>11
       DEF ClientSide, UserSide
<1>14. ASSUME ServerSide \/ ServerMore PROVE TurnInv'
  <2>1. CASE Obliges
    <3>1. PICK t \in Quiet \cup {"KEXINIT", "OPEN"}, msgs \in Seq(Messages) :
            Reacts(t, msgs) /\ AllOf(msgs, Quiet)
      BY <2>1 DEF Obliges
    <3>2. s'.kex = s.kex /\ t \notin Turns
      BY <2>1 DEF Obliges, Quiet, Turns
    <3>. QED BY <1>7, <1>9, <3>1, <3>2
  <2>2. CASE Responds
    BY <1>7, <1>11, <2>2 DEF Responds, Turns, ServerTurns
  <2>3. CASE Confirms
    <3>1. PICK w \in Windows \cup {0}, p \in MaxPkts : Reacts("OPEN", <<Msg("CONFIRM", <<w, p>>)>>)
      BY <2>3 DEF Confirms
    <3>2. Only(<<Msg("CONFIRM", <<w, p>>)>>, ServerTurns, 0)
      BY <1>11 DEF ServerTurns
    <3>3. s'.kex = s.kex /\ "OPEN" \notin Turns
      BY <2>3 DEF Confirms, Turns
    <3>. QED BY <1>7, <3>1, <3>2, <3>3
  <2>4. CASE Starts
    <3>1. PICK w \in Windows, f \in EarlyFates \cup {<<>>} :
             Reacts("EXEC", <<Msg("ADJUST", w)>> \o Exit(f) \o <<M("SUCCESS")>>)
      BY <2>4 DEF Starts
    <3>2. Only(<<Msg("ADJUST", w)>> \o Exit(f) \o <<M("SUCCESS")>>, ServerTurns, 0)
      BY StartsSays DEF ServerTurns
    <3>3. s'.kex = s.kex /\ "EXEC" \notin Turns
      BY <2>4 DEF Starts, Turns
    <3>. QED BY <1>7, <3>1, <3>2, <3>3
  <2>5. CASE Reads \/ ReadsEnd \/ IsRepaid
    BY <1>7, <1>12, <2>5 DEF Reads, ReadsEnd, IsRepaid, Turns
  <2>6. CASE Exchanges
    <3>1. /\ Going # <<>> /\ Head(Going)[1] = "ECDH_INIT" /\ Going' = Tail(Going) /\ s'.kex = "keys"
          /\ Coming' = Insert(Msgs(down), M("ECDH_REPLY"), M("NEWKEYS"), s.held)
      BY <2>6 DEF Exchanges, Insert, Asked
    <3>2. Coming = Msgs(down) \o s.held /\ Msgs(down) \in Seq(Messages) /\ s.held \in Seq(Messages)
      BY TalkTyped DEF Coming
    <3>3. \E k : TurnOf("keys", Tail(Going), Insert(Msgs(down), M("ECDH_REPLY"), M("NEWKEYS"), s.held), 0, k)
      BY <1>1, <1>2, <1>3, <3>1, <3>2, TurnMet
    <3>. QED BY <1>4, <3>1, <3>3
  <2>7. CASE Switches
    <3>1. /\ Going # <<>> /\ Head(Going)[1] = "NEWKEYS" /\ Going' = Tail(Going) /\ s'.kex = "idle"
          /\ Coming' = Coming \o <<>>
      BY <2>7 DEF Switches, Reacts, Speaks, Asked
    <3>2. Coming' = Coming
      BY <1>3, <3>1, ConcatEmptySeq
    <3>3. TurnOf("idle", Tail(Going), Coming, 0, 0)
      BY <1>1, <1>2, <1>3, <3>1, TurnSwitched
    <3>. QED BY <1>4, <3>1, <3>2, <3>3
  <2>8. CASE Murmurs
    BY <1>8, <1>9, <2>8 DEF Murmurs
  <2>9. CASE Renews
    <3>1. s.kex = "idle" /\ Going' = Going /\ Coming' = Coming \o <<M("KEXINIT")>> /\ s'.kex = "init"
      BY <2>9 DEF Renews, Adds, Speaks
    <3>2. \E k : TurnOf("init", Going, Coming \o <<M("KEXINIT")>>, 0, k)
      BY <1>2, <1>3, <3>1, TurnBegun
    <3>. QED BY <1>4, <3>1, <3>2
  <2>10. CASE Grants \/ Writes \/ Shuts
    BY <1>8, <1>11, <2>10 DEF Grants, Writes, Shuts, ServerTurns
  <2>11. CASE Exits
    <3>1. PICK f \in AllFates \cup {<<>>} : Adds(<<M("EOF")>> \o Exit(f))
      BY <2>11 DEF Exits
    <3>2. <<M("EOF")>> \in Seq(Messages) /\ Exit(f) \in Seq(Messages)
      BY Plainly, One DEF Exit, Plain
    <3>3. Only(<<M("EOF")>>, ServerTurns, 0) /\ Only(Exit(f), ServerTurns, 0)
      BY Spoken DEF ServerTurns
    <3>4. Only(<<M("EOF")>> \o Exit(f), ServerTurns, 0)
      BY <3>2, <3>3, Spoken
    <3>. QED BY <1>8, <2>11, <3>1, <3>4 DEF Exits
  <2>. QED
    BY <1>14, <2>1, <2>2, <2>3, <2>4, <2>5, <2>6, <2>7, <2>8, <2>9, <2>10, <2>11
       DEF ServerSide, ServerMore
<1>. QED BY <1>13, <1>14 DEF Talk

-----------------------------------------------------------------------------
(* What the session has come to.  A question of the client is on its way, or *)
(* its answer is, or there is none; the status of the command comes after    *)
(* the answer that starts it and before the close, and once it is known, it  *)
(* is the client's.                                                          *)

ToldOf(fate) == IF fate = <<>> THEN 255 ELSE Status(fate)
Affairs == [phase |-> Phase, stage |-> s.stage, fate |-> s.fate, early |-> s.early, exit |-> c.exit]

\* x: the affairs; g, n: where the question and the answer are, 0 for nowhere.
InAnswer(a, b, x, g, n) ==
  /\ Only(a, Questions, g) /\ Only(b, Answers, n) /\ x.phase # "over"
  /\ \/ g = 0 /\ n = 0 /\ (x.stage # "login" => x.phase = "run")
     \/ /\ g > 0 /\ n = 0 /\ x.stage = "login"
        /\ \/ x.phase = "open" /\ a[g][1] = "OPEN"
           \/ x.phase = "pty" /\ a[g][1] = "PTY_REQ"
           \/ x.phase = "exec" /\ a[g][1] = "EXEC"
     \/ /\ g = 0 /\ n > 0
        /\ \/ x.phase = "open" /\ b[n][1] = "CONFIRM" /\ x.stage = "login"
           \/ x.phase = "pty" /\ b[n][1] \in {"SUCCESS", "FAILURE"} /\ x.stage = "login"
           \/ x.phase = "exec" /\ b[n][1] = "SUCCESS" /\ x.stage # "login"
           \/ x.phase = "exec" /\ b[n][1] = "FAILURE" /\ x.stage = "login"
\* e, k: where the status of the command and the close are.
InStatus(b, x, n, e, k) ==
  /\ Only(b, {"EXIT"}, e) /\ Only(b, {"CLOSE"}, k)
  /\ x.stage # "closing" => k = 0
  /\ x.stage = "login" => ~x.early /\ x.fate = <<>> /\ e = 0 /\ x.phase # "run"
  /\ x.stage = "running" /\ ~x.early => x.fate = <<>>
  /\ ~x.early /\ e > 0 => b[e][2] = x.fate /\ x.fate # <<>>
  /\ x.phase = "exec" /\ ~x.early /\ e > 0 => n < e
  /\ ~x.early => \/ x.exit = ToldOf(x.fate)
                 \/ x.exit = 255 /\ e > 0 /\ (k > 0 => e < k)
Talks(a, b, x, g, n, e, k) == InAnswer(a, b, x, g, n) /\ InStatus(b, x, n, e, k)
TalkInv ==
  Alive => \E g \in 0..Len(Going), n \in 0..Len(Coming), e \in 0..Len(Coming), k \in 0..Len(Coming) :
             Talks(Going, Coming, Affairs, g, n, e, k)

Notable == Answers \cup {"EXIT", "CLOSE"}

LEMMA TalksGoing ==
  ASSUME NEW a \in Seq(Messages), NEW b, NEW x, NEW g, NEW n, NEW e, NEW k, Talks(a, b, x, g, n, e, k)
  PROVE  /\ \A msgs \in Seq(Messages) : Only(msgs, Questions, 0) => Talks(a \o msgs, b, x, g, n, e, k)
         /\ a # <<>> /\ Head(a)[1] \notin Questions => Talks(Tail(a), b, x, Shift(g), n, e, k)
<1>1. Only(a, Questions, g)
  BY DEF Talks, InAnswer
<1>2. ASSUME NEW msgs \in Seq(Messages), Only(msgs, Questions, 0)
      PROVE  Talks(a \o msgs, b, x, g, n, e, k)
  <2>1. Only(a \o msgs, Questions, g) /\ (g > 0 => (a \o msgs)[g] = a[g])
    BY <1>1, <1>2, OnlyJoined
  <2>. QED BY <2>1 DEF Talks, InAnswer
<1>3. ASSUME a # <<>>, Head(a)[1] \notin Questions
      PROVE  Talks(Tail(a), b, x, Shift(g), n, e, k)
  <2>1. /\ Only(Tail(a), Questions, Shift(g)) /\ g # 1 /\ g \in Nat
        /\ g > 1 => Shift(g) > 0 /\ Tail(a)[Shift(g)] = a[g]
    BY <1>1, <1>3, OnlyTail
  <2>2. CASE g = 0
    BY <2>1, <2>2 DEF Talks, InAnswer, Shift
  <2>3. CASE g > 1
    <3>1. Shift(g) > 0 /\ Tail(a)[Shift(g)] = a[g]
      BY <2>1, <2>3
    <3>2. g > 0 /\ g # 0 /\ Shift(g) # 0
      BY <2>1, <2>3, <3>1
    <3>. QED BY <2>1, <3>1, <3>2 DEF Talks, InAnswer
  <2>. QED BY <2>1, <2>2, <2>3
<1>. QED BY <1>2, <1>3

\* b2 says of these matters what b says, elsewhere: the places f[i] keep their order.
Moved(b, b2, f) ==
  /\ \A T \in {Answers, {"EXIT"}, {"CLOSE"}} : \A i \in Nat : Only(b, T, i) => Only(b2, T, f[i])
  /\ f[0] = 0
  /\ \A i \in 1..Len(b) : b[i][1] \in Notable => f[i] \in Nat /\ f[i] > 0 /\ b2[f[i]] = b[i]
  /\ \A i \in 1..Len(b), j \in 1..Len(b) :
        b[i][1] \in Notable /\ b[j][1] \in Notable => (i < j <=> f[i] < f[j])

LEMMA TalksMoved ==
  ASSUME NEW a, NEW b, NEW x, NEW g, NEW n, NEW e, NEW k, NEW b2, NEW f,
         Len(b) \in Nat, Talks(a, b, x, g, n, e, k), Moved(b, b2, f)
  PROVE  Talks(a, b2, x, g, f[n], f[e], f[k])
<1>1. Only(b, Answers, n) /\ Only(b, {"EXIT"}, e) /\ Only(b, {"CLOSE"}, k)
  BY DEF Talks, InAnswer, InStatus
<1>2. n \in 0..Len(b) /\ e \in 0..Len(b) /\ k \in 0..Len(b)
  BY <1>1 DEF Only
<1>3. Only(b2, Answers, f[n]) /\ Only(b2, {"EXIT"}, f[e]) /\ Only(b2, {"CLOSE"}, f[k])
  BY <1>1, <1>2 DEF Moved
<1>4. (n > 0 => b[n][1] \in Notable) /\ (e > 0 => b[e][1] \in Notable) /\ (k > 0 => b[k][1] \in Notable)
  BY <1>1, <1>2 DEF Only, Notable
<1>5. ASSUME NEW i \in 0..Len(b), i > 0 => b[i][1] \in Notable
      PROVE  (i = 0 <=> f[i] = 0) /\ (i > 0 <=> f[i] > 0) /\ (i > 0 => b2[f[i]] = b[i]) /\ f[i] \in Nat
  <2>1. CASE i = 0
    BY <2>1 DEF Moved
  <2>2. CASE i > 0
    <3>1. i \in 1..Len(b) /\ b[i][1] \in Notable
      BY <1>5, <2>2
    <3>2. f[i] \in Nat /\ f[i] > 0 /\ b2[f[i]] = b[i]
      BY <3>1 DEF Moved
    <3>. QED BY <2>2, <3>2
  <2>. QED BY <2>1, <2>2
<1>6. ASSUME NEW i \in 0..Len(b), i > 0 => b[i][1] \in Notable,
             NEW j \in 0..Len(b), j > 0 => b[j][1] \in Notable
      PROVE  i < j <=> f[i] < f[j]
  <2>1. f[i] \in Nat /\ f[j] \in Nat /\ (i > 0 <=> f[i] > 0) /\ (j > 0 <=> f[j] > 0)
    BY <1>5, <1>6
  <2>2. CASE i > 0 /\ j > 0
    <3>1. i \in 1..Len(b) /\ j \in 1..Len(b) /\ b[i][1] \in Notable /\ b[j][1] \in Notable
      BY <1>6, <2>2
    <3>. QED BY <3>1 DEF Moved
  <2>3. CASE ~(i > 0 /\ j > 0)
    BY <2>1, <2>3
  <2>. QED BY <2>2, <2>3
<1>7. /\ (n = 0 <=> f[n] = 0) /\ (n > 0 <=> f[n] > 0) /\ (n > 0 => b2[f[n]] = b[n])
      /\ (e = 0 <=> f[e] = 0) /\ (e > 0 <=> f[e] > 0) /\ (e > 0 => b2[f[e]] = b[e])
      /\ (k = 0 <=> f[k] = 0) /\ (k > 0 <=> f[k] > 0)
  BY <1>2, <1>4, <1>5
<1>8. (n < e <=> f[n] < f[e]) /\ (e < k <=> f[e] < f[k])
  BY <1>2, <1>4, <1>6
<1>9. InAnswer(a, b2, x, g, f[n])
  BY <1>3, <1>7 DEF Talks, InAnswer
<1>10. InStatus(b2, x, f[n], f[e], f[k])
  BY <1>3, <1>7, <1>8 DEF Talks, InStatus
<1>. QED BY <1>9, <1>10 DEF Talks

LEMMA TalksHeard ==
  ASSUME NEW a, NEW b \in Seq(Messages), NEW x, NEW g, NEW n, NEW e, NEW k,
         Talks(a, b, x, g, n, e, k), b # <<>>, Head(b)[1] \notin Notable
  PROVE  \E n1, e1, k1 : Talks(a, Tail(b), x, g, n1, e1, k1)
<1> DEFINE f == [i \in Nat |-> Shift(i)]
<1>1. /\ Len(b) \in Nat /\ Len(b) >= 1 /\ Head(b) = b[1] /\ Tail(b) \in Seq(Messages)
      /\ Len(Tail(b)) = Len(b) - 1
      /\ \A i \in 1 .. Len(b) - 1 : Tail(b)[i] = b[i + 1]
  BY HeadTail
<1>2. \A i \in Nat : f[i] = Shift(i)
  OBVIOUS
<1> HIDE DEF f
<1>3. ASSUME NEW T \in {Answers, {"EXIT"}, {"CLOSE"}}, NEW i \in Nat, Only(b, T, i)
      PROVE  Only(Tail(b), T, f[i])
  BY <1>2, <1>3, OnlyTail
<1>4. f[0] = 0
  BY <1>2 DEF Shift
<1>5. ASSUME NEW i \in 1..Len(b), b[i][1] \in Notable
      PROVE  f[i] = i - 1 /\ f[i] \in Nat /\ f[i] > 0 /\ Tail(b)[f[i]] = b[i]
  <2>1. i # 1 /\ i \in Nat /\ i # 0
    BY <1>1, <1>5
  <2>2. f[i] = i - 1 /\ i - 1 \in 1 .. Len(b) - 1 /\ (i - 1) + 1 = i
    BY <1>1, <1>2, <2>1 DEF Shift
  <2>. QED BY <1>1, <2>2
<1>6. ASSUME NEW i \in 1..Len(b), NEW j \in 1..Len(b), b[i][1] \in Notable, b[j][1] \in Notable
      PROVE  i < j <=> f[i] < f[j]
  <2>1. f[i] = i - 1 /\ f[j] = j - 1
    BY <1>5, <1>6
  <2>. QED BY <1>1, <2>1
<1>7. Moved(b, Tail(b), f)
  BY <1>3, <1>4, <1>5, <1>6 DEF Moved
<1>. QED BY <1>1, <1>7, TalksMoved

LEMMA TalksAdded ==
  ASSUME NEW a, NEW b \in Seq(Messages), NEW x, NEW g, NEW n, NEW e, NEW k,
         Talks(a, b, x, g, n, e, k), NEW msgs \in Seq(Messages), Only(msgs, Notable, 0)
  PROVE  Talks(a, b \o msgs, x, g, n, e, k)
<1> DEFINE f == [i \in Nat |-> i]
           b2 == b \o msgs
<1>1. Len(b) \in Nat /\ b2 \in Seq(Messages) /\ \A i \in 1..Len(b) : b2[i] = b[i]
  BY Joined
<1>2. \A i \in Nat : f[i] = i
  OBVIOUS
<1>3. ASSUME NEW T \in {Answers, {"EXIT"}, {"CLOSE"}}, NEW i \in Nat, Only(b, T, i)
      PROVE  Only(b2, T, f[i])
  <2>1. Only(msgs, T, 0)
    BY OnlyFewer DEF Notable
  <2>2. Only(b2, T, i)
    BY <1>3, <2>1, OnlyJoined
  <2>. QED BY <1>2, <2>2
<1> HIDE DEF f, b2
<1>4. \A i \in 1..Len(b) : f[i] = i /\ i \in Nat /\ i > 0
  BY <1>1, <1>2
<1>5. Moved(b, b2, f)
  BY <1>1, <1>2, <1>3, <1>4 DEF Moved
<1>6. Talks(a, b2, x, g, f[n], f[e], f[k])
  BY <1>1, <1>5, TalksMoved
<1>7. n \in Nat /\ e \in Nat /\ k \in Nat
  BY <1>1 DEF Talks, InAnswer, InStatus, Only
<1>. QED BY <1>2, <1>6, <1>7 DEF b2

LEMMA TalksMet ==
  ASSUME NEW a, NEW q \in Seq(Messages), NEW h \in Seq(Messages), NEW x, NEW g, NEW n, NEW e, NEW k,
         Talks(a, q \o h, x, g, n, e, k)
  PROVE  \E n1, e1, k1 :
           Talks(a, Insert(q, M("ECDH_REPLY"), M("NEWKEYS"), h), x, g, n1, e1, k1)
<1> DEFINE f == [i \in Nat |-> Place(i, Len(q))]
           b == q \o h
           b2 == Insert(q, M("ECDH_REPLY"), M("NEWKEYS"), h)
<1>1. Between(Len(q), b, M("ECDH_REPLY"), M("NEWKEYS"), b2)
  BY Plainly, Inserted DEF Plain
<1>2. \A i \in Nat : f[i] = Place(i, Len(q))
  OBVIOUS
<1>3. ASSUME NEW T \in {Answers, {"EXIT"}, {"CLOSE"}}, NEW i \in Nat, Only(b, T, i)
      PROVE  Only(b2, T, f[i])
  <2>1. /\ M("ECDH_REPLY") \in Messages /\ M("NEWKEYS") \in Messages
        /\ M("ECDH_REPLY")[1] \notin T /\ M("NEWKEYS")[1] \notin T
    BY Plainly DEF Plain, M, Msg, Answers
  <2>2. Only(b2, T, Place(i, Len(q)))
    BY <1>3, <2>1, OnlyInserted
  <2>. QED BY <1>2, <2>2
<1> HIDE DEF f, b, b2
<1>4. Len(b) \in Nat /\ Len(q) \in Nat /\ \A i \in 1..Len(b) : b2[Place(i, Len(q))] = b[i]
  BY <1>1 DEF Between
<1>5. f[0] = 0
  BY <1>2, <1>4 DEF Place
<1>6. ASSUME NEW i \in 1..Len(b)
      PROVE  f[i] = Place(i, Len(q)) /\ f[i] \in Nat /\ f[i] > 0 /\ b2[f[i]] = b[i]
  <2>1. i \in Nat /\ i > 0
    BY <1>4
  <2>2. Place(i, Len(q)) \in Nat /\ Place(i, Len(q)) > 0
    BY ONLY <1>4, <2>1 DEF Place
  <2>. QED BY <1>2, <1>4, <2>1, <2>2
<1>7. ASSUME NEW i \in 1..Len(b), NEW j \in 1..Len(b)
      PROVE  i < j <=> f[i] < f[j]
  BY <1>4, <1>6 DEF Place
<1>8. Moved(b, b2, f)
  BY <1>3, <1>5, <1>6, <1>7 DEF Moved
<1>. QED BY <1>4, <1>8, TalksMoved DEF b, b2

\* The client asks, when nothing is asked.
LEMMA TalksLogin ==
  ASSUME NEW a, NEW b, NEW x, NEW g, NEW n, NEW e, NEW k, Talks(a, b, x, g, n, e, k),
         x.phase \in Quietly, NEW x2, x2.phase \in Quietly \cup {"open"},
         x2.stage = x.stage, x2.fate = x.fate, x2.early = x.early, x2.exit = x.exit
  PROVE  g = 0 /\ n = 0 /\ x.stage = "login" /\ Talks(a, b, x2, 0, 0, e, k)
<1>1. g = 0 /\ n = 0 /\ x.stage = "login"
  BY DEF Talks, InAnswer, Quietly
<1>2. x2.phase \notin {"run", "exec", "over"}
  BY DEF Quietly
<1>. QED BY <1>1, <1>2 DEF Talks, InAnswer, InStatus

LEMMA TalksAsks ==
  ASSUME NEW a \in Seq(Messages), NEW b, NEW x, NEW e, NEW k, Talks(a, b, x, 0, 0, e, k),
         x.stage = "login", NEW t,
         \/ x.phase = "open" /\ t = "OPEN"
         \/ x.phase = "pty" /\ t = "PTY_REQ"
         \/ x.phase = "exec" /\ t = "EXEC"
  PROVE  Talks(a \o <<M(t)>>, b, x, Len(a) + 1, 0, e, k)
<1> DEFINE msgs == <<M(t)>>
<1>1. msgs \in Seq(Messages) /\ Only(msgs, Questions, 1) /\ msgs[1][1] = t
  <2>1. M(t) \in Messages /\ M(t)[1] = t
    BY Plainly DEF Plain, M, Msg
  <2>2. Only(msgs, Questions, 1)
    BY Spoken DEF Questions
  <2>. QED BY <2>1, <2>2
<1>2. Only(a, Questions, 0)
  BY DEF Talks, InAnswer
<1> HIDE DEF msgs
<1>3. /\ Only(a \o msgs, Questions, Len(a) + 1) /\ (a \o msgs)[Len(a) + 1] = msgs[1]
      /\ Len(a) + 1 > 0
  <2>1. Len(a) \in Nat
    OBVIOUS
  <2>. QED BY <1>1, <1>2, <2>1, OnlyJoined
<1>4. Talks(a \o msgs, b, x, Len(a) + 1, 0, e, k)
  BY <1>1, <1>3 DEF Talks, InAnswer
<1>. QED BY <1>4 DEF msgs

\* What else the client hears goes on behind what it hears first.
Follows(b, T, n) ==
  /\ Only(Tail(b), T, Shift(n)) /\ n \in Nat
  /\ Head(b)[1] \in T <=> n = 1
  /\ Shift(n) > 0 => Tail(b)[Shift(n)] = b[n]
LEMMA TalksTail ==
  ASSUME NEW a, NEW b \in Seq(Messages), b # <<>>, NEW x, NEW g, NEW n, NEW e, NEW k,
         Talks(a, b, x, g, n, e, k)
  PROVE  Follows(b, Answers, n) /\ Follows(b, {"EXIT"}, e) /\ Follows(b, {"CLOSE"}, k)
<1>1. Only(b, Answers, n) /\ Only(b, {"EXIT"}, e) /\ Only(b, {"CLOSE"}, k)
  BY DEF Talks, InAnswer, InStatus
<1>2. ASSUME NEW T, NEW i, Only(b, T, i)
      PROVE  Follows(b, T, i)
  <2>1. /\ Only(Tail(b), T, Shift(i)) /\ i \in Nat /\ (Head(b)[1] \in T <=> i = 1)
        /\ i > 1 => Tail(b)[Shift(i)] = b[i]
    BY <1>2, OnlyTail
  <2>2. Shift(i) > 0 => i > 1
    BY <2>1 DEF Shift
  <2>. QED BY <2>1, <2>2 DEF Follows
<1>. QED BY <1>1, <1>2

\* The client hears its answer.
LEMMA TalksAnswered ==
  ASSUME NEW a, NEW b \in Seq(Messages), b # <<>>, NEW x, NEW g, NEW n, NEW e, NEW k,
         Talks(a, b, x, g, n, e, k), Head(b)[1] \in Answers,
         NEW x2, x2.stage = x.stage, x2.fate = x.fate, x2.early = x.early, x2.exit = x.exit,
         \/ x.phase \in {"open", "pty"} /\ x2.phase \in {"pty", "exec"}
         \/ x.phase = "exec" /\ Head(b)[1] = "SUCCESS" /\ x2.phase = "run"
  PROVE  /\ x.phase \in {"open", "pty"} => x.stage = "login"
         /\ \E e1, k1 : Talks(a, Tail(b), x2, 0, 0, e1, k1)
<1> DEFINE e1 == Shift(e)
           k1 == Shift(k)
<1>1. /\ n = 1 /\ Only(Tail(b), Answers, Shift(n)) /\ Only(Tail(b), {"EXIT"}, e1)
      /\ Only(Tail(b), {"CLOSE"}, k1) /\ e \in Nat /\ k \in Nat
      /\ (Head(b)[1] = "EXIT" <=> e = 1) /\ (Head(b)[1] = "CLOSE" <=> k = 1)
      /\ e1 > 0 => Tail(b)[e1] = b[e]
      /\ Head(b) = b[1]
  <2>1. Follows(b, Answers, n) /\ Follows(b, {"EXIT"}, e) /\ Follows(b, {"CLOSE"}, k)
    BY TalksTail
  <2>2. Head(b) = b[1]
    BY HeadTail
  <2>. QED BY <2>1, <2>2 DEF Follows
<1>2. e # 1 /\ k # 1 /\ Shift(n) = 0
  BY <1>1 DEF Answers, Shift
<1>3. /\ (e1 > 0 <=> e > 0) /\ (k1 = 0 <=> k = 0) /\ (k1 > 0 <=> k > 0) /\ (e1 = 0 <=> e = 0)
      /\ e1 < k1 <=> e < k
  BY <1>1, <1>2 DEF Shift
<1>4. e1 > 0 => Tail(b)[e1] = b[e]
  BY <1>1
<1> HIDE DEF e1, k1
<1>5. /\ g = 0 /\ Only(a, Questions, 0)
      /\ x.phase \in {"open", "pty"} => x.stage = "login"
      /\ x.phase = "exec" /\ b[1][1] = "SUCCESS" => x.stage # "login"
  BY <1>1 DEF Talks, InAnswer
<1>6. InAnswer(a, Tail(b), x2, 0, 0)
  BY <1>1, <1>2, <1>5 DEF InAnswer
<1>7. InStatus(Tail(b), x2, 0, e1, k1)
  BY <1>1, <1>3, <1>4, <1>5, ZenonT(30) DEF Talks, InStatus
<1>. QED BY <1>5, <1>6, <1>7 DEF Talks

\* The client hears the status, or the close, and does not heed it: only a
\* status that was told early.
LEMMA TalksDropped ==
  ASSUME NEW a, NEW b \in Seq(Messages), b # <<>>, NEW x, NEW g, NEW n, NEW e, NEW k,
         Talks(a, b, x, g, n, e, k), Head(b)[1] \in {"EXIT", "CLOSE"}, x.phase \in {"pty", "exec"}
  PROVE  \E n1, e1, k1 : Talks(a, Tail(b), x, g, n1, e1, k1)
<1> DEFINE n1 == Shift(n)
           e1 == Shift(e)
           k1 == Shift(k)
<1>1. /\ Only(Tail(b), Answers, n1) /\ Only(Tail(b), {"EXIT"}, e1) /\ Only(Tail(b), {"CLOSE"}, k1)
      /\ n \in Nat /\ e \in Nat /\ k \in Nat
      /\ (Head(b)[1] \in Answers <=> n = 1) /\ (Head(b)[1] = "EXIT" <=> e = 1)
      /\ (Head(b)[1] = "CLOSE" <=> k = 1)
      /\ n1 > 0 => Tail(b)[n1] = b[n]
      /\ e1 > 0 => Tail(b)[e1] = b[e]
  <2>1. Follows(b, Answers, n) /\ Follows(b, {"EXIT"}, e) /\ Follows(b, {"CLOSE"}, k)
    BY TalksTail
  <2>. QED BY <2>1 DEF Follows
<1>2. n # 1
  BY <1>1 DEF Answers
<1>3. (n1 = 0 <=> n = 0) /\ (n1 > 0 <=> n > 0) /\ (k = 0 => k1 = 0) /\ (e = 0 => e1 = 0)
  BY <1>1, <1>2 DEF Shift
<1>4. n1 > 0 => Tail(b)[n1] = b[n]
  BY <1>1
<1>5. InAnswer(a, Tail(b), x, g, n1)
  <2> HIDE DEF n1
  <2>. QED BY <1>1, <1>3, <1>4 DEF Talks, InAnswer
<1>6. CASE x.early
  <2> HIDE DEF n1, e1, k1
  <2>. QED BY <1>1, <1>3, <1>5, <1>6 DEF Talks, InStatus
<1>7. CASE ~x.early
  <2>1. e = 1 => n = 0 \/ x.stage = "login"
    <3>1. x.stage # "login" => x.phase = "exec"
      BY DEF Talks, InAnswer
    <3>2. x.phase = "exec" /\ e > 0 => n < e
      BY <1>7 DEF Talks, InStatus
    <3>. QED BY <1>1, <3>1, <3>2
  <2>2. e # 1
    <3>1. x.stage = "login" => e = 0
      BY DEF Talks, InStatus
    <3>2. x.stage # "login" => n > 0
      BY DEF Talks, InAnswer
    <3>. QED BY <1>1, <2>1, <3>1, <3>2
  <2>3. k = 1
    BY <1>1, <2>2
  <2>4. (e1 > 0 <=> e > 0) /\ k1 = 0 /\ (n1 < e1 <=> n < e) /\ ~(e > 0 /\ e < k)
    BY <1>1, <1>2, <2>2, <2>3 DEF Shift
  <2>5. e1 > 0 => Tail(b)[e1] = b[e]
    BY <1>1
  <2>6. k > 0
    BY <2>3
  <2> HIDE DEF n1, e1, k1
  <2>. QED BY <1>1, <1>3, <1>5, <1>7, <2>4, <2>5, <2>6 DEF Talks, InStatus
<1>. QED BY <1>6, <1>7

\* The client hears the status in the session.
LEMMA TalksTold ==
  ASSUME NEW a, NEW b \in Seq(Messages), b # <<>>, NEW x, NEW g, NEW n, NEW e, NEW k,
         Talks(a, b, x, g, n, e, k), Head(b)[1] = "EXIT", x.phase = "run",
         NEW x2, x2.stage = x.stage, x2.fate = x.fate, x2.early = x.early, x2.phase = "run",
         x2.exit = Status(Head(b)[2])
  PROVE  \E n1, e1, k1 : Talks(a, Tail(b), x2, g, n1, e1, k1)
<1> DEFINE k1 == Shift(k)
<1>1. /\ Only(Tail(b), Answers, Shift(n)) /\ Only(Tail(b), {"EXIT"}, Shift(e))
      /\ Only(Tail(b), {"CLOSE"}, k1)
      /\ e = 1 /\ k \in Nat /\ Head(b) = b[1]
  <2>1. Follows(b, Answers, n) /\ Follows(b, {"EXIT"}, e) /\ Follows(b, {"CLOSE"}, k)
    BY TalksTail
  <2>2. Head(b) = b[1]
    BY HeadTail
  <2>. QED BY <2>1, <2>2 DEF Follows
<1>2. g = 0 /\ n = 0 /\ Shift(n) = 0 /\ Shift(e) = 0 /\ (k = 0 => k1 = 0) /\ e > 0
  BY <1>1 DEF Talks, InAnswer, Shift
<1> HIDE DEF k1
<1>3. InAnswer(a, Tail(b), x2, g, 0)
  BY <1>1, <1>2 DEF Talks, InAnswer
<1>4. ~x.early => x2.exit = ToldOf(x.fate)
  BY <1>1, <1>2 DEF Talks, InStatus, ToldOf
<1>5. InStatus(Tail(b), x2, 0, 0, k1)
  BY <1>1, <1>2, <1>4 DEF Talks, InStatus
<1>. QED BY <1>3, <1>5 DEF Talks

\* The client hears the close, and has heard the status.
LEMMA TalksClosed ==
  ASSUME NEW a, NEW b \in Seq(Messages), b # <<>>, NEW x, NEW g, NEW n, NEW e, NEW k,
         Talks(a, b, x, g, n, e, k), Head(b)[1] = "CLOSE", ~x.early
  PROVE  x.exit = ToldOf(x.fate)
<1>1. k = 1 /\ e \in Nat
  BY TalksTail DEF Follows
<1>2. k > 0 /\ ~(e > 0 /\ e < k)
  BY <1>1
<1>. QED BY <1>2 DEF Talks, InStatus

\* The server hears the question.
LEMMA TalksServed ==
  ASSUME NEW a \in Seq(Messages), a # <<>>, NEW b, NEW x, NEW g, NEW n, NEW e, NEW k,
         Talks(a, b, x, g, n, e, k), Head(a)[1] \in Questions
  PROVE  /\ x.stage = "login" /\ Talks(Tail(a), b, x, 0, 0, e, k)
         /\ Head(a)[1] = "OPEN" => x.phase = "open"
         /\ Head(a)[1] = "PTY_REQ" => x.phase = "pty"
         /\ Head(a)[1] = "EXEC" => x.phase = "exec"
<1>1. Only(a, Questions, g)
  BY DEF Talks, InAnswer
<1>2. g = 1 /\ Only(Tail(a), Questions, Shift(g)) /\ Head(a) = a[1]
  BY <1>1, OnlyTail, HeadTail
<1>3. Only(Tail(a), Questions, 0)
  BY <1>2 DEF Shift
<1>4. /\ n = 0 /\ x.stage = "login"
      /\ Head(a)[1] = "OPEN" => x.phase = "open"
      /\ Head(a)[1] = "PTY_REQ" => x.phase = "pty"
      /\ Head(a)[1] = "EXEC" => x.phase = "exec"
  BY <1>2 DEF Talks, InAnswer
<1>5. InAnswer(Tail(a), b, x, 0, 0)
  BY <1>3, <1>4 DEF Talks, InAnswer
<1>. QED BY <1>4, <1>5 DEF Talks

\* The server answers, and the command is not started.
LEMMA TalksAnswers ==
  ASSUME NEW a, NEW b \in Seq(Messages), NEW x, NEW e, NEW k, Talks(a, b, x, 0, 0, e, k),
         x.stage = "login", NEW m \in Messages,
         \/ x.phase = "open" /\ m[1] = "CONFIRM"
         \/ x.phase = "pty" /\ m[1] \in {"SUCCESS", "FAILURE"}
         \/ x.phase = "exec" /\ m[1] = "FAILURE"
  PROVE  \E n1 : Talks(a, b \o <<m>>, x, 0, n1, e, k)
<1> DEFINE msgs == <<m>>
           b2 == b \o msgs
           n1 == Len(b) + 1
<1>1. msgs \in Seq(Messages) /\ msgs[1] = m
  OBVIOUS
<1>2. Only(msgs, Answers, 1) /\ Only(msgs, {"EXIT"}, 0) /\ Only(msgs, {"CLOSE"}, 0)
  <2>1. m[1] \in Answers /\ m[1] \notin {"EXIT"} /\ m[1] \notin {"CLOSE"}
    BY DEF Answers
  <2>. QED BY <2>1, OnlyHere
<1>3. Only(b, Answers, 0) /\ Only(b, {"EXIT"}, e) /\ Only(b, {"CLOSE"}, k) /\ e = 0 /\ k = 0
  BY DEF Talks, InAnswer, InStatus
<1> HIDE DEF msgs
<1>4. Only(b2, Answers, n1) /\ b2[n1] = m /\ n1 \in Nat /\ n1 > 0
  <2>1. Len(b) \in Nat
    OBVIOUS
  <2>. QED BY <1>1, <1>2, <1>3, <2>1, OnlyJoined
<1>5. Only(b2, {"EXIT"}, 0) /\ Only(b2, {"CLOSE"}, 0)
  BY <1>1, <1>2, <1>3, OnlyJoined
<1> HIDE DEF b2, n1
<1>6. InAnswer(a, b2, x, 0, n1)
  BY <1>4 DEF Talks, InAnswer
<1>7. InStatus(b2, x, n1, 0, 0)
  BY <1>3, <1>5 DEF Talks, InStatus
<1>. QED BY <1>3, <1>6, <1>7 DEF Talks, b2, msgs

\* The server starts the command, and may tell its status before it says so.
LEMMA TalksStarts ==
  ASSUME NEW a, NEW b \in Seq(Messages), NEW x, NEW e, NEW k, Talks(a, b, x, 0, 0, e, k),
         x.stage = "login", x.phase = "exec", NEW w \in Windows, NEW f \in EarlyFates \cup {<<>>},
         NEW x2, x2.stage = "running", x2.phase = "exec", x2.fate = f, x2.early = (f # <<>>),
         x2.exit = x.exit
  PROVE  \E n1, e1, k1 :
           Talks(a, b \o (<<Msg("ADJUST", w)>> \o Exit(f) \o <<M("SUCCESS")>>), x2, 0, n1, e1, k1)
<1> DEFINE p == <<Msg("ADJUST", w)>> \o Exit(f)
           r == <<M("SUCCESS")>>
           msgs == p \o r
           b2 == b \o msgs
<1>1. /\ p \in Seq(Messages) /\ Only(p, Answers, 0) /\ Only(p, {"CLOSE"}, 0)
  <2>1. /\ "ADJUST" \notin Answers /\ "EXIT" \notin Answers
        /\ "ADJUST" \notin {"CLOSE"} /\ "EXIT" \notin {"CLOSE"}
    BY DEF Answers
  <2>. QED BY <2>1, StartsSays
<1>2. \E i : Only(p, {"EXIT"}, i) /\ (f = <<>> => i = 0)
  <2>1. /\ <<Msg("ADJUST", w)>> \in Seq(Messages) /\ Exit(f) \in Seq(Messages)
        /\ Only(<<Msg("ADJUST", w)>>, {"EXIT"}, 0)
    <3>1. w \in Nat
      BY ChannelAssumption
    <3>2. Exit(f) \in Seq(Messages)
      BY Plainly, One DEF Exit, AllFates
    <3>. QED BY <3>1, <3>2, Plainly, One, Spoken
  <2>2. CASE f = <<>>
    <3>1. Only(Exit(f), {"EXIT"}, 0)
      BY <2>2, Spoken DEF Exit
    <3>2. Only(p, {"EXIT"}, 0)
      BY <2>1, <3>1, OnlyJoined
    <3>. QED BY <3>2
  <2>3. CASE f # <<>>
    <3>1. Only(Exit(f), {"EXIT"}, 1)
      BY <2>3, Spoken DEF Exit
    <3>2. Only(p, {"EXIT"}, Len(<<Msg("ADJUST", w)>>) + 1)
      BY ONLY <2>1, <3>1, OnlyNext
    <3>. QED BY <2>3, <3>2
  <2>. QED BY <2>2, <2>3
<1>3. /\ r \in Seq(Messages) /\ Only(r, Answers, 1) /\ Only(r, {"EXIT"}, 0) /\ Only(r, {"CLOSE"}, 0)
      /\ r[1][1] = "SUCCESS"
  <2>1. M("SUCCESS") \in Messages /\ M("SUCCESS")[1] = "SUCCESS"
    BY Plainly DEF Plain, M, Msg
  <2>2. "SUCCESS" \in Answers /\ "SUCCESS" \notin {"EXIT"} /\ "SUCCESS" \notin {"CLOSE"}
    BY DEF Answers
  <2>3. r \in Seq(Messages) /\ r[1] = M("SUCCESS")
    BY <2>1
  <2>4. Only(r, Answers, 1)
    BY <2>2, Spoken
  <2>5. Only(r, {"EXIT"}, 0) /\ Only(r, {"CLOSE"}, 0)
    BY <2>2, Spoken
  <2>. QED BY <2>1, <2>3, <2>4, <2>5
<1>4. PICK i : Only(p, {"EXIT"}, i) /\ (f = <<>> => i = 0)
  BY <1>2
<1> HIDE DEF p, r
<1> DEFINE j == Len(p) + 1
<1>5. /\ msgs \in Seq(Messages) /\ Only(msgs, Answers, j) /\ msgs[j] = r[1]
      /\ j \in Nat /\ j > 0
  <2>1. Len(p) \in Nat /\ msgs \in Seq(Messages)
    BY <1>1, <1>3, Joined
  <2>. QED BY <1>1, <1>3, <2>1, OnlyJoined
<1>6. Only(msgs, {"EXIT"}, i) /\ Only(msgs, {"CLOSE"}, 0)
  BY <1>1, <1>3, <1>4, OnlyJoined
<1>7. Only(b, Answers, 0) /\ Only(b, {"EXIT"}, 0) /\ Only(b, {"CLOSE"}, 0)
  BY DEF Talks, InAnswer, InStatus
<1> HIDE DEF msgs, j
<1> DEFINE n1 == Len(b) + j
           e1 == IF i > 0 THEN Len(b) + i ELSE 0
<1>8. Only(b2, Answers, n1) /\ b2[n1] = msgs[j] /\ n1 > 0
  <2>1. Len(b) \in Nat
    OBVIOUS
  <2>. QED BY <1>5, <1>7, <2>1, OnlyJoined
<1>9. Only(b2, {"EXIT"}, e1) /\ Only(b2, {"CLOSE"}, 0) /\ (f = <<>> => e1 = 0)
  <2>1. i \in Nat
    BY <1>6 DEF Only
  <2>2. (i = 0 => Only(b2, {"EXIT"}, 0)) /\ (i > 0 => Only(b2, {"EXIT"}, Len(b) + i))
    BY <1>5, <1>6, <1>7, OnlyJoined
  <2>3. Only(b2, {"CLOSE"}, 0)
    BY <1>5, <1>6, <1>7, OnlyJoined
  <2>4. f = <<>> => ~(i > 0)
    BY <1>4
  <2>5. i = 0 \/ i > 0
    BY <2>1
  <2>. QED BY <2>2, <2>3, <2>4, <2>5
<1>10. b2[n1][1] = "SUCCESS"
  BY <1>3, <1>5, <1>8
<1> HIDE DEF b2, n1, e1
<1>11. InAnswer(a, b2, x2, 0, n1)
  BY <1>8, <1>10 DEF Talks, InAnswer
<1>12. f = <<>> => x2.exit = ToldOf(f)
  BY DEF Talks, InStatus
<1>13. InStatus(b2, x2, n1, e1, 0)
  <2>1. CASE f = <<>>
    <3>1. e1 = 0 /\ ~(e1 > 0) /\ x2.fate = <<>> /\ x2.exit = ToldOf(x2.fate)
      BY <1>9, <1>12, <2>1
    <3>. QED BY <1>9, <3>1 DEF InStatus
  <2>2. CASE f # <<>>
    <3>1. x2.early
      BY <2>2
    <3>. QED BY <1>9, <3>1 DEF InStatus
  <2>. QED BY <2>1, <2>2
<1>14. Talks(a, b2, x2, 0, n1, e1, 0)
  BY <1>11, <1>13 DEF Talks
<1>. QED BY <1>14 DEF b2, msgs, p, r

\* The command exits, and its status is told unless it was.
LEMMA TalksExits ==
  ASSUME NEW a, NEW b \in Seq(Messages), NEW x, NEW g, NEW n, NEW e, NEW k,
         Talks(a, b, x, g, n, e, k), x.stage = "running", NEW f \in AllFates \cup {<<>>},
         x.early => f = <<>>, NEW x2, x2.stage = "exited", x2.phase = x.phase,
         x2.fate = (IF x.early THEN x.fate ELSE f), x2.early = x.early, x2.exit = x.exit
  PROVE  \E e1 : Talks(a, b \o (<<M("EOF")>> \o Exit(f)), x2, g, n, e1, k)
<1> DEFINE p == <<M("EOF")>>
           r == Exit(f)
           msgs == p \o r
           b2 == b \o msgs
<1>1. p \in Seq(Messages) /\ r \in Seq(Messages) /\ Len(p) = 1
  BY Plainly, One DEF Exit, Plain
<1>2. \A T \in {Answers, {"EXIT"}, {"CLOSE"}} : Only(p, T, 0)
  BY Spoken DEF Answers
<1>3. \A T \in {Answers, {"CLOSE"}} : Only(r, T, 0)
  BY Spoken DEF Answers
<1>4. IF f = <<>> THEN Only(r, {"EXIT"}, 0) ELSE Only(r, {"EXIT"}, 1) /\ r[1][2] = f
  BY Spoken DEF Exit, Msg
<1> HIDE DEF p, r
<1>5. /\ msgs \in Seq(Messages) /\ Only(msgs, Answers, 0) /\ Only(msgs, {"CLOSE"}, 0)
      /\ f = <<>> => Only(msgs, {"EXIT"}, 0)
      /\ f # <<>> => Only(msgs, {"EXIT"}, 2) /\ msgs[2][2] = f
  <2>1. msgs \in Seq(Messages)
    BY <1>1, Joined
  <2>2. Only(msgs, Answers, 0) /\ Only(msgs, {"CLOSE"}, 0)
    BY <1>1, <1>2, <1>3, OnlyJoined
  <2>3. f = <<>> => Only(msgs, {"EXIT"}, 0)
    BY <1>1, <1>2, <1>4, OnlyJoined
  <2>4. ASSUME f # <<>> PROVE Only(msgs, {"EXIT"}, 2) /\ msgs[2] = r[1]
    <3>1. Only(msgs, {"EXIT"}, Len(p) + 1) /\ msgs[Len(p) + 1] = r[1]
      <4>1. p \in Seq(Messages) /\ r \in Seq(Messages)
        BY <1>1
      <4>2. Only(p, {"EXIT"}, 0) /\ Only(r, {"EXIT"}, 1)
        BY <1>2, <1>4, <2>4
      <4>. QED BY ONLY <4>1, <4>2, OnlyNext DEF msgs
    <3>2. Len(p) + 1 = 2
      BY <1>1
    <3>. QED BY <3>1, <3>2
  <2>. QED BY <1>4, <2>1, <2>2, <2>3, <2>4
<1>6. /\ Only(b, Answers, n) /\ Only(b, {"EXIT"}, e) /\ Only(b, {"CLOSE"}, k) /\ k = 0
      /\ x.early \/ (x.fate = <<>> /\ ~(e > 0) /\ x.exit = ToldOf(<<>>))
  BY DEF Talks, InAnswer, InStatus
<1> HIDE DEF msgs
<1>7. /\ Only(b2, Answers, n) /\ Only(b2, {"CLOSE"}, 0) /\ (n > 0 => b2[n] = b[n])
      /\ e > 0 => b2[e] = b[e]
      /\ f = <<>> => Only(b2, {"EXIT"}, e)
      /\ e = 0 /\ f # <<>> => Only(b2, {"EXIT"}, Len(b) + 2) /\ b2[Len(b) + 2] = msgs[2]
      /\ n \in Nat /\ n <= Len(b) /\ Len(b) \in Nat /\ e \in Nat
  <2>1. /\ Only(b2, Answers, n) /\ (n > 0 => b2[n] = b[n]) /\ n \in Nat /\ n <= Len(b)
        /\ Len(b) \in Nat
    BY <1>5, <1>6, OnlyJoined
  <2>2. Only(b2, {"CLOSE"}, 0)
    BY <1>5, <1>6, OnlyJoined
  <2>3. ASSUME f = <<>> PROVE Only(b2, {"EXIT"}, e)
    BY <1>5, <1>6, <2>3, OnlyJoined
  <2>4. ASSUME f # <<>>, e = 0 PROVE Only(b2, {"EXIT"}, Len(b) + 2) /\ b2[Len(b) + 2] = msgs[2]
    BY <1>5, <1>6, <2>4, OnlyJoined
  <2>5. e \in Nat /\ (e > 0 => b2[e] = b[e])
    BY <1>5, <1>6 DEF Only
  <2>. QED BY <2>1, <2>2, <2>3, <2>4, <2>5
<1> HIDE DEF b2
<1>8. InAnswer(a, b2, x2, g, n)
  BY <1>7 DEF Talks, InAnswer
<1>9. CASE f = <<>>
  <2>1. InStatus(b2, x2, n, e, k)
    BY <1>6, <1>7, <1>9 DEF Talks, InStatus
  <2>. QED BY <1>8, <2>1 DEF Talks, b2, msgs, p, r
<1>10. CASE f # <<>>
  <2>1. ~x.early /\ e = 0 /\ x2.fate = f /\ x2.exit = 255
    BY <1>6, <1>7, <1>10 DEF ToldOf
  <2>2. Len(b) + 2 > 0 /\ n < Len(b) + 2
    BY <1>7
  <2>3. InStatus(b2, x2, n, Len(b) + 2, k)
    BY <1>5, <1>6, <1>7, <1>10, <2>1, <2>2 DEF InStatus
  <2>. QED BY <1>8, <2>3 DEF Talks, b2, msgs, p, r
<1>. QED BY <1>9, <1>10

LEMMA TalksShuts ==
  ASSUME NEW a, NEW b \in Seq(Messages), NEW x, NEW g, NEW n, NEW e, NEW k,
         Talks(a, b, x, g, n, e, k), x.stage = "exited",
         NEW x2, x2.stage = "closing", x2.phase = x.phase, x2.fate = x.fate, x2.early = x.early,
         x2.exit = x.exit
  PROVE  \E k1 : Talks(a, b \o <<M("CLOSE")>>, x2, g, n, e, k1)
<1> DEFINE msgs == <<M("CLOSE")>>
           b2 == b \o msgs
           k1 == Len(b) + 1
<1>1. /\ msgs \in Seq(Messages) /\ Only(msgs, Answers, 0) /\ Only(msgs, {"EXIT"}, 0)
      /\ Only(msgs, {"CLOSE"}, 1)
  BY Plainly, One, Spoken DEF Plain, Answers
<1>2. Only(b, Answers, n) /\ Only(b, {"EXIT"}, e) /\ Only(b, {"CLOSE"}, 0)
  BY DEF Talks, InAnswer, InStatus
<1> HIDE DEF msgs
<1>3. Only(b2, Answers, n) /\ (n > 0 => b2[n] = b[n]) /\ Len(b) \in Nat
  BY <1>1, <1>2, OnlyJoined
<1>4. Only(b2, {"EXIT"}, e) /\ (e > 0 => b2[e] = b[e]) /\ e \in Nat /\ e <= Len(b)
  BY <1>1, <1>2, OnlyJoined
<1>5. Only(b2, {"CLOSE"}, k1)
  BY <1>1, <1>2, <1>3, OnlyJoined
<1>6. k1 > 0 /\ e < k1
  BY <1>3, <1>4
<1> HIDE DEF b2, k1
<1>7. InAnswer(a, b2, x2, g, n)
  BY <1>3 DEF Talks, InAnswer
<1>8. InStatus(b2, x2, n, e, k1)
  BY <1>4, <1>5, <1>6 DEF Talks, InStatus
<1>. QED BY <1>7, <1>8 DEF Talks, b2, msgs

\* Each way of the conversation to go on, and what it comes to then.
LEMMA TalkNext ==
  ASSUME Typed, TalkInv, Talk
  PROVE  TalkInv' /\ ExitHonest'
<1>1. Alive
  BY DEF Talk, ClientSide, UserSide, ServerSide, ServerMore, Chats, LogsIn,
     TakesTurn, EndsTurn, Asks, Confirmed, AsksOn, Runs, Notes, Drops, Widens, Shows, IsTold, Leaves,
     Dies, Hears, Remarks, TypesMore, Finishes, Says, Obliges, Responds, Confirms, Starts, Reads,
     ReadsEnd, IsRepaid, Exchanges, Switches, Reacts, Murmurs, Renews, Grants, Writes, Exits, Shuts,
     Adds, Speaks
<1>2. PICK g, n, e, k : Talks(Going, Coming, Affairs, g, n, e, k)
  BY <1>1 DEF TalkInv
<1>3. Going \in Seq(Messages) /\ Coming \in Seq(Messages)
  BY TalkTyped
<1>4. ASSUME NEW i, NEW j, NEW l, NEW m, Talks(Going', Coming', Affairs', i, j, l, m)
      PROVE  TalkInv' /\ ExitHonest'
  <2>1. Affairs'.phase # "over"
    BY <1>4 DEF Talks, InAnswer
  <2>2. c'.wait # "over"
    BY <2>1 DEF Affairs, Phase, InKex
  <2>3. TalkInv'
    BY <1>4 DEF TalkInv, Talks, InAnswer, InStatus, Only
  <2>. QED BY <2>2, <2>3 DEF ExitHonest
<1>5. /\ Affairs.phase = Phase /\ Affairs.stage = s.stage /\ Affairs.fate = s.fate
      /\ Affairs.early = s.early /\ Affairs.exit = c.exit
      /\ Affairs'.phase = Phase' /\ Affairs'.stage = s'.stage /\ Affairs'.fate = s'.fate
      /\ Affairs'.early = s'.early /\ Affairs'.exit = c'.exit
  BY DEF Affairs
<1>6. ASSUME UNCHANGED <<Phase, c.exit, s.stage, s.fate, s.early>>
      PROVE  Affairs' = Affairs
  BY <1>6 DEF Affairs
<1>7. ASSUME NEW msgs, Hears(msgs), Only(msgs, Questions, 0), Heard[1] \notin Notable,
             UNCHANGED <<Phase, c.exit>>
      PROVE  TalkInv' /\ ExitHonest'
  <2>1. \E n1, e1, k1 : Talks(Going, Tail(Coming), Affairs, g, n1, e1, k1)
    BY <1>2, <1>3, <1>7, TalksHeard DEF Hears, Heard
  <2>2. PICK n1, e1, k1 : Talks(Going \o msgs, Tail(Coming), Affairs, g, n1, e1, k1)
    BY <1>3, <1>7, <2>1, TalksGoing DEF Hears
  <2>3. Affairs' = Affairs
    BY <1>6, <1>7 DEF Hears
  <2>. QED BY <1>4, <1>7, <2>2, <2>3 DEF Hears
<1>8. ASSUME NEW msgs, Says(msgs), Only(msgs, Questions, 0), UNCHANGED <<Phase, c.exit>>
      PROVE  TalkInv' /\ ExitHonest'
  <2>1. Talks(Going \o msgs, Coming, Affairs, g, n, e, k)
    BY <1>2, <1>3, <1>8, TalksGoing DEF Says
  <2>2. Affairs' = Affairs
    BY <1>6, <1>8 DEF Says
  <2>. QED BY <1>4, <1>8, <2>1, <2>2 DEF Says
<1>9. ASSUME Alive, c' = c
      PROVE  UNCHANGED <<Phase, c.exit>>
  BY <1>9 DEF Phase, InKex
<1>10. ASSUME NEW t, NEW msgs, Reacts(t, msgs), t \notin Questions, Only(msgs, Notable, 0),
              UNCHANGED <<s.stage, s.fate, s.early>>
       PROVE  TalkInv' /\ ExitHonest'
  <2>1. Talks(Tail(Going), Coming, Affairs, Shift(g), n, e, k)
    BY <1>2, <1>3, <1>10, TalksGoing DEF Reacts, Asked
  <2>2. Talks(Tail(Going), Coming \o msgs, Affairs, Shift(g), n, e, k)
    BY <1>3, <1>10, <2>1, TalksAdded DEF Reacts, Speaks
  <2>3. Affairs' = Affairs
    BY <1>1, <1>6, <1>9, <1>10 DEF Reacts, Speaks
  <2>. QED BY <1>4, <1>10, <2>2, <2>3 DEF Reacts, Speaks
<1>11. ASSUME NEW msgs, Adds(msgs), Only(msgs, Notable, 0), UNCHANGED <<s.stage, s.fate, s.early>>
       PROVE  TalkInv' /\ ExitHonest'
  <2>1. Talks(Going, Coming \o msgs, Affairs, g, n, e, k)
    BY <1>2, <1>3, <1>11, TalksAdded DEF Adds, Speaks
  <2>2. Affairs' = Affairs
    BY <1>1, <1>6, <1>9, <1>11 DEF Adds, Speaks
  <2>. QED BY <1>4, <1>11, <2>1, <2>2 DEF Adds, Speaks
<1>12. ASSUME NEW msgs \in Seq(Messages), AllOf(msgs, Quiet)
       PROVE  Only(msgs, Questions, 0) /\ Only(msgs, Notable, 0)
  <2>1. Quiet \cap Questions = {} /\ Quiet \cap Notable = {}
    BY DEF Quiet, Plain, Notable, Answers
  <2>. QED BY <1>12, <2>1, OnlyHere
<1>13. \A t : t \notin Questions =>
          Only(<<M(t)>>, Questions, 0) /\ \A v : Only(<<Msg(t, v)>>, Questions, 0)
  BY Spoken
<1>14. \A t : t \notin Notable =>
          Only(<<M(t)>>, Notable, 0) /\ \A v : Only(<<Msg(t, v)>>, Notable, 0)
  BY Spoken
<1>15. Only(<<>>, Questions, 0) /\ Only(<<>>, Notable, 0)
  BY Spoken
<1>16. \A m : Hears(m) => /\ Coming # <<>> /\ Coming' = Tail(Coming) /\ Going' = Going \o m
                          /\ UNCHANGED <<s.stage, s.fate, s.early>>
  BY DEF Hears
<1>17. Going \o <<>> = Going /\ Coming \o <<>> = Coming
  BY <1>3, ConcatEmptySeq
<1>18. CASE Chats
  <2>1. PICK msgs \in Seq(Messages) :
           Hears(msgs) /\ AllOf(msgs, Quiet) /\ Heard[1] \in Quiet \cup {"EOF", "NEWKEYS"} /\ Stays
    BY <1>18 DEF Chats
  <2>2. Heard[1] \notin Notable
    BY <2>1 DEF Quiet, Plain, Notable, Answers
  <2>. QED BY <1>7, <1>12, <2>1, <2>2 DEF Stays
<1>19. CASE TakesTurn \/ EndsTurn
  <2>1. PICK msgs \in {<<M("ECDH_INIT")>>, <<M("KEXINIT"), M("ECDH_INIT")>>, <<M("NEWKEYS")>>} :
          Hears(msgs) /\ Stays /\ Heard[1] \in {"KEXINIT", "ECDH_REPLY"}
    BY <1>19 DEF TakesTurn, EndsTurn
  <2>2. Only(msgs, Questions, 0)
    <3>1. /\ M("KEXINIT")[1] = "KEXINIT" /\ M("ECDH_INIT")[1] = "ECDH_INIT"
          /\ M("NEWKEYS")[1] = "NEWKEYS"
      BY DEF M, Msg
    <3>2. /\ Len(<<M("KEXINIT"), M("ECDH_INIT")>>) = 2
          /\ <<M("KEXINIT"), M("ECDH_INIT")>>[1] = M("KEXINIT")
          /\ <<M("KEXINIT"), M("ECDH_INIT")>>[2] = M("ECDH_INIT")
      OBVIOUS
    <3>3. Only(<<M("KEXINIT"), M("ECDH_INIT")>>, Questions, 0)
      BY <3>1, <3>2 DEF Only, Questions
    <3>4. Only(<<M("ECDH_INIT")>>, Questions, 0) /\ Only(<<M("NEWKEYS")>>, Questions, 0)
      BY <1>13 DEF Questions
    <3>. QED BY <2>1, <3>3, <3>4
  <2>. QED BY <1>7, <2>1, <2>2 DEF Stays, Notable, Answers
<1>20. CASE Notes \/ Shows
  BY <1>7, <1>13, <1>15, <1>20 DEF Notes, Shows, Questions, Notable, Answers
<1>21. CASE Widens
  <2> DEFINE w == AddWindow(Heard[2])
             ends == c.eofPending /\ Rest(c.outq, w) = <<>>
  <2>1. Hears(Chunks(c.outq, w) \o (IF ends THEN <<M("EOF")>> ELSE <<>>)) /\ Heard[1] = "ADJUST"
    BY <1>21 DEF Widens
  <2>2. Heard[2] \in Nat
    <3>1. Heard \in Messages
      BY <1>3, <2>1, HeadTail DEF Hears, Heard
    <3>. QED BY <2>1, <3>1, Carries
  <2>3. Only(Chunks(c.outq, w) \o (IF ends THEN <<M("EOF")>> ELSE <<>>), Questions, 0)
    BY <2>2, WidensSays DEF Questions
  <2>4. UNCHANGED <<Phase, c.exit>>
    BY <1>21 DEF Widens
  <2> HIDE DEF w, ends
  <2>. QED BY <1>7, <2>1, <2>3, <2>4 DEF Notable, Answers
<1>22. CASE LogsIn \/ Asks
  <2>1. PICK msgs \in Seq(Messages) :
          /\ Hears(msgs) /\ Heard[1] \in Quiet /\ Phase \in Quietly /\ c'.exit = c.exit
          /\ \/ AllOf(msgs, Quiet) /\ Phase' \in Quietly
             \/ msgs = <<M("OPEN")>> /\ Phase' = "open"
    BY <1>22, Plainly, One DEF LogsIn, Asks, Plain
  <2>2. Heard[1] \notin Notable
    BY <2>1 DEF Quiet, Plain, Notable, Answers
  <2>3. PICK n1, e1, k1 : Talks(Going, Tail(Coming), Affairs, g, n1, e1, k1)
    BY <1>2, <1>3, <1>16, <2>1, <2>2, TalksHeard DEF Heard
  <2>4. Affairs'.phase \in Quietly \cup {"open"}
    BY <1>5, <2>1
  <2>5. /\ g = 0 /\ Affairs.stage = "login"
        /\ Talks(Going, Tail(Coming), Affairs', 0, 0, e1, k1)
    BY <1>5, <1>16, <2>1, <2>3, <2>4, TalksLogin
  <2>6. CASE AllOf(msgs, Quiet)
    <3>1. Talks(Going \o msgs, Tail(Coming), Affairs', 0, 0, e1, k1)
      BY <1>3, <1>12, <2>5, <2>6, TalksGoing
    <3>. QED BY <1>4, <1>16, <2>1, <3>1
  <2>7. CASE msgs = <<M("OPEN")>> /\ Phase' = "open"
    <3>1. Affairs'.stage = "login" /\ Affairs'.phase = "open"
      BY <1>5, <1>16, <2>1, <2>5, <2>7
    <3>2. Talks(Going \o msgs, Tail(Coming), Affairs', Len(Going) + 1, 0, e1, k1)
      BY <1>3, <2>5, <2>7, <3>1, TalksAsks
    <3>. QED BY <1>4, <1>16, <2>1, <3>2
  <2>. QED BY <2>1, <2>6, <2>7
<1>23. CASE Confirmed \/ AsksOn
  <2>1. PICK t \in {"PTY_REQ", "EXEC"} :
          /\ Hears(<<M(t)>>) /\ Heard[1] \in Answers /\ Phase \in {"open", "pty"} /\ c'.exit = c.exit
          /\ \/ Phase' = "pty" /\ t = "PTY_REQ"
             \/ Phase' = "exec" /\ t = "EXEC"
    BY <1>23 DEF Confirmed, AsksOn, Answers
  <2>2. Affairs.stage = "login" /\ \E e1, k1 : Talks(Going, Tail(Coming), Affairs', 0, 0, e1, k1)
    <3>1. Head(Coming)[1] \in Answers
      BY <2>1 DEF Heard
    <3>2. Affairs.phase \in {"open", "pty"} /\ Affairs'.phase \in {"pty", "exec"}
      BY <1>5, <2>1
    <3>. QED BY <1>2, <1>3, <1>5, <1>16, <2>1, <3>1, <3>2, TalksAnswered
  <2>3. PICK e1, k1 : Talks(Going, Tail(Coming), Affairs', 0, 0, e1, k1)
    BY <2>2
  <2>4. Affairs'.stage = "login"
    BY <1>5, <1>16, <2>1, <2>2
  <2>5. Talks(Going \o <<M(t)>>, Tail(Coming), Affairs', Len(Going) + 1, 0, e1, k1)
    BY <1>3, <1>5, <2>1, <2>3, <2>4, TalksAsks
  <2>. QED BY <1>4, <1>16, <2>1, <2>5
<1>24. CASE Runs
  <2>1. /\ Hears(<<>>) /\ Head(Coming)[1] = "SUCCESS" /\ Phase = "exec" /\ Phase' = "run"
        /\ c'.exit = c.exit /\ "SUCCESS" \in Answers
    BY <1>24 DEF Runs, Heard, Answers
  <2>2. PICK e1, k1 : Talks(Going, Tail(Coming), Affairs', 0, 0, e1, k1)
    BY <1>2, <1>3, <1>5, <1>16, <2>1, TalksAnswered
  <2>. QED BY <1>4, <1>16, <1>17, <2>1, <2>2
<1>25. CASE Drops
  <2>1. /\ Hears(<<>>) /\ Phase \in {"pty", "exec"} /\ UNCHANGED <<Phase, c.exit>>
        /\ Heard[1] \in {"DATA", "EXT_DATA", "EXIT", "EOF", "CLOSE"}
    BY <1>25 DEF Drops, Stays
  <2>2. CASE Heard[1] \in {"EXIT", "CLOSE"}
    <3>1. PICK n1, e1, k1 : Talks(Going, Tail(Coming), Affairs, g, n1, e1, k1)
      BY <1>2, <1>3, <1>5, <1>16, <2>1, <2>2, TalksDropped DEF Heard
    <3>2. Affairs' = Affairs
      BY <1>6, <1>16, <2>1
    <3>. QED BY <1>4, <1>16, <1>17, <2>1, <3>1, <3>2
  <2>3. CASE Heard[1] \notin {"EXIT", "CLOSE"}
    BY <1>7, <1>15, <2>1, <2>3 DEF Notable, Answers
  <2>. QED BY <2>2, <2>3
<1>26. CASE IsTold
  <2>1. /\ Hears(<<>>) /\ Head(Coming)[1] = "EXIT" /\ Phase = "run" /\ Phase' = Phase
        /\ c'.exit = Status(Head(Coming)[2])
    BY <1>26 DEF IsTold, Heard
  <2>2. PICK n1, e1, k1 : Talks(Going, Tail(Coming), Affairs', g, n1, e1, k1)
    BY <1>2, <1>3, <1>5, <1>16, <2>1, TalksTold
  <2>. QED BY <1>4, <1>16, <1>17, <2>1, <2>2
<1>27. CASE Leaves
  <2>1. /\ Hears(<<M("CLOSE")>>) /\ Head(Coming)[1] = "CLOSE" /\ c'.wait = "over" /\ c'.exit = c.exit
    BY <1>27 DEF Leaves, Heard
  <2>2. ~Affairs.early => Affairs.exit = ToldOf(Affairs.fate)
    BY <1>2, <1>3, <1>16, <2>1, TalksClosed
  <2>3. ExitHonest'
    BY <1>5, <1>16, <2>1, <2>2 DEF ExitHonest, ToldOf, Told
  <2>. QED BY <2>1, <2>3 DEF TalkInv, Alive
<1>28. CASE Dies
  BY <1>28 DEF Dies, TalkInv, Alive, ExitHonest
<1>29. CASE Remarks
  BY <1>8, <1>12, <1>29 DEF Remarks, Stays
<1>30. CASE TypesMore
  <2>1. PICK m \in 1..MaxBurst : LET data == [i \in 1..m |-> typed + i]
                                 IN  Says(<<>>) \/ Says(Chunks(data, c.window))
    BY <1>30 DEF TypesMore
  <2> DEFINE data == [i \in 1..m |-> typed + i]
  <2>2. data \in Seq(Nat) /\ c.window \in Nat
    BY DEF Typed, ClientState
  <2>3. Says(<<>>) \/ Says(Chunks(data, c.window))
    BY <2>1
  <2> HIDE DEF data
  <2>4. Only(Chunks(data, c.window), Questions, 0)
    BY <2>2, ChunksSpoken DEF Questions
  <2>5. UNCHANGED <<Phase, c.exit>>
    BY <1>30 DEF TypesMore
  <2>. QED BY <1>8, <1>15, <2>3, <2>4, <2>5
<1>31. CASE Finishes
  BY <1>8, <1>13, <1>15, <1>31 DEF Finishes, Questions
<1>32. \A t, m : Reacts(t, m) => /\ Going # <<>> /\ Head(Going)[1] = t /\ Going' = Tail(Going)
                                 /\ Coming' = Coming \o m /\ UNCHANGED <<Phase, c.exit>>
  BY <1>1, <1>9 DEF Reacts, Speaks, Asked
<1>33. \A m : Adds(m) => Going' = Going /\ Coming' = Coming \o m /\ UNCHANGED <<Phase, c.exit>>
  BY <1>1, <1>9 DEF Adds, Speaks
<1>34. CASE Obliges
  <2>1. PICK t \in Quiet \cup {"KEXINIT", "OPEN"}, msgs \in Seq(Messages) :
          Reacts(t, msgs) /\ AllOf(msgs, Quiet)
    BY <1>34 DEF Obliges
  <2>2. UNCHANGED <<s.stage, s.fate, s.early>>
    BY <1>34 DEF Obliges, Serving
  <2>3. Only(msgs, Notable, 0)
    BY <1>12, <2>1
  <2>4. CASE t = "OPEN"
    <3>1. Talks(Tail(Going), Coming, Affairs, 0, 0, e, k)
      BY <1>2, <1>3, <1>32, <2>1, <2>4, TalksServed DEF Questions
    <3>2. Talks(Tail(Going), Coming \o msgs, Affairs, 0, 0, e, k)
      BY <1>3, <2>3, <3>1, TalksAdded
    <3>3. Affairs' = Affairs
      BY <1>6, <1>32, <2>1, <2>2
    <3>. QED BY <1>4, <1>32, <2>1, <3>2, <3>3
  <2>5. CASE t # "OPEN"
    <3>1. t \notin Questions
      BY <2>5 DEF Quiet, Questions
    <3>. QED BY <1>10, <2>1, <2>2, <2>3, <3>1
  <2>. QED BY <2>4, <2>5
<1>35. ASSUME NEW t \in Questions, NEW m \in Messages, Reacts(t, <<m>>),
              UNCHANGED <<s.stage, s.fate, s.early>>,
              \/ t = "OPEN" /\ m[1] = "CONFIRM"
              \/ t = "PTY_REQ" /\ m[1] \in {"SUCCESS", "FAILURE"}
              \/ t = "EXEC" /\ m[1] = "FAILURE"
       PROVE  TalkInv' /\ ExitHonest'
  <2>1. /\ Affairs.stage = "login" /\ Talks(Tail(Going), Coming, Affairs, 0, 0, e, k)
        /\ t = "OPEN" => Affairs.phase = "open"
        /\ t = "PTY_REQ" => Affairs.phase = "pty"
        /\ t = "EXEC" => Affairs.phase = "exec"
    BY <1>2, <1>3, <1>32, <1>35, TalksServed
  <2>2. PICK n1 : Talks(Tail(Going), Coming \o <<m>>, Affairs, 0, n1, e, k)
    BY <1>3, <1>35, <2>1, TalksAnswers
  <2>3. Affairs' = Affairs
    BY <1>6, <1>32, <1>35
  <2>. QED BY <1>4, <1>32, <1>35, <2>2, <2>3
<1>36. CASE Responds
  <2>1. /\ M("SUCCESS") \in Messages /\ M("FAILURE") \in Messages
        /\ M("SUCCESS")[1] = "SUCCESS" /\ M("FAILURE")[1] = "FAILURE"
    BY Plainly DEF Plain, M, Msg
  <2>2. UNCHANGED <<s.stage, s.fate, s.early>>
    BY <1>36 DEF Responds, Serving
  <2>. QED BY <1>35, <1>36, <2>1, <2>2 DEF Responds, Questions
<1>37. CASE Confirms
  <2>1. PICK w \in Windows \cup {0}, p \in MaxPkts : Reacts("OPEN", <<Msg("CONFIRM", <<w, p>>)>>)
    BY <1>37 DEF Confirms
  <2>2. Msg("CONFIRM", <<w, p>>) \in Messages /\ Msg("CONFIRM", <<w, p>>)[1] = "CONFIRM"
    BY Plainly DEF Msg
  <2>3. UNCHANGED <<s.stage, s.fate, s.early>>
    BY <1>37 DEF Confirms
  <2>. QED BY <1>35, <2>1, <2>2, <2>3 DEF Questions
<1>38. CASE Starts
  <2>1. PICK w \in Windows, f \in EarlyFates \cup {<<>>} :
           /\ Reacts("EXEC", <<Msg("ADJUST", w)>> \o Exit(f) \o <<M("SUCCESS")>>)
           /\ s'.early = (f # <<>>) /\ s'.fate = f /\ s'.stage = "running"
    BY <1>38 DEF Starts
  <2>2. /\ Affairs.stage = "login" /\ Talks(Tail(Going), Coming, Affairs, 0, 0, e, k)
        /\ Affairs.phase = "exec"
    BY <1>2, <1>3, <1>32, <2>1, TalksServed DEF Questions
  <2>3. /\ Affairs'.stage = "running" /\ Affairs'.phase = "exec" /\ Affairs'.fate = f
        /\ Affairs'.early = (f # <<>>) /\ Affairs'.exit = Affairs.exit
    BY <1>5, <1>32, <2>1, <2>2
  <2>4. PICK n1, e1, k1 :
           Talks(Tail(Going), Coming \o (<<Msg("ADJUST", w)>> \o Exit(f) \o <<M("SUCCESS")>>),
                 Affairs', 0, n1, e1, k1)
    BY <1>3, <2>2, <2>3, TalksStarts
  <2>. QED BY <1>4, <1>32, <2>1, <2>4
<1>39. CASE Reads \/ ReadsEnd \/ IsRepaid
  <2>1. PICK t \in {"DATA", "EOF", "ADJUST"} : Reacts(t, <<>>)
    BY <1>39 DEF Reads, ReadsEnd, IsRepaid
  <2>2. UNCHANGED <<s.stage, s.fate, s.early>>
    BY <1>39 DEF Reads, ReadsEnd, IsRepaid
  <2>. QED BY <1>10, <1>15, <2>1, <2>2 DEF Questions
<1>40. CASE Switches
  BY <1>10, <1>15, <1>40 DEF Switches, Serving, Questions
<1>41. CASE Exchanges
  <2>1. /\ Going # <<>> /\ Head(Going)[1] = "ECDH_INIT" /\ Going' = Tail(Going) /\ c' = c
        /\ Coming' = Insert(Msgs(down), M("ECDH_REPLY"), M("NEWKEYS"), s.held)
        /\ UNCHANGED <<s.stage, s.fate, s.early>>
    BY <1>41 DEF Exchanges, Insert, Asked, Serving
  <2>2. Coming = Msgs(down) \o s.held /\ Msgs(down) \in Seq(Messages) /\ s.held \in Seq(Messages)
    BY TalkTyped DEF Coming
  <2>3. Talks(Tail(Going), Coming, Affairs, Shift(g), n, e, k)
    BY <1>2, <1>3, <2>1, TalksGoing DEF Questions
  <2>4. PICK n1, e1, k1 : Talks(Tail(Going), Coming', Affairs, Shift(g), n1, e1, k1)
    BY <2>1, <2>2, <2>3, TalksMet
  <2>5. Affairs' = Affairs
    BY <1>1, <1>6, <1>9, <2>1
  <2>. QED BY <1>4, <2>1, <2>4, <2>5
<1>42. CASE Murmurs
  BY <1>11, <1>12, <1>42 DEF Murmurs, Serving
<1>43. CASE Renews
  BY <1>11, <1>14, <1>43 DEF Renews, Serving, Notable, Answers
<1>44. CASE Grants \/ Writes
  <2>1. \E t \in {"ADJUST", "DATA", "EXT_DATA"} : \E v : Adds(<<Msg(t, v)>>)
    BY <1>44 DEF Grants, Writes
  <2>2. UNCHANGED <<s.stage, s.fate, s.early>>
    BY <1>44 DEF Grants, Writes
  <2>. QED BY <1>11, <1>14, <2>1, <2>2 DEF Notable, Answers
<1>45. CASE Exits
  <2>1. PICK f \in AllFates \cup {<<>>} :
           /\ Adds(<<M("EOF")>> \o Exit(f)) /\ (s.early => f = <<>>)
           /\ s'.fate = (IF s.early THEN s.fate ELSE f)
    BY <1>45 DEF Exits
  <2>2. s.stage = "running" /\ s'.stage = "exited" /\ s'.early = s.early
    BY <1>45 DEF Exits
  <2>3. PICK e1 : Talks(Going, Coming \o (<<M("EOF")>> \o Exit(f)), Affairs', g, n, e1, k)
    BY <1>2, <1>3, <1>5, <1>33, <2>1, <2>2, TalksExits
  <2>. QED BY <1>4, <1>33, <2>1, <2>3
<1>46. CASE Shuts
  <2>1. /\ Adds(<<M("CLOSE")>>) /\ s.stage = "exited" /\ s'.stage = "closing"
        /\ s'.fate = s.fate /\ s'.early = s.early
    BY <1>46 DEF Shuts
  <2>2. PICK k1 : Talks(Going, Coming \o <<M("CLOSE")>>, Affairs', g, n, e, k1)
    BY <1>2, <1>3, <1>5, <1>33, <2>1, TalksShuts
  <2>. QED BY <1>4, <1>33, <2>1, <2>2
<1>. QED
  BY <1>18, <1>19, <1>20, <1>21, <1>22, <1>23, <1>24, <1>25, <1>26, <1>27, <1>28, <1>29, <1>30, <1>31,
     <1>34, <1>36, <1>37, <1>38, <1>39, <1>40, <1>41, <1>42, <1>43, <1>44, <1>45, <1>46
     DEF Talk, ClientSide, UserSide, ServerSide, ServerMore

-----------------------------------------------------------------------------
(* The beginning, and the theorem.                                           *)

LEMMA InitTalks == Init => TurnInv /\ TalkInv /\ ExitHonest
<1> SUFFICES ASSUME Init PROVE TurnInv /\ TalkInv /\ ExitHonest
  OBVIOUS
<1>1. PICK strict \in Strict :
         /\ down = Seal(<<Msg("KEXINIT", IF strict THEN 1 ELSE 0)>>, 0, 0)
         /\ s.kex = "init" /\ s.stage = "login" /\ s.fate = <<>> /\ s.early = FALSE /\ s.held = <<>>
  BY DEF Init
<1>2. /\ c.wait = "kexinit" /\ c.back = "service" /\ c.exit = 255 /\ up = Seal(<<M("KEXINIT")>>, 0, 0)
  BY DEF Init
<1>3. PICK hello \in Messages : hello[1] = "KEXINIT" /\ down = Seal(<<hello>>, 0, 0)
  <2>1. PICK v \in {0, 1} : down = Seal(<<Msg("KEXINIT", v)>>, 0, 0)
    BY <1>1
  <2>2. Msg("KEXINIT", v) \in Messages
    BY Plainly DEF Msg
  <2>3. Msg("KEXINIT", v)[1] = "KEXINIT"
    BY DEF Msg
  <2>. QED BY <2>1, <2>2, <2>3
<1>4. M("KEXINIT") \in Messages /\ M("KEXINIT")[1] = "KEXINIT"
  BY Plainly DEF M, Msg
<1>5. /\ Going = <<M("KEXINIT")>> /\ Coming = <<hello>>
  <2>1. \A m \in Messages : Msgs(Seal(<<m>>, 0, 0)) = <<m>>
    BY DEF Msgs, Seal
  <2>2. Going = <<M("KEXINIT")>>
    BY <1>2, <1>4, <2>1 DEF Going
  <2>3. Msgs(down) = <<hello>>
    BY <1>3, <2>1
  <2>. QED BY <1>1, <2>2, <2>3, ConcatEmptySeq DEF Coming
<1>6. Len(Going) = 1 /\ Len(Coming) = 1 /\ Coming[1][1] = "KEXINIT"
  BY <1>3, <1>5
<1>7. /\ \A T \in {Turns, Questions} : Only(Going, T, 0)
      /\ \A T \in {Answers, {"EXIT"}, {"CLOSE"}} : Only(Coming, T, 0)
      /\ Only(Coming, ServerTurns, 1)
  BY <1>3, <1>4, <1>5, OnlyHere DEF Turns, Questions, Answers, ServerTurns
<1>8. TurnInv
  <2>1. Turn(0, 1)
    BY <1>1, <1>6, <1>7 DEF Turn, TurnOf
  <2>2. 0 \in 0..Len(Going) /\ 1 \in 0..Len(Coming)
    BY <1>6
  <2>. QED BY <1>1, <2>1, <2>2 DEF TurnInv, HeldRight
<1>9. TalkInv
  <2>1. Phase = "service"
    BY <1>2 DEF Phase, InKex
  <2>2. InAnswer(Going, Coming, Affairs, 0, 0)
    BY <1>1, <1>7, <2>1 DEF InAnswer, Affairs
  <2>3. InStatus(Coming, Affairs, 0, 0, 0)
    BY <1>1, <1>2, <1>7, <2>1 DEF InStatus, Affairs, ToldOf
  <2>4. 0 \in 0..Len(Going) /\ 0 \in 0..Len(Coming)
    BY <1>6
  <2>. QED BY <2>2, <2>3, <2>4 DEF TalkInv, Talks
<1>10. ExitHonest
  BY <1>2 DEF ExitHonest
<1>. QED BY <1>8, <1>9, <1>10

\* mssh ends with the status the server told of the command, and with 255 if
\* it told none, whatever is exchanged meanwhile and however long the input
\* had ended before (channel_request and ssh_pump in src/mssh/mssh.c), unless
\* the server told it before it answered the request that starts the command.
THEOREM ExitAlwaysHonest == Spec => []ExitHonest
<1> DEFINE Inv == Typed /\ TurnInv /\ TalkInv /\ ExitHonest
<1>1. Inv /\ [Next]_vars => Inv'
  <2> SUFFICES ASSUME Inv, [Next]_vars PROVE Inv'
    OBVIOUS
  <2>1. Typed'
    BY NextTyped
  <2>2. CASE UNCHANGED vars
    <3>1. UNCHANGED <<Going, Coming, Affairs, s, c>>
      BY <2>2 DEF vars, Going, Coming, Msgs, Affairs, Phase, InKex
    <3>2. TurnInv'
      BY <3>1 DEF TurnInv, HeldRight, Turn, Alive
    <3>3. TalkInv'
      BY <3>1 DEF TalkInv, Alive
    <3>4. ExitHonest'
      BY <3>1 DEF ExitHonest, Told
    <3>. QED BY <2>1, <3>2, <3>3, <3>4
  <2>3. CASE Next
    <3>1. Talk /\ HeldRight'
      BY <2>3, NextForms
    <3>. QED BY <2>1, <3>1, TurnNext, TalkNext
  <2>. QED BY <2>2, <2>3
<1>2. Init => Inv
  BY InitTyped, InitTalks
<1>. QED BY <1>1, <1>2, PTL DEF Spec
=============================================================================
