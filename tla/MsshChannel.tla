---------------------------- MODULE MsshChannel ----------------------------
(* mssh (src/mssh/mssh.c): the ssh client from its first packet to its exit  *)
(* status, with its front-end (src/mssh/tty.c, src/xmssh/tty.c) feeding it   *)
(* input, and a server that keeps to the protocol, may ask for new keys at   *)
(* any time after the first exchange, and may vanish without a word.  The    *)
(* connection is a queue of packets each way.  Every packet carries the      *)
(* number of the key and the sequence number it was sealed with, and is      *)
(* accepted only with the receiver's own.                                    *)
EXTENDS Integers, Sequences, FiniteSetsExt

CONSTANTS
  Strict,      \* whether the server marks strict key exchange: a set of Booleans
  MaxWindow,   \* UINT32_MAX
  Windows,     \* the windows a server may announce
  MaxPkts,     \* the packet sizes it may announce
  WindowSize,  \* WINDOW_SIZE, our own window
  SeqWrap,      \* sequence numbers are taken modulo this (2^32 in the code)
  Streams,     \* the streams the command writes to: DATA, EXT_DATA
  Fates,       \* how the command ends: <<request, value>>
  EarlyFates,  \* those that may be told before the answer to the request that starts it
  MaxIn, MaxOut, MaxBurst,           \* bounds: input, output, input read at once
  MaxRekeys, MaxExtra,               \* bounds: key exchanges; keepalives, spare grants and such
  MaxFlight,   \* bound: no more is said unasked with so many packets on their way
  MayVanish    \* whether the server may vanish

ASSUME ChannelAssumption ==
  /\ Strict \subseteq BOOLEAN /\ Streams \subseteq {"DATA", "EXT_DATA"}
  /\ {MaxWindow, WindowSize, SeqWrap, MaxExtra} \subseteq Nat
  /\ Windows \subseteq 0..MaxWindow /\ MaxPkts \subseteq Nat \ {0}
  /\ WindowSize >= 2 /\ SeqWrap >= 2

VARIABLES
  c,      \* the client: the SSH structure, what it waits for, and its front-end
  s,      \* the server
  up,     \* packets on their way to the server
  down,   \* packets on their way to the client
  typed,  \* how much input the user has given
  shown   \* the output the client has shown

vars == <<c, s, up, down, typed, shown>>

Status(fate) == IF fate[1] = "exit-status" THEN fate[2] ELSE IF fate[2] = "TERM" THEN 143 ELSE 255
Seal(msgs, key, seq) ==
  [i \in DOMAIN msgs |-> [key |-> key, seq |-> (seq + i - 1) % SeqWrap, msg |-> msgs[i]]]
Msg(type, n) == <<type, n>>
M(type) == Msg(type, 0)

-----------------------------------------------------------------------------
(* The client *)

Waits == {"kexinit", "ecdh_reply", "newkeys", "service", "probe", "auth", "open",
          "pty", "exec", "run", "over", "died"}
Init ==
  /\ c = [wait |-> "kexinit", back |-> "service", sendKey |-> 0, sendSeq |-> 1, recvKey |-> 0,
        recvSeq |-> 0, strict |-> FALSE, window |-> 0, maxpkt |-> 1, outq |-> <<>>,
        eofPending |-> FALSE, clientEof |-> FALSE, pending |-> 0, exit |-> 255,
        asked |-> FALSE, asks |-> 0]
  /\ \E strict \in Strict :
     /\ down = Seal(<<Msg("KEXINIT", IF strict THEN 1 ELSE 0)>>, 0, 0)
     /\ s = [kex |-> "init", sendKey |-> 0, sendSeq |-> 1, recvKey |-> 0, recvSeq |-> 0,
        strict |-> strict, stage |-> "login", window |-> 0, room |-> 0, unread |-> 0,
        got |-> <<>>, gotEof |-> FALSE, sent |-> 0, fate |-> <<>>, rekeys |-> 0,
        extra |-> 0, held |-> <<>>, early |-> FALSE, gone |-> FALSE, stuck |-> FALSE]
  /\ up = Seal(<<M("KEXINIT")>>, 0, 0)
  /\ typed = 0 /\ shown = <<>>

(* The client sends `msgs' and becomes `c2'. *)
Sends(c2, msgs) ==
  /\ up' = up \o Seal(msgs, c.sendKey, c.sendSeq)
  /\ c' = [c2 EXCEPT !.sendSeq = (@ + Len(msgs)) % SeqWrap]
Sent(c2, msgs) == Sends(c2, msgs) /\ UNCHANGED <<s, typed, shown>>

(* pkt_recv: the packet at the head, if it opens with the client's key. *)
Alive == c.wait \notin {"over", "died"}
Arrived == Alive /\ down # <<>>
Opens(p) == p.key = c.recvKey /\ p.seq = c.recvSeq
Packet == Head(down).msg[1]
Value == Head(down).msg[2]
Taken == (c.recvSeq + 1) % SeqWrap
Got == [c EXCEPT !.recvSeq = Taken, !.asked = FALSE]
Takes(type) == Arrived /\ Opens(Head(down)) /\ Packet = type /\ down' = Tail(down)

Die(c2) == c' = [c2 EXCEPT !.wait = "died", !.exit = 1] /\ UNCHANGED <<s, up, typed, shown>>

InKex == c.wait \in {"kexinit", "ecdh_reply", "newkeys"}
Skipped ==
  /\ Takes("IGNORE")
  /\ IF c.strict /\ c.recvKey = 0 THEN Die(Got) ELSE Sent(Got, <<>>)
GlobalRequest ==
  /\ Takes("GLOBAL_REQUEST")
  /\ IF c.strict /\ c.recvKey = 0 THEN Die(Got)
     ELSE Sent(Got, IF Value = 1 THEN <<M("REQUEST_FAILURE")>> ELSE <<>>)

(* do_kex *)
KexInit ==   \* the first exchange: our KEXINIT is out
  /\ c.wait = "kexinit" /\ Takes("KEXINIT")
  /\ LET strict == Value = 1
     IN  IF strict /\ Got.recvSeq # 1 THEN Die(Got)
         ELSE Sent([Got EXCEPT !.strict = strict, !.wait = "ecdh_reply"], <<M("ECDH_INIT")>>)
Rekey ==     \* pkt_recv_wait and ssh_pump: the server wants new keys
  /\ ~InKex /\ Takes("KEXINIT")
  /\ Sent([Got EXCEPT !.wait = "ecdh_reply", !.back = c.wait], <<M("KEXINIT"), M("ECDH_INIT")>>)
(* The reply is verified, and in the first exchange the host key is known,   *)
(* or the user says yes to it, or this is the end.                           *)
EcdhReply ==
  /\ c.wait = "ecdh_reply" /\ Takes("ECDH_REPLY")
  /\ \/ /\ up' = up \o Seal(<<M("NEWKEYS")>>, c.sendKey, c.sendSeq)
        /\ c' = [Got EXCEPT !.wait = "newkeys", !.sendKey = @ + 1,
                            !.sendSeq = IF c.strict THEN 0 ELSE (@ + 1) % SeqWrap]
        /\ UNCHANGED <<s, typed, shown>>
     \/ c.sendKey = 0 /\ Die(Got)
\* Mutant: the numbers of what is received go on after NEWKEYS.
NewKeys_GoOn ==
  /\ c.wait = "newkeys" /\ Takes("NEWKEYS")
  /\ LET c2 == [Got EXCEPT !.wait = c.back, !.recvKey = @ + 1]
     IN  Sends(c2, IF c.recvKey = 0 THEN <<M("SERVICE_REQUEST")>> ELSE <<>>)
  /\ UNCHANGED <<s, typed, shown>>
NewKeys ==
  /\ c.wait = "newkeys" /\ Takes("NEWKEYS")
  /\ LET c2 == [Got EXCEPT !.wait = c.back, !.recvKey = @ + 1,
                           !.recvSeq = IF c.strict THEN 0 ELSE @]
     IN  Sends(c2, IF c.recvKey = 0 THEN <<M("SERVICE_REQUEST")>> ELSE <<>>)
  /\ UNCHANGED <<s, typed, shown>>

(* request_service, do_auth, open_session, request_pty *)
Service == c.wait = "service" /\ Takes("SERVICE_ACCEPT")
           /\ Sent([Got EXCEPT !.wait = "probe"], <<M("PROBE")>>)
Banner == c.wait \in {"probe", "auth"} /\ Takes("BANNER") /\ Sent(Got, <<>>)
Probed == c.wait = "probe" /\ Takes("PK_OK") /\ Sent([Got EXCEPT !.wait = "auth"], <<M("AUTH")>>)
Authenticated == c.wait \in {"probe", "auth"} /\ Takes("AUTH_SUCCESS")
                 /\ Sent([Got EXCEPT !.wait = "open"], <<M("OPEN")>>)
Refused == c.wait \in {"probe", "auth", "open"} /\ Takes("REFUSED") /\ Die(Got)
Opened ==
  /\ c.wait = "open" /\ Takes("CONFIRM")
  /\ LET c2 == [Got EXCEPT !.window = Value[1], !.maxpkt = Value[2]]
     IN  \/ Sent([c2 EXCEPT !.wait = "pty"], <<M("PTY_REQ")>>)
         \/ Sent([c2 EXCEPT !.wait = "exec"], <<M("EXEC")>>)
PtyAnswered ==   \* refused or granted, the session goes on
  c.wait = "pty" /\ (Takes("SUCCESS") \/ Takes("FAILURE"))
  /\ Sent([Got EXCEPT !.wait = "exec"], <<M("EXEC")>>)
Started == c.wait = "exec" /\ Takes("SUCCESS") /\ Sent([Got EXCEPT !.wait = "run"], <<>>)
NotStarted == c.wait = "exec" /\ Takes("FAILURE") /\ Die(Got)

\* Mutant: the window grows beyond what 32 bits hold.
AddWindow_NoLimit(n) == c.window + n
AddWindow(n) == Min({MaxWindow, c.window + n})
\* Mutant: window given before the command is started is not counted.
EarlyAdjust_Lost == c.wait \in {"pty", "exec"} /\ Takes("ADJUST") /\ Sent(Got, <<>>)
EarlyAdjust == c.wait \in {"pty", "exec"} /\ Takes("ADJUST")
               /\ Sent([Got EXCEPT !.window = AddWindow(Value)], <<>>)
Dropped ==   \* channel_request skips everything that is not its answer
  /\ c.wait \in {"pty", "exec"} /\ Arrived /\ Opens(Head(down)) /\ down' = Tail(down)
  /\ Packet \in {"DATA", "EXT_DATA", "EXIT", "EOF", "CLOSE"}
  /\ Sent(Got, <<>>)

-----------------------------------------------------------------------------
(* The session: input *)

(* What of `q' fits in a window of `w', as packets, and the rest. *)
Fits(q, w) == Min({Len(q), w})
Chunks(q, w) ==
  LET last(i) == Min({i * c.maxpkt, Fits(q, w)})
  IN  [i \in 1 .. (Fits(q, w) + c.maxpkt - 1) \div c.maxpkt |->
        Msg("DATA", SubSeq(q, (i - 1) * c.maxpkt + 1, last(i)))]
Rest(q, w) == SubSeq(q, Fits(q, w) + 1, Len(q))

(* The front-end of a terminal reads no more than ssh_send_room, that of a   *)
(* window hands over whatever is typed: any amount may come at any time.     *)
Input(n) ==
  /\ c.wait = "run" /\ ~c.clientEof /\ n \in 1..MaxBurst /\ typed + n <= MaxIn
  /\ Len(up) < MaxFlight
  /\ typed' = typed + n
  /\ LET data == [i \in 1..n |-> typed + i]
     IN  IF c.outq # <<>> THEN Sends([c EXCEPT !.outq = @ \o data], <<>>)
         ELSE Sends([c EXCEPT !.outq = Rest(data, c.window), !.window = @ - Fits(data, c.window)],
                    Chunks(data, c.window))
  /\ UNCHANGED <<s, down, shown>>
\* Mutant: the end of the input is sent ahead of the input that is queued.
InputEnds_Early ==
  /\ c.wait = "run" /\ ~c.clientEof
  /\ Sent([c EXCEPT !.clientEof = TRUE], <<M("EOF")>>)
  /\ UNCHANGED down
InputEnds ==
  /\ c.wait = "run" /\ ~c.clientEof
  /\ LET c2 == [c EXCEPT !.clientEof = TRUE]
     IN  IF c.outq # <<>> THEN Sent([c2 EXCEPT !.eofPending = TRUE], <<>>)
         ELSE Sent(c2, <<M("EOF")>>)
  /\ UNCHANGED down

(* ssh_pump: one packet of the session *)
Adjusted ==
  /\ c.wait = "run" /\ Takes("ADJUST")
  /\ LET w == AddWindow(Value)
         ends == c.eofPending /\ Rest(c.outq, w) = <<>>
     IN  Sent([Got EXCEPT !.window = w - Fits(c.outq, w), !.outq = Rest(@, w),
                          !.eofPending = @ /\ ~ends],
              Chunks(c.outq, w) \o (IF ends THEN <<M("EOF")>> ELSE <<>>))
Consumed(c2, n) ==   \* the client owes the server n more
  LET owed == c2.pending + n
  IN  IF owed < WindowSize \div 2 THEN Sends([c2 EXCEPT !.pending = owed], <<>>)
      ELSE Sends([c2 EXCEPT !.pending = 0], <<Msg("ADJUST", owed)>>)
\* Mutant: standard error is not given back.
Output_StderrLost ==
  /\ c.wait = "run" /\ \/ Takes("DATA") /\ Consumed(Got, Len(Value))
                       \/ Takes("EXT_DATA") /\ Sends(Got, <<>>)
  /\ shown' = shown \o Value /\ UNCHANGED <<s, typed>>
\* Mutant: the end of the input closes the output too.
Output_HalfOpen ==
  /\ c.wait = "run" /\ (Takes("DATA") \/ Takes("EXT_DATA"))
  /\ shown' = (IF c.clientEof THEN shown ELSE shown \o Value) /\ Consumed(Got, Len(Value))
  /\ UNCHANGED <<s, typed>>
Output ==
  /\ c.wait = "run" /\ (Takes("DATA") \/ Takes("EXT_DATA"))
  /\ shown' = shown \o Value /\ Consumed(Got, Len(Value))
  /\ UNCHANGED <<s, typed>>
Exited == c.wait = "run" /\ Takes("EXIT") /\ Sent([Got EXCEPT !.exit = Status(Value)], <<>>)
\* Mutant: the session is over once both sides have sent their end.
ServerEof_Ends ==
  c.wait = "run" /\ Takes("EOF")
  /\ Sent([Got EXCEPT !.wait = IF c.clientEof THEN "over" ELSE @, 
                      !.exit = IF @ = 255 THEN 0 ELSE @], <<>>)
ServerEof == c.wait = "run" /\ Takes("EOF") /\ Sent(Got, <<>>)
Closed == c.wait = "run" /\ Takes("CLOSE") /\ Sent([Got EXCEPT !.wait = "over"], <<M("CLOSE")>>)
Answered == c.wait = "run" /\ Takes("REQUEST_FAILURE") /\ Sent(Got, <<>>)
WindowChange == c.wait = "run" /\ s.extra + c.asks < MaxExtra /\ Len(up) < MaxFlight
                /\ Sent([c EXCEPT !.asks = @ + 1], <<M("WINDOW_CHANGE")>>) /\ UNCHANGED down

-----------------------------------------------------------------------------
(* Silence.  The session loop asks after KEEPALIVE_SEND_S without a packet   *)
(* and gives up after KEEPALIVE_DEAD_S: a server that is there answers in    *)
(* between.  Before the session, the handshake limit does it, which every    *)
(* read waits with; the time of the question about the host key does not     *)
(* count.  In the session the clock is looked at between packets only: a read *)
(* of the rest of a packet, or a write into a connection that takes no more,  *)
(* has no limit, and does not come back from a server that is stuck (the     *)
(* keepalive itself is such a write).  Nor has a read of do_kex.             *)

Silent == Alive /\ down = <<>>
Keepalive ==
  /\ Silent /\ c.wait = "run" /\ ~c.asked /\ (s.gone \/ s.extra + c.asks < MaxExtra)
  /\ Sent([c EXCEPT !.asked = TRUE, !.asks = Min({@ + 1, MaxExtra})], <<M("KEEPALIVE")>>)
  /\ UNCHANGED down
\* Mutant: only the session is timed.
GivesUp_Session ==
  Silent /\ s.gone /\ UNCHANGED down /\ c.wait = "run" /\ c.asked /\ ~s.stuck /\ Die(c)
GivesUp ==
  /\ Silent /\ s.gone /\ UNCHANGED down
  /\ \/ c.wait = "run" /\ c.asked /\ ~s.stuck
     \/ c.wait # "run" /\ c.back # "run"     \* the handshake is timed
  /\ Die(c)

-----------------------------------------------------------------------------
(* The server.  Between its KEXINIT and its NEWKEYS it sends nothing else:   *)
(* what it has to answer is held.                                            *)

Up == ~s.gone /\ Alive
MaySend == Up /\ s.kex # "init" /\ Len(down) < MaxFlight
Replies(s2, msgs) ==
  IF s.kex = "init" THEN s' = [s2 EXCEPT !.held = @ \o msgs] /\ UNCHANGED down
  ELSE /\ down' = down \o Seal(msgs, s.sendKey, s.sendSeq)
       /\ s' = [s2 EXCEPT !.sendSeq = (@ + Len(msgs)) % SeqWrap]
ServerTakes(type) ==
  /\ Up /\ up # <<>> /\ Head(up).msg[1] = type
  /\ up' = Tail(up) /\ UNCHANGED <<c, typed, shown>>
In == [s EXCEPT !.recvSeq = (@ + 1) % SeqWrap]
ServerOpens == up # <<>> => Head(up).key = s.recvKey /\ Head(up).seq = s.recvSeq

SrvKexInit == ServerTakes("KEXINIT") /\ s' = In /\ UNCHANGED down
SrvEcdh ==   \* its reply and its NEWKEYS under the old keys, what it held under the new ones
  /\ ServerTakes("ECDH_INIT")
  /\ LET under == Seal(<<M("ECDH_REPLY"), M("NEWKEYS")>>, s.sendKey, s.sendSeq)
         seq == IF s.strict THEN 0 ELSE (s.sendSeq + 2) % SeqWrap
     IN  /\ down' = down \o under \o Seal(s.held, s.sendKey + 1, seq)
         /\ s' = [In EXCEPT !.kex = "keys", !.sendKey = @ + 1, !.held = <<>>,
                            !.sendSeq = (seq + Len(s.held)) % SeqWrap]
SrvNewKeys ==
  /\ ServerTakes("NEWKEYS") /\ UNCHANGED down
  /\ s' = [In EXCEPT !.kex = "idle", !.recvKey = @ + 1, !.recvSeq = IF s.strict THEN 0 ELSE @]
SrvLogin ==
  \/ ServerTakes("SERVICE_REQUEST") /\ Replies(In, <<M("SERVICE_ACCEPT")>>)
  \/ ServerTakes("PROBE") /\ \E a \in {<<M("PK_OK")>>, <<M("AUTH_SUCCESS")>>, <<M("REFUSED")>>} :
                                Replies(In, a)
  \/ ServerTakes("AUTH") /\ \E a \in {<<M("BANNER"), M("AUTH_SUCCESS")>>, <<M("REFUSED")>>} :
                                Replies(In, a)
  \/ ServerTakes("OPEN") /\ \E w \in Windows \cup {0}, p \in MaxPkts :
        Replies([In EXCEPT !.room = w, !.window = WindowSize], <<Msg("CONFIRM", <<w, p>>)>>)
  \/ ServerTakes("OPEN") /\ Replies(In, <<M("REFUSED")>>)
  \/ ServerTakes("PTY_REQ") /\ \E a \in {"SUCCESS", "FAILURE"} : Replies(In, <<M(a)>>)
  \/ ServerTakes("EXEC") /\ \E w \in Windows, f \in EarlyFates \cup {<<>>} :
        Replies([In EXCEPT !.stage = "running", !.room = @ + w, !.early = f # <<>>, !.fate = f],
                <<Msg("ADJUST", w)>> \o (IF f = <<>> THEN <<>> ELSE <<Msg("EXIT", f)>>)
                  \o <<M("SUCCESS")>>)
  \/ ServerTakes("EXEC") /\ Replies(In, <<M("FAILURE")>>)
SrvInput ==
  /\ ServerTakes("DATA") /\ UNCHANGED down
  /\ LET data == Head(up).msg[2]
     IN  s' = [In EXCEPT !.got = @ \o data, !.unread = @ + Len(data), !.room = @ - Len(data)]
SrvEof == ServerTakes("EOF") /\ s' = [In EXCEPT !.gotEof = TRUE] /\ UNCHANGED down
SrvAdjust == ServerTakes("ADJUST") /\ s' = [In EXCEPT !.window = @ + Head(up).msg[2]] /\ UNCHANGED down
SrvAnswer == ServerTakes("KEEPALIVE") /\ Replies(In, <<M("REQUEST_FAILURE")>>)
SrvNoted == (ServerTakes("WINDOW_CHANGE") \/ ServerTakes("REQUEST_FAILURE")) /\ s' = In /\ UNCHANGED down

Spare == s.extra + c.asks < MaxExtra
Serves(s2, msgs) == MaySend /\ Replies(s2, msgs) /\ UNCHANGED <<c, up, typed, shown>>
Running == s.stage = "running"
SrvOutput(n) ==
  /\ Running /\ n <= s.window /\ s.sent + n <= MaxOut
  /\ \E t \in Streams :
        Serves([s EXCEPT !.sent = @ + n, !.window = @ - n], <<Msg(t, [i \in 1..n |-> s.sent + i])>>)
SrvGrant ==
  /\ Running /\ s.unread > 0
  /\ Serves([s EXCEPT !.unread = 0, !.room = @ + s.unread], <<Msg("ADJUST", s.unread)>>)
SrvSpare ==   \* a window may grow at any time, by more than was used
  /\ Running /\ Spare
  /\ Serves([s EXCEPT !.extra = @ + 1, !.room = @ + MaxWindow], <<Msg("ADJUST", MaxWindow)>>)
SrvNoise ==
  /\ Spare /\ s.stage \in {"login", "running"}
  /\ \E m \in {M("IGNORE"), Msg("GLOBAL_REQUEST", 1)} : Serves([s EXCEPT !.extra = @ + 1], <<m>>)
SrvRekey ==
  /\ s.kex = "idle" /\ s.rekeys < MaxRekeys /\ s.stage \in {"login", "running"}
  /\ Up /\ Len(down) < MaxFlight /\ down' = down \o Seal(<<M("KEXINIT")>>, s.sendKey, s.sendSeq)
  /\ s' = [s EXCEPT !.kex = "init", !.rekeys = @ + 1, !.sendSeq = (@ + 1) % SeqWrap]
  /\ UNCHANGED <<c, up, typed, shown>>
SrvExit ==   \* sshd: the end of the output, then the status, then the close
  /\ Running /\ \E f \in IF s.early THEN {<<>>} ELSE Fates \cup {<<>>} :
        Serves([s EXCEPT !.stage = "exited", !.fate = IF s.early THEN @ ELSE f],
               <<M("EOF")>> \o (IF f = <<>> THEN <<>> ELSE <<Msg("EXIT", f)>>))
SrvClose == s.stage = "exited" /\ Serves([s EXCEPT !.stage = "closing"], <<M("CLOSE")>>)
Vanish ==    \* stuck: in the middle of a packet, or without having taken what was sent
  /\ MayVanish /\ Up
  /\ \E stuck \in BOOLEAN : s' = [s EXCEPT !.gone = TRUE, !.stuck = stuck]
  /\ UNCHANGED <<c, up, down, typed, shown>>

-----------------------------------------------------------------------------
Handshake == KexInit \/ Rekey \/ EcdhReply \/ NewKeys \/ Service \/ Banner \/ Probed
             \/ Authenticated \/ Refused \/ Opened \/ PtyAnswered \/ Started \/ NotStarted
Pump == Skipped \/ GlobalRequest \/ EarlyAdjust \/ Dropped \/ Adjusted \/ Output \/ Exited \/ ServerEof
        \/ Closed \/ Answered
Client == Handshake \/ Pump \/ Keepalive \/ GivesUp
User == (\E n \in 1..MaxBurst : Input(n)) \/ InputEnds \/ WindowChange
ServerReceives == SrvKexInit \/ SrvEcdh \/ SrvNewKeys \/ SrvLogin \/ SrvInput \/ SrvEof
                  \/ SrvAdjust \/ SrvAnswer \/ SrvNoted
ServerSends == (\E n \in 1..2 : SrvOutput(n)) \/ SrvGrant \/ SrvSpare \/ SrvNoise \/ SrvRekey
               \/ SrvExit \/ SrvClose
Next == Client \/ User \/ ServerReceives \/ ServerSends \/ Vanish

Fairness ==
  /\ WF_vars(Client) /\ WF_vars(ServerReceives) /\ WF_vars(SrvGrant) /\ WF_vars(SrvClose)
Spec == Init /\ [][Next]_vars
FairSpec == Spec /\ Fairness

-----------------------------------------------------------------------------
(* What the packets of `q' of these types carry: bytes, or window.           *)
Load(p, types) == IF p.msg[1] \notin types THEN 0
                  ELSE IF p.msg[1] = "ADJUST" THEN p.msg[2] ELSE Len(p.msg[2])
Carried(q, types) ==
  LET sum[i \in 0..Len(q)] == IF i = 0 THEN 0 ELSE sum[i - 1] + Load(q[i], types)
  IN  sum[Len(q)]

(* Each packet is opened with the key and the number it was sealed with,     *)
(* however the key exchanges of the session overlap data, requests and       *)
(* keepalives; otherwise the client dies of a MAC failure and so would the   *)
(* server.                                                                   *)
KeysAgree == (Arrived => Opens(Head(down))) /\ (Up => ServerOpens)

(* Input reaches the command complete and in order through the window, the   *)
(* queue and the key exchanges, and its end comes after all of it.           *)
InPipe == INSTANCE Pipe WITH written <- typed, read <- s.got,
                             ended <- c.clientEof, drained <- s.gotEof
InputKept == InPipe!Spec

(* So does the output, standard error included, and a session that ends      *)
(* properly has shown all of it.                                             *)
OutPipe == INSTANCE Pipe WITH written <- s.sent, read <- shown,
                              ended <- s.stage \notin {"login", "running"},
                              drained <- c.wait = "over"
OutputKept == OutPipe!Spec

(* The client never sends more than the server allowed, also when the window *)
(* grows while input is queued, and up to its limit (add_window).            *)
NeverOversends ==
  /\ c.window \in 0..MaxWindow
  /\ c.window + Carried(up, {"DATA"}) + Carried(down, {"ADJUST"}) <= s.room

(* What the server may not send yet is on its way, owed or in flight: no     *)
(* part of our window is ever lost, or the command would stall for good.     *)
WindowReturned ==
  Alive /\ s.stage # "login" =>
    s.window + Carried(down, {"DATA", "EXT_DATA"}) + c.pending + Carried(up, {"ADJUST"}) = WindowSize

(* mssh ends with the status of the command if the server told one, also     *)
(* when the input had ended long before, and with 255 if it told none.       *)
Told == IF s.fate = <<>> THEN 255 ELSE Status(s.fate)
ExitHonest == c.wait = "over" /\ ~s.early => c.exit = Told
(* The same for a server that tells it before it answers the request that    *)
(* starts the command ("e.g. exit-status notifications ... before our actual *)
(* reply arrives", src/mssh/mssh.c:1409): the code drops it.                 *)
EarlyExitHonest == c.wait = "over" => c.exit = Told

(* Input given to a command that keeps reading arrives, and a key exchange   *)
(* the server starts is completed: the session does not freeze.              *)
Ending == ~Alive \/ s.gone \/ ~(s.stage \in {"login", "running"})
InputArrives == \A n \in 1..MaxIn : typed >= n ~> Len(s.got) >= n \/ Ending
(* A server that vanishes is noticed: at any point before the session, also  *)
(* in the middle of a packet or of a key exchange it started; in the session *)
(* if it vanishes between packets and no key exchange is under way, whatever *)
(* else is.  (hs_arm, wait_readable, ssh_keepalive.)                         *)
Session == c.wait = "run" \/ c.back = "run"
Untimed == Session /\ (s.stuck \/ InKex)
SilenceNoticed == s.gone /\ ~Untimed ~> ~Alive \/ Untimed
(* "When it has sent none for KEEPALIVE_DEAD_S, the connection is taken as   *)
(* gone" (src/mssh/mssh.c:117).  The code breaks it: a session that waits    *)
(* for the server's part of a key exchange, or for the rest of a packet, or  *)
(* for room to send, looks at no clock.                                      *)
AnySilenceNoticed == s.gone ~> ~Alive
=============================================================================
