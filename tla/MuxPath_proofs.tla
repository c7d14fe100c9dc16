---------------------------- MODULE MuxPath_proofs ----------------------------
(* PathServed and SessionKept, for any processes, programs, sockets and     *)
(* connections, when plain `mux' is only run while no other mux runs        *)
(* (SoloStart).                                                             *)
(*                                                                          *)
(* Then there is one session: a process bears it, or a message on its way   *)
(* to an attacher does.  A process bears it from the probe on, while it     *)
(* serves, and while it takes it over or binds the path anew; the old owner *)
(* waiting for a size may take it back, and shares it with the client of    *)
(* its connection.  Only the bearer binds or unlinks the path.              *)
(*                                                                          *)
(* For SessionKept, who has been sent a session is still there to receive   *)
(* it, and gets what follows it, as long as no process is killed.           *)
EXTENDS MuxSession_proofs

Holding(p) == pc[p] \in {"probed", "unlinked", "rebind", "bind"} \/ Driving(p)
Bears(p) == \/ Holding(p)
            \/ pc[p] = "sizing"
            \/ pc[p] = "hsSize" /\ c2s[conn[p]] = <<>>

\* The listening socket on its way, and the session of a daemon, which exits.
Conveys(k) == ClientHeld(k) /\ OfType("lsock", s2c[k])
Releases(k) == /\ ClientHeld(k) /\ OfType("sess", s2c[k])
               /\ \/ OfType("D", s2c[k])
                  \/ \E c \in Proc : pc[c] = "fetch" /\ conn[c] = k

Paired(p, q) == pc[p] = "hsSize" /\ pc[q] = "sizing" /\ conn[p] = conn[q]
OneBearer ==
  \A p, q \in Proc : p # q /\ Bears(p) /\ Bears(q) => Paired(p, q) \/ Paired(q, p)
BearerOrConveyed ==
  \A p \in Proc, k \in Conn : Bears(p) /\ Conveys(k) => pc[p] = "hsSize" /\ conn[p] = k
BearerOrReleased == \A p \in Proc, k \in Conn : ~(Bears(p) /\ Releases(k))
OneMessage ==
  \A j, k \in Conn : /\ Conveys(j) /\ Conveys(k) => j = k
                     /\ Releases(j) /\ Releases(k) => j = k
                     /\ ~(Conveys(j) /\ Releases(k))
Tokens == OneBearer /\ BearerOrConveyed /\ BearerOrReleased /\ OneMessage

\* Whoever bears the session has the socket the path leads to, if any.
Placed == /\ \A p \in Proc : Bears(p) /\ lsock[p] # None => path = lsock[p]
          /\ \A k \in Conn, l \in Sock : Flies(k, l) => path = l

\* Between the probe and the bind of a new session there is nothing else.
Clear(p) == conn[p] = None /\ obs[p] = None /\ lsock[p] = None /\ leak[p] = {}
Bound(p) ==
  /\ pc[p] \in StartPC => \A q \in Proc : q # p => pc[q] = "idle"
  /\ pc[p] \in StartPC \cup {"idle"} => Clear(p)
  /\ pc[p] \in {"query", "take", "sock", "fetch", "rebind", "bind", "handed",
                "observe", "again"} => lsock[p] = None
  /\ pc[p] \in {"unlinked", "bind"} => path = None
Roles == \A p \in Proc : Bound(p)

SoloInv == Tokens /\ Placed /\ Roles

-----------------------------------------------------------------------------
(* Steps that leave the session where it is.                                *)

\* Nothing is conveyed or released that was not.
KeepsLoad == \A k \in Conn : /\ Conveys(k)' => Conveys(k)
                             /\ Releases(k)' => Releases(k)
                             /\ \A l \in Sock : Flies(k, l)' => Flies(k, l)

LEMMA MuteLoad ==
  ASSUME Mute
  PROVE  KeepsLoad
<1>. SUFFICES ASSUME NEW k \in Conn, ClientHeld(k)', s2c'[k] # <<>>
              PROVE  /\ Conveys(k)' => Conveys(k)
                     /\ Releases(k)' => Releases(k)
                     /\ \A l \in Sock : Flies(k, l)' => Flies(k, l)
  BY DEF KeepsLoad, Conveys, Releases, Flies, OfType, InSeq
<1>1. ClientHeld(k) /\ Lighter(s2c'[k], s2c[k])
  BY DEF Mute, Lightens
<1>2. \A t \in {"sess", "lsock", "D"} : OfType(t, s2c'[k]) => OfType(t, s2c[k])
  BY <1>1 DEF Lighter
<1>3. \A m : InSeq(m, s2c'[k]) => InSeq(m, s2c[k])
  BY <1>1 DEF Lighter
<1>4. \A c \in Proc : pc'[c] = "fetch" /\ conn'[c] = k =>
        (pc[c] = "fetch" /\ conn[c] = k) \/ OfType("D", s2c[k])
  BY DEF Mute, KeepsClients, ClientPC
<1>. QED BY <1>1, <1>2, <1>3, <1>4 DEF Conveys, Releases, Flies, OfType

\* What process p does, when the others stay as they are.
Moves(p) ==
  /\ \A q \in Proc : q # p => /\ pc'[q] = pc[q] /\ conn'[q] = conn[q] /\ obs'[q] = obs[q]
                              /\ lsock'[q] = lsock[q] /\ leak'[q] = leak[q]
  /\ pc[p] # "idle" \/ \A q \in Proc : pc[q] \notin StartPC
  /\ Holding(p)' => Holding(p)
  /\ pc'[p] \in {"sizing", "hsSize"} => pc'[p] = pc[p] /\ conn'[p] = conn[p]
  /\ lsock'[p] \in {lsock[p], None}
  /\ \/ path' = path
     \/ path' = None /\ Holding(p) /\ lsock'[p] = None
  /\ pc'[p] \in StartPC => pc[p] \in StartPC
  /\ pc'[p] \in StartPC \cup {"idle"} => Clear(p)'
  /\ pc'[p] \in {"query", "take", "sock", "fetch", "rebind", "bind", "handed",
                 "observe", "again"} => lsock'[p] = None
  /\ pc'[p] \in {"unlinked", "bind"} => path' = None

LEMMA TokensFrame ==
  ASSUME Tokens, KeepsLoad,
         \A p \in Proc : Bears(p)' =>
           /\ Bears(p)
           /\ pc[p] \in {"sizing", "hsSize"} => pc'[p] = pc[p] /\ conn'[p] = conn[p]
  PROVE  Tokens'
<1>1. OneBearer'
  BY DEF Tokens, OneBearer, Paired
<1>2. BearerOrConveyed' /\ BearerOrReleased'
  BY DEF Tokens, BearerOrConveyed, BearerOrReleased, KeepsLoad
<1>3. OneMessage'
  BY DEF Tokens, OneMessage, KeepsLoad
<1>. QED BY <1>1, <1>2, <1>3 DEF Tokens

LEMMA MoveBearer ==
  ASSUME TypeInv, KeepsSize, NEW p \in Proc, Moves(p), NEW q \in Proc, Bears(q)'
  PROVE  /\ Bears(q)
         /\ pc[q] \in {"sizing", "hsSize"} => pc'[q] = pc[q] /\ conn'[q] = conn[q]
<1>1. CASE q = p
  <2>1. Holding(p)' => Holding(p) /\ pc[p] \notin {"sizing", "hsSize"}
    BY DEF Moves, Holding, Driving, Serving
  <2>2. pc'[p] \in {"sizing", "hsSize"} => pc'[p] = pc[p] /\ conn'[p] = conn[p]
    BY DEF Moves
  <2>. QED BY <1>1, <2>1, <2>2 DEF Bears, KeepsSize
<1>2. CASE q # p
  <2>1. pc'[q] = pc[q] /\ conn'[q] = conn[q] /\ lsock'[q] = lsock[q]
    BY <1>2 DEF Moves
  <2>. QED BY <2>1 DEF Bears, Holding, Driving, Serving, KeepsSize
<1>. QED BY <1>1, <1>2

LEMMA MoveFrame ==
  ASSUME TypeInv, SoloInv, KeepsSize, KeepsLoad, NEW p \in Proc, Moves(p)
  PROVE  SoloInv'
<1>. USE NoneAssumption
<1>1. Tokens'
  BY MoveBearer, TokensFrame DEF SoloInv
<1>2. CASE path' = path
  <2>1. \A q \in Proc : lsock'[q] \in {lsock[q], None}
    BY DEF Moves
  <2>2. Placed'
    BY <1>2, <2>1, MoveBearer DEF SoloInv, Placed, KeepsLoad
  <2>3. Roles'
    BY <1>2 DEF SoloInv, Roles, Bound, Clear, Moves, StartPC
  <2>. QED BY <1>1, <2>2, <2>3 DEF SoloInv
<1>3. CASE path' = None /\ Holding(p) /\ lsock'[p] = None
  <2>1. pc[p] \notin {"sizing", "hsSize"} /\ Bears(p)
    BY <1>3 DEF Bears, Holding, Driving, Serving
  <2>2. \A q \in Proc : q # p => ~Bears(q)'
    BY <2>1, MoveBearer DEF SoloInv, Tokens, OneBearer, Paired
  <2>3. \A k \in Conn, l \in Sock : Flies(k, l) => Conveys(k)
    BY DEF Flies, Conveys, Passed, InSeq, OfType
  <2>4. \A k \in Conn, l \in Sock : ~Flies(k, l)'
    BY <2>1, <2>3 DEF KeepsLoad, SoloInv, Tokens, BearerOrConveyed
  <2>5. Placed'
    BY <1>3, <2>2, <2>4 DEF Placed
  <2>6. Roles'
    BY <1>3 DEF SoloInv, Roles, Bound, Clear, Moves, StartPC
  <2>. QED BY <1>1, <2>5, <2>6 DEF SoloInv
<1>. QED BY <1>2, <1>3 DEF Moves

LEMMA StillFrame ==
  ASSUME SoloInv, KeepsSize, KeepsLoad, UNCHANGED <<pc, conn, obs, lsock, leak, path>>
  PROVE  SoloInv'
<1>1. \A p \in Proc : Bears(p)' => Bears(p)
  BY DEF Bears, Holding, Driving, Serving, KeepsSize
<1>2. Tokens'
  BY <1>1, TokensFrame DEF SoloInv
<1>3. Placed'
  BY <1>1 DEF SoloInv, Placed, KeepsLoad
<1>4. Roles'
  BY DEF SoloInv, Roles, Bound, Clear
<1>. QED BY <1>2, <1>3, <1>4 DEF SoloInv

-----------------------------------------------------------------------------
(* The steps that hand it on.                                               *)

\* Who bears the session, unless in a takeover, bears it alone.
LEMMA Alone ==
  ASSUME Tokens, NEW p \in Proc, Bears(p), pc[p] \notin {"sizing", "hsSize"}
  PROVE  /\ \A q \in Proc : q # p => ~Bears(q)
         /\ \A k \in Conn : ~Conveys(k) /\ ~Releases(k)
BY DEF Tokens, OneBearer, Paired, BearerOrConveyed, BearerOrReleased

LEMMA Deserted ==
  ASSUME Roles, NEW p \in Proc, pc[p] \in StartPC \/ \A q \in Proc : pc[q] = "idle"
  PROVE  /\ \A k \in Conn : ~ClientHeld(k)
         /\ \A l \in Sock : ~ListenerOpen(l)
<1>. USE NoneAssumption
<1>1. \A q \in Proc : pc[q] \in StartPC \cup {"idle"} /\ Clear(q)
  BY DEF Roles, Bound
<1>2. \A k \in Conn : ~ClientHeld(k)
  BY <1>1 DEF ClientHeld, Clear, StartPC, ClientPC
<1>3. \A l \in Sock : ~ListenerOpen(l)
  BY <1>1, <1>2 DEF ListenerOpen, InFlight, Clear
<1>. QED BY <1>2, <1>3

LEMMA ProbeSolo ==
  ASSUME OwnerInv, SoloInv, SoloStart, NEW p \in Proc, ListenProbe(p)
  PROVE  SoloInv'
<1>. USE NoneAssumption
<1>1. /\ \A q \in Proc : pc[q] = "idle" /\ Clear(q)
      /\ \A k \in Conn : ~ClientHeld(k)
  BY Deserted DEF ListenProbe, MayStart, SoloInv, Roles, Bound
<1>2. /\ pc'[p] = "probed" /\ \A q \in Proc : q # p => pc'[q] = "idle"
      /\ \A q \in Proc : Clear(q)'
  BY <1>1 DEF ListenProbe, Clear, procVars, OwnerInv, AcceptInv, TypeInv, TypeOK
<1>3. \A k \in Conn : ~ClientHeld(k)'
  BY <1>1, <1>2 DEF ClientHeld, Clear, ClientPC
<1>4. \A q \in Proc : Bears(q)' => q = p
  BY <1>2 DEF Bears, Holding, Driving, Serving
<1>5. Tokens'
  BY <1>3, <1>4 DEF Tokens, OneBearer, BearerOrConveyed, BearerOrReleased, OneMessage,
     Conveys, Releases
<1>6. Placed'
  BY <1>2, <1>3 DEF Placed, Flies, Clear
<1>7. Roles'
  BY <1>2 DEF Roles, Bound, StartPC
<1>. QED BY <1>5, <1>6, <1>7 DEF SoloInv

LEMMA BindSolo ==
  ASSUME OwnerInv, SoloInv, KeepsSize, KeepsLoad, NEW p \in Proc, NEW l \in Sock,
         pc[p] \in {"unlinked", "bind"}, Binds(p, l), UNCHANGED <<conn, obs, leak>>
  PROVE  SoloInv'
<1>. USE NoneAssumption
<1>1. /\ pc'[p] = "loop" /\ lsock'[p] = l /\ path' = l
      /\ \A q \in Proc : q # p => pc'[q] = pc[q] /\ lsock'[q] = lsock[q]
  BY DEF Binds, OwnerInv, AcceptInv, TypeInv, TypeOK
<1>2. /\ Bears(p)
      /\ \A q \in Proc : q # p => ~Bears(q)
      /\ \A k \in Conn : ~Conveys(k) /\ ~Releases(k)
  BY Alone DEF Bears, Holding, SoloInv
<1>3. \A q \in Proc : Bears(q)' => q = p
  BY <1>1, <1>2 DEF Bears, Holding, Driving, Serving, KeepsSize
<1>4. Tokens'
  BY <1>2, <1>3, TokensFrame DEF SoloInv, Bears, Holding
<1>5. \A k \in Conn, m \in Sock : ~Flies(k, m)
  BY <1>2 DEF Flies, Conveys, Passed, InSeq, OfType
<1>6. Placed'
  BY <1>1, <1>3, <1>5 DEF Placed, KeepsLoad
<1>7. \A q \in Proc : q # p => pc[q] \notin {"unlinked", "bind"}
  BY <1>2 DEF Bears, Holding
<1>8. Roles'
  BY <1>1, <1>7 DEF SoloInv, Roles, Bound, Clear, StartPC
<1>. QED BY <1>4, <1>6, <1>8 DEF SoloInv

\* The session is in one message: when that is received, there is none.
LEMMA SessHead ==
  ASSUME NEW q \in Seq(Reply), q # <<>>, Single(q), Head(q).type = "sess"
  PROVE  OfType("sess", q) /\ ~OfType("sess", Tail(q))
<1>1. 1 \in DOMAIN q /\ q[1].type = "sess"
  OBVIOUS
<1>2. \A i \in DOMAIN Tail(q) :
        /\ i + 1 \in DOMAIN q /\ i + 1 # 1
        /\ Tail(q)[i] = q[i + 1]
  OBVIOUS
<1>. QED BY <1>1, <1>2 DEF Single, OfType

\* The session arrives: from a live instance, which goes on bearing it, or from
\* a daemon, whose client then binds the path anew.
LEMMA ReceivedSolo ==
  ASSUME OwnerInv, SoloInv, KeepsSize, Mute, NEW p \in Proc, AttachSession(p)
  PROVE  SoloInv'
<1>. USE NoneAssumption
<1>0. KeepsLoad
  BY MuteLoad
<1>1. /\ pc[p] \in {"take", "fetch"} /\ lsock[p] = None
      /\ \A q \in Proc : q # p => pc'[q] = pc[q] /\ conn'[q] = conn[q]
      /\ UNCHANGED <<obs, lsock, leak, path>>
  BY DEF AttachSession, sockVars, SoloInv, Roles, Bound, OwnerInv, AcceptInv, TypeInv, TypeOK
<1>2. CASE pc'[p] = "sock" /\ UNCHANGED conn
  <2>1. Moves(p)
    BY <1>1, <1>2 DEF Moves, Holding, Driving, Serving, StartPC
  <2>. QED BY <1>0, <2>1, MoveFrame DEF OwnerInv, AcceptInv
<1>3. CASE pc[p] = "fetch" /\ pc'[p] = "rebind"
  <2>1. PICK k \in Conn : k = conn[p]
    BY <1>1 DEF ClientPC, OwnerInv, AcceptInv, TypeInv, RoleOK
  <2>2. /\ s2c[k] \in Seq(Reply) /\ s2c[k] # <<>> /\ Head(s2c[k]).type = "sess"
        /\ s2c'[k] = Tail(s2c[k]) /\ ClientHeld(k)
    BY <1>3, <2>1 DEF AttachSession, Recv, ClientHeld, ClientPC, Replies, OwnerInv, AcceptInv,
       TypeInv, TypeOK
  <2>3. Releases(k)
    BY <1>3, <2>1, <2>2, HeadType DEF Releases
  <2>4. ~OfType("sess", s2c'[k])
    <3>1. Single(s2c[k])
      BY <2>2 DEF OwnerInv, Shares, OneSess
    <3>. QED BY <2>2, <3>1, SessHead
  <2>5. \A q \in Proc : ~Bears(q)
    BY <2>3 DEF SoloInv, Tokens, BearerOrReleased
  <2>6. \A c \in Conn : ~Conveys(c)' /\ ~Releases(c)'
    BY <1>0, <2>3, <2>4 DEF SoloInv, Tokens, OneMessage, KeepsLoad, Releases
  <2>7. \A q \in Proc : Bears(q)' => q = p
    BY <1>1, <2>5 DEF Bears, Holding, Driving, Serving, KeepsSize
  <2>8. Tokens'
    BY <2>6, <2>7 DEF Tokens, OneBearer, BearerOrConveyed, BearerOrReleased, OneMessage
  <2>9. Placed'
    BY <1>0, <1>1, <2>7 DEF SoloInv, Placed, KeepsLoad
  <2>10. Roles'
    BY <1>1, <1>3 DEF SoloInv, Roles, Bound, Clear, StartPC
  <2>. QED BY <2>8, <2>9, <2>10 DEF SoloInv
<1>. QED BY <1>1, <1>2, <1>3 DEF AttachSession, OwnerInv, AcceptInv, TypeInv, TypeOK

\* The listening socket arrives.
LEMMA ListenerSolo ==
  ASSUME OwnerInv, SoloInv, KeepsSize, Mute, NEW p \in Proc, AttachListener(p)
  PROVE  SoloInv'
<1>. USE NoneAssumption
<1>0. KeepsLoad
  BY MuteLoad
<1>1. PICK k \in Conn : k = conn[p]
  BY DEF AttachListener, ClientPC, OwnerInv, AcceptInv, TypeInv, RoleOK
<1>. DEFINE m == Head(s2c[k])
<1>2. /\ s2c[k] \in Seq(Reply) /\ s2c[k] # <<>> /\ m.type = "lsock" /\ m \in Reply
      /\ s2c'[k] = Tail(s2c[k]) /\ ClientHeld(k)
  BY <1>1 DEF AttachListener, Recv, ClientHeld, ClientPC, Replies, OwnerInv, AcceptInv,
     TypeInv, TypeOK
<1>3. /\ pc[p] = "sock" /\ pc'[p] = "sizing" /\ lsock'[p] = m.sock
      /\ \A q \in Proc : q # p => pc'[q] = pc[q] /\ lsock'[q] = lsock[q]
      /\ UNCHANGED <<conn, obs, leak, path>>
  BY <1>1 DEF AttachListener, sockVars, OwnerInv, AcceptInv, TypeInv, TypeOK
<1>4. m.sock \in Sock /\ m = Passed(m.sock)
  BY <1>2 DEF Reply, Passed
<1>5. Flies(k, m.sock) /\ Conveys(k)
  <2>1. 1 \in DOMAIN s2c[k] /\ s2c[k][1] = m
    BY <1>2
  <2>. QED BY <1>2, <1>4, <2>1 DEF Flies, Conveys, InSeq, OfType
<1>6. path = m.sock
  BY <1>4, <1>5 DEF SoloInv, Placed
<1>7. ~OfType("lsock", s2c'[k])
  <2>1. ASSUME NEW i \in DOMAIN Tail(s2c[k]), Tail(s2c[k])[i].type = "lsock" PROVE FALSE
    <3>1. /\ i + 1 \in DOMAIN s2c[k] /\ i + 1 # 1 /\ 1 \in DOMAIN s2c[k]
          /\ Tail(s2c[k])[i] = s2c[k][i + 1] /\ s2c[k][1] = m /\ s2c[k][i + 1] \in Reply
      BY <1>2
    <3>2. s2c[k][i + 1].sock \in Sock /\ s2c[k][i + 1] = Passed(s2c[k][i + 1].sock)
      BY <2>1, <3>1 DEF Reply, Passed
    <3>3. s2c[k][i + 1].sock = path
      BY <1>2, <3>1, <3>2 DEF Flies, InSeq, SoloInv, Placed
    <3>4. Once(Passed(path), s2c[k])
      BY <1>4, <1>5, <1>6 DEF OwnerInv, AcceptInv, OneFlight
    <3>. QED BY <1>4, <1>6, <3>1, <3>2, <3>3, <3>4 DEF Once
  <2>. QED BY <1>2, <2>1 DEF OfType
<1>8. \A q \in Proc : Bears(q) => pc[q] = "hsSize" /\ conn[q] = k
  BY <1>5 DEF SoloInv, Tokens, BearerOrConveyed
<1>9. \A q \in Proc : Bears(q)' => q = p \/ (Bears(q) /\ pc'[q] = "hsSize" /\ conn'[q] = k)
  BY <1>3, <1>8 DEF Bears, Holding, Driving, Serving, KeepsSize
<1>10. \A c \in Conn : ~Conveys(c)' /\ ~Releases(c)'
  BY <1>0, <1>5, <1>7 DEF SoloInv, Tokens, OneMessage, KeepsLoad, Conveys
<1>11. OneBearer'
  <2>. SUFFICES ASSUME NEW q \in Proc, NEW r \in Proc, q # r, Bears(q)', Bears(r)'
                PROVE  Paired(q, r)' \/ Paired(r, q)'
    BY DEF OneBearer
  <2>1. q = p \/ r = p
    BY <1>8, <1>9 DEF SoloInv, Tokens, OneBearer, Paired
  <2>. QED BY <1>1, <1>3, <1>9, <2>1 DEF Paired
<1>12. Tokens'
  BY <1>10, <1>11 DEF Tokens, BearerOrConveyed, BearerOrReleased, OneMessage
<1>13. Placed'
  BY <1>0, <1>3, <1>6, <1>9 DEF SoloInv, Placed, KeepsLoad
<1>14. Roles'
  BY <1>3 DEF SoloInv, Roles, Bound, Clear, StartPC
<1>. QED BY <1>12, <1>13, <1>14 DEF SoloInv

\* The size is sent: the old owner will find it.
LEMMA SizeSolo ==
  ASSUME OwnerInv, SoloInv, KeepsSize, Mute, NEW p \in Proc, AttachSize(p)
  PROVE  SoloInv'
<1>. USE NoneAssumption
<1>0. KeepsLoad
  BY MuteLoad
<1>1. PICK k \in Conn : k = conn[p]
  BY DEF AttachSize, ClientPC, OwnerInv, AcceptInv, TypeInv, RoleOK
<1>2. /\ pc[p] = "sizing" /\ pc'[p] = "loop"
      /\ \A q \in Proc : q # p => pc'[q] = pc[q] /\ conn'[q] = conn[q] /\ obs'[q] = obs[q]
      /\ UNCHANGED <<lsock, leak, path>>
  BY <1>1 DEF AttachSize, sockVars, OwnerInv, AcceptInv, TypeInv, TypeOK
<1>3. Bears(p)
  BY <1>2 DEF Bears
<1>4. \A q \in Proc : q # p => ~Bears(q)'
  <2>. SUFFICES ASSUME NEW q \in Proc, q # p, Bears(q)' PROVE FALSE
    OBVIOUS
  <2>1. Bears(q)
    BY <1>2 DEF Bears, Holding, Driving, Serving, KeepsSize
  <2>2. pc[q] = "hsSize" /\ conn[q] = k
    BY <1>1, <1>2, <1>3, <2>1 DEF SoloInv, Tokens, OneBearer, Paired
  <2>3. Away(q)'
    BY <1>1, <2>2, SizeArrives DEF Offers
  <2>. QED BY <1>2, <2>2, <2>3 DEF Away, Bears, Holding, Driving, Serving
<1>5. \A c \in Conn : ~Conveys(c)' /\ ~Releases(c)'
  BY <1>0, <1>2, <1>3 DEF KeepsLoad, SoloInv, Tokens, BearerOrConveyed, BearerOrReleased
<1>6. Tokens'
  BY <1>4, <1>5 DEF Tokens, OneBearer, BearerOrConveyed, BearerOrReleased, OneMessage
<1>7. Placed'
  BY <1>0, <1>2, <1>3, <1>4 DEF SoloInv, Placed, KeepsLoad
<1>8. Roles'
  BY <1>2 DEF SoloInv, Roles, Bound, Clear, StartPC
<1>. QED BY <1>6, <1>7, <1>8 DEF SoloInv

\* No size came and the client is gone: the old owner goes on.
LEMMA LostSolo ==
  ASSUME OwnerInv, SoloInv, KeepsSize, Mute, NEW p \in Proc, TakeoverLost(p)
  PROVE  SoloInv'
<1>. USE NoneAssumption
<1>0. KeepsLoad
  BY MuteLoad
<1>1. /\ pc[p] \in {"hsCmd", "hsSize"} /\ pc'[p] = "loop" /\ lsock[p] \in Sock
      /\ conn[p] \in Conn /\ c2s[conn[p]] = <<>> /\ ~ClientHeld(conn[p])
      /\ \A q \in Proc : q # p => pc'[q] = pc[q] /\ conn'[q] = conn[q]
      /\ UNCHANGED <<obs, lsock, leak, path>>
  BY DEF TakeoverLost, Drops, ClientOpen, ServerPC, sockVars, OwnerInv, AcceptInv, TypeInv,
     TypeOK, RoleOK
<1>2. Bears(p)
  BY <1>1 DEF Bears, Holding, Driving, Serving
<1>3. /\ \A q \in Proc : q # p => ~Bears(q)
      /\ \A k \in Conn : ~Conveys(k) /\ ~Releases(k)
  <2>1. \A q \in Proc : pc[q] = "sizing" => conn[q] # conn[p]
    BY <1>1 DEF ClientHeld, ClientPC
  <2>2. ~Conveys(conn[p])
    BY <1>1 DEF Conveys
  <2>. QED BY <1>1, <1>2, <2>1, <2>2 DEF SoloInv, Tokens, OneBearer, Paired,
       BearerOrConveyed, BearerOrReleased
<1>4. \A q \in Proc : Bears(q)' => q = p
  BY <1>1, <1>3 DEF Bears, Holding, Driving, Serving, KeepsSize
<1>5. Tokens'
  BY <1>0, <1>3, <1>4 DEF Tokens, OneBearer, BearerOrConveyed, BearerOrReleased, OneMessage, KeepsLoad
<1>6. Placed'
  BY <1>0, <1>1, <1>2, <1>4 DEF SoloInv, Placed, KeepsLoad
<1>7. Roles'
  BY <1>1 DEF SoloInv, Roles, Bound, Clear, StartPC
<1>. QED BY <1>5, <1>6, <1>7 DEF SoloInv

-----------------------------------------------------------------------------
(* The steps that send.                                                     *)

\* What a message sent on the connection k changes of what is on its way.
LEMMA SendLoad ==
  ASSUME OwnerInv, NEW k \in Conn, NEW m \in Reply,
         \A c \in Conn : ClientHeld(c)' <=> ClientHeld(c),
         \A c \in Conn : s2c'[c] = IF c = k THEN Append(s2c[c], m) ELSE s2c[c],
         \A c \in Proc : pc[c] = "fetch" \/ pc'[c] = "fetch" => pc'[c] = pc[c] /\ conn'[c] = conn[c]
  PROVE  \A c \in Conn :
           /\ c # k => (Conveys(c)' => Conveys(c)) /\ (Releases(c)' => Releases(c))
           /\ Conveys(c)' => Conveys(c) \/ m.type = "lsock"
           /\ Releases(c)' => Releases(c) \/ m.type \in {"sess", "D"}
           /\ \A l \in Sock : Flies(c, l)' => Flies(c, l) \/ (c = k /\ m = Passed(l))
<1>1. \A c \in Conn : s2c[c] \in Seq(Reply)
  BY DEF OwnerInv, AcceptInv, TypeInv, TypeOK, Replies
<1>2. /\ \A t : OfType(t, s2c'[k]) <=> OfType(t, s2c[k]) \/ m.type = t
      /\ \A n : InSeq(n, s2c'[k]) => InSeq(n, s2c[k]) \/ n = m
  BY <1>1, Sending
<1>. SUFFICES ASSUME NEW c \in Conn
              PROVE  /\ c # k => (Conveys(c)' => Conveys(c)) /\ (Releases(c)' => Releases(c))
                     /\ Conveys(c)' => Conveys(c) \/ m.type = "lsock"
                     /\ Releases(c)' => Releases(c) \/ m.type \in {"sess", "D"}
                     /\ \A l \in Sock : Flies(c, l)' => Flies(c, l) \/ (c = k /\ m = Passed(l))
  OBVIOUS
<1>3. \A b \in Proc : (pc'[b] = "fetch" /\ conn'[b] = c) <=> (pc[b] = "fetch" /\ conn[b] = c)
  OBVIOUS
<1>4. CASE c = k
  BY <1>2, <1>3, <1>4 DEF Conveys, Releases, Flies, OfType
<1>5. CASE c # k
  <2>1. s2c'[c] = s2c[c]
    BY <1>5
  <2>. QED BY <1>3, <1>5, <2>1 DEF Conveys, Releases, Flies, OfType, InSeq
<1>. QED BY <1>4, <1>5

LEMMA AcceptSolo ==
  ASSUME OwnerInv, SoloInv, KeepsSize, NEW p \in Proc, NEW role \in {"loop", "daemon"},
         NEW next, NEW answer,
         <<next, answer>> \in {<<"hsCmd", "L">>, <<"dCmd", "D">>},
         Accepts(p, role, next, answer)
  PROVE  SoloInv'
<1>. USE NoneAssumption
<1>. DEFINE l == lsock[p]
<1>0. PICK k \in Conn : k = Head(backlog[l])
  BY DEF Accepts, OwnerInv, AcceptInv, TypeInv, TypeOK, Backlogs
<1>1. l \in Sock /\ ListenerOpen(l) /\ backlog[l] \in Seq(Conn) /\ backlog[l] # <<>>
  BY DEF Accepts, ListenerOpen, OwnerInv, AcceptInv, TypeInv, TypeOK, Backlogs
<1>2. 1 \in DOMAIN backlog[l] /\ backlog[l][1] = k
  BY <1>0, <1>1
<1>3. ClientHeld(k) => Unanswered(k)
  BY <1>1, <1>2 DEF OwnerInv, Fresh
<1>4. UNCHANGED <<obs, lsock, leak, path>>
  BY DEF Accepts
<1>5. CASE UNCHANGED <<pc, conn, s2c>>
  <2>1. KeepsLoad
    BY <1>4, <1>5 DEF KeepsLoad, Conveys, Releases, Flies, ClientHeld
  <2>. QED BY <1>4, <1>5, <2>1, StillFrame
<1>6. CASE /\ pc' = [pc EXCEPT ![p] = next]
           /\ conn' = [conn EXCEPT ![p] = k]
           /\ s2c' = Send(s2c, k, [type |-> answer])
  <2>1. /\ pc[p] = role /\ pc'[p] = next
        /\ \A q \in Proc : q # p => pc'[q] = pc[q] /\ conn'[q] = conn[q]
    BY <1>6 DEF Accepts, OwnerInv, AcceptInv, TypeInv, TypeOK
  <2>2. \A c \in Conn : ClientHeld(c)' <=> ClientHeld(c)
    BY <1>4, <2>1 DEF ClientHeld, ClientPC
  <2>. DEFINE m == [type |-> answer]
  <2>3. m \in Reply /\ m.type \notin {"lsock", "sess"} /\ \A n \in Sock : m # Passed(n)
    BY DEF Reply, Passed
  <2>4. \A c \in Conn : s2c'[c] = IF c = k THEN Append(s2c[c], m) ELSE s2c[c]
    BY <1>6 DEF Send, OwnerInv, AcceptInv, TypeInv, TypeOK, Replies
  <2>5. \A c \in Proc : pc[c] = "fetch" \/ pc'[c] = "fetch" => pc'[c] = pc[c] /\ conn'[c] = conn[c]
    BY <2>1
  <2>. HIDE DEF m
  <2>6. ~Releases(k)'
    <3>1. ASSUME ClientHeld(k) PROVE ~OfType("sess", s2c'[k])
      <4>1. s2c[k] = <<>> /\ s2c[k] \in Seq(Reply)
        BY <1>3, <3>1 DEF Unanswered, OwnerInv, AcceptInv, TypeInv, TypeOK, Replies
      <4>2. ~OfType("sess", s2c[k])
        BY <4>1 DEF OfType
      <4>3. OfType("sess", Append(s2c[k], m)) => OfType("sess", s2c[k]) \/ m.type = "sess"
        BY <2>3, <4>1, Sending
      <4>. QED BY <2>3, <2>4, <4>2, <4>3
    <3>. QED BY <2>2, <3>1 DEF Releases
  <2>7. KeepsLoad
    BY <2>2, <2>3, <2>4, <2>5, <2>6, SendLoad DEF KeepsLoad
  <2>8. Moves(p)
    BY <1>4, <2>1 DEF Accepts, Moves, Holding, Driving, Serving, StartPC
  <2>. QED BY <2>7, <2>8, MoveFrame DEF OwnerInv, AcceptInv
<1>. QED BY <1>0, <1>5, <1>6 DEF Accepts

\* The session is sent.  The live instance still bears it, the daemon does not.
LEMMA SessionSolo ==
  ASSUME OwnerInv, OwnerInv', SoloInv, KeepsSize, NEW p \in Proc, NEW k \in Conn, k = conn[p],
         NEW next, <<pc[p], next>> \in {<<"hsCmd", "hsAck">>, <<"dCmd", "dAck">>},
         Sends(p, k, [type |-> "sess", win |-> win[p]], next), UNCHANGED <<leak, path>>
  PROVE  SoloInv'
<1>. USE NoneAssumption
<1>. DEFINE m == [type |-> "sess", win |-> win[p]]
<1>1. m \in Reply /\ m.type = "sess" /\ \A l \in Sock : m # Passed(l)
  BY DEF Reply, Passed, OwnerInv, AcceptInv, TypeInv, TypeOK
<1>. HIDE DEF m
<1>2. Sends(p, k, m, next)
  BY DEF m
<1>3. /\ \A c \in Conn : ClientHeld(c)' <=> ClientHeld(c)
      /\ \A c \in Conn : s2c'[c] = IF c = k THEN Append(s2c[c], m) ELSE s2c[c]
  BY <1>1, <1>2, SendsKeep DEF OwnerInv
<1>4. /\ pc'[p] = next /\ \A q \in Proc : q # p => pc'[q] = pc[q]
      /\ UNCHANGED <<conn, obs, lsock>>
  BY DEF Sends, OwnerInv, AcceptInv, TypeInv, TypeOK
<1>5. \A c \in Conn :
        /\ Conveys(c)' => Conveys(c)
        /\ c # k => (Releases(c)' => Releases(c))
        /\ \A l \in Sock : Flies(c, l)' => Flies(c, l)
  BY <1>1, <1>3, <1>4, SendLoad
<1>6. lsock[p] \in Sock /\ Bears(p)
  BY DEF Bears, Holding, Driving, Serving, OwnerInv, AcceptInv, TypeInv, RoleOK
<1>7. CASE next = "hsAck"
  <2>1. Serves(p, k)'
    BY <1>4, <1>7 DEF Serves, ClientPC
  <2>2. ~Releases(k)'
    BY <1>4, <1>7, <2>1 DEF Releases, OwnerInv, Phases, InPhase
  <2>3. KeepsLoad
    BY <1>5, <2>2 DEF KeepsLoad
  <2>4. Moves(p)
    BY <1>4, <1>6, <1>7 DEF Moves, Holding, Driving, Serving, StartPC
  <2>. QED BY <2>3, <2>4, MoveFrame DEF OwnerInv, AcceptInv
<1>8. CASE next = "dAck"
  <2>1. /\ \A q \in Proc : q # p => ~Bears(q)
        /\ \A c \in Conn : ~Conveys(c) /\ ~Releases(c)
    BY <1>6, <1>8, Alone DEF SoloInv
  <2>2. \A q \in Proc : ~Bears(q)'
    BY <1>4, <1>8, <2>1 DEF Bears, Holding, Driving, Serving, KeepsSize
  <2>3. \A c \in Conn : ~Conveys(c)' /\ (Releases(c)' => c = k)
    BY <1>5, <2>1
  <2>4. Tokens'
    BY <2>2, <2>3 DEF Tokens, OneBearer, BearerOrConveyed, BearerOrReleased, OneMessage
  <2>5. Placed'
    BY <1>5, <2>2 DEF SoloInv, Placed
  <2>6. Roles'
    BY <1>4, <1>8 DEF SoloInv, Roles, Bound, Clear, StartPC
  <2>. QED BY <2>4, <2>5, <2>6 DEF SoloInv
<1>. QED BY <1>7, <1>8

\* The listening socket is sent: who waits and the message are on one connection.
LEMMA OfferSolo ==
  ASSUME OwnerInv, OwnerInv', SoloInv, KeepsSize, NEW p \in Proc, NEW k \in Conn, k = conn[p],
         pc[p] = "hsAck", Sends(p, k, [type |-> "lsock", sock |-> lsock[p]], "hsSize"),
         UNCHANGED <<leak, path>>
  PROVE  SoloInv'
<1>. USE NoneAssumption
<1>. DEFINE m == [type |-> "lsock", sock |-> lsock[p]]
<1>1. m \in Reply /\ m.type = "lsock" /\ lsock[p] \in Sock /\ m = Passed(lsock[p])
  BY DEF Reply, Passed, OwnerInv, AcceptInv, TypeInv, TypeOK, RoleOK
<1>. HIDE DEF m
<1>2. Sends(p, k, m, "hsSize")
  BY DEF m
<1>3. /\ \A c \in Conn : ClientHeld(c)' <=> ClientHeld(c)
      /\ \A c \in Conn : s2c'[c] = IF c = k THEN Append(s2c[c], m) ELSE s2c[c]
  BY <1>1, <1>2, SendsKeep DEF OwnerInv
<1>4. /\ pc'[p] = "hsSize" /\ \A q \in Proc : q # p => pc'[q] = pc[q]
      /\ UNCHANGED <<conn, obs, lsock>>
  BY DEF Sends, OwnerInv, AcceptInv, TypeInv, TypeOK
<1>5. \A c \in Conn :
        /\ c # k => (Conveys(c)' => Conveys(c))
        /\ Releases(c)' => Releases(c)
        /\ \A l \in Sock : Flies(c, l)' => Flies(c, l) \/ (c = k /\ m = Passed(l))
  BY <1>1, <1>3, <1>4, SendLoad
<1>6. Bears(p) /\ path = lsock[p]
  BY <1>1 DEF Bears, Holding, Driving, Serving, SoloInv, Placed
<1>7. /\ \A q \in Proc : q # p => ~Bears(q)
      /\ \A c \in Conn : ~Conveys(c) /\ ~Releases(c)
  BY <1>6, Alone DEF SoloInv
<1>8. \A q \in Proc : Bears(q)' => q = p
  BY <1>4, <1>7 DEF Bears, Holding, Driving, Serving, KeepsSize
<1>9. \A c \in Conn : ~Releases(c)' /\ (Conveys(c)' => c = k)
  BY <1>5, <1>7
<1>10. Tokens'
  BY <1>4, <1>8, <1>9 DEF Tokens, OneBearer, BearerOrConveyed, BearerOrReleased, OneMessage
<1>11. Placed'
  <2>1. \A l \in Sock : m = Passed(l) => l = path
    BY <1>1, <1>6 DEF Passed
  <2>. QED BY <1>4, <1>5, <1>6, <1>8, <2>1 DEF SoloInv, Placed
<1>12. Roles'
  BY <1>4 DEF SoloInv, Roles, Bound, Clear, StartPC
<1>. QED BY <1>10, <1>11, <1>12 DEF SoloInv

-----------------------------------------------------------------------------
(* Every step.                                                              *)

LEMMA GoneSolo ==
  ASSUME OwnerInv, SoloInv, KeepsSize, Mute, NEW p \in Proc, Gone(p),
         pc[p] # "idle" /\ (path' = path \/ (path' = None /\ Holding(p)))
  PROVE  SoloInv'
<1>. USE NoneAssumption
<1>1. /\ pc'[p] = "idle" /\ Clear(p)'
      /\ \A q \in Proc : q # p => /\ pc'[q] = pc[q] /\ conn'[q] = conn[q] /\ obs'[q] = obs[q]
                                  /\ lsock'[q] = lsock[q] /\ leak'[q] = leak[q]
  BY DEF Gone, Clear, OwnerInv, AcceptInv, TypeInv, TypeOK
<1>2. Moves(p)
  BY <1>1 DEF Moves, Holding, Driving, Serving, StartPC, Clear
<1>. QED BY <1>2, MuteLoad, MoveFrame DEF OwnerInv, AcceptInv

\* cleanup() unlinks the path only where a socket is held: by a process in the
\* loop, which bears the session.
LEMMA QuitsSolo ==
  ASSUME OwnerInv, SoloInv, KeepsSize, Mute, NEW p \in Proc, Quits(p),
         Looping(p) \/ pc[p] \in {"observe", "again"}
  PROVE  SoloInv'
<1>1. pc[p] # "loop" => lsock[p] = None
  BY DEF Looping, SoloInv, Roles, Bound
<1>2. Gone(p) /\ pc[p] # "idle" /\ (path' = path \/ (path' = None /\ Holding(p)))
  BY <1>1, NoneAssumption DEF Quits, Looping, Holding, Driving, Serving
<1>. QED BY <1>2, GoneSolo

LEMMA SoloNext ==
  ASSUME SoloStart
  PROVE  OwnerInv /\ SoloInv /\ [Next]_vars => SoloInv'
<1>. SUFFICES ASSUME OwnerInv, SoloInv, [Next]_vars
              PROVE  SoloInv'
  OBVIOUS
<1>. USE NoneAssumption
<1>0. /\ OwnerInv' /\ KeepsSize /\ TypeInv
      /\ Mute \/ \E p \in Proc : Speaks(p)
  BY AcceptNext, OwnerNext DEF OwnerInv, AcceptInv, Continues
<1>1. ASSUME NEW p \in Proc, Accept(p) PROVE SoloInv'
  BY <1>1, <1>0, AcceptSolo DEF Accept
<1>2. ASSUME NEW p \in Proc, DaemonAccept(p) PROVE SoloInv'
  BY <1>2, <1>0, AcceptSolo DEF DaemonAccept
<1>3. ASSUME NEW p \in Proc, DaemonSession(p) PROVE SoloInv'
  <2>1. conn[p] \in Conn
    BY <1>3 DEF DaemonSession, ServerPC, OwnerInv, AcceptInv, TypeInv, RoleOK
  <2>2. Sends(p, conn[p], [type |-> "sess", win |-> win[p]], "dAck") /\ UNCHANGED <<leak, path>>
    BY <1>3 DEF DaemonSession, Sends, procVars, sockVars
  <2>. QED BY <1>3, <1>0, <2>1, <2>2, SessionSolo DEF DaemonSession
<1>4. ASSUME NEW p \in Proc, TakeoverSession(p) \/ TakeoverListener(p) PROVE SoloInv'
  <2>1. conn[p] \in Conn
    BY <1>4 DEF TakeoverSession, TakeoverListener, ServerPC, OwnerInv, AcceptInv, TypeInv, RoleOK
  <2>2. CASE Drops(p, "loop") /\ UNCHANGED s2c
    <3>1. /\ pc[p] \in {"hsCmd", "hsAck"} /\ pc'[p] = "loop" /\ conn'[p] = None /\ lsock[p] \in Sock
          /\ \A q \in Proc : q # p => pc'[q] = pc[q] /\ conn'[q] = conn[q]
          /\ UNCHANGED <<obs, lsock, leak, path, s2c>>
      BY <1>4, <2>2 DEF TakeoverSession, TakeoverListener, Drops, sockVars,
         OwnerInv, AcceptInv, TypeInv, TypeOK, RoleOK
    <3>2. Moves(p)
      BY <3>1 DEF Moves, Holding, Driving, Serving, StartPC
    <3>3. Mute
      BY <3>1, FlushLightens DEF ClientHeld, ClientPC, Mute, KeepsClients
    <3>. QED BY <1>0, <3>2, <3>3, MuteLoad, MoveFrame
  <2>3. CASE TakeoverSession(p) /\ Sends(p, conn[p], [type |-> "sess", win |-> win[p]], "hsAck")
    <3>1. pc[p] = "hsCmd" /\ UNCHANGED <<leak, path>>
      BY <2>3 DEF TakeoverSession, sockVars
    <3>. QED BY <1>0, <2>1, <2>3, <3>1, SessionSolo
  <2>4. CASE /\ TakeoverListener(p)
             /\ Sends(p, conn[p], [type |-> "lsock", sock |-> lsock[p]], "hsSize")
    <3>1. pc[p] = "hsAck" /\ UNCHANGED <<leak, path>>
      BY <2>4 DEF TakeoverListener, sockVars
    <3>. QED BY <1>0, <2>1, <2>4, <3>1, OfferSolo
  <2>. QED BY <1>4, <2>2, <2>3, <2>4 DEF TakeoverSession, TakeoverListener, Sends, sockVars
<1>. SUFFICES ASSUME Mute PROVE SoloInv'
  BY <1>0, <1>1, <1>2, <1>3, <1>4 DEF Speaks
<1>5. KeepsLoad
  BY MuteLoad
<1>6. ASSUME NEW p \in Proc, AttachRefused(p) PROVE SoloInv'
  BY <1>6, <1>0, QuitsSolo DEF AttachRefused
<1>7. ASSUME NEW p \in Proc, ObserveEnd(p) PROVE SoloInv'
  BY <1>7, <1>0, QuitsSolo DEF ObserveEnd
<1>8. ASSUME NEW p \in Proc, ObserveLeave(p) PROVE SoloInv'
  BY <1>8, <1>0, QuitsSolo DEF ObserveLeave
<1>9. ASSUME NEW p \in Proc, Quit(p) PROVE SoloInv'
  BY <1>9, <1>0, QuitsSolo DEF Quit
<1>10. ASSUME NEW p \in Proc, AttachLost(p) PROVE SoloInv'
  BY <1>10, <1>0, GoneSolo DEF AttachLost, sockVars
<1>11. ASSUME NEW p \in Proc, BindFails(p) PROVE SoloInv'
  BY <1>11, <1>0, GoneSolo DEF BindFails, sockVars
<1>12. ASSUME NEW p \in Proc, DaemonExit(p) PROVE SoloInv'
  BY <1>12, <1>0, GoneSolo DEF DaemonExit, sockVars
<1>13. ASSUME NEW p \in Proc, Crash(p) PROVE SoloInv'
  BY <1>13, <1>0, GoneSolo DEF Crash, sockVars
<1>14. ASSUME NEW p \in Proc, ListenUnlink(p) PROVE SoloInv'
  <2>1. Moves(p)
    BY <1>14 DEF ListenUnlink,
       Moves, Holding, Driving, Serving, StartPC, Clear, SoloInv, Roles, Bound,
       procVars, sockVars, OwnerInv, AcceptInv, TypeInv, TypeOK, RoleOK
  <2>. QED BY <1>0, <1>5, <2>1, MoveFrame
<1>15. ASSUME NEW p \in Proc, RebindUnlink(p) PROVE SoloInv'
  <2>1. Moves(p)
    BY <1>15 DEF RebindUnlink,
       Moves, Holding, Driving, Serving, StartPC, Clear, SoloInv, Roles, Bound,
       procVars, sockVars, OwnerInv, AcceptInv, TypeInv, TypeOK, RoleOK
  <2>. QED BY <1>0, <1>5, <2>1, MoveFrame
<1>16. ASSUME NEW p \in Proc, AttachQuery(p) PROVE SoloInv'
  <2>1. Moves(p)
    BY <1>16 DEF AttachQuery,
       Moves, Holding, Driving, Serving, StartPC, Clear, SoloInv, Roles, Bound,
       procVars, sockVars, OwnerInv, AcceptInv, TypeInv, TypeOK, RoleOK
  <2>. QED BY <1>0, <1>5, <2>1, MoveFrame
<1>17. ASSUME NEW p \in Proc, TakeoverDone(p) PROVE SoloInv'
  <2>1. Moves(p)
    BY <1>17 DEF TakeoverDone,
       Moves, Holding, Driving, Serving, StartPC, Clear, SoloInv, Roles, Bound,
       procVars, sockVars, OwnerInv, AcceptInv, TypeInv, TypeOK, RoleOK
  <2>. QED BY <1>0, <1>5, <2>1, MoveFrame
<1>18. ASSUME NEW p \in Proc, BecomeObserver(p) PROVE SoloInv'
  <2>1. Moves(p)
    BY <1>18 DEF BecomeObserver,
       Moves, Holding, Driving, Serving, StartPC, Clear, SoloInv, Roles, Bound,
       procVars, sockVars, OwnerInv, AcceptInv, TypeInv, TypeOK, RoleOK
  <2>. QED BY <1>0, <1>5, <2>1, MoveFrame
<1>19. ASSUME NEW p \in Proc, ObserverGone(p) PROVE SoloInv'
  <2>1. Moves(p)
    BY <1>19 DEF ObserverGone,
       Moves, Holding, Driving, Serving, StartPC, Clear, SoloInv, Roles, Bound,
       procVars, sockVars, OwnerInv, AcceptInv, TypeInv, TypeOK, RoleOK
  <2>. QED BY <1>0, <1>5, <2>1, MoveFrame
<1>20. ASSUME NEW p \in Proc, Detach(p) PROVE SoloInv'
  <2>1. Moves(p)
    BY <1>20 DEF Detach, Looping,
       Moves, Holding, Driving, Serving, StartPC, Clear, SoloInv, Roles, Bound,
       procVars, sockVars, OwnerInv, AcceptInv, TypeInv, TypeOK, RoleOK
  <2>. QED BY <1>0, <1>5, <2>1, MoveFrame
<1>21. ASSUME NEW p \in Proc, ObserveBye(p) PROVE SoloInv'
  <2>1. Moves(p)
    BY <1>21 DEF ObserveBye, Drops,
       Moves, Holding, Driving, Serving, StartPC, Clear, SoloInv, Roles, Bound,
       procVars, sockVars, OwnerInv, AcceptInv, TypeInv, TypeOK, RoleOK
  <2>. QED BY <1>0, <1>5, <2>1, MoveFrame
<1>22. ASSUME NEW p \in Proc, DaemonDrop(p) PROVE SoloInv'
  <2>1. Moves(p)
    BY <1>22 DEF DaemonDrop, Drops,
       Moves, Holding, Driving, Serving, StartPC, Clear, SoloInv, Roles, Bound,
       procVars, sockVars, OwnerInv, AcceptInv, TypeInv, TypeOK, RoleOK
  <2>. QED BY <1>0, <1>5, <2>1, MoveFrame
<1>23. ASSUME NEW p \in Proc, AttachConnect(p) PROVE SoloInv'
  <2>1. \A q \in Proc : pc[q] \notin StartPC
    <3>1. path \in Sock /\ ListenerOpen(path)
      BY <1>23 DEF AttachConnect, Connectable, OwnerInv, AcceptInv, TypeInv, TypeOK
    <3>. QED BY <3>1, Deserted DEF SoloInv
  <2>2. pc[p] \in {"idle", "again"} /\ lsock[p] = None
    BY <1>23 DEF AttachConnect, SoloInv, Roles, Bound, Clear
  <2>3. Moves(p)
    BY <1>23, <2>1, <2>2 DEF AttachConnect, Moves, Holding, Driving, Serving, StartPC,
       OwnerInv, AcceptInv, TypeInv, TypeOK
  <2>. QED BY <1>0, <1>5, <2>3, MoveFrame
<1>24. ASSUME NEW p \in Proc, ListenProbe(p) PROVE SoloInv'
  BY <1>24, ProbeSolo
<1>25. ASSUME NEW p \in Proc, ListenBind(p) PROVE SoloInv'
  <2>1. PICK l \in Sock : Binds(p, l)
    BY <1>25 DEF ListenBind
  <2>. QED BY <1>25, <1>0, <1>5, <2>1, BindSolo DEF ListenBind
<1>26. ASSUME NEW p \in Proc, RebindBind(p) PROVE SoloInv'
  <2>1. PICK l \in Sock : Binds(p, l)
    BY <1>26 DEF RebindBind
  <2>. QED BY <1>26, <1>0, <1>5, <2>1, BindSolo DEF RebindBind
<1>27. ASSUME NEW p \in Proc, AttachSession(p) PROVE SoloInv'
  BY <1>27, <1>0, ReceivedSolo
<1>28. ASSUME NEW p \in Proc, AttachListener(p) PROVE SoloInv'
  BY <1>28, <1>0, ListenerSolo
<1>29. ASSUME NEW p \in Proc, AttachSize(p) PROVE SoloInv'
  BY <1>29, <1>0, SizeSolo
<1>30. ASSUME NEW p \in Proc, TakeoverLost(p) PROVE SoloInv'
  BY <1>30, <1>0, LostSolo
<1>31. ASSUME NEW p \in Proc, ListenRefused(p) PROVE SoloInv'
  BY <1>31, <1>0, <1>5, StillFrame DEF ListenRefused, procVars
<1>32. ASSUME NEW p \in Proc, NewWindow(p) PROVE SoloInv'
  BY <1>32, <1>0, <1>5, StillFrame DEF NewWindow, sockVars
<1>33. ASSUME NEW p \in Proc, Drain(p) PROVE SoloInv'
  BY <1>33, <1>0, <1>5, StillFrame DEF Drain, sockVars
<1>34. ASSUME NEW g \in Prog, ProgWrites(g) PROVE SoloInv'
  BY <1>34, <1>0, <1>5, StillFrame DEF ProgWrites, procVars, sockVars
<1>35. ASSUME NEW g \in Prog, Ends(g) PROVE SoloInv'
  BY <1>35, <1>0, <1>5, StillFrame DEF Ends, procVars, sockVars
<1>36. ASSUME NEW p \in Proc, CloseWindow(p) \/ Reap(p) PROVE SoloInv'
  <2>1. CASE Quits(p)
    BY <1>36, <1>0, <2>1, QuitsSolo DEF CloseWindow, Reap
  <2>2. CASE UNCHANGED <<pc, conn, obs, lsock, leak, sockVars>>
    BY <1>0, <1>5, <2>2, StillFrame DEF sockVars
  <2>. QED BY <1>36, <2>1, <2>2 DEF CloseWindow, Reap, Frees
<1>37. CASE UNCHANGED vars
  BY <1>37, <1>0, <1>5, StillFrame DEF vars
<1>. QED
  BY <1>1, <1>2, <1>3, <1>4, <1>6, <1>7, <1>8, <1>9, <1>10, <1>11, <1>12,
     <1>13, <1>14, <1>15, <1>16, <1>17, <1>18, <1>19, <1>20, <1>21, <1>22,
     <1>23, <1>24, <1>25, <1>26, <1>27, <1>28, <1>29, <1>30, <1>31, <1>32,
     <1>33, <1>34, <1>35, <1>36, <1>37
  DEF Next, AttachStep, ServeStep, DaemonStep, ObserveStep, UserStep, LoopStep,
      ProgExits, HangUp

LEMMA SoloInit == Init => SoloInv
<1>. SUFFICES ASSUME Init PROVE SoloInv
  OBVIOUS
<1>1. /\ \A p \in Proc : pc[p] = "idle" /\ Clear(p)
      /\ \A k \in Conn : ~ClientHeld(k)
  BY NoneAssumption DEF Init, Clear, ClientHeld, ClientPC
<1>2. Tokens
  BY <1>1 DEF Tokens, OneBearer, BearerOrConveyed, BearerOrReleased, OneMessage,
     Bears, Holding, Driving, Serving, Conveys, Releases
<1>3. Placed /\ Roles
  BY <1>1 DEF Placed, Flies, Roles, Bound, StartPC, Clear
<1>. QED BY <1>2, <1>3 DEF SoloInv

\* With no two plain `mux' started side by side the socket file leads to whoever
\* serves the session, whatever is attached, detached, taken over or killed: an
\* attach finds the session (session_listen, session_rebind, cleanup).
THEOREM PathLeadsToServer ==
  ASSUME SoloStart
  PROVE  Spec => []PathServed
<1>1. Init => OwnerInv /\ SoloInv
  BY OwnerInit, SoloInit
<1>2. OwnerInv /\ SoloInv /\ [Next]_vars => (OwnerInv /\ SoloInv)'
  BY OwnerNext, SoloNext
<1>3. SoloInv => PathServed
  BY NoneAssumption DEF SoloInv, Placed, PathServed, Bears, Holding, Driving
<1>. QED BY <1>1, <1>2, <1>3, PTL DEF Spec

-----------------------------------------------------------------------------
(* SessionKept.  A window can be lost where an owner stops counting before  *)
(* another one does: when the old owner sends the listening socket, when    *)
(* the daemon sends the session, and when an attacher gives up.  That it is *)
(* not needs to be known of the handshakes: who is still at the other end,  *)
(* and what of the session has been sent and received.                      *)

ClientOf(p, k) == obs[p] = k \/ (pc[p] \in ClientPC /\ conn[p] = k)
At(p, k, roles) == pc[p] \in roles /\ conn[p] = k
Waiting(k) == \E l \in Sock : ListenerOpen(l) /\ InSeq(k, backlog[l])

\* Process p has received a session on the connection.
Past(p, k) == obs[p] = k \/ At(p, k, {"sock", "sizing"})

\* An observer's connection is known to a live instance only, a client's to one
\* process, and no session is on its way to who has received one.
Watched == \A p \in Proc : obs[p] # None => pc[p] \in {"loop", "hsCmd", "hsAck", "hsSize"}
OneClient == \A p, q \in Proc, k \in Conn : ClientOf(p, k) /\ ClientOf(q, k) => p = q
Received == \A p \in Proc, k \in Conn : Past(p, k) => ~OfType("sess", s2c[k])

\* Before the session is sent its client has received none, and a connection
\* that was not used for a takeover was inherited by nobody.
Young(p, k) ==
  /\ At(p, k, {"hsCmd", "dCmd"}) => \A c \in Proc : ~Past(c, k)
  /\ At(p, k, {"hsAck"}) => \A c \in Proc : obs[c] # k
  /\ At(p, k, {"dCmd"}) =>
       /\ \A c \in Proc : ~At(c, k, {"take"})
       /\ ~Inherited(k, "c")
       /\ ClientHeld(k) => ~OfType("L", s2c[k])
New(k) == Waiting(k) => ~Inherited(k, "c") /\ \A c \in Proc : obs[c] # k

Handshakes == /\ Watched /\ OneClient /\ Received
              /\ \A p \in Proc, k \in Conn : Young(p, k) /\ New(k)

-----------------------------------------------------------------------------
(* What the steps have in common.                                           *)

KeepsDue ==
  \A k \in Conn : ClientHeld(k)' =>
    /\ OfType("sess", s2c'[k]) => \/ ClientHeld(k) /\ OfType("sess", s2c[k])
                                  \/ \A c \in Proc : ~Past(c, k)
    /\ OfType("L", s2c'[k]) => \/ ClientHeld(k) /\ OfType("L", s2c[k])
                               \/ \A q \in Proc : ~At(q, k, {"dCmd"})'
KeepsHeirs ==
  \A k \in Conn : Inherited(k, "c")' => Inherited(k, "c") \/ \E p \in Proc : obs[p] = k
KeepsWaits == \A k \in Conn : Waiting(k)' => Waiting(k) \/ ~ClientOpen(k)

LEMMA MuteTypes ==
  ASSUME Mute
  PROVE  \A k \in Conn : \A t : ClientHeld(k)' /\ OfType(t, s2c'[k]) =>
           ClientHeld(k) /\ OfType(t, s2c[k])
<1>. SUFFICES ASSUME NEW k \in Conn, ClientHeld(k)', NEW t, OfType(t, s2c'[k])
              PROVE  ClientHeld(k) /\ OfType(t, s2c[k])
  OBVIOUS
<1>1. PICK i \in DOMAIN s2c'[k] : s2c'[k][i].type = t
  BY DEF OfType
<1>2. InSeq(s2c'[k][i], s2c'[k]) /\ s2c'[k] # <<>>
  BY <1>1 DEF InSeq
<1>3. ClientHeld(k) /\ Lighter(s2c'[k], s2c[k])
  BY <1>2 DEF Mute, Lightens
<1>4. InSeq(s2c'[k][i], s2c[k])
  BY <1>2, <1>3 DEF Lighter
<1>. QED BY <1>1, <1>3, <1>4 DEF InSeq, OfType

LEMMA MuteDue ==
  ASSUME Mute
  PROVE  KeepsDue
BY MuteTypes DEF KeepsDue

\* A queue that grows takes in a connection nobody knew.
LEMMA QueueWaits ==
  ASSUME OpensEmpty,
         \A l \in Sock, k \in Conn : InSeq(k, backlog'[l]) => InSeq(k, backlog[l]) \/ ~ClientOpen(k)
  PROVE  KeepsWaits
<1>. SUFFICES ASSUME NEW k \in Conn, ClientOpen(k),
                     NEW l \in Sock, ListenerOpen(l)', InSeq(k, backlog'[l])
              PROVE  ListenerOpen(l) /\ InSeq(k, backlog[l])
  BY DEF KeepsWaits, Waiting
<1>1. backlog'[l] # <<>>
  BY DEF InSeq
<1>. QED BY <1>1 DEF OpensEmpty

\* A program inherits the connection to the observer, if any.
LEMMA RunHeirs ==
  ASSUME TypeOK, NEW p \in Proc, NEW g \in Prog, RunsProgram(p, g)
  PROVE  KeepsHeirs
<1>. SUFFICES ASSUME NEW k \in Conn, NEW h \in running', <<k, "c">> \in cinh'[h], obs[p] # k
              PROVE  Inherited(k, "c")
  BY DEF KeepsHeirs, Inherited
<1>1. cinh'[h] = IF h = g THEN ({obs[p]} \ {None}) \X {"c"} \cup ({conn[p]} \ {None}) \X {"s"}
                 ELSE cinh[h]
  BY DEF RunsProgram, TypeOK
<1>2. h # g
  BY <1>1
<1>. QED BY <1>1, <1>2 DEF RunsProgram, Inherited

LEMMA SameHeirs ==
  ASSUME TypeOK, UNCHANGED <<running, cinh>> \/ \E g \in Prog : Ends(g)
  PROVE  KeepsHeirs
<1>1. \A g \in Prog : Ends(g) => KeepsHeirs
  BY DEF Ends, KeepsHeirs, Inherited, TypeOK
<1>. QED BY <1>1 DEF KeepsHeirs, Inherited

\* Process p goes on in its handshake, leaves it, or begins one.
SameOthers(p) ==
  \A q \in Proc : q # p => /\ pc'[q] = pc[q] /\ conn'[q] = conn[q]
                           /\ obs'[q] = obs[q] /\ win'[q] = win[q]
Ages(p) ==
  /\ SameOthers(p)
  /\ \A k \in Conn :
       /\ ClientOf(p, k)' => ClientOf(p, k) \/ ~ClientOpen(k)
       /\ Past(p, k)' => \/ Past(p, k)
                         \/ /\ ClientHeld(k) /\ OfType("sess", s2c[k])
                            /\ ~OfType("sess", s2c'[k])
       /\ obs'[p] = k => obs[p] = k \/ At(p, k, {"sizing"})
       /\ At(p, k, {"hsCmd", "dCmd"})' => \/ pc'[p] = pc[p] /\ conn'[p] = conn[p]
                                          \/ Young(p, k)'
       /\ At(p, k, {"hsAck"})' => At(p, k, {"hsCmd", "hsAck"})
       /\ At(p, k, {"take"})' => \/ At(p, k, {"take"})
                                 \/ At(p, k, {"query"}) /\ OfType("L", s2c[k])
  /\ obs'[p] # None => pc'[p] \in {"loop", "hsCmd", "hsAck", "hsSize"}

LEMMA AgeFrame ==
  ASSUME OwnerInv, Handshakes, KeepsDue, KeepsHeirs, KeepsWaits, NEW p \in Proc, Ages(p)
  PROVE  Handshakes'
<1>1. Watched'
  BY DEF Ages, SameOthers, Handshakes, Watched
<1>2. \A q \in Proc, k \in Conn :
        /\ ClientOf(q, k)' => ClientOf(q, k) \/ (q = p /\ ~ClientOpen(k))
        /\ Past(q, k)' => \/ Past(q, k)
                          \/ /\ ClientHeld(k) /\ OfType("sess", s2c[k])
                             /\ ~OfType("sess", s2c'[k])
        /\ obs'[q] = k => obs[q] = k \/ At(q, k, {"sizing"})
  BY DEF Ages, SameOthers, ClientOf, Past, At
<1>3. OneClient'
  <2>1. \A q \in Proc, k \in Conn : ClientOf(q, k) => ClientOpen(k)
    BY DEF ClientOf, ClientOpen, ClientHeld
  <2>. QED BY <1>2, <2>1 DEF Handshakes, OneClient
<1>4. \A q \in Proc, k \in Conn : Past(q, k)' => ClientHeld(k)'
  BY DEF Past, At, ClientHeld, ClientPC
<1>5. Received'
  BY <1>2, <1>4 DEF KeepsDue, Handshakes, Received
<1>6. ASSUME NEW q \in Proc, NEW k \in Conn PROVE Young(q, k)'
  <2>. SUFFICES ASSUME ~(q = p /\ Young(p, k)') PROVE Young(q, k)'
    OBVIOUS
  <2>1. At(q, k, {"hsCmd", "dCmd"})' => At(q, k, {"hsCmd", "dCmd"}) /\ pc'[q] = pc[q]
    BY DEF Ages, SameOthers, At
  <2>2. ASSUME At(q, k, {"hsCmd", "dCmd"})' PROVE \A c \in Proc : ~Past(c, k)'
    <3>1. At(q, k, {"hsCmd", "dCmd"}) /\ Serves(q, k)
      BY <2>1, <2>2 DEF At, Serves, ClientPC
    <3>. QED BY <1>2, <3>1 DEF Handshakes, Young, At, OwnerInv, Phases, InPhase
  <2>3. ASSUME At(q, k, {"hsAck"})', NEW c \in Proc, obs'[c] = k PROVE FALSE
    <3>1. At(q, k, {"hsCmd", "hsAck"}) /\ Serves(q, k)
      BY <2>3 DEF Ages, SameOthers, At, Serves, ClientPC
    <3>2. obs[c] = k \/ At(c, k, {"sizing"})
      BY <1>2, <2>3
    <3>3. CASE At(c, k, {"sizing"})
      <4>1. ClientHeld(k)
        BY <3>3 DEF At, ClientHeld, ClientPC
      <4>. QED BY <3>1, <3>3, <4>1 DEF At, OwnerInv, Phases, InPhase
    <3>4. CASE obs[c] = k
      BY <3>1, <3>4 DEF At, Handshakes, Young, Past
    <3>. QED BY <3>2, <3>3, <3>4
  <2>4. ASSUME At(q, k, {"dCmd"})'
        PROVE  /\ \A c \in Proc : ~At(c, k, {"take"})'
               /\ ~Inherited(k, "c")'
               /\ ClientHeld(k)' => ~OfType("L", s2c[k])'
    <3>1. At(q, k, {"dCmd"}) /\ Young(q, k)
      BY <2>1, <2>4 DEF At, Handshakes
    <3>2. \A c \in Proc : At(c, k, {"take"})' => At(c, k, {"take"}) \/ (ClientHeld(k) /\ OfType("L", s2c[k]))
      BY DEF Ages, SameOthers, At, ClientHeld, ClientPC
    <3>3. \A c \in Proc : obs[c] # k
      BY <3>1 DEF Young, At, Past
    <3>4. OfType("L", s2c[k])' => OfType("L", s2c'[k])
      BY DEF OfType
    <3>. QED BY <2>4, <3>1, <3>2, <3>3, <3>4 DEF Young, KeepsHeirs, KeepsDue
  <2>. QED BY <2>2, <2>3, <2>4 DEF Young
<1>7. ASSUME NEW k \in Conn PROVE New(k)'
  <2>. SUFFICES ASSUME Waiting(k)'
                PROVE  ~Inherited(k, "c")' /\ \A c \in Proc : obs'[c] # k
    BY DEF New
  <2>1. CASE Waiting(k)
    <3>1. ~Inherited(k, "c") /\ \A c \in Proc : obs[c] # k
      BY <2>1 DEF Handshakes, New
    <3>2. ClientHeld(k) => Unanswered(k)
      BY <2>1 DEF Waiting, InSeq, OwnerInv, Fresh
    <3>3. \A c \in Proc : ~At(c, k, {"sizing"})
      BY <3>2 DEF At, Unanswered, ClientHeld, ClientPC
    <3>. QED BY <1>2, <3>1, <3>3 DEF KeepsHeirs
  <2>2. CASE ~ClientOpen(k)
    BY <1>2, <2>2 DEF KeepsHeirs, ClientOpen, ClientHeld, At, ClientPC
  <2>. QED BY <2>1, <2>2 DEF KeepsWaits
<1>. QED BY <1>1, <1>3, <1>5, <1>6, <1>7 DEF Handshakes

-----------------------------------------------------------------------------
(* Each step keeps the handshakes.                                          *)

\* Process p does no more than leave its handshake, or its observer.
Fades(p) ==
  /\ SameOthers(p)
  /\ obs'[p] \in {obs[p], None}
  /\ \/ pc'[p] = pc[p] /\ conn'[p] = conn[p]
     \/ pc'[p] \notin ClientPC \cup {"hsCmd", "dCmd", "hsAck"}
  /\ obs'[p] # None => pc'[p] \in {"loop", "hsCmd", "hsAck", "hsSize"}

LEMMA FadeAges ==
  ASSUME NEW p \in Proc, Fades(p)
  PROVE  Ages(p)
<1>. USE NoneAssumption
<1>1. \A k \in Conn : obs'[p] = k => obs[p] = k
  BY DEF Fades
<1>2. CASE pc'[p] = pc[p] /\ conn'[p] = conn[p]
  BY <1>1, <1>2 DEF Fades, Ages, ClientOf, Past, At
<1>3. CASE pc'[p] \notin ClientPC \cup {"hsCmd", "dCmd", "hsAck"}
  BY <1>1, <1>3 DEF Fades, Ages, ClientOf, Past, At, ClientPC
<1>. QED BY <1>2, <1>3 DEF Fades

\* The kernel's tables are left alone.
Settled == UNCHANGED <<backlog, running, cinh>>

LEMMA SettledFrame ==
  ASSUME OwnerInv, OpensEmpty, Handshakes, KeepsDue, Settled, NEW p \in Proc, Ages(p)
  PROVE  Handshakes'
<1>1. KeepsWaits
  BY QueueWaits DEF Settled
<1>2. KeepsHeirs
  BY SameHeirs DEF Settled, OwnerInv, AcceptInv, TypeInv
<1>. QED BY <1>1, <1>2, AgeFrame

LEMMA AcceptAges ==
  ASSUME OwnerInv, OpensEmpty, Handshakes, NEW p \in Proc, NEW role \in {"loop", "daemon"},
         NEW next, NEW answer,
         <<next, answer>> \in {<<"hsCmd", "L">>, <<"dCmd", "D">>},
         next = "hsCmd" <=> role = "loop",
         Accepts(p, role, next, answer)
  PROVE  Handshakes'
<1>. USE NoneAssumption
<1>. DEFINE l == lsock[p]
<1>0. PICK k \in Conn : k = Head(backlog[l])
  BY DEF Accepts, OwnerInv, AcceptInv, TypeInv, TypeOK, Backlogs
<1>1. l \in Sock /\ ListenerOpen(l) /\ backlog[l] \in Seq(Conn) /\ backlog[l] # <<>>
  BY DEF Accepts, ListenerOpen, OwnerInv, AcceptInv, TypeInv, TypeOK, Backlogs
<1>2. 1 \in DOMAIN backlog[l] /\ backlog[l][1] = k
  BY <1>0, <1>1
<1>3. ~ServerHeld(k) /\ (ClientHeld(k) => Unanswered(k)) /\ Waiting(k)
  BY <1>1, <1>2 DEF OwnerInv, AcceptInv, Unserved, Fresh, Waiting, InSeq
<1>4. \A m \in Sock, c \in Conn : InSeq(c, backlog'[m]) => InSeq(c, backlog[m])
  <2>1. \A m \in Sock : backlog'[m] = backlog[m] \/ (m = l /\ backlog'[m] = Tail(backlog[l]))
    BY DEF Accepts, Recv, OwnerInv, AcceptInv, TypeInv, TypeOK, Backlogs
  <2>2. \A i \in DOMAIN Tail(backlog[l]) : /\ i + 1 \in DOMAIN backlog[l]
                                           /\ Tail(backlog[l])[i] = backlog[l][i + 1]
    BY <1>1
  <2>3. \A c \in Conn : InSeq(c, Tail(backlog[l])) => InSeq(c, backlog[l])
    BY <2>2 DEF InSeq
  <2>. QED BY <2>1, <2>3
<1>5. UNCHANGED <<obs, win, running, cinh>>
  BY DEF Accepts, progVars
<1>6. KeepsWaits /\ KeepsHeirs
  BY <1>4, <1>5, QueueWaits, SameHeirs DEF OwnerInv, AcceptInv, TypeInv
<1>7. CASE UNCHANGED <<pc, conn, s2c>>
  <2>1. KeepsDue
    BY <1>5, <1>7 DEF KeepsDue, ClientHeld
  <2>2. Fades(p)
    BY <1>5, <1>7 DEF Fades, SameOthers, Handshakes, Watched
  <2>. QED BY <1>6, <2>1, <2>2, FadeAges, AgeFrame
<1>8. CASE /\ pc' = [pc EXCEPT ![p] = next]
           /\ conn' = [conn EXCEPT ![p] = k]
           /\ s2c' = Send(s2c, k, [type |-> answer])
  <2>1. /\ pc[p] = role /\ pc'[p] = next /\ conn'[p] = k
        /\ \A q \in Proc : q # p => pc'[q] = pc[q] /\ conn'[q] = conn[q]
    BY <1>8 DEF Accepts, OwnerInv, AcceptInv, TypeInv, TypeOK
  <2>2. \A c \in Conn : ClientHeld(c)' <=> ClientHeld(c)
    BY <1>5, <2>1 DEF ClientHeld, ClientPC
  <2>3. [type |-> answer] \in Reply /\ \A c \in Conn : s2c[c] \in Seq(Reply)
    BY DEF Reply, OwnerInv, AcceptInv, TypeInv, TypeOK, Replies
  <2>4. \A c \in Conn : s2c'[c] = IF c = k THEN Append(s2c[c], [type |-> answer]) ELSE s2c[c]
    BY <1>8 DEF Send, OwnerInv, AcceptInv, TypeInv, TypeOK, Replies
  <2>5. \A t : OfType(t, s2c'[k]) <=> OfType(t, s2c[k]) \/ answer = t
    BY <2>3, <2>4, Sending
  <2>6. \A c \in Proc : obs[c] # k /\ ~At(c, k, {"take", "sock", "sizing"})
    <3>1. \A c \in Proc : ~At(c, k, {"take", "sock", "sizing"})
      BY <1>3 DEF At, Unanswered, ClientHeld, ClientPC
    <3>2. \A c \in Proc : obs[c] # k
      BY <1>3 DEF Handshakes, New
    <3>. QED BY <3>1, <3>2
  <2>7. Young(p, k)'
    <3>1. \A c \in Proc : ~Past(c, k)' /\ ~At(c, k, {"take"})'
      BY <1>5, <2>1, <2>6 DEF Past, At
    <3>2. ~Inherited(k, "c")'
      BY <1>3, <1>5 DEF Handshakes, New, Inherited
    <3>3. ClientHeld(k)' /\ answer # "L" => ~OfType("L", s2c'[k])
      <4>1. ClientHeld(k) => ~OfType("L", s2c[k])
        BY <1>3 DEF Unanswered, OfType
      <4>. QED BY <2>2, <2>5, <4>1
    <3>4. OfType("L", s2c[k])' => OfType("L", s2c'[k])
      BY DEF OfType
    <3>. QED BY <2>1, <3>1, <3>2, <3>3, <3>4 DEF Young, At
  <2>8. KeepsDue
    <3>. SUFFICES ASSUME NEW c \in Conn, ClientHeld(c)'
                  PROVE  /\ OfType("sess", s2c'[c]) => OfType("sess", s2c[c])
                         /\ OfType("L", s2c'[c]) => \/ OfType("L", s2c[c])
                                                    \/ \A q \in Proc : ~At(q, c, {"dCmd"})'
      BY <2>2 DEF KeepsDue
    <3>1. CASE c # k
      BY <2>4, <3>1
    <3>2. CASE c = k
      <4>1. answer = "L" => \A q \in Proc : ~At(q, k, {"dCmd"})'
        BY <1>3, <2>1 DEF At, ServerHeld, ClientPC
      <4>. QED BY <2>5, <3>2, <4>1
    <3>. QED BY <3>1, <3>2
  <2>9. Ages(p)
    <3>1. SameOthers(p)
      BY <1>5, <2>1 DEF SameOthers
    <3>2. next \notin ClientPC /\ next \in {"hsCmd", "dCmd"}
      BY DEF ClientPC
    <3>3. obs'[p] # None => pc'[p] = "hsCmd"
      BY <1>5, <2>1 DEF Handshakes, Watched
    <3>. QED BY <1>5, <2>1, <2>7, <3>1, <3>2, <3>3 DEF Ages, ClientOf, Past, At
  <2>. QED BY <1>6, <2>8, <2>9, AgeFrame
<1>. QED BY <1>0, <1>7, <1>8 DEF Accepts

\* The session or the listening socket is sent.
LEMMA SendsAges ==
  ASSUME OwnerInv, OpensEmpty, Handshakes, NEW p \in Proc, NEW k \in Conn, k = conn[p],
         NEW m \in Reply, NEW next,
         <<pc[p], next, m.type>> \in {<<"hsCmd", "hsAck", "sess">>, <<"dCmd", "dAck", "sess">>,
                                      <<"hsAck", "hsSize", "lsock">>},
         Sends(p, k, m, next), UNCHANGED <<running, cinh>>
  PROVE  Handshakes'
<1>. USE NoneAssumption
<1>1. /\ pc'[p] = next /\ next \notin ClientPC
      /\ \A q \in Proc : q # p => pc'[q] = pc[q]
  BY DEF Sends, ClientPC, OwnerInv, AcceptInv, TypeInv, TypeOK
<1>2. \A c \in Conn : ClientHeld(c)' <=> ClientHeld(c)
  BY <1>1 DEF Sends, ClientHeld, ClientPC
<1>3. \A c \in Conn : /\ s2c[c] \in Seq(Reply)
                      /\ s2c'[c] = IF c = k THEN Append(s2c[c], m) ELSE s2c[c]
  BY DEF Sends, Send, OwnerInv, AcceptInv, TypeInv, TypeOK, Replies
<1>4. KeepsDue
  <2>1. \A t : OfType(t, s2c'[k]) <=> OfType(t, s2c[k]) \/ m.type = t
    BY <1>3, Sending
  <2>2. m.type = "sess" => \A c \in Proc : ~Past(c, k)
    BY DEF Handshakes, Young, At
  <2>. QED BY <1>2, <1>3, <2>1, <2>2 DEF KeepsDue
<1>5. Ages(p)
  <2>1. SameOthers(p)
    BY <1>1 DEF SameOthers, Sends
  <2>2. obs'[p] # None => pc'[p] \in {"hsAck", "hsSize"}
    BY <1>1 DEF Sends, Handshakes, Watched
  <2>. QED BY <1>1, <2>1, <2>2 DEF Ages, Sends, ClientOf, Past, At, ClientPC
<1>. QED BY <1>4, <1>5, SettledFrame DEF Settled, Sends

LEMMA ReceivedAges ==
  ASSUME OwnerInv, OpensEmpty, Handshakes, Mute, NEW p \in Proc, AttachSession(p)
  PROVE  Handshakes'
<1>. USE NoneAssumption
<1>0. PICK k \in Conn : k = conn[p]
  BY DEF AttachSession, ClientPC, OwnerInv, AcceptInv, TypeInv, RoleOK
<1>1. /\ s2c[k] \in Seq(Reply) /\ s2c[k] # <<>> /\ Head(s2c[k]).type = "sess"
      /\ s2c'[k] = Tail(s2c[k]) /\ ClientHeld(k) /\ obs' = obs
      /\ \A q \in Proc : q # p => pc'[q] = pc[q] /\ conn'[q] = conn[q] /\ win'[q] = win[q]
      /\ \/ pc[p] = "take" /\ pc'[p] = "sock" /\ conn'[p] = k
         \/ pc[p] = "fetch" /\ pc'[p] = "rebind" /\ conn'[p] = None
  BY <1>0 DEF AttachSession, ClientHeld, ClientPC, Recv, OwnerInv, AcceptInv, TypeInv, TypeOK, Replies
<1>2. OfType("sess", s2c[k]) /\ ~OfType("sess", s2c'[k])
  <2>1. Single(s2c[k])
    BY <1>1 DEF OwnerInv, Shares, OneSess
  <2>. QED BY <1>1, <2>1, SessHead
<1>3. Ages(p)
  <2>1. SameOthers(p)
    BY <1>1 DEF SameOthers
  <2>2. obs[p] = None
    BY <1>1 DEF Handshakes, Watched
  <2>. QED BY <1>0, <1>1, <1>2, <2>1, <2>2 DEF Ages, ClientOf, Past, At, ClientPC
<1>4. KeepsDue
  BY MuteDue
<1>5. Settled
  BY DEF AttachSession, Settled, sockVars, progVars
<1>. QED BY <1>3, <1>4, <1>5, SettledFrame

LEMMA ConnectAges ==
  ASSUME OwnerInv, OpensEmpty, Handshakes, Mute, NEW p \in Proc, NEW k \in Conn, FreeConn(k),
         backlog' = Send(backlog, path, k), UNCHANGED <<obs, win, running, cinh>>,
         \/ UNCHANGED <<pc, conn>>
         \/ /\ pc[p] \in {"idle", "again"}
            /\ pc' = [pc EXCEPT ![p] = "query"] /\ conn' = [conn EXCEPT ![p] = k]
  PROVE  Handshakes'
<1>. USE NoneAssumption
<1>1. \A l \in Sock, c \in Conn : InSeq(c, backlog'[l]) => InSeq(c, backlog[l]) \/ ~ClientOpen(c)
  <2>1. \A l \in Sock : backlog[l] \in Seq(Conn)
    BY DEF OwnerInv, AcceptInv, TypeInv, TypeOK, Backlogs
  <2>2. \A l \in Sock : backlog'[l] = backlog[l] \/ backlog'[l] = Append(backlog[l], k)
    BY DEF Send, OwnerInv, AcceptInv, TypeInv, TypeOK, Backlogs
  <2>3. \A l \in Sock, c \in Conn : InSeq(c, backlog'[l]) => InSeq(c, backlog[l]) \/ c = k
    BY <2>1, <2>2 DEF InSeq
  <2>. QED BY <2>3 DEF FreeConn
<1>2. KeepsWaits /\ KeepsHeirs /\ KeepsDue
  BY <1>1, QueueWaits, SameHeirs, MuteDue DEF OwnerInv, AcceptInv, TypeInv
<1>3. Ages(p)
  <2>1. CASE UNCHANGED <<pc, conn>>
    <3>1. Fades(p)
      BY <2>1 DEF Fades, SameOthers, Handshakes, Watched
    <3>. QED BY <3>1, FadeAges
  <2>2. CASE /\ pc[p] \in {"idle", "again"}
             /\ pc' = [pc EXCEPT ![p] = "query"] /\ conn' = [conn EXCEPT ![p] = k]
    <3>1. /\ pc'[p] = "query" /\ conn'[p] = k /\ obs'[p] = None
          /\ \A q \in Proc : q # p => pc'[q] = pc[q] /\ conn'[q] = conn[q]
      BY <2>2 DEF Handshakes, Watched, OwnerInv, AcceptInv, TypeInv, TypeOK
    <3>2. SameOthers(p)
      BY <3>1 DEF SameOthers
    <3>. QED BY <3>1, <3>2 DEF Ages, ClientOf, Past, At, FreeConn, ClientPC
  <2>. QED BY <2>1, <2>2
<1>. QED BY <1>2, <1>3, AgeFrame

LEMMA GoneAges ==
  ASSUME OwnerInv, OpensEmpty, Handshakes, Mute, NEW p \in Proc, Gone(p), Settled
  PROVE  Handshakes'
<1>1. Fades(p)
  BY DEF Gone, Fades, SameOthers, ClientPC, OwnerInv, AcceptInv, TypeInv, TypeOK
<1>. QED BY <1>1, FadeAges, MuteDue, SettledFrame

\* A program is run, in a process that is in the loop after it.
LEMMA RunsAges ==
  ASSUME OwnerInv, OpensEmpty, Handshakes, Mute, NEW p \in Proc, NEW g \in Prog, RunsProgram(p, g),
         UNCHANGED <<conn, obs>>,
         pc' = pc \/ pc' = [pc EXCEPT ![p] = "loop"],
         backlog' = backlog \/ \E l \in Sock : backlog' = [backlog EXCEPT ![l] = <<>>]
  PROVE  Handshakes'
<1>1. \A l \in Sock : backlog'[l] = backlog[l] \/ backlog'[l] = <<>>
  BY DEF OwnerInv, AcceptInv, TypeInv, TypeOK, Backlogs
<1>2. KeepsWaits
  BY <1>1, QueueWaits DEF InSeq
<1>3. KeepsHeirs /\ KeepsDue
  BY RunHeirs, MuteDue DEF OwnerInv, AcceptInv, TypeInv
<1>4. \A q \in Proc : q # p => pc'[q] = pc[q] /\ win'[q] = win[q]
  BY DEF RunsProgram, OwnerInv, AcceptInv, TypeInv, TypeOK
<1>5. pc'[p] = pc[p] \/ pc'[p] = "loop"
  BY DEF OwnerInv, AcceptInv, TypeInv, TypeOK
<1>6. Fades(p)
  BY <1>4, <1>5 DEF Fades, SameOthers, ClientPC, Handshakes, Watched
<1>. QED BY <1>2, <1>3, <1>6, FadeAges, AgeFrame

LEMMA HandshakesNext ==
  OwnerInv /\ Handshakes /\ [Next]_vars => Handshakes'
<1>. SUFFICES ASSUME OwnerInv, Handshakes, [Next]_vars
              PROVE  Handshakes'
  OBVIOUS
<1>. USE NoneAssumption
<1>0. OpensEmpty /\ (Mute \/ \E p \in Proc : Speaks(p))
  BY AcceptNext, OwnerNext DEF OwnerInv, Continues
<1>1. ASSUME NEW p \in Proc, Accept(p) PROVE Handshakes'
  BY <1>1, <1>0, AcceptAges DEF Accept
<1>2. ASSUME NEW p \in Proc, DaemonAccept(p) PROVE Handshakes'
  BY <1>2, <1>0, AcceptAges DEF DaemonAccept
<1>3. ASSUME NEW p \in Proc, DaemonSession(p) PROVE Handshakes'
  <2>1. conn[p] \in Conn
    BY <1>3 DEF DaemonSession, ServerPC, OwnerInv, AcceptInv, TypeInv, RoleOK
  <2>. DEFINE m == [type |-> "sess", win |-> win[p]]
  <2>2. m \in Reply /\ m.type = "sess"
    BY DEF Reply, OwnerInv, AcceptInv, TypeInv, TypeOK
  <2>3. /\ Sends(p, conn[p], m, "dAck")
        /\ pc[p] = "dCmd" /\ UNCHANGED <<running, cinh>>
    BY <1>3 DEF DaemonSession, Sends, procVars, sockVars, progVars
  <2>. HIDE DEF m
  <2>. QED BY <1>0, <2>1, <2>2, <2>3, SendsAges
<1>4. ASSUME NEW p \in Proc, TakeoverSession(p) \/ TakeoverListener(p) PROVE Handshakes'
  <2>1. conn[p] \in Conn /\ UNCHANGED <<obs, win, backlog, running, cinh>>
    BY <1>4 DEF TakeoverSession, TakeoverListener, ServerPC, OwnerInv, AcceptInv, TypeInv, RoleOK,
       sockVars, progVars
  <2>2. CASE Drops(p, "loop") /\ UNCHANGED s2c
    <3>1. Fades(p)
      BY <2>1, <2>2 DEF Drops, Fades, SameOthers, ClientPC, OwnerInv, AcceptInv, TypeInv, TypeOK
    <3>2. KeepsDue
      <4>1. pc[p] \notin ClientPC
        BY <1>4 DEF TakeoverSession, TakeoverListener, ClientPC
      <4>2. \A k \in Conn : ClientHeld(k)' => ClientHeld(k)
        BY <2>1, <2>2, <3>1, <4>1 DEF Fades, SameOthers, ClientHeld, ClientPC
      <4>. QED BY <2>2, <4>2 DEF KeepsDue
    <3>. QED BY <1>0, <2>1, <3>1, <3>2, FadeAges, SettledFrame DEF Settled
  <2>3. CASE TakeoverSession(p) /\ Sends(p, conn[p], [type |-> "sess", win |-> win[p]], "hsAck")
    <3>. DEFINE m == [type |-> "sess", win |-> win[p]]
    <3>1. m \in Reply /\ m.type = "sess" /\ pc[p] = "hsCmd"
      BY <2>3 DEF TakeoverSession, Reply, OwnerInv, AcceptInv, TypeInv, TypeOK
    <3>2. Sends(p, conn[p], m, "hsAck")
      BY <2>3
    <3>. HIDE DEF m
    <3>. QED BY <1>0, <2>1, <3>1, <3>2, SendsAges
  <2>4. CASE /\ TakeoverListener(p)
             /\ Sends(p, conn[p], [type |-> "lsock", sock |-> lsock[p]], "hsSize")
    <3>. DEFINE m == [type |-> "lsock", sock |-> lsock[p]]
    <3>1. m \in Reply /\ m.type = "lsock" /\ pc[p] = "hsAck"
      BY <2>4 DEF TakeoverListener, Reply, OwnerInv, AcceptInv, TypeInv, TypeOK, RoleOK
    <3>2. Sends(p, conn[p], m, "hsSize")
      BY <2>4
    <3>. HIDE DEF m
    <3>. QED BY <1>0, <2>1, <3>1, <3>2, SendsAges
  <2>. QED BY <1>4, <2>2, <2>3, <2>4 DEF TakeoverSession, TakeoverListener, Sends, sockVars
<1>. SUFFICES ASSUME Mute PROVE Handshakes'
  BY <1>0, <1>1, <1>2, <1>3, <1>4 DEF Speaks
<1>5. ASSUME NEW p \in Proc, Fades(p), Settled PROVE Handshakes'
  BY <1>5, <1>0, FadeAges, MuteDue, SettledFrame
<1>6. ASSUME NEW p \in Proc, AttachRefused(p) PROVE Handshakes'
  BY <1>6, <1>0, GoneAges DEF AttachRefused, Quits, Settled, progVars
<1>7. ASSUME NEW p \in Proc, ObserveEnd(p) PROVE Handshakes'
  BY <1>7, <1>0, GoneAges DEF ObserveEnd, Quits, Settled, progVars
<1>8. ASSUME NEW p \in Proc, ObserveLeave(p) PROVE Handshakes'
  BY <1>8, <1>0, GoneAges DEF ObserveLeave, Quits, Settled, progVars
<1>9. ASSUME NEW p \in Proc, Quit(p) PROVE Handshakes'
  BY <1>9, <1>0, GoneAges DEF Quit, Quits, Settled, progVars
<1>10. ASSUME NEW p \in Proc, AttachLost(p) PROVE Handshakes'
  BY <1>10, <1>0, GoneAges DEF AttachLost, sockVars, Settled, progVars
<1>11. ASSUME NEW p \in Proc, BindFails(p) PROVE Handshakes'
  BY <1>11, <1>0, GoneAges DEF BindFails, sockVars, Settled, progVars
<1>12. ASSUME NEW p \in Proc, DaemonExit(p) PROVE Handshakes'
  BY <1>12, <1>0, GoneAges DEF DaemonExit, sockVars, Settled, progVars
<1>13. ASSUME NEW p \in Proc, Crash(p) PROVE Handshakes'
  BY <1>13, <1>0, GoneAges DEF Crash, sockVars, Settled, progVars
<1>14. ASSUME NEW p \in Proc, ListenProbe(p) PROVE Handshakes'
  <2>1. Fades(p)
    BY <1>14 DEF ListenProbe, procVars, sockVars, progVars, Fades, SameOthers, ClientPC, Handshakes, Watched,
       OwnerInv, AcceptInv, TypeInv, TypeOK, RoleOK
  <2>2. Settled
    BY <1>14 DEF ListenProbe, Settled, sockVars, progVars
  <2>. QED BY <1>5, <2>1, <2>2
<1>15. ASSUME NEW p \in Proc, ListenUnlink(p) PROVE Handshakes'
  <2>1. Fades(p)
    BY <1>15 DEF ListenUnlink, procVars, sockVars, progVars, Fades, SameOthers, ClientPC, Handshakes, Watched,
       OwnerInv, AcceptInv, TypeInv, TypeOK, RoleOK
  <2>2. Settled
    BY <1>15 DEF ListenUnlink, Settled, sockVars, progVars
  <2>. QED BY <1>5, <2>1, <2>2
<1>16. ASSUME NEW p \in Proc, RebindUnlink(p) PROVE Handshakes'
  <2>1. Fades(p)
    BY <1>16 DEF RebindUnlink, procVars, sockVars, progVars, Fades, SameOthers, ClientPC, Handshakes, Watched,
       OwnerInv, AcceptInv, TypeInv, TypeOK, RoleOK
  <2>2. Settled
    BY <1>16 DEF RebindUnlink, Settled, sockVars, progVars
  <2>. QED BY <1>5, <2>1, <2>2
<1>17. ASSUME NEW p \in Proc, TakeoverDone(p) PROVE Handshakes'
  <2>1. Fades(p)
    BY <1>17 DEF TakeoverDone, sockVars, progVars, Fades, SameOthers, ClientPC, Handshakes, Watched,
       OwnerInv, AcceptInv, TypeInv, TypeOK, RoleOK
  <2>2. Settled
    BY <1>17 DEF TakeoverDone, Settled, sockVars, progVars
  <2>. QED BY <1>5, <2>1, <2>2
<1>18. ASSUME NEW p \in Proc, TakeoverLost(p) PROVE Handshakes'
  <2>1. Fades(p)
    BY <1>18 DEF TakeoverLost, Drops, sockVars, progVars, Fades, SameOthers, ClientPC, Handshakes, Watched,
       OwnerInv, AcceptInv, TypeInv, TypeOK, RoleOK
  <2>2. Settled
    BY <1>18 DEF TakeoverLost, Settled, sockVars, progVars
  <2>. QED BY <1>5, <2>1, <2>2
<1>19. ASSUME NEW p \in Proc, BecomeObserver(p) PROVE Handshakes'
  <2>1. Fades(p)
    BY <1>19 DEF BecomeObserver, sockVars, progVars, Fades, SameOthers, ClientPC, Handshakes, Watched,
       OwnerInv, AcceptInv, TypeInv, TypeOK, RoleOK
  <2>2. Settled
    BY <1>19 DEF BecomeObserver, Settled, sockVars, progVars
  <2>. QED BY <1>5, <2>1, <2>2
<1>20. ASSUME NEW p \in Proc, ObserverGone(p) PROVE Handshakes'
  <2>1. Fades(p)
    BY <1>20 DEF ObserverGone, sockVars, progVars, Fades, SameOthers, ClientPC, Handshakes, Watched,
       OwnerInv, AcceptInv, TypeInv, TypeOK, RoleOK
  <2>2. Settled
    BY <1>20 DEF ObserverGone, Settled, sockVars, progVars
  <2>. QED BY <1>5, <2>1, <2>2
<1>21. ASSUME NEW p \in Proc, Detach(p) PROVE Handshakes'
  <2>1. Fades(p)
    BY <1>21 DEF Detach, sockVars, progVars, Fades, SameOthers, ClientPC, Handshakes, Watched,
       OwnerInv, AcceptInv, TypeInv, TypeOK, RoleOK
  <2>2. Settled
    BY <1>21 DEF Detach, Settled, sockVars, progVars
  <2>. QED BY <1>5, <2>1, <2>2
<1>22. ASSUME NEW p \in Proc, ObserveBye(p) PROVE Handshakes'
  <2>1. Fades(p)
    BY <1>22 DEF ObserveBye, Drops, sockVars, progVars, Fades, SameOthers, ClientPC, Handshakes, Watched,
       OwnerInv, AcceptInv, TypeInv, TypeOK, RoleOK
  <2>2. Settled
    BY <1>22 DEF ObserveBye, Settled, sockVars, progVars
  <2>. QED BY <1>5, <2>1, <2>2
<1>23. ASSUME NEW p \in Proc, DaemonDrop(p) PROVE Handshakes'
  <2>1. Fades(p)
    BY <1>23 DEF DaemonDrop, Drops, sockVars, progVars, Fades, SameOthers, ClientPC, Handshakes, Watched,
       OwnerInv, AcceptInv, TypeInv, TypeOK, RoleOK
  <2>2. Settled
    BY <1>23 DEF DaemonDrop, Settled, sockVars, progVars
  <2>. QED BY <1>5, <2>1, <2>2
<1>24. ASSUME NEW p \in Proc, AttachQuery(p) PROVE Handshakes'
  <2>0. PICK k \in Conn : k = conn[p]
    BY <1>24 DEF AttachQuery, ClientPC, OwnerInv, AcceptInv, TypeInv, RoleOK
  <2>. DEFINE q == s2c[k]
  <2>1. /\ q \in Seq(Reply) /\ q # <<>> /\ pc[p] = "query"
        /\ UNCHANGED <<conn, obs, win>>
        /\ \A c \in Proc : c # p => pc'[c] = pc[c]
        /\ \/ pc'[p] = "take" /\ Head(q).type = "L"
           \/ pc'[p] = "fetch"
    BY <1>24, <2>0 DEF AttachQuery, procVars, OwnerInv, AcceptInv, TypeInv, TypeOK, Replies
  <2>2. Head(q).type = "L" => OfType("L", q)
    BY <2>1, HeadType
  <2>3. /\ UNCHANGED <<conn, obs, win>> /\ pc[p] = "query" /\ obs[p] = None
        /\ \A c \in Proc : c # p => pc'[c] = pc[c]
        /\ \/ pc'[p] = "take" /\ OfType("L", s2c[k])
           \/ pc'[p] = "fetch"
    BY <2>1, <2>2 DEF Handshakes, Watched
  <2>4. Ages(p)
    BY <2>0, <2>3 DEF Ages, SameOthers, ClientOf, Past, At, ClientPC
  <2>5. Settled
    BY <1>24 DEF AttachQuery, Settled, sockVars, progVars
  <2>. QED BY <1>0, <2>4, <2>5, MuteDue, SettledFrame
<1>25. ASSUME NEW p \in Proc, AttachListener(p) PROVE Handshakes'
  <2>1. /\ UNCHANGED <<conn, obs, win>> /\ pc[p] = "sock" /\ pc'[p] = "sizing" /\ obs[p] = None
        /\ \A q \in Proc : q # p => pc'[q] = pc[q]
    BY <1>25 DEF AttachListener, Handshakes, Watched, OwnerInv, AcceptInv, TypeInv, TypeOK
  <2>2. Ages(p)
    BY <2>1 DEF Ages, SameOthers, ClientOf, Past, At, ClientPC
  <2>3. Settled
    BY <1>25 DEF AttachListener, Settled, sockVars, progVars
  <2>. QED BY <1>0, <2>2, <2>3, MuteDue, SettledFrame
<1>26. ASSUME NEW p \in Proc, AttachSize(p) PROVE Handshakes'
  <2>1. /\ win' = win /\ pc[p] = "sizing" /\ pc'[p] = "loop" /\ obs'[p] = conn[p] /\ conn'[p] = None
        /\ \A q \in Proc : q # p => pc'[q] = pc[q] /\ obs'[q] = obs[q] /\ conn'[q] = conn[q]
    BY <1>26 DEF AttachSize, OwnerInv, AcceptInv, TypeInv, TypeOK
  <2>2. Ages(p)
    BY <2>1 DEF Ages, SameOthers, ClientOf, Past, At, ClientPC
  <2>3. Settled
    BY <1>26 DEF AttachSize, Settled, sockVars, progVars
  <2>. QED BY <1>0, <2>2, <2>3, MuteDue, SettledFrame
<1>27. ASSUME NEW p \in Proc, AttachSession(p) PROVE Handshakes'
  BY <1>27, <1>0, ReceivedAges
<1>28. ASSUME NEW p \in Proc, AttachConnect(p) PROVE Handshakes'
  BY <1>28, <1>0, ConnectAges DEF AttachConnect, progVars
<1>29. ASSUME NEW p \in Proc, ListenRefused(p) PROVE Handshakes'
  BY <1>29, <1>0, ConnectAges DEF ListenRefused, procVars, progVars
<1>30. ASSUME NEW p \in Proc, ListenBind(p) PROVE Handshakes'
  <2>1. PICK l \in Sock, g \in Prog : Binds(p, l) /\ RunsProgram(p, g)
    BY <1>30 DEF ListenBind
  <2>. QED BY <1>30, <1>0, <2>1, RunsAges DEF ListenBind, Binds
<1>31. ASSUME NEW p \in Proc, NewWindow(p) PROVE Handshakes'
  BY <1>31, <1>0, RunsAges DEF NewWindow, sockVars
<1>32. ASSUME NEW p \in Proc, RebindBind(p) PROVE Handshakes'
  <2>1. PICK l \in Sock : Binds(p, l)
    BY <1>32 DEF RebindBind
  <2>2. \A m \in Sock : backlog'[m] = backlog[m] \/ backlog'[m] = <<>>
    BY <2>1 DEF Binds, OwnerInv, AcceptInv, TypeInv, TypeOK, Backlogs
  <2>3. KeepsWaits /\ KeepsHeirs
    BY <1>32, <1>0, <2>2, QueueWaits, SameHeirs
    DEF InSeq, RebindBind, progVars, OwnerInv, AcceptInv, TypeInv
  <2>4. Fades(p)
    BY <1>32, <2>1 DEF RebindBind, Binds, Fades, SameOthers, ClientPC, Handshakes, Watched,
       OwnerInv, AcceptInv, TypeInv, TypeOK
  <2>. QED BY <2>3, <2>4, FadeAges, MuteDue, AgeFrame
<1>33. ASSUME NEW p \in Proc, CloseWindow(p) \/ Reap(p) PROVE Handshakes'
  <2>1. PICK w \in win[p] : Frees(p, w)
    BY <1>33 DEF CloseWindow, Reap
  <2>2. UNCHANGED <<backlog, running, cinh>>
    BY <1>33, <2>1 DEF CloseWindow, Reap, Frees, progVars, sockVars
  <2>3. CASE Gone(p)
    BY <1>0, <2>2, <2>3, GoneAges DEF Settled
  <2>4. CASE win' = [win EXCEPT ![p] = @ \ {w}] /\ UNCHANGED <<pc, conn, obs>>
    <3>1. Fades(p)
      BY <2>4 DEF Fades, SameOthers, Handshakes, Watched, OwnerInv, AcceptInv, TypeInv, TypeOK
    <3>. QED BY <1>5, <2>2, <3>1 DEF Settled
  <2>. QED BY <2>1, <2>3, <2>4 DEF Frees, Quits
<1>34. ASSUME NEW p \in Proc, Drain(p) PROVE Handshakes'
  <2>1. Fades(p)
    BY <1>34 DEF Drain, Fades, SameOthers, Handshakes, Watched, OwnerInv, AcceptInv, TypeInv, TypeOK
  <2>2. Settled
    BY <1>34 DEF Drain, Settled, sockVars
  <2>. QED BY <1>5, <2>1, <2>2
<1>35. ASSUME UNCHANGED <<pc, conn, obs, win, backlog>>,
             UNCHANGED <<running, cinh>> \/ \E g \in Prog : Ends(g)
      PROVE  Handshakes'
  <2>1. KeepsWaits /\ KeepsHeirs /\ KeepsDue
    BY <1>35, <1>0, QueueWaits, SameHeirs, MuteDue DEF OwnerInv, AcceptInv, TypeInv
  <2>2. CASE Proc = {}
    BY <2>2 DEF Handshakes, Watched, OneClient, Received
  <2>3. ASSUME NEW p \in Proc PROVE Handshakes'
    <3>1. Fades(p)
      BY <1>35 DEF Fades, SameOthers, Handshakes, Watched
    <3>. QED BY <2>1, <3>1, FadeAges, AgeFrame
  <2>. QED BY <2>2, <2>3
<1>36. ASSUME NEW g \in Prog, ProgWrites(g) PROVE Handshakes'
  BY <1>36, <1>35 DEF ProgWrites, procVars, sockVars
<1>37. ASSUME NEW g \in Prog, Ends(g) PROVE Handshakes'
  BY <1>37, <1>35 DEF Ends, procVars, sockVars
<1>38. CASE UNCHANGED vars
  BY <1>38, <1>35 DEF vars
<1>. QED
  BY <1>1, <1>2, <1>3, <1>4, <1>6, <1>7, <1>8, <1>9, <1>10, <1>11, <1>12,
     <1>13, <1>14, <1>15, <1>16, <1>17, <1>18, <1>19, <1>20, <1>21, <1>22,
     <1>23, <1>24, <1>25, <1>26, <1>27, <1>28, <1>29, <1>30, <1>31, <1>32,
     <1>33, <1>34, <1>36, <1>37, <1>38
  DEF Next, AttachStep, ServeStep, DaemonStep, ObserveStep, UserStep, LoopStep,
      ProgExits, HangUp

LEMMA HandshakesInit == Init => Handshakes
<1>. SUFFICES ASSUME Init PROVE Handshakes
  OBVIOUS
<1>. USE NoneAssumption
<1>1. \A p \in Proc : pc[p] = "idle" /\ obs[p] = None
  BY DEF Init
<1>2. \A l \in Sock : ~ListenerOpen(l)
  BY <1>1 DEF Init, ListenerOpen, InFlight, ClientHeld, ClientPC
<1>. QED
  BY <1>1, <1>2 DEF Handshakes, Watched, OneClient, ClientOf, Received, Past, At, Young, New,
     Waiting, ClientPC

-----------------------------------------------------------------------------
(* As long as no process was killed, a live instance in a handshake has a   *)
(* client at the other end, the client of one that has sent the session     *)
(* gets the listening socket too, and what the instance owns is in the      *)
(* session it has sent, until its client has received that.                 *)

Joined == {"query", "take", "sock"}
Backed(k) == OfType("lsock", s2c[k]) \/ \E q \in Proc : At(q, k, {"hsAck"})
Owed(c, k) == \/ At(c, k, {"sock"})
              \/ At(c, k, {"take"}) /\ OfType("sess", s2c[k])
              \/ At(c, k, {"query"}) /\ OfType("sess", s2c[k]) /\ OfType("L", s2c[k])

Attended == \A p \in Proc, k \in Conn :
              At(p, k, {"hsCmd", "hsAck"}) => \E c \in Proc : At(c, k, Joined)
Backing == \A c \in Proc, k \in Conn : Owed(c, k) => Backed(k)
Given == \A p \in Proc, k \in Conn, g \in Prog :
           At(p, k, {"hsAck"}) /\ Has(p, g) =>
             Carried(k, g) \/ \E c \in Proc : At(c, k, {"sock"}) /\ Has(c, g)
Undisturbed == Attended /\ Backing /\ Given

\* A step of process p takes no message from others' connections,
Spares(p) ==
  \A k \in Conn : ClientHeld(k) /\ ~ClientOf(p, k) =>
    \A m : InSeq(m, s2c[k]) => InSeq(m, s2c'[k])

\* is careful as a client,
ClientCares(p) ==
  \A k \in Conn :
    /\ At(p, k, Joined) =>
         \A q \in Proc :
           /\ At(q, k, {"hsCmd", "hsAck"})' => At(p, k, Joined)'
           /\ At(q, k, {"hsAck"})' =>
                /\ \A g \in Prog : Carried(k, g) => \/ Carried(k, g)'
                                                    \/ At(p, k, {"sock"})' /\ Has(p, g)'
                /\ At(p, k, {"sock"}) => At(p, k, {"sock"})' /\ win'[p] = win[p]
    /\ Owed(p, k)' => Backed(k)'

\* and as a server.
ServerCares(p) ==
  \A k \in Conn :
    /\ At(p, k, {"hsCmd", "hsAck"})' => \/ At(p, k, {"hsCmd", "hsAck"})
                                        \/ \E c \in Proc : At(c, k, Joined)'
    /\ At(p, k, {"hsAck"}) /\ ClientHeld(k) => Backed(k)'
    /\ \A g \in Prog : At(p, k, {"hsAck"})' /\ Has(p, g)' =>
         (At(p, k, {"hsAck"}) /\ Has(p, g)) \/ Carried(k, g)'
    /\ \A c \in Proc : c # p /\ Owed(c, k)' => Owed(c, k) \/ Backed(k)'

LEMMA CareFrame ==
  ASSUME Handshakes, Undisturbed, NEW p \in Proc,
         SameOthers(p), Spares(p), ClientCares(p), ServerCares(p)
  PROVE  Undisturbed'
<1>1. ASSUME NEW c \in Proc, c # p, NEW k \in Conn, At(c, k, Joined)
      PROVE  /\ ClientHeld(k) /\ ClientHeld(k)' /\ ~ClientOf(p, k)
             /\ \A m : InSeq(m, s2c[k]) => InSeq(m, s2c'[k])
  <2>1. ClientOf(c, k) /\ ClientHeld(k) /\ ClientHeld(k)'
    BY <1>1 DEF At, Joined, ClientOf, ClientHeld, ClientPC, SameOthers
  <2>2. ~ClientOf(p, k)
    BY <1>1, <2>1 DEF Handshakes, OneClient
  <2>. QED BY <2>1, <2>2 DEF Spares
<1>2. Attended'
  <2>. SUFFICES ASSUME NEW q \in Proc, NEW k \in Conn, At(q, k, {"hsCmd", "hsAck"})',
                       At(q, k, {"hsCmd", "hsAck"})
                PROVE  \E c \in Proc : At(c, k, Joined)'
    BY DEF Attended, ServerCares, SameOthers, At
  <2>1. PICK c \in Proc : At(c, k, Joined)
    BY DEF Undisturbed, Attended
  <2>. QED BY <2>1 DEF ClientCares, SameOthers, At
<1>3. Backing'
  <2>. SUFFICES ASSUME NEW c \in Proc, NEW k \in Conn, Owed(c, k)', c # p, Owed(c, k)
                PROVE  Backed(k)'
    BY DEF Backing, ClientCares, ServerCares
  <2>1. At(c, k, Joined)
    BY DEF Owed, At, Joined
  <2>2. CASE OfType("lsock", s2c[k])
    <3>1. PICK i \in DOMAIN s2c[k] : s2c[k][i].type = "lsock"
      BY <2>2 DEF OfType
    <3>2. InSeq(s2c[k][i], s2c'[k])
      BY <1>1, <2>1, <3>1 DEF InSeq
    <3>. QED BY <3>1, <3>2 DEF InSeq, OfType, Backed
  <2>3. CASE \E q \in Proc : At(q, k, {"hsAck"})
    BY <1>1, <2>1, <2>3 DEF ServerCares, SameOthers, At, Backed
  <2>. QED BY <2>2, <2>3 DEF Undisturbed, Backing, Backed
<1>4. Given'
  <2>. SUFFICES ASSUME NEW q \in Proc, NEW k \in Conn, NEW g \in Prog,
                       At(q, k, {"hsAck"})', At(q, k, {"hsAck"}), Has(q, g)
                PROVE  Carried(k, g)' \/ \E c \in Proc : At(c, k, {"sock"})' /\ Has(c, g)'
    <3>1. \A q \in Proc, g \in Prog : q # p => (Has(q, g)' <=> Has(q, g))
      BY DEF SameOthers, Has
    <3>. QED BY <3>1 DEF Given, ServerCares, SameOthers, At
  <2>1. PICK c \in Proc : At(c, k, Joined)
    BY DEF Undisturbed, Attended, At
  <2>2. CASE Carried(k, g)
    <3>1. CASE c = p
      BY <2>1, <2>2, <3>1 DEF ClientCares
    <3>2. CASE c # p
      <4>1. PICK i \in DOMAIN s2c[k] : Lists(s2c[k][i], g)
        BY <2>2 DEF Carried, Carries
      <4>2. InSeq(s2c[k][i], s2c'[k]) /\ ClientHeld(k)'
        BY <1>1, <2>1, <3>2, <4>1 DEF InSeq
      <4>. QED BY <4>1, <4>2 DEF InSeq, Carried, Carries
    <3>. QED BY <3>1, <3>2
  <2>3. ASSUME NEW b \in Proc, At(b, k, {"sock"}), Has(b, g)
        PROVE  At(b, k, {"sock"})' /\ Has(b, g)'
    BY <2>3 DEF ClientCares, SameOthers, At, Joined, Has
  <2>. QED BY <2>2, <2>3 DEF Undisturbed, Given
<1>. QED BY <1>2, <1>3, <1>4 DEF Undisturbed

\* What is behind the first message.
LEMMA TailRest ==
  ASSUME NEW q \in Seq(Reply), q # <<>>
  PROVE  /\ \A t : OfType(t, q) => Head(q).type = t \/ OfType(t, Tail(q))
         /\ \A g : Carries(q, g) => Lists(Head(q), g) \/ Carries(Tail(q), g)
<1>1. ASSUME NEW i \in DOMAIN q, i # 1 PROVE i - 1 \in DOMAIN Tail(q) /\ Tail(q)[i - 1] = q[i]
  BY <1>1
<1>2. Head(q) = q[1]
  OBVIOUS
<1>. QED BY <1>1, <1>2 DEF OfType, Carries

\* No other client is owed more than it was.
LEMMA MuteOwed ==
  ASSUME Mute, NEW p \in Proc, SameOthers(p), NEW c \in Proc, c # p, NEW k \in Conn, Owed(c, k)'
  PROVE  Owed(c, k)
<1>1. ClientHeld(k)' /\ pc'[c] = pc[c] /\ conn'[c] = conn[c]
  BY DEF Owed, At, ClientHeld, ClientPC, SameOthers
<1>2. \A t : OfType(t, s2c[k])' => OfType(t, s2c[k])
  BY <1>1, MuteTypes DEF OfType
<1>. QED BY <1>1, <1>2 DEF Owed, At

\* What process p does elsewhere.
LEMMA ElsewhereCares ==
  ASSUME Handshakes, Undisturbed, Mute, NEW p \in Proc, SameOthers(p), Spares(p),
         {pc[p], pc'[p]} \cap Joined = {},
         pc'[p] \in {"hsCmd", "hsAck"} => pc'[p] = pc[p] /\ conn'[p] = conn[p],
         pc'[p] = "hsAck" => \A g \in Prog : Has(p, g)' => Has(p, g),
         pc[p] = "hsAck" => \/ pc'[p] = "hsAck" /\ conn'[p] = conn[p]
                            \/ ~ClientHeld(conn[p])
  PROVE  Undisturbed'
<1>1. ClientCares(p)
  BY DEF ClientCares, At, Owed, Joined
<1>2. ServerCares(p)
  BY MuteOwed DEF ServerCares, At, Backed
<1>. QED BY <1>1, <1>2, CareFrame

LEMMA QueryCares ==
  ASSUME OwnerInv, Handshakes, Undisturbed, Mute, NEW p \in Proc, AttachQuery(p)
  PROVE  Undisturbed'
<1>. USE NoneAssumption
<1>0. PICK k \in Conn : k = conn[p]
  BY DEF AttachQuery, ClientPC, OwnerInv, AcceptInv, TypeInv, RoleOK
<1>. DEFINE q == s2c[k]
<1>1. /\ q \in Seq(Reply) /\ q # <<>> /\ pc[p] = "query" /\ ClientHeld(k)
      /\ UNCHANGED <<conn, obs, win>>
      /\ \A c \in Conn : s2c'[c] = IF c = k THEN Tail(q) ELSE s2c[c]
      /\ \A c \in Proc : c # p => pc'[c] = pc[c]
      /\ \/ pc'[p] = "take" /\ Head(q).type = "L"
         \/ pc'[p] = "fetch" /\ Head(q).type = "D"
  BY <1>0 DEF AttachQuery, procVars, Recv, ClientHeld, ClientPC, OwnerInv, AcceptInv, TypeInv,
     TypeOK, Replies
<1>2. /\ SameOthers(p) /\ Spares(p) /\ obs[p] = None
      /\ \A c \in Conn : At(p, c, Joined) => c = k
  BY <1>0, <1>1 DEF SameOthers, Spares, ClientOf, ClientPC, At, Handshakes, Watched
<1>3. /\ \A t : OfType(t, q) => Head(q).type = t \/ OfType(t, Tail(q))
      /\ \A g : Carries(q, g) => Lists(Head(q), g) \/ Carries(Tail(q), g)
      /\ OfType(Head(q).type, q)
  BY <1>1, TailRest, HeadType
<1>4. ServerCares(p)
  BY <1>1, <1>2, MuteOwed DEF ServerCares, At
<1>5. ASSUME NEW c \in Conn, Owed(p, c)' PROVE Backed(c)'
  <2>1. c = k /\ pc'[p] = "take" /\ OfType("sess", s2c'[k]) /\ ClientHeld(k)'
    BY <1>0, <1>1, <1>5 DEF Owed, At, OfType, ClientHeld, ClientPC
  <2>2. OfType("sess", q) /\ OfType("L", q)
    BY <1>1, <1>3, <2>1, MuteTypes
  <2>3. Backed(k)
    BY <1>0, <1>1, <2>2 DEF Undisturbed, Backing, Owed, At
  <2>4. OfType("lsock", q) => OfType("lsock", s2c'[k])
    BY <1>1, <1>3, <2>1
  <2>5. \A b \in Proc : At(b, k, {"hsAck"}) => At(b, k, {"hsAck"})'
    BY <1>1 DEF At
  <2>. QED BY <2>1, <2>3, <2>4, <2>5 DEF Backed, OfType
<1>6. ASSUME NEW b \in Proc, At(b, k, {"hsCmd", "hsAck"})' PROVE At(p, k, Joined)'
  <2>1. At(b, k, {"hsCmd", "hsAck"}) /\ Serves(b, k)
    BY <1>1, <1>6 DEF At, Serves, ClientPC
  <2>2. ~OfType("D", q)
    BY <1>1, <2>1 DEF OwnerInv, Phases, InPhase, At
  <2>. QED BY <1>0, <1>1, <1>3, <2>2 DEF At, Joined
<1>7. \A g \in Prog : Carried(k, g) => Carried(k, g)' \/ pc'[p] = "fetch"
  <2>1. \A g : ~Lists(Head(q), g)
    BY <1>1 DEF Lists
  <2>2. pc'[p] = "take" => ClientHeld(k)'
    BY <1>0, <1>1 DEF ClientHeld, ClientPC
  <2>3. \A g : Carries(s2c[k], g)' <=> Carries(Tail(q), g)
    BY <1>1 DEF Carries
  <2>. QED BY <1>1, <1>3, <2>1, <2>2, <2>3 DEF Carried
<1>8. ClientCares(p)
  BY <1>1, <1>2, <1>5, <1>6, <1>7 DEF ClientCares, At, Joined
<1>. QED BY <1>2, <1>4, <1>8, CareFrame

LEMMA ReceivedCares ==
  ASSUME OwnerInv, Handshakes, Undisturbed, Mute, NEW p \in Proc, AttachSession(p)
  PROVE  Undisturbed'
<1>. USE NoneAssumption
<1>0. PICK k \in Conn : k = conn[p]
  BY DEF AttachSession, ClientPC, OwnerInv, AcceptInv, TypeInv, RoleOK
<1>. DEFINE q == s2c[k]
<1>1. /\ q \in Seq(Reply) /\ q # <<>> /\ Head(q).type = "sess" /\ obs' = obs /\ ClientHeld(k)
      /\ win'[p] = {[w EXCEPT !.bare = TRUE] : w \in Head(q).win}
      /\ \A c \in Conn : s2c'[c] = IF c = k THEN Tail(q) ELSE s2c[c]
      /\ \A c \in Proc : c # p => pc'[c] = pc[c] /\ conn'[c] = conn[c] /\ win'[c] = win[c]
      /\ \/ pc[p] = "take" /\ pc'[p] = "sock" /\ conn'[p] = k
         \/ pc[p] = "fetch" /\ pc'[p] = "rebind" /\ conn'[p] = None
  BY <1>0 DEF AttachSession, Recv, ClientHeld, ClientPC, OwnerInv, AcceptInv, TypeInv, TypeOK, Replies
<1>2. /\ SameOthers(p) /\ Spares(p) /\ obs[p] = None
      /\ \A c \in Conn : At(p, c, Joined) => c = k
  BY <1>0, <1>1 DEF SameOthers, Spares, ClientOf, ClientPC, At, Handshakes, Watched
<1>3. CASE pc[p] = "fetch"
  BY <1>1, <1>2, <1>3, ElsewhereCares DEF Joined
<1>4. CASE pc[p] = "take"
  <2>1. \A g : Carries(q, g) => Has(p, g)'
    <3>1. \A g : ~Carries(Tail(q), g)
      <4>1. Single(q)
        BY <1>1 DEF OwnerInv, Shares, OneSess
      <4>. QED BY <1>1, <4>1, SessHead DEF Carries, Lists, OfType
    <3>2. \A g : Carries(q, g) => Lists(Head(q), g)
      BY <1>1, <3>1, TailRest
    <3>3. Head(q) \in Reply /\ Head(q).win \subseteq Window
      BY <1>1 DEF Reply
    <3>4. \A w \in Head(q).win : [w EXCEPT !.bare = TRUE].prog = w.prog
      BY <3>3 DEF Window
    <3>5. ASSUME NEW g, Lists(Head(q), g) PROVE Has(p, g)'
      <4>1. PICK w \in Head(q).win : w.prog = g
        BY <3>5 DEF Lists
      <4>2. [w EXCEPT !.bare = TRUE] \in win'[p]
        BY <1>1
      <4>. QED BY <3>4, <4>1, <4>2 DEF Has
    <3>. QED BY <3>2, <3>5
  <2>2. Backed(k)'
    <3>1. Backed(k)
      BY <1>0, <1>1, <1>4, HeadType DEF Undisturbed, Backing, Owed, At
    <3>2. OfType("lsock", q) => OfType("lsock", s2c'[k])
      BY <1>1, TailRest
    <3>3. \A b \in Proc : At(b, k, {"hsAck"}) => At(b, k, {"hsAck"})'
      BY <1>1, <1>4 DEF At
    <3>. QED BY <3>1, <3>2, <3>3 DEF Backed, OfType
  <2>3. ClientCares(p)
    BY <1>0, <1>1, <1>2, <1>4, <2>1, <2>2 DEF ClientCares, Owed, At, Joined, Carried
  <2>4. ServerCares(p)
    BY <1>1, <1>2, <1>4, MuteOwed DEF ServerCares, At
  <2>. QED BY <1>2, <2>3, <2>4, CareFrame
<1>. QED BY <1>1, <1>3, <1>4

LEMMA ListenerCares ==
  ASSUME OwnerInv, Handshakes, Undisturbed, Mute, NEW p \in Proc, AttachListener(p)
  PROVE  Undisturbed'
<1>. USE NoneAssumption
<1>0. PICK k \in Conn : k = conn[p]
  BY DEF AttachListener, ClientPC, OwnerInv, AcceptInv, TypeInv, RoleOK
<1>. DEFINE q == s2c[k]
<1>1. /\ q \in Seq(Reply) /\ q # <<>> /\ Head(q).type = "lsock" /\ ClientHeld(k)
      /\ pc[p] = "sock" /\ pc'[p] = "sizing" /\ UNCHANGED <<conn, obs, win>>
      /\ \A c \in Conn : s2c'[c] = IF c = k THEN Tail(q) ELSE s2c[c]
      /\ \A c \in Proc : c # p => pc'[c] = pc[c]
  BY <1>0 DEF AttachListener, Recv, ClientHeld, ClientPC, OwnerInv, AcceptInv, TypeInv, TypeOK, Replies
<1>2. /\ SameOthers(p) /\ Spares(p)
      /\ \A c \in Conn : At(p, c, Joined) => c = k
  BY <1>0, <1>1 DEF SameOthers, Spares, ClientOf, ClientPC, At
<1>3. ASSUME NEW b \in Proc, At(b, k, {"hsCmd", "hsAck"})' PROVE FALSE
  <2>1. At(b, k, {"hsCmd", "hsAck"}) /\ Serves(b, k)
    BY <1>1, <1>3 DEF At, Serves, ClientPC
  <2>. QED BY <1>1, <2>1, HeadType DEF OwnerInv, Phases, InPhase, At
<1>4. ClientCares(p)
  BY <1>1, <1>2, <1>3 DEF ClientCares, Owed, At, Joined
<1>5. ServerCares(p)
  BY <1>1, <1>2, MuteOwed DEF ServerCares, At
<1>. QED BY <1>2, <1>4, <1>5, CareFrame

\* A process ends that serves nobody: an attacher gives up when no one is left
\* at the other end.
LEMMA GoneCares ==
  ASSUME OwnerInv, Handshakes, Undisturbed, Mute, NEW p \in Proc, Gone(p),
         AttachLost(p) \/ pc[p] \notin Joined \cup {"hsCmd", "hsAck"}
  PROVE  Undisturbed'
<1>. USE NoneAssumption
<1>1. pc'[p] = "idle" /\ SameOthers(p)
  BY DEF Gone, SameOthers, OwnerInv, AcceptInv, TypeInv, TypeOK
<1>2. Spares(p)
  BY DEF Gone, Spares, Flush, ClientEnds, ClientOf
<1>3. CASE AttachLost(p)
  <2>1. ~ServerHeld(conn[p])
    BY <1>3 DEF AttachLost, ServerOpen
  <2>2. \A q \in Proc, k \in Conn : At(p, k, Joined) => ~At(q, k, {"hsCmd", "hsAck"})'
    BY <1>1, <2>1 DEF At, ServerHeld, ClientPC, SameOthers
  <2>3. ClientCares(p)
    BY <1>1, <2>2 DEF ClientCares, Owed, At
  <2>4. ServerCares(p)
    BY <1>1, <1>3, MuteOwed DEF ServerCares, At, AttachLost
  <2>. QED BY <1>1, <1>2, <2>3, <2>4, CareFrame
<1>4. CASE pc[p] \notin Joined \cup {"hsCmd", "hsAck"}
  BY <1>1, <1>2, <1>4, ElsewhereCares DEF Joined
<1>. QED BY <1>3, <1>4

LEMMA ConnectCares ==
  ASSUME OwnerInv, Handshakes, Undisturbed, Mute, NEW p \in Proc, AttachConnect(p)
  PROVE  Undisturbed'
<1>. USE NoneAssumption
<1>0. PICK k \in Conn : FreeConn(k) /\ conn' = [conn EXCEPT ![p] = k] /\ s2c' = Flush(s2c, {k})
  BY DEF AttachConnect
<1>1. /\ pc[p] \in {"idle", "again"} /\ pc'[p] = "query" /\ conn'[p] = k
      /\ \A c \in Proc : c # p => pc'[c] = pc[c] /\ conn'[c] = conn[c]
      /\ UNCHANGED <<obs, win>>
      /\ \A c \in Conn : s2c'[c] = IF c = k THEN <<>> ELSE s2c[c]
  BY <1>0 DEF AttachConnect, Flush, OwnerInv, AcceptInv, TypeInv, TypeOK
<1>2. SameOthers(p) /\ Spares(p)
  BY <1>0, <1>1 DEF SameOthers, Spares, FreeConn, ClientOpen
<1>3. ~OfType("sess", s2c[k])'
  BY <1>1 DEF OfType
<1>4. ClientCares(p)
  BY <1>1, <1>3 DEF ClientCares, Owed, At, Joined
<1>5. ServerCares(p)
  BY <1>1, <1>2, MuteOwed DEF ServerCares, At
<1>. QED BY <1>2, <1>4, <1>5, CareFrame

LEMMA AppendKeeps ==
  ASSUME NEW q \in Seq(Reply), NEW m \in Reply
  PROVE  \A n : InSeq(n, q) => InSeq(n, Append(q, m))
<1>. DEFINE r == Append(q, m)
<1>1. \A i \in DOMAIN q : i \in DOMAIN r /\ r[i] = q[i]
  OBVIOUS
<1>. HIDE DEF r
<1>2. \A n : InSeq(n, q) => InSeq(n, r)
  BY <1>1 DEF InSeq
<1>. QED BY <1>2 DEF r

\* A connection whose question has arrived is held by who asked.
LEMMA AcceptCares ==
  ASSUME OwnerInv, Handshakes, Undisturbed, NEW p \in Proc, NEW role \in {"loop", "daemon"},
         NEW next, NEW answer,
         <<next, answer>> \in {<<"hsCmd", "L">>, <<"dCmd", "D">>},
         Accepts(p, role, next, answer)
  PROVE  Undisturbed'
<1>. USE NoneAssumption
<1>. DEFINE l == lsock[p]
<1>0. PICK k \in Conn : k = Head(backlog[l])
  BY DEF Accepts, OwnerInv, AcceptInv, TypeInv, TypeOK, Backlogs
<1>1. l \in Sock /\ ListenerOpen(l) /\ backlog[l] \in Seq(Conn) /\ backlog[l] # <<>>
  BY DEF Accepts, ListenerOpen, OwnerInv, AcceptInv, TypeInv, TypeOK, Backlogs
<1>2. 1 \in DOMAIN backlog[l] /\ backlog[l][1] = k
  BY <1>0, <1>1
<1>3. (ClientHeld(k) => Unanswered(k)) /\ Waiting(k)
  BY <1>1, <1>2 DEF OwnerInv, Fresh, Waiting, InSeq
<1>4. UNCHANGED <<obs, win>> /\ pc[p] = role /\ role \notin Joined \cup {"hsCmd", "hsAck"}
  BY DEF Accepts, Joined
<1>5. CASE UNCHANGED <<pc, conn, s2c>>
  <2>1. Undisturbed' <=> Undisturbed
    BY <1>4, <1>5 DEF Undisturbed, Attended, Backing, Given, At, Owed, Backed, OfType, Carried,
       ClientHeld, Carries, Has
  <2>. QED BY <2>1
<1>6. CASE /\ ClientOpen(k)
           /\ pc' = [pc EXCEPT ![p] = next]
           /\ conn' = [conn EXCEPT ![p] = k]
           /\ s2c' = Send(s2c, k, [type |-> answer])
  <2>1. /\ pc'[p] = next /\ conn'[p] = k /\ next \in {"hsCmd", "dCmd"}
        /\ \A q \in Proc : q # p => pc'[q] = pc[q] /\ conn'[q] = conn[q]
    BY <1>6 DEF OwnerInv, AcceptInv, TypeInv, TypeOK
  <2>2. PICK c \in Proc : At(c, k, {"query"})
    <3>1. ~Inherited(k, "c") /\ \A c \in Proc : obs[c] # k
      BY <1>3 DEF Handshakes, New
    <3>2. ClientHeld(k)
      BY <1>6, <3>1 DEF ClientOpen
    <3>3. PICK c \in Proc : pc[c] \in ClientPC /\ conn[c] = k
      BY <3>1, <3>2 DEF ClientHeld
    <3>. QED BY <1>3, <3>2, <3>3 DEF Unanswered, At
  <2>3. [type |-> answer] \in Reply /\ \A b \in Conn : s2c[b] \in Seq(Reply)
    BY DEF Reply, OwnerInv, AcceptInv, TypeInv, TypeOK, Replies
  <2>4. \A b \in Conn : s2c'[b] = IF b = k THEN Append(s2c[b], [type |-> answer]) ELSE s2c[b]
    BY <1>6 DEF Send, OwnerInv, AcceptInv, TypeInv, TypeOK, Replies
  <2>5. ~OfType("sess", s2c[k])'
    <3>1. s2c[k] = <<>>
      BY <1>3, <2>2 DEF Unanswered, At, ClientHeld, ClientPC
    <3>2. ~OfType("sess", s2c[k])
      BY <3>1 DEF OfType
    <3>3. \A t : OfType(t, s2c'[k]) <=> OfType(t, s2c[k]) \/ answer = t
      BY <2>3, <2>4, Sending
    <3>. QED BY <3>2, <3>3 DEF OfType
  <2>6. \A b \in Proc : ~At(b, k, {"sock"})
    BY <1>3, <2>2 DEF Unanswered, At, ClientHeld, ClientPC
  <2>7. SameOthers(p) /\ Spares(p)
    <3>1. SameOthers(p)
      BY <1>4, <2>1 DEF SameOthers
    <3>2. \A b \in Conn : \A m : InSeq(m, s2c[b]) => InSeq(m, s2c'[b])
      BY <2>3, <2>4, AppendKeeps
    <3>. QED BY <3>1, <3>2 DEF Spares
  <2>8. ClientCares(p)
    BY <1>4, <2>1 DEF ClientCares, Owed, At, Joined
  <2>9. ServerCares(p)
    <3>1. c # p /\ At(c, k, Joined)'
      BY <1>4, <2>1, <2>2 DEF At, Joined
    <3>2. ASSUME NEW b \in Proc, b # p, NEW j \in Conn, Owed(b, j)' PROVE Owed(b, j)
      <4>1. j # k
        BY <2>1, <2>5, <2>6, <3>2 DEF Owed, At
      <4>2. \A t : OfType(t, s2c[j])' <=> OfType(t, s2c[j])
        BY <2>4, <4>1 DEF OfType
      <4>. QED BY <2>1, <3>2, <4>2 DEF Owed, At
    <3>. QED BY <1>4, <2>1, <3>1, <3>2 DEF ServerCares, At
  <2>. QED BY <2>7, <2>8, <2>9, CareFrame
<1>. QED BY <1>0, <1>5, <1>6 DEF Accepts

\* The session is sent to a client that waits for it, the listening socket
\* after it; a daemon's client is owed none.
LEMMA SendsCares ==
  ASSUME OwnerInv, Handshakes, Undisturbed, NEW p \in Proc, NEW k \in Conn, k = conn[p],
         NEW m \in Reply, NEW next,
         <<pc[p], next, m.type>> \in {<<"hsCmd", "hsAck", "sess">>, <<"dCmd", "dAck", "sess">>,
                                      <<"hsAck", "hsSize", "lsock">>},
         m.type = "sess" => \A g \in Prog : Has(p, g) => Lists(m, g),
         Sends(p, k, m, next)
  PROVE  Undisturbed'
<1>. USE NoneAssumption
<1>1. /\ pc'[p] = next /\ {pc[p], next} \cap Joined = {} /\ next \notin ClientPC
      /\ \A q \in Proc : q # p => pc'[q] = pc[q]
      /\ UNCHANGED <<conn, obs, win>>
  BY DEF Sends, Joined, ClientPC, OwnerInv, AcceptInv, TypeInv, TypeOK
<1>2. \A c \in Conn : /\ s2c[c] \in Seq(Reply)
                      /\ s2c'[c] = IF c = k THEN Append(s2c[c], m) ELSE s2c[c]
  BY DEF Sends, Send, OwnerInv, AcceptInv, TypeInv, TypeOK, Replies
<1>3. /\ \A t : OfType(t, s2c'[k]) <=> OfType(t, s2c[k]) \/ m.type = t
      /\ \A g : Carries(s2c'[k], g) <=> Carries(s2c[k], g) \/ Lists(m, g)
  BY <1>2, Sending
<1>4. SameOthers(p) /\ Spares(p)
  <2>1. SameOthers(p)
    BY <1>1 DEF SameOthers
  <2>2. \A b \in Conn : \A n : InSeq(n, s2c[b]) => InSeq(n, s2c'[b])
    BY <1>2, AppendKeeps
  <2>. QED BY <2>1, <2>2 DEF Spares
<1>5. ClientCares(p)
  BY <1>1 DEF ClientCares, Owed, At
<1>6. ASSUME next = "hsAck", NEW g \in Prog, Has(p, g) PROVE Carried(k, g)'
  <2>1. PICK c \in Proc : At(c, k, Joined)
    BY <1>6 DEF Undisturbed, Attended, At
  <2>2. ClientHeld(k)'
    BY <1>1, <2>1 DEF At, Joined, ClientHeld, ClientPC
  <2>3. Carries(s2c'[k], g)
    BY <1>3, <1>6
  <2>. QED BY <2>2, <2>3 DEF Carried, Carries
<1>7. m.type = "lsock" => Backed(k)'
  BY <1>3 DEF Backed, OfType
<1>8. next = "hsAck" => Backed(k)'
  BY <1>1 DEF Backed, At
<1>9. ASSUME NEW c \in Proc, c # p, NEW j \in Conn, Owed(c, j)', ~Backed(j)' PROVE Owed(c, j)
  <2>1. CASE j # k
    <3>1. \A t : OfType(t, s2c[j])' <=> OfType(t, s2c[j])
      BY <1>2, <2>1 DEF OfType
    <3>. QED BY <1>1, <1>9, <3>1 DEF Owed, At
  <2>2. CASE j = k
    <3>1. pc[p] = "dCmd" /\ m.type = "sess"
      BY <1>7, <1>8, <1>9, <2>2
    <3>2. Young(p, k) /\ At(p, k, {"dCmd"})
      BY <3>1 DEF Handshakes, At
    <3>3. /\ ~At(c, k, {"sock", "take"})
          /\ ClientHeld(k) => ~OfType("L", s2c[k])
      BY <3>2 DEF Young, At, Past
    <3>4. At(c, k, {"query"})' => ClientHeld(k) /\ At(c, k, {"query"})
      BY <1>1, <1>9 DEF At, ClientHeld, ClientPC
    <3>5. OfType("L", s2c[k])' => OfType("L", s2c[k])
      BY <1>3, <3>1 DEF OfType
    <3>. QED BY <1>1, <1>9, <2>2, <3>3, <3>4, <3>5 DEF Owed, At
  <2>. QED BY <2>1, <2>2
<1>10. ServerCares(p)
  <2>1. \A g \in Prog : Has(p, g)' <=> Has(p, g)
    BY <1>1 DEF Has
  <2>2. \A j \in Conn : /\ At(p, j, {"hsCmd", "hsAck"})' => At(p, j, {"hsCmd", "hsAck"})
                        /\ At(p, j, {"hsAck"})' => j = k /\ next = "hsAck"
                        /\ At(p, j, {"hsAck"}) => j = k /\ m.type = "lsock"
    BY <1>1 DEF At
  <2>. QED BY <1>6, <1>7, <1>9, <2>1, <2>2 DEF ServerCares
<1>. QED BY <1>4, <1>5, <1>10, CareFrame

\* Process p goes on outside the handshakes, and empties what was its own.
LEMMA PassesCares ==
  ASSUME Handshakes, Undisturbed, Mute, NEW p \in Proc, SameOthers(p),
         pc[p] \notin Joined \cup {"hsAck"}, pc'[p] \notin Joined \cup {"hsCmd", "hsAck"},
         \/ s2c' = s2c
         \/ \E k : s2c' = Flush(s2c, {k}) /\ (k \in Conn /\ ClientHeld(k) => ClientOf(p, k))
  PROVE  Undisturbed'
<1>1. \A k \in Conn : ClientHeld(k) /\ ~ClientOf(p, k) => s2c'[k] = s2c[k]
  BY DEF Flush
<1>2. Spares(p)
  BY <1>1 DEF Spares
<1>. QED BY <1>2, ElsewhereCares

LEMMA UndisturbedNext ==
  OwnerInv /\ Handshakes /\ Undisturbed /\ [Next]_vars /\ crashes' = crashes => Undisturbed'
<1>. SUFFICES ASSUME OwnerInv, Handshakes, Undisturbed, [Next]_vars, crashes' = crashes
              PROVE  Undisturbed'
  OBVIOUS
<1>. USE NoneAssumption
<1>0. Mute \/ \E p \in Proc : Speaks(p)
  BY OwnerNext
<1>1. ASSUME NEW p \in Proc, Accept(p) PROVE Undisturbed'
  BY <1>1, AcceptCares DEF Accept
<1>2. ASSUME NEW p \in Proc, DaemonAccept(p) PROVE Undisturbed'
  BY <1>2, AcceptCares DEF DaemonAccept
<1>3. ASSUME NEW p \in Proc, DaemonSession(p) PROVE Undisturbed'
  <2>. DEFINE m == [type |-> "sess", win |-> win[p]]
  <2>1. conn[p] \in Conn
    BY <1>3 DEF DaemonSession, ServerPC, OwnerInv, AcceptInv, TypeInv, RoleOK
  <2>2. m \in Reply /\ m.type = "sess" /\ \A g \in Prog : Has(p, g) => Lists(m, g)
    BY DEF Reply, Has, Lists, OwnerInv, AcceptInv, TypeInv, TypeOK
  <2>3. Sends(p, conn[p], m, "dAck") /\ pc[p] = "dCmd"
    BY <1>3 DEF DaemonSession, Sends, procVars, sockVars
  <2>. HIDE DEF m
  <2>. QED BY <2>1, <2>2, <2>3, SendsCares
<1>4. ASSUME NEW p \in Proc, TakeoverSession(p) PROVE Undisturbed'
  <2>. DEFINE m == [type |-> "sess", win |-> win[p]]
  <2>1. conn[p] \in Conn /\ pc[p] = "hsCmd"
    BY <1>4 DEF TakeoverSession, ServerPC, OwnerInv, AcceptInv, TypeInv, RoleOK
  <2>2. m \in Reply /\ m.type = "sess" /\ \A g \in Prog : Has(p, g) => Lists(m, g)
    BY DEF Reply, Has, Lists, OwnerInv, AcceptInv, TypeInv, TypeOK
  <2>3. ClientOpen(conn[p])
    <3>1. At(p, conn[p], {"hsCmd"})
      BY <2>1 DEF At
    <3>2. PICK c \in Proc : At(c, conn[p], Joined)
      BY <2>1, <3>1 DEF Undisturbed, Attended, At
    <3>. QED BY <3>2 DEF At, Joined, ClientOpen, ClientHeld, ClientPC
  <2>4. Sends(p, conn[p], m, "hsAck")
    BY <1>4, <2>3 DEF TakeoverSession, Sends, sockVars
  <2>. HIDE DEF m
  <2>. QED BY <2>1, <2>2, <2>4, SendsCares
<1>5. ASSUME NEW p \in Proc, TakeoverListener(p) PROVE Undisturbed'
  <2>. DEFINE m == [type |-> "lsock", sock |-> lsock[p]]
  <2>1. conn[p] \in Conn /\ pc[p] = "hsAck"
    BY <1>5 DEF TakeoverListener, ServerPC, OwnerInv, AcceptInv, TypeInv, RoleOK
  <2>2. m \in Reply /\ m.type = "lsock"
    BY <2>1 DEF Reply, OwnerInv, AcceptInv, TypeInv, TypeOK, RoleOK
  <2>3. ClientOpen(conn[p])
    <3>1. At(p, conn[p], {"hsAck"})
      BY <2>1 DEF At
    <3>2. PICK c \in Proc : At(c, conn[p], Joined)
      BY <2>1, <3>1 DEF Undisturbed, Attended, At
    <3>. QED BY <3>2 DEF At, Joined, ClientOpen, ClientHeld, ClientPC
  <2>4. Sends(p, conn[p], m, "hsSize")
    BY <1>5, <2>3 DEF TakeoverListener, Sends, sockVars
  <2>. HIDE DEF m
  <2>. QED BY <2>1, <2>2, <2>4, SendsCares
<1>. SUFFICES ASSUME Mute PROVE Undisturbed'
  BY <1>0, <1>1, <1>2, <1>3, <1>4, <1>5 DEF Speaks
<1>6. ASSUME NEW p \in Proc, AttachQuery(p) PROVE Undisturbed'
  BY <1>6, QueryCares
<1>7. ASSUME NEW p \in Proc, AttachSession(p) PROVE Undisturbed'
  BY <1>7, ReceivedCares
<1>8. ASSUME NEW p \in Proc, AttachListener(p) PROVE Undisturbed'
  BY <1>8, ListenerCares
<1>9. ASSUME NEW p \in Proc, AttachConnect(p) PROVE Undisturbed'
  BY <1>9, ConnectCares
<1>10. ASSUME NEW p \in Proc, AttachLost(p) PROVE Undisturbed'
  BY <1>10, GoneCares DEF AttachLost
<1>11. ASSUME NEW p \in Proc, AttachRefused(p) PROVE Undisturbed'
  BY <1>11, GoneCares DEF AttachRefused, Quits, Joined
<1>12. ASSUME NEW p \in Proc, ObserveEnd(p) PROVE Undisturbed'
  BY <1>12, GoneCares DEF ObserveEnd, Quits, Joined
<1>13. ASSUME NEW p \in Proc, ObserveLeave(p) PROVE Undisturbed'
  BY <1>13, GoneCares DEF ObserveLeave, Quits, Joined
<1>14. ASSUME NEW p \in Proc, Quit(p) PROVE Undisturbed'
  BY <1>14, GoneCares DEF Quit, Quits, Looping, Joined
<1>15. ASSUME NEW p \in Proc, BindFails(p) PROVE Undisturbed'
  BY <1>15, GoneCares DEF BindFails, Joined
<1>16. ASSUME NEW p \in Proc, DaemonExit(p) PROVE Undisturbed'
  BY <1>16, GoneCares DEF DaemonExit, Joined
<1>17. ASSUME NEW p \in Proc, Crash(p) PROVE Undisturbed'
  BY <1>17 DEF Crash, OwnerInv, AcceptInv, TypeInv, TypeOK
<1>18. ASSUME NEW p \in Proc, ListenProbe(p) PROVE Undisturbed'
  <2>1. SameOthers(p)
    BY <1>18 DEF SameOthers, ListenProbe, procVars, OwnerInv, AcceptInv, TypeInv, TypeOK
  <2>2. /\ pc[p] \notin Joined \cup {"hsAck"} /\ pc'[p] \notin Joined \cup {"hsCmd", "hsAck"}
        /\ \/ s2c' = s2c
           \/ \E k : s2c' = Flush(s2c, {k}) /\ (k \in Conn /\ ClientHeld(k) => ClientOf(p, k))
    BY <1>18 DEF Joined, ListenProbe, procVars, OwnerInv, AcceptInv, TypeInv, TypeOK
  <2>. QED BY <2>1, <2>2, PassesCares
<1>19. ASSUME NEW p \in Proc, ListenUnlink(p) PROVE Undisturbed'
  <2>1. SameOthers(p)
    BY <1>19 DEF SameOthers, ListenUnlink, procVars, OwnerInv, AcceptInv, TypeInv, TypeOK
  <2>2. /\ pc[p] \notin Joined \cup {"hsAck"} /\ pc'[p] \notin Joined \cup {"hsCmd", "hsAck"}
        /\ \/ s2c' = s2c
           \/ \E k : s2c' = Flush(s2c, {k}) /\ (k \in Conn /\ ClientHeld(k) => ClientOf(p, k))
    BY <1>19 DEF Joined, ListenUnlink, procVars, OwnerInv, AcceptInv, TypeInv, TypeOK
  <2>. QED BY <2>1, <2>2, PassesCares
<1>20. ASSUME NEW p \in Proc, RebindUnlink(p) PROVE Undisturbed'
  <2>1. SameOthers(p)
    BY <1>20 DEF SameOthers, RebindUnlink, procVars, OwnerInv, AcceptInv, TypeInv, TypeOK
  <2>2. /\ pc[p] \notin Joined \cup {"hsAck"} /\ pc'[p] \notin Joined \cup {"hsCmd", "hsAck"}
        /\ \/ s2c' = s2c
           \/ \E k : s2c' = Flush(s2c, {k}) /\ (k \in Conn /\ ClientHeld(k) => ClientOf(p, k))
    BY <1>20 DEF Joined, RebindUnlink, procVars, OwnerInv, AcceptInv, TypeInv, TypeOK
  <2>. QED BY <2>1, <2>2, PassesCares
<1>21. ASSUME NEW p \in Proc, AttachSize(p) PROVE Undisturbed'
  <2>1. SameOthers(p)
    BY <1>21 DEF SameOthers, AttachSize, OwnerInv, AcceptInv, TypeInv, TypeOK
  <2>2. /\ pc[p] \notin Joined \cup {"hsAck"} /\ pc'[p] \notin Joined \cup {"hsCmd", "hsAck"}
        /\ \/ s2c' = s2c
           \/ \E k : s2c' = Flush(s2c, {k}) /\ (k \in Conn /\ ClientHeld(k) => ClientOf(p, k))
    BY <1>21 DEF Joined, AttachSize, OwnerInv, AcceptInv, TypeInv, TypeOK
  <2>. QED BY <2>1, <2>2, PassesCares
<1>22. ASSUME NEW p \in Proc, TakeoverDone(p) PROVE Undisturbed'
  <2>1. SameOthers(p)
    BY <1>22 DEF SameOthers, TakeoverDone, OwnerInv, AcceptInv, TypeInv, TypeOK
  <2>2. /\ pc[p] \notin Joined \cup {"hsAck"} /\ pc'[p] \notin Joined \cup {"hsCmd", "hsAck"}
        /\ \/ s2c' = s2c
           \/ \E k : s2c' = Flush(s2c, {k}) /\ (k \in Conn /\ ClientHeld(k) => ClientOf(p, k))
    BY <1>22 DEF Joined, TakeoverDone, ClientOf, OwnerInv, AcceptInv, TypeInv, TypeOK
  <2>. QED BY <2>1, <2>2, PassesCares
<1>23. ASSUME NEW p \in Proc, TakeoverLost(p) PROVE Undisturbed'
  <2>1. SameOthers(p)
    BY <1>23 DEF SameOthers, TakeoverLost, Drops, OwnerInv, AcceptInv, TypeInv, TypeOK
  <2>2. /\ pc[p] \notin Joined \cup {"hsAck"} /\ pc'[p] \notin Joined \cup {"hsCmd", "hsAck"}
        /\ \/ s2c' = s2c
           \/ \E k : s2c' = Flush(s2c, {k}) /\ (k \in Conn /\ ClientHeld(k) => ClientOf(p, k))
    BY <1>23 DEF Joined, TakeoverLost, Drops, OwnerInv, AcceptInv, TypeInv, TypeOK
  <2>. QED BY <2>1, <2>2, PassesCares
<1>24. ASSUME NEW p \in Proc, BecomeObserver(p) PROVE Undisturbed'
  <2>1. SameOthers(p)
    BY <1>24 DEF SameOthers, BecomeObserver, OwnerInv, AcceptInv, TypeInv, TypeOK
  <2>2. /\ pc[p] \notin Joined \cup {"hsAck"} /\ pc'[p] \notin Joined \cup {"hsCmd", "hsAck"}
        /\ \/ s2c' = s2c
           \/ \E k : s2c' = Flush(s2c, {k}) /\ (k \in Conn /\ ClientHeld(k) => ClientOf(p, k))
    BY <1>24 DEF Joined, BecomeObserver, OwnerInv, AcceptInv, TypeInv, TypeOK
  <2>. QED BY <2>1, <2>2, PassesCares
<1>25. ASSUME NEW p \in Proc, ObserverGone(p) PROVE Undisturbed'
  <2>1. SameOthers(p)
    BY <1>25 DEF SameOthers, ObserverGone, OwnerInv, AcceptInv, TypeInv, TypeOK
  <2>2. /\ pc[p] \notin Joined \cup {"hsAck"} /\ pc'[p] \notin Joined \cup {"hsCmd", "hsAck"}
        /\ \/ s2c' = s2c
           \/ \E k : s2c' = Flush(s2c, {k}) /\ (k \in Conn /\ ClientHeld(k) => ClientOf(p, k))
    BY <1>25 DEF Joined, ObserverGone, ClientOf, OwnerInv, AcceptInv, TypeInv, TypeOK
  <2>. QED BY <2>1, <2>2, PassesCares
<1>26. ASSUME NEW p \in Proc, Detach(p) PROVE Undisturbed'
  <2>1. SameOthers(p)
    BY <1>26 DEF SameOthers, Detach, Looping, ClientOf, OwnerInv, AcceptInv, TypeInv, TypeOK
  <2>2. /\ pc[p] \notin Joined \cup {"hsAck"} /\ pc'[p] \notin Joined \cup {"hsCmd", "hsAck"}
        /\ \/ s2c' = s2c
           \/ \E k : s2c' = Flush(s2c, {k}) /\ (k \in Conn /\ ClientHeld(k) => ClientOf(p, k))
    BY <1>26 DEF Joined, Detach, Looping, ClientOf, OwnerInv, AcceptInv, TypeInv, TypeOK
  <2>. QED BY <2>1, <2>2, PassesCares
<1>27. ASSUME NEW p \in Proc, ObserveBye(p) PROVE Undisturbed'
  <2>1. SameOthers(p)
    BY <1>27 DEF SameOthers, ObserveBye, Drops, OwnerInv, AcceptInv, TypeInv, TypeOK
  <2>2. /\ pc[p] \notin Joined \cup {"hsAck"} /\ pc'[p] \notin Joined \cup {"hsCmd", "hsAck"}
        /\ \/ s2c' = s2c
           \/ \E k : s2c' = Flush(s2c, {k}) /\ (k \in Conn /\ ClientHeld(k) => ClientOf(p, k))
    BY <1>27 DEF Joined, ObserveBye, Drops, OwnerInv, AcceptInv, TypeInv, TypeOK
  <2>. QED BY <2>1, <2>2, PassesCares
<1>28. ASSUME NEW p \in Proc, DaemonDrop(p) PROVE Undisturbed'
  <2>1. SameOthers(p)
    BY <1>28 DEF SameOthers, DaemonDrop, Drops, OwnerInv, AcceptInv, TypeInv, TypeOK
  <2>2. /\ pc[p] \notin Joined \cup {"hsAck"} /\ pc'[p] \notin Joined \cup {"hsCmd", "hsAck"}
        /\ \/ s2c' = s2c
           \/ \E k : s2c' = Flush(s2c, {k}) /\ (k \in Conn /\ ClientHeld(k) => ClientOf(p, k))
    BY <1>28 DEF Joined, DaemonDrop, Drops, OwnerInv, AcceptInv, TypeInv, TypeOK
  <2>. QED BY <2>1, <2>2, PassesCares
<1>29. ASSUME NEW p \in Proc, Drain(p) PROVE Undisturbed'
  <2>1. SameOthers(p)
    BY <1>29 DEF SameOthers, Drain, Looping, OwnerInv, AcceptInv, TypeInv, TypeOK
  <2>2. /\ pc[p] \notin Joined \cup {"hsAck"} /\ pc'[p] \notin Joined \cup {"hsCmd", "hsAck"}
        /\ \/ s2c' = s2c
           \/ \E k : s2c' = Flush(s2c, {k}) /\ (k \in Conn /\ ClientHeld(k) => ClientOf(p, k))
    BY <1>29 DEF Joined, Drain, Looping, OwnerInv, AcceptInv, TypeInv, TypeOK
  <2>. QED BY <2>1, <2>2, PassesCares
<1>30. ASSUME NEW p \in Proc, NewWindow(p) PROVE Undisturbed'
  <2>1. SameOthers(p)
    BY <1>30 DEF SameOthers, NewWindow, Looping, RunsProgram, OwnerInv, AcceptInv, TypeInv, TypeOK
  <2>2. /\ pc[p] \notin Joined \cup {"hsAck"} /\ pc'[p] \notin Joined \cup {"hsCmd", "hsAck"}
        /\ \/ s2c' = s2c
           \/ \E k : s2c' = Flush(s2c, {k}) /\ (k \in Conn /\ ClientHeld(k) => ClientOf(p, k))
    BY <1>30 DEF Joined, NewWindow, Looping, RunsProgram, OwnerInv, AcceptInv, TypeInv, TypeOK
  <2>. QED BY <2>1, <2>2, PassesCares
<1>31. ASSUME NEW p \in Proc, ListenBind(p) PROVE Undisturbed'
  <2>1. SameOthers(p)
    BY <1>31 DEF SameOthers, ListenBind, Binds, RunsProgram, OwnerInv, AcceptInv, TypeInv, TypeOK
  <2>2. /\ pc[p] \notin Joined \cup {"hsAck"} /\ pc'[p] \notin Joined \cup {"hsCmd", "hsAck"}
        /\ \/ s2c' = s2c
           \/ \E k : s2c' = Flush(s2c, {k}) /\ (k \in Conn /\ ClientHeld(k) => ClientOf(p, k))
    BY <1>31 DEF Joined, ListenBind, Binds, RunsProgram, OwnerInv, AcceptInv, TypeInv, TypeOK
  <2>. QED BY <2>1, <2>2, PassesCares
<1>32. ASSUME NEW p \in Proc, RebindBind(p) PROVE Undisturbed'
  <2>1. SameOthers(p)
    BY <1>32 DEF SameOthers, RebindBind, Binds, OwnerInv, AcceptInv, TypeInv, TypeOK
  <2>2. /\ pc[p] \notin Joined \cup {"hsAck"} /\ pc'[p] \notin Joined \cup {"hsCmd", "hsAck"}
        /\ \/ s2c' = s2c
           \/ \E k : s2c' = Flush(s2c, {k}) /\ (k \in Conn /\ ClientHeld(k) => ClientOf(p, k))
    BY <1>32 DEF Joined, RebindBind, Binds, OwnerInv, AcceptInv, TypeInv, TypeOK
  <2>. QED BY <2>1, <2>2, PassesCares
<1>33. ASSUME NEW p \in Proc, ListenRefused(p) PROVE Undisturbed'
  <2>1. SameOthers(p)
    BY <1>33 DEF SameOthers, ListenRefused, procVars
  <2>2. PICK k \in Conn : FreeConn(k) /\ s2c' = Flush(s2c, {k})
    BY <1>33 DEF ListenRefused
  <2>. QED BY <1>33, <2>1, <2>2, PassesCares DEF ListenRefused, Joined, FreeConn, ClientOpen
<1>34. ASSUME NEW p \in Proc, CloseWindow(p) \/ Reap(p) PROVE Undisturbed'
  <2>1. PICK w \in win[p] : Frees(p, w)
    BY <1>34 DEF CloseWindow, Reap
  <2>2. pc[p] \notin Joined \cup {"hsCmd", "hsAck"}
    BY <1>34 DEF CloseWindow, Reap, Looping, Joined
  <2>3. CASE Gone(p)
    BY <2>2, <2>3, GoneCares
  <2>4. CASE win' = [win EXCEPT ![p] = @ \ {w}] /\ UNCHANGED <<pc, conn, obs, s2c>>
    <3>1. SameOthers(p)
      BY <2>4 DEF SameOthers, OwnerInv, AcceptInv, TypeInv, TypeOK
    <3>. QED BY <2>2, <2>4, <3>1, PassesCares
  <2>. QED BY <2>1, <2>3, <2>4 DEF Frees, Quits
<1>35. ASSUME UNCHANGED <<pc, conn, obs, win, s2c>> PROVE Undisturbed'
  BY <1>35 DEF Undisturbed, Attended, Backing, Given, At, Owed, Backed, OfType, Carried,
     ClientHeld, Carries, Has
<1>36. ASSUME NEW g \in Prog, ProgWrites(g) PROVE Undisturbed'
  BY <1>36, <1>35 DEF ProgWrites, procVars
<1>37. ASSUME NEW g \in Prog, Ends(g) PROVE Undisturbed'
  BY <1>37, <1>35 DEF Ends, procVars
<1>38. CASE UNCHANGED vars
  BY <1>38, <1>35 DEF vars
<1>. QED
  BY <1>1, <1>2, <1>3, <1>4, <1>5, <1>6, <1>7, <1>8, <1>9, <1>10, <1>11,
     <1>12, <1>13, <1>14, <1>15, <1>16, <1>17, <1>18, <1>19, <1>20, <1>21,
     <1>22, <1>23, <1>24, <1>25, <1>26, <1>27, <1>28, <1>29, <1>30, <1>31,
     <1>32, <1>33, <1>34, <1>36, <1>37, <1>38
  DEF Next, AttachStep, ServeStep, DaemonStep, ObserveStep, UserStep, LoopStep,
      ProgExits, HangUp

LEMMA UndisturbedInit == Init => Undisturbed
<1>. SUFFICES ASSUME Init PROVE Undisturbed
  OBVIOUS
<1>1. \A p \in Proc : pc[p] = "idle"
  BY DEF Init
<1>. QED BY <1>1 DEF Undisturbed, Attended, Backing, Given, At, Owed

-----------------------------------------------------------------------------
(* No step loses a window.                                                  *)

\* Process p's windows are its own to keep.
Counts(p) == pc[p] \notin {"hsSize", "handed", "dAck"}

LEMMA KeptIs ==
  \A g \in Prog : Kept(g) <=> \/ \E k \in Conn : Carried(k, g)
                              \/ \E p \in Proc : Counts(p) /\ Has(p, g)
<1>1. \A g \in Prog : Sent(g) <=> \E k \in Conn : Carried(k, g)
  BY DEF Sent, Carried, Carries, Lists
<1>2. \A p \in Proc, g \in Prog : g \in Programs(p) <=> Has(p, g)
  BY DEF Programs, Has
<1>. QED BY <1>1, <1>2 DEF Kept, Counts

LEMMA KeptFrame ==
  ASSUME OwnerInv, Handshakes, NEW p \in Proc, SameOthers(p), Spares(p), NEW g \in Prog,
         Counts(p) /\ Has(p, g) => (Counts(p) /\ Has(p, g))' \/ Kept(g)',
         pc[p] \in {"query", "take", "fetch"} /\ Carried(conn[p], g) => Kept(g)'
  PROVE  Kept(g) => Kept(g)'
<1>0. Kept(g)' <=> \/ \E k \in Conn : Carried(k, g)'
                   \/ \E q \in Proc : Counts(q)' /\ Has(q, g)'
  <2>1. Sent(g)' <=> \E k \in Conn : Carried(k, g)'
    BY DEF Sent, Carried, Carries, Lists
  <2>2. \A q \in Proc : (g \in Programs(q))' <=> Has(q, g)'
    BY DEF Programs, Has
  <2>. QED BY <2>1, <2>2 DEF Kept, Counts
<1>1. ASSUME NEW k \in Conn, Carried(k, g) PROVE Kept(g)'
  <2>1. CASE ClientOf(p, k)
    <3>1. OfType("sess", s2c[k])
      BY <1>1 DEF Carried, Carries, Lists, OfType
    <3>2. ~Past(p, k)
      BY <3>1 DEF Handshakes, Received
    <3>. QED BY <1>1, <2>1, <3>2 DEF ClientOf, Past, At, ClientPC
  <2>2. CASE ~ClientOf(p, k)
    <3>1. PICK i \in DOMAIN s2c[k] : Lists(s2c[k][i], g)
      BY <1>1 DEF Carried, Carries
    <3>2. InSeq(s2c[k][i], s2c'[k])
      BY <1>1, <2>2, <3>1 DEF Spares, Carried, InSeq
    <3>3. ClientHeld(k)'
      BY <1>1, <2>2 DEF Carried, ClientHeld, ClientOf, SameOthers
    <3>4. Carried(k, g)'
      BY <3>1, <3>2, <3>3 DEF Carried, Carries, InSeq
    <3>. QED BY <1>0, <3>4
  <2>. QED BY <2>1, <2>2
<1>2. ASSUME NEW q \in Proc, Counts(q), Has(q, g) PROVE Kept(g)'
  <2>1. CASE q = p
    BY <1>0, <1>2, <2>1
  <2>2. CASE q # p
    <3>1. Counts(q)' /\ Has(q, g)'
      BY <1>2, <2>2 DEF Counts, Has, SameOthers
    <3>. QED BY <1>0, <3>1
  <2>. QED BY <2>1, <2>2
<1>. QED BY <1>1, <1>2, KeptIs

\* Who ends had nothing that counted, and left no message unread.
LEMMA GoneKept ==
  ASSUME OwnerInv, Handshakes, NEW p \in Proc, Gone(p),
         win[p] = {} \/ ~Counts(p),
         pc[p] \in {"query", "take", "fetch"} => s2c[conn[p]] = <<>>
  PROVE  \A g \in Prog : Kept(g) => Kept(g)'
<1>1. SameOthers(p)
  BY DEF Gone, SameOthers, OwnerInv, AcceptInv, TypeInv, TypeOK
<1>2. Spares(p)
  BY DEF Gone, Spares, Flush, ClientEnds, ClientOf
<1>3. \A g \in Prog : ~(Counts(p) /\ Has(p, g))
  BY DEF Has
<1>4. pc[p] \in {"query", "take", "fetch"} => \A g \in Prog : ~Carried(conn[p], g)
  BY DEF Carried, Carries
<1>. QED BY <1>1, <1>2, <1>3, <1>4, KeptFrame

\* Who goes on keeps its windows.
LEMMA StaysKept ==
  ASSUME OwnerInv, Handshakes, NEW p \in Proc, SameOthers(p), Spares(p),
         ~Counts(p) \/ (Counts(p)' /\ win'[p] = win[p]) \/ win[p] = {},
         pc[p] \notin {"query", "take", "fetch"}
  PROVE  \A g \in Prog : Kept(g) => Kept(g)'
<1>1. \A g \in Prog : Counts(p) /\ Has(p, g) => (Counts(p) /\ Has(p, g))'
  BY DEF Has
<1>. QED BY <1>1, KeptFrame
KeepsAll == \A g \in Prog : Kept(g) => Kept(g)'

\* The client of a daemon or of a live instance takes a message,
LEMMA QueryKept ==
  ASSUME OwnerInv, Handshakes, NEW p \in Proc, AttachQuery(p)
  PROVE  KeepsAll
<1>. USE NoneAssumption
<1>0. PICK k \in Conn : k = conn[p]
  BY DEF AttachQuery, ClientPC, OwnerInv, AcceptInv, TypeInv, RoleOK
<1>. DEFINE q == s2c[k]
<1>1. /\ q \in Seq(Reply) /\ q # <<>> /\ pc[p] = "query" /\ pc'[p] \in {"take", "fetch"}
      /\ Head(q).type # "sess" /\ UNCHANGED <<conn, obs, win>>
      /\ \A c \in Conn : s2c'[c] = IF c = k THEN Tail(q) ELSE s2c[c]
      /\ \A c \in Proc : c # p => pc'[c] = pc[c]
  BY <1>0 DEF AttachQuery, procVars, Recv, OwnerInv, AcceptInv, TypeInv, TypeOK, Replies
<1>2. SameOthers(p) /\ Spares(p) /\ win[p] = {}
  BY <1>0, <1>1 DEF SameOthers, Spares, ClientOf, ClientPC, OwnerInv, Bare
<1>3. ASSUME NEW g \in Prog, Carried(k, g) PROVE Kept(g)'
  <2>1. Carries(s2c'[k], g)
    BY <1>1, <1>3, TailRest DEF Carried, Lists
  <2>2. ClientHeld(k)'
    BY <1>0, <1>1 DEF ClientHeld, ClientPC
  <2>. QED BY <2>1, <2>2 DEF Kept, Sent, Carries, Lists
<1>4. \A g \in Prog : ~Has(p, g)
  BY <1>2 DEF Has
<1>. QED BY <1>0, <1>2, <1>3, <1>4, KeptFrame DEF KeepsAll

LEMMA ReceivedKept ==
  ASSUME OwnerInv, Handshakes, NEW p \in Proc, AttachSession(p)
  PROVE  KeepsAll
<1>. USE NoneAssumption
<1>0. PICK k \in Conn : k = conn[p]
  BY DEF AttachSession, ClientPC, OwnerInv, AcceptInv, TypeInv, RoleOK
<1>. DEFINE q == s2c[k]
<1>1. /\ q \in Seq(Reply) /\ q # <<>> /\ Head(q).type = "sess" /\ obs' = obs /\ ClientHeld(k)
      /\ win'[p] = {[w EXCEPT !.bare = TRUE] : w \in Head(q).win}
      /\ \A c \in Conn : s2c'[c] = IF c = k THEN Tail(q) ELSE s2c[c]
      /\ \A c \in Proc : c # p => pc'[c] = pc[c] /\ conn'[c] = conn[c] /\ win'[c] = win[c]
      /\ pc[p] \in {"take", "fetch"} /\ pc'[p] \in {"sock", "rebind"}
  BY <1>0 DEF AttachSession, Recv, ClientHeld, ClientPC, OwnerInv, AcceptInv, TypeInv, TypeOK, Replies
<1>2. SameOthers(p) /\ Spares(p) /\ win[p] = {}
  BY <1>0, <1>1 DEF SameOthers, Spares, ClientOf, ClientPC, OwnerInv, Bare
<1>3. ASSUME NEW g \in Prog, Carried(k, g) PROVE Kept(g)'
  <2>1. ~Carries(Tail(q), g)
    BY <1>1, SessRecv DEF OwnerInv, Shares, OneSess
  <2>2. Lists(Head(q), g)
    BY <1>1, <1>3, <2>1, TailRest DEF Carried
  <2>3. PICK w \in Head(q).win : w.prog = g
    BY <2>2 DEF Lists
  <2>4. Head(q) \in Reply /\ w \in Window
    BY <1>1, <2>3 DEF Reply
  <2>5. [w EXCEPT !.bare = TRUE].prog = g /\ [w EXCEPT !.bare = TRUE] \in win'[p]
    BY <1>1, <2>3, <2>4 DEF Window
  <2>. QED BY <1>1, <2>5 DEF Kept, Programs
<1>4. \A g \in Prog : ~Has(p, g)
  BY <1>2 DEF Has
<1>. QED BY <1>0, <1>2, <1>3, <1>4, KeptFrame DEF KeepsAll

LEMMA ListenerKept ==
  ASSUME OwnerInv, Handshakes, NEW p \in Proc, AttachListener(p)
  PROVE  KeepsAll
<1>. USE NoneAssumption
<1>0. PICK k \in Conn : k = conn[p]
  BY DEF AttachListener, ClientPC, OwnerInv, AcceptInv, TypeInv, RoleOK
<1>1. /\ pc[p] = "sock" /\ pc'[p] = "sizing" /\ UNCHANGED <<conn, obs, win>>
      /\ \A c \in Conn : s2c'[c] = IF c = k THEN Tail(s2c[c]) ELSE s2c[c]
      /\ \A c \in Proc : c # p => pc'[c] = pc[c]
  BY <1>0 DEF AttachListener, Recv, OwnerInv, AcceptInv, TypeInv, TypeOK, Replies
<1>2. SameOthers(p) /\ Spares(p)
  BY <1>0, <1>1 DEF SameOthers, Spares, ClientOf, ClientPC
<1>. QED BY <1>1, <1>2, StaysKept DEF KeepsAll, Counts

\* or gives up: what it waited for was not going to come.
LEMMA LostKept ==
  ASSUME OwnerInv, Handshakes, Undisturbed, NEW p \in Proc, AttachLost(p)
  PROVE  KeepsAll
<1>. DEFINE k == conn[p]
<1>1. pc[p] # "sock"
  <2>. SUFFICES ASSUME pc[p] = "sock" PROVE FALSE
    OBVIOUS
  <2>1. k \in Conn /\ Owed(p, k)
    BY DEF Owed, At, ClientPC, OwnerInv, AcceptInv, TypeInv, RoleOK
  <2>2. s2c[k] = <<>> /\ ~ServerHeld(k)
    BY DEF AttachLost, ServerOpen
  <2>3. \E q \in Proc : At(q, k, {"hsAck"})
    BY <2>1, <2>2 DEF Undisturbed, Backing, Backed, OfType
  <2>. QED BY <2>2, <2>3 DEF At, ServerHeld, ClientPC
<1>2. Gone(p) /\ pc[p] \in {"query", "take", "fetch"} /\ s2c[k] = <<>>
  BY <1>1 DEF AttachLost
<1>3. win[p] = {}
  BY <1>2 DEF OwnerInv, Bare
<1>. QED BY <1>2, <1>3, GoneKept DEF KeepsAll

\* A session is sent, or the socket after it: the windows are in the message,
\* or have been received.
LEMMA SendsKept ==
  ASSUME OwnerInv, Handshakes, Undisturbed, NEW p \in Proc, NEW k \in Conn, k = conn[p],
         NEW m \in Reply, NEW next,
         <<pc[p], next, m.type>> \in {<<"hsCmd", "hsAck", "sess">>, <<"dCmd", "dAck", "sess">>,
                                      <<"hsAck", "hsSize", "lsock">>},
         m.type = "sess" => \A g \in Prog : Has(p, g) => Lists(m, g),
         ClientOpen(k), Sends(p, k, m, next)
  PROVE  KeepsAll
<1>. USE NoneAssumption
<1>1. /\ pc'[p] = next /\ next \notin ClientPC /\ pc[p] \notin ClientPC
      /\ \A q \in Proc : q # p => pc'[q] = pc[q]
      /\ UNCHANGED <<conn, obs, win>>
  BY DEF Sends, ClientPC, OwnerInv, AcceptInv, TypeInv, TypeOK
<1>2. \A c \in Conn : /\ s2c[c] \in Seq(Reply)
                      /\ s2c'[c] = IF c = k THEN Append(s2c[c], m) ELSE s2c[c]
  BY DEF Sends, Send, OwnerInv, AcceptInv, TypeInv, TypeOK, Replies
<1>3. \A g \in Prog : Carries(s2c'[k], g) <=> Carries(s2c[k], g) \/ Lists(m, g)
  BY <1>2, Sending
<1>4. SameOthers(p) /\ Spares(p)
  <2>1. \A b \in Conn : \A n : InSeq(n, s2c[b]) => InSeq(n, s2c'[b])
    BY <1>2, AppendKeeps
  <2>. QED BY <1>1, <2>1 DEF SameOthers, Spares
<1>5. ClientHeld(k) => ClientHeld(k)'
  BY <1>1 DEF ClientHeld
<1>6. ASSUME NEW g \in Prog, Has(p, g), pc[p] # "hsCmd" PROVE Kept(g)'
  <2>1. CASE pc[p] = "dCmd"
    <3>1. ~Inherited(k, "c")
      BY <2>1 DEF Handshakes, Young, At
    <3>2. ClientHeld(k)' /\ Carries(s2c'[k], g)
      BY <1>3, <1>5, <1>6, <2>1, <3>1 DEF ClientOpen
    <3>. QED BY <3>2 DEF Kept, Sent, Carries, Lists
  <2>2. CASE pc[p] = "hsAck"
    <3>1. CASE Carried(k, g)
      <4>1. ClientHeld(k)' /\ Carries(s2c'[k], g)
        BY <1>3, <1>5, <3>1 DEF Carried
      <4>. QED BY <4>1 DEF Kept, Sent, Carries, Lists
    <3>2. CASE \E c \in Proc : At(c, k, {"sock"}) /\ Has(c, g)
      <4>1. PICK c \in Proc : pc[c] = "sock" /\ g \in Programs(c)
        BY <3>2 DEF At, Has, Programs
      <4>2. pc'[c] = "sock" /\ g \in Programs(c)'
        BY <1>1, <2>2, <4>1 DEF Programs
      <4>. QED BY <4>2 DEF Kept
    <3>. QED BY <1>6, <2>2, <3>1, <3>2 DEF Undisturbed, Given, At
  <2>. QED BY <1>6, <2>1, <2>2
<1>7. \A g \in Prog : Counts(p) /\ Has(p, g) => (Counts(p) /\ Has(p, g))' \/ Kept(g)'
  <2>1. CASE pc[p] = "hsCmd"
    BY <1>1, <2>1 DEF Counts, Has
  <2>. QED BY <1>6, <2>1
<1>. QED BY <1>1, <1>4, <1>7, KeptFrame DEF KeepsAll, ClientPC

\* A live instance or a daemon accepts.
LEMMA AcceptKept ==
  ASSUME OwnerInv, Handshakes, NEW p \in Proc, NEW role \in {"loop", "daemon"},
         NEW next, NEW answer,
         <<next, answer>> \in {<<"hsCmd", "L">>, <<"dCmd", "D">>},
         Accepts(p, role, next, answer)
  PROVE  KeepsAll
<1>1. pc[p] = role /\ pc'[p] \in {role, next} /\ win' = win
  BY DEF Accepts, OwnerInv, AcceptInv, TypeInv, TypeOK
<1>2. SameOthers(p)
  BY DEF Accepts, SameOthers, OwnerInv, AcceptInv, TypeInv, TypeOK
<1>3. Spares(p)
  <2>1. [type |-> answer] \in Reply /\ \A b \in Conn : s2c[b] \in Seq(Reply)
    BY DEF Reply, OwnerInv, AcceptInv, TypeInv, TypeOK, Replies
  <2>2. \A b \in Conn : s2c'[b] = s2c[b] \/ s2c'[b] = Append(s2c[b], [type |-> answer])
    BY DEF Accepts, Send, OwnerInv, AcceptInv, TypeInv, TypeOK, Replies
  <2>. QED BY <2>1, <2>2, AppendKeeps DEF Spares
<1>. QED BY <1>1, <1>2, <1>3, StaysKept DEF KeepsAll, Counts

\* The other steps pass no message on.
LEMMA PassesKept ==
  ASSUME OwnerInv, Handshakes, NEW p \in Proc, SameOthers(p),
         ~Counts(p) \/ (Counts(p)' /\ win'[p] = win[p]),
         pc[p] \notin {"query", "take", "fetch"},
         s2c' = s2c \/ s2c' = Flush(s2c, {obs[p]})
  PROVE  KeepsAll
<1>1. Spares(p)
  BY DEF Spares, Flush, ClientOf
<1>. QED BY <1>1, StaysKept DEF KeepsAll

\* Every step of the protocol, when no process has been killed.
ProtocolStep(p) == \/ AttachStep(p) \/ ServeStep(p) \/ DaemonStep(p)
                   \/ ObserveStep(p) \/ Detach(p)

LEMMA StepKeeps ==
  ASSUME OwnerInv, SoloInv, Handshakes, Undisturbed, NEW p \in Proc, ProtocolStep(p)
  PROVE  KeepsAll
<1>. USE NoneAssumption
<1>1. ASSUME AttachRefused(p) PROVE KeepsAll
  <2>1. Gone(p) /\ pc[p] = "again"
    BY <1>1 DEF AttachRefused, Quits
  <2>2. win[p] = {}
    BY <2>1 DEF OwnerInv, Bare
  <2>. QED BY <2>1, <2>2, GoneKept DEF KeepsAll
<1>2. ASSUME ObserveEnd(p) PROVE KeepsAll
  <2>1. Gone(p) /\ pc[p] = "observe"
    BY <1>2 DEF ObserveEnd, Quits
  <2>2. win[p] = {}
    BY <2>1 DEF OwnerInv, Bare
  <2>. QED BY <2>1, <2>2, GoneKept DEF KeepsAll
<1>3. ASSUME BindFails(p) PROVE KeepsAll
  <2>1. Gone(p) /\ pc[p] = "unlinked"
    BY <1>3 DEF BindFails, SoloInv, Roles, Bound
  <2>2. win[p] = {}
    BY <2>1 DEF OwnerInv, Bare, StartPC
  <2>. QED BY <2>1, <2>2, GoneKept DEF KeepsAll
<1>4. ASSUME DaemonExit(p) PROVE KeepsAll
  BY <1>4, GoneKept DEF DaemonExit, KeepsAll, Counts
<1>5. ASSUME DaemonSession(p) PROVE KeepsAll
  <2>. DEFINE m == [type |-> "sess", win |-> win[p]]
  <2>1. conn[p] \in Conn
    BY <1>5 DEF DaemonSession, ServerPC, OwnerInv, AcceptInv, TypeInv, RoleOK
  <2>2. m \in Reply /\ m.type = "sess" /\ \A g \in Prog : Has(p, g) => Lists(m, g)
    BY DEF Reply, Has, Lists, OwnerInv, AcceptInv, TypeInv, TypeOK
  <2>3. Sends(p, conn[p], m, "dAck") /\ pc[p] = "dCmd" /\ ClientOpen(conn[p])
    BY <1>5 DEF DaemonSession, Sends, procVars, sockVars
  <2>. HIDE DEF m
  <2>. QED BY <2>1, <2>2, <2>3, SendsKept
<1>6. ASSUME TakeoverSession(p) PROVE KeepsAll
  <2>1. CASE ClientOpen(conn[p])
    <3>. DEFINE m == [type |-> "sess", win |-> win[p]]
    <3>1. conn[p] \in Conn /\ pc[p] = "hsCmd"
      BY <1>6 DEF TakeoverSession, ServerPC, OwnerInv, AcceptInv, TypeInv, RoleOK
    <3>2. m \in Reply /\ m.type = "sess" /\ \A g \in Prog : Has(p, g) => Lists(m, g)
      BY DEF Reply, Has, Lists, OwnerInv, AcceptInv, TypeInv, TypeOK
    <3>3. Sends(p, conn[p], m, "hsAck")
      BY <1>6, <2>1 DEF TakeoverSession, Sends, sockVars
    <3>. HIDE DEF m
    <3>. QED BY <2>1, <3>1, <3>2, <3>3, SendsKept
  <2>2. CASE ~ClientOpen(conn[p])
    <3>1. SameOthers(p)
      BY <1>6, <2>2 DEF TakeoverSession, Drops, SameOthers, OwnerInv, AcceptInv, TypeInv, TypeOK
    <3>2. pc[p] = "hsCmd" /\ pc'[p] = "loop" /\ win' = win /\ s2c' = s2c
      BY <1>6, <2>2 DEF TakeoverSession, Drops, OwnerInv, AcceptInv, TypeInv, TypeOK
    <3>. QED BY <3>1, <3>2, PassesKept DEF Counts
  <2>. QED BY <2>1, <2>2
<1>7. ASSUME TakeoverListener(p) PROVE KeepsAll
  <2>1. CASE ClientOpen(conn[p])
    <3>. DEFINE m == [type |-> "lsock", sock |-> lsock[p]]
    <3>1. conn[p] \in Conn /\ pc[p] = "hsAck"
      BY <1>7 DEF TakeoverListener, ServerPC, OwnerInv, AcceptInv, TypeInv, RoleOK
    <3>2. m \in Reply /\ m.type = "lsock"
      BY <3>1 DEF Reply, OwnerInv, AcceptInv, TypeInv, TypeOK, RoleOK
    <3>3. Sends(p, conn[p], m, "hsSize")
      BY <1>7, <2>1 DEF TakeoverListener, Sends, sockVars
    <3>. HIDE DEF m
    <3>. QED BY <2>1, <3>1, <3>2, <3>3, SendsKept
  <2>2. CASE ~ClientOpen(conn[p])
    <3>1. SameOthers(p)
      BY <1>7, <2>2 DEF TakeoverListener, Drops, SameOthers, OwnerInv, AcceptInv, TypeInv, TypeOK
    <3>2. pc[p] = "hsAck" /\ pc'[p] = "loop" /\ win' = win /\ s2c' = s2c
      BY <1>7, <2>2 DEF TakeoverListener, Drops, OwnerInv, AcceptInv, TypeInv, TypeOK
    <3>. QED BY <3>1, <3>2, PassesKept DEF Counts
  <2>. QED BY <2>1, <2>2
<1>8. ASSUME AttachSize(p) PROVE KeepsAll
  <2>1. SameOthers(p)
    BY <1>8 DEF SameOthers, AttachSize, OwnerInv, AcceptInv, TypeInv, TypeOK
  <2>2. /\ pc[p] \notin {"query", "take", "fetch"}
        /\ ~Counts(p) \/ (Counts(p)' /\ win'[p] = win[p])
        /\ s2c' = s2c \/ s2c' = Flush(s2c, {obs[p]})
    BY <1>8 DEF Counts, AttachSize, OwnerInv, AcceptInv, TypeInv, TypeOK
  <2>. QED BY <2>1, <2>2, PassesKept
<1>9. ASSUME RebindUnlink(p) PROVE KeepsAll
  <2>1. SameOthers(p)
    BY <1>9 DEF SameOthers, RebindUnlink, procVars, OwnerInv, AcceptInv, TypeInv, TypeOK
  <2>2. /\ pc[p] \notin {"query", "take", "fetch"}
        /\ ~Counts(p) \/ (Counts(p)' /\ win'[p] = win[p])
        /\ s2c' = s2c \/ s2c' = Flush(s2c, {obs[p]})
    BY <1>9 DEF Counts, RebindUnlink, procVars, OwnerInv, AcceptInv, TypeInv, TypeOK
  <2>. QED BY <2>1, <2>2, PassesKept
<1>10. ASSUME RebindBind(p) PROVE KeepsAll
  <2>1. SameOthers(p)
    BY <1>10 DEF SameOthers, RebindBind, Binds, OwnerInv, AcceptInv, TypeInv, TypeOK
  <2>2. /\ pc[p] \notin {"query", "take", "fetch"}
        /\ ~Counts(p) \/ (Counts(p)' /\ win'[p] = win[p])
        /\ s2c' = s2c \/ s2c' = Flush(s2c, {obs[p]})
    BY <1>10 DEF Counts, RebindBind, Binds, OwnerInv, AcceptInv, TypeInv, TypeOK
  <2>. QED BY <2>1, <2>2, PassesKept
<1>11. ASSUME TakeoverLost(p) PROVE KeepsAll
  <2>1. SameOthers(p)
    BY <1>11 DEF SameOthers, TakeoverLost, Drops, OwnerInv, AcceptInv, TypeInv, TypeOK
  <2>2. /\ pc[p] \notin {"query", "take", "fetch"}
        /\ ~Counts(p) \/ (Counts(p)' /\ win'[p] = win[p])
        /\ s2c' = s2c \/ s2c' = Flush(s2c, {obs[p]})
    BY <1>11 DEF Counts, TakeoverLost, Drops, OwnerInv, AcceptInv, TypeInv, TypeOK
  <2>. QED BY <2>1, <2>2, PassesKept
<1>12. ASSUME TakeoverDone(p) PROVE KeepsAll
  <2>1. SameOthers(p)
    BY <1>12 DEF SameOthers, TakeoverDone, OwnerInv, AcceptInv, TypeInv, TypeOK
  <2>2. /\ pc[p] \notin {"query", "take", "fetch"}
        /\ ~Counts(p) \/ (Counts(p)' /\ win'[p] = win[p])
        /\ s2c' = s2c \/ s2c' = Flush(s2c, {obs[p]})
    BY <1>12 DEF Counts, TakeoverDone, OwnerInv, AcceptInv, TypeInv, TypeOK
  <2>. QED BY <2>1, <2>2, PassesKept
<1>13. ASSUME BecomeObserver(p) PROVE KeepsAll
  <2>1. SameOthers(p)
    BY <1>13 DEF SameOthers, BecomeObserver, OwnerInv, AcceptInv, TypeInv, TypeOK
  <2>2. /\ pc[p] \notin {"query", "take", "fetch"}
        /\ ~Counts(p) \/ (Counts(p)' /\ win'[p] = win[p])
        /\ s2c' = s2c \/ s2c' = Flush(s2c, {obs[p]})
    BY <1>13 DEF Counts, BecomeObserver, OwnerInv, AcceptInv, TypeInv, TypeOK
  <2>. QED BY <2>1, <2>2, PassesKept
<1>14. ASSUME Detach(p) PROVE KeepsAll
  <2>1. SameOthers(p)
    BY <1>14 DEF SameOthers, Detach, Looping, OwnerInv, AcceptInv, TypeInv, TypeOK
  <2>2. /\ pc[p] \notin {"query", "take", "fetch"}
        /\ ~Counts(p) \/ (Counts(p)' /\ win'[p] = win[p])
        /\ s2c' = s2c \/ s2c' = Flush(s2c, {obs[p]})
    BY <1>14 DEF Counts, Detach, Looping, OwnerInv, AcceptInv, TypeInv, TypeOK
  <2>. QED BY <2>1, <2>2, PassesKept
<1>15. ASSUME ObserveBye(p) PROVE KeepsAll
  <2>1. SameOthers(p)
    BY <1>15 DEF SameOthers, ObserveBye, Drops, OwnerInv, AcceptInv, TypeInv, TypeOK
  <2>2. /\ pc[p] \notin {"query", "take", "fetch"}
        /\ ~Counts(p) \/ (Counts(p)' /\ win'[p] = win[p])
        /\ s2c' = s2c \/ s2c' = Flush(s2c, {obs[p]})
    BY <1>15 DEF Counts, ObserveBye, Drops, OwnerInv, AcceptInv, TypeInv, TypeOK
  <2>. QED BY <2>1, <2>2, PassesKept
<1>16. ASSUME DaemonDrop(p) PROVE KeepsAll
  <2>1. SameOthers(p)
    BY <1>16 DEF SameOthers, DaemonDrop, Drops, OwnerInv, AcceptInv, TypeInv, TypeOK
  <2>2. /\ pc[p] \notin {"query", "take", "fetch"}
        /\ ~Counts(p) \/ (Counts(p)' /\ win'[p] = win[p])
        /\ s2c' = s2c \/ s2c' = Flush(s2c, {obs[p]})
    BY <1>16 DEF Counts, DaemonDrop, Drops, OwnerInv, AcceptInv, TypeInv, TypeOK
  <2>. QED BY <2>1, <2>2, PassesKept
<1>. QED
  BY <1>1, <1>2, <1>3, <1>4, <1>5, <1>6, <1>7, <1>8, <1>9, <1>10, <1>11, <1>12, <1>13, <1>14, <1>15, <1>16,
     QueryKept, ReceivedKept, ListenerKept, LostKept, AcceptKept
  DEF ProtocolStep, AttachStep, ServeStep, DaemonStep, ObserveStep, Accept, DaemonAccept

LEMMA CrashCounts ==
  ASSUME [Next]_vars
  PROVE  crashes' = crashes \/ crashes' = crashes + 1
<1>1. ASSUME NEW p \in Proc, AttachStep(p) PROVE crashes' = crashes
  BY <1>1 DEF AttachStep, AttachRefused, AttachQuery, AttachSession, AttachListener,
     AttachSize, AttachLost, RebindUnlink, RebindBind, BindFails
<1>2. ASSUME NEW p \in Proc, ServeStep(p) \/ DaemonStep(p) PROVE crashes' = crashes
  BY <1>2 DEF ServeStep, Accept, Accepts, TakeoverSession, TakeoverListener, TakeoverDone,
     TakeoverLost, BecomeObserver, DaemonStep, DaemonAccept, DaemonSession, DaemonDrop, DaemonExit
<1>3. ASSUME NEW p \in Proc, ObserveStep(p) \/ LoopStep(p) PROVE crashes' = crashes
  BY <1>3 DEF ObserveStep, ObserveBye, ObserveEnd, LoopStep, Reap, Drain, ObserverGone
<1>4. ASSUME NEW p \in Proc, UserStep(p) PROVE crashes' = crashes
  BY <1>4 DEF UserStep, ListenRefused, ListenProbe, ListenUnlink, ListenBind, AttachConnect,
     NewWindow, CloseWindow, Detach, Quit, ObserveLeave
<1>. QED
  BY <1>1, <1>2, <1>3, <1>4 DEF Next, Crash, ProgWrites, ProgExits, HangUp, Ends, vars

-----------------------------------------------------------------------------
\* SessionKept: as long as no process was killed, no step of a takeover, a
\* detach or an attach loses a window: it is known to a process that goes on
\* with it, or is on its way to one (handle_session_conn, session_do_takeover,
\* daemon_serve, session_attach, session_detach).
THEOREM WindowsKept ==
  ASSUME SoloStart
  PROVE  Spec => SessionKept
<1>. DEFINE Inv == OwnerInv /\ SoloInv /\ Handshakes /\ (crashes = 0 => Undisturbed)
<1>1. Init => Inv
  BY OwnerInit, SoloInit, HandshakesInit, UndisturbedInit
<1>2. ASSUME Inv, [Next]_vars PROVE crashes \in Nat /\ (crashes' = 0 => crashes = 0)
  BY <1>2, CrashCounts DEF OwnerInv, AcceptInv, TypeInv, TypeOK
<1>3. Inv /\ [Next]_vars => Inv'
  <2>. SUFFICES ASSUME Inv, [Next]_vars PROVE Inv'
    OBVIOUS
  <2>1. OwnerInv' /\ SoloInv' /\ Handshakes'
    BY OwnerNext, SoloNext, HandshakesNext
  <2>2. crashes' = 0 => Undisturbed'
    BY <1>2, UndisturbedNext
  <2>. QED BY <2>1, <2>2
<1>4. ASSUME Inv, [Next]_vars, crashes' = 0, NEW p \in Proc,
             \/ AttachStep(p) \/ ServeStep(p) \/ DaemonStep(p)
             \/ ObserveStep(p) \/ Detach(p)
      PROVE  \A g \in Prog : Kept(g) => Kept(g)'
  BY <1>2, <1>4, StepKeeps DEF ProtocolStep, KeepsAll
<1>5. Inv /\ [Next]_vars =>
        [crashes' = 0 /\ (\E p \in Proc : \/ AttachStep(p) \/ ServeStep(p) \/ DaemonStep(p)
                                          \/ ObserveStep(p) \/ Detach(p))
           => \A g \in Prog : Kept(g) => Kept(g)']_vars
  BY <1>4
<1>. QED BY <1>1, <1>3, <1>5, PTL DEF Spec, SessionKept
=============================================================================
