-------------------------- MODULE MuxSession_proofs --------------------------
(* TypeOK, OneAcceptor, OneDriver and ScreenComplete of MuxSession, for any *)
(* processes, sockets, connections, programs, bounds and scenario.          *)
(*                                                                          *)
(* A listening socket and a window are each a token, held by a process or   *)
(* on its way in a message.  For sockets that is the whole argument.  A     *)
(* window is known to the processes that have a record of it and to the     *)
(* message that takes it to an attacher.  Two of them know one window only  *)
(* while it is handed on, and then the earlier owner either is done with it *)
(* (Away) or is in the takeover, on the connection on which the other, its  *)
(* client, is (Passing): it takes the window back only when that client is  *)
(* gone.                                                                    *)
EXTENDS MuxSession, TLAPS

-----------------------------------------------------------------------------
(* What the operators on channels return.                                   *)

LEMMA FlushType ==
  ASSUME NEW T, NEW q \in [Conn -> Seq(T)], NEW ks
  PROVE  Flush(q, ks) \in [Conn -> Seq(T)]
BY DEF Flush

LEMMA SendType ==
  ASSUME NEW D, NEW T, NEW q \in [D -> Seq(T)], NEW k, NEW m \in T
  PROVE  Send(q, k, m) \in [D -> Seq(T)]
<1>1. CASE k \in D
  <2>1. Append(q[k], m) \in Seq(T)
    BY <1>1
  <2>. QED BY <2>1 DEF Send
<1>2. CASE k \notin D
  BY <1>2 DEF Send
<1>. QED BY <1>1, <1>2

LEMMA RecvType ==
  ASSUME NEW D, NEW T, NEW q \in [D -> Seq(T)], NEW k \in D, q[k] # <<>>
  PROVE  Recv(q, k) \in [D -> Seq(T)] /\ Head(q[k]) \in T
<1>1. Tail(q[k]) \in Seq(T) /\ Head(q[k]) \in T
  OBVIOUS
<1>. QED BY <1>1 DEF Recv

\* The same for the channels of the specification, in the terms its actions use.
LEMMA Channels ==
  ASSUME c2s \in Requests, s2c \in Replies, backlog \in Backlogs
  PROVE  /\ \A ks : Flush(c2s, ks) \in Requests /\ Flush(s2c, ks) \in Replies
         /\ \A k : Send(Flush(c2s, {k}), k, "?") \in Requests
         /\ \A k, open : \A m \in Request : Write(c2s, k, m, open) \in Requests
         /\ \A k : \A m \in Reply : Send(s2c, k, m) \in Replies
         /\ \A k \in Conn : c2s[k] # <<>> =>
              Recv(c2s, k) \in Requests /\ Head(c2s[k]) \in Request
         /\ \A k \in Conn : s2c[k] # <<>> =>
              Recv(s2c, k) \in Replies /\ Head(s2c[k]) \in Reply
         /\ \A l : \A k \in Conn : Send(backlog, l, k) \in Backlogs
         /\ \A l \in Sock : backlog[l] # <<>> =>
              Recv(backlog, l) \in Backlogs /\ Head(backlog[l]) \in Conn
<1>1. \A ks : Flush(c2s, ks) \in Requests /\ Flush(s2c, ks) \in Replies
  BY FlushType DEF Requests, Replies
<1>2. ASSUME NEW k PROVE Send(Flush(c2s, {k}), k, "?") \in Requests
  <2>1. "?" \in Request
    BY DEF Request
  <2>2. Flush(c2s, {k}) \in [Conn -> Seq(Request)]
    BY FlushType DEF Requests
  <2>. QED BY <2>1, <2>2, SendType DEF Requests
<1>3. \A k, open : \A m \in Request : Write(c2s, k, m, open) \in Requests
  BY SendType DEF Requests, Write
<1>4. \A k : \A m \in Reply : Send(s2c, k, m) \in Replies
  BY SendType DEF Replies
<1>5. \A k \in Conn : c2s[k] # <<>> =>
              Recv(c2s, k) \in Requests /\ Head(c2s[k]) \in Request
  BY RecvType DEF Requests
<1>6. \A k \in Conn : s2c[k] # <<>> =>
              Recv(s2c, k) \in Replies /\ Head(s2c[k]) \in Reply
  BY RecvType DEF Replies
<1>7. \A l : \A k \in Conn : Send(backlog, l, k) \in Backlogs
  BY SendType DEF Backlogs
<1>8. \A l \in Sock : backlog[l] # <<>> =>
              Recv(backlog, l) \in Backlogs /\ Head(backlog[l]) \in Conn
  BY RecvType DEF Backlogs
<1>. QED BY <1>1, <1>2, <1>3, <1>4, <1>5, <1>6, <1>7, <1>8

-----------------------------------------------------------------------------
(* The type invariant.  A role that works on a connection has one, and a    *)
(* role that owns the session has its socket.                               *)

RoleOK ==
  \A p \in Proc :
    /\ pc[p] \in ClientPC \cup ServerPC => conn[p] \in Conn
    /\ pc[p] \in {"sizing", "loop", "hsCmd", "hsAck", "hsSize", "dCmd", "dAck"}
         => lsock[p] \in Sock

TypeInv == TypeOK /\ RoleOK

LEMMA TypeInit == Init => TypeInv
BY DEF Init, TypeInv, TypeOK, RoleOK, Role, StartPC, ClientPC, ServerPC,
       Backlogs, Requests, Replies

LEMMA GoneType ==
  ASSUME TypeInv, NEW p \in Proc, Gone(p)
  PROVE  /\ pc' \in [Proc -> Role]
         /\ conn' \in [Proc -> Conn \cup {None}]
         /\ obs' \in [Proc -> Conn \cup {None}]
         /\ lsock' \in [Proc -> Sock \cup {None}]
         /\ leak' \in [Proc -> SUBSET Sock]
         /\ win' \in [Proc -> SUBSET Window]
         /\ stray' \in [Proc -> SUBSET Stray]
         /\ c2s' \in Requests
         /\ s2c' \in Replies
         /\ RoleOK'
<1>1. c2s' \in Requests /\ s2c' \in Replies
  BY Channels DEF Gone, TypeInv, TypeOK
<1>2. RoleOK'
  BY DEF Gone, TypeInv, TypeOK, RoleOK, ClientPC, ServerPC
<1>. QED BY <1>1, <1>2 DEF Gone, TypeInv, TypeOK, Role

LEMMA EmptyBacklog ==
  ASSUME backlog \in Backlogs, NEW l
  PROVE  [backlog EXCEPT ![l] = <<>>] \in Backlogs
<1>1. <<>> \in Seq(Conn)
  OBVIOUS
<1>. QED BY <1>1 DEF Backlogs

LEMMA NewWindowType ==
  ASSUME TypeOK, NEW p \in Proc, NEW g \in Prog, RunsProgram(p, g)
  PROVE  /\ win' \in [Proc -> SUBSET Window]
         /\ pinh' \in [Prog -> SUBSET Prog]
         /\ cinh' \in [Prog -> SUBSET (Conn \X {"c", "s"})]
<1>1. [prog |-> g, seen |-> 0, bare |-> FALSE] \in Window
  BY DEF Window
<1>2. win' \in [Proc -> SUBSET Window]
  BY <1>1 DEF RunsProgram, TypeOK
<1>3. {d.prog : d \in {e \in win[p] \cup stray[p] : e.bare}} \in SUBSET Prog
  BY DEF TypeOK, Window, Stray
<1>4. pinh' \in [Prog -> SUBSET Prog]
  BY <1>3 DEF RunsProgram, TypeOK
<1>5. ({obs[p]} \ {None}) \X {"c"} \cup ({conn[p]} \ {None}) \X {"s"}
        \in SUBSET (Conn \X {"c", "s"})
  BY DEF TypeOK
<1>6. cinh' \in [Prog -> SUBSET (Conn \X {"c", "s"})]
  BY <1>5 DEF RunsProgram, TypeOK
<1>. QED BY <1>2, <1>4, <1>6

\* The actions that end a process, and those that move bytes, need the lemmas
\* above; the rest follow from the definitions.
LEMMA TypeNext == TypeInv /\ [Next]_vars => TypeInv'
<1>. SUFFICES ASSUME TypeInv, [Next]_vars
              PROVE  TypeInv'
  OBVIOUS
<1>. USE NoneAssumption
<1>1. ASSUME NEW p \in Proc, ListenRefused(p) PROVE TypeInv'
  <2>1. c2s' \in Requests
    BY <1>1, Channels DEF ListenRefused, TypeInv, TypeOK, RoleOK, ClientPC, ServerPC
  <2>2. s2c' \in Replies
    BY <1>1, Channels DEF ListenRefused, TypeInv, TypeOK, RoleOK, ClientPC, ServerPC
  <2>3. backlog' \in Backlogs
    BY <1>1, Channels DEF ListenRefused, TypeInv, TypeOK, RoleOK, ClientPC, ServerPC
  <2>. QED
    BY <1>1, <2>1, <2>2, <2>3
    DEF ListenRefused, TypeInv, TypeOK, RoleOK, Role, StartPC, ClientPC, ServerPC, procVars, sockVars, progVars
<1>2. ASSUME NEW p \in Proc, ListenProbe(p) PROVE TypeInv'
  BY <1>2
  DEF ListenProbe, TypeInv, TypeOK, RoleOK, Role, StartPC, ClientPC, ServerPC, procVars, sockVars, progVars
<1>3. ASSUME NEW p \in Proc, ListenUnlink(p) PROVE TypeInv'
  BY <1>3
  DEF ListenUnlink, TypeInv, TypeOK, RoleOK, Role, StartPC, ClientPC, ServerPC, procVars, sockVars, progVars
<1>4. ASSUME NEW p \in Proc, ListenBind(p) PROVE TypeInv'
  <2>1. PICK l \in Sock, g \in Prog : Binds(p, l) /\ RunsProgram(p, g)
    BY <1>4 DEF ListenBind
  <2>2. backlog' \in Backlogs
    BY <2>1, EmptyBacklog DEF Binds, TypeInv, TypeOK
  <2>3. win' \in [Proc -> SUBSET Window]
    BY <2>1, NewWindowType DEF TypeInv
  <2>4. /\ pinh' \in [Prog -> SUBSET Prog]
        /\ cinh' \in [Prog -> SUBSET (Conn \X {"c", "s"})]
    BY <2>1, NewWindowType DEF TypeInv
  <2>. QED
    BY <1>4, <2>1, <2>2, <2>3, <2>4
    DEF ListenBind, Binds, RunsProgram, TypeInv, TypeOK, RoleOK, Role, StartPC,
        ClientPC, ServerPC
<1>5. ASSUME NEW p \in Proc, AttachConnect(p) PROVE TypeInv'
  <2>1. c2s' \in Requests
    BY <1>5, Channels DEF AttachConnect, TypeInv, TypeOK, RoleOK, ClientPC, ServerPC
  <2>2. s2c' \in Replies
    BY <1>5, Channels DEF AttachConnect, TypeInv, TypeOK, RoleOK, ClientPC, ServerPC
  <2>3. backlog' \in Backlogs
    BY <1>5, Channels DEF AttachConnect, TypeInv, TypeOK, RoleOK, ClientPC, ServerPC
  <2>. QED
    BY <1>5, <2>1, <2>2, <2>3
    DEF AttachConnect, TypeInv, TypeOK, RoleOK, Role, StartPC, ClientPC, ServerPC, procVars, sockVars, progVars
<1>6. ASSUME NEW p \in Proc, AttachRefused(p) PROVE TypeInv'
  BY <1>6, GoneType
  DEF AttachRefused, Quits, TypeInv, TypeOK, RoleOK, Role, StartPC, ClientPC, ServerPC, procVars, sockVars, progVars
<1>7. ASSUME NEW p \in Proc, ObserveEnd(p) PROVE TypeInv'
  BY <1>7, GoneType
  DEF ObserveEnd, Quits, TypeInv, TypeOK, RoleOK, Role, StartPC, ClientPC, ServerPC, procVars, sockVars, progVars
<1>8. ASSUME NEW p \in Proc, ObserveLeave(p) PROVE TypeInv'
  BY <1>8, GoneType
  DEF ObserveLeave, Quits, TypeInv, TypeOK, RoleOK, Role, StartPC, ClientPC, ServerPC, procVars, sockVars, progVars
<1>9. ASSUME NEW p \in Proc, AttachLost(p) PROVE TypeInv'
  BY <1>9, GoneType
  DEF AttachLost, TypeInv, TypeOK, RoleOK, Role, StartPC, ClientPC, ServerPC, procVars, sockVars, progVars
<1>10. ASSUME NEW p \in Proc, BindFails(p) PROVE TypeInv'
  BY <1>10, GoneType
  DEF BindFails, TypeInv, TypeOK, RoleOK, Role, StartPC, ClientPC, ServerPC, procVars, sockVars, progVars
<1>11. ASSUME NEW p \in Proc, DaemonExit(p) PROVE TypeInv'
  BY <1>11, GoneType
  DEF DaemonExit, TypeInv, TypeOK, RoleOK, Role, StartPC, ClientPC, ServerPC, procVars, sockVars, progVars
<1>12. ASSUME NEW p \in Proc, Crash(p) PROVE TypeInv'
  BY <1>12, GoneType
  DEF Crash, TypeInv, TypeOK, RoleOK, Role, StartPC, ClientPC, ServerPC, procVars, sockVars, progVars
<1>13. ASSUME NEW p \in Proc, Quit(p) PROVE TypeInv'
  BY <1>13, GoneType
  DEF Quit, Quits, TypeInv, TypeOK, RoleOK, Role, StartPC, ClientPC, ServerPC, procVars, sockVars, progVars
<1>14. ASSUME NEW p \in Proc, AttachQuery(p) PROVE TypeInv'
  <2>1. c2s' \in Requests
    BY <1>14, Channels DEF AttachQuery, Request, TypeInv, TypeOK, RoleOK, ClientPC, ServerPC
  <2>2. s2c' \in Replies
    BY <1>14, Channels DEF AttachQuery, TypeInv, TypeOK, RoleOK, ClientPC, ServerPC
  <2>. QED
    BY <1>14, <2>1, <2>2
    DEF AttachQuery, TypeInv, TypeOK, RoleOK, Role, StartPC, ClientPC, ServerPC, procVars, sockVars, progVars
<1>15. ASSUME NEW p \in Proc, AttachSession(p) PROVE TypeInv'
  <2>. DEFINE k == conn[p]
  <2>1. /\ c2s' \in Requests
        /\ s2c' \in Replies
        /\ Head(s2c[k]) \in Reply
    BY <1>15, Channels DEF AttachSession, Request, TypeInv, TypeOK, RoleOK, ClientPC
  <2>2. Head(s2c[k]).win \in SUBSET Window
    BY <1>15, <2>1 DEF AttachSession, Reply
  <2>3. {[w EXCEPT !.bare = TRUE] : w \in Head(s2c[k]).win} \in SUBSET Window
    BY <2>2 DEF Window
  <2>4. win' \in [Proc -> SUBSET Window]
    BY <1>15, <2>3 DEF AttachSession, TypeInv, TypeOK
  <2>. QED
    BY <1>15, <2>1, <2>4, ZenonT(30)
    DEF AttachSession, TypeInv, TypeOK, RoleOK, Role, StartPC, ClientPC, ServerPC,
        sockVars, progVars
<1>16. ASSUME NEW p \in Proc, AttachListener(p) PROVE TypeInv'
  <2>1. s2c' \in Replies
    BY <1>16, Channels DEF AttachListener, TypeInv, TypeOK, RoleOK, ClientPC, ServerPC
  <2>2. Head(s2c[conn[p]]).sock \in Sock
    BY <1>16, Channels DEF AttachListener, Reply, TypeInv, TypeOK, RoleOK, ClientPC, ServerPC
  <2>. QED
    BY <1>16, <2>1, <2>2
    DEF AttachListener, TypeInv, TypeOK, RoleOK, Role, StartPC, ClientPC, ServerPC, procVars, sockVars, progVars
<1>17. ASSUME NEW p \in Proc, AttachSize(p) PROVE TypeInv'
  <2>1. c2s' \in Requests
    BY <1>17, Channels DEF AttachSize, Request, TypeInv, TypeOK, RoleOK, ClientPC, ServerPC
  <2>. QED
    BY <1>17, <2>1
    DEF AttachSize, TypeInv, TypeOK, RoleOK, Role, StartPC, ClientPC, ServerPC, procVars, sockVars, progVars
<1>18. ASSUME NEW p \in Proc, RebindUnlink(p) PROVE TypeInv'
  BY <1>18
  DEF RebindUnlink, TypeInv, TypeOK, RoleOK, Role, StartPC, ClientPC, ServerPC, procVars, sockVars, progVars
<1>19. ASSUME NEW p \in Proc, RebindBind(p) PROVE TypeInv'
  <2>1. PICK l \in Sock : Binds(p, l)
    BY <1>19 DEF RebindBind
  <2>2. backlog' \in Backlogs
    BY <2>1, EmptyBacklog DEF Binds, TypeInv, TypeOK
  <2>. QED
    BY <1>19, <2>1, <2>2
    DEF RebindBind, Binds, TypeInv, TypeOK, RoleOK, Role, StartPC, ClientPC, ServerPC,
        progVars
<1>20. ASSUME NEW p \in Proc, Accept(p) PROVE TypeInv'
  <2>. DEFINE l == lsock[p]
              k == Head(backlog[l])
  <2>1. l \in Sock
    BY <1>20 DEF Accept, Accepts, TypeInv, TypeOK
  <2>2. backlog' \in Backlogs /\ k \in Conn
    BY <1>20, <2>1, Channels DEF Accept, Accepts, TypeInv, TypeOK
  <2>3. CASE c2s[k] # <<>> /\ conn' = [conn EXCEPT ![p] = k]
    <3>1. c2s' \in Requests /\ s2c' \in Replies
      BY <1>20, <2>2, <2>3, Channels DEF Accept, Accepts, Reply, TypeInv, TypeOK
    <3>. QED
      BY <1>20, <2>1, <2>2, <2>3, <3>1
      DEF Accept, Accepts, TypeInv, TypeOK, RoleOK, Role, StartPC, ClientPC, ServerPC,
          progVars
  <2>4. CASE UNCHANGED <<pc, conn, s2c>>
    <3>1. c2s' \in Requests
      BY <1>20, <2>2, <2>4, Channels DEF Accept, Accepts, TypeInv, TypeOK
    <3>. QED
      BY <1>20, <2>2, <2>4, <3>1 DEF Accept, Accepts, TypeInv, TypeOK, RoleOK, progVars
  <2>. QED BY <1>20, <2>3, <2>4 DEF Accept, Accepts
<1>21. ASSUME NEW p \in Proc, TakeoverSession(p) PROVE TypeInv'
  <2>1. [type |-> "sess", win |-> win[p]] \in Reply
    BY <1>21 DEF Reply, TypeInv, TypeOK
  <2>2. c2s' \in Requests
    BY <1>21, Channels DEF TakeoverSession, Drops, TypeInv, TypeOK, RoleOK, ClientPC, ServerPC
  <2>3. s2c' \in Replies
    BY <1>21, <2>1, Channels DEF TakeoverSession, Drops, TypeInv, TypeOK, RoleOK, ClientPC, ServerPC
  <2>. QED
    BY <1>21, <2>1, <2>2, <2>3, ZenonT(30)
    DEF TakeoverSession, Drops, TypeInv, TypeOK, RoleOK, Role, StartPC, ClientPC, ServerPC, procVars, sockVars, progVars
<1>22. ASSUME NEW p \in Proc, TakeoverListener(p) PROVE TypeInv'
  <2>1. [type |-> "lsock", sock |-> lsock[p]] \in Reply
    BY <1>22 DEF TakeoverListener, Reply, TypeInv, TypeOK, RoleOK
  <2>2. c2s' \in Requests
    BY <1>22, Channels DEF TakeoverListener, Drops, TypeInv, TypeOK, RoleOK, ClientPC, ServerPC
  <2>3. s2c' \in Replies
    BY <1>22, <2>1, Channels DEF TakeoverListener, Drops, TypeInv, TypeOK, RoleOK, ClientPC, ServerPC
  <2>. QED
    BY <1>22, <2>1, <2>2, <2>3, ZenonT(30)
    DEF TakeoverListener, Drops, TypeInv, TypeOK, RoleOK, Role, StartPC, ClientPC, ServerPC, procVars, sockVars, progVars
<1>23. ASSUME NEW p \in Proc, TakeoverDone(p) PROVE TypeInv'
  <2>1. c2s' \in Requests
    BY <1>23, Channels DEF TakeoverDone, TypeInv, TypeOK, RoleOK, ClientPC, ServerPC
  <2>2. s2c' \in Replies
    BY <1>23, Channels DEF TakeoverDone, TypeInv, TypeOK, RoleOK, ClientPC, ServerPC
  <2>. QED
    BY <1>23, <2>1, <2>2
    DEF TakeoverDone, TypeInv, TypeOK, RoleOK, Role, StartPC, ClientPC, ServerPC, procVars, sockVars, progVars
<1>24. ASSUME NEW p \in Proc, TakeoverLost(p) PROVE TypeInv'
  <2>1. c2s' \in Requests
    BY <1>24, Channels DEF TakeoverLost, Drops, TypeInv, TypeOK, RoleOK, ClientPC, ServerPC
  <2>. QED
    BY <1>24, <2>1
    DEF TakeoverLost, Drops, TypeInv, TypeOK, RoleOK, Role, StartPC, ClientPC, ServerPC, procVars, sockVars, progVars
<1>25. ASSUME NEW p \in Proc, BecomeObserver(p) PROVE TypeInv'
  <2>1. stray' \in [Proc -> SUBSET Stray]
    BY <1>25 DEF BecomeObserver, Window, Stray, TypeInv, TypeOK
  <2>. QED
    BY <1>25, <2>1
    DEF BecomeObserver, TypeInv, TypeOK, RoleOK, Role, StartPC, ClientPC, ServerPC, procVars, sockVars, progVars
<1>26. ASSUME NEW p \in Proc, NewWindow(p) PROVE TypeInv'
  <2>1. PICK g \in Prog : RunsProgram(p, g)
    BY <1>26 DEF NewWindow
  <2>2. win' \in [Proc -> SUBSET Window]
    BY <2>1, NewWindowType DEF TypeInv
  <2>3. /\ pinh' \in [Prog -> SUBSET Prog]
        /\ cinh' \in [Prog -> SUBSET (Conn \X {"c", "s"})]
    BY <2>1, NewWindowType DEF TypeInv
  <2>. QED
    BY <1>26, <2>1, <2>2, <2>3
    DEF NewWindow, RunsProgram, TypeInv, TypeOK, RoleOK, sockVars
<1>27. ASSUME NEW p \in Proc, CloseWindow(p) PROVE TypeInv'
  BY <1>27, GoneType
  DEF CloseWindow, Frees, Quits, Looping, TypeInv, TypeOK, RoleOK, Role, StartPC, ClientPC, ServerPC, procVars, sockVars, progVars
<1>28. ASSUME NEW p \in Proc, Reap(p) PROVE TypeInv'
  BY <1>28, GoneType
  DEF Reap, Frees, Quits, Looping, TypeInv, TypeOK, RoleOK, Role, StartPC, ClientPC, ServerPC, procVars, sockVars, progVars
<1>29. ASSUME NEW p \in Proc, Drain(p) PROVE TypeInv'
  <2>1. PICK w \in win[p] :
          /\ win' = [win EXCEPT ![p] =
                       (@ \ {w}) \cup {[w EXCEPT !.seen = @ + unread[w.prog]]}]
          /\ unread' = [unread EXCEPT ![w.prog] = 0]
    BY <1>29 DEF Drain
  <2>2. w \in Window
    BY <2>1 DEF TypeInv, TypeOK
  <2>3. [w EXCEPT !.seen = @ + unread[w.prog]] \in Window
    BY <2>2 DEF Window, TypeInv, TypeOK
  <2>4. win' \in [Proc -> SUBSET Window]
    BY <2>1, <2>3 DEF TypeInv, TypeOK
  <2>5. unread' \in [Prog -> Nat]
    BY <2>1 DEF TypeInv, TypeOK
  <2>6. \A g \in Prog : taken[g] + unread[g] \in Nat
    BY DEF TypeInv, TypeOK
  <2>7. \/ taken' = taken
        \/ \E v \in win[p] : taken' = [taken EXCEPT ![v.prog] = @ + unread[v.prog]]
    BY <1>29 DEF Drain
  <2>8. \A v \in win[p] : v.prog \in Prog
    BY DEF TypeInv, TypeOK, Window
  <2>9. taken' \in [Prog -> Nat]
    <3>1. CASE taken' = taken
      BY <3>1 DEF TypeInv, TypeOK
    <3>2. CASE \E v \in win[p] : taken' = [taken EXCEPT ![v.prog] = @ + unread[v.prog]]
      BY <3>2, <2>6, <2>8 DEF TypeInv, TypeOK
    <3>. QED BY <2>7, <3>1, <3>2
  <2>. QED
    BY <1>29, <2>4, <2>5, <2>9 DEF Drain, TypeInv, TypeOK, RoleOK, sockVars
<1>30. ASSUME NEW p \in Proc, ObserverGone(p) PROVE TypeInv'
  <2>1. s2c' \in Replies
    BY <1>30, Channels DEF ObserverGone, TypeInv, TypeOK, RoleOK, ClientPC, ServerPC
  <2>. QED
    BY <1>30, <2>1
    DEF ObserverGone, TypeInv, TypeOK, RoleOK, Role, StartPC, ClientPC, ServerPC, procVars, sockVars, progVars
<1>31. ASSUME NEW p \in Proc, Detach(p) PROVE TypeInv'
  <2>1. c2s' \in Requests
    BY <1>31, Channels DEF Detach, Request, TypeInv, TypeOK, RoleOK, ClientPC, ServerPC
  <2>2. s2c' \in Replies
    BY <1>31, Channels DEF Detach, TypeInv, TypeOK, RoleOK, ClientPC, ServerPC
  <2>. QED
    BY <1>31, <2>1, <2>2
    DEF Detach, Looping, TypeInv, TypeOK, RoleOK, Role, StartPC, ClientPC, ServerPC, procVars, sockVars, progVars
<1>32. ASSUME NEW p \in Proc, ObserveBye(p) PROVE TypeInv'
  <2>1. c2s' \in Requests
    BY <1>32, Channels DEF ObserveBye, Drops, TypeInv, TypeOK, RoleOK, ClientPC, ServerPC
  <2>. QED
    BY <1>32, <2>1
    DEF ObserveBye, Drops, TypeInv, TypeOK, RoleOK, Role, StartPC, ClientPC, ServerPC, procVars, sockVars, progVars
<1>33. ASSUME NEW p \in Proc, DaemonAccept(p) PROVE TypeInv'
  <2>. DEFINE l == lsock[p]
              k == Head(backlog[l])
  <2>1. l \in Sock
    BY <1>33 DEF DaemonAccept, Accepts, TypeInv, TypeOK
  <2>2. backlog' \in Backlogs /\ k \in Conn
    BY <1>33, <2>1, Channels DEF DaemonAccept, Accepts, TypeInv, TypeOK
  <2>3. CASE c2s[k] # <<>> /\ conn' = [conn EXCEPT ![p] = k]
    <3>1. c2s' \in Requests /\ s2c' \in Replies
      BY <1>33, <2>2, <2>3, Channels DEF DaemonAccept, Accepts, Reply, TypeInv, TypeOK
    <3>. QED
      BY <1>33, <2>1, <2>2, <2>3, <3>1
      DEF DaemonAccept, Accepts, TypeInv, TypeOK, RoleOK, Role, StartPC, ClientPC, ServerPC,
          progVars
  <2>4. CASE UNCHANGED <<pc, conn, s2c>>
    <3>1. c2s' \in Requests
      BY <1>33, <2>2, <2>4, Channels DEF DaemonAccept, Accepts, TypeInv, TypeOK
    <3>. QED
      BY <1>33, <2>2, <2>4, <3>1 DEF DaemonAccept, Accepts, TypeInv, TypeOK, RoleOK, progVars
  <2>. QED BY <1>33, <2>3, <2>4 DEF DaemonAccept, Accepts
<1>34. ASSUME NEW p \in Proc, DaemonSession(p) PROVE TypeInv'
  <2>1. [type |-> "sess", win |-> win[p]] \in Reply
    BY <1>34 DEF Reply, TypeInv, TypeOK
  <2>2. c2s' \in Requests
    BY <1>34, Channels DEF DaemonSession, TypeInv, TypeOK, RoleOK, ClientPC, ServerPC
  <2>3. s2c' \in Replies
    BY <1>34, <2>1, Channels DEF DaemonSession, TypeInv, TypeOK, RoleOK, ClientPC, ServerPC
  <2>. QED
    BY <1>34, <2>1, <2>2, <2>3
    DEF DaemonSession, TypeInv, TypeOK, RoleOK, Role, StartPC, ClientPC, ServerPC, procVars, sockVars, progVars
<1>35. ASSUME NEW p \in Proc, DaemonDrop(p) PROVE TypeInv'
  <2>1. c2s' \in Requests
    BY <1>35, Channels DEF DaemonDrop, Drops, TypeInv, TypeOK, RoleOK, ClientPC, ServerPC
  <2>. QED
    BY <1>35, <2>1
    DEF DaemonDrop, Drops, TypeInv, TypeOK, RoleOK, Role, StartPC, ClientPC, ServerPC, procVars, sockVars, progVars
<1>36. ASSUME NEW g \in Prog, ProgWrites(g) PROVE TypeInv'
  BY <1>36
  DEF ProgWrites, TypeInv, TypeOK, RoleOK, Role, StartPC, ClientPC, ServerPC, procVars, sockVars, progVars
<1>37. ASSUME NEW g \in Prog, Ends(g) PROVE TypeInv'
  BY <1>37
  DEF Ends, TypeInv, TypeOK, RoleOK, Role, StartPC, ClientPC, ServerPC, procVars, sockVars, progVars
<1>38. CASE UNCHANGED vars
  BY <1>38
  DEF vars, TypeInv, TypeOK, RoleOK, Role, StartPC, ClientPC, ServerPC, procVars, sockVars, progVars
<1>. QED
  BY <1>1, <1>2, <1>3, <1>4, <1>5, <1>6, <1>7, <1>8, <1>9, <1>10, <1>11, <1>12, <1>13, <1>14, <1>15, <1>16, <1>17, <1>18, <1>19, <1>20, <1>21, <1>22, <1>23, <1>24, <1>25, <1>26, <1>27, <1>28, <1>29, <1>30, <1>31, <1>32, <1>33, <1>34, <1>35, <1>36, <1>37, <1>38
  DEF Next, AttachStep, ServeStep, DaemonStep, ObserveStep, UserStep, LoopStep,
      ProgExits, HangUp

\* Every variable keeps its type: in particular a role that reads from a
\* connection has one, and an owner its listening socket.
THEOREM TypeCorrect == Spec => []TypeOK
<1>1. Init => TypeInv
  BY TypeInit
<1>2. TypeInv /\ [Next]_vars => TypeInv'
  BY TypeNext
<1>3. TypeInv => TypeOK
  BY DEF TypeInv
<1>. QED BY <1>1, <1>2, <1>3, PTL DEF Spec

-----------------------------------------------------------------------------
(* OneAcceptor.  The right to accept on a listening socket is a token: a    *)
(* process that is not in hsSize holds it, or a message on its way does.    *)
(* While the old owner waits for the size the token is with the client of   *)
(* its connection, so it may take the right back when that client is gone   *)
(* and no size has arrived.                                                 *)

Passed(l) == [type |-> "lsock", sock |-> l]
Flies(k, l) == ClientHeld(k) /\ InSeq(Passed(l), s2c[k])
Holds(p, l) == lsock[p] = l /\ pc[p] # "hsSize"
Waits(p, l) == lsock[p] = l /\ pc[p] = "hsSize"

Once(m, q) == \A i, j \in DOMAIN q : q[i] = m /\ q[j] = m => i = j

\* One token for each socket.
OneHolder == \A l \in Sock : \A p, q \in Proc : Holds(p, l) /\ Holds(q, l) => p = q
HeldOrFlying == \A l \in Sock, k \in Conn, p \in Proc : ~(Flies(k, l) /\ Holds(p, l))
OneFlight ==
  \A l \in Sock : \A j, k \in Conn :
    Flies(j, l) /\ Flies(k, l) =>
      j = k /\ Once(Passed(l), s2c[k])

\* The token of a process that waits and has no size yet is with its client.
TokenAway ==
  \A l \in Sock, p \in Proc : Waits(p, l) /\ c2s[conn[p]] = <<>> =>
    /\ \A q \in Proc : Holds(q, l) => pc[q] = "sizing" /\ conn[q] = conn[p]
    /\ \A k \in Conn : Flies(k, l) => k = conn[p]
    /\ \A q \in Proc : Waits(q, l) /\ c2s[conn[q]] = <<>> => q = p

\* A connection is served by one process, and one that waits to be accepted
\* by none.
OneServer ==
  \A p, q \in Proc :
    pc[p] \notin ClientPC /\ pc[q] \notin ClientPC /\ conn[p] \in Conn /\ conn[p] = conn[q]
      => p = q
Unserved ==
  \A l \in Sock : ListenerOpen(l) =>
    \A i \in DOMAIN backlog[l] :
      /\ ~ServerHeld(backlog[l][i])
      /\ \A m \in Sock : ListenerOpen(m) =>
           \A j \in DOMAIN backlog[m] : backlog[m][j] = backlog[l][i] => m = l /\ j = i

AcceptInv == /\ TypeInv /\ OneHolder /\ HeldOrFlying /\ OneFlight /\ TokenAway
             /\ OneServer /\ Unserved

\* Channels that carry no listening socket they did not carry before.
Fewer(q, r) == \A l \in Sock : /\ InSeq(Passed(l), q) => InSeq(Passed(l), r)
                               /\ Once(Passed(l), r) => Once(Passed(l), q)

LEMMA FewerSend ==
  ASSUME NEW q \in Seq(Reply), NEW m \in Reply, m.type # "lsock"
  PROVE  Fewer(Append(q, m), q)
<1>. SUFFICES ASSUME NEW l \in Sock
              PROVE  /\ InSeq(Passed(l), Append(q, m)) => InSeq(Passed(l), q)
                     /\ Once(Passed(l), q) => Once(Passed(l), Append(q, m))
  BY DEF Fewer
<1>1. m # Passed(l)
  BY DEF Passed
<1>2. \A i \in DOMAIN Append(q, m) : Append(q, m)[i] = Passed(l)
                                       => i \in DOMAIN q /\ q[i] = Passed(l)
  BY <1>1
<1>. QED BY <1>2 DEF InSeq, Once

LEMMA FewerRecv ==
  ASSUME NEW q \in Seq(Reply), q # <<>>
  PROVE  Fewer(Tail(q), q)
<1>. SUFFICES ASSUME NEW l \in Sock
              PROVE  /\ InSeq(Passed(l), Tail(q)) => InSeq(Passed(l), q)
                     /\ Once(Passed(l), q) => Once(Passed(l), Tail(q))
  BY DEF Fewer
<1>1. \A i \in DOMAIN Tail(q) : i + 1 \in DOMAIN q /\ Tail(q)[i] = q[i + 1] /\ i \in Nat
  OBVIOUS
<1>. QED BY <1>1 DEF InSeq, Once

\* What was at the head is gone from the rest, if it was there once.
LEMMA OnceRecv ==
  ASSUME NEW q \in Seq(Reply), q # <<>>, NEW m, Head(q) = m, Once(m, q)
  PROVE  ~InSeq(m, Tail(q))
<1>1. \A i \in DOMAIN Tail(q) : /\ i + 1 \in DOMAIN q /\ i + 1 # 1
                                /\ Tail(q)[i] = q[i + 1]
  OBVIOUS
<1>2. 1 \in DOMAIN q /\ q[1] = m
  OBVIOUS
<1>. QED BY <1>1, <1>2 DEF InSeq, Once

LEMMA OnceSend ==
  ASSUME NEW q \in Seq(Reply), NEW m \in Reply, ~InSeq(m, q)
  PROVE  Once(m, Append(q, m))
<1>1. \A i \in DOMAIN Append(q, m) : Append(q, m)[i] = m => i = Len(q) + 1
  BY DEF InSeq
<1>. QED BY <1>1 DEF Once

\* A step that takes no token anywhere: who has the socket had it, in the same
\* half of the takeover, and no message with a socket is added.
KeepsToken ==
  \A p \in Proc : lsock'[p] # None =>
    /\ lsock'[p] = lsock[p]
    /\ pc'[p] = "hsSize" <=> pc[p] = "hsSize"
    /\ pc[p] = "sizing" => pc'[p] = "sizing" /\ conn'[p] = conn[p]
    /\ pc[p] = "hsSize" => /\ conn'[p] = conn[p]
                           /\ c2s'[conn[p]] = <<>> => c2s[conn[p]] = <<>>
KeepsFlight ==
  \A k \in Conn : ClientHeld(k)' =>
    s2c'[k] = <<>> \/ (ClientHeld(k) /\ Fewer(s2c'[k], s2c[k]))
SameToken == KeepsToken /\ KeepsFlight

\* A step in which no process comes to serve a connection, and one that opens
\* no listening socket that was closed.
KeepsServers == \A p \in Proc : pc'[p] \notin ClientPC /\ conn'[p] \in Conn
                                 => pc[p] \notin ClientPC /\ conn'[p] = conn[p]
KeepsLeak == \A p \in Proc : leak'[p] \subseteq leak[p] \cup {lsock[p]}

\* A step that accepts and connects nothing.
SameServers ==
  /\ KeepsServers
  /\ \A l \in Sock : ListenerOpen(l)' =>
       /\ ListenerOpen(l)
       /\ backlog'[l] = backlog[l]

TokenInv == OneHolder /\ HeldOrFlying /\ OneFlight /\ TokenAway

LEMMA TokenFrame ==
  ASSUME AcceptInv, SameToken
  PROVE  TokenInv'
<1>1. \A p \in Proc, l \in Sock : /\ Holds(p, l)' => Holds(p, l)
                                  /\ Waits(p, l)' => Waits(p, l)
  BY NoneAssumption DEF SameToken, KeepsToken, Holds, Waits
<1>2. \A k \in Conn, l \in Sock : Flies(k, l)' => /\ Flies(k, l)
                                                   /\ Fewer(s2c'[k], s2c[k])
  BY DEF SameToken, KeepsFlight, Flies, Fewer, InSeq
<1>3. OneHolder'
  BY <1>1 DEF AcceptInv, OneHolder
<1>4. HeldOrFlying'
  BY <1>1, <1>2 DEF AcceptInv, HeldOrFlying
<1>5. OneFlight'
  BY <1>2 DEF AcceptInv, OneFlight, Fewer
<1>6. TokenAway'
  <2>. SUFFICES ASSUME NEW l \in Sock, NEW p \in Proc, Waits(p, l)', (c2s[conn[p]] = <<>>)'
                PROVE  /\ \A q \in Proc : Holds(q, l)' => pc'[q] = "sizing" /\ conn'[q] = conn'[p]
                       /\ \A k \in Conn : Flies(k, l)' => k = conn'[p]
                       /\ \A q \in Proc : Waits(q, l)' /\ c2s'[conn'[q]] = <<>> => q = p
    BY DEF TokenAway
  <2>1. Waits(p, l) /\ c2s[conn[p]] = <<>> /\ conn'[p] = conn[p]
    BY <1>1, NoneAssumption DEF SameToken, KeepsToken, Waits
  <2>2. \A q \in Proc : Waits(q, l)' /\ c2s'[conn'[q]] = <<>>
                          => Waits(q, l) /\ c2s[conn[q]] = <<>>
    BY <1>1, NoneAssumption DEF SameToken, KeepsToken, Waits
  <2>3. ASSUME NEW q \in Proc, Holds(q, l)'
        PROVE  pc'[q] = "sizing" /\ conn'[q] = conn'[p]
    <3>1. Holds(q, l) /\ pc[q] = "sizing" /\ conn[q] = conn[p]
      BY <1>1, <2>1, <2>3 DEF AcceptInv, TokenAway
    <3>2. lsock'[q] # None
      BY <2>3, NoneAssumption DEF Holds
    <3>. QED BY <2>1, <3>1, <3>2 DEF SameToken, KeepsToken
  <2>. QED BY <1>2, <2>1, <2>2, <2>3 DEF AcceptInv, TokenAway
<1>. QED BY <1>3, <1>4, <1>5, <1>6 DEF TokenInv

LEMMA ServerFrame ==
  ASSUME AcceptInv, SameServers
  PROVE  OneServer' /\ Unserved'
<1>1. OneServer'
  BY DEF AcceptInv, SameServers, KeepsServers, OneServer
<1>2. \A k \in Conn : ServerHeld(k)' => ServerHeld(k)
  BY DEF SameServers, KeepsServers, ServerHeld
<1>3. Unserved'
  <2>. SUFFICES ASSUME NEW l \in Sock, ListenerOpen(l)', NEW i \in DOMAIN backlog'[l]
                PROVE  /\ ~ServerHeld(backlog[l][i])'
                       /\ \A m \in Sock : ListenerOpen(m)' =>
                            \A j \in DOMAIN backlog'[m] :
                              backlog'[m][j] = backlog'[l][i] => m = l /\ j = i
    BY DEF Unserved
  <2>1. ListenerOpen(l) /\ backlog'[l] = backlog[l]
    BY DEF SameServers
  <2>2. \A m \in Sock : ListenerOpen(m)' => ListenerOpen(m) /\ backlog'[m] = backlog[m]
    BY DEF SameServers
  <2>3. backlog[l][i] \in Conn
    BY <2>1 DEF AcceptInv, TypeInv, TypeOK, Backlogs
  <2>. QED BY <1>2, <2>1, <2>2, <2>3 DEF AcceptInv, Unserved, ServerHeld
<1>. QED BY <1>1, <1>3

LEMMA SameFewer == \A q : Fewer(q, q)
BY DEF Fewer

\* Where s2c is only emptied, for connections or not at all.
LEMMA FlushFlight ==
  ASSUME \A k \in Conn : ClientHeld(k)' => ClientHeld(k),
         s2c' = s2c \/ \E ks : s2c' = Flush(s2c, ks)
  PROVE  KeepsFlight
<1>1. \A k \in Conn : s2c'[k] = <<>> \/ s2c'[k] = s2c[k]
  BY DEF Flush
<1>. QED BY <1>1, SameFewer DEF KeepsFlight

LEMMA ListenerFrame ==
  ASSUME SameToken, KeepsLeak, TypeInv
  PROVE  \A l \in Sock : ListenerOpen(l)' => ListenerOpen(l)
<1>. SUFFICES ASSUME NEW l \in Sock, ListenerOpen(l)' PROVE ListenerOpen(l)
  OBVIOUS
<1>1. CASE \E p \in Proc : lsock'[p] = l \/ l \in leak'[p]
  BY <1>1, NoneAssumption DEF SameToken, KeepsToken, KeepsLeak, ListenerOpen
<1>2. CASE InFlight(Passed(l))'
  <2>1. PICK k \in Conn : ClientHeld(k)' /\ InSeq(Passed(l), s2c'[k])
    BY <1>2 DEF InFlight, Passed
  <2>2. s2c'[k] # <<>>
    BY <2>1 DEF InSeq
  <2>3. ClientHeld(k) /\ InSeq(Passed(l), s2c[k])
    BY <2>1, <2>2 DEF SameToken, KeepsFlight, Fewer
  <2>. QED BY <2>3 DEF InFlight, ListenerOpen, Passed
<1>. QED BY <1>1, <1>2 DEF ListenerOpen, Passed

\* What more the steps have in common: a listening socket that was closed is
\* open again with an empty queue only, and a size that arrived is not lost while
\* it is waited for.
OpensEmpty == \A l \in Sock : ListenerOpen(l)' => ListenerOpen(l) \/ backlog'[l] = <<>>
KeepsSize ==
  \A p \in Proc : pc[p] = "hsSize" /\ pc'[p] = "hsSize" =>
    /\ conn'[p] = conn[p]
    /\ c2s'[conn[p]] = <<>> => c2s[conn[p]] = <<>>
Continues == OpensEmpty /\ KeepsSize

LEMMA TokenSize ==
  ASSUME TypeInv', KeepsToken
  PROVE  KeepsSize
<1>1. \A p \in Proc : pc'[p] = "hsSize" => lsock'[p] # None
  BY NoneAssumption DEF TypeInv, RoleOK
<1>. QED BY <1>1 DEF KeepsToken, KeepsSize

LEMMA QuietStep ==
  ASSUME AcceptInv, TypeInv', SameToken, KeepsServers, KeepsLeak, UNCHANGED backlog
  PROVE  AcceptInv' /\ Continues
<1>1. SameServers
  BY ListenerFrame DEF SameServers, AcceptInv
<1>2. Continues
  BY <1>1, TokenSize DEF SameServers, OpensEmpty, SameToken, Continues
<1>. QED BY <1>1, <1>2, TokenFrame, ServerFrame DEF AcceptInv, TokenInv

\* The connection a process serves is no other's that waits for a size.
LEMMA OtherConn ==
  ASSUME AcceptInv, NEW p \in Proc, pc[p] \notin ClientPC,
         NEW q \in Proc, q # p, pc[q] = "hsSize"
  PROVE  conn[q] \in Conn /\ conn[q] # conn[p]
BY DEF AcceptInv, TypeInv, RoleOK, OneServer, ServerPC, ClientPC

LEMMA AcceptInit == Init => AcceptInv
<1>. SUFFICES ASSUME Init PROVE AcceptInv
  OBVIOUS
<1>1. TypeInv
  BY TypeInit
<1>2. OneHolder /\ TokenAway /\ OneServer /\ HeldOrFlying
  BY NoneAssumption DEF Init, OneHolder, TokenAway, OneServer, HeldOrFlying, Holds, Waits
<1>3. OneFlight
  BY DEF Init, OneFlight, Flies, InSeq
<1>4. Unserved
  BY DEF Init, Unserved
<1>. QED BY <1>1, <1>2, <1>3, <1>4 DEF AcceptInv

LEMMA GoneAccept ==
  ASSUME AcceptInv, TypeInv', NEW p \in Proc, Gone(p), UNCHANGED backlog
  PROVE  AcceptInv' /\ Continues
<1>1. KeepsToken
  <2>. SUFFICES ASSUME NEW q \in Proc, lsock'[q] # None
                PROVE  /\ lsock'[q] = lsock[q]
                       /\ pc'[q] = pc[q]
                       /\ conn'[q] = conn[q]
                       /\ pc[q] = "hsSize" => c2s'[conn[q]] = c2s[conn[q]]
    BY DEF KeepsToken
  <2>1. q # p /\ lsock'[q] = lsock[q] /\ pc'[q] = pc[q] /\ conn'[q] = conn[q]
    BY DEF Gone, AcceptInv, TypeInv, TypeOK
  <2>2. ASSUME pc[q] = "hsSize" PROVE c2s'[conn[q]] = c2s[conn[q]]
    BY <2>1, <2>2, OtherConn DEF Gone, Flush, ServerEnds, AcceptInv, TypeInv, RoleOK, ServerPC
  <2>. QED BY <2>1, <2>2
<1>2. KeepsFlight
  <2>1. \A k \in Conn : ClientHeld(k)' => ClientHeld(k)
    BY NoneAssumption DEF Gone, ClientHeld, ClientPC, AcceptInv, TypeInv, TypeOK
  <2>. QED BY <2>1, FlushFlight DEF Gone
<1>3. KeepsServers /\ KeepsLeak
  BY NoneAssumption DEF Gone, KeepsServers, KeepsLeak, AcceptInv, TypeInv, TypeOK
<1>. QED BY <1>1, <1>2, <1>3, QuietStep DEF SameToken

\* Connecting: the new connection is in no other queue and is served by nobody.
LEMMA ConnectStep ==
  ASSUME AcceptInv, TypeInv', SameToken, KeepsServers, KeepsLeak,
         NEW k \in Conn, FreeConn(k), Connectable(path), backlog' = Send(backlog, path, k)
  PROVE  AcceptInv' /\ Continues
<1>1. TokenInv'
  BY TokenFrame
<1>2. \A l \in Sock : ListenerOpen(l)' => ListenerOpen(l)
  BY ListenerFrame DEF AcceptInv
<1>3. OneServer'
  BY DEF AcceptInv, KeepsServers, OneServer
<1>4. \A c \in Conn : ServerHeld(c)' => ServerHeld(c)
  BY DEF KeepsServers, ServerHeld
<1>5. path \in Sock /\ ListenerOpen(path)
  BY NoneAssumption DEF Connectable, AcceptInv, TypeInv, TypeOK
<1>6. ASSUME NEW l \in Sock, NEW i \in DOMAIN backlog'[l]
      PROVE  /\ backlog'[l][i] \in Conn
             /\ \/ i \in DOMAIN backlog[l] /\ backlog'[l][i] = backlog[l][i]
                \/ l = path /\ i = Len(backlog[path]) + 1 /\ backlog'[l][i] = k
  <2>1. backlog[l] \in Seq(Conn)
    BY DEF AcceptInv, TypeInv, TypeOK, Backlogs
  <2>2. CASE l = path
    <3>1. backlog'[l] = Append(backlog[l], k)
      BY <2>2 DEF Send, AcceptInv, TypeInv, TypeOK, Backlogs
    <3>. QED BY <1>6, <2>1, <2>2, <3>1
  <2>3. CASE l # path
    <3>1. backlog'[l] = backlog[l]
      BY <2>3 DEF Send, AcceptInv, TypeInv, TypeOK, Backlogs
    <3>. QED BY <1>6, <2>1, <3>1
  <2>. QED BY <2>2, <2>3
<1>7. ~ServerHeld(k) /\ \A l \in Sock : ListenerOpen(l) => ~InSeq(k, backlog[l])
  BY DEF FreeConn, ServerOpen
<1>8. Unserved'
  <2>. SUFFICES ASSUME NEW l \in Sock, ListenerOpen(l), NEW i \in DOMAIN backlog'[l]
                PROVE  /\ ~ServerHeld(backlog[l][i])'
                       /\ \A m \in Sock : ListenerOpen(m) =>
                            \A j \in DOMAIN backlog'[m] :
                              backlog'[m][j] = backlog'[l][i] => m = l /\ j = i
    BY <1>2 DEF Unserved, ServerHeld
  <2>1. ~ServerHeld(backlog'[l][i])
    BY <1>6, <1>7 DEF AcceptInv, Unserved
  <2>2. ASSUME NEW m \in Sock, ListenerOpen(m), NEW j \in DOMAIN backlog'[m],
               backlog'[m][j] = backlog'[l][i]
        PROVE  m = l /\ j = i
    <3>1. CASE i \in DOMAIN backlog[l] /\ backlog'[l][i] = backlog[l][i]
      BY <1>6, <1>7, <2>2, <3>1 DEF AcceptInv, Unserved, InSeq
    <3>2. CASE l = path /\ i = Len(backlog[path]) + 1 /\ backlog'[l][i] = k
      BY <1>6, <1>7, <2>2, <3>2 DEF InSeq
    <3>. QED BY <1>6, <3>1, <3>2
  <2>3. ~ServerHeld(backlog[l][i])'
    BY <1>4, <1>6, <2>1 DEF ServerHeld
  <2>. QED BY <2>2, <2>3
<1>9. Continues
  BY <1>2, TokenSize DEF OpensEmpty, SameToken, Continues
<1>. QED BY <1>1, <1>3, <1>8, <1>9 DEF AcceptInv, TokenInv

\* Accepting: the head of the queue leaves it, for p or for nobody.
LEMMA AcceptStep ==
  ASSUME AcceptInv, TypeInv', NEW p \in Proc, NEW role \in {"loop", "daemon"},
         NEW next \in {"hsCmd", "dCmd"}, NEW answer \in {"L", "D"},
         Accepts(p, role, next, answer)
  PROVE  AcceptInv' /\ Continues
<1>. DEFINE l == lsock[p]
            k == Head(backlog[l])
<1>1. l \in Sock /\ backlog[l] \in Seq(Conn) /\ backlog[l] # <<>> /\ k \in Conn
  BY DEF Accepts, AcceptInv, TypeInv, TypeOK, Backlogs
<1>2. ListenerOpen(l)
  BY DEF ListenerOpen
<1>3. 1 \in DOMAIN backlog[l] /\ backlog[l][1] = k
  BY <1>1
<1>4. ~ServerHeld(k)
  BY <1>1, <1>2, <1>3 DEF AcceptInv, Unserved
<1>5. \A q \in Proc : pc[q] = "hsSize" => conn[q] \in Conn /\ conn[q] # k
  BY <1>4 DEF ServerHeld, AcceptInv, TypeInv, RoleOK, ClientPC, ServerPC
<1>6. \A c \in Conn : c # k => c2s'[c] = c2s[c]
  BY <1>1 DEF Accepts, Recv, Flush, AcceptInv, TypeInv, TypeOK, Requests
<1>7. KeepsToken
  BY <1>5, <1>6 DEF Accepts, KeepsToken, ClientPC, AcceptInv, TypeInv, TypeOK
<1>8. KeepsFlight
  <2>1. \A c \in Conn : ClientHeld(c)' => ClientHeld(c)
    BY NoneAssumption DEF Accepts, ClientHeld, ClientPC, AcceptInv, TypeInv, TypeOK
  <2>2. CASE s2c' = Send(s2c, k, [type |-> answer])
    <3>1. [type |-> answer] \in Reply /\ [type |-> answer].type # "lsock"
      BY DEF Reply
    <3>2. \A c \in Conn : s2c'[c] = s2c[c] \/ s2c'[c] = Append(s2c[c], [type |-> answer])
      BY <2>2 DEF Send, AcceptInv, TypeInv, TypeOK, Replies
    <3>3. \A c \in Conn : Fewer(s2c'[c], s2c[c])
      BY <3>1, <3>2, FewerSend, SameFewer DEF AcceptInv, TypeInv, TypeOK, Replies
    <3>. QED BY <2>1, <3>3 DEF KeepsFlight
  <2>3. CASE UNCHANGED s2c
    BY <2>1, <2>3, FlushFlight
  <2>. QED BY <2>2, <2>3 DEF Accepts
<1>9. KeepsLeak
  BY DEF Accepts, KeepsLeak
<1>10. TokenInv'
  BY <1>7, <1>8, TokenFrame DEF SameToken
<1>11. \A m \in Sock : ListenerOpen(m)' => ListenerOpen(m)
  BY <1>7, <1>8, <1>9, ListenerFrame DEF SameToken, AcceptInv
<1>12. \A q \in Proc : pc'[q] \notin ClientPC /\ conn'[q] \in Conn =>
         \/ q = p /\ conn'[q] = k
         \/ pc[q] \notin ClientPC /\ conn'[q] = conn[q]
  BY DEF Accepts, ClientPC, AcceptInv, TypeInv, TypeOK
<1>13. OneServer'
  BY <1>4, <1>12 DEF AcceptInv, OneServer, ServerHeld
<1>14. \A m \in Sock : \A i \in DOMAIN backlog'[m] :
         /\ backlog'[m][i] \in Conn
         /\ IF m = l THEN i + 1 \in DOMAIN backlog[m] /\ backlog'[m][i] = backlog[m][i + 1]
                         /\ i \in Nat \ {0}
                     ELSE i \in DOMAIN backlog[m] /\ backlog'[m][i] = backlog[m][i]
  <2>1. backlog' = Recv(backlog, l)
    BY DEF Accepts
  <2>2. ASSUME NEW m \in Sock, m # l PROVE backlog'[m] = backlog[m] /\ backlog[m] \in Seq(Conn)
    BY <2>1, <2>2 DEF Recv, AcceptInv, TypeInv, TypeOK, Backlogs
  <2>3. backlog'[l] = Tail(backlog[l])
    BY <1>1, <2>1 DEF Recv, AcceptInv, TypeInv, TypeOK, Backlogs
  <2>4. \A i \in DOMAIN Tail(backlog[l]) :
          /\ i \in Nat \ {0} /\ i + 1 \in DOMAIN backlog[l]
          /\ Tail(backlog[l])[i] = backlog[l][i + 1]
          /\ backlog[l][i + 1] \in Conn
    BY <1>1
  <2>. SUFFICES ASSUME NEW m \in Sock, NEW i \in DOMAIN backlog'[m]
                PROVE  /\ backlog'[m][i] \in Conn
                       /\ IF m = l THEN i + 1 \in DOMAIN backlog[m]
                                       /\ backlog'[m][i] = backlog[m][i + 1]
                                       /\ i \in Nat \ {0}
                                   ELSE i \in DOMAIN backlog[m]
                                       /\ backlog'[m][i] = backlog[m][i]
    OBVIOUS
  <2>5. CASE m = l
    BY <2>3, <2>4, <2>5
  <2>6. CASE m # l
    BY <2>2, <2>6
  <2>. QED BY <2>5, <2>6
<1>15. \A m \in Sock : ListenerOpen(m) => \A i \in DOMAIN backlog'[m] :
         /\ backlog'[m][i] # k
         /\ ~ServerHeld(backlog'[m][i])
  BY <1>1, <1>2, <1>3, <1>14 DEF AcceptInv, Unserved
<1>16. Unserved'
  <2>. SUFFICES ASSUME NEW m \in Sock, ListenerOpen(m), NEW i \in DOMAIN backlog'[m]
                PROVE  /\ ~ServerHeld(backlog[m][i])'
                       /\ \A n \in Sock : ListenerOpen(n) =>
                            \A j \in DOMAIN backlog'[n] :
                              backlog'[n][j] = backlog'[m][i] => n = m /\ j = i
    BY <1>11 DEF Unserved
  <2>1. ~ServerHeld(backlog[m][i])'
    BY <1>12, <1>14, <1>15 DEF ServerHeld
  <2>2. ASSUME NEW n \in Sock, ListenerOpen(n), NEW j \in DOMAIN backlog'[n],
               backlog'[n][j] = backlog'[m][i]
        PROVE  n = m /\ j = i
    BY <1>14, <2>2 DEF AcceptInv, Unserved
  <2>. QED BY <2>1, <2>2
<1>17. Continues
  BY <1>7, <1>11, TokenSize DEF OpensEmpty, Continues
<1>. QED BY <1>10, <1>13, <1>16, <1>17 DEF AcceptInv, TokenInv

\* Binding: nothing refers to the socket before, so no token of it exists.
LEMMA BindStep ==
  ASSUME AcceptInv, TypeInv', NEW p \in Proc, NEW l \in Sock,
         pc[p] \in {"unlinked", "bind"}, Binds(p, l),
         UNCHANGED <<conn, obs, leak, c2s, s2c>>
  PROVE  AcceptInv' /\ Continues
<1>1. \A m \in Sock, q \in Proc :
        /\ Waits(q, m)' => Waits(q, m)
        /\ Holds(q, m)' => Holds(q, m) \/ (q = p /\ m = l)
  BY DEF Binds, Holds, Waits, AcceptInv, TypeInv, TypeOK
<1>2. \A k \in Conn : ClientHeld(k)' <=> ClientHeld(k)
  BY NoneAssumption DEF Binds, ClientHeld, ClientPC, AcceptInv, TypeInv, TypeOK
<1>3. \A m \in Sock, k \in Conn : Flies(k, m)' <=> Flies(k, m)
  BY <1>2 DEF Flies, InSeq, Passed
<1>4. \A q \in Proc : ~Holds(q, l) /\ ~Waits(q, l) /\ l \notin leak[q]
  BY DEF Binds, FreeSock, ListenerOpen, Holds, Waits
<1>5. \A k \in Conn : ~Flies(k, l)
  BY DEF Binds, FreeSock, ListenerOpen, InFlight, Flies, Passed
<1>6. OneHolder' /\ HeldOrFlying'
  BY <1>1, <1>3, <1>4, <1>5 DEF AcceptInv, OneHolder, HeldOrFlying
<1>7. OneFlight'
  BY <1>3 DEF AcceptInv, OneFlight
<1>8. TokenAway'
  <2>. SUFFICES ASSUME NEW m \in Sock, NEW q \in Proc, Waits(q, m)', c2s'[conn'[q]] = <<>>
                PROVE  /\ \A r \in Proc : Holds(r, m)' => pc'[r] = "sizing" /\ conn'[r] = conn'[q]
                       /\ \A k \in Conn : Flies(k, m)' => k = conn'[q]
                       /\ \A r \in Proc : Waits(r, m)' /\ c2s'[conn'[r]] = <<>> => r = q
    BY DEF TokenAway
  <2>1. Waits(q, m) /\ c2s[conn[q]] = <<>> /\ m # l
    BY <1>1, <1>4
  <2>2. ASSUME NEW r \in Proc, Holds(r, m)'
        PROVE  pc'[r] = "sizing" /\ conn'[r] = conn'[q]
    <3>1. Holds(r, m) /\ pc[r] = "sizing" /\ conn[r] = conn[q]
      BY <1>1, <2>1, <2>2 DEF AcceptInv, TokenAway
    <3>. QED BY <3>1 DEF Binds, AcceptInv, TypeInv, TypeOK
  <2>. QED BY <1>1, <1>3, <2>1, <2>2 DEF AcceptInv, TokenAway
<1>9. KeepsServers
  BY DEF Binds, KeepsServers, ClientPC, AcceptInv, TypeInv, TypeOK
<1>10. OneServer'
  BY <1>9 DEF AcceptInv, KeepsServers, OneServer
<1>11. \A c \in Conn : ServerHeld(c)' => ServerHeld(c)
  BY <1>9 DEF KeepsServers, ServerHeld
<1>12. \A m \in Sock : ListenerOpen(m)' => ListenerOpen(m) \/ m = l
  <2>. SUFFICES ASSUME NEW m \in Sock, m # l, ListenerOpen(m)' PROVE ListenerOpen(m)
    OBVIOUS
  <2>1. CASE InFlight(Passed(m))'
    BY <1>2, <2>1 DEF InFlight, InSeq, ListenerOpen, Passed
  <2>2. CASE \E q \in Proc : lsock'[q] = m \/ m \in leak'[q]
    BY <2>2 DEF Binds, ListenerOpen, AcceptInv, TypeInv, TypeOK
  <2>. QED BY <2>1, <2>2 DEF ListenerOpen, Passed
<1>13. \A m \in Sock : \A i \in DOMAIN backlog'[m] :
         m # l /\ i \in DOMAIN backlog[m] /\ backlog'[m][i] = backlog[m][i]
               /\ backlog[m][i] \in Conn
  <2>1. backlog'[l] = <<>>
    BY DEF Binds, AcceptInv, TypeInv, TypeOK, Backlogs
  <2>2. \A m \in Sock : m # l => backlog'[m] = backlog[m] /\ backlog[m] \in Seq(Conn)
    BY DEF Binds, AcceptInv, TypeInv, TypeOK, Backlogs
  <2>. QED BY <2>1, <2>2
<1>14. Unserved'
  <2>. SUFFICES ASSUME NEW m \in Sock, ListenerOpen(m)', NEW i \in DOMAIN backlog'[m]
                PROVE  /\ ~ServerHeld(backlog[m][i])'
                       /\ \A n \in Sock : ListenerOpen(n)' =>
                            \A j \in DOMAIN backlog'[n] :
                              backlog'[n][j] = backlog'[m][i] => n = m /\ j = i
    BY DEF Unserved
  <2>1. ~ServerHeld(backlog[m][i])
    BY <1>12, <1>13 DEF AcceptInv, Unserved
  <2>2. ~ServerHeld(backlog[m][i])'
    BY <1>9, <1>13, <2>1 DEF KeepsServers, ServerHeld
  <2>. QED BY <1>12, <1>13, <2>2 DEF AcceptInv, Unserved
<1>15. Continues
  <2>1. OpensEmpty
    BY <1>12 DEF OpensEmpty, Binds, AcceptInv, TypeInv, TypeOK, Backlogs
  <2>2. KeepsSize
    BY DEF KeepsSize
  <2>. QED BY <2>1, <2>2 DEF Continues
<1>. QED BY <1>6, <1>7, <1>8, <1>10, <1>14, <1>15 DEF AcceptInv

\* A write only adds to what is on its way.
LEMMA WriteKeeps ==
  ASSUME c2s \in Requests, NEW k, NEW m, NEW open, NEW j \in Conn,
         Write(c2s, k, m, open)[j] = <<>>
  PROVE  c2s[j] = <<>>
<1>1. c2s[j] \in Seq(Request)
  BY DEF Requests
<1>2. CASE j = k /\ open
  <2>1. Write(c2s, k, m, open)[j] = Append(c2s[j], m)
    BY <1>2 DEF Write, Send, Requests
  <2>. QED BY <2>1, <1>1
<1>3. CASE ~(j = k /\ open)
  BY <1>3 DEF Write, Send, Requests
<1>. QED BY <1>2, <1>3

LEMMA FewerSent ==
  ASSUME s2c \in Replies, NEW k, NEW m \in Reply, m.type # "lsock", s2c' = Send(s2c, k, m)
  PROVE  \A c \in Conn : Fewer(s2c'[c], s2c[c])
<1>. SUFFICES ASSUME NEW c \in Conn PROVE Fewer(s2c'[c], s2c[c])
  OBVIOUS
<1>1. s2c[c] \in Seq(Reply)
  BY DEF Replies
<1>2. CASE s2c'[c] = Append(s2c[c], m)
  BY <1>1, <1>2, FewerSend
<1>3. CASE s2c'[c] = s2c[c]
  BY <1>3, SameFewer
<1>4. s2c'[c] = s2c[c] \/ s2c'[c] = Append(s2c[c], m)
  BY DEF Send, Replies
<1>. QED BY <1>2, <1>3, <1>4

\* The socket arrives: its token leaves the message for the receiver.
LEMMA AttachListenerStep ==
  ASSUME AcceptInv, TypeInv', NEW p \in Proc, AttachListener(p)
  PROVE  AcceptInv' /\ Continues
<1>0. PICK k \in Conn : k = conn[p]
  BY DEF AttachListener, AcceptInv, TypeInv, RoleOK, ClientPC
<1>1. /\ s2c[k] # <<>> /\ s2c' = Recv(s2c, k)
      /\ Head(s2c[k]) \in Reply /\ s2c \in [Conn -> Seq(Reply)]
  BY <1>0, Channels DEF AttachListener, AcceptInv, TypeInv, TypeOK, Replies
<1>2. PICK l \in Sock : l = lsock'[p] /\ Head(s2c[k]) = Passed(l)
  BY <1>0, <1>1 DEF AttachListener, AcceptInv, TypeInv, TypeOK, Reply, Passed
<1>3. Flies(k, l)
  <2>1. 1 \in DOMAIN s2c[k] /\ s2c[k][1] = Passed(l)
    BY <1>1, <1>2
  <2>. QED BY <1>0, <2>1 DEF Flies, InSeq, ClientHeld, AttachListener, ClientPC
<1>4. \A c \in Conn : s2c'[c] = IF c = k THEN Tail(s2c[c]) ELSE s2c[c]
  BY <1>0, <1>1 DEF Recv
<1>5. \A c \in Conn : (ClientHeld(c)' <=> ClientHeld(c)) /\ Fewer(s2c'[c], s2c[c])
  <2>1. \A c \in Conn : ClientHeld(c)' <=> ClientHeld(c)
    BY NoneAssumption DEF AttachListener, ClientHeld, ClientPC, AcceptInv, TypeInv, TypeOK
  <2>. QED BY <1>1, <1>4, <2>1, SameFewer, FewerRecv
<1>6. \A c \in Conn, m \in Sock : Flies(c, m)' => Flies(c, m)
  BY <1>5 DEF Flies, Fewer, InSeq, Passed
<1>7. \A c \in Conn : ~Flies(c, l)'
  <2>1. \A c \in Conn : Flies(c, l) => c = k /\ Once(Passed(l), s2c[k])
    BY <1>1, <1>2, <1>3 DEF AcceptInv, OneFlight
  <2>2. ~InSeq(Passed(l), Tail(s2c[k]))
    BY <1>1, <1>2, <1>3, <2>1, OnceRecv
  <2>. QED BY <1>1, <1>4, <1>6, <2>1, <2>2 DEF Flies, InSeq, Passed
<1>8. \A m \in Sock, q \in Proc :
        /\ Waits(q, m)' => Waits(q, m)
        /\ Holds(q, m)' => Holds(q, m) \/ (q = p /\ m = l)
  BY <1>2 DEF AttachListener, Holds, Waits, AcceptInv, TypeInv, TypeOK
<1>9. OneHolder'
  BY <1>1, <1>2, <1>3, <1>8 DEF AcceptInv, OneHolder, HeldOrFlying
<1>10. HeldOrFlying'
  BY <1>2, <1>6, <1>7, <1>8 DEF AcceptInv, HeldOrFlying
<1>11. OneFlight'
  BY <1>5, <1>6 DEF AcceptInv, OneFlight, Fewer
<1>12. TokenAway'
  <2>. SUFFICES ASSUME NEW m \in Sock, NEW q \in Proc, Waits(q, m)', c2s'[conn'[q]] = <<>>
                PROVE  /\ \A r \in Proc : Holds(r, m)' => pc'[r] = "sizing" /\ conn'[r] = conn'[q]
                       /\ \A c \in Conn : Flies(c, m)' => c = conn'[q]
                       /\ \A r \in Proc : Waits(r, m)' /\ c2s'[conn'[r]] = <<>> => r = q
    BY DEF TokenAway
  <2>1. Waits(q, m) /\ c2s[conn[q]] = <<>> /\ conn' = conn /\ c2s' = c2s
    BY <1>8 DEF AttachListener
  <2>2. ASSUME NEW r \in Proc, Holds(r, m)' PROVE pc'[r] = "sizing" /\ conn'[r] = conn'[q]
    <3>1. CASE Holds(r, m)
      BY <2>1, <3>1 DEF AttachListener, AcceptInv, TokenAway, TypeInv, TypeOK
    <3>2. CASE r = p /\ m = l
      <4>1. k = conn[q]
        BY <1>1, <1>3, <2>1, <3>2 DEF AcceptInv, TokenAway
      <4>. QED BY <1>0, <2>1, <3>2, <4>1 DEF AttachListener, AcceptInv, TypeInv, TypeOK
    <3>. QED BY <1>8, <2>2, <3>1, <3>2
  <2>. QED BY <1>6, <1>8, <2>1, <2>2 DEF AcceptInv, TokenAway
<1>13. OneServer' /\ Unserved' /\ Continues
  <2>1. KeepsServers /\ UNCHANGED backlog
    BY DEF AttachListener, KeepsServers, ClientPC, sockVars, AcceptInv, TypeInv, TypeOK
  <2>2. \A m \in Sock : ListenerOpen(m)' => ListenerOpen(m)
    <3>. SUFFICES ASSUME NEW m \in Sock, ListenerOpen(m)' PROVE ListenerOpen(m)
      OBVIOUS
    <3>1. \A c \in Conn, n \in Sock : Flies(c, n) => ListenerOpen(n)
      BY DEF Flies, InFlight, ListenerOpen, Passed
    <3>2. CASE InFlight(Passed(m))'
      BY <1>6, <3>1, <3>2 DEF InFlight, Flies, Passed, InSeq
    <3>3. CASE \E q \in Proc : lsock'[q] = m \/ m \in leak'[q]
      <4>1. CASE m = l
        BY <1>1, <1>3, <3>1, <4>1
      <4>2. CASE m # l
        BY <1>2, <3>3, <4>2 DEF AttachListener, ListenerOpen, AcceptInv, TypeInv, TypeOK
      <4>. QED BY <4>1, <4>2
    <3>. QED BY <3>2, <3>3 DEF ListenerOpen, Passed
  <2>3. KeepsSize
    BY DEF AttachListener, KeepsSize
  <2>4. Continues
    BY <2>2, <2>3 DEF OpensEmpty, Continues
  <2>. QED BY <2>1, <2>2, <2>4, ServerFrame DEF SameServers
<1>. QED BY <1>9, <1>10, <1>11, <1>12, <1>13 DEF AcceptInv

\* The size is written: if the old owner still serves the connection, it can no
\* longer see it empty.
LEMMA AttachSizeStep ==
  ASSUME AcceptInv, TypeInv', NEW p \in Proc, AttachSize(p)
  PROVE  AcceptInv' /\ Continues
<1>. DEFINE k == conn[p]
<1>1. k \in Conn /\ c2s' = Write(c2s, k, "size", ServerOpen(k))
  BY DEF AttachSize, AcceptInv, TypeInv, RoleOK, ClientPC
<1>2. \A c \in Conn : ClientHeld(c)' => ClientHeld(c)
  BY NoneAssumption DEF AttachSize, ClientHeld, ClientPC, AcceptInv, TypeInv, TypeOK
<1>3. \A c \in Conn, l \in Sock : Flies(c, l)' => Flies(c, l) /\ s2c'[c] = s2c[c]
  BY <1>2 DEF AttachSize, Flies, InSeq, Passed
<1>4. \A q \in Proc, l \in Sock : /\ Holds(q, l)' => Holds(q, l)
                                  /\ Waits(q, l)' => Waits(q, l)
  BY DEF AttachSize, Holds, Waits, AcceptInv, TypeInv, TypeOK
<1>5. \A q \in Proc : pc[q] = "hsSize" => q # p /\ conn[q] \in Conn
  BY DEF AttachSize, AcceptInv, TypeInv, RoleOK, ServerPC
<1>6. \A q \in Proc : pc[q] = "hsSize" /\ c2s'[conn[q]] = <<>>
                        => c2s[conn[q]] = <<>> /\ conn[q] # k
  <2>. SUFFICES ASSUME NEW q \in Proc, pc[q] = "hsSize", c2s'[conn[q]] = <<>>
                PROVE  c2s[conn[q]] = <<>> /\ conn[q] # k
    OBVIOUS
  <2>1. c2s[conn[q]] = <<>>
    BY <1>1, <1>5, WriteKeeps DEF AcceptInv, TypeInv, TypeOK
  <2>2. ASSUME conn[q] = k PROVE FALSE
    <3>1. ServerOpen(k)
      BY <2>2 DEF ServerOpen, ServerHeld, ClientPC
    <3>2. c2s'[k] = Append(c2s[k], "size") /\ c2s[k] \in Seq(Request)
      BY <1>1, <3>1 DEF Write, Send, AcceptInv, TypeInv, TypeOK, Requests
    <3>. QED BY <2>2, <3>2
  <2>. QED BY <2>1, <2>2
<1>7. OneHolder'
  BY <1>4 DEF AcceptInv, OneHolder
<1>8. HeldOrFlying'
  BY <1>3, <1>4 DEF AcceptInv, HeldOrFlying
<1>9. OneFlight'
  BY <1>3 DEF AcceptInv, OneFlight
<1>10. TokenAway'
  <2>. SUFFICES ASSUME NEW l \in Sock, NEW q \in Proc, Waits(q, l)', c2s'[conn'[q]] = <<>>
                PROVE  /\ \A r \in Proc : Holds(r, l)' => pc'[r] = "sizing" /\ conn'[r] = conn'[q]
                       /\ \A c \in Conn : Flies(c, l)' => c = conn'[q]
                       /\ \A r \in Proc : Waits(r, l)' /\ c2s'[conn'[r]] = <<>> => r = q
    BY DEF TokenAway
  <2>1. \A r \in Proc : Waits(r, l)' /\ c2s'[conn'[r]] = <<>> =>
          Waits(r, l) /\ c2s[conn[r]] = <<>> /\ conn'[r] = conn[r] /\ conn[r] # k
    BY <1>4, <1>5, <1>6 DEF AttachSize, Waits, AcceptInv, TypeInv, TypeOK
  <2>2. ASSUME NEW r \in Proc, Holds(r, l)' PROVE pc'[r] = "sizing" /\ conn'[r] = conn'[q]
    <3>1. pc[r] = "sizing" /\ conn[r] = conn[q] /\ conn'[q] = conn[q] /\ conn[q] # k
      BY <1>4, <2>1, <2>2 DEF AcceptInv, TokenAway
    <3>. QED BY <3>1 DEF AttachSize, AcceptInv, TypeInv, TypeOK
  <2>. QED BY <1>3, <2>1, <2>2 DEF AcceptInv, TokenAway
<1>11. OneServer' /\ Unserved' /\ Continues
  <2>1. KeepsServers /\ KeepsLeak /\ UNCHANGED backlog
    BY NoneAssumption DEF AttachSize, KeepsServers, KeepsLeak, ClientPC, sockVars, AcceptInv, TypeInv, TypeOK
  <2>2. \A m \in Sock : ListenerOpen(m)' => ListenerOpen(m)
    BY <1>2 DEF AttachSize, ListenerOpen, InFlight, InSeq
  <2>3. KeepsSize
    BY <1>5, <1>6 DEF AttachSize, KeepsSize, AcceptInv, TypeInv, TypeOK
  <2>4. Continues
    BY <2>2, <2>3 DEF OpensEmpty, Continues
  <2>. QED BY <2>1, <2>2, <2>4, ServerFrame DEF SameServers
<1>. QED BY <1>7, <1>8, <1>9, <1>10, <1>11 DEF AcceptInv

\* The socket is sent: the sender's token is in the message.
LEMMA TakeoverListenerStep ==
  ASSUME AcceptInv, TypeInv', NEW p \in Proc, TakeoverListener(p)
  PROVE  AcceptInv' /\ Continues
<1>. PICK k \in Conn, l \in Sock : k = conn[p] /\ l = lsock[p]
  BY DEF TakeoverListener, AcceptInv, TypeInv, RoleOK, ServerPC
<1>1. pc[p] = "hsAck" /\ pc[p] \notin ClientPC
  BY DEF TakeoverListener, ClientPC
<1>2. \A c \in Conn : c # k => c2s'[c] = c2s[c]
  BY <1>1 DEF TakeoverListener, Drops, Recv, Flush, AcceptInv, TypeInv, TypeOK, Requests
<1>3. \A q \in Proc : q # p /\ pc[q] = "hsSize" =>
        /\ c2s'[conn[q]] = c2s[conn[q]]
        /\ pc'[q] = pc[q] /\ conn'[q] = conn[q]
  <2>1. \A q \in Proc : q # p => pc'[q] = pc[q] /\ conn'[q] = conn[q]
    BY DEF TakeoverListener, Drops, AcceptInv, TypeInv, TypeOK
  <2>. QED BY <1>1, <1>2, <2>1, OtherConn
<1>4. \A c \in Conn : ClientHeld(c)' <=> ClientHeld(c)
  BY NoneAssumption, ZenonT(30)
  DEF TakeoverListener, Drops, ClientHeld, ClientPC, AcceptInv, TypeInv, TypeOK
<1>5. KeepsServers /\ KeepsLeak /\ UNCHANGED backlog
  BY NoneAssumption DEF TakeoverListener, Drops, KeepsServers, KeepsLeak, ClientPC, sockVars,
     AcceptInv, TypeInv, TypeOK
<1>6. CASE ~ClientOpen(k) /\ Drops(p, "loop") /\ UNCHANGED s2c
  <2>1. KeepsToken
    BY <1>3, <1>6 DEF TakeoverListener, Drops, KeepsToken, AcceptInv, TypeInv, TypeOK
  <2>2. KeepsFlight
    BY <1>4, <1>6, FlushFlight
  <2>. QED BY <1>5, <2>1, <2>2, QuietStep DEF SameToken
<1>7. CASE /\ pc' = [pc EXCEPT ![p] = "hsSize"]
           /\ s2c' = Send(s2c, k, Passed(l))
           /\ UNCHANGED conn
  <2>1. Passed(l) \in Reply
    BY <1>1 DEF Passed, Reply
  <2>2. \A c \in Conn : /\ s2c[c] \in Seq(Reply)
                        /\ s2c'[c] = IF c = k THEN Append(s2c[c], Passed(l)) ELSE s2c[c]
    BY <1>7 DEF Send, AcceptInv, TypeInv, TypeOK, Replies
  <2>3. \A q \in Proc, m \in Sock :
          /\ Holds(q, m)' => Holds(q, m) /\ q # p
          /\ Waits(q, m)' => Waits(q, m) \/ (q = p /\ m = l)
    BY <1>7 DEF TakeoverListener, Holds, Waits, AcceptInv, TypeInv, TypeOK
  <2>4. Holds(p, l)
    BY <1>1 DEF Holds
  <2>5. \A q \in Proc : ~Holds(q, l)'
    BY <1>1, <2>3, <2>4 DEF AcceptInv, OneHolder
  <2>6. \A c \in Conn : ~Flies(c, l)
    BY <1>1, <2>4 DEF AcceptInv, HeldOrFlying
  <2>7. \A c \in Conn, m \in Sock : Flies(c, m)' =>
          \/ Flies(c, m) /\ (Once(Passed(m), s2c[c]) => Once(Passed(m), s2c'[c])) /\ m # l
          \/ c = k /\ m = l
    <3>. SUFFICES ASSUME NEW c \in Conn, NEW m \in Sock, Flies(c, m)'
                  PROVE  \/ /\ Flies(c, m)
                            /\ Once(Passed(m), s2c[c]) => Once(Passed(m), s2c'[c])
                            /\ m # l
                         \/ c = k /\ m = l
      OBVIOUS
    <3>1. CASE c # k
      <4>1. s2c'[c] = s2c[c] /\ Flies(c, m)
        BY <1>4, <2>2, <3>1 DEF Flies, InSeq, Passed
      <4>. QED BY <2>6, <4>1
    <3>2. CASE c = k /\ m # l
      <4>1. \A i \in DOMAIN s2c'[c] : s2c'[c][i] = Passed(m)
                                        => i \in DOMAIN s2c[c] /\ s2c[c][i] = Passed(m)
        <5>1. Passed(m) # Passed(l)
          BY <3>2 DEF Passed
        <5>2. s2c'[c] = Append(s2c[c], Passed(l)) /\ s2c[c] \in Seq(Reply)
          BY <2>2, <3>2
        <5>3. \A i \in DOMAIN s2c'[c] : \/ i \in DOMAIN s2c[c] /\ s2c'[c][i] = s2c[c][i]
                                        \/ s2c'[c][i] = Passed(l)
          BY <2>1, <5>2
        <5>. QED BY <5>1, <5>3
      <4>2. Flies(c, m)
        BY <1>4, <4>1 DEF Flies, InSeq, Passed
      <4>3. Once(Passed(m), s2c[c]) => Once(Passed(m), s2c'[c])
        BY <4>1 DEF Once
      <4>. QED BY <3>2, <4>2, <4>3
    <3>. QED BY <3>1, <3>2
  <2>8. Flies(k, l)' => Once(Passed(l), s2c'[k])
    <3>1. ASSUME ClientHeld(k) PROVE Once(Passed(l), s2c'[k])
      <4>1. ~InSeq(Passed(l), s2c[k])
        BY <1>1, <2>6, <3>1 DEF Flies
      <4>. QED BY <1>1, <2>1, <2>2, <4>1, OnceSend
    <3>. QED BY <1>1, <1>4, <3>1 DEF Flies
  <2>9. OneHolder'
    BY <2>3 DEF AcceptInv, OneHolder
  <2>10. HeldOrFlying'
    BY <2>3, <2>5, <2>7 DEF AcceptInv, HeldOrFlying
  <2>11. OneFlight'
    BY <2>7, <2>8 DEF AcceptInv, OneFlight
  <2>12. TokenAway'
    <3>. SUFFICES ASSUME NEW m \in Sock, NEW q \in Proc, Waits(q, m)', c2s'[conn'[q]] = <<>>
                  PROVE  /\ \A r \in Proc : Holds(r, m)' => pc'[r] = "sizing" /\ conn'[r] = conn'[q]
                         /\ \A c \in Conn : Flies(c, m)' => c = conn'[q]
                         /\ \A r \in Proc : Waits(r, m)' /\ c2s'[conn'[r]] = <<>> => r = q
      BY DEF TokenAway
    <3>1. \A r \in Proc : Waits(r, m)' /\ c2s'[conn'[r]] = <<>> =>
            (r = p /\ m = l) \/ (Waits(r, m) /\ c2s[conn[r]] = <<>> /\ m # l)
      <4>. SUFFICES ASSUME NEW r \in Proc, Waits(r, m)', c2s'[conn'[r]] = <<>>, ~(r = p /\ m = l)
                    PROVE  Waits(r, m) /\ c2s[conn[r]] = <<>> /\ m # l
        OBVIOUS
      <4>1. Waits(r, m) /\ r # p
        BY <1>1, <2>3 DEF Waits
      <4>2. c2s[conn[r]] = <<>>
        BY <1>3, <4>1 DEF Waits
      <4>3. m # l
        BY <1>1, <2>4, <4>1, <4>2 DEF AcceptInv, TokenAway
      <4>. QED BY <4>1, <4>2, <4>3
    <3>2. CASE m = l
      BY <2>5, <2>7, <3>1, <3>2, <1>7
    <3>3. CASE m # l
      <4>1. Waits(q, m) /\ c2s[conn[q]] = <<>>
        BY <3>1, <3>3
      <4>2. ASSUME NEW r \in Proc, Holds(r, m)' PROVE pc'[r] = "sizing" /\ conn'[r] = conn'[q]
        <5>1. pc[r] = "sizing" /\ conn[r] = conn[q] /\ r # p
          BY <2>3, <4>1, <4>2 DEF AcceptInv, TokenAway
        <5>. QED BY <1>7, <5>1 DEF AcceptInv, TypeInv, TypeOK
      <4>3. \A c \in Conn : Flies(c, m)' => c = conn'[q]
        BY <1>7, <2>7, <3>3, <4>1 DEF AcceptInv, TokenAway
      <4>4. \A r \in Proc : Waits(r, m)' /\ c2s'[conn'[r]] = <<>> => r = q
        BY <3>1, <3>3, <4>1 DEF AcceptInv, TokenAway
      <4>. QED BY <4>2, <4>3, <4>4
    <3>. QED BY <3>2, <3>3
  <2>13. \A m \in Sock : ListenerOpen(m)' => ListenerOpen(m)
    <3>. SUFFICES ASSUME NEW m \in Sock, ListenerOpen(m)' PROVE ListenerOpen(m)
      OBVIOUS
    <3>1. \A c \in Conn, n \in Sock : Flies(c, n) => ListenerOpen(n)
      BY DEF Flies, InFlight, ListenerOpen, Passed
    <3>2. ListenerOpen(l)
      BY <1>1 DEF ListenerOpen
    <3>3. CASE InFlight(Passed(m))'
      <4>1. PICK c \in Conn : Flies(c, m)'
        BY <3>3 DEF InFlight, Flies, InSeq, Passed
      <4>. QED BY <2>7, <3>1, <3>2, <4>1
    <3>4. CASE \E q \in Proc : lsock'[q] = m \/ m \in leak'[q]
      BY <3>4 DEF TakeoverListener, ListenerOpen
    <3>. QED BY <3>3, <3>4 DEF ListenerOpen, Passed
  <2>14. OneServer' /\ Unserved'
    BY <1>5, <2>13, ServerFrame DEF SameServers
  <2>15. KeepsSize
    BY <1>1, <1>3 DEF KeepsSize
  <2>16. Continues
    BY <2>13, <2>15 DEF OpensEmpty, Continues
  <2>. QED BY <2>9, <2>10, <2>11, <2>12, <2>14, <2>16 DEF AcceptInv
<1>. QED BY <1>6, <1>7 DEF TakeoverListener, Passed

\* The client is gone before its size came: so is the token it had.
LEMMA TakeoverLostStep ==
  ASSUME AcceptInv, TypeInv', NEW p \in Proc, TakeoverLost(p)
  PROVE  AcceptInv' /\ Continues
<1>. DEFINE k == conn[p]
            l == lsock[p]
<1>1. k \in Conn /\ l \in Sock /\ pc[p] \in {"hsCmd", "hsSize"} /\ pc[p] \notin ClientPC
  BY DEF TakeoverLost, AcceptInv, TypeInv, RoleOK, ServerPC, ClientPC
<1>2. c2s[k] = <<>> /\ ~ClientHeld(k)
  BY DEF TakeoverLost, ClientOpen
<1>3. \A c \in Conn : c2s'[c] = c2s[c]
  BY <1>2 DEF TakeoverLost, Drops, Flush
<1>4. \A c \in Conn : (ClientHeld(c)' <=> ClientHeld(c)) /\ s2c' = s2c
  BY NoneAssumption DEF TakeoverLost, Drops, ClientHeld, ClientPC, AcceptInv, TypeInv, TypeOK
<1>5. KeepsServers /\ KeepsLeak /\ UNCHANGED <<backlog, lsock>>
  BY NoneAssumption DEF TakeoverLost, Drops, KeepsServers, KeepsLeak, ClientPC, sockVars,
     AcceptInv, TypeInv, TypeOK
<1>6. \A q \in Proc : q # p => pc'[q] = pc[q] /\ conn'[q] = conn[q]
  BY DEF TakeoverLost, Drops, AcceptInv, TypeInv, TypeOK
<1>7. pc'[p] = "loop"
  BY DEF TakeoverLost, Drops, AcceptInv, TypeInv, TypeOK
<1>8. CASE pc[p] = "hsCmd"
  <2>1. KeepsToken
    <3>1. \A q \in Proc : pc[q] = "hsSize" => conn[q] \in Conn
      BY DEF AcceptInv, TypeInv, RoleOK, ServerPC
    <3>. QED BY <1>3, <1>5, <1>6, <1>7, <1>8, <3>1 DEF KeepsToken
  <2>2. KeepsFlight
    BY <1>1, <1>4, FlushFlight
  <2>. QED BY <1>5, <2>1, <2>2, QuietStep DEF SameToken
<1>9. CASE pc[p] = "hsSize"
  <2>1. \A c \in Conn, m \in Sock : Flies(c, m)' <=> Flies(c, m)
    BY <1>1, <1>4 DEF Flies, InSeq, Passed
  <2>2. \A q \in Proc, m \in Sock :
          /\ Holds(q, m)' => Holds(q, m) \/ (q = p /\ m = l)
          /\ Waits(q, m)' => Waits(q, m) /\ q # p
    BY <1>5, <1>6, <1>7 DEF Holds, Waits
  <2>3. Waits(p, l) /\ c2s[conn[p]] = <<>>
    BY <1>2, <1>9 DEF Waits
  <2>4. \A q \in Proc : ~Holds(q, l)
    BY <1>1, <1>2, <2>3 DEF AcceptInv, TokenAway, ClientHeld, ClientPC
  <2>5. \A c \in Conn : ~Flies(c, l)
    BY <1>1, <1>2, <2>3 DEF AcceptInv, TokenAway, Flies
  <2>6. OneHolder' /\ HeldOrFlying'
    BY <2>1, <2>2, <2>4, <2>5 DEF AcceptInv, OneHolder, HeldOrFlying
  <2>7. OneFlight'
    BY <1>1, <1>4, <2>1 DEF AcceptInv, OneFlight
  <2>8. TokenAway'
    <3>. SUFFICES ASSUME NEW m \in Sock, NEW q \in Proc, Waits(q, m)', c2s'[conn'[q]] = <<>>
                  PROVE  /\ \A r \in Proc : Holds(r, m)' => pc'[r] = "sizing" /\ conn'[r] = conn'[q]
                         /\ \A c \in Conn : Flies(c, m)' => c = conn'[q]
                         /\ \A r \in Proc : Waits(r, m)' /\ c2s'[conn'[r]] = <<>> => r = q
      BY DEF TokenAway
    <3>1. \A r \in Proc : Waits(r, m)' /\ c2s'[conn'[r]] = <<>> =>
            Waits(r, m) /\ c2s[conn[r]] = <<>> /\ r # p /\ conn'[r] = conn[r]
      <4>1. \A r \in Proc : Waits(r, m) => conn[r] \in Conn
        BY DEF Waits, AcceptInv, TypeInv, RoleOK, ServerPC
      <4>. QED BY <1>3, <1>6, <2>2, <4>1
    <3>2. m # l
      BY <1>1, <2>3, <3>1 DEF AcceptInv, TokenAway
    <3>3. ASSUME NEW r \in Proc, Holds(r, m)' PROVE pc'[r] = "sizing" /\ conn'[r] = conn'[q]
      <4>1. Holds(r, m) /\ r # p
        BY <1>1, <1>9, <2>2, <3>2, <3>3 DEF Holds
      <4>2. pc[r] = "sizing" /\ conn[r] = conn[q]
        BY <3>1, <4>1 DEF AcceptInv, TokenAway
      <4>. QED BY <1>6, <3>1, <4>1, <4>2
    <3>. QED BY <2>1, <3>1, <3>3 DEF AcceptInv, TokenAway
  <2>9. OneServer' /\ Unserved' /\ Continues
    <3>1. \A m \in Sock : ListenerOpen(m)' => ListenerOpen(m)
      BY <1>1, <1>4 DEF TakeoverLost, ListenerOpen, InFlight, InSeq
    <3>2. KeepsSize
      <4>1. \A q \in Proc : pc[q] = "hsSize" => conn[q] \in Conn
        BY DEF AcceptInv, TypeInv, RoleOK, ServerPC
      <4>. QED BY <1>3, <1>6, <1>7, <4>1 DEF KeepsSize
    <3>3. Continues
      BY <3>1, <3>2 DEF OpensEmpty, Continues
    <3>. QED BY <1>5, <3>1, <3>3, ServerFrame DEF SameServers
  <2>. QED BY <2>6, <2>7, <2>8, <2>9 DEF AcceptInv
<1>. QED BY <1>1, <1>8, <1>9

\* Every step keeps the tokens in order.
LEMMA AcceptNext == AcceptInv /\ [Next]_vars => AcceptInv' /\ Continues
<1>. SUFFICES ASSUME AcceptInv, [Next]_vars
              PROVE  AcceptInv' /\ Continues
  OBVIOUS
<1>. USE NoneAssumption
<1>0. TypeInv'
  BY TypeNext DEF AcceptInv
<1>1. ASSUME NEW p \in Proc, ListenRefused(p) PROVE AcceptInv' /\ Continues
  <2>1. PICK k \in Conn : /\ FreeConn(k)
                           /\ backlog' = Send(backlog, path, k)
                           /\ c2s' = Flush(c2s, {k})
                           /\ s2c' = Flush(s2c, {k})
    BY <1>1 DEF ListenRefused
  <2>2. KeepsToken
    <3>1. \A q \in Proc : pc[q] = "hsSize" => conn[q] # k
      BY <2>1 DEF FreeConn, ServerOpen, ServerHeld, ClientPC
    <3>2. \A q \in Proc : pc[q] = "hsSize" => c2s'[conn[q]] = c2s[conn[q]]
      BY <2>1, <3>1 DEF Flush, AcceptInv, TypeInv, RoleOK, ServerPC
    <3>. QED BY <1>1, <3>2 DEF ListenRefused, KeepsToken, procVars
  <2>3. KeepsFlight
    <3>1. \A c \in Conn : ClientHeld(c)' => ClientHeld(c)
      BY <1>1 DEF ListenRefused, ClientHeld, procVars
    <3>. QED BY <2>1, <3>1, FlushFlight
  <2>4. KeepsServers /\ KeepsLeak /\ Connectable(path)
    BY <1>1 DEF ListenRefused, KeepsServers, KeepsLeak, procVars
  <2>. QED BY <1>0, <2>1, <2>2, <2>3, <2>4, ConnectStep DEF SameToken
<1>2. ASSUME NEW p \in Proc, AttachConnect(p) PROVE AcceptInv' /\ Continues
  <2>1. PICK k \in Conn : /\ FreeConn(k)
                           /\ conn' = [conn EXCEPT ![p] = k]
                           /\ backlog' = Send(backlog, path, k)
                           /\ c2s' = Send(Flush(c2s, {k}), k, "?")
                           /\ s2c' = Flush(s2c, {k})
    BY <1>2 DEF AttachConnect
  <2>2. KeepsToken
    <3>1. \A q \in Proc : pc[q] = "hsSize" => conn[q] # k
      BY <2>1 DEF FreeConn, ServerOpen, ServerHeld, ClientPC
    <3>2. \A q \in Proc : pc[q] = "hsSize" => c2s'[conn[q]] = c2s[conn[q]]
      BY <2>1, <3>1 DEF Flush, Send, AcceptInv, TypeInv, RoleOK, ServerPC
    <3>. QED BY <1>2, <3>2 DEF AttachConnect, KeepsToken, AcceptInv, TypeInv, TypeOK
  <2>3. KeepsFlight
    <3>1. \A c \in Conn : ClientHeld(c)' => ClientHeld(c) \/ c = k
      BY <1>2, <2>1 DEF AttachConnect, ClientHeld, AcceptInv, TypeInv, TypeOK
    <3>2. \A c \in Conn : s2c'[c] = IF c = k THEN <<>> ELSE s2c[c]
      BY <2>1 DEF Flush
    <3>. QED BY <3>1, <3>2, SameFewer DEF KeepsFlight
  <2>4. KeepsServers /\ KeepsLeak /\ Connectable(path)
    BY <1>2 DEF AttachConnect, KeepsServers, KeepsLeak, ClientPC, AcceptInv, TypeInv, TypeOK
  <2>. QED BY <1>0, <2>1, <2>2, <2>3, <2>4, ConnectStep DEF SameToken
<1>3. ASSUME NEW p \in Proc, Accept(p) PROVE AcceptInv' /\ Continues
  BY <1>3, <1>0, AcceptStep DEF Accept
<1>4. ASSUME NEW p \in Proc, DaemonAccept(p) PROVE AcceptInv' /\ Continues
  BY <1>4, <1>0, AcceptStep DEF DaemonAccept
<1>5. ASSUME NEW p \in Proc, ListenBind(p) PROVE AcceptInv' /\ Continues
  <2>1. PICK l \in Sock : Binds(p, l)
    BY <1>5 DEF ListenBind
  <2>. QED BY <1>5, <1>0, <2>1, BindStep DEF ListenBind
<1>6. ASSUME NEW p \in Proc, RebindBind(p) PROVE AcceptInv' /\ Continues
  <2>1. PICK l \in Sock : Binds(p, l)
    BY <1>6 DEF RebindBind
  <2>. QED BY <1>6, <1>0, <2>1, BindStep DEF RebindBind
<1>7. ASSUME NEW p \in Proc, AttachRefused(p) PROVE AcceptInv' /\ Continues
  BY <1>7, <1>0, GoneAccept DEF AttachRefused, Quits
<1>8. ASSUME NEW p \in Proc, ObserveEnd(p) PROVE AcceptInv' /\ Continues
  BY <1>8, <1>0, GoneAccept DEF ObserveEnd, Quits
<1>9. ASSUME NEW p \in Proc, ObserveLeave(p) PROVE AcceptInv' /\ Continues
  BY <1>9, <1>0, GoneAccept DEF ObserveLeave, Quits
<1>10. ASSUME NEW p \in Proc, AttachLost(p) PROVE AcceptInv' /\ Continues
  BY <1>10, <1>0, GoneAccept DEF AttachLost, sockVars
<1>11. ASSUME NEW p \in Proc, BindFails(p) PROVE AcceptInv' /\ Continues
  BY <1>11, <1>0, GoneAccept DEF BindFails, sockVars
<1>12. ASSUME NEW p \in Proc, DaemonExit(p) PROVE AcceptInv' /\ Continues
  BY <1>12, <1>0, GoneAccept DEF DaemonExit, sockVars
<1>13. ASSUME NEW p \in Proc, Crash(p) PROVE AcceptInv' /\ Continues
  BY <1>13, <1>0, GoneAccept DEF Crash, sockVars
<1>14. ASSUME NEW p \in Proc, Quit(p) PROVE AcceptInv' /\ Continues
  BY <1>14, <1>0, GoneAccept DEF Quit, Quits
<1>15. ASSUME NEW p \in Proc, ListenProbe(p) PROVE AcceptInv' /\ Continues
  <2>1. KeepsToken
    BY <1>15 DEF ListenProbe, KeepsToken, procVars, AcceptInv, TypeInv, TypeOK
  <2>2. KeepsFlight
    <3>1. \A k \in Conn : ClientHeld(k)' => ClientHeld(k)
      BY <1>15 DEF ListenProbe, ClientHeld, ClientPC, procVars, AcceptInv, TypeInv, TypeOK
    <3>. QED BY <1>15, <3>1, FlushFlight DEF ListenProbe
  <2>3. KeepsServers /\ KeepsLeak /\ UNCHANGED backlog
    BY <1>15 DEF ListenProbe, KeepsServers, KeepsLeak, ClientPC, procVars, sockVars, AcceptInv, TypeInv, TypeOK
  <2>. QED BY <1>0, <2>1, <2>2, <2>3, QuietStep DEF SameToken
<1>16. ASSUME NEW p \in Proc, ListenUnlink(p) PROVE AcceptInv' /\ Continues
  <2>1. KeepsToken
    BY <1>16 DEF ListenUnlink, KeepsToken, procVars, AcceptInv, TypeInv, TypeOK
  <2>2. KeepsFlight
    <3>1. \A k \in Conn : ClientHeld(k)' => ClientHeld(k)
      BY <1>16 DEF ListenUnlink, ClientHeld, ClientPC, procVars, AcceptInv, TypeInv, TypeOK
    <3>. QED BY <1>16, <3>1, FlushFlight DEF ListenUnlink
  <2>3. KeepsServers /\ KeepsLeak /\ UNCHANGED backlog
    BY <1>16 DEF ListenUnlink, KeepsServers, KeepsLeak, ClientPC, procVars, sockVars, AcceptInv, TypeInv, TypeOK
  <2>. QED BY <1>0, <2>1, <2>2, <2>3, QuietStep DEF SameToken
<1>17. ASSUME NEW p \in Proc, RebindUnlink(p) PROVE AcceptInv' /\ Continues
  <2>1. KeepsToken
    BY <1>17 DEF RebindUnlink, KeepsToken, procVars, AcceptInv, TypeInv, TypeOK
  <2>2. KeepsFlight
    <3>1. \A k \in Conn : ClientHeld(k)' => ClientHeld(k)
      BY <1>17 DEF RebindUnlink, ClientHeld, ClientPC, procVars, AcceptInv, TypeInv, TypeOK
    <3>. QED BY <1>17, <3>1, FlushFlight DEF RebindUnlink
  <2>3. KeepsServers /\ KeepsLeak /\ UNCHANGED backlog
    BY <1>17 DEF RebindUnlink, KeepsServers, KeepsLeak, ClientPC, procVars, sockVars, AcceptInv, TypeInv, TypeOK
  <2>. QED BY <1>0, <2>1, <2>2, <2>3, QuietStep DEF SameToken
<1>18. ASSUME NEW p \in Proc, BecomeObserver(p) PROVE AcceptInv' /\ Continues
  <2>1. KeepsToken
    BY <1>18 DEF BecomeObserver, KeepsToken, procVars, AcceptInv, TypeInv, TypeOK
  <2>2. KeepsFlight
    <3>1. \A k \in Conn : ClientHeld(k)' => ClientHeld(k)
      BY <1>18 DEF BecomeObserver, ClientHeld, ClientPC, procVars, AcceptInv, TypeInv, TypeOK
    <3>. QED BY <1>18, <3>1, FlushFlight DEF BecomeObserver
  <2>3. KeepsServers /\ KeepsLeak /\ UNCHANGED backlog
    BY <1>18 DEF BecomeObserver, KeepsServers, KeepsLeak, ClientPC, procVars, sockVars, AcceptInv, TypeInv, TypeOK
  <2>. QED BY <1>0, <2>1, <2>2, <2>3, QuietStep DEF SameToken
<1>19. ASSUME NEW p \in Proc, Drain(p) PROVE AcceptInv' /\ Continues
  <2>1. KeepsToken
    BY <1>19 DEF Drain, KeepsToken, procVars, AcceptInv, TypeInv, TypeOK
  <2>2. KeepsFlight
    <3>1. \A k \in Conn : ClientHeld(k)' => ClientHeld(k)
      BY <1>19 DEF Drain, ClientHeld, ClientPC, procVars, AcceptInv, TypeInv, TypeOK
    <3>. QED BY <1>19, <3>1, FlushFlight DEF Drain
  <2>3. KeepsServers /\ KeepsLeak /\ UNCHANGED backlog
    BY <1>19 DEF Drain, KeepsServers, KeepsLeak, ClientPC, procVars, sockVars, AcceptInv, TypeInv, TypeOK
  <2>. QED BY <1>0, <2>1, <2>2, <2>3, QuietStep DEF SameToken
<1>20. ASSUME NEW p \in Proc, NewWindow(p) PROVE AcceptInv' /\ Continues
  <2>1. KeepsToken
    BY <1>20 DEF NewWindow, KeepsToken, procVars, AcceptInv, TypeInv, TypeOK
  <2>2. KeepsFlight
    <3>1. \A k \in Conn : ClientHeld(k)' => ClientHeld(k)
      BY <1>20 DEF NewWindow, ClientHeld, ClientPC, procVars, AcceptInv, TypeInv, TypeOK
    <3>. QED BY <1>20, <3>1, FlushFlight DEF NewWindow
  <2>3. KeepsServers /\ KeepsLeak /\ UNCHANGED backlog
    BY <1>20 DEF NewWindow, KeepsServers, KeepsLeak, ClientPC, procVars, sockVars, AcceptInv, TypeInv, TypeOK
  <2>. QED BY <1>0, <2>1, <2>2, <2>3, QuietStep DEF SameToken
<1>21. ASSUME NEW p \in Proc, ObserverGone(p) PROVE AcceptInv' /\ Continues
  <2>1. KeepsToken
    BY <1>21 DEF ObserverGone, KeepsToken, procVars, AcceptInv, TypeInv, TypeOK
  <2>2. KeepsFlight
    <3>1. \A k \in Conn : ClientHeld(k)' => ClientHeld(k)
      BY <1>21 DEF ObserverGone, ClientHeld, ClientPC, procVars, AcceptInv, TypeInv, TypeOK
    <3>. QED BY <1>21, <3>1, FlushFlight DEF ObserverGone
  <2>3. KeepsServers /\ KeepsLeak /\ UNCHANGED backlog
    BY <1>21 DEF ObserverGone, KeepsServers, KeepsLeak, ClientPC, procVars, sockVars, AcceptInv, TypeInv, TypeOK
  <2>. QED BY <1>0, <2>1, <2>2, <2>3, QuietStep DEF SameToken
<1>22. ASSUME NEW p \in Proc, AttachQuery(p) PROVE AcceptInv' /\ Continues
  <2>1. KeepsToken
    <3>1. \A q \in Proc : pc[q] = "hsSize" /\ c2s'[conn[q]] = <<>> => c2s[conn[q]] = <<>>
      BY <1>22, WriteKeeps DEF AttachQuery, RoleOK, ServerPC, AcceptInv, TypeInv, TypeOK
    <3>. QED BY <1>22, <3>1 DEF AttachQuery, KeepsToken, procVars, AcceptInv, TypeInv, TypeOK
  <2>2. KeepsFlight
    <3>1. \A k \in Conn : ClientHeld(k)' => ClientHeld(k)
      BY <1>22 DEF AttachQuery, ClientHeld, ClientPC, procVars, AcceptInv, TypeInv, TypeOK
    <3>2. conn[p] \in Conn /\ s2c[conn[p]] # <<>> /\ s2c' = Recv(s2c, conn[p])
      BY <1>22 DEF AttachQuery, RoleOK, ClientPC, AcceptInv, TypeInv
    <3>3. \A k \in Conn : s2c[k] \in Seq(Reply)
      BY DEF Replies, AcceptInv, TypeInv, TypeOK
    <3>4. \A k \in Conn : s2c'[k] = IF k = conn[p] THEN Tail(s2c[k]) ELSE s2c[k]
      BY <3>2 DEF Recv, Replies, AcceptInv, TypeInv, TypeOK
    <3>5. \A k \in Conn : Fewer(s2c'[k], s2c[k])
      BY <3>2, <3>3, <3>4, SameFewer, FewerRecv
    <3>. QED BY <3>1, <3>5 DEF KeepsFlight
  <2>3. KeepsServers /\ KeepsLeak /\ UNCHANGED backlog
    BY <1>22 DEF AttachQuery, KeepsServers, KeepsLeak, ClientPC, procVars, sockVars, AcceptInv, TypeInv, TypeOK
  <2>. QED BY <1>0, <2>1, <2>2, <2>3, QuietStep DEF SameToken
<1>23. ASSUME NEW p \in Proc, AttachSession(p) PROVE AcceptInv' /\ Continues
  <2>1. KeepsToken
    <3>1. \A q \in Proc : pc[q] = "hsSize" /\ c2s'[conn[q]] = <<>> => c2s[conn[q]] = <<>>
      BY <1>23, WriteKeeps DEF AttachSession, RoleOK, ServerPC, AcceptInv, TypeInv, TypeOK
    <3>. QED BY <1>23, <3>1 DEF AttachSession, KeepsToken, procVars, AcceptInv, TypeInv, TypeOK
  <2>2. KeepsFlight
    <3>1. \A k \in Conn : ClientHeld(k)' => ClientHeld(k)
      BY <1>23 DEF AttachSession, ClientHeld, ClientPC, procVars, AcceptInv, TypeInv, TypeOK
    <3>2. conn[p] \in Conn /\ s2c[conn[p]] # <<>> /\ s2c' = Recv(s2c, conn[p])
      BY <1>23 DEF AttachSession, RoleOK, ClientPC, AcceptInv, TypeInv
    <3>3. \A k \in Conn : s2c[k] \in Seq(Reply)
      BY DEF Replies, AcceptInv, TypeInv, TypeOK
    <3>4. \A k \in Conn : s2c'[k] = IF k = conn[p] THEN Tail(s2c[k]) ELSE s2c[k]
      BY <3>2 DEF Recv, Replies, AcceptInv, TypeInv, TypeOK
    <3>5. \A k \in Conn : Fewer(s2c'[k], s2c[k])
      BY <3>2, <3>3, <3>4, SameFewer, FewerRecv
    <3>. QED BY <3>1, <3>5 DEF KeepsFlight
  <2>3. KeepsServers /\ KeepsLeak /\ UNCHANGED backlog
    BY <1>23 DEF AttachSession, KeepsServers, KeepsLeak, ClientPC, procVars, sockVars, AcceptInv, TypeInv, TypeOK
  <2>. QED BY <1>0, <2>1, <2>2, <2>3, QuietStep DEF SameToken
<1>24. ASSUME NEW p \in Proc, Detach(p) PROVE AcceptInv' /\ Continues
  <2>1. KeepsToken
    <3>1. \A q \in Proc : pc[q] = "hsSize" /\ c2s'[conn[q]] = <<>> => c2s[conn[q]] = <<>>
      BY <1>24, WriteKeeps DEF Detach, RoleOK, ServerPC, AcceptInv, TypeInv, TypeOK
    <3>. QED BY <1>24, <3>1 DEF Detach, Looping, KeepsToken, procVars, AcceptInv, TypeInv, TypeOK
  <2>2. KeepsFlight
    <3>1. \A k \in Conn : ClientHeld(k)' => ClientHeld(k)
      BY <1>24 DEF Detach, ClientHeld, ClientPC, procVars, AcceptInv, TypeInv, TypeOK
    <3>. QED BY <1>24, <3>1, FlushFlight DEF Detach
  <2>3. KeepsServers /\ KeepsLeak /\ UNCHANGED backlog
    BY <1>24 DEF Detach, Looping, KeepsServers, KeepsLeak, ClientPC, procVars, sockVars, AcceptInv, TypeInv, TypeOK
  <2>. QED BY <1>0, <2>1, <2>2, <2>3, QuietStep DEF SameToken
<1>25. ASSUME NEW p \in Proc, TakeoverSession(p) PROVE AcceptInv' /\ Continues
  <2>1. KeepsToken
    <3>1. pc[p] \notin ClientPC /\ conn[p] \in Conn
      BY <1>25 DEF TakeoverSession, ClientPC, ServerPC, RoleOK, AcceptInv, TypeInv
    <3>2. \A k \in Conn : k # conn[p] => c2s'[k] = c2s[k]
      BY <1>25, <3>1 DEF TakeoverSession, Drops, Recv, Flush, Requests, AcceptInv, TypeInv, TypeOK
    <3>3. \A q \in Proc : q # p /\ pc[q] = "hsSize" => c2s'[conn[q]] = c2s[conn[q]]
      BY <3>1, <3>2, OtherConn
    <3>. QED BY <1>25, <3>3 DEF TakeoverSession, Drops, KeepsToken, procVars, AcceptInv, TypeInv, TypeOK
  <2>2. KeepsFlight
    <3>1. \A k \in Conn : ClientHeld(k)' => ClientHeld(k)
      BY <1>25 DEF TakeoverSession, Drops, ClientHeld, ClientPC, procVars, AcceptInv, TypeInv, TypeOK
    <3>2. CASE s2c' = Send(s2c, conn[p], [type |-> "sess", win |-> win[p]])
      <4>1. [type |-> "sess", win |-> win[p]] \in Reply /\ [type |-> "sess", win |-> win[p]].type # "lsock"
        BY DEF Reply, AcceptInv, TypeInv, TypeOK
      <4>3. \A k \in Conn : Fewer(s2c'[k], s2c[k])
        BY <3>2, <4>1, FewerSent DEF AcceptInv, TypeInv, TypeOK
      <4>. QED BY <3>1, <4>3 DEF KeepsFlight
    <3>3. CASE UNCHANGED s2c
      BY <3>1, <3>3, FlushFlight
    <3>. QED BY <1>25, <3>2, <3>3 DEF TakeoverSession
  <2>3. KeepsServers /\ KeepsLeak /\ UNCHANGED backlog
    BY <1>25 DEF TakeoverSession, Drops, KeepsServers, KeepsLeak, ClientPC, procVars, sockVars, AcceptInv, TypeInv, TypeOK
  <2>. QED BY <1>0, <2>1, <2>2, <2>3, QuietStep DEF SameToken
<1>26. ASSUME NEW p \in Proc, DaemonSession(p) PROVE AcceptInv' /\ Continues
  <2>1. KeepsToken
    <3>1. pc[p] \notin ClientPC /\ conn[p] \in Conn
      BY <1>26 DEF DaemonSession, ClientPC, ServerPC, RoleOK, AcceptInv, TypeInv
    <3>2. \A k \in Conn : k # conn[p] => c2s'[k] = c2s[k]
      BY <1>26, <3>1 DEF DaemonSession, Drops, Recv, Flush, Requests, AcceptInv, TypeInv, TypeOK
    <3>3. \A q \in Proc : q # p /\ pc[q] = "hsSize" => c2s'[conn[q]] = c2s[conn[q]]
      BY <3>1, <3>2, OtherConn
    <3>. QED BY <1>26, <3>3 DEF DaemonSession, Drops, KeepsToken, procVars, AcceptInv, TypeInv, TypeOK
  <2>2. KeepsFlight
    <3>1. \A k \in Conn : ClientHeld(k)' => ClientHeld(k)
      BY <1>26 DEF DaemonSession, Drops, ClientHeld, ClientPC, procVars, AcceptInv, TypeInv, TypeOK
    <3>2. CASE s2c' = Send(s2c, conn[p], [type |-> "sess", win |-> win[p]])
      <4>1. [type |-> "sess", win |-> win[p]] \in Reply /\ [type |-> "sess", win |-> win[p]].type # "lsock"
        BY DEF Reply, AcceptInv, TypeInv, TypeOK
      <4>3. \A k \in Conn : Fewer(s2c'[k], s2c[k])
        BY <3>2, <4>1, FewerSent DEF AcceptInv, TypeInv, TypeOK
      <4>. QED BY <3>1, <4>3 DEF KeepsFlight
    <3>3. CASE UNCHANGED s2c
      BY <3>1, <3>3, FlushFlight
    <3>. QED BY <1>26, <3>2, <3>3 DEF DaemonSession
  <2>3. KeepsServers /\ KeepsLeak /\ UNCHANGED backlog
    BY <1>26 DEF DaemonSession, KeepsServers, KeepsLeak, ClientPC, procVars, sockVars, AcceptInv, TypeInv, TypeOK
  <2>. QED BY <1>0, <2>1, <2>2, <2>3, QuietStep DEF SameToken
<1>27. ASSUME NEW p \in Proc, TakeoverDone(p) PROVE AcceptInv' /\ Continues
  <2>1. KeepsToken
    <3>1. pc[p] \notin ClientPC /\ conn[p] \in Conn
      BY <1>27 DEF TakeoverDone, ClientPC, ServerPC, RoleOK, AcceptInv, TypeInv
    <3>2. \A k \in Conn : k # conn[p] => c2s'[k] = c2s[k]
      BY <1>27, <3>1 DEF TakeoverDone, Drops, Recv, Flush, Requests, AcceptInv, TypeInv, TypeOK
    <3>3. \A q \in Proc : q # p /\ pc[q] = "hsSize" => c2s'[conn[q]] = c2s[conn[q]]
      BY <3>1, <3>2, OtherConn
    <3>. QED BY <1>27, <3>3 DEF TakeoverDone, Drops, KeepsToken, procVars, AcceptInv, TypeInv, TypeOK
  <2>2. KeepsFlight
    <3>1. \A k \in Conn : ClientHeld(k)' => ClientHeld(k)
      BY <1>27 DEF TakeoverDone, ClientHeld, ClientPC, procVars, AcceptInv, TypeInv, TypeOK
    <3>. QED BY <1>27, <3>1, FlushFlight DEF TakeoverDone
  <2>3. KeepsServers /\ KeepsLeak /\ UNCHANGED backlog
    BY <1>27 DEF TakeoverDone, KeepsServers, KeepsLeak, ClientPC, procVars, sockVars, AcceptInv, TypeInv, TypeOK
  <2>. QED BY <1>0, <2>1, <2>2, <2>3, QuietStep DEF SameToken
<1>28. ASSUME NEW p \in Proc, DaemonDrop(p) PROVE AcceptInv' /\ Continues
  <2>1. KeepsToken
    <3>1. pc[p] \notin ClientPC /\ conn[p] \in Conn
      BY <1>28 DEF DaemonDrop, ClientPC, ServerPC, RoleOK, AcceptInv, TypeInv
    <3>2. \A k \in Conn : k # conn[p] => c2s'[k] = c2s[k]
      BY <1>28, <3>1 DEF DaemonDrop, Drops, Recv, Flush, Requests, AcceptInv, TypeInv, TypeOK
    <3>3. \A q \in Proc : q # p /\ pc[q] = "hsSize" => c2s'[conn[q]] = c2s[conn[q]]
      BY <3>1, <3>2, OtherConn
    <3>. QED BY <1>28, <3>3 DEF DaemonDrop, Drops, KeepsToken, procVars, AcceptInv, TypeInv, TypeOK
  <2>2. KeepsFlight
    <3>1. \A k \in Conn : ClientHeld(k)' => ClientHeld(k)
      BY <1>28 DEF DaemonDrop, Drops, ClientHeld, ClientPC, procVars, AcceptInv, TypeInv, TypeOK
    <3>. QED BY <1>28, <3>1, FlushFlight DEF DaemonDrop
  <2>3. KeepsServers /\ KeepsLeak /\ UNCHANGED backlog
    BY <1>28 DEF DaemonDrop, Drops, KeepsServers, KeepsLeak, ClientPC, procVars, sockVars, AcceptInv, TypeInv, TypeOK
  <2>. QED BY <1>0, <2>1, <2>2, <2>3, QuietStep DEF SameToken
<1>29. ASSUME NEW p \in Proc, ObserveBye(p) PROVE AcceptInv' /\ Continues
  <2>1. KeepsToken
    <3>1. pc[p] \notin ClientPC /\ conn[p] \in Conn
      BY <1>29 DEF ObserveBye, ClientPC, ServerPC, RoleOK, AcceptInv, TypeInv
    <3>2. \A k \in Conn : k # conn[p] => c2s'[k] = c2s[k]
      BY <1>29, <3>1 DEF ObserveBye, Drops, Recv, Flush, Requests, AcceptInv, TypeInv, TypeOK
    <3>3. \A q \in Proc : q # p /\ pc[q] = "hsSize" => c2s'[conn[q]] = c2s[conn[q]]
      BY <3>1, <3>2, OtherConn
    <3>. QED BY <1>29, <3>3 DEF ObserveBye, Drops, KeepsToken, procVars, AcceptInv, TypeInv, TypeOK
  <2>2. KeepsFlight
    <3>1. \A k \in Conn : ClientHeld(k)' => ClientHeld(k)
      BY <1>29 DEF ObserveBye, Drops, ClientHeld, ClientPC, procVars, AcceptInv, TypeInv, TypeOK
    <3>. QED BY <1>29, <3>1, FlushFlight DEF ObserveBye
  <2>3. KeepsServers /\ KeepsLeak /\ UNCHANGED backlog
    BY <1>29 DEF ObserveBye, Drops, KeepsServers, KeepsLeak, ClientPC, procVars, sockVars, AcceptInv, TypeInv, TypeOK
  <2>. QED BY <1>0, <2>1, <2>2, <2>3, QuietStep DEF SameToken
<1>30. ASSUME NEW p \in Proc, CloseWindow(p) PROVE AcceptInv' /\ Continues
  <2>1. CASE Gone(p) /\ UNCHANGED backlog
    BY <1>0, <2>1, GoneAccept
  <2>2. CASE UNCHANGED <<pc, conn, obs, lsock, leak, stray, sockVars, c2s, s2c>>
    <3>1. KeepsToken /\ KeepsServers /\ KeepsLeak /\ UNCHANGED backlog
      BY <2>2 DEF KeepsToken, KeepsServers, KeepsLeak, sockVars
    <3>2. KeepsFlight
      BY <2>2, FlushFlight DEF ClientHeld
    <3>. QED BY <1>0, <3>1, <3>2, QuietStep DEF SameToken
  <2>. QED BY <1>30, <2>1, <2>2 DEF CloseWindow, Frees, Quits
<1>31. ASSUME NEW p \in Proc, Reap(p) PROVE AcceptInv' /\ Continues
  <2>1. CASE Gone(p) /\ UNCHANGED backlog
    BY <1>0, <2>1, GoneAccept
  <2>2. CASE UNCHANGED <<pc, conn, obs, lsock, leak, stray, sockVars, c2s, s2c>>
    <3>1. KeepsToken /\ KeepsServers /\ KeepsLeak /\ UNCHANGED backlog
      BY <2>2 DEF KeepsToken, KeepsServers, KeepsLeak, sockVars
    <3>2. KeepsFlight
      BY <2>2, FlushFlight DEF ClientHeld
    <3>. QED BY <1>0, <3>1, <3>2, QuietStep DEF SameToken
  <2>. QED BY <1>31, <2>1, <2>2 DEF Reap, Frees, Quits
<1>32. ASSUME NEW g \in Prog, ProgWrites(g) PROVE AcceptInv' /\ Continues
  <2>1. KeepsToken /\ KeepsServers /\ KeepsLeak /\ UNCHANGED backlog
    BY <1>32 DEF ProgWrites, KeepsToken, KeepsServers, KeepsLeak, procVars, sockVars
  <2>2. KeepsFlight
    BY <1>32, FlushFlight DEF ProgWrites, ClientHeld, procVars
  <2>. QED BY <1>0, <2>1, <2>2, QuietStep DEF SameToken
<1>33. ASSUME NEW g \in Prog, Ends(g) PROVE AcceptInv' /\ Continues
  <2>1. KeepsToken /\ KeepsServers /\ KeepsLeak /\ UNCHANGED backlog
    BY <1>33 DEF Ends, KeepsToken, KeepsServers, KeepsLeak, procVars, sockVars
  <2>2. KeepsFlight
    BY <1>33, FlushFlight DEF Ends, ClientHeld, procVars
  <2>. QED BY <1>0, <2>1, <2>2, QuietStep DEF SameToken
<1>34. ASSUME NEW p \in Proc, AttachListener(p) PROVE AcceptInv' /\ Continues
  BY <1>34, <1>0, AttachListenerStep
<1>35. ASSUME NEW p \in Proc, AttachSize(p) PROVE AcceptInv' /\ Continues
  BY <1>35, <1>0, AttachSizeStep
<1>36. ASSUME NEW p \in Proc, TakeoverListener(p) PROVE AcceptInv' /\ Continues
  BY <1>36, <1>0, TakeoverListenerStep
<1>37. ASSUME NEW p \in Proc, TakeoverLost(p) PROVE AcceptInv' /\ Continues
  BY <1>37, <1>0, TakeoverLostStep
<1>38. CASE UNCHANGED vars
  <2>1. KeepsToken /\ KeepsServers /\ KeepsLeak /\ UNCHANGED backlog
    BY <1>38 DEF vars, KeepsToken, KeepsServers, KeepsLeak
  <2>2. KeepsFlight
    BY <1>38, FlushFlight DEF vars, ClientHeld
  <2>. QED BY <1>0, <2>1, <2>2, QuietStep DEF SameToken
<1>. QED
  BY <1>1, <1>2, <1>3, <1>4, <1>5, <1>6, <1>7, <1>8, <1>9, <1>10, <1>11, <1>12, <1>13, <1>14, <1>15, <1>16, <1>17, <1>18, <1>19, <1>20, <1>21, <1>22, <1>23, <1>24, <1>25, <1>26, <1>27, <1>28, <1>29, <1>30, <1>31, <1>32, <1>33, <1>34, <1>35, <1>36, <1>37, <1>38
  DEF Next, AttachStep, ServeStep, DaemonStep, ObserveStep, UserStep, LoopStep,
      ProgExits, HangUp

\* Two processes never accept on one socket: the takeover hands the right on
\* and takes it back only when the client is gone with it.
THEOREM SingleAcceptor == Spec => []OneAcceptor
<1>1. Init => AcceptInv
  BY AcceptInit
<1>2. AcceptInv /\ [Next]_vars => AcceptInv'
  BY AcceptNext
<1>3. AcceptInv => OneAcceptor
  BY NoneAssumption DEF AcceptInv, OneHolder, Holds, OneAcceptor, TypeInv, TypeOK
<1>. QED BY <1>1, <1>2, <1>3, PTL DEF Spec

-----------------------------------------------------------------------------
(* Who has a window.                                                       *)

Has(p, g) == \E w \in win[p] : w.prog = g

\* Messages on a connection: of one kind, or with a window.
OfType(t, q) == \E i \in DOMAIN q : q[i].type = t
Lists(m, g) == m.type = "sess" /\ \E w \in m.win : w.prog = g
Carries(q, g) == \E i \in DOMAIN q : Lists(q[i], g)
Carried(k, g) == ClientHeld(k) /\ Carries(s2c[k], g)
Single(q) == \A i, j \in DOMAIN q : q[i].type = "sess" /\ q[j].type = "sess" => i = j

\* A process that has given its windows away for good: it waits to be told, or
\* it waits for a size that is there.
Away(p) == \/ pc[p] \in {"handed", "dAck"}
           \/ pc[p] = "daemon" /\ lsock[p] = None
           \/ pc[p] = "hsSize" /\ c2s[conn[p]] # <<>>
Offers(p, k) == pc[p] \in {"hsAck", "hsSize"} /\ conn[p] = k
Takes(p, k)  == pc[p] \in {"sock", "sizing"} /\ conn[p] = k
Passing(p, q) == \E k \in Conn : Offers(p, k) /\ Takes(q, k)

OneOwner ==
  \A p, q \in Proc, g \in Prog : p # q /\ Has(p, g) /\ Has(q, g) =>
    Away(p) \/ Away(q) \/ Passing(p, q) \/ Passing(q, p)
OwnerOrCarried ==
  \A k \in Conn, p \in Proc, g \in Prog :
    Carried(k, g) /\ Has(p, g) => Away(p) \/ Offers(p, k)
OneCarrier ==
  \A j, k \in Conn, g \in Prog : Carried(j, g) /\ Carried(k, g) => j = k
OneSess == \A k \in Conn : ClientHeld(k) => Single(s2c[k])
Shares == OneOwner /\ OwnerOrCarried /\ OneCarrier /\ OneSess

\* Roles without windows, and the round after a takeover without a socket.
Bare ==
  \A p \in Proc :
    /\ pc[p] \in StartPC \cup {"idle", "query", "take", "fetch", "observe", "again"}
         => win[p] = {}
    /\ pc[p] = "handed" => lsock[p] = None

\* How far the server of a connection is tells what has been sent on it.
Serves(p, k) == pc[p] \notin ClientPC /\ conn[p] = k
InPhase(p, k) ==
  Serves(p, k) /\ ClientHeld(k) =>
    /\ pc[p] \in {"hsCmd", "dCmd"} => ~OfType("sess", s2c[k])
    /\ pc[p] \in {"hsCmd", "hsAck"} =>
         /\ ~OfType("lsock", s2c[k])
         /\ \A c \in Proc : pc[c] = "sizing" => conn[c] # k
    /\ pc[p] \in {"hsCmd", "hsAck", "hsSize"} =>
         /\ ~OfType("D", s2c[k])
         /\ \A c \in Proc : pc[c] = "fetch" => conn[c] # k
Phases == \A p \in Proc, k \in Conn : InPhase(p, k)

\* Nothing was sent on a connection that waits to be accepted.
Unanswered(k) == /\ s2c[k] = <<>>
                 /\ \A c \in Proc : pc[c] \in ClientPC /\ conn[c] = k => pc[c] = "query"
Fresh ==
  \A l \in Sock : ListenerOpen(l) =>
    \A i \in DOMAIN backlog[l] : ClientHeld(backlog[l][i]) => Unanswered(backlog[l][i])

OwnerInv == AcceptInv /\ Shares /\ Bare /\ Phases /\ Fresh

-----------------------------------------------------------------------------
(* What is received or sent, and what is then on its way.                   *)

Lighter(q, r) ==
  /\ r = <<>> => q = <<>>
  /\ \A t \in {"sess", "lsock", "D"} : OfType(t, q) => OfType(t, r)
  /\ \A g \in Prog : Carries(q, g) => Carries(r, g)
  /\ \A m : InSeq(m, q) => InSeq(m, r)
  /\ Single(r) => Single(q)

LEMMA LighterRecv ==
  ASSUME NEW q \in Seq(Reply), q # <<>>
  PROVE  Lighter(Tail(q), q)
<1>1. \A i \in DOMAIN Tail(q) : i + 1 \in DOMAIN q /\ Tail(q)[i] = q[i + 1] /\ i \in Nat
  OBVIOUS
<1>. QED BY <1>1 DEF Lighter, OfType, Carries, InSeq, Single

\* The one session in a message is not in what follows it.
LEMMA SessRecv ==
  ASSUME NEW q \in Seq(Reply), q # <<>>, Single(q), Head(q).type = "sess"
  PROVE  \A g \in Prog : ~Carries(Tail(q), g)
<1>1. \A i \in DOMAIN Tail(q) : /\ i + 1 \in DOMAIN q /\ i + 1 # 1
                                /\ Tail(q)[i] = q[i + 1]
  OBVIOUS
<1>2. 1 \in DOMAIN q /\ q[1].type = "sess"
  OBVIOUS
<1>. QED BY <1>1, <1>2 DEF Carries, Lists, Single

LEMMA Sending ==
  ASSUME NEW q \in Seq(Reply), NEW m \in Reply
  PROVE  LET r == Append(q, m) IN
         /\ \A t : OfType(t, r) <=> OfType(t, q) \/ m.type = t
         /\ \A g : Carries(r, g) <=> Carries(q, g) \/ Lists(m, g)
         /\ \A n : InSeq(n, r) => InSeq(n, q) \/ n = m
         /\ Single(q) /\ m.type # "sess" => Single(r)
         /\ ~OfType("sess", q) => Single(r)
         /\ r # <<>>
<1>. DEFINE r == Append(q, m)
            n == Len(q) + 1
<1>1. /\ DOMAIN r = DOMAIN q \cup {n} /\ n \notin DOMAIN q
      /\ r[n] = m /\ r # <<>>
      /\ \A i \in DOMAIN q : r[i] = q[i]
  OBVIOUS
<1>. HIDE DEF r, n
<1>. QED BY <1>1 DEF OfType, Carries, InSeq, Single, r

\* Steps that send nothing.
Lightens ==
  \A k \in Conn : ClientHeld(k)' =>
    s2c'[k] = <<>> \/ (ClientHeld(k) /\ Lighter(s2c'[k], s2c[k]))

LEMMA SameLighter == \A q : Lighter(q, q)
BY DEF Lighter

LEMMA FlushLightens ==
  ASSUME \A k \in Conn : ClientHeld(k)' => ClientHeld(k),
         s2c' = s2c \/ \E ks : s2c' = Flush(s2c, ks)
  PROVE  Lightens
<1>1. \A k \in Conn : s2c'[k] = <<>> \/ s2c'[k] = s2c[k]
  BY DEF Flush
<1>. QED BY <1>1, SameLighter DEF Lightens

LEMMA RecvLightens ==
  ASSUME \A k \in Conn : ClientHeld(k)' => ClientHeld(k), s2c \in Replies,
         NEW k \in Conn, s2c[k] # <<>>, s2c' = Recv(s2c, k)
  PROVE  Lightens
<1>1. \A c \in Conn : s2c'[c] = IF c = k THEN Tail(s2c[c]) ELSE s2c[c]
  BY DEF Recv, Replies
<1>2. \A c \in Conn : Lighter(s2c'[c], s2c[c])
  BY <1>1, SameLighter, LighterRecv DEF Replies
<1>. QED BY <1>2 DEF Lightens

-----------------------------------------------------------------------------
(* Steps that keep the sharing as it is.                                    *)

\* A process that has windows after the step had them, or nobody else has.
KeepsHas ==
  \A p \in Proc, g \in Prog : Has(p, g)' =>
    \/ Has(p, g)
    \/ /\ \A q \in Proc : Has(q, g)' => q = p
       /\ \A k \in Conn : ~Carried(k, g)'

\* Who was done with its windows still is; a handing on is still going on, has
\* been completed, or its client is gone.
KeepsShare ==
  \A p \in Proc : win'[p] # {} =>
    /\ Away(p) => \/ pc'[p] \in {"handed", "dAck"}
                  \/ pc'[p] = "daemon" /\ lsock'[p] = None
                  \/ pc[p] = "hsSize" /\ pc'[p] = "hsSize"
    /\ \A k \in Conn : Offers(p, k) => Offers(p, k)' \/ Away(p)' \/ ~ClientHeld(k)
    /\ \A k \in Conn : Takes(p, k) => \/ Takes(p, k)'
                                      \/ \A q \in Proc : Offers(q, k) => Away(q)'
KeepsOwner == KeepsHas /\ KeepsShare

KeepsSess ==
  \A k \in Conn : ClientHeld(k)' =>
    \/ s2c'[k] = <<>>
    \/ /\ ClientHeld(k)
       /\ \A g \in Prog : Carries(s2c'[k], g) => Carries(s2c[k], g)
       /\ Single(s2c[k]) => Single(s2c'[k])

\* A session on its way is one that was, or that of an owner.
KeepsMail ==
  \A k \in Conn, m \in Reply : ClientHeld(k)' /\ InSeq(m, s2c'[k]) /\ m.type = "sess" =>
    \/ ClientHeld(k) /\ InSeq(m, s2c[k])
    \/ \E p \in Proc : ~Away(p) /\ m.win = win[p]
Hands == KeepsShare /\ KeepsMail

LEMMA AwayStays ==
  ASSUME KeepsShare, KeepsSize, NEW p \in Proc, win'[p] # {}, Away(p)
  PROVE  Away(p)'
BY DEF KeepsShare, KeepsSize, Away

LEMMA OwnersFrame ==
  ASSUME OneOwner, KeepsShare, KeepsSize, NEW p \in Proc, NEW q \in Proc, NEW g \in Prog,
         p # q, Has(p, g), Has(q, g), win'[p] # {}, win'[q] # {}
  PROVE  Away(p)' \/ Away(q)' \/ Passing(p, q)' \/ Passing(q, p)'
<1>1. \A r \in Proc, k \in Conn : Takes(r, k) => ClientHeld(k)
  BY DEF Takes, ClientHeld, ClientPC
<1>2. Passing(p, q) => Away(p)' \/ Passing(p, q)'
  BY <1>1 DEF KeepsShare, Passing
<1>3. Passing(q, p) => Away(q)' \/ Passing(q, p)'
  BY <1>1 DEF KeepsShare, Passing
<1>. QED BY <1>2, <1>3, AwayStays DEF OneOwner

LEMMA CarriedFrame ==
  ASSUME OwnerOrCarried, KeepsShare, KeepsSize, NEW k \in Conn, NEW p \in Proc, NEW g \in Prog,
         Carried(k, g), Has(p, g), win'[p] # {}
  PROVE  Away(p)' \/ Offers(p, k)'
BY AwayStays DEF OwnerOrCarried, KeepsShare, Carried

LEMMA SharesFrame ==
  ASSUME Shares, KeepsOwner, KeepsSize, KeepsSess
  PROVE  Shares'
<1>1. \A p \in Proc, g \in Prog : Has(p, g)' => win'[p] # {}
  BY DEF Has
<1>2. \A k \in Conn, g \in Prog : Carried(k, g)' => Carried(k, g)
  BY DEF KeepsSess, Carried, Carries
<1>3. OneOwner'
  <2>. SUFFICES ASSUME NEW p \in Proc, NEW q \in Proc, NEW g \in Prog,
                       p # q, Has(p, g)', Has(q, g)'
                PROVE  Away(p)' \/ Away(q)' \/ Passing(p, q)' \/ Passing(q, p)'
    BY DEF OneOwner
  <2>1. Has(p, g) /\ Has(q, g)
    BY DEF KeepsOwner, KeepsHas
  <2>. QED BY <1>1, <2>1, OwnersFrame DEF Shares, KeepsOwner
<1>4. OwnerOrCarried'
  <2>. SUFFICES ASSUME NEW k \in Conn, NEW p \in Proc, NEW g \in Prog,
                       Carried(k, g)', Has(p, g)'
                PROVE  Away(p)' \/ Offers(p, k)'
    BY DEF OwnerOrCarried
  <2>1. Carried(k, g) /\ Has(p, g)
    BY <1>2 DEF KeepsOwner, KeepsHas
  <2>. QED BY <1>1, <2>1, CarriedFrame DEF Shares, KeepsOwner
<1>5. OneCarrier'
  BY <1>2 DEF Shares, OneCarrier
<1>6. OneSess'
  <2>1. Single(<<>>)
    BY DEF Single
  <2>. QED BY <2>1 DEF Shares, OneSess, KeepsSess, Single
<1>. QED BY <1>3, <1>4, <1>5, <1>6 DEF Shares

\* Steps that move no process to an earlier place in the handshake.
KeepsPhase ==
  \A p \in Proc : pc'[p] \in {"hsCmd", "hsAck", "hsSize", "dCmd"} =>
    \/ pc[p] = pc'[p]
    \/ pc[p] = "hsCmd" /\ pc'[p] = "hsAck"
    \/ pc[p] = "hsAck" /\ pc'[p] = "hsSize"
KeepsClients ==
  \A c \in Proc : pc'[c] \in ClientPC =>
    \/ pc'[c] = "query"
    \/ pc'[c] = pc[c] /\ conn'[c] = conn[c]
    \/ /\ pc[c] \in ClientPC /\ conn'[c] = conn[c] /\ s2c[conn[c]] # <<>>
       /\ pc'[c] = "sizing" => OfType("lsock", s2c[conn[c]])
       /\ pc'[c] = "fetch" => OfType("D", s2c[conn[c]])
KeepsRoles == KeepsServers /\ KeepsPhase /\ KeepsClients

\* What a step does that sends nothing, and who may send in one that does.
Mute == Lightens /\ KeepsClients
Speaks(p) == \/ Accept(p) \/ DaemonAccept(p)
             \/ TakeoverSession(p) \/ TakeoverListener(p) \/ DaemonSession(p)

\* What is sent is due.
Early(t) == IF t = "sess" THEN {"hsCmd", "dCmd"}
            ELSE IF t = "lsock" THEN {"hsCmd", "hsAck"}
            ELSE {"hsCmd", "hsAck", "hsSize"}
KeepsSent ==
  \A k \in Conn, t \in {"sess", "lsock", "D"} : ClientHeld(k)' /\ OfType(t, s2c'[k]) =>
    \/ ClientHeld(k) /\ OfType(t, s2c[k])
    \/ \A p \in Proc : Serves(p, k)' => pc'[p] \notin Early(t)

LEMMA PhasesFrame ==
  ASSUME Phases, KeepsRoles, KeepsSent
  PROVE  Phases'
<1>. SUFFICES ASSUME NEW p \in Proc, NEW k \in Conn PROVE InPhase(p, k)'
  BY DEF Phases
<1>. SUFFICES ASSUME Serves(p, k)', ClientHeld(k)',
                     pc'[p] \in {"hsCmd", "hsAck", "hsSize", "dCmd"}
              PROVE  InPhase(p, k)'
  BY DEF InPhase
<1>1. Serves(p, k) /\ InPhase(p, k)
  BY DEF KeepsRoles, KeepsServers, Serves, Phases
<1>2. \A t \in {"sess", "lsock", "D"} : pc'[p] \in Early(t) /\ OfType(t, s2c'[k]) =>
        ClientHeld(k) /\ OfType(t, s2c[k])
  BY DEF KeepsSent
<1>3. \A c \in Proc : pc'[c] = "sizing" /\ conn'[c] = k =>
        ClientHeld(k) /\ ((pc[c] = "sizing" /\ conn[c] = k) \/ OfType("lsock", s2c[k]))
  BY DEF KeepsRoles, KeepsClients, ClientPC, ClientHeld
<1>4. \A c \in Proc : pc'[c] = "fetch" /\ conn'[c] = k =>
        ClientHeld(k) /\ ((pc[c] = "fetch" /\ conn[c] = k) \/ OfType("D", s2c[k]))
  BY DEF KeepsRoles, KeepsClients, ClientPC, ClientHeld
<1>5. \/ pc[p] = pc'[p]
      \/ pc[p] = "hsCmd" /\ pc'[p] = "hsAck"
      \/ pc[p] = "hsAck" /\ pc'[p] = "hsSize"
  BY DEF KeepsRoles, KeepsPhase
<1>. QED BY <1>1, <1>2, <1>3, <1>4, <1>5 DEF InPhase, OfType, Early

\* Whose connection comes to wait has sent nothing but its question.
KeepsQueues ==
  \A l \in Sock, k \in Conn : InSeq(k, backlog'[l]) /\ ClientHeld(k)' =>
    InSeq(k, backlog[l]) \/ Unanswered(k)'

\* A step may send on a connection that is served: none such waits.
KeepsWaiting ==
  \A k \in Conn : ClientHeld(k)' =>
    \/ s2c'[k] = <<>>
    \/ ClientHeld(k) /\ s2c[k] # <<>>
    \/ ServerHeld(k)'

LEMMA FreshFrame ==
  ASSUME AcceptInv', Fresh, OpensEmpty, KeepsQueues, KeepsClients, KeepsWaiting
  PROVE  Fresh'
<1>1. \A l \in Sock : \A i \in DOMAIN backlog'[l] : backlog'[l][i] \in Conn
  BY DEF AcceptInv, TypeInv, TypeOK, Backlogs
<1>. SUFFICES ASSUME NEW l \in Sock, ListenerOpen(l)', NEW k \in Conn, InSeq(k, backlog'[l]),
                     ClientHeld(k)', InSeq(k, backlog[l])
              PROVE  Unanswered(k)'
  BY <1>1 DEF Fresh, KeepsQueues, InSeq
<1>2. ListenerOpen(l)
  BY DEF OpensEmpty, InSeq
<1>3. ClientHeld(k) => Unanswered(k)
  BY <1>2 DEF Fresh, InSeq
<1>4. ~ServerHeld(k)'
  BY DEF AcceptInv, Unserved, ServerHeld, InSeq
<1>5. s2c'[k] = <<>>
  BY <1>3, <1>4 DEF KeepsWaiting, Unanswered
<1>6. ASSUME NEW c \in Proc, pc'[c] \in ClientPC, conn'[c] = k PROVE pc'[c] = "query"
  <2>1. CASE pc[c] \in ClientPC /\ conn[c] = k
    <3>1. ClientHeld(k)
      BY <2>1 DEF ClientHeld
    <3>. QED BY <1>3, <1>6, <2>1, <3>1 DEF KeepsClients, Unanswered
  <2>. QED BY <1>6, <2>1 DEF KeepsClients
<1>. QED BY <1>5, <1>6 DEF Unanswered

LEMMA LightSends ==
  ASSUME Lightens
  PROVE  KeepsSess /\ KeepsSent /\ KeepsWaiting /\ KeepsMail
<1>1. KeepsSess
  BY DEF Lightens, Lighter, KeepsSess
<1>2. KeepsSent
  BY DEF Lightens, Lighter, KeepsSent, OfType
<1>3. KeepsWaiting
  BY DEF Lightens, Lighter, KeepsWaiting
<1>4. KeepsMail
  BY DEF Lightens, Lighter, KeepsMail, InSeq
<1>. QED BY <1>1, <1>2, <1>3, <1>4

\* A step that keeps all of this, and one that sends nothing besides.
LEMMA KeepingStep ==
  ASSUME OwnerInv, AcceptInv', Continues, Bare', Shares', KeepsRoles, KeepsSent,
         KeepsQueues, KeepsWaiting
  PROVE  OwnerInv'
BY PhasesFrame, FreshFrame DEF OwnerInv, Continues, KeepsRoles

LEMMA LightStep ==
  ASSUME OwnerInv, AcceptInv', Continues, Bare', Lightens, KeepsOwner, KeepsRoles, KeepsQueues
  PROVE  OwnerInv' /\ Hands /\ Mute
BY LightSends, SharesFrame, KeepingStep DEF OwnerInv, Continues, KeepsOwner, Hands, Mute, KeepsRoles


-----------------------------------------------------------------------------
(* Each step.                                                               *)

\* A process ends: what it had is nobody's, its connections are emptied.
LEMMA GoneOwner ==
  ASSUME OwnerInv, AcceptInv', Continues, NEW p \in Proc, Gone(p), UNCHANGED backlog
  PROVE  OwnerInv' /\ Hands /\ Mute
<1>. USE NoneAssumption
<1>1. /\ pc'[p] = "idle" /\ win'[p] = {} /\ conn'[p] = None
      /\ \A q \in Proc : q # p => /\ pc'[q] = pc[q] /\ conn'[q] = conn[q]
                                  /\ lsock'[q] = lsock[q] /\ win'[q] = win[q]
  BY DEF Gone, OwnerInv, AcceptInv, TypeInv, TypeOK
<1>2. KeepsOwner
  BY <1>1 DEF KeepsOwner, KeepsHas, KeepsShare, Has, Away, Offers, Takes
<1>3. KeepsRoles
  BY <1>1 DEF KeepsRoles, KeepsPhase, KeepsClients, KeepsServers, ClientPC
<1>4. Bare'
  BY <1>1 DEF OwnerInv, Bare
<1>5. Lightens
  <2>1. \A k \in Conn : ClientHeld(k)' => ClientHeld(k)
    BY DEF Gone, ClientHeld, ClientPC, OwnerInv, AcceptInv, TypeInv, TypeOK
  <2>. QED BY <2>1, FlushLightens DEF Gone
<1>6. KeepsQueues
  BY DEF KeepsQueues
<1>. QED BY <1>2, <1>3, <1>4, <1>5, <1>6, LightStep

\* A connection is made: nothing is known on it but the question.
LEMMA ConnectOwner ==
  ASSUME OwnerInv, AcceptInv', Continues, NEW p \in Proc, NEW k \in Conn,
         pc[p] \in {"idle", "again"}, FreeConn(k),
         pc' = [pc EXCEPT ![p] = "query"], conn' = [conn EXCEPT ![p] = k],
         UNCHANGED <<obs, lsock, win>>, s2c' = Flush(s2c, {k}),
         backlog' = Send(backlog, path, k)
  PROVE  OwnerInv' /\ Hands /\ Mute
<1>. USE NoneAssumption
<1>1. /\ pc'[p] = "query" /\ conn'[p] = k
      /\ \A q \in Proc : q # p => pc'[q] = pc[q] /\ conn'[q] = conn[q]
  BY DEF OwnerInv, AcceptInv, TypeInv, TypeOK
<1>2. win[p] = {}
  BY DEF OwnerInv, Bare
<1>3. \A c \in Conn : ClientHeld(c)' => ClientHeld(c) \/ c = k
  BY <1>1 DEF ClientHeld
<1>4. \A c \in Conn : s2c'[c] = IF c = k THEN <<>> ELSE s2c[c]
  BY DEF Flush
<1>5. Lightens
  BY <1>3, <1>4, SameLighter DEF Lightens
<1>6. KeepsOwner
  BY <1>1, <1>2 DEF KeepsOwner, KeepsHas, KeepsShare, Has, Away, Offers, Takes
<1>7. KeepsRoles
  BY <1>1 DEF KeepsRoles, KeepsPhase, KeepsClients, KeepsServers, ClientPC
<1>8. Bare'
  BY <1>1, <1>2 DEF OwnerInv, Bare
<1>9. KeepsQueues
  <2>1. \A l \in Sock, c \in Conn : InSeq(c, backlog'[l]) => InSeq(c, backlog[l]) \/ c = k
    <3>1. \A l \in Sock : backlog[l] \in Seq(Conn)
      BY DEF OwnerInv, AcceptInv, TypeInv, TypeOK, Backlogs
    <3>2. \A l \in Sock : backlog'[l] = backlog[l] \/ backlog'[l] = Append(backlog[l], k)
      BY DEF Send, OwnerInv, AcceptInv, TypeInv, TypeOK, Backlogs
    <3>. QED BY <3>1, <3>2 DEF InSeq
  <2>2. Unanswered(k)'
    BY <1>1, <1>4 DEF Unanswered, FreeConn, ClientOpen, ClientHeld
  <2>. QED BY <2>1, <2>2 DEF KeepsQueues
<1>. QED BY <1>5, <1>6, <1>7, <1>8, <1>9, LightStep

\* A connection is accepted, and answered: it had waited.
LEMMA AcceptOwner ==
  ASSUME OwnerInv, AcceptInv', Continues, NEW p \in Proc, NEW role \in {"loop", "daemon"},
         NEW next, NEW answer,
         <<next, answer>> \in {<<"hsCmd", "L">>, <<"dCmd", "D">>},
         Accepts(p, role, next, answer)
  PROVE  OwnerInv' /\ Hands
<1>. USE NoneAssumption
<1>. DEFINE l == lsock[p]
<1>0. PICK k \in Conn : k = Head(backlog[l])
  BY DEF Accepts, OwnerInv, AcceptInv, TypeInv, TypeOK, Backlogs
<1>1. l \in Sock /\ ListenerOpen(l) /\ backlog[l] \in Seq(Conn) /\ backlog[l] # <<>>
  BY DEF Accepts, ListenerOpen, OwnerInv, AcceptInv, TypeInv, TypeOK, Backlogs
<1>2. 1 \in DOMAIN backlog[l] /\ backlog[l][1] = k
  BY <1>0, <1>1
<1>3. ~ServerHeld(k) /\ (ClientHeld(k) => Unanswered(k))
  BY <1>1, <1>2 DEF OwnerInv, AcceptInv, Unserved, Fresh
<1>4. \A m \in Sock, c \in Conn : InSeq(c, backlog'[m]) => InSeq(c, backlog[m])
  <2>1. \A m \in Sock : backlog'[m] = backlog[m] \/ (m = l /\ backlog'[m] = Tail(backlog[l]))
    BY DEF Accepts, Recv, OwnerInv, AcceptInv, TypeInv, TypeOK, Backlogs
  <2>2. \A i \in DOMAIN Tail(backlog[l]) : /\ i + 1 \in DOMAIN backlog[l]
                                           /\ Tail(backlog[l])[i] = backlog[l][i + 1]
    BY <1>1
  <2>3. \A c \in Conn : InSeq(c, Tail(backlog[l])) => InSeq(c, backlog[l])
    BY <2>2 DEF InSeq
  <2>. QED BY <2>1, <2>3
<1>5. KeepsQueues
  BY <1>4 DEF KeepsQueues
<1>6. UNCHANGED <<obs, lsock, win>>
  BY DEF Accepts
<1>7. CASE UNCHANGED <<pc, conn, s2c>>
  <2>1. Lightens
    BY <1>6, <1>7, FlushLightens DEF ClientHeld
  <2>2. KeepsOwner /\ KeepsRoles /\ Bare'
    BY <1>6, <1>7 DEF KeepsOwner, KeepsHas, KeepsShare, Has, Away, Offers, Takes,
       KeepsRoles, KeepsPhase, KeepsClients, KeepsServers, Bare, OwnerInv
  <2>. QED BY <1>5, <2>1, <2>2, LightStep
<1>8. CASE /\ pc' = [pc EXCEPT ![p] = next]
           /\ conn' = [conn EXCEPT ![p] = k]
           /\ s2c' = Send(s2c, k, [type |-> answer])
  <2>1. /\ pc[p] = role /\ pc'[p] = next /\ conn'[p] = k
        /\ \A q \in Proc : q # p => pc'[q] = pc[q] /\ conn'[q] = conn[q]
    BY <1>8 DEF Accepts, OwnerInv, AcceptInv, TypeInv, TypeOK
  <2>2. \A c \in Conn : ClientHeld(c)' <=> ClientHeld(c)
    BY <1>6, <2>1 DEF ClientHeld, ClientPC
  <2>3. [type |-> answer] \in Reply /\ \A c \in Conn : s2c[c] \in Seq(Reply)
    BY DEF Reply, OwnerInv, AcceptInv, TypeInv, TypeOK, Replies
  <2>4. \A c \in Conn : s2c'[c] = IF c = k THEN Append(s2c[c], [type |-> answer]) ELSE s2c[c]
    BY <1>8 DEF Send, OwnerInv, AcceptInv, TypeInv, TypeOK, Replies
  <2>5. /\ \A t : OfType(t, s2c'[k]) <=> OfType(t, s2c[k]) \/ answer = t
        /\ \A n : InSeq(n, s2c'[k]) => InSeq(n, s2c[k]) \/ n = [type |-> answer]
        /\ \A g : Carries(s2c'[k], g) <=> Carries(s2c[k], g)
        /\ Single(s2c[k]) => Single(s2c'[k])
    BY <2>3, <2>4, Sending DEF Lists
  <2>6. KeepsSess
    BY <2>2, <2>4, <2>5 DEF KeepsSess
  <2>7. KeepsOwner
    BY <1>6, <2>1 DEF KeepsOwner, KeepsHas, KeepsShare, Has, Away, Offers, Takes, Accepts
  <2>8. Shares'
    BY <2>6, <2>7, SharesFrame DEF OwnerInv, Continues
  <2>9. Bare'
    BY <1>6, <2>1 DEF Bare, OwnerInv, StartPC
  <2>10. KeepsClients
    BY <2>1 DEF KeepsClients, ClientPC
  <2>11. KeepsWaiting
    <3>1. ServerHeld(k)'
      BY <2>1 DEF ServerHeld, ClientPC
    <3>. QED BY <2>2, <2>4, <3>1 DEF KeepsWaiting
  <2>12. Fresh'
    BY <1>5, <2>10, <2>11, FreshFrame DEF OwnerInv, Continues
  <2>13. Phases'
    <3>. SUFFICES ASSUME NEW q \in Proc, NEW c \in Conn PROVE InPhase(q, c)'
      BY DEF Phases
    <3>. SUFFICES ASSUME Serves(q, c)', ClientHeld(c)' PROVE InPhase(q, c)'
      BY DEF InPhase
    <3>1. CASE q = p
      <4>1. c = k /\ Unanswered(k)
        BY <1>3, <2>1, <2>2, <3>1 DEF Serves
      <4>2. /\ \A t \in {"sess", "lsock"} : ~OfType(t, s2c'[k])
            /\ answer = "L" => ~OfType("D", s2c'[k])
        <5>1. \A t : ~OfType(t, s2c[k])
          BY <4>1 DEF Unanswered, OfType
        <5>2. answer \in {"L", "D"}
          OBVIOUS
        <5>. QED BY <2>5, <5>1, <5>2
      <4>3. \A b \in Proc : pc'[b] \in {"sizing", "fetch"} => conn'[b] # k
        BY <2>1, <4>1 DEF Unanswered, ClientPC
      <4>. QED BY <2>1, <3>1, <4>1, <4>2, <4>3 DEF InPhase, OfType
    <3>2. CASE q # p
      <4>1. Serves(q, c) /\ c # k /\ pc'[q] = pc[q]
        BY <1>3, <2>1, <3>2 DEF Serves, ServerHeld
      <4>2. InPhase(q, c) /\ ClientHeld(c) /\ s2c'[c] = s2c[c]
        BY <2>2, <2>4, <4>1 DEF OwnerInv, Phases
      <4>3. \A b \in Proc : pc'[b] \in {"sizing", "fetch"} => pc'[b] = pc[b] /\ conn'[b] = conn[b]
        BY <2>1
      <4>. QED BY <4>1, <4>2, <4>3 DEF InPhase, OfType
    <3>. QED BY <3>1, <3>2
  <2>14. KeepsMail
    BY <2>2, <2>4, <2>5 DEF KeepsMail
  <2>. QED BY <2>7, <2>8, <2>9, <2>12, <2>13, <2>14 DEF OwnerInv, Hands, KeepsOwner
<1>. QED BY <1>0, <1>7, <1>8 DEF Accepts

\* A new program is known to nobody else.
LEMMA NewRecord ==
  ASSUME TypeOK, NEW p \in Proc, NEW g \in Prog, RunsProgram(p, g),
         s2c' = s2c, \A k \in Conn : ClientHeld(k)' => ClientHeld(k)
  PROVE  KeepsHas
<1>1. \A q \in Proc : ~Has(q, g)
  BY DEF RunsProgram, FreeProg, MasterOpen, Listed, Has
<1>2. \A k \in Conn : ~Carried(k, g)
  BY DEF RunsProgram, FreeProg, MasterOpen, Listed, Sent, Carried, Carries, Lists
<1>3. \A k \in Conn : ~Carried(k, g)'
  BY <1>2 DEF Carried, Carries
<1>4. \A q \in Proc : win'[q] = IF q = p
                                 THEN win[p] \cup {[prog |-> g, seen |-> 0, bare |-> FALSE]}
                                 ELSE win[q]
  BY DEF RunsProgram, TypeOK
<1>5. \A q \in Proc, h \in Prog : Has(q, h)' => Has(q, h) \/ (q = p /\ h = g)
  BY <1>4 DEF Has
<1>. QED BY <1>1, <1>3, <1>5 DEF KeepsHas

\* A listening socket is bound, by a process that has no window yet or has taken
\* its windows from a daemon that is done with them.
LEMMA BindOwner ==
  ASSUME OwnerInv, AcceptInv', Continues, NEW p \in Proc, NEW l \in Sock, Binds(p, l),
         pc[p] \in {"unlinked", "bind"}, UNCHANGED <<conn, obs, s2c>>, KeepsHas, Bare'
  PROVE  OwnerInv' /\ Hands /\ Mute
<1>. USE NoneAssumption
<1>1. /\ pc'[p] = "loop"
      /\ \A q \in Proc : q # p => pc'[q] = pc[q] /\ lsock'[q] = lsock[q]
  BY DEF Binds, OwnerInv, AcceptInv, TypeInv, TypeOK
<1>2. KeepsOwner
  BY <1>1 DEF KeepsOwner, KeepsShare, Away, Offers, Takes
<1>3. KeepsRoles
  BY <1>1 DEF KeepsRoles, KeepsPhase, KeepsClients, KeepsServers, ClientPC
<1>4. Lightens
  <2>1. \A k \in Conn : ClientHeld(k)' => ClientHeld(k)
    BY <1>1 DEF ClientHeld, ClientPC
  <2>. QED BY <2>1, FlushLightens
<1>5. KeepsQueues
  <2>1. \A m \in Sock : backlog'[m] = backlog[m] \/ backlog'[m] = <<>>
    BY DEF Binds, OwnerInv, AcceptInv, TypeInv, TypeOK, Backlogs
  <2>. QED BY <2>1 DEF KeepsQueues, InSeq
<1>. QED BY <1>2, <1>3, <1>4, <1>5, LightStep

LEMMA FreesOwner ==
  ASSUME OwnerInv, AcceptInv', Continues, NEW p \in Proc, NEW w \in win[p], Frees(p, w)
  PROVE  OwnerInv' /\ Hands /\ Mute
<1>1. CASE Quits(p) /\ UNCHANGED backlog
  BY <1>1, GoneOwner DEF Quits
<1>2. CASE /\ win' = [win EXCEPT ![p] = @ \ {w}]
           /\ UNCHANGED <<pc, conn, obs, lsock, leak, stray, sockVars, c2s, s2c>>
  <2>1. \A q \in Proc : win'[q] \subseteq win[q]
    BY <1>2 DEF OwnerInv, AcceptInv, TypeInv, TypeOK
  <2>2. KeepsOwner /\ KeepsRoles /\ KeepsQueues
    BY <1>2, <2>1 DEF KeepsOwner, KeepsHas, KeepsShare, Has, Away, Offers, Takes,
       KeepsRoles, KeepsPhase, KeepsClients, KeepsServers, KeepsQueues, sockVars
  <2>3. Bare' /\ Lightens
    BY <1>2, <2>1, FlushLightens DEF Bare, ClientHeld, OwnerInv
  <2>. QED BY <2>2, <2>3, LightStep
<1>. QED BY <1>1, <1>2 DEF Frees

\* Process p sends m on the connection it serves and moves on.
Sends(p, k, m, next) ==
  /\ pc' = [pc EXCEPT ![p] = next]
  /\ s2c' = Send(s2c, k, m)
  /\ UNCHANGED <<conn, obs, lsock, win, backlog>>

\* What a step that sends keeps, apart from the message it sends.
LEMMA SendsKeep ==
  ASSUME OwnerInv, AcceptInv', NEW p \in Proc, NEW k \in Conn, k = conn[p],
         NEW m \in Reply, NEW next,
         <<pc[p], next, m.type>> \in {<<"hsCmd", "hsAck", "sess">>, <<"dCmd", "dAck", "sess">>,
                                      <<"hsAck", "hsSize", "lsock">>},
         Sends(p, k, m, next)
  PROVE  /\ \A c \in Conn : ClientHeld(c)' <=> ClientHeld(c)
         /\ \A c \in Conn : s2c'[c] = IF c = k THEN Append(s2c[c], m) ELSE s2c[c]
         /\ KeepsOwner /\ KeepsRoles /\ KeepsSent /\ KeepsQueues /\ KeepsWaiting /\ Bare'
         /\ (m.type = "sess" => m.win = win[p]) => Hands
<1>. USE NoneAssumption
<1>1. pc[p] \notin ClientPC /\ pc'[p] = next /\ next \notin ClientPC
      /\ \A q \in Proc : q # p => pc'[q] = pc[q]
  BY DEF Sends, ClientPC, OwnerInv, AcceptInv, TypeInv, TypeOK
<1>2. \A c \in Conn : ClientHeld(c)' <=> ClientHeld(c)
  BY <1>1 DEF Sends, ClientHeld, ClientPC
<1>3. \A c \in Conn : /\ s2c[c] \in Seq(Reply)
                      /\ s2c'[c] = IF c = k THEN Append(s2c[c], m) ELSE s2c[c]
  BY DEF Sends, Send, OwnerInv, AcceptInv, TypeInv, TypeOK, Replies
<1>4. KeepsOwner
  BY <1>1 DEF Sends, KeepsOwner, KeepsHas, KeepsShare, Has, Away, Offers, Takes
<1>5. KeepsRoles
  BY <1>1 DEF Sends, KeepsRoles, KeepsPhase, KeepsClients, KeepsServers, ClientPC
<1>6. KeepsSent
  <2>1. \A q \in Proc : Serves(q, k)' => q = p
    BY <1>1 DEF Sends, Serves, AcceptInv, OneServer
  <2>2. next \notin Early(m.type)
    BY DEF Early
  <2>3. \A t : OfType(t, s2c'[k]) <=> OfType(t, s2c[k]) \/ m.type = t
    BY <1>3, Sending
  <2>. QED BY <1>1, <1>2, <1>3, <2>1, <2>2, <2>3 DEF KeepsSent
<1>7. KeepsQueues
  BY DEF Sends, KeepsQueues
<1>8. KeepsWaiting
  <2>1. ServerHeld(k)'
    BY <1>1 DEF Sends, ServerHeld
  <2>. QED BY <1>2, <1>3, <2>1 DEF KeepsWaiting
<1>9. Bare'
  BY <1>1 DEF Sends, Bare, StartPC, OwnerInv
<1>10. ASSUME m.type = "sess" => m.win = win[p] PROVE KeepsMail
  <2>1. \A n : InSeq(n, s2c'[k]) => InSeq(n, s2c[k]) \/ n = m
    BY <1>3, Sending
  <2>2. m.type = "sess" => ~Away(p)
    BY DEF Away
  <2>. QED BY <1>2, <1>3, <1>10, <2>1, <2>2 DEF KeepsMail
<1>. QED BY <1>2, <1>3, <1>4, <1>5, <1>6, <1>7, <1>8, <1>9, <1>10 DEF Hands, KeepsOwner

\* The session is sent: its windows are known to the sender and to the message.
LEMMA SessionOwner ==
  ASSUME OwnerInv, AcceptInv', Continues, NEW p \in Proc, NEW k \in Conn, k = conn[p],
         NEW next, <<pc[p], next>> \in {<<"hsCmd", "hsAck">>, <<"dCmd", "dAck">>},
         Sends(p, k, [type |-> "sess", win |-> win[p]], next)
  PROVE  OwnerInv' /\ Hands
<1>. DEFINE m == [type |-> "sess", win |-> win[p]]
<1>1. /\ m \in Reply /\ m.type = "sess" /\ m.win = win[p]
      /\ \A g : Lists(m, g) <=> Has(p, g)
  BY DEF Reply, Lists, Has, OwnerInv, AcceptInv, TypeInv, TypeOK
<1>. HIDE DEF m
<1>2. Sends(p, k, m, next)
  BY DEF m
<1>3. /\ \A c \in Conn : ClientHeld(c)' <=> ClientHeld(c)
      /\ \A c \in Conn : s2c'[c] = IF c = k THEN Append(s2c[c], m) ELSE s2c[c]
      /\ KeepsOwner /\ KeepsRoles /\ KeepsSent /\ KeepsQueues /\ KeepsWaiting /\ Bare'
      /\ Hands
  BY <1>1, <1>2, SendsKeep
<1>4. pc[p] \in {"hsCmd", "dCmd"} /\ pc'[p] = next /\ UNCHANGED <<conn, win>>
  BY DEF Sends, OwnerInv, AcceptInv, TypeInv, TypeOK
<1>5. \A c \in Conn, g \in Prog : ~(Carried(c, g) /\ Has(p, g))
  BY <1>4 DEF OwnerInv, Shares, OwnerOrCarried, Away, Offers
<1>6. \A q \in Proc, g \in Prog : q # p /\ Has(p, g) /\ Has(q, g) => Away(q)
  BY <1>4 DEF OwnerInv, Shares, OneOwner, Away, Passing, Offers, Takes
<1>7. \A c \in Conn : s2c[c] \in Seq(Reply)
  BY DEF OwnerInv, AcceptInv, TypeInv, TypeOK, Replies
<1>8. \A c \in Conn, g \in Prog : Carried(c, g)' => Carried(c, g) \/ (c = k /\ Has(p, g))
  <2>1. \A g : Carries(s2c'[k], g) <=> Carries(s2c[k], g) \/ Lists(m, g)
    BY <1>1, <1>3, <1>7, Sending
  <2>. QED BY <1>1, <1>3, <2>1 DEF Carried
<1>9. \A q \in Proc, g \in Prog : (Has(q, g)' <=> Has(q, g)) /\ (Has(q, g) => win'[q] # {})
  BY <1>4 DEF Has
<1>10. OneOwner'
  <2>. SUFFICES ASSUME NEW q \in Proc, NEW r \in Proc, NEW g \in Prog,
                       q # r, Has(q, g)', Has(r, g)'
                PROVE  Away(q)' \/ Away(r)' \/ Passing(q, r)' \/ Passing(r, q)'
    BY DEF OneOwner
  <2>. QED BY <1>3, <1>9, OwnersFrame DEF OwnerInv, Shares, Continues, KeepsOwner
<1>11. OwnerOrCarried'
  <2>. SUFFICES ASSUME NEW c \in Conn, NEW q \in Proc, NEW g \in Prog,
                       Carried(c, g)', Has(q, g)'
                PROVE  Away(q)' \/ Offers(q, c)'
    BY DEF OwnerOrCarried
  <2>1. CASE Carried(c, g)
    BY <1>3, <1>9, <2>1, CarriedFrame DEF OwnerInv, Shares, Continues, KeepsOwner
  <2>2. CASE c = k /\ Has(p, g)
    <3>1. CASE q = p
      BY <1>4, <2>2, <3>1 DEF Away, Offers
    <3>2. CASE q # p
      BY <1>3, <1>6, <1>9, <2>2, <3>2, AwayStays DEF Continues, KeepsOwner
    <3>. QED BY <3>1, <3>2
  <2>. QED BY <1>8, <2>1, <2>2
<1>12. OneCarrier'
  BY <1>5, <1>8 DEF OwnerInv, Shares, OneCarrier
<1>13. OneSess'
  <2>1. ClientHeld(k) => Single(s2c'[k])
    <3>1. ASSUME ClientHeld(k) PROVE ~OfType("sess", s2c[k])
      <4>1. Serves(p, k)
        BY <1>4 DEF Serves, ClientPC
      <4>. QED BY <1>4, <3>1, <4>1 DEF OwnerInv, Phases, InPhase
    <3>. QED BY <1>1, <1>3, <1>7, <3>1, Sending
  <2>2. \A c \in Conn : c # k => s2c'[c] = s2c[c]
    BY <1>3
  <2>3. ASSUME NEW c \in Conn, ClientHeld(c)' PROVE Single(s2c[c])'
    <3>1. CASE c = k
      BY <1>3, <2>1, <2>3, <3>1 DEF Single
    <3>2. CASE c # k
      BY <1>3, <2>2, <2>3, <3>2 DEF Single, OwnerInv, Shares, OneSess
    <3>. QED BY <3>1, <3>2
  <2>. QED BY <2>3 DEF OneSess
<1>. QED BY <1>3, <1>10, <1>11, <1>12, <1>13, KeepingStep DEF Shares

\* The listening socket is sent.
LEMMA ListenerOwner ==
  ASSUME OwnerInv, AcceptInv', Continues, NEW p \in Proc, NEW k \in Conn, k = conn[p],
         pc[p] = "hsAck", Sends(p, k, [type |-> "lsock", sock |-> lsock[p]], "hsSize")
  PROVE  OwnerInv' /\ Hands
<1>. DEFINE m == [type |-> "lsock", sock |-> lsock[p]]
<1>1. m \in Reply /\ m.type = "lsock" /\ \A g : ~Lists(m, g)
  BY DEF Reply, Lists, OwnerInv, AcceptInv, TypeInv, TypeOK, RoleOK
<1>. HIDE DEF m
<1>2. Sends(p, k, m, "hsSize")
  BY DEF m
<1>3. /\ \A c \in Conn : ClientHeld(c)' <=> ClientHeld(c)
      /\ \A c \in Conn : s2c'[c] = IF c = k THEN Append(s2c[c], m) ELSE s2c[c]
      /\ KeepsOwner /\ KeepsRoles /\ KeepsSent /\ KeepsQueues /\ KeepsWaiting /\ Bare'
      /\ Hands
  BY <1>1, <1>2, SendsKeep
<1>4. \A c \in Conn : s2c[c] \in Seq(Reply)
  BY DEF OwnerInv, AcceptInv, TypeInv, TypeOK, Replies
<1>5. KeepsSess
  <2>1. /\ \A g : Carries(s2c'[k], g) <=> Carries(s2c[k], g)
        /\ Single(s2c[k]) => Single(s2c'[k])
    BY <1>1, <1>3, <1>4, Sending
  <2>. QED BY <1>3, <2>1 DEF KeepsSess
<1>6. Shares'
  BY <1>3, <1>5, SharesFrame DEF OwnerInv, Continues
<1>. QED BY <1>3, <1>6, KeepingStep

\* The session arrives: its windows are the attacher's.  Who else knows them is
\* done with them, or offers them on this connection.
LEMMA ReceivedOwner ==
  ASSUME OwnerInv, AcceptInv', Continues, NEW p \in Proc, AttachSession(p)
  PROVE  OwnerInv' /\ Hands /\ Mute
<1>. USE NoneAssumption
<1>0. PICK k \in Conn : k = conn[p]
  BY DEF AttachSession, ClientPC, OwnerInv, AcceptInv, TypeInv, RoleOK
<1>. DEFINE m == Head(s2c[k])
<1>1. /\ \A c \in Conn : s2c[c] \in Seq(Reply)
      /\ s2c[k] # <<>> /\ m.type = "sess" /\ s2c' = Recv(s2c, k)
      /\ pc[p] \in {"take", "fetch"} /\ win[p] = {} /\ UNCHANGED <<obs, lsock, backlog>>
  BY <1>0 DEF AttachSession, Bare, sockVars, OwnerInv, AcceptInv, TypeInv, TypeOK, Replies
<1>2. /\ \A q \in Proc : q # p => pc'[q] = pc[q] /\ conn'[q] = conn[q] /\ win'[q] = win[q]
      /\ \/ pc[p] = "take" /\ pc'[p] = "sock" /\ conn'[p] = k
         \/ pc[p] = "fetch" /\ pc'[p] = "rebind" /\ conn'[p] = None
  BY <1>0 DEF AttachSession, OwnerInv, AcceptInv, TypeInv, TypeOK
<1>3. \A g : Has(p, g)' => Lists(m, g)
  <2>1. win'[p] = {[w EXCEPT !.bare = TRUE] : w \in m.win}
    BY <1>0 DEF AttachSession, OwnerInv, AcceptInv, TypeInv, TypeOK
  <2>2. m \in Reply /\ m.win \subseteq Window
    BY <1>1 DEF Reply
  <2>3. \A w \in m.win : [w EXCEPT !.bare = TRUE].prog = w.prog
    BY <2>2 DEF Window
  <2>. QED BY <1>1, <2>1, <2>3, ZenonT(30) DEF Has, Lists
<1>4. ClientHeld(k) /\ \A c \in Conn : ClientHeld(c)' => ClientHeld(c)
  BY <1>0, <1>1, <1>2 DEF ClientHeld, ClientPC
<1>5. \A g \in Prog : Has(p, g)' => Carried(k, g)
  <2>1. 1 \in DOMAIN s2c[k] /\ s2c[k][1] = m
    BY <1>1
  <2>. QED BY <1>3, <1>4, <2>1 DEF Carried, Carries
<1>6. Lightens
  BY <1>1, <1>4, RecvLightens DEF OwnerInv, AcceptInv, TypeInv, TypeOK
<1>7. \A c \in Conn, g \in Prog : Carried(c, g)' => Carried(c, g) /\ c # k
  <2>1. \A g \in Prog : ~Carries(Tail(s2c[k]), g)
    BY <1>1, <1>4, SessRecv DEF OwnerInv, Shares, OneSess
  <2>2. s2c'[k] = Tail(s2c[k])
    BY <1>1 DEF Recv, OwnerInv, AcceptInv, TypeInv, TypeOK, Replies
  <2>3. \A g \in Prog : ~Carries(<<>>, g)
    BY DEF Carries
  <2>. QED BY <1>6, <2>1, <2>2, <2>3 DEF Lightens, Lighter, Carried
<1>8. KeepsShare
  BY <1>1, <1>2 DEF KeepsShare, Away, Offers, Takes
<1>9. KeepsRoles /\ KeepsQueues
  BY <1>0, <1>1, <1>2 DEF KeepsRoles, KeepsPhase, KeepsClients, KeepsServers, ClientPC, KeepsQueues
<1>10. Bare'
  BY <1>1, <1>2 DEF OwnerInv, Bare, StartPC
<1>11. \A q \in Proc, g \in Prog : q # p /\ Has(q, g)' => Has(q, g) /\ win'[q] # {}
  BY <1>2 DEF Has
<1>12. \A q \in Proc, g \in Prog : q # p /\ Has(q, g)' /\ Has(p, g)' => Away(q)' \/ Passing(q, p)'
  <2>. SUFFICES ASSUME NEW q \in Proc, NEW g \in Prog, q # p, Has(q, g)', Has(p, g)'
                PROVE  Away(q)' \/ Passing(q, p)'
    OBVIOUS
  <2>1. Away(q) \/ Offers(q, k)
    BY <1>5, <1>11 DEF OwnerInv, Shares, OwnerOrCarried
  <2>2. CASE Away(q)
    BY <1>8, <1>11, <2>2, AwayStays DEF Continues
  <2>3. CASE Offers(q, k)
    <3>1. pc[p] = "take"
      BY <1>0, <1>1, <1>4, <2>3 DEF OwnerInv, Phases, InPhase, Serves, Offers, ClientPC
    <3>. QED BY <1>2, <2>3, <3>1 DEF Passing, Offers, Takes
  <2>. QED BY <2>1, <2>2, <2>3
<1>13. OneOwner'
  <2>. SUFFICES ASSUME NEW q \in Proc, NEW r \in Proc, NEW g \in Prog,
                       q # r, Has(q, g)', Has(r, g)'
                PROVE  Away(q)' \/ Away(r)' \/ Passing(q, r)' \/ Passing(r, q)'
    BY DEF OneOwner
  <2>1. CASE q # p /\ r # p
    BY <1>8, <1>11, <2>1, OwnersFrame DEF OwnerInv, Shares, Continues
  <2>. QED BY <1>12, <2>1
<1>14. OwnerOrCarried'
  <2>. SUFFICES ASSUME NEW c \in Conn, NEW q \in Proc, NEW g \in Prog,
                       Carried(c, g)', Has(q, g)'
                PROVE  Away(q)' \/ Offers(q, c)'
    BY DEF OwnerOrCarried
  <2>1. q # p
    BY <1>5, <1>7 DEF OwnerInv, Shares, OneCarrier
  <2>. QED BY <1>7, <1>8, <1>11, <2>1, CarriedFrame DEF OwnerInv, Shares, Continues
<1>15. OneCarrier' /\ OneSess'
  <2>1. Single(<<>>)
    BY DEF Single
  <2>. QED BY <1>6, <1>7, <2>1 DEF OwnerInv, Shares, OneCarrier, OneSess, Lightens, Lighter, Single
<1>. QED
  BY <1>6, <1>8, <1>9, <1>10, <1>13, <1>14, <1>15, LightSends, KeepingStep
  DEF Shares, Hands, Mute, KeepsRoles

\* The size is written where the old owner waits for it, or will.
LEMMA SizeArrives ==
  ASSUME OwnerInv, NEW p \in Proc, AttachSize(p)
  PROVE  \A q \in Proc : Offers(q, conn[p]) => Away(q)'
<1>. DEFINE k == conn[p]
<1>. SUFFICES ASSUME NEW q \in Proc, Offers(q, k) PROVE Away(q)'
  OBVIOUS
<1>1. k \in Conn /\ ClientHeld(k) /\ Serves(q, k) /\ q # p
  BY DEF AttachSize, Offers, ClientHeld, Serves, ClientPC, OwnerInv, AcceptInv, TypeInv, RoleOK
<1>2. pc[q] = "hsSize"
  BY <1>1 DEF AttachSize, Offers, OwnerInv, Phases, InPhase
<1>3. ServerOpen(k)
  BY <1>1 DEF ServerOpen, ServerHeld, Serves
<1>4. c2s'[k] = Append(c2s[k], "size") /\ c2s[k] \in Seq(Request)
  BY <1>1, <1>3 DEF AttachSize, Write, Send, Requests, OwnerInv, AcceptInv, TypeInv, TypeOK
<1>5. c2s'[k] # <<>>
  <2>1. Len(Append(c2s[k], "size")) = Len(c2s[k]) + 1 /\ Len(c2s[k]) \in Nat
    BY <1>4
  <2>. QED BY <1>4, <2>1
<1>6. pc'[q] = "hsSize" /\ conn'[q] = k
  BY <1>1, <1>2 DEF AttachSize, Serves, OwnerInv, AcceptInv, TypeInv, TypeOK
<1>. QED BY <1>5, <1>6 DEF Away

\* The message received was one of those on their way.
LEMMA HeadType ==
  ASSUME NEW q \in Seq(Reply), q # <<>>
  PROVE  OfType(Head(q).type, q)
<1>1. 1 \in DOMAIN q /\ q[1] = Head(q)
  OBVIOUS
<1>. QED BY <1>1 DEF OfType

LEMMA OwnerNext ==
  OwnerInv /\ [Next]_vars =>
    OwnerInv' /\ Hands /\ (Mute \/ \E p \in Proc : Speaks(p))
<1>. SUFFICES ASSUME OwnerInv, [Next]_vars
              PROVE  OwnerInv' /\ Hands /\ (Mute \/ \E p \in Proc : Speaks(p))
  OBVIOUS
<1>. USE NoneAssumption
<1>0. AcceptInv' /\ Continues
  BY AcceptNext DEF OwnerInv
<1>1. ASSUME NEW p \in Proc, AttachRefused(p) PROVE OwnerInv' /\ Hands /\ Mute
  BY <1>1, <1>0, GoneOwner DEF AttachRefused, Quits
<1>2. ASSUME NEW p \in Proc, ObserveEnd(p) PROVE OwnerInv' /\ Hands /\ Mute
  BY <1>2, <1>0, GoneOwner DEF ObserveEnd, Quits
<1>3. ASSUME NEW p \in Proc, ObserveLeave(p) PROVE OwnerInv' /\ Hands /\ Mute
  BY <1>3, <1>0, GoneOwner DEF ObserveLeave, Quits
<1>4. ASSUME NEW p \in Proc, AttachLost(p) PROVE OwnerInv' /\ Hands /\ Mute
  BY <1>4, <1>0, GoneOwner DEF AttachLost, sockVars
<1>5. ASSUME NEW p \in Proc, BindFails(p) PROVE OwnerInv' /\ Hands /\ Mute
  BY <1>5, <1>0, GoneOwner DEF BindFails, sockVars
<1>6. ASSUME NEW p \in Proc, DaemonExit(p) PROVE OwnerInv' /\ Hands /\ Mute
  BY <1>6, <1>0, GoneOwner DEF DaemonExit, sockVars
<1>7. ASSUME NEW p \in Proc, Crash(p) PROVE OwnerInv' /\ Hands /\ Mute
  BY <1>7, <1>0, GoneOwner DEF Crash, sockVars
<1>8. ASSUME NEW p \in Proc, Quit(p) PROVE OwnerInv' /\ Hands /\ Mute
  BY <1>8, <1>0, GoneOwner DEF Quit, Quits
<1>9. ASSUME NEW p \in Proc, ListenProbe(p) PROVE OwnerInv' /\ Hands /\ Mute
  <2>1. KeepsOwner
    BY <1>9, <1>0 DEF ListenProbe, KeepsOwner, KeepsHas, KeepsShare, Has, Away, Offers, Takes, Bare, OwnerInv, procVars, AcceptInv, TypeInv, TypeOK
  <2>2. KeepsRoles
    BY <1>9 DEF ListenProbe, KeepsRoles, KeepsPhase, KeepsClients, KeepsServers, ClientPC, procVars, OwnerInv, AcceptInv, TypeInv, TypeOK
  <2>3. Bare'
    BY <1>9 DEF ListenProbe, Bare, StartPC, procVars, OwnerInv, AcceptInv, TypeInv, TypeOK
  <2>4. Lightens
    <3>1. \A k \in Conn : ClientHeld(k)' => ClientHeld(k)
      BY <1>9 DEF ListenProbe, ClientHeld, ClientPC, procVars, OwnerInv, AcceptInv, TypeInv, TypeOK
    <3>. QED BY <1>9, <3>1, FlushLightens DEF ListenProbe, OwnerInv, AcceptInv, TypeInv, TypeOK, RoleOK, ClientPC
  <2>5. KeepsQueues
    BY <1>9 DEF ListenProbe, KeepsQueues, sockVars
  <2>. QED BY <1>0, <2>1, <2>2, <2>3, <2>4, <2>5, LightStep
<1>10. ASSUME NEW p \in Proc, ListenUnlink(p) PROVE OwnerInv' /\ Hands /\ Mute
  <2>1. KeepsOwner
    BY <1>10, <1>0 DEF ListenUnlink, KeepsOwner, KeepsHas, KeepsShare, Has, Away, Offers, Takes, Bare, OwnerInv, procVars, AcceptInv, TypeInv, TypeOK
  <2>2. KeepsRoles
    BY <1>10 DEF ListenUnlink, KeepsRoles, KeepsPhase, KeepsClients, KeepsServers, ClientPC, procVars, OwnerInv, AcceptInv, TypeInv, TypeOK
  <2>3. Bare'
    BY <1>10 DEF ListenUnlink, Bare, StartPC, procVars, OwnerInv, AcceptInv, TypeInv, TypeOK
  <2>4. Lightens
    <3>1. \A k \in Conn : ClientHeld(k)' => ClientHeld(k)
      BY <1>10 DEF ListenUnlink, ClientHeld, ClientPC, procVars, OwnerInv, AcceptInv, TypeInv, TypeOK
    <3>. QED BY <1>10, <3>1, FlushLightens DEF ListenUnlink, OwnerInv, AcceptInv, TypeInv, TypeOK, RoleOK, ClientPC
  <2>5. KeepsQueues
    BY <1>10 DEF ListenUnlink, KeepsQueues, sockVars
  <2>. QED BY <1>0, <2>1, <2>2, <2>3, <2>4, <2>5, LightStep
<1>11. ASSUME NEW p \in Proc, RebindUnlink(p) PROVE OwnerInv' /\ Hands /\ Mute
  <2>1. KeepsOwner
    BY <1>11, <1>0 DEF RebindUnlink, KeepsOwner, KeepsHas, KeepsShare, Has, Away, Offers, Takes, Bare, OwnerInv, procVars, AcceptInv, TypeInv, TypeOK
  <2>2. KeepsRoles
    BY <1>11 DEF RebindUnlink, KeepsRoles, KeepsPhase, KeepsClients, KeepsServers, ClientPC, procVars, OwnerInv, AcceptInv, TypeInv, TypeOK
  <2>3. Bare'
    BY <1>11 DEF RebindUnlink, Bare, StartPC, procVars, OwnerInv, AcceptInv, TypeInv, TypeOK
  <2>4. Lightens
    <3>1. \A k \in Conn : ClientHeld(k)' => ClientHeld(k)
      BY <1>11 DEF RebindUnlink, ClientHeld, ClientPC, procVars, OwnerInv, AcceptInv, TypeInv, TypeOK
    <3>. QED BY <1>11, <3>1, FlushLightens DEF RebindUnlink, OwnerInv, AcceptInv, TypeInv, TypeOK, RoleOK, ClientPC
  <2>5. KeepsQueues
    BY <1>11 DEF RebindUnlink, KeepsQueues, sockVars
  <2>. QED BY <1>0, <2>1, <2>2, <2>3, <2>4, <2>5, LightStep
<1>12. ASSUME NEW p \in Proc, BecomeObserver(p) PROVE OwnerInv' /\ Hands /\ Mute
  <2>1. KeepsOwner
    BY <1>12, <1>0 DEF BecomeObserver, KeepsOwner, KeepsHas, KeepsShare, Has, Away, Offers, Takes, Bare, OwnerInv, procVars, AcceptInv, TypeInv, TypeOK
  <2>2. KeepsRoles
    BY <1>12 DEF BecomeObserver, KeepsRoles, KeepsPhase, KeepsClients, KeepsServers, ClientPC, procVars, OwnerInv, AcceptInv, TypeInv, TypeOK
  <2>3. Bare'
    BY <1>12 DEF BecomeObserver, Bare, StartPC, procVars, OwnerInv, AcceptInv, TypeInv, TypeOK
  <2>4. Lightens
    <3>1. \A k \in Conn : ClientHeld(k)' => ClientHeld(k)
      BY <1>12 DEF BecomeObserver, ClientHeld, ClientPC, procVars, OwnerInv, AcceptInv, TypeInv, TypeOK
    <3>. QED BY <1>12, <3>1, FlushLightens DEF BecomeObserver, OwnerInv, AcceptInv, TypeInv, TypeOK, RoleOK, ClientPC
  <2>5. KeepsQueues
    BY <1>12 DEF BecomeObserver, KeepsQueues, sockVars
  <2>. QED BY <1>0, <2>1, <2>2, <2>3, <2>4, <2>5, LightStep
<1>13. ASSUME NEW p \in Proc, Drain(p) PROVE OwnerInv' /\ Hands /\ Mute
  <2>1. KeepsOwner
    <3>1. \A q \in Proc : \A g \in Prog : Has(q, g)' => Has(q, g)
      <4>1. PICK w \in win[p] : win' = [win EXCEPT ![p] =
               (@ \ {w}) \cup {[w EXCEPT !.seen = @ + unread[w.prog]]}]
        BY <1>13 DEF Drain
      <4>2. [w EXCEPT !.seen = @ + unread[w.prog]].prog = w.prog
        BY <4>1 DEF Window, OwnerInv, AcceptInv, TypeInv, TypeOK
      <4>3. \A q \in Proc : q # p => win'[q] = win[q]
        BY <4>1
      <4>4. win'[p] = (win[p] \ {w}) \cup {[w EXCEPT !.seen = @ + unread[w.prog]]}
        BY <4>1 DEF OwnerInv, AcceptInv, TypeInv, TypeOK
      <4>. QED BY <4>2, <4>3, <4>4 DEF Has
    <3>. QED BY <1>13, <3>1 DEF Drain, KeepsOwner, KeepsHas, KeepsShare, Away, Offers, Takes
  <2>2. KeepsRoles
    BY <1>13 DEF Drain, Looping, KeepsRoles, KeepsPhase, KeepsClients, KeepsServers, ClientPC, procVars, OwnerInv, AcceptInv, TypeInv, TypeOK
  <2>3. Bare'
    BY <1>13 DEF Drain, Looping, Bare, StartPC, procVars, OwnerInv, AcceptInv, TypeInv, TypeOK
  <2>4. Lightens
    <3>1. \A k \in Conn : ClientHeld(k)' => ClientHeld(k)
      BY <1>13 DEF Drain, Looping, ClientHeld, ClientPC, procVars, OwnerInv, AcceptInv, TypeInv, TypeOK
    <3>. QED BY <1>13, <3>1, FlushLightens DEF Drain, Looping, OwnerInv, AcceptInv, TypeInv, TypeOK, RoleOK, ClientPC
  <2>5. KeepsQueues
    BY <1>13 DEF Drain, Looping, KeepsQueues, sockVars
  <2>. QED BY <1>0, <2>1, <2>2, <2>3, <2>4, <2>5, LightStep
<1>14. ASSUME NEW p \in Proc, ObserverGone(p) PROVE OwnerInv' /\ Hands /\ Mute
  <2>1. KeepsOwner
    BY <1>14, <1>0 DEF ObserverGone, KeepsOwner, KeepsHas, KeepsShare, Has, Away, Offers, Takes, Bare, OwnerInv, procVars, AcceptInv, TypeInv, TypeOK
  <2>2. KeepsRoles
    BY <1>14 DEF ObserverGone, KeepsRoles, KeepsPhase, KeepsClients, KeepsServers, ClientPC, procVars, OwnerInv, AcceptInv, TypeInv, TypeOK
  <2>3. Bare'
    BY <1>14 DEF ObserverGone, Bare, StartPC, procVars, OwnerInv, AcceptInv, TypeInv, TypeOK
  <2>4. Lightens
    <3>1. \A k \in Conn : ClientHeld(k)' => ClientHeld(k)
      BY <1>14 DEF ObserverGone, ClientHeld, ClientPC, procVars, OwnerInv, AcceptInv, TypeInv, TypeOK
    <3>. QED BY <1>14, <3>1, FlushLightens DEF ObserverGone, OwnerInv, AcceptInv, TypeInv, TypeOK, RoleOK, ClientPC
  <2>5. KeepsQueues
    BY <1>14 DEF ObserverGone, KeepsQueues, sockVars
  <2>. QED BY <1>0, <2>1, <2>2, <2>3, <2>4, <2>5, LightStep
<1>15. ASSUME NEW p \in Proc, Detach(p) PROVE OwnerInv' /\ Hands /\ Mute
  <2>1. KeepsOwner
    BY <1>15, <1>0 DEF Detach, Looping, KeepsOwner, KeepsHas, KeepsShare, Has, Away, Offers, Takes, Bare, OwnerInv, procVars, AcceptInv, TypeInv, TypeOK
  <2>2. KeepsRoles
    BY <1>15 DEF Detach, Looping, KeepsRoles, KeepsPhase, KeepsClients, KeepsServers, ClientPC, procVars, OwnerInv, AcceptInv, TypeInv, TypeOK
  <2>3. Bare'
    BY <1>15 DEF Detach, Looping, Bare, StartPC, procVars, OwnerInv, AcceptInv, TypeInv, TypeOK
  <2>4. Lightens
    <3>1. \A k \in Conn : ClientHeld(k)' => ClientHeld(k)
      BY <1>15 DEF Detach, Looping, ClientHeld, ClientPC, procVars, OwnerInv, AcceptInv, TypeInv, TypeOK
    <3>. QED BY <1>15, <3>1, FlushLightens DEF Detach, Looping, OwnerInv, AcceptInv, TypeInv, TypeOK, RoleOK, ClientPC
  <2>5. KeepsQueues
    BY <1>15 DEF Detach, Looping, KeepsQueues, sockVars
  <2>. QED BY <1>0, <2>1, <2>2, <2>3, <2>4, <2>5, LightStep
<1>16. ASSUME NEW p \in Proc, DaemonDrop(p) PROVE OwnerInv' /\ Hands /\ Mute
  <2>1. KeepsOwner
    BY <1>16, <1>0 DEF DaemonDrop, Drops, KeepsOwner, KeepsHas, KeepsShare, Has, Away, Offers, Takes, Bare, OwnerInv, procVars, AcceptInv, TypeInv, TypeOK
  <2>2. KeepsRoles
    BY <1>16 DEF DaemonDrop, Drops, KeepsRoles, KeepsPhase, KeepsClients, KeepsServers, ClientPC, procVars, OwnerInv, AcceptInv, TypeInv, TypeOK
  <2>3. Bare'
    BY <1>16 DEF DaemonDrop, Drops, Bare, StartPC, procVars, OwnerInv, AcceptInv, TypeInv, TypeOK
  <2>4. Lightens
    <3>1. \A k \in Conn : ClientHeld(k)' => ClientHeld(k)
      BY <1>16 DEF DaemonDrop, Drops, ClientHeld, ClientPC, procVars, OwnerInv, AcceptInv, TypeInv, TypeOK
    <3>. QED BY <1>16, <3>1, FlushLightens DEF DaemonDrop, Drops, OwnerInv, AcceptInv, TypeInv, TypeOK, RoleOK, ClientPC
  <2>5. KeepsQueues
    BY <1>16 DEF DaemonDrop, Drops, KeepsQueues, sockVars
  <2>. QED BY <1>0, <2>1, <2>2, <2>3, <2>4, <2>5, LightStep
<1>17. ASSUME NEW p \in Proc, ObserveBye(p) PROVE OwnerInv' /\ Hands /\ Mute
  <2>1. KeepsOwner
    BY <1>17, <1>0 DEF ObserveBye, Drops, KeepsOwner, KeepsHas, KeepsShare, Has, Away, Offers, Takes, Bare, OwnerInv, procVars, AcceptInv, TypeInv, TypeOK
  <2>2. KeepsRoles
    BY <1>17 DEF ObserveBye, Drops, KeepsRoles, KeepsPhase, KeepsClients, KeepsServers, ClientPC, procVars, OwnerInv, AcceptInv, TypeInv, TypeOK
  <2>3. Bare'
    BY <1>17 DEF ObserveBye, Drops, Bare, StartPC, procVars, OwnerInv, AcceptInv, TypeInv, TypeOK
  <2>4. Lightens
    <3>1. \A k \in Conn : ClientHeld(k)' => ClientHeld(k)
      BY <1>17 DEF ObserveBye, Drops, ClientHeld, ClientPC, procVars, OwnerInv, AcceptInv, TypeInv, TypeOK
    <3>. QED BY <1>17, <3>1, FlushLightens DEF ObserveBye, Drops, OwnerInv, AcceptInv, TypeInv, TypeOK, RoleOK, ClientPC
  <2>5. KeepsQueues
    BY <1>17 DEF ObserveBye, Drops, KeepsQueues, sockVars
  <2>. QED BY <1>0, <2>1, <2>2, <2>3, <2>4, <2>5, LightStep
<1>18. ASSUME NEW p \in Proc, TakeoverDone(p) PROVE OwnerInv' /\ Hands /\ Mute
  <2>1. KeepsOwner
    BY <1>18, <1>0 DEF TakeoverDone, KeepsOwner, KeepsHas, KeepsShare, Has, Away, Offers, Takes, Bare, OwnerInv, procVars, AcceptInv, TypeInv, TypeOK
  <2>2. KeepsRoles
    BY <1>18 DEF TakeoverDone, KeepsRoles, KeepsPhase, KeepsClients, KeepsServers, ClientPC, procVars, OwnerInv, AcceptInv, TypeInv, TypeOK
  <2>3. Bare'
    BY <1>18 DEF TakeoverDone, Bare, StartPC, procVars, OwnerInv, AcceptInv, TypeInv, TypeOK
  <2>4. Lightens
    <3>1. \A k \in Conn : ClientHeld(k)' => ClientHeld(k)
      BY <1>18 DEF TakeoverDone, ClientHeld, ClientPC, procVars, OwnerInv, AcceptInv, TypeInv, TypeOK
    <3>. QED BY <1>18, <3>1, FlushLightens DEF TakeoverDone, OwnerInv, AcceptInv, TypeInv, TypeOK, RoleOK, ClientPC
  <2>5. KeepsQueues
    BY <1>18 DEF TakeoverDone, KeepsQueues, sockVars
  <2>. QED BY <1>0, <2>1, <2>2, <2>3, <2>4, <2>5, LightStep
<1>19. ASSUME NEW p \in Proc, TakeoverLost(p) PROVE OwnerInv' /\ Hands /\ Mute
  <2>1. KeepsOwner
    BY <1>19, <1>0 DEF TakeoverLost, Drops, ClientOpen, KeepsOwner, KeepsHas, KeepsShare, Has, Away, Offers, Takes, Bare, OwnerInv, procVars, AcceptInv, TypeInv, TypeOK
  <2>2. KeepsRoles
    BY <1>19 DEF TakeoverLost, Drops, ClientOpen, KeepsRoles, KeepsPhase, KeepsClients, KeepsServers, ClientPC, procVars, OwnerInv, AcceptInv, TypeInv, TypeOK
  <2>3. Bare'
    BY <1>19 DEF TakeoverLost, Drops, ClientOpen, Bare, StartPC, procVars, OwnerInv, AcceptInv, TypeInv, TypeOK
  <2>4. Lightens
    <3>1. \A k \in Conn : ClientHeld(k)' => ClientHeld(k)
      BY <1>19 DEF TakeoverLost, Drops, ClientOpen, ClientHeld, ClientPC, procVars, OwnerInv, AcceptInv, TypeInv, TypeOK
    <3>. QED BY <1>19, <3>1, FlushLightens DEF TakeoverLost, Drops, ClientOpen, OwnerInv, AcceptInv, TypeInv, TypeOK, RoleOK, ClientPC
  <2>5. KeepsQueues
    BY <1>19 DEF TakeoverLost, Drops, ClientOpen, KeepsQueues, sockVars
  <2>. QED BY <1>0, <2>1, <2>2, <2>3, <2>4, <2>5, LightStep
<1>20. ASSUME NEW p \in Proc, AttachQuery(p) PROVE OwnerInv' /\ Hands /\ Mute
  <2>1. KeepsOwner
    BY <1>20, <1>0 DEF AttachQuery, KeepsOwner, KeepsHas, KeepsShare, Has, Away, Offers, Takes, Bare, OwnerInv, procVars, AcceptInv, TypeInv, TypeOK
  <2>2. KeepsRoles
    <3>1. s2c[conn[p]] \in Seq(Reply) /\ conn[p] \in Conn
      BY <1>20 DEF AttachQuery, ClientPC, Replies, OwnerInv, AcceptInv, TypeInv, TypeOK, RoleOK
    <3>2. OfType(Head(s2c[conn[p]]).type, s2c[conn[p]])
      BY <1>20, <3>1, HeadType DEF AttachQuery
    <3>. QED BY <1>20, <3>2 DEF AttachQuery, KeepsRoles, KeepsPhase, KeepsClients, KeepsServers, ClientPC, procVars, OwnerInv, AcceptInv, TypeInv, TypeOK
  <2>3. Bare'
    BY <1>20 DEF AttachQuery, Bare, StartPC, procVars, OwnerInv, AcceptInv, TypeInv, TypeOK
  <2>4. Lightens
    <3>1. \A k \in Conn : ClientHeld(k)' => ClientHeld(k)
      BY <1>20 DEF AttachQuery, ClientHeld, ClientPC, procVars, OwnerInv, AcceptInv, TypeInv, TypeOK
    <3>. QED BY <1>20, <3>1, RecvLightens DEF AttachQuery, OwnerInv, AcceptInv, TypeInv, TypeOK, RoleOK, ClientPC
  <2>5. KeepsQueues
    BY <1>20 DEF AttachQuery, KeepsQueues, sockVars
  <2>. QED BY <1>0, <2>1, <2>2, <2>3, <2>4, <2>5, LightStep
<1>21. ASSUME NEW p \in Proc, AttachListener(p) PROVE OwnerInv' /\ Hands /\ Mute
  <2>1. KeepsOwner
    BY <1>21, <1>0 DEF AttachListener, KeepsOwner, KeepsHas, KeepsShare, Has, Away, Offers, Takes, Bare, OwnerInv, procVars, AcceptInv, TypeInv, TypeOK
  <2>2. KeepsRoles
    <3>1. s2c[conn[p]] \in Seq(Reply) /\ conn[p] \in Conn
      BY <1>21 DEF AttachListener, ClientPC, Replies, OwnerInv, AcceptInv, TypeInv, TypeOK, RoleOK
    <3>2. OfType(Head(s2c[conn[p]]).type, s2c[conn[p]])
      BY <1>21, <3>1, HeadType DEF AttachListener
    <3>. QED BY <1>21, <3>2 DEF AttachListener, KeepsRoles, KeepsPhase, KeepsClients, KeepsServers, ClientPC, procVars, OwnerInv, AcceptInv, TypeInv, TypeOK
  <2>3. Bare'
    BY <1>21 DEF AttachListener, Bare, StartPC, procVars, OwnerInv, AcceptInv, TypeInv, TypeOK
  <2>4. Lightens
    <3>1. \A k \in Conn : ClientHeld(k)' => ClientHeld(k)
      BY <1>21 DEF AttachListener, ClientHeld, ClientPC, procVars, OwnerInv, AcceptInv, TypeInv, TypeOK
    <3>. QED BY <1>21, <3>1, RecvLightens DEF AttachListener, OwnerInv, AcceptInv, TypeInv, TypeOK, RoleOK, ClientPC
  <2>5. KeepsQueues
    BY <1>21 DEF AttachListener, KeepsQueues, sockVars
  <2>. QED BY <1>0, <2>1, <2>2, <2>3, <2>4, <2>5, LightStep
<1>22. ASSUME NEW p \in Proc, AttachSize(p) PROVE OwnerInv' /\ Hands /\ Mute
  <2>1. KeepsOwner
    <3>1. \A q \in Proc : Offers(q, conn[p]) => Away(q)'
      BY <1>22, SizeArrives
    <3>. QED BY <1>22, <3>1 DEF AttachSize, KeepsOwner, KeepsHas, KeepsShare, Has, Away, Offers, Takes, OwnerInv, AcceptInv, TypeInv, TypeOK
  <2>2. KeepsRoles
    BY <1>22 DEF AttachSize, KeepsRoles, KeepsPhase, KeepsClients, KeepsServers, ClientPC, procVars, OwnerInv, AcceptInv, TypeInv, TypeOK
  <2>3. Bare'
    BY <1>22 DEF AttachSize, Bare, StartPC, procVars, OwnerInv, AcceptInv, TypeInv, TypeOK
  <2>4. Lightens
    <3>1. \A k \in Conn : ClientHeld(k)' => ClientHeld(k)
      BY <1>22 DEF AttachSize, ClientHeld, ClientPC, procVars, OwnerInv, AcceptInv, TypeInv, TypeOK
    <3>. QED BY <1>22, <3>1, FlushLightens DEF AttachSize, OwnerInv, AcceptInv, TypeInv, TypeOK, RoleOK, ClientPC
  <2>5. KeepsQueues
    BY <1>22 DEF AttachSize, KeepsQueues, sockVars
  <2>. QED BY <1>0, <2>1, <2>2, <2>3, <2>4, <2>5, LightStep
<1>23. ASSUME NEW g \in Prog, ProgWrites(g) PROVE OwnerInv' /\ Hands /\ Mute
  <2>1. KeepsOwner /\ KeepsRoles /\ KeepsQueues
    BY <1>23 DEF ProgWrites, KeepsOwner, KeepsHas, KeepsShare, Has, Away, Offers, Takes, KeepsRoles, KeepsPhase, KeepsClients, KeepsServers, KeepsQueues,
       procVars, sockVars
  <2>2. Bare' /\ Lightens
    BY <1>23, FlushLightens DEF ProgWrites, Bare, ClientHeld, procVars, OwnerInv
  <2>. QED BY <1>0, <2>1, <2>2, LightStep
<1>24. ASSUME NEW g \in Prog, Ends(g) PROVE OwnerInv' /\ Hands /\ Mute
  <2>1. KeepsOwner /\ KeepsRoles /\ KeepsQueues
    BY <1>24 DEF Ends, KeepsOwner, KeepsHas, KeepsShare, Has, Away, Offers, Takes, KeepsRoles, KeepsPhase, KeepsClients, KeepsServers, KeepsQueues,
       procVars, sockVars
  <2>2. Bare' /\ Lightens
    BY <1>24, FlushLightens DEF Ends, Bare, ClientHeld, procVars, OwnerInv
  <2>. QED BY <1>0, <2>1, <2>2, LightStep
<1>25. ASSUME NEW p \in Proc, ListenRefused(p) PROVE OwnerInv' /\ Hands /\ Mute
  <2>1. PICK k \in Conn : /\ FreeConn(k)
                           /\ backlog' = Send(backlog, path, k)
                           /\ s2c' = Flush(s2c, {k})
    BY <1>25 DEF ListenRefused
  <2>2. UNCHANGED <<pc, conn, obs, lsock, win>>
    BY <1>25 DEF ListenRefused, procVars
  <2>3. KeepsOwner /\ KeepsRoles /\ Bare'
    BY <2>2 DEF KeepsOwner, KeepsHas, KeepsShare, Has, Away, Offers, Takes,
       KeepsRoles, KeepsPhase, KeepsClients, KeepsServers, Bare, OwnerInv
  <2>4. Lightens
    BY <2>1, <2>2, FlushLightens DEF ClientHeld
  <2>5. KeepsQueues
    <3>1. \A l \in Sock : backlog[l] \in Seq(Conn)
      BY DEF OwnerInv, AcceptInv, TypeInv, TypeOK, Backlogs
    <3>2. \A l \in Sock : backlog'[l] = backlog[l] \/ backlog'[l] = Append(backlog[l], k)
      BY <2>1 DEF Send, OwnerInv, AcceptInv, TypeInv, TypeOK, Backlogs
    <3>3. \A l \in Sock, c \in Conn : InSeq(c, backlog'[l]) => InSeq(c, backlog[l]) \/ c = k
      BY <3>1, <3>2 DEF InSeq
    <3>4. ~ClientHeld(k)'
      BY <2>1, <2>2 DEF FreeConn, ClientOpen, ClientHeld
    <3>. QED BY <3>3, <3>4 DEF KeepsQueues
  <2>. QED BY <1>0, <2>3, <2>4, <2>5, LightStep
<1>26. ASSUME NEW p \in Proc, AttachConnect(p) PROVE OwnerInv' /\ Hands /\ Mute
  BY <1>26, <1>0, ConnectOwner DEF AttachConnect
<1>27. ASSUME NEW p \in Proc, Accept(p) PROVE OwnerInv' /\ Hands
  BY <1>27, <1>0, AcceptOwner DEF Accept
<1>28. ASSUME NEW p \in Proc, DaemonAccept(p) PROVE OwnerInv' /\ Hands
  BY <1>28, <1>0, AcceptOwner DEF DaemonAccept
<1>29. ASSUME NEW p \in Proc, RebindBind(p) PROVE OwnerInv' /\ Hands /\ Mute
  <2>1. PICK l \in Sock : Binds(p, l)
    BY <1>29 DEF RebindBind
  <2>2. KeepsHas
    BY <1>29 DEF RebindBind, KeepsHas, Has
  <2>3. Bare'
    BY <1>29, <2>1 DEF RebindBind, Binds, Bare, StartPC, OwnerInv, AcceptInv, TypeInv, TypeOK
  <2>. QED BY <1>29, <1>0, <2>1, <2>2, <2>3, BindOwner DEF RebindBind
<1>30. ASSUME NEW p \in Proc, ListenBind(p) PROVE OwnerInv' /\ Hands /\ Mute
  <2>1. PICK l \in Sock, g \in Prog : Binds(p, l) /\ RunsProgram(p, g)
    BY <1>30 DEF ListenBind
  <2>2. \A k \in Conn : ClientHeld(k)' => ClientHeld(k)
    BY <1>30, <2>1 DEF ListenBind, Binds, ClientHeld, ClientPC, OwnerInv, AcceptInv, TypeInv, TypeOK
  <2>3. KeepsHas
    BY <1>30, <2>1, <2>2, NewRecord DEF ListenBind, OwnerInv, AcceptInv, TypeInv
  <2>4. Bare'
    BY <1>30, <2>1 DEF ListenBind, Binds, RunsProgram, Bare, StartPC,
       OwnerInv, AcceptInv, TypeInv, TypeOK
  <2>. QED BY <1>30, <1>0, <2>1, <2>3, <2>4, BindOwner DEF ListenBind
<1>31. ASSUME NEW p \in Proc, NewWindow(p) PROVE OwnerInv' /\ Hands /\ Mute
  <2>1. PICK g \in Prog : RunsProgram(p, g)
    BY <1>31 DEF NewWindow
  <2>2. UNCHANGED <<pc, conn, obs, lsock, backlog, s2c>>
    BY <1>31 DEF NewWindow, sockVars
  <2>3. KeepsHas
    BY <2>1, <2>2, NewRecord DEF ClientHeld, OwnerInv, AcceptInv, TypeInv
  <2>4. KeepsOwner /\ KeepsRoles /\ KeepsQueues
    BY <2>2, <2>3 DEF KeepsOwner, KeepsShare, Away, Offers, Takes,
       KeepsRoles, KeepsPhase, KeepsClients, KeepsServers, KeepsQueues
  <2>5. Bare'
    BY <1>31, <2>1, <2>2 DEF NewWindow, Looping, RunsProgram, Bare, StartPC,
       OwnerInv, AcceptInv, TypeInv, TypeOK
  <2>6. Lightens
    BY <2>2, FlushLightens DEF ClientHeld
  <2>. QED BY <1>0, <2>4, <2>5, <2>6, LightStep
<1>32. ASSUME NEW p \in Proc, CloseWindow(p) \/ Reap(p) PROVE OwnerInv' /\ Hands /\ Mute
  BY <1>32, <1>0, FreesOwner DEF CloseWindow, Reap
<1>33. CASE UNCHANGED vars
  <2>1. KeepsOwner /\ KeepsRoles /\ KeepsQueues
    BY <1>33 DEF vars, KeepsOwner, KeepsHas, KeepsShare, Has, Away, Offers, Takes,
       KeepsRoles, KeepsPhase, KeepsClients, KeepsServers, KeepsQueues
  <2>2. Bare' /\ Lightens
    BY <1>33, FlushLightens DEF vars, Bare, ClientHeld, OwnerInv
  <2>. QED BY <1>0, <2>1, <2>2, LightStep
<1>34. ASSUME NEW p \in Proc, AttachSession(p) PROVE OwnerInv' /\ Hands /\ Mute
  BY <1>34, <1>0, ReceivedOwner
<1>35. ASSUME NEW p \in Proc, DaemonSession(p) PROVE OwnerInv' /\ Hands
  <2>1. conn[p] \in Conn
    BY <1>35 DEF DaemonSession, ServerPC, OwnerInv, AcceptInv, TypeInv, RoleOK
  <2>2. Sends(p, conn[p], [type |-> "sess", win |-> win[p]], "dAck")
    BY <1>35 DEF DaemonSession, Sends, procVars, sockVars
  <2>. QED BY <1>35, <1>0, <2>1, <2>2, SessionOwner DEF DaemonSession
<1>36. ASSUME NEW p \in Proc, TakeoverSession(p) \/ TakeoverListener(p) PROVE OwnerInv' /\ Hands
  <2>1. conn[p] \in Conn
    BY <1>36 DEF TakeoverSession, TakeoverListener, ServerPC, OwnerInv, AcceptInv, TypeInv, RoleOK
  <2>2. CASE Drops(p, "loop") /\ UNCHANGED s2c /\ ~ClientOpen(conn[p])
    <3>1. /\ pc[p] \in {"hsCmd", "hsAck"} /\ pc'[p] = "loop" /\ conn'[p] = None
          /\ \A q \in Proc : q # p => pc'[q] = pc[q] /\ conn'[q] = conn[q]
          /\ UNCHANGED <<obs, lsock, win, backlog>>
      BY <1>36, <2>2 DEF TakeoverSession, TakeoverListener, Drops, sockVars,
         OwnerInv, AcceptInv, TypeInv, TypeOK
    <3>2. KeepsOwner
      BY <2>2, <3>1 DEF KeepsOwner, KeepsHas, KeepsShare, Has, Away, Offers, Takes, ClientOpen
    <3>3. KeepsRoles /\ KeepsQueues
      BY <3>1 DEF KeepsRoles, KeepsPhase, KeepsClients, KeepsServers, ClientPC, KeepsQueues
    <3>4. Bare'
      BY <3>1 DEF OwnerInv, Bare, StartPC
    <3>5. Lightens
      BY <2>2, <3>1, FlushLightens DEF ClientHeld, ClientPC
    <3>. QED BY <1>0, <3>2, <3>3, <3>4, <3>5, LightStep
  <2>3. CASE TakeoverSession(p) /\ Sends(p, conn[p], [type |-> "sess", win |-> win[p]], "hsAck")
    BY <1>0, <2>1, <2>3, SessionOwner DEF TakeoverSession
  <2>4. CASE /\ TakeoverListener(p)
             /\ Sends(p, conn[p], [type |-> "lsock", sock |-> lsock[p]], "hsSize")
    BY <1>0, <2>1, <2>4, ListenerOwner DEF TakeoverListener
  <2>. QED BY <1>36, <2>2, <2>3, <2>4 DEF TakeoverSession, TakeoverListener, Sends, sockVars
<1>. QED
  BY <1>1, <1>2, <1>3, <1>4, <1>5, <1>6, <1>7, <1>8, <1>9, <1>10, <1>11, <1>12, <1>13, <1>14, <1>15, <1>16, <1>17, <1>18, <1>19, <1>20, <1>21, <1>22, <1>23, <1>24, <1>25, <1>26, <1>27, <1>28, <1>29, <1>30, <1>31, <1>32, <1>33, <1>34, <1>35, <1>36
  DEF Next, AttachStep, ServeStep, DaemonStep, ObserveStep, UserStep, LoopStep,
      ProgExits, HangUp, Speaks

LEMMA OwnerInit == Init => OwnerInv
<1>. SUFFICES ASSUME Init PROVE OwnerInv
  OBVIOUS
<1>1. \A p \in Proc, g \in Prog : ~Has(p, g)
  BY DEF Init, Has
<1>2. \A k \in Conn : ~ClientHeld(k)
  BY NoneAssumption DEF Init, ClientHeld, ClientPC
<1>3. Shares
  BY <1>1, <1>2 DEF Shares, OneOwner, OwnerOrCarried, OneCarrier, OneSess, Carried
<1>4. Bare /\ Phases /\ Fresh
  BY <1>2 DEF Init, Bare, StartPC, Phases, InPhase, Fresh
<1>. QED BY <1>3, <1>4, AcceptInit DEF OwnerInv

LEMMA OwnerInvariant == Spec => []OwnerInv
<1>. QED BY OwnerInit, OwnerNext, PTL DEF Spec

\* Of two processes that have a window and read or write it, one has handed it on
\* for good, whatever is started, killed, detached or taken over, and whenever:
\* it is in the round that answered the takeover, or a daemon without a socket.
THEOREM OneDriverAlways == Spec => []OneDriver
<1>1. OwnerInv => OneDriver
  <2>. SUFFICES ASSUME OwnerInv, NEW p \in Proc, NEW q \in Proc, p # q,
                       Works(p), Works(q), NEW g \in Programs(p) \cap Programs(q)
                PROVE  Leftover(p) \/ Leftover(q)
    BY DEF OneDriver
  <2>1. Has(p, g) /\ Has(q, g) /\ g \in Prog
    BY DEF Programs, Has, Window, OwnerInv, AcceptInv, TypeInv, TypeOK
  <2>. QED BY <2>1 DEF OwnerInv, Shares, OneOwner, Away, Passing, Offers, Takes, Works, Serving, Leftover
<1>. QED BY <1>1, OwnerInvariant, PTL

-----------------------------------------------------------------------------
(* ScreenComplete.  A record is complete if it accounts for all the program *)
(* wrote but what is still to come: what is in the pty, and what a process  *)
(* that has handed the window on took out of it.  The owner's records are,  *)
(* and those on their way are: they were the owner's.  A process that is    *)
(* done with its windows moves output from the one share of the rest to the *)
(* other, and its own record does not count any more.                       *)

Rest == [g \in Prog |-> unread[g] + taken[g]]

Complete(W, u, o) ==
  \A w \in W : /\ w.seen + u[w.prog] = o[w.prog]
               /\ \A v \in W : v.prog = w.prog => v = w

ScreenInv ==
  /\ \A p \in Proc : ~Away(p) => Complete(win[p], Rest, out)
  /\ \A k \in Conn, m \in Reply :
       ClientHeld(k) /\ InSeq(m, s2c[k]) /\ m.type = "sess" => Complete(m.win, Rest, out)

\* A step between u, o and v, x leaves a complete record of program g complete.
Accounts(g, u, o, v, x) == \A n \in Nat : n + u[g] = o[g] => n + v[g] = x[g]

LEMMA CompleteLess ==
  ASSUME NEW W \in SUBSET Window, NEW V \in SUBSET W,
         NEW u, NEW o, NEW v, NEW x, Complete(W, u, o),
         \A w \in V : Accounts(w.prog, u, o, v, x)
  PROVE  Complete(V, v, x)
BY DEF Complete, Accounts, Window

\* Steps that change no window but lose some, whatever the programs do.
LEMMA ScreenFrame ==
  ASSUME OwnerInv, TypeInv', Hands, KeepsSize, ScreenInv,
         \A p \in Proc : win'[p] \subseteq win[p],
         \A g \in Prog : Accounts(g, Rest, out, Rest', out')
  PROVE  ScreenInv'
<1>1. /\ \A p \in Proc : win[p] \in SUBSET Window /\ win'[p] \in SUBSET win[p]
      /\ \A w \in Window : w.prog \in Prog
  BY DEF OwnerInv, AcceptInv, TypeInv, TypeOK, Window
<1>2. ASSUME NEW p \in Proc, ~Away(p)' PROVE Complete(win'[p], Rest', out')
  <2>1. CASE win'[p] = {}
    BY <2>1 DEF Complete
  <2>2. CASE win'[p] # {}
    <3>1. ~Away(p)
      BY <1>2, <2>2, AwayStays DEF Hands
    <3>2. Complete(win[p], Rest, out)
      BY <3>1 DEF ScreenInv
    <3>3. \A w \in win'[p] : Accounts(w.prog, Rest, out, Rest', out')
      BY <1>1
    <3>4. win[p] \in SUBSET Window /\ win'[p] \in SUBSET win[p]
      BY <1>1
    <3>. QED BY <3>2, <3>3, <3>4, CompleteLess
  <2>. QED BY <2>1, <2>2
<1>3. ASSUME NEW k \in Conn, NEW m \in Reply,
             ClientHeld(k)', InSeq(m, s2c'[k]), m.type = "sess"
      PROVE  Complete(m.win, Rest', out')
  <2>1. Complete(m.win, Rest, out)
    BY <1>3 DEF Hands, KeepsMail, ScreenInv
  <2>2. m.win \in SUBSET Window
    BY <1>3 DEF Reply
  <2>. QED BY <1>1, <2>1, <2>2, CompleteLess
<1>. QED BY <1>2, <1>3 DEF ScreenInv

\* A new program: nobody has a record of it, so nobody's is spoilt.
LEMMA NewScreen ==
  ASSUME OwnerInv, TypeInv', Hands, KeepsSize, ScreenInv,
         NEW p \in Proc, NEW g \in Prog, RunsProgram(p, g),
         \A k \in Conn : ClientHeld(k)' => ClientHeld(k), s2c' = s2c
  PROVE  ScreenInv'
<1>. DEFINE new == [prog |-> g, seen |-> 0, bare |-> FALSE]
<1>1. /\ \A q \in Proc : win[q] \in SUBSET Window
      /\ unread \in [Prog -> Nat] /\ out \in [Prog -> Nat] /\ taken \in [Prog -> Nat]
      /\ \A w \in Window : w.prog \in Prog
  BY DEF OwnerInv, AcceptInv, TypeInv, TypeOK, Window
<1>2. \A h \in Prog : h # g => Accounts(h, Rest, out, Rest', out')
  BY <1>1 DEF RunsProgram, Accounts, Rest
<1>3. \A q \in Proc : \A w \in win[q] : w.prog # g
  BY DEF RunsProgram, FreeProg, MasterOpen, Listed
<1>4. \A k \in Conn, m \in Reply : ClientHeld(k) /\ InSeq(m, s2c[k]) /\ m.type = "sess"
        => \A w \in m.win : w.prog # g
  BY DEF RunsProgram, FreeProg, MasterOpen, Listed, Sent, InSeq
<1>5. \A q \in Proc : win'[q] = IF q = p THEN win[p] \cup {new} ELSE win[q]
  BY <1>1 DEF RunsProgram, OwnerInv, AcceptInv, TypeInv, TypeOK
<1>6. ASSUME NEW q \in Proc, ~Away(q)' PROVE Complete(win'[q], Rest', out')
  <2>1. CASE q = p
    <3>0. win'[p] # {} /\ ~Away(p)
      BY <1>5, <1>6, <2>1, AwayStays DEF Hands
    <3>1. Complete(win[p], Rest', out')
      BY <1>1, <1>2, <1>3, <3>0, CompleteLess DEF ScreenInv
    <3>2. Rest'[g] = 0 /\ out'[g] = 0
      BY <1>1 DEF RunsProgram, Rest
    <3>3. new.seen = 0 /\ new.prog = g
      OBVIOUS
    <3>4. win'[q] = win[p] \cup {new}
      BY <1>5, <2>1
    <3>. HIDE DEF new
    <3>. QED BY <1>3, <3>1, <3>2, <3>3, <3>4 DEF Complete
  <2>2. CASE q # p /\ win[q] # {}
    <3>1. ~Away(q)
      BY <1>5, <1>6, <2>2, AwayStays DEF Hands
    <3>. QED BY <1>1, <1>2, <1>3, <1>5, <2>2, <3>1, CompleteLess DEF ScreenInv
  <2>3. CASE q # p /\ win[q] = {}
    BY <1>5, <2>3 DEF Complete
  <2>. QED BY <2>1, <2>2, <2>3
<1>7. ASSUME NEW k \in Conn, NEW m \in Reply,
             ClientHeld(k)', InSeq(m, s2c'[k]), m.type = "sess"
      PROVE  Complete(m.win, Rest', out')
  <2>1. Complete(m.win, Rest, out) /\ \A w \in m.win : w.prog # g
    BY <1>4, <1>7 DEF ScreenInv
  <2>2. m.win \in SUBSET Window
    BY <1>7 DEF Reply
  <2>. QED BY <1>1, <1>2, <2>1, <2>2, CompleteLess
<1>. QED BY <1>6, <1>7 DEF ScreenInv

\* Who still has the right to the window reads into the one record that counts;
\* anybody else leaves the rest as it is.
LEMMA DrainScreen ==
  ASSUME OwnerInv, TypeInv', Hands, KeepsSize, ScreenInv,
         NEW p \in Proc, Drain(p)
  PROVE  ScreenInv'
<1>1. /\ \A q \in Proc : win[q] \in SUBSET Window
      /\ unread \in [Prog -> Nat] /\ out \in [Prog -> Nat] /\ taken \in [Prog -> Nat]
      /\ \A w \in Window : w.prog \in Prog /\ w.seen \in Nat
  BY DEF OwnerInv, AcceptInv, TypeInv, TypeOK, Window
<1>2. PICK w \in win[p] :
        /\ win' = [win EXCEPT ![p] =
                     (@ \ {w}) \cup {[w EXCEPT !.seen = @ + unread[w.prog]]}]
        /\ unread' = [unread EXCEPT ![w.prog] = 0]
        /\ taken' = IF Leftover(p) THEN [taken EXCEPT ![w.prog] = @ + unread[w.prog]] ELSE taken
  BY DEF Drain
<1>. DEFINE g == w.prog
            read == [w EXCEPT !.seen = @ + unread[w.prog]]
<1>3. w \in Window /\ g \in Prog /\ Has(p, g) /\ out' = out /\ UNCHANGED <<pc, conn, obs, lsock, s2c>>
  BY <1>1, <1>2 DEF Drain, Has
<1>4. /\ pc[p] \in {"loop", "handed", "daemon"}
      /\ Away(p) <=> Leftover(p)
      /\ Away(p)' <=> Away(p)
  BY <1>3 DEF Drain, Looping, Away, Leftover
<1>5. read.prog = g /\ read.seen = w.seen + unread[g]
  BY <1>3 DEF Window
<1>6. /\ win'[p] = (win[p] \ {w}) \cup {read}
      /\ \A q \in Proc : q # p => win'[q] = win[q]
      /\ Leftover(p) => Rest'[g] = Rest[g]
      /\ ~Leftover(p) => Rest'[g] = taken[g]
      /\ Rest[g] = unread[g] + taken[g] /\ unread[g] \in Nat /\ taken[g] \in Nat
      /\ \A h \in Prog : h # g => Rest'[h] = Rest[h]
  BY <1>1, <1>2, <1>3 DEF OwnerInv, AcceptInv, TypeInv, TypeOK, Rest
<1>10. \A h \in Prog : h # g \/ Away(p) => Accounts(h, Rest, out, Rest', out')
  BY <1>3, <1>4, <1>6 DEF Accounts
<1>. HIDE DEF g, read
<1>7. ASSUME ~Away(p) PROVE Complete(win'[p], Rest', out')
  <2>1. Complete(win[p], Rest, out)
    BY <1>7 DEF ScreenInv
  <2>2. \A v \in win[p] \ {w} : v.prog # g
    BY <2>1 DEF Complete, g
  <2>3. Complete(win[p] \ {w}, Rest', out')
    BY <1>1, <1>10, <2>1, <2>2, CompleteLess
  <2>4. read.seen + Rest'[read.prog] = out'[read.prog]
    <3>1. w.seen + Rest[g] = out[g] /\ out[g] \in Nat /\ w.seen \in Nat
      BY <1>1, <1>3, <2>1 DEF Complete, g
    <3>2. read.seen = w.seen + unread[g] /\ Rest'[g] = taken[g] /\ read.prog = g /\ out' = out
      BY <1>3, <1>4, <1>5, <1>6, <1>7
    <3>3. Rest[g] = unread[g] + taken[g] /\ unread[g] \in Nat /\ taken[g] \in Nat
      BY <1>6
    <3>. QED BY <3>1, <3>2, <3>3
  <2>. QED BY <1>5, <1>6, <2>2, <2>3, <2>4 DEF Complete
<1>8. ASSUME NEW q \in Proc, q # p, ~Away(q)' PROVE Complete(win'[q], Rest', out')
  <2>1. CASE win[q] # {}
    <3>1. ~Away(q)
      BY <1>6, <1>8, <2>1, AwayStays DEF Hands
    <3>2. ~Has(q, g) \/ Away(p)
      BY <1>3, <1>4, <1>8, <3>1
      DEF OwnerInv, Shares, OneOwner, Passing, Offers, Takes
    <3>3. \A v \in win[q] : Accounts(v.prog, Rest, out, Rest', out')
      BY <1>1, <1>10, <3>2 DEF Has
    <3>4. Complete(win[q], Rest, out) /\ win'[q] = win[q] /\ win[q] \in SUBSET Window
      BY <1>1, <1>6, <1>8, <3>1 DEF ScreenInv
    <3>. QED BY <3>3, <3>4, CompleteLess
  <2>2. CASE win[q] = {}
    BY <1>6, <1>8, <2>2 DEF Complete
  <2>. QED BY <2>1, <2>2
<1>9. ASSUME NEW k \in Conn, NEW m \in Reply,
             ClientHeld(k)', InSeq(m, s2c'[k]), m.type = "sess"
      PROVE  Complete(m.win, Rest', out')
  <2>1. ClientHeld(k) /\ InSeq(m, s2c[k])
    BY <1>3, <1>9 DEF ClientHeld
  <2>2. ~Carried(k, g) \/ Away(p)
    BY <1>3, <1>4 DEF OwnerInv, Shares, OwnerOrCarried, Offers
  <2>3. Away(p) \/ \A v \in m.win : v.prog # g
    BY <1>9, <2>1, <2>2 DEF Carried, Carries, Lists, InSeq
  <2>4. Complete(m.win, Rest, out) /\ m.win \in SUBSET Window
    BY <1>9, <2>1 DEF ScreenInv, Reply
  <2>. QED BY <1>1, <1>10, <2>3, <2>4, CompleteLess
<1>. QED BY <1>4, <1>7, <1>8, <1>9 DEF ScreenInv

\* The attacher's records are those of the message, but for a flag.
LEMMA ReceivedScreen ==
  ASSUME OwnerInv, TypeInv', Hands, KeepsSize, ScreenInv, NEW p \in Proc, AttachSession(p)
  PROVE  ScreenInv'
<1>0. PICK k \in Conn : k = conn[p]
  BY DEF AttachSession, ClientPC, OwnerInv, AcceptInv, TypeInv, RoleOK
<1>. DEFINE m == Head(s2c[k])
<1>1. /\ s2c[k] \in Seq(Reply) /\ s2c[k] # <<>> /\ m.type = "sess"
      /\ UNCHANGED <<lsock, unread, taken, out>> /\ ClientHeld(k)
      /\ \A q \in Proc : q # p => win'[q] = win[q] /\ pc'[q] = pc[q]
      /\ pc'[p] \in {"sock", "rebind"}
      /\ win'[p] = {[w EXCEPT !.bare = TRUE] : w \in m.win}
  BY <1>0 DEF AttachSession, progVars, ClientHeld, ClientPC,
     OwnerInv, AcceptInv, TypeInv, TypeOK, Replies
<1>2. m \in Reply /\ InSeq(m, s2c[k])
  <2>1. 1 \in DOMAIN s2c[k] /\ s2c[k][1] = m /\ m \in Reply
    BY <1>1
  <2>. QED BY <2>1 DEF InSeq
<1>3. Complete(m.win, Rest, out) /\ m.win \in SUBSET Window
  BY <1>1, <1>2 DEF ScreenInv, Reply
<1>. DEFINE bared(w) == [w EXCEPT !.bare = TRUE]
<1>4. \A w \in m.win : bared(w).prog = w.prog /\ bared(w).seen = w.seen
  BY <1>3 DEF Window
<1>8. Rest' = Rest /\ out' = out
  BY <1>1 DEF Rest
<1>5. Complete(win'[p], Rest', out')
  <2>1. win'[p] = {bared(w) : w \in m.win}
    BY <1>1
  <2>. HIDE DEF bared, m
  <2>. QED BY <1>8, <1>3, <1>4, <2>1 DEF Complete
<1>6. ASSUME NEW q \in Proc, q # p, ~Away(q)' PROVE Complete(win'[q], Rest', out')
  <2>1. CASE win[q] # {}
    BY <1>1, <1>6, <1>8, <2>1, AwayStays DEF Hands, ScreenInv
  <2>2. CASE win[q] = {}
    BY <1>1, <1>6, <1>8, <2>2 DEF Complete
  <2>. QED BY <2>1, <2>2
<1>7. ASSUME NEW c \in Conn, NEW n \in Reply,
             ClientHeld(c)', InSeq(n, s2c'[c]), n.type = "sess"
      PROVE  Complete(n.win, Rest', out')
  BY <1>1, <1>7, <1>8 DEF Hands, KeepsMail, ScreenInv
<1>. QED BY <1>1, <1>5, <1>6, <1>7 DEF ScreenInv

\* What the other steps have in common.
PlainStep ==
  /\ \A p \in Proc : win'[p] \subseteq win[p]
  /\ \A g \in Prog : Accounts(g, Rest, out, Rest', out')

LEMMA GonePlain ==
  ASSUME OwnerInv, ScreenInv, NEW p \in Proc, Gone(p), UNCHANGED progVars
  PROVE  PlainStep
BY DEF Gone, progVars, PlainStep, Accounts, Rest, ScreenInv, OwnerInv, AcceptInv, TypeInv, TypeOK

LEMMA ScreenNext == OwnerInv /\ ScreenInv /\ [Next]_vars => ScreenInv'
<1>. SUFFICES ASSUME OwnerInv, ScreenInv, [Next]_vars
              PROVE  ScreenInv'
  OBVIOUS
<1>. USE NoneAssumption
<1>0. TypeInv' /\ KeepsSize /\ Hands
  BY AcceptNext, OwnerNext DEF OwnerInv, AcceptInv, Continues
<1>. SUFFICES ASSUME ~PlainStep PROVE ScreenInv'
  BY <1>0, ScreenFrame DEF PlainStep
<1>1. ASSUME NEW p \in Proc, AttachRefused(p) PROVE FALSE
  BY <1>1, GonePlain DEF AttachRefused, Quits
<1>2. ASSUME NEW p \in Proc, ObserveEnd(p) PROVE FALSE
  BY <1>2, GonePlain DEF ObserveEnd, Quits
<1>3. ASSUME NEW p \in Proc, ObserveLeave(p) PROVE FALSE
  BY <1>3, GonePlain DEF ObserveLeave, Quits
<1>4. ASSUME NEW p \in Proc, AttachLost(p) PROVE FALSE
  BY <1>4, GonePlain DEF AttachLost
<1>5. ASSUME NEW p \in Proc, BindFails(p) PROVE FALSE
  BY <1>5, GonePlain DEF BindFails
<1>6. ASSUME NEW p \in Proc, DaemonExit(p) PROVE FALSE
  BY <1>6, GonePlain DEF DaemonExit
<1>7. ASSUME NEW p \in Proc, Crash(p) PROVE FALSE
  BY <1>7, GonePlain DEF Crash
<1>8. ASSUME NEW p \in Proc, Quit(p) PROVE FALSE
  BY <1>8, GonePlain DEF Quit, Quits
<1>9. ASSUME NEW p \in Proc, CloseWindow(p) PROVE FALSE
  <2>1. PICK w \in win[p] : Frees(p, w)
    BY <1>9 DEF CloseWindow
  <2>2. CASE Gone(p)
    BY <1>9, <2>2, GonePlain DEF CloseWindow
  <2>3. CASE win' = [win EXCEPT ![p] = @ \ {w}] /\ UNCHANGED <<pc, lsock>>
    BY <1>9, <2>3 DEF CloseWindow, PlainStep, Accounts, Rest, ScreenInv, progVars, OwnerInv, AcceptInv, TypeInv, TypeOK
  <2>. QED BY <2>1, <2>2, <2>3 DEF Frees, Quits
<1>10. ASSUME NEW p \in Proc, Reap(p) PROVE FALSE
  <2>1. PICK w \in win[p] : Frees(p, w)
    BY <1>10 DEF Reap
  <2>2. CASE Gone(p)
    BY <1>10, <2>2, GonePlain DEF Reap
  <2>3. CASE win' = [win EXCEPT ![p] = @ \ {w}] /\ UNCHANGED <<pc, lsock>>
    BY <1>10, <2>3 DEF Reap, PlainStep, Accounts, Rest, ScreenInv, progVars, OwnerInv, AcceptInv, TypeInv, TypeOK
  <2>. QED BY <2>1, <2>2, <2>3 DEF Frees, Quits
<1>11. ASSUME NEW p \in Proc, ListenRefused(p) PROVE FALSE
  BY <1>11 DEF ListenRefused, procVars, progVars, PlainStep, Accounts, Rest, ScreenInv, OwnerInv, AcceptInv, TypeInv, TypeOK
<1>12. ASSUME NEW p \in Proc, ListenProbe(p) PROVE FALSE
  BY <1>12 DEF ListenProbe, procVars, progVars, PlainStep, Accounts, Rest, ScreenInv, OwnerInv, AcceptInv, TypeInv, TypeOK
<1>13. ASSUME NEW p \in Proc, ListenUnlink(p) PROVE FALSE
  BY <1>13 DEF ListenUnlink, procVars, progVars, PlainStep, Accounts, Rest, ScreenInv, OwnerInv, AcceptInv, TypeInv, TypeOK
<1>14. ASSUME NEW p \in Proc, RebindUnlink(p) PROVE FALSE
  BY <1>14 DEF RebindUnlink, procVars, progVars, PlainStep, Accounts, Rest, ScreenInv, OwnerInv, AcceptInv, TypeInv, TypeOK
<1>15. ASSUME NEW p \in Proc, RebindBind(p) PROVE FALSE
  BY <1>15 DEF RebindBind, Binds, progVars, PlainStep, Accounts, Rest, ScreenInv, OwnerInv, AcceptInv, TypeInv, TypeOK
<1>16. ASSUME NEW p \in Proc, AttachConnect(p) PROVE FALSE
  BY <1>16 DEF AttachConnect, progVars, PlainStep, Accounts, Rest, ScreenInv, OwnerInv, AcceptInv, TypeInv, TypeOK
<1>17. ASSUME NEW p \in Proc, AttachQuery(p) PROVE FALSE
  BY <1>17 DEF AttachQuery, procVars, progVars, PlainStep, Accounts, Rest, ScreenInv, OwnerInv, AcceptInv, TypeInv, TypeOK
<1>18. ASSUME NEW p \in Proc, AttachListener(p) PROVE FALSE
  BY <1>18 DEF AttachListener, progVars, PlainStep, Accounts, Rest, ScreenInv, OwnerInv, AcceptInv, TypeInv, TypeOK
<1>19. ASSUME NEW p \in Proc, AttachSize(p) PROVE FALSE
  BY <1>19 DEF AttachSize, progVars, PlainStep, Accounts, Rest, ScreenInv, OwnerInv, AcceptInv, TypeInv, TypeOK
<1>20. ASSUME NEW p \in Proc, Accept(p) PROVE FALSE
  BY <1>20 DEF Accept, Accepts, progVars, PlainStep, Accounts, Rest, ScreenInv, OwnerInv, AcceptInv, TypeInv, TypeOK
<1>21. ASSUME NEW p \in Proc, DaemonAccept(p) PROVE FALSE
  BY <1>21 DEF DaemonAccept, Accepts, progVars, PlainStep, Accounts, Rest, ScreenInv, OwnerInv, AcceptInv, TypeInv, TypeOK
<1>22. ASSUME NEW p \in Proc, TakeoverSession(p) PROVE FALSE
  BY <1>22 DEF TakeoverSession, Drops, progVars, PlainStep, Accounts, Rest, ScreenInv, OwnerInv, AcceptInv, TypeInv, TypeOK
<1>23. ASSUME NEW p \in Proc, TakeoverListener(p) PROVE FALSE
  BY <1>23 DEF TakeoverListener, Drops, progVars, PlainStep, Accounts, Rest, ScreenInv, OwnerInv, AcceptInv, TypeInv, TypeOK
<1>24. ASSUME NEW p \in Proc, TakeoverDone(p) PROVE FALSE
  BY <1>24 DEF TakeoverDone, progVars, PlainStep, Accounts, Rest, ScreenInv, OwnerInv, AcceptInv, TypeInv, TypeOK
<1>25. ASSUME NEW p \in Proc, TakeoverLost(p) PROVE FALSE
  BY <1>25 DEF TakeoverLost, Drops, progVars, PlainStep, Accounts, Rest, ScreenInv, OwnerInv, AcceptInv, TypeInv, TypeOK
<1>26. ASSUME NEW p \in Proc, BecomeObserver(p) PROVE FALSE
  BY <1>26 DEF BecomeObserver, progVars, PlainStep, Accounts, Rest, ScreenInv, OwnerInv, AcceptInv, TypeInv, TypeOK
<1>27. ASSUME NEW p \in Proc, ObserverGone(p) PROVE FALSE
  BY <1>27 DEF ObserverGone, progVars, PlainStep, Accounts, Rest, ScreenInv, OwnerInv, AcceptInv, TypeInv, TypeOK
<1>28. ASSUME NEW p \in Proc, Detach(p) PROVE FALSE
  BY <1>28 DEF Detach, Looping, RoleOK, progVars, PlainStep, Accounts, Rest, ScreenInv, OwnerInv, AcceptInv, TypeInv, TypeOK
<1>29. ASSUME NEW p \in Proc, ObserveBye(p) PROVE FALSE
  BY <1>29 DEF ObserveBye, Drops, progVars, PlainStep, Accounts, Rest, ScreenInv, OwnerInv, AcceptInv, TypeInv, TypeOK
<1>30. ASSUME NEW p \in Proc, DaemonSession(p) PROVE FALSE
  BY <1>30 DEF DaemonSession, procVars, progVars, PlainStep, Accounts, Rest, ScreenInv, OwnerInv, AcceptInv, TypeInv, TypeOK
<1>31. ASSUME NEW p \in Proc, DaemonDrop(p) PROVE FALSE
  BY <1>31 DEF DaemonDrop, Drops, RoleOK, progVars, PlainStep, Accounts, Rest, ScreenInv, OwnerInv, AcceptInv, TypeInv, TypeOK
<1>32. ASSUME NEW g \in Prog, ProgWrites(g) PROVE FALSE
  BY <1>32 DEF ProgWrites, procVars, PlainStep, Accounts, Rest, ScreenInv, OwnerInv, AcceptInv, TypeInv, TypeOK
<1>33. ASSUME NEW g \in Prog, Ends(g) PROVE FALSE
  BY <1>33 DEF Ends, procVars, PlainStep, Accounts, Rest, ScreenInv
<1>34. ASSUME UNCHANGED vars PROVE FALSE
  BY <1>34 DEF vars, PlainStep, Accounts, Rest, ScreenInv
<1>35. ASSUME NEW p \in Proc, AttachSession(p) PROVE ScreenInv'
  BY <1>35, <1>0, ReceivedScreen
<1>36. ASSUME NEW p \in Proc, Drain(p) PROVE ScreenInv'
  BY <1>36, <1>0, DrainScreen
<1>37. ASSUME NEW p \in Proc, NewWindow(p) PROVE ScreenInv'
  <2>1. PICK g \in Prog : RunsProgram(p, g)
    BY <1>37 DEF NewWindow
  <2>. QED BY <1>37, <1>0, <2>1, NewScreen DEF NewWindow, ClientHeld
<1>38. ASSUME NEW p \in Proc, ListenBind(p) PROVE ScreenInv'
  <2>1. PICK l \in Sock, g \in Prog : Binds(p, l) /\ RunsProgram(p, g)
    BY <1>38 DEF ListenBind
  <2>2. \A k \in Conn : ClientHeld(k)' => ClientHeld(k)
    BY <1>38, <2>1 DEF ListenBind, Binds, ClientHeld, ClientPC, OwnerInv, AcceptInv, TypeInv, TypeOK
  <2>. QED BY <1>38, <1>0, <2>1, <2>2, NewScreen DEF ListenBind
<1>. QED
  BY <1>1, <1>2, <1>3, <1>4, <1>5, <1>6, <1>7, <1>8, <1>9, <1>10, <1>11, <1>12, <1>13, <1>14, <1>15, <1>16, <1>17, <1>18, <1>19, <1>20, <1>21, <1>22, <1>23, <1>24, <1>25, <1>26, <1>27, <1>28, <1>29, <1>30, <1>31, <1>32, <1>33, <1>34, <1>35, <1>36, <1>37, <1>38
  DEF Next, AttachStep, ServeStep, DaemonStep, ObserveStep, UserStep, LoopStep,
      ProgExits, HangUp

LEMMA ScreenInit == Init => ScreenInv
<1>. SUFFICES ASSUME Init PROVE ScreenInv
  OBVIOUS
<1>1. \A k \in Conn : ~ClientHeld(k)
  BY NoneAssumption DEF Init, ClientHeld, ClientPC
<1>. QED BY <1>1 DEF Init, ScreenInv, Complete

\* What the owner of a window has not seen is in the pty or was read by a process
\* that had handed the window on, however often and by whichever way it was
\* handed on, and whoever was killed: no other output is lost from the screens.
THEOREM ScreensWhole == Spec => []ScreenComplete
<1>1. Init => OwnerInv /\ ScreenInv
  BY OwnerInit, ScreenInit
<1>2. OwnerInv /\ ScreenInv /\ [Next]_vars => (OwnerInv /\ ScreenInv)'
  BY OwnerNext, ScreenNext
<1>3. OwnerInv /\ ScreenInv => ScreenComplete
  <2>. SUFFICES ASSUME OwnerInv, ScreenInv, NEW p \in Proc, Driving(p), NEW w \in win[p]
                PROVE  w.seen + unread[w.prog] + taken[w.prog] = out[w.prog]
    BY DEF ScreenComplete
  <2>1. w.seen + Rest[w.prog] = out[w.prog]
    BY DEF ScreenInv, Complete, Driving, Serving, Away
  <2>2. w.prog \in Prog /\ w.seen \in Nat /\ unread \in [Prog -> Nat] /\ taken \in [Prog -> Nat]
    BY DEF Window, OwnerInv, AcceptInv, TypeInv, TypeOK
  <2>. QED BY <2>1, <2>2 DEF Rest
<1>. QED BY <1>1, <1>2, <1>3, PTL DEF Spec
=============================================================================
