----------------------------- MODULE MuxSession -----------------------------
(* The session of `mux' (src/tmux): the processes that may hold it, the     *)
(* Unix socket they find each other through, and the descriptors they pass. *)
(*                                                                          *)
(* A process is started as `mux' (a new session) or `mux attach', and plays *)
(* one role at a time, kept in pc:                                          *)
(*   start    probed, unlinked         session_listen, step by step         *)
(*   attach   query, take, sock, sizing, fetch, rebind, bind                *)
(*   live     loop, hsCmd, hsAck, hsSize (handle_session_conn), handed (the *)
(*            rest of the loop round after a takeover)                      *)
(*   daemon   daemon, dCmd, dAck       daemon_run and daemon_serve          *)
(*   observer observe, again           session_observe_fd, then re-attach   *)
(* A fork that is followed by the exit of the parent (session_detach) keeps *)
(* the process's name: descriptors are the same before and after.           *)
EXTENDS Naturals, Sequences, FiniteSets

CONSTANTS
  Proc,       \* process slots; a slot is used again after its process ended
  Prog,       \* programs run in windows, named after the master of their pty
  Sock,       \* listening sockets; used again once nothing refers to them
  Conn,       \* connections; used again likewise
  None,       \* "no descriptor" (-1 in the code)
  Backlog,    \* connections the kernel queues on a listening socket
  MaxOut,     \* bound: chunks of output a program writes
  MaxCrash,   \* bound: processes killed without warning
  SoloStart   \* TRUE: plain `mux' is only run while no other mux runs

ASSUME NoneAssumption == None \notin Proc \cup Prog \cup Sock \cup Conn
ASSUME BoundAssumption == /\ Backlog \in Nat \ {0}
                          /\ MaxOut \in Nat
                          /\ MaxCrash \in Nat
ASSUME ScenarioAssumption == SoloStart \in BOOLEAN

VARIABLES
  pc,       \* role of each process
  conn,     \* connection of the handshake, or of the observer
  obs,      \* g_observer_fd: the live instance's connection to its observer
  lsock,    \* g_session_sock, or the daemon's sock
  leak,     \* listening sockets a process holds open in no variable
  win,      \* g_wins: the live windows, one record each
  stray,    \* pty masters a process holds open in no window
  path,     \* listening socket MUX_SOCKET_PATH is bound to
  backlog,  \* connections waiting for accept() on each listening socket
  c2s, s2c, \* what is in flight on a connection, each way
  running,  \* programs that run
  pinh,     \* pty masters a program inherited from the process that ran it
  cinh,     \* connection ends it inherited
  unread,   \* chunks in a pty, not read yet
  out,      \* chunks the program has written
  taken,    \* history: chunks of it read by a process that had handed it on
  crashes   \* processes killed so far

vars == <<pc, conn, obs, lsock, leak, win, stray, path, backlog, c2s, s2c,
          running, pinh, cinh, unread, out, taken, crashes>>
procVars == <<conn, obs, lsock, leak, win, stray>>
sockVars == <<path, backlog>>
progVars == <<running, pinh, cinh, unread, out, taken>>

StartPC  == {"probed", "unlinked"}
ClientPC == {"query", "take", "sock", "sizing", "fetch"}
ServerPC == {"hsCmd", "hsAck", "hsSize", "handed", "dCmd", "dAck", "observe"}
Role == {"idle", "rebind", "bind", "loop", "daemon", "again"}
          \cup StartPC \cup ClientPC \cup ServerPC

\* bare: the descriptor has no FD_CLOEXEC; seen: chunks fed to the window's VT
Window == [prog : Prog, seen : Nat, bare : BOOLEAN]
Stray  == [prog : Prog, bare : BOOLEAN]

Request == {"?", "T", "A", "ack", "size", "bye"}
Reply   == [type : {"L", "D"}]
             \cup [type : {"sess"}, win : SUBSET Window]
             \cup [type : {"lsock"}, sock : Sock]

Backlogs == [Sock -> Seq(Conn)]
Requests == [Conn -> Seq(Request)]
Replies  == [Conn -> Seq(Reply)]

TypeOK ==
  /\ pc \in [Proc -> Role]
  /\ conn \in [Proc -> Conn \cup {None}]
  /\ obs \in [Proc -> Conn \cup {None}]
  /\ lsock \in [Proc -> Sock \cup {None}]
  /\ leak \in [Proc -> SUBSET Sock]
  /\ win \in [Proc -> SUBSET Window]
  /\ stray \in [Proc -> SUBSET Stray]
  /\ path \in Sock \cup {None}
  /\ backlog \in Backlogs
  /\ c2s \in Requests
  /\ s2c \in Replies
  /\ running \subseteq Prog
  /\ pinh \in [Prog -> SUBSET Prog]
  /\ cinh \in [Prog -> SUBSET (Conn \X {"c", "s"})]
  /\ unread \in [Prog -> Nat]
  /\ out \in [Prog -> Nat]
  /\ taken \in [Prog -> Nat]
  /\ crashes \in Nat

-----------------------------------------------------------------------------
(* Who holds what.  The kernel closes an object when its last descriptor    *)
(* goes: in a process, in a program that inherited it, or in a message.     *)

InSeq(m, q) == \E i \in DOMAIN q : q[i] = m

\* The process that connected: the attacher, later the live instance it became.
ClientHeld(k) == \E p \in Proc : \/ obs[p] = k
                                 \/ pc[p] \in ClientPC /\ conn[p] = k
\* The process that accepted: live instance or daemon, later the observer.
\* (A daemon forked in a takeover's round still holds its parent's.)
ServerHeld(k) == \E p \in Proc : pc[p] \notin ClientPC /\ conn[p] = k
Inherited(k, end) == \E g \in running : <<k, end>> \in cinh[g]

\* Replies still to be received: a descriptor among them is open.
InFlight(m) == \E k \in Conn : ClientHeld(k) /\ InSeq(m, s2c[k])

ListenerOpen(l) == \/ \E p \in Proc : lsock[p] = l \/ l \in leak[p]
                   \/ InFlight([type |-> "lsock", sock |-> l])

ClientOpen(k) == ClientHeld(k) \/ Inherited(k, "c")
ServerOpen(k) == \/ ServerHeld(k) \/ Inherited(k, "s")
                 \/ \E l \in Sock : InSeq(k, backlog[l]) /\ ListenerOpen(l)

Sent(g) == \E k \in Conn : /\ ClientHeld(k)
                           /\ \E i \in DOMAIN s2c[k] :
                                /\ s2c[k][i].type = "sess"
                                /\ \E w \in s2c[k][i].win : w.prog = g
Listed(g) == Sent(g) \/ \E p \in Proc : \E w \in win[p] : w.prog = g
MasterOpen(g) == \/ Listed(g)
                 \/ \E p \in Proc : \E d \in stray[p] : d.prog = g
                 \/ \E h \in running : g \in pinh[h]

FreeSock(l) == path # l /\ ~ListenerOpen(l)
FreeConn(k) == ~ClientOpen(k) /\ ~ServerOpen(k)
FreeProg(g) == g \notin running /\ ~MasterOpen(g)

Flush(q, ks) == [k \in Conn |-> IF k \in ks THEN <<>> ELSE q[k]]
ClientEnds(p) == {obs[p]} \cup (IF pc[p] \in ClientPC THEN {conn[p]} ELSE {})
ServerEnds(p) == IF pc[p] \in ClientPC THEN {} ELSE {conn[p]}

\* Process p ends: every descriptor of it is closed.
Gone(p) ==
  /\ pc' = [pc EXCEPT ![p] = "idle"]
  /\ conn' = [conn EXCEPT ![p] = None]
  /\ obs' = [obs EXCEPT ![p] = None]
  /\ lsock' = [lsock EXCEPT ![p] = None]
  /\ leak' = [leak EXCEPT ![p] = {}]
  /\ win' = [win EXCEPT ![p] = {}]
  /\ stray' = [stray EXCEPT ![p] = {}]
  /\ c2s' = Flush(c2s, ServerEnds(p))
  /\ s2c' = Flush(s2c, ClientEnds(p))

\* cleanup(): what was listened on is unlinked, by name.
Quits(p) == /\ Gone(p)
            /\ path' = IF lsock[p] # None THEN None ELSE path

Send(q, k, m) == [q EXCEPT ![k] = Append(@, m)]
Recv(q, k)    == [q EXCEPT ![k] = Tail(@)]

Write(q, k, m, open) == IF open THEN Send(q, k, m) ELSE q   \* else EPIPE

-----------------------------------------------------------------------------
Init ==
  /\ pc = [p \in Proc |-> "idle"]
  /\ conn = [p \in Proc |-> None]
  /\ obs = [p \in Proc |-> None]
  /\ lsock = [p \in Proc |-> None]
  /\ leak = [p \in Proc |-> {}]
  /\ win = [p \in Proc |-> {}]
  /\ stray = [p \in Proc |-> {}]
  /\ path = None
  /\ backlog = [l \in Sock |-> <<>>]
  /\ c2s = [k \in Conn |-> <<>>]
  /\ s2c = [k \in Conn |-> <<>>]
  /\ running = {}
  /\ pinh = [g \in Prog |-> {}]
  /\ cinh = [g \in Prog |-> {}]
  /\ unread = [g \in Prog |-> 0]
  /\ out = [g \in Prog |-> 0]
  /\ taken = [g \in Prog |-> 0]
  /\ crashes = 0

-----------------------------------------------------------------------------
(* A new session: session_listen, then the first window.                    *)

Connectable(l) == l # None /\ ListenerOpen(l)

\* window_create: fork and exec; what has no FD_CLOEXEC goes along.
RunsProgram(p, g) ==
  /\ FreeProg(g)
  /\ running' = running \cup {g}
  /\ win' = [win EXCEPT ![p] = @ \cup {[prog |-> g, seen |-> 0, bare |-> FALSE]}]
  /\ pinh' = [pinh EXCEPT ![g] = {d.prog : d \in {e \in win[p] \cup stray[p] : e.bare}}]
  /\ cinh' = [cinh EXCEPT ![g] = ({obs[p]} \ {None}) \X {"c"}
                                   \cup ({conn[p]} \ {None}) \X {"s"}]
  /\ unread' = [unread EXCEPT ![g] = 0]
  /\ out' = [out EXCEPT ![g] = 0]
  /\ taken' = [taken EXCEPT ![g] = 0]

MayStart == SoloStart => \A q \in Proc : pc[q] = "idle"

\* The probe connects: another session listens, this process gives up.
ListenRefused(p) ==
  /\ pc[p] = "idle" /\ MayStart
  /\ Connectable(path) /\ Len(backlog[path]) < Backlog
  /\ \E k \in Conn : /\ FreeConn(k)
                     /\ backlog' = Send(backlog, path, k)
                     /\ c2s' = Flush(c2s, {k})
                     /\ s2c' = Flush(s2c, {k})
  /\ UNCHANGED <<pc, procVars, path, progVars, crashes>>

ListenProbe(p) ==
  /\ pc[p] = "idle" /\ MayStart
  /\ ~Connectable(path)
  /\ pc' = [pc EXCEPT ![p] = "probed"]
  /\ UNCHANGED <<procVars, sockVars, c2s, s2c, progVars, crashes>>

ListenUnlink(p) ==
  /\ pc[p] = "probed"
  /\ pc' = [pc EXCEPT ![p] = "unlinked"]
  /\ path' = None
  /\ UNCHANGED <<procVars, backlog, c2s, s2c, progVars, crashes>>

Binds(p, l) ==
  /\ path = None /\ FreeSock(l)
  /\ path' = l
  /\ backlog' = [backlog EXCEPT ![l] = <<>>]
  /\ lsock' = [lsock EXCEPT ![p] = l]
  /\ pc' = [pc EXCEPT ![p] = "loop"]

ListenBind(p) ==
  /\ pc[p] = "unlinked"
  /\ \E l \in Sock, g \in Prog : Binds(p, l) /\ RunsProgram(p, g)
  /\ UNCHANGED <<conn, obs, leak, stray, c2s, s2c, crashes>>

-----------------------------------------------------------------------------
(* session_attach: the process that connects, by `mux attach' or as an      *)
(* observer told that the live instance detached.  A write to a connection  *)
(* that is gone is followed here by the read that fails for the same reason.*)

AttachConnect(p) ==
  /\ pc[p] \in {"idle", "again"}
  /\ Connectable(path) /\ Len(backlog[path]) < Backlog
  /\ \E k \in Conn : /\ FreeConn(k)
                     /\ conn' = [conn EXCEPT ![p] = k]
                     /\ backlog' = Send(backlog, path, k)
                     /\ c2s' = Send(Flush(c2s, {k}), k, "?")
                     /\ s2c' = Flush(s2c, {k})
  /\ pc' = [pc EXCEPT ![p] = "query"]
  /\ UNCHANGED <<obs, lsock, leak, win, stray, path, progVars, crashes>>

AttachRefused(p) ==
  /\ pc[p] = "again"
  /\ ~Connectable(path)
  /\ Quits(p)
  /\ UNCHANGED <<backlog, progVars, crashes>>

AttachQuery(p) ==
  LET k == conn[p] IN
  /\ pc[p] = "query" /\ s2c[k] # <<>>
  /\ \/ /\ Head(s2c[k]).type = "L"
        /\ pc' = [pc EXCEPT ![p] = "take"]
        /\ c2s' = Write(c2s, k, "T", ServerOpen(k))
     \/ /\ Head(s2c[k]).type = "D"
        /\ pc' = [pc EXCEPT ![p] = "fetch"]
        /\ c2s' = Write(c2s, k, "A", ServerOpen(k))
  /\ s2c' = Recv(s2c, k)
  /\ UNCHANGED <<procVars, sockVars, progVars, crashes>>

\* Mutant: the screens are not taken from the message.
AttachSession_Blank(p) ==
  LET k == conn[p] IN
  /\ pc[p] \in {"take", "fetch"} /\ s2c[k] # <<>> /\ Head(s2c[k]).type = "sess"
  /\ win' = [win EXCEPT ![p] = {[w EXCEPT !.bare = TRUE, !.seen = 0] :
                                  w \in Head(s2c[k]).win}]
  /\ s2c' = Recv(s2c, k)
  /\ c2s' = Write(c2s, k, "ack", ServerOpen(k))
  /\ \/ /\ pc[p] = "take"
        /\ pc' = [pc EXCEPT ![p] = "sock"]
        /\ UNCHANGED conn
     \/ /\ pc[p] = "fetch"
        /\ pc' = [pc EXCEPT ![p] = "rebind"]
        /\ conn' = [conn EXCEPT ![p] = None]
  /\ UNCHANGED <<obs, lsock, leak, stray, sockVars, progVars, crashes>>

\* recv_session and the ack; a daemon's client also closes the connection.
AttachSession(p) ==
  LET k == conn[p] IN
  /\ pc[p] \in {"take", "fetch"} /\ s2c[k] # <<>> /\ Head(s2c[k]).type = "sess"
  /\ win' = [win EXCEPT ![p] = {[w EXCEPT !.bare = TRUE] : w \in Head(s2c[k]).win}]
  /\ s2c' = Recv(s2c, k)
  /\ c2s' = Write(c2s, k, "ack", ServerOpen(k))
  /\ \/ /\ pc[p] = "take"
        /\ pc' = [pc EXCEPT ![p] = "sock"]
        /\ UNCHANGED conn
     \/ /\ pc[p] = "fetch"
        /\ pc' = [pc EXCEPT ![p] = "rebind"]
        /\ conn' = [conn EXCEPT ![p] = None]
  /\ UNCHANGED <<obs, lsock, leak, stray, sockVars, progVars, crashes>>

\* The listening socket arrives; it is made close-on-exec.
AttachListener(p) ==
  LET k == conn[p] IN
  /\ pc[p] = "sock" /\ s2c[k] # <<>> /\ Head(s2c[k]).type = "lsock"
  /\ lsock' = [lsock EXCEPT ![p] = Head(s2c[k]).sock]
  /\ s2c' = Recv(s2c, k)
  /\ pc' = [pc EXCEPT ![p] = "sizing"]
  /\ UNCHANGED <<conn, obs, leak, win, stray, sockVars, c2s, progVars, crashes>>

\* Mutant: the size is not sent.
AttachSize_Silent(p) ==
  /\ pc[p] = "sizing"
  /\ obs' = [obs EXCEPT ![p] = conn[p]]
  /\ conn' = [conn EXCEPT ![p] = None]
  /\ pc' = [pc EXCEPT ![p] = "loop"]
  /\ UNCHANGED <<lsock, leak, win, stray, sockVars, c2s, s2c, progVars, crashes>>

AttachSize(p) ==
  LET k == conn[p] IN
  /\ pc[p] = "sizing"
  /\ c2s' = Write(c2s, k, "size", ServerOpen(k))
  /\ obs' = [obs EXCEPT ![p] = k]
  /\ conn' = [conn EXCEPT ![p] = None]
  /\ pc' = [pc EXCEPT ![p] = "loop"]
  /\ UNCHANGED <<lsock, leak, win, stray, sockVars, s2c, progVars, crashes>>

\* End of file before the answer that is due: the attacher exits.
AttachLost(p) ==
  /\ pc[p] \in {"query", "take", "sock", "fetch"}
  /\ s2c[conn[p]] = <<>> /\ ~ServerOpen(conn[p])
  /\ Gone(p)
  /\ UNCHANGED <<sockVars, progVars, crashes>>

RebindUnlink(p) ==
  /\ pc[p] = "rebind"
  /\ path' = None
  /\ pc' = [pc EXCEPT ![p] = "bind"]
  /\ UNCHANGED <<procVars, backlog, c2s, s2c, progVars, crashes>>

RebindBind(p) ==
  /\ pc[p] = "bind"
  /\ \E l \in Sock : Binds(p, l)
  /\ UNCHANGED <<conn, obs, leak, win, stray, c2s, s2c, progVars, crashes>>

\* bind() finds the path taken again: the process exits.
BindFails(p) ==
  /\ pc[p] \in {"unlinked", "bind"} /\ path # None
  /\ Gone(p)
  /\ UNCHANGED <<sockVars, progVars, crashes>>

-----------------------------------------------------------------------------
(* The live instance's side: handle_session_conn and session_do_takeover.   *)
(* It blocks in each read: nothing else of the loop runs until it is back.  *)

\* close(conn), and back to the loop that accepted it.
Drops(p, role) ==
  /\ pc' = [pc EXCEPT ![p] = role]
  /\ conn' = [conn EXCEPT ![p] = None]
  /\ c2s' = Flush(c2s, {conn[p]})

\* accept(); a client that said "?" is answered with who we are.
Accepts(p, role, next, answer) ==
  /\ pc[p] = role /\ lsock[p] # None
  /\ backlog[lsock[p]] # <<>>
  /\ LET k == Head(backlog[lsock[p]]) IN
     \/ /\ c2s[k] # <<>> /\ ClientOpen(k)
        /\ pc' = [pc EXCEPT ![p] = next]
        /\ conn' = [conn EXCEPT ![p] = k]
        /\ c2s' = Recv(c2s, k)
        /\ s2c' = Send(s2c, k, [type |-> answer])
     \/ /\ c2s[k] = <<>> \/ ~ClientOpen(k)    \* a probe, or gone
        /\ c2s' = Flush(c2s, {k})
        /\ UNCHANGED <<pc, conn, s2c>>
  /\ backlog' = Recv(backlog, lsock[p])
  /\ UNCHANGED <<obs, lsock, leak, win, stray, path, progVars, crashes>>

Accept(p) == Accepts(p, "loop", "hsCmd", "L")

\* send_session: every live window, its screen and its master.
TakeoverSession(p) ==
  LET k == conn[p] IN
  /\ pc[p] = "hsCmd" /\ c2s[k] # <<>>
  /\ \/ /\ ClientOpen(k)
        /\ pc' = [pc EXCEPT ![p] = "hsAck"]
        /\ c2s' = Recv(c2s, k)
        /\ s2c' = Send(s2c, k, [type |-> "sess", win |-> win[p]])
        /\ UNCHANGED conn
     \/ /\ ~ClientOpen(k)
        /\ Drops(p, "loop")
        /\ UNCHANGED s2c
  /\ UNCHANGED <<obs, lsock, leak, win, stray, sockVars, progVars, crashes>>

\* The ack is awaited, not looked at: end of file will do, and then it is
\* the send that fails.
TakeoverListener(p) ==
  LET k == conn[p] IN
  /\ pc[p] = "hsAck"
  /\ c2s[k] # <<>> \/ ~ClientOpen(k)
  /\ \/ /\ ClientOpen(k)
        /\ pc' = [pc EXCEPT ![p] = "hsSize"]
        /\ c2s' = Recv(c2s, k)
        /\ s2c' = Send(s2c, k, [type |-> "lsock", sock |-> lsock[p]])
        /\ UNCHANGED conn
     \/ /\ ~ClientOpen(k)
        /\ Drops(p, "loop")
        /\ UNCHANGED s2c
  /\ UNCHANGED <<obs, lsock, leak, win, stray, sockVars, progVars, crashes>>

\* Mutants: g_session_sock stays set; it is cleared before it is let go.
TakeoverDone_Keeps(p) ==
  /\ pc[p] = "hsSize" /\ c2s[conn[p]] # <<>>
  /\ pc' = [pc EXCEPT ![p] = "handed"]
  /\ c2s' = Recv(c2s, conn[p])
  /\ s2c' = Flush(s2c, {obs[p]})
  /\ obs' = [obs EXCEPT ![p] = None]
  /\ UNCHANGED <<conn, lsock, leak, win, stray, sockVars, progVars, crashes>>

TakeoverDone_Clears(p) ==
  /\ pc[p] = "hsSize" /\ c2s[conn[p]] # <<>>
  /\ pc' = [pc EXCEPT ![p] = "handed"]
  /\ c2s' = Recv(c2s, conn[p])
  /\ s2c' = Flush(s2c, {obs[p]})
  /\ lsock' = [lsock EXCEPT ![p] = None]
  /\ leak' = [leak EXCEPT ![p] = @ \cup {None}]
  /\ obs' = [obs EXCEPT ![p] = None]
  /\ UNCHANGED <<conn, win, stray, sockVars, progVars, crashes>>

\* The client's size: the takeover is done.  g_session_sock is forgotten,
\* not closed; an observer we had is dropped.
TakeoverDone(p) ==
  /\ pc[p] = "hsSize" /\ c2s[conn[p]] # <<>>
  /\ pc' = [pc EXCEPT ![p] = "handed"]
  /\ c2s' = Recv(c2s, conn[p])
  /\ s2c' = Flush(s2c, {obs[p]})
  /\ lsock' = [lsock EXCEPT ![p] = None]
  /\ leak' = [leak EXCEPT ![p] = @ \cup {lsock[p]}]
  /\ obs' = [obs EXCEPT ![p] = None]
  /\ UNCHANGED <<conn, win, stray, sockVars, progVars, crashes>>

\* End of file where a command or the size was due: the instance stays live.
TakeoverLost(p) ==
  /\ pc[p] \in {"hsCmd", "hsSize"}
  /\ c2s[conn[p]] = <<>> /\ ~ClientOpen(conn[p])
  /\ Drops(p, "loop")
  /\ UNCHANGED <<obs, lsock, leak, win, stray, sockVars, s2c, progVars, crashes>>

\* The top of the next round: the windows are freed with their masters set
\* to -1 first, and the process watches the connection it was taken over by.
BecomeObserver(p) ==
  /\ pc[p] = "handed"
  /\ pc' = [pc EXCEPT ![p] = "observe"]
  /\ win' = [win EXCEPT ![p] = {}]
  /\ stray' = [stray EXCEPT ![p] =
                 @ \cup {[prog |-> w.prog, bare |-> w.bare] : w \in win[p]}]
  /\ UNCHANGED <<conn, obs, lsock, leak, sockVars, c2s, s2c, progVars, crashes>>

-----------------------------------------------------------------------------
(* The loop: the user, the programs, the observer's connection.             *)

\* Where the loop's other branches run.  The handshake is one branch of a round,
\* and the round goes on after it with what select() reported before it.
Looping(p) == pc[p] \in {"loop", "handed"}

\* The session has been taken over, but the round is not over; or its user
\* detached in that round, and the daemon has no socket to be attached by.
Leftover(p) == pc[p] = "handed" \/ (pc[p] = "daemon" /\ lsock[p] = None)

NewWindow(p) ==
  /\ Looping(p)
  /\ \E g \in Prog : RunsProgram(p, g)
  /\ UNCHANGED <<pc, conn, obs, lsock, leak, stray, sockVars, c2s, s2c, crashes>>

\* window_free; after the last window the process quits.
Frees(p, w) ==
  \/ /\ win[p] = {w}
     /\ Quits(p)
     /\ UNCHANGED backlog
  \/ /\ win[p] # {w}
     /\ win' = [win EXCEPT ![p] = @ \ {w}]
     /\ UNCHANGED <<pc, conn, obs, lsock, leak, stray, sockVars, c2s, s2c>>

CloseWindow(p) ==
  /\ Looping(p)
  /\ \E w \in win[p] : Frees(p, w)
  /\ UNCHANGED <<progVars, crashes>>

\* The program ended (SIGCHLD, or EIO on the master of a program that is no
\* child of ours): the rest of its output is read, its window freed.
Reap(p) ==
  /\ Looping(p)
  /\ \E w \in win[p] : w.prog \notin running /\ Frees(p, w)
  /\ UNCHANGED <<progVars, crashes>>

\* drain_pty, or the daemon's daemon_pump.
Drain(p) ==
  /\ Looping(p) \/ pc[p] = "daemon"
  /\ \E w \in win[p] :
       /\ unread[w.prog] > 0
       /\ win' = [win EXCEPT ![p] =
                    (@ \ {w}) \cup {[w EXCEPT !.seen = @ + unread[w.prog]]}]
       /\ unread' = [unread EXCEPT ![w.prog] = 0]
       /\ taken' = IF Leftover(p) THEN [taken EXCEPT ![w.prog] = @ + unread[w.prog]]
                   ELSE taken
  /\ UNCHANGED <<pc, conn, obs, lsock, leak, stray, sockVars, c2s, s2c,
                 running, pinh, cinh, out, crashes>>

ObserverGone(p) ==
  /\ pc[p] = "loop" /\ obs[p] # None /\ ~ServerOpen(obs[p])
  /\ obs' = [obs EXCEPT ![p] = None]
  /\ s2c' = Flush(s2c, {obs[p]})
  /\ UNCHANGED <<pc, conn, lsock, leak, win, stray, sockVars, c2s, progVars, crashes>>

\* auto_detach and session_detach: the observer is told if there is room for
\* the message, and the fork goes on as daemon with every descriptor left.
Detach(p) ==
  /\ Looping(p)
  /\ pc' = [pc EXCEPT ![p] = "daemon"]
  /\ obs' = [obs EXCEPT ![p] = None]
  /\ c2s' \in {c2s, IF obs[p] = None THEN c2s
                    ELSE Write(c2s, obs[p], "bye", ServerOpen(obs[p]))}
  /\ s2c' = Flush(s2c, {obs[p]})
  /\ UNCHANGED <<conn, lsock, leak, win, stray, sockVars, progVars, crashes>>

Quit(p) ==
  /\ Looping(p)
  /\ Quits(p)
  /\ UNCHANGED <<backlog, progVars, crashes>>

-----------------------------------------------------------------------------
(* The observer: session_observe_fd over the takeover's connection.         *)

\* The message of Detach: the observer closes and attaches anew.
ObserveBye(p) ==
  /\ pc[p] = "observe" /\ c2s[conn[p]] # <<>>
  /\ Drops(p, "again")
  /\ UNCHANGED <<obs, lsock, leak, win, stray, sockVars, s2c, progVars, crashes>>

ObserveEnd(p) ==
  /\ pc[p] = "observe"
  /\ c2s[conn[p]] = <<>> /\ ~ClientOpen(conn[p])
  /\ Quits(p)
  /\ UNCHANGED <<backlog, progVars, crashes>>

\* The user quits, or detaches, the observer, or its terminal goes.
ObserveLeave(p) ==
  /\ pc[p] = "observe"
  /\ Quits(p)
  /\ UNCHANGED <<backlog, progVars, crashes>>

-----------------------------------------------------------------------------
(* The daemon: daemon_run, daemon_serve.  Every read and write of it gives  *)
(* up after half a second.                                                  *)

DaemonAccept(p) == Accepts(p, "daemon", "dCmd", "D")

DaemonSession(p) ==
  LET k == conn[p] IN
  /\ pc[p] = "dCmd" /\ c2s[k] # <<>> /\ ClientOpen(k)
  /\ pc' = [pc EXCEPT ![p] = "dAck"]
  /\ c2s' = Recv(c2s, k)
  /\ s2c' = Send(s2c, k, [type |-> "sess", win |-> win[p]])
  /\ UNCHANGED <<procVars, sockVars, progVars, crashes>>

\* Mutant: the daemon exits with any client.
DaemonDrop_Exits(p) ==
  /\ pc[p] = "dCmd"
  /\ Gone(p)
  /\ UNCHANGED <<sockVars, progVars, crashes>>

DaemonDrop(p) ==
  /\ pc[p] = "dCmd"
  /\ Drops(p, "daemon")
  /\ UNCHANGED <<obs, lsock, leak, win, stray, sockVars, s2c, progVars, crashes>>

\* Mutants: the daemon goes on after an attach; it unlinks the path.
DaemonExit_Stays(p) ==
  /\ pc[p] = "dAck"
  /\ Drops(p, "daemon")
  /\ UNCHANGED <<obs, lsock, leak, win, stray, sockVars, s2c, progVars, crashes>>

DaemonExit_Unlinks(p) ==
  /\ pc[p] = "dAck"
  /\ Quits(p)
  /\ UNCHANGED <<backlog, progVars, crashes>>

\* Everything was written: ack, timeout or end of file, the daemon exits.
DaemonExit(p) ==
  /\ pc[p] = "dAck"
  /\ Gone(p)
  /\ UNCHANGED <<sockVars, progVars, crashes>>

-----------------------------------------------------------------------------
(* The programs, the kernel and the unexpected.                             *)

ProgWrites(g) ==
  /\ g \in running /\ out[g] < MaxOut
  /\ out' = [out EXCEPT ![g] = @ + 1]
  /\ unread' = [unread EXCEPT ![g] = @ + 1]
  /\ UNCHANGED <<pc, procVars, sockVars, c2s, s2c, running, pinh, cinh, taken, crashes>>

Ends(g) ==
  /\ g \in running
  /\ running' = running \ {g}
  /\ pinh' = [pinh EXCEPT ![g] = {}]
  /\ cinh' = [cinh EXCEPT ![g] = {}]
  /\ UNCHANGED <<pc, procVars, sockVars, c2s, s2c, unread, out, taken, crashes>>

ProgExits(g) == Ends(g)

\* The last descriptor of its master is closed: the program gets SIGHUP.
HangUp(g) == ~MasterOpen(g) /\ Ends(g)

Crash(p) ==
  /\ pc[p] # "idle" /\ crashes < MaxCrash
  /\ crashes' = crashes + 1
  /\ Gone(p)
  /\ UNCHANGED <<sockVars, progVars>>

-----------------------------------------------------------------------------
AttachStep(p) == \/ AttachRefused(p) \/ AttachQuery(p) \/ AttachSession(p)
                 \/ AttachListener(p) \/ AttachSize(p) \/ AttachLost(p)
                 \/ RebindUnlink(p) \/ RebindBind(p) \/ BindFails(p)
ServeStep(p) == \/ Accept(p) \/ TakeoverSession(p) \/ TakeoverListener(p)
                \/ TakeoverDone(p) \/ TakeoverLost(p) \/ BecomeObserver(p)
DaemonStep(p) == \/ DaemonAccept(p) \/ DaemonSession(p) \/ DaemonDrop(p)
                 \/ DaemonExit(p)
ObserveStep(p) == ObserveBye(p) \/ ObserveEnd(p)
UserStep(p) == \/ ListenRefused(p) \/ ListenProbe(p) \/ ListenUnlink(p)
               \/ ListenBind(p) \/ AttachConnect(p) \/ NewWindow(p)
               \/ CloseWindow(p) \/ Detach(p) \/ Quit(p) \/ ObserveLeave(p)
LoopStep(p) == Reap(p) \/ Drain(p) \/ ObserverGone(p)

Next == \/ \E p \in Proc : \/ AttachStep(p) \/ ServeStep(p) \/ DaemonStep(p)
                           \/ ObserveStep(p) \/ UserStep(p) \/ LoopStep(p)
                           \/ Crash(p)
        \/ \E g \in Prog : ProgWrites(g) \/ ProgExits(g) \/ HangUp(g)

Spec == Init /\ [][Next]_vars

\* Processes run, and the kernel hangs up; users and crashes are free.
Fairness == /\ \A p \in Proc : /\ WF_vars(AttachStep(p)) /\ WF_vars(ServeStep(p))
                               /\ WF_vars(DaemonStep(p)) /\ WF_vars(ObserveStep(p))
                               /\ WF_vars(LoopStep(p))
            /\ \A g \in Prog : WF_vars(HangUp(g))
FairSpec == Spec /\ Fairness

-----------------------------------------------------------------------------
(* What a session promises.                                                 *)

Serving(p) == pc[p] \in {"loop", "hsCmd", "hsAck", "daemon", "dCmd"}
Driving(p) == Serving(p) /\ lsock[p] # None
Works(p)   == Serving(p) \/ pc[p] = "handed"
Programs(p) == {w.prog : w \in win[p]}

\* Two processes have the listening socket only while the earlier one waits
\* for the size that completes the takeover: accept() is never raced
\* (handle_session_conn, session_attach).
OneAcceptor ==
  \A p, q \in Proc :
    p # q /\ lsock[p] # None /\ lsock[p] = lsock[q]
      => "hsSize" \in {pc[p], pc[q]}

\* Of two processes that have a window and read or write it, or will when they
\* are back in their loop, one has handed it on for good and cannot be attached
\* to: it is in the round that answered the takeover, or stayed as a daemon when
\* its user detached in that round (handle_session_conn, and the scan of the ptys
\* and of stdin after it).  Detach, attach, a takeover that breaks off, a crash
\* and a second start leave no other two.
OneDriver ==
  \A p, q \in Proc :
    p # q /\ Works(p) /\ Works(q) /\ Programs(p) \cap Programs(q) # {}
      => Leftover(p) \/ Leftover(q)

\* What a program wrote is in the screen of the process that drives it, still in
\* the pty, or was read by a process that had handed the window on: output is
\* lost in no other way between the screen that is sent and the first read of
\* the receiver (send_session, daemon_pump, drain_pty).
ScreenComplete ==
  \A p \in Proc : Driving(p) =>
    \A w \in win[p] : w.seen + unread[w.prog] + taken[w.prog] = out[w.prog]

\* A session can be attached to: the socket file leads to the process that
\* serves it (session_listen, session_rebind, cleanup).
PathServed == \A p \in Proc : Driving(p) => path = lsock[p]

\* Somebody who will go on with the session knows of the window: an owner
\* that has given it away does not count.
Kept(g) == \/ Sent(g)
           \/ \E p \in Proc : /\ pc[p] \notin {"hsSize", "handed", "dAck"}
                              /\ g \in Programs(p)

\* As long as no process was killed, no step of the protocol loses a window:
\* only the user's closing and quitting and the program's end do.
SessionKept ==
  [][crashes' = 0 /\ (\E p \in Proc : \/ AttachStep(p) \/ ServeStep(p) \/ DaemonStep(p)
                                      \/ ObserveStep(p) \/ Detach(p))
       => \A g \in Prog : Kept(g) => Kept(g)']_vars

\* A handshake both sides have begun ends, whatever the client does: the live
\* instance does not stay blocked in handle_session_conn, nor the attacher in
\* session_attach.
HandshakeEnds ==
  \A p \in Proc :
    LET busy == pc[p] \in {"hsCmd", "hsAck", "hsSize", "take", "sock", "sizing", "fetch"}
    IN busy ~> ~busy

(* What comments of the code say and the code does not do.                  *)

\* session_listen: a connection that succeeds means somebody is listening.
ConnectMeansServed ==
  Connectable(path) => \/ \E p \in Proc : lsock[p] = path
                       \/ InFlight([type |-> "lsock", sock |-> path])

\* pty_open: closing our copy of the master hangs up the window's program.
ClosedHangsUp == \A g \in running : MasterOpen(g) => Listed(g)

\* auto_detach: an observer whose message was not sent sees the connection
\* drop, once the detached instance has closed it.
DropSeen ==
  \A p \in Proc :
    LET k == conn[p] IN
    pc[p] = "observe" /\ c2s[k] = <<>> /\ ~ClientHeld(k) => ~ClientOpen(k)

\* session_attach: the ack is what lets the daemon exit.
DaemonAwaitsAck ==
  [][\A p \in Proc : DaemonExit(p) => \/ c2s[conn[p]] # <<>>
                                      \/ ClientOpen(conn[p])]_vars

\* main: "new main holds the PTY masters now", and the old one lets go of its own
\* at the top of the next round; until then it reads what the new one misses.
NothingTaken == \A p \in Proc : Driving(p) => \A g \in Programs(p) : taken[g] = 0

\* main: two independent sessions do not exist.
SingleSession == \A p, q \in Proc :
                   Driving(p) /\ Driving(q) /\ lsock[p] # lsock[q] => p = q
=============================================================================
