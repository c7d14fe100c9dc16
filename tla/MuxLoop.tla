------------------------------ MODULE MuxLoop -------------------------------
(* The event loop of a live `mux' (main in src/tmux/main.c, built for a      *)
(* terminal): the table of windows, the keys on their way to a program, the *)
(* ESC timer, and the order in which one round looks at its sources.  The   *)
(* processes around the session are the subject of MuxSession; here the     *)
(* observer is only a source of commands, and a detach ends the run.        *)
(*                                                                          *)
(* A round is the sequence of phases                                        *)
(*   top      flags set by signals                                          *)
(*   reap     one waitpid() result after the other                          *)
(*   select   the ESC timer is started, or has run out; select()            *)
(*   flush    the ESC timer after select()                                  *)
(*   obs      a command of the observer                                     *)
(*   scan     the ptys, slot by slot                                        *)
(*   stdin    the terminal is read                                          *)
(*   keys     the bytes read, one by one                                    *)
(* between which programs end, signals arrive and the user types.           *)
EXTENDS MuxInput, Integers, FiniteSets

CONSTANTS
  NSlot,       \* MAX_WINDOWS
  Prog,        \* programs and their ptys; a name is used again once forgotten
  None,
  Key,         \* the bytes the user types
  EscTimeout,  \* ESC_TIMEOUT_MS, in ticks of the clock
  Observed,    \* whether an observer is attached
  Signalled,   \* whether SIGHUP, SIGTERM and SIGINT come
  MaxTyped     \* bound: bytes typed and not read yet

ASSUME LoopAssumption == /\ NSlot \in 1..10
                         /\ None \notin Prog
                         /\ Key \subseteq Byte
                         /\ EscTimeout \in Nat \ {0}
                         /\ Observed \in BOOLEAN /\ Signalled \in BOOLEAN
                         /\ MaxTyped \in Nat \ {0}

VARIABLES
  mux,      \* what the handlers change: see Mux
  fsm,      \* fsm_state
  view,     \* _sb_esc
  timer,    \* esc_remaining_ms
  phase,    \* where the loop is
  scan,     \* the next slot of the scan
  ready,    \* the ptys select() watched, by program
  input,    \* whether it reported the terminal
  batch,    \* bytes read and not handled
  child,    \* g_child
  sighup,   \* g_sighup, or the terminal is gone
  typed,    \* bytes typed, in the terminal
  running,  \* programs that run
  slave,    \* ptys of ours that some process still has open on the other side
  zombies,  \* our children that ended and were not waited for
  kids      \* programs that are our children

vars == <<mux, fsm, view, timer, phase, scan, ready, input, batch, child, sighup,
          typed, running, slave, zombies, kids>>
progVars == <<running, slave, zombies, kids>>
keyVars  == <<fsm, view, timer, batch>>
envVars  == <<child, sighup, typed>>

Slot == 0..(NSlot - 1)
Phase == {"top", "reap", "select", "flush", "obs", "scan", "stdin", "keys", "ended"}

\* app: application cursor keys, of the window's terminal (vt.scr.app_cursor).
Window == [prog : Prog, alive : BOOLEAN, pristine : BOOLEAN, app : BOOLEAN]
ASSUME NoneAssumption == None \notin Window

\* wins, cur: g_wins, g_cur; view: g_scrollback_mode; held: the window of the
\* held "ESC [" (held_w), by program; masters: ptys we have open; own: the
\* running programs that keys were written to, whose window was not closed on
\* request;
\* end: g_quit, set for want of windows ("empty") or because it was asked for;
\* or the process left by detaching; or it drew a window that is not there.
Mux == [wins : [Slot -> Window \cup {None}], cur : Slot, view : BOOLEAN,
        held : Prog \cup {None}, masters : SUBSET Prog, own : SUBSET Prog,
        end : {"no", "empty", "asked", "detach", "fault"}]

TypeOK ==
  /\ mux \in Mux
  /\ fsm \in Fsm
  /\ view \in View
  /\ timer \in -1..EscTimeout
  /\ phase \in Phase
  /\ scan \in Slot
  /\ ready \subseteq Prog /\ input \in BOOLEAN
  /\ batch \in Seq(Byte) /\ typed \in Seq(Byte)
  /\ child \in BOOLEAN /\ sighup \in BOOLEAN
  /\ running \subseteq Prog /\ slave \subseteq Prog
  /\ zombies \subseteq Prog /\ kids \subseteq Prog

-----------------------------------------------------------------------------
(* The table.  Handlers are functions on Mux, since one calls another.      *)

Open(m)     == {i \in Slot : m.wins[i] # None}
Programs(m) == {m.wins[i].prog : i \in Open(m)}
Alive(m)    == {i \in Open(m) : m.wins[i].alive}
Shown(m)    == m.wins[m.cur]

\* What the environment decides in a handler: the program a fork gives (None:
\* pty_open fails), the ptys on which the read that makes room for a long write
\* meets their end (pty_write_all), and whether the window has history.
Unknown == Prog \ (mux.masters \cup running \cup zombies \cup ready \cup {mux.held})
Luck == [fresh : {None} \cup Unknown, eof : SUBSET (mux.masters \cap slave),
         history : BOOLEAN]

Created(m, i, g) ==
  [m EXCEPT !.wins[i] = [prog |-> g, alive |-> TRUE, pristine |-> TRUE, app |-> FALSE],
            !.masters = @ \cup {g}]

Freed(m, i) ==
  IF i \notin Open(m) THEN m
  ELSE [m EXCEPT !.wins[i] = None, !.masters = @ \ {m.wins[i].prog}]

First(S) == CHOOSE i \in S : \A j \in S : i <= j

\* refresh and full_redraw use g_wins[g_cur] without a test; with the viewer open
\* render_scrollback_view tests it, but then calls full_redraw, which calls it.
Redrawn(m) == IF m.cur \in Open(m) THEN m ELSE [m EXCEPT !.end = "fault"]

\* redraw_status tests it, unless the viewer is open.
StatusRedrawn(m) == IF m.view THEN Redrawn(m) ELSE m

\* Mutant: the shown window, switched to, counts as left behind.
SwitchTo_Same(m, i, g) ==
  IF i \notin Slot \/ (i \notin Open(m) /\ g = None) THEN m
  ELSE LET a == IF i \in Open(m) THEN m ELSE Created(m, i, g)
           b == IF m.cur \in Open(m) /\ Shown(m).pristine THEN Freed(a, m.cur) ELSE a
       IN Redrawn([b EXCEPT !.cur = i, !.view = FALSE])

\* switch_to: the window is created if there is none, and a default shell that
\* never got a key is closed behind us.
SwitchTo(m, i, g) ==
  IF i \notin Slot \/ (i \notin Open(m) /\ g = None) THEN m
  ELSE LET a == IF i \in Open(m) THEN m ELSE Created(m, i, g)
           b == IF m.cur # i /\ m.cur \in Open(m) /\ Shown(m).pristine
                THEN Freed(a, m.cur) ELSE a
       IN Redrawn([b EXCEPT !.cur = i, !.view = FALSE])

\* Mutant: only the slots after the closed one are looked at.
Closed_After(m, i) ==
  LET a == Freed(m, i)
      up == {j \in Alive(a) : j > i}
  IN IF i # m.cur THEN StatusRedrawn(a)
     ELSE IF up # {} THEN SwitchTo(a, First(up), None)
     ELSE [a EXCEPT !.end = "empty"]

\* A window goes, by its program's end or the user's will.  If it was shown,
\* the first one alive is shown instead, and without any the process quits.
Closed(m, i) ==
  LET a == Freed(m, i)
  IN IF i # m.cur THEN StatusRedrawn(a)
     ELSE IF Alive(a) # {} THEN SwitchTo(a, First(Alive(a)), None)
     ELSE [a EXCEPT !.end = "empty"]

\* pty_write_all: the ptys of gs are written to.  Programs in eof end while we
\* wait for room: their windows are marked dead, and no more.
Written(m, gs, eof) ==
  [m EXCEPT !.wins = [i \in Slot |->
                        IF i \in Open(m) /\ m.wins[i].prog \in gs \cap eof
                        THEN [m.wins[i] EXCEPT !.alive = FALSE] ELSE m.wins[i]],
            !.own = @ \cup (gs \cap m.masters \cap running)]

\* write_stdin_keys: "ESC [" for a program with application cursor keys is
\* held for the byte after it, which releases it if it is no arrow.
StdinKeys(m, bs, eof) ==
  LET g == Shown(m).prog
      arrow == Shown(m).app /\ bs[1] = "A"
      held == IF m.held = None \/ arrow THEN {} ELSE {m.held}
      hold == Shown(m).app /\ bs = <<"esc", "[">>
  IN [Written(m, held \cup (IF hold THEN {} ELSE {g}), eof)
        EXCEPT !.held = IF hold THEN g ELSE None]

\* write_to_active: Enter runs a dead window's command again, in a new pty.
ToActive(m, bs, luck) ==
  IF m.cur \notin Open(m) THEN m
  ELSE IF Shown(m).alive
       THEN StdinKeys([m EXCEPT !.wins[m.cur].pristine = FALSE], bs, luck.eof)
  ELSE IF luck.fresh # None /\ \E k \in DOMAIN bs : bs[k] = "cr"
       THEN Redrawn([m EXCEPT !.wins[m.cur] = [@ EXCEPT !.prog = luck.fresh,
                                                         !.alive = TRUE, !.app = FALSE],
                              !.masters = @ \cup {luck.fresh}])
  ELSE m

\* handle_event.
Handled(m, ev, luck) ==
  CASE ev.cmd = "pass"   -> ToActive(m, ev.bytes, luck)
    [] ev.cmd = "select" -> SwitchTo(m, ev.slot, luck.fresh)
    [] ev.cmd = "next"   -> SwitchTo(m, (m.cur + 1) % NSlot, luck.fresh)
    [] ev.cmd = "prev"   -> SwitchTo(m, (m.cur + NSlot - 1) % NSlot, luck.fresh)
    [] ev.cmd = "new"    -> IF Open(m) = Slot THEN m
                            ELSE SwitchTo(m, First(Slot \ Open(m)), luck.fresh)
    [] ev.cmd = "scroll" -> IF m.cur \in Open(m) /\ luck.history
                            THEN [m EXCEPT !.view = TRUE] ELSE m
    [] ev.cmd = "close"  -> Closed([m EXCEPT !.own = @ \ IF m.cur \in Open(m)
                                                       THEN {Shown(m).prog} ELSE {}],
                                 m.cur)
    [] ev.cmd = "redraw" -> Redrawn(m)
    [] ev.cmd = "quit"   -> [m EXCEPT !.end = IF @ = "no" THEN "asked" ELSE @]
    [] ev.cmd = "detach" -> [m EXCEPT !.end = "detach"]
    [] OTHER             -> m

\* Mutant: what was held is not forgotten.
KeysFlushed_Again(m, eof) ==
  IF m.held = None THEN m
  ELSE Written(m, {m.wins[i].prog : i \in Alive(m)} \cap {m.held}, eof)

\* keys_flush: a held "ESC [" goes to its window after all.
KeysFlushed(m, eof) ==
  IF m.held = None THEN m
  ELSE [Written(m, {m.wins[i].prog : i \in Alive(m)} \cap {m.held}, eof)
          EXCEPT !.held = None]

\* A handler has run: the programs it started run, and those whose end it
\* met have ended.  Of a pty that is closed nothing more is known.
Becomes(m) ==
  LET new  == m.masters \ mux.masters
      gone == {m.wins[i].prog : i \in Open(m) \ Alive(m)} \cap slave
  IN /\ mux' = [m EXCEPT !.own = @ \ gone]
     /\ running' = (running \cup new) \ gone
     /\ slave' = ((slave \cap m.masters) \cup new) \ gone
     /\ kids' = kids \cup new
     /\ zombies' = zombies \cup (gone \cap kids \cap running)
     /\ child' = (child \/ gone \cap kids \cap running # {})

\* auto_detach does not return, nor does a drawing without a window.
Goes(m, next) == phase' = IF m.end \in {"detach", "fault"} THEN "ended" ELSE next

-----------------------------------------------------------------------------
\* A new session with its first windows, or one that was attached to: then
\* the programs are not our children, and may have ended meanwhile.
Init ==
  /\ \E S \in SUBSET Slot, f \in [Slot -> Prog], c \in Slot, fresh \in BOOLEAN,
        pristine, app \in SUBSET Slot :
       /\ c \in S
       /\ \A i, j \in S : f[i] = f[j] => i = j
       /\ fresh => c = 0 /\ \A i \in S, j \in Slot : j < i => j \in S
       /\ IF fresh THEN pristine \subseteq S /\ app = {} ELSE pristine = {} /\ app \subseteq S
       /\ mux = [wins |-> [i \in Slot |->
                    IF i \in S THEN [prog |-> f[i], alive |-> TRUE, pristine |-> i \in pristine,
                                           app |-> i \in app]
                    ELSE None],
                 cur |-> c, view |-> FALSE, held |-> None,
                 masters |-> {f[i] : i \in S}, own |-> {}, end |-> "no"]
       /\ kids = IF fresh THEN {f[i] : i \in S} ELSE {}
       /\ running \in SUBSET {f[i] : i \in S}
       /\ fresh => running = kids
  /\ slave = running
  /\ fsm = "ground" /\ view = "ground" /\ timer = -1 /\ phase = "top" /\ scan = 0
  /\ ready = {} /\ input = FALSE /\ batch = <<>> /\ typed = <<>> /\ child = FALSE /\ sighup = FALSE
  /\ zombies = {}

-----------------------------------------------------------------------------
(* The round.                                                               *)

\* while (!g_quit); then SIGWINCH (handle_resize draws afresh), SIGHUP, SIGCHLD.
\* g_child is cleared before the children are waited for.
Top ==
  /\ phase = "top"
  /\ \/ /\ mux.end # "no" \/ sighup
        /\ phase' = "ended"
        /\ UNCHANGED <<mux, child>>
     \/ /\ mux.end = "no" /\ ~sighup
        /\ mux' \in {mux, Redrawn(mux)}
        /\ Goes(mux', IF child THEN "reap" ELSE "select")
        /\ child' = FALSE
  /\ UNCHANGED <<keyVars, scan, ready, input, sighup, typed, progVars>>

\* waitpid() gives a child: its output is read, its window closed.
Reap ==
  /\ phase = "reap"
  /\ \E z \in zombies :
       LET at == {i \in Open(mux) : mux.wins[i].prog = z}
       IN /\ mux' = IF at = {} THEN mux ELSE Closed(mux, First(at))
          /\ slave' = slave \cap mux'.masters
          /\ zombies' = zombies \ {z}
          /\ kids' = kids \ {z}
  /\ Goes(mux', phase)
  /\ UNCHANGED <<keyVars, scan, ready, input, envVars, running>>

\* Mutant: one child is waited for per signal.
ReapEnd_One ==
  /\ phase = "reap"
  /\ phase' = IF mux.end = "no" THEN "select" ELSE "top"
  /\ UNCHANGED <<mux, keyVars, scan, ready, input, envVars, progVars>>

\* if (g_quit) continue.
ReapEnd ==
  /\ phase = "reap" /\ zombies = {}
  /\ phase' = IF mux.end = "no" THEN "select" ELSE "top"
  /\ UNCHANGED <<mux, keyVars, scan, ready, input, envVars, progVars>>

Pending == fsm = "esc" \/ mux.held # None
Watched == {mux.wins[i].prog : i \in Alive(mux)}

\* The pending ESC and the held "ESC [" go to the programs.
Flushes(next) ==
  \E luck \in Luck :
    LET m == IF fsm = "esc" THEN Handled(mux, Pass(<<"esc">>), luck) ELSE mux
    IN /\ Becomes(KeysFlushed(m, luck.eof))
       /\ Goes(m, next)
       /\ fsm' = IF fsm = "esc" THEN "ground" ELSE fsm
       /\ timer' = -1
       /\ UNCHANGED <<view, batch, scan, ready, input, sighup, typed>>

\* The timer was found at 0 already.
FlushNow == phase = "select" /\ timer = 0 /\ Flushes("top")

Started == IF Pending /\ timer < 0 THEN EscTimeout ELSE timer

\* select() sleeps e ticks, at most until the ESC timer runs out (the timers
\* of the clock and the labels end it as well); what is left is rounded down,
\* so a sleep counts for a tick at least.  Any pty that was watched may be
\* found readable.
SelectFor(e) ==
  /\ phase = "select" /\ timer # 0
  /\ timer' = IF Started > 0 THEN Started - e ELSE Started
  /\ ready' = Watched
  /\ input' = (typed # <<>> \/ sighup)
  /\ phase' = "flush"
  /\ UNCHANGED <<mux, fsm, view, batch, scan, envVars, progVars>>

Sleep == \E e \in 1..EscTimeout : SelectFor(e) /\ (Started > 0 => e <= Started)

\* EINTR: back to the top.  (A signal that came before select() did not
\* interrupt it: then Sleep.)
Interrupted ==
  /\ phase = "select" /\ timer # 0 /\ (child \/ sighup \/ mux.end # "no")
  /\ timer' = Started
  /\ phase' = "top"
  /\ UNCHANGED <<mux, fsm, view, batch, scan, ready, input, envVars, progVars>>

FlushAfter ==
  /\ phase = "flush"
  /\ \/ Pending /\ timer <= 0 /\ Flushes("obs")
     \/ /\ ~(Pending /\ timer <= 0)
        /\ phase' = "obs"
        /\ UNCHANGED <<mux, keyVars, scan, ready, input, envVars, progVars>>

\* Mutant: the keys of the observer do not count as the user's.
ObserverKeys_Pristine ==
  /\ phase = "obs" /\ Observed
  /\ \E luck \in Luck :
       Becomes(IF mux.cur \in Alive(mux) THEN Written(mux, {Shown(mux).prog}, luck.eof) ELSE mux)
  /\ phase' = "scan" /\ scan' = 0
  /\ UNCHANGED <<keyVars, ready, input, sighup, typed>>

\* 'K': the observer's keys go to the window shown, past the held ones.
ObserverKeys ==
  /\ phase = "obs" /\ Observed
  /\ \E luck \in Luck :
       Becomes(IF mux.cur \in Alive(mux)
               THEN Written([mux EXCEPT !.wins[mux.cur].pristine = FALSE],
                            {Shown(mux).prog}, luck.eof)
               ELSE mux)
  /\ phase' = "scan" /\ scan' = 0
  /\ UNCHANGED <<keyVars, ready, input, sighup, typed>>

\* 'W' and 'C': a window switch, or a command of the prefix key; the observer
\* keeps PREFIX d and PREFIX q to itself.
ObserverDoes == {"new", "next", "prev", "close", "redraw", "scroll"}
ObserverCommand ==
  /\ phase = "obs" /\ Observed
  /\ \E luck \in Luck,
        ev \in {Select(i) : i \in Slot} \cup {Do(c) : c \in ObserverDoes} :
       LET m == Handled(mux, ev, luck)
       IN /\ Becomes(m)
          /\ Goes(m, "scan")
          /\ view' = IF m.view /\ ~mux.view THEN "ground" ELSE view
  /\ scan' = 0
  /\ UNCHANGED <<fsm, timer, batch, ready, input, sighup, typed>>

NoObserver ==
  /\ phase = "obs"
  /\ phase' = "scan" /\ scan' = 0
  /\ UNCHANGED <<mux, keyVars, ready, input, envVars, progVars>>

\* The minute is over: the status row, or the viewer, is drawn again.
ClockTick ==
  /\ phase = "scan" /\ scan = 0
  /\ mux' = StatusRedrawn(mux)
  /\ Goes(mux', phase)
  /\ UNCHANGED <<keyVars, scan, ready, input, envVars, progVars>>

\* The slot's turn.  What select() reported is read: output may switch the
\* cursor keys, and the end of the pty closes the window.  A pty that was let
\* go of is readable; of one that was not, its end is seen in the next round.
Scan ==
  /\ phase = "scan"
  /\ LET w == mux.wins[scan] IN
     IF scan \notin Open(mux) \/ w.prog \notin ready THEN UNCHANGED mux
     ELSE IF w.alive /\ w.prog \in slave
     THEN \E b \in BOOLEAN : mux' = [mux EXCEPT !.wins[scan].app = b]
     ELSE mux' = Closed([mux EXCEPT !.wins[scan].alive = FALSE], scan)
  /\ slave' = slave \cap mux'.masters
  /\ IF scan = NSlot - 1 THEN Goes(mux', "stdin") /\ scan' = 0
     ELSE Goes(mux', phase) /\ scan' = scan + 1
  /\ UNCHANGED <<keyVars, ready, input, envVars, running, zombies, kids>>

\* read() of the terminal: what was typed, or the end of it (auto_detach).
Stdin ==
  /\ phase = "stdin"
  /\ phase' = IF ~input THEN "top" ELSE IF typed # <<>> THEN "keys" ELSE "ended"
  /\ batch' = IF input THEN typed ELSE <<>>
  /\ typed' = IF input THEN <<>> ELSE typed
  /\ ready' = {} /\ input' = FALSE
  /\ UNCHANGED <<mux, fsm, view, timer, scan, child, sighup, progVars>>

\* A byte for the open viewer.  Leaving it draws the window; an arrow, or "~"
\* after the number of a page key, the view.
ViewKey ==
  /\ phase = "keys" /\ batch # <<>> /\ mux.view
  /\ LET b == Head(batch) IN
     IF LeavesView(view, b)
     THEN view' = "ground" /\ mux' = Redrawn([mux EXCEPT !.view = FALSE])
     ELSE /\ view' = NextView(view, b)
          /\ \/ view = "csi" /\ b \in {"A", "~"} /\ mux' = Redrawn(mux)
             \/ ~(view = "csi" /\ b = "A") /\ UNCHANGED mux
  /\ Goes(mux', phase)
  /\ batch' = Tail(batch)
  /\ UNCHANGED <<fsm, timer, scan, ready, input, envVars, progVars>>

\* A byte for the prefix-key machine.  The timer is stopped if the byte
\* resolved the ESC and nothing is held: looked at before the event is handled.
KeyByte ==
  /\ phase = "keys" /\ batch # <<>> /\ ~mux.view
  /\ \E luck \in Luck :
       LET m == Handled(mux, EventOf(fsm, Head(batch)), luck)
       IN /\ Becomes(m)
          /\ Goes(m, "keys")
          /\ view' = IF m.view THEN "ground" ELSE view
  /\ fsm' = NextFsm(fsm, Head(batch))
  /\ timer' = IF fsm' # "esc" /\ mux.held = None THEN -1 ELSE timer
  /\ batch' = Tail(batch)
  /\ UNCHANGED <<scan, ready, input, sighup, typed>>

KeysEnd ==
  /\ phase = "keys" /\ batch = <<>>
  /\ phase' = "top"
  /\ UNCHANGED <<mux, keyVars, scan, ready, input, envVars, progVars>>

-----------------------------------------------------------------------------
(* The user, the programs and the signals.  Each acts where the loop can    *)
(* first tell: what is typed, or signalled, after select() is found by the  *)
(* next one; an end matters to waitpid(), to select() and to a read.        *)

loopVars == <<keyVars, phase, scan, ready, input>>

Type ==
  /\ phase = "select" /\ ~sighup /\ Len(typed) < MaxTyped
  /\ \E b \in Key : typed' = Append(typed, b)
  /\ UNCHANGED <<mux, loopVars, child, sighup, progVars>>

\* A program ends, or is hung up; what it ran may keep its terminal.
Exits(g) ==
  /\ phase \in {"reap", "select", "scan"} /\ g \in running
  /\ running' = running \ {g}
  /\ mux' = [mux EXCEPT !.own = @ \ {g}]
  /\ IF g \in kids THEN zombies' = zombies \cup {g} /\ child' = TRUE
     ELSE UNCHANGED <<zombies, child>>
  /\ UNCHANGED <<loopVars, sighup, typed, slave, kids>>

Lets(g) ==
  /\ phase \in {"reap", "select", "scan"} /\ g \in slave \ running
  /\ slave' = slave \ {g}
  /\ UNCHANGED <<mux, loopVars, envVars, running, zombies, kids>>

\* SIGHUP: the terminal goes away.
HangUp ==
  /\ phase = "select" /\ ~sighup /\ Signalled
  /\ sighup' = TRUE
  /\ UNCHANGED <<mux, loopVars, child, typed, progVars>>

\* SIGTERM and SIGINT set g_quit.
Terminated ==
  /\ phase = "select" /\ mux.end = "no" /\ Signalled
  /\ mux' = [mux EXCEPT !.end = "asked"]
  /\ UNCHANGED <<keyVars, phase, scan, ready, input, envVars, progVars>>

-----------------------------------------------------------------------------
Round == \/ Top \/ Reap \/ ReapEnd \/ FlushNow \/ Sleep \/ Interrupted \/ FlushAfter
         \/ NoObserver \/ Scan \/ Stdin \/ ViewKey \/ KeyByte \/ KeysEnd
Environment == \/ Type \/ ObserverKeys \/ ObserverCommand \/ ClockTick \/ HangUp \/ Terminated
               \/ \E g \in Prog : Exits(g) \/ Lets(g)
Next == Round \/ Environment

Spec == Init /\ [][Next]_vars

\* The loop goes on: select() returns at the latest when a timer has run out.
FairSpec == Spec /\ WF_vars(Round)

-----------------------------------------------------------------------------
(* Properties.                                                              *)

\* Until the last live window is closed or the session detached, whatever closes
\* or switches windows leaves one to show behind: by whichever of the six paths,
\* after every step of the round, and also on the way to an end that was asked for
\* (switch_to, CMD_CLOSE_WINDOW, the waitpid() loop and the scan of the ptys).  And
\* within a step nothing is drawn of a window that is not there: refresh, full_redraw,
\* redraw_status and the viewer, none of which test g_wins[g_cur], are reached with
\* one whatever the handler did to the table first.
CurOpen ==
  [][/\ mux'.end \in {"no", "asked"} => mux'.cur \in Open(mux')
     /\ mux.end \in {"no", "asked"} => mux'.end # "fault"]_vars

\* A program that runs and got keys keeps its window, unless that was closed
\* on request: no switch takes it for an accidental open (switch_to), no end of
\* another program closes it.
OwnKept == mux.own \subseteq Programs(mux)

\* The process ends by itself only when no program that the user typed to and
\* did not close is left running.
EmptyQuits == [][mux.end = "no" /\ mux'.end = "empty" => mux'.own = {}]_vars

\* A child that ended loses its window, even if its terminal is still open
\* elsewhere and several ended for one SIGCHLD.
EndedCloses ==
  \A g \in Prog :
    g \in (kids \cap Programs(mux)) \ running ~> g \notin Programs(mux) \/ phase = "ended"

\* A lone ESC, and an "ESC [" held for the byte after it, are not kept back for
\* ever: they reach the program, by another byte or by the timer.
EscResolved == Pending ~> ~Pending \/ phase = "ended"

\* The same of the rest of the round in which the last window was closed, which
\* goes on to the terminal's bytes.  (A redraw, or a key that leaves or moves the
\* viewer, finds no window.)
NeverFaults == mux.end # "fault"

\* The window of a held "ESC [" is still there: keys_flush and write_stdin_keys
\* read and write it.  (No path that frees a window looks at held_w.)
HeldOpen ==
  phase = "select" /\ mux.end = "no" /\ mux.held # None => mux.held \in Programs(mux)

\* A window whose program is not our child and whose terminal is at its end is
\* still watched, so that it will be closed ("EIO-based death detection:
\* covers the reattach case").
DeadReaped ==
  phase = "select" /\ mux.end = "no" =>
    \A i \in Open(mux) \ Alive(mux) : mux.wins[i].prog \in kids
=============================================================================
