----------------------------- MODULE MuxObserve ------------------------------
(* An observer of a live session (src/tmux/session.c: session_observe_fd)   *)
(* and the owner at the other end of the link (src/tmux/main.c): frames of  *)
(* the shown window go down, the observer's keys go up as packets.  Both    *)
(* ends write with a blocking write_all, so a socket buffer that is full    *)
(* stops the writer.  A frame travels as its header and one piece per row;  *)
(* the bytes up are single ones.                                            *)
EXTENDS MuxInput, Integers, SequencesExt

CONSTANTS
  NSlot,       \* MAX_WINDOWS
  Sizes,       \* the sizes <<rows, cols>> the owner's screen may have
  ViewSizes,   \* the sizes of the observer's terminal, with the status row
  Key,         \* the bytes typed at the observer
  DownRoom,    \* what the socket buffers take: pieces down,
  UpRoom,      \* bytes up
  Budgets      \* bounds: how often [out |-> programs write, act |-> the owner's
               \* user does something, winch |-> the observer's terminal is
               \* resized, keys |-> its user types]

VARIABLES
  o,        \* the owner: see Owner
  v,        \* the observer
  t,        \* the observer's terminal
  down, up, \* the link: pieces and bytes written and not read
  wanted,   \* what the observer's keys mean: bytes and commands, in order
  done,     \* what the owner has done of it
  left      \* what is left of the budget

vars == <<o, v, t, down, up, wanted, done, left>>

Slot == 0..(NSlot - 1)
Rows(size) == size[1]
Cols(size) == size[2]
Least(a, b) == IF a < b THEN a ELSE b

\* A terminal that does not tell its size, or has none, counts as 24 by 80.
IsSize(size) == size \in (Nat \ {0}) \X (Nat \ {0})
Sized == NSlot \in Nat \ {0} /\ \A size \in Sizes \cup ViewSizes : IsSize(size)
ASSUME SizesAssumption == Sized

-----------------------------------------------------------------------------
(* The owner.  wins: how often the program of a window has written; cur,    *)
(* view: g_cur and g_scrollback_mode; behind: g_pty_drained; link: whether  *)
(* g_observer_fd is open; rest: what push has not written yet; packet: what *)
(* was read of the observer's packet; hup: g_sighup.                        *)

Header(rows, cols) == [kind |-> "head", rows |-> rows, cols |-> cols]
Content(p, r) == <<p.cur, p.wins[p.cur], r>>

\* session_observer_push: the header and the rows of the screen.
Frame(p) ==
  <<Header(Rows(p.size), Cols(p.size))>> \o
  [r \in 1..Rows(p.size) |-> [kind |-> "row", cols |-> Cols(p.size), of |-> Content(p, r)]]

\* observer_push, if there is an observer; in the scrollback viewer the
\* redraws end before it.
Pushed(p) == IF p.link = "open" /\ ~p.view THEN [p EXCEPT !.rest = Frame(p)] ELSE p
SwitchedTo(p, i) == IF i \in Slot THEN Pushed([p EXCEPT !.cur = i, !.view = FALSE]) ELSE p

\* handle_event: closing a window and a new one show another window; the viewer
\* opens if there is history.
Done(p, ev, other, history) ==
  CASE ev = "next"            -> SwitchedTo(p, (p.cur + 1) % NSlot)
    [] ev = "prev"            -> SwitchedTo(p, (p.cur + NSlot - 1) % NSlot)
    [] ev \in {"new", "close"} -> SwitchedTo(p, other)
    [] ev = "scroll"          -> [p EXCEPT !.view = @ \/ history]
    [] ev = "redraw"          -> Pushed(p)
    [] OTHER                  -> p

\* It is at the select() of its loop.
Idle == ~o.gone /\ o.rest = <<>> /\ o.packet = <<>>
ownerKeeps == <<v, t, wanted>>

\* handle_session_conn, 'O': the size of the terminal, then the first frame.
Accept ==
  /\ Idle /\ o.link = "new"
  /\ LET p == [o EXCEPT !.link = "open"] IN
     o' = [p EXCEPT !.rest = <<Header(Rows(o.size) + 1, Cols(o.size))>> \o Frame(p)]
  /\ UNCHANGED <<ownerKeeps, down, up, done, left>>

\* write_all of the next piece waits for room; without the observer it fails,
\* and the link is closed.
Send ==
  /\ o.rest # <<>>
  /\ IF v.pc = "end" THEN o' = [o EXCEPT !.rest = <<>>, !.link = "closed"] /\ UNCHANGED down
     ELSE /\ Len(down) < DownRoom
          /\ down' = Append(down, Head(o.rest))
          /\ o' = [o EXCEPT !.rest = Tail(@)]
  /\ UNCHANGED <<ownerKeeps, up, done, left>>

\* A program writes: of the shown one a frame is sent.
Output ==
  /\ Idle /\ left.out > 0
  /\ \E i \in Slot :
       LET p == [o EXCEPT !.wins[i] = @ + 1] IN o' = IF i = o.cur THEN Pushed(p) ELSE p
  /\ left' = [left EXCEPT !.out = @ - 1]
  /\ UNCHANGED <<ownerKeeps, down, up, done>>

\* The owner's user: windows, the viewer and its end (refresh), the terminal
\* resized (handle_resize).
Acts ==
  /\ Idle /\ left.act > 0
  /\ \/ \E i \in Slot : o' = SwitchedTo(o, i)
     \/ ~o.view /\ o' = [o EXCEPT !.view = TRUE]
     \/ o.view /\ o' = Pushed([o EXCEPT !.view = FALSE])
     \/ \E size \in Sizes \ {o.size} : o' = Pushed([o EXCEPT !.size = size])
  /\ left' = [left EXCEPT !.act = @ - 1]
  /\ UNCHANGED <<ownerKeeps, down, up, done>>

\* Output that was read to make room for a long write is shown.
Drained ==
  /\ Idle /\ o.behind
  /\ o' = Pushed([o EXCEPT !.behind = FALSE])
  /\ UNCHANGED <<ownerKeeps, down, up, done, left>>

\* Mutant: the keys are those that one read() gave.
PacketLen_Short(p) ==
  CASE p[1] = "K" -> 3 [] p[1] = "C" -> 3 [] p[1] = "W" -> 2 [] OTHER -> 1

\* How long the packet is, by what of it was read.
PacketLen(p) ==
  CASE p[1] = "K" -> IF Len(p) > 1 /\ p[2] = "2" THEN 4 ELSE 3
    [] p[1] = "C" -> 3
    [] p[1] = "W" -> 2
    [] OTHER      -> 1

\* A packet is there, or what came of it before the observer went away.  Keys
\* go to the program, whose output may be read meanwhile (pty_write_all).
Obeyed(p) ==
  LET at == [o EXCEPT !.packet = <<>>] IN
  CASE p[1] = "K" ->
         /\ done' = done \o SubSeq(p, 3, Len(p))
         /\ \/ o' = at /\ UNCHANGED left
            \/ /\ left.out > 0 /\ Len(p) > 2
               /\ o' = [at EXCEPT !.wins[o.cur] = @ + 1, !.behind = TRUE]
               /\ left' = [left EXCEPT !.out = @ - 1]
    [] p[1] = "W" /\ Len(p) = 2 ->
         /\ done' = done \o p
         /\ o' = IF p[2] \in Digit THEN SwitchedTo(at, Index(p[2])) ELSE at
         /\ UNCHANGED left
    [] p[1] = "C" /\ Len(p) = 3 ->
         /\ done' = done \o <<"C", p[2]>>
         /\ \E other \in Slot, history \in BOOLEAN : o' = Done(at, p[2], other, history)
         /\ UNCHANGED left
    [] OTHER -> o' = at /\ UNCHANGED <<done, left>>

\* read() of the link gives any part of what is there, at most the packet; the
\* rest of a packet is waited for.
ReadLink ==
  /\ ~o.gone /\ o.rest = <<>> /\ o.link = "open" /\ up # <<>>
  /\ \E k \in 1..Len(up) :
       LET p == o.packet \o SubSeq(up, 1, k) IN
       /\ Len(p) <= PacketLen(p)
       /\ up' = SubSeq(up, k + 1, Len(up))
       /\ IF Len(p) = PacketLen(p) THEN Obeyed(p)
          ELSE o' = [o EXCEPT !.packet = p] /\ UNCHANGED <<done, left>>
  /\ UNCHANGED <<ownerKeeps, down>>

\* Its end: in the middle of a packet, or between two.
ReadEnd ==
  /\ ~o.gone /\ o.rest = <<>> /\ o.link = "open" /\ up = <<>> /\ v.pc = "end"
  /\ IF o.packet # <<>> THEN Obeyed(o.packet)
     ELSE o' = [o EXCEPT !.link = "closed"] /\ UNCHANGED <<done, left>>
  /\ UNCHANGED <<ownerKeeps, down, up>>

\* auto_detach: the observer is told, if that does not block.
Detach ==
  /\ Idle /\ o.hup
  /\ down' = IF o.link = "open" /\ v.pc # "end" /\ Len(down) < DownRoom
             THEN Append(down, Header(-1, 0)) ELSE down
  /\ o' = [o EXCEPT !.gone = TRUE, !.link = "closed"]
  /\ UNCHANGED <<ownerKeeps, up, done, left>>

\* The link is closed for another observer's, another owner's, or the end.
Drop ==
  /\ Idle /\ o.link = "open" /\ left.act > 0
  /\ \E quits \in BOOLEAN : o' = [o EXCEPT !.gone = quits, !.link = "closed"]
  /\ left' = [left EXCEPT !.act = @ - 1]
  /\ UNCHANGED <<ownerKeeps, down, up, done>>

HangUp ==
  /\ ~o.gone /\ ~o.hup
  /\ o' = [o EXCEPT !.hup = TRUE]
  /\ UNCHANGED <<ownerKeeps, down, up, done, left>>

-----------------------------------------------------------------------------
(* The observer.  pc: where session_observe_fd is; ses, our: ses_rows and   *)
(* ses_cols, our_rows and our_cols; local: the rows of the last frame, and  *)
(* known: whether there was one; row: the next to read; esc: whether the    *)
(* timer runs; in, sock: what select() reported; batch: keys not handled;   *)
(* out: writes that are due; winch: obs_winch_flag; ret: what it returns;   *)
(* lost: it took a piece of a frame for another.                            *)

\* Mutant: no room is left for the status row.
Clip_Whole(ses, our) == <<Least(Rows(ses), Rows(our)), Least(Cols(ses), Cols(our))>>

\* view_rows and view_cols: what of the session is shown.
Clip(ses, our) == <<Least(Rows(ses), Rows(our) - 1), Least(Cols(ses), Cols(our))>>

\* The terminal: its size and what its cells show.
Blank == <<"blank">>
Junk == <<"junk">>
Bar == <<"bar">>    \* the status row
Blanked(size) == [size |-> size, cells |-> [r \in 1..Rows(size) |-> [c \in 1..Cols(size) |-> Blank]]]

\* obs_draw: the frame's top left part, and the status row under it.
Drawn(term, local, view) ==
  [term EXCEPT !.cells = [r \in DOMAIN @ |-> [c \in DOMAIN @[r] |->
     IF c > Cols(view) \/ r > Rows(view) + 1 THEN term.cells[r][c]
     ELSE IF r > Rows(view) THEN Bar ELSE local[r]]]]

Ends(ret) == v' = [v EXCEPT !.pc = "end", !.ret = ret, !.out = <<>>]
Runs == v.pc # "end" /\ v.out = <<>>
viewerKeeps == <<o, done, left>>

\* session_observe: the session's size comes first.
ReadSize ==
  /\ v.pc = "size"
  /\ \/ /\ down # <<>>
        /\ v' = [v EXCEPT !.pc = "top", !.ses = <<Head(down).rows, Head(down).cols>>]
        /\ down' = Tail(down)
     \/ down = <<>> /\ o.link = "closed" /\ Ends(-1) /\ UNCHANGED down
  /\ UNCHANGED <<viewerKeeps, t, up, wanted>>

\* The display changed: the last frame is laid out again.
Relayout ==
  /\ Runs /\ v.pc = "top" /\ v.winch
  /\ v' = [v EXCEPT !.winch = FALSE, !.our = t.size]
  /\ t' = IF v.known THEN Drawn(Blanked(t.size), v.local, Clip(v.ses, t.size)) ELSE Blanked(t.size)
  /\ UNCHANGED <<viewerKeeps, down, up, wanted>>

\* select(), which the ESC timer ends too.
Wait ==
  /\ Runs /\ v.pc = "top" /\ ~v.winch
  /\ LET in == v.typed # <<>>
         sock == down # <<>> \/ o.link = "closed"
     IN /\ in \/ sock \/ v.esc
        /\ v' = [v EXCEPT !.pc = "esc", !.in = in, !.sock = sock]
  /\ UNCHANGED <<viewerKeeps, t, down, up, wanted>>

\* Whatever ended select() but keys, the pending ESC is taken for one.
EscExpires ==
  /\ Runs /\ v.pc = "esc"
  /\ LET flush == v.esc /\ ~v.in IN
     /\ v' = [v EXCEPT !.pc = "keys", !.esc = @ /\ ~flush, !.fsm = IF flush THEN "ground" ELSE @,
                       !.out = IF flush THEN <<<<"K", "1", "esc">>>> ELSE @,
                       !.batch = IF v.in THEN v.typed ELSE <<>>,
                       !.typed = IF v.in THEN <<>> ELSE @]
     /\ wanted' = IF flush THEN Append(wanted, "esc") ELSE wanted
  /\ UNCHANGED <<viewerKeeps, t, down, up>>

\* The writes for an event, and what it means.
Packets(ev) ==
  CASE ev.cmd = "none"   -> <<>>
    [] ev.cmd = "pass"   -> IF Len(ev.bytes) = 1 THEN <<<<"K", "1">> \o ev.bytes>>
                            ELSE <<<<"K", "2">>, ev.bytes>>
    [] ev.cmd = "select" -> <<<<"W", DigitOrder[ev.slot + 1]>>>>
    [] OTHER             -> <<<<"C", ev.cmd, "0">>>>
Meaning(ev) ==
  CASE ev.cmd = "none"   -> <<>>
    [] ev.cmd = "pass"   -> ev.bytes
    [] ev.cmd = "select" -> <<"W", DigitOrder[ev.slot + 1]>>
    [] OTHER             -> <<"C", ev.cmd>>

\* A byte goes through the prefix-key machine; quitting and detaching end the
\* observer only.
KeyByte ==
  /\ Runs /\ v.pc = "keys" /\ v.batch # <<>>
  /\ LET b == Head(v.batch)
         ev == EventOf(v.fsm, b)
         fsm == NextFsm(v.fsm, b)
     IN IF ev.cmd \in {"quit", "detach"} THEN Ends(0) /\ UNCHANGED wanted
        ELSE /\ v' = [v EXCEPT !.fsm = fsm, !.esc = fsm = "esc", !.batch = Tail(@),
                               !.out = Packets(ev)]
             /\ wanted' = wanted \o Meaning(ev)
  /\ UNCHANGED <<viewerKeeps, t, down, up>>

KeysEnd ==
  /\ Runs /\ v.pc = "keys" /\ v.batch = <<>>
  /\ v' = [v EXCEPT !.pc = IF v.sock THEN "frame" ELSE "top"]
  /\ UNCHANGED <<viewerKeeps, t, down, up, wanted>>

\* write_all of the next write waits for room; on a closed link it fails.
Write ==
  /\ v.pc # "end" /\ v.out # <<>>
  /\ \/ o.link = "closed" /\ Ends(0) /\ UNCHANGED up
     \/ /\ o.link # "closed" /\ Len(up) + Len(Head(v.out)) <= UpRoom
        /\ up' = up \o Head(v.out)
        /\ v' = [v EXCEPT !.out = Tail(@)]
  /\ UNCHANGED <<viewerKeeps, t, down, wanted>>

\* The session was resized: the terminal is cleared.
Cleared(ses) == IF ses # v.ses THEN Blanked(t.size) ELSE t

\* The header of a frame, or what stands for one.
ReadHeader ==
  /\ Runs /\ v.pc = "frame"
  /\ IF down = <<>> THEN o.link = "closed" /\ Ends(0) /\ UNCHANGED <<down, t>>
     ELSE LET h == Head(down) IN
       /\ down' = Tail(down)
       /\ IF h.kind = "row" THEN v' = [v EXCEPT !.lost = TRUE] /\ UNCHANGED t
          ELSE IF h.rows = -1 THEN Ends(1) /\ UNCHANGED t
          ELSE LET ses == <<h.rows, h.cols>> IN
            /\ v' = [v EXCEPT !.pc = "cells", !.known = TRUE, !.row = 1, !.ses = ses,
                              !.local = IF ses = v.ses THEN @
                                        ELSE [r \in 1..Rows(ses) |-> Blank]]
            /\ t' = Cleared(ses)
  /\ UNCHANGED <<viewerKeeps, up, wanted>>

\* Its rows; the last is followed by the drawing.
ReadRow ==
  /\ Runs /\ v.pc = "cells"
  /\ IF down = <<>> THEN o.link = "closed" /\ Ends(0) /\ UNCHANGED <<down, t>>
     ELSE IF Head(down).kind = "head" \/ Head(down).cols # Cols(v.ses)
     THEN v' = [v EXCEPT !.lost = TRUE] /\ down' = Tail(down) /\ UNCHANGED t
     ELSE LET local == [v.local EXCEPT ![v.row] = Head(down).of]
              last == v.row = Rows(v.ses)
          IN /\ down' = Tail(down)
             /\ v' = [v EXCEPT !.local = local, !.row = @ + 1, !.pc = IF last THEN "top" ELSE @]
             /\ t' = IF last THEN Drawn(t, local, Clip(v.ses, v.our)) ELSE t
  /\ UNCHANGED <<viewerKeeps, up, wanted>>

\* The terminal hangs up, or the process is killed.
Dies == v.pc # "end" /\ Ends(0) /\ UNCHANGED <<viewerKeeps, t, down, up, wanted>>

Type ==
  /\ v.pc \notin {"size", "end"} /\ left.keys > 0
  /\ \E b \in Key : v' = [v EXCEPT !.typed = Append(@, b)]
  /\ left' = [left EXCEPT !.keys = @ - 1]
  /\ UNCHANGED <<o, done, t, down, up, wanted>>

\* The terminal is resized: what it shows then is the terminal's affair.
Winch ==
  /\ v.pc \notin {"size", "end"} /\ left.winch > 0
  /\ \E size \in ViewSizes \ {t.size} :
       t' = [size |-> size, cells |-> [r \in 1..Rows(size) |-> [c \in 1..Cols(size) |-> Junk]]]
  /\ v' = [v EXCEPT !.winch = TRUE]
  /\ left' = [left EXCEPT !.winch = @ - 1]
  /\ UNCHANGED <<o, done, down, up, wanted>>

-----------------------------------------------------------------------------
\* An observer that has just sent its 'O', or an owner that was taken over
\* from and told the new one's size (session_become_observer).
Init ==
  /\ \E size \in Sizes, our \in ViewSizes, taken \in BOOLEAN :
       LET p == [wins |-> [i \in Slot |-> 0], cur |-> 0, view |-> FALSE, size |-> size,
                 behind |-> FALSE, link |-> IF taken THEN "open" ELSE "new", rest |-> <<>>,
                 packet |-> <<>>, hup |-> FALSE, gone |-> FALSE]
       IN /\ o = IF taken THEN [p EXCEPT !.rest = Frame(p)] ELSE p
          /\ v = [pc |-> IF taken THEN "top" ELSE "size", ses |-> <<Rows(size) + 1, Cols(size)>>,
                  our |-> our, local |-> <<>>, known |-> FALSE, row |-> 1, fsm |-> "ground",
                  esc |-> FALSE, in |-> FALSE, sock |-> FALSE, typed |-> <<>>, batch |-> <<>>,
                  out |-> <<>>, winch |-> FALSE, ret |-> 0, lost |-> FALSE]
          /\ t = Blanked(our)
  /\ down = <<>> /\ up = <<>> /\ wanted = <<>> /\ done = <<>> /\ left \in Budgets

OwnerRuns == Accept \/ Send \/ Drained \/ ReadLink \/ ReadEnd \/ Detach
ObserverRuns == \/ ReadSize \/ Relayout \/ Wait \/ EscExpires \/ KeyByte \/ KeysEnd \/ Write
                \/ ReadHeader \/ ReadRow
Next == \/ OwnerRuns \/ Output \/ Acts \/ Drop \/ HangUp
        \/ ObserverRuns \/ Dies \/ Type \/ Winch

Spec == Init /\ [][Next]_vars

\* Both processes run on as long as they can.
FairSpec == Spec /\ WF_vars(OwnerRuns) /\ WF_vars(ObserverRuns)

-----------------------------------------------------------------------------
\* Nothing is under way between the two.
Settled == /\ Idle /\ o.link = "open" /\ ~o.view /\ ~o.behind /\ down = <<>>
           /\ v.pc = "top" /\ ~v.winch /\ v.known

(* When nothing is under way, the observer's terminal shows the top left of  *)
(* the owner's screen as far as it fits, the status row under it and nothing *)
(* else, however both were resized, and frames overtaken by resizes; and no  *)
(* piece of a frame was ever taken for another.                              *)
ShowsOwner ==
  /\ ~v.lost
  /\ Settled =>
       LET bar == Least(Rows(o.size) + 1, Rows(t.size)) IN
       \A r \in 1..Rows(t.size), c \in 1..Cols(t.size) :
         t.cells[r][c] = IF c > Cols(o.size) \/ r > bar THEN Blank
                         ELSE IF r = bar THEN Bar ELSE Content(o, r)

(* What the owner does for the observer is what its keys mean, in order and  *)
(* each once, however the link splits the packets, and also when it breaks;  *)
(* and all of it, once nothing is under way.                                 *)
KeysInOrder ==
  /\ IsPrefix(done, wanted)
  /\ o.link = "open" /\ o.packet = <<>> /\ up = <<>> /\ Runs => done = wanted

(* An owner that lost its terminal detaches ("a stalled (not cleanly closed) *)
(* observer connection can never hang the detach sequence").                 *)
DetachCompletes == o.hup ~> o.gone
=============================================================================
