# Verification of u

`u` is a set of small implementations of Linux tools. Most of them are one pass over their
input. Four programs hold state that lives on, is shared, or is spread over several processes: the
terminal multiplexer `mux` (`tmux/`, and `xtmux/` for the same in an X11 window), the terminal
emulator it is built on (`_lib/vt.c`), the ssh client (`mssh/`, `xmssh/`) and the file manager
(`mc/`). This directory holds TLA+ models of that code, the configurations TLC checks them with,
and proofs that TLAPS checks.

## Inventory

### The multiplexer: processes and the session

A session is a set of windows, each a program on a pty. At any time some process owns it, and
which one changes: a *live* instance shows it to a user; when the user detaches, the instance
forks and the child goes on as a *daemon*; `mux attach` fetches the session from a daemon, or
takes it over from a live instance, which becomes an *observer* of the new owner. Processes find
each other through one Unix socket file, `MUX_SOCKET_PATH`.

* State: for each process its role, `g_session_sock`, `g_observer_fd`, `g_pending_obs_fd`,
  `g_wins` with screen and pty master per window; in the kernel the socket file, the queue of a
  listening socket, what is in flight on a connection (descriptors among it), and who has a
  descriptor of what, programs that inherited one included.
* Operations: `session_listen`, `session_attach`, `session_rebind`, `session_do_takeover`,
  `session_detach`, `daemon_run`/`daemon_serve`, `session_observe_fd`, `cleanup`, and the loop's
  opening and closing of windows.
* Interaction: a dialogue of up to six messages on a connection, blocking reads and writes on the
  live side, half a second's patience on the daemon's side; descriptors passed with `SCM_RIGHTS`;
  `SIGHUP` from the kernel when the last descriptor of a pty master goes.
* Hard: two processes starting or attaching at once, either side killed between two messages,
  descriptors that outlive the variable they were in, a program writing while its screen is sent.
* Correct when: the socket is accepted on by one owner, a window is driven by one owner, no
  step of the protocol loses a window or a piece of output, the socket file leads to whoever
  serves the session, and a handshake ends.

### The multiplexer: the event loop of a live instance

One thread and one `select()`: signals' flags, children that ended, the ESC timer, session
connections, an observer's commands, the ptys, the terminal's bytes, in that order.

* State: the window table and the window shown, the prefix-key machine (`input.c`), the
  scrollback viewer and its key machine, an `ESC [` held back for a program with application
  cursor keys, the ESC timer, the flags `g_child`, `g_sighup`, `g_quit`.
* Operations: `switch_to`, `window_create`, `window_free`, `window_respawn`, `pty_write_all`,
  `drain_pty`, `handle_event`, `scrollback_feed`, `keys_flush`, and the loop itself.
* Hard: six paths close or switch windows; the end of a program is learnt in two ways and in any
  order; signals are not counted; a pointer to a window and a timer are kept across rounds.
* Correct when: there is a window to show whenever the loop sleeps, a program that was typed to
  keeps its window until it ends or the user closes it, a program that ended loses it, and
  no key is kept back for ever.

### The multiplexer: observer, drawing

* Observer link (`session.c`, `main.c`). State: the frame being pushed, the packet being read, what
  the socket buffers hold, the observer's terminal and its ESC timer. Frames go down, key and
  command packets go up, both with a blocking `write_all`. Hard: frames that are late when the
  session or the observer's terminal is resized, packets split by the stream, both buffers full.
  Correct when: the observer shows what the owner shows, its keys are done in order and once, and
  it cannot stop the owner.
* Rendering (`render.c`). State: a shadow of the terminal's screen, of its wrapped rows, its cursor
  and colours. Hard: what the terminal did with the last column, erasing and scrolling instead of
  redrawing, wrap marks that must be made and unmade. Correct when: after a drawing the terminal
  shows the screen, though most of it was not sent.

### The terminal emulator

* State (`_lib/vt.c`): the parser between two bytes; two grids with row flags, cursor, two saved
  cursors, scroll region, modes, tab stops, pen; the scrollback as text.
* Operations: one for each control, CSI and ESC function; resize, which lays scrollback and screen
  out anew; serialisation to another process.
* Hard: a wrap that is due, wide characters at the margin, a region, a full scrollback, a line that
  reaches from the scrollback into the screen, resize in the alternate screen, a sequence cut off.
* Correct when: nothing indexes outside the grids, finished text is kept in order until it is
  forgotten as whole lines, a full-screen program leaves the primary screen alone, and a sequence
  means what it says.

### The ssh client

* State (`mssh.c`): keys and sequence numbers each way, what reply is awaited, the channel's two
  windows, input that was read and may not be sent yet, end-of-file marks, the keepalive.
* Operations: key exchange at the start and at the server's wish later, login, channel requests,
  `ssh_pump` for a packet, `ssh_send_input`, `ssh_send_eof`, `ssh_keepalive`.
* Hard: a key exchange in the middle of anything, windows at their limits, end of file behind
  queued input, output after the end of input, a server that vanishes.
* Correct when: bytes arrive once and in order each way, packets open with the key they were sealed
  with, windows are respected and returned, the exit status is the command's.

### The file manager

* State (`mc.c`): a job with its walk, the answers that stand and the question that is open; two
  panels, each a place (directory or archive), a list, a highlight, a window and marks; a block of
  input bytes, a line being edited; a shell.
* Hard: a failure, a question, another program or Esc in the middle of a tree; lists that change
  under a highlight; a key cut in two by the end of a read, while a job asks a question or the shell
  view takes the bytes.
* Correct when: nothing is removed that was not copied, nothing written over that was not agreed to,
  the highlight and marks stay with their names, and keys mean the same however they arrive.

### The other parts

X11 surface (`xterm*.c`, `xtty.c`, `xtmux`), cryptography (`sodium_lite`), small tools, start-up code
and fonts: input and output, pixels, pure functions on large integers, single passes.

PROJECT.json lists each part with its sources, and the hazards of the code at the lines where
they bite, with the properties that cover them or the reason none does.

## Modules

| Module | Models | Composed by, checked through |
|---|---|---|
| `MuxSession` | processes, socket file, descriptors | `MCMuxSession`; proofs in `MuxSession_proofs`, `MuxPath_proofs` |
| `MuxInput` | prefix keys, viewer keys | used by `MuxLoop` and `MuxObserve` |
| `MuxLoop` | event loop and window table | `MCMuxLoop`; proofs in `MuxLoop_proofs` |
| `MuxObserve` | observer and owner over the link | `MCWatched`, `MCMuxObserve`; proofs in `MuxObserve_proofs` |
| `MuxRender` | renderer and its terminal | `MCDisplay` |
| `VtScreen`, `VtReflow` | operations of the screen; resize and hand-over | used by `VtTerminal` and `VtText` |
| `VtTerminal` | a terminal whose program may send anything | `MCWatched` |
| `Transcript`, `VtText` | the promise to printed text; the emulator that keeps it | `MCDisplay` |
| `VtParser` | the parser and the pen | `MCDisplay` |
| `Pipe`, `MsshChannel` | an ordered pipe; the ssh client and a server | `MCMsshChannel`; proofs in `MsshChannel_proofs`, `MsshTalk_proofs`, `MsshFlow_proofs` |
| `McJob` | copy, move, delete | `MCMcJob`, `MCMc`; proofs in `McJob_proofs` |
| `McPanel` | panels, archives' listings, shell view | `MCMc` |
| `McInput` | keys from bytes, the line editor | `MCMcInput`, `MCMc` |

`MCWatched`, `MCDisplay` and `MCMc` put machines of one program side by side. They do not share state in the
code other than by calls that each models as choices of its environment (what is on the screen in `MuxObserve`,
`JobEnds` and `OtherPrograms` in `McPanel`, the question of a job in `McInput`), so one of them runs
in a behaviour, which `part` chooses, and the states add up instead of multiplying. In `MCDisplay` and `MCMc`
the machines share variables, with another meaning in each; in `MCWatched` each has its own, and the screen's
machine waits first for as many steps as a behaviour of the link has, which only orders the search.

### MuxSession: processes, socket, descriptors

`MuxSession.tla` models `session.c` and what `main.c` does around it. Each process has a role in
`pc`: it is `idle` (a slot not in use), on its way through `session_listen` (`probed`,
`unlinked`), through `session_attach` (`query`, `take`, `sock`, `sizing` with a live instance,
`fetch`, `rebind`, `bind` with a daemon), in the main `loop`, in the middle of
`handle_session_conn` (`hsCmd`, `hsAck`, `hsSize`), in the rest of the round in which it answered
a takeover (`handed`), a `daemon` or serving as one (`dCmd`, `dAck`), an observer (`observe`) or
an observer about to attach anew (`again`).

| Model | Code |
|---|---|
| `ListenProbe`, `ListenUnlink`, `ListenBind`, `ListenRefused` | `session_listen`, one system call each, since other processes act between them; `ListenBind` includes the first window |
| `AttachConnect` ... `AttachSize`, `AttachLost`, `AttachRefused` | `session_attach`, one action per message sent or awaited |
| `RebindUnlink`, `RebindBind`, `BindFails` | `session_rebind` |
| `Accept`, `TakeoverSession`, `TakeoverListener`, `TakeoverDone`, `TakeoverLost` | `handle_session_conn`, `session_do_takeover` |
| `BecomeObserver` | the top of the next round, where windows are freed with their masters forgotten |
| `Detach`, `Quit`, `NewWindow`, `CloseWindow`, `Reap`, `Drain`, `ObserverGone` | the loop's branches, as far as the session can tell |
| `ObserveBye`, `ObserveEnd`, `ObserveLeave` | `session_observe_fd` |
| `DaemonAccept`, `DaemonSession`, `DaemonDrop`, `DaemonExit` | `daemon_serve`, with its timeouts as a free choice |
| `ProgWrites`, `ProgExits`, `HangUp`, `Crash` | the programs, the kernel, a process killed |

Descriptors are what the model is about. A listening socket, a connection's end and a pty master
are *open* as long as a process has them in a variable, or has forgotten them without closing
(`leak`, `stray`), or a running program inherited them (`pinh`, `cinh`), or they are in a message
on its way: `ListenerOpen`, `ClientOpen`, `ServerOpen`, `MasterOpen` say so once, and end of file,
a refused connection and `SIGHUP` follow from them. A screen is the number of chunks of output
fed to it (`seen`), so that losing one or reading one twice shows.

The daemon's fork keeps the name of the process it was forked from. A client's write to a
connection that is gone and the read that fails after it are one step. `session_observe` is not
called by the program and not modelled.

### MuxInput: the key machines

`MuxInput.tla` holds two pure functions each for the prefix-key machine (`input_feed`: next
state, event) and the viewer's byte machine (`scrollback_input_byte`). Bytes are named by what
these machines and the loop tell apart.

### MuxLoop: one live instance

`MuxLoop.tla` models `main`'s loop. The handlers call each other (`handle_event` calls
`switch_to`, which calls `window_free` and `window_create`), so they are functions on one record,
`Mux`: the window table, the window shown, the viewer, the held `ESC [`, the open masters, and why
the loop is to end. One operator stands for one C function (`SwitchTo`, `Freed`, `Created`,
`Closed`, `Written`, `StdinKeys`, `ToActive`, `Handled`, `KeysFlushed`), and an action applies one
at its place in the round: `Top`, `Reap`, `ReapEnd`, `FlushNow`, `Sleep`, `Interrupted`,
`FlushAfter`, `ObserverKeys`/`ObserverCommand`/`NoObserver`, `Scan` (slot by slot), `Stdin`,
`ViewKey`/`KeyByte`, `KeysEnd`. `Closed` stands for the three copies in the code of "free the
window, show the first one alive, or quit". What a handler meets by chance (whether a fork
succeeds and which program it gives, whether a pty is found at its end while keys wait for room)
is the record `Luck`, chosen anew for each event.

Programs end in two stages, since they do in Unix: `Exits` (SIGCHLD, if it is a child of ours) and
`Lets` (the last process with the terminal open goes, and the master reads its end); either may be
seen first. In a session that was attached to, programs are nobody's children here, and only the
second is seen. A name of a program is used again once nothing refers to it.

Three abstractions shorten the runs. The environment acts at the phases where the loop can first
tell the difference: something typed or signalled at any other moment is found by the same
`select()`. Time is counted in ticks, and a sleep counts for one at least because the code rounds
what is left down. Any pty that was watched may be found readable or not. `own` is a ghost: the
running programs that were typed to and not closed.

The observer is a source of commands; PREFIX d and PREFIX q stay with the observer, as in
`session_observe_fd`. A detach ends the run, for MuxSession to go on with. What is drawn, the
labels, window sizes and the X11 branches are left out, and so is REMAIN_ON_EXIT=1, which is not
what the repository builds; the dead windows that `write_to_active` respawns exist all the same,
by the path of the divergence `dead_reaped`.

Drawing itself is left out, but not what it needs: `refresh`, `full_redraw` and, with the viewer open,
`redraw_status` use `g_wins[g_cur]` without a test. `Redrawn` and `StatusRedrawn` stand at every place of a handler
that calls them (a switch, a close, a respawn, PREFIX l, leaving or moving the viewer, `ClockTick`, SIGWINCH in `Top`),
and a drawing without a window ends the process (`end = "fault"`).

### MuxObserve: an observer and its owner

The owner `o` is what the loop of a live instance does for its observer, the observer `v` is
`session_observe_fd`, with the position in its loop as `v.pc`, and `t` is its terminal. A frame
travels as its header and one piece per row, a packet as single bytes; `down` and `up` are what was
written and not read, at most `DownRoom` and `UpRoom` of it, and a write that finds no room waits.

| Model | Code |
|---|---|
| `Accept`, `Drop` | `handle_session_conn`: an observer comes; a takeover drops it |
| `Output`, `Drained`, `Acts` | a program writes, output read while keys were written, the owner's user resizes or acts (`Done`: `handle_event`): each pushes a frame (`Pushed`, `Frame`) unless the viewer is open |
| `Send`, `Write` | `write_all` at either end |
| `ReadLink`, `ReadEnd` | the observer's packets are read and obeyed (`Obeyed`), its end is seen |
| `HangUp`, `Detach` | `on_sighup` sets a flag; `auto_detach` runs at the top of a round |
| `ReadSize`, `Relayout`, `Wait`, `EscExpires`, `KeyByte`, `KeysEnd`, `ReadHeader`, `ReadRow` | the observer's loop in its order |
| `Dies`, `Type`, `Winch` | the observer's terminal goes, its user types, SIGWINCH |

`wanted` and `done` are ghosts: what the keys mean, by the prefix machine of `MuxInput`, and what the
owner did. Cells hold which window's which output they show, so that a mixture of two frames is
seen. The header's cursor and mouse fields are left out.

### VtParser, VtScreen, VtReflow: the emulator

`VtScreen` has one operator per function of `vt.c` that works on the screen: `PutChar` (with `Wrap`
and `Store`), `DoLf`, `DoRi`, `ScrollUp`/`ScrollDown`, `C0`, `CsiMove`, `CsiEdit`, `PrivSet`,
`PrivReset`, `Esc`, `AltEnter`/`AltLeave`, `Capture` into the scrollback. `VtReflow` is `vt_resize`: the lines
above the cursor's laid out anew (`LinesOf`, `LayLine`, `Pulled`), the cursor's line frozen
(`FrozenRows`), the plain resize of other screens (`CutResize`), saved cursors clamped (`ClampSaved`);
and `Handover`, which is `vt_serialize` followed by `vt_deserialize`. A cell is the character it shows
(a wide one followed by `Cont`; `Pad` at the margin), the scrollback is a sequence of characters, since
an eviction counts its bytes. Colours are `VtParser`'s, which no operation of the screen looks at.

`VtTerminal` is the machine that applies these in any order, for properties of single steps and
shape. `VtText` is a program that prints lines (the kernel turns its newline into CR LF) on a terminal
that is resized, and `KeepsText` says it implements `Transcript`, with the finished lines read back from
scrollback and screen together. The mapping is `TextOf`: rows joined by their flags, trimmed. A resize
may cut the line being printed, which its program redraws; `torn` allows for that one line and no
other. Named bound: a line is shorter than the scrollback (of a longer one `scrollback_capture`
forgets the rest too, which is noted below).

`VtParser` takes bytes: `Feed` is `vt_feed`, with one operator for each state, the pen that `handle_sgr`
sets, and the event each byte gives the screen.

### MuxRender: the renderer and its terminal

`RenderScreen`, `RenderFullRedraw` and `RenderStatusRow` are the entry points; below them `DrawRow`,
`PutCell`, `EmitMove`, `EmitSgr`, `FillGap`, `EraseTail`, `MaybeScroll` with `ScrollLines`, `ClearRowFlag`, all
functions on a record of the shadow and the terminal `t`, which is external and does what a terminal
does with a printed character, an erase, a scroll and a line feed (`TermPrint`, `TermErase`, `TermScroll`,
`TermDown`). Counting of bytes decides as in the code what is cheaper. Hashes of rows are equality.
Named bound: a program does not overwrite half of a wide character (see the observations).

### MsshChannel: the ssh client

The client `c` is the `SSH` structure, what it waits for (`wait`: a place in `do_kex`, `do_auth`,
`open_session`, `channel_request`, or `run`), where a key exchange goes back to, and its front-end's poll
loop as far as it decides what is read next. The server `s` is sshd as RFC 4253 and 4254 allow, with
key exchanges at any time. Every packet in `up` and `down` has the key and sequence number it was
sealed with and is accepted only with the receiver's own, which stands for the cryptography.

| Model | Code |
|---|---|
| `KexInit`, `EcdhReply`, `NewKeys`, `Rekey` | `do_kex`, a step for each packet awaited; `Rekey` is `pkt_recv_wait` meeting KEXINIT |
| `Service`, `Banner`, `Probed`, `Authenticated` | `request_service`, `auth_recv`, `do_auth` |
| `Opened`, `Refused`, `PtyAnswered`, `Started`, `NotStarted` | `open_session`, `request_pty`, `channel_request` |
| `EarlyAdjust`, `Dropped` | packets that come while `channel_request` waits |
| `Skipped`, `GlobalRequest`, `Adjusted`, `Output`, `Exited`, `ServerEof`, `Closed`, `Answered` | `pkt_recv`, `ssh_pump` |
| `Input`, `InputEnds`, `WindowChange`, `Keepalive`, `GivesUp` | `ssh_send_input`, `ssh_send_eof`, `ssh_window_change`, `ssh_keepalive`, the deadlines |

`InPipe` and `OutPipe` are two instances of `Pipe`: what the user typed against what the command got,
what the command wrote against what was shown. Sequence numbers are taken modulo a small `SeqWrap`, so
that wrapping happens. Time is only order: a deadline passes when nothing can arrive. Packets are whole, but a server may
vanish in the middle of one or without having taken what was sent (`stuck`): in the session the client is then in
a `read` or `write` that looks at no clock (`mssh.c:137-144`), and `GivesUp` does not happen.

### McJob: copy, move, delete

The recursion of `del_tree`, `copy_tree` and `move_tree` is a stack of frames, one for each call, with the
place in it as `pc`; a step is one system call that may fail or be overtaken, or one answer.
`OpConfirm`, `DeleteOpen`, `QyChoose` start a job; `JobItem`, `JobEnd`, `Again` are `job_run`; `DelTree`,
`CopyTree`, `MakeDir`, `EachEntry`, `Entered`, `MoveDir`, `Copied`, `Conflict`, `OpFile`, `Rename`, `CopyLink`,
`OpenBoth`, `CopyData`, `UnlinkSource`, `EscTyped` the walk; `FailAnswer`, `DirAnswer`, `CfChoose` the answers,
with the rules that stand for later items (`Rule`). Files are sequences of blocks named for where they came
from, so that a partial, doubled or mixed copy is seen; links are followed where `open()` follows them.

### McPanel and McInput: the panels and the keys

`McPanel` has the functions of the panels under their names: `Load`, `SortList`, `Scroll`, `NavKey`,
`SelKey`, `PanelRescan`, `ChangeTo`, `VfsOpen`, `VfsEnter`, `VfsUp`, `EnterDir`, the index an archive's members make
(`Index`), quick search (`QsFind`), quick cd (`Canon`, `QuickCd`), the shell view (`ShStart`, `ShWhere`,
`ShPark`, `SwitchBack`), and `OtherPrograms`. Names are sequences of codes because the order
of names is part of it. `p.drift` is a ghost for the one place that reads a list without scrolling.
`McInput` decodes bytes (`KeyParse`, `CharKey`), with the end of a block anywhere, the wait for the rest,
the question of a job and the shell view, which take bytes from the same block, and the line editor
(`LineKey`, `LineView`). A job here copies, asks and copies again: while it copies no key is taken, and `EscTyped` (`esc_typed`)
reads what the terminal has and drops it; what is in the block already is kept. Not followed is what a
program run from the panels reads of the same terminal, and the key that `run_child` waits for after it failed. `busy`, whether the shell runs a command, is chosen once.

## Runs

`CHECK_DEADLOCK FALSE` everywhere: a session ends, a budget runs out, a job is over, a process may
wait for ever on a socket nobody serves, and none of these is an error of a run.

| Run | What it asks | Bounds | Distinct states |
|---|---|---|---|
| `session_safety` | Is the socket accepted on by one owner, and has of two processes that read or write a window one handed it on for good, even if two sessions are started at once? (`OneAcceptor`, `OneDriver`, `TypeOK`) | 3 processes, 1 program, 2 sockets, 3 connections, 1 crash | 0.6 million |
| `session_owned` | If no second `mux` is started beside a session: does the socket file lead to the owner, is all output in the screen, in the pty, or read by the round that answered a takeover, does no step lose a window? (`PathServed`, `ScreenComplete`, `SessionKept`) | the same, 1 chunk of output | 1.1 million |
| `session_live` | Does every handshake end? (`HandshakeEnds`) | 2 processes, 2 programs, 1 connection at a time, 1 crash | 244 thousand |
| `loop_safety` | Until the last live window is closed, is there one to show and one wherever a handler draws (`CurOpen`)? Do programs keep their windows, does the process end by itself only when none is left (`OwnKept`, `EmptyQuits`)? | 2 slots, 2 programs, keys ESC, `[` and A one at a time, all commands of an observer, signals, the clock | 1.2 million |
| `loop_live` | Does every child that ended lose its window; is every pending ESC and held `ESC [` resolved? (`EndedCloses`, `EscResolved`) | 2 slots, 2 programs, keys ESC and `[`, a timeout of 2 ticks | 191 thousand |
| `watched` | Do grids, cursors and region stay on the screen (`OnScreen`), the primary screen under a full-screen program (`PrimaryKept`), rows outside the region (`RegionKept`), the prompt's row under a resize (`PromptKept`)? On the screen's way to an observer: does it show what the owner shows, and are its keys done in order and once (`ShowsOwner`, `KeysInOrder`)? | screen: 3 x 3 cells, 3 other sizes, narrow, wide and zero-width characters, 44 controls, 5 in a row; link: 2 windows, 2 sizes each side, 2 pieces and 4 bytes of room, 3 budgets | 1.6 million |
| `display` | Does text implement `Transcript` (`KeepsText`) and is it forgotten only for want of room (`ForgetsLate`)? Does a sequence mean the same after any other (`Resyncs`)? Does the terminal show the screen (`TerminalShows`)? | text: 8 steps, 2 resizes, a scrollback of 6; parser: all sequences of 12 bytes, 2 parameters; renderer: 3 x 4 cells, 5 lines, changes drawn one or together | 0.6 million |
| `mssh_safety` | Keys, both windows, both pipes, the exit status (`KeysAgree`, `NeverOversends`, `WindowReturned`, `InputKept`, `OutputKept`, `ExitHonest`) | 2 bytes in, 2 out, 1 key exchange in the session, a spare grant or keepalive | 1.5 million |
| `mssh_live` | Does input arrive (`InputArrives`), is a silent server noticed (`SilenceNoticed`)? | 2 bytes in, 1 out, 1 key exchange, the server may vanish, also in the middle of a packet; one packet under way unasked | 0.4 million |
| `mc` | Jobs (`NothingLost`, `OnlyTheItems`, `KeepsUnasked`, `DoneMeansDone`, `DeletesApproved`), panels (`HighlightShown`, `RescanKeeps`, `BackWhereItWas`), keys (`SplitBlind`, `LineWhole`) | jobs: 4 trees of depth 3, 1 failing call, 1 foreign file; panels: 6 names, 4 steps, 1 change; keys: 4 bytes of 10 and those a copy drops, blocks of 3 | 1.2 million |
| `mc_deletes_elsewhere`, `observe_hangs` | the two findings below | | a shortest counterexample |

Why these bounds are enough. A takeover involves an old owner, a new owner and somebody who
connects meanwhile, or the owner's previous observer: three processes, three connections. Two
listening sockets are what a re-bind needs (the old one and the new one), and a third would need a
third owner. The descriptors of different programs do not interact except by inheritance, so one
program suffices where inheritance is not the question, and two where it is. One crash puts an
end to a handshake at each of its points; what a second would meet is a first crash in a state
that is reached without it. In the loop, two windows are the least for which switching, closing
and "the first one alive" differ; larger instances (3 programs with the keys PREFIX, c, x, ESC, [ :
7.8 million states; 2 bytes of PREFIX, x, n, a: 4.4 million) were run once and showed nothing new.
At the observer a frame has a header and up to two rows, and two pieces fit in the buffer, so that
every frame is split and one may be overtaken; its terminal is both smaller and larger than the
screen. Three rows and three columns are the least with a region inside the screen, a row on either
side of it, and a wide character in the middle or across the margin; five controls are enough to set
a region, put the cursor in it, fill a row and wrap. A scrollback of 6 characters is full after two
lines of 3. In the channel a window of 1 and a packet of 1 make input wait at every byte, while the
limit of the window is 3; two bytes are needed for order. A tree of a directory with a file in it
beside a file makes every recursive call return to another; four trees have the destination empty,
with the same names, with the kinds exchanged, and with links.

`SoloStart`, `Observed` and `Signalled` select a scenario and are named in each
configuration. `SoloStart = TRUE` in `session_owned` is a real restriction: the properties of that
run do not survive two starts at once, as `two_starts` shows. `EarlyFates = {}` in `mssh_safety` is another: a
server that tells the status before it answers (`early_status`).

Fairness. `MuxSession` is weakly fair to what a process does without a user: an attacher in its
handshake, the server's side, the daemon, the observer, the loop's reading; each is a blocking
call that returns when there is something, or a loop that comes back to it. Users, programs and
crashes are free. `MuxLoop` is weakly fair to the round as a whole: `select()` returns at the
latest when the clock's timer runs out, within a minute, and no handler blocks. `MuxObserve` is weakly
fair to the two processes, which run on as long as they can; whether they can is the question.
`MsshChannel` is weakly fair to the client (one thread in `poll` or a blocking read with a deadline), and
to a server that reads what it is sent, grants window as its command reads, and closes the channel after
the command's end; nothing says that it sends output, starts a key exchange or stays. Nothing says
anywhere that a user types or that a program ends.

Refinement. `KeepsText` is `Transcript!Spec` under the mapping of `VtText`; `InputKept` and `OutputKept` are
`Pipe!Spec` under the two mappings of `MsshChannel`. `Pipe` says nothing of keys, windows, queues or end-of-file
packets, so that every one of them is a step or a stutter of it: an input byte is written when it is
typed and read when the command has it.

## Findings

Where a comment says one thing and the code does another, a run has TLC show it.

* `mc_deletes_elsewhere`: `qy_choose` starts the job of F8 without setting `job_base` (`mc.c:4340`), which
  only `op_confirm` assigns (`mc.c:5368`, `5374`). The names of the panel are deleted in the directory of the
  last copy or move. When there was none, `job_base` is empty and they are taken from the directory `mc` was
  started in. `mc.c:4206` says "where the items are: the panel's directory, or the staging directory".
* `observe_hangs`: the owner's frames and the observer's packets use the same blocking `write_all`
  (`session.c:598`), which goes on after a signal. When both buffers are full neither end reads; the flag
  that SIGHUP sets is not looked at and the session is not handed to a daemon. `main.c:356-362` says an
  observer "can never hang the detach sequence". In practice it takes a paste of a few hundred
  characters into a program that echoes, since each packet is a socket buffer of its own.

### Divergences that can be run by hand

Each of these configurations stops at a counterexample to the one property it names.

| Configuration (module) | Property | What the code does |
|---|---|---|
| `MuxSession_stale_listener` (MCMuxSession) | `ConnectMeansServed` | the observer never closes the listening socket it handed over (`main.c:333`): connections succeed and nobody answers, though `session.c:424` takes success for a live daemon |
| `MuxSession_stray_master` (MCMuxSession) | `ClosedHangsUp` | nor the pty masters (`main.c:1254`): a window the new owner closes is not hung up, which `pty.c:68-70` warns of |
| `MuxSession_inherited_link` (MCMuxSession) | `DropSeen` | windows opened meanwhile inherit the observer's connection, so it does not "see the connection drop" (`main.c:359-360`) |
| `MuxSession_old_owner` (MCMuxSession) | `NothingTaken` | after the handshake (`main.c:1534`) the round goes on to the ptys (`main.c:1609`) and to stdin with the windows that were handed over: what it reads there the new owner never sees, though `main.c:1250` says "new main holds the PTY masters now"; keys and closed windows act on them, and a detach in that round leaves a daemon without a socket that reads for ever |
| `MuxSession_two_starts` (MCMuxSession) | `SingleSession` | probe and bind are not one step (`session.c:438`); `main.c:1150` expects EADDRINUSE |
| `MuxLoop_held_open` (MCMuxLoop) | `HeldOpen` | no path that frees a window looks at `held_w` (`main.c:859`) |
| `MuxLoop_no_window` (MCMuxLoop) | `NeverFaults` | when the last window is closed the round goes on to the bytes already read: PREFIX l, or a key that leaves or moves the viewer, draws `g_wins[g_cur]`, which is NULL (`main.c:640-668`; with the viewer open `render_scrollback_view` and `full_redraw` call each other, `main.c:420`, `645`) |
| `MuxLoop_dead_reaped` (MCMuxLoop) | `DeadReaped` | a program found dead while it was written to (`main.c:803`) is not closed if it is not our child |
| `VtTerminal_stale_wrap` (MCWatched) | `WrapAtMargin` | a wrap that is due stays due over a switch of screens, with the cursor elsewhere (`vt.c:907-925`, `968-990`; `vt.h:4`) |
| `VtTerminal_handover` (MCWatched) | `HandoverComplete` | row flags and scrollback are not sent (`vt.c:1630`; `vt.h:187` says "complete VT parser + screen state") |
| `MsshChannel_silent_rekey` (MCMsshChannel) | `AnySilenceNoticed` | a session waiting for the server's part of a key exchange looks at no clock (`mssh.c:117`) |
| `MsshChannel_early_status` (MCMsshChannel) | `EarlyExitHonest` | `channel_request` drops an exit status that comes before its reply (`mssh.c:1407-1411`) |
| `McInput_full_block` (MCMcInput) | `WaitsForRest` | with the block full, `wait_input` returns at once and a key cut off by it is given up (`mc.c:2866`, `4229`; `mc.c:5276`) |

One more has no configuration of its own: `DaemonAwaitsAck` of `MuxSession`, checked with the constants of
`MuxSession_stray_master` and one crash, is violated: the daemon exits without the ack (`session.c:362`), though
`session.c:587` says "ACK tells the daemon it can exit".

### Observations

Met while modelling, kept in the models as the code has them, and not the subject of a run.

* Observer: the sentinel of a detach is lost if the observer's user types at that moment, since its
  write fails first (`session.c:815`); a SIGWINCH between the test of its flag and `select()` waits for
  the next event; a frame that arrives while an ESC is pending sends it off at once, so that Alt and a
  digit arrive as two keys; the tab bar of the observer is not refreshed by windows in the background;
  the observer stands still while the owner is in the scrollback viewer.
* Emulator: `utf8_feed` asks for a byte to be fed again and `vt_feed` skips it; digits of a parameter
  beyond the sixteenth go to the last; the parameters of a truncated direct colour are taken as
  attributes; a CSI with intermediate bytes is dispatched like one without; `lay_line` reads one cell
  past a line that ends in half of a wide character; a line longer than the scrollback takes
  everything with it; DECRC before DECSC gives the home position without autowrap; leaving the
  alternate screen does not bring the region back; a resize there cuts the primary screen.
* Renderer: a program that overwrites half of a wide character leaves the other half's cell, which
  `draw_row` skips.
* ssh: the X11 front-end does not ask `ssh_send_room`; nothing stops a session whose sequence number
  comes round without new keys.
* mc: `vfs_open` reads the panel again when it fails and leaves the window; on fewer than ten rows `change_to` may put
  the highlight outside it; a SIGWINCH counts as a time-out of `wait_input`; marks beyond 4096 bytes of names
  are not kept; a copy through a link at the destination to the source itself empties the source; a
  Retry after a part was appended appends it again; `del_tree` takes any failure of `statx` as "gone"
  (`mc.c:4975`); a directory moved to another device takes files another program added to it along; the
  results of `close()` are not looked at.

## Proofs

The theorems hold for every number of processes, programs, windows, sockets, connections, packets
and key exchanges, every tree of files, every bound, and every interleaving. The assumptions are those the
modules state of their constants (`NoneAssumption`, `LoopAssumption`, `ChannelAssumption`; for `McJob`
`OrderAssumption`, that the panel shows each name once, `TreesAssumption` and `PathsAssumption`, that a tree has one
node at each path and a directory is a path, and `BoundAssumption`), which TLC evaluates in the runs.
For `MuxObserve` it is `SizesAssumption`: a terminal and a window have at least one row and one column, as
`get_term_size`, `child_rows` and `obs_screen_size` see to.

| Module | Theorem | Says |
|---|---|---|
| `MuxSession_proofs` | `TypeCorrect` | `Spec => []TypeOK` |
| | `SingleAcceptor` | `Spec => []OneAcceptor` |
| | `OneDriverAlways` | `Spec => []OneDriver` |
| | `ScreensWhole` | `Spec => []ScreenComplete` |
| `MuxPath_proofs` | `PathLeadsToServer` | `SoloStart => (Spec => []PathServed)` |
| | `WindowsKept` | `SoloStart => (Spec => SessionKept)`, an action property |
| `MuxLoop_proofs` | `AlwaysShown`, `QuitsEmpty` | `Spec => CurOpen`, `Spec => EmptyQuits`, action properties |
| | `ProgramsKept` | `Spec => []OwnKept` |
| `MuxObserve_proofs` | `KeysDoneInOrder` | `Spec => []KeysInOrder` |
| | `ShowsOwnerAlways` | `Spec => []ShowsOwner` |
| `MsshChannel_proofs` | `TypeKept`, `KeysAlwaysAgree` | `Spec => []Typed`, `Spec => []KeysAgree` |
| `MsshTalk_proofs` | `ExitAlwaysHonest` | `Spec => []ExitHonest` |
| `MsshFlow_proofs` | `NeverOversendsAlways` | `Spec => []NeverOversends` |
| | `WindowAlwaysReturned` | `Spec => []WindowReturned` |
| | `InputAlwaysKept`, `OutputAlwaysKept` | `Spec => InputKept`, `Spec => OutputKept`: `MsshChannel` implements `Pipe` |
| `McJob_proofs` | `ItemsOnly` | `Spec => []OnlyTheItems` |
| | `AskedFirst` | `Spec => []KeepsUnasked` |
| | `ApprovedFirst` | `Spec => []DeletesApproved` |

### The session

TypeOK is not inductive alone: a message received must be of a kind its receiver can use and a
process in a handshake must have a connection, so it is strengthened with `RoleOK` to `TypeInv`.

`SingleAcceptor`. The right to accept on a listening socket is a token, held by a
process that has the socket and is not waiting for the size that completes a takeover, or by a
message that carries the socket. The invariant `AcceptInv` says: a socket has at most one holder
(`OneHolder`); never a holder and a message (`HeldOrFlying`); one message at most, and once in its
channel (`OneFlight`); while the old owner waits for the size, the token is with the client of
that connection, in the message or as holder (`TokenAway`). The last one is what lets the old
owner have the right back when the client dies before it sent the size (`TakeoverLost`). It needs
to know that a connection is served by one process (`OneServer`) and that one still queued is
served by none (`Unserved`), which is in turn preserved because a new connection is one that
nobody has. Two frame lemmas (`TokenFrame`, `ServerFrame`) deal at once with every action that
gains no socket and no connection; the lemmas `BindStep`, `AcceptStep`, `ConnectStep`,
`AttachListenerStep`, `AttachSizeStep`, `TakeoverListenerStep` and `TakeoverLostStep` deal with
those that do.

`OneDriverAlways`. Windows are a second token, with a difference: while a session is handed on, and to the end of the
round in which it was, the earlier owner still has the windows it has sent, and reads and writes them. The theorem says
that there is no other pair: of two processes with a window one is such a `Leftover`. `OwnerInv` adds to `AcceptInv` that a program's window
has one owner who still drives it (`OneOwner`), that it is not both driven and on its way
(`OwnerOrCarried`), not on its way twice (`OneCarrier`, `OneSess`) - all four are `Shares` -, that
roles without windows have none (`Bare`), and that how far the server of a connection is tells what has
been sent on it (`Phases`), down to a connection not yet accepted, on which nothing was (`Fresh`). The
last two are what a handshake started a second time needs: "the session was not sent yet" is not
visible in the state of the server alone. A step that moves no window cites one frame lemma for each
conjunct (`SharesFrame`, `PhasesFrame`, `FreshFrame`), combined in `LightStep`; the steps that
move one, or connect or accept, have lemmas of their own.

`ScreensWhole` rests on `OwnerInv` and on `ScreenInv`: whoever drives windows, and whatever message
carries them, has in each screen what the program wrote less `Rest`: what is unread, and what was `taken` by a process
that had handed the window on. Reading by the owner moves output from the rest to its screen; reading by the round
that answered a takeover, or by a daemon left over from it, moves it within the rest, from the pty to what the new
owner misses. A step of any other process does neither, for which the invariant needs `OneDriverAlways`. That
`taken` is not always 0 is the divergence `MuxSession_old_owner`.

`PathLeadsToServer` and `WindowsKept` assume that no second `mux` is started while one starts (`SoloStart`,
as their run does: with two, `PathServed` is the hazard at `session_listen`). Then the session is a third
token: a process bears it (`Bears`, from the probe on, while it serves, takes over or binds anew), or the listening
socket or the session of a daemon is on its way to a client that will bear it (`Conveys`, `Releases`), and
`Tokens` says it is one of these at a time. Only the bearer binds and unlinks the path, so that whoever bears it has
the socket the path leads to (`Placed`, `Roles`). A daemon that has written the session exits, and bears it
no more although the client has not read it yet; what keeps another client from starting over is that
the message is the token. `PathServed` is a part of `Placed`.

`WindowsKept` compares two states, so what it needs is that a window sent is received, and that its receiver
gets what lets it go on. `Handshakes` is that a connection has one client, which no longer has a message with a session
before it when it is past the message (`Received`), and that nothing is on a connection before its client begins (`New`). As long
as nobody was killed, `Undisturbed` adds: a process in the middle of a handshake has a client at the other end
still in it (`Attended`), a client that waits for the listening socket will get it, because it is on its way or the
process that sends it is about to (`Backing`), and what the process that has sent a session still owns is in that
session, on its way or received (`Given`). A step of the protocol then keeps
each window by one of four ways: it does not touch it, it writes it to a message, it reads it from one, or it
is the old owner's last step, when the client has it (`KeepsAll`).

### The loop

`LoopInv` says: what is shown is open, or the last live window was closed or the session detached (`Showing`); no two open windows have one
pty, and a window's pty is open (`OnePty`); a window whose program was typed to, or that `ESC [` is held
for, is not pristine (`Marked`); a pty that is open belongs to a window or its program has ended,
and a dead window's program has let go of it (`Processes`); and `OwnKept`. The handlers are functions of
the record `mux`, so each has a lemma that says what it keeps (`CreatedMade`, `FreedMade`, `SwitchMade`,
`ClosedMade`, `WrittenMade`, up to `HandledMade`), and an action cites those of the handlers it
applies; `QuitsHonestly` is the part of a step that `QuitsEmpty` and `AlwaysShown` need: of a handler that
closes, switches and then draws, that it draws with the window it has chosen.

### The observer

Both theorems are about a stream that is cut anywhere, and their invariants say what the stream still means.

`KeysDoneInOrder`. `Stream` is what the owner has read of a packet, the bytes on the link and what the observer
is about to write, one after the other. `Parsed` says that it is a sequence of whole packets from the
beginning of the first: byte i of it is byte k[i] of the packet p[i], and the meanings of the packets, put after what is
done, are what is wanted. Taking a packet off the front (`ParsedTaken`) and putting one at the end (`ParsedMore`) keep
it. The link splits packets, and the invariant does not mention where: `ReadLink` moves bytes within the stream. What it
needs is that the owner knows from a part of a packet how long the packet is (`LenKnown`, `ReadsFirst`), so that it
never reads over its end; `PacketLen_Short`, the mutant of the run, breaks this. If the observer ends in
the middle of a packet, the last one is incomplete (`over`), and what is done of it is a beginning of its meaning
(`Begins`).

`ShowsOwnerAlways`. Pieces go down, and the invariant gives each a place in a frame: `FedBy` says that piece i is row
r[i] of a frame of size z[i] that shows c[i], that a frame follows a frame only when it is complete, and
that place 0 is where the observer is (`ReaderAt`), with the rows it has read in `local`. `Latest` is that the last frame
is of the screen as it is now, unless the viewer is open or output is still to be shown. A frame pushed is added at
the end (`FedMore`), and so is the sentinel of a detach (`FedBye`), after which nothing follows; a piece read is taken off
the front (`FedTaken`). That no piece is taken for another follows from the places. The terminal is the third part
(`Picture`): unless a SIGWINCH is pending, what is outside of the part shown is blank, and inside is the last frame,
but for a frame half read, of which only the outside is known. Two things it depends on are not obvious. `local`
starts with no rows (in the code, with empty ones), and nothing is drawn from it before a header has made it anew: the
size told first counts the status row and so differs from that of any frame that can come first (`Opening`), so
that the first header is always one of a resize. (With a terminal of one row the code tells the size of a frame
itself; in the model the owner's terminal has a row more than its windows.) And a frame that was read while the
terminal was resized is drawn clipped by the old size, which `Relayout` makes good since the flag is still set.

### The ssh channel

`KeyInv` says how the numbers of the packets in flight follow each other. In each direction the first
packet has the number and key its receiver expects, each packet the number after that of the packet before
it, and what the sender will use next comes after the last (`Numbered`). After a packet NEWKEYS
the number is one of the next key, and 0 if key exchange is strict. `Numbered` is kept by taking a packet
(`NumberedTail`), by sealing messages that are not NEWKEYS (`NumberedSeal`, which is where a round of
sequence numbers may end) and by sealing NEWKEYS (`NumberedNewKeys`). Both sides have to agree whether it
is strict, which the client knows only when it has read the first KEXINIT; until then that KEXINIT is
alone on its way and the server has sent no keys (`Fresh`). And what the server holds back during a key
exchange must not contain a NEWKEYS.

`ExitAlwaysHonest` is about what is said, not about how it is sealed. The connection is read as a
conversation: `Going` and `Coming` are the messages on their way, without keys and numbers, with what the
server holds back at the end of `Coming`, and `Phase` is where the client is with key exchanges left out.
Each action of the model is an instance of one of some thirty forms (`Chats`, `TakesTurn`, `Confirmed`,
`Runs`, `Starts`, `Exits` and so on), which say what is heard and said and what else changes (`NextForms`);
that what is held back is sent in its order at the end of an exchange is the form `Exchanges`, and needs
`TurnInv`: one thing at a time is being said for a key exchange, and which one is known from the state of the server
(`Turn`). `TalkInv` then says where a session stands. At most one question of the client or its answer is on its way,
and it is the one the client waits for (`InAnswer`); at most one status and one close are, the status
behind the answer that starts the command and before the close, and what the client has been told so far
is the status, or the status is still on its way (`InStatus`). That the status is behind the answer is what the
code needs: it drops all that comes while it waits for an answer, which is the hazard at `channel_request`.

The two windows are an account over the same conversation: `Fed` and `Repaid` are the input and the window on
their way to the server, `Granted` and `Produced` the window and the output on their way to the client, what
is held back included. `Plus` (input on its way, grants on their way, the client's window) is at most the
server's room, also with a window that a confirmation on its way announces (`RoomInv`); `Owed` (output on its
way, shown and not given back, being given back) and the server's window are the window mssh opened
(`OwedInv`). Before the client's request for a channel is answered the account is empty (`Early`). The step
the account would break at is the one of the hazard again: output that is dropped is never given back. It needs
`LateInv`, that no output is on its way ahead of the answer that starts the command, and `TalkInv`, that
while the client waits for that answer it is still to come. `FlowClient`, `FlowUser` and `FlowServer` go through the forms.
`Carried` is a sum over a queue of any length, so what a queue carries is related to what its parts carry
by induction: `Least` has a least element of a set of numbers from the library's well-foundedness of `<`, and
`ByInduction` is what follows; with it sums exist (`TotalsExist`), are unique (`TotalsUnique`), add up when sequences
are joined (`SumJoined`), and are what `Carried` computes (`CarriedIs`).

`InputAlwaysKept` and `OutputAlwaysKept` are refinements: the channel implements `Pipe` twice, with the user at
one end and the command at the other. In the model the items of a stream are numbered, so that a stream is
complete and in order is said by numbers: `InOrder` says of a queue that each message that carries items begins
with the number after the last of the message before it, from where the reader is to a given number, and that the
message that says the end comes after the last item. `InInv` joins three stretches: what the command has read,
what is on its way, what is queued for want of a window; and the end is on its way only if the user gave it and
nothing is queued. `OutInv` joins what is shown and what is on its way, and when the session is over nothing is
left on its way. Both are carried through the same forms of the conversation, and each form is a
step of the pipe or a stutter: a `Write` when the user types or the command writes, a `Read` when the command
reads or the client shows, an `End` and a `Drain` (`InNext`, `OutNext`). The delicate form is `Drops` again, what the client throws away
while it waits for an answer; that nothing of the output is among it is `NothingDropped`, from `LateInv`.

### The file jobs

`JobInv` is about the stack of calls. Each works within the source and the destination of the item
(`Placed`), one that writes over something has the answer for that place and is not copying a file on itself, and the
first call of a deletion has the answer for all of it (`First`). While bytes go across, the file they go to is there and
is the destination, or what a link at the destination names (`Leaf`), and if it is to be removed after a failure it is
one that was free to take (`Mild`).

The properties alone are not inductive because of links. `open()` follows a link at the destination, so a step writes in a file
outside of the item's place, and what justifies it is that the link was there when the job began. A job makes
links too, so the invariant has to say that it does not come back to them. `Ahead` is where a call may
still make something: a directory that is being read, at the entries that are left; a leaf, at its destination; a link that is
being copied, or a copy that is complete, nowhere. `Later` is where the items to come may. `LinksOld` says that a link at such a place is the
one that was there when the job began, and `Apart` that nothing within the destination of a call is ahead of the calls
around it. Both hold because two entries of a directory, and two items of a job, have different names
(`ChildIn`, `LinksElsewhere`); a job for one item with a destination that is no directory has no other item.

A step touches the source or destination of the innermost call, or what an old link there names (`Touches`), and a
copy touches only what was not there or yields (`Asks`); that is enough for the three properties (`PropertiesKept`).
After that a step can do four things to the stack: end all calls, end the innermost, let it go on as another frame,
or call (`QuitsKeep`, `PopsKeep`, `SwapsKeep`, `PushesKeep`). Each action is one of these in each of its
outcomes; the failing ones, of which almost every action has some, are dealt with at once (`FailKeeps`, `FailEarly`).

### What is not proved

Model-checked only: everything about the emulator and the renderer, and of the file manager the
panels, the keys, the line editor, and `NothingLost` and `DoneMeansDone` of the jobs. Those two are about contents: they
compare a whole source tree with a whole copy, and a copy is complete only for trees with no link in the destination
that leads back into the source, which is a property of the starting trees and not of a step. Liveness and
fairness (`HandshakeEnds`, `EndedCloses`, `EscResolved`, `InputArrives`, `SilenceNoticed`) are out of reach of this
prover. So are recursive operators, which the reference definition of `McInput` has. Induction over data works
for a set of numbers (`ByInduction` in `MsshFlow_proofs`), not by the library's induction theorems, which
take an operator; what the folds of `VtReflow` compute for every line has not been proved this way.

## Not modelled

* Failures of `socket`, `fork` and `malloc` at start; the contents of messages beyond what they carry;
  reads interrupted by signals (the handlers are installed with `signal`, which restarts them).
* tmux: the clock and label timers, mouse reports, REMAIN_ON_EXIT=1, the text `status.c` writes, the cursor
  and mouse fields of a frame, the X11 build (`xtmux/x11_backend.c`: key translation and pixels).
* Emulator: the reply to CSI 6 n, title text, colon sub-parameters.
* ssh: cryptography, the dialogue about keys and known hosts, the parsing of the key files.
* mc: drawing, the viewer and the editor (one process over one buffer), zip, tar and inflate
  (algorithms on unbounded data, better compared with a reference implementation), attributes of files,
  jobs whose source is an archive.
* X11 surface, cryptography, small tools, start-up code, fonts: see PROJECT.json for each.

## Plan

Done: the models above, their runs, and the theorems listed. Next, in this order:

1. VtScreen: `OnScreen`, first for the cursor and the region, which depend on no fold, then for the grids.
2. A composition of MuxLoop and MuxSession, for a detach after the last window was closed; an abstract
   specification of a session with one owner, handed over, detached or ended in one step.
