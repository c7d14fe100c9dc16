------------------------------ MODULE MCWatched ------------------------------
(* The screen of a window, and its way to an observer, in small.  In the code *)
(* the link carries whatever the screen holds, and the emulator knows nothing *)
(* of the link, so only one of the two moves in a behaviour and the other     *)
(* stays as it was at first.                                                  *)
EXTENDS MuxObserve

VARIABLES part, wait,        \* what moves, and how often the screen has waited
          screen, last, ops  \* the emulator's: s, op and ops of VtTerminal

\* The controls a program sends: one or two of every kind that VtScreen tells
\* apart.  The sizes its terminal has first, and is given later.
MCFirst == <<3, 3>>
MCShapes == {<<2, 2>>, <<3, 2>>, <<3, 4>>}
MCMoves == {<<"A", <<1>>>>, <<"B", <<>>>>, <<"C", <<1>>>>, <<"D", <<1>>>>, <<"E", <<1>>>>,
            <<"F", <<>>>>, <<"G", <<2>>>>, <<"d", <<3>>>>, <<"H", <<2, 2>>>>, <<"I", <<>>>>,
            <<"Z", <<>>>>, <<"r", <<2>>>>, <<"r", <<1, 2>>>>, <<"s", <<>>>>, <<"u", <<>>>>}
MCEdits == {<<"J", <<0>>>>, <<"J", <<1>>>>, <<"J", <<3>>>>, <<"K", <<0>>>>, <<"K", <<1>>>>,
            <<"K", <<2>>>>, <<"X", <<>>>>, <<"b", <<2>>>>, <<"@", <<1>>>>, <<"P", <<1>>>>,
            <<"L", <<1>>>>, <<"M", <<2>>>>, <<"S", <<1>>>>, <<"T", <<1>>>>, <<"h", <<4>>>>,
            <<"l", <<4>>>>, <<"g", <<0>>>>, <<"g", <<3>>>>}
MCPrivates == {<<"h", <<6>>>>, <<"l", <<6>>>>, <<"h", <<1049>>>>, <<"l", <<47>>>>,
               <<"l", <<7>>>>, <<"h", <<7, 25>>>>, <<"h", <<1002, 1006>>>>, <<"l", <<1000, 1006>>>>}
MCEscapes == {"7", "8", "D", "E", "H", "M", "c"}
MCControls == {"BS", "HT", "LF", "CR"}

Terminal == INSTANCE VtTerminal WITH
  Narrow <- {"a"}, Wide <- {"W"}, ZeroWidth <- {"z"}, Cap <- 5, TabStop <- 2, Stale <- "stale",
  First <- MCFirst, Sizes <- MCShapes, Moves <- MCMoves, Edits <- MCEdits,
  Privates <- MCPrivates, Escapes <- MCEscapes, Controls <- MCControls, MaxOps <- 5,
  s <- screen, op <- last, ops <- ops

ASSUME ScreenAssumption == Terminal!VtBounds

\* A terminal that is larger than the screen one way, and smaller the other;
\* a burst of actions, two keys, or output with a key.
MCSizes == {<<1, 2>>, <<2, 1>>}
MCViewSizes == {<<2, 2>>, <<3, 1>>}
MCBudgets == {[out |-> 1, act |-> 2, winch |-> 1, keys |-> 0],
              [out |-> 0, act |-> 0, winch |-> 0, keys |-> 2],
              [out |-> 1, act |-> 0, winch |-> 0, keys |-> 1]}

\* A behaviour of the link has at most 32 states, and there are fewer of them:
\* the screen waits as long, so that a breadth-first search sees the link first.
Lead == 32
machines == <<vars, screen, last, ops>>

WatchedInit ==
  /\ Init /\ Terminal!Init /\ part \in {"link", "screen"} /\ wait = 0
  /\ part = "screen" => o.link = "new" /\ o.size = <<1, 2>> /\ v.our = <<2, 2>> /\ left.winch = 1
Links == part = "link" /\ Next /\ UNCHANGED <<part, wait, screen, last, ops>>
Waits == part = "screen" /\ wait < Lead /\ wait' = wait + 1 /\ UNCHANGED <<part, machines>>
Shows == part = "screen" /\ wait = Lead /\ Terminal!Next /\ UNCHANGED <<part, wait, vars>>
WatchedNext == Links \/ Waits \/ Shows
WatchedSpec == WatchedInit /\ [][WatchedNext]_<<part, wait, machines>>

(* What VtTerminal says under these names. *)
OnScreen == Terminal!OnScreen
PrimaryKept == Terminal!PrimaryKept
RegionKept == Terminal!RegionKept
PromptKept == Terminal!PromptKept
WrapAtMargin == Terminal!WrapAtMargin
HandoverComplete == Terminal!HandoverComplete
=============================================================================
