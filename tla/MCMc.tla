-------------------------------- MODULE MCMc --------------------------------
(* The file manager in small: its jobs, its panels and its keys.  Only one   *)
(* of the three machines runs in a behaviour (they meet in what              *)
(* OtherPrograms, JobEnds and Handle say of each other), so they share the   *)
(* variables, each with a meaning of its own; the rest stay as they are.     *)
EXTENDS MCMcJob

VARIABLE part   \* the machine that runs

\* Panels: a root with two directories, an archive, a program and files, some
\* of them in one of the directories too; two versions of the archive.
D == <<97>>
E == <<98>>
G == <<98, 46, 97>>
H == <<98, 98>>
X == <<98, 45>>
Z == <<122>>
PanelNames == {D, E, G, H, X, Z}
PanelKind ==
  [n \in PanelNames |-> CASE n = D -> "dir" [] n = X -> "exe" [] n = Z -> "arc" [] OTHER -> "other"]
PanelTree == <<<<Z>>, <<H>>, <<D>>, <<G>>, <<X>>, <<E>>, <<D, D>>, <<D, G>>>>
PanelMembers ==
  << <<[path |-> <<<<46>>, D, G>>, dir |-> FALSE], [path |-> <<E>>, dir |-> FALSE], [path |-> <<D, D>>, dir |-> TRUE]>>,
     <<[path |-> <<E>>, dir |-> FALSE], [path |-> <<E>>, dir |-> FALSE]>> >>
PanelTyped == {[from |-> "here", comps |-> <<<<46, 46>>>>], [from |-> "home", comps |-> <<>>]}

Panel == INSTANCE McPanel WITH
  Names <- PanelNames, Kind <- PanelKind, Makeable <- PanelTree, Home <- <<D, D>>,
  Members <- PanelMembers, Typed <- PanelTyped, Letters <- {98}, Sizes <- {8, 10},
  MaxE <- 7, MaxMembers <- 3, MarkRoom <- 5, MaxSub <- 2, MaxOps <- 4, MaxChanges <- 1,
  fs <- fs, ver <- cross, pan <- here, act <- base, mode <- dst, pref <- job, rows <- marks,
  hidden <- skips, alt <- grp, shell <- stack, over <- ask, ops <- past, changes <- budget

Keys == INSTANCE McInput WITH
  Typed <- {15, 27, 53, 68, 91, 97, 121, 127, 169, 195}, JobKey <- <<"alt", 53>>, Yes <- <<"byte", 121>>,
  BlockSize <- 3, LineSize <- 7, Field <- 4, Button <- 0, MaxTyped <- 4,
  typed <- fs, unread <- cross, block <- here, at <- base, waiting <- dst, chain <- job,
  recent <- marks, hidden <- skips, busy <- grp, job <- stack, line <- ask, keys <- past,
  since <- budget

McInit ==
  \/ part = "job" /\ Init
  \/ part = "panel" /\ Panel!Init /\ phase = "elsewhere"
  \/ part = "keys" /\ Keys!Init /\ phase = "elsewhere"
McNext ==
  \/ part = "job" /\ Next /\ UNCHANGED part
  \/ part = "panel" /\ Panel!Next /\ UNCHANGED <<phase, part>>
  \/ part = "keys" /\ Keys!Next /\ UNCHANGED <<phase, part>>

(* What McPanel and McInput say under these names.  (McJob's invariants are   *)
(* about the phases of a job, which the other machines have none of.)         *)
HighlightShown == part = "panel" => Panel!HighlightShown
RescanKeeps == part = "panel" => Panel!RescanKeeps
BackWhereItWas == part = "panel" => Panel!BackWhereItWas
SplitBlind == part = "keys" => Keys!SplitBlind
LineWhole == part = "keys" => Keys!LineWhole
=============================================================================
