------------------------------- MODULE MCDisplay -----------------------------
(* What a program writes, on its way to the terminal of the user, in small:  *)
(* the text on the screen of the emulator, the parser before it and the      *)
(* renderer behind it.  Only one of the three runs in a behaviour, so they   *)
(* share the variables, each with a meaning of its own; the rest stay as     *)
(* they are.                                                                 *)
EXTENDS VtText

VARIABLE part   \* the machine that runs

MCSizes == {<<2, 2>>, <<3, 3>>, <<3, 4>>, <<1, 3>>, <<4, 2>>}

Parser == INSTANCE VtParser WITH
  Bytes <- {7, 24, 27, 32, 49, 59, 63, 80, 91, 93, 109, 195}, MaxParams <- 2, MaxInter <- 1,
  Guard <- 5, MaxOsc <- 2, p <- s

-----------------------------------------------------------------------------
\* The renderer's lines: plain ones that wrap and do not, wide characters at
\* both ends, colours, attributes that only show on some cells, a hidden cursor.
Of(ch, back, attrs) == <<ch, <<back, attrs>>>>
Plain(chs) == [i \in DOMAIN chs |-> Of(chs[i], "dfl", {})]
RLine(cells, wraps, visible) == [cells |-> cells, wraps |-> wraps, visible |-> visible]
Empty == RLine(Plain(<<" ", " ", " ", " ">>), FALSE, TRUE)
Long == RLine(Plain(<<"a", "b", "c", "d">>), TRUE, TRUE)
Ended == RLine(Plain(<<"a", "b", "c", "d">>), FALSE, TRUE)
LongWide == RLine(Plain(<<"a", "b", "W", "cont">>), TRUE, TRUE)
Red == Of(" ", "red", {})
Coloured == RLine(Plain(<<"W", "cont">>) \o <<Red, Of("a", "dfl", {"bold"})>>, FALSE, FALSE)
Bright ==
  RLine(<<Of("b", "dfl", {"bold", "reverse"}), Of(" ", "dfl", {"bold"})>> \o Plain(<<"c", " ">>), FALSE, TRUE)

Renderer == INSTANCE MuxRender WITH
  Rows <- 3, Cols <- 4, Wide <- {"W"}, Lines <- {Long, Ended, LongWide, Coloured, Bright},
  Bars <- {<<Red, Red, Red, Red>>, <<Of("a", "red", {}), Of("b", "dfl", {"bold", "reverse"}), Red, Red>>},
  Screens <- {<<Long, LongWide, Empty>>, <<Empty, Coloured, Long>>},
  GapFill <- 2, EraseMin <- 1, MinSaving <- 3, HideMin <- 6, MaxEdits <- 1,
  scr <- s, d <- resizes, edits <- ops

textVars == <<text, torn, line>>
NoText == text = <<<<>>>> /\ torn = FALSE /\ line = 0

DisplayInit ==
  \/ part = "text" /\ Init
  \/ part = "parser" /\ Parser!Init /\ NoText /\ ops = 0 /\ resizes = 0
  \/ part = "renderer" /\ Renderer!Init /\ NoText
DisplayNext ==
  \/ part = "text" /\ Next /\ UNCHANGED part
  \/ part = "parser" /\ Parser!Next /\ UNCHANGED <<textVars, ops, resizes, part>>
  \/ part = "renderer" /\ Renderer!Next /\ UNCHANGED <<textVars, part>>
DisplaySpec == DisplayInit /\ [][DisplayNext]_<<s, textVars, ops, resizes, part>>

(* What VtParser and MuxRender say under these names.  (KeepsText and         *)
(* ForgetsLate are about text, which only the first machine changes.)        *)
Resyncs == part = "parser" => Parser!Resyncs
TerminalShows == part = "renderer" => Renderer!TerminalShows
=============================================================================
