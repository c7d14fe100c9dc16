------------------------------ MODULE MuxInput ------------------------------
(* The keys of `mux' (src/tmux/input.c): the prefix-key machine that turns  *)
(* the bytes of the terminal into events for the loop, and the machine of   *)
(* the scrollback viewer (src/tmux/main.c), which takes the bytes while it  *)
(* is open.  A byte stands for its class: letters that mean nothing are "a".*)
EXTENDS Naturals, Sequences

DigitOrder == <<"1", "2", "3", "4", "5", "6", "7", "8", "9", "0">>
Digit == {DigitOrder[i] : i \in DOMAIN DigitOrder}
Index(d) == CHOOSE i \in 0..9 : DigitOrder[i + 1] = d

Letter == {"c", "n", "p", "d", "x", "q", "l"}
Byte == Digit \cup Letter \cup {"pfx", "esc", "[", "~", ";", "A", "cr", "a"}

Fsm == {"ground", "command", "esc", "prefixEsc", "prefixCsi", "prefix5"}
View == {"ground", "esc", "csi"}

Nothing   == [cmd |-> "none"]
Pass(bs)  == [cmd |-> "pass", bytes |-> bs]     \* CMD_PASS_BYTE, CMD_PASS_TWO
Select(i) == [cmd |-> "select", slot |-> i]
Do(c)     == [cmd |-> c]

\* PREFIX and a letter.
CommandOf(b) == CASE b = "c" -> "new"
                  [] b = "n" -> "next"
                  [] b = "p" -> "prev"
                  [] b = "d" -> "detach"
                  [] b = "x" -> "close"
                  [] b = "q" -> "quit"
                  [] b = "l" -> "redraw"

\* input_feed: the state after byte b, and the event.
NextFsm(st, b) ==
  CASE st = "ground" /\ b = "pfx"       -> "command"
    [] st = "ground" /\ b = "esc"       -> "esc"
    [] st = "command" /\ b = "esc"      -> "prefixEsc"
    [] st = "prefixEsc" /\ b = "["      -> "prefixCsi"
    [] st = "prefixCsi" /\ b = "5"      -> "prefix5"
    [] OTHER                            -> "ground"

EventOf(st, b) ==
  CASE st = "ground" /\ b \notin {"pfx", "esc"} -> Pass(<<b>>)
    [] st = "esc" /\ b \in Digit                -> Select(Index(b))
    [] st = "esc" /\ b \notin Digit             -> Pass(<<"esc", b>>)
    [] st = "command" /\ b = "pfx"              -> Pass(<<b>>)
    [] st = "command" /\ b \in Digit            -> Select(Index(b))
    [] st = "command" /\ b \in Letter           -> Do(CommandOf(b))
    [] st = "command" /\ b = "["                -> Do("scroll")
    [] st = "prefix5" /\ b = "~"                -> Do("scroll")
    [] OTHER                                    -> Nothing

\* scrollback_input_byte: the keys that move the view leave it open.
NextView(v, b) ==
  CASE v = "ground" /\ b = "esc"              -> "esc"
    [] v = "esc" /\ b = "["                   -> "csi"
    [] v = "csi" /\ b \in Digit \cup {";"}    -> "csi"
    [] v = "csi" /\ b = "esc"                 -> "esc"
    [] OTHER                                  -> "ground"
LeavesView(v, b) == \/ v = "ground" /\ b = "q"
                    \/ v = "esc" /\ b # "["
=============================================================================
