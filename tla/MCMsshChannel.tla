--------------------------- MODULE MCMsshChannel ---------------------------
EXTENDS MsshChannel

MCFates == {<<"exit-signal", "TERM">>}
MCEarlyFates == {<<"exit-status", 0>>}
=============================================================================
