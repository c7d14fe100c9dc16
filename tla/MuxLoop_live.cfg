SPECIFICATION FairSpec
CONSTANTS
  NSlot = 2
  Prog = {g1, g2}
  None = None
  Key = {"esc", "["}
  EscTimeout = 2
  MaxTyped = 2
  Observed = FALSE
  Signalled = FALSE
PROPERTIES EndedCloses EscResolved
CHECK_DEADLOCK FALSE
