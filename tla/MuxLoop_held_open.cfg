SPECIFICATION Spec
CONSTANTS
  NSlot = 2
  Prog = {g1, g2}
  None = None
  Key = {"esc", "["}
  EscTimeout = 1
  MaxTyped = 2
  Observed = TRUE
  Signalled = FALSE
SYMMETRY Symmetry
INVARIANT HeldOpen
CHECK_DEADLOCK FALSE
