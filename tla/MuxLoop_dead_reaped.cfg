SPECIFICATION Spec
CONSTANTS
  NSlot = 2
  Prog = {g1, g2}
  None = None
  Key = {"a"}
  EscTimeout = 1
  MaxTyped = 1
  Observed = TRUE
  Signalled = FALSE
SYMMETRY Symmetry
INVARIANT DeadReaped
CHECK_DEADLOCK FALSE
