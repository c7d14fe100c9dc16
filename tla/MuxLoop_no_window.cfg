SPECIFICATION Spec
CONSTANTS
  NSlot = 1
  Prog = {g1}
  None = None
  Key = {"pfx", "x", "l"}
  EscTimeout = 1
  MaxTyped = 4
  Observed = FALSE
  Signalled = FALSE
SYMMETRY Symmetry
INVARIANT NeverFaults
CHECK_DEADLOCK FALSE
