SPECIFICATION Spec
CONSTANTS
  NSlot = 2
  Prog = {g1, g2}
  None = None
  Key = {"esc", "[", "A"}
  EscTimeout = 1
  MaxTyped = 1
  Observed = TRUE
  Signalled = TRUE
SYMMETRY Symmetry
INVARIANTS OwnKept
PROPERTIES CurOpen EmptyQuits
CHECK_DEADLOCK FALSE
