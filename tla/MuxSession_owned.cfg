SPECIFICATION Spec
CONSTANTS
  Proc = {p1, p2, p3}
  Prog = {g1}
  Sock = {l1, l2}
  Conn = {k1, k2, k3}
  None = None
  Backlog = 2
  MaxOut = 1
  MaxCrash = 1
  SoloStart = TRUE
SYMMETRY MCSymmetry
INVARIANTS
  PathServed
  ScreenComplete
PROPERTIES
  SessionKept
CHECK_DEADLOCK FALSE
