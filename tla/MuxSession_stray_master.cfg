SPECIFICATION Spec
CONSTANTS
  Proc = {p1, p2}
  Prog = {g1}
  Sock = {l1, l2}
  Conn = {k1, k2}
  None = None
  Backlog = 2
  MaxOut = 0
  MaxCrash = 0
  SoloStart = TRUE
SYMMETRY MCSymmetry
INVARIANTS
  ClosedHangsUp
CHECK_DEADLOCK FALSE
