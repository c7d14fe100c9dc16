SPECIFICATION Spec
CONSTANTS
  Proc = {p1, p2}
  Prog = {g1, g2}
  Sock = {l1, l2}
  Conn = {k1, k2}
  None = None
  Backlog = 2
  MaxOut = 0
  MaxCrash = 0
  SoloStart = FALSE
SYMMETRY MCSymmetry
INVARIANTS
  SingleSession
CHECK_DEADLOCK FALSE
