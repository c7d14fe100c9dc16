SPECIFICATION Spec
CONSTANTS
  Proc = {p1, p2, p3}
  Prog = {g1}
  Sock = {l1, l2}
  Conn = {k1, k2, k3}
  None = None
  Backlog = 2
  MaxOut = 0
  MaxCrash = 1
  SoloStart = FALSE
SYMMETRY MCSymmetry
INVARIANTS
  TypeOK
  OneAcceptor
  OneDriver
CHECK_DEADLOCK FALSE
