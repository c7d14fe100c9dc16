SPECIFICATION FairSpec
CONSTANTS
  Proc = {p1, p2}
  Prog = {g1, g2}
  Sock = {l1, l2}
  Conn = {k1}
  None = None
  Backlog = 2
  MaxOut = 0
  MaxCrash = 1
  SoloStart = TRUE
PROPERTIES
  HandshakeEnds
CHECK_DEADLOCK FALSE
