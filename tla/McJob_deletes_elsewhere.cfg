SPECIFICATION Spec
CONSTANTS
    Order <- ConstOrder
    Depth = 3
    Room = 3
    Trees <- ConstTrees
    Homes <- BothHomes
    Cwd <- ConstCwd
    Dests <- ConstDests
    Kinds = {"copy", "delete"}
    Faults = 0
    Foreign = 0
    Jobs = 1
CHECK_DEADLOCK FALSE
INVARIANT DeletesWhatIsShown
