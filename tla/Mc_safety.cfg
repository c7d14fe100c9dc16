INIT McInit
NEXT McNext
CONSTANTS
    Order <- ConstOrder
    Depth = 3
    Room = 3
    Trees <- ConstTrees
    Homes <- ConstHomes
    Cwd <- ConstCwd
    Dests <- ConstDests
    Kinds = {"copy", "move", "delete"}
    Faults = 1
    Foreign = 1
    Jobs = 1
CHECK_DEADLOCK FALSE
INVARIANTS
    NothingLost
    OnlyTheItems
    KeepsUnasked
    DoneMeansDone
    DeletesApproved
    HighlightShown
    RescanKeeps
    BackWhereItWas
    SplitBlind
    LineWhole
