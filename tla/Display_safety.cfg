SPECIFICATION DisplaySpec
CONSTANTS
  Narrow = {"a", "b"}
  Wide = {"W"}
  ZeroWidth = {}
  Cap = 6
  TabStop = 2
  Stale = "stale"
  Rows = 2
  Cols = 3
  Sizes <- MCSizes
  MaxOps = 8
  MaxLine = 4
  MaxResizes = 2
INVARIANTS Resyncs TerminalShows
PROPERTIES KeepsText ForgetsLate
CHECK_DEADLOCK FALSE
