SPECIFICATION WatchedSpec
CONSTANTS
  NSlot = 2
  Sizes <- MCSizes
  ViewSizes <- MCViewSizes
  Key = {"a", "esc", "2", "pfx", "n"}
  DownRoom = 2
  UpRoom = 4
  Budgets <- MCBudgets
INVARIANTS ShowsOwner KeysInOrder OnScreen
PROPERTIES PrimaryKept RegionKept PromptKept
CHECK_DEADLOCK FALSE
