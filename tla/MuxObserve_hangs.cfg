SPECIFICATION FairSpec
CONSTANTS
  NSlot = 2
  Sizes <- MCSizes
  ViewSizes <- MCViewSizes
  Key = {"a"}
  DownRoom = 2
  UpRoom = 3
  Budgets <- MCBudgets
PROPERTY DetachCompletes
CHECK_DEADLOCK FALSE
