SPECIFICATION Spec
CONSTANTS
  Typed = {15, 27, 53, 68, 91, 97, 121, 127, 169, 195}
  JobKey <- MCJobKey
  Yes <- MCYes
  BlockSize = 3
  LineSize = 7
  Field = 4
  Button = 0
  MaxTyped = 4
INVARIANT WaitsForRest
CHECK_DEADLOCK FALSE
