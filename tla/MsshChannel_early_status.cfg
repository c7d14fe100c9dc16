CONSTANTS
  Strict = {TRUE}
  MaxWindow = 3
  Windows = {1}
  MaxPkts = {1}
  WindowSize = 4
  SeqWrap = 2
  Streams = {"EXT_DATA"}
  Fates <- MCFates
  EarlyFates <- MCEarlyFates
  MaxIn = 1
  MaxOut = 2
  MaxBurst = 2
  MaxRekeys = 1
  MaxExtra = 1
  MaxFlight = 2
  MayVanish = FALSE
SPECIFICATION Spec
INVARIANT EarlyExitHonest
CHECK_DEADLOCK FALSE
