CONSTANTS
  Strict = {FALSE}
  MaxWindow = 3
  Windows = {1}
  MaxPkts = {2}
  WindowSize = 2
  SeqWrap = 2
  Streams = {"DATA"}
  Fates <- MCFates
  EarlyFates <- MCEarlyFates
  MaxIn = 2
  MaxOut = 1
  MaxBurst = 1
  MaxRekeys = 1
  MaxExtra = 0
  MaxFlight = 1
  MayVanish = TRUE
SPECIFICATION FairSpec
PROPERTIES InputArrives SilenceNoticed
CHECK_DEADLOCK FALSE
