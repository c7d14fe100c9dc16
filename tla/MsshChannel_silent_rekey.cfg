CONSTANTS
  Strict = {FALSE}
  MaxWindow = 3
  Windows = {1}
  MaxPkts = {2}
  WindowSize = 2
  SeqWrap = 2
  Streams = {"DATA"}
  Fates <- MCFates
  EarlyFates = {}
  MaxIn = 1
  MaxOut = 1
  MaxBurst = 1
  MaxRekeys = 1
  MaxExtra = 0
  MaxFlight = 2
  MayVanish = TRUE
SPECIFICATION FairSpec
PROPERTY AnySilenceNoticed
CHECK_DEADLOCK FALSE
