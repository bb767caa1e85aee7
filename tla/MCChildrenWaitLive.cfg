CONSTANTS
  N = 2
  ExitCodes = {0}
  CoreDumps = FALSE
  TermSignals = {2}
  MaxSignals = 1
SPECIFICATION FairSpec
PROPERTIES
  WaitEnds
  CaughtSignalStops
