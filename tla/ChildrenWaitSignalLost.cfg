CONSTANTS
  N = 1
  ExitCodes = {0}
  CoreDumps = FALSE
  TermSignals = {15}
  MaxSignals = 1
SPECIFICATION FreshFairSpec
PROPERTIES
  SignalStops
