CONSTANTS
  N = 2
  ExitCodes = {0, 255}
  CoreDumps = TRUE
  TermSignals = {2, 15}
  MaxSignals = 2
SPECIFICATION Spec
INVARIANTS
  ResultsFaithful
PROPERTIES
  NoSignalToReaped
