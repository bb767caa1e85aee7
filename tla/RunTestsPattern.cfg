CONSTANTS
  Tests = 2
  Hidden = {}
  NumCpus = 2
  RetestCount = 1
  TotalRetest = 3
  MaxTestCount = 3
  Signals = {2}
  MaxFractures = 1
SPECIFICATION Spec
INVARIANTS
  SamePattern
