CONSTANTS
  NumCpus = 3
  MembersPerGroup = 2
  EarlyFinish = FALSE
  MaxRounds = 3
  ScanMachines <- MCScanMachines
  ThreadIds <- MCThreadIds
  FrequencyMachines <- MCFrequencyMachines
  MaxCoreLevels = 6
  MaxUncoreLevels = 4
  LevelStep = 4
  FractureBound = 7
  Starts = 2
  MayBeKilled = TRUE
  FloatDigits = 7
  FloatExponent = 4
  HalfDigits = 4
  HalfExponent = 3
  BFloatDigits = 4
SPECIFICATION MCSpec
INVARIANTS
  EvenUse
  ImageAsNamed
  Restored
  SameChild
  StoredRounded
PROPERTIES
  PartnersReleased
  AllStarted
CHECK_DEADLOCK FALSE
