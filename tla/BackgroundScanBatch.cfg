CONSTANTS
  Timestamps = 3
  MinimumDelayBetweenTests = 2
  Deviation = 1
  MaximumDelayBetweenTests = 6
  DelayBetweenTestBatch = 12
  Hour = 2
  UsecondsMax = 9
  ThresholdInit = 1
  ThresholdMax = 3
  Horizon = 34
SPECIFICATION Spec
INVARIANT NotTooMany
CHECK_DEADLOCK FALSE
