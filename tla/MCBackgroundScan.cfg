CONSTANTS
  Timestamps = 3
  MinimumDelayBetweenTests = 2
  Deviation = 1
  MaximumDelayBetweenTests = 6
  DelayBetweenTestBatch = 12
  Hour = 2
  UsecondsMax = 9
  ThresholdInit = 1
  ThresholdMax = 3
  Horizon = 34
  RecycleAfter = 3
  MaxIterations = 7
  MaxRetried = 2
  KvmConfigs <- MCKvmConfigs
  TimedTests <- MCTimedTests
  TimeThreads = 2
  DefaultTestDuration = 3
  FirstIteration = 2
  AutoFracture = 1
  IntMax = 31
  TimeoutExtra = 1
  TimeoutMin = 4
  MinimumLoop = 2
  MaximumLoop = 4
  TimeIgnored = 1
  ThrottleTime = 2
  RunsAtOnce = 3
  LatestTime = 36
  Places <- MCPlaces
  RandomData = {127, 200}
  TestDraws <- MCTestDraws
  MaxTests = 2
SPECIFICATION MCSpec
INVARIANTS
  BatchKept
  MachinesReleased
  EnoughTime
  EndsInTime
  Reproducible
CHECK_DEADLOCK FALSE
