CONSTANTS
  NumCpus = 5
  CpuInfos <- MCCpuInfos
  DefaultMaxCoresPerSlice = 3
  MinimumCpusPerSocket = 2
  MaxOption = 3
  Children = {c1, c2}
  Strangers = {s1}
  Threads = {t1, t2}
  SmallSize = 1
  BigSize = 1
  MaxArrays = 1
SPECIFICATION MCSpec
INVARIANTS
  Partition
  LimitKept
  NoLeak
PROPERTIES
  KeepsPromise
  EndReported
