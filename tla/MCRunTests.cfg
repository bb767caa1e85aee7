CONSTANTS
  Tests = 2
  Hidden = {}
  NumCpus = 2
  RetestCount = 2
  TotalRetest = 3
  MaxTestCount = 3
  Signals = {2}
  MaxFractures = 1
  TopoMachines <- MCTopoMachines
  CpusetArgs <- MCCpusetArgs
  WordBits = 4
  MaxAttempts = 2
  Catalog <- MCCatalog
  Mce <- MCMce
  Selections <- MCSelections
  MaxPasses = 2
  CommandOptions <- MCCommandOptions
  MaxOptions = 2
  OptionBuilds <- MCOptionBuilds
  NotANumber = NotANumber
  IntBits = 3
  LongBits = 5
  MaxRetests = 3
  MaxIdle = 2
  MaxTemp = 3
  MaxIndent = 3
  EventMachines <- MCEventMachines
  CountWrap = 2
  MaxEvents = 3
  MaxChecks = 2
SPECIFICATION MCSpec
INVARIANTS
  ExitCodeTells
  TopologyFresh
  CpusetExact
  FailuresTold
  AsOftenAsAsked
  NumbersRead
  MceBlamed
PROPERTIES
  RetriesThorough
