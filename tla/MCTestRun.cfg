CONSTANTS
  NumCpus = 2
  Plan <- MCPlan
  MaxAttempts = 2
  LogConfigs <- MCLogConfigs
  max_messages_per_thread = 1
  max_logdata_per_thread = 3
  MaxCalls = 2
  MaxTests = 2
SPECIFICATION MCSpec
INVARIANTS
  NoFailureLost
  FailedCpusFaithful
  NoFalseAlarm
  YamlWellFormed
  OwnMessages
  ErrorsShown
