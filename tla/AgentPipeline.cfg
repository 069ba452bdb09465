SPECIFICATION Spec
CONSTANTS
  Worlds <- MCWorlds
  Rules <- MCRules
  Baseline <- MCBaseline
  Threads <- MCThreads
  Workers <- MCWorkers
  QueueCapacity = 1
  MaxPrepared = 1
  MaxNodes = 4
  MaxDumpEvents = 2
  DumpInterval = 2
  StoreCapacity = 2
  Compression = 1
  MaxFrameCount = 2
  QueueCap = 4
  MaxAge = 1
  HousekeepingPeriod = 2
  MaxSqlPerPass = 1
  MaxLag = 1
  AgentPid = 9
INVARIANTS
  TelemetryAccounted
  EveryMatchReported
  GraphIsLatest
  ForwardedIsJudged
PROPERTIES
  PipelineSettles
  CallsReturn
CHECK_DEADLOCK FALSE
