SPECIFICATION Spec
CONSTANTS
  MaxRecords = 5
  MaxBytes = 8
  CompactMin = 3
  GarbageLen = 20
  CrashPoints = {"recovered", "ready", "written", "acked", "compacted", "truncated"}
  IoErrors = TRUE
INVARIANTS ReplaysUntilDamaged AcknowledgedStaysGone
PROPERTY ImplementsDurableQueue
CHECK_DEADLOCK FALSE
