SPECIFICATION Spec
CONSTANTS
  max_batch_size = 2
  max_batch_duration = 1
  MaxLogs = 4
  MaxFaults = 3
  FaultKinds <- CrashOnly
INVARIANTS RestartContinues
\* The environment may stop pushing logs.
CHECK_DEADLOCK FALSE
