SPECIFICATION FairSpec
CONSTANTS
  max_batch_size = 2
  max_batch_duration = 1
  MaxLogs = 5
  MaxFaults = 3
  FaultKinds <- AllFaults
INVARIANT Anchored
PROPERTIES SealedForever ImplementsAnchorLog EventuallyAnchored
\* The environment may stop pushing logs.
CHECK_DEADLOCK FALSE
