SPECIFICATION FairSpec
CONSTANTS
  max_batch_size = 2
  max_batch_duration = 1
  MaxLogs = 4
  MaxFaults = 2
  FaultKinds <- AllFaults
  Sources = {udp, tcp}
  ChannelCapacity = 2
  MaxLines = 1
INVARIANTS SourceOrder NothingDropped
PROPERTY FullBatchAnchored
\* The sources may fall silent.
CHECK_DEADLOCK FALSE
