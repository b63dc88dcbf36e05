SPECIFICATION FairSpec
CONSTANTS
  max_batch_size = 2
  max_batch_duration = 1
  MaxLogs = 2
  MaxFaults = 0
  FaultKinds <- NoFaults
  Sources = {udp, tcp}
  ChannelCapacity = 1
  MaxLines = 2
PROPERTIES TimeTriggerFires
\* The sources may fall silent.
CHECK_DEADLOCK FALSE
