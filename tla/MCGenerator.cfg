SPECIFICATION Spec
CONSTANTS
  Workers = {1, 2}
  Protocols = {"udp", "tcp"}
  rate = 4
  duration = 1
  batch_size = 2
  TicksPerSecond = 1
  SocketBuffer = 1
  MaxTicks = 2
  MaxTaken <- MCMaxTaken
  MaxFaults = 2
INVARIANTS InTurn OnSchedule Accounted
PROPERTY Ends
\* A run ends.
CHECK_DEADLOCK FALSE
