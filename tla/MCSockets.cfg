SPECIFICATION FairSpec
CONSTANTS
  Udp = {u}
  Tcp = {c1, c2}
  batch_size = 2
  batch_timeout = 1
  RawCapacity = 1
  TxCapacity = 1
  MaxLines = 3
  MaxBlanks = 1
INVARIANTS DeliveredInOrder TimeoutFlushes
PROPERTIES UdpDelivers TcpDeliversAtEof DropTravels
\* The network may fall silent.
CHECK_DEADLOCK FALSE
