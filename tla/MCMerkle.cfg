SPECIFICATION HistoriesSpec
CONSTANTS
  Bytes <- NestedBytes
  RawLogs <- NestedLogs
  MaxLeaves = 8
  MaxFork = 4
INVARIANTS RootIsReference InclusionComplete ConsistencyComplete
           InclusionSound ConsistencySound
\* A history may stop growing.
CHECK_DEADLOCK FALSE
