SPECIFICATION EvaluatorSpec
CONSTANTS
  number <- MCNumber
  lowercase <- MCLowercase
  uppercase <- MCUppercase
  Dates <- MCDates
  Threads <- MCThreads
  Raws <- MCRaws
  text <- MCText
  body <- MCBody
  json <- MCJson
  Keys = {1, 2, 3}
  hash <- MCHash
  num_shards = 1
  capacity = 1
  RingCapacity = 1
  MaxEvents = 5
  threads = 2
  Corpora <- MCCorpora
  length <- MCLength
  WarmUp = 1
  Batch = 2
  Samples = 1
INVARIANTS RoutesAreClasses TiersAddUp OneExemplarPerCluster SameAsBaseline ReportIsExact
PROPERTY Reported
\* The benchmark ends.
CHECK_DEADLOCK FALSE
