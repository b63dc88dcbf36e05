SPECIFICATION ParserSpec
CONSTANTS
  number <- MCNumber
  lowercase <- MCLowercase
  uppercase <- MCUppercase
  Dates <- MCDates
  Raws <- MCRaws
  text <- MCText
  body <- MCBody
  json <- MCJson
  hash <- MCHash
  meant <- MCMeant
  Keys <- MCKeys
  Formats <- VendorFormat
  num_shards = 2
  capacity = 2
  Threads = {t1, t2}
  MaxCalls = 4
SYMMETRY Symmetric
INVARIANTS OrderIsMap EventAsMeant CachedAsUncached
PROPERTY ImplementsCache
\* Callers may stop, and a caller that panicked has.
CHECK_DEADLOCK FALSE
