SPECIFICATION OnboarderSpec
CONSTANTS
  Chars <- MCChars
  SampleFiles <- MCSampleFiles
  Vendors = {"Acme", "ACME"}
  to_lowercase <- Lower
  MaxRuns = 2
INVARIANTS SamplesExtracted ExportsAgree
\* The user may stop.
CHECK_DEADLOCK FALSE
