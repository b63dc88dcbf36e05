SPECIFICATION Spec
CONSTANTS
  Tokens <- Words
  Params = {"443"}
  Dynamic = {"v1"}
  to_ascii_uppercase <- Upper
  Wild = "<*>"
  Star = "*"
  unique_anchor_tokens = {"ALLOW", "DENY"}
  depth = 4
  max_children = 1
  rare_count_threshold = 1
  ThresholdNum = 1
  ThresholdDen = 2
  Logs <- VerdictLogs
  MaxLogs = 5
INVARIANTS TemplateCovers ActionInviolability Filed FoundAgain SurgeOnce
\* The stream of logs may end.
CHECK_DEADLOCK FALSE
