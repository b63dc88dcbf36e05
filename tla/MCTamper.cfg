SPECIFICATION Spec
CONSTANTS
  a = a
  b = b
  Bytes = {a, b}
  RawLogs <- OneByteLogs
  Metas = {m, n}
  MaxRows = 3
  MaxEdits = 3
SYMMETRY Symmetry
INVARIANTS AuditIsExact CliTamperIsolated
\* Editing may stop.
CHECK_DEADLOCK FALSE
