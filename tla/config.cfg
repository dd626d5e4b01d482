SPECIFICATION Spec
CONSTANTS
  Agents = {a1, a2}
  Names = {n1, n2}
  Paths = {p1, p2}
  NoPath = NoPath
  Direct = Direct
  Gone = Gone
  Torn = Torn
  MaxSessions = 2
  MaxEdits = 1
SYMMETRY Symmetry
INVARIANTS PatchedIsRecoverable TornOnlyByBackup NoStaleRestore OrderlyStopUnwraps
CHECK_DEADLOCK FALSE
