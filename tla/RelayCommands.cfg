SPECIFICATION Spec
CONSTANTS
  Callers = {c1, c2}
  N = 3
  Recovery = FALSE
  MaxCloudCommands = 1
  MaxClocks = 1
  MaxReplies = 2
INVARIANTS
  DistinctOnTheWire
  RepliesGoHome
  AnsweredByOwnReply
SYMMETRY Symmetric
CHECK_DEADLOCK TRUE
