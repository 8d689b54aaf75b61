SPECIFICATION FairSpec
CONSTANTS
  Callers = {c1, c2}
  N = 2
  Recovery = TRUE
  MaxCloudCommands = 1
  MaxClocks = 0
  MaxReplies = 0
PROPERTIES
  RecoveryWaitsForCommands
  EveryCommandEnds
  RecoveryFinishes
CHECK_DEADLOCK TRUE
