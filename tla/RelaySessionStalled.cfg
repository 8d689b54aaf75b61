SPECIFICATION Spec
CONSTANTS
  Data = {d1}
  Announces = {a1}
  NoRecord = NoRecord
  QueueSize = 2
  MaxReceipts = 2
  MaxClocks = 0
  MaxStalls = 1
INVARIANTS
  DocumentedLocalReplies
CHECK_DEADLOCK FALSE
