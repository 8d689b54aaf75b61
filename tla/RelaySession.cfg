SPECIFICATION Spec
CONSTANTS
  Data = {d1}
  Announces = {a1}
  NoRecord = NoRecord
  QueueSize = 2
  MaxReceipts = 3
  MaxClocks = 0
  MaxStalls = 1
INVARIANTS
  HandOverIsComplete
  NoRecordForgotten
PROPERTIES
  ImplementsAckOwnership
CHECK_DEADLOCK TRUE
