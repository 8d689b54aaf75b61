SPECIFICATION FairSpec
CONSTANTS
  Data = {d1}
  Announces = {a1}
  NoRecord = NoRecord
  QueueSize = 2
  MaxReceipts = 2
  MaxClocks = 1
  MaxStalls = 1
INVARIANTS
  ClockSupplied
PROPERTIES
  OutstandingIsAnswered
CHECK_DEADLOCK TRUE
