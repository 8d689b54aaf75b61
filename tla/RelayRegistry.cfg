SPECIFICATION FairSpec
CONSTANTS
  Sessions = {s1, s2, s3}
  Inverters = {i1, i2}
  Loggers = {l1, l2}
  Nobody = Nobody
  MaxConnections = 2
  MaxDevices = 1
INVARIANTS
  EntriesAreLive
  OneOpenOwner
  LastAnnouncerOwns
PROPERTIES
  CloseCompletes
CHECK_DEADLOCK TRUE
