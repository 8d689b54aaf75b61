SPECIFICATION Spec
CONSTANTS
  Devices = {d1, d2}
  Profiles = {"plain", "battery"}
  Topics = {"power", "energy"}
  TopicsOf <- PlainOrBattery
  Lineage <- BatteryLineage
  MaxDevices = 2
  MaxReadings = 2
  MaxTroubles = 2
SYMMETRY AnyDevice
INVARIANTS AnnouncedIsRetained QuietMeansShown
PROPERTIES StateNeverGoesBack NoRecordForgotten
CHECK_DEADLOCK FALSE
