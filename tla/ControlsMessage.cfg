SPECIFICATION Spec
CONSTANTS
  Settings = {"output_limit"}
  Periods = {"charge_1"}
  Fields = {"start", "enabled"}
  Profiles = {"grid", "storage"}
  First = "storage"
  Selections = {"auto"}
  Models = {"SPH", "MIN"}
  Firmwares = {"v1", "v2"}
  Recorded <- ModelChanged
  Entered <- OtherFirmwareEntered
  Offers <- GridOrStorage
  SessionKeys = {"k1", "k2"}
  FirstKey = "k1"
  Editors = {"editor"}
  QueueSize = 1
  Wishes <- ThreeWishes
  Pages <- OldPage
  MaxTroubles = 1
  None = "none"
  Pending = "pending"
  Loop = "loop"
  Refresher = "refresher"
INVARIANTS NothingSentMeansNothingSent
