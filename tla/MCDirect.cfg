SPECIFICATION Spec
CONSTANTS
  Keys = {k1, k2}
  Profiles = {"spf"}
  Settings = {"limit"}
  Offers <- Always
  Jobs = {"refresh"}
  Values = {0, 1}
  MaxConnections = 2
  MaxStates = 2
  MaxChanges = 1
  Nothing = Nothing
INVARIANT OfferedAfterCurrentSessionRead
\* The bounds end the connections and changes.
CHECK_DEADLOCK FALSE
