SPECIFICATION FairSpec
CONSTANTS
  Calls = {c1, c2, c3}
  Agents = {ana}
  MultiProfile = TRUE
  NoFile = NoFile
  Empty = Empty
  Torn = Torn
  Off = Off
  MaxSaves = 1
  MaxFaults = 1
  MaxRestarts = 1
INVARIANTS TypeOK SettingsKept BadgeShown
PROPERTIES CallsServed
CHECK_DEADLOCK FALSE
