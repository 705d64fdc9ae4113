SPECIFICATION WindowsSpec
CONSTANTS
  Clients = {c1, c2}
  Hosts = {a, h}
  Hashed = {h}
  Prefilled = Prefilled
  Blank = Blank
  MaxHosts = 2
  MaxEdits = 2
  MaxFaults = 1
  SBW = 1
  THUMB_MIN = 2
  WHEEL_STEP = 3
  Windows <- MCWindowSizes
  Pictures <- MCPictures
SYMMETRY Symmetry
INVARIANTS
  DoubleClickConnects
  ScrollInRange
  DrawnIsSent
  PanicsOnlyInSlivers
  DragFollows
PROPERTY SavedStays
CHECK_DEADLOCK FALSE
