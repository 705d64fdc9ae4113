SPECIFICATION FairSpec
CONSTANTS
  Screens <- MCScreens
  Start <- MCStart
  MaxWidth = 300
  Steps = 65536
  VideoCap = 2
  MaxWire = 1
  BatchMax = 2
  MaxChanges = 3
  MaxClicks = 0
  Columns <- MCColumns
PROPERTIES
  MirrorSpec
  LatestShown
CHECK_DEADLOCK FALSE
