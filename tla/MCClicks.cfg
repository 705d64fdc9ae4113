SPECIFICATION Spec
CONSTANTS
  Screens <- MCScreens
  Start <- MCStart
  MaxWidth = 300
  Steps = 65536
  VideoCap = 1
  MaxWire = 1
  BatchMax = 2
  MaxChanges = 3
  MaxClicks = 2
  Columns <- MCColumns
PROPERTIES
  ClicksLand
CHECK_DEADLOCK FALSE
