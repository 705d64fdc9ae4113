SPECIFICATION FairSpec
CONSTANTS
  m = m
  d = d
  f = f
  e = e
  l = l
  Table <- MCTable
  Btns <- MCBtns
  Ctrls = {m}
  Shifts = {m}
  Alts = {}
  Delete = d
  Insert = NoKey
  F9 = f
  Escape = e
  Left = l
  BatchMax = 2
  MaxWire = 1
  MaxQueue = 3
  MaxActs = 4
INVARIANTS
  ViewerKnows
PROPERTIES
  SasOncePerPress
  LettingGoArrives
CHECK_DEADLOCK FALSE
