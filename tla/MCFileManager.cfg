SPECIFICATION FairSpec
CONSTANTS
  Dirs = {d1}
  Root = Root
  Home = d1
  Boxes = {b1, b2}
  None = None
  MaxOpens = 1
  MaxBatch = 2
  MaxDepth = 4
  MaxLists = 2
  MaxActs = 2
  MaxFaults = 1
INVARIANTS
  PendingCounts
PROPERTIES
  AsAsked
  AnswersBelong
  ButtonsComeBack
  Reopens
CHECK_DEADLOCK FALSE
