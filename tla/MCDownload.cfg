SPECIFICATION FairSpec
CONSTANTS
  Size = 7
  Chunk = 2
  Window = 3
INVARIANTS
  NoStall
PROPERTIES
  CopySpec
  Finishes
CHECK_DEADLOCK FALSE
