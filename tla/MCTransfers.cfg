SPECIFICATION FairSpec
CONSTANTS
  MaxConn = 2
  MaxId = 2
  MaxBegun = 2
  Chunks = 2
  DownChunks = 1
  Paths = {p1}
  AllowFile = TRUE
  None = None
INVARIANTS
  EntriesLive
  CutOffOnlyByReuse
  DoneStored
PROPERTIES
  LeftoversEnd
CHECK_DEADLOCK FALSE
