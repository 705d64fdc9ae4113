SPECIFICATION PanelFairSpec
CONSTANTS
  Sessions = {s1, s2}
  NoSession = NoSession
  Procs = {p1, p2, p3}
  Configs = {c1, c2}
  Generated = Generated
  None = None
  MaxEvents = 3
  MaxStops = 1
INVARIANTS
  NoOrphan
PROPERTIES
  KillsOnlyTemps
  Recovers
  StopEndsWorkers
  SavedConfigTakesEffect
CHECK_DEADLOCK FALSE
