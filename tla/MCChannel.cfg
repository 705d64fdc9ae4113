SPECIFICATION FairSpec
CONSTANTS
  Threads = {ui, files}
  Pinger = ui
  Sources = {clipboard}
  Texts = {clipboard}
  PRIO = 1
  VIDEO = 1
  Net = 1
  Messages = 2
  Captures = 1
  None = None
INVARIANTS
  NeverGarbled
PROPERTIES
  DeliverySpec
  SendersReturn
  EverythingArrives
CHECK_DEADLOCK FALSE
