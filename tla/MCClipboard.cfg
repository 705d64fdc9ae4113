SPECIFICATION ClipFairSpec
CONSTANTS
  Texts = {a, b}
  Empty = Empty
  None = None
  MaxCopies = 3
PROPERTIES
  EchoOnlyWhenOvertaken
  NoEchoToServer
  Settles
  FreshTextArrives
