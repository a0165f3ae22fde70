CONSTANTS
  Dev = {1, 2}
  MaxTries = 1
  MaxScreens = 6
  TtySets <- OneOrTwo
  Extra = {0, 1}
  ScreenNums = {2}
  MaxKills = 0
  Conn <- Connections
  Delivery = "segments"
  ScrMod = 8
  WildByte = {}
  Dumb = {}
  Capacity = 8
  GarbageHeader = FALSE
  Period = 4
  kSecret <- Key
  c_auth <- Agreed
  RandomNums = {6}
SPECIFICATION Spec
INVARIANTS TypeOK TtysAgree ScreensAgree ScreensWhole
CHECK_DEADLOCK FALSE
