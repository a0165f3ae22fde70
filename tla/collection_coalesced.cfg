CONSTANTS
  Dev = {1}
  MaxTries = 1
  MaxScreens = 6
  TtySets <- Two
  Extra = {0}
  ScreenNums = {1}
  MaxKills = 0
  Conn <- Connections
  Delivery = "packets"
  ScrMod = 8
  WildByte = {}
  Dumb = {}
  Capacity = 8
  GarbageHeader = FALSE
  Period = 4
  kSecret <- Key
  c_auth <- Agreed
  RandomNums = {6}
SPECIFICATION FairSpec
PROPERTY AllEnd
CHECK_DEADLOCK FALSE
