CONSTANTS
  Dev = {1}
  MaxTries = 3
  MaxScreens = 6
  TtySets <- OneOrTwo
  Extra = {0, 1}
  ScreenNums = {1, 2}
  MaxKills = 2
  Conn <- Connections
  Delivery = "paced"
  ScrMod = 8
  WildByte = {}
  Dumb = {}
  Capacity = 8
  GarbageHeader = FALSE
  Period = 4
  kSecret <- Key
  c_auth <- Agreed
  RandomNums = {6}
SPECIFICATION FairSpec
INVARIANTS TtysAgree NoneInvented
PROPERTY EveryoneEnds
CHECK_DEADLOCK FALSE
