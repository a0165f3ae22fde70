CONSTANTS
  c1 = c1
  c2 = c2
  Conn <- Pair
  Delivery = "paced"
  ScrMod = 4
  WildByte = {}
  Dumb = {}
  Capacity = 6
  GarbageHeader = FALSE
  Profiles <- PacedProfiles
  MayDie = FALSE
  Period = 4
  kSecret <- Key
  c_auth <- Agreed
  RandomNums = {6}
SPECIFICATION PairFairSpec
PROPERTY Completes
CHECK_DEADLOCK FALSE
