CONSTANTS
  c1 = c1
  c2 = c2
  Conn <- Pair
  Delivery = "segments"
  ScrMod = 4
  WildByte = {0, 3}
  Dumb = {1}
  Capacity = 6
  GarbageHeader = TRUE
  Profiles <- FaultProfiles
  MayDie = TRUE
  Period = 4
  kSecret <- Key
  c_auth <- Agreed
  RandomNums = {6}
SPECIFICATION PairFairSpec
INVARIANTS NoneOwed
PROPERTIES GoneIsReaped 
CHECK_DEADLOCK FALSE
