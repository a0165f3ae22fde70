CONSTANTS
  c1 = c1
  c2 = c2
  Conn <- Pair
  Delivery = "packets"
  ScrMod = 4
  WildByte = {}
  Dumb = {}
  Capacity = 6
  GarbageHeader = FALSE
  Profiles <- PairProfiles
  MayDie = FALSE
  Period = 4
  kSecret <- Key
  c_auth <- Agreed
  RandomNums = {0, 6}
SPECIFICATION PairSpec
INVARIANTS TypeOK ScreensWhole NoneLost EndIsComplete ScreensDistinct OnlyAuthenticated
PROPERTY KeptWhileConforming
CHECK_DEADLOCK FALSE
