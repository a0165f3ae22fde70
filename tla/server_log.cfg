CONSTANTS
  LogSize <- Sizes
  kSub = 2
  Word = 64
  LogEnv <- Enabled
  MaxRecord = 3
  MaxWritten = 14
SPECIFICATION Spec
INVARIANTS SizeBounded NewestKept
CHECK_DEADLOCK FALSE
