CONSTANTS
  Script <- Talk
  StructSize <- Sizes
  ScreenSize = 7
  Capacity = 28
  MayClose = TRUE
SPECIFICATION Spec
INVARIANTS TypeOK StreamIntact SizeReadIsSent CrashOnlyTorn EndIsFaithful
PROPERTY ImplementsStream
CHECK_DEADLOCK FALSE
