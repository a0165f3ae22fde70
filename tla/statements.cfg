CONSTANTS
  Dev <- Devices
  Tty <- Terminals
  MaxScreens = 2
  ScrMod = 3
  Keyed <- BaseAndTtys
  MaxConnections = 3
  MaxHandlers = 3
  MaxBreaks = 2
SPECIFICATION Spec
INVARIANTS TypeOK RepeatsBounded StuckAfterLoss OneConnection
PROPERTIES ImplementsAtomic Finishes
CHECK_DEADLOCK FALSE
