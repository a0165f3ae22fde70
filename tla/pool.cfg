CONSTANTS
  kNumProcess = 3
  n_devid = 5
  ForkMayFail = TRUE
SPECIFICATION FairSpec
INVARIANTS TypeOK PoolBounded AllReaped
PROPERTIES Returns OthersServed
CHECK_DEADLOCK FALSE
