SPECIFICATION TimersSpec
CONSTANTS
  NThreads = 2
  Rate = FALSE
  Forced = TRUE
  UINT64_MAX = 1000
  MaxClock = 2
  EventBound = 1
  MaxCheckpoints = 1
PROPERTY ShutdownForced
CHECK_DEADLOCK FALSE
