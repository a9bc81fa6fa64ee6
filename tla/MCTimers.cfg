\* The process ends, or every event has been measured.
SPECIFICATION TimersSpec
CONSTANTS
  NThreads = 2
  Rate = TRUE
  Forced = TRUE
  UINT64_MAX = 1000
  MaxClock = 2
  EventBound = 2
  MaxCheckpoints = 1
INVARIANTS EventsConserved ReportRight
CHECK_DEADLOCK FALSE
