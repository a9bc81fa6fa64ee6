\* The process stops when run_test() has returned.
SPECIFICATION Spec
CONSTANTS
  Workers = {w1, w2}
  Options <- TwoRuns
  MaxEvents = 2
  EventBound = 3
INVARIANTS SuccessIsReal SilencedBeforeFinal MeasuredBound
PROPERTY RunEnds ReportsAddUp
CHECK_DEADLOCK FALSE
