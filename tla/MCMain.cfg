SPECIFICATION Spec
CONSTANTS
  Workers = {w1, w2}
  Scenarios <- MCScenarios
INVARIANTS UserWins   DriverUp
CHECK_DEADLOCK FALSE
