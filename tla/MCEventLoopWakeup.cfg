SPECIFICATION Spec
CONSTANTS
  Workers = {w1, w2}
  RingSize = 4
  MaxEvents = 0
  TimeLimit = TRUE
  Rates = {1}
  TestOutcomes = {}
  MaxGenerated = 3
PROPERTY TimeLimitStops
CHECK_DEADLOCK FALSE
