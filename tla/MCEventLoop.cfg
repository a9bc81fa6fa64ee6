\* The system stops when all workers have ended.
SPECIFICATION Spec
CONSTANTS
  Workers = {w1, w2}
  RingSize = 4
  MaxEvents = 3
  TimeLimit = TRUE
  Rates = {0, 1}
  TestOutcomes = {"fail", "null"}
  MaxGenerated = 6
INVARIANTS EventLimit StampsIntact
PROPERTY ComesToRest
CHECK_DEADLOCK FALSE
