SPECIFICATION CompareSpec
CONSTANTS
  Threads = {w1, w2}
  N = 3
  MaxWrites = 1
  MaxFaults = 1
SYMMETRY WorkerSymmetry
INVARIANTS ServersAgree
PROPERTY  NoFalseAlarm
CHECK_DEADLOCK FALSE
