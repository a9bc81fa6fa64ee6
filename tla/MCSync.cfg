\* All threads may have been turned away by a failed callback: the barrier
\* may stop.
SPECIFICATION SyncSpec
CONSTANTS
  Threads = {t1, t2, t3, t4}
  NoThread = NoThread
  SerialMod = 2
  Consumers = {c1, c2}
  Size = 4
  CounterMod = 8
  Starts = {0, 6}
  MaxItems = 7
  Nothing = Nothing
INVARIANTS VerdictShared
PROPERTY ImplementsAbstract ImplementsQueue Drains
CHECK_DEADLOCK FALSE
