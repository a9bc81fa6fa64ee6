SPECIFICATION FairSpec
CONSTANTS
  Threads = {0, 1}
  Configs <- SharedConfigs
  CounterMod = 4
  MaxFaults = 1
INVARIANT BlockNotShared
CHECK_DEADLOCK FALSE
