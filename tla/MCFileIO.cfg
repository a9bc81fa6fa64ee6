SPECIFICATION FairSpec
CONSTANTS
  Threads = {0, 1}
  Configs <- MCConfigs
  CounterMod = 4
  MaxFaults = 1
INVARIANTS EndSynced CountedOnce FsyncOften ValidationSound RequestsInRange
PROPERTY RunFinishes
CHECK_DEADLOCK FALSE
