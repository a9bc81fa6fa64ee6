SPECIFICATION SharedSpec
CONSTANTS
  Readers = {r1, r2}
  NoReader = NoReader
  NSlots = 2
  Size = 2
  Percentile = 75
  Ops = {"intermediate", "cumulative", "checkpoint", "print"}
  MaxUpdates = 2
  NThreads = 2
  Types = 2
  MaxCount = 1
  MaxReports = 2
  Loggers = {l1, l2}
  Texts = {"a", "b", "d"}
  Stamps = {"t"}
  Hidden = {"d"}
  MaxCalls = 5
  Callers = {t1, t2}
  Word = 16
  Prime = 11
  Mask <- Mask4
  SeedIndex = 9
  SeedOffset = 5
INVARIANTS NothingLost FinalReportComplete NothingSwallowed UniqueIds
PROPERTY CallsReturn
CHECK_DEADLOCK FALSE
