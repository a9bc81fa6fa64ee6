SPECIFICATION DatabaseSpec
CONSTANTS
  Stmts = {s1, s2}
  NoStmt = NoStmt
  Results = {r1, r2, r3}
  NoResult = NoResult
  MaxRows = 2
  MaxFields = 2
  BufLen = 9
  QueryLens = {2, 7, 9}
  RowLens = {2, 3}
  CommitMaxes = {0, 3}
  MaxGiven = 7
  MaxBulks = 2
  NWork = 2
  Reconnects = {0, 1, 2}
  MaxEvents = 3
  MaxErrors = 3
INVARIANTS ResultsTracked FetchSafe RowsInOrder  DoneCommitsAll HandlesCurrent EventsCommitted
PROPERTY ResultReleased
CHECK_DEADLOCK FALSE
