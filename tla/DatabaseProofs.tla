--------------------------- MODULE DatabaseProofs ---------------------------
(***************************************************************************)
(* What stands between a test and the database: the connection (DbConn), the*)
(* bulk insert (BulkInsert), the events of the OLTP scripts (SqlEvent), and*)
(* the random values they are made of (Rand).  The four share no state.    *)
(***************************************************************************)
EXTENDS DbConn, BulkInsert, SqlEvent, Rand, TLAPS

----------------------------------------------------------------------------
(***************************************************************************)
(* ResultsTracked and FetchSafe of DbConn for any statements, results and  *)
(* bounds.  Neither is inductive: that a release leaves nothing behind     *)
(* depends on which statement may hold a stored result, and on the array   *)
(* of values and the row number being clear outside DB_CONN_RESULT_SET.    *)
(***************************************************************************)

(* A pointer in rs designates a live result and is set only in             *)
(* DB_CONN_RESULT_SET; only the MySQL statement that rs names stores a     *)
(* result; the values and the row number belong to the current result set. *)
IInv ==
  /\ TypeOK
  /\ rs.ptr # NoResult => state = "result" /\ rs.ptr \in live
  /\ \A s \in stored : /\ s = rs.statement /\ stmt[s] = "ps"
                       /\ state = "result" /\ driver = "mysql"
  /\ state = "result" => rs.ptr # NoResult \/ rs.statement \in stored
  /\ rs.values # 0 => state = "result" /\ rs.values = rs.nfields
  /\ driver = "pgsql" => rs.row = IF state = "result" THEN fetched ELSE 0

Data == [rs : RsType, live : SUBSET Results, stored : SUBSET Stmts, fetched : Nat]

(* What a call passes on once the old result set is released.              *)
Clean(d) ==
  /\ d \in Data
  /\ d.rs.ptr = NoResult /\ d.rs.values = 0 /\ d.stored = {}
  /\ d.live \subseteq live
  /\ driver = "pgsql" => d.rs.row = 0

(* Every value of Released is clean, for a call in any state.              *)
LEMMA ReleasedClean ==
  ASSUME IInv, NEW d \in Released
  PROVE  Clean(d)
<1> USE DbConnAssumption
<1>1. CASE state # "result"
  <2>1. d = Now
    BY <1>1 DEF Released
  <2>2. rs.ptr = NoResult /\ rs.values = 0 /\ stored = {}
    BY <1>1 DEF IInv
  <2>3. driver = "pgsql" => rs.row = 0
    BY <1>1 DEF IInv
  <2>. QED
    BY <2>1, <2>2, <2>3 DEF Now, Clean, Data, IInv, TypeOK
<1>2. CASE state = "result" /\ driver = "mysql"
  <2>1. d \in mysql_drv_free_results
    BY <1>2 DEF Released, db_free_results_int
  <2>2. PICK s \in OfStatement :
          d = [rs |-> ClearedRs, fetched |-> fetched,
               live |-> IF s THEN live ELSE live \ {rs.ptr},
               stored |-> IF s THEN stored \ {rs.statement} ELSE stored]
    BY <2>1 DEF mysql_drv_free_results
  <2>3. (IF s THEN stored \ {rs.statement} ELSE stored) = {}
    <3>1. CASE stored = {}
      BY <3>1
    <3>2. CASE stored # {}
      <4>1. rs.statement \in stored /\ stmt[rs.statement] = "ps"
            /\ stored = {rs.statement} /\ rs.statement # NoStmt
        BY <3>2 DEF IInv, TypeOK
      <4>2. OfStatement = {TRUE}
        BY <4>1 DEF OfStatement
      <4>. QED
        BY <4>1, <4>2
    <3>. QED
      BY <3>1, <3>2
  <2>4. ClearedRs \in RsType /\ ClearedRs.ptr = NoResult /\ ClearedRs.values = 0
    BY Zenon DEF ClearedRs, IInv, TypeOK, RsType
  <2>5. (IF s THEN live ELSE live \ {rs.ptr}) \subseteq live
    OBVIOUS
  <2>6. driver # "pgsql"
    BY <1>2
  <2>. QED
    BY <2>2, <2>3, <2>4, <2>5, <2>6 DEF Clean, Data, IInv, TypeOK
<1>3. CASE state = "result" /\ driver = "pgsql"
  <2>1. rs.ptr # NoResult /\ stored = {}
    BY <1>3 DEF IInv, TypeOK
  <2>2. d = [rs |-> [ClearedRs EXCEPT !.row = 0], fetched |-> fetched,
             live |-> live \ {rs.ptr}, stored |-> stored]
    BY <1>3, <2>1 DEF Released, db_free_results_int, pgsql_drv_free_results
  <2>3. [ClearedRs EXCEPT !.row = 0] \in RsType
        /\ [ClearedRs EXCEPT !.row = 0].ptr = NoResult
        /\ [ClearedRs EXCEPT !.row = 0].values = 0
        /\ [ClearedRs EXCEPT !.row = 0].row = 0
    BY Zenon DEF ClearedRs, IInv, TypeOK, RsType
  <2>. QED
    BY Zenon, <2>1, <2>2, <2>3 DEF Clean, Data, IInv, TypeOK
<1>. QED
  BY <1>1, <1>2, <1>3 DEF IInv, TypeOK

(* Naming the statement of a clean result set keeps it clean.              *)
LEMMA WithStatementClean ==
  ASSUME NEW d, Clean(d), NEW s \in Stmts
  PROVE  Clean(WithStatement(d, s)) /\ WithStatement(d, s).rs.statement = s
BY DEF Clean, WithStatement, Data, RsType

(* A call that leaves no result set open keeps the invariant.              *)
LEMMA KeepClean ==
  ASSUME IInv, TypeOK', NEW d, Clean(d), Keep(d), state' # "result", driver' = driver
  PROVE  IInv'
BY DEF Clean, Data, RsType, Keep, IInv

(* A fresh result object.                                                  *)
LEMMA NewResultFresh ==
  ASSUME live \in SUBSET Results, live # Results
  PROVE  NewResult \in Results /\ NewResult \notin live
<1>1. \E r \in Results : r \notin live
  OBVIOUS
<1>. QED
  BY <1>1 DEF NewResult
(* An answer other than a result set leaves clean data clean, except that  *)
(* the PostgreSQL driver keeps the object of a status it does not know.    *)
LEMMA MySQLClean ==
  ASSUME NEW d, Clean(d), NEW a, a # "select", NEW s, NEW nrows, NEW fields
  PROVE  Clean(MySQL(d, a, s, nrows, fields))
<1>1. CASE a = "dml"
  BY Zenon, <1>1 DEF Clean, MySQL, Data, RsType
<1>2. CASE a = "other"
  <2>1. MySQL(d, a, s, nrows, fields) =
          [d EXCEPT !.rs.counter = "other", !.rs.nrows = IF s = NoStmt THEN @ ELSE 0]
    BY <1>2 DEF MySQL
  <2> DEFINE n == IF s = NoStmt THEN d.rs.nrows ELSE 0
  <2>2. n \in Nat
    BY DEF Clean, Data, RsType
  <2>3. [d EXCEPT !.rs.counter = "other", !.rs.nrows = IF s = NoStmt THEN @ ELSE 0]
          = [d EXCEPT !.rs.counter = "other", !.rs.nrows = n]
    BY DEF Clean, Data, RsType
  <2> HIDE DEF n
  <2>4. Clean([d EXCEPT !.rs.counter = "other", !.rs.nrows = n])
    BY Zenon, <2>2 DEF Clean, Data, RsType
  <2>. QED
    BY <2>1, <2>3, <2>4
<1>3. CASE a = "lost"
  BY <1>3 DEF Clean, MySQL, Data, RsType
<1>4. CASE a \notin {"dml", "other", "lost"}
  <2>1. MySQL(d, a, s, nrows, fields) = [d EXCEPT !.rs.counter = "error"]
    BY <1>4 DEF MySQL
  <2>. QED
    BY <2>1 DEF Clean, Data, RsType
<1>. QED
  BY <1>1, <1>2, <1>3, <1>4

LEMMA PgSQLClean ==
  ASSUME NEW d, Clean(d), NEW a, a \notin {"select", "odd"}, NEW nrows, NEW fields
  PROVE  Clean(PgSQL(d, a, nrows, fields))
<1>1. CASE a = "dml"
  BY Zenon, <1>1 DEF Clean, PgSQL, Data, RsType
<1>2. CASE a = "other"
  BY Zenon, <1>2 DEF Clean, PgSQL, Data, RsType
<1>3. CASE a \notin {"dml", "other"}
  <2>1. PgSQL(d, a, nrows, fields) =
          [d EXCEPT !.rs.counter = "error", !.rs.nrows = 0, !.rs.ptr = NoResult]
    BY <1>3 DEF PgSQL
  <2>2. Clean([d EXCEPT !.rs.counter = "error", !.rs.nrows = 0, !.rs.ptr = NoResult])
    BY Zenon DEF Clean, Data, RsType
  <2>. QED
    BY <2>1, <2>2
<1>. QED
  BY <1>1, <1>2, <1>3

(* A call the server answers keeps the invariant, whatever the answer.     *)
LEMMA AnsweredKeeps ==
  ASSUME IInv, NEW d, Clean(d), NEW s \in Stmts \union {NoStmt},
         s # NoStmt => s \in Stmts /\ stmt[s] = "ps" /\ d.rs.statement = s,
         Answered(d, s), stmt' = stmt, driver' = driver, use_ps' = use_ps
  PROVE  IInv'
<1> USE DbConnAssumption
<1>1. PICK a \in Answers, nrows \in 0 .. MaxRows, fields \in 1 .. MaxFields :
        /\ a \in {"select", "odd"} => live # Results
        /\ Keep(IF driver = "mysql" THEN MySQL(d, a, s, nrows, fields)
                                    ELSE PgSQL(d, a, nrows, fields))
        /\ state' = IF a = "select" THEN "result" ELSE "ready"
        /\ Verdict(a)
  BY DEF Answered
<1>2. /\ driver' \in {"mysql", "pgsql"} /\ use_ps' \in {0, 1}
      /\ state' \in {"freed", "ready", "result", "invalid"}
      /\ stmt' \in [Stmts -> {"none", "ps", "emulated"}]
  BY <1>1 DEF IInv, TypeOK
<1>3. /\ error' \in {"none", "ignorable", "fatal"}
      /\ link' \in {"up", "closed"} /\ failing' \in {0, 1}
  BY <1>1 DEF Verdict, Reconnected, IInv, TypeOK
<1>4. nrows \in Nat /\ fields \in Nat
  BY <1>1
<1>5. a = "select" \/ a = "odd" => NewResult \in Results /\ NewResult \notin live
  BY <1>1, NewResultFresh DEF IInv, TypeOK
<1>6. CASE driver = "mysql" /\ a # "select"
  <2> DEFINE e == MySQL(d, a, s, nrows, fields)
  <2>1. Clean(e) /\ Keep(e) /\ state' # "result"
    BY <1>1, <1>6, MySQLClean
  <2> HIDE DEF e
  <2>2. TypeOK'
    BY <1>2, <1>3, <2>1 DEF TypeOK, Clean, Data, Keep
  <2>. QED
    BY <2>1, <2>2, KeepClean
<1>7. CASE driver = "mysql" /\ a = "select" /\ s # NoStmt
  <2> DEFINE e == [d EXCEPT !.rs.counter = "read", !.rs.nrows = nrows,
                            !.rs.nfields = fields,
                            !.stored = @ \union {s}, !.fetched = 0]
  <2>1. Keep(e) /\ state' = "result"
    BY <1>1, <1>7 DEF MySQL
  <2>2. /\ e.rs \in RsType /\ e.live = d.live /\ e.stored = {s} /\ e.fetched = 0
        /\ e.rs.ptr = NoResult /\ e.rs.values = 0 /\ e.rs.statement = s
    BY Zenon, <1>4, <1>7 DEF Clean, Data, RsType
  <2> HIDE DEF e
  <2>3. d.live \subseteq Results
    BY DEF Clean, Data
  <2>4. TypeOK'
    BY <1>2, <1>3, <1>7, <2>1, <2>2, <2>3 DEF TypeOK, Keep
  <2>. QED
    BY <1>7, <2>1, <2>2, <2>4 DEF IInv, Keep
<1>8. CASE driver = "mysql" /\ a = "select" /\ s = NoStmt
  <2> DEFINE e == [d EXCEPT !.rs.counter = "read", !.rs.nrows = nrows,
                            !.rs.nfields = fields, !.rs.ptr = NewResult,
                            !.live = @ \union {NewResult}, !.fetched = 0]
  <2>1. Keep(e) /\ state' = "result"
    BY <1>1, <1>8 DEF MySQL
  <2>2. /\ e.rs \in RsType /\ e.live = d.live \union {NewResult} /\ e.stored = {}
        /\ e.fetched = 0 /\ e.rs.ptr = NewResult /\ e.rs.values = 0
    BY Zenon, <1>4, <1>5, <1>8 DEF Clean, Data, RsType
  <2> HIDE DEF e
  <2>3. d.live \subseteq Results /\ NewResult # NoResult
    BY <1>5, <1>8 DEF Clean, Data
  <2>4. TypeOK'
    BY <1>2, <1>3, <1>5, <1>8, <2>1, <2>2, <2>3 DEF TypeOK, Keep
  <2>. QED
    BY <1>8, <2>1, <2>2, <2>3, <2>4 DEF IInv, Keep
<1>9. CASE driver = "pgsql" /\ a \notin {"select", "odd"}
  <2> DEFINE e == PgSQL(d, a, nrows, fields)
  <2>1. Clean(e) /\ Keep(e) /\ state' # "result"
    BY <1>1, <1>9, PgSQLClean
  <2> HIDE DEF e
  <2>2. TypeOK'
    BY <1>2, <1>3, <2>1 DEF TypeOK, Clean, Data, Keep
  <2>. QED
    BY <2>1, <2>2, KeepClean
<1>10. CASE driver = "pgsql" /\ a = "select"
  <2> DEFINE e == [d EXCEPT !.rs.counter = "read", !.rs.nrows = nrows,
                            !.rs.nfields = fields, !.rs.ptr = NewResult,
                            !.live = @ \union {NewResult}, !.fetched = 0]
  <2>1. Keep(e) /\ state' = "result"
    BY <1>1, <1>10 DEF PgSQL
  <2>2. /\ e.rs \in RsType /\ e.live = d.live \union {NewResult} /\ e.stored = {}
        /\ e.fetched = 0 /\ e.rs.ptr = NewResult /\ e.rs.values = 0 /\ e.rs.row = 0
    BY Zenon, <1>4, <1>5, <1>10 DEF Clean, Data, RsType
  <2> HIDE DEF e
  <2>3. d.live \subseteq Results /\ NewResult # NoResult
    BY <1>5, <1>10 DEF Clean, Data
  <2>4. TypeOK'
    BY <1>2, <1>3, <1>5, <1>10, <2>1, <2>2, <2>3 DEF TypeOK, Keep
  <2>. QED
    BY <1>10, <2>1, <2>2, <2>3, <2>4 DEF IInv, Keep
<1>11. CASE driver = "pgsql" /\ a = "odd"
  <2> DEFINE e == [d EXCEPT !.rs.counter = "error", !.rs.nrows = 0,
                            !.rs.ptr = NoResult, !.live = @ \union {NewResult}]
  <2>1. Keep(e) /\ state' = "ready"
    BY <1>1, <1>11 DEF PgSQL
  <2>2. /\ e.rs \in RsType /\ e.live = d.live \union {NewResult} /\ e.stored = {}
        /\ e.fetched \in Nat /\ e.rs.ptr = NoResult /\ e.rs.values = 0 /\ e.rs.row = 0
    BY Zenon, <1>11 DEF Clean, Data, RsType
  <2> HIDE DEF e
  <2>3. d.live \subseteq Results
    BY DEF Clean, Data
  <2>4. TypeOK'
    BY <1>2, <1>3, <1>5, <1>11, <2>1, <2>2, <2>3 DEF TypeOK, Keep
  <2>. QED
    BY <1>11, <2>1, <2>2, <2>4 DEF IInv, Keep
<1>. QED
  BY <1>1, <1>6, <1>7, <1>8, <1>9, <1>10, <1>11 DEF IInv, TypeOK, Answers

(* The initial state, without a connection, satisfies the invariant.       *)
LEMMA DbConnStarts == Init => IInv
<1> USE DbConnAssumption
<1>1. NoRs \in RsType /\ NoRs.ptr = NoResult /\ NoRs.values = 0 /\ NoRs.row = 0
  BY DEF NoRs, RsType
<1>. QED
  BY <1>1 DEF Init, IInv, TypeOK

(* Every API call keeps the invariant.                                     *)
LEMMA NextInv == IInv /\ [Next]_vars => IInv'
<1> USE DbConnAssumption
<1> SUFFICES ASSUME IInv, [Next]_vars PROVE IInv'
  OBVIOUS
<1>a. TypeOK
  BY DEF IInv
<1>0. CASE UNCHANGED vars
  BY <1>0 DEF vars, IInv, TypeOK
<1>1. ASSUME Next PROVE driver' = driver /\ use_ps' = use_ps
  BY <1>1 DEF Next, options
<1>2. CASE Next /\ db_connection_create
  <2>1. NoRs \in RsType /\ NoRs.ptr = NoResult /\ NoRs.values = 0 /\ NoRs.row = 0
    BY DEF NoRs, RsType
  <2>. QED
    BY <1>1, <1>2, <1>a, <2>1 DEF db_connection_create, IInv, TypeOK
<1>3. ASSUME Next, NEW d \in Released, Keep(d), state' \in {"freed", "ready", "invalid"},
             stmt' = stmt, error' = error, link' \in {"up", "closed"}, failing' \in {0, 1}
      PROVE  IInv'
  <2>1. Clean(d)
    BY <1>3, ReleasedClean
  <2>2. TypeOK'
    BY <1>1, <1>3, <1>a, <2>1 DEF TypeOK, Clean, Data, Keep
  <2>. QED
    BY <1>1, <1>3, <2>1, <2>2, KeepClean
<1>4. CASE Next /\ db_connection_close
  BY <1>3, <1>4, <1>a DEF db_connection_close, TypeOK
<1>5. CASE Next /\ db_connection_free
  BY <1>3, <1>5, <1>a DEF db_connection_free, TypeOK
<1>6. CASE Next /\ db_connection_reconnect
  BY <1>3, <1>6, <1>a DEF db_connection_reconnect, Reconnected, TypeOK
<1>7. ASSUME Next, NEW s \in Stmts, db_prepare(s) PROVE IInv'
  <2>1. stmt' \in [Stmts -> {"none", "ps", "emulated"}] /\ error' \in {"none", "ignorable", "fatal"}
    BY <1>7, <1>a DEF db_prepare, TypeOK
  <2>2. TypeOK'
    BY <1>1, <1>7, <1>a, <2>1 DEF db_prepare, TypeOK
  <2>3. \A t \in stored : stmt'[t] = stmt[t]
    BY <1>7, <1>a DEF db_prepare, TypeOK, IInv
  <2>. QED
    BY <1>1, <1>7, <2>2, <2>3 DEF db_prepare, IInv
<1>8. ASSUME Next, NEW d, Clean(d), NoMoreResults(d), stmt' = stmt PROVE IInv'
  <2> DEFINE e == IF driver = "mysql" THEN [d EXCEPT !.rs.counter = "other"] ELSE d
  <2>1. Clean(e)
    BY <1>8 DEF Clean, Data, RsType
  <2>2. Keep(e) /\ state' = "ready" /\ error' = "none" /\ link' = link /\ failing' = failing
    BY <1>8 DEF NoMoreResults
  <2> HIDE DEF e
  <2>3. TypeOK'
    BY <1>1, <1>8, <1>a, <2>1, <2>2 DEF TypeOK, Clean, Data, Keep
  <2>. QED
    BY <1>1, <1>8, <2>1, <2>2, <2>3, KeepClean
<1>9. ASSUME Next, NEW s \in Stmts, db_execute(s) PROVE IInv'
  <2>1. PICK d \in Released : Answered(WithStatement(d, s), Native(s))
    BY <1>9 DEF db_execute
  <2>2. Clean(WithStatement(d, s)) /\ WithStatement(d, s).rs.statement = s
    BY ReleasedClean, WithStatementClean
  <2>3. Native(s) \in {s, NoStmt} /\ (Native(s) # NoStmt => stmt[s] = "ps" /\ Native(s) = s)
    BY DEF Native
  <2>4. stmt' = stmt
    BY <1>9 DEF db_execute
  <2>. QED
    BY <1>1, <1>9, <2>1, <2>2, <2>3, <2>4, AnsweredKeeps
<1>10. CASE Next /\ db_query
  <2>1. PICK d \in Released : Answered(d, NoStmt)
    BY <1>10 DEF db_query
  <2>. QED
    BY <1>1, <1>10, <2>1, ReleasedClean, AnsweredKeeps DEF db_query
<1>11. CASE Next /\ db_next_result
  <2>1. PICK d \in Released : NoMoreResults(d) \/ Answered(d, NoStmt)
    BY <1>11 DEF db_next_result
  <2>2. Clean(d) /\ stmt' = stmt
    BY <1>11, ReleasedClean DEF db_next_result
  <2>. QED
    BY <1>1, <1>8, <1>11, <2>1, <2>2, AnsweredKeeps
<1>12. ASSUME Next, NEW s \in Stmts, db_stmt_next_result(s) PROVE IInv'
  <2>1. PICK d \in Released : \/ NoMoreResults(WithStatement(d, s))
                              \/ Answered(WithStatement(d, s), Native(s))
    BY <1>12 DEF db_stmt_next_result
  <2>2. Clean(WithStatement(d, s)) /\ WithStatement(d, s).rs.statement = s
    BY ReleasedClean, WithStatementClean
  <2>3. Native(s) \in {s, NoStmt} /\ (Native(s) # NoStmt => stmt[s] = "ps" /\ Native(s) = s)
    BY DEF Native
  <2>4. stmt' = stmt
    BY <1>12 DEF db_stmt_next_result
  <2>5. CASE NoMoreResults(WithStatement(d, s))
    BY <1>8, <1>12, <2>2, <2>4, <2>5
  <2>6. CASE Answered(WithStatement(d, s), Native(s))
    BY <1>1, <1>12, <2>2, <2>3, <2>4, <2>6, AnsweredKeeps
  <2>. QED
    BY <2>1, <2>5, <2>6
<1>13. ASSUME Next, NEW s \in Stmts, db_close(s) PROVE IInv'
  <2>1. PICK d \in Released : Keep([d EXCEPT !.stored = @ \ {s}])
    BY Zenon, <1>13 DEF db_close
  <2> DEFINE e == [d EXCEPT !.stored = @ \ {s}]
  <2>2. Clean(d)
    BY ReleasedClean
  <2>3. Clean(e)
    BY <2>2 DEF Clean, Data
  <2> HIDE DEF e
  <2>4. TypeOK'
    BY <1>1, <1>13, <1>a, <2>1, <2>3 DEF db_close, TypeOK, Clean, Data, Keep, e
  <2>. QED
    BY <1>1, <1>13, <2>1, <2>3, <2>4, KeepClean DEF db_close, e
<1>14. CASE Next /\ db_fetch_row
  <2>1. /\ state = "result" /\ state' = state /\ stmt' = stmt /\ stored' = stored
        /\ live' = live /\ error' = error /\ link' = link /\ failing' = failing
    BY <1>14 DEF db_fetch_row
  <2>2. /\ rs' \in RsType /\ rs'.ptr = rs.ptr /\ rs'.statement = rs.statement
        /\ rs'.nfields = rs.nfields /\ rs'.values \in {rs.values, rs.nfields}
        /\ rs.values # 0 => rs'.values = rs.values
    <3> DEFINE v == IF rs.values = 0 THEN rs.nfields ELSE rs.values
               r == IF driver = "pgsql" /\ RowLeft THEN rs.row + 1 ELSE rs.row
    <3>1. rs' = [rs EXCEPT !.values = v, !.row = r]
      BY <1>14 DEF db_fetch_row
    <3>2. rs \in RsType
      BY <1>a DEF TypeOK
    <3>3. v \in Nat /\ v \in {rs.values, rs.nfields} /\ (rs.values # 0 => v = rs.values)
      BY <3>2 DEF RsType
    <3>4. r \in Nat
      BY <3>2 DEF RsType
    <3> HIDE DEF v, r
    <3>. QED
      BY Zenon, <3>1, <3>2, <3>3, <3>4 DEF RsType
  <2>3. fetched' \in Nat
    BY <1>14, <1>a DEF db_fetch_row, TypeOK
  <2>4. driver = "pgsql" => rs'.row = fetched'
    BY <1>14, <1>a, <2>1 DEF db_fetch_row, TypeOK, RsType, IInv
  <2>5. TypeOK'
    BY <1>1, <1>14, <1>a, <2>1, <2>2, <2>3 DEF TypeOK
  <2>. QED
    BY <1>1, <1>14, <2>1, <2>2, <2>4, <2>5 DEF IInv
<1>15. CASE Next /\ db_free_results
  BY <1>3, <1>15, <1>a DEF db_free_results, TypeOK
<1>16. CASE Next /\ (UseClosed \/ OtherThreadFails)
  BY <1>1, <1>16 DEF UseClosed, OtherThreadFails, IInv, TypeOK
<1>. QED
  BY <1>0, <1>2, <1>4, <1>5, <1>6, <1>7, <1>9, <1>10, <1>11, <1>12, <1>13, <1>14,
     <1>15, <1>16 DEF Next

(* The fields of connections, result sets and statements keep their types. *)
THEOREM TypeCorrect == Spec => []TypeOK
<1>1. IInv => TypeOK
  BY DEF IInv
<1>. QED
  BY <1>1, DbConnStarts, NextInv, PTL DEF Spec

(* For any number of statements and any answers of the server, the         *)
(* connection is in DB_CONN_RESULT_SET exactly while rs designates a       *)
(* result, and db_free_results_int() never fails.                          *)
THEOREM ResultTracking == Spec => []ResultsTracked
<1>1. IInv => ResultsTracked
  <2> SUFFICES ASSUME IInv PROVE ResultsTracked
    OBVIOUS
  <2> USE DbConnAssumption
  <2>1. rs.ptr # NoResult => rs.ptr \in live /\ state = "result"
    BY DEF IInv
  <2>2. rs.ptr \in live => rs.ptr # NoResult
    BY DEF IInv, TypeOK
  <2>3. rs.statement \in stored => state = "result" /\ driver = "mysql" /\ stmt[rs.statement] = "ps"
    BY DEF IInv
  <2>4. state = "result" => rs.ptr # NoResult \/ rs.statement \in stored
    BY DEF IInv
  <2>5. ~ReleaseFails
    BY <2>3, <2>4 DEF ReleaseFails, FreeFails
  <2>. QED
    BY <2>1, <2>2, <2>3, <2>4, <2>5 DEF ResultsTracked, Designated
<1>. QED
  BY <1>1, DbConnStarts, NextInv, PTL DEF Spec

(* Whatever was fetched before, db_fetch_row() has room for every field    *)
(* and the PostgreSQL driver starts each result set at its first row.      *)
THEOREM FetchSafety == Spec => []FetchSafe
<1>1. IInv => FetchSafe
  BY DEF IInv, TypeOK, RsType, FetchSafe
<1>. QED
  BY <1>1, DbConnStarts, NextInv, PTL DEF Spec

----------------------------------------------------------------------------
(***************************************************************************)
(* The bulk insert of db_driver.c, for every buffer size, row length,      *)
(* commit interval and number of rows.                                     *)
(***************************************************************************)

(* All rows are alike to the buffer: behind any INSERT text either each of *)
(* them fits alone, or none does.                                          *)
RowsAlike ==
  \A q \in QueryLens, r1, r2 \in RowLens : q + r1 + 1 <= BufLen => q + r2 + 1 <= BufLen

(* The rows in the buffer and their count, and the INSERT text.  An empty  *)
(* buffer has nothing to commit: this is why a bulk insert that ends with  *)
(* one may skip the COMMIT.                                                *)
BufferShape ==
  /\ bulk_cnt = Len(rows)
  /\ bulk = 0 => rows = <<>>
  /\ bulk = 1 => bulk_values \in QueryLens
  /\ bulk_cnt = 0 => uncommitted = <<>>

BulkInv == BulkTypeOK /\ BufferShape /\ RowsInOrder /\ CommitCountExact

LEMMA AddOne ==
  \A a, b, c, n \in Nat : a + b + c = n => a + b + (c + 1) = n + 1
OBVIOUS

LEMMA RowAppended ==
  ASSUME NEW b \in Seq(Nat), NEW n \in Nat
  PROVE  <<n + 1>> \in Seq(Nat) /\ Append(b, n + 1) = b \o <<n + 1>>
OBVIOUS

LEMMA CountUp ==
  ASSUME NEW n \in Nat
  PROVE  [i \in 1 .. n |-> i] \o <<n + 1>> = [i \in 1 .. n + 1 |-> i]
<1> DEFINE x == <<n + 1>>
           old == [i \in 1 .. n |-> i]
           new == [i \in 1 .. n + 1 |-> i]
<1>1. old \in Seq(Nat) /\ Len(old) = n /\ new \in Seq(Nat) /\ Len(new) = n + 1
  OBVIOUS
<1>2. old \o x \in Seq(Nat) /\ Len(old \o x) = n + 1
  OBVIOUS
<1>3. ASSUME NEW i \in 1 .. n + 1 PROVE (old \o x)[i] = new[i]
  OBVIOUS
<1> QED BY <1>1, <1>2, <1>3

(* bulk_insert_next(): the next row is appended to the buffer.             *)
LEMMA InOrderAppend ==
  ASSUME NEW c \in Seq(Nat), NEW u \in Seq(Nat), NEW b \in Seq(Nat), NEW n \in Nat,
         InOrder(c, u, b, n)
  PROVE  /\ Append(b, n + 1) \in Seq(Nat) /\ Len(Append(b, n + 1)) = Len(b) + 1
         /\ InOrder(c, u, Append(b, n + 1), n + 1)
<1> DEFINE x == <<n + 1>>
           old == [i \in 1 .. n |-> i]
           new == [i \in 1 .. n + 1 |-> i]
<1>1. x \in Seq(Nat) /\ Append(b, n + 1) = b \o x
  BY RowAppended
<1>2. u \o b \in Seq(Nat)
  OBVIOUS
<1>0. Len(c) + Len(u) + Len(b) = n /\ c \o (u \o b) = old
  BY DEF InOrder
<1>3. c \o (u \o (b \o x)) = (c \o (u \o b)) \o x
  <2>1. u \o (b \o x) = (u \o b) \o x
    BY <1>1
  <2>2. \A t \in Seq(Nat) : c \o (t \o x) = (c \o t) \o x
    BY <1>1
  <2>3. c \o ((u \o b) \o x) = (c \o (u \o b)) \o x
    BY <2>2, <1>2, Zenon
  <2> QED BY <2>1, <2>3
<1>4. old \o x = new
  BY CountUp
<1>5. Append(b, n + 1) \in Seq(Nat) /\ Len(Append(b, n + 1)) = Len(b) + 1
      /\ Len(c) \in Nat /\ Len(u) \in Nat /\ Len(b) \in Nat
  OBVIOUS
<1>6. c \o (u \o Append(b, n + 1)) = new
  BY Zenon, <1>0, <1>1, <1>3, <1>4
<1>7. Len(c) + Len(u) + Len(Append(b, n + 1)) = n + 1
  BY <1>0, <1>5, AddOne
<1> QED BY Zenon, <1>5, <1>6, <1>7 DEF InOrder

(* db_bulk_do_insert(): the rows of the buffer go to the server.           *)
LEMMA InOrderExecute ==
  ASSUME NEW c \in Seq(Nat), NEW u \in Seq(Nat), NEW b \in Seq(Nat), NEW n \in Nat,
         InOrder(c, u, b, n)
  PROVE  /\ u \o b \in Seq(Nat) /\ Len(u \o b) = Len(u) + Len(b)
         /\ InOrder(c, u \o b, <<>>, n)
<1>1. u \o b \in Seq(Nat) /\ Len(u \o b) = Len(u) + Len(b)
  OBVIOUS
<1>2. \A t \in Seq(Nat) : t \o <<>> = t
  OBVIOUS
<1>3. (u \o b) \o <<>> = u \o b
  BY <1>1, <1>2, Zenon
<1>4. Len(c) \in Nat /\ Len(u) \in Nat /\ Len(b) \in Nat /\ Len(<<>>) = 0
  OBVIOUS
<1>5. Len(c) + Len(u \o b) + Len(<<>>) = n
  <2>1. Len(c) + Len(u) + Len(b) = n
    BY DEF InOrder
  <2> QED BY <2>1, <1>1, <1>4
<1> QED BY <1>1, <1>3, <1>5 DEF InOrder

(* The COMMIT: everything the server has executed is committed.            *)
LEMMA InOrderCommit ==
  ASSUME NEW c \in Seq(Nat), NEW u \in Seq(Nat), NEW b \in Seq(Nat), NEW n \in Nat,
         InOrder(c, u, b, n)
  PROVE  c \o (u \o b) \in Seq(Nat) /\ InOrder(c \o (u \o b), <<>>, <<>>, n)
<1>1. u \o b \in Seq(Nat) /\ Len(u \o b) = Len(u) + Len(b)
  OBVIOUS
<1>2. \A t \in Seq(Nat) : c \o t \in Seq(Nat) /\ Len(c \o t) = Len(c) + Len(t)
                            /\ t \o (<<>> \o <<>>) = t
  OBVIOUS
<1>3. c \o (u \o b) \in Seq(Nat) /\ Len(c \o (u \o b)) = Len(c) + Len(u \o b)
  BY <1>1, <1>2, Zenon
<1>4. (c \o (u \o b)) \o (<<>> \o <<>>) = c \o (u \o b)
  BY <1>3, <1>2, Zenon
<1>5. Len(c) \in Nat /\ Len(u) \in Nat /\ Len(b) \in Nat /\ Len(<<>>) = 0
  OBVIOUS
<1>6. Len(c \o (u \o b)) + Len(<<>>) + Len(<<>>) = n
  <2>1. Len(c) + Len(u) + Len(b) = n
    BY DEF InOrder
  <2> QED BY <2>1, <1>1, <1>3, <1>5
<1> QED BY <1>3, <1>4, <1>6 DEF InOrder

(* A successful flush keeps the rows in order and the server's counts      *)
(* exact, and leaves nothing uncommitted if it is the last one.            *)
LEMMA FlushKeeps ==
  ASSUME BulkInv, NEW isLast \in BOOLEAN, FlushOk(isLast),
         con_state # "INVALID", status = "ok"
  PROVE  /\ committed' \in Seq(Nat) /\ uncommitted' \in Seq(Nat)
         /\ bulk_commit_cnt' \in Nat
         /\ InOrder(committed', uncommitted', <<>>, given)
         /\ isLast => uncommitted' = <<>>
         /\ bulk_commit_max # 0 => /\ bulk_commit_cnt' = Len(uncommitted')
                             /\ bulk_commit_cnt' < bulk_commit_max
<1> USE BulkAssumption DEF BulkInv, BulkTypeOK, BufferShape
<1>1. InOrder(committed, uncommitted, rows, given)
  BY DEF RowsInOrder
<1>2. CASE bulk_commit_max # 0 /\ ~CommitDue(isLast)
  <2>1. /\ uncommitted' = uncommitted \o rows
        /\ bulk_commit_cnt' = bulk_commit_cnt + bulk_cnt
        /\ committed' = committed
    BY <1>2 DEF FlushOk
  <2>2. isLast = FALSE /\ bulk_commit_cnt + bulk_cnt < bulk_commit_max
    BY <1>2 DEF CommitDue
  <2>3. /\ uncommitted \o rows \in Seq(Nat)
        /\ Len(uncommitted \o rows) = Len(uncommitted) + Len(rows)
        /\ InOrder(committed, uncommitted \o rows, <<>>, given)
    BY <1>1, InOrderExecute
  <2>4. bulk_commit_cnt = Len(uncommitted)
    BY <1>2 DEF CommitCountExact
  <2> QED BY <2>1, <2>2, <2>3, <2>4
<1>3. CASE ~(bulk_commit_max # 0 /\ ~CommitDue(isLast))
  <2>1. /\ committed' = committed \o (uncommitted \o rows)
        /\ uncommitted' = <<>>
        /\ bulk_commit_cnt' = IF bulk_commit_max = 0 THEN bulk_commit_cnt ELSE 0
    BY <1>3 DEF FlushOk
  <2>2. /\ committed \o (uncommitted \o rows) \in Seq(Nat)
        /\ InOrder(committed \o (uncommitted \o rows), <<>>, <<>>, given)
    BY <1>1, InOrderCommit
  <2>3. <<>> \in Seq(Nat) /\ Len(<<>>) = 0
    OBVIOUS
  <2> QED BY <2>1, <2>2, <2>3
<1> QED BY <1>2, <1>3

(* BulkInit establishes BulkInv and every action keeps it. *)
LEMMA BulkInvInit == BulkInit => BulkInv
<1>1. InOrder(<<>>, <<>>, <<>>, 0)
  <2>1. <<>> \o (<<>> \o <<>>) = <<>> /\ Len(<<>>) = 0
    OBVIOUS
  <2>2. [i \in 1 .. 0 |-> i] = <<>>
    OBVIOUS
  <2> QED BY <2>1, <2>2 DEF InOrder
<1>2. BulkInit => BulkTypeOK /\ BufferShape /\ CommitCountExact
  BY BulkAssumption DEF BulkInit, BulkTypeOK, BufferShape, CommitCountExact, Statuses
<1>3. BulkInit => RowsInOrder
  BY <1>1 DEF BulkInit, RowsInOrder
<1> QED BY <1>2, <1>3 DEF BulkInv

LEMMA BulkInvNext == BulkInv /\ [BulkNext]_bulk_vars => BulkInv'
<1> SUFFICES ASSUME BulkInv, [BulkNext]_bulk_vars PROVE BulkInv'
  OBVIOUS
<1>0. bulk_commit_max' = bulk_commit_max
  BY DEF BulkNext, bulk_vars
<1> USE <1>0, BulkAssumption DEF BulkInv, BulkTypeOK, BufferShape, Statuses
<1>1. ASSUME NEW len \in QueryLens, BulkInsertInit(len) PROVE BulkInv'
  <2>1. rows = <<>> /\ uncommitted = <<>>
    BY <1>1 DEF BulkInsertInit
  <2>2. Len(<<>>) = 0 /\ <<>> \in Seq(Nat)
    OBVIOUS
  <2>3. rows' = <<>> /\ uncommitted' = <<>> /\ committed' = committed /\ given' = given
    BY <1>1, <2>1 DEF BulkInsertInit
  <2>4. BulkTypeOK' /\ BufferShape'
    BY <1>1, <2>1, <2>2, <2>3 DEF BulkInsertInit, Usable
  <2>5. RowsInOrder'
    BY <1>1, <2>1, <2>3 DEF BulkInsertInit, Usable, RowsInOrder
  <2>6. CommitCountExact'
    BY <1>1, <2>1, <2>2, <2>3 DEF BulkInsertInit, Usable, CommitCountExact
  <2> QED BY <2>4, <2>5, <2>6
<1>2. ASSUME NEW len \in RowLens, AddRow(len) PROVE BulkInv'
  <2> USE <1>2 DEF AddRow, Buffering, Usable, server
  <2>1. InOrder(committed, uncommitted, rows, given)
    BY DEF RowsInOrder
  <2>2. /\ Append(rows, given + 1) \in Seq(Nat)
        /\ Len(Append(rows, given + 1)) = Len(rows) + 1
        /\ InOrder(committed, uncommitted, Append(rows, given + 1), given + 1)
    BY <2>1, InOrderAppend
  <2>3. rows' = Append(rows, given + 1) /\ given' = given + 1
    OBVIOUS
  <2>4. BulkTypeOK' /\ BufferShape'
    BY <2>2, <2>3 DEF Comma
  <2>5. RowsInOrder'
    BY <2>2, <2>3 DEF RowsInOrder
  <2>6. CommitCountExact'
    BY DEF CommitCountExact
  <2> QED BY <2>4, <2>5, <2>6
<1>3. ASSUME NEW len \in RowLens, RejectRow(len) PROVE BulkInv'
  BY Zenon, <1>3 DEF RejectRow, Buffering, Usable, server, RowsInOrder, CommitCountExact
<1>4. ASSUME NEW len \in RowLens, FlushAndAddRow(len) PROVE BulkInv'
  <2> USE <1>4 DEF FlushAndAddRow, Buffering, Usable
  <2>1. /\ committed' \in Seq(Nat) /\ uncommitted' \in Seq(Nat)
        /\ bulk_commit_cnt' \in Nat
        /\ InOrder(committed', uncommitted', <<>>, given)
        /\ bulk_commit_max # 0 => /\ bulk_commit_cnt' = Len(uncommitted')
                            /\ bulk_commit_cnt' < bulk_commit_max
    BY Zenon, FlushKeeps
  <2>2. InOrder(committed', uncommitted', Append(<<>>, given + 1), given + 1)
    <3>1. <<>> \in Seq(Nat)
      OBVIOUS
    <3> QED BY Zenon, <2>1, <3>1, InOrderAppend
  <2>3. rows' = Append(<<>>, given + 1) /\ rows' \in Seq(Nat) /\ Len(rows') = 1
        /\ given' = given + 1
    OBVIOUS
  <2>4. BulkTypeOK' /\ BufferShape'
    BY <2>1, <2>3
  <2>5. RowsInOrder'
    BY <2>2, <2>3 DEF RowsInOrder
  <2>6. CommitCountExact'
    BY <2>1 DEF CommitCountExact
  <2> QED BY <2>4, <2>5, <2>6
<1>5. ASSUME NEW isLast \in BOOLEAN, FlushFails(isLast), Usable, bulk = 1, bulk_cnt > 0,
             UNCHANGED <<bulk, bulk_values, bulk_ptr, bulk_cnt, rows, given, nbulks>>
      PROVE BulkInv'
  <2>1. uncommitted \o rows \in Seq(Nat)
    OBVIOUS
  <2>2. CASE status' = "insert_failed" /\ UNCHANGED server
    BY <1>5, <2>2 DEF Usable, server, RowsInOrder, CommitCountExact
  <2>3. CASE /\ status' = "commit_failed" /\ uncommitted' = uncommitted \o rows
             /\ bulk_commit_cnt' = bulk_commit_cnt + bulk_cnt
             /\ UNCHANGED committed
    BY <1>5, <2>1, <2>3 DEF Usable, RowsInOrder, CommitCountExact
  <2> QED BY <1>5, <2>2, <2>3 DEF FlushFails
<1>6. ASSUME NEW len \in RowLens, FlushRejected(len) PROVE BulkInv'
  <2>1. /\ FlushFails(FALSE) /\ Usable /\ bulk = 1 /\ bulk_cnt > 0
        /\ UNCHANGED <<bulk, bulk_values, bulk_ptr, bulk_cnt, rows, given, nbulks>>
    BY Zenon, <1>6 DEF FlushRejected, Buffering
  <2> QED BY Zenon, <2>1, <1>5
<1>7. ASSUME DoneFails PROVE BulkInv'
  BY Zenon, <1>5, <1>7 DEF DoneFails
<1>8. ASSUME DoneEmpty PROVE BulkInv'
  <2>1. \A s \in Seq(Nat) : Len(s) = 0 => s = <<>>
    OBVIOUS
  <2>2. rows = <<>>
    BY Zenon, <1>8, <2>1 DEF DoneEmpty
  <2> QED BY <1>8, <2>2 DEF DoneEmpty, server, RowsInOrder, CommitCountExact
<1>9. ASSUME DoneFlush PROVE BulkInv'
  <2> USE <1>9 DEF DoneFlush, Usable
  <2>1. /\ committed' \in Seq(Nat) /\ uncommitted' = <<>>
        /\ bulk_commit_cnt' \in Nat
        /\ InOrder(committed', uncommitted', <<>>, given)
        /\ bulk_commit_max # 0 => /\ bulk_commit_cnt' = Len(uncommitted')
                            /\ bulk_commit_cnt' < bulk_commit_max
    BY Zenon, FlushKeeps
  <2>2. rows' = <<>> /\ <<>> \in Seq(Nat) /\ Len(<<>>) = 0
    OBVIOUS
  <2>3. BulkTypeOK' /\ BufferShape'
    BY <2>1, <2>2
  <2>4. RowsInOrder'
    BY <2>1, <2>2 DEF RowsInOrder
  <2>5. CommitCountExact'
    BY <2>1 DEF CommitCountExact
  <2> QED BY <2>3, <2>4, <2>5
<1>10. ASSUME OtherQuery \/ Close PROVE BulkInv'
  BY Zenon, <1>10 DEF OtherQuery, Close, server, RowsInOrder, CommitCountExact
<1>11. ASSUME RowOnClosed \/ DoneOnClosed PROVE BulkInv'
  <2>1. \A s \in Seq(Nat) : Len(s) = 0 => s = <<>>
    OBVIOUS
  <2>2. bulk_cnt = 0 => rows = <<>>
    BY Zenon, <2>1
  <2> QED BY <1>11, <2>2 DEF RowOnClosed, DoneOnClosed, server, RowsInOrder, CommitCountExact
<1>12. ASSUME UNCHANGED bulk_vars PROVE BulkInv'
  BY <1>12 DEF bulk_vars, RowsInOrder, CommitCountExact
<1> QED BY Zenon, <1>1, <1>2, <1>3, <1>4, <1>6, <1>7, <1>8, <1>9, <1>10, <1>11, <1>12 DEF BulkNext

(* The inductive invariant holds. *)
THEOREM BulkInvariant == BulkSpec => []BulkInv
<1> QED BY BulkInvInit, BulkInvNext, PTL DEF BulkSpec

(* Every accepted row is committed, executed or buffered, once and in      *)
(* order.                                                                  *)
THEOREM RowsStayInOrder == BulkSpec => []RowsInOrder
<1>1. BulkInv => RowsInOrder
  BY DEF BulkInv
<1> QED BY <1>1, BulkInvariant, PTL

(* A bulk insert that is done has committed all its rows. *)
THEOREM AllRowsCommitted == BulkSpec => []DoneCommitsAll
<1>1. BulkInv => DoneCommitsAll
  <2> SUFFICES ASSUME BulkInv, con_state # "INVALID", status = "ok", bulk = 0
               PROVE  uncommitted = <<>> /\ Len(committed) = given
    BY DEF DoneCommitsAll
  <2>1. rows = <<>> /\ uncommitted = <<>> /\ Len(<<>>) = 0 /\ Len(committed) \in Nat
    BY DEF BulkInv, BulkTypeOK, BufferShape
  <2>2. Len(committed) + Len(uncommitted) + Len(rows) = given
    BY DEF BulkInv, RowsInOrder, InOrder
  <2> QED BY <2>1, <2>2
<1> QED BY <1>1, BulkInvariant, PTL

----------------------------------------------------------------------------
(* The buffer: what is written fits, and if there is a row in the buffer   *)
(* then a row fits behind the INSERT text.                                 *)
FitInv ==
  bulk = 1 => /\ bulk_ptr + 1 <= BufLen /\ bulk_values <= bulk_ptr
              /\ bulk_cnt > 0 => \E r \in RowLens : bulk_values + r + 1 <= BufLen

LEMMA FitInvNext ==
  ASSUME RowsAlike, BulkInv, FitInv, [BulkNext]_bulk_vars PROVE FitInv'
<1> USE BulkAssumption DEF BulkInv, BulkTypeOK, BufferShape
<1>1. ASSUME NEW len \in QueryLens, BulkInsertInit(len) PROVE FitInv'
  BY <1>1 DEF BulkInsertInit, FitInv
<1>2. ASSUME NEW len \in RowLens, AddRow(len) PROVE FitInv'
  <2>1. len \in Nat /\ bulk' = 1 /\ bulk_values' = bulk_values
        /\ bulk_ptr' = bulk_ptr + len + Comma(bulk_cnt)
        /\ bulk_ptr + len + 1 + Comma(bulk_cnt) <= BufLen
        /\ Comma(bulk_cnt) \in {0, 1} /\ bulk_values <= bulk_ptr
    BY <1>2 DEF AddRow, Buffering, Fits, Comma, FitInv
  <2>2. bulk_ptr' + 1 <= BufLen /\ bulk_values <= bulk_ptr'
        /\ bulk_values + len + 1 <= BufLen
    BY <2>1
  <2> QED BY <2>1, <2>2 DEF FitInv
<1>3. ASSUME NEW len \in RowLens, FlushAndAddRow(len) PROVE FitInv'
  <2>1. len \in Nat /\ bulk = 1 /\ bulk_cnt > 0 /\ bulk_values \in QueryLens
        /\ bulk_values' = bulk_values /\ bulk_ptr' = bulk_values + len
    BY <1>3 DEF FlushAndAddRow, Buffering
  <2>2. PICK r \in RowLens : bulk_values + r + 1 <= BufLen
    BY <2>1 DEF FitInv
  <2>3. bulk_values + len + 1 <= BufLen
    BY <2>1, <2>2 DEF RowsAlike
  <2> QED BY <2>1, <2>3 DEF FitInv
<1>4. ASSUME NEW len \in RowLens, RejectRow(len) \/ FlushRejected(len) PROVE FitInv'
  BY Zenon, <1>4 DEF RejectRow, FlushRejected, FitInv
<1>5. ASSUME DoneEmpty \/ DoneFlush \/ DoneFails PROVE FitInv'
  BY <1>5 DEF DoneEmpty, DoneFlush, DoneFails, FitInv
<1>6. ASSUME OtherQuery \/ Close \/ RowOnClosed \/ DoneOnClosed PROVE FitInv'
  BY <1>6 DEF OtherQuery, Close, RowOnClosed, DoneOnClosed, FitInv
<1>7. ASSUME UNCHANGED bulk_vars PROVE FitInv'
  BY <1>7 DEF bulk_vars, FitInv
<1> QED BY <1>1, <1>2, <1>3, <1>4, <1>5, <1>6, <1>7 DEF BulkNext

(* If all rows are alike, nothing is ever written behind the buffer, even  *)
(* though the code does not look at a row's length again after a flush.    *)
THEOREM BufferNeverOverrun ==
  ASSUME RowsAlike PROVE BulkSpec => []BufferFits
<1>1. BulkInit => FitInv
  BY DEF BulkInit, FitInv
<1>2. BulkInv /\ FitInv /\ [BulkNext]_bulk_vars => FitInv'
  BY FitInvNext
<1>3. BulkInv /\ FitInv => BufferFits
  BY DEF BulkInv, FitInv, BufferFits
<1> QED BY <1>1, <1>2, <1>3, BulkInvariant, PTL DEF BulkSpec

----------------------------------------------------------------------------
(***************************************************************************)
(* HandlesCurrent and EventsCommitted of SqlEvent, for events of any       *)
(* length, every value of --reconnect and any number of events and errors. *)
(* Neither is inductive.  That handles are current depends on where they   *)
(* may be old (between a lost session and the restart) and where they may  *)
(* be freed (a thread that has ended); that commits are whole depends on   *)
(* the work that the statements before the next one have left.             *)
(***************************************************************************)

Setups == [script : Scripts, driver : {"mysql", "pgsql"}, use_ps : BOOLEAN,
           reconnect : Reconnects]
Places == {"more", "event", "stop", "restart", "failed", "done"}

SqlTypeOK ==
  /\ setup \in Setups /\ at \in Places
  /\ next \in Nat /\ session_id \in Nat \ {0}
  /\ whole \in Nat /\ doubtful \in Nat /\ counted \in Nat

(* The handles: open while the thread runs, and of the current session     *)
(* unless that has just been lost.                                         *)
HandlesInv ==
  /\ at \in {"more", "event", "stop"} => handles = Prepared
  /\ at = "restart" =>
       /\ \A s \in Statements : handles[s] # 0
       /\ sql_errno # "lost" => handles = Prepared
  /\ ~misused

(* The work: behind BEGIN, what the statements so far have done.           *)
WorkInv ==
  at = "event" =>
    /\ next \in First .. Last + 1
    /\ next > 0 => work = {k \in Works : k < next}

(* The counts: an event is complete but not counted yet behind its last    *)
(* statement.                                                              *)
Complete == at = "stop" \/ (at = "event" /\ next = Last + 1)

CountInv ==
  /\ Complete => counted + 1 <= whole
  /\ counted <= whole
  /\ whole <= counted + doubtful + (IF Complete \/ at = "failed" THEN 1 ELSE 0)

SqlInv == SqlTypeOK /\ HandlesInv /\ WorkInv /\ CountInv

----------------------------------------------------------------------------
(* An event has at least one statement that does work; the options stay.   *)
LEMMA Shape ==
  ASSUME NWork \in Nat \ {0}, setup \in Setups
  PROVE  \E n \in Nat \ {0} :
           /\ Works = 1 .. n
           /\ First = (IF Trx THEN 0 ELSE 1) /\ Last = n + (IF Trx THEN 1 ELSE 0)
           /\ Statements = First .. Last
<1>1. NWorks \in Nat \ {0} BY DEF NWorks
<1> QED BY <1>1 DEF Works, First, Last, Statements

LEMMA SetupStays ==
  ASSUME UNCHANGED setup
  PROVE  /\ Trx' = Trx /\ Works' = Works /\ First' = First /\ Last' = Last
         /\ Statements' = Statements
BY DEF Trx, NWorks, Works, First, Last, Statements

(* A statement of the event uses a handle that is open and current.        *)
LEMMA UsesKeeps ==
  ASSUME NWork \in Nat \ {0}, SqlInv, at = "event", next <= Last, Uses(next)
  PROVE  ~misused'
<1> PICK n \in Nat \ {0} : Last = n + (IF Trx THEN 1 ELSE 0) /\ First = (IF Trx THEN 0 ELSE 1)
  BY Shape DEF SqlInv, SqlTypeOK
<1>1. next \in Statements BY SMT DEF SqlInv, SqlTypeOK, WorkInv, Statements
<1>2. session_id # 0 /\ handles = Prepared BY DEF SqlInv, SqlTypeOK, HandlesInv
<1>3. handles[next] = session_id BY <1>1, <1>2 DEF Prepared
<1> QED BY <1>2, <1>3, Zenon DEF SqlInv, HandlesInv, Uses

(* Closing the handles of a running thread frees none of them twice.       *)
LEMMA NoneFreed ==
  ASSUME SqlInv, at \in {"more", "event", "restart"}
  PROVE  ~Freed
<1>1. CASE at = "restart" BY <1>1 DEF SqlInv, HandlesInv, Freed
<1>2. CASE at # "restart"
  <2>1. session_id # 0 /\ handles = Prepared BY <1>2 DEF SqlInv, SqlTypeOK, HandlesInv
  <2> QED BY <2>1 DEF Prepared, Freed
<1> QED BY <1>1, <1>2

----------------------------------------------------------------------------
LEMMA SqlEventStarts == ASSUME NWork \in Nat \ {0}, SqlInit PROVE SqlInv
<1>1. SqlTypeOK BY DEF SqlInit, SqlTypeOK, Setups, Places
<1>2. HandlesInv BY DEF SqlInit, HandlesInv
<1>3. WorkInv BY DEF SqlInit, WorkInv
<1>4. CountInv BY DEF SqlInit, CountInv, Complete
<1> QED BY <1>1, <1>2, <1>3, <1>4 DEF SqlInv

(* Between events: start, stop and the end of the thread.                  *)
LEMMA BetweenInv ==
  ASSUME NWork \in Nat \ {0}, SqlInv, sb_event_start \/ sb_event_stop \/ thread_done
  PROVE  SqlInv'
<1> UNCHANGED setup BY DEF sb_event_start, sb_event_stop, thread_done
<1> PICK n \in Nat \ {0} : /\ Works = 1 .. n /\ First = (IF Trx THEN 0 ELSE 1)
                          /\ Last = n + (IF Trx THEN 1 ELSE 0)
  BY Shape DEF SqlInv, SqlTypeOK
<1>1. CASE sb_event_start
  <2>1. SqlTypeOK' BY <1>1, SetupStays DEF sb_event_start, SqlInv, SqlTypeOK, Places
  <2>2. HandlesInv'
    BY <1>1, SetupStays DEF sb_event_start, SqlInv, HandlesInv, Prepared
  <2>3. WorkInv' BY <1>1, SetupStays DEF sb_event_start, WorkInv
  <2>4. CountInv' BY <1>1, SetupStays DEF sb_event_start, SqlInv, CountInv, Complete
  <2> QED BY <2>1, <2>2, <2>3, <2>4 DEF SqlInv
<1>2. CASE sb_event_stop
  <2>1. SqlTypeOK' BY <1>2 DEF sb_event_stop, SqlInv, SqlTypeOK, Places
  <2>2. HandlesInv' BY <1>2, SetupStays DEF sb_event_stop, SqlInv, HandlesInv, Prepared
  <2>3. WorkInv' BY <1>2 DEF sb_event_stop, WorkInv
  <2>4. CountInv' BY <1>2 DEF sb_event_stop, SqlInv, SqlTypeOK, CountInv, Complete
  <2> QED BY <2>1, <2>2, <2>3, <2>4 DEF SqlInv
<1>3. CASE thread_done
  <2>1. ~misused' BY <1>3, NoneFreed, Zenon DEF thread_done, SqlInv, HandlesInv
  <2>2. SqlTypeOK' BY <1>3, <2>1 DEF thread_done, SqlInv, SqlTypeOK, Places
  <2>3. HandlesInv' BY <1>3, <2>1 DEF thread_done, HandlesInv
  <2>4. WorkInv' BY <1>3 DEF thread_done, WorkInv
  <2>5. CountInv' BY <1>3 DEF thread_done, SqlInv, SqlTypeOK, CountInv, Complete
  <2> QED BY <2>2, <2>3, <2>4, <2>5 DEF SqlInv
<1> QED BY <1>1, <1>2, <1>3

(* A statement that succeeds.                                              *)
LEMMA ExecuteInv ==
  ASSUME NWork \in Nat \ {0}, SqlInv, Execute
  PROVE  SqlInv'
<1> UNCHANGED setup BY DEF Execute
<1> PICK n \in Nat \ {0} : /\ Works = 1 .. n /\ First = (IF Trx THEN 0 ELSE 1)
                          /\ Last = n + (IF Trx THEN 1 ELSE 0)
  BY Shape DEF SqlInv, SqlTypeOK
<1> at = "event" /\ next <= Last /\ next \in First .. Last /\ next \in Nat
  BY SMT DEF Execute, SqlInv, SqlTypeOK, WorkInv
<1>1. ~misused' BY UsesKeeps DEF Execute
<1>2. Effect = {k \in Works : k < next + 1}
  BY DEF SqlInv, WorkInv, Effect
<1>3. next = Last <=> Completes BY <1>2 DEF Completes
<1>4. SqlTypeOK' BY <1>1 DEF Execute, SqlInv, SqlTypeOK
<1>5. HandlesInv' BY <1>1, SetupStays DEF Execute, SqlInv, HandlesInv, Prepared
<1>6. WorkInv' BY <1>2, SetupStays DEF Execute, WorkInv
<1>7. CountInv'
  BY <1>3, SetupStays DEF Execute, SqlInv, SqlTypeOK, CountInv, Complete
<1> QED BY <1>4, <1>5, <1>6, <1>7 DEF SqlInv

(* A statement that fails: the event has to be restarted, or the thread    *)
(* ends.  A commit whose answer is lost is counted in doubtful.            *)
LEMMA FailInv ==
  ASSUME NWork \in Nat \ {0}, SqlInv,
         SessionLost \/ \E e \in {"deadlock", "timeout", "fatal"} : ExecuteFails(e)
  PROVE  SqlInv'
<1> UNCHANGED setup BY DEF SessionLost, ExecuteFails
<1> PICK n \in Nat \ {0} : /\ Works = 1 .. n /\ First = (IF Trx THEN 0 ELSE 1)
                          /\ Last = n + (IF Trx THEN 1 ELSE 0)
  BY Shape DEF SqlInv, SqlTypeOK
<1> at = "event" /\ next <= Last /\ next \in Nat /\ Uses(next)
  BY DEF SessionLost, ExecuteFails, SqlInv, SqlTypeOK
<1>1. ~misused' BY UsesKeeps
<1>2. session_id # 0 /\ handles = Prepared BY DEF SqlInv, SqlTypeOK, HandlesInv
<1>3. ~Complete BY DEF Complete
<1>4. CASE SessionLost
  <2>1. at' \in {"restart", "failed"} /\ session_id' \in Nat \ {0} /\ UNCHANGED <<next, handles, counted>>
        /\ (at' = "restart" => sql_errno' = "lost")
    BY <1>4 DEF SessionLost, Raises, SqlInv, SqlTypeOK
  <2>2. \/ whole' = whole /\ doubtful' = doubtful
        \/ whole' = whole + 1 /\ doubtful' = doubtful + 1
    BY <1>4 DEF SessionLost
  <2>3. SqlTypeOK' BY <2>1, <2>2 DEF SqlInv, SqlTypeOK, Places
  <2>4. HandlesInv' BY <1>1, <1>2, <2>1, SetupStays DEF HandlesInv, Prepared
  <2>5. WorkInv' BY <2>1 DEF WorkInv
  <2>6. CountInv' BY <1>3, <2>1, <2>2 DEF SqlInv, SqlTypeOK, CountInv, Complete
  <2> QED BY <2>3, <2>4, <2>5, <2>6 DEF SqlInv
<1>5. ASSUME NEW e \in {"deadlock", "timeout", "fatal"}, ExecuteFails(e) PROVE SqlInv'
  <2>1. at' \in {"restart", "failed"} /\ sql_errno' # "lost"
        /\ UNCHANGED <<next, handles, session_id, whole, doubtful, counted>>
    BY <1>5 DEF ExecuteFails, Raises
  <2>2. SqlTypeOK' BY <2>1 DEF SqlInv, SqlTypeOK, Places
  <2>3. HandlesInv' BY <1>1, <1>2, <2>1, SetupStays DEF HandlesInv, Prepared
  <2>4. WorkInv' BY <2>1 DEF WorkInv
  <2>5. CountInv' BY <1>3, <2>1 DEF SqlInv, SqlTypeOK, CountInv, Complete
  <2> QED BY <2>2, <2>3, <2>4, <2>5 DEF SqlInv
<1> QED BY <1>4, <1>5

(* Both ways to a new session prepare the statements again, or end the     *)
(* thread.                                                                 *)
LEMMA RepreparesKeeps ==
  ASSUME SqlInv, UNCHANGED setup, at \in {"event", "restart"},
         NEW n, NEW then, Reprepares(n, then)
  PROVE  /\ ~misused'
         /\ at' = "failed" \/ (at' = then /\ setup.script # "points"
                                /\ handles' = [s \in Statements |-> n])
<1>1. ~Freed /\ ~misused BY NoneFreed DEF SqlInv, HandlesInv
<1>2. ~misused' BY <1>1, Zenon DEF Reprepares
<1> QED BY <1>2 DEF Reprepares, Raises

LEMMA RestartInv ==
  ASSUME NWork \in Nat \ {0}, SqlInv, Restart
  PROVE  SqlInv'
<1> UNCHANGED setup BY DEF Restart
<1> PICK n \in Nat \ {0} : /\ Works = 1 .. n /\ First = (IF Trx THEN 0 ELSE 1)
                          /\ Last = n + (IF Trx THEN 1 ELSE 0)
  BY Shape DEF SqlInv, SqlTypeOK
<1>1. /\ ~misused'
      /\ at' = "failed" \/ (at' = "event" /\ handles' = Prepared)
  <2>1. CASE sql_errno = "lost" BY <2>1, RepreparesKeeps DEF Restart, before_restart_event, Prepared
  <2>2. CASE sql_errno # "lost"
    BY <2>2 DEF Restart, before_restart_event, SqlInv, HandlesInv
  <2> QED BY <2>1, <2>2
<1>2. SqlTypeOK' BY <1>1 DEF Restart, RestartAt, SqlInv, SqlTypeOK, Places
<1>3. HandlesInv' BY <1>1, SetupStays DEF Restart, HandlesInv, Prepared
<1>4. WorkInv' BY <1>1, SetupStays DEF Restart, RestartAt, WorkInv
<1>5. CountInv'
  BY <1>1, SetupStays DEF Restart, RestartAt, SqlInv, SqlTypeOK, CountInv, Complete
<1> QED BY <1>2, <1>3, <1>4, <1>5 DEF SqlInv

LEMMA ReconnectInv ==
  ASSUME NWork \in Nat \ {0}, SqlInv, check_reconnect
  PROVE  SqlInv'
<1> UNCHANGED setup BY DEF check_reconnect
<1>1. /\ ~misused' /\ session_id' \in Nat \ {0}
      /\ at' = "failed" \/ (at' = "stop" /\ handles' = [s \in Statements |-> session_id'])
  <2>1. CASE Reprepares(session_id + 1, "stop")
             /\ session_id' = IF setup.script = "points" THEN session_id ELSE session_id + 1
    BY <2>1, RepreparesKeeps DEF check_reconnect, SqlInv, SqlTypeOK
  <2>2. CASE Raises("fatal") /\ misused' = (misused \/ Freed) /\ UNCHANGED session_id
    <3>1. ~misused' BY <2>2, NoneFreed, Zenon DEF check_reconnect, SqlInv, HandlesInv
    <3> QED BY <2>2, <3>1 DEF Raises, SqlInv, SqlTypeOK
  <2>3. CASE at' = "stop" /\ UNCHANGED <<handles, misused, session_id>>
    BY <2>3 DEF check_reconnect, SqlInv, SqlTypeOK, HandlesInv, Prepared
  <2> QED BY <2>1, <2>2, <2>3, Zenon DEF check_reconnect
<1>2. Complete BY DEF check_reconnect, Complete
<1>3. UNCHANGED <<whole, doubtful, counted>> /\ next' = 0 BY DEF check_reconnect
<1>4. SqlTypeOK' BY <1>1, <1>3 DEF SqlInv, SqlTypeOK, Places
<1>5. HandlesInv' BY <1>1, SetupStays DEF HandlesInv, Prepared
<1>6. WorkInv' BY <1>1 DEF WorkInv
<1>7. CountInv' BY <1>1, <1>2, <1>3 DEF SqlInv, SqlTypeOK, CountInv, Complete
<1> QED BY <1>4, <1>5, <1>6, <1>7 DEF SqlInv

----------------------------------------------------------------------------
(* The inductive invariant, for events with at least one statement.        *)
THEOREM SqlInvariant == ASSUME NWork \in Nat \ {0} PROVE SqlSpec => []SqlInv
<1>1. SqlInit => SqlInv BY SqlEventStarts
<1>2. SqlInv /\ [SqlNext]_sqlVars => SqlInv'
  <2> SUFFICES ASSUME SqlInv, [SqlNext]_sqlVars PROVE SqlInv' OBVIOUS
  <2>1. CASE SqlNext
    BY <2>1, BetweenInv, ExecuteInv, FailInv, RestartInv, ReconnectInv DEF SqlNext
  <2>2. CASE UNCHANGED sqlVars
    BY <2>2, SetupStays DEF sqlVars, SqlInv, SqlTypeOK, HandlesInv, WorkInv, CountInv,
       Complete, Prepared
  <2> QED BY <2>1, <2>2
<1> QED BY <1>1, <1>2, PTL DEF SqlSpec

(* No statement is used through a handle that was freed or that belongs to *)
(* a session that is gone.                                                 *)
THEOREM HandlesStayCurrent ==
  ASSUME NWork \in Nat \ {0} PROVE SqlSpec => []HandlesCurrent
<1>1. SqlInv => HandlesCurrent BY DEF SqlInv, HandlesInv, HandlesCurrent
<1> QED BY <1>1, SqlInvariant, PTL

(* What sb_event_stop() counts was committed as a whole, and nothing was   *)
(* committed twice but for the commits whose answer was lost.              *)
THEOREM CountedMeansCommitted ==
  ASSUME NWork \in Nat \ {0} PROVE SqlSpec => []EventsCommitted
<1>1. SqlInv => EventsCommitted
  BY DEF SqlInv, SqlTypeOK, CountInv, Complete, EventsCommitted
<1> QED BY <1>1, SqlInvariant, PTL

----------------------------------------------------------------------------
(* Random numbers.                                                         *)

(* Reducing a sum of two words subtracts the word size at most once.       *)
LEMMA WrapOnce ==
  \A z \in 0 .. 2 * Word - 1 : z % Word = IF z < Word THEN z ELSE z - Word
<1> Word \in Nat /\ 2 < Word BY WordAssumption
<1> TAKE z \in 0 .. 2 * Word - 1
<1>1. CASE z < Word BY <1>1, SMT
<1>2. CASE z >= Word
  <2>1. (z - Word) + 1 * Word = z BY SMT
  <2> QED BY <1>2, SMT
<1> QED BY <1>1, <1>2, SMT

(* The residue of a number is below the prime.                             *)
LEMMA ResidueRange ==
  ASSUME NEW x \in Nat
  PROVE  Residue(x) \in 0 .. Prime - 1
<1> Prime \in Nat /\ 2 < Prime BY WordAssumption
<1>1. x * x \in Nat BY SMT
<1>2. \A m \in Nat : m % Prime \in 0 .. Prime - 1 BY SMT
<1> QED BY <1>1, <1>2, Zenon DEF Residue

(* A number other than 0 has a residue other than 0.                       *)
LEMMA ResiduePositive ==
  ASSUME NEW x \in 1 .. Prime - 1
  PROVE  Residue(x) # 0
<1> Prime \in Nat /\ 2 < Prime BY WordAssumption
<1>1. Residue(0) = 0
  <2>1. 0 * 0 = 0 BY SMT
  <2>2. 0 % Prime = 0 BY SMT
  <2> QED BY <2>1, <2>2 DEF Residue
<1>2. Residue(x) = Residue(0) => x = 0 \/ x + 0 = Prime
  BY PrimeAssumption
<1> QED BY <1>1, <1>2, SMT

LEMMA PermuteType ==
  ASSUME NEW x \in Words
  PROVE  rand_unique_permute(x) \in Words
<1> Word \in Nat /\ Prime \in Nat /\ 2 < Prime /\ Prime <= Word BY WordAssumption
<1> x \in 0 .. Word - 1 BY DEF Words
<1>1. Residue(x) \in 0 .. Prime - 1 BY ResidueRange, SMT
<1>2. x \in 1 .. Prime - 1 => Residue(x) # 0 BY ResiduePositive
<1>3. Prime \div 2 \in Nat BY SMT
<1> HIDE DEF Residue
<1> QED BY <1>1, <1>2, <1>3, SMT DEF rand_unique_permute, Words

(* The permutation of the words is one to one: this is what mirroring the  *)
(* squares of the upper half is for.                                       *)
LEMMA PermuteInjective ==
  ASSUME NEW x \in Words, NEW y \in Words,
         rand_unique_permute(x) = rand_unique_permute(y)
  PROVE  x = y
<1> Word \in Nat /\ Prime \in Nat /\ 2 < Prime /\ Prime <= Word BY WordAssumption
<1> x \in 0 .. Word - 1 /\ y \in 0 .. Word - 1 BY DEF Words
<1>1. Residue(x) \in 0 .. Prime - 1 /\ Residue(y) \in 0 .. Prime - 1
  BY ResidueRange, SMT
<1>2. x \in 1 .. Prime - 1 => Residue(x) # 0 BY ResiduePositive
<1>3. y \in 1 .. Prime - 1 => Residue(y) # 0 BY ResiduePositive
<1>4. x < Prime /\ y < Prime /\ Residue(x) = Residue(y) => x = y \/ x + y = Prime
  BY PrimeAssumption, SMT
<1>5. x \in 1 .. Prime - 1 /\ y \in 1 .. Prime - 1 => Residue(x) + Residue(y) # Prime
  BY PrimeAssumption
<1>6. Prime % 2 = 1 BY PrimeAssumption
<1> DEFINE half == Prime \div 2
<1>7. half \in Nat /\ Prime = 2 * half + 1 BY <1>6, SMT
<1> HIDE DEF half, Residue
<1>8. Residue(0) = 0
  <2>1. 0 * 0 = 0 /\ 0 % Prime = 0 BY SMT
  <2> QED BY <2>1 DEF Residue
<1>9. rand_unique_permute(x) = IF x >= Prime THEN x ELSE IF x <= half THEN Residue(x)
                               ELSE Prime - Residue(x)
  BY DEF rand_unique_permute, half
<1>10. rand_unique_permute(y) = IF y >= Prime THEN y ELSE IF y <= half THEN Residue(y)
                                ELSE Prime - Residue(y)
  BY DEF rand_unique_permute, half
<1> DEFINE rx == Residue(x)
           ry == Residue(y)
<1>11. rx \in 0 .. Prime - 1 /\ ry \in 0 .. Prime - 1 BY <1>1
<1>12. (x \in 1 .. Prime - 1 => rx # 0) /\ (y \in 1 .. Prime - 1 => ry # 0) BY <1>2, <1>3
<1>13. (x = 0 => rx = 0) /\ (y = 0 => ry = 0) BY <1>8
<1>14. x < Prime /\ y < Prime /\ rx = ry => x = y \/ x + y = Prime BY <1>4
<1>15. x \in 1 .. Prime - 1 /\ y \in 1 .. Prime - 1 => rx + ry # Prime BY <1>5
<1>16. (IF x >= Prime THEN x ELSE IF x <= half THEN rx ELSE Prime - rx) =
       (IF y >= Prime THEN y ELSE IF y <= half THEN ry ELSE Prime - ry)
  BY Zenon, <1>9, <1>10
<1> HIDE DEF rx, ry
<1> QED BY <1>7, <1>11, <1>12, <1>13, <1>14, <1>15, <1>16, SMT

LEMMA PlusFacts ==
  ASSUME NEW x \in Words, NEW y \in Words, NEW o \in Words
  PROVE  /\ Plus(x, o) \in Words
         /\ Plus(x, o) = IF x + o < Word THEN x + o ELSE x + o - Word
         /\ Plus(x, o) = Plus(y, o) => x = y
<1> Word \in Nat /\ 2 < Word BY WordAssumption
<1>1. Plus(x, o) = IF x + o < Word THEN x + o ELSE x + o - Word
  <2> DEFINE z == x + o
  <2>1. z \in 0 .. 2 * Word - 1 BY SMT DEF Words
  <2>2. Plus(x, o) = z % Word BY DEF Plus
  <2> HIDE DEF z
  <2>3. Plus(x, o) = IF z < Word THEN z ELSE z - Word BY <2>1, <2>2, WrapOnce
  <2>4. z = x + o BY DEF z
  <2> HIDE DEF Plus
  <2> QED BY <2>1, <2>3, <2>4, SMT DEF Words
<1>2. Plus(y, o) = IF y + o < Word THEN y + o ELSE y + o - Word
  <2> DEFINE z == y + o
  <2>1. z \in 0 .. 2 * Word - 1 BY SMT DEF Words
  <2>2. Plus(y, o) = z % Word BY DEF Plus
  <2> HIDE DEF z
  <2>3. Plus(y, o) = IF z < Word THEN z ELSE z - Word BY <2>1, <2>2, WrapOnce
  <2>4. z = y + o BY DEF z
  <2> HIDE DEF Plus
  <2> QED BY <2>1, <2>3, <2>4, SMT DEF Words
<1> HIDE DEF Plus
<1> QED BY <1>1, <1>2, SMT DEF Words

LEMMA IdentifierType ==
  ASSUME RandTypeOK, NEW i \in Words
  PROVE  Identifier(i) \in Words
<1> rand_unique_offset \in Words BY DEF RandTypeOK
<1>1. rand_unique_permute(i) \in Words BY PermuteType
<1>2. Plus(rand_unique_permute(i), rand_unique_offset) \in Words BY <1>1, PlusFacts
<1>3. Mask[Plus(rand_unique_permute(i), rand_unique_offset)] \in Words
  BY <1>2, MaskAssumption
<1> QED BY <1>3, PermuteType DEF Identifier

(* Different indices have different identifiers.                           *)
LEMMA IdentifierInjective ==
  ASSUME RandTypeOK, NEW i \in Words, NEW j \in Words, Identifier(i) = Identifier(j)
  PROVE  i = j
<1> rand_unique_offset \in Words BY DEF RandTypeOK
<1>1. rand_unique_permute(i) \in Words /\ rand_unique_permute(j) \in Words
  BY PermuteType
<1> DEFINE si == Plus(rand_unique_permute(i), rand_unique_offset)
           sj == Plus(rand_unique_permute(j), rand_unique_offset)
<1>2. si \in Words /\ sj \in Words BY <1>1, PlusFacts
<1>3. Mask[si] \in Words /\ Mask[sj] \in Words BY <1>2, MaskAssumption
<1>4. Mask[si] = Mask[sj] BY <1>3, PermuteInjective DEF Identifier
<1>5. si = sj BY <1>2, <1>4, MaskAssumption
<1>6. rand_unique_permute(i) = rand_unique_permute(j) BY <1>1, <1>5, PlusFacts
<1> QED BY <1>6, PermuteInjective

----------------------------------------------------------------------------
(* How far an index is from the first one.                                 *)
Distance(i) == IF i >= first THEN i - first ELSE (i - first) + Word

(* The inductive invariant: the indices taken are the ones at a distance   *)
(* below taken, no two threads hold the same one, and an identifier has    *)
(* been returned only if its index was taken and is no longer held.        *)
RandInv ==
  /\ RandTypeOK
  /\ rand_unique_index = IF first + taken < Word THEN first + taken
                         ELSE (first + taken) - Word
  /\ \A t \in Callers : held[t] # NoIndex => Distance(held[t]) < taken
  /\ \A t, u \in Callers : held[t] # NoIndex /\ held[t] = held[u] => t = u
  /\ \A i \in Words : drawn[Identifier(i)] # 0 =>
       Distance(i) < taken /\ \A t \in Callers : held[t] # i
  /\ UniqueIds

LEMMA InitInv == RandInit => RandInv
<1> SUFFICES ASSUME RandInit PROVE RandInv OBVIOUS
<1> Word \in Nat /\ 2 < Word BY WordAssumption
<1> PICK index \in 0 .. Word \div 2 - 1, offset \in 0 .. Word \div 2 - 1 :
           rand_unique_seed(index, offset)
  BY DEF RandInit
<1>1. index \in Words /\ offset \in Words
  <2>1. Word \div 2 <= Word BY SMT
  <2> QED BY <2>1, SMT DEF Words
<1>2. rand_unique_index \in Words
  BY Zenon, <1>1, PermuteType, PlusFacts, SeedAssumption DEF rand_unique_seed
<1>3. rand_unique_offset \in Words
  BY Zenon, <1>1, PermuteType, PlusFacts, SeedAssumption DEF rand_unique_seed
<1>4. drawn \in [Words -> Nat] /\ \A v \in Words : drawn[v] = 0 BY DEF RandInit
<1>5. RandTypeOK BY <1>2, <1>3, <1>4, SMT DEF RandInit, RandTypeOK, NoIndex
<1>6. rand_unique_index = IF first + taken < Word THEN first + taken
                          ELSE (first + taken) - Word
  BY <1>2, SMT DEF RandInit, Words
<1>7. \A i \in Words : drawn[Identifier(i)] = 0 BY <1>4, <1>5, IdentifierType
<1>8. UniqueIds BY <1>4, SMT DEF UniqueIds
<1> QED BY <1>5, <1>6, <1>7, <1>8 DEF RandInit, RandInv

LEMMA TakeInv == ASSUME RandInv, NEW t \in Callers, TakeIndex(t) PROVE RandInv'
<1> Word \in Nat /\ 2 < Word BY WordAssumption
<1> RandTypeOK BY DEF RandInv
<1> DEFINE x == rand_unique_index
<1>1. x \in Words /\ first \in Words /\ taken \in Nat /\ taken < Word
  BY SMT DEF RandTypeOK, TakeIndex
<1>2. Distance(x) = taken BY <1>1, SMT DEF RandInv, Distance, Words
<1>3. \A i \in Words : Distance(i)' = Distance(i) BY DEF TakeIndex, Distance
<1>4. \A i \in Words : Identifier(i)' = Identifier(i) BY DEF TakeIndex, Identifier
<1>5. /\ held' = [held EXCEPT ![t] = x] /\ taken' = taken + 1
      /\ UNCHANGED <<rand_unique_offset, first, drawn>>
  BY DEF TakeIndex
<1>6. 1 \in Words BY SMT DEF Words
<1>7. rand_unique_index' = IF x + 1 < Word THEN x + 1 ELSE x + 1 - Word
  BY <1>1, <1>6, PlusFacts DEF TakeIndex
<1>8. RandTypeOK'
  BY <1>1, <1>5, <1>6, PlusFacts, SMT DEF TakeIndex, RandTypeOK
<1>9. \A u \in Callers : held[u] # NoIndex => held[u] \in Words /\ held[u] # x
  BY <1>1, <1>2, SMT DEF RandInv, RandTypeOK
<1>10. (\A u \in Callers : held[u] # NoIndex => Distance(held[u]) < taken)'
  <2> SUFFICES ASSUME NEW u \in Callers, held'[u] # NoIndex
               PROVE  Distance(held[u])' < taken'
    OBVIOUS
  <2>1. CASE u = t BY <2>1, <1>1, <1>2, <1>5, SMT DEF RandTypeOK, Distance
  <2>2. CASE u # t
    <3>1. held'[u] = held[u] BY <2>2, <1>5 DEF RandTypeOK
    <3>2. Distance(held[u]) < taken BY <3>1 DEF RandInv
    <3> QED BY <3>1, <3>2, <1>1, <1>5, <1>9, SMT DEF Distance, Words
  <2> QED BY <2>1, <2>2
<1>11. (\A u, v \in Callers : held[u] # NoIndex /\ held[u] = held[v] => u = v)'
  BY <1>5, <1>9 DEF RandInv, RandTypeOK
<1>12. (\A i \in Words : drawn[Identifier(i)] # 0 =>
         Distance(i) < taken /\ \A u \in Callers : held[u] # i)'
  <2> SUFFICES ASSUME NEW i \in Words, (drawn[Identifier(i)] # 0)'
               PROVE  (Distance(i) < taken)' /\ \A u \in Callers : held'[u] # i
    OBVIOUS
  <2>1. drawn[Identifier(i)] # 0 BY <1>4, <1>5
  <2>2. Distance(i) < taken /\ \A u \in Callers : held[u] # i BY <2>1 DEF RandInv
  <2>3. (Distance(i) < taken)' BY <2>2, <1>1, <1>5, SMT DEF Distance, Words
  <2>4. i # x BY <2>2, <1>1, <1>2, SMT
  <2> QED BY <2>2, <2>3, <2>4, <1>5 DEF RandTypeOK
<1>13. UniqueIds' BY <1>5 DEF RandInv, UniqueIds
<1>14. (rand_unique_index = IF first + taken < Word THEN first + taken
                            ELSE (first + taken) - Word)'
  BY <1>1, <1>5, <1>7, SMT DEF RandInv, Words
<1> QED BY Zenon, <1>8, <1>10, <1>11, <1>12, <1>13, <1>14 DEF RandInv

LEMMA ReturnInv == ASSUME RandInv, NEW t \in Callers, ReturnUnique(t) PROVE RandInv'
<1> Word \in Nat /\ 2 < Word BY WordAssumption
<1> RandTypeOK BY DEF RandInv
<1> DEFINE x == held[t]
           v == Identifier(x)
<1>1. x \in Words BY DEF RandTypeOK, ReturnUnique
<1>2. v \in Words BY <1>1, IdentifierType
<1>3. /\ held' = [held EXCEPT ![t] = NoIndex] /\ drawn' = [drawn EXCEPT ![v] = @ + 1]
      /\ UNCHANGED <<rand_unique_index, rand_unique_offset, first, taken>>
  BY DEF ReturnUnique
<1>4. \A i \in Words : Distance(i)' = Distance(i) BY <1>3 DEF Distance
<1>5. \A i \in Words : Identifier(i)' = Identifier(i) BY <1>3 DEF Identifier
<1>6. drawn[v] = 0 BY <1>1 DEF RandInv
<1> HIDE DEF v
<1>7. RandTypeOK' BY <1>2, <1>3, <1>6, SMT DEF RandTypeOK
<1>8. UniqueIds' BY <1>2, <1>3, <1>6, SMT DEF RandInv, UniqueIds, RandTypeOK
<1>9. (\A u \in Callers : held[u] # NoIndex => Distance(held[u]) < taken)'
  BY <1>3, SMT DEF RandInv, RandTypeOK, Distance
<1>10. (\A u, w \in Callers : held[u] # NoIndex /\ held[u] = held[w] => u = w)'
  BY <1>3 DEF RandInv, RandTypeOK
<1>11. (\A i \in Words : drawn[Identifier(i)] # 0 =>
         Distance(i) < taken /\ \A u \in Callers : held[u] # i)'
  <2> SUFFICES ASSUME NEW i \in Words, (drawn[Identifier(i)] # 0)'
               PROVE  (Distance(i) < taken)' /\ \A u \in Callers : held'[u] # i
    OBVIOUS
  <2>0. NoIndex \notin Words BY SMT DEF NoIndex, Words
  <2>1. CASE i = x
    <3>1. Distance(x) < taken BY <1>1, <2>0 DEF RandInv
    <3>2. \A u \in Callers : held'[u] # i
      BY <2>1, <2>0, <1>1, <1>3 DEF RandInv, RandTypeOK
    <3>3. (Distance(i) < taken)' BY <2>1, <3>1, <1>3 DEF Distance
    <3> QED BY <3>2, <3>3
  <2>2. CASE i # x
    <3>1. Identifier(i) # v BY <2>2, <1>1, IdentifierInjective DEF v
    <3>2. Identifier(i) \in Words BY IdentifierType
    <3>3. drawn[Identifier(i)] # 0 BY <3>1, <3>2, <1>3, <1>5 DEF RandTypeOK
    <3>4. Distance(i) < taken /\ \A u \in Callers : held[u] # i BY <3>3 DEF RandInv
    <3>5. (Distance(i) < taken)' BY <3>4, <1>3 DEF Distance
    <3> QED BY <3>4, <3>5, <2>0, <1>3 DEF RandTypeOK
  <2> QED BY Zenon, <2>1, <2>2
<1>12. (rand_unique_index = IF first + taken < Word THEN first + taken
                            ELSE (first + taken) - Word)'
  BY <1>3 DEF RandInv
<1> QED BY Zenon, <1>7, <1>8, <1>9, <1>10, <1>11, <1>12 DEF RandInv

(* The state of sb_rand_unique() always satisfies RandInv.                 *)
THEOREM RandInvariant == RandSpec => []RandInv
<1>1. RandInv /\ [RandNext]_randVars => RandInv'
  <2> SUFFICES ASSUME RandInv, [RandNext]_randVars PROVE RandInv' OBVIOUS
  <2>1. CASE RandNext BY <2>1, TakeInv, ReturnInv DEF RandNext
  <2>2. CASE UNCHANGED randVars
    BY <2>2 DEF randVars, RandInv, RandTypeOK, UniqueIds, Distance, Identifier
  <2> QED BY <2>1, <2>2
<1> QED BY <1>1, InitInv, PTL DEF RandSpec

(* sb_rand_unique() returns no identifier twice in a round of its index,   *)
(* for every number of threads and every seed.                             *)
THEOREM IdsUnique == RandSpec => []UniqueIds
<1>1. RandInv => UniqueIds BY DEF RandInv
<1> QED BY <1>1, RandInvariant, PTL

----------------------------------------------------------------------------
(* A fraction below 1 of t is below t.                                     *)
LEMMA FractionBelow ==
  ASSUME NEW n \in Nat, NEW d \in Nat \ {0}, n < d, NEW t \in Nat
  PROVE  /\ (n * t) \div d \in Nat
         /\ t > 0 => (n * t) \div d <= t - 1
<1>1. n * t \in Nat BY SMT
<1> DEFINE q == (n * t) \div d
<1>2. q \in Nat /\ d * q <= n * t BY <1>1, SMT
<1>3. t > 0 => n * t < d * t BY SMT
<1>4. t > 0 => d * q < d * t
  <2>1. d * q \in Nat /\ d * t \in Nat BY <1>2, SMT
  <2> HIDE DEF q
  <2> QED BY <1>1, <1>2, <1>3, <2>1, SMT
<1> HIDE DEF q
<1>5. t > 0 => q < t BY <1>2, <1>4, SMT
<1>6. (t > 0 => q <= t - 1) BY <1>5, <1>2, SMT
<1> QED BY <1>2, <1>6 DEF q

(* sb_rand_uniform() returns a number between its arguments, also where    *)
(* b - a + 1 wraps around to 0.                                            *)
THEOREM UniformInRange ==
  ASSUME NEW a \in Words, NEW b \in Words, a <= b,
         NEW n \in Nat, NEW d \in Nat \ {0}, n < d
  PROVE  sb_rand_uniform(a, b, n, d) \in a .. b
<1> Word \in Nat /\ 2 < Word BY WordAssumption
<1> DEFINE t == (b - a + 1) % Word
<1>1. t \in Nat /\ t <= b - a + 1
  <2> DEFINE z == b - a + 1
  <2>1. z \in 0 .. 2 * Word - 1 /\ z = b - a + 1 BY SMT DEF Words
  <2>2. t = z % Word OBVIOUS
  <2> HIDE DEF t, z
  <2>3. t = IF z < Word THEN z ELSE z - Word BY <2>1, <2>2, WrapOnce
  <2> QED BY <2>1, <2>3, SMT DEF Words
<1> HIDE DEF t
<1> DEFINE q == (n * t) \div d
<1>2. q \in Nat /\ (t > 0 => q <= t - 1) BY <1>1, FractionBelow
<1>3. t = 0 => q = 0
  <2>1. t = 0 => n * t = 0 BY SMT
  <2>2. 0 \div d = 0 BY SMT
  <2> QED BY <2>1, <2>2
<1> HIDE DEF q
<1>4. a + q \in a .. b BY <1>1, <1>2, <1>3, SMT DEF Words
<1> QED BY <1>4 DEF sb_rand_uniform, q, t

(* sb_rand_gaussian() returns a number between its arguments for every     *)
(* positive --rand-spec-iter: the sum of iter fractions is below iter.     *)
THEOREM GaussianInRange ==
  ASSUME NEW a \in Words, NEW b \in Words, a <= b, NEW iter \in Nat \ {0},
         NEW n \in Nat, NEW d \in Nat \ {0}, n < d * iter
  PROVE  sb_rand_gaussian(a, b, n, d, iter) \in a .. b
<1>1. d * iter \in Nat \ {0} BY SMT
<1>2. sb_rand_uniform(a, b, n, d * iter) \in a .. b BY <1>1, UniformInRange
<1> QED BY <1>2 DEF sb_rand_uniform, sb_rand_gaussian

(* sb_rand_varstr() never writes more than max_len characters, whatever    *)
(* min_len is.                                                             *)
THEOREM VarstrFits ==
  ASSUME NEW min_len \in Words, NEW max_len \in Words,
         NEW n \in Nat, NEW d \in Nat \ {0}, n < d
  PROVE  sb_rand_varstr(min_len, max_len, n, d) \in 0 .. max_len
<1> Word \in Nat /\ 2 < Word BY WordAssumption
<1> DEFINE m == IF min_len > max_len THEN 1 ELSE min_len
<1>1. CASE max_len = 0 BY <1>1, SMT DEF sb_rand_varstr
<1>2. CASE max_len # 0
  <2>1. m \in Words /\ m <= max_len BY <1>2, SMT DEF Words
  <2>2. sb_rand_uniform(m, max_len, n, d) \in m .. max_len BY <2>1, UniformInRange
  <2>3. sb_rand_varstr(min_len, max_len, n, d) = sb_rand_uniform(m, max_len, n, d)
    BY <1>2 DEF sb_rand_varstr
  <2> HIDE DEF m
  <2> QED BY <2>1, <2>2, <2>3, SMT DEF Words
<1> QED BY <1>1, <1>2
=============================================================================
