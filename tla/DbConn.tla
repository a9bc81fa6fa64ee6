------------------------------- MODULE DbConn -------------------------------
(***************************************************************************)
(* db_driver.c: one connection, the result set embedded in it and its      *)
(* prepared statements, over the MySQL or the PostgreSQL driver.  A        *)
(* connection belongs to one thread, so every API call is one step; what   *)
(* the server answers is the environment's choice.  The client libraries   *)
(* are external: they allocate result objects (live) and store results     *)
(* inside prepared statements (stored), which the drivers must release.    *)
(***************************************************************************)
EXTENDS Integers, FiniteSets

CONSTANTS
  Stmts, NoStmt,   \* statement handles a script keeps, and NULL
  Results,         \* bound: client-library result objects that may be live
  NoResult,        \* a NULL rs->ptr
  MaxRows,         \* bound: rows of a result set
  MaxFields        \* bound: fields of a result set

ASSUME DbConnAssumption ==
  /\ NoStmt \notin Stmts /\ NoResult \notin Results
  /\ MaxRows \in Nat /\ MaxFields \in Nat

VARIABLES
  driver,    \* the driver in use: "mysql" or "pgsql"
  use_ps,    \* the driver's use_ps: server-side prepared statements
  state,     \* con->state; "freed" when there is no connection object
  error,     \* con->error
  rs,        \* con->rs
  stmt,      \* what each handle points to: "none" (freed), "ps", "emulated"
  live,      \* MYSQL_RES / PGresult objects not yet freed
  stored,    \* MYSQL_STMTs that hold a stored result
  link,      \* whether the client library has a session: "up", "closed"
  failing,   \* sb_globals.error
  fetched    \* rows fetched from the current result set so far

options == <<driver, use_ps>>
vars == <<driver, use_ps, state, error, rs, stmt, live, stored, link, failing, fetched>>

NoRs == [ptr |-> NoResult, statement |-> NoStmt, counter |-> "other",
         nrows |-> 0, nfields |-> 0, values |-> 0, row |-> 0]

Init ==
  /\ driver \in {"mysql", "pgsql"} /\ use_ps \in {0, 1}
  /\ state = "freed" /\ error = "none" /\ rs = NoRs
  /\ stmt = [s \in Stmts |-> "none"]
  /\ live = {} /\ stored = {} /\ link = "closed" /\ failing = 0 /\ fetched = 0

(* The result set, the library's results and the rows read: what calls     *)
(* pass through from the release of the old result to the new one.         *)
Now == [rs |-> rs, live |-> live, stored |-> stored, fetched |-> fetched]

Keep(d) ==
  /\ rs' = d.rs /\ live' = d.live /\ stored' = d.stored /\ fetched' = d.fetched

----------------------------------------------------------------------------
(* ops.free_results followed by what db_free_results_int() clears.         *)

(* "Is this a result set of a prepared statement?": what the test of       *)
(* rs->statement can give.  A handle that was closed is freed memory.      *)
OfStatement ==
  IF rs.statement = NoStmt THEN {FALSE}
  ELSE CASE stmt[rs.statement] = "ps" -> {TRUE}
         [] stmt[rs.statement] = "emulated" -> {FALSE}
         [] stmt[rs.statement] = "none" -> BOOLEAN

(* Mutant: db_free_results_int() leaves the array of values allocated.     *)
ClearedRs_KeepsValues == [rs EXCEPT !.ptr = NoResult, !.statement = NoStmt,
                                    !.nrows = 0, !.nfields = 0]

ClearedRs == [rs EXCEPT !.ptr = NoResult, !.statement = NoStmt, !.nrows = 0,
                        !.nfields = 0, !.values = 0]

(* Mutant: rs->ptr is not reset after mysql_free_result().                 *)
mysql_drv_free_results_KeepsPtr ==
  {[rs |-> [ClearedRs EXCEPT !.ptr = rs.ptr], fetched |-> fetched,
    live |-> IF s THEN live ELSE live \ {rs.ptr},
    stored |-> IF s THEN stored \ {rs.statement} ELSE stored] : s \in OfStatement}

mysql_drv_free_results ==
  {[rs |-> ClearedRs, fetched |-> fetched,
    live |-> IF s THEN live ELSE live \ {rs.ptr},
    stored |-> IF s THEN stored \ {rs.statement} ELSE stored] : s \in OfStatement}

pgsql_drv_free_results ==
  {[rs |-> [ClearedRs EXCEPT !.row = IF rs.ptr = NoResult THEN rs.row ELSE 0],
    fetched |-> fetched, live |-> live \ {rs.ptr}, stored |-> stored]}

db_free_results_int ==
  IF driver = "mysql" THEN mysql_drv_free_results ELSE pgsql_drv_free_results

(* Its return code: the PostgreSQL driver fails when there is no result.   *)
FreeFails == driver = "pgsql" /\ rs.ptr = NoResult

(* Mutant: calls do not release the open result set.                       *)
Released_Nothing == {Now}

(* What every call does first: release the result set that is open.  The   *)
(* early return for a failed release is never taken (ResultsTracked).      *)
Released == IF state = "result" THEN db_free_results_int ELSE {Now}
ReleaseFails == state = "result" /\ FreeFails

----------------------------------------------------------------------------
(* What the server answers to a statement.  "ignored": an error that the   *)
(* driver ignores (--mysql-ignore-errors; deadlock, serialization or       *)
(* unique violation in PostgreSQL); "lost": an ignored error that means    *)
(* the session is gone; "odd": a PostgreSQL status the driver has no case  *)
(* for.  Without a session MySQL calls only fail.                          *)
Answers ==
  IF driver = "pgsql" THEN {"select", "dml", "other", "ignored", "error", "odd"}
  ELSE IF link = "up" THEN {"select", "dml", "other", "ignored", "error", "lost"}
  ELSE {"error", "lost"}

NewResult == CHOOSE r \in Results : r \notin live

(* Driver calls: the data after the answer a to a statement, from data d.  *)
(* A prepared statement keeps its result inside itself and has no ptr.     *)
MySQL(d, a, s, rows, fields) ==
  CASE a = "select" /\ s # NoStmt ->
         [d EXCEPT !.rs.counter = "read", !.rs.nrows = rows, !.rs.nfields = fields,
                   !.stored = @ \union {s}, !.fetched = 0]
    [] a = "select" /\ s = NoStmt ->
         [d EXCEPT !.rs.counter = "read", !.rs.nrows = rows, !.rs.nfields = fields,
                   !.rs.ptr = NewResult, !.live = @ \union {NewResult}, !.fetched = 0]
    [] a = "dml" -> [d EXCEPT !.rs.counter = "write", !.rs.nrows = 1]
    [] a = "other" ->
         [d EXCEPT !.rs.counter = "other", !.rs.nrows = IF s = NoStmt THEN @ ELSE 0]
    [] a = "lost" -> [d EXCEPT !.rs.counter = "reconnect"]
    [] OTHER -> [d EXCEPT !.rs.counter = "error"]

PgSQL(d, a, rows, fields) ==
  CASE a = "select" ->
         [d EXCEPT !.rs.counter = "read", !.rs.nrows = rows, !.rs.nfields = fields,
                   !.rs.ptr = NewResult, !.live = @ \union {NewResult}, !.fetched = 0]
    [] a = "dml" ->
         [d EXCEPT !.rs.counter = "write", !.rs.nrows = 1, !.rs.ptr = NoResult]
    [] a = "other" ->
         [d EXCEPT !.rs.counter = "other", !.rs.nrows = 0, !.rs.ptr = NoResult]
    [] a = "odd" ->
         [d EXCEPT !.rs.counter = "error", !.rs.nrows = 0, !.rs.ptr = NoResult,
                   !.live = @ \union {NewResult}]
    [] OTHER ->
         [d EXCEPT !.rs.counter = "error", !.rs.nrows = 0, !.rs.ptr = NoResult]

(* ops.reconnect: close the session and try until there is a new one, or   *)
(* until the run fails.                                                    *)
Reconnected(up) ==
  \/ up /\ link' = "up" /\ failing' = failing
  \/ ~up /\ link' = "closed" /\ failing' = 1

(* The driver's verdict on an answer, and the session after it.            *)
Verdict(a) ==
  \/ a \in {"select", "dml", "other"} /\ error' = "none" /\ UNCHANGED <<link, failing>>
  \/ a = "ignored" /\ error' = "ignorable" /\ UNCHANGED <<link, failing>>
  \/ a \in {"error", "odd"} /\ error' = "fatal" /\ UNCHANGED <<link, failing>>
  \/ a = "lost" /\ error' = "ignorable" /\ Reconnected(TRUE)
  \/ a = "lost" /\ error' = "fatal" /\ Reconnected(FALSE)

(* The server answers the call on statement s (NoStmt for a plain query),  *)
(* from data d in which the old result set is released.                    *)
Answered(d, s) ==
  \E a \in Answers, rows \in 0 .. MaxRows, fields \in 1 .. MaxFields :
    /\ a \in {"select", "odd"} => live # Results
    /\ a # "select" => rows = 0 /\ fields = 1
    /\ Keep(IF driver = "mysql" THEN MySQL(d, a, s, rows, fields)
                                ELSE PgSQL(d, a, rows, fields))
    /\ state' = IF a = "select" THEN "result" ELSE "ready"
    /\ Verdict(a)

----------------------------------------------------------------------------
(* The calls of the SQL API.                                               *)

Open == state \in {"ready", "result"}

db_connection_create ==
  /\ state = "freed"
  /\ state' = "ready" /\ link' = "up" /\ error' = "none" /\ rs' = NoRs
  /\ stmt' = [s \in Stmts |-> "none"]
  /\ stored' = {} /\ fetched' = 0
  /\ UNCHANGED <<live, failing>>

(* db_connection_close(), also as the first half of db_connection_free().  *)
db_connection_close ==
  /\ Open
  /\ \E d \in Released : Keep(d)
  /\ state' = "invalid" /\ link' = "closed"
  /\ UNCHANGED <<error, stmt, failing>>

db_connection_free ==
  /\ state \in {"ready", "result", "invalid"}
  /\ \E d \in Released : Keep(d)
  /\ state' = "freed" /\ link' = "closed"
  /\ UNCHANGED <<error, stmt, failing>>

db_connection_reconnect ==
  /\ Open
  /\ \E d \in Released : Keep(d)
  /\ \/ Reconnected(TRUE) /\ state' = "ready"
     \/ Reconnected(FALSE) /\ state' = "invalid"
  /\ UNCHANGED <<error, stmt>>

(* Preparing does not release the open result set.  With MySQL a statement *)
(* that the server cannot prepare is emulated.                             *)
db_prepare(s) ==
  /\ Open /\ stmt[s] = "none"
  /\ \/ /\ \/ use_ps = 1 /\ link = "up" /\ stmt' = [stmt EXCEPT ![s] = "ps"]
           \/ use_ps = 0 /\ stmt' = [stmt EXCEPT ![s] = "emulated"]
           \/ /\ use_ps = 1 /\ driver = "mysql" /\ link = "up"
              /\ stmt' = [stmt EXCEPT ![s] = "emulated"]
        /\ UNCHANGED error
     \/ use_ps = 1 /\ error' = "fatal" /\ UNCHANGED stmt
  /\ UNCHANGED <<state, rs, live, stored, link, failing, fetched>>

(* The statement a driver call runs on: an emulated one is a plain query.  *)
Native(s) == IF stmt[s] = "ps" THEN s ELSE NoStmt

WithStatement(d, s) == [d EXCEPT !.rs.statement = s]

db_execute(s) ==
  /\ Open /\ stmt[s] # "none"
  /\ ~ReleaseFails
  /\ \E d \in Released : Answered(WithStatement(d, s), Native(s))
  /\ UNCHANGED stmt

db_query ==
  /\ Open /\ ~ReleaseFails
  /\ \E d \in Released : Answered(d, NoStmt)
  /\ UNCHANGED stmt

(* No further result: -1 from the MySQL library, or no such operation in   *)
(* the PostgreSQL driver.                                                  *)
NoMoreResults(d) ==
  /\ Keep(IF driver = "mysql" THEN [d EXCEPT !.rs.counter = "other"] ELSE d)
  /\ state' = "ready" /\ error' = "none"
  /\ UNCHANGED <<link, failing>>

db_next_result ==
  /\ Open /\ ~ReleaseFails
  /\ \E d \in Released :
       \/ NoMoreResults(d)
       \/ driver = "mysql" /\ Answered(d, NoStmt)
  /\ UNCHANGED stmt

db_stmt_next_result(s) ==
  /\ Open /\ stmt[s] # "none" /\ ~ReleaseFails
  /\ \E d \in Released :
       \/ NoMoreResults(WithStatement(d, s))
       \/ driver = "mysql" /\ Answered(WithStatement(d, s), Native(s))
  /\ UNCHANGED stmt

(* db_query() and db_next_result() on a closed connection.                 *)
UseClosed ==
  /\ state = "invalid" /\ error' = "fatal"
  /\ UNCHANGED <<state, rs, stmt, live, stored, link, failing, fetched>>

(* A row is there: the PostgreSQL driver counts in rs->row.ptr, the MySQL  *)
(* library in the result object; a stored statement result has none.       *)
RowLeft ==
  IF driver = "pgsql" THEN rs.row < rs.nrows
  ELSE rs.ptr # NoResult /\ fetched < rs.nrows

db_fetch_row ==
  /\ state = "result" /\ rs.nrows > 0
  /\ LET values == IF rs.values = 0 THEN rs.nfields ELSE rs.values
         pgrow == IF driver = "pgsql" /\ RowLeft THEN rs.row + 1 ELSE rs.row
     IN  rs' = [rs EXCEPT !.values = values, !.row = pgrow]
  /\ fetched' = IF RowLeft THEN fetched + 1 ELSE fetched
  /\ UNCHANGED <<state, error, stmt, live, stored, link, failing>>

db_free_results ==
  /\ state = "result"
  /\ \E d \in Released : Keep(d)
  /\ state' = "ready"
  /\ UNCHANGED <<error, stmt, link, failing>>

(* db_close(): mysql_stmt_close() drops what the statement has stored.     *)
db_close(s) ==
  /\ Open /\ stmt[s] # "none" /\ ~ReleaseFails
  /\ \E d \in Released : Keep([d EXCEPT !.stored = @ \ {s}])
  /\ state' = "ready"
  /\ stmt' = [stmt EXCEPT ![s] = "none"]
  /\ UNCHANGED <<error, link, failing>>

(* Another thread fails: sb_globals.error.                                 *)
OtherThreadFails ==
  /\ failing = 0 /\ failing' = 1
  /\ UNCHANGED <<state, error, rs, stmt, live, stored, link, fetched>>

Next ==
  /\ UNCHANGED options
  /\ \/ db_connection_create \/ db_connection_close \/ db_connection_free
     \/ db_connection_reconnect
     \/ \E s \in Stmts : \/ db_prepare(s) \/ db_execute(s)
                         \/ db_stmt_next_result(s) \/ db_close(s)
     \/ db_query \/ db_next_result \/ db_fetch_row \/ db_free_results
     \/ UseClosed \/ OtherThreadFails

Spec == Init /\ [][Next]_vars

----------------------------------------------------------------------------
RsType ==
  [ptr : Results \union {NoResult}, statement : Stmts \union {NoStmt},
   counter : {"other", "read", "write", "error", "reconnect"},
   nrows : Nat, nfields : Nat, values : Nat, row : Nat]

(* Every variable keeps the type of the field it models in db_conn_t,      *)
(* db_result_t and db_stmt_t.                                              *)
TypeOK ==
  /\ driver \in {"mysql", "pgsql"} /\ use_ps \in {0, 1}
  /\ state \in {"freed", "ready", "result", "invalid"}
  /\ error \in {"none", "ignorable", "fatal"}
  /\ rs \in RsType
  /\ stmt \in [Stmts -> {"none", "ps", "emulated"}]
  /\ live \subseteq Results /\ stored \subseteq Stmts
  /\ link \in {"up", "closed"} /\ failing \in {0, 1} /\ fetched \in Nat

(* The result set that rs designates: the object in rs->ptr, or the one    *)
(* stored in the MySQL prepared statement that rs->statement names.        *)
Designated ==
  \/ rs.ptr \in live
  \/ driver = "mysql" /\ rs.statement \in stored /\ stmt[rs.statement] = "ps"

(* The connection is in DB_CONN_RESULT_SET exactly while rs designates a   *)
(* result the client library still holds.  Calls release results only in   *)
(* that state, so otherwise a result would be leaked, or fetched from and  *)
(* freed after it is gone; and the release that each call starts with      *)
(* would fail (db_driver.c: con->state, rs->ptr, rs->statement).           *)
ResultsTracked ==
  /\ (state = "result") <=> Designated
  /\ rs.ptr # NoResult => rs.ptr \in live
  /\ ~ReleaseFails

(* A call gives up the result object in rs->ptr without freeing it only    *)
(* when rs->statement, set by db_execute() and left over by statements     *)
(* that return no result set, names a prepared or already closed           *)
(* statement: mysql_drv_free_results() then takes the result of a plain    *)
(* query for the statement's.                                              *)
ResultReleased ==
  [][rs.ptr # NoResult /\ rs'.ptr # rs.ptr /\ rs.ptr \in live'
       => /\ driver = "mysql" /\ rs.statement # NoStmt
          /\ stmt[rs.statement] # "emulated"]_vars

(* The array db_fetch_row() allocates on the first fetch has room for      *)
(* every field of the result set it is filled from, and the row number the *)
(* PostgreSQL driver keeps in rs->row.ptr counts the rows of this result   *)
(* set: nothing of an earlier, narrower or half-read result set remains.   *)
FetchSafe ==
  /\ rs.values # 0 => rs.values >= rs.nfields
  /\ driver = "pgsql" => rs.row = IF state = "result" THEN fetched ELSE 0
=============================================================================
