----------------------------- MODULE BulkInsert -----------------------------
(***************************************************************************)
(* db_bulk_insert_init(), _next() and _done() of db_driver.c: rows are     *)
(* collected in a buffer of fixed size behind the text of the INSERT,      *)
(* flushed when the next row does not fit, and committed every             *)
(* ROWS_BEFORE_COMMIT rows by drivers that need it.  The caller follows    *)
(* sysbench.sql.lua: init, rows, done, and a call that reports an error    *)
(* ends the script.  The text of a row is abstracted to its length.        *)
(***************************************************************************)
EXTENDS Integers, Sequences

CONSTANTS
  BufLen,        \* BULK_PACKET_SIZE
  QueryLens,     \* lengths of INSERT texts
  RowLens,       \* lengths of rows
  CommitMaxes,   \* ROWS_BEFORE_COMMIT, and 0 for drivers that commit by themselves
  MaxGiven,      \* bound: rows given
  MaxBulks       \* bound: bulk inserts

ASSUME BulkAssumption ==
  /\ BufLen \in Nat \ {0} /\ CommitMaxes \subseteq Nat
  /\ QueryLens \subseteq Nat /\ RowLens \subseteq Nat

VARIABLES
  bulk_commit_max, \* the same for all bulk inserts: it depends on the driver only
  con_state,     \* con->state
  bulk,          \* is there a bulk_buffer: 0 or 1
  bulk_values, bulk_ptr, bulk_cnt, bulk_commit_cnt,
  rows,          \* the rows in bulk_buffer
  given,         \* number of rows that bulk_insert_next() has accepted
  uncommitted,   \* rows the server has executed
  committed,     \* rows the server has committed
  nbulks,
  status         \* how the last call ended

bulk_vars ==
  <<bulk_commit_max, con_state, bulk, bulk_values, bulk_ptr, bulk_cnt, bulk_commit_cnt,
    rows, given, uncommitted, committed, nbulks, status>>
server == <<uncommitted, committed, bulk_commit_cnt>>

Statuses == {"ok", "too_long", "insert_failed", "commit_failed"}

BulkInit ==
  /\ bulk_commit_max \in CommitMaxes
  /\ con_state = "READY" /\ bulk = 0
  /\ bulk_values = 0 /\ bulk_ptr = 0 /\ bulk_cnt = 0 /\ bulk_commit_cnt = 0
  /\ rows = <<>> /\ given = 0 /\ uncommitted = <<>> /\ committed = <<>>
  /\ nbulks = 0 /\ status = "ok"

(* A result set that is still open is freed by the next call.              *)
Usable == status = "ok" /\ con_state # "INVALID" /\ con_state' = "READY"

BulkInsertInit(len) ==
  /\ Usable /\ bulk = 0 /\ nbulks < MaxBulks
  /\ nbulks' = nbulks + 1
  /\ IF len + 1 > BufLen
     THEN status' = "too_long" /\ UNCHANGED <<bulk, bulk_values, bulk_ptr, bulk_cnt,
                                              bulk_commit_cnt, rows>>
     ELSE /\ bulk' = 1 /\ rows' = <<>> /\ bulk_cnt' = 0 /\ bulk_commit_cnt' = 0
          /\ bulk_values' = len /\ bulk_ptr' = len
          /\ UNCHANGED status
  /\ UNCHANGED <<given, uncommitted, committed>>

Comma(cnt) == IF cnt > 0 THEN 1 ELSE 0

(* Mutant of Fits: no space for the comma.                                 *)
Fits_NoComma(len) == bulk_ptr + len + 1 <= BufLen

(* "Reserve space for '\0' and ','" *)
Fits(len) == bulk_ptr + len + 1 + Comma(bulk_cnt) <= BufLen

(* Mutant of CommitDue: the end of the bulk insert is no reason to commit. *)
CommitDue_NotAtEnd(isLast) == bulk_commit_max # 0 /\ bulk_commit_cnt + bulk_cnt >= bulk_commit_max

CommitDue(isLast) ==
  bulk_commit_max # 0 /\ (isLast \/ bulk_commit_cnt + bulk_cnt >= bulk_commit_max)

(* db_bulk_do_insert() when the INSERT and, if it is due, the COMMIT work. *)
FlushOk(isLast) ==
  IF bulk_commit_max # 0 /\ ~CommitDue(isLast)
  THEN /\ uncommitted' = uncommitted \o rows
       /\ bulk_commit_cnt' = bulk_commit_cnt + bulk_cnt
       /\ UNCHANGED committed
  ELSE /\ committed' = committed \o (uncommitted \o rows)
       /\ uncommitted' = <<>>
       /\ bulk_commit_cnt' = IF bulk_commit_max = 0 THEN bulk_commit_cnt ELSE 0

(* ... and when one of them does not: the buffer is left as it is.         *)
FlushFails(isLast) ==
  \/ status' = "insert_failed" /\ UNCHANGED server
  \/ /\ CommitDue(isLast) /\ status' = "commit_failed"
     /\ uncommitted' = uncommitted \o rows
     /\ bulk_commit_cnt' = bulk_commit_cnt + bulk_cnt
     /\ UNCHANGED committed

Buffering == Usable /\ bulk = 1 /\ given < MaxGiven

AddRow(len) ==
  /\ Buffering /\ Fits(len)
  /\ bulk_ptr' = bulk_ptr + len + Comma(bulk_cnt)
  /\ bulk_cnt' = bulk_cnt + 1
  /\ given' = given + 1 /\ rows' = Append(rows, given')
  /\ UNCHANGED <<bulk, bulk_values, server, nbulks, status>>

RejectRow(len) ==
  /\ Buffering /\ ~Fits(len) /\ bulk_cnt = 0
  /\ status' = "too_long"
  /\ UNCHANGED <<bulk, bulk_values, bulk_ptr, bulk_cnt, server, rows, given, nbulks>>

(* Mutant of FlushAndAddRow: the buffer is not emptied by the flush.       *)
FlushAndAddRow_NotEmptied(len) ==
  /\ Buffering /\ ~Fits(len) /\ bulk_cnt > 0
  /\ FlushOk(FALSE)
  /\ bulk_ptr' = bulk_values + len
  /\ bulk_cnt' = 1
  /\ given' = given + 1 /\ rows' = Append(rows, given')
  /\ UNCHANGED <<bulk, bulk_values, nbulks, status>>

(* The buffer is flushed and the row becomes its first row. *)
FlushAndAddRow(len) ==
  /\ Buffering /\ ~Fits(len) /\ bulk_cnt > 0
  /\ FlushOk(FALSE)
  /\ bulk_ptr' = bulk_values + len
  /\ bulk_cnt' = 1
  /\ given' = given + 1 /\ rows' = <<given'>>
  /\ UNCHANGED <<bulk, bulk_values, nbulks, status>>

FlushRejected(len) ==
  /\ Buffering /\ ~Fits(len) /\ bulk_cnt > 0
  /\ FlushFails(FALSE)
  /\ UNCHANGED <<bulk, bulk_values, bulk_ptr, bulk_cnt, rows, given, nbulks>>

(* With an empty buffer there is no query, so a result set stays open.     *)
DoneEmpty ==
  /\ status = "ok" /\ con_state # "INVALID" /\ bulk = 1 /\ bulk_cnt = 0
  /\ bulk' = 0
  /\ UNCHANGED <<con_state, bulk_values, bulk_ptr, bulk_cnt, server, rows, given, nbulks, status>>

DoneFlush ==
  /\ Usable /\ bulk = 1 /\ bulk_cnt > 0
  /\ FlushOk(TRUE)
  /\ bulk' = 0 /\ bulk_ptr' = bulk_values /\ bulk_cnt' = 0 /\ rows' = <<>>
  /\ UNCHANGED <<bulk_values, given, nbulks, status>>

DoneFails ==
  /\ Usable /\ bulk = 1 /\ bulk_cnt > 0
  /\ FlushFails(TRUE)
  /\ UNCHANGED <<bulk, bulk_values, bulk_ptr, bulk_cnt, rows, given, nbulks>>

(* Another query of the script leaves a result set; a bulk insert may go   *)
(* on after that.                                                          *)
OtherQuery ==
  /\ status = "ok" /\ con_state = "READY"
  /\ con_state' = "RESULT_SET"
  /\ UNCHANGED <<bulk, bulk_values, bulk_ptr, bulk_cnt, server, rows, given, nbulks, status>>

(* db_connection_close() in the middle of a bulk insert. *)
Close ==
  /\ status = "ok" /\ con_state # "INVALID"
  /\ con_state' = "INVALID"
  /\ UNCHANGED <<bulk, bulk_values, bulk_ptr, bulk_cnt, server, rows, given, nbulks, status>>

(* From then on rows are accepted and dropped, and only the query that     *)
(* _done() makes reports an error.                                         *)
RowOnClosed ==
  /\ status = "ok" /\ con_state = "INVALID" /\ given < MaxGiven
  /\ given' = given + 1
  /\ UNCHANGED <<con_state, bulk, bulk_values, bulk_ptr, bulk_cnt, server, rows, nbulks, status>>

DoneOnClosed ==
  /\ status = "ok" /\ con_state = "INVALID" /\ bulk = 1
  /\ IF bulk_cnt = 0 THEN bulk' = 0 /\ UNCHANGED status
                     ELSE status' = "insert_failed" /\ UNCHANGED bulk
  /\ UNCHANGED <<con_state, bulk_values, bulk_ptr, bulk_cnt, server, rows, given, nbulks>>

BulkNext ==
  /\ UNCHANGED bulk_commit_max
  /\ \/ \E len \in QueryLens : BulkInsertInit(len)
     \/ \E len \in RowLens : AddRow(len) \/ RejectRow(len) \/ FlushAndAddRow(len)
                               \/ FlushRejected(len)
     \/ DoneEmpty \/ DoneFlush \/ DoneFails \/ OtherQuery \/ Close
     \/ RowOnClosed \/ DoneOnClosed

BulkSpec == BulkInit /\ [][BulkNext]_bulk_vars

----------------------------------------------------------------------------
(* The types of the connection's fields. *)
BulkTypeOK ==
  /\ bulk_commit_max \in CommitMaxes
  /\ con_state \in {"READY", "RESULT_SET", "INVALID"} /\ bulk \in {0, 1}
  /\ bulk_values \in Nat /\ bulk_ptr \in Nat /\ bulk_cnt \in Nat
  /\ bulk_commit_cnt \in Nat /\ given \in Nat /\ nbulks \in Nat
  /\ rows \in Seq(Nat) /\ uncommitted \in Seq(Nat) /\ committed \in Seq(Nat)
  /\ status \in Statuses

(* c, u and b together hold the rows 1 .. n in order. *)
InOrder(c, u, b, n) == /\ Len(c) + Len(u) + Len(b) = n
                       /\ c \o (u \o b) = [i \in 1 .. n |-> i]

(* What was accepted is committed, executed or in the buffer, every row    *)
(* once and in order, across flushes, commits and calls that fail (after a *)
(* COMMIT that fails nothing can be said of the rows before it).           *)
RowsInOrder ==
  con_state # "INVALID" /\ status # "commit_failed" =>
    InOrder(committed, uncommitted, rows, given)

(* The text in the buffer and the '\0' behind it fit into the buffer.      *)
BufferFits == bulk = 1 => bulk_ptr + 1 <= BufLen

(* Once bulk_insert_done() has succeeded every accepted row is committed,  *)
(* although a bulk insert with an empty buffer commits nothing.            *)
DoneCommitsAll ==
  con_state # "INVALID" /\ status = "ok" /\ bulk = 0 =>
    uncommitted = <<>> /\ Len(committed) = given

(* db_driver.h: bulk_commit_cnt is the "Current value of uncommitted rows" *)
(* and bulk_commit_max their "Maximum value": they agree with the server   *)
(* whatever the sizes of the batches were.                                 *)
CommitCountExact ==
  status = "ok" /\ bulk_commit_max # 0 =>
    bulk_commit_cnt = Len(uncommitted) /\ bulk_commit_cnt < bulk_commit_max
============================================================================
