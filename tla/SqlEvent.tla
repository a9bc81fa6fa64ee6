------------------------------ MODULE SqlEvent ------------------------------
(***************************************************************************)
(* One worker thread of an SQL benchmark: the event loop thread_run() of   *)
(* sysbench.lua, which runs an event again when an ignorable SQL error     *)
(* interrupts it; check_error() of sysbench.sql.lua; and the events,       *)
(* the restart hook and the periodic reconnection of oltp_common.lua.      *)
(* The statements of an event are prepared once per session, so both ways  *)
(* of getting a new session have to prepare them again.                    *)
(*                                                                         *)
(* The client library and the server are external: how statements fail and *)
(* what becomes of the transaction is their choice.  A connection and its  *)
(* Lua state belong to one thread, and no state is shared here.            *)
(***************************************************************************)
EXTENDS Integers, FiniteSets

CONSTANTS
  NWork,        \* statements of an event between BEGIN and COMMIT
  Reconnects,   \* values of --reconnect
  MaxEvents,    \* bound: events of the run
  MaxErrors     \* bound: errors of the server

(* oltp_read_write.lua and its like with a transaction or --skip-trx, and  *)
(* select_random_points.lua, which brings its own thread_init().           *)
Scripts == {"transaction", "autocommit", "points"}

VARIABLES
  setup,         \* script, database driver, use_ps and --reconnect of the run
  at,            \* where the thread is
  next,          \* the next statement of the event
  sql_errno,     \* errdesc.sql_errno of the error being handled
  handles,       \* per statement: the session it was prepared in, 0 if freed
  session_id,    \* the number of the server session
  transactions,  \* the counter of check_reconnect()
  work,          \* statements of this event in effect, or in its transaction
  whole,         \* how often all the work of an event was committed
  doubtful,      \* commits that the server made and the thread saw fail
  counted,       \* events that sb_event_stop() has counted
  misused,       \* a freed handle, or one of another session, was used
  errors         \* errors so far

sqlVars == <<setup, at, next, sql_errno, handles, session_id, transactions, work, whole,
             doubtful, counted, misused, errors>>

Trx == setup.script = "transaction"
NWorks == IF setup.script = "points" THEN 1 ELSE NWork
Works == 1 .. NWorks

(* The statements in the order in which event() executes them.             *)
First == IF Trx THEN 0 ELSE 1
Last == NWorks + (IF Trx THEN 1 ELSE 0)
Statements == First .. Last

(* A statement that the driver emulates belongs to no session.             *)
Prepared == [s \in Statements |-> session_id]

SqlInit ==
  /\ setup \in [script : Scripts, driver : {"mysql", "pgsql"}, use_ps : BOOLEAN,
                reconnect : Reconnects]
  /\ at = "more" /\ next = 0 /\ sql_errno = "none" /\ session_id = 1
  /\ handles = Prepared
  /\ transactions = 0 /\ work = {} /\ whole = 0 /\ doubtful = 0 /\ counted = 0
  /\ misused = FALSE /\ errors = 0

----------------------------------------------------------------------------
(* thread_run(): the next event, or thread_done() when there is none.      *)
sb_event_start ==
  /\ at = "more" /\ counted < MaxEvents
  /\ at' = "event" /\ next' = First /\ work' = {}
  /\ UNCHANGED <<setup, sql_errno, handles, session_id, transactions, whole, doubtful,
                 counted, misused, errors>>

Freed == \E s \in Statements : handles[s] = 0

thread_done ==
  /\ at = "more" /\ at' = "done"
  /\ misused' = (misused \/ Freed)
  /\ handles' = [s \in Statements |-> 0]
  /\ UNCHANGED <<setup, next, sql_errno, session_id, transactions, work, whole, doubtful,
                 counted, errors>>

(* Server, external.  The effect of a statement that succeeds: BEGIN       *)
(* starts from nothing, the last statement makes the event complete.       *)
Effect ==
  IF next = 0 THEN {} ELSE IF next \in Works THEN work \union {next} ELSE work

Completes == next = Last /\ Effect = Works

Uses(s) ==
  misused' = (misused \/ handles[s] = 0 \/ (setup.use_ps /\ handles[s] # session_id))

(* statement_methods.execute() when the server has no complaint.           *)
Execute ==
  /\ at = "event" /\ next <= Last
  /\ Uses(next)
  /\ work' = Effect /\ whole' = IF Completes THEN whole + 1 ELSE whole
  /\ next' = next + 1
  /\ UNCHANGED <<setup, at, sql_errno, handles, session_id, transactions, doubtful,
                 counted, errors>>

(* check_error(): ignorable errors raise RESTART_EVENT, others end the     *)
(* thread.  Neither a fatal error nor an API error is caught.              *)
Raises(e) ==
  /\ errors < MaxErrors /\ errors' = errors + 1
  /\ sql_errno' = e /\ at' = IF e = "fatal" THEN "failed" ELSE "restart"

(* A deadlock, for which the server (MySQL) or the driver (PostgreSQL)     *)
(* rolls the transaction back; a MySQL lock wait timeout, which leaves the *)
(* transaction open; and an error that is not in --mysql-ignore-errors.    *)
ExecuteFails(e) ==
  /\ at = "event" /\ next <= Last
  /\ e = "timeout" => setup.driver = "mysql" /\ next \in Works
  /\ Uses(next) /\ Raises(e)
  /\ work' = IF e = "deadlock" /\ Trx THEN {} ELSE work
  /\ UNCHANGED <<setup, next, handles, session_id, transactions, whole, doubtful, counted>>

(* The session is lost and the error ignored: the driver's check_error()   *)
(* reconnects.  What the statement did is unknown: it may have completed   *)
(* the event.  Without a new session the error is fatal.                   *)
SessionLost ==
  /\ at = "event" /\ next <= Last /\ setup.driver = "mysql"
  /\ Uses(next)
  /\ \E done \in BOOLEAN :
       /\ done => Completes
       /\ whole' = (IF done THEN whole + 1 ELSE whole)
       /\ doubtful' = (IF done THEN doubtful + 1 ELSE doubtful)
  /\ \/ Raises("lost") /\ session_id' = session_id + 1
     \/ Raises("fatal") /\ UNCHANGED session_id
  /\ work' = IF Trx THEN {} ELSE work
  /\ UNCHANGED <<setup, next, handles, transactions, counted>>

----------------------------------------------------------------------------
(* close_statements() and prepare_statements() in session n: all of it, or *)
(* up to a statement that cannot be prepared, which is a fatal error; the  *)
(* script's tables then keep handles that are freed.  The scripts without  *)
(* those tables raise an error before anything is closed.                  *)
Reprepares(n, then) ==
  \/ /\ setup.script # "points"
     /\ misused' = (misused \/ Freed)
     /\ \/ /\ handles' = [s \in Statements |-> n] /\ at' = then
           /\ UNCHANGED <<sql_errno, errors>>
        \/ \E k \in Statements :
             /\ handles' = [s \in Statements |-> IF s < k THEN n ELSE 0]
             /\ setup.use_ps /\ Raises("fatal")
  \/ /\ setup.script = "points" /\ at' = "failed" /\ sql_errno' = "fatal"
     /\ UNCHANGED <<handles, misused, errors>>

(* Mutant of before_restart_event: the statements of the lost session are  *)
(* kept.                                                                   *)
before_restart_event_Keeps ==
  at' = "event" /\ UNCHANGED <<sql_errno, handles, misused, errors>>

(* sysbench.hooks.before_restart_event(): other errors keep the session.   *)
before_restart_event ==
  \/ sql_errno = "lost" /\ Reprepares(session_id, "event")
  \/ sql_errno # "lost" /\ at' = "event" /\ UNCHANGED <<sql_errno, handles, misused, errors>>

(* Mutant of RestartAt: the event goes on with the statement that failed.  *)
RestartAt_SameStatement == next

(* The loop of thread_run(): the whole event is run again.                 *)
RestartAt == First

Restart ==
  /\ at = "restart"
  /\ before_restart_event
  /\ next' = RestartAt
  /\ work' = IF Trx THEN work ELSE {}
  /\ UNCHANGED <<setup, session_id, transactions, whole, doubtful, counted>>

(* check_reconnect(), the last call of event().                            *)
check_reconnect ==
  /\ at = "event" /\ next = Last + 1
  /\ LET n == transactions + 1
         due == setup.reconnect > 0 /\ n % setup.reconnect = 0 IN
     /\ transactions' = IF setup.reconnect > 0 THEN n ELSE transactions
     /\ \/ /\ due /\ Reprepares(session_id + 1, "stop")
           /\ session_id' = IF setup.script = "points" THEN session_id ELSE session_id + 1
        \/ /\ due /\ setup.script # "points" /\ Raises("fatal")
           /\ misused' = (misused \/ Freed)
           /\ handles' = [s \in Statements |-> 0] /\ UNCHANGED session_id
        \/ ~due /\ at' = "stop" /\ UNCHANGED <<sql_errno, handles, misused, errors, session_id>>
  /\ next' = 0
  /\ UNCHANGED <<setup, work, whole, doubtful, counted>>

sb_event_stop ==
  /\ at = "stop" /\ at' = "more" /\ counted' = counted + 1
  /\ UNCHANGED <<setup, next, sql_errno, handles, session_id, transactions, work, whole,
                 doubtful, misused, errors>>

SqlNext ==
  \/ sb_event_start \/ thread_done \/ Execute \/ SessionLost \/ Restart
  \/ \E e \in {"deadlock", "timeout", "fatal"} : ExecuteFails(e)
  \/ check_reconnect \/ sb_event_stop

SqlSpec == SqlInit /\ [][SqlNext]_sqlVars

----------------------------------------------------------------------------
(* No statement is executed or closed through a handle that was freed, and *)
(* none through a handle of a session that is gone, however lost sessions, *)
(* restarts, --reconnect and failed preparations follow each other         *)
(* (close_statements(), prepare_statements(), before_restart_event()).     *)
HandlesCurrent == ~misused

(* Every event that is counted was committed as a whole, and no event more *)
(* than once, except one whose commit succeeded while the answer was lost  *)
(* (thread_run() runs it again) and the one that is not counted yet.       *)
EventsCommitted ==
  /\ counted <= whole
  /\ whole <= counted + doubtful + (IF at = "more" THEN 0 ELSE 1)
=============================================================================
