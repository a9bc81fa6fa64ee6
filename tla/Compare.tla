------------------------------ MODULE Compare ------------------------------
(***************************************************************************)
(* drv_compare.c: the driver that runs every statement on several MySQL    *)
(* servers, one after the other, and compares what they answer.  Each      *)
(* worker has one connection object with a session on every server.  A     *)
(* call visits the servers in turn and other workers run in between.  The  *)
(* servers are external: they hold the writes they have executed and       *)
(* answer a SELECT with what they hold.                                    *)
(***************************************************************************)
EXTENDS Integers, Sequences, FiniteSets, Functions, TLC

CONSTANTS
  Threads,     \* worker threads
  N,           \* entries of --mysql-host, --mysql-user and --mysql-password
  MaxWrites,   \* bound: writes a worker issues
  MaxFaults    \* bound: server errors, wrong answers and requested reconnects

ASSUME CompareAssumption ==
  /\ IsFiniteSet(Threads) /\ N \in Nat \ {0}
  /\ MaxWrites \in Nat /\ MaxFaults \in Nat

Servers == 0 .. N - 1

(* A buffer that no row was printed into, and an answer a server may give  *)
(* instead of the right one.  Answers that print alike (NULL is printed    *)
(* like an empty string) count as one answer.                              *)
Unset == << <<"unset", 0>> >>
Wrong == << <<"wrong", 0>> >>

VARIABLES
  ignored,    \* args.ignored_errors
  use_ps,  \* use_ps
  prepared,   \* statements that the script, the same for all workers, prepares
  session,    \* session[w][i]: "none", "up" or "down" (the server dropped it)
  errno,      \* errno[w][i]: mysql_errno() of connection i
  stmt,      \* the prepared statement of a worker, NoHandle when there is none
  call,       \* the call a worker is in, with the answers compared so far
  verdict,    \* what the worker's last call returned
  mismatch,   \* connections whose answer the last comparison printed as different
  written,    \* the writes a server has executed, in order
  failing,   \* sb_globals.error
  crashed,    \* the process was killed
  issued,     \* writes each worker has issued
  faults,     \* errors and wrong answers so far
  failed,     \* history: some call has returned an error
  lied,       \* history: some answer was wrong
  overlapped  \* history: a call ran while another worker's write was under way

options == <<ignored, use_ps, prepared>>
history == <<failed, lied, overlapped>>
compareVars ==
  <<options, session, errno, stmt, call, verdict, mismatch, written,
    failing, crashed, issued, faults, history>>

NoStmt == [kind |-> "none", handle |-> [i \in Servers |-> "null"]]
NoAnswers == [i \in Servers |-> Unset]
Idle == [op |-> "idle", kind |-> "none", i |-> 0, got |-> NoAnswers]

(* mysql_drv_init(): the error numbers in --mysql-ignore-errors, and       *)
(* server-side statements unless --db-ps-mode=disable.                     *)
CompareInit ==
  /\ ignored \in {{"deadlock"}, {"deadlock", "lost"}, {"all"}}
  /\ use_ps \in BOOLEAN
  /\ prepared \in {{}, {"select"}, {"select", "write", "control"}}
  /\ session = [w \in Threads |-> [i \in Servers |-> "none"]]
  /\ errno = [w \in Threads |-> [i \in Servers |-> "none"]]
  /\ stmt = [w \in Threads |-> NoStmt]
  /\ call = [w \in Threads |-> Idle]
  /\ verdict = [w \in Threads |-> "none"]
  /\ mismatch = {}
  /\ written = [i \in Servers |-> <<>>]
  /\ failing = FALSE /\ crashed = FALSE
  /\ issued = [w \in Threads |-> 0] /\ faults = 0
  /\ failed = FALSE /\ lied = FALSE /\ overlapped = FALSE

Connected(w) == \A i \in Servers : session[w][i] # "none"

(* A thread makes no more calls after a fatal error, which ends the        *)
(* script, or after it has disconnected, which it does last.               *)
Free(w) == ~crashed /\ call[w].op = "idle" /\ verdict[w] \in {"none", "ignorable"}

(* The process is killed: nothing of it is left but what the servers hold. *)
Crash ==
  /\ crashed' = TRUE
  /\ session' = [w \in Threads |-> [i \in Servers |-> "none"]]
  /\ errno' = [w \in Threads |-> [i \in Servers |-> "none"]]
  /\ stmt' = [w \in Threads |-> NoStmt]
  /\ call' = [w \in Threads |-> Idle]
  /\ verdict' = [w \in Threads |-> "none"]
  /\ mismatch' = {}

----------------------------------------------------------------------------
(* Connections.                                                            *)

(* mysql_real_connect() succeeds for the servers S.                        *)
mysql_drv_real_connect(w, S) ==
  /\ session' = [session EXCEPT ![w] = [i \in Servers |-> IF i \in S THEN "up" ELSE @[i]]]
  /\ errno' = [errno EXCEPT ![w] = [i \in Servers |-> IF i \in S THEN "none" ELSE @[i]]]

(* All of mysql_drv_connect() is under pos_mutex.  A host that cannot be   *)
(* reached makes the connection object go away.                            *)
mysql_drv_connect(w) ==
  /\ Free(w) /\ ~Connected(w)
  /\ \/ /\ mysql_drv_real_connect(w, Servers)
        /\ UNCHANGED <<failing, failed, faults>>
     \/ /\ faults < MaxFaults
        /\ failing' = TRUE /\ failed' = TRUE /\ faults' = faults + 1
        /\ UNCHANGED <<session, errno>>
  /\ UNCHANGED <<options, stmt, call, verdict, mismatch, written, crashed,
                 issued, lied, overlapped>>

mysql_drv_disconnect(w) ==
  /\ Free(w) /\ Connected(w) /\ stmt[w] = NoStmt
  /\ session' = [session EXCEPT ![w] = [i \in Servers |-> "none"]]
  /\ errno' = [errno EXCEPT ![w] = [i \in Servers |-> "none"]]
  /\ verdict' = [verdict EXCEPT ![w] = "done"]
  /\ mismatch' = {}
  /\ UNCHANGED <<options, stmt, call, written, failing, crashed, issued, faults, history>>

(* One server of mysql_drv_reconnect(): close the session and try again    *)
(* until there is a new one, or the run has failed.  mysql_close() frees   *)
(* a handle that came from mysql_init(NULL), so going on to use it may end *)
(* the process.  Statements prepared in the old session are detached.      *)
ReconnectStep(w) ==
  LET c == call[w] IN
  /\ ~crashed /\ c.op = "reconnect"
  /\ \/ /\ mysql_drv_real_connect(w, {c.i})
        /\ stmt' = [stmt EXCEPT ![w].handle[c.i] = IF @ = "ok" THEN "stale" ELSE @]
        /\ IF c.i + 1 < N
           THEN call' = [call EXCEPT ![w].i = @ + 1] /\ UNCHANGED verdict
           ELSE call' = [call EXCEPT ![w] = Idle]
                /\ verdict' = [verdict EXCEPT ![w] = "ignorable"]
        /\ UNCHANGED <<mismatch, crashed>>
     \/ /\ failing
        /\ session' = [session EXCEPT ![w][c.i] = "down"]
        /\ call' = [call EXCEPT ![w] = Idle]
        /\ verdict' = [verdict EXCEPT ![w] = "fatal"]
        /\ UNCHANGED <<errno, stmt, mismatch, crashed>>
     \/ Crash
  /\ UNCHANGED <<options, written, failing, issued, faults, history>>

(* db_connection_reconnect(): the same for a script that asks for it.      *)
mysql_drv_reconnect(w) ==
  /\ Free(w) /\ Connected(w) /\ faults < MaxFaults
  /\ call' = [call EXCEPT ![w] = [Idle EXCEPT !.op = "reconnect"]]
  /\ faults' = faults + 1
  /\ UNCHANGED <<options, session, errno, stmt, verdict, mismatch, written,
                 failing, crashed, issued, history>>

----------------------------------------------------------------------------
(* Statements.                                                             *)

(* A statement is prepared on every server or on none; one that a server   *)
(* cannot prepare is marked emulated, which no later call supports.        *)
mysql_drv_prepare(w, k) ==
  /\ Free(w) /\ Connected(w) /\ k \in prepared /\ stmt[w] = NoStmt
  /\ \/ /\ ~use_ps \/ k = "control"
        /\ stmt' = [stmt EXCEPT ![w] = [NoStmt EXCEPT !.kind = "emulated"]]
        /\ UNCHANGED <<verdict, failed, faults>>
     \/ /\ use_ps /\ \A i \in Servers : session[w][i] = "up"
        /\ stmt' = [stmt EXCEPT ![w] = [kind |-> k, handle |-> [i \in Servers |-> "ok"]]]
        /\ UNCHANGED <<verdict, failed, faults>>
     \/ /\ use_ps
        /\ \/ (\E i \in Servers : session[w][i] = "down") /\ UNCHANGED faults
           \/ faults < MaxFaults /\ faults' = faults + 1
        /\ verdict' = [verdict EXCEPT ![w] = "fatal"] /\ failed' = TRUE
        /\ UNCHANGED stmt
  /\ UNCHANGED <<options, session, errno, call, mismatch, written, failing,
                 crashed, issued, lied, overlapped>>

(* mysql_drv_close() hands the array of statements to mysql_stmt_close()   *)
(* as if it were one statement.                                            *)
mysql_drv_close(w) ==
  /\ Free(w) /\ stmt[w] # NoStmt
  /\ \/ /\ stmt' = [stmt EXCEPT ![w] = NoStmt]
        /\ UNCHANGED <<session, errno, call, verdict, mismatch, crashed>>
     \/ Crash
  /\ UNCHANGED <<options, written, failing, issued, faults, history>>

(* mysql_drv_free_results() does the same with mysql_stmt_free_result();   *)
(* when the process survives it nothing has changed.                       *)
mysql_drv_free_results(w) ==
  /\ Free(w) /\ stmt[w].kind \in {"select", "write"}
  /\ Crash
  /\ UNCHANGED <<options, written, failing, issued, faults, history>>

----------------------------------------------------------------------------
(* Running a statement on every server.                                    *)

Busy(k) == {v \in Threads : call[v].op # "idle" /\ call[v].kind \in k}

Begin(w, op, k) ==
  /\ call' = [call EXCEPT ![w] = [Idle EXCEPT !.op = op, !.kind = k]]
  /\ mismatch' = {}
  /\ issued' = IF k = "write" THEN [issued EXCEPT ![w] = @ + 1] ELSE issued
  /\ overlapped' = (overlapped \/ Busy({"write"}) # {}
                      \/ (k = "write" /\ Busy({"write", "select"}) # {}))

CallQuery(w, k) ==
  /\ Free(w) /\ Connected(w) /\ k \notin prepared
  /\ k = "write" => issued[w] < MaxWrites
  /\ Begin(w, "query", k)
  /\ UNCHANGED <<options, session, errno, stmt, verdict, written, failing,
                 crashed, faults, failed, lied>>

(* mysql_drv_execute() refuses an emulated statement, and one without      *)
(* result metadata that is no DML statement: BEGIN or COMMIT.  What it     *)
(* returns for the latter, -1, is none of the error codes.                 *)
CallExecute(w) ==
  LET k == stmt[w].kind IN
  /\ Free(w) /\ stmt[w] # NoStmt
  /\ \/ /\ k \in {"emulated", "control"}
        /\ verdict' = [verdict EXCEPT ![w] = IF k = "emulated" THEN "fatal" ELSE "-1"]
        /\ failed' = TRUE
        /\ UNCHANGED <<call, mismatch, issued, overlapped>>
     \/ /\ k \in {"select", "write"}
        /\ k = "write" => issued[w] < MaxWrites
        /\ Begin(w, "execute", k)
        /\ UNCHANGED <<verdict, failed>>
  /\ UNCHANGED <<options, session, errno, stmt, written, failing, crashed,
                 faults, lied>>

(* check_error() starts at connection 0 and returns from its first turn,   *)
(* whichever connection failed.                                            *)
Blamed(i) == 0

Ignores(e) == e \in ignored \/ "all" \in ignored

(* check_error() after connection i failed with en the error numbers.      *)
CheckError(w, i, en) ==
  LET e == en[w][Blamed(i)] IN
  /\ errno' = en /\ failed' = TRUE
  /\ \/ /\ Ignores(e) /\ e = "lost"
        /\ call' = [call EXCEPT ![w] = [Idle EXCEPT !.op = "reconnect"]]
        /\ UNCHANGED verdict
     \/ /\ ~(Ignores(e) /\ e = "lost")
        /\ call' = [call EXCEPT ![w] = Idle]
        /\ verdict' = [verdict EXCEPT ![w] = IF Ignores(e) THEN "ignorable" ELSE "fatal"]

Usable(w, i) ==
  /\ session[w][i] = "up"
  /\ call[w].op = "execute" => stmt[w].handle[i] = "ok"

(* What is printed into the buffer of a connection: mysql_drv_execute()    *)
(* prints rows only, mysql_drv_query() the field names as well.            *)
Printed(op, answer) == IF op = "execute" /\ answer = <<>> THEN Unset ELSE answer

Executes(w, i) ==
  written' = IF call[w].kind = "write"
             THEN [written EXCEPT ![i] = Append(@, <<w, issued[w]>>)] ELSE written

(* Mutant: a statement that is not a SELECT ends the loop.                 *)
NextServer_Break(k, i) == IF k = "write" THEN N ELSE i + 1

NextServer(k, i) == i + 1

(* One turn of the loop over the connections: server i runs the statement. *)
(* When the session is lost the write may have been executed.              *)
ServerAnswers(w) ==
  LET c == call[w] IN
  /\ ~crashed /\ c.op \in {"query", "execute"} /\ c.i < N /\ Usable(w, c.i)
  /\ Executes(w, c.i)
  /\ errno' = [errno EXCEPT ![w][c.i] = "none"]
  /\ \/ /\ call' = [call EXCEPT ![w].i = NextServer(c.kind, @),
                      ![w].got[c.i] = IF c.kind = "select"
                                      THEN Printed(c.op, written[c.i]) ELSE Unset]
        /\ UNCHANGED <<lied, faults>>
     \/ /\ c.kind = "select" /\ faults < MaxFaults
        /\ call' = [call EXCEPT ![w].i = NextServer(c.kind, @), ![w].got[c.i] = Wrong]
        /\ lied' = TRUE /\ faults' = faults + 1
  /\ UNCHANGED <<options, session, stmt, verdict, mismatch, failing, crashed,
                 issued, failed, overlapped>>

ServerFails(w) ==
  LET c == call[w] IN
  /\ ~crashed /\ c.op \in {"query", "execute"} /\ c.i < N
  /\ \/ /\ Usable(w, c.i) /\ faults < MaxFaults /\ faults' = faults + 1
        /\ \/ \E e \in {"deadlock", "other"} : CheckError(w, c.i, [errno EXCEPT ![w][c.i] = e])
              /\ UNCHANGED <<session, written>>
           \/ /\ CheckError(w, c.i, [errno EXCEPT ![w][c.i] = "lost"])
              /\ session' = [session EXCEPT ![w][c.i] = "down"]
              /\ (UNCHANGED written \/ Executes(w, c.i))
     \/ /\ session[w][c.i] = "down"
        /\ CheckError(w, c.i, [errno EXCEPT ![w][c.i] = "lost"])
        /\ UNCHANGED <<session, written, faults>>
     \/ /\ session[w][c.i] = "up" /\ ~Usable(w, c.i)
        /\ CheckError(w, c.i, errno)
        /\ UNCHANGED <<session, written, faults>>
  /\ UNCHANGED <<options, stmt, mismatch, failing, crashed, issued, lied, overlapped>>

(* Mutant: each answer is compared with the one before it.                 *)
Differs_Neighbour(got, j) == got[j] # got[j - 1]

Differs(got, j) == got[j] # got[0]

(* The comparison after the loop.  strcmp() on a buffer that nothing was   *)
(* printed into may give anything.  mysql_drv_execute() prints an integer  *)
(* as the bytes before its first zero byte, so different answers to a      *)
(* prepared SELECT may print alike.                                        *)
Return(w) ==
  LET c == call[w]
      Others == {j \in Servers : j > 0 /\ c.kind = "select"}
      Surely == {j \in Others : c.got[j] # Unset /\ c.got[0] # Unset}
  IN
  /\ ~crashed /\ c.op \in {"query", "execute"} /\ c.i = N
  /\ \E m \in SUBSET Others :
       /\ \A j \in Surely : j \in m => Differs(c.got, j)
       /\ c.op = "query" => \A j \in Surely : Differs(c.got, j) => j \in m
       /\ mismatch' = m
  /\ call' = [call EXCEPT ![w] = Idle]
  /\ verdict' = [verdict EXCEPT ![w] = "none"]
  /\ UNCHANGED <<options, session, errno, stmt, written, failing, crashed,
                 issued, faults, history>>

(* A script that gets a fatal error ends its thread: worker_thread() sets  *)
(* sb_globals.error.                                                       *)
ThreadFails(w) ==
  /\ ~crashed /\ verdict[w] \in {"fatal", "-1"} /\ ~failing
  /\ failing' = TRUE
  /\ UNCHANGED <<options, session, errno, stmt, call, verdict, mismatch,
                 written, crashed, issued, faults, history>>

CompareNext ==
  \E w \in Threads :
    \/ mysql_drv_connect(w) \/ mysql_drv_disconnect(w) \/ mysql_drv_reconnect(w)
    \/ \E k \in {"select", "write", "control"} : mysql_drv_prepare(w, k)
    \/ \E k \in {"select", "write"} : CallQuery(w, k)
    \/ CallExecute(w) \/ mysql_drv_free_results(w) \/ mysql_drv_close(w)
    \/ ServerAnswers(w) \/ ServerFails(w) \/ Return(w)
    \/ ReconnectStep(w) \/ ThreadFails(w)

CompareSpec == CompareInit /\ [][CompareNext]_compareVars

----------------------------------------------------------------------------
Quiet == ~crashed /\ \A w \in Threads : call[w].op = "idle"

(* While no call has failed, the servers a worker compares have executed   *)
(* the same writes whenever no call is under way, and in the same order    *)
(* unless calls of different workers overlapped: each worker visits the    *)
(* servers in turn (the loops of mysql_drv_query() and mysql_drv_execute())*)
(* and nothing orders the visits of two workers.                           *)
ServersAgree ==
  Quiet /\ ~failed =>
    \A i, j \in Servers :
      /\ Range(written[i]) = Range(written[j])
      /\ ~overlapped => written[i] = written[j]

(* A SELECT that returns without an error has printed only connections     *)
(* whose answer was not the answer of connection 0, and db_query() all of  *)
(* them; except where a buffer was compared that no row was printed into.  *)
MismatchPrinted ==
  [][\A w \in Threads :
       LET c == call[w]
           different == {j \in Servers : c.got[j] # c.got[0]} IN
       /\ ~crashed' /\ c.kind = "select" /\ c.i = N /\ call'[w].op = "idle"
       /\ Unset \notin {c.got[i] : i \in Servers}
       => /\ mismatch' \subseteq different
          /\ c.op = "query" => mismatch' = different]_compareVars

(* A difference is printed only if a server answered wrongly, a call had   *)
(* failed before (and reached some servers only), calls of two workers     *)
(* overlapped, or a prepared SELECT returned no rows.                      *)
NoFalseAlarm ==
  [][\A w \in Threads :
       call[w].i = N /\ call'[w].op = "idle" /\ mismatch' # {} =>
         \/ failed \/ lied \/ overlapped
         \/ call[w].op = "execute" /\ \E i \in Servers : call[w].got[i] = Unset]_compareVars

WorkerSymmetry == Permutations(Threads)
=============================================================================
