------------------------------- MODULE Logger -------------------------------
(***************************************************************************)
(* sb_logger.c: text messages.  A message that repeats the last one is     *)
(* only counted, and the count is printed before the next different        *)
(* message.  The comparison and the count are under text_mutex; the        *)
(* message itself is printed after the mutex is released.                  *)
(***************************************************************************)
EXTENDS Naturals, Sequences, FiniteSets, Sums

CONSTANTS
  Loggers,    \* threads that log
  Texts,      \* messages of log_text()
  Stamps,     \* messages of log_timestamp(), which skip the comparison
  Hidden,     \* messages whose priority is above the verbosity
  MaxCalls    \* bound: calls of log_text() and log_timestamp()

NoText == "none"

ASSUME LoggerAssumption == IsFiniteSet(Loggers) /\ NoText \notin Texts \cup Stamps

VARIABLES
  initialized,  \* initialized
  text_buf,     \* the last message, NoText at first
  text_cnt,     \* how often it has been repeated since
  pending,      \* pending[t]: the message t has still to print, or NoText
  out,          \* standard output: messages and repeat notices
  logged        \* history: the visible messages, in the order of the calls

logVars == <<initialized, text_buf, text_cnt, pending, out, logged>>

Line(m) == [text |-> m, times |-> 0]
Notice(n) == [text |-> NoText, times |-> n]

(* text_handler_init() and the static initialisers.                        *)
LogInit ==
  /\ initialized = FALSE
  /\ text_buf = NoText /\ text_cnt = 0
  /\ pending = [t \in Loggers |-> NoText]
  /\ out = <<>> /\ logged = <<>>

Idle == \A t \in Loggers : pending[t] = NoText

(* log_init() and log_done() are called while there is one thread.  What   *)
(* text_cnt holds at log_done() is never printed.                          *)
log_init ==
  /\ ~initialized /\ Idle /\ text_buf = NoText
  /\ initialized' = TRUE
  /\ UNCHANGED <<text_buf, text_cnt, pending, out, logged>>

log_done ==
  /\ initialized /\ Idle
  /\ initialized' = FALSE
  /\ UNCHANGED <<text_buf, text_cnt, pending, out, logged>>

Called(t, m) ==
  /\ pending[t] = NoText /\ Len(logged) < MaxCalls /\ m \notin Hidden
  /\ logged' = Append(logged, m)

(* Before log_init() and after log_done() a message is printed at once,    *)
(* whatever its priority.                                                  *)
PrintDirectly(t, m) ==
  /\ ~initialized /\ Idle /\ Len(logged) < MaxCalls
  /\ out' = Append(out, Line(m)) /\ logged' = Append(logged, m)
  /\ UNCHANGED <<initialized, text_buf, text_cnt, pending>>

(* Mutant: the count is not reset with the new message.                    *)
log_text_KeepsCount(t, m) ==
  /\ initialized /\ Called(t, m)
  /\ \/ /\ text_buf = m
        /\ text_cnt' = text_cnt + 1
        /\ UNCHANGED <<text_buf, pending, out>>
     \/ /\ text_buf # m
        /\ out' = IF text_cnt > 0 THEN Append(out, Notice(text_cnt)) ELSE out
        /\ text_buf' = m
        /\ pending' = [pending EXCEPT ![t] = m]
        /\ UNCHANGED text_cnt
  /\ UNCHANGED initialized

(* log_text() up to the release of text_mutex in text_handler_process().   *)
log_text(t, m) ==
  /\ initialized /\ Called(t, m)
  /\ \/ /\ text_buf = m
        /\ text_cnt' = text_cnt + 1
        /\ UNCHANGED <<text_buf, pending, out>>
     \/ /\ text_buf # m
        /\ out' = IF text_cnt > 0 THEN Append(out, Notice(text_cnt)) ELSE out
        /\ text_cnt' = 0 /\ text_buf' = m
        /\ pending' = [pending EXCEPT ![t] = m]
  /\ UNCHANGED initialized

(* log_timestamp(): LOG_MSG_TEXT_ALLOW_DUPLICATES skips the comparison.    *)
log_timestamp(t, m) ==
  /\ initialized /\ Called(t, m)
  /\ pending' = [pending EXCEPT ![t] = m]
  /\ UNCHANGED <<initialized, text_buf, text_cnt, out>>

(* The printf() at the end of text_handler_process().                      *)
PrintMessage(t) ==
  /\ pending[t] # NoText
  /\ out' = Append(out, Line(pending[t]))
  /\ pending' = [pending EXCEPT ![t] = NoText]
  /\ UNCHANGED <<initialized, text_buf, text_cnt, logged>>

LogNext ==
  \/ log_init \/ log_done
  \/ \E t \in Loggers :
       \/ PrintMessage(t)
       \/ \E m \in Texts : log_text(t, m) \/ PrintDirectly(t, m)
       \/ \E m \in Stamps : log_timestamp(t, m)

LogSpec == LogInit /\ [][LogNext]_logVars

----------------------------------------------------------------------------
(* How many messages a line of the output stands for, and all of them.     *)
Stands(line) == IF line.text = NoText THEN line.times ELSE 1
Announced == SumUpTo([i \in 0 .. Len(out) - 1 |-> Stands(out[i + 1])], Len(out))

(* However the calls of the threads interleave, every visible message is   *)
(* accounted for exactly once: printed, announced in a repeat notice,      *)
(* counted in text_cnt, or about to be printed (text_handler_process()).   *)
NothingSwallowed ==
  Len(logged) = Announced + text_cnt + Cardinality({t \in Loggers : pending[t] # NoText})
=============================================================================
