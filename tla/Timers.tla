------------------------------- MODULE Timers -------------------------------
(***************************************************************************)
(* The per-thread latency timers: sb_timer.[ch], the calls a worker makes  *)
(* around an event, checkpoint() and report_cumulative(), and the SIGALRM  *)
(* handler that reports and exits when the forced shutdown timeout expires *)
(* (it interrupts any thread and runs on top of it).  Spinlock sections    *)
(* are split into steps, so that what the spinlock protects is checked.        *)
(***************************************************************************)
EXTENDS Globals, Sequences, FiniteSets, FiniteSetsExt, Sums

CONSTANTS
  Rate,         \* tx_rate > 0: events have a queue time
  Forced,       \* the forced shutdown timeout may expire
  UINT64_MAX,
  MaxClock,     \* bound: the clock
  EventBound,   \* bound: events of all threads
  MaxCheckpoints \* bound: checkpoint reports

(* No latency, with the time in the queue, reaches 2^64 nanoseconds.       *)
ASSUME TimersAssumption ==
  /\ Rate \in BOOLEAN /\ Forced \in BOOLEAN
  /\ MaxClock \in Nat \ {0} /\ UINT64_MAX \in Nat /\ 2 * MaxClock < UINT64_MAX

Runners == {"agg", "handler"}      \* who may be running checkpoint()
Agg == NThreads                    \* the thread that reports
Other == NThreads + 1              \* any other thread
NoHost == -1

VARIABLES
  clock,
  timer, copy,   \* timers[], timers_copy[]
  spinlock,      \* the spinlock of each timer: is it held
  wpc,           \* where each worker is
  rpc, ri,       \* where each runner is, and its loop index
  report,        \* the merged timer of each runner's last report
  host,          \* the thread the handler runs on top of
  unfinished,    \* what the forced shutdown prints
  nreports,
  finished,      \* events each worker has finished
  collected,     \* events collected from each timer by checkpoints
  latencies,     \* latencies of each worker since the last checkpoint
  snapshot       \* the same, at the last checkpoint

timerVars == <<clock, timer, copy, spinlock, wpc, rpc, ri, report, host, unfinished,
              nreports, finished, collected, latencies, snapshot>>
runVars == <<rpc, ri, report, host, unfinished, nreports>>
ghosts == <<finished, collected, latencies, snapshot>>

sb_timer_reset(t) ==
  [t EXCEPT !.min = UINT64_MAX, !.max = 0, !.sum = 0, !.events = 0, !.queue = 0]

ZeroTimer == [start |-> 0, end |-> 0, events |-> 0, queue |-> 0,
              min |-> 0, max |-> 0, sum |-> 0]
sb_timer_init == sb_timer_reset(ZeroTimer)

(* TIMESPEC_DIFF(time_start, time_end) > 0, in unsigned arithmetic.        *)
sb_timer_running(t) == t.start # t.end

(* The counters of sb_timer_stop(), once time_end is set.                  *)
Elapsed(t) == t.end - t.start + t.queue
AddElapsed(t) ==
  [t EXCEPT !.events = @ + 1, !.sum = @ + Elapsed(t),
            !.min = IF Elapsed(t) < @ THEN Elapsed(t) ELSE @,
            !.max = IF Elapsed(t) > @ THEN Elapsed(t) ELSE @]

(* Mutant of sb_timer_merge: the comparison for the minimum is wrong.      *)
sb_timer_merge_WrongMin(t1, t2) ==
  [ZeroTimer EXCEPT
     !.sum = t1.sum + t2.sum, !.events = t1.events + t2.events,
     !.max = IF t1.max > t2.max THEN t1.max ELSE t2.max,
     !.min = IF t1.min > t2.min THEN t1.min ELSE t2.min]

sb_timer_merge(t1, t2) ==
  [ZeroTimer EXCEPT
     !.sum = t1.sum + t2.sum, !.events = t1.events + t2.events,
     !.max = IF t1.max > t2.max THEN t1.max ELSE t2.max,
     !.min = IF t1.min < t2.min THEN t1.min ELSE t2.min]

sb_timer_min(t) == IF t.events = 0 THEN 0 ELSE t.min
sb_timer_avg(t) == IF t.events = 0 THEN 0 ELSE t.sum \div t.events

(* The loop of report_cumulative(): merge the copies into a fresh timer.   *)
Merges ==
  LET m[k \in Nat] == IF k = 0 THEN sb_timer_init ELSE sb_timer_merge(m[k - 1], copy[k - 1])
  IN  m
MergeCopies == Merges[NThreads]

TimersInit ==
  /\ clock = 1                      \* CLOCK_MONOTONIC is past zero
  /\ timer = [w \in Workers |-> sb_timer_init]
  /\ copy = [w \in Workers |-> ZeroTimer]   \* allocated, not initialised
  /\ spinlock = [w \in Workers |-> FALSE]
  /\ wpc = [w \in Workers |-> "loop"]
  /\ rpc = [k \in Runners |-> "idle"] /\ ri = [k \in Runners |-> 0]
  /\ report = [k \in Runners |-> sb_timer_init]
  /\ host = NoHost /\ unfinished = 0 /\ nreports = 0
  /\ finished = [w \in Workers |-> 0] /\ collected = [w \in Workers |-> 0]
  /\ latencies = [w \in Workers |-> <<>>] /\ snapshot = [w \in Workers |-> <<>>]

Exited == rpc["handler"] = "exited"

ClockTick ==
  /\ clock < MaxClock /\ ~Exited
  /\ clock' = clock + 1
  /\ UNCHANGED <<timer, copy, spinlock, wpc, runVars, ghosts>>

----------------------------------------------------------------------------
(* A worker that is not interrupted. *)
Advance(w, from, to) == /\ wpc[w] = from /\ host # w /\ ~Exited
                     /\ wpc' = [wpc EXCEPT ![w] = to]

Begun == SumUpTo(finished, NThreads)
           + Cardinality({v \in Workers : wpc[v] # "loop"})

(* sb_more_events(): in tx_rate mode the time the event spent in the queue *)
(* goes straight into the timer, without the spinlock.                         *)
TakeEvent(w) ==
  /\ Advance(w, "loop", "taken") /\ Begun < EventBound
  /\ \E q \in IF Rate THEN {0, clock} ELSE {0} :
       timer' = IF Rate THEN [timer EXCEPT ![w].queue = q] ELSE timer
  /\ UNCHANGED <<clock, copy, spinlock, runVars, ghosts>>

(* Mutant of Acquire: the spinlock does not exclude anybody.               *)
Acquire_NoLock(w) == spinlock' = [spinlock EXCEPT ![w] = TRUE]

Acquire(w) == ~spinlock[w] /\ spinlock' = [spinlock EXCEPT ![w] = TRUE]
Release(w) == spinlock' = [spinlock EXCEPT ![w] = FALSE]

StartLock(w) ==
  /\ Advance(w, "taken", "starting") /\ Acquire(w)
  /\ UNCHANGED <<clock, timer, copy, runVars, ghosts>>

Start(w) ==
  /\ Advance(w, "starting", "running") /\ Release(w)
  /\ timer' = [timer EXCEPT ![w].start = clock]
  /\ UNCHANGED <<clock, copy, runVars, ghosts>>

StopLock(w) ==
  /\ Advance(w, "running", "stopping") /\ Acquire(w)
  /\ UNCHANGED <<clock, timer, copy, runVars, ghosts>>

StopClock(w) ==
  /\ Advance(w, "stopping", "adding")
  /\ timer' = [timer EXCEPT ![w].end = clock]
  /\ UNCHANGED <<clock, copy, spinlock, runVars, ghosts>>

StopAdd(w) ==
  /\ Advance(w, "adding", "loop") /\ Release(w)
  /\ timer' = [timer EXCEPT ![w] = AddElapsed(@)]
  /\ finished' = [finished EXCEPT ![w] = @ + 1]
  /\ latencies' = [latencies EXCEPT ![w] = Append(@, Elapsed(timer[w]))]
  /\ UNCHANGED <<clock, copy, runVars, collected, snapshot>>

Worker(w) == TakeEvent(w) \/ StartLock(w) \/ Start(w) \/ StopLock(w)
               \/ StopClock(w) \/ StopAdd(w)

----------------------------------------------------------------------------
(* checkpoint() and report_cumulative(), run by the thread that reports    *)
(* ("agg") or by the signal handler.                                       *)
Run(k, from, to) == /\ rpc[k] = from /\ ~Exited /\ (k = "agg" => host # Agg)
                    /\ rpc' = [rpc EXCEPT ![k] = to]

BeginReport ==
  /\ Run("agg", "idle", "loop") /\ nreports < MaxCheckpoints
  /\ ri' = [ri EXCEPT !["agg"] = 0]
  /\ nreports' = nreports + 1
  /\ UNCHANGED <<clock, timer, copy, spinlock, wpc, report, host, unfinished, ghosts>>

CheckpointLock(k) ==
  /\ Run(k, "loop", "copy") /\ ri[k] < NThreads /\ Acquire(ri[k])
  /\ UNCHANGED <<clock, timer, copy, wpc, ri, report, host, unfinished, nreports, ghosts>>

CheckpointCopy(k) ==
  /\ Run(k, "copy", "reset")
  /\ copy' = [copy EXCEPT ![ri[k]] = timer[ri[k]]]
  /\ snapshot' = [snapshot EXCEPT ![ri[k]] = latencies[ri[k]]]
  /\ UNCHANGED <<clock, timer, spinlock, wpc, ri, report, host, unfinished, nreports,
                 finished, collected, latencies>>

CheckpointReset(k) ==
  /\ Run(k, "reset", "loop") /\ Release(ri[k])
  /\ timer' = [timer EXCEPT ![ri[k]] = sb_timer_reset(@)]
  /\ collected' = [collected EXCEPT ![ri[k]] = @ + copy[ri[k]].events]
  /\ latencies' = [latencies EXCEPT ![ri[k]] = <<>>]
  /\ ri' = [ri EXCEPT ![k] = @ + 1]
  /\ UNCHANGED <<clock, copy, wpc, report, host, unfinished, nreports,
                 finished, snapshot>>

Report(k) ==
  /\ Run(k, "loop", IF k = "agg" THEN "idle" ELSE "reported") /\ ri[k] = NThreads
  /\ report' = [report EXCEPT ![k] = MergeCopies]
  /\ UNCHANGED <<clock, timer, copy, spinlock, wpc, ri, host, unfinished, nreports, ghosts>>

(* sigalrm_forced_shutdown_handler(), on top of any thread. *)
Alarm ==
  /\ Forced /\ host = NoHost /\ Run("handler", "idle", "loop")
  /\ host' \in Workers \cup {Agg, Other}
  /\ UNCHANGED <<clock, timer, copy, spinlock, wpc, ri, report, unfinished, nreports, ghosts>>

(* sb_report_cumulative() under forced shutdown, then exit(2): the copies  *)
(* whose timers look as if they run are stopped, and counted.              *)
StopCopies ==
  /\ Run("handler", "reported", "exited")
  /\ LET running == {w \in Workers : sb_timer_running(copy[w])}
     IN /\ unfinished' = Cardinality(running)
        /\ copy' = [w \in Workers |-> IF w \in running
                                      THEN AddElapsed([copy[w] EXCEPT !.end = clock])
                                      ELSE copy[w]]
  /\ UNCHANGED <<clock, timer, spinlock, wpc, ri, report, host, nreports, ghosts>>

Runner(k) == CheckpointLock(k) \/ CheckpointCopy(k) \/ CheckpointReset(k) \/ Report(k)

TimersNext == \/ ClockTick \/ BeginReport \/ Alarm \/ StopCopies
        \/ \E w \in Workers : Worker(w)
        \/ \E k \in Runners : Runner(k)

(* Threads run, and spinning on a spinlock that is free again and again gets   *)
(* it.                                                                     *)
TimersSpec ==
  /\ TimersInit /\ [][TimersNext]_timerVars
  /\ \A w \in Workers : WF_timerVars(Worker(w)) /\ SF_timerVars(StartLock(w)) /\ SF_timerVars(StopLock(w))
  /\ \A k \in Runners : WF_timerVars(Runner(k)) /\ SF_timerVars(CheckpointLock(k))
  /\ WF_timerVars(StopCopies)

----------------------------------------------------------------------------
(* sb_timer_checkpoint() is atomic: "Atomically reset a given timer after  *)
(* copying its state".  Every finished event is in the timer or has been   *)
(* collected by exactly one checkpoint.                                    *)
EventsConserved ==
  \A w \in Workers : finished[w] = timer[w].events + collected[w]

(* The latencies of a sequence added up, and those of all the snapshots.   *)
Added(s) == SumUpTo([i \in 0 .. Len(s) - 1 |-> s[i + 1]], Len(s))
Snapshots == UNION {Range(snapshot[w]) : w \in Workers}

(* A cumulative report gives the minimum, maximum, sum and number of the   *)
(* latencies that the checkpoint found in the timers, an average between   *)
(* the two, and zeroes if there were none, until the handler's checkpoint  *)
(* overwrites the copies.                                                  *)
ReportRight ==
  LET t == MergeCopies
  IN  host = NoHost /\ rpc["agg"] = "loop" /\ ri["agg"] = NThreads =>
        /\ t.events = SumUpTo([w \in Workers |-> Len(snapshot[w])], NThreads)
        /\ t.sum = SumUpTo([w \in Workers |-> Added(snapshot[w])], NThreads)
        /\ sb_timer_min(t) = IF Snapshots = {} THEN 0 ELSE Min(Snapshots)
        /\ t.max = IF Snapshots = {} THEN 0 ELSE Max(Snapshots)
        /\ sb_timer_avg(t) \in sb_timer_min(t) .. t.max

(* "number of seconds to wait after the --time limit before forcing        *)
(* shutdown": once the alarm fires, the process exits.                     *)
ShutdownForced == host # NoHost ~> Exited
============================================================================
