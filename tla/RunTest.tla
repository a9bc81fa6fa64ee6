------------------------------ MODULE RunTest ------------------------------
(***************************************************************************)
(* run_test() of sysbench.c: the life of a benchmark from the creation of  *)
(* its threads to the final report.  The main thread, the workers, the     *)
(* event generator, the intermediate reports thread and the checkpoints    *)
(* thread meet at two barriers; both are instances of AbstractBarrier,     *)
(* which Barrier implements.                                               *)
(*                                                                         *)
(* The event loop of a worker is reduced to what the other threads see of  *)
(* it (EventLoop has the rest): the limits it reads, the events it counts. *)
(* An aggregation of the cumulative counters is the three accesses of      *)
(* sb_counters_checkpoint(): merge, load the old copy, store the new one.  *)
(***************************************************************************)
EXTENDS Integers, FiniteSets

CONSTANTS
  Workers,       \* the worker threads
  Options,       \* the options a run may be started with, see options
  MaxEvents,     \* --events, 0: no limit
  EventBound     \* bound: events counted while there is no limit

Features == {"rate",           \* --rate: there is an event generator
             "reports",        \* --report-interval: there is a reports thread
             "checkpoints",    \* --report-checkpoints: a checkpoints thread
             "warmup"}         \* --warmup-time

FaultKinds == {"create",       \* a pthread_create() fails
               "thread_init",  \* a worker's thread_init() fails
               "hang",         \* a worker's thread_init() never returns
               "lua_init",     \* sb_lua_report_thread_init() fails
               "gen_init",     \* the generator's mutex or condition fails
               "queue_full",   \* the workers do not keep up with --rate
               "cleanup",      \* the test's cleanup() fails
               "event"}        \* an event fails

ASSUME ConfigAssumption ==
  /\ IsFiniteSet(Workers) /\ Workers # {}
  /\ Workers \cap {"main", "gen", "rep", "cp"} = {}
  /\ MaxEvents \in Nat /\ EventBound \in Nat
  /\ \A o \in Options : o.features \subseteq Features /\ o.faults \subseteq FaultKinds

VARIABLES
  options,            \* the options given and what may go wrong in this run
  pc,                 \* where each thread is
  wPhase, wOut,       \* worker_barrier
  rPhase, rOut,       \* report_barrier
  error,              \* sb_globals.error
  maxEvents,          \* sb_globals.max_events
  nevents,            \* sb_globals.nevents
  timeUp,             \* has the time limit passed ?
  reporting,          \* sb_globals.report_interval > 0
  created,            \* the threads whose *_thread_created flag is set
  counted,            \* sum of the workers' SB_CNT_EVENT counters
  lastCumulative,     \* last_cumulative_counters
  agg,                \* locals of an aggregation: merged sum and old copy
  reported,           \* sum of all cumulative counts reported
  discarded,          \* counts thrown away by the warmup checkpoint
  ret                 \* the exit status, NoStatus while running

Rate == "rate" \in options.features
Reports == "reports" \in options.features
Checkpoints == "checkpoints" \in options.features
Warmup == "warmup" \in options.features
Faults == options.faults

wBarrier == <<wPhase, wOut>>
rBarrier == <<rPhase, rOut>>
stats == <<lastCumulative, agg, reported, discarded>>
limits == <<maxEvents, nevents, timeUp>>
vars == <<options, pc, wBarrier, rBarrier, error, limits, reporting, created, counted,
          stats, ret>>

Background == {"gen", "rep", "cp"}
Threads == {"main"} \cup Background \cup Workers
NoStatus == -1

(* The barrier sizes that run_test() computes.                             *)
WThreads == {"main"} \cup Workers \cup (IF Rate THEN {"gen"} ELSE {})
RThreads == {"main"} \cup (IF Reports THEN {"rep"} ELSE {})
                     \cup (IF Checkpoints THEN {"cp"} ELSE {})

WB == INSTANCE AbstractBarrier WITH
        Threads <- WThreads, phase <- wPhase, outcome <- wOut
RB == INSTANCE AbstractBarrier WITH
        Threads <- RThreads, phase <- rPhase, outcome <- rOut

Init ==
  /\ options \in Options
  /\ pc = [t \in Threads |-> IF t = "main" THEN "create" ELSE "none"]
  /\ WB!AbsInit /\ RB!AbsInit
  /\ error = 0 /\ maxEvents = MaxEvents /\ nevents = 0 /\ timeUp = FALSE
  /\ reporting = Reports /\ created = {}
  /\ counted = 0 /\ lastCumulative = 0
  /\ agg = [t \in Threads |-> [sum |-> 0, old |-> 0]]
  /\ reported = 0 /\ discarded = 0 /\ ret = NoStatus

Alive == ret = NoStatus
At(t, here) == Alive /\ pc[t] = here
Goto(t, there) == pc' = [pc EXCEPT ![t] = there]

(* run_test() returns, or a signal handler calls exit(): the process ends. *)
Exit(status) == ret' = status /\ Goto("main", "exit")

(* The execution timer passes max_time_ns.                                 *)
Tick ==
  /\ Alive /\ ~timeUp
  /\ timeUp' = TRUE
  /\ UNCHANGED <<options, pc, wBarrier, rBarrier, error, maxEvents, nevents, reporting,
                 created, counted, stats, ret>>

----------------------------------------------------------------------------
(* The three accesses of sb_counters_checkpoint(), by thread t.            *)
AggMerge(t, next) ==
  /\ agg' = [agg EXCEPT ![t].sum = counted]
  /\ Goto(t, next)
  /\ UNCHANGED <<lastCumulative, reported, discarded>>

AggLoad(t, next) ==
  /\ agg' = [agg EXCEPT ![t].old = lastCumulative]
  /\ Goto(t, next)
  /\ UNCHANGED <<lastCumulative, reported, discarded>>

(* Mutant of AggStore: the new copy is not stored.                         *)
AggStore_NotSaved(t, next) ==
  /\ Goto(t, next)
  /\ UNCHANGED <<lastCumulative, agg>>

AggStore(t, next) ==
  /\ lastCumulative' = agg[t].sum
  /\ Goto(t, next)
  /\ UNCHANGED agg
AggDelta(t) == agg[t].sum - agg[t].old

----------------------------------------------------------------------------
(* run_test() *)

Started == (IF Reports THEN {"rep"} ELSE {}) \cup (IF Rate THEN {"gen"} ELSE {})
             \cup (IF Checkpoints THEN {"cp"} ELSE {}) \cup Workers

Rank(t) == CASE t = "rep" -> 1 [] t = "gen" -> 2 [] t = "cp" -> 3 [] OTHER -> 4

(* Create the background threads and the workers, one after the other; a   *)
(* failure to create one of them ends the run at once.                     *)
CreateThread(t) ==
  /\ At("main", "create") /\ t \in Started /\ pc[t] = "none"
  /\ \A b \in Background \cap Started : pc[b] # "none" \/ Rank(b) >= Rank(t)
  /\ pc' = [pc EXCEPT ![t] = "init"]
  /\ UNCHANGED <<options, wBarrier, rBarrier, error, limits, reporting, created, counted,
                 stats, ret>>

CreateFails ==
  /\ At("main", "create") /\ "create" \in Faults
  /\ \E t \in Started : pc[t] = "none"
  /\ Exit(1)
  /\ UNCHANGED <<options, wBarrier, rBarrier, error, limits, reporting, created,
                 counted, stats>>

(* All threads exist: set the alarm and lift the event limit for warmup.   *)
StartWarmup ==
  /\ At("main", "create") /\ \A t \in Started : pc[t] # "none"
  /\ maxEvents' = IF Warmup THEN 0 ELSE maxEvents
  /\ Goto("main", "arrive")
  /\ UNCHANGED <<options, wBarrier, rBarrier, error, nevents, timeUp, reporting, created,
                 counted, stats, ret>>

MainArrive ==
  /\ At("main", "arrive")
  /\ WB!Arrive("main")
  /\ Goto("main", "wbarrier")
  /\ UNCHANGED <<options, rBarrier, error, limits, reporting, created, counted, stats, ret>>

(* Mutant of InitTimeout: the alarm is switched off before the barrier.    *)
InitTimeout_OffEarly ==
  /\ At("main", "arrive")
  /\ Exit(2)
  /\ UNCHANGED <<options, wBarrier, rBarrier, error, limits, reporting, created,
                 counted, stats>>

(* sigalrm_thread_init_timeout_handler(): the alarm is on until the main   *)
(* thread has left the barrier.                                            *)
InitTimeout ==
  /\ At("main", "arrive") \/ At("main", "wbarrier")
  /\ Exit(2)
  /\ UNCHANGED <<options, wBarrier, rBarrier, error, limits, reporting, created,
                 counted, stats>>

MainLeave ==
  /\ At("main", "wbarrier")
  /\ WB!Leave("main")
  /\ IF wOut["main"] = WB!FAILED THEN Exit(1)
     ELSE Goto("main", IF Warmup THEN "warmup" ELSE "rarrive") /\ UNCHANGED ret
  /\ UNCHANGED <<options, rBarrier, error, limits, reporting, created, counted, stats>>

(* After the warmup restore the limit, then reset the statistics.          *)
EndWarmup ==
  /\ At("main", "warmup")
  /\ maxEvents' = MaxEvents
  /\ Goto("main", "wmerge")
  /\ UNCHANGED <<options, wBarrier, rBarrier, error, nevents, timeUp, reporting, created,
                 counted, stats, ret>>

WarmupCheckpoint ==
  /\ \/ At("main", "wmerge") /\ AggMerge("main", "wload")
     \/ At("main", "wload") /\ AggLoad("main", "wstore")
     \/ /\ At("main", "wstore") /\ AggStore("main", "rarrive")
        /\ discarded' = discarded + AggDelta("main")
        /\ UNCHANGED reported
  /\ UNCHANGED <<options, wBarrier, rBarrier, error, limits, reporting, created,
                 counted, ret>>

MainReportArrive ==
  /\ At("main", "rarrive")
  /\ RB!Arrive("main")
  /\ Goto("main", "rbarrier")
  /\ UNCHANGED <<options, wBarrier, error, limits, reporting, created, counted, stats, ret>>

MainReportLeave ==
  /\ At("main", "rbarrier")
  /\ RB!Leave("main")
  /\ Goto("main", "join")
  /\ UNCHANGED <<options, wBarrier, error, limits, reporting, created, counted, stats, ret>>

(* Mutant of JoinWorkers: the periodic reports are not silenced.           *)
JoinWorkers_NotSilenced ==
  /\ At("main", "join") /\ \A w \in Workers : pc[w] \in {"done", "aborted"}
  /\ Goto("main", "cancel_rep")
  /\ UNCHANGED <<options, wBarrier, rBarrier, error, limits, reporting, created,
                 counted, stats, ret>>

(* sb_thread_join_workers(), then silence the periodic reports.            *)
JoinWorkers ==
  /\ At("main", "join") /\ \A w \in Workers : pc[w] \in {"done", "aborted"}
  /\ reporting' = FALSE
  /\ Goto("main", "cancel_rep")
  /\ UNCHANGED <<options, wBarrier, rBarrier, error, limits, created, counted, stats, ret>>

(* The test's cleanup() fails: run_test() returns with its threads alive.  *)
CleanupFails ==
  /\ At("main", "cancel_rep") /\ "cleanup" \in Faults
  /\ Exit(1)
  /\ UNCHANGED <<options, wBarrier, rBarrier, error, limits, reporting, created,
                 counted, stats>>

(* A thread can be cancelled where it sleeps, prints or has ended.         *)
CancelPoints == {"sleep", "print", "run", "done"}

(* pthread_cancel() and pthread_join(), only for a thread that has already *)
(* said that it exists.                                                    *)
Cancel(t, here, next) ==
  /\ At("main", here)
  /\ IF t \in created
     THEN pc[t] \in CancelPoints /\ pc' = [pc EXCEPT !["main"] = next, ![t] = "done"]
     ELSE Goto("main", next)
  /\ UNCHANGED <<options, wBarrier, rBarrier, error, limits, reporting, created, counted,
                 stats, ret>>

CancelThreads ==
  \/ Cancel("rep", "cancel_rep", "cancel_gen")
  \/ Cancel("gen", "cancel_gen", "cancel_cp")
  \/ Cancel("cp", "cancel_cp", "final")

(* The final report, unless the run has failed.                            *)
FinalReport ==
  /\ \/ At("main", "final") /\ error = 0 /\ AggMerge("main", "fload")
     \/ At("main", "fload") /\ AggLoad("main", "fstore")
     \/ /\ At("main", "fstore") /\ AggStore("main", "return")
        /\ reported' = reported + AggDelta("main")
        /\ UNCHANGED discarded
  /\ UNCHANGED <<options, wBarrier, rBarrier, error, limits, reporting, created,
                 counted, ret>>

(* Mutant of Return: the error is not part of the exit status.             *)
Return_AlwaysOk ==
  /\ At("main", "return") \/ (At("main", "final") /\ error # 0)
  /\ Exit(0)
  /\ UNCHANGED <<options, wBarrier, rBarrier, error, limits, reporting, created,
                 counted, stats>>

Return ==
  /\ At("main", "return") \/ (At("main", "final") /\ error # 0)
  /\ Exit(IF error # 0 THEN 1 ELSE 0)
  /\ UNCHANGED <<options, wBarrier, rBarrier, error, limits, reporting, created,
                 counted, stats>>

MainStep ==
  \/ \E t \in Started : CreateThread(t)
  \/ StartWarmup \/ MainArrive \/ MainLeave \/ EndWarmup \/ WarmupCheckpoint
  \/ MainReportArrive \/ MainReportLeave \/ JoinWorkers \/ CancelThreads
  \/ FinalReport \/ Return

----------------------------------------------------------------------------
(* The barriers open.  threads_started_callback() turns the run down if a  *)
(* worker has failed to initialize; report_barrier has no callback.        *)
WorkersReleased ==
  /\ Alive
  /\ WB!Release
  /\ \E t \in WThreads : wOut' = WB!Verdict(t, error # 0)
  /\ UNCHANGED <<options, pc, rBarrier, error, limits, reporting, created, counted,
                 stats, ret>>

ReportersReleased ==
  /\ Alive
  /\ RB!Release
  /\ \E t \in RThreads : rOut' = RB!Verdict(t, FALSE)
  /\ UNCHANGED <<options, pc, wBarrier, error, limits, reporting, created, counted,
                 stats, ret>>

----------------------------------------------------------------------------
(* worker_thread() *)

WorkerInit(w) ==
  /\ At(w, "init")
  /\ \/ Goto(w, "wbarrier") /\ UNCHANGED error
     \/ "thread_init" \in Faults /\ Goto(w, "failed") /\ error' = 1
  /\ WB!Arrive(w)
  /\ UNCHANGED <<options, rBarrier, limits, reporting, created, counted, stats, ret>>

WorkerHangs(w) ==
  /\ At(w, "init") /\ "hang" \in Faults
  /\ Goto(w, "hung")
  /\ UNCHANGED <<options, wBarrier, rBarrier, error, limits, reporting, created, counted,
                 stats, ret>>

WorkerLeave(w) ==
  /\ At(w, "wbarrier") \/ At(w, "failed")
  /\ WB!Leave(w)
  /\ Goto(w, IF pc[w] = "failed" \/ wOut[w] = WB!FAILED THEN "aborted" ELSE "more")
  /\ UNCHANGED <<options, rBarrier, error, limits, reporting, created, counted, stats, ret>>

(* Mutant of WorkerMore: the number of events is checked without taking a  *)
(* number.                                                                 *)
WorkerMore_NoTicket(w) ==
  /\ At(w, "more")
  /\ Goto(w, IF error # 0 \/ timeUp \/ counted > 5 THEN "done" ELSE "event")
  /\ UNCHANGED <<options, wBarrier, rBarrier, error, limits, reporting, created,
                 counted, stats, ret>>

(* With --rate a permission comes from the event queue.                    *)
Permitted == IF Rate THEN "queued" ELSE "event"

(* sb_more_events(): the limits; maxEvents is read once per call.          *)
WorkerMore(w) ==
  /\ At(w, "more")
  /\ \/ /\ error # 0 \/ timeUp
        /\ Goto(w, "done") /\ UNCHANGED nevents
     \/ /\ error = 0 /\ ~timeUp /\ maxEvents = 0
        /\ counted < EventBound
        /\ Goto(w, Permitted) /\ UNCHANGED nevents
     \/ /\ error = 0 /\ ~timeUp /\ maxEvents > 0
        /\ nevents' = nevents + 1
        /\ Goto(w, IF nevents >= maxEvents THEN "done" ELSE Permitted)
  /\ UNCHANGED <<options, wBarrier, rBarrier, error, maxEvents, timeUp, reporting, created,
                 counted, stats, ret>>

(* The wait on the queue as EventLoop has it: the worker gets an event, or *)
(* is woken at the end of the run, or, once the generator is gone, misses  *)
(* the wakeup and sleeps for good.                                         *)
WorkerQueue(w) ==
  /\ At(w, "queued")
  /\ \/ "gen" \in created /\ Goto(w, "event")
     \/ (error # 0 \/ timeUp) /\ Goto(w, "done")
     \/ pc["gen"] = "done" /\ Goto(w, "asleep")
  /\ UNCHANGED <<options, wBarrier, rBarrier, error, limits, reporting, created, counted,
                 stats, ret>>

(* Execute and count one event; a failed one is counted too.               *)
WorkerEvent(w) ==
  /\ At(w, "event")
  /\ counted' = counted + 1
  /\ Goto(w, "more") \/ ("event" \in Faults /\ Goto(w, "failing"))
  /\ UNCHANGED <<options, wBarrier, rBarrier, error, limits, reporting, created,
                 stats, ret>>

(* thread_run() asks sb_more_events() once more, which may use up another  *)
(* number and wait for another event of the queue, before it looks at rc   *)
(* and worker_thread() publishes the error.                                *)
WorkerFails(w) ==
  /\ At(w, "failing")
  /\ nevents' = IF error = 0 /\ ~timeUp /\ maxEvents > 0 THEN nevents + 1 ELSE nevents
  /\ \/ error' = 1 /\ Goto(w, "done")
     \/ /\ Rate /\ pc["gen"] = "done" /\ error = 0 /\ ~timeUp
        /\ Goto(w, "asleep") /\ UNCHANGED error
  /\ UNCHANGED <<options, wBarrier, rBarrier, maxEvents, timeUp, reporting, created,
                 counted,
                 stats, ret>>

WorkerStep(w) == WorkerInit(w) \/ WorkerLeave(w) \/ WorkerMore(w) \/ WorkerQueue(w)
                   \/ WorkerEvent(w) \/ WorkerFails(w)

----------------------------------------------------------------------------
(* The event generator, as far as the barrier and its end are concerned.   *)
GenStep ==
  /\ \/ /\ At("gen", "init") /\ WB!Arrive("gen") /\ UNCHANGED created
        /\ Goto("gen", "wbarrier") \/ ("gen_init" \in Faults /\ Goto("gen", "failed"))
     \/ /\ At("gen", "failed") /\ WB!Leave("gen") /\ Goto("gen", "done")
        /\ UNCHANGED created
     \/ /\ At("gen", "wbarrier") /\ WB!Leave("gen")
        /\ Goto("gen", IF wOut["gen"] = WB!FAILED THEN "done" ELSE "flag")
        /\ UNCHANGED created
     \/ /\ At("gen", "flag") /\ created' = created \cup {"gen"}
        /\ Goto("gen", "run") /\ UNCHANGED wBarrier
     \/ At("gen", "run") /\ timeUp /\ Goto("gen", "done") /\ UNCHANGED <<wBarrier, created>>
     \/ /\ At("gen", "run") /\ ~timeUp /\ "queue_full" \in Faults
        /\ Goto("gen", "done") /\ UNCHANGED <<wBarrier, created>>
  /\ error' = IF At("gen", "run") /\ ~timeUp THEN 1 ELSE error
  /\ UNCHANGED <<options, rBarrier, limits, reporting, counted, stats, ret>>

(* A reporting thread up to its loop: without its Lua state it returns     *)
(* before the barrier.                                                     *)
ReporterStart(t) ==
  /\ \/ /\ At(t, "init") /\ RB!Arrive(t) /\ Goto(t, "rbarrier")
        /\ UNCHANGED created
     \/ /\ At(t, "init") /\ "lua_init" \in Faults /\ Goto(t, "no_lua")
        /\ UNCHANGED <<rBarrier, created>>
     \/ /\ At(t, "rbarrier") /\ RB!Leave(t) /\ Goto(t, "flag")
        /\ UNCHANGED created
     \/ /\ At(t, "flag") /\ created' = created \cup {t} /\ Goto(t, "sleep")
        /\ UNCHANGED rBarrier
  /\ UNCHANGED <<options, wBarrier, error, limits, reporting, counted, stats, ret>>

(* report_thread_proc(): report unless silenced, then print, and sleep.    *)
ReportStep ==
  /\ \/ At("rep", "sleep") /\ Goto("rep", IF reporting THEN "print" ELSE "sleep")
     \/ At("rep", "print") /\ Goto("rep", "sleep")
  /\ UNCHANGED <<options, wBarrier, rBarrier, error, limits, reporting, created, counted,
                 stats, ret>>

(* checkpoints_thread_proc() with one checkpoint.                          *)
CheckpointStep ==
  /\ \/ At("cp", "sleep") /\ AggMerge("cp", "load")
     \/ At("cp", "load") /\ AggLoad("cp", "store")
     \/ /\ At("cp", "store") /\ AggStore("cp", "print")
        /\ reported' = reported + AggDelta("cp")
        /\ UNCHANGED discarded
     \/ At("cp", "print") /\ Goto("cp", "done") /\ UNCHANGED stats
  /\ UNCHANGED <<options, wBarrier, rBarrier, error, limits, reporting, created,
                 counted, ret>>

Reporters == ReporterStart("rep") \/ ReporterStart("cp") \/ ReportStep \/ CheckpointStep

Next ==
  \/ Tick \/ MainStep \/ CreateFails \/ CleanupFails \/ InitTimeout
  \/ WorkersReleased \/ ReportersReleased
  \/ \E w \in Workers : WorkerStep(w) \/ WorkerHangs(w)
  \/ GenStep \/ Reporters

(* Time passes, the alarm goes off, barriers open and threads are          *)
(* scheduled; faults are never forced.                                     *)
Fairness ==
  /\ WF_vars(Tick) /\ WF_vars(MainStep) /\ WF_vars(InitTimeout)
  /\ WF_vars(WorkersReleased) /\ WF_vars(ReportersReleased)
  /\ \A w \in Workers : WF_vars(WorkerStep(w))
  /\ WF_vars(GenStep) /\ WF_vars(ReporterStart("rep")) /\ WF_vars(ReporterStart("cp"))
  /\ WF_vars(ReportStep) /\ WF_vars(CheckpointStep)

Spec == Init /\ [][Next]_vars /\ Fairness

----------------------------------------------------------------------------
(* run_test() reports success only for a run in which every worker was     *)
(* initialized, no event failed, and all of them have ended.               *)
SuccessIsReal ==
  ret = 0 => error = 0 /\ \A w \in Workers : pc[w] = "done"

Aggregating(t) ==
  Alive /\ pc[t] \in {"load", "store", "wload", "wstore", "fload", "fstore"}

(* sb_counters_agg_cumulative() "is not thread-safe ... must be called     *)
(* from a single thread" at a time.                                        *)
SingleAggregator == ~(Aggregating("main") /\ Aggregating("cp"))

(* Every event is in exactly one cumulative report: what the checkpoint    *)
(* reports and the final report show adds up to what the workers counted,  *)
(* less what the warmup checkpoint has thrown away, provided that two      *)
(* aggregations have never overlapped.                                     *)
ReportsAddUp ==
  []SingleAggregator => [](ret = 0 => reported + discarded = counted)

(* With warmup the event limit may be exceeded in the measured stage, but  *)
(* only by events already granted when run_test() restored the limit.      *)
MeasuredBound ==
  (MaxEvents > 0 /\ ret = 0)
    => counted - discarded <= MaxEvents + Cardinality(Workers)

(* "Silence periodic reports": no intermediate report is being printed     *)
(* when the final report is made, although the reports thread may not have *)
(* been cancelled because its flag came too late.                          *)
SilencedBeforeFinal ==
  pc["main"] \in {"final", "fload", "fstore", "return"} => pc["rep"] # "print"

(* run_test() comes to an end, whatever fails or hangs while the threads   *)
(* start, whoever is slow and whatever the events do, unless a reporting   *)
(* thread gave up before report_barrier or a worker missed the wakeup at   *)
(* the end of a --rate run: only these two leave the main thread waiting.  *)
RunEnds ==
  <>(\/ ret # NoStatus
     \/ \E w \in Workers : pc[w] = "asleep"
     \/ \E t \in {"rep", "cp"} : pc[t] = "no_lua")
============================================================================
