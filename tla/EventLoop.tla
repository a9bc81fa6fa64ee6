----------------------------- MODULE EventLoop -----------------------------
(***************************************************************************)
(* The running phase of a benchmark (sysbench.c): every worker asks        *)
(* sb_more_events() for permission, takes an event from its test, executes *)
(* it and records it (thread_run()).  With --rate the permissions come     *)
(* from a queue that the event generation thread fills and that workers    *)
(* sleep on with a condition variable (eventgen_thread_proc()).            *)
(*                                                                         *)
(* One step per access to shared state.  The queue itself is the FIFO that *)
(* Ring implements; it holds pointers into queue_array, so the model keeps *)
(* the slots and the time stamps in them.  Stamp k is the k-th event's.    *)
(***************************************************************************)
EXTENDS Integers, Sequences, FiniteSets

CONSTANTS
  Workers,        \* the worker threads
  RingSize,       \* MAX_QUEUE_LEN
  MaxEvents,      \* sb_globals.max_events, 0: no limit
  TimeLimit,      \* is sb_globals.max_time_ns > 0 ?
  Rates,          \* values of --rate to start with, 0: no rate
  TestOutcomes,   \* what the test may do besides succeeding:
                  \* "fail": execute_event() # 0, "null": next_event() is NULL
  MaxGenerated    \* bound: how many events the generator creates

ASSUME RingSizeAssumption == RingSize \in Nat /\ RingSize >= 2
ASSUME WorkersAssumption == IsFiniteSet(Workers) /\ Workers # {}
ASSUME LimitsAssumption ==
  /\ MaxEvents \in Nat /\ MaxGenerated \in Nat
  /\ TimeLimit \in BOOLEAN /\ Rates \subseteq Nat
  /\ TestOutcomes \subseteq {"fail", "null"}

VARIABLES
  tx_rate,       \* sb_globals.tx_rate, fixed once the options are read
  error,         \* sb_globals.error
  timeUp,        \* has the execution timer reached max_time_ns ?
  nevents,       \* sb_globals.nevents
  concurrency,   \* sb_globals.concurrency
  queue,         \* slots queued in queue_ring, oldest first
  queueArray,    \* queue_array: the stamp in each slot
  generated,     \* events enqueued so far
  taken,         \* events dequeued so far
  genPc,         \* where eventgen_thread_proc() is
  pc,            \* where each worker is
  ptr,           \* the slot a worker has dequeued, or NULL
  rc,            \* thread_run()'s rc
  granted,       \* how often sb_more_events() has returned true
  completed      \* SB_CNT_EVENT

vars == <<tx_rate, error, timeUp, nevents, concurrency, queue, queueArray, generated,
          taken, genPc, pc, ptr, rc, granted, completed>>

queueVars == <<queue, queueArray, generated, taken>>
counters == <<nevents, concurrency, granted, completed>>

NULL == -1
TxRate == tx_rate > 0
Slots == 0 .. RingSize - 1

Init ==
  /\ tx_rate \in Rates
  /\ error = 0 /\ timeUp = 0
  /\ nevents = 0 /\ concurrency = 0 /\ granted = 0 /\ completed = 0
  /\ queue = <<>> /\ queueArray = [i \in Slots |-> 0]
  /\ generated = 0 /\ taken = 0
  /\ genPc = IF TxRate THEN "loop" ELSE "gone"
  /\ pc = [w \in Workers |-> "check"]
  /\ ptr = [w \in Workers |-> NULL]
  /\ rc = [w \in Workers |-> 0]

OutOfTime == TimeLimit /\ timeUp = 1

(* The execution timer passes max_time_ns.                                 *)
Tick ==
  /\ TimeLimit /\ timeUp = 0
  /\ timeUp' = 1
  /\ UNCHANGED <<error, queueVars, counters, genPc, pc, ptr, rc>>

At(w, here) == pc[w] = here
Goto(w, there) == pc' = [pc EXCEPT ![w] = there]

----------------------------------------------------------------------------
(* sb_more_events() *)

CheckLimits(w) ==
  /\ At(w, "check")
  /\ Goto(w, IF error # 0 \/ OutOfTime THEN "finished" ELSE "ticket")
  /\ UNCHANGED <<error, timeUp, queueVars, counters, genPc, ptr, rc>>

(* sb_more_events() returns true.                                          *)
Grant(w) == Goto(w, "granted") /\ granted' = granted + 1

(* Mutant of TakeTicket: one event too many.                               *)
TakeTicket_OneMore(w) ==
  /\ At(w, "ticket")
  /\ nevents' = IF MaxEvents > 0 THEN nevents + 1 ELSE nevents
  /\ IF MaxEvents > 0 /\ nevents >= MaxEvents + 1
     THEN Goto(w, "finished") /\ UNCHANGED granted
     ELSE IF TxRate THEN Goto(w, "dequeue") /\ UNCHANGED granted ELSE Grant(w)
  /\ UNCHANGED <<error, timeUp, concurrency, completed, queueVars, genPc, ptr, rc>>

TakeTicket(w) ==
  /\ At(w, "ticket")
  /\ nevents' = IF MaxEvents > 0 THEN nevents + 1 ELSE nevents
  /\ \/ /\ MaxEvents > 0 /\ nevents >= MaxEvents
        /\ Goto(w, "finished")
        /\ UNCHANGED granted
     \/ /\ MaxEvents > 0 => nevents < MaxEvents
        /\ IF TxRate THEN Goto(w, "dequeue") /\ UNCHANGED granted ELSE Grant(w)
  /\ UNCHANGED <<error, timeUp, concurrency, completed, queueVars, genPc, ptr, rc>>

Dequeue(w) ==
  /\ At(w, "dequeue")
  /\ queue # <<>>
  /\ ptr' = [ptr EXCEPT ![w] = Head(queue)]
  /\ queue' = Tail(queue)
  /\ taken' = taken + 1
  /\ Goto(w, "taken")
  /\ UNCHANGED <<error, timeUp, counters, queueArray, generated, genPc, rc>>

DequeueEmpty(w) ==
  /\ At(w, "dequeue")
  /\ queue = <<>>
  /\ ptr' = [ptr EXCEPT ![w] = NULL]
  /\ Goto(w, "empty")
  /\ UNCHANGED <<error, timeUp, counters, queueVars, genPc, rc>>

(* The loop condition's second half: on an error the loop ends although    *)
(* nothing has been dequeued.                                              *)
EmptyCheck(w) ==
  /\ At(w, "empty")
  /\ Goto(w, IF error # 0 THEN "taken" ELSE "lock")
  /\ UNCHANGED <<error, timeUp, counters, queueVars, genPc, ptr, rc>>

(* Lock queue_mutex and block in pthread_cond_wait().                      *)
Block(w) ==
  /\ At(w, "lock")
  /\ Goto(w, "waiting")
  /\ UNCHANGED <<error, timeUp, counters, queueVars, genPc, ptr, rc>>

SpuriousWakeup(w) ==
  /\ At(w, "waiting")
  /\ Goto(w, "woken")
  /\ UNCHANGED <<error, timeUp, counters, queueVars, genPc, ptr, rc>>

Recheck(w) ==
  /\ At(w, "woken")
  /\ Goto(w, IF error # 0 \/ OutOfTime THEN "finished" ELSE "dequeue")
  /\ UNCHANGED <<error, timeUp, counters, queueVars, genPc, ptr, rc>>

(* Count the event as in flight, then read its stamp through ptr.          *)
BeginEvent(w) ==
  /\ At(w, "taken")
  /\ ptr[w] # NULL
  /\ concurrency' = concurrency + 1
  /\ Grant(w)
  /\ UNCHANGED <<error, timeUp, nevents, completed, queueVars, genPc, ptr, rc>>

(* Reading the stamp through a null pointer ends the process.              *)
BeginNullEvent(w) ==
  /\ At(w, "taken")
  /\ ptr[w] = NULL
  /\ concurrency' = concurrency + 1
  /\ pc' = [v \in Workers |-> "crashed"]
  /\ genPc' = "gone"
  /\ UNCHANGED <<error, timeUp, nevents, granted, completed, queueVars, ptr, rc>>

----------------------------------------------------------------------------
(* thread_run() and the end of worker_thread() *)

NextEvent(w) ==
  /\ At(w, "granted")
  /\ \/ rc[w] # 0 /\ Goto(w, "finished")
     \/ rc[w] = 0 /\ "null" \in TestOutcomes /\ Goto(w, "finished")
     \/ rc[w] = 0 /\ Goto(w, "execute")
  /\ UNCHANGED <<error, timeUp, counters, queueVars, genPc, ptr, rc>>

(* execute_event() and sb_event_stop().                                    *)
Execute(w) ==
  /\ At(w, "execute")
  /\ \E r \in IF "fail" \in TestOutcomes THEN {0, 1} ELSE {0} :
       rc' = [rc EXCEPT ![w] = r]
  /\ completed' = completed + 1
  /\ concurrency' = IF TxRate THEN concurrency - 1 ELSE concurrency
  /\ Goto(w, "check")
  /\ UNCHANGED <<error, timeUp, nevents, granted, queueVars, genPc, ptr>>

(* Mutant of Finish: at the time limit a failure is not published.         *)
Finish_TimeLimitFirst(w) ==
  /\ At(w, "finished")
  /\ error' = IF rc[w] # 0 /\ ~OutOfTime THEN 1 ELSE error
  /\ Goto(w, "done")
  /\ UNCHANGED <<timeUp, counters, queueVars, genPc, ptr, rc>>

Finish(w) ==
  /\ At(w, "finished")
  /\ error' = IF rc[w] # 0 THEN 1 ELSE error
  /\ Goto(w, "done")
  /\ UNCHANGED <<timeUp, counters, queueVars, genPc, ptr, rc>>
----------------------------------------------------------------------------
(* eventgen_thread_proc() *)

(* The top of the loop: at the time limit wake everybody and return, else  *)
(* sleep until the next event is due.                                      *)
GenLoop ==
  /\ genPc = "loop"
  /\ \/ OutOfTime /\ genPc' = "broadcast"
     \/ ~OutOfTime /\ generated < MaxGenerated /\ genPc' = "put"
  /\ UNCHANGED <<error, timeUp, counters, queueVars, pc, ptr, rc>>

(* ck_ring_enqueue_spmc() refuses an element when only one slot is free.   *)
QueueFull == Len(queue) = RingSize - 1

(* Mutant of GenPut: the slots of queue_array turn round one too early.    *)
GenPut_ShortArray ==
  /\ genPc = "put"
  /\ LET i == generated % (RingSize - 1) IN
     /\ queueArray' = [queueArray EXCEPT ![i] = generated + 1]
     /\ IF QueueFull
        THEN genPc' = "full" /\ UNCHANGED <<queue, generated>>
        ELSE /\ queue' = Append(queue, i)
             /\ generated' = generated + 1
             /\ genPc' = "signal"
  /\ UNCHANGED <<error, timeUp, counters, taken, pc, ptr, rc>>

(* The stamp is written into the next slot of queue_array before the slot  *)
(* is offered to the ring.                                                 *)
GenPut ==
  /\ genPc = "put"
  /\ LET i == generated % RingSize IN
     /\ queueArray' = [queueArray EXCEPT ![i] = generated + 1]
     /\ IF QueueFull
        THEN genPc' = "full" /\ UNCHANGED <<queue, generated>>
        ELSE /\ queue' = Append(queue, i)
             /\ generated' = generated + 1
             /\ genPc' = "signal"
  /\ UNCHANGED <<error, timeUp, counters, taken, pc, ptr, rc>>

GenFull ==
  /\ genPc = "full"
  /\ error' = 1
  /\ genPc' = "broadcast"
  /\ UNCHANGED <<timeUp, counters, queueVars, pc, ptr, rc>>

(* pthread_cond_broadcast(), without queue_mutex, and return.              *)
GenBroadcast ==
  /\ genPc = "broadcast"
  /\ pc' = [w \in Workers |-> IF pc[w] = "waiting" THEN "woken" ELSE pc[w]]
  /\ genPc' = "gone"
  /\ UNCHANGED <<error, timeUp, counters, queueVars, ptr, rc>>

(* pthread_cond_signal(), without queue_mutex.                             *)
GenSignal ==
  /\ genPc = "signal"
  /\ IF \E w \in Workers : At(w, "waiting")
     THEN \E w \in Workers : At(w, "waiting") /\ Goto(w, "woken")
     ELSE UNCHANGED pc
  /\ genPc' = "loop"
  /\ UNCHANGED <<error, timeUp, counters, queueVars, ptr, rc>>

----------------------------------------------------------------------------
WorkerStep(w) ==
  \/ CheckLimits(w) \/ TakeTicket(w) \/ Dequeue(w) \/ DequeueEmpty(w)
  \/ EmptyCheck(w) \/ Block(w) \/ Recheck(w) \/ BeginEvent(w)
  \/ BeginNullEvent(w) \/ NextEvent(w) \/ Execute(w) \/ Finish(w)

GenStep == GenLoop \/ GenPut \/ GenFull \/ GenBroadcast \/ GenSignal

Next ==
  /\ UNCHANGED tx_rate
  /\ \/ Tick
     \/ GenStep
     \/ \E w \in Workers : WorkerStep(w) \/ SpuriousWakeup(w)

Safety == Init /\ [][Next]_vars

(* Time passes and runnable threads are scheduled; a thread blocked in     *)
(* pthread_cond_wait() runs again only when it is signalled.               *)
Spec ==
  /\ Safety
  /\ WF_vars(Tick /\ UNCHANGED tx_rate) /\ WF_vars(GenStep /\ UNCHANGED tx_rate)
  /\ \A w \in Workers : WF_vars(WorkerStep(w) /\ UNCHANGED tx_rate)

----------------------------------------------------------------------------
WorkerPcs == {"check", "ticket", "dequeue", "empty", "lock", "waiting", "woken",
              "taken", "granted", "execute", "finished", "done", "crashed"}

(* The variables of the event loop stay in their ranges: the queue holds   *)
(* at most MAX_QUEUE_LEN - 1 slots and the gauge never goes below zero.    *)
TypeOK ==
  /\ tx_rate \in Rates /\ error \in {0, 1} /\ timeUp \in {0, 1}
  /\ nevents \in Nat /\ concurrency \in Nat
  /\ granted \in Nat /\ completed \in Nat
  /\ queue \in Seq(Slots) /\ Len(queue) < RingSize
  /\ queueArray \in [Slots -> Nat]
  /\ generated \in Nat /\ taken \in Nat
  /\ genPc \in {"loop", "put", "full", "broadcast", "signal", "gone"}
  /\ pc \in [Workers -> WorkerPcs]
  /\ ptr \in [Workers -> Slots \cup {NULL}]
  /\ rc \in [Workers -> {0, 1}]

(* sb_more_events() never lets more than --events events through, however  *)
(* many workers race for the last ones.                                    *)
EventLimit == MaxEvents > 0 => granted <= MaxEvents

Done == \A w \in Workers : At(w, "done")

(* eventgen_thread_proc() reuses the slots of queue_array round robin and  *)
(* even writes the slot of an event the full queue then refuses: still no  *)
(* queued event loses its own stamp.                                       *)
StampsIntact ==
  \A k \in 1 .. Len(queue) : queueArray[queue[k]] = taken + k

(* Workers that have passed the event limit but not been granted an event. *)
Holders == {w \in Workers : pc[w] \in {"dequeue", "empty", "lock", "waiting",
                                        "woken", "taken"}}

(* Every permission is backed by a ticket below the limit.                 *)
TicketsBound ==
  MaxEvents > 0 => /\ granted + Cardinality(Holders) <= nevents
                   /\ granted + Cardinality(Holders) <= MaxEvents

(* The queue holds consecutive slots, each with its own stamp.             *)
QueueShape ==
  /\ Len(queue) = generated - taken
  /\ \A k \in 1 .. Len(queue) : /\ queue[k] = (taken + k - 1) % RingSize
                               /\ queueArray[queue[k]] = taken + k

(* Workers between taking an event from the queue and finishing it.        *)
InFlight == {w \in Workers : pc[w] \in {"granted", "execute"}}

(* sysbench.h: concurrency is the "number of in-flight events              *)
(* (tx_rate-only)".  It stays too high when the test runs dry, but it      *)
(* never misses an event that is being executed.                           *)
GaugeCovers == TxRate => concurrency >= Cardinality(InFlight)

(* --time is the "limit for total execution time in seconds", and at the   *)
(* limit eventgen_thread_proc() is there to "wake all waiting threads":    *)
(* once the time is up every worker ends.                                  *)
TimeLimitStops == (timeUp = 1) ~> Done

(* Under a time limit no worker runs on: each one ends, or, with --rate    *)
(* only, has been left asleep.  A failed event makes the run fail, and     *)
(* only in a run that fails does a worker go on without an event from the  *)
(* queue (and ends the process by reading its stamp).                      *)
ComesToRest ==
  <>[]( /\ \A w \in Workers : \/ pc[w] \in {"done", "crashed"}
                              \/ TxRate /\ At(w, "waiting")
        /\ \A w \in Workers :
             (At(w, "done") /\ rc[w] # 0) \/ At(w, "crashed") => error = 1 )
============================================================================
