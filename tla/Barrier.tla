------------------------------ MODULE Barrier ------------------------------
(***************************************************************************)
(* sb_barrier.c: the thread barrier of sysbench, built from a mutex, a     *)
(* condition variable, a countdown and a round number ("serial").          *)
(*                                                                         *)
(* A critical section that ends in pthread_cond_wait() or in an unlock     *)
(* without calling out is one step.  The critical section of the last      *)
(* arrival is three: it opens the new round and broadcasts, then runs the  *)
(* callback with the mutex still held, then unlocks.  POSIX allows a       *)
(* waiter to wake up without a signal (SpuriousWakeup).                    *)
(***************************************************************************)
EXTENDS Integers, FiniteSets

CONSTANTS
  Threads,     \* the threads that use the barrier
  NoThread,    \* "nobody holds the mutex"
  SerialMod    \* the unsigned round number wraps here (2^32 in the C code)

ASSUME BarrierAssumption ==
  IsFiniteSet(Threads) /\ Threads # {} /\ NoThread \notin Threads
ASSUME SerialModAssumption == SerialMod \in Nat /\ SerialMod >= 2

VARIABLES
  count,      \* barrier->count: arrivals missing in the current round
  serial,     \* barrier->serial
  error,      \* barrier->error
  mutex,      \* holder of barrier->mutex across steps, or NoThread
  pc,         \* where each thread is in sb_barrier_wait()
  mySerial,   \* the local variable serial of a waiter
  res         \* the value the last call returned

vars == <<count, serial, error, mutex, pc, mySerial, res>>

FAILED == -1
SB_BARRIER_SERIAL_THREAD == 1

(* barrier->init_count: sysbench.c sizes each barrier to its participants. *)
InitCount == Cardinality(Threads)

Init ==
  /\ count = InitCount
  /\ serial = 0
  /\ error = 0
  /\ mutex = NoThread
  /\ pc = [t \in Threads |-> "out"]
  /\ mySerial = [t \in Threads |-> 0]
  /\ res = [t \in Threads |-> 0]

(* A thread calls sb_barrier_wait() and gets the mutex.  Its caller has    *)
(* not been turned away by an earlier round.                               *)
MayEnter(t) == pc[t] = "out" /\ res[t] # FAILED /\ mutex = NoThread

(* Not the last one: remember the round and block in pthread_cond_wait().  *)
EnterWait(t) ==
  /\ MayEnter(t)
  /\ count # 1
  /\ count' = count - 1
  /\ mySerial' = [mySerial EXCEPT ![t] = serial]
  /\ pc' = [pc EXCEPT ![t] = "wait"]
  /\ UNCHANGED <<serial, error, mutex, res>>

(* The last arrival starts the next round, broadcasts and keeps the mutex. *)
EnterLast(t) ==
  /\ MayEnter(t)
  /\ count = 1
  /\ serial' = (serial + 1) % SerialMod
  /\ count' = InitCount
  /\ mutex' = t
  /\ pc' = [u \in Threads |-> IF u = t THEN "callback"
                              ELSE IF pc[u] = "wait" THEN "woken" ELSE pc[u]]
  /\ UNCHANGED <<error, mySerial, res>>

(* The callback, if there is one, either succeeds or reports a failure.    *)
Callback(t) ==
  /\ pc[t] = "callback"
  /\ pc' = [pc EXCEPT ![t] = "unlock"]
  /\ \/ /\ res' = [res EXCEPT ![t] = SB_BARRIER_SERIAL_THREAD]
        /\ UNCHANGED error
     \/ /\ res' = [res EXCEPT ![t] = FAILED]
        /\ error' = 1
  /\ UNCHANGED <<count, serial, mutex, mySerial>>

Unlock(t) ==
  /\ pc[t] = "unlock"
  /\ pc' = [pc EXCEPT ![t] = "out"]
  /\ mutex' = NoThread
  /\ UNCHANGED <<count, serial, error, mySerial, res>>

SpuriousWakeup(t) ==
  /\ pc[t] = "wait"
  /\ pc' = [pc EXCEPT ![t] = "woken"]
  /\ UNCHANGED <<count, serial, error, mutex, mySerial, res>>

(* A woken waiter has the mutex again: same round, so wait on.             *)
WaitAgain(t) ==
  /\ pc[t] = "woken" /\ mutex = NoThread
  /\ mySerial[t] = serial
  /\ pc' = [pc EXCEPT ![t] = "wait"]
  /\ UNCHANGED <<count, serial, error, mutex, mySerial, res>>

(* Mutants of WaitDone: the verdict of the callback is ignored, a waiter   *)
(* leaves on any wakeup.                                                   *)
WaitDone_IgnoresError(t) ==
  /\ pc[t] = "woken" /\ mutex = NoThread
  /\ mySerial[t] # serial
  /\ pc' = [pc EXCEPT ![t] = "out"]
  /\ res' = [res EXCEPT ![t] = 0]
  /\ UNCHANGED <<count, serial, error, mutex, mySerial>>

WaitDone_AnyWakeup(t) ==
  /\ pc[t] = "woken" /\ mutex = NoThread
  /\ pc' = [pc EXCEPT ![t] = "out"]
  /\ res' = [res EXCEPT ![t] = IF error # 0 THEN FAILED ELSE 0]
  /\ UNCHANGED <<count, serial, error, mutex, mySerial>>

(* A woken waiter sees that its round is over and returns its verdict.     *)
WaitDone(t) ==
  /\ pc[t] = "woken" /\ mutex = NoThread
  /\ mySerial[t] # serial
  /\ pc' = [pc EXCEPT ![t] = "out"]
  /\ res' = [res EXCEPT ![t] = IF error # 0 THEN FAILED ELSE 0]
  /\ UNCHANGED <<count, serial, error, mutex, mySerial>>

(* The steps a thread inside sb_barrier_wait() takes by itself.            *)
Proceed(t) == Callback(t) \/ Unlock(t) \/ WaitAgain(t) \/ WaitDone(t)

Next == \E t \in Threads :
          EnterWait(t) \/ EnterLast(t) \/ SpuriousWakeup(t) \/ Proceed(t)

Safety == Init /\ [][Next]_vars

(* Threads inside the barrier keep running; entering it and waking up      *)
(* without a signal are never forced.                                      *)
Spec == Safety /\ \A t \in Threads : WF_vars(Proceed(t))

----------------------------------------------------------------------------
Waiting(t) == pc[t] \in {"wait", "woken"}

(* The waiters of the round that is still open.                            *)
Arrived == {t \in Threads : Waiting(t) /\ mySerial[t] = serial}

(* The variables of the barrier stay in their ranges; count never reaches  *)
(* zero outside the critical section, so the unsigned field cannot wrap.   *)
TypeOK ==
  /\ count \in 1 .. InitCount
  /\ serial \in 0 .. SerialMod - 1
  /\ error \in {0, 1}
  /\ mutex \in Threads \cup {NoThread}
  /\ pc \in [Threads -> {"out", "wait", "woken", "callback", "unlock"}]
  /\ mySerial \in [Threads -> 0 .. SerialMod - 1]
  /\ res \in [Threads -> {FAILED, 0, SB_BARRIER_SERIAL_THREAD}]

(* sb_barrier_wait() counts exactly the waiters of the open round, also    *)
(* while slow threads of the previous round have not woken up yet and fast *)
(* ones have already come back.                                            *)
CountMatchesWaiters == count = InitCount - Cardinality(Arrived)

(* A waiter of a finished round is always awake: no broadcast is lost and  *)
(* nobody sleeps through the end of its round.                             *)
NoMissedBroadcast ==
  \A t \in Threads : pc[t] = "wait" => mySerial[t] = serial

(* Comment of sb_barrier.c: when the callback signals an error,            *)
(* "sb_barrier_wait() returns a negative value to all callers".            *)
VerdictShared ==
  \A t \in Threads : pc[t] = "out" => (error # 0 <=> res[t] = FAILED)

(* The mutex is held across steps only by the last arrival of a round.     *)
MutexHolder ==
  \A t \in Threads : pc[t] \in {"callback", "unlock"} <=> mutex = t

(* While the callback runs every other participant is in the barrier,      *)
(* awake, and belongs to the round that has just been closed.              *)
CallbackSeesAll ==
  \A t, u \in Threads : pc[t] = "callback" /\ u # t =>
                           pc[u] = "woken" /\ mySerial[u] # serial

(* A failed round is the last one: its participants have returned -1 or    *)
(* are about to, and before it nobody has returned -1.                     *)
FailureIsFinal ==
  \A t \in Threads :
    IF error # 0
    THEN IF pc[t] \in {"out", "unlock"} THEN res[t] = FAILED
         ELSE pc[t] = "woken" /\ mySerial[t] # serial
    ELSE res[t] # FAILED

(* The inductive invariant behind the properties above.                    *)
BarrierInv ==
  /\ TypeOK /\ CountMatchesWaiters /\ NoMissedBroadcast
  /\ MutexHolder /\ CallbackSeesAll /\ FailureIsFinal

----------------------------------------------------------------------------
(* The barrier implements AbstractBarrier: the round is released when the  *)
(* callback has returned, and a waiter's verdict is fixed from then on.    *)
CallbackRunning == \E t \in Threads : pc[t] = "callback"

Released(t) ==
  \/ pc[t] = "unlock"
  \/ Waiting(t) /\ mySerial[t] # serial /\ ~CallbackRunning

AbsPhase ==
  [t \in Threads |-> IF pc[t] = "out" THEN "out"
                     ELSE IF Released(t) THEN "passed" ELSE "in"]

AbsOutcome ==
  [t \in Threads |-> IF Waiting(t) /\ Released(t)
                     THEN IF error # 0 THEN FAILED ELSE 0
                     ELSE res[t]]

Abs == INSTANCE AbstractBarrier WITH phase <- AbsPhase, outcome <- AbsOutcome

(* sb_barrier_wait() promises: nobody returns before all have arrived, one *)
(* caller per round is the serial thread, a failed callback fails everyone *)
(* in its round, and a released caller does return.                        *)
ImplementsAbstract == Abs!AbsSpec
============================================================================
