--------------------------- MODULE BarrierProofs ----------------------------
(***************************************************************************)
(* The barrier, whose round number wraps, keeps its invariant for any number*)
(* of threads and any number of rounds, and implements AbstractBarrier.    *)
(***************************************************************************)
EXTENDS Barrier, FiniteSetTheorems, TLAPS

(* The barrier.                                                            *)

USE DEF FAILED, SB_BARRIER_SERIAL_THREAD

(* The barrier is sized for a positive number of threads.                  *)
LEMMA InitCountType == InitCount \in Nat /\ InitCount >= 1
<1>1. InitCount \in Nat
  BY BarrierAssumption, FS_CardinalityType DEF InitCount
<1>2. InitCount # 0
  BY BarrierAssumption, FS_EmptySet DEF InitCount
<1> QED
  BY <1>1, <1>2

(* Opening a new round always changes the unsigned round number.           *)
LEMMA SerialMoves ==
  ASSUME NEW s \in 0 .. SerialMod - 1
  PROVE  /\ (s + 1) % SerialMod \in 0 .. SerialMod - 1
         /\ (s + 1) % SerialMod # s
<1>1. CASE s + 1 = SerialMod
  BY <1>1, SerialModAssumption
<1>2. CASE s + 1 # SerialMod
  <2>1. s + 1 \in 0 .. SerialMod - 1
    BY <1>2, SerialModAssumption
  <2>2. (s + 1) % SerialMod = s + 1
    BY <2>1, SerialModAssumption
  <2> QED BY <2>1, <2>2
<1> QED
  BY <1>1, <1>2

(* A set of threads that does not hold t, and misses only one member of    *)
(* Threads, is everybody but t.                                            *)
LEMMA OneMissing ==
  ASSUME NEW A \in SUBSET Threads, NEW t \in Threads, t \notin A,
         Cardinality(A) = InitCount - 1
  PROVE  A = Threads \ {t}
<1>1. IsFiniteSet(Threads \ {t}) /\ Cardinality(Threads \ {t}) = InitCount - 1
  BY BarrierAssumption, FS_RemoveElement DEF InitCount
<1>2. A \subseteq Threads \ {t}
  OBVIOUS
<1> QED
  BY <1>1, <1>2, FS_Subset

LEMMA InitEstablishes == Init => BarrierInv
<1> SUFFICES ASSUME Init PROVE BarrierInv
  OBVIOUS
<1> USE DEF Init
<1>1. TypeOK
  BY InitCountType, SerialModAssumption DEF TypeOK
<1>2. Arrived = {}
  BY DEF Arrived, Waiting
<1>3. CountMatchesWaiters
  BY <1>2, InitCountType, FS_EmptySet DEF CountMatchesWaiters
<1>4. MutexHolder
  BY BarrierAssumption DEF MutexHolder
<1> QED
  BY <1>1, <1>3, <1>4 DEF BarrierInv, NoMissedBroadcast, CallbackSeesAll, FailureIsFinal

(* A step that leaves the waiters of the open round alone keeps the count. *)
LEMMA SameArrived ==
  ASSUME CountMatchesWaiters, Arrived' = Arrived, count' = count
  PROVE  CountMatchesWaiters'
BY DEF CountMatchesWaiters, InitCount

LEMMA EnterWaitPreserves ==
  ASSUME BarrierInv, NEW t \in Threads, EnterWait(t)
  PROVE  BarrierInv'
<1> USE DEF BarrierInv, EnterWait, MayEnter
<1>1. TypeOK'
  BY InitCountType DEF TypeOK
<1>2. /\ t \notin Arrived
      /\ Arrived' = Arrived \cup {t}
  BY DEF Arrived, Waiting, TypeOK
<1>3. IsFiniteSet(Arrived)
  BY BarrierAssumption, FS_Subset DEF Arrived
<1>4. Cardinality(Arrived') = Cardinality(Arrived) + 1
  BY Zenon, <1>2, <1>3, FS_AddElement
<1>5. CountMatchesWaiters'
  BY <1>3, <1>4, InitCountType, FS_CardinalityType DEF CountMatchesWaiters, InitCount
<1>6. NoMissedBroadcast' /\ MutexHolder' /\ CallbackSeesAll' /\ FailureIsFinal'
  BY BarrierAssumption
     DEF TypeOK, NoMissedBroadcast, MutexHolder, CallbackSeesAll, FailureIsFinal
<1> QED
  BY <1>1, <1>5, <1>6

(* When one arrival is missing and t arrives, all others wait in t's round. *)
LEMMA LastSeesAll ==
  ASSUME BarrierInv, NEW t \in Threads, MayEnter(t), count = 1
  PROVE  \A u \in Threads \ {t} : Waiting(u) /\ mySerial[u] = serial
<1>1. t \notin Arrived /\ Arrived \in SUBSET Threads
  BY DEF MayEnter, Arrived, Waiting
<1>2. Cardinality(Arrived) \in Nat
  BY <1>1, BarrierAssumption, FS_Subset, FS_CardinalityType
<1>3. Cardinality(Arrived) = InitCount - 1
  BY <1>2, InitCountType DEF BarrierInv, CountMatchesWaiters
<1>4. Arrived = Threads \ {t}
  BY <1>1, <1>3, OneMissing
<1> QED
  BY <1>4 DEF Arrived

LEMMA EnterLastPreserves ==
  ASSUME BarrierInv, NEW t \in Threads, EnterLast(t)
  PROVE  BarrierInv'
<1> USE DEF BarrierInv, EnterLast
<1>1. \A u \in Threads \ {t} : Waiting(u) /\ mySerial[u] = serial
  BY Zenon, LastSeesAll
<1>2. serial' \in 0 .. SerialMod - 1 /\ serial' # serial
  BY SerialMoves DEF TypeOK
<1>3. TypeOK'
  BY <1>2, InitCountType DEF TypeOK
<1>4. \A u \in Threads \ {t} : pc'[u] = "woken" /\ mySerial'[u] # serial'
  BY Zenon, <1>1, <1>2 DEF Waiting
<1>5. pc'[t] = "callback"
  OBVIOUS
<1>6. Arrived' = {}
  BY Zenon, <1>4, <1>5 DEF Arrived, Waiting
<1>7. CountMatchesWaiters'
  BY <1>6, InitCountType, FS_EmptySet DEF CountMatchesWaiters, InitCount
<1>8. error = 0
  BY DEF MayEnter, FailureIsFinal
<1>9. MutexHolder'
  BY <1>4, <1>5 DEF MutexHolder
<1> QED
  BY <1>3, <1>4, <1>5, <1>7, <1>8, <1>9
     DEF NoMissedBroadcast, CallbackSeesAll, FailureIsFinal

LEMMA ProceedPreserves ==
  ASSUME BarrierInv, NEW t \in Threads, Proceed(t) \/ SpuriousWakeup(t)
  PROVE  BarrierInv'
<1> USE DEF BarrierInv
<1>1. CASE Callback(t)
  <2> USE <1>1 DEF Callback
  <2>1. TypeOK'
    BY DEF TypeOK
  <2>2. CountMatchesWaiters'
    <3>1. Arrived' = Arrived
      BY DEF Arrived, Waiting, TypeOK
    <3> QED BY <3>1, SameArrived
  <2>3. NoMissedBroadcast' /\ MutexHolder'
    BY DEF TypeOK, NoMissedBroadcast, MutexHolder
  <2>4. CallbackSeesAll'
    BY DEF TypeOK, CallbackSeesAll
  <2>5. FailureIsFinal'
    BY DEF TypeOK, CallbackSeesAll, FailureIsFinal
  <2> QED BY <2>1, <2>2, <2>3, <2>4, <2>5
<1>2. CASE Unlock(t)
  <2> USE <1>2 DEF Unlock
  <2>1. TypeOK'
    BY DEF TypeOK
  <2>2. CountMatchesWaiters'
    <3>1. Arrived' = Arrived
      BY DEF Arrived, Waiting, TypeOK
    <3> QED BY <3>1, SameArrived
  <2>3. NoMissedBroadcast' /\ CallbackSeesAll' /\ FailureIsFinal'
    BY DEF TypeOK, NoMissedBroadcast, CallbackSeesAll, FailureIsFinal
  <2>4. MutexHolder'
    BY BarrierAssumption DEF TypeOK, MutexHolder
  <2> QED BY <2>1, <2>2, <2>3, <2>4
<1>3. CASE WaitDone(t)
  <2> USE <1>3 DEF WaitDone
  <2>1. TypeOK'
    BY DEF TypeOK
  <2>2. CountMatchesWaiters'
    <3>1. Arrived' = Arrived
      BY DEF Arrived, Waiting, TypeOK
    <3> QED BY <3>1, SameArrived
  <2>3. NoMissedBroadcast' /\ MutexHolder' /\ FailureIsFinal'
    BY BarrierAssumption DEF TypeOK, NoMissedBroadcast, MutexHolder, FailureIsFinal
  <2>4. CallbackSeesAll'
    BY BarrierAssumption DEF TypeOK, MutexHolder, CallbackSeesAll
  <2> QED BY <2>1, <2>2, <2>3, <2>4
<1>4. CASE WaitAgain(t) \/ SpuriousWakeup(t)
  <2> USE <1>4 DEF WaitAgain, SpuriousWakeup
  <2>1. TypeOK'
    BY DEF TypeOK
  <2>2. CountMatchesWaiters'
    <3>1. Arrived' = Arrived
      BY DEF Arrived, Waiting, TypeOK
    <3> QED BY <3>1, SameArrived
  <2>3. NoMissedBroadcast' /\ MutexHolder'
    BY Zenon, BarrierAssumption DEF TypeOK, NoMissedBroadcast, MutexHolder
  <2>4. CallbackSeesAll' /\ FailureIsFinal'
    BY BarrierAssumption DEF TypeOK, MutexHolder, CallbackSeesAll, FailureIsFinal
  <2> QED BY <2>1, <2>2, <2>3, <2>4
<1> QED
  BY <1>1, <1>2, <1>3, <1>4 DEF Proceed

LEMMA StutterPreserves == BarrierInv /\ UNCHANGED vars => BarrierInv'
BY DEF BarrierInv, vars, TypeOK, CountMatchesWaiters, Arrived, Waiting,
       NoMissedBroadcast, MutexHolder, CallbackSeesAll, FailureIsFinal, InitCount

(* Every reachable state of the barrier satisfies the inductive invariant. *)
THEOREM BarrierInvariant == Safety => []BarrierInv
<1>1. BarrierInv /\ [Next]_vars => BarrierInv'
  BY EnterWaitPreserves, EnterLastPreserves, ProceedPreserves, StutterPreserves
     DEF Next
<1> QED
  BY <1>1, InitEstablishes, PTL DEF Safety

(* sb_barrier_wait() gives a failed callback's verdict to all callers and  *)
(* to no caller of an earlier round.                                       *)
THEOREM SharedVerdict == Spec => []VerdictShared
<1>1. BarrierInv => VerdictShared
  BY DEF BarrierInv, FailureIsFinal, VerdictShared
<1> QED
  BY <1>1, BarrierInvariant, PTL DEF Spec

----------------------------------------------------------------------------
(* Refinement: every step of the barrier is a step of AbstractBarrier or   *)
(* leaves the abstract state alone.                                        *)
LEMMA InitRefines == Init => Abs!AbsInit
BY DEF Init, Abs!AbsInit, AbsPhase, AbsOutcome, Waiting, Released

LEMMA EnterRefines ==
  ASSUME BarrierInv, NEW t \in Threads, EnterWait(t) \/ EnterLast(t)
  PROVE  Abs!Arrive(t)
<1> USE DEF BarrierInv
<1>1. pc[t] = "out" /\ res[t] # FAILED /\ mutex = NoThread
  BY DEF EnterWait, EnterLast, MayEnter
<1>2. ~CallbackRunning
  BY <1>1, BarrierAssumption DEF CallbackRunning, MutexHolder
<1>3. AbsPhase[t] = "out" /\ AbsOutcome[t] # FAILED
  BY <1>1 DEF AbsPhase, AbsOutcome, Waiting
<1>4. CASE EnterWait(t)
  <2>1. ~CallbackRunning'
    BY <1>2, <1>4 DEF CallbackRunning, EnterWait, TypeOK
  <2>2. \A u \in Threads : Released(u)' <=> Released(u)
    BY <1>1, <1>2, <1>4, <2>1 DEF EnterWait, Released, Waiting, TypeOK
  <2>3. AbsPhase' = [AbsPhase EXCEPT ![t] = "in"]
    BY Zenon, <1>1, <1>4, <2>2 DEF EnterWait, AbsPhase, TypeOK, Released, Waiting
  <2>4. AbsOutcome' = AbsOutcome
    BY <1>1, <1>4, <2>2 DEF EnterWait, AbsOutcome, TypeOK, Released, Waiting
  <2> QED BY <1>3, <2>3, <2>4 DEF Abs!Arrive, Abs!FAILED
<1>5. CASE EnterLast(t)
  <2>1. \A u \in Threads \ {t} : Waiting(u) /\ mySerial[u] = serial
    BY Zenon, <1>5, LastSeesAll DEF EnterLast
  <2>2. CallbackRunning'
    BY <1>5 DEF CallbackRunning, EnterLast
  <2>3. \A u \in Threads : ~Released(u) /\ ~Released(u)'
    BY <1>1, <1>5, <2>1, <2>2 DEF Released, EnterLast, Waiting
  <2>4. \A u \in Threads : pc'[u] # "out" /\ (u # t => pc[u] # "out")
    BY <1>5, <2>1 DEF EnterLast, Waiting
  <2>5. AbsPhase' = [AbsPhase EXCEPT ![t] = "in"]
    BY Zenon, <2>3, <2>4 DEF AbsPhase
  <2>6. AbsOutcome' = AbsOutcome
    BY Zenon, <1>5, <2>3 DEF EnterLast, AbsOutcome
  <2> QED BY <1>3, <2>5, <2>6 DEF Abs!Arrive, Abs!FAILED
<1> QED
  BY <1>4, <1>5

LEMMA CallbackRefines ==
  ASSUME BarrierInv, NEW t \in Threads, Callback(t)
  PROVE  Abs!Release
<1> USE DEF BarrierInv, Callback
<1>1. \A u \in Threads \ {t} : pc[u] = "woken" /\ pc'[u] = "woken"
                                 /\ mySerial'[u] # serial'
  BY DEF CallbackSeesAll, TypeOK
<1>2. pc'[t] = "unlock"
  BY DEF TypeOK
<1>3. CallbackRunning /\ ~CallbackRunning'
  BY <1>1, <1>2 DEF CallbackRunning
<1>4. \A u \in Threads : AbsPhase[u] = "in"
  BY <1>1, <1>3 DEF AbsPhase, Released
<1>5. \A u \in Threads : Released(u)' /\ pc'[u] # "out"
  BY <1>1, <1>2, <1>3 DEF Released, Waiting
<1>6. AbsPhase' = [u \in Threads |-> "passed"]
  BY <1>5 DEF AbsPhase
<1>7. error = 0
  BY DEF FailureIsFinal, TypeOK
<1>8. \E failed \in BOOLEAN : AbsOutcome' = Abs!Verdict(t, failed)
  <2> USE DEF Abs!Verdict, Abs!FAILED, Abs!SERIAL_THREAD
  <2>1. AbsOutcome' = [u \in Threads |-> IF u = t THEN res'[t]
                                        ELSE IF error' # 0 THEN FAILED ELSE 0]
    BY <1>1, <1>2, <1>5 DEF AbsOutcome, Waiting
  <2>2. CASE res' = [res EXCEPT ![t] = SB_BARRIER_SERIAL_THREAD] /\ error' = error
    <3>1. AbsOutcome' = Abs!Verdict(t, FALSE)
      BY <1>7, <2>1, <2>2 DEF TypeOK
    <3> QED BY Zenon, <3>1
  <2>3. CASE res' = [res EXCEPT ![t] = FAILED] /\ error' = 1
    <3>1. AbsOutcome' = Abs!Verdict(t, TRUE)
      BY <2>1, <2>3 DEF TypeOK
    <3> QED BY Zenon, <3>1
  <2> QED BY <2>2, <2>3
<1> QED
  BY Zenon, <1>4, <1>6, <1>8 DEF Abs!Release

LEMMA ReturnRefines ==
  ASSUME BarrierInv, NEW t \in Threads, Unlock(t) \/ WaitDone(t)
  PROVE  Abs!Leave(t)
<1> USE DEF BarrierInv, Unlock, WaitDone
<1>1. ~CallbackRunning /\ ~CallbackRunning'
  BY BarrierAssumption DEF CallbackRunning, MutexHolder, TypeOK
<1>2. Released(t) /\ pc[t] # "out" /\ pc'[t] = "out"
  BY <1>1 DEF Released, Waiting, TypeOK
<1>3. \A u \in Threads \ {t} : /\ pc'[u] = pc[u] /\ res'[u] = res[u]
                              /\ (Released(u)' <=> Released(u))
  BY <1>1 DEF Released, Waiting, TypeOK
<1>4. AbsPhase' = [AbsPhase EXCEPT ![t] = "out"]
  BY Zenon, <1>2, <1>3 DEF AbsPhase
<1>5. AbsOutcome'[t] = AbsOutcome[t]
  BY <1>1, <1>2 DEF AbsOutcome, Waiting, Released, TypeOK
<1>6. AbsOutcome' = AbsOutcome
  BY Zenon, <1>3, <1>5 DEF AbsOutcome, Waiting
<1> QED
  BY Zenon, <1>2, <1>4, <1>6 DEF Abs!Leave, AbsPhase

LEMMA WakeupRefines ==
  ASSUME BarrierInv, NEW t \in Threads, SpuriousWakeup(t) \/ WaitAgain(t)
  PROVE  UNCHANGED <<AbsPhase, AbsOutcome>>
<1> USE DEF BarrierInv, SpuriousWakeup, WaitAgain
<1>1. \A u \in Threads : /\ (Waiting(u)' <=> Waiting(u))
                          /\ (pc'[u] = "out" <=> pc[u] = "out")
                          /\ (pc'[u] = "unlock" <=> pc[u] = "unlock")
                          /\ (pc'[u] = "callback" <=> pc[u] = "callback")
  BY DEF Waiting, TypeOK
<1>2. \A u \in Threads : Released(u)' <=> Released(u)
  BY Zenon, <1>1 DEF Released, CallbackRunning
<1> QED
  BY Zenon, <1>1, <1>2 DEF AbsPhase, AbsOutcome

(* sb_barrier_wait() implements the abstract barrier, for any number of    *)
(* threads, rounds and spurious wake-ups (its safety part; that released   *)
(* callers do return is left to model checking).                           *)
THEOREM BarrierRefinement == Spec => Abs!AbsSafety
<1>1. BarrierInv /\ [Next]_vars => [Abs!AbsNext]_<<AbsPhase, AbsOutcome>>
  <2> SUFFICES ASSUME BarrierInv, [Next]_vars
               PROVE  [Abs!AbsNext]_<<AbsPhase, AbsOutcome>>
    OBVIOUS
  <2>1. CASE UNCHANGED vars
    BY <2>1 DEF vars, AbsPhase, AbsOutcome, Waiting, Released, CallbackRunning
  <2>2. CASE Next
    BY <2>2, EnterRefines, CallbackRefines, ReturnRefines, WakeupRefines
       DEF Next, Proceed, Abs!AbsNext
  <2> QED BY <2>1, <2>2
<1> QED
  BY <1>1, InitRefines, BarrierInvariant, PTL DEF Spec, Safety, Abs!AbsSafety, Abs!absVars
=============================================================================
