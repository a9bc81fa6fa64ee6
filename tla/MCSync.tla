------------------------------- MODULE MCSync -------------------------------
(***************************************************************************)
(* The two synchronization primitives that sysbench brings along, checked  *)
(* side by side: the thread barrier and the lock-free ring.  A behaviour   *)
(* exercises one of them, which the variable part selects.  The round      *)
(* number of the barrier and the counters of the ring wrap early, so that  *)
(* reuse and wrap-around happen.                                           *)
(***************************************************************************)
EXTENDS Barrier, Ring

VARIABLE part

SyncInit ==
  /\ part \in {"barrier", "ring"}
  /\ Init /\ RingInit /\ (part = "barrier" => cHead = 0)

BarrierStep == part = "barrier" /\ Next /\ UNCHANGED <<part, ringVars>>
RingStep == part = "ring" /\ RingNext /\ UNCHANGED <<part, vars>>

SyncFairness ==
  /\ \A t \in Threads : WF_vars(part = "barrier" /\ Proceed(t))
  /\ WF_ringVars(part = "ring" /\ ck_ring_enqueue_spmc)
  /\ \A c \in Consumers : WF_ringVars(part = "ring" /\ ck_ring_dequeue_spmc(c))

SyncSpec ==
  SyncInit /\ [][BarrierStep \/ RingStep]_<<part, vars, ringVars>> /\ SyncFairness
=============================================================================
