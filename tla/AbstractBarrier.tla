-------------------------- MODULE AbstractBarrier --------------------------
(***************************************************************************)
(* What sb_barrier_wait() promises to its callers, without saying how.     *)
(* The callers arrive one by one.  When the last one has arrived the whole *)
(* round is released in one step: one caller is told that it is the serial *)
(* thread, the others get 0, or, if the callback reports a failure, every  *)
(* caller gets a negative value.  Only then may anybody leave.             *)
(*                                                                         *)
(* A caller that got a negative value does not wait on the barrier again:  *)
(* that is what every caller of sb_barrier_wait() in sysbench.c does.      *)
(***************************************************************************)
EXTENDS Integers

VARIABLES
  Threads,   \* who takes part: sb_barrier_init() fixes it for the whole run
  phase,     \* "out": not waiting, "in": arrived, "passed": released
  outcome    \* what the last (or the current, once released) wait returns

absVars == <<phase, outcome>>

FAILED == -1
SERIAL_THREAD == 1

AbsTypeOK ==
  /\ phase \in [Threads -> {"out", "in", "passed"}]
  /\ outcome \in [Threads -> {FAILED, 0, SERIAL_THREAD}]

AbsInit ==
  /\ phase = [t \in Threads |-> "out"]
  /\ outcome = [t \in Threads |-> 0]

Arrive(t) ==
  /\ phase[t] = "out"
  /\ outcome[t] # FAILED
  /\ phase' = [phase EXCEPT ![t] = "in"]
  /\ UNCHANGED outcome

Verdict(serial, failed) ==
  [t \in Threads |-> IF failed THEN FAILED
                     ELSE IF t = serial THEN SERIAL_THREAD ELSE 0]

Release ==
  /\ \A t \in Threads : phase[t] = "in"
  /\ phase' = [t \in Threads |-> "passed"]
  /\ \E serial \in Threads, failed \in BOOLEAN : outcome' = Verdict(serial, failed)

Leave(t) ==
  /\ phase[t] = "passed"
  /\ phase' = [phase EXCEPT ![t] = "out"]
  /\ UNCHANGED outcome

AbsNext == Release \/ \E t \in Threads : Arrive(t) \/ Leave(t)

AbsSafety == AbsInit /\ [][AbsNext]_absVars

(* A complete round is released and each of its callers then returns.      *)
AbsSpec == AbsSafety /\ WF_absVars(Release) /\ \A t \in Threads : WF_absVars(Leave(t))
============================================================================
