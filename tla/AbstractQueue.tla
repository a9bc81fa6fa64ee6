--------------------------- MODULE AbstractQueue ---------------------------
(***************************************************************************)
(* What ck_ring_enqueue_spmc() and ck_ring_dequeue_spmc() promise: a       *)
(* bounded FIFO queue whose operations take effect in one step each.       *)
(***************************************************************************)
EXTENDS Integers, Sequences

CONSTANTS Consumers, Capacity, Values, Nothing

VARIABLES
  items,   \* queued values, oldest first
  got      \* the value each consumer's last dequeue returned, or Nothing

absVars == <<items, got>>

AbsInit == items = <<>> /\ got = [c \in Consumers |-> Nothing]

Enqueue(v) ==
  /\ Len(items) < Capacity
  /\ items' = Append(items, v)
  /\ UNCHANGED got

Dequeue(c) ==
  /\ items # <<>>
  /\ got' = [got EXCEPT ![c] = Head(items)]
  /\ items' = Tail(items)

DequeueEmpty(c) ==
  /\ items = <<>>
  /\ got' = [got EXCEPT ![c] = Nothing]
  /\ UNCHANGED items

AbsNext == \/ \E v \in Values : Enqueue(v)
           \/ \E c \in Consumers : Dequeue(c) \/ DequeueEmpty(c)

AbsSpec == AbsInit /\ [][AbsNext]_absVars
============================================================================
