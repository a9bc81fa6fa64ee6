-------------------------------- MODULE Ring --------------------------------
(***************************************************************************)
(* ck_ring.h as sysbench uses it: one producer (the event generation       *)
(* thread) and many consumers (the workers) share a ring buffer without    *)
(* locks.  One step per access to shared memory, in program order (the     *)
(* fences of the code).  The unsigned head and tail counters wrap.         *)
(***************************************************************************)
EXTENDS Integers, Sequences, FiniteSets

CONSTANTS
  Consumers,
  Size,          \* number of slots, a power of two
  CounterMod,    \* the counters wrap here (2^32), a multiple of Size
  Starts,        \* counters of the empty ring at the start: 0 after
                 \* ck_ring_init(), other values after a long run
  MaxItems,      \* bound: how many values are enqueued
  Nothing

(* No consumer sleeps through a full turn of the counters.                 *)
ASSUME RingAssumption ==
  /\ Size \in Nat /\ Size >= 2
  /\ CounterMod \in Nat \ {0} /\ CounterMod % Size = 0
  /\ Starts \subseteq 0 .. CounterMod - 1
  /\ MaxItems \in Nat /\ MaxItems < CounterMod

VARIABLES
  cHead, pTail,  \* ring->c_head, ring->p_tail
  buffer,        \* the slots
  sent,          \* values enqueued so far; the k-th value is k
  prodPc,        \* where ck_ring_enqueue_spmc() is
  consPc,            \* where each ck_ring_dequeue_spmc() is
  consumer,      \* its snapshot of c_head
  data,          \* the value it has copied out of the ring
  got            \* what its last call returned, or Nothing

ringVars == <<cHead, pTail, buffer, sent, prodPc, consPc, consumer, data, got>>
consVars == <<consPc, consumer, data, got>>

Inc(n) == (n + 1) % CounterMod
Slot(n) == n % Size

RingInit ==
  /\ cHead \in Starts /\ pTail = cHead
  /\ buffer = [i \in 0 .. Size - 1 |-> 0]
  /\ sent = 0
  /\ prodPc = "idle"
  /\ consPc = [c \in Consumers |-> "idle"]
  /\ consumer = [c \in Consumers |-> 0]
  /\ data = [c \in Consumers |-> 0]
  /\ got = [c \in Consumers |-> Nothing]

----------------------------------------------------------------------------
(* _ck_ring_enqueue_sp(): load c_head, go on unless only one slot is free  *)
(* (it then returns false and changes nothing).                            *)
EnqueueCheck ==
  /\ prodPc = "idle" /\ sent < MaxItems
  /\ Slot(Inc(pTail)) # Slot(cHead)
  /\ prodPc' = "copy"
  /\ UNCHANGED <<cHead, pTail, buffer, sent, consVars>>

(* Mutant of EnqueueCopy: the value goes to the slot of the new tail.      *)
EnqueueCopy_NewTail ==
  /\ prodPc = "copy"
  /\ buffer' = [buffer EXCEPT ![Slot(Inc(pTail))] = sent + 1]
  /\ prodPc' = "publish"
  /\ UNCHANGED <<cHead, pTail, sent, consVars>>

EnqueueCopy ==
  /\ prodPc = "copy"
  /\ buffer' = [buffer EXCEPT ![Slot(pTail)] = sent + 1]
  /\ prodPc' = "publish"
  /\ UNCHANGED <<cHead, pTail, sent, consVars>>

EnqueuePublish ==
  /\ prodPc = "publish"
  /\ pTail' = Inc(pTail)
  /\ sent' = sent + 1
  /\ prodPc' = "idle"
  /\ UNCHANGED <<cHead, buffer, consVars>>

(* _ck_ring_dequeue_mc(): load c_head ...                                  *)
DequeueHead(c) ==
  /\ consPc[c] = "idle"
  /\ consumer' = [consumer EXCEPT ![c] = cHead]
  /\ consPc' = [consPc EXCEPT ![c] = "tail"]
  /\ UNCHANGED <<cHead, pTail, buffer, sent, prodPc, data, got>>

(* Mutant of DequeueTail: a ring with one value looks empty.               *)
DequeueTail_LeavesLast(c) ==
  /\ consPc[c] = "tail"
  /\ IF pTail \in {consumer[c], Inc(consumer[c])}
     THEN /\ consPc' = [consPc EXCEPT ![c] = "idle"]
          /\ got' = [got EXCEPT ![c] = Nothing]
     ELSE /\ consPc' = [consPc EXCEPT ![c] = "copy"]
          /\ UNCHANGED got
  /\ UNCHANGED <<cHead, pTail, buffer, sent, prodPc, consumer, data>>

(* ... load p_tail, and return false if the ring is empty ...              *)
DequeueTail(c) ==
  /\ consPc[c] = "tail"
  /\ IF consumer[c] = pTail
     THEN /\ consPc' = [consPc EXCEPT ![c] = "idle"]
          /\ got' = [got EXCEPT ![c] = Nothing]
     ELSE /\ consPc' = [consPc EXCEPT ![c] = "copy"]
          /\ UNCHANGED got
  /\ UNCHANGED <<cHead, pTail, buffer, sent, prodPc, consumer, data>>

(* ... copy the value out ...                                              *)
DequeueCopy(c) ==
  /\ consPc[c] = "copy"
  /\ data' = [data EXCEPT ![c] = buffer[Slot(consumer[c])]]
  /\ consPc' = [consPc EXCEPT ![c] = "cas"]
  /\ UNCHANGED <<cHead, pTail, buffer, sent, prodPc, consumer, got>>

(* ... and claim it, or start over from the head somebody else has moved.  *)
DequeueCas(c) ==
  /\ consPc[c] = "cas"
  /\ IF cHead = consumer[c]
     THEN /\ cHead' = Inc(cHead)
          /\ got' = [got EXCEPT ![c] = data[c]]
          /\ consPc' = [consPc EXCEPT ![c] = "idle"]
          /\ UNCHANGED consumer
     ELSE /\ consumer' = [consumer EXCEPT ![c] = cHead]
          /\ consPc' = [consPc EXCEPT ![c] = "tail"]
          /\ UNCHANGED <<cHead, got>>
  /\ UNCHANGED <<pTail, buffer, sent, prodPc, data>>

ck_ring_dequeue_spmc(c) ==
  DequeueHead(c) \/ DequeueTail(c) \/ DequeueCopy(c) \/ DequeueCas(c)
ck_ring_enqueue_spmc == EnqueueCheck \/ EnqueueCopy \/ EnqueuePublish

RingNext == ck_ring_enqueue_spmc \/ \E c \in Consumers : ck_ring_dequeue_spmc(c)

RingFairness ==
  /\ WF_ringVars(ck_ring_enqueue_spmc)
  /\ \A c \in Consumers : WF_ringVars(ck_ring_dequeue_spmc(c))

RingSpec == RingInit /\ [][RingNext]_ringVars /\ RingFairness

----------------------------------------------------------------------------
(* ck_ring_size() *)
RingLength == (pTail - cHead) % Size

(* The abstract queue: the values between head and tail.                   *)
Items == [k \in 1 .. RingLength |-> buffer[Slot(cHead + k - 1)]]

Queue == INSTANCE AbstractQueue WITH
           items <- Items, Capacity <- Size - 1, Values <- 1 .. MaxItems

(* The lock-free ring behaves as a FIFO queue of atomic operations: no     *)
(* value is lost, duplicated, reordered or torn, whatever the race on the  *)
(* head, across the wrap-around of the counters.                           *)
ImplementsQueue == Queue!AbsSpec

(* The compare-and-swap loop makes progress: while a value is queued, some *)
(* consumer keeps taking values until the ring is empty again.             *)
Drains == (RingLength > 0 /\ sent = MaxItems) ~> (RingLength = 0)
============================================================================
