----------------------------- MODULE Histogram -----------------------------
(***************************************************************************)
(* sb_histogram.c: the latency histogram.  Workers increment cells of      *)
(* randomly chosen slot arrays with atomic instructions and never block;   *)
(* readers hold the lock, move the cells one by one into an aggregate with *)
(* fetch-and-store, and compute a percentile.  One step per cell moved.    *)
(***************************************************************************)
EXTENDS Integers, FiniteSets, FiniteSetsExt, Sums

CONSTANTS
  Readers,       \* threads that call sb_histogram_get_pct_*() and _print()
  NoReader,
  NSlots,        \* SB_HISTOGRAM_NSLOTS
  Size,          \* array_size
  Percentile,    \* the percentile asked for, 0 .. 100
  Ops,           \* what readers call: subset of OpKinds
  MaxUpdates     \* bound: number of updates

OpKinds == {"intermediate", "cumulative", "checkpoint", "print"}

ASSUME HistogramAssumption ==
  /\ NSlots \in Nat \ {0} /\ Size \in Nat \ {0} /\ Ops \subseteq OpKinds
  /\ NoReader \notin Readers


Slots == 0 .. NSlots - 1
Buckets == 0 .. Size - 1

VARIABLES
  slots,       \* interm_slots
  cum,         \* cumulative_array
  cumN,        \* cumulative_nevents
  temp,        \* temp_array
  lock,        \* the reader that holds the lock, or NoReader
  at, op,      \* where each reader is and what it has called
  pos,         \* cells moved so far, in slot-major order
  nevents,     \* the local variable nevents
  pct,         \* the bucket of the last percentile
  added,       \* updates of each bucket so far
  dropped      \* updates of each bucket forgotten by checkpoints

histogramVars == <<slots, cum, cumN, temp, lock, at, op, pos, nevents, pct, added, dropped>>
readerVars == <<lock, at, op, pos, nevents, pct>>

NoValues == [i \in Buckets |-> 0]
Total(array) == SumUpTo(array, Size)
Prefix(array, i) == SumUpTo(array, i + 1)
InSlots(i) == SumUpTo([s \in Slots |-> slots[s][i]], NSlots)

HistogramInit ==
  /\ slots = [s \in Slots |-> NoValues]
  /\ cum = NoValues /\ cumN = 0 /\ temp = NoValues
  /\ lock = NoReader
  /\ at = [r \in Readers |-> "idle"]
  /\ op = [r \in Readers |-> "intermediate"]
  /\ pos = [r \in Readers |-> 0]
  /\ nevents = [r \in Readers |-> 0]
  /\ pct = [r \in Readers |-> 0]
  /\ added = NoValues /\ dropped = NoValues

(* The bucket of a value: values outside the range count in the end        *)
(* buckets.  The logarithmic scale is abstracted to the raw index i.       *)
Clamp(i) == IF i < 0 THEN 0 ELSE IF i >= Size THEN Size - 1 ELSE i

Update ==
  /\ Total(added) < MaxUpdates
  /\ \E s \in Slots, raw \in -1 .. Size :
       /\ slots' = [slots EXCEPT ![s][Clamp(raw)] = @ + 1]
       /\ added' = [added EXCEPT ![Clamp(raw)] = @ + 1]
  /\ UNCHANGED <<cum, cumN, temp, dropped, readerVars>>

----------------------------------------------------------------------------
Call(r) ==
  /\ at[r] = "idle"
  /\ op' \in {[op EXCEPT ![r] = o] : o \in Ops}
  /\ at' = [at EXCEPT ![r] = "want"]
  /\ UNCHANGED <<slots, cum, cumN, temp, lock, pos, nevents, pct, added, dropped>>

(* pthread_rwlock_wrlock(): it fails for a thread that still holds the     *)
(* lock, and as nobody looks at the result the call just goes on.  The     *)
(* cumulative functions count on from cumulative_nevents.                  *)
Lock(r) ==
  /\ at[r] = "want" /\ lock \in {NoReader, r}
  /\ lock' = r
  /\ nevents' = [nevents EXCEPT ![r] = IF op[r] = "intermediate" THEN 0 ELSE cumN]
  /\ pos' = [pos EXCEPT ![r] = 0]
  /\ at' = [at EXCEPT ![r] = "merge"]
  /\ UNCHANGED <<slots, cum, cumN, temp, op, pct, added, dropped>>

(* Mutant of MoveCell: slot 0 does not overwrite the temporary array.      *)
MoveCell_StaleTemp(r) ==
  /\ at[r] = "merge" /\ pos[r] < NSlots * Size
  /\ LET s == pos[r] \div Size
         i == pos[r] % Size
         t == slots[s][i]
     IN /\ slots' = [slots EXCEPT ![s][i] = 0]
        /\ nevents' = [nevents EXCEPT ![r] = @ + t]
        /\ IF op[r] = "intermediate"
           THEN temp' = [temp EXCEPT ![i] = @ + t] /\ UNCHANGED cum
           ELSE cum' = [cum EXCEPT ![i] = @ + t] /\ UNCHANGED temp
  /\ pos' = [pos EXCEPT ![r] = @ + 1]
  /\ UNCHANGED <<cumN, lock, at, op, pct, added, dropped>>

(* Move one cell: into temp_array for the intermediate percentile (slot 0  *)
(* overwrites what is left there), into cumulative_array for the others.   *)
MoveCell(r) ==
  /\ at[r] = "merge" /\ pos[r] < NSlots * Size
  /\ LET s == pos[r] \div Size
         i == pos[r] % Size
         t == slots[s][i]
     IN /\ slots' = [slots EXCEPT ![s][i] = 0]
        /\ nevents' = [nevents EXCEPT ![r] = @ + t]
        /\ IF op[r] = "intermediate"
           THEN /\ temp' = [temp EXCEPT ![i] = IF s = 0 THEN t ELSE @ + t]
                /\ UNCHANGED cum
           ELSE /\ cum' = [cum EXCEPT ![i] = @ + t]
                /\ UNCHANGED temp
  /\ pos' = [pos EXCEPT ![r] = @ + 1]
  /\ UNCHANGED <<cumN, lock, at, op, pct, added, dropped>>

(* floor(n * percentile / 100 + 0.5) *)
Rank(n) == (2 * n * Percentile + 100) \div 200

(* The first bucket at which the running sum reaches the rank, or Size.    *)
PctBucket(array, n) ==
  Min({i \in Buckets : Prefix(array, i) >= Rank(n)} \cup {Size})

Merged(r) == at[r] = "merge" /\ pos[r] = NSlots * Size
ReleaseLock(r) == lock' = NoReader /\ at' = [at EXCEPT ![r] = "idle"]

FinishIntermediate(r) ==
  /\ Merged(r) /\ op[r] = "intermediate"
  /\ pct' = [pct EXCEPT ![r] = PctBucket(temp, nevents[r])]
  /\ cum' = [i \in Buckets |-> cum[i] + temp[i]]
  /\ cumN' = cumN + nevents[r]
  /\ ReleaseLock(r)
  /\ UNCHANGED <<slots, temp, op, pos, nevents, added, dropped>>

(* Mutant of FinishCumulative: the lock is not released.                   *)
FinishCumulative_KeepsLock(r) ==
  /\ Merged(r) /\ op[r] = "cumulative"
  /\ cumN' = nevents[r]
  /\ pct' = [pct EXCEPT ![r] = PctBucket(cum, nevents[r])]
  /\ at' = [at EXCEPT ![r] = "idle"]
  /\ UNCHANGED <<slots, cum, temp, lock, op, pos, nevents, added, dropped>>

FinishCumulative(r) ==
  /\ Merged(r) /\ op[r] = "cumulative"
  /\ cumN' = nevents[r]
  /\ pct' = [pct EXCEPT ![r] = PctBucket(cum, nevents[r])]
  /\ ReleaseLock(r)
  /\ UNCHANGED <<slots, cum, temp, op, pos, nevents, added, dropped>>

FinishCheckpoint(r) ==
  /\ Merged(r) /\ op[r] = "checkpoint"
  /\ pct' = [pct EXCEPT ![r] = PctBucket(cum, nevents[r])]
  /\ cum' = NoValues /\ cumN' = 0
  /\ dropped' = [i \in Buckets |-> dropped[i] + cum[i]]
  /\ ReleaseLock(r)
  /\ UNCHANGED <<slots, temp, op, pos, nevents, added>>

(* sb_histogram_print() returns early, with the lock held, if there is     *)
(* nothing to print.                                                       *)
FinishPrint(r) ==
  /\ Merged(r) /\ op[r] = "print"
  /\ cumN' = nevents[r]
  /\ at' = [at EXCEPT ![r] = "idle"]
  /\ lock' = IF \A i \in Buckets : cum[i] = 0 THEN lock ELSE NoReader
  /\ UNCHANGED <<slots, cum, temp, op, pos, nevents, pct, added, dropped>>

ReaderStep(r) == MoveCell(r) \/ FinishIntermediate(r) \/ FinishCumulative(r)
                \/ FinishCheckpoint(r) \/ FinishPrint(r)

HistogramNext == Update \/ \E r \in Readers : Call(r) \/ Lock(r) \/ ReaderStep(r)

(* A reader that has the lock goes on, and one that waits for the lock     *)
(* gets it if it becomes free again and again.                             *)
HistogramFairness == \A r \in Readers : WF_histogramVars(ReaderStep(r)) /\ SF_histogramVars(Lock(r))

HistogramSpec == HistogramInit /\ [][HistogramNext]_histogramVars /\ HistogramFairness

----------------------------------------------------------------------------
(* What the reader of the intermediate percentile has moved of bucket i.   *)
InTemp(i) ==
  IF \E r \in Readers : at[r] = "merge" /\ op[r] = "intermediate" /\ pos[r] > i
  THEN temp[i] ELSE 0

(* sb_histogram.h: values are merged "in a way that no concurrent updates  *)
(* are lost", and none is counted twice, at every point of every merge.    *)
NothingLost ==
  \A i \in Buckets :
    added[i] = InSlots(i) + InTemp(i) + cum[i] + dropped[i]

(* A reader went away with the lock: sb_histogram_print() found nothing.   *)
Leaked == lock # NoReader /\ at[lock] = "idle" /\ op[lock] = "print"

(* "This can be called concurrently with other sb_histogram_get_pct_*()    *)
(* functions": every call that a reader makes returns, unless a print of   *)
(* an empty histogram has kept the lock.                                   *)
CallsReturn == \A r \in Readers : at[r] = "want" ~> (at[r] = "idle" \/ Leaked)
============================================================================
