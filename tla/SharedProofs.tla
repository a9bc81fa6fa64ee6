---------------------------- MODULE SharedProofs ----------------------------
(***************************************************************************)
(* What the threads share, for any number of threads: the histogram and the*)
(* counters lose nothing, and the logger swallows no message.              *)
(***************************************************************************)
EXTENDS Histogram, Counters, Logger, TimersProofs, FiniteSetTheorems

----------------------------------------------------------------------------
(* The histogram.                                                          *)

(* The type of the histogram's state.                                      *)
HistogramTypeOK ==
  /\ slots \in [Slots -> [Buckets -> Nat]]
  /\ cum \in [Buckets -> Nat] /\ temp \in [Buckets -> Nat]
  /\ added \in [Buckets -> Nat] /\ dropped \in [Buckets -> Nat]
  /\ lock \in Readers \cup {NoReader}
  /\ at \in [Readers -> {"idle", "want", "merge"}]
  /\ op \in [Readers -> OpKinds]
  /\ pos \in [Readers -> 0 .. NSlots * Size]
  /\ cumN \in Nat /\ nevents \in [Readers -> Nat]

(* Whoever merges holds the write lock.                                    *)
Exclusive == \A r \in Readers : at[r] = "merge" => lock = r

(* NothingLost is inductive with the type and the lock.                    *)
HistogramInv == HistogramTypeOK /\ Exclusive /\ NothingLost

(* What the slots hold of a bucket is a number.                            *)
LEMMA SlotsType ==
  ASSUME slots \in [Slots -> [Buckets -> Nat]], NEW j \in Buckets
  PROVE  InSlots(j) \in Nat
<1>1. NSlots \in Nat BY HistogramAssumption
<1>2. \A s \in 0 .. NSlots - 1 : [r \in Slots |-> slots[r][j]][s] \in Nat
  BY DEF Slots
<1> QED BY <1>1, <1>2, SumNat DEF InSlots

(* One cell of one slot is set,                                            *)
CellSet(s, i, n) == slots' = [slots EXCEPT ![s][i] = n]

(* which changes what the slots hold of its bucket only.                   *)
LEMMA CellChanges ==
  ASSUME slots \in [Slots -> [Buckets -> Nat]], NEW s \in Slots, NEW i \in Buckets,
         NEW n \in Nat, CellSet(s, i, n), NEW j \in Buckets
  PROVE  InSlots(j)' = InSlots(j) + IF j = i THEN n - slots[s][i] ELSE 0
<1> USE DEF CellSet
<1> DEFINE f == [r \in Slots |-> slots[r][j]]
           g == [r \in Slots |-> slots'[r][j]]
<1>1. NSlots \in Nat BY HistogramAssumption
<1>2. s \in 0 .. NSlots - 1 BY DEF Slots
<1>3. \A r \in 0 .. NSlots - 1 : f[r] \in Int BY DEF Slots
<1>4. \A r \in 0 .. NSlots - 1 : r # s => g[r] = f[r] BY DEF Slots
<1>5. g[s] = (IF j = i THEN n ELSE slots[s][j]) /\ f[s] = slots[s][j] BY DEF Slots
<1>6. g[s] \in Int BY <1>5, <1>2, <1>3
<1>7. SumUpTo(f, NSlots) \in Int
  <2> HIDE DEF f
  <2> QED BY <1>1, <1>3, SumInt
<1> HIDE DEF f, g
<1>8. SumUpTo(g, NSlots) = SumUpTo(f, NSlots) + g[s] - f[s]
  BY <1>1, <1>2, <1>3, <1>4, <1>6, SumChange
<1>9. InSlots(j) = SumUpTo(f, NSlots) /\ InSlots(j)' = SumUpTo(g, NSlots)
  BY DEF InSlots, f, g
<1>10. slots[s][i] \in Int /\ slots[s][j] \in Int OBVIOUS
<1> QED BY <1>5, <1>7, <1>8, <1>9, <1>10

(* While r merges, what temp_array holds is what r has moved.              *)
LEMMA InTempMerging ==
  ASSUME Exclusive, NEW r \in Readers, at[r] = "merge", NEW i \in Buckets
  PROVE  InTemp(i) = IF op[r] = "intermediate" /\ pos[r] > i THEN temp[i] ELSE 0
BY DEF Exclusive, InTemp

(* Between merges, temp_array holds nothing that counts.                   *)
LEMMA InTempNone ==
  ASSUME \A r \in Readers : at[r] # "merge", NEW i \in Buckets
  PROVE  InTemp(i) = 0
BY DEF InTemp

(* sb_histogram_update() clamps the bucket it computes into the array.     *)
LEMMA ClampRange ==
  ASSUME NEW raw \in -1 .. Size
  PROVE  Clamp(raw) \in Buckets
BY HistogramAssumption DEF Clamp, Buckets

(* The invariant holds after sb_histogram_init().                          *)
LEMMA HistogramInitially == HistogramInit => HistogramInv
<1> SUFFICES ASSUME HistogramInit PROVE HistogramInv OBVIOUS
<1> USE HistogramAssumption
<1>1. NSlots * Size \in Nat OBVIOUS
<1>2. HistogramTypeOK BY <1>1 DEF HistogramInit, HistogramTypeOK, NoValues, OpKinds
<1>3. Exclusive BY DEF HistogramInit, Exclusive
<1>4. ASSUME NEW i \in Buckets PROVE InSlots(i) = 0
  <2> DEFINE f == [s \in Slots |-> slots[s][i]]
             S == {m \in Nat : m <= NSlots => SumUpTo(f, m) = 0}
  <2>1. \A s \in 0 .. NSlots - 1 : f[s] = 0 BY DEF HistogramInit, NoValues, Slots
  <2> HIDE DEF f
  <2>2. 0 \in S BY SumZero
  <2>3. ASSUME NEW m \in Nat, m \in S PROVE m + 1 \in S BY <2>1, <2>3, SumStep
  <2>4. Nat \subseteq S
    <3> HIDE DEF S
    <3> QED BY <2>2, <2>3, Induct
  <2> QED BY <2>4 DEF InSlots, f
<1>5. NothingLost
  BY <1>4, InTempNone DEF NothingLost, HistogramInit, NoValues
<1> QED BY <1>2, <1>3, <1>5 DEF HistogramInv

(* sb_histogram_update() adds to one cell and to the history.              *)
LEMMA UpdateKeeps == HistogramInv /\ Update => HistogramInv'
<1> SUFFICES ASSUME HistogramInv, Update PROVE HistogramInv' OBVIOUS
<1> USE DEF HistogramInv
<1>1. PICK s \in Slots, raw \in -1 .. Size :
        /\ slots' = [slots EXCEPT ![s][Clamp(raw)] = @ + 1]
        /\ added' = [added EXCEPT ![Clamp(raw)] = @ + 1]
  BY Zenon DEF Update
<1> DEFINE i == Clamp(raw)
<1>2. i \in Buckets BY ClampRange
<1> HIDE DEF i
<1>3. slots' = [slots EXCEPT ![s][i] = slots[s][i] + 1] /\ added' = [added EXCEPT ![i] = @ + 1]
  BY <1>1 DEF i
<1>4. UNCHANGED <<cum, temp, dropped, lock, at, op, pos, cumN, nevents>>
  BY DEF Update, readerVars
<1>5. HistogramTypeOK' BY <1>2, <1>3, <1>4 DEF HistogramTypeOK
<1>6. Exclusive' BY <1>4 DEF Exclusive
<1>7. ASSUME NEW j \in Buckets
      PROVE  added'[j] = InSlots(j)' + InTemp(j)' + cum'[j] + dropped'[j]
  <2>1. slots[s][i] \in Nat /\ slots \in [Slots -> [Buckets -> Nat]]
    BY <1>2 DEF HistogramTypeOK
  <2>2. InSlots(j)' = InSlots(j) + IF j = i THEN 1 ELSE 0
    <3>1. slots[s][i] + 1 \in Nat /\ CellSet(s, i, slots[s][i] + 1)
      BY <2>1, <1>3 DEF CellSet
    <3>2. InSlots(j)' = InSlots(j) + IF j = i THEN slots[s][i] + 1 - slots[s][i] ELSE 0
      BY <3>1, <2>1, <1>2, CellChanges
    <3> QED BY <2>1, <3>2
  <2>3. InTemp(j)' = InTemp(j) BY <1>4 DEF InTemp
  <2>4. InTemp(j) \in Nat BY DEF InTemp, HistogramTypeOK
  <2>5. InSlots(j) \in Nat BY <2>1, SlotsType
  <2>6. added[j] = InSlots(j) + InTemp(j) + cum[j] + dropped[j] BY DEF NothingLost
  <2>7. added[j] \in Nat /\ added'[j] = added[j] + IF j = i THEN 1 ELSE 0
    BY <1>3, <1>2 DEF HistogramTypeOK
  <2>8. cum[j] \in Nat /\ dropped[j] \in Nat BY DEF HistogramTypeOK
  <2> QED BY <2>2, <2>3, <2>4, <2>5, <2>6, <2>7, <2>8, <1>4
<1> QED BY <1>5, <1>6, <1>7 DEF NothingLost

(* A call changes no count.                                                *)
LEMMA CallKeeps ==
  ASSUME NEW r \in Readers, HistogramInv, Call(r)
  PROVE  HistogramInv'
<1> USE DEF HistogramInv
<1>1. HistogramTypeOK'
  BY HistogramAssumption DEF HistogramTypeOK, Call
<1>2. Exclusive' BY DEF Exclusive, Call, HistogramTypeOK
<1>3. ASSUME NEW i \in Buckets PROVE InTemp(i)' = InTemp(i) /\ InSlots(i)' = InSlots(i)
  <2>1. \A u \in Readers : at'[u] = "merge" <=> at[u] = "merge"
    BY DEF Call, HistogramTypeOK
  <2>2. \A u \in Readers : at[u] = "merge" => op'[u] = op[u]
    BY DEF Call, HistogramTypeOK
  <2>3. UNCHANGED <<pos, temp, slots>> BY DEF Call
  <2> QED BY <2>1, <2>2, <2>3 DEF InTemp, InSlots
<1>4. NothingLost' BY <1>3 DEF NothingLost, Call
<1> QED BY <1>1, <1>2, <1>4

(* Nor does taking the lock: nobody was merging.                           *)
LEMMA LockKeeps ==
  ASSUME NEW r \in Readers, HistogramInv, Lock(r)
  PROVE  HistogramInv'
<1> USE DEF HistogramInv
<1>0. NSlots * Size \in Nat BY HistogramAssumption
<1>1. HistogramTypeOK' BY <1>0 DEF HistogramTypeOK, Lock
<1>2. \A u \in Readers : at[u] # "merge"
  BY HistogramAssumption DEF Exclusive, Lock
<1>3. Exclusive' BY <1>2 DEF Exclusive, Lock, HistogramTypeOK
<1>4. ASSUME NEW i \in Buckets PROVE InTemp(i)' = InTemp(i) /\ InSlots(i)' = InSlots(i)
  <2>1. InTemp(i) = 0 BY <1>2, InTempNone
  <2>2. \A u \in Readers : at'[u] = "merge" => pos'[u] = 0
    BY <1>2 DEF Lock, HistogramTypeOK
  <2>3. InTemp(i)' = 0 BY <2>2, HistogramAssumption DEF InTemp, Buckets
  <2>4. InSlots(i)' = InSlots(i) BY DEF InSlots, Lock
  <2> QED BY <2>1, <2>3, <2>4
<1>5. NothingLost' BY <1>4 DEF NothingLost, Lock
<1> QED BY <1>1, <1>3, <1>5

(* The exchange of a cell with zero moves what it held, all of it, to      *)
(* temp_array or to cumulative_array.                                      *)
LEMMA MoveKeeps ==
  ASSUME NEW r \in Readers, HistogramInv, MoveCell(r)
  PROVE  HistogramInv'
<1> USE DEF HistogramInv
<1> DEFINE s == pos[r] \div Size
           i == pos[r] % Size
           t == slots[s][i]
<1>1. pos[r] \in Nat /\ pos[r] < NSlots * Size
  BY HistogramAssumption DEF HistogramTypeOK, MoveCell
<1>2. s \in Slots /\ i \in Buckets /\ (s = 0 => i = pos[r]) /\ (s # 0 => pos[r] >= Size)
  BY Zenon, <1>1, CellOf, HistogramAssumption DEF Slots, Buckets
<1>3. /\ at[r] = "merge" /\ slots' = [slots EXCEPT ![s][i] = 0]
      /\ nevents' = [nevents EXCEPT ![r] = @ + t]
      /\ IF op[r] = "intermediate"
         THEN temp' = [temp EXCEPT ![i] = IF s = 0 THEN t ELSE @ + t] /\ UNCHANGED cum
         ELSE cum' = [cum EXCEPT ![i] = @ + t] /\ UNCHANGED temp
      /\ pos' = [pos EXCEPT ![r] = @ + 1]
      /\ UNCHANGED <<cumN, lock, at, op, pct, added, dropped>>
  BY DEF MoveCell
<1>4. t \in Nat BY <1>2 DEF HistogramTypeOK
<1> HIDE DEF s, i, t
<1>5. HistogramTypeOK'
  <2>1. pos[r] + 1 \in 0 .. NSlots * Size BY <1>1, HistogramAssumption
  <2> QED BY <1>2, <1>3, <1>4, <2>1 DEF HistogramTypeOK
<1>6. Exclusive' BY <1>3 DEF Exclusive
<1>7. ASSUME NEW j \in Buckets
      PROVE  added'[j] = InSlots(j)' + InTemp(j)' + cum'[j] + dropped'[j]
  <2>1. slots \in [Slots -> [Buckets -> Nat]] /\ t = slots[s][i]
    BY DEF HistogramTypeOK, t
  <2>2. InSlots(j)' = InSlots(j) + IF j = i THEN 0 - t ELSE 0
    <3>1. CellSet(s, i, 0) BY <1>3 DEF CellSet
    <3>2. InSlots(j)' = InSlots(j) + IF j = i THEN 0 - slots[s][i] ELSE 0
      BY <3>1, <2>1, <1>2, CellChanges
    <3> QED BY <2>1, <3>2
  <2>3. InSlots(j) \in Nat BY <2>1, SlotsType
  <2>4. added[j] = InSlots(j) + InTemp(j) + cum[j] + dropped[j] BY DEF NothingLost
  <2>5. cum[j] \in Nat /\ dropped[j] \in Nat /\ temp[j] \in Nat BY DEF HistogramTypeOK
  <2>6. InTemp(j) = IF op[r] = "intermediate" /\ pos[r] > j THEN temp[j] ELSE 0
    BY <1>3, InTempMerging
  <2>7. InTemp(j)' = IF op'[r] = "intermediate" /\ pos'[r] > j THEN temp'[j] ELSE 0
    BY <1>3, <1>6 DEF Exclusive, InTemp
  <2>8. op'[r] = op[r] /\ pos'[r] = pos[r] + 1 BY <1>3 DEF HistogramTypeOK
  <2>9. j \in Nat /\ j < Size /\ i \in Nat /\ i < Size BY <1>2, HistogramAssumption DEF Buckets
  <2>10. CASE op[r] = "intermediate"
    <3>1. cum'[j] = cum[j] BY <1>3, <2>10
    <3>2. temp'[j] = IF j = i THEN (IF s = 0 THEN t ELSE temp[i] + t) ELSE temp[j]
      BY <1>3, <2>10 DEF HistogramTypeOK
    <3>3. s # 0 => pos[r] > j BY <1>1, <1>2, <2>9, HistogramAssumption
    <3>4. s = 0 => (pos[r] + 1 > j <=> pos[r] > j \/ j = i) BY <1>1, <1>2, <2>9
    <3>5. InSlots(j)' + InTemp(j)' = InSlots(j) + InTemp(j)
      BY <3>2, <3>3, <3>4, <2>2, <2>3, <2>5, <2>6, <2>7, <2>8, <2>9, <2>10, <1>1, <1>2, <1>4
    <3> QED BY <3>1, <3>5, <2>4, <1>3
  <2>11. CASE op[r] # "intermediate"
    <3>1. cum'[j] = IF j = i THEN cum[j] + t ELSE cum[j]
      BY <1>3, <2>11 DEF HistogramTypeOK
    <3>2. InTemp(j) = 0 /\ InTemp(j)' = 0 BY <2>6, <2>7, <2>8, <2>11
    <3> QED BY <3>1, <3>2, <2>2, <2>3, <2>4, <2>5, <1>3, <1>4
  <2> QED BY <2>10, <2>11
<1> QED BY <1>5, <1>6, <1>7 DEF NothingLost

(* What a merge leaves in temp_array goes to cumulative_array, and only a  *)
(* checkpoint drops what it has returned.                                  *)
LEMMA FinishKeeps ==
  ASSUME NEW r \in Readers, HistogramInv,
         \/ FinishIntermediate(r) \/ FinishCumulative(r)
         \/ FinishCheckpoint(r) \/ FinishPrint(r)
  PROVE  HistogramInv'
<1> USE DEF HistogramInv
<1>1. /\ at[r] = "merge" /\ pos[r] = NSlots * Size
      /\ at' = [at EXCEPT ![r] = "idle"] /\ lock' \in {lock, NoReader}
      /\ UNCHANGED <<slots, temp, op, pos, nevents, added>>
  BY Zenon DEF FinishIntermediate, FinishCumulative, FinishCheckpoint, FinishPrint, Merged, ReleaseLock
<1>2. \A u \in Readers : at'[u] # "merge"
  BY <1>1 DEF Exclusive, HistogramTypeOK
<1>3. Exclusive' BY <1>2 DEF Exclusive
<1>4. cum' \in [Buckets -> Nat] /\ dropped' \in [Buckets -> Nat] /\ cumN' \in Nat
  <2> USE DEF HistogramTypeOK
  <2>1. CASE FinishIntermediate(r) BY <2>1 DEF FinishIntermediate
  <2>2. CASE FinishCumulative(r) BY <2>2 DEF FinishCumulative
  <2>3. CASE FinishCheckpoint(r) BY <2>3 DEF FinishCheckpoint, NoValues
  <2>4. CASE FinishPrint(r) BY <2>4 DEF FinishPrint
  <2> QED BY <2>1, <2>2, <2>3, <2>4
<1>5. HistogramTypeOK' BY <1>1, <1>4 DEF HistogramTypeOK
<1>6. ASSUME NEW j \in Buckets
      PROVE  added'[j] = InSlots(j)' + InTemp(j)' + cum'[j] + dropped'[j]
  <2>1. InSlots(j)' = InSlots(j) BY <1>1 DEF InSlots
  <2>2. InTemp(j)' = 0 BY <1>2 DEF InTemp
  <2>3. Size * 1 <= Size * NSlots
    <3>1. CASE NSlots = 1 BY <3>1, HistogramAssumption
    <3>2. CASE NSlots > 1
      <4>1. Size * 1 + Size <= Size * NSlots BY <3>2, Product, HistogramAssumption
      <4> QED BY <4>1, HistogramAssumption
    <3> QED BY <3>1, <3>2, HistogramAssumption
  <2>4. pos[r] > j BY <2>3, <1>1, HistogramAssumption DEF Buckets
  <2>5. InTemp(j) = IF op[r] = "intermediate" THEN temp[j] ELSE 0
    BY <1>1, <2>4, InTempMerging
  <2>6. added[j] = InSlots(j) + InTemp(j) + cum[j] + dropped[j] BY DEF NothingLost
  <2>7. cum[j] \in Nat /\ dropped[j] \in Nat /\ temp[j] \in Nat BY DEF HistogramTypeOK
  <2>8. InSlots(j) \in Nat BY SlotsType DEF HistogramTypeOK
  <2>9. cum'[j] + dropped'[j] = InTemp(j) + cum[j] + dropped[j]
    <3>1. CASE FinishIntermediate(r)
      <4>1. cum'[j] = cum[j] + temp[j] /\ dropped'[j] = dropped[j] /\ InTemp(j) = temp[j]
        BY <2>5, <3>1 DEF FinishIntermediate
      <4>2. (cum[j] + temp[j]) + dropped[j] = temp[j] + cum[j] + dropped[j] BY <2>7
      <4> QED BY Zenon, <4>1, <4>2
    <3>2. CASE FinishCumulative(r) \/ FinishPrint(r)
      <4>1. cum'[j] = cum[j] /\ dropped'[j] = dropped[j] /\ InTemp(j) = 0
        BY <2>5, <3>2 DEF FinishCumulative, FinishPrint
      <4>2. cum[j] + dropped[j] = 0 + cum[j] + dropped[j] BY <2>7
      <4> QED BY Zenon, <4>1, <4>2
    <3>3. CASE FinishCheckpoint(r)
      <4>1. cum'[j] = 0 /\ dropped'[j] = dropped[j] + cum[j] /\ InTemp(j) = 0
        BY Zenon, <2>5, <3>3 DEF FinishCheckpoint, NoValues
      <4> QED BY <2>7, <4>1
    <3> QED BY <3>1, <3>2, <3>3
  <2>10. cum'[j] \in Nat /\ dropped'[j] \in Nat /\ InTemp(j) \in Nat
    <3>1. cum'[j] \in Nat /\ dropped'[j] \in Nat
      BY <1>4
    <3>2. 0 \in Nat OBVIOUS
    <3>3. InTemp(j) = temp[j] \/ InTemp(j) = 0 BY Zenon, <2>5
    <3> QED BY Zenon, <2>7, <3>1, <3>2, <3>3
  <2>11. added'[j] = added[j] BY <1>1
  <2> QED BY <2>1, <2>2, <2>6, <2>7, <2>8, <2>9, <2>10, <2>11
<1> QED BY <1>3, <1>5, <1>6 DEF NothingLost

(* Nothing happens.                                                        *)
LEMMA HistogramStutters ==
  ASSUME HistogramInv, UNCHANGED histogramVars
  PROVE  HistogramInv'
<1> USE DEF HistogramInv, histogramVars
<1>1. HistogramTypeOK' BY DEF HistogramTypeOK
<1>2. Exclusive' BY DEF Exclusive
<1>3. NothingLost' BY DEF NothingLost, InSlots, InTemp
<1> QED BY <1>1, <1>2, <1>3

(* No update of sb_histogram_update() is lost or counted twice, whatever   *)
(* the number of slots, buckets and readers: the atomic exchange of every  *)
(* cell hands each value to exactly one merge.                             *)
THEOREM NoUpdateLost == HistogramSpec => []NothingLost
<1>1. HistogramInit => HistogramInv BY HistogramInitially
<1>2. HistogramInv /\ [HistogramNext]_histogramVars => HistogramInv'
  BY UpdateKeeps, CallKeeps, LockKeeps, MoveKeeps, FinishKeeps, HistogramStutters
     DEF HistogramNext, ReaderStep
<1>3. HistogramInv => NothingLost BY DEF HistogramInv
<1> QED BY <1>1, <1>2, <1>3, PTL DEF HistogramSpec

----------------------------------------------------------------------------
(* The event counters.                                                     *)

(* The type of the counters' state.                                        *)
CountersTypeOK ==
  /\ counters \in [Workers -> [Counters -> Nat]]
  /\ last \in [Kinds -> [Counters -> Int]] /\ val \in [Kinds -> [Counters -> Int]]
  /\ totals \in [Kinds -> [Counters -> Int]]
  /\ adding \in [Workers -> {<<>>} \cup (Counters \X Nat)]
  /\ word \in [Kinds -> -1 .. CounterWords]
  /\ done \subseteq Workers /\ final \subseteq Kinds

(* How many threads the loops have added for type t when they have read n  *)
(* words.                                                                  *)
ReadOf(t, n) == IF n <= NThreads * t THEN 0
                ELSE IF n >= NThreads * t + NThreads THEN NThreads ELSE n - NThreads * t

(* One counter of all the threads.                                         *)
Column(t) == [w \in Workers |-> counters[w][t]]

(* A report that began after the workers were done has added up the words  *)
(* that it has read so far.                                                *)
Partway ==
  \A k \in final : word[k] # -1 =>
    \A t \in Counters : val[k][t] = SumUpTo(Column(t), ReadOf(t, word[k]))

(* What has been reported is what the next report starts from.             *)
Continued == \A k \in Kinds : totals[k] = last[k]

(* A worker that is done adds no more, and a final report began after all  *)
(* were.                                                                   *)
Quiet == /\ \A w \in done : adding[w] = <<>>
         /\ final # {} => done = Workers

(* FinalReportComplete is inductive with what a report has read so far.    *)
CountersInv == CountersTypeOK /\ Quiet /\ Continued /\ Partway /\ FinalReportComplete

(* The invariant holds at the start.                                       *)
LEMMA CountersInitially == CountersInit => CountersInv
<1> SUFFICES ASSUME CountersInit PROVE CountersInv OBVIOUS
<1>0. CounterWords \in Nat BY ThreadsAssumption, CountersAssumption DEF CounterWords
<1>1. CountersTypeOK BY <1>0 DEF CountersInit, CountersTypeOK, NoCounts
<1> QED BY <1>1 DEF CountersInit, CountersInv, Quiet, Continued, Partway, FinalReportComplete

(* A report that has just begun has read nothing,                          *)
LEMMA ReadNone ==
  ASSUME NEW t \in Counters
  PROVE  ReadOf(t, 0) = 0
<1>1. NThreads * t \in Nat BY ThreadsAssumption, CountersAssumption DEF Counters
<1> QED BY <1>1 DEF ReadOf

(* one that is through has read every thread,                              *)
LEMMA ReadAll ==
  ASSUME NEW t \in Counters
  PROVE  ReadOf(t, CounterWords) = NThreads
<1> USE ThreadsAssumption, CountersAssumption
<1>1. t \in Int /\ t < Types /\ Types \in Int BY DEF Counters
<1>2. NThreads * t + NThreads <= NThreads * Types BY <1>1, Product
<1>3. NThreads * t \in Int /\ NThreads * Types \in Int BY <1>1
<1> QED BY <1>2, <1>3 DEF ReadOf, CounterWords

(* and a word more is a thread more of its own type.                       *)
LEMMA ReadOne ==
  ASSUME NEW n \in 0 .. CounterWords - 1, NEW t \in Counters
  PROVE  /\ n \div NThreads \in Counters /\ n % NThreads \in Workers
         /\ ReadOf(t, n) \in Nat
         /\ t # n \div NThreads => ReadOf(t, n + 1) = ReadOf(t, n)
         /\ t = n \div NThreads => /\ ReadOf(t, n) = n % NThreads
                                   /\ ReadOf(t, n + 1) = ReadOf(t, n) + 1
<1> USE ThreadsAssumption, CountersAssumption
<1> DEFINE q == n \div NThreads
           w == n % NThreads
<1>1. n \in Nat /\ n < Types * NThreads /\ t \in Nat BY DEF CounterWords, Counters
<1>2. Types # 0 BY <1>1
<1>3. q \in 0 .. Types - 1 /\ w \in 0 .. NThreads - 1 BY Zenon, <1>1, <1>2, CellOf
<1>4. n = NThreads * q + w BY <1>1, DivMod
<1> HIDE DEF q, w
<1>5. NThreads * q \in Nat /\ NThreads * t \in Nat BY <1>1, <1>3
<1>6. t < q => NThreads * t + NThreads <= NThreads * q BY <1>1, <1>3, Product
<1>7. q < t => NThreads * q + NThreads <= NThreads * t BY <1>1, <1>3, Product
<1>8. ReadOf(t, n) \in Nat BY <1>1, <1>5 DEF ReadOf
<1>9. t # q => ReadOf(t, n + 1) = ReadOf(t, n)
  BY <1>1, <1>3, <1>4, <1>5, <1>6, <1>7 DEF ReadOf
<1>10. t = q => ReadOf(t, n) = w /\ ReadOf(t, n + 1) = ReadOf(t, n) + 1
  BY <1>1, <1>3, <1>4, <1>5 DEF ReadOf
<1> QED BY <1>3, <1>8, <1>9, <1>10 DEF q, w, Counters, Workers

(* sb_counter_inc() reads and writes its own word; nobody counts once the  *)
(* final report has begun.                                                 *)
LEMMA CountingKeeps ==
  ASSUME CountersInv, NEW w \in Workers, AddLoad(w) \/ AddStore(w) \/ WorkerDone(w)
  PROVE  CountersInv'
<1> USE DEF CountersInv
<1>1. CASE AddLoad(w)
  <2>1. PICK t \in Counters : adding' = [adding EXCEPT ![w] = <<t, counters[w][t]>>]
    BY Zenon, <1>1 DEF AddLoad
  <2>2. UNCHANGED <<counters, last, word, val, totals, done, final>> /\ w \notin done
    BY Zenon, <1>1 DEF AddLoad
  <2>3. CountersTypeOK'
    <3>1. <<t, counters[w][t]>> \in Counters \X Nat BY DEF CountersTypeOK
    <3>2. adding' \in [Workers -> {<<>>} \cup (Counters \X Nat)]
      BY <2>1, <3>1 DEF CountersTypeOK
    <3> QED BY <2>2, <3>2 DEF CountersTypeOK
  <2>4. Quiet' BY <2>1, <2>2 DEF Quiet, CountersTypeOK
  <2>5. Continued' /\ Partway' /\ FinalReportComplete'
    BY Zenon, <2>2 DEF Continued, Partway, FinalReportComplete, Column, SumOf
  <2> QED BY <2>3, <2>4, <2>5
<1>2. CASE AddStore(w)
  <2>1. adding[w] \in Counters \X Nat BY <1>2 DEF AddStore, CountersTypeOK
  <2>2. adding[w][1] \in Counters /\ adding[w][2] + 1 \in Nat BY <2>1
  <2>3. final = {} BY <1>2 DEF AddStore, Quiet
  <2>4. counters' = [counters EXCEPT ![w][adding[w][1]] = adding[w][2] + 1]
        /\ adding' = [adding EXCEPT ![w] = <<>>]
        /\ UNCHANGED <<last, word, val, totals, done, final>>
    BY <1>2 DEF AddStore
  <2>5. counters' \in [Workers -> [Counters -> Nat]] BY <2>2, <2>4 DEF CountersTypeOK
  <2>6. CountersTypeOK' BY <2>4, <2>5 DEF CountersTypeOK
  <2>7. Quiet' BY <2>3, <2>4 DEF Quiet, CountersTypeOK
  <2>8. Continued' /\ Partway' /\ FinalReportComplete'
    BY <2>3, <2>4 DEF Continued, Partway, FinalReportComplete
  <2> QED BY <2>6, <2>7, <2>8
<1>3. CASE WorkerDone(w)
  <2>1. UNCHANGED <<counters, adding, last, word, val, totals, final>>
        /\ done' = done \cup {w} /\ adding[w] = <<>>
    BY Zenon, <1>3 DEF WorkerDone
  <2>2. CountersTypeOK' BY <2>1 DEF CountersTypeOK
  <2>3. Quiet' BY Zenon, <2>1 DEF Quiet
  <2>4. Continued' /\ Partway' /\ FinalReportComplete'
    BY Zenon, <2>1 DEF Continued, Partway, FinalReportComplete, Column, SumOf
  <2> QED BY <2>2, <2>3, <2>4
<1> QED BY <1>1, <1>2, <1>3

(* A report begins with nothing read.                                      *)
LEMMA BeginKeeps ==
  ASSUME CountersInv, NEW k \in Kinds, Begin(k)
  PROVE  CountersInv'
<1> USE DEF CountersInv
<1>1. /\ word' = [word EXCEPT ![k] = 0] /\ val' = [val EXCEPT ![k] = NoCounts]
      /\ final' = IF done = Workers THEN final \cup {k} ELSE final
      /\ UNCHANGED <<counters, adding, last, totals, done>>
  BY DEF Begin
<1>2. CounterWords \in Nat BY ThreadsAssumption, CountersAssumption DEF CounterWords
<1>3. CountersTypeOK' BY <1>1, <1>2 DEF CountersTypeOK, NoCounts
<1>4. Quiet' BY <1>1 DEF Quiet
<1>5. Continued' BY <1>1 DEF Continued
<1>6. ASSUME NEW j \in final', word'[j] # -1, NEW t \in Counters
      PROVE  val'[j][t] = SumUpTo(Column(t), ReadOf(t, word'[j]))
  <2>1. CASE j = k
    <3>1. val'[j][t] = 0 /\ word'[j] = 0 BY <1>1, <2>1 DEF CountersTypeOK, NoCounts
    <3> QED BY <3>1, ReadNone, SumZero
  <2>2. CASE j # k
    <3>1. j \in final /\ val'[j] = val[j] /\ word'[j] = word[j]
      BY <1>1, <1>6, <2>2 DEF CountersTypeOK
    <3> QED BY Zenon, <3>1, <1>6 DEF Partway
  <2> QED BY <2>1, <2>2
<1>7. Partway'
  BY <1>1, <1>6 DEF Partway, Column, ReadOf
<1>8. FinalReportComplete'
  <2>1. ASSUME NEW j \in final', word'[j] = -1
        PROVE  totals'[j] = [t \in Counters |-> SumOf(t)']
    <3>1. j # k /\ j \in final /\ word[j] = -1 BY <1>1, <2>1 DEF CountersTypeOK
    <3> QED BY Zenon, <3>1, <1>1 DEF FinalReportComplete, SumOf
  <2> QED BY <2>1 DEF FinalReportComplete
<1> QED BY <1>3, <1>4, <1>5, <1>7, <1>8

(* A step of merge_counters() reads one word.                              *)
LEMMA MergeKeeps ==
  ASSUME CountersInv, NEW k \in Kinds, MergeWord(k)
  PROVE  CountersInv'
<1> USE DEF CountersInv
<1> DEFINE u == word[k] \div NThreads
           w == word[k] % NThreads
<1>1. /\ word[k] \in 0 .. CounterWords - 1 /\ word' = [word EXCEPT ![k] = @ + 1]
      /\ val' = [val EXCEPT ![k][u] = @ + counters[w][u]]
      /\ UNCHANGED <<counters, adding, last, totals, done, final>>
  BY DEF MergeWord
<1>2. CounterWords \in Nat BY ThreadsAssumption, CountersAssumption DEF CounterWords
<1>3. u \in Counters /\ w \in Workers
  <2>1. Types # 0 BY <1>1, ThreadsAssumption, CountersAssumption DEF CounterWords
  <2>2. 0 \in Counters BY <2>1, CountersAssumption DEF Counters
  <2> QED BY <1>1, <2>2, ReadOne
<1>4. ASSUME NEW t \in Counters
      PROVE  /\ ReadOf(t, word[k]) \in Nat
             /\ t # u => ReadOf(t, word[k] + 1) = ReadOf(t, word[k])
             /\ t = u => ReadOf(t, word[k]) = w /\ ReadOf(t, word[k] + 1) = ReadOf(t, word[k]) + 1
  BY <1>1, ReadOne
<1> HIDE DEF u, w
<1>5. counters[w][u] \in Nat BY <1>3 DEF CountersTypeOK
<1>6. CountersTypeOK'
  <2>1. word[k] + 1 \in -1 .. CounterWords BY <1>1, <1>2
  <2>2. word' \in [Kinds -> -1 .. CounterWords] BY <1>1, <2>1 DEF CountersTypeOK
  <2>3. val' \in [Kinds -> [Counters -> Int]] BY <1>1, <1>3, <1>5 DEF CountersTypeOK
  <2> QED BY <1>1, <2>2, <2>3 DEF CountersTypeOK
<1>7. Quiet' /\ Continued' BY <1>1 DEF Quiet, Continued
<1>8. ASSUME NEW j \in final, word'[j] # -1, NEW t \in Counters
      PROVE  val'[j][t] = SumUpTo(Column(t), ReadOf(t, word'[j]))
  <2>0. j \in Kinds BY DEF CountersTypeOK
  <2>1. CASE j # k
    <3>1. val'[j] = val[j] /\ word'[j] = word[j] BY <1>1, <2>0, <2>1 DEF CountersTypeOK
    <3> QED BY Zenon, <3>1, <1>8 DEF Partway
  <2>2. CASE j = k
    <3>1. word'[j] = word[k] + 1 /\ word[k] # -1 BY <1>1, <2>2 DEF CountersTypeOK
    <3>2. val[k][t] = SumUpTo(Column(t), ReadOf(t, word[k])) BY <3>1, <2>2 DEF Partway
    <3>3. CASE t # u
      <4>1. val'[j][t] = val[k][t] BY <1>1, <1>3, <2>2, <3>3 DEF CountersTypeOK
      <4> QED BY <4>1, <3>1, <3>2, <3>3, <1>4
    <3>4. CASE t = u
      <4>1. val'[j][t] = val[k][t] + counters[w][t]
        BY <1>1, <1>3, <2>2, <3>4 DEF CountersTypeOK
      <4>2. ReadOf(t, word[k]) = w /\ ReadOf(t, word'[j]) = w + 1 /\ w \in Nat
        BY <3>1, <3>4, <1>4
      <4>3. SumUpTo(Column(t), w + 1) = SumUpTo(Column(t), w) + Column(t)[w]
        BY <4>2, SumStep
      <4>4. Column(t)[w] = counters[w][t] BY <1>3 DEF Column
      <4> QED BY Zenon, <4>1, <4>2, <4>3, <4>4, <3>2
    <3> QED BY Zenon, <3>3, <3>4
  <2> QED BY <2>1, <2>2
<1>9. Partway' BY <1>1, <1>8 DEF Partway, Column, ReadOf
<1>10. FinalReportComplete'
  <2>1. ASSUME NEW j \in final', word'[j] = -1
        PROVE  totals'[j] = [t \in Counters |-> SumOf(t)']
    <3>1. j # k /\ j \in final /\ word[j] = -1 BY <1>1, <2>1 DEF CountersTypeOK
    <3> QED BY <3>1, <1>1 DEF FinalReportComplete, SumOf
  <2> QED BY <2>1 DEF FinalReportComplete
<1> QED BY <1>6, <1>7, <1>9, <1>10

(* The end of a report makes its totals what the next one starts from.     *)
LEMMA CheckpointKeeps ==
  ASSUME CountersInv, NEW k \in Kinds, Checkpoint(k)
  PROVE  CountersInv'
<1> USE DEF CountersInv
<1>1. /\ word[k] = CounterWords /\ word' = [word EXCEPT ![k] = -1]
      /\ last' = [last EXCEPT ![k] = val[k]]
      /\ val' = [val EXCEPT ![k] = [t \in Counters |-> val[k][t] - last[k][t]]]
      /\ totals' = [totals EXCEPT ![k] = [t \in Counters |-> @[t] + val'[k][t]]]
      /\ UNCHANGED <<counters, adding, done, final>>
  BY DEF Checkpoint
<1>2. CounterWords \in Nat BY ThreadsAssumption, CountersAssumption DEF CounterWords
<1>3. last[k] \in [Counters -> Int] /\ val[k] \in [Counters -> Int] /\ totals[k] = last[k]
  BY DEF CountersTypeOK, Continued
<1>4. val'[k] = [t \in Counters |-> val[k][t] - last[k][t]] BY <1>1 DEF CountersTypeOK
<1>5. totals'[k] = val[k]
  <2>1. totals'[k] = [t \in Counters |-> totals[k][t] + val'[k][t]]
    BY <1>1 DEF CountersTypeOK
  <2>2. \A t \in Counters : totals[k][t] + val'[k][t] = val[k][t] BY <1>3, <1>4
  <2> QED BY <1>3, <2>1, <2>2
<1>6. \A j \in Kinds : j # k => /\ totals'[j] = totals[j] /\ last'[j] = last[j]
                                /\ val'[j] = val[j] /\ word'[j] = word[j]
  BY <1>1 DEF CountersTypeOK
<1>7. last'[k] = val[k] /\ word'[k] = -1 BY <1>1 DEF CountersTypeOK
<1>8. CountersTypeOK'
  <2>1. val'[k] \in [Counters -> Int] BY <1>3, <1>4
  <2>2. totals' \in [Kinds -> [Counters -> Int]]
    <3>1. totals' = [j \in Kinds |-> totals'[j]] BY Zenon, <1>1 DEF CountersTypeOK
    <3>2. \A j \in Kinds : totals'[j] \in [Counters -> Int]
      BY Zenon, <1>3, <1>5, <1>6 DEF CountersTypeOK
    <3> QED BY <3>1, <3>2
  <2>3. val' \in [Kinds -> [Counters -> Int]] BY <1>1, <1>4, <2>1 DEF CountersTypeOK
  <2>4. word' \in [Kinds -> -1 .. CounterWords] BY <1>1, <1>2 DEF CountersTypeOK
  <2>5. last' \in [Kinds -> [Counters -> Int]] BY <1>1, <1>3 DEF CountersTypeOK
  <2> QED BY <1>1, <2>2, <2>3, <2>4, <2>5 DEF CountersTypeOK
<1>9. Quiet' BY Zenon, <1>1 DEF Quiet
<1>10. Continued' BY Zenon, <1>5, <1>6, <1>7 DEF Continued
<1>11. ASSUME NEW j \in final, word'[j] # -1, NEW t \in Counters
       PROVE  val'[j][t] = SumUpTo(Column(t), ReadOf(t, word'[j]))
  <2>1. j \in Kinds /\ j # k BY <1>11, <1>7 DEF CountersTypeOK
  <2> QED BY Zenon, <2>1, <1>6, <1>11 DEF Partway
<1>12. Partway' BY SMTT(30), <1>1, <1>11 DEF Partway, Column, ReadOf
<1>13. ASSUME NEW j \in final, word'[j] = -1
       PROVE  totals'[j] = [t \in Counters |-> SumOf(t)]
  <2>1. j \in Kinds BY DEF CountersTypeOK
  <2>2. CASE j # k BY Zenon, <2>1, <2>2, <1>6, <1>13 DEF FinalReportComplete
  <2>3. CASE j = k
    <3>1. \A t \in Counters : val[k][t] = SumUpTo(Column(t), ReadOf(t, CounterWords))
      BY <2>3, <1>1, <1>2 DEF Partway
    <3>2. \A t \in Counters : val[k][t] = SumOf(t) BY Zenon, <3>1, ReadAll DEF SumOf, Column
    <3> QED BY Zenon, <3>2, <2>3, <1>3, <1>5
  <2> QED BY Zenon, <2>2, <2>3
<1>14. FinalReportComplete' BY Zenon, <1>1, <1>13 DEF FinalReportComplete, SumOf
<1> QED BY <1>8, <1>9, <1>10, <1>12, <1>14

(* The last report of sb_counters_agg_intermediate() and of                *)
(* sb_counters_agg_cumulative() adds up to everything the workers have     *)
(* counted, for every number of threads and counters.                      *)
THEOREM FinalReportIsComplete == CountersSpec => []FinalReportComplete
<1>1. CountersInit => CountersInv BY CountersInitially
<1>2. CountersInv /\ [CountersNext]_counterVars => CountersInv'
  <2>1. ASSUME CountersInv, UNCHANGED counterVars PROVE CountersInv'
    BY <2>1 DEF CountersInv, counterVars, CountersTypeOK, Quiet, Continued, Partway,
                FinalReportComplete, Column, SumOf
  <2> QED BY <2>1, CountingKeeps, BeginKeeps, MergeKeeps, CheckpointKeeps
          DEF CountersNext, Reporter
<1>3. CountersInv => FinalReportComplete BY DEF CountersInv
<1> QED BY <1>1, <1>2, <1>3, PTL DEF CountersSpec

----------------------------------------------------------------------------
(* The logger.                                                             *)

(* What is logged, what is printed, and who is about to print.             *)
Messages == Texts \cup Stamps
Lines == [text : Messages \cup {NoText}, times : Nat]
Unprinted == {t \in Loggers : pending[t] # NoText}

(* The type of the logger's state.                                         *)
LoggerTypeOK ==
  /\ text_cnt \in Nat
  /\ pending \in [Loggers -> Messages \cup {NoText}]
  /\ out \in Seq(Lines) /\ logged \in Seq(Messages)

(* NothingSwallowed is inductive with the type.                            *)
LoggerInv == LoggerTypeOK /\ NothingSwallowed

(* The messages that each printed line stands for,                         *)
Weights(o) == [i \in 0 .. Len(o) - 1 |-> Stands(o[i + 1])]

(* which are numbers.                                                      *)
LEMMA WeightsNat ==
  ASSUME NEW o \in Seq(Lines)
  PROVE  SumUpTo(Weights(o), Len(o)) \in Nat
<1>1. \A i \in 0 .. Len(o) - 1 : Weights(o)[i] \in Nat
  <2> TAKE i \in 0 .. Len(o) - 1
  <2>1. i + 1 \in 1 .. Len(o) OBVIOUS
  <2>2. o[i + 1] \in Lines BY <2>1
  <2> QED BY <2>2 DEF Weights, Stands, Lines
<1> QED BY <1>1, SumNat

(* A line more stands for its messages more.                               *)
LEMMA LinePrinted ==
  ASSUME NEW o \in Seq(Lines), NEW e \in Lines
  PROVE  /\ Append(o, e) \in Seq(Lines)
         /\ SumUpTo(Weights(Append(o, e)), Len(Append(o, e)))
              = SumUpTo(Weights(o), Len(o)) + Stands(e)
<1> DEFINE p == Append(o, e)
<1>1. p \in Seq(Lines) /\ Len(p) = Len(o) + 1 /\ p[Len(o) + 1] = e
      /\ \A i \in 1 .. Len(o) : p[i] = o[i]
  OBVIOUS
<1> HIDE DEF p
<1>2. Len(o) \in Nat OBVIOUS
<1>3. SumUpTo(Weights(p), Len(o) + 1) = SumUpTo(Weights(p), Len(o)) + Weights(p)[Len(o)]
  BY <1>2, SumStep
<1>4. Weights(p)[Len(o)] = Stands(e) BY <1>1, <1>2 DEF Weights
<1>5. \A i \in 0 .. Len(o) - 1 : Weights(p)[i] = Weights(o)[i]
  BY <1>1, <1>2 DEF Weights
<1>6. SumUpTo(Weights(p), Len(o)) = SumUpTo(Weights(o), Len(o)) BY <1>2, <1>5, SumEqual
<1> QED BY Zenon, <1>1, <1>3, <1>4, <1>6 DEF p

(* One logger more or less that is about to print.                         *)
LEMMA UnprintedCount ==
  ASSUME LoggerTypeOK
  PROVE  /\ IsFiniteSet(Unprinted) /\ Cardinality(Unprinted) \in Nat
         /\ \A t \in Loggers : Cardinality(Unprinted \cup {t}) =
              Cardinality(Unprinted) + IF t \in Unprinted THEN 0 ELSE 1
         /\ \A t \in Loggers : Cardinality(Unprinted \ {t}) =
              Cardinality(Unprinted) - IF t \in Unprinted THEN 1 ELSE 0
<1>1. IsFiniteSet(Unprinted)
  <2>1. Unprinted \subseteq Loggers BY DEF Unprinted
  <2> QED BY <2>1, LoggerAssumption, FS_Subset
<1>2. Cardinality(Unprinted) \in Nat BY <1>1, FS_CardinalityType
<1>3. ASSUME NEW t \in Loggers
      PROVE  Cardinality(Unprinted \cup {t}) =
               Cardinality(Unprinted) + IF t \in Unprinted THEN 0 ELSE 1
  BY <1>1, <1>2, FS_AddElement
<1>4. ASSUME NEW t \in Loggers
      PROVE  Cardinality(Unprinted \ {t}) =
               Cardinality(Unprinted) - IF t \in Unprinted THEN 1 ELSE 0
  <2>1. Cardinality(Unprinted \ {t}) = IF t \in Unprinted THEN Cardinality(Unprinted) - 1
                                                         ELSE Cardinality(Unprinted)
    BY <1>1, FS_RemoveElement
  <2> QED BY <1>2, <2>1
<1> QED BY <1>1, <1>2, <1>3, <1>4

(* The invariant holds at the start.                                       *)
LEMMA LoggerInitially == LogInit => LoggerInv
<1> SUFFICES ASSUME LogInit PROVE LoggerInv OBVIOUS
<1>1. LoggerTypeOK BY DEF LogInit, LoggerTypeOK, Messages, Lines
<1>2. Unprinted = {} BY DEF LogInit, Unprinted
<1>3. Cardinality(Unprinted) = 0 BY <1>2, FS_EmptySet
<1>4. Announced = 0 BY SumZero DEF LogInit, Announced
<1> QED BY <1>1, <1>3, <1>4 DEF LoggerInv, NothingSwallowed, Unprinted, LogInit

(* A call adds one message, and a step accounts for it.                    *)
Accounted(calls, lines, counted, waiting) ==
  /\ Len(logged') = Len(logged) + calls
  /\ Announced' = Announced + lines
  /\ text_cnt' = text_cnt + counted
  /\ Cardinality(Unprinted)' = Cardinality(Unprinted) + waiting

(* If the step accounts for every call, nothing is swallowed.              *)
LEMMA Balanced ==
  ASSUME LoggerInv, NEW calls \in Int, NEW lines \in Int, NEW counted \in Int,
         NEW waiting \in Int, Accounted(calls, lines, counted, waiting),
         calls = lines + counted + waiting
  PROVE  NothingSwallowed'
<1>1. Len(logged) \in Nat /\ text_cnt \in Nat BY DEF LoggerInv, LoggerTypeOK
<1>2. Announced \in Nat BY WeightsNat DEF Announced, LoggerInv, LoggerTypeOK, Weights
<1>3. Cardinality(Unprinted) \in Nat BY UnprintedCount DEF LoggerInv
<1>4. Len(logged) = Announced + text_cnt + Cardinality(Unprinted)
  BY DEF LoggerInv, NothingSwallowed, Unprinted
<1>5. Len(logged') = Announced' + text_cnt' + Cardinality(Unprinted)'
  BY <1>1, <1>2, <1>3, <1>4 DEF Accounted
<1> QED BY <1>5 DEF NothingSwallowed, Unprinted

(* The case that nothing is printed or waits.                              *)
LEMMA NoChange ==
  /\ UNCHANGED out => Announced' = Announced
  /\ UNCHANGED pending => Cardinality(Unprinted)' = Cardinality(Unprinted)
BY Zenon DEF Announced, Unprinted

(* A line is printed,                                                      *)
Prints(line) == out' = Append(out, line)

(* which adds its messages to those announced.                             *)
LEMMA OneLine ==
  ASSUME LoggerTypeOK, NEW line \in Lines, Prints(line)
  PROVE  /\ out' \in Seq(Lines)
         /\ Announced' = Announced + Stands(line)
BY Zenon, LinePrinted DEF LoggerTypeOK, Prints, Announced, Weights

(* A logger stores its message to print it.                                *)
LEMMA OneWaits ==
  ASSUME LoggerTypeOK, NEW t \in Loggers, pending[t] = NoText, NEW m \in Messages,
         pending' = [pending EXCEPT ![t] = m]
  PROVE  Cardinality(Unprinted)' = Cardinality(Unprinted) + 1
<1>1. m # NoText BY LoggerAssumption DEF Messages
<1>2. Unprinted' = Unprinted \cup {t} BY <1>1 DEF Unprinted, LoggerTypeOK
<1>3. t \notin Unprinted BY DEF Unprinted
<1> QED BY <1>2, <1>3, UnprintedCount

(* A line with a text stands for one message.                              *)
LEMMA TextLine ==
  ASSUME NEW m \in Messages
  PROVE  Line(m) \in Lines /\ Stands(Line(m)) = 1
BY LoggerAssumption DEF Line, Lines, Messages, Stands

(* A call logs one message.                                                *)
LEMMA CalledOnce ==
  ASSUME LoggerTypeOK, NEW m \in Messages, logged' = Append(logged, m)
  PROVE  logged' \in Seq(Messages) /\ Len(logged') = Len(logged) + 1
BY DEF LoggerTypeOK

(* Printing the stored message.                                            *)
LEMMA PrintMessageKeeps ==
  ASSUME LoggerInv, NEW t \in Loggers, PrintMessage(t)
  PROVE  LoggerInv'
<1> LoggerTypeOK BY DEF LoggerInv
<1>1. pending[t] \in Messages BY DEF LoggerTypeOK, PrintMessage
<1>2. out' \in Seq(Lines) /\ Announced' = Announced + 1
  <2>1. Prints(Line(pending[t])) BY DEF PrintMessage, Prints
  <2> QED BY <1>1, <2>1, TextLine, OneLine
<1>3. LoggerTypeOK' BY <1>2 DEF LoggerTypeOK, PrintMessage
<1>4. Cardinality(Unprinted)' = Cardinality(Unprinted) + -1
  <2>1. Unprinted' = Unprinted \ {t} BY DEF Unprinted, LoggerTypeOK, PrintMessage
  <2>2. t \in Unprinted BY DEF Unprinted, PrintMessage
  <2> QED BY <2>1, <2>2, UnprintedCount
<1>5. Len(logged') = Len(logged) + 0 /\ text_cnt' = text_cnt + 0
  BY DEF PrintMessage, LoggerTypeOK
<1>6. Accounted(0, 1, 0, -1) BY <1>2, <1>4, <1>5 DEF Accounted
<1> QED BY <1>3, <1>6, Balanced DEF LoggerInv

(* log_text() before log_init() prints at once.                            *)
LEMMA DirectKeeps ==
  ASSUME LoggerInv, NEW t \in Loggers, NEW m \in Texts, PrintDirectly(t, m)
  PROVE  LoggerInv'
<1> LoggerTypeOK BY DEF LoggerInv
<1>1. m \in Messages BY DEF Messages
<1>2. out' \in Seq(Lines) /\ Announced' = Announced + 1
  <2>1. Prints(Line(m)) BY DEF PrintDirectly, Prints
  <2> QED BY <1>1, <2>1, TextLine, OneLine
<1>3. logged' \in Seq(Messages) /\ Len(logged') = Len(logged) + 1
  BY <1>1, CalledOnce DEF PrintDirectly
<1>4. LoggerTypeOK' BY <1>2, <1>3 DEF LoggerTypeOK, PrintDirectly
<1>5. text_cnt' = text_cnt + 0 BY DEF PrintDirectly, LoggerTypeOK
<1>6. Cardinality(Unprinted)' = Cardinality(Unprinted) + 0
  BY NoChange, UnprintedCount DEF PrintDirectly
<1>7. Accounted(1, 1, 0, 0) BY <1>2, <1>3, <1>5, <1>6 DEF Accounted
<1> QED BY <1>4, <1>7, Balanced DEF LoggerInv

(* log_text() counts a repetition, or announces the count and goes on to   *)
(* print.                                                                  *)
LEMMA LogTextKeeps ==
  ASSUME LoggerInv, NEW t \in Loggers, NEW m \in Texts, log_text(t, m)
  PROVE  LoggerInv'
<1> LoggerTypeOK BY DEF LoggerInv
<1>1. m \in Messages BY DEF Messages
<1>2. logged' \in Seq(Messages) /\ Len(logged') = Len(logged) + 1 /\ pending[t] = NoText
  BY <1>1, CalledOnce DEF log_text, Called
<1>3. text_cnt \in Nat /\ Announced \in Nat /\ Cardinality(Unprinted) \in Nat
  BY Zenon, UnprintedCount, WeightsNat DEF LoggerTypeOK, Announced, Weights
<1>4. CASE text_buf = m
  <2>1. text_cnt' = text_cnt + 1 /\ UNCHANGED <<pending, out>> BY <1>4 DEF log_text
  <2>2. LoggerTypeOK' BY <1>2, <2>1 DEF LoggerTypeOK
  <2>3. Accounted(1, 0, 1, 0) BY <1>2, <1>3, <2>1, NoChange DEF Accounted
  <2> QED BY <2>2, <2>3, Balanced DEF LoggerInv
<1>5. CASE text_buf # m
  <2>1. /\ out' = IF text_cnt > 0 THEN Append(out, Notice(text_cnt)) ELSE out
        /\ text_cnt' = 0 /\ pending' = [pending EXCEPT ![t] = m]
    BY <1>5 DEF log_text
  <2>2. Cardinality(Unprinted)' = Cardinality(Unprinted) + 1 BY Zenon, <1>1, <1>2, <2>1, OneWaits
  <2>3. out' \in Seq(Lines) /\ Announced' = Announced + text_cnt
    <3>1. CASE text_cnt > 0
      <4>1. Notice(text_cnt) \in Lines /\ Stands(Notice(text_cnt)) = text_cnt
        BY <1>3 DEF Notice, Lines, Stands
      <4>2. Prints(Notice(text_cnt)) BY <2>1, <3>1 DEF Prints
      <4> QED BY <4>1, <4>2, OneLine
    <3>2. CASE ~(text_cnt > 0)
      BY <1>3, <2>1, <3>2, NoChange DEF LoggerTypeOK
    <3> QED BY <3>1, <3>2
  <2>4. LoggerTypeOK' BY <1>1, <1>2, <2>1, <2>3 DEF LoggerTypeOK
  <2>5. Accounted(1, text_cnt, -text_cnt, 1) BY <1>2, <1>3, <2>1, <2>2, <2>3 DEF Accounted
  <2> QED BY <1>3, <2>4, <2>5, Balanced DEF LoggerInv
<1> QED BY <1>4, <1>5

(* log_timestamp() goes on to print.                                       *)
LEMMA LogTimestampKeeps ==
  ASSUME LoggerInv, NEW t \in Loggers, NEW m \in Stamps, log_timestamp(t, m)
  PROVE  LoggerInv'
<1> LoggerTypeOK BY DEF LoggerInv
<1>1. m \in Messages BY DEF Messages
<1>2. logged' \in Seq(Messages) /\ Len(logged') = Len(logged) + 1
  BY <1>1, CalledOnce DEF log_timestamp, Called
<1>3. Cardinality(Unprinted)' = Cardinality(Unprinted) + 1
  BY Zenon, <1>1, OneWaits DEF log_timestamp, Called
<1>4. LoggerTypeOK' BY <1>1, <1>2 DEF LoggerTypeOK, log_timestamp
<1>5. Announced \in Nat BY Zenon, WeightsNat DEF LoggerTypeOK, Announced, Weights
<1>6. text_cnt' = text_cnt + 0 /\ Announced' = Announced + 0
  BY <1>5, NoChange DEF log_timestamp, LoggerTypeOK
<1>7. Accounted(1, 0, 0, 1) BY <1>2, <1>3, <1>6 DEF Accounted
<1> QED BY <1>4, <1>7, Balanced DEF LoggerInv

(* No message logged is swallowed by the suppression of repetitions: each  *)
(* is printed, is part of an announced count, is counted in text_cnt or is *)
(* about to be printed, for any number of threads and messages.            *)
THEOREM NoMessageSwallowed == LogSpec => []NothingSwallowed
<1>1. LogInit => LoggerInv BY LoggerInitially
<1>2. LoggerInv /\ [LogNext]_logVars => LoggerInv'
  <2>1. ASSUME LoggerInv, UNCHANGED <<text_cnt, pending, out, logged>> PROVE LoggerInv'
    BY <2>1 DEF LoggerInv, LoggerTypeOK, NothingSwallowed, Announced
  <2>2. log_init \/ log_done \/ UNCHANGED logVars
          => UNCHANGED <<text_cnt, pending, out, logged>>
    BY DEF log_init, log_done, logVars
  <2> QED BY Zenon, <2>1, <2>2, PrintMessageKeeps, DirectKeeps, LogTextKeeps, LogTimestampKeeps
          DEF LogNext
<1>3. LoggerInv => NothingSwallowed BY DEF LoggerInv
<1> QED BY <1>1, <1>2, <1>3, PTL DEF LogSpec
=============================================================================
