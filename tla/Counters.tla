------------------------------ MODULE Counters ------------------------------
(***************************************************************************)
(* sb_counter.[ch]: counters that each worker bumps for itself with a load *)
(* and a store, while two reporters, one for the intermediate and one for  *)
(* the cumulative reports, add them up one word at a time.  Each reporter  *)
(* reports what is new since its last report.                              *)
(***************************************************************************)
EXTENDS Globals, Sequences, FiniteSets, Sums

CONSTANTS
  Types,        \* number of counter types, SB_CNT_MAX
  MaxCount,     \* bound: increments of each counter
  MaxReports    \* bound: reports of each kind

ASSUME CountersAssumption == Types \in Nat

Counters == 0 .. Types - 1
Kinds == {"intermediate", "cumulative"}

VARIABLES
  counters,    \* sb_counters
  adding,      \* per worker: the type being bumped and the value loaded, or <<>>
  last,        \* last_intermediate_counters, last_cumulative_counters
  word,         \* per kind: words merged so far, type-major; -1 when idle
  val,         \* per kind: the array being built
  reports,     \* per kind: number of reports made
  totals,      \* per kind: sum of the reported values
  done,        \* workers that have finished
  final        \* kinds that began a report after all workers were done

counterVars == <<counters, adding, last, word, val, reports, totals, done, final>>

NoCounts == [t \in Counters |-> 0]
CounterWords == NThreads * Types

CountersInit ==
  /\ counters = [w \in Workers |-> NoCounts]
  /\ adding = [w \in Workers |-> <<>>]
  /\ last = [k \in Kinds |-> NoCounts]
  /\ word = [k \in Kinds |-> -1]
  /\ val = [k \in Kinds |-> NoCounts]
  /\ reports = [k \in Kinds |-> 0]
  /\ totals = [k \in Kinds |-> NoCounts]
  /\ done = {} /\ final = {}

(* sb_counter_add() by the owner of the counters: load, then store.        *)
AddLoad(w) ==
  /\ w \notin done /\ adding[w] = <<>>
  /\ \E t \in Counters : /\ counters[w][t] < MaxCount
                         /\ adding' = [adding EXCEPT ![w] = <<t, counters[w][t]>>]
  /\ UNCHANGED <<counters, last, word, val, reports, totals, done, final>>

AddStore(w) ==
  /\ adding[w] # <<>>
  /\ counters' = [counters EXCEPT ![w][adding[w][1]] = adding[w][2] + 1]
  /\ adding' = [adding EXCEPT ![w] = <<>>]
  /\ UNCHANGED <<last, word, val, reports, totals, done, final>>

WorkerDone(w) ==
  /\ adding[w] = <<>> /\ w \notin done
  /\ done' = done \cup {w}
  /\ UNCHANGED <<counters, adding, last, word, val, reports, totals, final>>

(* sb_counters_agg_*(): clear the array, merge word by word, checkpoint.   *)
Begin(k) ==
  /\ word[k] = -1 /\ reports[k] < MaxReports
  /\ word' = [word EXCEPT ![k] = 0]
  /\ val' = [val EXCEPT ![k] = NoCounts]
  /\ final' = IF done = Workers THEN final \cup {k} ELSE final
  /\ UNCHANGED <<counters, adding, last, reports, totals, done>>

(* Mutant of MergeWord: the loop over the threads ends one too early.      *)
MergeWord_SkipsLast(k) ==
  /\ word[k] \in 0 .. CounterWords - 1
  /\ LET t == word[k] \div NThreads
         w == word[k] % NThreads
     IN val' = IF w = NThreads - 1 THEN val ELSE [val EXCEPT ![k][t] = @ + counters[w][t]]
  /\ word' = [word EXCEPT ![k] = @ + 1]
  /\ UNCHANGED <<counters, adding, last, reports, totals, done, final>>

MergeWord(k) ==
  /\ word[k] \in 0 .. CounterWords - 1
  /\ LET t == word[k] \div NThreads
         w == word[k] % NThreads
     IN val' = [val EXCEPT ![k][t] = @ + counters[w][t]]
  /\ word' = [word EXCEPT ![k] = @ + 1]
  /\ UNCHANGED <<counters, adding, last, reports, totals, done, final>>

Checkpoint(k) ==
  /\ word[k] = CounterWords
  /\ last' = [last EXCEPT ![k] = val[k]]
  /\ val' = [val EXCEPT ![k] = [t \in Counters |-> val[k][t] - last[k][t]]]
  /\ totals' = [totals EXCEPT ![k] = [t \in Counters |-> @[t] + val'[k][t]]]
  /\ reports' = [reports EXCEPT ![k] = @ + 1]
  /\ word' = [word EXCEPT ![k] = -1]
  /\ UNCHANGED <<counters, adding, done, final>>

Reporter(k) == Begin(k) \/ MergeWord(k) \/ Checkpoint(k)

CountersNext == \/ \E w \in Workers : AddLoad(w) \/ AddStore(w) \/ WorkerDone(w)
        \/ \E k \in Kinds : Reporter(k)

CountersSpec == CountersInit /\ [][CountersNext]_counterVars

----------------------------------------------------------------------------
SumOf(t) == SumUpTo([w \in Workers |-> counters[w][t]], NThreads)

(* A report that begins after the workers are done, as the final one does, *)
(* brings the sum of its kind to everything that was counted; the reports  *)
(* of the other kind take nothing from it.                                 *)
FinalReportComplete ==
  \A k \in final : word[k] = -1 => totals[k] = [t \in Counters |-> SumOf(t)]
============================================================================
