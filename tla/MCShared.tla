------------------------------ MODULE MCShared ------------------------------
(***************************************************************************)
(* The data structures that all threads of sysbench share, checked side by *)
(* side: the latency histogram, the counters, the text log and the unique  *)
(* identifiers.  They share no state, so a behaviour exercises one of      *)
(* them, which the variable part selects.                                  *)
(***************************************************************************)
EXTENDS Rand, Histogram, Counters, Logger, Bitwise

VARIABLE part

sharedVars == <<part, randVars, histogramVars, counterVars, logVars>>

(* Exclusive or with a constant on words of four bits.                     *)
Mask4 == [x \in 0 .. 15 |-> x ^^ 6]

SharedInit ==
  /\ part \in {"histogram", "counters", "log", "identifiers"}
  /\ HistogramInit /\ CountersInit /\ LogInit
  /\ RandInit /\ (part # "identifiers" => rand_unique_seed(0, 0))

HistogramStep ==
  part = "histogram" /\ HistogramNext /\ UNCHANGED <<part, randVars, counterVars, logVars>>
CountersStep ==
  part = "counters" /\ CountersNext /\ UNCHANGED <<part, randVars, histogramVars, logVars>>
LogStep ==
  part = "log" /\ LogNext /\ UNCHANGED <<part, randVars, histogramVars, counterVars>>
IdentifierStep ==
  part = "identifiers" /\ RandNext /\ UNCHANGED <<part, histogramVars, counterVars, logVars>>

SharedNext == HistogramStep \/ CountersStep \/ LogStep \/ IdentifierStep

SharedSpec == SharedInit /\ [][SharedNext]_sharedVars /\ HistogramFairness
=============================================================================
