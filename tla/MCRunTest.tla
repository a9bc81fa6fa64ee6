----------------------------- MODULE MCRunTest -----------------------------
EXTENDS RunTest

(* A run with --rate and --report-interval in which everything may fail,   *)
(* and one with --warmup-time and --report-checkpoints.                    *)
TwoRuns ==
  {[features |-> {"rate", "reports"}, faults |-> FaultKinds],
   [features |-> {"warmup", "checkpoints"}, faults |-> {}]}
=============================================================================
