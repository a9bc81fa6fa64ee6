------------------------------ MODULE Globals ------------------------------
(***************************************************************************)
(* sb_globals: the number of worker threads, which index the arrays that   *)
(* sb_alloc_per_thread_array() allocates.                                  *)
(***************************************************************************)
EXTENDS Integers

CONSTANT NThreads     \* sb_globals.threads

(* init() refuses --threads below 1.                                       *)
ASSUME ThreadsAssumption == NThreads \in Nat \ {0}

Workers == 0 .. NThreads - 1
============================================================================
