-------------------------------- MODULE Sums --------------------------------
(***************************************************************************)
(* Sums over the indices of an array, as the loops of the code compute     *)
(* them.  They are recursive functions, and not folds of an operator, so   *)
(* that facts about them can be proved.                                    *)
(***************************************************************************)
EXTENDS Integers

PartialSums(f) == LET s[k \in Nat] == IF k = 0 THEN 0 ELSE s[k - 1] + f[k - 1] IN s

(* f[0] + ... + f[n - 1] *)
SumUpTo(f, n) == PartialSums(f)[n]
=============================================================================
