-------------------------------- MODULE Rand --------------------------------
(***************************************************************************)
(* sb_rand.c: the generator of unique identifiers that all threads share,  *)
(* and the ranges of the integer distributions.  A 32-bit word is a number *)
(* below Word, the prime 4294967291 is Prime, and the exclusive or with    *)
(* 0x5bf03635 is the function Mask.                                        *)
(***************************************************************************)
EXTENDS Integers

CONSTANTS
  Callers,      \* threads that draw identifiers
  Word,         \* 2^32
  Prime,        \* the largest prime below it, 3 modulo 4
  Mask,         \* exclusive or with a constant
  SeedIndex,    \* 0x682f0161
  SeedOffset    \* 0x46790905

Words == 0 .. Word - 1

(* The square in 64 bits, reduced.                                         *)
Residue(x) == (x * x) % Prime

ASSUME WordAssumption == Word \in Nat /\ Prime \in Nat /\ 2 < Prime /\ Prime <= Word

ASSUME SeedAssumption == SeedIndex \in Words /\ SeedOffset \in Words

(* Exclusive or with a constant is one to one.                             *)
ASSUME MaskAssumption ==
  Mask \in [Words -> Words] /\ \A x, y \in Words : Mask[x] = Mask[y] => x = y

(* What is used of Prime: it is odd, a residue has two square roots modulo *)
(* a prime, and -1 has none modulo a prime that is 3 modulo 4.             *)
ASSUME PrimeAssumption ==
  /\ Prime % 2 = 1
  /\ \A x, y \in 0 .. Prime - 1 :
       Residue(x) = Residue(y) => x = y \/ x + y = Prime
  /\ \A x, y \in 1 .. Prime - 1 : Residue(x) + Residue(y) # Prime

VARIABLES
  rand_unique_index,   \* the next index
  rand_unique_offset,  \* the offset
  held,                \* held[t]: the index t has taken and not used, or NoIndex
  first,               \* history: the index after seeding
  taken,               \* history: indices taken
  drawn                \* history: drawn[v]: how often v has been returned

randVars == <<rand_unique_index, rand_unique_offset, held, first, taken, drawn>>

NoIndex == -1

(* Sums of two words wrap around.                                          *)
Plus(x, y) == (x + y) % Word

rand_unique_permute(x) ==
  IF x >= Prime THEN x
  ELSE IF x <= Prime \div 2 THEN Residue(x) ELSE Prime - Residue(x)

(* The identifier that belongs to an index.                                *)
Identifier(i) ==
  rand_unique_permute(Mask[Plus(rand_unique_permute(i), rand_unique_offset)])

(* rand_unique_seed() with two results of random(), which are below 2^31.  *)
rand_unique_seed(index, offset) ==
  /\ rand_unique_index = rand_unique_permute(Plus(rand_unique_permute(index), SeedIndex))
  /\ rand_unique_offset = rand_unique_permute(Plus(rand_unique_permute(offset), SeedOffset))

RandInit ==
  /\ \E index, offset \in 0 .. Word \div 2 - 1 : rand_unique_seed(index, offset)
  /\ held = [t \in Callers |-> NoIndex]
  /\ first = rand_unique_index /\ taken = 0
  /\ drawn = [v \in Words |-> 0]

(* Mutant: the index is incremented after it has been used.                *)
TakeIndex_NotAtomic(t) ==
  /\ held[t] = NoIndex /\ taken < Word
  /\ held' = [held EXCEPT ![t] = rand_unique_index]
  /\ rand_unique_index' = IF \E u \in Callers : held[u] # NoIndex THEN rand_unique_index
                          ELSE Plus(rand_unique_index, 1)
  /\ taken' = taken + 1
  /\ UNCHANGED <<rand_unique_offset, first, drawn>>

(* sb_rand_unique(): the atomic fetch and add, and the value returned.     *)
(* The bound on taken is one round of the index.                           *)
TakeIndex(t) ==
  /\ held[t] = NoIndex /\ taken < Word
  /\ held' = [held EXCEPT ![t] = rand_unique_index]
  /\ rand_unique_index' = Plus(rand_unique_index, 1)
  /\ taken' = taken + 1
  /\ UNCHANGED <<rand_unique_offset, first, drawn>>

ReturnUnique(t) ==
  /\ held[t] # NoIndex
  /\ drawn' = [drawn EXCEPT ![Identifier(held[t])] = @ + 1]
  /\ held' = [held EXCEPT ![t] = NoIndex]
  /\ UNCHANGED <<rand_unique_index, rand_unique_offset, first, taken>>

RandNext == \E t \in Callers : TakeIndex(t) \/ ReturnUnique(t)

RandSpec == RandInit /\ [][RandNext]_randVars

----------------------------------------------------------------------------
RandTypeOK ==
  /\ rand_unique_index \in Words /\ rand_unique_offset \in Words
  /\ held \in [Callers -> Words \cup {NoIndex}]
  /\ first \in Words /\ taken \in 0 .. Word
  /\ drawn \in [Words -> Nat]

(* Whatever the seeds are and however the threads interleave, no           *)
(* identifier is returned twice in a whole round of the 32-bit index of    *)
(* sb_rand_unique().                                                       *)
UniqueIds == \A v \in Words : drawn[v] <= 1

----------------------------------------------------------------------------
(* The integer distributions.  A random double in [0, 1) is n / d with     *)
(* n < d; the other operations on doubles are taken as exact.              *)

(* sb_rand_uniform(), and sb_rand_pareto() with n / d the power of the     *)
(* random number: b - a + 1 is computed modulo 2^32.                       *)
sb_rand_uniform(a, b, n, d) == a + (n * ((b - a + 1) % Word)) \div d

(* sb_rand_gaussian(): the average of iter numbers, which add up to n / d. *)
sb_rand_gaussian(a, b, n, d, iter) == a + (n * ((b - a + 1) % Word)) \div (d * iter)

(* The length that sb_rand_varstr() writes.                                *)
sb_rand_varstr(min_len, max_len, n, d) ==
  IF max_len = 0 THEN 0
  ELSE sb_rand_uniform(IF min_len > max_len THEN 1 ELSE min_len, max_len, n, d)
=============================================================================
