---------------------------- MODULE TimersProofs ----------------------------
(***************************************************************************)
(* What the timers of the threads show, for any number of threads and any  *)
(* bounds: no event is lost between the copies that the reports take, and a*)
(* cumulative report is right.  Before that, what these proofs and those of*)
(* SharedProofs rest on: induction, sums, quotients and remainders.        *)
(***************************************************************************)
EXTENDS Timers, WellFoundedInduction, TLAPS

----------------------------------------------------------------------------
(* Induction, sums and division.                                           *)

(* A set of naturals has a least element.                                  *)
LEMMA LeastNat ==
  ASSUME NEW S, S \subseteq Nat, S # {}
  PROVE  \E x \in S : \A y \in S : x <= y
<1>1. IsWellFoundedOn(OpToRel(<, Nat), Nat) BY Zenon, NatLessThanWellFounded
<1>2. PICK x \in S : \A y \in S : ~ (<<y, x>> \in OpToRel(<, Nat))
  BY Zenon, <1>1, WFMin
<1>3. \A y \in S : ~(y < x) BY Zenon, <1>2 DEF OpToRel
<1> QED BY <1>3

(* Induction, as a fact about a set of naturals.                           *)
LEMMA Induct ==
  ASSUME NEW S, 0 \in S, \A n \in Nat : n \in S => n + 1 \in S
  PROVE  Nat \subseteq S
<1> SUFFICES ASSUME Nat \ S # {} PROVE FALSE
  OBVIOUS
<1>1. PICK x \in Nat \ S : \A y \in Nat \ S : x <= y
  BY Zenon, LeastNat
<1>2. x - 1 \in Nat /\ x - 1 \in S
  BY <1>1
<1> QED BY <1>1, <1>2

(* The sums of the first 0 .. n values of f.                               *)
Partial(f, n, s) == s = [k \in 0 .. n |-> IF k = 0 THEN 0 ELSE s[k - 1] + f[k - 1]]

(* They exist, for every n,                                                *)
LEMMA PartialExists ==
  ASSUME NEW f, NEW n \in Nat
  PROVE  \E s : Partial(f, n, s)
<1> DEFINE S == {m \in Nat : \E s : Partial(f, m, s)}
<1>1. 0 \in S
  <2>1. Partial(f, 0, [k \in 0 .. 0 |-> 0])
    BY DEF Partial
  <2> QED BY <2>1
<1>2. ASSUME NEW m \in Nat, m \in S PROVE m + 1 \in S
  <2>1. PICK s : Partial(f, m, s) BY <1>2
  <2> DEFINE r == [k \in 0 .. m + 1 |-> IF k = m + 1 THEN s[m] + f[m] ELSE s[k]]
  <2>2. \A k \in 0 .. m : s[k] = IF k = 0 THEN 0 ELSE s[k - 1] + f[k - 1]
    BY <2>1 DEF Partial
  <2>3. \A k \in 0 .. m + 1 : r[k] = IF k = 0 THEN 0 ELSE r[k - 1] + f[k - 1]
    BY <2>2
  <2>4. Partial(f, m + 1, r)
    BY <2>3 DEF Partial
  <2> QED BY <2>4
<1> HIDE DEF S
<1>3. Nat \subseteq S BY <1>1, <1>2, Induct
<1> QED BY <1>3 DEF S

(* and do not depend on how far they go.                                   *)
LEMMA PartialUnique ==
  ASSUME NEW f, NEW m \in Nat, NEW n \in Nat, NEW s, NEW r,
         Partial(f, m, s), Partial(f, n, r), NEW k \in Nat, k <= m, k <= n
  PROVE  s[k] = r[k]
<1> DEFINE S == {j \in Nat : j <= m /\ j <= n => s[j] = r[j]}
<1>0. /\ \A j \in 0 .. m : s[j] = IF j = 0 THEN 0 ELSE s[j - 1] + f[j - 1]
      /\ \A j \in 0 .. n : r[j] = IF j = 0 THEN 0 ELSE r[j - 1] + f[j - 1]
  BY DEF Partial
<1>1. 0 \in S BY <1>0
<1>2. ASSUME NEW j \in Nat, j \in S PROVE j + 1 \in S
  BY <1>0, <1>2
<1>3. Nat \subseteq S 
  <2> HIDE DEF S
  <2> QED BY <1>1, <1>2, Induct
<1> QED BY <1>3

(* So the recursive definition of PartialSums has a solution.              *)
LEMMA PartialSumsDef ==
  ASSUME NEW f
  PROVE  PartialSums(f) = [k \in Nat |-> IF k = 0 THEN 0 ELSE PartialSums(f)[k - 1] + f[k - 1]]
<1> DEFINE P(n) == CHOOSE s : Partial(f, n, s)
           g == [k \in Nat |-> P(k)[k]]
<1>1. \A n \in Nat : Partial(f, n, P(n)) BY PartialExists
<1>2. \A k \in Nat : g[k] = IF k = 0 THEN 0 ELSE g[k - 1] + f[k - 1]
  <2> SUFFICES ASSUME NEW k \in Nat
               PROVE  g[k] = IF k = 0 THEN 0 ELSE g[k - 1] + f[k - 1]
    BY Zenon
  <2>1. Partial(f, k, P(k)) BY <1>1
  <2>2. P(k)[k] = IF k = 0 THEN 0 ELSE P(k)[k - 1] + f[k - 1]
    <3> HIDE DEF P
    <3> QED BY <2>1 DEF Partial
  <2>3. CASE k = 0 BY <2>2, <2>3
  <2>4. CASE k # 0
    <3>1. k - 1 \in Nat /\ Partial(f, k - 1, P(k - 1)) BY <2>4, <1>1
    <3>2. P(k)[k - 1] = P(k - 1)[k - 1]
      <4> HIDE DEF P
      <4> QED BY <3>1, <2>1, PartialUnique
    <3> QED BY <3>1, <3>2, <2>2, <2>4
  <2> QED BY <2>3, <2>4
<1>3. g = [k \in Nat |-> IF k = 0 THEN 0 ELSE g[k - 1] + f[k - 1]]
  <2>1. g = [k \in Nat |-> g[k]] OBVIOUS
  <2> HIDE DEF g
  <2> QED BY Zenon, <1>2, <2>1
<1>4. \E s : s = [k \in Nat |-> IF k = 0 THEN 0 ELSE s[k - 1] + f[k - 1]]
  BY Zenon, <1>3
<1> QED BY <1>4 DEF PartialSums

(* The sum of no values.                                                   *)
LEMMA SumZero == \A f : SumUpTo(f, 0) = 0
BY PartialSumsDef DEF SumUpTo

(* One more value is added to the sum.                                     *)
LEMMA SumStep ==
  ASSUME NEW f, NEW n \in Nat
  PROVE  SumUpTo(f, n + 1) = SumUpTo(f, n) + f[n]
<1>1. PartialSums(f)[n + 1] = IF n + 1 = 0 THEN 0 ELSE PartialSums(f)[n + 1 - 1] + f[n + 1 - 1]
  BY PartialSumsDef
<1> QED BY <1>1 DEF SumUpTo

(* A sum of naturals is a natural,                                         *)
LEMMA SumNat ==
  ASSUME NEW n \in Nat, NEW f, \A k \in 0 .. n - 1 : f[k] \in Nat
  PROVE  SumUpTo(f, n) \in Nat
<1> DEFINE S == {m \in Nat : m <= n => SumUpTo(f, m) \in Nat}
<1>1. 0 \in S BY SumZero
<1>2. ASSUME NEW m \in Nat, m \in S PROVE m + 1 \in S
  BY <1>2, SumStep
<1>3. Nat \subseteq S
  <2> HIDE DEF S
  <2> QED BY <1>1, <1>2, Induct
<1> QED BY <1>3

(* and a sum of integers an integer.                                       *)
LEMMA SumInt ==
  ASSUME NEW n \in Nat, NEW f, \A k \in 0 .. n - 1 : f[k] \in Int
  PROVE  SumUpTo(f, n) \in Int
<1> DEFINE S == {m \in Nat : m <= n => SumUpTo(f, m) \in Int}
<1>1. 0 \in S BY SumZero
<1>2. ASSUME NEW m \in Nat, m \in S PROVE m + 1 \in S
  BY <1>2, SumStep
<1>3. Nat \subseteq S
  <2> HIDE DEF S
  <2> QED BY <1>1, <1>2, Induct
<1> QED BY <1>3

(* Equal values have equal sums.                                           *)
LEMMA SumEqual ==
  ASSUME NEW n \in Nat, NEW f, NEW g, \A k \in 0 .. n - 1 : f[k] = g[k]
  PROVE  SumUpTo(f, n) = SumUpTo(g, n)
<1> DEFINE S == {m \in Nat : m <= n => SumUpTo(f, m) = SumUpTo(g, m)}
<1>1. 0 \in S BY SumZero
<1>2. ASSUME NEW m \in Nat, m \in S PROVE m + 1 \in S
  BY <1>2, SumStep
<1>3. Nat \subseteq S
  <2> HIDE DEF S
  <2> QED BY <1>1, <1>2, Induct
<1> QED BY <1>3

(* Changing one value changes the sum by the difference.                   *)
LEMMA SumChange ==
  ASSUME NEW n \in Nat, NEW f, NEW g, NEW i \in 0 .. n - 1,
         \A k \in 0 .. n - 1 : f[k] \in Int,
         \A k \in 0 .. n - 1 : k # i => g[k] = f[k], g[i] \in Int
  PROVE  SumUpTo(g, n) = SumUpTo(f, n) + g[i] - f[i]
<1> DEFINE S == {m \in Nat : m <= n => /\ SumUpTo(f, m) \in Int
                                      /\ SumUpTo(g, m) = SumUpTo(f, m) + IF m > i THEN g[i] - f[i] ELSE 0}
<1>1. 0 \in S BY SumZero
<1>2. ASSUME NEW m \in Nat, m \in S PROVE m + 1 \in S
  <2>1. SumUpTo(f, m + 1) = SumUpTo(f, m) + f[m] /\ SumUpTo(g, m + 1) = SumUpTo(g, m) + g[m]
    BY SumStep
  <2> QED BY <1>2, <2>1
<1>3. Nat \subseteq S
  <2> HIDE DEF S
  <2> QED BY <1>1, <1>2, Induct
<1> QED BY <1>3

(* Dividing a natural.                                                     *)
LEMMA DivMod ==
  ASSUME NEW p \in Nat, NEW d \in Nat \ {0}
  PROVE  /\ p \div d \in Nat /\ p % d \in 0 .. d - 1
         /\ p = d * (p \div d) + (p % d)
<1>1. p = d * (p \div d) + (p % d) OBVIOUS
<1>2. p % d \in 0 .. d - 1 OBVIOUS
<1>3. p \div d \in Int OBVIOUS
<1>4. p \div d >= 0
  <2> DEFINE q == p \div d
             r == p % d
  <2>1. q \in Int /\ r \in 0 .. d - 1 /\ p = d * q + r BY <1>1, <1>2, <1>3
  <2> HIDE DEF q, r
  <2> SUFFICES ASSUME q < 0 PROVE FALSE BY <2>1 DEF q
  <2>2. d * q + d <= 0
    <3>1. PICK k \in Nat : q = -1 - k BY <2>1, -1 - q \in Nat
    <3>2. d * k \in Nat OBVIOUS
    <3>3. d * q = (-d) - d * k BY <3>1
    <3> QED BY <3>2, <3>3
  <2> QED BY <2>1, <2>2
<1> QED BY <1>1, <1>2, <1>3, <1>4

(* A multiple of a larger number is larger by one factor at least.         *)
LEMMA Product ==
  ASSUME NEW d \in Nat, NEW a \in Int, NEW b \in Int, a < b
  PROVE  d * a + d <= d * b
<1>1. PICK k \in Nat : b = a + 1 + k BY b - a - 1 \in Nat
<1>2. d * k \in Nat OBVIOUS
<1>3. d * b = d * a + d + d * k BY <1>1
<1> QED BY <1>2, <1>3

(* A position in a table of n rows of d cells has a row and a column.      *)
LEMMA CellOf ==
  ASSUME NEW n \in Nat \ {0}, NEW d \in Nat \ {0}, NEW p \in Nat, p < n * d
  PROVE  /\ p \div d \in 0 .. n - 1 /\ p % d \in 0 .. d - 1
         /\ p \div d = 0 => p % d = p
         /\ p \div d # 0 => p >= d
<1> DEFINE q == p \div d
           r == p % d
<1>1. q \in Nat /\ r \in 0 .. d - 1 /\ p = d * q + r BY DivMod
<1> HIDE DEF q, r
<1>2. q < n
  <2> SUFFICES ASSUME n <= q PROVE FALSE BY <1>1
  <2>1. CASE n = q BY <2>1, <1>1
  <2>2. CASE n < q
    <3>1. d * n + d <= d * q BY <2>2, <1>1, Product
    <3> QED BY <3>1, <1>1
  <2> QED BY <2>1, <2>2, <1>1
<1>3. q = 0 => r = p BY <1>1
<1>4. q # 0 => p >= d
  <2> SUFFICES ASSUME 0 < q PROVE p >= d BY <1>1
  <2>1. d * 0 + d <= d * q BY <1>1, Product
  <2> QED BY <2>1, <1>1
<1> QED BY <1>1, <1>2, <1>3, <1>4 DEF q, r

(* Values bounded by multiples of m have a sum bounded by the multiple.    *)
LEMMA SumBounds ==
  ASSUME NEW n \in Nat, NEW f, NEW g, NEW m \in Nat,
         \A k \in 0 .. n - 1 : f[k] \in Nat /\ g[k] \in Nat
  PROVE  /\ (\A k \in 0 .. n - 1 : g[k] * m <= f[k]) => SumUpTo(g, n) * m <= SumUpTo(f, n)
         /\ (\A k \in 0 .. n - 1 : f[k] <= g[k] * m) => SumUpTo(f, n) <= SumUpTo(g, n) * m
<1> DEFINE F(j) == SumUpTo(f, j)
           G(j) == SumUpTo(g, j)
           S == {j \in Nat : j <= n =>
                  /\ (\A k \in 0 .. n - 1 : g[k] * m <= f[k]) => G(j) * m <= F(j)
                  /\ (\A k \in 0 .. n - 1 : f[k] <= g[k] * m) => F(j) <= G(j) * m}
<1>1. 0 \in S BY SumZero
<1>2. ASSUME NEW j \in Nat, j \in S PROVE j + 1 \in S
  <2> SUFFICES ASSUME j + 1 <= n
               PROVE  /\ (\A k \in 0 .. n - 1 : g[k] * m <= f[k]) => G(j + 1) * m <= F(j + 1)
                      /\ (\A k \in 0 .. n - 1 : f[k] <= g[k] * m) => F(j + 1) <= G(j + 1) * m
    OBVIOUS
  <2>1. F(j + 1) = F(j) + f[j] /\ G(j + 1) = G(j) + g[j] BY SumStep
  <2>2. F(j) \in Nat /\ G(j) \in Nat
    <3>1. \A k \in 0 .. j - 1 : f[k] \in Nat /\ g[k] \in Nat OBVIOUS
    <3> QED BY <3>1, SumNat
  <2>3. f[j] \in Nat /\ g[j] \in Nat /\ j \in 0 .. n - 1 OBVIOUS
  <2>4. /\ (\A k \in 0 .. n - 1 : g[k] * m <= f[k]) => G(j) * m <= F(j)
        /\ (\A k \in 0 .. n - 1 : f[k] <= g[k] * m) => F(j) <= G(j) * m
    BY <1>2
  <2> HIDE DEF F, G
  <2>5. G(j + 1) * m = G(j) * m + g[j] * m BY <2>1, <2>2, <2>3
  <2>6. G(j) * m \in Nat /\ g[j] * m \in Nat BY <2>2, <2>3
  <2> QED BY <2>1, <2>2, <2>3, <2>4, <2>5, <2>6
<1>3. Nat \subseteq S
  <2> HIDE DEF S
  <2> QED BY <1>1, <1>2, Induct
<1> QED BY <1>3

(* A quotient lies between the bounds of what is divided.                  *)
LEMMA Quotient ==
  ASSUME NEW n \in Nat \ {0}, NEW p \in Nat, NEW a \in Nat, NEW b \in Nat,
         n * a <= p, p <= n * b
  PROVE  p \div n \in a .. b
<1> DEFINE q == p \div n
           r == p % n
<1>1. q \in Nat /\ r \in 0 .. n - 1 /\ p = n * q + r BY Zenon, DivMod
<1> HIDE DEF q, r
<1>2. n * q \in Nat /\ n * a \in Nat /\ n * b \in Nat BY <1>1
<1>3. ~(q < a)
  <2> SUFFICES ASSUME q < a PROVE FALSE OBVIOUS
  <2>1. n * q + n <= n * a BY <1>1, Product
  <2> QED BY <1>1, <1>2, <2>1
<1>4. ~(b < q)
  <2> SUFFICES ASSUME b < q PROVE FALSE OBVIOUS
  <2>1. n * b + n <= n * q BY <1>1, Product
  <2> QED BY <1>1, <1>2, <2>1
<1>5. q \in a .. b BY <1>1, <1>3, <1>4
<1> QED BY <1>5 DEF q

----------------------------------------------------------------------------
(* No event is lost.                                                       *)

(* The type of a timer and of the timers' state.                           *)
TimerType == [start : Nat, end : Nat, events : Nat, queue : Nat,
              min : Nat, max : Nat, sum : Nat]

TimersTypeOK ==
  /\ clock \in 1 .. MaxClock
  /\ timer \in [Workers -> TimerType] /\ copy \in [Workers -> TimerType]
  /\ spinlock \in [Workers -> BOOLEAN]
  /\ wpc \in [Workers -> {"loop", "taken", "starting", "running", "stopping", "adding"}]
  /\ rpc \in [Runners -> {"idle", "loop", "copy", "reset", "reported", "exited"}]
  /\ ri \in [Runners -> 0 .. NThreads]
  /\ host \in -1 .. NThreads + 1
  /\ finished \in [Workers -> Nat] /\ collected \in [Workers -> Nat]
  /\ latencies \in [Workers -> Seq(Nat)] /\ snapshot \in [Workers -> Seq(Nat)]

(* Who is inside a spinlock section of timer w.                            *)
WorkerHolds(w) == wpc[w] \in {"starting", "stopping", "adding"}
RunnerHolds(k, w) == rpc[k] \in {"copy", "reset"} /\ ri[k] = w

(* The spinlock is locked in a section, by one thread only.                  *)
SectionsExclusive ==
  \A w \in Workers :
    /\ WorkerHolds(w) => spinlock[w] = TRUE
    /\ \A k \in Runners : RunnerHolds(k, w) => spinlock[w] = TRUE /\ ~WorkerHolds(w)
    /\ ~(RunnerHolds("agg", w) /\ RunnerHolds("handler", w))

(* A runner in a section is in the loop over the threads, and only the     *)
(* alarm starts the handler.                                               *)
RunnersInLoop ==
  /\ \A k \in Runners : rpc[k] \in {"copy", "reset"} => ri[k] \in Workers
  /\ host = NoHost <=> rpc["handler"] = "idle"

(* A copy that is about to be counted is still what the timer holds.       *)
CopyFresh ==
  ~Exited => \A k \in Runners : rpc[k] = "reset" => copy[ri[k]].events = timer[ri[k]].events

(* The times of a timer are in the past, and an event ends after it        *)
(* starts.                                                                 *)
Times ==
  \A w \in Workers :
    /\ timer[w].start <= clock /\ timer[w].end <= clock /\ timer[w].queue <= clock
    /\ wpc[w] = "adding" => timer[w].start <= timer[w].end
    /\ copy[w].start <= clock

(* EventsConserved is inductive with the exclusion that the spinlocks      *)
(* give.                                                                   *)
ConservedInv == TimersTypeOK /\ SectionsExclusive /\ RunnersInLoop /\ CopyFresh /\ Times
                  /\ EventsConserved

(* sb_timer_init() makes a timer.                                          *)
LEMMA InitTimer == sb_timer_init \in TimerType /\ ZeroTimer \in TimerType
BY Zenon, TimersAssumption DEF sb_timer_init, sb_timer_reset, ZeroTimer, TimerType

(* The invariant holds at the start.                                       *)
LEMMA ConservedInitially == TimersInit => ConservedInv
<1> SUFFICES ASSUME TimersInit PROVE ConservedInv OBVIOUS
<1> USE DEF TimersInit
<1>1. TimersTypeOK BY InitTimer, TimersAssumption, ThreadsAssumption DEF TimersTypeOK, NoHost
<1>2. SectionsExclusive /\ RunnersInLoop /\ CopyFresh
  BY DEF SectionsExclusive, RunnersInLoop, CopyFresh, WorkerHolds, RunnerHolds, Runners
<1>3. \A w \in Workers : timer[w].start = 0 /\ timer[w].end = 0 /\ timer[w].queue = 0
                         /\ timer[w].events = 0
  BY Zenon DEF sb_timer_init, sb_timer_reset, ZeroTimer
<1>4. Times
  <2>1. \A w \in Workers : copy[w].start = 0 BY DEF ZeroTimer
  <2> QED BY <1>1, <1>3, <2>1 DEF Times, TimersTypeOK
<1>5. EventsConserved BY <1>3 DEF EventsConserved
<1> QED BY <1>1, <1>2, <1>4, <1>5 DEF ConservedInv

(* What sb_timer_stop() makes of a timer,                                  *)
LEMMA AddedType ==
  ASSUME NEW t \in TimerType, Elapsed(t) \in Nat
  PROVE  AddElapsed(t) \in TimerType /\ AddElapsed(t).events = t.events + 1
         /\ AddElapsed(t).start = t.start /\ AddElapsed(t).end = t.end
         /\ AddElapsed(t).queue = t.queue /\ AddElapsed(t).sum = t.sum + Elapsed(t)
         /\ AddElapsed(t).min = (IF Elapsed(t) < t.min THEN Elapsed(t) ELSE t.min)
         /\ AddElapsed(t).max = (IF Elapsed(t) > t.max THEN Elapsed(t) ELSE t.max)
<1> DEFINE e == Elapsed(t)
<1> HIDE DEF e
<1>1. AddElapsed(t) = [t EXCEPT !.events = @ + 1, !.sum = @ + e,
            !.min = IF e < @ THEN e ELSE @, !.max = IF e > @ THEN e ELSE @]
  BY DEF AddElapsed, e
<1>2. e \in Nat BY DEF e
<1>3. AddElapsed(t) \in TimerType
  <2> DEFINE a == t.events + 1
             b == t.sum + e
             c == IF e < t.min THEN e ELSE t.min
             d == IF e > t.max THEN e ELSE t.max
  <2>1. a \in Nat /\ b \in Nat /\ c \in Nat /\ d \in Nat BY <1>2 DEF TimerType
  <2>2. AddElapsed(t) = [t EXCEPT !.events = a, !.sum = b, !.min = c, !.max = d]
    BY <1>1 DEF TimerType
  <2> HIDE DEF a, b, c, d
  <2> QED BY Zenon, <2>1, <2>2 DEF TimerType
<1>4. /\ AddElapsed(t).events = t.events + 1
      /\ AddElapsed(t).start = t.start /\ AddElapsed(t).end = t.end
      /\ AddElapsed(t).queue = t.queue /\ AddElapsed(t).sum = t.sum + e
      /\ AddElapsed(t).min = (IF e < t.min THEN e ELSE t.min)
      /\ AddElapsed(t).max = (IF e > t.max THEN e ELSE t.max)
  BY <1>1 DEF TimerType
<1> QED BY <1>3, <1>4 DEF e

(* and sb_timer_reset().                                                   *)
LEMMA ResetType ==
  ASSUME NEW t \in TimerType
  PROVE  /\ sb_timer_reset(t) \in TimerType
         /\ sb_timer_reset(t).events = 0 /\ sb_timer_reset(t).queue = 0
         /\ sb_timer_reset(t).sum = 0 /\ sb_timer_reset(t).min = UINT64_MAX
         /\ sb_timer_reset(t).max = 0
         /\ sb_timer_reset(t).start = t.start /\ sb_timer_reset(t).end = t.end
BY Zenon, TimersAssumption DEF sb_timer_reset, TimerType

(* One timer is replaced.                                                  *)
TimerIs(w, t) == timer' = [timer EXCEPT ![w] = t]

(* The other timers stay.                                                  *)
LEMMA TimerReplaced ==
  ASSUME TimersTypeOK, NEW w \in Workers, NEW t \in TimerType, TimerIs(w, t)
  PROVE  /\ timer' \in [Workers -> TimerType] /\ timer'[w] = t
         /\ \A v \in Workers : v # w => timer'[v] = timer[v]
BY DEF TimersTypeOK, TimerIs

(* What a worker may do: move on, replace its timer and, between taking    *)
(* and releasing the lock, count an event.                                 *)
WorkerMoves(w, there, t, locked) ==
  /\ wpc' = [wpc EXCEPT ![w] = there]
  /\ there \in {"loop", "taken", "starting", "running", "stopping", "adding"}
  /\ TimerIs(w, t) /\ t \in TimerType
  /\ spinlock' = [spinlock EXCEPT ![w] = locked] /\ locked \in BOOLEAN
  /\ UNCHANGED <<clock, copy, rpc, ri, host, collected, snapshot>>

(* What such a move leaves as it was.                                      *)
LEMMA WorkerMovesTypes ==
  ASSUME ConservedInv, NEW w \in Workers, NEW there, NEW t, NEW locked,
         WorkerMoves(w, there, t, locked)
  PROVE  /\ timer' \in [Workers -> TimerType] /\ timer'[w] = t
         /\ \A v \in Workers : v # w => timer'[v] = timer[v] /\ wpc'[v] = wpc[v]
                                        /\ spinlock'[v] = spinlock[v]
         /\ wpc'[w] = there /\ spinlock'[w] = locked
         /\ spinlock' \in [Workers -> BOOLEAN]
         /\ wpc' \in [Workers -> {"loop", "taken", "starting", "running", "stopping", "adding"}]
<1>1. t \in TimerType /\ TimerIs(w, t) BY DEF WorkerMoves
<1>2. TimersTypeOK BY DEF ConservedInv
<1>3. /\ timer' \in [Workers -> TimerType] /\ timer'[w] = t
      /\ \A v \in Workers : v # w => timer'[v] = timer[v]
  BY <1>1, <1>2, TimerReplaced
<1>4. wpc \in [Workers -> {"loop", "taken", "starting", "running", "stopping", "adding"}]
      /\ spinlock \in [Workers -> BOOLEAN]
  BY <1>2 DEF TimersTypeOK
<1>5. /\ wpc' = [wpc EXCEPT ![w] = there] /\ spinlock' = [spinlock EXCEPT ![w] = locked]
      /\ there \in {"loop", "taken", "starting", "running", "stopping", "adding"}
      /\ locked \in BOOLEAN
  BY DEF WorkerMoves
<1>6. /\ \A v \in Workers : v # w => wpc'[v] = wpc[v]
      /\ wpc'[w] = there
      /\ wpc' \in [Workers -> {"loop", "taken", "starting", "running", "stopping", "adding"}]
  BY <1>4, <1>5
<1>7. /\ \A v \in Workers : v # w => spinlock'[v] = spinlock[v]
      /\ spinlock'[w] = locked /\ spinlock' \in [Workers -> BOOLEAN]
  BY <1>4, <1>5
<1> QED BY <1>3, <1>6, <1>7

(* Where a worker holds its spinlock.                                      *)
Holding == {"starting", "stopping", "adding"}

(* A move that takes a free lock, stays inside or leaves keeps the         *)
(* exclusion.                                                              *)
LEMMA WorkerKeepsSections ==
  ASSUME ConservedInv, NEW w \in Workers, NEW there, NEW t, NEW locked,
         WorkerMoves(w, there, t, locked),
         \/ spinlock[w] = FALSE /\ there \in Holding /\ locked = TRUE
         \/ wpc[w] \in Holding /\ (there \in Holding => locked = TRUE)
         \/ wpc[w] \notin Holding /\ there \notin Holding /\ locked = spinlock[w]
  PROVE  SectionsExclusive' /\ RunnersInLoop'
<1>1. UNCHANGED <<rpc, ri, host>> BY DEF WorkerMoves
<1>2. RunnersInLoop' BY <1>1 DEF RunnersInLoop, ConservedInv
<1>3. /\ \A v \in Workers : v # w => wpc'[v] = wpc[v] /\ spinlock'[v] = spinlock[v]
      /\ wpc'[w] = there /\ spinlock'[w] = locked
  BY WorkerMovesTypes
<1>4. SectionsExclusive BY DEF ConservedInv
<1>5. ASSUME NEW v \in Workers
      PROVE  /\ WorkerHolds(v)' => spinlock'[v] = TRUE
             /\ \A k \in Runners : RunnerHolds(k, v)' => spinlock'[v] = TRUE /\ ~WorkerHolds(v)'
             /\ ~(RunnerHolds("agg", v) /\ RunnerHolds("handler", v))'
  BY <1>1, <1>3, <1>4 DEF SectionsExclusive, WorkerHolds, RunnerHolds, Holding
<1> QED BY Zenon, <1>2, <1>5 DEF SectionsExclusive

(* The clocks of a timer are in the past.                                  *)
Past(t) == t.start <= clock /\ t.end <= clock /\ t.queue <= clock

(* An event is counted inside a section only, in the timer and in the      *)
(* history.                                                                *)
Counts(w, t) ==
  \/ t.events = timer[w].events /\ UNCHANGED <<finished, latencies>>
  \/ /\ wpc[w] = "adding" /\ t.events = timer[w].events + 1
     /\ finished' = [finished EXCEPT ![w] = @ + 1]
     /\ \E e \in Nat : latencies' = [latencies EXCEPT ![w] = Append(@, e)]

(* Such a move keeps the invariant: the runner that is about to count a    *)
(* copy holds the lock, so the timer it copied is not counted in.          *)
LEMMA WorkerMovesKeep ==
  ASSUME ConservedInv, NEW w \in Workers, NEW there, NEW t, NEW locked,
         WorkerMoves(w, there, t, locked), Counts(w, t),
         \/ spinlock[w] = FALSE /\ there \in Holding /\ locked = TRUE
         \/ wpc[w] \in Holding /\ (there \in Holding => locked = TRUE)
         \/ wpc[w] \notin Holding /\ there \notin Holding /\ locked = spinlock[w],
         Past(t), there = "adding" => t.start <= t.end
  PROVE  ConservedInv'
<1> USE DEF ConservedInv
<1>1. UNCHANGED <<clock, copy, rpc, ri, host, collected, snapshot>> BY DEF WorkerMoves
<1>2. /\ timer' \in [Workers -> TimerType] /\ timer'[w] = t
      /\ \A v \in Workers : v # w => timer'[v] = timer[v] /\ wpc'[v] = wpc[v]
      /\ wpc'[w] = there /\ spinlock' \in [Workers -> BOOLEAN]
      /\ wpc' \in [Workers -> {"loop", "taken", "starting", "running", "stopping", "adding"}]
  BY WorkerMovesTypes
<1>3. finished' \in [Workers -> Nat] /\ latencies' \in [Workers -> Seq(Nat)]
  <2>1. finished \in [Workers -> Nat] /\ latencies \in [Workers -> Seq(Nat)]
    BY DEF TimersTypeOK
  <2>2. CASE UNCHANGED <<finished, latencies>> BY <2>1, <2>2
  <2>3. ASSUME finished' = [finished EXCEPT ![w] = @ + 1], NEW e \in Nat,
               latencies' = [latencies EXCEPT ![w] = Append(@, e)]
        PROVE  finished' \in [Workers -> Nat] /\ latencies' \in [Workers -> Seq(Nat)]
    <3>1. Append(latencies[w], e) \in Seq(Nat) BY <2>1
    <3>2. latencies' \in [Workers -> Seq(Nat)] BY <2>1, <2>3, <3>1
    <3> QED BY <2>1, <2>3, <3>2
  <2> QED BY <2>2, <2>3 DEF Counts
<1>4. TimersTypeOK' BY <1>1, <1>2, <1>3 DEF TimersTypeOK
<1>5. SectionsExclusive' /\ RunnersInLoop' BY Zenon, WorkerKeepsSections
<1>6. CopyFresh'
  <2>1. ASSUME NEW k \in Runners, rpc[k] = "reset", ~Exited
        PROVE  copy[ri[k]].events = timer'[ri[k]].events
    <3>1. ri[k] \in Workers BY <2>1 DEF RunnersInLoop
    <3>2. copy[ri[k]].events = timer[ri[k]].events BY <2>1 DEF CopyFresh
    <3>3. CASE ri[k] # w BY <3>1, <3>2, <3>3, <1>2
    <3>4. CASE ri[k] = w
      <4>1. RunnerHolds(k, w) BY <2>1, <3>4 DEF RunnerHolds
      <4>2. wpc[w] # "adding" BY <4>1 DEF SectionsExclusive, WorkerHolds
      <4> QED BY <4>2, <3>2, <3>4, <1>2 DEF Counts
    <3> QED BY <3>3, <3>4
  <2> QED BY <1>1, <2>1 DEF CopyFresh, Exited
<1>7. Times' BY <1>1, <1>2 DEF Times, Past
<1>8. EventsConserved'
  <2>1. ASSUME NEW v \in Workers
        PROVE  finished'[v] = timer'[v].events + collected[v]
    <3>1. finished[v] = timer[v].events + collected[v] BY DEF EventsConserved
    <3>2. timer[v].events \in Nat /\ collected[v] \in Nat BY DEF TimersTypeOK, TimerType
    <3>3. CASE v # w BY <3>1, <3>3, <1>2 DEF Counts, TimersTypeOK
    <3>4. CASE v = w BY <3>1, <3>2, <3>4, <1>2 DEF Counts, TimersTypeOK
    <3> QED BY <3>3, <3>4
  <2> QED BY <1>1, <2>1 DEF EventsConserved
<1> QED BY <1>4, <1>5, <1>6, <1>7, <1>8

(* The steps of a worker, as such moves.                                   *)
WorkerDoes(w, there, t, locked) ==
  /\ WorkerMoves(w, there, t, locked) /\ Counts(w, t) /\ Past(t)
  /\ there = "adding" => t.start <= t.end
  /\ \/ spinlock[w] = FALSE /\ there \in Holding /\ locked = TRUE
     \/ wpc[w] \in Holding /\ (there \in Holding => locked = TRUE)
     \/ wpc[w] \notin Holding /\ there \notin Holding /\ locked = spinlock[w]

(* An elapsed time is not negative, and is below the initial minimum.      *)
LEMMA ElapsedRange ==
  ASSUME ConservedInv, NEW w \in Workers, wpc[w] = "adding"
  PROVE  Elapsed(timer[w]) \in Nat /\ Elapsed(timer[w]) < UINT64_MAX
<1>1. timer[w].start \in Nat /\ timer[w].end \in Nat /\ timer[w].queue \in Nat
  BY Zenon DEF ConservedInv, TimersTypeOK, TimerType
<1>2. timer[w].start <= timer[w].end /\ timer[w].end <= clock /\ timer[w].queue <= clock
  BY DEF ConservedInv, Times
<1>3. clock \in Nat /\ clock <= MaxClock BY TimersAssumption DEF ConservedInv, TimersTypeOK
<1> QED BY <1>1, <1>2, <1>3, TimersAssumption DEF Elapsed

(* Every step of a worker is such a move,                                  *)
LEMMA WorkerSteps ==
  ASSUME ConservedInv, NEW w \in Workers, Worker(w)
  PROVE  \E there, t, locked : WorkerDoes(w, there, t, locked)
<1> USE DEF ConservedInv
<1> DEFINE now == timer[w]
<1>1. now \in TimerType /\ Past(now) /\ clock \in Nat
      /\ (wpc[w] = "adding" => now.start <= now.end)
  BY TimersAssumption DEF TimersTypeOK, Times, Past
<1>2. timer = [timer EXCEPT ![w] = now] /\ spinlock = [spinlock EXCEPT ![w] = spinlock[w]]
      /\ spinlock[w] \in BOOLEAN /\ spinlock \in [Workers -> BOOLEAN]
  BY DEF TimersTypeOK
<1>3. timer \in [Workers -> TimerType] BY DEF TimersTypeOK
<1> HIDE DEF now, ConservedInv
<1> USE DEF WorkerDoes, WorkerMoves, TimerIs, Holding, Advance, runVars, ghosts
<1>4. CASE TakeEvent(w)
  <2>1. PICK q \in 0 .. clock : timer' = IF Rate THEN [timer EXCEPT ![w].queue = q] ELSE timer
    <3>1. 0 \in 0 .. clock /\ clock \in 0 .. clock BY <1>1
    <3> QED BY <1>4, <3>1 DEF TakeEvent
  <2> DEFINE t == IF Rate THEN [now EXCEPT !.queue = q] ELSE now
  <2>2. t \in TimerType /\ t.events = now.events /\ Past(t)
    BY <1>1 DEF Past, TimerType
  <2>3. timer' = [timer EXCEPT ![w] = t] BY Zenon, <2>1, <1>2, <1>3 DEF now
  <2> HIDE DEF t
  <2>4. Counts(w, t) BY <1>4, <2>2 DEF Counts, TakeEvent, now
  <2>5. WorkerDoes(w, "taken", t, spinlock[w])
    BY Zenon, <1>2, <1>4, <2>2, <2>3, <2>4 DEF TakeEvent
  <2> QED BY Zenon, <2>5
<1>5. CASE StartLock(w)
  <2>1. Counts(w, now) BY <1>5 DEF Counts, StartLock, now
  <2>2. WorkerDoes(w, "starting", now, TRUE)
    BY <1>1, <1>2, <1>5, <2>1 DEF StartLock, Acquire
  <2> QED BY Zenon, <2>2
<1>6. CASE Start(w)
  <2> DEFINE t == [now EXCEPT !.start = clock]
  <2>1. t \in TimerType /\ t.events = now.events /\ Past(t)
    BY <1>1 DEF Past, TimerType
  <2>2. timer' = [timer EXCEPT ![w] = t] BY <1>6, <1>3 DEF now, Start
  <2> HIDE DEF t
  <2>3. Counts(w, t) BY <1>6, <2>1 DEF Counts, Start, now
  <2>4. WorkerDoes(w, "running", t, FALSE)
    BY Zenon, <1>6, <2>1, <2>2, <2>3 DEF Start, Release
  <2> QED BY Zenon, <2>4
<1>7. CASE StopLock(w)
  <2>1. Counts(w, now) BY <1>7 DEF Counts, StopLock, now
  <2>2. WorkerDoes(w, "stopping", now, TRUE)
    BY <1>1, <1>2, <1>7, <2>1 DEF StopLock, Acquire
  <2> QED BY Zenon, <2>2
<1>8. CASE StopClock(w)
  <2> DEFINE t == [now EXCEPT !.end = clock]
  <2>1. t \in TimerType /\ t.events = now.events /\ Past(t) /\ t.start <= t.end
    BY <1>1 DEF Past, TimerType
  <2>2. timer' = [timer EXCEPT ![w] = t] BY <1>8, <1>3 DEF now, StopClock
  <2> HIDE DEF t
  <2>3. Counts(w, t) BY <1>8, <2>1 DEF Counts, StopClock, now
  <2>4. spinlock[w] = TRUE
    BY <1>8 DEF StopClock, ConservedInv, SectionsExclusive, WorkerHolds
  <2>5. WorkerDoes(w, "adding", t, TRUE)
    BY Zenon, <1>2, <1>8, <2>1, <2>2, <2>3, <2>4 DEF StopClock
  <2> QED BY Zenon, <2>5
<1>9. CASE StopAdd(w)
  <2> DEFINE t == AddElapsed(now)
  <2>0. wpc[w] = "adding" BY <1>9 DEF StopAdd
  <2>1. Elapsed(now) \in Nat BY <2>0, ElapsedRange DEF now
  <2>2. t \in TimerType /\ t.events = now.events + 1 /\ Past(t)
    BY <1>1, <2>1, AddedType DEF Past
  <2>3. timer' = [timer EXCEPT ![w] = t] BY <1>9, <1>3 DEF now, StopAdd
  <2> HIDE DEF t
  <2>4. Counts(w, t)
    <3>1. latencies' = [latencies EXCEPT ![w] = Append(@, Elapsed(now))]
      BY <1>9 DEF StopAdd, now
    <3>2. \E e \in Nat : latencies' = [latencies EXCEPT ![w] = Append(@, e)] BY Zenon, <2>1, <3>1
    <3>3. finished' = [finished EXCEPT ![w] = @ + 1] BY <1>9 DEF StopAdd
    <3> QED BY Zenon, <2>0, <2>2, <3>2, <3>3 DEF Counts, now
  <2>5. WorkerDoes(w, "loop", t, FALSE)
    BY Zenon, <1>9, <2>0, <2>2, <2>3, <2>4 DEF StopAdd, Release
  <2> QED BY Zenon, <2>5
<1> QED BY Zenon, <1>4, <1>5, <1>6, <1>7, <1>8, <1>9 DEF Worker

(* so it keeps the invariant.                                              *)
LEMMA WorkerKeeps ==
  ASSUME ConservedInv, NEW w \in Workers, Worker(w)
  PROVE  ConservedInv'
<1>1. PICK there, t, locked : WorkerDoes(w, there, t, locked) BY WorkerSteps
<1> QED BY Zenon, <1>1, WorkerMovesKeep DEF WorkerDoes

(* Time passes.                                                            *)
LEMMA TickKeeps ==
  ASSUME ConservedInv, ClockTick
  PROVE  ConservedInv'
<1> USE DEF ConservedInv
<1>1. clock < MaxClock /\ clock' = clock + 1
      /\ UNCHANGED <<timer, copy, spinlock, wpc, rpc, ri, host, finished, collected,
                     latencies, snapshot>>
  BY DEF ClockTick, runVars, ghosts
<1>2. clock' \in 1 .. MaxClock /\ clock <= clock' /\ clock \in Int
  BY <1>1, TimersAssumption DEF TimersTypeOK
<1>3. TimersTypeOK' BY <1>1, <1>2 DEF TimersTypeOK
<1>4. SectionsExclusive' /\ RunnersInLoop' /\ CopyFresh' /\ EventsConserved'
  BY <1>1 DEF SectionsExclusive, WorkerHolds, RunnerHolds, RunnersInLoop, CopyFresh,
              Exited, EventsConserved
<1>5. Times'
  <2>1. \A w \in Workers : timer[w].start \in Nat /\ timer[w].end \in Nat
                           /\ timer[w].queue \in Nat /\ copy[w].start \in Nat
    BY DEF TimersTypeOK, TimerType
  <2> QED BY <1>1, <1>2, <2>1 DEF Times
<1> QED BY <1>3, <1>4, <1>5

(* A step between two checkpoints: no timer, copy or lock changes.         *)
RunnerGoes(k, there) ==
  /\ rpc' = [rpc EXCEPT ![k] = there]
  /\ rpc[k] \notin {"copy", "reset", "exited"}
  /\ there \in {"idle", "loop", "reported"}
  /\ ri' \in {ri, [ri EXCEPT ![k] = 0]}
  /\ host' \in -1 .. NThreads + 1
  /\ host' = NoHost <=> rpc'["handler"] = "idle"
  /\ UNCHANGED <<clock, timer, copy, spinlock, wpc, finished, collected, latencies, snapshot>>

(* It keeps the invariant.                                                 *)
LEMMA RunnerGoesKeeps ==
  ASSUME ConservedInv, NEW k \in Runners, NEW there, RunnerGoes(k, there)
  PROVE  ConservedInv'
<1> USE DEF ConservedInv, RunnerGoes
<1>1. rpc' \in [Runners -> {"idle", "loop", "copy", "reset", "reported", "exited"}]
  BY DEF TimersTypeOK
<1>2. ri' \in [Runners -> 0 .. NThreads]
  <2>1. ri \in [Runners -> 0 .. NThreads] /\ 0 \in 0 .. NThreads
    BY ThreadsAssumption DEF TimersTypeOK
  <2>2. CASE ri' = ri BY <2>1, <2>2
  <2>3. CASE ri' = [ri EXCEPT ![k] = 0] BY <2>1, <2>3
  <2> QED BY <2>2, <2>3
<1>3. TimersTypeOK' BY <1>1, <1>2 DEF TimersTypeOK
<1>4. \A j \in Runners : rpc'[j] \in {"copy", "reset", "exited"} =>
        j # k /\ rpc'[j] = rpc[j] /\ ri'[j] = ri[j]
  BY DEF TimersTypeOK
<1>5. "agg" \in Runners /\ "handler" \in Runners BY DEF Runners
<1>6. SectionsExclusive'
  BY <1>4, <1>5 DEF SectionsExclusive, WorkerHolds, RunnerHolds
<1>7. RunnersInLoop' BY <1>4 DEF RunnersInLoop
<1>8. CopyFresh'
  <2>1. rpc["handler"] = "exited" => rpc'["handler"] = "exited" BY <1>5 DEF TimersTypeOK
  <2> QED BY <1>4, <2>1 DEF CopyFresh, Exited
<1>9. Times' /\ EventsConserved' BY DEF Times, EventsConserved
<1> QED BY <1>3, <1>6, <1>7, <1>8, <1>9

(* The beginning and the end of a report, and the alarm, are such steps.   *)
LEMMA ReportsKeep ==
  ASSUME ConservedInv, BeginReport \/ Alarm \/ \E k \in Runners : Report(k)
  PROVE  ConservedInv'
<1> USE DEF Run, ghosts
<1>0. "agg" \in Runners /\ "handler" \in Runners BY DEF Runners
<1>1. TimersTypeOK /\ RunnersInLoop BY DEF ConservedInv
<1>2. CASE BeginReport
  <2>1. RunnerGoes("agg", "loop")
    BY <1>0, <1>1, <1>2 DEF BeginReport, RunnerGoes, RunnersInLoop, TimersTypeOK
  <2> QED BY <1>0, <2>1, RunnerGoesKeeps
<1>3. CASE Alarm
  <2>1. host' \in 0 .. NThreads + 1
    BY <1>3, ThreadsAssumption DEF Alarm, Workers, Agg, Other
  <2>2. host' # NoHost BY <2>1, ThreadsAssumption DEF NoHost
  <2>3. host' \in -1 .. NThreads + 1 BY <2>1, ThreadsAssumption
  <2>4. RunnerGoes("handler", "loop")
    BY <1>0, <1>1, <1>3, <2>2, <2>3 DEF Alarm, RunnerGoes, RunnersInLoop, TimersTypeOK
  <2> QED BY <1>0, <2>4, RunnerGoesKeeps
<1>4. ASSUME NEW k \in Runners, Report(k) PROVE ConservedInv'
  <2>1. RunnerGoes(k, IF k = "agg" THEN "idle" ELSE "reported")
    BY <1>0, <1>1, <1>4 DEF Report, RunnerGoes, RunnersInLoop, TimersTypeOK
  <2> QED BY <2>1, RunnerGoesKeeps
<1> QED BY <1>2, <1>3, <1>4

(* sb_timer_checkpoint() takes a free lock,                                *)
LEMMA CheckpointLockKeeps ==
  ASSUME ConservedInv, NEW k \in Runners, CheckpointLock(k)
  PROVE  ConservedInv'
<1> USE DEF ConservedInv
<1>0. "agg" \in Runners /\ "handler" \in Runners BY DEF Runners
<1>1. /\ rpc[k] = "loop" /\ rpc' = [rpc EXCEPT ![k] = "copy"] /\ ri[k] < NThreads
      /\ ~spinlock[ri[k]] /\ spinlock' = [spinlock EXCEPT ![ri[k]] = TRUE] /\ ~Exited
      /\ UNCHANGED <<clock, timer, copy, wpc, ri, host, finished, collected, latencies, snapshot>>
  BY DEF CheckpointLock, Run, Acquire, ghosts
<1>2. ri[k] \in Workers BY <1>1, ThreadsAssumption DEF TimersTypeOK, Workers
<1>3. rpc' \in [Runners -> {"idle", "loop", "copy", "reset", "reported", "exited"}]
  BY <1>1 DEF TimersTypeOK
<1>4. spinlock' \in [Workers -> BOOLEAN] BY <1>1, <1>2 DEF TimersTypeOK
<1>5. TimersTypeOK' BY <1>1, <1>3, <1>4 DEF TimersTypeOK
<1>6. rpc'[k] = "copy" /\ \A j \in Runners : j # k => rpc'[j] = rpc[j]
  BY <1>1 DEF TimersTypeOK
<1>7. spinlock'[ri[k]] = TRUE /\ \A v \in Workers : v # ri[k] => spinlock'[v] = spinlock[v]
  BY <1>1, <1>2 DEF TimersTypeOK
<1>8. spinlock[ri[k]] # TRUE BY Zenon, <1>1
<1>9. SectionsExclusive'
  BY <1>0, <1>1, <1>2, <1>6, <1>7, <1>8 DEF SectionsExclusive, WorkerHolds, RunnerHolds, Runners
<1>10. RunnersInLoop' BY <1>0, <1>1, <1>2, <1>6 DEF RunnersInLoop
<1>11. CopyFresh' BY <1>1, <1>6 DEF CopyFresh
<1>12. Times' /\ EventsConserved' BY <1>1 DEF Times, EventsConserved
<1> QED BY <1>5, <1>9, <1>10, <1>11, <1>12

(* copies the timer,                                                       *)
LEMMA CheckpointCopyKeeps ==
  ASSUME ConservedInv, NEW k \in Runners, CheckpointCopy(k)
  PROVE  ConservedInv'
<1> USE DEF ConservedInv
<1>0. "agg" \in Runners /\ "handler" \in Runners BY DEF Runners
<1>1. /\ rpc[k] = "copy" /\ rpc' = [rpc EXCEPT ![k] = "reset"] /\ ~Exited
      /\ copy' = [copy EXCEPT ![ri[k]] = timer[ri[k]]]
      /\ snapshot' = [snapshot EXCEPT ![ri[k]] = latencies[ri[k]]]
      /\ UNCHANGED <<clock, timer, spinlock, wpc, ri, host, finished, collected, latencies>>
  BY DEF CheckpointCopy, Run
<1>2. ri[k] \in Workers BY <1>1 DEF RunnersInLoop
<1>3. rpc' \in [Runners -> {"idle", "loop", "copy", "reset", "reported", "exited"}]
  BY <1>1 DEF TimersTypeOK
<1>4. copy' \in [Workers -> TimerType] /\ snapshot' \in [Workers -> Seq(Nat)]
  BY <1>1, <1>2 DEF TimersTypeOK
<1>5. TimersTypeOK' BY <1>1, <1>3, <1>4 DEF TimersTypeOK
<1>6. rpc'[k] = "reset" /\ \A j \in Runners : j # k => rpc'[j] = rpc[j]
  BY <1>1 DEF TimersTypeOK
<1>7. SectionsExclusive'
  BY <1>0, <1>1, <1>6 DEF SectionsExclusive, WorkerHolds, RunnerHolds
<1>8. RunnersInLoop' BY <1>0, <1>1, <1>6, <1>2 DEF RunnersInLoop
<1>9. CopyFresh'
  <2>1. copy'[ri[k]] = timer[ri[k]] /\ \A v \in Workers : v # ri[k] => copy'[v] = copy[v]
    BY <1>1, <1>2 DEF TimersTypeOK
  <2>2. ASSUME NEW j \in Runners, rpc'[j] = "reset"
        PROVE  copy'[ri[j]].events = timer[ri[j]].events
    <3>1. CASE j = k BY <2>1, <3>1
    <3>2. CASE j # k
      <4>1. rpc[j] = "reset" /\ ri[j] \in Workers BY <1>6, <2>2, <3>2 DEF RunnersInLoop
      <4>2. ri[j] # ri[k]
        BY <1>1, <1>2, <3>2, <4>1 DEF SectionsExclusive, RunnerHolds, Runners
      <4> QED BY <1>1, <2>1, <4>1, <4>2 DEF CopyFresh
    <3> QED BY <3>1, <3>2
  <2> QED BY <1>1, <2>2 DEF CopyFresh
<1>10. EventsConserved' BY <1>1 DEF EventsConserved
<1>11. Times'
  <2>1. \A v \in Workers : copy'[v] = copy[v] \/ copy'[v] = timer[v]
    BY <1>1, <1>2 DEF TimersTypeOK
  <2> QED BY <1>1, <2>1 DEF Times
<1> QED BY <1>5, <1>7, <1>8, <1>9, <1>10, <1>11

(* and resets it while the copy is still what the timer holds.             *)
LEMMA CheckpointResetKeeps ==
  ASSUME ConservedInv, NEW k \in Runners, CheckpointReset(k)
  PROVE  ConservedInv'
<1> USE DEF ConservedInv
<1>0. "agg" \in Runners /\ "handler" \in Runners BY DEF Runners
<1> DEFINE i == ri[k]
           t == sb_timer_reset(timer[i])
<1>1. /\ rpc[k] = "reset" /\ rpc' = [rpc EXCEPT ![k] = "loop"] /\ ~Exited
      /\ spinlock' = [spinlock EXCEPT ![i] = FALSE]
      /\ collected' = [collected EXCEPT ![i] = @ + copy[i].events]
      /\ latencies' = [latencies EXCEPT ![i] = <<>>]
      /\ ri' = [ri EXCEPT ![k] = @ + 1]
      /\ UNCHANGED <<clock, copy, wpc, host, finished, snapshot>>
  BY DEF CheckpointReset, Run, Release
<1>2. i \in Workers BY <1>1 DEF RunnersInLoop
<1>3. TimerIs(i, t) BY <1>2 DEF CheckpointReset, TimerIs, TimersTypeOK
<1>4. timer[i] \in TimerType BY <1>2 DEF TimersTypeOK
<1>5. t \in TimerType /\ t.events = 0 /\ t.queue = 0 /\ t.start = timer[i].start
      /\ t.end = timer[i].end
  BY <1>4, ResetType
<1> HIDE DEF t
<1>6. /\ timer' \in [Workers -> TimerType] /\ timer'[i] = t
      /\ \A v \in Workers : v # i => timer'[v] = timer[v]
  <2> HIDE DEF i
  <2> QED BY <1>2, <1>3, <1>5, TimerReplaced
<1>7. rpc'[k] = "loop" /\ \A j \in Runners : j # k => rpc'[j] = rpc[j] /\ ri'[j] = ri[j]
  BY <1>1 DEF TimersTypeOK
<1>8. TimersTypeOK'
  <2>1. rpc' \in [Runners -> {"idle", "loop", "copy", "reset", "reported", "exited"}]
    BY <1>1 DEF TimersTypeOK
  <2>2. ri[k] + 1 \in 0 .. NThreads BY <1>2, ThreadsAssumption DEF Workers
  <2>3. ri' \in [Runners -> 0 .. NThreads]
    <3> DEFINE j == ri[k] + 1
    <3>1. ri' = [ri EXCEPT ![k] = j] /\ ri \in [Runners -> 0 .. NThreads]
      BY <1>1 DEF TimersTypeOK
    <3> HIDE DEF j
    <3>2. j \in 0 .. NThreads BY <2>2 DEF j
    <3> QED BY <3>1, <3>2
  <2>4. copy[i].events \in Nat BY <1>2 DEF TimersTypeOK, TimerType
  <2>5. collected' \in [Workers -> Nat]
    <3> DEFINE n == collected[i] + copy[i].events
    <3>1. collected' = [collected EXCEPT ![i] = n] /\ collected \in [Workers -> Nat]
      BY <1>1 DEF TimersTypeOK
    <3>2. n \in Nat BY <1>2, <2>4, <3>1
    <3> HIDE DEF n
    <3> QED BY Zenon, <3>1, <3>2
  <2>6. <<>> \in Seq(Nat) OBVIOUS
  <2>7. latencies' \in [Workers -> Seq(Nat)] BY Zenon, <1>1, <2>6 DEF TimersTypeOK
  <2>8. spinlock' \in [Workers -> BOOLEAN] BY Zenon, <1>1 DEF TimersTypeOK
  <2> QED BY <1>1, <1>6, <2>1, <2>3, <2>5, <2>7, <2>8 DEF TimersTypeOK
<1>9. RunnerHolds(k, i) BY <1>1 DEF RunnerHolds
<1>10. \A j \in Runners : j # k => ~RunnerHolds(j, i)
  BY <1>2, <1>9 DEF SectionsExclusive, Runners
<1>11. ~WorkerHolds(i) BY <1>2, <1>9 DEF SectionsExclusive
<1>12. SectionsExclusive'
  <2>1. \A v \in Workers : v # i => spinlock'[v] = spinlock[v]
    BY <1>1 DEF TimersTypeOK
  <2>2. \A v \in Workers : WorkerHolds(v)' <=> WorkerHolds(v) BY <1>1 DEF WorkerHolds
  <2>3. \A v \in Workers, j \in Runners : RunnerHolds(j, v)' => j # k /\ RunnerHolds(j, v)
    BY <1>7 DEF RunnerHolds
  <2> QED BY <1>0, <1>10, <1>11, <2>1, <2>2, <2>3 DEF SectionsExclusive
<1>13. RunnersInLoop' BY <1>0, <1>1, <1>7 DEF RunnersInLoop
<1>14. CopyFresh'
  <2>1. ASSUME NEW j \in Runners, rpc'[j] = "reset"
        PROVE  copy[ri'[j]].events = timer'[ri'[j]].events
    <3>1. j # k /\ rpc[j] = "reset" /\ ri'[j] = ri[j] BY <1>7, <2>1
    <3>2. ri[j] \in Workers /\ ri[j] # i BY <1>10, <3>1 DEF RunnersInLoop, RunnerHolds
    <3> QED BY <1>1, <1>6, <3>1, <3>2 DEF CopyFresh
  <2> QED BY <1>1, <2>1 DEF CopyFresh
<1>15. Times'
  <2>1. clock \in Nat BY TimersAssumption DEF TimersTypeOK
  <2> QED BY <1>1, <1>5, <1>6, <2>1 DEF Times
<1>16. EventsConserved'
  <2>1. ASSUME NEW v \in Workers PROVE finished[v] = timer'[v].events + collected'[v]
    <3>1. finished[v] = timer[v].events + collected[v] BY DEF EventsConserved
    <3>2. CASE v # i BY <1>1, <1>6, <3>1, <3>2 DEF TimersTypeOK
    <3>3. CASE v = i
      <4>1. copy[i].events = timer[i].events BY <1>1 DEF CopyFresh
      <4>2. collected'[i] = collected[i] + copy[i].events BY <1>1, <1>2 DEF TimersTypeOK
      <4>3. timer[i].events \in Nat /\ collected[i] \in Nat
        BY <1>2, <1>4 DEF TimersTypeOK, TimerType
      <4> QED BY <1>5, <1>6, <3>1, <3>3, <4>1, <4>2, <4>3
    <3> QED BY <3>2, <3>3
  <2> QED BY <1>1, <2>1 DEF EventsConserved
<1> QED BY <1>8, <1>12, <1>13, <1>14, <1>15, <1>16

(* The forced shutdown stops copies, not timers.                           *)
LEMMA StopCopiesKeeps ==
  ASSUME ConservedInv, StopCopies
  PROVE  ConservedInv'
<1> USE DEF ConservedInv
<1>0. "agg" \in Runners /\ "handler" \in Runners BY DEF Runners
<1> DEFINE running == {w \in Workers : sb_timer_running(copy[w])}
           stopped(w) == AddElapsed([copy[w] EXCEPT !.end = clock])
<1>1. /\ rpc["handler"] = "reported" /\ rpc' = [rpc EXCEPT !["handler"] = "exited"]
      /\ copy' = [w \in Workers |-> IF w \in running THEN stopped(w) ELSE copy[w]]
      /\ UNCHANGED <<clock, timer, spinlock, wpc, ri, host, finished, collected, latencies,
                     snapshot>>
  BY DEF StopCopies, Run, ghosts
<1>2. rpc' \in [Runners -> {"idle", "loop", "copy", "reset", "reported", "exited"}]
      /\ rpc'["handler"] = "exited" /\ rpc'["agg"] = rpc["agg"]
  BY <1>0, <1>1 DEF TimersTypeOK
<1>3. ASSUME NEW w \in Workers
      PROVE  stopped(w) \in TimerType /\ stopped(w).start = copy[w].start
  <2> DEFINE c == [copy[w] EXCEPT !.end = clock]
  <2>1. copy[w] \in TimerType /\ copy[w].start <= clock /\ clock \in Nat
    BY TimersAssumption DEF TimersTypeOK, Times
  <2>2. c \in TimerType /\ c.start = copy[w].start /\ c.end = clock
    BY <2>1 DEF TimerType
  <2> HIDE DEF c
  <2>3. c.start \in Nat /\ c.queue \in Nat BY <2>2 DEF TimerType
  <2>4. Elapsed(c) \in Nat BY <2>1, <2>2, <2>3 DEF Elapsed
  <2>5. AddElapsed(c) \in TimerType /\ AddElapsed(c).start = c.start
    BY <2>2, <2>4, AddedType
  <2> QED BY <2>2, <2>5 DEF c
<1> HIDE DEF stopped, running
<1>4. copy' \in [Workers -> TimerType] /\ \A w \in Workers : copy'[w].start = copy[w].start
  <2>1. \A w \in Workers : copy[w] \in TimerType BY DEF TimersTypeOK
  <2> QED BY <1>1, <1>3, <2>1
<1>5. TimersTypeOK' BY <1>1, <1>2, <1>4 DEF TimersTypeOK
<1>6. SectionsExclusive'
  BY <1>0, <1>1, <1>2 DEF SectionsExclusive, WorkerHolds, RunnerHolds, Runners
<1>7. RunnersInLoop' BY <1>0, <1>1, <1>2 DEF RunnersInLoop, Runners
<1>8. CopyFresh' BY <1>2 DEF CopyFresh, Exited
<1>9. Times' /\ EventsConserved' BY <1>1, <1>4 DEF Times, EventsConserved
<1> QED BY <1>5, <1>6, <1>7, <1>8, <1>9

(* Nothing happens.                                                        *)
LEMMA TimersStutter ==
  ASSUME ConservedInv, UNCHANGED timerVars
  PROVE  ConservedInv'
BY DEF ConservedInv, timerVars, TimersTypeOK, SectionsExclusive, WorkerHolds, RunnerHolds,
       RunnersInLoop, CopyFresh, Exited, Times, EventsConserved

(* Every step keeps the invariant.                                         *)
LEMMA ConservedStep == ConservedInv /\ [TimersNext]_timerVars => ConservedInv'
<1> SUFFICES ASSUME ConservedInv, [TimersNext]_timerVars PROVE ConservedInv' OBVIOUS
<1>1. CASE ClockTick BY <1>1, TickKeeps
<1>2. CASE BeginReport \/ Alarm BY <1>2, ReportsKeep
<1>3. CASE StopCopies BY <1>3, StopCopiesKeeps
<1>4. ASSUME NEW w \in Workers, Worker(w) PROVE ConservedInv' BY <1>4, WorkerKeeps
<1>5. ASSUME NEW k \in Runners, Runner(k) PROVE ConservedInv'
  <2>1. CASE CheckpointLock(k) BY <2>1, CheckpointLockKeeps
  <2>2. CASE CheckpointCopy(k) BY <2>2, CheckpointCopyKeeps
  <2>3. CASE CheckpointReset(k) BY <2>3, CheckpointResetKeeps
  <2>4. CASE Report(k) BY <2>4, ReportsKeep
  <2> QED BY <1>5, <2>1, <2>2, <2>3, <2>4 DEF Runner
<1>6. CASE UNCHANGED timerVars BY <1>6, TimersStutter
<1> QED BY <1>1, <1>2, <1>3, <1>4, <1>5, <1>6 DEF TimersNext

(* sb_timer_checkpoint() is atomic with respect to sb_timer_stop(): for    *)
(* any number of threads, every finished event is in its timer or has been *)
(* collected by exactly one checkpoint, even when the signal handler's     *)
(* checkpoint interleaves with the reporting thread's.                     *)
THEOREM CheckpointsConserveEvents == TimersSpec => []EventsConserved
<1>1. ConservedInv => EventsConserved BY DEF ConservedInv
<1> QED BY <1>1, ConservedInitially, ConservedStep, PTL DEF TimersSpec

----------------------------------------------------------------------------
(* A report is right.                                                      *)

(* No latencies add up to zero,                                            *)
LEMMA AddedEmpty == Added(<<>>) = 0
BY SumZero DEF Added

(* their sum is a number,                                                  *)
LEMMA AddedNat ==
  ASSUME NEW s \in Seq(Nat)
  PROVE  Added(s) \in Nat
<1> DEFINE f == [i \in 0 .. Len(s) - 1 |-> s[i + 1]]
<1>1. Len(s) \in Nat /\ \A i \in 0 .. Len(s) - 1 : f[i] \in Nat OBVIOUS
<1> HIDE DEF f
<1>2. SumUpTo(f, Len(s)) \in Nat BY <1>1, SumNat
<1> QED BY <1>2 DEF Added, f

(* and one more adds to it.                                                *)
LEMMA AddedAppend ==
  ASSUME NEW s \in Seq(Nat), NEW e \in Nat
  PROVE  Added(Append(s, e)) = Added(s) + e
<1> DEFINE n == Len(s)
           r == Append(s, e)
           f == [i \in 0 .. Len(s) - 1 |-> s[i + 1]]
           g == [i \in 0 .. Len(r) - 1 |-> r[i + 1]]
<1>1. n \in Nat /\ Len(r) = n + 1 OBVIOUS
<1>2. g[n] = e BY <1>1
<1>3. \A k \in 0 .. n - 1 : f[k] = g[k] BY <1>1
<1>4. Added(s) = SumUpTo(f, n) /\ Added(r) = SumUpTo(g, n + 1) BY <1>1 DEF Added
<1> HIDE DEF f, g, n, r
<1>5. SumUpTo(f, n) = SumUpTo(g, n) BY <1>1, <1>3, SumEqual
<1>6. SumUpTo(g, n + 1) = SumUpTo(g, n) + g[n] BY <1>1, SumStep
<1> QED BY <1>2, <1>4, <1>5, <1>6 DEF r

(* An average lies between the extremes.                                   *)
LEMMA AddedBounds ==
  ASSUME NEW s \in Seq(Nat), NEW m \in Nat
  PROVE  /\ (\A i \in DOMAIN s : m <= s[i]) => Len(s) * m <= Added(s)
         /\ (\A i \in DOMAIN s : s[i] <= m) => Added(s) <= Len(s) * m
<1> DEFINE n == Len(s)
           f == [i \in 0 .. Len(s) - 1 |-> s[i + 1]]
           g == [i \in 0 .. Len(s) - 1 |-> 1]
           S == {j \in Nat : j <= n => SumUpTo(g, j) = j}
<1>1. n \in Nat /\ DOMAIN s = 1 .. n OBVIOUS
<1>2. \A k \in 0 .. n - 1 : f[k] \in Nat /\ g[k] \in Nat OBVIOUS
<1>3. 0 \in S BY SumZero
<1>4. ASSUME NEW j \in Nat, j \in S PROVE j + 1 \in S
  <2>1. SumUpTo(g, j + 1) = SumUpTo(g, j) + g[j] BY SumStep
  <2> QED BY <1>1, <1>4, <2>1
<1>5. Nat \subseteq S
  <2> HIDE DEF S
  <2> QED BY Zenon, <1>3, <1>4, Induct
<1>6. SumUpTo(g, n) = n BY <1>1, <1>5
<1>7. Added(s) = SumUpTo(f, n) BY DEF Added
<1>8. ASSUME \A i \in DOMAIN s : m <= s[i] PROVE \A k \in 0 .. n - 1 : g[k] * m <= f[k]
  BY <1>1, <1>8
<1>9. ASSUME \A i \in DOMAIN s : s[i] <= m PROVE \A k \in 0 .. n - 1 : f[k] <= g[k] * m
  BY <1>1, <1>9
<1> HIDE DEF f, g, n
<1>10. /\ (\A k \in 0 .. n - 1 : g[k] * m <= f[k]) => SumUpTo(g, n) * m <= SumUpTo(f, n)
       /\ (\A k \in 0 .. n - 1 : f[k] <= g[k] * m) => SumUpTo(f, n) <= SumUpTo(g, n) * m
  BY Zenon, <1>1, <1>2, SumBounds
<1> QED BY <1>6, <1>7, <1>8, <1>9, <1>10 DEF n

(* The loop of report_cumulative(), n rounds of it.                        *)
MergesTo(n, m) ==
  m = [k \in 0 .. n |-> IF k = 0 THEN sb_timer_init ELSE sb_timer_merge(m[k - 1], copy[k - 1])]

(* The timers merged so far exist, for every n,                            *)
LEMMA MergesToExists ==
  ASSUME NEW n \in Nat
  PROVE  \E m : MergesTo(n, m)
<1> DEFINE S == {j \in Nat : \E m : MergesTo(j, m)}
<1>1. 0 \in S
  <2>1. MergesTo(0, [k \in 0 .. 0 |-> sb_timer_init]) BY DEF MergesTo
  <2> QED BY <2>1
<1>2. ASSUME NEW j \in Nat, j \in S PROVE j + 1 \in S
  <2>1. PICK m : MergesTo(j, m) BY <1>2
  <2> DEFINE r == [k \in 0 .. j + 1 |-> IF k = j + 1 THEN sb_timer_merge(m[j], copy[j]) ELSE m[k]]
  <2>2. \A k \in 0 .. j : m[k] = IF k = 0 THEN sb_timer_init
                                 ELSE sb_timer_merge(m[k - 1], copy[k - 1])
    BY <2>1 DEF MergesTo
  <2>3. \A k \in 0 .. j + 1 : r[k] = IF k = 0 THEN sb_timer_init
                                     ELSE sb_timer_merge(r[k - 1], copy[k - 1])
    BY <2>2
  <2>4. MergesTo(j + 1, r) BY <2>3 DEF MergesTo
  <2> QED BY <2>4
<1> HIDE DEF S
<1>3. Nat \subseteq S BY <1>1, <1>2, Induct
<1> QED BY <1>3 DEF S

(* and do not depend on how far the loop goes.                             *)
LEMMA MergesToUnique ==
  ASSUME NEW i \in Nat, NEW n \in Nat, NEW m, NEW r, MergesTo(i, m), MergesTo(n, r),
         NEW k \in Nat, k <= i, k <= n
  PROVE  m[k] = r[k]
<1> DEFINE S == {j \in Nat : j <= i /\ j <= n => m[j] = r[j]}
<1>0. /\ \A j \in 0 .. i : m[j] = IF j = 0 THEN sb_timer_init
                                  ELSE sb_timer_merge(m[j - 1], copy[j - 1])
      /\ \A j \in 0 .. n : r[j] = IF j = 0 THEN sb_timer_init
                                  ELSE sb_timer_merge(r[j - 1], copy[j - 1])
  BY DEF MergesTo
<1>1. 0 \in S BY <1>0
<1>2. ASSUME NEW j \in Nat, j \in S PROVE j + 1 \in S
  BY <1>0, <1>2
<1>3. Nat \subseteq S
  <2> HIDE DEF S
  <2> QED BY <1>1, <1>2, Induct
<1> QED BY <1>3

(* So the recursive definition of Merges has a solution,                   *)
LEMMA MergesDef ==
  Merges = [k \in Nat |-> IF k = 0 THEN sb_timer_init
                          ELSE sb_timer_merge(Merges[k - 1], copy[k - 1])]
<1> DEFINE P(n) == CHOOSE m : MergesTo(n, m)
           g == [k \in Nat |-> P(k)[k]]
<1>1. \A n \in Nat : MergesTo(n, P(n)) BY MergesToExists
<1>2. \A k \in Nat : g[k] = IF k = 0 THEN sb_timer_init ELSE sb_timer_merge(g[k - 1], copy[k - 1])
  <2> SUFFICES ASSUME NEW k \in Nat
               PROVE  g[k] = IF k = 0 THEN sb_timer_init
                             ELSE sb_timer_merge(g[k - 1], copy[k - 1])
    BY Zenon
  <2>1. MergesTo(k, P(k)) BY <1>1
  <2>2. P(k)[k] = IF k = 0 THEN sb_timer_init ELSE sb_timer_merge(P(k)[k - 1], copy[k - 1])
    <3> HIDE DEF P
    <3> QED BY <2>1 DEF MergesTo
  <2>3. CASE k = 0 BY <2>2, <2>3
  <2>4. CASE k # 0
    <3>1. k - 1 \in Nat /\ MergesTo(k - 1, P(k - 1)) BY <2>4, <1>1
    <3>2. P(k)[k - 1] = P(k - 1)[k - 1]
      <4> HIDE DEF P
      <4> QED BY <3>1, <2>1, MergesToUnique
    <3> QED BY <3>1, <3>2, <2>2, <2>4
  <2> QED BY <2>3, <2>4
<1>3. g = [k \in Nat |-> IF k = 0 THEN sb_timer_init ELSE sb_timer_merge(g[k - 1], copy[k - 1])]
  <2>1. g = [k \in Nat |-> g[k]] OBVIOUS
  <2> HIDE DEF g
  <2> QED BY Zenon, <1>2, <2>1
<1>4. \E m : m = [k \in Nat |-> IF k = 0 THEN sb_timer_init
                                ELSE sb_timer_merge(m[k - 1], copy[k - 1])]
  BY Zenon, <1>3
<1> QED BY <1>4 DEF Merges

(* which is computed step by step.                                         *)
LEMMA MergesStep ==
  /\ Merges[0] = sb_timer_init
  /\ \A n \in Nat : Merges[n + 1] = sb_timer_merge(Merges[n], copy[n])
<1>1. Merges[0] = sb_timer_init BY MergesDef
<1>2. ASSUME NEW n \in Nat PROVE Merges[n + 1] = sb_timer_merge(Merges[n], copy[n])
  <2>1. Merges[n + 1] = IF n + 1 = 0 THEN sb_timer_init
                        ELSE sb_timer_merge(Merges[n + 1 - 1], copy[n + 1 - 1])
    BY MergesDef
  <2> QED BY <2>1
<1> QED BY <1>1, <1>2

(* min and max are those of a set of latencies.                            *)
Extremes(t, E) ==
  /\ E \subseteq 0 .. UINT64_MAX - 1
  /\ E = {} => t.min = UINT64_MAX /\ t.max = 0
  /\ E # {} => t.min \in E /\ t.max \in E
  /\ \A e \in E : t.min <= e /\ e <= t.max

(* The initial timer has the extremes of no latencies.                     *)
LEMMA ExtremesNone == Extremes(sb_timer_init, {})
BY DEF Extremes, sb_timer_init, sb_timer_reset, ZeroTimer

(* sb_timer_merge() has the extremes of both, and adds the rest.           *)
LEMMA ExtremesMerge ==
  ASSUME NEW t1 \in TimerType, NEW t2 \in TimerType, NEW E1, NEW E2,
         Extremes(t1, E1), Extremes(t2, E2)
  PROVE  /\ Extremes(sb_timer_merge(t1, t2), E1 \cup E2)
         /\ sb_timer_merge(t1, t2) \in TimerType
         /\ sb_timer_merge(t1, t2).events = t1.events + t2.events
         /\ sb_timer_merge(t1, t2).sum = t1.sum + t2.sum
<1> DEFINE t == sb_timer_merge(t1, t2)
           lo == IF t1.min < t2.min THEN t1.min ELSE t2.min
           hi == IF t1.max > t2.max THEN t1.max ELSE t2.max
           n == t1.events + t2.events
           sum == t1.sum + t2.sum
<1>1. /\ t1.min \in Nat /\ t1.max \in Nat /\ t1.events \in Nat /\ t1.sum \in Nat
      /\ t2.min \in Nat /\ t2.max \in Nat /\ t2.events \in Nat /\ t2.sum \in Nat
  BY DEF TimerType
<1>2. lo \in Nat /\ hi \in Nat /\ n \in Nat /\ sum \in Nat BY <1>1
<1>3. t = [ZeroTimer EXCEPT !.sum = sum, !.events = n, !.max = hi, !.min = lo]
  BY DEF sb_timer_merge
<1>4. /\ E1 \subseteq 0 .. UINT64_MAX - 1 /\ E2 \subseteq 0 .. UINT64_MAX - 1
      /\ UINT64_MAX \in Nat
  BY TimersAssumption DEF Extremes
<1>5. /\ E1 \cup E2 = {} => lo = UINT64_MAX /\ hi = 0
      /\ E1 \cup E2 # {} => lo \in E1 \cup E2 /\ hi \in E1 \cup E2
      /\ \A e \in E1 \cup E2 : lo <= e /\ e <= hi
  <2>1. CASE E1 = {} BY <1>1, <1>4, <2>1 DEF Extremes
  <2>2. CASE E2 = {} BY <1>1, <1>4, <2>2 DEF Extremes
  <2>3. CASE E1 # {} /\ E2 # {}
    <3>1. lo \in E1 \cup E2 /\ hi \in E1 \cup E2 BY <1>1, <2>3 DEF Extremes
    <3>2. \A e \in E1 \cup E2 : lo <= e /\ e <= hi BY <1>1, <1>4, <2>3 DEF Extremes
    <3> QED BY <3>1, <3>2, <2>3
  <2> QED BY <2>1, <2>2, <2>3
<1> HIDE DEF t, lo, hi, n, sum
<1>6. t \in TimerType /\ t.sum = sum /\ t.events = n /\ t.max = hi /\ t.min = lo
  BY Zenon, <1>2, <1>3 DEF TimerType, ZeroTimer
<1>7. Extremes(t, E1 \cup E2) BY <1>4, <1>5, <1>6 DEF Extremes
<1> QED BY <1>6, <1>7 DEF t, n, sum

(* sb_timer_stop() has those of one latency more.                          *)
LEMMA ExtremesAdd ==
  ASSUME NEW t \in TimerType, NEW E, Extremes(t, E), Elapsed(t) \in 0 .. UINT64_MAX - 1
  PROVE  Extremes(AddElapsed(t), E \cup {Elapsed(t)})
<1> DEFINE e == Elapsed(t)
           r == AddElapsed(t)
<1>1. e \in Nat /\ e < UINT64_MAX /\ UINT64_MAX \in Nat BY TimersAssumption
<1>2. r.min = (IF e < t.min THEN e ELSE t.min) /\ r.max = (IF e > t.max THEN e ELSE t.max)
  BY <1>1, AddedType
<1>3. t.min \in Nat /\ t.max \in Nat BY DEF TimerType
<1> HIDE DEF e, r
<1>4. E \cup {e} \subseteq 0 .. UINT64_MAX - 1 BY <1>1 DEF Extremes
<1>5. r.min \in E \cup {e} /\ r.max \in E \cup {e}
  BY <1>1, <1>2, <1>3 DEF Extremes
<1>6. \A x \in E \cup {e} : r.min <= x /\ x <= r.max
  BY <1>1, <1>2, <1>3, <1>4 DEF Extremes
<1>7. Extremes(r, E \cup {e}) BY <1>4, <1>5, <1>6 DEF Extremes
<1> QED BY <1>7 DEF e, r

(* A timer has summed up a sequence of latencies.                          *)
Summary(t, s) == t.events = Len(s) /\ t.sum = Added(s) /\ Extremes(t, Range(s))

(* The threads whose timers the checkpoint of "agg" has copied.            *)
Copied(w) == \/ rpc["agg"] \in {"loop", "copy", "reset"} /\ w < ri["agg"]
             \/ rpc["agg"] = "reset" /\ w = ri["agg"]

(* The invariant of ReportRight: every timer sums up the latencies since   *)
(* its last checkpoint, every copy those of the snapshot.                  *)
TimersSummed == \A w \in Workers : Summary(timer[w], latencies[w])
CopiesSummed == host = NoHost => \A w \in Workers : Copied(w) => Summary(copy[w], snapshot[w])

SummedInv == ConservedInv /\ TimersSummed /\ CopiesSummed

(* A timer that was reset sums up nothing.                                 *)
LEMMA SummaryEmpty ==
  ASSUME NEW t, t.events = 0, t.sum = 0, t.min = UINT64_MAX, t.max = 0
  PROVE  Summary(t, <<>>)
<1>1. Len(<<>>) = 0 /\ Range(<<>>) = {} BY DEF Range
<1> QED BY <1>1, AddedEmpty DEF Summary, Extremes

(* Only the counters of a timer matter.                                    *)
LEMMA SummarySame ==
  ASSUME NEW t, NEW r, NEW s, Summary(t, s),
         r.events = t.events, r.sum = t.sum, r.min = t.min, r.max = t.max
  PROVE  Summary(r, s)
BY DEF Summary, Extremes

(* sb_timer_stop() sums up one latency more.                               *)
LEMMA SummaryAdd ==
  ASSUME NEW t \in TimerType, NEW s \in Seq(Nat), Summary(t, s),
         Elapsed(t) \in 0 .. UINT64_MAX - 1
  PROVE  Summary(AddElapsed(t), Append(s, Elapsed(t)))
<1> DEFINE e == Elapsed(t)
           r == AddElapsed(t)
<1>1. e \in Nat BY TimersAssumption
<1>2. r.events = t.events + 1 /\ r.sum = t.sum + e BY <1>1, AddedType
<1>3. Extremes(r, Range(s) \cup {e}) BY ExtremesAdd DEF Summary
<1> HIDE DEF e, r
<1>4. Len(Append(s, e)) = Len(s) + 1 /\ Len(s) \in Nat BY <1>1
<1>5. Range(Append(s, e)) = Range(s) \cup {e}
  <2> DEFINE n == Len(s)
             q == Append(s, e)
  <2>1. n \in Nat /\ DOMAIN s = 1 .. n /\ DOMAIN q = 1 .. n + 1 BY <1>1
  <2>2. q[n + 1] = e /\ \A j \in 1 .. n : q[j] = s[j] BY <1>1
  <2> HIDE DEF n, q
  <2>3. Range(q) = Range(s) \cup {e} BY <2>1, <2>2 DEF Range
  <2> QED BY <2>3 DEF q
<1>6. Added(Append(s, e)) = Added(s) + e BY <1>1, AddedAppend
<1>7. Summary(r, Append(s, e)) BY <1>2, <1>3, <1>4, <1>5, <1>6 DEF Summary
<1> QED BY <1>7 DEF e, r

(* The invariant holds at the start.                                       *)
LEMMA SummedInitially == TimersInit => SummedInv
<1> SUFFICES ASSUME TimersInit PROVE SummedInv OBVIOUS
<1>1. ConservedInv BY ConservedInitially
<1>2. sb_timer_init.events = 0 /\ sb_timer_init.sum = 0 /\ sb_timer_init.min = UINT64_MAX
      /\ sb_timer_init.max = 0
  BY DEF sb_timer_init, sb_timer_reset, ZeroTimer
<1>3. Summary(sb_timer_init, <<>>) BY <1>2, SummaryEmpty
<1>4. TimersSummed BY <1>3 DEF TimersSummed, TimersInit
<1>5. CopiesSummed BY DEF CopiesSummed, Copied, TimersInit, Runners
<1> QED BY <1>1, <1>4, <1>5 DEF SummedInv

(* A worker changes its timer only in sb_timer_stop(), with the history.   *)
LEMMA WorkerKeepsSums ==
  ASSUME SummedInv, NEW w \in Workers, Worker(w)
  PROVE  TimersSummed' /\ CopiesSummed'
<1> DEFINE t == timer[w]
           e == Elapsed(t)
<1>1. UNCHANGED <<copy, rpc, ri, host, snapshot, clock>>
  BY DEF Worker, TakeEvent, StartLock, Start, StopLock, StopClock, StopAdd, runVars, ghosts
<1>2. CopiesSummed' BY <1>1 DEF CopiesSummed, Copied, SummedInv
<1>3. /\ timer \in [Workers -> TimerType] /\ latencies \in [Workers -> Seq(Nat)]
      /\ t \in TimerType /\ latencies[w] \in Seq(Nat)
  BY DEF SummedInv, ConservedInv, TimersTypeOK
<1>4. Summary(t, latencies[w]) BY DEF SummedInv, TimersSummed
<1>5. CASE StopAdd(w)
  <2>1. wpc[w] = "adding" /\ ConservedInv BY <1>5 DEF StopAdd, Advance, SummedInv
  <2>2. e \in Nat /\ e < UINT64_MAX BY <2>1, ElapsedRange
  <2>3. e \in 0 .. UINT64_MAX - 1 BY <2>2, TimersAssumption
  <2>4. Summary(AddElapsed(t), Append(latencies[w], e)) BY <1>3, <1>4, <2>3, SummaryAdd
  <2>5. timer'[w] = AddElapsed(t) /\ latencies'[w] = Append(latencies[w], e)
        /\ \A v \in Workers : v # w => timer'[v] = timer[v] /\ latencies'[v] = latencies[v]
    BY <1>3, <1>5 DEF StopAdd
  <2>6. TimersSummed' BY Zenon, <2>4, <2>5 DEF TimersSummed, SummedInv
  <2> QED BY <1>2, <2>6
<1>6. CASE ~StopAdd(w)
  <2>1. latencies' = latencies
    BY <1>6 DEF Worker, TakeEvent, StartLock, Start, StopLock, StopClock, ghosts
  <2>2. \/ timer' = timer
        \/ \E q : timer' = [timer EXCEPT ![w].queue = q]
        \/ \E q : timer' = [timer EXCEPT ![w].start = q]
        \/ \E q : timer' = [timer EXCEPT ![w].end = q]
    BY <1>6 DEF Worker, TakeEvent, StartLock, Start, StopLock, StopClock
  <2>3. /\ timer'[w].events = t.events /\ timer'[w].sum = t.sum
        /\ timer'[w].min = t.min /\ timer'[w].max = t.max
        /\ \A v \in Workers : v # w => timer'[v] = timer[v]
    BY <1>3, <2>2 DEF TimerType
  <2>4. Summary(timer'[w], latencies[w]) BY <1>4, <2>3, SummarySame
  <2>5. TimersSummed' BY <2>1, <2>3, <2>4 DEF TimersSummed, SummedInv
  <2> QED BY <1>2, <2>5
<1> QED BY <1>5, <1>6

(* A checkpoint copies what sums up the latencies and then starts afresh.  *)
LEMMA RunnerKeepsSums ==
  ASSUME SummedInv, NEW k \in Runners, Runner(k)
  PROVE  TimersSummed' /\ CopiesSummed'
<1>0. "agg" \in Runners /\ "handler" \in Runners BY DEF Runners
<1>1. ConservedInv /\ TimersSummed /\ CopiesSummed BY DEF SummedInv
<1>2. /\ timer \in [Workers -> TimerType] /\ latencies \in [Workers -> Seq(Nat)]
      /\ copy \in [Workers -> TimerType] /\ snapshot \in [Workers -> Seq(Nat)]
      /\ rpc \in [Runners -> {"idle", "loop", "copy", "reset", "reported", "exited"}]
      /\ ri \in [Runners -> 0 .. NThreads]
  BY <1>1 DEF ConservedInv, TimersTypeOK
<1>3. host' = host
  BY Zenon DEF Runner, CheckpointLock, CheckpointCopy, CheckpointReset, Report
<1>4. host = NoHost => k = "agg"
  <2>1. host = NoHost => rpc["handler"] = "idle" BY <1>1 DEF ConservedInv, RunnersInLoop
  <2>2. rpc[k] # "idle"
    BY Zenon DEF Runner, CheckpointLock, CheckpointCopy, CheckpointReset, Report, Run
  <2> QED BY <2>1, <2>2 DEF Runners
<1>5. CASE CheckpointLock(k)
  <2>1. UNCHANGED <<timer, copy, ri, latencies, snapshot>> BY <1>5 DEF CheckpointLock, ghosts
  <2>2. rpc[k] = "loop" /\ rpc' = [rpc EXCEPT ![k] = "copy"] BY <1>5 DEF CheckpointLock, Run
  <2>3. TimersSummed' BY <1>1, <2>1 DEF TimersSummed
  <2>4. ASSUME host = NoHost, NEW w \in Workers, Copied(w)' PROVE Copied(w)
    BY <1>0, <1>2, <1>4, <2>1, <2>2, <2>4 DEF Copied
  <2>5. CopiesSummed' BY Zenon, <1>1, <1>3, <2>1, <2>4 DEF CopiesSummed
  <2> QED BY <2>3, <2>5
<1>6. CASE CheckpointCopy(k)
  <2>1. /\ UNCHANGED <<timer, ri, latencies>>
        /\ rpc[k] = "copy" /\ rpc' = [rpc EXCEPT ![k] = "reset"]
        /\ copy' = [copy EXCEPT ![ri[k]] = timer[ri[k]]]
        /\ snapshot' = [snapshot EXCEPT ![ri[k]] = latencies[ri[k]]]
    BY <1>6 DEF CheckpointCopy, Run
  <2>2. ri[k] \in Workers BY <1>1, <2>1 DEF ConservedInv, RunnersInLoop
  <2>3. TimersSummed' BY <1>1, <2>1 DEF TimersSummed
  <2>4. /\ copy'[ri[k]] = timer[ri[k]] /\ snapshot'[ri[k]] = latencies[ri[k]]
        /\ \A v \in Workers : v # ri[k] => copy'[v] = copy[v] /\ snapshot'[v] = snapshot[v]
    BY <1>2, <2>1, <2>2
  <2>5. ASSUME host = NoHost, NEW w \in Workers, Copied(w)'
        PROVE  Summary(copy'[w], snapshot'[w])
    <3>1. CASE w = ri[k] BY <1>1, <2>4, <3>1 DEF TimersSummed
    <3>2. CASE w # ri[k]
      <4>1. Copied(w) BY <1>0, <1>2, <1>4, <2>1, <2>5, <3>2 DEF Copied
      <4> QED BY <1>1, <2>4, <2>5, <3>2, <4>1 DEF CopiesSummed
    <3> QED BY <3>1, <3>2
  <2>6. CopiesSummed' BY <1>3, <2>5 DEF CopiesSummed
  <2> QED BY <2>3, <2>6
<1>7. CASE CheckpointReset(k)
  <2>1. /\ UNCHANGED <<copy, snapshot>>
        /\ rpc[k] = "reset" /\ rpc' = [rpc EXCEPT ![k] = "loop"]
        /\ timer' = [timer EXCEPT ![ri[k]] = sb_timer_reset(@)]
        /\ latencies' = [latencies EXCEPT ![ri[k]] = <<>>]
        /\ ri' = [ri EXCEPT ![k] = @ + 1]
    BY <1>7 DEF CheckpointReset, Run
  <2>2. ri[k] \in Workers BY <1>1, <2>1 DEF ConservedInv, RunnersInLoop
  <2>3. /\ timer'[ri[k]] = sb_timer_reset(timer[ri[k]]) /\ latencies'[ri[k]] = <<>>
        /\ \A v \in Workers : v # ri[k] => timer'[v] = timer[v] /\ latencies'[v] = latencies[v]
    BY <1>2, <2>1, <2>2
  <2>4. Summary(sb_timer_reset(timer[ri[k]]), <<>>) BY <1>2, <2>2, ResetType, SummaryEmpty
  <2>5. TimersSummed' BY <1>1, <2>3, <2>4 DEF TimersSummed
  <2>6. ASSUME host = NoHost, NEW w \in Workers, Copied(w)' PROVE Copied(w)
    <3>1. w \in Int /\ ri["agg"] \in Int BY <1>0, <1>2, ThreadsAssumption DEF Workers
    <3>2. rpc["agg"] = "reset" /\ rpc'["agg"] = "loop" /\ ri'["agg"] = ri["agg"] + 1
      BY <1>0, <1>2, <1>4, <2>1, <2>6
    <3>3. w < ri["agg"] + 1 BY <2>6, <3>2 DEF Copied
    <3>4. w < ri["agg"] \/ w = ri["agg"] BY <3>1, <3>3
    <3> QED BY <3>2, <3>4 DEF Copied
  <2>7. CopiesSummed' BY <1>1, <1>3, <2>1, <2>6 DEF CopiesSummed
  <2> QED BY <2>5, <2>7
<1>8. CASE Report(k)
  <2>1. UNCHANGED <<timer, copy, ri, latencies, snapshot>> BY <1>8 DEF Report, ghosts
  <2>2. rpc' = [rpc EXCEPT ![k] = IF k = "agg" THEN "idle" ELSE "reported"]
    BY <1>8 DEF Report, Run
  <2>3. TimersSummed' BY <1>1, <2>1 DEF TimersSummed
  <2>4. ASSUME host = NoHost, NEW w \in Workers, Copied(w)' PROVE FALSE
    BY <1>0, <1>2, <1>4, <2>1, <2>2, <2>4 DEF Copied
  <2>5. CopiesSummed' BY <1>3, <2>4 DEF CopiesSummed
  <2> QED BY <2>3, <2>5
<1> QED BY <1>5, <1>6, <1>7, <1>8 DEF Runner

(* Every step keeps the invariant.                                         *)
LEMMA SummedStep == SummedInv /\ [TimersNext]_timerVars => SummedInv'
<1> SUFFICES ASSUME SummedInv, [TimersNext]_timerVars PROVE SummedInv' OBVIOUS
<1>0. ConservedInv /\ TimersSummed /\ CopiesSummed BY DEF SummedInv
<1>1. ConservedInv' BY <1>0, ConservedStep
<1>2. CASE ClockTick \/ UNCHANGED timerVars
  <2>1. UNCHANGED <<timer, copy, rpc, ri, host, latencies, snapshot>>
    BY <1>2 DEF ClockTick, timerVars, runVars, ghosts
  <2>2. TimersSummed' /\ CopiesSummed'
    BY <1>0, <2>1 DEF TimersSummed, CopiesSummed, Copied
  <2> QED BY <1>1, <2>2 DEF SummedInv
<1>3. CASE BeginReport
  <2>1. UNCHANGED <<timer, copy, host, latencies, snapshot>> BY <1>3 DEF BeginReport, ghosts
  <2>2. rpc'["agg"] = "loop" /\ ri'["agg"] = 0
    BY <1>0, <1>3 DEF BeginReport, Run, ConservedInv, TimersTypeOK, Runners
  <2>3. \A w \in Workers : ~Copied(w)' BY <2>2, ThreadsAssumption DEF Copied, Workers
  <2>4. TimersSummed' /\ CopiesSummed' BY <1>0, <2>1, <2>3 DEF TimersSummed, CopiesSummed
  <2> QED BY <1>1, <2>4 DEF SummedInv
<1>4. CASE Alarm
  <2>1. UNCHANGED <<timer, latencies>> BY <1>4 DEF Alarm, ghosts
  <2>2. host' # NoHost
    BY <1>4, ThreadsAssumption DEF Alarm, Workers, Agg, Other, NoHost
  <2>3. TimersSummed' /\ CopiesSummed' BY <1>0, <2>1, <2>2 DEF TimersSummed, CopiesSummed
  <2> QED BY <1>1, <2>3 DEF SummedInv
<1>5. CASE StopCopies
  <2>1. UNCHANGED <<timer, latencies, host>> BY <1>5 DEF StopCopies, ghosts
  <2>2. host # NoHost
    BY <1>0, <1>5 DEF StopCopies, Run, ConservedInv, RunnersInLoop
  <2>3. TimersSummed' /\ CopiesSummed' BY <1>0, <2>1, <2>2 DEF TimersSummed, CopiesSummed
  <2> QED BY <1>1, <2>3 DEF SummedInv
<1>6. ASSUME NEW w \in Workers, Worker(w) PROVE SummedInv'
  BY <1>1, <1>6, WorkerKeepsSums DEF SummedInv
<1>7. ASSUME NEW k \in Runners, Runner(k) PROVE SummedInv'
  BY <1>1, <1>7, RunnerKeepsSums DEF SummedInv
<1> QED BY <1>2, <1>3, <1>4, <1>5, <1>6, <1>7 DEF TimersNext

(* The latencies of the first k threads' snapshots.                        *)
SnapshotsTo(k) == UNION {Range(snapshot[w]) : w \in 0 .. k - 1}
SnapshotLens == [w \in Workers |-> Len(snapshot[w])]
SnapshotSums == [w \in Workers |-> Added(snapshot[w])]

(* The loop of report_cumulative() after k rounds.                         *)
LEMMA MergedPrefix ==
  ASSUME TimersTypeOK, \A w \in Workers : Summary(copy[w], snapshot[w]),
         NEW k \in 0 .. NThreads
  PROVE  /\ Merges[k] \in TimerType /\ Extremes(Merges[k], SnapshotsTo(k))
         /\ Merges[k].events = SumUpTo(SnapshotLens, k)
         /\ Merges[k].sum = SumUpTo(SnapshotSums, k)
         /\ Merges[k].events = 0 <=> SnapshotsTo(k) = {}
<1> DEFINE P(j) == /\ Merges[j] \in TimerType /\ Extremes(Merges[j], SnapshotsTo(j))
                   /\ Merges[j].events = SumUpTo(SnapshotLens, j)
                   /\ Merges[j].sum = SumUpTo(SnapshotSums, j)
                   /\ Merges[j].events = 0 <=> SnapshotsTo(j) = {}
           S == {j \in Nat : j <= NThreads => P(j)}
<1>1. 0 \in S
  <2>1. SnapshotsTo(0) = {} BY DEF SnapshotsTo
  <2>2. sb_timer_init.events = 0 /\ sb_timer_init.sum = 0
    BY DEF sb_timer_init, sb_timer_reset, ZeroTimer
  <2>3. P(0) BY <2>1, <2>2, MergesStep, InitTimer, ExtremesNone, SumZero
  <2> QED BY <2>3
<1>2. ASSUME NEW j \in Nat, j \in S PROVE j + 1 \in S
  <2> SUFFICES ASSUME j + 1 <= NThreads PROVE P(j + 1) OBVIOUS
  <2>1. P(j) BY <1>2, ThreadsAssumption
  <2>2. j \in Workers BY ThreadsAssumption DEF Workers
  <2> HIDE DEF P
  <2> DEFINE m == Merges[j]
             c == copy[j]
             r == sb_timer_merge(m, c)
  <2>3. Merges[j + 1] = r BY MergesStep
  <2>4. c \in TimerType /\ snapshot[j] \in Seq(Nat) BY <2>2 DEF TimersTypeOK
  <2>5. c.events = Len(snapshot[j]) /\ c.sum = Added(snapshot[j])
        /\ Extremes(c, Range(snapshot[j]))
    BY <2>2 DEF Summary
  <2>6. m \in TimerType /\ Extremes(m, SnapshotsTo(j)) BY <2>1 DEF P
  <2> HIDE DEF m, c, r
  <2>7. /\ Extremes(r, SnapshotsTo(j) \cup Range(snapshot[j])) /\ r \in TimerType
        /\ r.events = m.events + c.events /\ r.sum = m.sum + c.sum
    BY <2>4, <2>5, <2>6, ExtremesMerge DEF r
  <2>8. SnapshotsTo(j + 1) = SnapshotsTo(j) \cup Range(snapshot[j])
    <3>1. 0 .. j + 1 - 1 = (0 .. j - 1) \cup {j} OBVIOUS
    <3> QED BY <3>1 DEF SnapshotsTo
  <2>9. /\ SumUpTo(SnapshotLens, j + 1) = SumUpTo(SnapshotLens, j) + Len(snapshot[j])
        /\ SumUpTo(SnapshotSums, j + 1) = SumUpTo(SnapshotSums, j) + Added(snapshot[j])
    <3>1. SnapshotLens[j] = Len(snapshot[j]) /\ SnapshotSums[j] = Added(snapshot[j])
      BY <2>2 DEF SnapshotLens, SnapshotSums
    <3> QED BY <3>1, SumStep
  <2>10. c.events = 0 <=> Range(snapshot[j]) = {}
    <3>1. DOMAIN snapshot[j] = 1 .. Len(snapshot[j]) /\ Len(snapshot[j]) \in Nat BY <2>4
    <3> DEFINE s == snapshot[j]
    <3>2. Len(s) = 0 => Range(s) = {} BY <3>1 DEF Range
    <3>3. Len(s) # 0 => 1 \in DOMAIN s BY <3>1
    <3>4. 1 \in DOMAIN s => s[1] \in Range(s) BY DEF Range
    <3> HIDE DEF s
    <3>5. Len(s) = 0 <=> Range(s) = {} BY <3>2, <3>3, <3>4
    <3> QED BY <2>5, <3>5 DEF s
  <2>11. m.events \in Nat /\ c.events \in Nat BY <2>4, <2>6 DEF TimerType
  <2>12. r.events = 0 <=> m.events = 0 /\ c.events = 0 BY <2>7, <2>11
  <2>13. m.events = 0 <=> SnapshotsTo(j) = {} BY <2>1 DEF P, m
  <2>14. r.events = 0 <=> SnapshotsTo(j + 1) = {} BY <2>8, <2>10, <2>12, <2>13
  <2>15. m.events = SumUpTo(SnapshotLens, j) /\ m.sum = SumUpTo(SnapshotSums, j)
    BY <2>1 DEF P, m
  <2> QED BY Zenon, <2>3, <2>5, <2>7, <2>8, <2>9, <2>14, <2>15 DEF P
<1>3. Nat \subseteq S
  <2> HIDE DEF S
  <2> QED BY <1>1, <1>2, Induct
<1> QED BY <1>3, ThreadsAssumption

(* It implies that a report is right.                                      *)
LEMMA SummedReports == SummedInv => ReportRight
<1> SUFFICES ASSUME SummedInv, host = NoHost, rpc["agg"] = "loop", ri["agg"] = NThreads
             PROVE  LET t == MergeCopies
                    IN  /\ t.events = SumUpTo([w \in Workers |-> Len(snapshot[w])], NThreads)
                        /\ t.sum = SumUpTo([w \in Workers |-> Added(snapshot[w])], NThreads)
                        /\ sb_timer_min(t) = IF Snapshots = {} THEN 0 ELSE Min(Snapshots)
                        /\ t.max = IF Snapshots = {} THEN 0 ELSE Max(Snapshots)
                        /\ sb_timer_avg(t) \in sb_timer_min(t) .. t.max
  BY Zenon DEF ReportRight
<1>1. TimersTypeOK BY DEF SummedInv, ConservedInv
<1>2. \A w \in Workers : Summary(copy[w], snapshot[w])
  BY ThreadsAssumption DEF SummedInv, CopiesSummed, Copied, Workers
<1> DEFINE t == MergeCopies
           n == t.events
           E == Snapshots
<1>3. NThreads \in 0 .. NThreads /\ E = SnapshotsTo(NThreads)
  BY ThreadsAssumption DEF Snapshots, SnapshotsTo, Workers
<1>4. /\ t \in TimerType /\ Extremes(t, E)
      /\ n = SumUpTo(SnapshotLens, NThreads) /\ t.sum = SumUpTo(SnapshotSums, NThreads)
      /\ n = 0 <=> E = {}
  BY Zenon, <1>1, <1>2, <1>3, MergedPrefix DEF MergeCopies
<1>5. n \in Nat /\ t.sum \in Nat /\ t.min \in Nat /\ t.max \in Nat BY <1>4 DEF TimerType
<1> HIDE DEF t, n, E
<1>6. CASE E = {}
  <2>1. t.max = 0 /\ sb_timer_min(t) = 0 /\ sb_timer_avg(t) = 0
    BY <1>4, <1>6 DEF Extremes, sb_timer_min, sb_timer_avg, n
  <2>2. sb_timer_avg(t) \in sb_timer_min(t) .. t.max BY <2>1
  <2> QED BY <1>4, <1>6, <2>1, <2>2 DEF t, n, E, SnapshotLens, SnapshotSums
<1>7. CASE E # {}
  <2>1. n \in Nat \ {0} BY <1>4, <1>5, <1>7
  <2>2. t.min \in E /\ t.max \in E /\ \A e \in E : t.min <= e /\ e <= t.max
    BY <1>4, <1>7 DEF Extremes
  <2>3. E \subseteq Nat
    BY <1>4, TimersAssumption DEF Extremes
  <2>4. t.min = Min(E)
    <3>1. Min(E) \in E /\ \A y \in E : Min(E) <= y
      <4> DEFINE a == t.min
      <4> HIDE DEF a
      <4>1. a \in E /\ \A y \in E : a <= y BY <2>2 DEF a
      <4> QED BY <4>1 DEF Min
    <3>2. t.min <= Min(E) /\ Min(E) <= t.min /\ Min(E) \in Nat BY Zenon, <2>2, <2>3, <3>1
    <3> QED BY <1>5, <3>2
  <2>5. t.max = Max(E)
    <3>1. Max(E) \in E /\ \A y \in E : Max(E) >= y
      <4> DEFINE a == t.max
      <4> HIDE DEF a
      <4>1. a \in E /\ \A y \in E : a >= y BY <1>5, <2>2, <2>3 DEF a
      <4> QED BY <4>1 DEF Max
    <3>2. t.max <= Max(E) /\ Max(E) <= t.max /\ Max(E) \in Nat BY Zenon, <1>5, <2>2, <2>3, <3>1
    <3> QED BY <1>5, <3>2
  <2>6. sb_timer_min(t) = t.min /\ sb_timer_avg(t) = t.sum \div n
    BY <2>1 DEF sb_timer_min, sb_timer_avg, n
  <2>7. ASSUME NEW w \in 0 .. NThreads - 1
        PROVE  /\ SnapshotSums[w] \in Nat /\ SnapshotLens[w] \in Nat
               /\ SnapshotLens[w] * t.min <= SnapshotSums[w]
               /\ SnapshotSums[w] <= SnapshotLens[w] * t.max
    <3>1. w \in Workers BY DEF Workers
    <3> DEFINE s == snapshot[w]
    <3>2. s \in Seq(Nat) BY <1>1, <3>1 DEF TimersTypeOK
    <3>3. \A i \in DOMAIN s : s[i] \in E BY <3>1 DEF E, Snapshots, Range
    <3>4. SnapshotSums[w] = Added(s) /\ SnapshotLens[w] = Len(s)
      BY <3>1 DEF SnapshotSums, SnapshotLens
    <3> HIDE DEF s
    <3>5. Added(s) \in Nat /\ Len(s) \in Nat BY <3>2, AddedNat
    <3>6. (\A i \in DOMAIN s : t.min <= s[i]) => Len(s) * t.min <= Added(s)
      BY <1>5, <3>2, AddedBounds
    <3>7. (\A i \in DOMAIN s : s[i] <= t.max) => Added(s) <= Len(s) * t.max
      BY <1>5, <3>2, AddedBounds
    <3> QED BY <2>2, <3>3, <3>4, <3>5, <3>6, <3>7
  <2>8. NThreads \in Nat BY ThreadsAssumption
  <2>9. SumUpTo(SnapshotLens, NThreads) * t.min <= SumUpTo(SnapshotSums, NThreads)
    BY <1>5, <2>7, <2>8, SumBounds
  <2>10. SumUpTo(SnapshotSums, NThreads) <= SumUpTo(SnapshotLens, NThreads) * t.max
    BY <1>5, <2>7, <2>8, SumBounds
  <2>11. n * t.min <= t.sum /\ t.sum <= n * t.max BY <1>4, <2>9, <2>10
  <2>12. t.sum \div n \in t.min .. t.max BY <1>5, <2>1, <2>11, Quotient
  <2> QED BY <1>4, <1>7, <2>4, <2>5, <2>6, <2>12 DEF t, n, E, SnapshotLens, SnapshotSums
<1> QED BY Zenon, <1>6, <1>7

(* For any number of threads, a cumulative report gives the minimum, the   *)
(* maximum, the sum and the number of exactly the latencies that its       *)
(* checkpoint found, and an average between the two, until the handler's   *)
(* checkpoint overwrites the copies.                                       *)
THEOREM ReportsAreRight == TimersSpec => []ReportRight
BY SummedInitially, SummedStep, SummedReports, PTL DEF TimersSpec
=============================================================================
