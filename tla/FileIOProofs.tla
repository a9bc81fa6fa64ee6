---------------------------- MODULE FileIOProofs ----------------------------
(***************************************************************************)
(* What the fileio test guarantees for every set of threads, every set of  *)
(* options and every number of faults: the files are synced at its end,    *)
(* and sequential writes are synced as often as asked for.  The invariant  *)
(* has a part for the phases of the test, for the places of its threads,   *)
(* for the syncs still owed and for the fsync series.                      *)
(***************************************************************************)
EXTENDS FileIO, FiniteSetTheorems, TLAPS

----------------------------------------------------------------------------
(* The invariant.                                                          *)

(* Where a thread is inside file_get_rnd_request().                        *)
RndPlaces == {"rnd", "due", "sync", "bump", "wrap", "clean", "pick", "claim", "claim_pos",
              "count", "mark"}
(* Where a thread can be.                                                  *)
Places == RndPlaces \cup {"idle", "more", "seq", "exec", "fsync_all", "submitted", "wait",
                          "ending", "drain", "over"}
(* The phases of the test.                                                 *)
Phases == {"start", "prepared", "run", "finished", "clean", "failed"}
(* A request, from the generators to the queue.                            *)
Requests == [op : {"null", "read", "write", "fsync"}, file : Nat, pos : Int, size : Int]
(* What a thread has counted.                                              *)
Tallies == [read : Nat, write : Nat, fsync : Nat]
(* What the kernel hands back for an asynchronous operation.               *)
Results == [op : {"read", "write"}, ok : BOOLEAN]

(* The types of the state the arguments use; the contents of the files are *)
(* typed where they matter, in Validated.                                  *)
FileIOTypeOK ==
  /\ cfg \in Configs /\ phase \in Phases /\ error \in BOOLEAN /\ faults \in Nat
  /\ pc \in [Threads -> Places] /\ req \in [Threads -> Requests] /\ reg \in [Threads -> Nat]
  /\ flying \in [Threads -> Seq(Requests)] /\ landed \in [Threads -> Seq(Results)]
  /\ counts \in [Threads -> Tallies]
  /\ executed \in [Threads -> Nat]
  /\ fsynced_file \in Nat /\ current_file \in Nat /\ position \in Int
  /\ req_performed \in Nat /\ since \in Nat /\ is_dirty \in {0, 1}
  /\ unsynced \subseteq Nat

(* What each phase of the test means for its threads: nobody runs before   *)
(* file_prepare() or after file_done(), and nothing is in flight outside a *)
(* run. A run other than seqwr has files with something in them.           *)
Phased ==
  /\ phase \in {"prepared", "run", "finished", "clean"} => Valid
  /\ phase \in {"start", "prepared", "failed"} => \A t \in Threads : pc[t] = "idle"
  /\ phase = "run" => \A t \in Threads : pc[t] # "idle" /\ (t \notin Active => pc[t] = "over")
  /\ phase = "finished" => \A t \in Threads : pc[t] = "over"
  /\ phase # "run" => \A t \in Threads : flying[t] = <<>>
  /\ phase \in {"start", "prepared"} /\ Valid /\ file_size = 0 => \A f \in Files : disk[f] = <<>>
  /\ phase = "run" /\ cfg.mode # "seqwr" => file_size > 0

(* What the place of a thread says about the options and its request: the  *)
(* sequential and the random generator are never mixed, only asynchronous  *)
(* I/O has a queue, and a request under construction has the operation     *)
(* that its place calls for.                                               *)
ModedAt(t) ==
  /\ pc[t] = "seq" => Sequential
  /\ pc[t] \in RndPlaces => ~Sequential
  /\ pc[t] \in {"submitted", "wait", "drain"} => Async
  /\ ~Async => flying[t] = <<>> /\ landed[t] = <<>>
  /\ pc[t] \in {"due", "pick", "claim", "claim_pos", "count", "mark"} =>
       req[t].op \in {"read", "write"}
  /\ pc[t] \in {"bump", "wrap", "clean"} => req[t].op = "fsync"
  /\ pc[t] = "mark" => req[t].op = "write"
  /\ pc[t] = "fsync_all" => req[t].op = "write"
  /\ pc[t] = "exec" => req[t].op # "null"
  /\ req[t].op = "read" => cfg.mode # "seqwr"
  /\ \A i \in 1 .. Len(flying[t]) : flying[t][i].op \in {"read", "write"}

(* Every thread is where the options allow it to be.                       *)
Moded == \A t \in Threads : ModedAt(t)

(* Thread t still has to sync file f before it ends: it is working, or its *)
(* final loop has not come to f.                                           *)
Syncing(t, f) == pc[t] \notin {"idle", "over"} /\ (pc[t] = "ending" => reg[t] <= f)

(* As long as nothing failed, every file with unsynced data is a file of   *)
(* the test, a thread will still sync it at the end, and with --file-      *)
(* fsync-all the thread that wrote it is about to.                         *)
Synced ==
  error = FALSE /\ faults = 0 /\ ~Async =>
    \A f \in unsynced :
      /\ f < cfg.files
      /\ SyncsAtEnd => \E t \in Threads : Syncing(t, f)
      /\ cfg.all = TRUE => \E t \in Threads : pc[t] = "fsync_all" /\ req[t].file = f

(* How many writes there may be at this value of req_performed.            *)
Due == IF req_performed % file_fsync_freq = 0 THEN file_fsync_freq
       ELSE req_performed % file_fsync_freq

(* With sequential requests the writes since the last series of fsyncs     *)
(* never outrun req_performed modulo the frequency; the counter stays      *)
(* below the point where it wraps, and the series inside the files.        *)
Freshness ==
  Valid /\ Sequential /\ file_fsync_freq # 0 =>
    /\ req_performed < CounterMod /\ fsynced_file < cfg.files
    /\ is_dirty = 0 => since = 0
    /\ is_dirty = 1 => since <= Due
    /\ cfg.mode = "seqrd" => is_dirty = 0

(* The inductive invariant.                                                *)
FileIOInv == FileIOTypeOK /\ Phased /\ Moded /\ Synced /\ Freshness

----------------------------------------------------------------------------
(* Arithmetic.                                                             *)

(* A set of naturals has a least element.                                  *)
LEMMA LeastNat ==
  ASSUME NEW S, S \subseteq Nat, S # {}
  PROVE  \E x \in S : \A y \in S : x <= y
<1>1. IsWellFoundedOn(OpToRel(<, Nat), Nat) BY Zenon, NatLessThanWellFounded
<1>2. PICK x \in S : \A y \in S : ~ (<<y, x>> \in OpToRel(<, Nat))
  BY Zenon, <1>1, WFMin
<1>3. \A y \in S : ~(y < x) BY Zenon, <1>2 DEF OpToRel
<1> QED BY <1>3

(* Dividing a natural.                                                     *)
LEMMA DivMod ==
  ASSUME NEW p \in Nat, NEW d \in Nat \ {0}
  PROVE  /\ p \div d \in Nat /\ p % d \in 0 .. d - 1
         /\ p = d * (p \div d) + (p % d)
<1>1. p = d * (p \div d) + (p % d) OBVIOUS
<1>2. p % d \in 0 .. d - 1 OBVIOUS
<1>3. p \div d \in Int OBVIOUS
<1>4. p \div d >= 0
  <2> DEFINE q == p \div d
             r == p % d
  <2>1. q \in Int /\ r \in 0 .. d - 1 /\ p = d * q + r BY <1>1, <1>2, <1>3
  <2> HIDE DEF q, r
  <2> SUFFICES ASSUME q < 0 PROVE FALSE BY <2>1 DEF q
  <2>2. d * q + d <= 0
    <3>1. PICK k \in Nat : q = -1 - k BY <2>1, -1 - q \in Nat
    <3>2. d * k \in Nat OBVIOUS
    <3>3. d * q = (-d) - d * k BY <3>1
    <3> QED BY <3>2, <3>3
  <2> QED BY <2>1, <2>2
<1> QED BY <1>1, <1>2, <1>3, <1>4

(* Lemmas about the operators.                                             *)

(* A multiple of a larger number is larger by one factor at least.         *)
LEMMA Product ==
  ASSUME NEW d \in Nat, NEW a \in Int, NEW b \in Int, a < b
  PROVE  d * a + d <= d * b
<1>1. PICK k \in Nat : b = a + 1 + k BY b - a - 1 \in Nat
<1>2. d * k \in Nat OBVIOUS
<1>3. d * b = d * a + d + d * k BY <1>1
<1> QED BY <1>2, <1>3

(* A number below the divisor is its own remainder.                        *)
LEMMA SmallMod ==
  ASSUME NEW r \in Nat, NEW d \in Nat \ {0}, r < d
  PROVE  r % d = r
<1> DEFINE q == r \div d
           m == r % d
<1>1. q \in Nat /\ m \in 0 .. d - 1 /\ r = d * q + m
  BY Zenon, DivMod
<1> HIDE DEF q, m
<1>2. q = 0
  <2> SUFFICES ASSUME 0 < q  PROVE FALSE
    BY <1>1
  <2>1. d * 0 + d <= d * q
    BY <1>1, Product
  <2> QED BY <1>1, <2>1, d * q \in Nat
<1>3. m = r
  BY <1>1, <1>2
<1> QED BY <1>3 DEF m

(* The smaller of two numbers.                                             *)
LEMMA MinPair ==
  ASSUME NEW a \in Int, NEW b \in Int
  PROVE  Min({a, b}) = IF a <= b THEN a ELSE b
<1> DEFINE m == IF a <= b THEN a ELSE b
<1>1. m \in {a, b} /\ \A y \in {a, b} : m <= y
  OBVIOUS
<1>2. \A x \in {a, b} : (\A y \in {a, b} : x <= y) => x = m
  OBVIOUS
<1> HIDE DEF m
<1>3. Min({a, b}) = m
  BY <1>1, <1>2 DEF Min
<1> QED BY <1>3 DEF m

(* The sizes and counts of options that file_parse_arguments() accepts.    *)
LEMMA Sizes ==
  ASSUME cfg \in Configs, Valid
  PROVE  /\ cfg.files \in Nat \ {0} /\ cfg.total \in Nat \ {0} /\ cfg.block \in Nat \ {0}
         /\ file_size \in Nat /\ file_request_size \in Nat \ {0}
         /\ cfg.merged <= 1 => file_request_size = cfg.block
         /\ file_fsync_freq \in Nat
<1>1. /\ cfg.files \in Nat \ {0} /\ cfg.total \in Nat \ {0} /\ cfg.block \in Nat \ {0}
      /\ cfg.merged \in Nat /\ cfg.freq \in Nat
  BY FileIOAssumption DEF Valid
<1>2. file_size \in Nat
  BY Zenon, <1>1, DivMod DEF file_size
<1>3. file_request_size \in Nat \ {0} /\ (cfg.merged <= 1 => file_request_size = cfg.block)
  <2>1. CASE cfg.merged > 0
    <3>1. PICK k \in Nat : cfg.merged = k + 1
      BY <1>1, <2>1, cfg.merged - 1 \in Nat
    <3>2. cfg.block * k \in Nat
      BY <1>1
    <3>3. cfg.block * cfg.merged = cfg.block * k + cfg.block
      BY <1>1, <3>1
    <3>4. cfg.merged <= 1 => k = 0
      BY <3>1
    <3> QED BY <1>1, <2>1, <3>2, <3>3, <3>4 DEF file_request_size
  <2> QED BY <1>1, <2>1 DEF file_request_size
<1>4. file_fsync_freq \in Nat
  BY <1>1 DEF file_fsync_freq
<1> QED BY <1>1, <1>2, <1>3, <1>4

(* The size of a sequential request, cut at the end of the file.           *)
LEMMA SeqSizeIs ==
  ASSUME cfg \in Configs, Valid, NEW pos \in Int
  PROVE  /\ SeqSize(pos) = IF file_request_size <= file_size - pos THEN file_request_size
                           ELSE file_size - pos
         /\ SeqSize(pos) \in Int
BY Sizes, MinPair, file_size - pos \in Int DEF SeqSize

(* The number of collected operations of a kind.                           *)
LEMMA TallyNat ==
  ASSUME NEW s, Len(s) \in Nat, NEW op
  PROVE  Tally(s, op) \in Nat
<1>1. IsFiniteSet(1 .. Len(s))
  BY FS_Interval
<1>2. IsFiniteSet({i \in 1 .. Len(s) : s[i].op = op})
  BY <1>1, FS_Subset
<1> QED BY <1>2, FS_CardinalityType DEF Tally

(* A sequence without one of its members is one shorter.                   *)
LEMMA WithoutIs ==
  ASSUME NEW S, NEW s \in Seq(S), NEW i \in 1 .. Len(s)
  PROVE  Without(s, i) \in Seq(S) /\ Len(Without(s, i)) = Len(s) - 1
<1>1. SubSeq(s, 1, i - 1) \in Seq(S) /\ Len(SubSeq(s, 1, i - 1)) = i - 1
  OBVIOUS
<1>2. SubSeq(s, i + 1, Len(s)) \in Seq(S)
  OBVIOUS
<1>3. Len(SubSeq(s, i + 1, Len(s))) = Len(s) - i
  <2>1. CASE i + 1 <= Len(s)
    BY <2>1
  <2>2. CASE i = Len(s)
    BY <2>2
  <2>3. i \in Nat /\ Len(s) \in Nat /\ i <= Len(s)
    OBVIOUS
  <2> QED BY <2>1, <2>2, <2>3
<1> DEFINE a == SubSeq(s, 1, i - 1)
           b == SubSeq(s, i + 1, Len(s))
<1>4. a \in Seq(S) /\ b \in Seq(S) /\ Len(a) = i - 1 /\ Len(b) = Len(s) - i
  BY <1>1, <1>2, <1>3
<1>5. Without(s, i) = a \o b
  BY Zenon DEF Without
<1> HIDE DEF a, b
<1>6. a \o b \in Seq(S) /\ Len(a \o b) = Len(a) + Len(b)
  BY <1>4
<1> QED BY <1>4, <1>5, <1>6

(* A sequence without one of its members has no new member.                *)
LEMMA WithoutOf ==
  ASSUME NEW S, NEW s \in Seq(S), NEW i \in 1 .. Len(s), NEW j \in 1 .. Len(Without(s, i))
  PROVE  \E k \in 1 .. Len(s) : Without(s, i)[j] = s[k]
<1> DEFINE a == SubSeq(s, 1, i - 1)
           b == SubSeq(s, i + 1, Len(s))
<1>1. a \in Seq(S) /\ Len(a) = i - 1 /\ \A k \in 1 .. i - 1 : a[k] = s[k]
  OBVIOUS
<1>2. b \in Seq(S) /\ Len(b) = Len(s) - i /\ \A k \in 1 .. Len(s) - i : b[k] = s[i + k]
  OBVIOUS
<1>3. Without(s, i) = a \o b /\ Len(Without(s, i)) = Len(s) - 1
  BY Zenon, WithoutIs DEF Without
<1> HIDE DEF a, b
<1>4. (a \o b)[j] = IF j <= Len(a) THEN a[j] ELSE b[j - Len(a)]
  BY <1>1, <1>2, <1>3
<1>5. CASE j <= i - 1
  BY <1>1, <1>3, <1>4, <1>5
<1>6. CASE j > i - 1
  BY <1>1, <1>2, <1>3, <1>4, <1>6
<1> QED BY <1>5, <1>6

(* What file_wait() collects when every operation worked.                  *)
LEMMA CollectedIs ==
  ASSUME NEW t \in Threads, landed[t] \in Seq(Results)
  PROVE  /\ Collected(t) \in Seq(Results) /\ Len(Collected(t)) <= Len(landed[t])
         /\ SubSeq(landed[t], Len(Collected(t)) + 1, Len(landed[t])) \in Seq(Results)
         /\ Len(SubSeq(landed[t], Len(Collected(t)) + 1, Len(landed[t])))
              = Len(landed[t]) - Len(Collected(t))
         /\ (\A i \in 1 .. Len(landed[t]) : landed[t][i].ok = TRUE) => Collected(t) = landed[t]
<1> DEFINE s == landed[t]
           bad == {i \in 1 .. Len(s) : ~s[i].ok}
<1>0. s \in Seq(Results) /\ Len(s) \in Nat
  OBVIOUS
<1>1. bad # {} => Min(bad) \in 1 .. Len(s)
  <2>1. SUFFICES ASSUME bad # {}  PROVE Min(bad) \in bad
    BY Zenon
  <2>2. bad \in SUBSET Nat
    BY <1>0
  <2> HIDE DEF bad
  <2>3. PICK m \in bad : \A y \in bad : m <= y
    BY Zenon, <2>1, <2>2, LeastNat
  <2>4. m \in bad /\ \A y \in bad : m <= y
    BY Zenon, <2>3
  <2> QED BY Zenon, <2>4 DEF Min
<1>2. Collected(t) = IF bad = {} THEN s ELSE SubSeq(s, 1, Min(bad) - 1)
  BY Zenon DEF Collected
<1>3. (\A i \in 1 .. Len(s) : s[i].ok = TRUE) => bad = {}
  OBVIOUS
<1> HIDE DEF s, bad
<1>4. Collected(t) \in Seq(Results) /\ Len(Collected(t)) \in 0 .. Len(s)
  <2>1. CASE bad = {}
    BY <1>0, <1>2, <2>1
  <2>2. CASE bad # {}
    <3>1. SubSeq(s, 1, Min(bad) - 1) \in Seq(Results) /\ Len(SubSeq(s, 1, Min(bad) - 1)) = Min(bad) - 1
      BY <1>0, <1>1, <2>2
    <3> QED BY <1>1, <1>2, <2>2, <3>1
  <2> QED BY <2>1, <2>2
<1>5. SubSeq(s, Len(Collected(t)) + 1, Len(s)) \in Seq(Results)
      /\ Len(SubSeq(s, Len(Collected(t)) + 1, Len(s))) = Len(s) - Len(Collected(t))
  BY <1>0, <1>4
<1>6. Len(Collected(t)) <= Len(s)
  BY <1>0, <1>4
<1>7. (\A i \in 1 .. Len(s) : s[i].ok = TRUE) => Collected(t) = s
  BY Zenon, <1>2, <1>3
<1> QED BY Zenon, <1>4, <1>5, <1>6, <1>7 DEF s

(* Count() touches one thread's tallies.                                   *)
LEMMA CountIs ==
  ASSUME NEW t \in Threads, counts \in [Threads -> Tallies],
         NEW r \in Nat, NEW w \in Nat, NEW f \in Nat, Count(t, r, w, f)
  PROVE  /\ counts' \in [Threads -> Tallies]
         /\ counts'[t].read = counts[t].read + r /\ counts'[t].write = counts[t].write + w
         /\ counts'[t].read + counts'[t].write = counts[t].read + counts[t].write + (r + w)
<1> DEFINE c == [read |-> counts[t].read + r, write |-> counts[t].write + w,
                 fsync |-> counts[t].fsync + f]
<1>1. c \in Tallies /\ counts[t].read \in Nat /\ counts[t].write \in Nat
  BY DEF Tallies
<1>2. counts' = [counts EXCEPT ![t] = c]
  BY DEF Count
<1>3. c.read = counts[t].read + r /\ c.write = counts[t].write + w
  OBVIOUS
<1> HIDE DEF c
<1> QED BY <1>1, <1>2, <1>3

----------------------------------------------------------------------------
(* Types.                                                                  *)

(* Small definitions that every argument looks through.                    *)
USE DEF RndPlaces, Places, Phases, genVars, ioVars, endVars, At, Goto, Ask, Reg,
        Untouched

(* The main thread keeps the types.                                        *)
LEMMA TypeOfMain == FileIOTypeOK /\ Main => FileIOTypeOK'
<1> SUFFICES ASSUME FileIOTypeOK, Main  PROVE FileIOTypeOK'
  OBVIOUS
<1>1. CASE file_cmd_prepare
  BY <1>1 DEF FileIOTypeOK, file_cmd_prepare
<1>2. CASE file_prepare
  BY <1>2 DEF FileIOTypeOK, file_prepare
<1>3. CASE file_done
  BY <1>3 DEF FileIOTypeOK, file_done
<1>4. CASE file_cmd_cleanup
  BY <1>4 DEF FileIOTypeOK, file_cmd_cleanup
<1> QED BY <1>1, <1>2, <1>3, <1>4 DEF Main

(* A thread's step keeps the types.                                        *)
LEMMA TypeOfStep ==
  ASSUME NEW t \in Threads, FileIOTypeOK, Phased, Moded, Step(t)
  PROVE  FileIOTypeOK'
<1>1. CASE NextEvent(t)
  <2>1. CASE Goto(t, IF Sequential THEN "seq" ELSE "rnd") /\ UNCHANGED reg
    BY <1>1, <2>1 DEF FileIOTypeOK, NextEvent
  <2>2. CASE Goto(t, "ending") /\ Reg(t, 0)
    BY <1>1, <2>2 DEF FileIOTypeOK, NextEvent
  <2> QED BY Zenon, <1>1, <2>1, <2>2 DEF NextEvent
<1>2. CASE SeqFsync(t)
  <2>1. pc' \in [Threads -> Places] /\ req' \in [Threads -> Requests]
    BY <1>2 DEF FileIOTypeOK, SeqFsync, FsyncReq, Requests
  <2>2. fsynced_file' \in Nat /\ is_dirty' \in {0, 1} /\ since' \in Nat
    BY <1>2 DEF FileIOTypeOK, SeqFsync
  <2> QED BY <1>2, <2>1, <2>2 DEF FileIOTypeOK, SeqFsync
<1>3. CASE RndStart(t)
  <2>1. PICK op \in {"read", "write"} : req' = [req EXCEPT ![t] = [NoReq EXCEPT !.op = op]]
    BY Zenon, <1>3 DEF RndStart
  <2>2. [NoReq EXCEPT !.op = op] \in Requests
    BY DEF NoReq, Requests
  <2>3. pc' \in [Threads -> Places]
    BY <1>3 DEF RndStart, FileIOTypeOK
  <2>4. req' \in [Threads -> Requests]
    BY <2>1, <2>2 DEF FileIOTypeOK
  <2> QED BY <1>3, <2>3, <2>4 DEF FileIOTypeOK, RndStart
<1>4. CASE RndSync(t)
  BY <1>4 DEF FileIOTypeOK, RndSync, FsyncReq, Requests
<1>5. CASE \/ RndDue(t) \/ RndBump(t) \/ RndWrap(t) \/ RndClean(t) \/ RndClaim(t)
           \/ RndClaimPos(t) \/ RndMark(t)
  <2>1. pc' \in [Threads -> Places] /\ reg' \in [Threads -> Nat]
    BY Zenon, <1>5 DEF FileIOTypeOK, RndDue, RndBump, RndWrap, RndClean, RndClaim, RndClaimPos, RndMark
  <2>2. fsynced_file' \in Nat /\ is_dirty' \in {0, 1} /\ since' \in Nat
    BY <1>5 DEF FileIOTypeOK, RndDue, RndBump, RndWrap, RndClean, RndClaim, RndClaimPos, RndMark
  <2>3. UNCHANGED <<ioVars, endVars, req, current_file, position, req_performed>>
    BY <1>5 DEF RndDue, RndBump, RndWrap, RndClean, RndClaim, RndClaimPos, RndMark
  <2> QED BY Zenon, <2>1, <2>2, <2>3 DEF FileIOTypeOK
<1>6. CASE RequestRefused(t)
  BY <1>6 DEF FileIOTypeOK, RequestRefused, Fails
<1>7. CASE IoFault(t)
  BY <1>7 DEF FileIOTypeOK, IoFault, Fails, Passes
<1>13. CASE RequestAstray(t)
  BY Zenon, <1>13 DEF FileIOTypeOK, RequestAstray, Fails, Passes
<1>15. CASE file_pread(t)
  <2>1. CASE Fails(t) /\ UNCHANGED <<counts, executed>>
    BY <1>15, <2>1 DEF FileIOTypeOK, file_pread, Fails
  <2>2. CASE /\ Count(t, 1, 0, 0) /\ executed' = [executed EXCEPT ![t] = @ + 1]
             /\ Goto(t, "more") /\ UNCHANGED error
    <3>1. counts' \in [Threads -> Tallies]
      BY Zenon, <2>2, CountIs DEF FileIOTypeOK
    <3>2. UNCHANGED <<unsynced, flying, landed, faults, reg>> /\ Untouched
      BY Zenon, <1>15 DEF file_pread
    <3>3. executed' \in [Threads -> Nat] /\ pc' \in [Threads -> Places]
      BY <2>2 DEF FileIOTypeOK
    <3> QED BY <2>2, <3>1, <3>2, <3>3 DEF FileIOTypeOK
  <2> QED BY Zenon, <1>15, <2>1, <2>2 DEF file_pread
<1>16. CASE file_pwrite(t)
  <2>0. unsynced' \subseteq Nat
    BY Zenon, <1>16 DEF FileIOTypeOK, Requests, file_pwrite
  <2>1. CASE Goto(t, "fsync_all") /\ UNCHANGED counts
    BY <1>16, <2>0, <2>1 DEF FileIOTypeOK, file_pwrite
  <2>2. CASE Goto(t, "more") /\ Count(t, 0, 1, 0)
    <3>1. counts' \in [Threads -> Tallies]
      BY Zenon, <2>2, CountIs DEF FileIOTypeOK
    <3>2. /\ executed' = [executed EXCEPT ![t] = @ + 1]
          /\ UNCHANGED <<flying, landed, faults, reg, error>> /\ Untouched
      BY Zenon, <1>16 DEF file_pwrite
    <3> QED BY <2>0, <2>2, <3>1, <3>2 DEF FileIOTypeOK
  <2> QED BY Zenon, <1>16, <2>1, <2>2 DEF file_pwrite
<1>17. CASE FsyncAll(t)
  <2>1. CASE /\ unsynced' = unsynced \ {req[t].file}
             /\ Count(t, 0, IF Async THEN 0 ELSE 1, 1)
             /\ Goto(t, "more") /\ UNCHANGED <<faults, error>>
    <3>1. counts' \in [Threads -> Tallies]
      BY Zenon, <2>1, CountIs DEF FileIOTypeOK
    <3> QED BY Zenon, <1>17, <2>1, <3>1 DEF FileIOTypeOK, FsyncAll
  <2>2. CASE faults' = faults + 1 /\ Fails(t) /\ UNCHANGED <<unsynced, counts>>
    BY <1>17, <2>2 DEF FileIOTypeOK, FsyncAll, Fails
  <2> QED BY Zenon, <1>17, <2>1, <2>2 DEF FsyncAll
<1>18. CASE file_fsync(t)
  <2>1. counts' \in [Threads -> Tallies]
    BY Zenon, <1>18, CountIs DEF FileIOTypeOK, file_fsync
  <2> QED BY Zenon, <1>18, <2>1 DEF FileIOTypeOK, file_fsync
<1>19. CASE file_submit_or_wait(t)
  BY <1>19 DEF FileIOTypeOK, file_submit_or_wait, Passes
<1>20. CASE Submitted(t)
  BY Zenon, <1>20 DEF FileIOTypeOK, Submitted, Fails
<1>21. CASE WaitFails(t)
  <2>1. pc' \in [Threads -> Places]
    BY Zenon, <1>21 DEF FileIOTypeOK, WaitFails, Fails
  <2>2. error' \in BOOLEAN
    BY Zenon, <1>21 DEF FileIOTypeOK, WaitFails, Fails
  <2>3. faults' \in Nat
    BY <1>21 DEF FileIOTypeOK, WaitFails, Fails
  <2> QED
    BY <1>21, <2>1, <2>2, <2>3 DEF FileIOTypeOK, WaitFails
<1>22. CASE ThreadFsync(t)
  <2>1. CASE /\ unsynced' = unsynced \ {reg[t]} /\ Count(t, 0, 0, 1)
             /\ UNCHANGED <<faults, pc>>
    <3>1. counts' \in [Threads -> Tallies]
      BY Zenon, <2>1, CountIs DEF FileIOTypeOK
    <3>2. /\ reg' = [reg EXCEPT ![t] = reg[t] + 1]
          /\ UNCHANGED <<flying, landed, executed, error>> /\ Untouched
      BY Zenon, <1>22 DEF ThreadFsync
    <3>3. reg' \in [Threads -> Nat]
      BY <3>2 DEF FileIOTypeOK
    <3> QED BY Zenon, <2>1, <3>1, <3>2, <3>3 DEF FileIOTypeOK
  <2>2. CASE faults' = faults + 1 /\ Goto(t, "over") /\ UNCHANGED <<unsynced, counts>>
    BY <1>22, <2>2 DEF FileIOTypeOK, ThreadFsync
  <2> QED BY Zenon, <1>22, <2>1, <2>2 DEF ThreadFsync
<1>23. CASE ThreadDone(t)
  BY <1>23 DEF FileIOTypeOK, ThreadDone
<1>30. CASE SeqBlock(t)
  <2>0. Valid
    BY <1>30 DEF SeqBlock, Phased
  <2> DEFINE pos == IF current_file = cfg.files THEN 0 ELSE position
             file == IF current_file = cfg.files THEN 0 ELSE current_file
             size == SeqSize(pos)
             r == [op |-> IF cfg.mode = "seqrd" THEN "read" ELSE "write",
                   file |-> file, pos |-> pos, size |-> size]
  <2>1. pos \in Int /\ file \in Nat
    BY DEF FileIOTypeOK
  <2>2. size \in Int
    BY Zenon, <2>0, <2>1, SeqSizeIs DEF FileIOTypeOK
  <2>3. /\ pc' = [pc EXCEPT ![t] = "exec"] /\ req' = [req EXCEPT ![t] = r]
        /\ current_file' \in {file, file + 1} /\ position' \in {0, pos + size}
        /\ is_dirty' \in {1, is_dirty} /\ since' \in {since, since + 1}
        /\ req_performed' = (req_performed + 1) % CounterMod
        /\ UNCHANGED <<ioVars, endVars, fsynced_file, claimed, reg, events>>
    BY <1>30 DEF SeqBlock
  <2>4. r \in Requests
    BY <2>1, <2>2 DEF Requests
  <2>5. req_performed' \in Nat
    BY <2>3, FileIOAssumption, DivMod DEF FileIOTypeOK
  <2> HIDE DEF pos, file, size, r
  <2>6. current_file' \in Nat /\ position' \in Int /\ since' \in Nat /\ is_dirty' \in {0, 1}
    BY <2>1, <2>2, <2>3 DEF FileIOTypeOK
  <2>7. req' \in [Threads -> Requests] /\ pc' \in [Threads -> Places]
    BY <2>3, <2>4 DEF FileIOTypeOK
  <2> QED BY <2>3, <2>5, <2>6, <2>7 DEF FileIOTypeOK
<1>31. CASE RndPick(t)
  <2>0. Valid /\ file_size \in Nat \ {0}
    <3>1. Valid /\ ~Sequential /\ phase = "run"
      BY <1>31 DEF RndPick, Phased, Moded, ModedAt
    <3>2. file_size > 0
      BY <3>1 DEF Phased, Sequential
    <3> QED BY <3>1, <3>2, Sizes DEF FileIOTypeOK
  <2>1. PICK p \in 0 .. cfg.total - 1 :
          Ask(t, [op |-> req[t].op, file |-> p \div file_size, pos |-> p % file_size,
                  size |-> Min({cfg.block, file_size - (p % file_size)})])
    BY Zenon, <1>31 DEF RndPick
  <2> DEFINE file == p \div file_size
             pos == p % file_size
             size == Min({cfg.block, file_size - pos})
             r == [op |-> req[t].op, file |-> file, pos |-> pos, size |-> size]
  <2>2. file \in Nat /\ pos \in Int
    BY <2>0, <2>1, DivMod, Sizes, p \in Nat DEF FileIOTypeOK
  <2>3. req' = [req EXCEPT ![t] = r]
    BY <2>1
  <2> HIDE DEF file, pos
  <2>4. size \in Int
    <3>1. cfg.block \in Int /\ file_size - pos \in Int
      BY <2>0, <2>2, Sizes DEF FileIOTypeOK
    <3> QED BY <3>1, MinPair
  <2> HIDE DEF size
  <2>5. r \in Requests
    BY <2>2, <2>4 DEF Requests, FileIOTypeOK
  <2> HIDE DEF r
  <2> QED BY <1>31, <2>3, <2>5 DEF RndPick, FileIOTypeOK
<1>32. CASE RndCount(t)
  <2>1. (reg[t] + 1) % CounterMod \in Nat
    <3>1. reg[t] + 1 \in Nat /\ CounterMod \in Nat \ {0}
      BY FileIOAssumption DEF FileIOTypeOK
    <3> QED BY <3>1, DivMod
  <2> QED BY <1>32, <2>1 DEF RndCount, FileIOTypeOK
<1>33. ASSUME NEW next \in {"submitted", "over"}, file_wait(t, next)  PROVE FileIOTypeOK'
  <2>1. landed[t] \in Seq(Results)
    BY DEF FileIOTypeOK
  <2> DEFINE rest == SubSeq(landed[t], Len(Collected(t)) + 1, Len(landed[t]))
  <2>2. rest \in Seq(Results) /\ Collected(t) \in Seq(Results)
    BY Zenon, <2>1, CollectedIs
  <2>3. Tally(Collected(t), "read") \in Nat /\ Tally(Collected(t), "write") \in Nat
    BY <2>2, TallyNat, Len(Collected(t)) \in Nat
  <2>5. /\ landed' = [landed EXCEPT ![t] = rest]
        /\ Count(t, Tally(Collected(t), "read"), Tally(Collected(t), "write"), 0)
    BY <1>33 DEF file_wait
  <2> HIDE DEF rest
  <2>6. landed' \in [Threads -> Seq(Results)]
    BY <2>2, <2>5 DEF FileIOTypeOK
  <2>7. counts' \in [Threads -> Tallies]
    BY Zenon, <2>3, <2>5, CountIs DEF FileIOTypeOK
  <2>8. pc' \in [Threads -> Places] /\ error' \in BOOLEAN
    BY Zenon, <1>33 DEF file_wait, Fails, FileIOTypeOK
  <2> QED BY <1>33, <2>6, <2>7, <2>8 DEF file_wait, FileIOTypeOK
<1>34. CASE WaitForOne(t)
  BY <1>33, <1>34 DEF WaitForOne
<1>35. CASE WaitForAll(t)
  BY <1>33, <1>35 DEF WaitForAll
<1> QED
  BY Zenon, <1>1, <1>2, <1>3, <1>4, <1>5, <1>6, <1>7, <1>13, <1>15, <1>16, <1>17, <1>18, <1>19,
    <1>20, <1>21, <1>22, <1>23, <1>30, <1>31, <1>32, <1>34, <1>35
    DEF Step, SeqRequest, RndRequest, Execute

(* An operation that lands keeps the types.                                *)
LEMMA TypeOfLand ==
  ASSUME NEW t \in Threads, FileIOTypeOK, Moded, Land(t)
  PROVE  FileIOTypeOK'
<1>1. PICK i \in 1 .. Len(flying[t]) :
        /\ flying' = [flying EXCEPT ![t] = Without(@, i)]
        /\ \E b \in BOOLEAN : landed' = [landed EXCEPT ![t] = Append(@, [op |-> flying[t][i].op, ok |-> b])]
        /\ unsynced' \in {unsynced, unsynced \cup {flying[t][i].file}}
        /\ faults' \in {faults, faults + 1}
  BY Zenon DEF Land
<1>2. PICK b \in BOOLEAN : landed' = [landed EXCEPT ![t] = Append(@, [op |-> flying[t][i].op, ok |-> b])]
  BY Zenon, <1>1
<1> DEFINE r == flying[t][i]
           e == [op |-> r.op, ok |-> b]
<1>3. r \in Requests /\ r.op \in {"read", "write"} /\ r.file \in Nat
  <2>1. flying[t] \in Seq(Requests)
    BY DEF FileIOTypeOK
  <2>2. r \in Requests /\ r.op \in {"read", "write"}
    BY <2>1 DEF Moded, ModedAt
  <2> QED BY <2>2 DEF Requests
<1> HIDE DEF r
<1>4. e \in Results
  BY <1>3 DEF Results
<1> HIDE DEF e
<1>5. flying' \in [Threads -> Seq(Requests)]
  BY <1>1, WithoutIs DEF FileIOTypeOK
<1>6. landed' \in [Threads -> Seq(Results)]
  <2>1. landed' = [landed EXCEPT ![t] = Append(landed[t], e)]
    BY <1>2 DEF e, r
  <2>2. Append(landed[t], e) \in Seq(Results)
    BY <1>4 DEF FileIOTypeOK
  <2> QED BY <2>1, <2>2 DEF FileIOTypeOK
<1>7. unsynced' \subseteq Nat /\ faults' \in Nat
  BY <1>1, <1>3 DEF FileIOTypeOK, r
<1>8. /\ UNCHANGED <<counts, executed, pc, reg, error>> /\ Untouched
  BY DEF Land
<1> QED BY <1>5, <1>6, <1>7, <1>8 DEF FileIOTypeOK

----------------------------------------------------------------------------
(* What a step leaves alone.                                               *)

(* A step that leaves the other threads' state alone.                      *)
Alone(t) ==
  \A u \in Threads \ {t} :
    /\ pc'[u] = pc[u] /\ req'[u] = req[u] /\ reg'[u] = reg[u] /\ flying'[u] = flying[u]
    /\ landed'[u] = landed[u] /\ counts'[u] = counts[u] /\ executed'[u] = executed[u]

(* What a thread's step leaves as it is.                                   *)
Framed(t) ==
  /\ Alone(t) /\ UNCHANGED <<cfg, phase>>
  /\ phase = "run" /\ pc[t] \notin {"idle", "over"} /\ pc'[t] # "idle"
  /\ error' = FALSE => error = FALSE
  /\ faults' = 0 => faults = 0

(* A thread's step changes no other thread's state.                        *)
LEMMA StepFrame ==
  ASSUME NEW t \in Threads, FileIOTypeOK, Step(t)
  PROVE  Framed(t)
<1>1. CASE NextEvent(t)
  BY <1>1 DEF NextEvent, Framed, Alone, FileIOTypeOK
<1>2. CASE SeqRequest(t)
  BY <1>2 DEF SeqRequest, SeqFsync, SeqBlock, Framed, Alone, FileIOTypeOK
<1>3. CASE RndRequest(t)
  BY Zenon, <1>3 DEF RndRequest, RndStart, RndDue, RndSync, RndBump, RndWrap, RndClean, RndPick, RndClaim, RndClaimPos,
     RndCount, RndMark, Framed, Alone, FileIOTypeOK
<1>4. CASE RequestRefused(t) \/ RequestAstray(t)
  BY <1>4 DEF RequestRefused, RequestAstray, Fails, Passes, Framed, Alone, FileIOTypeOK
<1>5. CASE IoFault(t)
  BY <1>5 DEF IoFault, Fails, Passes, Framed, Alone, FileIOTypeOK
<1>11. CASE Submitted(t) \/ WaitFails(t)
  BY <1>11 DEF Submitted, WaitFails, Fails, Framed, Alone, FileIOTypeOK
<1>6. CASE file_pread(t) \/ file_submit_or_wait(t)
  BY <1>6 DEF file_pread, file_submit_or_wait, Fails, Passes, Count, Framed, Alone, FileIOTypeOK
<1>7. CASE file_pwrite(t) \/ file_fsync(t)
  BY <1>7 DEF file_pwrite, file_fsync, Passes, Count, Framed, Alone, FileIOTypeOK
<1>8. CASE FsyncAll(t) \/ ThreadFsync(t)
  BY <1>8 DEF FsyncAll, ThreadFsync, Fails, Count, Framed, Alone, FileIOTypeOK
<1>9. CASE ThreadDone(t)
  BY <1>9 DEF ThreadDone, Fails, Count, Framed, Alone, FileIOTypeOK
<1>10. CASE WaitForOne(t) \/ WaitForAll(t)
  BY <1>10 DEF WaitForOne, WaitForAll, Fails, Count, file_wait, Framed, Alone, FileIOTypeOK
<1> QED BY Zenon, <1>1, <1>2, <1>3, <1>4, <1>5, <1>6, <1>7, <1>8, <1>9, <1>10, <1>11 DEF Step, Execute

(* An operation that lands changes its queues and files only.              *)
LEMMA LandFrame ==
  ASSUME NEW t \in Threads, FileIOTypeOK, Land(t)
  PROVE  Alone(t) /\ UNCHANGED <<counts, executed, rejected, pc, reg, error>> /\ Untouched
BY Zenon DEF Land, Alone, FileIOTypeOK

(* The generators do no I/O.                                               *)
LEMMA GenFrame ==
  ASSUME NEW t \in Threads, SeqRequest(t) \/ RndRequest(t)
  PROVE  UNCHANGED <<ioVars, endVars, events>>
BY DEF SeqRequest, RndRequest, SeqFsync, SeqBlock, RndStart, RndDue, RndSync, RndBump, RndWrap,
       RndClean, RndPick, RndClaim, RndClaimPos, RndCount, RndMark

(* The I/O of a request does not touch the generators.                     *)
LEMMA IoFrame ==
  ASSUME NEW t \in Threads, Execute(t) \/ ThreadFsync(t) \/ ThreadDone(t) \/ WaitForAll(t)
  PROVE  Untouched
BY Zenon DEF Execute, RequestRefused, RequestAstray, IoFault, file_pread, file_pwrite, FsyncAll,
       file_fsync, file_submit_or_wait, Submitted, WaitForOne, WaitFails, ThreadFsync,
       ThreadDone, WaitForAll, file_wait

----------------------------------------------------------------------------
(* Phases and places.                                                      *)

(* The main thread changes the phase with its threads.                     *)
LEMMA PhasedMain == FileIOTypeOK /\ Phased /\ Main => Phased'
<1> SUFFICES ASSUME FileIOTypeOK, Phased, Main  PROVE Phased'
  OBVIOUS
<1>1. CASE file_cmd_prepare
  <2>1. CASE Valid /\ phase' = "prepared" /\ disk' = [f \in Files |-> Extended(disk[f])]
    <3>1. file_size = 0 => \A f \in Files : disk'[f] = <<>>
      <4> SUFFICES ASSUME file_size = 0, NEW f \in Files  PROVE disk'[f] = <<>>
        OBVIOUS
      <4>1. disk[f] = <<>>
        BY <1>1, <2>1 DEF file_cmd_prepare, Phased
      <4>2. Extended(disk[f]) = disk[f]
        BY <4>1, Len(disk[f]) = 0 DEF Extended
      <4> QED BY <2>1, <4>1, <4>2
    <3> QED BY Zenon, <1>1, <2>1, <3>1 DEF file_cmd_prepare, Phased, Valid, file_size, Files
  <2>2. CASE phase' = phase /\ Valid
    <3>1. PICK bad \in Files, n \in {k \in 0 .. file_size - 1 : k % cfg.block = 0} : TRUE
      BY <1>1, <2>2 DEF file_cmd_prepare
    <3>2. file_size # 0
      BY <3>1, <2>2, Sizes DEF FileIOTypeOK
    <3> QED BY <1>1, <2>2, <3>2 DEF file_cmd_prepare, Phased, Valid, file_size, Files
  <2>3. CASE ~Valid /\ phase' = "failed"
    BY <1>1, <2>3 DEF file_cmd_prepare, Phased, Valid, file_size, Files
  <2> QED BY Zenon, <1>1, <2>1, <2>2, <2>3 DEF file_cmd_prepare
<1>2. CASE file_prepare
  <2>1. CASE /\ cfg.mode = "seqwr" \/ \A f \in Files : Len(disk[f]) > 0 /\ Len(disk[f]) >= file_size
             /\ phase' = "run" /\ pc' = [t \in Threads |-> IF t \in Active THEN "more" ELSE "over"]
    <3>1. cfg.mode # "seqwr" => file_size > 0
      <4> SUFFICES ASSUME cfg.mode # "seqwr", file_size = 0  PROVE FALSE
        BY <1>2, Sizes DEF file_prepare, FileIOTypeOK
      <4>1. \A f \in Files : disk[f] = <<>>
        BY <1>2 DEF file_prepare, Phased
      <4>2. 0 \in Files
        BY <1>2, Sizes DEF file_prepare, Files, FileIOTypeOK
      <4> QED BY <2>1, <4>1, <4>2, Len(<<>>) = 0
    <3> QED BY <1>2, <2>1, <3>1 DEF file_prepare, Phased, Valid, file_size, Files, Active
  <2>2. CASE phase' = "failed" /\ UNCHANGED pc
    BY <1>2, <2>2 DEF file_prepare, Phased, Valid, file_size, Files, Active
  <2> QED BY Zenon, <1>2, <2>1, <2>2 DEF file_prepare
<1>3. CASE file_done
  BY <1>3 DEF file_done, Phased, Valid, file_size, Files, Active
<1>4. CASE file_cmd_cleanup
  BY <1>4 DEF file_cmd_cleanup, Phased, Valid, file_size, Files, Active
<1> QED BY <1>1, <1>2, <1>3, <1>4 DEF Main

(* A thread's step stays in its phase.                                     *)
LEMMA PhasedStep ==
  ASSUME NEW t \in Threads, FileIOTypeOK, Phased, Step(t)
  PROVE  Phased'
<1>1. Framed(t)
  BY StepFrame
<1> QED BY <1>1 DEF Framed, Alone, Phased, Valid, file_size, Files, Active

(* An operation that lands stays in its phase.                             *)
LEMMA PhasedLand ==
  ASSUME NEW t \in Threads, FileIOTypeOK, Phased, Land(t)
  PROVE  Phased'
<1>1. UNCHANGED <<cfg, phase, pc>>
  BY LandFrame
<1>2. phase = "run"
  <2>1. PICK i \in 1 .. Len(flying[t]) : TRUE
    BY Zenon DEF Land
  <2>2. flying[t] # <<>>
    BY <2>1, Len(<<>>) = 0
  <2> QED BY <2>2 DEF Phased
<1> QED BY <1>1, <1>2 DEF Phased, Valid, file_size, Files, Active

(* The main thread starts threads where the options allow.                 *)
LEMMA ModedMain == FileIOTypeOK /\ Moded /\ Main => Moded'
<1> SUFFICES ASSUME FileIOTypeOK, Moded, Main, NEW t \in Threads  PROVE ModedAt(t)'
  BY DEF Moded
<1>1. ModedAt(t)
  BY DEF Moded
<1>2. UNCHANGED <<cfg, flying, landed, req>> /\ pc'[t] \in {pc[t], "more", "over"}
  BY DEF Main, file_cmd_prepare, file_prepare, file_done, file_cmd_cleanup
<1> QED BY <1>1, <1>2 DEF ModedAt, Sequential, Async

(* A thread goes only where the options allow.                             *)
LEMMA ModedStep ==
  ASSUME NEW t \in Threads, FileIOTypeOK, Moded, Step(t)
  PROVE  Moded'
<1>a. Framed(t)
  BY StepFrame
<1>b. ModedAt(t)
  BY DEF Moded
<1> SUFFICES ModedAt(t)'
  <2> SUFFICES ASSUME NEW u \in Threads \ {t}  PROVE ModedAt(u)'
    BY DEF Moded
  <2>1. ModedAt(u)
    BY DEF Moded
  <2> QED BY Zenon, <1>a, <2>1 DEF Framed, Alone, ModedAt, Sequential, Async
<1>1. CASE NextEvent(t)
  <2>1. pc'[t] \in {"ending", IF Sequential THEN "seq" ELSE "rnd"}
    BY <1>1 DEF NextEvent, FileIOTypeOK
  <2> QED BY <1>1, <1>b, <2>1 DEF NextEvent, ModedAt, Sequential, Async
<1>2. CASE SeqFsync(t)
  BY <1>2, <1>b DEF SeqFsync, FsyncReq, ModedAt, Sequential, Async, FileIOTypeOK
<1>3. CASE SeqBlock(t)
  BY Zenon, <1>3, <1>b DEF SeqBlock, ModedAt, Sequential, Async, FileIOTypeOK
<1>4. CASE RndStart(t)
  <2>1. PICK op \in {"read", "write"} : req' = [req EXCEPT ![t] = [NoReq EXCEPT !.op = op]]
    BY Zenon, <1>4 DEF RndStart
  <2>2. req'[t].op = op
    BY <2>1 DEF FileIOTypeOK, NoReq
  <2>3. pc'[t] \in {"due", "pick"}
    BY <1>4 DEF RndStart, FileIOTypeOK
  <2> QED BY <1>4, <1>b, <2>2, <2>3 DEF RndStart, ModedAt, Sequential, Async
<1>5. CASE RndSync(t)
  BY <1>5, <1>b DEF RndSync, FsyncReq, ModedAt, Sequential, Async, FileIOTypeOK
<1>8. CASE RndPick(t)
  BY <1>8, <1>b DEF RndPick, ModedAt, Sequential, Async, FileIOTypeOK
<1>6. CASE \/ RndDue(t) \/ RndBump(t) \/ RndWrap(t) \/ RndClean(t) \/ RndClaim(t)
           \/ RndClaimPos(t) \/ RndCount(t) \/ RndMark(t)
  <2>1. UNCHANGED <<cfg, flying, landed, req>>
    BY <1>6 DEF RndDue, RndBump, RndWrap, RndClean, RndClaim, RndClaimPos, RndCount, RndMark
  <2>2. /\ pc[t] \in {"due", "bump", "wrap", "clean", "claim", "claim_pos", "count", "mark"}
        /\ pc[t] \in {"bump", "wrap"} => pc'[t] \in {"wrap", "clean", "exec"}
        /\ pc[t] \in {"clean", "mark"} => pc'[t] = "exec"
        /\ pc[t] \in {"due", "claim", "claim_pos"} =>
             pc'[t] \in {"sync", "pick", "claim_pos", "count"}
        /\ pc[t] = "count" => pc'[t] = IF req[t].op = "write" THEN "mark" ELSE "exec"
    BY <1>6 DEF RndDue, RndBump, RndWrap, RndClean, RndClaim, RndClaimPos, RndCount, RndMark,
      FileIOTypeOK
  <2> QED BY Zenon, <1>b, <2>1, <2>2 DEF ModedAt, Sequential, Async
<1>7. CASE \/ RequestRefused(t) \/ RequestAstray(t) \/ IoFault(t) \/ file_pread(t)
           \/ file_pwrite(t)
  <2>1. UNCHANGED <<cfg, flying, landed, req>> /\ pc[t] = "exec"
    BY Zenon, <1>7 DEF RequestRefused, RequestAstray, IoFault, file_pread, file_pwrite, Passes
  <2>2. pc'[t] \in {"more", "over"} \/ (pc'[t] = "fsync_all" /\ req[t].op = "write")
    BY <1>7 DEF RequestRefused, RequestAstray, IoFault, file_pread, file_pwrite, Fails, Passes,
      FileIOTypeOK
  <2> QED BY Zenon, <1>b, <2>1, <2>2 DEF ModedAt, Sequential, Async
<1>9. CASE FsyncAll(t)
  BY <1>9, <1>b DEF FsyncAll, Fails, ModedAt, Sequential, Async, FileIOTypeOK
<1>21. CASE file_fsync(t)
  BY <1>21, <1>b DEF file_fsync, Fails, Passes, ModedAt, Sequential, Async, FileIOTypeOK
<1>22. CASE file_submit_or_wait(t)
  <2>1. req[t].op \in {"read", "write"}
    BY <1>22, <1>b DEF file_submit_or_wait, Passes, ModedAt, FileIOTypeOK, Requests
  <2>2. flying'[t] = Append(flying[t], req[t]) /\ flying[t] \in Seq(Requests)
    BY <1>22 DEF file_submit_or_wait, FileIOTypeOK
  <2>3. \A i \in 1 .. Len(flying'[t]) : flying'[t][i].op \in {"read", "write"}
    BY SMTT(30), <2>1, <2>2, <1>b DEF ModedAt
  <2>4. Async /\ UNCHANGED <<landed, cfg, req>> /\ pc'[t] \in {"submitted", "wait"}
    BY <1>22 DEF file_submit_or_wait, FileIOTypeOK
  <2> QED BY Zenon, <1>b, <2>3, <2>4 DEF ModedAt, Sequential, Async
<1>23. CASE Submitted(t) \/ WaitFails(t)
  BY Zenon, <1>23, <1>b DEF Submitted, WaitFails, Fails, ModedAt, Sequential, Async, FileIOTypeOK
<1>24. CASE WaitForOne(t)
  BY <1>24, <1>b DEF WaitForOne, Fails, file_wait, ModedAt, Sequential, Async, FileIOTypeOK
<1>25. CASE WaitForAll(t)
  BY <1>25, <1>b DEF WaitForAll, Fails, file_wait, ModedAt, Sequential, Async, FileIOTypeOK
<1>26. CASE ThreadFsync(t) \/ ThreadDone(t)
  BY <1>26, <1>b DEF ThreadFsync, ThreadDone, ModedAt, Sequential, Async, FileIOTypeOK
<1> QED
  BY Zenon, <1>1, <1>2, <1>3, <1>4, <1>5, <1>6, <1>7, <1>8, <1>9, <1>21, <1>22, <1>23, <1>24, <1>25, <1>26
    DEF Step, SeqRequest, RndRequest, Execute

(* An operation that lands leaves the threads where they are.              *)
LEMMA ModedLand ==
  ASSUME NEW t \in Threads, FileIOTypeOK, Moded, Land(t)
  PROVE  Moded'
<1>a. Alone(t) /\ Untouched /\ UNCHANGED pc
  BY LandFrame
<1>b. ModedAt(t)
  BY DEF Moded
<1> SUFFICES ModedAt(t)'
  <2> SUFFICES ASSUME NEW u \in Threads \ {t}  PROVE ModedAt(u)'
    BY DEF Moded
  <2>1. ModedAt(u)
    BY DEF Moded
  <2> QED BY Zenon, <1>a, <2>1 DEF Alone, ModedAt, Sequential, Async
<1>1. PICK i \in 1 .. Len(flying[t]) : flying' = [flying EXCEPT ![t] = Without(@, i)]
  BY Zenon DEF Land
<1>2. Async
  BY <1>b, <1>1, Len(<<>>) = 0 DEF ModedAt
<1>3. \A j \in 1 .. Len(flying'[t]) : flying'[t][j].op \in {"read", "write"}
  <2>1. flying[t] \in Seq(Requests) /\ flying'[t] = Without(flying[t], i)
    BY <1>1 DEF FileIOTypeOK
  <2> SUFFICES ASSUME NEW j \in 1 .. Len(Without(flying[t], i))
               PROVE  Without(flying[t], i)[j].op \in {"read", "write"}
    BY Zenon, <2>1
  <2>2. PICK k \in 1 .. Len(flying[t]) : Without(flying[t], i)[j] = flying[t][k]
    BY <2>1, WithoutOf
  <2> QED BY Zenon, <1>b, <2>2 DEF ModedAt
<1> QED BY Zenon, <1>a, <1>b, <1>2, <1>3 DEF ModedAt, Sequential, Async

----------------------------------------------------------------------------
(* What is not synced yet.                                                 *)

(* The main thread starts and ends a run with nothing unsynced that nobody *)
(* syncs.                                                                  *)
LEMMA SyncedMain == FileIOTypeOK /\ Phased /\ Synced /\ Main => Synced'
<1> SUFFICES ASSUME FileIOTypeOK, Phased, Synced, Main,
                    error' = FALSE, faults' = 0, ~Async', NEW f \in unsynced'
             PROVE  /\ f < cfg'.files
                    /\ SyncsAtEnd' => \E t \in Threads : Syncing(t, f)'
                    /\ cfg'.all = TRUE => \E t \in Threads : pc'[t] = "fsync_all" /\ req'[t].file = f
  BY Zenon DEF Synced
<1>1. UNCHANGED <<cfg, error, req, reg>>
  BY DEF Main, file_cmd_prepare, file_prepare, file_done, file_cmd_cleanup
<1>2. SyncsAtEnd' = SyncsAtEnd
  BY <1>1 DEF SyncsAtEnd, file_fsync_end
<1>3. faults = 0
  BY DEF Main, file_cmd_prepare, file_prepare, file_done, file_cmd_cleanup, FileIOTypeOK
<1>4. ~Async
  BY <1>1 DEF Async
<1>5. CASE f \in unsynced /\ pc' = pc
  BY <1>1, <1>2, <1>3, <1>4, <1>5 DEF Synced, Syncing
<1>6. CASE file_prepare
  <2>1. f \in unsynced /\ (pc' = pc \/ phase \in {"start", "prepared"})
    BY <1>6 DEF file_prepare
  <2>2. CASE phase \in {"start", "prepared"}
    <3>1. \A t \in Threads : pc[t] = "idle"
      BY <2>2 DEF Phased
    <3>2. ~SyncsAtEnd /\ cfg.all # TRUE /\ f < cfg.files
      BY Zenon, <1>1, <1>3, <1>4, <2>1, <3>1 DEF Synced, Syncing
    <3> QED BY Zenon, <1>1, <1>2, <3>2
  <2> QED BY Zenon, <1>5, <2>1, <2>2
<1> QED BY Zenon, <1>5, <1>6 DEF Main, file_cmd_prepare, file_done, file_cmd_cleanup

(* A thread that still runs owes every file a sync.                        *)
Owes(t) ==
  \A f \in unsynced' :
    \/ /\ f \in unsynced
       /\ SyncsAtEnd /\ Syncing(t, f) => Syncing(t, f)'
       /\ pc[t] = "fsync_all" /\ req[t].file = f =>
            pc'[t] = "fsync_all" /\ req'[t].file = f
    \/ /\ f < cfg.files /\ pc'[t] \in {"more", "fsync_all"}
       /\ cfg.all = TRUE => pc'[t] = "fsync_all" /\ req'[t].file = f

(* A step keeps Synced if it dirties no file, or leaves its thread owing a *)
(* sync.                                                                   *)
LEMMA OwesSynced ==
  ASSUME NEW t \in Threads, FileIOTypeOK, Synced, Alone(t), cfg' = cfg,
         error' = FALSE => error = FALSE, faults' = 0 => faults = 0,
         error' = FALSE /\ faults' = 0 /\ ~Async => Owes(t)
  PROVE  Synced'
<1> SUFFICES ASSUME error' = FALSE, faults' = 0, ~Async', NEW f \in unsynced'
             PROVE  /\ f < cfg'.files
                    /\ SyncsAtEnd' => \E s \in Threads : Syncing(s, f)'
                    /\ cfg'.all = TRUE => \E s \in Threads : pc'[s] = "fsync_all" /\ req'[s].file = f
  BY Zenon DEF Synced
<1>1. /\ SyncsAtEnd' = SyncsAtEnd /\ ~Async /\ error = FALSE /\ faults = 0
  BY DEF SyncsAtEnd, file_fsync_end, Async
<1>2. Owes(t)
  BY <1>1
<1>3. CASE /\ f \in unsynced
           /\ SyncsAtEnd /\ Syncing(t, f) => Syncing(t, f)'
           /\ pc[t] = "fsync_all" /\ req[t].file = f => pc'[t] = "fsync_all" /\ req'[t].file = f
  <2>1. f < cfg.files
    BY <1>1, <1>3 DEF Synced
  <2>2. ASSUME SyncsAtEnd  PROVE \E s \in Threads : Syncing(s, f)'
    <3>1. PICK s \in Threads : Syncing(s, f)
      BY <1>1, <1>3, <2>2 DEF Synced
    <3>2. Syncing(s, f)'
      BY <1>3, <2>2, <3>1 DEF Syncing, Alone
    <3> QED BY <3>2
  <2>3. ASSUME cfg.all = TRUE  PROVE \E s \in Threads : pc'[s] = "fsync_all" /\ req'[s].file = f
    <3>1. PICK s \in Threads : pc[s] = "fsync_all" /\ req[s].file = f
      BY Zenon, <1>1, <1>3, <2>3 DEF Synced
    <3> QED BY <1>3, <3>1 DEF Alone
  <2> QED BY Zenon, <1>1, <2>1, <2>2, <2>3
<1>4. CASE /\ f < cfg.files /\ pc'[t] \in {"more", "fsync_all"}
           /\ cfg.all = TRUE => pc'[t] = "fsync_all" /\ req'[t].file = f
  BY <1>1, <1>4 DEF Syncing
<1> QED BY Zenon, <1>2, <1>3, <1>4 DEF Owes

(* A thread's step keeps Synced.                                           *)
LEMMA SyncedStep ==
  ASSUME NEW t \in Threads, FileIOTypeOK, Phased, Moded, Synced, Step(t)
  PROVE  Synced'
<1>a. Framed(t)
  BY StepFrame
<1>b. ModedAt(t)
  BY DEF Moded
<1> SUFFICES ASSUME error' = FALSE, faults' = 0, ~Async  PROVE Owes(t)
  BY Zenon, <1>a, OwesSynced DEF Framed
<1>c. \A f \in unsynced : f \in Nat /\ f < cfg.files
  BY <1>a DEF Framed, Synced, FileIOTypeOK
<1>1. CASE NextEvent(t)
  <2>1. unsynced' = unsynced /\ pc[t] = "more" /\ pc'[t] \notin {"idle", "over"}
        /\ (pc'[t] = "ending" => reg'[t] = 0)
    BY <1>1 DEF NextEvent, FileIOTypeOK
  <2> QED BY <2>1, <1>c DEF Owes, Syncing
<1>2. CASE SeqRequest(t) \/ RndRequest(t)
  <2>1. unsynced' = unsynced
    BY <1>2, GenFrame
  <2>2. pc[t] \notin {"fsync_all", "ending"} /\ pc'[t] \notin {"idle", "over", "ending"}
    BY <1>2 DEF SeqRequest, RndRequest, SeqFsync, SeqBlock, RndStart, RndDue, RndSync, RndBump,
           RndWrap, RndClean, RndPick, RndClaim, RndClaimPos, RndCount, RndMark, FileIOTypeOK
  <2> QED BY Zenon, <2>1, <2>2 DEF Owes, Syncing
<1>3. CASE RequestRefused(t) \/ RequestAstray(t) \/ IoFault(t) \/ Submitted(t)
  BY <1>3 DEF RequestRefused, RequestAstray, IoFault, Submitted, Fails, Passes, Owes, Syncing,
    FileIOTypeOK
<1>18. CASE file_pread(t)
  BY <1>18 DEF file_pread, Fails, Passes, Owes, Syncing, FileIOTypeOK
<1>19. CASE file_pwrite(t)
  BY <1>19 DEF file_pwrite, Passes, Owes, Syncing, FileIOTypeOK
<1>20. CASE FsyncAll(t)
  BY <1>20 DEF FsyncAll, Fails, Owes, Syncing, FileIOTypeOK
<1>21. CASE file_fsync(t)
  BY <1>21 DEF file_fsync, Passes, Owes, Syncing, FileIOTypeOK
<1>22. CASE file_submit_or_wait(t) \/ WaitForOne(t) \/ WaitForAll(t) \/ WaitFails(t)
  BY Zenon, <1>22, <1>b DEF file_submit_or_wait, WaitForOne, WaitForAll, WaitFails, ModedAt
<1>26. CASE ThreadFsync(t)
  <2>1. CASE /\ unsynced' = unsynced \ {reg[t]} /\ UNCHANGED pc
    <3>1. reg[t] \in Nat /\ reg'[t] = reg[t] + 1 /\ pc[t] = "ending"
      BY <1>26 DEF ThreadFsync, FileIOTypeOK
    <3>2. ASSUME NEW f \in unsynced', reg[t] <= f  PROVE reg'[t] <= f
      BY SMTT(30), <1>c, <2>1, <3>1, <3>2
    <3> QED BY Zenon, <2>1, <3>1, <3>2 DEF Owes, Syncing
  <2>2. CASE faults' = faults + 1
    BY <2>2 DEF FileIOTypeOK
  <2> QED BY Zenon, <1>26, <2>1, <2>2 DEF ThreadFsync
<1>27. CASE ThreadDone(t)
  <2>1. cfg.files \in Int /\ reg[t] \in Nat
    BY FileIOAssumption DEF FileIOTypeOK
  <2>2. ASSUME SyncsAtEnd, NEW f \in unsynced  PROVE ~ (reg[t] <= f)
    BY <1>27, <1>c, <2>1, <2>2 DEF ThreadDone, LastSynced
  <2>3. pc[t] = "ending" /\ unsynced' = unsynced
    BY <1>27 DEF ThreadDone
  <2> QED BY <2>2, <2>3 DEF Owes, Syncing
<1> QED
  BY Zenon, <1>1, <1>2, <1>3, <1>18, <1>19, <1>20, <1>21, <1>22, <1>26, <1>27
    DEF Step, Execute

(* An operation that lands is asynchronous.                                *)
LEMMA SyncedLand ==
  ASSUME NEW t \in Threads, FileIOTypeOK, Moded, Synced, Land(t)
  PROVE  Synced'
<1>1. PICK i \in 1 .. Len(flying[t]) : TRUE
  BY Zenon DEF Land
<1>2. Async
  BY SMTT(30), <1>1, Len(<<>>) = 0 DEF Moded, ModedAt
<1>3. cfg' = cfg
  BY LandFrame
<1> QED BY <1>2, <1>3 DEF Synced, Async

----------------------------------------------------------------------------
(* The writes between two series of fsyncs.                                *)

(* Only the generators change the state of the request generator.          *)
LEMMA GenVarsFrame ==
  ASSUME Next
  PROVE  \/ UNCHANGED genVars /\ cfg' = cfg /\ warned' = warned
         \/ \E t \in Threads : SeqRequest(t) \/ RndRequest(t)
<1>1. CASE Main
  BY <1>1 DEF Main, file_cmd_prepare, file_prepare, file_done, file_cmd_cleanup
<1>2. ASSUME NEW t \in Threads, Land(t)  PROVE UNCHANGED genVars /\ cfg' = cfg /\ warned' = warned
  BY <1>2 DEF Land
<1>3. ASSUME NEW t \in Threads, NextEvent(t)  PROVE UNCHANGED genVars /\ cfg' = cfg /\ warned' = warned
  BY <1>3 DEF NextEvent
<1>4. ASSUME NEW t \in Threads, Execute(t) \/ ThreadFsync(t) \/ ThreadDone(t) \/ WaitForAll(t)
      PROVE  UNCHANGED genVars /\ cfg' = cfg /\ warned' = warned
  BY <1>4, IoFrame
<1> QED BY <1>1, <1>2, <1>3, <1>4 DEF Next, Step

(* The counter's next value modulo the frequency.                          *)
LEMMA NextRemainder ==
  ASSUME NEW r \in Nat, NEW f \in Nat \ {0}
  PROVE  /\ r % f \in 0 .. f - 1
         /\ (r + 1) % f = IF (r % f) + 1 = f THEN 0 ELSE (r % f) + 1
<1> DEFINE q == r \div f
           m == r % f
           p == (r + 1) \div f
           n == (r + 1) % f
<1>1. q \in Nat /\ m \in 0 .. f - 1 /\ r = f * q + m
  BY Zenon, DivMod
<1>0. r + 1 \in Nat
  OBVIOUS
<1>2. p \in Nat /\ n \in 0 .. f - 1 /\ r + 1 = f * p + n
  BY Zenon, <1>0, DivMod
<1> HIDE DEF q, m, p, n
<1>3. f * q \in Nat /\ f * p \in Nat
  BY <1>1, <1>2
<1>4. CASE p < q
  <2>1. f * p + f <= f * q
    BY <1>1, <1>2, <1>4, Product
  <2> QED BY <1>1, <1>2, <1>3, <2>1
<1>5. CASE p = q
  BY <1>1, <1>2, <1>3, <1>5
<1>6. CASE p > q
  <2>1. f * q + f <= f * p
    BY <1>1, <1>2, <1>6, Product
  <2>2. m + 1 = f /\ n = 0
    BY <1>1, <1>2, <1>3, <2>1
  <2> QED BY <1>1, <2>2 DEF m, n
<1>7. m \in 0 .. f - 1 /\ n = IF m + 1 = f THEN 0 ELSE m + 1
  BY <1>1, <1>2, <1>4, <1>5, <1>6
<1> QED BY <1>7 DEF m, n

(* Every step keeps the bound on the writes between two series of fsyncs.  *)
LEMMA FreshnessStep ==
  ASSUME FileIOTypeOK, Moded, Freshness, [Next]_vars
  PROVE  Freshness'
<1>0. CASE UNCHANGED genVars /\ cfg' = cfg
  BY <1>0 DEF Freshness, Due, Valid, Sequential, file_fsync_freq
<1> SUFFICES ASSUME NEW t \in Threads, SeqRequest(t) \/ RndRequest(t),
                    (Valid /\ Sequential /\ file_fsync_freq # 0)'
             PROVE  Freshness'
  BY <1>0, GenVarsFrame DEF vars, Freshness
<1>1. cfg' = cfg
  BY GenFrame
<1>2. Valid /\ Sequential /\ file_fsync_freq # 0 /\ file_fsync_freq' = file_fsync_freq
  BY <1>1 DEF Valid, Sequential, file_fsync_freq
<1>3. SeqRequest(t)
  BY <1>2 DEF RndRequest, RndStart, RndDue, RndSync, RndBump, RndWrap, RndClean, RndPick, RndClaim,
              RndClaimPos, RndCount, RndMark, Moded, ModedAt
<1> DEFINE f == file_fsync_freq
<1>4. f \in Nat \ {0} /\ cfg.files \in Nat \ {0} /\ CounterMod \in Nat \ {0}
  BY <1>2, Sizes, FileIOAssumption DEF FileIOTypeOK
<1>5. /\ req_performed < CounterMod /\ fsynced_file < cfg.files
      /\ is_dirty = 0 => since = 0
      /\ is_dirty = 1 => since <= Due
      /\ cfg.mode = "seqrd" => is_dirty = 0
  BY <1>2 DEF Freshness
<1>6. CASE SeqFsync(t)
  <2>1. fsynced_file \in Nat /\ fsynced_file < cfg.files
    BY <1>5 DEF FileIOTypeOK
  <2>2. SeriesOver(fsynced_file) <=> fsynced_file = cfg.files - 1
    BY <1>4, <2>1 DEF SeriesOver
  <2>3. req_performed' = req_performed /\ cfg.mode # "seqrd" /\ Due' = Due
    BY <1>1, <1>6 DEF SeqFsync, Due, file_fsync_freq
  <2>4. \/ is_dirty' = 0 /\ since' = 0
        \/ is_dirty' = is_dirty /\ since' = since
    BY <1>6, <2>2 DEF SeqFsync
  <2>5. fsynced_file' < cfg.files
    BY <1>4, <1>6, <2>1, <2>2 DEF SeqFsync
  <2> QED BY <1>1, <1>5, <2>3, <2>4, <2>5 DEF Freshness
<1>7. CASE SeqBlock(t)
  <2> DEFINE m == req_performed % f
             n == req_performed' % f
  <2>1. /\ req_performed' = (req_performed + 1) % CounterMod /\ fsynced_file' = fsynced_file
        /\ ~(cfg.mode # "seqrd" /\ is_dirty = 1 /\ m = 0)
        /\ cfg.mode # "seqrd" => is_dirty' = 1 /\ since' = since + 1
        /\ cfg.mode = "seqrd" => is_dirty' = is_dirty /\ since' = since
    BY <1>2, <1>7 DEF SeqBlock
  <2>2. req_performed \in Nat /\ since \in Nat /\ is_dirty \in {0, 1}
    BY DEF FileIOTypeOK
  <2>3. m \in 0 .. f - 1 /\ (req_performed + 1) % f = IF m + 1 = f THEN 0 ELSE m + 1
    BY Zenon, <1>4, <2>2, NextRemainder
  <2>4. req_performed' = IF req_performed + 1 = CounterMod THEN 0 ELSE req_performed + 1
    <3>1. req_performed % CounterMod = req_performed
      BY <1>4, <1>5, <2>2, SmallMod
    <3>2. (req_performed + 1) % CounterMod
            = IF (req_performed % CounterMod) + 1 = CounterMod THEN 0 ELSE (req_performed % CounterMod) + 1
      BY Zenon, <1>4, <2>2, NextRemainder
    <3> QED BY <2>1, <3>1, <3>2
  <2>5. req_performed' \in Nat /\ req_performed' < CounterMod
    BY <1>4, <1>5, <2>2, <2>4
  <2>6. n \in {0, m + 1}
    <3>1. 0 % f = 0
      BY <1>4, SmallMod
    <3> QED BY <2>3, <2>4, <3>1
  <2>7. Due = (IF m = 0 THEN f ELSE m) /\ Due' = (IF n = 0 THEN f ELSE n)
    BY <1>2 DEF Due
  <2> HIDE DEF m, n, f
  <2>8. CASE cfg.mode = "seqrd"
    BY <1>1, <1>5, <2>1, <2>5, <2>8 DEF Freshness
  <2>9. CASE cfg.mode # "seqrd"
    <3>1. since' <= Due'
      BY <1>4, <1>5, <2>1, <2>2, <2>3, <2>6, <2>7, <2>9
    <3>2. is_dirty' = 1 /\ is_dirty' # 0 /\ fsynced_file' < cfg'.files
      BY <1>1, <1>5, <2>1, <2>9
    <3>3. cfg'.mode # "seqrd" /\ req_performed' < CounterMod
      BY Zenon, <1>1, <2>5, <2>9
    <3> QED BY Zenon, <3>1, <3>2, <3>3 DEF Freshness
  <2> QED BY <2>8, <2>9
<1> QED BY <1>3, <1>6, <1>7 DEF SeqRequest

----------------------------------------------------------------------------
(* The theorems.                                                           *)

(* The invariant holds at the start.                                       *)
LEMMA FileIOStarts == Init => FileIOInv
<1> SUFFICES ASSUME Init  PROVE FileIOInv
  OBVIOUS
<1>1. FileIOTypeOK
  <2>1. <<>> \in Seq(Requests) /\ <<>> \in Seq(Results) /\ NoReq \in Requests
    BY DEF NoReq, Requests
  <2>2. [read |-> 0, write |-> 0, fsync |-> 0] \in Tallies
    BY DEF Tallies
  <2>3. /\ flying \in [Threads -> Seq(Requests)] /\ landed \in [Threads -> Seq(Results)]
        /\ req \in [Threads -> Requests] /\ counts \in [Threads -> Tallies]
    BY Zenon, <2>1, <2>2 DEF Init
  <2>4. /\ pc \in [Threads -> Places] /\ reg \in [Threads -> Nat] /\ executed \in [Threads -> Nat]
        /\ phase \in Phases
    BY DEF Init
  <2>5. /\ faults \in Nat /\ fsynced_file \in Nat /\ current_file \in Nat /\ position \in Int
        /\ req_performed \in Nat /\ since \in Nat /\ is_dirty \in {0, 1} /\ unsynced \subseteq Nat
    BY DEF Init
  <2>6. cfg \in Configs /\ error \in BOOLEAN
    BY Zenon DEF Init
  <2> QED BY Zenon, <2>3, <2>4, <2>5, <2>6 DEF FileIOTypeOK
<1>2. Phased
  BY DEF Init, Phased
<1>3. Moded
  <2> SUFFICES ASSUME NEW t \in Threads  PROVE ModedAt(t)
    BY DEF Moded
  <2>1. pc[t] = "idle" /\ req[t].op = "null" /\ flying[t] = <<>> /\ landed[t] = <<>>
    BY DEF Init, NoReq
  <2> QED BY <2>1, Len(<<>>) = 0 DEF ModedAt
<1>4. Synced
  BY DEF Init, Synced
<1>5. Freshness
  BY FileIOAssumption, Sizes DEF Init, Freshness
<1> QED BY <1>1, <1>2, <1>3, <1>4, <1>5 DEF FileIOInv

(* Every step keeps the invariant.                                         *)
LEMMA FileIOSteps == FileIOInv /\ [Next]_vars => FileIOInv'
<1> SUFFICES ASSUME FileIOInv, [Next]_vars  PROVE FileIOInv'
  OBVIOUS
<1>0. FileIOTypeOK /\ Phased /\ Moded /\ Synced /\ Freshness
  BY DEF FileIOInv
<1>1. FileIOTypeOK' /\ Phased' /\ Moded' /\ Synced'
  <2>1. CASE Main
    BY Zenon, <1>0, <2>1, TypeOfMain, PhasedMain, ModedMain, SyncedMain
  <2>2. ASSUME NEW t \in Threads, Step(t)
        PROVE  FileIOTypeOK' /\ Phased' /\ Moded' /\ Synced'
    BY Zenon, <1>0, <2>2, TypeOfStep, PhasedStep, ModedStep, SyncedStep
  <2>3. ASSUME NEW t \in Threads, Land(t)
        PROVE  FileIOTypeOK' /\ Phased' /\ Moded' /\ Synced'
    BY Zenon, <1>0, <2>3, TypeOfLand, PhasedLand, ModedLand, SyncedLand
  <2>4. CASE UNCHANGED vars
    <3> USE <1>0, <2>4 DEF vars, Valid, Files, Active, Sequential, Async, file_size
    <3>1. FileIOTypeOK'
      BY Zenon DEF FileIOTypeOK
    <3>2. Phased'
      BY Zenon DEF Phased
    <3>3. Moded'
      BY Zenon DEF Moded, ModedAt
    <3>4. Synced'
      BY Zenon DEF Synced, Syncing, SyncsAtEnd, file_fsync_end
    <3> QED BY Zenon, <3>1, <3>2, <3>3, <3>4
  <2> QED BY Zenon, <2>1, <2>2, <2>3, <2>4 DEF Next
<1>2. Freshness'
  BY Zenon, <1>0, FreshnessStep
<1> QED BY Zenon, <1>1, <1>2 DEF FileIOInv

(* It holds throughout.                                                    *)
LEMMA FileIOInvariant == Spec => []FileIOInv
BY FileIOStarts, FileIOSteps, PTL DEF Spec

(* After a run without a failure whose options ask for an fsync() at the   *)
(* end or after each write, file_thread_done() and file_fsync() have left  *)
(* no file with unsynced data, for any number of threads and files.        *)
THEOREM SyncedAtTheEnd == Spec => []EndSynced
<1>1. FileIOInv => EndSynced
  <2> SUFFICES ASSUME FileIOInv, phase = "finished", error = FALSE, faults = 0, ~Async,
                      SyncsAtEnd \/ cfg.all = TRUE, NEW f \in unsynced
               PROVE  FALSE
    BY Zenon, FileIOAssumption DEF EndSynced, FileIOInv, FileIOTypeOK
  <2>1. \A t \in Threads : pc[t] = "over"
    BY DEF FileIOInv, Phased
  <2> QED BY <2>1 DEF FileIOInv, Synced, Syncing
<1> QED BY <1>1, FileIOInvariant, PTL

(* file_get_seq_request() never lets more than --file-fsync-freq writes    *)
(* pass between two series of fsyncs, also when its counter wraps.         *)
THEOREM FsyncsAreFrequent == Spec => []FsyncOften
<1>1. FileIOInv => FsyncOften
  <2> SUFFICES ASSUME FileIOInv, Valid, Sequential, file_fsync_freq # 0
               PROVE  since <= file_fsync_freq
    BY DEF FsyncOften
  <2>1. /\ file_fsync_freq \in Nat \ {0} /\ req_performed \in Nat /\ since \in Nat
        /\ is_dirty = 0 => since = 0
        /\ is_dirty = 1 => since <= Due
        /\ is_dirty \in {0, 1}
    BY Sizes DEF FileIOInv, FileIOTypeOK, Freshness
  <2>2. req_performed % file_fsync_freq \in 0 .. file_fsync_freq - 1
    BY <2>1, DivMod
  <2> QED BY <2>1, <2>2 DEF Due
<1> QED BY <1>1, FileIOInvariant, PTL

=============================================================================
