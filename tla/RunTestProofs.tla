--------------------------- MODULE RunTestProofs ---------------------------
(***************************************************************************)
(* The safety properties of RunTest, for any number of workers, any        *)
(* options and any faults.                                                 *)
(*  - SuccessIsReal and SilencedBeforeFinal need what the main thread has  *)
(*    established by the time it is past a join or a cancellation (RunInv).*)
(*  - MeasuredBound needs in addition how many events can be granted       *)
(*    between the warmup checkpoint and the end (StatsInv).                *)
(*  - ReportsAddUp needs that last_cumulative_counters is what has been    *)
(*    reported or discarded (Aggregated), which every step keeps as long   *)
(*    as two aggregations do not overlap.                                  *)
(***************************************************************************)
EXTENDS RunTest, FiniteSetTheorems, TLAPS

(* Where the threads are, the error flag and the outcomes of the barrier.  *)
RunTypeOK ==
  /\ pc = [u \in Threads |-> pc[u]] /\ error \in {0, 1}
  /\ wOut \in [WThreads -> {-1, 0, 1}]

(* A worker gives up, and worker_barrier turns a thread away, only when    *)
(* an error is set.                                                        *)
FailureInv ==
  /\ \A w \in Workers : pc[w] \in {"failed", "aborted"} => error # 0
  /\ \A t \in WThreads : wOut[t] = -1 => error # 0

Cancelling == {"cancel_rep", "cancel_gen", "cancel_cp"}
Ending == {"final", "fload", "fstore", "return"}

(* Behind the join all workers have ended and reports are silenced.        *)
JoinedInv ==
  pc["main"] \in Cancelling \cup Ending =>
    reporting = FALSE /\ \A w \in Workers : pc[w] \in {"done", "aborted"}

(* A reports thread in its loop has set its flag, so it is cancelled; one  *)
(* that comes later finds the reports silenced.                            *)
SilentInv ==
  /\ pc["rep"] \in {"sleep", "print"} => "rep" \in created
  /\ pc["main"] \in Ending \cup {"cancel_gen", "cancel_cp"} => pc["rep"] # "print"

RunInv == RunTypeOK /\ FailureInv /\ JoinedInv /\ SilentInv /\ SuccessIsReal

----------------------------------------------------------------------------
(* The names of the threads.                                               *)
LEMMA Names ==
  /\ "main" \in Threads /\ "rep" \in Threads /\ Background \subseteq Threads
  /\ Workers \subseteq Threads /\ Workers \cap ({"main"} \cup Background) = {}
BY ConfigAssumption DEF Threads, Background

(* The threads of worker_barrier depend on the options only.               *)
LEMMA WThreadsStay == ASSUME UNCHANGED options PROVE WThreads' = WThreads
BY DEF WThreads, Rate

(* The main thread moves on, and has what its new place stands for.        *)
MainMove(there) ==
  /\ UNCHANGED <<options, error, wOut, created>> /\ ret' # 0
  /\ pc' = [pc EXCEPT !["main"] = there]
  /\ there \in Cancelling \cup Ending =>
       reporting' = FALSE /\ \A w \in Workers : pc[w] \in {"done", "aborted"}
  /\ there \in Ending \cup {"cancel_gen", "cancel_cp"} => pc["rep"] # "print"

(* A move of the main thread keeps RunInv.                                 *)
LEMMA MainMoves == ASSUME RunInv, NEW there, MainMove(there) PROVE RunInv'
<1> USE DEF MainMove
<1>1. pc = [u \in Threads |-> pc[u]] BY DEF RunInv, RunTypeOK
<1>2. /\ pc'["main"] = there /\ pc'["rep"] = pc["rep"]
      /\ \A w \in Workers : pc'[w] = pc[w]
  BY <1>1, Names
<1>3. RunTypeOK' BY <1>1, Names, WThreadsStay DEF RunInv, RunTypeOK
<1>4. FailureInv' BY <1>2, WThreadsStay DEF RunInv, FailureInv
<1>5. JoinedInv' BY <1>2 DEF JoinedInv
<1>6. SilentInv' BY <1>2 DEF RunInv, SilentInv
<1>7. SuccessIsReal' BY DEF SuccessIsReal
<1> QED BY <1>3, <1>4, <1>5, <1>6, <1>7 DEF RunInv

(* A worker that has not ended moves on; it gives up only with an error.   *)
WorkerMove(w, there) ==
  /\ UNCHANGED <<options, wOut, created, reporting>> /\ ret' # 0
  /\ pc' = [pc EXCEPT ![w] = there]
  /\ pc[w] \notin {"done", "aborted"}
  /\ error' = error \/ error' = 1
  /\ there \in {"failed", "aborted"} => error' # 0

(* A move of a worker keeps RunInv.                                        *)
LEMMA WorkerMoves ==
  ASSUME RunInv, NEW w \in Workers, NEW there, WorkerMove(w, there) PROVE RunInv'
<1> USE DEF WorkerMove
<1>1. pc = [u \in Threads |-> pc[u]] BY DEF RunInv, RunTypeOK
<1>2. /\ pc'["main"] = pc["main"] /\ pc'["rep"] = pc["rep"] /\ pc'[w] = there
      /\ \A v \in Workers : v # w => pc'[v] = pc[v]
  BY <1>1, Names DEF Background
<1>3. RunTypeOK' BY <1>1, Names, WThreadsStay DEF RunInv, RunTypeOK
<1>4. FailureInv' BY <1>2, WThreadsStay DEF RunInv, FailureInv
<1>5. JoinedInv' BY <1>2 DEF RunInv, JoinedInv
<1>6. SilentInv' BY <1>2 DEF RunInv, SilentInv
<1>7. SuccessIsReal' BY DEF SuccessIsReal
<1> QED BY <1>3, <1>4, <1>5, <1>6, <1>7 DEF RunInv

(* A background thread moves on; the reports thread prints only when it    *)
(* has set its flag and reports are not silenced.                          *)
BackgroundMove(t, there) ==
  /\ UNCHANGED <<options, wOut, reporting>> /\ ret' # 0
  /\ pc' = [pc EXCEPT ![t] = there]
  /\ created \subseteq created' /\ (error' = error \/ error' = 1)
  /\ t = "rep" /\ there \in {"sleep", "print"} => "rep" \in created'
  /\ t = "rep" /\ there = "print" => reporting # FALSE

(* A move of a background thread keeps RunInv.                             *)
LEMMA BackgroundMoves ==
  ASSUME RunInv, NEW t \in Background, NEW there, BackgroundMove(t, there) PROVE RunInv'
<1> USE DEF BackgroundMove
<1>1. pc = [u \in Threads |-> pc[u]] BY DEF RunInv, RunTypeOK
<1>2. /\ pc'["main"] = pc["main"] /\ \A w \in Workers : pc'[w] = pc[w]
      /\ pc'["rep"] = IF t = "rep" THEN there ELSE pc["rep"]
  BY <1>1, Names DEF Background
<1>3. RunTypeOK' BY <1>1, Names, WThreadsStay DEF RunInv, RunTypeOK
<1>4. FailureInv' BY <1>2, WThreadsStay DEF RunInv, FailureInv
<1>5. JoinedInv' BY <1>2 DEF RunInv, JoinedInv
<1>6. SilentInv' BY Zenon, <1>2 DEF RunInv, JoinedInv, SilentInv, Cancelling
<1>7. SuccessIsReal' BY DEF SuccessIsReal
<1> QED BY <1>3, <1>4, <1>5, <1>6, <1>7 DEF RunInv

(* Nobody moves.                                                           *)
LEMMA NobodyMoves ==
  ASSUME RunInv, UNCHANGED <<options, pc, wOut, created, reporting, error, ret>>
  PROVE  RunInv'
<1>1. RunTypeOK' BY WThreadsStay DEF RunInv, RunTypeOK, Threads
<1>2. FailureInv' BY WThreadsStay DEF RunInv, FailureInv
<1>3. JoinedInv' /\ SilentInv' BY DEF RunInv, JoinedInv, SilentInv
<1>4. SuccessIsReal' BY DEF RunInv, SuccessIsReal
<1> QED BY <1>1, <1>2, <1>3, <1>4 DEF RunInv

(* RunInv at the start.                                                    *)
LEMMA InitInv == Init => RunInv
<1> SUFFICES ASSUME Init PROVE RunInv OBVIOUS
<1>1. pc = [u \in Threads |-> pc[u]] /\ pc["main"] = "create" /\ pc["rep"] = "none"
      /\ \A w \in Workers : pc[w] = "none"
  <2>1. pc = [t \in Threads |-> IF t = "main" THEN "create" ELSE "none"] BY DEF Init
  <2>2. \A w \in Workers : w \in Threads /\ w # "main" BY Names
  <2> QED BY <2>1, <2>2, Names
<1>2. wOut = [t \in WThreads |-> 0] /\ error = 0 BY DEF Init, WB!AbsInit
<1>3. RunTypeOK BY <1>1, <1>2 DEF RunTypeOK
<1>4. FailureInv BY <1>1, <1>2 DEF FailureInv
<1>5. JoinedInv BY <1>1 DEF JoinedInv, Cancelling, Ending
<1>6. SilentInv BY <1>1 DEF SilentInv, Ending
<1>7. SuccessIsReal BY DEF Init, SuccessIsReal, NoStatus
<1> QED BY <1>3, <1>4, <1>5, <1>6, <1>7 DEF RunInv

----------------------------------------------------------------------------
(* The main thread cancels a background thread and waits for its end.      *)
CancelMove(t, next) ==
  /\ UNCHANGED <<options, error, wOut, created, reporting, ret>> /\ ret # 0
  /\ next \in {"cancel_gen", "cancel_cp", "final"}
  /\ pc["main"] \in Cancelling /\ (t = "rep" \/ pc["rep"] # "print")
  /\ pc' = [pc EXCEPT !["main"] = next, ![t] = "done"]

(* A cancellation keeps RunInv.                                            *)
LEMMA CancelMoves ==
  ASSUME RunInv, NEW t \in Background, NEW next, CancelMove(t, next) PROVE RunInv'
<1> USE DEF CancelMove
<1>1. pc = [u \in Threads |-> pc[u]] BY DEF RunInv, RunTypeOK
<1>2. t \in Threads /\ t # "main" BY Names DEF Background
<1>3. pc' = [u \in Threads |-> pc'[u]] BY Zenon, <1>1, <1>2, Names
<1>4. pc'["rep"] = IF t = "rep" THEN "done" ELSE pc["rep"] BY <1>1, <1>2, Names
<1>5. ASSUME NEW w \in Workers PROVE pc'[w] = pc[w]
  <2>1. w \in Threads /\ w # "main" /\ w # t BY Names
  <2> QED BY <1>1, <2>1
<1>6. RunTypeOK' BY <1>3, WThreadsStay DEF RunInv, RunTypeOK, Threads
<1>7. FailureInv' BY Zenon, <1>5, WThreadsStay DEF RunInv, FailureInv
<1>8. JoinedInv' BY Zenon, <1>5 DEF RunInv, JoinedInv
<1>9. SilentInv' BY <1>4 DEF RunInv, SilentInv
<1>10. SuccessIsReal' BY DEF SuccessIsReal
<1> QED BY <1>6, <1>7, <1>8, <1>9, <1>10 DEF RunInv

(* The exit status is 0 only behind the join and without an error, and a   *)
(* worker that has given up would have set one.                            *)
LEMMA ReturnKeeps == ASSUME RunInv, Return PROVE RunInv'
<1>1. pc = [u \in Threads |-> pc[u]] BY DEF RunInv, RunTypeOK
<1>2. pc' = [pc EXCEPT !["main"] = "exit"] BY DEF Return, Exit, Goto
<1>3. /\ pc' = [u \in Threads |-> pc'[u]] /\ pc'["main"] = "exit" /\ pc'["rep"] = pc["rep"]
      /\ \A w \in Workers : pc'[w] = pc[w]
  BY <1>1, <1>2, Names
<1>4. UNCHANGED <<options, error, wOut, created, reporting>> BY DEF Return, wBarrier
<1>5. RunTypeOK' BY <1>3, <1>4, WThreadsStay DEF RunInv, RunTypeOK, Threads
<1>6. FailureInv' BY <1>3, <1>4, WThreadsStay DEF RunInv, FailureInv
<1>7. JoinedInv' BY <1>3 DEF JoinedInv, Cancelling, Ending
<1>8. SilentInv' BY <1>3, <1>4 DEF RunInv, SilentInv, Ending
<1>9. SuccessIsReal'
  <2> SUFFICES ASSUME ret' = 0 PROVE error = 0 /\ \A w \in Workers : pc[w] = "done"
    BY <1>3, <1>4 DEF SuccessIsReal
  <2>1. error = 0 BY DEF Return, Exit
  <2>2. pc["main"] \in Ending BY DEF Return, At, Ending
  <2> QED BY <2>1, <2>2 DEF RunInv, JoinedInv, FailureInv
<1> QED BY <1>5, <1>6, <1>7, <1>8, <1>9 DEF RunInv

(* Every step of run_test() keeps RunInv.                                  *)
LEMMA MainKeeps == ASSUME RunInv, MainStep \/ CreateFails \/ CleanupFails \/ InitTimeout
                   PROVE  RunInv'
<1> USE DEF Alive, NoStatus, At, Goto, wBarrier, Cancelling, Ending
<1>1. ASSUME NEW t \in Started, CreateThread(t) PROVE RunInv'
  <2>1. t \in Workers \/ t \in Background BY DEF Started, Background
  <2>2. WorkerMove(t, "init") /\ BackgroundMove(t, "init")
    BY <1>1 DEF CreateThread, WorkerMove, BackgroundMove
  <2> QED BY <2>1, <2>2, WorkerMoves, BackgroundMoves
<1>2. CASE StartWarmup
  <2>1. MainMove("arrive") BY <1>2 DEF StartWarmup, MainMove
  <2> QED BY <2>1, MainMoves
<1>3. CASE MainArrive
  <2>1. MainMove("wbarrier") BY <1>3 DEF MainArrive, WB!Arrive, MainMove
  <2> QED BY <2>1, MainMoves
<1>4. CASE MainLeave
  <2>1. UNCHANGED <<options, error, wOut, created>>
    BY <1>4 DEF MainLeave, WB!Leave
  <2>2. ret' # 0 BY <1>4 DEF MainLeave, Exit
  <2>3. Goto("main", "exit") \/ Goto("main", "warmup") \/ Goto("main", "rarrive")
    BY <1>4 DEF MainLeave, Exit
  <2>4. MainMove("exit") \/ MainMove("warmup") \/ MainMove("rarrive")
    BY <2>1, <2>2, <2>3 DEF MainMove
  <2> QED BY <2>4, MainMoves
<1>5. CASE EndWarmup
  <2>1. MainMove("wmerge") BY <1>5 DEF EndWarmup, MainMove
  <2> QED BY <2>1, MainMoves
<1>6. CASE WarmupCheckpoint
  <2>1. Goto("main", "wload") \/ Goto("main", "wstore") \/ Goto("main", "rarrive")
    BY <1>6 DEF WarmupCheckpoint, AggMerge, AggLoad, AggStore
  <2>2. ret' # 0 /\ UNCHANGED <<options, error, wOut, created>>
    BY <1>6 DEF WarmupCheckpoint
  <2>3. MainMove("wload") \/ MainMove("wstore") \/ MainMove("rarrive")
    BY <2>1, <2>2 DEF MainMove
  <2> QED BY <2>3, MainMoves
<1>7. CASE MainReportArrive
  <2>1. MainMove("rbarrier") BY <1>7 DEF MainReportArrive, MainMove
  <2> QED BY <2>1, MainMoves
<1>8. CASE MainReportLeave
  <2>1. MainMove("join") BY <1>8 DEF MainReportLeave, MainMove
  <2> QED BY <2>1, MainMoves
<1>9. CASE JoinWorkers
  <2>1. MainMove("cancel_rep") BY <1>9 DEF JoinWorkers, MainMove
  <2> QED BY <2>1, MainMoves
<1>10. CASE CancelThreads
  <2>1. CASE Cancel("rep", "cancel_rep", "cancel_gen")
    <3>1. CASE "rep" \notin created
      <4>1. MainMove("cancel_gen")
        BY <2>1, <3>1 DEF Cancel, MainMove, RunInv, JoinedInv, SilentInv
      <4> QED BY <4>1, MainMoves
    <3>2. CASE "rep" \in created
      <4>1. CancelMove("rep", "cancel_gen")
        BY <2>1, <3>2 DEF Cancel, CancelMove, RunInv, SilentInv
      <4> QED BY <4>1, CancelMoves DEF Background
    <3> QED BY <3>1, <3>2
  <2>2. CASE Cancel("gen", "cancel_gen", "cancel_cp")
    <3>1. CASE "gen" \notin created
      <4>1. MainMove("cancel_cp")
        BY <2>2, <3>1 DEF Cancel, MainMove, RunInv, JoinedInv, SilentInv
      <4> QED BY <4>1, MainMoves
    <3>2. CASE "gen" \in created
      <4>1. CancelMove("gen", "cancel_cp")
        BY <2>2, <3>2 DEF Cancel, CancelMove, RunInv, SilentInv
      <4> QED BY <4>1, CancelMoves DEF Background
    <3> QED BY <3>1, <3>2
  <2>3. CASE Cancel("cp", "cancel_cp", "final")
    <3>1. CASE "cp" \notin created
      <4>1. MainMove("final")
        BY <2>3, <3>1 DEF Cancel, MainMove, RunInv, JoinedInv, SilentInv
      <4> QED BY <4>1, MainMoves
    <3>2. CASE "cp" \in created
      <4>1. CancelMove("cp", "final")
        BY <2>3, <3>2 DEF Cancel, CancelMove, RunInv, SilentInv
      <4> QED BY <4>1, CancelMoves DEF Background
    <3> QED BY <3>1, <3>2
  <2> QED BY <1>10, <2>1, <2>2, <2>3 DEF CancelThreads
<1>11. CASE FinalReport
  <2>1. Goto("main", "fload") \/ Goto("main", "fstore") \/ Goto("main", "return")
    BY <1>11 DEF FinalReport, AggMerge, AggLoad, AggStore
  <2>2. ret' # 0 /\ UNCHANGED <<options, error, wOut, created, reporting>>
    BY <1>11 DEF FinalReport
  <2>3. pc["main"] \in Ending BY <1>11 DEF FinalReport
  <2>4. /\ reporting = FALSE /\ pc["rep"] # "print"
        /\ \A w \in Workers : pc[w] \in {"done", "aborted"}
    BY <2>3 DEF RunInv, JoinedInv, SilentInv
  <2>5. MainMove("fload") \/ MainMove("fstore") \/ MainMove("return")
    BY <2>1, <2>2, <2>4 DEF MainMove
  <2> QED BY <2>5, MainMoves
<1>12. CASE Return BY <1>12, ReturnKeeps
<1>13. CASE CreateFails
  <2>1. MainMove("exit") BY <1>13 DEF CreateFails, Exit, MainMove
  <2> QED BY <2>1, MainMoves
<1>14. CASE CleanupFails
  <2>1. MainMove("exit") BY <1>14 DEF CleanupFails, Exit, MainMove
  <2> QED BY <2>1, MainMoves
<1>15. CASE InitTimeout
  <2>1. MainMove("exit") BY <1>15 DEF InitTimeout, Exit, MainMove
  <2> QED BY <2>1, MainMoves
<1> QED BY <1>1, <1>2, <1>3, <1>4, <1>5, <1>6, <1>7, <1>8, <1>9, <1>10, <1>11, <1>12,
           <1>13, <1>14, <1>15 DEF MainStep

(* worker_barrier opens: it turns the threads away only with an error.     *)
LEMMA ReleaseKeeps == ASSUME RunInv, WorkersReleased PROVE RunInv'
<1>1. PICK t \in WThreads : wOut' = WB!Verdict(t, error # 0) BY DEF WorkersReleased
<1>2. \A u \in WThreads : wOut'[u] = IF error # 0 THEN -1 ELSE IF u = t THEN 1 ELSE 0
  BY <1>1 DEF WB!Verdict, WB!FAILED, WB!SERIAL_THREAD
<1>3. wOut' \in [WThreads -> {-1, 0, 1}]
  BY <1>1 DEF WB!Verdict, WB!FAILED, WB!SERIAL_THREAD
<1>4. UNCHANGED <<options, pc, error, reporting, created, ret>> BY DEF WorkersReleased
<1>5. RunTypeOK' BY <1>3, <1>4, WThreadsStay DEF RunInv, RunTypeOK, Threads
<1>6. FailureInv' BY <1>2, <1>4, WThreadsStay DEF RunInv, FailureInv
<1>7. JoinedInv' /\ SilentInv' BY <1>4 DEF RunInv, JoinedInv, SilentInv
<1>8. SuccessIsReal' BY <1>4 DEF RunInv, SuccessIsReal
<1> QED BY <1>5, <1>6, <1>7, <1>8 DEF RunInv

(* Every step of worker_thread() keeps RunInv.                             *)
LEMMA WorkerKeeps ==
  ASSUME RunInv, NEW w \in Workers, WorkerStep(w) \/ WorkerHangs(w) PROVE RunInv'
<1> USE DEF Alive, NoStatus, At, Goto, wBarrier
<1>1. CASE WorkerInit(w)
  <2>1. WorkerMove(w, "wbarrier") \/ WorkerMove(w, "failed")
    BY <1>1 DEF WorkerInit, WB!Arrive, WorkerMove
  <2> QED BY <2>1, WorkerMoves
<1>2. CASE WorkerLeave(w)
  <2>1. \/ Goto(w, "more")
        \/ Goto(w, "aborted") /\ (pc[w] = "failed" \/ wOut[w] = -1)
    BY Zenon, <1>2 DEF WorkerLeave, WB!FAILED
  <2>2. pc[w] = "failed" \/ wOut[w] = -1 => error # 0
    BY Zenon DEF RunInv, FailureInv, WThreads
  <2>3. ret' # 0 /\ UNCHANGED <<options, error, wOut, created, reporting>>
    BY <1>2 DEF WorkerLeave, WB!Leave
  <2>4. pc[w] \notin {"done", "aborted"} BY <1>2 DEF WorkerLeave
  <2>5. WorkerMove(w, "more") \/ WorkerMove(w, "aborted")
    BY <2>1, <2>2, <2>3, <2>4 DEF WorkerMove
  <2> QED BY <2>5, WorkerMoves
<1>3. CASE WorkerMore(w)
  <2>1. WorkerMove(w, "done") \/ WorkerMove(w, "queued") \/ WorkerMove(w, "event")
    BY <1>3 DEF WorkerMore, Permitted, WorkerMove
  <2> QED BY <2>1, WorkerMoves
<1>4. CASE WorkerQueue(w)
  <2>1. WorkerMove(w, "event") \/ WorkerMove(w, "done") \/ WorkerMove(w, "asleep")
    BY <1>4 DEF WorkerQueue, WorkerMove
  <2> QED BY <2>1, WorkerMoves
<1>5. CASE WorkerEvent(w)
  <2>1. WorkerMove(w, "more") \/ WorkerMove(w, "failing")
    BY <1>5 DEF WorkerEvent, WorkerMove
  <2> QED BY <2>1, WorkerMoves
<1>6. CASE WorkerFails(w)
  <2>1. WorkerMove(w, "done") \/ WorkerMove(w, "asleep")
    BY <1>6 DEF WorkerFails, WorkerMove
  <2> QED BY <2>1, WorkerMoves
<1>7. CASE WorkerHangs(w)
  <2>1. WorkerMove(w, "hung")
    BY <1>7 DEF WorkerHangs, WorkerMove
  <2> QED BY <2>1, WorkerMoves
<1> QED BY <1>1, <1>2, <1>3, <1>4, <1>5, <1>6, <1>7 DEF WorkerStep

(* Every step of the event generator keeps RunInv.                         *)
LEMMA GenKeeps == ASSUME RunInv, GenStep PROVE RunInv'
<1> USE DEF Alive, NoStatus, At, Goto, wBarrier
<1>1. /\ UNCHANGED <<options, wOut, reporting>> /\ ret' # 0
      /\ created \subseteq created' /\ (error' = error \/ error' = 1)
  BY DEF GenStep, WB!Arrive, WB!Leave
<1>2. \/ Goto("gen", "wbarrier") \/ Goto("gen", "failed") \/ Goto("gen", "done")
      \/ Goto("gen", "flag") \/ Goto("gen", "run")
  BY DEF GenStep
<1>3. \E there \in {"wbarrier", "failed", "done", "flag", "run"} : Goto("gen", there)
  BY <1>2
<1>4. \E there : BackgroundMove("gen", there) BY Zenon, <1>1, <1>3 DEF BackgroundMove
<1> QED BY <1>4, BackgroundMoves DEF Background

(* Every step of the two reporting threads keeps RunInv.                   *)
LEMMA ReportersKeep == ASSUME RunInv, Reporters PROVE RunInv'
<1> USE DEF Alive, NoStatus, At, Goto, wBarrier
<1>1. ASSUME NEW t \in {"rep", "cp"}, ReporterStart(t) PROVE RunInv'
  <2>1. /\ UNCHANGED <<options, wOut, reporting, error>> /\ ret' # 0
        /\ created \subseteq created'
    BY <1>1 DEF ReporterStart
  <2>2. \/ Goto(t, "rbarrier") \/ Goto(t, "no_lua") \/ Goto(t, "flag")
        \/ Goto(t, "sleep") /\ t \in created'
    BY <1>1 DEF ReporterStart
  <2>3. \E there \in {"rbarrier", "no_lua", "flag", "sleep"} :
          Goto(t, there) /\ (there = "sleep" => t \in created')
    BY <2>2
  <2>4. \E there : BackgroundMove(t, there) BY Zenon, <2>1, <2>3 DEF BackgroundMove
  <2> QED BY <2>4, BackgroundMoves DEF Background
<1>2. CASE ReportStep
  <2>1. UNCHANGED <<options, wOut, reporting, error, created>> /\ ret' # 0
    BY <1>2 DEF ReportStep
  <2>2. "rep" \in created BY <1>2 DEF ReportStep, RunInv, SilentInv
  <2>3. Goto("rep", "sleep") \/ (Goto("rep", "print") /\ reporting # FALSE)
    BY Zenon, <1>2 DEF ReportStep
  <2>4. BackgroundMove("rep", "sleep") \/ BackgroundMove("rep", "print")
    BY Zenon, <2>1, <2>2, <2>3 DEF BackgroundMove
  <2> QED BY <2>4, BackgroundMoves DEF Background
<1>3. CASE CheckpointStep
  <2>1. UNCHANGED <<options, wOut, reporting, error, created>> /\ ret' # 0
    BY <1>3 DEF CheckpointStep
  <2>2. Goto("cp", "load") \/ Goto("cp", "store") \/ Goto("cp", "print") \/ Goto("cp", "done")
    BY <1>3 DEF CheckpointStep, AggMerge, AggLoad, AggStore
  <2>3. \E there \in {"load", "store", "print", "done"} : Goto("cp", there) BY <2>2
  <2>4. \E there : BackgroundMove("cp", there) BY Zenon, <2>1, <2>3 DEF BackgroundMove
  <2> QED BY <2>4, BackgroundMoves DEF Background
<1> QED BY <1>1, <1>2, <1>3 DEF Reporters

(* RunInv is inductive.                                                    *)
LEMMA NextKeeps == RunInv /\ [Next]_vars => RunInv'
<1> SUFFICES ASSUME RunInv, [Next]_vars PROVE RunInv' OBVIOUS
<1>1. CASE Tick BY <1>1, NobodyMoves DEF Tick, wBarrier
<1>2. CASE ReportersReleased BY <1>2, NobodyMoves DEF ReportersReleased, wBarrier
<1>3. CASE UNCHANGED vars BY <1>3, NobodyMoves DEF vars, wBarrier
<1>4. CASE WorkersReleased BY <1>4, ReleaseKeeps
<1>5. CASE MainStep \/ CreateFails \/ CleanupFails \/ InitTimeout BY <1>5, MainKeeps
<1>6. CASE \E w \in Workers : WorkerStep(w) \/ WorkerHangs(w) BY <1>6, WorkerKeeps
<1>7. CASE GenStep BY <1>7, GenKeeps
<1>8. CASE Reporters BY <1>8, ReportersKeep
<1> QED BY <1>1, <1>2, <1>3, <1>4, <1>5, <1>6, <1>7, <1>8 DEF Next

----------------------------------------------------------------------------
(* RunInv is inductive: it holds throughout every run of run_test(), with  *)
(* any workers, options and faults.                                        *)
THEOREM RunInvariant == Spec => []RunInv
<1>1. Init => RunInv BY InitInv
<1>2. RunInv /\ [Next]_vars => RunInv' BY NextKeeps
<1> QED BY <1>1, <1>2, PTL DEF Spec

(* run_test() returns 0 only when no error was raised and every worker,    *)
(* having been initialized, has finished its event loop.                   *)
THEOREM SuccessStaysReal == Spec => []SuccessIsReal
<1>1. RunInv => SuccessIsReal BY DEF RunInv
<1> QED BY <1>1, RunInvariant, PTL

(* While the final report is made the reports thread is not printing, even *)
(* if its flag came too late for it to be cancelled.                       *)
THEOREM FinalReportSilent == Spec => []SilencedBeforeFinal
<1>1. RunInv => SilencedBeforeFinal BY DEF RunInv, SilentInv, Ending, SilencedBeforeFinal
<1> QED BY <1>1, RunInvariant, PTL

----------------------------------------------------------------------------
(* The statistics.                                                         *)

(* The types of the statistics and of report_barrier.                      *)
StatsTypeOK ==
  /\ agg \in [Threads -> [sum : Int, old : Int]]
  /\ lastCumulative \in Int /\ reported \in Int /\ discarded \in Int
  /\ counted \in Nat /\ nevents \in Nat /\ maxEvents \in {0, MaxEvents}
  /\ rPhase \in [RThreads -> {"out", "in", "passed"}]

(* The main thread before it has arrived at report_barrier, in the warmup, *)
(* and in the measured stage.                                              *)
Early == {"create", "arrive", "wbarrier", "warmup", "wmerge", "wload", "wstore", "rarrive"}
Warming == {"warmup", "wmerge", "wload", "wstore"}
Measuring == {"wload", "wstore", "rarrive", "rbarrier", "join"} \cup Cancelling \cup Ending

(* Before the main thread arrives at report_barrier nobody has passed it,  *)
(* so that no checkpoint has been made.                                    *)
ReportersWait ==
  /\ pc["cp"] # "none" => Checkpoints
  /\ pc["main"] \in Early => /\ rPhase["main"] = "out"
                             /\ \A t \in RThreads : rPhase[t] # "passed"
                             /\ pc["cp"] \in {"none", "init", "rbarrier", "no_lua"}
  /\ pc["main"] \in Early \ {"rarrive"} => lastCumulative = 0 /\ discarded = 0
  /\ pc["main"] = "wstore" => agg["main"].old = 0

(* The limit is lifted only for the warmup.                                *)
Limited ==
  /\ pc["main"] \in Warming => Warmup
  /\ ~Warmup => discarded = 0
  /\ ~Warmup \/ pc["main"] \in Measuring \cup {"wmerge"} => maxEvents = MaxEvents

(* The workers that have been granted an event and have not counted it.    *)
Granted == {w \in Workers : pc[w] \in {"queued", "event"}}

(* What was counted, or could have been granted, before the measured stage.*)
Base == IF ~Warmup THEN 0
        ELSE Cardinality(Workers) + IF pc["main"] \in {"wload", "wstore"} THEN agg["main"].sum
                                    ELSE discarded

(* In the measured stage no more events are granted than numbers are taken,*)
(* and none beyond the limit.                                              *)
Measured ==
  MaxEvents > 0 /\ (~Warmup \/ pc["main"] \in Measuring) =>
    /\ counted + Cardinality(Granted) <= Base + nevents
    /\ counted + Cardinality(Granted) <= Base + MaxEvents

(* The invariant behind MeasuredBound.                                     *)
StatsInv == StatsTypeOK /\ ReportersWait /\ Limited /\ Measured

(* The number of granted events.                                           *)
LEMMA GrantedType ==
  /\ IsFiniteSet(Granted) /\ Cardinality(Granted) \in Nat /\ Cardinality(Workers) \in Nat
  /\ Cardinality(Granted) <= Cardinality(Workers)
<1>1. IsFiniteSet(Workers) /\ Granted \subseteq Workers BY ConfigAssumption DEF Granted
<1> QED BY <1>1, FS_Subset, FS_CardinalityType

(* A worker's move grants, uses or keeps its event.                        *)
LEMMA GrantedMoves ==
  ASSUME RunTypeOK, NEW w \in Workers, NEW there, pc' = [pc EXCEPT ![w] = there]
  PROVE  /\ pc'["main"] = pc["main"] /\ pc'["cp"] = pc["cp"]
         /\ (pc[w] \in {"queued", "event"} <=> there \in {"queued", "event"}) => Granted' = Granted
         /\ pc[w] \in {"queued", "event"} /\ there \notin {"queued", "event"} =>
              Cardinality(Granted') = Cardinality(Granted) - 1
         /\ pc[w] \notin {"queued", "event"} /\ there \in {"queued", "event"} =>
              Cardinality(Granted') = Cardinality(Granted) + 1
<1>1. pc = [u \in Threads |-> pc[u]] /\ w \in Threads /\ w \notin {"main", "cp"}
      /\ "main" \in Threads /\ "cp" \in Threads
  BY Names DEF RunTypeOK, Background
<1>2. pc'["main"] = pc["main"] /\ pc'["cp"] = pc["cp"] /\ pc'[w] = there
  BY <1>1
<1>3. ASSUME NEW v \in Workers, v # w PROVE pc'[v] = pc[v]
  BY <1>1, <1>3, Names
<1>4. CASE pc[w] \in {"queued", "event"} <=> there \in {"queued", "event"}
  <2>1. Granted' = Granted BY <1>2, <1>3, <1>4 DEF Granted
  <2> QED BY <1>2, <1>4, <2>1
<1>5. CASE pc[w] \in {"queued", "event"} /\ there \notin {"queued", "event"}
  <2>1. Granted' = Granted \ {w} /\ w \in Granted BY <1>2, <1>3, <1>5 DEF Granted
  <2>2. Cardinality(Granted') = Cardinality(Granted) - 1
    BY <2>1, GrantedType, FS_RemoveElement
  <2> QED BY <1>2, <1>5, <2>2
<1>6. CASE pc[w] \notin {"queued", "event"} /\ there \in {"queued", "event"}
  <2>1. Granted' = Granted \cup {w} /\ w \notin Granted BY <1>2, <1>3, <1>6 DEF Granted
  <2>2. Cardinality(Granted') = Cardinality(Granted) + 1
    BY <2>1, GrantedType, FS_AddElement
  <2> QED BY <1>2, <1>6, <2>2
<1> QED BY <1>4, <1>5, <1>6

(* The options do not change, nor what they ask for.                       *)
LEMMA OptionsStay ==
  ASSUME UNCHANGED options
  PROVE  Warmup' = Warmup /\ Checkpoints' = Checkpoints /\ RThreads' = RThreads
BY DEF Warmup, Checkpoints, RThreads, Reports

(* Steps that the statistics do not see.                                   *)
LEMMA Unseen ==
  ASSUME StatsInv, UNCHANGED <<options, stats, counted, nevents, maxEvents, rPhase>>,
         pc'["main"] = pc["main"], pc'["cp"] = pc["cp"], Granted' = Granted
  PROVE  StatsInv'
<1> USE OptionsStay DEF stats
<1>1. StatsTypeOK' BY DEF StatsInv, StatsTypeOK, Threads
<1>2. ReportersWait' BY DEF StatsInv, ReportersWait
<1>3. Limited' BY DEF StatsInv, Limited
<1>4. Base' = Base BY DEF Base
<1>5. Measured' BY <1>4 DEF StatsInv, Measured
<1> QED BY <1>1, <1>2, <1>3, <1>5 DEF StatsInv

(* The main thread moves on without touching the statistics.               *)
LEMMA MainSeen ==
  ASSUME StatsInv, UNCHANGED <<options, stats, counted, nevents>>, Granted' = Granted,
         NEW there, pc'["main"] = there, there \notin {"wload", "wstore"},
         maxEvents' \in {0, MaxEvents},
         maxEvents' = MaxEvents \/ (Warmup /\ there \notin Measuring \cup {"wmerge"}),
         there \in Early => /\ pc["main"] \in Early \ {"rarrive"}
                            /\ pc'["cp"] = pc["cp"] /\ rPhase' = rPhase,
         rPhase' \in [RThreads -> {"out", "in", "passed"}],
         pc'["cp"] # "none" => Checkpoints,
         there \in Warming => Warmup,
         there \in Measuring => ~Warmup \/ pc["main"] \in Measuring \ {"wload", "wstore"}
  PROVE  StatsInv'
<1> USE OptionsStay DEF stats
<1>1. StatsTypeOK' BY DEF StatsInv, StatsTypeOK, Threads
<1>2. ReportersWait' BY DEF StatsInv, ReportersWait
<1>3. Limited' BY DEF StatsInv, Limited
<1>4. Measured'
  <2> SUFFICES ASSUME MaxEvents > 0, ~Warmup \/ there \in Measuring
               PROVE  /\ counted + Cardinality(Granted) <= Base' + nevents
                      /\ counted + Cardinality(Granted) <= Base' + MaxEvents
    BY DEF Measured
  <2>1. Base' = Base BY DEF Base
  <2> QED BY <2>1 DEF StatsInv, Measured
<1> QED BY <1>1, <1>2, <1>3, <1>4 DEF StatsInv

(* The statistics at the start.                                            *)
LEMMA StatsStart == Init => StatsInv
<1> SUFFICES ASSUME Init PROVE StatsInv OBVIOUS
<1>1. /\ pc["main"] = "create" /\ pc["cp"] = "none" /\ \A w \in Workers : pc[w] = "none"
  <2>1. pc = [t \in Threads |-> IF t = "main" THEN "create" ELSE "none"] BY DEF Init
  <2>2. \A w \in Workers : w \in Threads /\ w # "main" BY Names
  <2>3. "main" \in Threads /\ "cp" \in Threads BY Names DEF Background
  <2> QED BY <2>1, <2>2, <2>3
<1>2. rPhase = [t \in RThreads |-> "out"] /\ "main" \in RThreads
  BY DEF Init, RB!AbsInit, RThreads
<1>3. StatsTypeOK BY <1>2 DEF Init, StatsTypeOK
<1>4. ReportersWait BY <1>1, <1>2 DEF Init, ReportersWait, Early
<1>5. Limited BY <1>1 DEF Init, Limited, Warming, Measuring, Cancelling, Ending
<1>6. Cardinality(Granted) = 0
  <2>1. Granted = {} BY <1>1 DEF Granted
  <2> QED BY <2>1, FS_EmptySet
<1>7. Measured
  BY <1>1, <1>6, ConfigAssumption DEF Init, Measured, Base, Measuring, Cancelling, Ending
<1> QED BY <1>3, <1>4, <1>5, <1>7 DEF StatsInv

(* A worker takes its events within the limit.                             *)
LEMMA WorkerStats ==
  ASSUME RunTypeOK, StatsInv, NEW w \in Workers, WorkerStep(w) \/ WorkerHangs(w)
  PROVE  StatsInv'
<1> USE DEF Alive, NoStatus, At, Goto, rBarrier
<1>0. /\ UNCHANGED <<options, stats, maxEvents, rPhase>>
      /\ Warmup' = Warmup
  <2>1. UNCHANGED <<options, stats, maxEvents, rPhase>>
    BY DEF WorkerStep, WorkerHangs, WorkerInit, WorkerLeave, WorkerMore, WorkerQueue,
        WorkerEvent, WorkerFails, limits
  <2> QED BY <2>1, OptionsStay
<1>1. ASSUME NEW there, Goto(w, there), UNCHANGED <<counted, nevents>>,
             pc[w] \in {"queued", "event"} <=> there \in {"queued", "event"}
      PROVE  StatsInv'
  <2>1. pc'["main"] = pc["main"] /\ pc'["cp"] = pc["cp"] /\ Granted' = Granted
    BY Zenon, <1>1, GrantedMoves
  <2> QED BY <1>0, <1>1, <2>1, Unseen
<1>2. ASSUME NEW there, Goto(w, there), counted' \in Nat, nevents' \in Nat,
             MaxEvents > 0 /\ maxEvents = MaxEvents =>
               \/ /\ Cardinality(Granted') + counted' <= Cardinality(Granted) + counted
                  /\ nevents' >= nevents
               \/ /\ Cardinality(Granted') + counted' = Cardinality(Granted) + counted + 1
                  /\ nevents' = nevents + 1 /\ nevents < MaxEvents
      PROVE  StatsInv'
  <2>1. pc'["main"] = pc["main"] /\ pc'["cp"] = pc["cp"] BY Zenon, <1>2, GrantedMoves
  <2>2. StatsTypeOK' BY <1>0, <1>2, OptionsStay DEF StatsInv, StatsTypeOK, Threads, stats
  <2>3. ReportersWait' BY <1>0, <2>1, OptionsStay DEF StatsInv, ReportersWait, stats
  <2>4. Limited' BY <1>0, <2>1 DEF StatsInv, Limited, stats
  <2>5. Measured'
    <3> SUFFICES ASSUME MaxEvents > 0, ~Warmup \/ pc["main"] \in Measuring
                 PROVE  /\ counted' + Cardinality(Granted') <= Base' + nevents'
                        /\ counted' + Cardinality(Granted') <= Base' + MaxEvents
      BY <1>0, <2>1 DEF Measured
    <3>1. Base' = Base BY <1>0, <2>1 DEF Base, stats
    <3>2. maxEvents = MaxEvents BY DEF StatsInv, Limited
    <3>3. /\ counted + Cardinality(Granted) <= Base + nevents
          /\ counted + Cardinality(Granted) <= Base + MaxEvents
      BY DEF StatsInv, Measured
    <3>4. Base \in Int
      BY GrantedType, Names DEF Base, StatsInv, StatsTypeOK
    <3>5. /\ Cardinality(Granted) \in Nat /\ Cardinality(Granted') \in Nat
          /\ counted \in Nat /\ nevents \in Nat /\ MaxEvents \in Nat
      <4>1. Granted' \subseteq Workers BY DEF Granted
      <4>2. Cardinality(Granted') \in Nat
        BY <4>1, ConfigAssumption, FS_Subset, FS_CardinalityType
      <4> QED BY <4>2, GrantedType, ConfigAssumption DEF StatsInv, StatsTypeOK
    <3>6. CASE /\ Cardinality(Granted') + counted' <= Cardinality(Granted) + counted
               /\ nevents' >= nevents
      BY <1>2, <3>1, <3>3, <3>4, <3>5, <3>6
    <3>7. CASE /\ Cardinality(Granted') + counted' = Cardinality(Granted) + counted + 1
               /\ nevents' = nevents + 1 /\ nevents < MaxEvents
      <4>1. Base = 0 \/ Base >= 0 \/ Base < 0 BY <3>4
      <4> QED BY <1>2, <3>1, <3>3, <3>4, <3>5, <3>7
    <3> QED BY <1>2, <3>2, <3>6, <3>7
  <2> QED BY <2>2, <2>3, <2>4, <2>5 DEF StatsInv
<1>8. ASSUME NEW there, Goto(w, there), counted' \in Nat, nevents' \in Nat, nevents' >= nevents,
             Cardinality(Granted') + counted' <= Cardinality(Granted) + counted
      PROVE  StatsInv'
  BY Zenon, <1>2, <1>8
<1>3. CASE WorkerInit(w) \/ WorkerLeave(w) \/ WorkerHangs(w)
  <2>1. pc[w] \notin {"queued", "event"} /\ UNCHANGED <<counted, nevents>>
    BY <1>3 DEF WorkerInit, WorkerLeave, WorkerHangs, limits
  <2>2. \E there \in {"wbarrier", "failed", "aborted", "more", "hung"} : Goto(w, there)
    BY <1>3 DEF WorkerInit, WorkerLeave, WorkerHangs
  <2> QED BY Zenon, <1>1, <2>1, <2>2
<1>4. CASE WorkerMore(w)
  <2>0. /\ pc[w] \notin {"queued", "event"} /\ UNCHANGED counted
        /\ counted \in Nat /\ nevents \in Nat /\ Permitted \in {"queued", "event"}
    BY <1>4 DEF WorkerMore, Permitted, StatsInv, StatsTypeOK
  <2>1. CASE Goto(w, "done") /\ UNCHANGED nevents
    BY Zenon, <1>1, <2>0, <2>1
  <2>6. PICK there \in {"queued", "event"} : there = Permitted BY <2>0
  <2>2. CASE maxEvents = 0 /\ Goto(w, Permitted) /\ UNCHANGED nevents
    <3>1. ~(MaxEvents > 0 /\ maxEvents = MaxEvents) BY <2>2
    <3>2. Goto(w, there) /\ counted' \in Nat /\ nevents' \in Nat BY <2>0, <2>2, <2>6
    <3> QED BY Zenon, <1>2, <3>1, <3>2
  <2>3. CASE nevents' = nevents + 1 /\ Goto(w, "done")
    <3>1. Granted' = Granted
      <4>1. "done" \notin {"queued", "event"} /\ Goto(w, "done") BY <2>3
      <4> QED BY Zenon, <2>0, <4>1, GrantedMoves
    <3>2. nevents' \in Nat /\ nevents' >= nevents BY <2>0, <2>3
    <3>3. Cardinality(Granted') + counted' <= Cardinality(Granted) + counted
      BY <2>0, <3>1, GrantedType
    <3> QED BY Zenon, <1>8, <2>0, <2>3, <3>2, <3>3
  <2>4. CASE nevents' = nevents + 1 /\ nevents < maxEvents /\ Goto(w, Permitted)
    <3>0. Goto(w, there) BY <2>4, <2>6
    <3>1. Cardinality(Granted') = Cardinality(Granted) + 1 BY Zenon, <2>0, <3>0, GrantedMoves
    <3>2. nevents' \in Nat BY <2>0, <2>4
    <3>3. Cardinality(Granted') + counted' = Cardinality(Granted) + counted + 1
      BY <2>0, <3>1, GrantedType
    <3>4. maxEvents = MaxEvents => nevents < MaxEvents BY <2>4
    <3> QED BY Zenon, <1>2, <2>0, <2>4, <3>0, <3>2, <3>3, <3>4
  <2>5. maxEvents \in Nat BY ConfigAssumption DEF StatsInv, StatsTypeOK
  <2> QED BY <1>4, <2>0, <2>1, <2>2, <2>3, <2>4, <2>5 DEF WorkerMore
<1>5. CASE WorkerQueue(w)
  <2>0. /\ pc[w] = "queued" /\ UNCHANGED <<counted, nevents>>
        /\ counted \in Nat /\ nevents \in Nat
    BY <1>5 DEF WorkerQueue, limits, StatsInv, StatsTypeOK
  <2>1. CASE Goto(w, "event") BY Zenon, <1>1, <2>0, <2>1
  <2>2. ASSUME NEW there \in {"done", "asleep"}, Goto(w, there) PROVE StatsInv'
    <3>1. Cardinality(Granted') = Cardinality(Granted) - 1 BY Zenon, <2>0, <2>2, GrantedMoves
    <3>2. Cardinality(Granted') + counted' <= Cardinality(Granted) + counted
      BY <2>0, <3>1, GrantedType
    <3>3. nevents' >= nevents /\ nevents' \in Nat /\ counted' \in Nat BY <2>0
    <3> QED BY Zenon, <1>8, <2>2, <3>2, <3>3
  <2> QED BY <1>5, <2>1, <2>2 DEF WorkerQueue
<1>6. CASE WorkerEvent(w)
  <2>0. /\ pc[w] = "event" /\ counted' = counted + 1 /\ UNCHANGED nevents
        /\ counted \in Nat /\ nevents \in Nat
    BY <1>6 DEF WorkerEvent, limits, StatsInv, StatsTypeOK
  <2>1. PICK there \in {"more", "failing"} : Goto(w, there) BY <1>6 DEF WorkerEvent
  <2>2. Cardinality(Granted') = Cardinality(Granted) - 1 BY Zenon, <2>0, <2>1, GrantedMoves
  <2>3. /\ Cardinality(Granted') + counted' <= Cardinality(Granted) + counted
        /\ counted' \in Nat
    BY <2>0, <2>2, GrantedType
  <2>4. nevents' >= nevents /\ nevents' \in Nat BY <2>0
  <2> QED BY Zenon, <1>8, <2>1, <2>3, <2>4
<1>7. CASE WorkerFails(w)
  <2>0. /\ pc[w] = "failing" /\ UNCHANGED counted /\ (nevents' = nevents \/ nevents' = nevents + 1)
        /\ counted \in Nat /\ nevents \in Nat
    BY <1>7 DEF WorkerFails, StatsInv, StatsTypeOK
  <2>1. PICK there \in {"done", "asleep"} : Goto(w, there) BY <1>7 DEF WorkerFails
  <2>2. Granted' = Granted BY Zenon, <2>0, <2>1, GrantedMoves
  <2>3. /\ Cardinality(Granted') + counted' <= Cardinality(Granted) + counted
        /\ nevents' \in Nat /\ nevents' >= nevents
    BY <2>0, <2>2, GrantedType
  <2> QED BY Zenon, <1>8, <2>0, <2>1, <2>3
<1> QED BY <1>3, <1>4, <1>5, <1>6, <1>7 DEF WorkerStep

(* A background thread moves, or nobody does.                              *)
LEMMA BackgroundSeen ==
  ASSUME StatsInv, UNCHANGED <<options, stats, counted, nevents, maxEvents>>,
         pc'["main"] = pc["main"], Granted' = Granted,
         rPhase' \in [RThreads -> {"out", "in", "passed"}],
         pc'["cp"] # "none" => Checkpoints,
         pc["main"] \in Early => /\ rPhase'["main"] = "out"
                                 /\ \A t \in RThreads : rPhase'[t] # "passed"
                                 /\ pc'["cp"] \in {"none", "init", "rbarrier", "no_lua"}
  PROVE  StatsInv'
<1> USE OptionsStay DEF stats
<1>1. StatsTypeOK' BY DEF StatsInv, StatsTypeOK, Threads
<1>2. ReportersWait' BY DEF StatsInv, ReportersWait
<1>3. Limited' BY DEF StatsInv, Limited
<1>4. Base' = Base BY DEF Base
<1>5. Measured' BY <1>4 DEF StatsInv, Measured
<1> QED BY <1>1, <1>2, <1>3, <1>5 DEF StatsInv

(* What a move of the main thread and of a background thread leaves alone. *)
LEMMA OthersStay ==
  ASSUME RunTypeOK, NEW t \in {"main"} \cup Background, NEW there, Goto(t, there)
  PROVE  /\ Granted' = Granted
         /\ \A u \in {"main"} \cup Background : pc'[u] = IF u = t THEN there ELSE pc[u]
<1>1. pc = [u \in Threads |-> pc[u]] /\ t \in Threads /\ {"main"} \cup Background \subseteq Threads
  BY Names DEF RunTypeOK
<1>2. ASSUME NEW w \in Workers PROVE pc'[w] = pc[w]
  <2>1. w \in Threads /\ w # t BY Names
  <2> QED BY <1>1, <2>1 DEF Goto
<1>3. Granted' = Granted BY <1>2 DEF Granted
<1>4. \A u \in {"main"} \cup Background : pc'[u] = IF u = t THEN there ELSE pc[u]
  BY <1>1 DEF Goto
<1> QED BY <1>3, <1>4

(* The main thread creates the threads and starts the warmup.              *)
LEMMA StartStats ==
  ASSUME RunInv, StatsInv,
         \/ \E t \in Started : CreateThread(t)
         \/ StartWarmup \/ MainArrive \/ MainLeave \/ EndWarmup
         \/ CreateFails \/ CleanupFails \/ InitTimeout
  PROVE  StatsInv'
<1> USE DEF Alive, NoStatus, At, rBarrier, limits
<1>0. RunTypeOK /\ StatsTypeOK /\ ReportersWait /\ Limited BY DEF RunInv, StatsInv
<1>1. ASSUME NEW t \in Started, CreateThread(t) PROVE StatsInv'
  <2>0. /\ Goto(t, "init") /\ pc[t] = "none" /\ pc["main"] = "create"
        /\ UNCHANGED <<options, stats, counted, nevents, maxEvents, rPhase>>
    BY <1>1 DEF CreateThread, Goto
  <2>1. CASE t \in Workers
    <3>1. Granted' = Granted /\ pc'["main"] = pc["main"] /\ pc'["cp"] = pc["cp"]
      BY Zenon, <1>0, <2>0, <2>1, GrantedMoves DEF Goto
    <3> QED BY <2>0, <3>1, Unseen
  <2>2. CASE t \notin Workers
    <3>1. t \in Background /\ (t = "cp" => Checkpoints)
      BY <2>2 DEF Started, Background
    <3>2. /\ Granted' = Granted /\ pc'["main"] = pc["main"]
          /\ pc'["cp"] = IF t = "cp" THEN "init" ELSE pc["cp"]
      BY <1>0, <2>0, <3>1, OthersStay DEF Background
    <3>3. pc'["cp"] # "none" => Checkpoints BY <1>0, <3>1, <3>2 DEF ReportersWait
    <3>4. rPhase' \in [RThreads -> {"out", "in", "passed"}] BY <1>0, <2>0 DEF StatsTypeOK
    <3>5. /\ rPhase'["main"] = "out" /\ \A u \in RThreads : rPhase'[u] # "passed"
          /\ pc'["cp"] \in {"none", "init", "rbarrier", "no_lua"}
      BY <1>0, <2>0, <3>2 DEF ReportersWait, Early
    <3> QED BY <2>0, <3>2, <3>3, <3>4, <3>5, BackgroundSeen
  <2> QED BY <2>1, <2>2
<1>2. ASSUME NEW there \in {"arrive", "wbarrier", "warmup", "rarrive", "wmerge", "exit"},
             Goto("main", there),
             UNCHANGED <<options, stats, counted, nevents, rPhase>>,
             maxEvents' = maxEvents \/ maxEvents' = MaxEvents
                                   \/ (there = "arrive" /\ Warmup /\ maxEvents' = 0),
             there # "exit" => pc["main"] \in {"create", "arrive", "wbarrier", "warmup"},
             there = "wmerge" => Warmup /\ maxEvents' = MaxEvents,
             there = "warmup" => Warmup,
             there = "rarrive" => ~Warmup
      PROVE  StatsInv'
  <2>1. /\ Granted' = Granted /\ pc'["main"] = there /\ pc'["cp"] = pc["cp"]
    BY <1>0, <1>2, OthersStay DEF Background
  <2>2. rPhase' \in [RThreads -> {"out", "in", "passed"}] BY <1>0, <1>2 DEF StatsTypeOK
  <2>3. pc'["cp"] # "none" => Checkpoints BY <1>0, <2>1 DEF ReportersWait
  <2>4. maxEvents' \in {0, MaxEvents} BY <1>0, <1>2 DEF StatsTypeOK
  <2>5. there \notin Measuring \/ there = "rarrive" BY <1>2 DEF Measuring, Cancelling, Ending
  <2>6. maxEvents' = MaxEvents \/ (Warmup /\ there \notin Measuring \cup {"wmerge"})
    BY <1>0, <1>2, <2>5 DEF Limited
  <2>7. there \in Early => pc["main"] \in Early \ {"rarrive"} BY <1>2 DEF Early
  <2>8. there \in Warming => Warmup BY <1>2 DEF Warming
  <2> QED BY <1>2, <2>1, <2>2, <2>3, <2>4, <2>5, <2>6, <2>7, <2>8, MainSeen
<1>3. CASE StartWarmup BY <1>2, <1>3 DEF StartWarmup
<1>4. CASE MainArrive BY <1>2, <1>4 DEF MainArrive
<1>5. CASE MainLeave
  <2>1. UNCHANGED <<options, stats, counted, nevents, maxEvents, rPhase>> /\ pc["main"] = "wbarrier"
    BY <1>5 DEF MainLeave
  <2>2. \/ Goto("main", "exit") \/ (Goto("main", "warmup") /\ Warmup)
        \/ (Goto("main", "rarrive") /\ ~Warmup)
    BY <1>5 DEF MainLeave, Exit
  <2> QED BY <1>2, <2>1, <2>2
<1>6. CASE EndWarmup
  <2>1. Warmup BY <1>0, <1>6 DEF EndWarmup, Limited, Warming
  <2> QED BY <1>2, <1>6, <2>1 DEF EndWarmup
<1>7. CASE CreateFails \/ CleanupFails \/ InitTimeout
  <2>1. UNCHANGED <<options, stats, counted, nevents, maxEvents, rPhase>> /\ Goto("main", "exit")
    BY <1>7 DEF CreateFails, CleanupFails, InitTimeout, Exit
  <2> QED BY <1>2, <2>1
<1> QED BY <1>1, <1>3, <1>4, <1>5, <1>6, <1>7

(* The warmup checkpoint: what has been counted is the base of the         *)
(* measured stage, with one event per worker that may be granted already.  *)
LEMMA WarmupStats ==
  ASSUME RunInv, StatsInv, WarmupCheckpoint PROVE StatsInv'
<1> USE DEF Alive, NoStatus, At, rBarrier, limits
<1>0. /\ RunTypeOK /\ StatsTypeOK /\ ReportersWait /\ Limited /\ Measured
      /\ UNCHANGED <<options, counted, nevents, maxEvents, rPhase>>
      /\ Warmup' = Warmup /\ Checkpoints' = Checkpoints /\ RThreads' = RThreads
  BY OptionsStay DEF RunInv, StatsInv, WarmupCheckpoint
<1>1. /\ pc["main"] \in {"wmerge", "wload", "wstore"} /\ Warmup
      /\ pc["main"] \in Early \ {"rarrive"}
  BY <1>0 DEF WarmupCheckpoint, Limited, Warming, Early
<1>2. /\ lastCumulative = 0 /\ discarded = 0 /\ agg["main"] \in [sum : Int, old : Int]
      /\ counted \in Nat /\ nevents \in Nat /\ "main" \in Threads
      /\ agg = [u \in Threads |-> agg[u]] /\ maxEvents = MaxEvents
  BY <1>0, <1>1, Names DEF ReportersWait, StatsTypeOK, Limited, Measuring
<1>3. ASSUME NEW there, Goto("main", there), there \in {"wload", "wstore", "rarrive"},
             agg' \in [Threads -> [sum : Int, old : Int]],
             lastCumulative' \in Int, reported' \in Int, discarded' \in Int,
             there # "rarrive" => lastCumulative' = 0 /\ discarded' = 0,
             there = "wstore" => agg'["main"].old = 0,
             MaxEvents > 0 => /\ counted + Cardinality(Granted) <= Base' + nevents
                              /\ counted + Cardinality(Granted) <= Base' + MaxEvents
      PROVE  StatsInv'
  <2>1. /\ Granted' = Granted /\ pc'["main"] = there /\ pc'["cp"] = pc["cp"]
    BY <1>0, <1>3, OthersStay DEF Background
  <2>2. StatsTypeOK' BY <1>0, <1>3 DEF StatsTypeOK, Threads
  <2>3. ReportersWait' BY <1>0, <1>1, <1>3, <2>1 DEF ReportersWait, Early
  <2>4. Limited' BY <1>0, <1>1, <1>2, <1>3, <2>1 DEF Limited
  <2>5. Measured' BY <1>0, <1>3, <2>1 DEF Measured
  <2> QED BY <2>2, <2>3, <2>4, <2>5 DEF StatsInv
<1>4. CASE At("main", "wmerge") /\ AggMerge("main", "wload")
  <2>1. /\ Goto("main", "wload") /\ agg' = [agg EXCEPT !["main"].sum = counted]
        /\ UNCHANGED <<lastCumulative, reported, discarded>>
    BY <1>4 DEF AggMerge
  <2>2. agg' \in [Threads -> [sum : Int, old : Int]] /\ agg'["main"].sum = counted
    BY <1>0, <1>2, <2>1 DEF StatsTypeOK
  <2>3. pc'["main"] = "wload" BY <1>0, <2>1, OthersStay
  <2>4. Base' = Cardinality(Workers) + counted BY <1>0, <1>1, <2>2, <2>3 DEF Base
  <2>5. MaxEvents > 0 => /\ counted + Cardinality(Granted) <= Base' + nevents
                         /\ counted + Cardinality(Granted) <= Base' + MaxEvents
    BY <1>2, <2>4, GrantedType, ConfigAssumption
  <2>6. lastCumulative' = 0 /\ discarded' = 0 /\ reported' \in Int
    BY <1>0, <1>2, <2>1 DEF StatsTypeOK
  <2> QED BY <1>3, <2>1, <2>2, <2>5, <2>6
<1>5. CASE At("main", "wload") /\ AggLoad("main", "wstore")
  <2>1. /\ Goto("main", "wstore") /\ agg' = [agg EXCEPT !["main"].old = lastCumulative]
        /\ UNCHANGED <<lastCumulative, reported, discarded>> /\ pc["main"] = "wload"
    BY <1>5 DEF AggLoad
  <2>2. /\ agg' \in [Threads -> [sum : Int, old : Int]] /\ agg'["main"].old = 0
        /\ agg'["main"].sum = agg["main"].sum
    BY <1>0, <1>2, <2>1 DEF StatsTypeOK
  <2>3. pc'["main"] = "wstore" BY <1>0, <2>1, OthersStay
  <2>4. Base' = Base BY <1>0, <1>1, <2>1, <2>2, <2>3 DEF Base
  <2>5. MaxEvents > 0 => /\ counted + Cardinality(Granted) <= Base' + nevents
                         /\ counted + Cardinality(Granted) <= Base' + MaxEvents
    BY <1>0, <2>1, <2>4 DEF Measured, Measuring
  <2>6. lastCumulative' = 0 /\ discarded' = 0 /\ reported' \in Int
    BY <1>0, <1>2, <2>1 DEF StatsTypeOK
  <2> QED BY <1>3, <2>1, <2>2, <2>5, <2>6
<1>6. CASE /\ At("main", "wstore") /\ AggStore("main", "rarrive")
           /\ discarded' = discarded + AggDelta("main")
           /\ UNCHANGED reported
  <2>1. /\ Goto("main", "rarrive") /\ UNCHANGED <<agg, reported>> /\ pc["main"] = "wstore"
        /\ lastCumulative' = agg["main"].sum
        /\ discarded' = discarded + (agg["main"].sum - agg["main"].old)
    BY <1>6 DEF AggStore, AggDelta
  <2>2. /\ agg' \in [Threads -> [sum : Int, old : Int]] /\ agg["main"].old = 0
        /\ discarded' = agg["main"].sum /\ agg["main"].sum \in Int
    BY <1>0, <1>2, <2>1 DEF StatsTypeOK, ReportersWait
  <2>3. pc'["main"] = "rarrive" BY <1>0, <2>1, OthersStay
  <2>4. Base' = Base BY <1>0, <1>1, <2>1, <2>2, <2>3 DEF Base
  <2>5. MaxEvents > 0 => /\ counted + Cardinality(Granted) <= Base' + nevents
                         /\ counted + Cardinality(Granted) <= Base' + MaxEvents
    BY <1>0, <2>1, <2>4 DEF Measured, Measuring
  <2>6. lastCumulative' \in Int /\ discarded' \in Int /\ reported' \in Int
    BY <1>0, <2>1, <2>2 DEF StatsTypeOK
  <2> QED BY <1>3, <2>1, <2>2, <2>5, <2>6
<1> QED BY <1>4, <1>5, <1>6 DEF WarmupCheckpoint

(* The main thread behind the warmup: the limit is in force.               *)
LEMMA MeasuringStats ==
  ASSUME RunInv, StatsInv,
         MainReportArrive \/ MainReportLeave \/ JoinWorkers \/ CancelThreads \/ Return
  PROVE  StatsInv'
<1> USE DEF Alive, NoStatus, At, limits, Cancelling
<1>0. RunTypeOK /\ StatsTypeOK /\ ReportersWait /\ Limited BY DEF RunInv, StatsInv
<1>1. ASSUME NEW there \in {"rbarrier", "join", "final", "exit"} \cup Cancelling,
             pc'["main"] = there, Granted' = Granted,
             UNCHANGED <<options, stats, counted, nevents, maxEvents>>,
             pc["main"] \in Measuring \ {"wload", "wstore"},
             rPhase' \in [RThreads -> {"out", "in", "passed"}],
             pc'["cp"] # "none" => Checkpoints
      PROVE  StatsInv'
  <2>1. there \notin Early /\ there \notin Warming /\ there \notin {"wload", "wstore"}
    BY <1>1 DEF Early, Warming
  <2>2. maxEvents' = MaxEvents BY <1>0, <1>1 DEF Limited
  <2>3. maxEvents' \in {0, MaxEvents} BY <2>2
  <2> QED BY <1>1, <2>1, <2>2, <2>3, MainSeen
<1>2. ASSUME NEW there \in {"rbarrier", "join", "final", "exit"} \cup Cancelling,
             Goto("main", there)
      PROVE  pc'["main"] = there /\ Granted' = Granted /\ (pc'["cp"] # "none" => Checkpoints)
  <2>1. /\ Granted' = Granted /\ pc'["main"] = there /\ pc'["cp"] = pc["cp"]
    BY <1>0, <1>2, OthersStay DEF Background
  <2> QED BY <1>0, <2>1 DEF ReportersWait
<1>3. rPhase \in [RThreads -> {"out", "in", "passed"}] BY <1>0 DEF StatsTypeOK
<1>4. CASE MainReportArrive
  <2>1. /\ Goto("main", "rbarrier") /\ UNCHANGED <<options, stats, counted, nevents, maxEvents>>
        /\ pc["main"] = "rarrive" /\ rPhase' = [rPhase EXCEPT !["main"] = "in"]
    BY <1>4 DEF MainReportArrive, RB!Arrive
  <2>2. rPhase' \in [RThreads -> {"out", "in", "passed"}] BY Zenon, <1>3, <2>1
  <2>3. pc["main"] \in Measuring \ {"wload", "wstore"} BY <2>1 DEF Measuring
  <2> QED BY <1>1, <1>2, <2>1, <2>2, <2>3
<1>5. CASE MainReportLeave
  <2>1. /\ Goto("main", "join") /\ UNCHANGED <<options, stats, counted, nevents, maxEvents>>
        /\ pc["main"] = "rbarrier" /\ rPhase' = [rPhase EXCEPT !["main"] = "out"]
    BY <1>5 DEF MainReportLeave, RB!Leave
  <2>2. rPhase' \in [RThreads -> {"out", "in", "passed"}] BY Zenon, <1>3, <2>1
  <2>3. pc["main"] \in Measuring \ {"wload", "wstore"} BY <2>1 DEF Measuring
  <2> QED BY <1>1, <1>2, <2>1, <2>2, <2>3
<1>6. CASE JoinWorkers
  <2>1. /\ Goto("main", "cancel_rep")
        /\ UNCHANGED <<options, stats, counted, nevents, maxEvents, rPhase>>
        /\ pc["main"] = "join"
    BY <1>6 DEF JoinWorkers, rBarrier
  <2>3. pc["main"] \in Measuring \ {"wload", "wstore"} BY <2>1 DEF Measuring
  <2> QED BY <1>1, <1>2, <1>3, <2>1, <2>3
<1>7. CASE Return
  <2>1. /\ Goto("main", "exit") /\ UNCHANGED <<options, stats, counted, nevents, maxEvents, rPhase>>
        /\ pc["main"] \in {"return", "final"}
    BY <1>7 DEF Return, rBarrier, Exit
  <2>3. pc["main"] \in Measuring \ {"wload", "wstore"} BY <2>1 DEF Measuring, Ending
  <2> QED BY <1>1, <1>2, <1>3, <2>1, <2>3
<1>8. ASSUME NEW t \in Background, NEW here \in Cancelling,
             NEW next \in {"cancel_gen", "cancel_cp", "final"}, Cancel(t, here, next)
      PROVE  StatsInv'
  <2>1. /\ UNCHANGED <<options, stats, counted, nevents, maxEvents, rPhase>>
        /\ pc["main"] \in Measuring \ {"wload", "wstore"}
    BY <1>8 DEF Cancel, rBarrier, Measuring, Cancelling
  <2>2. CASE t \notin created
    <3>1. Goto("main", next) BY <1>8, <2>2 DEF Cancel
    <3> QED BY <1>1, <1>2, <1>3, <2>1, <3>1
  <2>3. CASE t \in created
    <3>1. pc[t] \in CancelPoints /\ pc' = [pc EXCEPT !["main"] = next, ![t] = "done"]
      BY <1>8, <2>3 DEF Cancel
    <3>2. pc = [u \in Threads |-> pc[u]] /\ t \in Threads /\ t # "main" /\ "cp" \in Threads
      BY <1>0, Names DEF RunTypeOK, Background
    <3>3. pc'["main"] = next /\ pc'["cp"] = IF t = "cp" THEN "done" ELSE pc["cp"]
      BY <3>1, <3>2, Names
    <3>4. ASSUME NEW w \in Workers PROVE pc'[w] = pc[w]
      <4>1. w \in Threads /\ w # "main" /\ w # t BY Names
      <4> QED BY <3>1, <3>2, <4>1
    <3>5. Granted' = Granted BY <3>4 DEF Granted
    <3>6. pc'["cp"] # "none" => Checkpoints
      BY <1>0, <3>1, <3>3 DEF ReportersWait, CancelPoints
    <3> QED BY <1>1, <1>3, <2>1, <3>3, <3>5, <3>6
  <2> QED BY <2>2, <2>3
<1>9. CASE CancelThreads BY <1>8, <1>9 DEF CancelThreads, Background, Cancelling
<1> QED BY <1>4, <1>5, <1>6, <1>7, <1>9

(* The final report and the checkpoints thread aggregate behind            *)
(* report_barrier; the base of the measured stage stays.                   *)
LEMMA ReportStats ==
  ASSUME RunInv, StatsInv, FinalReport \/ CheckpointStep PROVE StatsInv'
<1> USE DEF Alive, NoStatus, At, rBarrier, limits
<1>0. /\ RunTypeOK /\ StatsTypeOK /\ ReportersWait /\ Limited /\ Measured
      /\ UNCHANGED <<options, counted, nevents, maxEvents, rPhase>>
      /\ Warmup' = Warmup /\ Checkpoints' = Checkpoints /\ RThreads' = RThreads
  <2>1. UNCHANGED <<options, counted, nevents, maxEvents, rPhase>>
    BY DEF FinalReport, CheckpointStep
  <2> QED BY <2>1, OptionsStay DEF RunInv, StatsInv
<1>1. ASSUME NEW t \in {"main", "cp"}, NEW there, Goto(t, there),
             agg' \in [Threads -> [sum : Int, old : Int]],
             lastCumulative' \in Int, reported' \in Int, UNCHANGED discarded,
             t = "main" => pc["main"] \in Ending /\ there \in Ending,
             t = "cp" => pc["cp"] \in {"sleep", "load", "store", "print"}
      PROVE  StatsInv'
  <2>1. /\ Granted' = Granted /\ pc'["main"] = IF t = "main" THEN there ELSE pc["main"]
        /\ pc'["cp"] = IF t = "cp" THEN there ELSE pc["cp"]
    BY <1>0, <1>1, OthersStay DEF Background
  <2>2. /\ pc["main"] \notin Early /\ pc'["main"] \notin Early /\ pc'["main"] \notin Warming
        /\ pc["main"] \notin Warming
    BY <1>0, <1>1, <2>1 DEF ReportersWait, Early, Warming, Ending
  <2>3. pc["main"] \in Measuring <=> pc'["main"] \in Measuring BY <1>1, <2>1 DEF Measuring
  <2>4. StatsTypeOK' BY <1>0, <1>1 DEF StatsTypeOK, Threads
  <2>5. ReportersWait'
    <3>1. pc'["cp"] # "none" => Checkpoints' BY <1>0, <1>1, <2>1 DEF ReportersWait
    <3> QED BY <2>2, <3>1 DEF ReportersWait, Early
  <2>6. Limited'
    <3>1. pc["main"] = "wmerge" <=> pc'["main"] = "wmerge" BY <2>2 DEF Warming
    <3> QED BY <1>0, <1>1, <2>2, <2>3, <3>1 DEF Limited
  <2>7. Base' = Base BY <1>0, <1>1, <2>2 DEF Base, Warming
  <2>8. Measured' BY <1>0, <2>1, <2>3, <2>7 DEF Measured
  <2> QED BY <2>4, <2>5, <2>6, <2>8 DEF StatsInv
<1>2. ASSUME NEW t \in {"main", "cp"} PROVE
        /\ t \in Threads /\ agg = [u \in Threads |-> agg[u]]
        /\ agg[t] \in [sum : Int, old : Int] /\ agg \in [Threads -> [sum : Int, old : Int]]
        /\ lastCumulative \in Int /\ reported \in Int /\ counted \in Int
  BY <1>0, Names DEF StatsTypeOK, Background
<1>3. ASSUME NEW t \in {"main", "cp"}, NEW there, AggMerge(t, there)
      PROVE  /\ agg' \in [Threads -> [sum : Int, old : Int]] /\ Goto(t, there)
             /\ lastCumulative' \in Int /\ reported' \in Int /\ UNCHANGED discarded
  BY <1>2, <1>3 DEF AggMerge
<1>4. ASSUME NEW t \in {"main", "cp"}, NEW there, AggLoad(t, there)
      PROVE  /\ agg' \in [Threads -> [sum : Int, old : Int]] /\ Goto(t, there)
             /\ lastCumulative' \in Int /\ reported' \in Int /\ UNCHANGED discarded
  BY <1>2, <1>4 DEF AggLoad
<1>5. ASSUME NEW t \in {"main", "cp"}, NEW there, AggStore(t, there),
             reported' = reported + AggDelta(t), UNCHANGED discarded
      PROVE  /\ agg' \in [Threads -> [sum : Int, old : Int]] /\ Goto(t, there)
             /\ lastCumulative' \in Int /\ reported' \in Int /\ UNCHANGED discarded
  BY <1>2, <1>5 DEF AggStore, AggDelta
<1>6. CASE FinalReport
  <2>1. pc["main"] \in Ending BY <1>6 DEF FinalReport, Ending
  <2>2. \E there \in Ending : AggMerge("main", there) \/ AggLoad("main", there)
           \/ (/\ AggStore("main", there) /\ UNCHANGED discarded
               /\ reported' = reported + AggDelta("main"))
    BY <1>6 DEF FinalReport, Ending
  <2> QED BY <1>1, <1>3, <1>4, <1>5, <2>1, <2>2
<1>7. CASE CheckpointStep
  <2>1. pc["cp"] \in {"sleep", "load", "store", "print"} BY <1>7 DEF CheckpointStep
  <2>2. \E there \in {"load", "store", "print"} : AggMerge("cp", there) \/ AggLoad("cp", there)
           \/ (/\ AggStore("cp", there) /\ UNCHANGED discarded
               /\ reported' = reported + AggDelta("cp"))
        \/ (Goto("cp", "done") /\ UNCHANGED stats)
    BY <1>7 DEF CheckpointStep
  <2>3. CASE Goto("cp", "done") /\ UNCHANGED stats BY <1>1, <1>2, <2>1, <2>3 DEF stats
  <2> QED BY <1>1, <1>3, <1>4, <1>5, <2>1, <2>2, <2>3
<1> QED BY <1>6, <1>7

(* The generator, the reports thread, the checkpoints thread up to its     *)
(* loop, the barriers and the clock.                                       *)
LEMMA BackgroundStats ==
  ASSUME RunInv, StatsInv,
         \/ Tick \/ WorkersReleased \/ ReportersReleased \/ GenStep \/ ReportStep
         \/ ReporterStart("rep") \/ ReporterStart("cp")
  PROVE  StatsInv'
<1> USE DEF Alive, NoStatus, At, rBarrier, limits
<1>0. /\ RunTypeOK /\ StatsTypeOK /\ ReportersWait
      /\ UNCHANGED <<options, stats, counted, nevents, maxEvents>>
      /\ rPhase \in [RThreads -> {"out", "in", "passed"}]
  <2>1. UNCHANGED <<options, stats, counted, nevents, maxEvents>>
    BY Zenon DEF Tick, WorkersReleased, ReportersReleased, GenStep, ReportStep, ReporterStart
  <2> QED BY <2>1 DEF RunInv, StatsInv, StatsTypeOK
<1>1. CASE Tick \/ WorkersReleased
  <2>1. UNCHANGED <<pc, rPhase>> BY <1>1 DEF Tick, WorkersReleased
  <2>2. Granted' = Granted BY <2>1 DEF Granted
  <2> QED BY <1>0, <2>1, <2>2, Unseen
<1>2. CASE ReportersReleased
  <2>1. /\ UNCHANGED pc /\ \A t \in RThreads : rPhase[t] = "in"
        /\ rPhase' = [t \in RThreads |-> "passed"]
    BY <1>2 DEF ReportersReleased, RB!Release
  <2>2. Granted' = Granted BY <2>1 DEF Granted
  <2>3. pc["main"] \notin Early BY <1>0, <2>1 DEF ReportersWait, RThreads
  <2>4. rPhase' \in [RThreads -> {"out", "in", "passed"}] BY <2>1
  <2>5. pc'["cp"] # "none" => Checkpoints BY <1>0, <2>1 DEF ReportersWait
  <2>6. pc'["main"] = pc["main"] BY <2>1
  <2> QED BY <1>0, <2>2, <2>3, <2>4, <2>5, <2>6, BackgroundSeen
<1>3. ASSUME NEW t \in {"gen", "rep"}, NEW there, Goto(t, there), UNCHANGED rPhase
      PROVE  StatsInv'
  <2>1. /\ Granted' = Granted /\ pc'["main"] = pc["main"] /\ pc'["cp"] = pc["cp"]
    BY <1>0, <1>3, OthersStay DEF Background
  <2> QED BY <1>0, <1>3, <2>1, Unseen
<1>4. CASE GenStep
  <2>1. UNCHANGED rPhase BY <1>4 DEF GenStep
  <2>2. \/ Goto("gen", "wbarrier") \/ Goto("gen", "failed") \/ Goto("gen", "done")
        \/ Goto("gen", "flag") \/ Goto("gen", "run")
    BY <1>4 DEF GenStep
  <2> QED BY <1>3, <2>1, <2>2
<1>5. CASE ReportStep
  <2>1. UNCHANGED rPhase BY <1>5 DEF ReportStep
  <2>2. Goto("rep", "print") \/ Goto("rep", "sleep") BY <1>5 DEF ReportStep
  <2> QED BY <1>3, <2>1, <2>2
<1>6. ASSUME NEW t \in {"rep", "cp"}, ReporterStart(t) PROVE StatsInv'
  <2>1. PICK there \in {"rbarrier", "no_lua", "flag", "sleep"} :
          /\ Goto(t, there)
          /\ there \in {"flag", "sleep"} => \/ pc[t] = "rbarrier" /\ rPhase[t] = "passed"
                                            \/ pc[t] = "flag"
          /\ there \in {"rbarrier", "no_lua"} => pc[t] = "init"
    BY <1>6 DEF ReporterStart, RB!Leave
  <2>2. \/ rPhase' = rPhase \/ rPhase' = [rPhase EXCEPT ![t] = "in"]
        \/ rPhase' = [rPhase EXCEPT ![t] = "out"]
    BY <1>6 DEF ReporterStart, RB!Leave, RB!Arrive
  <2>3. /\ Granted' = Granted /\ pc'["main"] = pc["main"]
        /\ pc'["cp"] = IF t = "cp" THEN there ELSE pc["cp"]
    BY <1>0, <2>1, OthersStay DEF Background
  <2>4. rPhase' \in [RThreads -> {"out", "in", "passed"}] BY <1>0, <2>2
  <2>5. pc'["cp"] # "none" => Checkpoints BY <1>0, <2>1, <2>3 DEF ReportersWait
  <2>6. ASSUME pc["main"] \in Early
        PROVE  /\ rPhase'["main"] = "out" /\ \A u \in RThreads : rPhase'[u] # "passed"
               /\ pc'["cp"] \in {"none", "init", "rbarrier", "no_lua"}
    <3>1. /\ rPhase["main"] = "out" /\ \A u \in RThreads : rPhase[u] # "passed"
          /\ pc["cp"] \in {"none", "init", "rbarrier", "no_lua"}
          /\ "main" \in RThreads
      BY <1>0, <2>6 DEF ReportersWait, RThreads
    <3>2. rPhase'["main"] = "out" /\ \A u \in RThreads : rPhase'[u] # "passed"
      BY <1>0, <2>2, <3>1
    <3>3. ASSUME t = "cp" PROVE there \in {"rbarrier", "no_lua"}
      <4>1. pc["cp"] = "rbarrier" => "cp" \in RThreads BY <1>0 DEF ReportersWait, RThreads
      <4> QED BY <2>1, <3>1, <3>3, <4>1
    <3> QED BY <2>3, <3>1, <3>2, <3>3
  <2> QED BY <1>0, <2>3, <2>4, <2>5, <2>6, BackgroundSeen
<1> QED BY <1>1, <1>2, <1>4, <1>5, <1>6

(* StatsInv is kept by every step.                                         *)
LEMMA StatsStep == RunInv /\ StatsInv /\ [Next]_vars => StatsInv'
<1> SUFFICES ASSUME RunInv, StatsInv, [Next]_vars PROVE StatsInv' OBVIOUS
<1>1. CASE UNCHANGED vars
  <2>1. UNCHANGED <<options, stats, counted, nevents, maxEvents, rPhase, pc>>
    BY <1>1 DEF vars, limits, rBarrier
  <2>2. Granted' = Granted BY <2>1 DEF Granted
  <2> QED BY <2>1, <2>2, Unseen
<1>2. CASE \E w \in Workers : WorkerStep(w) \/ WorkerHangs(w)
  BY <1>2, WorkerStats DEF RunInv
<1>3. CASE MainStep \/ CreateFails \/ CleanupFails \/ InitTimeout
  BY <1>3, StartStats, WarmupStats, MeasuringStats, ReportStats DEF MainStep
<1>4. CASE Tick \/ WorkersReleased \/ ReportersReleased \/ GenStep \/ Reporters
  BY <1>4, BackgroundStats, ReportStats DEF Reporters
<1> QED BY <1>1, <1>2, <1>3, <1>4 DEF Next

(* Only Return sets the exit status to 0, and nothing happens afterwards.  *)
LEMMA OnlyReturn ==
  ASSUME [Next]_vars, ret' = 0 PROVE (UNCHANGED vars /\ ret = 0) \/ (Return /\ ret # 0)
<1> USE DEF Alive, NoStatus, At
<1>1. CASE UNCHANGED vars BY <1>1 DEF vars
<1>2. CASE \E w \in Workers : WorkerStep(w) \/ WorkerHangs(w)
  <2> SUFFICES ASSUME NEW w \in Workers, WorkerStep(w) \/ WorkerHangs(w) PROVE FALSE
    BY <1>2
  <2>1. ret = -1 /\ ret' = ret
    BY DEF WorkerStep, WorkerHangs, WorkerInit, WorkerLeave, WorkerMore, WorkerQueue,
       WorkerEvent, WorkerFails
  <2> QED BY <2>1
<1>3. CASE MainStep
  <2>1. CASE \E t \in Started : CreateThread(t) BY <2>1 DEF CreateThread
  <2>2. CASE StartWarmup \/ MainArrive \/ EndWarmup \/ WarmupCheckpoint \/ MainReportArrive
    BY <2>2 DEF StartWarmup, MainArrive, EndWarmup, WarmupCheckpoint, MainReportArrive
  <2>3. CASE MainReportLeave \/ JoinWorkers \/ CancelThreads \/ FinalReport
    BY <2>3 DEF MainReportLeave, JoinWorkers, CancelThreads, Cancel, FinalReport
  <2>4. CASE MainLeave BY <2>4 DEF MainLeave, Exit
  <2>5. CASE Return BY <2>5 DEF Return
  <2> QED BY <1>3, <2>1, <2>2, <2>3, <2>4, <2>5 DEF MainStep
<1>4. CASE CreateFails \/ CleanupFails \/ InitTimeout
  BY <1>4 DEF CreateFails, CleanupFails, InitTimeout, Exit
<1>5. CASE Tick \/ WorkersReleased \/ ReportersReleased
  <2>1. ret = -1 /\ ret' = ret BY Zenon, <1>5 DEF Tick, WorkersReleased, ReportersReleased
  <2> QED BY <2>1
<1>6. CASE Reporters
  <2>1. ret = -1 /\ ret' = ret
    BY <1>6 DEF Reporters, ReporterStart, ReportStep, CheckpointStep
  <2> QED BY <2>1
<1>7. CASE GenStep
  <2>1. ret = -1 /\ ret' = ret BY <1>7 DEF GenStep
  <2> QED BY <2>1
<1> QED BY <1>1, <1>2, <1>3, <1>4, <1>5, <1>6, <1>7 DEF Next

(* The limit at the end: run_test() returns 0 out of the measured stage.   *)
LEMMA BoundStep ==
  RunInv /\ StatsInv /\ MeasuredBound /\ [Next]_vars => MeasuredBound'
<1> SUFFICES ASSUME RunInv, StatsInv, MeasuredBound, [Next]_vars, ret' = 0, MaxEvents > 0
             PROVE  counted' - discarded' <= MaxEvents + Cardinality(Workers)
  BY DEF MeasuredBound
<1>1. CASE UNCHANGED vars /\ ret = 0 BY <1>1 DEF vars, stats, MeasuredBound
<1>2. CASE Return
  <2>2. UNCHANGED <<counted, discarded>> /\ pc["main"] \in Ending
    BY <1>2 DEF Return, At, stats, Ending
  <2>3. counted + Cardinality(Granted) <= Base + MaxEvents
    BY <2>2 DEF StatsInv, Measured, Measuring
  <2>4. Base = (IF ~Warmup THEN 0 ELSE Cardinality(Workers) + discarded)
    BY <2>2 DEF Base, Ending
  <2>5. ~Warmup => discarded = 0 BY DEF StatsInv, Limited
  <2>6. counted \in Nat /\ discarded \in Int /\ MaxEvents \in Nat
    BY ConfigAssumption DEF StatsInv, StatsTypeOK
  <2> QED BY <2>2, <2>3, <2>4, <2>5, <2>6, GrantedType
<1> QED BY <1>1, <1>2, OnlyReturn

(* StatsInv holds throughout every run.                                    *)
THEOREM StatsInvariant == Spec => []StatsInv
<1>1. Init => StatsInv BY StatsStart
<1>2. RunInv /\ StatsInv /\ [Next]_vars => StatsInv' BY StatsStep
<1> QED BY <1>1, <1>2, RunInvariant, PTL DEF Spec

(* With --events=N a successful run measures at most N events, and with a  *)
(* warmup at most one more per worker: those granted when run_test()       *)
(* restored the limit.                                                     *)
THEOREM MeasuredIsBounded == Spec => []MeasuredBound
<1>1. Init => MeasuredBound BY DEF Init, MeasuredBound, NoStatus
<1>2. RunInv /\ StatsInv /\ MeasuredBound /\ [Next]_vars => MeasuredBound' BY BoundStep
<1> QED BY <1>1, <1>2, RunInvariant, StatsInvariant, PTL DEF Spec

----------------------------------------------------------------------------
(* The cumulative reports.                                                 *)

(* As long as aggregations do not overlap, last_cumulative_counters is     *)
(* what has been reported or discarded, an aggregation that is about to    *)
(* store has loaded it, and one behind the join has merged everything.     *)
Aggregated ==
  /\ pc["cp"] \in {"sleep", "load", "store", "print"} => "cp" \in created
  /\ reported + discarded = lastCumulative
  /\ pc["main"] \in {"wstore", "fstore"} => agg["main"].old = lastCumulative
  /\ pc["cp"] = "store" => agg["cp"].old = lastCumulative
  /\ pc["main"] \in {"fload", "fstore"} => agg["main"].sum = counted
  /\ pc["main"] \in Ending /\ pc["cp"] \in {"load", "store"} => agg["cp"].sum = counted
  /\ pc["main"] = "return" => lastCumulative = counted
  /\ ret = 0 => lastCumulative = counted

(* Steps that do not aggregate.                                            *)
LEMMA NotAggregating ==
  ASSUME Aggregated, UNCHANGED stats,
         pc'["cp"] \in {"sleep", "load", "store", "print"} => "cp" \in created',
         pc'["cp"] \in {"load", "store"} => pc'["cp"] = pc["cp"],
         pc'["main"] \in {"wstore", "fload", "fstore", "return"} => pc'["main"] = pc["main"],
         pc'["main"] \in Ending /\ pc'["cp"] \in {"load", "store"} => pc["main"] \in Ending,
         counted' = counted \/ (pc'["main"] \notin Ending /\ ret' # 0),
         ret' = 0 => ret = 0 \/ lastCumulative = counted'
  PROVE  Aggregated'
<1> USE DEF stats
<1>1. /\ pc'["main"] \in {"wstore", "fstore"} => agg'["main"].old = lastCumulative'
      /\ pc'["cp"] = "store" => agg'["cp"].old = lastCumulative'
      /\ reported' + discarded' = lastCumulative'
  BY DEF Aggregated
<1>2. /\ pc'["main"] \in {"fload", "fstore"} => agg'["main"].sum = counted'
      /\ pc'["main"] = "return" => lastCumulative' = counted'
  BY DEF Aggregated, Ending
<1>3. pc'["main"] \in Ending /\ pc'["cp"] \in {"load", "store"} => agg'["cp"].sum = counted'
  BY DEF Aggregated
<1>4. ret' = 0 => lastCumulative' = counted'
  BY DEF Aggregated
<1> QED BY <1>1, <1>2, <1>3, <1>4 DEF Aggregated

(* An event is counted only before the join.                               *)
LEMMA WorkerAgg ==
  ASSUME RunInv, Aggregated, NEW w \in Workers, WorkerStep(w) \/ WorkerHangs(w)
  PROVE  Aggregated'
<1> USE DEF Alive, NoStatus, At
<1>1. /\ UNCHANGED <<stats, created, ret>> /\ ret # 0
  BY DEF WorkerStep, WorkerHangs, WorkerInit, WorkerLeave, WorkerMore, WorkerQueue,
     WorkerEvent, WorkerFails
<1>2. counted' = counted \/ pc[w] = "event"
  BY DEF WorkerStep, WorkerHangs, WorkerInit, WorkerLeave, WorkerMore, WorkerQueue,
     WorkerEvent, WorkerFails
<1>3. pc[w] = "event" => pc["main"] \notin Ending BY DEF RunInv, JoinedInv
<1>4. \E there : Goto(w, there)
  <2>1. CASE WorkerInit(w) \/ WorkerHangs(w) \/ WorkerLeave(w)
    BY Zenon, <2>1 DEF WorkerInit, WorkerHangs, WorkerLeave
  <2>2. CASE WorkerMore(w) BY <2>2 DEF WorkerMore
  <2>3. CASE WorkerQueue(w) BY <2>3 DEF WorkerQueue
  <2>4. CASE WorkerEvent(w) BY <2>4 DEF WorkerEvent
  <2>5. CASE WorkerFails(w) BY <2>5 DEF WorkerFails
  <2> QED BY <2>1, <2>2, <2>3, <2>4, <2>5 DEF WorkerStep
<1>5. pc'["main"] = pc["main"] /\ pc'["cp"] = pc["cp"]
  BY Zenon, <1>4, GrantedMoves DEF RunInv, Goto
<1>6. pc'["cp"] \in {"sleep", "load", "store", "print"} => "cp" \in created'
  BY <1>1, <1>5 DEF Aggregated
<1> QED BY <1>1, <1>2, <1>3, <1>5, <1>6, NotAggregating

(* The main thread does not aggregate.                                     *)
LEMMA MainAgg ==
  ASSUME RunInv, Aggregated,
         \/ \E t \in Started : CreateThread(t)
         \/ StartWarmup \/ MainArrive \/ MainLeave \/ EndWarmup \/ MainReportArrive
         \/ MainReportLeave \/ JoinWorkers \/ CreateFails \/ CleanupFails \/ InitTimeout
         \/ Return
  PROVE  Aggregated'
<1> USE DEF Alive, NoStatus, At
<1>0. RunTypeOK BY DEF RunInv
<1>1. ASSUME NEW t \in Started, CreateThread(t) PROVE Aggregated'
  <2>1. UNCHANGED <<stats, created, counted, ret>> /\ ret # 0 /\ Goto(t, "init")
    BY <1>1 DEF CreateThread, Goto
  <2>2. pc'["main"] = pc["main"] /\ pc'["cp"] \in {"init", pc["cp"]}
    <3>1. CASE t \in Workers BY Zenon, <1>0, <2>1, <3>1, GrantedMoves DEF Goto
    <3>2. CASE t \notin Workers
      <4>1. t \in Background BY <3>2 DEF Started, Background
      <4> QED BY <1>0, <2>1, <4>1, OthersStay DEF Background
    <3> QED BY <3>1, <3>2
  <2>3. pc'["cp"] \in {"sleep", "load", "store", "print"} 
          => pc'["cp"] = pc["cp"] /\ "cp" \in created'
    BY <2>1, <2>2 DEF Aggregated
  <2> QED BY <2>1, <2>2, <2>3, NotAggregating
<1>2. ASSUME NEW there \in {"arrive", "wbarrier", "warmup", "rarrive", "wmerge", "rbarrier", "join",
                            "cancel_rep", "exit"},
             Goto("main", there), UNCHANGED <<stats, created, counted>>,
             ret' = 0 => ret = 0 \/ lastCumulative = counted'
      PROVE  Aggregated'
  <2>1. pc'["main"] = there /\ pc'["cp"] = pc["cp"] BY <1>0, <1>2, OthersStay DEF Background
  <2>2. pc'["cp"] \in {"sleep", "load", "store", "print"} => "cp" \in created'
    BY <1>2, <2>1 DEF Aggregated
  <2>3. pc'["main"] \notin Ending /\ pc'["main"] \notin {"wstore", "fload", "fstore", "return"}
    BY <1>2, <2>1 DEF Ending
  <2> QED BY <1>2, <2>1, <2>2, <2>3, NotAggregating
<1>3. CASE StartWarmup BY <1>2, <1>3 DEF StartWarmup
<1>4. CASE MainArrive BY <1>2, <1>4 DEF MainArrive
<1>5. CASE MainLeave
  <2>1. UNCHANGED <<stats, created, counted>> /\ ret' # 0 BY <1>5 DEF MainLeave, Exit
  <2>2. Goto("main", "exit") \/ Goto("main", "warmup") \/ Goto("main", "rarrive")
    BY <1>5 DEF MainLeave, Exit
  <2> QED BY <1>2, <2>1, <2>2
<1>6. CASE EndWarmup BY <1>2, <1>6 DEF EndWarmup
<1>7. CASE MainReportArrive BY <1>2, <1>7 DEF MainReportArrive
<1>8. CASE MainReportLeave BY <1>2, <1>8 DEF MainReportLeave
<1>9. CASE JoinWorkers BY <1>2, <1>9 DEF JoinWorkers
<1>10. CASE CreateFails \/ CleanupFails \/ InitTimeout
  <2>1. UNCHANGED <<stats, created, counted>> /\ ret' # 0 /\ Goto("main", "exit")
    BY <1>10 DEF CreateFails, CleanupFails, InitTimeout, Exit
  <2> QED BY <1>2, <2>1
<1>11. CASE Return
  <2>1. UNCHANGED <<stats, created, counted>> /\ Goto("main", "exit") BY <1>11 DEF Return, Exit
  <2>2. ret' = 0 => pc["main"] = "return" BY <1>11 DEF Return, Exit
  <2>3. ret' = 0 => lastCumulative = counted' BY <2>1, <2>2 DEF Aggregated
  <2> QED BY <1>2, <2>1, <2>3
<1> QED BY <1>1, <1>3, <1>4, <1>5, <1>6, <1>7, <1>8, <1>9, <1>10, <1>11

(* A checkpoint is not cancelled between its merge and its store: when the *)
(* final report begins the checkpoints thread has stored or has not merged.*)
LEMMA CancelAgg ==
  ASSUME RunInv, Aggregated, CancelThreads PROVE Aggregated'
<1> USE DEF Alive, NoStatus, At
<1>0. RunTypeOK BY DEF RunInv
<1>1. ASSUME NEW t \in Background, NEW here \in Cancelling, NEW next, Cancel(t, here, next),
             next \in {"cancel_gen", "cancel_cp"} \/ (next = "final" /\ t = "cp")
      PROVE  Aggregated'
  <2>1. UNCHANGED <<stats, created, counted, ret>> /\ ret # 0 BY <1>1 DEF Cancel
  <2>2. pc'["main"] = next /\ (pc'["cp"] = pc["cp"] \/ pc'["cp"] = "done")
        /\ (t = "cp" /\ "cp" \in created => pc'["cp"] = "done")
    <3>1. CASE t \notin created
      <4>1. Goto("main", next) BY <1>1, <3>1 DEF Cancel
      <4> QED BY <1>0, <3>1, <4>1, OthersStay DEF Background
    <3>2. CASE t \in created
      <4>1. pc' = [pc EXCEPT !["main"] = next, ![t] = "done"] BY <1>1, <3>2 DEF Cancel
      <4>2. pc = [u \in Threads |-> pc[u]] /\ t \in Threads /\ t # "main" /\ "cp" \in Threads
        BY <1>0, Names DEF RunTypeOK, Background
      <4> QED BY <4>1, <4>2, Names
    <3> QED BY <3>1, <3>2
  <2>3. pc'["cp"] \in {"sleep", "load", "store", "print"} 
          => pc'["cp"] = pc["cp"] /\ "cp" \in created
    BY <2>2 DEF Aggregated
  <2>4. pc'["main"] \in Ending => next = "final" BY <1>1, <2>2 DEF Ending
  <2>5. pc'["main"] \in Ending => pc'["cp"] \notin {"load", "store"} BY <1>1, <2>2, <2>3, <2>4
  <2>6. pc'["main"] \notin {"wstore", "fload", "fstore", "return"} BY <1>1, <2>2
  <2> QED BY <2>1, <2>2, <2>3, <2>5, <2>6, NotAggregating
<1> QED BY <1>1 DEF CancelThreads, Background, Cancelling

(* The other threads do not aggregate.                                     *)
LEMMA BackgroundAgg ==
  ASSUME RunInv, Aggregated,
         \/ Tick \/ WorkersReleased \/ ReportersReleased \/ GenStep \/ ReportStep
         \/ ReporterStart("rep") \/ ReporterStart("cp")
  PROVE  Aggregated'
<1> USE DEF Alive, NoStatus, At
<1>0. RunTypeOK BY DEF RunInv
<1>1. UNCHANGED <<stats, counted, ret>> /\ ret # 0 /\ created \subseteq created'
  <2>1. CASE Tick BY <2>1 DEF Tick
  <2>5. CASE WorkersReleased BY <2>5 DEF WorkersReleased
  <2>6. CASE ReportersReleased BY <2>6 DEF ReportersReleased
  <2>2. CASE GenStep BY <2>2 DEF GenStep
  <2>3. CASE ReportStep BY <2>3 DEF ReportStep
  <2>4. CASE ReporterStart("rep") \/ ReporterStart("cp") BY <2>4 DEF ReporterStart
  <2> QED BY <2>1, <2>2, <2>3, <2>4, <2>5, <2>6
<1>2. ASSUME pc'["main"] = pc["main"],
             \/ pc'["cp"] = pc["cp"] \/ pc'["cp"] \in {"rbarrier", "no_lua", "flag"}
             \/ pc'["cp"] = "sleep" /\ "cp" \in created'
      PROVE  Aggregated'
  <2>1. pc'["cp"] \in {"sleep", "load", "store", "print"} => "cp" \in created'
    BY <1>1, <1>2 DEF Aggregated
  <2>2. pc'["cp"] \in {"load", "store"} => pc'["cp"] = pc["cp"] BY <1>2
  <2> QED BY <1>1, <1>2, <2>1, <2>2, NotAggregating
<1>3. CASE Tick \/ WorkersReleased \/ ReportersReleased
  <2>1. UNCHANGED pc BY Zenon, <1>3 DEF Tick, WorkersReleased, ReportersReleased
  <2> QED BY <1>2, <2>1
<1>4. ASSUME NEW t \in {"gen", "rep"}, NEW there, Goto(t, there) PROVE Aggregated'
  <2>1. pc'["main"] = pc["main"] /\ pc'["cp"] = pc["cp"]
    BY <1>0, <1>4, OthersStay DEF Background
  <2> QED BY <1>2, <2>1
<1>5. CASE GenStep
  <2>1. \/ Goto("gen", "wbarrier") \/ Goto("gen", "failed") \/ Goto("gen", "done")
        \/ Goto("gen", "flag") \/ Goto("gen", "run")
    BY <1>5 DEF GenStep
  <2> QED BY <1>4, <2>1
<1>6. CASE ReportStep
  <2>1. Goto("rep", "print") \/ Goto("rep", "sleep") BY <1>6 DEF ReportStep
  <2> QED BY <1>4, <2>1
<1>7. ASSUME NEW t \in {"rep", "cp"}, ReporterStart(t) PROVE Aggregated'
  <2>1. PICK there \in {"rbarrier", "no_lua", "flag", "sleep"} :
          Goto(t, there) /\ (there = "sleep" => t \in created')
    BY <1>7 DEF ReporterStart
  <2>2. /\ pc'["main"] = pc["main"]
        /\ pc'["cp"] = IF t = "cp" THEN there ELSE pc["cp"]
    BY <1>0, <2>1, OthersStay DEF Background
  <2> QED BY <1>2, <2>1, <2>2
<1> QED BY <1>3, <1>5, <1>6, <1>7

(* Aggregations one at a time keep Aggregated.                             *)
LEMMA AggregationAgg ==
  ASSUME RunInv, StatsInv, SingleAggregator, Aggregated,
         WarmupCheckpoint \/ FinalReport \/ CheckpointStep
  PROVE  Aggregated'
<1> USE DEF Alive, NoStatus, At
<1>0. /\ RunTypeOK /\ UNCHANGED <<created, counted, ret>> /\ ret = -1
  BY DEF RunInv, WarmupCheckpoint, FinalReport, CheckpointStep
<1>1. ASSUME NEW t \in {"main", "cp"}
      PROVE  /\ t \in Threads /\ agg = [u \in Threads |-> agg[u]]
             /\ agg[t] \in [sum : Int, old : Int]
  BY Names DEF StatsInv, StatsTypeOK, Background
<1>2. lastCumulative \in Int /\ reported \in Int /\ discarded \in Int /\ counted \in Int
  BY DEF StatsInv, StatsTypeOK
<1>3. ASSUME NEW t \in {"main", "cp"}, NEW there, Goto(t, there)
      PROVE  /\ pc'["main"] = IF t = "main" THEN there ELSE pc["main"]
             /\ pc'["cp"] = IF t = "cp" THEN there ELSE pc["cp"]
  BY <1>0, <1>3, OthersStay DEF Background
<1>4. ASSUME NEW t \in {"main", "cp"}, NEW there, AggMerge(t, there),
             IF t = "main" THEN there \in {"wload", "fload"} ELSE there = "load",
             t = "cp" => pc["cp"] = "sleep",
             t = "main" => (pc["main"] \in Ending <=> there \in Ending)
      PROVE  Aggregated'
  <2>1. /\ Goto(t, there) /\ agg' = [agg EXCEPT ![t].sum = counted]
        /\ UNCHANGED <<lastCumulative, reported, discarded>>
    BY <1>4 DEF AggMerge
  <2>2. /\ agg'[t].sum = counted /\ agg'[t].old = agg[t].old
        /\ \A u \in {"main", "cp"} : u # t => agg'[u] = agg[u]
    BY <1>1, <2>1
  <2>3. /\ pc'["main"] = IF t = "main" THEN there ELSE pc["main"]
        /\ pc'["cp"] = IF t = "cp" THEN there ELSE pc["cp"]
    BY <1>3, <2>1
  <2>4. CASE t = "main" BY <1>0, <1>4, <2>1, <2>2, <2>3, <2>4 DEF Aggregated, Ending
  <2>5. CASE t = "cp" BY <1>0, <1>4, <2>1, <2>2, <2>3, <2>5 DEF Aggregated
  <2> QED BY <2>4, <2>5
<1>5. ASSUME NEW t \in {"main", "cp"}, NEW there, AggLoad(t, there),
             IF t = "main" THEN \/ pc["main"] = "wload" /\ there = "wstore"
                                \/ pc["main"] = "fload" /\ there = "fstore"
             ELSE pc["cp"] = "load" /\ there = "store"
      PROVE  Aggregated'
  <2>1. /\ Goto(t, there) /\ agg' = [agg EXCEPT ![t].old = lastCumulative]
        /\ UNCHANGED <<lastCumulative, reported, discarded>>
    BY <1>5 DEF AggLoad
  <2>2. /\ agg'[t].old = lastCumulative /\ agg'[t].sum = agg[t].sum
        /\ \A u \in {"main", "cp"} : u # t => agg'[u] = agg[u]
    BY <1>1, <2>1
  <2>3. /\ pc'["main"] = IF t = "main" THEN there ELSE pc["main"]
        /\ pc'["cp"] = IF t = "cp" THEN there ELSE pc["cp"]
    BY <1>3, <2>1
  <2>4. CASE t = "main" BY <1>0, <1>5, <2>1, <2>2, <2>3, <2>4 DEF Aggregated, Ending
  <2>5. CASE t = "cp" BY <1>0, <1>5, <2>1, <2>2, <2>3, <2>5 DEF Aggregated
  <2> QED BY <2>4, <2>5
<1>6. ASSUME NEW t \in {"main", "cp"}, NEW there, AggStore(t, there),
             reported' + discarded' = reported + discarded + AggDelta(t),
             IF t = "main" THEN \/ pc["main"] = "wstore" /\ there = "rarrive"
                                \/ pc["main"] = "fstore" /\ there = "return"
             ELSE pc["cp"] = "store" /\ there = "print"
      PROVE  Aggregated'
  <2>1. Goto(t, there) /\ UNCHANGED agg /\ lastCumulative' = agg[t].sum
    BY <1>6 DEF AggStore
  <2>2. agg[t].old = lastCumulative BY <1>6 DEF Aggregated
  <2>3. /\ pc'["main"] = IF t = "main" THEN there ELSE pc["main"]
        /\ pc'["cp"] = IF t = "cp" THEN there ELSE pc["cp"]
    BY <1>3, <2>1
  <2>4. reported' + discarded' = lastCumulative'
    <3>1. agg[t].sum \in Int /\ agg[t].old \in Int BY <1>1
    <3>2. reported' + discarded' = reported + discarded + (agg[t].sum - agg[t].old)
      BY <1>6 DEF AggDelta
    <3>3. reported + discarded = lastCumulative BY DEF Aggregated
    <3> QED BY <1>2, <2>1, <2>2, <3>1, <3>2, <3>3
  <2>5. CASE t = "main"
    <3>1. pc["cp"] # "store" BY <1>0, <1>6, <2>5 DEF SingleAggregator, Aggregating
    <3>2. there = "return" => lastCumulative' = counted BY <1>6, <2>1, <2>5 DEF Aggregated
    <3> QED BY <1>0, <1>6, <2>1, <2>3, <2>4, <2>5, <3>1, <3>2 DEF Aggregated, Ending
  <2>6. CASE t = "cp"
    <3>1. pc["main"] \notin {"wstore", "fload", "fstore"}
      BY <1>0, <1>6, <2>6 DEF SingleAggregator, Aggregating
    <3>2. pc["main"] = "return" => lastCumulative' = counted
      BY <1>6, <2>1, <2>6 DEF Aggregated, Ending
    <3> QED BY <1>0, <1>6, <2>1, <2>3, <2>4, <2>6, <3>1, <3>2 DEF Aggregated
  <2> QED BY <2>5, <2>6
<1>7. AggDelta("main") \in Int /\ AggDelta("cp") \in Int BY <1>1 DEF AggDelta
<1>8. CASE WarmupCheckpoint
  <2>1. CASE At("main", "wmerge") /\ AggMerge("main", "wload")
    BY <1>4, <2>1 DEF Ending
  <2>2. CASE At("main", "wload") /\ AggLoad("main", "wstore") BY <1>5, <2>2
  <2>3. CASE /\ At("main", "wstore") /\ AggStore("main", "rarrive")
             /\ discarded' = discarded + AggDelta("main") /\ UNCHANGED reported
    <3>1. reported' + discarded' = reported + discarded + AggDelta("main") BY <1>2, <1>7, <2>3
    <3> QED BY <1>6, <2>3, <3>1
  <2> QED BY <1>8, <2>1, <2>2, <2>3 DEF WarmupCheckpoint
<1>9. CASE FinalReport
  <2>1. CASE At("main", "final") /\ AggMerge("main", "fload")
    BY <1>4, <2>1 DEF Ending
  <2>2. CASE At("main", "fload") /\ AggLoad("main", "fstore") BY <1>5, <2>2
  <2>3. CASE /\ At("main", "fstore") /\ AggStore("main", "return")
             /\ reported' = reported + AggDelta("main") /\ UNCHANGED discarded
    <3>1. reported' + discarded' = reported + discarded + AggDelta("main") BY <1>2, <1>7, <2>3
    <3> QED BY <1>6, <2>3, <3>1
  <2> QED BY <1>9, <2>1, <2>2, <2>3 DEF FinalReport
<1>10. CASE CheckpointStep
  <2>1. CASE At("cp", "sleep") /\ AggMerge("cp", "load") BY <1>4, <2>1
  <2>2. CASE At("cp", "load") /\ AggLoad("cp", "store") BY <1>5, <2>2
  <2>3. CASE /\ At("cp", "store") /\ AggStore("cp", "print")
             /\ reported' = reported + AggDelta("cp") /\ UNCHANGED discarded
    <3>1. reported' + discarded' = reported + discarded + AggDelta("cp") BY <1>2, <1>7, <2>3
    <3> QED BY <1>6, <2>3, <3>1
  <2>4. CASE Goto("cp", "done") /\ UNCHANGED stats
    <3>1. pc'["main"] = pc["main"] /\ pc'["cp"] = "done" BY <1>3, <2>4
    <3> QED BY <1>0, <2>4, <3>1, NotAggregating
  <2> QED BY <1>10, <2>1, <2>2, <2>3, <2>4 DEF CheckpointStep
<1> QED BY <1>8, <1>9, <1>10

(* Every step keeps Aggregated unless two aggregations overlap.            *)
LEMMA AggregatedStep ==
  RunInv /\ StatsInv /\ SingleAggregator /\ Aggregated /\ [Next]_vars => Aggregated'
<1> SUFFICES ASSUME RunInv, StatsInv, SingleAggregator, Aggregated, [Next]_vars
             PROVE  Aggregated'
  OBVIOUS
<1>1. CASE UNCHANGED vars BY <1>1 DEF vars, stats, Aggregated
<1>2. CASE \E w \in Workers : WorkerStep(w) \/ WorkerHangs(w) BY <1>2, WorkerAgg
<1>3. CASE MainStep \/ CreateFails \/ CleanupFails \/ InitTimeout
  BY <1>3, MainAgg, CancelAgg, AggregationAgg DEF MainStep
<1>4. CASE Tick \/ WorkersReleased \/ ReportersReleased \/ GenStep \/ Reporters
  BY <1>4, BackgroundAgg, AggregationAgg DEF Reporters
<1> QED BY <1>1, <1>2, <1>3, <1>4 DEF Next

(* Every event is in exactly one cumulative report: when run_test() has    *)
(* returned 0 the checkpoint's and the final report add up to what the     *)
(* workers counted, less what the warmup checkpoint threw away, provided   *)
(* that two aggregations have never overlapped.                            *)
THEOREM EveryEventReportedOnce == Spec => ReportsAddUp
<1>1. Init => Aggregated
  <2> SUFFICES ASSUME Init PROVE Aggregated OBVIOUS
  <2>1. pc["main"] = "create" /\ pc["cp"] = "none"
    BY Names DEF Init, Background
  <2> QED BY <2>1 DEF Init, Aggregated, NoStatus, Ending
<1>2. RunInv /\ StatsInv /\ SingleAggregator /\ Aggregated /\ [Next]_vars => Aggregated'
  BY AggregatedStep
<1>3. Aggregated => (ret = 0 => reported + discarded = counted) BY DEF Aggregated
<1> QED BY <1>1, <1>2, <1>3, RunInvariant, StatsInvariant, PTL DEF Spec, ReportsAddUp
============================================================================
