---------------------------- MODULE EventProofs -----------------------------
(***************************************************************************)
(* What a worker does for an event, for any number of workers: how it gets *)
(* the event from the queue (EventLoop, and the lock-free Ring below it), and*)
(* how it compares the answers of several servers (Compare).  The three    *)
(* share no state.                                                         *)
(***************************************************************************)
EXTENDS Compare, Ring, EventLoop, FiniteSetTheorems, TLAPS

----------------------------------------------------------------------------
(***************************************************************************)
(* ServersAgree, NoFalseAlarm and MismatchPrinted of Compare, for any      *)
(* workers and servers and any number of writes and faults.  They are not  *)
(* inductive: what the servers hold between calls follows from how far each*)
(* call under way has come, and a comparison is right because the servers  *)
(* did not change between the first answer and the last.                   *)
(***************************************************************************)

Writes == Threads \X (Nat \ {0})
Answers == Seq(Writes) \cup {Unset, Wrong}
Calls == [op : {"idle", "reconnect", "query", "execute"}, kind : {"none", "select", "write"},
          i : 0 .. N, got : [Servers -> Answers]]

Running(w, k) == call[w].op \in {"query", "execute"} /\ call[w].kind = k

(* The write that a worker has issued last.                                *)
Current(w) == <<w, issued[w]>>

CompareTypeOK ==
  /\ call \in [Threads -> Calls]
  /\ \A w \in Threads : call[w].op \in {"idle", "reconnect"} =>
       call[w].kind = "none" /\ call[w].i < N
  /\ written \in [Servers -> Seq(Writes)]
  /\ issued \in [Threads -> Nat]
  /\ \A w \in Threads : Running(w, "write") => issued[w] # 0

(* Servers hold writes that were issued.                                   *)
IssuedInv ==
  \A i \in Servers : \A p \in Range(written[i]) : p[2] <= issued[p[1]]

(* A write under way has reached the servers its call has visited; all     *)
(* other writes have reached every server.                                 *)
ReachInv ==
  /\ \A w \in Threads : Running(w, "write") =>
       \A i \in Servers : Current(w) \in Range(written[i]) <=> i < call[w].i
  /\ \A i, j \in Servers : \A p \in Range(written[i]) :
       p \in Range(written[j]) \/ \E w \in Threads : Running(w, "write") /\ p = Current(w)

(* As long as no calls have overlapped, a write runs alone and the servers *)
(* it has visited are ahead of the others by it.                           *)
OrderInv ==
  /\ \A w, v \in Threads : Running(w, "write") /\ (Running(v, "write") \/ Running(v, "select")) =>
       w = v
  /\ (\A w \in Threads : ~Running(w, "write")) => \A i, j \in Servers : written[i] = written[j]
  /\ \A w \in Threads : Running(w, "write") =>
       \A i, j \in Servers :
         /\ (i < call[w].i <=> j < call[w].i) => written[i] = written[j]
         /\ i < call[w].i /\ ~(j < call[w].i) => written[i] = Append(written[j], Current(w))

(* The answers compared so far are what the servers hold.                  *)
AnswerInv ==
  \A w \in Threads : Running(w, "select") =>
    \A i \in Servers : i < call[w].i => call[w].got[i] = Printed(call[w].op, written[i])

CompareInv ==
  /\ CompareTypeOK /\ IssuedInv
  /\ ~failed /\ ~crashed => ReachInv
  /\ ~failed /\ ~crashed /\ ~overlapped => OrderInv
  /\ ~failed /\ ~crashed /\ ~overlapped /\ ~lied => AnswerInv

----------------------------------------------------------------------------
LEMMA AppendSet ==
  ASSUME NEW S, NEW s \in Seq(S), NEW e \in S
  PROVE  Append(s, e) \in Seq(S) /\ Range(Append(s, e)) = Range(s) \cup {e}
<1>1. Append(s, e) \in Seq(S) OBVIOUS
<1>2. ASSUME NEW x \in Range(Append(s, e)) PROVE x \in Range(s) \cup {e}
  BY <1>2 DEF Range
<1>3. ASSUME NEW x \in Range(s) PROVE x \in Range(Append(s, e))
  BY <1>3 DEF Range
<1>4. e \in Range(Append(s, e))
  <2>1. Append(s, e)[Len(s) + 1] = e /\ Len(s) + 1 \in DOMAIN Append(s, e) OBVIOUS
  <2> QED BY <2>1 DEF Range
<1> QED BY <1>1, <1>2, <1>3, <1>4

LEMMA IdleType == Idle \in Calls /\ Idle.i < N
BY CompareAssumption DEF Idle, Calls, NoAnswers, Answers

(* A step that leaves the servers and the running calls alone.             *)
LEMMA QuietStep ==
  ASSUME CompareInv, UNCHANGED <<written, issued, crashed, overlapped, lied>>,
         failed => failed', CompareTypeOK',
         \A w \in Threads : /\ call[w].op \in {"query", "execute"} => call'[w] = call[w]
                            /\ call'[w].op \in {"query", "execute"} => call'[w] = call[w]
  PROVE  CompareInv'
<1> USE DEF Running, Current
<1>1. IssuedInv' BY DEF CompareInv, IssuedInv
<1>2. \A w \in Threads : /\ Running(w, "write")' <=> Running(w, "write")
                         /\ Running(w, "select")' <=> Running(w, "select")
  OBVIOUS
<1>3. ReachInv => ReachInv' BY <1>2 DEF ReachInv
<1>4. OrderInv => OrderInv' BY <1>2 DEF OrderInv
<1>5. AnswerInv => AnswerInv' BY <1>2 DEF AnswerInv
<1> QED BY <1>1, <1>3, <1>4, <1>5 DEF CompareInv

(* After a failed call or a crash only the types and IssuedInv are left.   *)
LEMMA SpoiledStep ==
  ASSUME CompareTypeOK', IssuedInv', failed' \/ crashed'
  PROVE  CompareInv'
BY DEF CompareInv

LEMMA CrashStep ==
  ASSUME CompareInv, Crash, UNCHANGED <<written, issued>>
  PROVE  CompareInv'
<1>1. CompareTypeOK' BY IdleType DEF Crash, CompareInv, CompareTypeOK, Running, Idle
<1>2. IssuedInv' BY DEF CompareInv, IssuedInv
<1> QED BY <1>1, <1>2, SpoiledStep DEF Crash

LEMMA InitInv == CompareInit => CompareInv
<1> SUFFICES ASSUME CompareInit PROVE CompareInv OBVIOUS
<1>1. \A w \in Threads : call[w] = Idle BY DEF CompareInit
<1>2. \A i \in Servers : written[i] = <<>> /\ Range(written[i]) = {} BY DEF CompareInit, Range
<1>3. CompareTypeOK BY <1>1, IdleType DEF CompareInit, CompareTypeOK, Running, Idle
<1>4. IssuedInv BY <1>2 DEF IssuedInv
<1>5. ReachInv BY <1>1, <1>2 DEF ReachInv, Running, Idle
<1>6. OrderInv BY <1>1, <1>2 DEF OrderInv, Running, Idle
<1>7. AnswerInv BY <1>1 DEF AnswerInv, Running, Idle
<1> QED BY <1>3, <1>4, <1>5, <1>6, <1>7 DEF CompareInv

(* Connecting, preparing, closing and ending a thread.                     *)
LEMMA SetupInv ==
  ASSUME CompareInv, NEW w \in Threads,
         \/ mysql_drv_connect(w) \/ mysql_drv_disconnect(w) \/ ThreadFails(w)
         \/ \E k \in {"select", "write", "control"} : mysql_drv_prepare(w, k)
         \/ mysql_drv_close(w) \/ mysql_drv_free_results(w)
  PROVE  CompareInv'
<1>1. CASE /\ UNCHANGED <<call, written, issued, crashed, overlapped, lied>>
           /\ failed => failed'
  <2>1. CompareTypeOK' BY <1>1 DEF CompareInv, CompareTypeOK, Running
  <2> QED BY <1>1, <2>1, QuietStep
<1>2. CASE Crash /\ UNCHANGED <<written, issued>> BY <1>2, CrashStep
<1> QED BY <1>1, <1>2 DEF mysql_drv_connect, mysql_drv_disconnect, ThreadFails,
      mysql_drv_prepare, mysql_drv_close, mysql_drv_free_results, history

LEMMA ReconnectInv ==
  ASSUME CompareInv, NEW w \in Threads, mysql_drv_reconnect(w) \/ ReconnectStep(w)
  PROVE  CompareInv'
<1>1. CASE /\ UNCHANGED <<written, issued, crashed, failed, overlapped, lied>>
           /\ call[w].op \in {"idle", "reconnect"}
           /\ \E c \in Calls : /\ call' = [call EXCEPT ![w] = c]
                               /\ c.op \in {"idle", "reconnect"} /\ c.kind = "none" /\ c.i < N
  <2>1. CompareTypeOK' BY <1>1 DEF CompareInv, CompareTypeOK, Running
  <2>2. \A v \in Threads : /\ call[v].op \in {"query", "execute"} => call'[v] = call[v]
                           /\ call'[v].op \in {"query", "execute"} => call'[v] = call[v]
    BY <1>1 DEF CompareInv, CompareTypeOK
  <2> QED BY <1>1, <2>1, <2>2, QuietStep
<1>2. CASE Crash /\ UNCHANGED <<written, issued>> BY <1>2, CrashStep
<1>3. CASE mysql_drv_reconnect(w)
  <2> DEFINE c == [Idle EXCEPT !.op = "reconnect"]
  <2>1. c \in Calls /\ c.op = "reconnect" /\ c.kind = "none" /\ c.i < N
    BY IdleType DEF Idle, Calls
  <2>2. call' = [call EXCEPT ![w] = c] /\ call[w].op = "idle"
        /\ UNCHANGED <<written, issued, crashed, failed, overlapped, lied>>
    BY <1>3 DEF mysql_drv_reconnect, Free, history
  <2>3. \E d \in Calls : /\ call' = [call EXCEPT ![w] = d]
                        /\ d.op \in {"idle", "reconnect"} /\ d.kind = "none" /\ d.i < N
    <3> HIDE DEF c
    <3> QED BY Zenon, <2>1, <2>2
  <2> QED BY Zenon, <1>1, <2>2, <2>3
<1>4. CASE ReconnectStep(w)
  <2> DEFINE c == [call[w] EXCEPT !.i = @ + 1]
  <2>1. call[w] \in Calls /\ (call[w].op = "reconnect" => call[w].kind = "none")
    BY DEF CompareInv, CompareTypeOK
  <2>2. CASE call' = [call EXCEPT ![w].i = @ + 1] /\ call[w].i + 1 < N /\ UNCHANGED crashed
    <3>1. c \in Calls /\ c.op = call[w].op /\ c.kind = call[w].kind /\ c.i < N
      BY <2>1, <2>2, CompareAssumption DEF Calls
    <3>2. call' = [call EXCEPT ![w] = c] BY <2>2
    <3>3. call[w].op = "reconnect" /\ UNCHANGED <<written, issued, failed, overlapped, lied>>
      BY <1>4 DEF ReconnectStep, history
    <3>4. \E d \in Calls : /\ call' = [call EXCEPT ![w] = d]
                          /\ d.op \in {"idle", "reconnect"} /\ d.kind = "none" /\ d.i < N
      <4> HIDE DEF c
      <4> QED BY Zenon, <2>1, <3>1, <3>2, <3>3
    <3> QED BY Zenon, <1>1, <2>2, <3>3, <3>4
  <2>3. CASE call' = [call EXCEPT ![w] = Idle] /\ UNCHANGED crashed
    <3>1. Idle.op = "idle" /\ Idle.kind = "none" BY DEF Idle
    <3> QED BY Zenon, <1>1, <1>4, <2>3, <3>1, IdleType DEF ReconnectStep, history
  <2> QED BY <1>2, <1>4, <2>2, <2>3 DEF ReconnectStep
<1> QED BY <1>3, <1>4

(* A call begins.  A write is a new one, which no server has; what other   *)
(* calls are doing when it begins decides whether calls overlap.           *)
LEMMA BeginInv ==
  ASSUME CompareInv, NEW w \in Threads, NEW op \in {"query", "execute"},
         NEW k \in {"select", "write"}, call[w].op = "idle", Begin(w, op, k),
         UNCHANGED <<written, crashed, failed, lied>>
  PROVE  CompareInv'
<1> DEFINE c == [Idle EXCEPT !.op = op, !.kind = k]
<1>1. c \in Calls /\ c.op = op /\ c.kind = k /\ c.i = 0 BY Zenon, IdleType DEF Idle, Calls
<1>2. /\ call' = [call EXCEPT ![w] = c]
      /\ issued' = IF k = "write" THEN [issued EXCEPT ![w] = @ + 1] ELSE issued
  BY DEF Begin
<1> HIDE DEF c
<1> call \in [Threads -> Calls] /\ issued \in [Threads -> Nat] /\ IssuedInv
    /\ written \in [Servers -> Seq(Writes)]
  BY DEF CompareInv, CompareTypeOK
<1>3. call'[w] = c /\ \A v \in Threads : v # w => call'[v] = call[v] BY <1>2
<1>4. \A v \in Threads : v # w => issued'[v] = issued[v] BY <1>2
<1>5. issued'[w] = issued[w] + (IF k = "write" THEN 1 ELSE 0) BY <1>2
<1>6. CompareTypeOK'
  BY <1>1, <1>2, <1>3, <1>4, <1>5 DEF CompareInv, CompareTypeOK, Running
<1>7. ASSUME NEW i \in Servers, NEW p \in Range(written[i])
      PROVE  p \in Writes /\ p[1] \in Threads /\ p[2] \in Nat /\ p[2] <= issued[p[1]]
  <2>1. p \in Writes BY DEF Range
  <2> QED BY <2>1 DEF IssuedInv, Writes
<1>8. IssuedInv' BY <1>4, <1>5, <1>7 DEF IssuedInv
<1>9. k = "write" => \A i \in Servers : <<w, issued'[w]>> \notin Range(written[i])
  BY <1>5, <1>7
<1>10. \A v \in Threads : v # w =>
         /\ Running(v, "write")' <=> Running(v, "write")
         /\ Running(v, "select")' <=> Running(v, "select")
         /\ Current(v)' = Current(v)
  BY <1>3, <1>4 DEF Running, Current
<1>11. /\ ~Running(w, "write") /\ ~Running(w, "select")
       /\ Running(w, "write")' <=> k = "write"
       /\ Running(w, "select")' <=> k = "select"
  BY <1>1, <1>3 DEF Running
<1>12. ReachInv => ReachInv'
  <2> SUFFICES ASSUME ReachInv PROVE ReachInv' OBVIOUS
  <2>1. ASSUME NEW v \in Threads, Running(v, "write")', NEW i \in Servers
        PROVE  Current(v)' \in Range(written[i]) <=> i < call'[v].i
    <3>1. CASE v = w
      <4>1. k = "write" /\ call'[v].i = 0 BY <1>1, <1>3, <1>11, <2>1, <3>1
      <4>2. ~(i < call'[v].i) BY <4>1 DEF Servers
      <4>3. Current(v)' = <<w, issued'[w]>> BY <3>1 DEF Current
      <4> QED BY Zenon, <1>9, <4>1, <4>2, <4>3
    <3>2. CASE v # w BY <1>3, <1>10, <2>1, <3>2 DEF ReachInv
    <3> QED BY <3>1, <3>2
  <2>2. ASSUME NEW i \in Servers, NEW j \in Servers, NEW p \in Range(written[i])
        PROVE  p \in Range(written[j]) \/ \E v \in Threads : Running(v, "write")' /\ p = Current(v)'
    BY <1>10, <1>11 DEF ReachInv
  <2> QED BY <2>1, <2>2 DEF ReachInv
<1>13. ~overlapped' => ~overlapped /\ \A v \in Threads : v # w =>
         ~Running(v, "write") /\ (k = "write" => ~Running(v, "select"))
  BY Zenon DEF Begin, Busy, Running
<1>14. OrderInv /\ ~overlapped' => OrderInv'
  <2> SUFFICES ASSUME OrderInv, ~overlapped' PROVE OrderInv' OBVIOUS
  <2>1. \A v \in Threads : ~Running(v, "write") BY <1>11, <1>13
  <2>2. \A i, j \in Servers : written[i] = written[j] BY <2>1 DEF OrderInv
  <2>3. \A v \in Threads : Running(v, "write")' => v = w /\ k = "write" BY <1>10, <1>11, <2>1
  <2>4. \A v, u \in Threads : Running(v, "write")' /\ (Running(u, "write")' \/ Running(u, "select")')
          => v = u
    BY <1>10, <1>11, <1>13, <2>3
  <2>5. \A v \in Threads : Running(v, "write")' => \A i \in Servers : ~(i < call'[v].i)
    BY <1>1, <1>3, <2>3 DEF Servers
  <2> QED BY <2>2, <2>4, <2>5 DEF OrderInv
<1>15. AnswerInv => AnswerInv'
  <2> SUFFICES ASSUME AnswerInv, NEW v \in Threads, Running(v, "select")',
                      NEW i \in Servers, i < call'[v].i
               PROVE  call'[v].got[i] = Printed(call'[v].op, written[i])
    BY DEF AnswerInv
  <2>1. v # w BY <1>1, <1>3 DEF Servers
  <2> QED BY <1>3, <1>10, <2>1 DEF AnswerInv
<1> QED BY <1>6, <1>8, <1>12, <1>13, <1>14, <1>15 DEF CompareInv

(* A call that fails spoils the agreement; nothing but a write that was    *)
(* issued is added.                                                        *)
LEMMA ServerFailsInv ==
  ASSUME CompareInv, NEW w \in Threads, ServerFails(w)
  PROVE  CompareInv'
<1> call \in [Threads -> Calls] /\ issued \in [Threads -> Nat] /\ IssuedInv
    /\ written \in [Servers -> Seq(Writes)]
  BY DEF CompareInv, CompareTypeOK
<1>1. failed' /\ UNCHANGED issued /\ (UNCHANGED written \/ Executes(w, call[w].i))
      /\ call[w].i \in Servers /\ call[w].op \in {"query", "execute"}
  BY CompareAssumption DEF ServerFails, CheckError, Calls, Servers
<1>2. \/ call' = [call EXCEPT ![w] = Idle]
      \/ call' = [call EXCEPT ![w] = [Idle EXCEPT !.op = "reconnect"]]
  BY DEF ServerFails, CheckError
<1>3. /\ Idle \in Calls /\ Idle.op = "idle" /\ Idle.kind = "none" /\ Idle.i < N
      /\ [Idle EXCEPT !.op = "reconnect"] \in Calls
      /\ [Idle EXCEPT !.op = "reconnect"].op = "reconnect"
      /\ [Idle EXCEPT !.op = "reconnect"].kind = "none"
      /\ [Idle EXCEPT !.op = "reconnect"].i < N
  BY IdleType DEF Idle, Calls
<1>4. \E d \in Calls : /\ call' = [call EXCEPT ![w] = d]
                      /\ d.op \in {"idle", "reconnect"} /\ d.kind = "none" /\ d.i < N
  BY Zenon, <1>2, <1>3
<1>5. CASE UNCHANGED written
  <2>1. CompareTypeOK' BY <1>1, <1>4, <1>5 DEF CompareInv, CompareTypeOK, Running
  <2>2. IssuedInv' BY <1>1, <1>5 DEF IssuedInv
  <2> QED BY <1>1, <2>1, <2>2, SpoiledStep
<1>6. CASE written' = [written EXCEPT ![call[w].i] = Append(@, Current(w))]
           /\ Running(w, "write")
  <2>1. Current(w) \in Writes /\ Current(w)[1] = w /\ Current(w)[2] = issued[w]
    BY <1>6 DEF CompareInv, CompareTypeOK, Current, Writes
  <2>2. written' \in [Servers -> Seq(Writes)] BY Zenon, <1>6, <2>1, AppendSet
  <2>3. \A i \in Servers : Range(written'[i]) \subseteq Range(written[i]) \cup {Current(w)}
    BY <1>1, <1>6, <2>1, AppendSet
  <2>4. CompareTypeOK' BY <1>1, <1>4, <2>2 DEF CompareInv, CompareTypeOK, Running
  <2>5. IssuedInv'
    <3> SUFFICES ASSUME NEW i \in Servers, NEW p \in Range(written'[i])
                 PROVE  p[2] <= issued[p[1]]
      BY <1>1 DEF IssuedInv
    <3>1. CASE p \in Range(written[i]) BY <3>1 DEF IssuedInv
    <3>2. CASE p = Current(w) BY <2>1, <3>2
    <3> QED BY <2>3, <3>1, <3>2
  <2> QED BY <1>1, <2>4, <2>5, SpoiledStep
<1> QED BY <1>1, <1>5, <1>6 DEF Executes, Running, Current

(* A server executes a write and the call goes on to the next one.         *)
LEMMA WriteStep ==
  ASSUME CompareInv, NEW w \in Threads, ServerAnswers(w), call[w].kind = "write"
  PROVE  CompareInv'
<1> DEFINE k == call[w].i
<1> call \in [Threads -> Calls] /\ issued \in [Threads -> Nat] /\ IssuedInv
    /\ written \in [Servers -> Seq(Writes)]
  BY DEF CompareInv, CompareTypeOK
<1>1. /\ Running(w, "write") /\ k \in Servers /\ k \in Nat /\ k + 1 \in 0 .. N
      /\ UNCHANGED <<issued, failed, crashed, overlapped, lied>>
      /\ written' = [written EXCEPT ![k] = Append(@, Current(w))]
      /\ call' = [call EXCEPT ![w].i = k + 1, ![w].got[k] = Unset]
  <2>1. k \in Nat /\ k \in Servers /\ k + 1 \in 0 .. N
    BY CompareAssumption DEF ServerAnswers, Calls, Servers
  <2>2. Running(w, "write") /\ UNCHANGED <<issued, failed, crashed, overlapped>>
    BY DEF ServerAnswers, Running
  <2>3. written' = [written EXCEPT ![k] = Append(@, Current(w))]
    BY DEF ServerAnswers, Executes, Current
  <2>4. call' = [call EXCEPT ![w].i = NextServer("write", @), ![w].got[k] = Unset] /\ UNCHANGED lied
    BY Zenon DEF ServerAnswers
  <2> QED BY <2>1, <2>2, <2>3, <2>4 DEF NextServer
<1> HIDE DEF k
<1>2. Current(w) \in Writes /\ Current(w)[1] = w /\ Current(w)[2] = issued[w]
  BY <1>1 DEF CompareInv, CompareTypeOK, Current, Writes
<1>3. /\ written' \in [Servers -> Seq(Writes)]
      /\ written'[k] = Append(written[k], Current(w))
      /\ Range(written'[k]) = Range(written[k]) \cup {Current(w)}
      /\ \A i \in Servers : i # k => written'[i] = written[i]
  BY <1>1, <1>2, AppendSet
<1>4. /\ call' \in [Threads -> Calls]
      /\ call'[w].op = call[w].op /\ call'[w].kind = "write" /\ call'[w].i = k + 1
      /\ \A v \in Threads : v # w => call'[v] = call[v]
  BY Zenon, <1>1 DEF Calls, Answers, Running
<1>5. \A v \in Threads : /\ Running(v, "write")' <=> Running(v, "write")
                         /\ Running(v, "select")' <=> Running(v, "select")
                         /\ Current(v)' = Current(v)
  BY <1>1, <1>4 DEF Running, Current
<1>6. CompareTypeOK'
  <2>1. \A v \in Threads : call'[v].op \in {"idle", "reconnect"} =>
          call'[v].kind = "none" /\ call'[v].i < N
    BY <1>1, <1>4 DEF CompareInv, CompareTypeOK, Running
  <2> QED BY <1>1, <1>3, <1>4, <1>5, <2>1 DEF CompareInv, CompareTypeOK
<1>7. IssuedInv'
  <2> SUFFICES ASSUME NEW i \in Servers, NEW p \in Range(written'[i])
               PROVE  p[2] <= issued[p[1]]
    BY <1>1 DEF IssuedInv
  <2>1. CASE p \in Range(written[i]) BY <2>1 DEF IssuedInv
  <2>2. CASE p = Current(w) BY <1>2, <2>2
  <2> QED BY Zenon, <1>3, <2>1, <2>2
<1>8. \A v \in Threads : v # w => Current(v) # Current(w) BY DEF Current
<1>9. ReachInv => ReachInv'
  <2> SUFFICES ASSUME ReachInv PROVE ReachInv' OBVIOUS
  <2>1. ASSUME NEW v \in Threads, Running(v, "write"), NEW i \in Servers
        PROVE  Current(v) \in Range(written'[i]) <=> i < call'[v].i
    <3>1. Current(v) \in Range(written[i]) <=> i < call[v].i BY <2>1 DEF ReachInv
    <3>2. CASE v # w BY Zenon, <1>3, <1>4, <1>8, <3>1, <3>2
    <3>3. CASE v = w
      <4>1. i < k + 1 <=> i < k \/ i = k BY <1>1 DEF Servers
      <4>2. call[w].i = k BY DEF k
      <4> QED BY Zenon, <1>3, <1>4, <3>1, <3>3, <4>1, <4>2
    <3> QED BY <3>2, <3>3
  <2>2. ASSUME NEW i \in Servers, NEW j \in Servers, NEW p \in Range(written'[i])
        PROVE  p \in Range(written'[j]) \/ \E v \in Threads : Running(v, "write") /\ p = Current(v)
    BY <1>1, <1>3 DEF ReachInv
  <2> QED BY Zenon, <1>5, <2>1, <2>2 DEF ReachInv
<1>10. OrderInv => OrderInv'
  <2> SUFFICES ASSUME OrderInv PROVE OrderInv' OBVIOUS
  <2>1. \A v \in Threads : Running(v, "write") => v = w BY <1>1 DEF OrderInv
  <2>2. ASSUME NEW i \in Servers, NEW j \in Servers
        PROVE  /\ (i < k <=> j < k) => written[i] = written[j]
               /\ i < k /\ ~(j < k) => written[i] = Append(written[j], Current(w))
    BY <1>1 DEF OrderInv, k
  <2>3. ASSUME NEW i \in Servers, NEW j \in Servers
        PROVE  /\ (i < k + 1 <=> j < k + 1) => written'[i] = written'[j]
               /\ i < k + 1 /\ ~(j < k + 1) => written'[i] = Append(written'[j], Current(w))
    <3>1. /\ i < k + 1 <=> i < k \/ i = k
          /\ j < k + 1 <=> j < k \/ j = k
          /\ ~(k < k)
      BY <1>1 DEF Servers
    <3>2. /\ i < k => written[i] = Append(written[k], Current(w))
          /\ j < k => written[j] = Append(written[k], Current(w))
          /\ ~(j < k) => written[j] = written[k]
          /\ ~(i < k) => written[i] = written[k]
      BY <1>1, <2>2, <3>1
    <3> QED BY Zenon, <1>3, <3>1, <3>2
  <2>4. \A v, u \in Threads :
          Running(v, "write")' /\ (Running(u, "write")' \/ Running(u, "select")') => v = u
    BY <1>5 DEF OrderInv
  <2>5. Running(w, "write")' BY <1>1, <1>5
  <2>6. \A v \in Threads : Running(v, "write")' => v = w BY <1>5, <2>1
  <2> QED BY <1>4, <1>5, <2>3, <2>4, <2>5, <2>6 DEF OrderInv
<1>11. OrderInv /\ AnswerInv => AnswerInv'
  BY <1>1, <1>5 DEF OrderInv, AnswerInv, Running
<1> QED BY <1>1, <1>6, <1>7, <1>9, <1>10, <1>11 DEF CompareInv

(* A server answers a SELECT.                                              *)
LEMMA SelectStep ==
  ASSUME CompareInv, NEW w \in Threads, ServerAnswers(w), call[w].kind # "write"
  PROVE  CompareInv'
<1> DEFINE k == call[w].i
<1> call \in [Threads -> Calls] /\ written \in [Servers -> Seq(Writes)]
  BY DEF CompareInv, CompareTypeOK
<1>1. k \in Nat /\ k \in Servers /\ k + 1 \in 0 .. N /\ call[w].op \in {"query", "execute"}
  BY CompareAssumption DEF ServerAnswers, Calls, Servers
<1>2. UNCHANGED <<written, issued, failed, crashed, overlapped>>
  BY DEF ServerAnswers, Executes
<1>3. \E a \in Answers :
        /\ call' = [call EXCEPT ![w].i = k + 1, ![w].got[k] = a]
        /\ \/ lied'
           \/ ~lied' /\ ~lied /\ (call[w].kind = "select" => a = Printed(call[w].op, written[k]))
           \/ lied
  <2>1. Printed(call[w].op, written[k]) \in Answers /\ Unset \in Answers /\ Wrong \in Answers
    BY <1>1 DEF Printed, Answers
  <2>2. CASE /\ call' = [call EXCEPT ![w].i = NextServer(call[w].kind, @),
                           ![w].got[k] = IF call[w].kind = "select"
                                         THEN Printed(call[w].op, written[k]) ELSE Unset]
             /\ UNCHANGED lied
    BY Zenon, <2>1, <2>2 DEF NextServer
  <2>3. CASE /\ call' = [call EXCEPT ![w].i = NextServer(call[w].kind, @), ![w].got[k] = Wrong]
             /\ lied' = TRUE
    BY Zenon, <2>1, <2>3 DEF NextServer
  <2> QED BY <2>2, <2>3, Zenon DEF ServerAnswers
<1> PICK a \in Answers :
        /\ call' = [call EXCEPT ![w].i = k + 1, ![w].got[k] = a]
        /\ ~lied' => lied \/ (call[w].kind = "select" => a = Printed(call[w].op, written[k]))
  BY Zenon, <1>3
<1>4. lied => lied' BY Zenon DEF ServerAnswers
<1> HIDE DEF k
<1>5. /\ call' \in [Threads -> Calls]
      /\ call'[w].op = call[w].op /\ call'[w].kind = call[w].kind /\ call'[w].i = k + 1
      /\ call'[w].got = [call[w].got EXCEPT ![k] = a]
      /\ \A v \in Threads : v # w => call'[v] = call[v]
  BY Zenon, <1>1 DEF Calls
<1>6. \A v \in Threads : /\ Running(v, "write")' <=> Running(v, "write")
                         /\ Running(v, "select")' <=> Running(v, "select")
                         /\ Current(v)' = Current(v)
                         /\ Running(v, "write") => call'[v] = call[v]
  BY <1>2, <1>5 DEF Running, Current
<1>7. CompareTypeOK'
  <2>1. \A v \in Threads : call'[v].op \in {"idle", "reconnect"} =>
          call'[v].kind = "none" /\ call'[v].i < N
    BY <1>1, <1>5 DEF CompareInv, CompareTypeOK
  <2> QED BY <1>2, <1>5, <1>6, <2>1 DEF CompareInv, CompareTypeOK
<1>8. IssuedInv' BY <1>2 DEF CompareInv, IssuedInv
<1>9. ReachInv => ReachInv'
  <2> SUFFICES ASSUME ReachInv PROVE ReachInv' OBVIOUS
  <2>1. ASSUME NEW v \in Threads, Running(v, "write")', NEW i \in Servers
        PROVE  Current(v)' \in Range(written[i]) <=> i < call'[v].i
    <3>1. Running(v, "write") /\ Current(v)' = Current(v) /\ call'[v] = call[v] BY <1>6, <2>1
    <3>2. Current(v) \in Range(written[i]) <=> i < call[v].i BY <3>1 DEF ReachInv
    <3> QED BY Zenon, <3>1, <3>2
  <2>2. ASSUME NEW i \in Servers, NEW j \in Servers, NEW p \in Range(written[i])
        PROVE  p \in Range(written[j]) \/ \E v \in Threads : Running(v, "write")' /\ p = Current(v)'
    BY <1>6 DEF ReachInv
  <2> QED BY <1>2, <2>1, <2>2 DEF ReachInv
<1>10. OrderInv => OrderInv'
  <2> SUFFICES ASSUME OrderInv PROVE OrderInv' OBVIOUS
  <2>1. \A v, u \in Threads :
          Running(v, "write")' /\ (Running(u, "write")' \/ Running(u, "select")') => v = u
    BY <1>6 DEF OrderInv
  <2>2. (\A v \in Threads : ~Running(v, "write")') => \A i, j \in Servers : written[i] = written[j]
    BY <1>6 DEF OrderInv
  <2>3. ASSUME NEW v \in Threads, Running(v, "write")', NEW i \in Servers, NEW j \in Servers
        PROVE  /\ (i < call'[v].i <=> j < call'[v].i) => written[i] = written[j]
               /\ i < call'[v].i /\ ~(j < call'[v].i) => written[i] = Append(written[j], Current(v)')
    <3>1. Running(v, "write") /\ Current(v)' = Current(v) /\ call'[v] = call[v] BY <1>6, <2>3
    <3>2. /\ (i < call[v].i <=> j < call[v].i) => written[i] = written[j]
          /\ i < call[v].i /\ ~(j < call[v].i) => written[i] = Append(written[j], Current(v))
      BY <3>1 DEF OrderInv
    <3> QED BY Zenon, <3>1, <3>2
  <2> QED BY <1>2, <2>1, <2>2, <2>3 DEF OrderInv
<1>11. AnswerInv /\ ~lied' => AnswerInv'
  <2> SUFFICES ASSUME AnswerInv, ~lied', NEW v \in Threads, Running(v, "select"),
                      NEW i \in Servers, i < call'[v].i
               PROVE  call'[v].got[i] = Printed(call'[v].op, written[i])
    BY <1>2, <1>6 DEF AnswerInv
  <2>1. CASE v # w BY <1>5, <2>1 DEF AnswerInv
  <2>2. CASE v = w
    <3>1. call[w].kind = "select" /\ a = Printed(call[w].op, written[k])
      BY <1>4, <2>2 DEF Running
    <3>2. i < k \/ i = k BY <1>1, <1>5, <2>2 DEF Servers
    <3>3. i < k => call[w].got[i] = Printed(call[w].op, written[i])
      BY <2>2 DEF AnswerInv, k
    <3>4. call[w].got \in [Servers -> Answers] BY DEF Calls
    <3>5. CASE i = k BY <1>1, <1>5, <2>2, <3>1, <3>4, <3>5
    <3>6. CASE i < k
      <4>1. i # k BY <1>1, <3>6 DEF Servers
      <4>2. call'[w].got[i] = call[w].got[i] BY <1>1, <1>5, <3>4, <4>1
      <4> QED BY <1>5, <2>2, <3>3, <3>6, <4>2
    <3> QED BY <3>2, <3>5, <3>6
  <2> QED BY <2>1, <2>2
<1> QED BY <1>2, <1>4, <1>7, <1>8, <1>9, <1>10, <1>11 DEF CompareInv

(* A call that returns has visited all servers.                            *)
LEMMA ReturnInv ==
  ASSUME CompareInv, NEW w \in Threads, Return(w)
  PROVE  CompareInv'
<1> call \in [Threads -> Calls] BY DEF CompareInv, CompareTypeOK
<1>1. /\ call[w].i = N /\ call' = [call EXCEPT ![w] = Idle]
      /\ UNCHANGED <<written, issued, failed, crashed, overlapped, lied>>
  BY DEF Return, history
<1>2. /\ call'[w] = Idle /\ Idle.op = "idle" /\ Idle.kind = "none"
      /\ \A v \in Threads : v # w => call'[v] = call[v]
  BY <1>1 DEF Idle
<1>3. /\ ~Running(w, "write")' /\ ~Running(w, "select")'
      /\ \A v \in Threads : v # w =>
           /\ Running(v, "write")' <=> Running(v, "write")
           /\ Running(v, "select")' <=> Running(v, "select")
           /\ call'[v] = call[v]
      /\ \A v \in Threads : Current(v)' = Current(v)
  BY <1>1, <1>2 DEF Running, Current
<1>4. CompareTypeOK' BY <1>1, <1>2, <1>3, IdleType DEF CompareInv, CompareTypeOK
<1>5. IssuedInv' BY <1>1 DEF CompareInv, IssuedInv
<1>6. \A i \in Servers : i < N BY CompareAssumption DEF Servers
<1>7. ReachInv => ReachInv'
  <2> SUFFICES ASSUME ReachInv PROVE ReachInv' OBVIOUS
  <2>1. Running(w, "write") => \A i \in Servers : Current(w) \in Range(written[i])
    BY <1>1, <1>6 DEF ReachInv
  <2> QED BY <1>1, <1>3, <2>1 DEF ReachInv
<1>8. OrderInv => OrderInv'
  <2> SUFFICES ASSUME OrderInv PROVE OrderInv' OBVIOUS
  <2>1. (\A v \in Threads : ~Running(v, "write")') => \A i, j \in Servers : written[i] = written[j]
    BY <1>1, <1>3, <1>6 DEF OrderInv
  <2> QED BY <1>1, <1>3, <2>1 DEF OrderInv
<1>9. AnswerInv => AnswerInv' BY <1>1, <1>3 DEF AnswerInv
<1> QED BY <1>1, <1>4, <1>5, <1>7, <1>8, <1>9 DEF CompareInv

----------------------------------------------------------------------------
LEMMA NextInv == ASSUME CompareInv, [CompareNext]_compareVars PROVE CompareInv'
<1>1. ASSUME NEW w \in Threads, NEW k \in {"select", "write"}, CallQuery(w, k) PROVE CompareInv'
  BY <1>1, BeginInv DEF CallQuery, Free
<1>2. ASSUME NEW w \in Threads, CallExecute(w) PROVE CompareInv'
  <2>1. CASE UNCHANGED call
    <3>1. UNCHANGED <<call, written, issued, crashed, overlapped, lied>> /\ (failed => failed')
      BY Zenon, <1>2, <2>1, IdleType DEF CallExecute, Free, Begin, Idle, CompareInv, CompareTypeOK
    <3>2. CompareTypeOK' BY <3>1 DEF CompareInv, CompareTypeOK, Running
    <3> QED BY <3>1, <3>2, QuietStep
  <2>2. CASE \E k \in {"select", "write"} : Begin(w, "execute", k) /\ UNCHANGED failed
    BY <1>2, <2>2, BeginInv DEF CallExecute, Free
  <2> QED BY <1>2, <2>1, <2>2 DEF CallExecute
<1>3. ASSUME NEW w \in Threads, ServerAnswers(w) PROVE CompareInv'
  BY <1>3, WriteStep, SelectStep
<1>4. CASE UNCHANGED compareVars
  <2>1. UNCHANGED <<call, written, issued, crashed, failed, overlapped, lied>>
    BY <1>4 DEF compareVars, history
  <2>2. CompareTypeOK' BY <2>1 DEF CompareInv, CompareTypeOK, Running
  <2> QED BY <2>1, <2>2, QuietStep
<1> QED BY <1>1, <1>2, <1>3, <1>4, SetupInv, ReconnectInv, ServerFailsInv, ReturnInv DEF CompareNext

(* The inductive invariant.                                                *)
THEOREM CompareInvariant == CompareSpec => []CompareInv
<1>1. CompareInv /\ [CompareNext]_compareVars => CompareInv' BY NextInv
<1> QED BY <1>1, InitInv, PTL DEF CompareSpec

(* While no call has failed, all servers hold the same writes whenever no  *)
(* call is under way, and in the same order if no calls have overlapped.   *)
THEOREM ServersStayAlike == CompareSpec => []ServersAgree
<1>1. CompareInv => ServersAgree
  <2> SUFFICES ASSUME CompareInv, Quiet, ~failed, NEW i \in Servers, NEW j \in Servers
               PROVE  /\ Range(written[i]) = Range(written[j])
                      /\ ~overlapped => written[i] = written[j]
    BY DEF ServersAgree
  <2>1. \A w \in Threads : ~Running(w, "write") BY DEF Quiet, Running
  <2>2. Range(written[i]) = Range(written[j])
    <3>1. ReachInv BY DEF CompareInv, Quiet
    <3>2. ASSUME NEW p PROVE p \in Range(written[i]) <=> p \in Range(written[j])
      BY <2>1, <3>1 DEF ReachInv
    <3> QED BY <3>2
  <2>3. ~overlapped => written[i] = written[j]
    BY <2>1 DEF CompareInv, OrderInv, Quiet
  <2> QED BY <2>2, <2>3
<1> QED BY <1>1, CompareInvariant, PTL

(* A call that has visited all servers ends by returning, unless the       *)
(* process ends.                                                           *)
LEMMA OnlyReturnPrints ==
  ASSUME CompareInv, CompareNext, NEW w \in Threads, call[w].i = N, call'[w].op = "idle",
         mismatch' # {} \/ ~crashed'
  PROVE  Return(w)
<1> call \in [Threads -> Calls] /\ N \in Nat \ {0}
  BY CompareAssumption DEF CompareInv, CompareTypeOK
<1>1. call[w].op \in {"query", "execute"}
  <2>1. call[w].op \in {"idle", "reconnect", "query", "execute"} BY DEF Calls
  <2>2. call[w].op \in {"idle", "reconnect"} => call[w].i < N
    BY DEF CompareInv, CompareTypeOK
  <2>3. ~(N < N) OBVIOUS
  <2> QED BY <2>1, <2>2, <2>3
<1>2. call'[w] # call[w] /\ ~Crash BY <1>1 DEF Crash
<1>3. ASSUME NEW v \in Threads,
             \/ mysql_drv_connect(v) \/ mysql_drv_disconnect(v) \/ ThreadFails(v)
             \/ \E k \in {"select", "write", "control"} : mysql_drv_prepare(v, k)
             \/ mysql_drv_close(v) \/ mysql_drv_free_results(v)
      PROVE  FALSE
  BY <1>2, <1>3 DEF mysql_drv_connect, mysql_drv_disconnect, ThreadFails,
     mysql_drv_prepare, mysql_drv_close, mysql_drv_free_results
<1>4. ASSUME NEW v \in Threads, mysql_drv_reconnect(v) \/ ReconnectStep(v) PROVE FALSE
  <2>1. v # w BY <1>1, <1>4 DEF mysql_drv_reconnect, ReconnectStep, Free
  <2> QED BY <1>2, <1>4, <2>1 DEF mysql_drv_reconnect, ReconnectStep
<1>5. ASSUME NEW v \in Threads, CallExecute(v) \/ \E k \in {"select", "write"} : CallQuery(v, k)
      PROVE  FALSE
  <2>1. v # w BY <1>1, <1>5 DEF CallExecute, CallQuery, Free
  <2> QED BY <1>2, <1>5, <2>1 DEF CallExecute, CallQuery, Begin
<1>6. ASSUME NEW v \in Threads, ServerAnswers(v) PROVE FALSE
  <2>1. v # w BY <1>6 DEF ServerAnswers
  <2> QED BY <1>2, <1>6, <2>1 DEF ServerAnswers
<1>7. ASSUME NEW v \in Threads, ServerFails(v) PROVE FALSE
  <2>1. v # w BY <1>7 DEF ServerFails
  <2>2. \E c : call' = [call EXCEPT ![v] = c] BY <1>7 DEF ServerFails, CheckError
  <2> QED BY <1>2, <2>1, <2>2
<1>8. ASSUME NEW v \in Threads, Return(v) PROVE v = w
  BY Zenon, <1>2, <1>8 DEF Return
<1> QED BY <1>3, <1>4, <1>5, <1>6, <1>7, <1>8 DEF CompareNext

(* What a server holds is never taken for an empty buffer: writes are      *)
(* counted from 1.                                                         *)
LEMMA NeverUnset ==
  ASSUME NEW s \in Seq(Writes) PROVE s # Unset
<1> SUFFICES ASSUME s = Unset PROVE FALSE OBVIOUS
<1>1. Len(s) = 1 /\ s[1] = <<"unset", 0>> BY DEF Unset
<1>2. s[1] \in Writes BY <1>1
<1> QED BY <1>1, <1>2 DEF Writes

(* A difference is printed only if a server answered wrongly, a call had   *)
(* failed, calls overlapped or a prepared SELECT returned no rows.         *)
THEOREM AlarmsAreReal == CompareSpec => NoFalseAlarm
<1> DEFINE Excused(w) == \/ failed \/ lied \/ overlapped
                         \/ call[w].op = "execute" /\ \E i \in Servers : call[w].got[i] = Unset
           Alarm(w) == call[w].i = N /\ call'[w].op = "idle" /\ mismatch' # {}
<1>1. ASSUME CompareInv, CompareNext, NEW w \in Threads, Alarm(w) PROVE Excused(w)
  <2> SUFFICES ASSUME ~Excused(w) PROVE FALSE OBVIOUS
  <2>1. Return(w) BY <1>1, OnlyReturnPrints
  <2>2. PICK j \in Servers :
          /\ j > 0 /\ call[w].kind = "select" /\ j \in mismatch'
          /\ call[w].got[j] # Unset /\ call[w].got[0] # Unset => Differs(call[w].got, j)
    BY <1>1, <2>1 DEF Return
  <2>3. 0 \in Servers /\ j < N /\ 0 < N BY CompareAssumption DEF Servers
  <2>4. Running(w, "select") /\ ~crashed BY <2>1, <2>2 DEF Return, Running
  <2>5. OrderInv /\ AnswerInv BY <1>1, <2>4 DEF CompareInv
  <2>6. written[j] = written[0] BY <2>3, <2>4, <2>5 DEF OrderInv, Running
  <2>7. /\ call[w].got[j] = Printed(call[w].op, written[j])
        /\ call[w].got[0] = Printed(call[w].op, written[0])
    BY <1>1, <2>3, <2>4, <2>5 DEF AnswerInv
  <2>8. call[w].got[j] # Unset /\ call[w].got[0] # Unset
    <3>1. written[j] \in Seq(Writes) /\ written[0] \in Seq(Writes)
      BY <1>1, <2>3 DEF CompareInv, CompareTypeOK
    <3>2. CASE call[w].op = "execute" BY <2>3, <3>2
    <3>3. CASE call[w].op # "execute" BY <2>7, <3>1, <3>3, NeverUnset DEF Printed
    <3> QED BY <3>2, <3>3
  <2> QED BY <2>2, <2>6, <2>7, <2>8 DEF Differs
<1>2. CompareInv /\ [CompareNext]_compareVars => [\A w \in Threads : Alarm(w) => Excused(w)]_compareVars
  BY <1>1
<1>3. [][\A w \in Threads : Alarm(w) => Excused(w)]_compareVars => NoFalseAlarm
  BY PTL DEF NoFalseAlarm
<1> QED BY <1>2, <1>3, CompareInvariant, PTL DEF CompareSpec

(* What a SELECT prints is the set of the servers that differ from the     *)
(* first one, or for a prepared SELECT some of them.                       *)
THEOREM MismatchesArePrinted == CompareSpec => MismatchPrinted
<1> DEFINE different(w) == {j \in Servers : call[w].got[j] # call[w].got[0]}
           Compared(w) ==
             /\ ~crashed' /\ call[w].kind = "select" /\ call[w].i = N /\ call'[w].op = "idle"
             /\ Unset \notin {call[w].got[i] : i \in Servers}
           PrintsRight(w) ==
             /\ mismatch' \subseteq different(w)
             /\ call[w].op = "query" => mismatch' = different(w)
<1>1. ASSUME CompareInv, CompareNext, NEW w \in Threads, Compared(w) PROVE PrintsRight(w)
  <2>1. Return(w) BY <1>1, OnlyReturnPrints
  <2>2. 0 \in Servers /\ \A j \in Servers : j = 0 \/ j > 0
    BY CompareAssumption DEF Servers
  <2>3. \A j \in Servers : call[w].got[j] # Unset BY <1>1
  <2>4. PICK m \in SUBSET {j \in Servers : j > 0} :
          /\ mismatch' = m
          /\ \A j \in Servers : j > 0 /\ j \in m => Differs(call[w].got, j)
          /\ call[w].op = "query" =>
               \A j \in Servers : j > 0 /\ Differs(call[w].got, j) => j \in m
    BY <1>1, <2>1, <2>2, <2>3 DEF Return
  <2>5. m \subseteq different(w) BY <2>4 DEF Differs
  <2>6. call[w].op = "query" => different(w) \subseteq m BY <2>2, <2>4 DEF Differs
  <2> QED BY <2>4, <2>5, <2>6
<1>2. CompareInv /\ [CompareNext]_compareVars =>
        [\A w \in Threads : Compared(w) => PrintsRight(w)]_compareVars
  BY <1>1
<1>3. [][\A w \in Threads : Compared(w) => PrintsRight(w)]_compareVars => MismatchPrinted
  BY PTL DEF MismatchPrinted
<1> QED BY <1>2, <1>3, CompareInvariant, PTL DEF CompareSpec

-----------------------------------------------------------------------------
(* The event loop.                                                         *)

(* The inductive invariant.                                                *)
LoopInv == TypeOK /\ TicketsBound /\ QueueShape /\ GaugeCovers

(* Two slots of queue_array less than a lap apart are different slots.     *)
LEMMA SlotsDiffer ==
  ASSUME NEW a \in Nat, NEW b \in Nat, a < b, b - a < RingSize
  PROVE  a % RingSize # b % RingSize
<1> DEFINE n == RingSize
<1>1. n \in Nat /\ n > 0
  BY RingSizeAssumption
<1>2. a = n * (a \div n) + (a % n) /\ b = n * (b \div n) + (b % n)
  BY <1>1
<1>3. a \div n \in Int /\ b \div n \in Int /\ a % n \in Nat /\ b % n \in Nat
  BY <1>1
<1> SUFFICES ASSUME a % n = b % n PROVE FALSE
  OBVIOUS
<1> DEFINE p == a \div n  q == b \div n
<1>4. b - a = n * q - n * p
  BY <1>1, <1>2, <1>3
<1>5. n * q - n * p = n * (q - p)
  BY <1>1, <1>3
<1>6. 0 < n * (q - p) /\ n * (q - p) < n
  BY <1>4, <1>5
<1> HIDE DEF n, p, q
<1>7. CASE q - p <= 0
  <2>1. n * (q - p) <= 0 BY <1>1, <1>3, <1>7 DEF p, q
  <2> QED BY <1>1, <1>3, <1>6, <2>1 DEF p, q
<1>8. CASE q - p >= 1
  <2>1. n * (q - p) >= n BY <1>1, <1>3, <1>8 DEF p, q
  <2> QED BY <1>1, <1>3, <1>6, <2>1 DEF p, q
<1> QED
  BY <1>3, <1>7, <1>8 DEF p, q

LEMMA FiniteHolders ==
  /\ IsFiniteSet(Holders) /\ Cardinality(Holders) \in Nat
  /\ IsFiniteSet(InFlight) /\ Cardinality(InFlight) \in Nat
<1>1. Holders \subseteq Workers /\ InFlight \subseteq Workers
  BY DEF Holders, InFlight
<1> QED
  BY <1>1, WorkersAssumption, FS_Subset, FS_CardinalityType

LEMMA InitEstablishes == Init => LoopInv
<1> SUFFICES ASSUME Init PROVE LoopInv
  OBVIOUS
<1> USE DEF Init
<1>1. TypeOK
  BY RingSizeAssumption DEF TypeOK, WorkerPcs, Slots, NULL
<1>2. Holders = {} /\ InFlight = {}
  BY DEF Holders, InFlight
<1>3. TicketsBound /\ GaugeCovers
  BY <1>2, FS_EmptySet, LimitsAssumption DEF TicketsBound, GaugeCovers
<1>4. QueueShape
  BY DEF QueueShape
<1> QED
  BY <1>1, <1>3, <1>4 DEF LoopInv
----------------------------------------------------------------------------
(* A queue that is not full has room for one more slot.                    *)
LEMMA RoomLeft ==
  ASSUME NEW n \in Nat, n < RingSize, n # RingSize - 1
  PROVE  n + 1 < RingSize
BY RingSizeAssumption

(* Type correctness, apart from the gauge that only GaugeCovers bounds.    *)
LEMMA TypeStep ==
  ASSUME TypeOK, Next, concurrency' \in Nat
  PROVE  TypeOK'
<1>0. tx_rate' = tx_rate
  BY DEF Next
<1> USE <1>0, RingSizeAssumption, LimitsAssumption
    DEF TypeOK, At, Goto, WorkerPcs, queueVars, counters
<1>1. CASE Tick
  BY <1>1 DEF Tick
<1>2. CASE GenStep
  <2>1. CASE GenPut
    <3>1. generated % RingSize \in Slots
      BY DEF Slots
    <3>2. queueArray' \in [Slots -> Nat]
      BY <2>1, <3>1 DEF GenPut
    <3>3. queue' \in Seq(Slots) /\ Len(queue') < RingSize
      <4>1. CASE QueueFull
        BY <2>1, <4>1 DEF GenPut
      <4>2. CASE ~QueueFull
        <5>1. Append(queue, generated % RingSize) \in Seq(Slots)
              /\ Len(Append(queue, generated % RingSize)) = Len(queue) + 1
          BY <3>1
        <5>2. Len(queue) \in Nat /\ Len(queue) < RingSize /\ Len(queue) # RingSize - 1
          BY <4>2 DEF QueueFull
        <5>3. queue' = Append(queue, generated % RingSize)
          BY <2>1, <4>2 DEF GenPut
        <5>4. Len(queue) + 1 < RingSize
          BY Zenon, <5>2, RoomLeft
        <5> QED BY <5>1, <5>3, <5>4
      <4> QED BY <4>1, <4>2
    <3>4. generated' \in Nat /\ genPc' \in {"full", "signal"}
      <4>1. CASE QueueFull
        BY <2>1, <4>1 DEF GenPut
      <4>2. CASE ~QueueFull
        BY <2>1, <4>2 DEF GenPut
      <4> QED BY <4>1, <4>2
    <3>5. UNCHANGED <<error, timeUp, counters, taken, pc, ptr, rc>>
      BY <2>1 DEF GenPut
    <3> QED BY <3>2, <3>3, <3>4, <3>5
  <2>2. CASE GenLoop \/ GenFull \/ GenBroadcast \/ GenSignal
    BY Zenon, <2>2 DEF GenLoop, GenFull, GenBroadcast, GenSignal
  <2> QED BY <1>2, <2>1, <2>2 DEF GenStep
<1>3. ASSUME NEW w \in Workers, WorkerStep(w) \/ SpuriousWakeup(w)
      PROVE  TypeOK'
  <2>1. CASE Dequeue(w)
    <3>1. Head(queue) \in Slots /\ Tail(queue) \in Seq(Slots)
          /\ Len(Tail(queue)) = Len(queue) - 1
      BY <2>1 DEF Dequeue
    <3> QED BY <2>1, <3>1 DEF Dequeue
  <2>2. CASE CheckLimits(w) \/ DequeueEmpty(w) \/ EmptyCheck(w) \/ Block(w) \/ Recheck(w)
    BY Zenon, <2>2 DEF CheckLimits, DequeueEmpty, EmptyCheck, Block, Recheck, NULL
  <2>3. CASE TakeTicket(w)
    BY <2>3 DEF TakeTicket, Grant
  <2>4. CASE BeginEvent(w)
    BY <2>4 DEF BeginEvent, Grant
  <2>7. CASE BeginNullEvent(w)
    BY <2>7 DEF BeginNullEvent
  <2>5. CASE NextEvent(w) \/ Finish(w) \/ SpuriousWakeup(w)
    BY Zenon, <2>5 DEF NextEvent, Finish, SpuriousWakeup
  <2>6. CASE Execute(w)
    BY <2>6 DEF Execute
  <2> QED BY <1>3, <2>1, <2>2, <2>3, <2>4, <2>5, <2>6, <2>7 DEF WorkerStep
<1> QED
  BY <1>1, <1>2, <1>3 DEF Next

(* The steps that neither issue a ticket nor start or end an event.        *)
LEMMA OtherSteps ==
  ASSUME LoopInv, tx_rate' = tx_rate, Holders' \subseteq Holders, InFlight' \subseteq InFlight,
         granted' = granted, nevents' \in Nat, nevents' >= nevents,
         concurrency' \in Nat, concurrency' >= concurrency
  PROVE  TicketsBound' /\ GaugeCovers'
<1>1. /\ Cardinality(Holders') \in Nat /\ Cardinality(Holders') <= Cardinality(Holders)
      /\ Cardinality(InFlight') \in Nat /\ Cardinality(InFlight') <= Cardinality(InFlight)
  BY FiniteHolders, FS_Subset, FS_CardinalityType
<1> QED
  BY <1>1, FiniteHolders, LimitsAssumption DEF LoopInv, TypeOK, TicketsBound, GaugeCovers, TxRate

LEMMA BoundsStep ==
  ASSUME LoopInv, Next
  PROVE  TicketsBound' /\ GaugeCovers' /\ concurrency' \in Nat
<1>0. tx_rate' = tx_rate /\ (TxRate' <=> TxRate)
  BY DEF Next, TxRate
<1> USE <1>0 DEF LoopInv
<1>1. CASE Tick \/ GenStep
  <2>1. /\ granted' = granted /\ nevents' = nevents /\ concurrency' = concurrency
        /\ Holders' \subseteq Holders /\ InFlight' \subseteq InFlight
    BY <1>1 DEF Tick, GenStep, GenLoop, GenPut, GenFull, GenBroadcast, GenSignal,
                counters, TypeOK, Holders, InFlight, Goto, At
  <2> QED BY <2>1, OtherSteps DEF TypeOK
<1>2. ASSUME NEW w \in Workers, WorkerStep(w) \/ SpuriousWakeup(w)
      PROVE  TicketsBound' /\ GaugeCovers' /\ concurrency' \in Nat
  <2> USE DEF Goto, At, counters
  <2>1. CASE \/ CheckLimits(w) \/ Dequeue(w) \/ DequeueEmpty(w) \/ EmptyCheck(w)
             \/ Block(w) \/ Recheck(w) \/ NextEvent(w) \/ Finish(w) \/ SpuriousWakeup(w)
    <3>1. /\ granted' = granted /\ nevents' = nevents /\ concurrency' = concurrency
          /\ Holders' \subseteq Holders /\ InFlight' \subseteq InFlight
      BY <2>1 DEF CheckLimits, Dequeue, DequeueEmpty, EmptyCheck, Block, Recheck,
                  NextEvent, Finish, SpuriousWakeup, TypeOK, Holders, InFlight
    <3> QED BY <3>1, OtherSteps DEF TypeOK
  <2>2. CASE BeginNullEvent(w)
    <3>1. /\ granted' = granted /\ nevents' = nevents /\ concurrency' = concurrency + 1
          /\ Holders' \subseteq Holders /\ InFlight' \subseteq InFlight
      BY Zenon, <2>2 DEF BeginNullEvent, Holders, InFlight
    <3> QED BY <3>1, OtherSteps DEF TypeOK
  <2>3. CASE TakeTicket(w)
    <3>1. concurrency' = concurrency
      BY <2>3 DEF TakeTicket
    <3>2. CASE MaxEvents > 0 /\ nevents >= MaxEvents
      <4>1. /\ granted' = granted /\ nevents' \in Nat /\ nevents' >= nevents
            /\ Holders' \subseteq Holders /\ InFlight' \subseteq InFlight
        BY <2>3, <3>2, LimitsAssumption DEF TakeTicket, TypeOK, Holders, InFlight
      <4> QED BY <3>1, <4>1, OtherSteps DEF TypeOK
    <3>3. CASE ~(MaxEvents > 0 /\ nevents >= MaxEvents) /\ TxRate
      <4>1. /\ granted' = granted /\ w \notin Holders /\ Holders' = Holders \cup {w}
            /\ InFlight' = InFlight /\ nevents' = IF MaxEvents > 0 THEN nevents + 1 ELSE nevents
        BY <2>3, <3>3, LimitsAssumption DEF TakeTicket, TypeOK, Holders, InFlight
      <4>2. Cardinality(Holders') = Cardinality(Holders) + 1
        BY Zenon, <4>1, FiniteHolders, FS_AddElement
      <4> QED
        BY <3>1, <3>3, <4>1, <4>2, FiniteHolders, LimitsAssumption
           DEF TypeOK, TicketsBound, GaugeCovers
    <3>4. CASE ~(MaxEvents > 0 /\ nevents >= MaxEvents) /\ ~TxRate
      <4>1. /\ granted' = granted + 1 /\ Holders' = Holders
            /\ nevents' = IF MaxEvents > 0 THEN nevents + 1 ELSE nevents
        BY <2>3, <3>4, LimitsAssumption DEF TakeTicket, Grant, TypeOK, Holders
      <4> QED
        BY <3>1, <3>4, <4>1, FiniteHolders, LimitsAssumption
           DEF TypeOK, TicketsBound, GaugeCovers
    <3> QED BY <3>2, <3>3, <3>4
  <2>4. CASE BeginEvent(w)
    <3>1. /\ granted' = granted + 1 /\ nevents' = nevents /\ concurrency' = concurrency + 1
          /\ w \in Holders /\ Holders' = Holders \ {w}
          /\ w \notin InFlight /\ InFlight' = InFlight \cup {w}
      BY <2>4 DEF BeginEvent, Grant, TypeOK, Holders, InFlight
    <3>2. /\ Cardinality(Holders') = Cardinality(Holders) - 1
          /\ Cardinality(InFlight') = Cardinality(InFlight) + 1
      BY Zenon, <3>1, FiniteHolders, FS_AddElement, FS_RemoveElement
    <3> QED
      BY <3>1, <3>2, FiniteHolders, LimitsAssumption DEF TypeOK, TicketsBound, GaugeCovers
  <2>5. CASE Execute(w)
    <3>1. /\ granted' = granted /\ nevents' = nevents
          /\ concurrency' = IF TxRate THEN concurrency - 1 ELSE concurrency
          /\ Holders' = Holders /\ w \in InFlight /\ InFlight' = InFlight \ {w}
      BY <2>5 DEF Execute, TypeOK, Holders, InFlight
    <3>2. /\ Cardinality(InFlight') = Cardinality(InFlight) - 1
          /\ Cardinality(InFlight') \in Nat
      BY <3>1, FiniteHolders, FS_RemoveElement, FS_CardinalityType
    <3> QED
      BY <3>1, <3>2, FiniteHolders, LimitsAssumption DEF TypeOK, TicketsBound, GaugeCovers
  <2> QED BY <1>2, <2>1, <2>2, <2>3, <2>4, <2>5 DEF WorkerStep
<1> QED
  BY <1>1, <1>2 DEF Next
LEMMA QueueStep ==
  ASSUME LoopInv, Next
  PROVE  QueueShape'
<1> USE DEF LoopInv, queueVars
<1>1. CASE GenPut
  <2> DEFINE i == generated % RingSize
  <2>1. i \in Slots
    BY RingSizeAssumption DEF Slots, TypeOK
  <2>2. \A k \in 1 .. Len(queue) : queue[k] # i
    <3> SUFFICES ASSUME NEW k \in 1 .. Len(queue) PROVE queue[k] # i
      OBVIOUS
    <3>1. taken + k - 1 \in Nat /\ taken + k - 1 < generated
          /\ generated - (taken + k - 1) < RingSize
      BY RingSizeAssumption DEF TypeOK, QueueShape
    <3> QED BY <3>1, SlotsDiffer DEF TypeOK, QueueShape
  <2>3. \A k \in 1 .. Len(queue) : queue[k] \in Slots
    BY DEF TypeOK
  <2>4. /\ queueArray'[i] = generated + 1 /\ taken' = taken
        /\ \A k \in 1 .. Len(queue) : queueArray'[queue[k]] = taken + k
    BY <1>1, <2>1, <2>2, <2>3 DEF GenPut, TypeOK, QueueShape
  <2>5. CASE QueueFull
    BY <1>1, <2>4, <2>5 DEF GenPut, QueueShape
  <2>6. CASE ~QueueFull
    <3> DEFINE q == Append(queue, i)
    <3>1. queue' = q /\ generated' = generated + 1
      BY <1>1, <2>6 DEF GenPut
    <3>2. /\ Len(q) = Len(queue) + 1
          /\ \A k \in 1 .. Len(queue) : q[k] = queue[k]
          /\ q[Len(queue) + 1] = i
      BY SMTT(30), <2>1 DEF TypeOK
    <3>3. Len(q) = generated' - taken'
      BY <2>4, <3>1, <3>2 DEF QueueShape, TypeOK
    <3>4. Len(queue) \in Nat /\ generated = taken + Len(queue)
      BY DEF QueueShape, TypeOK
    <3>5. ASSUME NEW k \in 1 .. Len(q)
          PROVE  q[k] = (taken + k - 1) % RingSize /\ queueArray'[q[k]] = taken + k
      <4>1. CASE k \in 1 .. Len(queue)
        BY <2>4, <3>2, <4>1 DEF QueueShape
      <4>2. CASE k = Len(queue) + 1
        <5>1. generated = taken + k - 1 /\ generated + 1 = taken + k
          BY <3>4, <4>2 DEF TypeOK
        <5> QED BY <2>4, <3>2, <4>2, <5>1
      <4> QED BY <3>2, <3>4, <4>1, <4>2
    <3> QED BY <2>4, <3>1, <3>3, <3>5 DEF QueueShape
  <2> QED BY <2>5, <2>6
<1>2. ASSUME NEW w \in Workers, Dequeue(w)
      PROVE  QueueShape'
  <2>1. /\ queue' = Tail(queue) /\ taken' = taken + 1
        /\ generated' = generated /\ queueArray' = queueArray
    BY <1>2 DEF Dequeue
  <2>2. /\ Len(queue') = Len(queue) - 1
        /\ \A k \in 1 .. Len(queue') : queue'[k] = queue[k + 1]
    BY <1>2, <2>1 DEF Dequeue, TypeOK
  <2>3. Len(queue) \in Nat
    BY DEF TypeOK
  <2>4. Len(queue') = generated' - taken'
    BY <2>1, <2>2, <2>3 DEF QueueShape, TypeOK
  <2>5. ASSUME NEW k \in 1 .. Len(queue')
        PROVE  /\ queue'[k] = (taken' + k - 1) % RingSize
               /\ queueArray'[queue'[k]] = taken' + k
    <3>1. k + 1 \in 1 .. Len(queue) /\ taken + (k + 1) - 1 = taken' + k - 1
          /\ taken + (k + 1) = taken' + k
      BY <2>1, <2>2, <2>3 DEF TypeOK
    <3> QED BY <2>1, <2>2, <3>1 DEF QueueShape
  <2> QED BY <2>4, <2>5 DEF QueueShape
<1>3. CASE UNCHANGED queueVars
  BY <1>3 DEF QueueShape
<1>4. Next => \/ GenPut \/ UNCHANGED queueVars
              \/ \E w \in Workers : Dequeue(w)
  BY Zenon DEF Next, Tick, GenStep, GenLoop, GenFull, GenBroadcast, GenSignal, WorkerStep,
         SpuriousWakeup, CheckLimits, TakeTicket, DequeueEmpty, EmptyCheck, Block,
         Recheck, BeginEvent, BeginNullEvent, NextEvent, Execute, Finish
<1> QED
  BY <1>1, <1>2, <1>3, <1>4

LEMMA LoopInvInductive == LoopInv /\ [Next]_vars => LoopInv'
<1>1. ASSUME LoopInv, Next PROVE LoopInv'
  BY <1>1, BoundsStep, TypeStep, QueueStep DEF LoopInv
<1>2. ASSUME LoopInv, UNCHANGED vars PROVE LoopInv'
  BY <1>2 DEF vars, LoopInv, TypeOK, TicketsBound, QueueShape, GaugeCovers, TxRate, Holders, InFlight
<1> QED
  BY <1>1, <1>2

(* Every reachable state of the event loop satisfies the invariant; among  *)
(* other things the concurrency gauge never runs below zero.               *)
THEOREM LoopInvariant == Spec => []LoopInv
BY InitEstablishes, LoopInvInductive, PTL DEF Spec, Safety

(* sb_more_events() never grants more than --events events.                *)
THEOREM EventLimitHolds == Spec => []EventLimit
<1>1. LoopInv => EventLimit
  BY FiniteHolders, LimitsAssumption DEF LoopInv, TypeOK, TicketsBound, EventLimit
<1> QED
  BY <1>1, LoopInvariant, PTL

(* No event waiting in the queue ever loses its time stamp, whatever       *)
(* MAX_QUEUE_LEN is, also when the generator overruns the full queue.      *)
THEOREM StampsStayIntact == Spec => []StampsIntact
<1>1. LoopInv => StampsIntact
  BY DEF LoopInv, QueueShape, StampsIntact
<1> QED
  BY <1>1, LoopInvariant, PTL

(* The concurrency gauge of --rate runs counts every event in flight.      *)
THEOREM GaugeAlwaysCovers == Spec => []GaugeCovers
<1>1. LoopInv => GaugeCovers
  BY DEF LoopInv
<1> QED
  BY <1>1, LoopInvariant, PTL

----------------------------------------------------------------------------
(* The ring.                                                               *)

(* How far a is behind b, on a circle of CounterMod numbers.               *)
Ahead(b, a) == IF b >= a THEN b - a ELSE b - a + CounterMod

(* The number of values in the ring.                                       *)
Queued == Ahead(pTail, cHead)

RingTypeOK ==
  /\ cHead \in 0 .. CounterMod - 1 /\ pTail \in 0 .. CounterMod - 1
  /\ buffer \in [0 .. Size - 1 -> Nat] /\ sent \in 0 .. MaxItems
  /\ prodPc \in {"idle", "copy", "publish"}
  /\ consPc \in [Consumers -> {"idle", "tail", "copy", "cas"}]
  /\ consumer \in [Consumers -> 0 .. CounterMod - 1]
  /\ data \in [Consumers -> Nat]

(* The producer has checked for room for the value that it copies.         *)
ProducerSound ==
  /\ Queued <= Size - 1 /\ Queued <= sent
  /\ prodPc # "idle" => Queued < Size - 1 /\ sent < MaxItems
  /\ prodPc = "publish" => buffer[Slot(pTail)] = sent + 1

(* A head that a consumer has read is not older than the values taken      *)
(* since; while it is the head, what the consumer has found out holds.     *)
ConsumersSound ==
  \A c \in Consumers :
    /\ consPc[c] # "idle" => Ahead(cHead, consumer[c]) <= sent - Queued
    /\ consPc[c] \in {"copy", "cas"} /\ consumer[c] = cHead => Queued >= 1
    /\ consPc[c] = "cas" /\ consumer[c] = cHead => data[c] = buffer[Slot(cHead)]

RingInv == RingTypeOK /\ ProducerSound /\ ConsumersSound

----------------------------------------------------------------------------
(* A multiple of a larger number is larger by one factor at least.         *)
LEMMA Product ==
  ASSUME NEW d \in Nat, NEW a \in Int, NEW b \in Int, a < b
  PROVE  d * a + d <= d * b
<1>1. PICK k \in Nat : b = a + 1 + k BY b - a - 1 \in Nat
<1>2. d * k \in Nat OBVIOUS
<1>3. d * b = d * a + d + d * k BY <1>1
<1> QED BY <1>2, <1>3

LEMMA Positive == Size \in Nat \ {0} /\ Size >= 2 /\ CounterMod \in Nat \ {0}
BY RingAssumption

(* The next counter.                                                       *)
LEMMA IncIs ==
  ASSUME NEW n \in 0 .. CounterMod - 1
  PROVE  /\ Inc(n) = IF n + 1 = CounterMod THEN 0 ELSE n + 1
         /\ Inc(n) \in 0 .. CounterMod - 1
<1>1. CASE n + 1 = CounterMod BY <1>1, Positive DEF Inc
<1>2. CASE n + 1 # CounterMod BY <1>2, Positive DEF Inc
<1> QED BY <1>1, <1>2

(* Adding a multiple of the divisor does not change the remainder.         *)
LEMMA Shift ==
  ASSUME NEW d \in Nat \ {0}, NEW x \in Int, NEW q \in Int
  PROVE  (x + d * q) % d = x % d
<1> DEFINE a == x \div d
           b == x % d
           e == (x + d * q) \div d
           f == (x + d * q) % d
<1>1. a \in Int /\ b \in 0 .. d - 1 /\ x = d * a + b OBVIOUS
<1>2. x + d * q \in Int OBVIOUS
<1>3. e \in Int /\ f \in 0 .. d - 1 /\ x + d * q = d * e + f BY <1>2
<1> HIDE DEF a, b, e, f
<1>4. d * a + d * q = d * (a + q) BY <1>1
<1>5. d * (a + q) + b = d * e + f BY <1>1, <1>3, <1>4
<1>6. ~(e < a + q)
  <2> SUFFICES ASSUME e < a + q PROVE FALSE OBVIOUS
  <2>1. d * e + d <= d * (a + q) BY <1>1, <1>3, Product
  <2> QED BY <2>1, <1>1, <1>3, <1>5
<1>7. ~(a + q < e)
  <2> SUFFICES ASSUME a + q < e PROVE FALSE OBVIOUS
  <2>1. d * (a + q) + d <= d * e BY <1>1, <1>3, Product
  <2> QED BY <2>1, <1>1, <1>3, <1>5
<1>8. e = a + q BY <1>1, <1>3, <1>6, <1>7
<1>9. f = b BY <1>8, <1>5, <1>1, <1>3
<1> QED BY <1>9 DEF f, b

(* The slots go round a whole number of times in a turn of the counters.   *)
LEMMA SlotTurn ==
  ASSUME NEW x \in Int
  PROVE  Slot(x + CounterMod) = Slot(x) /\ Slot(x - CounterMod) = Slot(x)
<1> DEFINE q == CounterMod \div Size
<1>1. q \in Int /\ CounterMod = Size * q BY RingAssumption, Positive
<1> HIDE DEF q
<1>2. (x + Size * q) % Size = x % Size BY Zenon, <1>1, Positive, Shift
<1>3. -q \in Int /\ Size * (-q) = -(Size * q) BY <1>1, Positive
<1>4. (x + Size * (-q)) % Size = x % Size BY Zenon, <1>3, Positive, Shift
<1>5. x + Size * (-q) = x - CounterMod BY <1>1, <1>3
<1> QED BY <1>1, <1>2, <1>4, <1>5 DEF Slot

LEMMA SlotIn ==
  ASSUME NEW x \in Int PROVE Slot(x) \in 0 .. Size - 1
BY Positive DEF Slot

(* Slots less than a turn apart are different.                             *)
LEMMA RingSlotsDiffer ==
  ASSUME NEW x \in Int, NEW y \in Int, x < y, y < x + Size
  PROVE  Slot(x) # Slot(y)
<1> SUFFICES ASSUME x % Size = y % Size PROVE FALSE BY DEF Slot
<1> DEFINE a == x \div Size
           b == y \div Size
           r == x % Size
<1>1. a \in Int /\ b \in Int /\ r \in Int /\ x = Size * a + r /\ y = Size * b + r
  BY Positive
<1> HIDE DEF a, b, r
<1>2. Size * a < Size * b /\ Size * b < Size * a + Size
  <2>1. Size * a \in Int /\ Size * b \in Int BY <1>1, Positive
  <2> QED BY <2>1, <1>1, Positive
<1>3. ~(a < b)
  <2> SUFFICES ASSUME a < b PROVE FALSE OBVIOUS
  <2>1. Size * a + Size <= Size * b BY <1>1, Positive, Product
  <2>2. Size * a \in Int /\ Size * b \in Int BY <1>1, Positive
  <2> QED BY <2>1, <2>2, <1>2, Positive
<1>4. ~(b < a)
  <2> SUFFICES ASSUME b < a PROVE FALSE OBVIOUS
  <2>1. Size * b + Size <= Size * a BY <1>1, Positive, Product
  <2>2. Size * a \in Int /\ Size * b \in Int BY <1>1, Positive
  <2> QED BY <2>1, <2>2, <1>2, Positive
<1>5. a = b BY <1>1, <1>3, <1>4
<1> QED BY <1>5, <1>2, <1>1, Positive

(* The slot behind the queued values is the one of the tail.               *)
LEMMA TailSlot ==
  ASSUME RingTypeOK
  PROVE  /\ Queued \in 0 .. CounterMod - 1
         /\ Slot(cHead + Queued) = Slot(pTail)
<1>1. Queued \in 0 .. CounterMod - 1 BY Positive DEF Queued, Ahead, RingTypeOK
<1>2. cHead + Queued \in {pTail, pTail + CounterMod} BY Positive DEF Queued, Ahead, RingTypeOK
<1>3. pTail \in Int BY Positive DEF RingTypeOK
<1>4. Slot(pTail + CounterMod) = Slot(pTail) BY <1>3, SlotTurn
<1> QED BY <1>1, <1>2, <1>4

(* ck_ring_size() *)
LEMMA LengthIs ==
  ASSUME RingTypeOK, Queued <= Size - 1
  PROVE  RingLength = Queued
<1>1. Queued \in Nat /\ Queued < Size BY TailSlot, Positive
<1>2. pTail - cHead \in Int /\ (pTail - cHead) + CounterMod \in Int
  BY Positive DEF RingTypeOK
<1>3. Queued = pTail - cHead \/ Queued = (pTail - cHead) + CounterMod
  BY Positive DEF Queued, Ahead, RingTypeOK
<1>4. Slot((pTail - cHead) + CounterMod) = Slot(pTail - cHead) BY <1>2, SlotTurn
<1>5. Slot(Queued) = Slot(pTail - cHead) BY <1>3, <1>4
<1>6. Slot(Queued) = Queued BY <1>1, Positive DEF Slot
<1> QED BY <1>5, <1>6 DEF RingLength, Slot

(* The slot after a counter, and one turn of the slots.                    *)
LEMMA NextSlot ==
  ASSUME NEW n \in 0 .. CounterMod - 1
  PROVE  /\ \A k \in Int : Slot(Inc(n) + k) = Slot(n + 1 + k)
         /\ Slot(n + Size) = Slot(n)
<1>1. n \in Int /\ CounterMod \in Int BY Positive
<1>2. ASSUME NEW k \in Int PROVE Slot(Inc(n) + k) = Slot(n + 1 + k)
  <2>1. CASE n + 1 = CounterMod
    <3>1. Slot(k + CounterMod) = Slot(k) BY SlotTurn
    <3>2. Inc(n) + k = k /\ n + 1 + k = k + CounterMod BY <2>1, <1>1, IncIs
    <3> QED BY <3>1, <3>2
  <2>2. CASE n + 1 # CounterMod
    <3>1. Inc(n) = n + 1 BY <2>2, IncIs
    <3> QED BY <3>1
  <2> QED BY <2>1, <2>2
<1>3. (n + Size * 1) % Size = n % Size
  <2>1. 1 \in Int OBVIOUS
  <2> QED BY Zenon, <1>1, <2>1, Positive, Shift
<1>4. Size * 1 = Size BY Positive
<1> QED BY <1>2, <1>3, <1>4 DEF Slot

----------------------------------------------------------------------------
(* The invariant.                                                          *)

LEMMA RingStarts == RingInit => RingInv
<1> SUFFICES ASSUME RingInit PROVE RingInv OBVIOUS
<1>1. RingTypeOK BY RingAssumption DEF RingInit, RingTypeOK
<1>2. Queued = 0 BY <1>1 DEF RingInit, RingTypeOK, Queued, Ahead
<1>3. ProducerSound BY <1>2, RingAssumption DEF RingInit, ProducerSound
<1>4. ConsumersSound BY DEF RingInit, ConsumersSound
<1> QED BY <1>1, <1>3, <1>4 DEF RingInv

(* The producer goes on only if two slots are free: the value it copies in *)
(* leaves one.                                                             *)
LEMMA RoomFound ==
  ASSUME RingInv, Slot(Inc(pTail)) # Slot(cHead)
  PROVE  Queued < Size - 1
<1>0. RingTypeOK /\ Queued <= Size - 1 BY DEF RingInv, ProducerSound
<1>1. Queued \in Nat BY <1>0, TailSlot
<1>2. SUFFICES ASSUME Queued = Size - 1 PROVE FALSE BY <1>0, <1>1, Positive
<1>3. pTail \in 0 .. CounterMod - 1 /\ cHead \in 0 .. CounterMod - 1 BY <1>0 DEF RingTypeOK
<1>4. pTail \in Int /\ pTail + 1 \in Int /\ CounterMod \in Int BY <1>3, Positive
<1>5. cHead + Size \in {pTail + 1, pTail + 1 + CounterMod}
  BY <1>2, <1>3, Positive DEF Queued, Ahead
<1>6. Slot(pTail + 1 + CounterMod) = Slot(pTail + 1) BY <1>4, SlotTurn
<1>7. Slot(Inc(pTail) + 0) = Slot(pTail + 1 + 0) BY <1>3, NextSlot
<1>8. Slot(cHead + Size) = Slot(cHead) BY <1>3, NextSlot
<1>9. Inc(pTail) \in Int BY <1>3, IncIs
<1> QED BY <1>4, <1>5, <1>6, <1>7, <1>8, <1>9

(* The tail's slot holds no queued value while there is room.              *)
LEMMA TailFree ==
  ASSUME RingTypeOK, Queued < Size
  PROVE  \A k \in 1 .. Queued : Slot(cHead + k - 1) # Slot(pTail)
<1> TAKE k \in 1 .. Queued
<1>1. Queued \in Nat /\ Slot(cHead + Queued) = Slot(pTail) BY TailSlot
<1>2. cHead + k - 1 \in Int /\ cHead + Queued \in Int /\ cHead + k - 1 < cHead + Queued
      /\ cHead + Queued < cHead + k - 1 + Size
  BY <1>1, Positive DEF RingTypeOK
<1>3. Slot(cHead + k - 1) # Slot(cHead + Queued) BY <1>2, RingSlotsDiffer
<1> QED BY <1>1, <1>3

(* Publishing makes the queue one longer, claiming one shorter.            *)
LEMMA Published ==
  ASSUME RingInv, prodPc = "publish", pTail' = Inc(pTail), cHead' = cHead
  PROVE  Queued' = Queued + 1 /\ pTail' \in 0 .. CounterMod - 1
<1>1. pTail \in 0 .. CounterMod - 1 /\ cHead \in 0 .. CounterMod - 1 /\ sent \in 0 .. MaxItems
  BY DEF RingInv, RingTypeOK
<1>2. Queued <= sent /\ sent < MaxItems /\ MaxItems < CounterMod
  BY RingAssumption DEF RingInv, ProducerSound
<1>3. Inc(pTail) = (IF pTail + 1 = CounterMod THEN 0 ELSE pTail + 1)
      /\ Inc(pTail) \in 0 .. CounterMod - 1
  BY <1>1, IncIs
<1> QED BY <1>1, <1>2, <1>3, RingAssumption DEF Queued, Ahead

(* A consumer's snapshot ages by one, and is not the new head.             *)
LEMMA Claimed ==
  ASSUME RingInv, Queued >= 1, cHead' = Inc(cHead), pTail' = pTail, sent' = sent
  PROVE  /\ Queued' = Queued - 1 /\ cHead' \in 0 .. CounterMod - 1
         /\ \A a \in 0 .. CounterMod - 1 :
              Ahead(cHead, a) <= sent - Queued =>
                Ahead(cHead', a) <= sent' - Queued' /\ a # cHead'
<1>1. pTail \in 0 .. CounterMod - 1 /\ cHead \in 0 .. CounterMod - 1 /\ sent \in 0 .. MaxItems
  BY DEF RingInv, RingTypeOK
<1>2. Queued <= sent /\ sent <= MaxItems /\ MaxItems < CounterMod
  BY <1>1, RingAssumption DEF RingInv, ProducerSound
<1>3. Inc(cHead) = (IF cHead + 1 = CounterMod THEN 0 ELSE cHead + 1)
      /\ Inc(cHead) \in 0 .. CounterMod - 1
  BY <1>1, IncIs
<1>4. Queued' = Queued - 1 BY <1>1, <1>2, <1>3, RingAssumption DEF Queued, Ahead
<1>5. Queued \in Nat BY <1>1, RingAssumption DEF Queued, Ahead
<1>6. ASSUME NEW a \in 0 .. CounterMod - 1, Ahead(cHead, a) <= sent - Queued
      PROVE  Ahead(cHead', a) <= sent' - Queued' /\ a # cHead'
  <2> HIDE DEF Queued
  <2> QED BY <1>1, <1>2, <1>3, <1>4, <1>5, <1>6, RingAssumption DEF Ahead
<1> QED BY <1>3, <1>4, <1>6

(* Every step keeps the invariant.                                         *)
LEMMA RingSteps == RingInv /\ [RingNext]_ringVars => RingInv'
<1> SUFFICES ASSUME RingInv, [RingNext]_ringVars PROVE RingInv' OBVIOUS
<1>0. RingTypeOK /\ ProducerSound /\ ConsumersSound BY DEF RingInv
<1>q. Queued \in Nat /\ Queued <= Size - 1 /\ Size \in Nat /\ sent \in Nat /\ MaxItems \in Nat
  BY <1>0, TailSlot, RingAssumption DEF ProducerSound, RingTypeOK
<1>1. ASSUME EnqueueCheck PROVE RingInv'
  <2>1. Queued < Size - 1 BY <1>1, RoomFound DEF EnqueueCheck
  <2>2. Queued' = Queued BY <1>1 DEF EnqueueCheck, Queued
  <2>3. RingTypeOK' BY <1>0, <1>1 DEF EnqueueCheck, consVars, RingTypeOK
  <2>4. ProducerSound' BY <1>0, <1>1, <2>1, <2>2 DEF EnqueueCheck, ProducerSound
  <2>5. ConsumersSound' BY Zenon, <1>0, <1>1, <2>2 DEF EnqueueCheck, consVars, ConsumersSound
  <2> QED BY <2>3, <2>4, <2>5 DEF RingInv
<1>2. ASSUME EnqueueCopy PROVE RingInv'
  <2>1. Queued' = Queued BY <1>2 DEF EnqueueCopy, Queued
  <2>2. Slot(pTail) \in 0 .. Size - 1 BY <1>0, SlotIn DEF RingTypeOK
  <2>3. buffer'[Slot(pTail)] = sent + 1 /\ \A i \in 0 .. Size - 1 : i # Slot(pTail) => buffer'[i] = buffer[i]
    BY <1>0, <1>2, <2>2 DEF EnqueueCopy, RingTypeOK
  <2>4. RingTypeOK' BY <1>0, <1>2, <1>q, <2>2 DEF EnqueueCopy, consVars, RingTypeOK
  <2>5. ProducerSound' BY <1>0, <1>2, <2>1, <2>3 DEF EnqueueCopy, ProducerSound
  <2>6. Queued >= 1 => Slot(cHead) # Slot(pTail)
    <3>1. cHead + 1 - 1 = cHead BY <1>0 DEF RingTypeOK
    <3> QED BY <1>0, <1>q, <3>1, TailFree
  <2>7. Slot(cHead) \in 0 .. Size - 1 BY <1>0, SlotIn DEF RingTypeOK
  <2>8. ConsumersSound'
    BY Zenon, <1>0, <1>2, <2>1, <2>3, <2>6, <2>7 DEF EnqueueCopy, consVars, ConsumersSound
  <2> QED BY <2>4, <2>5, <2>8 DEF RingInv
<1>3. ASSUME EnqueuePublish PROVE RingInv'
  <2>1. Queued' = Queued + 1 /\ pTail' \in 0 .. CounterMod - 1
    BY <1>3, Published DEF EnqueuePublish
  <2>2. Queued < Size - 1 /\ sent < MaxItems /\ Queued <= sent
    BY <1>0, <1>3 DEF EnqueuePublish, ProducerSound
  <2>3. RingTypeOK' BY <1>0, <1>3, <1>q, <2>1, <2>2 DEF EnqueuePublish, consVars, RingTypeOK
  <2>4. ProducerSound' BY <1>3, <1>q, <2>1, <2>2 DEF EnqueuePublish, ProducerSound
  <2>5. sent' - Queued' = sent - Queued BY <1>3, <1>q, <2>1 DEF EnqueuePublish
  <2>6. Queued >= 1 => Queued' >= 1 BY <1>q, <2>1
  <2>7. ConsumersSound'
    BY Zenon, <1>0, <1>3, <2>5, <2>6 DEF EnqueuePublish, consVars, ConsumersSound
  <2> QED BY <2>3, <2>4, <2>7 DEF RingInv
<1>4. ASSUME NEW c \in Consumers, DequeueHead(c) PROVE RingInv'
  <2>1. Queued' = Queued /\ Ahead(cHead, cHead) = 0 BY <1>0, <1>4 DEF DequeueHead, Queued, Ahead, RingTypeOK
  <2>2. Ahead(cHead, cHead) <= sent - Queued
    <3>1. sent \in Int /\ Queued <= sent BY <1>0 DEF RingTypeOK, ProducerSound
    <3> QED BY <1>q, <2>1, <3>1
  <2>3. RingTypeOK' BY <1>0, <1>4 DEF DequeueHead, RingTypeOK
  <2>4. ProducerSound' BY <1>0, <1>4, <2>1 DEF DequeueHead, ProducerSound
  <2>5. consPc'[c] = "tail" /\ consumer'[c] = cHead
        /\ \A d \in Consumers : d # c => consPc'[d] = consPc[d] /\ consumer'[d] = consumer[d]
    BY <1>0, <1>4 DEF DequeueHead, RingTypeOK
  <2>6. ConsumersSound'
    BY Zenon, <1>0, <1>4, <2>1, <2>2, <2>5 DEF DequeueHead, ConsumersSound
  <2> QED BY <2>3, <2>4, <2>6 DEF RingInv
<1>5. ASSUME NEW c \in Consumers, DequeueTail(c) PROVE RingInv'
  <2>1. Queued' = Queued BY <1>5 DEF DequeueTail, Queued
  <2>2. RingTypeOK' BY <1>0, <1>5 DEF DequeueTail, RingTypeOK
  <2>3. ProducerSound' BY <1>0, <1>5, <2>1 DEF DequeueTail, ProducerSound
  <2>4. consPc'[c] \in {"idle", "copy"} /\ (consPc'[c] = "copy" => consumer[c] # pTail)
        /\ consPc[c] = "tail" /\ \A d \in Consumers : d # c => consPc'[d] = consPc[d]
    BY <1>0, <1>5 DEF DequeueTail, RingTypeOK
  <2>5. cHead # pTail => Queued >= 1 BY <1>0, Positive DEF Queued, Ahead, RingTypeOK
  <2>6. ConsumersSound'
    BY Zenon, <1>0, <1>5, <2>1, <2>4, <2>5 DEF DequeueTail, ConsumersSound
  <2> QED BY <2>2, <2>3, <2>6 DEF RingInv
<1>6. ASSUME NEW c \in Consumers, DequeueCopy(c) PROVE RingInv'
  <2>1. Queued' = Queued BY Zenon, <1>6 DEF DequeueCopy, Queued
  <2>2. Slot(consumer[c]) \in 0 .. Size - 1 BY <1>0, SlotIn DEF RingTypeOK
  <2>3. RingTypeOK' BY <1>0, <1>6, <2>2 DEF DequeueCopy, RingTypeOK
  <2>4. ProducerSound' BY Zenon, <1>0, <1>6, <2>1 DEF DequeueCopy, ProducerSound
  <2>5. /\ consPc[c] = "copy" /\ consPc'[c] = "cas" /\ data'[c] = buffer[Slot(consumer[c])]
        /\ \A d \in Consumers : d # c => consPc'[d] = consPc[d] /\ data'[d] = data[d]
    BY <1>0, <1>6 DEF DequeueCopy, RingTypeOK
  <2>6. ConsumersSound'
    BY Zenon, <1>0, <1>6, <2>1, <2>5 DEF DequeueCopy, ConsumersSound
  <2> QED BY <2>3, <2>4, <2>6 DEF RingInv
<1>7. ASSUME NEW c \in Consumers, DequeueCas(c) PROVE RingInv'
  <2>1. CASE cHead = consumer[c]
    <3>1. Queued >= 1 BY <1>0, <1>7, <2>1 DEF DequeueCas, ConsumersSound
    <3>2. cHead' = Inc(cHead) /\ pTail' = pTail /\ sent' = sent BY <1>7, <2>1 DEF DequeueCas
    <3>3. /\ Queued' = Queued - 1 /\ cHead' \in 0 .. CounterMod - 1
          /\ \A a \in 0 .. CounterMod - 1 :
               Ahead(cHead, a) <= sent - Queued =>
                 Ahead(cHead', a) <= sent' - Queued' /\ a # cHead'
      BY <3>1, <3>2, Claimed
    <3>4. RingTypeOK' BY <1>0, <1>7, <2>1, <3>3 DEF DequeueCas, RingTypeOK
    <3>5. ProducerSound' BY <1>0, <1>7, <1>q, <2>1, <3>2, <3>3 DEF DequeueCas, ProducerSound
    <3>6. consPc'[c] = "idle" /\ consumer' = consumer /\ data' = data /\ buffer' = buffer
          /\ \A d \in Consumers : d # c => consPc'[d] = consPc[d]
      BY <1>0, <1>7, <2>1 DEF DequeueCas, RingTypeOK
    <3>7. ASSUME NEW d \in Consumers, consPc'[d] # "idle"
          PROVE  Ahead(cHead', consumer'[d]) <= sent' - Queued' /\ consumer'[d] # cHead'
      <4>1. consPc[d] # "idle" BY <3>6, <3>7
      <4>2. consumer[d] \in 0 .. CounterMod - 1 /\ Ahead(cHead, consumer[d]) <= sent - Queued
        BY <1>0, <4>1 DEF RingTypeOK, ConsumersSound
      <4> QED BY <3>3, <3>6, <4>2
    <3>8. ConsumersSound' BY Zenon, <3>7 DEF ConsumersSound
    <3> QED BY <3>4, <3>5, <3>8 DEF RingInv
  <2>2. CASE cHead # consumer[c]
    <3>1. Queued' = Queued /\ Ahead(cHead, cHead) = 0
      BY <1>0, <1>7, <2>2 DEF DequeueCas, Queued, Ahead, RingTypeOK
    <3>2. Queued <= sent BY <1>0 DEF ProducerSound
    <3>3. RingTypeOK' BY Zenon, <1>0, <1>7, <2>2 DEF DequeueCas, RingTypeOK
    <3>4. ProducerSound' BY <1>0, <1>7, <2>2, <3>1 DEF DequeueCas, ProducerSound
    <3>5. consPc'[c] = "tail" /\ consumer'[c] = cHead /\ UNCHANGED <<cHead, sent, data, buffer>>
          /\ \A d \in Consumers : d # c => consPc'[d] = consPc[d] /\ consumer'[d] = consumer[d]
      BY <1>0, <1>7, <2>2 DEF DequeueCas, RingTypeOK
    <3>6. ConsumersSound' BY <1>0, <1>q, <3>1, <3>2, <3>5 DEF ConsumersSound
    <3> QED BY <3>3, <3>4, <3>6 DEF RingInv
  <2> QED BY <2>1, <2>2
<1>8. ASSUME UNCHANGED ringVars PROVE RingInv'
  BY Zenon, <1>0, <1>8 DEF ringVars, RingInv, RingTypeOK, ProducerSound, ConsumersSound, Queued
<1> QED BY <1>1, <1>2, <1>3, <1>4, <1>5, <1>6, <1>7, <1>8
    DEF RingNext, ck_ring_enqueue_spmc, ck_ring_dequeue_spmc

----------------------------------------------------------------------------
(* The refinement.                                                         *)

(* The queue that the ring stands for.                                     *)
LEMMA ItemsAre ==
  ASSUME RingInv
  PROVE  /\ Items = [k \in 1 .. Queued |-> buffer[Slot(cHead + k - 1)]]
         /\ Items \in Seq(Nat) /\ Len(Items) = Queued /\ Queued \in Nat
<1>1. RingTypeOK /\ Queued <= Size - 1 BY DEF RingInv, ProducerSound
<1>2. Queued \in Nat /\ RingLength = Queued BY <1>1, TailSlot, LengthIs
<1>3. Items = [k \in 1 .. Queued |-> buffer[Slot(cHead + k - 1)]] BY <1>2 DEF Items
<1>4. ASSUME NEW k \in 1 .. Queued PROVE buffer[Slot(cHead + k - 1)] \in Nat
  <2>1. cHead + k - 1 \in Int BY <1>1, <1>2 DEF RingTypeOK
  <2>2. Slot(cHead + k - 1) \in 0 .. Size - 1 BY <2>1, SlotIn
  <2> QED BY <1>1, <2>2 DEF RingTypeOK
<1> HIDE DEF Queued
<1> QED BY <1>2, <1>3, <1>4

(* The same, of the next state.                                            *)
ItemsOK == /\ Items = [k \in 1 .. Queued |-> buffer[Slot(cHead + k - 1)]]
           /\ Items \in Seq(Nat) /\ Len(Items) = Queued /\ Queued \in Nat

LEMMA ItemsFact == RingInv => ItemsOK
BY ItemsAre DEF ItemsOK

LEMMA ItemsAreNext == RingInv' => ItemsOK'
BY ItemsFact, PTL

(* Two lists of the same length with the same elements are the same.       *)
LEMMA SameList ==
  ASSUME NEW s \in Seq(Nat), NEW t \in Seq(Nat), Len(s) = Len(t),
         \A k \in 1 .. Len(s) : s[k] = t[k]
  PROVE  s = t
OBVIOUS

(* An empty ring is an empty queue.                                        *)
LEMMA EmptyRing == ASSUME RingInv, Queued = 0 PROVE Items = <<>>
<1>1. Items \in Seq(Nat) /\ Len(Items) = 0 BY ItemsAre
<1> QED BY <1>1

(* Copying a value in changes nothing for the consumers: its slot is free. *)
LEMMA CopyInvisible == ASSUME RingInv, EnqueueCopy PROVE Items' = Items
<1>1. RingInv' BY RingSteps DEF RingNext, ck_ring_enqueue_spmc
<1>2. RingTypeOK /\ prodPc = "copy" /\ Queued < Size
  <2>1. Size \in Nat /\ Queued \in Nat BY Positive, ItemsAre
  <2> QED BY <2>1 DEF EnqueueCopy, RingInv, ProducerSound
<1>3. Queued' = Queued /\ cHead' = cHead BY DEF EnqueueCopy, Queued
<1>4. ASSUME NEW k \in 1 .. Queued
      PROVE  buffer'[Slot(cHead + k - 1)] = buffer[Slot(cHead + k - 1)]
  <2>1. Slot(cHead + k - 1) # Slot(pTail) BY <1>2, TailFree
  <2>2. cHead + k - 1 \in Int BY <1>2, ItemsAre DEF RingTypeOK
  <2>3. Slot(cHead + k - 1) \in 0 .. Size - 1 BY <2>2, SlotIn
  <2> QED BY <1>2, <2>1, <2>3 DEF EnqueueCopy, RingTypeOK
<1>5. Items = [k \in 1 .. Queued |-> buffer[Slot(cHead + k - 1)]] BY ItemsAre
<1>6. Items' = [k \in 1 .. Queued' |-> buffer'[Slot(cHead' + k - 1)]]
  BY <1>1, ItemsAreNext DEF ItemsOK
<1> HIDE DEF Queued
<1> QED BY <1>3, <1>4, <1>5, <1>6

(* Publishing appends the value that was copied in.                        *)
LEMMA PublishAppends ==
  ASSUME RingInv, EnqueuePublish
  PROVE  /\ Len(Items) < Size - 1 /\ sent + 1 \in 1 .. MaxItems
         /\ Items' = Append(Items, sent + 1)
<1>1. RingInv' BY RingSteps DEF RingNext, ck_ring_enqueue_spmc
<1>2. Queued' = Queued + 1 /\ cHead' = cHead /\ buffer' = buffer
  BY Published DEF EnqueuePublish
<1>3. /\ RingTypeOK /\ Queued < Size - 1 /\ sent < MaxItems /\ buffer[Slot(pTail)] = sent + 1
  BY DEF EnqueuePublish, RingInv, ProducerSound
<1>4. Slot(cHead + Queued) = Slot(pTail) BY <1>3, TailSlot
<1>5. ItemsOK /\ ItemsOK' BY <1>1, ItemsFact, ItemsAreNext
<1>6. sent + 1 \in 1 .. MaxItems /\ sent + 1 \in Nat BY <1>3, RingAssumption DEF RingTypeOK
<1>7. cHead \in Int BY <1>3, Positive DEF RingTypeOK
<1>8. ASSUME NEW k \in 1 .. Queued + 1 PROVE Items'[k] = Append(Items, sent + 1)[k]
  <2>0. Queued \in Nat /\ Items'[k] = buffer[Slot(cHead + k - 1)] BY <1>2, <1>5 DEF ItemsOK
  <2>1. CASE k \in 1 .. Queued
    <3>1. Items[k] = buffer[Slot(cHead + k - 1)] BY Zenon, <1>5, <2>1 DEF ItemsOK
    <3>2. Append(Items, sent + 1)[k] = Items[k] BY <1>5, <1>6, <2>1 DEF ItemsOK
    <3> QED BY Zenon, <2>0, <3>1, <3>2
  <2>2. CASE k = Queued + 1
    <3>1. cHead + k - 1 = cHead + Queued BY <2>0, <2>2, <1>7
    <3>2. Append(Items, sent + 1)[k] = sent + 1 BY <1>5, <1>6, <2>2 DEF ItemsOK
    <3> QED BY Zenon, <1>3, <1>4, <2>0, <3>1, <3>2
  <2>3. k \in 1 .. Queued \/ k = Queued + 1
    <3>1. \A q \in Nat : \A j \in 1 .. q + 1 : j \in 1 .. q \/ j = q + 1 OBVIOUS
    <3> QED BY Zenon, <2>0, <3>1
  <2> QED BY Zenon, <2>1, <2>2, <2>3
<1>9. /\ Append(Items, sent + 1) \in Seq(Nat) /\ Len(Append(Items, sent + 1)) = Queued + 1
      /\ Items' \in Seq(Nat) /\ Len(Items') = Queued + 1 /\ Len(Items) < Size - 1
  BY <1>2, <1>3, <1>5, <1>6 DEF ItemsOK
<1> QED BY <1>6, <1>8, <1>9, SameList

(* A consumer that finds its snapshot equal to the tail has found the ring *)
(* empty: the snapshot cannot be a turn of the counters old.               *)
LEMMA EmptyIsEmpty ==
  ASSUME RingInv, NEW c \in Consumers, consPc[c] = "tail", consumer[c] = pTail
  PROVE  Items = <<>>
<1>1. /\ pTail \in 0 .. CounterMod - 1 /\ cHead \in 0 .. CounterMod - 1 /\ sent \in 0 .. MaxItems
  BY DEF RingInv, RingTypeOK
<1>2. Ahead(cHead, pTail) <= sent - Queued BY DEF RingInv, ConsumersSound
<1>3. Queued = 0
  <2>1. MaxItems \in Nat /\ CounterMod \in Nat /\ MaxItems < CounterMod BY RingAssumption
  <2>2. CASE pTail = cHead BY <1>1, <2>1, <2>2 DEF Queued, Ahead
  <2>3. CASE pTail > cHead
    <3>1. Queued = pTail - cHead /\ Ahead(cHead, pTail) = cHead - pTail + CounterMod
      BY <1>1, <2>1, <2>3 DEF Queued, Ahead
    <3> QED BY <1>1, <1>2, <2>1, <3>1
  <2>4. CASE pTail < cHead
    <3>1. Queued = pTail - cHead + CounterMod /\ Ahead(cHead, pTail) = cHead - pTail
      BY <1>1, <2>1, <2>4 DEF Queued, Ahead
    <3> QED BY <1>1, <1>2, <2>1, <3>1
  <2> QED BY <1>1, <2>1, <2>2, <2>3, <2>4
<1> QED BY <1>3, EmptyRing

(* A successful compare-and-swap takes the oldest value, which is the one  *)
(* that the consumer has copied.                                           *)
LEMMA CasTakesHead ==
  ASSUME RingInv, NEW c \in Consumers, DequeueCas(c), cHead = consumer[c]
  PROVE  Items # <<>> /\ data[c] = Head(Items) /\ Items' = Tail(Items)
<1>1. RingInv' BY RingSteps DEF RingNext, ck_ring_dequeue_spmc
<1>2. /\ cHead' = Inc(cHead) /\ pTail' = pTail /\ sent' = sent /\ buffer' = buffer
      /\ consPc[c] = "cas"
  BY DEF DequeueCas
<1>3. Queued >= 1 /\ data[c] = buffer[Slot(cHead)] BY <1>2 DEF RingInv, ConsumersSound
<1>4. Queued' = Queued - 1 BY Zenon, <1>2, <1>3, Claimed
<1>5. ItemsOK /\ ItemsOK' BY <1>1, ItemsFact, ItemsAreNext
<1>6. cHead \in 0 .. CounterMod - 1 /\ cHead \in Int BY Positive DEF RingInv, RingTypeOK
<1>7. /\ Items \in Seq(Nat) /\ Items # <<>> /\ Head(Items) = Items[1] /\ Tail(Items) \in Seq(Nat)
      /\ Len(Tail(Items)) = Queued - 1 /\ \A k \in 1 .. Queued - 1 : Tail(Items)[k] = Items[k + 1]
  <2>1. Items \in Seq(Nat) /\ Len(Items) = Queued BY Zenon, <1>5 DEF ItemsOK
  <2>2. \A s \in Seq(Nat) : Len(s) >= 1 =>
          /\ s # <<>> /\ Head(s) = s[1] /\ Tail(s) \in Seq(Nat) /\ Len(Tail(s)) = Len(s) - 1
          /\ \A k \in 1 .. Len(s) - 1 : Tail(s)[k] = s[k + 1]
    OBVIOUS
  <2> HIDE DEF Items, Queued
  <2> QED BY Zenon, <1>3, <2>1, <2>2
<1>8. Items[1] = buffer[Slot(cHead)]
  <2>1. 1 \in 1 .. Queued /\ cHead + 1 - 1 = cHead BY <1>3, <1>5, <1>6 DEF ItemsOK
  <2> QED BY Zenon, <2>1, <1>5 DEF ItemsOK
<1>9. ASSUME NEW k \in 1 .. Queued - 1 PROVE Items'[k] = Tail(Items)[k]
  <2>1. Queued \in Nat /\ k \in 1 .. Queued' /\ k + 1 \in 1 .. Queued /\ k - 1 \in Int
    BY <1>4, <1>5 DEF ItemsOK
  <2>2. Slot(Inc(cHead) + (k - 1)) = Slot(cHead + 1 + (k - 1)) BY <1>6, <2>1, NextSlot
  <2>3. Inc(cHead) \in Int BY <1>6, IncIs
  <2>4. Inc(cHead) + (k - 1) = Inc(cHead) + k - 1 /\ cHead + 1 + (k - 1) = cHead + (k + 1) - 1
    BY <1>6, <2>1, <2>3
  <2>5. Items'[k] = buffer[Slot(Inc(cHead) + k - 1)] BY <1>2, <1>5, <2>1 DEF ItemsOK
  <2>6. Items[k + 1] = buffer[Slot(cHead + (k + 1) - 1)] BY <1>5, <2>1 DEF ItemsOK
  <2>7. Tail(Items)[k] = Items[k + 1] BY <1>7
  <2> QED BY Zenon, <2>2, <2>4, <2>5, <2>6, <2>7
<1>10. Items' \in Seq(Nat) /\ Len(Items') = Queued - 1 BY <1>4, <1>5 DEF ItemsOK
<1>11. Items' = Tail(Items) BY <1>7, <1>9, <1>10, SameList
<1> QED BY <1>3, <1>7, <1>8, <1>11

(* Every step of the ring is a step of the queue, or none.                 *)
LEMMA RingStepIsQueueStep ==
  RingInv /\ [RingNext]_ringVars => [Queue!AbsNext]_(Queue!absVars)
<1> SUFFICES ASSUME RingInv, [RingNext]_ringVars PROVE [Queue!AbsNext]_(Queue!absVars) OBVIOUS
<1> USE DEF Queue!absVars
<1>0. ASSUME UNCHANGED <<cHead, pTail, buffer, got>> PROVE UNCHANGED Queue!absVars
  BY <1>0 DEF Items, RingLength
<1>1. ASSUME EnqueueCheck PROVE UNCHANGED Queue!absVars
  BY <1>0, <1>1 DEF EnqueueCheck, consVars
<1>2. ASSUME EnqueueCopy PROVE UNCHANGED Queue!absVars
  BY <1>2, CopyInvisible DEF EnqueueCopy, consVars
<1>3. ASSUME EnqueuePublish PROVE Queue!AbsNext
  <2>1. Queue!Enqueue(sent + 1)
    BY <1>3, PublishAppends DEF Queue!Enqueue, EnqueuePublish, consVars
  <2> QED BY <1>3, <2>1, PublishAppends DEF Queue!AbsNext
<1>4. ASSUME NEW c \in Consumers, DequeueHead(c) PROVE UNCHANGED Queue!absVars
  BY <1>0, <1>4 DEF DequeueHead
<1>5. ASSUME NEW c \in Consumers, DequeueTail(c) PROVE [Queue!AbsNext]_(Queue!absVars)
  <2>1. CASE consumer[c] = pTail
    <3>1. Items = <<>> BY <1>5, <2>1, EmptyIsEmpty DEF DequeueTail
    <3>2. Items' = Items BY <1>5 DEF DequeueTail, Items, RingLength
    <3>3. Queue!DequeueEmpty(c) BY <1>5, <2>1, <3>1, <3>2 DEF DequeueTail, Queue!DequeueEmpty
    <3> QED BY <3>3 DEF Queue!AbsNext
  <2>2. CASE consumer[c] # pTail
    BY <1>0, <1>5, <2>2 DEF DequeueTail
  <2> QED BY <2>1, <2>2
<1>6. ASSUME NEW c \in Consumers, DequeueCopy(c) PROVE UNCHANGED Queue!absVars
  BY Zenon, <1>0, <1>6 DEF DequeueCopy
<1>7. ASSUME NEW c \in Consumers, DequeueCas(c) PROVE [Queue!AbsNext]_(Queue!absVars)
  <2>1. CASE cHead = consumer[c]
    <3>1. Queue!Dequeue(c) BY <1>7, <2>1, CasTakesHead DEF DequeueCas, Queue!Dequeue
    <3> QED BY <3>1 DEF Queue!AbsNext
  <2>2. CASE cHead # consumer[c]
    BY <1>0, <1>7, <2>2 DEF DequeueCas
  <2> QED BY <2>1, <2>2
<1>8. ASSUME UNCHANGED ringVars PROVE UNCHANGED Queue!absVars
  BY <1>0, <1>8 DEF ringVars
<1> QED BY <1>1, <1>2, <1>3, <1>4, <1>5, <1>6, <1>7, <1>8
    DEF RingNext, ck_ring_enqueue_spmc, ck_ring_dequeue_spmc

(* The lock-free ring implements the queue of atomic operations, for any   *)
(* number of consumers and any ring size: whatever the race of the         *)
(* consumers on c_head, and across the wrap-around of the counters, no     *)
(* value is lost, duplicated, reordered or torn.                           *)
THEOREM RingImplementsQueue == RingSpec => ImplementsQueue
<1>1. RingInit => Queue!AbsInit
  <2> SUFFICES ASSUME RingInit PROVE Queue!AbsInit OBVIOUS
  <2>1. RingInv BY RingStarts
  <2>2. Queued = 0 BY <2>1 DEF RingInit, RingInv, RingTypeOK, Queued, Ahead
  <2>3. Items = <<>> BY <2>1, <2>2, EmptyRing
  <2> QED BY <2>3 DEF RingInit, Queue!AbsInit
<1> QED BY <1>1, RingStarts, RingSteps, RingStepIsQueueStep, PTL
    DEF RingSpec, ImplementsQueue, Queue!AbsSpec
=============================================================================
