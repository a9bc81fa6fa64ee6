----------------------------- MODULE MainProofs -----------------------------
(***************************************************************************)
(* ExitHonest, InterpretersSound and DriverUp of Main, for any number of   *)
(* workers and any set of scenarios. One inductive invariant, MainInv,     *)
(* serves the three: where the threads can be while main() is somewhere    *)
(* (Flow), that a failure is on its way to the exit status (Failures),     *)
(* whose interpreters are open (Interpreters), and what the holder of the  *)
(* driver's mutex finds (Registry).                                        *)
(***************************************************************************)
EXTENDS Main, TLAPS

(* The places of main() before a thread exists, and of all the threads.    *)
Early == {"general", "load", "register", "test", "run", "command"}
MainPlaces == Early \cup {"create", "barrier", "barrier2", "join", "cancel", "final",
                          "op_done", "end", "exit"}
WorkerPlaces == {"none", "start", "thread_init", "once", "lock", "driver_init", "unlock",
                 "ready", "lost", "work", "thread_done", "command", "over"}
ReporterPlaces == {"none", "start", "wait", "flag", "report", "over"}

(* The types of the variables; the options are not needed.                 *)
MainTypeOK ==
  /\ scenario \in Scenarios
  /\ pc \in [All -> MainPlaces \cup WorkerPlaces \cup ReporterPlaces]
  /\ pc["main"] \in MainPlaces
  /\ \A w \in Workers : pc[w] \in WorkerPlaces
  /\ \A r \in Reporters : pc[r] \in ReporterPlaces
  /\ lua \in [All -> {"none", "open", "closed"}]
  /\ states \in BOOLEAN /\ misused \in BOOLEAN /\ error \in BOOLEAN
  /\ created \subseteq Reporters
  /\ rc \in Nat /\ driver \in {"down", "up", "done"}

(* Where the threads are while main() is somewhere.                        *)
Flow ==
  /\ pc["main"] \in Early => \A t \in Threads : pc[t] = "none"
  /\ pc["main"] \in {"cancel", "final", "op_done"} => \A w \in Workers : pc[w] = "over"
  /\ (pc["main"] = "end" \/ driver = "done" \/ (pc["main"] = "exit" /\ rc = 0))
       /\ "create" \notin failed => \A w \in Workers : pc[w] \in {"none", "over"}
  /\ driver = "done" => pc["main"] = "exit"
  /\ pc["main"] \in {"run", "barrier", "barrier2", "cancel", "final", "op_done"} => Command("run")
  /\ pc["main"] \in {"create", "join"} => Command("run") \/ Command("parallel")
  /\ \A t \in Threads : pc[t] # "none" => Command("run") \/ Command("parallel")
  /\ ~Command("run") => \A w \in Workers : pc[w] \in {"none", "start", "command", "over"}
  /\ \A w \in Workers : pc[w] = "command" => ~Command("run")

(* A failure is on its way to the exit status.                             *)
Failures ==
  /\ failed \subseteq {"done"} \/ Command("parallel") \/ rc # 0 \/ error = TRUE
  /\ pc["main"] \in {"end", "exit"} /\ error = TRUE => rc # 0
  /\ "create" \in failed => rc # 0
  /\ error = TRUE => Command("run") /\ failed # {}
  /\ pc["main"] \in Early => error = FALSE

(* Whose interpreters are open.                                            *)
Interpreters ==
  /\ states = TRUE <=> lua["main"] = "open"
  /\ pc["main"] \notin {"general", "load", "end", "exit"} => lua["main"] = "open"
  /\ \A w \in Workers :
       /\ pc[w] \notin {"none", "start", "lost", "over"} => lua[w] = "open"
       /\ pc[w] = "over" /\ lua[w] = "open" => failed # {}
       /\ pc[w] = "lost" => error = TRUE
  /\ \A r \in Reporters : pc[r] \in {"wait", "flag", "report"} => lua[r] = "open"
  /\ \A t \in Threads : pc[t] \in {"none", "start"} => lua[t] = "none"
  /\ failed \cap {"create", "script"} = {} => misused = FALSE
  /\ pc["main"] = "exit" /\ rc = 0 => lua["main"] # "open"

(* Who holds the driver's mutex, and what it finds.                        *)
Registry ==
  /\ \A w \in Workers :
       /\ pc[w] \in {"driver_init", "unlock"} => locked = w
       /\ pc[w] = "driver_init" => driver = "down"
       /\ pc[w] \in {"unlock", "ready", "work", "thread_done"} => driver # "down"
  /\ inits = IF driver = "down" THEN 0 ELSE 1

(* The inductive invariant.                                                *)
MainInv == MainTypeOK /\ Flow /\ Failures /\ Interpreters /\ Registry

(* A step that MainInv does not see, a move of main() that changes nothing *)
(* else, and an end of the process with a failure.                         *)
Stays == UNCHANGED <<scenario, pc, luaVars, dbVars, endVars>>
Goes(a, b) == /\ At("main", a) /\ Goto("main", b)
              /\ UNCHANGED <<scenario, luaVars, dbVars, endVars>>
Dies == /\ pc["main"] # "exit" /\ Goto("main", "exit") /\ rc' \in {1, 139}
        /\ failed \subseteq failed'
        /\ misused' = misused \/ (misused' = TRUE /\ "script" \in failed')
        /\ UNCHANGED <<scenario, lua, states, dbVars, created, error>>

USE DEF Early, MainPlaces, WorkerPlaces, ReporterPlaces, Threads, All, Reporters, NoOne,
        Command, optVars, luaVars, dbVars, endVars, At, Goto

(* A step that changes only the options keeps MainInv.                     *)
LEMMA StaysKeeps == MainInv /\ Stays => MainInv'
  <1>0. SUFFICES ASSUME MainInv, Stays  PROVE MainInv'
    OBVIOUS
  <1>1. MainTypeOK'
    BY <1>0, MainAssumption DEF Stays, MainInv, MainTypeOK
  <1>2. Flow'
    BY <1>0, MainAssumption DEF Stays, MainInv, MainTypeOK, Flow
  <1>3. Failures'
    BY <1>0, MainAssumption DEF Stays, MainInv, MainTypeOK, Failures
  <1>4. Interpreters'
    BY <1>0, MainAssumption DEF Stays, MainInv, MainTypeOK, Interpreters
  <1>5. Registry'
    BY <1>0, MainAssumption DEF Stays, MainInv, MainTypeOK, Registry
  <1>6. QED  BY <1>1, <1>2, <1>3, <1>4, <1>5 DEF MainInv

(* main() goes on to the script.                                           *)
LEMMA LoadKeeps == MainInv /\ Goes("general", "load") => MainInv'
  <1>0. SUFFICES ASSUME MainInv, Goes("general", "load")  PROVE MainInv'
    OBVIOUS
  <1>1. MainTypeOK'
    BY <1>0, MainAssumption DEF Goes, MainInv, MainTypeOK
  <1>2. Flow'
    BY <1>0, MainAssumption DEF Goes, MainInv, MainTypeOK, Flow
  <1>3. Failures'
    BY <1>0, MainAssumption DEF Goes, MainInv, MainTypeOK, Failures
  <1>4. Interpreters'
    BY <1>0, MainAssumption DEF Goes, MainInv, MainTypeOK, Interpreters
  <1>5. Registry'
    BY <1>0, MainAssumption DEF Goes, MainInv, MainTypeOK, Registry
  <1>6. QED  BY <1>1, <1>2, <1>3, <1>4, <1>5 DEF MainInv

(* main() goes on to the options of the test.                              *)
LEMMA TestKeeps == MainInv /\ Goes("register", "test") => MainInv'
  <1>0. SUFFICES ASSUME MainInv, Goes("register", "test")  PROVE MainInv'
    OBVIOUS
  <1>1. MainTypeOK'
    BY <1>0, MainAssumption DEF Goes, MainInv, MainTypeOK
  <1>2. Flow'
    BY <1>0, MainAssumption DEF Goes, MainInv, MainTypeOK, Flow
  <1>3. Failures'
    BY <1>0, MainAssumption DEF Goes, MainInv, MainTypeOK, Failures
  <1>4. Interpreters'
    BY <1>0, MainAssumption DEF Goes, MainInv, MainTypeOK, Interpreters
  <1>5. Registry'
    BY <1>0, MainAssumption DEF Goes, MainInv, MainTypeOK, Registry
  <1>6. QED  BY <1>1, <1>2, <1>3, <1>4, <1>5 DEF MainInv

(* main() ends with a failure.                                             *)
LEMMA DiesKeeps == MainInv /\ Dies => MainInv'
  <1>0. SUFFICES ASSUME MainInv, Dies  PROVE MainInv'
    OBVIOUS
  <1>1. MainTypeOK'
    <2>1. CASE misused' = misused
      BY <1>0, MainAssumption, <2>1 DEF Dies, MainInv, MainTypeOK
    <2>2. CASE misused' = TRUE /\ "script" \in failed'
      BY <1>0, MainAssumption, <2>2 DEF Dies, MainInv, MainTypeOK
    <2>3. QED
      BY Zenon, <1>0, <2>1, <2>2 DEF Dies
  <1>2. Flow'
    BY <1>0, MainAssumption DEF Dies, MainInv, MainTypeOK, Flow
  <1>3. Failures'
    BY <1>0, MainAssumption DEF Dies, MainInv, MainTypeOK, Failures
  <1>4. Interpreters'
    <2>1. CASE misused' = misused
      BY <1>0, MainAssumption, <2>1 DEF Dies, MainInv, MainTypeOK, Interpreters
    <2>2. CASE misused' = TRUE /\ "script" \in failed'
      BY <1>0, MainAssumption, <2>2 DEF Dies, MainInv, MainTypeOK, Interpreters
    <2>3. QED
      BY Zenon, <1>0, <2>1, <2>2 DEF Dies
  <1>5. Registry'
    BY <1>0, MainAssumption DEF Dies, MainInv, MainTypeOK, Registry
  <1>6. QED  BY <1>1, <1>2, <1>3, <1>4, <1>5 DEF MainInv

(* parse_general_arguments() keeps MainInv.                                *)
LEMMA GeneralKeeps == MainInv /\ General => MainInv'
  <1>1. General => Stays
    BY MainAssumption DEF General, Stays
  <1>2. QED  BY <1>1, StaysKeeps

(* init() keeps MainInv.                                                   *)
LEMMA InitKeeps == MainInv /\ init => MainInv'
  <1>1. init => Dies \/ Goes("general", "load")
    BY MainAssumption DEF init, Dies, Goes, Exit, Fails
  <1>2. QED  BY <1>1, DiesKeeps, LoadKeeps

(* The registration of the script's options keeps MainInv.                 *)
LEMMA RegisterTestKeeps == MainInv /\ RegisterTest => MainInv'
  <1>1. RegisterTest => Dies \/ Goes("register", "test")
    BY MainAssumption DEF RegisterTest, Dies, Goes, Exit
  <1>2. QED  BY <1>1, DiesKeeps, TestKeeps

(* parse_test_arguments() keeps MainInv.                                   *)
LEMMA TestArgumentKeeps == MainInv /\ TestArgument => MainInv'
  <1>1. TestArgument => Dies \/ Stays
    BY MainAssumption DEF TestArgument, Dies, Stays, Exit
  <1>2. QED  BY <1>1, DiesKeeps, StaysKeeps

(* sb_load_lua() opens main()'s interpreter.                               *)
LEMMA SbLoadLuaKeeps == MainInv /\ sb_load_lua => MainInv'
  <1>0. SUFFICES ASSUME MainInv, sb_load_lua  PROVE MainInv'
    OBVIOUS
  <1>1. MainTypeOK'
    <2>1. CASE /\ lua' = [lua EXCEPT !["main"] = "open"] /\ states' = TRUE
               /\ Goto("main", "register") /\ UNCHANGED <<rc, failed>>
      BY <1>0, MainAssumption, <2>1 DEF sb_load_lua, Exit, Fails, MainInv,
        MainTypeOK
    <2>2. CASE Exit(1) /\ Fails("load") /\ UNCHANGED <<lua, states>>
      BY <1>0, MainAssumption, <2>2 DEF sb_load_lua, Exit, Fails, MainInv,
        MainTypeOK
    <2>3. QED
      BY Zenon, <1>0, <2>1, <2>2 DEF sb_load_lua, Exit, Fails
  <1>2. Flow'
    <2>1. CASE /\ lua' = [lua EXCEPT !["main"] = "open"] /\ states' = TRUE
               /\ Goto("main", "register") /\ UNCHANGED <<rc, failed>>
      BY <1>0, MainAssumption, <2>1 DEF sb_load_lua, Exit, Fails, MainInv,
        MainTypeOK, Flow
    <2>2. CASE Exit(1) /\ Fails("load") /\ UNCHANGED <<lua, states>>
      BY <1>0, MainAssumption, <2>2 DEF sb_load_lua, Exit, Fails, MainInv,
        MainTypeOK, Flow
    <2>3. QED
      BY Zenon, <1>0, <2>1, <2>2 DEF sb_load_lua, Exit, Fails
  <1>3. Failures'
    <2>1. CASE /\ lua' = [lua EXCEPT !["main"] = "open"] /\ states' = TRUE
               /\ Goto("main", "register") /\ UNCHANGED <<rc, failed>>
      BY <1>0, MainAssumption, <2>1 DEF sb_load_lua, Exit, Fails, MainInv,
        MainTypeOK, Failures
    <2>2. CASE Exit(1) /\ Fails("load") /\ UNCHANGED <<lua, states>>
      BY <1>0, MainAssumption, <2>2 DEF sb_load_lua, Exit, Fails, MainInv,
        MainTypeOK, Failures
    <2>3. QED
      BY Zenon, <1>0, <2>1, <2>2 DEF sb_load_lua, Exit, Fails
  <1>4. Interpreters'
    <2>1. CASE /\ lua' = [lua EXCEPT !["main"] = "open"] /\ states' = TRUE
               /\ Goto("main", "register") /\ UNCHANGED <<rc, failed>>
      BY <1>0, MainAssumption, <2>1 DEF sb_load_lua, Exit, Fails, MainInv,
        MainTypeOK, Interpreters
    <2>2. CASE Exit(1) /\ Fails("load") /\ UNCHANGED <<lua, states>>
      BY <1>0, MainAssumption, <2>2 DEF sb_load_lua, Exit, Fails, MainInv,
        MainTypeOK, Interpreters
    <2>3. QED
      BY Zenon, <1>0, <2>1, <2>2 DEF sb_load_lua, Exit, Fails
  <1>5. Registry'
    <2>1. CASE /\ lua' = [lua EXCEPT !["main"] = "open"] /\ states' = TRUE
               /\ Goto("main", "register") /\ UNCHANGED <<rc, failed>>
      BY <1>0, MainAssumption, <2>1 DEF sb_load_lua, Exit, Fails, MainInv,
        MainTypeOK, Registry
    <2>2. CASE Exit(1) /\ Fails("load") /\ UNCHANGED <<lua, states>>
      BY <1>0, MainAssumption, <2>2 DEF sb_load_lua, Exit, Fails, MainInv,
        MainTypeOK, Registry
    <2>3. QED
      BY Zenon, <1>0, <2>1, <2>2 DEF sb_load_lua, Exit, Fails
  <1>6. QED  BY <1>1, <1>2, <1>3, <1>4, <1>5 DEF MainInv

(* The choice of the command keeps MainInv.                                *)
LEMMA DispatchKeeps == MainInv /\ Dispatch => MainInv'
  <1>0. SUFFICES ASSUME MainInv, Dispatch  PROVE MainInv'
    OBVIOUS
  <1>1. MainTypeOK'
    BY <1>0, MainAssumption DEF Dispatch, MainInv, MainTypeOK
  <1>2. Flow'
    BY <1>0, MainAssumption DEF Dispatch, MainInv, MainTypeOK, Flow
  <1>3. Failures'
    BY <1>0, MainAssumption DEF Dispatch, MainInv, MainTypeOK, Failures
  <1>4. Interpreters'
    BY <1>0, MainAssumption DEF Dispatch, MainInv, MainTypeOK, Interpreters
  <1>5. Registry'
    BY <1>0, MainAssumption DEF Dispatch, MainInv, MainTypeOK, Registry
  <1>6. QED  BY <1>1, <1>2, <1>3, <1>4, <1>5 DEF MainInv

(* A command of the script is called in main()'s interpreter.              *)
LEMMA CallCommandKeeps == MainInv /\ CallCommand => MainInv'
  <1>0. SUFFICES ASSUME MainInv, CallCommand  PROVE MainInv'
    OBVIOUS
  <1>1. MainTypeOK'
    BY <1>0, MainAssumption DEF CallCommand, Calls, Fails, MainInv, MainTypeOK
  <1>2. Flow'
    BY <1>0, MainAssumption DEF CallCommand, Calls, Fails, MainInv, MainTypeOK, Flow
  <1>3. Failures'
    BY <1>0, MainAssumption DEF CallCommand, Calls, Fails, MainInv, MainTypeOK,
      Failures
  <1>4. Interpreters'
    BY <1>0, MainAssumption DEF CallCommand, Calls, Fails, MainInv, MainTypeOK,
      Interpreters
  <1>5. Registry'
    BY <1>0, MainAssumption DEF CallCommand, Calls, Fails, MainInv, MainTypeOK,
      Registry
  <1>6. QED  BY <1>1, <1>2, <1>3, <1>4, <1>5 DEF MainInv

(* init() of the script is called in main()'s interpreter.                 *)
LEMMA OpInitKeeps == MainInv /\ sb_lua_op_init => MainInv'
  <1>0. SUFFICES ASSUME MainInv, sb_lua_op_init  PROVE MainInv'
    OBVIOUS
  <1>1. MainTypeOK'
    <2>1. CASE Goto("main", "create") /\ UNCHANGED <<rc, failed>>
      BY <1>0, MainAssumption, <2>1 DEF sb_lua_op_init, Calls, Fails, MainInv,
        MainTypeOK
    <2>2. CASE Goto("main", "end") /\ rc' = 1 /\ Fails("init")
      BY <1>0, MainAssumption, <2>2 DEF sb_lua_op_init, Calls, Fails, MainInv,
        MainTypeOK
    <2>3. QED
      BY <1>0, <2>1, <2>2 DEF sb_lua_op_init, Calls, Fails
  <1>2. Flow'
    <2>1. CASE Goto("main", "create") /\ UNCHANGED <<rc, failed>>
      BY <1>0, MainAssumption, <2>1 DEF sb_lua_op_init, Calls, Fails, MainInv,
        MainTypeOK, Flow
    <2>2. CASE Goto("main", "end") /\ rc' = 1 /\ Fails("init")
      BY <1>0, MainAssumption, <2>2 DEF sb_lua_op_init, Calls, Fails, MainInv,
        MainTypeOK, Flow
    <2>3. QED
      BY <1>0, <2>1, <2>2 DEF sb_lua_op_init, Calls, Fails
  <1>3. Failures'
    BY <1>0, MainAssumption DEF sb_lua_op_init, Calls, Fails, MainInv, MainTypeOK,
      Failures
  <1>4. Interpreters'
    BY Zenon, <1>0, MainAssumption DEF sb_lua_op_init, Calls, Fails, MainInv, MainTypeOK,
      Interpreters
  <1>5. Registry'
    BY Zenon, <1>0, MainAssumption DEF sb_lua_op_init, Calls, Fails, MainInv, MainTypeOK,
      Registry
  <1>6. QED  BY <1>1, <1>2, <1>3, <1>4, <1>5 DEF MainInv

(* A thread starts, or cannot be created.                                  *)
LEMMA CreateThreadKeeps == MainInv /\ CreateThread => MainInv'
  <1>0. SUFFICES ASSUME MainInv, CreateThread  PROVE MainInv'
    OBVIOUS
  <1>a. PICK t \in Threads :
          /\ pc[t] = "none"
          /\ \/ Goto(t, "start") /\ UNCHANGED <<rc, failed>>
             \/ Goto("main", "end") /\ rc' = 1 /\ Fails("create")
    BY <1>0, MainAssumption DEF CreateThread, ToCreate, MainTypeOK, MainInv
  <1>1. MainTypeOK'
    <2>1. CASE Goto(t, "start") /\ UNCHANGED <<rc, failed>>
      BY <1>0, <1>a, MainAssumption, <2>1 DEF CreateThread, Fails, MainInv,
        MainTypeOK
    <2>2. CASE Goto("main", "end") /\ rc' = 1 /\ Fails("create")
      BY <1>0, <1>a, MainAssumption, <2>2 DEF CreateThread, Fails, MainInv,
        MainTypeOK
    <2>3. QED
      BY <1>0, <1>a, <2>1, <2>2 DEF CreateThread, Fails
  <1>2. Flow'
    <2>1. CASE Goto(t, "start") /\ UNCHANGED <<rc, failed>>
      BY <1>0, <1>a, MainAssumption, <2>1 DEF CreateThread, Fails, MainInv,
        MainTypeOK, Flow
    <2>2. CASE Goto("main", "end") /\ rc' = 1 /\ Fails("create")
      BY <1>0, <1>a, MainAssumption, <2>2 DEF CreateThread, Fails, MainInv,
        MainTypeOK, Flow
    <2>3. QED
      BY <1>0, <1>a, <2>1, <2>2 DEF CreateThread, Fails
  <1>3. Failures'
    <2>1. CASE Goto(t, "start") /\ UNCHANGED <<rc, failed>>
      BY <1>0, <1>a, MainAssumption, <2>1 DEF CreateThread, Fails, MainInv,
        MainTypeOK, Failures
    <2>2. CASE Goto("main", "end") /\ rc' = 1 /\ Fails("create")
      BY <1>0, <1>a, MainAssumption, <2>2 DEF CreateThread, Fails, MainInv,
        MainTypeOK, Failures
    <2>3. QED
      BY <1>0, <1>a, <2>1, <2>2 DEF CreateThread, Fails
  <1>4. Interpreters'
    <2>1. CASE Goto(t, "start") /\ UNCHANGED <<rc, failed>>
      BY <1>0, <1>a, MainAssumption, <2>1 DEF CreateThread, Fails, MainInv,
        MainTypeOK, Interpreters
    <2>2. CASE Goto("main", "end") /\ rc' = 1 /\ Fails("create")
      BY <1>0, <1>a, MainAssumption, <2>2 DEF CreateThread, Fails, MainInv,
        MainTypeOK, Interpreters
    <2>3. QED
      BY <1>0, <1>a, <2>1, <2>2 DEF CreateThread, Fails
  <1>5. Registry'
    <2>1. CASE Goto(t, "start") /\ UNCHANGED <<rc, failed>>
      BY <1>0, <1>a, MainAssumption, <2>1 DEF CreateThread, Fails, MainInv,
        MainTypeOK, Registry
    <2>2. CASE Goto("main", "end") /\ rc' = 1 /\ Fails("create")
      BY <1>0, <1>a, MainAssumption, <2>2 DEF CreateThread, Fails, MainInv,
        MainTypeOK, Registry
    <2>3. QED
      BY <1>0, <1>a, <2>1, <2>2 DEF CreateThread, Fails
  <1>6. QED  BY <1>1, <1>2, <1>3, <1>4, <1>5 DEF MainInv

(* All the threads exist.                                                  *)
LEMMA AllCreatedKeeps == MainInv /\ AllCreated => MainInv'
  <1>0. SUFFICES ASSUME MainInv, AllCreated  PROVE MainInv'
    OBVIOUS
  <1>1. MainTypeOK'
    BY <1>0, MainAssumption DEF AllCreated, MainInv, MainTypeOK
  <1>2. Flow'
    BY <1>0, MainAssumption DEF AllCreated, MainInv, MainTypeOK, Flow
  <1>3. Failures'
    BY <1>0, MainAssumption DEF AllCreated, MainInv, MainTypeOK, Failures
  <1>4. Interpreters'
    BY <1>0, MainAssumption DEF AllCreated, MainInv, MainTypeOK, Interpreters
  <1>5. Registry'
    BY <1>0, MainAssumption DEF AllCreated, MainInv, MainTypeOK, Registry
  <1>6. QED  BY <1>1, <1>2, <1>3, <1>4, <1>5 DEF MainInv

(* main() leaves worker_barrier, or is turned away.                        *)
LEMMA WorkerBarrierKeeps == MainInv /\ WorkerBarrier => MainInv'
  <1>0. SUFFICES ASSUME MainInv, WorkerBarrier  PROVE MainInv'
    OBVIOUS
  <1>1. MainTypeOK'
    BY <1>0, MainAssumption DEF WorkerBarrier, MainInv, MainTypeOK
  <1>2. Flow'
    BY <1>0, MainAssumption DEF WorkerBarrier, MainInv, MainTypeOK, Flow
  <1>3. Failures'
    BY <1>0, MainAssumption DEF WorkerBarrier, MainInv, MainTypeOK, Failures
  <1>4. Interpreters'
    BY <1>0, MainAssumption DEF WorkerBarrier, MainInv, MainTypeOK, Flow, Failures,
      Interpreters
  <1>5. Registry'
    BY Zenon, <1>0, MainAssumption DEF WorkerBarrier, MainInv, MainTypeOK, Flow, Failures,
      Interpreters, Registry
  <1>6. QED  BY <1>1, <1>2, <1>3, <1>4, <1>5 DEF MainInv

(* main() leaves report_barrier.                                           *)
LEMMA ReportBarrierKeeps == MainInv /\ ReportBarrier => MainInv'
  <1>0. SUFFICES ASSUME MainInv, ReportBarrier  PROVE MainInv'
    OBVIOUS
  <1>1. MainTypeOK'
    BY <1>0, MainAssumption DEF ReportBarrier, MainInv, MainTypeOK
  <1>2. Flow'
    BY <1>0, MainAssumption DEF ReportBarrier, MainInv, MainTypeOK, Flow
  <1>3. Failures'
    BY <1>0, MainAssumption DEF ReportBarrier, MainInv, MainTypeOK, Failures
  <1>4. Interpreters'
    BY <1>0, MainAssumption DEF ReportBarrier, MainInv, MainTypeOK, Interpreters
  <1>5. Registry'
    BY <1>0, MainAssumption DEF ReportBarrier, MainInv, MainTypeOK, Registry
  <1>6. QED  BY <1>1, <1>2, <1>3, <1>4, <1>5 DEF MainInv

(* main() has joined the workers.                                          *)
LEMMA JoinWorkersKeeps == MainInv /\ JoinWorkers => MainInv'
  <1>0. SUFFICES ASSUME MainInv, JoinWorkers  PROVE MainInv'
    OBVIOUS
  <1>1. MainTypeOK'
    BY <1>0, MainAssumption DEF JoinWorkers, MainInv, MainTypeOK
  <1>2. Flow'
    BY <1>0, MainAssumption DEF JoinWorkers, MainInv, MainTypeOK, Flow
  <1>3. Failures'
    BY <1>0, MainAssumption DEF JoinWorkers, MainInv, MainTypeOK, Failures
  <1>4. Interpreters'
    BY Zenon, <1>0, MainAssumption DEF JoinWorkers, MainInv, MainTypeOK, Interpreters
  <1>5. Registry'
    BY <1>0, MainAssumption DEF JoinWorkers, MainInv, MainTypeOK, Registry
  <1>6. QED  BY <1>1, <1>2, <1>3, <1>4, <1>5 DEF MainInv

(* main() cancels the reporting threads.                                   *)
LEMMA CancelReportersKeeps == MainInv /\ CancelReporters => MainInv'
  <1>0. SUFFICES ASSUME MainInv, CancelReporters  PROVE MainInv'
    OBVIOUS
  <1>1. MainTypeOK'
    BY <1>0, MainAssumption DEF CancelReporters, MainInv, MainTypeOK
  <1>2. Flow'
    BY <1>0, MainAssumption DEF CancelReporters, MainInv, MainTypeOK, Flow
  <1>3. Failures'
    BY <1>0, MainAssumption DEF CancelReporters, MainInv, MainTypeOK, Failures
  <1>4. Interpreters'
    BY <1>0, MainAssumption DEF CancelReporters, MainInv, MainTypeOK, Interpreters
  <1>5. Registry'
    BY <1>0, MainAssumption DEF CancelReporters, MainInv, MainTypeOK, Registry
  <1>6. QED  BY <1>1, <1>2, <1>3, <1>4, <1>5 DEF MainInv

(* The final report keeps MainInv.                                         *)
LEMMA FinalReportKeeps == MainInv /\ FinalReport => MainInv'
  <1>0. SUFFICES ASSUME MainInv, FinalReport  PROVE MainInv'
    OBVIOUS
  <1>1. MainTypeOK'
    BY Zenon, <1>0, MainAssumption DEF FinalReport, Calls, MainInv, MainTypeOK
  <1>2. Flow'
    BY <1>0, MainAssumption DEF FinalReport, Calls, MainInv, MainTypeOK, Flow
  <1>3. Failures'
    BY <1>0, MainAssumption DEF FinalReport, Calls, MainInv, MainTypeOK, Failures
  <1>4. Interpreters'
    BY <1>0, MainAssumption DEF FinalReport, Calls, MainInv, MainTypeOK,
      Interpreters
  <1>5. Registry'
    BY <1>0, MainAssumption DEF FinalReport, Calls, MainInv, MainTypeOK, Registry
  <1>6. QED  BY <1>1, <1>2, <1>3, <1>4, <1>5 DEF MainInv

(* done() of the script is called in main()'s interpreter.                 *)
LEMMA OpDoneKeeps == MainInv /\ sb_lua_op_done => MainInv'
  <1>0. SUFFICES ASSUME MainInv, sb_lua_op_done  PROVE MainInv'
    OBVIOUS
  <1>1. MainTypeOK'
    BY Zenon, <1>0, MainAssumption DEF sb_lua_op_done, Calls, Fails, sb_lua_done, MainInv,
      MainTypeOK
  <1>2. Flow'
    BY <1>0, MainAssumption DEF sb_lua_op_done, Calls, Fails, sb_lua_done, MainInv,
      MainTypeOK, Flow
  <1>3. Failures'
    BY <1>0, MainAssumption DEF sb_lua_op_done, Calls, Fails, sb_lua_done, MainInv,
      MainTypeOK, Failures
  <1>4. Interpreters'
    <2>1. CASE sb_lua_done /\ UNCHANGED failed
      BY <1>0, MainAssumption, <2>1 DEF sb_lua_op_done, Calls, Fails, sb_lua_done,
        MainInv, MainTypeOK, Interpreters
    <2>2. CASE Fails("done") /\ UNCHANGED <<lua, states>>
      BY <1>0, MainAssumption, <2>2 DEF sb_lua_op_done, Calls, Fails, sb_lua_done,
        MainInv, MainTypeOK, Interpreters
    <2>3. QED
      BY Zenon, <1>0, <2>1, <2>2 DEF sb_lua_op_done, Calls, Fails, sb_lua_done
  <1>5. Registry'
    BY <1>0, MainAssumption DEF sb_lua_op_done, Calls, Fails, sb_lua_done, MainInv,
      MainTypeOK, Registry
  <1>6. QED  BY <1>1, <1>2, <1>3, <1>4, <1>5 DEF MainInv

(* The end of main(): the driver and main()'s interpreter are closed.      *)
LEMMA EndMainKeeps == MainInv /\ EndMain => MainInv'
  <1>0. SUFFICES ASSUME MainInv, EndMain  PROVE MainInv'
    OBVIOUS
  <1>1. MainTypeOK'
    <2>1. CASE sb_lua_done /\ driver' = driver
      BY Zenon, <1>0, MainAssumption, <2>1 DEF EndMain, sb_lua_loaded, sb_lua_done,
        MainInv, MainTypeOK
    <2>2. CASE sb_lua_done /\ driver = "up" /\ driver' = "done"
      BY Zenon, <1>0, MainAssumption, <2>2 DEF EndMain, sb_lua_loaded, sb_lua_done,
        MainInv, MainTypeOK
    <2>3. CASE UNCHANGED <<lua, states>> /\ lua["main"] # "open"
      BY <1>0, MainAssumption, <2>3 DEF EndMain, sb_lua_loaded, sb_lua_done,
        MainInv, MainTypeOK
    <2>4. QED
      BY Zenon, <1>0, <2>1, <2>2, <2>3 DEF EndMain, sb_lua_loaded, sb_lua_done
  <1>2. Flow'
    BY <1>0, MainAssumption DEF EndMain, sb_lua_loaded, sb_lua_done, MainInv,
      MainTypeOK, Flow
  <1>3. Failures'
    BY <1>0, MainAssumption DEF EndMain, sb_lua_loaded, sb_lua_done, MainInv,
      MainTypeOK, Failures
  <1>4. Interpreters'
    <2>1. CASE sb_lua_done /\ driver' = driver
      BY <1>0, MainAssumption, <2>1 DEF EndMain, sb_lua_loaded, sb_lua_done,
        MainInv, MainTypeOK, Interpreters
    <2>2. CASE sb_lua_done /\ driver = "up" /\ driver' = "done"
      BY <1>0, MainAssumption, <2>2 DEF EndMain, sb_lua_loaded, sb_lua_done,
        MainInv, MainTypeOK, Interpreters
    <2>3. CASE UNCHANGED <<lua, states>> /\ lua["main"] # "open"
      BY <1>0, MainAssumption, <2>3 DEF EndMain, sb_lua_loaded, sb_lua_done,
        MainInv, MainTypeOK, Interpreters
    <2>4. QED
      BY Zenon, <1>0, <2>1, <2>2, <2>3 DEF EndMain, sb_lua_loaded, sb_lua_done
  <1>5. Registry'
    BY <1>0, MainAssumption DEF EndMain, sb_lua_loaded, sb_lua_done, MainInv,
      MainTypeOK, Registry
  <1>6. QED  BY <1>1, <1>2, <1>3, <1>4, <1>5 DEF MainInv

(* The checkpoints thread comes to its end.                                *)
LEMMA CheckpointsOverKeeps == MainInv /\ CheckpointsOver => MainInv'
  <1>0. SUFFICES ASSUME MainInv, CheckpointsOver  PROVE MainInv'
    OBVIOUS
  <1>1. MainTypeOK'
    BY <1>0, MainAssumption DEF CheckpointsOver, Calls, sb_lua_loaded, MainInv,
      MainTypeOK
  <1>2. Flow'
    BY Zenon, <1>0, MainAssumption DEF CheckpointsOver, Calls, sb_lua_loaded, MainInv,
      MainTypeOK, Flow
  <1>3. Failures'
    BY <1>0, MainAssumption DEF CheckpointsOver, Calls, sb_lua_loaded, MainInv,
      MainTypeOK, Failures
  <1>4. Interpreters'
    BY <1>0, MainAssumption DEF CheckpointsOver, Calls, sb_lua_loaded, MainInv,
      MainTypeOK, Interpreters
  <1>5. Registry'
    BY <1>0, MainAssumption DEF CheckpointsOver, Calls, sb_lua_loaded, MainInv,
      MainTypeOK, Registry
  <1>6. QED  BY <1>1, <1>2, <1>3, <1>4, <1>5 DEF MainInv

(* A worker opens its interpreter.                                         *)
LEMMA NewStateKeeps == \A w \in Workers : MainInv /\ NewState(w) => MainInv'
  <1>0. SUFFICES ASSUME NEW w \in Workers, MainInv, NewState(w)  PROVE MainInv'
    OBVIOUS
  <1>1. MainTypeOK'
    <2>1. CASE /\ lua' = [lua EXCEPT ![w] = "open"] /\ UNCHANGED <<failed, error>>
               /\ Goto(w, IF Command("run") THEN "thread_init" ELSE "command")
      BY <1>0, MainAssumption, <2>1 DEF NewState, Same, Lost, Fails, MainInv,
        MainTypeOK
    <2>2. CASE UNCHANGED lua /\ Command("run") /\ Lost(w, "script")
      BY <1>0, MainAssumption, <2>2 DEF NewState, Same, Lost, Fails, MainInv,
        MainTypeOK
    <2>3. CASE /\ UNCHANGED lua /\ ~Command("run") /\ Goto(w, "over")
               /\ Fails("script") /\ UNCHANGED error
      BY <1>0, MainAssumption, <2>3 DEF NewState, Same, Lost, Fails, MainInv,
        MainTypeOK
    <2>4. QED
      BY Zenon, <1>0, <2>1, <2>2, <2>3 DEF NewState, Same, Lost, Fails
  <1>2. Flow'
    <2>1. CASE /\ lua' = [lua EXCEPT ![w] = "open"] /\ UNCHANGED <<failed, error>>
               /\ Goto(w, IF Command("run") THEN "thread_init" ELSE "command")
      BY <1>0, MainAssumption, <2>1 DEF NewState, Same, Lost, Fails, MainInv,
        MainTypeOK, Flow
    <2>2. CASE UNCHANGED lua /\ Command("run") /\ Lost(w, "script")
      BY <1>0, MainAssumption, <2>2 DEF NewState, Same, Lost, Fails, MainInv,
        MainTypeOK, Flow
    <2>3. CASE /\ UNCHANGED lua /\ ~Command("run") /\ Goto(w, "over")
               /\ Fails("script") /\ UNCHANGED error
      BY <1>0, MainAssumption, <2>3 DEF NewState, Same, Lost, Fails, MainInv,
        MainTypeOK, Flow
    <2>4. QED
      BY Zenon, <1>0, <2>1, <2>2, <2>3 DEF NewState, Same, Lost, Fails
  <1>3. Failures'
    <2>1. CASE /\ lua' = [lua EXCEPT ![w] = "open"] /\ UNCHANGED <<failed, error>>
               /\ Goto(w, IF Command("run") THEN "thread_init" ELSE "command")
      BY <1>0, MainAssumption, <2>1 DEF NewState, Same, Lost, Fails, MainInv,
        MainTypeOK, Failures
    <2>2. CASE UNCHANGED lua /\ Command("run") /\ Lost(w, "script")
      BY <1>0, MainAssumption, <2>2 DEF NewState, Same, Lost, Fails, MainInv,
        MainTypeOK, Flow, Failures
    <2>3. CASE /\ UNCHANGED lua /\ ~Command("run") /\ Goto(w, "over")
               /\ Fails("script") /\ UNCHANGED error
      BY Zenon, <1>0, MainAssumption, <2>3 DEF NewState, Same, Lost, Fails, MainInv,
        MainTypeOK, Flow, Failures
    <2>4. QED
      BY Zenon, <1>0, <2>1, <2>2, <2>3 DEF NewState, Same, Lost, Fails
  <1>4. Interpreters'
    <2>1. CASE /\ lua' = [lua EXCEPT ![w] = "open"] /\ UNCHANGED <<failed, error>>
               /\ Goto(w, IF Command("run") THEN "thread_init" ELSE "command")
      BY <1>0, MainAssumption, <2>1 DEF NewState, Same, Lost, Fails, MainInv,
        MainTypeOK, Interpreters
    <2>2. CASE UNCHANGED lua /\ Command("run") /\ Lost(w, "script")
      BY <1>0, MainAssumption, <2>2 DEF NewState, Same, Lost, Fails, MainInv,
        MainTypeOK, Interpreters
    <2>3. CASE /\ UNCHANGED lua /\ ~Command("run") /\ Goto(w, "over")
               /\ Fails("script") /\ UNCHANGED error
      BY Zenon, <1>0, MainAssumption, <2>3 DEF NewState, Same, Lost, Fails, MainInv,
        MainTypeOK, Interpreters
    <2>4. QED
      BY Zenon, <1>0, <2>1, <2>2, <2>3 DEF NewState, Same, Lost, Fails
  <1>5. Registry'
    <2>1. CASE /\ lua' = [lua EXCEPT ![w] = "open"] /\ UNCHANGED <<failed, error>>
               /\ Goto(w, IF Command("run") THEN "thread_init" ELSE "command")
      BY <1>0, MainAssumption, <2>1 DEF NewState, Same, Lost, Fails, MainInv,
        MainTypeOK, Registry
    <2>2. CASE UNCHANGED lua /\ Command("run") /\ Lost(w, "script")
      BY <1>0, MainAssumption, <2>2 DEF NewState, Same, Lost, Fails, MainInv,
        MainTypeOK, Registry
    <2>3. CASE /\ UNCHANGED lua /\ ~Command("run") /\ Goto(w, "over")
               /\ Fails("script") /\ UNCHANGED error
      BY <1>0, MainAssumption, <2>3 DEF NewState, Same, Lost, Fails, MainInv,
        MainTypeOK, Registry
    <2>4. QED
      BY Zenon, <1>0, <2>1, <2>2, <2>3 DEF NewState, Same, Lost, Fails
  <1>6. QED  BY <1>1, <1>2, <1>3, <1>4, <1>5 DEF MainInv

(* A worker runs a parallel command.                                       *)
LEMMA ParallelCommandKeeps == \A w \in Workers : MainInv /\ ParallelCommand(w) => MainInv'
  <1>0. SUFFICES ASSUME NEW w \in Workers, MainInv, ParallelCommand(w)  PROVE MainInv'
    OBVIOUS
  <1>1. MainTypeOK'
    BY <1>0, MainAssumption DEF ParallelCommand, Same, Fails, MainInv, MainTypeOK
  <1>2. Flow'
    BY Zenon, <1>0, MainAssumption DEF ParallelCommand, Same, Fails, MainInv, MainTypeOK,
      Flow
  <1>3. Failures'
    BY <1>0, MainAssumption DEF ParallelCommand, Same, Fails, MainInv, MainTypeOK,
      Flow, Failures
  <1>4. Interpreters'
    BY <1>0, MainAssumption DEF ParallelCommand, Same, Fails, MainInv, MainTypeOK,
      Interpreters
  <1>5. Registry'
    BY <1>0, MainAssumption DEF ParallelCommand, Same, Fails, MainInv, MainTypeOK,
      Registry
  <1>6. QED  BY <1>1, <1>2, <1>3, <1>4, <1>5 DEF MainInv

(* thread_init() of the script in a worker.                                *)
LEMMA OpThreadInitKeeps == \A w \in Workers : MainInv /\ sb_lua_op_thread_init(w) => MainInv'
  <1>0. SUFFICES ASSUME NEW w \in Workers, MainInv, sb_lua_op_thread_init(w)  PROVE MainInv'
    OBVIOUS
  <1>1. MainTypeOK'
    <2>1. CASE Goto(w, "once") /\ UNCHANGED <<failed, error>>
      BY Zenon, <1>0, MainAssumption, <2>1 DEF sb_lua_op_thread_init, Same, Calls, Lost,
        Fails, MainInv, MainTypeOK
    <2>2. CASE Lost(w, "thread_init")
      BY <1>0, MainAssumption, <2>2 DEF sb_lua_op_thread_init, Same, Calls, Lost,
        Fails, MainInv, MainTypeOK
    <2>3. QED
      BY Zenon, <1>0, <2>1, <2>2 DEF sb_lua_op_thread_init, Same, Calls, Lost, Fails
  <1>2. Flow'
    BY Zenon, <1>0, MainAssumption DEF sb_lua_op_thread_init, Same, Calls, Lost, Fails,
      MainInv, MainTypeOK, Flow
  <1>3. Failures'
    BY Zenon, <1>0, MainAssumption DEF sb_lua_op_thread_init, Same, Calls, Lost, Fails,
      MainInv, MainTypeOK, Flow, Failures
  <1>4. Interpreters'
    BY Zenon, <1>0, MainAssumption DEF sb_lua_op_thread_init, Same, Calls, Lost, Fails,
      MainInv, MainTypeOK, Flow, Interpreters
  <1>5. Registry'
    BY Zenon, <1>0, MainAssumption DEF sb_lua_op_thread_init, Same, Calls, Lost, Fails,
      MainInv, MainTypeOK, Registry
  <1>6. QED  BY <1>1, <1>2, <1>3, <1>4, <1>5 DEF MainInv

(* db_init() in a worker.                                                  *)
LEMMA DbInitKeeps == \A w \in Workers : MainInv /\ DbInit(w) => MainInv'
  <1>0. SUFFICES ASSUME NEW w \in Workers, MainInv, DbInit(w)  PROVE MainInv'
    OBVIOUS
  <1>1. MainTypeOK'
    <2>1. CASE Goto(w, "lock") /\ UNCHANGED <<failed, error>>
      BY <1>0, MainAssumption, <2>1 DEF DbInit, Same, Lost, Fails, MainInv,
        MainTypeOK
    <2>2. CASE Lost(w, "db_args")
      BY <1>0, MainAssumption, <2>2 DEF DbInit, Same, Lost, Fails, MainInv,
        MainTypeOK
    <2>3. CASE Lost(w, "no_driver")
      BY <1>0, MainAssumption, <2>3 DEF DbInit, Same, Lost, Fails, MainInv,
        MainTypeOK
    <2>4. QED
      BY Zenon, <1>0, <2>1, <2>2, <2>3 DEF DbInit, Same, Lost, Fails
  <1>2. Flow'
    BY Zenon, <1>0, MainAssumption DEF DbInit, Same, Lost, Fails, MainInv, MainTypeOK, Flow
  <1>3. Failures'
    BY Zenon, <1>0, MainAssumption DEF DbInit, Same, Lost, Fails, MainInv, MainTypeOK,
      Flow, Failures
  <1>4. Interpreters'
    BY Zenon, <1>0, MainAssumption DEF DbInit, Same, Lost, Fails, MainInv, MainTypeOK,
      Interpreters
  <1>5. Registry'
    BY <1>0, MainAssumption DEF DbInit, Same, Lost, Fails, MainInv, MainTypeOK,
      Registry
  <1>6. QED  BY <1>1, <1>2, <1>3, <1>4, <1>5 DEF MainInv

(* A worker takes the driver's mutex.                                      *)
LEMMA DriverLockKeeps == \A w \in Workers : MainInv /\ DriverLock(w) => MainInv'
  <1>0. SUFFICES ASSUME NEW w \in Workers, MainInv, DriverLock(w)  PROVE MainInv'
    OBVIOUS
  <1>1. MainTypeOK'
    BY <1>0, MainAssumption DEF DriverLock, Same, MainInv, MainTypeOK
  <1>2. Flow'
    BY <1>0, MainAssumption DEF DriverLock, Same, MainInv, MainTypeOK, Flow
  <1>3. Failures'
    BY <1>0, MainAssumption DEF DriverLock, Same, MainInv, MainTypeOK, Failures
  <1>4. Interpreters'
    BY <1>0, MainAssumption DEF DriverLock, Same, MainInv, MainTypeOK, Interpreters
  <1>5. Registry'
    BY <1>0, MainAssumption DEF DriverLock, Same, MainInv, MainTypeOK, Registry
  <1>6. QED  BY <1>1, <1>2, <1>3, <1>4, <1>5 DEF MainInv

(* The driver's init() under its mutex.                                    *)
LEMMA DriverInitKeeps == \A w \in Workers : MainInv /\ DriverInit(w) => MainInv'
  <1>0. SUFFICES ASSUME NEW w \in Workers, MainInv, DriverInit(w)  PROVE MainInv'
    OBVIOUS
  <1>1. MainTypeOK'
    <2>1. CASE /\ driver' = "up" /\ inits' = inits + 1 /\ Goto(w, "unlock")
               /\ UNCHANGED <<locked, failed, error>>
      BY <1>0, MainAssumption, <2>1 DEF DriverInit, Same, Lost, Fails, MainInv,
        MainTypeOK
    <2>2. CASE locked' = NoOne /\ Lost(w, "driver") /\ UNCHANGED <<driver, inits>>
      BY <1>0, MainAssumption, <2>2 DEF DriverInit, Same, Lost, Fails, MainInv,
        MainTypeOK
    <2>3. QED
      BY Zenon, <1>0, <2>1, <2>2 DEF DriverInit, Same, Lost, Fails
  <1>2. Flow'
    BY Zenon, <1>0, MainAssumption DEF DriverInit, Same, Lost, Fails, MainInv, MainTypeOK,
      Flow
  <1>3. Failures'
    BY <1>0, MainAssumption DEF DriverInit, Same, Lost, Fails, MainInv, MainTypeOK,
      Flow, Failures
  <1>4. Interpreters'
    BY Zenon, <1>0, MainAssumption DEF DriverInit, Same, Lost, Fails, MainInv, MainTypeOK,
      Interpreters
  <1>5. Registry'
    <2>1. CASE /\ driver' = "up" /\ inits' = inits + 1 /\ Goto(w, "unlock")
               /\ UNCHANGED <<locked, failed, error>>
      BY <1>0, MainAssumption, <2>1 DEF DriverInit, Same, Lost, Fails, MainInv,
        MainTypeOK, Registry
    <2>2. CASE locked' = NoOne /\ Lost(w, "driver") /\ UNCHANGED <<driver, inits>>
      BY <1>0, MainAssumption, <2>2 DEF DriverInit, Same, Lost, Fails, MainInv,
        MainTypeOK, Registry
    <2>3. QED
      BY Zenon, <1>0, <2>1, <2>2 DEF DriverInit, Same, Lost, Fails
  <1>6. QED  BY <1>1, <1>2, <1>3, <1>4, <1>5 DEF MainInv

(* The worker has the driver.                                              *)
LEMMA DriverThreadInitKeeps == \A w \in Workers : MainInv /\ DriverThreadInit(w) => MainInv'
  <1>0. SUFFICES ASSUME NEW w \in Workers, MainInv, DriverThreadInit(w)  PROVE MainInv'
    OBVIOUS
  <1>1. MainTypeOK'
    <2>1. CASE Goto(w, "ready") /\ UNCHANGED <<failed, error>>
      BY <1>0, MainAssumption, <2>1 DEF DriverThreadInit, Same, Lost, Fails,
        MainInv, MainTypeOK
    <2>2. CASE Lost(w, "driver")
      BY <1>0, MainAssumption, <2>2 DEF DriverThreadInit, Same, Lost, Fails,
        MainInv, MainTypeOK
    <2>3. QED
      BY Zenon, <1>0, <2>1, <2>2 DEF DriverThreadInit, Same, Lost, Fails
  <1>2. Flow'
    BY Zenon, <1>0, MainAssumption DEF DriverThreadInit, Same, Lost, Fails, MainInv,
      MainTypeOK, Flow
  <1>3. Failures'
    BY <1>0, MainAssumption DEF DriverThreadInit, Same, Lost, Fails, MainInv,
      MainTypeOK, Flow, Failures
  <1>4. Interpreters'
    BY Zenon, <1>0, MainAssumption DEF DriverThreadInit, Same, Lost, Fails, MainInv,
      MainTypeOK, Interpreters
  <1>5. Registry'
    <2>1. CASE Goto(w, "ready") /\ UNCHANGED <<failed, error>>
      BY <1>0, MainAssumption, <2>1 DEF DriverThreadInit, Same, Lost, Fails,
        MainInv, MainTypeOK, Registry
    <2>2. CASE Lost(w, "driver")
      BY <1>0, MainAssumption, <2>2 DEF DriverThreadInit, Same, Lost, Fails,
        MainInv, MainTypeOK, Registry
    <2>3. QED
      BY Zenon, <1>0, <2>1, <2>2 DEF DriverThreadInit, Same, Lost, Fails
  <1>6. QED  BY <1>1, <1>2, <1>3, <1>4, <1>5 DEF MainInv

(* The events of a worker.                                                 *)
LEMMA OpThreadRunKeeps == \A w \in Workers : MainInv /\ sb_lua_op_thread_run(w) => MainInv'
  <1>0. SUFFICES ASSUME NEW w \in Workers, MainInv, sb_lua_op_thread_run(w)  PROVE MainInv'
    OBVIOUS
  <1>1. MainTypeOK'
    <2>1. CASE Goto(w, "thread_done") /\ UNCHANGED <<failed, error>>
      BY <1>0, MainAssumption, <2>1 DEF sb_lua_op_thread_run, Same, Calls, Fails,
        MainInv, MainTypeOK
    <2>2. CASE Goto(w, "over") /\ Fails("event") /\ error' = TRUE
      BY <1>0, MainAssumption, <2>2 DEF sb_lua_op_thread_run, Same, Calls, Fails,
        MainInv, MainTypeOK
    <2>3. QED
      BY Zenon, <1>0, <2>1, <2>2 DEF sb_lua_op_thread_run, Same, Calls, Fails
  <1>2. Flow'
    BY Zenon, <1>0, MainAssumption DEF sb_lua_op_thread_run, Same, Calls, Fails, MainInv,
      MainTypeOK, Flow
  <1>3. Failures'
    BY <1>0, MainAssumption DEF sb_lua_op_thread_run, Same, Calls, Fails, MainInv,
      MainTypeOK, Flow, Failures
  <1>4. Interpreters'
    BY ZenonT(60), <1>0, MainAssumption DEF sb_lua_op_thread_run, Same, Calls, Fails, MainInv,
      MainTypeOK, Flow, Interpreters
  <1>5. Registry'
    BY <1>0, MainAssumption DEF sb_lua_op_thread_run, Same, Calls, Fails, MainInv,
      MainTypeOK, Registry
  <1>6. QED  BY <1>1, <1>2, <1>3, <1>4, <1>5 DEF MainInv

(* thread_done() of the script, and the worker closes its interpreter.     *)
LEMMA OpThreadDoneKeeps == \A w \in Workers : MainInv /\ sb_lua_op_thread_done(w) => MainInv'
  <1>0. SUFFICES ASSUME NEW w \in Workers, MainInv, sb_lua_op_thread_done(w)  PROVE MainInv'
    OBVIOUS
  <1>1. MainTypeOK'
    BY <1>0, MainAssumption DEF sb_lua_op_thread_done, Same, Calls, Fails, MainInv,
      MainTypeOK
  <1>2. Flow'
    BY <1>0, MainAssumption DEF sb_lua_op_thread_done, Same, Calls, Fails, MainInv,
      MainTypeOK, Flow
  <1>3. Failures'
    BY Zenon, <1>0, MainAssumption DEF sb_lua_op_thread_done, Same, Calls, Fails, MainInv,
      MainTypeOK, Failures
  <1>4. Interpreters'
    BY <1>0, MainAssumption DEF sb_lua_op_thread_done, Same, Calls, Fails, MainInv,
      MainTypeOK, Flow, Interpreters
  <1>5. Registry'
    BY <1>0, MainAssumption DEF sb_lua_op_thread_done, Same, Calls, Fails, MainInv,
      MainTypeOK, Registry
  <1>6. QED  BY <1>1, <1>2, <1>3, <1>4, <1>5 DEF MainInv

(* A reporting thread opens its interpreter.                               *)
LEMMA ReportThreadInitKeeps ==
  \A r \in Reporters : MainInv /\ sb_lua_report_thread_init(r) => MainInv'
  <1>0. SUFFICES ASSUME NEW r \in Reporters, MainInv, sb_lua_report_thread_init(r)  PROVE MainInv'
    OBVIOUS
  <1>1. CASE Dies
    BY <1>0, <1>1, DiesKeeps
  <1>2. CASE /\ lua' = [lua EXCEPT ![r] = "open"] /\ Goto(r, "wait")
               /\ UNCHANGED <<misused, failed, rc>>
    <2>1. MainTypeOK'
      BY <1>0, <1>2, MainAssumption DEF sb_lua_report_thread_init, MainInv,
        MainTypeOK
    <2>2. Flow'
      BY <1>0, <1>2, MainAssumption DEF sb_lua_report_thread_init, MainInv,
        MainTypeOK, Flow
    <2>3. Failures'
      BY <1>0, <1>2, MainAssumption DEF sb_lua_report_thread_init, MainInv,
        MainTypeOK, Failures
    <2>4. Interpreters'
      BY <1>0, <1>2, MainAssumption DEF sb_lua_report_thread_init, MainInv,
        MainTypeOK, Interpreters
    <2>5. Registry'
      BY <1>0, <1>2, MainAssumption DEF sb_lua_report_thread_init, MainInv,
        MainTypeOK, Registry
    <2>6. QED  BY <2>1, <2>2, <2>3, <2>4, <2>5 DEF MainInv
  <1>3. QED
    BY Zenon, <1>0, <1>1, <1>2, MainAssumption DEF sb_lua_report_thread_init, Dies, Exit,
      Fails

(* A reporting thread sets its flag.                                       *)
LEMMA SetCreatedKeeps == \A r \in Reporters : MainInv /\ SetCreated(r) => MainInv'
  <1>0. SUFFICES ASSUME NEW r \in Reporters, MainInv, SetCreated(r)  PROVE MainInv'
    OBVIOUS
  <1>1. MainTypeOK'
    BY <1>0, MainAssumption DEF SetCreated, MainInv, MainTypeOK
  <1>2. Flow'
    BY <1>0, MainAssumption DEF SetCreated, MainInv, MainTypeOK, Flow
  <1>3. Failures'
    BY <1>0, MainAssumption DEF SetCreated, MainInv, MainTypeOK, Failures
  <1>4. Interpreters'
    BY <1>0, MainAssumption DEF SetCreated, MainInv, MainTypeOK, Interpreters
  <1>5. Registry'
    BY <1>0, MainAssumption DEF SetCreated, MainInv, MainTypeOK, Registry
  <1>6. QED  BY <1>1, <1>2, <1>3, <1>4, <1>5 DEF MainInv

(* MainInv is inductive.                                                   *)
LEMMA MainInvHolds == Spec => []MainInv
  <1>1. Init => MainInv
    <2>1. Init => MainTypeOK
      <3>0. SUFFICES ASSUME Init  PROVE MainTypeOK
        OBVIOUS
      <3>1. pc \in [All -> {"general", "none"}] /\ pc["main"] = "general"
        BY <3>0 DEF Init
      <3>2. \A t \in Threads : pc[t] = "none"
        BY <3>0, MainAssumption DEF Init
      <3>3. lua \in [All -> {"none", "open", "closed"}]
        BY <3>0 DEF Init
      <3>4. QED  BY Zenon, <3>0, <3>1, <3>2, <3>3 DEF Init, MainTypeOK
    <2>2. Init => Flow
      BY MainAssumption DEF Init, Flow
    <2>3. Init => Failures
      BY MainAssumption DEF Init, Failures
    <2>4. Init => Interpreters
      BY MainAssumption DEF Init, Interpreters
    <2>5. Init => Registry
      BY MainAssumption DEF Init, Registry
    <2>6. QED  BY <2>1, <2>2, <2>3, <2>4, <2>5 DEF MainInv
  <1>2. MainInv /\ [Next]_vars => MainInv'
    <2>0. SUFFICES ASSUME MainInv, [Next]_vars  PROVE MainInv'
      OBVIOUS
    <2>1. CASE MainStep
      BY <2>0, <2>1, GeneralKeeps, InitKeeps, RegisterTestKeeps, TestArgumentKeeps,
        SbLoadLuaKeeps, DispatchKeeps, CallCommandKeeps, OpInitKeeps,
        CreateThreadKeeps, AllCreatedKeeps, WorkerBarrierKeeps, ReportBarrierKeeps,
        JoinWorkersKeeps, CancelReportersKeeps, FinalReportKeeps, OpDoneKeeps,
        EndMainKeeps DEF MainStep
    <2>2. CASE CheckpointsOver
      BY <2>0, <2>2, CheckpointsOverKeeps
    <2>3. CASE \E w \in Workers : WorkerStep(w)
      BY <2>0, <2>3, NewStateKeeps, ParallelCommandKeeps, OpThreadInitKeeps,
        DbInitKeeps, DriverLockKeeps, DriverInitKeeps, DriverThreadInitKeeps,
        OpThreadRunKeeps, OpThreadDoneKeeps DEF WorkerStep
    <2>4. CASE \E r \in Reporters : sb_lua_report_thread_init(r) \/ SetCreated(r)
      BY <2>0, <2>4, ReportThreadInitKeeps, SetCreatedKeeps
    <2>5. CASE UNCHANGED vars
      BY <2>0, <2>5, StaysKeeps DEF vars, Stays
    <2>6. QED  BY <2>0, <2>1, <2>2, <2>3, <2>4, <2>5 DEF Next
  <1>3. QED  BY <1>1, <1>2, PTL DEF Spec

(* A process that exits with status 0 has had no failing script, command   *)
(* or event, except in done(), thread_done() and the threads of a parallel *)
(* command.                                                                *)
THEOREM ExitStatusIsHonest == Spec => []ExitHonest
  <1>1. MainInv => ExitHonest
    BY DEF ExitHonest, MainInv, Failures
  <1>2. QED  BY <1>1, MainInvHolds, PTL

(* Without a failed thread creation or script load, every call goes to an  *)
(* open interpreter, and an exit without failures leaves none open but     *)
(* those of late reporting threads.                                        *)
THEOREM InterpretersAreSound == Spec => []InterpretersSound
  <1>1. MainInv => InterpretersSound
    BY Zenon, MainAssumption DEF InterpretersSound, MainInv, MainTypeOK, Flow, Failures,
      Interpreters, Registry
  <1>2. QED  BY <1>1, MainInvHolds, PTL

(* The driver is initialised at most once and is up as long as a worker    *)
(* uses it, unless a thread could not be created.                          *)
THEOREM DriverStaysUp == Spec => []DriverUp
  <1>1. MainInv => DriverUp
    BY MainAssumption DEF DriverUp, MainInv, MainTypeOK, Flow, Failures,
      Interpreters, Registry
  <1>2. QED  BY <1>1, MainInvHolds, PTL
=============================================================================
