-------------------------------- MODULE Main --------------------------------
(***************************************************************************)
(* main() of sysbench.c, for a test that is a Lua script, with what it     *)
(* holds together: the passes over the command line, the Lua interpreters  *)
(* of sb_lua.c (one for main(), one per worker and reporting thread) and   *)
(* the driver registry of db_driver.c.                                     *)
(* run_test() is reduced to the calls these depend on; RunTest has its     *)
(* barriers and reports in detail.                                         *)
(***************************************************************************)
EXTENDS Options, FiniteSets

CONSTANTS
  Workers,       \* the worker threads
  Scenarios      \* what the user asks for, and what may go wrong

ASSUME MainAssumption ==
  /\ Workers \cap {"main", "rep", "cp", "none"} = {}
  /\ \A s \in Scenarios : s.reporters \subseteq {"rep", "cp"}

VARIABLES
  scenario,      \* [argv, file, script, command, reporters, faults]
  argv,          \* the command line; a parsed option is Parsed
  arg,           \* index of the argument looked at
  table,         \* the options
  pc,            \* where main() and each thread is
  lua,           \* per thread: its interpreter is "none", "open", "closed"
  states,        \* is the array of the workers' interpreters allocated ?
  misused,       \* a call on an interpreter or array that is not there
  created,       \* reporting threads whose *_thread_created flag is set
  once,          \* pthread_once(db_init): "no", "ok", "failed"
  locked,        \* the thread that holds the driver's mutex, or NoOne
  driver,        \* the driver is "down", "up" or "done"
  inits,         \* successful calls of the driver's init()
  failed,        \* what has failed in this process
  error,         \* sb_globals.error
  rc             \* the exit status being returned

optVars == <<argv, arg, table>>
luaVars == <<lua, states, misused>>
dbVars == <<once, locked, driver, inits>>
endVars == <<created, failed, error, rc>>
vars == <<scenario, optVars, pc, luaVars, dbVars, endVars>>

NoOne == "none"
Reporters == {"rep", "cp"}
Threads == Workers \cup Reporters
All == {"main"} \cup Threads
Parsed == [name |-> "", value |-> NoValue]

GeneralArgs == <<[name |-> "threads", type |-> "INT", value |-> "1", validate |-> "none"],
                 [name |-> "verbosity", type |-> "INT", value |-> "3", validate |-> "none"],
                 [name |-> "debug", type |-> "BOOL", value |-> "off", validate |-> "none"],
                 [name |-> "report-checkpoints", type |-> "LIST", value |-> "", validate |-> "none"],
                 [name |-> "config-file", type |-> "FILE", value |-> NoValue, validate |-> "none"]>>

Init ==
  /\ scenario \in Scenarios
  /\ argv = scenario.argv /\ arg = 1
  /\ table = sb_register_arg_set([n \in {} |-> n], GeneralArgs).table
  /\ pc = [t \in All |-> IF t = "main" THEN "general" ELSE "none"]
  /\ lua = [t \in All |-> "none"] /\ states = FALSE /\ misused = FALSE
  /\ created = {} /\ failed = {} /\ error = FALSE /\ rc = 0
  /\ once = "no" /\ locked = NoOne /\ driver = "down" /\ inits = 0

Fault(f) == f \in scenario.faults
Command(c) == scenario.command = c
Goto(t, l) == pc' = [pc EXCEPT ![t] = l]
At(t, l) == pc["main"] # "exit" /\ pc[t] = l

(* return or exit() from main(): nothing is torn down.                     *)
Exit(status) == Goto("main", "exit") /\ rc' = status
Fails(what) == failed' = failed \cup {what}

----------------------------------------------------------------------------
(* The command line.  parse_general_arguments(): an option that the table  *)
(* accepts is not looked at again.                                         *)

(* Mutant of General: a refused option is crossed out as well.             *)
General_CrossesOut ==
  /\ At("main", "general") /\ arg <= Len(argv)
  /\ LET p == parse_option(table, argv[arg], scenario.file)
     IN table' = p.table /\ argv' = [argv EXCEPT ![arg] = Parsed]
  /\ arg' = arg + 1
  /\ UNCHANGED <<scenario, pc, luaVars, dbVars, endVars>>

General ==
  /\ At("main", "general") /\ arg <= Len(argv)
  /\ LET p == parse_option(table, argv[arg], scenario.file)
     IN /\ table' = p.table
        /\ argv' = IF p.ok THEN [argv EXCEPT ![arg] = Parsed] ELSE argv
  /\ arg' = arg + 1
  /\ UNCHANGED <<scenario, pc, luaVars, dbVars, endVars>>

(* init() reads the general options, once: the checks of --threads and of  *)
(* --report-checkpoints, and what else it or log_init() refuses or cannot  *)
(* allocate.  --debug overrides --verbosity.                               *)
init ==
  /\ At("main", "general") /\ arg > Len(argv)
  /\ \/ /\ sb_opt_to_int(table["threads"]) \in Numbers \ {"0"}
        /\ ToSet(table["report-checkpoints"].values) \subseteq Numbers
        /\ Goto("main", "load") /\ UNCHANGED <<rc, failed>>
     \/ /\ \/ sb_opt_to_int(table["threads"]) \notin Numbers \ {"0"}
           \/ ~(ToSet(table["report-checkpoints"].values) \subseteq Numbers)
           \/ Fault("setup")
        /\ Exit(1) /\ Fails("setup")
  /\ table' = IF sb_opt_to_flag(table["debug"])
              THEN set_option(table, "verbosity", "5", "INT", <<>>).table ELSE table
  /\ UNCHANGED <<scenario, argv, arg, luaVars, dbVars, created, error>>

(* sb_load_lua(): main()'s own interpreter, the script's options, the      *)
(* array of interpreters.                                                  *)
sb_load_lua ==
  /\ At("main", "load")
  /\ \/ /\ lua' = [lua EXCEPT !["main"] = "open"] /\ states' = TRUE
        /\ Goto("main", "register") /\ UNCHANGED <<rc, failed>>
     \/ Fault("load") /\ Exit(1) /\ Fails("load") /\ UNCHANGED <<lua, states>>
  /\ UNCHANGED <<scenario, optVars, misused, dbVars, created, error>>

(* parse_test_arguments(): the script's defaults, then what is left.       *)
RegisterTest ==
  /\ At("main", "register")
  /\ LET r == sb_register_arg_set(table, scenario.script)
     IN /\ table' = r.table
        /\ IF r.ok THEN Goto("main", "test") /\ UNCHANGED rc ELSE Exit(1)
  /\ arg' = 1
  /\ UNCHANGED <<scenario, argv, luaVars, dbVars, created, failed, error>>

TestArgument ==
  /\ At("main", "test") /\ arg <= Len(argv)
  /\ IF argv[arg] = Parsed
     THEN arg' = arg + 1 /\ UNCHANGED <<argv, table, pc, rc>>
     ELSE LET p == parse_option(table, argv[arg], scenario.file)
          IN /\ table' = p.table
             /\ IF p.ok THEN /\ arg' = arg + 1 /\ argv' = [argv EXCEPT ![arg] = Parsed]
                             /\ UNCHANGED <<pc, rc>>
                        ELSE Exit(1) /\ UNCHANGED <<arg, argv>>
  /\ UNCHANGED <<scenario, luaVars, dbVars, created, failed, error>>

(* A command of the script, of the test, or unknown.                       *)
Dispatch ==
  /\ At("main", "test") /\ arg > Len(argv)
  /\ Goto("main", CASE Command("run") -> "run" [] Command("parallel") -> "create"
                    [] scenario.command \in {"prepare", "custom"} -> "command"
                    [] OTHER -> "end")
  /\ rc' = IF Command("unknown") THEN 1 ELSE rc
  /\ UNCHANGED <<scenario, optVars, luaVars, dbVars, created, failed, error>>

----------------------------------------------------------------------------
(* Lua calls.  A call needs an interpreter that is open; workers find      *)
(* theirs in the states array.                                             *)
Calls(t) == misused' = (misused \/ lua[t] # "open" \/ (t \in Workers /\ ~states))

(* Mutant of CallCommand: what the command returns is lost.                *)
CallCommand_Ignored ==
  /\ At("main", "command") /\ Calls("main") /\ Goto("main", "end")
  /\ (UNCHANGED failed) \/ (Fault("command") /\ Fails("command"))
  /\ UNCHANGED <<scenario, optVars, lua, states, dbVars, created, error, rc>>

(* execute_command() and call_custom_command(), on main()'s interpreter.   *)
CallCommand ==
  /\ At("main", "command") /\ Calls("main") /\ Goto("main", "end")
  /\ (UNCHANGED <<rc, failed>>) \/ (Fault("command") /\ rc' = 1 /\ Fails("command"))
  /\ UNCHANGED <<scenario, optVars, lua, states, dbVars, created, error>>

(* sb_lua_op_init(): options are exported, init() is called, event() must  *)
(* exist.                                                                  *)
sb_lua_op_init ==
  /\ At("main", "run") /\ Calls("main")
  /\ \/ Goto("main", "create") /\ UNCHANGED <<rc, failed>>
     \/ Fault("init") /\ Goto("main", "end") /\ rc' = 1 /\ Fails("init")
  /\ UNCHANGED <<scenario, optVars, lua, states, dbVars, created, error>>

(* run_test() creates the reporting threads and then the workers, and      *)
(* gives up at the first one that cannot be created.                       *)
ToCreate == {t \in Workers \cup (IF Command("run") THEN scenario.reporters ELSE {}) :
               pc[t] = "none"}

CreateThread ==
  /\ At("main", "create") /\ ToCreate # {}
  /\ \E t \in ToCreate :
       /\ t \in Workers => ToCreate \cap Reporters = {}
       /\ \/ Goto(t, "start") /\ UNCHANGED <<rc, failed>>
          \/ Fault("create") /\ Goto("main", "end") /\ rc' = 1 /\ Fails("create")
  /\ UNCHANGED <<scenario, optVars, luaVars, dbVars, created, error>>

AllCreated ==
  /\ At("main", "create") /\ ToCreate = {}
  /\ Goto("main", IF Command("run") THEN "barrier" ELSE "join")
  /\ UNCHANGED <<scenario, optVars, luaVars, dbVars, endVars>>

(* worker_barrier: all threads go on, or all leave when one has failed.    *)
WorkerBarrier ==
  /\ At("main", "barrier") /\ \A w \in Workers : pc[w] \in {"ready", "lost"}
  /\ pc' = [t \in All |-> CASE t \in Workers -> IF error THEN "over" ELSE "work"
                            [] t = "main" -> IF error THEN "end" ELSE "barrier2"
                            [] OTHER -> pc[t]]
  /\ rc' = IF error THEN 1 ELSE rc
  /\ UNCHANGED <<scenario, optVars, luaVars, dbVars, created, failed, error>>

ReportBarrier ==
  /\ At("main", "barrier2") /\ \A r \in scenario.reporters : pc[r] = "wait"
  /\ pc' = [t \in All |-> CASE t = "main" -> "join" [] pc[t] = "wait" -> "flag"
                            [] OTHER -> pc[t]]
  /\ UNCHANGED <<scenario, optVars, luaVars, dbVars, endVars>>

(* Mutant of JoinWorkers: main() goes on when one worker is done.          *)
JoinWorkers_First ==
  /\ At("main", "join") /\ \E w \in Workers : pc[w] = "over"
  /\ Goto("main", IF Command("run") THEN "cancel" ELSE "end")
  /\ UNCHANGED <<scenario, optVars, luaVars, dbVars, endVars>>

JoinWorkers ==
  /\ At("main", "join") /\ \A w \in Workers : pc[w] = "over"
  /\ Goto("main", IF Command("run") THEN "cancel" ELSE "end")
  /\ UNCHANGED <<scenario, optVars, luaVars, dbVars, endVars>>

(* Reporting threads are cancelled when they have set their flag; a        *)
(* cleanup handler closes their interpreters.                              *)
CancelReporters ==
  /\ At("main", "cancel")
  /\ pc' = [t \in All |-> CASE t = "main" -> "final" [] t \in created -> "over"
                            [] OTHER -> pc[t]]
  /\ lua' = [t \in All |-> IF t \in created /\ pc[t] # "over" THEN "closed" ELSE lua[t]]
  /\ UNCHANGED <<scenario, optVars, states, misused, dbVars, endVars>>

(* The cumulative report calls a hook in main()'s interpreter.             *)
FinalReport ==
  /\ At("main", "final") /\ Goto("main", "op_done")
  /\ IF error THEN UNCHANGED misused ELSE Calls("main")
  /\ UNCHANGED <<scenario, optVars, lua, states, dbVars, endVars>>

(* sb_lua_done(): the interpreter is closed, gstate and states are reset.  *)
sb_lua_done == lua' = [lua EXCEPT !["main"] = "closed"] /\ states' = FALSE
sb_lua_loaded == lua["main"] = "open"

(* sb_lua_op_done(): what it returns is ignored, but when done() fails the *)
(* interpreter is left to main().                                          *)
sb_lua_op_done ==
  /\ At("main", "op_done") /\ Calls("main") /\ Goto("main", "end")
  /\ rc' = IF error THEN 1 ELSE rc
  /\ \/ sb_lua_done /\ UNCHANGED failed
     \/ Fault("done") /\ Fails("done") /\ UNCHANGED <<lua, states>>
  /\ UNCHANGED <<scenario, optVars, dbVars, created, error>>

(* The end of main(): sb_lua_done() if it is still to do, then db_done().  *)
EndMain ==
  /\ At("main", "end") /\ Goto("main", "exit")
  /\ IF sb_lua_loaded THEN sb_lua_done ELSE UNCHANGED <<lua, states>>
  /\ driver' = IF once = "ok" /\ driver = "up" THEN "done" ELSE driver
  /\ UNCHANGED <<scenario, optVars, misused, once, locked, inits, endVars>>

MainStep == \/ General \/ init \/ sb_load_lua \/ RegisterTest \/ TestArgument \/ Dispatch
            \/ CallCommand \/ sb_lua_op_init \/ CreateThread \/ AllCreated \/ WorkerBarrier
            \/ ReportBarrier \/ JoinWorkers \/ CancelReporters \/ FinalReport
            \/ sb_lua_op_done \/ EndMain

----------------------------------------------------------------------------
(* Worker threads.  A failing thread_init() sets the error flag and goes   *)
(* to the barrier all the same.                                            *)
Lost(w, what) == Goto(w, "lost") /\ error' = TRUE /\ Fails(what)
Same == UNCHANGED <<scenario, optVars, created, rc>>

(* sb_lua_new_state() in a worker; it loads the script once more.          *)
NewState(w) ==
  /\ At(w, "start") /\ Same /\ UNCHANGED <<states, misused, dbVars>>
  /\ \/ /\ lua' = [lua EXCEPT ![w] = "open"] /\ UNCHANGED <<failed, error>>
        /\ Goto(w, IF Command("run") THEN "thread_init" ELSE "command")
     \/ /\ Fault("script") /\ UNCHANGED lua
        /\ IF Command("run") THEN Lost(w, "script")
                             ELSE Goto(w, "over") /\ Fails("script") /\ UNCHANGED error

(* cmd_worker_thread(): what the command returns is dropped.               *)
ParallelCommand(w) ==
  /\ At(w, "command") /\ Same /\ Goto(w, "over")
  /\ misused' = (misused \/ lua[w] # "open") /\ lua' = [lua EXCEPT ![w] = "closed"]
  /\ (UNCHANGED failed) \/ (Fault("command") /\ Fails("command"))
  /\ UNCHANGED <<states, dbVars, error>>

sb_lua_op_thread_init(w) ==
  /\ At(w, "thread_init") /\ Same /\ Calls(w) /\ UNCHANGED <<lua, states, dbVars>>
  /\ \/ Goto(w, "once") /\ UNCHANGED <<failed, error>>
     \/ Fault("thread_init") /\ Lost(w, "thread_init")

(* db_create(), as thread_init() of a database script calls it.  db_init() *)
(* runs once; then the driver is looked up by its name, and its own init() *)
(* runs under its mutex until it has succeeded.                            *)
DbInit(w) ==
  /\ At(w, "once") /\ Same /\ UNCHANGED <<luaVars, locked, driver, inits>>
  /\ \/ /\ once # "failed" /\ once' = "ok" /\ Goto(w, "lock") /\ UNCHANGED <<failed, error>>
     \/ /\ once = "failed" \/ (once = "no" /\ Fault("db_args"))
        /\ once' = "failed" /\ Lost(w, "db_args")
     \/ once # "failed" /\ Fault("no_driver") /\ once' = "ok" /\ Lost(w, "no_driver")

(* Mutant of DriverLock: the mutex does not keep anyone out.               *)
DriverLock_Open(w) ==
  /\ At(w, "lock") /\ locked' = w
  /\ Goto(w, IF driver # "down" THEN "unlock" ELSE "driver_init")
  /\ Same /\ UNCHANGED <<luaVars, once, driver, inits, failed, error>>

DriverLock(w) ==
  /\ At(w, "lock") /\ locked = NoOne /\ locked' = w
  /\ Goto(w, IF driver # "down" THEN "unlock" ELSE "driver_init")
  /\ Same /\ UNCHANGED <<luaVars, once, driver, inits, failed, error>>

DriverInit(w) ==
  /\ At(w, "driver_init") /\ Same /\ UNCHANGED <<luaVars, once>>
  /\ \/ /\ driver' = "up" /\ inits' = inits + 1 /\ Goto(w, "unlock")
        /\ UNCHANGED <<locked, failed, error>>
     \/ /\ Fault("driver") /\ locked' = NoOne /\ Lost(w, "driver") /\ UNCHANGED <<driver, inits>>

(* The mutex is released; thread_init() of the driver may fail.            *)
DriverThreadInit(w) ==
  /\ At(w, "unlock") /\ locked' = NoOne
  /\ (Goto(w, "ready") /\ UNCHANGED <<failed, error>>) \/ (Fault("driver") /\ Lost(w, "driver"))
  /\ Same /\ UNCHANGED <<luaVars, once, driver, inits>>

sb_lua_op_thread_run(w) ==
  /\ At(w, "work") /\ Same /\ Calls(w) /\ UNCHANGED <<lua, states, dbVars>>
  /\ \/ Goto(w, "thread_done") /\ UNCHANGED <<failed, error>>
     \/ Fault("event") /\ Goto(w, "over") /\ Fails("event") /\ error' = TRUE

sb_lua_op_thread_done(w) ==
  /\ At(w, "thread_done") /\ Same /\ Calls(w) /\ Goto(w, "over")
  /\ lua' = [lua EXCEPT ![w] = "closed"]
  /\ (UNCHANGED failed) \/ (Fault("done") /\ Fails("done"))
  /\ UNCHANGED <<states, dbVars, error>>

WorkerStep(w) == \/ NewState(w) \/ ParallelCommand(w) \/ sb_lua_op_thread_init(w) \/ DbInit(w)
                 \/ DriverLock(w) \/ DriverInit(w) \/ DriverThreadInit(w)
                 \/ sb_lua_op_thread_run(w) \/ sb_lua_op_thread_done(w)

(* Reporting threads: sb_lua_report_thread_init() exports the options to   *)
(* an interpreter that is not there when the script does not load again.   *)
sb_lua_report_thread_init(r) ==
  /\ At(r, "start")
  /\ \/ /\ lua' = [lua EXCEPT ![r] = "open"] /\ Goto(r, "wait")
        /\ UNCHANGED <<misused, failed, rc>>
     \/ /\ Fault("script") /\ misused' = TRUE /\ Fails("script") /\ Exit(139) /\ UNCHANGED lua
  /\ UNCHANGED <<scenario, optVars, states, dbVars, created, error>>

SetCreated(r) ==
  /\ At(r, "flag") /\ created' = created \cup {r} /\ Goto(r, "report")
  /\ UNCHANGED <<scenario, optVars, luaVars, dbVars, failed, error, rc>>

(* The last checkpoint is reached: the cleanup handler runs.               *)
CheckpointsOver ==
  /\ At("cp", "report") /\ Goto("cp", "over") /\ Calls("cp")
  /\ lua' = [lua EXCEPT !["cp"] = IF sb_lua_loaded THEN "closed" ELSE @]
  /\ UNCHANGED <<scenario, optVars, states, dbVars, endVars>>

Next == \/ MainStep \/ CheckpointsOver
        \/ \E w \in Workers : WorkerStep(w)
        \/ \E r \in Reporters : sb_lua_report_thread_init(r) \/ SetCreated(r)

Spec == Init /\ [][Next]_vars

----------------------------------------------------------------------------
Mentions(lines, n) == \E i \in 1 .. Len(lines) : lines[i].name = n
LastOf(n) == SelectLastInSeq(scenario.argv, LAMBDA a : a.name = n)
FileAt(i) == scenario.argv[i].name = "config-file"

(* What the user writes last on the command line is the value the command  *)
(* gets to see.  It gives way only to a configuration file that is named   *)
(* later; to a script that declares an option main() already knows, whose  *)
(* default replaces what was parsed; --verbosity gives way to --debug; and *)
(* a bare flag of the script is lost when a configuration file named       *)
(* earlier mentions it.                                                    *)
UserWins ==
  pc["main"] \in {"run", "command", "create", "end"} =>
    \A n \in {scenario.argv[i].name : i \in 1 .. Len(scenario.argv)} \ {"config-file"} :
      LET i == LastOf(n)
          general == Mentions(GeneralArgs, n)
          filed == Mentions(scenario.file, n)
      IN \/ general /\ Mentions(scenario.script, n)
         \/ n = "verbosity" /\ sb_opt_to_flag(table["debug"])
         \/ general /\ filed /\ \E j \in i + 1 .. Len(scenario.argv) : FileAt(j)
         \/ ~general /\ filed /\ scenario.argv[i].value \in {NoValue, EmptyText}
              /\ \E j \in 1 .. i - 1 : FileAt(j)
         \/ table[n].values =
              set_option(table, n, scenario.argv[i].value, table[n].type, <<>>).table[n].values

(* A process that exits with status 0 has had no failing script, command   *)
(* or event.  Two failures do not count: those of done() and thread_done(),*)
(* and those of the threads of a parallel command.                         *)
ExitHonest ==
  pc["main"] = "exit" /\ rc = 0 => failed \subseteq {"done"} \/ Command("parallel")

(* Every call goes to an interpreter that is open, and an exit without     *)
(* failures leaves open only those of reporting threads, which may set     *)
(* their flag too late to be cancelled.  Two failures are                  *)
(* excepted: a thread that cannot be created (main() tears down under the  *)
(* threads it has) and a script that fails to load in a reporting thread.  *)
InterpretersSound ==
  failed \cap {"create", "script"} = {} =>
    /\ ~misused
    /\ pc["main"] = "exit" /\ rc = 0 /\ failed = {} /\ lua["main"] # "none" =>
         \A t \in All : lua[t] = "open" => t \in Reporters

(* The driver is initialised once, whichever threads come to db_create()   *)
(* together and whichever of their attempts fail, and it is up as long as  *)
(* a worker uses it, unless a thread could not be created.                 *)
DriverUp ==
  "create" \notin failed =>
    inits <= 1 /\ \A w \in Workers : pc[w] \in {"ready", "work", "thread_done"} => driver = "up"
============================================================================
