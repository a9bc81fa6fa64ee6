------------------------------- MODULE MCMain -------------------------------
(* Two workers, and two sets of scenarios: command lines of up to three    *)
(* options with a configuration file and script options, and commands in   *)
(* which things fail.                                                      *)
EXTENDS Main

Opt(n, v) == [name |-> n, value |-> v]
Line(n, vs) == [name |-> n, values |-> vs]
Def(n, t, v, f) == [name |-> n, type |-> t, value |-> v, validate |-> f]

Items == {Opt("threads", "2"), Opt("threads", "x"), Opt("debug", NoValue), Opt("debug", "off"),
          Opt("report-checkpoints", "a,b"), Opt("report-checkpoints", "1,2"),
          Opt("verbosity", "2"), Opt("config-file", "f"), Opt("trx", NoValue), Opt("trx", "off"),
          Opt("size", "3"), Opt("size", "bad"), Opt("size", EmptyText), Opt("debug", "maybe")}
Files == {<<>>, <<Line("threads", <<"3">>), Line("debug", <<"off">>)>>,
          <<Line("trx", <<"on">>), Line("size", <<"1", "2">>)>>}
Scripts == {<<Def("size", "INT", "1", "none"), Def("trx", "BOOL", "off", "positive")>>,
            <<Def("size", "INT", "1", "positive"), Def("threads", "INT", "3", "none")>>}

Lines == {<<>>} \cup {<<a>> : a \in Items} \cup {<<a, b>> : a, b \in Items}
           \cup {<<a, b, c>> : a, b, c \in Items}
Parsing == [argv : Lines, file : Files, script : Scripts, command : {"help"},
            reporters : {{}}, faults : {{}}]

Faults == {"setup", "load", "init", "command", "create", "script", "thread_init", "db_args", "no_driver",
           "driver", "event", "done"}
Running == [argv : {<<>>}, file : {<<>>}, script : {<<>>},
            command : {"run", "parallel", "prepare", "custom", "unknown"},
            reporters : {{}, Reporters}, faults : {{f} : f \in Faults} \cup {{"thread_init", "driver"}}]

MCScenarios == Parsing \cup Running
============================================================================
