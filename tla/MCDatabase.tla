----------------------------- MODULE MCDatabase -----------------------------
(***************************************************************************)
(* The database layer, checked side by side: a connection with its result  *)
(* sets and prepared statements, bulk inserts, and the event loop of an    *)
(* SQL benchmark with its restarts.  A behaviour exercises one of them,    *)
(* which the variable part selects.                                        *)
(***************************************************************************)
EXTENDS DbConn, BulkInsert, SqlEvent

VARIABLE part

databaseVars == <<part, vars, bulk_vars, sqlVars>>

(* Only the part that runs starts in more than one state.                  *)
DatabaseInit ==
  /\ part \in {"connection", "bulk", "event"}
  /\ Init /\ (part # "connection" => driver = "mysql" /\ use_ps = 0)
  /\ BulkInit /\ (part # "bulk" => bulk_commit_max = 0)
  /\ SqlInit /\ (part # "event" => setup = [script |-> "points", driver |-> "mysql",
                                            use_ps |-> FALSE, reconnect |-> 0])

ConnectionStep == part = "connection" /\ Next /\ UNCHANGED <<part, bulk_vars, sqlVars>>
BulkStep == part = "bulk" /\ BulkNext /\ UNCHANGED <<part, vars, sqlVars>>
EventStep == part = "event" /\ SqlNext /\ UNCHANGED <<part, vars, bulk_vars>>

DatabaseNext == ConnectionStep \/ BulkStep \/ EventStep

DatabaseSpec == DatabaseInit /\ [][DatabaseNext]_databaseVars
=============================================================================
