------------------------------ MODULE Options ------------------------------
(***************************************************************************)
(* sb_options.c: the table of options, as a function from option names to  *)
(* a type, a list of values and a validation function.  A value is a text; *)
(* names are taken as convert_dashes() and opt_name_cmp() leave them.      *)
(***************************************************************************)
EXTENDS Integers, Sequences, SequencesExt

NoValue == "(null)"     \* --name without =value
EmptyText == ""

NullType == "NULL"      \* what new_option() leaves in a calloc()ed option

(* on, true and 1 mean the same to a BOOL, and so do off, false and 0.     *)
OnTexts == {"on", "true", "1"}
OffTexts == {"off", "false", "0"}

(* The values of a comma-separated list.                                   *)
Tokens(text) == CASE text = "a,b" -> <<"a", "b">>
                  [] text = "1,2" -> <<"1", "2">>
                  [] OTHER -> <<text>>

(* Script validation functions, by name: "none" accepts everything.        *)
Accepts(validate, value) == validate = "none" \/ value # "bad"

find_option(table, name) == name \in DOMAIN table

(* add_option(): the option as it is, or a new one without type or values. *)
add_option(table, name) ==
  IF find_option(table, name) THEN table
  ELSE [n \in DOMAIN table \cup {name} |->
          IF n = name THEN [type |-> NullType, values |-> <<>>, validate |-> "none"]
                      ELSE table[n]]

With(table, name, type, values) ==
  LET t == add_option(table, name)
  IN [t EXCEPT ![name].type = type, ![name].values = values]

(* read_config(): each line replaces the values of its option as they are  *)
(* written, whatever the option's type is.                                 *)
read_config(table, lines) ==
  LET line(t, l) == LET u == add_option(t, l.name) IN [u EXCEPT ![l.name].values = l.values]
  IN FoldLeft(line, table, lines)

(* set_option(): the old values are gone even when the new one is refused. *)
(* A FILE option is read at once.                                          *)
set_option(table, name, value, type, file) ==
  LET t == add_option(table, name)
      bare == value \in {NoValue, EmptyText}
      to(values) == [ok |-> TRUE, table |-> With(t, name, type, values)]
      refused == [ok |-> FALSE, table |-> With(t, name, type, <<>>)]
  IN CASE ~Accepts(t[name].validate, value) -> refused
       [] type = "BOOL" -> IF value = NoValue \/ value \in OnTexts THEN to(<<"on">>)
                           ELSE IF value \in OffTexts THEN to(<<>>) ELSE refused
       [] bare -> to(<<>>)
       [] type \in {"INT", "STRING"} -> to(<<value>>)
       [] type = "LIST" -> to(Tokens(value))
       [] type = "FILE" -> [ok |-> TRUE, table |-> read_config(With(t, name, type, <<>>), file)]
       [] OTHER -> refused

(* sb_register_arg_set(): defaults, in order, until one is refused.  Every *)
(* option gets the validation function of the first of the set.            *)
sb_register_arg_set(table, set) ==
  LET reg(r, a) ==
        IF ~r.ok THEN r
        ELSE LET s == set_option(r.table, a.name, a.value, a.type, <<>>)
             IN IF s.ok THEN [s EXCEPT !.table[a.name].validate = set[1].validate] ELSE s
  IN FoldLeft(reg, [ok |-> TRUE, table |-> table], set)

(* parse_option() of sysbench.c: only options that are in the table.       *)
parse_option(table, arg, file) ==
  IF find_option(table, arg.name)
  THEN set_option(table, arg.name, arg.value, table[arg.name].type, file)
  ELSE [ok |-> FALSE, table |-> table]

(* sb_opt_to_flag(): any value at all turns a flag on.  sb_opt_to_int():   *)
(* the first value, zero if there is none; exit() when it is not a number. *)
sb_opt_to_flag(opt) == opt.values # <<>>
sb_opt_to_int(opt) == IF opt.values = <<>> THEN "0" ELSE Head(opt.values)
Numbers == {"0", "1", "2", "3"}
============================================================================
