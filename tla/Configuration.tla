---------------------------- MODULE Configuration ----------------------------
(***************************************************************************)
(* Where a command takes the value of an option from, and what `service    *)
(* install` keeps of it for the service.  No state.                        *)
(*                                                                         *)
(* Values are tokens: "zero" is the zero value of Go ("", 0 or false),     *)
(* "absent" a flag that was not given, a variable that is not set or an    *)
(* attribute that the file does not have; "broken" is a text that is no    *)
(* number, "set" any other value than zero and the default of the flag.    *)
(***************************************************************************)
EXTENDS Sequences, Naturals

Absent == "absent"
Zero == "zero"

\* One option of each kind: a string with a default, a number, a truth value,
\* and the level of the logger, a string that has none.
Options == {"address", "port", "debug", "level"}

Default(o) == IF o \in {"address", "port"} THEN "default" ELSE Zero

\* The first of the sources that has a value; the last one always has.
FirstOf(sources) ==
  sources[CHOOSE i \in DOMAIN sources :
            sources[i] # Absent /\ \A j \in 1..(i - 1) : sources[j] = Absent]

Unless(value, skipped) == IF value \in skipped THEN Absent ELSE value

\* What the flag has if nothing else is given.
Val(o, flag) == FirstOf(<<flag, Default(o)>>)

\* Variant: the default of the flag counts as a flag that is given.
GetConfigValueFlagOnly(o, flag, env, file) ==
  FirstOf(<<Unless(Val(o, flag), {Zero}), env, file, Val(o, flag)>>)

\* A variable that is set to nothing is a value.
GetConfigValue(o, flag, env, file) ==
  FirstOf(<<Unless(flag, {Zero}), env, file, Val(o, flag)>>)

\* Whatever the variable says, it means true.
GetConfigBool(o, flag, env, file) ==
  FirstOf(<<Unless(flag, {Zero}), Unless(env, {Zero}), file, Val(o, flag)>>)

\* Only here does a flag that is zero count.
GetConfigInt64(o, flag, env, file) ==
  FirstOf(<<flag, Unless(env, {"broken"}), file, Val(o, flag)>>)

Get(o, flag, env, file) ==
  CASE o = "port" -> GetConfigInt64(o, flag, env, file)
    [] o = "debug" -> GetConfigBool(o, flag, env, file)
    [] OTHER -> GetConfigValue(o, flag, env, file)

\* What a flag or the file may give, and what a variable may.
Given == {Absent, Zero, "set"}
Envs(o) == IF o = "port" THEN Given \cup {"broken"} ELSE Given

Values == {Zero, "set", "default", "info"}

\* writeConfig leaves out what is zero, except the level, which is then info.
Keep(o, value) ==
  IF value # Zero THEN value ELSE IF o = "level" THEN "info" ELSE Absent

\* The service is started with one flag, the path of the file, and in an
\* environment that has none of the variables.
Served(o, kept) == Get(o, Absent, Absent, kept)
==============================================================================
