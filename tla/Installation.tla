----------------------------- MODULE Installation -----------------------------
(***************************************************************************)
(* `service install` and `service uninstall` with systemd and launchd: the *)
(* configuration, the unit (or job) file, and what the service manager     *)
(* knows of it.  A command goes through its steps in order; an error ends  *)
(* it in any of them, and so does a crash.                                 *)
(***************************************************************************)
EXTENDS Configuration

VARIABLES
  platform,    \* "linux" (systemd) or "darwin" (launchd)
  option,      \* the option that is followed
  config,      \* service.hcl or config.hcl: "none", "cut", or what it keeps
  decided,     \* history: what the last install to write config decided on
  unit,        \* the unit or job file: "none", "cut" or "whole"
  managed,     \* systemctl has a link to the unit, launchctl has loaded the job:
               \* "no" or "yes"
  misled,      \* history: systemctl is-enabled has failed on a unit that was
               \* enabled, and nothing has enabled or disabled it since
  command, at  \* the command that runs, and its step; "none", or "uninstalled"
               \* if the last one was an uninstall that succeeded

installVars == <<platform, option, config, decided, unit, managed, misled, command, at>>

\* Variant: the unit is enabled before it is written.
InstallStepsEager ==
  IF platform = "linux"
  THEN <<"truncate", "encode", "check", "enable", "create", "fill", "start">>
  ELSE <<"check", "truncate", "encode", "create", "fill", "enable">>

\* install and installSystemd; darwin looks at the job file first.
InstallSteps ==
  IF platform = "linux"
  THEN <<"truncate", "encode", "check", "create", "fill", "enable", "start">>
  ELSE <<"check", "truncate", "encode", "create", "fill", "enable">>

\* Variant: the job file is removed before it is unloaded.
UninstallStepsSwapped ==
  IF platform = "linux" THEN <<"ask", "disable", "remove">>
                        ELSE <<"exists", "remove", "disable">>

\* uninstallSystemd asks if the unit is enabled, darwin if there is a job file.
UninstallSteps ==
  IF platform = "linux" THEN <<"ask", "disable", "remove">>
                        ELSE <<"exists", "disable", "remove">>

Steps == IF command = "install" THEN InstallSteps ELSE UninstallSteps

Busy == command \in {"install", "uninstall"}

Doing(s) == Busy /\ Steps[at] = s

\* The command ends, or goes on with a later step.
EndWell ==
  /\ command' = IF command = "uninstall" THEN "uninstalled" ELSE "none"
  /\ at' = 1

\* Variant: the end of the command is not seen.
GoOnPast(n) == at' = at + n /\ UNCHANGED command

GoOn(n) ==
  IF at + n > Len(Steps) THEN EndWell
  ELSE at' = at + n /\ UNCHANGED command

InstallInit ==
  /\ platform \in {"linux", "darwin"} /\ option \in Options
  /\ config = "none" /\ decided = "none"
  /\ unit = "none" /\ managed = "no" /\ misled = FALSE
  /\ command = "none" /\ at = 1

Begin(c) ==
  /\ ~ Busy
  /\ command' = c /\ at' = 1
  /\ UNCHANGED <<platform, option, config, decided, unit, managed, misled>>

\* An error, or a crash of the command.
Fail ==
  /\ Busy
  /\ command' = "none" /\ at' = 1
  /\ UNCHANGED <<platform, option, config, decided, unit, managed, misled>>

(***************************************************************************)
(* writeConfig.                                                            *)
(***************************************************************************)
Truncate ==
  /\ Doing("truncate")
  /\ config' = "cut" /\ GoOn(1)
  /\ UNCHANGED <<platform, option, decided, unit, managed, misled>>

WriteConfig ==
  /\ Doing("encode")
  /\ \E flag \in Given, env \in Envs(option), file \in Given :
       decided' = Get(option, flag, env, file)
  /\ config' = Keep(option, decided') /\ GoOn(1)
  /\ UNCHANGED <<platform, option, unit, managed, misled>>

(***************************************************************************)
(* The unit and the service manager.                                       *)
(***************************************************************************)

\* "service is already installed": Fail is the only way on.
Check ==
  /\ Doing("check") /\ unit = "none"
  /\ GoOn(1)
  /\ UNCHANGED <<platform, option, config, decided, unit, managed, misled>>

WriteUnit ==
  /\ \/ Doing("create") /\ unit' = "cut"
     \/ Doing("fill") /\ unit' = "whole"
  /\ GoOn(1)
  /\ UNCHANGED <<platform, option, config, decided, managed, misled>>

\* systemctl enable and launchctl load may do their work and fail after all.
Enable ==
  /\ Doing("enable")
  /\ managed' = "yes" /\ misled' = FALSE
  /\ \/ GoOn(1)
     \/ command' = "none" /\ at' = 1
  /\ UNCHANGED <<platform, option, config, decided, unit>>

\* systemctl start.
Start ==
  /\ Doing("start")
  /\ GoOn(1)
  /\ UNCHANGED <<platform, option, config, decided, unit, managed, misled>>

\* Variant: what is not enabled is not removed either.
AskOrEnd ==
  /\ Doing("ask")
  /\ \/ /\ unit = "cut" \/ (managed = "yes" /\ unit = "whole")
        /\ GoOn(1) /\ UNCHANGED misled
     \/ EndWell /\ misled' = (managed = "yes")
  /\ UNCHANGED <<platform, option, config, decided, unit, managed>>

\* is-enabled: a unit that has been cut off may count as enabled, and one that
\* is enabled as not, if systemctl fails.  Then it is not disabled, and the link
\* that systemctl has stays.
Ask ==
  /\ Doing("ask")
  /\ \/ /\ unit = "cut" \/ (managed = "yes" /\ unit = "whole")
        /\ GoOn(1) /\ UNCHANGED misled
     \/ GoOn(2) /\ misled' = (managed = "yes")
  /\ UNCHANGED <<platform, option, config, decided, unit, managed>>

\* Without a job file uninstall has nothing to do.
Exists ==
  /\ Doing("exists")
  /\ IF unit = "none" THEN EndWell ELSE GoOn(1)
  /\ UNCHANGED <<platform, option, config, decided, unit, managed, misled>>

Disable ==
  /\ Doing("disable")
  /\ managed' = "no" /\ misled' = FALSE
  /\ \/ GoOn(1)
     \/ command' = "none" /\ at' = 1
  /\ UNCHANGED <<platform, option, config, decided, unit>>

RemoveUnit ==
  /\ Doing("remove")
  /\ unit' = "none" /\ GoOn(1)
  /\ UNCHANGED <<platform, option, config, decided, managed, misled>>

InstallNext ==
  \/ Begin("install") \/ Begin("uninstall") \/ Fail
  \/ Truncate \/ WriteConfig \/ Check \/ WriteUnit \/ Enable \/ Start
  \/ Ask \/ Exists \/ Disable \/ RemoveUnit
------------------------------------------------------------------------------
InstallTypeOK ==
  /\ platform \in {"linux", "darwin"} /\ option \in Options
  /\ config \in {"none", "cut", Absent} \cup Values
  /\ decided \in {"none"} \cup Values
  /\ unit \in {"none", "cut", "whole"}
  /\ managed \in {"no", "yes"} /\ misled \in BOOLEAN
  /\ command \in {"none", "install", "uninstall", "uninstalled"}
  /\ at \in 1..Len(Steps)

\* The service manager never has a service whose unit is missing or cut off,
\* whatever install or uninstall was cut short.  On Linux with one exception,
\* that of the code: after `systemctl is-enabled` failed on an enabled unit,
\* uninstall removes the unit and the link to it stays.
ManagedIsWhole == managed = "yes" => unit = "whole" \/ misled

\* "Service has been uninstalled!": nothing is left that a later install would
\* take for an installed service and, but for that exception, nothing that the
\* service manager would start.
UninstallClears ==
  command = "uninstalled" => unit = "none" /\ (managed = "no" \/ misled)
==============================================================================
