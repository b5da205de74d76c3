---------------------------- MODULE VmrestProcess ----------------------------
(***************************************************************************)
(* The supervision of vmrest, when the user gives no URL of one that runs  *)
(* already: the credentials that are drawn at the first start and kept in  *)
(* two files, the process that Runner starts when it is asked for, the     *)
(* goroutine that reaps it, and Cleanup, which kills it at a shutdown.     *)
(***************************************************************************)

CONSTANTS Creds,   \* pairs of a user name and a password
          Callers, \* goroutines of requests
          Pids

ASSUME VmrestAssumption == {"none", "empty"} \cap Creds = {} /\ {"nil", "new"} \cap Pids = {}

VARIABLES
  cfg,      \* .vmrestCfg, which vmrest reads; "empty" between open and write
  stored,   \* desktop-autoscaler-utility.cfg, which the service reads
  mine,     \* the credentials in memory
  main,     \* the main goroutine
  shutdown, \* the goroutine of the shutdown tasks, in Cleanup
  runner,   \* the goroutine Runner
  command,  \* v.command: "nil", "new" without a Process, or the pid of it
  alive,    \* processes of vmrest that this service has started and that run
  reapers,  \* goroutines that wait for one of them
  asking,   \* callers in Active
  quiet,    \* nobody asked for vmrest since Cleanup began, nor as it did
  failed    \* a start of vmrest has failed

files == <<cfg, stored>>
process == <<command, alive, reapers>>
vars == <<cfg, stored, mine, main, shutdown, runner, command, alive, reapers, asking, quiet,
          failed>>

Up == main \in {"probe", "answer", "run"}

Init ==
  /\ cfg = "none" /\ stored = "none"
  /\ main = "off" /\ mine = "none"
  /\ shutdown = "none" /\ quiet = TRUE /\ failed = FALSE
  /\ runner = "none" /\ command = "nil" /\ alive = {} /\ reapers = {} /\ asking = {}

\* What is left of the service when it has gone: its files.
Gone(m) ==
  /\ main' = m /\ mine' = "none"
  /\ shutdown' = "none" /\ quiet' = TRUE /\ failed' = FALSE
  /\ runner' = "none" /\ command' = "nil" /\ alive' = {} /\ reapers' = {} /\ asking' = {}

(***************************************************************************)
(* Init.                                                                   *)
(***************************************************************************)
Boot ==
  /\ main = "off" /\ main' = "look"
  /\ UNCHANGED <<files, mine, shutdown, runner, process, asking, quiet, failed>>

\* Variant: a file that cannot be read is not an error.
LoadAnything ==
  /\ main = "look" /\ cfg # "none"
  /\ mine' = stored /\ main' = "probe" /\ runner' = "idle"
  /\ UNCHANGED <<files, shutdown, process, asking, quiet, failed>>

\* The credentials are loaded if vmrest has been configured, and the start
\* fails if they cannot be.
LoadCredentials ==
  /\ main = "look" /\ cfg # "none"
  /\ UNCHANGED files
  /\ \/ /\ stored \in Creds
        /\ mine' = stored /\ main' = "probe" /\ runner' = "idle"
        /\ UNCHANGED <<shutdown, process, asking, quiet, failed>>
     \/ stored \notin Creds /\ Gone("off")

DrawCredentials ==
  /\ main = "look" /\ cfg = "none"
  /\ \E n \in Creds : mine' = n
  /\ main' = "create"
  /\ UNCHANGED <<files, shutdown, runner, process, asking, quiet, failed>>

\* configure, which creates and then writes the file of vmrest, and
\* StoreJsonToFile, which truncates and then writes the one of the service.
Configure ==
  \/ main = "create" /\ main' = "fill" /\ cfg' = "empty" /\ UNCHANGED stored
  \/ main = "fill" /\ main' = "truncate" /\ cfg' = mine /\ UNCHANGED stored

StoreJsonToFile ==
  \/ main = "truncate" /\ main' = "write" /\ stored' = "empty" /\ UNCHANGED <<cfg, runner>>
  \/ main = "write" /\ main' = "probe" /\ stored' = mine /\ runner' = "idle" /\ UNCHANGED cfg

\* Variant: the service stores the credentials before it configures vmrest.
WriteFilesSwapped ==
  /\ \/ main = "create" /\ main' = "fill" /\ stored' = "empty" /\ UNCHANGED <<cfg, runner>>
     \/ main = "fill" /\ main' = "truncate" /\ stored' = mine /\ UNCHANGED <<cfg, runner>>
     \/ main = "truncate" /\ main' = "write" /\ cfg' = "empty" /\ UNCHANGED <<stored, runner>>
     \/ main = "write" /\ main' = "probe" /\ cfg' = mine /\ runner' = "idle" /\ UNCHANGED stored
  /\ UNCHANGED <<mine, shutdown, process, asking, quiet, failed>>

WriteFiles ==
  /\ \/ Configure /\ UNCHANGED runner
     \/ StoreJsonToFile
  /\ UNCHANGED <<mine, shutdown, process, asking, quiet, failed>>

\* NewVmrestDriver lists the networks, and gives up if it cannot.
ProbeAnswer ==
  /\ main = "answer"
  /\ UNCHANGED files
  /\ \/ main' = "run" /\ UNCHANGED <<mine, shutdown, runner, process, asking, quiet, failed>>
     \/ Gone("off")

\* The warning of Init has the user remove .vmrestCfg if the service has
\* no credentials for it.
RemoveConfig ==
  /\ main = "off" /\ cfg # "none" /\ stored \notin Creds
  /\ cfg' = "none"
  /\ UNCHANGED <<stored, mine, main, shutdown, runner, process, asking, quiet, failed>>

Crash == main # "off" /\ Gone("off") /\ UNCHANGED files

(***************************************************************************)
(* Active and Runner.  The channel activity has no buffer.                 *)
(***************************************************************************)
Active(c) ==
  /\ main = "run" /\ c \notin asking
  /\ asking' = asking \cup {c}
  /\ UNCHANGED <<files, mine, main, shutdown, runner, process, quiet, failed>>

Taken == runner = "idle" /\ runner' = "test" /\ quiet' = (quiet /\ shutdown = "none")

Take(c) ==
  /\ Up /\ c \in asking /\ Taken
  /\ asking' = asking \ {c}
  /\ UNCHANGED <<files, mine, main, shutdown, process, failed>>

TakeProbe ==
  /\ main = "probe" /\ Taken
  /\ main' = "answer"
  /\ UNCHANGED <<files, mine, shutdown, process, asking, failed>>

\* Variant: no test.
StartAlways ==
  /\ Up /\ runner = "test"
  /\ runner' = "start" /\ command' = "new"
  /\ UNCHANGED <<files, mine, main, shutdown, alive, reapers, asking, quiet, failed>>

\* runCommand: a process is started if there is no command.
TestCommand ==
  /\ Up /\ runner = "test"
  /\ IF command = "nil" THEN runner' = "start" /\ command' = "new"
                        ELSE runner' = "idle" /\ UNCHANGED command
  /\ UNCHANGED <<files, mine, main, shutdown, alive, reapers, asking, quiet, failed>>

\* The command stays as it is, without a Process or without a reaper.
StartFails ==
  /\ \/ UNCHANGED process
     \/ \E p \in Pids \ (alive \cup reapers) :
          command' = p /\ alive' = alive \cup {p} /\ UNCHANGED reapers
  /\ failed' = TRUE

Started ==
  /\ \E p \in Pids \ (alive \cup reapers) :
       command' = p /\ alive' = alive \cup {p} /\ reapers' = reapers \cup {p}
  /\ UNCHANGED failed

\* Variant: Runner returns if the start fails.
StartOrReturn ==
  /\ Up /\ runner = "start"
  /\ \/ Started /\ runner' = "idle"
     \/ StartFails /\ runner' = "none"
  /\ UNCHANGED <<files, mine, main, shutdown, asking, quiet>>

StartCommand ==
  /\ Up /\ runner = "start"
  /\ Started \/ StartFails
  /\ runner' = "idle"
  /\ UNCHANGED <<files, mine, main, shutdown, asking, quiet>>

\* vmrest ends by itself.
Dies ==
  /\ \E p \in alive : alive' = alive \ {p}
  /\ UNCHANGED <<files, mine, main, shutdown, runner, command, reapers, asking, quiet, failed>>

\* Variant: the command is not cleared.
ReapOnly(p) ==
  /\ Up /\ p \in reapers \ alive
  /\ reapers' = reapers \ {p}
  /\ UNCHANGED <<files, mine, main, shutdown, runner, command, alive, asking, quiet, failed>>

\* Wait returns, and the command is cleared.
Reap(p) ==
  /\ Up /\ p \in reapers \ alive
  /\ reapers' = reapers \ {p}
  /\ command' = "nil"
  /\ UNCHANGED <<files, mine, main, shutdown, runner, alive, asking, quiet, failed>>

(***************************************************************************)
(* Cleanup, which reads v.command twice.                                   *)
(***************************************************************************)
Cleanup ==
  /\ Up /\ shutdown = "none"
  /\ shutdown' = IF command # "nil" THEN "kill" ELSE "done"
  /\ quiet' = (runner = "idle")
  /\ UNCHANGED <<files, mine, main, runner, process, asking, failed>>

\* Variant: the command is forgotten, the process not killed.
KillNot ==
  /\ Up /\ shutdown = "kill"
  /\ shutdown' = "done" /\ command' = "nil"
  /\ UNCHANGED <<files, mine, main, runner, alive, reapers, asking, quiet, failed>>

\* With no command or no Process the pointer is nil: the program panics.
Kill ==
  /\ Up /\ shutdown = "kill"
  /\ alive' = alive \ {command}
  /\ IF command \in {"nil", "new"} THEN main' = "ended" ELSE UNCHANGED main
  /\ shutdown' = "done"
  /\ UNCHANGED <<files, mine, runner, command, reapers, asking, quiet, failed>>

\* The servers halt and the process exits.
End ==
  /\ main = "run" /\ shutdown = "done"
  /\ main' = "ended"
  /\ UNCHANGED <<files, mine, shutdown, runner, process, asking, quiet, failed>>

Next ==
  \/ Boot \/ LoadCredentials \/ DrawCredentials \/ WriteFiles \/ ProbeAnswer
  \/ RemoveConfig \/ Crash
  \/ \E c \in Callers : Active(c) \/ Take(c)
  \/ TakeProbe \/ TestCommand \/ StartCommand
  \/ Dies \/ \E p \in Pids : Reap(p)
  \/ Cleanup \/ Kill \/ End

Spec == Init /\ [][Next]_vars

\* Runner and the reapers run, and blocked senders are served in turn.
Fairness ==
  /\ \A c \in Callers : SF_vars(Take(c))
  /\ WF_vars(TestCommand \/ StartCommand)
  /\ \A p \in Pids : WF_vars(Reap(p))

FairSpec == Spec /\ Fairness
------------------------------------------------------------------------------
(***************************************************************************)
(* Properties.                                                             *)
(***************************************************************************)

\* Every variable has its type; Runner runs from the end of Init on.
TypeOK ==
  /\ cfg \in Creds \cup {"none", "empty"}
  /\ stored \in Creds \cup {"none", "empty"}
  /\ mine \in Creds \cup {"none"}
  /\ main \in {"off", "look", "create", "fill", "truncate", "write",
               "probe", "answer", "run", "ended"}
  /\ shutdown \in {"none", "kill", "done"}
  /\ runner \in {"none", "idle", "test", "start"}
  /\ command \in Pids \cup {"nil", "new"}
  /\ alive \subseteq Pids /\ reapers \subseteq Pids
  /\ asking \subseteq Callers
  /\ quiet \in BOOLEAN /\ failed \in BOOLEAN
  /\ Up => runner # "none"

\* Whatever crashes came before, in whatever step of Init: a service that is up
\* has the credentials that vmrest has been configured with.
CredentialsAgree == Up => mine = cfg

\* vmrest runs at most once, and where Cleanup finds it.
OnlyCommandRuns == alive \subseteq {command}

\* No vmrest is left behind when the service ends in order, if nobody asked for
\* one while it was being shut down.
NothingLeft == main = "ended" /\ quiet => alive = {}

\* Active does not block for ever while the service is up.
EveryActiveReturns == \A c \in Callers : c \in asking ~> c \notin asking \/ ~ Up

\* As long as there are requests vmrest is there again and again, however often
\* it dies, unless a start has failed, which is not tried again.
StartedOnDemand ==
  []<><<\E c \in Callers : Take(c)>>_vars => []<>(alive # {} \/ failed \/ ~ Up)
==============================================================================
