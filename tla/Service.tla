------------------------------- MODULE Service -------------------------------
(***************************************************************************)
(* The process as a whole: the life cycle of FrontEnds, the vmrest that    *)
(* VmrestProcess supervises, and netLock, by which REST handlers wait for  *)
(* each other.  A request that is passed on to vmrest holds netLock and    *)
(* blocks in Active, and Runner goes on until the process ends, so what    *)
(* the end of the process waits for, that handlers return, is shown here.  *)
(*                                                                         *)
(* The user gives no URL of a vmrest, VmwareInfo succeeds (otherwise there  *)
(* is no vmrest), and Init has found or drawn credentials.                 *)
(***************************************************************************)
EXTENDS FrontEnds

CONSTANTS Pids,    \* processes of vmrest
          Clients, \* per mode, the connections that callers open: a bound
          Nobody   \* holds netLock when nobody does

ASSUME ServiceAssumption ==
  /\ {"nil", "new"} \cap Pids = {}
  /\ Nobody \notin Conns
  /\ Clients \in [Modes -> SUBSET Conns]

VARIABLES
  driver,  \* NewVmrestDriver and after: main of VmrestProcess
  shutdown, runner, command, alive, reapers, asking, quiet, failed,
  netLock, \* the connection whose handler holds it
  stage    \* per connection: what its handler does next

V == INSTANCE VmrestProcess WITH
       Callers <- Conns, Creds <- {"drawn"},
       cfg <- "drawn", stored <- "drawn", mine <- "drawn", main <- driver

process == <<command, alive, reapers>>
vmrestVars == <<driver, shutdown, runner, process, asking, quiet, failed>>
handlerVars == <<netLock, stage>>
serviceVars == <<vars, vmrestVars, handlerVars>>

ServiceInit ==
  /\ Init
  /\ driver = "look" /\ shutdown = "none" /\ quiet = TRUE /\ failed = FALSE
  /\ runner = "none" /\ command = "nil" /\ alive = {} /\ reapers = {} /\ asking = {}
  /\ peer = [k \in Conns |-> First]
  /\ netLock = Nobody
  /\ stage = [k \in Conns |-> "return"]

(***************************************************************************)
(* The main goroutine and the shutdown.                                    *)
(***************************************************************************)

\* The end of vmrest.Init, which registers Cleanup before vmrest is probed.
InitVmrest ==
  /\ driver = "look" /\ RegisterCleanup
  /\ driver' = "probe" /\ runner' = "idle"
  /\ UNCHANGED <<shutdown, process, asking, quiet, failed, handlerVars>>

\* The listing of networks of NewVmrestDriver, and what becomes of it.
Probe ==
  /\ Running /\ V!TakeProbe
  /\ UNCHANGED <<vars, handlerVars>>

DriverBuilt ==
  /\ driver = "answer" /\ BuildDriver
  /\ driver' = IF main' = "failed" THEN "ended" ELSE "run"
  /\ UNCHANGED <<shutdown, runner, process, asking, quiet, failed, handlerVars>>

\* A step of FrontEnds; if it ends the process, nobody asks for vmrest any more.
FrontEnd(A) ==
  /\ A
  /\ driver' = IF main' \in Ends THEN "ended" ELSE driver
  /\ UNCHANGED <<shutdown, runner, process, asking, quiet, failed, handlerVars>>

\* Tasks run one after the other, so the next one waits for Cleanup.
StopServer(s) == shutdown # "kill" /\ FrontEnd(RunTask(s))

\* Cleanup as the shutdown task it is: a panic there is the end of the process.
RunCleanup ==
  /\ RunTask("vmrest") /\ V!Cleanup
  /\ UNCHANGED handlerVars

KillVmrest ==
  /\ Running /\ V!Kill
  /\ IF driver' = "ended" THEN Panic ELSE UNCHANGED vars
  /\ UNCHANGED handlerVars

(***************************************************************************)
(* Handlers.                                                               *)
(***************************************************************************)

\* A REST request is about a machine or for vmrest, or needs neither lock nor
\* vmrest, as those of gRPC.
Handle(k) ==
  /\ RequestHandler(k)
  /\ \E n \in IF peer[k] = "rest" THEN {"machine", "proxy", "return"} ELSE {"return"} :
       stage' = [stage EXCEPT ![k] = n]
  /\ UNCHANGED <<vmrestVars, netLock>>

AcquireNet(k) ==
  /\ Running /\ netLock = Nobody /\ stage[k] \in {"machine", "proxy"}
  /\ netLock' = k
  /\ stage' = [stage EXCEPT ![k] = IF @ = "proxy" THEN "active" ELSE "return"]
  /\ UNCHANGED <<vars, vmrestVars>>

\* handleVmrestProxy calls Request, which sends to the channel of Runner.
Ask(k) ==
  /\ Running /\ stage[k] = "active" /\ V!Active(k)
  /\ stage' = [stage EXCEPT ![k] = "asking"]
  /\ UNCHANGED <<vars, netLock>>

Take(k) ==
  /\ Running /\ V!Take(k)
  /\ stage' = [stage EXCEPT ![k] = "return"]
  /\ UNCHANGED <<vars, netLock>>

\* Variant: the lock is not given back.
FinishLocked(k) ==
  /\ stage[k] = "return" /\ Return(k)
  /\ UNCHANGED <<vmrestVars, netLock, stage>>

\* The handler returns: the deferred unlock, and reqTracker.Done.
Finish(k) ==
  /\ stage[k] = "return" /\ Return(k)
  /\ netLock' = IF netLock = k THEN Nobody ELSE netLock
  /\ UNCHANGED <<vmrestVars, stage>>

(***************************************************************************)
(* vmrest.                                                                 *)
(***************************************************************************)
RunnerStep ==
  /\ Running /\ (V!TestCommand \/ V!StartCommand)
  /\ UNCHANGED <<vars, handlerVars>>

Dies == V!Dies /\ UNCHANGED <<vars, handlerVars>>

Reap(p) ==
  /\ Running /\ V!Reap(p)
  /\ UNCHANGED <<vars, handlerVars>>

ServiceNext ==
  \/ InitVmrest \/ Probe \/ DriverBuilt \/ RunCleanup \/ KillVmrest
  \/ FrontEnd(Start \/ Register \/ Notify \/ Receive \/ Signal)
  \/ \E s \in Servers : StopServer(s) \/ FrontEnd(Listen(s) \/ Close(s) \/ Drain(s) \/ Halt(s))
  \/ \E k \in Conns : FrontEnd((k \in Clients[mode] /\ Send(k)) \/ Deliver(k) \/ HangUp(k))
  \/ \E k \in Conns : Handle(k) \/ AcquireNet(k) \/ Ask(k) \/ Take(k) \/ Finish(k)
  \/ RunnerStep \/ Dies \/ \E p \in Pids : Reap(p)

ServiceSpec == ServiceInit /\ [][ServiceNext]_serviceVars

\* Goroutines that can run do; a lock and a channel serve who waits in turn.
\* No handler is taken to return before it has what it waits for, and no answer
\* to be ever written.
ServiceFairness ==
  /\ WF_serviceVars(InitVmrest \/ Probe \/ DriverBuilt \/ FrontEnd(Start \/ Register))
  /\ WF_serviceVars(FrontEnd(Notify \/ Receive))
  /\ WF_serviceVars(RunCleanup \/ KillVmrest \/ \E s \in Servers : StopServer(s))
  /\ \A s \in Servers : /\ WF_serviceVars(FrontEnd(Listen(s)))
                         /\ WF_serviceVars(FrontEnd(Close(s) \/ Drain(s) \/ Halt(s)))
  /\ \A k \in Conns : WF_serviceVars(Handle(k) \/ Ask(k) \/ Finish(k))
  /\ \A k \in Conns : SF_serviceVars(AcquireNet(k)) /\ SF_serviceVars(Take(k))
  /\ WF_serviceVars(RunnerStep)

ServiceFairSpec == ServiceSpec /\ ServiceFairness
------------------------------------------------------------------------------
(***************************************************************************)
(* Properties.                                                             *)
(***************************************************************************)

\* Every variable has its type, and a handler that wants something of vmrest
\* holds netLock, which is free when no handler is behind it.
ServiceTypeOK ==
  /\ TypeOK
  /\ V!TypeOK
  /\ netLock \in Conns \cup {Nobody}
  /\ stage \in [Conns -> {"machine", "proxy", "active", "asking", "return"}]
  /\ \A k \in Conns : /\ stage[k] \in {"active", "asking"} => netLock = k
                      /\ netLock = k \/ stage[k] # "return" => conn[k] = "handling"

\* Every handler returns, unless the process ends: handlers do not wait for each other and for Runner in a circle, not even
\* while vmrest dies, cannot be started, or has been killed by Cleanup.
EveryHandlerReturns ==
  \A k \in Conns : conn[k] = "handling" ~> conn[k] # "handling" \/ ~ Running

\* When the process ends after its Cleanup, it leaves a vmrest behind only if a
\* request or the probe asked for one while it was being shut down.
VmrestGone ==
  ~ Running /\ shutdown = "done" /\ quiet => alive = {}
==============================================================================
