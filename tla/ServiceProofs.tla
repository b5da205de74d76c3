---------------------------- MODULE ServiceProofs ----------------------------
(***************************************************************************)
(* Theorems about the whole process, for any number of connections and     *)
(* processes of vmrest.                                                    *)
(***************************************************************************)
EXTENDS Service, FrontEndsProofs

------------------------------------------------------------------------------
(***************************************************************************)
(* Service is made of the actions of FrontEnds, so what is proved of the   *)
(* life cycle by itself holds of it.                                       *)
(***************************************************************************)
LEMMA StepMaps == [ServiceNext]_serviceVars => [Next]_vars
<1> SUFFICES ASSUME [ServiceNext]_serviceVars PROVE [Next]_vars
  OBVIOUS
<1>1. CASE InitVmrest \/ DriverBuilt
  BY <1>1 DEF InitVmrest, DriverBuilt, Next
<1>2. CASE FrontEnd(Start \/ Register \/ Notify \/ Receive \/ Signal)
  BY <1>2 DEF FrontEnd, Next
<1>3. ASSUME NEW s \in Servers, FrontEnd(Listen(s) \/ Close(s) \/ Drain(s) \/ Halt(s))
      PROVE  Next
  BY <1>3 DEF FrontEnd, Next
<1>4. ASSUME NEW s \in Servers, StopServer(s)
      PROVE  Next
  BY <1>4 DEF StopServer, FrontEnd, Next
<1>5. CASE RunCleanup
  BY <1>5 DEF RunCleanup, Next
<1>6. CASE KillVmrest
  BY <1>6 DEF KillVmrest, Next
<1>7. ASSUME NEW k \in Conns, FrontEnd((k \in Clients[mode] /\ Send(k)) \/ Deliver(k) \/ HangUp(k))
      PROVE  Next
  BY <1>7 DEF FrontEnd, Next
<1>8. ASSUME NEW k \in Conns, Handle(k) \/ Finish(k)
      PROVE  Next
  BY <1>8 DEF Handle, Finish, Next
<1>9. ASSUME NEW k \in Conns, AcquireNet(k) \/ Ask(k) \/ Take(k)
      PROVE  UNCHANGED vars
  BY <1>9 DEF AcquireNet, Ask, Take
<1>10. CASE Probe \/ RunnerStep \/ Dies
  BY <1>10 DEF Probe, RunnerStep, Dies
<1>11. ASSUME NEW p \in Pids, Reap(p)
       PROVE  UNCHANGED vars
  BY <1>11 DEF Reap
<1>12. CASE UNCHANGED serviceVars
  BY <1>12 DEF serviceVars
<1> QED BY <1>1, <1>2, <1>3, <1>4, <1>5, <1>6, <1>7, <1>8, <1>9, <1>10, <1>11, <1>12
        DEF ServiceNext

LEMMA ServiceIsFrontEnds == ServiceSpec => Spec
<1>1. ServiceInit => Init
  BY DEF ServiceInit
<1> QED BY <1>1, StepMaps, PTL DEF ServiceSpec, Spec

\* In every mode, and with handlers that wait for netLock and for vmrest: when a
\* server has halted, and outside full mode when the process ends, every handler
\* that ran at the stop has returned.
THEOREM ServiceDrains == ServiceSpec => [](DrainedBeforeHalt /\ EndDrains)
BY ServiceIsFrontEnds, HaltedHasDrained, OneServerEndDrains, PTL

------------------------------------------------------------------------------
(***************************************************************************)
(* Types, and netLock.                                                     *)
(***************************************************************************)
Stages == {"machine", "proxy", "active", "asking", "return"}

\* Of handlers.
HandlerOK ==
  /\ netLock \in Conns \cup {Nobody}
  /\ stage \in [Conns -> Stages]
  /\ \A k \in Conns : /\ stage[k] \in {"active", "asking"} => netLock = k
                      /\ netLock = k \/ stage[k] # "return" => conn[k] = "handling"

LEMMA HandlerStep == TypeOK /\ HandlerOK /\ ServiceNext => HandlerOK'
<1> SUFFICES ASSUME TypeOK, HandlerOK, ServiceNext PROVE HandlerOK'
  OBVIOUS
<1> USE ServiceAssumption DEF HandlerOK, Stages, handlerVars
<1>1. CASE InitVmrest \/ DriverBuilt
  BY <1>1 DEF InitVmrest, DriverBuilt, RegisterCleanup, BuildDriver
<1>2. CASE FrontEnd(Start \/ Register \/ Notify \/ Receive \/ Signal)
  BY <1>2 DEF FrontEnd, Start, Register, Notify, Receive, Signal
<1>3. ASSUME NEW s \in Servers, FrontEnd(Listen(s) \/ Close(s) \/ Drain(s) \/ Halt(s))
      PROVE  HandlerOK'
  <2>1. UNCHANGED <<netLock, stage>>
    BY <1>3 DEF FrontEnd
  <2>2. \A k \in Conns : conn[k] = "handling" => conn'[k] = "handling"
    BY <1>3 DEF FrontEnd, Listen, Close, Drain, Halt
  <2> QED BY <2>1, <2>2
<1>4. ASSUME NEW s \in Servers, StopServer(s)
      PROVE  HandlerOK'
  BY <1>4 DEF StopServer, FrontEnd, RunTask
<1>5. CASE RunCleanup \/ KillVmrest
  <2>1. UNCHANGED <<conn, netLock, stage>>
    BY <1>5 DEF RunCleanup, RunTask, KillVmrest, Panic, vars
  <2> QED BY <2>1
<1>6. ASSUME NEW k \in Conns, FrontEnd((k \in Clients[mode] /\ Send(k)) \/ Deliver(k) \/ HangUp(k))
      PROVE  HandlerOK'
  <2>1. UNCHANGED <<netLock, stage>>
    BY <1>6 DEF FrontEnd
  <2>2. \A c \in Conns : conn[c] = "handling" => conn'[c] = "handling"
    BY <1>6 DEF TypeOK, FrontEnd, Send, Deliver, HangUp
  <2> QED BY <2>1, <2>2
<1>7. ASSUME NEW k \in Conns, Handle(k)
      PROVE  HandlerOK'
  <2>1. netLock' = netLock /\ netLock # k
    BY <1>7 DEF Handle, RequestHandler
  <2>2. \A c \in Conns : conn[c] = "handling" => conn'[c] = "handling"
    BY <1>7 DEF TypeOK, Handle, RequestHandler
  <2>3. PICK n \in {"machine", "proxy", "return"} : stage' = [stage EXCEPT ![k] = n]
    BY <1>7 DEF Handle
  <2>4. conn'[k] = "handling"
    BY <1>7 DEF TypeOK, Handle, RequestHandler
  <2> QED BY <2>1, <2>2, <2>3, <2>4
<1>8. ASSUME NEW k \in Conns, AcquireNet(k) \/ Ask(k) \/ Take(k)
      PROVE  HandlerOK'
  <2>1. CASE AcquireNet(k)
    BY <2>1 DEF AcquireNet, vars
  <2>2. CASE Ask(k) \/ Take(k)
    BY <2>2 DEF Ask, Take, vars
  <2> QED BY <1>8, <2>1, <2>2
<1>9. ASSUME NEW k \in Conns, Finish(k)
      PROVE  HandlerOK'
  BY <1>9 DEF TypeOK, Finish, Return
<1>10. CASE Probe \/ RunnerStep \/ Dies
  BY <1>10 DEF Probe, RunnerStep, Dies, vars
<1>11. ASSUME NEW p \in Pids, Reap(p)
       PROVE  HandlerOK'
  BY <1>11 DEF Reap, vars
<1> QED BY <1>1, <1>2, <1>3, <1>4, <1>5, <1>6, <1>7, <1>8, <1>9, <1>10, <1>11 DEF ServiceNext

(***************************************************************************)
(* vmrest.                                                                 *)
(***************************************************************************)

\* Types, and the invariants of VmrestProcess that a quiet shutdown rests on:
\* the one process and its reaper are those of the command, and Runner rests
\* from the beginning of a quiet Cleanup on.
VmrestOK ==
  /\ V!TypeOK
  /\ alive \subseteq {command} /\ reapers \subseteq {command}
  /\ runner = "start" => command = "new"
  /\ quiet /\ shutdown # "none" => runner = "idle"
  /\ quiet /\ shutdown = "done" => alive = {}

LEMMA VmrestStep == VmrestOK /\ ServiceNext => VmrestOK'
<1> SUFFICES ASSUME VmrestOK, ServiceNext PROVE VmrestOK'
  OBVIOUS
<1> USE ServiceAssumption DEF VmrestOK, process, V!TypeOK, V!Up, V!files, V!process
<1>1. CASE InitVmrest \/ DriverBuilt
  BY <1>1 DEF InitVmrest, DriverBuilt
<1>2. ASSUME UNCHANGED <<shutdown, runner, process, asking, quiet, failed>>,
             driver' \in {driver, "ended"}
      PROVE  VmrestOK'
  BY <1>2
<1>3. CASE FrontEnd(Start \/ Register \/ Notify \/ Receive \/ Signal)
  BY <1>2, <1>3 DEF FrontEnd
<1>4. ASSUME NEW s \in Servers,
             StopServer(s) \/ FrontEnd(Listen(s) \/ Close(s) \/ Drain(s) \/ Halt(s))
      PROVE  VmrestOK'
  BY <1>2, <1>4 DEF StopServer, FrontEnd
<1>5. ASSUME NEW k \in Conns, FrontEnd((k \in Clients[mode] /\ Send(k)) \/ Deliver(k) \/ HangUp(k))
      PROVE  VmrestOK'
  BY <1>2, <1>5 DEF FrontEnd
<1>6. ASSUME NEW k \in Conns, Handle(k) \/ AcquireNet(k) \/ Finish(k)
      PROVE  VmrestOK'
  BY <1>6 DEF Handle, AcquireNet, Finish, vmrestVars
<1>7. ASSUME NEW k \in Conns, Ask(k) \/ Take(k)
      PROVE  VmrestOK'
  <2>1. CASE Ask(k)
    BY <2>1 DEF Ask, V!Active
  <2>2. CASE Take(k)
    BY <2>2 DEF Take, V!Take, V!Taken
  <2> QED BY <1>7, <2>1, <2>2
<1>8. CASE Probe
  BY <1>8 DEF Probe, V!TakeProbe, V!Taken
<1>9. CASE RunnerStep
  <2>1. CASE V!TestCommand
    BY <2>1 DEF V!TestCommand
  <2>2. CASE V!StartCommand
    <3>1. alive = {} /\ reapers = {}
      BY <2>2 DEF V!StartCommand
    <3> QED BY <2>2, <3>1 DEF V!StartCommand, V!Started, V!StartFails
  <2> QED BY <1>9, <2>1, <2>2 DEF RunnerStep
<1>10. CASE Dies
  BY <1>10 DEF Dies, V!Dies
<1>11. ASSUME NEW p \in Pids, Reap(p)
       PROVE  VmrestOK'
  BY <1>11 DEF Reap, V!Reap
<1>12. CASE RunCleanup
  <2>1. quiet' => runner = "idle"
    BY <1>12 DEF RunCleanup, V!Cleanup
  <2>2. shutdown' = "done" => alive = {}
    BY <1>12 DEF RunCleanup, V!Cleanup
  <2> QED BY <1>12, <2>1, <2>2 DEF RunCleanup, V!Cleanup
<1>13. CASE KillVmrest
  BY <1>13 DEF KillVmrest, V!Kill
<1> QED BY <1>1, <1>3, <1>4, <1>5, <1>6, <1>7, <1>8, <1>9, <1>10, <1>11, <1>12, <1>13
        DEF ServiceNext

------------------------------------------------------------------------------
(***************************************************************************)
(* The theorems.                                                           *)
(***************************************************************************)
ServiceInv == TypeOK /\ HandlerOK /\ VmrestOK

LEMMA ServiceInvariance == ServiceSpec => []ServiceInv
<1>1. ServiceInit => ServiceInv
  <2> SUFFICES ASSUME ServiceInit PROVE ServiceInv
    OBVIOUS
  <2>1. TypeOK
    BY TypeInit DEF ServiceInit
  <2>2. HandlerOK
    BY ServiceAssumption DEF ServiceInit, HandlerOK, Stages
  <2>3. VmrestOK
    BY DEF ServiceInit, VmrestOK, V!TypeOK, V!Up
  <2> QED BY <2>1, <2>2, <2>3 DEF ServiceInv
<1>2. ServiceInv /\ [ServiceNext]_serviceVars => ServiceInv'
  <2> SUFFICES ASSUME ServiceInv, [ServiceNext]_serviceVars PROVE ServiceInv'
    OBVIOUS
  <2>1. TypeOK'
    BY StepMaps, TypeStep DEF ServiceInv
  <2>2. CASE ServiceNext
    BY <2>1, <2>2, HandlerStep, VmrestStep DEF ServiceInv
  <2>3. CASE UNCHANGED serviceVars
    BY <2>1, <2>3 DEF ServiceInv, HandlerOK, VmrestOK, V!TypeOK, V!Up, serviceVars,
                      vars, vmrestVars, handlerVars, process
  <2> QED BY <2>2, <2>3
<1> QED BY <1>1, <1>2, PTL DEF ServiceSpec

\* Types, and that a handler which wants something of vmrest holds netLock,
\* which is free when nobody handles a request behind it.
THEOREM ServiceTypeCorrect == ServiceSpec => []ServiceTypeOK
<1>1. ServiceInv => ServiceTypeOK
  BY DEF ServiceInv, HandlerOK, VmrestOK, Stages, ServiceTypeOK
<1> QED BY <1>1, ServiceInvariance, PTL

\* Whatever vmrest and its callers were doing when the signal came: if nobody
\* asks for vmrest from then on, the process leaves none behind.
THEOREM ServiceLeavesNone == ServiceSpec => []VmrestGone
<1>1. ServiceInv => VmrestGone
  BY DEF ServiceInv, VmrestOK, VmrestGone
<1> QED BY <1>1, ServiceInvariance, PTL

\* However many requests ask for vmrest and however often it dies: the process
\* runs it at most once, and where Cleanup looks for it.
THEOREM ServiceRunsOneVmrest == ServiceSpec => []V!OnlyCommandRuns
<1>1. ServiceInv => V!OnlyCommandRuns
  BY DEF ServiceInv, VmrestOK, V!OnlyCommandRuns
<1> QED BY <1>1, ServiceInvariance, PTL

==============================================================================
