-------------------------------- MODULE Waits --------------------------------
(***************************************************************************)
(* The operations that wait for the guest of a machine: WaitForIP and      *)
(* WaitForToolsRunning poll it with PollImmediate, behind netLock if the   *)
(* request came in through the REST router, while the guest boots, halts   *)
(* and is powered off.  All requests are about one machine, and share its  *)
(* cached object.                                                          *)
(***************************************************************************)
EXTENDS Integers

CONSTANTS Clients,
          RestClients, \* those that come in through the REST router
          Timeouts,    \* in intervals of PollImmediate; 0 is for ever
          Nobody

ASSUME WaitsAssumption ==
  RestClients \subseteq Clients /\ Timeouts \subseteq Nat /\ Nobody \notin Clients

VARIABLES
  guest,       \* the machine: "off", "boot", "installed", "running", "address"
  toolsStatus, \* the field ToolsStatus of the cached object
  netLock,     \* who holds it
  pc, op,      \* of each request
  left,        \* the intervals a wait has left
  seen,        \* what the guest answered
  answer,      \* what the request was answered
  ran          \* history: the tools were running at some time of the request

vars == <<guest, toolsStatus, netLock, pc, op, left, seen, answer, ran>>

Ops == {"WaitForIP", "WaitForToolsRunning", "PowerOff"}

Guests == {"off", "boot", "installed", "running", "address"}

ToolsRun(g) == g \in {"running", "address"}

ToolsOf(g) == IF ToolsRun(g) THEN "running" ELSE IF g = "installed" THEN g ELSE "unknown"

ToolsStates == {"unknown", "installed", "running"}

\* The labels of VirtualMachineByUUID, and of the rounds of a wait.
Looking == {"lookup", "found", "refresh"}
Polling == {"query", "check", "store", "read", "sleep"}

Init ==
  /\ guest \in Guests
  /\ toolsStatus = "unknown"
  /\ netLock = Nobody
  /\ pc = [c \in Clients |-> "idle"] /\ op \in [Clients -> {"PowerOff"}]
  /\ left = [c \in Clients |-> 0]
  /\ seen = [c \in Clients |-> "unknown"]
  /\ answer = [c \in Clients |-> "none"]
  /\ ran = [c \in Clients |-> FALSE]

Step(c, from, to) == pc[c] = from /\ pc' = [pc EXCEPT ![c] = to]

\* The deferred unlock, and the response.
Answer(c, a) ==
  /\ pc' = [pc EXCEPT ![c] = "idle"]
  /\ answer' = [answer EXCEPT ![c] = a]
  /\ netLock' = IF netLock = c THEN Nobody ELSE netLock

(***************************************************************************)
(* The guest.                                                              *)
(***************************************************************************)
GuestIs(g) ==
  /\ guest' = g
  /\ ran' = [c \in Clients |-> ran[c] \/ ToolsRun(g)]

\* It boots, its tools are found, they run, it has an address; it may be
\* started and may halt at any time.
GuestSteps ==
  /\ \/ guest = "off" /\ GuestIs("boot")
     \/ guest = "boot" /\ GuestIs("installed")
     \/ guest = "installed" /\ GuestIs("running")
     \/ guest = "running" /\ GuestIs("address")
     \/ guest # "off" /\ GuestIs("off")
  /\ UNCHANGED <<toolsStatus, netLock, pc, op, left, seen, answer>>

(***************************************************************************)
(* Requests.                                                               *)
(***************************************************************************)
Invoke(c) ==
  /\ \E o \in Ops, t \in Timeouts :
       /\ op' = [op EXCEPT ![c] = o]
       /\ left' = [left EXCEPT ![c] = t]
  /\ Step(c, "idle", IF c \in RestClients THEN "net" ELSE "lookup")
  /\ ran' = [ran EXCEPT ![c] = ToolsRun(guest)]
  /\ answer' = [answer EXCEPT ![c] = "none"]
  /\ seen' = [seen EXCEPT ![c] = "unknown"]
  /\ UNCHANGED <<guest, toolsStatus, netLock>>

\* Variant: the handlers of the waits do not lock.
AcquireNetShared(c) ==
  /\ Step(c, "net", "lookup")
  /\ UNCHANGED <<guest, toolsStatus, netLock, op, left, seen, answer, ran>>

AcquireNet(c) ==
  /\ netLock = Nobody /\ netLock' = c
  /\ Step(c, "net", "lookup")
  /\ UNCHANGED <<guest, toolsStatus, op, left, seen, answer, ran>>

\* VirtualMachineByUUID, which may fail, up to the assignment of Powered; of a
\* machine that is off it needs to ask no more.
Lookup(c) ==
  /\ pc[c] = "lookup"
  /\ UNCHANGED <<guest, op, left, seen, ran>>
  /\ \/ Answer(c, "error") /\ UNCHANGED toolsStatus
     \/ /\ guest = "off" /\ toolsStatus' = "notrunning"
        /\ Answer(c, IF op[c] = "PowerOff" THEN "done" ELSE "error")
     \/ /\ guest # "off"
        /\ pc' = [pc EXCEPT ![c] = "found"]
        /\ UNCHANGED <<toolsStatus, netLock, answer>>

\* vmwareToolsStatus, in the lookup and in every round of WaitForToolsRunning:
\* an address means that the tools run, otherwise vmrun checkToolsState tells,
\* whose exit code is ignored.
AskTools(c) ==
  /\ \/ Step(c, "found", "refresh")
     \/ op[c] = "WaitForToolsRunning" /\ Step(c, "query", "store")
  /\ \E s \in {"unknown", ToolsOf(guest)} : seen' = [seen EXCEPT ![c] = s]
  /\ UNCHANGED <<guest, toolsStatus, netLock, op, left, answer, ran>>

Stored(c) ==
  /\ \/ Step(c, "refresh", IF op[c] = "PowerOff" THEN "stop" ELSE "query")
     \/ Step(c, "store", "read")
  /\ UNCHANGED <<guest, netLock, op, left, seen, answer, ran>>

\* Variant: an answer that says nothing is not stored.
StoreIfKnown(c) ==
  /\ Stored(c)
  /\ toolsStatus' = IF seen[c] = "unknown" THEN toolsStatus ELSE seen[c]

StoreToolsStatus(c) == Stored(c) /\ toolsStatus' = seen[c]

\* vmrun stop.
PowerOff(c) ==
  /\ pc[c] = "stop"
  /\ \/ GuestIs("off") /\ Answer(c, "done")
     \/ Answer(c, "error") /\ UNCHANGED <<guest, ran>>
  /\ UNCHANGED <<toolsStatus, op, left, seen>>

\* Variant: 0 is a time like any other.
AgainCounting(c) ==
  IF left[c] = 1
  THEN Answer(c, "timeout") /\ UNCHANGED left
  ELSE /\ pc' = [pc EXCEPT ![c] = "sleep"]
       /\ left' = [left EXCEPT ![c] = @ - 1]
       /\ UNCHANGED <<netLock, answer>>

\* Variant: the time is never up.
AgainForever(c) ==
  /\ pc' = [pc EXCEPT ![c] = "sleep"]
  /\ UNCHANGED <<netLock, answer, left>>

\* Another round, unless the time is up; the count is 0 for no limit at all,
\* and 1 in the last round.
Again(c) ==
  IF left[c] = 1
  THEN Answer(c, "timeout") /\ UNCHANGED left
  ELSE /\ pc' = [pc EXCEPT ![c] = "sleep"]
       /\ left' = [left EXCEPT ![c] = IF @ = 0 THEN 0 ELSE @ - 1]
       /\ UNCHANGED <<netLock, answer>>

\* client.GetIPAddress, which may fail.
GetIPAddress(c) ==
  /\ pc[c] = "query" /\ op[c] = "WaitForIP"
  /\ UNCHANGED <<guest, toolsStatus, op, left, seen, ran>>
  /\ \/ guest = "address" /\ Answer(c, "address")
     \/ pc' = [pc EXCEPT ![c] = "check"] /\ UNCHANGED <<netLock, answer>>

\* vmrun getGuestIPAddress: "unable to get the address" and "the tools are not
\* running" mean another round.
GetGuestIPAddress(c) ==
  /\ pc[c] = "check"
  /\ UNCHANGED <<guest, toolsStatus, op, seen, ran>>
  /\ \/ guest = "address" /\ Answer(c, "address") /\ UNCHANGED left
     \/ guest # "address" /\ Again(c)
     \/ Answer(c, "error") /\ UNCHANGED left

ReadToolsStatus(c) ==
  /\ pc[c] = "read"
  /\ UNCHANGED <<guest, toolsStatus, op, seen, ran>>
  /\ \/ toolsStatus = "running" /\ Answer(c, "running") /\ UNCHANGED left
     \/ toolsStatus = "installed" /\ Again(c)
     \/ toolsStatus \in {"unknown", "notrunning"} /\ Answer(c, "error") /\ UNCHANGED left

Wake(c) ==
  /\ Step(c, "sleep", "query")
  /\ UNCHANGED <<guest, toolsStatus, netLock, op, left, seen, answer, ran>>

Past(c) ==
  \/ Lookup(c) \/ AskTools(c) \/ StoreToolsStatus(c) \/ PowerOff(c)
  \/ GetIPAddress(c) \/ GetGuestIPAddress(c) \/ ReadToolsStatus(c) \/ Wake(c)

Next ==
  \/ GuestSteps
  \/ \E c \in Clients : Invoke(c) \/ AcquireNet(c) \/ Past(c)

Spec == Init /\ [][Next]_vars

\* External calls return, timers fire, and a mutex in starvation mode goes to
\* the one who waits longest.  Guests and callers need not do anything.
FairSpec == Spec /\ \A c \in Clients : SF_vars(AcquireNet(c)) /\ WF_vars(Past(c))
------------------------------------------------------------------------------
(***************************************************************************)
(* Properties.                                                             *)
(***************************************************************************)

\* Every variable has its type; a request that polls is a wait.
TypeOK ==
  /\ guest \in Guests
  /\ toolsStatus \in ToolsStates \cup {"notrunning"}
  /\ netLock \in Clients \cup {Nobody}
  /\ pc \in [Clients -> {"idle", "net", "stop"} \cup Looking \cup Polling]
  /\ op \in [Clients -> Ops]
  /\ left \in [Clients -> Nat]
  /\ seen \in [Clients -> ToolsStates]
  /\ answer \in [Clients -> {"none", "error", "done", "timeout", "address", "running"}]
  /\ ran \in [Clients -> BOOLEAN]
  /\ \A c \in Clients : pc[c] \in Polling => op[c] # "PowerOff"

\* "running" is only answered if the tools were running while the request was
\* waiting: it is not what the field was left with by an earlier wait, or is
\* given by another one.
RunningIsNews ==
  \A c \in Clients : answer[c] = "running" => ran[c]

\* A machine is not powered off under a wait of another REST request.
WaitsUndisturbed ==
  [][\A c, d \in RestClients : PowerOff(c) => pc[d] \notin Polling]_vars

\* Every request is answered, unless a wait without a limit is never over.
OnlyUnlimitedWaitsBlock ==
  \/ <>[](\E d \in Clients : pc[d] \in Polling /\ left[d] = 0)
  \/ \A c \in Clients : pc[c] # "idle" ~> pc[c] = "idle"
==============================================================================
