------------------------------ MODULE VmService ------------------------------
(***************************************************************************)
(* What the front ends promise about the virtual machines of one host:     *)
(* every request is answered as if it had been carried out at one instant  *)
(* between its arrival and its answer.  A request is "pending" from        *)
(* arrival to answer, and `answer` is what has been decided for it.        *)
(*                                                                         *)
(* Vmrun, the model of the VmrunExe type with its locks, caches and        *)
(* external commands, is checked against this module.                      *)
(***************************************************************************)

CONSTANTS Clients,      \* concurrent requesters
          Uuids,        \* identifiers VMware may give to machines
          Names,        \* display names
          Template,     \* the machine new ones are cloned from
          Autostart,    \* machines whose vmx says autostart
          Ops,          \* the operations clients ask for
          NoName,       \* the name of a machine that never existed
          Faults        \* TRUE: an external call may fail for its own reasons

VARIABLES live,         \* the machines that exist
          vmname,       \* the display name of every machine that ever existed
          running,      \* the machines that are powered on
          pending,      \* per client, its request, or NoRequest
          answer        \* per client, what was decided, or "none"

vars == <<live, vmname, running, pending, answer>>

NoRequest == [op |-> "idle", target |-> Template, wanted |-> NoName]

Requests == [op : Ops, target : Uuids, wanted : Names \cup {NoName}]

Answers == {"none", "ok", "on", "off", "created", "missing", "refused", "failed"}

Taken(n) == \E u \in live : vmname[u] = n

Init ==
  /\ live \in SUBSET Uuids
  /\ vmname \in [Uuids -> Names \cup {NoName}]
  /\ \A u \in live : vmname[u] # NoName
  /\ \A u, v \in live : vmname[u] = vmname[v] => u = v
  /\ running \in SUBSET live
  /\ pending = [c \in Clients |-> NoRequest]
  /\ answer = [c \in Clients |-> "none"]

(***************************************************************************)
(* Requests arrive and leave.                                              *)
(***************************************************************************)
Request(c) ==
  /\ pending[c] = NoRequest
  /\ pending'[c] \in Requests
  /\ pending' = [pending EXCEPT ![c] = pending'[c]]
  /\ UNCHANGED <<live, vmname, running, answer>>

Return(c) ==
  /\ answer[c] \notin {"none", "created"}
  /\ pending' = [pending EXCEPT ![c] = NoRequest]
  /\ answer' = [answer EXCEPT ![c] = "none"]
  /\ UNCHANGED <<live, vmname, running>>

(***************************************************************************)
(* A request is decided, with its whole effect on the machines.            *)
(***************************************************************************)
Decide(c, o, a) ==
  /\ pending[c].op = o
  /\ answer[c] = "none"
  /\ answer' = [answer EXCEPT ![c] = a]
  /\ UNCHANGED pending

\* A new machine gets a name no existing machine has.
Create(c, u) ==
  /\ Decide(c, "Create", "created")
  /\ ~ Taken(pending[c].wanted)
  /\ Template \in live
  /\ u \notin live /\ vmname[u] = NoName
  /\ live' = live \cup {u}
  /\ vmname' = [vmname EXCEPT ![u] = pending[c].wanted]
  /\ UNCHANGED running

\* A machine that was created may still fail to be prepared.
Created(c) ==
  /\ answer[c] = "created"
  /\ \E a \in {"ok", "failed"} : answer' = [answer EXCEPT ![c] = a]
  /\ UNCHANGED <<live, vmname, running, pending>>

CreateRefused(c) ==
  /\ Decide(c, "Create", "refused")
  /\ Taken(pending[c].wanted)
  /\ UNCHANGED <<live, vmname, running>>

\* Only a stopped machine is deleted.
Delete(c) ==
  LET u == pending[c].target IN
  /\ Decide(c, "Delete", "ok")
  /\ u \in live \ running
  /\ live' = live \ {u}
  /\ UNCHANGED <<vmname, running>>

DeleteRefused(c) ==
  /\ Decide(c, "Delete", "refused")
  /\ pending[c].target \in running
  /\ UNCHANGED <<live, vmname, running>>

\* After a successful power on the machine runs, whether or not it already did.
PowerOn(c) ==
  /\ Decide(c, "PowerOn", "ok")
  /\ pending[c].target \in live
  /\ running' = running \cup {pending[c].target}
  /\ UNCHANGED <<live, vmname>>

\* After a successful power off, or guest shutdown, it does not.
PowerOff(c) ==
  /\ \E o \in {"PowerOff", "ShutdownGuest"} : Decide(c, o, "ok")
  /\ running' = running \ {pending[c].target}
  /\ UNCHANGED <<live, vmname>>

PowerState(c) ==
  LET u == pending[c].target IN
  /\ Decide(c, "PowerState", IF u \in running THEN "on" ELSE "off")
  /\ UNCHANGED <<live, vmname, running>>

\* By name, the state of one of the machines that bore the name.
ByName(c) ==
  /\ \E u \in Uuids :
       /\ vmname[u] = pending[c].wanted
       /\ Decide(c, "ByName", IF u \in running THEN "on" ELSE "off")
  /\ UNCHANGED <<live, vmname, running>>

List(c) ==
  /\ Decide(c, "List", "ok")
  /\ UNCHANGED <<live, vmname, running>>

\* "missing" is said of machines that do not exist, unless a call failed.
Missing(c) ==
  /\ \E o \in Ops \ {"List"} : Decide(c, o, "missing")
  /\ \/ Faults
     \/ CASE pending[c].op = "Create" -> Template \notin live
          [] pending[c].op = "ByName" -> ~ Taken(pending[c].wanted)
          [] OTHER                    -> pending[c].target \notin live
  /\ UNCHANGED <<live, vmname, running>>

\* An operation that had to run a command may find the machine changed.
Failed(c) ==
  /\ \E o \in Ops : Decide(c, o, "failed")
  /\ \/ Faults
     \/ pending[c].op \in {"Create", "List"}
     \/ pending[c].target \notin live
     \/ pending[c].op \in {"PowerOff", "ShutdownGuest"} /\ pending[c].target \notin running
  /\ UNCHANGED <<live, vmname, running>>

(***************************************************************************)
(* What happens without any request.                                       *)
(***************************************************************************)
GuestHalts(u) ==
  /\ u \in running
  /\ running' = running \ {u}
  /\ UNCHANGED <<live, vmname, pending, answer>>

RemovedOutside(u) ==
  /\ u \in live \ running
  /\ live' = live \ {u}
  /\ UNCHANGED <<vmname, running, pending, answer>>

AddedOutside(u, n) ==
  /\ vmname[u] = NoName /\ ~ Taken(n)
  /\ live' = live \cup {u}
  /\ vmname' = [vmname EXCEPT ![u] = n]
  /\ UNCHANGED <<running, pending, answer>>

\* The service starts: nobody is connected, and autostart machines start.
Boot ==
  /\ \A c \in Clients : pending[c] = NoRequest
  /\ \E s \in SUBSET (Autostart \cap live) : running' = running \cup s
  /\ UNCHANGED <<live, vmname, pending, answer>>

\* The service dies: requests are lost, machines are not.
Crash ==
  /\ pending' = [c \in Clients |-> NoRequest]
  /\ answer' = [c \in Clients |-> "none"]
  /\ UNCHANGED <<live, vmname, running>>

Decision(c) ==
  \/ (\E u \in Uuids : Create(c, u)) \/ Created(c) \/ CreateRefused(c)
  \/ Delete(c) \/ DeleteRefused(c)
  \/ PowerOn(c) \/ PowerOff(c)
  \/ PowerState(c) \/ ByName(c) \/ List(c)
  \/ Missing(c) \/ Failed(c)

Next ==
  \/ \E c \in Clients : Request(c) \/ Decision(c) \/ Return(c)
  \/ \E u \in Uuids : GuestHalts(u) \/ RemovedOutside(u)
  \/ \E u \in Uuids, n \in Names : AddedOutside(u, n)
  \/ Boot \/ Crash

Spec == Init /\ [][Next]_vars
==============================================================================
