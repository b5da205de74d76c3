-------------------------------- MODULE Vmrun --------------------------------
(***************************************************************************)
(* The VmrunExe type of service/vmrun.go under its front ends: requests    *)
(* that run concurrently, the machine mutex, the network lock of the REST  *)
(* router, two of the three caches, and VMware itself behind the vmrest    *)
(* API and the vmrun command, which other people use too.                  *)
(*                                                                         *)
(* One action is one call to the outside, one access to a cache, or one    *)
(* access to the Powered field of a cached machine: between two of them    *)
(* any other request may run.  A cached machine is a pointer; an object    *)
(* <<u, g>> is the g-th machine structure built for the identifier u, and  *)
(* `powered` is the set of objects whose Powered field is true.            *)
(***************************************************************************)
EXTENDS Naturals, FiniteSets

CONSTANTS
  Clients,      \* requests in progress at one time, at most
  RestClients,  \* those that come in through the REST router; others use gRPC
  Uuids,        \* identifiers VMware may give to machines
  Names,        \* display names
  Template,     \* the machine that Create clones
  Autostart,    \* machines whose vmx says autostart
  Ops,          \* the operations that clients ask for
  Gens,         \* how many structures may be in use for one machine
  Faults,       \* TRUE: vmrest and vmrun may fail for reasons of their own
  Additions,    \* TRUE: machines are also added outside the service
  NoName, NoObj, NoClient

Serialised == {"Create", "Delete", "PowerOn", "PowerOff", "ShutdownGuest"}
Unlocked   == {"PowerState", "ByName"}

ASSUME VmrunAssumption ==
  /\ RestClients \subseteq Clients
  /\ Template \in Uuids
  /\ Autostart \subseteq Uuids
  /\ Ops \subseteq Serialised \cup Unlocked \cup {"List"}
  /\ Faults \in BOOLEAN /\ Additions \in BOOLEAN
  /\ NoName \notin Names
  /\ NoClient \notin Clients
  /\ NoObj \notin Uuids \X Gens

VARIABLES
  live, vmname, running,          \* VMware: machines, their names, the running
  byuuid, byname, powered,        \* the caches and the objects they point to
  mutex, netLock,                 \* who holds VmrunExe.Mutex and netLock
  todo, built,                    \* registeredVM: what is left to fetch, fetched
  serving,                        \* the front ends accept requests
  pc, op, target, wanted,         \* per client: where, what, on which machine
  vm, seen, res                   \* per client: pointer, listing, answer

world  == <<live, vmname, running>>
cache  == <<byuuid, byname, powered>>
locks  == <<mutex, netLock>>
scan   == <<todo, built>>
asked  == <<op, target, wanted>>
local  == <<pc, op, target, wanted, vm, seen, res>>
vars   == <<live, vmname, running, byuuid, byname, powered, mutex, netLock,
            todo, built, serving, pc, op, target, wanted, vm, seen, res>>

Objs == Uuids \X Gens

Labels == {"idle", "net", "mutex", "lookup", "exists", "evict", "list", "assign",
           "fetch", "publish", "use", "delete", "forget", "start", "stop", "mark",
           "clone", "prepare", "getall", "scan", "collect", "done"}

UuidOf(o) == o[1]
NameOf(o) == vmname[UuidOf(o)]
Taken(n)  == \E u \in live : vmname[u] = n

(***************************************************************************)
(* Pointers.  An object that nothing points to is collected: its fields    *)
(* are gone, and it can be built again.                                    *)
(***************************************************************************)
Referenced ==
  ({byuuid[u] : u \in Uuids} \cup {byname[n] : n \in Names}
     \cup {vm[c] : c \in Clients} \cup built) \ {NoObj}

Collected(p) == powered' = p \cap Referenced'

Free(u) == {o \in Objs : UuidOf(o) = u /\ o \notin Referenced}

Fresh(u) == CHOOSE o \in Free(u) : TRUE

\* What fetchVM builds: the Powered field is what "vmrun list" says now.
Fetched(o) == IF UuidOf(o) \in running THEN powered \cup {o} ELSE powered \ {o}

\* The three maps registeredVM builds; of two machines with one name, either.
ByUuidOf(objs) ==
  [u \in Uuids |-> IF \E o \in objs : UuidOf(o) = u
                   THEN CHOOSE o \in objs : UuidOf(o) = u ELSE NoObj]

ByNamesOf(objs) ==
  {f \in [Names -> objs \cup {NoObj}] :
     \A n \in Names : IF \E o \in objs : NameOf(o) = n
                      THEN f[n] # NoObj /\ NameOf(f[n]) = n
                      ELSE f[n] = NoObj}

(***************************************************************************)
(* Moves of a client.                                                      *)
(***************************************************************************)
Goto(c, l) == pc' = [pc EXCEPT ![c] = l]

Finish(c, r) == Goto(c, "done") /\ res' = [res EXCEPT ![c] = r]

\* Variant: Create does not mind a name that is taken.
FoundUnchecked(c) ==
  IF op[c] = "Create"
  THEN pc' = [pc EXCEPT ![c] = "clone"] /\ UNCHANGED res
  ELSE Goto(c, IF op[c] = "CreateFrom" THEN "clone"
               ELSE IF op[c] = "CreateNew" THEN "prepare" ELSE "use") /\ UNCHANGED res

\* A lookup succeeded: VirtualMachineByUUID or VirtualMachineByName returns vm.
Found(c) ==
  CASE op[c] = "Create"     -> Finish(c, "refused")
    [] op[c] = "CreateFrom" -> Goto(c, "clone")   /\ UNCHANGED res
    [] op[c] = "CreateNew"  -> Goto(c, "prepare") /\ UNCHANGED res
    [] OTHER                -> Goto(c, "use")     /\ UNCHANGED res

\* A lookup failed, whatever the error: Create takes the name to be free.
Missed(c) ==
  /\ vm' = [vm EXCEPT ![c] = NoObj]
  /\ UNCHANGED <<target, wanted>>
  /\ CASE op[c] = "Create" ->
            /\ op' = [op EXCEPT ![c] = "CreateFrom"]
            /\ Goto(c, "lookup") /\ UNCHANGED res
       [] op[c] = "CreateNew" -> Finish(c, "failed") /\ UNCHANGED op
       [] OTHER               -> Finish(c, "missing") /\ UNCHANGED op

ByNameOp(c) == op[c] \in {"Create", "ByName"}

Init ==
  /\ live \in SUBSET Uuids
  /\ vmname \in [Uuids -> Names \cup {NoName}]
  /\ \A u \in Uuids : vmname[u] # NoName <=> u \in live
  /\ \A u, v \in live : vmname[u] = vmname[v] => u = v
  /\ running \in SUBSET live
  /\ byuuid = [u \in Uuids |-> NoObj]
  /\ byname = [n \in Names |-> NoObj]
  /\ powered = {}
  /\ mutex = NoClient /\ netLock = NoClient
  /\ todo = {} /\ built = {}
  /\ serving = FALSE
  /\ pc = [c \in Clients |-> "idle"]
  /\ op = [c \in Clients |-> "none"]
  /\ target = [c \in Clients |-> Template]
  /\ wanted = [c \in Clients |-> NoName]
  /\ vm = [c \in Clients |-> NoObj]
  /\ seen = [c \in Clients |-> "none"]
  /\ res = [c \in Clients |-> "none"]

(***************************************************************************)
(* The REST front end starts the autostart machines before it listens; the *)
(* gRPC front end alone does not.  A failed listing starts nothing; a      *)
(* machine that fails to start does not keep the others from starting.     *)
(***************************************************************************)
StartAutostartVM ==
  /\ ~ serving
  /\ serving' = TRUE
  /\ \/ /\ RestClients # {}
        /\ \A u \in live : Free(u) # {}
        /\ LET objs == {Fresh(u) : u \in live}
               stopped == (live \cap Autostart) \ running
           IN /\ byuuid' = ByUuidOf(objs)
              /\ byname' \in ByNamesOf(objs)
              /\ \E s \in SUBSET stopped :
                   /\ Faults \/ s = stopped
                   /\ running' = running \cup s
                   /\ powered' = {o \in objs : UuidOf(o) \in running'}
     \/ /\ RestClients = {} \/ Faults
        /\ UNCHANGED <<byuuid, byname, powered, running>>
  /\ UNCHANGED <<live, vmname, locks, scan, local>>

\* The error of GetVMParams is dropped and param.Value read all the same: the
\* nil pointer ends the process before it listens, at a machine u that is off,
\* with some of the others started.
AutostartPanics ==
  /\ ~ serving /\ RestClients # {} /\ Faults
  /\ \E u \in live \ running :
       \E s \in SUBSET ((live \cap Autostart) \ (running \cup {u})) :
         running' = running \cup s
  /\ UNCHANGED <<live, vmname, cache, locks, scan, serving, local>>

(***************************************************************************)
(* A request arrives.  Create names the machine it wants and is always     *)
(* made from the same template; other requests name one machine.           *)
(***************************************************************************)
Invoke(c) ==
  /\ serving /\ pc[c] = "idle"
  /\ \E o \in Ops, u \in Uuids, n \in Names \cup {NoName} :
       /\ o \in {"Create", "ByName"} <=> n # NoName
       /\ o \in {"Create", "ByName", "List"} => u = Template
       /\ op' = [op EXCEPT ![c] = o]
       /\ target' = [target EXCEPT ![c] = u]
       /\ wanted' = [wanted EXCEPT ![c] = n]
       /\ Goto(c, IF c \in RestClients THEN "net"
                  ELSE IF o \in Unlocked THEN "lookup" ELSE "mutex")
  /\ UNCHANGED <<world, cache, locks, scan, serving, vm, seen, res>>

\* Variant: a handler that does not take netLock.
AcquireNetShared(c) ==
  /\ pc[c] = "net"
  /\ Goto(c, IF op[c] \in Unlocked THEN "lookup" ELSE "mutex")
  /\ UNCHANGED <<world, cache, locks, scan, serving, asked, vm, seen, res>>

AcquireNet(c) ==
  /\ pc[c] = "net" /\ netLock = NoClient
  /\ netLock' = c
  /\ Goto(c, IF op[c] \in Unlocked THEN "lookup" ELSE "mutex")
  /\ UNCHANGED <<world, cache, mutex, scan, serving, asked, vm, seen, res>>

\* Variant: operations that do not take the machine mutex.
AcquireMutexShared(c) ==
  /\ pc[c] = "mutex"
  /\ Goto(c, IF op[c] = "List" THEN "getall" ELSE "lookup")
  /\ UNCHANGED <<world, cache, locks, scan, serving, asked, vm, seen, res>>

AcquireMutex(c) ==
  /\ pc[c] = "mutex" /\ mutex = NoClient
  /\ mutex' = c
  /\ Goto(c, IF op[c] = "List" THEN "getall" ELSE "lookup")
  /\ UNCHANGED <<world, cache, netLock, scan, serving, asked, vm, seen, res>>

Reset(c) ==
  /\ Goto(c, "idle")
  /\ op' = [op EXCEPT ![c] = "none"]
  /\ target' = [target EXCEPT ![c] = Template]
  /\ wanted' = [wanted EXCEPT ![c] = NoName]
  /\ vm' = [vm EXCEPT ![c] = NoObj]
  /\ seen' = [seen EXCEPT ![c] = "none"]
  /\ res' = [res EXCEPT ![c] = "none"]

\* Variant: every request unlocks the mutex, held or not.
DoneUnlocksAll(c) ==
  /\ pc[c] = "done"
  /\ Reset(c)
  /\ mutex' = NoClient
  /\ netLock' = IF netLock = c THEN NoClient ELSE netLock
  /\ UNCHANGED <<world, byuuid, byname, scan, serving>>
  /\ Collected(powered)

\* Variant: an error path returns without unlocking netLock.
DoneKeepsNetLock(c) ==
  /\ pc[c] = "done"
  /\ Reset(c)
  /\ mutex' = IF mutex = c THEN NoClient ELSE mutex
  /\ netLock' = IF netLock = c /\ res[c] # "failed" THEN NoClient ELSE netLock
  /\ UNCHANGED <<world, byuuid, byname, scan, serving>>
  /\ Collected(powered)

\* The answer leaves; deferred unlocks have run.
Done(c) ==
  /\ pc[c] = "done"
  /\ Reset(c)
  /\ mutex' = IF mutex = c THEN NoClient ELSE mutex
  /\ netLock' = IF netLock = c THEN NoClient ELSE netLock
  /\ UNCHANGED <<world, byuuid, byname, scan, serving>>
  /\ Collected(powered)

(***************************************************************************)
(* VirtualMachineByUUID and VirtualMachineByName.  The REST handler of     *)
(* ByName then looks the machine it found up by its identifier, in Status, *)
(* which does to the caches what a PowerState request of the same client   *)
(* does when it comes next; that Status fails, and the answer is 500, is   *)
(* left out.                                                               *)
(***************************************************************************)
Lookup(c) ==
  /\ pc[c] = "lookup"
  /\ LET o == IF ByNameOp(c) THEN byname[wanted[c]] ELSE byuuid[target[c]]
     IN /\ vm' = [vm EXCEPT ![c] = o]
        /\ Goto(c, IF o = NoObj THEN "fetch" ELSE "exists")
        /\ UNCHANGED <<world, byuuid, byname, locks, scan, serving, asked, seen, res>>
  /\ Collected(powered)

\* Variant: a machine that is not running counts as gone.
StillExistsIfOn(c) ==
  /\ pc[c] = "exists"
  /\ IF UuidOf(vm[c]) \in running THEN Goto(c, "list") ELSE Goto(c, "evict")
  /\ UNCHANGED <<world, cache, locks, scan, serving, asked, vm, seen, res>>

\* Variant: the cached power state is used as it is.
StillExistsTrusting(c) ==
  /\ pc[c] = "exists"
  /\ IF UuidOf(vm[c]) \in live
     THEN Goto(c, "assign") /\ seen' = [seen EXCEPT ![c] = IF vm[c] \in powered THEN "on" ELSE "off"]
     ELSE Goto(c, "evict") /\ UNCHANGED seen
  /\ UNCHANGED <<world, cache, locks, scan, serving, asked, vm, res>>

\* Any error of GetVM counts as "it is gone".
StillExists(c) ==
  /\ pc[c] = "exists"
  /\ \/ UuidOf(vm[c]) \in live /\ Goto(c, "list")
     \/ (UuidOf(vm[c]) \notin live \/ Faults) /\ Goto(c, "evict")
  /\ UNCHANGED <<world, cache, locks, scan, serving, asked, vm, seen, res>>

\* deleteCachedVM removes the keys, whatever they point to by now.
Forgotten(o) ==
  /\ byuuid' = [byuuid EXCEPT ![UuidOf(o)] = NoObj]
  /\ byname' = [n \in Names |-> IF n = NameOf(o) THEN NoObj ELSE byname[n]]

Evict(c) ==
  /\ pc[c] = "evict"
  /\ Forgotten(vm[c])
  /\ Missed(c)
  /\ UNCHANGED <<world, locks, scan, serving, seen>>
  /\ Collected(powered)

ListRunning(c) ==
  /\ pc[c] = "list"
  /\ \/ seen' = [seen EXCEPT ![c] = IF UuidOf(vm[c]) \in running THEN "on" ELSE "off"]
     \/ Faults /\ seen' = [seen EXCEPT ![c] = "error"]
  /\ Goto(c, "assign")
  /\ UNCHANGED <<world, cache, locks, scan, serving, asked, vm, res>>

\* foundVM.Powered is assigned before the error is looked at.
AssignPowered(c) ==
  LET p == IF seen[c] = "on" THEN powered \cup {vm[c]} ELSE powered \ {vm[c]} IN
  /\ pc[c] = "assign"
  /\ \/ seen[c] # "error" /\ Found(c) /\ UNCHANGED <<asked, vm>>
     \/ seen[c] = "error" /\ Missed(c)
  /\ UNCHANGED <<world, byuuid, byname, locks, scan, serving, seen>>
  /\ Collected(p)

\* fetchAndCacheVM and findVM, up to the new structure.
Fetch(c) ==
  /\ pc[c] = "fetch"
  /\ LET there == {u \in live : IF ByNameOp(c) THEN vmname[u] = wanted[c]
                                              ELSE u = target[c]}
     IN \/ \E u \in there :
             /\ Free(u) # {}
             /\ vm' = [vm EXCEPT ![c] = Fresh(u)]
             /\ powered' = Fetched(Fresh(u))
             /\ seen' = [seen EXCEPT ![c] = IF u \in running THEN "on" ELSE "off"]
             /\ Goto(c, "publish")
             /\ UNCHANGED <<asked, res>>
        \/ /\ there = {} \/ Faults
           /\ Missed(c)
           /\ UNCHANGED <<powered, seen>>
  /\ UNCHANGED <<world, byuuid, byname, locks, scan, serving>>

\* findVM forgets cachebyname; fetchAndCacheVM fills every map.
Publish(c) ==
  /\ pc[c] = "publish"
  /\ byuuid' = [byuuid EXCEPT ![UuidOf(vm[c])] = vm[c]]
  /\ byname' = IF ByNameOp(c) THEN byname
               ELSE [n \in Names |-> IF n = NameOf(vm[c]) THEN vm[c] ELSE byname[n]]
  /\ Found(c)
  /\ UNCHANGED <<world, locks, scan, serving, asked, vm, seen>>
  /\ Collected(powered)

(***************************************************************************)
(* What each operation does with the machine it looked up.                 *)
(***************************************************************************)
IsOn(c) == vm[c] \in powered

\* Variant: Delete without the test of found.Powered.
UseUnguarded(c) ==
  /\ pc[c] = "use" /\ op[c] = "Delete"
  /\ Goto(c, "delete")
  /\ UNCHANGED <<world, cache, locks, scan, serving, asked, vm, seen, res>>

Use(c) ==
  /\ pc[c] = "use"
  /\ \/ /\ op[c] \in Unlocked
        /\ Finish(c, IF IsOn(c) THEN "on" ELSE "off")
     \/ /\ op[c] = "Delete"
        /\ IF IsOn(c) THEN Finish(c, "refused") ELSE Goto(c, "delete") /\ UNCHANGED res
     \/ /\ op[c] = "PowerOn"
        /\ IF IsOn(c) THEN Finish(c, "ok") ELSE Goto(c, "start") /\ UNCHANGED res
     \/ /\ op[c] \in {"PowerOff", "ShutdownGuest"}
        /\ IF IsOn(c) THEN Goto(c, "stop") /\ UNCHANGED res ELSE Finish(c, "ok")
  /\ UNCHANGED <<world, cache, locks, scan, serving, asked, vm, seen>>

\* vmrest may or may not refuse to delete a machine that runs.
DeleteVM(c) ==
  LET u == target[c] IN
  /\ pc[c] = "delete"
  /\ \/ /\ u \in live
        /\ live' = live \ {u} /\ running' = running \ {u}
        /\ Goto(c, "forget") /\ res' = [res EXCEPT ![c] = "ok"]
     \/ /\ u \notin live \/ u \in running \/ Faults
        /\ Finish(c, "failed")
        /\ UNCHANGED <<live, running>>
  /\ UNCHANGED <<vmname, cache, locks, scan, serving, asked, vm, seen>>

Forget(c) ==
  /\ pc[c] = "forget"
  /\ Forgotten(vm[c])
  /\ Goto(c, "done")
  /\ UNCHANGED <<world, locks, scan, serving, asked, vm, seen, res>>
  /\ Collected(powered)

\* Variant: a start that does not notice that the machine is gone.
StartBlind(c) ==
  /\ pc[c] = "start"
  /\ running' = running \cup {UuidOf(vm[c])}
  /\ Goto(c, "mark") /\ res' = [res EXCEPT ![c] = "ok"]
  /\ UNCHANGED <<live, vmname, cache, locks, scan, serving, asked, vm, seen>>

Start(c) ==
  LET u == UuidOf(vm[c]) IN
  /\ pc[c] = "start"
  /\ \/ /\ u \in live
        /\ running' = running \cup {u}
        /\ Goto(c, "mark") /\ res' = [res EXCEPT ![c] = "ok"]
     \/ /\ u \notin live \/ u \in running \/ Faults
        /\ Finish(c, "failed")
        /\ UNCHANGED running
  /\ UNCHANGED <<live, vmname, cache, locks, scan, serving, asked, vm, seen>>

\* ShutdownGuest leaves the Powered field alone.
Stop(c) ==
  LET u == UuidOf(vm[c]) IN
  /\ pc[c] = "stop"
  /\ \/ /\ u \in running
        /\ running' = running \ {u}
        /\ Goto(c, IF op[c] = "PowerOff" THEN "mark" ELSE "done")
        /\ res' = [res EXCEPT ![c] = "ok"]
     \/ /\ u \notin running \/ Faults
        /\ Finish(c, "failed")
        /\ UNCHANGED running
  /\ UNCHANGED <<live, vmname, cache, locks, scan, serving, asked, vm, seen>>

\* Both PowerOn and PowerOff end by setting Powered to true.
Mark(c) ==
  /\ pc[c] = "mark"
  /\ Goto(c, "done")
  /\ powered' = powered \cup {vm[c]}
  /\ UNCHANGED <<world, byuuid, byname, locks, scan, serving, asked, vm, seen, res>>

\* CreateVM of vmrest does not look at names.
Clone(c) ==
  /\ pc[c] = "clone"
  /\ \/ /\ Template \in live
        /\ \E u \in Uuids :
             /\ vmname[u] = NoName
             /\ live' = live \cup {u}
             /\ vmname' = [vmname EXCEPT ![u] = wanted[c]]
             /\ target' = [target EXCEPT ![c] = u]
        /\ op' = [op EXCEPT ![c] = "CreateNew"]
        /\ Goto(c, "lookup")
        /\ UNCHANGED res
     \/ /\ Template \notin live \/ Faults \/ \A u \in Uuids : vmname[u] # NoName
        /\ Finish(c, "failed")
        /\ UNCHANGED <<live, vmname, op, target>>
  /\ UNCHANGED <<running, cache, locks, scan, serving, wanted, vm, seen>>

\* prepareVM rewrites the vmx, grows the disk and registers the machine; a
\* failure of any of them leaves the clone behind.
PrepareVM(c) ==
  /\ pc[c] = "prepare"
  /\ \/ UuidOf(vm[c]) \in live /\ Finish(c, "ok")
     \/ (UuidOf(vm[c]) \notin live \/ Faults) /\ Finish(c, "failed")
  /\ UNCHANGED <<world, cache, locks, scan, serving, asked, vm, seen>>

(***************************************************************************)
(* ListVirtualMachines: registeredVM holds the mutex while it fetches      *)
(* every machine, then replaces the maps; the answer is read afterwards.   *)
(***************************************************************************)
GetAllVMs(c) ==
  /\ pc[c] = "getall"
  /\ \/ /\ todo' = live
        /\ Goto(c, "scan")
        /\ UNCHANGED <<mutex, res>>
     \/ /\ Faults
        /\ Finish(c, "failed")
        /\ mutex' = NoClient
        /\ UNCHANGED todo
  /\ UNCHANGED <<world, cache, netLock, built, serving, asked, vm, seen>>

FetchNext(c) ==
  /\ pc[c] = "scan"
  /\ \E u \in todo :
       \/ /\ u \in live /\ Free(u) # {}
          /\ built' = built \cup {Fresh(u)}
          /\ powered' = Fetched(Fresh(u))
          /\ todo' = todo \ {u}
          /\ UNCHANGED <<pc, res, mutex>>
       \/ /\ u \notin live \/ Faults
          /\ built' = {} /\ todo' = {}
          /\ mutex' = NoClient
          /\ powered' = powered \ built
          /\ Finish(c, "failed")
  /\ UNCHANGED <<world, byuuid, byname, netLock, serving, asked, vm, seen>>

Swap(c) ==
  /\ pc[c] = "scan" /\ todo = {}
  /\ byuuid' = ByUuidOf(built)
  /\ byname' \in ByNamesOf(built)
  /\ built' = {}
  /\ mutex' = NoClient
  /\ Goto(c, "collect")
  /\ UNCHANGED <<world, netLock, todo, serving, asked, vm, seen, res>>
  /\ Collected(powered)

Collect(c) ==
  /\ pc[c] = "collect"
  /\ Finish(c, "ok")
  /\ UNCHANGED <<world, cache, locks, scan, serving, asked, vm, seen>>

(***************************************************************************)
(* VMware and its other users.  Nobody else powers machines on, and nobody *)
(* removes one that runs.                                                  *)
(***************************************************************************)
GuestHalts(u) ==
  /\ u \in running
  /\ running' = running \ {u}
  /\ UNCHANGED <<live, vmname, cache, locks, scan, serving, local>>

RemovedOutside(u) ==
  /\ u \in live \ running
  /\ live' = live \ {u}
  /\ UNCHANGED <<vmname, running, cache, locks, scan, serving, local>>

AddedOutside(u, n) ==
  /\ Additions
  /\ vmname[u] = NoName /\ ~ Taken(n)
  /\ live' = live \cup {u}
  /\ vmname' = [vmname EXCEPT ![u] = n]
  /\ UNCHANGED <<running, cache, locks, scan, serving, local>>

\* The process dies and the service manager starts it again.
Restart ==
  /\ serving
  /\ serving' = FALSE
  /\ byuuid' = [u \in Uuids |-> NoObj] /\ byname' = [n \in Names |-> NoObj]
  /\ powered' = {}
  /\ mutex' = NoClient /\ netLock' = NoClient
  /\ todo' = {} /\ built' = {}
  /\ pc' = [c \in Clients |-> "idle"]
  /\ op' = [c \in Clients |-> "none"]
  /\ target' = [c \in Clients |-> Template]
  /\ wanted' = [c \in Clients |-> NoName]
  /\ vm' = [c \in Clients |-> NoObj]
  /\ seen' = [c \in Clients |-> "none"]
  /\ res' = [c \in Clients |-> "none"]
  /\ UNCHANGED world

Step(c) ==
  \/ Lookup(c) \/ StillExists(c) \/ Evict(c) \/ ListRunning(c) \/ AssignPowered(c)
  \/ Fetch(c) \/ Publish(c) \/ Use(c)
  \/ DeleteVM(c) \/ Forget(c) \/ Start(c) \/ Stop(c) \/ Mark(c)
  \/ Clone(c) \/ PrepareVM(c)
  \/ GetAllVMs(c) \/ FetchNext(c) \/ Swap(c) \/ Collect(c)
  \/ Done(c)

Next ==
  \/ StartAutostartVM \/ AutostartPanics \/ Restart
  \/ \E c \in Clients : Invoke(c) \/ AcquireNet(c) \/ AcquireMutex(c) \/ Step(c)
  \/ \E u \in Uuids : GuestHalts(u) \/ RemovedOutside(u)
  \/ \E u \in Uuids, n \in Names : AddedOutside(u, n)

Spec == Init /\ [][Next]_vars

(***************************************************************************)
(* External calls return, the scheduler runs every goroutine, and a Go     *)
(* mutex is handed to a waiter that has waited long enough.                *)
(***************************************************************************)
Fairness ==
  \A c \in Clients : /\ WF_vars(Step(c))
                     /\ SF_vars(AcquireNet(c))
                     /\ SF_vars(AcquireMutex(c))

FairSpec == Spec /\ Fairness
------------------------------------------------------------------------------
(***************************************************************************)
(* Properties.                                                             *)
(***************************************************************************)

\* Every variable has its type: who holds a lock is a client, a machine that
\* runs exists, and the caches hold machine structures.
TypeOK ==
  /\ live \in SUBSET Uuids
  /\ vmname \in [Uuids -> Names \cup {NoName}]
  /\ running \in SUBSET live
  /\ byuuid \in [Uuids -> Objs \cup {NoObj}]
  /\ byname \in [Names -> Objs \cup {NoObj}]
  /\ powered \in SUBSET Objs
  /\ mutex \in Clients \cup {NoClient}
  /\ netLock \in Clients \cup {NoClient}
  /\ todo \in SUBSET Uuids
  /\ built \in SUBSET Objs
  /\ serving \in BOOLEAN
  /\ pc \in [Clients -> Labels]
  /\ op \in [Clients -> Ops \cup {"none", "CreateFrom", "CreateNew"}]
  /\ target \in [Clients -> Uuids]
  /\ wanted \in [Clients -> Names \cup {NoName}]
  /\ vm \in [Clients -> Objs \cup {NoObj}]
  /\ seen \in [Clients -> {"none", "on", "off", "error"}]
  /\ res \in [Clients -> {"none", "ok", "on", "off", "missing", "refused", "failed"}]

\* An operation decides on the power state it listed itself: between the
\* assignment of foundVM.Powered in cachedVM and the test of found.Powered in
\* Delete, PowerOn, PowerOff and ShutdownGuest no other request changes it.
NoInterference ==
  \A c \in Clients : pc[c] = "use" => (IsOn(c) <=> seen[c] = "on")

\* Delete reaches client.DeleteVM only for a machine that is powered off, at
\* the moment of the call and not only when it was listed.
DeletesOnlyStopped ==
  \A c \in Clients : pc[c] = "delete" => target[c] \notin running

\* No two existing machines have one name: createWithVMRest refuses a name
\* that is taken, and it is the only thing that does.
UniqueNames ==
  \A u, v \in live : vmname[u] = vmname[v] => u = v

\* cachebyname never leads away from the existing machine of a name, whatever
\* became of the machine it was filled for; otherwise VirtualMachineByName would
\* report NotFound for a machine that exists.
NameCacheAgrees ==
  \A u \in live : LET o == byname[vmname[u]] IN o # NoObj => UuidOf(o) = u

\* VirtualMachineByName says "vm with name: %s not found", when it drops a dead
\* machine from cachebyname, only if no other machine bears the name.
NotFoundMeansNone ==
  \A c \in Clients : pc[c] = "evict" /\ ByNameOp(c) => ~ Taken(wanted[c])

\* The Go maps are not safe for concurrent use: no request writes one while
\* another one reads or writes it.
NoMapRace ==
  \A c, d \in Clients :
    /\ pc[c] \in {"evict", "forget", "publish"}
    /\ pc[d] \in {"lookup", "evict", "forget", "publish", "collect"}
    => c = d

\* The commands that change a machine never overlap, whichever front end they
\* come through: they run under VmrunExe.Mutex.
OneMutationAtATime ==
  \A c, d \in Clients :
    /\ pc[c] \in {"delete", "forget", "start", "stop", "mark", "clone", "prepare"}
    /\ pc[d] \in {"delete", "forget", "start", "stop", "mark", "clone", "prepare"}
    => c = d

\* Every request is answered: no lock is kept, and nobody waits for ever.
EveryRequestAnswered ==
  \A c \in Clients : pc[c] # "idle" ~> pc[c] = "idle"

==============================================================================
