----------------------------- MODULE VmrunProofs -----------------------------
(***************************************************************************)
(* Theorems about Vmrun, for every number of clients, machines and names.  *)
(***************************************************************************)
EXTENDS Vmrun, TLAPS

\* Where a client dereferences its machine pointer.
Deref == {"exists", "evict", "list", "assign", "publish", "use", "delete",
          "forget", "start", "stop", "mark", "prepare"}

\* No nil pointer is dereferenced.
NoNilPointer == \A c \in Clients : pc[c] \in Deref => vm[c] \in Objs

\* TypeOK, strengthened by what keeps a pointer from being nil where it is used
\* and a name from being absent where one is looked up.
TypeInv ==
  /\ TypeOK
  /\ \A c \in Clients : ByNameOp(c) => wanted[c] \in Names
  /\ \A c \in Clients : pc[c] \in Deref => vm[c] \in Objs

------------------------------------------------------------------------------
\* A free object for u, if there is one, is an object of u.
LEMMA FreshIsFree ==
  ASSUME NEW u \in Uuids, Free(u) # {}
  PROVE  Fresh(u) \in Objs /\ UuidOf(Fresh(u)) = u /\ Fresh(u) \notin Referenced
BY DEF Fresh, Free

\* The maps that registeredVM builds point to what it fetched, under its keys.
LEMMA BuiltMaps ==
  ASSUME NEW objs \in SUBSET Objs
  PROVE  /\ ByUuidOf(objs) \in [Uuids -> Objs \cup {NoObj}]
         /\ \A u \in Uuids : ByUuidOf(objs)[u] # NoObj => UuidOf(ByUuidOf(objs)[u]) = u
         /\ ByNamesOf(objs) \subseteq [Names -> Objs \cup {NoObj}]
<1>1. \A u \in Uuids : ByUuidOf(objs)[u] = NoObj
        \/ (ByUuidOf(objs)[u] \in objs /\ UuidOf(ByUuidOf(objs)[u]) = u)
  BY DEF ByUuidOf
<1>2. ByUuidOf(objs) \in [Uuids -> Objs \cup {NoObj}]
  BY <1>1 DEF ByUuidOf
<1>3. ByNamesOf(objs) \subseteq [Names -> Objs \cup {NoObj}]
  BY DEF ByNamesOf
<1> QED BY <1>1, <1>2, <1>3

\* The structure a client points to survives collection.
LEMMA HeldIsReferenced ==
  ASSUME NEW c \in Clients, vm'[c] # NoObj
  PROVE  vm'[c] \in Referenced'
BY DEF Referenced

LEMMA InitTyped == Init => TypeInv
<1> SUFFICES ASSUME Init PROVE TypeInv
  OBVIOUS
<1>1. TypeOK
  BY VmrunAssumption DEF Init, TypeOK, Labels
<1>2. \A c \in Clients : ~ ByNameOp(c) /\ pc[c] \notin Deref
  BY DEF Init, ByNameOp, Deref
<1> QED BY <1>1, <1>2 DEF TypeInv

------------------------------------------------------------------------------
LEMMA StepTyped ==
  ASSUME TypeInv, NEW c \in Clients, Step(c)
  PROVE  TypeInv'
<1> USE VmrunAssumption DEF TypeInv, TypeOK, Labels, Deref, ByNameOp, Collected,
      world, cache, locks, scan, asked, local, Goto, Finish, Serialised, Unlocked
<1>1. CASE Lookup(c)
  BY <1>1 DEF Lookup
<1>2. CASE StillExists(c)
  BY <1>2 DEF StillExists
<1>3. CASE Evict(c)
  <2>1. byuuid' \in [Uuids -> Objs \cup {NoObj}] /\ byname' \in [Names -> Objs \cup {NoObj}]
    BY <1>3 DEF Evict, Forgotten
  <2> QED BY <1>3, <2>1 DEF Evict, Missed
<1>4. CASE ListRunning(c)
  BY <1>4 DEF ListRunning
<1>5. CASE AssignPowered(c)
  BY <1>5 DEF AssignPowered, Missed, Found
<1>6. CASE Fetch(c)
  BY <1>6, FreshIsFree DEF Fetch, Missed, Fetched
<1>7. CASE Publish(c)
  <2>1. vm[c] \in Objs
    BY <1>7 DEF Publish
  <2>2. byuuid' \in [Uuids -> Objs \cup {NoObj}] /\ byname' \in [Names -> Objs \cup {NoObj}]
    BY <1>7, <2>1 DEF Publish
  <2> QED BY <1>7, <2>1, <2>2 DEF Publish, Found
<1>8. CASE Use(c)
  BY <1>8 DEF Use
<1>9. CASE DeleteVM(c)
  BY <1>9 DEF DeleteVM
<1>10. CASE Forget(c)
  BY <1>10 DEF Forget, Forgotten
<1>11. CASE Start(c)
  BY <1>11 DEF Start
<1>12. CASE Stop(c)
  BY <1>12 DEF Stop
<1>13. CASE Mark(c)
  BY <1>13 DEF Mark
<1>14. CASE Clone(c)
  BY <1>14 DEF Clone
<1>15. CASE PrepareVM(c)
  BY <1>15 DEF PrepareVM
<1>16. CASE GetAllVMs(c)
  BY <1>16 DEF GetAllVMs
<1>17. CASE FetchNext(c)
  BY <1>17, FreshIsFree DEF FetchNext, Fetched
<1>18. CASE Swap(c)
  BY <1>18, BuiltMaps DEF Swap
<1>19. CASE Collect(c)
  BY <1>19 DEF Collect
<1>20. CASE Done(c)
  BY <1>20 DEF Done, Reset
<1> QED BY <1>1, <1>2, <1>3, <1>4, <1>5, <1>6, <1>7, <1>8, <1>9, <1>10, <1>11, <1>12,
           <1>13, <1>14, <1>15, <1>16, <1>17, <1>18, <1>19, <1>20 DEF Step

LEMMA StartAutostartTyped ==
  ASSUME TypeInv, StartAutostartVM
  PROVE  TypeInv'
<1>1. UNCHANGED <<live, vmname, mutex, netLock, todo, built, pc, op, target, wanted,
                  vm, seen, res>> /\ serving' = TRUE
  BY DEF StartAutostartVM, locks, scan, local
<1>2. CASE UNCHANGED <<byuuid, byname, powered, running>>
  BY <1>1, <1>2 DEF TypeInv, TypeOK, ByNameOp
<1>3. CASE ~ UNCHANGED <<byuuid, byname, powered, running>>
  <2> DEFINE objs == {Fresh(u) : u \in live}
             stopped == (live \cap Autostart) \ running
  <2>1. /\ \A u \in live : Free(u) # {}
        /\ byuuid' = ByUuidOf(objs)
        /\ byname' \in ByNamesOf(objs)
        /\ \E s \in SUBSET stopped : running' = running \cup s
        /\ powered' \in SUBSET objs
    BY <1>3 DEF StartAutostartVM
  <2>2. live \in SUBSET Uuids /\ running \in SUBSET live
    BY DEF TypeInv, TypeOK
  <2>3. objs \in SUBSET Objs
    BY <2>1, <2>2, FreshIsFree
  <2>4. /\ byuuid' \in [Uuids -> Objs \cup {NoObj}]
        /\ byname' \in [Names -> Objs \cup {NoObj}]
    BY <2>1, <2>3, BuiltMaps
  <2>5. running' \in SUBSET live
    BY <2>1, <2>2
  <2>6. powered' \in SUBSET Objs
    BY <2>1, <2>3
  <2> HIDE DEF objs, stopped
  <2> QED BY <1>1, <2>4, <2>5, <2>6 DEF TypeInv, TypeOK, ByNameOp
<1> QED BY <1>2, <1>3

LEMMA NextTyped == TypeInv /\ [Next]_vars => TypeInv'
<1> SUFFICES ASSUME TypeInv, [Next]_vars PROVE TypeInv'
  OBVIOUS
<1> USE VmrunAssumption DEF TypeInv, TypeOK, Labels, Deref, ByNameOp, Goto,
      world, cache, locks, scan, asked, local
<1>1. CASE StartAutostartVM
  BY <1>1, StartAutostartTyped
<1>2. CASE Restart
  BY <1>2 DEF Restart
<1>3. ASSUME NEW c \in Clients, Invoke(c) PROVE TypeInv'
  BY <1>3 DEF Invoke, Unlocked
<1>4. ASSUME NEW c \in Clients, AcquireNet(c) PROVE TypeInv'
  BY <1>4 DEF AcquireNet, Unlocked
<1>5. ASSUME NEW c \in Clients, AcquireMutex(c) PROVE TypeInv'
  BY <1>5 DEF AcquireMutex
<1>6. ASSUME NEW c \in Clients, Step(c) PROVE TypeInv'
  BY <1>6, StepTyped
<1>7. ASSUME NEW u \in Uuids, GuestHalts(u) PROVE TypeInv'
  BY <1>7 DEF GuestHalts
<1>8. ASSUME NEW u \in Uuids, RemovedOutside(u) PROVE TypeInv'
  BY <1>8 DEF RemovedOutside
<1>9. ASSUME NEW u \in Uuids, NEW n \in Names, AddedOutside(u, n) PROVE TypeInv'
  BY <1>9 DEF AddedOutside
<1>10. CASE UNCHANGED vars
  BY <1>10 DEF vars
<1>11. CASE AutostartPanics
  BY <1>11 DEF AutostartPanics
<1> QED BY <1>1, <1>2, <1>3, <1>4, <1>5, <1>6, <1>7, <1>8, <1>9, <1>10, <1>11 DEF Next

LEMMA Typed == Spec => []TypeInv
<1>1. Init => TypeInv
  BY InitTyped
<1>2. TypeInv /\ [Next]_vars => TypeInv'
  BY NextTyped
<1> QED BY <1>1, <1>2, PTL DEF Spec

\* Every variable keeps its type, with any mix of front ends and with failing
\* external calls: no lookup leaves a nil pointer where it is dereferenced.
THEOREM TypeCorrect == Spec => [](TypeOK /\ NoNilPointer)
<1>1. TypeInv => TypeOK /\ NoNilPointer
  BY DEF TypeInv, NoNilPointer
<1> QED BY <1>1, Typed, PTL

------------------------------------------------------------------------------
(***************************************************************************)
(* Where an operation may be, with any mix of front ends.                  *)
(***************************************************************************)

\* No request has arrived before the service serves.
ServingInv == ~ serving => \A c \in Clients : pc[c] = "idle"

\* Which operation is where, and what it has not touched yet.
Position(c) ==
  /\ pc[c] = "idle" <=> op[c] = "none"
  /\ pc[c] = "idle" => target[c] = Template /\ wanted[c] = NoName
  /\ op[c] \in {"Create", "CreateFrom", "ByName", "List"} => target[c] = Template
  /\ op[c] \in {"CreateFrom", "CreateNew"}
       => "Create" \in Ops /\ pc[c] \notin {"idle", "net", "mutex"}
  /\ op[c] = "List" => pc[c] \in {"net", "mutex", "getall", "scan", "collect", "done"}
  /\ pc[c] \in {"getall", "scan", "collect"} => op[c] = "List"
  /\ pc[c] = "use" => op[c] \notin {"Create", "CreateFrom", "CreateNew"}
  /\ pc[c] \in {"delete", "forget"} => op[c] = "Delete"
  /\ pc[c] = "start" => op[c] = "PowerOn"
  /\ pc[c] = "stop" => op[c] \in {"PowerOff", "ShutdownGuest"}
  /\ pc[c] = "clone" => op[c] = "CreateFrom"
  /\ pc[c] = "prepare" => op[c] = "CreateNew"
  /\ pc[c] \in {"forget", "mark", "done"} => res[c] # "none"

PositionInv == \A c \in Clients : Position(c)

LEMMA StepKeepsOwnPosition ==
  ASSUME NEW c \in Clients, TypeInv, Position(c), Step(c)
  PROVE  Position(c)'
<1> USE VmrunAssumption DEF TypeInv, TypeOK, Position, world, cache, locks, scan, asked,
      local, Goto, Finish, Serialised, Unlocked
<1>1. CASE Lookup(c)
  BY <1>1 DEF Lookup
<1>2. CASE StillExists(c)
  BY <1>2 DEF StillExists
<1>3. CASE Evict(c)
  BY <1>3 DEF Evict, Missed
<1>4. CASE ListRunning(c)
  BY <1>4 DEF ListRunning
<1>5. CASE AssignPowered(c)
  BY <1>5 DEF AssignPowered, Missed, Found
<1>6. CASE Fetch(c)
  BY <1>6 DEF Fetch, Missed
<1>7. CASE Publish(c)
  BY <1>7 DEF Publish, Found
<1>8. CASE Use(c)
  BY <1>8 DEF Use
<1>9. CASE DeleteVM(c)
  BY <1>9 DEF DeleteVM
<1>10. CASE Forget(c)
  BY <1>10 DEF Forget
<1>11. CASE Start(c)
  BY <1>11 DEF Start
<1>12. CASE Stop(c)
  BY <1>12 DEF Stop
<1>13. CASE Mark(c)
  BY <1>13 DEF Mark
<1>14. CASE Clone(c)
  BY <1>14 DEF Clone
<1>15. CASE PrepareVM(c)
  BY <1>15 DEF PrepareVM
<1>16. CASE GetAllVMs(c)
  BY <1>16 DEF GetAllVMs
<1>17. CASE FetchNext(c)
  BY <1>17 DEF FetchNext
<1>18. CASE Swap(c)
  BY <1>18 DEF Swap
<1>19. CASE Collect(c)
  BY <1>19 DEF Collect
<1>20. CASE Done(c)
  BY <1>20 DEF Done, Reset
<1> QED BY <1>1, <1>2, <1>3, <1>4, <1>5, <1>6, <1>7, <1>8, <1>9, <1>10, <1>11, <1>12,
           <1>13, <1>14, <1>15, <1>16, <1>17, <1>18, <1>19, <1>20 DEF Step

\* A step of c changes nothing that belongs to another client.
LEMMA OthersLocal ==
  ASSUME TypeInv, NEW c \in Clients, NEW d \in Clients, d # c,
         Invoke(c) \/ AcquireNet(c) \/ AcquireMutex(c) \/ Step(c)
  PROVE  /\ pc'[d] = pc[d] /\ op'[d] = op[d] /\ target'[d] = target[d]
         /\ wanted'[d] = wanted[d] /\ vm'[d] = vm[d] /\ seen'[d] = seen[d]
         /\ res'[d] = res[d]
<1> USE DEF TypeInv, TypeOK, asked, local, Goto, Finish
<1>1. CASE Invoke(c) \/ AcquireNet(c) \/ AcquireMutex(c)
  BY <1>1 DEF Invoke, AcquireNet, AcquireMutex
<1>2. CASE Step(c)
  BY <1>2 DEF Step, Lookup, StillExists, Evict, ListRunning, AssignPowered, Fetch, Publish,
         Use, DeleteVM, Forget, Start, Stop, Mark, Clone, PrepareVM, GetAllVMs, FetchNext,
         Swap, Collect, Done, Missed, Found, Reset
<1> QED BY <1>1, <1>2

LEMMA NextKeepsPosition ==
  ASSUME TypeInv, ServingInv, PositionInv, [Next]_vars
  PROVE  PositionInv'
<1> USE VmrunAssumption DEF PositionInv, Position, TypeInv, TypeOK, world, cache, locks,
      scan, asked, local, Goto
<1>1. CASE StartAutostartVM
  BY <1>1 DEF StartAutostartVM, ServingInv
<1>2. CASE Restart
  BY <1>2 DEF Restart
<1>3. ASSUME NEW c \in Clients, Invoke(c) PROVE PositionInv'
  BY <1>3 DEF Invoke, Serialised, Unlocked
<1>4. ASSUME NEW c \in Clients, AcquireNet(c) PROVE PositionInv'
  BY <1>4 DEF AcquireNet, Unlocked
<1>5. ASSUME NEW c \in Clients, AcquireMutex(c) PROVE PositionInv'
  BY <1>5 DEF AcquireMutex
<1>6. ASSUME NEW c \in Clients, Step(c) PROVE PositionInv'
  <2>1. Position(c)'
    BY <1>6, StepKeepsOwnPosition
  <2>2. ASSUME NEW d \in Clients, d # c PROVE Position(d)'
    BY <1>6, <2>2, OthersLocal
  <2> QED BY <2>1, <2>2
<1>7. ASSUME NEW u \in Uuids, GuestHalts(u) PROVE PositionInv'
  BY <1>7 DEF GuestHalts
<1>8. ASSUME NEW u \in Uuids, RemovedOutside(u) PROVE PositionInv'
  BY <1>8 DEF RemovedOutside
<1>9. ASSUME NEW u \in Uuids, NEW n \in Names, AddedOutside(u, n) PROVE PositionInv'
  BY <1>9 DEF AddedOutside
<1>10. CASE UNCHANGED vars
  BY <1>10 DEF vars
<1>11. CASE AutostartPanics
  BY <1>11 DEF AutostartPanics, ServingInv
<1> QED BY <1>1, <1>2, <1>3, <1>4, <1>5, <1>6, <1>7, <1>8, <1>9, <1>10, <1>11 DEF Next

LEMMA NextKeepsServing == TypeInv /\ ServingInv /\ [Next]_vars => ServingInv'
<1> SUFFICES ASSUME TypeInv, ServingInv, [Next]_vars PROVE ServingInv'
  OBVIOUS
<1>1. ASSUME NEW c \in Clients, Invoke(c) \/ AcquireNet(c) \/ AcquireMutex(c) \/ Step(c)
      PROVE  serving /\ serving' = serving
  BY <1>1 DEF ServingInv, Invoke, AcquireNet, AcquireMutex, Step, Lookup, StillExists, Evict,
         ListRunning, AssignPowered, Fetch, Publish, Use, DeleteVM, Forget, Start, Stop, Mark,
         Clone, PrepareVM, GetAllVMs, FetchNext, Swap, Collect, Done
<1>2. CASE StartAutostartVM \/ AutostartPanics \/ Restart
  BY <1>2 DEF StartAutostartVM, AutostartPanics, Restart, ServingInv, local
<1>3. CASE \E u \in Uuids : \/ GuestHalts(u) \/ RemovedOutside(u)
                            \/ \E n \in Names : AddedOutside(u, n)
  BY <1>3 DEF GuestHalts, RemovedOutside, AddedOutside, local, ServingInv
<1>4. CASE UNCHANGED vars
  BY <1>4 DEF vars, ServingInv
<1> QED BY <1>1, <1>2, <1>3, <1>4 DEF Next, ServingInv

LEMMA Positions == Spec => [](ServingInv /\ PositionInv)
<1>1. Init => ServingInv /\ PositionInv
  BY DEF Init, ServingInv, PositionInv, Position
<1>2. TypeInv /\ ServingInv /\ PositionInv /\ [Next]_vars => ServingInv' /\ PositionInv'
  BY NextKeepsServing, NextKeepsPosition
<1> QED BY <1>1, <1>2, Typed, PTL DEF Spec

------------------------------------------------------------------------------
(***************************************************************************)
(* Names, whatever the front ends and whatever fails: a machine keeps its  *)
(* name, so an entry of cachebyname, though it may be out of date, is      *)
(* never about a machine of another name.                                  *)
(***************************************************************************)
KeyNames == \A n \in Names : byname[n] # NoObj => NameOf(byname[n]) = n

HoldsNamed(c) ==
  pc[c] \in {"exists", "evict", "list", "assign", "publish", "use"} /\ ByNameOp(c)
    => NameOf(vm[c]) = wanted[c]

LabelInv == KeyNames /\ \A c \in Clients : HoldsNamed(c)

\* The map that registeredVM builds has a structure of its own for every name.
LEMMA BuiltNames ==
  ASSUME NEW objs, NEW f \in ByNamesOf(objs), NEW n \in Names, f[n] # NoObj
  PROVE  f[n] \in objs /\ NameOf(f[n]) = n
BY DEF ByNamesOf

\* Nothing renames a machine.
LEMMA NamesStick ==
  ASSUME TypeInv, [Next]_vars, NEW u \in Uuids, vmname[u] # NoName
  PROVE  vmname'[u] = vmname[u]
<1> USE DEF TypeInv, TypeOK, world
<1>1. CASE \E v \in Uuids, n \in Names : AddedOutside(v, n)
  BY <1>1 DEF AddedOutside
<1>2. CASE \E c \in Clients : Clone(c)
  BY <1>2 DEF Clone
<1>3. CASE UNCHANGED vmname
  BY <1>3
<1> QED
  BY <1>1, <1>2, <1>3
  DEF Next, StartAutostartVM, AutostartPanics, Restart, Invoke, AcquireNet, AcquireMutex, Step, Lookup,
      StillExists, Evict, ListRunning, AssignPowered, Fetch, Publish, Use, DeleteVM, Forget,
      Start, Stop, Mark, PrepareVM, GetAllVMs, FetchNext, Swap, Collect, Done, GuestHalts,
      RemovedOutside, vars

\* An entry that some machine was cached under keeps its label.
LEMMA LabelsStick ==
  ASSUME TypeInv, [Next]_vars, NEW o \in Objs, NEW n \in Names, NameOf(o) = n
  PROVE  NameOf(o)' = n
BY NamesStick, VmrunAssumption DEF NameOf, UuidOf, Objs

LEMMA StepKeepsKeyNames ==
  ASSUME TypeInv, KeyNames, NEW c \in Clients, Step(c)
  PROVE  KeyNames'
<1> USE VmrunAssumption DEF KeyNames, TypeInv, TypeOK
<1>1. CASE Evict(c) \/ Forget(c)
  BY <1>1 DEF Evict, Forget, Forgotten, world, NameOf
<1>2. CASE Publish(c)
  BY <1>2 DEF Publish, world, NameOf
<1>3. CASE Swap(c)
  BY <1>3, BuiltNames DEF Swap, world, NameOf
<1>4. CASE UNCHANGED byname
  BY <1>4, LabelsStick DEF Next
<1> QED
  BY <1>1, <1>2, <1>3, <1>4
  DEF Step, Lookup, StillExists, ListRunning, AssignPowered, Fetch, Use, DeleteVM,
      Start, Stop, Mark, Clone, PrepareVM, GetAllVMs, FetchNext, Collect, Done, cache

LEMMA StepKeepsOwnLabel ==
  ASSUME TypeInv, KeyNames, NEW c \in Clients, HoldsNamed(c), Step(c)
  PROVE  HoldsNamed(c)'
<1> USE VmrunAssumption DEF TypeInv, TypeOK, HoldsNamed, ByNameOp, NameOf, world, asked,
      Goto, Finish
<1>1. CASE Lookup(c)
  BY <1>1 DEF Lookup, KeyNames
<1>2. CASE StillExists(c) \/ ListRunning(c) \/ Use(c)
  BY <1>2 DEF StillExists, ListRunning, Use
<1>3. CASE Evict(c)
  BY <1>3 DEF Evict, Missed
<1>4. CASE AssignPowered(c) \/ Publish(c)
  BY <1>4 DEF AssignPowered, Publish, Missed, Found
<1>5. CASE Fetch(c)
  BY <1>5, FreshIsFree DEF Fetch, Missed
<1>6. CASE pc'[c] \notin {"exists", "evict", "list", "assign", "publish", "use"}
  BY <1>6
<1> QED
  BY <1>1, <1>2, <1>3, <1>4, <1>5, <1>6
  DEF Step, DeleteVM, Forget, Start, Stop, Mark, Clone, PrepareVM, GetAllVMs, FetchNext,
      Swap, Collect, Done, Reset

LEMMA NextKeepsLabels == TypeInv /\ ServingInv /\ LabelInv /\ [Next]_vars => LabelInv'
<1> SUFFICES ASSUME TypeInv, ServingInv, LabelInv, [Next]_vars PROVE LabelInv'
  OBVIOUS
<1> USE VmrunAssumption DEF LabelInv
<1>1. ASSUME NEW d \in Clients, UNCHANGED <<pc[d], op[d], wanted[d], vm[d]>>
      PROVE  HoldsNamed(d)'
  <2>1. HoldsNamed(d) /\ (ByNameOp(d) => wanted[d] \in Names) /\ (pc[d] \in Deref => vm[d] \in Objs)
    BY DEF TypeInv
  <2> QED BY <1>1, <2>1, LabelsStick DEF HoldsNamed, ByNameOp, Deref, NameOf
<1>2. UNCHANGED byname => KeyNames'
  BY LabelsStick DEF KeyNames, TypeInv, TypeOK
<1>3. CASE StartAutostartVM
  <2>1. \A d \in Clients : HoldsNamed(d)'
    BY <1>1, <1>3 DEF StartAutostartVM, local
  <2>2. CASE byname' \in ByNamesOf({Fresh(u) : u \in live})
    <3>1. \A n \in Names : byname'[n] # NoObj => NameOf(byname'[n]) = n
      BY <2>2, BuiltNames
    <3>2. vmname' = vmname
      BY <1>3 DEF StartAutostartVM
    <3> QED BY <2>1, <3>1, <3>2 DEF KeyNames, NameOf
  <2> QED BY <1>2, <1>3, <2>1, <2>2 DEF StartAutostartVM
<1>4. CASE Restart
  BY <1>4 DEF Restart, KeyNames, HoldsNamed
<1>5. ASSUME NEW c \in Clients, Invoke(c) \/ AcquireNet(c) \/ AcquireMutex(c) PROVE LabelInv'
  <2>1. \A d \in Clients \ {c} : HoldsNamed(d)'
    BY <1>1, <1>5, OthersLocal
  <2>2. HoldsNamed(c)' /\ byname' = byname
    BY <1>5 DEF TypeInv, TypeOK, Invoke, AcquireNet, AcquireMutex, HoldsNamed, Goto, cache
  <2> QED BY <1>2, <2>1, <2>2
<1>6. ASSUME NEW c \in Clients, Step(c) PROVE LabelInv'
  <2>1. \A d \in Clients \ {c} : HoldsNamed(d)'
    BY <1>1, <1>6, OthersLocal
  <2> QED BY <1>6, <2>1, StepKeepsKeyNames, StepKeepsOwnLabel
<1>7. CASE \E u \in Uuids : \/ GuestHalts(u) \/ RemovedOutside(u)
                            \/ \E n \in Names : AddedOutside(u, n)
  BY <1>1, <1>2, <1>7 DEF GuestHalts, RemovedOutside, AddedOutside, local, cache
<1>8. CASE UNCHANGED vars
  BY <1>1, <1>2, <1>8 DEF vars
<1>9. CASE AutostartPanics
  BY <1>1, <1>2, <1>9 DEF AutostartPanics, local, cache
<1> QED BY <1>3, <1>4, <1>5, <1>6, <1>7, <1>8, <1>9 DEF Next

LEMMA LabelsInvariant == Spec => []LabelInv
<1>1. Init => LabelInv
  BY DEF Init, LabelInv, KeyNames, HoldsNamed
<1>2. TypeInv /\ ServingInv /\ LabelInv /\ [Next]_vars => LabelInv'
  BY NextKeepsLabels
<1> QED BY <1>1, <1>2, Typed, Positions, PTL DEF Spec

\* Behind any front ends, with faults and with other users of VMware: a lookup by
\* name never goes on, or ends, with a machine of another name.
THEOREM LookupsFindTheName == Spec => [](\A c \in Clients : HoldsNamed(c))
<1>1. LabelInv => \A c \in Clients : HoldsNamed(c)
  BY DEF LabelInv
<1> QED BY <1>1, LabelsInvariant, PTL

------------------------------------------------------------------------------
(***************************************************************************)
(* The machine mutex: whoever changes a machine holds it, and so does      *)
(* whoever builds the maps of registeredVM.                                *)
(***************************************************************************)
Changes == {"delete", "forget", "start", "stop", "mark", "clone", "prepare"}

LockedOps == Serialised \cup {"CreateFrom", "CreateNew"}

MutexInv ==
  \A c \in Clients :
    /\ pc[c] \notin {"idle", "net", "mutex"} /\ op[c] \in LockedOps => mutex = c
    /\ pc[c] \in {"getall", "scan"} => mutex = c /\ op[c] = "List"
    /\ pc[c] \in Changes => op[c] \in LockedOps

LEMMA StepKeepsMutexInv ==
  ASSUME TypeInv, MutexInv, NEW c \in Clients, Step(c)
  PROVE  MutexInv'
<1> USE VmrunAssumption DEF TypeInv, TypeOK, Labels, MutexInv, Changes, LockedOps,
      Serialised, Unlocked, locks, asked, Goto, Finish
<1>1. CASE Lookup(c)
  BY <1>1 DEF Lookup
<1>2. CASE StillExists(c)
  BY <1>2 DEF StillExists
<1>3. CASE Evict(c)
  BY <1>3 DEF Evict, Missed
<1>4. CASE ListRunning(c)
  BY <1>4 DEF ListRunning
<1>5. CASE AssignPowered(c)
  BY <1>5 DEF AssignPowered, Missed, Found
<1>6. CASE Fetch(c)
  BY <1>6 DEF Fetch, Missed
<1>7. CASE Publish(c)
  BY <1>7 DEF Publish, Found
<1>8. CASE Use(c)
  BY <1>8 DEF Use
<1>9. CASE DeleteVM(c)
  BY <1>9 DEF DeleteVM
<1>10. CASE Forget(c)
  BY <1>10 DEF Forget
<1>11. CASE Start(c)
  BY <1>11 DEF Start
<1>12. CASE Stop(c)
  BY <1>12 DEF Stop
<1>13. CASE Mark(c)
  BY <1>13 DEF Mark
<1>14. CASE Clone(c)
  BY <1>14 DEF Clone
<1>15. CASE PrepareVM(c)
  BY <1>15 DEF PrepareVM
<1>16. CASE GetAllVMs(c)
  BY <1>16 DEF GetAllVMs
<1>17. CASE FetchNext(c)
  BY <1>17 DEF FetchNext
<1>18. CASE Swap(c)
  BY <1>18 DEF Swap
<1>19. CASE Collect(c)
  BY <1>19 DEF Collect
<1>20. CASE Done(c)
  BY <1>20 DEF Done, Reset
<1> QED BY <1>1, <1>2, <1>3, <1>4, <1>5, <1>6, <1>7, <1>8, <1>9, <1>10, <1>11, <1>12,
           <1>13, <1>14, <1>15, <1>16, <1>17, <1>18, <1>19, <1>20 DEF Step

LEMMA NextKeepsMutexInv == TypeInv /\ MutexInv /\ [Next]_vars => MutexInv'
<1> SUFFICES ASSUME TypeInv, MutexInv, [Next]_vars PROVE MutexInv'
  OBVIOUS
<1> USE VmrunAssumption DEF TypeInv, TypeOK, Labels, MutexInv, Changes, LockedOps,
      Serialised, Unlocked, locks, asked, local, Goto
<1>1. CASE StartAutostartVM
  BY <1>1 DEF StartAutostartVM
<1>2. CASE Restart
  BY <1>2 DEF Restart
<1>3. ASSUME NEW c \in Clients, Invoke(c) PROVE MutexInv'
  BY <1>3 DEF Invoke
<1>4. ASSUME NEW c \in Clients, AcquireNet(c) PROVE MutexInv'
  BY <1>4 DEF AcquireNet
<1>5. ASSUME NEW c \in Clients, AcquireMutex(c) PROVE MutexInv'
  BY <1>5 DEF AcquireMutex
<1>6. ASSUME NEW c \in Clients, Step(c) PROVE MutexInv'
  BY <1>6, StepKeepsMutexInv
<1>7. ASSUME NEW u \in Uuids, GuestHalts(u) PROVE MutexInv'
  BY <1>7 DEF GuestHalts
<1>8. ASSUME NEW u \in Uuids, RemovedOutside(u) PROVE MutexInv'
  BY <1>8 DEF RemovedOutside
<1>9. ASSUME NEW u \in Uuids, NEW n \in Names, AddedOutside(u, n) PROVE MutexInv'
  BY <1>9 DEF AddedOutside
<1>10. CASE UNCHANGED vars
  BY <1>10 DEF vars
<1>11. CASE AutostartPanics
  BY <1>11 DEF AutostartPanics
<1> QED BY <1>1, <1>2, <1>3, <1>4, <1>5, <1>6, <1>7, <1>8, <1>9, <1>10, <1>11 DEF Next

LEMMA MutexInvariant == Spec => []MutexInv
<1>1. Init => MutexInv
  BY DEF Init, MutexInv, Changes
<1>2. TypeInv /\ MutexInv /\ [Next]_vars => MutexInv'
  BY NextKeepsMutexInv
<1> QED BY <1>1, <1>2, Typed, PTL DEF Spec

\* Whatever the front ends, two commands that change machines never overlap.
THEOREM MutationsExclude == Spec => []OneMutationAtATime
<1>1. MutexInv => OneMutationAtATime
  BY DEF MutexInv, OneMutationAtATime, Changes, LockedOps
<1> QED BY <1>1, MutexInvariant, PTL

------------------------------------------------------------------------------
(***************************************************************************)
(* One request at a time.  Behind the REST router alone, netLock is held   *)
(* from before the first lookup to the answer; and whatever the front ends *)
(* the machine mutex is, by every operation but the two queries.  Under    *)
(* either of the two conditions what a client listed still is what the     *)
(* object says when the client looks at it, and a machine listed as        *)
(* stopped can only be started by the client that listed it.               *)
(***************************************************************************)
Sequential == RestClients = Clients \/ Ops \cap Unlocked = {}

Active(c) == pc[c] \notin {"idle", "net"}

NetInv == \A c \in Clients : Active(c) => netLock = c

\* A client is inside from its first call to its answer; a listing only until
\* the maps are in place.
Inside(c) ==
  /\ pc[c] \notin {"idle", "net", "mutex"}
  /\ ~ (op[c] = "List" /\ pc[c] \in {"collect", "done"})

AloneInv == \A c, d \in Clients : Inside(c) /\ Inside(d) => c = d

LEMMA StepKeepsNetInv ==
  ASSUME TypeInv, NetInv, NEW c \in Clients, Step(c)
  PROVE  NetInv'
<1>1. Active(c) /\ netLock = c
  BY DEF NetInv, Step, Active, Lookup, StillExists, Evict, ListRunning, AssignPowered,
         Fetch, Publish, Use, DeleteVM, Forget, Start, Stop, Mark, Clone, PrepareVM,
         GetAllVMs, FetchNext, Swap, Collect, Done
<1>2. \A d \in Clients \ {c} : ~ Active(d) /\ pc'[d] = pc[d]
  BY <1>1, OthersLocal DEF NetInv
<1>3. Active(c)' => netLock' = c
  BY <1>1 DEF TypeInv, TypeOK, Active, Step, Lookup, StillExists, Evict, ListRunning,
         AssignPowered, Fetch, Publish, Use, DeleteVM, Forget, Start, Stop, Mark, Clone,
         PrepareVM, GetAllVMs, FetchNext, Swap, Collect, Done, Reset, Goto, locks
<1> QED BY <1>2, <1>3 DEF NetInv, Active

LEMMA NextKeepsNetInv ==
  ASSUME RestClients = Clients, TypeInv, ServingInv, NetInv, [Next]_vars
  PROVE  NetInv'
<1> USE VmrunAssumption DEF NetInv, Active, TypeInv, TypeOK, locks, local, Goto
<1>1. CASE StartAutostartVM
  BY <1>1 DEF StartAutostartVM
<1>2. CASE Restart
  BY <1>2 DEF Restart
<1>3. ASSUME NEW c \in Clients, Invoke(c) PROVE NetInv'
  BY <1>3 DEF Invoke
<1>4. ASSUME NEW c \in Clients, AcquireNet(c) PROVE NetInv'
  BY <1>4 DEF AcquireNet
<1>5. ASSUME NEW c \in Clients, AcquireMutex(c) PROVE NetInv'
  BY <1>5 DEF AcquireMutex
<1>6. ASSUME NEW c \in Clients, Step(c) PROVE NetInv'
  BY <1>6, StepKeepsNetInv
<1>7. CASE \E u \in Uuids : \/ GuestHalts(u) \/ RemovedOutside(u)
                            \/ \E n \in Names : AddedOutside(u, n)
  BY <1>7 DEF GuestHalts, RemovedOutside, AddedOutside
<1>8. CASE UNCHANGED vars
  BY <1>8 DEF vars
<1>9. CASE AutostartPanics
  BY <1>9 DEF AutostartPanics
<1> QED BY <1>1, <1>2, <1>3, <1>4, <1>5, <1>6, <1>7, <1>8, <1>9 DEF Next

LEMMA NetInvariant ==
  ASSUME RestClients = Clients
  PROVE  Spec => []NetInv
<1>1. Init => NetInv
  BY DEF Init, NetInv, Active
<1>2. TypeInv /\ ServingInv /\ NetInv /\ [Next]_vars => NetInv'
  BY NextKeepsNetInv
<1> QED BY <1>1, <1>2, Typed, Positions, PTL DEF Spec

\* Without the queries, whoever is inside holds the mutex.
LEMMA InsideLocks ==
  ASSUME Ops \cap Unlocked = {}, TypeInv, PositionInv, MutexInv, NEW c \in Clients, Inside(c)
  PROVE  mutex = c
<1>1. op[c] \in LockedOps \cup {"List"}
  BY VmrunAssumption DEF TypeInv, TypeOK, PositionInv, Position, Inside, LockedOps
<1> QED BY <1>1 DEF MutexInv, PositionInv, Position, Inside

LEMMA AloneInvariant ==
  ASSUME Sequential
  PROVE  Spec => []AloneInv
<1>1. CASE RestClients = Clients
  <2>1. NetInv => AloneInv
    BY DEF NetInv, AloneInv, Active, Inside
  <2> QED BY <1>1, <2>1, NetInvariant, PTL
<1>2. CASE Ops \cap Unlocked = {}
  <2>1. TypeInv /\ PositionInv /\ MutexInv => AloneInv
    BY <1>2, InsideLocks DEF AloneInv
  <2> QED BY <2>1, Typed, Positions, MutexInvariant, PTL
<1> QED BY <1>1, <1>2 DEF Sequential

KeysInv == \A u \in Uuids : byuuid[u] # NoObj => UuidOf(byuuid[u]) = u

\* What a client knows of its machine, by where it is.
Knows(c) ==
  /\ pc[c] \in Deref /\ ~ ByNameOp(c) => UuidOf(vm[c]) = target[c]
  /\ pc[c] \in {"assign", "publish", "use"} /\ seen[c] = "off"
       => UuidOf(vm[c]) \notin running
  /\ pc[c] = "assign" => seen[c] # "none"
  /\ pc[c] \in {"publish", "use"} => /\ seen[c] \in {"on", "off"}
                                     /\ IsOn(c) <=> seen[c] = "on"
  /\ pc[c] \in {"delete", "start"} => target[c] \notin running

KnowledgeInv == KeysInv /\ \A c \in Clients : Knows(c)

LEMMA StepKeepsKeys ==
  ASSUME TypeInv, KeysInv, NEW c \in Clients, Step(c)
  PROVE  KeysInv'
<1> USE DEF KeysInv, TypeInv, TypeOK
<1>1. CASE Evict(c)
  BY <1>1 DEF Evict, Forgotten
<1>2. CASE Publish(c)
  BY <1>2 DEF Publish
<1>3. CASE Forget(c)
  BY <1>3 DEF Forget, Forgotten
<1>4. CASE Swap(c)
  BY <1>4, BuiltMaps DEF Swap
<1>5. CASE UNCHANGED byuuid
  BY <1>5
<1> QED
  BY <1>1, <1>2, <1>3, <1>4, <1>5
  DEF Step, Lookup, StillExists, ListRunning, AssignPowered, Fetch, Use, DeleteVM,
      Start, Stop, Mark, Clone, PrepareVM, GetAllVMs, FetchNext, Collect, Done, cache

\* Where a client dereferences its pointer, it has one.
LEMMA TypeIsPointer ==
  ASSUME TypeInv, NEW c \in Clients, pc[c] \in Deref
  PROVE  vm[c] \in Objs /\ vm[c] # NoObj
BY VmrunAssumption DEF TypeInv, Objs

\* What c knows after a step of its own.
LEMMA StepKeepsOwnKnowledge ==
  ASSUME NEW c \in Clients, TypeInv, KeysInv, Knows(c), Step(c)
  PROVE  Knows(c)'
<1> USE VmrunAssumption DEF TypeInv, TypeOK, Knows, Deref, ByNameOp, IsOn,
      world, cache, locks, scan, asked, local, Goto, Finish
<1>1. CASE Lookup(c)
  BY <1>1 DEF Lookup, KeysInv
<1>2. CASE StillExists(c)
  BY <1>2 DEF StillExists
<1>3. CASE Evict(c)
  BY <1>3 DEF Evict, Missed
<1>4. CASE ListRunning(c)
  BY <1>4 DEF ListRunning
<1>5. CASE AssignPowered(c)
  <2>1. CASE seen[c] = "error"
    BY <1>5, <2>1 DEF AssignPowered, Missed
  <2>2. CASE seen[c] # "error"
    <3>1. UNCHANGED <<op, target, wanted, vm, seen, running>> /\ pc[c] = "assign" /\ Found(c)
      BY <1>5, <2>2 DEF AssignPowered
    <3>2. vm[c] \in Objs /\ vm[c] # NoObj
      BY <3>1, TypeIsPointer
    <3>3. vm[c] \in Referenced'
      BY <3>1, <3>2, HeldIsReferenced
    <3>4. vm[c] \in powered' <=> seen[c] = "on"
      BY <1>5, <3>3 DEF AssignPowered, Collected
    <3>5. pc'[c] \in {"use", "clone", "prepare", "done"}
      BY <3>1 DEF Found
    <3> QED BY <2>2, <3>1, <3>2, <3>4, <3>5
  <2> QED BY <2>1, <2>2
<1>6. CASE Fetch(c)
  BY <1>6, FreshIsFree DEF Fetch, Missed, Fetched
<1>7. CASE Publish(c)
  <2>1. UNCHANGED <<op, target, wanted, vm, seen, running>> /\ pc[c] = "publish" /\ Found(c)
    BY <1>7 DEF Publish
  <2>2. vm[c] \in Objs /\ vm[c] # NoObj
    BY <2>1, TypeIsPointer
  <2>3. vm[c] \in Referenced'
    BY <2>1, <2>2, HeldIsReferenced
  <2>4. vm[c] \in powered' <=> vm[c] \in powered
    BY <1>7, <2>3 DEF Publish, Collected
  <2>5. pc'[c] \in {"use", "clone", "prepare", "done"}
    BY <2>1 DEF Found
  <2> QED BY <2>1, <2>2, <2>4, <2>5
<1>8. CASE Use(c)
  BY <1>8 DEF Use
<1>9. CASE DeleteVM(c)
  BY <1>9 DEF DeleteVM
<1>10. CASE Forget(c)
  BY <1>10 DEF Forget
<1>11. CASE Start(c)
  BY <1>11 DEF Start
<1>12. CASE Stop(c)
  BY <1>12 DEF Stop
<1>13. CASE Mark(c)
  BY <1>13 DEF Mark
<1>14. CASE Clone(c)
  BY <1>14 DEF Clone
<1>15. CASE PrepareVM(c)
  BY <1>15 DEF PrepareVM
<1>16. CASE GetAllVMs(c)
  BY <1>16 DEF GetAllVMs
<1>17. CASE FetchNext(c)
  BY <1>17 DEF FetchNext
<1>18. CASE Swap(c)
  BY <1>18 DEF Swap
<1>19. CASE Collect(c)
  BY <1>19 DEF Collect
<1>20. CASE Done(c)
  BY <1>20 DEF Done, Reset
<1> QED BY <1>1, <1>2, <1>3, <1>4, <1>5, <1>6, <1>7, <1>8, <1>9, <1>10, <1>11, <1>12,
           <1>13, <1>14, <1>15, <1>16, <1>17, <1>18, <1>19, <1>20 DEF Step

\* Whoever is not inside and moves has a listing to answer.
LEMMA OutsideAnswers ==
  ASSUME NEW c \in Clients, Step(c), ~ Inside(c)
  PROVE  Collect(c) \/ Done(c)
BY DEF Inside, Step, Lookup, StillExists, Evict, ListRunning, AssignPowered, Fetch, Publish,
       Use, DeleteVM, Forget, Start, Stop, Mark, Clone, PrepareVM, GetAllVMs, FetchNext, Swap

\* What another client knows is still so after a step of c.
LEMMA OthersKeepKnowledge ==
  ASSUME TypeInv, AloneInv, NEW c \in Clients, Step(c), NEW d \in Clients, d # c, Knows(d)
  PROVE  Knows(d)'
<1>1. /\ pc'[d] = pc[d] /\ op'[d] = op[d] /\ target'[d] = target[d]
      /\ vm'[d] = vm[d] /\ seen'[d] = seen[d]
  BY OthersLocal
<1>2. CASE Inside(c)
  <2>1. ~ Inside(d)
    BY <1>2 DEF AloneInv
  <2> QED BY <1>1, <2>1 DEF Inside, Knows, Deref
<1>3. CASE ~ Inside(c)
  <2>1. running' = running /\ (powered' = powered \/ Collected(powered))
    BY <1>3, OutsideAnswers DEF Collect, Done, world, cache
  <2>2. pc[d] \in Deref => (vm[d] \in powered' <=> vm[d] \in powered)
    BY <1>1, <2>1, TypeIsPointer, HeldIsReferenced DEF Collected
  <2> QED BY <1>1, <2>1, <2>2 DEF Knows, Deref, IsOn, ByNameOp
<1> QED BY <1>2, <1>3

LEMMA NextKeepsKnowledge ==
  ASSUME TypeInv, ServingInv, AloneInv, KnowledgeInv, [Next]_vars
  PROVE  KnowledgeInv'
<1> USE VmrunAssumption DEF KnowledgeInv, KeysInv, Knows, Deref, ByNameOp, IsOn, TypeInv,
      TypeOK, world, cache, locks, scan, asked, local, Goto
<1>1. CASE StartAutostartVM
  <2>1. \A c \in Clients : pc[c] = "idle" /\ pc'[c] = "idle"
    BY <1>1 DEF StartAutostartVM, ServingInv
  <2>2. KeysInv'
    <3>1. CASE UNCHANGED byuuid
      BY <3>1
    <3>2. CASE /\ \A u \in live : Free(u) # {}
               /\ byuuid' = ByUuidOf({Fresh(u) : u \in live})
      <4>1. {Fresh(u) : u \in live} \in SUBSET Objs
        BY <3>2, FreshIsFree
      <4> QED BY <3>2, <4>1, BuiltMaps
    <3> QED BY <1>1, <3>1, <3>2 DEF StartAutostartVM
  <2> QED BY <1>1, <2>1, <2>2 DEF StartAutostartVM
<1>2. CASE Restart
  BY <1>2 DEF Restart
<1>3. ASSUME NEW c \in Clients, Invoke(c) PROVE KnowledgeInv'
  BY <1>3 DEF Invoke
<1>4. ASSUME NEW c \in Clients, AcquireNet(c) PROVE KnowledgeInv'
  BY <1>4 DEF AcquireNet
<1>5. ASSUME NEW c \in Clients, AcquireMutex(c) PROVE KnowledgeInv'
  BY <1>5 DEF AcquireMutex
<1>6. ASSUME NEW c \in Clients, Step(c) PROVE KnowledgeInv'
  <2>1. \A d \in Clients : Knows(d)'
    BY <1>6, OthersKeepKnowledge, StepKeepsOwnKnowledge
  <2> QED BY <1>6, <2>1, StepKeepsKeys
<1>7. ASSUME NEW u \in Uuids, GuestHalts(u) PROVE KnowledgeInv'
  BY <1>7 DEF GuestHalts
<1>8. ASSUME NEW u \in Uuids, RemovedOutside(u) PROVE KnowledgeInv'
  BY <1>8 DEF RemovedOutside
<1>9. ASSUME NEW u \in Uuids, NEW n \in Names, AddedOutside(u, n) PROVE KnowledgeInv'
  BY <1>9 DEF AddedOutside
<1>10. CASE UNCHANGED vars
  BY <1>10 DEF vars
<1>11. CASE AutostartPanics
  BY <1>11 DEF AutostartPanics, ServingInv, Knows
<1> QED BY <1>1, <1>2, <1>3, <1>4, <1>5, <1>6, <1>7, <1>8, <1>9, <1>10, <1>11 DEF Next

LEMMA KnowledgeInvariant ==
  ASSUME Sequential
  PROVE  Spec => []KnowledgeInv
<1>1. Init => KnowledgeInv
  BY DEF Init, KnowledgeInv, KeysInv, Knows, Deref
<1>2. TypeInv /\ ServingInv /\ AloneInv /\ KnowledgeInv /\ [Next]_vars => KnowledgeInv'
  BY NextKeepsKnowledge
<1> QED BY <1>1, <1>2, Typed, Positions, AloneInvariant, PTL DEF Spec

\* Behind the REST router, and behind any front ends that get no queries, an
\* operation decides on its own listing: found.Powered is what isRunningVm
\* returned to it, although any request may write that field.
THEOREM DecidesOnItsOwnListing ==
  ASSUME Sequential
  PROVE  Spec => []NoInterference
<1>1. KnowledgeInv => NoInterference
  BY DEF KnowledgeInv, Knows, NoInterference
<1> QED BY <1>1, KnowledgeInvariant, PTL

\* Under the same condition Delete never calls DeleteVM for a running machine.
THEOREM DeletesStoppedMachines ==
  ASSUME Sequential
  PROVE  Spec => []DeletesOnlyStopped
<1>1. KnowledgeInv => DeletesOnlyStopped
  BY DEF KnowledgeInv, Knows, DeletesOnlyStopped
<1> QED BY <1>1, KnowledgeInvariant, PTL

\* Behind the REST router, no two requests touch the cache maps at once.
THEOREM RestNoMapRace ==
  ASSUME RestClients = Clients
  PROVE  Spec => []NoMapRace
<1>1. NetInv => NoMapRace
  BY DEF NetInv, Active, NoMapRace
<1> QED BY <1>1, NetInvariant, PTL
------------------------------------------------------------------------------
(***************************************************************************)
(* Names, one request at a time, when external calls do not fail and       *)
(* nobody else adds machines.  Two machines of one name would come from a  *)
(* Create that took its name to be free when it was not, so the invariant  *)
(* follows what a lookup by name has established on its way to the clone:  *)
(* the cache has no entry for the name, and nobody bears it.               *)
(***************************************************************************)
Named == \A u \in live : vmname[u] # NoName

\* o is a structure for n, and no other existing machine bears that name.
Bears(o, n) == NameOf(o) = n /\ \A v \in live : vmname[v] = n => v = UuidOf(o)

Sole(o) == NameOf(o) # NoName /\ Bears(o, NameOf(o))

NameKeys == \A n \in Names : byname[n] # NoObj => Bears(byname[n], n)

\* The list that registeredVM is building is empty unless it is being built.
ScanInv ==
  /\ built # {} => mutex \in Clients /\ pc[mutex] = "scan"
  /\ \A o \in built : Sole(o)

\* What a client knows of the name it looks for, by where it is.
KnowsName(c) ==
  /\ seen[c] # "error"
  /\ op[c] \in {"Create", "CreateFrom", "ByName"} => wanted[c] \in Names
  /\ pc[c] = "fetch" /\ ByNameOp(c) => byname[wanted[c]] = NoObj
  /\ pc[c] \in {"exists", "evict", "list", "assign", "publish", "use"} /\ ByNameOp(c)
       => Bears(vm[c], wanted[c])
  /\ pc[c] = "publish" => Sole(vm[c])
  /\ pc[c] = "evict" => UuidOf(vm[c]) \notin live
  /\ op[c] = "CreateFrom" => ~ Taken(wanted[c]) /\ byname[wanted[c]] = NoObj
  /\ op[c] = "CreateFrom" /\ pc[c] = "publish" => NameOf(vm[c]) # wanted[c]

NamesInv ==
  /\ Named /\ UniqueNames /\ NameKeys /\ ScanInv
  /\ \A c \in Clients : KnowsName(c)

\* While no machine is added, what is known of names stays true.
LEMMA Shrinking ==
  ASSUME live' \subseteq live, vmname' = vmname
  PROVE  /\ \A o, n : Bears(o, n) => Bears(o, n)'
         /\ \A o : Sole(o) => Sole(o)'
         /\ \A n : ~ Taken(n) => ~ Taken(n)'
         /\ \A o : NameOf(o)' = NameOf(o)
         /\ Named => Named'
         /\ UniqueNames => UniqueNames'
BY DEF Bears, Sole, Taken, NameOf, Named, UniqueNames

\* What fetchVM builds for an existing machine.
LEMMA LiveIsSole ==
  ASSUME Named, UniqueNames, NEW u \in live, NEW o, UuidOf(o) = u
  PROVE  Sole(o) /\ NameOf(o) = vmname[u] /\ Bears(o, vmname[u])
BY DEF Named, UniqueNames, Sole, Bears, NameOf

\* Nobody builds maps while a client that is not building any is inside.
LEMMA NothingBuilt ==
  ASSUME AloneInv, PositionInv, ScanInv, NEW c \in Clients, Inside(c), pc[c] # "scan"
  PROVE  built = {}
BY DEF AloneInv, PositionInv, Position, ScanInv, Inside

LEMMA StepKeepsOwnNames ==
  ASSUME ~ Faults, TypeInv, PositionInv, MutexInv, AloneInv, NamesInv,
         NEW c \in Clients, Step(c), Inside(c), ~ Clone(c)
  PROVE  /\ live' \subseteq live /\ vmname' = vmname
         /\ NameKeys' /\ ScanInv' /\ KnowsName(c)'
<1> USE VmrunAssumption DEF TypeInv, TypeOK, Deref, ByNameOp, world, cache, locks, scan,
      asked, local, Goto, Finish, NamesInv, NameKeys, KnowsName, Bears, Sole, Taken, NameOf
<1>1. /\ pc[c] # "scan" => built = {}
      /\ pc[c] = "scan" => mutex = c
      /\ pc[c] \in {"getall", "scan", "collect"} => op[c] = "List"
  BY NothingBuilt DEF MutexInv, PositionInv, Position
<1>2. CASE Lookup(c)
  BY <1>1, <1>2 DEF Lookup, ScanInv
<1>3. CASE StillExists(c)
  BY <1>1, <1>3 DEF StillExists, ScanInv
<1>4. CASE Evict(c)
  BY <1>1, <1>4 DEF Evict, Missed, Forgotten, ScanInv
<1>5. CASE ListRunning(c)
  BY <1>1, <1>5 DEF ListRunning, ScanInv
<1>6. CASE AssignPowered(c)
  BY <1>1, <1>6 DEF AssignPowered, Found, ScanInv
<1>7. CASE Fetch(c)
  BY <1>1, <1>7, FreshIsFree, LiveIsSole DEF Fetch, Missed, ScanInv
<1>8. CASE Publish(c)
  BY <1>1, <1>8 DEF Publish, Found, ScanInv
<1>9. CASE Use(c)
  BY <1>1, <1>9 DEF Use, ScanInv
<1>10. CASE DeleteVM(c)
  BY <1>1, <1>10 DEF DeleteVM, ScanInv
<1>11. CASE Forget(c)
  BY <1>1, <1>11 DEF Forget, Forgotten, ScanInv
<1>12. CASE Start(c)
  BY <1>1, <1>12 DEF Start, ScanInv
<1>13. CASE Stop(c)
  BY <1>1, <1>13 DEF Stop, ScanInv
<1>14. CASE Mark(c)
  BY <1>1, <1>14 DEF Mark, ScanInv
<1>15. CASE PrepareVM(c)
  BY <1>1, <1>15 DEF PrepareVM, ScanInv
<1>16. CASE GetAllVMs(c)
  BY <1>1, <1>16 DEF GetAllVMs, ScanInv
<1>17. CASE FetchNext(c)
  BY <1>1, <1>17, FreshIsFree, LiveIsSole DEF FetchNext, ScanInv
<1>18. CASE Swap(c)
  <2>1. byname' \in ByNamesOf(built) /\ built' = {} /\ UNCHANGED world
    BY <1>18 DEF Swap
  <2>2. \A n \in Names : byname'[n] # NoObj => byname'[n] \in built /\ NameOf(byname'[n]) = n
    BY <2>1, BuiltNames
  <2>3. NameKeys'
    BY <2>1, <2>2 DEF ScanInv
  <2>4. KnowsName(c)'
    BY <1>1, <1>18 DEF Swap
  <2> QED BY <2>1, <2>3, <2>4 DEF ScanInv
<1>19. CASE Collect(c)
  BY <1>1, <1>19 DEF Collect, ScanInv
<1>20. CASE Done(c)
  BY <1>1, <1>20 DEF Done, Reset, ScanInv
<1> QED BY <1>2, <1>3, <1>4, <1>5, <1>6, <1>7, <1>8, <1>9, <1>10, <1>11, <1>12,
           <1>13, <1>14, <1>15, <1>16, <1>17, <1>18, <1>19, <1>20 DEF Step

LEMMA CloneKeepsNames ==
  ASSUME ~ Faults, TypeInv, PositionInv, AloneInv, NamesInv, NEW c \in Clients, Clone(c)
  PROVE  /\ Named' /\ UniqueNames' /\ NameKeys' /\ ScanInv' /\ KnowsName(c)'
<1> USE VmrunAssumption DEF TypeInv, TypeOK, ByNameOp, world, cache, locks, scan,
      asked, local, Goto, Finish
<1>1. built = {} /\ op[c] = "CreateFrom" /\ wanted[c] \in Names
  <2>1. pc[c] = "clone" /\ op[c] = "CreateFrom"
    BY DEF Clone, PositionInv, Position
  <2>2. Inside(c)
    BY <2>1 DEF Inside
  <2> QED BY <2>1, <2>2, NothingBuilt DEF NamesInv, KnowsName
<1>2. ScanInv' /\ KnowsName(c)'
  BY <1>1 DEF NamesInv, KnowsName, ScanInv, Clone, Taken
<1>3. CASE UNCHANGED <<live, vmname>>
  BY <1>1, <1>2, <1>3 DEF NamesInv, Named, UniqueNames, NameKeys, Bears, NameOf, Clone
<1>4. ASSUME NEW u \in Uuids, vmname[u] = NoName, live' = live \cup {u},
             vmname' = [vmname EXCEPT ![u] = wanted[c]]
      PROVE  Named' /\ UniqueNames' /\ NameKeys'
  <2>1. u \notin live /\ ~ Taken(wanted[c]) /\ byname[wanted[c]] = NoObj
    BY <1>1, <1>4 DEF NamesInv, KnowsName, Named
  <2>2. Named' /\ UniqueNames'
    BY <1>1, <1>4, <2>1 DEF NamesInv, Named, UniqueNames, Taken
  <2>3. ASSUME NEW n \in Names, byname'[n] # NoObj
        PROVE  Bears(byname[n], n)'
    <3>1. byname' = byname /\ n # wanted[c] /\ Bears(byname[n], n) /\ byname[n] \in Objs
      BY <2>1, <2>3 DEF Clone, NamesInv, NameKeys
    <3>2. UuidOf(byname[n]) # u
      BY <1>4, <3>1 DEF Bears, NameOf
    <3>3. UuidOf(byname[n]) \in Uuids
      BY <3>1 DEF Objs, UuidOf
    <3> QED BY <1>1, <1>4, <3>1, <3>2, <3>3 DEF Bears, NameOf
  <2> QED BY <2>2, <2>3 DEF NameKeys, Clone
<1> QED BY <1>2, <1>3, <1>4 DEF Clone

\* The answer to a listing changes nothing that names depend on.
LEMMA AnswerKeepsNames ==
  ASSUME TypeInv, NamesInv, NEW c \in Clients, Collect(c) \/ Done(c)
  PROVE  /\ UNCHANGED <<live, vmname, byname>>
         /\ Named' /\ UniqueNames' /\ NameKeys' /\ ScanInv' /\ KnowsName(c)'
<1>1. UNCHANGED <<live, vmname, byname, built>>
  BY DEF Collect, Done, world, cache, scan
<1>2. Named' /\ UniqueNames' /\ NameKeys'
  BY <1>1 DEF NamesInv, Named, UniqueNames, NameKeys, Bears, NameOf
<1>3. ScanInv'
  BY <1>1 DEF TypeInv, TypeOK, NamesInv, ScanInv, Sole, Bears, NameOf, Collect, Done, Reset,
              Goto, Finish, locks
<1>4. KnowsName(c)'
  BY <1>1 DEF TypeInv, TypeOK, NamesInv, KnowsName, Collect, Done, Reset, Goto, Finish, asked,
              Taken, ByNameOp
<1> QED BY <1>1, <1>2, <1>3, <1>4

\* A step of c does not touch what another client knows of its name.
LEMMA OthersKeepNames ==
  ASSUME TypeInv, PositionInv, AloneInv, NamesInv, NEW c \in Clients, Step(c),
         NEW d \in Clients, d # c
  PROVE  KnowsName(d)'
<1>1. /\ pc'[d] = pc[d] /\ op'[d] = op[d] /\ wanted'[d] = wanted[d]
      /\ vm'[d] = vm[d] /\ seen'[d] = seen[d]
  BY OthersLocal
<1>2. CASE Inside(c)
  <2>1. ~ Inside(d)
    BY <1>2 DEF AloneInv
  <2> QED BY <1>1, <2>1 DEF NamesInv, KnowsName, Inside, PositionInv, Position
<1>3. CASE ~ Inside(c)
  <2>1. UNCHANGED <<live, vmname, byname>>
    BY <1>3, OutsideAnswers, AnswerKeepsNames
  <2> QED BY <1>1, <2>1 DEF NamesInv, KnowsName, Bears, Sole, Taken, NameOf, ByNameOp
<1> QED BY <1>2, <1>3

LEMMA StepKeepsNames ==
  ASSUME ~ Faults, TypeInv, PositionInv, MutexInv, AloneInv, NamesInv,
         NEW c \in Clients, Step(c)
  PROVE  NamesInv'
<1>1. \A d \in Clients \ {c} : KnowsName(d)'
  BY OthersKeepNames
<1>2. CASE Clone(c)
  BY <1>1, <1>2, CloneKeepsNames DEF NamesInv
<1>3. CASE Inside(c) /\ ~ Clone(c)
  BY <1>1, <1>3, StepKeepsOwnNames, Shrinking DEF NamesInv
<1>4. CASE ~ Inside(c)
  BY <1>1, <1>4, OutsideAnswers, AnswerKeepsNames DEF NamesInv
<1> QED BY <1>2, <1>3, <1>4

LEMMA NextKeepsNamesInv ==
  ASSUME ~ Faults, ~ Additions, TypeInv, ServingInv, PositionInv, MutexInv, AloneInv,
         NamesInv, [Next]_vars
  PROVE  NamesInv'
<1> USE VmrunAssumption DEF NamesInv, KnowsName, ScanInv, TypeInv, TypeOK, world, cache,
      locks, scan, asked, local, Goto, ByNameOp, Taken, NameKeys, Bears, Sole, NameOf,
      Named, UniqueNames
<1>1. CASE StartAutostartVM
  <2>1. built = {} /\ \A c \in Clients : pc[c] = "idle"
    BY <1>1 DEF StartAutostartVM, ServingInv
  <2>2. CASE UNCHANGED <<byuuid, byname, powered, running>>
    BY <1>1, <2>1, <2>2 DEF StartAutostartVM
  <2>3. CASE ~ UNCHANGED <<byuuid, byname, powered, running>>
    <3> DEFINE objs == {Fresh(u) : u \in live}
    <3>1. (\A u \in live : Free(u) # {}) /\ byname' \in ByNamesOf(objs)
      BY <1>1, <2>3 DEF StartAutostartVM
    <3>2. \A o \in objs : UuidOf(o) \in live
      BY <3>1, FreshIsFree
    <3>3. \A n \in Names : byname'[n] # NoObj => byname'[n] \in objs /\ NameOf(byname'[n]) = n
      BY <3>1, BuiltNames
    <3>4. UNCHANGED <<live, vmname>>
      BY <1>1 DEF StartAutostartVM
    <3> HIDE DEF objs
    <3>5. NameKeys'
      BY <3>2, <3>3, <3>4
    <3> QED BY <1>1, <2>1, <3>4, <3>5 DEF StartAutostartVM, PositionInv, Position
  <2> QED BY <2>2, <2>3
<1>2. CASE Restart
  BY <1>2 DEF Restart
<1>3. ASSUME NEW c \in Clients, Invoke(c) PROVE NamesInv'
  BY <1>3 DEF Invoke, Serialised, Unlocked
<1>4. ASSUME NEW c \in Clients, AcquireNet(c) PROVE NamesInv'
  BY <1>4 DEF AcquireNet
<1>5. ASSUME NEW c \in Clients, AcquireMutex(c) PROVE NamesInv'
  BY <1>5 DEF AcquireMutex
<1>6. ASSUME NEW c \in Clients, Step(c) PROVE NamesInv'
  BY <1>6, StepKeepsNames
<1>7. ASSUME NEW u \in Uuids, GuestHalts(u) PROVE NamesInv'
  BY <1>7 DEF GuestHalts
<1>8. ASSUME NEW u \in Uuids, RemovedOutside(u) PROVE NamesInv'
  BY <1>8 DEF RemovedOutside
<1>9. CASE UNCHANGED vars
  BY <1>9 DEF vars
<1>10. CASE AutostartPanics
  BY <1>10 DEF AutostartPanics
<1> QED BY <1>1, <1>2, <1>3, <1>4, <1>5, <1>6, <1>7, <1>8, <1>9, <1>10 DEF Next, AddedOutside

LEMMA NamesInvariant ==
  ASSUME Sequential, ~ Faults, ~ Additions
  PROVE  Spec => []NamesInv
<1>1. Init => NamesInv
  BY VmrunAssumption DEF Init, NamesInv, Named, UniqueNames, NameKeys, ScanInv, KnowsName, ByNameOp
<1>2. TypeInv /\ ServingInv /\ PositionInv /\ MutexInv /\ AloneInv /\ NamesInv /\ [Next]_vars => NamesInv'
  BY NextKeepsNamesInv
<1> QED BY <1>1, <1>2, Typed, Positions, MutexInvariant, AloneInvariant, PTL DEF Spec

\* One request at a time, as long as vmrest and vmrun do not fail and machines are
\* only added through the service, Create never gives a name twice.
THEOREM NamesAreUnique ==
  ASSUME Sequential, ~ Faults, ~ Additions
  PROVE  Spec => []UniqueNames
<1>1. NamesInv => UniqueNames
  BY DEF NamesInv
<1> QED BY <1>1, NamesInvariant, PTL

\* Under the same conditions no entry of cachebyname, however old, hides the
\* existing machine of that name.
THEOREM NoEntryHidesAMachine ==
  ASSUME Sequential, ~ Faults, ~ Additions
  PROVE  Spec => []NameCacheAgrees
<1>1. TypeInv /\ NamesInv => NameCacheAgrees
  BY DEF TypeInv, TypeOK, NamesInv, Named, NameKeys, Bears, NameCacheAgrees
<1> QED BY <1>1, Typed, NamesInvariant, PTL

\* Under the same conditions VirtualMachineByName drops a dead machine from its
\* cache and answers "not found" only if no other machine bears the name.
THEOREM NotFoundIsTrue ==
  ASSUME Sequential, ~ Faults, ~ Additions
  PROVE  Spec => []NotFoundMeansNone
<1>1. NamesInv => NotFoundMeansNone
  BY DEF NamesInv, KnowsName, Bears, Taken, NotFoundMeansNone, ByNameOp
<1> QED BY <1>1, NamesInvariant, PTL
==============================================================================
