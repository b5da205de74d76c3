------------------------- MODULE VmrunRefinementProofs -------------------------
(***************************************************************************)
(* One request at a time, Vmrun implements VmService: Atomic, for every    *)
(* number of clients, machines and names.  As long as machines may be      *)
(* created, external calls must not fail and nobody else may add machines. *)
(***************************************************************************)
EXTENDS VmrunRefinement, VmrunProofs

------------------------------------------------------------------------------
(***************************************************************************)
(* The refinement, step by step.  A step of Vmrun by one client changes    *)
(* the request and the answer of that client only; most of its steps       *)
(* change neither, nor the machines, and the others decide the request.    *)
(***************************************************************************)

\* A name may be hidden by the entry of a machine that has gone, or taken for
\* free after a failed call, only if there are such calls or other users.  Both
\* concern Create alone, and a lookup, which then says that it has failed.
Undisturbed == (~ Faults /\ ~ Additions) \/ (Faults /\ "Create" \notin Ops)

AtomicInv ==
  /\ TypeInv /\ ServingInv /\ PositionInv /\ LabelInv /\ KnowledgeInv
  /\ ~ Faults /\ ~ Additions => NamesInv

\* Where calls may fail, nothing is created.
LEMMA CreateIsUndisturbed ==
  ASSUME Undisturbed, AtomicInv, NEW c \in Clients, op[c] \in {"Create", "CreateFrom", "CreateNew"}
  PROVE  ~ Faults /\ NamesInv
BY VmrunAssumption DEF Undisturbed, AtomicInv, TypeInv, TypeOK, PositionInv, Position

\* What VmService sees of a client is what it was.
Same(c) == PendingOf(c)' = PendingOf(c) /\ AnswerOf(c)' = AnswerOf(c)

OthersSame(c) == \A d \in Clients \ {c} : Same(d)

LEMMA OthersUnseen ==
  ASSUME TypeInv, NEW c \in Clients,
         Invoke(c) \/ AcquireNet(c) \/ AcquireMutex(c) \/ Step(c)
  PROVE  OthersSame(c)
BY OthersLocal DEF OthersSame, Same, PendingOf, AnswerOf, Decided

\* A step that only moves its client is no step of VmService.
LEMMA Silent ==
  ASSUME NEW c \in Clients, OthersSame(c), Same(c), UNCHANGED world
  PROVE  UNCHANGED Service!vars
BY DEF OthersSame, Same, world, Service!vars

\* A step that gives its client an answer decides the request.
LEMMA Decides ==
  ASSUME NEW c \in Clients, OthersSame(c), PendingOf(c)' = PendingOf(c),
         AnswerOf(c) = "none", NEW a, AnswerOf(c)' = a
  PROVE  Service!Decide(c, PendingOf(c).op, a)
BY DEF OthersSame, Same, Service!Decide

\* A machine that was created is answered for, prepared or not.
LEMMA Answers ==
  ASSUME NEW c \in Clients, OthersSame(c), PendingOf(c)' = PendingOf(c), UNCHANGED world,
         AnswerOf(c) = "created", NEW a \in {"ok", "failed"}, AnswerOf(c)' = a
  PROVE  Service!Created(c)
<1>1. [d \in Clients |-> PendingOf(d)]' = [d \in Clients |-> PendingOf(d)]
  BY DEF OthersSame, Same
<1>2. [d \in Clients |-> AnswerOf(d)]' = [[d \in Clients |-> AnswerOf(d)] EXCEPT ![c] = a]
  BY DEF OthersSame, Same
<1> QED BY <1>1, <1>2 DEF Service!Created, world

\* Any decision is a step of VmService.
LEMMA DecisionIsNext ==
  ASSUME NEW c \in Clients, Service!Decision(c)
  PROVE  [Service!Next]_(Service!vars)
BY DEF Service!Next

\* "vmrun list" has been read: a query is answered, and a change that is not
\* needed, or not allowed, is decided; a Create has found its name taken.
LEMMA ListingMaps ==
  ASSUME AtomicInv, NEW c \in Clients, OthersSame(c), UNCHANGED world,
         UNCHANGED <<op, target, wanted>>,
         pc[c] \in {"list", "fetch"}, pc'[c] \in {"assign", "publish"},
         NEW u \in Uuids,
         seen'[c] = (IF u \in running THEN "on" ELSE "off"),
         ~ ByNameOp(c) => u = target[c],
         ByNameOp(c) => vmname[u] = wanted[c],
         op[c] = "Create" /\ pc[c] = "fetch" => Taken(wanted[c])
  PROVE  [Service!Next]_(Service!vars)
<1> USE DEF AtomicInv, TypeInv, TypeOK, PositionInv, Position, world, Serialised, Unlocked,
      ByNameOp
<1>1. PendingOf(c)' = PendingOf(c)
  BY DEF PendingOf
<1>2. CASE Same(c)
  BY <1>2, Silent
<1>3. CASE op[c] = "Create" /\ pc[c] = "fetch"
  <2>1. AnswerOf(c) = "none" /\ AnswerOf(c)' = "refused" /\ PendingOf(c).op = "Create"
        /\ PendingOf(c).wanted = wanted[c]
    BY <1>3 DEF AnswerOf, Decided, PendingOf
  <2>2. Service!CreateRefused(c)
    BY <1>1, <1>3, <2>1, Decides DEF Service!CreateRefused, Service!Taken, Taken
  <2> QED BY <2>2, DecisionIsNext DEF Service!Decision
<1>4. CASE op[c] \in {"Create", "CreateFrom", "CreateNew"} /\ ~ (op[c] = "Create" /\ pc[c] = "fetch")
  BY <1>1, <1>2, <1>4 DEF AnswerOf, Decided, Same
<1>5. ASSUME op[c] \in {"PowerState", "ByName", "PowerOn", "PowerOff", "ShutdownGuest", "Delete"}
      PROVE  /\ AnswerOf(c) = "none" /\ AnswerOf(c)' = Decided(c)'
             /\ PendingOf(c) = [op |-> op[c], target |-> target[c], wanted |-> wanted[c]]
  BY <1>5 DEF AnswerOf, PendingOf
<1>6. CASE op[c] = "PowerState"
  <2>1. AnswerOf(c)' = IF PendingOf(c).target \in running THEN "on" ELSE "off"
    BY <1>5, <1>6 DEF Decided
  <2>2. Service!PowerState(c)
    BY <1>1, <1>5, <1>6, <2>1, Decides DEF Service!PowerState
  <2> QED BY <2>2, DecisionIsNext DEF Service!Decision
<1>7. CASE op[c] = "ByName"
  <2>1. AnswerOf(c)' = IF u \in running THEN "on" ELSE "off"
    BY <1>5, <1>7 DEF Decided
  <2>2. Service!ByName(c)
    BY <1>1, <1>5, <1>7, <2>1, Decides DEF Service!ByName
  <2> QED BY <2>2, DecisionIsNext DEF Service!Decision
<1>8. CASE op[c] = "PowerOn" /\ u \in running
  <2>1. AnswerOf(c)' = "ok" /\ PendingOf(c).target \in live
        /\ running' = running \cup {PendingOf(c).target}
    BY <1>5, <1>8 DEF Decided
  <2>2. Service!PowerOn(c)
    BY <1>1, <1>5, <1>8, <2>1, Decides DEF Service!PowerOn
  <2> QED BY <2>2, DecisionIsNext DEF Service!Decision
<1>9. CASE op[c] \in {"PowerOff", "ShutdownGuest"} /\ u \notin running
  <2>1. AnswerOf(c)' = "ok" /\ running' = running \ {PendingOf(c).target}
    BY <1>5, <1>9 DEF Decided
  <2>2. Service!PowerOff(c)
    BY <1>1, <1>5, <1>9, <2>1, Decides DEF Service!PowerOff
  <2> QED BY <2>2, DecisionIsNext DEF Service!Decision
<1>10. CASE op[c] = "Delete" /\ u \in running
  <2>1. AnswerOf(c)' = "refused" /\ PendingOf(c).target \in running
    BY <1>5, <1>10 DEF Decided
  <2>2. Service!DeleteRefused(c)
    BY <1>1, <1>5, <1>10, <2>1, Decides DEF Service!DeleteRefused
  <2> QED BY <2>2, DecisionIsNext DEF Service!Decision
<1>11. CASE \/ op[c] = "PowerOn" /\ u \notin running
            \/ op[c] \in {"PowerOff", "ShutdownGuest"} /\ u \in running
            \/ op[c] = "Delete" /\ u \notin running
  <2>1. AnswerOf(c)' = "none"
    BY <1>5, <1>11 DEF Decided
  <2> QED BY <1>1, <1>2, <1>5, <1>11, <2>1 DEF Same
<1>12. op[c] \in {"Create", "CreateFrom", "CreateNew", "PowerState", "ByName", "PowerOn",
                  "PowerOff", "ShutdownGuest", "Delete"}
  BY VmrunAssumption
<1> QED BY <1>3, <1>4, <1>6, <1>7, <1>8, <1>9, <1>10, <1>11, <1>12

\* A lookup has failed: Create goes on with its template, a Create that has lost
\* its clone fails, anything else is missing, or a call has failed.
LEMMA MissedMaps ==
  ASSUME Undisturbed, AtomicInv, NEW c \in Clients, OthersSame(c), UNCHANGED world, Missed(c),
         pc[c] \in {"evict", "fetch", "assign"},
         pc[c] = "assign" => seen[c] = "error" /\ Faults,
         Faults \/ ByNameOp(c) \/ target[c] \notin live,
         Faults \/ ~ ByNameOp(c) \/ ~ Taken(wanted[c])
  PROVE  [Service!Next]_(Service!vars)
<1> USE DEF AtomicInv, TypeInv, TypeOK, PositionInv, Position, ByNameOp, Missed, Goto, Finish
<1>1. PendingOf(c)' = PendingOf(c)
  BY DEF PendingOf
<1>2. CASE op[c] = "Create"
  <2>1. pc[c] # "assign"
    BY <1>2, CreateIsUndisturbed
  <2>2. Same(c)
    BY <1>1, <1>2, <2>1 DEF Same, AnswerOf, Decided, Unlocked
  <2> QED BY <2>2, Silent
<1>3. CASE op[c] = "CreateNew"
  <2>1. AnswerOf(c) = "created" /\ AnswerOf(c)' = "failed"
    BY <1>3 DEF AnswerOf
  <2>2. Service!Created(c)
    BY <1>1, <2>1, Answers
  <2> QED BY <2>2, DecisionIsNext DEF Service!Decision
<1>4. CASE op[c] \notin {"Create", "CreateNew"}
  <2>1. AnswerOf(c) = "none" /\ AnswerOf(c)' = "missing"
    BY <1>4 DEF AnswerOf, Decided
  <2>2. PendingOf(c).op \in Ops \ {"List"} /\ PendingOf(c).wanted = wanted[c]
        /\ PendingOf(c).target = target[c]
    BY <1>4, VmrunAssumption DEF PendingOf, Serialised, Unlocked
  <2>3. Service!Decide(c, PendingOf(c).op, "missing")
    BY <1>1, <2>1, Decides
  <2>4. Faults \/ (CASE PendingOf(c).op = "Create" -> Template \notin live
                     [] PendingOf(c).op = "ByName" -> ~ Taken(PendingOf(c).wanted)
                     [] OTHER                      -> PendingOf(c).target \notin live)
    <3>1. CASE op[c] = "CreateFrom"
      BY <3>1 DEF PendingOf
    <3>2. CASE op[c] = "ByName"
      BY <3>2 DEF PendingOf
    <3>3. CASE op[c] \notin {"CreateFrom", "ByName"}
      BY <1>4, <3>3, <2>2 DEF PendingOf
    <3> QED BY <3>1, <3>2, <3>3
  <2>5. Service!Missing(c)
    BY <2>2, <2>3, <2>4 DEF Service!Missing, Service!Taken, Taken, world
  <2> QED BY <2>5, DecisionIsNext DEF Service!Decision
<1> QED BY <1>2, <1>3, <1>4

\* A command has failed: the machine is gone, or is off already, or the call
\* itself has failed.
LEMMA FailedMaps ==
  ASSUME AtomicInv, NEW c \in Clients, OthersSame(c), UNCHANGED world,
         UNCHANGED <<op, target, wanted>>, Finish(c, "failed"),
         pc[c] \in {"delete", "start", "stop", "clone", "getall", "scan"},
         pc[c] \in {"delete", "start"} => Faults \/ target[c] \notin live,
         pc[c] = "stop" => Faults \/ target[c] \notin running
  PROVE  [Service!Next]_(Service!vars)
<1> USE DEF AtomicInv, TypeInv, TypeOK, PositionInv, Position
<1>1. PendingOf(c)' = PendingOf(c) /\ PendingOf(c).op \in Ops
  BY VmrunAssumption DEF PendingOf
<1>2. AnswerOf(c) = "none" /\ AnswerOf(c)' = "failed"
  BY DEF AnswerOf, Finish, Goto
<1>3. \/ Faults
      \/ PendingOf(c).op \in {"Create", "List"}
      \/ PendingOf(c).target \notin live
      \/ PendingOf(c).op \in {"PowerOff", "ShutdownGuest"} /\ PendingOf(c).target \notin running
  BY DEF PendingOf
<1>4. Service!Decide(c, PendingOf(c).op, "failed")
  BY <1>1, <1>2, Decides
<1>5. Service!Failed(c)
  BY <1>1, <1>3, <1>4 DEF Service!Failed, world
<1> QED BY <1>5, DecisionIsNext DEF Service!Decision

\* VirtualMachineByUUID and VirtualMachineByName, call by call.
LEMMA LookupMaps ==
  ASSUME Undisturbed, AtomicInv, NEW c \in Clients, OthersSame(c),
         \/ Lookup(c) \/ StillExists(c) \/ Evict(c) \/ ListRunning(c)
         \/ AssignPowered(c) \/ Fetch(c) \/ Publish(c)
  PROVE  [Service!Next]_(Service!vars)
<1> USE DEF AtomicInv, TypeInv, TypeOK, PositionInv, Position, ByNameOp, Goto, Finish,
      world, cache, locks, scan, asked
<1>1. CASE Lookup(c)
  <2>1. Same(c)
    BY <1>1 DEF Lookup, Same, PendingOf, AnswerOf, Decided, Unlocked
  <2> QED BY <1>1, <2>1, Silent DEF Lookup
<1>2. CASE StillExists(c)
  <2>1. PendingOf(c)' = PendingOf(c) /\ UNCHANGED world
    BY <1>2 DEF StillExists, PendingOf
  <2>2. CASE op[c] = "Create" /\ UuidOf(vm[c]) \in live
    <3>1. Taken(PendingOf(c).wanted)
      BY <1>2, <2>2 DEF StillExists, LabelInv, HoldsNamed, NameOf, Taken, PendingOf
    <3>2. AnswerOf(c) = "none" /\ AnswerOf(c)' = "refused" /\ PendingOf(c).op = "Create"
      BY <1>2, <2>2, CreateIsUndisturbed DEF StillExists, AnswerOf, Decided, PendingOf
    <3>3. Service!CreateRefused(c)
      BY <2>1, <3>1, <3>2, Decides DEF Service!CreateRefused, Service!Taken, Taken
    <3> QED BY <3>3, DecisionIsNext DEF Service!Decision
  <2>3. CASE ~ (op[c] = "Create" /\ UuidOf(vm[c]) \in live)
    <3>1. Same(c)
      BY <1>2, <2>1, <2>3 DEF StillExists, Same, AnswerOf, Decided, Unlocked
    <3> QED BY <2>1, <3>1, Silent
  <2> QED BY <2>2, <2>3
<1>3. CASE Evict(c)
  <2>1. ~ ByNameOp(c) => UuidOf(vm[c]) = target[c]
    BY <1>3 DEF Evict, KnowledgeInv, Knows, Deref
  <2>2. pc[c] = "evict" /\ Missed(c) /\ UNCHANGED world
    BY <1>3 DEF Evict
  <2>3. CASE Faults
    BY <2>2, <2>3, MissedMaps
  <2>4. CASE ~ Faults
    <3>1. UuidOf(vm[c]) \notin live /\ (ByNameOp(c) => Bears(vm[c], wanted[c]))
      BY <2>2, <2>4 DEF Undisturbed, NamesInv, KnowsName
    <3>2. ByNameOp(c) => ~ Taken(wanted[c])
      BY <3>1 DEF Bears, Taken
    <3> QED BY <2>1, <2>2, <3>1, <3>2, MissedMaps
  <2> QED BY <2>3, <2>4
<1>4. CASE ListRunning(c)
  <2>1. vm[c] \in Objs /\ UuidOf(vm[c]) \in Uuids
    BY <1>4 DEF ListRunning, Deref, Objs, UuidOf
  <2>2. ~ ByNameOp(c) => UuidOf(vm[c]) = target[c]
    BY <1>4 DEF ListRunning, KnowledgeInv, Knows, Deref
  <2>3. ByNameOp(c) => vmname[UuidOf(vm[c])] = wanted[c]
    BY <1>4 DEF ListRunning, LabelInv, HoldsNamed, NameOf
  <2>4. CASE seen'[c] = IF UuidOf(vm[c]) \in running THEN "on" ELSE "off"
    BY <1>4, <2>1, <2>2, <2>3, <2>4, ListingMaps DEF ListRunning
  <2>5. CASE Faults /\ seen'[c] = "error"
    <3>1. op[c] \notin {"Create", "CreateFrom", "CreateNew"}
      BY <2>5, CreateIsUndisturbed
    <3>2. Same(c)
      BY <1>4, <2>5, <3>1 DEF ListRunning, Same, PendingOf, AnswerOf, Decided
    <3> QED BY <1>4, <3>2, Silent DEF ListRunning
  <2> QED BY <1>4, <2>4, <2>5 DEF ListRunning
<1>5. CASE AssignPowered(c)
  <2>1. CASE seen[c] # "error"
    <3>1. Same(c)
      BY <1>5, <2>1, VmrunAssumption
      DEF AssignPowered, Found, Same, PendingOf, AnswerOf, Decided, Unlocked
    <3> QED BY <1>5, <3>1, Silent DEF AssignPowered
  <2>2. CASE seen[c] = "error"
    <3>1. Faults
      BY <2>2 DEF Undisturbed, NamesInv, KnowsName
    <3> QED BY <1>5, <2>2, <3>1, MissedMaps DEF AssignPowered
  <2> QED BY <2>1, <2>2
<1>6. CASE Fetch(c)
  <2>1. CASE Missed(c)
    <3>1. pc'[c] \in {"lookup", "done"}
      BY <2>1 DEF Missed
    <3>2. Faults \/ \A u \in live : IF ByNameOp(c) THEN vmname[u] # wanted[c] ELSE u # target[c]
      BY <1>6, <3>1 DEF Fetch
    <3> QED BY <1>6, <2>1, <3>2, MissedMaps DEF Fetch, Taken
  <2>2. CASE ~ Missed(c)
    <3>1. PICK u \in live : /\ IF ByNameOp(c) THEN vmname[u] = wanted[c] ELSE u = target[c]
                            /\ seen' = [seen EXCEPT ![c] = IF u \in running THEN "on" ELSE "off"]
                            /\ Goto(c, "publish") /\ UNCHANGED asked
      BY <1>6, <2>2 DEF Fetch
    <3>2. op[c] = "Create" => Taken(wanted[c])
      BY <3>1 DEF Taken
    <3> QED BY <1>6, <3>1, <3>2, ListingMaps DEF Fetch
  <2> QED BY <2>1, <2>2
<1>7. CASE Publish(c)
  <2>1. Same(c)
    BY <1>7, VmrunAssumption
    DEF Publish, Found, Same, PendingOf, AnswerOf, Decided, Unlocked
  <2> QED BY <1>7, <2>1, Silent DEF Publish
<1> QED BY <1>1, <1>2, <1>3, <1>4, <1>5, <1>6, <1>7

\* What an operation does with the machine that it looked up.
LEMMA CommandMaps ==
  ASSUME Undisturbed, AtomicInv, NEW c \in Clients, OthersSame(c),
         Use(c) \/ DeleteVM(c) \/ Forget(c) \/ Start(c) \/ Stop(c) \/ Mark(c)
  PROVE  [Service!Next]_(Service!vars)
<1> USE DEF AtomicInv, TypeInv, TypeOK, PositionInv, Position, Goto, Finish,
      world, cache, locks, scan, asked
<1>1. CASE Use(c)
  <2>1. seen[c] \in {"on", "off"} /\ (IsOn(c) <=> seen[c] = "on")
    BY <1>1 DEF Use, KnowledgeInv, Knows
  <2>2. Same(c)
    BY <1>1, <2>1 DEF Use, Same, PendingOf, AnswerOf, Decided, Unlocked
  <2> QED BY <1>1, <2>2, Silent DEF Use
<1>2. CASE DeleteVM(c)
  <2>1. /\ PendingOf(c)' = PendingOf(c) /\ AnswerOf(c) = "none"
        /\ PendingOf(c).op = "Delete" /\ PendingOf(c).target = target[c]
    BY <1>2 DEF DeleteVM, PendingOf, AnswerOf
  <2>2. target[c] \notin running
    BY <1>2 DEF DeleteVM, KnowledgeInv, Knows
  <2>3. CASE target[c] \in live /\ live' = live \ {target[c]} /\ running' = running \ {target[c]}
             /\ Goto(c, "forget") /\ res' = [res EXCEPT ![c] = "ok"]
    <3>1. AnswerOf(c)' = "ok" /\ running' = running /\ vmname' = vmname
      BY <1>2, <2>2, <2>3 DEF DeleteVM, AnswerOf
    <3>2. Service!Delete(c)
      BY <2>1, <2>2, <2>3, <3>1, Decides DEF Service!Delete
    <3> QED BY <3>2, DecisionIsNext DEF Service!Decision
  <2>4. CASE (Faults \/ target[c] \notin live) /\ Finish(c, "failed") /\ UNCHANGED <<live, running>>
    BY <1>2, <2>4, FailedMaps DEF DeleteVM
  <2> QED BY <1>2, <2>2, <2>3, <2>4 DEF DeleteVM
<1>3. CASE Forget(c)
  <2>1. Same(c)
    BY <1>3 DEF Forget, Same, PendingOf, AnswerOf
  <2> QED BY <1>3, <2>1, Silent DEF Forget
<1>4. CASE Start(c)
  <2>1. /\ PendingOf(c)' = PendingOf(c) /\ AnswerOf(c) = "none"
        /\ PendingOf(c).op = "PowerOn" /\ PendingOf(c).target = target[c]
    BY <1>4 DEF Start, PendingOf, AnswerOf
  <2>2. UuidOf(vm[c]) = target[c] /\ target[c] \notin running
    BY <1>4 DEF Start, KnowledgeInv, Knows, Deref, ByNameOp
  <2>3. CASE target[c] \in live /\ running' = running \cup {target[c]}
             /\ Goto(c, "mark") /\ res' = [res EXCEPT ![c] = "ok"]
    <3>1. AnswerOf(c)' = "ok" /\ UNCHANGED <<live, vmname>>
      BY <1>4, <2>3 DEF Start, AnswerOf
    <3>2. Service!PowerOn(c)
      BY <2>1, <2>3, <3>1, Decides DEF Service!PowerOn
    <3> QED BY <3>2, DecisionIsNext DEF Service!Decision
  <2>4. CASE (Faults \/ target[c] \notin live) /\ Finish(c, "failed") /\ UNCHANGED running
    BY <1>4, <2>4, FailedMaps DEF Start
  <2> QED BY <1>4, <2>2, <2>3, <2>4 DEF Start
<1>5. CASE Stop(c)
  <2>1. /\ PendingOf(c)' = PendingOf(c) /\ AnswerOf(c) = "none"
        /\ PendingOf(c).op \in {"PowerOff", "ShutdownGuest"} /\ PendingOf(c).target = target[c]
    <3>1. PendingOf(c).op = op[c] /\ op[c] \in {"PowerOff", "ShutdownGuest"} /\ pc[c] = "stop"
      BY <1>5 DEF Stop, PendingOf
    <3>2. AnswerOf(c) = "none"
      BY <3>1 DEF AnswerOf
    <3> QED BY <1>5, <3>1, <3>2 DEF Stop, PendingOf
  <2>2. UuidOf(vm[c]) = target[c]
    BY <1>5 DEF Stop, KnowledgeInv, Knows, Deref, ByNameOp
  <2>3. CASE running' = running \ {target[c]} /\ pc'[c] \in {"mark", "done"}
             /\ res' = [res EXCEPT ![c] = "ok"]
    <3>1. AnswerOf(c)' = "ok" /\ UNCHANGED <<live, vmname>>
      BY <1>5, <2>3 DEF Stop, AnswerOf
    <3>2. Service!PowerOff(c)
      BY <2>1, <2>3, <3>1, Decides DEF Service!PowerOff
    <3> QED BY <3>2, DecisionIsNext DEF Service!Decision
  <2>4. CASE (Faults \/ target[c] \notin running) /\ Finish(c, "failed") /\ UNCHANGED running
    BY <1>5, <2>4, FailedMaps DEF Stop
  <2> QED BY <1>5, <2>2, <2>3, <2>4 DEF Stop
<1>6. CASE Mark(c)
  <2>1. Same(c)
    BY <1>6 DEF Mark, Same, PendingOf, AnswerOf
  <2> QED BY <1>6, <2>1, Silent DEF Mark
<1> QED BY <1>1, <1>2, <1>3, <1>4, <1>5, <1>6

\* Create clones under a name that is free, at the moment of the call.
LEMMA CreateMaps ==
  ASSUME Undisturbed, AtomicInv, NEW c \in Clients, OthersSame(c), Clone(c) \/ PrepareVM(c)
  PROVE  [Service!Next]_(Service!vars)
<1> USE DEF AtomicInv, TypeInv, TypeOK, PositionInv, Position, Goto, Finish,
      world, cache, locks, scan, asked
<1>1. CASE Clone(c) /\ op'[c] = "CreateNew"
  <2>1. op[c] = "CreateFrom" /\ target[c] = Template /\ pc[c] = "clone"
    BY <1>1 DEF Clone
  <2>2. PICK u \in Uuids : /\ vmname[u] = NoName /\ live' = live \cup {u}
                           /\ vmname' = [vmname EXCEPT ![u] = wanted[c]]
    BY <1>1, <2>1 DEF Clone
  <2>3. /\ Template \in live /\ pc'[c] = "lookup"
        /\ wanted'[c] = wanted[c] /\ running' = running
    BY <1>1, <2>1 DEF Clone
  <2>4. PendingOf(c)' = PendingOf(c) /\ PendingOf(c).op = "Create" /\ PendingOf(c).wanted = wanted[c]
    BY <1>1, <2>1, <2>3 DEF PendingOf
  <2>5. AnswerOf(c) = "none" /\ AnswerOf(c)' = "created"
    BY <1>1, <2>1, <2>3 DEF AnswerOf
  <2>6. u \notin live /\ ~ Taken(wanted[c])
    BY <2>1, <2>2, CreateIsUndisturbed DEF NamesInv, Named, KnowsName
  <2>7. Service!Create(c, u)
    BY <2>2, <2>3, <2>4, <2>5, <2>6, Decides DEF Service!Create, Service!Taken, Taken
  <2> QED BY <2>7, DecisionIsNext DEF Service!Decision
<1>2. CASE Clone(c) /\ op'[c] # "CreateNew"
  BY <1>2, FailedMaps DEF Clone
<1>3. CASE PrepareVM(c)
  <2>1. op[c] = "CreateNew" /\ pc[c] = "prepare" /\ PendingOf(c)' = PendingOf(c) /\ UNCHANGED world
    BY <1>3 DEF PrepareVM, PendingOf
  <2>2. AnswerOf(c) = "created"
    BY <2>1 DEF AnswerOf
  <2>3. AnswerOf(c)' \in {"ok", "failed"}
    BY <1>3 DEF PrepareVM, AnswerOf
  <2>4. Service!Created(c)
    BY <2>1, <2>2, <2>3, Answers
  <2> QED BY <2>4, DecisionIsNext DEF Service!Decision
<1> QED BY <1>1, <1>2, <1>3

\* A listing is answered when the maps it filled are in place.
LEMMA ListMaps ==
  ASSUME Undisturbed, AtomicInv, NEW c \in Clients, OthersSame(c),
         GetAllVMs(c) \/ FetchNext(c) \/ Swap(c) \/ Collect(c)
  PROVE  [Service!Next]_(Service!vars)
<1> USE DEF AtomicInv, TypeInv, TypeOK, PositionInv, Position, Goto, Finish,
      world, cache, locks, scan, asked
<1>1. op[c] = "List" /\ pc[c] \in {"getall", "scan", "collect"} /\ UNCHANGED world /\ UNCHANGED asked
  BY DEF GetAllVMs, FetchNext, Swap, Collect
<1>2. PendingOf(c)' = PendingOf(c) /\ PendingOf(c).op = "List" /\ AnswerOf(c) = "none"
  BY <1>1 DEF PendingOf, AnswerOf, Unlocked
<1>3. CASE Swap(c) \/ (GetAllVMs(c) /\ pc'[c] = "scan") \/ (FetchNext(c) /\ UNCHANGED pc)
  <2>1. pc'[c] \in {"scan", "collect"}
    BY <1>1, <1>3 DEF GetAllVMs, Swap, FetchNext
  <2>2. Same(c)
    BY <1>1, <1>2, <2>1 DEF Same, AnswerOf, Unlocked
  <2> QED BY <1>1, <2>2, Silent
<1>4. CASE (GetAllVMs(c) /\ pc'[c] # "scan") \/ (FetchNext(c) /\ ~ UNCHANGED pc)
  BY <1>1, <1>4, FailedMaps DEF GetAllVMs, FetchNext
<1>5. CASE Collect(c)
  <2>1. AnswerOf(c)' = "ok"
    BY <1>5 DEF Collect, AnswerOf
  <2>2. Service!List(c)
    BY <1>1, <1>2, <2>1, Decides DEF Service!List
  <2> QED BY <2>2, DecisionIsNext DEF Service!Decision
<1> QED BY <1>3, <1>4, <1>5

\* A request arrives, or waits for a lock, or is answered.
LEMMA ArrivalMaps ==
  ASSUME AtomicInv, NEW c \in Clients, OthersSame(c),
         Invoke(c) \/ AcquireNet(c) \/ AcquireMutex(c) \/ Done(c)
  PROVE  [Service!Next]_(Service!vars)
<1> USE DEF AtomicInv, TypeInv, TypeOK, PositionInv, Position, Goto, Finish,
      world, cache, locks, scan, asked
<1>1. CASE Invoke(c)
  <2>1. /\ pc[c] = "idle" /\ pc'[c] \in {"net", "lookup", "mutex"}
        /\ op'[c] \in Ops /\ target'[c] \in Uuids /\ wanted'[c] \in Names \cup {NoName}
    BY <1>1 DEF Invoke
  <2>2. PendingOf(c)' = [op |-> op'[c], target |-> target'[c], wanted |-> wanted'[c]]
    BY <2>1, VmrunAssumption DEF PendingOf, Serialised, Unlocked
  <2>3. PendingOf(c) = Service!NoRequest /\ PendingOf(c)' \in Service!Requests
    BY <2>1, <2>2 DEF PendingOf, Service!NoRequest, Service!Requests
  <2>4. AnswerOf(c) = "none" /\ AnswerOf(c)' = "none"
    BY <2>1, VmrunAssumption DEF AnswerOf, Serialised, Unlocked
  <2>5. [d \in Clients |-> AnswerOf(d)]' = [d \in Clients |-> AnswerOf(d)]
    BY <2>4 DEF OthersSame, Same
  <2>6. [d \in Clients |-> PendingOf(d)]'
          = [[d \in Clients |-> PendingOf(d)] EXCEPT ![c] = PendingOf(c)']
    BY DEF OthersSame, Same
  <2>7. Service!Request(c)
    BY <1>1, <2>3, <2>5, <2>6 DEF Invoke, Service!Request
  <2> QED BY <2>7 DEF Service!Next
<1>2. CASE AcquireNet(c) \/ AcquireMutex(c)
  <2>1. Same(c) /\ UNCHANGED world
    BY <1>2 DEF AcquireNet, AcquireMutex, Same, PendingOf, AnswerOf, Unlocked
  <2> QED BY <2>1, Silent
<1>3. CASE Done(c)
  <2>1. AnswerOf(c) = res[c] /\ res[c] \notin {"none", "created"}
    BY <1>3 DEF Done, AnswerOf
  <2>2. PendingOf(c)' = Service!NoRequest /\ AnswerOf(c)' = "none" /\ UNCHANGED world
    BY <1>3 DEF Done, Reset, PendingOf, AnswerOf, Service!NoRequest
  <2>3. [d \in Clients |-> PendingOf(d)]'
          = [[d \in Clients |-> PendingOf(d)] EXCEPT ![c] = Service!NoRequest]
    BY <2>2 DEF OthersSame, Same
  <2>4. [d \in Clients |-> AnswerOf(d)]' = [[d \in Clients |-> AnswerOf(d)] EXCEPT ![c] = "none"]
    BY <2>2 DEF OthersSame, Same
  <2>5. Service!Return(c)
    BY <2>1, <2>2, <2>3, <2>4 DEF Service!Return
  <2> QED BY <2>5 DEF Service!Next
<1> QED BY <1>1, <1>2, <1>3

\* A client that is idle is seen as one that asks for nothing.
LEMMA IdleIsUnseen ==
  ASSUME NEW c \in Clients, pc[c] = "idle", op[c] = "none", target[c] = Template,
         wanted[c] = NoName
  PROVE  PendingOf(c) = Service!NoRequest /\ AnswerOf(c) = "none"
BY DEF PendingOf, AnswerOf, Unlocked, Service!NoRequest

\* The service starts and dies; machines halt, disappear and appear.
LEMMA WorldMaps ==
  ASSUME AtomicInv, \/ StartAutostartVM \/ AutostartPanics \/ Restart
                    \/ \E u \in Uuids : GuestHalts(u) \/ RemovedOutside(u)
                    \/ \E u \in Uuids, n \in Names : AddedOutside(u, n)
  PROVE  [Service!Next]_(Service!vars)
<1> USE DEF AtomicInv, PositionInv, Position, world, local
<1>1. CASE StartAutostartVM
  <2>1. \A c \in Clients : PendingOf(c) = Service!NoRequest /\ AnswerOf(c) = "none"
    BY <1>1, IdleIsUnseen DEF StartAutostartVM, ServingInv
  <2>2. \A c \in Clients : Same(c)
    BY <1>1 DEF StartAutostartVM, Same, PendingOf, AnswerOf, Decided
  <2>3. CASE UNCHANGED running
    BY <1>1, <2>2, <2>3 DEF StartAutostartVM, Same, Service!vars
  <2>4. CASE ~ UNCHANGED running
    <3>1. \E s \in SUBSET (Autostart \cap live) : running' = running \cup s
      BY <1>1, <2>4 DEF StartAutostartVM
    <3>2. Service!Boot
      BY <1>1, <2>1, <2>2, <3>1 DEF StartAutostartVM, Same, Service!Boot
    <3> QED BY <3>2 DEF Service!Next
  <2> QED BY <2>3, <2>4
<1>2. CASE Restart
  <2>1. \A c \in Clients : PendingOf(c)' = Service!NoRequest /\ AnswerOf(c)' = "none"
    BY <1>2 DEF Restart, PendingOf, AnswerOf, Unlocked, Service!NoRequest
  <2>2. Service!Crash
    BY <1>2, <2>1 DEF Restart, Service!Crash
  <2> QED BY <2>2 DEF Service!Next
<1>3. ASSUME NEW u \in Uuids, GuestHalts(u) PROVE [Service!Next]_(Service!vars)
  <2>1. \A c \in Clients : Same(c)
    BY <1>3 DEF GuestHalts, Same, PendingOf, AnswerOf, Decided
  <2>2. Service!GuestHalts(u)
    BY <1>3, <2>1 DEF GuestHalts, Same, Service!GuestHalts
  <2> QED BY <2>2 DEF Service!Next
<1>4. ASSUME NEW u \in Uuids, RemovedOutside(u) PROVE [Service!Next]_(Service!vars)
  <2>1. \A c \in Clients : Same(c)
    BY <1>4 DEF RemovedOutside, Same, PendingOf, AnswerOf, Decided
  <2>2. Service!RemovedOutside(u)
    BY <1>4, <2>1 DEF RemovedOutside, Same, Service!RemovedOutside
  <2> QED BY <2>2 DEF Service!Next
<1>5. ASSUME NEW u \in Uuids, NEW n \in Names, AddedOutside(u, n)
      PROVE  [Service!Next]_(Service!vars)
  <2>1. \A c \in Clients : Same(c)
    BY <1>5 DEF AddedOutside, Same, PendingOf, AnswerOf, Decided
  <2>2. Service!AddedOutside(u, n)
    BY <1>5, <2>1 DEF AddedOutside, Same, Service!AddedOutside, Service!Taken, Taken
  <2> QED BY <2>2 DEF Service!Next
<1>6. CASE AutostartPanics
  <2>1. \A c \in Clients : PendingOf(c) = Service!NoRequest /\ AnswerOf(c) = "none"
    BY <1>6, IdleIsUnseen DEF AutostartPanics, ServingInv
  <2>2. \A c \in Clients : Same(c)
    BY <1>6 DEF AutostartPanics, Same, PendingOf, AnswerOf, Decided
  <2>3. Service!Boot
    BY <1>6, <2>1, <2>2 DEF AutostartPanics, Same, Service!Boot
  <2> QED BY <2>3 DEF Service!Next
<1> QED BY <1>1, <1>2, <1>3, <1>4, <1>5, <1>6

LEMMA NextMaps ==
  ASSUME Undisturbed, AtomicInv, [Next]_vars
  PROVE  [Service!Next]_(Service!vars)
<1>1. CASE \/ StartAutostartVM \/ AutostartPanics \/ Restart
           \/ \E u \in Uuids : GuestHalts(u) \/ RemovedOutside(u)
           \/ \E u \in Uuids, n \in Names : AddedOutside(u, n)
  BY <1>1, WorldMaps
<1>2. ASSUME NEW c \in Clients, Invoke(c) \/ AcquireNet(c) \/ AcquireMutex(c) \/ Step(c)
      PROVE  [Service!Next]_(Service!vars)
  <2>1. OthersSame(c)
    BY <1>2, OthersUnseen DEF AtomicInv
  <2> QED BY <1>2, <2>1, ArrivalMaps, LookupMaps, CommandMaps, CreateMaps, ListMaps DEF Step
<1>3. CASE UNCHANGED vars
  BY <1>3 DEF vars, Service!vars, PendingOf, AnswerOf, Decided
<1> QED BY <1>1, <1>2, <1>3 DEF Next

\* When the invariants above hold, in every state they hold together.
LEMMA AtomicInvariant ==
  ASSUME Sequential, Undisturbed
  PROVE  Spec => []AtomicInv
<1>1. CASE ~ Faults /\ ~ Additions
  BY <1>1, Typed, Positions, LabelsInvariant, KnowledgeInvariant, NamesInvariant, PTL
  DEF AtomicInv
<1>2. CASE ~ (~ Faults /\ ~ Additions)
  BY <1>2, Typed, Positions, LabelsInvariant, KnowledgeInvariant, PTL DEF AtomicInv
<1> QED BY <1>1, <1>2

\* Each request of VmrunExe has its whole effect on VMware, and its answer, at one
\* instant between its arrival and its answer, for any number of requests that
\* overlap and in spite of caches, restarts and users: behind the REST router, and
\* behind any front ends that get no queries; when no call fails and nobody else
\* adds machines, or when nobody asks for a machine to be created.
THEOREM RequestsAreAtomic ==
  ASSUME Sequential, Undisturbed
  PROVE  Spec => Atomic
<1>1. Init => Service!Init
  <2> SUFFICES ASSUME Init PROVE Service!Init
    OBVIOUS
  <2>1. \A c \in Clients : PendingOf(c) = Service!NoRequest /\ AnswerOf(c) = "none"
    BY IdleIsUnseen DEF Init
  <2> QED BY <2>1 DEF Init, Service!Init
<1>2. AtomicInv /\ [Next]_vars => [Service!Next]_(Service!vars)
  BY NextMaps
<1> QED BY <1>1, <1>2, AtomicInvariant, PTL DEF Spec, Atomic, Service!Spec
==============================================================================
