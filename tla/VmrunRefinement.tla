--------------------------- MODULE VmrunRefinement ---------------------------
(***************************************************************************)
(* Behind the REST router, Vmrun implements VmService: every request has   *)
(* its effect, and gets its answer, at one instant.                        *)
(***************************************************************************)
EXTENDS Vmrun

\* The request as it was made: Create looks machines up under other names.
PendingOf(c) ==
  [op     |-> IF op[c] \in {"CreateFrom", "CreateNew"} THEN "Create"
              ELSE IF op[c] = "none" THEN "idle" ELSE op[c],
   target |-> IF op[c] = "CreateNew" THEN Template ELSE target[c],
   wanted |-> wanted[c]]

\* The instant a request is decided is the one at which its "vmrun list" (or,
\* for a name that is taken, its GetVM) shows that there is nothing to do, or
\* the one at which the command that changes the machine succeeds.
Decided(c) ==
  CASE op[c] \in Unlocked /\ seen[c] # "error" -> seen[c]
    [] op[c] = "PowerOn" /\ seen[c] = "on" -> "ok"
    [] op[c] \in {"PowerOff", "ShutdownGuest"} /\ seen[c] = "off" -> "ok"
    [] op[c] = "Delete" /\ seen[c] = "on" -> "refused"
    [] OTHER -> "none"

AnswerOf(c) ==
  IF pc[c] \in {"forget", "mark", "done"} THEN res[c]
  ELSE CASE op[c] = "CreateNew" -> "created"
         [] op[c] = "Create" /\ pc[c] \in {"list", "assign", "publish"} -> "refused"
         [] op[c] \notin {"Create", "CreateNew"} /\ pc[c] \in {"assign", "publish", "use"} -> Decided(c)
         [] OTHER -> "none"

Service == INSTANCE VmService WITH
  pending <- [c \in Clients |-> PendingOf(c)],
  answer  <- [c \in Clients |-> AnswerOf(c)]

\* Each request behaves as if it were alone: what it reports about a machine,
\* and what it does to it, rests on one state of VMware, and no two machines
\* are ever given one name.
Atomic == Service!Spec
==============================================================================
