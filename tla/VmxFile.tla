------------------------------- MODULE VmxFile -------------------------------
(***************************************************************************)
(* The requests that change the vmx file of one machine: Create, which     *)
(* prepares it, SetAutoStart, AddNetworkInterface, ChangeNetworkInterface; *)
(* and Status, which reads it.  Each loads the whole file, edits what it   *)
(* loaded, truncates the file and writes it again, piece by piece; vmrest  *)
(* edits the same file when it is asked for a card.  Only SetAutoStart and *)
(* Status come in through gRPC too, which takes no lock for them.          *)
(***************************************************************************)
EXTENDS VmxMap, FiniteSets

CONSTANTS
  Clients,      \* requests in progress at one time, at most
  RestClients,  \* those that come in through the REST router
  NoClient

Edits == {"SetAutoStart", "Add", "Change", "Prepare"}

ASSUME VmxFileAssumption ==
  /\ RestClients \subseteq Clients
  /\ NoClient \notin Clients

VARIABLES
  file,      \* the vmx file on disk
  prepared,  \* the machine has been created: other requests may name it
  strayed,   \* history: a change has set up a card beyond the first free number
  netLock,   \* who holds netLock of the REST router
  pc, op,    \* per client: where it is in what operation
  flag,      \* per client: the autostart value asked for
  type,      \* per client: the type of the network asked for
  card,      \* per client: the number of the card, or how many are asked for
  copy,      \* per client: the VMXMap in memory
  next,      \* per client: the entry that Save writes next
  res        \* per client: the answer

request == <<op, flag, type>>
vars    == <<file, prepared, strayed, netLock, pc, op, flag, type, card, copy, next, res>>

Labels == {"idle", "net", "count", "create", "update", "load", "save", "write", "done"}

Init ==
  /\ file \in {v \in Vmx : v.named /\ Contiguous(v)}
  /\ prepared \in BOOLEAN
  /\ strayed = FALSE
  /\ netLock = NoClient
  /\ pc = [c \in Clients |-> "idle"]
  /\ op = [c \in Clients |-> "none"]
  /\ flag = [c \in Clients |-> "false"]
  /\ type = [c \in Clients |-> "custom"]
  /\ card = [c \in Clients |-> 0]
  /\ copy = [c \in Clients |-> Blank]
  /\ next = [c \in Clients |-> 0]
  /\ res = [c \in Clients |-> "none"]

Goto(c, l) == pc' = [pc EXCEPT ![c] = l]

Finish(c, r) == Goto(c, "done") /\ res' = [res EXCEPT ![c] = r]

\* Where the operation begins once the request may run.
Entry(c, o, t) ==
  CASE o = "Add"                     -> "count"
    [] o = "Change" /\ t = "nat"     -> "update"
    [] OTHER                         -> "load"

(***************************************************************************)
(* A request arrives.  The card to change is any number: nobody looks      *)
(* whether it is there; `nic` counts from 1.  Until Create has answered,   *)
(* nobody knows the machine.                                               *)
(***************************************************************************)
InvokeWith(c, o, b, t, nic) ==
  /\ IF prepared THEN o # "Prepare"
     ELSE o = "Prepare" /\ \A d \in Clients : pc[d] = "idle"
  /\ c \notin RestClients => o \in {"SetAutoStart", "Status"}
  /\ o \notin {"Change", "Prepare"} => nic = 0
  /\ o \notin {"SetAutoStart", "Prepare"} => b = "false"
  /\ o \notin {"Add", "Change"} => t = "custom"
  /\ op' = [op EXCEPT ![c] = o]
  /\ flag' = [flag EXCEPT ![c] = b]
  /\ type' = [type EXCEPT ![c] = t]
  /\ card' = [card EXCEPT ![c] = IF o = "Change" THEN nic - 1 ELSE nic]
  /\ Goto(c, IF c \in RestClients THEN "net" ELSE Entry(c, o, t))

Invoke(c) ==
  /\ pc[c] = "idle"
  /\ \E o \in Edits \cup {"Status"}, b \in {"true", "false"}, t \in Types, nic \in 0 .. MaxNics :
       InvokeWith(c, o, b, t, nic)
  /\ UNCHANGED <<file, prepared, strayed, netLock, copy, next, res>>

\* Variant: a handler that does not take netLock.
AcquireNetShared(c) ==
  /\ pc[c] = "net"
  /\ Goto(c, Entry(c, op[c], type[c]))
  /\ UNCHANGED <<file, prepared, strayed, netLock, request, card, copy, next, res>>

AcquireNet(c) ==
  /\ pc[c] = "net" /\ netLock = NoClient
  /\ netLock' = c
  /\ Goto(c, Entry(c, op[c], type[c]))
  /\ UNCHANGED <<file, prepared, strayed, request, card, copy, next, res>>

\* Variant: the new card is numbered from 1.
CountFromOne(c) ==
  /\ pc[c] = "count"
  /\ card' = [card EXCEPT ![c] = Cardinality(Present(file)) + 1]
  /\ Goto(c, IF type[c] = "custom" THEN "load" ELSE "create")
  /\ UNCHANGED <<file, prepared, strayed, netLock, request, copy, next, res>>

\* Variant: the new card takes the number of the last one.
CountLast(c) ==
  /\ pc[c] = "count"
  /\ card' = [card EXCEPT ![c] = Cardinality(Present(file)) - 1]
  /\ Goto(c, IF type[c] = "custom" THEN "load" ELSE "create")
  /\ UNCHANGED <<file, prepared, strayed, netLock, request, copy, next, res>>

\* GetAllNICDevices: the new card gets the number of cards as its number.
Count(c) ==
  /\ pc[c] = "count"
  /\ \/ /\ card' = [card EXCEPT ![c] = Cardinality(Present(file))]
        /\ Goto(c, IF type[c] = "custom" THEN "load" ELSE "create")
        /\ UNCHANGED res
     \/ Finish(c, "failed") /\ UNCHANGED card
  /\ UNCHANGED <<file, prepared, strayed, netLock, request, copy, next>>

\* vmrest gives the new card the first number that is free.
CreateNICDevice(c) ==
  /\ pc[c] = "create"
  /\ \/ \E i \in Nics \ Present(file) :
          /\ \A j \in 0 .. i - 1 : j \in Present(file)
          /\ file' = WithNat(file, i)
          /\ card' = [card EXCEPT ![c] = i]
          /\ Goto(c, "load")
          /\ UNCHANGED res
     \/ Finish(c, "failed") /\ UNCHANGED <<file, card>>
  /\ UNCHANGED <<prepared, strayed, netLock, request, copy, next>>

UpdateNICDevice(c) ==
  /\ pc[c] = "update"
  /\ \/ /\ card[c] \in Present(file)
        /\ file' = WithType(file, card[c])
        /\ Goto(c, "load")
        /\ UNCHANGED res
     \/ Finish(c, "failed") /\ UNCHANGED file
  /\ UNCHANGED <<prepared, strayed, netLock, request, card, copy, next>>

\* LoadVMX, and the index into pcislotnumber that prepareEthernet takes.
Load(c) ==
  /\ pc[c] = "load"
  /\ \/ /\ copy' = [copy EXCEPT ![c] = file]
        /\ IF op[c] = "Status" THEN Finish(c, "ok")
           ELSE IF op[c] \in {"Add", "Change"} /\ type[c] = "custom"
                   /\ card[c] \notin 0 .. Slots - 1
                THEN Finish(c, "panic")
                ELSE Goto(c, "save") /\ UNCHANGED res
     \/ Finish(c, "failed") /\ UNCHANGED copy
  /\ UNCHANGED <<file, prepared, strayed, netLock, request, card, next>>

Edited(c, v) ==
  CASE op[c] = "SetAutoStart" -> WithAutostart(v, flag[c])
    [] op[c] = "Prepare"      -> Prepared(v, flag[c], card[c])
    [] OTHER                  -> IF type[c] = "custom" THEN WithCustom(v, card[c])
                                                       ELSE WithDevice(v, card[c])

\* ChangeNetworkInterface sets up a card that is not there, and leaves a gap.
Strays(c) ==
  /\ op[c] = "Change" /\ type[c] = "custom"
  /\ \E j \in 0 .. card[c] - 1 : j \notin Present(copy[c])

\* Save opens the file with O_TRUNC.
Truncate(c) ==
  /\ pc[c] = "save"
  /\ \/ /\ file' = Blank
        /\ copy' = [copy EXCEPT ![c] = Edited(c, copy[c])]
        /\ next' = [next EXCEPT ![c] = 0]
        /\ strayed' = (strayed \/ Strays(c))
        /\ Goto(c, "write")
        /\ UNCHANGED res
     \/ Finish(c, "failed") /\ UNCHANGED <<file, strayed, copy, next>>
  /\ UNCHANGED <<prepared, netLock, request, card>>

\* The buffer of bufio.Writer is written when it is full, and by Flush.  An
\* error, which bufio keeps for every later write, is dropped: Save returns nil.
Write(c) ==
  /\ pc[c] = "write"
  /\ \/ \E k \in next[c] + 1 .. Entries :
          /\ file' = Written(file, copy[c], next[c], k)
          /\ next' = [next EXCEPT ![c] = k]
          /\ IF k = Entries THEN Finish(c, "ok") ELSE UNCHANGED <<pc, res>>
     \/ Finish(c, "ok") /\ UNCHANGED <<file, next>>
  /\ UNCHANGED <<prepared, strayed, netLock, request, card, copy>>


Reset(c) ==
  /\ Goto(c, "idle")
  /\ op' = [op EXCEPT ![c] = "none"]
  /\ flag' = [flag EXCEPT ![c] = "false"]
  /\ type' = [type EXCEPT ![c] = "custom"]
  /\ card' = [card EXCEPT ![c] = 0]
  /\ copy' = [copy EXCEPT ![c] = Blank]
  /\ next' = [next EXCEPT ![c] = 0]
  /\ res' = [res EXCEPT ![c] = "none"]

\* Variant: the unlock is not deferred, and a panic skips it.
DoneUnlessPanic(c) ==
  /\ pc[c] = "done"
  /\ Reset(c)
  /\ prepared' = (prepared \/ op[c] = "Prepare")
  /\ netLock' = IF netLock = c /\ res[c] # "panic" THEN NoClient ELSE netLock
  /\ UNCHANGED <<file, strayed>>

\* The deferred unlock runs, and net/http recovers a handler that panics.
Done(c) ==
  /\ pc[c] = "done"
  /\ Reset(c)
  /\ prepared' = (prepared \/ op[c] = "Prepare")
  /\ netLock' = IF netLock = c THEN NoClient ELSE netLock
  /\ UNCHANGED <<file, strayed>>

\* The process dies and is started again; the machines are listed anew.
Restart ==
  /\ \E c \in Clients : pc[c] # "idle"
  /\ prepared' = TRUE
  /\ netLock' = NoClient
  /\ pc' = [c \in Clients |-> "idle"]
  /\ op' = [c \in Clients |-> "none"]
  /\ flag' = [c \in Clients |-> "false"]
  /\ type' = [c \in Clients |-> "custom"]
  /\ card' = [c \in Clients |-> 0]
  /\ copy' = [c \in Clients |-> Blank]
  /\ next' = [c \in Clients |-> 0]
  /\ res' = [c \in Clients |-> "none"]
  /\ UNCHANGED <<file, strayed>>

Step(c) ==
  \/ Count(c) \/ CreateNICDevice(c) \/ UpdateNICDevice(c)
  \/ Load(c) \/ Truncate(c) \/ Write(c) \/ Done(c)

Next ==
  \/ \E c \in Clients : Invoke(c) \/ AcquireNet(c) \/ Step(c)
  \/ Restart

Spec == Init /\ [][Next]_vars

\* File operations and vmrest return, and a Go mutex is not withheld for ever
\* from a goroutine that waits for it.
Fairness == \A c \in Clients : WF_vars(Step(c)) /\ SF_vars(AcquireNet(c))

FairSpec == Spec /\ Fairness
------------------------------------------------------------------------------
(***************************************************************************)
(* Properties.                                                             *)
(***************************************************************************)

\* Every variable has its type, and what is asked for fits the operation.
TypeOK ==
  /\ file \in Vmx
  /\ prepared \in BOOLEAN
  /\ strayed \in BOOLEAN
  /\ netLock \in Clients \cup {NoClient}
  /\ pc \in [Clients -> Labels]
  /\ op \in [Clients -> Edits \cup {"none", "Status"}]
  /\ flag \in [Clients -> {"true", "false"}]
  /\ type \in [Clients -> Types]
  /\ card \in [Clients -> -1 .. MaxNics]
  /\ copy \in [Clients -> Vmx]
  /\ next \in [Clients -> 0 .. Entries]
  /\ res \in [Clients -> {"none", "ok", "failed", "panic"}]

\* What LoadVMX read is still what the file says when Save truncates it, and
\* when Status answers: no edit is lost, and none is made from half a file.
LoadedIsCurrent ==
  \A c \in Clients :
    (pc[c] = "save" \/ (pc[c] = "done" /\ op[c] = "Status" /\ res[c] = "ok"))
    => copy[c] = file

\* Status lists every card, unless ChangeNetworkInterface has set up a card
\* beyond the first free number: no other edit, no two edits one after the
\* other, no crash and no full disk make a gap for it to stop at.
StatusReportsAllCards ==
  \A c \in Clients :
    pc[c] = "done" /\ op[c] = "Status" /\ res[c] = "ok" /\ ~ strayed
    => Reported(copy[c]) = Present(copy[c])

\* Every request is answered, also when prepareEthernet panics while the
\* handler holds netLock.
EveryEditEnds ==
  \A c \in Clients : pc[c] # "idle" ~> pc[c] = "idle"

(***************************************************************************)
(* Behind the REST router the file goes through the versions that          *)
(* VmxSettings allows.  While Save writes, the version is the one that the *)
(* holder of netLock has in memory; what it does is the request in hand.   *)
(***************************************************************************)
Version ==
  IF netLock \in Clients /\ pc[netLock] = "write" THEN copy[netLock] ELSE file

InHand == IF netLock \in Clients THEN op[netLock] ELSE "none"

Settings == INSTANCE VmxSettings WITH settings <- Version, request <- InHand

\* Every edit takes the file from one whole version to the next one and makes
\* the change its own request asks for and no other; a new card takes the place
\* of none as long as there is no gap; and only a crash, or a write error of
\* the request that is saving, which is told of a success, leaves less than a
\* whole version: the beginning of the one that was being written.
WholeVersions == Settings!Spec
==============================================================================
