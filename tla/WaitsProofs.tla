----------------------------- MODULE WaitsProofs -----------------------------
(***************************************************************************)
(* Theorems about Waits, for any number of requests and any timeouts, when *)
(* all requests come in through the REST router.                           *)
(***************************************************************************)
EXTENDS Waits, TLAPS

------------------------------------------------------------------------------
(***************************************************************************)
(* The inductive invariant.                                                *)
(***************************************************************************)

\* Who is past netLock holds it.
LockInv ==
  \A c \in Clients : pc[c] \in {"stop"} \cup Looking \cup Polling => netLock = c

\* What a request knows of the tools it has found out itself.
KnowsInv ==
  \A c \in Clients :
    /\ pc[c] # "idle" /\ ToolsRun(guest) => ran[c]
    /\ seen[c] = "running" \/ answer[c] = "running" => ran[c]
    /\ pc[c] = "read" => toolsStatus = seen[c]

Inv == TypeOK /\ LockInv /\ KnowsInv

LEMMA InitInv == Init => Inv
<1> SUFFICES ASSUME Init PROVE Inv
  OBVIOUS
<1>1. TypeOK
  BY WaitsAssumption DEF Init, TypeOK, Ops, ToolsStates, Looking, Polling
<1>2. LockInv /\ KnowsInv
  BY DEF Init, LockInv, KnowsInv, Looking, Polling
<1> QED BY <1>1, <1>2 DEF Inv

LEMMA AnswerTypes ==
  ASSUME TypeOK, NEW c \in Clients,
         NEW a \in {"none", "error", "done", "timeout", "address", "running"}, Answer(c, a)
  PROVE  /\ netLock' \in Clients \cup {Nobody}
         /\ pc' \in [Clients -> {"idle", "net", "stop"} \cup Looking \cup Polling]
         /\ answer' \in [Clients -> {"none", "error", "done", "timeout", "address", "running"}]
         /\ pc'[c] = "idle" /\ answer'[c] = a
         /\ \A d \in Clients : d # c => pc'[d] = pc[d] /\ answer'[d] = answer[d]
         /\ netLock # c => netLock' = netLock
BY DEF TypeOK, Answer

LEMMA AgainTypes ==
  ASSUME TypeOK, NEW c \in Clients, pc[c] \in Polling, Again(c)
  PROVE  /\ netLock' \in Clients \cup {Nobody}
         /\ pc' \in [Clients -> {"idle", "net", "stop"} \cup Looking \cup Polling]
         /\ answer' \in [Clients -> {"none", "error", "done", "timeout", "address", "running"}]
         /\ left' \in [Clients -> Nat]
         /\ \/ pc'[c] = "idle" /\ answer'[c] = "timeout"
            \/ pc'[c] = "sleep" /\ netLock' = netLock /\ answer' = answer
         /\ \A d \in Clients : d # c => pc'[d] = pc[d] /\ answer'[d] = answer[d]
         /\ netLock # c => netLock' = netLock
<1>1. CASE left[c] = 1
  BY <1>1, AnswerTypes DEF TypeOK, Again
<1>2. CASE left[c] # 1
  <2>1. /\ UNCHANGED <<netLock, answer>>
        /\ pc' = [pc EXCEPT ![c] = "sleep"]
        /\ left' = [left EXCEPT ![c] = IF left[c] = 0 THEN 0 ELSE left[c] - 1]
    BY <1>2 DEF Again
  <2>2. left' \in [Clients -> Nat]
    <3>1. left[c] \in Nat /\ (IF left[c] = 0 THEN 0 ELSE left[c] - 1) \in Nat
      BY DEF TypeOK
    <3> QED BY <2>1, <3>1 DEF TypeOK
  <2> QED BY <2>1, <2>2 DEF TypeOK, Looking, Polling
<1> QED BY <1>1, <1>2

------------------------------------------------------------------------------
(***************************************************************************)
(* One step.                                                               *)
(***************************************************************************)
LEMMA GuestStep == Inv /\ GuestSteps => Inv'
<1> SUFFICES ASSUME Inv, GuestSteps PROVE Inv'
  OBVIOUS
<1>1. PICK g \in Guests : GuestIs(g)
  BY DEF GuestSteps, Guests
<1>2. UNCHANGED <<toolsStatus, netLock, pc, op, left, seen, answer>>
  BY DEF GuestSteps
<1>3. TypeOK'
  BY <1>1, <1>2 DEF Inv, TypeOK, GuestIs
<1>4. LockInv'
  BY <1>2 DEF Inv, LockInv
<1>5. KnowsInv'
  BY <1>1, <1>2 DEF Inv, TypeOK, KnowsInv, GuestIs
<1> QED BY <1>3, <1>4, <1>5 DEF Inv

LEMMA InvokeStep ==
  ASSUME RestClients = Clients, Inv, NEW c \in Clients, Invoke(c)
  PROVE  Inv'
<1>1. PICK o \in Ops, t \in Timeouts :
        op' = [op EXCEPT ![c] = o] /\ left' = [left EXCEPT ![c] = t]
  BY DEF Invoke
<1>2. pc' = [pc EXCEPT ![c] = "net"] /\ UNCHANGED <<guest, toolsStatus, netLock>>
  BY DEF Invoke, Step
<1>3. /\ ran' = [ran EXCEPT ![c] = ToolsRun(guest)]
      /\ answer' = [answer EXCEPT ![c] = "none"]
      /\ seen' = [seen EXCEPT ![c] = "unknown"]
  BY DEF Invoke
<1>4. ToolsRun(guest) \in BOOLEAN
  BY DEF ToolsRun
<1>5. TypeOK'
  BY <1>1, <1>2, <1>3, <1>4, WaitsAssumption DEF Inv, TypeOK, ToolsStates, Looking, Polling
<1>6. LockInv'
  BY <1>2 DEF Inv, TypeOK, LockInv, Looking, Polling
<1>7. KnowsInv'
  BY <1>2, <1>3 DEF Inv, TypeOK, KnowsInv
<1> QED BY <1>5, <1>6, <1>7 DEF Inv

LEMMA AcquireStep ==
  ASSUME Inv, NEW c \in Clients, AcquireNet(c)
  PROVE  Inv'
<1>1. TypeOK'
  BY DEF Inv, TypeOK, AcquireNet, Step, Looking, Polling
<1>2. LockInv'
  BY WaitsAssumption DEF Inv, TypeOK, LockInv, AcquireNet, Step, Looking, Polling
<1>3. KnowsInv'
  BY DEF Inv, TypeOK, KnowsInv, AcquireNet, Step
<1> QED BY <1>1, <1>2, <1>3 DEF Inv

LEMMA Alone ==
  ASSUME Inv, NEW c \in Clients, pc[c] \in {"stop"} \cup Looking \cup Polling
  PROVE  netLock = c /\ \A d \in Clients : d # c => pc[d] \in {"idle", "net"}
BY DEF Inv, TypeOK, LockInv

LEMMA PastTypes ==
  ASSUME Inv, NEW c \in Clients, Past(c)
  PROVE  TypeOK'
<1> USE DEF Inv
<1>1. CASE Lookup(c)
  <2>1. CASE \E a \in {"error", "done"} : Answer(c, a)
    BY <1>1, <2>1, AnswerTypes DEF TypeOK, Lookup, Looking, Polling
  <2>2. CASE pc' = [pc EXCEPT ![c] = "found"] /\ UNCHANGED <<toolsStatus, netLock, answer>>
    BY <1>1, <2>2 DEF TypeOK, Lookup, Looking, Polling
  <2> QED BY <1>1, <2>1, <2>2 DEF Lookup
<1>2. CASE PowerOff(c)
  BY <1>2, AnswerTypes DEF TypeOK, PowerOff, GuestIs, Guests, ToolsRun, Looking, Polling
<1>3. CASE GetIPAddress(c)
  <2>1. CASE Answer(c, "address")
    BY <1>3, <2>1, AnswerTypes DEF TypeOK, GetIPAddress, Looking, Polling
  <2>2. CASE pc' = [pc EXCEPT ![c] = "check"] /\ UNCHANGED <<netLock, answer>>
    BY <1>3, <2>2 DEF TypeOK, GetIPAddress, Looking, Polling
  <2> QED BY <1>3, <2>1, <2>2 DEF GetIPAddress
<1>4. CASE GetGuestIPAddress(c)
  <2>1. CASE \E a \in {"address", "error"} : Answer(c, a) /\ UNCHANGED left
    BY <1>4, <2>1, AnswerTypes DEF TypeOK, GetGuestIPAddress, Looking, Polling
  <2>2. CASE Again(c)
    BY <1>4, <2>2, AgainTypes DEF TypeOK, GetGuestIPAddress, Looking, Polling
  <2> QED BY <1>4, <2>1, <2>2 DEF GetGuestIPAddress
<1>5. CASE AskTools(c)
  BY <1>5 DEF TypeOK, AskTools, ToolsOf, ToolsStates, Guests, ToolsRun, Step, Looking, Polling
<1>6. CASE StoreToolsStatus(c) \/ Wake(c)
  BY <1>6 DEF TypeOK, StoreToolsStatus, Stored, Wake, Step, Looking, Polling
<1>7. CASE ReadToolsStatus(c)
  <2>1. CASE \E a \in {"running", "error"} : Answer(c, a) /\ UNCHANGED left
    BY <1>7, <2>1, AnswerTypes DEF TypeOK, ReadToolsStatus, Looking, Polling
  <2>2. CASE Again(c)
    BY <1>7, <2>2, AgainTypes DEF TypeOK, ReadToolsStatus, Looking, Polling
  <2> QED BY <1>7, <2>1, <2>2 DEF ReadToolsStatus
<1> QED BY <1>1, <1>2, <1>3, <1>4, <1>5, <1>6, <1>7 DEF Past

\* A request past the lock leaves the others where they are, and the lock to
\* them if it is answered.
LEMMA PastOthers ==
  ASSUME Inv, NEW c \in Clients, Past(c)
  PROVE  /\ pc[c] \in {"stop"} \cup Looking \cup Polling
         /\ \A d \in Clients : d # c =>
               /\ pc'[d] = pc[d] /\ answer'[d] = answer[d] /\ seen'[d] = seen[d]
         /\ pc'[c] = "idle" \/ netLock' = netLock
<1>1. CASE Lookup(c) \/ PowerOff(c)
  BY <1>1, AnswerTypes DEF Inv, TypeOK, Lookup, PowerOff
<1>2. CASE GetIPAddress(c)
  BY <1>2, AnswerTypes DEF Inv, TypeOK, GetIPAddress, Looking, Polling
<1>3. CASE GetGuestIPAddress(c)
  BY <1>3, AnswerTypes, AgainTypes DEF Inv, TypeOK, GetGuestIPAddress, Looking, Polling
<1>4. CASE ReadToolsStatus(c)
  BY <1>4, AnswerTypes, AgainTypes DEF Inv, TypeOK, ReadToolsStatus, Looking, Polling
<1>5. CASE AskTools(c) \/ StoreToolsStatus(c) \/ Wake(c)
  BY <1>5 DEF Inv, TypeOK, AskTools, StoreToolsStatus, Stored, Wake, Step, Looking, Polling
<1> QED BY <1>1, <1>2, <1>3, <1>4, <1>5 DEF Past

LEMMA PastLock ==
  ASSUME Inv, NEW c \in Clients, Past(c)
  PROVE  LockInv'
BY PastOthers, Alone DEF LockInv, Looking, Polling

LEMMA PastKnows ==
  ASSUME Inv, NEW c \in Clients, Past(c)
  PROVE  KnowsInv'
<1>1. \A d \in Clients : d # c => pc[d] \in {"idle", "net"}
  BY PastOthers, Alone
<1>2. \A d \in Clients : d # c =>
        pc'[d] = pc[d] /\ answer'[d] = answer[d] /\ seen'[d] = seen[d] /\ pc[d] # "read"
  BY <1>1, PastOthers
<1>3. CASE PowerOff(c)
  <2>1. guest' \in {guest, "off"} /\ \A d \in Clients : ran'[d] = ran[d]
    BY <1>3 DEF Inv, TypeOK, PowerOff, GuestIs, ToolsRun
  <2>2. pc'[c] = "idle" /\ answer'[c] \in {"done", "error"} /\ seen' = seen
    BY <1>3, AnswerTypes DEF Inv, PowerOff
  <2> QED BY <1>2, <2>1, <2>2 DEF Inv, KnowsInv, ToolsRun
<1>4. CASE ~ PowerOff(c)
  <2>1. UNCHANGED <<guest, ran>>
    BY <1>4 DEF Past, Lookup, AskTools, StoreToolsStatus, Stored, GetIPAddress,
                GetGuestIPAddress, ReadToolsStatus, Wake
  <2>2. pc[c] # "idle"
    BY PastOthers DEF Looking, Polling
  <2>3. seen'[c] = "running" => ran[c]
    <3>1. CASE AskTools(c)
      BY <2>2, <3>1 DEF Inv, TypeOK, KnowsInv, AskTools, ToolsOf
    <3>2. CASE ~ AskTools(c)
      BY <1>4, <3>2 DEF Inv, KnowsInv, Past, Lookup, StoreToolsStatus, Stored, GetIPAddress,
                        GetGuestIPAddress, ReadToolsStatus, Wake
    <3> QED BY <3>1, <3>2
  <2>4. answer'[c] = "running" => answer[c] = "running" \/ seen[c] = "running"
    <3>1. CASE Lookup(c) \/ GetIPAddress(c)
      BY <3>1, AnswerTypes DEF Inv, Lookup, GetIPAddress
    <3>2. CASE GetGuestIPAddress(c)
      BY <3>2, AnswerTypes, AgainTypes DEF Inv, GetGuestIPAddress, Looking, Polling
    <3>3. CASE ReadToolsStatus(c)
      BY <3>3, AnswerTypes, AgainTypes DEF Inv, KnowsInv, ReadToolsStatus, Looking, Polling
    <3>4. CASE AskTools(c) \/ StoreToolsStatus(c) \/ Wake(c)
      BY <3>4 DEF AskTools, StoreToolsStatus, Stored, Wake
    <3> QED BY <1>4, <3>1, <3>2, <3>3, <3>4 DEF Past
  <2>5. pc'[c] = "read" => toolsStatus' = seen'[c]
    <3>1. CASE Lookup(c) \/ GetIPAddress(c)
      BY <3>1, AnswerTypes DEF Inv, TypeOK, Lookup, GetIPAddress
    <3>2. CASE GetGuestIPAddress(c) \/ ReadToolsStatus(c)
      BY <3>2, AnswerTypes, AgainTypes DEF Inv, GetGuestIPAddress, ReadToolsStatus, Looking, Polling
    <3>3. CASE AskTools(c) \/ StoreToolsStatus(c) \/ Wake(c)
      BY <3>3 DEF Inv, TypeOK, AskTools, StoreToolsStatus, Stored, Wake, Step
    <3> QED BY <1>4, <3>1, <3>2, <3>3 DEF Past
  <2> QED BY <1>2, <2>1, <2>2, <2>3, <2>4, <2>5 DEF Inv, KnowsInv
<1> QED BY <1>3, <1>4

LEMMA Invariance ==
  ASSUME RestClients = Clients
  PROVE  Spec => []Inv
<1>1. Inv /\ [Next]_vars => Inv'
  <2> SUFFICES ASSUME Inv, [Next]_vars PROVE Inv'
    OBVIOUS
  <2>1. CASE GuestSteps
    BY <2>1, GuestStep
  <2>2. ASSUME NEW c \in Clients, Invoke(c) \/ AcquireNet(c)
        PROVE  Inv'
    BY <2>2, InvokeStep, AcquireStep
  <2>3. ASSUME NEW c \in Clients, Past(c)
        PROVE  Inv'
    BY <2>3, PastTypes, PastLock, PastKnows DEF Inv
  <2>4. CASE UNCHANGED vars
    BY <2>4 DEF vars, Inv, TypeOK, LockInv, KnowsInv
  <2> QED BY <2>1, <2>2, <2>3, <2>4 DEF Next
<1> QED BY InitInv, <1>1, PTL DEF Spec

------------------------------------------------------------------------------
(***************************************************************************)
(* The theorems.                                                           *)
(***************************************************************************)

\* Behind the REST router, the type invariant; only waits poll.
THEOREM TypeCorrect ==
  ASSUME RestClients = Clients
  PROVE  Spec => []TypeOK
<1>1. Inv => TypeOK
  BY DEF Inv
<1> QED BY <1>1, Invariance, PTL

\* Behind the REST router, a wait that says the tools are running has found out
\* itself, while it was waiting.
THEOREM RunningIsFoundOut ==
  ASSUME RestClients = Clients
  PROVE  Spec => []RunningIsNews
<1>1. Inv => RunningIsNews
  BY DEF Inv, KnowsInv, RunningIsNews
<1> QED BY <1>1, Invariance, PTL

\* Behind the REST router, no wait has its machine powered off under it.
THEOREM PowerOffWaits ==
  ASSUME RestClients = Clients
  PROVE  Spec => WaitsUndisturbed
<1>1. Inv /\ [Next]_vars => [\A c, d \in RestClients : PowerOff(c) => pc[d] \notin Polling]_vars
  BY Alone DEF PowerOff, Looking, Polling
<1> QED BY <1>1, Invariance, PTL DEF Spec, WaitsUndisturbed
==============================================================================
