--------------------------- MODULE FrontEndsProofs ---------------------------
(***************************************************************************)
(* Theorems about FrontEnds, for any number of connections.                *)
(***************************************************************************)
EXTENDS FrontEnds, TLAPS

------------------------------------------------------------------------------
(***************************************************************************)
(* Types.                                                                  *)
(***************************************************************************)
LEMMA TypeInit == Init => TypeOK
BY DEF Init, TypeOK, Servers, First, Ends

LEMMA StopTypes ==
  ASSUME TypeOK, NEW s \in Servers, Stop(s)
  PROVE  /\ consumer' \in [Servers -> {"none", "waiting", "closing", "draining", "halted", "ended"}]
         /\ \A r \in Servers : halted[r] <=> consumer'[r] \in {"none", "halted", "ended"}
         /\ counted' \in [Servers -> SUBSET Conns]
         /\ \A r \in Servers : consumer'[r] # consumer[r] =>
               r = s /\ consumer[r] = "waiting" /\ consumer'[r] = "closing"
         /\ \A r \in Servers : \/ counted'[r] = counted[r]
                               \/ counted'[r] = Tracked(r) /\ consumer'[r] = "closing"
BY DEF TypeOK, Stop, Tracked

LEMMA TypeStep == TypeOK /\ [Next]_vars => TypeOK'
<1> SUFFICES ASSUME TypeOK, [Next]_vars PROVE TypeOK'
  OBVIOUS
<1>1. CASE RegisterCleanup \/ BuildDriver \/ Panic
  BY <1>1 DEF TypeOK, RegisterCleanup, BuildDriver, Panic, Ends
<1>2. CASE Start
  <2>1. /\ UNCHANGED <<mode, at, signals, tasks, todo, ran, counted, conn, peer>>
        /\ main' \in {"register", "failed"}
    BY <1>2 DEF Start
  <2>2. socket' \in [Servers -> {"none", "starting", "listening", "failed", "closed"}]
    BY <1>2 DEF TypeOK, Start
  <2>3. consumer' \in [Servers -> {"none", "waiting", "closing", "draining", "halted", "ended"}]
    BY <1>2 DEF TypeOK, Start
  <2>4. halted' \in [Servers -> BOOLEAN]
    BY <1>2 DEF TypeOK, Start
  <2>5. ASSUME NEW s \in Servers
        PROVE  halted'[s] <=> consumer'[s] \in {"none", "halted", "ended"}
    <3>1. \/ halted'[s] = halted[s] /\ consumer'[s] = consumer[s]
          \/ halted'[s] = FALSE /\ consumer'[s] = "waiting"
      BY <1>2 DEF TypeOK, Start
    <3> QED BY <3>1 DEF TypeOK
  <2> QED BY <2>1, <2>2, <2>3, <2>4, <2>5 DEF TypeOK, Ends
<1>3. CASE Register
  BY <1>3 DEF TypeOK, Register, Ends, Last, Servers
<1>4. CASE Notify \/ Receive
  BY <1>4 DEF TypeOK, Notify, Receive, Ends
<1>5. CASE Signal
  BY <1>5 DEF TypeOK, Signal, Ends
<1>6. ASSUME NEW t \in Servers \cup {"vmrest"}, RunTask(t)
      PROVE  TypeOK'
  <2>1. /\ UNCHANGED <<mode, main, at, tasks, socket, halted, conn, peer>>
        /\ signals' \in {"running", "ended"}
        /\ todo' \subseteq tasks /\ ran' \subseteq tasks
    BY <1>6 DEF TypeOK, RunTask
  <2>2. CASE t \in Servers
    <3>1. Stop(t)
      BY <1>6, <2>2 DEF RunTask
    <3> QED BY <2>1, <2>2, <3>1, StopTypes DEF TypeOK
  <2>3. CASE t \notin Servers
    <3>1. UNCHANGED <<consumer, counted>>
      BY <1>6, <2>3 DEF RunTask
    <3> QED BY <2>1, <3>1 DEF TypeOK
  <2> QED BY <2>2, <2>3
<1>7. ASSUME NEW s \in Servers, Listen(s)
      PROVE  TypeOK'
  BY <1>7 DEF TypeOK, Listen
<1>8. ASSUME NEW s \in Servers, Close(s)
      PROVE  TypeOK'
  BY <1>8 DEF TypeOK, Close
<1>9. ASSUME NEW s \in Servers, Drain(s) \/ Halt(s)
      PROVE  TypeOK'
  <2>1. /\ UNCHANGED <<mode, at, signals, tasks, todo, ran, socket, counted, conn, peer>>
        /\ main' \in {main, "halted"}
    BY <1>9 DEF Drain, Halt
  <2>2. consumer' \in [Servers -> {"none", "waiting", "closing", "draining", "halted", "ended"}]
    BY <1>9 DEF TypeOK, Drain, Halt
  <2>3. halted' \in [Servers -> BOOLEAN]
    BY <1>9 DEF TypeOK, Drain, Halt
  <2>4. ASSUME NEW r \in Servers
        PROVE  halted'[r] <=> consumer'[r] \in {"none", "halted", "ended"}
    <3>1. CASE r # s
      BY <1>9, <3>1 DEF TypeOK, Drain, Halt
    <3>2. CASE r = s /\ Drain(s)
      BY <3>2 DEF TypeOK, Drain
    <3>3. CASE r = s /\ Halt(s)
      <4>1. halted'[s] = halted[s] /\ consumer[s] = "halted" /\ consumer'[s] = "ended"
        BY <3>3 DEF TypeOK, Halt
      <4> QED BY <3>3, <4>1 DEF TypeOK
    <3> QED BY <1>9, <3>1, <3>2, <3>3
  <2> QED BY <2>1, <2>2, <2>3, <2>4 DEF TypeOK, Ends
<1>10. ASSUME NEW k \in Conns, Send(k) \/ RequestHandler(k) \/ Return(k) \/ Deliver(k) \/ HangUp(k)
       PROVE  TypeOK'
  BY <1>10 DEF TypeOK, Send, RequestHandler, Return, Deliver, HangUp
<1>11. CASE UNCHANGED vars
  BY <1>11 DEF TypeOK, vars
<1> QED BY <1>1, <1>2, <1>3, <1>4, <1>5, <1>6, <1>7, <1>8, <1>9, <1>10, <1>11 DEF Next

\* The type invariant; Halted tells whether a consumer takes notifications.
THEOREM TypeCorrect == Spec => []TypeOK
BY TypeInit, TypeStep, PTL DEF Spec

------------------------------------------------------------------------------
(***************************************************************************)
(* The inductive invariant.                                                *)
(***************************************************************************)

\* What reqTracker counted when Stop came in is still counted, and there is
\* nothing of the kind before Stop and after the consumer has halted.
CountInv ==
  \A s \in Servers :
    /\ counted[s] \subseteq Tracked(s)
    /\ consumer[s] \in {"none", "waiting", "halted", "ended"} => counted[s] = {}

\* Start is called once for a server.
StageInv ==
  /\ main \in {"build", "start"} => consumer[at] = "none"
  /\ main \in {"build", "start", "register"} /\ at # Last => consumer[Last] = "none"

\* The process ends with the server that the main goroutine waits for, which
\* is the only one outside full mode.
EndInv ==
  /\ main \in {"wait", "halted"} => at = Last
  /\ main = "halted" => consumer[Last] = "ended"
  /\ mode # "full" => at = Last /\ \A s \in Servers : s # Last => consumer[s] = "none"

Inv == TypeOK /\ CountInv /\ StageInv /\ EndInv

LEMMA InitInv == Init => Inv
<1> SUFFICES ASSUME Init PROVE Inv
  OBVIOUS
<1>1. CountInv /\ StageInv
  BY DEF Init, CountInv, StageInv, Tracked, Servers, First, Last
<1>2. EndInv
  BY FrontEndsAssumption DEF Init, EndInv, Servers, First, Last
<1> QED BY <1>1, <1>2, TypeInit DEF Inv

LEMMA CountStep == Inv /\ Next => CountInv'
<1> SUFFICES ASSUME Inv, Next PROVE CountInv'
  OBVIOUS
<1> USE DEF Inv
<1>1. CASE RegisterCleanup \/ BuildDriver \/ Register \/ Notify \/ Receive \/ Signal \/ Panic
  BY <1>1 DEF TypeOK, CountInv, Tracked, RegisterCleanup, BuildDriver, Register, Notify,
              Receive, Signal, Panic
<1>2. CASE Start
  BY <1>2 DEF TypeOK, CountInv, StageInv, Tracked, Start
<1>3. ASSUME NEW t \in Servers \cup {"vmrest"}, RunTask(t)
      PROVE  CountInv'
  <2>1. \A s \in Servers : Tracked(s)' = Tracked(s)
    BY <1>3 DEF RunTask, Tracked
  <2>2. CASE t \in Servers
    <3>1. Stop(t)
      BY <1>3, <2>2 DEF RunTask
    <3> QED BY <2>1, <2>2, <3>1, StopTypes DEF CountInv
  <2>3. CASE t \notin Servers
    <3>1. UNCHANGED <<consumer, counted>>
      BY <1>3, <2>3 DEF RunTask
    <3> QED BY <2>1, <3>1 DEF CountInv
  <2> QED BY <2>2, <2>3
<1>4. ASSUME NEW s \in Servers, Listen(s) \/ Halt(s)
      PROVE  CountInv'
  BY <1>4 DEF TypeOK, CountInv, Tracked, Listen, Halt
<1>5. ASSUME NEW s \in Servers, Close(s)
      PROVE  CountInv'
  BY <1>5 DEF TypeOK, CountInv, Tracked, Close
<1>6. ASSUME NEW s \in Servers, Drain(s)
      PROVE  CountInv'
  BY <1>6 DEF TypeOK, CountInv, Tracked, Drain
<1>7. ASSUME NEW k \in Conns, Send(k) \/ RequestHandler(k) \/ Deliver(k) \/ HangUp(k)
      PROVE  CountInv'
  <2>1. UNCHANGED <<consumer, counted>>
    BY <1>7 DEF Send, RequestHandler, Deliver, HangUp
  <2>2. \A s \in Servers : Tracked(s) \subseteq Tracked(s)'
    BY <1>7 DEF TypeOK, Tracked, Send, RequestHandler, Deliver, HangUp
  <2> QED BY <2>1, <2>2 DEF CountInv
<1>8. ASSUME NEW k \in Conns, Return(k)
      PROVE  CountInv'
  BY <1>8 DEF TypeOK, CountInv, Tracked, Return
<1> QED BY <1>1, <1>2, <1>3, <1>4, <1>5, <1>6, <1>7, <1>8 DEF Next

LEMMA StageStep == Inv /\ Next => (StageInv /\ EndInv)'
<1> SUFFICES ASSUME Inv, Next PROVE (StageInv /\ EndInv)'
  OBVIOUS
<1> USE DEF Inv, StageInv, EndInv
<1>1. mode' = mode /\ Last' = Last
  BY DEF Next, RegisterCleanup, BuildDriver, Start, Register, Notify, Receive, Signal, Panic,
         RunTask, Listen, Close, Drain, Halt, Send, RequestHandler, Return, Deliver, HangUp, Last
<1>2. at \in Servers /\ Last \in Servers
  BY DEF TypeOK, Last, Servers
<1>3. CASE RegisterCleanup \/ BuildDriver \/ Notify \/ Receive \/ Signal \/ Panic
  BY <1>1, <1>3 DEF RegisterCleanup, BuildDriver, Notify, Receive, Signal, Panic, Running, Ends
<1>4. CASE Start
  BY <1>1, <1>2, <1>4 DEF TypeOK, Start
<1>5. CASE Register
  BY <1>1, <1>2, <1>5 DEF Register
<1>6. ASSUME NEW t \in Servers \cup {"vmrest"}, RunTask(t)
      PROVE  (StageInv /\ EndInv)'
  <2>1. main' = main /\ at' = at /\ main # "halted"
    BY <1>6 DEF RunTask, Running, Ends
  <2>2. \A r \in Servers : consumer[r] = "none" => consumer'[r] = "none"
    <3>1. CASE t \in Servers
      BY <1>6, <3>1, StopTypes DEF RunTask
    <3>2. CASE t \notin Servers
      BY <1>6, <3>2 DEF RunTask
    <3> QED BY <3>1, <3>2
  <2> QED BY <1>1, <1>2, <2>1, <2>2
<1>7. ASSUME NEW s \in Servers, Listen(s) \/ Close(s) \/ Drain(s)
      PROVE  (StageInv /\ EndInv)'
  BY <1>1, <1>2, <1>7 DEF TypeOK, Listen, Close, Drain, Running, Ends
<1>8. ASSUME NEW s \in Servers, Halt(s)
      PROVE  (StageInv /\ EndInv)'
  BY <1>1, <1>2, <1>8 DEF TypeOK, Halt
<1>9. ASSUME NEW k \in Conns, Send(k) \/ RequestHandler(k) \/ Return(k) \/ Deliver(k) \/ HangUp(k)
      PROVE  (StageInv /\ EndInv)'
  BY <1>1, <1>9 DEF Send, RequestHandler, Return, Deliver, HangUp
<1> QED BY <1>3, <1>4, <1>5, <1>6, <1>7, <1>8, <1>9 DEF Next

LEMMA Invariance == Spec => []Inv
<1>1. Inv /\ [Next]_vars => Inv'
  <2>1. Inv /\ Next => Inv'
    BY TypeStep, CountStep, StageStep DEF Inv
  <2>2. Inv /\ UNCHANGED vars => Inv'
    BY DEF Inv, TypeOK, CountInv, StageInv, EndInv, Tracked, Last, vars
  <2> QED BY <2>1, <2>2
<1> QED BY InitInv, <1>1, PTL DEF Spec

------------------------------------------------------------------------------
(***************************************************************************)
(* The theorems.                                                           *)
(***************************************************************************)

\* In every mode, whatever is sent and whenever the signal comes: when a server
\* has halted, every handler that ran as it was told to stop has returned.
THEOREM HaltedHasDrained == Spec => []DrainedBeforeHalt
<1>1. Inv => DrainedBeforeHalt
  BY DEF Inv, CountInv, DrainedBeforeHalt
<1> QED BY <1>1, Invariance, PTL

\* With one server only, the process does not end in the middle of a handler
\* that ran at the stop; in full mode it may.
THEOREM OneServerEndDrains == Spec => []EndDrains
<1>1. Inv => EndDrains
  BY DEF Inv, TypeOK, CountInv, EndInv, EndDrains
<1> QED BY <1>1, Invariance, PTL
==============================================================================
