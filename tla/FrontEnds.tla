------------------------------ MODULE FrontEnds ------------------------------
(***************************************************************************)
(* The life of the process: the main goroutine builds the driver, starts   *)
(* one server or both, registers what a shutdown has to do, and waits for  *)
(* a server to halt; the goroutine of main.go waits for a signal and runs  *)
(* the shutdown tasks; a consumer per server stops it; handlers do what    *)
(* requests ask for, on connections that stay open from one to the next.   *)
(* That a handler has returned, which is what reqTracker counts, is one    *)
(* thing; that its answer has been written by net/http or grpc another.    *)
(*                                                                         *)
(* actionSync is not modelled: a server is started once, and its Stop is   *)
(* registered after Start has returned and run once.                       *)
(***************************************************************************)
EXTENDS FiniteSets

CONSTANTS Modes,  \* of "rest", "grpc" and "full"
          Conns   \* connections of callers

Servers == {"rest", "grpc"}

ASSUME FrontEndsAssumption == Modes \subseteq {"rest", "grpc", "full"}

VARIABLES
  mode,      \* the command that was given
  main, at,  \* the main goroutine: where it is, with which server
  signals,   \* the goroutine of main.go
  tasks,     \* what RegisterShutdownTask has been given
  todo, ran, \* what RunShutdownTasks still has to run, and has run
  socket,    \* per server: its listener
  consumer,  \* per server: the consume goroutine
  halted,    \* per server: Halted
  counted,   \* per server: the requests reqTracker held when Stop was sent
  conn, peer \* per connection: what it is doing, and with which server

vars == <<mode, main, at, signals, tasks, todo, ran, socket, consumer, halted,
          counted, conn, peer>>

Ends == {"failed", "killed", "halted"}

Running == main \notin Ends

First == IF mode = "grpc" THEN "grpc" ELSE "rest"

\* The server whose HaltedChan the main goroutine receives from.
Last == IF mode = "rest" THEN "rest" ELSE "grpc"

\* The requests that reqTracker counts.
Tracked(s) == {k \in Conns : conn[k] = "handling" /\ peer[k] = s}

Init ==
  /\ mode \in Modes
  /\ main = "build" /\ at = First
  /\ signals = "default"
  /\ tasks = {} /\ todo = {} /\ ran = {}
  /\ socket = [s \in Servers |-> "none"]
  /\ consumer = [s \in Servers |-> "none"]
  /\ halted = [s \in Servers |-> TRUE]
  /\ counted = [s \in Servers |-> {}]
  /\ conn = [k \in Conns |-> "none"]
  /\ peer \in [Conns -> Servers]

(***************************************************************************)
(* The main goroutine.                                                     *)
(***************************************************************************)

\* NewVmrestDriver: the task that kills vmrest is registered on the way, unless
\* VMware's own answers make it fall back on another driver before.
RegisterCleanup ==
  /\ main = "build" /\ tasks = {}
  /\ tasks' = {"vmrest"}
  /\ UNCHANGED <<mode, main, at, signals, todo, ran, socket, consumer, halted, counted, conn, peer>>

BuildDriver ==
  /\ main = "build"
  /\ main' \in {"start", "failed"}
  /\ UNCHANGED <<mode, at, signals, tasks, todo, ran, socket, consumer, halted, counted, conn, peer>>

\* Variant: Start forgets to clear Halted.
StartHalted ==
  /\ main = "start"
  /\ main' = "register"
  /\ socket' = [socket EXCEPT ![at] = IF at = "rest" THEN "listening" ELSE "starting"]
  /\ consumer' = [consumer EXCEPT ![at] = "waiting"]
  /\ UNCHANGED <<mode, at, signals, tasks, todo, ran, halted, counted, conn, peer>>

\* Start: the REST listener is opened here, the gRPC one by a goroutine.
Start ==
  /\ main = "start"
  /\ \/ /\ main' = "register"
        /\ socket' = [socket EXCEPT ![at] = IF at = "rest" THEN "listening" ELSE "starting"]
        /\ consumer' = [consumer EXCEPT ![at] = "waiting"]
        /\ halted' = [halted EXCEPT ![at] = FALSE]
     \/ main' = "failed" /\ UNCHANGED <<socket, consumer, halted>>
  /\ UNCHANGED <<mode, at, signals, tasks, todo, ran, counted, conn, peer>>

\* RegisterShutdownTask; full mode goes on with the gRPC server.
Register ==
  /\ main = "register"
  /\ tasks' = tasks \cup {at}
  /\ IF at = Last THEN main' = "wait" /\ UNCHANGED at
                  ELSE main' = "start" /\ at' = Last
  /\ UNCHANGED <<mode, signals, todo, ran, socket, consumer, halted, counted, conn, peer>>

(***************************************************************************)
(* Signals.  The channel has no buffer: a signal that nobody waits for is  *)
(* dropped, and before Notify it has its default effect.                   *)
(***************************************************************************)
Notify ==
  /\ Running /\ signals = "default"
  /\ signals' = "notified"
  /\ UNCHANGED <<mode, main, at, tasks, todo, ran, socket, consumer, halted, counted, conn, peer>>

Receive ==
  /\ Running /\ signals = "notified"
  /\ signals' = "waiting"
  /\ UNCHANGED <<mode, main, at, tasks, todo, ran, socket, consumer, halted, counted, conn, peer>>

Signal ==
  /\ Running
  /\ \/ signals = "default" /\ main' = "killed" /\ UNCHANGED <<signals, todo>>
     \/ signals = "waiting" /\ signals' = "running" /\ todo' = tasks /\ UNCHANGED main
  /\ UNCHANGED <<mode, at, tasks, ran, socket, consumer, halted, counted, conn, peer>>

\* Stop returns an error if the server is halted; otherwise it hands the
\* notification to the consumer, which must be waiting for it.
Stop(s) ==
  IF halted[s] THEN UNCHANGED <<consumer, counted>>
  ELSE /\ consumer[s] = "waiting"
       /\ consumer' = [consumer EXCEPT ![s] = "closing"]
       /\ counted' = [counted EXCEPT ![s] = Tracked(s)]

\* RunShutdownTasks runs the tasks it was given until then, one by one.
RunTask(t) ==
  /\ Running /\ signals = "running" /\ t \in todo
  /\ todo' = todo \ {t}
  /\ ran' = ran \cup {t}
  /\ signals' = IF todo' = {} THEN "ended" ELSE "running"
  /\ IF t \in Servers THEN Stop(t) ELSE UNCHANGED <<consumer, counted>>
  /\ UNCHANGED <<mode, main, at, tasks, socket, halted, conn, peer>>

\* The task that kills vmrest may panic, which is the end of the process.
Panic ==
  /\ Running /\ "vmrest" \in ran
  /\ main' = "failed"
  /\ UNCHANGED <<mode, at, signals, tasks, todo, ran, socket, consumer, halted, counted, conn, peer>>

(***************************************************************************)
(* consume.                                                                *)
(***************************************************************************)

\* The goroutine that listens for gRPC; if it cannot, only a log tells.
Listen(s) ==
  /\ Running /\ socket[s] = "starting"
  /\ \E r \in {"listening", "failed"} : socket' = [socket EXCEPT ![s] = r]
  /\ UNCHANGED <<mode, main, at, signals, tasks, todo, ran, consumer, halted, counted, conn, peer>>

\* listener.Close leaves open connections alone.  server.Stop closes them: an
\* answer that is not written yet is lost, a request that no handler has begun
\* may be, and handlers that run go on, for nobody.
Close(s) ==
  /\ Running /\ consumer[s] = "closing"
  /\ socket' = [socket EXCEPT ![s] = "closed"]
  /\ consumer' = [consumer EXCEPT ![s] = "draining"]
  /\ \E lost \in SUBSET {k \in Conns : conn[k] = "sent"} :
       conn' = [k \in Conns |-> IF /\ s = "grpc" /\ peer[k] = s
                                   /\ conn[k] \in {"open", "returned"} \/ k \in lost
                                THEN "none" ELSE conn[k]]
  /\ UNCHANGED <<mode, main, at, signals, tasks, todo, ran, halted, counted, peer>>

\* Variant: the consumer does not wait for reqTracker.
DrainAtOnce(s) ==
  /\ Running /\ consumer[s] = "draining"
  /\ consumer' = [consumer EXCEPT ![s] = "halted"]
  /\ halted' = [halted EXCEPT ![s] = TRUE]
  /\ UNCHANGED <<mode, main, at, signals, tasks, todo, ran, socket, counted, conn, peer>>

\* reqTracker.Wait returns once no request is being handled.
Drain(s) ==
  /\ Running /\ consumer[s] = "draining" /\ Tracked(s) = {}
  /\ consumer' = [consumer EXCEPT ![s] = "halted"]
  /\ halted' = [halted EXCEPT ![s] = TRUE]
  /\ UNCHANGED <<mode, main, at, signals, tasks, todo, ran, socket, counted, conn, peer>>

\* Variant: the notification is sent as soon as the listener is closed.
HaltEarly(s) ==
  /\ main = "wait" /\ at = s /\ consumer[s] = "draining"
  /\ consumer' = [consumer EXCEPT ![s] = "ended"]
  /\ main' = "halted"
  /\ halted' = [halted EXCEPT ![s] = TRUE]
  /\ UNCHANGED <<mode, at, signals, tasks, todo, ran, socket, counted, conn, peer>>

\* HaltedChan has no buffer either: the notification needs the main goroutine
\* to be there, which then ends the process.
Halt(s) ==
  /\ main = "wait" /\ at = s /\ consumer[s] = "halted"
  /\ consumer' = [consumer EXCEPT ![s] = "ended"]
  /\ main' = "halted"
  /\ UNCHANGED <<mode, at, signals, tasks, todo, ran, socket, halted, counted, conn, peer>>

(***************************************************************************)
(* Requests.                                                               *)
(***************************************************************************)

\* A new connection with its first request, or the next one on an old one.
Send(k) ==
  /\ Running
  /\ \/ conn[k] = "none" /\ \E s \in Servers :
          socket[s] = "listening" /\ peer' = [peer EXCEPT ![k] = s]
     \/ conn[k] = "open" /\ UNCHANGED peer
  /\ conn' = [conn EXCEPT ![k] = "sent"]
  /\ UNCHANGED <<mode, main, at, signals, tasks, todo, ran, socket, consumer, halted, counted>>

\* The goroutine of the request counts it before it does anything else.
RequestHandler(k) ==
  /\ Running /\ conn[k] = "sent"
  /\ conn' = [conn EXCEPT ![k] = "handling"]
  /\ UNCHANGED <<mode, main, at, signals, tasks, todo, ran, socket, consumer, halted, counted, peer>>

\* The handler returns: the deferred reqTracker.Done, before the answer is
\* written; after server.Stop there is no connection to write it to.
Return(k) ==
  /\ Running /\ conn[k] = "handling"
  /\ conn' = [conn EXCEPT ![k] = IF peer[k] = "grpc" /\ socket["grpc"] = "closed"
                                 THEN "none" ELSE "returned"]
  /\ counted' = [counted EXCEPT ![peer[k]] = @ \ {k}]
  /\ UNCHANGED <<mode, main, at, signals, tasks, todo, ran, socket, consumer, halted, peer>>

\* net/http, or grpc, writes the answer, which nobody waits for.
Deliver(k) ==
  /\ Running /\ conn[k] = "returned"
  /\ conn' = [conn EXCEPT ![k] = "open"]
  /\ UNCHANGED <<mode, main, at, signals, tasks, todo, ran, socket, consumer, halted, counted, peer>>

HangUp(k) ==
  /\ Running /\ conn[k] = "open"
  /\ conn' = [conn EXCEPT ![k] = "none"]
  /\ UNCHANGED <<mode, main, at, signals, tasks, todo, ran, socket, consumer, halted, counted, peer>>

Next ==
  \/ RegisterCleanup \/ BuildDriver \/ Start \/ Register
  \/ Notify \/ Receive \/ Signal \/ Panic
  \/ \E t \in Servers \cup {"vmrest"} : RunTask(t)
  \/ \E s \in Servers : Listen(s) \/ Close(s) \/ Drain(s) \/ Halt(s)
  \/ \E k \in Conns : Send(k) \/ RequestHandler(k) \/ Return(k) \/ Deliver(k) \/ HangUp(k)

Spec == Init /\ [][Next]_vars

------------------------------------------------------------------------------
(***************************************************************************)
(* Properties.                                                             *)
(***************************************************************************)

\* Every variable has its type, and Halted says what the consumer is doing:
\* Stop rests on it to know that somebody will take its notification.
TypeOK ==
  /\ mode \in Modes
  /\ main \in {"build", "start", "register", "wait"} \cup Ends
  /\ at \in Servers
  /\ signals \in {"default", "notified", "waiting", "running", "ended"}
  /\ tasks \subseteq Servers \cup {"vmrest"} /\ todo \subseteq tasks /\ ran \subseteq tasks
  /\ socket \in [Servers -> {"none", "starting", "listening", "failed", "closed"}]
  /\ consumer \in [Servers -> {"none", "waiting", "closing", "draining", "halted", "ended"}]
  /\ halted \in [Servers -> BOOLEAN]
  /\ \A s \in Servers : halted[s] <=> consumer[s] \in {"none", "halted", "ended"}
  /\ counted \in [Servers -> SUBSET Conns]
  /\ conn \in [Conns -> {"none", "sent", "handling", "returned", "open"}]
  /\ peer \in [Conns -> Servers]

\* A server halts only when the handler of every request it was handling as
\* Stop came in has returned, so none is left in the middle of an operation.
\* Whether the caller has got the answer is not said: the code does not wait
\* for it to be written.
DrainedBeforeHalt ==
  \A s \in Servers : consumer[s] \in {"halted", "ended"} => counted[s] = {}

\* When the process ends because a server has halted, no handler is cut off
\* that was running as Stop came in, if that server is the only one.
EndDrains ==
  main = "halted" /\ mode # "full" => \A s \in Servers : counted[s] = {}

\* "wait for inflight requests to complete", where a request is completed when
\* its handler returns (api.go:169): the same in every mode.
EndDrainsAll ==
  main = "halted" => \A s \in Servers : counted[s] = {}

\* The process ends once the server that the main goroutine waits for has been
\* told to stop, unless callers keep sending requests on open connections.  It
\* takes handlers that return, which are those of Service.
StopEnds ==
  (Last \in ran ~> ~ Running) \/ []<>(\E k \in Conns : conn[k] = "sent")
==============================================================================
