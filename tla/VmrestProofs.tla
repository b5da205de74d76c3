---------------------------- MODULE VmrestProofs ----------------------------
(***************************************************************************)
(* Theorems about VmrestProcess, for any number of callers, credentials    *)
(* and processes.                                                          *)
(***************************************************************************)
EXTENDS VmrestProcess, TLAPS

------------------------------------------------------------------------------
(***************************************************************************)
(* Types.                                                                  *)
(***************************************************************************)
LEMMA GoneTypes ==
  ASSUME TypeOK, Gone("off"), UNCHANGED files
  PROVE  TypeOK'
BY DEF TypeOK, Gone, files, Up

LEMMA TypeStep == TypeOK /\ [Next]_vars => TypeOK'
<1> SUFFICES ASSUME TypeOK, [Next]_vars PROVE TypeOK'
  OBVIOUS
<1> USE DEF files, process, Up
<1>1. CASE Boot \/ DrawCredentials \/ RemoveConfig
  BY <1>1 DEF TypeOK, Boot, DrawCredentials, RemoveConfig
<1>2. CASE LoadCredentials
  BY <1>2, GoneTypes DEF TypeOK, LoadCredentials
<1>3. CASE WriteFiles
  BY <1>3 DEF TypeOK, WriteFiles, Configure, StoreJsonToFile
<1>4. CASE ProbeAnswer
  BY <1>4, GoneTypes DEF TypeOK, ProbeAnswer
<1>5. CASE Crash
  BY <1>5, GoneTypes DEF Crash
<1>6. ASSUME NEW c \in Callers, Active(c) \/ Take(c)
      PROVE  TypeOK'
  BY <1>6 DEF TypeOK, Active, Take, Taken
<1>7. CASE TakeProbe \/ TestCommand
  BY <1>7 DEF TypeOK, TakeProbe, Taken, TestCommand
<1>8. CASE StartCommand
  BY <1>8 DEF TypeOK, StartCommand, Started, StartFails
<1>9. CASE Dies \/ Cleanup \/ Kill \/ End
  BY <1>9 DEF TypeOK, Dies, Cleanup, Kill, End
<1>10. ASSUME NEW p \in Pids, Reap(p)
       PROVE  TypeOK'
  BY <1>10 DEF TypeOK, Reap
<1>11. CASE UNCHANGED vars
  BY <1>11 DEF TypeOK, vars
<1> QED BY <1>1, <1>2, <1>3, <1>4, <1>5, <1>6, <1>7, <1>8, <1>9, <1>10, <1>11 DEF Next

------------------------------------------------------------------------------
(***************************************************************************)
(* The inductive invariant.                                                *)
(***************************************************************************)

\* What the service has stored is what vmrest has: vmrest is configured first,
\* and never again once something is stored.
CredInv ==
  /\ stored \in Creds => stored = cfg
  /\ main = "create" => cfg = "none"
  /\ main = "fill" => cfg = "empty"
  /\ main \in {"truncate", "write"} => cfg = mine
  /\ Up => mine = cfg

\* The one process and its reaper are those of the command.
ProcessInv ==
  /\ alive \subseteq {command} /\ reapers \subseteq {command}
  /\ runner = "start" => command = "new"

\* Runner rests from the beginning of a quiet Cleanup on.
QuietInv ==
  /\ quiet /\ shutdown # "none" => runner = "idle"
  /\ quiet /\ shutdown = "done" => alive = {}
  /\ main = "ended" => shutdown = "done"

Inv == TypeOK /\ CredInv /\ ProcessInv /\ QuietInv

LEMMA InitInv == Init => Inv
BY DEF Init, Inv, TypeOK, CredInv, ProcessInv, QuietInv, Up

LEMMA GoneInv ==
  ASSUME Inv, Gone("off"), UNCHANGED files
  PROVE  (CredInv /\ ProcessInv /\ QuietInv)'
BY DEF Inv, CredInv, ProcessInv, QuietInv, Gone, files, Up

LEMMA CredStep == Inv /\ Next => CredInv'
<1> SUFFICES ASSUME Inv, Next PROVE CredInv'
  OBVIOUS
<1> USE DEF Inv, CredInv, files, process, Up
<1>1. CASE Boot \/ DrawCredentials \/ RemoveConfig
  BY <1>1, VmrestAssumption DEF Boot, DrawCredentials, RemoveConfig
<1>2. CASE LoadCredentials
  BY <1>2, GoneInv DEF LoadCredentials
<1>3. CASE WriteFiles
  BY <1>3, VmrestAssumption DEF WriteFiles, Configure, StoreJsonToFile
<1>4. CASE ProbeAnswer \/ Crash
  BY <1>4, GoneInv DEF ProbeAnswer, Crash
<1>5. ASSUME NEW c \in Callers, Active(c) \/ Take(c)
      PROVE  CredInv'
  BY <1>5 DEF Active, Take
<1>6. CASE TakeProbe \/ TestCommand \/ StartCommand \/ Dies \/ Cleanup \/ Kill \/ End
  BY <1>6 DEF TakeProbe, TestCommand, StartCommand, Dies, Cleanup, Kill, End
<1>7. ASSUME NEW p \in Pids, Reap(p)
      PROVE  CredInv'
  BY <1>7 DEF Reap
<1> QED BY <1>1, <1>2, <1>3, <1>4, <1>5, <1>6, <1>7 DEF Next

LEMMA ProcessStep == Inv /\ Next => (ProcessInv /\ QuietInv)'
<1> SUFFICES ASSUME Inv, Next PROVE (ProcessInv /\ QuietInv)'
  OBVIOUS
<1> USE DEF Inv, ProcessInv, QuietInv, files, process, Up
<1>1. CASE Boot \/ DrawCredentials \/ RemoveConfig \/ WriteFiles
  BY <1>1 DEF Boot, DrawCredentials, RemoveConfig, WriteFiles, Configure, StoreJsonToFile
<1>2. CASE LoadCredentials \/ ProbeAnswer \/ Crash
  BY <1>2, GoneInv DEF LoadCredentials, ProbeAnswer, Crash
<1>3. ASSUME NEW c \in Callers, Active(c) \/ Take(c)
      PROVE  (ProcessInv /\ QuietInv)'
  <2>1. CASE Active(c)
    BY <2>1 DEF Active
  <2>2. CASE Take(c)
    BY <2>2 DEF TypeOK, Take, Taken
  <2> QED BY <1>3, <2>1, <2>2
<1>4. CASE TakeProbe
  BY <1>4 DEF TakeProbe, Taken
<1>5. CASE TestCommand
  BY <1>5, VmrestAssumption DEF TypeOK, TestCommand
<1>6. CASE StartCommand
  <2>1. alive = {} /\ reapers = {}
    BY <1>6, VmrestAssumption DEF TypeOK, StartCommand
  <2> QED BY <1>6, <2>1 DEF StartCommand, Started, StartFails
<1>7. CASE Dies \/ End
  BY <1>7 DEF Dies, End
<1>8. ASSUME NEW p \in Pids, Reap(p)
      PROVE  (ProcessInv /\ QuietInv)'
  BY <1>8, VmrestAssumption DEF Reap
<1>9. CASE Cleanup
  <2>1. quiet' => runner = "idle"
    BY <1>9 DEF Cleanup
  <2>2. shutdown' = "done" => alive = {}
    BY <1>9, VmrestAssumption DEF TypeOK, Cleanup
  <2> QED BY <1>9, <2>1, <2>2 DEF Cleanup
<1>10. CASE Kill
  BY <1>10 DEF Kill
<1> QED BY <1>1, <1>2, <1>3, <1>4, <1>5, <1>6, <1>7, <1>8, <1>9, <1>10 DEF Next

LEMMA Invariance == Spec => []Inv
<1>1. Inv /\ [Next]_vars => Inv'
  <2>1. Inv /\ Next => Inv'
    BY TypeStep, CredStep, ProcessStep DEF Inv
  <2>2. Inv /\ UNCHANGED vars => Inv'
    BY DEF Inv, TypeOK, CredInv, ProcessInv, QuietInv, Up, vars
  <2> QED BY <2>1, <2>2
<1> QED BY InitInv, <1>1, PTL DEF Spec

------------------------------------------------------------------------------
(***************************************************************************)
(* The theorems.                                                           *)
(***************************************************************************)

\* The type invariant; Runner runs whenever somebody may ask it for vmrest.
THEOREM TypeCorrect == Spec => []TypeOK
<1>1. Inv => TypeOK
  BY DEF Inv
<1> QED BY <1>1, Invariance, PTL

\* After any number of starts, each of which may have crashed in any step of
\* Init: the service and vmrest have the same credentials.
THEOREM CredentialsSurviveCrashes == Spec => []CredentialsAgree
<1>1. Inv => CredentialsAgree
  BY DEF Inv, CredInv, CredentialsAgree
<1> QED BY <1>1, Invariance, PTL

\* Whoever asks, and however often vmrest dies, only one runs, which is the one
\* that Cleanup kills.
THEOREM OneVmrest == Spec => []OnlyCommandRuns
<1>1. Inv => OnlyCommandRuns
  BY DEF Inv, ProcessInv, OnlyCommandRuns
<1> QED BY <1>1, Invariance, PTL

\* A shutdown during which nobody asks for vmrest leaves none behind.
THEOREM QuietShutdown == Spec => []NothingLeft
<1>1. Inv => NothingLeft
  BY DEF Inv, QuietInv, NothingLeft
<1> QED BY <1>1, Invariance, PTL
==============================================================================
