--------------------------- MODULE DeploymentProofs ---------------------------
(***************************************************************************)
(* Theorems about Deployment, however often keys are drawn and whatever    *)
(* command is cut short where.                                             *)
(***************************************************************************)
EXTENDS Deployment, TLAPS

------------------------------------------------------------------------------
(***************************************************************************)
(* Configuration.                                                          *)
(***************************************************************************)

\* FirstOf is a chain of alternatives.
LEMMA FirstOfFour ==
  ASSUME NEW a, NEW b, NEW c, NEW d, d # Absent
  PROVE  FirstOf(<<a, b, c, d>>) =
           IF a # Absent THEN a ELSE IF b # Absent THEN b ELSE IF c # Absent THEN c ELSE d
<1> DEFINE s == <<a, b, c, d>>
           P(i) == i \in DOMAIN s /\ s[i] # Absent /\ \A j \in 1..(i - 1) : s[j] = Absent
           n == IF a # Absent THEN 1 ELSE IF b # Absent THEN 2 ELSE IF c # Absent THEN 3 ELSE 4
<1>1. DOMAIN s = 1..4 /\ s[1] = a /\ s[2] = b /\ s[3] = c /\ s[4] = d
  OBVIOUS
<1>2. P(n)
  BY <1>1
<1>3. ASSUME NEW i, P(i) PROVE i = n
  <2>1. i \in 1..4
    BY <1>1, <1>3
  <2>2. \A j \in 1..(i - 1) : s[j] = Absent
    BY <1>3
  <2>3. i > 1 => a = Absent
    BY <1>1, <2>1, <2>2
  <2>4. i > 2 => b = Absent
    BY <1>1, <2>1, <2>2
  <2>5. i > 3 => c = Absent
    BY <1>1, <2>1, <2>2
  <2> QED BY <1>1, <1>3, <2>1, <2>3, <2>4, <2>5
<1>4. (CHOOSE i \in DOMAIN s : s[i] # Absent /\ \A j \in 1..(i - 1) : s[j] = Absent) = n
  BY <1>2, <1>3
<1> QED BY <1>1, <1>4 DEF FirstOf

LEMMA FirstOfTwo ==
  ASSUME NEW a, NEW b, b # Absent
  PROVE  FirstOf(<<a, b>>) = IF a # Absent THEN a ELSE b
<1> DEFINE s == <<a, b>>
           n == IF a # Absent THEN 1 ELSE 2
<1>1. DOMAIN s = 1..2 /\ s[1] = a /\ s[2] = b
  OBVIOUS
<1>2. n \in DOMAIN s /\ s[n] # Absent /\ \A j \in 1..(n - 1) : s[j] = Absent
  BY <1>1
<1>3. ASSUME NEW i \in DOMAIN s, s[i] # Absent, \A j \in 1..(i - 1) : s[j] = Absent
      PROVE  i = n
  BY <1>1, <1>3
<1>4. (CHOOSE i \in DOMAIN s : s[i] # Absent /\ \A j \in 1..(i - 1) : s[j] = Absent) = n
  BY <1>2, <1>3
<1> QED BY <1>1, <1>4 DEF FirstOf

\* A flag that is given, or else the default.
LEMMA ValIs ==
  ASSUME NEW o \in Options, NEW flag
  PROVE  Val(o, flag) = IF flag # Absent THEN flag ELSE Default(o)
BY FirstOfTwo DEF Val, Default, Absent, Zero

\* What an option has is never absent.
LEMMA GetTypes ==
  ASSUME NEW o \in Options, NEW flag \in Given, NEW env \in Envs(o), NEW file \in Given \cup Values
  PROVE  Get(o, flag, env, file) \in Values
<1> USE DEF Given, Envs, Values, Absent, Zero, Unless
<1>1. Val(o, flag) # Absent /\ Val(o, flag) \in Values
  BY ValIs DEF Default
<1>2. CASE o = "port"
  BY <1>1, <1>2, FirstOfFour DEF Get, GetConfigInt64
<1>3. CASE o = "debug"
  BY <1>1, <1>3, FirstOfFour DEF Get, GetConfigBool
<1>4. CASE o \notin {"port", "debug"}
  BY <1>1, <1>4, FirstOfFour DEF Get, GetConfigValue
<1> QED BY <1>2, <1>3, <1>4

LEMMA ServedTypes ==
  ASSUME NEW o \in Options, NEW kept \in {Absent} \cup Values
  PROVE  Served(o, kept) \in Values
BY GetTypes DEF Served, Given, Envs, Values

\* What the service uses of what writeConfig has kept is what install decided
\* on, unless that was zero.
LEMMA KeptIsServed ==
  ASSUME NEW o \in Options, NEW v \in Values, v # Zero
  PROVE  Served(o, Keep(o, v)) = v
<1> USE DEF Values, Absent, Zero, Unless, Keep, Default
<1>1. Val(o, Absent) = Default(o) /\ Default(o) # Absent
  BY ValIs
<1>2. CASE o = "port"
  BY <1>1, <1>2, FirstOfFour DEF Served, Get, GetConfigInt64
<1>3. CASE o = "debug"
  BY <1>1, <1>3, FirstOfFour DEF Served, Get, GetConfigBool
<1>4. CASE o \notin {"port", "debug"}
  BY <1>1, <1>4, FirstOfFour DEF Served, Get, GetConfigValue
<1> QED BY <1>2, <1>3, <1>4

------------------------------------------------------------------------------
(***************************************************************************)
(* Certificates.                                                           *)
(***************************************************************************)
Of(i) == disk[Files[i]]
Cut(i) == Files[i] \in cut

\* What is on disk is the beginning of one generation, of which an earlier part
\* may be missing again, and only the last file may be cut off.
OneGeneration ==
  /\ \A i, j \in 1..4 : Of(i) # 0 /\ Of(j) # 0 => Of(i) = Of(j)
  /\ \A i, j \in 1..4 : i < j /\ Cut(i) => Of(j) = 0

\* How far GenerateCertificate has come.
Progress ==
  /\ Generating => generation > 0
  /\ phase = "remove" => \A i \in 1..4 : i < place => Of(i) = 0
  /\ phase = "draw" => place = 1 /\ \A i \in 1..4 : Of(i) = 0
  /\ phase \in {"create", "encode"} =>
       \A i \in 1..4 : /\ i < place => Of(i) = generation /\ ~ Cut(i)
                       /\ i > place => Of(i) = 0
                       /\ i = place => Of(i) = IF phase = "create" THEN 0 ELSE generation
  /\ phase = "done" => /\ \A i \in 1..4 : Of(i) # 0
                       /\ \A i \in 1..3 : ~ Cut(i)

CertInv == CertTypeOK /\ OneGeneration /\ Progress

LEMMA FileNames ==
  /\ \A i, j \in 1..4 : Files[i] = Files[j] => i = j
  /\ \A i \in 1..4 : Files[i] \in Names
  /\ Names = {Files[1], Files[2], Files[3], Files[4]}
BY DEF Files, Names

\* A step that changes one file.
LEMMA OneFile ==
  ASSUME CertTypeOK, NEW n \in 1..4, NEW g \in 0..MaxGeneration,
         disk' = [disk EXCEPT ![Files[n]] = g]
  PROVE  /\ disk' \in [Names -> 0..MaxGeneration]
         /\ \A i \in 1..4 : Of(i)' = IF i = n THEN g ELSE Of(i)
BY FileNames DEF CertTypeOK, Of

LEMMA CertStart == CertInit => CertInv
<1> SUFFICES ASSUME CertInit PROVE CertInv
  OBVIOUS
<1>1. \A i \in 1..4 : Of(i) = 0 /\ ~ Cut(i)
  BY FileNames DEF CertInit, Of, Cut
<1>2. CertTypeOK
  BY CertificatesAssumption DEF CertInit, CertTypeOK
<1> QED BY <1>1, <1>2 DEF CertInit, CertInv, OneGeneration, Progress, Generating

LEMMA CertPreserved == CertInv /\ CertNext => CertInv'
<1> SUFFICES ASSUME CertInv, CertNext PROVE CertInv'
  OBVIOUS
<1> USE CertificatesAssumption DEF CertInv, Generating
<1>0. place \in 1..4 /\ generation \in 0..MaxGeneration
  BY DEF CertTypeOK
<1>1. CASE Generate
  <2>1. CertTypeOK'
    BY <1>1 DEF CertTypeOK, Generate
  <2>2. /\ OneGeneration'
        /\ \A i \in 1..4 : Of(i)' = Of(i) /\ Cut(i)' = Cut(i)
    BY <1>1 DEF Generate, OneGeneration, Of, Cut
  <2>3. CASE phase' = "remove"
    BY <1>0, <1>1, <2>1, <2>2, <2>3 DEF Generate, Progress
  <2>4. CASE phase' # "remove"
    <3>1. phase' = "done" /\ \A i \in 1..4 : Of(i) # 0
      BY <1>1, <2>4, FileNames DEF Generate, FileExists, Of
    <3>2. \A i \in 1..3 : ~ Cut(i)
      BY <3>1 DEF OneGeneration
    <3> QED BY <2>1, <2>2, <3>1, <3>2 DEF Progress
  <2> QED BY <2>3, <2>4
<1>2. CASE Remove
  <2>1. /\ disk' \in [Names -> 0..MaxGeneration]
        /\ \A i \in 1..4 : Of(i)' = IF i = place THEN 0 ELSE Of(i)
    <3>1. 0 \in 0..MaxGeneration
      OBVIOUS
    <3>2. disk' = [disk EXCEPT ![Files[place]] = 0]
      BY <1>2 DEF Remove
    <3> QED BY <1>0, <3>1, <3>2, OneFile
  <2>2. \A i \in 1..4 : Cut(i)' <=> Cut(i) /\ i # place
    BY <1>0, <1>2, FileNames DEF Remove, Cut
  <2>3. CertTypeOK'
    BY <1>2, <2>1 DEF CertTypeOK, Remove
  <2>4. OneGeneration'
    BY <2>1, <2>2 DEF OneGeneration
  <2>5. Progress'
    BY <1>0, <1>2, <2>1 DEF Progress, Remove
  <2> QED BY <2>3, <2>4, <2>5
<1>3. CASE Draw
  <2>1. CertTypeOK' /\ OneGeneration'
    BY <1>3 DEF CertTypeOK, OneGeneration, Of, Cut, Draw
  <2>2. Progress'
    BY <1>3 DEF Progress, Of, Cut, Draw
  <2> QED BY <2>1, <2>2
<1>4. CASE Create
  <2>1. /\ disk' \in [Names -> 0..MaxGeneration]
        /\ \A i \in 1..4 : Of(i)' = IF i = place THEN generation ELSE Of(i)
    BY <1>0, <1>4, OneFile DEF Create
  <2>2. \A i \in 1..4 : Cut(i)' <=> Cut(i) \/ i = place
    BY <1>0, <1>4, FileNames DEF Create, Cut
  <2>3. CertTypeOK'
    BY <1>0, <1>4, <2>1, FileNames DEF CertTypeOK, Create
  <2>4. OneGeneration'
    BY <1>0, <1>4, <2>1, <2>2 DEF OneGeneration, Progress, Create
  <2>5. Progress'
    BY <1>0, <1>4, <2>1, <2>2 DEF Progress, Create
  <2> QED BY <2>3, <2>4, <2>5
<1>5. CASE Encode
  <2>1. \A i \in 1..4 : Of(i)' = Of(i) /\ (Cut(i)' <=> Cut(i) /\ i # place)
    BY <1>0, <1>5, FileNames DEF Encode, Of, Cut
  <2>2. CertTypeOK'
    BY <1>0, <1>5 DEF CertTypeOK, Encode
  <2>3. OneGeneration'
    BY <2>1 DEF OneGeneration
  <2>4. Progress'
    BY <1>0, <1>5, <2>1 DEF Progress, Encode
  <2> QED BY <2>2, <2>3, <2>4
<1>6. CASE Abandon
  <2>1. CertTypeOK' /\ OneGeneration'
    BY <1>6 DEF CertTypeOK, OneGeneration, Of, Cut, Abandon
  <2>2. Progress'
    BY <1>6 DEF Progress, Abandon
  <2> QED BY <2>1, <2>2
<1> QED BY <1>1, <1>2, <1>3, <1>4, <1>5, <1>6 DEF CertNext

LEMMA CertUsable == CertInv => PathsUsable
<1> SUFFICES ASSUME CertInv, phase = "done", NEW i \in 1..3
             PROVE  Intact(Files[i]) /\ disk[Files[i]] = disk["ca.crt"]
  BY DEF PathsUsable
<1>1. Of(i) # 0 /\ Of(i) = Of(1) /\ ~ Cut(i)
  BY DEF CertInv, OneGeneration, Progress
<1> QED BY <1>1 DEF Intact, FileExists, Of, Cut, Files

------------------------------------------------------------------------------
(***************************************************************************)
(* Installation.                                                           *)
(***************************************************************************)

\* What a command has come to know, or done, at its steps.
UnitInv ==
  /\ command = "install" =>
       /\ at = 4 \/ (at \in {2, 3} /\ platform = "darwin") => unit = "none"
       /\ at = 5 => unit = "cut"
       /\ at > 5 => unit = "whole"
  /\ command = "uninstall" /\ at = 3 => managed = "no" \/ misled
  /\ ManagedIsWhole /\ UninstallClears

\* What is kept is what install decided on.
KeptInv ==
  config \notin {"none", "cut"} => decided \in Values /\ config = Keep(option, decided)

InstallInv == InstallTypeOK /\ UnitInv /\ KeptInv

\* Where in its command a step is taken.
LEMMA Places ==
  ASSUME InstallTypeOK
  PROVE  /\ Doing("truncate") => command = "install" /\ at = (IF platform = "linux" THEN 1 ELSE 2)
         /\ Doing("encode") => command = "install" /\ at = (IF platform = "linux" THEN 2 ELSE 3)
         /\ Doing("check") => command = "install" /\ at = (IF platform = "linux" THEN 3 ELSE 1)
         /\ Doing("create") => command = "install" /\ at = 4
         /\ Doing("fill") => command = "install" /\ at = 5
         /\ Doing("enable") => command = "install" /\ at = 6
         /\ Doing("start") => command = "install" /\ at = 7
         /\ Doing("ask") \/ Doing("exists") => command = "uninstall" /\ at = 1
         /\ Doing("disable") => command = "uninstall" /\ at = 2
         /\ Doing("remove") => command = "uninstall" /\ at = 3
BY DEF InstallTypeOK, Doing, Busy, Steps, InstallSteps, UninstallSteps

\* The end of a command, or a later step of it.
LEMMA GoesOn ==
  ASSUME InstallTypeOK, Busy, NEW n \in 1..2, GoOn(n), platform' = platform
  PROVE  /\ at' \in 1..Len(Steps') /\ command' \in {"none", "install", "uninstall", "uninstalled"}
         /\ \/ command' = "none" /\ command = "install" /\ at' = 1
            \/ command' = "uninstalled" /\ command = "uninstall" /\ at + n > 3 /\ at' = 1
            \/ command' = command /\ at' = at + n
BY DEF InstallTypeOK, GoOn, EndWell, Busy, Steps, InstallSteps, UninstallSteps

LEMMA InstallStart == InstallInit => InstallInv
<1> SUFFICES ASSUME InstallInit PROVE InstallInv
  OBVIOUS
<1>1. misled \in BOOLEAN
  BY DEF InstallInit
<1>2. InstallTypeOK
  BY <1>1 DEF InstallInit, InstallTypeOK, Steps, UninstallSteps
<1>3. managed # "yes" /\ command = "none" /\ config = "none"
  BY DEF InstallInit
<1>4. UnitInv /\ KeptInv
  BY <1>3 DEF UnitInv, KeptInv, ManagedIsWhole, UninstallClears
<1> QED BY <1>2, <1>4 DEF InstallInv

LEMMA InstallPreserved == InstallInv /\ InstallNext => InstallInv'
<1> SUFFICES ASSUME InstallInv, InstallNext PROVE InstallInv'
  OBVIOUS
<1> USE DEF InstallInv
<1>1. platform' = platform /\ option' = option
  BY DEF InstallNext, Begin, Fail, Truncate, WriteConfig, Check, WriteUnit, Enable, Start, Ask,
         Exists, Disable, RemoveUnit
<1>2. CASE Begin("install") \/ Begin("uninstall") \/ Fail
  <2>1. UNCHANGED <<config, decided, unit, managed, misled>> /\ at' = 1
    BY <1>2 DEF Begin, Fail
  <2>2. command' \in {"none", "install", "uninstall"}
    BY <1>2 DEF Begin, Fail
  <2>3. InstallTypeOK'
    BY <1>1, <2>1, <2>2 DEF InstallTypeOK, Steps, InstallSteps, UninstallSteps
  <2>4. UnitInv' /\ KeptInv'
    BY <1>1, <2>1, <2>2 DEF UnitInv, KeptInv, ManagedIsWhole, UninstallClears
  <2> QED BY <2>3, <2>4
<1>3. CASE Truncate
  <2>1. Busy /\ GoOn(1) /\ config' = "cut" /\ UNCHANGED <<decided, unit, managed, misled>>
    BY <1>3 DEF Truncate, Doing
  <2>2. InstallTypeOK'
    BY <1>1, <2>1, GoesOn DEF InstallTypeOK
  <2>3. UnitInv'
    BY <1>1, <1>3, <2>1, GoesOn, Places
       DEF Truncate, InstallTypeOK, UnitInv, ManagedIsWhole, UninstallClears
  <2> QED BY <2>1, <2>2, <2>3 DEF KeptInv
<1>4. CASE WriteConfig
  <2>1. Busy /\ GoOn(1) /\ UNCHANGED <<unit, managed, misled>> /\ config' = Keep(option, decided')
    BY <1>4 DEF WriteConfig, Doing
  <2>2. decided' \in Values
    BY <1>4, GetTypes DEF WriteConfig, InstallTypeOK
  <2>3. config' \in {Absent} \cup Values
    BY <2>1, <2>2 DEF Keep, Values
  <2>4. InstallTypeOK'
    BY <1>1, <2>1, <2>2, <2>3, GoesOn DEF InstallTypeOK
  <2>5. UnitInv'
    BY <1>1, <1>4, <2>1, GoesOn, Places
       DEF WriteConfig, InstallTypeOK, UnitInv, ManagedIsWhole, UninstallClears
  <2> QED BY <1>1, <2>1, <2>2, <2>4, <2>5 DEF KeptInv
<1>5. CASE Check \/ Start \/ Exists
  <2>1. Busy /\ UNCHANGED <<config, decided, unit, managed, misled>>
    BY <1>5 DEF Check, Start, Exists, Doing
  <2>2. CASE GoOn(1)
    <3>1. InstallTypeOK'
      BY <1>1, <2>1, <2>2, GoesOn DEF InstallTypeOK
    <3>2. UnitInv'
      BY <1>1, <1>5, <2>1, <2>2, GoesOn, Places
         DEF Check, Start, Exists, InstallTypeOK, UnitInv, ManagedIsWhole, UninstallClears
    <3> QED BY <1>1, <2>1, <3>1, <3>2 DEF KeptInv
  <2>3. CASE unit = "none" /\ Exists /\ EndWell
    <3>1. command' = "uninstalled" /\ at' = 1
      BY <2>3, Places DEF Exists, EndWell
    <3>2. InstallTypeOK'
      BY <1>1, <2>1, <3>1 DEF InstallTypeOK, Steps, UninstallSteps
    <3>3. managed = "yes" => misled
      BY <2>3 DEF UnitInv, ManagedIsWhole
    <3>4. managed = "no" \/ misled
      BY <3>3 DEF InstallTypeOK
    <3>5. UnitInv'
      BY <2>1, <2>3, <3>1, <3>3, <3>4 DEF UnitInv, ManagedIsWhole, UninstallClears
    <3> QED BY <1>1, <2>1, <3>2, <3>5 DEF KeptInv
  <2> QED BY <1>5, <2>2, <2>3 DEF Check, Start, Exists
<1>6. CASE WriteUnit
  <2>1. Busy /\ GoOn(1) /\ UNCHANGED <<config, decided, managed, misled>> /\ unit' \in {"cut", "whole"}
    BY <1>6 DEF WriteUnit, Doing
  <2>2. InstallTypeOK'
    BY <1>1, <2>1, GoesOn DEF InstallTypeOK
  <2>3. ASSUME Doing("create"), unit' = "cut"
        PROVE  UnitInv'
    BY <1>1, <2>1, <2>3, GoesOn, Places
       DEF InstallTypeOK, UnitInv, ManagedIsWhole, UninstallClears
  <2>4. ASSUME Doing("fill"), unit' = "whole"
        PROVE  UnitInv'
    BY <1>1, <2>1, <2>4, GoesOn, Places
       DEF InstallTypeOK, UnitInv, ManagedIsWhole, UninstallClears
  <2>5. UnitInv'
    BY <1>6, <2>3, <2>4 DEF WriteUnit
  <2> QED BY <1>1, <2>1, <2>2, <2>5 DEF KeptInv
<1>7. CASE Enable \/ Disable
  <2>1. Busy /\ UNCHANGED <<config, decided, unit>> /\ managed' \in {"yes", "no"} /\ misled' = FALSE
    BY <1>7 DEF Enable, Disable, Doing
  <2>0. misled' \in BOOLEAN
    BY <2>1
  <2>2. GoOn(1) \/ (command' = "none" /\ at' = 1)
    BY <1>7 DEF Enable, Disable
  <2>3. managed' = "yes" => unit = "whole" /\ command = "install"
    BY <1>7, Places DEF Enable, Disable, UnitInv
  <2>4. InstallTypeOK'
    BY <1>1, <2>0, <2>1, <2>2, GoesOn DEF InstallTypeOK, Steps, UninstallSteps
  <2>5. UnitInv'
    BY <1>1, <1>7, <2>1, <2>2, <2>3, GoesOn, Places
       DEF Enable, Disable, InstallTypeOK, UnitInv, ManagedIsWhole, UninstallClears
  <2> QED BY <1>1, <2>1, <2>4, <2>5 DEF KeptInv
<1>8. CASE Ask
  <2>1. Busy /\ UNCHANGED <<config, decided, unit, managed>>
    BY <1>8 DEF Ask, Doing
  <2>2. \/ GoOn(1) /\ misled' = misled
        \/ GoOn(2) /\ misled' \in BOOLEAN /\ (managed = "no" \/ misled')
    <3>1. CASE GoOn(2) /\ misled' = (managed = "yes")
      <4>1. misled' \in BOOLEAN
        BY <3>1
      <4>2. managed = "no" \/ managed = "yes"
        BY DEF InstallTypeOK
      <4>3. managed = "no" \/ misled'
        BY <3>1, <4>2, Zenon
      <4> QED BY <3>1, <4>1, <4>3
    <3> QED BY <1>8, <3>1 DEF Ask
  <2>3. InstallTypeOK'
    BY <1>1, <2>1, <2>2, GoesOn DEF InstallTypeOK
  <2>4. UnitInv'
    BY <1>1, <1>8, <2>1, <2>2, GoesOn, Places
       DEF Ask, InstallTypeOK, UnitInv, ManagedIsWhole, UninstallClears
  <2> QED BY <1>1, <2>1, <2>3, <2>4 DEF KeptInv
<1>9. CASE RemoveUnit
  <2>1. Busy /\ GoOn(1) /\ UNCHANGED <<config, decided, managed, misled>> /\ unit' = "none"
    BY <1>9 DEF RemoveUnit, Doing
  <2>2. InstallTypeOK'
    BY <1>1, <2>1, GoesOn DEF InstallTypeOK
  <2>3. UnitInv'
    BY <1>1, <1>9, <2>1, GoesOn, Places
       DEF RemoveUnit, InstallTypeOK, UnitInv, ManagedIsWhole, UninstallClears
  <2> QED BY <1>1, <2>1, <2>2, <2>3 DEF KeptInv
<1> QED BY <1>2, <1>3, <1>4, <1>5, <1>6, <1>7, <1>8, <1>9 DEF InstallNext

------------------------------------------------------------------------------
(***************************************************************************)
(* The service, and the theorems.                                          *)
(***************************************************************************)

\* What the service has read is what is there, if that has not been touched.
Untouched ==
  /\ "certificates" \notin touched =>
       \A s \in Servers : /\ pair[s] \in {0, disk["ca.crt"]}
                          /\ pool[s] \in {0, disk["ca.crt"]}
  /\ ConfigurationKept

\* A server has a pool only after it has a certificate.
PairFirst ==
  \A s \in Servers : /\ pool[s] # 0 => pair[s] # 0
                     /\ s = server /\ step \in {"key", "pool"} => pair[s] # 0

ServiceTypes ==
  /\ step \in {"off", "read", "certificate", "key", "pool", "up"}
  /\ server \in Servers
  /\ used \in [Servers -> {"none"} \cup Values]
  /\ pair \in [Servers -> 0..MaxGeneration] /\ pool \in [Servers -> 0..MaxGeneration]
  /\ touched \subseteq {"certificates", "configuration"}
  /\ step = "off" => \A s \in Servers : used[s] = "none" /\ pair[s] = 0 /\ pool[s] = 0

Inv == CertInv /\ InstallInv /\ ServiceTypes /\ PairFirst /\ Untouched

LEMMA InitInv == Init => Inv
<1> SUFFICES ASSUME Init PROVE Inv
  OBVIOUS
<1>1. CertInv /\ InstallInv
  BY CertStart, InstallStart DEF Init
<1>2. ServiceTypes
  BY CertificatesAssumption DEF Init, ServiceTypes, Servers
<1>3. PairFirst /\ Untouched
  BY DEF Init, PairFirst, Untouched, ConfigurationKept
<1> QED BY <1>1, <1>2, <1>3 DEF Inv

LEMMA NextInv == Inv /\ [Next]_vars => Inv'
<1> SUFFICES ASSUME Inv, [Next]_vars PROVE Inv'
  OBVIOUS
<1> USE DEF Inv
<1>1. CASE CertStep
  <2>1. CertInv'
    BY <1>1, CertPreserved DEF CertStep
  <2>2. UNCHANGED <<installVars, step, server, used, pair, pool>>
    BY <1>1 DEF CertStep
  <2>3. InstallInv'
    BY <2>2 DEF installVars, InstallInv, InstallTypeOK, UnitInv, KeptInv, ManagedIsWhole,
                UninstallClears, Steps, InstallSteps, UninstallSteps
  <2>4. \/ touched' = touched /\ (step = "off" \/ disk' = disk)
        \/ touched' = touched \cup {"certificates"}
    BY <1>1 DEF CertStep
  <2>5. ServiceTypes' /\ PairFirst'
    BY <2>2, <2>4 DEF ServiceTypes, PairFirst
  <2>6. Untouched'
    BY <2>2, <2>4 DEF Untouched, ConfigurationKept, ServiceTypes, installVars
  <2> QED BY <2>1, <2>3, <2>5, <2>6
<1>2. CASE InstallStep
  <2>1. InstallInv'
    BY <1>2, InstallPreserved DEF InstallStep
  <2>2. UNCHANGED <<certVars, step, server, used, pair, pool>>
    BY <1>2 DEF InstallStep
  <2>3. CertInv'
    BY <2>2 DEF certVars, CertInv, CertTypeOK, OneGeneration, Progress, Generating, Of, Cut
  <2>4. \/ touched' = touched /\ (step = "off" \/ (config' = config /\ decided' = decided))
        \/ touched' = touched \cup {"configuration"}
    BY <1>2 DEF InstallStep
  <2>5. ServiceTypes' /\ PairFirst'
    BY <2>2, <2>4 DEF ServiceTypes, PairFirst
  <2>6. option' = option
    BY <1>2 DEF InstallStep, InstallNext, Begin, Fail, Truncate, WriteConfig, Check, WriteUnit,
                Enable, Start, Ask, Exists, Disable, RemoveUnit
  <2>7. Untouched'
    BY <2>2, <2>4, <2>6 DEF Untouched, ConfigurationKept, ServiceTypes, certVars
  <2> QED BY <2>1, <2>3, <2>5, <2>7
<1>3. ASSUME UNCHANGED <<certVars, installVars>>
      PROVE  CertInv' /\ InstallInv'
  <2>1. CertInv'
    BY <1>3 DEF certVars, CertInv, CertTypeOK, OneGeneration, Progress, Generating, Of, Cut
  <2>2. InstallInv'
    BY <1>3 DEF installVars, InstallInv, InstallTypeOK, UnitInv, KeptInv, ManagedIsWhole,
                UninstallClears, Steps, InstallSteps, UninstallSteps
  <2> QED BY <2>1, <2>2
<1>4. disk["ca.crt"] \in 0..MaxGeneration
  BY DEF CertInv, CertTypeOK, Names, Files
<1>5. CASE Launch
  BY <1>3, <1>5 DEF Launch, ServiceTypes, PairFirst, Untouched, ConfigurationKept, certVars, installVars
<1>6. CASE Exit
  <2>1. ServiceTypes'
    BY <1>6, CertificatesAssumption DEF Exit, ServiceTypes, Servers
  <2>2. PairFirst' /\ Untouched'
    BY <1>6 DEF Exit, PairFirst, Untouched, ConfigurationKept
  <2> QED BY <1>3, <1>6, <2>1, <2>2 DEF Exit
<1>7. CASE LoadConfig
  <2> DEFINE kept == IF config = "cut" THEN Absent ELSE config
  <2>1. option \in Options /\ kept \in {Absent} \cup Values
    BY <1>7 DEF LoadConfig, InstallInv, InstallTypeOK
  <2>2. Served(option, kept) \in Values
    BY <2>1, ServedTypes
  <2>3. config \notin {"none", "cut"} /\ decided # Zero => Served(option, kept) = decided
    BY <2>1, KeptIsServed DEF InstallInv, KeptInv
  <2>4. used' = [used EXCEPT ![server] = Served(option, kept)] /\ step = "read"
    BY <1>7 DEF LoadConfig
  <2> HIDE DEF kept
  <2>5. ServiceTypes' /\ PairFirst'
    BY <1>7, <2>2, <2>4 DEF LoadConfig, ServiceTypes, PairFirst
  <2>6. Untouched'
    BY <1>7, <2>3, <2>4 DEF LoadConfig, Untouched, ConfigurationKept, ServiceTypes, certVars, installVars
  <2> QED BY <1>3, <1>7, <2>5, <2>6 DEF LoadConfig
<1>8. CASE LoadCertificate
  <2>1. disk["ca.crt"] # 0
    BY <1>8 DEF LoadCertificate, Intact, FileExists
  <2>2. ServiceTypes' /\ PairFirst'
    BY <1>4, <1>8, <2>1 DEF LoadCertificate, ServiceTypes, PairFirst
  <2>3. Untouched'
    BY <1>8 DEF LoadCertificate, Untouched, ConfigurationKept, ServiceTypes, certVars, installVars
  <2> QED BY <1>3, <1>8, <2>2, <2>3 DEF LoadCertificate
<1>9. CASE LoadKey
  BY <1>3, <1>9 DEF LoadKey, ServiceTypes, PairFirst, Untouched, ConfigurationKept, certVars, installVars
<1>10. CASE LoadPool
  <2>1. ServiceTypes' /\ PairFirst'
    BY <1>4, <1>10 DEF LoadPool, ServiceTypes, PairFirst, Servers
  <2>2. Untouched'
    BY <1>10 DEF LoadPool, Untouched, ConfigurationKept, ServiceTypes, certVars, installVars
  <2> QED BY <1>3, <1>10, <2>1, <2>2 DEF LoadPool
<1>11. CASE UNCHANGED vars
  BY <1>3, <1>11 DEF vars, serviceVars, ServiceTypes, PairFirst, Untouched, ConfigurationKept, certVars, installVars
<1> QED BY <1>1, <1>2, <1>5, <1>6, <1>7, <1>8, <1>9, <1>10, <1>11 DEF Next

LEMMA Invariance == Spec => []Inv
BY InitInv, NextInv, PTL DEF Spec

\* The type invariant, for any number of generations.
THEOREM TypeCorrect == Spec => []TypeOK
<1>1. Inv => TypeOK
  BY DEF Inv, CertInv, InstallInv, ServiceTypes, TypeOK
<1> QED BY <1>1, Invariance, PTL

\* However many runs were cut short before: when `certificate generate` answers,
\* the server's files are whole and fit, and so does the client's certificate.
THEOREM GeneratedIsUsable == Spec => []PathsUsable
<1>1. Inv => PathsUsable
  BY CertUsable DEF Inv
<1> QED BY <1>1, Invariance, PTL

\* Whichever step of whichever command failed: what the service manager knows
\* has a whole unit.  On Linux the link that stays after `systemctl is-enabled`
\* failed on an enabled unit is excepted.
THEOREM InstallIsWhole == Spec => []ManagedIsWhole
<1>1. Inv => ManagedIsWhole
  BY DEF Inv, InstallInv, UnitInv
<1> QED BY <1>1, Invariance, PTL

\* Whichever installs and uninstalls were cut short before: what `service
\* uninstall` reports as removed has no unit and is unknown to the service manager,
\* except for that link.
THEOREM UninstallLeavesNothing == Spec => []UninstallClears
<1>1. Inv => UninstallClears
  BY DEF Inv, InstallInv, UnitInv
<1> QED BY <1>1, Invariance, PTL

\* A service and a client that find the same files on disk trust each other.
THEOREM SameFilesTrust == Spec => []ClientsAccepted
<1>1. Inv => ClientsAccepted
  <2> SUFFICES ASSUME Inv, "certificates" \notin touched, Intact("client.crt"),
                      NEW s \in Servers, pool[s] # 0
               PROVE  pool[s] = disk["client.crt"] /\ pair[s] = disk["ca.crt"]
    BY DEF ClientsAccepted, Serving
  <2>1. pool[s] = disk["ca.crt"] /\ pair[s] = disk["ca.crt"]
    BY DEF Inv, Untouched, PairFirst
  <2>2. disk["ca.crt"] = disk["client.crt"]
    BY <2>1 DEF Inv, CertInv, OneGeneration, Of, Files, Intact, FileExists
  <2> QED BY <2>1, <2>2
<1> QED BY <1>1, Invariance, PTL

\* From the flag, the variable or the file, through writeConfig and back: both
\* servers use the value that install decided on, for every value but zero.
THEOREM DecisionIsServed == Spec => []ConfigurationKept
<1>1. Inv => ConfigurationKept
  BY DEF Inv, Untouched, ConfigurationKept
<1> QED BY <1>1, Invariance, PTL
==============================================================================
