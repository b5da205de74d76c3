---------------------------- MODULE VmxFileProofs ----------------------------
(***************************************************************************)
(* Theorems about VmxFile, for every number of clients, cards and slots,   *)
(* when all requests come in through the REST router.                      *)
(***************************************************************************)
EXTENDS VmxFile, FiniteSetTheorems, TLAPS

------------------------------------------------------------------------------
(***************************************************************************)
(* What is written is a beginning of the version in memory.                *)
(***************************************************************************)
\* Two files that agree on every entry are the same file.
LEMMA SameEntries ==
  ASSUME NEW v \in Vmx, NEW w \in Vmx,
         v.autostart = w.autostart, v.named = w.named,
         \A i \in Nics : v.cards[i] = w.cards[i]
  PROVE  v = w
<1>1. v.cards = w.cards
  BY DEF Vmx
<1> QED BY <1>1 DEF Vmx

LEMMA WrittenEntries ==
  ASSUME NEW f \in Vmx, NEW v \in Vmx, NEW a \in Int, NEW b \in Int
  PROVE  /\ Written(f, v, a, b) \in Vmx
         /\ Written(f, v, a, b).autostart = (IF a <= 0 /\ 0 < b THEN v.autostart ELSE f.autostart)
         /\ Written(f, v, a, b).named = (IF a <= 1 /\ 1 < b THEN v.named ELSE f.named)
         /\ \A i \in Nics : Written(f, v, a, b).cards[i]
                = (IF a <= i + 2 /\ i + 2 < b THEN v.cards[i] ELSE f.cards[i])
<1>1. [i \in Nics |-> IF a <= i + 2 /\ i + 2 < b THEN v.cards[i] ELSE f.cards[i]]
        \in [Nics -> Cards]
  BY DEF Vmx
<1>2. (IF a <= 1 /\ 1 < b THEN v.named ELSE f.named) \in BOOLEAN
  BY DEF Vmx
<1>3. (IF a <= 0 /\ 0 < b THEN v.autostart ELSE f.autostart) \in {"none", "true", "false"}
  BY DEF Vmx
<1>4. Written(f, v, a, b) \in Vmx
  BY <1>1, <1>2, <1>3 DEF Written, Vmx
<1> QED BY <1>4 DEF Written

LEMMA BlankIsVmx == Blank \in Vmx
BY DEF Blank, Vmx, NoCard, Cards

LEMMA PrefixAll ==
  ASSUME NEW v \in Vmx
  PROVE  Prefix(v, Entries) = v
<1>1. Entries \in Int /\ 2 <= Entries /\ \A i \in Nics : 0 <= i + 2 /\ i + 2 < Entries
  BY VmxAssumption DEF Entries, Nics
<1> QED BY <1>1, BlankIsVmx, WrittenEntries, SameEntries DEF Prefix

LEMMA PrefixGrows ==
  ASSUME NEW v \in Vmx, NEW a \in 0 .. Entries, NEW k \in a .. Entries
  PROVE  Written(Prefix(v, a), v, a, k) = Prefix(v, k)
<1> DEFINE w == Written(Prefix(v, a), v, a, k)
<1>1. a \in Int /\ k \in Int /\ 0 <= a /\ a <= k /\ Nics \subseteq Nat
  BY VmxAssumption DEF Entries, Nics
<1>2. Prefix(v, a) \in Vmx /\ Prefix(v, k) \in Vmx /\ w \in Vmx
  BY <1>1, BlankIsVmx, WrittenEntries DEF Prefix
<1>3. w.autostart = Prefix(v, k).autostart
  BY <1>1, <1>2, BlankIsVmx, WrittenEntries DEF Prefix
<1>4. w.named = Prefix(v, k).named
  BY <1>1, <1>2, BlankIsVmx, WrittenEntries DEF Prefix
<1>5. \A i \in Nics : w.cards[i] = Prefix(v, k).cards[i]
  BY <1>1, <1>2, BlankIsVmx, WrittenEntries DEF Prefix
<1> QED BY <1>2, <1>3, <1>4, <1>5, SameEntries

LEMMA PrefixNothing ==
  ASSUME NEW v \in Vmx
  PROVE  Prefix(v, 0) = Blank
<1>1. Nics \subseteq Nat
  BY VmxAssumption DEF Nics
<1>2. /\ Prefix(v, 0) \in Vmx
      /\ Prefix(v, 0).autostart = Blank.autostart
      /\ Prefix(v, 0).named = Blank.named
      /\ \A i \in Nics : Prefix(v, 0).cards[i] = Blank.cards[i]
  BY <1>1, BlankIsVmx, WrittenEntries DEF Prefix
<1> QED BY <1>2, BlankIsVmx, SameEntries

LEMMA PrefixSound ==
  ASSUME NEW v \in Vmx, NEW k \in 0 .. Entries
  PROVE  /\ Prefix(v, k) \in Vmx
         /\ Present(Prefix(v, k)) \subseteq Present(v)
         /\ Contiguous(v) => Contiguous(Prefix(v, k))
<1>1. k \in Int /\ Nics \subseteq Nat
  BY VmxAssumption DEF Nics, Entries
<1>2. Prefix(v, k) \in Vmx
  BY <1>1, BlankIsVmx, WrittenEntries DEF Prefix
<1>3. \A i \in Nics : i \in Present(Prefix(v, k)) <=> i \in Present(v) /\ i + 2 < k
  <2> TAKE i \in Nics
  <2>1. Prefix(v, k).cards[i] = IF i + 2 < k THEN v.cards[i] ELSE Blank.cards[i]
    BY <1>1, BlankIsVmx, WrittenEntries DEF Prefix
  <2>2. Blank.cards[i].type = "none"
    BY DEF Blank, NoCard
  <2> QED BY <2>1, <2>2 DEF Present
<1>4. Contiguous(v) => Contiguous(Prefix(v, k))
  BY <1>3, VmxAssumption DEF Contiguous, Present, Nics, Entries
<1> QED BY <1>2, <1>3, <1>4 DEF Present

(***************************************************************************)
(* Edits keep the type, and cards stay without gaps.                       *)
(***************************************************************************)
LEMMA CountBound ==
  ASSUME NEW v \in Vmx
  PROVE  Cardinality(Present(v)) \in 0 .. MaxNics
<1>1. IsFiniteSet(Nics) /\ Cardinality(Nics) = MaxNics
  BY FS_Interval, VmxAssumption DEF Nics
<1>2. Present(v) \subseteq Nics
  BY DEF Present
<1> QED BY <1>1, <1>2, FS_Subset, FS_CardinalityType

\* The number of cards is the first number without a card.
LEMMA CountIsFree ==
  ASSUME NEW v \in Vmx, Contiguous(v)
  PROVE  /\ Cardinality(Present(v)) \in 0 .. MaxNics
         /\ Cardinality(Present(v)) \notin Present(v)
         /\ \A j \in 0 .. Cardinality(Present(v)) - 1 : j \in Present(v)
<1> DEFINE P == Present(v)
           n == Cardinality(P)
<1>1. IsFiniteSet(Nics) /\ Cardinality(Nics) = MaxNics
  BY FS_Interval, VmxAssumption DEF Nics
<1>2. P \subseteq Nics /\ IsFiniteSet(P)
  BY <1>1, FS_Subset DEF Present
<1>3. n \in Nat /\ n <= MaxNics
  BY <1>1, <1>2, FS_Subset, FS_CardinalityType
<1>4. ASSUME n \in P PROVE FALSE
  <2>1. 0 .. n \subseteq P
    BY <1>4 DEF Contiguous
  <2>2. Cardinality(0 .. n) = n + 1
    BY <1>3, FS_Interval
  <2>3. Cardinality(0 .. n) <= n
    BY <2>1, <1>2, FS_Subset
  <2> QED BY <2>2, <2>3, <1>3
<1>5. ASSUME NEW j \in 0 .. n - 1, j \notin P PROVE FALSE
  <2>1. P \subseteq 0 .. j - 1
    <3>1. ASSUME NEW i \in P PROVE i \in 0 .. j - 1
      <4>1. i \in Nat /\ j \in Nat
        BY <1>2, <1>3, <1>5, VmxAssumption DEF Nics
      <4>2. ~ j \in 0 .. i
        BY <1>5 DEF Contiguous
      <4> QED BY <4>1, <4>2
    <3> QED BY <3>1
  <2>2. IsFiniteSet(0 .. j - 1) /\ Cardinality(0 .. j - 1) = j
    <3>1. j \in Nat /\ j - 1 \in Int
      BY <1>3, <1>5
    <3>2. IsFiniteSet(0 .. j - 1) /\ Cardinality(0 .. j - 1) = (IF 0 > j - 1 THEN 0 ELSE (j - 1) - 0 + 1)
      BY <3>1, FS_Interval
    <3> QED BY <3>1, <3>2
  <2>3. n <= j
    BY <2>1, <2>2, FS_Subset
  <2> QED BY <2>3, <1>3
<1> QED BY <1>3, <1>4, <1>5

LEMMA EditsSound ==
  ASSUME NEW v \in Vmx
  PROVE  /\ \A b \in {"true", "false"} :
              /\ WithAutostart(v, b) \in Vmx
              /\ Present(WithAutostart(v, b)) = Present(v)
         /\ \A i \in Nics :
              /\ WithCustom(v, i) \in Vmx /\ Present(WithCustom(v, i)) = Present(v) \cup {i}
              /\ WithNat(v, i) \in Vmx    /\ Present(WithNat(v, i)) = Present(v) \cup {i}
              /\ WithType(v, i) \in Vmx   /\ Present(WithType(v, i)) = Present(v) \cup {i}
              /\ WithDevice(v, i) \in Vmx /\ Present(WithDevice(v, i)) = Present(v)
         /\ \A b \in {"true", "false"}, n \in Nat :
              Prepared(v, b, n) \in Vmx /\ (Contiguous(v) => Contiguous(Prepared(v, b, n)))
<1> USE DEF Vmx, Cards, Types, NoCard, Present
<1>1. \A b \in {"true", "false"} : WithAutostart(v, b) \in Vmx
                                   /\ Present(WithAutostart(v, b)) = Present(v)
  BY DEF WithAutostart
<1>2. \A i \in Nics : WithCustom(v, i) \in Vmx /\ Present(WithCustom(v, i)) = Present(v) \cup {i}
  BY DEF WithCustom
<1>3. \A i \in Nics : WithNat(v, i) \in Vmx /\ Present(WithNat(v, i)) = Present(v) \cup {i}
  BY DEF WithNat
<1>4. \A i \in Nics : WithType(v, i) \in Vmx /\ Present(WithType(v, i)) = Present(v) \cup {i}
  BY DEF WithType
<1>5. \A i \in Nics : WithDevice(v, i) \in Vmx /\ Present(WithDevice(v, i)) = Present(v)
  BY DEF WithDevice
<1>6. \A b \in {"true", "false"}, n \in Nat :
              Prepared(v, b, n) \in Vmx /\ (Contiguous(v) => Contiguous(Prepared(v, b, n)))
  <2> TAKE b \in {"true", "false"}, n \in Nat
  <2> DEFINE w == Prepared(v, b, n)
  <2>1. CASE n = 0
    <3>1. w.cards = v.cards /\ w \in Vmx
      BY <2>1 DEF Prepared
    <3> QED BY <3>1 DEF Contiguous
  <2>2. CASE n # 0
    <3>1. w.cards \in [Nics -> Cards] /\ w \in Vmx
      BY <2>2 DEF Prepared
    <3>2. \A i \in Nics : i \in Present(w) <=> i < n /\ i < Slots
      BY <2>2 DEF Prepared
    <3>3. Nics \subseteq Nat /\ \A i \in Nics : \A j \in 0 .. i : j \in Nics
      BY VmxAssumption DEF Nics
    <3>4. \A i \in Present(w) : i \in Nics
      OBVIOUS
    <3>5. Contiguous(w)
      <4> SUFFICES ASSUME NEW i \in Present(w), NEW j \in 0 .. i PROVE j \in Present(w)
        BY DEF Contiguous
      <4>1. i \in Nics /\ i \in Nat /\ j \in Nat /\ j <= i /\ i < n /\ i < Slots /\ j \in Nics
        BY <3>2, <3>3, <3>4
      <4> QED BY <4>1, <3>2, VmxAssumption
    <3> QED BY <3>1, <3>5
  <2> QED BY <2>1, <2>2
<1> QED BY <1>1, <1>2, <1>3, <1>4, <1>5, <1>6
\* Cards stay without gaps when a card is added that has the first free number.
LEMMA StaysContiguous ==
  ASSUME NEW v, NEW w, Contiguous(v), NEW i \in Nat,
         \A j \in 0 .. i - 1 : j \in Present(v),
         Present(w) = Present(v) \cup {i}
  PROVE  Contiguous(w)
BY DEF Contiguous

LEMMA SameCardsContiguous ==
  ASSUME NEW v, NEW w, Contiguous(v), Present(w) = Present(v)
  PROVE  Contiguous(w)
BY DEF Contiguous

------------------------------------------------------------------------------
(***************************************************************************)
(* The inductive invariant.                                                *)
(***************************************************************************)
TypeInv == TypeOK

\* A request holds netLock exactly when it is past AcquireNet: at most one is.
LockInv == \A c \in Clients : pc[c] \notin {"idle", "net"} <=> netLock = c

\* Before Create has answered, it is the only request.
CreateInv ==
  \A c \in Clients :
    /\ op[c] = "Prepare" => ~ prepared /\ pc[c] # "idle"
    /\ ~ prepared /\ pc[c] # "idle" =>
         op[c] = "Prepare" /\ \A d \in Clients : pc[d] # "idle" => d = c

\* The version that netLock protects: what is on disk, or what Save writes.
VersionInv ==
  /\ strayed \/ Contiguous(Version)
  /\ \A c \in Clients : pc[c] = "write" => file = Prefix(copy[c], next[c])
  /\ LoadedIsCurrent

FirstFree(v, i) == i \notin Present(v) /\ \A j \in 0 .. i - 1 : j \in Present(v)

\* The number a request has in hand is that of a card that vmrest has touched,
\* or that of a new one: the first free number when there is no gap.
CardOf(c) ==
  /\ op[c] = "Prepare" => card[c] \in Nat
  /\ op[c] \in {"Add", "Change"} /\ type[c] = "nat" /\ pc[c] \in {"load", "save"}
       => card[c] \in Present(Version)
  /\ op[c] = "Add" /\ type[c] = "custom" /\ pc[c] \in {"load", "save"}
       => /\ card[c] \in 0 .. MaxNics
          /\ Contiguous(Version) => FirstFree(Version, card[c])
  /\ pc[c] = "save" /\ op[c] \in {"Add", "Change"} =>
       card[c] \in Nics /\ (type[c] = "custom" => card[c] < Slots)
  /\ pc[c] \in {"save", "write"} => op[c] \in Edits
  /\ pc[c] = "count" => op[c] = "Add"
  /\ pc[c] = "create" => op[c] = "Add" /\ type[c] = "nat"
  /\ pc[c] = "update" => op[c] = "Change" /\ type[c] = "nat"
  /\ (pc[c] = "idle") <=> (op[c] = "none")

CardInv == \A c \in Clients : CardOf(c)

Inv == TypeInv /\ LockInv /\ CreateInv /\ VersionInv /\ CardInv

LEMMA InitInv ==
  ASSUME Init, RestClients = Clients
  PROVE  Inv
<1>1. Blank \in Vmx /\ Entries \in Nat
  BY BlankIsVmx, VmxAssumption DEF Entries
<1>a. strayed \in BOOLEAN
  BY DEF Init
<1>2. TypeInv
  BY <1>1, <1>a, VmxAssumption DEF Init, TypeInv, TypeOK, Labels, Types
<1>3. Version = file
  BY VmxFileAssumption DEF Init, Version
<1>4. LockInv /\ CreateInv
  BY VmxFileAssumption DEF Init, LockInv, CreateInv
<1>5. VersionInv
  BY <1>3 DEF Init, VersionInv, LoadedIsCurrent
<1>6. CardInv
  BY DEF Init, CardInv, CardOf
<1> QED BY <1>2, <1>4, <1>5, <1>6 DEF Inv

\* The holder of netLock decides what the version is.
LEMMA HolderVersion ==
  ASSUME LockInv, NEW c \in Clients, pc[c] \notin {"idle", "net"}
  PROVE  /\ netLock = c
         /\ Version = IF pc[c] = "write" THEN copy[c] ELSE file
BY DEF LockInv, Version

\* What Save is about to write is a version like the ones before it.
LEMMA EditedSound ==
  ASSUME Inv, NEW c \in Clients, pc[c] = "save"
  PROVE  /\ Edited(c, copy[c]) \in Vmx
         /\ Contiguous(copy[c]) /\ ~ Strays(c) => Contiguous(Edited(c, copy[c]))
<1> DEFINE v == copy[c]
<1>1. v = file /\ v = Version /\ v \in Vmx
  BY HolderVersion DEF Inv, VersionInv, LoadedIsCurrent, TypeInv, TypeOK
<1>a. flag[c] \in {"true", "false"}
  BY DEF Inv, TypeInv, TypeOK
<1>2. CASE op[c] = "SetAutoStart"
  <2>1. Edited(c, v) = WithAutostart(v, flag[c])
    BY <1>2 DEF Edited
  <2> QED BY <1>1, <1>a, <2>1, EditsSound, SameCardsContiguous
<1>3. CASE op[c] = "Prepare"
  <2>1. Edited(c, v) = Prepared(v, flag[c], card[c])
    BY <1>3 DEF Edited
  <2>2. card[c] \in Nat
    BY <1>3 DEF Inv, CardInv, CardOf
  <2> QED BY <1>1, <1>a, <2>1, <2>2, EditsSound
<1>4. CASE op[c] \in {"Add", "Change"} /\ type[c] = "custom"
  <2>1. Edited(c, v) = WithCustom(v, card[c]) /\ card[c] \in Nics
    BY <1>4 DEF Edited, Inv, CardInv, CardOf
  <2>2. card[c] \in Nat
    BY <2>1, VmxAssumption DEF Nics
  <2>3. Contiguous(v) /\ ~ Strays(c) => \A j \in 0 .. card[c] - 1 : j \in Present(v)
    BY <1>1, <1>4 DEF Inv, CardInv, CardOf, FirstFree, Strays
  <2> QED BY <1>1, <2>1, <2>2, <2>3, EditsSound, StaysContiguous
<1>5. CASE op[c] \in {"Add", "Change"} /\ type[c] # "custom"
  <2>1. Edited(c, v) = WithDevice(v, card[c]) /\ card[c] \in Nics
    BY <1>5 DEF Edited, Inv, CardInv, CardOf
  <2> QED BY <1>1, <2>1, EditsSound, SameCardsContiguous
<1> QED BY <1>2, <1>3, <1>4, <1>5 DEF Inv, CardInv, CardOf, Edits

LEMMA StepTyped ==
  ASSUME Inv, NEW c \in Clients, Invoke(c) \/ AcquireNet(c) \/ Step(c)
  PROVE  TypeInv'
<1> USE VmxAssumption, BlankIsVmx DEF Inv, TypeInv, TypeOK, Labels, Goto, Finish, Edits, request
<1>0. Entries \in Nat /\ 2 <= Entries
  BY DEF Entries
<1>1. CASE Invoke(c)
  <2>1. PICK o \in Edits \cup {"Status"}, b \in {"true", "false"}, t \in Types, nic \in 0 .. MaxNics :
          InvokeWith(c, o, b, t, nic)
    BY <1>1 DEF Invoke
  <2>2. Entry(c, o, t) \in Labels
    BY DEF Entry
  <2>3. card' \in [Clients -> -1 .. MaxNics]
    BY <2>1 DEF InvokeWith
  <2> QED BY <1>1, <2>1, <2>2, <2>3 DEF Invoke, InvokeWith
<1>2. CASE AcquireNet(c)
  BY <1>2 DEF AcquireNet, Entry
<1>3. CASE Count(c)
  <2>2. Cardinality(Present(file)) \in -1 .. MaxNics
    BY CountBound
  <2> QED BY <1>3, <2>2 DEF Count
<1>4. CASE CreateNICDevice(c)
  <2>1. \A i \in Nics : WithNat(file, i) \in Vmx
    BY EditsSound
  <2>2. \A i \in Nics : WithNat(file, i) \in Vmx /\ i \in -1 .. MaxNics
    BY <2>1 DEF Nics
  <2> QED BY <1>4, <2>2 DEF CreateNICDevice
<1>5. CASE UpdateNICDevice(c)
  <2>2. card[c] \in Present(file) => WithType(file, card[c]) \in Vmx
    BY EditsSound DEF Present
  <2> QED BY <1>5, <2>2 DEF UpdateNICDevice
<1>6. CASE Load(c)
  BY <1>6 DEF Load
<1>7. CASE Truncate(c)
  <2>1. Edited(c, copy[c]) \in Vmx
    BY <1>7, EditedSound DEF Truncate
  <2>2. strayed' \in BOOLEAN
    BY <1>7 DEF Truncate
  <2>3. /\ file' \in Vmx /\ next' \in [Clients -> 0 .. Entries] /\ copy' \in [Clients -> Vmx]
        /\ UNCHANGED <<prepared, netLock, op, flag, type, card>>
    BY <1>0, <1>7, <2>1 DEF Truncate
  <2>4. pc' \in [Clients -> Labels] /\ res' \in [Clients -> {"none", "ok", "failed", "panic"}]
    BY <1>7 DEF Truncate
  <2> QED BY <2>2, <2>3, <2>4
<1>8. CASE Write(c)
  <2>1. next[c] \in Int /\ copy[c] \in Vmx
    BY <1>0
  <2>2. file' \in Vmx /\ next' \in [Clients -> 0 .. Entries]
    <3>1. CASE UNCHANGED <<file, next>>
      BY <3>1
    <3>2. ASSUME NEW k \in next[c] + 1 .. Entries,
                 file' = Written(file, copy[c], next[c], k), next' = [next EXCEPT ![c] = k]
          PROVE  file' \in Vmx /\ next' \in [Clients -> 0 .. Entries]
      <4>1. k \in 0 .. Entries /\ k \in Int
        BY <1>0, <2>1, <3>2
      <4> QED BY <2>1, <3>2, <4>1, WrittenEntries
    <3> QED BY <1>8, <3>1, <3>2 DEF Write
  <2> QED BY <1>8, <2>2 DEF Write
<1>9. CASE Done(c)
  BY <1>0, <1>9 DEF Done, Reset, Types
<1> QED BY <1>1, <1>2, <1>3, <1>4, <1>5, <1>6, <1>7, <1>8, <1>9 DEF Step

LEMMA StepLock ==
  ASSUME Inv, RestClients = Clients,
         NEW c \in Clients, Invoke(c) \/ AcquireNet(c) \/ Step(c)
  PROVE  LockInv'
<1> USE VmxFileAssumption DEF Inv, LockInv, TypeInv, TypeOK, Goto, Finish
<1>1. CASE Invoke(c)
  BY <1>1 DEF Invoke, InvokeWith
<1>2. CASE AcquireNet(c)
  <2>1. netLock = NoClient /\ netLock' = c /\ pc[c] = "net"
        /\ pc'[c] = Entry(c, op[c], type[c]) /\ \A d \in Clients \ {c} : pc'[d] = pc[d]
    BY <1>2 DEF AcquireNet
  <2>2. pc'[c] \notin {"idle", "net"}
    BY <2>1 DEF Entry
  <2> QED BY <2>1, <2>2
<1>3. CASE Done(c)
  BY <1>3 DEF Done, Reset
<1>4. CASE Step(c) /\ ~ Done(c)
  <2>1. /\ netLock' = netLock /\ pc[c] \notin {"idle", "net"} /\ pc'[c] \notin {"idle", "net"}
        /\ \A d \in Clients \ {c} : pc'[d] = pc[d]
    BY <1>4 DEF Step, Count, CreateNICDevice, UpdateNICDevice, Load, Truncate, Write
  <2> QED BY <2>1
<1> QED BY <1>1, <1>2, <1>3, <1>4

LEMMA StepCreate ==
  ASSUME Inv, NEW c \in Clients, Invoke(c) \/ AcquireNet(c) \/ Step(c)
  PROVE  CreateInv'
<1> USE DEF Inv, CreateInv, TypeInv, TypeOK, Goto, Finish, request
<1>1. CASE Invoke(c)
  <2>1. PICK o \in Edits \cup {"Status"}, b \in {"true", "false"}, t \in Types, nic \in 0 .. MaxNics :
          InvokeWith(c, o, b, t, nic)
    BY <1>1 DEF Invoke
  <2>2. pc'[c] # "idle"
    BY <2>1 DEF InvokeWith, Entry
  <2> QED BY <1>1, <2>1, <2>2 DEF Invoke, InvokeWith
<1>2. CASE AcquireNet(c)
  BY <1>2 DEF AcquireNet, Entry
<1>3. CASE Done(c)
  BY <1>3 DEF Done, Reset
<1>4. CASE Step(c) /\ ~ Done(c)
  BY <1>4 DEF Step, Count, CreateNICDevice, UpdateNICDevice, Load, Truncate, Write
<1> QED BY <1>1, <1>2, <1>3, <1>4

\* Nobody but the holder of netLock is past AcquireNet.
LEMMA OthersWait ==
  ASSUME Inv, NEW c \in Clients, pc[c] \notin {"idle", "net"},
         NEW d \in Clients, d # c
  PROVE  pc[d] \in {"idle", "net"}
BY DEF Inv, LockInv

\* A request that only waits leaves the version alone.
LEMMA WaitingKeepsVersion ==
  ASSUME Inv, RestClients = Clients, TypeInv', LockInv', NEW c \in Clients, Invoke(c) \/ AcquireNet(c)
  PROVE  Version' = Version
BY VmxFileAssumption
   DEF Inv, LockInv, Version, Invoke, InvokeWith, AcquireNet, Goto, Entry, TypeInv, TypeOK
\* What each step of the holder does to the version.
LEMMA VersionSteps ==
  ASSUME Inv, NEW c \in Clients
  PROVE  /\ Count(c) \/ Load(c) \/ Done(c) => Version' = Version
         /\ Write(c) => \/ Version' = Version
                        \/ \E k \in 0 .. Entries : Version' = Prefix(Version, k)
         /\ CreateNICDevice(c) =>
              \/ Version' = Version
              \/ \E i \in Nics \ Present(Version) :
                   /\ \A j \in 0 .. i - 1 : j \in Present(Version)
                   /\ Version' = WithNat(Version, i) /\ card'[c] = i
         /\ UpdateNICDevice(c) =>
              \/ Version' = Version
              \/ card[c] \in Present(Version) /\ Version' = WithType(Version, card[c])
         /\ Truncate(c) =>
              \/ Version' = Version
              \/ pc'[c] = "write" /\ Version' = Edited(c, Version) /\ copy'[c] = Edited(c, Version)
<1> USE VmxFileAssumption DEF Goto, Finish, TypeInv, TypeOK
<1>1. ASSUME Count(c) \/ Load(c) PROVE Version' = Version
  BY <1>1, HolderVersion DEF Inv, Version, Count, Load
<1>2. ASSUME Write(c)
      PROVE  \/ Version' = Version
             \/ \E k \in 0 .. Entries : Version' = Prefix(Version, k)
  <2>2. netLock = c /\ netLock' = c /\ copy' = copy /\ pc[c] = "write" /\ Version = copy[c]
    BY <1>2, HolderVersion DEF Inv, Write
  <2>5. CASE Finish(c, "ok") /\ UNCHANGED <<file, next>>
    <3>1. pc'[c] = "done"
      BY <2>5 DEF Inv
    <3>2. Version' = file
      BY <2>2, <2>5, <3>1 DEF Version
    <3>3. file = Prefix(copy[c], next[c]) /\ next[c] \in 0 .. Entries
      BY <2>2 DEF Inv, VersionInv
    <3> QED BY <2>2, <3>2, <3>3
  <2> SUFFICES ASSUME ~ (Finish(c, "ok") /\ UNCHANGED <<file, next>>) PROVE Version' = Version
    BY <2>5
  <2>1. PICK k \in next[c] + 1 .. Entries :
          /\ file' = Written(file, copy[c], next[c], k)
          /\ IF k = Entries THEN Finish(c, "ok") ELSE UNCHANGED <<pc, res>>
    BY <1>2 DEF Write
  <2>3. CASE k # Entries
    BY <2>1, <2>2, <2>3 DEF Version
  <2>4. CASE k = Entries
    <3>1. file = Prefix(copy[c], next[c]) /\ copy[c] \in Vmx /\ next[c] \in 0 .. Entries
      BY <2>2 DEF Inv, VersionInv
    <3>2. Entries \in next[c] .. Entries
      BY <2>1, <2>4, <3>1
    <3>3. file' = copy[c]
      BY <2>1, <2>4, <3>1, <3>2, PrefixGrows, PrefixAll
    <3>4. pc'[c] = "done"
      BY <2>1, <2>4 DEF Inv
    <3> QED BY <2>2, <3>3, <3>4 DEF Version
  <2> QED BY <2>3, <2>4
<1>3. ASSUME Done(c) PROVE Version' = Version
  BY <1>3, HolderVersion DEF Inv, Version, Done, Reset
<1>4. ASSUME CreateNICDevice(c)
      PROVE  \/ Version' = Version
             \/ \E i \in Nics \ Present(Version) :
                  /\ \A j \in 0 .. i - 1 : j \in Present(Version)
                  /\ Version' = WithNat(Version, i) /\ card'[c] = i
  <2>1. netLock = c /\ netLock' = c /\ Version = file /\ Version' = file'
    BY <1>4, HolderVersion DEF Inv, Version, CreateNICDevice
  <2> QED BY <1>4, <2>1 DEF Inv, CreateNICDevice
<1>5. ASSUME UpdateNICDevice(c)
      PROVE  \/ Version' = Version
             \/ card[c] \in Present(Version) /\ Version' = WithType(Version, card[c])
  <2>1. netLock = c /\ netLock' = c /\ Version = file /\ Version' = file'
    BY <1>5, HolderVersion DEF Inv, Version, UpdateNICDevice
  <2> QED BY <1>5, <2>1 DEF UpdateNICDevice
<1>6. ASSUME Truncate(c)
      PROVE  \/ Version' = Version
             \/ pc'[c] = "write" /\ Version' = Edited(c, Version) /\ copy'[c] = Edited(c, Version)
  <2>1. netLock = c /\ netLock' = c /\ Version = file /\ copy[c] = file /\ pc[c] = "save"
    BY <1>6, HolderVersion DEF Inv, Truncate, VersionInv, LoadedIsCurrent
  <2> QED BY <1>6, <2>1 DEF Inv, Truncate, Version
<1> QED BY <1>1, <1>2, <1>3, <1>4, <1>5, <1>6

LEMMA StepVersion ==
  ASSUME Inv, RestClients = Clients, TypeInv', LockInv',
         NEW c \in Clients, Invoke(c) \/ AcquireNet(c) \/ Step(c)
  PROVE  VersionInv'
<1> USE VmxFileAssumption DEF Goto, Finish
<1>1. CASE Invoke(c) \/ AcquireNet(c)
  <2>1. Version' = Version
    BY <1>1, WaitingKeepsVersion
  <2>2. file' = file /\ copy' = copy /\ next' = next /\ res' = res /\ strayed' = strayed
    BY <1>1 DEF Invoke, AcquireNet
  <2>3. \A d \in Clients : pc'[d] \in {"save", "write", "done"} => pc[d] = pc'[d] /\ op'[d] = op[d]
    BY <1>1 DEF Invoke, InvokeWith, AcquireNet, Entry, Inv, TypeInv, TypeOK, request
  <2> QED BY <2>1, <2>2, <2>3 DEF Inv, VersionInv, LoadedIsCurrent
<1>2. ASSUME Step(c) PROVE VersionInv'
  <2>0. pc[c] \notin {"idle", "net"} /\ \A d \in Clients \ {c} : pc'[d] = pc[d] /\ pc[d] \in {"idle", "net"}
    BY <1>2, OthersWait DEF Step, Count, CreateNICDevice, UpdateNICDevice, Load, Truncate, Write,
         Done, Reset, Inv, TypeInv, TypeOK
  <2>1. /\ Version \in Vmx
        /\ ~ strayed => Contiguous(Version)
        /\ strayed \in BOOLEAN /\ strayed' \in BOOLEAN /\ (strayed => strayed')
    <3>1. strayed => strayed'
      BY <1>2 DEF Step, Count, CreateNICDevice, UpdateNICDevice, Load, Truncate, Write, Done
    <3> QED BY <2>0, <3>1, HolderVersion DEF Inv, VersionInv, TypeInv, TypeOK
  <2>2. ASSUME ~ strayed' PROVE Contiguous(Version')
    <3>0. Contiguous(Version)
      BY <2>1, <2>2
    <3>1. CASE Count(c) \/ Load(c) \/ Done(c)
      BY <3>0, <3>1, VersionSteps
    <3>5. CASE Write(c)
      BY <2>1, <3>0, <3>5, VersionSteps, PrefixSound
    <3>2. CASE CreateNICDevice(c)
      <4>1. CASE Version' = Version
        BY <3>0, <4>1
      <4>2. ASSUME NEW i \in Nics, \A j \in 0 .. i - 1 : j \in Present(Version),
                   Version' = WithNat(Version, i)
            PROVE  Contiguous(Version')
        <5>1. i \in Nat /\ Present(WithNat(Version, i)) = Present(Version) \cup {i}
          BY <2>1, <4>2, EditsSound, VmxAssumption DEF Nics
        <5> QED BY <3>0, <4>2, <5>1, StaysContiguous
      <4> QED BY <3>2, <4>1, <4>2, VersionSteps
    <3>3. CASE UpdateNICDevice(c)
      <4>1. CASE Version' = Version
        BY <3>0, <4>1
      <4>2. CASE card[c] \in Present(Version) /\ Version' = WithType(Version, card[c])
        <5>1. Present(WithType(Version, card[c])) = Present(Version)
          BY <2>1, <4>2, EditsSound DEF Present
        <5> QED BY <3>0, <4>2, <5>1, SameCardsContiguous
      <4> QED BY <3>3, <4>1, <4>2, VersionSteps
    <3>4. CASE Truncate(c)
      <4>1. pc[c] = "save" /\ copy[c] = Version
        BY <3>4, HolderVersion DEF Truncate, Inv, VersionInv, LoadedIsCurrent
      <4>2. CASE Version' = Version
        BY <3>0, <4>2
      <4>3. CASE pc'[c] = "write" /\ Version' = Edited(c, Version)
        <5>1. ~ Strays(c)
          BY <2>2, <3>4, <4>3 DEF Truncate, Inv, TypeInv, TypeOK
        <5> QED BY <3>0, <4>1, <4>3, <5>1, EditedSound
      <4> QED BY <3>4, <4>2, <4>3, VersionSteps
    <3> QED BY <1>2, <3>1, <3>2, <3>3, <3>4, <3>5 DEF Step
  <2>3. pc'[c] = "write" => file' = Prefix(copy'[c], next'[c])
    <3>1. CASE Truncate(c)
      <4>1. pc'[c] = "write" => file' = Blank /\ next'[c] = 0 /\ copy'[c] \in Vmx
        BY <3>1 DEF Truncate, Inv, TypeInv, TypeOK
      <4> QED BY <4>1, PrefixNothing
    <3>2. CASE Write(c)
      <4>1. file = Prefix(copy[c], next[c]) /\ copy[c] \in Vmx /\ next[c] \in 0 .. Entries /\ copy' = copy
        BY <3>2 DEF Write, Inv, VersionInv, TypeInv, TypeOK
      <4>2. CASE UNCHANGED <<file, next>>
        BY <4>1, <4>2
      <4>3. ASSUME NEW k \in next[c] + 1 .. Entries,
                   file' = Written(file, copy[c], next[c], k), next' = [next EXCEPT ![c] = k]
            PROVE  file' = Prefix(copy'[c], next'[c])
        <5>1. k \in next[c] .. Entries /\ next'[c] = k
          BY <4>1, <4>3, VmxAssumption DEF Entries, Inv, TypeInv, TypeOK
        <5> QED BY <4>1, <4>3, <5>1, PrefixGrows
      <4> QED BY <3>2, <4>2, <4>3 DEF Write
    <3> QED BY <1>2, <3>1, <3>2 DEF Step, Count, CreateNICDevice, UpdateNICDevice, Load, Done, Reset,
              Inv, TypeInv, TypeOK
  <2>4. LoadedIsCurrent'
    <3>1. ASSUME pc'[c] = "save" \/ (pc'[c] = "done" /\ op'[c] = "Status" /\ res'[c] = "ok")
          PROVE  copy'[c] = file'
      <4> USE DEF Inv, TypeInv, TypeOK, request
      <4>1. CASE Load(c)
        BY <3>1, <4>1 DEF Load
      <4>2. CASE Write(c)
        <5>1. op'[c] # "Status"
          BY <4>2 DEF Write, CardInv, CardOf, Edits
        <5>2. pc'[c] # "save"
          BY <4>2 DEF Write
        <5> QED BY <3>1, <5>1, <5>2
      <4>3. CASE Count(c) \/ CreateNICDevice(c)
        BY <3>1, <4>3 DEF Count, CreateNICDevice
      <4>4. CASE UpdateNICDevice(c)
        BY <3>1, <4>4 DEF UpdateNICDevice
      <4>5. CASE Truncate(c)
        BY <3>1, <4>5 DEF Truncate
      <4>6. CASE Done(c)
        BY <3>1, <4>6 DEF Done, Reset
      <4> QED BY <1>2, <4>1, <4>2, <4>3, <4>4, <4>5, <4>6 DEF Step
    <3>2. \A d \in Clients : pc'[d] \in {"save", "done"} => d = c
      BY <2>0
    <3> QED BY <3>1, <3>2 DEF LoadedIsCurrent
  <2> QED BY <2>0, <2>2, <2>3, <2>4 DEF VersionInv
<1> QED BY <1>1, <1>2

\* The number in the hand of the request that makes the step.
LEMMA StepCardOf ==
  ASSUME Inv, TypeInv', NEW c \in Clients, Step(c)
  PROVE  CardOf(c)'
<1> USE VmxFileAssumption DEF Goto, Finish, request, Inv, TypeInv, TypeOK
<1>0. CardOf(c) /\ Version \in Vmx /\ Nics \subseteq Nat
  <2>1. pc[c] \notin {"idle", "net"}
    BY DEF Step, Count, CreateNICDevice, UpdateNICDevice, Load, Truncate, Write, Done
  <2> QED BY <2>1, HolderVersion, VmxAssumption DEF VersionInv, CardInv, Nics
<1>1. CASE Count(c)
  <2>1. Version' = Version /\ Version = file
    BY <1>1, VersionSteps, HolderVersion DEF Count
  <2>2. /\ op' = op /\ type' = type /\ op[c] = "Add"
        /\ \/ pc'[c] = "done"
           \/ /\ card'[c] = Cardinality(Present(Version))
              /\ pc'[c] = IF type[c] = "custom" THEN "load" ELSE "create"
    BY <1>0, <1>1, <2>1 DEF Count, CardOf
  <2>3. /\ Cardinality(Present(Version)) \in 0 .. MaxNics
        /\ Contiguous(Version) => FirstFree(Version, Cardinality(Present(Version)))
    BY <1>0, CountBound, CountIsFree DEF FirstFree
  <2>4. type[c] \in {"custom", "nat"}
    BY DEF Types
  <2> QED BY <2>1, <2>2, <2>3, <2>4 DEF CardOf
<1>2. CASE CreateNICDevice(c)
  <2>1. /\ op' = op /\ type' = type /\ op[c] = "Add" /\ type[c] = "nat"
        /\ pc'[c] \in {"load", "done"}
    BY <1>0, <1>2 DEF CreateNICDevice, CardOf
  <2>2. pc'[c] = "load" => card'[c] \in Present(Version')
    <3> SUFFICES ASSUME pc'[c] = "load" PROVE card'[c] \in Present(Version')
      OBVIOUS
    <3>1. PICK i \in Nics \ Present(file) : file' = WithNat(file, i) /\ card'[c] = i
      BY <1>2 DEF CreateNICDevice
    <3>2. Version = file /\ Version' = file'
      BY <1>2, HolderVersion DEF CreateNICDevice, Version
    <3> QED BY <1>0, <3>1, <3>2, EditsSound
  <2> QED BY <2>1, <2>2 DEF CardOf
<1>3. CASE UpdateNICDevice(c)
  <2>1. /\ op' = op /\ type' = type /\ card' = card /\ op[c] = "Change" /\ type[c] = "nat"
        /\ pc'[c] \in {"load", "done"}
    BY <1>0, <1>3 DEF UpdateNICDevice, CardOf
  <2>2. pc'[c] = "load" => card'[c] \in Present(Version')
    <3> SUFFICES ASSUME pc'[c] = "load" PROVE card[c] \in Present(Version')
      BY <2>1
    <3>1. card[c] \in Present(file) /\ file' = WithType(file, card[c])
      BY <1>3 DEF UpdateNICDevice
    <3>2. Version = file /\ Version' = file'
      BY <1>3, <2>1, HolderVersion DEF UpdateNICDevice, Version
    <3>3. card[c] \in Nics /\ Version \in Vmx /\ Version' = WithType(Version, card[c])
      BY <1>0, <3>1, <3>2 DEF Present
    <3>4. Present(WithType(Version, card[c])) = Present(Version) \cup {card[c]}
      BY <3>3, EditsSound
    <3> QED BY <3>3, <3>4
  <2> QED BY <2>1, <2>2 DEF CardOf
<1>4. CASE Load(c)
  <2>1. Version' = Version
    BY <1>4, VersionSteps
  <2>2. /\ op' = op /\ type' = type /\ card' = card /\ pc[c] = "load"
        /\ pc'[c] \in {"save", "done"}
        /\ pc'[c] = "save" => /\ op[c] # "Status"
                              /\ op[c] \in {"Add", "Change"} /\ type[c] = "custom"
                                   => card[c] \in 0 .. Slots - 1
    BY <1>4 DEF Load
  <2>3. type[c] \in {"custom", "nat"} /\ op[c] \in Edits \cup {"none", "Status"}
    BY DEF Types
  <2>4. Present(Version) \subseteq Nics /\ 0 .. Slots - 1 \subseteq Nics
    BY VmxAssumption DEF Present, Nics
  <2>5. op[c] # "none"
    BY <1>0, <2>2 DEF CardOf
  <2>6. pc'[c] = "save" /\ op[c] \in {"Add", "Change"} =>
          card[c] \in Nics /\ (type[c] = "custom" => card[c] < Slots)
    <3> SUFFICES ASSUME pc'[c] = "save", op[c] \in {"Add", "Change"}
                 PROVE  card[c] \in Nics /\ (type[c] = "custom" => card[c] < Slots)
      OBVIOUS
    <3>1. CASE type[c] = "custom"
      BY <2>2, <2>4, <3>1, VmxAssumption
    <3>2. CASE type[c] = "nat"
      BY <1>0, <2>2, <2>4, <3>2 DEF CardOf
    <3> QED BY <2>3, <3>1, <3>2
  <2>7. pc'[c] = "save" => op[c] \in Edits
    BY <2>2, <2>3, <2>5
  <2> QED BY <1>0, <2>1, <2>2, <2>5, <2>6, <2>7 DEF CardOf
<1>5. CASE Truncate(c)
  <2>1. /\ op' = op /\ type' = type /\ card' = card /\ pc[c] = "save"
        /\ pc'[c] \in {"write", "done"} /\ op[c] \in Edits
    BY <1>0, <1>5 DEF Truncate, CardOf
  <2> QED BY <1>0, <2>1 DEF CardOf
<1>6. CASE Write(c)
  <2>2. /\ op' = op /\ type' = type /\ card' = card /\ pc[c] = "write"
        /\ pc'[c] \in {"write", "done"}
    BY <1>6 DEF Write
  <2> QED BY <1>0, <2>2 DEF CardOf
<1>7. CASE Done(c)
  <2>1. pc'[c] = "idle" /\ op'[c] = "none"
    BY <1>7 DEF Done, Reset
  <2> QED BY <2>1 DEF CardOf
<1> QED BY <1>1, <1>2, <1>3, <1>4, <1>5, <1>6, <1>7 DEF Step

LEMMA StepCard ==
  ASSUME Inv, RestClients = Clients, TypeInv', LockInv', CreateInv',
         NEW c \in Clients, Invoke(c) \/ AcquireNet(c) \/ Step(c)
  PROVE  CardInv'
<1> USE VmxFileAssumption DEF Goto, Finish, request
<1>1. CASE Invoke(c)
  <2>1. PICK o \in Edits \cup {"Status"}, b \in {"true", "false"}, t \in Types, nic \in 0 .. MaxNics :
          InvokeWith(c, o, b, t, nic)
    BY <1>1 DEF Invoke
  <2>2. Version' = Version
    BY <1>1, WaitingKeepsVersion
  <2>3. /\ pc'[c] = "net" /\ op'[c] = o /\ type'[c] = t
        /\ card'[c] = IF o = "Change" THEN nic - 1 ELSE nic
    BY <2>1 DEF InvokeWith, Inv, TypeInv, TypeOK
  <2>4. \A d \in Clients \ {c} : /\ pc'[d] = pc[d] /\ op'[d] = op[d]
                                 /\ type'[d] = type[d] /\ card'[d] = card[d]
    BY <2>1 DEF InvokeWith, Inv, TypeInv, TypeOK
  <2>6. o = "Prepare" => card'[c] \in Nat
    BY <2>3
  <2> SUFFICES ASSUME NEW d \in Clients PROVE CardOf(d)'
    BY DEF CardInv, CardOf
  <2> QED BY <2>2, <2>3, <2>4, <2>6 DEF CardInv, CardOf, Inv, Edits
<1>2. CASE AcquireNet(c)
  <2>1. Version' = Version
    BY <1>2, WaitingKeepsVersion
  <2>2. /\ pc[c] = "net" /\ pc'[c] = Entry(c, op[c], type[c])
        /\ op' = op /\ type' = type /\ card' = card
        /\ \A d \in Clients \ {c} : pc'[d] = pc[d]
    BY <1>2 DEF AcquireNet, Inv, TypeInv, TypeOK
  <2>3. type[c] \in Types
    BY DEF Inv, TypeInv, TypeOK
  <2> SUFFICES ASSUME NEW d \in Clients PROVE CardOf(d)'
    BY DEF CardInv
  <2>4. CASE d = c
    BY <2>1, <2>2, <2>3, <2>4 DEF CardInv, CardOf, Inv, Entry, Types
  <2>5. CASE d # c
    BY <2>1, <2>2, <2>5 DEF CardInv, CardOf, Inv
  <2> QED BY <2>4, <2>5
<1>3. CASE Step(c)
  <2>1. /\ pc[c] \notin {"idle", "net"}
        /\ \A d \in Clients \ {c} : /\ pc[d] \in {"idle", "net"} /\ pc'[d] = pc[d]
                                    /\ op'[d] = op[d] /\ type'[d] = type[d] /\ card'[d] = card[d]
    BY <1>3, OthersWait DEF Step, Count, CreateNICDevice, UpdateNICDevice, Load, Truncate, Write,
         Done, Reset, Inv, TypeInv, TypeOK
  <2>4. \A d \in Clients \ {c} : CardOf(d)'
    BY <2>1 DEF CardInv, CardOf, Inv
  <2>5. CardOf(c)'
    BY <1>3, <2>1, StepCardOf
  <2> QED BY <2>4, <2>5 DEF CardInv
<1> QED BY <1>1, <1>2, <1>3

\* A crash leaves a beginning of the version on disk.
LEMMA RestartVersion ==
  ASSUME Inv, Restart
  PROVE  /\ Version' = file
         /\ \E k \in 0 .. Entries : file = Prefix(Version, k)
<1> USE VmxFileAssumption
<1>1. Version' = file
  BY DEF Restart, Version
<1>2. \E k \in 0 .. Entries : file = Prefix(Version, k)
  <2>1. CASE netLock \in Clients /\ pc[netLock] = "write"
    <3>1. Version = copy[netLock]
      BY <2>1 DEF Version
    <3>2. file = Prefix(copy[netLock], next[netLock]) /\ next[netLock] \in 0 .. Entries
      BY <2>1 DEF Inv, VersionInv, TypeInv, TypeOK
    <3> QED BY <3>1, <3>2
  <2>2. CASE ~ (netLock \in Clients /\ pc[netLock] = "write")
    <3>1. file = Version /\ file \in Vmx /\ Entries \in 0 .. Entries
      BY <2>2, VmxAssumption DEF Version, Inv, TypeInv, TypeOK, Entries
    <3>2. Prefix(file, Entries) = file
      BY <3>1, PrefixAll
    <3> QED BY <3>1, <3>2
  <2> QED BY <2>1, <2>2
<1> QED BY <1>1, <1>2

LEMMA VersionTyped ==
  ASSUME Inv
  PROVE  Version \in Vmx /\ (strayed \/ Contiguous(Version))
BY DEF Inv, VersionInv, Version, TypeInv, TypeOK

LEMMA RestartInv ==
  ASSUME Inv, Restart
  PROVE  Inv'
<1>1. TypeInv'
  BY BlankIsVmx, VmxAssumption
     DEF Restart, Inv, TypeInv, TypeOK, Labels, Types, Entries
<1>2. LockInv' /\ CreateInv' /\ CardInv'
  BY VmxFileAssumption DEF Restart, LockInv, CreateInv, CardInv, CardOf, Inv, TypeInv, TypeOK
<1>3. strayed' \/ Contiguous(Version')
  <2>1. PICK k \in 0 .. Entries : file = Prefix(Version, k)
    BY RestartVersion
  <2>2. Version \in Vmx /\ (strayed \/ Contiguous(Version)) /\ strayed' = strayed
    BY VersionTyped DEF Restart
  <2>3. Version' = file
    BY RestartVersion
  <2> QED BY <2>1, <2>2, <2>3, PrefixSound
<1>4. VersionInv'
  BY <1>3 DEF Restart, VersionInv, LoadedIsCurrent
<1> QED BY <1>1, <1>2, <1>3, <1>4 DEF Inv

LEMMA NextInv ==
  ASSUME Inv, RestClients = Clients, [Next]_vars
  PROVE  Inv'
<1>1. CASE UNCHANGED vars
  BY <1>1 DEF vars, request, Inv, TypeInv, TypeOK, LockInv, CreateInv, VersionInv, LoadedIsCurrent,
              Version, CardInv, CardOf
<1>2. CASE Restart
  BY <1>2, RestartInv
<1>3. ASSUME NEW c \in Clients, Invoke(c) \/ AcquireNet(c) \/ Step(c)
      PROVE  Inv'
  <2>1. TypeInv' /\ LockInv' /\ CreateInv'
    BY <1>3, StepTyped, StepLock, StepCreate
  <2>2. VersionInv' /\ CardInv'
    BY <1>3, <2>1, StepVersion, StepCard
  <2> QED BY <2>1, <2>2 DEF Inv
<1> QED BY <1>1, <1>2, <1>3 DEF Next

\* The invariant holds in every state: with one client past AcquireNet, the
\* file is a version or the beginning of what Save writes, and the version has
\* no gap unless a change has made one.
THEOREM Invariance ==
  ASSUME RestClients = Clients
  PROVE  Spec => []Inv
<1>1. Init => Inv
  BY InitInv
<1>2. Inv /\ [Next]_vars => Inv'
  BY NextInv
<1> QED BY <1>1, <1>2, PTL DEF Spec

------------------------------------------------------------------------------
(***************************************************************************)
(* The theorems.                                                           *)
(***************************************************************************)
\* Every variable has its type: no request ever edits a card that the machine
\* cannot have.
THEOREM TypeCorrect ==
  ASSUME RestClients = Clients
  PROVE  Spec => []TypeOK
<1>1. Inv => TypeOK
  BY DEF Inv, TypeInv
<1> QED BY <1>1, Invariance, PTL

\* netLock makes the load and the truncation of the file one step: Save never
\* truncates a file that is not the one that was loaded.
THEOREM NoEditLost ==
  ASSUME RestClients = Clients
  PROVE  Spec => []LoadedIsCurrent
<1>1. Inv => LoadedIsCurrent
  BY DEF Inv, VersionInv
<1> QED BY <1>1, Invariance, PTL

\* As long as ChangeNetworkInterface has not set up a card beyond the first
\* free number, the cards have no gap, so Status, which stops at the first gap,
\* lists them all; also after a crash or a full disk.
THEOREM AllCardsReported ==
  ASSUME RestClients = Clients
  PROVE  Spec => []StatusReportsAllCards
<1>1. ASSUME Inv PROVE StatusReportsAllCards
  <2> SUFFICES ASSUME NEW c \in Clients, pc[c] = "done", op[c] = "Status", res[c] = "ok",
                      ~ strayed
               PROVE  Reported(copy[c]) = Present(copy[c])
    BY DEF StatusReportsAllCards
  <2>1. Contiguous(copy[c]) /\ copy[c] \in Vmx
    BY <1>1, HolderVersion DEF Inv, VersionInv, LoadedIsCurrent, TypeInv, TypeOK
  <2>2. \A i \in Nics : i \in Nat
    BY VmxAssumption DEF Nics
  <2> QED BY <2>1, <2>2 DEF Reported, Contiguous, Present
<1> QED BY <1>1, Invariance, PTL

\* VmxSettings speaks of the same files and the same edits.
LEMMA SameData ==
  /\ Settings!Vmx = Vmx
  /\ Settings!Nics = Nics
  /\ Settings!Entries = Entries
  /\ \A v : Settings!Present(v) = Present(v) /\ (Settings!Contiguous(v) <=> Contiguous(v))
  /\ \A v, k : Settings!Prefix(v, k) = Prefix(v, k)
  /\ \A v, b : Settings!WithAutostart(v, b) = WithAutostart(v, b)
  /\ \A v, b, n : Settings!Prepared(v, b, n) = Prepared(v, b, n)
  /\ \A v, i : /\ Settings!WithCustom(v, i) = WithCustom(v, i)
               /\ Settings!WithNat(v, i) = WithNat(v, i)
               /\ Settings!WithType(v, i) = WithType(v, i)
               /\ Settings!WithDevice(v, i) = WithDevice(v, i)
<1>1. Settings!Vmx = Vmx /\ Settings!Nics = Nics /\ Settings!Entries = Entries
  BY DEF Settings!Vmx, Vmx, Settings!Nics, Nics, Settings!Cards, Cards, Settings!Types, Types,
         Settings!Entries, Entries
<1>2. \A v : Settings!Present(v) = Present(v) /\ (Settings!Contiguous(v) <=> Contiguous(v))
  BY DEF Settings!Present, Present, Settings!Contiguous, Contiguous, Settings!Nics, Nics
<1>3. \A v, k : Settings!Prefix(v, k) = Prefix(v, k)
  BY DEF Settings!Prefix, Prefix, Settings!Written, Written, Settings!Blank, Blank,
         Settings!NoCard, NoCard, Settings!Nics, Nics
<1>4. \A v, b : Settings!WithAutostart(v, b) = WithAutostart(v, b)
  BY DEF Settings!WithAutostart, WithAutostart
<1>5. \A v, b, n : Settings!Prepared(v, b, n) = Prepared(v, b, n)
  BY DEF Settings!Prepared, Prepared, Settings!NoCard, NoCard, Settings!Nics, Nics
<1>6. \A v, i : /\ Settings!WithCustom(v, i) = WithCustom(v, i)
                /\ Settings!WithNat(v, i) = WithNat(v, i)
                /\ Settings!WithType(v, i) = WithType(v, i)
                /\ Settings!WithDevice(v, i) = WithDevice(v, i)
  BY DEF Settings!WithCustom, WithCustom, Settings!WithNat, WithNat,
         Settings!WithType, WithType, Settings!WithDevice, WithDevice
<1> QED BY <1>1, <1>2, <1>3, <1>4, <1>5, <1>6

\* What is in hand is the request that holds netLock.
LEMMA HolderInHand ==
  ASSUME Inv, NEW c \in Clients, netLock = c
  PROVE  InHand = op[c] /\ InHand # "none" /\ pc[c] \notin {"idle", "net"}
BY DEF Inv, InHand, LockInv, CardInv, CardOf

\* What Save writes is an edit that VmxSettings allows.
LEMMA EditAllowed ==
  ASSUME Inv, NEW c \in Clients, Truncate(c), Version' = Edited(c, Version),
         InHand = op[c], InHand' = InHand
  PROVE  Settings!Next
<1> DEFINE v == Version
<1> USE DEF Settings!Next, Settings!Edit
<1>1. /\ pc[c] = "save" /\ op[c] \in Edits
      /\ flag[c] \in {"true", "false"} /\ type[c] \in {"custom", "nat"}
      /\ CardOf(c) /\ card[c] \in -1 .. MaxNics
  BY DEF Truncate, Inv, CardInv, CardOf, TypeInv, TypeOK, Types
<1>2. CASE op[c] = "SetAutoStart"
  <2>1. v' = Settings!WithAutostart(v, flag[c])
    BY <1>2, SameData DEF Edited
  <2> QED BY <1>1, <1>2, <2>1 DEF Settings!SetAutoStart
<1>3. CASE op[c] = "Prepare"
  <2>1. v' = Settings!Prepared(v, flag[c], card[c])
    BY <1>3, SameData DEF Edited
  <2>2. card[c] \in 0 .. MaxNics
    BY <1>1, <1>3, VmxAssumption DEF CardOf
  <2> QED BY <1>1, <1>3, <2>1, <2>2 DEF Settings!Prepare
<1>4. CASE op[c] = "Add" /\ type[c] = "custom"
  <2>1. v' = Settings!WithCustom(v, card[c])
    BY <1>4, SameData DEF Edited
  <2>2. /\ card[c] \in Nics /\ card[c] < Slots
        /\ Contiguous(v) => FirstFree(v, card[c])
    BY <1>1, <1>4 DEF CardOf
  <2>3. card[c] \in Settings!Nics /\ (Settings!Contiguous(v) => Settings!FirstFree(card[c]))
    BY <2>2, SameData DEF Settings!FirstFree, FirstFree
  <2> QED BY <1>4, <2>1, <2>2, <2>3 DEF Settings!AddCustom
<1>5. CASE op[c] = "Change" /\ type[c] = "custom"
  <2>1. v' = Settings!WithCustom(v, card[c])
    BY <1>5, SameData DEF Edited
  <2>2. card[c] \in Settings!Nics /\ card[c] < Slots
    BY <1>1, <1>5, SameData DEF CardOf
  <2> QED BY <1>5, <2>1, <2>2 DEF Settings!ChangeToCustom
<1>6. CASE op[c] \in {"Add", "Change"} /\ type[c] = "nat"
  <2>1. v' = Settings!WithDevice(v, card[c])
    BY <1>6, SameData DEF Edited
  <2>2. card[c] \in Settings!Present(v)
    BY <1>1, <1>6, SameData DEF CardOf
  <2> QED BY <1>6, <2>1, <2>2 DEF Settings!SetDevice
<1> QED BY <1>1, <1>2, <1>3, <1>4, <1>5, <1>6 DEF Edits

\* A step of the holder is an edit, or changes nothing VmxSettings speaks of.
LEMMA HolderAllowed ==
  ASSUME Inv, NEW c \in Clients, Step(c), ~ Done(c)
  PROVE  [Settings!Next]_<<Version, InHand>>
<1>1. netLock = c /\ netLock' = c /\ op' = op
  BY HolderVersion DEF Inv, Step, Count, CreateNICDevice, UpdateNICDevice, Load, Truncate, Write, request
<1>2. InHand = op[c] /\ InHand' = InHand
  BY <1>1 DEF InHand
<1>3. CASE Version' = Version
  BY <1>2, <1>3
<1>4. CASE CreateNICDevice(c)
  <2>1. op[c] = "Add"
    BY <1>4 DEF CreateNICDevice, Inv, CardInv, CardOf
  <2>2. ASSUME NEW i \in Nics \ Present(Version), Version' = WithNat(Version, i),
               \A j \in 0 .. i - 1 : j \in Present(Version)
        PROVE  Settings!Next
    <3>1. i \in Settings!Nics /\ Settings!FirstFree(i) /\ Version' = Settings!WithNat(Version, i)
      BY <2>2, SameData DEF Settings!FirstFree
    <3> QED BY <1>2, <2>1, <3>1 DEF Settings!Next, Settings!AddNat, Settings!Edit
  <2> QED BY <1>3, <1>4, <2>2, VersionSteps
<1>5. CASE UpdateNICDevice(c)
  <2>1. op[c] = "Change"
    BY <1>5 DEF UpdateNICDevice, Inv, CardInv, CardOf
  <2>2. ASSUME card[c] \in Present(Version), Version' = WithType(Version, card[c])
        PROVE  Settings!Next
    <3>1. card[c] \in Settings!Present(Version) /\ Version' = Settings!WithType(Version, card[c])
      BY <2>2, SameData
    <3> QED BY <1>2, <2>1, <3>1 DEF Settings!Next, Settings!ChangeToNat, Settings!Edit
  <2> QED BY <1>3, <1>5, <2>2, VersionSteps
<1>6. CASE Truncate(c)
  <2>1. Version' = Version \/ Version' = Edited(c, Version)
    BY <1>6, VersionSteps
  <2> QED BY <1>2, <1>3, <1>6, <2>1, EditAllowed
<1>7. CASE Write(c)
  <2>1. op[c] \in Edits
    BY <1>7 DEF Write, Inv, CardInv, CardOf
  <2>2. ASSUME NEW k \in 0 .. Entries, Version' = Prefix(Version, k)
        PROVE  Settings!WriteError
    BY <1>2, <2>1, <2>2, SameData DEF Settings!WriteError, Settings!Damaged, Edits
  <2> QED BY <1>3, <1>7, <2>2, VersionSteps DEF Settings!Next
<1> QED BY <1>3, <1>4, <1>5, <1>6, <1>7, VersionSteps DEF Step

LEMMA StepAllowed ==
  ASSUME Inv, RestClients = Clients, [Next]_vars
  PROVE  [Settings!Next]_<<Version, InHand>>
<1>0. NoClient \notin Clients
  BY VmxFileAssumption
<1>1. CASE UNCHANGED vars
  BY <1>1 DEF vars, request, Version, InHand
<1>2. CASE Restart
  <2>1. PICK k \in 0 .. Entries : file = Prefix(Version, k)
    BY <1>2, RestartVersion
  <2>2. Version' = file
    BY <1>2, RestartVersion
  <2>3. k \in 0 .. Settings!Entries /\ Version' = Settings!Prefix(Version, k)
    BY <2>1, <2>2, SameData
  <2>4. InHand' = "none"
    BY <1>0, <1>2 DEF Restart, InHand
  <2> QED BY <2>3, <2>4 DEF Settings!Next, Settings!Crash, Settings!Damaged
<1>3. ASSUME NEW c \in Clients, Invoke(c) \/ AcquireNet(c)
      PROVE  Inv' /\ Version' = Version
  <2>1. Inv'
    BY <1>3, NextInv DEF Next
  <2> QED BY <1>3, <2>1, WaitingKeepsVersion DEF Inv
<1>4. ASSUME NEW c \in Clients, Invoke(c)
      PROVE  UNCHANGED <<Version, InHand>>
  <2>1. netLock' = netLock /\ netLock # c /\ \A d \in Clients \ {c} : op'[d] = op[d]
    BY <1>4 DEF Invoke, InvokeWith, Inv, LockInv, TypeInv, TypeOK
  <2> QED BY <1>3, <1>4, <2>1 DEF InHand
<1>5. ASSUME NEW c \in Clients, AcquireNet(c)
      PROVE  Settings!Begin
  <2>1. netLock = NoClient /\ netLock' = c /\ op' = op
    BY <1>5 DEF AcquireNet, request
  <2>2. InHand = "none" /\ InHand' = op[c] /\ op[c] # "none"
    BY <1>0, <1>5, <2>1 DEF InHand, AcquireNet, Inv, CardInv, CardOf
  <2>3. op[c] \in Edits \cup {"none", "Status"}
    BY DEF Inv, TypeInv, TypeOK
  <2> QED BY <1>3, <1>5, <2>2, <2>3 DEF Settings!Begin, Settings!Requests, Edits
<1>6. ASSUME NEW c \in Clients, Done(c)
      PROVE  Settings!End
  <2>1. netLock = c /\ netLock' = NoClient
    BY <1>6, HolderVersion DEF Done, Inv
  <2>2. InHand # "none" /\ InHand' = "none"
    BY <1>0, <2>1, HolderInHand DEF InHand
  <2>3. Version' = Version
    BY <1>6, VersionSteps
  <2> QED BY <2>2, <2>3 DEF Settings!End
<1>7. ASSUME NEW c \in Clients, Invoke(c) \/ AcquireNet(c) \/ Step(c)
      PROVE  [Settings!Next]_<<Version, InHand>>
  BY <1>4, <1>5, <1>6, <1>7, HolderAllowed DEF Settings!Next
<1> QED BY <1>1, <1>2, <1>7 DEF Next

\* Behind the REST router the vmx file changes by whole edits, each of which
\* keeps what it is not about, whatever the requests in progress; a crash or a
\* write error leaves the beginning of the version that was being written.
THEOREM FileRefinesSettings ==
  ASSUME RestClients = Clients
  PROVE  Spec => WholeVersions
<1>1. Init => Settings!Init
  <2> SUFFICES ASSUME Init PROVE Settings!Init
    OBVIOUS
  <2>1. Version = file
    BY VmxFileAssumption DEF Init, Version
  <2>2. InHand = "none"
    BY VmxFileAssumption DEF Init, InHand
  <2> QED BY <2>1, <2>2, SameData DEF Init, Settings!Init
<1>2. Inv /\ [Next]_vars => [Settings!Next]_<<Version, InHand>>
  BY StepAllowed
<1> QED BY <1>1, <1>2, Invariance, PTL DEF Spec, WholeVersions, Settings!Spec
==============================================================================
