----------------------------- MODULE VmxSettings -----------------------------
(***************************************************************************)
(* What the REST router promises about the vmx file of one machine: one    *)
(* request at a time works on it, the file changes by whole edits, an edit *)
(* is one that the request asks for and keeps what it is not about, and a  *)
(* new card takes the first free number as long as there is no gap below   *)
(* another card.  A crash or a write error can damage the file, which then *)
(* holds the beginning of its newest version.                              *)
(***************************************************************************)
EXTENDS VmxMap

VARIABLES settings, request

Requests == {"SetAutoStart", "Add", "Change", "Prepare", "Status"}

Init ==
  /\ settings \in {v \in Vmx : v.named /\ Contiguous(v)}
  /\ request = "none"

Begin == request = "none" /\ request' \in Requests /\ UNCHANGED settings

End == request # "none" /\ request' = "none" /\ UNCHANGED settings

Edit(o, v) == request = o /\ settings' = v /\ UNCHANGED request

SetAutoStart == \E b \in {"true", "false"} : Edit("SetAutoStart", WithAutostart(settings, b))

FirstFree(i) == i \in Nics \ Present(settings) /\ \A j \in 0 .. i - 1 : j \in Present(settings)

\* The number is that of the cards there are.
AddCustom == \E i \in Nics : /\ Contiguous(settings) => FirstFree(i)
                            /\ i < Slots /\ Edit("Add", WithCustom(settings, i))

AddNat == \E i \in Nics : FirstFree(i) /\ Edit("Add", WithNat(settings, i))

\* The card need not be there.
ChangeToCustom == \E i \in Nics : i < Slots /\ Edit("Change", WithCustom(settings, i))

ChangeToNat == \E i \in Present(settings) : Edit("Change", WithType(settings, i))

SetDevice == \E i \in Present(settings), o \in {"Add", "Change"} :
               Edit(o, WithDevice(settings, i))

Prepare == \E b \in {"true", "false"}, n \in 0 .. MaxNics :
             Edit("Prepare", Prepared(settings, b, n))

Damaged == \E k \in 0 .. Entries : settings' = Prefix(settings, k)

Crash == Damaged /\ request' = "none"

\* A full disk: the request goes on, and does not know.
WriteError == Damaged /\ request \notin {"none", "Status"} /\ UNCHANGED request

Next == \/ Begin \/ End
        \/ SetAutoStart
        \/ AddCustom \/ ChangeToCustom
        \/ AddNat \/ ChangeToNat \/ SetDevice
        \/ Prepare
        \/ Crash \/ WriteError

Spec == Init /\ [][Next]_<<settings, request>>
==============================================================================
