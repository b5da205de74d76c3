-------------------------------- MODULE VmxMap --------------------------------
(***************************************************************************)
(* What a vmx file says, as far as the service changes it: the autostart   *)
(* flag, the display name, and the network cards.  The lines of one card   *)
(* are one entry.  Every key occurs in one spelling, which is how VMware   *)
(* and the service write them, so the two maps of VMXMap are one function. *)
(***************************************************************************)
EXTENDS Integers

CONSTANTS
  MaxNics,  \* cards VMware allows a machine to have
  Slots     \* entries of pcislotnumber

ASSUME VmxAssumption == MaxNics \in Nat /\ Slots \in Nat /\ Slots <= MaxNics

Nics  == 0 .. MaxNics - 1
Types == {"custom", "nat"}

\* A card that is not there has no `present` line; it may have others.
Cards  == [type : Types \cup {"none"}, dev : {"none", "e1000", "vmxnet3"}]
NoCard == [type |-> "none", dev |-> "none"]

Vmx == [autostart : {"none", "true", "false"}, named : BOOLEAN, cards : [Nics -> Cards]]

Blank == [autostart |-> "none", named |-> FALSE, cards |-> [i \in Nics |-> NoCard]]

Present(v) == {i \in Nics : v.cards[i].type # "none"}

\* Cards are numbered from 0 without gaps.
Contiguous(v) == \A i \in Present(v) : \A j \in 0 .. i : j \in Present(v)

\* The cards Status lists: it stops at the first number that is not there.
Reported(v) == {i \in Nics : \A j \in 0 .. i : j \in Present(v)}

(***************************************************************************)
(* Edits.                                                                  *)
(***************************************************************************)
WithAutostart(v, b) == [v EXCEPT !.autostart = b]

\* prepareEthernet for the interface that setCustomInterface describes.
WithCustom(v, i) == [v EXCEPT !.cards[i] = [type |-> "custom", dev |-> "vmxnet3"]]

WithDevice(v, i) == [v EXCEPT !.cards[i].dev = "vmxnet3"]

\* vmrest adds a card of the type asked for, with its own default device.
WithNat(v, i) == [v EXCEPT !.cards[i] = [type |-> "nat", dev |-> "e1000"]]

\* vmrest changes the type of a card.
WithType(v, i) == [v EXCEPT !.cards[i].type = "nat"]

\* prepareVM: Cleanup drops the cards of the template if others are asked for,
\* and as many are set up as there are PCI slots.
Prepared(v, b, n) ==
  [autostart |-> b,
   named     |-> TRUE,
   cards     |-> IF n = 0 THEN v.cards
                 ELSE [i \in Nics |-> IF i < n /\ i < Slots
                                      THEN [type |-> "custom", dev |-> "vmxnet3"]
                                      ELSE NoCard]]

(***************************************************************************)
(* Save writes entries in the order of their keys: "autostart",            *)
(* "displayname", then the cards.                                          *)
(***************************************************************************)
Entries == MaxNics + 2

\* Variant: the keys are not sorted, and the cards come in another order.
WrittenUnsorted(f, v, a, b) ==
  LET place(i) == Entries - 1 - i IN
  [autostart |-> IF a <= 0 /\ 0 < b THEN v.autostart ELSE f.autostart,
   named     |-> IF a <= 1 /\ 1 < b THEN v.named ELSE f.named,
   cards     |-> [i \in Nics |-> IF a <= place(i) /\ place(i) < b THEN v.cards[i] ELSE f.cards[i]]]

\* The file f after the entries numbered from `a` to `b - 1` of v are written.
Written(f, v, a, b) ==
  [autostart |-> IF a <= 0 /\ 0 < b THEN v.autostart ELSE f.autostart,
   named     |-> IF a <= 1 /\ 1 < b THEN v.named ELSE f.named,
   cards     |-> [i \in Nics |-> IF a <= i + 2 /\ i + 2 < b THEN v.cards[i] ELSE f.cards[i]]]

Prefix(v, k) == Written(Blank, v, 0, k)
==============================================================================
