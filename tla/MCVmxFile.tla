------------------------------ MODULE MCVmxFile ------------------------------
(***************************************************************************)
(* One machine with room for two cards and two PCI slots, the fewest that  *)
(* leave room for a gap, and two clients.                                  *)
(***************************************************************************)
EXTENDS VmxFile

CONSTANTS c1, c2

MCTwo == {c1, c2}
==============================================================================
