------------------------------- MODULE MCVmrun -------------------------------
(***************************************************************************)
(* Small hosts for TLC.                                                    *)
(***************************************************************************)
EXTENDS VmrunRefinement, TLC

CONSTANTS c1, c2, u1, u2, u3, n1, n2

MCTwo      == {c1, c2}
MCOne      == {c1}
MCNone     == {}
MCUuids    == {u1, u2, u3}
MCTwoUuids == {u1, u2}
MCOneUuid  == {u1}
MCNames    == {n1, n2}
MCOneName  == {n1}
MCAuto     == {u2}
MCAutoNone == {}
MCGens     == 1..4
MCAllOps   == Serialised \cup Unlocked \cup {"List"}
MCFullOps  == {"Delete", "PowerOn", "List"}
MCPowerOps == {"Delete", "PowerOn", "PowerState"}
MCCreateOnly == {"Create"}
MCReaders  == {"ByName", "List"}

\* Clients are alike, and so are names.
MCSymmetry == Permutations({c1, c2}) \cup Permutations({n1, n2})
==============================================================================
