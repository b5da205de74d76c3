------------------------------ MODULE MCVmrest ------------------------------
(***************************************************************************)
(* Two callers, two pairs of credentials, and more processes than the      *)
(* service may ever need at once.                                          *)
(***************************************************************************)
EXTENDS VmrestProcess

CONSTANTS c1, c2, n1, n2, p1, p2

MCCallers == {c1, c2}
MCCreds == {n1, n2}
MCPids == {p1, p2}
==============================================================================
