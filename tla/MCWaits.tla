------------------------------ MODULE MCWaits ------------------------------
(***************************************************************************)
(* Two REST requests, waits for ever and for two rounds.                   *)
(***************************************************************************)
EXTENDS Waits

CONSTANTS c1, c2

MCClients == {c1, c2}
MCTimeouts == {0, 2}
==============================================================================
