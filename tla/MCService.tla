------------------------------ MODULE MCService ------------------------------
(***************************************************************************)
(* The three modes.  Two connections contend for netLock, which only REST  *)
(* requests take; with both servers one connection has to do.              *)
(* There is never more than one vmrest, so its pid is used again and again. *)
(***************************************************************************)
EXTENDS Service

CONSTANTS k1, k2, p1

MCConns == {k1, k2}
MCPids == {p1}

MCAllModes == {"rest", "grpc", "full"}
MCClients == [m \in MCAllModes |-> IF m = "full" THEN {k1} ELSE MCConns]
==============================================================================
