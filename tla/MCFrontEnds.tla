----------------------------- MODULE MCFrontEnds -----------------------------
(***************************************************************************)
(* Full mode with two connections; MCService has the other modes.          *)
(***************************************************************************)
EXTENDS FrontEnds

CONSTANTS k1, k2

MCConns == {k1, k2}

MCFull == {"full"}
==============================================================================
