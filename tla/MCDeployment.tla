---------------------------- MODULE MCDeployment ----------------------------
(***************************************************************************)
(* Keys drawn twice: what a run leaves behind meets the next run.          *)
(***************************************************************************)
EXTENDS Deployment
==============================================================================
