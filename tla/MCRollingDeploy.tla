--------------------------- MODULE MCRollingDeploy ---------------------------
(***************************************************************************)
(* Small instances of RollingDeploy for TLC.                               *)
(***************************************************************************)
EXTENDS RollingDeploy

CONSTANT h1
=============================================================================
