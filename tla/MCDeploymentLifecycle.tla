------------------------ MODULE MCDeploymentLifecycle ------------------------
(***************************************************************************)
(* Small instances of DeploymentLifecycle for TLC.                         *)
(***************************************************************************)
EXTENDS DeploymentLifecycle

CONSTANTS d1, d2, a1

\* All deployments belong to one application.
OneApp == [d \in Deployments |-> a1]
=============================================================================
