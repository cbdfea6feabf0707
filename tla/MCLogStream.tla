----------------------------- MODULE MCLogStream -----------------------------
(***************************************************************************)
(* Small instances of LogStream for TLC.                                   *)
(***************************************************************************)
EXTENDS LogStream

CONSTANTS v1, p1, job
=============================================================================
