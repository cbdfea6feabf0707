--------------------------- MODULE MCServerRegistry ---------------------------
(***************************************************************************)
(* Small instances of ServerRegistry for TLC.                              *)
(***************************************************************************)
EXTENDS ServerRegistry

CONSTANTS s1, s2
=============================================================================
