----------------------------- MODULE MCLogViewer -----------------------------
(***************************************************************************)
(* Small instances of LogViewer for TLC.  The line l2, which only          *)
(* build_logs has, begins like l1: the first 120 characters are the same.  *)
(***************************************************************************)
EXTENDS LogViewer

OwnMessages ==
  <<[kind |-> "log", text |-> "l1"], [kind |-> "stage", text |-> "deploy"],
    [kind |-> "status", text |-> "running"]>>

OtherMessages ==
  <<[kind |-> "status", text |-> "failed"]>>

OldLines == <<"old">>
LogLines == <<"l1", "l2">>

FirstPart == [l \in {"l1", "l2", "deploy", "old"} |-> IF l = "l2" THEN "l1" ELSE l]
=============================================================================
