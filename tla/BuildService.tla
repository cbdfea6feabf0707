----------------------------- MODULE BuildService -----------------------------
(***************************************************************************)
(* What the orchestrator's build service promises to those who ask it for  *)
(* deployments, without its rows, requests and retries: accepted jobs are  *)
(* worked on one at a time, each once and in order; at most one verdict    *)
(* comes of each, success only of a deployment that was brought to its     *)
(* end; a verdict is told once or lost; and the status an application      *)
(* shows changes only with a verdict told or on request.                   *)
(***************************************************************************)
EXTENDS Naturals, Sequences

CONSTANTS Deployments, Applications, AppOf, None

VARIABLES
  jobs,      \* deployments accepted and not begun, oldest first; one may come twice
  working,   \* the deployment worked on, or None
  ended,     \* deployments brought to their end at least once
  owed,      \* verdicts reached and not told, for each deployment and verdict
  shown      \* what is shown of each application

vars == <<jobs, working, ended, owed, shown>>

Verdict == {"running", "failed"}

Init ==
  /\ jobs = <<>> /\ working = None /\ ended = {}
  /\ owed = [d \in Deployments |-> [v \in Verdict |-> 0]]
  /\ shown = [a \in Applications |-> "stopped"]

Accept(d) ==
  /\ jobs' = Append(jobs, d)
  /\ UNCHANGED <<working, ended, owed, shown>>

Begin ==
  /\ working = None /\ jobs # <<>>
  /\ working' = Head(jobs) /\ jobs' = Tail(jobs)
  /\ UNCHANGED <<ended, owed, shown>>

Complete ==
  /\ working # None
  /\ ended' = ended \cup {working}
  /\ UNCHANGED <<jobs, working, owed, shown>>

\* The work is over, with a verdict that will be told ...
Conclude(v) ==
  /\ working # None
  /\ v = "running" => working \in ended
  /\ working' = None
  /\ owed' = [owed EXCEPT ![working][v] = @ + 1]
  /\ UNCHANGED <<jobs, ended, shown>>

\* ... or without one: the service died, or nobody asked for it.
Abandon ==
  /\ working # None
  /\ working' = None
  /\ UNCHANGED <<jobs, ended, owed, shown>>

Settle(d, v) ==
  /\ owed[d][v] > 0
  /\ owed' = [owed EXCEPT ![d][v] = @ - 1]
  /\ UNCHANGED <<jobs, working, ended>>

Tell(d, v) ==
  /\ Settle(d, v)
  /\ shown' = [shown EXCEPT ![AppOf[d]] = IF v = "running" THEN "active" ELSE "failed"]

Lose(d, v) == Settle(d, v) /\ UNCHANGED shown

\* A request, a request that failed, an operator: nothing else is touched with it.
Request(a) ==
  /\ \E s \in {"active", "stopped", "deploying", "failed"} : shown' = [shown EXCEPT ![a] = s]
  /\ UNCHANGED <<jobs, working, ended, owed>>

Next ==
  \/ Begin \/ Complete \/ Abandon \/ \E v \in Verdict : Conclude(v)
  \/ \E d \in Deployments : Accept(d) \/ \E v \in Verdict : Tell(d, v) \/ Lose(d, v)
  \/ \E a \in Applications : Request(a)

Spec == Init /\ [][Next]_vars
=============================================================================
