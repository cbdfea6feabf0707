------------------------------ MODULE LogStream ------------------------------
(***************************************************************************)
(* The log of one deployment on its way to those who watch it.  The worker *)
(* publishes log lines, stages and at last a terminal status: each goes to *)
(* the end of a Redis list and then, in the same pipeline but not in the   *)
(* same instant, to the subscribers of a channel.  There read from it      *)
(*                                                                         *)
(*   - Viewers, the orchestrator's SSE endpoint StreamLogs, which          *)
(*     subscribes and then reads the list;                                 *)
(*   - Pages, the panel's SSE endpoint, which reads the list and then      *)
(*     subscribes;                                                         *)
(*   - Listeners, the panel's queued job ListenDeploymentLogs, which does  *)
(*     the same, sends events to browsers, and deletes the list at last.   *)
(*                                                                         *)
(* A message is its number; the last one is the terminal status.  The      *)
(* list's expiry after an hour and a Redis that fails are left out.        *)
(***************************************************************************)
EXTENDS Naturals, Sequences, FiniteSets

CONSTANTS
  Last,        \* number of the terminal message
  Viewers,     \* requests to the orchestrator's endpoint
  Pages,       \* requests to the panel's endpoint
  Listeners,   \* jobs of the panel, dispatched before the deployment is posted
  Origin,      \* who asked for the deployment: "panel" or "api"
  MaxTries,    \* attempts of a job
  Faults       \* what goes wrong in this instance

AllFaults == {"late", "leave", "timeout", "response"}

ASSUME LogAssumption ==
  /\ Last \in Nat \ {0} /\ MaxTries \in Nat \ {0}
  /\ Viewers \cap Pages = {} /\ Viewers \cap Listeners = {} /\ Pages \cap Listeners = {}
  /\ Origin \in {"panel", "api"} /\ Faults \subseteq AllFaults

Messages == 1..Last
Readers == Viewers \cup Pages \cup Listeners

VARIABLES
  row,      \* deployments.status is terminal, or active
  logs,     \* deployments.build_logs is there
  panel,    \* DeploymentService::trigger: waits for the answer, or what it got
  worker,   \* what the worker does for this deployment
  next,     \* the message it publishes next
  buffer,   \* the list buffer:deploy-logs:<id>
  pc,       \* where each reader stands
  link,     \* its subscription: none, asked for, or in effect
  inbox,    \* what the subscription has received and the reader not yet taken
  replay,   \* what the reader has read from the list and not yet shown
  shown,    \* history: what it has shown, in order
  tries,    \* attempts of each job
  late,     \* history: readers whose subscription took effect after their reading
  cleared   \* history: a job has deleted the list

sourceVars == <<row, logs, panel, worker, next>>
readerVars == <<pc, link, inbox, replay, shown, tries, late>>
vars == <<sourceVars, buffer, readerVars, cleared>>

ReaderPc == {"idle", "ask", "read", "replay", "live", "clear", "done", "closed"}

TypeOK ==
  /\ row \in {"active", "terminal"}
  /\ logs \in BOOLEAN /\ cleared \in BOOLEAN
  /\ panel \in {"posting", "answered", "failed", "signalled"}
  /\ worker \in {"none", "busy", "pushed", "over"}
  /\ next \in 1..Last + 1
  /\ buffer \in Seq(Messages)
  /\ pc \in [Readers -> ReaderPc]
  /\ link \in [Readers -> {"none", "asked", "on"}]
  /\ inbox \in [Readers -> Seq(Messages)]
  /\ replay \in [Readers -> Seq(Messages)]
  /\ shown \in [Readers -> Seq(Messages)]
  /\ tries \in [Readers -> 0..MaxTries]
  /\ late \subseteq Readers

Init ==
  /\ row = "active" /\ logs = FALSE /\ cleared = FALSE
  /\ panel = IF Origin = "panel" THEN "posting" ELSE "answered"
  /\ worker = "none" /\ next = 1 /\ buffer = <<>>
  /\ pc = [r \in Readers |-> "idle"]
  /\ link = [r \in Readers |-> "none"]
  /\ inbox = [r \in Readers |-> <<>>]
  /\ replay = [r \in Readers |-> <<>>]
  /\ shown = [r \in Readers |-> <<>>]
  /\ tries = [r \in Readers |-> 0]
  /\ late = {}

-----------------------------------------------------------------------------
(***************************************************************************)
(* Redis delivers a message to the subscriptions that are in effect.       *)
(***************************************************************************)
Deliver(m) ==
  inbox' = [r \in Readers |-> IF link[r] = "on" THEN Append(inbox[r], m) ELSE inbox[r]]

(***************************************************************************)
(* The panel posts the deployment.                                         *)
(***************************************************************************)
PanelAnswered ==
  /\ panel = "posting"
  /\ panel' = "answered"
  /\ UNCHANGED <<row, logs, worker, next, buffer, readerVars, cleared>>

\* The POST fails, or only its answer does: markAsFailed ...
PanelFails ==
  /\ panel = "posting"
  /\ worker = "none" \/ "response" \in Faults
  /\ panel' = "failed"
  /\ row' = "terminal"
  /\ UNCHANGED <<logs, worker, next, buffer, readerVars, cleared>>

\* ... and a terminal message for the listener, sent to the channel only.
PanelSignals ==
  /\ panel = "failed"
  /\ panel' = "signalled"
  /\ Deliver(Last)
  /\ UNCHANGED <<row, logs, worker, next, buffer, pc, link, replay, shown, tries, late,
                 cleared>>

(***************************************************************************)
(* The worker.                                                             *)
(***************************************************************************)
\* It pops the job and writes building.
WorkerStarts ==
  /\ worker = "none"
  /\ panel \in {"posting", "answered"} \/ "response" \in Faults
  /\ worker' = "busy"
  /\ row' = "active"
  /\ UNCHANGED <<logs, panel, next, buffer, readerVars, cleared>>

\* The verdict goes to the row before it is published.
WriteVerdict ==
  /\ worker = "busy" /\ next = Last /\ row = "active"
  /\ row' = "terminal"
  /\ UNCHANGED <<logs, panel, worker, next, buffer, readerVars, cleared>>

\* RPUSH.
Push ==
  /\ worker = "busy" /\ next <= Last
  /\ next = Last => row = "terminal"
  /\ buffer' = Append(buffer, next)
  /\ worker' = "pushed"
  /\ UNCHANGED <<row, logs, panel, next, readerVars, cleared>>

\* PUBLISH.
Announce ==
  /\ worker = "pushed"
  /\ Deliver(next)
  /\ next' = next + 1
  /\ worker' = IF next = Last THEN "over" ELSE "busy"
  /\ UNCHANGED <<row, logs, panel, buffer, pc, link, replay, shown, tries, late, cleared>>

\* The callback with the verdict brings build_logs; notifyPanel tries once.
SaveLogs ==
  /\ worker = "over" /\ ~logs
  /\ logs' = TRUE
  /\ UNCHANGED <<row, panel, worker, next, buffer, readerVars, cleared>>

-----------------------------------------------------------------------------
(***************************************************************************)
(* The readers.                                                            *)
(***************************************************************************)
Goto(r, label) == pc' = [pc EXCEPT ![r] = label]
ShowNow(r, s) == shown' = [shown EXCEPT ![r] = @ \o s]

\* The reader has shown a terminal status: it drops what it has not shown.
Finish(r) ==
  /\ Goto(r, IF r \in Listeners THEN "clear" ELSE "done")
  /\ link' = [link EXCEPT ![r] = "none"]
  /\ inbox' = [inbox EXCEPT ![r] = <<>>]
  /\ replay' = [replay EXCEPT ![r] = <<>>]

\* A request reads the row: when that is terminal, it shows the status and what
\* build_logs has, and ends.
Open(r) ==
  /\ r \in Viewers \cup Pages
  /\ pc[r] = "idle"
  /\ \/ /\ row = "terminal"
        /\ Goto(r, "done")
        /\ ShowNow(r, IF logs THEN [m \in Messages |-> m] ELSE <<Last>>)
     \/ /\ row = "active"
        /\ Goto(r, IF r \in Viewers THEN "ask" ELSE "read")
        /\ UNCHANGED shown
  /\ UNCHANGED <<sourceVars, buffer, link, inbox, replay, tries, late, cleared>>

\* The job looks at no status.
StartJob(r) ==
  /\ r \in Listeners
  /\ pc[r] = "idle"
  /\ Goto(r, "read")
  /\ tries' = [tries EXCEPT ![r] = @ + 1]
  /\ shown' = [shown EXCEPT ![r] = <<>>]
  /\ UNCHANGED <<sourceVars, buffer, link, inbox, replay, late, cleared>>

\* go-redis sends SUBSCRIBE and does not wait for the reply; phpredis does.
Subscribe(r) ==
  /\ pc[r] = "ask"
  /\ link' = [link EXCEPT ![r] = IF r \in Viewers THEN "asked" ELSE "on"]
  /\ Goto(r, IF r \in Viewers THEN "read" ELSE "live")
  /\ late' = IF r \in Viewers THEN late ELSE late \cup {r}
  /\ UNCHANGED <<sourceVars, buffer, inbox, replay, shown, tries, cleared>>

\* Redis gets the SUBSCRIBE, on another connection than the LRANGE.
TakesEffect(r) ==
  /\ link[r] = "asked"
  /\ link' = [link EXCEPT ![r] = "on"]
  /\ late' = IF pc[r] = "read" THEN late ELSE late \cup {r}
  /\ UNCHANGED <<sourceVars, buffer, pc, inbox, replay, shown, tries, cleared>>

\* Mutant: LRANGE 1 -1.
ReadBufferButFirst(r) ==
  /\ pc[r] = "read"
  /\ r \in Viewers /\ link[r] = "asked" => "late" \in Faults
  /\ replay' = [replay EXCEPT ![r] = IF buffer = <<>> THEN <<>> ELSE Tail(buffer)]
  /\ Goto(r, "replay")
  /\ UNCHANGED <<sourceVars, buffer, link, inbox, shown, tries, late, cleared>>

\* LRANGE 0 -1.
ReadBuffer(r) ==
  /\ pc[r] = "read"
  /\ r \in Viewers /\ link[r] = "asked" => "late" \in Faults
  /\ replay' = [replay EXCEPT ![r] = buffer]
  /\ Goto(r, "replay")
  /\ UNCHANGED <<sourceVars, buffer, link, inbox, shown, tries, late, cleared>>

\* Mutant: a message is shown and stays in the replay.
ShowReplayTwice(r) ==
  /\ pc[r] = "replay" /\ replay[r] # <<>> /\ Len(shown[r]) <= 2 * Last
  /\ ShowNow(r, <<Head(replay[r])>>)
  /\ IF Head(replay[r]) = Last
       THEN Finish(r)
       ELSE UNCHANGED <<pc, link, inbox, replay>>
  /\ UNCHANGED <<sourceVars, buffer, tries, late, cleared>>

ShowReplay(r) ==
  /\ pc[r] = "replay" /\ replay[r] # <<>>
  /\ ShowNow(r, <<Head(replay[r])>>)
  /\ IF Head(replay[r]) = Last
       THEN Finish(r)
       ELSE replay' = [replay EXCEPT ![r] = Tail(@)] /\ UNCHANGED <<pc, link, inbox>>
  /\ UNCHANGED <<sourceVars, buffer, tries, late, cleared>>

\* Mutant: what came in during the replay is dropped.
ReplayEndsDropping(r) ==
  /\ pc[r] = "replay" /\ replay[r] = <<>>
  /\ Goto(r, IF r \in Viewers THEN "live" ELSE "ask")
  /\ inbox' = [inbox EXCEPT ![r] = <<>>]
  /\ UNCHANGED <<sourceVars, buffer, link, replay, shown, tries, late, cleared>>

ReplayEnds(r) ==
  /\ pc[r] = "replay" /\ replay[r] = <<>>
  /\ Goto(r, IF r \in Viewers THEN "live" ELSE "ask")
  /\ UNCHANGED <<sourceVars, buffer, link, inbox, replay, shown, tries, late, cleared>>

\* Mutant: a terminal status in a live message does not end the stream.
HearOn(r) ==
  /\ pc[r] = "live" /\ inbox[r] # <<>>
  /\ ShowNow(r, <<Head(inbox[r])>>)
  /\ inbox' = [inbox EXCEPT ![r] = Tail(@)]
  /\ UNCHANGED <<sourceVars, buffer, pc, link, replay, tries, late, cleared>>

Hear(r) ==
  /\ pc[r] = "live" /\ inbox[r] # <<>>
  /\ ShowNow(r, <<Head(inbox[r])>>)
  /\ IF Head(inbox[r]) = Last
       THEN Finish(r)
       ELSE inbox' = [inbox EXCEPT ![r] = Tail(@)] /\ UNCHANGED <<pc, link, replay>>
  /\ UNCHANGED <<sourceVars, buffer, tries, late, cleared>>

\* DEL, by the job only.
ClearBuffer(r) ==
  /\ pc[r] = "clear"
  /\ buffer' = <<>> /\ cleared' = TRUE
  /\ Goto(r, "done")
  /\ UNCHANGED <<sourceVars, link, inbox, replay, shown, tries, late>>

Drop(r, label) ==
  /\ Goto(r, label)
  /\ link' = [link EXCEPT ![r] = "none"]
  /\ inbox' = [inbox EXCEPT ![r] = <<>>]
  /\ replay' = [replay EXCEPT ![r] = <<>>]
  /\ UNCHANGED <<sourceVars, buffer, shown, tries, late, cleared>>

\* The browser goes away, or the router's Timeout of 60 s ends the request.
Leave(r) ==
  /\ "leave" \in Faults
  /\ r \in Viewers \cup Pages /\ pc[r] \in {"replay", "live"}
  /\ Drop(r, "closed")

\* Mutant: the job is tried once more than it may be.
JobTimesOutOnceMore(r) ==
  /\ "timeout" \in Faults
  /\ r \in Listeners /\ pc[r] = "live" /\ inbox[r] = <<>>
  /\ Drop(r, IF tries[r] <= MaxTries THEN "idle" ELSE "closed")

\* queue:work kills the job after 600 s; it is tried again, from the start.
JobTimesOut(r) ==
  /\ "timeout" \in Faults
  /\ r \in Listeners /\ pc[r] = "live" /\ inbox[r] = <<>>
  /\ Drop(r, IF tries[r] < MaxTries THEN "idle" ELSE "closed")

-----------------------------------------------------------------------------
PanelStep == PanelAnswered \/ PanelSignals
WorkerStep == WriteVerdict \/ Push \/ Announce \/ SaveLogs
ReaderStep(r) ==
  \/ StartJob(r) \/ Subscribe(r) \/ TakesEffect(r) \/ ReadBuffer(r)
  \/ ShowReplay(r) \/ ReplayEnds(r) \/ Hear(r) \/ ClearBuffer(r)

Next ==
  \/ PanelStep \/ PanelFails
  \/ WorkerStarts \/ WorkerStep
  \/ \E r \in Readers : Open(r) \/ ReaderStep(r) \/ Leave(r) \/ JobTimesOut(r)

Spec == Init /\ [][Next]_vars

\* The worker gets to a posted job and ends it, Redis answers, readers read on.
Fairness ==
  /\ WF_vars(PanelStep) /\ WF_vars(WorkerStep)
  /\ WF_vars(panel = "answered" /\ WorkerStarts)
  /\ \A r \in Readers : WF_vars(ReaderStep(r))

FairSpec == Spec /\ Fairness

-----------------------------------------------------------------------------
(***************************************************************************)
(* Properties.                                                             *)
(***************************************************************************)
Elements(s) == {s[i] : i \in DOMAIN s}
Has(r) == Elements(shown[r]) \cup Elements(replay[r]) \cup Elements(inbox[r])

\* A viewer of the orchestrator whose subscription took effect before it read the
\* list has, or has in its hands, every message published so far: list and channel
\* leave no gap between them, unless a job deleted the list.
ViewerHasAll ==
  \A v \in Viewers :
    pc[v] \in {"replay", "live"} /\ link[v] = "on" /\ v \notin late /\ ~cleared =>
      1..next - 1 \subseteq Has(v)

Increasing(s) == \A i, j \in DOMAIN s : i < j => s[i] < s[j]

\* What a reader shows is a replay and then a live part, each in the order of
\* publication: a message can come twice, once from the list and once from the
\* channel, and no more often, whatever the panel's own signal says.
TwoRuns ==
  \A r \in Readers : \E k \in 0..Len(shown[r]) :
    /\ Increasing(SubSeq(shown[r], 1, k))
    /\ Increasing(SubSeq(shown[r], k + 1, Len(shown[r])))

\* Whatever a live reader has missed, a subscription too late or a retry, it has missed
\* in one piece: there are no holes in what it shows, unless a job deleted the list.
OneGap ==
  \A r \in Readers :
    pc[r] = "live" /\ link[r] = "on" /\ ~cleared =>
      \E first \in 1..next : \E last \in 0..next - 1 :
        (1..next - 1) \ Has(r) = first..last

\* A viewer that subscribed in time is told the end: its stream does not stay open
\* after the deployment is over, unless a job deleted the list it needed or the
\* panel gave up a deployment that no worker has.
ViewerEnds ==
  \A v \in Viewers :
    pc[v] = "ask" ~>
      \/ pc[v] \in {"done", "closed"} \/ v \in late \/ cleared
      \/ panel = "signalled" /\ worker = "none"

-----------------------------------------------------------------------------
(***************************************************************************)
(* What comments of the code say.                                          *)
(***************************************************************************)
\* ListenDeploymentLogs: the buffered messages are processed first, "evita race
\* condition" (avoids the race): the job misses no message.
ListenerHasAll ==
  \A r \in Listeners : pc[r] = "live" => 1..next - 1 \subseteq Has(r)

=============================================================================
