------------------------- MODULE DeploymentLifecycle -------------------------
(***************************************************************************)
(* The life of a deployment row, from the request that creates it to the   *)
(* verdict the panel shows.  Three processes write the same two tables:    *)
(*                                                                         *)
(*   - request handlers: the panel's DeploymentService and the             *)
(*     orchestrator's HTTP handlers, which insert a row and push a job;    *)
(*   - the scheduler's only build worker, which pops jobs and writes       *)
(*     building, deploying, running or failed;                             *)
(*   - the panel's status callback, which the worker calls from goroutines *)
(*     it never waits for, and which writes the row and the application.   *)
(*                                                                         *)
(* What is abstracted: the outcome of clone, build, push and of container  *)
(* creation is a nondeterministic success or failure; the state of the     *)
(* replicas is not here, so a self-heal request may come at any time the   *)
(* application is active; a database statement is atomic; a request to the *)
(* panel's callback is one step of the panel, so its model never holds an  *)
(* older row than the one it writes.                                       *)
(***************************************************************************)
EXTENDS Naturals, Sequences, FiniteSets

CONSTANTS
  Deployments,    \* the ids a deployments row can have
  Applications,   \* the ids of the applications
  AppOf,          \* the application_id of each deployment, which no code changes
  None,           \* no deployment: the worker is idle
  Readable,       \* the rows GetDeployment can scan, see Reads
  Origins,        \* the kinds of request this instance lets happen
  Faults,         \* the failures this instance lets happen
  MaxTries,       \* attempts of the panel's HTTP client, retry(3, 100)
  MaxQueue,       \* bound: a rollback of an existing row waits for a shorter queue
  MaxInFlight     \* bound: and for fewer undelivered callbacks of that row

AllOrigins == {"panel", "api", "webhook", "selfheal", "retry", "rollback", "reuse"}
AllFaults == {"crash", "response", "redis", "callback", "db"}

\* An element of the list "builds": a job in JSON, of which two fields matter.
Job == [deployment : Deployments, callback : BOOLEAN]

ASSUME ConstantsAssumption ==
  /\ AppOf \in [Deployments -> Applications]
  /\ None \notin Deployments
  /\ Readable \subseteq Deployments
  /\ Origins \subseteq AllOrigins
  /\ Faults \subseteq AllFaults
  /\ MaxTries \in Nat \ {0}
  /\ MaxQueue \in Nat
  /\ MaxInFlight \in Nat

\* The JSON text of a job is not the id of a deployment.
ASSUME JobIsNotAnId == Deployments \cap Job = {}

VARIABLES
  status,      \* deployments.status, "none" while there is no row
  appStatus,   \* applications.status
  queue,       \* the Redis list "builds", oldest job first
  handler,     \* where the request that concerns each deployment stands
  tries,       \* POST attempts the panel has left for each deployment
  up,          \* the orchestrator process is running
  phase,       \* where the build worker stands
  current,     \* the deployment of the job it holds
  notify,      \* that job has a callback URL
  callbacks,   \* status callbacks sent to the panel and not yet handled
  deployed,    \* history: deployments the worker brought to the end
  mishap       \* history: what went wrong on the way of each deployment

requestVars == <<handler, tries>>
workerVars == <<phase, current, notify>>
historyVars == <<deployed, mishap>>
vars == <<status, appStatus, queue, handler, tries, up, phase, current,
          notify, callbacks, deployed, mishap>>

-----------------------------------------------------------------------------
ActiveStatus == {"pending", "building", "deploying"}
TerminalStatus == {"running", "failed", "cancelled"}
RowStatus == ActiveStatus \cup TerminalStatus
AppStatus == {"active", "stopped", "deploying", "failed"}

CallbackStatus == {"building", "running", "failed"}
Verdicts == {"running", "failed"}

\* The row is inserted and the job is not pushed yet, one value per handler.
Enqueueing == {"api", "webhook", "selfheal", "rollback"}
HandlerState == {"idle", "post", "giveUp", "setDeploying"} \cup Enqueueing

Phases == {"idle", "taken", "building", "built", "deploying"} \cup Verdicts

Reasons ==
  {"crash", "abort", "retry", "enqueue", "lost", "stale", "silent", "late", "db"}

TypeOK ==
  /\ status \in [Deployments -> RowStatus \cup {"none"}]
  /\ appStatus \in [Applications -> AppStatus]
  /\ queue \in Seq(Job)
  /\ handler \in [Deployments -> HandlerState]
  /\ tries \in [Deployments -> 0..MaxTries]
  /\ up \in BOOLEAN
  /\ phase \in Phases
  /\ current \in IF phase = "idle" THEN {None} ELSE Deployments
  /\ notify \in BOOLEAN
  /\ callbacks \in [Deployments -> [CallbackStatus -> Nat]]
  /\ deployed \subseteq Deployments
  /\ mishap \in [Deployments -> SUBSET Reasons]

Init ==
  /\ status = [d \in Deployments |-> "none"]
  /\ appStatus = [a \in Applications |-> "stopped"]
  /\ queue = <<>>
  /\ handler = [d \in Deployments |-> "idle"]
  /\ tries = [d \in Deployments |-> 0]
  /\ up = TRUE
  /\ phase = "idle"
  /\ current = None
  /\ notify = FALSE
  /\ callbacks = [d \in Deployments |-> [s \in CallbackStatus |-> 0]]
  /\ deployed = {}
  /\ mishap = [d \in Deployments |-> {}]

-----------------------------------------------------------------------------
(***************************************************************************)
(* Helpers.                                                                *)
(***************************************************************************)
Flag(d, reason) == [mishap EXCEPT ![d] = @ \cup {reason}]

\* LPUSH builds <job>; the worker pops at the other end.
Push(d, cb) == queue' = Append(queue, [deployment |-> d, callback |-> cb])

\* LREM builds 0 <value>: drops the elements equal to value, if there are any.
Lrem(list, value) ==
  IF \E i \in DOMAIN list : list[i] = value
    THEN SelectSeq(list, LAMBDA item : item # value)
    ELSE list

Queued(d) == \E i \in DOMAIN queue : queue[i].deployment = d

\* Which jobs carry a callback URL: the panel and self-heal always set one, a
\* webhook never, the other handlers copy what the request's body holds.
CallbackOf(origin) == CASE origin = "selfheal" -> {TRUE}
                        [] origin = "webhook" -> {FALSE}
                        [] OTHER -> BOOLEAN

\* updateDeploymentStatus: its error is logged and the worker goes on.
WriteStatus(d, s, reasons) ==
  \/ /\ status' = [status EXCEPT ![d] = s]
     /\ mishap' = [mishap EXCEPT ![d] = @ \cup reasons]
  \/ /\ "db" \in Faults
     /\ mishap' = [mishap EXCEPT ![d] = @ \cup reasons \cup {"db"}]
     /\ UNCHANGED status

Insert(d) ==
  /\ status[d] = "none"
  /\ status' = [status EXCEPT ![d] = "pending"]

-----------------------------------------------------------------------------
(***************************************************************************)
(* The panel's DeploymentService.trigger: create the row, mark the         *)
(* application deploying, then POST the job with up to MaxTries attempts.  *)
(***************************************************************************)
PanelTrigger(d) ==
  /\ "panel" \in Origins
  /\ Insert(d)
  /\ appStatus' = [appStatus EXCEPT ![AppOf[d]] = "deploying"]
  /\ handler' = [handler EXCEPT ![d] = "post"]
  /\ tries' = [tries EXCEPT ![d] = MaxTries]
  /\ UNCHANGED <<queue, up, workerVars, callbacks, historyVars>>

\* ListenDeploymentLogs::dispatch or the event throws before the try block: the
\* catch does not see it, and the retry of ProcessDeploymentJob makes another row.
PanelAborts(d) ==
  /\ "redis" \in Faults
  /\ handler[d] = "post" /\ tries[d] = MaxTries
  /\ handler' = [handler EXCEPT ![d] = "idle"]
  /\ mishap' = Flag(d, "abort")
  /\ UNCHANGED <<status, appStatus, queue, tries, up, workerVars, callbacks, deployed>>

\* The orchestrator's Create pushes the job, whatever the row says by now, and
\* the panel reads the answer.
PostAccepted(d) ==
  /\ handler[d] = "post" /\ up
  /\ Push(d, TRUE)
  /\ handler' = [handler EXCEPT ![d] = "idle"]
  /\ UNCHANGED <<status, appStatus, tries, up, workerVars, callbacks, historyVars>>

\* One attempt less: the client tries again, or throws after the last one.
SpendTry(d) ==
  /\ tries' = [tries EXCEPT ![d] = @ - 1]
  /\ handler' = [handler EXCEPT ![d] = IF tries[d] = 1 THEN "giveUp" ELSE "post"]

\* The job is pushed and the answer never reaches the panel (30 s timeout).
PostAnswerLost(d) ==
  /\ "response" \in Faults
  /\ handler[d] = "post" /\ up /\ tries[d] > 0
  /\ Push(d, TRUE)
  /\ SpendTry(d)
  /\ mishap' = Flag(d, "retry")
  /\ UNCHANGED <<status, appStatus, up, workerVars, callbacks, deployed>>

\* Connection refused, or a 5xx because the push failed.
PostFails(d) ==
  /\ ~up \/ "redis" \in Faults
  /\ handler[d] = "post" /\ tries[d] > 0
  /\ SpendTry(d)
  /\ UNCHANGED <<status, appStatus, queue, up, workerVars, callbacks, historyVars>>

\* Mutant: the catch block forgets the row.
PanelGivesUpOnApplication(d) ==
  /\ handler[d] = "giveUp"
  /\ appStatus' = [appStatus EXCEPT ![AppOf[d]] = "failed"]
  /\ handler' = [handler EXCEPT ![d] = "idle"]
  /\ UNCHANGED <<status, queue, tries, up, workerVars, callbacks, historyVars>>

\* The catch block of trigger: markAsFailed on the row and on the application.
PanelGivesUp(d) ==
  /\ handler[d] = "giveUp"
  /\ status' = [status EXCEPT ![d] = "failed"]
  /\ appStatus' = [appStatus EXCEPT ![AppOf[d]] = "failed"]
  /\ handler' = [handler EXCEPT ![d] = "idle"]
  /\ UNCHANGED <<queue, tries, up, workerVars, callbacks, historyVars>>

-----------------------------------------------------------------------------
(***************************************************************************)
(* The orchestrator's handlers: insert the row, then push the job.  None   *)
(* of them touches the application's status, Rollback excepted.            *)
(***************************************************************************)
OpenRequest(d, origin) ==
  /\ up
  /\ handler[d] = "idle"
  /\ handler' = [handler EXCEPT ![d] = origin]
  /\ UNCHANGED <<appStatus, queue, tries, up, workerVars, callbacks, deployed>>

\* POST /deployments without an id, and POST /applications/{id}/deploy.
ApiDeploy(d) ==
  /\ "api" \in Origins
  /\ Insert(d) /\ OpenRequest(d, "api")
  /\ UNCHANGED mishap

\* A push event; findApplicationByRepo only returns active applications.
WebhookDeploy(d) ==
  /\ "webhook" \in Origins
  /\ appStatus[AppOf[d]] = "active"
  /\ Insert(d) /\ OpenRequest(d, "webhook")
  /\ UNCHANGED mishap

\* enqueueSelfHealDeployment, from a reconcile of an active application.
SelfHealDeploy(d) ==
  /\ "selfheal" \in Origins
  /\ appStatus[AppOf[d]] = "active"
  /\ Insert(d) /\ OpenRequest(d, "selfheal")
  /\ UNCHANGED mishap

\* Retry and Rollback read the row of an earlier deployment of the application.
\* The scan fails on a NULL image_name, and no code here writes that column, so
\* the rows that pass are those that something else has filled in.
Reads(d, earlier) ==
  /\ earlier \in Readable
  /\ AppOf[earlier] = AppOf[d]
  /\ status[earlier] # "none"

\* Retry: a new row for a failed one.
Retry(d) ==
  /\ "retry" \in Origins
  /\ \E old \in Deployments : Reads(d, old) /\ status[old] = "failed"
  /\ Insert(d) /\ OpenRequest(d, "api")
  /\ UNCHANGED mishap

\* Rollback to a row of the same application, with a new row.
RollbackNew(d) ==
  /\ "rollback" \in Origins
  /\ \E target \in Deployments : Reads(d, target)
  /\ Insert(d) /\ OpenRequest(d, "rollback")
  /\ UNCHANGED mishap

\* Rollback with rollback_deployment_id: the row exists and is set to pending
\* whatever its status is.
RollbackExisting(d) ==
  /\ "reuse" \in Origins
  /\ status[d] # "none"
  /\ \E target \in Deployments : Reads(d, target)
  /\ Len(queue) < MaxQueue
  /\ \A s \in CallbackStatus : callbacks[d][s] < MaxInFlight
  /\ status' = [status EXCEPT ![d] = "pending"]
  /\ OpenRequest(d, "rollback")
  /\ mishap' = Flag(d, "retry")

\* The push succeeds; Rollback still has the application's status to write.
Enqueue(d) ==
  /\ up /\ handler[d] \in Enqueueing
  /\ \E cb \in CallbackOf(handler[d]) : Push(d, cb)
  /\ handler' = [handler EXCEPT ![d] =
                   IF @ = "rollback" THEN "setDeploying" ELSE "idle"]
  /\ UNCHANGED <<status, appStatus, tries, up, workerVars, callbacks, historyVars>>

\* The push fails: the handler answers 500 and leaves the row pending.
EnqueueFails(d) ==
  /\ "redis" \in Faults
  /\ up /\ handler[d] \in Enqueueing
  /\ handler' = [handler EXCEPT ![d] = "idle"]
  /\ mishap' = Flag(d, "enqueue")
  /\ UNCHANGED <<status, appStatus, queue, tries, up, workerVars, callbacks, deployed>>

\* The last statement of Rollback, after the job may have been built already.
SetDeploying(d) ==
  /\ up /\ handler[d] = "setDeploying"
  /\ appStatus' = [appStatus EXCEPT ![AppOf[d]] = "deploying"]
  /\ handler' = [handler EXCEPT ![d] = "idle"]
  /\ mishap' = IF Queued(d) \/ current = d THEN mishap ELSE Flag(d, "late")
  /\ UNCHANGED <<status, queue, tries, up, workerVars, callbacks, deployed>>

\* Mutant: the UPDATE loses its condition on the status.
ApiCancelAnyStatus(d) ==
  /\ up
  /\ status[d] # "none"
  /\ status' = [status EXCEPT ![d] = "cancelled"]
  /\ queue' = Lrem(queue, d)
  /\ UNCHANGED <<appStatus, requestVars, up, workerVars, callbacks, historyVars>>

\* POST /deployments/{id}/cancel: the guarded UPDATE, then LREM of the id.
ApiCancel(d) ==
  /\ up
  /\ status[d] \in {"pending", "building"}
  /\ status' = [status EXCEPT ![d] = "cancelled"]
  /\ queue' = Lrem(queue, d)
  /\ UNCHANGED <<appStatus, requestVars, up, workerVars, callbacks, historyVars>>

\* The panel's cancel button writes the row and calls nobody.
PanelCancel(d) ==
  /\ status[d] \in ActiveStatus
  /\ status' = [status EXCEPT ![d] = "cancelled"]
  /\ UNCHANGED <<appStatus, queue, requestVars, up, workerVars, callbacks, historyVars>>

\* Stop and Scale write the application's status; what they do to containers
\* is not part of this module.
SetAppStatus(a, s) ==
  /\ up
  /\ appStatus[a] # s
  /\ appStatus' = [appStatus EXCEPT ![a] = s]
  /\ UNCHANGED <<status, queue, requestVars, up, workerVars, callbacks, historyVars>>

-----------------------------------------------------------------------------
(***************************************************************************)
(* The build worker: processBuildJobs and handleBuildJob.                  *)
(***************************************************************************)
\* Mutant: the worker reads the job and leaves it on the list.
DequeueKeepsJob ==
  /\ up /\ phase = "idle" /\ queue # <<>>
  /\ phase' = "taken"
  /\ current' = Head(queue).deployment
  /\ notify' = Head(queue).callback
  /\ UNCHANGED <<status, appStatus, queue, requestVars, up, callbacks, historyVars>>

\* BRPOP takes the job off the list; from here on only the worker knows it.
Dequeue ==
  /\ up /\ phase = "idle" /\ queue # <<>>
  /\ phase' = "taken"
  /\ current' = Head(queue).deployment
  /\ notify' = Head(queue).callback
  /\ queue' = Tail(queue)
  /\ UNCHANGED <<status, appStatus, requestVars, up, callbacks, historyVars>>

Send(d, s, on) ==
  callbacks' = IF on THEN [callbacks EXCEPT ![d][s] = @ + 1] ELSE callbacks

\* A job without a callback URL may get one from fetchAppFromPanel.  The row is
\* set to building without a look at what it says.
StartBuild ==
  /\ phase = "taken"
  /\ \E on \in {notify, TRUE} :
       /\ notify' = on
       /\ Send(current, "building", on)
       /\ WriteStatus(current, "building", IF on THEN {} ELSE {"silent"})
  /\ phase' = "building"
  /\ UNCHANGED <<appStatus, queue, requestVars, up, current, deployed>>

\* executeBuildPipeline returns a result.
BuildSucceeds ==
  /\ phase = "building"
  /\ phase' = "built"
  /\ UNCHANGED <<status, appStatus, queue, requestVars, up, current, notify,
                 callbacks, historyVars>>

\* The first statement of deployContainers, the only write whose error counts.
StartDeploying ==
  /\ phase = "built"
  /\ status' = [status EXCEPT ![current] = "deploying"]
  /\ phase' = "deploying"
  /\ UNCHANGED <<appStatus, queue, requestVars, up, current, notify, callbacks,
                 historyVars>>

\* Mutant: the error path reports and does not write the row.
JobFailsUnwritten ==
  /\ phase \in {"building", "deploying"} \/ (phase = "built" /\ "db" \in Faults)
  /\ phase' = "failed"
  /\ UNCHANGED <<status, appStatus, queue, requestVars, up, current, notify, callbacks,
                 historyVars>>

\* executeBuildPipeline or deployContainers returns an error.
JobFails ==
  /\ phase \in {"building", "deploying"} \/ (phase = "built" /\ "db" \in Faults)
  /\ WriteStatus(current, "failed", {})
  /\ phase' = "failed"
  /\ UNCHANGED <<appStatus, queue, requestVars, up, current, notify, callbacks, deployed>>

\* deployContainers returns nil.
JobSucceeds ==
  /\ phase = "deploying"
  /\ WriteStatus(current, "running", {})
  /\ phase' = "running"
  /\ deployed' = deployed \cup {current}
  /\ UNCHANGED <<appStatus, queue, requestVars, up, current, notify, callbacks>>

\* Mutant: the wrong constant in the last notifyPanel.
ReportAlwaysRunning ==
  /\ phase \in Verdicts
  /\ Send(current, "running", notify)
  /\ phase' = "idle"
  /\ current' = None
  /\ notify' = FALSE
  /\ UNCHANGED <<status, appStatus, queue, requestVars, up, historyVars>>

\* Mutant: the worker goes back to its loop and keeps the job.
ReportKeepsJob ==
  /\ phase \in Verdicts
  /\ Send(current, phase, notify)
  /\ phase' = "idle"
  /\ UNCHANGED <<status, appStatus, queue, requestVars, up, current, notify, historyVars>>

\* Mutant: the worker never comes back from a failed job.
ReportOnlySuccess ==
  /\ phase = "running"
  /\ Send(current, phase, notify)
  /\ phase' = "idle"
  /\ current' = None
  /\ notify' = FALSE
  /\ UNCHANGED <<status, appStatus, queue, requestVars, up, historyVars>>

\* go notifyPanel(verdict), and back to the loop.
Report ==
  /\ phase \in Verdicts
  /\ Send(current, phase, notify)
  /\ phase' = "idle"
  /\ current' = None
  /\ notify' = FALSE
  /\ UNCHANGED <<status, appStatus, queue, requestVars, up, historyVars>>

-----------------------------------------------------------------------------
(***************************************************************************)
(* The panel's callback POST /internal/deployments/{id}/status.  Callbacks *)
(* are goroutines: they arrive in any order, and the handler does not look *)
(* at the status the row has.                                              *)
(***************************************************************************)
Received(d, s) == callbacks' = [callbacks EXCEPT ![d][s] = @ - 1]

\* Mutant: markAsFailed writes the row and not the application.
CallbackVerdictRowOnly(d, s) ==
  /\ callbacks[d][s] > 0
  /\ Received(d, s)
  /\ status' = [status EXCEPT ![d] = s]
  /\ appStatus' = IF s = "running" THEN [appStatus EXCEPT ![AppOf[d]] = "active"] ELSE appStatus
  /\ UNCHANGED <<queue, requestVars, up, workerVars, historyVars>>

CallbackVerdict(d, s) ==
  /\ callbacks[d][s] > 0
  /\ Received(d, s)
  /\ status' = [status EXCEPT ![d] = s]
  /\ appStatus' = [appStatus EXCEPT ![AppOf[d]] =
                     IF s = "running" THEN "active" ELSE "failed"]
  /\ UNCHANGED <<queue, requestVars, up, workerVars, historyVars>>

CallbackBuilding(d) ==
  /\ callbacks[d]["building"] > 0
  /\ Received(d, "building")
  /\ status' = [status EXCEPT ![d] = "building"]
  /\ mishap' = IF status[d] = "building" THEN mishap ELSE Flag(d, "stale")
  /\ UNCHANGED <<appStatus, queue, requestVars, up, workerVars, deployed>>

\* notifyPanel logs the error and does not try again, and its goroutine dies with
\* the orchestrator.
CallbackLost(d, s) ==
  /\ "callback" \in Faults \/ ~up
  /\ callbacks[d][s] > 0
  /\ Received(d, s)
  /\ mishap' = IF s \in Verdicts THEN Flag(d, "lost") ELSE mishap
  /\ UNCHANGED <<status, appStatus, queue, requestVars, up, workerVars, deployed>>

-----------------------------------------------------------------------------
(***************************************************************************)
(* The orchestrator dies: the popped job and the open requests are gone,   *)
(* Redis and Postgres keep what they have.  Callbacks already on the wire  *)
(* may still be handled, or be lost while it is down.  Nothing in New or   *)
(* Start looks at old rows.                                                *)
(***************************************************************************)
OnCrash(d) == d = current \/ handler[d] \in Enqueueing \cup {"setDeploying"}

Crash ==
  /\ "crash" \in Faults
  /\ up
  /\ up' = FALSE
  /\ phase' = "idle"
  /\ current' = None
  /\ notify' = FALSE
  /\ handler' = [d \in Deployments |->
                   IF handler[d] \in Enqueueing \cup {"setDeploying"}
                     THEN "idle" ELSE handler[d]]
  /\ mishap' = [d \in Deployments |->
                  IF OnCrash(d) THEN mishap[d] \cup {"crash"} ELSE mishap[d]]
  /\ UNCHANGED <<status, appStatus, queue, tries, callbacks, deployed>>

Restart ==
  /\ ~up
  /\ up' = TRUE
  /\ UNCHANGED <<status, appStatus, queue, requestVars, workerVars, callbacks, historyVars>>

-----------------------------------------------------------------------------
PanelStep(d) ==
  \/ PanelAborts(d) \/ PostAccepted(d) \/ PostAnswerLost(d) \/ PostFails(d)
  \/ PanelGivesUp(d)
HandlerStep(d) == Enqueue(d) \/ EnqueueFails(d) \/ SetDeploying(d)

NewRequest(d) ==
  \/ PanelTrigger(d) \/ ApiDeploy(d) \/ WebhookDeploy(d) \/ SelfHealDeploy(d)
  \/ Retry(d) \/ RollbackNew(d) \/ RollbackExisting(d)

WorkerStep ==
  \/ Dequeue \/ StartBuild \/ BuildSucceeds \/ StartDeploying
  \/ JobFails \/ JobSucceeds \/ Report

CallbackHandled(d) ==
  CallbackBuilding(d) \/ \E s \in Verdicts : CallbackVerdict(d, s)

Next ==
  \/ \E d \in Deployments :
       \/ NewRequest(d) \/ PanelStep(d) \/ HandlerStep(d)
       \/ ApiCancel(d) \/ PanelCancel(d)
       \/ CallbackHandled(d)
       \/ \E s \in CallbackStatus : CallbackLost(d, s)
  \/ \E a \in Applications, s \in {"active", "stopped"} : SetAppStatus(a, s)
  \/ WorkerStep
  \/ Crash
  \/ Restart

Spec == Init /\ [][Next]_vars

\* A request that was opened, a job that was popped and a callback that was sent
\* run to their end as long as the process lives: each is a goroutine or a PHP
\* request that waits for nobody but the network, the build and the agents.
Fairness ==
  /\ WF_vars(WorkerStep)
  /\ WF_vars(Restart)
  /\ \A d \in Deployments :
       /\ WF_vars(PanelStep(d))
       /\ WF_vars(HandlerStep(d))
       /\ WF_vars(CallbackHandled(d))

FairSpec == Spec /\ Fairness

-----------------------------------------------------------------------------
(***************************************************************************)
(* Properties.                                                             *)
(***************************************************************************)

\* Nothing says running, neither a row nor a callback on its way nor the worker,
\* unless the worker brought that deployment to the end of deployContainers:
\* neither the unordered callbacks nor a second job for the same row can announce
\* a success that did not happen.
RunningWasDeployed ==
  \A d \in Deployments :
    \/ status[d] = "running"
    \/ callbacks[d]["running"] > 0
    \/ current = d /\ phase = "running"
    => d \in deployed

\* A row that says deploying is the one the worker is deploying, unless the
\* worker died or could not write the verdict.  This is what a restart would
\* need to find the deployments it must clean up.
DeployingRowHasWorker ==
  \A d \in Deployments :
    status[d] = "deploying" =>
      \/ current = d /\ phase = "deploying"
      \/ mishap[d] \cap {"crash", "db"} # {}

\* Somebody will still bring the row of d to a terminal status.
Owned(d) ==
  \/ handler[d] \in Enqueueing \cup {"post", "giveUp"}
  \/ Queued(d)
  \/ current = d /\ phase \notin Verdicts

\* A row is never left in an active status for no reason: if nobody owns it, then
\* its request or job died with the orchestrator, the panel broke off before the
\* POST, its job could not be pushed, its verdict could not be written, or a late
\* building callback overwrote it.
ActiveRowHasOwner ==
  \A d \in Deployments :
    status[d] \in ActiveStatus =>
      Owned(d) \/ mishap[d] \cap {"crash", "abort", "enqueue", "db", "stale"} # {}

\* Somebody will still tell the panel how d ended.
OwesVerdict(d) ==
  \/ handler[d] \in {"post", "giveUp"}
  \/ Queued(d)
  \/ current = d /\ (phase = "taken" \/ notify)
  \/ \E s \in Verdicts : callbacks[d][s] > 0

\* An application that the panel shows as deploying is owed a verdict by one of
\* its deployments, unless one of them died with the orchestrator or before the
\* POST, lost its callback, never had a callback URL, or was a rollback whose last
\* statement came after its own job had ended.
DeployingOwesVerdict ==
  \A a \in Applications :
    appStatus[a] = "deploying" =>
      \E d \in Deployments :
        /\ AppOf[d] = a
        /\ \/ OwesVerdict(d)
           \/ mishap[d] \cap {"crash", "abort", "lost", "silent", "late"} # {}

JobsOf(d) ==
  Cardinality({i \in DOMAIN queue : queue[i].deployment = d})
    + (IF current = d THEN 1 ELSE 0)

\* A deployment is queued or built twice at the same time only after the panel
\* repeated a POST that had been accepted, or a rollback reused the row.
NoDuplicateBuild ==
  \A d \in Deployments : JobsOf(d) > 1 => "retry" \in mishap[d]

\* A row leaves running only because a late building callback overwrote it or
\* because the same row was put to work again.
RunningIsFinal ==
  [][\A d \in Deployments :
       status[d] = "running" /\ status'[d] # "running" =>
         mishap'[d] \cap {"stale", "retry"} # {}]_vars

\* Every job that was pushed is popped: one build cannot starve another.
QueueDrains == \A d \in Deployments : Queued(d) ~> ~Queued(d)

\* An application does not stay deploying for ever, unless a deployment of it had no
\* callback URL, or was a rollback whose last statement came after its job had ended.
DeployingEnds ==
  \A a \in Applications :
    appStatus[a] = "deploying" ~>
      \/ appStatus[a] # "deploying"
      \/ \E d \in Deployments : AppOf[d] = a /\ mishap[d] \cap {"silent", "late"} # {}

-----------------------------------------------------------------------------
(***************************************************************************)
(* The abstract specification this module implements.                      *)
(***************************************************************************)
JobDeployments == [i \in DOMAIN queue |-> queue[i].deployment]
OwedVerdicts == [d \in Deployments |-> [v \in Verdicts |-> callbacks[d][v]]]

Service == INSTANCE BuildService WITH
             jobs <- JobDeployments, working <- current, ended <- deployed,
             owed <- OwedVerdicts, shown <- appStatus

\* With its rows, retries, cancellations, crashes and unordered callbacks the system is
\* the build service: jobs are taken once and in order by one worker, no verdict is
\* told that was not reached, and none is told twice.
ServiceIsKept == Service!Spec

=============================================================================
