---------------------- MODULE DeploymentLifecycleProofs ----------------------
(***************************************************************************)
(* Theorems about DeploymentLifecycle, for every set of deployments and    *)
(* applications, every kind of request, every failure and every bound.     *)
(***************************************************************************)
EXTENDS DeploymentLifecycle, Integers, SequenceTheorems, FiniteSetTheorems, TLAPS

\* The statuses, phases and reasons the actions write are of the right kind.
LEMMA Literals ==
  /\ {"none", "pending", "building", "deploying", "running", "failed", "cancelled"}
       \subseteq RowStatus \cup {"none"}
  /\ {"active", "stopped", "deploying", "failed"} \subseteq AppStatus
  /\ {"idle", "post", "giveUp", "setDeploying", "api", "webhook", "selfheal", "rollback"}
       \subseteq HandlerState
  /\ {"idle", "taken", "building", "built", "deploying", "running", "failed"} \subseteq Phases
  /\ Verdicts = {"running", "failed"} /\ Verdicts \subseteq CallbackStatus
  /\ "building" \in CallbackStatus
  BY DEF RowStatus, ActiveStatus, TerminalStatus, AppStatus, HandlerState, Enqueueing,
         Phases, Verdicts, CallbackStatus

\* Flag adds a reason to the history of one deployment.
LEMMA FlagType ==
  ASSUME TypeOK, NEW d \in Deployments, NEW reason \in Reasons
  PROVE  Flag(d, reason) \in [Deployments -> SUBSET Reasons]
  BY DEF TypeOK, Flag

\* WriteStatus leaves a row with a status and a history.
LEMMA WriteStatusType ==
  ASSUME TypeOK, NEW d \in Deployments,
         NEW s \in RowStatus, NEW reasons \in SUBSET Reasons, WriteStatus(d, s, reasons)
  PROVE  /\ status' \in [Deployments -> RowStatus \cup {"none"}]
         /\ mishap' \in [Deployments -> SUBSET Reasons]
<1>1. "db" \in Reasons
  BY DEF Reasons
<1>2. QED
  BY <1>1 DEF TypeOK, WriteStatus

\* Sending a callback, or not sending it, keeps a count of every kind.
LEMMA CallbackCount ==
  ASSUME TypeOK, NEW d \in Deployments, NEW s \in CallbackStatus,
         NEW on \in BOOLEAN, Send(d, s, on)
  PROVE  callbacks' \in [Deployments -> [CallbackStatus -> Nat]]
<1>1. callbacks[d] \in [CallbackStatus -> Nat] /\ callbacks[d][s] \in Nat
  BY DEF TypeOK
<1>2. [callbacks[d] EXCEPT ![s] = @ + 1] \in [CallbackStatus -> Nat]
  BY <1>1
<1>3. CASE on
  <2>1. callbacks' = [callbacks EXCEPT ![d] = [callbacks[d] EXCEPT ![s] = @ + 1]]
    BY <1>3 DEF Send
  <2>2. QED
    BY <1>2, <2>1 DEF TypeOK
<1>4. CASE ~on
  BY <1>4 DEF Send, TypeOK
<1>5. QED
  BY <1>3, <1>4

\* Handling or losing a callback that was counted keeps the counts.
LEMMA ReceivedCount ==
  ASSUME TypeOK, NEW d \in Deployments, NEW s \in CallbackStatus,
         callbacks[d][s] > 0, Received(d, s)
  PROVE  callbacks' \in [Deployments -> [CallbackStatus -> Nat]]
<1>1. callbacks[d] \in [CallbackStatus -> Nat] /\ callbacks[d][s] \in Nat
  BY DEF TypeOK
<1>2. [callbacks[d] EXCEPT ![s] = @ - 1] \in [CallbackStatus -> Nat]
  BY <1>1
<1>3. callbacks' = [callbacks EXCEPT ![d] = [callbacks[d] EXCEPT ![s] = @ - 1]]
  BY DEF Received
<1>4. QED
  BY <1>2, <1>3 DEF TypeOK

\* Removing the id of a deployment removes no job.
LEMMA LremKeepsQueue ==
  ASSUME TypeOK, NEW d \in Deployments
  PROVE  Lrem(queue, d) = queue
<1>1. \A i \in DOMAIN queue : queue[i] \in Job
  BY DEF TypeOK
<1>2. QED
  BY <1>1, JobIsNotAnId DEF Lrem

\* Initially every variable has its type.
LEMMA TypeInit == Init => TypeOK
<1> SUFFICES ASSUME Init PROVE TypeOK
  OBVIOUS
<1>1. queue \in Seq(Job)
  BY DEF Init
<1>2. callbacks \in [Deployments -> [CallbackStatus -> Nat]]
  BY DEF Init
<1>3. /\ status \in [Deployments -> RowStatus \cup {"none"}]
      /\ appStatus \in [Applications -> AppStatus]
      /\ handler \in [Deployments -> HandlerState]
      /\ phase \in Phases
  BY Literals DEF Init
<1>4. tries \in [Deployments -> 0..MaxTries]
  BY ConstantsAssumption DEF Init
<1>5. QED
  BY <1>1, <1>2, <1>3, <1>4 DEF Init, TypeOK

\* The panel's steps keep the types.
LEMMA PanelStepType ==
  ASSUME TypeOK, NEW d \in Deployments, PanelTrigger(d) \/ PanelStep(d)
  PROVE  TypeOK'
<1> USE ConstantsAssumption, Literals DEF TypeOK, requestVars, workerVars, historyVars
<1>1. CASE PanelTrigger(d)
  BY <1>1 DEF PanelTrigger, Insert
<1>b. CASE PanelAborts(d)
  <2>1. mishap' \in [Deployments -> SUBSET Reasons]
    BY <1>b, FlagType DEF PanelAborts, Reasons
  <2>2. QED
    BY <1>b, <2>1 DEF PanelAborts
<1>2. CASE PostAccepted(d)
  <2>1. queue' \in Seq(Job)
    BY <1>2 DEF PostAccepted, Push, Job
  <2>2. QED
    BY <1>2, <2>1 DEF PostAccepted
<1>3. ASSUME SpendTry(d), tries[d] > 0
      PROVE  /\ tries' \in [Deployments -> 0..MaxTries]
             /\ handler' \in [Deployments -> HandlerState]
  BY <1>3 DEF SpendTry
<1>4. CASE PostAnswerLost(d)
  <2>1. queue' \in Seq(Job)
    BY <1>4 DEF PostAnswerLost, Push, Job
  <2>2. mishap' \in [Deployments -> SUBSET Reasons]
    BY <1>4, FlagType DEF PostAnswerLost, Reasons
  <2>3. QED
    BY <1>3, <1>4, <2>1, <2>2 DEF PostAnswerLost
<1>5. CASE PostFails(d)
  BY <1>3, <1>5 DEF PostFails
<1>6. CASE PanelGivesUp(d)
  BY <1>6 DEF PanelGivesUp
<1>7. QED
  BY <1>1, <1>b, <1>2, <1>4, <1>5, <1>6 DEF PanelStep

\* The steps that insert a row, or reuse one, keep the types.
LEMMA NewRequestType ==
  ASSUME TypeOK, NEW d \in Deployments, NewRequest(d)
  PROVE  TypeOK'
<1> USE ConstantsAssumption, Literals DEF TypeOK, workerVars
<1>1. ASSUME NEW origin \in Enqueueing, Insert(d), OpenRequest(d, origin),
             UNCHANGED mishap
      PROVE  TypeOK'
  BY <1>1 DEF Insert, OpenRequest, HandlerState
<1>2. CASE ApiDeploy(d) \/ Retry(d)
  BY <1>1, <1>2 DEF ApiDeploy, Retry, Enqueueing
<1>3. CASE WebhookDeploy(d)
  BY <1>1, <1>3 DEF WebhookDeploy, Enqueueing
<1>4. CASE SelfHealDeploy(d)
  BY <1>1, <1>4 DEF SelfHealDeploy, Enqueueing
<1>5. CASE RollbackNew(d)
  BY <1>1, <1>5 DEF RollbackNew, Enqueueing
<1>6. CASE RollbackExisting(d)
  <2>1. mishap' \in [Deployments -> SUBSET Reasons]
    BY <1>6, FlagType DEF RollbackExisting, Reasons
  <2>2. QED
    BY <1>6, <2>1 DEF RollbackExisting, OpenRequest
<1>7. QED
  BY <1>2, <1>3, <1>4, <1>5, <1>6, PanelStepType DEF NewRequest

\* The other steps of the request handlers keep the types.
LEMMA HandlerType ==
  ASSUME TypeOK, NEW d \in Deployments, HandlerStep(d) \/ ApiCancel(d) \/ PanelCancel(d)
  PROVE  TypeOK'
<1> USE Literals DEF TypeOK, requestVars, workerVars, historyVars
<1>1. CASE Enqueue(d)
  <2>1. queue' \in Seq(Job)
    <3>1. PICK cb \in BOOLEAN : Push(d, cb)
      BY <1>1 DEF Enqueue, CallbackOf
    <3>2. QED
      BY <3>1 DEF Push, Job
  <2>2. handler' \in [Deployments -> HandlerState]
    BY <1>1 DEF Enqueue
  <2>3. QED
    BY <1>1, <2>1, <2>2 DEF Enqueue
<1>2. CASE EnqueueFails(d)
  <2>1. mishap' \in [Deployments -> SUBSET Reasons]
    BY <1>2, FlagType DEF EnqueueFails, Reasons
  <2>2. QED
    BY <1>2, <2>1 DEF EnqueueFails
<1>3. CASE SetDeploying(d)
  <2>1. mishap' \in [Deployments -> SUBSET Reasons]
    BY <1>3, FlagType DEF SetDeploying, Reasons
  <2>2. QED
    BY <1>3, <2>1 DEF SetDeploying
<1>4. CASE ApiCancel(d)
  BY <1>4, LremKeepsQueue DEF ApiCancel
<1>5. CASE PanelCancel(d)
  BY <1>5 DEF PanelCancel
<1>6. QED
  BY <1>1, <1>2, <1>3, <1>4, <1>5 DEF HandlerStep

\* The worker's steps keep the types.
LEMMA WorkerType ==
  ASSUME TypeOK, WorkerStep
  PROVE  TypeOK'
<1> USE DEF requestVars, historyVars
<1>1. CASE Dequeue
  <2>1. Head(queue) \in Job /\ Tail(queue) \in Seq(Job)
    BY <1>1, Literals DEF TypeOK, Dequeue
  <2>2. Head(queue).deployment \in Deployments /\ Head(queue).callback \in BOOLEAN
    BY <2>1 DEF Job
  <2>3. QED
    BY <1>1, <2>1, <2>2, Literals DEF TypeOK, Dequeue
<1>2. CASE StartBuild
  <2>1. current \in Deployments /\ "building" \in RowStatus /\ "building" \in CallbackStatus
    BY <1>2, Literals DEF TypeOK, StartBuild, RowStatus, ActiveStatus
  <2>2. PICK on \in {notify, TRUE} :
          /\ notify' = on
          /\ Send(current, "building", on)
          /\ WriteStatus(current, "building", IF on THEN {} ELSE {"silent"})
    BY <1>2, Zenon DEF StartBuild
  <2>3. on \in BOOLEAN
    BY <2>2, Zenon DEF TypeOK
  <2>4. (IF on THEN {} ELSE {"silent"}) \in SUBSET Reasons
    BY DEF Reasons
  <2>5. /\ status' \in [Deployments -> RowStatus \cup {"none"}]
        /\ mishap' \in [Deployments -> SUBSET Reasons]
    BY <2>1, <2>2, <2>4, WriteStatusType
  <2>6. callbacks' \in [Deployments -> [CallbackStatus -> Nat]]
    BY <2>1, <2>2, <2>3, CallbackCount, Zenon
  <2>7. notify' \in BOOLEAN
    BY <2>2, <2>3, Zenon
  <2>8. QED
    BY <1>2, <2>1, <2>5, <2>6, <2>7, Literals DEF TypeOK, StartBuild
<1>3. CASE BuildSucceeds
  BY <1>3, Literals DEF TypeOK, BuildSucceeds
<1>4. CASE StartDeploying
  BY <1>4, Literals DEF TypeOK, StartDeploying
<1>5. CASE JobFails
  <2>1. current \in Deployments
    BY <1>5, Literals DEF TypeOK, JobFails
  <2>2. "failed" \in RowStatus /\ {} \in SUBSET Reasons
    BY DEF RowStatus, TerminalStatus
  <2>3. WriteStatus(current, "failed", {})
    BY <1>5 DEF JobFails
  <2>4. /\ status' \in [Deployments -> RowStatus \cup {"none"}]
        /\ mishap' \in [Deployments -> SUBSET Reasons]
    BY <2>1, <2>2, <2>3, WriteStatusType
  <2>5. QED
    BY <1>5, <2>1, <2>4, Literals DEF TypeOK, JobFails
<1>6. CASE JobSucceeds
  <2>1. current \in Deployments
    BY <1>6, Literals DEF TypeOK, JobSucceeds
  <2>2. "running" \in RowStatus /\ {} \in SUBSET Reasons
    BY DEF RowStatus, TerminalStatus
  <2>3. WriteStatus(current, "running", {})
    BY <1>6 DEF JobSucceeds
  <2>4. /\ status' \in [Deployments -> RowStatus \cup {"none"}]
        /\ mishap' \in [Deployments -> SUBSET Reasons]
    BY <2>1, <2>2, <2>3, WriteStatusType
  <2>5. QED
    BY <1>6, <2>1, <2>4, Literals DEF TypeOK, JobSucceeds
<1>7. CASE Report
  <2>1. current \in Deployments /\ phase \in CallbackStatus /\ notify \in BOOLEAN
    BY <1>7, Literals DEF TypeOK, Report
  <2>2. Send(current, phase, notify)
    BY <1>7 DEF Report
  <2>3. callbacks' \in [Deployments -> [CallbackStatus -> Nat]]
    BY <2>1, <2>2, CallbackCount, Zenon
  <2>4. QED
    BY <1>7, <2>3, Literals DEF TypeOK, Report
<1>8. QED
  BY <1>1, <1>2, <1>3, <1>4, <1>5, <1>6, <1>7 DEF WorkerStep

\* The panel's callback keeps the types.
LEMMA CallbackType ==
  ASSUME TypeOK, NEW d \in Deployments,
         CallbackHandled(d) \/ \E s \in CallbackStatus : CallbackLost(d, s)
  PROVE  TypeOK'
<1> USE Literals DEF TypeOK, requestVars, workerVars, historyVars
<1>1. CASE CallbackBuilding(d)
  <2>1. callbacks' \in [Deployments -> [CallbackStatus -> Nat]]
    BY <1>1, ReceivedCount DEF CallbackBuilding
  <2>2. mishap' \in [Deployments -> SUBSET Reasons]
    BY <1>1, FlagType DEF CallbackBuilding, Reasons
  <2>3. QED
    BY <1>1, <2>1, <2>2 DEF CallbackBuilding
<1>2. ASSUME NEW s \in Verdicts, CallbackVerdict(d, s)
      PROVE  TypeOK'
  <2>1. callbacks' \in [Deployments -> [CallbackStatus -> Nat]]
    BY <1>2, ReceivedCount DEF CallbackVerdict
  <2>2. QED
    BY <1>2, <2>1, ConstantsAssumption DEF CallbackVerdict
<1>3. ASSUME NEW s \in CallbackStatus, CallbackLost(d, s)
      PROVE  TypeOK'
  <2>1. callbacks' \in [Deployments -> [CallbackStatus -> Nat]]
    BY <1>3, ReceivedCount DEF CallbackLost
  <2>2. mishap' \in [Deployments -> SUBSET Reasons]
    BY <1>3, FlagType DEF CallbackLost, Reasons
  <2>3. QED
    BY <1>3, <2>1, <2>2 DEF CallbackLost
<1>4. QED
  BY <1>1, <1>2, <1>3 DEF CallbackHandled

\* A crash, a restart and a Stop or Scale keep the types.
LEMMA ProcessType ==
  ASSUME TypeOK,
         \/ Crash \/ Restart
         \/ \E a \in Applications, s \in {"active", "stopped"} : SetAppStatus(a, s)
  PROVE  TypeOK'
<1> USE Literals DEF TypeOK, requestVars, workerVars, historyVars
<1>1. CASE Crash
  <2>1. "crash" \in Reasons
    BY DEF Reasons
  <2>2. mishap' \in [Deployments -> SUBSET Reasons]
    BY <1>1, <2>1 DEF Crash
  <2>3. QED
    BY <1>1, <2>2 DEF Crash
<1>2. CASE Restart
  BY <1>2 DEF Restart
<1>3. ASSUME NEW a \in Applications, NEW s \in {"active", "stopped"}, SetAppStatus(a, s)
      PROVE  TypeOK'
  BY <1>3 DEF SetAppStatus
<1>4. QED
  BY <1>1, <1>2, <1>3

\* TypeOK is inductive.
LEMMA TypeStep == TypeOK /\ [Next]_vars => TypeOK'
<1> SUFFICES ASSUME TypeOK, [Next]_vars
             PROVE  TypeOK'
  OBVIOUS
<1>1. CASE UNCHANGED vars
  BY <1>1 DEF vars, TypeOK
<1>2. CASE Next
  BY <1>2, PanelStepType, NewRequestType, HandlerType, WorkerType, CallbackType, ProcessType
  DEF Next
<1>3. QED
  BY <1>1, <1>2

\* In every reachable state each row, list, counter and phase has its type: the
\* statuses are those of the panel's enum, the queue holds whole jobs, the number
\* of attempts left never leaves 0..MaxTries, and a busy worker has a deployment.
THEOREM TypeCorrect == Spec => []TypeOK
  BY TypeInit, TypeStep, PTL DEF Spec

-----------------------------------------------------------------------------
\* What sending or handling one callback does to every count.
LEMMA CallbackChange ==
  ASSUME TypeOK, NEW d \in Deployments, NEW s \in CallbackStatus,
         NEW e \in Deployments, NEW t \in CallbackStatus
  PROVE  /\ callbacks[e][t] \in Nat
         /\ \A on \in BOOLEAN :
              Send(d, s, on) =>
                callbacks'[e][t] = IF on /\ e = d /\ t = s THEN callbacks[e][t] + 1
                                                          ELSE callbacks[e][t]
         /\ Received(d, s) =>
              callbacks'[e][t] = IF e = d /\ t = s THEN callbacks[e][t] - 1
                                                  ELSE callbacks[e][t]
<1>1. callbacks[d] \in [CallbackStatus -> Nat] /\ callbacks[e] \in [CallbackStatus -> Nat]
  BY DEF TypeOK
<1>2. ASSUME NEW on \in BOOLEAN, Send(d, s, on)
      PROVE  callbacks'[e][t] = IF on /\ e = d /\ t = s THEN callbacks[e][t] + 1
                                                        ELSE callbacks[e][t]
  BY <1>1, <1>2 DEF Send, TypeOK
<1>3. ASSUME Received(d, s)
      PROVE  callbacks'[e][t] = IF e = d /\ t = s THEN callbacks[e][t] - 1
                                                ELSE callbacks[e][t]
  BY <1>1, <1>3 DEF Received, TypeOK
<1>4. QED
  BY <1>1, <1>2, <1>3

\* RunningWasDeployed survives every step.
LEMMA RunningStep ==
  TypeOK /\ RunningWasDeployed /\ [Next]_vars => RunningWasDeployed'
<1> SUFFICES ASSUME TypeOK, RunningWasDeployed, [Next]_vars,
                    NEW e \in Deployments,
                    \/ status'[e] = "running"
                    \/ callbacks'[e]["running"] > 0
                    \/ current' = e /\ phase' = "running"
             PROVE  e \in deployed'
  BY DEF RunningWasDeployed
<1>a. "running" \in CallbackStatus /\ "building" \in CallbackStatus /\ Verdicts \subseteq CallbackStatus
  BY Literals
<1>b. callbacks[e]["running"] \in Nat
  BY <1>a DEF TypeOK
\* A step that announces nothing new cannot break the property.
<1>c. ASSUME deployed \subseteq deployed',
             status'[e] = "running" => status[e] = "running",
             callbacks'[e]["running"] > 0 => callbacks[e]["running"] > 0,
             current' = e /\ phase' = "running" => current = e /\ phase = "running"
      PROVE  e \in deployed'
  BY <1>c DEF RunningWasDeployed
<1>1. CASE UNCHANGED vars
  BY <1>1, <1>c DEF vars
<1>2. ASSUME NEW d \in Deployments,
             PanelTrigger(d) \/ PanelStep(d) \/ HandlerStep(d) \/ PanelCancel(d) \/ ApiCancel(d)
      PROVE  e \in deployed'
  BY <1>2, <1>c
  DEF TypeOK, PanelStep, HandlerStep, PanelTrigger, PanelAborts, PostAccepted, PostAnswerLost, PostFails,
      PanelGivesUp, Enqueue, EnqueueFails, SetDeploying, PanelCancel, ApiCancel, Insert,
      workerVars, historyVars
<1>3. ASSUME NEW d \in Deployments, NewRequest(d), ~PanelTrigger(d)
      PROVE  e \in deployed'
  BY <1>3, <1>c
  DEF TypeOK, NewRequest, ApiDeploy, WebhookDeploy, SelfHealDeploy, Retry, RollbackNew,
      RollbackExisting, OpenRequest, Insert, workerVars
<1>4. CASE Dequeue \/ BuildSucceeds \/ StartDeploying \/ JobFails
  BY <1>4, <1>c
  DEF TypeOK, Dequeue, BuildSucceeds, StartDeploying, JobFails, WriteStatus, historyVars
<1>5. CASE StartBuild
  <2>1. PICK on \in {notify, TRUE} :
          /\ Send(current, "building", on)
          /\ WriteStatus(current, "building", IF on THEN {} ELSE {"silent"})
    BY <1>5, Zenon DEF StartBuild
  <2>2. on \in BOOLEAN /\ current \in Deployments
    BY <1>5, <2>1 DEF StartBuild, TypeOK
  <2>3. callbacks'[e]["running"] = callbacks[e]["running"]
    BY <1>a, <2>1, <2>2, CallbackChange
  <2>4. status'[e] = "running" => status[e] = "running"
    BY <2>1 DEF WriteStatus, TypeOK
  <2>5. QED
    BY <1>5, <1>c, <2>3, <2>4 DEF StartBuild
<1>6. CASE JobSucceeds
  <2>1. e # current => status'[e] = status[e]
    BY <1>6 DEF JobSucceeds, WriteStatus, TypeOK
  <2>2. QED
    BY <1>6, <2>1 DEF JobSucceeds, RunningWasDeployed
<1>7. CASE Report
  <2>1. phase \in CallbackStatus /\ current \in Deployments /\ notify \in BOOLEAN
    BY <1>7, <1>a, Literals DEF Report, TypeOK
  <2>2. Send(current, phase, notify) /\ UNCHANGED <<status, deployed>> /\ phase' = "idle"
    BY <1>7 DEF Report, historyVars
  <2>3. \/ callbacks'[e]["running"] = callbacks[e]["running"]
        \/ e = current /\ phase = "running"
    BY <1>a, <2>1, <2>2, CallbackChange
  <2>4. QED
    BY <2>2, <2>3 DEF RunningWasDeployed
<1>8. ASSUME NEW d \in Deployments, NEW s \in CallbackStatus,
             callbacks[d][s] > 0, Received(d, s),
             UNCHANGED <<workerVars, deployed>>,
             \/ UNCHANGED status
             \/ status' = [status EXCEPT ![d] = s]
      PROVE  e \in deployed'
  <2>1. callbacks'[e]["running"] > 0 => callbacks[e]["running"] > 0
    BY <1>8, <1>a, <1>b, CallbackChange
  <2>2. status'[e] = "running" => status[e] = "running" \/ callbacks[e]["running"] > 0
    BY <1>8 DEF TypeOK
  <2>3. QED
    BY <1>8, <2>1, <2>2 DEF RunningWasDeployed, workerVars
<1>9. ASSUME NEW d \in Deployments,
             CallbackHandled(d) \/ \E s \in CallbackStatus : CallbackLost(d, s)
      PROVE  e \in deployed'
  BY <1>8, <1>9, <1>a
  DEF CallbackHandled, CallbackBuilding, CallbackVerdict, CallbackLost, historyVars
<1>10. CASE \/ Crash \/ Restart
            \/ \E a \in Applications, s \in {"active", "stopped"} : SetAppStatus(a, s)
  BY <1>10, <1>c DEF Crash, Restart, SetAppStatus, workerVars, historyVars
<1>11. QED
  BY <1>1, <1>2, <1>3, <1>4, <1>5, <1>6, <1>7, <1>9, <1>10
  DEF Next, WorkerStep

\* Whatever the order in which callbacks arrive, however often a job is repeated
\* and wherever the orchestrator crashes, a deployment is announced as running,
\* by its row or to the panel, only if the worker brought it to the end.
THEOREM RunningIsTrue == Spec => []RunningWasDeployed
<1>1. Init => RunningWasDeployed
  BY Literals, ConstantsAssumption DEF Init, RunningWasDeployed
<1>2. QED
  BY <1>1, TypeInit, TypeStep, RunningStep, PTL DEF Spec

-----------------------------------------------------------------------------
\* DeployingRowHasWorker survives every step.
LEMMA DeployingStep ==
  TypeOK /\ DeployingRowHasWorker /\ [Next]_vars => DeployingRowHasWorker'
<1> SUFFICES ASSUME TypeOK, DeployingRowHasWorker, [Next]_vars,
                    NEW e \in Deployments, status'[e] = "deploying"
             PROVE  \/ current' = e /\ phase' = "deploying"
                    \/ mishap'[e] \cap {"crash", "db"} # {}
  BY DEF DeployingRowHasWorker
<1> DEFINE Goal == \/ current' = e /\ phase' = "deploying"
                   \/ mishap'[e] \cap {"crash", "db"} # {}
\* A step that leaves e deploying and the worker where it is keeps the reason.
<1>a. ASSUME status[e] = "deploying", mishap[e] \subseteq mishap'[e],
             current = e /\ phase = "deploying" => current' = e /\ phase' = "deploying"
      PROVE  Goal
  BY <1>a DEF DeployingRowHasWorker
<1>1. CASE UNCHANGED vars
  BY <1>1, <1>a DEF vars
<1>2. ASSUME NEW d \in Deployments,
             PanelTrigger(d) \/ PanelStep(d) \/ HandlerStep(d) \/ PanelCancel(d) \/ ApiCancel(d)
      PROVE  Goal
  <2>1. /\ UNCHANGED workerVars
        /\ status'[e] \in {status[e], "pending", "failed", "cancelled"}
    BY <1>2
    DEF TypeOK, PanelStep, HandlerStep, PanelTrigger, PanelAborts, PostAccepted, PostAnswerLost, PostFails,
        PanelGivesUp, Enqueue, EnqueueFails, SetDeploying, PanelCancel, ApiCancel, Insert
  <2>2. UNCHANGED mishap \/ \E reason \in Reasons : mishap' = Flag(d, reason)
    BY <1>2
    DEF PanelStep, HandlerStep, PanelTrigger, PanelAborts, PostAccepted, PostAnswerLost, PostFails,
        PanelGivesUp, Enqueue, EnqueueFails, SetDeploying, PanelCancel, ApiCancel, Reasons,
        historyVars
  <2>3. mishap[e] \subseteq mishap'[e]
    BY <2>2 DEF Flag, TypeOK
  <2>4. QED
    BY <1>a, <2>1, <2>3 DEF workerVars
<1>3. ASSUME NEW d \in Deployments, NewRequest(d), ~PanelTrigger(d)
      PROVE  Goal
  BY <1>3, <1>a
  DEF TypeOK, NewRequest, ApiDeploy, WebhookDeploy, SelfHealDeploy, Retry, RollbackNew,
      RollbackExisting, OpenRequest, Insert, Flag, workerVars
<1>4. CASE Dequeue \/ BuildSucceeds \/ StartDeploying
  BY <1>4, <1>a DEF TypeOK, Dequeue, BuildSucceeds, StartDeploying, historyVars
<1>5. ASSUME NEW s \in {"building", "running", "failed"}, NEW reasons \in SUBSET Reasons,
             current \in Deployments, WriteStatus(current, s, reasons)
      PROVE  Goal
  <2>1. CASE e = current
    BY <1>5, <2>1 DEF WriteStatus, TypeOK
  <2>2. CASE e # current
    BY <1>5, <2>2 DEF WriteStatus, TypeOK, DeployingRowHasWorker
  <2>3. QED
    BY <2>1, <2>2
<1>6. CASE StartBuild \/ JobFails \/ JobSucceeds
  <2>1. current \in Deployments
    BY <1>6 DEF TypeOK, StartBuild, JobFails, JobSucceeds
  <2>2. {} \in SUBSET Reasons /\ {"silent"} \in SUBSET Reasons
    BY DEF Reasons
  <2>3. CASE StartBuild
    <3>1. PICK on \in {notify, TRUE} :
             WriteStatus(current, "building", IF on THEN {} ELSE {"silent"})
      BY <2>3, Zenon DEF StartBuild
    <3>2. QED
      BY <1>5, <2>1, <2>2, <3>1
  <2>4. CASE JobFails \/ JobSucceeds
    BY <1>5, <2>1, <2>2, <2>4 DEF JobFails, JobSucceeds
  <2>5. QED
    BY <1>6, <2>3, <2>4
<1>7. CASE Report
  BY <1>7, <1>a DEF Report, Verdicts, historyVars
<1>8. ASSUME NEW d \in Deployments,
             CallbackHandled(d) \/ \E s \in CallbackStatus : CallbackLost(d, s)
      PROVE  Goal
  BY <1>8, <1>a
  DEF TypeOK, CallbackHandled, CallbackBuilding, CallbackVerdict, CallbackLost, Flag, Verdicts,
      workerVars, historyVars
<1>9. CASE Crash
  BY <1>9 DEF Crash, OnCrash, TypeOK, DeployingRowHasWorker
<1>10. CASE Restart \/ \E a \in Applications, s \in {"active", "stopped"} : SetAppStatus(a, s)
  BY <1>10, <1>a DEF Restart, SetAppStatus, workerVars, historyVars
<1>11. QED
  BY <1>1, <1>2, <1>3, <1>4, <1>6, <1>7, <1>8, <1>9, <1>10
  DEF Next, WorkerStep

\* A row that says deploying is the one the worker holds, unless the worker died
\* with it or could not write its verdict: never because of the order in which
\* cancels, callbacks and repeated jobs came.
THEOREM DeployingIsWorked == Spec => []DeployingRowHasWorker
<1>1. Init => DeployingRowHasWorker
  BY DEF Init, DeployingRowHasWorker
<1>2. QED
  BY <1>1, TypeInit, TypeStep, DeployingStep, PTL DEF Spec

-----------------------------------------------------------------------------
\* A push queues its deployment and forgets no other.
LEMMA QueuedPush ==
  ASSUME TypeOK, NEW d \in Deployments, NEW cb \in BOOLEAN, Push(d, cb), NEW e \in Deployments
  PROVE  Queued(d)' /\ (Queued(e) => Queued(e)')
<1>1. /\ Len(queue') = Len(queue) + 1
      /\ \A i \in 1..Len(queue) : queue'[i] = queue[i]
      /\ queue'[Len(queue) + 1].deployment = d
      /\ Len(queue) \in Nat
      /\ DOMAIN queue = 1..Len(queue) /\ DOMAIN queue' = 1..Len(queue')
  BY DEF TypeOK, Push
<1>2. QED
  BY <1>1 DEF Queued

\* A pop takes only the job at the head.
LEMMA QueuedPop ==
  ASSUME TypeOK, queue # <<>>, queue' = Tail(queue), NEW e \in Deployments, Queued(e)
  PROVE  Queued(e)' \/ e = Head(queue).deployment
<1>1. PICK i \in DOMAIN queue : queue[i].deployment = e
  BY DEF Queued
<1>2. /\ DOMAIN queue = 1..Len(queue) /\ Len(queue) \in Nat \ {0}
      /\ DOMAIN queue' = 1..(Len(queue) - 1)
      /\ \A j \in 1..(Len(queue) - 1) : queue'[j] = queue[j + 1]
      /\ Head(queue) = queue[1]
  BY DEF TypeOK
<1>3. CASE i = 1
  BY <1>1, <1>2, <1>3
<1>4. CASE i # 1
  <2>1. i - 1 \in 1..(Len(queue) - 1) /\ (i - 1) + 1 = i
    BY <1>1, <1>2, <1>4
  <2>2. queue'[i - 1].deployment = e
    BY <1>1, <1>2, <2>1
  <2>3. QED
    BY <1>2, <2>1, <2>2 DEF Queued
<1>5. QED
  BY <1>3, <1>4

\* What every step does to the queue.
LEMMA QueueChange ==
  ASSUME TypeOK, [Next]_vars, NEW e \in Deployments, Queued(e)
  PROVE  Queued(e)' \/ (Dequeue /\ e = Head(queue).deployment)
<1>1. CASE UNCHANGED queue
  BY <1>1 DEF Queued
<1>2. ASSUME NEW d \in Deployments, NEW cb \in BOOLEAN, Push(d, cb)
      PROVE  Queued(e)'
  BY <1>2, QueuedPush
<1>3. ASSUME NEW d \in Deployments, PostAccepted(d) \/ PostAnswerLost(d)
      PROVE  Queued(e)'
  BY <1>2, <1>3 DEF PostAccepted, PostAnswerLost
<1>4. ASSUME NEW d \in Deployments, Enqueue(d)
      PROVE  Queued(e)'
  <2>1. PICK cb \in BOOLEAN : Push(d, cb)
    BY <1>4 DEF Enqueue, CallbackOf
  <2>2. QED
    BY <1>2, <2>1
<1>5. ASSUME NEW d \in Deployments, ApiCancel(d)
      PROVE  Queued(e)'
  <2>1. queue' = queue
    BY <1>5, LremKeepsQueue DEF ApiCancel
  <2>2. QED
    BY <2>1 DEF Queued
<1>6. CASE Dequeue
  BY <1>6, QueuedPop DEF Dequeue
<1>7. ASSUME NEW d \in Deployments,
             \/ NewRequest(d) \/ PanelAborts(d) \/ PostFails(d) \/ PanelGivesUp(d) \/ EnqueueFails(d)
             \/ SetDeploying(d) \/ PanelCancel(d) \/ CallbackHandled(d)
             \/ \E s \in CallbackStatus : CallbackLost(d, s)
      PROVE  UNCHANGED queue
  BY <1>7
  DEF NewRequest, PanelTrigger, ApiDeploy, WebhookDeploy, SelfHealDeploy, Retry, RollbackNew,
      RollbackExisting, OpenRequest, PanelAborts, PostFails, PanelGivesUp, EnqueueFails, SetDeploying,
      PanelCancel, CallbackHandled, CallbackBuilding, CallbackVerdict, CallbackLost
<1>8. CASE \/ StartBuild \/ BuildSucceeds \/ StartDeploying \/ JobFails \/ JobSucceeds \/ Report
           \/ Crash \/ Restart
           \/ \E a \in Applications, s \in {"active", "stopped"} : SetAppStatus(a, s)
  BY <1>1, <1>8
  DEF StartBuild, BuildSucceeds, StartDeploying, JobFails, JobSucceeds, Report, Crash, Restart,
      SetAppStatus
<1>9. CASE UNCHANGED vars
  BY <1>1, <1>9 DEF vars
<1>10. QED
  BY <1>1, <1>3, <1>4, <1>5, <1>6, <1>7, <1>8, <1>9
  DEF Next, PanelStep, HandlerStep, WorkerStep

\* No step forgets what went wrong on the way of a deployment.
LEMMA MishapGrows ==
  ASSUME TypeOK, [Next]_vars, NEW e \in Deployments
  PROVE  mishap[e] \subseteq mishap'[e]
<1>1. ASSUME NEW d \in Deployments, NEW reason \in Reasons, mishap' = Flag(d, reason)
      PROVE  mishap[e] \subseteq mishap'[e]
  BY <1>1 DEF Flag, TypeOK
<1>2. ASSUME NEW d \in Deployments, NewRequest(d)
      PROVE  UNCHANGED mishap \/ mishap' = Flag(d, "retry")
  BY <1>2
  DEF NewRequest, PanelTrigger, ApiDeploy, WebhookDeploy, SelfHealDeploy, Retry, RollbackNew,
      RollbackExisting, historyVars
<1>3. ASSUME NEW d \in Deployments, PanelStep(d) \/ HandlerStep(d) \/ ApiCancel(d) \/ PanelCancel(d)
      PROVE  UNCHANGED mishap \/ \E reason \in {"abort", "retry", "enqueue", "late"} : mishap' = Flag(d, reason)
  BY <1>3
  DEF PanelStep, HandlerStep, PanelAborts, PostAccepted, PostAnswerLost, PostFails, PanelGivesUp, Enqueue,
      EnqueueFails, SetDeploying, ApiCancel, PanelCancel, historyVars
<1>4. ASSUME NEW d \in Deployments,
             CallbackHandled(d) \/ \E s \in CallbackStatus : CallbackLost(d, s)
      PROVE  UNCHANGED mishap \/ \E reason \in {"stale", "lost"} : mishap' = Flag(d, reason)
  BY <1>4
  DEF CallbackHandled, CallbackBuilding, CallbackVerdict, CallbackLost, historyVars
<1>5. ASSUME NEW s, NEW reasons, WriteStatus(current, s, reasons)
      PROVE  mishap[e] \subseteq mishap'[e]
  BY <1>5 DEF WriteStatus, TypeOK
<1>6. CASE StartBuild \/ JobFails \/ JobSucceeds
  BY <1>5, <1>6 DEF StartBuild, JobFails, JobSucceeds
<1>7. CASE \/ Dequeue \/ BuildSucceeds \/ StartDeploying \/ Report \/ Restart \/ UNCHANGED vars
           \/ \E a \in Applications, s \in {"active", "stopped"} : SetAppStatus(a, s)
  BY <1>7 DEF Dequeue, BuildSucceeds, StartDeploying, Report, Restart, SetAppStatus, vars,
              historyVars
<1>8. CASE Crash
  BY <1>8 DEF Crash, TypeOK
<1>9. {"abort", "retry", "enqueue", "late", "stale", "lost"} \subseteq Reasons
  BY DEF Reasons
<1>10. QED
  BY <1>1, <1>2, <1>3, <1>4, <1>6, <1>7, <1>8, <1>9
  DEF Next, WorkerStep

\* ActiveRowHasOwner survives every step.
LEMMA OwnerStep ==
  TypeOK /\ ActiveRowHasOwner /\ [Next]_vars => ActiveRowHasOwner'
<1> SUFFICES ASSUME TypeOK, ActiveRowHasOwner, [Next]_vars,
                    NEW e \in Deployments, status'[e] \in ActiveStatus
             PROVE  Owned(e)' \/ mishap'[e] \cap {"crash", "abort", "enqueue", "db", "stale"} # {}
  BY DEF ActiveRowHasOwner
<1> DEFINE Excused == mishap'[e] \cap {"crash", "abort", "enqueue", "db", "stale"} # {}
           Waiting == handler'[e] \in Enqueueing \cup {"post", "giveUp"}
           Held == current' = e /\ phase' \notin Verdicts
           Goal == Waiting \/ Queued(e)' \/ Held \/ Excused
<1> SUFFICES Goal
  BY DEF Owned
\* What has to be shown of a step: whoever owned e owns it still, or handed it on.
<1>a. ASSUME status[e] \in ActiveStatus,
             handler[e] \in Enqueueing \cup {"post", "giveUp"} => Goal,
             current = e /\ phase \notin Verdicts => Goal
      PROVE  Goal
  BY <1>a, QueueChange, MishapGrows
  DEF ActiveRowHasOwner, Owned, Dequeue, Verdicts
<1>1. CASE UNCHANGED vars
  BY <1>1, <1>a DEF vars
<1>2. ASSUME NEW d \in Deployments, NewRequest(d)
      PROVE  Goal
  <2>1. UNCHANGED workerVars
    BY <1>2 DEF NewRequest, PanelTrigger, ApiDeploy, WebhookDeploy, SelfHealDeploy, Retry,
                RollbackNew, RollbackExisting, OpenRequest
  <2>2. \E state \in Enqueueing \cup {"post"} : handler' = [handler EXCEPT ![d] = state]
    BY <1>2 DEF NewRequest, PanelTrigger, ApiDeploy, WebhookDeploy, SelfHealDeploy, Retry,
                RollbackNew, RollbackExisting, OpenRequest, Enqueueing
  <2>3. e # d => status'[e] = status[e]
    BY <1>2 DEF NewRequest, PanelTrigger, ApiDeploy, WebhookDeploy, SelfHealDeploy, Retry,
                RollbackNew, RollbackExisting, Insert, TypeOK
  <2>4. CASE e = d
    BY <2>2, <2>4 DEF TypeOK
  <2>5. CASE e # d
    <3>1. handler'[e] = handler[e]
      BY <2>2, <2>5 DEF TypeOK
    <3>2. QED
      BY <1>a, <2>1, <2>3, <2>5, <3>1 DEF workerVars
  <2>6. QED
    BY <2>4, <2>5
<1>3. ASSUME NEW d \in Deployments, PanelStep(d)
      PROVE  Goal
  <2>1. UNCHANGED workerVars
    BY <1>3 DEF PanelStep, PanelAborts, PostAccepted, PostAnswerLost, PostFails, PanelGivesUp
  <2>2. CASE e # d
    <3>1. handler'[e] = handler[e] /\ status'[e] = status[e]
      BY <1>3, <2>2
      DEF PanelStep, PanelAborts, PostAccepted, PostAnswerLost, PostFails, PanelGivesUp, SpendTry, TypeOK,
          requestVars
    <3>2. QED
      BY <1>a, <2>1, <3>1 DEF workerVars
  <2>3. CASE e = d
    <3>a. CASE PanelAborts(d)
      BY <2>3, <3>a DEF PanelAborts, Flag, TypeOK
    <3>1. CASE PostAccepted(d) \/ PostAnswerLost(d)
      BY <2>3, <3>1, QueuedPush DEF PostAccepted, PostAnswerLost
    <3>2. CASE PostFails(d)
      BY <2>3, <3>2 DEF PostFails, SpendTry, TypeOK
    <3>3. CASE PanelGivesUp(d)
      BY <2>3, <3>3 DEF PanelGivesUp, TypeOK, ActiveStatus
    <3>4. QED
      BY <1>3, <3>a, <3>1, <3>2, <3>3 DEF PanelStep
  <2>4. QED
    BY <2>2, <2>3
<1>4. ASSUME NEW d \in Deployments, HandlerStep(d)
      PROVE  Goal
  <2>1. UNCHANGED <<workerVars, status>>
    BY <1>4 DEF HandlerStep, Enqueue, EnqueueFails, SetDeploying
  <2>2. CASE e # d
    <3>1. handler'[e] = handler[e]
      BY <1>4, <2>2 DEF HandlerStep, Enqueue, EnqueueFails, SetDeploying, TypeOK
    <3>2. QED
      BY <1>a, <2>1, <3>1 DEF workerVars
  <2>3. CASE e = d
    <3>1. CASE Enqueue(d)
      <4>1. PICK cb \in BOOLEAN : Push(d, cb)
        BY <3>1 DEF Enqueue, CallbackOf
      <4>2. QED
        BY <2>3, <4>1, QueuedPush
    <3>2. CASE EnqueueFails(d)
      BY <2>3, <3>2 DEF EnqueueFails, Flag, TypeOK
    <3>3. CASE SetDeploying(d)
      <4>1. handler[e] \notin Enqueueing \cup {"post", "giveUp"}
        BY <2>3, <3>3 DEF SetDeploying, Enqueueing
      <4>2. QED
        BY <1>a, <2>1, <4>1 DEF workerVars
    <3>4. QED
      BY <1>4, <3>1, <3>2, <3>3 DEF HandlerStep
  <2>4. QED
    BY <2>2, <2>3
<1>5. ASSUME NEW d \in Deployments,
             \/ ApiCancel(d) \/ PanelCancel(d) \/ CallbackHandled(d)
             \/ \E s \in CallbackStatus : CallbackLost(d, s)
      PROVE  Goal
  <2>1. UNCHANGED <<workerVars, handler>>
    BY <1>5 DEF ApiCancel, PanelCancel, CallbackHandled, CallbackBuilding, CallbackVerdict,
                CallbackLost, requestVars
  <2>2. CASE status[e] \in ActiveStatus
    BY <1>a, <2>1, <2>2 DEF workerVars
  <2>3. CASE status[e] \notin ActiveStatus
    <3>1. status'[e] # status[e] /\ e = d
      BY <1>5, <2>3 DEF ApiCancel, PanelCancel, CallbackHandled, CallbackBuilding,
                        CallbackVerdict, CallbackLost, TypeOK
    <3>2. CallbackBuilding(d)
      BY <1>5, <3>1, <2>3 DEF ApiCancel, PanelCancel, CallbackHandled, CallbackVerdict,
                        CallbackLost, TypeOK, ActiveStatus, Verdicts
    <3>3. QED
      BY <2>3, <3>1, <3>2 DEF CallbackBuilding, Flag, TypeOK, ActiveStatus
  <2>4. QED
    BY <2>2, <2>3
<1>6. CASE WorkerStep
  <2>1. UNCHANGED handler
    BY <1>6 DEF WorkerStep, Dequeue, StartBuild, BuildSucceeds, StartDeploying, JobFails,
                JobSucceeds, Report, requestVars
  <2>2. CASE Dequeue
    BY <1>a, <2>1, <2>2, ConstantsAssumption DEF Dequeue, TypeOK
  <2>3. CASE StartBuild
    <3>1. current \in Deployments
      BY <2>3 DEF StartBuild, TypeOK
    <3>2. PICK on \in {notify, TRUE} :
             WriteStatus(current, "building", IF on THEN {} ELSE {"silent"})
      BY <2>3, Zenon DEF StartBuild
    <3>3. e # current => status'[e] = status[e]
      BY <3>2 DEF WriteStatus, TypeOK
    <3>4. QED
      BY <1>a, <2>1, <2>3, <3>3 DEF StartBuild, Verdicts
  <2>4. CASE BuildSucceeds \/ StartDeploying
    <3>1. e # current => status'[e] = status[e]
      BY <2>4 DEF BuildSucceeds, StartDeploying, TypeOK
    <3>2. QED
      BY <1>a, <2>1, <2>4, <3>1 DEF BuildSucceeds, StartDeploying, Verdicts
  <2>5. CASE JobFails \/ JobSucceeds
    <3>1. current \in Deployments
      BY <2>5 DEF JobFails, JobSucceeds, TypeOK
    <3>2. PICK s \in Verdicts : WriteStatus(current, s, {})
      BY <2>5 DEF JobFails, JobSucceeds, Verdicts
    <3>3. CASE e = current
      BY <3>1, <3>2, <3>3 DEF WriteStatus, TypeOK, Verdicts, ActiveStatus
    <3>4. CASE e # current
      <4>1. status'[e] = status[e]
        BY <3>2, <3>4 DEF WriteStatus, TypeOK
      <4>2. QED
        BY <1>a, <2>1, <3>4, <4>1
    <3>5. QED
      BY <3>3, <3>4
  <2>6. CASE Report
    BY <1>a, <2>1, <2>6 DEF Report
  <2>7. QED
    BY <1>6, <2>2, <2>3, <2>4, <2>5, <2>6 DEF WorkerStep
<1>7. CASE Crash
  <2>1. CASE OnCrash(e)
    BY <1>7, <2>1 DEF Crash, TypeOK
  <2>2. CASE ~OnCrash(e)
    BY <1>7, <1>a, <2>2 DEF Crash, OnCrash, TypeOK
  <2>3. QED
    BY <2>1, <2>2
<1>8. CASE Restart \/ \E a \in Applications, s \in {"active", "stopped"} : SetAppStatus(a, s)
  BY <1>8, <1>a DEF Restart, SetAppStatus, requestVars, workerVars
<1>9. QED
  BY <1>1, <1>2, <1>3, <1>4, <1>5, <1>6, <1>7, <1>8 DEF Next

\* A row in an active status is always in somebody's hands, or its history holds
\* one of the four things that can leave it behind: a crash, a push that failed, a
\* verdict that could not be written, a late building callback.
THEOREM ActiveIsOwned == Spec => []ActiveRowHasOwner
<1>1. Init => ActiveRowHasOwner
  BY DEF Init, ActiveRowHasOwner, ActiveStatus
<1>2. QED
  BY <1>1, TypeInit, TypeStep, OwnerStep, PTL DEF Spec

-----------------------------------------------------------------------------
\* A job that is being worked on without a callback URL was noted as such.
SilentIsFlagged ==
  phase \notin {"idle", "taken"} /\ ~notify => "silent" \in mishap[current]

\* SilentIsFlagged survives every step.
LEMMA SilentStep == TypeOK /\ SilentIsFlagged /\ [Next]_vars => SilentIsFlagged'
<1> SUFFICES ASSUME TypeOK, SilentIsFlagged, [Next]_vars,
                    phase' \notin {"idle", "taken"}, ~notify'
             PROVE  "silent" \in mishap'[current']
  BY DEF SilentIsFlagged
<1>1. ASSUME phase \notin {"idle", "taken"}, current' = current, notify' = notify
      PROVE  "silent" \in mishap'[current']
  BY <1>1, MishapGrows DEF SilentIsFlagged, TypeOK
<1>2. CASE StartBuild
  <2>1. current \in Deployments
    BY <1>2 DEF StartBuild, TypeOK
  <2>2. PICK on \in {notify, TRUE} :
          notify' = on /\ WriteStatus(current, "building", IF on THEN {} ELSE {"silent"})
    BY <1>2, Zenon DEF StartBuild
  <2>3. WriteStatus(current, "building", {"silent"})
    BY <2>2
  <2>4. QED
    BY <1>2, <2>1, <2>3 DEF StartBuild, WriteStatus, TypeOK
<1>3. CASE BuildSucceeds \/ StartDeploying \/ JobFails \/ JobSucceeds
  BY <1>1, <1>3 DEF BuildSucceeds, StartDeploying, JobFails, JobSucceeds
<1>4. CASE Dequeue \/ Report \/ Crash
  BY <1>4 DEF Dequeue, Report, Crash
<1>5. CASE UNCHANGED workerVars
  BY <1>1, <1>5 DEF workerVars
<1>6. ASSUME NEW d \in Deployments,
             \/ NewRequest(d) \/ PanelStep(d) \/ HandlerStep(d) \/ ApiCancel(d) \/ PanelCancel(d)
             \/ CallbackHandled(d) \/ \E s \in CallbackStatus : CallbackLost(d, s)
      PROVE  UNCHANGED workerVars
  BY <1>6
  DEF NewRequest, PanelTrigger, ApiDeploy, WebhookDeploy, SelfHealDeploy, Retry, RollbackNew,
      RollbackExisting, OpenRequest, PanelStep, PanelAborts, PostAccepted, PostAnswerLost, PostFails,
      PanelGivesUp, HandlerStep, Enqueue, EnqueueFails, SetDeploying, ApiCancel, PanelCancel,
      CallbackHandled, CallbackBuilding, CallbackVerdict, CallbackLost
<1>7. CASE \/ Restart \/ UNCHANGED vars
           \/ \E a \in Applications, s \in {"active", "stopped"} : SetAppStatus(a, s)
  BY <1>5, <1>7 DEF Restart, SetAppStatus, vars, workerVars
<1>8. QED
  BY <1>2, <1>3, <1>4, <1>5, <1>6, <1>7 DEF Next, WorkerStep

\* Deployment d accounts for an application that is shown as deploying.
Explains(d) == OwesVerdict(d) \/ mishap[d] \cap {"crash", "abort", "lost", "silent", "late"} # {}

\* A deployment goes on accounting for its application until a verdict is written.
LEMMA ExplainsStep ==
  ASSUME TypeOK, SilentIsFlagged, [Next]_vars, NEW e \in Deployments, Explains(e),
         appStatus'[AppOf[e]] = "deploying"
  PROVE  Explains(e)'
<1> DEFINE Excused == mishap'[e] \cap {"crash", "abort", "lost", "silent", "late"} # {}
           Posting == handler'[e] \in {"post", "giveUp"}
           Held == current' = e /\ (phase' = "taken" \/ notify')
           Sent == \E s \in Verdicts : callbacks'[e][s] > 0
           Goal == Posting \/ Queued(e)' \/ Held \/ Sent \/ Excused
<1> SUFFICES Goal
  BY DEF Explains, OwesVerdict
\* What has to be shown of a step: whoever owed the verdict owes it still.
<1>a. ASSUME handler[e] \in {"post", "giveUp"} => Goal,
             current = e /\ (phase = "taken" \/ notify) => Goal,
             \A s \in Verdicts : callbacks[e][s] > 0 => Goal
      PROVE  Goal
  BY <1>a, QueueChange, MishapGrows DEF Explains, OwesVerdict, Dequeue
<1>b. Verdicts \subseteq CallbackStatus /\ "building" \in CallbackStatus /\ "building" \notin Verdicts
  BY Literals
<1>c. AppOf[e] \in Applications
  BY ConstantsAssumption
<1>1. CASE UNCHANGED vars
  BY <1>1, <1>a DEF vars
<1>2. ASSUME NEW d \in Deployments, NewRequest(d)
      PROVE  Goal
  <2>1. UNCHANGED <<workerVars, callbacks>>
    BY <1>2 DEF NewRequest, PanelTrigger, ApiDeploy, WebhookDeploy, SelfHealDeploy, Retry,
                RollbackNew, RollbackExisting, OpenRequest
  <2>2. \/ handler[d] = "idle" /\ \E state \in HandlerState : handler' = [handler EXCEPT ![d] = state]
        \/ handler' = [handler EXCEPT ![d] = "post"]
    BY <1>2, Literals
    DEF NewRequest, PanelTrigger, ApiDeploy, WebhookDeploy, SelfHealDeploy, Retry,
        RollbackNew, RollbackExisting, OpenRequest
  <2>3. handler[e] \in {"post", "giveUp"} => Posting
    BY <2>2 DEF TypeOK
  <2>4. QED
    BY <1>a, <2>1, <2>3 DEF workerVars
<1>3. ASSUME NEW d \in Deployments, PanelStep(d) \/ HandlerStep(d)
      PROVE  Goal
  <2>1. UNCHANGED <<workerVars, callbacks>>
    BY <1>3 DEF PanelStep, PanelAborts, PostAccepted, PostAnswerLost, PostFails, PanelGivesUp,
                HandlerStep, Enqueue, EnqueueFails, SetDeploying
  <2>2. CASE e # d
    <3>1. handler'[e] = handler[e]
      BY <1>3, <2>2
      DEF PanelStep, PanelAborts, PostAccepted, PostAnswerLost, PostFails, PanelGivesUp, SpendTry, TypeOK,
          HandlerStep, Enqueue, EnqueueFails, SetDeploying, requestVars
    <3>2. QED
      BY <1>a, <2>1, <3>1 DEF workerVars
  <2>3. CASE e = d
    <3>a. CASE PanelAborts(d)
      BY <2>3, <3>a DEF PanelAborts, Flag, TypeOK
    <3>1. CASE PostAccepted(d) \/ PostAnswerLost(d)
      BY <2>3, <3>1, QueuedPush DEF PostAccepted, PostAnswerLost
    <3>2. CASE PostFails(d)
      BY <2>3, <3>2 DEF PostFails, SpendTry, TypeOK
    <3>3. CASE PanelGivesUp(d)
      BY <1>c, <2>3, <3>3 DEF PanelGivesUp, TypeOK
    <3>4. CASE HandlerStep(d)
      <4>1. handler[e] \notin {"post", "giveUp"}
        BY <2>3, <3>4 DEF HandlerStep, Enqueue, EnqueueFails, SetDeploying, Enqueueing
      <4>2. QED
        BY <1>a, <2>1, <4>1 DEF workerVars
    <3>5. QED
      BY <1>3, <3>a, <3>1, <3>2, <3>3, <3>4 DEF PanelStep
  <2>4. QED
    BY <2>2, <2>3
<1>4. ASSUME NEW d \in Deployments, CallbackHandled(d) \/ \E s \in CallbackStatus : CallbackLost(d, s)
      PROVE  Goal
  <2>1. UNCHANGED <<workerVars, handler>>
    BY <1>4 DEF CallbackHandled, CallbackBuilding, CallbackVerdict, CallbackLost, requestVars
  <2>2. PICK s \in CallbackStatus : Received(d, s) /\ (CallbackBuilding(d) => s = "building")
    BY <1>4, <1>b DEF CallbackHandled, CallbackBuilding, CallbackVerdict, CallbackLost
  <2>3. CASE e # d \/ s = "building"
    <3>1. \A t \in Verdicts : callbacks'[e][t] = callbacks[e][t]
      BY <1>b, <2>2, <2>3, CallbackChange
    <3>2. QED
      BY <1>a, <2>1, <3>1 DEF workerVars
  <2>4. CASE e = d /\ s # "building"
    <3>1. ASSUME NEW t \in Verdicts, CallbackVerdict(d, t)
          PROVE  FALSE
      BY <1>c, <2>4, <3>1 DEF CallbackVerdict, TypeOK
    <3>2. ASSUME NEW t \in Verdicts, CallbackLost(d, t)
          PROVE  Excused
      BY <2>4, <3>2 DEF CallbackLost, Flag, TypeOK
    <3>3. CASE CallbackLost(d, "building")
      <4>1. \A t \in Verdicts : callbacks'[e][t] = callbacks[e][t]
        BY <1>b, <3>3, CallbackChange DEF CallbackLost
      <4>2. QED
        BY <1>a, <2>1, <4>1 DEF workerVars
    <3>4. CallbackStatus = Verdicts \cup {"building"}
      BY DEF CallbackStatus, Verdicts
    <3>5. QED
      BY <1>4, <2>2, <2>4, <3>1, <3>2, <3>3, <3>4 DEF CallbackHandled
  <2>5. QED
    BY <2>3, <2>4
<1>5. CASE StartBuild
  <2>1. UNCHANGED handler /\ current \in Deployments /\ UNCHANGED current
    BY <1>5 DEF StartBuild, requestVars, TypeOK
  <2>2. PICK on \in {notify, TRUE} :
          /\ notify' = on
          /\ Send(current, "building", on)
          /\ WriteStatus(current, "building", IF on THEN {} ELSE {"silent"})
    BY <1>5, Zenon DEF StartBuild
  <2>3. on \in BOOLEAN
    BY <2>2, Zenon DEF TypeOK
  <2>4. \A t \in Verdicts : callbacks'[e][t] = callbacks[e][t]
    BY <1>b, <2>1, <2>2, <2>3, CallbackChange
  <2>5. ASSUME current = e
        PROVE  Goal
    <3>1. CASE on
      BY <2>1, <2>2, <2>5, <3>1
    <3>2. CASE ~on
      <4>1. WriteStatus(e, "building", {"silent"})
        BY <2>2, <2>5, <3>2
      <4>2. "silent" \in mishap'[e]
        BY <4>1 DEF WriteStatus, TypeOK
      <4>3. QED
        BY <4>2
    <3>3. QED
      BY <3>1, <3>2
  <2>6. QED
    BY <1>a, <2>1, <2>4, <2>5
<1>6. CASE Dequeue
  BY <1>6, <1>a, ConstantsAssumption DEF Dequeue, TypeOK, requestVars
<1>7. CASE BuildSucceeds \/ StartDeploying \/ JobFails \/ JobSucceeds
  BY <1>7, <1>a, <1>b
  DEF BuildSucceeds, StartDeploying, JobFails, JobSucceeds, requestVars, Verdicts
<1>8. CASE Report
  <2>1. phase \in Verdicts /\ current \in Deployments /\ notify \in BOOLEAN
    BY <1>8, Literals DEF Report, TypeOK
  <2>2. Send(current, phase, notify) /\ UNCHANGED handler
    BY <1>8 DEF Report, requestVars
  <2>3. \A t \in Verdicts : callbacks[e][t] > 0 => callbacks'[e][t] > 0
    BY <1>b, <2>1, <2>2, CallbackChange
  <2>4. ASSUME current = e, notify
        PROVE  callbacks'[e][phase] > 0
    <3>1. phase \in CallbackStatus
      BY <1>b, <2>1
    <3>2. callbacks[e][phase] \in Nat /\ callbacks'[e][phase] = callbacks[e][phase] + 1
      BY <2>1, <2>2, <2>4, <3>1, CallbackChange
    <3>3. QED
      BY <3>2
  <2>5. phase # "taken"
    BY <2>1 DEF Verdicts
  <2>6. QED
    BY <1>a, <2>1, <2>2, <2>3, <2>4, <2>5
<1>9. ASSUME NEW d \in Deployments, ApiCancel(d) \/ PanelCancel(d)
      PROVE  Goal
  BY <1>9, <1>a DEF ApiCancel, PanelCancel, requestVars, workerVars
<1>10. CASE Crash
  <2>1. CASE OnCrash(e)
    BY <1>10, <2>1 DEF Crash, TypeOK
  <2>2. CASE ~OnCrash(e)
    BY <1>10, <1>a, <2>2 DEF Crash, OnCrash, TypeOK
  <2>3. QED
    BY <2>1, <2>2
<1>11. CASE Restart \/ \E a \in Applications, s \in {"active", "stopped"} : SetAppStatus(a, s)
  BY <1>11, <1>a DEF Restart, SetAppStatus, requestVars, workerVars
<1>12. QED
  BY <1>1, <1>2, <1>3, <1>4, <1>5, <1>6, <1>7, <1>8, <1>9, <1>10, <1>11 DEF Next, WorkerStep

\* DeployingOwesVerdict survives every step.
LEMMA VerdictStep ==
  TypeOK /\ SilentIsFlagged /\ DeployingOwesVerdict /\ [Next]_vars => DeployingOwesVerdict'
<1> SUFFICES ASSUME TypeOK, SilentIsFlagged, DeployingOwesVerdict, [Next]_vars,
                    NEW a \in Applications, appStatus'[a] = "deploying"
             PROVE  \E d \in Deployments : AppOf[d] = a /\ Explains(d)'
  BY DEF DeployingOwesVerdict, Explains
<1>1. CASE appStatus[a] = "deploying"
  <2>1. PICK d \in Deployments : AppOf[d] = a /\ Explains(d)
    BY <1>1 DEF DeployingOwesVerdict, Explains
  <2>2. QED
    BY <2>1, ExplainsStep
<1>2. CASE appStatus[a] # "deploying"
  <2>1. PICK d \in Deployments : PanelTrigger(d) \/ SetDeploying(d)
    BY <1>2
    DEF Next, NewRequest, PanelStep, HandlerStep, WorkerStep, ApiDeploy, WebhookDeploy,
        SelfHealDeploy, Retry, RollbackNew, RollbackExisting, OpenRequest, PanelAborts, PostAccepted,
        PostAnswerLost, PostFails, PanelGivesUp, Enqueue, EnqueueFails, ApiCancel, PanelCancel,
        CallbackHandled, CallbackBuilding, CallbackVerdict, CallbackLost, SetAppStatus, Dequeue,
        StartBuild, BuildSucceeds, StartDeploying, JobFails, JobSucceeds, Report, Crash, Restart,
        TypeOK, vars
  <2>2. AppOf[d] = a
    BY <1>2, <2>1, ConstantsAssumption DEF PanelTrigger, SetDeploying, TypeOK
  <2>3. CASE PanelTrigger(d)
    BY <2>2, <2>3 DEF PanelTrigger, Explains, OwesVerdict, TypeOK
  <2>4. CASE SetDeploying(d)
    <3>1. CASE Queued(d) \/ current = d
      <4>1. UNCHANGED <<queue, callbacks, workerVars, mishap>>
        BY <2>4, <3>1 DEF SetDeploying
      <4>2. Explains(d)
        BY <3>1, ConstantsAssumption DEF Explains, OwesVerdict, SilentIsFlagged, TypeOK
      <4>3. handler[d] \notin {"post", "giveUp"}
        BY <2>4 DEF SetDeploying
      <4>4. QED
        BY <2>2, <4>1, <4>2, <4>3 DEF Explains, OwesVerdict, Queued, workerVars
    <3>2. CASE ~(Queued(d) \/ current = d)
      BY <2>2, <2>4, <3>2 DEF SetDeploying, Explains, Flag, TypeOK
    <3>3. QED
      BY <3>1, <3>2
  <2>5. QED
    BY <2>1, <2>3, <2>4
<1>3. QED
  BY <1>1, <1>2

\* An application shown as deploying is owed a verdict by one of its deployments
\* that is still on its way, unless a crash, a lost or missing callback or a late
\* rollback statement explains it.
THEOREM VerdictIsOwed == Spec => []DeployingOwesVerdict
<1>1. Init => SilentIsFlagged /\ DeployingOwesVerdict
  BY DEF Init, SilentIsFlagged, DeployingOwesVerdict
<1>2. QED
  BY <1>1, TypeInit, TypeStep, SilentStep, VerdictStep, PTL DEF Spec

-----------------------------------------------------------------------------
(***************************************************************************)
(* One job for one deployment.                                             *)
(***************************************************************************)
\* The job of d is not pushed yet: there is no row, or its request is still open.
Unpushed(d) == status[d] = "none" \/ handler[d] \in Enqueueing \cup {"post", "giveUp"}

QueuedOnce(d) ==
  \A i, j \in DOMAIN queue : queue[i].deployment = d /\ queue[j].deployment = d => i = j

\* d goes through its request, the queue, the worker and its verdict one after the other.
Once(d) ==
  /\ status[d] = "none" => handler[d] = "idle"
  /\ QueuedOnce(d)
  /\ Unpushed(d) => ~Queued(d) /\ current # d
  /\ Queued(d) => current # d
  /\ Unpushed(d) \/ Queued(d) => d \notin deployed /\ callbacks[d]["failed"] = 0
  /\ current = d => callbacks[d]["failed"] = 0 /\ (d \in deployed => phase = "running")
  /\ d \in deployed => callbacks[d]["failed"] = 0

\* Every deployment does, unless a POST was repeated or its row was reused.
OnceOnly == \A d \in Deployments : "retry" \in mishap[d] \/ Once(d)

\* A push adds one job of its deployment and none of another.
LEMMA OncePush ==
  ASSUME TypeOK, NEW d \in Deployments, NEW cb \in BOOLEAN, Push(d, cb), NEW e \in Deployments
  PROVE  /\ e # d => (Queued(e)' <=> Queued(e)) /\ (QueuedOnce(e) => QueuedOnce(e)')
         /\ ~Queued(d) => QueuedOnce(d)'
<1>1. /\ Len(queue') = Len(queue) + 1
      /\ \A i \in 1..Len(queue) : queue'[i] = queue[i]
      /\ queue'[Len(queue) + 1].deployment = d
      /\ Len(queue) \in Nat
      /\ DOMAIN queue = 1..Len(queue) /\ DOMAIN queue' = 1..Len(queue')
  BY DEF TypeOK, Push
<1>2. \A i \in DOMAIN queue' : (i \in DOMAIN queue /\ queue'[i] = queue[i]) \/ i = Len(queue) + 1
  BY <1>1
<1>3. QED
  BY <1>1, <1>2 DEF Queued, QueuedOnce

\* A pop takes the only job of its deployment.
LEMMA OncePop ==
  ASSUME TypeOK, queue # <<>>, queue' = Tail(queue), NEW e \in Deployments, QueuedOnce(e)
  PROVE  /\ QueuedOnce(e)' /\ (Queued(e)' => Queued(e))
         /\ e = Head(queue).deployment => Queued(e) /\ ~Queued(e)'
<1>1. /\ DOMAIN queue = 1..Len(queue) /\ Len(queue) \in Nat \ {0}
      /\ DOMAIN queue' = 1..(Len(queue) - 1)
      /\ \A j \in 1..(Len(queue) - 1) : queue'[j] = queue[j + 1]
      /\ Head(queue) = queue[1]
  BY DEF TypeOK
<1>2. \A j \in DOMAIN queue' :
        j + 1 \in DOMAIN queue /\ j + 1 # 1 /\ j \in Nat /\ queue'[j] = queue[j + 1]
  BY <1>1
<1>3. QueuedOnce(e)'
  <2> SUFFICES ASSUME NEW i \in DOMAIN queue', NEW j \in DOMAIN queue',
                      queue'[i].deployment = e, queue'[j].deployment = e
               PROVE  i = j
    BY DEF QueuedOnce
  <2>1. i + 1 = j + 1
    BY <1>2 DEF QueuedOnce
  <2>2. QED
    BY <1>2, <2>1
<1>4. Queued(e)' => Queued(e)
  BY <1>2 DEF Queued
<1>5. ASSUME e = Head(queue).deployment PROVE Queued(e) /\ ~Queued(e)'
  <2>1. 1 \in DOMAIN queue /\ queue[1].deployment = e
    BY <1>1, <1>5
  <2>2. QED
    BY <1>2, <2>1 DEF Queued, QueuedOnce
<1>6. QED
  BY <1>3, <1>4, <1>5

\* OnceOnly survives every step.
LEMMA OnceStep ==
  TypeOK /\ OnceOnly /\ [Next]_vars => OnceOnly'
<1> SUFFICES ASSUME TypeOK, OnceOnly, [Next]_vars,
                    NEW e \in Deployments, "retry" \notin mishap'[e]
             PROVE  Once(e)'
  BY DEF OnceOnly
<1>a. Once(e)
  BY MishapGrows DEF OnceOnly
<1>b. /\ "failed" \in CallbackStatus /\ "running" \in CallbackStatus
      /\ "building" \in CallbackStatus /\ callbacks[e]["failed"] \in Nat
      /\ None \notin Deployments /\ "retry" \in Reasons
  BY Literals, ConstantsAssumption DEF TypeOK, Reasons
\* What a step that starts no job and ends none has to keep.
<1>c. ASSUME UNCHANGED <<queue, current, deployed>>,
             phase' = phase \/ phase # "running",
             \/ callbacks'[e]["failed"] = callbacks[e]["failed"]
             \/ /\ callbacks'[e]["failed"] = callbacks[e]["failed"] - 1
                /\ callbacks[e]["failed"] # 0,
             Unpushed(e)' => Unpushed(e),
             status'[e] = "none" => handler'[e] = "idle"
      PROVE  Once(e)'
  BY <1>a, <1>b, <1>c DEF Once, QueuedOnce, Queued
<1>1. CASE UNCHANGED vars
  BY <1>1, <1>a DEF vars, Once, QueuedOnce, Queued, Unpushed
<1>2. ASSUME NEW d \in Deployments, NewRequest(d) PROVE Once(e)'
  <2>1. UNCHANGED <<queue, current, deployed, phase, callbacks>>
    BY <1>2 DEF NewRequest, PanelTrigger, ApiDeploy, WebhookDeploy, SelfHealDeploy, Retry,
                RollbackNew, RollbackExisting, OpenRequest, workerVars, historyVars
  <2>2. CASE RollbackExisting(d)
    <3>1. d # e
      BY <1>b, <2>2 DEF RollbackExisting, Flag, TypeOK
    <3>2. status'[e] = status[e] /\ handler'[e] = handler[e]
      BY <2>2, <3>1 DEF RollbackExisting, OpenRequest, TypeOK
    <3>3. QED
      BY <1>a, <1>c, <2>1, <3>2 DEF Unpushed, Once
  <2>3. CASE ~RollbackExisting(d)
    <3>1. status[d] = "none" /\ status' = [status EXCEPT ![d] = "pending"]
      BY <1>2, <2>3 DEF NewRequest, PanelTrigger, ApiDeploy, WebhookDeploy, SelfHealDeploy,
                        Retry, RollbackNew, Insert
    <3>2. d # e => handler'[e] = handler[e]
      BY <1>2, <2>3 DEF NewRequest, PanelTrigger, ApiDeploy, WebhookDeploy, SelfHealDeploy,
                        Retry, RollbackNew, OpenRequest, TypeOK
    <3>3. CASE d = e
      <4>1. Unpushed(e) /\ status'[e] = "pending"
        BY <3>1, <3>3 DEF Unpushed, TypeOK
      <4>2. QED
        BY <1>c, <2>1, <4>1
    <3>4. CASE d # e
      <4>1. status'[e] = status[e] /\ handler'[e] = handler[e]
        BY <3>1, <3>2, <3>4 DEF TypeOK
      <4>2. QED
        BY <1>a, <1>c, <2>1, <4>1 DEF Unpushed, Once
    <3>5. QED
      BY <3>3, <3>4
  <2>4. QED
    BY <2>2, <2>3
<1>3. ASSUME NEW d \in Deployments,
             \/ PanelAborts(d) \/ PostFails(d) \/ PanelGivesUp(d) \/ EnqueueFails(d)
             \/ SetDeploying(d)
      PROVE  Once(e)'
  <2>1. UNCHANGED <<queue, current, deployed, phase, callbacks>>
    BY <1>3 DEF PanelAborts, PostFails, PanelGivesUp, EnqueueFails, SetDeploying, workerVars,
                historyVars
  <2>2. /\ status' = status \/ status' = [status EXCEPT ![d] = "failed"]
        /\ \E label \in {"idle", "giveUp", "post"} :
             /\ handler' = [handler EXCEPT ![d] = label]
             /\ label # "idle" => handler[d] = "post"
        /\ handler[d] # "idle"
    BY <1>3 DEF PanelAborts, PostFails, PanelGivesUp, EnqueueFails, SetDeploying, SpendTry,
                Enqueueing
  <2>3. (Unpushed(e)' => Unpushed(e)) /\ (status'[e] = "none" => handler'[e] = "idle")
    <3>1. CASE d = e
      BY <1>a, <2>2, <3>1 DEF Unpushed, Once, TypeOK, Enqueueing
    <3>2. CASE d # e
      BY <1>a, <2>2, <3>2 DEF Unpushed, Once, TypeOK
    <3>3. QED
      BY <3>1, <3>2
  <2>4. QED
    BY <1>c, <2>1, <2>3
<1>4. ASSUME NEW d \in Deployments, PanelCancel(d) \/ ApiCancel(d) PROVE Once(e)'
  <2>1. UNCHANGED <<queue, current, deployed, phase, callbacks, handler>>
    BY <1>4, LremKeepsQueue DEF PanelCancel, ApiCancel, workerVars, historyVars, requestVars
  <2>2. status' = [status EXCEPT ![d] = "cancelled"]
    BY <1>4 DEF PanelCancel, ApiCancel
  <2>3. QED
    BY <1>a, <1>c, <2>1, <2>2 DEF Unpushed, Once, TypeOK
<1>5. ASSUME NEW d \in Deployments, PostAccepted(d) \/ Enqueue(d) PROVE Once(e)'
  <2>1. PICK cb \in BOOLEAN : Push(d, cb)
    BY <1>5 DEF PostAccepted, Enqueue, CallbackOf
  <2>2. /\ UNCHANGED <<status, current, deployed, phase, callbacks>>
        /\ handler[d] \in Enqueueing \cup {"post"}
        /\ \E label \in {"idle", "setDeploying"} : handler' = [handler EXCEPT ![d] = label]
    BY <1>5 DEF PostAccepted, Enqueue, workerVars, historyVars
  <2>3. CASE d = e
    <3>1. Unpushed(e) /\ handler[e] # "idle" /\ handler'[e] \in {"idle", "setDeploying"}
      BY <2>2, <2>3 DEF Unpushed, Enqueueing, TypeOK
    <3>2. QueuedOnce(e)' /\ status'[e] # "none" /\ ~Unpushed(e)'
      BY <1>a, <2>1, <2>2, <2>3, <3>1, OncePush DEF Once, Unpushed, Enqueueing
    <3>3. QED
      BY <1>a, <2>2, <3>1, <3>2 DEF Once
  <2>4. CASE d # e
    <3>1. handler'[e] = handler[e] /\ (Queued(e)' <=> Queued(e)) /\ QueuedOnce(e)'
      BY <1>a, <2>1, <2>2, <2>4, OncePush DEF Once, TypeOK
    <3>2. QED
      BY <1>a, <2>2, <3>1 DEF Once, Unpushed
  <2>5. QED
    BY <2>3, <2>4
<1>6. ASSUME NEW d \in Deployments, PostAnswerLost(d) PROVE Once(e)'
  <2>1. d # e
    BY <1>6, <1>b DEF PostAnswerLost, Flag, TypeOK
  <2>2. /\ UNCHANGED <<status, current, deployed, phase, callbacks>>
        /\ Push(d, TRUE) /\ handler'[e] = handler[e]
    BY <1>6, <2>1 DEF PostAnswerLost, SpendTry, workerVars, TypeOK
  <2>3. (Queued(e)' <=> Queued(e)) /\ QueuedOnce(e)'
    BY <1>a, <2>1, <2>2, OncePush DEF Once
  <2>4. QED
    BY <1>a, <2>2, <2>3 DEF Once, Unpushed
<1>7. CASE Dequeue
  <2>1. /\ UNCHANGED <<status, handler, deployed, callbacks>> /\ phase' = "taken"
        /\ current' = Head(queue).deployment /\ queue' = Tail(queue) /\ queue # <<>>
    BY <1>7 DEF Dequeue, requestVars, historyVars
  <2>2. QueuedOnce(e)' /\ (Queued(e)' => Queued(e))
        /\ (current' = e => Queued(e) /\ ~Queued(e)')
    BY <1>a, <2>1, OncePop DEF Once
  <2>3. QED
    BY <1>a, <2>1, <2>2 DEF Once, Unpushed
<1>8. CASE StartBuild
  <2>1. PICK on \in {notify, TRUE} :
          /\ Send(current, "building", on)
          /\ WriteStatus(current, "building", IF on THEN {} ELSE {"silent"})
    BY <1>8, Zenon DEF StartBuild
  <2>2. on \in BOOLEAN /\ current \in Deployments
    BY <1>8, <2>1 DEF StartBuild, TypeOK
  <2>3. callbacks'[e]["failed"] = callbacks[e]["failed"]
    BY <1>b, <2>1, <2>2, CallbackChange
  <2>4. status'[e] = "none" => status[e] = "none"
    BY <2>1 DEF WriteStatus, TypeOK
  <2>5. UNCHANGED <<queue, current, deployed, handler>> /\ phase # "running"
    BY <1>8 DEF StartBuild, requestVars
  <2>6. QED
    BY <1>a, <1>c, <2>3, <2>4, <2>5 DEF Unpushed, Once
<1>9. CASE BuildSucceeds \/ StartDeploying \/ JobFails
  <2>1. UNCHANGED <<queue, current, deployed, handler, callbacks>> /\ phase # "running"
    BY <1>9 DEF BuildSucceeds, StartDeploying, JobFails, requestVars, historyVars
  <2>2. status'[e] = "none" => status[e] = "none"
    BY <1>9 DEF BuildSucceeds, StartDeploying, JobFails, WriteStatus, TypeOK
  <2>3. QED
    BY <1>a, <1>c, <2>1, <2>2 DEF Unpushed, Once
<1>10. CASE JobSucceeds
  <2>1. /\ UNCHANGED <<queue, current, handler, callbacks>> /\ phase' = "running"
        /\ deployed' = deployed \cup {current}
    BY <1>10 DEF JobSucceeds, requestVars
  <2>2. status'[e] = "none" => status[e] = "none"
    BY <1>10 DEF JobSucceeds, WriteStatus, TypeOK
  <2>3. (Queued(e)' <=> Queued(e)) /\ (QueuedOnce(e)' <=> QueuedOnce(e))
    BY <2>1 DEF Queued, QueuedOnce
  <2>4. QED
    BY <1>a, <2>1, <2>2, <2>3 DEF Once, Unpushed
<1>11. CASE Report
  <2>1. /\ UNCHANGED <<queue, status, handler, deployed>> /\ current' = None
        /\ phase \in {"running", "failed"} /\ Send(current, phase, notify)
        /\ current \in Deployments /\ notify \in BOOLEAN
    BY <1>11 DEF Report, requestVars, historyVars, Verdicts, TypeOK
  <2>2. callbacks'[e]["failed"] = callbacks[e]["failed"] \/ (e = current /\ phase = "failed")
    BY <1>b, <2>1, CallbackChange
  <2>3. (Queued(e)' <=> Queued(e)) /\ (QueuedOnce(e)' <=> QueuedOnce(e))
    BY <2>1 DEF Queued, QueuedOnce
  <2>4. QED
    BY <1>a, <1>b, <2>1, <2>2, <2>3 DEF Once, Unpushed
<1>12. ASSUME NEW d \in Deployments, NEW s \in CallbackStatus, callbacks[d][s] > 0,
              Received(d, s), UNCHANGED <<queue, handler, current, phase, deployed>>,
              status' = status \/ \E t \in CallbackStatus : status' = [status EXCEPT ![d] = t]
       PROVE  Once(e)'
  <2>1. \/ callbacks'[e]["failed"] = callbacks[e]["failed"]
        \/ /\ callbacks'[e]["failed"] = callbacks[e]["failed"] - 1
           /\ callbacks[e]["failed"] # 0
    <3>1. CASE e = d /\ s = "failed"
      BY <1>12, <1>b, <3>1, CallbackChange
    <3>2. CASE ~(e = d /\ s = "failed")
      BY <1>12, <1>b, <3>2, CallbackChange
    <3>3. QED
      BY <3>1, <3>2
  <2>2. status'[e] = "none" => status[e] = "none"
    BY <1>12 DEF CallbackStatus, TypeOK
  <2>3. QED
    BY <1>12, <1>a, <1>c, <2>1, <2>2 DEF Unpushed, Once
<1>13. ASSUME NEW d \in Deployments,
              CallbackHandled(d) \/ \E s \in CallbackStatus : CallbackLost(d, s)
       PROVE  Once(e)'
  BY <1>12, <1>13, Literals
  DEF CallbackHandled, CallbackBuilding, CallbackVerdict, CallbackLost, requestVars, workerVars,
      historyVars
<1>14. CASE Crash
  <2>1. /\ UNCHANGED <<queue, status, callbacks, deployed>> /\ current' = None
        /\ handler'[e] \in {"idle", handler[e]}
    BY <1>14 DEF Crash
  <2>2. (Queued(e)' <=> Queued(e)) /\ (QueuedOnce(e)' <=> QueuedOnce(e))
    BY <2>1 DEF Queued, QueuedOnce
  <2>3. (Unpushed(e)' => Unpushed(e)) /\ (status'[e] = "none" => handler'[e] = "idle")
    BY <1>a, <2>1 DEF Unpushed, Once, Enqueueing
  <2>4. current' # e
    BY <1>b, <2>1
  <2>5. QED
    BY <1>a, <2>1, <2>2, <2>3, <2>4 DEF Once
<1>15. CASE Restart \/ \E a \in Applications, s \in {"active", "stopped"} : SetAppStatus(a, s)
  BY <1>15, <1>a, <1>c DEF Restart, SetAppStatus, requestVars, workerVars, historyVars,
                           Unpushed, Once
<1>16. QED
  BY <1>1, <1>2, <1>3, <1>4, <1>5, <1>6, <1>7, <1>8, <1>9, <1>10, <1>11, <1>13, <1>14, <1>15
  DEF Next, PanelStep, HandlerStep, WorkerStep

LEMMA OnceInit == Init => OnceOnly
<1> SUFFICES ASSUME Init, NEW d \in Deployments PROVE Once(d)
  BY DEF OnceOnly
<1>1. callbacks[d]["failed"] = 0
  BY Literals DEF Init
<1>2. QED
  BY <1>1, ConstantsAssumption DEF Init, Once, QueuedOnce, Queued, Unpushed

\* One job in the queue or at the worker is at most one in the count.
LEMMA OnceCounts == TypeOK /\ OnceOnly => NoDuplicateBuild
<1> SUFFICES ASSUME TypeOK, NEW d \in Deployments, Once(d)
             PROVE  ~(JobsOf(d) > 1)
  BY DEF NoDuplicateBuild, OnceOnly
<1> DEFINE Places == {i \in DOMAIN queue : queue[i].deployment = d}
<1>1. CASE Queued(d)
  <2>1. PICK i \in DOMAIN queue : queue[i].deployment = d
    BY <1>1 DEF Queued
  <2>2. Places = {i}
    BY <2>1 DEF Once, QueuedOnce
  <2>3. Cardinality(Places) = 1
    BY <2>2, FS_Singleton
  <2>4. current # d
    BY <1>1 DEF Once
  <2>5. QED
    BY <2>3, <2>4 DEF JobsOf
<1>2. CASE ~Queued(d)
  <2>1. Places = {}
    BY <1>2 DEF Queued
  <2>2. Cardinality(Places) = 0
    BY <2>1, FS_EmptySet
  <2>3. QED
    BY <2>2 DEF JobsOf
<1>3. QED
  BY <1>1, <1>2

\* No deployment is queued or built twice at the same time, unless the panel repeated a
\* POST that had been accepted or a rollback reused the row (trigger, Rollback, BRPOP).
THEOREM BuildsAreSingle == Spec => []NoDuplicateBuild
  BY TypeInit, TypeStep, OnceInit, OnceStep, OnceCounts, PTL DEF Spec

\* What takes a row out of running.
LEMMA FinalStep ==
  ASSUME TypeOK, RunningWasDeployed, OnceOnly, [Next]_vars,
         NEW e \in Deployments, status[e] = "running", status'[e] # "running"
  PROVE  mishap'[e] \cap {"stale", "retry"} # {}
<1> SUFFICES ASSUME "retry" \notin mishap'[e] PROVE "stale" \in mishap'[e]
  OBVIOUS
<1>a. Once(e) /\ e \in deployed
  BY MishapGrows DEF OnceOnly, RunningWasDeployed
<1>b. /\ ~Unpushed(e) /\ callbacks[e]["failed"] = 0 /\ (current = e => phase = "running")
      /\ "retry" \in Reasons /\ "stale" \in Reasons
  BY <1>a DEF Once, Reasons
<1>1. ASSUME NEW d \in Deployments, NewRequest(d) PROVE FALSE
  <2>1. ~RollbackExisting(d) \/ d # e
    BY <1>b DEF RollbackExisting, Flag, TypeOK
  <2>2. QED
    BY <1>1, <2>1
    DEF NewRequest, PanelTrigger, ApiDeploy, WebhookDeploy, SelfHealDeploy, Retry, RollbackNew,
        RollbackExisting, Insert, TypeOK
<1>2. ASSUME NEW d \in Deployments,
             PanelStep(d) \/ HandlerStep(d) \/ ApiCancel(d) \/ PanelCancel(d)
      PROVE  FALSE
  BY <1>2, <1>b
  DEF PanelStep, HandlerStep, PanelAborts, PostAccepted, PostAnswerLost, PostFails, PanelGivesUp,
      Enqueue, EnqueueFails, SetDeploying, ApiCancel, PanelCancel, ActiveStatus, Unpushed, TypeOK
<1>3. ASSUME NEW d \in Deployments,
             \/ \E s \in Verdicts : CallbackVerdict(d, s)
             \/ \E s \in CallbackStatus : CallbackLost(d, s)
      PROVE  FALSE
  BY <1>3, <1>b DEF CallbackVerdict, CallbackLost, Verdicts, TypeOK
<1>4. ASSUME NEW d \in Deployments, CallbackBuilding(d) PROVE "stale" \in mishap'[e]
  <2>1. d = e
    BY <1>4 DEF CallbackBuilding, TypeOK
  <2>2. QED
    BY <1>4, <1>b, <2>1 DEF CallbackBuilding, Flag, TypeOK
<1>5. ~WorkerStep
  <2>1. ASSUME StartBuild \/ StartDeploying \/ JobFails \/ JobSucceeds PROVE FALSE
    <3>1. phase # "running" /\ phase # "idle"
      BY <2>1 DEF StartBuild, StartDeploying, JobFails, JobSucceeds
    <3>2. current # e
      BY <1>b, <3>1
    <3>3. QED
      BY <2>1, <3>2 DEF StartBuild, StartDeploying, JobFails, JobSucceeds, WriteStatus, TypeOK
  <2>2. QED
    BY <2>1 DEF WorkerStep, Dequeue, BuildSucceeds, Report
<1>6. ~(\/ Crash \/ Restart \/ UNCHANGED vars
        \/ \E a \in Applications, s \in {"active", "stopped"} : SetAppStatus(a, s))
  BY DEF Crash, Restart, vars, SetAppStatus
<1>7. QED
  BY <1>1, <1>2, <1>3, <1>4, <1>5, <1>6 DEF Next, CallbackHandled

\* A row that says running says so until a late building callback overwrites it or the
\* same row is put to work again (statusUpdate, markAsFailed, Rollback).
THEOREM RunningStays == Spec => RunningIsFinal
<1> DEFINE Stays ==
      \A d \in Deployments :
        status[d] = "running" /\ status'[d] # "running" =>
          mishap'[d] \cap {"stale", "retry"} # {}
<1>1. TypeOK /\ RunningWasDeployed /\ OnceOnly /\ [Next]_vars => [Stays]_vars
  BY FinalStep
<1>2. QED
  BY <1>1, RunningIsTrue, TypeInit, TypeStep, OnceInit, OnceStep, PTL
  DEF Spec, RunningIsFinal

-----------------------------------------------------------------------------
(***************************************************************************)
(* DeploymentLifecycle implements BuildService.  In the proofs a fact      *)
(* about Service is first put in terms of this module, one lemma for each  *)
(* action of the service.                                                  *)
(***************************************************************************)

\* The states the program starts in are those the service starts in.
LEMMA ServiceInit == Init => Service!Init
<1> SUFFICES ASSUME Init PROVE Service!Init
  OBVIOUS
<1>1. JobDeployments = <<>>
  BY DEF Init, JobDeployments
<1>2. OwedVerdicts = [d \in Deployments |-> [v \in Service!Verdict |-> 0]]
  BY Literals DEF Init, OwedVerdicts, Service!Verdict
<1>3. QED
  BY <1>1, <1>2 DEF Init, Service!Init

\* The deployments of a list of jobs, in the order of the list.
LEMMA ListOfJobs ==
  ASSUME NEW list \in Seq(Job)
  PROVE  LET ids == [i \in DOMAIN list |-> list[i].deployment]
         IN  /\ ids \in Seq(Deployments)
             /\ Len(ids) = Len(list)
             /\ \A i \in 1..Len(list) : ids[i] = list[i].deployment
<1> DEFINE ids == [i \in DOMAIN list |-> list[i].deployment]
           n == Len(list)
<1>1. n \in Nat /\ DOMAIN list = 1..n /\ \A i \in 1..n : list[i] \in Job
  OBVIOUS
<1>2. \A i \in 1..n : list[i].deployment \in Deployments
  BY <1>1 DEF Job
<1>3. ids = [i \in 1..n |-> list[i].deployment]
  BY <1>1
<1>4. ids \in [1..n -> Deployments]
  BY <1>2, <1>3
<1> HIDE DEF n
<1>5. ids \in Seq(Deployments)
  BY <1>1, <1>4
<1>6. Len(ids) = n
  BY <1>1, <1>4, <1>5
<1>7. QED
  BY <1>3, <1>5, <1>6 DEF n

\* A pushed job is accepted last.
LEMMA ServicePush ==
  ASSUME TypeOK, NEW d \in Deployments, NEW cb \in BOOLEAN, Push(d, cb)
  PROVE  JobDeployments' = Append(JobDeployments, d)
<1> DEFINE job == [deployment |-> d, callback |-> cb]
<1>1. queue \in Seq(Job) /\ job \in Job /\ queue' = Append(queue, job)
  BY DEF TypeOK, Push, Job
<1>2. /\ DOMAIN queue' = 1..(Len(queue) + 1)
      /\ \A i \in 1..Len(queue) : queue'[i] = queue[i]
      /\ queue'[Len(queue) + 1] = job
  BY <1>1
<1>3. JobDeployments \in Seq(Deployments) /\ Len(JobDeployments) = Len(queue)
  BY <1>1, ListOfJobs DEF JobDeployments
<1>4. JobDeployments' = [i \in 1..(Len(queue) + 1) |-> queue'[i].deployment]
  BY <1>2 DEF JobDeployments
<1>5. JobDeployments' \in Seq(Deployments) /\ Len(JobDeployments') = Len(queue) + 1
  <2>1. queue' \in Seq(Job) /\ Len(queue') = Len(queue) + 1
    BY <1>1
  <2>2. QED
    BY <2>1, ListOfJobs DEF JobDeployments
<1>6. \A i \in 1..(Len(queue) + 1) : JobDeployments'[i] = Append(JobDeployments, d)[i]
  BY <1>1, <1>2, <1>3, <1>4, AppendProperties DEF JobDeployments
<1>7. QED
  BY <1>3, <1>5, <1>6, AppendProperties, SeqEqual

\* The popped job is the one accepted first.
LEMMA ServicePop ==
  ASSUME TypeOK, queue # <<>>, queue' = Tail(queue)
  PROVE  /\ JobDeployments # <<>>
         /\ Head(JobDeployments) = Head(queue).deployment
         /\ JobDeployments' = Tail(JobDeployments)
<1>1. queue \in Seq(Job) /\ Len(queue) > 0
  BY DEF TypeOK
<1>2. JobDeployments \in Seq(Deployments) /\ Len(JobDeployments) = Len(queue)
  BY <1>1, ListOfJobs DEF JobDeployments
<1>3. /\ DOMAIN queue' = 1..(Len(queue) - 1)
      /\ \A i \in 1..(Len(queue) - 1) : queue'[i] = queue[i + 1]
  BY <1>1
<1>4. JobDeployments # <<>> /\ Head(JobDeployments) = Head(queue).deployment
  BY <1>1, <1>2 DEF JobDeployments
<1>5. JobDeployments' \in Seq(Deployments) /\ Len(JobDeployments') = Len(queue) - 1
  <2>1. queue' \in Seq(Job) /\ Len(queue') = Len(queue) - 1
    BY <1>1
  <2>2. QED
    BY <2>1, ListOfJobs DEF JobDeployments
<1>6. \A i \in 1..(Len(queue) - 1) : JobDeployments'[i] = Tail(JobDeployments)[i]
  <2>1. \A i \in 1..(Len(queue) - 1) : Tail(JobDeployments)[i] = JobDeployments[i + 1]
    BY <1>1, <1>2, <1>4, HeadTailProperties
  <2>2. QED
    BY <1>1, <1>3, <2>1 DEF JobDeployments
<1>7. QED
  BY <1>2, <1>4, <1>5, <1>6, HeadTailProperties, SeqEqual

\* What callbacks do to the verdicts that are owed: a sent verdict is one more, a
\* handled or lost one is one less, and building is none.
LEMMA ServiceOwed ==
  ASSUME TypeOK, NEW d \in Deployments, NEW s \in CallbackStatus
  PROVE  /\ OwedVerdicts \in [Deployments -> [Verdicts -> Nat]]
         /\ \A on \in BOOLEAN :
              Send(d, s, on) =>
                OwedVerdicts' = IF on /\ s \in Verdicts
                                  THEN [OwedVerdicts EXCEPT ![d][s] = @ + 1]
                                  ELSE OwedVerdicts
         /\ Received(d, s) =>
              OwedVerdicts' = IF s \in Verdicts THEN [OwedVerdicts EXCEPT ![d][s] = @ - 1]
                                                ELSE OwedVerdicts
<1>1. Verdicts \subseteq CallbackStatus
  BY Literals
<1>2. OwedVerdicts \in [Deployments -> [Verdicts -> Nat]]
  BY <1>1, CallbackChange DEF OwedVerdicts
<1>3. OwedVerdicts' = [e \in Deployments |-> [v \in Verdicts |-> callbacks'[e][v]]]
  BY DEF OwedVerdicts
<1>4. \A e \in Deployments, v \in Verdicts : OwedVerdicts[e][v] = callbacks[e][v]
  BY DEF OwedVerdicts
<1>5. ASSUME NEW f \in [Deployments -> [Verdicts -> Int]],
             \A e \in Deployments, v \in Verdicts : callbacks'[e][v] = f[e][v]
      PROVE  OwedVerdicts' = f
  <2>1. \A e \in Deployments : [v \in Verdicts |-> callbacks'[e][v]] = f[e]
    BY <1>5
  <2>2. QED
    BY <1>3, <2>1, <1>5
<1>6. ASSUME NEW on \in BOOLEAN, Send(d, s, on)
      PROVE  OwedVerdicts' = IF on /\ s \in Verdicts
                               THEN [OwedVerdicts EXCEPT ![d][s] = @ + 1] ELSE OwedVerdicts
  <2>1. \A e \in Deployments, v \in Verdicts :
          callbacks'[e][v] = IF on /\ e = d /\ v = s THEN callbacks[e][v] + 1
                                                     ELSE callbacks[e][v]
    BY <1>1, <1>6, CallbackChange
  <2>2. CASE on /\ s \in Verdicts
    <3> DEFINE f == [OwedVerdicts EXCEPT ![d][s] = @ + 1]
    <3>1. f \in [Deployments -> [Verdicts -> Int]]
      BY <1>2, <2>2
    <3>2. \A e \in Deployments, v \in Verdicts : callbacks'[e][v] = f[e][v]
      BY <1>2, <1>4, <2>1, <2>2
    <3>3. QED
      BY <1>5, <2>2, <3>1, <3>2
  <2>3. CASE ~(on /\ s \in Verdicts)
    BY <1>2, <1>4, <1>5, <2>1, <2>3
  <2>4. QED
    BY <2>2, <2>3
<1>7. ASSUME Received(d, s)
      PROVE  OwedVerdicts' = IF s \in Verdicts THEN [OwedVerdicts EXCEPT ![d][s] = @ - 1]
                                               ELSE OwedVerdicts
  <2>1. \A e \in Deployments, v \in Verdicts :
          callbacks'[e][v] = IF e = d /\ v = s THEN callbacks[e][v] - 1 ELSE callbacks[e][v]
    BY <1>1, <1>7, CallbackChange
  <2>2. CASE s \in Verdicts
    <3> DEFINE f == [OwedVerdicts EXCEPT ![d][s] = @ - 1]
    <3>1. f \in [Deployments -> [Verdicts -> Int]]
      BY <1>2, <2>2
    <3>2. \A e \in Deployments, v \in Verdicts : callbacks'[e][v] = f[e][v]
      BY <1>2, <1>4, <2>1, <2>2
    <3>3. QED
      BY <1>5, <2>2, <3>1, <3>2
  <2>3. CASE s \notin Verdicts
    BY <1>2, <1>4, <1>5, <2>1, <2>3
  <2>4. QED
    BY <2>2, <2>3
<1>8. QED
  BY <1>2, <1>6, <1>7

\* A step that touches none of what the service shows is none of its steps.
LEMMA ServiceStutter ==
  ASSUME UNCHANGED <<queue, current, deployed, callbacks, appStatus>>
  PROVE  UNCHANGED Service!vars
  BY DEF Service!vars, JobDeployments, OwedVerdicts

\* The requests: a pushed job is accepted, a written application status is requested.
LEMMA ServiceRequests ==
  ASSUME TypeOK, NEW d \in Deployments,
         NewRequest(d) \/ PanelStep(d) \/ HandlerStep(d) \/ ApiCancel(d) \/ PanelCancel(d)
  PROVE  [Service!Next]_(Service!vars)
<1>a. ASSUME NEW cb \in BOOLEAN, Push(d, cb),
             UNCHANGED <<current, deployed, callbacks, appStatus>>
      PROVE  Service!Next
  <2>1. Service!Accept(d)
    BY <1>a, ServicePush DEF Service!Accept, OwedVerdicts
  <2>2. QED
    BY <2>1 DEF Service!Next
<1>b. ASSUME NEW s \in {"active", "stopped", "deploying", "failed"},
             appStatus' = [appStatus EXCEPT ![AppOf[d]] = s],
             UNCHANGED <<queue, current, deployed, callbacks>>
      PROVE  Service!Next
  <2>1. Service!Request(AppOf[d])
    BY <1>b DEF Service!Request, JobDeployments, OwedVerdicts
  <2>2. QED
    BY <2>1, ConstantsAssumption DEF Service!Next
<1> USE DEF workerVars, historyVars, requestVars
<1>1. CASE PostAccepted(d) \/ PostAnswerLost(d)
  BY <1>1, <1>a DEF PostAccepted, PostAnswerLost
<1>2. CASE Enqueue(d)
  <2>1. PICK cb \in BOOLEAN : Push(d, cb)
    BY <1>2 DEF Enqueue, CallbackOf
  <2>2. QED
    BY <1>2, <1>a, <2>1 DEF Enqueue
<1>3. CASE PanelTrigger(d) \/ PanelGivesUp(d) \/ SetDeploying(d)
  BY <1>3, <1>b DEF PanelTrigger, PanelGivesUp, SetDeploying
<1>4. CASE \/ ApiDeploy(d) \/ WebhookDeploy(d) \/ SelfHealDeploy(d) \/ Retry(d)
           \/ RollbackNew(d) \/ RollbackExisting(d)
           \/ PanelAborts(d) \/ PostFails(d) \/ EnqueueFails(d) \/ PanelCancel(d)
  BY <1>4, ServiceStutter
  DEF ApiDeploy, WebhookDeploy, SelfHealDeploy, Retry, RollbackNew, RollbackExisting,
      OpenRequest, PanelAborts, PostFails, EnqueueFails, PanelCancel
<1>5. CASE ApiCancel(d)
  BY <1>5, LremKeepsQueue, ServiceStutter DEF ApiCancel
<1>6. QED
  BY <1>1, <1>2, <1>3, <1>4, <1>5 DEF NewRequest, PanelStep, HandlerStep

\* The worker begins, completes, and concludes with its verdict or without.
LEMMA ServiceWorker ==
  ASSUME TypeOK, RunningWasDeployed, WorkerStep
  PROVE  [Service!Next]_(Service!vars)
<1> USE DEF requestVars, historyVars
<1>1. CASE Dequeue
  <2>1. Service!Begin
    BY <1>1, ServicePop DEF Dequeue, TypeOK, Service!Begin, OwedVerdicts
  <2>2. QED
    BY <2>1 DEF Service!Next
<1>2. CASE StartBuild
  <2>1. current \in Deployments /\ "building" \in CallbackStatus /\ "building" \notin Verdicts
    BY <1>2, Literals DEF StartBuild, TypeOK
  <2>2. PICK on \in {notify, TRUE} : Send(current, "building", on)
    BY <1>2, Zenon DEF StartBuild
  <2>3. on \in BOOLEAN
    BY <2>2, Zenon DEF TypeOK
  <2>4. UNCHANGED OwedVerdicts
    BY <2>1, <2>2, <2>3, ServiceOwed
  <2>5. QED
    BY <1>2, <2>4 DEF StartBuild, Service!vars, JobDeployments
<1>3. CASE BuildSucceeds \/ StartDeploying \/ JobFails
  BY <1>3, ServiceStutter DEF BuildSucceeds, StartDeploying, JobFails
<1>4. CASE JobSucceeds
  <2>1. current # None
    BY <1>4, ConstantsAssumption DEF JobSucceeds, TypeOK
  <2>2. Service!Complete
    BY <1>4, <2>1 DEF JobSucceeds, Service!Complete, JobDeployments, OwedVerdicts
  <2>3. QED
    BY <2>2 DEF Service!Next
<1>5. CASE Report
  <2>1. /\ current \in Deployments /\ current # None
        /\ phase \in Verdicts /\ phase \in CallbackStatus /\ notify \in BOOLEAN
    BY <1>5, Literals, ConstantsAssumption DEF Report, TypeOK
  <2>2. Send(current, phase, notify)
    BY <1>5 DEF Report
  <2>3. current' = None /\ UNCHANGED <<JobDeployments, deployed, appStatus>>
    BY <1>5 DEF Report, JobDeployments
  <2>4. CASE notify
    <3>1. OwedVerdicts' = [OwedVerdicts EXCEPT ![current][phase] = @ + 1]
      BY <2>1, <2>2, <2>4, ServiceOwed
    <3>2. phase = "running" => current \in deployed
      BY <2>1 DEF RunningWasDeployed
    <3>3. Service!Conclude(phase)
      BY <2>1, <2>3, <3>1, <3>2 DEF Service!Conclude
    <3>4. phase \in Service!Verdict
      BY <2>1 DEF Verdicts, Service!Verdict
    <3>5. QED
      BY <3>3, <3>4 DEF Service!Next
  <2>5. CASE ~notify
    <3>1. UNCHANGED OwedVerdicts
      BY <2>1, <2>2, <2>5, ServiceOwed
    <3>2. Service!Abandon
      BY <2>1, <2>3, <3>1 DEF Service!Abandon
    <3>3. QED
      BY <3>2 DEF Service!Next
  <2>6. QED
    BY <2>4, <2>5
<1>6. QED
  BY <1>1, <1>2, <1>3, <1>4, <1>5 DEF WorkerStep

\* A callback that is handled tells the verdict, one that is lost loses it.
LEMMA ServiceCallbacks ==
  ASSUME TypeOK, NEW d \in Deployments,
         CallbackHandled(d) \/ \E s \in CallbackStatus : CallbackLost(d, s)
  PROVE  [Service!Next]_(Service!vars)
<1>a. Verdicts \subseteq CallbackStatus /\ Verdicts = Service!Verdict
      /\ "building" \in CallbackStatus /\ "building" \notin Verdicts
  BY Literals DEF Service!Verdict, Verdicts
<1> USE DEF requestVars, workerVars, historyVars
<1>b. ASSUME NEW s \in Verdicts, callbacks[d][s] > 0, Received(d, s),
             UNCHANGED <<queue, current, deployed>>
      PROVE  Service!Settle(d, s)
  <2>1. OwedVerdicts' = [OwedVerdicts EXCEPT ![d][s] = @ - 1]
    BY <1>a, <1>b, ServiceOwed
  <2>2. OwedVerdicts[d][s] > 0
    BY <1>b DEF OwedVerdicts
  <2>3. QED
    BY <1>b, <2>1, <2>2 DEF Service!Settle, JobDeployments
<1>1. ASSUME NEW s \in Verdicts, CallbackVerdict(d, s)
      PROVE  Service!Next
  <2>1. Service!Tell(d, s)
    BY <1>b, <1>1 DEF CallbackVerdict, Service!Tell
  <2>2. QED
    BY <1>a, <2>1 DEF Service!Next
<1>2. ASSUME NEW s \in Verdicts, CallbackLost(d, s)
      PROVE  Service!Next
  <2>1. Service!Lose(d, s)
    BY <1>b, <1>2 DEF CallbackLost, Service!Lose
  <2>2. QED
    BY <1>a, <2>1 DEF Service!Next
<1>3. CASE CallbackBuilding(d) \/ CallbackLost(d, "building")
  <2>1. UNCHANGED OwedVerdicts
    BY <1>3, <1>a, ServiceOwed DEF CallbackBuilding, CallbackLost
  <2>2. QED
    BY <1>3, <2>1 DEF CallbackBuilding, CallbackLost, Service!vars, JobDeployments
<1>4. QED
  BY <1>1, <1>2, <1>3 DEF CallbackHandled, CallbackStatus, Verdicts

\* A crash abandons the job that was worked on, if there was one.
LEMMA ServiceCrash ==
  ASSUME TypeOK, Crash
  PROVE  [Service!Next]_(Service!vars)
<1>1. current' = None /\ UNCHANGED <<JobDeployments, deployed, OwedVerdicts, appStatus>>
  BY DEF Crash, JobDeployments, OwedVerdicts
<1>2. CASE current = None
  BY <1>1, <1>2 DEF Service!vars
<1>3. CASE current # None
  BY <1>1, <1>3 DEF Service!Abandon, Service!Next
<1>4. QED
  BY <1>2, <1>3

\* Every step of the program is a step of the service or leaves it alone.
LEMMA ServiceStep ==
  TypeOK /\ RunningWasDeployed /\ [Next]_vars => [Service!Next]_(Service!vars)
<1> SUFFICES ASSUME TypeOK, RunningWasDeployed, [Next]_vars
             PROVE  [Service!Next]_(Service!vars)
  OBVIOUS
<1>1. CASE UNCHANGED vars
  BY <1>1, ServiceStutter DEF vars
<1>2. ASSUME NEW a \in Applications, NEW s \in {"active", "stopped"}, SetAppStatus(a, s)
      PROVE  [Service!Next]_(Service!vars)
  <2>1. Service!Request(a)
    BY <1>2 DEF SetAppStatus, Service!Request, JobDeployments, OwedVerdicts, workerVars,
                historyVars
  <2>2. QED
    BY <2>1 DEF Service!Next
<1>3. CASE Restart
  BY <1>3, ServiceStutter DEF Restart, workerVars, historyVars
<1>4. QED
  BY <1>1, <1>2, <1>3, ServiceRequests, ServiceWorker, ServiceCallbacks, ServiceCrash DEF Next

\* For every set of deployments, every kind of request and every failure the program
\* is the build service: jobs are begun one at a time in the order they were accepted,
\* whatever is cancelled, retried or repeated; a verdict is told only if the work
\* reached it, success only of work brought to its end, and never twice.
THEOREM ServiceImplemented == Spec => ServiceIsKept
<1>1. Init => RunningWasDeployed
  BY Literals DEF Init, RunningWasDeployed
<1>2. QED
  BY <1>1, TypeInit, TypeStep, RunningStep, ServiceInit, ServiceStep, PTL
  DEF Spec, ServiceIsKept, Service!Spec
=============================================================================
