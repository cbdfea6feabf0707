---------------------------- MODULE RollingDeploy ----------------------------
(***************************************************************************)
(* The replicas of one application: rows of the table containers, the      *)
(* containers the agents run, and the backends of the Traefik file.  They  *)
(* are changed, without any lock between them, by                          *)
(*                                                                         *)
(*   - the build worker, in deployContainers;                              *)
(*   - the 30 s ticker, which checks every container and reconciles the    *)
(*     number of replicas of an active application;                        *)
(*   - the API handlers Scale, Stop, Restart and Delete of an application  *)
(*     and stop and delete of one container, which call the same reconcile;*)
(*   - WatchChanges, which rewrites the file when it sees newer rows.      *)
(*                                                                         *)
(* What is abstracted: an application has one job per deployment and its   *)
(* rows have no names or ports; a server always has room; a removal that   *)
(* follows a stop is part of it, for it is forced; reading the rows and    *)
(* writing the file is one step of GenerateConfig, which holds a mutex.    *)
(* Two calls that cannot succeed are left out: the status callback of a    *)
(* container, whose UPDATE sets the NOT NULL column cpu_usage to null, and *)
(* the direct creation of missing replicas, which needs an image name that *)
(* no code writes to deployments.                                          *)
(***************************************************************************)
EXTENDS Naturals, Sequences, FiniteSets

CONSTANTS
  MaxDeployments,  \* bound: jobs that this instance lets happen
  MaxReplicas,     \* bound: replicas of the application and of a job
  Handlers,        \* API requests that may be open at the same time
  None,            \* no container
  Operations,      \* what users and hooks do in this instance
  Faults           \* what goes wrong in it

AllOperations == {"deploy", "hook", "stop", "scale", "stopOne", "restart", "remove", "delete",
                  "tick", "watch"}
AllFaults == {"agent", "create", "unready", "docker", "db", "callback", "crash"}

\* The container of a replica of a deployment, created in this order.
Containers == (1..MaxDeployments) \X (0..MaxReplicas - 1)
DeploymentOf(c) == c[1]
ReplicaIndex(c) == c[2]

ASSUME RollingAssumption ==
  /\ MaxDeployments \in Nat
  /\ MaxReplicas \in Nat \ {0}
  /\ Handlers \cap {"worker", "ticker"} = {}
  /\ None \notin Containers
  /\ Operations \subseteq AllOperations
  /\ Faults \subseteq AllFaults

Processes == {"worker", "ticker"} \cup Handlers

VARIABLES
  appStatus,   \* applications.status, "deleted" when the row is gone
  replicas,    \* applications.replicas
  row,         \* containers.status, "none" while there is no row
  health,      \* containers.health_status
  docker,      \* what the agent's Docker has
  route,       \* the backends in app-<id>.yml, {} when there is no file
  dirty,       \* some row is newer than applications.traefik_config_updated_at
  watch,       \* where WatchChanges stands
  unseen,      \* history: the rows changed where WatchChanges cannot see it
  queue,       \* replicas asked by the jobs that wait
  deployment,  \* the deployment the worker works on, or worked on last
  rolling,     \* there were running rows of others when it began
  want,        \* the replicas of its job
  made,        \* how many of them it has created
  seen,        \* how many were healthy in this attempt of waitForContainersHealthy
  verdicts,    \* deployment callbacks on their way to the panel
  pc,          \* where each process stands
  list,        \* the rows it has read and still has to handle
  hand,        \* the container it has stopped or created and not written yet
  number,      \* the replicas it has read, then the number to remove
  op,          \* the request of a handler
  remaining,   \* the containers of that request that are still to come
  late,        \* history: containers saved since a Stop or Delete read its list
  check,       \* result of a health check on its way to the row
  blamed       \* history: containers for which a call failed or was cut off

appVars == <<appStatus, replicas>>
rowVars == <<row, health>>
proxyVars == <<route, dirty, watch, unseen>>
jobVars == <<queue, deployment, rolling, want, made, seen, verdicts>>
processVars == <<pc, list, hand, number>>
requestVars == <<op, remaining, late>>
vars == <<appVars, rowVars, docker, proxyVars, jobVars, processVars, requestVars,
          check, blamed>>

-----------------------------------------------------------------------------
DockerState == {"none", "up", "exited", "stopped"}
Live(c) == docker[c] \in {"up", "exited"}

Loops == {"cleanup", "sweep", "shrink", "zero"}
ReconcilePc == {"load", "sick", "sweep", "count", "excess", "shrink", "reroute",
                "zero", "unroute", "heal"}
WorkerPc == {"idle", "create", "save", "wait", "cleanup", "promote", "route",
             "ensure", "expect", "verify", "running", "failed"}
HandlerPc == {"idle", "scaleStatus", "stopList", "stopNext", "stopMark",
              "restartList", "restartNext", "removeNext", "removeMark", "erase"}
               \cup ReconcilePc
\* Delete of an application, as long as no stop has failed, and after one has.
Deleting == {"delete", "deleteFailed"}
PcOf(p) == CASE p = "worker" -> WorkerPc
             [] p = "ticker" -> {"idle"} \cup ReconcilePc
             [] OTHER -> HandlerPc

TypeOK ==
  /\ appStatus \in {"active", "stopped", "deploying", "failed", "deleted"}
  /\ replicas \in 0..MaxReplicas
  /\ row \in [Containers -> {"none", "running", "stopped"}]
  /\ health \in [Containers -> {"healthy", "unhealthy"}]
  /\ docker \in [Containers -> DockerState]
  /\ route \subseteq Containers
  /\ dirty \in BOOLEAN /\ rolling \in BOOLEAN /\ unseen \in BOOLEAN
  /\ watch \in {"idle", "stamp"}
  /\ queue \in Seq(1..MaxReplicas)
  /\ deployment \in 0..MaxDeployments
  /\ want \in 0..MaxReplicas /\ made \in 0..want /\ seen \in 0..want
  /\ verdicts \subseteq (1..MaxDeployments) \X {"running", "failed"}
  /\ pc \in [Processes -> WorkerPc \cup HandlerPc]
  /\ \A p \in Processes : pc[p] \in PcOf(p)
  /\ list \in [Processes -> SUBSET Containers]
  /\ hand \in [Processes -> Containers \cup {None}]
  /\ number \in [Processes -> Nat]
  /\ op \in [Handlers -> {"none", "stop", "stopOne", "scale", "restart", "remove"}
                          \cup Deleting]
  /\ remaining \in [Handlers -> SUBSET Containers]
  /\ late \in [Handlers -> SUBSET Containers]
  /\ check \in [Containers -> {"none", "healthy", "unhealthy"}]
  /\ blamed \subseteq Containers

Init ==
  /\ appStatus = "stopped" /\ replicas = 1
  /\ row = [c \in Containers |-> "none"]
  /\ health = [c \in Containers |-> "healthy"]
  /\ docker = [c \in Containers |-> "none"]
  /\ route = {} /\ dirty = FALSE /\ watch = "idle" /\ unseen = FALSE
  /\ queue = <<>> /\ deployment = 0 /\ rolling = FALSE /\ want = 0 /\ made = 0 /\ seen = 0
  /\ verdicts = {}
  /\ pc = [p \in Processes |-> "idle"]
  /\ list = [p \in Processes |-> {}]
  /\ hand = [p \in Processes |-> None]
  /\ number = [p \in Processes |-> 0]
  /\ op = [h \in Handlers |-> "none"]
  /\ remaining = [h \in Handlers |-> {}]
  /\ late = [h \in Handlers |-> {}]
  /\ check = [c \in Containers |-> "none"]
  /\ blamed = {}

-----------------------------------------------------------------------------
(***************************************************************************)
(* Helpers.                                                                *)
(***************************************************************************)
Running == {c \in Containers : row[c] = "running"}
Unhealthy == {c \in Running : health[c] = "unhealthy"}
Backends == {c \in Running : health[c] = "healthy"}

Goto(p, label) == pc' = [pc EXCEPT ![p] = label]

\* Every statement on containers sets updated_at; WatchChanges, between its query
\* and its timestamp, does not see it.
Touch == dirty' = TRUE /\ unseen' = (unseen \/ watch = "stamp") /\ UNCHANGED <<route, watch>>

\* UPDATE containers SET status = 'stopped', of a row that may be gone.
WriteStopped(c) ==
  IF row[c] = "none" THEN UNCHANGED <<row, proxyVars>>
                     ELSE row' = [row EXCEPT ![c] = "stopped"] /\ Touch

\* GenerateConfig: the file names the healthy running rows, and goes if there is none.
Generate == route' = Backends /\ unseen' = FALSE

\* RemoveConfig.
RemoveFile == route' = {} /\ unseen' = (Backends # {}) /\ UNCHANGED <<dirty, watch>>

\* ORDER BY replica_index DESC, created_at DESC.
Before(c, x) ==
  \/ ReplicaIndex(c) > ReplicaIndex(x)
  \/ ReplicaIndex(c) = ReplicaIndex(x) /\ DeploymentOf(c) > DeploymentOf(x)

First(n, S) == {c \in S : Cardinality({x \in S : Before(x, c)}) < n}

\* replicas <= 0 becomes 1 when the job is worked on.
Enqueue(n) == queue' = Append(queue, IF n = 0 THEN 1 ELSE n)
RoomForJob == deployment + Len(queue) < MaxDeployments

-----------------------------------------------------------------------------
(***************************************************************************)
(* Deployments are asked for, and end.                                     *)
(***************************************************************************)
\* DeploymentService.trigger.
Deploy ==
  /\ "deploy" \in Operations /\ RoomForJob /\ appStatus # "deleted"
  /\ appStatus' = "deploying"
  /\ Enqueue(replicas)
  /\ UNCHANGED <<replicas, rowVars, docker, proxyVars, deployment, rolling, want, made, seen,
                 verdicts, processVars, requestVars, check, blamed>>

\* The API's deploy and the webhooks leave the application's status alone.
HookDeploy ==
  /\ "hook" \in Operations /\ RoomForJob /\ appStatus # "deleted"
  /\ Enqueue(replicas)
  /\ UNCHANGED <<appVars, rowVars, docker, proxyVars, deployment, rolling, want, made, seen,
                 verdicts, processVars, requestVars, check, blamed>>

\* The panel's callback: markAsRunning or markAsFailed on the application, which
\* answers 404 when the deployment went with its application.
Verdict(v) ==
  /\ v \in verdicts
  /\ verdicts' = verdicts \ {v}
  /\ IF appStatus = "deleted"
       THEN UNCHANGED appStatus
       ELSE appStatus' = IF v[2] = "running" THEN "active" ELSE "failed"
  /\ UNCHANGED <<replicas, rowVars, docker, proxyVars, queue, deployment, rolling, want, made,
                 seen, processVars, requestVars, check, blamed>>

VerdictLost(v) ==
  /\ "callback" \in Faults
  /\ v \in verdicts
  /\ verdicts' = verdicts \ {v}
  /\ UNCHANGED <<appVars, rowVars, docker, proxyVars, queue, deployment, rolling, want, made,
                 seen, processVars, requestVars, check, blamed>>

-----------------------------------------------------------------------------
(***************************************************************************)
(* The loops that stop containers: cleanupOldContainers,                   *)
(* cleanupUnhealthyReplicas, scaleApplicationDown, scaleApplicationToZero. *)
(***************************************************************************)
NextInLoop(p) ==
  {c \in list[p] : pc[p] = "shrink" => \A x \in list[p] : ~Before(x, c)}

Looping(p) == pc[p] \in Loops /\ hand[p] = None

\* Mutant: a container whose stop fails is left alone and its row written anyway.
TakeDownForgets(p) ==
  /\ Looping(p)
  /\ \E c \in NextInLoop(p) :
       /\ hand' = [hand EXCEPT ![p] = c]
       /\ list' = [list EXCEPT ![p] = @ \ {c}]
  /\ UNCHANGED <<appVars, rowVars, docker, proxyVars, jobVars, pc, number, requestVars,
                 check, blamed>>

\* StopContainer and RemoveContainer on the agent.  The client looks at the error
\* of the call and not at Success in the answer.
TakeDown(p) ==
  /\ Looping(p)
  /\ \E c \in NextInLoop(p) :
       /\ \/ docker' = [docker EXCEPT ![c] = "none"] /\ UNCHANGED blamed
          \/ "agent" \in Faults /\ blamed' = blamed \cup {c} /\ UNCHANGED docker
       /\ hand' = [hand EXCEPT ![p] = c]
       /\ list' = [list EXCEPT ![p] = @ \ {c}]
  /\ UNCHANGED <<appVars, rowVars, proxyVars, jobVars, pc, number, requestVars, check>>

\* getAgentClient fails: the cleanups go on with the next container.
SkipContainer(p) ==
  /\ "agent" \in Faults
  /\ Looping(p) /\ pc[p] \in {"cleanup", "sweep"}
  /\ \E c \in list[p] :
       /\ list' = [list EXCEPT ![p] = @ \ {c}]
       /\ blamed' = blamed \cup {c}
  /\ UNCHANGED <<appVars, rowVars, docker, proxyVars, jobVars, pc, hand, number,
                 requestVars, check>>

\* Mutant: the row of a container that was taken down is not written.
MarkStoppedSkipped(p) ==
  /\ pc[p] \in Loops /\ hand[p] # None
  /\ hand' = [hand EXCEPT ![p] = None]
  /\ UNCHANGED <<appVars, rowVars, docker, proxyVars, jobVars, pc, list, number,
                 requestVars, check, blamed>>

\* Mutant: the statement leaves updated_at alone.
MarkStoppedUntouched(p) ==
  /\ pc[p] \in Loops /\ hand[p] # None
  /\ row' = [row EXCEPT ![hand[p]] = "stopped"]
  /\ hand' = [hand EXCEPT ![p] = None]
  /\ UNCHANGED <<appVars, health, docker, proxyVars, jobVars, pc, list, number,
                 requestVars, check, blamed>>

\* UPDATE containers SET status = 'stopped'.
MarkStopped(p) ==
  /\ pc[p] \in Loops /\ hand[p] # None
  /\ \/ WriteStopped(hand[p]) /\ UNCHANGED blamed
     \/ /\ "db" \in Faults /\ pc[p] \in {"cleanup", "sweep"}
        /\ blamed' = blamed \cup {hand[p]}
        /\ UNCHANGED <<row, proxyVars>>
  /\ hand' = [hand EXCEPT ![p] = None]
  /\ UNCHANGED <<appVars, health, docker, jobVars, pc, list, number, requestVars, check>>

LoopEnds(p) ==
  /\ Looping(p) /\ list[p] = {}
  /\ Goto(p, CASE pc[p] = "cleanup" -> "promote"
               [] pc[p] = "sweep" -> "count"
               [] pc[p] = "shrink" -> "reroute"
               [] pc[p] = "zero" -> "unroute")
  /\ UNCHANGED <<appVars, rowVars, docker, proxyVars, jobVars, list, hand, number,
                 requestVars, check, blamed>>

-----------------------------------------------------------------------------
(***************************************************************************)
(* The worker: deployContainers for the job it popped.                     *)
(***************************************************************************)
Own(i) == <<deployment, i>>

\* The job is popped and the build has ended well; a failed build changes nothing
\* here but the verdict, and DeployFails covers it.
TakeJob ==
  /\ pc["worker"] = "idle" /\ queue # <<>>
  /\ deployment' = deployment + 1
  /\ rolling' = (Running # {})
  /\ want' = Head(queue) /\ made' = 0 /\ seen' = 0
  /\ queue' = Tail(queue)
  /\ Goto("worker", "create")
  /\ UNCHANGED <<appVars, rowVars, docker, proxyVars, verdicts, list, hand, number,
                 requestVars, check, blamed>>

\* Mutant: the loop over the replicas runs once too often.
CreateContainerOnceMore ==
  /\ pc["worker"] = "create" /\ made <= want
  /\ docker' = [docker EXCEPT ![Own(made)] = "up"]
  /\ hand' = [hand EXCEPT !["worker"] = Own(made)]
  /\ Goto("worker", "save")
  /\ UNCHANGED <<appVars, rowVars, proxyVars, jobVars, list, number, requestVars, check,
                 blamed>>

\* SelectServer, PullImage and CreateContainer, which also starts it.
CreateContainer ==
  /\ pc["worker"] = "create" /\ made < want
  /\ docker' = [docker EXCEPT ![Own(made)] = "up"]
  /\ hand' = [hand EXCEPT !["worker"] = Own(made)]
  /\ Goto("worker", "save")
  /\ UNCHANGED <<appVars, rowVars, proxyVars, jobVars, list, number, requestVars, check,
                 blamed>>

\* The requests that have read the containers they stop or delete.
Ending == {h \in Handlers : op[h] \in {"stop"} \cup Deleting
                              /\ pc[h] \notin {"scaleStatus", "stopList"}}

\* The row says running and healthy from the start; an error is only logged, that
\* of an application that is gone as well.
SaveContainer ==
  /\ pc["worker"] = "save"
  /\ \/ /\ appStatus # "deleted"
        /\ row' = [row EXCEPT ![hand["worker"]] = "running"]
        /\ health' = [health EXCEPT ![hand["worker"]] = "healthy"]
        /\ Touch /\ UNCHANGED blamed
     \/ /\ "db" \in Faults \/ appStatus = "deleted"
        /\ blamed' = blamed \cup {hand["worker"]}
        /\ UNCHANGED <<rowVars, proxyVars>>
  /\ late' = [h \in Handlers |-> IF h \in Ending THEN late[h] \cup {hand["worker"]}
                                                ELSE late[h]]
  /\ made' = made + 1
  /\ hand' = [hand EXCEPT !["worker"] = None]
  /\ Goto("worker", "create")
  /\ UNCHANGED <<appVars, docker, queue, deployment, rolling, want, seen, verdicts, list, number,
                 op, remaining, check>>

AllCreated ==
  /\ pc["worker"] = "create" /\ made = want
  /\ Goto("worker", "wait")
  /\ UNCHANGED <<appVars, rowVars, docker, proxyVars, jobVars, list, hand, number,
                 requestVars, check, blamed>>

\* One container of one attempt; a bad answer spoils the attempt and the next one
\* starts over.
CheckNew ==
  /\ pc["worker"] = "wait" /\ seen < want
  /\ \/ docker[Own(seen)] = "up" /\ seen' = seen + 1
     \/ (docker[Own(seen)] # "up" \/ "unready" \in Faults) /\ seen' = 0
  /\ UNCHANGED <<appVars, rowVars, docker, proxyVars, queue, deployment, rolling, want, made,
                 verdicts, processVars, requestVars, check, blamed>>

\* Mutant: as many old rows as the job has replicas.
ListOldLimited ==
  /\ pc["worker"] = "wait" /\ seen = want
  /\ list' = [list EXCEPT !["worker"] =
                First(want, {c \in Running : DeploymentOf(c) # deployment})]
  /\ Goto("worker", "cleanup")
  /\ UNCHANGED <<appVars, rowVars, docker, proxyVars, jobVars, hand, number, requestVars,
                 check, blamed>>

\* Mutant: one healthy replica is enough.
ListOldEarly ==
  /\ pc["worker"] = "wait" /\ seen > 0
  /\ list' = [list EXCEPT !["worker"] = {c \in Running : DeploymentOf(c) # deployment}]
  /\ Goto("worker", "cleanup")
  /\ UNCHANGED <<appVars, rowVars, docker, proxyVars, jobVars, hand, number, requestVars,
                 check, blamed>>

\* All answers of one attempt were good: cleanupOldContainers reads the old rows.
ListOld ==
  /\ pc["worker"] = "wait" /\ seen = want
  /\ list' = [list EXCEPT !["worker"] = {c \in Running : DeploymentOf(c) # deployment}]
  /\ Goto("worker", "cleanup")
  /\ UNCHANGED <<appVars, rowVars, docker, proxyVars, jobVars, hand, number, requestVars,
                 check, blamed>>

\* promoteDeploymentContainerNames: rows that were created beside old ones get
\* their final name, and a new updated_at.
Promote ==
  /\ pc["worker"] = "promote"
  /\ IF rolling /\ \E c \in Running : DeploymentOf(c) = deployment
       THEN Touch ELSE UNCHANGED proxyVars
  /\ Goto("worker", "route")
  /\ UNCHANGED <<appVars, rowVars, docker, jobVars, list, hand, number, requestVars, check,
                 blamed>>

\* updateTraefikConfig, then once more in ensureTraefikRoutesForDeployment.
RefreshRoute ==
  /\ pc["worker"] \in {"route", "ensure"} /\ appStatus # "deleted"
  /\ Generate
  /\ Goto("worker", IF pc["worker"] = "route" THEN "ensure" ELSE "expect")
  /\ UNCHANGED <<appVars, rowVars, docker, dirty, watch, jobVars, list, hand, number,
                 requestVars, check, blamed>>

\* getDeploymentBackendURLs.
ExpectBackends ==
  /\ pc["worker"] = "expect"
  /\ list' = [list EXCEPT !["worker"] = {c \in Backends : DeploymentOf(c) = deployment}]
  /\ Goto("worker", IF list'["worker"] = {} THEN "failed" ELSE "verify")
  /\ UNCHANGED <<appVars, rowVars, docker, proxyVars, jobVars, hand, number, requestVars,
                 check, blamed>>

\* readTraefikBackendURLs and sameStringSet.
VerifyRoute ==
  /\ pc["worker"] = "verify"
  /\ Goto("worker", IF route = list["worker"] THEN "running" ELSE "failed")
  /\ list' = [list EXCEPT !["worker"] = {}]
  /\ UNCHANGED <<appVars, rowVars, docker, proxyVars, jobVars, hand, number, requestVars,
                 check, blamed>>

\* No server, no agent, no image or no healthy replica; a statement fails after the
\* cleanup, or there is no application to make routes of.  What was created stays, with its rows.
DeployFails ==
  /\ \/ pc["worker"] = "create" /\ "create" \in Faults
     \/ /\ pc["worker"] = "wait"
        /\ "unready" \in Faults \/ \E i \in 0..want - 1 : docker[Own(i)] # "up"
     \/ pc["worker"] \in {"promote", "route", "ensure", "expect"} /\ "db" \in Faults
     \/ pc["worker"] \in {"route", "ensure"} /\ appStatus = "deleted"
  /\ Goto("worker", "failed")
  /\ UNCHANGED <<appVars, rowVars, docker, proxyVars, jobVars, list, hand, number,
                 requestVars, check, blamed>>

\* The verdict; a job without callback URL sends none.
Report ==
  /\ pc["worker"] \in {"running", "failed"}
  /\ verdicts' \in {verdicts, verdicts \cup {<<deployment, pc["worker"]>>}}
  /\ Goto("worker", "idle")
  /\ UNCHANGED <<appVars, rowVars, docker, proxyVars, queue, deployment, rolling, want, made, seen,
                 list, hand, number, requestVars, check, blamed>>

-----------------------------------------------------------------------------
(***************************************************************************)
(* reconcileApplicationReplicas, run by the ticker and by handlers.        *)
(***************************************************************************)
Return(p) == IF p \in Handlers /\ op[p] \in {"stop", "stopOne"} \cup Deleting THEN "stopNext" ELSE "idle"

StartTick ==
  /\ "tick" \in Operations
  /\ pc["ticker"] = "idle"
  /\ Goto("ticker", "load")
  /\ UNCHANGED <<appVars, rowVars, docker, proxyVars, jobVars, list, hand, number,
                 requestVars, check, blamed>>

\* SELECT status, replicas FROM applications.
LoadApplication(p) ==
  /\ pc[p] = "load" /\ appStatus # "deleted"
  /\ \/ appStatus # "active" /\ Goto(p, Return(p)) /\ UNCHANGED <<list, number>>
     \/ /\ appStatus = "active" /\ replicas = 0
        /\ Goto(p, "zero")
        /\ list' = [list EXCEPT ![p] = Running]
        /\ UNCHANGED number
     \/ /\ appStatus = "active" /\ replicas > 0
        /\ Goto(p, "sick")
        /\ number' = [number EXCEPT ![p] = replicas]
        /\ UNCHANGED list
  /\ UNCHANGED <<appVars, rowVars, docker, proxyVars, jobVars, hand, requestVars, check,
                 blamed>>

\* Mutant: cleanupUnhealthyReplicas looks for stopped rows.
ListUnhealthyStopped(p) ==
  /\ pc[p] = "sick"
  /\ list' = [list EXCEPT ![p] =
                {c \in Containers : row[c] = "stopped" /\ health[c] = "unhealthy"}]
  /\ Goto(p, "sweep")
  /\ UNCHANGED <<appVars, rowVars, docker, proxyVars, jobVars, hand, number, requestVars,
                 check, blamed>>

\* cleanupUnhealthyReplicas reads its rows.
ListUnhealthy(p) ==
  /\ pc[p] = "sick"
  /\ list' = [list EXCEPT ![p] = Unhealthy]
  /\ Goto(p, "sweep")
  /\ UNCHANGED <<appVars, rowVars, docker, proxyVars, jobVars, hand, number, requestVars,
                 check, blamed>>

\* Mutant: one replica too many is let go.
CountReplicasOffByOne(p) ==
  /\ pc[p] = "count"
  /\ LET running == Cardinality(Backends)
     IN \/ /\ running > number[p] + 1
           /\ number' = [number EXCEPT ![p] = running - @]
           /\ Goto(p, "excess")
        \/ /\ running <= number[p] + 1
           /\ number' = [number EXCEPT ![p] = 0]
           /\ Goto(p, IF running >= number[p] THEN Return(p) ELSE "heal")
  /\ UNCHANGED <<appVars, rowVars, docker, proxyVars, jobVars, list, hand, requestVars,
                 check, blamed>>

\* SELECT COUNT(*): too many, too few, or as many as were read in LoadApplication.
CountReplicas(p) ==
  /\ pc[p] = "count"
  /\ LET running == Cardinality(Backends)
     IN \/ /\ running > number[p]
           /\ number' = [number EXCEPT ![p] = running - @]
           /\ Goto(p, "excess")
        \/ /\ running <= number[p]
           /\ number' = [number EXCEPT ![p] = 0]
           /\ Goto(p, IF running = number[p] THEN Return(p) ELSE "heal")
  /\ UNCHANGED <<appVars, rowVars, docker, proxyVars, jobVars, list, hand, requestVars,
                 check, blamed>>

\* scaleApplicationDown reads its candidates again and takes the first ones.
ListExcess(p) ==
  /\ pc[p] = "excess"
  /\ list' = [list EXCEPT ![p] = First(number[p], Backends)]
  /\ number' = [number EXCEPT ![p] = 0]
  /\ Goto(p, "shrink")
  /\ UNCHANGED <<appVars, rowVars, docker, proxyVars, jobVars, hand, requestVars, check,
                 blamed>>

Reroute(p) ==
  /\ pc[p] = "reroute"
  /\ IF appStatus = "deleted" THEN UNCHANGED <<route, unseen>> ELSE Generate
  /\ Goto(p, Return(p))
  /\ UNCHANGED <<appVars, rowVars, docker, dirty, watch, jobVars, list, hand, number,
                 requestVars, check, blamed>>

Unroute(p) ==
  /\ pc[p] = "unroute" /\ RemoveFile
  /\ Goto(p, Return(p))
  /\ UNCHANGED <<appVars, rowVars, docker, jobVars, list, hand, number, requestVars,
                 check, blamed>>

\* enqueueSelfHealDeployment, which asks nobody whether one is queued already.
SelfHeal(p) ==
  /\ pc[p] = "heal"
  /\ RoomForJob /\ appStatus # "deleted"
  /\ Enqueue(replicas)
  /\ Goto(p, Return(p))
  /\ UNCHANGED <<appVars, rowVars, docker, proxyVars, deployment, rolling, want, made, seen,
                 verdicts, list, hand, number, requestVars, check, blamed>>

\* A request takes the rows it has read in the order of their index.
NextRemaining(h) ==
  {c \in remaining[h] : \A x \in remaining[h] : ReplicaIndex(c) <= ReplicaIndex(x)}

CloseRequest(p) ==
  /\ op' = [h \in Handlers |-> IF h = p THEN "none" ELSE op[h]]
  /\ remaining' = [h \in Handlers |-> IF h = p THEN {} ELSE remaining[h]]
  /\ late' = [h \in Handlers |-> IF h = p THEN {} ELSE late[h]]

\* The row a process is about to read or to stop by is gone.
RowGone(p) ==
  \/ pc[p] = "load" /\ appStatus = "deleted"
  \/ p \in Handlers /\ pc[p] = "stopNext" /\ \E c \in NextRemaining(p) : row[c] = "none"

\* fetchAppFromPanel or the push fails, and a handler answers with the error.
SelfHealFails(p) ==
  /\ pc[p] = "heal" /\ (p \in Handlers => op[p] \notin Deleting)
  /\ Goto(p, "idle")
  /\ CloseRequest(p)
  /\ UNCHANGED <<appVars, rowVars, docker, proxyVars, jobVars, list, hand, number, check,
                 blamed>>

\* A call or statement fails, or the context ends (45 s for the ticker, the
\* client's patience for a handler): the process stops where it is.
BreakOff(p) ==
  /\ p # "worker" /\ pc[p] # "idle"
  /\ \/ Faults \cap {"agent", "db"} # {}
     \/ RowGone(p) /\ (p \in Handlers => op[p] \notin Deleting)
  /\ blamed' = blamed \cup ({hand[p]} \ {None})
  /\ hand' = [hand EXCEPT ![p] = None]
  /\ list' = [list EXCEPT ![p] = {}]
  /\ number' = [number EXCEPT ![p] = 0]
  /\ Goto(p, "idle")
  /\ CloseRequest(p)
  /\ UNCHANGED <<appVars, rowVars, docker, proxyVars, jobVars, check>>

-----------------------------------------------------------------------------
(***************************************************************************)
(* The API handlers Stop, Scale, Restart and stop of one container.        *)
(***************************************************************************)
Open(h, kind, label) ==
  /\ pc[h] = "idle" /\ appStatus # "deleted"
  /\ op' = [op EXCEPT ![h] = kind]
  /\ Goto(h, label)

\* The application is stopped first "so StopContainer does not trigger self-heal".
StopRequest(h) ==
  /\ "stop" \in Operations
  /\ Open(h, "stop", "stopList")
  /\ appStatus' = "stopped"
  /\ UNCHANGED <<replicas, rowVars, docker, proxyVars, jobVars, list, hand, number,
                 remaining, late, check, blamed>>

\* UPDATE applications SET replicas, then the status in a second statement.
ScaleRequest(h, n) ==
  /\ "scale" \in Operations
  /\ Open(h, IF n = 0 THEN "stop" ELSE "scale", "scaleStatus")
  /\ replicas' = n
  /\ UNCHANGED <<appStatus, rowVars, docker, proxyVars, jobVars, list, hand, number,
                 remaining, late, check, blamed>>

ScaleStatus(h) ==
  /\ pc[h] = "scaleStatus"
  /\ IF appStatus = "deleted"
       THEN UNCHANGED appStatus
       ELSE appStatus' = IF op[h] = "stop" THEN "stopped" ELSE "active"
  /\ Goto(h, IF op[h] = "stop" THEN "stopList" ELSE "load")
  /\ UNCHANGED <<replicas, rowVars, docker, proxyVars, jobVars, list, hand, number,
                 requestVars, check, blamed>>

StopOneRequest(h, c) ==
  /\ "stopOne" \in Operations
  /\ c \in Running
  /\ Open(h, "stopOne", "stopNext")
  /\ remaining' = [remaining EXCEPT ![h] = {c}]
  /\ UNCHANGED <<appVars, rowVars, docker, proxyVars, jobVars, list, hand, number, late,
                 check, blamed>>

RestartRequest(h) ==
  /\ "restart" \in Operations
  /\ Open(h, "restart", "restartList")
  /\ UNCHANGED <<appVars, rowVars, docker, proxyVars, jobVars, list, hand, number,
                 remaining, late, check, blamed>>

\* Mutant: as many rows as the application has replicas.
ListAllLimited(h) ==
  /\ pc[h] \in {"stopList", "restartList"}
  /\ remaining' = [remaining EXCEPT ![h] =
                     First(replicas, {c \in Containers : row[c] # "none"})]
  /\ Goto(h, IF pc[h] = "stopList" THEN "stopNext" ELSE "restartNext")
  /\ UNCHANGED <<appVars, rowVars, docker, proxyVars, jobVars, list, hand, number, op,
                 late, check, blamed>>

\* ListContainersByApplication returns the rows of every status.
ListAll(h) ==
  /\ pc[h] \in {"stopList", "restartList"}
  /\ remaining' = [remaining EXCEPT ![h] = {c \in Containers : row[c] # "none"}]
  /\ Goto(h, IF pc[h] = "stopList" THEN "stopNext" ELSE "restartNext")
  /\ UNCHANGED <<appVars, rowVars, docker, proxyVars, jobVars, list, hand, number, op,
                 late, check, blamed>>

\* StopContainer: the agent stops it and keeps it.
StopContainer(h) ==
  /\ pc[h] = "stopNext"
  /\ \E c \in NextRemaining(h) :
       /\ row[c] # "none"
       /\ \/ /\ docker' = [docker EXCEPT ![c] = IF @ = "none" THEN @ ELSE "stopped"]
             /\ UNCHANGED blamed
          \/ "agent" \in Faults /\ blamed' = blamed \cup {c} /\ UNCHANGED docker
       /\ hand' = [hand EXCEPT ![h] = c]
       /\ remaining' = [remaining EXCEPT ![h] = @ \ {c}]
  /\ Goto(h, "stopMark")
  /\ UNCHANGED <<appVars, rowVars, proxyVars, jobVars, list, number, op, late, check>>

\* ... its row is written, and the replicas are reconciled before the next one.
StopMark(h) ==
  /\ pc[h] = "stopMark"
  /\ WriteStopped(hand[h])
  /\ hand' = [hand EXCEPT ![h] = None]
  /\ Goto(h, "load")
  /\ UNCHANGED <<appVars, health, docker, jobVars, list, number, requestVars, check, blamed>>

\* An application's file is removed, unless a stop has failed.
StopEnds(h) ==
  /\ pc[h] = "stopNext" /\ remaining[h] = {}
  /\ IF op[h] \in {"stop", "delete"} THEN RemoveFile ELSE UNCHANGED proxyVars
  /\ IF op[h] = "delete" THEN Goto(h, "erase") /\ UNCHANGED requestVars
                         ELSE Goto(h, "idle") /\ CloseRequest(h)
  /\ UNCHANGED <<appVars, rowVars, docker, jobVars, list, hand, number, check, blamed>>

\* Docker starts a stopped container again, whatever its row says; errors are ignored.
RestartContainer(h) ==
  /\ pc[h] = "restartNext"
  /\ \E c \in NextRemaining(h) :
       /\ \/ /\ docker' = [docker EXCEPT ![c] = IF @ = "none" THEN @ ELSE "up"]
             /\ blamed' = IF docker[c] = "stopped" THEN blamed \cup {c} ELSE blamed
          \/ "agent" \in Faults /\ UNCHANGED <<docker, blamed>>
       /\ remaining' = [remaining EXCEPT ![h] = @ \ {c}]
  /\ UNCHANGED <<appVars, rowVars, proxyVars, jobVars, processVars, op, late, check>>

RestartEnds(h) ==
  /\ pc[h] = "restartNext" /\ remaining[h] = {}
  /\ Goto(h, "idle") /\ CloseRequest(h)
  /\ UNCHANGED <<appVars, rowVars, docker, proxyVars, jobVars, list, hand, number, check,
                 blamed>>

\* Delete of an application stops it first, "to avoid self-heal reconciliation".
DeleteRequest(h) ==
  /\ "delete" \in Operations
  /\ Open(h, "delete", "stopList")
  /\ appStatus' = "stopped"
  /\ UNCHANGED <<replicas, rowVars, docker, proxyVars, jobVars, list, hand, number,
                 remaining, late, check, blamed>>

\* An error of StopContainer is noted, and the next container follows.
StopFails(h) ==
  /\ op[h] \in Deleting
  /\ \/ /\ pc[h] \in {"stopMark"} \cup ReconcilePc
        /\ pc[h] = "heal" \/ RowGone(h) \/ Faults \cap {"agent", "db"} # {}
        /\ UNCHANGED remaining
     \/ /\ pc[h] = "stopNext"
        /\ RowGone(h) \/ Faults \cap {"agent", "db"} # {}
        /\ \E c \in NextRemaining(h) : remaining' = [remaining EXCEPT ![h] = @ \ {c}]
  /\ op' = [op EXCEPT ![h] = "deleteFailed"]
  /\ blamed' = blamed \cup ({hand[h]} \ {None})
  /\ hand' = [hand EXCEPT ![h] = None]
  /\ list' = [list EXCEPT ![h] = {}]
  /\ number' = [number EXCEPT ![h] = 0]
  /\ Goto(h, "stopNext")
  /\ UNCHANGED <<appVars, rowVars, docker, proxyVars, jobVars, late, check>>

\* DELETE FROM applications; the rows of its containers and deployments go with it.
Erase(h) ==
  /\ pc[h] = "erase"
  /\ appStatus' = "deleted"
  /\ row' = [c \in Containers |-> "none"]
  /\ health' = [c \in Containers |-> "healthy"]
  /\ dirty' = FALSE /\ unseen' = (route # {})
  /\ op' = [op EXCEPT ![h] = "none"]
  /\ Goto(h, "idle")
  /\ UNCHANGED <<replicas, docker, route, watch, jobVars, list, hand, number, remaining,
                 late, check, blamed>>

RemoveRequest(h, c) ==
  /\ "remove" \in Operations
  /\ row[c] # "none"
  /\ Open(h, "remove", "removeNext")
  /\ remaining' = [remaining EXCEPT ![h] = {c}]
  /\ UNCHANGED <<appVars, rowVars, docker, proxyVars, jobVars, list, hand, number, late,
                 check, blamed>>

\* RemoveContainer: the agent removes it, running or not ...
RemoveContainer(h) ==
  /\ pc[h] = "removeNext"
  /\ \E c \in remaining[h] :
       /\ \/ docker' = [docker EXCEPT ![c] = "none"] /\ UNCHANGED blamed
          \/ "agent" \in Faults /\ blamed' = blamed \cup {c} /\ UNCHANGED docker
       /\ hand' = [hand EXCEPT ![h] = c]
  /\ remaining' = [remaining EXCEPT ![h] = {}]
  /\ Goto(h, "removeMark")
  /\ UNCHANGED <<appVars, rowVars, proxyVars, jobVars, list, number, op, late, check>>

\* ... and its row is deleted, which leaves no updated_at for WatchChanges to see.
\* Nobody reconciles.
RemoveRow(h) ==
  /\ pc[h] = "removeMark"
  /\ row' = [row EXCEPT ![hand[h]] = "none"]
  /\ health' = [health EXCEPT ![hand[h]] = "healthy"]
  /\ unseen' = (unseen \/ hand[h] \in Backends)
  /\ hand' = [hand EXCEPT ![h] = None]
  /\ Goto(h, "idle") /\ CloseRequest(h)
  /\ UNCHANGED <<appVars, docker, route, dirty, watch, jobVars, list, number, check, blamed>>

-----------------------------------------------------------------------------
(***************************************************************************)
(* checkAllContainers starts a goroutine per running row; its answer may   *)
(* reach the row long after it was given.                                  *)
(***************************************************************************)
AskHealth(c) ==
  /\ "tick" \in Operations
  /\ c \in Running /\ check[c] = "none"
  /\ \/ docker[c] = "up" /\ check' = [check EXCEPT ![c] = "healthy"]
     \/ /\ docker[c] # "up" \/ "unready" \in Faults
        /\ check' = [check EXCEPT ![c] = "unhealthy"]
  /\ UNCHANGED <<appVars, rowVars, docker, proxyVars, jobVars, processVars, requestVars,
                 blamed>>

\* markContainerUnhealthy writes always, markContainerHealthy only a difference.
MarkHealth(c) ==
  /\ check[c] # "none"
  /\ check' = [check EXCEPT ![c] = "none"]
  /\ IF row[c] = "none" \/ (check[c] = "healthy" /\ health[c] = "healthy")
       THEN UNCHANGED <<health, proxyVars>>
       ELSE health' = [health EXCEPT ![c] = check[c]] /\ Touch
  /\ UNCHANGED <<appVars, row, docker, jobVars, processVars, requestVars, blamed>>

-----------------------------------------------------------------------------
(***************************************************************************)
(* WatchChanges, every 10 s, and what happens outside the orchestrator.    *)
(***************************************************************************)
WatchGenerates ==
  /\ "watch" \in Operations
  /\ watch = "idle" /\ dirty /\ appStatus # "deleted"
  /\ Generate
  /\ watch' = "stamp"
  /\ UNCHANGED <<appVars, rowVars, docker, dirty, jobVars, processVars, requestVars, check,
                 blamed>>

\* UPDATE applications SET traefik_config_updated_at = NOW().
WatchStamps ==
  /\ watch = "stamp"
  /\ watch' = "idle" /\ dirty' = FALSE
  /\ UNCHANGED <<appVars, rowVars, docker, route, unseen, jobVars, processVars, requestVars,
                 check, blamed>>

\* The process in a container exits, and "unless-stopped" starts it again.
ContainerExits(c) ==
  /\ "docker" \in Faults
  /\ docker[c] = "up"
  /\ docker' = [docker EXCEPT ![c] = "exited"]
  /\ UNCHANGED <<appVars, rowVars, proxyVars, jobVars, processVars, requestVars, check,
                 blamed>>

ContainerRecovers(c) ==
  /\ docker[c] = "exited"
  /\ docker' = [docker EXCEPT ![c] = "up"]
  /\ UNCHANGED <<appVars, rowVars, proxyVars, jobVars, processVars, requestVars, check,
                 blamed>>

\* The orchestrator dies and starts again; the job it had popped is gone.
Crash ==
  /\ "crash" \in Faults
  /\ blamed' = blamed \cup ({hand[p] : p \in Processes} \ {None})
  /\ pc' = [p \in Processes |-> "idle"]
  /\ list' = [p \in Processes |-> {}]
  /\ hand' = [p \in Processes |-> None]
  /\ number' = [p \in Processes |-> 0]
  /\ op' = [h \in Handlers |-> "none"]
  /\ remaining' = [h \in Handlers |-> {}]
  /\ late' = IF appStatus = "deleted" THEN late ELSE [h \in Handlers |-> {}]
  /\ check' = [c \in Containers |-> "none"]
  /\ watch' = "idle"
  /\ UNCHANGED <<appVars, rowVars, docker, route, dirty, unseen, jobVars>>

-----------------------------------------------------------------------------
LoopStep(p) == TakeDown(p) \/ SkipContainer(p) \/ MarkStopped(p) \/ LoopEnds(p)

WorkerStep ==
  \/ TakeJob \/ CreateContainer \/ SaveContainer \/ AllCreated \/ CheckNew \/ ListOld
  \/ LoopStep("worker") \/ Promote \/ RefreshRoute \/ ExpectBackends \/ VerifyRoute
  \/ DeployFails \/ Report

ReconcileStep(p) ==
  \/ LoadApplication(p) \/ ListUnhealthy(p) \/ CountReplicas(p) \/ ListExcess(p)
  \/ Reroute(p) \/ Unroute(p) \/ SelfHeal(p) \/ SelfHealFails(p)
  \/ LoopStep(p)

TickerStep == StartTick \/ ReconcileStep("ticker")

HandlerStep(h) ==
  \/ ScaleStatus(h) \/ ListAll(h) \/ StopContainer(h) \/ StopMark(h) \/ StopEnds(h)
  \/ RestartContainer(h) \/ RestartEnds(h) \/ StopFails(h) \/ Erase(h)
  \/ RemoveContainer(h) \/ RemoveRow(h) \/ ReconcileStep(h)

Request(h) ==
  \/ StopRequest(h) \/ RestartRequest(h) \/ DeleteRequest(h)
  \/ \E n \in 0..MaxReplicas : ScaleRequest(h, n)
  \/ \E c \in Containers : StopOneRequest(h, c) \/ RemoveRequest(h, c)

Next ==
  \/ Deploy \/ HookDeploy
  \/ \E v \in verdicts : Verdict(v) \/ VerdictLost(v)
  \/ WorkerStep \/ TickerStep
  \/ \E h \in Handlers : Request(h) \/ HandlerStep(h)
  \/ \E p \in Processes : BreakOff(p)
  \/ \E c \in Containers :
       AskHealth(c) \/ MarkHealth(c) \/ ContainerExits(c) \/ ContainerRecovers(c)
  \/ WatchGenerates \/ WatchStamps
  \/ Crash

Spec == Init /\ [][Next]_vars

\* Goroutines go on, tickers tick, callbacks are handled while the
\* orchestrator lives.
Fairness ==
  /\ WF_vars(WorkerStep) /\ WF_vars(TickerStep)
  /\ WF_vars(WatchGenerates) /\ WF_vars(WatchStamps)
  /\ \A h \in Handlers : WF_vars(HandlerStep(h))
  /\ \A c \in Containers : WF_vars(AskHealth(c)) /\ WF_vars(MarkHealth(c))
  /\ WF_vars(\E v \in verdicts : Verdict(v))

FairSpec == Spec /\ Fairness

-----------------------------------------------------------------------------
(***************************************************************************)
(* Properties.                                                             *)
(***************************************************************************)

\* No container runs without a row that says so, whatever the worker, the ticker
\* and the handlers stop at the same time: either the worker has just created it,
\* or a call about it failed, was cut off, or restarted it after it was stopped.  An
\* application that is deleted leaves only what a deployment saved while it was.
NoOrphan ==
  \A c \in Containers :
    Live(c) => \/ row[c] = "running"
               \/ hand["worker"] = c
               \/ c \in blamed
               \/ appStatus = "deleted" /\ \E h \in Handlers : c \in late[h]

\* What still runs when a Stop has gone through its list was saved by a deployment
\* meanwhile, or is about to be, unless a call about it failed; or it was saved while
\* another request deleted the application.
StopLeavesLate ==
  [][\A h \in Handlers :
       op[h] = "stop" /\ pc[h] = "stopNext" /\ pc'[h] = "idle" /\ remaining[h] = {} =>
         \A c \in Containers :
           Live(c) => \/ c \in late[h] \cup blamed \cup {hand["worker"]}
                      \/ appStatus = "deleted" /\ \E g \in Handlers : c \in late[g]]_vars

\* No row says running for a container that was stopped, except while the process
\* that stopped it is about to write the row.
NoGhost ==
  \A c \in Containers :
    row[c] = "running" /\ docker[c] \in {"none", "stopped"} =>
      c \in blamed \/ \E p \in Processes : hand[p] = c

\* When the worker has cleaned up and makes the routes, only the version it deploys
\* has running rows, although versions whose deployment failed left theirs.
OneVersion ==
  pc["worker"] \in {"promote", "route", "ensure", "expect", "verify", "running"} =>
    \A c \in Running : DeploymentOf(c) = deployment \/ c \in blamed

\* The worker touches no container of another version before every new container
\* was healthy in one and the same attempt.
OldVersionIsKept ==
  [][WorkerStep =>
       \A c \in Containers :
         DeploymentOf(c) < deployment' /\ (docker'[c] # docker[c] \/ row'[c] # row[c]) =>
           seen = want /\ made = want]_vars

\* If the file is not what the rows say, WatchChanges will see it at its next tick,
\* unless the rows changed between its query and its timestamp, a stop removed the
\* file under running rows, or the row of a backend was deleted, which leaves no
\* updated_at behind (Touch, RemoveFile, RemoveRow).
RouteIsWatched == route = Backends \/ dirty \/ unseen

\* The ticker finds an unhealthy replica of an active application and takes it away,
\* unless it recovers first.
SickIsSwept ==
  \A c \in Containers :
    appStatus = "active" /\ c \in Unhealthy ~> appStatus # "active" \/ c \notin Unhealthy

\* Replicas beyond the number the active application asks for do not last, wherever
\* they come from: a deployment, a failed one, a scale down.
SurplusIsRemoved ==
  appStatus = "active" /\ Cardinality(Backends) > replicas
    ~> appStatus # "active" \/ Cardinality(Backends) <= replicas

-----------------------------------------------------------------------------
(***************************************************************************)
(* What comments of the code say.                                          *)
(***************************************************************************)
Serving == \E c \in route : docker[c] = "up"

\* "This ensures zero-downtime deployments": a step of the worker does not leave
\* the route with dead backends only.
ZeroDowntime == [][WorkerStep /\ Serving => Serving']_vars

=============================================================================
