-------------------------- MODULE RollingDeployProofs --------------------------
(***************************************************************************)
(* Theorems about RollingDeploy, for every number of deployments and       *)
(* replicas, every set of handlers, every operation and every fault.       *)
(***************************************************************************)
EXTENDS RollingDeploy, FiniteSetTheorems, SequenceTheorems, TLAPS

\* What the program counter of the worker says about its job.
JobIsAtPc ==
  /\ deployment + Len(queue) <= MaxDeployments
  /\ pc["worker"] # "idle" => deployment > 0
  /\ pc["worker"] = "save" => hand["worker"] = Own(made) /\ made < want
  /\ pc["worker"] \in {"wait", "cleanup"} => made = want
  /\ pc["worker"] = "cleanup" => seen = want

Typed == TypeOK /\ JobIsAtPc

\* Where a process may have a container in hand.
Holding == Loops \cup {"save", "stopMark", "removeMark"}
HandAtPc == \A p \in Processes : hand[p] # None => pc[p] \in Holding

\* The containers that the worker has not saved yet.
Fresh(c) ==
  \/ DeploymentOf(c) > deployment
  \/ DeploymentOf(c) = deployment /\ ReplicaIndex(c) >= made

\* Nobody else knows of a fresh container; the one that is about to be saved lives.
FreshIsHidden ==
  /\ \A c \in Containers : Fresh(c) =>
       /\ row[c] = "none"
       /\ \A p \in Processes : c \notin list[p] /\ (hand[p] = c => pc[p] = "save")
       /\ \A h \in Handlers : c \notin remaining[h]
  /\ pc["worker"] = "save" => Live(hand["worker"])

\* A container that a process has stopped and not written yet does not live.
HandIsDown ==
  \A p \in Processes :
    hand[p] # None /\ pc[p] # "save" => ~Live(hand[p]) \/ hand[p] \in blamed

\* A request that stops everything is in the part of its handler that does so.
RequestAtPc ==
  \A h \in Handlers :
    /\ op[h] \in {"stop"} \cup Deleting =>
         pc[h] \notin {"restartList", "restartNext", "removeNext", "removeMark"}
    /\ pc[h] = "scaleStatus" => op[h] \in {"stop", "scale"}
    /\ pc[h] = "erase" => op[h] = "delete" /\ remaining[h] = {}

\* What lives and is not in the list of a Stop or Delete any more came later.
StopSeesAll ==
  appStatus # "deleted" =>
    \A h \in Handlers :
      op[h] \in {"stop", "delete"} /\ pc[h] \notin {"scaleStatus", "stopList"} =>
        \A c \in Containers :
          Live(c) => c \in remaining[h] \cup late[h] \cup blamed \cup {hand["worker"]}

\* The rows go with their application; what lives then was saved while it was deleted.
DeletedLeavesLate ==
  appStatus = "deleted" =>
    /\ \A c \in Containers : row[c] = "none"
    /\ \E h \in Handlers :
         /\ pc[h] = "idle" /\ op[h] = "none"
         /\ \A c \in Containers :
              Live(c) => c \in late[h] \cup blamed \cup {hand["worker"]}

\* The old rows that cleanupOldContainers has not handled yet.
OldAreListed ==
  pc["worker"] = "cleanup" =>
    \A c \in Running :
      \/ DeploymentOf(c) = deployment
      \/ c \in list["worker"] \cup blamed \cup {hand["worker"]}

\* Between its query and its timestamp WatchChanges has made the file it wanted.
StampIsRight == watch = "stamp" => route = Backends \/ unseen

Watched == RouteIsWatched /\ StampIsRight

-----------------------------------------------------------------------------
\* The steps of a process that is not the worker.
ProcessStep(p) ==
  \/ BreakOff(p) \/ ReconcileStep(p)
  \/ p = "ticker" /\ StartTick
  \/ p \in Handlers /\ (Request(p) \/ HandlerStep(p))

\* The steps of no process.
OutsideStep ==
  \/ Deploy \/ HookDeploy \/ WatchGenerates \/ WatchStamps
  \/ \E v \in verdicts : Verdict(v) \/ VerdictLost(v)
  \/ \E c \in Containers :
       AskHealth(c) \/ MarkHealth(c) \/ ContainerExits(c) \/ ContainerRecovers(c)

\* What such a step leaves of the worker's job.
JobIsKept ==
  /\ UNCHANGED <<deployment, want, made, seen>>
  /\ \/ UNCHANGED queue
     \/ RoomForJob /\ Enqueue(replicas)

\* A process writes no variable of another one.
OnlyOwn(p) ==
  /\ \A q \in Processes \ {p} : pc'[q] = pc[q] /\ hand'[q] = hand[q] /\ list'[q] = list[q]
  /\ \A g \in Handlers \ {p} :
       op'[g] = op[g] /\ remaining'[g] = remaining[g] /\ late'[g] = late[g]

-----------------------------------------------------------------------------
(***************************************************************************)
(* Facts about the operators of RollingDeploy.                             *)
(***************************************************************************)
\* The processes are told apart, and each has its own labels.
LEMMA ProcessFacts ==
  /\ "worker" \in Processes /\ "ticker" \in Processes
  /\ PcOf("worker") = WorkerPc /\ PcOf("ticker") = {"idle"} \cup ReconcilePc
  /\ \A h \in Handlers :
       h \in Processes /\ h # "worker" /\ h # "ticker" /\ PcOf(h) = HandlerPc
  /\ \A p \in Processes : PcOf(p) \subseteq WorkerPc \cup HandlerPc
  /\ \A p \in Processes : p # "worker" => {"idle"} \cup ReconcilePc \subseteq PcOf(p)
  BY RollingAssumption DEF Processes, PcOf, WorkerPc, HandlerPc

\* A replica of the current job is one of the containers, and no other job's.
LEMMA OwnIsContainer ==
  ASSUME TypeOK, deployment > 0, NEW i \in Nat, i < want
  PROVE  /\ Own(i) \in Containers
         /\ DeploymentOf(Own(i)) = deployment /\ ReplicaIndex(Own(i)) = i
  BY RollingAssumption DEF TypeOK, Own, Containers, DeploymentOf, ReplicaIndex

\* Whatever containers there are, the file and the counts are about finitely many.
LEMMA BackendsCount ==
  /\ IsFiniteSet(Containers)
  /\ Cardinality(Backends) \in Nat
<1>1. IsFiniteSet(1..MaxDeployments) /\ IsFiniteSet(0..MaxReplicas - 1)
  BY RollingAssumption, FS_Interval
<1>2. IsFiniteSet(Containers)
  BY <1>1, FS_Product DEF Containers
<1>3. Backends \subseteq Containers
  BY DEF Backends, Running
<1>4. QED
  BY <1>2, <1>3, FS_Subset, FS_CardinalityType

PcType ==
  /\ pc \in [Processes -> WorkerPc \cup HandlerPc]
  /\ \A p \in Processes : pc[p] \in PcOf(p)

\* Moving one process to a label of its own moves no other.
LEMMA GotoType ==
  ASSUME PcType, NEW p \in Processes, NEW label \in PcOf(p), Goto(p, label)
  PROVE  /\ PcType'
         /\ pc'[p] = label /\ \A q \in Processes \ {p} : pc'[q] = pc[q]
  BY ProcessFacts DEF PcType, Goto

\* Where the reconcile returns to is a label of its process.
LEMMA ReturnType ==
  ASSUME NEW p \in Processes
  PROVE  Return(p) \in PcOf(p) \/ p = "worker"
  BY ProcessFacts DEF Return, HandlerPc, ReconcilePc

\* What the helpers that write rows and the file leave of the right type.
LEMMA ProxyTypes ==
  ASSUME TypeOK
  PROVE  /\ Touch => /\ route' \subseteq Containers /\ dirty' \in BOOLEAN
                     /\ watch' \in {"idle", "stamp"} /\ unseen' \in BOOLEAN
         /\ Generate => route' \subseteq Containers /\ unseen' \in BOOLEAN
         /\ RemoveFile => /\ route' \subseteq Containers /\ dirty' \in BOOLEAN
                          /\ watch' \in {"idle", "stamp"} /\ unseen' \in BOOLEAN
         /\ \A c : WriteStopped(c) =>
              /\ row' \in [Containers -> {"none", "running", "stopped"}]
              /\ route' \subseteq Containers /\ dirty' \in BOOLEAN
              /\ watch' \in {"idle", "stamp"} /\ unseen' \in BOOLEAN
<1>1. Backends \subseteq Containers
  BY DEF Backends, Running
<1>2. Touch => /\ route' \subseteq Containers /\ dirty' \in BOOLEAN
               /\ watch' \in {"idle", "stamp"} /\ unseen' \in BOOLEAN
  BY DEF TypeOK, Touch
<1>3. Generate => route' \subseteq Containers /\ unseen' \in BOOLEAN
  BY <1>1 DEF Generate
<1>4. RemoveFile => /\ route' \subseteq Containers /\ dirty' \in BOOLEAN
                    /\ watch' \in {"idle", "stamp"} /\ unseen' \in BOOLEAN
  BY DEF TypeOK, RemoveFile
<1>5. ASSUME NEW c, WriteStopped(c)
      PROVE  /\ row' \in [Containers -> {"none", "running", "stopped"}]
             /\ route' \subseteq Containers /\ dirty' \in BOOLEAN
             /\ watch' \in {"idle", "stamp"} /\ unseen' \in BOOLEAN
  <2>1. CASE row[c] = "none"
    BY <1>5, <2>1 DEF TypeOK, WriteStopped, proxyVars
  <2>2. CASE row[c] # "none"
    BY <1>2, <1>5, <2>2 DEF TypeOK, WriteStopped
  <2>3. QED
    BY <2>1, <2>2
<1>6. QED
  BY <1>2, <1>3, <1>4, <1>5

\* Closing a request clears it.
LEMMA CloseTypes ==
  ASSUME TypeOK, NEW p, CloseRequest(p)
  PROVE  /\ op' \in [Handlers -> {"none", "stop", "stopOne", "scale", "restart", "remove"}
                                   \cup Deleting]
         /\ remaining' \in [Handlers -> SUBSET Containers]
         /\ late' \in [Handlers -> SUBSET Containers]
  BY DEF TypeOK, CloseRequest

\* A job asks for at least one replica and for no more than there may be.
LEMMA QueueTypes ==
  ASSUME TypeOK
  PROVE  /\ Enqueue(replicas) => /\ queue' \in Seq(1..MaxReplicas)
                                 /\ Len(queue') = Len(queue) + 1
         /\ queue # <<>> => /\ Head(queue) \in 1..MaxReplicas
                            /\ Tail(queue) \in Seq(1..MaxReplicas)
                            /\ Len(Tail(queue)) = Len(queue) - 1
                            /\ Len(queue) \in Nat \ {0}
<1>1. queue \in Seq(1..MaxReplicas) /\ replicas \in 0..MaxReplicas
  BY DEF TypeOK
<1>2. ASSUME Enqueue(replicas)
      PROVE  queue' \in Seq(1..MaxReplicas) /\ Len(queue') = Len(queue) + 1
  <2>1. (IF replicas = 0 THEN 1 ELSE replicas) \in 1..MaxReplicas
    BY <1>1, RollingAssumption
  <2>2. QED
    BY <1>1, <1>2, <2>1, AppendProperties DEF Enqueue
<1>3. ASSUME queue # <<>>
      PROVE  /\ Head(queue) \in 1..MaxReplicas /\ Tail(queue) \in Seq(1..MaxReplicas)
             /\ Len(Tail(queue)) = Len(queue) - 1 /\ Len(queue) \in Nat \ {0}
  <2>1. Head(queue) \in 1..MaxReplicas /\ Tail(queue) \in Seq(1..MaxReplicas)
        /\ Len(Tail(queue)) = Len(queue) - 1
    BY <1>1, <1>3, HeadTailProperties
  <2>2. Len(queue) \in Nat \ {0}
    BY <1>1, <1>3, EmptySeq, LenProperties
  <2>3. QED
    BY <2>1, <2>2
<1>4. QED
  BY <1>2, <1>3

-----------------------------------------------------------------------------
(***************************************************************************)
(* Types.                                                                  *)
(***************************************************************************)
\* Initially every variable has its type.
LEMMA TypedInit == Init => Typed
<1> SUFFICES ASSUME Init PROVE Typed
  OBVIOUS
<1>1. queue \in Seq(1..MaxReplicas) /\ Len(queue) = 0
  BY DEF Init
<1>2. PcType
  BY ProcessFacts DEF Init, PcType, WorkerPc, HandlerPc
<1>3. TypeOK
  <2>1. /\ replicas \in 0..MaxReplicas /\ deployment \in 0..MaxDeployments
        /\ want \in 0..MaxReplicas /\ made \in 0..want /\ seen \in 0..want
    BY RollingAssumption DEF Init
  <2>2. /\ row \in [Containers -> {"none", "running", "stopped"}]
        /\ health \in [Containers -> {"healthy", "unhealthy"}]
        /\ docker \in [Containers -> DockerState]
        /\ check \in [Containers -> {"none", "healthy", "unhealthy"}]
    BY DEF Init, DockerState
  <2>3. /\ list \in [Processes -> SUBSET Containers]
        /\ hand \in [Processes -> Containers \cup {None}]
        /\ number \in [Processes -> Nat]
    BY DEF Init
  <2>4. /\ remaining \in [Handlers -> SUBSET Containers]
        /\ late \in [Handlers -> SUBSET Containers]
    BY DEF Init
  <2>5. QED
    BY <1>1, <1>2, <2>1, <2>2, <2>3, <2>4 DEF Init, TypeOK, PcType
<1>4. JobIsAtPc
  BY <1>1, RollingAssumption, ProcessFacts DEF Init, JobIsAtPc
<1>5. QED
  BY <1>3, <1>4 DEF Typed

\* The loops handle one container of a list after the other.
LEMMA LoopTypes ==
  ASSUME TypeOK, NEW p \in Processes, LoopStep(p)
  PROVE  TypeOK'
<1> USE DEF TypeOK, appVars, rowVars, proxyVars, jobVars, processVars, requestVars
<1>1. CASE TakeDown(p)
  BY <1>1 DEF TakeDown, NextInLoop, DockerState
<1>2. CASE SkipContainer(p)
  BY <1>2 DEF SkipContainer
<1>3. CASE MarkStopped(p)
  <2>1. hand[p] \in Containers
    BY <1>3 DEF MarkStopped
  <2>2. CASE WriteStopped(hand[p]) /\ UNCHANGED blamed
    BY <1>3, <2>2, ProxyTypes DEF MarkStopped
  <2>3. CASE blamed' = blamed \cup {hand[p]} /\ UNCHANGED <<row, proxyVars>>
    BY <1>3, <2>1, <2>3 DEF MarkStopped
  <2>4. QED
    BY <1>3, <2>2, <2>3 DEF MarkStopped
<1>4. CASE LoopEnds(p)
  <2>1. PICK label : /\ label = CASE pc[p] = "cleanup" -> "promote"
                                 [] pc[p] = "sweep" -> "count"
                                 [] pc[p] = "shrink" -> "reroute"
                                 [] pc[p] = "zero" -> "unroute"
                     /\ Goto(p, label)
    BY <1>4 DEF LoopEnds
  <2>2. label \in PcOf(p)
    BY <1>4, <2>1 DEF LoopEnds, Looping, Loops, PcOf, WorkerPc, HandlerPc, ReconcilePc
  <2>3. PcType'
    BY <2>1, <2>2, GotoType DEF PcType
  <2>4. QED
    BY <1>4, <2>3 DEF LoopEnds, PcType
<1>5. QED
  BY <1>1, <1>2, <1>3, <1>4 DEF LoopStep

\* The worker's steps outside its loop.
LEMMA WorkerTypes ==
  ASSUME Typed, WorkerStep
  PROVE  TypeOK'
<1> USE DEF TypeOK, appVars, rowVars, proxyVars, jobVars, processVars, requestVars
<1>0. TypeOK /\ JobIsAtPc /\ PcType
  BY DEF Typed, PcType
<1>1. ASSUME NEW label \in WorkerPc, Goto("worker", label)
      PROVE  PcType'
  BY <1>0, <1>1, GotoType, ProcessFacts
<1>2. CASE TakeJob
  <2>1. deployment' \in 0..MaxDeployments /\ want' \in 0..MaxReplicas
        /\ queue' \in Seq(1..MaxReplicas)
    BY <1>0, <1>2, QueueTypes, RollingAssumption DEF TakeJob, JobIsAtPc
  <2>2. PcType'
    BY <1>1, <1>2 DEF TakeJob, WorkerPc
  <2>3. rolling' \in BOOLEAN
    BY <1>2 DEF TakeJob
  <2>4. made' \in 0..want' /\ seen' \in 0..want'
    BY <1>2, <2>1 DEF TakeJob
  <2>5. QED
    BY <1>0, <1>2, <2>1, <2>2, <2>3, <2>4 DEF TakeJob, PcType
<1>3. CASE CreateContainer
  <2>1. Own(made) \in Containers
    BY <1>0, <1>3, OwnIsContainer DEF CreateContainer, JobIsAtPc
  <2>2. PcType'
    BY <1>1, <1>3 DEF CreateContainer, WorkerPc
  <2>3. hand' \in [Processes -> Containers \cup {None}]
    BY <1>0, <1>3, <2>1 DEF CreateContainer
  <2>4. docker' \in [Containers -> DockerState]
    BY <1>0, <1>3 DEF CreateContainer, DockerState
  <2>5. QED
    BY <1>0, <1>3, <2>2, <2>3, <2>4 DEF CreateContainer, PcType
<1>4. CASE SaveContainer
  <2>1. PcType'
    BY <1>1, <1>4 DEF SaveContainer, WorkerPc
  <2>2. hand["worker"] \in Containers /\ made + 1 \in 0..want
    <3>1. hand["worker"] = Own(made) /\ made < want /\ deployment > 0
      BY <1>0, <1>4 DEF SaveContainer, JobIsAtPc
    <3>2. QED
      BY <1>0, <3>1, OwnIsContainer
  <2>3. late' \in [Handlers -> SUBSET Containers]
    BY <1>0, <1>4, <2>2 DEF SaveContainer
  <2>4. hand' \in [Processes -> Containers \cup {None}]
    BY <1>0, <1>4 DEF SaveContainer
  <2>5. /\ row' \in [Containers -> {"none", "running", "stopped"}]
        /\ health' \in [Containers -> {"healthy", "unhealthy"}]
        /\ blamed' \subseteq Containers
        /\ route' \subseteq Containers /\ dirty' \in BOOLEAN
        /\ watch' \in {"idle", "stamp"} /\ unseen' \in BOOLEAN
    <3>1. CASE /\ row' = [row EXCEPT ![hand["worker"]] = "running"]
               /\ health' = [health EXCEPT ![hand["worker"]] = "healthy"]
               /\ Touch /\ UNCHANGED blamed
      BY <1>0, <3>1, ProxyTypes
    <3>2. CASE /\ blamed' = blamed \cup {hand["worker"]}
               /\ UNCHANGED <<rowVars, proxyVars>>
      BY <1>0, <2>2, <3>2
    <3>3. QED
      BY <1>4, <3>1, <3>2 DEF SaveContainer
  <2>6. QED
    BY <1>0, <1>4, <2>1, <2>2, <2>3, <2>4, <2>5 DEF SaveContainer, PcType
<1>5. CASE AllCreated
  BY <1>0, <1>1, <1>5 DEF AllCreated, WorkerPc, PcType
<1>6. CASE CheckNew
  BY <1>0, <1>6 DEF CheckNew
<1>7. CASE ListOld
  BY <1>0, <1>1, <1>7 DEF ListOld, WorkerPc, PcType, Running
<1>8. CASE LoopStep("worker")
  BY <1>0, <1>8, LoopTypes, ProcessFacts
<1>9. CASE Promote
  <2>1. PcType'
    BY <1>1, <1>9 DEF Promote, WorkerPc
  <2>2. /\ route' \subseteq Containers /\ dirty' \in BOOLEAN
        /\ watch' \in {"idle", "stamp"} /\ unseen' \in BOOLEAN
    BY <1>0, <1>9, ProxyTypes DEF Promote
  <2>3. QED
    BY <1>0, <1>9, <2>1, <2>2 DEF Promote, PcType
<1>10. CASE RefreshRoute
  <2>1. PcType'
    BY <1>1, <1>10 DEF RefreshRoute, WorkerPc
  <2>2. QED
    BY <1>0, <1>10, <2>1, ProxyTypes DEF RefreshRoute, PcType
<1>11. CASE ExpectBackends
  <2>1. PcType'
    BY <1>1, <1>11 DEF ExpectBackends, WorkerPc
  <2>2. QED
    BY <1>0, <1>11, <2>1 DEF ExpectBackends, PcType, Backends, Running
<1>12. CASE VerifyRoute
  <2>1. PcType'
    BY <1>1, <1>12 DEF VerifyRoute, WorkerPc
  <2>2. QED
    BY <1>0, <1>12, <2>1 DEF VerifyRoute, PcType
<1>13. CASE DeployFails
  <2>1. PcType'
    BY <1>1, <1>13 DEF DeployFails, WorkerPc
  <2>2. QED
    BY <1>0, <1>13, <2>1 DEF DeployFails, PcType
<1>14. CASE Report
  <2>1. PcType'
    BY <1>1, <1>14 DEF Report, WorkerPc
  <2>2. deployment \in 1..MaxDeployments
    BY <1>0, <1>14 DEF Report, JobIsAtPc
  <2>3. verdicts' \subseteq (1..MaxDeployments) \X {"running", "failed"}
    BY <1>0, <1>14, <2>2 DEF Report
  <2>4. QED
    BY <1>0, <1>14, <2>1, <2>3 DEF Report, PcType
<1>15. QED
  BY <1>2, <1>3, <1>4, <1>5, <1>6, <1>7, <1>8, <1>9, <1>10, <1>11, <1>12, <1>13, <1>14
  DEF WorkerStep

\* The reconcile of a ticker or a handler.
LEMMA ReconcileTypes ==
  ASSUME TypeOK, NEW p \in Processes \ {"worker"}, ReconcileStep(p) \/ StartTick
  PROVE  TypeOK'
<1> USE DEF TypeOK, appVars, rowVars, proxyVars, jobVars, processVars, requestVars
<1>0. PcType
  BY DEF PcType
<1>1. ASSUME NEW label \in {"idle"} \cup ReconcilePc \cup {Return(p)}, Goto(p, label)
      PROVE  PcType'
  BY <1>0, <1>1, GotoType, ReturnType, ProcessFacts
<1>2. CASE StartTick
  <2>1. PcType'
    BY <1>0, <1>2, GotoType, ProcessFacts DEF StartTick, ReconcilePc
  <2>2. QED
    BY <1>2, <2>1 DEF StartTick, PcType
<1>3. CASE LoadApplication(p)
  <2>1. PcType'
    BY <1>1, <1>3 DEF LoadApplication, ReconcilePc
  <2>2. list' \in [Processes -> SUBSET Containers]
    <3>1. list' = list \/ list' = [list EXCEPT ![p] = Running]
      BY <1>3 DEF LoadApplication
    <3>2. Running \subseteq Containers
      BY DEF Running
    <3>3. QED
      BY <3>1, <3>2
  <2>3. number' \in [Processes -> Nat]
    <3>1. MaxReplicas \in Nat
      BY RollingAssumption
    <3>2. replicas \in Nat
      BY <3>1
    <3>3. number' = number \/ number' = [number EXCEPT ![p] = replicas]
      BY <1>3 DEF LoadApplication
    <3>4. QED
      BY <3>2, <3>3
  <2>4. QED
    BY <1>3, <2>1, <2>2, <2>3 DEF LoadApplication, PcType
<1>4. CASE ListUnhealthy(p)
  <2>1. PcType'
    BY <1>1, <1>4 DEF ListUnhealthy, ReconcilePc
  <2>2. QED
    BY <1>4, <2>1 DEF ListUnhealthy, PcType, Unhealthy, Running
<1>5. CASE CountReplicas(p)
  <2>1. PcType'
    BY <1>1, <1>5 DEF CountReplicas, ReconcilePc
  <2>2. number' \in [Processes -> Nat]
    BY <1>5, BackendsCount DEF CountReplicas
  <2>3. QED
    BY <1>5, <2>1, <2>2 DEF CountReplicas, PcType
<1>6. CASE ListExcess(p)
  <2>1. PcType'
    BY <1>1, <1>6 DEF ListExcess, ReconcilePc
  <2>2. First(number[p], Backends) \subseteq Containers
    BY DEF First, Backends, Running
  <2>3. QED
    BY <1>6, <2>1, <2>2 DEF ListExcess, PcType
<1>7. CASE Reroute(p)
  <2>1. PcType'
    BY <1>1, <1>7 DEF Reroute
  <2>2. route' \subseteq Containers /\ unseen' \in BOOLEAN
    BY <1>7, ProxyTypes DEF Reroute
  <2>3. QED
    BY <1>7, <2>1, <2>2 DEF Reroute, PcType
<1>8. CASE Unroute(p)
  <2>1. PcType'
    BY <1>1, <1>8 DEF Unroute
  <2>2. QED
    BY <1>8, <2>1, ProxyTypes DEF Unroute, PcType
<1>9. CASE SelfHeal(p)
  <2>1. PcType'
    BY <1>1, <1>9 DEF SelfHeal
  <2>2. queue' \in Seq(1..MaxReplicas)
    BY <1>9, QueueTypes DEF SelfHeal
  <2>3. QED
    BY <1>9, <2>1, <2>2 DEF SelfHeal, PcType
<1>10. CASE SelfHealFails(p)
  <2>1. PcType'
    BY <1>1, <1>10 DEF SelfHealFails
  <2>2. QED
    BY <1>10, <2>1, CloseTypes DEF SelfHealFails, PcType
<1>11. CASE LoopStep(p)
  BY <1>11, LoopTypes
<1>12. QED
  BY <1>2, <1>3, <1>4, <1>5, <1>6, <1>7, <1>8, <1>9, <1>10, <1>11 DEF ReconcileStep

\* The parts of a handler that stop, restart and remove containers.
LEMMA HandlerTypes ==
  ASSUME TypeOK, NEW h \in Handlers, HandlerStep(h)
  PROVE  TypeOK'
<1> USE DEF TypeOK, appVars, rowVars, proxyVars, jobVars, processVars, requestVars
<1>0. PcType /\ h \in Processes
  BY ProcessFacts DEF PcType
<1>1. ASSUME NEW label \in HandlerPc, Goto(h, label)
      PROVE  PcType'
  BY <1>0, <1>1, GotoType, ProcessFacts
<1>2. CASE ScaleStatus(h)
  <2>1. PcType'
    BY <1>1, <1>2 DEF ScaleStatus, HandlerPc, ReconcilePc
  <2>2. QED
    BY <1>2, <2>1 DEF ScaleStatus, PcType
<1>3. CASE ListAll(h)
  <2>1. PcType'
    BY <1>1, <1>3 DEF ListAll, HandlerPc
  <2>2. QED
    BY <1>3, <2>1 DEF ListAll, PcType
<1>4. CASE StopContainer(h)
  <2>1. PcType'
    BY <1>1, <1>4 DEF StopContainer, HandlerPc
  <2>2. PICK c \in Containers :
          /\ \/ /\ docker' = [docker EXCEPT ![c] = IF @ = "none" THEN @ ELSE "stopped"]
                /\ UNCHANGED blamed
             \/ blamed' = blamed \cup {c} /\ UNCHANGED docker
          /\ hand' = [hand EXCEPT ![h] = c]
          /\ remaining' = [remaining EXCEPT ![h] = @ \ {c}]
    BY <1>4 DEF StopContainer, NextRemaining
  <2>3. docker' \in [Containers -> DockerState] /\ blamed' \subseteq Containers
    BY <2>2 DEF DockerState
  <2>4. QED
    BY <1>0, <1>4, <2>1, <2>2, <2>3 DEF StopContainer, PcType
<1>5. CASE StopMark(h)
  <2>1. PcType'
    BY <1>1, <1>5 DEF StopMark, HandlerPc, ReconcilePc
  <2>2. QED
    BY <1>5, <2>1, ProxyTypes DEF StopMark, PcType
<1>6. CASE StopEnds(h)
  <2>1. PcType'
    BY <1>1, <1>6 DEF StopEnds, HandlerPc
  <2>2. /\ route' \subseteq Containers /\ dirty' \in BOOLEAN
        /\ watch' \in {"idle", "stamp"} /\ unseen' \in BOOLEAN
    BY <1>6, ProxyTypes DEF StopEnds
  <2>3. /\ op' \in [Handlers -> {"none", "stop", "stopOne", "scale", "restart", "remove"}
                                  \cup Deleting]
        /\ remaining' \in [Handlers -> SUBSET Containers]
        /\ late' \in [Handlers -> SUBSET Containers]
    BY <1>6, CloseTypes DEF StopEnds
  <2>4. QED
    BY <1>6, <2>1, <2>2, <2>3 DEF StopEnds, PcType
<1>7. CASE RestartContainer(h)
  <2>1. PICK c \in Containers :
          /\ \/ docker' = [docker EXCEPT ![c] = IF @ = "none" THEN @ ELSE "up"]
             \/ UNCHANGED docker
          /\ blamed' = blamed \/ blamed' = blamed \cup {c}
          /\ remaining' = [remaining EXCEPT ![h] = @ \ {c}]
    BY <1>7 DEF RestartContainer, NextRemaining
  <2>2. docker' \in [Containers -> DockerState] /\ blamed' \subseteq Containers
    BY <2>1 DEF DockerState
  <2>3. QED
    BY <1>7, <2>1, <2>2 DEF RestartContainer
<1>8. CASE RestartEnds(h)
  <2>1. PcType'
    BY <1>1, <1>8 DEF RestartEnds, HandlerPc
  <2>2. QED
    BY <1>8, <2>1, CloseTypes DEF RestartEnds, PcType
<1>9. CASE StopFails(h)
  <2>1. PcType'
    BY <1>1, <1>9 DEF StopFails, HandlerPc
  <2>2. remaining' \in [Handlers -> SUBSET Containers]
    <3>1. \/ remaining' = remaining
          \/ \E c : remaining' = [remaining EXCEPT ![h] = remaining[h] \ {c}]
      BY <1>9 DEF StopFails
    <3>2. ASSUME NEW c, remaining' = [remaining EXCEPT ![h] = remaining[h] \ {c}]
          PROVE  remaining' \in [Handlers -> SUBSET Containers]
      <4>1. remaining[h] \ {c} \in SUBSET Containers
        OBVIOUS
      <4>2. QED
        BY <3>2, <4>1
    <3>3. QED
      BY <3>1, <3>2
  <2>3. op' \in [Handlers -> {"none", "stop", "stopOne", "scale", "restart", "remove"}
                               \cup Deleting]
    BY <1>9 DEF StopFails, Deleting
  <2>4. blamed' \subseteq Containers
    BY <1>0, <1>9 DEF StopFails
  <2>5. /\ hand' \in [Processes -> Containers \cup {None}]
        /\ list' \in [Processes -> SUBSET Containers]
        /\ number' \in [Processes -> Nat]
    BY <1>9 DEF StopFails
  <2>6. QED
    BY <1>9, <2>1, <2>2, <2>3, <2>4, <2>5 DEF StopFails, PcType
<1>10. CASE Erase(h)
  <2>1. PcType'
    BY <1>1, <1>10 DEF Erase, HandlerPc
  <2>2. op' \in [Handlers -> {"none", "stop", "stopOne", "scale", "restart", "remove"}
                               \cup Deleting]
    BY <1>10 DEF Erase
  <2>3. QED
    BY <1>10, <2>1, <2>2 DEF Erase, PcType
<1>11. CASE RemoveContainer(h)
  <2>1. PcType'
    BY <1>1, <1>11 DEF RemoveContainer, HandlerPc
  <2>2. PICK c \in Containers :
          /\ \/ docker' = [docker EXCEPT ![c] = "none"] /\ UNCHANGED blamed
             \/ blamed' = blamed \cup {c} /\ UNCHANGED docker
          /\ hand' = [hand EXCEPT ![h] = c]
    BY <1>11 DEF RemoveContainer
  <2>3. docker' \in [Containers -> DockerState] /\ blamed' \subseteq Containers
    <3>1. docker' = docker \/ docker' = [docker EXCEPT ![c] = "none"]
      BY <2>2
    <3>2. docker' \in [Containers -> DockerState]
      BY <3>1 DEF DockerState
    <3>3. QED
      BY <2>2, <3>2
  <2>4. QED
    BY <1>0, <1>11, <2>1, <2>2, <2>3 DEF RemoveContainer, PcType
<1>12. CASE RemoveRow(h)
  <2>1. PcType'
    BY <1>1, <1>12 DEF RemoveRow, HandlerPc
  <2>2. unseen' \in BOOLEAN
    BY <1>12 DEF RemoveRow
  <2>3. QED
    BY <1>12, <2>1, <2>2, CloseTypes DEF RemoveRow, PcType
<1>13. CASE ReconcileStep(h)
  BY <1>0, <1>13, ReconcileTypes, ProcessFacts
<1>14. QED
  BY <1>2, <1>3, <1>4, <1>5, <1>6, <1>7, <1>8, <1>9, <1>10, <1>11, <1>12, <1>13
  DEF HandlerStep

\* Requests that arrive.
LEMMA RequestTypes ==
  ASSUME TypeOK, NEW h \in Handlers, Request(h)
  PROVE  TypeOK'
<1> USE DEF TypeOK, appVars, rowVars, proxyVars, jobVars, processVars, requestVars
<1>0. PcType /\ h \in Processes
  BY ProcessFacts DEF PcType
<1>1. ASSUME NEW kind \in {"stop", "stopOne", "scale", "restart", "remove"} \cup Deleting,
             NEW label \in HandlerPc, Open(h, kind, label)
      PROVE  /\ PcType'
             /\ op' \in [Handlers -> {"none", "stop", "stopOne", "scale", "restart",
                                       "remove"} \cup Deleting]
  BY <1>0, <1>1, GotoType, ProcessFacts DEF Open
<1>2. CASE StopRequest(h) \/ RestartRequest(h) \/ DeleteRequest(h)
  BY <1>1, <1>2 DEF StopRequest, RestartRequest, DeleteRequest, HandlerPc, Deleting, PcType
<1>3. ASSUME NEW n \in 0..MaxReplicas, ScaleRequest(h, n)
      PROVE  TypeOK'
  BY <1>1, <1>3 DEF ScaleRequest, HandlerPc, PcType
<1>4. ASSUME NEW c \in Containers, StopOneRequest(h, c) \/ RemoveRequest(h, c)
      PROVE  TypeOK'
  <2>1. remaining' = [remaining EXCEPT ![h] = {c}]
    BY <1>4 DEF StopOneRequest, RemoveRequest
  <2>2. remaining' \in [Handlers -> SUBSET Containers]
    BY <2>1
  <2>3. CASE StopOneRequest(h, c)
    BY <1>1, <2>2, <2>3 DEF StopOneRequest, HandlerPc, PcType
  <2>4. CASE RemoveRequest(h, c)
    BY <1>1, <2>2, <2>4 DEF RemoveRequest, HandlerPc, PcType
  <2>5. QED
    BY <1>4, <2>3, <2>4
<1>5. QED
  BY <1>2, <1>3, <1>4 DEF Request

\* A process that breaks off, and the crash of all of them.
LEMMA BreakTypes ==
  ASSUME TypeOK, Crash \/ \E p \in Processes : BreakOff(p)
  PROVE  TypeOK'
<1> USE DEF TypeOK, appVars, rowVars, proxyVars, jobVars, processVars, requestVars
<1>0. PcType
  BY DEF PcType
<1>1. ASSUME NEW p \in Processes, BreakOff(p)
      PROVE  TypeOK'
  <2>1. PcType'
    BY <1>0, <1>1, GotoType, ProcessFacts DEF BreakOff
  <2>2. blamed' \subseteq Containers
    BY <1>1 DEF BreakOff
  <2>3. /\ hand' \in [Processes -> Containers \cup {None}]
        /\ list' \in [Processes -> SUBSET Containers]
        /\ number' \in [Processes -> Nat]
    BY <1>1 DEF BreakOff
  <2>4. QED
    BY <1>1, <2>1, <2>2, <2>3, CloseTypes DEF BreakOff, PcType
<1>2. CASE Crash
  <2>1. PcType'
    BY <1>2, ProcessFacts DEF Crash, PcType, WorkerPc, HandlerPc
  <2>2. blamed' \subseteq Containers
    BY <1>2 DEF Crash
  <2>3. late' \in [Handlers -> SUBSET Containers]
    BY <1>2 DEF Crash
  <2>4. QED
    BY <1>2, <2>1, <2>2, <2>3 DEF Crash, PcType
<1>3. QED
  BY <1>1, <1>2

\* Deployments asked for, verdicts, health checks, WatchChanges and Docker.
LEMMA OutsideTypes ==
  ASSUME TypeOK, OutsideStep
  PROVE  TypeOK'
<1> USE DEF TypeOK, appVars, rowVars, proxyVars, jobVars, processVars, requestVars
<1>1. CASE Deploy \/ HookDeploy
  BY <1>1, QueueTypes DEF Deploy, HookDeploy
<1>2. CASE WatchGenerates \/ WatchStamps
  BY <1>2, ProxyTypes DEF WatchGenerates, WatchStamps
<1>3. CASE \E v \in verdicts : Verdict(v) \/ VerdictLost(v)
  BY <1>3 DEF Verdict, VerdictLost
<1>4. ASSUME NEW c \in Containers, AskHealth(c)
      PROVE  TypeOK'
  <2>1. \/ check' = [check EXCEPT ![c] = "healthy"]
        \/ check' = [check EXCEPT ![c] = "unhealthy"]
    BY <1>4 DEF AskHealth
  <2>2. check' \in [Containers -> {"none", "healthy", "unhealthy"}]
    BY <2>1
  <2>3. QED
    BY <1>4, <2>2 DEF AskHealth
<1>5. ASSUME NEW c \in Containers, MarkHealth(c)
      PROVE  TypeOK'
  <2>1. check' \in [Containers -> {"none", "healthy", "unhealthy"}]
    BY <1>5 DEF MarkHealth
  <2>2. check[c] \in {"healthy", "unhealthy"}
    BY <1>5 DEF MarkHealth
  <2>3. CASE health' = [health EXCEPT ![c] = check[c]] /\ Touch
    BY <1>5, <2>1, <2>2, <2>3, ProxyTypes DEF MarkHealth
  <2>4. CASE UNCHANGED <<health, proxyVars>>
    BY <1>5, <2>1, <2>4 DEF MarkHealth
  <2>5. QED
    BY <1>5, <2>3, <2>4 DEF MarkHealth
<1>6. CASE \E c \in Containers : ContainerExits(c) \/ ContainerRecovers(c)
  <2>1. docker' \in [Containers -> DockerState]
    BY <1>6 DEF ContainerExits, ContainerRecovers, DockerState
  <2>2. QED
    BY <1>6, <2>1 DEF ContainerExits, ContainerRecovers
<1>7. QED
  BY <1>1, <1>2, <1>3, <1>4, <1>5, <1>6 DEF OutsideStep

\* Every step is one of the worker, of another process, of none, or the crash.
LEMMA NextCases ==
  ASSUME Next
  PROVE  \/ WorkerStep \/ OutsideStep \/ Crash
         \/ \E p \in Processes \ {"worker"} : ProcessStep(p)
<1>1. CASE TickerStep
  BY <1>1, ProcessFacts, RollingAssumption DEF TickerStep, ProcessStep
<1>2. CASE \E h \in Handlers : Request(h) \/ HandlerStep(h)
  BY <1>2, ProcessFacts DEF ProcessStep
<1>3. CASE \E p \in Processes : BreakOff(p)
  BY <1>3 DEF BreakOff, ProcessStep
<1>4. QED
  BY <1>1, <1>2, <1>3 DEF Next, OutsideStep

\* The other processes enqueue jobs at most, and each keeps to itself.
LEMMA OthersOwn ==
  ASSUME TypeOK, NEW p \in Processes \ {"worker"}, ProcessStep(p)
  PROVE  OnlyOwn(p) /\ JobIsKept
<1> USE DEF TypeOK, appVars, rowVars, proxyVars, jobVars, processVars, requestVars,
            OnlyOwn, JobIsKept, Goto, CloseRequest
<1>1. CASE BreakOff(p)
  BY <1>1 DEF BreakOff
<1>2. CASE LoopStep(p)
  BY <1>2 DEF LoopStep, TakeDown, SkipContainer, MarkStopped, LoopEnds
<1>3. CASE LoadApplication(p) \/ ListUnhealthy(p) \/ CountReplicas(p) \/ ListExcess(p)
  BY <1>3 DEF LoadApplication, ListUnhealthy, CountReplicas, ListExcess
<1>4. CASE Reroute(p) \/ Unroute(p) \/ SelfHeal(p) \/ SelfHealFails(p)
  BY <1>4 DEF Reroute, Unroute, SelfHeal, SelfHealFails
<1>5. CASE p = "ticker" /\ StartTick
  BY <1>5 DEF StartTick
<1>6. CASE p \in Handlers /\ Request(p)
  BY <1>6 DEF Request, StopRequest, RestartRequest, DeleteRequest, ScaleRequest,
              StopOneRequest, RemoveRequest, Open
<1>7. CASE p \in Handlers /\ (ScaleStatus(p) \/ ListAll(p) \/ StopContainer(p) \/ StopMark(p))
  BY <1>7 DEF ScaleStatus, ListAll, StopContainer, StopMark
<1>8. CASE p \in Handlers /\ (StopEnds(p) \/ RestartContainer(p) \/ RestartEnds(p) \/ Erase(p))
  BY <1>8 DEF StopEnds, RestartContainer, RestartEnds, Erase
<1>9. CASE p \in Handlers /\ (StopFails(p) \/ RemoveContainer(p) \/ RemoveRow(p))
  BY <1>9 DEF StopFails, RemoveContainer, RemoveRow
<1>10. QED
  BY <1>1, <1>2, <1>3, <1>4, <1>5, <1>6, <1>7, <1>8, <1>9
  DEF ProcessStep, ReconcileStep, HandlerStep

\* The worker keeps to itself as well, but for the history of what it saves.
LEMMA WorkerOwn ==
  ASSUME TypeOK, WorkerStep
  PROVE  /\ UNCHANGED <<appVars, op, remaining>>
         /\ \A q \in Processes \ {"worker"} :
              pc'[q] = pc[q] /\ hand'[q] = hand[q] /\ list'[q] = list[q]
         /\ \A h \in Handlers : late[h] \subseteq late'[h]
<1> USE DEF TypeOK, appVars, rowVars, proxyVars, jobVars, processVars, requestVars, Goto
<1>1. CASE TakeJob \/ CreateContainer \/ AllCreated \/ CheckNew \/ ListOld
  BY <1>1 DEF TakeJob, CreateContainer, AllCreated, CheckNew, ListOld
<1>2. CASE SaveContainer
  BY <1>2 DEF SaveContainer
<1>3. CASE LoopStep("worker")
  BY <1>3 DEF LoopStep, TakeDown, SkipContainer, MarkStopped, LoopEnds
<1>4. CASE Promote \/ RefreshRoute \/ ExpectBackends \/ VerifyRoute
  BY <1>4 DEF Promote, RefreshRoute, ExpectBackends, VerifyRoute
<1>5. CASE DeployFails \/ Report
  BY <1>5 DEF DeployFails, Report
<1>6. QED
  BY <1>1, <1>2, <1>3, <1>4, <1>5 DEF WorkerStep

\* Nor does anything outside touch what a process has read.
LEMMA OutsideOwn ==
  ASSUME OutsideStep
  PROVE  UNCHANGED <<processVars, requestVars>> /\ JobIsKept
<1> USE DEF appVars, rowVars, proxyVars, jobVars, processVars, requestVars, JobIsKept
<1>1. CASE Deploy \/ HookDeploy \/ WatchGenerates \/ WatchStamps
  BY <1>1 DEF Deploy, HookDeploy, WatchGenerates, WatchStamps
<1>2. CASE \E v \in verdicts : Verdict(v) \/ VerdictLost(v)
  BY <1>2 DEF Verdict, VerdictLost
<1>3. CASE \E c \in Containers :
             AskHealth(c) \/ MarkHealth(c) \/ ContainerExits(c) \/ ContainerRecovers(c)
  BY <1>3 DEF AskHealth, MarkHealth, ContainerExits, ContainerRecovers
<1>4. QED
  BY <1>1, <1>2, <1>3 DEF OutsideStep

\* A job that is kept is still where the worker's program counter says.
LEMMA JobFrame ==
  ASSUME Typed, JobIsKept, hand'["worker"] = hand["worker"],
         pc'["worker"] = pc["worker"]
  PROVE  JobIsAtPc'
<1>1. TypeOK /\ JobIsAtPc
  BY DEF Typed
<1>2. deployment' + Len(queue') <= MaxDeployments
  <2>1. CASE UNCHANGED queue
    BY <1>1, <2>1 DEF JobIsAtPc, JobIsKept
  <2>2. CASE RoomForJob /\ Enqueue(replicas)
    <3>1. Len(queue') = Len(queue) + 1 /\ Len(queue) \in Nat
      BY <1>1, <2>2, QueueTypes, LenProperties DEF TypeOK
    <3>2. QED
      BY <1>1, <2>2, <3>1, RollingAssumption DEF JobIsKept, RoomForJob, TypeOK
  <2>3. QED
    BY <2>1, <2>2 DEF JobIsKept
<1>3. QED
  BY <1>1, <1>2 DEF JobIsAtPc, JobIsKept, Own

\* The worker keeps its job in step with its program counter.
LEMMA WorkerJob ==
  ASSUME Typed, WorkerStep
  PROVE  JobIsAtPc'
<1> USE DEF appVars, rowVars, proxyVars, jobVars, processVars, requestVars, Goto
<1>0. TypeOK /\ JobIsAtPc /\ "worker" \in Processes
  BY ProcessFacts DEF Typed
<1>1. CASE TakeJob
  <2>1. /\ pc'["worker"] = "create"
        /\ deployment' = deployment + 1 /\ queue' = Tail(queue)
    BY <1>0, <1>1 DEF TakeJob, TypeOK
  <2>2. Len(queue') = Len(queue) - 1 /\ Len(queue) \in Nat
    BY <1>0, <1>1, <2>1, QueueTypes DEF TakeJob
  <2>3. deployment \in Nat /\ MaxDeployments \in Nat
    <3>1. MaxDeployments \in Nat
      BY RollingAssumption
    <3>2. deployment \in 0..MaxDeployments
      BY <1>0 DEF TypeOK
    <3>3. QED
      BY <3>1, <3>2
  <2>4. deployment' + Len(queue') <= MaxDeployments /\ deployment' > 0
    <3>1. deployment + Len(queue) <= MaxDeployments
      BY <1>0 DEF JobIsAtPc
    <3>2. deployment' = deployment + 1 /\ Len(queue') = Len(queue) - 1
      BY <2>1, <2>2
    <3>3. QED
      BY <2>2, <2>3, <3>1, <3>2
  <2>5. QED
    BY <2>1, <2>4 DEF JobIsAtPc
<1>2. CASE CreateContainer \/ SaveContainer
  <2>1. UNCHANGED <<deployment, queue, want>> /\ pc'["worker"] \in {"create", "save"}
    BY <1>0, <1>2 DEF CreateContainer, SaveContainer, TypeOK
  <2>2. pc'["worker"] = "save" => hand'["worker"] = Own(made) /\ made < want /\ made' = made
    BY <1>0, <1>2 DEF CreateContainer, SaveContainer, TypeOK
  <2>3. pc["worker"] # "idle"
    BY <1>2 DEF CreateContainer, SaveContainer
  <2>4. QED
    BY <1>0, <2>1, <2>2, <2>3 DEF JobIsAtPc, Own
<1>3. CASE AllCreated \/ CheckNew \/ ListOld
  BY <1>0, <1>3 DEF AllCreated, CheckNew, ListOld, JobIsAtPc, Own, TypeOK
<1>4. CASE LoopStep("worker")
  <2>1. /\ UNCHANGED <<deployment, queue, want, made, seen>>
        /\ pc["worker"] \in Loops
        /\ pc'["worker"] \in {pc["worker"], "promote"} \cup ReconcilePc
    BY <1>0, <1>4
    DEF LoopStep, TakeDown, SkipContainer, MarkStopped, LoopEnds, Looping, TypeOK,
        ReconcilePc, Loops
  <2>2. QED
    BY <1>0, <2>1 DEF JobIsAtPc, Own, Loops, ReconcilePc
<1>5. CASE \/ Promote \/ RefreshRoute \/ ExpectBackends \/ VerifyRoute \/ DeployFails
           \/ Report
  <2>1. /\ UNCHANGED <<deployment, queue, want, made, seen>>
        /\ pc["worker"] # "idle"
        /\ pc'["worker"] \in {"route", "ensure", "expect", "verify", "running", "failed",
                              "idle"}
    BY <1>0, <1>5 DEF Promote, RefreshRoute, ExpectBackends, VerifyRoute, DeployFails,
                      Report, TypeOK
  <2>2. QED
    BY <1>0, <2>1 DEF JobIsAtPc
<1>6. QED
  BY <1>1, <1>2, <1>3, <1>4, <1>5 DEF WorkerStep

\* Every step keeps the types and the worker's job.
LEMMA TypedStep == Typed /\ [Next]_vars => Typed'
<1> SUFFICES ASSUME Typed, [Next]_vars PROVE Typed'
  OBVIOUS
<1>0. TypeOK /\ "worker" \in Processes
  BY ProcessFacts DEF Typed
<1>1. CASE WorkerStep
  BY <1>1, WorkerTypes, WorkerJob DEF Typed
<1>2. CASE OutsideStep
  BY <1>0, <1>2, OutsideTypes, OutsideOwn, JobFrame DEF Typed, processVars
<1>3. CASE Crash
  <2>1. TypeOK'
    BY <1>0, <1>3, BreakTypes
  <2>2. JobIsAtPc'
    BY <1>0, <1>3 DEF Crash, JobIsAtPc, Typed, jobVars
  <2>3. QED
    BY <2>1, <2>2 DEF Typed
<1>4. ASSUME NEW p \in Processes \ {"worker"}, ProcessStep(p)
      PROVE  Typed'
  <2>1. TypeOK'
    BY <1>0, <1>4, BreakTypes, ReconcileTypes, RequestTypes, HandlerTypes DEF ProcessStep
  <2>2. JobIsAtPc'
    BY <1>0, <1>4, OthersOwn, JobFrame DEF OnlyOwn
  <2>3. QED
    BY <2>1, <2>2 DEF Typed
<1>5. CASE UNCHANGED vars
  BY <1>5 DEF Typed, TypeOK, JobIsAtPc, Own, vars, appVars, rowVars, proxyVars, jobVars,
              processVars, requestVars
<1>6. QED
  BY <1>1, <1>2, <1>3, <1>4, <1>5, NextCases

\* Every variable keeps its type: the worker's indices stay within its job, whose number
\* stays within the jobs there were (processDeployment, deployContainers).
THEOREM TypeCorrect == Spec => []TypeOK
<1>1. Typed => TypeOK
  BY DEF Typed
<1>2. QED
  BY <1>1, TypedInit, TypedStep, PTL DEF Spec

-----------------------------------------------------------------------------
(***************************************************************************)
(* What most steps leave alone, and what all of them do with containers    *)
(* that the worker has not saved.                                          *)
(***************************************************************************)
\* A step that starts, stops and writes no container, and lets nobody go on who has one
\* in hand.
Quiet ==
  /\ UNCHANGED <<row, docker, hand>> /\ blamed \subseteq blamed'
  /\ \A p \in Processes : hand[p] # None => pc'[p] = pc[p]

HandlerLoud(h) ==
  \/ StopContainer(h) \/ StopMark(h) \/ RestartContainer(h) \/ StopFails(h) \/ Erase(h)
  \/ RemoveContainer(h) \/ RemoveRow(h)

Loud ==
  \/ CreateContainer \/ SaveContainer \/ Crash
  \/ \E p \in Processes : TakeDown(p) \/ MarkStopped(p) \/ BreakOff(p)
  \/ \E h \in Handlers : HandlerLoud(h)
  \/ \E c \in Containers : ContainerExits(c) \/ ContainerRecovers(c)

\* Every step is quiet or one of those.
LEMMA StepCases ==
  ASSUME Typed, HandAtPc, [Next]_vars
  PROVE  Quiet \/ Loud
<1> USE DEF appVars, rowVars, proxyVars, jobVars, processVars, requestVars, Goto
<1>0. TypeOK
  BY DEF Typed
<1>1. \A p \in Processes : hand[p] # None => pc[p] \in Holding
  BY DEF HandAtPc
<1>2. ASSUME WorkerStep PROVE Quiet \/ Loud
  <2>0. "worker" \in Processes
    BY ProcessFacts
  <2>1. CASE TakeJob \/ AllCreated \/ CheckNew \/ ListOld
    <3>1. UNCHANGED <<row, docker, hand, blamed>>
      BY <2>1 DEF TakeJob, AllCreated, CheckNew, ListOld
    <3>2. hand["worker"] = None
      BY <1>1, <2>0, <2>1 DEF TakeJob, AllCreated, CheckNew, ListOld, Holding, Loops
    <3>3. \A q \in Processes \ {"worker"} : pc'[q] = pc[q]
      BY <1>0, <2>1 DEF TakeJob, AllCreated, CheckNew, ListOld, TypeOK
    <3>4. QED
      BY <3>1, <3>2, <3>3 DEF Quiet
  <2>2. CASE Promote \/ RefreshRoute \/ ExpectBackends
    <3>1. UNCHANGED <<row, docker, hand, blamed>>
      BY <2>2 DEF Promote, RefreshRoute, ExpectBackends
    <3>2. hand["worker"] = None
      BY <1>1, <2>0, <2>2 DEF Promote, RefreshRoute, ExpectBackends, Holding, Loops
    <3>3. \A q \in Processes \ {"worker"} : pc'[q] = pc[q]
      BY <1>0, <2>2 DEF Promote, RefreshRoute, ExpectBackends, TypeOK
    <3>4. QED
      BY <3>1, <3>2, <3>3 DEF Quiet
  <2>3. CASE VerifyRoute \/ DeployFails \/ Report
    <3>1. UNCHANGED <<row, docker, hand, blamed>>
      BY <2>3 DEF VerifyRoute, DeployFails, Report
    <3>2. hand["worker"] = None
      BY <1>1, <2>0, <2>3 DEF VerifyRoute, DeployFails, Report, Holding, Loops
    <3>3. \A q \in Processes \ {"worker"} : pc'[q] = pc[q]
      BY <1>0, <2>3 DEF VerifyRoute, DeployFails, Report, TypeOK
    <3>4. QED
      BY <3>1, <3>2, <3>3 DEF Quiet
  <2>4. CASE SkipContainer("worker") \/ LoopEnds("worker")
    <3>1. UNCHANGED <<row, docker, hand>> /\ blamed \subseteq blamed'
          /\ hand["worker"] = None
      BY <2>4 DEF SkipContainer, LoopEnds, Looping
    <3>2. \A q \in Processes \ {"worker"} : pc'[q] = pc[q]
      BY <1>0, <2>4 DEF SkipContainer, LoopEnds, TypeOK
    <3>3. QED
      BY <3>1, <3>2 DEF Quiet
  <2>5. QED
    BY <1>2, <2>0, <2>1, <2>2, <2>3, <2>4 DEF WorkerStep, LoopStep, Loud
<1>3. ASSUME NEW p \in Processes \ {"worker"}, ProcessStep(p) PROVE Quiet \/ Loud
  <2>0. \A q \in Processes \ {p} : pc'[q] = pc[q]
    BY <1>0, <1>3, OthersOwn DEF OnlyOwn
  <2>1. CASE SkipContainer(p) \/ LoopEnds(p)
    <3>1. UNCHANGED <<row, docker, hand>> /\ blamed \subseteq blamed' /\ hand[p] = None
      BY <2>1 DEF SkipContainer, LoopEnds, Looping
    <3>2. QED
      BY <2>0, <3>1 DEF Quiet
  <2>2. CASE LoadApplication(p) \/ ListUnhealthy(p) \/ CountReplicas(p) \/ ListExcess(p)
    <3>1. UNCHANGED <<row, docker, hand, blamed>>
      BY <2>2 DEF LoadApplication, ListUnhealthy, CountReplicas, ListExcess
    <3>2. hand[p] = None
      BY <1>1, <2>2
      DEF LoadApplication, ListUnhealthy, CountReplicas, ListExcess, Holding, Loops
    <3>3. QED
      BY <2>0, <3>1, <3>2 DEF Quiet
  <2>3. CASE Reroute(p) \/ Unroute(p) \/ SelfHeal(p) \/ SelfHealFails(p)
    <3>1. UNCHANGED <<row, docker, hand, blamed>>
      BY <2>3 DEF Reroute, Unroute, SelfHeal, SelfHealFails
    <3>2. hand[p] = None
      BY <1>1, <2>3 DEF Reroute, Unroute, SelfHeal, SelfHealFails, Holding, Loops
    <3>3. QED
      BY <2>0, <3>1, <3>2 DEF Quiet
  <2>4. CASE p = "ticker" /\ StartTick
    <3>1. UNCHANGED <<row, docker, hand, blamed>>
      BY <2>4 DEF StartTick
    <3>2. hand[p] = None
      BY <1>1, <2>4 DEF StartTick, Holding, Loops
    <3>3. QED
      BY <2>0, <3>1, <3>2 DEF Quiet
  <2>5. CASE p \in Handlers /\ Request(p)
    <3>1. UNCHANGED <<row, docker, hand, blamed>>
      BY <2>5 DEF Request, StopRequest, RestartRequest, DeleteRequest, ScaleRequest,
                  StopOneRequest, RemoveRequest
    <3>2. pc[p] = "idle"
      BY <2>5 DEF Request, StopRequest, RestartRequest, DeleteRequest, ScaleRequest,
                  StopOneRequest, RemoveRequest, Open
    <3>3. hand[p] = None
      BY <1>1, <3>2 DEF Holding, Loops
    <3>4. QED
      BY <2>0, <3>1, <3>3 DEF Quiet
  <2>6. CASE p \in Handlers /\ (ScaleStatus(p) \/ ListAll(p) \/ StopEnds(p) \/ RestartEnds(p))
    <3>1. UNCHANGED <<row, docker, hand, blamed>>
      BY <2>6 DEF ScaleStatus, ListAll, StopEnds, RestartEnds
    <3>2. pc[p] \in {"scaleStatus", "stopList", "restartList", "stopNext", "restartNext"}
      BY <2>6 DEF ScaleStatus, ListAll, StopEnds, RestartEnds
    <3>3. hand[p] = None
      BY <1>1, <3>2 DEF Holding, Loops
    <3>4. QED
      BY <2>0, <3>1, <3>3 DEF Quiet
  <2>7. QED
    BY <1>3, <2>1, <2>2, <2>3, <2>4, <2>5, <2>6
    DEF ProcessStep, ReconcileStep, LoopStep, HandlerStep, HandlerLoud, Loud
<1>4. ASSUME OutsideStep PROVE Quiet \/ Loud
  <2>1. CASE Deploy \/ HookDeploy \/ WatchGenerates \/ WatchStamps
             \/ \E v \in verdicts : Verdict(v) \/ VerdictLost(v)
    BY <2>1 DEF Deploy, HookDeploy, WatchGenerates, WatchStamps, Verdict, VerdictLost, Quiet
  <2>2. CASE \E c \in Containers : AskHealth(c) \/ MarkHealth(c)
    BY <2>2 DEF AskHealth, MarkHealth, Quiet
  <2>3. QED
    BY <1>4, <2>1, <2>2 DEF OutsideStep, Loud
<1>5. CASE UNCHANGED vars
  BY <1>5 DEF vars, Quiet
<1>6. QED
  BY <1>2, <1>3, <1>4, <1>5, NextCases DEF Loud

\* A process has a container in hand only where it is about to write it.
LEMMA HandAtPcStep ==
  ASSUME Typed, HandAtPc, [Next]_vars
  PROVE  HandAtPc'
<1> USE DEF HandAtPc, TypeOK
<1>0. TypeOK /\ PcType /\ "worker" \in Processes
  BY ProcessFacts DEF Typed, PcType
<1>1. CASE Quiet
  BY <1>1 DEF Quiet
<1>2. CASE CreateContainer \/ SaveContainer
  <2>1. \A q \in Processes \ {"worker"} : hand'[q] = hand[q] /\ pc'[q] = pc[q]
    BY <1>0, <1>2 DEF CreateContainer, SaveContainer, Goto
  <2>2. hand'["worker"] = None \/ pc'["worker"] = "save"
    BY <1>0, <1>2 DEF CreateContainer, SaveContainer, Goto
  <2>3. QED
    BY <2>1, <2>2 DEF Holding
<1>3. CASE Crash
  BY <1>3 DEF Crash
<1>4. ASSUME NEW p \in Processes, TakeDown(p) \/ MarkStopped(p) \/ BreakOff(p)
      PROVE  HandAtPc'
  BY <1>0, <1>4 DEF TakeDown, MarkStopped, BreakOff, Looping, Goto, Holding, processVars
<1>5. ASSUME NEW h \in Handlers, HandlerLoud(h)
      PROVE  HandAtPc'
  <2>0. h \in Processes
    BY ProcessFacts
  <2>1. CASE StopContainer(h) \/ StopMark(h) \/ StopFails(h)
    BY <1>0, <2>0, <2>1 DEF StopContainer, StopMark, StopFails, Goto, Holding
  <2>2. CASE RestartContainer(h)
    BY <2>2 DEF RestartContainer, processVars
  <2>3. CASE Erase(h)
    <3>1. hand[h] = None
      BY <1>0, <2>0, <2>3 DEF Erase, Holding, Loops
    <3>2. QED
      BY <1>0, <2>0, <2>3, <3>1 DEF Erase, Goto
  <2>4. CASE RemoveContainer(h) \/ RemoveRow(h)
    BY <1>0, <2>0, <2>4 DEF RemoveContainer, RemoveRow, Goto, Holding
  <2>5. QED
    BY <1>5, <2>1, <2>2, <2>3, <2>4 DEF HandlerLoud
<1>6. CASE \E c \in Containers : ContainerExits(c) \/ ContainerRecovers(c)
  BY <1>6 DEF ContainerExits, ContainerRecovers, processVars
<1>7. QED
  BY <1>1, <1>2, <1>3, <1>4, <1>5, <1>6, StepCases DEF Loud

\* What a step adds to the rows, and to what processes have read, had a row before, or
\* is what the worker saves.
KnownOnly ==
  /\ \A c \in Containers :
       row'[c] # "none" =>
         row[c] # "none" \/ (pc["worker"] = "save" /\ pc'["worker"] # "save"
                               /\ c = hand["worker"] /\ made' = made + 1)
  /\ \A p \in Processes, c \in Containers :
       c \in list'[p] => c \in list[p] \/ row[c] # "none"
  /\ \A h \in Handlers, c \in Containers :
       c \in remaining'[h] => c \in remaining[h] \/ row[c] # "none"

\* The rows of every list a process reads.
LEMMA ListedRows ==
  ASSUME TypeOK
  PROVE  /\ Running \subseteq {c \in Containers : row[c] # "none"}
         /\ Unhealthy \subseteq Running /\ Backends \subseteq Running
         /\ \A n : First(n, Backends) \subseteq Running
  BY DEF Running, Unhealthy, Backends, First

\* Every step adds only what is known.
LEMMA StepIsKnown ==
  ASSUME Typed, [Next]_vars
  PROVE  KnownOnly
<1> USE DEF appVars, rowVars, proxyVars, jobVars, processVars, requestVars
<1>0. TypeOK /\ "worker" \in Processes /\ Handlers \subseteq Processes
  BY ProcessFacts DEF Typed
<1>a. ASSUME UNCHANGED <<row, list, remaining>> PROVE KnownOnly
  BY <1>a DEF KnownOnly
<1>b. ASSUME NEW c \in Containers, WriteStopped(c)
      PROVE  \A d \in Containers : row'[d] # "none" => row[d] # "none"
  BY <1>0, <1>b DEF WriteStopped, TypeOK
<1>c. ASSUME NEW p, CloseRequest(p)
      PROVE  \A h \in Handlers : remaining'[h] \subseteq remaining[h]
  BY <1>c DEF CloseRequest
<1>1. ASSUME NEW p \in Processes, LoopStep(p) PROVE KnownOnly
  <2>1. CASE TakeDown(p) \/ SkipContainer(p)
    <3>1. UNCHANGED <<row, remaining>> /\ \A q \in Processes : list'[q] \subseteq list[q]
      BY <1>0, <2>1 DEF TakeDown, SkipContainer, TypeOK
    <3>2. QED
      BY <3>1 DEF KnownOnly
  <2>2. CASE MarkStopped(p)
    <3>1. hand[p] \in Containers
      BY <1>0, <2>2 DEF MarkStopped, TypeOK
    <3>2. \A d \in Containers : row'[d] # "none" => row[d] # "none"
      BY <1>b, <2>2, <3>1 DEF MarkStopped
    <3>3. UNCHANGED <<list, remaining>>
      BY <2>2 DEF MarkStopped
    <3>4. QED
      BY <3>2, <3>3 DEF KnownOnly
  <2>3. CASE LoopEnds(p)
    BY <1>a, <2>3 DEF LoopEnds
  <2>4. QED
    BY <1>1, <2>1, <2>2, <2>3 DEF LoopStep
<1>2. CASE WorkerStep
  <2>1. CASE TakeJob \/ CreateContainer \/ AllCreated \/ CheckNew \/ Promote \/ RefreshRoute
             \/ DeployFails \/ Report
    BY <1>a, <2>1 DEF TakeJob, CreateContainer, AllCreated, CheckNew, Promote, RefreshRoute,
                      DeployFails, Report
  <2>2. CASE SaveContainer
    <3>1. UNCHANGED <<list, remaining>>
          /\ \A c \in Containers \ {hand["worker"]} : row'[c] = row[c]
      BY <1>0, <2>2 DEF SaveContainer, TypeOK
    <3>2. pc["worker"] = "save" /\ pc'["worker"] = "create" /\ made' = made + 1
      BY <1>0, <2>2 DEF SaveContainer, Goto, TypeOK
    <3>3. QED
      BY <3>1, <3>2 DEF KnownOnly
  <2>3. CASE ListOld \/ ExpectBackends \/ VerifyRoute
    <3>1. UNCHANGED <<row, remaining>>
      BY <2>3 DEF ListOld, ExpectBackends, VerifyRoute
    <3>2. \E S \in SUBSET Running : list' = [list EXCEPT !["worker"] = S]
      <4>1. CASE ListOld
        BY <4>1 DEF ListOld
      <4>2. CASE ExpectBackends
        BY <1>0, <4>2, ListedRows DEF ExpectBackends
      <4>3. CASE VerifyRoute
        BY <4>3 DEF VerifyRoute
      <4>4. QED
        BY <2>3, <4>1, <4>2, <4>3
    <3>3. \A q \in Processes : list'[q] \subseteq list[q] \cup Running
      BY <1>0, <3>2 DEF TypeOK
    <3>4. QED
      BY <1>0, <3>1, <3>3, ListedRows DEF KnownOnly
  <2>4. QED
    BY <1>0, <1>1, <1>2, <2>1, <2>2, <2>3 DEF WorkerStep
<1>3. ASSUME NEW p \in Processes \ {"worker"}, ProcessStep(p) PROVE KnownOnly
  <2>1. CASE BreakOff(p)
    <3>1. row' = row /\ \A q \in Processes : list'[q] \subseteq list[q]
      BY <1>0, <2>1 DEF BreakOff, TypeOK
    <3>2. \A h \in Handlers : remaining'[h] \subseteq remaining[h]
      BY <1>c, <2>1 DEF BreakOff
    <3>3. QED
      BY <3>1, <3>2 DEF KnownOnly
  <2>2. CASE LoadApplication(p) \/ ListUnhealthy(p) \/ ListExcess(p)
    <3>1. UNCHANGED <<row, remaining>>
      BY <2>2 DEF LoadApplication, ListUnhealthy, ListExcess
    <3>2. \/ list' = list \/ list' = [list EXCEPT ![p] = Running]
          \/ list' = [list EXCEPT ![p] = Unhealthy]
          \/ list' = [list EXCEPT ![p] = First(number[p], Backends)]
      BY <2>2 DEF LoadApplication, ListUnhealthy, ListExcess
    <3>3. \A q \in Processes : list'[q] \subseteq list[q] \cup Running
      BY <1>0, <3>2, ListedRows DEF TypeOK
    <3>4. QED
      BY <1>0, <3>1, <3>3, ListedRows DEF KnownOnly
  <2>3. CASE CountReplicas(p) \/ Reroute(p) \/ Unroute(p) \/ SelfHeal(p)
    BY <1>a, <2>3 DEF CountReplicas, Reroute, Unroute, SelfHeal
  <2>4. CASE SelfHealFails(p)
    BY <1>c, <2>4 DEF SelfHealFails, KnownOnly
  <2>5. CASE p = "ticker" /\ StartTick
    BY <1>a, <2>5 DEF StartTick
  <2>6. CASE p \in Handlers /\ Request(p)
    <3>1. ASSUME NEW c \in Containers, StopOneRequest(p, c) \/ RemoveRequest(p, c)
          PROVE  KnownOnly
      <4>1. UNCHANGED <<row, list>> /\ row[c] # "none" /\ remaining' = [remaining EXCEPT ![p] = {c}]
        BY <3>1 DEF StopOneRequest, RemoveRequest, Running
      <4>2. \A h \in Handlers : remaining'[h] \subseteq remaining[h] \cup {c}
        BY <1>0, <4>1 DEF TypeOK
      <4>3. QED
        BY <4>1, <4>2 DEF KnownOnly
    <3>2. QED
      BY <1>a, <2>6, <3>1
      DEF Request, StopRequest, RestartRequest, DeleteRequest, ScaleRequest
  <2>7. CASE p \in Handlers /\ (ScaleStatus(p) \/ StopMark(p) \/ StopEnds(p) \/ RestartEnds(p))
    <3>1. list' = list
      BY <2>7 DEF ScaleStatus, StopMark, StopEnds, RestartEnds
    <3>2. \A d \in Containers : row'[d] # "none" => row[d] # "none"
      BY <1>0, <2>7 DEF ScaleStatus, StopMark, StopEnds, RestartEnds, WriteStopped, TypeOK
    <3>3. \A h \in Handlers : remaining'[h] \subseteq remaining[h]
      BY <1>c, <2>7 DEF ScaleStatus, StopMark, StopEnds, RestartEnds
    <3>4. QED
      BY <3>1, <3>2, <3>3 DEF KnownOnly
  <2>8. CASE p \in Handlers /\ ListAll(p)
    <3>1. UNCHANGED <<row, list>>
          /\ remaining' = [remaining EXCEPT ![p] = {c \in Containers : row[c] # "none"}]
      BY <2>8 DEF ListAll
    <3>2. QED
      BY <1>0, <3>1 DEF KnownOnly, TypeOK
  <2>9. CASE p \in Handlers /\ (StopContainer(p) \/ RestartContainer(p) \/ RemoveContainer(p))
    <3>1. UNCHANGED <<row, list>>
      BY <2>9 DEF StopContainer, RestartContainer, RemoveContainer
    <3>2. \A h \in Handlers : remaining'[h] \subseteq remaining[h]
      <4>1. CASE StopContainer(p) \/ RestartContainer(p)
        <5>1. \E c : remaining' = [remaining EXCEPT ![p] = remaining[p] \ {c}]
          BY <4>1 DEF StopContainer, RestartContainer
        <5>2. QED
          BY <1>0, <5>1 DEF TypeOK
      <4>2. CASE RemoveContainer(p)
        BY <1>0, <4>2 DEF RemoveContainer, TypeOK
      <4>3. QED
        BY <2>9, <4>1, <4>2
    <3>3. QED
      BY <3>1, <3>2 DEF KnownOnly
  <2>10. CASE p \in Handlers /\ StopFails(p)
    <3>1. row' = row /\ \A q \in Processes : list'[q] \subseteq list[q]
      BY <1>0, <2>10 DEF StopFails, TypeOK
    <3>2. \A h \in Handlers : remaining'[h] \subseteq remaining[h]
      BY <1>0, <2>10 DEF StopFails, TypeOK
    <3>3. QED
      BY <3>1, <3>2 DEF KnownOnly
  <2>11. CASE p \in Handlers /\ (Erase(p) \/ RemoveRow(p))
    <3>1. list' = list
      BY <2>11 DEF Erase, RemoveRow
    <3>2. \A d \in Containers : row'[d] # "none" => row[d] # "none"
      BY <1>0, <2>11 DEF Erase, RemoveRow, TypeOK
    <3>3. \A h \in Handlers : remaining'[h] \subseteq remaining[h]
      BY <1>c, <2>11 DEF Erase, RemoveRow
    <3>4. QED
      BY <3>1, <3>2, <3>3 DEF KnownOnly
  <2>12. QED
    BY <1>1, <1>3, <2>1, <2>2, <2>3, <2>4, <2>5, <2>6, <2>7, <2>8, <2>9, <2>10, <2>11
    DEF ProcessStep, ReconcileStep, HandlerStep
<1>4. CASE OutsideStep
  <2>1. row' = row
    BY <1>4 DEF OutsideStep, Deploy, HookDeploy, WatchGenerates, WatchStamps, Verdict,
                VerdictLost, AskHealth, MarkHealth, ContainerExits, ContainerRecovers
  <2>2. QED
    BY <1>4, <1>a, <2>1, OutsideOwn
<1>5. CASE Crash
  BY <1>5 DEF Crash, KnownOnly
<1>6. CASE UNCHANGED vars
  BY <1>6, <1>a DEF vars
<1>7. QED
  BY <1>2, <1>3, <1>4, <1>5, <1>6, NextCases

\* The worker counts what it makes when it takes a job and when it saves a container.
LEMMA JobMoves ==
  ASSUME Typed, [Next]_vars
  PROVE  (deployment' = deployment /\ made' = made) \/ TakeJob \/ SaveContainer
<1>1. CASE WorkerStep
  BY <1>1 DEF WorkerStep, CreateContainer, AllCreated, CheckNew, ListOld, LoopStep,
              TakeDown, SkipContainer, MarkStopped, LoopEnds, Promote, RefreshRoute,
              ExpectBackends, VerifyRoute, DeployFails, Report, jobVars
<1>2. CASE OutsideStep
  BY <1>2, OutsideOwn DEF JobIsKept
<1>3. CASE Crash \/ UNCHANGED vars
  BY <1>3 DEF Crash, vars, jobVars
<1>4. CASE \E p \in Processes \ {"worker"} : ProcessStep(p)
  BY <1>4, OthersOwn DEF JobIsKept, Typed
<1>5. QED
  BY <1>1, <1>2, <1>3, <1>4, NextCases

\* What is fresh after a step was fresh before, and the worker has not saved it since.
LEMMA FreshShrinks ==
  ASSUME Typed, Typed', [Next]_vars, NEW c \in Containers, Fresh(c)'
  PROVE  /\ Fresh(c)
         /\ ~(pc["worker"] = "save" /\ c = hand["worker"] /\ made' = made + 1)
<1>0. /\ deployment \in Nat /\ made \in Nat
      /\ DeploymentOf(c) \in Nat /\ ReplicaIndex(c) \in Nat
  <2>1. c \in (1..MaxDeployments) \X (0..MaxReplicas - 1)
    BY DEF Containers
  <2>2. MaxDeployments \in Nat /\ MaxReplicas \in Nat
    BY RollingAssumption
  <2>3. deployment \in 0..MaxDeployments /\ made \in 0..want /\ want \in 0..MaxReplicas
    BY DEF Typed, TypeOK
  <2>4. DeploymentOf(c) \in 1..MaxDeployments /\ ReplicaIndex(c) \in 0..MaxReplicas - 1
    BY <2>1 DEF DeploymentOf, ReplicaIndex
  <2>5. QED
    BY <2>2, <2>3, <2>4
<1>1. (deployment' = deployment /\ made' = made) \/ TakeJob \/ SaveContainer
  BY JobMoves
<1>2. CASE deployment' = deployment /\ made' = made
  BY <1>0, <1>2 DEF Fresh
<1>3. CASE TakeJob
  <2>1. deployment' = deployment + 1 /\ pc["worker"] = "idle"
    BY <1>3 DEF TakeJob
  <2>2. QED
    BY <1>0, <2>1 DEF Fresh
<1>4. CASE SaveContainer
  <2>1. deployment' = deployment /\ made' = made + 1 /\ pc["worker"] = "save"
    BY <1>4 DEF SaveContainer
  <2>2. hand["worker"] = Own(made)
    BY <2>1 DEF Typed, JobIsAtPc
  <2>3. c = Own(made) => DeploymentOf(c) = deployment /\ ReplicaIndex(c) = made
    BY DEF Own, DeploymentOf, ReplicaIndex
  <2>4. QED
    BY <1>0, <2>1, <2>2, <2>3 DEF Fresh
<1>5. QED
  BY <1>1, <1>2, <1>3, <1>4

\* Where the worker is about to save, it has a fresh container of its own in hand.
LEMMA SavedIsFresh ==
  ASSUME Typed, pc["worker"] = "save"
  PROVE  /\ hand["worker"] \in Containers /\ hand["worker"] # None
         /\ Fresh(hand["worker"])
<1>1. hand["worker"] = Own(made) /\ made < want /\ deployment > 0 /\ TypeOK
  BY DEF Typed, JobIsAtPc
<1>2. made \in Nat
  BY <1>1 DEF TypeOK
<1>3. /\ Own(made) \in Containers
      /\ DeploymentOf(Own(made)) = deployment /\ ReplicaIndex(Own(made)) = made
  BY <1>1, <1>2, OwnIsContainer
<1>4. QED
  BY <1>1, <1>2, <1>3, RollingAssumption DEF Fresh

\* The worker is about to save what it has just created, and nothing else.
LEMMA SaveIsEntered ==
  ASSUME Typed, [Next]_vars, pc'["worker"] = "save"
  PROVE  \/ CreateContainer
         \/ pc["worker"] = "save" /\ hand'["worker"] = hand["worker"]
<1>0. TypeOK /\ "worker" \in Processes
  BY ProcessFacts DEF Typed
<1>1. CASE WorkerStep
  <2>1. CASE TakeJob \/ SaveContainer \/ AllCreated \/ ListOld \/ Promote
             \/ RefreshRoute
    BY <1>0, <2>1 DEF TakeJob, SaveContainer, AllCreated, ListOld, Promote,
                      RefreshRoute, Goto, TypeOK
  <2>2. CASE CheckNew \/ ExpectBackends \/ VerifyRoute \/ DeployFails \/ Report
    BY <1>0, <2>2 DEF CheckNew, ExpectBackends, VerifyRoute, DeployFails, Report, Goto,
                      TypeOK, processVars
  <2>3. CASE LoopStep("worker")
    BY <1>0, <2>3 DEF LoopStep, TakeDown, SkipContainer, MarkStopped, LoopEnds, Looping,
                      Loops, Goto, TypeOK
  <2>4. QED
    BY <1>1, <2>1, <2>2, <2>3 DEF WorkerStep
<1>2. CASE OutsideStep \/ UNCHANGED vars
  BY <1>2, OutsideOwn DEF processVars, vars
<1>3. CASE Crash
  BY <1>0, <1>3 DEF Crash
<1>4. CASE \E p \in Processes \ {"worker"} : ProcessStep(p)
  BY <1>0, <1>4, OthersOwn DEF OnlyOwn
<1>5. QED
  BY <1>1, <1>2, <1>3, <1>4, NextCases

\* What a loud step of a process takes in hand is known to it.
LEMMA TakenIsListed ==
  ASSUME TypeOK
  PROVE  /\ \A p \in Processes : TakeDown(p) =>
              /\ hand[p] = None
              /\ \E c \in list[p] :
                   /\ hand' = [hand EXCEPT ![p] = c]
                   /\ \/ docker' = [docker EXCEPT ![c] = "none"] /\ blamed' = blamed
                      \/ docker' = docker /\ blamed' = blamed \cup {c}
         /\ \A h \in Handlers : StopContainer(h) =>
              \E c \in remaining[h] :
                /\ hand' = [hand EXCEPT ![h] = c]
                /\ remaining' = [remaining EXCEPT ![h] = @ \ {c}]
                /\ \/ /\ docker' = [docker EXCEPT ![c] = IF @ = "none" THEN @ ELSE "stopped"]
                      /\ blamed' = blamed
                   \/ docker' = docker /\ blamed' = blamed \cup {c}
         /\ \A h \in Handlers : RemoveContainer(h) =>
              \E c \in remaining[h] :
                /\ hand' = [hand EXCEPT ![h] = c]
                /\ \/ docker' = [docker EXCEPT ![c] = "none"] /\ blamed' = blamed
                   \/ docker' = docker /\ blamed' = blamed \cup {c}
         /\ \A h \in Handlers : RestartContainer(h) =>
              \E c \in remaining[h] :
                /\ \/ docker' = docker /\ blamed' = blamed
                   \/ /\ docker' = [docker EXCEPT ![c] = IF @ = "none" THEN @ ELSE "up"]
                      /\ blamed' = IF docker[c] = "stopped" THEN blamed \cup {c} ELSE blamed
  BY DEF TakeDown, Looping, NextInLoop, StopContainer, RemoveContainer, RestartContainer,
         NextRemaining

\* Nobody but the worker comes to know of a container before it is saved.
LEMMA FreshStep ==
  ASSUME Typed, Typed', HandAtPc, FreshIsHidden, [Next]_vars
  PROVE  FreshIsHidden'
<1> DEFINE Secret(c) == /\ row[c] = "none"
                        /\ \A p \in Processes :
                             c \notin list[p] /\ (hand[p] = c => pc[p] = "save")
                        /\ \A h \in Handlers : c \notin remaining[h]
<1>0. /\ TypeOK /\ "worker" \in Processes /\ Handlers \subseteq Processes
      /\ \A h \in Handlers : h # "worker"
      /\ None \notin Containers
  BY ProcessFacts, RollingAssumption DEF Typed
<1>1. ASSUME NEW c \in Containers, Fresh(c)'
      PROVE  Secret(c)'
  <2>0. /\ Fresh(c) /\ Secret(c)
        /\ ~(pc["worker"] = "save" /\ c = hand["worker"] /\ made' = made + 1)
    BY <1>1, FreshShrinks DEF FreshIsHidden
  <2>1. /\ row'[c] = "none"
        /\ \A p \in Processes : c \notin list'[p]
        /\ \A h \in Handlers : c \notin remaining'[h]
    BY <2>0, StepIsKnown DEF KnownOnly
  <2>2. \A p \in Processes : hand'[p] = c => pc'[p] = "save"
    <3>1. CASE Quiet
      BY <1>0, <2>0, <3>1 DEF Quiet
    <3>2. CASE CreateContainer \/ SaveContainer
      <4>1. \A q \in Processes \ {"worker"} : hand'[q] = hand[q] /\ pc'[q] = pc[q]
        BY <1>0, <3>2 DEF CreateContainer, SaveContainer, Goto, TypeOK
      <4>2. hand'["worker"] = None \/ pc'["worker"] = "save"
        BY <1>0, <3>2 DEF CreateContainer, SaveContainer, Goto, TypeOK
      <4>3. QED
        BY <1>0, <2>0, <4>1, <4>2
    <3>3. CASE Crash
      BY <1>0, <3>3 DEF Crash
    <3>4. ASSUME NEW q \in Processes, TakeDown(q) \/ MarkStopped(q) \/ BreakOff(q)
          PROVE  \A p \in Processes : hand'[p] = c => pc'[p] = "save"
      <4>1. hand'[q] # c
        BY <1>0, <2>0, <3>4, TakenIsListed DEF MarkStopped, BreakOff, TypeOK
      <4>2. \A p \in Processes \ {q} : hand'[p] = hand[p] /\ pc'[p] = pc[p]
        BY <1>0, <3>4 DEF TakeDown, MarkStopped, BreakOff, Goto, TypeOK
      <4>3. QED
        BY <2>0, <4>1, <4>2
    <3>5. ASSUME NEW h \in Handlers, HandlerLoud(h)
          PROVE  \A p \in Processes : hand'[p] = c => pc'[p] = "save"
      <4>1. hand'[h] # c \/ (hand'[h] = hand[h] /\ pc[h] # "save")
        <5>1. CASE StopContainer(h) \/ RemoveContainer(h)
          BY <1>0, <2>0, <5>1, TakenIsListed DEF TypeOK
        <5>2. CASE StopMark(h) \/ StopFails(h) \/ RemoveRow(h)
          BY <1>0, <5>2 DEF StopMark, StopFails, RemoveRow, TypeOK
        <5>3. CASE RestartContainer(h) \/ Erase(h)
          BY <1>0, <5>3 DEF RestartContainer, Erase, processVars
        <5>4. QED
          BY <3>5, <5>1, <5>2, <5>3 DEF HandlerLoud
      <4>2. \A p \in Processes \ {h} : hand'[p] = hand[p] /\ pc'[p] = pc[p]
        BY <1>0, <3>5, OthersOwn DEF OnlyOwn, ProcessStep, HandlerStep, HandlerLoud
      <4>3. QED
        BY <1>0, <2>0, <4>1, <4>2
    <3>6. CASE \E d \in Containers : ContainerExits(d) \/ ContainerRecovers(d)
      BY <2>0, <3>6 DEF ContainerExits, ContainerRecovers, processVars
    <3>7. QED
      BY <3>1, <3>2, <3>3, <3>4, <3>5, <3>6, StepCases DEF Loud
  <2>3. QED
    BY <2>1, <2>2
<1>2. ASSUME pc'["worker"] = "save"
      PROVE  Live(hand["worker"])'
  <2>1. CASE CreateContainer
    <3>1. /\ hand'["worker"] = Own(made) /\ Own(made) \in Containers
          /\ docker' = [docker EXCEPT ![Own(made)] = "up"]
      BY <1>0, <2>1, OwnIsContainer DEF CreateContainer, TypeOK, Typed, JobIsAtPc
    <3>2. QED
      BY <1>0, <3>1 DEF Live, TypeOK
  <2>2. CASE pc["worker"] = "save" /\ hand'["worker"] = hand["worker"]
    <3> DEFINE w == hand["worker"]
    <3>1. /\ w \in Containers /\ Live(w) /\ Secret(w)
      BY <2>2, SavedIsFresh DEF FreshIsHidden
    <3>2. docker[w] \in {"up", "exited"} => docker'[w] \in {"up", "exited"}
      <4> HIDE DEF w
      <4>1. CASE Quiet
        BY <4>1 DEF Quiet
      <4>2. CASE CreateContainer \/ SaveContainer
        BY <1>0, <1>2, <2>2, <4>2 DEF CreateContainer, SaveContainer, Goto, TypeOK
      <4>3. CASE Crash
        BY <4>3 DEF Crash
      <4>4. CASE \E q \in Processes : TakeDown(q) \/ MarkStopped(q) \/ BreakOff(q)
        BY <1>0, <3>1, <4>4, TakenIsListed DEF MarkStopped, BreakOff, TypeOK
      <4>5. ASSUME NEW h \in Handlers, HandlerLoud(h)
            PROVE  docker'[w] = docker[w] \/ docker'[w] = "up"
        <5>1. CASE StopContainer(h) \/ RemoveContainer(h) \/ RestartContainer(h)
          BY <1>0, <3>1, <5>1, TakenIsListed DEF TypeOK
        <5>2. CASE StopMark(h) \/ StopFails(h) \/ RemoveRow(h) \/ Erase(h)
          BY <5>2 DEF StopMark, StopFails, RemoveRow, Erase
        <5>3. QED
          BY <4>5, <5>1, <5>2 DEF HandlerLoud
      <4>6. CASE \E d \in Containers : ContainerExits(d) \/ ContainerRecovers(d)
        BY <1>0, <3>1, <4>6 DEF ContainerExits, ContainerRecovers, TypeOK
      <4>7. QED
        BY <4>1, <4>2, <4>3, <4>4, <4>5, <4>6, StepCases DEF Loud
    <3>3. QED
      BY <2>2, <3>1, <3>2 DEF Live
  <2>3. QED
    BY <1>2, <2>1, <2>2, SaveIsEntered
<1>3. QED
  BY <1>1, <1>2 DEF FreshIsHidden

Hidden == Typed /\ HandAtPc /\ FreshIsHidden

\* These hold initially and are kept together.
LEMMA HiddenInit == Init => Hidden
<1> SUFFICES ASSUME Init PROVE Hidden
  OBVIOUS
<1>1. HandAtPc
  BY DEF Init, HandAtPc
<1>2. FreshIsHidden
  BY RollingAssumption, ProcessFacts DEF Init, FreshIsHidden
<1>3. QED
  BY <1>1, <1>2, TypedInit DEF Hidden

LEMMA HiddenStep == Hidden /\ [Next]_vars => Hidden'
  BY TypedStep, HandAtPcStep, FreshStep DEF Hidden

-----------------------------------------------------------------------------
(***************************************************************************)
(* No ghosts.                                                              *)
(***************************************************************************)
\* A step that stops a container has it in hand, and lets go of it only when its row is
\* written or somebody is to blame.
LEMMA GhostStep ==
  ASSUME Hidden, NoGhost, [Next]_vars
  PROVE  NoGhost'
<1>0. /\ Typed /\ TypeOK /\ HandAtPc /\ FreshIsHidden
      /\ "worker" \in Processes /\ Handlers \subseteq Processes
      /\ None \notin Containers
  BY ProcessFacts, RollingAssumption DEF Hidden, Typed
<1> SUFFICES ASSUME NEW c \in Containers,
                    row'[c] = "running", docker'[c] \in {"none", "stopped"}
             PROVE  c \in blamed' \/ \E p \in Processes : hand'[p] = c
  BY DEF NoGhost
<1>b. row[c] = "running" /\ docker[c] \in {"none", "stopped"} =>
        c \in blamed \/ \E p \in Processes : hand[p] = c
  BY DEF NoGhost
<1>1. CASE Quiet
  BY <1>1, <1>b DEF Quiet
<1>2. CASE CreateContainer
  <2>1. UNCHANGED <<row, blamed>> /\ hand["worker"] = None
    BY <1>0, <1>2 DEF CreateContainer, HandAtPc, Holding, Loops, rowVars
  <2>2. \A q \in Processes \ {"worker"} : hand'[q] = hand[q]
    BY <1>0, <1>2 DEF CreateContainer, TypeOK
  <2>3. c # Own(made) /\ docker'[c] = docker[c]
    BY <1>0, <1>2 DEF CreateContainer, TypeOK
  <2>4. QED
    BY <1>0, <1>b, <2>1, <2>2, <2>3
<1>3. CASE SaveContainer
  <2>1. /\ docker' = docker /\ blamed \subseteq blamed'
        /\ c # hand["worker"] => row'[c] = row[c]
        /\ \A q \in Processes \ {"worker"} : hand'[q] = hand[q]
    BY <1>0, <1>3 DEF SaveContainer, TypeOK, rowVars
  <2>2. c # hand["worker"]
    BY <1>0, <1>3, <2>1 DEF SaveContainer, FreshIsHidden, Live
  <2>3. QED
    BY <1>b, <2>1, <2>2
<1>4. CASE Crash
  BY <1>0, <1>4, <1>b DEF Crash, rowVars
<1>5. ASSUME NEW q \in Processes, TakeDown(q)
      PROVE  c \in blamed' \/ \E p \in Processes : hand'[p] = c
  <2>1. row' = row
    BY <1>5 DEF TakeDown, rowVars
  <2>2. PICK d \in list[q] :
          /\ hand[q] = None /\ hand' = [hand EXCEPT ![q] = d]
          /\ \/ docker' = [docker EXCEPT ![d] = "none"] /\ blamed' = blamed
             \/ docker' = docker /\ blamed' = blamed \cup {d}
    BY <1>0, <1>5, TakenIsListed
  <2>3. CASE c = d
    BY <1>0, <2>2, <2>3 DEF TypeOK
  <2>4. CASE c # d
    BY <1>0, <1>b, <2>1, <2>2, <2>4 DEF TypeOK
  <2>5. QED
    BY <2>3, <2>4
<1>6. ASSUME NEW q \in Processes, MarkStopped(q)
      PROVE  c \in blamed' \/ \E p \in Processes : hand'[p] = c
  <2>1. /\ docker' = docker /\ hand' = [hand EXCEPT ![q] = None]
        /\ \/ WriteStopped(hand[q]) /\ blamed' = blamed
           \/ row' = row /\ blamed' = blamed \cup {hand[q]}
    BY <1>6 DEF MarkStopped
  <2>2. row'[c] = row[c] /\ (c = hand[q] => c \in blamed')
    BY <1>0, <2>1 DEF WriteStopped, TypeOK
  <2>3. QED
    BY <1>0, <1>b, <2>1, <2>2 DEF TypeOK
<1>7. ASSUME NEW q \in Processes, BreakOff(q)
      PROVE  c \in blamed' \/ \E p \in Processes : hand'[p] = c
  BY <1>0, <1>7, <1>b DEF BreakOff, TypeOK, rowVars
<1>8. ASSUME NEW h \in Handlers, HandlerLoud(h)
      PROVE  c \in blamed' \/ \E p \in Processes : hand'[p] = c
  <2>1. CASE StopContainer(h)
    <3>1. row' = row /\ hand[h] = None
      BY <1>0, <2>1 DEF StopContainer, rowVars, HandAtPc, Holding, Loops
    <3>2. PICK d \in remaining[h] :
            /\ hand' = [hand EXCEPT ![h] = d]
            /\ \/ /\ docker' = [docker EXCEPT ![d] = IF @ = "none" THEN @ ELSE "stopped"]
                  /\ blamed' = blamed
               \/ docker' = docker /\ blamed' = blamed \cup {d}
      BY <1>0, <2>1, TakenIsListed
    <3>3. QED
      BY <1>0, <1>b, <3>1, <3>2 DEF TypeOK
  <2>2. CASE RemoveContainer(h)
    <3>1. row' = row /\ hand[h] = None
      BY <1>0, <2>2 DEF RemoveContainer, rowVars, HandAtPc, Holding, Loops
    <3>2. PICK d \in remaining[h] :
            /\ hand' = [hand EXCEPT ![h] = d]
            /\ \/ docker' = [docker EXCEPT ![d] = "none"] /\ blamed' = blamed
               \/ docker' = docker /\ blamed' = blamed \cup {d}
      BY <1>0, <2>2, TakenIsListed
    <3>3. QED
      BY <1>0, <1>b, <3>1, <3>2 DEF TypeOK
  <2>3. CASE StopMark(h)
    <3>1. WriteStopped(hand[h]) /\ hand' = [hand EXCEPT ![h] = None]
          /\ UNCHANGED <<docker, blamed>>
      BY <2>3 DEF StopMark
    <3>2. row'[c] = row[c] /\ c # hand[h]
      BY <1>0, <3>1 DEF WriteStopped, TypeOK
    <3>3. QED
      BY <1>0, <1>b, <3>1, <3>2 DEF TypeOK
  <2>4. CASE RemoveRow(h)
    <3>1. row' = [row EXCEPT ![hand[h]] = "none"] /\ hand' = [hand EXCEPT ![h] = None]
          /\ UNCHANGED <<docker, blamed>>
      BY <2>4 DEF RemoveRow
    <3>2. row'[c] = row[c] /\ c # hand[h]
      BY <1>0, <3>1 DEF TypeOK
    <3>3. QED
      BY <1>0, <1>b, <3>1, <3>2 DEF TypeOK
  <2>5. CASE RestartContainer(h)
    <3>1. UNCHANGED <<row, hand>> /\ blamed \subseteq blamed'
      BY <2>5 DEF RestartContainer, rowVars, processVars
    <3>2. docker[c] \in {"none", "stopped"}
      BY <1>0, <2>5, TakenIsListed DEF TypeOK
    <3>3. QED
      BY <1>b, <3>1, <3>2
  <2>6. CASE StopFails(h)
    BY <1>0, <1>b, <2>6 DEF StopFails, TypeOK, rowVars
  <2>7. CASE Erase(h)
    BY <2>7 DEF Erase
  <2>8. QED
    BY <1>8, <2>1, <2>2, <2>3, <2>4, <2>5, <2>6, <2>7 DEF HandlerLoud
<1>9. CASE \E d \in Containers : ContainerExits(d) \/ ContainerRecovers(d)
  <2>1. UNCHANGED <<row, hand, blamed>> /\ docker'[c] = docker[c]
    BY <1>0, <1>9 DEF ContainerExits, ContainerRecovers, TypeOK, rowVars, processVars
  <2>2. QED
    BY <1>b, <2>1
<1>10. QED
  BY <1>0, <1>1, <1>2, <1>3, <1>4, <1>5, <1>6, <1>7, <1>8, <1>9, StepCases DEF Loud

\* Whatever the worker, the ticker and any number of handlers stop at the same time, the
\* row of a container that was stopped says so, or somebody is about to write it, or a
\* call or statement about it failed or was cut off.
THEOREM GhostsAreExplained == Spec => []NoGhost
<1>1. Init => NoGhost
  BY DEF Init, NoGhost
<1>2. Hidden /\ NoGhost /\ [Next]_vars => NoGhost'
  BY GhostStep
<1>3. QED
  BY <1>1, <1>2, HiddenInit, HiddenStep, PTL DEF Spec

-----------------------------------------------------------------------------
(***************************************************************************)
(* No orphans.                                                             *)
(***************************************************************************)
\* The labels of a handler go with the kind of its request.
LEMMA RequestStep ==
  ASSUME TypeOK, RequestAtPc, [Next]_vars
  PROVE  RequestAtPc'
<1> USE DEF appVars, rowVars, proxyVars, jobVars, processVars, requestVars
<1> DEFINE Strays == {"restartList", "restartNext", "removeNext", "removeMark"}
           Fits(h) == /\ op[h] \in {"stop"} \cup Deleting => pc[h] \notin Strays
                      /\ pc[h] = "scaleStatus" => op[h] \in {"stop", "scale"}
                      /\ pc[h] = "erase" => op[h] = "delete" /\ remaining[h] = {}
<1>0. Handlers \subseteq Processes /\ \A h \in Handlers : h # "worker"
  BY ProcessFacts
<1>1. ASSUME NEW h \in Handlers, ProcessStep(h)
      PROVE  Fits(h)'
  <2>0. Fits(h) /\ h \in Processes
    BY <1>0 DEF RequestAtPc
  <2>1. ASSUME CloseRequest(h) PROVE op'[h] = "none"
    BY <2>1 DEF CloseRequest
  <2>2. CASE BreakOff(h) \/ SelfHealFails(h) \/ RestartEnds(h) \/ RemoveRow(h)
    <3>1. op'[h] = "none" /\ pc'[h] = "idle"
      BY <2>0, <2>1, <2>2
      DEF BreakOff, SelfHealFails, RestartEnds, RemoveRow, Goto, TypeOK
    <3>2. QED
      BY <3>1 DEF Deleting
  <2>3. CASE TakeDown(h) \/ SkipContainer(h) \/ MarkStopped(h)
    BY <2>0, <2>3 DEF TakeDown, SkipContainer, MarkStopped
  <2>4. ASSUME UNCHANGED requestVars, pc'[h] \notin Strays \cup {"erase", "scaleStatus"}
        PROVE  Fits(h)'
    BY <2>4
  <2>5. CASE LoopEnds(h)
    <3>1. pc'[h] \in {"promote", "count", "reroute", "unroute"}
      BY <2>0, <2>5 DEF LoopEnds, Looping, Loops, Goto, TypeOK
    <3>2. QED
      BY <2>4, <2>5, <3>1 DEF LoopEnds
  <2>6. CASE LoadApplication(h) \/ ListUnhealthy(h) \/ CountReplicas(h) \/ ListExcess(h)
    <3>1. pc'[h] \in {"zero", "sick", "sweep", "excess", "heal", "shrink", "idle", "stopNext"}
      BY <2>0, <2>6
      DEF LoadApplication, ListUnhealthy, CountReplicas, ListExcess, Return, Goto, TypeOK
    <3>2. QED
      BY <2>4, <2>6, <3>1 DEF LoadApplication, ListUnhealthy, CountReplicas, ListExcess
  <2>7. CASE Reroute(h) \/ Unroute(h) \/ SelfHeal(h)
    <3>1. pc'[h] \in {"idle", "stopNext"}
      BY <2>0, <2>7 DEF Reroute, Unroute, SelfHeal, Return, Goto, TypeOK
    <3>2. QED
      BY <2>4, <2>7, <3>1 DEF Reroute, Unroute, SelfHeal
  <2>8. CASE Request(h)
    <3>1. ASSUME NEW kind, NEW label, Open(h, kind, label),
                 \/ label \in {"stopList", "stopNext"}
                 \/ label = "scaleStatus" /\ kind \in {"stop", "scale"}
                 \/ label \in {"restartList", "removeNext"} /\ kind \in {"restart", "remove"}
          PROVE  Fits(h)'
      <4>1. op'[h] = kind /\ pc'[h] = label
        BY <2>0, <3>1 DEF Open, Goto, TypeOK
      <4>2. QED
        BY <3>1, <4>1 DEF Deleting
    <3>2. QED
      BY <2>8, <3>1 DEF Request, StopRequest, RestartRequest, DeleteRequest, ScaleRequest,
                        StopOneRequest, RemoveRequest
  <2>9. CASE ScaleStatus(h) \/ StopContainer(h) \/ StopMark(h)
    <3>1. pc'[h] \in {"stopList", "load", "stopMark"} /\ op' = op
      BY <2>0, <2>9 DEF ScaleStatus, StopContainer, StopMark, Goto, TypeOK
    <3>2. QED
      BY <3>1
  <2>10. CASE ListAll(h)
    <3>1. op' = op /\ pc[h] \in {"stopList", "restartList"}
          /\ pc'[h] = IF pc[h] = "stopList" THEN "stopNext" ELSE "restartNext"
      BY <2>0, <2>10 DEF ListAll, Goto, TypeOK
    <3>2. QED
      BY <2>0, <3>1
  <2>11. CASE StopEnds(h)
    <3>1. CASE op[h] = "delete"
      <4>1. UNCHANGED requestVars /\ pc'[h] = "erase" /\ remaining[h] = {}
        BY <2>0, <2>11, <3>1 DEF StopEnds, Goto, TypeOK
      <4>2. QED
        BY <3>1, <4>1
    <3>2. CASE op[h] # "delete"
      <4>1. pc'[h] = "idle" /\ op'[h] = "none"
        BY <2>0, <2>1, <2>11, <3>2 DEF StopEnds, Goto, TypeOK
      <4>2. QED
        BY <4>1
    <3>3. QED
      BY <3>1, <3>2
  <2>12. CASE RestartContainer(h)
    BY <2>0, <2>12 DEF RestartContainer
  <2>13. CASE StopFails(h) \/ Erase(h)
    <3>1. pc'[h] \in {"stopNext", "idle"}
      BY <2>0, <2>13 DEF StopFails, Erase, Goto, TypeOK
    <3>2. QED
      BY <3>1
  <2>14. CASE RemoveContainer(h)
    <3>1. op' = op /\ pc[h] = "removeNext" /\ pc'[h] = "removeMark"
      BY <2>0, <2>14 DEF RemoveContainer, Goto, TypeOK
    <3>2. QED
      BY <2>0, <3>1
  <2>15. CASE h = "ticker" /\ StartTick
    BY <2>15, ProcessFacts
  <2>16. QED
    BY <1>1, <2>2, <2>3, <2>5, <2>6, <2>7, <2>8, <2>9, <2>10, <2>11, <2>12, <2>13, <2>14,
       <2>15
    DEF ProcessStep, ReconcileStep, LoopStep, HandlerStep
<1>2. ASSUME NEW h \in Handlers, pc'[h] = pc[h], op'[h] = op[h], remaining'[h] = remaining[h]
      PROVE  Fits(h)'
  BY <1>2 DEF RequestAtPc
<1>3. ASSUME NEW h \in Handlers PROVE Fits(h)'
  <2>1. CASE WorkerStep
    BY <1>0, <1>2, <2>1, WorkerOwn
  <2>2. CASE OutsideStep \/ UNCHANGED vars
    BY <1>2, <2>2, OutsideOwn DEF vars
  <2>3. CASE Crash
    BY <1>0, <2>3 DEF Crash, Deleting
  <2>4. ASSUME NEW p \in Processes \ {"worker"}, ProcessStep(p) PROVE Fits(h)'
    <3>1. CASE p = h
      BY <1>1, <2>4, <3>1
    <3>2. CASE p # h
      BY <1>0, <1>2, <2>4, <3>2, OthersOwn DEF OnlyOwn
    <3>3. QED
      BY <3>1, <3>2
  <2>5. QED
    BY <2>1, <2>2, <2>3, <2>4, NextCases
<1>4. QED
  BY <1>3 DEF RequestAtPc

\* A failed call stays on the list of those to blame.
LEMMA BlameStays ==
  ASSUME Typed, HandAtPc, [Next]_vars
  PROVE  blamed \subseteq blamed'
<1>1. CASE Quiet
  BY <1>1 DEF Quiet
<1>2. CASE CreateContainer \/ SaveContainer \/ Crash
  BY <1>2 DEF CreateContainer, SaveContainer, Crash
<1>3. CASE \E p \in Processes : TakeDown(p) \/ MarkStopped(p) \/ BreakOff(p)
  BY <1>3 DEF TakeDown, MarkStopped, BreakOff
<1>4. CASE \E h \in Handlers : HandlerLoud(h)
  BY <1>4 DEF HandlerLoud, StopContainer, StopMark, RestartContainer, StopFails, Erase,
              RemoveContainer, RemoveRow
<1>5. CASE \E c \in Containers : ContainerExits(c) \/ ContainerRecovers(c)
  BY <1>5 DEF ContainerExits, ContainerRecovers
<1>6. QED
  BY <1>1, <1>2, <1>3, <1>4, <1>5, StepCases DEF Loud

\* A container that lives did so before, or the worker has just created it, or it was
\* started again after it was stopped.
LEMMA LiveGrows ==
  ASSUME Hidden, [Next]_vars, NEW c \in Containers, Live(c)'
  PROVE  \/ Live(c)
         \/ CreateContainer /\ c = Own(made)
         \/ c \in blamed'
<1>0. TypeOK /\ Typed /\ HandAtPc
  BY DEF Hidden, Typed
<1> USE DEF Live
<1>1. CASE Quiet
  BY <1>1 DEF Quiet
<1>2. CASE CreateContainer
  BY <1>0, <1>2 DEF CreateContainer, TypeOK
<1>3. CASE SaveContainer \/ Crash
  BY <1>3 DEF SaveContainer, Crash
<1>4. CASE \E p \in Processes : TakeDown(p) \/ MarkStopped(p) \/ BreakOff(p)
  BY <1>0, <1>4, TakenIsListed DEF MarkStopped, BreakOff, TypeOK
<1>5. ASSUME NEW h \in Handlers, HandlerLoud(h)
      PROVE  Live(c) \/ c \in blamed'
  <2>1. CASE StopContainer(h) \/ RemoveContainer(h)
    <3>1. docker' = docker \/ \E d \in remaining[h] :
            \/ docker' = [docker EXCEPT ![d] = IF @ = "none" THEN @ ELSE "stopped"]
            \/ docker' = [docker EXCEPT ![d] = "none"]
      BY <1>0, <2>1, TakenIsListed
    <3>2. QED
      BY <1>0, <3>1 DEF TypeOK
  <2>2. CASE RestartContainer(h)
    BY <1>0, <2>2, TakenIsListed DEF TypeOK, DockerState
  <2>3. CASE StopMark(h) \/ StopFails(h) \/ Erase(h) \/ RemoveRow(h)
    BY <2>3 DEF StopMark, StopFails, Erase, RemoveRow
  <2>4. QED
    BY <1>5, <2>1, <2>2, <2>3 DEF HandlerLoud
<1>6. CASE \E d \in Containers : ContainerExits(d) \/ ContainerRecovers(d)
  BY <1>0, <1>6 DEF ContainerExits, ContainerRecovers, TypeOK
<1>7. QED
  BY <1>0, <1>1, <1>2, <1>3, <1>4, <1>5, <1>6, StepCases DEF Loud

\* What a process takes in hand, it has stopped, or a call about it has failed.
LEMMA HandIsDownStep ==
  ASSUME Hidden, HandIsDown, [Next]_vars
  PROVE  HandIsDown'
<1>0. /\ Typed /\ TypeOK /\ HandAtPc /\ FreshIsHidden
      /\ "worker" \in Processes /\ Handlers \subseteq Processes
      /\ None \notin Containers
      /\ \A p \in Processes \ {"worker"} : pc[p] # "save"
  <2>1. \A p \in Processes \ {"worker"} : "save" \notin PcOf(p)
    BY DEF PcOf, HandlerPc, ReconcilePc
  <2>2. QED
    BY <2>1, ProcessFacts, RollingAssumption DEF Hidden, Typed, TypeOK
<1> SUFFICES ASSUME NEW p \in Processes, hand'[p] # None, pc'[p] # "save",
                    docker'[hand'[p]] \in {"up", "exited"}
             PROVE  hand'[p] \in blamed'
  BY DEF HandIsDown, Live
<1>1. ASSUME hand'[p] = hand[p], pc[p] # "save"
      PROVE  hand'[p] \in blamed'
  <2>1. hand[p] \in Containers /\ hand[p] # None
    BY <1>0, <1>1 DEF TypeOK
  <2>2. docker'[hand[p]] \in {"up", "exited"}
    BY <1>1
  <2>3. ~(CreateContainer /\ hand[p] = Own(made))
    <3>1. SUFFICES ASSUME CreateContainer, hand[p] = Own(made) PROVE FALSE
      OBVIOUS
    <3>2. Fresh(Own(made))
      <4>1. pc["worker"] = "create" /\ made < want /\ deployment > 0
        BY <1>0, <3>1 DEF CreateContainer, Typed, JobIsAtPc
      <4>2. made \in Nat /\ deployment \in 0..MaxDeployments
        BY <1>0 DEF TypeOK
      <4>3. DeploymentOf(Own(made)) = deployment /\ ReplicaIndex(Own(made)) = made
        BY <1>0, <4>1, <4>2, OwnIsContainer
      <4>4. QED
        BY <4>2, <4>3 DEF Fresh
    <3>3. QED
      BY <1>0, <1>1, <2>1, <3>1, <3>2 DEF FreshIsHidden
  <2>4. Live(hand[p]) \/ hand[p] \in blamed'
    <3> DEFINE c == hand[p]
    <3>1. c \in Containers /\ docker'[c] \in {"up", "exited"}
      BY <2>1, <2>2
    <3> HIDE DEF c
    <3>2. Live(c) \/ (CreateContainer /\ c = Own(made)) \/ c \in blamed'
      BY <3>1, LiveGrows DEF Live
    <3>3. QED
      BY <2>3, <3>2 DEF c
  <2>5. QED
    BY <1>0, <1>1, <2>1, <2>4, BlameStays DEF HandIsDown
<1>2. CASE Quiet
  BY <1>0, <1>1, <1>2 DEF Quiet
<1>3. CASE CreateContainer \/ SaveContainer
  <2>1. \A q \in Processes \ {"worker"} : hand'[q] = hand[q]
    BY <1>0, <1>3 DEF CreateContainer, SaveContainer, TypeOK
  <2>2. hand'["worker"] = None \/ pc'["worker"] = "save"
    BY <1>0, <1>3 DEF CreateContainer, SaveContainer, Goto, TypeOK
  <2>3. QED
    BY <1>0, <1>1, <2>1, <2>2
<1>4. CASE Crash
  BY <1>4 DEF Crash
<1>5. ASSUME NEW q \in Processes, TakeDown(q) \/ MarkStopped(q) \/ BreakOff(q)
      PROVE  hand'[p] \in blamed'
  <2>0. \A r \in Processes \ {q} : hand'[r] = hand[r] /\ pc'[r] = pc[r]
    BY <1>0, <1>5 DEF TakeDown, MarkStopped, BreakOff, Goto, TypeOK
  <2>1. CASE p # q
    BY <1>0, <1>1, <2>0, <2>1
  <2>2. CASE p = q
    <3>1. TakeDown(q)
      BY <1>0, <1>5, <2>2 DEF MarkStopped, BreakOff, TypeOK
    <3>2. PICK d \in list[q] :
            /\ hand' = [hand EXCEPT ![q] = d]
            /\ \/ docker' = [docker EXCEPT ![d] = "none"]
               \/ blamed' = blamed \cup {d}
      BY <1>0, <3>1, TakenIsListed
    <3>3. d \in Containers /\ hand'[p] = d
      BY <1>0, <2>2, <3>2 DEF TypeOK
    <3>4. QED
      BY <1>0, <3>2, <3>3 DEF TypeOK
  <2>3. QED
    BY <2>1, <2>2
<1>6. ASSUME NEW h \in Handlers, HandlerLoud(h)
      PROVE  hand'[p] \in blamed'
  <2>0. \A r \in Processes \ {h} : hand'[r] = hand[r] /\ pc'[r] = pc[r]
    BY <1>0, <1>6, OthersOwn, ProcessFacts
    DEF OnlyOwn, ProcessStep, HandlerStep, HandlerLoud
  <2>1. CASE p # h
    BY <1>0, <1>1, <2>0, <2>1
  <2>2. CASE p = h /\ (StopContainer(h) \/ RemoveContainer(h))
    <3>1. PICK d \in remaining[h] :
            /\ hand' = [hand EXCEPT ![h] = d]
            /\ \/ docker' = [docker EXCEPT ![d] = IF @ = "none" THEN @ ELSE "stopped"]
               \/ docker' = [docker EXCEPT ![d] = "none"]
               \/ blamed' = blamed \cup {d}
      BY <1>0, <2>2, TakenIsListed
    <3>2. d \in Containers /\ hand'[p] = d
      BY <1>0, <2>2, <3>1 DEF TypeOK
    <3>3. QED
      BY <1>0, <3>1, <3>2 DEF TypeOK
  <2>3. CASE p = h /\ (StopMark(h) \/ StopFails(h) \/ RemoveRow(h))
    BY <1>0, <2>3 DEF StopMark, StopFails, RemoveRow, TypeOK
  <2>4. CASE p = h /\ (RestartContainer(h) \/ Erase(h))
    BY <1>0, <1>1, <2>4, ProcessFacts DEF RestartContainer, Erase, processVars
  <2>5. QED
    BY <1>6, <2>1, <2>2, <2>3, <2>4 DEF HandlerLoud
<1>7. CASE \E d \in Containers : ContainerExits(d) \/ ContainerRecovers(d)
  BY <1>0, <1>1, <1>7 DEF ContainerExits, ContainerRecovers, processVars
<1>8. QED
  BY <1>0, <1>2, <1>3, <1>4, <1>5, <1>6, <1>7, StepCases DEF Loud

\* A deleted application stays deleted, and Erase alone deletes one.
LEMMA DeletedBy ==
  ASSUME TypeOK, [Next]_vars
  PROVE  /\ appStatus = "deleted" => appStatus' = "deleted"
         /\ appStatus' = "deleted" => appStatus = "deleted" \/ \E h \in Handlers : Erase(h)
<1> DEFINE Kept == /\ appStatus = "deleted" => appStatus' = "deleted"
                   /\ appStatus' = "deleted" => appStatus = "deleted"
<1>1. CASE WorkerStep
  BY <1>1, WorkerOwn DEF appVars
<1>2. CASE OutsideStep
  <2>1. CASE Deploy
    BY <2>1 DEF Deploy
  <2>2. CASE HookDeploy \/ WatchGenerates \/ WatchStamps
    BY <2>2 DEF HookDeploy, WatchGenerates, WatchStamps, appVars
  <2>3. CASE \E v \in verdicts : Verdict(v) \/ VerdictLost(v)
    BY <2>3 DEF Verdict, VerdictLost, appVars
  <2>4. CASE \E c \in Containers :
               AskHealth(c) \/ MarkHealth(c) \/ ContainerExits(c) \/ ContainerRecovers(c)
    BY <2>4 DEF AskHealth, MarkHealth, ContainerExits, ContainerRecovers, appVars
  <2>5. QED
    BY <1>2, <2>1, <2>2, <2>3, <2>4 DEF OutsideStep
<1>3. ASSUME NEW p \in Processes \ {"worker"}, ProcessStep(p)
      PROVE  Kept \/ (p \in Handlers /\ Erase(p) /\ appStatus' = "deleted")
  <2>1. CASE BreakOff(p) \/ LoopStep(p)
    BY <2>1 DEF BreakOff, LoopStep, TakeDown, SkipContainer, MarkStopped, LoopEnds, appVars
  <2>2. CASE LoadApplication(p) \/ ListUnhealthy(p) \/ CountReplicas(p) \/ ListExcess(p)
    BY <2>2 DEF LoadApplication, ListUnhealthy, CountReplicas, ListExcess, appVars
  <2>3. CASE Reroute(p) \/ Unroute(p) \/ SelfHeal(p) \/ SelfHealFails(p) \/ StartTick
    BY <2>3 DEF Reroute, Unroute, SelfHeal, SelfHealFails, StartTick, appVars
  <2>4. CASE p \in Handlers /\ Request(p)
    BY <2>4 DEF Request, StopRequest, RestartRequest, DeleteRequest, ScaleRequest,
                StopOneRequest, RemoveRequest, Open, appVars
  <2>5. CASE p \in Handlers /\ ScaleStatus(p)
    BY <2>5 DEF ScaleStatus
  <2>6. CASE p \in Handlers /\ (\/ ListAll(p) \/ StopContainer(p) \/ StopMark(p) \/ StopEnds(p)
                               \/ RestartContainer(p) \/ RestartEnds(p))
    BY <2>6 DEF ListAll, StopContainer, StopMark, StopEnds, RestartContainer, RestartEnds,
                appVars
  <2>7. CASE p \in Handlers /\ (StopFails(p) \/ RemoveContainer(p) \/ RemoveRow(p) \/ Erase(p))
    BY <2>7 DEF StopFails, RemoveContainer, RemoveRow, Erase, appVars
  <2>8. QED
    BY <1>3, <2>1, <2>2, <2>3, <2>4, <2>5, <2>6, <2>7
    DEF ProcessStep, ReconcileStep, HandlerStep
<1>4. CASE Crash \/ UNCHANGED vars
  BY <1>4 DEF Crash, vars, appVars
<1>5. QED
  BY <1>1, <1>2, <1>3, <1>4, NextCases

\* The row of a container that lives says running until somebody is to blame, or the
\* application is deleted.
LEMMA RowLeaves ==
  ASSUME Hidden, HandIsDown, [Next]_vars, NEW c \in Containers,
         row[c] = "running", Live(c)
  PROVE  row'[c] = "running" \/ c \in blamed' \/ \E h \in Handlers : Erase(h)
<1>0. /\ Typed /\ TypeOK /\ HandAtPc /\ Handlers \subseteq Processes
      /\ \A p \in Processes : hand[p] = c => pc[p] = "save" \/ c \in blamed
      /\ blamed \subseteq blamed'
  BY ProcessFacts, RollingAssumption, BlameStays DEF Hidden, Typed, HandIsDown
<1>1. CASE Quiet
  BY <1>1 DEF Quiet
<1>2. CASE CreateContainer \/ SaveContainer \/ Crash
  BY <1>0, <1>2 DEF CreateContainer, SaveContainer, Crash, TypeOK, rowVars
<1>3. CASE \E p \in Processes : TakeDown(p) \/ MarkStopped(p) \/ BreakOff(p)
  BY <1>0, <1>3 DEF TakeDown, MarkStopped, BreakOff, WriteStopped, TypeOK, rowVars, Loops
<1>4. ASSUME NEW h \in Handlers, HandlerLoud(h)
      PROVE  row'[c] = "running" \/ c \in blamed' \/ Erase(h)
  <2>1. CASE StopContainer(h) \/ RestartContainer(h) \/ StopFails(h) \/ RemoveContainer(h)
    BY <2>1 DEF StopContainer, RestartContainer, StopFails, RemoveContainer, rowVars
  <2>2. CASE StopMark(h) \/ RemoveRow(h)
    BY <1>0, <2>2 DEF StopMark, RemoveRow, WriteStopped, TypeOK
  <2>3. QED
    BY <1>4, <2>1, <2>2 DEF HandlerLoud
<1>5. CASE \E d \in Containers : ContainerExits(d) \/ ContainerRecovers(d)
  BY <1>5 DEF ContainerExits, ContainerRecovers, rowVars
<1>6. QED
  BY <1>0, <1>1, <1>2, <1>3, <1>4, <1>5, StepCases DEF Loud

\* The worker lets go of a container that lives when it has saved it, or somebody is to
\* blame.
LEMMA HandLeaves ==
  ASSUME Hidden, HandIsDown, [Next]_vars, NEW c \in Containers,
         hand["worker"] = c, Live(c)
  PROVE  \/ hand'["worker"] = c
         \/ c \in blamed'
         \/ /\ appStatus # "deleted" /\ row'[c] = "running"
            /\ \A h \in Handlers : h \in Ending => c \in late'[h]
<1>0. /\ Typed /\ TypeOK /\ HandAtPc /\ "worker" \in Processes
      /\ c # None /\ (pc["worker"] = "save" \/ c \in blamed)
      /\ blamed \subseteq blamed'
  BY ProcessFacts, RollingAssumption, BlameStays DEF Hidden, Typed, HandIsDown
<1>1. CASE WorkerStep
  <2>1. CASE pc["worker"] # "save"
    BY <1>0, <2>1
  <2>2. CASE SaveContainer
    BY <1>0, <2>2 DEF SaveContainer, TypeOK
  <2>3. CASE pc["worker"] = "save" /\ ~SaveContainer
    BY <1>1, <2>3
    DEF WorkerStep, TakeJob, CreateContainer, AllCreated, CheckNew, ListOld, LoopStep,
        TakeDown, SkipContainer, MarkStopped, LoopEnds, Looping, Loops, Promote,
        RefreshRoute, ExpectBackends, VerifyRoute, DeployFails, Report
  <2>4. QED
    BY <2>1, <2>2, <2>3
<1>2. CASE OutsideStep \/ UNCHANGED vars
  BY <1>2, OutsideOwn DEF vars, processVars
<1>3. CASE Crash
  BY <1>0, <1>3 DEF Crash
<1>4. CASE \E p \in Processes \ {"worker"} : ProcessStep(p)
  BY <1>0, <1>4, OthersOwn DEF OnlyOwn
<1>5. QED
  BY <1>1, <1>2, <1>3, <1>4, NextCases

\* Nobody opens a request of an application that is gone.
LEMMA DeletedIsClosed ==
  ASSUME TypeOK, [Next]_vars, appStatus = "deleted", NEW h \in Handlers,
         pc[h] = "idle", op[h] = "none"
  PROVE  pc'[h] = "idle" /\ op'[h] = "none" /\ late[h] \subseteq late'[h]
<1>0. h \in Processes /\ h # "worker" /\ h # "ticker"
  BY ProcessFacts
<1>1. CASE WorkerStep
  BY <1>0, <1>1, WorkerOwn
<1>2. CASE OutsideStep \/ UNCHANGED vars
  BY <1>2, OutsideOwn DEF vars, processVars, requestVars
<1>3. CASE Crash
  BY <1>0, <1>3 DEF Crash
<1>4. ~ProcessStep(h)
  BY <1>0
  DEF ProcessStep, ReconcileStep, LoopStep, TakeDown, SkipContainer, MarkStopped, LoopEnds,
      Looping, Loops, BreakOff, LoadApplication, ListUnhealthy, CountReplicas, ListExcess,
      Reroute, Unroute, SelfHeal, SelfHealFails, Request, StopRequest, RestartRequest,
      DeleteRequest, ScaleRequest, StopOneRequest, RemoveRequest, Open, HandlerStep,
      ScaleStatus, ListAll, StopContainer, StopMark, StopEnds, RestartContainer, RestartEnds,
      StopFails, ReconcilePc, Erase, RemoveContainer, RemoveRow
<1>5. ASSUME NEW p \in Processes \ {"worker"}, ProcessStep(p)
      PROVE  pc'[h] = pc[h] /\ op'[h] = op[h] /\ late'[h] = late[h]
  <2>1. p # h
    BY <1>4, <1>5
  <2>2. QED
    BY <1>0, <1>5, <2>1, OthersOwn DEF OnlyOwn
<1>6. QED
  BY <1>1, <1>2, <1>3, <1>5, NextCases

\* Rows do not come back when their application is gone, and what still lives was saved
\* while it was stopped and deleted.
LEMMA DeletedStep ==
  ASSUME Hidden, HandIsDown, RequestAtPc, StopSeesAll, DeletedLeavesLate, [Next]_vars
  PROVE  DeletedLeavesLate'
<1>0. /\ Typed /\ TypeOK /\ HandAtPc /\ "worker" \in Processes /\ Handlers \subseteq Processes
  BY ProcessFacts DEF Hidden, Typed
<1>1. CASE appStatus = "deleted"
  <2>1. ASSUME NEW c \in Containers PROVE row'[c] = "none"
    <3>1. row[c] = "none"
      BY <1>1 DEF DeletedLeavesLate
    <3>2. CASE SaveContainer
      BY <1>1, <3>1, <3>2 DEF SaveContainer, rowVars
    <3>3. CASE ~SaveContainer
      <4>1. ~(pc["worker"] = "save" /\ made' = made + 1)
        <5>1. made \in Nat
          BY <1>0 DEF TypeOK
        <5>2. QED
          BY <1>0, <3>3, <5>1, JobMoves DEF TakeJob
      <4>2. QED
        BY <1>0, <3>1, <4>1, StepIsKnown DEF KnownOnly
    <3>4. QED
      BY <3>2, <3>3
  <2>2. PICK h \in Handlers :
          /\ pc[h] = "idle" /\ op[h] = "none"
          /\ \A c \in Containers :
               Live(c) => c \in late[h] \cup blamed \cup {hand["worker"]}
    BY <1>1 DEF DeletedLeavesLate
  <2>3. pc'[h] = "idle" /\ op'[h] = "none" /\ late[h] \subseteq late'[h]
    BY <1>0, <1>1, <2>2, DeletedIsClosed
  <2>4. blamed \subseteq blamed'
    BY <1>0, BlameStays
  <2>5. ASSUME NEW c \in Containers, Live(c)'
        PROVE  c \in late'[h] \cup blamed' \cup {hand'["worker"]}
    <3>1. CASE Live(c)
      BY <1>1, <2>2, <2>3, <2>4, <3>1, HandLeaves
    <3>2. CASE CreateContainer /\ c = Own(made)
      BY <1>0, <3>2 DEF CreateContainer, TypeOK
    <3>3. QED
      BY <2>5, <3>1, <3>2, LiveGrows
  <2>6. QED
    BY <2>1, <2>3, <2>5 DEF DeletedLeavesLate, Live
<1>2. ASSUME NEW h \in Handlers, Erase(h), appStatus # "deleted"
      PROVE  DeletedLeavesLate'
  <2>1. /\ \A c \in Containers : row'[c] = "none"
        /\ pc[h] = "erase" /\ pc'[h] = "idle" /\ op'[h] = "none"
        /\ UNCHANGED <<docker, hand, late, blamed>>
    BY <1>0, <1>2 DEF Erase, Goto, TypeOK
  <2>2. op[h] = "delete" /\ remaining[h] = {}
    BY <2>1 DEF RequestAtPc
  <2>3. \A c \in Containers : Live(c) => c \in late[h] \cup blamed \cup {hand["worker"]}
    BY <1>2, <2>1, <2>2 DEF StopSeesAll
  <2>4. QED
    BY <2>1, <2>3 DEF DeletedLeavesLate, Live
<1>3. QED
  BY <1>0, <1>1, <1>2, DeletedBy DEF DeletedLeavesLate

\* A Stop or Delete goes on with its list, and crosses off what it has stopped.
LEMMA StopAdvances ==
  ASSUME Hidden, RequestAtPc, [Next]_vars, NEW h \in Handlers,
         op'[h] \in {"stop", "delete"}, pc'[h] \notin {"scaleStatus", "stopList"}
  PROVE  \/ ListAll(h) /\ pc[h] = "stopList"
         \/ /\ op[h] = op'[h] /\ pc[h] \notin {"scaleStatus", "stopList"}
            /\ late[h] \subseteq late'[h]
            /\ \A c \in remaining[h] : c \in remaining'[h] \cup blamed' \/ ~Live(c)'
<1> DEFINE GoesOn == /\ op[h] = op'[h] /\ pc[h] \notin {"scaleStatus", "stopList"}
                     /\ late[h] \subseteq late'[h]
                     /\ \A c \in remaining[h] : c \in remaining'[h] \cup blamed' \/ ~Live(c)'
<1>0. /\ TypeOK /\ h \in Processes /\ h # "worker" /\ h # "ticker"
  BY ProcessFacts DEF Hidden, Typed
<1>1. ASSUME pc'[h] = pc[h], op'[h] = op[h], remaining'[h] = remaining[h],
             late[h] \subseteq late'[h]
      PROVE  GoesOn
  BY <1>1
<1>2. ASSUME ProcessStep(h)
      PROVE  GoesOn \/ (ListAll(h) /\ pc[h] = "stopList")
  <2>1. ASSUME CloseRequest(h) PROVE FALSE
    BY <2>1 DEF CloseRequest
  <2>2. ~(BreakOff(h) \/ SelfHealFails(h) \/ RestartEnds(h) \/ RemoveRow(h))
    BY <2>1 DEF BreakOff, SelfHealFails, RestartEnds, RemoveRow
  <2>3. CASE TakeDown(h) \/ SkipContainer(h) \/ MarkStopped(h) \/ LoopEnds(h)
    <3>1. UNCHANGED requestVars /\ pc[h] \in Loops
      BY <2>3 DEF TakeDown, SkipContainer, MarkStopped, LoopEnds, Looping
    <3>2. QED
      BY <3>1 DEF requestVars, Loops
  <2>4. CASE \/ LoadApplication(h) \/ ListUnhealthy(h) \/ CountReplicas(h) \/ ListExcess(h)
             \/ Reroute(h) \/ Unroute(h) \/ SelfHeal(h)
    <3>1. UNCHANGED requestVars /\ pc[h] \in ReconcilePc
      BY <2>4 DEF LoadApplication, ListUnhealthy, CountReplicas, ListExcess, Reroute, Unroute,
                  SelfHeal, ReconcilePc
    <3>2. QED
      BY <3>1 DEF requestVars, ReconcilePc
  <2>5. ~Request(h)
    <3>1. ASSUME NEW kind, NEW label, Open(h, kind, label)
          PROVE  op'[h] = kind /\ pc'[h] = label
      BY <1>0, <3>1 DEF Open, Goto, TypeOK
    <3>2. ~(StopRequest(h) \/ RestartRequest(h) \/ DeleteRequest(h))
      BY <3>1 DEF StopRequest, RestartRequest, DeleteRequest
    <3>3. \A n \in 0..MaxReplicas : ~ScaleRequest(h, n)
      BY <3>1 DEF ScaleRequest
    <3>4. \A c \in Containers : ~(StopOneRequest(h, c) \/ RemoveRequest(h, c))
      BY <3>1 DEF StopOneRequest, RemoveRequest
    <3>5. QED
      BY <3>2, <3>3, <3>4 DEF Request
  <2>6. CASE ScaleStatus(h)
    <3>1. pc[h] = "scaleStatus" /\ op'[h] = op[h] /\ op[h] # "stop"
      BY <1>0, <2>6 DEF ScaleStatus, Goto, TypeOK, requestVars
    <3>2. QED
      BY <3>1 DEF RequestAtPc
  <2>7. CASE ListAll(h)
    <3>1. op' = op /\ pc[h] \in {"stopList", "restartList"}
      BY <2>7 DEF ListAll
    <3>2. QED
      BY <2>7, <3>1 DEF RequestAtPc, Deleting
  <2>8. CASE StopContainer(h)
    <3>1. UNCHANGED <<op, late>> /\ pc[h] = "stopNext"
      BY <2>8 DEF StopContainer
    <3>2. PICK d \in remaining[h] :
            /\ remaining' = [remaining EXCEPT ![h] = @ \ {d}]
            /\ \/ docker' = [docker EXCEPT ![d] = IF @ = "none" THEN @ ELSE "stopped"]
               \/ blamed' = blamed \cup {d}
      BY <1>0, <2>8, TakenIsListed
    <3>3. d \in Containers /\ remaining'[h] = remaining[h] \ {d}
      BY <1>0, <3>2 DEF TypeOK
    <3>4. d \in blamed' \/ ~Live(d)'
      BY <1>0, <3>2, <3>3 DEF Live, TypeOK
    <3>5. QED
      BY <3>1, <3>3, <3>4
  <2>9. CASE StopMark(h)
    BY <2>9 DEF StopMark, requestVars
  <2>10. CASE StopEnds(h)
    BY <2>1, <2>10 DEF StopEnds, requestVars
  <2>11. ~RestartContainer(h)
    BY DEF RestartContainer, RequestAtPc, Deleting
  <2>12. ~StopFails(h)
    BY <1>0 DEF StopFails, TypeOK
  <2>13. ~Erase(h)
    BY <1>0 DEF Erase, TypeOK
  <2>14. ~RemoveContainer(h)
    BY DEF RemoveContainer, RequestAtPc, Deleting
  <2>15. QED
    BY <1>0, <1>2, <2>2, <2>3, <2>4, <2>5, <2>6, <2>7, <2>8, <2>9, <2>10, <2>11, <2>12,
       <2>13, <2>14
    DEF ProcessStep, ReconcileStep, LoopStep, HandlerStep
<1>3. CASE WorkerStep
  BY <1>0, <1>1, <1>3, WorkerOwn
<1>4. CASE OutsideStep \/ UNCHANGED vars
  BY <1>1, <1>4, OutsideOwn DEF vars, processVars, requestVars
<1>5. CASE Crash
  BY <1>5 DEF Crash
<1>6. ASSUME NEW p \in Processes \ {"worker"}, ProcessStep(p), p # h
      PROVE  GoesOn
  BY <1>0, <1>1, <1>6, OthersOwn DEF OnlyOwn
<1>7. QED
  BY <1>2, <1>3, <1>4, <1>5, <1>6, NextCases

\* What comes to live, or loses its row, is seen by every Stop and Delete that is under way.
LEMMA StopSeesStep ==
  ASSUME Hidden, HandIsDown, RequestAtPc, StopSeesAll, NoOrphan, [Next]_vars
  PROVE  StopSeesAll'
<1>0. TypeOK /\ Typed /\ HandAtPc /\ "worker" \in Processes
  BY ProcessFacts DEF Hidden, Typed
<1> SUFFICES ASSUME appStatus' # "deleted", NEW h \in Handlers,
                    op'[h] \in {"stop", "delete"}, pc'[h] \notin {"scaleStatus", "stopList"},
                    NEW c \in Containers, Live(c)'
             PROVE  c \in remaining'[h] \cup late'[h] \cup blamed' \cup {hand'["worker"]}
  BY DEF StopSeesAll, Live
<1>1. appStatus # "deleted" /\ blamed \subseteq blamed'
  BY <1>0, DeletedBy, BlameStays
<1>2. CASE ListAll(h) /\ pc[h] = "stopList"
  <2>1. /\ UNCHANGED <<docker, hand, late, blamed>>
        /\ remaining'[h] = {d \in Containers : row[d] # "none"}
    BY <1>0, <1>2 DEF ListAll, TypeOK
  <2>2. QED
    BY <1>1, <2>1 DEF NoOrphan, Live
<1>3. CASE /\ op[h] = op'[h] /\ pc[h] \notin {"scaleStatus", "stopList"}
           /\ late[h] \subseteq late'[h]
           /\ \A d \in remaining[h] : d \in remaining'[h] \cup blamed' \/ ~Live(d)'
  <2>1. h \in Ending
    BY <1>3 DEF Ending, Deleting
  <2>2. CASE Live(c)
    <3>1. c \in remaining[h] \cup late[h] \cup blamed \cup {hand["worker"]}
      BY <1>1, <1>3, <2>2 DEF StopSeesAll
    <3>2. CASE hand["worker"] = c
      BY <2>1, <2>2, <3>2, HandLeaves
    <3>3. QED
      BY <1>1, <1>3, <3>1, <3>2
  <2>3. CASE CreateContainer /\ c = Own(made)
    BY <1>0, <2>3 DEF CreateContainer, TypeOK
  <2>4. QED
    BY <2>2, <2>3, LiveGrows
<1>4. QED
  BY <1>2, <1>3, StopAdvances

\* A container that lives keeps its row until the application goes.
LEMMA OrphanStep ==
  ASSUME Hidden, HandIsDown, DeletedLeavesLate', NoOrphan, [Next]_vars
  PROVE  NoOrphan'
<1>0. TypeOK /\ Typed /\ HandAtPc /\ "worker" \in Processes /\ blamed \subseteq blamed'
  BY ProcessFacts, BlameStays DEF Hidden, Typed
<1> SUFFICES ASSUME NEW c \in Containers, Live(c)'
             PROVE  \/ row'[c] = "running" \/ hand'["worker"] = c \/ c \in blamed'
                    \/ appStatus' = "deleted" /\ \E h \in Handlers : c \in late'[h]
  BY DEF NoOrphan, Live
<1>1. CASE appStatus' = "deleted"
  BY <1>1 DEF DeletedLeavesLate, Live
<1>2. CASE appStatus' # "deleted"
  <2>0. appStatus # "deleted" /\ \A h \in Handlers : ~Erase(h)
    BY <1>0, <1>2, DeletedBy DEF Erase
  <2>1. CASE Live(c)
    BY <1>0, <2>0, <2>1, RowLeaves, HandLeaves DEF NoOrphan
  <2>2. CASE CreateContainer /\ c = Own(made)
    BY <1>0, <2>2 DEF CreateContainer, TypeOK
  <2>3. QED
    BY <2>1, <2>2, LiveGrows
<1>3. QED
  BY <1>1, <1>2

Followed == /\ Hidden /\ HandIsDown /\ RequestAtPc /\ StopSeesAll /\ DeletedLeavesLate
            /\ NoOrphan

LEMMA FollowedInit == Init => Followed
<1> SUFFICES ASSUME Init PROVE Followed
  OBVIOUS
<1>1. Hidden
  BY HiddenInit
<1>2. HandIsDown /\ RequestAtPc
  BY ProcessFacts DEF Init, HandIsDown, RequestAtPc, Deleting
<1>3. StopSeesAll /\ DeletedLeavesLate /\ NoOrphan
  BY DEF Init, StopSeesAll, DeletedLeavesLate, NoOrphan, Live
<1>4. QED
  BY <1>1, <1>2, <1>3 DEF Followed

LEMMA FollowedStep == Followed /\ [Next]_vars => Followed'
<1> SUFFICES ASSUME Followed, [Next]_vars PROVE Followed'
  OBVIOUS
<1>1. Hidden' /\ HandIsDown' /\ RequestAtPc'
  BY HiddenStep, HandIsDownStep, RequestStep DEF Followed, Hidden, Typed
<1>2. DeletedLeavesLate'
  BY DeletedStep DEF Followed
<1>3. StopSeesAll' /\ NoOrphan'
  BY <1>2, StopSeesStep, OrphanStep DEF Followed
<1>4. QED
  BY <1>1, <1>2, <1>3 DEF Followed

\* Whatever fails, is cut off or crosses, no container runs without a row that says so,
\* but one the worker is about to save, one a call about which failed, and what was saved
\* while its application was deleted (Stop, Delete, deployContainers, reconcile).
THEOREM OrphansAreExplained == Spec => []NoOrphan
<1>1. Followed => NoOrphan
  BY DEF Followed
<1>2. QED
  BY <1>1, FollowedInit, FollowedStep, PTL DEF Spec

\* A Stop that has gone through its list leaves running only what came after it was read.
THEOREM StopLeavesOnlyLate == Spec => StopLeavesLate
<1> DEFINE Leaves ==
      \A h \in Handlers :
        op[h] = "stop" /\ pc[h] = "stopNext" /\ pc'[h] = "idle" /\ remaining[h] = {} =>
          \A c \in Containers :
            Live(c) => \/ c \in late[h] \cup blamed \cup {hand["worker"]}
                       \/ appStatus = "deleted" /\ \E g \in Handlers : c \in late[g]
<1>1. Followed => Leaves
  <2>1. ASSUME Followed, appStatus # "deleted" PROVE Leaves
    BY <2>1 DEF Followed, StopSeesAll
  <2>2. ASSUME Followed, appStatus = "deleted" PROVE Leaves
    BY <2>2 DEF Followed, DeletedLeavesLate, NoOrphan
  <2>3. QED
    BY <2>1, <2>2
<1>2. Followed /\ [Next]_vars => [Leaves]_vars
  BY <1>1
<1>3. QED
  BY <1>2, FollowedInit, FollowedStep, PTL DEF Spec, StopLeavesLate

-----------------------------------------------------------------------------
(***************************************************************************)
(* The version that is deployed and the ones before it.                    *)
(***************************************************************************)
\* The worker's only loop is the cleanup.
LEMMA WorkerLoops ==
  ASSUME TypeOK, pc["worker"] \in Loops
  PROVE  pc["worker"] = "cleanup"
  BY ProcessFacts DEF TypeOK, Loops, WorkerPc

\* A row comes to say running when the worker saves it, and not otherwise.
LEMMA RunningIsSaved ==
  ASSUME Hidden, [Next]_vars, NEW c \in Containers, row'[c] = "running"
  PROVE  row[c] = "running" \/ SaveContainer
<1>0. TypeOK /\ Typed /\ HandAtPc
  BY DEF Hidden, Typed
<1>1. CASE Quiet
  BY <1>1 DEF Quiet
<1>2. CASE CreateContainer \/ Crash
  BY <1>2 DEF CreateContainer, Crash, rowVars
<1>3. CASE \E p \in Processes : TakeDown(p) \/ MarkStopped(p) \/ BreakOff(p)
  BY <1>0, <1>3 DEF TakeDown, MarkStopped, BreakOff, WriteStopped, rowVars, TypeOK
<1>4. ASSUME NEW h \in Handlers, HandlerLoud(h)
      PROVE  row[c] = "running"
  <2>1. CASE StopContainer(h) \/ RestartContainer(h) \/ StopFails(h) \/ RemoveContainer(h)
    BY <2>1 DEF StopContainer, RestartContainer, StopFails, RemoveContainer, rowVars
  <2>2. CASE StopMark(h) \/ Erase(h) \/ RemoveRow(h)
    BY <1>0, <2>2 DEF StopMark, Erase, RemoveRow, WriteStopped, TypeOK
  <2>3. QED
    BY <1>4, <2>1, <2>2 DEF HandlerLoud
<1>5. CASE \E d \in Containers : ContainerExits(d) \/ ContainerRecovers(d)
  BY <1>5 DEF ContainerExits, ContainerRecovers, rowVars
<1>6. QED
  BY <1>0, <1>1, <1>2, <1>3, <1>4, <1>5, StepCases DEF Loud

\* The cleanup takes the old rows one by one, and leaves none that it may not blame.
LEMMA VersionStep ==
  ASSUME Hidden, OldAreListed, OneVersion, [Next]_vars
  PROVE  OldAreListed' /\ OneVersion'
<1> DEFINE Routing == {"promote", "route", "ensure", "expect", "verify", "running"}
<1>0. TypeOK /\ Typed /\ HandAtPc /\ "worker" \in Processes /\ blamed \subseteq blamed'
  BY ProcessFacts, BlameStays DEF Hidden, Typed
<1> SUFFICES ASSUME NEW c \in Containers, row'[c] = "running",
                    DeploymentOf(c) # deployment', c \notin blamed',
                    pc'["worker"] \in {"cleanup"} \cup Routing
             PROVE  pc'["worker"] = "cleanup" /\ c \in list'["worker"] \cup {hand'["worker"]}
  BY DEF OldAreListed, OneVersion, Running
<1>1. row[c] = "running" /\ ~SaveContainer
  BY <1>0, RunningIsSaved DEF SaveContainer, Goto, TypeOK
<1>2. deployment' = deployment
  <2>1. ~TakeJob
    BY <1>0 DEF TakeJob, Goto, TypeOK
  <2>2. QED
    BY <1>0, <1>1, <2>1, JobMoves
<1>3. /\ pc["worker"] = "cleanup" => c \in list["worker"] \cup {hand["worker"]}
      /\ pc["worker"] \notin Routing
  BY <1>0, <1>1, <1>2 DEF OldAreListed, OneVersion, Running
<1>4. CASE WorkerStep
  <2>1. CASE ListOld
    BY <1>0, <1>1, <1>2, <2>1 DEF ListOld, Goto, TypeOK, Running
  <2>2. CASE \/ TakeJob \/ CreateContainer \/ AllCreated \/ CheckNew \/ Promote \/ RefreshRoute
             \/ ExpectBackends \/ VerifyRoute \/ DeployFails \/ Report
    BY <1>0, <1>3, <2>2
    DEF TakeJob, CreateContainer, AllCreated, CheckNew, Promote, RefreshRoute,
        ExpectBackends, VerifyRoute, DeployFails, Report, Goto, TypeOK, processVars
  <2>3. ASSUME LoopStep("worker")
        PROVE  pc["worker"] = "cleanup" /\ c \in list["worker"] \cup {hand["worker"]}
    <3>1. pc["worker"] \in Loops
      BY <2>3 DEF LoopStep, TakeDown, SkipContainer, MarkStopped, LoopEnds, Looping
    <3>2. QED
      BY <1>0, <1>3, <3>1, WorkerLoops
  <2>4. CASE TakeDown("worker")
    <3>1. PICK d \in list["worker"] :
            /\ hand["worker"] = None
            /\ hand' = [hand EXCEPT !["worker"] = d]
            /\ list' = [list EXCEPT !["worker"] = @ \ {d}]
      BY <2>4 DEF TakeDown, Looping, NextInLoop
    <3>2. hand'["worker"] = d /\ list'["worker"] = list["worker"] \ {d} /\ pc' = pc
      BY <1>0, <2>4, <3>1 DEF TakeDown, TypeOK
    <3>3. c # None
      BY RollingAssumption
    <3>4. QED
      BY <2>3, <2>4, <3>1, <3>2, <3>3 DEF LoopStep
  <2>5. CASE SkipContainer("worker")
    <3>1. PICK d \in list["worker"] :
            /\ list' = [list EXCEPT !["worker"] = @ \ {d}]
            /\ blamed' = blamed \cup {d}
      BY <2>5 DEF SkipContainer
    <3>2. UNCHANGED <<pc, hand>> /\ list'["worker"] = list["worker"] \ {d}
      BY <1>0, <2>5, <3>1 DEF SkipContainer, TypeOK
    <3>3. QED
      BY <2>3, <2>5, <3>1, <3>2 DEF LoopStep
  <2>6. CASE MarkStopped("worker")
    <3>1. /\ UNCHANGED <<pc, list>>
          /\ WriteStopped(hand["worker"]) \/ blamed' = blamed \cup {hand["worker"]}
      BY <2>6 DEF MarkStopped
    <3>2. c # hand["worker"]
      BY <1>0, <1>1, <3>1 DEF WriteStopped, TypeOK
    <3>3. QED
      BY <2>3, <2>6, <3>1, <3>2 DEF LoopStep
  <2>7. CASE LoopEnds("worker")
    <3>1. list["worker"] = {} /\ hand["worker"] = None
      BY <2>7 DEF LoopEnds, Looping
    <3>2. QED
      BY <2>3, <2>7, <3>1, RollingAssumption DEF LoopStep
  <2>8. QED
    BY <1>1, <1>4, <2>1, <2>2, <2>4, <2>5, <2>6, <2>7 DEF WorkerStep, LoopStep
<1>5. ASSUME pc'["worker"] = pc["worker"], list'["worker"] = list["worker"],
             hand'["worker"] = hand["worker"]
      PROVE  pc'["worker"] = "cleanup" /\ c \in list'["worker"] \cup {hand'["worker"]}
  BY <1>3, <1>5
<1>6. CASE OutsideStep \/ UNCHANGED vars
  BY <1>5, <1>6, OutsideOwn DEF vars, processVars
<1>7. CASE Crash
  BY <1>0, <1>7 DEF Crash
<1>8. CASE \E p \in Processes \ {"worker"} : ProcessStep(p)
  BY <1>0, <1>5, <1>8, OthersOwn DEF OnlyOwn
<1>9. QED
  BY <1>4, <1>6, <1>7, <1>8, NextCases

\* When the worker makes the routes, no version but its own has a row that says running,
\* unless a call or statement about it failed (cleanupOldContainers).
THEOREM OneVersionIsRouted == Spec => []OneVersion
<1>1. Init => OldAreListed /\ OneVersion
  BY DEF Init, OldAreListed, OneVersion, Running
<1>2. Hidden /\ OldAreListed /\ OneVersion /\ [Next]_vars => OldAreListed' /\ OneVersion'
  BY VersionStep
<1>3. QED
  BY <1>1, <1>2, HiddenInit, HiddenStep, PTL DEF Spec

\* The worker stops no replica of an older version, and writes no row of one, before it
\* has created all its own and found them healthy in one attempt.
THEOREM OldVersionStays == Spec => OldVersionIsKept
<1> DEFINE Keeps ==
      WorkerStep =>
        \A c \in Containers :
          DeploymentOf(c) < deployment' /\ (docker'[c] # docker[c] \/ row'[c] # row[c]) =>
            seen = want /\ made = want
<1>1. ASSUME Typed PROVE Keeps
  <2> SUFFICES ASSUME WorkerStep, NEW c \in Containers, DeploymentOf(c) < deployment',
                      docker'[c] # docker[c] \/ row'[c] # row[c]
               PROVE  seen = want /\ made = want
    OBVIOUS
  <2>0. TypeOK /\ DeploymentOf(Own(made)) = deployment
        /\ deployment \in Nat /\ "worker" \in Processes
    BY <1>1, RollingAssumption, ProcessFacts DEF Typed, TypeOK, DeploymentOf, Own
  <2>1. CASE \/ TakeJob \/ AllCreated \/ CheckNew \/ ListOld \/ SkipContainer("worker")
             \/ LoopEnds("worker") \/ Promote \/ RefreshRoute \/ ExpectBackends
             \/ VerifyRoute \/ DeployFails \/ Report
    BY <2>1 DEF TakeJob, AllCreated, CheckNew, ListOld, SkipContainer, LoopEnds, Promote,
                RefreshRoute, ExpectBackends, VerifyRoute, DeployFails, Report, rowVars
  <2>2. ~CreateContainer
    <3>1. SUFFICES ASSUME CreateContainer PROVE FALSE
      OBVIOUS
    <3>2. /\ deployment' = deployment /\ row' = row
          /\ docker' = [docker EXCEPT ![Own(made)] = "up"]
      BY <3>1 DEF CreateContainer, jobVars, rowVars
    <3>3. c = Own(made)
      BY <2>0, <3>2 DEF TypeOK
    <3>4. QED
      BY <2>0, <3>2, <3>3
  <2>3. ~SaveContainer
    <3>1. SUFFICES ASSUME SaveContainer PROVE FALSE
      OBVIOUS
    <3>2. /\ deployment' = deployment /\ docker' = docker
          /\ row' = [row EXCEPT ![hand["worker"]] = "running"] \/ row' = row
      BY <3>1 DEF SaveContainer, rowVars
    <3>3. c = hand["worker"] /\ hand["worker"] = Own(made)
      BY <1>1, <2>0, <3>1, <3>2 DEF SaveContainer, Typed, JobIsAtPc, TypeOK
    <3>4. QED
      BY <2>0, <3>2, <3>3
  <2>4. CASE TakeDown("worker") \/ MarkStopped("worker")
    <3>1. pc["worker"] \in Loops
      BY <2>4 DEF TakeDown, MarkStopped, Looping
    <3>2. QED
      BY <1>1, <2>0, <3>1, WorkerLoops DEF Typed, JobIsAtPc
  <2>5. QED
    BY <2>1, <2>2, <2>3, <2>4 DEF WorkerStep, LoopStep
<1>2. Typed /\ [Next]_vars => [Keeps]_vars
  BY <1>1
<1>3. QED
  BY <1>2, TypedInit, TypedStep, PTL DEF Spec, OldVersionIsKept

-----------------------------------------------------------------------------
(***************************************************************************)
(* The file.                                                               *)
(***************************************************************************)
\* The ways in which a step changes what the file should say, what it says, or what
\* WatchChanges knows of it.
FileStep ==
  \/ Touch
  \/ UNCHANGED <<rowVars, proxyVars>>
  \/ Generate /\ UNCHANGED <<rowVars, dirty, watch>>
  \/ RemoveFile /\ UNCHANGED rowVars
  \/ WatchGenerates \/ WatchStamps \/ Crash
  \/ \E h \in Handlers : Erase(h) \/ RemoveRow(h)

\* There is no other.
LEMMA FileSteps == [Next]_vars => FileStep
<1> SUFFICES ASSUME [Next]_vars PROVE FileStep
  OBVIOUS
<1> DEFINE Same == UNCHANGED <<rowVars, proxyVars>>
<1>1. ASSUME NEW p, LoopStep(p) PROVE Touch \/ Same
  <2>1. CASE TakeDown(p) \/ SkipContainer(p) \/ LoopEnds(p)
    BY <2>1 DEF TakeDown, SkipContainer, LoopEnds
  <2>2. CASE MarkStopped(p)
    BY <2>2 DEF MarkStopped, WriteStopped, rowVars
  <2>3. QED
    BY <1>1, <2>1, <2>2 DEF LoopStep
<1>2. ASSUME NEW p, ReconcileStep(p) PROVE FileStep
  <2>1. CASE LoadApplication(p) \/ ListUnhealthy(p) \/ CountReplicas(p) \/ ListExcess(p)
             \/ SelfHeal(p) \/ SelfHealFails(p)
    BY <2>1 DEF LoadApplication, ListUnhealthy, CountReplicas, ListExcess, SelfHeal,
                SelfHealFails, FileStep
  <2>2. CASE Reroute(p)
    BY <2>2 DEF Reroute, FileStep, proxyVars
  <2>3. CASE Unroute(p)
    BY <2>3 DEF Unroute, FileStep
  <2>4. QED
    BY <1>1, <1>2, <2>1, <2>2, <2>3 DEF ReconcileStep, FileStep
<1>3. CASE WorkerStep
  <2>1. CASE TakeJob \/ CreateContainer \/ AllCreated \/ CheckNew \/ ListOld \/ ExpectBackends
             \/ VerifyRoute \/ DeployFails \/ Report
    BY <2>1 DEF TakeJob, CreateContainer, AllCreated, CheckNew, ListOld, ExpectBackends,
                VerifyRoute, DeployFails, Report, FileStep
  <2>2. CASE SaveContainer \/ Promote
    BY <2>2 DEF SaveContainer, Promote, FileStep
  <2>3. CASE RefreshRoute
    BY <2>3 DEF RefreshRoute, FileStep
  <2>4. QED
    BY <1>1, <1>3, <2>1, <2>2, <2>3 DEF WorkerStep, FileStep
<1>4. ASSUME NEW p \in Processes, ProcessStep(p) PROVE FileStep
  <2>1. CASE BreakOff(p) \/ StartTick
    BY <2>1 DEF BreakOff, StartTick, FileStep
  <2>2. CASE Request(p)
    BY <2>2 DEF Request, StopRequest, RestartRequest, DeleteRequest, ScaleRequest,
                StopOneRequest, RemoveRequest, FileStep
  <2>3. CASE \/ ScaleStatus(p) \/ ListAll(p) \/ StopContainer(p) \/ RestartContainer(p)
             \/ RestartEnds(p) \/ StopFails(p) \/ RemoveContainer(p)
    BY <2>3 DEF ScaleStatus, ListAll, StopContainer, RestartContainer, RestartEnds, StopFails,
                RemoveContainer, FileStep
  <2>4. CASE StopMark(p)
    BY <2>4 DEF StopMark, WriteStopped, FileStep, rowVars
  <2>5. CASE StopEnds(p)
    BY <2>5 DEF StopEnds, FileStep
  <2>6. QED
    BY <1>2, <1>4, <2>1, <2>2, <2>3, <2>4, <2>5 DEF ProcessStep, HandlerStep, FileStep
<1>5. CASE OutsideStep
  <2>1. CASE Deploy \/ HookDeploy \/ \E v \in verdicts : Verdict(v) \/ VerdictLost(v)
    BY <2>1 DEF Deploy, HookDeploy, Verdict, VerdictLost, FileStep
  <2>2. CASE \E c \in Containers : AskHealth(c) \/ ContainerExits(c) \/ ContainerRecovers(c)
    BY <2>2 DEF AskHealth, ContainerExits, ContainerRecovers, FileStep
  <2>3. CASE \E c \in Containers : MarkHealth(c)
    BY <2>3 DEF MarkHealth, FileStep, rowVars
  <2>4. QED
    BY <1>5, <2>1, <2>2, <2>3 DEF OutsideStep, FileStep
<1>6. CASE Crash \/ UNCHANGED vars
  BY <1>6 DEF vars, FileStep
<1>7. QED
  BY <1>3, <1>4, <1>5, <1>6, NextCases

\* Each of them leaves the file right, or the rows newer, or the history says why not.
LEMMA WatchedStep ==
  ASSUME Typed, Watched, [Next]_vars
  PROVE  Watched'
<1> USE DEF Watched, RouteIsWatched, StampIsRight
<1>0. TypeOK
  BY DEF Typed
<1>1. CASE Touch
  BY <1>0, <1>1 DEF Touch, TypeOK
<1>a. ASSUME UNCHANGED rowVars PROVE Backends' = Backends
  BY <1>a DEF Backends, Running, rowVars
<1>2. CASE UNCHANGED <<rowVars, proxyVars>>
  BY <1>a, <1>2 DEF proxyVars
<1>3. CASE Generate /\ UNCHANGED <<rowVars, dirty, watch>>
  BY <1>a, <1>3 DEF Generate
<1>4. CASE RemoveFile /\ UNCHANGED rowVars
  BY <1>a, <1>4 DEF RemoveFile
<1>5. CASE WatchGenerates
  BY <1>a, <1>5 DEF WatchGenerates, Generate
<1>6. CASE WatchStamps
  BY <1>a, <1>6 DEF WatchStamps
<1>7. CASE Crash
  BY <1>a, <1>7 DEF Crash
<1>8. ASSUME NEW h \in Handlers, Erase(h) PROVE Watched'
  <2>1. Backends' = {} /\ unseen' = (route # {}) /\ route' = route
    BY <1>8 DEF Erase, Backends, Running
  <2>2. QED
    BY <2>1
<1>9. ASSUME NEW h \in Handlers, RemoveRow(h) PROVE Watched'
  <2>1. /\ unseen' = (unseen \/ hand[h] \in Backends) /\ UNCHANGED <<route, dirty, watch>>
        /\ row' = [row EXCEPT ![hand[h]] = "none"]
        /\ health' = [health EXCEPT ![hand[h]] = "healthy"]
    BY <1>9 DEF RemoveRow
  <2>2. hand[h] \notin Backends => Backends' = Backends
    BY <1>0, <2>1 DEF Backends, Running, TypeOK
  <2>3. CASE hand[h] \in Backends
    BY <2>1, <2>3
  <2>4. CASE hand[h] \notin Backends
    <3>1. Backends' = Backends /\ unseen' = unseen
      BY <1>0, <2>1, <2>2, <2>4 DEF TypeOK
    <3>2. QED
      BY <2>1, <3>1
  <2>5. QED
    BY <2>3, <2>4
<1>10. QED
  BY <1>1, <1>2, <1>3, <1>4, <1>5, <1>6, <1>7, <1>8, <1>9, FileSteps DEF FileStep

\* A file that is not what the rows say is one that WatchChanges will write at its next
\* tick, unless its timestamp, a stop or the removal of a row hid the difference from it.
THEOREM RouteIsNotForgotten == Spec => []RouteIsWatched
<1>1. Init => Watched
  BY DEF Init, Watched, RouteIsWatched, StampIsRight, Backends, Running
<1>2. Watched => RouteIsWatched
  BY DEF Watched
<1>3. Typed /\ Watched /\ [Next]_vars => Watched'
  BY WatchedStep
<1>4. QED
  BY <1>1, <1>2, <1>3, TypedInit, TypedStep, PTL DEF Spec

=============================================================================
