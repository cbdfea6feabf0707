------------------------- MODULE ServerRegistryProofs -------------------------
(***************************************************************************)
(* Theorems about ServerRegistry, for every set of servers, every choice   *)
(* of operators and faults, and every bound.                               *)
(***************************************************************************)
EXTENDS ServerRegistry, TLAPS

\* The worker that has chosen a server or created a container on it knows which one,
\* and that container is among those that run there.
Accounted ==
  /\ worker.pc \in {"chosen", "created"} => worker.server \in Servers
  /\ \A s \in Servers : placed[s] + InProgress(s) <= live[s]

\* A delete that has counted found no container, and none came since, or the server is
\* excused; and so is a server whose row has gone under the worker that chose it.
DeleteIsSeen ==
  /\ \A s \in Servers : remover[s] = "counted" => placed[s] = 0 \/ s \in excused
  /\ \A s \in Servers :
       worker.pc \in {"chosen", "created"} /\ worker.server = s /\ row[s] = None =>
         s \in excused

-----------------------------------------------------------------------------
\* The type of a server's row, whichever fields of it an action writes.
LEMMA RowType ==
  ASSUME row \in [Servers -> ServerRow \cup {None}], NEW s \in Servers,
         NEW status \in ServerStatus, NEW beat \in {"never", "fresh", "stale"},
         row[s] # None
  PROVE  /\ [row EXCEPT ![s].status = status] \in [Servers -> ServerRow \cup {None}]
         /\ [row EXCEPT ![s].beat = beat] \in [Servers -> ServerRow \cup {None}]
         /\ [row EXCEPT ![s].status = status, ![s].beat = beat]
              \in [Servers -> ServerRow \cup {None}]
         /\ [row EXCEPT ![s].status = status][s] # None
         /\ [row EXCEPT ![s].beat = beat][s] # None
         /\ [row EXCEPT ![s].status = status, ![s].beat = beat][s] # None
  BY RegistryAssumption DEF ServerRow

Typed == TypeOK /\ Accounted

\* Initially every variable has its type and there is no container.
LEMMA TypedInit == Init => Typed
  BY RegistryAssumption DEF Init, Typed, TypeOK, Accounted, Idle, InProgress

\* Operators insert rows, change their status and remove them.
LEMMA OperatorTyped ==
  ASSUME Typed, NEW s \in Servers, Operator(s)
  PROVE  Typed'
<1> USE RegistryAssumption DEF Typed, TypeOK, agentVars, hostVars, history
<1>1. ASSUME NEW status \in ServerStatus, NEW address \in BOOLEAN,
             InsertRow(s, status, address)
      PROVE  Typed'
  <2>1. row' \in [Servers -> ServerRow \cup {None}]
    BY <1>1 DEF InsertRow, ServerRow
  <2>2. row'[s] # None
    BY <1>1 DEF InsertRow, ServerRow
  <2>3. \A t \in Servers : placed'[t] > 0 => row'[t] # None
    BY <1>1, <2>2 DEF InsertRow
  <2>4. Accounted'
    BY <1>1 DEF InsertRow, Accounted, InProgress
  <2>5. ordered' \in [Servers -> ServerStatus \cup {None}]
    BY <1>1 DEF InsertRow
  <2>6. QED
    BY <1>1, <2>1, <2>3, <2>4, <2>5 DEF InsertRow
<1>2. ASSUME NEW status \in ServerStatus, SetStatus(s, status)
      PROVE  Typed'
  <2>1. row' \in [Servers -> ServerRow \cup {None}] /\ row'[s] # None
    BY <1>2, RowType DEF SetStatus
  <2>2. \A t \in Servers : placed'[t] > 0 => row'[t] # None
    BY <1>2, <2>1 DEF SetStatus
  <2>3. Accounted'
    BY <1>2 DEF SetStatus, Accounted, InProgress
  <2>4. ordered' \in [Servers -> ServerStatus \cup {None}]
    BY <1>2 DEF SetStatus
  <2>5. QED
    BY <1>2, <2>1, <2>2, <2>3, <2>4 DEF SetStatus
<1>3. CASE DeleteCounts(s)
  <2>1. Accounted'
    BY <1>3 DEF DeleteCounts, Accounted, InProgress
  <2>2. QED
    BY <1>3, <2>1 DEF DeleteCounts
<1>4. ASSUME RemoveRow(s)
      PROVE  /\ row' \in [Servers -> ServerRow \cup {None}]
             /\ placed' \in [Servers -> Nat]
             /\ \A t \in Servers : placed'[t] > 0 => row'[t] # None
             /\ ordered' \in [Servers -> ServerStatus \cup {None}]
             /\ Accounted'
  <2>1. placed' \in [Servers -> Nat]
    BY <1>4 DEF RemoveRow
  <2>2. \A t \in Servers : placed'[t] = IF t = s THEN 0 ELSE placed[t]
    BY <1>4 DEF RemoveRow
  <2>3. \A t \in Servers : placed'[t] > 0 => row'[t] # None
    BY <1>4, <2>2 DEF RemoveRow
  <2>4. Accounted'
    BY <1>4, <2>2 DEF RemoveRow, Accounted, InProgress
  <2>5. QED
    BY <1>4, <2>1, <2>3, <2>4 DEF RemoveRow
<1>5. CASE DeleteRow(s) \/ DeleteAction(s)
  BY <1>4, <1>5 DEF DeleteRow, DeleteAction, RemoveRow
<1>6. CASE DeleteFails(s)
  <2>1. Accounted'
    BY <1>6 DEF DeleteFails, Accounted, InProgress
  <2>2. QED
    BY <1>6, <2>1 DEF DeleteFails
<1>7. {"offline", "online", "draining", "maintenance"} \subseteq ServerStatus
  BY DEF ServerStatus
<1>8. QED
  BY <1>1, <1>2, <1>3, <1>5, <1>6, <1>7
  DEF Operator, Create, CreateServer, EditServer, Drain, Maintenance

\* The agents and their heartbeats change rows and samples, and no container.
LEMMA AgentTyped ==
  ASSUME Typed, NEW s \in Servers, Agent(s)
  PROVE  Typed'
<1> USE RegistryAssumption DEF Typed, TypeOK, agentVars, hostVars, history
<1>1. UNCHANGED hostVars /\ UNCHANGED worker
  BY DEF Agent, StartAgent, StopAgent, HeartbeatLost, HeartbeatRefused, HeartbeatUpdates,
         HeartbeatFindsNone, HeartbeatInserts, HeartbeatAges, UsageAges
<1>2. Accounted'
  BY <1>1 DEF Accounted, InProgress
<1>3. BeatFails(s) \/ BeatCounts(s) =>
        consecutiveFails' \in [Servers -> 0..3] /\ UNCHANGED up
  BY DEF BeatFails, BeatCounts
<1>4. RecordUsage(s) => usages' \in [Servers -> 0..MaxUsages]
  BY DEF RecordUsage
<1>5. CASE StartAgent(s) \/ StopAgent(s)
  <2>1. up' \in [Servers -> BOOLEAN]
    BY <1>5 DEF StartAgent, StopAgent
  <2>2. consecutiveFails' \in [Servers -> 0..3]
    BY <1>5 DEF StartAgent, StopAgent
  <2>3. QED
    BY <1>2, <1>5, <2>1, <2>2 DEF StartAgent, StopAgent
<1>6. CASE HeartbeatLost(s) \/ HeartbeatRefused(s)
  BY <1>2, <1>3, <1>6 DEF HeartbeatLost, HeartbeatRefused
<1>7. CASE HeartbeatUpdates(s)
  <2>1. row' \in [Servers -> ServerRow \cup {None}] /\ row'[s] # None
    BY <1>7, RowType DEF HeartbeatUpdates, ServerStatus
  <2>2. \A t \in Servers : placed'[t] > 0 => row'[t] # None
    BY <1>1, <1>7, <2>1 DEF HeartbeatUpdates
  <2>3. QED
    BY <1>2, <1>3, <1>4, <1>7, <2>1, <2>2 DEF HeartbeatUpdates
<1>8. CASE HeartbeatFindsNone(s)
  BY <1>2, <1>8 DEF HeartbeatFindsNone
<1>9. CASE HeartbeatInserts(s)
  <2>0. [status |-> "online", address |-> TRUE, beat |-> "fresh"] \in ServerRow
    BY DEF ServerRow, ServerStatus
  <2>1. row' \in [Servers -> ServerRow \cup {None}] /\ row'[s] # None
    BY <1>9, <2>0 DEF HeartbeatInserts
  <2>2. \A t \in Servers : placed'[t] > 0 => row'[t] # None
    BY <1>1, <1>9, <2>1 DEF HeartbeatInserts
  <2>3. QED
    BY <1>2, <1>3, <1>4, <1>9, <2>1, <2>2 DEF HeartbeatInserts
<1>10. CASE HeartbeatAges(s)
  <2>1. row' \in [Servers -> ServerRow \cup {None}] /\ row'[s] # None
    BY <1>10, RowType DEF HeartbeatAges, ServerStatus
  <2>2. \A t \in Servers : placed'[t] > 0 => row'[t] # None
    BY <1>1, <1>10, <2>1 DEF HeartbeatAges
  <2>3. QED
    BY <1>2, <1>10, <2>1, <2>2 DEF HeartbeatAges
<1>11. CASE UsageAges(s)
  <2>1. usages' \in [Servers -> 0..MaxUsages]
    BY <1>11 DEF UsageAges
  <2>2. QED
    BY <1>2, <1>11, <2>1 DEF UsageAges
<1>12. QED
  BY <1>5, <1>6, <1>7, <1>8, <1>9, <1>10, <1>11 DEF Agent

\* The sweep changes the status of rows.
LEMMA SweepTyped ==
  ASSUME Typed, checkAllServers
  PROVE  Typed'
<1> USE RegistryAssumption DEF Typed, TypeOK, agentVars, hostVars, history
<1> DEFINE Swept == {s \in Servers : Stale(s) /\ row[s].status # "offline"}
<1>1. SweepOf(Swept)
  BY DEF checkAllServers
<1>2. row' \in [Servers -> ServerRow \cup {None}]
  BY <1>1 DEF SweepOf, Stale, ServerRow, ServerStatus
<1>3. \A t \in Servers : row[t] # None => row'[t] # None
  BY <1>1 DEF SweepOf, Stale, ServerRow, ServerStatus
<1>4. Accounted'
  BY <1>1 DEF SweepOf, Accounted, InProgress
<1>5. QED
  BY <1>1, <1>2, <1>3, <1>4 DEF SweepOf

\* Placing a container counts it where it runs, and then where it has its row.
LEMMA PlacementTyped ==
  ASSUME Typed, NEW s \in Servers, SelectServer \/ GiveUp \/ Placement(s)
  PROVE  Typed'
<1> USE RegistryAssumption DEF Typed, TypeOK, Accounted, agentVars, hostVars, history
<1>1. CASE SelectServer
  <2>1. PICK t \in Servers :
          worker' = IF row[t].address
                    THEN [pc |-> "chosen", server |-> t]
                    ELSE [pc |-> "refused", server |-> None]
    BY <1>1 DEF SelectServer, Available
  <2>2. \A r \in Servers : InProgress(r)' = 0
    BY <2>1 DEF InProgress
  <2>3. \A r \in Servers : placed'[r] + InProgress(r)' <= live'[r]
    BY <1>1, <2>2 DEF SelectServer, InProgress
  <2>4. QED
    BY <1>1, <2>1, <2>3 DEF SelectServer
<1>2. CASE GiveUp \/ AgentFails(s)
  <2>1. \A r \in Servers : InProgress(r)' = 0
    BY <1>2 DEF GiveUp, AgentFails, InProgress, Idle
  <2>2. \A r \in Servers : placed'[r] + InProgress(r)' <= live'[r]
    BY <1>2, <2>1 DEF GiveUp, AgentFails, InProgress
  <2>3. QED
    BY <1>2, <2>2 DEF GiveUp, AgentFails, Idle
<1>3. CASE CreateContainer(s)
  <2>1. live' \in [Servers -> Nat] /\ live'[s] = live[s] + 1
    BY <1>3 DEF CreateContainer
  <2>2. worker' = [pc |-> "created", server |-> s]
    BY <1>3 DEF CreateContainer
  <2>3. \A r \in Servers : placed'[r] + InProgress(r)' <= live'[r]
    BY <1>3, <2>1, <2>2 DEF CreateContainer, InProgress
  <2>4. QED
    BY <1>3, <2>1, <2>2, <2>3 DEF CreateContainer
<1>4. CASE saveContainer(s)
  <2>1. worker' = Idle /\ \A r \in Servers : InProgress(r)' = 0
    BY <1>4 DEF saveContainer, Idle, InProgress
  <2>2. InProgress(s) = 1 /\ UNCHANGED <<live, row>>
    BY <1>4 DEF saveContainer, InProgress
  <2>3. /\ placed' \in [Servers -> Nat]
        /\ \A r \in Servers : placed'[r] # placed[r] =>
             r = s /\ placed'[r] = placed[r] + 1 /\ row[s] # None
    BY <1>4 DEF saveContainer
  <2>4. \A r \in Servers : placed'[r] + InProgress(r)' <= live'[r]
    BY <2>1, <2>2, <2>3 DEF InProgress
  <2>5. \A r \in Servers : placed'[r] > 0 => row'[r] # None
    BY <2>2, <2>3
  <2>6. excused' \subseteq Servers
    BY <1>4 DEF saveContainer
  <2>7. QED
    BY <1>4, <2>1, <2>3, <2>4, <2>5, <2>6 DEF saveContainer, Idle
<1>5. CASE RemoveContainer(s)
  <2>1. UNCHANGED <<worker, row>> /\ \A r \in Servers : InProgress(r)' = InProgress(r)
    BY <1>5 DEF RemoveContainer, InProgress
  <2>2. placed[s] > 0 /\ placed[s] <= live[s]
    BY <1>5 DEF RemoveContainer, InProgress
  <2>3. /\ placed' \in [Servers -> Nat] /\ live' \in [Servers -> Nat]
        /\ placed'[s] = placed[s] - 1 /\ live'[s] = live[s] - 1
        /\ \A r \in Servers \ {s} : placed'[r] = placed[r] /\ live'[r] = live[r]
    BY <1>5, <2>2 DEF RemoveContainer
  <2>4. \A r \in Servers : placed'[r] + InProgress(r)' <= live'[r]
    BY <2>1, <2>3 DEF InProgress
  <2>5. \A r \in Servers : placed'[r] > 0 => row'[r] # None
    BY <2>1, <2>3
  <2>6. QED
    BY <1>5, <2>1, <2>3, <2>4, <2>5 DEF RemoveContainer
<1>6. QED
  BY <1>1, <1>2, <1>3, <1>4, <1>5 DEF Placement

\* Every step keeps the types and the account of the containers.
LEMMA TypedStep == Typed /\ [Next]_vars => Typed'
<1> SUFFICES ASSUME Typed, [Next]_vars PROVE Typed'
  OBVIOUS
<1>1. CASE checkAllServers
  BY <1>1, SweepTyped
<1>2. CASE SelectServer \/ GiveUp
  <2>1. CASE Servers = {}
    <3>1. GiveUp
      BY <1>2, <2>1 DEF SelectServer, Available
    <3>2. QED
      BY <2>1, <3>1
      DEF GiveUp, Typed, TypeOK, Accounted, Idle, agentVars, hostVars, history
  <2>2. CASE Servers # {}
    BY <1>2, <2>2, PlacementTyped
  <2>3. QED
    BY <2>1, <2>2
<1>3. CASE \E s \in Servers : Operator(s) \/ Agent(s) \/ Placement(s)
  BY <1>3, OperatorTyped, AgentTyped, PlacementTyped
<1>4. CASE UNCHANGED vars
  BY <1>4
  DEF Typed, TypeOK, Accounted, InProgress, vars, agentVars, hostVars, history
<1>5. QED
  BY <1>1, <1>2, <1>3, <1>4 DEF Next

\* Every variable keeps its type; a container without a row of its server never has one
\* of its own (ON DELETE CASCADE, and the foreign key that saveContainer meets).
THEOREM TypeCorrect == Spec => []TypeOK
<1>1. Typed => TypeOK
  BY DEF Typed
<1>2. QED
  BY <1>1, TypedInit, TypedStep, PTL DEF Spec

-----------------------------------------------------------------------------
Explained == DeleteIsSeen /\ LossIsExplained

\* A step that leaves containers, their rows, the worker, the deletes and the excuses
\* alone, and takes no row of a server away, loses no container.
LEMMA ExplainedFrame ==
  ASSUME Explained, UNCHANGED <<hostVars, worker, remover, excused>>,
         \A s \in Servers : row[s] # None => row'[s] # None
  PROVE  Explained'
  BY DEF Explained, DeleteIsSeen, LossIsExplained, InProgress, hostVars

\* What operators do loses a container only with an excuse.
LEMMA OperatorExplained ==
  ASSUME Typed, Explained, NEW s \in Servers, Operator(s)
  PROVE  Explained'
<1> USE RegistryAssumption DEF Typed, TypeOK, agentVars, hostVars, history
<1>1. CASE \/ Create(s) \/ Drain(s)
           \/ \E enable \in BOOLEAN : Maintenance(s, enable)
           \/ \E status \in ServerStatus : CreateServer(s, status) \/ EditServer(s, status)
  <2>1. UNCHANGED <<hostVars, worker, remover, excused>>
    BY <1>1 DEF Create, Drain, Maintenance, CreateServer, EditServer, InsertRow, SetStatus
  <2>2. \A t \in Servers : row[t] # None => row'[t] # None
    <3>1. ASSUME NEW status \in ServerStatus, SetStatus(s, status)
          PROVE  \A t \in Servers : row[t] # None => row'[t] # None
      <4>1. row'[s] # None
        BY <3>1, RowType DEF SetStatus
      <4>2. QED
        BY <3>1, <4>1 DEF SetStatus
    <3>2. ASSUME NEW status \in ServerStatus, NEW address \in BOOLEAN,
                 InsertRow(s, status, address)
          PROVE  \A t \in Servers : row[t] # None => row'[t] # None
      <4>1. [status |-> status, address |-> address, beat |-> "never"] \in ServerRow
        BY DEF ServerRow
      <4>2. QED
        BY <3>2, <4>1 DEF InsertRow
    <3>3. QED
      BY <1>1, <3>1, <3>2
      DEF Create, Drain, Maintenance, CreateServer, EditServer, ServerStatus
  <2>3. QED
    BY <2>1, <2>2, ExplainedFrame
<1>2. CASE DeleteCounts(s)
  BY <1>2 DEF DeleteCounts, Explained, DeleteIsSeen, LossIsExplained, InProgress
<1>3. CASE DeleteRow(s) \/ DeleteAction(s)
  <2>1. CASE s \in excused'
    BY <1>3, <2>1
    DEF DeleteRow, DeleteAction, RemoveRow, Explained, DeleteIsSeen, LossIsExplained,
        InProgress
  <2>2. CASE s \notin excused'
    <3>1. DeleteRow(s) /\ worker.server # s /\ excused' = excused
      BY <1>3, <2>2 DEF DeleteRow, DeleteAction
    <3>2. placed[s] = 0
      BY <2>2, <3>1 DEF DeleteRow, Explained, DeleteIsSeen
    <3>3. placed' = placed
      BY <3>1, <3>2 DEF DeleteRow, RemoveRow
    <3>4. QED
      BY <3>1, <3>3
      DEF DeleteRow, RemoveRow, Explained, DeleteIsSeen, LossIsExplained, InProgress
  <2>3. QED
    BY <2>1, <2>2
<1>4. CASE DeleteFails(s)
  BY <1>4 DEF DeleteFails, Explained, DeleteIsSeen, LossIsExplained, InProgress
<1>5. QED
  BY <1>1, <1>2, <1>3, <1>4 DEF Operator

\* Agents and the sweep touch no container and take no row away.
LEMMA AgentExplained ==
  ASSUME Typed, Explained, NEW s \in Servers, Agent(s) \/ checkAllServers
  PROVE  Explained'
<1> USE RegistryAssumption DEF Typed, TypeOK, agentVars, hostVars, history
<1>1. UNCHANGED <<hostVars, worker, remover, excused>>
  BY DEF Agent, StartAgent, StopAgent, HeartbeatLost, HeartbeatRefused, HeartbeatUpdates,
         HeartbeatFindsNone, HeartbeatInserts, HeartbeatAges, UsageAges, checkAllServers,
         SweepOf
<1>2. CASE \/ StartAgent(s) \/ StopAgent(s) \/ HeartbeatLost(s) \/ HeartbeatRefused(s)
           \/ HeartbeatFindsNone(s) \/ UsageAges(s)
  <2>1. row' = row
    BY <1>2 DEF StartAgent, StopAgent, HeartbeatLost, HeartbeatRefused,
                HeartbeatFindsNone, UsageAges
  <2>2. QED
    BY <1>1, <2>1, ExplainedFrame
<1>3. CASE HeartbeatUpdates(s) \/ HeartbeatAges(s) \/ HeartbeatInserts(s)
  <2>1. [status |-> "online", address |-> TRUE, beat |-> "fresh"] \in ServerRow
    BY DEF ServerRow, ServerStatus
  <2>2. row'[s] # None
    <3>1. CASE HeartbeatUpdates(s)
      BY <3>1, RowType DEF HeartbeatUpdates, ServerStatus
    <3>2. CASE HeartbeatAges(s)
      BY <3>2, RowType DEF HeartbeatAges, ServerStatus
    <3>3. CASE HeartbeatInserts(s)
      BY <2>1, <3>3 DEF HeartbeatInserts
    <3>4. QED
      BY <1>3, <3>1, <3>2, <3>3
  <2>3. \A t \in Servers \ {s} : row'[t] = row[t]
    BY <1>3 DEF HeartbeatUpdates, HeartbeatAges, HeartbeatInserts
  <2>4. QED
    BY <1>1, <2>2, <2>3, ExplainedFrame
<1>4. CASE checkAllServers
  <2>1. \A t \in Servers : row[t] # None => row'[t] # None
    BY <1>4 DEF checkAllServers, SweepOf, Stale, ServerRow, ServerStatus
  <2>2. QED
    BY <1>1, <2>1, ExplainedFrame
<1>5. QED
  BY <1>2, <1>3, <1>4 DEF Agent

\* A container that is created is in progress until its row is saved, and is lost then
\* only if the row of its server has gone or the insert failed.
LEMMA PlacementExplained ==
  ASSUME Typed, Explained, SelectServer \/ GiveUp \/ \E s \in Servers : Placement(s)
  PROVE  Explained'
<1> USE RegistryAssumption
    DEF Typed, TypeOK, Accounted, Explained, DeleteIsSeen, LossIsExplained, agentVars,
        hostVars, history
<1>1. CASE SelectServer
  <2>1. PICK t \in Servers :
          /\ row[t] # None
          /\ worker' = IF row[t].address
                       THEN [pc |-> "chosen", server |-> t]
                       ELSE [pc |-> "refused", server |-> None]
    BY <1>1 DEF SelectServer, Available, Status, ServerStatus
  <2>2. worker.pc = "idle" /\ \A r \in Servers : InProgress(r) = 0 /\ InProgress(r)' = 0
    BY <1>1, <2>1 DEF SelectServer, InProgress
  <2>3. QED
    BY <1>1, <2>1, <2>2 DEF SelectServer
<1>2. CASE GiveUp \/ \E s \in Servers : AgentFails(s)
  <2>1. \A r \in Servers : InProgress(r) = 0 /\ InProgress(r)' = 0
    BY <1>2 DEF GiveUp, AgentFails, InProgress, Idle
  <2>2. worker'.pc = "idle" /\ UNCHANGED <<row, placed, live, remover, excused>>
    BY <1>2 DEF GiveUp, AgentFails, Idle
  <2>3. DeleteIsSeen'
    BY <2>2
  <2>4. LossIsExplained'
    BY <2>1, <2>2
  <2>5. QED
    BY <2>3, <2>4
<1>3. ASSUME NEW s \in Servers, CreateContainer(s)
      PROVE  Explained'
  <2>1. live'[s] = live[s] + 1 /\ \A r \in Servers \ {s} : live'[r] = live[r]
    BY <1>3 DEF CreateContainer
  <2>2. worker' = [pc |-> "created", server |-> s] /\ worker.server = s
        /\ worker.pc = "chosen"
    BY <1>3 DEF CreateContainer
  <2>3. \A r \in Servers : InProgress(r) = 0 /\ InProgress(r)' = IF r = s THEN 1 ELSE 0
    BY <2>2 DEF InProgress
  <2>4. UNCHANGED <<row, placed, remover, excused>>
    BY <1>3 DEF CreateContainer
  <2>5. DeleteIsSeen'
    BY <2>2, <2>4
  <2>6. LossIsExplained'
    BY <2>1, <2>3, <2>4
  <2>7. QED
    BY <2>5, <2>6
<1>4. ASSUME NEW s \in Servers, saveContainer(s)
      PROVE  Explained'
  <2>1. /\ worker' = Idle /\ worker.pc = "created" /\ worker.server = s
        /\ \A r \in Servers : InProgress(r)' = 0 /\ InProgress(r) = IF r = s THEN 1 ELSE 0
    BY <1>4 DEF saveContainer, Idle, InProgress
  <2>2. UNCHANGED <<row, live, remover>>
    BY <1>4 DEF saveContainer
  <2>3. CASE /\ row[s] # None
             /\ placed' = [placed EXCEPT ![s] = @ + 1]
             /\ excused' = IF remover[s] = "counted" THEN excused \cup {s} ELSE excused
    <3>1. placed'[s] = placed[s] + 1 /\ \A r \in Servers \ {s} : placed'[r] = placed[r]
      BY <2>3
    <3>2. LossIsExplained'
      BY <2>1, <2>2, <2>3, <3>1
    <3>3. DeleteIsSeen'
      BY <2>1, <2>2, <2>3, <3>1 DEF Idle
    <3>4. QED
      BY <3>2, <3>3
  <2>4. CASE UNCHANGED placed /\ s \in excused' /\ excused \subseteq excused'
    BY <2>1, <2>2, <2>4 DEF Idle
  <2>5. QED
    BY <1>4, <2>1, <2>3, <2>4 DEF saveContainer
<1>5. ASSUME NEW s \in Servers, RemoveContainer(s)
      PROVE  Explained'
  <2>1. UNCHANGED <<worker, row, remover, excused>>
        /\ \A r \in Servers : InProgress(r)' = InProgress(r)
    BY <1>5 DEF RemoveContainer, InProgress
  <2>2. /\ placed'[s] = placed[s] - 1 /\ live'[s] = live[s] - 1 /\ placed[s] > 0
        /\ \A r \in Servers \ {s} : placed'[r] = placed[r] /\ live'[r] = live[r]
    BY <1>5 DEF RemoveContainer
  <2>3. DeleteIsSeen'
    BY <2>1, <2>2
  <2>4. \A r \in Servers : InProgress(r) \in {0, 1}
    BY DEF InProgress
  <2>5. LossIsExplained'
    BY <2>1, <2>2, <2>4
  <2>6. QED
    BY <2>3, <2>5
<1>6. QED
  BY <1>1, <1>2, <1>3, <1>4, <1>5 DEF Placement

\* Whatever operators, agents, sweeps and placements do at the same time, a container
\* that runs without its row runs on a server that was excused (DeleteServer, the
\* panel's delete action, saveContainer).
THEOREM LossExplained == Spec => []LossIsExplained
<1>1. Init => Explained
  BY RegistryAssumption DEF Init, Explained, DeleteIsSeen, LossIsExplained, Idle, InProgress
<1>2. Typed /\ Explained /\ [Next]_vars => Explained'
  <2> SUFFICES ASSUME Typed, Explained, [Next]_vars PROVE Explained'
    OBVIOUS
  <2>1. CASE checkAllServers
    <3>1. PICK s \in Servers : TRUE
      BY <2>1 DEF checkAllServers, SweepOf
    <3>2. QED
      BY <2>1, <3>1, AgentExplained
  <2>2. CASE SelectServer \/ GiveUp \/ \E s \in Servers : Placement(s)
    BY <2>2, PlacementExplained
  <2>3. CASE \E s \in Servers : Operator(s) \/ Agent(s)
    BY <2>3, OperatorExplained, AgentExplained
  <2>4. CASE UNCHANGED vars
    BY <2>4, ExplainedFrame DEF vars, history
  <2>5. QED
    BY <2>1, <2>2, <2>3, <2>4 DEF Next
<1>3. Explained => LossIsExplained
  BY DEF Explained
<1>4. QED
  BY <1>1, <1>2, <1>3, TypedInit, TypedStep, PTL DEF Spec

-----------------------------------------------------------------------------
\* Where a row comes from says what its status may be: a row was inserted or set by an
\* operator, came from a heartbeat, or was swept after its heartbeat grew stale.
THEOREM StatusBacked == Spec => []StatusIsBacked
<1>1. Init => StatusIsBacked
  BY DEF Init, StatusIsBacked
<1>2. Typed /\ StatusIsBacked /\ [Next]_vars => StatusIsBacked'
  <2> SUFFICES ASSUME Typed, StatusIsBacked, [Next]_vars PROVE StatusIsBacked'
    OBVIOUS
  <2> DEFINE Backed(s) == row[s] # None /\ Status(s) # ordered[s] =>
               \/ Status(s) = "online" /\ row[s].beat # "never"
               \/ Status(s) = "offline" /\ row[s].beat = "stale"
  <2>0. StatusIsBacked' <=> \A t \in Servers : Backed(t)'
    BY DEF StatusIsBacked, Status
  <2> USE RegistryAssumption DEF Typed, TypeOK, StatusIsBacked, Status, agentVars, history
  <2>1. ASSUME UNCHANGED <<row, ordered>> PROVE StatusIsBacked'
    BY <2>1
  <2>2. ASSUME NEW s \in Servers,
               \A t \in Servers \ {s} : row'[t] = row[t] /\ ordered'[t] = ordered[t],
               Backed(s)'
        PROVE  StatusIsBacked'
    <3>1. \A t \in Servers \ {s} : Backed(t)'
      BY <2>2
    <3>2. QED
      BY <2>0, <2>2, <3>1
  <2>3. ASSUME NEW s \in Servers, Operator(s) PROVE StatusIsBacked'
    <3>1. CASE DeleteCounts(s) \/ DeleteFails(s)
      BY <2>1, <3>1 DEF DeleteCounts, DeleteFails
    <3>2. CASE DeleteRow(s) \/ DeleteAction(s)
      <4>1. row'[s] = None /\ \A t \in Servers \ {s} : row'[t] = row[t] /\ ordered'[t] = ordered[t]
        BY <3>2 DEF DeleteRow, DeleteAction, RemoveRow
      <4>2. QED
        BY <2>2, <4>1
    <3>3. ASSUME NEW status \in ServerStatus, NEW address \in BOOLEAN,
                 InsertRow(s, status, address) \/ SetStatus(s, status)
          PROVE  StatusIsBacked'
      <4>1. row'[s].status = status /\ ordered'[s] = status
        <5>1. CASE SetStatus(s, status)
          BY <5>1 DEF SetStatus, ServerRow
        <5>2. CASE InsertRow(s, status, address)
          BY <5>2 DEF InsertRow
        <5>3. QED
          BY <3>3, <5>1, <5>2
      <4>2. \A t \in Servers \ {s} : row'[t] = row[t] /\ ordered'[t] = ordered[t]
        BY <3>3 DEF InsertRow, SetStatus
      <4>3. QED
        BY <2>2, <4>1, <4>2
    <3>4. QED
      BY <2>3, <3>1, <3>2, <3>3
      DEF Operator, Create, Drain, Maintenance, CreateServer, EditServer, ServerStatus
  <2>4. ASSUME NEW s \in Servers, Agent(s) PROVE StatusIsBacked'
    <3>1. CASE UNCHANGED row
      BY <2>1, <2>4, <3>1
      DEF Agent, StartAgent, StopAgent, HeartbeatLost, HeartbeatRefused, HeartbeatUpdates,
          HeartbeatFindsNone, HeartbeatInserts, HeartbeatAges, UsageAges
    <3>2. CASE HeartbeatUpdates(s) \/ HeartbeatInserts(s)
      <4>1. row'[s].status = "online" /\ row'[s].beat = "fresh"
        BY <3>2 DEF HeartbeatUpdates, HeartbeatInserts, ServerRow
      <4>2. \A t \in Servers \ {s} : row'[t] = row[t] /\ ordered'[t] = ordered[t]
        BY <3>2 DEF HeartbeatUpdates, HeartbeatInserts
      <4>3. QED
        BY <2>2, <4>1, <4>2
    <3>3. CASE HeartbeatAges(s)
      <4>1. row[s] # None /\ row'[s].status = row[s].status /\ row'[s].beat = "stale" /\ ordered' = ordered
        BY <3>3 DEF HeartbeatAges, ServerRow
      <4>2. \A t \in Servers \ {s} : row'[t] = row[t] /\ ordered'[t] = ordered[t]
        BY <3>3 DEF HeartbeatAges
      <4>3. row[s].beat = "fresh"
        BY <3>3 DEF HeartbeatAges
      <4>4. QED
        BY <2>2, <4>1, <4>2, <4>3
    <3>4. QED
      BY <2>4, <3>1, <3>2, <3>3
      DEF Agent, StartAgent, StopAgent, HeartbeatLost, HeartbeatRefused,
          HeartbeatFindsNone, UsageAges
  <2>5. CASE checkAllServers
    <3>1. ASSUME NEW t \in Servers, Stale(t) /\ row[t].status # "offline"
          PROVE  row'[t].status = "offline" /\ row'[t].beat = "stale"
      BY <2>5, <3>1 DEF checkAllServers, SweepOf, Stale, ServerRow
    <3>2. ASSUME NEW t \in Servers, ~(Stale(t) /\ row[t].status # "offline")
          PROVE  row'[t] = row[t]
      BY <2>5, <3>2 DEF checkAllServers, SweepOf
    <3>3. ordered' = ordered
      BY <2>5 DEF checkAllServers, SweepOf
    <3>4. \A t \in Servers : Backed(t)'
      BY <3>1, <3>2, <3>3
    <3>5. QED
      BY <2>0, <3>4
  <2>6. CASE SelectServer \/ GiveUp \/ \E s \in Servers : Placement(s)
    BY <2>1, <2>6 DEF SelectServer, GiveUp, Placement, AgentFails, CreateContainer,
                      saveContainer, RemoveContainer
  <2>7. CASE UNCHANGED vars
    BY <2>1, <2>7 DEF vars
  <2>8. QED
    BY <2>3, <2>4, <2>5, <2>6, <2>7 DEF Next
<1>3. QED
  BY <1>1, <1>2, TypedInit, TypedStep, PTL DEF Spec

=============================================================================
