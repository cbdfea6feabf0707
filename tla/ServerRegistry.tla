---------------------------- MODULE ServerRegistry ----------------------------
(***************************************************************************)
(* Worker servers: their rows, the heartbeats of their agents, the sweep   *)
(* that takes silent ones offline, what operators do to them, and the      *)
(* choice of a server for each new container.                              *)
(*                                                                         *)
(* A row is keyed by the id that the server's agent is configured with.    *)
(* Time is what it does: a heartbeat turns stale after two minutes, a      *)
(* resource sample leaves the average after five.  One worker places the   *)
(* containers; the rest of a deployment is the subject of RollingDeploy.   *)
(***************************************************************************)
EXTENDS Naturals, FiniteSets

CONSTANTS
  Servers,        \* server ids
  Accepted,       \* those that are a uuid, of agents behind a proxy that sets X-Real-IP
  Managed,        \* those on which operators act in this instance, all uuids
  Operators,      \* whose requests occur, of "api" and "panel"
  Faults,         \* what may go wrong, of "lost" heartbeats and "db" queries
  MaxLive,        \* bound on the containers that run
  MaxUsages,      \* bound on the resource samples of a server
  None

ServerStatus == {"online", "offline", "maintenance", "draining"}
ServerRow ==
  [status : ServerStatus, address : BOOLEAN, beat : {"never", "fresh", "stale"}]

ASSUME RegistryAssumption ==
  /\ Accepted \subseteq Servers /\ Managed \subseteq Servers
  /\ Operators \subseteq {"api", "panel"} /\ Faults \subseteq {"lost", "db"}
  /\ MaxLive \in Nat /\ MaxUsages \in Nat
  /\ None \notin Servers \cup ServerStatus \cup ServerRow

VARIABLES
  row,            \* the servers table
  known,          \* ids that a row was ever created with
  usages,         \* resource_usages: samples of the last five minutes
  placed,         \* rows of containers 'running', per server
  live,           \* containers that run on each server
  up,             \* the agent's process runs
  beating,        \* the orchestrator's handler of a heartbeat: "idle", "insert"
  consecutiveFails,   \* the agent's Reporter: heartbeats in a row without an answer 200
  worker,         \* the placement in progress
  remover,        \* the API's delete request: "idle", "counted"
  ordered,        \* history: the status an operator last asked for
  excused         \* history: servers that lost sight of a container for a known reason

agentVars == <<up, beating, consecutiveFails>>
hostVars == <<placed, live>>
history == <<ordered, excused>>
vars == <<row, known, usages, agentVars, hostVars, worker, remover, history>>

Idle == [pc |-> "idle", server |-> None]

TypeOK ==
  /\ row \in [Servers -> ServerRow \cup {None}] /\ known \subseteq Servers
  /\ usages \in [Servers -> 0..MaxUsages]
  /\ placed \in [Servers -> Nat] /\ live \in [Servers -> Nat]
  /\ up \in [Servers -> BOOLEAN] /\ beating \in [Servers -> {"idle", "insert"}]
  /\ consecutiveFails \in [Servers -> 0..3]
  /\ worker \in [pc : {"idle", "chosen", "created", "refused"},
                 server : Servers \cup {None}]
  /\ remover \in [Servers -> {"idle", "counted"}]
  /\ ordered \in [Servers -> ServerStatus \cup {None}]
  /\ excused \subseteq Servers
  /\ \A s \in Servers : placed[s] > 0 => row[s] # None

Init ==
  /\ row = [s \in Servers |-> None] /\ known = {}
  /\ usages = [s \in Servers |-> 0]
  /\ placed = [s \in Servers |-> 0] /\ live = [s \in Servers |-> 0]
  /\ up = [s \in Servers |-> FALSE] /\ beating = [s \in Servers |-> "idle"]
  /\ consecutiveFails = [s \in Servers |-> 0]
  /\ worker = Idle /\ remover = [s \in Servers |-> "idle"]
  /\ ordered = [s \in Servers |-> None] /\ excused = {}

Status(s) == IF row[s] = None THEN None ELSE row[s].status

-----------------------------------------------------------------------------
(***************************************************************************)
(* Operators.  The id of a new row is random: the agent is then installed  *)
(* with it.                                                                *)
(***************************************************************************)
InsertRow(s, status, address) ==
  /\ s \in Managed \ known /\ ~up[s]
  /\ row' = [row EXCEPT ![s] = [status |-> status, address |-> address, beat |-> "never"]]
  /\ known' = known \cup {s}
  /\ ordered' = [ordered EXCEPT ![s] = status]
  /\ UNCHANGED <<usages, agentVars, hostVars, worker, remover, excused>>

\* The API derives agent_address from the address it requires.
Create(s) == "api" \in Operators /\ InsertRow(s, "offline", TRUE)

\* The panel's form has no agent_address and offers every status.
CreateServer(s, status) == "panel" \in Operators /\ InsertRow(s, status, FALSE)

SetStatus(s, status) ==
  /\ row[s] # None
  /\ row' = [row EXCEPT ![s].status = status]
  /\ ordered' = [ordered EXCEPT ![s] = status]
  /\ UNCHANGED <<known, usages, agentVars, hostVars, worker, remover, excused>>

\* Drain counts the containers it would move, and moves none.
Drain(s) == "api" \in Operators /\ SetStatus(s, "draining")

Maintenance(s, enable) ==
  "api" \in Operators /\ SetStatus(s, IF enable THEN "maintenance" ELSE "online")

\* The panel's form, and its maintenance and drain actions.
EditServer(s, status) == "panel" \in Operators /\ SetStatus(s, status)

\* Mutant: the count is not looked at.
DeleteCountsAll(s) ==
  /\ "api" \in Operators
  /\ remover[s] = "idle" /\ row[s] # None
  /\ \/ UNCHANGED excused
     \/ "db" \in Faults /\ excused' = excused \cup {s}
  /\ remover' = [remover EXCEPT ![s] = "counted"]
  /\ UNCHANGED <<row, known, usages, agentVars, hostVars, worker, ordered>>

\* A failed count leaves the zero it was to overwrite.
DeleteCounts(s) ==
  /\ "api" \in Operators
  /\ remover[s] = "idle" /\ row[s] # None
  /\ \/ placed[s] = 0 /\ UNCHANGED excused
     \/ "db" \in Faults /\ excused' = excused \cup {s}
  /\ remover' = [remover EXCEPT ![s] = "counted"]
  /\ UNCHANGED <<row, known, usages, agentVars, hostVars, worker, ordered>>

\* Mutant: the rows of its containers stay.
RemoveRowOnly(s) ==
  /\ row' = [row EXCEPT ![s] = None]
  /\ ordered' = [ordered EXCEPT ![s] = None]
  /\ UNCHANGED <<known, usages, agentVars, hostVars, worker>>

\* Rows of containers go with their server; resource samples stay.
RemoveRow(s) ==
  /\ row' = [row EXCEPT ![s] = None]
  /\ placed' = [placed EXCEPT ![s] = 0]
  /\ ordered' = [ordered EXCEPT ![s] = None]
  /\ UNCHANGED <<known, usages, agentVars, live, worker>>

DeleteRow(s) ==
  /\ remover[s] = "counted"
  /\ remover' = [remover EXCEPT ![s] = "idle"]
  /\ RemoveRow(s)
  /\ excused' = IF worker.server = s THEN excused \cup {s} ELSE excused

DeleteFails(s) ==
  /\ "db" \in Faults
  /\ remover[s] = "counted"
  /\ remover' = [remover EXCEPT ![s] = "idle"]
  /\ UNCHANGED <<row, known, usages, agentVars, hostVars, worker, history>>

\* The panel's delete action checks nothing.
DeleteAction(s) ==
  /\ "panel" \in Operators
  /\ row[s] # None
  /\ RemoveRow(s)
  /\ excused' = excused \cup {s}
  /\ UNCHANGED remover

-----------------------------------------------------------------------------
(***************************************************************************)
(* The agent's Reporter and the orchestrator's Heartbeat.                  *)
(***************************************************************************)
\* Registration changes nothing: register() sends server_name for name and never
\* fills ip_address, and Create answers 400.
StartAgent(s) ==
  /\ ~up[s]
  /\ up' = [up EXCEPT ![s] = TRUE]
  /\ consecutiveFails' = [consecutiveFails EXCEPT ![s] = 0]
  /\ UNCHANGED <<row, known, usages, beating, hostVars, worker, remover, history>>

\* Its containers run on.
StopAgent(s) ==
  /\ up[s] /\ beating[s] = "idle"
  /\ up' = [up EXCEPT ![s] = FALSE]
  /\ UNCHANGED <<row, known, usages, beating, consecutiveFails, hostVars, worker,
                 remover, history>>

\* The counter matters up to 3.
BeatFails(s) ==
  /\ consecutiveFails' = [consecutiveFails EXCEPT ![s] = IF @ = 3 THEN 3 ELSE @ + 1]
  /\ UNCHANGED up

BeatCounts(s) ==
  /\ consecutiveFails' = [consecutiveFails EXCEPT ![s] = 0]
  /\ UNCHANGED up

\* The request never arrives.
HeartbeatLost(s) ==
  /\ "lost" \in Faults
  /\ up[s] /\ beating[s] = "idle"
  /\ BeatFails(s)
  /\ UNCHANGED <<row, known, usages, beating, hostVars, worker, remover, history>>

\* The UPDATE fails on an id that is no uuid, or the INSERT on RemoteAddr, which
\* without a proxy is "ip:port" and no inet.
HeartbeatRefused(s) ==
  /\ up[s] /\ beating[s] = "idle" /\ row[s] = None /\ s \notin Accepted
  /\ BeatFails(s)
  /\ UNCHANGED <<row, known, usages, beating, hostVars, worker, remover, history>>

RecordUsage(s) ==
  usages' = [usages EXCEPT ![s] = IF @ = MaxUsages THEN @ ELSE @ + 1]

\* Mutant: last_heartbeat is not written.
HeartbeatUpdatesStatus(s) ==
  /\ up[s] /\ beating[s] = "idle" /\ row[s] # None
  /\ row' = [row EXCEPT ![s].status = "online"]
  /\ RecordUsage(s)
  /\ \/ BeatCounts(s)
     \/ "lost" \in Faults /\ BeatFails(s)
  /\ UNCHANGED <<known, beating, hostVars, worker, remover, history>>

\* Mutant: a heartbeat leaves the status to the operators.
HeartbeatUpdatesBeat(s) ==
  /\ up[s] /\ beating[s] = "idle" /\ row[s] # None
  /\ row' = [row EXCEPT ![s].beat = "fresh"]
  /\ RecordUsage(s)
  /\ \/ BeatCounts(s)
     \/ "lost" \in Faults /\ BeatFails(s)
  /\ UNCHANGED <<known, beating, hostVars, worker, remover, history>>

\* The row is found: online whatever it was before.
HeartbeatUpdates(s) ==
  /\ up[s] /\ beating[s] = "idle" /\ row[s] # None
  /\ row' = [row EXCEPT ![s].status = "online", ![s].beat = "fresh"]
  /\ RecordUsage(s)
  /\ \/ BeatCounts(s)
     \/ "lost" \in Faults /\ BeatFails(s)
  /\ UNCHANGED <<known, beating, hostVars, worker, remover, history>>

HeartbeatFindsNone(s) ==
  /\ up[s] /\ beating[s] = "idle" /\ row[s] = None /\ s \in Accepted
  /\ beating' = [beating EXCEPT ![s] = "insert"]
  /\ UNCHANGED <<row, known, usages, up, consecutiveFails, hostVars, worker, remover,
                 history>>

HeartbeatInserts(s) ==
  /\ beating[s] = "insert"
  /\ beating' = [beating EXCEPT ![s] = "idle"]
  /\ row' = [row EXCEPT ![s] = [status |-> "online", address |-> TRUE, beat |-> "fresh"]]
  /\ known' = known \cup {s}
  /\ RecordUsage(s)
  /\ \/ BeatCounts(s)
     \/ "lost" \in Faults /\ BeatFails(s)
  /\ UNCHANGED <<hostVars, worker, remover, history>>

\* Four intervals without a heartbeat make two minutes.
HeartbeatAges(s) ==
  /\ row[s] # None /\ row[s].beat = "fresh"
  /\ up[s] => consecutiveFails[s] = 3
  /\ row' = [row EXCEPT ![s].beat = "stale"]
  /\ UNCHANGED <<known, usages, agentVars, hostVars, worker, remover, history>>

UsageAges(s) ==
  /\ usages[s] > 0
  /\ usages' = [usages EXCEPT ![s] = @ - 1]
  /\ UNCHANGED <<row, known, agentVars, hostVars, worker, remover, history>>

SweepOf(Swept) ==
  /\ Swept # {}
  /\ row' = [s \in Servers |->
       IF s \in Swept THEN [row[s] EXCEPT !.status = "offline"] ELSE row[s]]
  /\ UNCHANGED <<known, usages, agentVars, hostVars, worker, remover, history>>

Stale(s) == row[s] # None /\ row[s].beat = "stale"

\* Mutant: only servers that are online are looked at.
checkOnlineServers == SweepOf({s \in Servers : Stale(s) /\ row[s].status = "online"})

\* Every minute, in one statement.
checkAllServers == SweepOf({s \in Servers : Stale(s) /\ row[s].status # "offline"})

-----------------------------------------------------------------------------
(***************************************************************************)
(* Placement.                                                              *)
(***************************************************************************)
\* COUNT(c.id) over the join with the samples counts a container once per sample.
container_count(s) == placed[s] * (IF usages[s] = 0 THEN 1 ELSE usages[s])

\* Mutant: a query that leaves out only the servers an operator has set aside.
AvailableUnlessSetAside(hot) ==
  {s \in Servers \ hot : Status(s) \notin {None, "maintenance", "draining"}}

\* hot: servers whose samples average 80 percent or more.
Available(hot) == {s \in Servers \ hot : Status(s) = "online"}

\* The address of the first row is scanned into a string, which fails on NULL, whatever
\* other servers there are.
SelectServer ==
  /\ worker.pc = "idle"
  /\ \E hot \in SUBSET {s \in Servers : usages[s] > 0} :
     \E s \in Available(hot) :
       /\ \A t \in Available(hot) : container_count(s) <= container_count(t)
       /\ worker' =
            IF row[s].address
            THEN [pc |-> "chosen", server |-> s]
            ELSE [pc |-> "refused", server |-> None]
  /\ UNCHANGED <<row, known, usages, agentVars, hostVars, remover, history>>

\* The deployment fails with "no available servers".
GiveUp ==
  /\ worker.pc = "refused"
  /\ worker' = Idle
  /\ UNCHANGED <<row, known, usages, agentVars, hostVars, remover, history>>

\* Dialing, pulling or creating fails, and with it the deployment.
AgentFails(s) ==
  /\ worker.pc = "chosen" /\ worker.server = s /\ ~up[s]
  /\ worker' = Idle
  /\ UNCHANGED <<row, known, usages, agentVars, hostVars, remover, history>>

CreateContainer(s) ==
  /\ worker.pc = "chosen" /\ worker.server = s /\ up[s]
  /\ live[s] < MaxLive
  /\ live' = [live EXCEPT ![s] = @ + 1]
  /\ worker' = [worker EXCEPT !.pc = "created"]
  /\ UNCHANGED <<row, known, usages, agentVars, placed, remover, history>>

\* The error of an insert, for want of its server or otherwise, is logged.
saveContainer(s) ==
  /\ worker.pc = "created" /\ worker.server = s
  /\ worker' = Idle
  /\ \/ /\ row[s] # None
        /\ placed' = [placed EXCEPT ![s] = @ + 1]
        /\ excused' = IF remover[s] = "counted" THEN excused \cup {s} ELSE excused
     \/ /\ row[s] = None
        /\ UNCHANGED <<placed, excused>>
     \/ /\ "db" \in Faults
        /\ excused' = excused \cup {s}
        /\ UNCHANGED placed
  /\ UNCHANGED <<row, known, usages, agentVars, live, remover, ordered>>

\* A request removes a container through the agent, and then its row; how that may
\* fail half-way is the subject of RollingDeploy.
RemoveContainer(s) ==
  /\ placed[s] > 0 /\ up[s]
  /\ live' = [live EXCEPT ![s] = @ - 1]
  /\ placed' = [placed EXCEPT ![s] = @ - 1]
  /\ UNCHANGED <<row, known, usages, agentVars, worker, remover, history>>

-----------------------------------------------------------------------------
Operator(s) ==
  \/ Create(s) \/ Drain(s)
  \/ \E enable \in BOOLEAN : Maintenance(s, enable)
  \/ \E status \in ServerStatus : CreateServer(s, status) \/ EditServer(s, status)
  \/ DeleteCounts(s) \/ DeleteRow(s) \/ DeleteFails(s) \/ DeleteAction(s)

Agent(s) ==
  \/ StartAgent(s) \/ StopAgent(s)
  \/ HeartbeatLost(s) \/ HeartbeatRefused(s) \/ HeartbeatUpdates(s)
  \/ HeartbeatFindsNone(s) \/ HeartbeatInserts(s)
  \/ HeartbeatAges(s) \/ UsageAges(s)

Placement(s) ==
  AgentFails(s) \/ CreateContainer(s) \/ saveContainer(s) \/ RemoveContainer(s)

Next ==
  \/ checkAllServers \/ SelectServer \/ GiveUp
  \/ \E s \in Servers : Operator(s) \/ Agent(s) \/ Placement(s)

\* The clock, the sweeper and the handlers run; an agent that is up gets heartbeats
\* through; the worker finishes a placement.  Operators and crashes may never come.
Fairness ==
  /\ WF_vars(checkAllServers) /\ WF_vars(GiveUp)
  /\ \A s \in Servers :
       /\ WF_vars(HeartbeatUpdates(s)) /\ WF_vars(HeartbeatFindsNone(s))
       /\ WF_vars(HeartbeatInserts(s)) /\ WF_vars(HeartbeatAges(s))
       /\ WF_vars(AgentFails(s)) /\ WF_vars(CreateContainer(s)) /\ WF_vars(saveContainer(s))

Spec == Init /\ [][Next]_vars
FairSpec == Spec /\ Fairness

-----------------------------------------------------------------------------
(***************************************************************************)
(* Properties.                                                             *)
(***************************************************************************)
InProgress(s) == IF worker.pc = "created" /\ worker.server = s THEN 1 ELSE 0

\* Every container that runs has its row, or one about to be saved: it is lost only
\* when the panel deleted the server, a query failed, or the API's delete overlapped
\* a placement on the server.
LossIsExplained ==
  \A s \in Servers : live[s] > placed[s] + InProgress(s) => s \in excused

\* The status of a server is the one an operator last gave it, unless its agent was
\* heard: then it may be online, or offline since the agent fell silent.
StatusIsBacked ==
  \A s \in Servers : row[s] # None /\ Status(s) # ordered[s] =>
    \/ Status(s) = "online" /\ row[s].beat # "never"
    \/ Status(s) = "offline" /\ row[s].beat = "stale"

\* A server whose agent stays silent is taken offline, whatever status an operator
\* gave it, unless it was never heard at all.
SilentGoesOffline ==
  \A s \in Servers :
    (row[s] # None /\ row[s].beat # "never" /\ ~up[s])
      ~> (Status(s) \in {None, "offline"} \/ up[s])

\* An agent that stays up brings its server online when it is behind a proxy and has a
\* uuid, or when its server has a row.
AgentComesOnline ==
  \A s \in Servers :
    LET Reports == up[s] /\ (s \in Accepted \/ row[s] # None)
    IN  Reports ~> (Status(s) = "online" \/ ~Reports)

\* Once an agent is down for good, and nobody turns its server online, containers stop
\* being sent there, unless the row never saw a heartbeat.
DeadGetsNothing ==
  \A s \in Servers :
    <>[](~up[s]) /\ <>[][Status(s)' = "online" => Status(s) = "online"]_vars
      => <>[](worker.server # s) \/ []<>(row[s] # None /\ row[s].beat = "never")

=============================================================================
