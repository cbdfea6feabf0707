# A TLA+ model of EasyTI Deploy

EasyTI Deploy builds applications from git repositories and runs them as
containers on worker servers. This directory holds TLA+ modules of its own logic
(not of the libraries it uses), TLC configurations that check them on small
instances, and proofs that TLAPS checks for every value of the constants.

Paths below are relative to `src/`; `scheduler.go` stands for
`orchestrator/internal/scheduler/scheduler.go`.

## 1. The system

Three programs share a PostgreSQL database and a Redis server.

| Component | State it keeps | Operations | Talks to |
|---|---|---|---|
| Panel (`panel/`, PHP) | rows of `applications`, `deployments`, `servers`; Redis jobs of its own | trigger, cancel, rollback, callbacks, log pages, listener jobs | orchestrator over HTTP, Redis pub/sub, the same database |
| API of the orchestrator (`orchestrator/internal/api`) | none but the rate limiter's map | deploy, webhook, retry, rollback, cancel, scale, stop, restart, servers, agents, log streams | database, Redis, agents through the scheduler |
| Build queue (`orchestrator/internal/queue`) | Redis list `builds`; one list and one channel of log messages per deployment | `Enqueue`, `Dequeue`, `Remove`, `Publish` | worker, panel |
| Scheduler (`scheduler.go`) | the job in work, agent clients, a ticker | build worker, reconcile ticker, self-heal, placement | database, agents, panel callbacks, Traefik generator |
| Traefik generator (`orchestrator/internal/traefik`) | one file per application | `GenerateConfig`, `RemoveConfig`, `WatchChanges` | database, file system |
| Server health (`orchestrator/internal/health`) | none | a sweep each minute | `servers` |
| Agent (`agent/`) | Docker's containers, its reporter | create, stop, remove, health; registration, heartbeats | orchestrator, Docker |
| Rate limiter (`orchestrator/internal/api/middleware`) | counters per client address | `allow`, `cleanup` | - |
| Browser log viewer (`panel/public/js/deployment-logs.js`) | lines shown, two timers, two websocket channels, an EventSource | `init`, `destroy`, timers, events | panel's stream endpoint, websocket server |

What is hard in it, component by component, and what makes it correct:

* **Deployment lifecycle.** A row passes pending, queued, building, deploying to
  running, failed or cancelled. The panel, six kinds of requests, the worker and
  unordered HTTP callbacks write it and `applications.status`, each with statements
  of its own. BLPOP forgets the job; callbacks are sent once; the panel's client
  repeats a POST. Correct: nothing says running that was not deployed, no
  row or application is active without somebody who will end it, nothing is built
  twice without cause.
* **Rolling deployment and reconciliation.** The worker replaces containers while a
  ticker, health checks and requests count, stop and restart them, without a lock.
  Correct: rows say what runs, the old version goes only after the new one is
  healthy, the route names what serves, replica counts converge.
* **Log streaming.** A message goes to a list and to a channel. Readers combine the
  two in different orders; one kind deletes the list. Correct: no gap, at most one
  repetition, every stream ends.
* **Browser log viewer.** Broadcasts come on two channels, the stream of a watchdog
  beside them, in any order; each may break or bring the end first. Correct: a viewer that
  has finished holds nothing, its end and the lines it lacks are explained, it finishes.
* **Server registry and placement.** Heartbeats, a sweep, operators and the choice of
  a server use one status column. Correct: silent servers go offline,
  live ones come online, set-aside ones get nothing, no server is
  deleted under running containers.
* **Rate limiter.** Windows open at a client's own requests, a clean-up forgets them.
  Correct: a bound on what is served in any window's length, no refusal without
  reason, Retry-After is enough.

The hazards of `PROJECT.json` give the line where each can go wrong.

## 2. Modules and plan

| Module | Models | State |
|---|---|---|
| `BuildService` | abstract: accepted jobs, work, verdicts told | done, implemented by the next |
| `DeploymentLifecycle` | rows, queue, worker, callbacks, requests, crash | done, proved about |
| `RollingDeploy` | one application's containers, ticker, requests, deletion, route | done, proved about |
| `LogStream` | list, channel and readers of one deployment | done, proved about |
| `LogViewer` | the browser's window on that log | done, proved about |
| `RateLimiter` | the limiter | done, proved about |
| `ServerRegistry` | servers, heartbeats, placement | done, proved about |

`MC<module>` declares model values and symmetry sets for TLC; `<module>Proofs`
extends a module with theorems. The modules meet at named places: the
lifecycle's phase `deploying` is the whole of a `RollingDeploy` worker run;
`ServerRegistry` places the containers `RollingDeploy` creates; `LogStream`
publishes what the worker says on its way; `LogViewer` takes `LogStream`'s list, channel
and job as a source that publishes, broadcasts and may skip a message.

Planned next, in this order:

1. An abstract log that the viewers of `LogStream` read, implemented by it, with a proof
   like that of `BuildService`.
2. A bound on the self-heal deployments the ticker enqueues (`scheduler.go:1734`).
3. The health checker's container pool, the alert manager's cooldown, the Traefik
   scraper's counter differences, and the pure helpers (names, replica index,
   `sameStringSet`) against reference definitions.

## 3. What each module says, and how it maps to the code

`PROJECT.json` maps every definition to its lines. An action is one database
statement, one Redis call or one call of an agent, with the local computation
around it. Variables named *history* record what happened for the
properties and guard no action. A definition headed "Mutant" is a plausible bug;
it is used by no specification, and shows that some property would notice it.

### DeploymentLifecycle

`status` and `appStatus` are the columns, `queue` the Redis list, `handler` the
request that has a statement to come, `current` and `phase` the worker,
`callbacks` the callbacks under way. `Origins` selects requests (panel, api,
webhook, self-heal, retry, rollback, and `reuse`, the rollback that reuses its own
row); `Faults` selects failures: `crash` (the orchestrator dies, with its worker,
requests and callbacks), `response` (an answer of the API is lost, the panel's
client retries up to `MaxTries`), `redis`, `callback`, `db`.

The build and its agent calls are steps that succeed or fail; their content is in
`RollingDeploy`.

`BuildService` says what all this amounts to: jobs are accepted, begun one at a time in
that order, abandoned or concluded, their verdicts told once or lost, and an
application shows what it was told or what a request set. The refinement mapping is
`Service` at the end of the module: `jobs` are the deployments in `queue`, `working` is
`current`, `ended` is `deployed`, `owed` counts the verdicts among `callbacks`, `shown`
is `appStatus`. Rows, requests, retries, an LREM that removes nothing and the
building callback are stutters or requests there. Each atomic step of the program is
at most one of the service; the abstract specification states no liveness.

### RollingDeploy

A container is a pair of deployment and replica index. `row` and `health` are the
columns, `docker` what the agent has, `route` the file's backends, `dirty` the
test of `WatchChanges`. Processes (worker, ticker, `Handlers`) have a program
counter and the locals they use after a call: the list they read (`list`), the
container they have stopped but not written (`hand`), a count (`number`). Health
answers are asked for and written in separate steps.

Deleting an application marks it stopped, lists its containers, stops each and goes on
when one fails, removes the file and deletes the row, which takes the container rows
with it; what the agents have is only stopped. Deleting one container removes it at the
agent and then deletes its row, which neither touches an `updated_at` nor
reconciles. `late` collects the containers a deployment saves after such a
request has read its list; `unseen` is set where a change of rows escapes `WatchChanges`.

Two calls that cannot succeed in the code are left out: the container status
callback (its UPDATE sets the NOT NULL `cpu_usage` to null) and the direct
creation of missing replicas (`image_name` is written nowhere). A graceful stop of
the scheduler is treated as a crash. Which server is chosen is left to
`ServerRegistry`.

### LogStream

Messages are numbered, the last is the terminal status. `Publish` appends to the
list and then sends; subscriptions take effect some time after they are asked for;
the finished row and its stored logs are separate steps. The list's expiry
after an hour and a failing Redis are left out. A single `deploy-logs` worker runs,
as in the compose files.

### LogViewer

`viewer` is the state of the Alpine component and each of its methods is an operator
from that record to the next, as in the file; `phase` is the window (rendered by the
server before Alpine finds it), `props` what the server put into it, `echo` whether
`window.Echo` exists yet, `subscribed` and `wire` the websocket server's side, `session`
the panel's end of the EventSource. The job of another deployment of the application
broadcasts on the application's channel too, and no event names its deployment. The
callback with the verdict broadcasts the status by itself, whatever the job has left.
Events of a private channel do not come before its subscription is confirmed, and leaving
a channel drops what was on its way.

A text stands for what is printed of a message. RPUSH and PUBLISH are one step, which
`LogStream` takes apart; one message is on its way at a time, and `wire` holds the frames
in which it is, one for each channel subscribed. Scrolling, line styles, the
badge, and the callback that says building (it adds one system line) are left out. A
window that has gone, or that has finished and holds nothing, is not followed further.

### RateLimiter

The code's window starts with a client's first request; the clock is a counter;
`cleanup` may run at any moment because its ticker has a phase of its own. A mutex
makes each call one step. Authentication, logging and header parsing of the same
file are not modelled. A limit of 0 is excluded by assumption (the code would serve
one request per window).

### ServerRegistry

`row[s]` holds status, whether `agent_address` is set, and how old the last
heartbeat is. `Accepted` are the servers whose first heartbeat can create a row: their
id is a uuid, as PostgreSQL demands, and a proxy sets X-Real-IP, without which
`RemoteAddr` is `ip:port` and no `inet`. `Managed` are those operators act on. Of the
agent's reporter only `consecutiveFails` matters; its registration is always answered
400 (it sends `server_name` for `name` and no address) and changes nothing. `worker`
places one container at a time: choose, create, save. `remover` is the API's delete
between its count and its DELETE.

Time is what it does: a heartbeat turns stale only when the agent is down or three
beats in a row failed (30 s each against 2 minutes). Which servers are overloaded is
chosen among those with resource samples. Agent clients are cached by id; no
operation changes an address, so the cache is not modelled. `Update` changes
no column that anything here reads.

## 4. Runs

Passing runs:

| Run | Instance | Shows |
|---|---|---|
| `lifecycle_one_row` | one row, all origins but retry and rollback to another row, faults crash, response, redis, callback | several jobs for one row: `RunningWasDeployed`, `DeployingRowHasWorker`, `ActiveRowHasOwner`, `DeployingOwesVerdict`, `NoDuplicateBuild`, `RunningIsFinal`; the refinement `ServiceIsKept` |
| `lifecycle_live` | two rows of one application, origins panel, retry, rollback, failing writes | `QueueDrains`, `DeployingEnds` |
| `rolling_tick` | 2 deployments, 1 replica, ticker, watcher, a user who removes containers | `RouteIsWatched` |
| `rolling_requests` | one request of stop, stop of one, restart, delete against the worker, failing calls, crash | `NoOrphan`, `NoGhost`, `StopLeavesLate` |
| `rolling_two` | 2 replicas, deployments that fail half way, scaling | `OneVersion`, `OldVersionIsKept` |
| `rolling_live` | ticker, unready containers | `SickIsSwept`, `SurplusIsRemoved` |
| `log_readers` | 3 messages, a viewer, a job tried twice, all faults | `ViewerHasAll`, `OneGap`, `TwoRuns`, `ViewerEnds` |
| `log_viewer` | one line, one stage, one status, an end of another deployment, all faults | `NothingHeld`, `FinishedIsExplained`, `MissingIsExplained`, `InOrder`, `ViewerFinishes` |
| `rate_limit` | 2 clients, limit 2, window 3, 7 instants | `TwiceTheLimit`, `RefusalIsEarned`, `RetryIsServed` |
| `registry_one` | a server with all operators and faults, beside an agent whose heartbeats are refused | `LossIsExplained`, `StatusIsBacked`, `SilentGoesOffline`, `AgentComesOnline`, `DeadGetsNothing` |

Several invariants have the form "unless `mishap` / `blamed` / `excused`": those
history variables are set where a named call fails, not where the bad
state appears, so the invariants list *all* the ways in which the code can go wrong,
and a new way would violate them.

Runs that end in a violation check what a comment or a message says of the code,
against what it does. `PROJECT.json` quotes each:

| Run | Said | What happens |
|---|---|---|
| `rolling_downtime` | zero downtime | old containers go before the route is written |
| `log_listener` | the job has no race | a message between LRANGE and SUBSCRIBE is lost |

Other disagreements between comments and code were met while modelling. The models
do what the code does; no run is devoted to them:

* Cancel "removes from queue" with an LREM given an id, while the list holds job
  texts (`deployments.go:258`): the job stays and is built.
* Stop "stops all containers", but lists them once (`applications.go:400`): a
  deployment in progress adds one behind it. A verdict that arrives during the stop
  makes the application active again, and the reconcile of the stop enqueues a
  self-heal deployment, which the comment at `:394` excludes.
* The listener job deletes the list kept for "subscribers that connect late"
  (`redis_queue.go:100`).
* The panel's signal "ends the listener at once" (`DeploymentService.php:51`) only when
  it has subscribed by then: the signal is not pushed to the list.
* A finished deployment "replays its logs from the database"
  (`DeploymentLogsController.php:62`), but its row ends before the callback with the
  logs is sent.
* The viewer preloads the stored logs "so users opening a finished deployment still see
  history" (`deployment-logs.js:52`): a page rendered between the row's end and that
  callback has the end and not the logs.
* The callback's broadcast of the verdict may overtake the listener job (`api.php:88`): the
  viewer leaves its channels with lines still to come. It fetches the stored logs only
  when no line has come.
* A viewer that shows one deployment takes the end of another one of the application for
  its own (`deployment-logs.js:281`), since both arrive on the application's channel.
* The message "no available servers" also covers a choice that failed because one online
  row has a NULL `agent_address` (`scheduler.go:1249`), whatever the other servers could
  take.
* The limiter is called a sliding window (`middleware.go:66`) and is a fixed one.
* Maintenance and drain end with the server's next heartbeat (`agent.go:53`); drain
  counts the containers it should move (`servers.go:176`); "servers with capacity"
  (`scheduler.go:1231`) compares no capacity.
* The agent's registration is always refused, so `/health` reports degraded for an
  agent whose heartbeats are answered; the installer proposes a server id that is no
  uuid (`scripts/install-agent.sh:50`), which the heartbeat refuses.

### Bounds

Two deployments are the fewest that replace each other, that compete for the
worker and the application's status, and of which one can be old. One replica is
enough where processes race for a container; two where a deployment can fail half
way. `MaxQueue` and `MaxInFlight` bound jobs and callbacks that wait; one row with
one waiting and one running job already has a duplicate. Three messages are the fewest
of which the middle one can be missed; jobs are tried twice because the retry replays.
A page of the panel takes the steps of the job's replay and subscription, so the passing
log run leaves pages out and `log_listener` has one. In `log_viewer` one line and one
stage let either be lost alone; a stored line begins like the published one, so that the 120
characters that tell lines apart are not enough; one attempt and one broken
connection are the fewest that reach each timer's branches. `rolling_tick` has no
failing calls and `rolling_requests` no ticker and no scaling, since together they exceed
what TLC explores in minutes: that the ticker races with a stop, a restart or the deletion
of an application is modelled and not explored. Two windows of three instants let a
client straddle a boundary with requests before, on and after it. One running container
and one sample per server are enough for a placement to meet a delete; a second server
lets the choice fall on either. `MaxTries = 3` is the panel client's own number.
`CHECK_DEADLOCK FALSE` stands where the bounds let everything end.

### Fairness

Weak fairness, only of what the code itself keeps going: goroutines of the worker,
the ticker, the handlers, the watcher, the sweeper and the callbacks while their
process lives; PHP requests and queued jobs that have begun; heartbeats of an agent
that is up; the intervals of an open browser window, and its requests for a stream, which
are answered in one way or another; time. A stream that says nothing is ended by nginx
after 660 s (`fastcgi_read_timeout`) and asked for again. Builds and agent calls return,
with whatever result: they run under contexts with timeouts, except clone and build, whose ending is an assumption
of `lifecycle_live`. Its `DeployingEnds` excuses an application whose deployment has no
callback URL (`silent`) and a rollback that wrote deploying after its verdict (`late`).
Users, operators, crashes and failures are never fair.

## 5. Proofs

All proofs hold for every value of the constants that satisfies the named
assumptions.

`DeploymentLifecycleProofs` assumes `ConstantsAssumption` (types and finiteness of
the constants) and that no job is an id.

* `TypeCorrect`: `Spec => []TypeOK`.
* `RunningIsTrue`: `Spec => []RunningWasDeployed`. A callback or a row that says
  running goes back to the worker's phase; the argument follows the three places
  at once, since each feeds the others.
* `DeployingIsWorked`: `Spec => []DeployingRowHasWorker`.
* `ActiveIsOwned`: `Spec => []ActiveRowHasOwner`. For each active row the owner is
  passed from the request to the queue to the worker; each step that drops it is
  one of the mishaps.
* `VerdictIsOwed`: `Spec => []DeployingOwesVerdict`. It needs two auxiliary
  invariants: a job without callback URL is flagged (`SilentIsFlagged`), and each
  application that is deploying has one deployment that explains it (`Explains`),
  because the owed verdict may move between deployments of the application.
* `BuildsAreSingle`: `Spec => []NoDuplicateBuild`. Counting jobs is not inductive; `OnceOnly`
  is: unless its POST was repeated or its row reused, a deployment is at one place at a
  time, first its request (`Unpushed`), then the list, where it stands once (`QueuedOnce`),
  then the worker, then its verdict.
* `RunningStays`: `Spec => RunningIsFinal`, from `OnceOnly` and `RunningWasDeployed`: a
  deployment that has run is in no request, list or worker that could write its row.
* `ServiceImplemented`: `Spec => ServiceIsKept`, the refinement of `BuildService`. Initial
  states map to initial states (`ServiceInit`), and each action to a step or a stutter,
  by groups (`ServiceRequests`, `ServiceWorker`, `ServiceCallbacks`, `ServiceCrash`). It rests on
  `ServicePush` and `ServicePop` (what RPUSH and BLPOP are on the mapped list),
  `LremKeepsQueue` (cancel removes nothing, as no job is an id), and `RunningWasDeployed`,
  without which the worker might conclude with a success that never happened.

`RateLimiterProofs` assumes `LimiterAssumption`. The inductive invariant `Windows`
says, of each client, that its requests are in order of time (`Ordered`), that an
entry counts exactly the last requests since its window opened (`Counted`), and
that without an entry all were served a window ago (`Forgotten`); that is why
forgetting an entry is harmless. From it:

* `TypeCorrect`, `ServesTwiceAtMost` (at most twice the limit in any window's length),
  `RefusalsAreEarned`, `RetryAfterIsKept`.

`ServerRegistryProofs` assumes `RegistryAssumption`.

* `TypeCorrect`. The type alone is not inductive, since a removed container is subtracted:
  `Accounted` adds that rows and the placement under way never exceed what runs.
* `LossExplained`: `Spec => []LossIsExplained`, with `DeleteIsSeen`: between a delete's count
  and its DELETE a container was placed only on a server that was excused, and a worker
  whose server has lost its row is about to meet the foreign key on an excused one.
* `StatusBacked`: `Spec => []StatusIsBacked`.

`RollingDeployProofs` assumes `RollingAssumption`. The number of handlers, of replicas and
of deployments is arbitrary, so the ticker, all requests and the worker race here
in combinations TLC was not given.

* `TypeCorrect`, with `JobIsAtPc`: what the worker's place in its program says about its
  counters (`made < want` before a container is saved, `seen = want` when cleaning up).
* `GhostsAreExplained`: `Spec => []NoGhost`. Who may write which row rests on
  `FreshIsHidden`: a container the worker has not saved is in no other list or hand.
* `OrphansAreExplained`, `StopLeavesOnlyLate`: `Spec => []NoOrphan`, `Spec => StopLeavesLate`.
  `HandIsDown` says that what a process has stopped does not live while it waits to write
  the row; `StopSeesAll` that all that lives is in the rest of a Stop's or Delete's list or
  came after it was read; `DeletedLeavesLate` carries that past the end of the handler, when
  the rows have gone. `RequestAtPc` keeps the two apart from other requests.
* `OneVersionIsRouted`, `OldVersionStays`: `OneVersion` holds after the clean-up because during
  it every running row of another version is in the worker's list, in its hand or
  blamed (`OldAreListed`); `OldVersionIsKept` follows from `JobIsAtPc`.
* `RouteIsNotForgotten`: `Spec => []RouteIsWatched`, with `StampIsRight`: between its query and
  its timestamp `WatchChanges` has written the file it wanted, unless a row changed
  between (`unseen`).

`LogStreamProofs` assumes `LogAssumption`. `BufferIsLog` says that the list is what was
pushed, in order, one message ahead of the channel between RPUSH and PUBLISH, until a
job deletes it; `HandsInOrder` what a reader can hold where it stands.

* `TypeCorrect`, with `TriesLeft`: an idle job has an attempt left.
* `NothingIsMissed`: `Spec => []ViewerHasAll`.
* `MissedInOnePiece`: `Spec => []OneGap`. `GapsAreSingle` says the same of every reader at work:
  without its subscription it has a beginning of the log, with it all but one interval.
* `ShownInTwoRuns`: `Spec => []TwoRuns`. `AllGoUp` follows the order through what is replayed,
  heard and shown: the second run stays below all that is to come, but for a terminal
  status that the panel sent early, which ends the reader.

`LogViewerProofs` assumes `ViewerAssumption`: the logs are any sequences of messages that end
with their only status, and no text is special but the blank one. The
methods come first, each with what it changes of the component; `StepIsKnown` then puts every
action into one of three groups (what happens outside the window, what only tends its
connections, what a page does), and each invariant is proved once for each group.

* `TypeCorrect`, `NothingIsHeld`: from `Base`, which adds that a window that is not open yet
  holds nothing (`Unopened`), that the component is ended once (`EndedOnce`) and lets go
  with it (`EndLetsGo`), and that a stream has a window (`SessionIsStreamed`).
* `EndsAreExplained`: `Spec => []FinishedIsExplained`, with `WireIsExplained` and `QueueIsAllowed`:
  where each frame on its way comes from, which its end gives as its reason.
* `NothingElseIsMissing`: `Spec => []MissingIsExplained`. A line that was broadcast is seen or on
  its way unless one was missed (`Unmissed`); a stream that is whole has, for each message
  published, the line on the screen or in its queue (`StreamIsWhole`), with nothing of the
  log behind the end.
* `ShownAsPublished`: `Spec => []InOrder`. What is on its way is the last message broadcast, and
  the screen shows lines of messages up to it (`ShownInOrder`); a line shown is not shown
  again, so the next comes from a later message.

`StoredFacts` says what the recursive function `addStoredLines` does for every list of
lines. The induction is on a set of counterexamples, a least element of which
`WFMin` gives; the induction theorems of the library are not needed for it.

Only model-checked: all liveness (`QueueDrains`, `DeployingEnds`, `SickIsSwept`,
`SurplusIsRemoved`, `ViewerEnds`, `ViewerFinishes`, `SilentGoesOffline`, `AgentComesOnline`,
`DeadGetsNothing`), because the prover has no rules for fairness and ENABLED. Every
safety property that a passing run checks is a theorem.

## 6. Not modelled

* Alerting and certificates: `main.go` constructs neither.
* Metrics collectors: periodic reads whose results nothing but the placement query
  decides on; that query sees samples in `ServerRegistry`.
* Clone, build and language detection: subprocesses; a build is a step that ends
  either way.
* The container pool of `HealthChecker`: its probe is a stub that answers healthy.
* Panel forms, widgets, policies, notifications; configuration, logging, proxy files.
* In the browser: scrolling, styles and the badge of the log viewer. The files under
  `panel/public/js/filament` are built by a library, and `resources/js` configures one.
