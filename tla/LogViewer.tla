------------------------------ MODULE LogViewer ------------------------------
(***************************************************************************)
(* The Alpine component deploymentLogs: the window of the panel's pages    *)
(* that shows the log of one deployment, what reaches it and what it has   *)
(* to let go of.  It listens to two websocket channels at once, that of    *)
(* the deployment and that of its application; a watchdog opens an         *)
(* EventSource on the panel's endpoint when nothing has come for ten       *)
(* seconds; when it ends without a line it fetches build_logs.             *)
(*                                                                         *)
(* Around it: the worker, which publishes Own; the job                     *)
(* ListenDeploymentLogs, which broadcasts what was published, and before   *)
(* it the job of another deployment of the application; the row; the       *)
(* verdict's callback, which broadcasts the status on its own, whatever    *)
(* the job has left to do.  LogStream has the details of list, channel and *)
(* job; here RPUSH and PUBLISH are one step, and the job may skip a        *)
(* message, as it does there.                                              *)
(*                                                                         *)
(* A text stands for what is printed of a message: a line, a stage, or a   *)
(* status with its error, whose two system lines are one entry here.       *)
(* Scrolling, styles, the badge sseState / sseText and the callback that   *)
(* says building, which adds a system line, are left out.                  *)
(***************************************************************************)
EXTENDS Naturals, Sequences, FiniteSets, SequencesExt

CONSTANTS
  Own,          \* messages the worker publishes; the last one is the terminal status
  Other,        \* messages of another deployment of the application, likewise
  Earlier,      \* build_logs before the deployment ends: lines left on a reused row
  Persisted,    \* build_logs after the callback
  Prefix,       \* the first 120 characters of a line
  MaxAttempts,  \* maxAttempts, of 500 ms each
  MaxCuts,      \* bound on broken connections
  Faults        \* what goes wrong in this instance

AllFaults == {"socket", "stream", "refused", "early", "skip", "fetch"}

Message == [kind : {"log", "stage", "status"}, text : STRING]
Messages == ToSet(Own) \cup ToSet(Other)
Lines == {m.text : m \in {n \in Messages : n.kind # "status"}}
           \cup ToSet(Earlier) \cup ToSet(Persisted)
End == Own[Len(Own)].text                  \* the deployment's terminal status
TerminalStatuses == {End, Other[Len(Other)].text}
Channels == {"deployment", "application"}
Blank == ""

ASSUME ViewerAssumption ==
  /\ MaxAttempts \in Nat \ {0} /\ MaxCuts \in Nat /\ Faults \subseteq AllFaults
  /\ Own \in Seq(Message) \ {<<>>} /\ Other \in Seq(Message) \ {<<>>}
  /\ Earlier \in Seq(STRING) /\ Persisted \in Seq(STRING)
  /\ \A s \in {Own, Other} : \A i \in DOMAIN s :
       s[i].kind = "status" <=> i = Len(s)
  /\ TerminalStatuses \cap {"none", "building"} = {}
  /\ Lines \ {Blank} \subseteq DOMAIN Prefix

VARIABLES
  phase,       \* the window: closed, rendered by the server, open, gone
  props,       \* what the server rendered into it
  viewer,      \* the component's own state
  echo,        \* window.Echo is there
  subscribed,  \* channels the websocket server delivers to this browser
  wire,        \* the broadcast on its way to it, once by each channel
  session,     \* the panel's end of the EventSource
  row,         \* deployments.status is terminal
  saved,       \* build_logs holds Persisted
  published,   \* messages of Own published so far
  cleared,     \* the job has deleted the list
  aired,       \* messages of Own the job is done with
  otherAired,  \* messages of Other broadcast so far
  cuts,        \* connections broken so far
  missed,      \* history: a broadcast of Own did not reach this browser
  streamed,    \* history: the EventSource has been open
  endedBy      \* history: what finished the viewer

sourceVars == <<row, saved, published, cleared>>
airVars == <<aired, otherAired>>
pageVars == <<phase, props, viewer, endedBy>>
vars == <<pageVars, echo, subscribed, wire, session, sourceVars, airVars, cuts, missed, streamed>>

NoSession == [pc |-> "none", queue |-> <<>>, upto |-> 0, whole |-> FALSE]

\* The fields of the component before init().
NewViewer(isTerminal, status) ==
  [finished |-> isTerminal, currentStatus |-> status, lastStatusEvent |-> "none",
   seenLines |-> {}, screen |-> <<>>, notices |-> {}, streamedLogLines |-> 0, idle |-> FALSE,
   bound |-> {}, connectTimer |-> FALSE, attempts |-> 0, watchdogTimer |-> FALSE,
   sse |-> "none", fetching |-> "no"]

Causes == {"nothing", "row", "socket", "callback", "other", "stream", "late", "early"}

Viewer ==
  [finished : BOOLEAN, currentStatus : {"building"} \cup TerminalStatuses,
   lastStatusEvent : {"none", "building"} \cup TerminalStatuses,
   seenLines : SUBSET {Prefix[l] : l \in Lines \ {Blank}}, screen : Seq(Lines \ {Blank}),
   notices : SUBSET ({"building", "persisted"} \cup TerminalStatuses),
   streamedLogLines : Nat, idle : BOOLEAN,
   bound : SUBSET Channels, connectTimer : BOOLEAN, attempts : 0..MaxAttempts,
   watchdogTimer : BOOLEAN, sse : {"none", "connecting", "open", "failed"},
   fetching : {"no", "asked", "done"}]

Frame ==
  [kind : {"log", "stage"}, text : Lines]
    \cup [kind : {"status"}, text : {"building"} \cup TerminalStatuses]
    \cup [kind : {"heartbeat", "done"}, text : {Blank}]

TypeOK ==
  /\ phase \in {"closed", "rendered", "open", "gone"}
  /\ props \in [isTerminal : BOOLEAN, initialLogs : {Earlier, Persisted}]
  /\ viewer \in Viewer /\ viewer.streamedLogLines <= Len(viewer.screen)
  /\ subscribed \subseteq viewer.bound
  /\ wire \subseteq [channel : subscribed, message : Messages,
                     from : {"socket", "callback", "other"}]
  /\ session \in [pc : {"none", "read", "ask", "live", "over"}, queue : Seq(Frame),
                  upto : 0..Len(Own), whole : BOOLEAN]
  /\ (session.pc = "none") = (viewer.sse # "open")
  /\ missed \in BOOLEAN /\ streamed \in BOOLEAN /\ endedBy \in Causes
  /\ echo \in BOOLEAN /\ row \in BOOLEAN /\ saved \in BOOLEAN /\ cleared \in BOOLEAN
  /\ published \in 0..Len(Own) /\ aired \in 0..published
  /\ otherAired \in 0..Len(Other) /\ cuts \in 0..MaxCuts

Init ==
  /\ phase = "closed" /\ props = [isTerminal |-> FALSE, initialLogs |-> Earlier]
  /\ viewer = NewViewer(FALSE, "building")
  /\ echo = FALSE /\ subscribed = {} /\ wire = {} /\ session = NoSession
  /\ row = FALSE /\ saved = FALSE /\ published = 0 /\ cleared = FALSE
  /\ aired = 0 /\ otherAired = 0 /\ cuts = 0
  /\ missed = FALSE /\ streamed = FALSE /\ endedBy = "nothing"

-----------------------------------------------------------------------------
(***************************************************************************)
(* The component's methods, as functions from its state to its next state. *)
(***************************************************************************)
markActivity(v) == [v EXCEPT !.idle = FALSE]

\* Mutant: new lines go to the top.
addLogLineOnTop(v, line, countAsStream) ==
  IF line = Blank THEN v
  ELSE IF Prefix[line] \in v.seenLines THEN markActivity(v)
  ELSE [markActivity(v) EXCEPT
          !.screen = <<line>> \o @,
          !.seenLines = @ \cup {Prefix[line]},
          !.streamedLogLines = IF countAsStream THEN @ + 1 ELSE @]

\* Mutant: repeated lines are counted as streamed.
addLogLineCountsAll(v, line, countAsStream) ==
  IF line = Blank THEN v
  ELSE LET counted == [markActivity(v) EXCEPT
                         !.streamedLogLines = IF countAsStream THEN @ + 1 ELSE @]
       IN  IF Prefix[line] \in v.seenLines THEN counted
           ELSE [counted EXCEPT !.screen = Append(@, line),
                                !.seenLines = @ \cup {Prefix[line]}]

\* A line whose first 120 characters were seen before is dropped.
addLogLine(v, line, countAsStream) ==
  IF line = Blank THEN v
  ELSE IF Prefix[line] \in v.seenLines THEN markActivity(v)
  ELSE [markActivity(v) EXCEPT
          !.screen = Append(@, line),
          !.seenLines = @ \cup {Prefix[line]},
          !.streamedLogLines = IF countAsStream THEN @ + 1 ELSE @]

addStoredLines(v, lines) ==
  LET after[n \in 0..Len(lines)] ==
        IF n = 0 THEN v ELSE addLogLine(after[n - 1], lines[n], FALSE)
  IN  after[Len(lines)]

\* System lines are always shown; where among the lines is left out.
addSystemLine(v, text) == [markActivity(v) EXCEPT !.notices = @ \cup {text}]

\* Mutant: every status ends the viewer.
updateStatusAlwaysEnds(v, status) ==
  [markActivity(v) EXCEPT !.currentStatus = status, !.finished = TRUE]

updateStatus(v, status) ==
  [markActivity(v) EXCEPT
     !.currentStatus = status,
     !.finished = @ \/ status \in TerminalStatuses]

stopConnecting(v) == [v EXCEPT !.connectTimer = FALSE, !.attempts = 0]

\* Mutant: the application's channel is not left.
cleanupKeepsChannel(v) ==
  [stopConnecting(v) EXCEPT
     !.watchdogTimer = FALSE, !.bound = @ \ {"deployment"}, !.sse = "none"]

\* Timers stop, the channels are left, the EventSource is closed.
cleanup(v) ==
  [stopConnecting(v) EXCEPT !.watchdogTimer = FALSE, !.bound = {}, !.sse = "none"]

\* The logs are fetched when no line came by the channels.
finishStream(v) ==
  [cleanup(v) EXCEPT
     !.finished = TRUE,
     !.fetching = IF v.streamedLogLines = 0 THEN "asked" ELSE @]

\* What handleStatusEvent and the EventSource's listener do alike.
showStatus(v, status) ==
  addSystemLine(updateStatus([v EXCEPT !.lastStatusEvent = status], status), status)

handleLogEvent(v, line) == addLogLine(v, line, TRUE)

\* Mutant: stages are not printed.
handleStageEventSilent(v, stage) == markActivity(v)

handleStageEvent(v, stage) == addLogLine(v, stage, TRUE)

\* A status that repeats the last one is dropped whole ...
handleStatusEvent(v, status) ==
  IF v.lastStatusEvent = status THEN v
  ELSE IF status \in TerminalStatuses THEN finishStream(showStatus(v, status))
  ELSE showStatus(v, status)

\* ... but ends the viewer all the same when the EventSource brings it.
onStatus(v, status) ==
  LET shown == IF v.lastStatusEvent = status THEN v ELSE showStatus(v, status)
  IN  IF status \in TerminalStatuses THEN finishStream(shown) ELSE shown

\* A broadcast, on either channel: the events carry no deployment.
onBroadcast(v, m) ==
  CASE m.kind = "log"    -> handleLogEvent(v, m.text)
    [] m.kind = "stage"  -> handleStageEvent(v, m.text)
    [] m.kind = "status" -> handleStatusEvent(v, m.text)

\* A frame of the EventSource.
onFrame(v, m) ==
  CASE m.kind = "log"       -> handleLogEvent(v, m.text)
    [] m.kind = "stage"     -> handleStageEvent(v, m.text)
    [] m.kind = "status"    -> onStatus(v, m.text)
    [] m.kind = "done"      -> finishStream(v)
    [] m.kind = "heartbeat" -> markActivity(v)

\* Private channels of Echo, asked for at once and confirmed later.
bindChannel(v) == [stopConnecting(v) EXCEPT !.bound = Channels]

\* One tries at once, then every 500 ms.
connectEcho(v) == IF echo THEN bindChannel(v) ELSE [v EXCEPT !.connectTimer = TRUE]

connectSSE(v) == IF v.sse # "none" \/ v.finished THEN v ELSE [v EXCEPT !.sse = "connecting"]

startRealtimeWatchdog(v) == [v EXCEPT !.watchdogTimer = TRUE]

-----------------------------------------------------------------------------
(***************************************************************************)
(* The component takes a step: with its channels go their subscriptions    *)
(* and what was on its way to them, with its EventSource the other end.    *)
(***************************************************************************)
Becomes(v, w, s, cause) ==
  /\ viewer' = v
  /\ subscribed' = subscribed \cap v.bound
  /\ wire' = {f \in w : f.channel \in v.bound}
  /\ session' = IF v.sse = "open" THEN s ELSE NoSession
  /\ endedBy' = IF v.finished /\ ~viewer.finished THEN cause ELSE endedBy

\* The server renders the window from the row it reads.
Render ==
  /\ phase = "closed"
  /\ phase' = "rendered"
  /\ props' = [isTerminal |-> row, initialLogs |-> IF saved THEN Persisted ELSE Earlier]
  /\ viewer' = NewViewer(row, IF row THEN End ELSE "building")
  /\ endedBy' = IF row THEN "row" ELSE endedBy
  /\ UNCHANGED <<echo, subscribed, wire, session, sourceVars, airVars, cuts, missed, streamed>>

\* Alpine finds it, later.
InitComponent ==
  /\ phase = "rendered"
  /\ phase' = "open"
  /\ LET loaded == addStoredLines(viewer, props.initialLogs)
     IN  Becomes(IF loaded.finished THEN loaded
                                    ELSE startRealtimeWatchdog(connectEcho(loaded)),
                 wire, session, "row")
  /\ UNCHANGED <<props, echo, sourceVars, airVars, cuts, missed, streamed>>

\* The user closes the window.
Destroy ==
  /\ phase = "open"
  /\ phase' = "gone"
  /\ Becomes(cleanup(viewer), wire, session, "nothing")
  /\ UNCHANGED <<props, echo, sourceVars, airVars, cuts, missed, streamed>>

\* The interval set by connectEcho.
ConnectTick ==
  /\ phase = "open" /\ viewer.connectTimer
  /\ LET tried == [viewer EXCEPT !.attempts = @ + 1]
     IN  Becomes(IF echo THEN bindChannel(tried)
                 ELSE IF tried.attempts >= MaxAttempts
                   THEN connectSSE(stopConnecting(tried))
                 ELSE tried, wire, session, "nothing")
  /\ UNCHANGED <<phase, props, echo, sourceVars, airVars, cuts, missed, streamed>>

\* Ten seconds without activity, where it makes a difference.
Quiet ==
  /\ phase = "open" /\ ~viewer.idle /\ ~viewer.finished
  /\ viewer.sse = "none" \/ (session.pc = "live" /\ session.queue = <<>>)
  /\ viewer' = [viewer EXCEPT !.idle = TRUE]
  /\ UNCHANGED <<phase, props, endedBy, echo, subscribed, wire, session, sourceVars, airVars,
                 cuts, missed, streamed>>

\* Mutant: a websocket that was bound is trusted.
WatchdogTickUnbound ==
  /\ phase = "open" /\ viewer.watchdogTimer
  /\ ~viewer.finished /\ viewer.idle /\ viewer.sse = "none"
  /\ viewer.bound = {}
  /\ Becomes(connectSSE(viewer), wire, session, "nothing")
  /\ UNCHANGED <<phase, props, echo, sourceVars, airVars, cuts, missed, streamed>>

\* The interval set by startRealtimeWatchdog, when it has something to do.
WatchdogTick ==
  /\ phase = "open" /\ viewer.watchdogTimer
  /\ ~viewer.finished /\ viewer.idle /\ viewer.sse = "none"
  /\ Becomes(connectSSE(viewer), wire, session, "nothing")
  /\ UNCHANGED <<phase, props, echo, sourceVars, airVars, cuts, missed, streamed>>

\* A broadcast comes in.
Receive ==
  /\ phase = "open"
  /\ \E f \in wire :
       Becomes(onBroadcast(viewer, f.message), wire \ {f}, session, f.from)
  /\ UNCHANGED <<phase, props, echo, sourceVars, airVars, cuts, missed, streamed>>

\* A frame of the EventSource comes in.
ReceiveFrame ==
  /\ phase = "open" /\ session.queue # <<>>
  /\ LET m == Head(session.queue)
     IN  Becomes(onFrame(viewer, m), wire, [session EXCEPT !.queue = Tail(@)],
                 IF m.kind = "done" THEN "early" ELSE IF session.whole THEN "stream" ELSE "late")
  /\ UNCHANGED <<phase, props, echo, sourceVars, airVars, cuts, missed, streamed>>

\* The answer of fetch: build_logs as it is then, or an error.
FetchAnswered ==
  /\ phase = "open" /\ viewer.fetching = "asked"
  /\ LET lines == IF saved THEN Persisted ELSE Earlier
         done  == [viewer EXCEPT !.fetching = "done"]
     IN  \/ Becomes(IF lines = <<>> THEN addSystemLine(done, "persisted")
                    ELSE addStoredLines(addSystemLine(done, "persisted"), lines),
                    wire, session, "nothing")
         \/ /\ "fetch" \in Faults
            /\ Becomes(addSystemLine(done, "persisted"), wire, session, "nothing")
  /\ UNCHANGED <<phase, props, echo, sourceVars, airVars, cuts, missed, streamed>>

-----------------------------------------------------------------------------
(***************************************************************************)
(* The world around takes its steps as long as it can still reach the      *)
(* viewer or be read by it: what happens to a window that has gone, or     *)
(* that has finished and holds nothing more, is left out.                  *)
(***************************************************************************)
Watched ==
  /\ phase # "gone"
  /\ ~ /\ viewer.finished /\ ~props.isTerminal /\ viewer.fetching # "asked"
       /\ viewer.bound = {} /\ viewer.sse = "none"
       /\ ~viewer.connectTimer /\ ~viewer.watchdogTimer

(***************************************************************************)
(* The websocket.                                                          *)
(***************************************************************************)
\* The page's module script has run, if it ever does: window.Echo is there.
EchoLoads ==
  /\ Watched
  /\ ~echo
  /\ echo' = TRUE
  /\ UNCHANGED <<pageVars, subscribed, wire, session, sourceVars, airVars, cuts, missed,
                 streamed>>

\* The server has let the user into a channel.
Subscribed(c) ==
  /\ c \in viewer.bound \ subscribed
  /\ subscribed' = subscribed \cup {c}
  /\ UNCHANGED <<pageVars, echo, wire, session, sourceVars, airVars, cuts, missed, streamed>>

\* The connection breaks with what is on it; Echo subscribes again by itself.
SocketBreaks ==
  /\ "socket" \in Faults /\ cuts < MaxCuts
  /\ subscribed # {}
  /\ subscribed' = {} /\ wire' = {} /\ cuts' = cuts + 1
  /\ missed' = (missed \/ \E f \in wire : f.from = "socket")
  /\ UNCHANGED <<pageVars, echo, session, sourceVars, airVars, streamed>>

\* A broadcast goes to each channel it names that the browser has joined.
Broadcast(m, from, channels) ==
  wire' = {[channel |-> c, message |-> m, from |-> from] : c \in subscribed \cap channels}

(***************************************************************************)
(* The worker, the row, and those that broadcast: the job, the other       *)
(* deployment's job, the callback.  At most one message is on its way.     *)
(***************************************************************************)
\* The verdict goes to the row before it is published.
EndRow ==
  /\ Watched
  /\ published = Len(Own) - 1 /\ ~row
  /\ row' = TRUE
  /\ UNCHANGED <<pageVars, echo, subscribed, wire, session, saved, published, cleared,
                 airVars, cuts, missed, streamed>>

Publish ==
  /\ Watched
  /\ published < Len(Own)
  /\ published = Len(Own) - 1 => row
  /\ published' = published + 1
  /\ session' = IF session.pc = "live"
                  THEN [session EXCEPT !.queue = Append(@, Own[published + 1])]
                  ELSE session
  /\ UNCHANGED <<pageVars, echo, subscribed, wire, row, saved, cleared, airVars, cuts,
                 missed, streamed>>

\* The callback with the verdict brings build_logs, if it comes, and dispatches
\* DeploymentStatusChanged.
SaveLogs ==
  /\ Watched
  /\ published = Len(Own) /\ ~saved /\ wire = {}
  /\ saved' = TRUE
  /\ Broadcast(Own[Len(Own)], "callback", Channels)
  /\ UNCHANGED <<pageVars, echo, subscribed, session, row, published, cleared, airVars,
                 cuts, missed, streamed>>

\* One job at a time: the other deployment's comes first.
OtherAirs ==
  /\ Watched
  /\ aired = 0 /\ otherAired < Len(Other) /\ wire = {}
  /\ otherAired' = otherAired + 1
  /\ Broadcast(Other[otherAired + 1], "other", {"application"})
  /\ UNCHANGED <<pageVars, echo, subscribed, session, sourceVars, aired, cuts, missed,
                 streamed>>

Air ==
  /\ Watched
  /\ aired < published /\ ~cleared /\ wire = {}
  /\ aired' = aired + 1
  /\ Broadcast(Own[aired + 1], "socket", Channels)
  /\ missed' = (missed \/ subscribed = {})
  /\ UNCHANGED <<pageVars, echo, subscribed, session, sourceVars, otherAired, cuts,
                 streamed>>

\* A message between the job's LRANGE and its SUBSCRIBE.
Skip ==
  /\ "skip" \in Faults /\ Watched
  /\ aired < published /\ ~cleared
  /\ aired' = aired + 1
  /\ missed' = TRUE
  /\ UNCHANGED <<pageVars, echo, subscribed, wire, session, sourceVars, otherAired,
                 cuts, streamed>>

\* The job deletes the list after the terminal status.
ClearBuffer ==
  /\ Watched
  /\ aired = Len(Own) /\ ~cleared
  /\ cleared' = TRUE
  /\ UNCHANGED <<pageVars, echo, subscribed, wire, session, row, saved, published, airVars,
                 cuts, missed, streamed>>

-----------------------------------------------------------------------------
(***************************************************************************)
(* The EventSource and DeploymentLogsController::stream.                   *)
(***************************************************************************)
heartbeat == [kind |-> "heartbeat", text |-> Blank]
done == [kind |-> "done", text |-> Blank]

\* The request gets its answer: the status the row has, first of all.  When that
\* is terminal, a replay of build_logs follows it, which no browser waits for.
StreamOpens ==
  /\ phase = "open" /\ viewer.sse = "connecting"
  /\ viewer' = [markActivity(viewer) EXCEPT !.sse = "open"]
  /\ streamed' = TRUE
  /\ LET status == [kind |-> "status", text |-> IF row THEN End ELSE "building"]
     IN  session' = [NoSession EXCEPT !.pc = IF row THEN "over" ELSE "read",
                                      !.queue = <<status>>]
  /\ UNCHANGED <<phase, props, endedBy, echo, subscribed, wire, sourceVars, airVars, cuts, missed>>

\* An answer that is no stream (an error, the login page) ends the EventSource for
\* good, and the component keeps it.
StreamRefused ==
  /\ "refused" \in Faults
  /\ phase = "open" /\ viewer.sse = "connecting"
  /\ viewer' = [viewer EXCEPT !.sse = "failed"]
  /\ UNCHANGED <<phase, props, endedBy, echo, subscribed, wire, session, sourceVars, airVars, cuts,
                 missed, streamed>>

\* LRANGE.  A heartbeat follows, or, when the terminal status was in it, a done that
\* comes after the browser has closed the stream.
StreamReads ==
  /\ session.pc = "read"
  /\ LET buffer == IF cleared THEN <<>> ELSE SubSeq(Own, 1, published)
         ended  == ~cleared /\ published = Len(Own)
     IN  session' = [pc    |-> IF ended THEN "over" ELSE "ask",
                     queue |-> session.queue \o buffer \o (IF ended THEN <<>> ELSE <<heartbeat>>),
                     upto  |-> Len(buffer),
                     whole |-> ended]
  /\ UNCHANGED <<pageVars, echo, subscribed, wire, sourceVars, airVars, cuts, missed, streamed>>

\* SUBSCRIBE.
StreamSubscribes ==
  /\ session.pc = "ask"
  /\ session' = [session EXCEPT !.pc = "live", !.whole = (session.upto = published)]
  /\ UNCHANGED <<pageVars, echo, subscribed, wire, sourceVars, airVars, cuts, missed, streamed>>

\* Redis fails, or a message comes after ten minutes: the endpoint says done.
StreamEndsEarly ==
  /\ "early" \in Faults
  /\ session.pc = "live"
  /\ session' = [session EXCEPT !.pc = "over", !.queue = Append(@, done)]
  /\ UNCHANGED <<pageVars, echo, subscribed, wire, sourceVars, airVars, cuts, missed, streamed>>

\* A broken connection: onerror, and the EventSource connects again.
Reconnects ==
  /\ viewer' = [viewer EXCEPT !.sse = "connecting"]
  /\ session' = NoSession
  /\ UNCHANGED <<phase, props, endedBy, echo, subscribed, wire, sourceVars, airVars, missed, streamed>>

StreamBreaks ==
  /\ "stream" \in Faults /\ cuts < MaxCuts
  /\ viewer.sse = "open"
  /\ cuts' = cuts + 1
  /\ Reconnects

\* nginx ends a stream that says nothing for 660 s (fastcgi_read_timeout).
StreamTimesOut ==
  /\ session.pc = "live" /\ session.queue = <<>> /\ viewer.idle
  /\ Reconnects
  /\ UNCHANGED cuts

-----------------------------------------------------------------------------
Timers == ConnectTick \/ Quiet \/ WatchdogTick

\* What browser and endpoint do for a stream that nothing breaks.
StreamStep ==
  StreamOpens \/ StreamRefused \/ StreamReads \/ StreamSubscribes \/ ReceiveFrame \/ StreamTimesOut

Next ==
  \/ Render \/ InitComponent \/ Destroy \/ Timers \/ Receive \/ FetchAnswered
  \/ EchoLoads \/ (\E c \in Channels : Subscribed(c)) \/ SocketBreaks
  \/ EndRow \/ Publish \/ SaveLogs \/ OtherAirs \/ Air \/ Skip \/ ClearBuffer
  \/ StreamStep \/ StreamEndsEarly \/ StreamBreaks

Spec == Init /\ [][Next]_vars

\* The browser's intervals run and time passes; a request for a stream is answered one
\* way or another, and what comes on the stream is handled.
Fairness == WF_vars(Timers) /\ WF_vars(StreamStep)

FairSpec == Spec /\ Fairness

-----------------------------------------------------------------------------
(***************************************************************************)
(* Properties.                                                             *)
(***************************************************************************)
\* A viewer that has finished or was closed holds nothing: no timer, no channel, no
\* EventSource, whichever of them the end came by and whatever was being tried.
NothingHeld ==
  (phase = "open" /\ viewer.finished) \/ phase = "gone" =>
    /\ ~viewer.connectTimer /\ ~viewer.watchdogTimer
    /\ viewer.bound = {} /\ subscribed = {} /\ wire = {}
    /\ viewer.sse = "none" /\ session = NoSession

\* A viewer finishes because its deployment did; or the end of another deployment of
\* the application was taken for its own, or the endpoint gave up its stream.  The
\* status it is left with says which.
FinishedIsExplained ==
  viewer.finished =>
    \/ endedBy \in {"row", "socket", "callback", "stream", "late"} /\ row /\ viewer.currentStatus = End
    \/ endedBy = "other" /\ otherAired = Len(Other)
    \/ endedBy = "early" /\ "early" \in Faults

Complete == {Prefix[m.text] : m \in {n \in ToSet(Own) : n.kind # "status" /\ n.text # Blank}}
              \subseteq viewer.seenLines

\* When its deployment's end has come to it, the viewer has shown every line: unless it
\* came by the websocket and a broadcast before it did not, or by the callback, ahead of
\* the job, or by an EventSource that was opened too late or subscribed too late.
MissingIsExplained ==
  endedBy = "stream" \/ (endedBy = "socket" /\ ~missed) => Complete

\* Two channels carry every broadcast, joined at different moments and lost together;
\* what the viewer shows from them is in the order of publication all the same.  The
\* replay of an EventSource may come behind later lines.
InOrder ==
  ~streamed /\ otherAired = 0 /\ viewer.fetching # "done" /\ endedBy # "row" =>
    LET streamedOn == {i \in DOMAIN viewer.screen : viewer.screen[i] \notin ToSet(Earlier)}
    IN  \E publishedAs \in [streamedOn -> DOMAIN Own] :
          /\ \A i \in streamedOn : Own[publishedAs[i]].text = viewer.screen[i]
          /\ \A i, j \in streamedOn : i < j => publishedAs[i] < publishedAs[j]

\* However much the websocket loses or skips, the watchdog's EventSource tells an open
\* viewer of the end; unless the answer to it was no stream.
ViewerFinishes ==
  phase = "open" /\ row ~> viewer.finished \/ phase = "gone" \/ viewer.sse = "failed"

=============================================================================
