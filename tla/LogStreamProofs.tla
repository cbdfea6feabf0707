--------------------------- MODULE LogStreamProofs ---------------------------
(***************************************************************************)
(* What holds of LogStream for any number of readers and of messages:      *)
(* TypeOK, ViewerHasAll, TwoRuns and OneGap.  All rest on one fact about   *)
(* the Redis list, BufferIsLog: it is what has been published so far, in   *)
(* order, one message ahead of the channel while the worker stands between *)
(* RPUSH and PUBLISH.                                                      *)
(***************************************************************************)
EXTENDS LogStream, SequenceTheorems, TLAPS

-----------------------------------------------------------------------------
(***************************************************************************)
(* Sequences that lose their head or get a new end.                        *)
(***************************************************************************)
LEMMA EmptyFacts == Elements(<<>>) = {} /\ Increasing(<<>>)
BY DEF Elements, Increasing

\* Append and \o <<m>> do the same.
LEMMA SnocFacts ==
  ASSUME NEW s \in Seq(Messages), NEW m \in Messages
  PROVE  /\ Append(s, m) \in Seq(Messages) /\ s \o <<m>> = Append(s, m)
         /\ Len(Append(s, m)) = Len(s) + 1
         /\ \A i \in 1..Len(s) : Append(s, m)[i] = s[i]
         /\ Append(s, m)[Len(s) + 1] = m
         /\ DOMAIN s = 1..Len(s) /\ DOMAIN Append(s, m) = 1..Len(s) + 1 /\ Len(s) \in Nat
<1>1. s \o <<m>> = Append(s, m)
  BY ConcatProperties, AppendProperties
<1> QED BY <1>1

LEMMA SnocElements ==
  ASSUME NEW s \in Seq(Messages), NEW m \in Messages
  PROVE  Elements(Append(s, m)) = Elements(s) \cup {m}
<1>1. \A x : x \in Elements(Append(s, m)) => x \in Elements(s) \cup {m}
  BY SnocFacts DEF Elements
<1>2. \A i \in DOMAIN s : i \in DOMAIN Append(s, m) /\ Append(s, m)[i] = s[i]
  BY SnocFacts
<1>3. Len(s) + 1 \in DOMAIN Append(s, m) /\ Append(s, m)[Len(s) + 1] = m
  BY SnocFacts
<1> QED BY <1>1, <1>2, <1>3 DEF Elements

\* A sequence stays increasing under a new end that is above all.
LEMMA SnocIncreasing ==
  ASSUME NEW s \in Seq(Messages), NEW m \in Messages,
         Increasing(s), \A i \in DOMAIN s : s[i] < m
  PROVE  Increasing(Append(s, m))
BY SnocFacts DEF Increasing

LEMMA TailFacts ==
  ASSUME NEW s \in Seq(Messages), s # <<>>
  PROVE  /\ Head(s) \in Messages /\ Head(s) = s[1]
         /\ Tail(s) \in Seq(Messages)
         /\ \A i \in DOMAIN Tail(s) : i + 1 \in DOMAIN s /\ Tail(s)[i] = s[i + 1]
         /\ DOMAIN s = 1..Len(s) /\ DOMAIN Tail(s) = 1..Len(s) - 1
         /\ Len(s) \in Nat \ {0}
         /\ 1 \in DOMAIN s
BY HeadTailProperties

LEMMA TailElements ==
  ASSUME NEW s \in Seq(Messages), s # <<>>
  PROVE  Elements(s) = {Head(s)} \cup Elements(Tail(s))
<1>1. ASSUME NEW x \in Elements(s) PROVE x \in {Head(s)} \cup Elements(Tail(s))
  <2>1. PICK i \in DOMAIN s : x = s[i] BY <1>1 DEF Elements
  <2>2. CASE i = 1 BY <2>1, <2>2, TailFacts
  <2>3. CASE i # 1
    <3>1. i - 1 \in DOMAIN Tail(s) /\ Tail(s)[i - 1] = s[i]
      BY <2>1, <2>3, TailFacts
    <3> QED BY <2>1, <3>1 DEF Elements
  <2> QED BY <2>2, <2>3
<1>2. \A x \in Elements(Tail(s)) : x \in Elements(s)
  BY TailFacts DEF Elements
<1>3. Head(s) \in Elements(s)
  BY TailFacts DEF Elements
<1> QED BY <1>1, <1>2, <1>3

\* A message goes from the head of t to the end of s.
LEMMA OneOver ==
  ASSUME NEW s \in Seq(Messages), NEW t \in Seq(Messages), t # <<>>
  PROVE  /\ s \o <<Head(t)>> = Append(s, Head(t))
         /\ Elements(s \o <<Head(t)>>) = Elements(s) \cup {Head(t)}
<1>1. Head(t) \in Messages
  BY TailFacts
<1>2. s \o <<Head(t)>> = Append(s, Head(t))
  BY <1>1, SnocFacts
<1>3. Elements(Append(s, Head(t))) = Elements(s) \cup {Head(t)}
  BY <1>1, SnocElements
<1> QED BY <1>2, <1>3

LEMMA TailIncreasing ==
  ASSUME NEW s \in Seq(Messages), s # <<>>, Increasing(s)
  PROVE  /\ Increasing(Tail(s))
         /\ \A i \in DOMAIN Tail(s) : Head(s) < Tail(s)[i]
BY TailFacts DEF Increasing

-----------------------------------------------------------------------------
(***************************************************************************)
(* Types.  next stays within its bound because Announce follows a Push,    *)
(* and tries because a job returns to idle only with an attempt left.      *)
(***************************************************************************)
TriesLeft == \A r \in Listeners : pc[r] = "idle" => tries[r] < MaxTries

Typed ==
  /\ TypeOK
  /\ worker = "pushed" => next <= Last
  /\ TriesLeft

LEMMA TypedInit == Init => Typed
<1> SUFFICES ASSUME Init PROVE Typed
  OBVIOUS
<1>1. <<>> \in Seq(Messages)
  OBVIOUS
<1>2. TriesLeft
  BY LogAssumption DEF Init, TriesLeft, Readers
<1>3. next \in 1..Last + 1 /\ worker # "pushed"
  BY LogAssumption DEF Init
<1>4. /\ pc \in [Readers -> ReaderPc]
      /\ link \in [Readers -> {"none", "asked", "on"}]
      /\ tries \in [Readers -> 0..MaxTries]
  BY LogAssumption DEF Init, ReaderPc
<1>5. /\ inbox \in [Readers -> Seq(Messages)]
      /\ replay \in [Readers -> Seq(Messages)]
      /\ shown \in [Readers -> Seq(Messages)]
  BY <1>1 DEF Init
<1>6. /\ row \in {"active", "terminal"}
      /\ logs \in BOOLEAN /\ cleared \in BOOLEAN
      /\ panel \in {"posting", "answered", "failed", "signalled"}
      /\ worker \in {"none", "busy", "pushed", "over"}
      /\ buffer \in Seq(Messages) /\ late \subseteq Readers
  BY <1>1 DEF Init
<1> QED BY <1>2, <1>3, <1>4, <1>5, <1>6 DEF Typed, TypeOK

LEMMA DeliverType ==
  ASSUME TypeOK, NEW m \in Messages, Deliver(m)
  PROVE  inbox' \in [Readers -> Seq(Messages)]
BY SnocFacts DEF TypeOK, Deliver

LEMMA TypedStep == Typed /\ [Next]_vars => Typed'
<1> SUFFICES ASSUME Typed, [Next]_vars PROVE Typed'
  OBVIOUS
<1> USE LogAssumption
<1>1. CASE PanelAnswered
  BY <1>1 DEF Typed, TypeOK, TriesLeft, PanelAnswered, readerVars
<1>2. CASE PanelFails
  BY <1>2 DEF Typed, TypeOK, TriesLeft, PanelFails, readerVars
<1>3. CASE PanelSignals
  <2>1. inbox' \in [Readers -> Seq(Messages)]
    BY <1>3, DeliverType DEF Typed, PanelSignals, Messages
  <2> QED BY <1>3, <2>1 DEF Typed, TypeOK, TriesLeft, PanelSignals
<1>4. CASE WorkerStarts
  BY <1>4 DEF Typed, TypeOK, TriesLeft, WorkerStarts, readerVars
<1>5. CASE WriteVerdict
  BY <1>5 DEF Typed, TypeOK, TriesLeft, WriteVerdict, readerVars
<1>6. CASE Push
  <2>1. next \in Messages /\ Append(buffer, next) \in Seq(Messages)
    BY <1>6, SnocFacts DEF Typed, TypeOK, Push, Messages
  <2> QED BY <1>6, <2>1 DEF Typed, TypeOK, TriesLeft, Push, readerVars
<1>7. CASE Announce
  <2>1. inbox' \in [Readers -> Seq(Messages)]
    BY <1>7, DeliverType DEF Typed, TypeOK, Announce, Messages
  <2> QED BY <1>7, <2>1 DEF Typed, TypeOK, TriesLeft, Announce
<1>8. CASE SaveLogs
  BY <1>8 DEF Typed, TypeOK, TriesLeft, SaveLogs, readerVars
<1>9. ASSUME NEW r \in Readers, Open(r) PROVE Typed'
  <2>1. shown' \in [Readers -> Seq(Messages)]
    <3>1. [m \in Messages |-> m] \in Seq(Messages)
      BY SeqDef DEF Messages
    <3>2. <<Last>> \in Seq(Messages)
      BY DEF Messages
    <3>3. shown[r] \in Seq(Messages)
      BY DEF Typed, TypeOK
    <3>4. shown[r] \o [m \in Messages |-> m] \in Seq(Messages)
      BY <3>1, <3>3, ConcatProperties
    <3>5. shown[r] \o <<Last>> \in Seq(Messages)
      BY <3>2, <3>3, ConcatProperties
    <3>6. shown' = shown \/ \E s \in Seq(Messages) : shown' = [shown EXCEPT ![r] = s]
      BY <1>9, <3>4, <3>5 DEF Open, ShowNow
    <3> QED BY <3>6 DEF Typed, TypeOK
  <2>2. PICK label \in {"done", "ask", "read"} : pc' = [pc EXCEPT ![r] = label]
    BY <1>9 DEF Open, Goto
  <2>3. pc' \in [Readers -> ReaderPc] /\ r \notin Listeners
    BY <1>9, <2>2 DEF Typed, TypeOK, Open, ReaderPc
  <2>4. \A q \in Listeners : pc'[q] = pc[q]
    BY <2>2, <2>3 DEF Typed, TypeOK, Readers
  <2> QED BY <1>9, <2>1, <2>3, <2>4 DEF Typed, TypeOK, TriesLeft, Open, sourceVars
<1>10. ASSUME NEW r \in Readers, StartJob(r) PROVE Typed'
  <2>1. tries' \in [Readers -> 0..MaxTries]
    BY <1>10 DEF Typed, TypeOK, TriesLeft, StartJob
  <2>2. /\ pc' \in [Readers -> ReaderPc]
        /\ \A q \in Listeners : pc'[q] = "idle" => pc[q] = "idle" /\ tries'[q] = tries[q]
    BY <1>10 DEF Typed, TypeOK, StartJob, Goto, ReaderPc, Readers
  <2> QED BY <1>10, <2>1, <2>2 DEF Typed, TypeOK, TriesLeft, StartJob, sourceVars
<1>11. ASSUME NEW r \in Readers, Subscribe(r) PROVE Typed'
  BY <1>11 DEF Typed, TypeOK, TriesLeft, Subscribe, Goto, ReaderPc, Readers, sourceVars
<1>12. ASSUME NEW r \in Readers, TakesEffect(r) PROVE Typed'
  BY <1>12 DEF Typed, TypeOK, TriesLeft, TakesEffect, sourceVars
<1>13. ASSUME NEW r \in Readers, ReadBuffer(r) PROVE Typed'
  BY <1>13 DEF Typed, TypeOK, TriesLeft, ReadBuffer, Goto, ReaderPc, Readers, sourceVars
<1>14. ASSUME NEW r \in Readers, ShowReplay(r) PROVE Typed'
  <2>1. replay[r] \in Seq(Messages) /\ shown[r] \in Seq(Messages) /\ <<>> \in Seq(Messages)
    BY DEF Typed, TypeOK
  <2>2. shown' \in [Readers -> Seq(Messages)]
    <3>1. Head(replay[r]) \in Messages
      BY <1>14, <2>1, TailFacts DEF ShowReplay
    <3>2. shown[r] \o <<Head(replay[r])>> \in Seq(Messages)
      BY <2>1, <3>1, SnocFacts
    <3> QED BY <1>14, <3>2 DEF Typed, TypeOK, ShowReplay, ShowNow
  <2>3. replay' \in [Readers -> Seq(Messages)] /\ inbox' \in [Readers -> Seq(Messages)]
    <3>1. Tail(replay[r]) \in Seq(Messages)
      BY <1>14, <2>1, TailFacts DEF ShowReplay
    <3>2. \/ inbox' = [inbox EXCEPT ![r] = <<>>] /\ replay' = [replay EXCEPT ![r] = <<>>]
          \/ inbox' = inbox /\ replay' = [replay EXCEPT ![r] = Tail(replay[r])]
      BY <1>14 DEF ShowReplay, Finish
    <3> QED BY <2>1, <3>1, <3>2 DEF Typed, TypeOK
  <2>4. link' \in [Readers -> {"none", "asked", "on"}] /\ pc' \in [Readers -> ReaderPc]
    BY <1>14 DEF Typed, TypeOK, ShowReplay, Finish, Goto, ReaderPc
  <2>5. \A q \in Listeners : pc'[q] = "idle" => pc[q] = "idle"
    BY <1>14 DEF Typed, TypeOK, ShowReplay, Finish, Goto, Readers
  <2> QED BY <1>14, <2>2, <2>3, <2>4, <2>5 DEF Typed, TypeOK, TriesLeft, ShowReplay, sourceVars
<1>15. ASSUME NEW r \in Readers, ReplayEnds(r) PROVE Typed'
  BY <1>15 DEF Typed, TypeOK, TriesLeft, ReplayEnds, Goto, ReaderPc, Readers, sourceVars
<1>16. ASSUME NEW r \in Readers, Hear(r) PROVE Typed'
  <2>1. inbox[r] \in Seq(Messages) /\ shown[r] \in Seq(Messages) /\ <<>> \in Seq(Messages)
    BY DEF Typed, TypeOK
  <2>2. shown' \in [Readers -> Seq(Messages)]
    <3>1. Head(inbox[r]) \in Messages
      BY <1>16, <2>1, TailFacts DEF Hear
    <3>2. shown[r] \o <<Head(inbox[r])>> \in Seq(Messages)
      BY <2>1, <3>1, SnocFacts
    <3> QED BY <1>16, <3>2 DEF Typed, TypeOK, Hear, ShowNow
  <2>3. replay' \in [Readers -> Seq(Messages)] /\ inbox' \in [Readers -> Seq(Messages)]
    <3>1. Tail(inbox[r]) \in Seq(Messages)
      BY <1>16, <2>1, TailFacts DEF Hear
    <3>2. \/ inbox' = [inbox EXCEPT ![r] = <<>>] /\ replay' = [replay EXCEPT ![r] = <<>>]
          \/ replay' = replay /\ inbox' = [inbox EXCEPT ![r] = Tail(inbox[r])]
      BY <1>16 DEF Hear, Finish
    <3> QED BY <2>1, <3>1, <3>2 DEF Typed, TypeOK
  <2>4. link' \in [Readers -> {"none", "asked", "on"}] /\ pc' \in [Readers -> ReaderPc]
    BY <1>16 DEF Typed, TypeOK, Hear, Finish, Goto, ReaderPc
  <2>5. \A q \in Listeners : pc'[q] = "idle" => pc[q] = "idle"
    BY <1>16 DEF Typed, TypeOK, Hear, Finish, Goto, Readers
  <2> QED BY <1>16, <2>2, <2>3, <2>4, <2>5 DEF Typed, TypeOK, TriesLeft, Hear, sourceVars
<1>17. ASSUME NEW r \in Readers, ClearBuffer(r) PROVE Typed'
  BY <1>17 DEF Typed, TypeOK, TriesLeft, ClearBuffer, Goto, ReaderPc, Readers, sourceVars
<1>18. ASSUME NEW r \in Readers, Leave(r) PROVE Typed'
  BY <1>18 DEF Typed, TypeOK, TriesLeft, Leave, Drop, Goto, ReaderPc, Readers, sourceVars
<1>19. ASSUME NEW r \in Readers, JobTimesOut(r) PROVE Typed'
  BY <1>19 DEF Typed, TypeOK, TriesLeft, JobTimesOut, Drop, Goto, ReaderPc, Readers, sourceVars
<1>20. CASE UNCHANGED vars
  BY <1>20 DEF Typed, TypeOK, TriesLeft, vars, sourceVars, readerVars
<1> QED
  BY <1>1, <1>2, <1>3, <1>4, <1>5, <1>6, <1>7, <1>8, <1>9, <1>10, <1>11, <1>12, <1>13,
     <1>14, <1>15, <1>16, <1>17, <1>18, <1>19, <1>20
  DEF Next, PanelStep, WorkerStep, ReaderStep

\* Every variable keeps its type in every reachable state of any instance.
THEOREM TypeCorrect == Spec => []TypeOK
<1>1. Typed => TypeOK BY DEF Typed
<1> QED BY TypedInit, TypedStep, <1>1, PTL DEF Spec

-----------------------------------------------------------------------------
(***************************************************************************)
(* The list is the log: what has been pushed, in order, unless a job has   *)
(* deleted it.                                                             *)
(***************************************************************************)
Pushed == IF worker = "pushed" THEN next ELSE next - 1

BufferIsLog ==
  /\ Increasing(buffer)
  /\ Elements(buffer) \subseteq 1..Pushed
  /\ ~cleared => 1..Pushed \subseteq Elements(buffer)

LEMMA BufferInit == Init => BufferIsLog
BY EmptyFacts DEF Init, BufferIsLog, Pushed

\* Only three actions do more to it than leave it alone.
LEMMA BufferFrame ==
  Typed /\ [Next]_vars =>
    \/ Push \/ Announce
    \/ \E r \in Readers : ClearBuffer(r)
    \/ UNCHANGED <<buffer, cleared, next>> /\ (worker = "pushed" <=> worker' = "pushed")
<1> SUFFICES ASSUME Typed, [Next]_vars,
                    ~Push, ~Announce, \A r \in Readers : ~ClearBuffer(r)
             PROVE  UNCHANGED <<buffer, cleared, next>> /\ (worker = "pushed" <=> worker' = "pushed")
  OBVIOUS
<1>1. CASE PanelStep \/ PanelFails \/ WorkerStarts \/ WorkerStep \/ UNCHANGED vars
  BY <1>1 DEF PanelStep, PanelAnswered, PanelSignals, PanelFails, WorkerStarts, WorkerStep,
              WriteVerdict, SaveLogs, vars, sourceVars
<1>2. ASSUME NEW r \in Readers, Open(r) \/ ReaderStep(r) \/ Leave(r) \/ JobTimesOut(r)
      PROVE  UNCHANGED <<buffer, cleared, next, worker>>
  BY <1>2 DEF Open, ReaderStep, StartJob, Subscribe, TakesEffect, ReadBuffer, ShowReplay,
              ReplayEnds, Hear, Leave, JobTimesOut, Drop, sourceVars
<1> QED BY <1>1, <1>2 DEF Next

LEMMA BufferStep == Typed /\ BufferIsLog /\ [Next]_vars => BufferIsLog'
<1> SUFFICES ASSUME Typed, BufferIsLog, [Next]_vars PROVE BufferIsLog'
  OBVIOUS
<1>t. next \in 1..Last + 1 /\ Last \in Nat /\ buffer \in Seq(Messages)
  BY LogAssumption DEF Typed, TypeOK
<1>1. CASE Push
  <2>1. next \in Messages /\ buffer' = Append(buffer, next) /\ cleared' = cleared
    BY <1>1, <1>t DEF Push, Messages
  <2>2. Pushed = next - 1 /\ Pushed' = next
    BY <1>1 DEF Push, Pushed
  <2>3. \A i \in DOMAIN buffer : buffer[i] < next
    <3>1. \A i \in DOMAIN buffer : buffer[i] \in Elements(buffer)
      BY DEF Elements
    <3>2. Elements(buffer) \subseteq 1..next - 1
      BY <2>2 DEF BufferIsLog
    <3> QED BY <1>t, <3>1, <3>2
  <2>4. Increasing(buffer')
    BY <1>t, <2>1, <2>3, SnocIncreasing DEF BufferIsLog
  <2>5. Elements(buffer') = Elements(buffer) \cup {next}
    BY <1>t, <2>1, SnocElements
  <2> QED BY <1>t, <2>1, <2>2, <2>4, <2>5 DEF BufferIsLog
<1>2. CASE Announce
  <2>1. UNCHANGED <<buffer, cleared>>
    BY <1>2 DEF Announce
  <2>2. Pushed' = Pushed
    BY <1>2, <1>t DEF Announce, Pushed
  <2> QED BY <2>1, <2>2 DEF BufferIsLog
<1>3. ASSUME NEW r \in Readers, ClearBuffer(r) PROVE BufferIsLog'
  BY <1>3, EmptyFacts DEF ClearBuffer, BufferIsLog
<1>4. CASE UNCHANGED <<buffer, cleared, next>> /\ (worker = "pushed" <=> worker' = "pushed")
  BY <1>4 DEF BufferIsLog, Pushed
<1> QED BY <1>1, <1>2, <1>3, <1>4, BufferFrame

-----------------------------------------------------------------------------
(***************************************************************************)
(* The readers.  A step is of the source, which delivers a message or not  *)
(* and touches no reader otherwise, or of one reader.                      *)
(***************************************************************************)
\* What reader r stands at is as it was.
Still(r) ==
  /\ pc'[r] = pc[r] /\ link'[r] = link[r] /\ inbox'[r] = inbox[r]
  /\ replay'[r] = replay[r] /\ shown'[r] = shown[r]

\* Readers have the message m, if they have a subscription.
Delivered(m) ==
  /\ UNCHANGED <<pc, link, replay, shown, late, cleared>>
  /\ Deliver(m)
  /\ \/ m = next /\ next < Last + 1 /\ next' = next + 1
     \/ m = Last /\ next' = next

Acts(r) == Open(r) \/ ReaderStep(r) \/ Leave(r) \/ JobTimesOut(r)

LEMMA StepOfReaders ==
  Typed /\ [Next]_vars =>
    \/ \E m \in Messages : Delivered(m)
    \/ UNCHANGED <<readerVars, cleared, next>>
    \/ \E r \in Readers : Acts(r)
<1> SUFFICES ASSUME Typed, [Next]_vars
             PROVE  \/ \E m \in Messages : Delivered(m)
                    \/ UNCHANGED <<readerVars, cleared, next>>
                    \/ \E r \in Readers : Acts(r)
  OBVIOUS
<1>t. next \in 1..Last + 1 /\ Last \in Nat \ {0}
  BY LogAssumption DEF Typed, TypeOK
<1>1. CASE PanelSignals
  <2>1. Delivered(Last) /\ Last \in Messages
    BY <1>1, <1>t DEF PanelSignals, Delivered, Messages
  <2> QED BY <2>1
<1>2. CASE Announce
  <2>1. next \in Messages /\ next < Last + 1
    BY <1>2, <1>t DEF Announce, Typed, Messages
  <2>2. Delivered(next)
    BY <1>2, <2>1 DEF Announce, Delivered
  <2> QED BY <2>1, <2>2
<1>3. CASE PanelAnswered \/ PanelFails \/ WorkerStarts \/ WriteVerdict \/ Push \/ SaveLogs
           \/ UNCHANGED vars
  BY <1>3 DEF PanelAnswered, PanelFails, WorkerStarts, WriteVerdict, Push, SaveLogs, vars,
              sourceVars
<1>4. CASE \E r \in Readers : Acts(r)
  BY <1>4
<1> QED BY <1>1, <1>2, <1>3, <1>4 DEF Next, PanelStep, WorkerStep, Acts

LEMMA OthersStandStill ==
  ASSUME Typed, NEW r \in Readers, NEW q \in Readers, q # r, Acts(r)
  PROVE  Still(q) /\ (q \in late' <=> q \in late)
<1>1. CASE Open(r)
  BY <1>1 DEF Typed, TypeOK, Open, Still, Goto, ShowNow
<1>2. CASE StartJob(r)
  BY <1>2 DEF Typed, TypeOK, StartJob, Still, Goto
<1>3. CASE Subscribe(r)
  BY <1>3 DEF Typed, TypeOK, Subscribe, Still, Goto
<1>4. CASE TakesEffect(r)
  BY <1>4 DEF Typed, TypeOK, TakesEffect, Still
<1>5. CASE ReadBuffer(r)
  BY <1>5 DEF Typed, TypeOK, ReadBuffer, Still, Goto
<1>6. CASE ShowReplay(r)
  BY <1>6 DEF Typed, TypeOK, ShowReplay, Still, Goto, ShowNow, Finish
<1>7. CASE ReplayEnds(r)
  BY <1>7 DEF Typed, TypeOK, ReplayEnds, Still, Goto
<1>8. CASE Hear(r)
  BY <1>8 DEF Typed, TypeOK, Hear, Still, Goto, ShowNow, Finish
<1>9. CASE ClearBuffer(r)
  BY <1>9 DEF Typed, TypeOK, ClearBuffer, Still, Goto
<1>10. CASE Leave(r)
  BY <1>10 DEF Typed, TypeOK, Leave, Drop, Still, Goto
<1>11. CASE JobTimesOut(r)
  BY <1>11 DEF Typed, TypeOK, JobTimesOut, Drop, Still, Goto
<1> QED
  BY <1>1, <1>2, <1>3, <1>4, <1>5, <1>6, <1>7, <1>8, <1>9, <1>10, <1>11 DEF Acts, ReaderStep

LEMMA ActsKeep ==
  ASSUME Typed, NEW r \in Readers, Acts(r)
  PROVE  next' = next /\ (cleared => cleared')
BY DEF Acts, ReaderStep, Open, StartJob, Subscribe, TakesEffect, ReadBuffer, ShowReplay,
       ReplayEnds, Hear, ClearBuffer, Leave, JobTimesOut, Drop, sourceVars

\* Between the list and the end a reader only moves messages from hand to hand.
LEMMA HandToHand ==
  ASSUME Typed, NEW r \in Readers, ShowReplay(r) \/ ReplayEnds(r) \/ Hear(r),
         pc'[r] \notin {"clear", "done"}
  PROVE  Has(r)' = Has(r) /\ link'[r] = link[r]
<1>t. /\ shown[r] \in Seq(Messages) /\ replay[r] \in Seq(Messages) /\ inbox[r] \in Seq(Messages)
      /\ pc \in [Readers -> ReaderPc]
  BY DEF Typed, TypeOK
<1>1. CASE ShowReplay(r)
  <2>1. Head(replay[r]) # Last
    BY <1>1, <1>t DEF ShowReplay, Finish, Goto
  <2>2. /\ replay'[r] = Tail(replay[r]) /\ inbox'[r] = inbox[r] /\ link'[r] = link[r]
        /\ shown'[r] = shown[r] \o <<Head(replay[r])>>
        /\ replay[r] # <<>>
    BY <1>1, <2>1 DEF ShowReplay, ShowNow, Typed, TypeOK
  <2>3. Elements(replay[r]) = {Head(replay[r])} \cup Elements(replay'[r])
    BY <1>t, <2>2, TailElements
  <2>4. Elements(shown'[r]) = Elements(shown[r]) \cup {Head(replay[r])}
    BY <1>t, <2>2, OneOver
  <2> QED BY <2>2, <2>3, <2>4 DEF Has
<1>2. CASE Hear(r)
  <2>1. Head(inbox[r]) # Last
    BY <1>2, <1>t DEF Hear, Finish, Goto
  <2>2. /\ inbox'[r] = Tail(inbox[r]) /\ replay'[r] = replay[r] /\ link'[r] = link[r]
        /\ shown'[r] = shown[r] \o <<Head(inbox[r])>>
        /\ inbox[r] # <<>>
    BY <1>2, <2>1 DEF Hear, ShowNow, Typed, TypeOK
  <2>3. Elements(inbox[r]) = {Head(inbox[r])} \cup Elements(inbox'[r])
    BY <1>t, <2>2, TailElements
  <2>4. Elements(shown'[r]) = Elements(shown[r]) \cup {Head(inbox[r])}
    BY <1>t, <2>2, OneOver
  <2> QED BY <2>2, <2>3, <2>4 DEF Has
<1>3. CASE ReplayEnds(r)
  BY <1>3 DEF ReplayEnds, Has
<1> QED BY <1>1, <1>2, <1>3

\* A delivery is one more message in the hands of who has a subscription.
LEMMA DeliveredHas ==
  ASSUME Typed, NEW r \in Readers, NEW m \in Messages, Delivered(m)
  PROVE  /\ link[r] = "on" => inbox'[r] = Append(inbox[r], m) /\ Has(r)' = Has(r) \cup {m}
         /\ link[r] # "on" => inbox'[r] = inbox[r] /\ Has(r)' = Has(r)
         /\ pc'[r] = pc[r] /\ link'[r] = link[r] /\ shown'[r] = shown[r] /\ replay'[r] = replay[r]
<1>1. link[r] = "on" => inbox'[r] = Append(inbox[r], m)
  BY DEF Delivered, Deliver
<1>2. link[r] # "on" => inbox'[r] = inbox[r]
  BY DEF Delivered, Deliver
<1>3. Elements(Append(inbox[r], m)) = Elements(inbox[r]) \cup {m}
  BY SnocElements DEF Typed, TypeOK
<1>4. pc' = pc /\ link' = link /\ shown' = shown /\ replay' = replay
  BY DEF Delivered
<1> QED BY <1>1, <1>2, <1>3, <1>4 DEF Has

LEMMA ViewerHasAllStep == Typed /\ BufferIsLog /\ ViewerHasAll /\ [Next]_vars => ViewerHasAll'
<1> SUFFICES ASSUME Typed, BufferIsLog, ViewerHasAll, [Next]_vars,
                    NEW v \in Viewers,
                    (pc[v] \in {"replay", "live"})', (link[v] = "on")', (v \notin late)', ~cleared'
             PROVE  1..next' - 1 \subseteq Has(v)'
  BY DEF ViewerHasAll
<1>t. v \in Readers /\ next \in 1..Last + 1 /\ Last \in Nat \ {0}
  BY LogAssumption DEF Typed, TypeOK, Readers
<1>1. ASSUME NEW m \in Messages, Delivered(m) PROVE 1..next' - 1 \subseteq Has(v)'
  <2>1. pc[v] \in {"replay", "live"} /\ link[v] = "on" /\ v \notin late /\ ~cleared
    BY <1>1 DEF Delivered
  <2>2. 1..next - 1 \subseteq Has(v) /\ Has(v)' = Has(v) \cup {m}
    BY <1>1, <1>t, <2>1, DeliveredHas DEF ViewerHasAll
  <2> QED BY <1>1, <1>t, <2>2 DEF Delivered
<1>2. CASE UNCHANGED <<readerVars, cleared, next>>
  BY <1>2 DEF ViewerHasAll, readerVars, Has
<1>3. ASSUME NEW r \in Readers, r # v, Acts(r) PROVE 1..next' - 1 \subseteq Has(v)'
  <2>1. Still(v) /\ v \notin late /\ next' = next /\ ~cleared
    BY <1>3, <1>t, OthersStandStill, ActsKeep
  <2>2. Has(v)' = Has(v)
    BY <2>1 DEF Still, Has
  <2> QED BY <2>1, <2>2 DEF Still, ViewerHasAll
<1>4. CASE Acts(v)
  <2>1. next' = next /\ ~cleared
    BY <1>4, <1>t, ActsKeep
  <2>2. CASE ReadBuffer(v)
    <3>1. replay'[v] = buffer
      BY <1>t, <2>2 DEF ReadBuffer, Typed, TypeOK
    <3>2. 1..next - 1 \subseteq Elements(buffer)
      BY <1>t, <2>1 DEF BufferIsLog, Pushed
    <3> QED BY <2>1, <3>1, <3>2 DEF Has
  <2>3. CASE ShowReplay(v) \/ ReplayEnds(v) \/ Hear(v)
    <3>1. Has(v)' = Has(v) /\ link[v] = "on"
      BY <1>t, <2>3, HandToHand
    <3>2. pc[v] \in {"replay", "live"} /\ v \notin late
      BY <2>3 DEF ShowReplay, ReplayEnds, Hear
    <3> QED BY <2>1, <3>1, <3>2 DEF ViewerHasAll
  <2>4. ~TakesEffect(v)
    BY <1>t DEF TakesEffect, Typed, TypeOK
  <2>5. ~(Open(v) \/ StartJob(v) \/ Subscribe(v) \/ ClearBuffer(v) \/ Leave(v) \/ JobTimesOut(v))
    BY <1>t DEF Open, StartJob, Subscribe, ClearBuffer, Leave, JobTimesOut, Drop, Goto, Typed, TypeOK
  <2> QED BY <1>4, <2>2, <2>3, <2>4, <2>5 DEF Acts, ReaderStep
<1> QED BY <1>1, <1>2, <1>3, <1>4, <1>t, StepOfReaders

\* Whatever the number of messages and of readers, a viewer that reads the list after
\* its subscription has taken effect misses nothing: at the reading the list holds all
\* that was published, and from then on the subscription does.
THEOREM NothingIsMissed == Spec => []ViewerHasAll
<1>1. Init => ViewerHasAll
  BY DEF Init, ViewerHasAll, Readers
<1> QED BY <1>1, TypedInit, TypedStep, BufferInit, BufferStep, ViewerHasAllStep, PTL DEF Spec

-----------------------------------------------------------------------------
(***************************************************************************)
(* What a reader has in its hands: nothing from a channel it does not hear,*)
(* nothing of the list but during the replay, nothing shown before it has  *)
(* read.                                                                   *)
(***************************************************************************)
ShowsNothingYet(r) ==
  \/ r \notin Listeners /\ pc[r] = "idle"
  \/ pc[r] = "read"
  \/ r \in Viewers /\ pc[r] = "ask"

Hands(r) ==
  /\ link[r] # "on" => inbox[r] = <<>>
  /\ pc[r] # "replay" => replay[r] = <<>>
  /\ ShowsNothingYet(r) => shown[r] = <<>>
  /\ r \notin Viewers => link[r] # "asked"
  /\ \/ pc[r] \in {"idle", "ask"}
     \/ r \notin Viewers /\ pc[r] \in {"read", "replay"}
     => link[r] = "none"

HandsInOrder == \A r \in Readers : Hands(r)

LEMMA HandsInit == Init => HandsInOrder
BY DEF Init, HandsInOrder, Hands

LEMMA HandsOfActs ==
  ASSUME Typed, NEW r \in Readers, Hands(r), Acts(r)
  PROVE  Hands(r)'
<1> USE DEF Typed, TypeOK, Hands, ShowsNothingYet
<1>0. (Viewers \cup Pages) \cap Listeners = {}
  BY LogAssumption
<1>1. CASE Open(r)
  <2>1. /\ link'[r] = link[r] /\ inbox'[r] = inbox[r] /\ replay'[r] = replay[r]
        /\ pc[r] = "idle"
    BY <1>1 DEF Open
  <2>2. \/ pc'[r] = "done"
        \/ pc'[r] \in {"ask", "read"} /\ shown'[r] = shown[r] /\ r \notin Listeners
    BY <1>0, <1>1 DEF Open, Goto
  <2> QED BY <2>1, <2>2
<1>2. CASE StartJob(r)
  BY <1>2 DEF StartJob, Goto
<1>3. CASE Subscribe(r)
  BY <1>3 DEF Subscribe, Goto
<1>4. CASE TakesEffect(r)
  BY <1>4 DEF TakesEffect
<1>5. CASE ReadBuffer(r)
  BY <1>5 DEF ReadBuffer, Goto
<1>6. CASE ShowReplay(r)
  <2>1. \/ /\ pc'[r] \in {"clear", "done"} /\ link'[r] = "none"
           /\ inbox'[r] = <<>> /\ replay'[r] = <<>>
        \/ pc'[r] = "replay" /\ link'[r] = link[r] /\ inbox'[r] = inbox[r]
    BY <1>6 DEF ShowReplay, Finish, Goto
  <2> QED BY <1>6, <2>1 DEF ShowReplay
<1>7. CASE ReplayEnds(r)
  <2>1. /\ link'[r] = link[r] /\ inbox'[r] = inbox[r] /\ replay'[r] = <<>>
        /\ \/ r \in Viewers /\ pc'[r] = "live"
           \/ r \notin Viewers /\ pc'[r] = "ask" /\ link[r] = "none"
    BY <1>7 DEF ReplayEnds, Goto
  <2> QED BY <2>1
<1>8. CASE Hear(r)
  <2>1. \/ /\ pc'[r] \in {"clear", "done"} /\ link'[r] = "none"
           /\ inbox'[r] = <<>> /\ replay'[r] = <<>>
        \/ pc'[r] = "live" /\ link'[r] = link[r] /\ link[r] = "on" /\ replay'[r] = replay[r]
    BY <1>8 DEF Hear, Finish, Goto
  <2> QED BY <1>8, <2>1 DEF Hear
<1>9. CASE ClearBuffer(r)
  BY <1>9 DEF ClearBuffer, Goto
<1>10. CASE Leave(r)
  BY <1>10 DEF Leave, Drop, Goto
<1>11. CASE JobTimesOut(r)
  <2>1. /\ link'[r] = "none" /\ inbox'[r] = <<>> /\ replay'[r] = <<>>
        /\ pc'[r] \in {"idle", "closed"} /\ r \in Listeners
    BY <1>11 DEF JobTimesOut, Drop, Goto
  <2> QED BY <1>0, <2>1
<1> QED
  BY <1>1, <1>2, <1>3, <1>4, <1>5, <1>6, <1>7, <1>8, <1>9, <1>10, <1>11 DEF Acts, ReaderStep

LEMMA HandsStep == Typed /\ HandsInOrder /\ [Next]_vars => HandsInOrder'
<1> SUFFICES ASSUME Typed, HandsInOrder, [Next]_vars, NEW r \in Readers PROVE Hands(r)'
  BY DEF HandsInOrder
<1>0. Hands(r)
  BY DEF HandsInOrder
<1>1. ASSUME NEW m \in Messages, Delivered(m) PROVE Hands(r)'
  BY <1>0, <1>1, DeliveredHas DEF Hands, ShowsNothingYet
<1>2. CASE UNCHANGED <<readerVars, cleared, next>>
  BY <1>0, <1>2 DEF Hands, ShowsNothingYet, readerVars
<1>3. ASSUME NEW q \in Readers, q # r, Acts(q) PROVE Hands(r)'
  BY <1>0, <1>3, OthersStandStill DEF Still, Hands, ShowsNothingYet
<1>4. CASE Acts(r)
  BY <1>0, <1>4, HandsOfActs
<1> QED BY <1>1, <1>2, <1>3, <1>4, StepOfReaders

-----------------------------------------------------------------------------
(***************************************************************************)
(* One gap.  Before its subscription a reader has a beginning of the log;  *)
(* with the subscription it has that and what comes; between the two lies  *)
(* the one piece it may miss.                                              *)
(***************************************************************************)
Reading(r) == pc[r] \in {"replay", "live"} \/ (r \notin Viewers /\ pc[r] = "ask")

Missed(r) == (1..next - 1) \ Has(r)

Gap(r) ==
  Reading(r) =>
    IF link[r] = "on"
      THEN \E first \in 1..next : \E last \in 0..next - 1 : Missed(r) = first..last
      ELSE \E b \in 0..next : Has(r) = 1..b

GapsAreSingle == ~cleared => \A r \in Readers : Gap(r)

LEMMA GapInit == Init => GapsAreSingle
BY DEF Init, GapsAreSingle, Gap, Reading

LEMMA GapOfDelivery ==
  ASSUME Typed, NEW r \in Readers, Gap(r), NEW m \in Messages, Delivered(m)
  PROVE  Gap(r)'
<1>t. next \in 1..Last + 1 /\ Last \in Nat \ {0} /\ m \in 1..Last
  BY LogAssumption DEF Typed, TypeOK, Messages
<1>1. pc'[r] = pc[r] /\ link'[r] = link[r] /\ (Reading(r)' <=> Reading(r))
  BY DeliveredHas DEF Reading
<1>2. SUFFICES ASSUME Reading(r)
      PROVE  IF link[r] = "on"
               THEN \E first \in 1..next' : \E last \in 0..next' - 1 : Missed(r)' = first..last
               ELSE \E b \in 0..next' : Has(r)' = 1..b
  BY <1>1 DEF Gap
<1>3. CASE link[r] # "on"
  <2>1. Has(r)' = Has(r) /\ (next' = next \/ next' = next + 1)
    BY <1>3, DeliveredHas DEF Delivered
  <2>2. PICK b \in 0..next : Has(r) = 1..b
    BY <1>2, <1>3 DEF Gap
  <2>3. b \in 0..next' /\ Has(r)' = 1..b
    BY <1>t, <2>1, <2>2
  <2> QED BY <1>3, <2>3
<1>4. CASE link[r] = "on"
  <2>1. Has(r)' = Has(r) \cup {m}
    BY <1>4, DeliveredHas
  <2>2. PICK first \in 1..next, last \in 0..next - 1 : Missed(r) = first..last
    BY <1>2, <1>4 DEF Gap
  <2>3. CASE m = next /\ next' = next + 1
    <3>1. Missed(r)' = first..last
      BY <1>t, <2>1, <2>2, <2>3 DEF Missed
    <3>2. first \in 1..next' /\ last \in 0..next' - 1
      BY <1>t, <2>3
    <3> QED BY <1>4, <3>1, <3>2
  <2>4. CASE m = Last /\ next' = next
    <3>1. Missed(r)' = (first..last) \ {Last}
      BY <2>1, <2>2, <2>4 DEF Missed
    <3>2. last <= Last
      BY <1>t
    <3>3. CASE last = Last
      <4>1. Missed(r)' = first..last - 1 /\ last - 1 \in 0..next' - 1
        BY <1>t, <2>4, <3>1, <3>3
      <4> QED BY <1>4, <2>4, <4>1
    <3>4. CASE last # Last
      <4>1. Missed(r)' = first..last
        BY <1>t, <3>1, <3>2, <3>4
      <4> QED BY <1>4, <2>4, <4>1
    <3> QED BY <3>3, <3>4
  <2> QED BY <2>3, <2>4 DEF Delivered
<1> QED BY <1>3, <1>4

LEMMA GapOfActs ==
  ASSUME Typed, BufferIsLog, NEW r \in Readers, Hands(r), Gap(r), Acts(r), ~cleared'
  PROVE  Gap(r)'
<1>t. /\ next \in 1..Last + 1 /\ Last \in Nat \ {0}
      /\ pc \in [Readers -> ReaderPc] /\ link \in [Readers -> {"none", "asked", "on"}]
  BY LogAssumption DEF Typed, TypeOK
<1>0. next' = next /\ ~cleared
  BY ActsKeep
<1>1. SUFFICES ASSUME Reading(r)' PROVE Gap(r)'
  BY DEF Gap
<1>2. CASE ReadBuffer(r)
  <2>1. replay'[r] = buffer /\ link'[r] = link[r] /\ inbox'[r] = inbox[r] /\ shown'[r] = <<>>
    BY <1>2 DEF ReadBuffer, Hands, ShowsNothingYet, Typed, TypeOK
  <2>2. Elements(buffer) = 1..Pushed /\ Pushed \in {next - 1, next}
    BY <1>0 DEF BufferIsLog, Pushed
  <2>3. CASE link[r] = "on"
    <3>1. Missed(r)' = 1..0
      BY <1>0, <1>t, <2>1, <2>2 DEF Missed, Has
    <3>2. 1 \in 1..next' /\ 0 \in 0..next' - 1
      BY <1>0, <1>t
    <3> QED BY <2>1, <2>3, <3>1, <3>2 DEF Gap
  <2>4. CASE link[r] # "on"
    <3>1. Has(r)' = 1..Pushed
      BY <2>1, <2>2, <2>4, EmptyFacts DEF Has, Hands
    <3>2. Pushed \in 0..next'
      BY <1>0, <1>t, <2>2
    <3> QED BY <2>1, <2>4, <3>1, <3>2 DEF Gap
  <2> QED BY <2>3, <2>4
<1>3. CASE ShowReplay(r) \/ ReplayEnds(r) \/ Hear(r)
  <2>1. Has(r)' = Has(r) /\ link'[r] = link[r]
    BY <1>1, <1>3, HandToHand DEF Reading
  <2>2. Reading(r)
    BY <1>3 DEF Reading, ShowReplay, ReplayEnds, Hear
  <2>3. Missed(r)' = Missed(r)
    BY <1>0, <2>1 DEF Missed
  <2> QED BY <1>0, <2>1, <2>2, <2>3 DEF Gap
<1>4. CASE Subscribe(r)
  <2>1. r \notin Viewers /\ pc[r] = "ask"
    BY <1>1, <1>4, <1>t DEF Reading, Subscribe, Goto
  <2>2. link'[r] = "on" /\ Has(r)' = Has(r)
    BY <1>4, <1>t, <2>1 DEF Subscribe, Has
  <2>3. PICK b \in 0..next : Has(r) = 1..b
    BY <2>1 DEF Gap, Reading, Hands
  <2>4. CASE b < next
    <3>1. Missed(r)' = b + 1..next - 1
      BY <1>0, <1>t, <2>2, <2>3, <2>4 DEF Missed
    <3>2. b + 1 \in 1..next' /\ next - 1 \in 0..next' - 1
      BY <1>0, <1>t, <2>3, <2>4
    <3> QED BY <2>2, <3>1, <3>2 DEF Gap
  <2>5. CASE b = next
    <3>1. Missed(r)' = 1..0
      BY <1>0, <1>t, <2>2, <2>3, <2>5 DEF Missed
    <3>2. 1 \in 1..next' /\ 0 \in 0..next' - 1
      BY <1>0, <1>t
    <3> QED BY <2>2, <3>1, <3>2 DEF Gap
  <2> QED BY <1>t, <2>4, <2>5
<1>5. CASE TakesEffect(r)
  <2>1. link'[r] = "on" /\ Has(r)' = Has(r) /\ link[r] # "on" /\ Reading(r)
    BY <1>1, <1>5, <1>t DEF TakesEffect, Has, Reading
  <2>3. PICK b \in 0..next : Has(r) = 1..b
    BY <2>1 DEF Gap
  <2>4. CASE b < next
    <3>1. Missed(r)' = b + 1..next - 1
      BY <1>0, <1>t, <2>1, <2>3, <2>4 DEF Missed
    <3>2. b + 1 \in 1..next' /\ next - 1 \in 0..next' - 1
      BY <1>0, <1>t, <2>3, <2>4
    <3> QED BY <2>1, <3>1, <3>2 DEF Gap
  <2>5. CASE b = next
    <3>1. Missed(r)' = 1..0
      BY <1>0, <1>t, <2>1, <2>3, <2>5 DEF Missed
    <3>2. 1 \in 1..next' /\ 0 \in 0..next' - 1
      BY <1>0, <1>t
    <3> QED BY <2>1, <3>1, <3>2 DEF Gap
  <2> QED BY <1>t, <2>4, <2>5
<1>6. ~(StartJob(r) \/ ClearBuffer(r) \/ Leave(r) \/ JobTimesOut(r))
  BY <1>1, <1>t DEF StartJob, ClearBuffer, Leave, JobTimesOut, Drop, Goto, Reading
<1>7. ~Open(r)
  <2>1. Open(r) => pc'[r] = "done" \/ pc'[r] = IF r \in Viewers THEN "ask" ELSE "read"
    BY <1>t DEF Open, Goto
  <2> QED BY <1>1, <2>1 DEF Reading
<1> QED BY <1>2, <1>3, <1>4, <1>5, <1>6, <1>7 DEF Acts, ReaderStep

LEMMA GapStep ==
  Typed /\ BufferIsLog /\ HandsInOrder /\ GapsAreSingle /\ [Next]_vars => GapsAreSingle'
<1> SUFFICES ASSUME Typed, BufferIsLog, HandsInOrder, GapsAreSingle, [Next]_vars, ~cleared',
                    NEW r \in Readers
             PROVE  Gap(r)'
  BY DEF GapsAreSingle
<1>1. ASSUME NEW m \in Messages, Delivered(m) PROVE Gap(r)'
  BY <1>1, GapOfDelivery DEF GapsAreSingle, Delivered
<1>2. CASE UNCHANGED <<readerVars, cleared, next>>
  BY <1>2 DEF GapsAreSingle, Gap, Reading, Missed, Has, readerVars
<1>3. ASSUME NEW q \in Readers, q # r, Acts(q) PROVE Gap(r)'
  <2>1. Still(r) /\ next' = next /\ ~cleared
    BY <1>3, OthersStandStill, ActsKeep
  <2>2. Gap(r) /\ Has(r)' = Has(r) /\ Missed(r)' = Missed(r) /\ (Reading(r)' <=> Reading(r))
    BY <2>1 DEF GapsAreSingle, Still, Has, Missed, Reading
  <2> QED BY <2>1, <2>2 DEF Gap, Still
<1>4. CASE Acts(r)
  BY <1>4, ActsKeep, GapOfActs DEF GapsAreSingle, HandsInOrder
<1> QED BY <1>1, <1>2, <1>3, <1>4, StepOfReaders

\* However late its subscription and however often a job starts again, what a live
\* reader misses is one piece of the log.
THEOREM MissedInOnePiece == Spec => []OneGap
<1>1. GapsAreSingle => OneGap
  BY DEF GapsAreSingle, Gap, Reading, Missed, OneGap
<1> QED
  BY <1>1, TypedInit, TypedStep, BufferInit, BufferStep, HandsInit, HandsStep, GapInit, GapStep,
     PTL DEF Spec

-----------------------------------------------------------------------------
(***************************************************************************)
(* Two runs.  What is replayed goes up to where the reader begins to live; *)
(* what it hears then goes up as well, up to a terminal message that may   *)
(* come early, from the panel, and ends it.                                *)
(***************************************************************************)
\* The first k of s go up, and the others.
Runs(s, k) ==
  /\ \A i, j \in 1..k : i < j => s[i] < s[j]
  /\ \A i, j \in k + 1..Len(s) : i < j => s[i] < s[j]

IncomingGoesUp(r) ==
  /\ \A i, j \in DOMAIN inbox[r] : i < j => inbox[r][i] < inbox[r][j] \/ inbox[r][i] = Last
  /\ \A i \in DOMAIN inbox[r] : inbox[r][i] < next \/ inbox[r][i] = Last

ReplayGoesUp(r) ==
  /\ Increasing(replay[r])
  /\ pc[r] \in {"replay", "ask"} => Increasing(shown[r])
  /\ pc[r] = "replay" =>
       \A i \in DOMAIN shown[r] : \A j \in DOMAIN replay[r] : shown[r][i] < replay[r][j]

\* The second run is below all that is still to come.
LiveFrom(r, k) ==
  \A i \in k + 1..Len(shown[r]) :
    /\ shown[r][i] < next /\ shown[r][i] < Last
    /\ \A j \in DOMAIN inbox[r] : shown[r][i] < inbox[r][j]

ShownGoesUpTwice(r) ==
  /\ \E k \in 0..Len(shown[r]) : Runs(shown[r], k)
  /\ pc[r] = "live" => \E k \in 0..Len(shown[r]) : Runs(shown[r], k) /\ LiveFrom(r, k)

Upward(r) == IncomingGoesUp(r) /\ ReplayGoesUp(r) /\ ShownGoesUpTwice(r)

AllGoUp == \A r \in Readers : Upward(r)

LEMMA RunsOfEmpty == Runs(<<>>, 0)
BY DEF Runs

LEMMA RunsOfIncreasing ==
  ASSUME NEW s \in Seq(Messages), Increasing(s)
  PROVE  Len(s) \in 0..Len(s) /\ Runs(s, Len(s))
<1>1. Len(s) \in Nat /\ DOMAIN s = 1..Len(s)
  BY LenProperties
<1>2. \A i \in Len(s) + 1..Len(s) : FALSE
  BY <1>1
<1> QED BY <1>1, <1>2 DEF Runs, Increasing

LEMMA RunsOfSnoc ==
  ASSUME NEW s \in Seq(Messages), NEW m \in Messages, NEW k \in 0..Len(s),
         Runs(s, k), \A i \in k + 1..Len(s) : s[i] < m
  PROVE  k \in 0..Len(Append(s, m)) /\ Runs(Append(s, m), k)
<1>1. Len(s) \in Nat /\ Len(Append(s, m)) = Len(s) + 1
  BY SnocFacts
<1>2. \A i \in 1..Len(s) : Append(s, m)[i] = s[i]
  BY SnocFacts
<1>3. Append(s, m)[Len(s) + 1] = m
  BY SnocFacts
<1>4. ASSUME NEW i \in 1..k, NEW j \in 1..k, i < j PROVE Append(s, m)[i] < Append(s, m)[j]
  <2>1. i \in 1..Len(s) /\ j \in 1..Len(s)
    BY <1>1
  <2> QED BY <1>2, <1>4, <2>1 DEF Runs
<1>5. ASSUME NEW i \in k + 1..Len(s) + 1, NEW j \in k + 1..Len(s) + 1, i < j
      PROVE  Append(s, m)[i] < Append(s, m)[j]
  <2>1. i \in k + 1..Len(s) /\ i \in 1..Len(s)
    BY <1>1, <1>5
  <2>2. CASE j = Len(s) + 1
    BY <1>2, <1>3, <2>1, <2>2
  <2>3. CASE j # Len(s) + 1
    <3>1. j \in k + 1..Len(s) /\ j \in 1..Len(s)
      BY <1>1, <2>3
    <3> QED BY <1>2, <1>5, <2>1, <3>1 DEF Runs
  <2> QED BY <2>2, <2>3
<1> QED BY <1>1, <1>4, <1>5 DEF Runs

LEMMA UpwardInit == Init => AllGoUp
<1> SUFFICES ASSUME Init, NEW r \in Readers PROVE Upward(r)
  BY DEF AllGoUp
<1>1. /\ pc[r] = "idle" /\ inbox[r] = <<>> /\ replay[r] = <<>> /\ shown[r] = <<>>
  BY DEF Init
<1>2. DOMAIN inbox[r] = {} /\ 0 \in 0..Len(shown[r])
  BY <1>1
<1> QED
  BY <1>1, <1>2, EmptyFacts, RunsOfEmpty
  DEF Upward, IncomingGoesUp, ReplayGoesUp, ShownGoesUpTwice

\* A delivered message is above all before it, or is the terminal one.
LEMMA UpwardOfDelivery ==
  ASSUME Typed, NEW r \in Readers, Hands(r), Upward(r), NEW m \in Messages, Delivered(m)
  PROVE  Upward(r)'
<1>t. /\ next \in 1..Last + 1 /\ Last \in Nat \ {0} /\ m \in 1..Last
      /\ inbox[r] \in Seq(Messages) /\ shown[r] \in Seq(Messages) /\ Len(shown[r]) \in Nat
      /\ \A i \in DOMAIN inbox[r] : inbox[r][i] \in 1..Last
      /\ \A i \in 1..Len(shown[r]) : shown[r][i] \in 1..Last
  BY LogAssumption DEF Typed, TypeOK, Messages
<1>1. pc'[r] = pc[r] /\ shown'[r] = shown[r] /\ replay'[r] = replay[r]
  BY DeliveredHas
<1>2. next <= next' /\ next' \in Nat
  BY <1>t DEF Delivered
<1>3. CASE link[r] # "on"
  <2>1. inbox'[r] = inbox[r] /\ inbox[r] = <<>>
    BY <1>3, DeliveredHas DEF Hands
  <2>2. DOMAIN inbox[r] = {}
    BY <2>1
  <2>3. IncomingGoesUp(r)' /\ ReplayGoesUp(r)'
    BY <1>1, <2>1, <2>2 DEF Upward, IncomingGoesUp, ReplayGoesUp
  <2>4. ASSUME NEW k \in 0..Len(shown[r]), LiveFrom(r, k) PROVE LiveFrom(r, k)'
    <3>1. \A i \in k + 1..Len(shown[r]) : shown[r][i] < next' /\ shown[r][i] < Last
      BY <1>t, <1>2, <2>4 DEF LiveFrom
    <3> QED BY <1>1, <2>1, <2>2, <3>1 DEF LiveFrom
  <2>5. ShownGoesUpTwice(r)'
    BY <1>1, <2>4 DEF Upward, ShownGoesUpTwice
  <2> QED BY <2>3, <2>5 DEF Upward
<1>4. CASE link[r] = "on"
  <2>1. inbox'[r] = Append(inbox[r], m)
    BY <1>4, DeliveredHas
  <2>2. /\ Len(inbox[r]) \in Nat /\ DOMAIN inbox[r] = 1..Len(inbox[r])
        /\ DOMAIN inbox'[r] = 1..Len(inbox[r]) + 1
        /\ \A i \in 1..Len(inbox[r]) : inbox'[r][i] = inbox[r][i]
        /\ inbox'[r][Len(inbox[r]) + 1] = m
    BY <1>t, <2>1, SnocFacts
  <2>3. \A i \in 1..Len(inbox[r]) : inbox[r][i] < m \/ inbox[r][i] = Last
    <3>1. m = next \/ m = Last
      BY DEF Delivered
    <3>2. \A i \in 1..Len(inbox[r]) : inbox[r][i] \in 1..Last
      BY <1>t, <2>2
    <3>3. \A i \in 1..Len(inbox[r]) : inbox[r][i] < next \/ inbox[r][i] = Last
      BY <2>2 DEF Upward, IncomingGoesUp
    <3> QED BY <1>t, <3>1, <3>2, <3>3
  <2>4. m < next' \/ m = Last
    BY <1>t DEF Delivered
  <2>5. IncomingGoesUp(r)'
    <3>1. ASSUME NEW i \in 1..Len(inbox[r]) + 1, NEW j \in 1..Len(inbox[r]) + 1, i < j
          PROVE  inbox'[r][i] < inbox'[r][j] \/ inbox'[r][i] = Last
      <4>1. i \in 1..Len(inbox[r]) /\ inbox'[r][i] = inbox[r][i]
        BY <2>2, <3>1
      <4>2. CASE j = Len(inbox[r]) + 1
        BY <2>2, <2>3, <4>1, <4>2
      <4>3. CASE j # Len(inbox[r]) + 1
        <5>1. j \in 1..Len(inbox[r]) /\ inbox'[r][j] = inbox[r][j]
          BY <2>2, <4>3
        <5> QED BY <2>2, <3>1, <4>1, <5>1 DEF Upward, IncomingGoesUp
      <4> QED BY <4>2, <4>3
    <3>2. ASSUME NEW i \in 1..Len(inbox[r]) + 1
          PROVE  inbox'[r][i] < next' \/ inbox'[r][i] = Last
      <4>1. CASE i = Len(inbox[r]) + 1
        BY <2>2, <2>4, <4>1
      <4>2. CASE i # Len(inbox[r]) + 1
        <5>1. i \in DOMAIN inbox[r] /\ inbox'[r][i] = inbox[r][i]
          BY <2>2, <4>2
        <5>2. inbox[r][i] < next \/ inbox[r][i] = Last
          BY <5>1 DEF Upward, IncomingGoesUp
        <5> QED BY <1>t, <1>2, <5>1, <5>2
      <4> QED BY <4>1, <4>2
    <3> QED BY <2>2, <3>1, <3>2 DEF IncomingGoesUp
  <2>6. ReplayGoesUp(r)'
    BY <1>1 DEF Upward, ReplayGoesUp
  <2>7. ASSUME NEW k \in 0..Len(shown[r]), LiveFrom(r, k) PROVE LiveFrom(r, k)'
    <3>1. ASSUME NEW i \in k + 1..Len(shown[r])
          PROVE  /\ shown[r][i] < next' /\ shown[r][i] < Last
                 /\ \A j \in DOMAIN inbox'[r] : shown[r][i] < inbox'[r][j]
      <4>1. /\ shown[r][i] < next /\ shown[r][i] < Last
            /\ \A j \in DOMAIN inbox[r] : shown[r][i] < inbox[r][j]
        BY <2>7 DEF LiveFrom
      <4>2. shown[r][i] \in 1..Last
        BY <1>t
      <4>3. shown[r][i] < m
        BY <4>1 DEF Delivered
      <4>4. ASSUME NEW j \in 1..Len(inbox[r]) + 1 PROVE shown[r][i] < inbox'[r][j]
        <5>1. CASE j = Len(inbox[r]) + 1
          BY <2>2, <4>3, <5>1
        <5>2. CASE j # Len(inbox[r]) + 1
          <6>1. j \in DOMAIN inbox[r] /\ inbox'[r][j] = inbox[r][j]
            BY <2>2, <5>2
          <6> QED BY <4>1, <6>1
        <5> QED BY <5>1, <5>2
      <4> QED BY <1>t, <1>2, <2>2, <4>1, <4>2, <4>4
    <3> QED BY <1>1, <3>1 DEF LiveFrom
  <2>8. ShownGoesUpTwice(r)'
    BY <1>1, <2>7 DEF Upward, ShownGoesUpTwice
  <2> QED BY <2>5, <2>6, <2>8 DEF Upward
<1> QED BY <1>3, <1>4

\* A reader that has nothing in its hands from now on, or is where nothing is asked of
\* its hands, has only shown what goes up twice.
LEMMA UpwardAtRest ==
  ASSUME NEW r \in Readers, inbox'[r] = <<>>, replay'[r] = <<>>,
         pc'[r] \notin {"replay", "ask", "live"},
         \E k \in 0..Len(shown'[r]) : Runs(shown'[r], k)
  PROVE  Upward(r)'
<1>1. DOMAIN inbox'[r] = {}
  OBVIOUS
<1> QED BY <1>1, EmptyFacts DEF Upward, IncomingGoesUp, ReplayGoesUp, ShownGoesUpTwice

\* ... and one whose channel stands still keeps what comes from it.
LEMMA IncomingStill ==
  ASSUME NEW r \in Readers, inbox'[r] = inbox[r], next' = next, IncomingGoesUp(r)
  PROVE  IncomingGoesUp(r)'
BY DEF IncomingGoesUp

LEMMA UpwardOfActs ==
  ASSUME Typed, BufferIsLog, NEW r \in Readers, Hands(r), Upward(r), Acts(r)
  PROVE  Upward(r)'
<1>t. /\ next \in 1..Last + 1 /\ Last \in Nat \ {0} /\ next' = next
      /\ inbox[r] \in Seq(Messages) /\ shown[r] \in Seq(Messages) /\ replay[r] \in Seq(Messages)
      /\ Len(shown[r]) \in Nat
  BY LogAssumption, ActsKeep DEF Typed, TypeOK
<1>u. IncomingGoesUp(r) /\ ReplayGoesUp(r) /\ ShownGoesUpTwice(r)
  BY DEF Upward
<1>v. (Viewers \cup Pages) \cap Listeners = {}
  BY LogAssumption
<1>e. DOMAIN <<>> = {} /\ <<>> \in Seq(Messages) /\ Len(<<>>) = 0
  OBVIOUS
<1>1. CASE Open(r)
  <2>1. /\ link'[r] = link[r] /\ inbox'[r] = inbox[r] /\ replay'[r] = replay[r]
        /\ pc[r] = "idle" /\ r \notin Listeners
    BY <1>1, <1>v DEF Open
  <2>2. inbox[r] = <<>> /\ replay[r] = <<>> /\ shown[r] = <<>>
    BY <2>1 DEF Hands, ShowsNothingYet
  <2>3. CASE row = "terminal"
    <3>1. pc'[r] = "done"
      BY <1>1, <2>3 DEF Open, Goto, Typed, TypeOK
    <3>2. shown'[r] = <<>> \o (IF logs THEN [m \in Messages |-> m] ELSE <<Last>>)
      BY <1>1, <2>2, <2>3 DEF Open, ShowNow, Typed, TypeOK
    <3>3. CASE logs
      <4>1. [m \in Messages |-> m] \in Seq(Messages)
        BY <1>t, SeqDef DEF Messages
      <4>2. shown'[r] = [m \in Messages |-> m]
        BY <3>2, <3>3, <4>1, ConcatEmptySeq
      <4>3. Increasing(shown'[r])
        BY <4>2 DEF Increasing
      <4> QED BY <2>1, <2>2, <3>1, <4>1, <4>2, <4>3, RunsOfIncreasing, UpwardAtRest
    <3>4. CASE ~logs
      <4>1. <<Last>> \in Seq(Messages)
        BY <1>t DEF Messages
      <4>2. shown'[r] = <<Last>>
        BY <3>2, <3>4, <4>1, ConcatEmptySeq
      <4>3. Increasing(shown'[r])
        BY <4>2 DEF Increasing
      <4> QED BY <2>1, <2>2, <3>1, <4>1, <4>2, <4>3, RunsOfIncreasing, UpwardAtRest
    <3> QED BY <3>3, <3>4
  <2>4. CASE row = "active"
    <3>1. pc'[r] \in {"ask", "read"} /\ shown'[r] = <<>>
      BY <1>1, <2>2, <2>4 DEF Open, Goto, Typed, TypeOK
    <3>2. IncomingGoesUp(r)'
      BY <1>t, <1>u, <2>1, IncomingStill
    <3>3. ReplayGoesUp(r)'
      BY <2>1, <2>2, <3>1, EmptyFacts DEF ReplayGoesUp
    <3>4. ShownGoesUpTwice(r)'
      BY <1>e, <3>1, RunsOfEmpty DEF ShownGoesUpTwice
    <3> QED BY <3>2, <3>3, <3>4 DEF Upward
  <2> QED BY <1>1, <2>3, <2>4 DEF Open
<1>2. CASE StartJob(r)
  <2>1. /\ inbox'[r] = inbox[r] /\ replay'[r] = replay[r] /\ replay[r] = <<>>
        /\ pc'[r] = "read" /\ shown'[r] = <<>>
    BY <1>2 DEF StartJob, Goto, Hands, Typed, TypeOK
  <2>2. IncomingGoesUp(r)'
    BY <1>t, <1>u, <2>1, IncomingStill
  <2>3. ReplayGoesUp(r)'
    BY <2>1, EmptyFacts DEF ReplayGoesUp
  <2>4. ShownGoesUpTwice(r)'
    BY <1>e, <2>1, RunsOfEmpty DEF ShownGoesUpTwice
  <2> QED BY <2>2, <2>3, <2>4 DEF Upward
<1>3. CASE Subscribe(r)
  <2>1. /\ inbox'[r] = inbox[r] /\ replay'[r] = replay[r] /\ shown'[r] = shown[r]
        /\ pc[r] = "ask" /\ pc'[r] = IF r \in Viewers THEN "read" ELSE "live"
        /\ inbox[r] = <<>>
    BY <1>3 DEF Subscribe, Goto, Hands, Typed, TypeOK
  <2>2. IncomingGoesUp(r)'
    BY <1>t, <1>u, <2>1, IncomingStill
  <2>3. ReplayGoesUp(r)'
    BY <1>u, <2>1 DEF ReplayGoesUp
  <2>4. Len(shown'[r]) \in 0..Len(shown'[r]) /\ Runs(shown'[r], Len(shown'[r]))
    BY <1>t, <1>u, <2>1, RunsOfIncreasing DEF ReplayGoesUp
  <2>5. LiveFrom(r, Len(shown[r]))'
    <3>1. \A i \in Len(shown[r]) + 1..Len(shown[r]) : FALSE
      BY <1>t
    <3> QED BY <2>1, <3>1 DEF LiveFrom
  <2>6. ShownGoesUpTwice(r)'
    BY <2>1, <2>4, <2>5 DEF ShownGoesUpTwice
  <2> QED BY <2>2, <2>3, <2>6 DEF Upward
<1>4. CASE TakesEffect(r)
  <2>1. /\ inbox'[r] = inbox[r] /\ replay'[r] = replay[r] /\ shown'[r] = shown[r]
        /\ pc'[r] = pc[r]
    BY <1>4 DEF TakesEffect
  <2> QED BY <1>t, <1>u, <2>1
          DEF Upward, IncomingGoesUp, ReplayGoesUp, ShownGoesUpTwice, LiveFrom
<1>5. CASE ReadBuffer(r)
  <2>1. /\ inbox'[r] = inbox[r] /\ replay'[r] = buffer /\ shown'[r] = <<>>
        /\ pc'[r] = "replay"
    BY <1>5 DEF ReadBuffer, Goto, Hands, ShowsNothingYet, Typed, TypeOK
  <2>2. IncomingGoesUp(r)'
    BY <1>t, <1>u, <2>1, IncomingStill
  <2>3. ReplayGoesUp(r)'
    BY <1>e, <2>1, EmptyFacts DEF ReplayGoesUp, BufferIsLog
  <2>4. ShownGoesUpTwice(r)'
    BY <1>e, <2>1, RunsOfEmpty DEF ShownGoesUpTwice
  <2> QED BY <2>2, <2>3, <2>4 DEF Upward
<1>6. CASE ShowReplay(r)
  <2>1. pc[r] = "replay" /\ replay[r] # <<>> /\ shown'[r] = Append(shown[r], Head(replay[r]))
    BY <1>6, <1>t, OneOver DEF ShowReplay, ShowNow, Typed, TypeOK
  <2>2. /\ Head(replay[r]) \in Messages /\ Head(replay[r]) = replay[r][1] /\ 1 \in DOMAIN replay[r]
        /\ Tail(replay[r]) \in Seq(Messages)
    BY <1>t, <2>1, TailFacts
  <2>3. Increasing(shown[r]) /\ Increasing(replay[r])
    BY <1>u, <2>1 DEF ReplayGoesUp
  <2>4. \A i \in DOMAIN shown[r] : shown[r][i] < Head(replay[r])
    BY <1>u, <2>1, <2>2 DEF ReplayGoesUp
  <2>5. Increasing(shown'[r]) /\ shown'[r] \in Seq(Messages)
    BY <1>t, <2>1, <2>2, <2>3, <2>4, SnocIncreasing, SnocFacts
  <2>6. Len(shown'[r]) \in 0..Len(shown'[r]) /\ Runs(shown'[r], Len(shown'[r]))
    BY <2>5, RunsOfIncreasing
  <2>7. CASE Head(replay[r]) = Last
    <3>1. inbox'[r] = <<>> /\ replay'[r] = <<>> /\ pc'[r] \in {"clear", "done"}
      BY <1>6, <2>7 DEF ShowReplay, Finish, Goto, Typed, TypeOK
    <3> QED BY <2>6, <3>1, UpwardAtRest
  <2>8. CASE Head(replay[r]) # Last
    <3>1. inbox'[r] = inbox[r] /\ replay'[r] = Tail(replay[r]) /\ pc'[r] = "replay"
      BY <1>6, <2>1, <2>8 DEF ShowReplay, Typed, TypeOK
    <3>2. IncomingGoesUp(r)'
      BY <1>t, <1>u, <3>1, IncomingStill
    <3>3. /\ Increasing(Tail(replay[r]))
          /\ \A j \in DOMAIN Tail(replay[r]) : Head(replay[r]) < Tail(replay[r])[j]
      BY <1>t, <2>1, <2>3, TailIncreasing
    <3>4. ASSUME NEW i \in DOMAIN shown'[r], NEW j \in DOMAIN Tail(replay[r])
          PROVE  shown'[r][i] < Tail(replay[r])[j]
      <4>1. /\ DOMAIN shown'[r] = 1..Len(shown[r]) + 1 /\ DOMAIN shown[r] = 1..Len(shown[r])
            /\ \A n \in 1..Len(shown[r]) : shown'[r][n] = shown[r][n]
            /\ shown'[r][Len(shown[r]) + 1] = Head(replay[r])
        BY <1>t, <2>1, <2>2, SnocFacts
      <4>2. CASE i = Len(shown[r]) + 1
        BY <3>3, <4>1, <4>2
      <4>3. CASE i # Len(shown[r]) + 1
        <5>1. i \in DOMAIN shown[r] /\ shown'[r][i] = shown[r][i]
          BY <1>t, <4>1, <4>3
        <5>2. j + 1 \in DOMAIN replay[r] /\ Tail(replay[r])[j] = replay[r][j + 1]
          BY <1>t, <2>1, TailFacts
        <5> QED BY <1>u, <2>1, <5>1, <5>2 DEF ReplayGoesUp
      <4> QED BY <4>2, <4>3
    <3>5. ReplayGoesUp(r)'
      BY <2>5, <3>1, <3>3, <3>4 DEF ReplayGoesUp
    <3>6. ShownGoesUpTwice(r)'
      BY <2>6, <3>1 DEF ShownGoesUpTwice
    <3> QED BY <3>2, <3>5, <3>6 DEF Upward
  <2> QED BY <2>7, <2>8
<1>7. CASE ReplayEnds(r)
  <2>1. /\ inbox'[r] = inbox[r] /\ replay'[r] = replay[r] /\ shown'[r] = shown[r]
        /\ pc[r] = "replay" /\ pc'[r] \in {"live", "ask"}
    BY <1>7 DEF ReplayEnds, Goto, Typed, TypeOK
  <2>2. IncomingGoesUp(r)'
    BY <1>t, <1>u, <2>1, IncomingStill
  <2>3. ReplayGoesUp(r)'
    BY <1>u, <2>1 DEF ReplayGoesUp
  <2>4. Len(shown'[r]) \in 0..Len(shown'[r]) /\ Runs(shown'[r], Len(shown'[r]))
    BY <1>t, <1>u, <2>1, RunsOfIncreasing DEF ReplayGoesUp
  <2>5. LiveFrom(r, Len(shown[r]))'
    <3>1. \A i \in Len(shown[r]) + 1..Len(shown[r]) : FALSE
      BY <1>t
    <3> QED BY <2>1, <3>1 DEF LiveFrom
  <2>6. ShownGoesUpTwice(r)'
    BY <2>1, <2>4, <2>5 DEF ShownGoesUpTwice
  <2> QED BY <2>2, <2>3, <2>6 DEF Upward
<1>8. CASE Hear(r)
  <2>1. pc[r] = "live" /\ inbox[r] # <<>> /\ shown'[r] = Append(shown[r], Head(inbox[r]))
    BY <1>8, <1>t, OneOver DEF Hear, ShowNow, Typed, TypeOK
  <2>2. /\ Head(inbox[r]) \in Messages /\ Head(inbox[r]) = inbox[r][1] /\ 1 \in DOMAIN inbox[r]
    BY <1>t, <2>1, TailFacts
  <2>3. PICK k \in 0..Len(shown[r]) : Runs(shown[r], k) /\ LiveFrom(r, k)
    BY <1>u, <2>1 DEF ShownGoesUpTwice
  <2>4. \A i \in k + 1..Len(shown[r]) : shown[r][i] < Head(inbox[r])
    BY <2>2, <2>3 DEF LiveFrom
  <2>5. k \in 0..Len(shown'[r]) /\ Runs(shown'[r], k)
    BY <1>t, <2>1, <2>2, <2>3, <2>4, RunsOfSnoc
  <2>6. CASE Head(inbox[r]) = Last
    <3>1. inbox'[r] = <<>> /\ replay'[r] = <<>> /\ pc'[r] \in {"clear", "done"}
      BY <1>8, <2>6 DEF Hear, Finish, Goto, Typed, TypeOK
    <3> QED BY <2>5, <3>1, UpwardAtRest
  <2>7. CASE Head(inbox[r]) # Last
    <3>1. inbox'[r] = Tail(inbox[r]) /\ replay'[r] = replay[r] /\ pc'[r] = "live"
      BY <1>8, <2>1, <2>7 DEF Hear, Typed, TypeOK
    <3>2. \A i \in DOMAIN Tail(inbox[r]) : i + 1 \in DOMAIN inbox[r] /\ Tail(inbox[r])[i] = inbox[r][i + 1]
      BY <1>t, <2>1, TailFacts
    <3>3. DOMAIN inbox[r] \subseteq Nat \ {0} /\ DOMAIN Tail(inbox[r]) \subseteq Nat \ {0}
      BY <1>t, <2>1, TailFacts
    <3>4. IncomingGoesUp(r)'
      <4>1. ASSUME NEW i \in DOMAIN Tail(inbox[r]), NEW j \in DOMAIN Tail(inbox[r]), i < j
            PROVE  Tail(inbox[r])[i] < Tail(inbox[r])[j] \/ Tail(inbox[r])[i] = Last
        <5>1. i + 1 < j + 1 /\ i + 1 \in DOMAIN inbox[r] /\ j + 1 \in DOMAIN inbox[r]
          BY <3>2, <3>3, <4>1
        <5> QED BY <1>u, <3>2, <5>1 DEF IncomingGoesUp
      <4>2. \A i \in DOMAIN Tail(inbox[r]) : Tail(inbox[r])[i] < next \/ Tail(inbox[r])[i] = Last
        BY <1>u, <3>2 DEF IncomingGoesUp
      <4> QED BY <1>t, <3>1, <4>1, <4>2 DEF IncomingGoesUp
    <3>5. ReplayGoesUp(r)'
      BY <1>u, <3>1 DEF ReplayGoesUp
    <3>6. \A j \in DOMAIN Tail(inbox[r]) : Head(inbox[r]) < Tail(inbox[r])[j]
      <4>1. ASSUME NEW j \in DOMAIN Tail(inbox[r]) PROVE Head(inbox[r]) < Tail(inbox[r])[j]
        <5>1. 1 < j + 1 /\ j + 1 \in DOMAIN inbox[r]
          BY <3>2, <3>3
        <5> QED BY <1>u, <2>2, <2>7, <3>2, <5>1 DEF IncomingGoesUp
      <4> QED BY <4>1
    <3>7. Head(inbox[r]) < next /\ Head(inbox[r]) < Last
      BY <1>t, <1>u, <2>2, <2>7 DEF IncomingGoesUp, Messages
    <3>8. LiveFrom(r, k)'
      <4>1. /\ Len(shown'[r]) = Len(shown[r]) + 1
            /\ \A n \in 1..Len(shown[r]) : shown'[r][n] = shown[r][n]
            /\ shown'[r][Len(shown[r]) + 1] = Head(inbox[r])
        BY <1>t, <2>1, <2>2, SnocFacts
      <4>2. ASSUME NEW i \in k + 1..Len(shown[r]) + 1
            PROVE  /\ shown'[r][i] < next /\ shown'[r][i] < Last
                   /\ \A j \in DOMAIN Tail(inbox[r]) : shown'[r][i] < Tail(inbox[r])[j]
        <5>1. CASE i = Len(shown[r]) + 1
          BY <3>6, <3>7, <4>1, <5>1
        <5>2. CASE i # Len(shown[r]) + 1
          <6>1. i \in k + 1..Len(shown[r]) /\ i \in 1..Len(shown[r])
            BY <1>t, <5>2
          <6> QED BY <2>3, <3>2, <4>1, <6>1 DEF LiveFrom
        <5> QED BY <5>1, <5>2
      <4> QED BY <1>t, <3>1, <4>1, <4>2 DEF LiveFrom
    <3>9. ShownGoesUpTwice(r)'
      BY <2>5, <3>8 DEF ShownGoesUpTwice
    <3> QED BY <3>4, <3>5, <3>9 DEF Upward
  <2> QED BY <2>6, <2>7
<1>9. CASE ClearBuffer(r)
  <2>1. /\ inbox'[r] = inbox[r] /\ replay'[r] = replay[r] /\ shown'[r] = shown[r]
        /\ pc'[r] = "done"
    BY <1>9 DEF ClearBuffer, Goto, Typed, TypeOK
  <2> QED BY <1>t, <1>u, <2>1
          DEF Upward, IncomingGoesUp, ReplayGoesUp, ShownGoesUpTwice
<1>10. CASE Leave(r) \/ JobTimesOut(r)
  <2>1. /\ inbox'[r] = <<>> /\ replay'[r] = <<>> /\ shown'[r] = shown[r]
        /\ pc'[r] \in {"idle", "closed"}
    BY <1>10 DEF Leave, JobTimesOut, Drop, Goto, Typed, TypeOK
  <2> QED BY <1>u, <2>1, UpwardAtRest DEF ShownGoesUpTwice
<1> QED
  BY <1>1, <1>2, <1>3, <1>4, <1>5, <1>6, <1>7, <1>8, <1>9, <1>10 DEF Acts, ReaderStep

LEMMA UpwardStep == Typed /\ BufferIsLog /\ HandsInOrder /\ AllGoUp /\ [Next]_vars => AllGoUp'
<1> SUFFICES ASSUME Typed, BufferIsLog, HandsInOrder, AllGoUp, [Next]_vars, NEW r \in Readers
             PROVE  Upward(r)'
  BY DEF AllGoUp
<1>0. Hands(r) /\ Upward(r)
  BY DEF HandsInOrder, AllGoUp
<1>1. ASSUME NEW m \in Messages, Delivered(m) PROVE Upward(r)'
  BY <1>0, <1>1, UpwardOfDelivery
<1>2. CASE UNCHANGED <<readerVars, cleared, next>>
  BY <1>0, <1>2
  DEF Upward, IncomingGoesUp, ReplayGoesUp, ShownGoesUpTwice, LiveFrom, readerVars
<1>3. ASSUME NEW q \in Readers, q # r, Acts(q) PROVE Upward(r)'
  <2>1. Still(r) /\ next' = next
    BY <1>3, OthersStandStill, ActsKeep
  <2> QED BY <1>0, <2>1
          DEF Still, Upward, IncomingGoesUp, ReplayGoesUp, ShownGoesUpTwice, LiveFrom
<1>4. CASE Acts(r)
  BY <1>0, <1>4, UpwardOfActs
<1> QED BY <1>1, <1>2, <1>3, <1>4, StepOfReaders

\* Runs says of positions what TwoRuns says of the parts of the sequence.
LEMMA RunsArePartsGoingUp ==
  ASSUME NEW s \in Seq(Messages), NEW k \in 0..Len(s), Runs(s, k)
  PROVE  Increasing(SubSeq(s, 1, k)) /\ Increasing(SubSeq(s, k + 1, Len(s)))
<1>1. Len(s) \in Nat /\ DOMAIN s = 1..Len(s)
  BY LenProperties
<1>2. /\ DOMAIN SubSeq(s, 1, k) = 1..k
      /\ \A i \in 1..k : SubSeq(s, 1, k)[i] = s[i]
  BY <1>1
<1>3. /\ DOMAIN SubSeq(s, k + 1, Len(s)) = 1..Len(s) - k
      /\ \A i \in 1..Len(s) - k : SubSeq(s, k + 1, Len(s))[i] = s[k + i]
  BY <1>1
<1>4. Increasing(SubSeq(s, 1, k))
  BY <1>2 DEF Increasing, Runs
<1>5. ASSUME NEW i \in 1..Len(s) - k, NEW j \in 1..Len(s) - k, i < j
      PROVE  s[k + i] < s[k + j]
  <2>1. k + i \in k + 1..Len(s) /\ k + j \in k + 1..Len(s) /\ k + i < k + j
    BY <1>1, <1>5
  <2> QED BY <2>1 DEF Runs
<1> QED BY <1>3, <1>4, <1>5 DEF Increasing

\* However the channel, the list, the panel's own signal and the restarts of a job fall
\* together, what a reader shows is in the order of publication but for one step back,
\* so no message is shown three times.
THEOREM ShownInTwoRuns == Spec => []TwoRuns
<1>1. Typed /\ AllGoUp => TwoRuns
  <2> SUFFICES ASSUME Typed, AllGoUp, NEW r \in Readers
               PROVE  \E k \in 0..Len(shown[r]) :
                        /\ Increasing(SubSeq(shown[r], 1, k))
                        /\ Increasing(SubSeq(shown[r], k + 1, Len(shown[r])))
    BY DEF TwoRuns
  <2>1. shown[r] \in Seq(Messages)
    BY DEF Typed, TypeOK
  <2>2. PICK k \in 0..Len(shown[r]) : Runs(shown[r], k)
    BY DEF AllGoUp, Upward, ShownGoesUpTwice
  <2> QED BY <2>1, <2>2, RunsArePartsGoingUp
<1> QED
  BY <1>1, TypedInit, TypedStep, BufferInit, BufferStep, HandsInit, HandsStep, UpwardInit,
     UpwardStep, PTL DEF Spec

=============================================================================
