--------------------------- MODULE LogViewerProofs ---------------------------
(***************************************************************************)
(* What holds of LogViewer for every log, every log of another deployment, *)
(* every first part of lines and every number of attempts and of broken    *)
(* connections: the five invariants that its run checks.  The component's  *)
(* methods come first, as what they do to its fields; then, once for all,  *)
(* what the steps of the system do to the component.                       *)
(***************************************************************************)
EXTENDS LogViewer, SequenceTheorems, WellFoundedInduction, TLAPS

-----------------------------------------------------------------------------
(***************************************************************************)
(* Messages.                                                               *)
(***************************************************************************)
LEMMA OwnFacts ==
  /\ Len(Own) \in Nat \ {0} /\ DOMAIN Own = 1..Len(Own)
  /\ \A i \in 1..Len(Own) : Own[i] \in Message /\ Own[i] \in Messages
  /\ \A i \in 1..Len(Own) : Own[i].kind = "status" <=> i = Len(Own)
  /\ Own[Len(Own)].kind = "status" /\ Own[Len(Own)].text = End
  /\ End \in TerminalStatuses
<1>1. Len(Own) \in Nat \ {0} /\ DOMAIN Own = 1..Len(Own)
  BY ViewerAssumption
<1>2. \A i \in 1..Len(Own) : Own[i] \in Message /\ Own[i] \in Messages
  BY <1>1, ViewerAssumption DEF Messages, ToSet
<1>3. \A i \in 1..Len(Own) : Own[i].kind = "status" <=> i = Len(Own)
  BY <1>1, ViewerAssumption
<1>4. Own[Len(Own)].text = End
  BY DEF End
<1>5. End \in TerminalStatuses
  BY DEF TerminalStatuses
<1>6. Len(Own) \in 1..Len(Own)
  BY <1>1
<1>7. Own[Len(Own)].kind = "status"
  BY <1>3, <1>6
<1> QED BY <1>1, <1>2, <1>3, <1>4, <1>5, <1>7

LEMMA OtherFacts ==
  /\ Len(Other) \in Nat \ {0} /\ DOMAIN Other = 1..Len(Other)
  /\ \A i \in 1..Len(Other) : Other[i] \in Message /\ Other[i] \in Messages
  /\ \A i \in 1..Len(Other) : Other[i].kind = "status" <=> i = Len(Other)
  /\ Other[Len(Other)].text \in TerminalStatuses
<1>1. Len(Other) \in Nat \ {0} /\ DOMAIN Other = 1..Len(Other)
  BY ViewerAssumption
<1>2. \A i \in 1..Len(Other) : Other[i] \in Message /\ Other[i] \in Messages
  BY <1>1, ViewerAssumption DEF Messages, ToSet
<1>3. \A i \in 1..Len(Other) : Other[i].kind = "status" <=> i = Len(Other)
  BY <1>1, ViewerAssumption
<1>4. Other[Len(Other)].text \in TerminalStatuses
  BY DEF TerminalStatuses
<1> QED BY <1>1, <1>2, <1>3, <1>4

LEMMA Lengths == Len(Own) \in Nat \ {0} /\ Len(Other) \in Nat \ {0}
BY OwnFacts, OtherFacts

LEMMA LastIsOwn == Own[Len(Own)] \in Messages
<1>1. Len(Own) \in 1..Len(Own)
  BY Lengths
<1> QED BY <1>1, OwnFacts

LEMMA MessageFacts ==
  ASSUME NEW m \in Messages
  PROVE  /\ m \in Message
         /\ m.kind = "status" => m.text \in TerminalStatuses
         /\ m.kind # "status" => m.kind \in {"log", "stage"} /\ m.text \in Lines
         /\ m \in Frame
<1>1. (\E i \in 1..Len(Own) : m = Own[i]) \/ (\E i \in 1..Len(Other) : m = Other[i])
  BY OwnFacts, OtherFacts DEF Messages, ToSet
<1>2. m \in Message /\ (m.kind = "status" => m.text \in TerminalStatuses)
  BY <1>1, OwnFacts, OtherFacts
<1>3. m.kind # "status" => m.text \in Lines
  BY DEF Lines
<1>4. m = [kind |-> m.kind, text |-> m.text] /\ m.kind \in {"log", "stage", "status"}
  BY <1>2 DEF Message
<1> QED BY <1>2, <1>3, <1>4 DEF Frame

\* A sequence with one more element.
LEMMA SnocFacts ==
  ASSUME NEW S, NEW s \in Seq(S), NEW m \in S
  PROVE  /\ Append(s, m) \in Seq(S)
         /\ Len(s) \in Nat /\ Len(Append(s, m)) = Len(s) + 1
         /\ DOMAIN s = 1..Len(s) /\ DOMAIN Append(s, m) = 1..Len(s) + 1
         /\ \A i \in 1..Len(s) : Append(s, m)[i] = s[i]
         /\ Append(s, m)[Len(s) + 1] = m
OBVIOUS

-----------------------------------------------------------------------------
(***************************************************************************)
(* The component's methods.                                                *)
(***************************************************************************)
\* All that the screen shows has been seen.
WellFormed(v) ==
  /\ v \in Viewer
  /\ v.streamedLogLines <= Len(v.screen)
  /\ \A i \in DOMAIN v.screen : Prefix[v.screen[i]] \in v.seenLines

\* w has the timers, channels, streams and requests of v ...
HoldsAs(v, w) ==
  /\ w.bound = v.bound /\ w.connectTimer = v.connectTimer /\ w.attempts = v.attempts
  /\ w.watchdogTimer = v.watchdogTimer /\ w.sse = v.sse

\* ... or none.
LetGo(w) == w.bound = {} /\ ~w.connectTimer /\ ~w.watchdogTimer /\ w.sse = "none"

\* w knows of the deployment's status what v knows.
KnowsAs(v, w) ==
  /\ w.finished = v.finished /\ w.currentStatus = v.currentStatus
  /\ w.lastStatusEvent = v.lastStatusEvent

ShowsAs(v, w) == w.screen = v.screen /\ w.seenLines = v.seenLines

\* w shows one line more than v, or it was seen before.
ShowsMore(v, w, line) ==
  /\ v.seenLines \subseteq w.seenLines
  /\ line # Blank => Prefix[line] \in w.seenLines
  /\ \/ w.screen = v.screen
     \/ /\ w.screen = Append(v.screen, line)
        /\ line # Blank /\ Prefix[line] \notin v.seenLines

LEMMA ActivityFacts ==
  ASSUME NEW v, WellFormed(v)
  PROVE  /\ WellFormed(markActivity(v))
         /\ HoldsAs(v, markActivity(v)) /\ KnowsAs(v, markActivity(v)) /\ ShowsAs(v, markActivity(v))
         /\ markActivity(v).fetching = v.fetching
         /\ markActivity(v).streamedLogLines = v.streamedLogLines
BY DEF markActivity, WellFormed, Viewer, HoldsAs, KnowsAs, ShowsAs

LEMMA LineFacts ==
  ASSUME NEW v, WellFormed(v), NEW line \in Lines, NEW counted \in BOOLEAN
  PROVE  LET w == addLogLine(v, line, counted)
         IN  /\ WellFormed(w)
             /\ HoldsAs(v, w) /\ KnowsAs(v, w) /\ ShowsMore(v, w, line)
             /\ w.fetching = v.fetching
<1> DEFINE w == addLogLine(v, line, counted)
<1>1. CASE line = Blank
  BY <1>1 DEF addLogLine, HoldsAs, KnowsAs, ShowsMore
<1>2. CASE line # Blank /\ Prefix[line] \in v.seenLines
  BY <1>2, ActivityFacts DEF addLogLine, HoldsAs, KnowsAs, ShowsAs, ShowsMore
<1>3. CASE line # Blank /\ Prefix[line] \notin v.seenLines
  <2> DEFINE u == markActivity(v)
             n == IF counted THEN u.streamedLogLines + 1 ELSE u.streamedLogLines
  <2>1. w = [u EXCEPT !.screen = Append(u.screen, line),
                      !.seenLines = u.seenLines \cup {Prefix[line]},
                      !.streamedLogLines = n]
    BY <1>3 DEF addLogLine
  <2>2. u \in Viewer /\ WellFormed(u) /\ HoldsAs(v, u) /\ KnowsAs(v, u) /\ ShowsAs(v, u)
        /\ u.fetching = v.fetching
    BY ActivityFacts DEF WellFormed
  <2>3. u.screen \in Seq(Lines \ {Blank}) /\ u.streamedLogLines \in Nat
        /\ u.seenLines \in SUBSET {Prefix[l] : l \in Lines \ {Blank}}
    BY <2>2 DEF Viewer
  <2>4. /\ Append(u.screen, line) \in Seq(Lines \ {Blank})
        /\ u.seenLines \cup {Prefix[line]} \in SUBSET {Prefix[l] : l \in Lines \ {Blank}}
        /\ n \in Nat
    BY <1>3, <2>3
  <2> HIDE DEF u, n
  <2>5. w \in Viewer
    BY <2>1, <2>2, <2>4 DEF Viewer
  <2>6. /\ w.screen = Append(u.screen, line) /\ w.seenLines = u.seenLines \cup {Prefix[line]}
        /\ w.streamedLogLines = n
        /\ HoldsAs(u, w) /\ KnowsAs(u, w) /\ w.fetching = u.fetching
    BY <2>1, <2>2 DEF Viewer, HoldsAs, KnowsAs
  <2> HIDE DEF w
  <2>7. n <= Len(w.screen)
    BY <2>2, <2>3, <2>6, SnocFacts DEF n, WellFormed
  <2>8. \A i \in DOMAIN w.screen : Prefix[w.screen[i]] \in w.seenLines
    <3>1. /\ DOMAIN w.screen = 1..Len(u.screen) + 1 /\ w.screen[Len(u.screen) + 1] = line
          /\ \A i \in 1..Len(u.screen) : i \in DOMAIN u.screen /\ w.screen[i] = u.screen[i]
          /\ Len(u.screen) \in Nat
      BY <1>3, <2>3, <2>6
    <3> QED BY <2>2, <2>6, <3>1 DEF WellFormed
  <2>9. WellFormed(w)
    BY <2>5, <2>6, <2>7, <2>8 DEF WellFormed
  <2> QED BY <1>3, <2>2, <2>6, <2>9 DEF w, HoldsAs, KnowsAs, ShowsAs, ShowsMore
<1> QED BY <1>1, <1>2, <1>3

\* Induction over the natural numbers, said of sets.
LEMMA NaturalsFromZero ==
  ASSUME NEW S, 0 \in S, \A n \in Nat : n \in S => n + 1 \in S
  PROVE  Nat \subseteq S
<1> DEFINE T == Nat \ S
<1> SUFFICES ASSUME T # {} PROVE FALSE
  OBVIOUS
<1>1. PICK x \in T : \A y \in T : <<y, x>> \notin OpToRel(<, Nat)
  BY NatLessThanWellFounded, WFMin
<1>2. x \in Nat /\ x # 0 /\ x \notin S
  OBVIOUS
<1>3. x - 1 \in Nat /\ x - 1 < x
  BY <1>2
<1>4. <<x - 1, x>> \in OpToRel(<, Nat)
  BY <1>2, <1>3 DEF OpToRel
<1>5. x - 1 \in S
  BY <1>1, <1>3, <1>4
<1>6. (x - 1) + 1 = x
  BY <1>2
<1> QED BY <1>2, <1>3, <1>5, <1>6

\* w shows what v shows and some of the lines.
Adds(v, w, lines) ==
  /\ WellFormed(w)
  /\ HoldsAs(v, w) /\ KnowsAs(v, w) /\ w.fetching = v.fetching
  /\ v.seenLines \subseteq w.seenLines
  /\ ToSet(w.screen) \subseteq ToSet(v.screen) \cup ToSet(lines)

LEMMA OneLineAdds ==
  ASSUME NEW v, NEW u, NEW lines \in Seq(Lines), NEW i \in 1..Len(lines), Adds(v, u, lines)
  PROVE  Adds(v, addLogLine(u, lines[i], FALSE), lines)
<1> DEFINE w == addLogLine(u, lines[i], FALSE)
<1>1. lines[i] \in Lines /\ lines[i] \in ToSet(lines)
  BY DEF ToSet
<1>2. /\ WellFormed(u) /\ u.screen \in Seq(Lines \ {Blank})
  BY DEF Adds, WellFormed, Viewer
<1>3. /\ WellFormed(w) /\ HoldsAs(u, w) /\ KnowsAs(u, w) /\ ShowsMore(u, w, lines[i])
      /\ w.fetching = u.fetching
  BY <1>1, <1>2, LineFacts
<1> HIDE DEF w
<1>4. ToSet(w.screen) \subseteq ToSet(u.screen) \cup {lines[i]}
  <2>1. CASE w.screen = u.screen
    BY <2>1
  <2>2. CASE w.screen = Append(u.screen, lines[i]) /\ lines[i] # Blank
    <3>1. /\ DOMAIN w.screen = 1..Len(u.screen) + 1 /\ w.screen[Len(u.screen) + 1] = lines[i]
          /\ \A k \in 1..Len(u.screen) : k \in DOMAIN u.screen /\ w.screen[k] = u.screen[k]
          /\ Len(u.screen) \in Nat
      BY <1>1, <1>2, <2>2
    <3> QED BY <3>1 DEF ToSet
  <2> QED BY <1>3, <2>1, <2>2 DEF ShowsMore
<1>5. Adds(v, w, lines)
  BY <1>1, <1>3, <1>4 DEF Adds, HoldsAs, KnowsAs, ShowsMore
<1> QED BY <1>5 DEF w

\* addStoredLines does what its recursion says, and so adds lines and nothing else.
LEMMA StoredFacts ==
  ASSUME NEW v, WellFormed(v), NEW lines \in Seq(Lines)
  PROVE  Adds(v, addStoredLines(v, lines), lines)
<1> DEFINE N == Len(lines)
           One(u, n) == addLogLine(u, lines[n], FALSE)
           IsAfter(h, n) == h = [i \in 0..n |-> IF i = 0 THEN v ELSE One(h[i - 1], i)]
           after == CHOOSE h : IsAfter(h, N)
<1>0. N \in Nat
  OBVIOUS
<1>1. addStoredLines(v, lines) = after[N]
  BY DEF addStoredLines
<1> HIDE DEF One
<1>2. \E h : IsAfter(h, N)
  <2> DEFINE S == {n \in Nat : \E h : IsAfter(h, n)}
  <2>1. 0 \in S
    <3> DEFINE h == [i \in 0..0 |-> v]
    <3>1. IsAfter(h, 0)
      OBVIOUS
    <3> QED BY <3>1
  <2>2. ASSUME NEW n \in Nat, n \in S PROVE n + 1 \in S
    <3>1. PICK h : IsAfter(h, n)
      BY <2>2
    <3> DEFINE g == [i \in 0..n + 1 |-> IF i = n + 1 THEN One(h[n], n + 1) ELSE h[i]]
    <3>2. /\ \A i \in 0..n : i # n + 1 /\ i \in 0..n + 1
          /\ n + 1 \in 0..n + 1 /\ (n + 1) - 1 = n /\ n \in 0..n
      OBVIOUS
    <3>3. h[0] = v /\ \A i \in 0..n : i # 0 => h[i] = One(h[i - 1], i)
      BY <3>1
    <3>4. \A i \in 0..n : g[i] = h[i]
      BY <3>2
    <3>5. g[n + 1] = One(g[n], n + 1)
      BY <3>2, <3>4
    <3>6. DOMAIN g = 0..n + 1 /\ g = [i \in DOMAIN g |-> g[i]]
      OBVIOUS
    <3> HIDE DEF g
    <3>7. ASSUME NEW i \in 0..n + 1 PROVE g[i] = IF i = 0 THEN v ELSE One(g[i - 1], i)
      <4>1. CASE i = 0
        BY <3>3, <3>4, <4>1
      <4>2. CASE i = n + 1
        BY <3>2, <3>5, <4>2
      <4>3. CASE i # 0 /\ i # n + 1
        <5>1. i \in 0..n /\ i - 1 \in 0..n
          BY <4>3
        <5>2. g[i] = One(h[i - 1], i) /\ g[i - 1] = h[i - 1]
          BY <3>3, <3>4, <4>3, <5>1
        <5> QED BY <4>3, <5>2
      <4> QED BY <4>1, <4>2, <4>3
    <3>8. IsAfter(g, n + 1)
      BY <3>6, <3>7
    <3> QED BY <3>8
  <2>3. Nat \subseteq S
    BY <2>1, <2>2, NaturalsFromZero
  <2> QED BY <1>0, <2>3
<1>3. IsAfter(after, N)
  BY <1>2
<1> HIDE DEF after
<1>4. after[0] = v /\ \A i \in 1..N : after[i] = One(after[i - 1], i)
  BY <1>0, <1>3
<1>5. \A n \in Nat : n <= N => Adds(v, after[n], lines)
  <2> DEFINE S == {n \in Nat : n <= N => Adds(v, after[n], lines)}
  <2>1. 0 \in S
    <3>1. after[0] = v
      BY <1>4
    <3>2. Adds(v, v, lines)
      BY DEF Adds, HoldsAs, KnowsAs
    <3> QED BY <3>1, <3>2
  <2>2. ASSUME NEW n \in Nat, n \in S PROVE n + 1 \in S
    <3> SUFFICES ASSUME n + 1 <= N PROVE Adds(v, after[n + 1], lines)
      OBVIOUS
    <3>1. n <= N /\ n + 1 \in 0..N /\ n + 1 \in 1..N /\ (n + 1) - 1 = n /\ n + 1 # 0
      BY <1>0
    <3>2. after[n + 1] = addLogLine(after[n], lines[n + 1], FALSE)
      BY <1>4, <3>1 DEF One
    <3>3. Adds(v, after[n], lines)
      BY <2>2, <3>1
    <3> QED BY <3>1, <3>2, <3>3, OneLineAdds
  <2>3. Nat \subseteq S
    BY <2>1, <2>2, NaturalsFromZero
  <2> QED BY <2>3
<1> QED BY <1>0, <1>1, <1>5

LEMMA StopFacts ==
  ASSUME NEW v, v \in Viewer
  PROVE  LET u == stopConnecting(v)
         IN  /\ u \in Viewer /\ KnowsAs(v, u) /\ ShowsAs(v, u) /\ ~u.connectTimer
             /\ u.fetching = v.fetching /\ u.streamedLogLines = v.streamedLogLines
             /\ u.bound = v.bound /\ u.sse = v.sse /\ u.watchdogTimer = v.watchdogTimer
<1>1. 0 \in 0..MaxAttempts
  BY ViewerAssumption
<1> QED BY <1>1 DEF stopConnecting, Viewer, KnowsAs, ShowsAs

LEMMA CleanupFacts ==
  ASSUME NEW v, WellFormed(v)
  PROVE  /\ WellFormed(cleanup(v)) /\ LetGo(cleanup(v))
         /\ KnowsAs(v, cleanup(v)) /\ ShowsAs(v, cleanup(v))
         /\ cleanup(v).fetching = v.fetching /\ cleanup(v).streamedLogLines = v.streamedLogLines
<1> DEFINE u == stopConnecting(v)
<1>1. /\ u \in Viewer /\ KnowsAs(v, u) /\ ShowsAs(v, u) /\ ~u.connectTimer
      /\ u.fetching = v.fetching /\ u.streamedLogLines = v.streamedLogLines
  BY StopFacts DEF WellFormed
<1> HIDE DEF u
<1>2. cleanup(v) = [u EXCEPT !.watchdogTimer = FALSE, !.bound = {}, !.sse = "none"]
  BY DEF cleanup, u
<1>3. /\ cleanup(v) \in Viewer /\ LetGo(cleanup(v)) /\ KnowsAs(u, cleanup(v))
      /\ ShowsAs(u, cleanup(v)) /\ cleanup(v).fetching = u.fetching
      /\ cleanup(v).streamedLogLines = u.streamedLogLines
  BY <1>1, <1>2 DEF Viewer, LetGo, KnowsAs, ShowsAs
<1> QED BY <1>1, <1>3 DEF WellFormed, KnowsAs, ShowsAs

LEMMA FinishFacts ==
  ASSUME NEW v, WellFormed(v)
  PROVE  LET w == finishStream(v)
         IN  /\ WellFormed(w) /\ LetGo(w) /\ ShowsAs(v, w) /\ w.finished
             /\ w.currentStatus = v.currentStatus /\ w.lastStatusEvent = v.lastStatusEvent
<1> DEFINE u == cleanup(v)
           n == IF v.streamedLogLines = 0 THEN "asked" ELSE u.fetching
<1>1. /\ WellFormed(u) /\ LetGo(u) /\ KnowsAs(v, u) /\ ShowsAs(v, u) /\ u \in Viewer
  BY CleanupFacts DEF WellFormed
<1>2. n \in {"no", "asked", "done"}
  BY <1>1 DEF Viewer
<1>3. finishStream(v) = [u EXCEPT !.finished = TRUE, !.fetching = n]
  BY DEF finishStream
<1> HIDE DEF u, n
<1>4. /\ finishStream(v) \in Viewer /\ LetGo(finishStream(v)) /\ ShowsAs(u, finishStream(v))
      /\ finishStream(v).finished
      /\ finishStream(v).currentStatus = u.currentStatus
      /\ finishStream(v).lastStatusEvent = u.lastStatusEvent
      /\ finishStream(v).streamedLogLines = u.streamedLogLines
  BY <1>1, <1>2, <1>3 DEF Viewer, LetGo, ShowsAs
<1> QED BY <1>1, <1>4 DEF WellFormed, KnowsAs, ShowsAs

Statuses == {"building"} \cup TerminalStatuses

LEMMA ShowStatusFacts ==
  ASSUME NEW v, WellFormed(v), NEW status \in Statuses
  PROVE  LET w == showStatus(v, status)
         IN  /\ WellFormed(w) /\ HoldsAs(v, w) /\ ShowsAs(v, w)
             /\ w.currentStatus = status /\ w.lastStatusEvent = status
             /\ w.finished = (v.finished \/ status \in TerminalStatuses)
             /\ w.fetching = v.fetching
<1> DEFINE a == [v EXCEPT !.lastStatusEvent = status]
           b == markActivity(a)
           c == updateStatus(a, status)
           d == markActivity(c)
<1>1. /\ WellFormed(a) /\ HoldsAs(v, a) /\ ShowsAs(v, a) /\ a.lastStatusEvent = status
      /\ a.finished = v.finished /\ a.fetching = v.fetching
  BY DEF WellFormed, Viewer, Statuses, HoldsAs, ShowsAs
<1> HIDE DEF a
<1>2. /\ WellFormed(b) /\ HoldsAs(a, b) /\ ShowsAs(a, b) /\ KnowsAs(a, b)
      /\ b.fetching = a.fetching
  BY <1>1, ActivityFacts
<1> HIDE DEF b
<1>3. c = [b EXCEPT !.currentStatus = status,
                    !.finished = b.finished \/ status \in TerminalStatuses]
  BY DEF updateStatus, b
<1> HIDE DEF c
<1>4. b \in Viewer /\ b.finished \in BOOLEAN
  BY <1>2 DEF WellFormed, Viewer
<1>5. c \in Viewer
  BY <1>3, <1>4 DEF Viewer, Statuses
<1>6. /\ HoldsAs(b, c) /\ ShowsAs(b, c) /\ c.currentStatus = status
      /\ c.lastStatusEvent = b.lastStatusEvent
      /\ c.finished = (b.finished \/ status \in TerminalStatuses) /\ c.fetching = b.fetching
      /\ c.streamedLogLines = b.streamedLogLines
  BY <1>3, <1>4 DEF Viewer, HoldsAs, ShowsAs
<1>7. WellFormed(c)
  BY <1>2, <1>5, <1>6 DEF WellFormed, ShowsAs
<1>8. /\ WellFormed(d) /\ HoldsAs(c, d) /\ ShowsAs(c, d) /\ KnowsAs(c, d)
      /\ d.fetching = c.fetching
  BY <1>7, ActivityFacts
<1>9. showStatus(v, status) = [d EXCEPT !.notices = d.notices \cup {status}]
  BY DEF showStatus, addSystemLine, a, b, c
<1> HIDE DEF d
<1>10. d \in Viewer /\ d.notices \cup {status} \subseteq {"building", "persisted"} \cup TerminalStatuses
  BY <1>8 DEF WellFormed, Viewer, Statuses
<1> DEFINE w == showStatus(v, status)
<1>11. w \in Viewer
  BY <1>9, <1>10 DEF Viewer
<1>12. /\ HoldsAs(d, w) /\ ShowsAs(d, w) /\ KnowsAs(d, w) /\ w.fetching = d.fetching
       /\ w.streamedLogLines = d.streamedLogLines
  BY <1>9, <1>10 DEF Viewer, HoldsAs, ShowsAs, KnowsAs
<1> HIDE DEF w
<1>13. WellFormed(w)
  BY <1>8, <1>11, <1>12 DEF WellFormed, ShowsAs
<1>14. HoldsAs(v, w) /\ ShowsAs(v, w)
  BY <1>1, <1>2, <1>6, <1>8, <1>12 DEF HoldsAs, ShowsAs
<1>15. w.currentStatus = status /\ w.lastStatusEvent = status
  BY <1>1, <1>2, <1>6, <1>8, <1>12 DEF KnowsAs
<1>16. w.finished = (v.finished \/ status \in TerminalStatuses) /\ w.fetching = v.fetching
  BY <1>1, <1>2, <1>6, <1>8, <1>12 DEF KnowsAs
<1> QED BY <1>13, <1>14, <1>15, <1>16 DEF w

LEMMA NoticeFacts ==
  ASSUME NEW v, WellFormed(v)
  PROVE  LET w == addSystemLine(v, "persisted")
         IN  /\ WellFormed(w) /\ HoldsAs(v, w) /\ KnowsAs(v, w) /\ ShowsAs(v, w)
             /\ w.fetching = v.fetching
<1> DEFINE d == markActivity(v)
           w == addSystemLine(v, "persisted")
<1>1. /\ WellFormed(d) /\ HoldsAs(v, d) /\ ShowsAs(v, d) /\ KnowsAs(v, d) /\ d \in Viewer
      /\ d.fetching = v.fetching
  BY ActivityFacts DEF WellFormed
<1>2. w = [d EXCEPT !.notices = d.notices \cup {"persisted"}]
  BY DEF addSystemLine
<1>3. d.notices \cup {"persisted"} \subseteq {"building", "persisted"} \cup TerminalStatuses
  BY <1>1 DEF Viewer
<1> HIDE DEF d, w
<1>4. w \in Viewer
  BY <1>1, <1>2, <1>3 DEF Viewer
<1>5. /\ HoldsAs(d, w) /\ ShowsAs(d, w) /\ KnowsAs(d, w) /\ w.fetching = d.fetching
      /\ w.streamedLogLines = d.streamedLogLines
  BY <1>1, <1>2 DEF Viewer, HoldsAs, ShowsAs, KnowsAs
<1>6. WellFormed(w)
  BY <1>1, <1>4, <1>5 DEF WellFormed, ShowsAs
<1>7. HoldsAs(v, w) /\ ShowsAs(v, w) /\ KnowsAs(v, w) /\ w.fetching = v.fetching
  BY <1>1, <1>5 DEF HoldsAs, ShowsAs, KnowsAs
<1> QED BY <1>6, <1>7 DEF w

-----------------------------------------------------------------------------
(***************************************************************************)
(* What a broadcast and a frame do: the viewer goes on, or it has ended.   *)
(***************************************************************************)
Waits(v) == WellFormed(v) /\ ~v.finished /\ v.lastStatusEvent \notin TerminalStatuses

GoesOn(v, w) == Waits(w) /\ HoldsAs(v, w) /\ w.fetching = v.fetching

HasEnded(w) == WellFormed(w) /\ w.finished /\ LetGo(w)

LEMMA TerminalFacts == "building" \in Statuses \ TerminalStatuses /\ TerminalStatuses \subseteq Statuses
BY ViewerAssumption DEF Statuses

LEMMA BroadcastFacts ==
  ASSUME NEW v, Waits(v), NEW m \in Messages
  PROVE  LET w == onBroadcast(v, m)
         IN  \/ /\ m.kind = "status"
                /\ HasEnded(w) /\ ShowsAs(v, w) /\ w.currentStatus = m.text
             \/ /\ m.kind # "status"
                /\ GoesOn(v, w) /\ ShowsMore(v, w, m.text)
<1>0. WellFormed(v)
  BY DEF Waits
<1>1. CASE m.kind = "status"
  <2>1. m.text \in TerminalStatuses /\ m.text \in Statuses
    BY <1>1, MessageFacts, TerminalFacts
  <2>2. onBroadcast(v, m) = finishStream(showStatus(v, m.text))
    <3>1. onBroadcast(v, m) = handleStatusEvent(v, m.text)
      BY <1>1 DEF onBroadcast
    <3> QED BY <2>1, <3>1 DEF handleStatusEvent, Waits
  <2> DEFINE u == showStatus(v, m.text)
  <2>3. WellFormed(u) /\ ShowsAs(v, u) /\ u.currentStatus = m.text
    BY <1>0, <2>1, ShowStatusFacts
  <2> HIDE DEF u
  <2> DEFINE w == finishStream(u)
  <2>4. WellFormed(w) /\ LetGo(w) /\ ShowsAs(u, w) /\ w.finished /\ w.currentStatus = u.currentStatus
    BY <2>3, FinishFacts
  <2> HIDE DEF w
  <2>5. HasEnded(w) /\ ShowsAs(v, w) /\ w.currentStatus = m.text
    BY <2>3, <2>4 DEF HasEnded, ShowsAs
  <2> QED BY <1>1, <2>2, <2>5 DEF u, w
<1>2. CASE m.kind # "status"
  <2>1. m.kind \in {"log", "stage"} /\ m.text \in Lines
    BY <1>2, MessageFacts
  <2> DEFINE w == addLogLine(v, m.text, TRUE)
  <2>2. onBroadcast(v, m) = w
    <3>1. CASE m.kind = "log"
      BY <3>1 DEF onBroadcast, handleLogEvent
    <3>2. CASE m.kind = "stage"
      BY <3>2 DEF onBroadcast, handleStageEvent
    <3> QED BY <2>1, <3>1, <3>2
  <2>3. WellFormed(w) /\ HoldsAs(v, w) /\ KnowsAs(v, w) /\ ShowsMore(v, w, m.text) /\ w.fetching = v.fetching
    BY <1>0, <2>1, LineFacts
  <2> HIDE DEF w
  <2>4. GoesOn(v, w)
    BY <2>3 DEF GoesOn, Waits, KnowsAs
  <2> QED BY <1>2, <2>2, <2>3, <2>4
<1> QED BY <1>1, <1>2

Ends(f) == f.kind = "status" /\ f.text \in TerminalStatuses
IsLine(f) == f.kind \in {"log", "stage"}

LEMMA FrameFacts ==
  ASSUME NEW v, Waits(v), NEW f \in Frame
  PROVE  LET w == onFrame(v, f)
         IN  \/ Ends(f) /\ HasEnded(w) /\ ShowsAs(v, w) /\ w.currentStatus = f.text
             \/ f.kind = "done" /\ HasEnded(w) /\ ShowsAs(v, w)
             \/ IsLine(f) /\ GoesOn(v, w) /\ ShowsMore(v, w, f.text)
             \/ ~Ends(f) /\ ~IsLine(f) /\ GoesOn(v, w) /\ ShowsAs(v, w)
<1>0. WellFormed(v)
  BY DEF Waits
<1>1. CASE IsLine(f)
  <2>1. f.kind \in {"log", "stage"} /\ f.text \in Lines
    BY <1>1 DEF Frame, IsLine
  <2> DEFINE w == addLogLine(v, f.text, TRUE)
  <2>2. onFrame(v, f) = w
    <3>1. CASE f.kind = "log"
      BY <3>1 DEF onFrame, handleLogEvent
    <3>2. CASE f.kind = "stage"
      BY <3>2 DEF onFrame, handleStageEvent
    <3> QED BY <2>1, <3>1, <3>2
  <2>3. WellFormed(w) /\ HoldsAs(v, w) /\ KnowsAs(v, w) /\ ShowsMore(v, w, f.text) /\ w.fetching = v.fetching
    BY <1>0, <2>1, LineFacts
  <2> HIDE DEF w
  <2>4. GoesOn(v, w)
    BY <2>3 DEF GoesOn, Waits, KnowsAs
  <2> QED BY <1>1, <2>2, <2>3, <2>4
<1>2. CASE f.kind = "heartbeat"
  <2>1. onFrame(v, f) = markActivity(v) /\ ~Ends(f) /\ ~IsLine(f)
    BY <1>2 DEF onFrame, Ends, IsLine
  <2> DEFINE w == markActivity(v)
  <2>2. WellFormed(w) /\ HoldsAs(v, w) /\ KnowsAs(v, w) /\ ShowsAs(v, w) /\ w.fetching = v.fetching
    BY <1>0, ActivityFacts
  <2> HIDE DEF w
  <2>3. GoesOn(v, w)
    BY <2>2 DEF GoesOn, Waits, KnowsAs
  <2> QED BY <2>1, <2>2, <2>3 DEF w
<1>3. CASE f.kind = "done"
  <2>1. onFrame(v, f) = finishStream(v)
    BY <1>3 DEF onFrame
  <2>2. HasEnded(finishStream(v)) /\ ShowsAs(v, finishStream(v))
    BY <1>0, FinishFacts DEF HasEnded
  <2> QED BY <1>3, <2>1, <2>2
<1>4. CASE f.kind = "status" /\ f.text \in TerminalStatuses
  <2>1. f.text \in Statuses /\ f.text # v.lastStatusEvent
    BY <1>4, TerminalFacts DEF Waits
  <2>2. onFrame(v, f) = finishStream(showStatus(v, f.text))
    <3>1. onFrame(v, f) = onStatus(v, f.text)
      BY <1>4 DEF onFrame
    <3> QED BY <1>4, <2>1, <3>1 DEF onStatus
  <2> DEFINE u == showStatus(v, f.text)
  <2>3. WellFormed(u) /\ ShowsAs(v, u) /\ u.currentStatus = f.text
    BY <1>0, <2>1, ShowStatusFacts
  <2> HIDE DEF u
  <2> DEFINE w == finishStream(u)
  <2>4. WellFormed(w) /\ LetGo(w) /\ ShowsAs(u, w) /\ w.finished /\ w.currentStatus = u.currentStatus
    BY <2>3, FinishFacts
  <2> HIDE DEF w
  <2>5. HasEnded(w) /\ ShowsAs(v, w) /\ w.currentStatus = f.text
    BY <2>3, <2>4 DEF HasEnded, ShowsAs
  <2> QED BY <1>4, <2>2, <2>5 DEF u, w, Ends
<1>5. CASE f.kind = "status" /\ f.text \notin TerminalStatuses
  <2>1. f.text \in Statuses
    BY <1>5 DEF Frame, Statuses
  <2>2. onFrame(v, f) = IF v.lastStatusEvent = f.text THEN v ELSE showStatus(v, f.text)
    <3>1. onFrame(v, f) = onStatus(v, f.text)
      BY <1>5 DEF onFrame
    <3> QED BY <1>5, <3>1 DEF onStatus
  <2> DEFINE w == showStatus(v, f.text)
  <2>3. /\ WellFormed(w) /\ HoldsAs(v, w) /\ ShowsAs(v, w) /\ w.lastStatusEvent = f.text
        /\ w.finished = (v.finished \/ f.text \in TerminalStatuses) /\ w.fetching = v.fetching
    BY <1>0, <2>1, ShowStatusFacts
  <2> HIDE DEF w
  <2>4. GoesOn(v, w)
    BY <1>5, <2>3 DEF GoesOn, Waits
  <2>5. GoesOn(v, v) /\ ShowsAs(v, v)
    BY DEF GoesOn, ShowsAs, HoldsAs
  <2>6. ~Ends(f) /\ ~IsLine(f)
    BY <1>5 DEF Ends, IsLine
  <2> QED BY <2>2, <2>3, <2>4, <2>5, <2>6 DEF w
<1> QED BY <1>1, <1>2, <1>3, <1>4, <1>5 DEF Frame, IsLine

-----------------------------------------------------------------------------
(***************************************************************************)
(* The window's life.  Before Alpine finds it the component holds nothing; *)
(* nor does it after its end; a status has ended it, once, or it waits.    *)
(***************************************************************************)
Unopened ==
  /\ phase = "closed" => ~viewer.finished
  /\ phase \in {"closed", "rendered"} =>
       /\ LetGo(viewer)
       /\ viewer.screen = <<>> /\ viewer.fetching = "no" /\ viewer.lastStatusEvent = "none"
       /\ ~streamed

EndLetsGo == (phase = "open" /\ viewer.finished) \/ phase = "gone" => LetGo(viewer)

EndedOnce ==
  /\ ~viewer.finished => endedBy = "nothing" /\ viewer.lastStatusEvent \notin TerminalStatuses
  /\ viewer.finished => endedBy # "nothing"

SessionIsStreamed ==
  /\ session.pc = "none" => session = NoSession
  /\ session.pc # "none" => streamed

Base ==
  /\ TypeOK /\ WellFormed(viewer)
  /\ Unopened /\ EndLetsGo /\ EndedOnce /\ SessionIsStreamed

Session ==
  [pc : {"none", "read", "ask", "live", "over"}, queue : Seq(Frame), upto : 0..Len(Own),
   whole : BOOLEAN]

Wire == [channel : Channels, message : Messages, from : {"socket", "callback", "other"}]

LEMMA NoSessionFacts == NoSession \in Session /\ NoSession.pc = "none" /\ NoSession.queue = <<>>
<1>1. Len(Own) \in Nat
  BY OwnFacts
<1>2. 0 \in 0..Len(Own)
  BY <1>1
<1>3. <<>> \in Seq(Frame)
  OBVIOUS
<1> QED BY <1>2, <1>3 DEF NoSession, Session

LEMMA NewViewerFacts ==
  ASSUME NEW isTerminal \in BOOLEAN, NEW status \in Statuses
  PROVE  LET w == NewViewer(isTerminal, status)
         IN  /\ WellFormed(w) /\ LetGo(w) /\ w.finished = isTerminal /\ w.currentStatus = status
             /\ w.lastStatusEvent = "none" /\ w.screen = <<>> /\ w.fetching = "no"
<1> DEFINE w == NewViewer(isTerminal, status)
<1>1. 0 \in 0..MaxAttempts /\ <<>> \in Seq(Lines \ {Blank}) /\ Len(<<>>) = 0
  BY ViewerAssumption
<1>2. w \in Viewer
  BY <1>1 DEF NewViewer, Viewer, Statuses
<1>3. /\ LetGo(w) /\ w.finished = isTerminal /\ w.currentStatus = status
      /\ w.lastStatusEvent = "none" /\ w.screen = <<>> /\ w.fetching = "no"
      /\ w.streamedLogLines = 0
  BY DEF NewViewer, LetGo
<1>4. DOMAIN w.screen = {}
  BY <1>3
<1> HIDE DEF w
<1>5. WellFormed(w)
  BY <1>1, <1>2, <1>3, <1>4 DEF WellFormed
<1> QED BY <1>3, <1>5 DEF w

\* Without a channel there is no broadcast to come, without a stream no other end.
LEMMA LetGoFacts ==
  TypeOK /\ SessionIsStreamed /\ LetGo(viewer) => wire = {} /\ subscribed = {} /\ session = NoSession
BY DEF TypeOK, SessionIsStreamed, LetGo

LEMMA HeldByNone == Base => NothingHeld
BY LetGoFacts DEF Base, EndLetsGo, NothingHeld, LetGo

\* Where the component is left, with its channels and its stream.
LEMMA BecomesFacts ==
  ASSUME TypeOK, NEW v, WellFormed(v), NEW w \in SUBSET wire, NEW s \in Session,
         s.pc = session.pc, NEW cause \in Causes, Becomes(v, w, s, cause),
         v.sse = "open" => viewer.sse = "open"
  PROVE  /\ viewer' = v
         /\ subscribed' \subseteq v.bound
         /\ wire' \subseteq wire
         /\ wire' \subseteq [channel : subscribed', message : Messages,
                             from : {"socket", "callback", "other"}]
         /\ session' \in Session /\ (session'.pc = "none") = (v.sse # "open")
         /\ session' = IF v.sse = "open" THEN s ELSE NoSession
         /\ endedBy' = IF v.finished /\ ~viewer.finished THEN cause ELSE endedBy
         /\ endedBy' \in Causes
         /\ LetGo(v) => wire' = {} /\ subscribed' = {} /\ session' = NoSession
<1>1. viewer' = v /\ subscribed' = subscribed \cap v.bound /\ wire' = {f \in w : f.channel \in v.bound}
  BY DEF Becomes
<1>2. wire' \subseteq [channel : subscribed', message : Messages, from : {"socket", "callback", "other"}]
  BY <1>1 DEF TypeOK
<1>3. session' = (IF v.sse = "open" THEN s ELSE NoSession)
  BY DEF Becomes
<1>4. session' \in Session /\ (session'.pc = "none") = (v.sse # "open")
  BY <1>3, NoSessionFacts DEF TypeOK
<1>5. /\ endedBy' = IF v.finished /\ ~viewer.finished THEN cause ELSE endedBy
      /\ endedBy' \in Causes
  BY DEF Becomes, TypeOK
<1>6. LetGo(v) => wire' = {} /\ subscribed' = {} /\ session' = NoSession
  BY <1>1, <1>3 DEF LetGo
<1> QED BY <1>1, <1>2, <1>3, <1>4, <1>5, <1>6

\* Broadcasts are lost with their channel only.
LEMMA WireIsBound ==
  ASSUME TypeOK, NEW v, NEW w \in SUBSET wire, NEW s, NEW cause, Becomes(v, w, s, cause),
         viewer.bound \subseteq v.bound
  PROVE  wire' = w
BY DEF Becomes, TypeOK

LEMMA BaseInit == Init => Base
<1> SUFFICES ASSUME Init PROVE Base
  OBVIOUS
<1>0. viewer = NewViewer(FALSE, "building")
  BY DEF Init
<1>1. /\ WellFormed(viewer) /\ LetGo(viewer) /\ ~viewer.finished
      /\ viewer.lastStatusEvent = "none" /\ viewer.screen = <<>> /\ viewer.fetching = "no"
  BY <1>0, TerminalFacts, NewViewerFacts
<1>2. /\ viewer \in Viewer /\ viewer.streamedLogLines <= Len(viewer.screen) /\ viewer.sse = "none"
  BY <1>1 DEF WellFormed, LetGo
<1>3. session \in Session /\ session = NoSession /\ session.pc = "none"
  BY NoSessionFacts DEF Init
<1>4. Len(Own) \in Nat /\ Len(Other) \in Nat /\ MaxCuts \in Nat
  BY OwnFacts, OtherFacts, ViewerAssumption
<1>5. TypeOK
  <2>1. /\ phase \in {"closed", "rendered", "open", "gone"}
        /\ props \in [isTerminal : BOOLEAN, initialLogs : {Earlier, Persisted}]
        /\ subscribed = {} /\ wire = {}
        /\ echo \in BOOLEAN /\ row \in BOOLEAN /\ saved \in BOOLEAN /\ cleared \in BOOLEAN
        /\ missed \in BOOLEAN /\ streamed \in BOOLEAN /\ endedBy \in Causes
    BY DEF Init, Causes
  <2>2. published \in 0..Len(Own) /\ aired \in 0..published /\ otherAired \in 0..Len(Other)
        /\ cuts \in 0..MaxCuts
    BY <1>4 DEF Init
  <2> QED BY <1>2, <1>3, <2>1, <2>2 DEF TypeOK, Session
<1>6. TerminalStatuses \cap {"none", "building"} = {}
  BY ViewerAssumption
<1> QED
  BY <1>1, <1>3, <1>5, <1>6
  DEF Init, Base, Unopened, EndLetsGo, EndedOnce, SessionIsStreamed

\* What TypeOK says, in the terms of this module.
LEMMA Types ==
  ASSUME TypeOK
  PROVE  /\ session \in Session /\ wire \subseteq Wire /\ viewer \in Viewer
         /\ session.queue \in Seq(Frame) /\ session.upto \in 0..Len(Own)
         /\ published \in 0..Len(Own) /\ Len(Own) \in Nat \ {0} /\ published \in Nat
         /\ aired \in 0..published /\ aired \in Nat
<1>1. session \in Session
  BY DEF TypeOK, Session
<1>2. wire \subseteq Wire
  BY DEF TypeOK, Wire, Viewer
<1>3. published \in 0..Len(Own) /\ aired \in 0..published
  BY DEF TypeOK
<1>4. published \in Nat /\ aired \in Nat
  BY <1>3, Lengths
<1>5. session.queue \in Seq(Frame) /\ session.upto \in 0..Len(Own) /\ viewer \in Viewer
  BY <1>1 DEF TypeOK, Session
<1> QED BY <1>1, <1>2, <1>3, <1>4, <1>5, Lengths

LEMMA BroadcastIsTyped ==
  ASSUME NEW m \in Messages, NEW from \in {"socket", "callback", "other"},
         NEW channels, Broadcast(m, from, channels)
  PROVE  wire' \subseteq [channel : subscribed, message : Messages,
                         from : {"socket", "callback", "other"}]
BY DEF Broadcast

\* The steps that leave the page alone.
World ==
  \/ EchoLoads \/ (\E c \in Channels : Subscribed(c)) \/ SocketBreaks
  \/ EndRow \/ Publish \/ SaveLogs \/ OtherAirs \/ Air \/ Skip \/ ClearBuffer
  \/ StreamReads \/ StreamSubscribes \/ StreamEndsEarly

LEMMA WorldFacts == World => UNCHANGED pageVars /\ UNCHANGED streamed
BY DEF World, EchoLoads, Subscribed, SocketBreaks, EndRow, Publish, SaveLogs, OtherAirs, Air,
       Skip, ClearBuffer, StreamReads, StreamSubscribes, StreamEndsEarly

\* A step of the stream's other end keeps the stream.
LEMMA SessionOfWorld ==
  ASSUME TypeOK, World
  PROVE  session' \in Session /\ (session'.pc = "none" <=> session.pc = "none")
         /\ (session' = session \/ session.pc # "none")
<1>t. session \in Session /\ Len(Own) \in Nat /\ published \in 0..Len(Own)
  BY Types
<1>u. session.queue \in Seq(Frame)
  BY <1>t DEF Session
<1>1. CASE Publish
  <2>1. Own[published + 1] \in Frame
    <3>1. published + 1 \in 1..Len(Own)
      BY <1>1, <1>t DEF Publish
    <3> QED BY <3>1, OwnFacts, MessageFacts
  <2>2. Append(session.queue, Own[published + 1]) \in Seq(Frame)
    BY <1>u, <2>1
  <2> QED BY <1>1, <1>t, <2>2 DEF Publish, Session
<1>2. CASE StreamReads
  <2> DEFINE buffer == IF cleared THEN <<>> ELSE SubSeq(Own, 1, published)
             ended  == ~cleared /\ published = Len(Own)
             tail   == IF ended THEN <<>> ELSE <<heartbeat>>
             q      == session.queue \o buffer \o tail
  <2>1. buffer \in Seq(Frame) /\ Len(buffer) \in 0..Len(Own)
    <3>1. CASE cleared
      BY <3>1, <1>t
    <3>2. CASE ~cleared
      <4>1. Own \in Seq(Message) /\ 1..published \subseteq 1..Len(Own)
        BY ViewerAssumption, <1>t
      <4>2. SubSeq(Own, 1, published) = [i \in 1..published |-> Own[i]]
        BY <1>t, <4>1
      <4>3. \A i \in 1..published : Own[i] \in Frame
        BY <4>1, OwnFacts, MessageFacts
      <4>4. SubSeq(Own, 1, published) \in Seq(Frame) /\ Len(SubSeq(Own, 1, published)) = published
        BY <1>t, <4>2, <4>3, SeqDef
      <4> QED BY <1>t, <3>2, <4>4
    <3> QED BY <3>1, <3>2
  <2>2. tail \in Seq(Frame)
    <3>1. heartbeat \in Frame
      BY DEF heartbeat, Frame
    <3> QED BY <3>1
  <2>3. session' = [pc |-> IF ended THEN "over" ELSE "ask", queue |-> q, upto |-> Len(buffer),
                    whole |-> ended]
    BY <1>2 DEF StreamReads
  <2>4. session.pc = "read" /\ ended \in BOOLEAN
    BY <1>2, <1>t DEF StreamReads, TypeOK
  <2> HIDE DEF buffer, ended, tail
  <2>5. q \in Seq(Frame)
    BY <1>u, <2>1, <2>2, ConcatProperties
  <2> HIDE DEF q
  <2> QED BY <2>1, <2>3, <2>4, <2>5 DEF Session
<1>3. CASE StreamSubscribes
  BY <1>3, <1>t DEF StreamSubscribes, Session
<1>4. CASE StreamEndsEarly
  <2>1. done \in Frame
    BY DEF done, Frame
  <2>2. Append(session.queue, done) \in Seq(Frame)
    BY <1>u, <2>1
  <2> QED BY <1>4, <1>t, <2>2 DEF StreamEndsEarly, Session
<1>5. CASE UNCHANGED session
  BY <1>5, <1>t
<1>6. Publish \/ StreamReads \/ StreamSubscribes \/ StreamEndsEarly \/ UNCHANGED session
  BY DEF World, EchoLoads, Subscribed, SocketBreaks, EndRow, SaveLogs, OtherAirs, Air,
         Skip, ClearBuffer
<1> QED BY <1>1, <1>2, <1>3, <1>4, <1>5, <1>6

LEMMA WireOfWorld ==
  ASSUME TypeOK, World
  PROVE  /\ subscribed' \subseteq viewer.bound
         /\ wire' \subseteq [channel : subscribed', message : Messages,
                             from : {"socket", "callback", "other"}]
<1>t. /\ Len(Own) \in Nat \ {0} /\ published \in 0..Len(Own) /\ aired \in 0..published
      /\ subscribed \subseteq viewer.bound
      /\ otherAired \in 0..Len(Other) /\ Len(Other) \in Nat \ {0}
      /\ wire \subseteq [channel : subscribed, message : Messages,
                        from : {"socket", "callback", "other"}]
  BY Types, OtherFacts DEF TypeOK
<1>1. CASE SaveLogs
  <2>1. Own[Len(Own)] \in Messages
    BY LastIsOwn
  <2> QED BY <1>1, <1>t, <2>1, BroadcastIsTyped DEF SaveLogs
<1>2. CASE OtherAirs
  <2>1. otherAired + 1 \in 1..Len(Other)
    BY <1>2, <1>t DEF OtherAirs
  <2>2. Other[otherAired + 1] \in Messages
    BY <2>1, OtherFacts
  <2> QED BY <1>2, <1>t, <2>2, BroadcastIsTyped DEF OtherAirs
<1>3. CASE Air
  <2>1. aired + 1 \in 1..Len(Own)
    BY <1>3, <1>t DEF Air
  <2>2. Own[aired + 1] \in Messages
    BY <2>1, OwnFacts
  <2> QED BY <1>3, <1>t, <2>2, BroadcastIsTyped DEF Air
<1>4. CASE SocketBreaks
  BY <1>4 DEF SocketBreaks
<1>5. ASSUME NEW c \in Channels, Subscribed(c)
      PROVE  /\ subscribed' \subseteq viewer.bound
             /\ wire' \subseteq [channel : subscribed', message : Messages,
                                 from : {"socket", "callback", "other"}]
  <2>1. subscribed' = subscribed \cup {c} /\ c \in viewer.bound /\ wire' = wire
    BY <1>5 DEF Subscribed
  <2> QED BY <1>t, <2>1
<1>6. CASE UNCHANGED <<subscribed, wire>>
  BY <1>6, <1>t
<1>7. \/ SaveLogs \/ OtherAirs \/ Air \/ SocketBreaks \/ (\E c \in Channels : Subscribed(c))
      \/ UNCHANGED <<subscribed, wire>>
  BY DEF World, EchoLoads, EndRow, Publish, Skip, ClearBuffer, StreamReads, StreamSubscribes,
         StreamEndsEarly
<1> QED BY <1>1, <1>2, <1>3, <1>4, <1>5, <1>6, <1>7

\* The counters and flags of the world.
Counted ==
  /\ echo \in BOOLEAN /\ row \in BOOLEAN /\ saved \in BOOLEAN /\ cleared \in BOOLEAN
  /\ published \in 0..Len(Own) /\ aired \in 0..published
  /\ otherAired \in 0..Len(Other) /\ cuts \in 0..MaxCuts
  /\ missed \in BOOLEAN /\ streamed \in BOOLEAN

LEMMA CountedOfWorld ==
  ASSUME TypeOK, World
  PROVE  Counted'
<1>t. Counted /\ Len(Own) \in Nat /\ Len(Other) \in Nat /\ MaxCuts \in Nat
  BY OwnFacts, OtherFacts, ViewerAssumption DEF TypeOK, Counted
<1>1. CASE EchoLoads \/ (\E c \in Channels : Subscribed(c)) \/ EndRow \/ ClearBuffer
           \/ StreamReads \/ StreamSubscribes \/ StreamEndsEarly
  BY <1>1, <1>t DEF EchoLoads, Subscribed, EndRow, ClearBuffer, StreamReads, StreamSubscribes,
                    StreamEndsEarly, sourceVars, airVars, Counted
<1>2. CASE SocketBreaks
  BY <1>2, <1>t DEF SocketBreaks, sourceVars, airVars, Counted
<1>3. CASE Publish
  BY <1>3, <1>t DEF Publish, airVars, Counted
<1>4. CASE SaveLogs
  BY <1>4, <1>t DEF SaveLogs, airVars, Counted
<1>5. CASE OtherAirs
  BY <1>5, <1>t DEF OtherAirs, sourceVars, Counted
<1>6. CASE Air
  <2>1. aired' = aired + 1 /\ aired < published /\ published' = published
    BY <1>6 DEF Air, sourceVars
  <2>2. aired' \in 0..published'
    BY <1>t, <2>1 DEF Counted
  <2> QED BY <1>6, <1>t, <2>1, <2>2 DEF Air, sourceVars, Counted
<1>7. CASE Skip
  <2>1. aired' = aired + 1 /\ aired < published /\ published' = published
    BY <1>7 DEF Skip, sourceVars
  <2>2. aired' \in 0..published'
    BY <1>t, <2>1 DEF Counted
  <2> QED BY <1>7, <1>t, <2>1, <2>2 DEF Skip, sourceVars, Counted
<1> QED BY <1>1, <1>2, <1>3, <1>4, <1>5, <1>6, <1>7 DEF World

LEMMA WorldBase ==
  ASSUME Base, World
  PROVE  Base'
<1>1. /\ phase' = phase /\ props' = props /\ viewer' = viewer /\ endedBy' = endedBy
      /\ streamed' = streamed
  BY WorldFacts DEF pageVars
<1>2. TypeOK /\ SessionIsStreamed
  BY DEF Base
<1>3. session' \in Session /\ (session'.pc = "none" <=> session.pc = "none")
      /\ (session' = session \/ session.pc # "none")
  BY <1>2, SessionOfWorld
<1>4. /\ subscribed' \subseteq viewer'.bound
      /\ wire' \subseteq [channel : subscribed', message : Messages,
                          from : {"socket", "callback", "other"}]
  BY <1>1, <1>2, WireOfWorld
<1>5. Counted'
  BY <1>2, CountedOfWorld
<1>6. TypeOK'
  BY <1>1, <1>2, <1>3, <1>4, <1>5 DEF TypeOK, Session, Counted
<1>7. SessionIsStreamed'
  BY <1>1, <1>2, <1>3 DEF SessionIsStreamed
<1>8. (WellFormed(viewer) /\ Unopened /\ EndLetsGo /\ EndedOnce)'
  BY <1>1 DEF Base, WellFormed, Unopened, EndLetsGo, EndedOnce, LetGo
<1> QED BY <1>6, <1>7, <1>8 DEF Base

\* The steps by which the component attends to its timers, channels and stream; they show
\* nothing and learn nothing.
Tend == Destroy \/ Timers \/ StreamOpens \/ StreamRefused \/ StreamBreaks \/ StreamTimesOut

Kept(v, w) ==
  /\ w \in Viewer /\ KnowsAs(v, w) /\ ShowsAs(v, w)
  /\ w.fetching = v.fetching /\ w.streamedLogLines = v.streamedLogLines

LEMMA KeptIsWellFormed ==
  ASSUME NEW v, NEW w, WellFormed(v), Kept(v, w)
  PROVE  WellFormed(w)
BY DEF WellFormed, Kept, ShowsAs

\* Channels and stream of the next state fit the component and each other.
Fits ==
  /\ subscribed' \subseteq viewer'.bound
  /\ wire' \subseteq wire
  /\ wire' \subseteq [channel : subscribed', message : Messages,
                      from : {"socket", "callback", "other"}]
  /\ session' \in Session /\ (session'.pc = "none") = (viewer'.sse # "open")
  /\ session'.pc = "none" => session' = NoSession
  /\ session'.pc # "none" => streamed'

\* What the other end starts with.
Answer ==
  [pc |-> IF row THEN "over" ELSE "read",
   queue |-> <<[kind |-> "status", text |-> IF row THEN End ELSE "building"]>>,
   upto |-> 0, whole |-> FALSE]

Tended ==
  /\ Kept(viewer, viewer') /\ Fits
  /\ phase = "open" /\ phase' \in {"open", "gone"} /\ props' = props /\ endedBy' = endedBy
  /\ ~viewer.finished \/ LetGo(viewer')
  /\ phase' = "gone" => LetGo(viewer')
  /\ streamed => streamed'
  /\ wire' = wire \/ phase' = "gone"
  /\ session' \in {session, NoSession, Answer}

LEMMA KeptByBecoming ==
  ASSUME Base, NEW v, Kept(viewer, v), NEW cause \in Causes, Becomes(v, wire, session, cause),
         v.sse = "open" => viewer.sse = "open", streamed' = streamed
  PROVE  /\ viewer' = v /\ Kept(viewer, viewer') /\ Fits /\ endedBy' = endedBy
         /\ session' \in {session, NoSession}
         /\ viewer.bound \subseteq v.bound => wire' = wire
<1>1. TypeOK /\ WellFormed(viewer) /\ SessionIsStreamed
  BY DEF Base
<1>2. WellFormed(v) /\ session \in Session
  BY <1>1, KeptIsWellFormed, Types
<1>3. /\ viewer' = v /\ subscribed' \subseteq v.bound /\ wire' \subseteq wire
      /\ wire' \subseteq [channel : subscribed', message : Messages,
                          from : {"socket", "callback", "other"}]
      /\ session' \in Session /\ (session'.pc = "none") = (v.sse # "open")
      /\ session' = IF v.sse = "open" THEN session ELSE NoSession
      /\ endedBy' = IF v.finished /\ ~viewer.finished THEN cause ELSE endedBy
  BY <1>1, <1>2, BecomesFacts
<1>4. endedBy' = endedBy
  BY <1>3 DEF Kept, KnowsAs
<1>5. (session'.pc = "none" => session' = NoSession) /\ (session'.pc # "none" => streamed')
  BY <1>1, <1>3, NoSessionFacts DEF SessionIsStreamed
<1>6. session' \in {session, NoSession}
  BY <1>3
<1>7. viewer.bound \subseteq v.bound => wire' = wire
  BY <1>1, WireIsBound
<1> QED BY <1>3, <1>4, <1>5, <1>6, <1>7 DEF Fits

LEMMA TendFacts ==
  ASSUME Base, Tend
  PROVE  Tended
<1>b. TypeOK /\ WellFormed(viewer) /\ viewer \in Viewer /\ SessionIsStreamed /\ EndLetsGo /\ Unopened
  BY DEF Base, WellFormed
<1>c. "nothing" \in Causes
  BY DEF Causes
<1>1. CASE Destroy
  <2> DEFINE v == cleanup(viewer)
  <2>1. Kept(viewer, v) /\ LetGo(v)
    BY <1>b, CleanupFacts DEF Kept, WellFormed
  <2>2. v.sse # "open"
    BY <2>1 DEF LetGo
  <2>3. /\ Becomes(v, wire, session, "nothing") /\ phase = "open" /\ phase' = "gone"
        /\ props' = props /\ streamed' = streamed
    BY <1>1 DEF Destroy
  <2> HIDE DEF v
  <2>4. /\ viewer' = v /\ Kept(viewer, viewer') /\ Fits /\ endedBy' = endedBy
        /\ session' \in {session, NoSession}
    BY <1>c, <2>1, <2>2, <2>3, KeptByBecoming
  <2> QED BY <2>1, <2>3, <2>4 DEF Tended
<1>2. CASE ConnectTick
  <2> DEFINE tried == [viewer EXCEPT !.attempts = @ + 1]
             u == stopConnecting(viewer)
             v == IF echo THEN bindChannel(tried)
                  ELSE IF tried.attempts >= MaxAttempts
                    THEN connectSSE(stopConnecting(tried))
                  ELSE tried
  <2>1. /\ Becomes(v, wire, session, "nothing") /\ phase = "open" /\ phase' = "open"
        /\ props' = props /\ streamed' = streamed /\ viewer.connectTimer
    BY <1>2 DEF ConnectTick
  <2>2. ~viewer.finished
    BY <1>b, <2>1 DEF EndLetsGo, LetGo
  <2>3. stopConnecting(tried) = u
    BY <1>b DEF stopConnecting, Viewer
  <2>4. /\ u \in Viewer /\ KnowsAs(viewer, u) /\ ShowsAs(viewer, u) /\ u.fetching = viewer.fetching
        /\ u.streamedLogLines = viewer.streamedLogLines /\ u.sse = viewer.sse
        /\ u.bound = viewer.bound /\ viewer.bound \subseteq Channels
    BY <1>b, StopFacts DEF Viewer
  <2>5. /\ Kept(viewer, v) /\ (v.sse = "open" => viewer.sse = "open")
        /\ viewer.bound \subseteq v.bound
    <3>1. CASE echo
      <4>1. v = [u EXCEPT !.bound = Channels]
        BY <2>3, <3>1 DEF bindChannel
      <4> HIDE DEF u, v
      <4> QED BY <2>4, <4>1 DEF Kept, Viewer, KnowsAs, ShowsAs
    <3>2. CASE ~echo /\ tried.attempts >= MaxAttempts
      <4>1. v = connectSSE(u)
        BY <2>3, <3>2
      <4>2. v = u \/ v = [u EXCEPT !.sse = "connecting"]
        BY <4>1 DEF connectSSE
      <4> HIDE DEF u, v
      <4> QED BY <2>4, <4>2 DEF Kept, Viewer, KnowsAs, ShowsAs
    <3>3. CASE ~echo /\ ~(tried.attempts >= MaxAttempts)
      <4>1. v = [viewer EXCEPT !.attempts = viewer.attempts + 1]
        BY <3>3
      <4>2. viewer.attempts \in 0..MaxAttempts /\ MaxAttempts \in Nat
        BY <1>b, ViewerAssumption DEF Viewer
      <4>3. tried.attempts = viewer.attempts + 1
        BY <1>b DEF Viewer
      <4>4. viewer.attempts + 1 \in 0..MaxAttempts
        BY <3>3, <4>2, <4>3
      <4> HIDE DEF v
      <4> QED BY <1>b, <4>1, <4>4 DEF Kept, Viewer, KnowsAs, ShowsAs
    <3> QED BY <3>1, <3>2, <3>3
  <2> HIDE DEF v
  <2>6. /\ viewer' = v /\ Kept(viewer, viewer') /\ Fits /\ endedBy' = endedBy
        /\ session' \in {session, NoSession} /\ wire' = wire
    BY <1>c, <2>1, <2>5, KeptByBecoming
  <2> QED BY <2>1, <2>2, <2>6 DEF Tended
<1>3. CASE WatchdogTick
  <2> DEFINE v == connectSSE(viewer)
  <2>1. /\ Becomes(v, wire, session, "nothing") /\ phase = "open" /\ phase' = "open"
        /\ props' = props /\ streamed' = streamed /\ ~viewer.finished
    BY <1>3 DEF WatchdogTick
  <2>2. v = viewer \/ v = [viewer EXCEPT !.sse = "connecting"]
    BY DEF connectSSE
  <2> HIDE DEF v
  <2>3. Kept(viewer, v) /\ (v.sse = "open" => viewer.sse = "open") /\ v.bound = viewer.bound
    BY <1>b, <2>2 DEF Kept, Viewer, KnowsAs, ShowsAs
  <2>4. /\ viewer' = v /\ Kept(viewer, viewer') /\ Fits /\ endedBy' = endedBy
        /\ session' \in {session, NoSession} /\ wire' = wire
    BY <1>c, <2>1, <2>3, KeptByBecoming
  <2> QED BY <2>1, <2>4 DEF Tended
<1>4. CASE Quiet
  <2>1. /\ phase = "open" /\ phase' = "open" /\ props' = props /\ streamed' = streamed
        /\ ~viewer.finished /\ viewer' = [viewer EXCEPT !.idle = TRUE] /\ endedBy' = endedBy
        /\ UNCHANGED <<subscribed, wire, session>>
    BY <1>4 DEF Quiet
  <2>2. Kept(viewer, viewer') /\ viewer'.bound = viewer.bound /\ viewer'.sse = viewer.sse
    BY <1>b, <2>1 DEF Kept, Viewer, KnowsAs, ShowsAs
  <2>3. Fits
    BY <1>b, <2>1, <2>2, Types DEF Fits, TypeOK, SessionIsStreamed
  <2> QED BY <2>1, <2>2, <2>3 DEF Tended
<1>5. CASE StreamOpens
  <2> DEFINE status == [kind |-> "status", text |-> IF row THEN End ELSE "building"]
             a == markActivity(viewer)
  <2>1. /\ phase = "open" /\ phase' = "open" /\ props' = props /\ streamed'
        /\ viewer.sse = "connecting" /\ viewer' = [a EXCEPT !.sse = "open"] /\ endedBy' = endedBy
        /\ UNCHANGED <<subscribed, wire>>
        /\ session' = [NoSession EXCEPT !.pc = IF row THEN "over" ELSE "read", !.queue = <<status>>]
    BY <1>5 DEF StreamOpens
  <2>2. ~viewer.finished
    BY <1>b, <2>1 DEF EndLetsGo, LetGo
  <2>3. WellFormed(a) /\ HoldsAs(viewer, a) /\ Kept(viewer, a)
    BY <1>b, ActivityFacts DEF Kept, WellFormed
  <2> HIDE DEF a
  <2>4. Kept(viewer, viewer') /\ viewer'.bound = viewer.bound /\ viewer'.sse = "open"
    BY <2>1, <2>3 DEF Kept, Viewer, KnowsAs, ShowsAs, HoldsAs
  <2>5. status \in Frame
    BY OwnFacts DEF Frame
  <2>6. session' \in Session /\ session'.pc # "none" /\ session' = Answer
    <3> DEFINE pc == IF row THEN "over" ELSE "read"
               queue == <<status>>
    <3>1. queue \in Seq(Frame)
      BY <2>5
    <3>2. pc \in {"read", "over"}
      OBVIOUS
    <3>3. session' = [NoSession EXCEPT !.pc = pc, !.queue = queue]
      BY <2>1
    <3> HIDE DEF pc, queue
    <3>4. session' = [pc |-> pc, queue |-> queue, upto |-> 0, whole |-> FALSE]
      BY <3>3 DEF NoSession
    <3>5. 0 \in 0..Len(Own)
      BY Lengths
    <3>6. session' = Answer
      BY <3>4 DEF pc, queue, Answer
    <3> QED BY <3>1, <3>2, <3>4, <3>5, <3>6 DEF Session
  <2>7. Fits
    <3>1. session' \in Session /\ session'.pc # "none"
      BY <2>6
    <3>2. /\ subscribed' \subseteq viewer'.bound /\ wire' = wire /\ streamed'
          /\ wire' \subseteq [channel : subscribed', message : Messages,
                              from : {"socket", "callback", "other"}]
      BY <1>b, <2>1, <2>4 DEF TypeOK
    <3> QED BY <2>4, <3>1, <3>2 DEF Fits
  <2> QED BY <2>1, <2>2, <2>4, <2>6, <2>7 DEF Tended
<1>6. CASE StreamRefused
  <2>1. /\ phase = "open" /\ phase' = "open" /\ props' = props /\ streamed' = streamed
        /\ viewer.sse = "connecting" /\ viewer' = [viewer EXCEPT !.sse = "failed"]
        /\ endedBy' = endedBy /\ UNCHANGED <<subscribed, wire, session>>
    BY <1>6 DEF StreamRefused
  <2>2. ~viewer.finished
    BY <1>b, <2>1 DEF EndLetsGo, LetGo
  <2>3. Kept(viewer, viewer') /\ viewer'.bound = viewer.bound /\ viewer'.sse = "failed"
    BY <1>b, <2>1 DEF Kept, Viewer, KnowsAs, ShowsAs
  <2>4. Fits
    BY <1>b, <2>1, <2>3, Types DEF Fits, TypeOK, SessionIsStreamed
  <2> QED BY <2>1, <2>2, <2>3, <2>4 DEF Tended
<1>7. CASE StreamBreaks \/ StreamTimesOut
  <2>1. viewer.sse = "open"
    BY <1>7, <1>b DEF StreamBreaks, StreamTimesOut, TypeOK
  <2>2. phase = "open" /\ ~viewer.finished
    BY <1>b, <2>1 DEF EndLetsGo, Unopened, LetGo, TypeOK
  <2>3. /\ phase' = phase /\ props' = props /\ streamed' = streamed
        /\ viewer' = [viewer EXCEPT !.sse = "connecting"] /\ session' = NoSession
        /\ endedBy' = endedBy /\ UNCHANGED <<subscribed, wire>>
    BY <1>7 DEF StreamBreaks, StreamTimesOut, Reconnects
  <2>4. Kept(viewer, viewer') /\ viewer'.bound = viewer.bound /\ viewer'.sse = "connecting"
    BY <1>b, <2>3 DEF Kept, Viewer, KnowsAs, ShowsAs
  <2>5. Fits
    BY <1>b, <2>3, <2>4, NoSessionFacts DEF Fits, TypeOK
  <2> QED BY <2>2, <2>3, <2>4, <2>5 DEF Tended
<1> QED BY <1>1, <1>2, <1>3, <1>4, <1>5, <1>6, <1>7 DEF Tend, Timers

\* What is left to say of a step that fits.
LEMMA BaseFromFits ==
  ASSUME Fits, Counted', WellFormed(viewer'), endedBy' \in Causes,
         phase' \in {"closed", "rendered", "open", "gone"},
         props' \in [isTerminal : BOOLEAN, initialLogs : {Earlier, Persisted}],
         Unopened', EndLetsGo', EndedOnce'
  PROVE  Base'
<1>1. SessionIsStreamed'
  BY DEF Fits, SessionIsStreamed
<1>2. viewer' \in Viewer /\ viewer'.streamedLogLines <= Len(viewer'.screen)
  BY DEF WellFormed
<1>3. TypeOK'
  BY <1>2 DEF Fits, Counted, TypeOK, Session
<1>4. (WellFormed(viewer))'
  BY DEF WellFormed
<1> QED BY <1>1, <1>3, <1>4 DEF Base

LEMMA TendBase ==
  ASSUME Base, Tend
  PROVE  Base'
<1>1. Tended
  BY TendFacts
<1>2. /\ TypeOK /\ WellFormed(viewer) /\ EndedOnce
  BY DEF Base
<1>3. UNCHANGED <<echo, sourceVars, airVars, missed>> /\ streamed' \in BOOLEAN
  BY <1>2 DEF Tend, Timers, Destroy, ConnectTick, Quiet, WatchdogTick, StreamOpens, StreamRefused,
              StreamBreaks, StreamTimesOut, Reconnects, TypeOK
<1>4. cuts' \in 0..MaxCuts
  <2>1. cuts \in 0..MaxCuts /\ MaxCuts \in Nat
    BY <1>2, ViewerAssumption DEF TypeOK
  <2>2. cuts' = cuts \/ (cuts < MaxCuts /\ cuts' = cuts + 1)
    BY DEF Tend, Timers, Destroy, ConnectTick, Quiet, WatchdogTick, StreamOpens, StreamRefused,
           StreamBreaks, StreamTimesOut, Reconnects
  <2> QED BY <2>1, <2>2
<1>5. Counted'
  BY <1>2, <1>3, <1>4 DEF Counted, TypeOK, sourceVars, airVars
<1>6. WellFormed(viewer')
  BY <1>1, <1>2, KeptIsWellFormed DEF Tended
<1>7. (LetGo(viewer))' = LetGo(viewer')
  BY DEF LetGo
<1>8. Unopened' /\ EndLetsGo' /\ EndedOnce'
  BY <1>1, <1>2, <1>7 DEF Tended, Kept, KnowsAs, Unopened, EndLetsGo, EndedOnce
<1>9. /\ phase' \in {"closed", "rendered", "open", "gone"} /\ endedBy' \in Causes
      /\ props' \in [isTerminal : BOOLEAN, initialLogs : {Earlier, Persisted}]
  BY <1>1, <1>2 DEF Tended, TypeOK
<1> QED BY <1>1, <1>5, <1>6, <1>8, <1>9, BaseFromFits DEF Tended

\* The steps by which the component shows or learns something leave the rest alone.
Elsewhere == UNCHANGED <<echo, sourceVars, airVars, cuts, missed, streamed>>

LEMMA CountedElsewhere ==
  ASSUME TypeOK, Elsewhere
  PROVE  Counted'
BY DEF Counted, TypeOK, Elsewhere, sourceVars, airVars

LEMMA FitsByBecoming ==
  ASSUME Base, NEW v, WellFormed(v), NEW w \in SUBSET wire, NEW s \in Session,
         s.pc = session.pc, NEW cause \in Causes, Becomes(v, w, s, cause),
         v.sse = "open" => viewer.sse = "open", streamed' = streamed
  PROVE  /\ viewer' = v /\ Fits /\ endedBy' \in Causes
         /\ wire' \subseteq w /\ (viewer.bound \subseteq v.bound => wire' = w)
         /\ session' = IF v.sse = "open" THEN s ELSE NoSession
         /\ endedBy' = IF v.finished /\ ~viewer.finished THEN cause ELSE endedBy
<1>1. TypeOK /\ SessionIsStreamed
  BY DEF Base
<1>2. /\ viewer' = v /\ subscribed' \subseteq v.bound /\ wire' \subseteq wire
      /\ wire' \subseteq [channel : subscribed', message : Messages,
                          from : {"socket", "callback", "other"}]
      /\ session' \in Session /\ (session'.pc = "none") = (v.sse # "open")
      /\ session' = IF v.sse = "open" THEN s ELSE NoSession
      /\ endedBy' = IF v.finished /\ ~viewer.finished THEN cause ELSE endedBy
      /\ endedBy' \in Causes
  BY <1>1, BecomesFacts
<1>3. (session'.pc = "none" => session' = NoSession) /\ (session'.pc # "none" => streamed')
  BY <1>1, <1>2, NoSessionFacts DEF SessionIsStreamed
<1>4. wire' \subseteq w /\ (viewer.bound \subseteq v.bound => wire' = w)
  BY <1>1, WireIsBound DEF Becomes
<1> QED BY <1>2, <1>3, <1>4 DEF Fits

Rendered ==
  /\ phase = "closed" /\ phase' = "rendered" /\ Elsewhere /\ Fits
  /\ props' = [isTerminal |-> row, initialLogs |-> IF saved THEN Persisted ELSE Earlier]
  /\ WellFormed(viewer') /\ LetGo(viewer') /\ viewer'.finished = row
  /\ viewer'.currentStatus = IF row THEN End ELSE "building"
  /\ viewer'.lastStatusEvent = "none" /\ viewer'.screen = <<>> /\ viewer'.fetching = "no"
  /\ endedBy' = IF row THEN "row" ELSE endedBy
  /\ wire' = {} /\ session' = NoSession

LEMMA RenderFacts ==
  ASSUME Base, Render
  PROVE  Rendered
<1>b. TypeOK /\ Unopened /\ SessionIsStreamed
  BY DEF Base
<1>1. /\ phase = "closed" /\ phase' = "rendered" /\ Elsewhere
      /\ UNCHANGED <<subscribed, wire, session>>
      /\ props' = [isTerminal |-> row, initialLogs |-> IF saved THEN Persisted ELSE Earlier]
      /\ viewer' = NewViewer(row, IF row THEN End ELSE "building")
      /\ endedBy' = IF row THEN "row" ELSE endedBy
  BY DEF Render, Elsewhere
<1>2. wire = {} /\ subscribed = {} /\ session = NoSession
  BY <1>b, <1>1, LetGoFacts DEF Unopened
<1>3. row \in BOOLEAN /\ (IF row THEN End ELSE "building") \in Statuses
  BY <1>b, OwnFacts, TerminalFacts DEF TypeOK
<1>4. /\ WellFormed(viewer') /\ LetGo(viewer') /\ viewer'.finished = row
      /\ viewer'.currentStatus = IF row THEN End ELSE "building"
      /\ viewer'.lastStatusEvent = "none" /\ viewer'.screen = <<>> /\ viewer'.fetching = "no"
  BY <1>1, <1>3, NewViewerFacts
<1>5. Fits
  BY <1>1, <1>2, <1>4, NoSessionFacts DEF Fits, LetGo
<1> QED BY <1>1, <1>2, <1>4, <1>5 DEF Rendered

Opened ==
  /\ phase = "rendered" /\ phase' = "open" /\ props' = props /\ Elsewhere /\ Fits
  /\ WellFormed(viewer') /\ KnowsAs(viewer, viewer') /\ viewer'.fetching = "no"
  /\ viewer.seenLines \subseteq viewer'.seenLines
  /\ ToSet(viewer'.screen) \subseteq ToSet(props.initialLogs)
  /\ viewer.finished => LetGo(viewer')
  /\ viewer'.sse = "none" /\ endedBy' = endedBy
  /\ wire' = {} /\ session' = NoSession

LEMMA StoredLines == Earlier \in Seq(Lines) /\ Persisted \in Seq(Lines)
<1>1. /\ Earlier \in Seq(STRING) /\ Persisted \in Seq(STRING)
      /\ ToSet(Earlier) \subseteq Lines /\ ToSet(Persisted) \subseteq Lines
  BY ViewerAssumption DEF Lines
<1>2. ASSUME NEW s \in Seq(STRING), ToSet(s) \subseteq Lines PROVE s \in Seq(Lines)
  <2>1. Len(s) \in Nat /\ DOMAIN s = 1..Len(s) /\ s = [i \in 1..Len(s) |-> s[i]]
    OBVIOUS
  <2>2. \A i \in 1..Len(s) : s[i] \in Lines
    BY <1>2, <2>1 DEF ToSet
  <2> QED BY <2>1, <2>2, SeqDef
<1> QED BY <1>1, <1>2

LEMMA OpenFacts ==
  ASSUME Base, InitComponent
  PROVE  Opened
<1>b. TypeOK /\ Unopened /\ SessionIsStreamed /\ WellFormed(viewer)
  BY DEF Base
<1> DEFINE lines == props.initialLogs
           loaded == addStoredLines(viewer, lines)
           c == connectEcho(loaded)
           v == IF loaded.finished THEN loaded ELSE startRealtimeWatchdog(c)
<1>1. /\ phase = "rendered" /\ phase' = "open" /\ props' = props /\ Elsewhere
      /\ Becomes(v, wire, session, "row")
  BY DEF InitComponent, Elsewhere
<1>2. LetGo(viewer) /\ viewer.screen = <<>> /\ viewer.fetching = "no"
  BY <1>b, <1>1 DEF Unopened
<1>3. lines \in Seq(Lines)
  BY <1>b, StoredLines DEF TypeOK
<1>4. Adds(viewer, loaded, lines)
  BY <1>b, <1>3, StoredFacts
<1>5. ToSet(viewer.screen) = {}
  BY <1>2 DEF ToSet
<1>6. /\ WellFormed(loaded) /\ loaded \in Viewer /\ HoldsAs(viewer, loaded) /\ KnowsAs(viewer, loaded)
      /\ viewer.seenLines \subseteq loaded.seenLines /\ loaded.fetching = "no"
      /\ ToSet(loaded.screen) \subseteq ToSet(lines) /\ loaded.sse = "none"
  BY <1>2, <1>4, <1>5 DEF Adds, WellFormed, HoldsAs, LetGo
<1> HIDE DEF lines, loaded
<1>7. Kept(loaded, c) /\ c.sse = "none"
  <2>1. CASE echo
    <3> DEFINE u == stopConnecting(loaded)
    <3>1. c = [u EXCEPT !.bound = Channels]
      BY <2>1 DEF connectEcho, bindChannel
    <3>2. /\ u \in Viewer /\ KnowsAs(loaded, u) /\ ShowsAs(loaded, u) /\ u.sse = loaded.sse
          /\ u.fetching = loaded.fetching /\ u.streamedLogLines = loaded.streamedLogLines
      BY <1>6, StopFacts
    <3> HIDE DEF u, c
    <3> QED BY <1>6, <3>1, <3>2 DEF Kept, Viewer, KnowsAs, ShowsAs
  <2>2. CASE ~echo
    <3>1. c = [loaded EXCEPT !.connectTimer = TRUE]
      BY <2>2 DEF connectEcho
    <3> HIDE DEF c
    <3> QED BY <1>6, <3>1 DEF Kept, Viewer, KnowsAs, ShowsAs
  <2> QED BY <2>1, <2>2
<1> HIDE DEF c
<1>8. Kept(loaded, v) /\ v.sse = "none" /\ (loaded.finished => v = loaded)
  <2>1. CASE loaded.finished
    BY <1>6, <2>1 DEF Kept, KnowsAs, ShowsAs
  <2>2. CASE ~loaded.finished
    <3>1. v = [c EXCEPT !.watchdogTimer = TRUE]
      BY <2>2 DEF startRealtimeWatchdog
    <3> HIDE DEF v
    <3> QED BY <1>7, <2>2, <3>1 DEF Kept, Viewer, KnowsAs, ShowsAs
  <2> QED BY <2>1, <2>2
<1> HIDE DEF v
<1>9. WellFormed(v)
  BY <1>6, <1>8, KeptIsWellFormed
<1>10. "row" \in Causes /\ session \in Session /\ streamed' = streamed
  BY <1>b, <1>1, Types DEF Causes, Elsewhere
<1>11. /\ viewer' = v /\ Fits /\ wire' \subseteq wire
       /\ session' = IF v.sse = "open" THEN session ELSE NoSession
       /\ endedBy' = IF v.finished /\ ~viewer.finished THEN "row" ELSE endedBy
  BY <1>1, <1>8, <1>9, <1>10, FitsByBecoming
<1>12. wire = {}
  BY <1>b, <1>2, LetGoFacts
<1>13. KnowsAs(viewer, v) /\ v.fetching = "no" /\ v.screen = loaded.screen /\ v.seenLines = loaded.seenLines
  BY <1>6, <1>8 DEF Kept, KnowsAs, ShowsAs
<1>14. viewer.finished => LetGo(v)
  BY <1>2, <1>6, <1>8 DEF LetGo, HoldsAs, KnowsAs
<1> QED
  BY <1>1, <1>6, <1>8, <1>9, <1>11, <1>12, <1>13, <1>14 DEF Opened, KnowsAs, lines

\* A viewer to which something can still come waits for its end.
LEMMA WaitsForMore ==
  ASSUME Base, phase = "open", wire # {} \/ session.queue # <<>>
  PROVE  Waits(viewer)
<1>1. ~LetGo(viewer)
  BY LetGoFacts, NoSessionFacts DEF Base
<1> QED BY <1>1 DEF Base, EndLetsGo, EndedOnce, Waits

\* What a message or a frame leaves of the page.
Attended ==
  phase = "open" /\ phase' = "open" /\ props' = props /\ Elsewhere /\ Fits /\ Waits(viewer)

Received(f) ==
  /\ Attended
  /\ \/ /\ f.message.kind = "status"
        /\ HasEnded(viewer') /\ ShowsAs(viewer, viewer')
        /\ viewer'.currentStatus = f.message.text
        /\ endedBy' = f.from /\ wire' = {} /\ session' = NoSession
     \/ /\ f.message.kind # "status"
        /\ GoesOn(viewer, viewer') /\ ShowsMore(viewer, viewer', f.message.text)
        /\ endedBy' = endedBy /\ wire' = wire \ {f} /\ session' = session

LEMMA ReceiveFacts ==
  ASSUME Base, Receive
  PROVE  \E f \in wire : Received(f)
<1>b. TypeOK /\ SessionIsStreamed /\ wire \subseteq Wire /\ session \in Session
  BY Types DEF Base
<1>1. PICK f \in wire : Becomes(onBroadcast(viewer, f.message), wire \ {f}, session, f.from)
  BY DEF Receive
<1>2. phase = "open" /\ phase' = "open" /\ props' = props /\ Elsewhere
  BY DEF Receive, Elsewhere
<1>3. f.message \in Messages /\ f.from \in Causes /\ wire # {}
  BY <1>b DEF Wire, Causes
<1>4. Waits(viewer)
  BY <1>2, <1>3, WaitsForMore
<1> DEFINE v == onBroadcast(viewer, f.message)
<1>5. \/ /\ f.message.kind = "status"
         /\ HasEnded(v) /\ ShowsAs(viewer, v) /\ v.currentStatus = f.message.text
      \/ /\ f.message.kind # "status"
         /\ GoesOn(viewer, v) /\ ShowsMore(viewer, v, f.message.text)
  BY <1>3, <1>4, BroadcastFacts
<1> HIDE DEF v
<1>6. WellFormed(v) /\ (v.sse = "open" => viewer.sse = "open")
  BY <1>5 DEF HasEnded, GoesOn, Waits, LetGo, HoldsAs
<1>7. wire \ {f} \in SUBSET wire /\ streamed' = streamed
  BY <1>2 DEF Elsewhere
<1>8. /\ viewer' = v /\ Fits /\ wire' \subseteq wire \ {f}
      /\ viewer.bound \subseteq v.bound => wire' = wire \ {f}
      /\ session' = IF v.sse = "open" THEN session ELSE NoSession
      /\ endedBy' = IF v.finished /\ ~viewer.finished THEN f.from ELSE endedBy
  BY <1>b, <1>1, <1>3, <1>6, <1>7, FitsByBecoming DEF v
<1>9. Attended
  BY <1>2, <1>4, <1>8 DEF Attended
<1>10. CASE /\ f.message.kind = "status"
            /\ HasEnded(v) /\ ShowsAs(viewer, v) /\ v.currentStatus = f.message.text
  <2>1. v.finished /\ ~viewer.finished /\ LetGo(v)
    BY <1>4, <1>10 DEF HasEnded, Waits
  <2>2. wire' = {}
    BY <1>1, <2>1 DEF Becomes, LetGo, v
  <2> QED BY <1>8, <1>9, <1>10, <2>1, <2>2 DEF Received, LetGo
<1>11. CASE /\ f.message.kind # "status"
            /\ GoesOn(viewer, v) /\ ShowsMore(viewer, v, f.message.text)
  <2>1. ~v.finished /\ v.sse = viewer.sse /\ v.bound = viewer.bound
    BY <1>11 DEF GoesOn, Waits, HoldsAs
  <2>2. session' = session
    BY <1>b, <1>8, <2>1 DEF TypeOK, SessionIsStreamed
  <2> QED BY <1>8, <1>9, <1>11, <2>1, <2>2 DEF Received
<1> QED BY <1>5, <1>10, <1>11

Popped == [session EXCEPT !.queue = Tail(@)]

EndOfStream(f) ==
  IF f.kind = "done" THEN "early" ELSE IF session.whole THEN "stream" ELSE "late"

Framed(f) ==
  /\ Attended /\ wire' \subseteq wire
  /\ \/ /\ Ends(f) \/ f.kind = "done"
        /\ HasEnded(viewer') /\ ShowsAs(viewer, viewer')
        /\ Ends(f) => viewer'.currentStatus = f.text
        /\ endedBy' = EndOfStream(f) /\ wire' = {} /\ session' = NoSession
     \/ /\ ~Ends(f) /\ GoesOn(viewer, viewer')
        /\ \/ IsLine(f) /\ ShowsMore(viewer, viewer', f.text)
           \/ ~IsLine(f) /\ ShowsAs(viewer, viewer')
        /\ endedBy' = endedBy /\ wire' = wire /\ session' = Popped

LEMMA QueueFacts ==
  ASSUME NEW q \in Seq(Frame), q # <<>>
  PROVE  /\ Head(q) \in Frame /\ Head(q) = q[1] /\ Tail(q) \in Seq(Frame)
         /\ Len(q) \in Nat \ {0} /\ Len(Tail(q)) = Len(q) - 1
         /\ DOMAIN q = 1..Len(q) /\ DOMAIN Tail(q) = 1..Len(q) - 1
         /\ \A i \in 1..Len(q) - 1 : Tail(q)[i] = q[i + 1]
OBVIOUS

LEMMA FramedFacts ==
  ASSUME Base, ReceiveFrame
  PROVE  session.queue # <<>> /\ Framed(Head(session.queue))
<1>b. TypeOK /\ SessionIsStreamed /\ session \in Session /\ session.queue \in Seq(Frame)
  BY Types DEF Base
<1> DEFINE f == Head(session.queue)
           v == onFrame(viewer, f)
           cause == EndOfStream(f)
<1>1. /\ phase = "open" /\ phase' = "open" /\ props' = props /\ Elsewhere
      /\ session.queue # <<>> /\ Becomes(v, wire, Popped, cause)
  BY DEF ReceiveFrame, Elsewhere, Popped, EndOfStream
<1>2. Waits(viewer)
  BY <1>1, WaitsForMore
<1>3. f \in Frame /\ Tail(session.queue) \in Seq(Frame)
  BY <1>b, <1>1, QueueFacts
<1>4. Popped \in Session /\ Popped.pc = session.pc
  BY <1>b, <1>3 DEF Popped, Session
<1>5. cause \in Causes
  BY DEF EndOfStream, Causes
<1> HIDE DEF f, cause
<1>6. \/ Ends(f) /\ HasEnded(v) /\ ShowsAs(viewer, v) /\ v.currentStatus = f.text
      \/ f.kind = "done" /\ HasEnded(v) /\ ShowsAs(viewer, v)
      \/ IsLine(f) /\ GoesOn(viewer, v) /\ ShowsMore(viewer, v, f.text)
      \/ ~Ends(f) /\ ~IsLine(f) /\ GoesOn(viewer, v) /\ ShowsAs(viewer, v)
  BY <1>2, <1>3, FrameFacts
<1> HIDE DEF v
<1>7. WellFormed(v) /\ (v.sse = "open" => viewer.sse = "open")
  BY <1>6 DEF HasEnded, GoesOn, Waits, LetGo, HoldsAs
<1>8. streamed' = streamed /\ wire \in SUBSET wire
  BY <1>1 DEF Elsewhere
<1>9. /\ viewer' = v /\ Fits /\ wire' \subseteq wire
      /\ viewer.bound \subseteq v.bound => wire' = wire
      /\ session' = IF v.sse = "open" THEN Popped ELSE NoSession
      /\ endedBy' = IF v.finished /\ ~viewer.finished THEN cause ELSE endedBy
  BY <1>1, <1>4, <1>5, <1>7, <1>8, FitsByBecoming
<1>10. Attended
  BY <1>1, <1>2, <1>9 DEF Attended
<1>11. CASE HasEnded(v) /\ ShowsAs(viewer, v) /\ (Ends(f) \/ f.kind = "done")
            /\ (Ends(f) => v.currentStatus = f.text)
  <2>1. v.finished /\ ~viewer.finished /\ LetGo(v)
    BY <1>2, <1>11 DEF HasEnded, Waits
  <2>2. wire' = {}
    BY <1>1, <2>1 DEF Becomes, LetGo
  <2> QED BY <1>1, <1>9, <1>10, <1>11, <2>1, <2>2 DEF Framed, LetGo, f, cause
<1>12. CASE /\ GoesOn(viewer, v) /\ ~Ends(f)
            /\ \/ IsLine(f) /\ ShowsMore(viewer, v, f.text)
               \/ ~IsLine(f) /\ ShowsAs(viewer, v)
  <2>1. ~v.finished /\ v.sse = viewer.sse /\ v.bound = viewer.bound
    BY <1>12 DEF GoesOn, Waits, HoldsAs
  <2>2. session' = Popped
    <3>1. session.pc # "none"
      BY <1>b, <1>1, NoSessionFacts DEF SessionIsStreamed
    <3> QED BY <1>b, <1>9, <2>1, <3>1 DEF TypeOK
  <2> QED BY <1>1, <1>9, <1>10, <1>12, <2>1, <2>2 DEF Framed, f
<1>13. /\ IsLine(f) => ~Ends(f)
       /\ Ends(f) => f.kind # "done"
  BY DEF IsLine, Ends
<1> QED BY <1>6, <1>11, <1>12, <1>13

Fetched ==
  /\ phase = "open" /\ phase' = "open" /\ props' = props /\ Elsewhere /\ Fits
  /\ viewer.fetching = "asked"
  /\ WellFormed(viewer') /\ HoldsAs(viewer, viewer') /\ KnowsAs(viewer, viewer')
  /\ viewer.seenLines \subseteq viewer'.seenLines /\ viewer'.fetching = "done"
  /\ endedBy' = endedBy /\ wire' = wire /\ session' = session

LEMMA FetchFacts ==
  ASSUME Base, FetchAnswered
  PROVE  Fetched
<1>b. TypeOK /\ SessionIsStreamed /\ session \in Session /\ WellFormed(viewer) /\ viewer \in Viewer
  BY Types DEF Base
<1> DEFINE lines == IF saved THEN Persisted ELSE Earlier
           asked == [viewer EXCEPT !.fetching = "done"]
           told == addSystemLine(asked, "persisted")
           all == addStoredLines(told, lines)
<1>1. /\ phase = "open" /\ phase' = "open" /\ props' = props /\ Elsewhere
      /\ viewer.fetching = "asked"
  BY DEF FetchAnswered, Elsewhere
<1>2. Becomes(told, wire, session, "nothing") \/ Becomes(all, wire, session, "nothing")
  BY DEF FetchAnswered
<1>3. /\ WellFormed(asked) /\ HoldsAs(viewer, asked) /\ KnowsAs(viewer, asked)
      /\ ShowsAs(viewer, asked) /\ asked.fetching = "done"
  BY <1>b DEF WellFormed, Viewer, HoldsAs, KnowsAs, ShowsAs
<1>4. lines \in Seq(Lines)
  BY StoredLines
<1> HIDE DEF lines, asked
<1>5. /\ WellFormed(told) /\ HoldsAs(asked, told) /\ KnowsAs(asked, told)
      /\ ShowsAs(asked, told) /\ told.fetching = asked.fetching
  BY <1>3, NoticeFacts
<1> HIDE DEF told
<1>6. Adds(told, all, lines)
  BY <1>4, <1>5, StoredFacts
<1> HIDE DEF all
<1>7. /\ WellFormed(told) /\ HoldsAs(viewer, told) /\ KnowsAs(viewer, told)
      /\ viewer.seenLines \subseteq told.seenLines /\ told.fetching = "done"
  BY <1>3, <1>5 DEF HoldsAs, KnowsAs, ShowsAs
<1>8. /\ WellFormed(all) /\ HoldsAs(viewer, all) /\ KnowsAs(viewer, all)
      /\ viewer.seenLines \subseteq all.seenLines /\ all.fetching = "done"
  BY <1>6, <1>7 DEF Adds, HoldsAs, KnowsAs
<1>9. PICK v \in {told, all} : Becomes(v, wire, session, "nothing")
  BY <1>2
<1>10. /\ WellFormed(v) /\ HoldsAs(viewer, v) /\ KnowsAs(viewer, v)
       /\ viewer.seenLines \subseteq v.seenLines /\ v.fetching = "done"
  BY <1>7, <1>8
<1>11. "nothing" \in Causes /\ wire \in SUBSET wire /\ streamed' = streamed
       /\ (v.sse = "open" => viewer.sse = "open")
  BY <1>1, <1>10 DEF Causes, Elsewhere, HoldsAs
<1>12. /\ viewer' = v /\ Fits
       /\ viewer.bound \subseteq v.bound => wire' = wire
       /\ session' = IF v.sse = "open" THEN session ELSE NoSession
       /\ endedBy' = IF v.finished /\ ~viewer.finished THEN "nothing" ELSE endedBy
  BY <1>b, <1>9, <1>10, <1>11, FitsByBecoming
<1>13. session' = session /\ endedBy' = endedBy /\ wire' = wire
  BY <1>b, <1>10, <1>12 DEF TypeOK, SessionIsStreamed, HoldsAs, KnowsAs
<1> QED BY <1>1, <1>10, <1>12, <1>13 DEF Fetched

\* The steps by which the component shows or learns something.
Page ==
  \/ Rendered \/ Opened \/ (\E f \in wire : Received(f))
  \/ (session.queue # <<>> /\ Framed(Head(session.queue))) \/ Fetched

LEMMA PageBase ==
  ASSUME Base, Page
  PROVE  Base'
<1>b. TypeOK /\ Unopened /\ EndLetsGo /\ EndedOnce
  BY DEF Base
<1>c. Elsewhere /\ Fits
  BY DEF Page, Rendered, Opened, Received, Framed, Fetched, Attended
<1>d. Counted'
  BY <1>b, <1>c, CountedElsewhere
<1>e. (LetGo(viewer))' = LetGo(viewer')
  BY DEF LetGo
<1>f. "none" \notin TerminalStatuses
  BY ViewerAssumption
<1>1. CASE Rendered
  <2>1. /\ WellFormed(viewer') /\ endedBy' \in Causes
        /\ phase' \in {"closed", "rendered", "open", "gone"}
    BY <1>1, <1>b DEF Rendered, Causes, TypeOK
  <2>2. props' \in [isTerminal : BOOLEAN, initialLogs : {Earlier, Persisted}]
    BY <1>1, <1>b DEF Rendered, TypeOK
  <2>3. Unopened' /\ EndLetsGo'
    BY <1>1, <1>b, <1>e DEF Rendered, Unopened, EndLetsGo, Elsewhere
  <2>4. endedBy = "nothing"
    BY <1>1, <1>b DEF Rendered, Unopened, EndedOnce
  <2>6. EndedOnce'
    BY <1>1, <1>b, <1>f, <2>4 DEF Rendered, EndedOnce
  <2> QED BY <1>c, <1>d, <2>1, <2>2, <2>3, <2>6, BaseFromFits
<1>2. CASE Opened
  <2>1. /\ WellFormed(viewer') /\ endedBy' \in Causes
        /\ phase' \in {"closed", "rendered", "open", "gone"}
        /\ props' \in [isTerminal : BOOLEAN, initialLogs : {Earlier, Persisted}]
    BY <1>2, <1>b DEF Opened, TypeOK
  <2>2. Unopened' /\ EndLetsGo' /\ EndedOnce'
    BY <1>2, <1>b, <1>e DEF Opened, Unopened, EndLetsGo, EndedOnce, KnowsAs
  <2> QED BY <1>c, <1>d, <2>1, <2>2, BaseFromFits
<1>3. ASSUME NEW f \in wire, Received(f) PROVE Base'
  <2>1. f.from \in {"socket", "callback", "other"}
    BY <1>b DEF TypeOK
  <2>2. /\ WellFormed(viewer') /\ endedBy' \in Causes
        /\ phase' \in {"closed", "rendered", "open", "gone"}
        /\ props' \in [isTerminal : BOOLEAN, initialLogs : {Earlier, Persisted}]
    BY <1>3, <1>b, <2>1 DEF Received, Attended, TypeOK, HasEnded, GoesOn, Waits, Causes
  <2>3. Unopened' /\ EndLetsGo'
    BY <1>3, <1>e DEF Received, Attended, Unopened, EndLetsGo, HasEnded, GoesOn, Waits
  <2>4. EndedOnce'
    BY <1>3, <1>b, <2>1 DEF Received, Attended, EndedOnce, HasEnded, GoesOn, Waits
  <2> QED BY <1>c, <1>d, <2>2, <2>3, <2>4, BaseFromFits
<1>4. CASE session.queue # <<>> /\ Framed(Head(session.queue))
  <2> DEFINE f == Head(session.queue)
  <2>0. Framed(f) /\ EndOfStream(f) \in Causes \ {"nothing"}
    BY <1>4 DEF EndOfStream, Causes
  <2> HIDE DEF f
  <2>2. /\ WellFormed(viewer') /\ endedBy' \in Causes
        /\ phase' \in {"closed", "rendered", "open", "gone"}
        /\ props' \in [isTerminal : BOOLEAN, initialLogs : {Earlier, Persisted}]
    BY <1>b, <2>0 DEF Framed, Attended, TypeOK, HasEnded, GoesOn, Waits
  <2>3. Unopened' /\ EndLetsGo'
    BY <1>e, <2>0 DEF Framed, Attended, Unopened, EndLetsGo, HasEnded, GoesOn, Waits
  <2>4. EndedOnce'
    BY <1>b, <2>0 DEF Framed, Attended, EndedOnce, HasEnded, GoesOn, Waits
  <2> QED BY <1>c, <1>d, <2>2, <2>3, <2>4, BaseFromFits
<1>5. CASE Fetched
  <2>1. /\ WellFormed(viewer') /\ endedBy' \in Causes
        /\ phase' \in {"closed", "rendered", "open", "gone"}
        /\ props' \in [isTerminal : BOOLEAN, initialLogs : {Earlier, Persisted}]
    BY <1>5, <1>b DEF Fetched, TypeOK
  <2>2. Unopened' /\ EndLetsGo' /\ EndedOnce'
    BY <1>5, <1>b, <1>e DEF Fetched, Unopened, EndLetsGo, EndedOnce, KnowsAs, HoldsAs, LetGo
  <2> QED BY <1>c, <1>d, <2>1, <2>2, BaseFromFits
<1> QED BY <1>1, <1>2, <1>3, <1>4, <1>5 DEF Page

LEMMA StepIsKnown ==
  ASSUME Base, Next
  PROVE  World \/ Tend \/ Page
<1>1. CASE Render
  BY <1>1, RenderFacts DEF Page
<1>2. CASE InitComponent
  BY <1>2, OpenFacts DEF Page
<1>3. CASE Receive
  BY <1>3, ReceiveFacts DEF Page
<1>4. CASE ReceiveFrame
  BY <1>4, FramedFacts DEF Page
<1>5. CASE FetchAnswered
  BY <1>5, FetchFacts DEF Page
<1> QED BY <1>1, <1>2, <1>3, <1>4, <1>5 DEF Next, StreamStep, World, Tend

LEMMA BaseStutters ==
  ASSUME Base, UNCHANGED vars
  PROVE  Base'
BY DEF vars, pageVars, sourceVars, airVars, Base, TypeOK, WellFormed, Unopened, EndLetsGo,
       EndedOnce, SessionIsStreamed, LetGo

LEMMA BaseStep == Base /\ [Next]_vars => Base'
BY StepIsKnown, WorldBase, TendBase, PageBase, BaseStutters

\* The viewer's state, its two connections and the counters around it keep their types,
\* whatever comes by which channel in which order.
THEOREM TypeCorrect == Spec => []TypeOK
<1>1. Spec => []Base
  BY BaseInit, BaseStep, PTL DEF Spec
<1>2. Base => TypeOK
  BY DEF Base
<1> QED BY <1>1, <1>2, PTL

\* A viewer that has finished or was closed holds nothing, whatever it was trying, for
\* every number of attempts and of broken connections.
THEOREM NothingIsHeld == Spec => []NothingHeld
<1>1. Spec => []Base
  BY BaseInit, BaseStep, PTL DEF Spec
<1> QED BY <1>1, HeldByNone, PTL

-----------------------------------------------------------------------------
(***************************************************************************)
(* Why a viewer has finished: what is on its way to it, by either          *)
(* connection, comes from where it says, and an end is the deployment's    *)
(* own unless the application's channel or the endpoint brought it.        *)
(***************************************************************************)
Source ==
  /\ published = Len(Own) => row
  /\ saved => published = Len(Own)
  /\ cleared => aired = Len(Own)

\* With nothing missed, a broadcast of the job is the last one it made.
ComesFrom(f) ==
  \/ f.from = "socket" /\ \E n \in 1..aired : f.message = Own[n] /\ (~missed => n = aired)
  \/ f.from = "callback" /\ f.message = Own[Len(Own)] /\ row
  \/ f.from = "other" /\ otherAired # 0 /\ f.message = Other[otherAired]

WireIsExplained == \A f \in wire : ComesFrom(f)

\* What the stream may carry, the row being terminal or not.
Allowed(f, terminal) ==
  /\ Ends(f) => f.text = End /\ terminal
  /\ f.kind = "done" => "early" \in Faults

QueueIsAllowed == \A k \in DOMAIN session.queue : Allowed(session.queue[k], row)

Explained == Source /\ WireIsExplained /\ QueueIsAllowed /\ FinishedIsExplained

\* The page's steps leave the source and the broadcasting jobs alone.
LEMMA PageLeaves ==
  ASSUME Base, Tend \/ Page
  PROVE  /\ row' = row /\ saved' = saved /\ published' = published /\ cleared' = cleared
         /\ aired' = aired /\ otherAired' = otherAired /\ missed' = missed
         /\ wire' \subseteq wire
<1>1. CASE Tend
  <2>1. Fits
    BY <1>1, TendFacts DEF Tended
  <2> QED BY <1>1, <2>1
          DEF Fits, Tend, Timers, Destroy, ConnectTick, Quiet, WatchdogTick, StreamOpens,
              StreamRefused, StreamBreaks, StreamTimesOut, Reconnects, sourceVars, airVars
<1>2. CASE Page
  <2>1. Elsewhere /\ Fits
    BY <1>2 DEF Page, Rendered, Opened, Received, Framed, Fetched, Attended
  <2> QED BY <2>1 DEF Fits, Elsewhere, sourceVars, airVars
<1> QED BY <1>1, <1>2

\* What the world does to what the viewer knows: the row and the losses stay.
LEMMA WorldKeeps ==
  ASSUME Base, World
  PROVE  /\ row => row'
         /\ missed => missed'
         /\ aired' >= aired
         /\ otherAired = Len(Other) => otherAired' = Len(Other)
         /\ otherAired # 0 => otherAired' # 0
<1>t. TypeOK /\ row \in BOOLEAN /\ aired \in Nat /\ otherAired \in 0..Len(Other)
  BY Types DEF Base, TypeOK
<1>1. row => row'
  BY DEF World, EchoLoads, Subscribed, SocketBreaks, EndRow, Publish, SaveLogs, OtherAirs, Air,
         Skip, ClearBuffer, StreamReads, StreamSubscribes, StreamEndsEarly, sourceVars
<1>2. missed => missed'
  BY DEF World, EchoLoads, Subscribed, SocketBreaks, EndRow, Publish, SaveLogs, OtherAirs, Air,
         Skip, ClearBuffer, StreamReads, StreamSubscribes, StreamEndsEarly
<1>3. aired' = aired \/ aired' = aired + 1
  BY DEF World, EchoLoads, Subscribed, SocketBreaks, EndRow, Publish, SaveLogs, OtherAirs, Air,
         Skip, ClearBuffer, StreamReads, StreamSubscribes, StreamEndsEarly, airVars
<1>4. otherAired' = otherAired \/ (otherAired < Len(Other) /\ otherAired' = otherAired + 1)
  BY DEF World, EchoLoads, Subscribed, SocketBreaks, EndRow, Publish, SaveLogs, OtherAirs, Air,
         Skip, ClearBuffer, StreamReads, StreamSubscribes, StreamEndsEarly, airVars
<1> QED BY <1>t, <1>1, <1>2, <1>3, <1>4, Lengths

LEMMA SourceStep ==
  ASSUME Base, Source, World \/ Tend \/ Page
  PROVE  Source'
<1>t. /\ published \in 0..Len(Own) /\ aired \in 0..published /\ Len(Own) \in Nat \ {0}
      /\ row \in BOOLEAN /\ saved \in BOOLEAN /\ cleared \in BOOLEAN
  BY Types DEF Base, TypeOK
<1>1. CASE Tend \/ Page
  BY <1>1, PageLeaves DEF Source
<1>2. CASE EndRow
  BY <1>2, <1>t DEF EndRow, Source, airVars
<1>3. CASE Publish
  BY <1>3, <1>t DEF Publish, Source, airVars
<1>4. CASE SaveLogs
  BY <1>4, <1>t DEF SaveLogs, Source, airVars
<1>5. CASE OtherAirs
  BY <1>5, <1>t DEF OtherAirs, Source, sourceVars
<1>6. CASE Air
  BY <1>6, <1>t DEF Air, Source, sourceVars
<1>7. CASE Skip
  BY <1>7, <1>t DEF Skip, Source, sourceVars
<1>8. CASE ClearBuffer
  BY <1>8, <1>t DEF ClearBuffer, Source, airVars
<1>9. CASE UNCHANGED <<sourceVars, airVars>>
  BY <1>9 DEF Source, sourceVars, airVars
<1>10. World => \/ EndRow \/ Publish \/ SaveLogs \/ OtherAirs \/ Air \/ Skip \/ ClearBuffer
                \/ UNCHANGED <<sourceVars, airVars>>
  BY DEF World, EchoLoads, Subscribed, SocketBreaks, StreamReads, StreamSubscribes, StreamEndsEarly
<1> QED BY <1>1, <1>2, <1>3, <1>4, <1>5, <1>6, <1>7, <1>8, <1>9, <1>10

LEMMA WireStep ==
  ASSUME Base, Source, WireIsExplained, World \/ Tend \/ Page
  PROVE  WireIsExplained'
<1>t. /\ published \in 0..Len(Own) /\ aired \in 0..published /\ Len(Own) \in Nat \ {0} /\ aired \in Nat
      /\ missed \in BOOLEAN
      /\ otherAired \in 0..Len(Other) /\ otherAired \in Nat
  BY Types, Lengths DEF Base, TypeOK
<1>1. CASE Tend \/ Page
  BY <1>1, PageLeaves DEF WireIsExplained, ComesFrom
<1>2. CASE SaveLogs
  <2>1. row /\ row' = row
    BY <1>2 DEF SaveLogs, Source
  <2> QED BY <1>2, <2>1 DEF SaveLogs, Broadcast, WireIsExplained, ComesFrom
<1>3. CASE OtherAirs
  BY <1>3, <1>t DEF OtherAirs, Broadcast, WireIsExplained, ComesFrom
<1>4. CASE Air
  <2>1. aired' = aired + 1 /\ aired' \in 1..aired'
    BY <1>4, <1>t DEF Air
  <2> QED BY <1>4, <2>1 DEF Air, Broadcast, WireIsExplained, ComesFrom
<1>5. CASE SocketBreaks
  BY <1>5 DEF SocketBreaks, WireIsExplained
<1>6. CASE Skip
  <2>1. /\ aired' = aired + 1 /\ missed' /\ row' = row /\ otherAired' = otherAired /\ wire' = wire
    BY <1>6 DEF Skip, sourceVars
  <2>2. 1..aired \subseteq 1..aired'
    BY <1>t, <2>1
  <2> QED BY <2>1, <2>2 DEF WireIsExplained, ComesFrom
<1>7. CASE (row => row') /\ UNCHANGED <<wire, airVars, missed>>
  BY <1>7 DEF WireIsExplained, ComesFrom, airVars
<1>8. World => \/ SaveLogs \/ OtherAirs \/ Air \/ SocketBreaks \/ Skip
               \/ ((row => row') /\ UNCHANGED <<wire, airVars, missed>>)
  BY WorldKeeps DEF World, EchoLoads, Subscribed, EndRow, Publish, ClearBuffer, StreamReads,
                    StreamSubscribes, StreamEndsEarly
<1> QED BY <1>1, <1>2, <1>3, <1>4, <1>5, <1>6, <1>7, <1>8

\* The first n messages, as a sequence.
LEMMA PrefixOfOwn ==
  ASSUME NEW n \in 0..Len(Own)
  PROVE  LET q == SubSeq(Own, 1, n)
         IN  q \in Seq(Frame) /\ Len(q) = n /\ \A i \in 1..n : q[i] = Own[i]
<1>1. Own \in Seq(Message) /\ 1..n \subseteq 1..Len(Own) /\ n \in Nat
  BY Lengths, ViewerAssumption
<1>2. SubSeq(Own, 1, n) = [i \in 1..n |-> Own[i]]
  BY <1>1
<1>3. \A i \in 1..n : Own[i] \in Frame
  BY <1>1, OwnFacts, MessageFacts
<1> QED BY <1>1, <1>2, <1>3, SeqDef

LEMMA JoinFacts ==
  ASSUME NEW S, NEW a \in Seq(S), NEW b \in Seq(S)
  PROVE  /\ a \o b \in Seq(S) /\ Len(a \o b) = Len(a) + Len(b)
         /\ \A i \in 1..Len(a) : (a \o b)[i] = a[i]
         /\ \A i \in 1..Len(b) : (a \o b)[Len(a) + i] = b[i]
<1>1. Len(a) \in Nat /\ Len(b) \in Nat
  OBVIOUS
<1>2. /\ a \o b \in Seq(S) /\ Len(a \o b) = Len(a) + Len(b)
      /\ \A i \in 1..Len(a) + Len(b) : (a \o b)[i] = IF i <= Len(a) THEN a[i] ELSE b[i - Len(a)]
  BY ConcatProperties
<1>3. ASSUME NEW i \in 1..Len(b) PROVE (a \o b)[Len(a) + i] = b[i]
  <2>1. Len(a) + i \in 1..Len(a) + Len(b) /\ ~(Len(a) + i <= Len(a)) /\ (Len(a) + i) - Len(a) = i
    BY <1>1
  <2> QED BY <1>2, <2>1
<1>4. ASSUME NEW i \in 1..Len(a) PROVE (a \o b)[i] = a[i]
  <2>1. i \in 1..Len(a) + Len(b) /\ i <= Len(a)
    BY <1>1
  <2> QED BY <1>2, <2>1
<1> QED BY <1>2, <1>3, <1>4

\* All of the log has been read, the terminal status with it.
ReadAll == ~cleared /\ published = Len(Own)
ReadUpTo == IF cleared THEN 0 ELSE published

\* What LRANGE adds to the stream: the log so far, then a heartbeat if it goes on.
LEMMA ReadFacts ==
  ASSUME Base, StreamReads
  PROVE  /\ session.pc = "read" /\ session'.pc = IF ReadAll THEN "over" ELSE "ask"
         /\ session'.upto = ReadUpTo /\ session'.whole = ReadAll
         /\ ReadUpTo \in 0..published /\ ReadUpTo \in Nat
         /\ Len(session.queue) \in Nat
         /\ Len(session'.queue) = Len(session.queue) + ReadUpTo + IF ReadAll THEN 0 ELSE 1
         /\ \A k \in 1..Len(session.queue) : session'.queue[k] = session.queue[k]
         /\ \A i \in 1..ReadUpTo : session'.queue[Len(session.queue) + i] = Own[i]
         /\ ~ReadAll => session'.queue[Len(session.queue) + ReadUpTo + 1] = heartbeat
<1>t. /\ published \in 0..Len(Own) /\ Len(Own) \in Nat \ {0} /\ session.queue \in Seq(Frame)
      /\ cleared \in BOOLEAN
  BY Types DEF Base, TypeOK
<1> DEFINE q == session.queue
           n == ReadUpTo
           buffer == SubSeq(Own, 1, n)
           tail == IF ReadAll THEN <<>> ELSE <<heartbeat>>
<1>1. n \in 0..published /\ n \in 0..Len(Own) /\ n \in Nat
  BY <1>t DEF ReadUpTo
<1>2. buffer \in Seq(Frame) /\ Len(buffer) = n /\ \A i \in 1..n : buffer[i] = Own[i]
  BY <1>1, PrefixOfOwn
<1>3. (IF cleared THEN <<>> ELSE SubSeq(Own, 1, published)) = buffer
  <2>1. CASE cleared
    <3>1. n = 0
      BY <2>1 DEF ReadUpTo
    <3>2. buffer = <<>>
      BY <1>2, <3>1, EmptySeq
    <3> QED BY <2>1, <3>2
  <2>2. CASE ~cleared
    BY <2>2 DEF ReadUpTo
  <2> QED BY <2>1, <2>2
<1>4. session' = [pc |-> IF ReadAll THEN "over" ELSE "ask", queue |-> (q \o buffer) \o tail,
                  upto |-> Len(buffer), whole |-> ReadAll]
      /\ session.pc = "read"
  BY <1>3 DEF StreamReads, ReadAll
<1>5. tail \in Seq(Frame) /\ Len(tail) = (IF ReadAll THEN 0 ELSE 1) /\ (~ReadAll => tail[1] = heartbeat)
  <2>1. heartbeat \in Frame
    BY DEF heartbeat, Frame
  <2> QED BY <2>1
<1>6. q \in Seq(Frame) /\ Len(q) \in Nat
  BY <1>t
<1> HIDE DEF buffer, tail, n, q
<1> DEFINE a == q \o buffer
<1>7. /\ a \in Seq(Frame) /\ Len(a) = Len(q) + n
      /\ \A i \in 1..Len(q) : a[i] = q[i]
      /\ \A i \in 1..n : a[Len(q) + i] = Own[i]
  BY <1>2, <1>6, JoinFacts
<1> HIDE DEF a
<1>8. /\ Len(a \o tail) = Len(a) + Len(tail)
      /\ \A i \in 1..Len(a) : (a \o tail)[i] = a[i]
      /\ \A i \in 1..Len(tail) : (a \o tail)[Len(a) + i] = tail[i]
  BY <1>5, <1>7, JoinFacts
<1>9. session'.queue = a \o tail
  BY <1>4 DEF a
<1>10. \A k \in 1..Len(q) : k \in 1..Len(a)
  BY <1>1, <1>6, <1>7
<1>11. \A i \in 1..n : Len(q) + i \in 1..Len(a)
  BY <1>1, <1>6, <1>7
<1>12. ~ReadAll => (a \o tail)[Len(q) + n + 1] = heartbeat
  <2> SUFFICES ASSUME ~ReadAll PROVE (a \o tail)[Len(q) + n + 1] = heartbeat
    OBVIOUS
  <2>1. 1 \in 1..Len(tail) /\ tail[1] = heartbeat
    BY <1>5
  <2> QED BY <1>7, <1>8, <2>1
<1>13. /\ session'.pc = (IF ReadAll THEN "over" ELSE "ask") /\ session'.upto = n
       /\ session'.whole = ReadAll /\ session.pc = "read"
  BY <1>2, <1>4
<1>14. Len(session'.queue) = Len(q) + n + (IF ReadAll THEN 0 ELSE 1)
  BY <1>5, <1>7, <1>8, <1>9
<1>15. \A k \in 1..Len(q) : session'.queue[k] = q[k]
  BY <1>7, <1>8, <1>9, <1>10
<1>16. \A i \in 1..n : session'.queue[Len(q) + i] = Own[i]
  BY <1>7, <1>8, <1>9, <1>11
<1> QED BY <1>1, <1>6, <1>9, <1>12, <1>13, <1>14, <1>15, <1>16 DEF n, q

\* The other steps of the stream's other end.
LEMMA QueueGrows ==
  ASSUME Base, Publish \/ StreamEndsEarly, session' # session
  PROVE  \E f \in Frame :
           /\ session.pc = "live" /\ session'.whole = session.whole
           /\ session'.queue = Append(session.queue, f)
           /\ \/ /\ Publish /\ f = Own[published + 1] /\ session'.pc = "live"
              \/ StreamEndsEarly /\ f = done /\ session'.pc = "over"
<1>t. session \in Session /\ published \in 0..Len(Own) /\ Len(Own) \in Nat \ {0}
  BY Types DEF Base
<1>1. CASE Publish
  <2>1. published + 1 \in 1..Len(Own)
    BY <1>1, <1>t DEF Publish
  <2>2. Own[published + 1] \in Frame
    BY <2>1, OwnFacts, MessageFacts
  <2>3. session.pc = "live" /\ session' = [session EXCEPT !.queue = Append(@, Own[published + 1])]
    BY <1>1 DEF Publish
  <2> QED BY <1>1, <1>t, <2>2, <2>3 DEF Session
<1>2. CASE StreamEndsEarly
  <2>1. done \in Frame
    BY DEF done, Frame
  <2>2. /\ session.pc = "live"
        /\ session' = [session EXCEPT !.pc = "over", !.queue = Append(@, done)]
    BY <1>2 DEF StreamEndsEarly
  <2> QED BY <1>2, <1>t, <2>1, <2>2 DEF Session
<1> QED BY <1>1, <1>2

\* A message that ends the log is its last one, and goes up after the row.
LEMMA OnlyTheLastEnds ==
  ASSUME NEW i \in 1..Len(Own), Ends(Own[i])
  PROVE  i = Len(Own) /\ Own[i].text = End
BY OwnFacts DEF Ends

LEMMA QueueStep ==
  ASSUME Base, Source, QueueIsAllowed, World \/ Tend \/ Page
  PROVE  QueueIsAllowed'
<1>t. /\ TypeOK /\ session \in Session /\ session.queue \in Seq(Frame)
      /\ published \in 0..Len(Own) /\ Len(Own) \in Nat \ {0} /\ published \in Nat
      /\ DOMAIN session.queue = 1..Len(session.queue)
  BY Types DEF Base
<1>r. row => row'
  BY PageLeaves, WorldKeeps
<1>0. ASSUME NEW f, Allowed(f, row) PROVE Allowed(f, row')
  BY <1>0, <1>r DEF Allowed
<1>1. CASE Publish \/ StreamEndsEarly
  <2>1. CASE session' = session
    BY <1>0, <2>1 DEF QueueIsAllowed
  <2>2. CASE session' # session
    <3>1. PICK f \in Frame :
            /\ session.pc = "live" /\ session'.whole = session.whole
            /\ session'.queue = Append(session.queue, f)
            /\ \/ /\ Publish /\ f = Own[published + 1] /\ session'.pc = "live"
               \/ StreamEndsEarly /\ f = done /\ session'.pc = "over"
      BY <1>1, <2>2, QueueGrows
    <3>2. Allowed(f, row')
      <4>1. CASE Publish /\ f = Own[published + 1]
        <5>1. published + 1 \in 1..Len(Own) /\ (published = Len(Own) - 1 => row)
          BY <1>t, <4>1 DEF Publish
        <5>2. f.kind # "done"
          BY <4>1, <5>1, OwnFacts DEF Message
        <5>3. Ends(f) => f.text = End /\ published = Len(Own) - 1
          BY <1>t, <4>1, <5>1, OnlyTheLastEnds
        <5> QED BY <1>r, <5>1, <5>2, <5>3 DEF Allowed
      <4>2. CASE StreamEndsEarly /\ f = done
        BY <4>2 DEF StreamEndsEarly, done, Allowed, Ends
      <4> QED BY <3>1, <4>1, <4>2
    <3>3. /\ DOMAIN session'.queue = 1..Len(session.queue) + 1
          /\ \A i \in 1..Len(session.queue) : session'.queue[i] = session.queue[i]
          /\ session'.queue[Len(session.queue) + 1] = f
          /\ Len(session.queue) \in Nat
      BY <1>t, <3>1, SnocFacts
    <3>4. ASSUME NEW k \in 1..Len(session.queue) + 1 PROVE Allowed(session'.queue[k], row')
      <4>1. CASE k \in 1..Len(session.queue)
        BY <1>0, <1>t, <3>3, <4>1 DEF QueueIsAllowed
      <4>2. CASE k = Len(session.queue) + 1
        BY <3>2, <3>3, <4>2
      <4> QED BY <3>3, <4>1, <4>2
    <3> QED BY <3>3, <3>4 DEF QueueIsAllowed
  <2> QED BY <2>1, <2>2
<1>2. CASE StreamReads
  <2> DEFINE L == Len(session.queue)
             n == ReadUpTo
  <2>1. /\ n \in 0..published /\ n \in Nat /\ L \in Nat
        /\ Len(session'.queue) = L + n + IF ReadAll THEN 0 ELSE 1
        /\ \A k \in 1..L : session'.queue[k] = session.queue[k]
        /\ \A i \in 1..n : session'.queue[L + i] = Own[i]
        /\ ~ReadAll => session'.queue[L + n + 1] = heartbeat
    BY <1>2, ReadFacts
  <2>2. DOMAIN session'.queue = 1..Len(session'.queue)
    <3>1. session' \in Session
      BY <1>2, <1>t, SessionOfWorld DEF World
    <3> QED BY <3>1 DEF Session
  <2> HIDE DEF L, n
  <2>3. ASSUME NEW k \in 1..Len(session'.queue) PROVE Allowed(session'.queue[k], row')
    <3>1. CASE k \in 1..L
      BY <1>0, <1>t, <2>1, <3>1 DEF QueueIsAllowed, L
    <3>2. CASE k \in L + 1..L + n
      <4>1. k - L \in 1..n /\ L + (k - L) = k /\ k - L \in 1..Len(Own)
        BY <1>t, <2>1, <3>2
      <4>2. session'.queue[k] = Own[k - L]
        BY <2>1, <4>1
      <4>3. Own[k - L].kind # "done"
        BY <4>1, OwnFacts DEF Message
      <4>4. Ends(Own[k - L]) => Own[k - L].text = End /\ published = Len(Own)
        <5> SUFFICES ASSUME Ends(Own[k - L]) PROVE Own[k - L].text = End /\ published = Len(Own)
          OBVIOUS
        <5>1. k - L = Len(Own) /\ Own[k - L].text = End
          BY <4>1, OnlyTheLastEnds
        <5> QED BY <1>t, <2>1, <4>1, <5>1
      <4> QED BY <1>r, <4>2, <4>3, <4>4 DEF Allowed, Source
    <3>3. CASE ~ReadAll /\ k = L + n + 1
      BY <2>1, <3>3 DEF heartbeat, Allowed, Ends
    <3> QED BY <2>1, <3>1, <3>2, <3>3
  <2> QED BY <2>2, <2>3 DEF QueueIsAllowed
<1>3. CASE StreamSubscribes
  BY <1>0, <1>3, <1>t DEF StreamSubscribes, Session, QueueIsAllowed
<1>4. CASE session' = session
  BY <1>0, <1>4 DEF QueueIsAllowed
<1>5. CASE session' = NoSession
  BY <1>5 DEF NoSession, QueueIsAllowed
<1>6. CASE session' = Answer /\ row' = row
  <2> DEFINE f == [kind |-> "status", text |-> IF row THEN End ELSE "building"]
  <2>1. session'.queue = <<f>>
    BY <1>6 DEF Answer
  <2>2. Allowed(f, row')
    BY <1>6, TerminalFacts DEF Allowed, Ends
  <2> HIDE DEF f
  <2> QED BY <2>1, <2>2 DEF QueueIsAllowed
<1>7. CASE session' = Popped /\ session.queue # <<>>
  <2>1. session'.queue = Tail(session.queue)
    BY <1>7, <1>t DEF Popped, Session
  <2>2. /\ DOMAIN Tail(session.queue) = 1..Len(session.queue) - 1
        /\ \A i \in 1..Len(session.queue) - 1 : Tail(session.queue)[i] = session.queue[i + 1]
        /\ Len(session.queue) \in Nat
    BY <1>7, <1>t, QueueFacts
  <2>3. \A i \in 1..Len(session.queue) - 1 : i + 1 \in DOMAIN session.queue
    BY <1>t, <2>2
  <2>4. ASSUME NEW i \in 1..Len(session.queue) - 1 PROVE Allowed(session'.queue[i], row')
    BY <1>0, <2>1, <2>2, <2>3 DEF QueueIsAllowed
  <2> QED BY <2>1, <2>2, <2>4 DEF QueueIsAllowed
<1>8. Tend => session' \in {session, NoSession} \/ (session' = Answer /\ row' = row)
  BY TendFacts, PageLeaves DEF Tended
<1>9. Page => session' \in {session, NoSession} \/ (session' = Popped /\ session.queue # <<>>)
  BY DEF Page, Rendered, Opened, Received, Framed, Fetched
<1>10. World => Publish \/ StreamReads \/ StreamSubscribes \/ StreamEndsEarly \/ session' = session
  BY DEF World, EchoLoads, Subscribed, SocketBreaks, EndRow, SaveLogs, OtherAirs, Air, Skip, ClearBuffer
<1> QED BY <1>1, <1>2, <1>3, <1>4, <1>5, <1>6, <1>7, <1>8, <1>9, <1>10

\* A status among the messages, by where it comes from.
LEMMA EndOfWire ==
  ASSUME Base, Source, NEW f \in wire, ComesFrom(f), f.message.kind = "status"
  PROVE  \/ f.from = "socket" /\ f.message.text = End /\ row
            /\ (~missed => aired = Len(Own) /\ f.message = Own[aired])
         \/ f.from = "callback" /\ f.message.text = End /\ row
         \/ f.from = "other" /\ otherAired = Len(Other)
<1>t. /\ published \in 0..Len(Own) /\ aired \in 0..published /\ Len(Own) \in Nat \ {0}
      /\ aired \in Nat /\ otherAired \in 0..Len(Other) /\ Len(Other) \in Nat \ {0}
  BY Types, Lengths DEF Base, TypeOK
<1>1. CASE f.from = "socket"
  <2>1. PICK n \in 1..aired : f.message = Own[n] /\ (~missed => n = aired)
    BY <1>1 DEF ComesFrom
  <2>2. n \in 1..Len(Own)
    BY <1>t
  <2>3. n = Len(Own) /\ f.message.text = End
    BY <2>1, <2>2, OwnFacts
  <2>4. aired = Len(Own) /\ published = Len(Own)
    BY <1>t, <2>3
  <2> QED BY <1>1, <2>1, <2>3, <2>4 DEF Source
<1>2. CASE f.from = "callback"
  BY <1>2, OwnFacts DEF ComesFrom
<1>3. CASE f.from = "other"
  <2>1. otherAired \in 1..Len(Other) /\ f.message = Other[otherAired]
    BY <1>3, <1>t DEF ComesFrom
  <2> QED BY <1>3, <2>1, OtherFacts
<1> QED BY <1>1, <1>2, <1>3 DEF ComesFrom

LEMMA FinishedStep ==
  ASSUME Base, Explained, World \/ Tend \/ Page
  PROVE  FinishedIsExplained'
<1>e. Source /\ WireIsExplained /\ QueueIsAllowed /\ FinishedIsExplained
  BY DEF Explained
<1>1. CASE World
  <2>1. viewer' = viewer /\ endedBy' = endedBy
    BY <1>1, WorldFacts DEF pageVars
  <2>2. (row => row') /\ (otherAired = Len(Other) => otherAired' = Len(Other))
    BY <1>1, WorldKeeps
  <2> QED BY <1>e, <2>1, <2>2 DEF FinishedIsExplained
<1>2. CASE Tend
  BY <1>2, <1>e, TendFacts, PageLeaves DEF Tended, Kept, KnowsAs, FinishedIsExplained
<1>3. CASE Rendered
  <2>1. row' = row
    BY <1>3 DEF Rendered, Elsewhere, sourceVars
  <2> QED BY <1>3, <2>1 DEF Rendered, FinishedIsExplained
<1>4. CASE Opened \/ Fetched
  BY <1>4, <1>e DEF Opened, Fetched, Elsewhere, sourceVars, airVars, KnowsAs, FinishedIsExplained
<1>5. ASSUME NEW f \in wire, Received(f) PROVE FinishedIsExplained'
  <2>1. ComesFrom(f)
    BY <1>e DEF WireIsExplained
  <2>2. row' = row /\ otherAired' = otherAired
    BY <1>5 DEF Received, Attended, Elsewhere, sourceVars, airVars
  <2>3. CASE f.message.kind = "status"
    <3>1. viewer'.currentStatus = f.message.text /\ endedBy' = f.from
      BY <1>5, <2>3 DEF Received
    <3> QED BY <1>e, <2>1, <2>2, <2>3, <3>1, EndOfWire DEF FinishedIsExplained
  <2>4. CASE f.message.kind # "status"
    BY <1>5, <2>4 DEF Received, GoesOn, Waits, FinishedIsExplained
  <2> QED BY <2>3, <2>4
<1>6. CASE session.queue # <<>> /\ Framed(Head(session.queue))
  <2> DEFINE f == Head(session.queue)
  <2>1. Allowed(f, row)
    <3>1. session.queue \in Seq(Frame)
      BY Types DEF Base
    <3>2. f = session.queue[1] /\ 1 \in DOMAIN session.queue
      BY <1>6, <3>1, QueueFacts
    <3> QED BY <1>e, <3>2 DEF QueueIsAllowed
  <2>2. Framed(f)
    BY <1>6
  <2> HIDE DEF f
  <2>3. row' = row
    BY <2>2 DEF Framed, Attended, Elsewhere, sourceVars
  <2> QED
    BY <2>1, <2>2, <2>3
    DEF Framed, Allowed, EndOfStream, Ends, GoesOn, Waits, FinishedIsExplained
<1> QED BY <1>1, <1>2, <1>3, <1>4, <1>5, <1>6 DEF Page

LEMMA ExplainedInit == Init => Explained
<1> SUFFICES ASSUME Init PROVE Explained
  OBVIOUS
<1>1. ~viewer.finished
  BY DEF Init, NewViewer
<1>2. session.queue = <<>>
  BY DEF Init, NoSession
<1>3. Source
  BY Lengths DEF Init, Source
<1>4. WireIsExplained
  BY DEF Init, WireIsExplained
<1>5. QueueIsAllowed
  BY <1>2 DEF QueueIsAllowed
<1> QED BY <1>1, <1>3, <1>4, <1>5 DEF Explained, FinishedIsExplained

LEMMA ExplainedStep == Base /\ Explained /\ [Next]_vars => Explained'
<1> SUFFICES ASSUME Base, Explained, [Next]_vars PROVE Explained'
  OBVIOUS
<1>1. CASE Next
  <2>1. World \/ Tend \/ Page
    BY <1>1, StepIsKnown
  <2> QED BY <2>1, SourceStep, WireStep, QueueStep, FinishedStep DEF Explained
<1>2. CASE UNCHANGED vars
  BY <1>2 DEF vars, pageVars, sourceVars, airVars, Explained, Source, WireIsExplained, ComesFrom,
              QueueIsAllowed, Allowed, FinishedIsExplained
<1> QED BY <1>1, <1>2

\* A viewer finishes because its deployment did, or the end of another deployment was
\* taken for its own, or the endpoint gave up its stream: for all logs and losses.
THEOREM EndsAreExplained == Spec => []FinishedIsExplained
<1>1. Spec => [](Base /\ Explained)
  BY BaseInit, BaseStep, ExplainedInit, ExplainedStep, PTL DEF Spec
<1>2. Explained => FinishedIsExplained
  BY DEF Explained
<1> QED BY <1>1, <1>2, PTL

-----------------------------------------------------------------------------
(***************************************************************************)
(* What a viewer that has been told the end has shown.  By the websocket:  *)
(* as long as nothing was missed, every line that was broadcast is seen or *)
(* on its way.  By the EventSource: what was read when it was opened, and, *)
(* if nothing came between that and the subscription, what was published   *)
(* since, is seen or ahead of the end in the queue.                        *)
(***************************************************************************)
LineOf(m) == m.kind # "status" /\ m.text # Blank
SeenBy(v, m) == Prefix[m.text] \in v.seenLines

LEMMA CompleteMeans ==
  Complete <=> \A i \in 1..Len(Own) : LineOf(Own[i]) => SeenBy(viewer, Own[i])
<1>1. \A m : m \in ToSet(Own) <=> \E i \in 1..Len(Own) : m = Own[i]
  BY OwnFacts DEF ToSet
<1> QED BY <1>1 DEF Complete, LineOf, SeenBy

\* A line that was broadcast is seen or on its way.
Unmissed ==
  ~missed /\ ~viewer.finished /\ phase # "gone" =>
    \A i \in 1..aired : LineOf(Own[i]) =>
      SeenBy(viewer, Own[i]) \/ \E f \in wire : f.from = "socket" /\ f.message = Own[i]

MissedBefore == phase \in {"closed", "rendered"} /\ ~missed => aired = 0

\* Message i is seen, or among the first n of the queue.
Got(v, q, i, n) == SeenBy(v, Own[i]) \/ \E j \in 1..n : q[j] = Own[i]
GotAll(v, q, upto, n) == \A i \in 1..upto : LineOf(Own[i]) => Got(v, q, i, n)

NoEnd(q) == \A k \in 1..Len(q) : ~Ends(q[k])
EndIsLast(v, q) == \A k \in 1..Len(q) : Ends(q[k]) => GotAll(v, q, Len(Own), k - 1)

\* A stream is whole from its subscription on, or once the end was read at once.
Whole(v, s, n) ==
  /\ s.pc \in {"none", "read", "ask"} => ~s.whole /\ NoEnd(s.queue)
  /\ s.pc = "ask" => s.upto <= n /\ GotAll(v, s.queue, s.upto, Len(s.queue))
  /\ s.pc = "live" /\ s.whole => GotAll(v, s.queue, n, Len(s.queue))
  /\ s.whole => EndIsLast(v, s.queue)

StreamIsWhole == Whole(viewer, session, published)

NothingLost ==
  Unmissed /\ MissedBefore /\ StreamIsWhole /\ MissingIsExplained

LEMMA GotMore ==
  ASSUME NEW v, NEW w, v.seenLines \subseteq w.seenLines, NEW q, NEW upto, NEW n, GotAll(v, q, upto, n)
  PROVE  GotAll(w, q, upto, n)
BY DEF GotAll, Got, SeenBy

LEMMA WholeMore ==
  ASSUME NEW v, NEW w, v.seenLines \subseteq w.seenLines, NEW s, NEW n, Whole(v, s, n)
  PROVE  Whole(w, s, n)
<1>1. s.pc = "ask" => GotAll(w, s.queue, s.upto, Len(s.queue))
  BY GotMore DEF Whole
<1>2. s.pc = "live" /\ s.whole => GotAll(w, s.queue, n, Len(s.queue))
  BY GotMore DEF Whole
<1>3. s.whole => EndIsLast(w, s.queue)
  BY GotMore DEF Whole, EndIsLast
<1> QED BY <1>1, <1>2, <1>3 DEF Whole

LEMMA NoneIsWhole ==
  ASSUME NEW v, NEW n
  PROVE  Whole(v, NoSession, n)
<1>1. Len(NoSession.queue) = 0 /\ ~NoSession.whole /\ NoSession.pc = "none"
  BY DEF NoSession
<1>2. NoEnd(NoSession.queue)
  BY <1>1 DEF NoEnd
<1> QED BY <1>1, <1>2 DEF Whole

LEMMA AnswerIsWhole ==
  ASSUME NEW v, NEW n, TypeOK
  PROVE  Whole(v, Answer, n)
<1>1. CASE row
  BY <1>1 DEF Answer, Whole
<1>2. CASE ~row
  <2> DEFINE f == [kind |-> "status", text |-> "building"]
  <2>1. Answer.queue = <<f>> /\ ~Answer.whole /\ Answer.pc = "read"
    BY <1>2 DEF Answer
  <2>2. ~Ends(f)
    BY TerminalFacts DEF Ends
  <2> HIDE DEF f
  <2>3. Len(<<f>>) = 1 /\ <<f>>[1] = f
    OBVIOUS
  <2>4. NoEnd(Answer.queue)
    BY <2>1, <2>2, <2>3 DEF NoEnd
  <2> QED BY <2>1, <2>4 DEF Whole
<1> QED BY <1>1, <1>2

\* One more at the end of the queue.
LEMMA GotStill ==
  ASSUME NEW v, NEW q \in Seq(Frame), NEW f \in Frame, NEW upto, NEW n \in 0..Len(q),
         GotAll(v, q, upto, n)
  PROVE  /\ GotAll(v, Append(q, f), upto, n)
         /\ GotAll(v, Append(q, f), upto, Len(q) + 1)
<1>1. \A j \in 1..n : j \in 1..Len(q) /\ Append(q, f)[j] = q[j] /\ j \in 1..Len(q) + 1
  BY SnocFacts
<1> QED BY <1>1 DEF GotAll, Got

LEMMA WholeByPublishing ==
  ASSUME Base, StreamIsWhole, Publish
  PROVE  StreamIsWhole'
<1>t. /\ session \in Session /\ session.queue \in Seq(Frame) /\ session.upto \in 0..Len(Own)
      /\ published \in 0..Len(Own) /\ Len(Own) \in Nat \ {0} /\ published \in Nat
      /\ Len(session.queue) \in Nat
  BY Types DEF Base
<1>v. viewer' = viewer /\ published' = published + 1 /\ published + 1 \in 1..Len(Own)
  BY <1>t DEF Publish, pageVars
<1>w. Whole(viewer, session, published)
  BY DEF StreamIsWhole
<1>1. CASE session' = session
  <2>1. session.pc # "live"
    <3> SUFFICES ASSUME session.pc = "live" PROVE FALSE
      OBVIOUS
    <3>1. session' = [session EXCEPT !.queue = Append(@, Own[published + 1])]
      BY DEF Publish
    <3>2. session'.queue = Append(session.queue, Own[published + 1])
      BY <1>t, <3>1 DEF Session
    <3>3. Own[published + 1] \in Frame
      BY <1>v, OwnFacts, MessageFacts
    <3>4. Len(session'.queue) = Len(session.queue) + 1
      BY <1>t, <3>2, <3>3, SnocFacts
    <3> QED BY <1>1, <1>t, <3>4
  <2>2. session.upto <= published => session.upto <= published + 1
    BY <1>t
  <2> QED BY <1>1, <1>v, <1>w, <2>1, <2>2 DEF StreamIsWhole, Whole
<1>2. CASE session' # session
  <2> DEFINE q == session.queue
             f == Own[published + 1]
             L == Len(q)
  <2>1. /\ session.pc = "live" /\ session'.whole = session.whole /\ session'.pc = "live"
        /\ session'.queue = Append(q, f) /\ f \in Frame
    <3>1. session.pc = "live" /\ session' = [session EXCEPT !.queue = Append(@, Own[published + 1])]
      BY <1>2 DEF Publish
    <3>2. Own[published + 1] \in Frame
      BY <1>v, OwnFacts, MessageFacts
    <3> QED BY <1>t, <3>1, <3>2 DEF Session
  <2>2. q \in Seq(Frame) /\ L \in Nat /\ L \in 0..L
    BY <1>t
  <2> HIDE DEF q
  <2>3. /\ Len(Append(q, f)) = L + 1 /\ Append(q, f)[L + 1] = f
        /\ \A i \in 1..L : Append(q, f)[i] = q[i]
    BY <2>1, <2>2, SnocFacts
  <2> SUFFICES ASSUME session.whole
               PROVE  /\ GotAll(viewer, Append(q, f), published + 1, L + 1)
                      /\ EndIsLast(viewer, Append(q, f))
    BY <1>v, <2>1, <2>3 DEF StreamIsWhole, Whole
  <2>4. GotAll(viewer, q, published, L) /\ EndIsLast(viewer, q)
    BY <1>w, <2>1 DEF Whole, q
  <2>5. GotAll(viewer, Append(q, f), published, L) /\ GotAll(viewer, Append(q, f), published, L + 1)
    BY <2>1, <2>2, <2>4, GotStill
  <2>6. GotAll(viewer, Append(q, f), published + 1, L + 1)
    <3>1. ASSUME NEW i \in 1..published + 1, LineOf(Own[i]) PROVE Got(viewer, Append(q, f), i, L + 1)
      <4>1. CASE i \in 1..published
        BY <2>5, <3>1, <4>1 DEF GotAll
      <4>2. CASE i = published + 1
        <5>1. L + 1 \in 1..L + 1
          BY <2>2
        <5> QED BY <2>3, <4>2, <5>1 DEF Got
      <4> QED BY <1>t, <4>1, <4>2
    <3> QED BY <3>1 DEF GotAll
  <2>7. ASSUME NEW k \in 1..L + 1, Ends(Append(q, f)[k])
        PROVE  GotAll(viewer, Append(q, f), Len(Own), k - 1)
    <3>1. CASE k \in 1..L
      <4>1. Ends(q[k]) /\ k - 1 \in 0..L
        BY <2>2, <2>3, <2>7, <3>1
      <4>2. GotAll(viewer, q, Len(Own), k - 1)
        BY <2>4, <3>1, <4>1 DEF EndIsLast
      <4> QED BY <2>1, <2>2, <4>1, <4>2, GotStill DEF L
    <3>2. CASE k = L + 1
      <4>1. Ends(f) /\ k - 1 = L
        BY <2>2, <2>3, <2>7, <3>2
      <4>2. published + 1 = Len(Own)
        BY <1>v, <4>1, OnlyTheLastEnds
      <4>3. ASSUME NEW i \in 1..Len(Own), LineOf(Own[i]) PROVE i \in 1..published
        <5>1. i # Len(Own)
          BY <4>3, OwnFacts DEF LineOf
        <5> QED BY <1>t, <4>2, <5>1
      <4> QED BY <2>5, <4>1, <4>3 DEF GotAll
    <3> QED BY <2>2, <3>1, <3>2
  <2>8. EndIsLast(viewer, Append(q, f))
    BY <2>3, <2>7 DEF EndIsLast
  <2> QED BY <2>6, <2>8
<1> QED BY <1>1, <1>2

LEMMA WholeByReading ==
  ASSUME Base, StreamIsWhole, StreamReads
  PROVE  StreamIsWhole'
<1>t. /\ published \in 0..Len(Own) /\ Len(Own) \in Nat \ {0} /\ published \in Nat
      /\ cleared \in BOOLEAN
  BY Types DEF Base, TypeOK
<1>v. viewer' = viewer /\ published' = published
  BY DEF StreamReads, pageVars, sourceVars
<1> DEFINE q == session'.queue
           L == Len(session.queue)
           n == ReadUpTo
<1>1. /\ session.pc = "read" /\ session'.pc = IF ReadAll THEN "over" ELSE "ask"
      /\ session'.upto = n /\ session'.whole = ReadAll
      /\ n \in 0..published /\ n \in Nat /\ L \in Nat
      /\ Len(q) = L + n + IF ReadAll THEN 0 ELSE 1
      /\ \A k \in 1..L : q[k] = session.queue[k]
      /\ \A i \in 1..n : q[L + i] = Own[i]
      /\ ~ReadAll => q[L + n + 1] = heartbeat
  BY ReadFacts
<1>2. \A k \in 1..L : ~Ends(q[k])
  BY <1>1 DEF StreamIsWhole, Whole, NoEnd
<1> HIDE DEF q, L, n
<1>3. ASSUME NEW i \in 1..n PROVE i \in 1..Len(Own) /\ L + i \in 1..Len(q)
  BY <1>1, <1>t
<1>4. CASE ReadAll
  <2>1. n = Len(Own) /\ Len(q) = L + n
    BY <1>1, <1>4, <1>t DEF ReadAll, ReadUpTo, n
  <2>2. ASSUME NEW k \in 1..Len(q), Ends(q[k]) PROVE GotAll(viewer, q, Len(Own), k - 1)
    <3>1. k - L \in 1..n /\ L + (k - L) = k
      BY <1>1, <1>2, <2>1, <2>2
    <3>2. q[k] = Own[k - L]
      BY <1>1, <3>1
    <3>3. k - L = Len(Own)
      BY <1>3, <2>2, <3>1, <3>2, OnlyTheLastEnds
    <3>4. ASSUME NEW i \in 1..Len(Own), LineOf(Own[i]) PROVE Got(viewer, q, i, k - 1)
      <4>1. i # Len(Own)
        BY <3>4, OwnFacts DEF LineOf
      <4>2. L + i \in 1..k - 1 /\ i \in 1..n
        BY <1>1, <1>t, <2>1, <3>3, <4>1
      <4> QED BY <1>1, <4>2 DEF Got
    <3> QED BY <3>4 DEF GotAll
  <2>3. EndIsLast(viewer, q)
    BY <2>2 DEF EndIsLast
  <2> QED BY <1>1, <1>4, <1>v, <2>3 DEF StreamIsWhole, Whole, q
<1>5. CASE ~ReadAll
  <2>1. Len(q) = L + n + 1 /\ session'.pc = "ask" /\ ~session'.whole
    BY <1>1, <1>5
  <2>2. ASSUME NEW k \in 1..Len(q) PROVE ~Ends(q[k])
    <3>1. CASE k \in 1..L
      BY <1>2, <3>1
    <3>2. CASE k = L + n + 1
      BY <1>1, <1>5, <3>2 DEF heartbeat, Ends
    <3>3. CASE k \in L + 1..L + n
      <4> SUFFICES ASSUME Ends(q[k]) PROVE FALSE
        OBVIOUS
      <4>1. k - L \in 1..n /\ L + (k - L) = k
        BY <1>1, <3>3
      <4>2. Ends(Own[k - L]) /\ k - L \in 1..Len(Own)
        BY <1>1, <1>3, <4>1
      <4>3. k - L = Len(Own)
        BY <4>2, OnlyTheLastEnds
      <4>4. n = Len(Own) /\ published = Len(Own) /\ ~cleared
        BY <1>1, <1>t, <4>1, <4>3 DEF ReadUpTo, n
      <4> QED BY <1>5, <4>4 DEF ReadAll
    <3> QED BY <1>1, <2>1, <3>1, <3>2, <3>3
  <2>3. ASSUME NEW i \in 1..n PROVE Got(viewer, q, i, Len(q))
    BY <1>1, <1>3 DEF Got
  <2>4. n <= published /\ GotAll(viewer, q, n, Len(q)) /\ NoEnd(q)
    BY <1>1, <1>t, <2>2, <2>3 DEF GotAll, NoEnd
  <2> QED BY <1>1, <1>v, <2>1, <2>4 DEF StreamIsWhole, Whole, q
<1> QED BY <1>4, <1>5

LEMMA WholeByWorld ==
  ASSUME Base, StreamIsWhole, World
  PROVE  StreamIsWhole'
<1>t. /\ session \in Session /\ session.queue \in Seq(Frame) /\ Len(session.queue) \in Nat
  BY Types DEF Base
<1>v. viewer' = viewer
  BY WorldFacts DEF pageVars
<1>w. Whole(viewer, session, published)
  BY DEF StreamIsWhole
<1>1. CASE StreamSubscribes
  <2>1. /\ session.pc = "ask" /\ session' = [session EXCEPT !.pc = "live", !.whole = (session.upto = published)]
        /\ published' = published
    BY <1>1 DEF StreamSubscribes, sourceVars
  <2>2. /\ session'.pc = "live" /\ session'.queue = session.queue
        /\ session'.whole = (session.upto = published)
    BY <1>t, <2>1 DEF Session
  <2>3. GotAll(viewer, session.queue, session.upto, Len(session.queue)) /\ NoEnd(session.queue)
    BY <1>w, <2>1 DEF Whole
  <2>4. EndIsLast(viewer, session.queue)
    BY <2>3 DEF NoEnd, EndIsLast
  <2> QED BY <1>v, <2>1, <2>2, <2>3, <2>4 DEF StreamIsWhole, Whole
<1>2. CASE StreamEndsEarly
  <2> DEFINE q == session.queue
  <2>1. done \in Frame /\ ~Ends(done)
    BY DEF done, Frame, Ends
  <2>2. /\ session.pc = "live"
        /\ session' = [session EXCEPT !.pc = "over", !.queue = Append(@, done)]
    BY <1>2 DEF StreamEndsEarly
  <2>3. session'.pc = "over" /\ session'.queue = Append(q, done) /\ session'.whole = session.whole
    BY <1>t, <2>2 DEF Session
  <2>4. q \in Seq(Frame) /\ Len(q) \in Nat /\ (session.whole => EndIsLast(viewer, q))
    BY <1>t, <1>w DEF Whole
  <2> HIDE DEF q
  <2>5. /\ Len(Append(q, done)) = Len(q) + 1 /\ Append(q, done)[Len(q) + 1] = done
        /\ \A i \in 1..Len(q) : Append(q, done)[i] = q[i]
    BY <2>1, <2>4, SnocFacts
  <2>6. ASSUME session.whole, NEW k \in 1..Len(q) + 1, Ends(Append(q, done)[k])
        PROVE  GotAll(viewer, Append(q, done), Len(Own), k - 1)
    <3>1. k # Len(q) + 1
      BY <2>1, <2>5, <2>6
    <3>2. k \in 1..Len(q) /\ k - 1 \in 0..Len(q)
      BY <2>4, <3>1
    <3>3. GotAll(viewer, q, Len(Own), k - 1)
      BY <2>4, <2>5, <2>6, <3>2 DEF EndIsLast
    <3> QED BY <2>1, <2>4, <3>2, <3>3, GotStill
  <2>7. session.whole => EndIsLast(viewer, Append(q, done))
    BY <2>5, <2>6 DEF EndIsLast
  <2> QED BY <1>v, <2>3, <2>7 DEF StreamIsWhole, Whole
<1>3. CASE UNCHANGED <<session, published>>
  BY <1>3, <1>v DEF StreamIsWhole, Whole
<1>4. Publish \/ StreamReads \/ StreamSubscribes \/ StreamEndsEarly \/ UNCHANGED <<session, published>>
  BY DEF World, EchoLoads, Subscribed, SocketBreaks, EndRow, SaveLogs, OtherAirs, Air, Skip,
         ClearBuffer, sourceVars
<1> QED BY <1>1, <1>2, <1>3, <1>4, WholeByPublishing, WholeByReading

\* A line that the frame brought is seen; the rest moves up by one.
LEMMA GotByFrame ==
  ASSUME NEW v, NEW w, NEW q \in Seq(Frame), q # <<>>, v.seenLines \subseteq w.seenLines,
         IsLine(q[1]) /\ q[1].text # Blank => Prefix[q[1].text] \in w.seenLines,
         NEW upto \in 0..Len(Own), NEW n \in 1..Len(q), GotAll(v, q, upto, n)
  PROVE  GotAll(w, Tail(q), upto, n - 1)
<1>1. /\ Len(q) \in Nat /\ \A i \in 1..Len(q) - 1 : Tail(q)[i] = q[i + 1]
  BY QueueFacts
<1>2. ASSUME NEW i \in 1..upto, LineOf(Own[i]) PROVE Got(w, Tail(q), i, n - 1)
  <2>1. i \in 1..Len(Own)
    BY Lengths
  <2>2. CASE SeenBy(v, Own[i])
    BY <2>2 DEF SeenBy, Got
  <2>3. ASSUME NEW j \in 1..n, q[j] = Own[i] PROVE Got(w, Tail(q), i, n - 1)
    <3>1. CASE j = 1
      <4>1. IsLine(q[1])
        BY <1>2, <2>1, <2>3, <3>1, OwnFacts DEF LineOf, IsLine, Message
      <4> QED BY <1>2, <2>3, <3>1, <4>1 DEF LineOf, SeenBy, Got
    <3>2. CASE j # 1
      <4>1. j - 1 \in 1..n - 1 /\ j - 1 \in 1..Len(q) - 1 /\ (j - 1) + 1 = j
        BY <1>1, <3>2
      <4>2. Tail(q)[j - 1] = Own[i]
        BY <1>1, <2>3, <4>1
      <4> QED BY <4>1, <4>2 DEF Got
    <3> QED BY <3>1, <3>2
  <2> QED BY <1>2, <2>2, <2>3 DEF GotAll, Got
<1> QED BY <1>2 DEF GotAll

LEMMA WholeByFrame ==
  ASSUME Base, StreamIsWhole, session.queue # <<>>, Framed(Head(session.queue))
  PROVE  StreamIsWhole'
<1>t. /\ session \in Session /\ session.queue \in Seq(Frame) /\ session.upto \in 0..Len(Own)
      /\ published \in 0..Len(Own) /\ Len(Own) \in Nat \ {0}
      /\ Len(Own) \in 0..Len(Own)
  BY Types, Lengths DEF Base
<1> DEFINE q == session.queue
           f == Head(q)
<1>1. /\ f = q[1] /\ Tail(q) \in Seq(Frame) /\ Len(q) \in Nat \ {0} /\ Len(Tail(q)) = Len(q) - 1
      /\ \A i \in 1..Len(q) - 1 : Tail(q)[i] = q[i + 1]
  BY <1>t, QueueFacts
<1>p. published' = published
  BY PageLeaves DEF Page
<1>2. CASE session' = NoSession
  BY <1>2, NoneIsWhole DEF StreamIsWhole
<1>3. CASE /\ ~Ends(f) /\ session' = Popped
           /\ \/ IsLine(f) /\ ShowsMore(viewer, viewer', f.text)
              \/ ~IsLine(f) /\ ShowsAs(viewer, viewer')
  <2>1. /\ session'.pc = session.pc /\ session'.queue = Tail(q) /\ session'.upto = session.upto
        /\ session'.whole = session.whole
    BY <1>3, <1>t DEF Popped, Session
  <2>2. /\ viewer.seenLines \subseteq viewer'.seenLines
        /\ IsLine(q[1]) /\ q[1].text # Blank => Prefix[q[1].text] \in viewer'.seenLines
    BY <1>1, <1>3 DEF ShowsMore, ShowsAs
  <2>3. q \in Seq(Frame) /\ q # <<>>
    BY <1>t
  <2>4. Whole(viewer, session, published)
    BY DEF StreamIsWhole
  <2> HIDE DEF f
  <2>5. session.pc \in {"none", "read", "ask"} => ~session'.whole /\ NoEnd(Tail(q))
    <3>1. ASSUME NoEnd(q) PROVE NoEnd(Tail(q))
      <4>1. \A i \in 1..Len(q) - 1 : i + 1 \in 1..Len(q)
        BY <1>1
      <4> QED BY <1>1, <3>1, <4>1 DEF NoEnd
    <3> QED BY <2>1, <2>4, <3>1 DEF Whole
  <2>6. Len(q) \in 1..Len(q)
    BY <1>1
  <2>7. session.pc = "ask" =>
          session.upto <= published /\ GotAll(viewer', Tail(q), session.upto, Len(Tail(q)))
    BY <1>1, <1>t, <2>2, <2>3, <2>4, <2>6, GotByFrame DEF Whole
  <2>8. session.pc = "live" /\ session.whole => GotAll(viewer', Tail(q), published, Len(Tail(q)))
    BY <1>1, <1>t, <2>2, <2>3, <2>4, <2>6, GotByFrame DEF Whole
  <2>9. session.whole => EndIsLast(viewer', Tail(q))
    <3>1. ASSUME session.whole, NEW k \in 1..Len(Tail(q)), Ends(Tail(q)[k])
          PROVE  GotAll(viewer', Tail(q), Len(Own), k - 1)
      <4>1. k \in 1..Len(q) - 1 /\ k + 1 \in 1..Len(q) /\ (k + 1) - 1 = k /\ k \in 1..Len(q)
        BY <1>1
      <4>2. Ends(q[k + 1])
        BY <1>1, <3>1, <4>1
      <4>3. GotAll(viewer, q, Len(Own), k)
        BY <2>4, <3>1, <4>1, <4>2 DEF Whole, EndIsLast
      <4> QED BY <1>t, <2>2, <2>3, <4>1, <4>3, GotByFrame
    <3> QED BY <3>1 DEF EndIsLast
  <2>10. (Whole(viewer, session, published))' = Whole(viewer', session', published')
    BY DEF Whole, GotAll, Got, SeenBy, EndIsLast
  <2> HIDE DEF q
  <2> QED BY <1>p, <2>1, <2>5, <2>7, <2>8, <2>9 DEF StreamIsWhole, Whole
<1> QED BY <1>2, <1>3 DEF Framed

LEMMA WholeByPage ==
  ASSUME Base, StreamIsWhole, Tend \/ Page
  PROVE  StreamIsWhole'
<1>b. TypeOK
  BY DEF Base
<1>p. published' = published
  BY PageLeaves
<1>1. CASE session' = NoSession
  BY <1>1, NoneIsWhole DEF StreamIsWhole
<1>2. CASE session' = Answer
  <2>1. Whole(viewer', Answer, published')
    BY <1>b, AnswerIsWhole
  <2> QED BY <1>2, <2>1 DEF StreamIsWhole
<1>3. CASE session' = session /\ viewer.seenLines \subseteq viewer'.seenLines
  <2>1. Whole(viewer', session, published)
    BY <1>3, WholeMore DEF StreamIsWhole
  <2> QED BY <1>3, <1>p, <2>1 DEF StreamIsWhole
<1>4. Tend => \/ session' \in {NoSession, Answer}
              \/ session' = session /\ viewer.seenLines \subseteq viewer'.seenLines
  BY TendFacts DEF Tended, Kept, ShowsAs
<1>5. Page => \/ session' = NoSession
              \/ session' = session /\ viewer.seenLines \subseteq viewer'.seenLines
              \/ session.queue # <<>> /\ Framed(Head(session.queue))
  BY DEF Page, Rendered, Opened, Received, Fetched, ShowsMore
<1> QED BY <1>1, <1>2, <1>3, <1>4, <1>5, WholeByFrame

LEMMA MissedBeforeStep ==
  ASSUME Base, MissedBefore, World \/ Tend \/ Page
  PROVE  MissedBefore'
<1>b. TypeOK /\ Unopened /\ SessionIsStreamed
  BY DEF Base
<1>1. CASE World
  <2>1. phase' = phase
    BY <1>1, WorldFacts DEF pageVars
  <2>2. phase \in {"closed", "rendered"} => subscribed = {}
    BY <1>b, LetGoFacts DEF Unopened
  <2>3. aired' = aired \/ subscribed # {} \/ missed'
    BY <1>1 DEF World, EchoLoads, Subscribed, SocketBreaks, EndRow, Publish, SaveLogs, OtherAirs,
                Air, Skip, ClearBuffer, StreamReads, StreamSubscribes, StreamEndsEarly, airVars
  <2>4. missed => missed'
    BY <1>1, WorldKeeps
  <2> QED BY <2>1, <2>2, <2>3, <2>4 DEF MissedBefore
<1>2. CASE Tend
  BY <1>2, TendFacts DEF Tended, MissedBefore
<1>3. CASE Page
  <2>1. aired' = aired /\ missed' = missed
    BY <1>3, PageLeaves
  <2>2. phase' \in {"closed", "rendered"} => phase = "closed"
    BY <1>3 DEF Page, Rendered, Opened, Received, Framed, Fetched, Attended
  <2> QED BY <2>1, <2>2 DEF MissedBefore
<1> QED BY <1>1, <1>2, <1>3

LEMMA UnmissedStep ==
  ASSUME Base, MissedBefore, Unmissed, World \/ Tend \/ Page
  PROVE  Unmissed'
<1>t. /\ TypeOK /\ aired \in Nat /\ missed \in BOOLEAN /\ phase \in {"closed", "rendered", "open", "gone"}
      /\ subscribed \subseteq Channels
  BY Types DEF Base, TypeOK, Viewer
<1>1. CASE World
  <2>1. viewer' = viewer /\ phase' = phase /\ (missed => missed')
    BY <1>1, WorldFacts, WorldKeeps DEF pageVars
  <2>2. CASE Air
    <3> SUFFICES ASSUME ~missed, ~viewer.finished, phase # "gone", subscribed # {},
                        NEW i \in 1..aired + 1, LineOf(Own[i])
                 PROVE  SeenBy(viewer, Own[i]) \/ \E f \in wire' : f.from = "socket" /\ f.message = Own[i]
      BY <2>1, <2>2 DEF Air, Unmissed, SeenBy
    <3>1. /\ wire = {}
          /\ wire' = {[channel |-> c, message |-> Own[aired + 1], from |-> "socket"] :
                        c \in subscribed \cap Channels}
      BY <2>2 DEF Air, Broadcast
    <3>2. CASE i \in 1..aired
      BY <3>1, <3>2 DEF Unmissed
    <3>3. CASE i = aired + 1
      <4>1. PICK c \in subscribed \cap Channels : TRUE
        BY <1>t
      <4>2. [channel |-> c, message |-> Own[i], from |-> "socket"] \in wire'
        BY <3>1, <3>3
      <4> QED BY <4>2
    <3> QED BY <1>t, <3>2, <3>3
  <2>3. CASE Skip
    BY <2>3 DEF Skip, Unmissed
  <2>4. CASE SocketBreaks
    <3> SUFFICES ASSUME ~missed, ~viewer.finished, phase # "gone",
                        ~ \E f \in wire : f.from = "socket",
                        NEW i \in 1..aired, LineOf(Own[i])
                 PROVE  SeenBy(viewer, Own[i])
      BY <2>1, <2>4 DEF SocketBreaks, airVars, Unmissed, SeenBy
    <3> QED BY DEF Unmissed
  <2>5. CASE SaveLogs \/ OtherAirs
    <3> SUFFICES ASSUME ~missed, ~viewer.finished, phase # "gone",
                        NEW i \in 1..aired, LineOf(Own[i])
                 PROVE  SeenBy(viewer, Own[i])
      BY <2>1, <2>5 DEF SaveLogs, OtherAirs, airVars, Unmissed, SeenBy
    <3>1. wire = {}
      BY <2>5 DEF SaveLogs, OtherAirs
    <3> QED BY <3>1 DEF Unmissed
  <2>6. CASE UNCHANGED <<wire, aired, missed>>
    BY <2>1, <2>6 DEF Unmissed, SeenBy
  <2>7. Air \/ Skip \/ SocketBreaks \/ SaveLogs \/ OtherAirs \/ UNCHANGED <<wire, aired, missed>>
    BY <1>1 DEF World, EchoLoads, Subscribed, EndRow, Publish, ClearBuffer, StreamReads,
                StreamSubscribes, StreamEndsEarly, airVars
  <2> QED BY <2>2, <2>3, <2>4, <2>5, <2>6, <2>7
<1>2. CASE Tend
  <2>1. /\ Kept(viewer, viewer') /\ (wire' = wire \/ phase' = "gone") /\ phase = "open"
        /\ aired' = aired /\ missed' = missed
    BY <1>2, TendFacts, PageLeaves DEF Tended
  <2> QED BY <2>1 DEF Kept, KnowsAs, ShowsAs, Unmissed, SeenBy
<1>3. CASE Page
  <2>p. aired' = aired /\ missed' = missed
    BY <1>3, PageLeaves
  <2>1. CASE Rendered \/ Opened
    <3>1. ~missed => aired = 0
      BY <2>1 DEF Rendered, Opened, MissedBefore
    <3> QED BY <2>p, <3>1 DEF Unmissed
  <2>2. ASSUME NEW f \in wire, Received(f) PROVE Unmissed'
    <3> SUFFICES ASSUME ~missed, ~viewer'.finished, NEW i \in 1..aired, LineOf(Own[i])
                 PROVE  SeenBy(viewer', Own[i]) \/ \E g \in wire' : g.from = "socket" /\ g.message = Own[i]
      BY <2>p DEF Unmissed, SeenBy
    <3>1. /\ ShowsMore(viewer, viewer', f.message.text) /\ wire' = wire \ {f}
          /\ ~viewer.finished /\ phase = "open"
      BY <2>2 DEF Received, Attended, HasEnded, Waits
    <3>2. SeenBy(viewer, Own[i]) \/ \E g \in wire : g.from = "socket" /\ g.message = Own[i]
      BY <3>1 DEF Unmissed
    <3>3. CASE SeenBy(viewer, Own[i])
      BY <3>1, <3>3 DEF ShowsMore, SeenBy
    <3>4. ASSUME NEW g \in wire, g.from = "socket", g.message = Own[i]
          PROVE  SeenBy(viewer', Own[i]) \/ g \in wire'
      BY <3>1, <3>4 DEF ShowsMore, SeenBy, LineOf
    <3> QED BY <3>2, <3>3, <3>4
  <2>3. CASE session.queue # <<>> /\ Framed(Head(session.queue))
    <3> SUFFICES ASSUME ~missed, ~viewer'.finished, NEW i \in 1..aired, LineOf(Own[i])
                 PROVE  SeenBy(viewer', Own[i]) \/ \E g \in wire' : g.from = "socket" /\ g.message = Own[i]
      BY <2>p DEF Unmissed, SeenBy
    <3>1. /\ viewer.seenLines \subseteq viewer'.seenLines /\ wire' = wire
          /\ ~viewer.finished /\ phase = "open"
      BY <2>3 DEF Framed, Attended, HasEnded, Waits, ShowsMore, ShowsAs
    <3>2. SeenBy(viewer, Own[i]) \/ \E g \in wire : g.from = "socket" /\ g.message = Own[i]
      BY <3>1 DEF Unmissed
    <3> QED BY <3>1, <3>2 DEF SeenBy
  <2>4. CASE Fetched
    <3>1. /\ viewer.seenLines \subseteq viewer'.seenLines /\ wire' = wire
          /\ viewer'.finished = viewer.finished /\ phase = "open"
      BY <2>4 DEF Fetched, KnowsAs
    <3> QED BY <2>p, <3>1 DEF Unmissed, SeenBy
  <2> QED BY <1>3, <2>1, <2>2, <2>3, <2>4 DEF Page
<1> QED BY <1>1, <1>2, <1>3

LEMMA MissingStep ==
  ASSUME Base, Explained, NothingLost, World \/ Tend \/ Page
  PROVE  MissingIsExplained'
<1>n. Unmissed /\ StreamIsWhole /\ MissingIsExplained
  BY DEF NothingLost
<1>e. Source /\ WireIsExplained
  BY DEF Explained
<1>t. /\ TypeOK /\ published \in 0..Len(Own) /\ aired \in 0..published /\ Len(Own) \in Nat \ {0}
      /\ EndedOnce
  BY Types DEF Base
<1>c. ASSUME NEW v, viewer.seenLines \subseteq v.seenLines, Complete
      PROVE  \A i \in 1..Len(Own) : LineOf(Own[i]) => SeenBy(v, Own[i])
  BY <1>c, CompleteMeans DEF SeenBy
<1>d. (\A i \in 1..Len(Own) : LineOf(Own[i]) => SeenBy(viewer', Own[i])) => Complete'
  <2>1. \A m : m \in ToSet(Own) <=> \E i \in 1..Len(Own) : m = Own[i]
    BY OwnFacts DEF ToSet
  <2> QED BY <2>1 DEF Complete, LineOf, SeenBy
<1>m. missed => missed'
  BY WorldKeeps, PageLeaves
<1>1. CASE endedBy' = endedBy /\ viewer.seenLines \subseteq viewer'.seenLines
  BY <1>1, <1>c, <1>d, <1>m, <1>n DEF MissingIsExplained
<1>2. CASE endedBy' \notin {"stream", "socket"}
  BY <1>2 DEF MissingIsExplained
<1>3. ASSUME NEW f \in wire, Received(f), f.message.kind = "status", endedBy' = f.from
      PROVE  MissingIsExplained'
  <2>w. f.from \in {"socket", "callback", "other"}
    BY <1>t DEF TypeOK
  <2> SUFFICES ASSUME f.from = "socket", ~missed PROVE Complete'
    BY <1>3, <1>m, <2>w DEF MissingIsExplained
  <2>1. aired = Len(Own)
    BY <1>3, <1>e, EndOfWire DEF WireIsExplained
  <2>2. ASSUME NEW i \in 1..Len(Own), LineOf(Own[i]) PROVE SeenBy(viewer', Own[i])
    <3>1. ~viewer.finished /\ phase = "open" /\ viewer'.seenLines = viewer.seenLines
      BY <1>3 DEF Received, Attended, Waits, ShowsAs
    <3>2. i \in 1..aired
      BY <2>1
    <3>3. SeenBy(viewer, Own[i]) \/ \E g \in wire : g.from = "socket" /\ g.message = Own[i]
      BY <1>n, <2>2, <3>1, <3>2 DEF Unmissed
    <3>4. ASSUME NEW g \in wire, g.from = "socket", g.message = Own[i] PROVE FALSE
      <4>1. g.message = Own[aired]
        BY <1>e, <3>4 DEF WireIsExplained, ComesFrom
      <4> QED BY <2>1, <2>2, <3>4, <4>1, OwnFacts DEF LineOf
    <3> QED BY <3>1, <3>3, <3>4 DEF SeenBy
  <2> QED BY <1>d, <2>2
<1>4. CASE /\ session.queue # <<>> /\ Framed(Head(session.queue))
           /\ Ends(Head(session.queue)) /\ session.whole
  <2>1. session.queue \in Seq(Frame)
    BY Types DEF Base
  <2>2. Head(session.queue) = session.queue[1] /\ 1 \in 1..Len(session.queue)
    BY <1>4, <2>1, QueueFacts
  <2>3. GotAll(viewer, session.queue, Len(Own), 1 - 1)
    BY <1>4, <1>n, <2>2 DEF StreamIsWhole, Whole, EndIsLast
  <2>4. \A i \in 1..Len(Own) : LineOf(Own[i]) => SeenBy(viewer, Own[i])
    BY <2>3 DEF GotAll, Got
  <2>5. viewer.seenLines = viewer'.seenLines
    BY <1>4 DEF Framed, Ends, ShowsAs
  <2>6. Complete'
    BY <1>d, <2>4, <2>5 DEF SeenBy
  <2> QED BY <2>6 DEF MissingIsExplained
<1>5. World => endedBy' = endedBy /\ viewer.seenLines \subseteq viewer'.seenLines
  BY WorldFacts DEF pageVars
<1>6. Tend => endedBy' = endedBy /\ viewer.seenLines \subseteq viewer'.seenLines
  BY TendFacts DEF Tended, Kept, ShowsAs
<1>7. Rendered => endedBy' \notin {"stream", "socket"}
  <2>1. Rendered => endedBy = "nothing"
    BY <1>t DEF Base, Rendered, Unopened, EndedOnce
  <2> QED BY <2>1 DEF Rendered
<1>8. Opened \/ Fetched => endedBy' = endedBy /\ viewer.seenLines \subseteq viewer'.seenLines
  BY DEF Opened, Fetched
<1>9. ASSUME NEW f \in wire, Received(f) PROVE MissingIsExplained'
  <2>1. CASE f.message.kind = "status"
    BY <1>3, <1>9, <2>1 DEF Received
  <2>2. CASE f.message.kind # "status"
    BY <1>1, <1>9, <2>2 DEF Received, ShowsMore
  <2> QED BY <2>1, <2>2
<1>10. CASE session.queue # <<>> /\ Framed(Head(session.queue))
  <2> DEFINE f == Head(session.queue)
  <2>1. Framed(f)
    BY <1>10
  <2> HIDE DEF f
  <2>2. CASE (Ends(f) \/ f.kind = "done") /\ endedBy' = EndOfStream(f)
    <3>2. CASE f.kind = "done" \/ ~session.whole
      BY <1>2, <2>2, <3>2 DEF EndOfStream
    <3>3. CASE Ends(f) /\ session.whole
      BY <1>4, <1>10, <3>3 DEF f
    <3> QED BY <2>2, <3>2, <3>3
  <2>3. CASE endedBy' = endedBy /\ (ShowsMore(viewer, viewer', f.text) \/ ShowsAs(viewer, viewer'))
    BY <1>1, <2>3 DEF ShowsMore, ShowsAs
  <2> QED BY <2>1, <2>2, <2>3 DEF Framed
<1> QED BY <1>1, <1>2, <1>5, <1>6, <1>7, <1>8, <1>9, <1>10 DEF Page

LEMMA NothingLostInit == Init => NothingLost
<1> SUFFICES ASSUME Init PROVE NothingLost
  OBVIOUS
<1>1. aired = 0 /\ endedBy = "nothing" /\ session = NoSession
  BY DEF Init
<1>2. StreamIsWhole
  BY <1>1, NoneIsWhole DEF StreamIsWhole
<1>3. Unmissed /\ MissedBefore /\ MissingIsExplained
  BY <1>1 DEF Unmissed, MissedBefore, MissingIsExplained
<1> QED BY <1>2, <1>3 DEF NothingLost

LEMMA NothingLostStep == Base /\ Explained /\ NothingLost /\ [Next]_vars => NothingLost'
<1> SUFFICES ASSUME Base, Explained, NothingLost, [Next]_vars PROVE NothingLost'
  OBVIOUS
<1>n. Unmissed /\ MissedBefore /\ StreamIsWhole
  BY DEF NothingLost
<1>1. CASE Next
  <2>1. World \/ Tend \/ Page
    BY <1>1, StepIsKnown
  <2> QED BY <1>n, <2>1, UnmissedStep, MissedBeforeStep, WholeByWorld, WholeByPage, MissingStep
          DEF NothingLost
<1>2. CASE UNCHANGED vars
  BY <1>2 DEF vars, pageVars, sourceVars, airVars, NothingLost, Unmissed, MissedBefore, StreamIsWhole,
              Whole, GotAll, Got, NoEnd, EndIsLast, SeenBy, MissingIsExplained, Complete
<1> QED BY <1>1, <1>2

\* What a viewer lacks that has been told the end is accounted for: by a broadcast that did
\* not reach it, or by a stream opened or subscribed too late; for all logs and losses.
THEOREM NothingElseIsMissing == Spec => []MissingIsExplained
<1>1. Spec => [](Base /\ Explained /\ NothingLost)
  BY BaseInit, BaseStep, ExplainedInit, ExplainedStep, NothingLostInit, NothingLostStep, PTL
  DEF Spec
<1>2. NothingLost => MissingIsExplained
  BY DEF NothingLost
<1> QED BY <1>1, <1>2, PTL

-----------------------------------------------------------------------------
(***************************************************************************)
(* The order of what a viewer shows from the websocket alone.  What is on  *)
(* its way is one message, the last one broadcast; what is shown was       *)
(* published no later.  A line that is shown is not shown twice, so the    *)
(* next one comes from a later message.                                    *)
(***************************************************************************)
StreamedOn(screen) == {i \in DOMAIN screen : screen[i] \notin ToSet(Earlier)}

\* The lines of the screen are those of some of the first n messages, in order.
Publishes(p, screen) ==
  /\ \A i \in StreamedOn(screen) : Own[p[i]].text = screen[i]
  /\ \A i, j \in StreamedOn(screen) : i < j => p[i] < p[j]

UpTo(screen, n) == \E p \in [StreamedOn(screen) -> 1..n] : Publishes(p, screen)

BySocketAlone ==
  ~streamed /\ otherAired = 0 /\ viewer.fetching # "done" /\ endedBy # "row"

ShownUpTo(w, screen, n) ==
  /\ \A f \in w : f.from = "socket" => n > 0 /\ f.message = Own[n]
  /\ UpTo(screen, n)

ShownInOrder == BySocketAlone => \E n \in 0..aired : ShownUpTo(wire, viewer.screen, n)

RenderedEarlier == endedBy # "row" => props.initialLogs = Earlier

AskedAfterwards == ~viewer.finished => viewer.fetching = "no"

Orderly == ShownInOrder /\ RenderedEarlier /\ AskedAfterwards

LEMMA OrderlyMeans == Base /\ ShownInOrder => InOrder
<1> SUFFICES ASSUME Base, ShownInOrder, BySocketAlone
             PROVE  \E publishedAs \in [StreamedOn(viewer.screen) -> DOMAIN Own] :
                      Publishes(publishedAs, viewer.screen)
  BY DEF InOrder, BySocketAlone, StreamedOn, Publishes
<1>t. published \in 0..Len(Own) /\ aired \in 0..published /\ DOMAIN Own = 1..Len(Own)
      /\ Len(Own) \in Nat
  BY Types, OwnFacts DEF Base
<1>1. PICK n \in 0..aired : ShownUpTo(wire, viewer.screen, n)
  BY DEF ShownInOrder
<1>2. PICK p \in [StreamedOn(viewer.screen) -> 1..n] : Publishes(p, viewer.screen)
  BY <1>1 DEF ShownUpTo, UpTo
<1>3. 1..n \subseteq DOMAIN Own
  BY <1>t
<1>4. p \in [StreamedOn(viewer.screen) -> DOMAIN Own]
  BY <1>2, <1>3
<1> QED BY <1>2, <1>4

LEMMA UpToLater ==
  ASSUME NEW screen, NEW n \in Nat, UpTo(screen, n)
  PROVE  UpTo(screen, n + 1)
<1>1. PICK p \in [StreamedOn(screen) -> 1..n] : Publishes(p, screen)
  BY DEF UpTo
<1>2. 1..n \subseteq 1..n + 1
  OBVIOUS
<1>3. p \in [StreamedOn(screen) -> 1..n + 1]
  BY <1>1, <1>2
<1> QED BY <1>1, <1>3 DEF UpTo

LEMMA NothingUpTo ==
  ASSUME NEW screen, StreamedOn(screen) = {}, NEW n
  PROVE  UpTo(screen, n)
<1> DEFINE p == [i \in {} |-> 0]
<1>1. p \in [StreamedOn(screen) -> 1..n]
  OBVIOUS
<1>2. Publishes(p, screen)
  BY DEF Publishes
<1> QED BY <1>1, <1>2 DEF UpTo

\* The last message broadcast brings a new line.
LEMMA UpToNewLine ==
  ASSUME NEW S, NEW screen \in Seq(S), NEW line \in S, NEW n \in Nat \ {0}, UpTo(screen, n),
         Own[n].text = line, \A i \in DOMAIN screen : screen[i] # line
  PROVE  UpTo(Append(screen, line), n)
<1> DEFINE L == Len(screen)
           longer == Append(screen, line)
<1>1. /\ L \in Nat /\ DOMAIN screen = 1..L /\ DOMAIN longer = 1..L + 1
      /\ \A i \in 1..L : longer[i] = screen[i]
      /\ longer[L + 1] = line
  BY SnocFacts
<1> HIDE DEF L, longer
<1>2. PICK p \in [StreamedOn(screen) -> 1..n] : Publishes(p, screen)
  BY DEF UpTo
<1>3. StreamedOn(screen) \subseteq 1..L
  BY <1>1 DEF StreamedOn
<1>4. ASSUME NEW i \in StreamedOn(screen) PROVE p[i] \in 1..n /\ p[i] < n
  <2>1. p[i] \in 1..n
    BY <1>2
  <2>2. Own[p[i]].text = screen[i] /\ screen[i] # line
    BY <1>2, <1>4 DEF Publishes, StreamedOn
  <2>3. p[i] # n
    BY <2>2
  <2> QED BY <2>1, <2>3
<1>5. CASE line \in ToSet(Earlier)
  <2>1. StreamedOn(longer) = StreamedOn(screen)
    BY <1>1, <1>5 DEF StreamedOn
  <2>2. Publishes(p, longer)
    BY <1>1, <1>2, <1>3, <2>1 DEF Publishes
  <2> QED BY <1>2, <2>1, <2>2 DEF UpTo, longer
<1>6. CASE line \notin ToSet(Earlier)
  <2> DEFINE T == StreamedOn(screen)
             q == [i \in T \cup {L + 1} |-> IF i = L + 1 THEN n ELSE p[i]]
  <2>1. StreamedOn(longer) = T \cup {L + 1}
    BY <1>1, <1>6 DEF StreamedOn
  <2>2. T \subseteq 1..L /\ L + 1 \notin T
    BY <1>1, <1>3
  <2>4. \A i \in T : q[i] = p[i]
    BY <2>2
  <2>5. q[L + 1] = n
    OBVIOUS
  <2>3. q \in [StreamedOn(longer) -> 1..n]
    BY <1>4, <2>1, <2>2
  <2> HIDE DEF T, q
  <2>6. ASSUME NEW i \in T \cup {L + 1} PROVE Own[q[i]].text = longer[i]
    BY <1>1, <1>2, <2>2, <2>4, <2>5 DEF Publishes, T
  <2>7. ASSUME NEW i \in T \cup {L + 1}, NEW j \in T \cup {L + 1}, i < j PROVE q[i] < q[j]
    <3>1. i \in T
      BY <1>1, <2>2, <2>7
    <3>2. CASE j \in T
      BY <1>2, <2>4, <2>7, <3>1, <3>2 DEF Publishes, T
    <3>3. CASE j = L + 1
      BY <1>4, <2>4, <2>5, <3>1, <3>3 DEF T
    <3> QED BY <3>2, <3>3
  <2>8. Publishes(q, longer)
    BY <2>1, <2>6, <2>7 DEF Publishes
  <2> QED BY <2>3, <2>8 DEF UpTo, longer
<1> QED BY <1>5, <1>6

LEMMA AskedStep ==
  ASSUME Base, AskedAfterwards, World \/ Tend \/ Page
  PROVE  AskedAfterwards'
<1>1. CASE World
  BY <1>1, WorldFacts DEF pageVars, AskedAfterwards
<1>2. CASE Tend
  BY <1>2, TendFacts DEF Tended, Kept, KnowsAs, AskedAfterwards
<1>3. CASE Page
  BY <1>3 DEF Page, Rendered, Opened, Received, Framed, Fetched, Attended, HasEnded, GoesOn, Waits,
              KnowsAs, AskedAfterwards
<1> QED BY <1>1, <1>2, <1>3

LEMMA RenderedStep ==
  ASSUME Base, Source, RenderedEarlier, World \/ Tend \/ Page
  PROVE  RenderedEarlier'
<1>t. TypeOK /\ EndedOnce
  BY DEF Base
<1>1. CASE World
  BY <1>1, WorldFacts DEF pageVars, RenderedEarlier
<1>2. CASE Tend
  BY <1>2, TendFacts DEF Tended, RenderedEarlier
<1>3. CASE Rendered
  <2>1. saved => row
    BY DEF Source
  <2> QED BY <1>3, <2>1 DEF Rendered, RenderedEarlier
<1>4. CASE Opened \/ Fetched
  BY <1>4 DEF Opened, Fetched, RenderedEarlier
<1>5. ASSUME Attended PROVE RenderedEarlier'
  <2>1. endedBy = "nothing"
    BY <1>5, <1>t DEF Attended, Waits, EndedOnce
  <2> QED BY <1>5, <2>1 DEF Attended, RenderedEarlier
<1> QED BY <1>1, <1>2, <1>3, <1>4, <1>5 DEF Page, Received, Framed

LEMMA OrderByWorld ==
  ASSUME Base, ShownInOrder, World
  PROVE  ShownInOrder'
<1>t. /\ aired \in Nat /\ otherAired \in Nat
  BY Types, Lengths DEF Base, TypeOK
<1>v. viewer' = viewer /\ endedBy' = endedBy /\ streamed' = streamed
  BY WorldFacts DEF pageVars
<1>o. otherAired # 0 => otherAired' # 0
  BY WorldKeeps
<1> SUFFICES ASSUME BySocketAlone, NEW n \in 0..aired, ShownUpTo(wire, viewer.screen, n), otherAired' = 0
             PROVE  \E m \in 0..aired' : ShownUpTo(wire', viewer'.screen, m)
  BY <1>v, <1>o DEF ShownInOrder, BySocketAlone
<1>u. UpTo(viewer.screen, n) /\ n \in Nat
  BY <1>t DEF ShownUpTo
<1>1. CASE Air
  <2>1. aired' = aired + 1 /\ wire' = {[channel |-> c, message |-> Own[aired + 1], from |-> "socket"] :
                                         c \in subscribed \cap Channels}
    BY <1>1 DEF Air, Broadcast
  <2>2. UpTo(viewer.screen, aired + 1)
    <3>1. PICK p \in [StreamedOn(viewer.screen) -> 1..n] : Publishes(p, viewer.screen)
      BY <1>u DEF UpTo
    <3>2. 1..n \subseteq 1..aired + 1
      BY <1>t
    <3>3. p \in [StreamedOn(viewer.screen) -> 1..aired + 1]
      BY <3>1, <3>2
    <3> QED BY <3>1, <3>3 DEF UpTo
  <2>3. aired + 1 \in 0..aired' /\ aired + 1 > 0
    BY <1>t, <2>1
  <2>5. ShownUpTo(wire', viewer'.screen, aired + 1)
    <3>1. \A f \in wire' : f.from = "socket" => aired + 1 > 0 /\ f.message = Own[aired + 1]
      BY <2>1, <2>3
    <3> QED BY <1>v, <2>1, <2>2, <3>1 DEF ShownUpTo
  <2> QED BY <2>3, <2>5
<1>2. CASE Skip
  <2>1. aired' = aired + 1 /\ wire' = wire
    BY <1>2 DEF Skip
  <2>2. n \in 0..aired'
    BY <1>t, <2>1
  <2>3. ShownUpTo(wire', viewer'.screen, n)
    BY <1>v, <2>1 DEF ShownUpTo
  <2> QED BY <2>2, <2>3
<1>3. CASE SaveLogs \/ OtherAirs \/ SocketBreaks
  <2>1. aired' = aired /\ \A f \in wire' : f.from # "socket"
    BY <1>3 DEF SaveLogs, OtherAirs, SocketBreaks, Broadcast, airVars
  <2>2. ShownUpTo(wire', viewer'.screen, n)
    BY <1>v, <2>1 DEF ShownUpTo
  <2> QED BY <2>1, <2>2
<1>4. CASE UNCHANGED <<wire, aired>>
  BY <1>4, <1>v DEF ShownUpTo
<1>5. Air \/ Skip \/ SaveLogs \/ OtherAirs \/ SocketBreaks \/ UNCHANGED <<wire, aired>>
  BY DEF World, EchoLoads, Subscribed, EndRow, Publish, ClearBuffer, StreamReads, StreamSubscribes,
         StreamEndsEarly, airVars
<1> QED BY <1>1, <1>2, <1>3, <1>4, <1>5

LEMMA OrderByReceiving ==
  ASSUME Base, Explained, Orderly, NEW f \in wire, Received(f)
  PROVE  ShownInOrder'
<1>t. /\ TypeOK /\ aired \in Nat /\ WellFormed(viewer) /\ EndedOnce /\ f.message \in Messages
      /\ f.from \in {"socket", "callback", "other"}
  BY Types DEF Base, TypeOK, Wire
<1>1. /\ aired' = aired /\ streamed' = streamed /\ otherAired' = otherAired /\ Waits(viewer)
      /\ wire' \subseteq wire
  BY DEF Received, Attended, Elsewhere, airVars, Fits
<1>2. viewer.fetching = "no" /\ endedBy = "nothing"
  BY <1>1, <1>t DEF Orderly, AskedAfterwards, Waits, EndedOnce
<1> SUFFICES ASSUME ~streamed, otherAired = 0, NEW n \in 0..aired, ShownUpTo(wire, viewer.screen, n)
             PROVE  ShownUpTo(wire', viewer'.screen, n)
  BY <1>1, <1>2 DEF Orderly, ShownInOrder, BySocketAlone
<1>3. UpTo(viewer.screen, n) /\ \A g \in wire' : g.from = "socket" => n > 0 /\ g.message = Own[n]
  BY <1>1 DEF ShownUpTo
<1> SUFFICES UpTo(viewer'.screen, n)
  BY <1>3 DEF ShownUpTo
<1>4. CASE viewer'.screen = viewer.screen
  BY <1>3, <1>4
<1>5. CASE viewer'.screen # viewer.screen
  <2> DEFINE line == f.message.text
  <2>1. /\ f.message.kind # "status" /\ line # Blank /\ Prefix[line] \notin viewer.seenLines
        /\ viewer'.screen = Append(viewer.screen, line)
    BY <1>5 DEF Received, ShowsAs, ShowsMore
  <2>2. f.from = "socket"
    <3>1. ComesFrom(f)
      BY DEF Explained, WireIsExplained
    <3>2. Own[Len(Own)].kind = "status"
      BY OwnFacts
    <3> QED BY <1>t, <2>1, <3>1, <3>2 DEF ComesFrom
  <2>3. n \in Nat \ {0} /\ Own[n].text = line
    BY <1>t, <2>2 DEF ShownUpTo
  <2>4. line \in Lines \ {Blank} /\ viewer.screen \in Seq(Lines \ {Blank})
    BY <1>t, <2>1, MessageFacts DEF WellFormed, Viewer
  <2>5. \A i \in DOMAIN viewer.screen : viewer.screen[i] # line
    BY <1>t, <2>1 DEF WellFormed
  <2> HIDE DEF line
  <2> QED BY <1>3, <2>1, <2>3, <2>4, <2>5, UpToNewLine
<1> QED BY <1>4, <1>5

LEMMA OrderByPage ==
  ASSUME Base, Explained, Orderly, Tend \/ Page
  PROVE  ShownInOrder'
<1>t. /\ TypeOK /\ aired \in Nat /\ SessionIsStreamed
  BY Types DEF Base
<1>0. aired' = aired /\ otherAired' = otherAired /\ wire' \subseteq wire
  BY PageLeaves
<1>1. CASE Tend
  <2>1. /\ viewer'.screen = viewer.screen /\ viewer'.fetching = viewer.fetching /\ endedBy' = endedBy
        /\ streamed => streamed'
    BY <1>1, TendFacts DEF Tended, Kept, ShowsAs
  <2> SUFFICES ASSUME NEW n \in 0..aired, ShownUpTo(wire, viewer.screen, n) PROVE ShownUpTo(wire', viewer'.screen, n)
    BY <1>0, <2>1 DEF Orderly, ShownInOrder, BySocketAlone
  <2> QED BY <1>0, <2>1 DEF ShownUpTo
<1>2. CASE Rendered \/ (Opened /\ props.initialLogs = Earlier)
  <2>1. wire' = {} /\ 0 \in 0..aired'
    BY <1>0, <1>2, <1>t DEF Rendered, Opened
  <2>2. StreamedOn(viewer'.screen) = {}
    <3>1. CASE viewer'.screen = <<>>
      BY <3>1 DEF StreamedOn
    <3>2. CASE ToSet(viewer'.screen) \subseteq ToSet(Earlier)
      BY <3>2 DEF StreamedOn, ToSet
    <3> QED BY <1>2, <3>1, <3>2 DEF Rendered, Opened
  <2>3. UpTo(viewer'.screen, 0)
    BY <2>2, NothingUpTo
  <2>4. ShownUpTo(wire', viewer'.screen, 0)
    BY <2>1, <2>3 DEF ShownUpTo
  <2> QED BY <2>1, <2>4 DEF ShownInOrder
<1>3. CASE Opened /\ props.initialLogs # Earlier
  <2>1. endedBy' = "row"
    BY <1>3 DEF Opened, Orderly, RenderedEarlier
  <2> QED BY <2>1 DEF ShownInOrder, BySocketAlone
<1>4. CASE session.queue # <<>> /\ Framed(Head(session.queue))
  <2>1. streamed' = streamed
    BY <1>4 DEF Framed, Attended, Elsewhere
  <2>2. streamed
    BY <1>4, <1>t, NoSessionFacts DEF SessionIsStreamed
  <2> QED BY <2>1, <2>2 DEF ShownInOrder, BySocketAlone
<1>5. CASE Fetched
  BY <1>5 DEF Fetched, ShownInOrder, BySocketAlone
<1> QED BY <1>1, <1>2, <1>3, <1>4, <1>5, OrderByReceiving DEF Page

LEMMA OrderlyInit == Init => Orderly
<1> SUFFICES ASSUME Init PROVE Orderly
  OBVIOUS
<1>1. viewer.screen = <<>> /\ viewer.fetching = "no" /\ wire = {} /\ aired = 0
  BY DEF Init, NewViewer
<1>2. StreamedOn(viewer.screen) = {}
  BY <1>1 DEF StreamedOn
<1>3. ShownUpTo(wire, viewer.screen, 0) /\ 0 \in 0..aired
  BY <1>1, <1>2, NothingUpTo DEF ShownUpTo
<1>4. props.initialLogs = Earlier
  BY DEF Init
<1> QED BY <1>1, <1>3, <1>4 DEF Orderly, ShownInOrder, RenderedEarlier, AskedAfterwards

LEMMA OrderlyStep == Base /\ Explained /\ Orderly /\ [Next]_vars => Orderly'
<1> SUFFICES ASSUME Base, Explained, Orderly, [Next]_vars PROVE Orderly'
  OBVIOUS
<1>o. ShownInOrder /\ RenderedEarlier /\ AskedAfterwards /\ Source
  BY DEF Orderly, Explained
<1>1. CASE Next
  <2>1. World \/ Tend \/ Page
    BY <1>1, StepIsKnown
  <2> QED BY <1>o, <2>1, OrderByWorld, OrderByPage, RenderedStep, AskedStep DEF Orderly
<1>2. CASE UNCHANGED vars
  BY <1>2 DEF vars, pageVars, sourceVars, airVars, Orderly, ShownInOrder, BySocketAlone,
              RenderedEarlier, AskedAfterwards
<1> QED BY <1>1, <1>2

\* Two channels carry every broadcast and are joined at different moments and lost together;
\* what a viewer shows from them is in the order of publication, for all logs and losses.
THEOREM ShownAsPublished == Spec => []InOrder
<1>1. Spec => [](Base /\ Explained /\ Orderly)
  BY BaseInit, BaseStep, ExplainedInit, ExplainedStep, OrderlyInit, OrderlyStep, PTL DEF Spec
<1>2. Base /\ Orderly => InOrder
  BY OrderlyMeans DEF Orderly
<1> QED BY <1>1, <1>2, PTL

=============================================================================
