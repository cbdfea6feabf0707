-------------------------- MODULE RateLimiterProofs --------------------------
(***************************************************************************)
(* Proofs about RateLimiter, for every set of clients, limit and window.   *)
(*                                                                         *)
(* What the limiter keeps of the past is one number and one time; the      *)
(* invariant Windows says what they are worth.  While an entry is there,   *)
(* its count is the number of requests served since windowStart, and every *)
(* request that lies more than the limit before those is older than a      *)
(* whole window.  When the entry is gone, the same holds of the present.   *)
(***************************************************************************)
EXTENDS RateLimiter, TLAPS

\* Requests are recorded in the order of time.
Ordered(ip) ==
  /\ \A i \in 1..Len(admitted[ip]) : admitted[ip][i] <= now
  /\ \A i, j \in 1..Len(admitted[ip]) : i <= j => admitted[ip][i] <= admitted[ip][j]

\* The entry counts the requests since the first of its window.
Counted(ip) ==
  clients[ip] # None =>
    /\ clients[ip].count <= Len(admitted[ip])
    /\ admitted[ip][Len(admitted[ip]) - clients[ip].count + 1] = clients[ip].windowStart
    /\ \A i \in 1..Len(admitted[ip]) :
         i + clients[ip].count + limit <= Len(admitted[ip]) =>
           admitted[ip][i] + window <= clients[ip].windowStart

\* Without an entry, all but the last requests are older than a window.
Forgotten(ip) ==
  clients[ip] = None =>
    \A i \in 1..Len(admitted[ip]) :
      i + limit <= Len(admitted[ip]) => admitted[ip][i] + window <= now

Windows == \A ip \in IPs : Ordered(ip) /\ Counted(ip) /\ Forgotten(ip)

-----------------------------------------------------------------------------
LEMMA Numbers == limit \in Nat /\ limit >= 1 /\ window \in Nat /\ window >= 1
  BY LimiterAssumption DEF LimiterAssumption

\* Arithmetic of the places and the times the invariant speaks of.
LEMMA Older ==
  \A x, y, t \in Nat : x <= y /\ y + window <= t => x + window <= t
  BY Numbers

LEMMA Later ==
  \A x, t \in Nat : x + window <= t => x + window <= t + 1
  BY Numbers

LEMMA FirstOfWindow ==
  \A n \in Nat : \A c \in 1..limit : c <= n =>
    /\ n - c + 1 \in 1..n
    /\ \A i \in 1..n : i + limit <= n => i <= n - c + 1
  BY Numbers

LEMMA NextPlace ==
  \A n \in Nat : \A c \in 1..limit :
    /\ (n + 1) - (c + 1) + 1 = n - c + 1
    /\ \A i \in 1..n + 1 : i + (c + 1) + limit <= n + 1 => i \in 1..n /\ i + c + limit <= n
  BY Numbers

\* What serving one more request does to the record of a client.
LEMMA Record ==
  ASSUME NEW a \in Seq(Nat), NEW t \in Nat, NEW b, b = Append(a, t)
  PROVE  /\ b \in Seq(Nat) /\ Len(b) = Len(a) + 1 /\ Len(a) \in Nat
         /\ \A i \in 1..Len(a) : b[i] = a[i] /\ a[i] \in Nat
         /\ b[Len(a) + 1] = t
  OBVIOUS

\* An entry has a count and a time, and an entry of the code is never None.
LEMMA Entry ==
  ASSUME TypeOK, NEW ip \in IPs, clients[ip] # None
  PROVE  clients[ip].count \in 1..limit /\ clients[ip].windowStart \in Nat
  BY DEF TypeOK, rateLimiterEntry

\* What a request finds in the record and the entry of its client once Windows holds:
\* all but the last limit - 1 requests, or all but those of the window, are old.
LEMMA Expiry ==
  ASSUME TypeOK, Windows, NEW ip \in IPs, Expired(ip), NEW i \in 1..Len(admitted[ip]),
         i + limit <= Len(admitted[ip])
  PROVE  admitted[ip][i] + window <= now
<1>1. CASE clients[ip] = None
  BY <1>1 DEF Windows, Forgotten
<1>2. CASE clients[ip] # None
  <2> DEFINE n == Len(admitted[ip])
             f == n - clients[ip].count + 1
  <2>1. admitted[ip] \in Seq(Nat) /\ now \in Nat /\ n \in Nat
    BY DEF TypeOK
  <2>2. clients[ip].count \in 1..limit /\ clients[ip].windowStart \in Nat
    BY <1>2, Entry
  <2>3. clients[ip].count <= n /\ admitted[ip][f] = clients[ip].windowStart
    BY <1>2 DEF Windows, Counted
  <2>4. f \in 1..n /\ i <= f
    BY <2>1, <2>2, <2>3, FirstOfWindow
  <2>5. admitted[ip][i] <= clients[ip].windowStart
    BY <2>3, <2>4 DEF Windows, Ordered
  <2>6. clients[ip].windowStart + window <= now
    BY <1>2, <2>1, <2>2 DEF Expired
  <2>7. admitted[ip][i] \in Nat
    BY <2>1
  <2>8. QED
    BY <2>1, <2>2, <2>5, <2>6, <2>7, Older
<1>3. QED
  BY <1>1, <1>2

-----------------------------------------------------------------------------
(***************************************************************************)
(* Types.                                                                  *)
(***************************************************************************)
LEMMA TypeInit == Init => TypeOK
  BY LimiterAssumption DEF Init, TypeOK

\* Recording a request of a client keeps the types when the new entry has its own.
LEMMA AdmitType ==
  ASSUME TypeOK, NEW ip \in IPs, NEW entry \in rateLimiterEntry, Admit(ip, entry)
  PROVE  TypeOK'
<1>1. Append(admitted[ip], now) \in Seq(Nat)
  BY Record DEF TypeOK
<1>2. admitted' \in [IPs -> Seq(Nat)]
  BY <1>1 DEF TypeOK, Admit
<1>3. clients' \in [IPs -> rateLimiterEntry \cup {None}]
  BY DEF TypeOK, Admit
<1>4. QED
  BY <1>2, <1>3 DEF TypeOK, Admit

LEMMA TypeStep == TypeOK /\ [Next]_vars => TypeOK'
<1> SUFFICES ASSUME TypeOK, [Next]_vars PROVE TypeOK'
  OBVIOUS
<1>1. CASE Tick
  BY <1>1 DEF TypeOK, Tick
<1>2. CASE cleanup
  BY <1>2 DEF TypeOK, cleanup
<1>3. ASSUME NEW ip \in IPs, OpenWindow(ip) PROVE TypeOK'
  <2>1. [count |-> 1, windowStart |-> now] \in rateLimiterEntry
    BY LimiterAssumption DEF TypeOK, rateLimiterEntry
  <2>2. QED
    BY <1>3, <2>1, AdmitType DEF OpenWindow
<1>4. ASSUME NEW ip \in IPs, Count(ip) PROVE TypeOK'
  <2>1. clients[ip] # None
    BY <1>4 DEF Count, Expired
  <2>2. clients[ip] \in rateLimiterEntry /\ clients[ip].count \in 1..limit
    BY <2>1, Entry DEF TypeOK
  <2>3. clients[ip].count + 1 \in 1..limit
    BY <1>4, <2>2, LimiterAssumption DEF Count
  <2>4. [clients[ip] EXCEPT !.count = @ + 1] \in rateLimiterEntry
    BY <2>2, <2>3 DEF rateLimiterEntry
  <2>5. QED
    BY <1>4, <2>4, AdmitType DEF Count
<1>5. ASSUME NEW ip \in IPs, Refuse(ip) PROVE TypeOK'
  BY <1>5 DEF TypeOK, Refuse
<1>6. CASE UNCHANGED vars
  BY <1>6 DEF TypeOK, vars
<1>7. QED
  BY <1>1, <1>2, <1>3, <1>4, <1>5, <1>6 DEF Next

\* The entries of the map count between one and the limit, the clock and the records
\* are what they should be, whatever the clients do.
THEOREM TypeCorrect == Spec => []TypeOK
  BY TypeInit, TypeStep, PTL DEF Spec

-----------------------------------------------------------------------------
(***************************************************************************)
(* What the limiter keeps of the past.                                     *)
(***************************************************************************)
LEMMA WindowsInit == Init => Windows
<1> SUFFICES ASSUME Init, NEW ip \in IPs PROVE Ordered(ip) /\ Counted(ip) /\ Forgotten(ip)
  BY DEF Windows
<1>1. clients[ip] = None /\ 1..Len(admitted[ip]) = {}
  BY DEF Init
<1>2. QED
  BY <1>1 DEF Ordered, Counted, Forgotten

\* The record of the clients a step leaves alone, when the clock stands still.
LEMMA OtherClients ==
  ASSUME Windows, NEW ip \in IPs, now' = now,
         clients'[ip] = clients[ip], admitted'[ip] = admitted[ip]
  PROVE  Ordered(ip)' /\ Counted(ip)' /\ Forgotten(ip)'
  BY DEF Windows, Ordered, Counted, Forgotten

\* A request that opens a window: all but the last limit requests before it are old.
LEMMA OpenKeepsWindows ==
  ASSUME TypeOK, Windows, NEW ip \in IPs, OpenWindow(ip)
  PROVE  Windows'
<1> DEFINE a == admitted[ip]
           b == admitted'[ip]
<1>1. /\ a \in Seq(Nat) /\ now \in Nat /\ now' = now
      /\ b = Append(a, now)
      /\ clients'[ip] = [count |-> 1, windowStart |-> now]
  BY DEF OpenWindow, Admit, TypeOK
<1>2. /\ b \in Seq(Nat) /\ Len(b) = Len(a) + 1 /\ Len(a) \in Nat
      /\ \A i \in 1..Len(a) : b[i] = a[i] /\ a[i] \in Nat
      /\ b[Len(a) + 1] = now
  BY <1>1, Record
<1>3. Ordered(ip)'
  <2>1. \A i \in 1..Len(a) : b[i] <= now
    BY <1>2 DEF Windows, Ordered
  <2>2. \A i, j \in 1..Len(a) : i <= j => b[i] <= b[j]
    BY <1>2 DEF Windows, Ordered
  <2>3. \A i \in 1..Len(b) : i \in 1..Len(a) \/ i = Len(a) + 1
    BY <1>2
  <2>4. QED
    BY <1>1, <1>2, <2>1, <2>2, <2>3 DEF Ordered
<1>4. Counted(ip)'
  <2>1. \A i \in 1..Len(a) : i + limit <= Len(a) => a[i] + window <= now
    BY Expiry DEF OpenWindow
  <2>2. ASSUME NEW i \in 1..Len(b), i + 1 + limit <= Len(b)
        PROVE  b[i] + window <= now
    <3>1. i \in 1..Len(a) /\ i + limit <= Len(a)
      BY <1>2, <2>2, Numbers
    <3>2. QED
      BY <1>2, <2>1, <3>1
  <2>3. QED
    BY <1>1, <1>2, <2>2 DEF Counted
<1>5. Forgotten(ip)'
  <2>1. clients'[ip] # None
    BY <1>1, LimiterAssumption DEF LimiterAssumption
  <2>2. QED
    BY <2>1 DEF Forgotten
<1>6. ASSUME NEW other \in IPs, other # ip
      PROVE  Ordered(other)' /\ Counted(other)' /\ Forgotten(other)'
  BY <1>1, <1>6, OtherClients DEF OpenWindow, Admit, TypeOK
<1>7. QED
  BY <1>3, <1>4, <1>5, <1>6 DEF Windows

\* A request that is counted: the distance to the first of its window is unchanged.
LEMMA CountKeepsWindows ==
  ASSUME TypeOK, Windows, NEW ip \in IPs, Count(ip)
  PROVE  Windows'
<1> DEFINE a == admitted[ip]
           b == admitted'[ip]
           c == clients[ip].count
<1>1. clients[ip] # None
  BY DEF Count, Expired
<1>2. /\ c \in 1..limit /\ clients[ip].windowStart \in Nat
      /\ clients[ip] \in rateLimiterEntry
  BY <1>1, Entry DEF TypeOK
<1>3. /\ a \in Seq(Nat) /\ now \in Nat /\ now' = now
      /\ b = Append(a, now)
      /\ clients'[ip] = [clients[ip] EXCEPT !.count = @ + 1]
  BY DEF Count, Admit, TypeOK
<1>4. /\ clients'[ip].count = c + 1
      /\ clients'[ip].windowStart = clients[ip].windowStart
      /\ clients'[ip] # None
  BY <1>2, <1>3, LimiterAssumption DEF rateLimiterEntry, LimiterAssumption
<1>5. /\ b \in Seq(Nat) /\ Len(b) = Len(a) + 1 /\ Len(a) \in Nat
      /\ \A i \in 1..Len(a) : b[i] = a[i] /\ a[i] \in Nat
      /\ b[Len(a) + 1] = now
  BY <1>3, Record
<1>6. Ordered(ip)'
  <2>1. \A i \in 1..Len(a) : b[i] <= now
    BY <1>5 DEF Windows, Ordered
  <2>2. \A i, j \in 1..Len(a) : i <= j => b[i] <= b[j]
    BY <1>5 DEF Windows, Ordered
  <2>3. \A i \in 1..Len(b) : i \in 1..Len(a) \/ i = Len(a) + 1
    BY <1>5
  <2>4. QED
    BY <1>3, <1>5, <2>1, <2>2, <2>3 DEF Ordered
<1>7. Counted(ip)'
  <2>1. /\ c <= Len(a) /\ a[Len(a) - c + 1] = clients[ip].windowStart
        /\ \A i \in 1..Len(a) :
             i + c + limit <= Len(a) => a[i] + window <= clients[ip].windowStart
    BY <1>1 DEF Windows, Counted
  <2>2. Len(b) - (c + 1) + 1 = Len(a) - c + 1 /\ Len(a) - c + 1 \in 1..Len(a)
    BY <1>2, <1>5, <2>1, FirstOfWindow, NextPlace
  <2>3. b[Len(b) - (c + 1) + 1] = clients[ip].windowStart
    BY <1>5, <2>1, <2>2
  <2>4. ASSUME NEW i \in 1..Len(b), i + (c + 1) + limit <= Len(b)
        PROVE  b[i] + window <= clients[ip].windowStart
    <3>1. i \in 1..Len(a) /\ i + c + limit <= Len(a)
      BY <1>2, <1>5, <2>4, NextPlace
    <3>2. QED
      BY <1>5, <2>1, <3>1
  <2>5. c + 1 <= Len(b)
    BY <1>2, <1>5, <2>1, Numbers
  <2>6. QED
    BY <1>4, <2>3, <2>4, <2>5 DEF Counted
<1>8. Forgotten(ip)'
  BY <1>4 DEF Forgotten
<1>9. ASSUME NEW other \in IPs, other # ip
      PROVE  Ordered(other)' /\ Counted(other)' /\ Forgotten(other)'
  BY <1>3, <1>9, OtherClients DEF Count, Admit, TypeOK
<1>10. QED
  BY <1>6, <1>7, <1>8, <1>9 DEF Windows

\* The clean-up forgets only what has expired.
LEMMA CleanupKeepsWindows ==
  ASSUME TypeOK, Windows, cleanup
  PROVE  Windows'
<1>1. ASSUME NEW ip \in IPs PROVE Ordered(ip)' /\ Counted(ip)' /\ Forgotten(ip)'
  <2>1. now' = now /\ admitted'[ip] = admitted[ip]
    BY DEF cleanup
  <2>2. CASE Expired(ip)
    <3>1. clients'[ip] = None
      BY <2>2 DEF cleanup
    <3>2. Forgotten(ip)'
      <4>1. \A i \in 1..Len(admitted[ip]) :
              i + limit <= Len(admitted[ip]) => admitted[ip][i] + window <= now
        BY <2>2, Expiry
      <4>2. QED
        BY <2>1, <4>1 DEF Forgotten
    <3>3. QED
      BY <2>1, <3>1, <3>2 DEF Windows, Ordered, Counted
  <2>3. CASE ~Expired(ip)
    <3>1. clients'[ip] = clients[ip]
      BY <2>3 DEF cleanup
    <3>2. QED
      BY <2>1, <3>1, OtherClients
  <2>4. QED
    BY <2>2, <2>3
<1>2. QED
  BY <1>1 DEF Windows

\* Time only makes requests older.
LEMMA TickKeepsWindows ==
  ASSUME TypeOK, Windows, Tick
  PROVE  Windows'
<1>1. ASSUME NEW ip \in IPs PROVE Ordered(ip)' /\ Counted(ip)' /\ Forgotten(ip)'
  <2>1. /\ now \in Nat /\ now' = now + 1
        /\ admitted'[ip] = admitted[ip] /\ clients'[ip] = clients[ip]
    BY DEF Tick, TypeOK
  <2>2. \A i \in 1..Len(admitted[ip]) : admitted[ip][i] \in Nat
    BY DEF TypeOK
  <2>3. Ordered(ip)'
    BY <2>1, <2>2 DEF Windows, Ordered
  <2>4. Counted(ip)'
    BY <2>1 DEF Windows, Counted
  <2>5. Forgotten(ip)'
    <3>1. ASSUME clients[ip] = None, NEW i \in 1..Len(admitted[ip]),
                 i + limit <= Len(admitted[ip])
          PROVE  admitted[ip][i] + window <= now
      BY <3>1 DEF Windows, Forgotten
    <3>2. QED
      BY <2>1, <2>2, <3>1, Later DEF Forgotten
  <2>6. QED
    BY <2>3, <2>4, <2>5
<1>2. QED
  BY <1>1 DEF Windows

LEMMA WindowsStep == TypeOK /\ Windows /\ [Next]_vars => Windows'
<1> SUFFICES ASSUME TypeOK, Windows, [Next]_vars PROVE Windows'
  OBVIOUS
<1>1. ASSUME NEW ip \in IPs, Refuse(ip) PROVE Windows'
  BY <1>1, OtherClients DEF Refuse, Windows
<1>2. CASE UNCHANGED vars
  BY <1>2, OtherClients DEF vars, Windows
<1>3. QED
  BY <1>1, <1>2, OpenKeepsWindows, CountKeepsWindows, CleanupKeepsWindows,
     TickKeepsWindows DEF Next

LEMMA WindowsAlways == Spec => [](TypeOK /\ Windows)
  BY TypeInit, TypeStep, WindowsInit, WindowsStep, PTL DEF Spec

-----------------------------------------------------------------------------
(***************************************************************************)
(* What clients may rely on.                                               *)
(***************************************************************************)
\* The places compared by TwiceTheLimit when a request is appended.
LEMMA LastPair ==
  \A n \in Nat : \A i \in 1..n + 1 : i + 2 * limit <= n + 1 =>
    \/ i \in 1..n /\ i + 2 * limit <= n /\ i + 2 * limit \in 1..n
    \/ i + 2 * limit = n + 1 /\ i \in 1..n
  BY Numbers

\* A request served now is a window away from any request of its client that lies
\* twice the limit before it.
LEMMA AdmitKeepsTwice ==
  ASSUME TypeOK, TwiceTheLimit, NEW ip \in IPs, NEW entry, Admit(ip, entry),
         \A i \in 1..Len(admitted[ip]) :
           i + 2 * limit = Len(admitted[ip]) + 1 => admitted[ip][i] + window <= now
  PROVE  TwiceTheLimit'
<1> DEFINE a == admitted[ip]
           b == admitted'[ip]
<1>1. a \in Seq(Nat) /\ now \in Nat /\ b = Append(a, now)
  BY DEF Admit, TypeOK
<1>2. /\ b \in Seq(Nat) /\ Len(b) = Len(a) + 1 /\ Len(a) \in Nat
      /\ \A i \in 1..Len(a) : b[i] = a[i] /\ a[i] \in Nat
      /\ b[Len(a) + 1] = now
  BY <1>1, Record
<1>3. ASSUME NEW i \in 1..Len(b), i + 2 * limit <= Len(b)
      PROVE  b[i] + window <= b[i + 2 * limit]
  <2>1. CASE i \in 1..Len(a) /\ i + 2 * limit <= Len(a) /\ i + 2 * limit \in 1..Len(a)
    <3>1. a[i] + window <= a[i + 2 * limit]
      BY <2>1 DEF TwiceTheLimit, AtMost
    <3>2. b[i] = a[i] /\ b[i + 2 * limit] = a[i + 2 * limit]
      BY <1>2, <2>1
    <3>3. QED
      BY <3>1, <3>2
  <2>2. CASE i + 2 * limit = Len(a) + 1 /\ i \in 1..Len(a)
    <3>1. a[i] + window <= now
      BY <2>2
    <3>2. b[i] = a[i] /\ b[i + 2 * limit] = now
      BY <1>2, <2>2
    <3>3. QED
      BY <3>1, <3>2
  <2>3. QED
    BY <1>2, <1>3, <2>1, <2>2, LastPair
<1>4. ASSUME NEW other \in IPs, other # ip PROVE admitted'[other] = admitted[other]
  BY <1>4 DEF Admit, TypeOK
<1>5. QED
  BY <1>3, <1>4 DEF TwiceTheLimit, AtMost

LEMMA TwiceStep == TypeOK /\ Windows /\ TwiceTheLimit /\ [Next]_vars => TwiceTheLimit'
<1> SUFFICES ASSUME TypeOK, Windows, TwiceTheLimit, [Next]_vars PROVE TwiceTheLimit'
  OBVIOUS
<1>1. ASSUME NEW ip \in IPs, OpenWindow(ip) PROVE TwiceTheLimit'
  <2>1. ASSUME NEW i \in 1..Len(admitted[ip]), i + 2 * limit = Len(admitted[ip]) + 1
        PROVE  admitted[ip][i] + window <= now
    <3>1. Len(admitted[ip]) \in Nat
      BY DEF TypeOK
    <3>2. i + limit <= Len(admitted[ip])
      BY <2>1, <3>1, Numbers
    <3>3. QED
      BY <1>1, <3>2, Expiry DEF OpenWindow
  <2>2. QED
    BY <1>1, <2>1, AdmitKeepsTwice DEF OpenWindow
<1>2. ASSUME NEW ip \in IPs, Count(ip) PROVE TwiceTheLimit'
  <2> DEFINE n == Len(admitted[ip])
             c == clients[ip].count
  <2>1. clients[ip] # None
    BY <1>2 DEF Count, Expired
  <2>2. c \in 1..limit /\ clients[ip].windowStart \in Nat /\ c < limit
    BY <1>2, <2>1, Entry DEF Count
  <2>3. n \in Nat /\ now \in Nat
    BY DEF TypeOK
  <2>4. ASSUME NEW i \in 1..n, i + 2 * limit = n + 1
        PROVE  admitted[ip][i] + window <= now
    <3>1. i + c + limit <= n
      BY <2>2, <2>3, <2>4, Numbers
    <3>2. admitted[ip][i] + window <= clients[ip].windowStart
      BY <2>1, <3>1 DEF Windows, Counted
    <3>3. clients[ip].windowStart <= now
      BY <2>1, <2>2, <2>3, FirstOfWindow DEF Windows, Counted, Ordered
    <3>4. admitted[ip][i] \in Nat
      BY DEF TypeOK
    <3>5. QED
      BY <2>2, <2>3, <3>2, <3>3, <3>4, Numbers
  <2>5. QED
    BY <1>2, <2>4, AdmitKeepsTwice DEF Count
<1>3. CASE Tick \/ cleanup \/ (\E ip \in IPs : Refuse(ip)) \/ UNCHANGED vars
  <2>1. admitted' = admitted
    BY <1>3 DEF Tick, cleanup, Refuse, vars
  <2>2. QED
    BY <2>1 DEF TwiceTheLimit, AtMost
<1>4. QED
  BY <1>1, <1>2, <1>3 DEF Next

\* In any interval as long as a window the limiter serves a client at most twice the
\* limit: this is what allow and cleanup together guarantee.
THEOREM ServesTwiceAtMost == Spec => []TwiceTheLimit
<1>1. Init => TwiceTheLimit
  BY DEF Init, TwiceTheLimit, AtMost
<1>2. QED
  BY <1>1, TwiceStep, WindowsAlways, PTL DEF Spec

\* A refused client that stays away as long as Retry-After says is served: the window
\* of its entry began with a request before the refusal.
THEOREM RetryAfterIsKept == Spec => []RetryIsServed
<1>1. TypeOK /\ Windows => RetryIsServed
  <2> SUFFICES ASSUME TypeOK, Windows, NEW ip \in IPs, refusedAt[ip] # None,
                      \A i \in 1..Len(admitted[ip]) : admitted[ip][i] <= refusedAt[ip],
                      now >= refusedAt[ip] + window, clients[ip] # None
               PROVE  now >= clients[ip].windowStart + window
    BY DEF RetryIsServed, Expired
  <2>1. clients[ip].count \in 1..limit /\ clients[ip].windowStart \in Nat
    BY Entry
  <2>2. Len(admitted[ip]) \in Nat /\ now \in Nat /\ refusedAt[ip] \in Nat
    BY DEF TypeOK
  <2>3. clients[ip].windowStart <= refusedAt[ip]
    BY <2>1, <2>2, FirstOfWindow DEF Windows, Counted
  <2>4. QED
    BY <2>1, <2>2, <2>3, Numbers
<1>2. QED
  BY <1>1, WindowsAlways, PTL

\* A full window before a refusal stays in the record whatever is appended to it.
LEMMA EarnedStep ==
  TypeOK /\ Windows /\ RefusalIsEarned /\ [Next]_vars => RefusalIsEarned'
<1> SUFFICES ASSUME TypeOK, Windows, RefusalIsEarned, [Next]_vars PROVE RefusalIsEarned'
  OBVIOUS
<1>1. ASSUME NEW ip \in IPs, NEW entry, Admit(ip, entry) PROVE RefusalIsEarned'
  <2> SUFFICES ASSUME NEW other \in IPs, refusedAt'[other] # None
               PROVE  \E i \in 1..Len(admitted'[other]) :
                        /\ i + limit - 1 <= Len(admitted'[other])
                        /\ admitted'[other][i + limit - 1] <= refusedAt'[other]
                        /\ refusedAt'[other] < admitted'[other][i] + window
    BY DEF RefusalIsEarned
  <2>1. PICK i \in 1..Len(admitted[other]) :
          /\ i + limit - 1 <= Len(admitted[other])
          /\ admitted[other][i + limit - 1] <= refusedAt[other]
          /\ refusedAt[other] < admitted[other][i] + window
    BY <1>1 DEF RefusalIsEarned, Admit
  <2>2. refusedAt'[other] = refusedAt[other]
    BY <1>1 DEF Admit
  <2>3. CASE other # ip
    <3>1. admitted'[other] = admitted[other]
      BY <1>1, <2>3 DEF Admit, TypeOK
    <3>2. QED
      BY <2>1, <2>2, <3>1
  <2>4. CASE other = ip
    <3>1. admitted[ip] \in Seq(Nat) /\ now \in Nat /\ admitted'[ip] = Append(admitted[ip], now)
      BY <1>1 DEF Admit, TypeOK
    <3>2. /\ Len(admitted'[ip]) = Len(admitted[ip]) + 1 /\ Len(admitted[ip]) \in Nat
          /\ \A j \in 1..Len(admitted[ip]) : admitted'[ip][j] = admitted[ip][j]
      BY <3>1, Record
    <3>3. /\ i + limit - 1 \in 1..Len(admitted[ip])
          /\ i \in 1..Len(admitted'[ip])
          /\ i + limit - 1 <= Len(admitted'[ip])
      BY <2>1, <2>4, <3>2, Numbers
    <3>4. /\ admitted'[ip][i] = admitted[ip][i]
          /\ admitted'[ip][i + limit - 1] = admitted[ip][i + limit - 1]
      BY <2>4, <3>2, <3>3
    <3>5. QED
      BY <2>1, <2>2, <2>4, <3>3, <3>4
  <2>5. QED
    BY <2>3, <2>4
<1>2. ASSUME NEW ip \in IPs, Refuse(ip) PROVE RefusalIsEarned'
  <2> DEFINE n == Len(admitted[ip])
             f == n - clients[ip].count + 1
  <2>1. clients[ip] # None /\ ~Expired(ip)
    BY <1>2 DEF Refuse, Expired
  <2>2. clients[ip].count \in 1..limit /\ clients[ip].windowStart \in Nat
    BY <2>1, Entry
  <2>3. clients[ip].count = limit
    BY <1>2, <2>2, Numbers DEF Refuse
  <2>4. n \in Nat /\ now \in Nat
    BY DEF TypeOK
  <2>5. clients[ip].count <= n /\ admitted[ip][f] = clients[ip].windowStart
    BY <2>1 DEF Windows, Counted
  <2>6. f \in 1..n
    BY <2>2, <2>4, <2>5, FirstOfWindow
  <2>7. f + limit - 1 = n /\ n \in 1..n
    BY <2>3, <2>4, <2>5, Numbers
  <2>8. admitted[ip][n] <= now
    BY <2>7 DEF Windows, Ordered
  <2>9. now < admitted[ip][f] + window
    BY <2>1, <2>2, <2>4, <2>5, Numbers DEF Expired
  <2>10. /\ refusedAt'[ip] = now /\ admitted' = admitted
         /\ \A other \in IPs : other # ip => refusedAt'[other] = refusedAt[other]
    BY <1>2 DEF Refuse, TypeOK
  <2>11. \E i \in 1..Len(admitted[ip]) :
           /\ i + limit - 1 <= Len(admitted[ip])
           /\ admitted[ip][i + limit - 1] <= now
           /\ now < admitted[ip][i] + window
    <3>1. WITNESS f \in 1..n
    <3>2. QED
      BY <2>4, <2>7, <2>8, <2>9
  <2>12. QED
    BY <2>10, <2>11 DEF RefusalIsEarned
<1>3. CASE Tick \/ cleanup \/ UNCHANGED vars
  <2>1. admitted' = admitted /\ refusedAt' = refusedAt
    BY <1>3 DEF Tick, cleanup, vars
  <2>2. QED
    BY <2>1 DEF RefusalIsEarned
<1>4. QED
  BY <1>1, <1>2, <1>3 DEF Next, OpenWindow, Count

\* No client is refused that did not have its full share in the window before: neither
\* an expired entry nor a clean-up ever costs a request.
THEOREM RefusalsAreEarned == Spec => []RefusalIsEarned
<1>1. Init => RefusalIsEarned
  BY DEF Init, RefusalIsEarned
<1>2. QED
  BY <1>1, EarnedStep, WindowsAlways, PTL DEF Spec
=============================================================================
