----------------------------- MODULE RateLimiter -----------------------------
(***************************************************************************)
(* The request limiter of the orchestrator's API.  A map keeps, for every  *)
(* client address, how many requests it made in the window that its first  *)
(* request opened; an expired window is replaced by the next request, or   *)
(* dropped by a goroutine that wakes up every minute.  A mutex makes each  *)
(* request and each clean-up one step, and the clock is read under it.     *)
(***************************************************************************)
EXTENDS Naturals, Sequences

CONSTANTS
  IPs,       \* addresses of clients
  limit,     \* requests per window
  window,    \* length of a window
  MaxTime,   \* bound on the clock
  None

ASSUME LimiterAssumption ==
  /\ limit \in Nat \ {0} /\ window \in Nat \ {0} /\ MaxTime \in Nat
  /\ None \notin Nat /\ None \notin [count : Nat, windowStart : Nat]

VARIABLES
  now,        \* the clock
  clients,    \* rateLimiter.clients
  admitted,   \* history: when each client was served, in order
  refusedAt   \* history: when each client was last refused

vars == <<now, clients, admitted, refusedAt>>

rateLimiterEntry == [count : 1..limit, windowStart : Nat]

TypeOK ==
  /\ now \in Nat
  /\ clients \in [IPs -> rateLimiterEntry \cup {None}]
  /\ admitted \in [IPs -> Seq(Nat)]
  /\ refusedAt \in [IPs -> Nat \cup {None}]

Init ==
  /\ now = 0
  /\ clients = [ip \in IPs |-> None]
  /\ admitted = [ip \in IPs |-> <<>>]
  /\ refusedAt = [ip \in IPs |-> None]

-----------------------------------------------------------------------------
Tick ==
  /\ now < MaxTime
  /\ now' = now + 1
  /\ UNCHANGED <<clients, admitted, refusedAt>>

\* Mutant: a window lasts one instant longer than Retry-After says.
ExpiredLater(ip) == clients[ip] # None => now > clients[ip].windowStart + window

\* No entry, or one whose window is over.
Expired(ip) == clients[ip] # None => now >= clients[ip].windowStart + window

Admit(ip, entry) ==
  /\ clients' = [clients EXCEPT ![ip] = entry]
  /\ admitted' = [admitted EXCEPT ![ip] = Append(@, now)]
  /\ UNCHANGED <<now, refusedAt>>

\* allow: the first request of a window opens it.
OpenWindow(ip) ==
  /\ Expired(ip)
  /\ Admit(ip, [count |-> 1, windowStart |-> now])

\* Mutant: one request more than the limit.
CountOneMore(ip) ==
  /\ ~Expired(ip)
  /\ clients[ip].count <= limit
  /\ Admit(ip, [clients[ip] EXCEPT !.count = @ + 1])

\* allow: a further one is counted ...
Count(ip) ==
  /\ ~Expired(ip)
  /\ clients[ip].count < limit
  /\ Admit(ip, [clients[ip] EXCEPT !.count = @ + 1])

\* Mutant: a refused request opens the window anew.
RefuseAndExtend(ip) ==
  /\ ~Expired(ip)
  /\ clients[ip].count >= limit
  /\ refusedAt' = [refusedAt EXCEPT ![ip] = now]
  /\ clients' = [clients EXCEPT ![ip].windowStart = now]
  /\ UNCHANGED <<now, admitted>>

\* ... or, at the limit, refused with Retry-After: 60.
Refuse(ip) ==
  /\ ~Expired(ip)
  /\ clients[ip].count >= limit
  /\ refusedAt' = [refusedAt EXCEPT ![ip] = now]
  /\ UNCHANGED <<now, clients, admitted>>

\* Mutant: the clean-up drops every entry.
cleanupAll ==
  /\ clients' = [ip \in IPs |-> None]
  /\ UNCHANGED <<now, admitted, refusedAt>>

\* The goroutine started with the limiter; its ticker has a phase of its own.
cleanup ==
  /\ clients' = [ip \in IPs |->
       IF Expired(ip) THEN None ELSE clients[ip]]
  /\ UNCHANGED <<now, admitted, refusedAt>>

Next ==
  \/ Tick \/ cleanup
  \/ \E ip \in IPs : OpenWindow(ip) \/ Count(ip) \/ Refuse(ip)

Spec == Init /\ [][Next]_vars

-----------------------------------------------------------------------------
(***************************************************************************)
(* Properties.                                                             *)
(***************************************************************************)
\* n + 1 requests of a client are never served within less than a window.
AtMost(n) ==
  \A ip \in IPs : \A i \in 1..Len(admitted[ip]) :
    i + n <= Len(admitted[ip]) => admitted[ip][i] + window <= admitted[ip][i + n]

\* Whatever interval of one window's length is looked at, a client had at most twice
\* the limit served in it, however windows and clean-ups fall.
TwiceTheLimit == AtMost(2 * limit)

\* A client is refused only when the limit was served to it within the window that
\* ends at the refusal: expired windows and clean-ups never cost it a request.
RefusalIsEarned ==
  \A ip \in IPs : refusedAt[ip] # None =>
    \E i \in 1..Len(admitted[ip]) :
      /\ i + limit - 1 <= Len(admitted[ip])
      /\ admitted[ip][i + limit - 1] <= refusedAt[ip]
      /\ refusedAt[ip] < admitted[ip][i] + window

\* Retry-After is kept: a refused client that stays away for a window is served.
RetryIsServed ==
  \A ip \in IPs :
    /\ refusedAt[ip] # None
    /\ \A i \in 1..Len(admitted[ip]) : admitted[ip][i] <= refusedAt[ip]
    /\ now >= refusedAt[ip] + window
    => Expired(ip)

=============================================================================
