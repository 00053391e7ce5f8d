------------------------------ MODULE RateLimit ------------------------------
(***************************************************************************)
(* The rate limiter of POST /login, /register and /forgot: a bucket per    *)
(* client address that rateLimitMiddleware opens, counts in and replaces   *)
(* under rlMu, and that runHousekeeping deletes once an hour when its      *)
(* window is over. Time is a bounded counter of ticks.                     *)
(***************************************************************************)
EXTENDS RateLimitParameters, Sequences

VARIABLES
  now,      \* the monotonic clock
  rl,       \* the bucket of each address, or None
  passed,   \* history: when this process let a request of an address through
  began     \* history: when the window of each of these requests began

vars == <<now, rl, passed, began>>

Init ==
  /\ now = 0
  /\ rl = [ip \in IPs |-> None]
  /\ passed = [ip \in IPs |-> <<>>] /\ began = [ip \in IPs |-> <<>>]

-----------------------------------------------------------------------------
Over(ip) == rl[ip] # None /\ now > rl[ip].resetAt
Bucket(count, resetAt) == [count |-> count, resetAt |-> resetAt]
LetThrough(ip, at, since) ==
  /\ passed' = [passed EXCEPT ![ip] = Append(@, at)]
  /\ began' = [began EXCEPT ![ip] = Append(@, since)]

\* The first request of a window. The clock is read once more for its end, and
\* may have gone on.
Open(ip) ==
  /\ rl[ip] = None \/ Over(ip)
  /\ now' \in now .. now + 1 /\ now' <= MaxTime
  /\ rl' = [rl EXCEPT ![ip] = Bucket(1, now' + Window)]
  /\ LetThrough(ip, now', now')

\* Mutant: the count is tested before it is incremented, with the same sign.
PassOneMore(ip) ==
  /\ rl[ip] # None /\ ~Over(ip)
  /\ rl[ip].count <= Limit
  /\ rl' = [rl EXCEPT ![ip].count = @ + 1]
  /\ LetThrough(ip, now, rl[ip].resetAt - Window)
  /\ UNCHANGED now

\* Another one within the limit.
Pass(ip) ==
  /\ rl[ip] # None /\ ~Over(ip)
  /\ rl[ip].count + 1 <= Limit
  /\ rl' = [rl EXCEPT ![ip].count = @ + 1]
  /\ LetThrough(ip, now, rl[ip].resetAt - Window)
  /\ UNCHANGED now

\* Mutant: a request that is refused makes the client wait a whole window more.
RefuseExtends(ip) ==
  /\ rl[ip] # None /\ ~Over(ip)
  /\ rl[ip].count + 1 > Limit /\ rl[ip].count < MaxCount
  /\ rl' = [rl EXCEPT ![ip] = Bucket(@.count + 1, now + Window)]
  /\ UNCHANGED <<now, passed, began>>

\* One over the limit is counted too, and answered 429.
Refuse(ip) ==
  /\ rl[ip] # None /\ ~Over(ip)
  /\ rl[ip].count + 1 > Limit /\ rl[ip].count < MaxCount
  /\ rl' = [rl EXCEPT ![ip].count = @ + 1]
  /\ UNCHANGED <<now, passed, began>>

\* Mutant: the comparison the other way round.
PurgeLive ==
  /\ rl' = [ip \in IPs |-> IF Over(ip) THEN rl[ip] ELSE None]
  /\ UNCHANGED <<now, passed, began>>

\* runHousekeeping: the buckets whose window is over, all under one lock.
Purge ==
  /\ rl' = [ip \in IPs |-> IF Over(ip) THEN None ELSE rl[ip]]
  /\ UNCHANGED <<now, passed, began>>

\* NewServer starts with an empty map, and a history of its own.
Restart ==
  /\ rl' = [ip \in IPs |-> None]
  /\ passed' = [ip \in IPs |-> <<>>] /\ began' = [ip \in IPs |-> <<>>]
  /\ UNCHANGED now

Tick ==
  /\ now < MaxTime
  /\ now' = now + 1
  /\ UNCHANGED <<rl, passed, began>>

Request(ip) == Open(ip) \/ Pass(ip) \/ Refuse(ip)

Next == (\E ip \in IPs : Request(ip)) \/ Purge \/ Restart \/ Tick

Spec == Init /\ [][Next]_vars

-----------------------------------------------------------------------------
\* The clock, the map and the history keep their shape.
TypeOK ==
  /\ now \in 0 .. MaxTime
  /\ rl \in [IPs -> Buckets \cup {None}]
  /\ passed \in [IPs -> Seq(Nat)] /\ began \in [IPs -> Seq(Nat)]

\* No interval as long as a window sees more than twice the limit of one address
\* let through, whenever windows begin and buckets are purged: of the requests
\* let through, the one 2 * Limit later comes more than a window later.
BurstBound ==
  \A ip \in IPs : \A i \in 1 .. Len(passed[ip]) - 2 * Limit :
    passed[ip][i + 2 * Limit] > passed[ip][i] + Window

\* Whoever is refused has had a whole limit of requests let through within the
\* last window, and so is let through again a window later, however often it
\* asked meanwhile.
Refused(ip) == rl'[ip] \notin {rl[ip], None} /\ passed'[ip] = passed[ip]
RefusedForCause ==
  [][\A ip \in IPs : Refused(ip) =>
       LET n == Len(passed[ip])
       IN  n >= Limit /\ passed[ip][n - Limit + 1] + Window >= now]_vars
=============================================================================
