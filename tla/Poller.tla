------------------------------- MODULE Poller -------------------------------
(***************************************************************************)
(* The polling loop of freeride-watcher: Fetcher.Start with its jittered   *)
(* interval and exponential backoff, runOnce and fetch with the ETag it    *)
(* keeps between requests. What runOnce does with new routes is module     *)
(* WatchAlerts; here it is part of the time a run takes, and module        *)
(* Pipeline puts the two together.                                         *)
(***************************************************************************)
EXTENDS Naturals, FiniteSets

CONSTANTS
  Routes,       \* route ids the API may list
  MaxBackoff,   \* maxBackoff in units of the first backoff (600)
  Jitter,       \* cfg.FetchJitter
  TagHeader,    \* may an answer carry an ETag header, may it carry none
  Faults,       \* "Request", "Body", "UpsertRoute" and "Crash"
  MaxFails      \* bound of the history variable fails

ASSUME PollerAssumption ==
  /\ MaxBackoff \in Nat \ {0}
  /\ Jitter \in Nat
  /\ MaxFails \in Nat
  /\ TagHeader \subseteq BOOLEAN
  /\ Faults \subseteq {"Request", "Body", "UpsertRoute", "Crash"}

VARIABLES
  listing,  \* external: the routes the Hertz API lists now, those with a departure
  stored,   \* table routes
  etag,     \* f.etag: {} for "", {L} for the tag the API gives listing L
  answer,   \* routes of the answer in hand, still to upsert
  pc,
  first,    \* is this the immediate run, whose error Start ignores
  backoff,
  status,   \* f.status: "none", "ok" or "error"
  seen,     \* history: the listing the last answer spoke of
  lost,     \* history: routes of a broken or empty body or a failed upsert, not stored since
  fails     \* history: failed runs since the last good one, up to MaxFails

vars == <<listing, stored, etag, answer, pc, first, backoff, status, seen, lost, fails>>

MayFail(call) == call \in Faults

\* A process that starts: the first fetch is immediate, no tag is known.
Started == [pc |-> "request", first |-> TRUE, etag |-> {}, backoff |-> 1,
            status |-> "none"]

Init ==
  /\ listing \in SUBSET Routes
  /\ stored = {} /\ answer = {} /\ seen = {} /\ lost = {} /\ fails = 0
  /\ pc = Started.pc /\ first = Started.first /\ etag = Started.etag
  /\ backoff = Started.backoff /\ status = Started.status

-----------------------------------------------------------------------------
\* Start after runOnce returned: an error is followed by a backoff, a success
\* resets it; the outcome of the first run is dropped.
RunFailed ==
  /\ status' = "error" /\ answer' = {}
  /\ pc' = IF first THEN "loop" ELSE "backoff"
  /\ fails' = IF first \/ fails = MaxFails THEN fails ELSE fails + 1
  /\ UNCHANGED <<listing, stored, first, backoff>>

\* Mutant: the backoff is not reset.
RunSucceededNoReset ==
  /\ status' = "ok" /\ answer' = {}
  /\ pc' = "loop" /\ fails' = 0
  /\ UNCHANGED <<listing, stored, first, backoff>>

RunSucceeded ==
  /\ status' = "ok" /\ answer' = {}
  /\ pc' = "loop" /\ fails' = 0
  /\ backoff' = IF first THEN backoff ELSE 1
  /\ UNCHANGED <<listing, stored, first>>

\* Mutant: the tag is read before the status code is looked at.
RequestFailsKeepsTag ==
  /\ pc = "request" /\ MayFail("Request")
  /\ RunFailed
  /\ etag' = {listing}
  /\ UNCHANGED <<seen, lost>>

\* fetch: no connection, no answer within 30 seconds, or neither 200 nor 304.
RequestFails ==
  /\ pc = "request" /\ MayFail("Request")
  /\ RunFailed
  /\ UNCHANGED <<etag, seen, lost>>

\* A server that knows the tag answers 304: no routes, no error.
NotModified ==
  /\ pc = "request" /\ etag = {listing}
  /\ seen' = listing
  /\ RunSucceeded
  /\ UNCHANGED <<etag, lost>>

\* The tag of a 200 is kept before its body is read. A server may send the body
\* even where it knows the tag: the names in a listing may have changed.
OK(tagged) ==
  /\ pc = "request"
  /\ answer' = listing /\ seen' = listing
  /\ etag' = IF tagged THEN {listing} ELSE etag
  /\ pc' = "body"
  /\ UNCHANGED <<listing, stored, first, backoff, status, lost, fails>>

\* The connection breaks, the 4 MB cap cuts the JSON, or it does not parse.
BodyFails ==
  /\ pc = "body" /\ MayFail("Body")
  /\ lost' = lost \cup (answer \ stored)
  /\ RunFailed
  /\ UNCHANGED <<etag, seen>>

\* A body without a character in it is a success with no routes.
EmptyBody ==
  /\ pc = "body" /\ MayFail("Body")
  /\ lost' = lost \cup (answer \ stored)
  /\ RunSucceeded
  /\ UNCHANGED <<etag, seen>>

\* parseRoutes skips the entries without a departure.
ParseRoutes ==
  /\ pc = "body"
  /\ pc' = "store"
  /\ UNCHANGED <<listing, stored, etag, answer, first, backoff, status, seen, lost, fails>>

\* runOnce skips a route whose upsert fails.
UpsertRoute(r) ==
  /\ pc = "store" /\ r \in answer
  /\ answer' = answer \ {r}
  /\ \/ stored' = stored \cup {r} /\ lost' = lost \ {r}
     \/ MayFail("UpsertRoute") /\ lost' = lost \cup ({r} \ stored) /\ UNCHANGED stored
  /\ UNCHANGED <<listing, etag, pc, first, backoff, status, seen, fails>>

\* Mutant: the loop over the answer stops one route early.
StoreDoneEarly ==
  /\ pc = "store" /\ Cardinality(answer) <= 1
  /\ RunSucceeded
  /\ UNCHANGED <<etag, seen, lost>>

StoreDone ==
  /\ pc = "store" /\ answer = {}
  /\ RunSucceeded
  /\ UNCHANGED <<etag, seen, lost>>

-----------------------------------------------------------------------------
\* Mutant: the doubled backoff is not capped.
BackoffOverUncapped ==
  /\ pc = "backoff"
  /\ backoff' = 2 * backoff
  /\ pc' = "loop"
  /\ UNCHANGED <<listing, stored, etag, answer, first, status, seen, lost, fails>>

BackoffOver ==
  /\ pc = "backoff"
  /\ backoff' = IF 2 * backoff > MaxBackoff THEN MaxBackoff ELSE 2 * backoff
  /\ pc' = "loop"
  /\ UNCHANGED <<listing, stored, etag, answer, first, status, seen, lost, fails>>

\* rand.Int64N panics unless its argument is positive; nothing recovers.
DrawJitter ==
  /\ pc = "loop"
  /\ pc' = IF Jitter * 2 > 0 THEN "wait" ELSE "down"
  /\ UNCHANGED <<listing, stored, etag, answer, first, backoff, status, seen, lost, fails>>

IntervalOver ==
  /\ pc = "wait"
  /\ pc' = "request"
  /\ first' = FALSE
  /\ UNCHANGED <<listing, stored, etag, answer, backoff, status, seen, lost, fails>>

\* The process dies and is started again: the table is all that is left.
Crash ==
  /\ MayFail("Crash")
  /\ pc' = Started.pc /\ first' = Started.first /\ etag' = Started.etag
  /\ backoff' = Started.backoff /\ status' = Started.status
  /\ answer' = {} /\ fails' = 0
  /\ UNCHANGED <<listing, stored, seen, lost>>

\* The listing changes at the other end.
Relist ==
  /\ listing' \in SUBSET Routes
  /\ UNCHANGED <<stored, etag, answer, pc, first, backoff, status, seen, lost, fails>>

-----------------------------------------------------------------------------
Answered == NotModified \/ \E tagged \in TagHeader : OK(tagged)
Working  == \/ ParseRoutes \/ StoreDone \/ BackoffOver \/ DrawJitter \/ IntervalOver
            \/ \E r \in Routes : UpsertRoute(r)

Next == Answered \/ Working \/ RequestFails \/ BodyFails \/ EmptyBody \/ Crash \/ Relist

Spec == Init /\ [][Next]_vars

\* The loop is scheduled, the process is not killed for ever; the API does not
\* fail to answer for ever, and not every body it sends is broken.
Fairness ==
  /\ WF_vars(Working)
  /\ SF_vars(Answered)
  /\ SF_vars(ParseRoutes)
  /\ <>[][~Crash]_vars

FairSpec == Spec /\ Fairness

-----------------------------------------------------------------------------
\* Tables, tag and loop variables keep their shape.
TypeOK ==
  /\ listing \in SUBSET Routes /\ stored \in SUBSET Routes
  /\ answer \in SUBSET Routes /\ seen \in SUBSET Routes /\ lost \in SUBSET Routes
  /\ etag \in {{}} \cup {{L} : L \in SUBSET Routes}
  /\ pc \in {"request", "body", "store", "backoff", "loop", "wait", "down"}
  /\ first \in BOOLEAN
  /\ backoff \in 1 .. MaxBackoff
  /\ status \in {"none", "ok", "error"}
  /\ fails \in 0 .. MaxFails

\* A 304 loses nothing: between runs, the listing whose tag is sent to the
\* server has been stored, so "unchanged" means there is nothing to store but
\* what a broken or empty body or a failed upsert lost.
BetweenRuns == pc \in {"loop", "wait", "backoff", "request"}
CachedTagMeansStored == BetweenRuns => \A L \in etag : L \subseteq stored \cup lost

\* The home page's "Last fetch" without an error stands for a listing that is
\* in the table, but for what was lost, also after 304 answers and restarts.
StatusHonest == BetweenRuns /\ status = "ok" => seen \subseteq stored \cup lost

\* After k failed runs in a row the backoff is 2^k, up to maxBackoff: one good
\* run forgets them all, and the failure of the first run does not count.
Doubled[k \in Nat] == IF k = 0 THEN 1 ELSE 2 * Doubled[k - 1]
Capped(n) == IF n > MaxBackoff THEN MaxBackoff ELSE n
BackoffDoubles ==
  LET k == IF pc = "backoff" THEN fails - 1 ELSE fails IN
  fails < MaxFails => backoff = Capped(Doubled[k])

\* A route that stays listed gets into the table, however often requests fail
\* and the listing around it changes, unless its body or its upsert failed.
ListedIsStored ==
  \A r \in Routes : r \in listing ~> (r \in stored \cup lost \/ r \notin listing)

-----------------------------------------------------------------------------
(* What the documents say and the code does not do                         *)

\* home.html:52 "When a matching route appears, you receive a push
\* notification": a route that stays listed gets into the table.
NoListingLost == \A r \in Routes : r \in listing ~> (r \in stored \/ r \notin listing)
=============================================================================
