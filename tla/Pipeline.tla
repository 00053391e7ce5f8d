------------------------------ MODULE Pipeline ------------------------------
(***************************************************************************)
(* From what the Hertz API lists to the alert: the polling loop (Poller)   *)
(* around the alert pipeline (WatchAlerts), while users create, edit and   *)
(* delete watches. They share the table routes and the poller goroutine:   *)
(* runOnce stores what fetch returned, calls notifyBatched, and returns to *)
(* Start only when that is done. Where Poller's loop goes "down", requests *)
(* go on here: more than the code does, whose panic ends the process.      *)
(***************************************************************************)
EXTENDS WatchAlerts

CONSTANTS
  MaxBackoff, Jitter, TagHeader, MaxFails,  \* as in Poller
  APIFaults                                 \* "Request", "Body"

ASSUME PipelineAssumption ==
  /\ MaxBackoff \in Nat \ {0}
  /\ Jitter \in Nat
  /\ MaxFails \in Nat
  /\ TagHeader \subseteq BOOLEAN
  /\ APIFaults \subseteq {"Request", "Body"}
  /\ \A r \in Routes : \E o \in Offers : o.id = r

VARIABLES
  listing, etag, answer, first, backoff, status, seen, lost, fails,  \* as in Poller
  at,          \* its pc
  interrupted  \* history: pairs <<user, route>> a process had in hand when it died

loop == <<listing, etag, answer, at, first, backoff, status, seen, lost, fails>>

Loop == INSTANCE Poller WITH
          Faults <- APIFaults \cup (Faults \cap {"UpsertRoute", "Crash"}),
          stored <- StoredRoutes,
          pc     <- at

PipelineInit == Init /\ Loop!Init /\ interrupted = {}
all == <<vars, loop, interrupted>>

-----------------------------------------------------------------------------
\* What the loop does by itself: a request, the bodies that bring nothing, the
\* errors of fetch, and Start's waits.
Request == UNCHANGED vars /\ Loop!Answered /\ UNCHANGED interrupted
Fail    == /\ UNCHANGED vars
           /\ Loop!RequestFails \/ Loop!BodyFails \/ Loop!EmptyBody
           /\ UNCHANGED interrupted
Wait    == /\ UNCHANGED vars
           /\ Loop!BackoffOver \/ Loop!DrawJitter \/ Loop!IntervalOver
           /\ UNCHANGED interrupted

\* The entries of the body, under whatever names the API lists them now.
Parse ==
  /\ \/ answer = {} /\ UNCHANGED vars
     \/ RunOnce /\ {o.id : o \in batch'} = answer
  /\ Loop!ParseRoutes
  /\ UNCHANGED interrupted

Store ==
  /\ \E o \in Offers : UpsertRoute(o) /\ Loop!UpsertRoute(o.id)
  /\ UNCHANGED interrupted

\* Mutant: notifyBatched runs in a goroutine of its own.
ReturnEarly ==
  /\ UNCHANGED vars
  /\ Loop!StoreDone
  /\ UNCHANGED interrupted

\* runOnce stores the status and returns.
Return ==
  /\ pc[Fetcher] = "idle"
  /\ UNCHANGED vars
  /\ Loop!StoreDone
  /\ UNCHANGED interrupted

\* The rest of the poller's run, after its last upsert.
Notify ==
  /\ UpsertsDone \/ GetAllActiveWatches \/ DeactivateWatch \/ Alerting(Fetcher)
  /\ UNCHANGED <<loop, interrupted>>

Serve(q) == (Handling(q) \/ Alerting(q)) /\ UNCHANGED <<loop, interrupted>>

\* Users, the API and the operator.
Browse ==
  /\ \/ \E q \in Requests, i \in WatchIds, c \in Criteria, once \in BOOLEAN :
          CreateWatch(q, i, c, once) \/ ReadForEdit(q, i, c, once)
     \/ \E i \in WatchIds : DeleteWatch(i)
     \/ \E p \in Workers : Hang(p)
  /\ UNCHANGED <<loop, interrupted>>

Relist == UNCHANGED vars /\ Loop!Relist /\ UNCHANGED interrupted

\* A goroutine has what it still has to look at, and what it is about to alert.
Holding(i, r) ==
  \/ watches[i] # None /\ InHand(i, r)
  \/ \E p \in Workers, s \in Snapshots : s.id = i /\ <<s, r>> \in hits[p]

Restart ==
  /\ Crash
  /\ Loop!Crash
  /\ interrupted' = interrupted \cup
       {m \in Users \X Routes : \E i \in WatchIds : Owner[i] = m[1] /\ Holding(i, m[2])}

PipelineNext ==
  \/ Request \/ Fail \/ Wait \/ Parse \/ Store \/ Notify \/ Return
  \/ \E q \in Requests : Serve(q)
  \/ Browse \/ Relist \/ Restart

PipelineSpec == PipelineInit /\ [][PipelineNext]_all

\* As in Poller and WatchAlerts: goroutines are scheduled, statements return,
\* the API answers at some point, with a body that can be read, and the process
\* is not killed for ever.
PipelineFairness ==
  /\ WF_all(Parse \/ Store \/ Notify \/ Return) /\ WF_all(Wait)
  /\ SF_all(Request) /\ SF_all(Parse)
  /\ \A q \in Requests : WF_all(Serve(q))
  /\ <>[][~Restart]_all

FairPipeline == PipelineSpec /\ PipelineFairness

-----------------------------------------------------------------------------
\* The tables and locals of both, and the one goroutine that is in both.
PipelineTypeOK ==
  /\ TypeOK /\ Loop!TypeOK
  /\ at = "store" => answer = {o.id : o \in batch}
  /\ at # "store" => pc[Fetcher] = "idle"

Announced(i, r) == \E a \in log : Owner[a.id] = Owner[i] /\ r \in a.routes

\* While the home page shows a fetch without an error and no scan is under way,
\* every route of the listing it speaks of has been announced to the owner of
\* every active watch it matches, but for what a broken or empty body or a
\* failed upsert lost, and what a process that was killed had in hand: over 304
\* answers, edits, relistings, pushes that hang and restarts.
ListedIsAnnounced ==
  /\ Loop!BetweenRuns /\ status = "ok"
  /\ \A q \in Requests : pc[q] \in {"idle", "edit"}
  => \A i \in WatchIds, r \in seen \ lost :
       watches[i] # None /\ watches[i].active /\ Match(r, watches[i].crit) =>
         Announced(i, r) \/ <<Owner[i], r>> \in interrupted

\* A route that stays listed is announced to the owner of every watch it
\* matches, unless its body or its upsert failed, the watch is not active, or a
\* process that was killed had it in hand.
Awaited(i, r) ==
  /\ r \in listing \ lost
  /\ watches[i] # None /\ watches[i].active
  /\ \E o \in Offers : o.id = r /\ <<o.name, watches[i].crit>> \in Matches
  /\ ~Announced(i, r) /\ <<Owner[i], r>> \notin interrupted
ListedIsAlerted == \A i \in WatchIds, r \in Routes : Awaited(i, r) ~> ~Awaited(i, r)
=============================================================================
