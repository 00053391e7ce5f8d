----------------------------- MODULE WatchAlerts -----------------------------
(***************************************************************************)
(* The alert pipeline of freeride-watcher: the poller goroutine (runOnce   *)
(* and notifyBatched), the request goroutines that create or edit a watch  *)
(* and then scan the cached routes for it                                  *)
(* (ScanWatchAgainstExistingRoutes), and the SQLite tables they share.     *)
(*                                                                         *)
(* Each db method is one statement on the pool's single connection, hence  *)
(* one atomic step (UpsertRoute, called by the poller only, is two); the   *)
(* goroutines interleave between statements.                               *)
(* sendWatchNotification is the one step Send: module Delivery opens it.   *)
(***************************************************************************)
EXTENDS Naturals, FiniteSets

CONSTANTS
  Users,      \* accounts
  WatchIds,   \* watch ids, AUTOINCREMENT: issued once, never reused
  Owner,      \* Owner[i] is the user_id of watch i, fixed by CreateWatch
  Routes,     \* route ids
  Names,      \* what the matcher reads of a route (origin, destination, ...)
  Criteria,   \* what the matcher reads of a watch
  Matches,    \* matcher.Match, as the set of accepted <<name, criteria>>
  Offers,     \* the [id, name] entries the Hertz API may list
  Departs,    \* departure_at of each route, the sort key of GetAllRoutes
  ScanLimit,  \* the LIMIT of GetAllRoutes (500)
  Requests,   \* concurrent web requests, each with the scan it spawns
  Ops,        \* what users do: a subset of {"create", "edit", "delete"}
  Faults,     \* db methods that may fail, "Send" (may hang) and "Crash"
  Fetcher,    \* the poller goroutine
  None

Workers   == Requests \cup {Fetcher}
Snapshots == [id : WatchIds, oneTime : BOOLEAN]
WatchRows == [crit : Criteria, oneTime : BOOLEAN, active : BOOLEAN]
Forms     == [id : WatchIds, crit : Criteria, oneTime : BOOLEAN, active : BOOLEAN]
Alerts    == [by : Workers, id : WatchIds, oneTime : BOOLEAN, routes : SUBSET Routes]

AllFaults == {"Crash", "UpsertRoute", "GetAllActiveWatches", "GetAllRoutes",
              "HasBeenNotified", "MarkNotified", "DeactivateWatch", "UpdateWatch",
              "Send"}

ASSUME ConstantsAssumption ==
  /\ Owner \in [WatchIds -> Users]
  /\ Matches \subseteq Names \X Criteria
  /\ Offers \subseteq [id : Routes, name : Names]
  /\ IsFiniteSet(Routes)
  /\ Departs \in [Routes -> Nat]
  /\ ScanLimit \in Nat
  /\ Ops \subseteq {"create", "edit", "delete"}
  /\ Faults \subseteq AllFaults
  /\ Fetcher \notin Requests
  /\ None \notin Names \cup Snapshots \cup WatchRows \cup Forms

VARIABLES
  routes,    \* table routes: the stored name of each route, or None
  watches,   \* table watches: the row of each watch id, or None
  issued,    \* ids CreateWatch has used
  notified,  \* table notified: pairs <<user, route>>
  pc,        \* where each goroutine is
  batch,     \* poller: fetched routes still to upsert
  fresh,     \* poller: newRoutes
  form,      \* request: the watch it writes and then scans for, or None
  todo,      \* pairs <<snapshot, route>> that match, to be checked
  hits,      \* pairs found not yet notified, to be alerted
  cur,       \* snapshot whose hits are being marked, or None
  toMark,    \* its routes still to be marked
  log        \* history: the alerts handed to sendWatchNotification

db     == <<routes, watches, issued, notified>>
locals == <<pc, batch, fresh, form, todo, hits, cur, toMark>>
vars   == <<routes, watches, issued, notified, pc, batch, fresh, form, todo,
            hits, cur, toMark, log>>

MayFail(method) == method \in Faults
StoredRoutes    == {r \in Routes : routes[r] # None}
Match(r, crit)  == <<routes[r], crit>> \in Matches
HitRoutes(p, s) == {r \in Routes : <<s, r>> \in hits[p]}

\* The result sets GetAllRoutes may return: the ScanLimit latest departures.
LatestSets ==
  {T \in SUBSET StoredRoutes :
     /\ \/ Cardinality(T) = ScanLimit
        \/ Cardinality(T) <= ScanLimit /\ T = StoredRoutes
     /\ \A t \in T, s \in StoredRoutes \ T : Departs[t] >= Departs[s]}

-----------------------------------------------------------------------------
\* A process that starts: tables as the last one left them, no goroutine busy.
NoWork ==
  [ pc     |-> [p \in Workers |-> "idle"],
    form   |-> [q \in Requests |-> None],
    pairs  |-> [p \in Workers |-> {}],
    cur    |-> [p \in Workers |-> None] ]

Init ==
  /\ routes = [r \in Routes |-> None]
  /\ watches = [i \in WatchIds |-> None]
  /\ issued = {} /\ notified = {} /\ log = {}
  /\ pc = NoWork.pc /\ form = NoWork.form /\ cur = NoWork.cur
  /\ batch = {} /\ fresh = {}
  /\ todo = NoWork.pairs /\ hits = NoWork.pairs /\ toMark = NoWork.pairs

-----------------------------------------------------------------------------
(* The poller: runOnce and the first half of notifyBatched.                *)

\* runOnce after a 200 answer, which lists a route once. An error, and a 304,
\* which parses to no route, change nothing that is modelled here.
RunOnce ==
  /\ pc[Fetcher] = "idle"
  /\ \E B \in SUBSET Offers \ {{}} :
       /\ \A o, other \in B : o.id = other.id => o = other
       /\ batch' = B
  /\ fresh' = {}
  /\ pc' = [pc EXCEPT ![Fetcher] = "upsert"]
  /\ UNCHANGED <<db, form, todo, hits, cur, toMark, log>>

\* Mutant: a replace, which reports every row as new.
UpsertRouteAlwaysNew(o) ==
  /\ pc[Fetcher] = "upsert" /\ o \in batch
  /\ batch' = batch \ {o}
  /\ routes' = [routes EXCEPT ![o.id] = o.name]
  /\ fresh' = fresh \cup {o}
  /\ UNCHANGED <<watches, issued, notified, pc, form, todo, hits, cur, toMark, log>>

\* The loop of runOnce on one fetched route: INSERT OR IGNORE reports a new
\* route, an existing one has its names updated; an error skips the route.
UpsertRoute(o) ==
  /\ pc[Fetcher] = "upsert" /\ o \in batch
  /\ batch' = batch \ {o}
  /\ \/ /\ routes' = [routes EXCEPT ![o.id] = o.name]
        /\ fresh' = IF routes[o.id] = None THEN fresh \cup {o} ELSE fresh
     \/ MayFail("UpsertRoute") /\ UNCHANGED <<routes, fresh>>
  /\ UNCHANGED <<watches, issued, notified, pc, form, todo, hits, cur, toMark, log>>

\* Mutant: a single new route is not worth a notification.
UpsertsDoneOffByOne ==
  /\ pc[Fetcher] = "upsert" /\ batch = {}
  /\ pc' = [pc EXCEPT ![Fetcher] = IF Cardinality(fresh) <= 1 THEN "idle" ELSE "load"]
  /\ UNCHANGED <<db, batch, fresh, form, todo, hits, cur, toMark, log>>

UpsertsDone ==
  /\ pc[Fetcher] = "upsert" /\ batch = {}
  /\ pc' = [pc EXCEPT ![Fetcher] = IF fresh = {} THEN "idle" ELSE "load"]
  /\ UNCHANGED <<db, batch, fresh, form, todo, hits, cur, toMark, log>>

ActiveSnapshots ==
  {s \in Snapshots : /\ watches[s.id] # None
                     /\ watches[s.id].active
                     /\ watches[s.id].oneTime = s.oneTime}

\* notifyBatched reads the active watches once and pairs them with newRoutes.
GetAllActiveWatches ==
  /\ pc[Fetcher] = "load"
  /\ \/ /\ todo' = [todo EXCEPT ![Fetcher] =
             {h \in ActiveSnapshots \X Routes :
                \E o \in fresh : /\ o.id = h[2]
                                 /\ <<o.name, watches[h[1].id].crit>> \in Matches}]
        /\ pc' = [pc EXCEPT ![Fetcher] = "check"]
     \/ /\ MayFail("GetAllActiveWatches")
        /\ pc' = [pc EXCEPT ![Fetcher] = "idle"]
        /\ UNCHANGED todo
  /\ fresh' = {}
  /\ UNCHANGED <<db, batch, form, hits, cur, toMark, log>>

-----------------------------------------------------------------------------
(* Requests: the watch handlers.                                           *)

\* handleWatchNewSubmit up to CreateWatch; the scan it spawns holds the row.
CreateWatch(q, i, c, once) ==
  /\ pc[q] = "idle" /\ i \notin issued /\ "create" \in Ops
  /\ issued' = issued \cup {i}
  /\ watches' = [watches EXCEPT ![i] = [crit |-> c, oneTime |-> once, active |-> TRUE]]
  /\ form' = [form EXCEPT ![q] = [id |-> i, crit |-> c, oneTime |-> once, active |-> TRUE]]
  /\ pc' = [pc EXCEPT ![q] = "scan"]
  /\ UNCHANGED <<routes, notified, batch, fresh, todo, hits, cur, toMark, log>>

\* handleWatchEditSubmit reads the row and takes Active from it, everything
\* else from the submitted form.
ReadForEdit(q, i, c, once) ==
  /\ pc[q] = "idle" /\ watches[i] # None /\ "edit" \in Ops
  /\ form' = [form EXCEPT ![q] = [id |-> i, crit |-> c, oneTime |-> once,
                                  active |-> watches[i].active]]
  /\ pc' = [pc EXCEPT ![q] = "edit"]
  /\ UNCHANGED <<db, batch, fresh, todo, hits, cur, toMark, log>>

\* Mutant: the edit does not rescan.
UpdateWatchNoScan(q) ==
  /\ pc[q] = "edit"
  /\ watches' = [watches EXCEPT ![form[q].id] =
         IF @ = None THEN None
         ELSE [crit |-> form[q].crit, oneTime |-> form[q].oneTime, active |-> form[q].active]]
  /\ pc' = [pc EXCEPT ![q] = "idle"]
  /\ form' = [form EXCEPT ![q] = None]
  /\ UNCHANGED <<routes, issued, notified, batch, fresh, todo, hits, cur, toMark, log>>

\* UpdateWatch writes the whole row, no row if the watch is gone by now;
\* the scan is spawned either way, but not after an error.
UpdateWatch(q) ==
  /\ pc[q] = "edit"
  /\ \/ /\ watches' = [watches EXCEPT ![form[q].id] =
             IF @ = None THEN None
             ELSE [crit |-> form[q].crit, oneTime |-> form[q].oneTime,
                   active |-> form[q].active]]
        /\ pc' = [pc EXCEPT ![q] = "scan"]
        /\ UNCHANGED form
     \/ /\ MayFail("UpdateWatch")
        /\ pc' = [pc EXCEPT ![q] = "idle"]
        /\ form' = [form EXCEPT ![q] = None]
        /\ UNCHANGED watches
  /\ UNCHANGED <<routes, issued, notified, batch, fresh, todo, hits, cur, toMark, log>>

\* handleWatchDelete and handleAdminDeleteWatch.
DeleteWatch(i) ==
  /\ watches[i] # None /\ "delete" \in Ops
  /\ watches' = [watches EXCEPT ![i] = None]
  /\ UNCHANGED <<routes, issued, notified, locals, log>>

\* ScanWatchAgainstExistingRoutes matches the cached routes against the watch
\* it was handed, active or not.
ScanWatch(q) ==
  /\ pc[q] = "scan"
  /\ \/ /\ \E T \in LatestSets :
             todo' = [todo EXCEPT ![q] =
               {[id |-> form[q].id, oneTime |-> form[q].oneTime]}
                 \X {r \in T : Match(r, form[q].crit)}]
        /\ pc' = [pc EXCEPT ![q] = "check"]
     \/ /\ MayFail("GetAllRoutes")
        /\ pc' = [pc EXCEPT ![q] = "idle"]
        /\ UNCHANGED todo
  /\ form' = [form EXCEPT ![q] = None]
  /\ UNCHANGED <<db, batch, fresh, hits, cur, toMark, log>>

-----------------------------------------------------------------------------
(* Both goroutines: check, mark, send, and (poller only) deactivate.       *)

\* Mutant: the dedup table is not consulted.
HasBeenNotifiedUnchecked(p, s, r) ==
  /\ pc[p] = "check" /\ <<s, r>> \in todo[p]
  /\ todo' = [todo EXCEPT ![p] = @ \ {<<s, r>>}]
  /\ hits' = [hits EXCEPT ![p] = @ \cup {<<s, r>>}]
  /\ UNCHANGED <<db, pc, batch, fresh, form, cur, toMark, log>>

\* Mutant: a route already notified is looked up again and again.
HasBeenNotifiedRetries(p, s, r) ==
  /\ pc[p] = "check" /\ <<s, r>> \in todo[p]
  /\ IF <<Owner[s.id], r>> \in notified
       THEN UNCHANGED <<todo, hits>>
       ELSE /\ todo' = [todo EXCEPT ![p] = @ \ {<<s, r>>}]
            /\ hits' = [hits EXCEPT ![p] = @ \cup {<<s, r>>}]
  /\ UNCHANGED <<db, pc, batch, fresh, form, cur, toMark, log>>

HasBeenNotified(p, s, r) ==
  /\ pc[p] = "check" /\ <<s, r>> \in todo[p]
  /\ todo' = [todo EXCEPT ![p] = @ \ {<<s, r>>}]
  /\ \/ /\ <<Owner[s.id], r>> \notin notified
        /\ hits' = [hits EXCEPT ![p] = @ \cup {<<s, r>>}]
     \/ /\ <<Owner[s.id], r>> \in notified \/ MayFail("HasBeenNotified")
        /\ UNCHANGED hits
  /\ UNCHANGED <<db, pc, batch, fresh, form, cur, toMark, log>>

\* The loop over hits: the next watch, or the end of the goroutine's work.
NextHit(p) ==
  /\ pc[p] = "check" /\ todo[p] = {}
  /\ \/ \E s \in Snapshots :
          /\ HitRoutes(p, s) # {}
          /\ cur' = [cur EXCEPT ![p] = s]
          /\ toMark' = [toMark EXCEPT ![p] = HitRoutes(p, s)]
          /\ pc' = [pc EXCEPT ![p] = "mark"]
     \/ /\ hits[p] = {}
        /\ pc' = [pc EXCEPT ![p] = "idle"]
        /\ UNCHANGED <<cur, toMark>>
  /\ UNCHANGED <<db, batch, fresh, form, todo, hits, log>>

\* Mutant: the watch id is passed for the user id.
MarkNotifiedByWatch(p, r) ==
  /\ pc[p] = "mark" /\ r \in toMark[p]
  /\ toMark' = [toMark EXCEPT ![p] = @ \ {r}]
  /\ notified' = notified \cup {<<cur[p].id, r>>}
  /\ UNCHANGED <<routes, watches, issued, pc, batch, fresh, form, todo, hits, cur, log>>

\* An error of MarkNotified is logged and the alert goes out all the same.
MarkNotified(p, r) ==
  /\ pc[p] = "mark" /\ r \in toMark[p]
  /\ toMark' = [toMark EXCEPT ![p] = @ \ {r}]
  /\ \/ notified' = notified \cup {<<Owner[cur[p].id], r>>}
     \/ MayFail("MarkNotified") /\ UNCHANGED notified
  /\ UNCHANGED <<routes, watches, issued, pc, batch, fresh, form, todo, hits, cur, log>>

\* Mutant: the alert goes out while routes are still to be marked.
SendBeforeMarking(p) ==
  /\ pc[p] = "mark"
  /\ log' = log \cup {[by |-> p, id |-> cur[p].id, oneTime |-> cur[p].oneTime,
                       routes |-> HitRoutes(p, cur[p])]}
  /\ UNCHANGED <<db, pc, batch, fresh, form, todo, hits, cur, toMark>>

\* Mutant: the poller returns after the alert, as the scan does.
SendNoDeactivate(p) ==
  /\ pc[p] = "mark" /\ toMark[p] = {}
  /\ log' = log \cup {[by |-> p, id |-> cur[p].id, oneTime |-> cur[p].oneTime,
                       routes |-> HitRoutes(p, cur[p])]}
  /\ hits' = [hits EXCEPT ![p] = {h \in @ : h[1] # cur[p]}]
  /\ pc' = [pc EXCEPT ![p] = "check"]
  /\ cur' = [cur EXCEPT ![p] = None]
  /\ UNCHANGED <<db, batch, fresh, form, todo, toMark>>

\* Mutant: the alert is about the first of the hits.
SendFirst(p) ==
  /\ pc[p] = "mark" /\ toMark[p] = {}
  /\ log' = log \cup {[by |-> p, id |-> cur[p].id, oneTime |-> cur[p].oneTime,
                       routes |-> {CHOOSE r \in HitRoutes(p, cur[p]) : TRUE}]}
  /\ hits' = [hits EXCEPT ![p] = {h \in @ : h[1] # cur[p]}]
  /\ IF p = Fetcher /\ cur[p].oneTime
       THEN /\ pc' = [pc EXCEPT ![p] = "deactivate"]
            /\ UNCHANGED cur
       ELSE /\ pc' = [pc EXCEPT ![p] = "check"]
            /\ cur' = [cur EXCEPT ![p] = None]
  /\ UNCHANGED <<db, batch, fresh, form, todo, toMark>>

\* sendWatchNotification: one alert for all the hits of the watch. Only the
\* poller goes on to deactivate a one-time watch; the scan just returns.
Send(p) ==
  /\ pc[p] = "mark" /\ toMark[p] = {}
  /\ log' = log \cup {[by |-> p, id |-> cur[p].id, oneTime |-> cur[p].oneTime,
                       routes |-> HitRoutes(p, cur[p])]}
  /\ hits' = [hits EXCEPT ![p] = {h \in @ : h[1] # cur[p]}]
  /\ IF p = Fetcher /\ cur[p].oneTime
       THEN /\ pc' = [pc EXCEPT ![p] = "deactivate"]
            /\ UNCHANGED cur
       ELSE /\ pc' = [pc EXCEPT ![p] = "check"]
            /\ cur' = [cur EXCEPT ![p] = None]
  /\ UNCHANGED <<db, batch, fresh, form, todo, toMark>>

\* Pusher.Send gives webpush no HTTP client and no context: a push server that
\* accepts the connection and never answers holds the goroutine for ever.
Hang(p) ==
  /\ pc[p] = "mark" /\ toMark[p] = {} /\ MayFail("Send")
  /\ pc' = [pc EXCEPT ![p] = "hung"]
  /\ UNCHANGED <<db, batch, fresh, form, todo, hits, cur, toMark, log>>

DeactivateWatch ==
  /\ pc[Fetcher] = "deactivate"
  /\ \/ watches' = [watches EXCEPT ![cur[Fetcher].id] =
                      IF @ = None THEN None ELSE [@ EXCEPT !.active = FALSE]]
     \/ MayFail("DeactivateWatch") /\ UNCHANGED watches
  /\ cur' = [cur EXCEPT ![Fetcher] = None]
  /\ pc' = [pc EXCEPT ![Fetcher] = "check"]
  /\ UNCHANGED <<routes, issued, notified, batch, fresh, form, todo, hits, toMark, log>>

\* The process ends and is started again. A SIGTERM is no gentler than a kill:
\* run() returns when the HTTP server is down and waits for no goroutine.
Crash ==
  /\ MayFail("Crash")
  /\ pc' = NoWork.pc /\ form' = NoWork.form /\ cur' = NoWork.cur
  /\ batch' = {} /\ fresh' = {}
  /\ todo' = NoWork.pairs /\ hits' = NoWork.pairs /\ toMark' = NoWork.pairs
  /\ UNCHANGED <<db, log>>

-----------------------------------------------------------------------------
Alerting(p) ==
  \/ \E s \in Snapshots, r \in Routes : HasBeenNotified(p, s, r)
  \/ NextHit(p)
  \/ \E r \in Routes : MarkNotified(p, r)
  \/ Send(p)

Polling  == (\E o \in Offers : UpsertRoute(o)) \/ UpsertsDone \/ GetAllActiveWatches
              \/ DeactivateWatch
Handling(q) == UpdateWatch(q) \/ ScanWatch(q)

\* What users and the clock do, and pushes that hang: nothing obliges them to.
Environment ==
  \/ RunOnce
  \/ \E q \in Requests, i \in WatchIds, c \in Criteria, once \in BOOLEAN :
        CreateWatch(q, i, c, once) \/ ReadForEdit(q, i, c, once)
  \/ \E i \in WatchIds : DeleteWatch(i)
  \/ \E p \in Workers : Hang(p)

\* What happens while the process lives.
Living ==
  \/ Environment
  \/ Polling
  \/ \E q \in Requests : Handling(q)
  \/ \E p \in Workers : Alerting(p)

Next == Living \/ Crash

Spec == Init /\ [][Next]_vars

\* One life of the process (module Pipeline has its restarts).
LifeSpec == Init /\ [][Living]_vars

\* A goroutine that can run is scheduled eventually, and every statement returns.
Fairness ==
  /\ WF_vars(Polling \/ Alerting(Fetcher))
  /\ \A q \in Requests : WF_vars(Handling(q) \/ Alerting(q))

FairSpec == LifeSpec /\ Fairness

-----------------------------------------------------------------------------
(* Properties                                                              *)

\* Every table and every goroutine's locals keep their shape.
TypeOK ==
  /\ routes \in [Routes -> Names \cup {None}]
  /\ watches \in [WatchIds -> WatchRows \cup {None}]
  /\ issued \subseteq WatchIds
  /\ notified \subseteq Users \X Routes
  /\ pc \in [Workers -> {"idle", "upsert", "load", "edit", "scan", "check",
                         "mark", "hung", "deactivate"}]
  /\ batch \subseteq Offers
  /\ fresh \subseteq Offers
  /\ form \in [Requests -> Forms \cup {None}]
  /\ todo \in [Workers -> SUBSET (Snapshots \X Routes)]
  /\ hits \in [Workers -> SUBSET (Snapshots \X Routes)]
  /\ cur \in [Workers -> Snapshots \cup {None}]
  /\ toMark \in [Workers -> SUBSET Routes]
  /\ log \subseteq Alerts

\* What was alerted is in the dedup table before the alert leaves, so that a
\* crash at any point can lose an alert but never repeat one
\* (MarkNotified comes before sendWatchNotification in both callers).
MarkedBeforeSent ==
  \A a \in log : \A r \in a.routes : <<Owner[a.id], r>> \in notified

\* Once a route is marked for a user and no goroutine still holds a hit on it,
\* no goroutine ever will again, whatever crashes, edits or scans follow: the
\* dedup of HasBeenNotified leaks only to work that was already in flight.
InFlight(u, r) ==
  \E p \in Workers, s \in Snapshots : Owner[s.id] = u /\ <<s, r>> \in hits[p]
Settled(u, r) == <<u, r>> \in notified /\ ~InFlight(u, r)
SettledStaysSettled ==
  [][\A u \in Users, r \in Routes : Settled(u, r) => Settled(u, r)']_vars

\* The poller never takes up a route for a watch it already alerted about it,
\* even when marking failed or the process was restarted in between: isNew of
\* UpsertRoute is true once per route.
FetchNeverRepeats ==
  \A s \in Snapshots, r \in Routes :
    <<s, r>> \in todo[Fetcher] \cup hits[Fetcher] =>
      \A a \in log : a.by = Fetcher /\ a.id = s.id => r \notin a.routes

\* When nothing is running, every cached route that matches an active watch
\* has been announced to its owner: routes stored before the watch was created
\* or edited are found by the scan, later ones by the poller, and none falls
\* between the scan's read of routes and the poller's read of watches.
Owed(i, r) ==
  /\ watches[i] # None
  /\ watches[i].active
  /\ r \in StoredRoutes
  /\ Match(r, watches[i].crit)
  /\ <<Owner[i], r>> \notin notified
Quiescent == \A p \in Workers : pc[p] \in {"idle", "edit"}
NoMissedRoute == Quiescent => ~ \E i \in WatchIds, r \in Routes : Owed(i, r)

\* And what is in the dedup table has been alerted when nothing runs: as long as
\* the process lives, no mark silences an alert that was never sent, whatever
\* fails, hangs or is edited and deleted meanwhile.
MarkedIsSent ==
  Quiescent => \A m \in notified : \E a \in log : Owner[a.id] = m[1] /\ m[2] \in a.routes

\* The same while goroutines run: a route that is owed is in somebody's hands,
\* in newRoutes, in a scan to come for the row as it is, or in a loop over hits.
InNewRoutes(r) == pc[Fetcher] \in {"upsert", "load"} /\ \E o \in fresh : o.id = r
InScan(q, i)   == pc[q] = "scan" /\ form[q].id = i /\ form[q].crit = watches[i].crit
InLoop(p, i, r) ==
  /\ pc[p] \in {"check", "mark", "hung", "deactivate"}
  /\ \E s \in Snapshots :
       /\ s.id = i
       /\ \/ <<s, r>> \in todo[p]
          \/ <<s, r>> \in hits[p] /\ (pc[p] = "mark" /\ cur[p] = s => r \in toMark[p])
InHand(i, r) ==
  \/ InNewRoutes(r)
  \/ \E q \in Requests : InScan(q, i)
  \/ \E p \in Workers : InLoop(p, i, r)
OwedIsInHand == \A i \in WatchIds, r \in Routes : Owed(i, r) => InHand(i, r)

\* And it does not stay there: with fair goroutines what is owed is paid.
OwedIsPaid == \A i \in WatchIds, r \in Routes : Owed(i, r) ~> ~Owed(i, r)

\* The poller comes back from every run unless it hangs in a push, whose request
\* has no timeout: nothing else that notifyBatched finds, several hits, reads that
\* fail or watches that change meanwhile, keeps Start from its next fetch.
PollerReturns == pc[Fetcher] # "idle" ~> pc[Fetcher] \in {"idle", "hung"}

\* The poller alerts a one-time watch in one batch of its life: it is inactive
\* before the watches are read again (nobody edits it, nothing fails).
OneTimePolledOnce ==
  \A a, b \in log :
    /\ a.by = Fetcher /\ b.by = Fetcher
    /\ a.id = b.id /\ a.oneTime /\ b.oneTime
    => a = b

-----------------------------------------------------------------------------
(* Refinement: a claimant is a goroutine with the snapshot of a watch.     *)

Ledger == INSTANCE AlertLedger WITH
            Claimants <- Workers \X Snapshots,
            UserOf    <- [c \in Workers \X Snapshots |-> Owner[c[2].id]],
            record    <- notified,
            claims    <- {k \in (Workers \X Snapshots) \X Routes :
                            <<k[1][2], k[2]>> \in hits[k[1][1]]},
            alerts    <- {<< <<a.by, [id |-> a.id, oneTime |-> a.oneTime]>>, a.routes>> : a \in log}

\* Every step of the goroutines is a step of the ledger or leaves it alone.
KeepsLedger == Ledger!Spec

-----------------------------------------------------------------------------
(* What the documents say and the code does not do                         *)

\* templates/home.html:52 "once per route, no spam".
OncePerRoute ==
  \A a, b \in log : a # b /\ Owner[a.id] = Owner[b.id] => a.routes \cap b.routes = {}

\* templates/watch_new.html:58 "notify once, then deactivate this watch".
OneTimeNotifiesOnce ==
  \A a, b \in log : a.id = b.id /\ a.oneTime /\ b.oneTime => a = b
=============================================================================
