--------------------------- MODULE PipelineProofs ---------------------------
(***************************************************************************)
(* What WatchAlerts guarantees for any number of users, watches, routes    *)
(* and concurrent requests; and that the composition with the polling loop *)
(* keeps what both promise, and takes a listed route all the way.          *)
(***************************************************************************)
EXTENDS Pipeline, FiniteSetTheorems, TLAPS

-----------------------------------------------------------------------------
(* Types                                                                   *)

\* What a goroutine holds follows from where it is.
Control ==
  /\ \A q \in Requests : pc[q] \in {"edit", "scan"} => form[q] # None
  /\ \A q \in Requests : pc[q] \notin {"upsert", "load", "deactivate"}
  /\ \A p \in Workers : pc[p] \in {"mark", "deactivate"} => cur[p] # None

TypeInv == TypeOK /\ Control

\* The initial tables and locals have their types.
LEMMA TypeInit == Init => TypeInv
  BY ConstantsAssumption
  DEF ConstantsAssumption, Init, NoWork, TypeInv, TypeOK, Control, Workers

\* Every step preserves the types, and what each program counter promises.
LEMMA TypeStep == TypeInv /\ [Next]_vars => TypeInv'
<1> SUFFICES ASSUME TypeInv, [Next]_vars PROVE TypeInv'
  OBVIOUS
<1> USE ConstantsAssumption DEF ConstantsAssumption, Workers
<1>1. CASE RunOnce
  BY <1>1 DEF TypeInv, TypeOK, Control, RunOnce, db
<1>2. ASSUME NEW o \in Offers, UpsertRoute(o) PROVE TypeInv'
  BY <1>2 DEF TypeInv, TypeOK, Control, UpsertRoute
<1>3. CASE UpsertsDone
  BY <1>3 DEF TypeInv, TypeOK, Control, UpsertsDone, db
<1>4. CASE GetAllActiveWatches
  BY <1>4 DEF TypeInv, TypeOK, Control, GetAllActiveWatches, db, ActiveSnapshots
<1>5. ASSUME NEW q \in Requests, NEW i \in WatchIds, NEW c \in Criteria,
             NEW once \in BOOLEAN, CreateWatch(q, i, c, once)
      PROVE TypeInv'
  <2>1. /\ [crit |-> c, oneTime |-> once, active |-> TRUE] \in WatchRows
        /\ [id |-> i, crit |-> c, oneTime |-> once, active |-> TRUE] \in Forms
    BY DEF WatchRows, Forms
  <2> QED
    BY <1>5, <2>1 DEF TypeInv, TypeOK, Control, CreateWatch
<1>6. ASSUME NEW q \in Requests, NEW i \in WatchIds, NEW c \in Criteria,
             NEW once \in BOOLEAN, ReadForEdit(q, i, c, once)
      PROVE TypeInv'
  BY <1>6 DEF TypeInv, TypeOK, Control, ReadForEdit, WatchRows, Forms, db
<1>7. ASSUME NEW q \in Requests, UpdateWatch(q) PROVE TypeInv'
  BY <1>7 DEF TypeInv, TypeOK, Control, UpdateWatch, WatchRows, Forms
<1>8. ASSUME NEW i \in WatchIds, DeleteWatch(i) PROVE TypeInv'
  BY <1>8 DEF TypeInv, TypeOK, Control, DeleteWatch, locals
<1>9. ASSUME NEW q \in Requests, ScanWatch(q) PROVE TypeInv'
  <2>1. form[q] \in Forms
    BY <1>9 DEF TypeInv, TypeOK, Control, ScanWatch
  <2>2. [id |-> form[q].id, oneTime |-> form[q].oneTime] \in Snapshots
    BY <2>1 DEF Forms, Snapshots
  <2>3. \A T \in LatestSets : T \subseteq Routes
    BY DEF LatestSets, StoredRoutes
  <2>4. todo' \in [Workers -> SUBSET (Snapshots \X Routes)]
    <3>1. CASE UNCHANGED todo
      BY <3>1 DEF TypeInv, TypeOK
    <3>2. ASSUME NEW T \in LatestSets,
                 todo' = [todo EXCEPT ![q] =
                   {[id |-> form[q].id, oneTime |-> form[q].oneTime]}
                     \X {r \in T : Match(r, form[q].crit)}]
          PROVE todo' \in [Workers -> SUBSET (Snapshots \X Routes)]
      <4>1. {[id |-> form[q].id, oneTime |-> form[q].oneTime]}
              \X {r \in T : Match(r, form[q].crit)} \in SUBSET (Snapshots \X Routes)
        BY <2>2, <2>3
      <4> QED
        BY <3>2, <4>1 DEF TypeInv, TypeOK
    <3> QED
      BY <1>9, <3>1, <3>2 DEF ScanWatch
  <2> QED
    BY <1>9, <2>4 DEF TypeInv, TypeOK, Control, ScanWatch, db
<1>10. ASSUME NEW p \in Workers, NEW s \in Snapshots, NEW r \in Routes,
              HasBeenNotified(p, s, r)
       PROVE TypeInv'
  BY <1>10 DEF TypeInv, TypeOK, Control, HasBeenNotified, db
<1>11. ASSUME NEW p \in Workers, NextHit(p) PROVE TypeInv'
  <2>1. \A s : HitRoutes(p, s) \in SUBSET Routes
    BY DEF HitRoutes
  <2> QED
    BY <1>11, <2>1 DEF TypeInv, TypeOK, Control, NextHit, db
<1>12. ASSUME NEW p \in Workers, NEW r \in Routes, MarkNotified(p, r) PROVE TypeInv'
  BY <1>12 DEF TypeInv, TypeOK, Control, MarkNotified, Snapshots
<1>13. ASSUME NEW p \in Workers, Send(p) PROVE TypeInv'
  <2>1. cur[p] \in Snapshots
    BY <1>13 DEF TypeInv, TypeOK, Control, Send
  <2>2. [by |-> p, id |-> cur[p].id, oneTime |-> cur[p].oneTime,
         routes |-> HitRoutes(p, cur[p])] \in Alerts
    BY <2>1 DEF Snapshots, Alerts, HitRoutes
  <2>3. /\ log' \subseteq Alerts
        /\ hits' \in [Workers -> SUBSET (Snapshots \X Routes)]
    BY <1>13, <2>2 DEF TypeInv, TypeOK, Send
  <2> QED
    BY <1>13, <2>3 DEF TypeInv, TypeOK, Control, Send, db
<1>14. ASSUME NEW p \in Workers, Hang(p) PROVE TypeInv'
  BY <1>14 DEF TypeInv, TypeOK, Control, Hang, db
<1>15. CASE DeactivateWatch
  <2>1. cur[Fetcher] \in Snapshots
    BY <1>15 DEF TypeInv, TypeOK, Control, DeactivateWatch
  <2>2. \A row \in WatchRows : [row EXCEPT !.active = FALSE] \in WatchRows
    BY DEF WatchRows
  <2>3. watches' \in [WatchIds -> WatchRows \cup {None}]
    BY <1>15, <2>1, <2>2 DEF TypeInv, TypeOK, DeactivateWatch, Snapshots
  <2> QED
    BY <1>15, <2>3 DEF TypeInv, TypeOK, Control, DeactivateWatch
<1>16. CASE Crash
  BY <1>16 DEF TypeInv, TypeOK, Control, Crash, NoWork, db
<1>17. CASE UNCHANGED vars
  BY <1>17 DEF TypeInv, TypeOK, Control, vars
<1> QED
  BY <1>1, <1>2, <1>3, <1>4, <1>5, <1>6, <1>7, <1>8, <1>9, <1>10, <1>11, <1>12,
     <1>13, <1>14, <1>15, <1>16, <1>17
  DEF Next, Living, Environment, Polling, Handling, Alerting

\* Tables and goroutine locals keep their types whatever fails (TypeOK).
THEOREM TypeCorrect == Spec => []TypeOK
<1>1. Spec => []TypeInv
  BY TypeInit, TypeStep, PTL DEF Spec
<1> QED
  BY <1>1, PTL DEF TypeInv

-----------------------------------------------------------------------------
(* The dedup table                                                         *)

\* Which steps write the dedup table, the hits or the history of alerts.
LEMMA Writers ==
  ASSUME [Next]_vars
  PROVE  \/ UNCHANGED <<notified, hits, log>>
         \/ \E p \in Workers, s \in Snapshots, r \in Routes : HasBeenNotified(p, s, r)
         \/ \E p \in Workers, r \in Routes : MarkNotified(p, r)
         \/ \E p \in Workers : Send(p)
         \/ Crash
  BY DEF Next, Living, Environment, Polling, Handling, Alerting, vars, db, locals, RunOnce,
         UpsertRoute, UpsertsDone, GetAllActiveWatches, CreateWatch, ReadForEdit,
         UpdateWatch, DeleteWatch, ScanWatch, NextHit, Hang, DeactivateWatch

\* A pair that is marked, with no hit in flight, stays so in every step.
LEMMA SettledStep ==
  ASSUME TypeInv, [Next]_vars, NEW u \in Users, NEW r \in Routes, Settled(u, r)
  PROVE  Settled(u, r)'
<1> USE DEF Settled, InFlight
<1>1. CASE UNCHANGED <<notified, hits, log>>
  BY <1>1
<1>2. ASSUME NEW p \in Workers, NEW s \in Snapshots, NEW t \in Routes,
             HasBeenNotified(p, s, t)
      PROVE Settled(u, r)'
  <2>1. CASE UNCHANGED hits
    BY <1>2, <2>1 DEF HasBeenNotified, db
  <2>2. CASE /\ <<Owner[s.id], t>> \notin notified
             /\ hits' = [hits EXCEPT ![p] = @ \cup {<<s, t>>}]
    <3>1. \A x \in Workers : hits'[x] \subseteq hits[x] \cup {<<s, t>>}
      BY <2>2 DEF TypeInv, TypeOK
    <3>2. notified' = notified
      BY <1>2 DEF HasBeenNotified, db
    <3> QED
      BY <2>2, <3>1, <3>2
  <2> QED
    BY <1>2, <2>1, <2>2 DEF HasBeenNotified
<1>3. ASSUME NEW p \in Workers, NEW t \in Routes, MarkNotified(p, t)
      PROVE Settled(u, r)'
  BY <1>3 DEF MarkNotified
<1>4. ASSUME NEW p \in Workers, Send(p) PROVE Settled(u, r)'
  BY <1>4 DEF TypeInv, TypeOK, Send, db
<1>5. CASE Crash
  BY <1>5 DEF Crash, NoWork, db
<1> QED
  BY Writers, <1>1, <1>2, <1>3, <1>4, <1>5

\* A crash, an edit or a scan never brings back a route the user was told of,
\* once the work in flight at that moment has drained (SettledStaysSettled).
THEOREM AlertsSettle == Spec => SettledStaysSettled
<1>1. TypeInv /\ [Next]_vars
        => [\A u \in Users, r \in Routes : Settled(u, r) => Settled(u, r)']_vars
  BY SettledStep
<1>2. Spec => []TypeInv
  BY TypeInit, TypeStep, PTL DEF Spec
<1> QED
  BY <1>1, <1>2, PTL DEF Spec, SettledStaysSettled

\* Of the hits a goroutine is about to send, those it has passed are marked.
HitsMarked ==
  \A p \in Workers : pc[p] = "mark" =>
    \A r \in HitRoutes(p, cur[p]) \ toMark[p] : <<Owner[cur[p].id], r>> \in notified

\* Both hold initially.
LEMMA MarkedInit == Init => MarkedBeforeSent /\ HitsMarked
  BY DEF Init, NoWork, MarkedBeforeSent, HitsMarked

\* Marking is never undone, and Send waits for the last mark.
LEMMA MarkedStep ==
  ASSUME "MarkNotified" \notin Faults, TypeInv, MarkedBeforeSent, HitsMarked, [Next]_vars
  PROVE  MarkedBeforeSent' /\ HitsMarked'
<1> USE DEF MarkedBeforeSent, HitsMarked
<1>1. ASSUME NEW p \in Workers, NEW s \in Snapshots, NEW t \in Routes,
             HasBeenNotified(p, s, t)
      PROVE MarkedBeforeSent' /\ HitsMarked'
  <2>1. /\ pc[p] = "check" /\ UNCHANGED <<notified, pc, cur, toMark, log>>
        /\ \A x \in Workers \ {p} : hits'[x] = hits[x]
    BY <1>1 DEF TypeInv, TypeOK, HasBeenNotified, db
  <2> QED
    BY <2>1 DEF HitRoutes
<1>2. ASSUME NEW p \in Workers, NextHit(p)
      PROVE MarkedBeforeSent' /\ HitsMarked'
  BY <1>2 DEF TypeInv, TypeOK, NextHit, HitRoutes, db
<1>3. ASSUME NEW p \in Workers, NEW t \in Routes, MarkNotified(p, t)
      PROVE MarkedBeforeSent' /\ HitsMarked'
  BY <1>3 DEF TypeInv, TypeOK, MarkNotified, HitRoutes, MayFail
<1>4. ASSUME NEW p \in Workers, Send(p)
      PROVE MarkedBeforeSent' /\ HitsMarked'
  <2>1. /\ notified' = notified /\ toMark[p] = {} /\ pc[p] = "mark"
        /\ log' = log \cup {[by |-> p, id |-> cur[p].id, oneTime |-> cur[p].oneTime,
                             routes |-> HitRoutes(p, cur[p])]}
    BY <1>4 DEF Send, db
  <2>2. MarkedBeforeSent'
    BY <2>1
  <2>3. HitsMarked'
    BY <1>4 DEF TypeInv, TypeOK, Send, HitRoutes, db
  <2> QED
    BY <2>2, <2>3
<1>5. CASE Crash
  BY <1>5 DEF Crash, NoWork, db
<1>6. CASE \/ RunOnce \/ UpsertsDone \/ GetAllActiveWatches \/ DeactivateWatch
           \/ \E o \in Offers : UpsertRoute(o)
  BY <1>6 DEF TypeInv, TypeOK, Control, RunOnce, UpsertsDone, GetAllActiveWatches, DeactivateWatch,
              UpsertRoute, HitRoutes, db
<1>7. CASE \E q \in Requests, i \in WatchIds, c \in Criteria, once \in BOOLEAN :
             CreateWatch(q, i, c, once) \/ ReadForEdit(q, i, c, once)
  BY <1>7 DEF TypeInv, TypeOK, CreateWatch, ReadForEdit, HitRoutes, db, Workers
<1>8. CASE \/ \E q \in Requests : UpdateWatch(q) \/ ScanWatch(q)
           \/ \E p \in Workers : Hang(p)
  BY <1>8 DEF TypeInv, TypeOK, UpdateWatch, ScanWatch, Hang, HitRoutes, db, Workers
<1>9. CASE UNCHANGED vars \/ \E i \in WatchIds : DeleteWatch(i)
  BY <1>9 DEF vars, locals, DeleteWatch, HitRoutes
<1> QED
  BY <1>1, <1>2, <1>3, <1>4, <1>5, <1>6, <1>7, <1>8, <1>9
  DEF Next, Living, Environment, Polling, Handling, Alerting

\* Unless a mark fails, what was alerted is in the dedup table whatever crashes,
\* so a restart loses alerts and never repeats one (MarkedBeforeSent).
THEOREM AlertsAreMarked ==
  ASSUME "MarkNotified" \notin Faults
  PROVE  Spec => []MarkedBeforeSent
<1>1. TypeInv /\ MarkedBeforeSent /\ HitsMarked /\ [Next]_vars
        => TypeInv' /\ MarkedBeforeSent' /\ HitsMarked'
  BY TypeStep, MarkedStep
<1>2. Init => TypeInv /\ MarkedBeforeSent /\ HitsMarked
  BY TypeInit, MarkedInit
<1> QED
  BY <1>1, <1>2, PTL DEF Spec

-----------------------------------------------------------------------------
(* No mark without an alert                                                *)

\* A step is one of a living process or a crash.
LEMMA LivingOrCrash == [Next]_vars <=> [Living]_vars \/ Crash
  BY DEF Next

Sent(m) == \E a \in log : Owner[a.id] = m[1] /\ m[2] \in a.routes
OnItsWay(m) ==
  \E p \in Workers : /\ pc[p] \in {"mark", "hung"}
                     /\ Owner[cur[p].id] = m[1]
                     /\ m[2] \in HitRoutes(p, cur[p])

\* What is being marked is about to be alerted.
MarksHits == \A p \in Workers : pc[p] = "mark" => toMark[p] \subseteq HitRoutes(p, cur[p])

\* A goroutine that marks, or hangs, keeps what it has until it has sent it.
LEMMA Keeps ==
  ASSUME TypeInv, [Living]_vars, NEW p \in Workers, pc[p] \in {"mark", "hung"}
  PROVE  \/ Send(p)
         \/ /\ pc'[p] = pc[p] \/ (pc[p] = "mark" /\ pc'[p] = "hung")
            /\ cur'[p] = cur[p] /\ HitRoutes(p, cur[p])' = HitRoutes(p, cur[p])
            /\ toMark'[p] \subseteq toMark[p]
<1> SUFFICES ASSUME ~Send(p)
             PROVE  /\ pc'[p] = pc[p] \/ (pc[p] = "mark" /\ pc'[p] = "hung")
                    /\ cur'[p] = cur[p] /\ hits'[p] = hits[p] /\ toMark'[p] \subseteq toMark[p]
  BY DEF HitRoutes
<1>0. /\ Fetcher \in Workers /\ Requests \subseteq Workers /\ Fetcher \notin Requests
      /\ p \in Requests => pc[p] \notin {"upsert", "load", "deactivate"}
  BY ConstantsAssumption DEF ConstantsAssumption, Workers, TypeInv, Control
<1>1. CASE \/ RunOnce \/ UpsertsDone \/ GetAllActiveWatches \/ DeactivateWatch
           \/ \E o \in Offers : UpsertRoute(o)
  BY <1>0, <1>1 DEF TypeInv, TypeOK, RunOnce, UpsertsDone, GetAllActiveWatches, DeactivateWatch,
                    UpsertRoute, db
<1>2. ASSUME NEW q \in Requests, NEW i \in WatchIds, NEW c \in Criteria, NEW once \in BOOLEAN,
             CreateWatch(q, i, c, once) \/ ReadForEdit(q, i, c, once)
      PROVE  UNCHANGED <<cur, hits, toMark>> /\ pc'[p] = pc[p]
  BY <1>0, <1>2 DEF TypeInv, TypeOK, CreateWatch, ReadForEdit, db
<1>3. ASSUME NEW q \in Requests, UpdateWatch(q) \/ ScanWatch(q)
      PROVE  UNCHANGED <<cur, hits, toMark>> /\ pc'[p] = pc[p]
  BY <1>0, <1>3 DEF TypeInv, TypeOK, UpdateWatch, ScanWatch, db
<1>4. ASSUME NEW x \in Workers, NEW s \in Snapshots, NEW t \in Routes, HasBeenNotified(x, s, t)
      PROVE  UNCHANGED <<cur, pc, toMark>> /\ hits'[p] = hits[p]
  BY <1>4 DEF TypeInv, TypeOK, HasBeenNotified, db
<1>5. ASSUME NEW x \in Workers, NextHit(x)
      PROVE  hits' = hits /\ cur'[p] = cur[p] /\ toMark'[p] = toMark[p] /\ pc'[p] = pc[p]
  BY <1>5 DEF TypeInv, TypeOK, NextHit, db
<1>6. ASSUME NEW x \in Workers, NEW t \in Routes, MarkNotified(x, t)
      PROVE  UNCHANGED <<cur, hits, pc>> /\ toMark'[p] \subseteq toMark[p]
  BY <1>6 DEF TypeInv, TypeOK, MarkNotified
<1>7. ASSUME NEW x \in Workers \ {p}, Send(x)
      PROVE  hits'[p] = hits[p] /\ cur'[p] = cur[p] /\ toMark' = toMark /\ pc'[p] = pc[p]
  BY <1>7 DEF TypeInv, TypeOK, Send, db
<1>8. ASSUME NEW x \in Workers, Hang(x)
      PROVE  /\ UNCHANGED <<cur, hits, toMark>>
             /\ pc'[p] = pc[p] \/ (pc[p] = "mark" /\ pc'[p] = "hung")
  BY <1>8 DEF TypeInv, TypeOK, Hang, db
<1>9. CASE UNCHANGED vars \/ \E i \in WatchIds : DeleteWatch(i)
  BY <1>9 DEF vars, locals, DeleteWatch
<1> QED
  BY <1>1, <1>2, <1>3, <1>4, <1>5, <1>6, <1>7, <1>8, <1>9
  DEF Living, Environment, Polling, Handling, Alerting

\* What is written to the record, and to the log.
LEMMA Records ==
  ASSUME TypeInv, [Next]_vars
  PROVE  /\ log \subseteq log'
         /\ \A m \in notified' \ notified :
              \E p \in Workers, t \in Routes :
                MarkNotified(p, t) /\ m = <<Owner[cur[p].id], t>>
<1>1. UNCHANGED notified \/ \E p \in Workers, t \in Routes : MarkNotified(p, t)
  BY DEF Next, Living, Environment, Polling, Handling, Alerting, vars, db, locals, RunOnce,
         UpsertsDone, UpsertRoute, GetAllActiveWatches, CreateWatch, ReadForEdit, UpdateWatch,
         DeleteWatch, ScanWatch, HasBeenNotified, NextHit, Send, Hang, DeactivateWatch, Crash
<1>2. UNCHANGED log \/ \E p \in Workers : Send(p)
  BY DEF Next, Living, Environment, Polling, Handling, Alerting, vars, db, locals, RunOnce,
         UpsertsDone, UpsertRoute, GetAllActiveWatches, CreateWatch, ReadForEdit, UpdateWatch,
         DeleteWatch, ScanWatch, HasBeenNotified, NextHit, MarkNotified, Hang, DeactivateWatch, Crash
<1> QED
  BY <1>1, <1>2 DEF MarkNotified, Send

\* Marking begins with NextHit.
LEMMA BeginsMarking ==
  ASSUME TypeInv, [Living]_vars, NEW p \in Workers, pc[p] # "mark", pc'[p] = "mark"
  PROVE  NextHit(p)
<1>0. Fetcher \in Workers /\ Requests \subseteq Workers
  BY ConstantsAssumption DEF ConstantsAssumption, Workers
<1>2. CASE RunOnce \/ UpsertsDone \/ GetAllActiveWatches \/ DeactivateWatch
  BY <1>0, <1>2 DEF TypeInv, TypeOK, RunOnce, UpsertsDone, GetAllActiveWatches, DeactivateWatch
<1>3. ASSUME NEW o \in Offers, UpsertRoute(o) PROVE FALSE
  BY <1>3 DEF UpsertRoute
<1>4. ASSUME NEW q \in Requests, NEW i \in WatchIds, NEW c \in Criteria, NEW once \in BOOLEAN,
             CreateWatch(q, i, c, once) \/ ReadForEdit(q, i, c, once)
      PROVE  FALSE
  BY <1>0, <1>4 DEF TypeInv, TypeOK, CreateWatch, ReadForEdit
<1>5. ASSUME NEW q \in Requests, UpdateWatch(q) \/ ScanWatch(q) PROVE FALSE
  BY <1>0, <1>5 DEF TypeInv, TypeOK, UpdateWatch, ScanWatch
<1>6. ASSUME NEW x \in Workers, NEW s \in Snapshots, NEW t \in Routes, HasBeenNotified(x, s, t)
      PROVE FALSE
  BY <1>6 DEF HasBeenNotified
<1>7. ASSUME NEW x \in Workers, NextHit(x) PROVE x = p
  BY <1>0, <1>7 DEF TypeInv, TypeOK, NextHit
<1>8. ASSUME NEW x \in Workers, NEW t \in Routes, MarkNotified(x, t) PROVE FALSE
  BY <1>8 DEF MarkNotified
<1>9. ASSUME NEW x \in Workers, Send(x) \/ Hang(x) PROVE FALSE
  BY <1>0, <1>9 DEF TypeInv, TypeOK, Send, Hang
<1>10. CASE UNCHANGED vars \/ \E i \in WatchIds : DeleteWatch(i)
  BY <1>10 DEF vars, locals, DeleteWatch
<1> QED
  BY <1>2, <1>3, <1>4, <1>5, <1>6, <1>7, <1>8, <1>9, <1>10
  DEF Living, Environment, Polling, Handling, Alerting

\* MarksHits is inductive, crashes included.
LEMMA MarksHitsStep ==
  ASSUME TypeInv, MarksHits, [Next]_vars
  PROVE  MarksHits'
<1>1. CASE Crash
  BY <1>1 DEF Crash, NoWork, MarksHits
<1>2. ASSUME [Living]_vars, NEW p \in Workers, pc'[p] = "mark" PROVE (toMark[p] \subseteq HitRoutes(p, cur[p]))'
  <2>1. CASE pc[p] = "mark"
    <3>1. ~Send(p)
      BY <1>2 DEF Send, TypeInv, TypeOK
    <3> QED
      BY <1>2, <2>1, <3>1, Keeps DEF MarksHits
  <2>2. CASE pc[p] # "mark"
    <3>1. NextHit(p)
      BY <1>2, <2>2, BeginsMarking
    <3> QED
      BY <1>2, <3>1 DEF NextHit, HitRoutes, TypeInv, TypeOK
  <2> QED
    BY <2>1, <2>2
<1> QED
  BY <1>1, <1>2, LivingOrCrash DEF MarksHits

\* As long as the process lives, what is on record is alerted or about to be.
LEMMA SentStep ==
  ASSUME TypeInv, MarksHits, [Living]_vars, NEW m,
         m \in notified => Sent(m) \/ OnItsWay(m), m \in notified'
  PROVE  Sent(m)' \/ OnItsWay(m)'
<1>0. [Next]_vars
  BY LivingOrCrash
<1>1. CASE m \notin notified
  <2>1. PICK p \in Workers, t \in Routes : MarkNotified(p, t) /\ m = <<Owner[cur[p].id], t>>
    BY <1>0, <1>1, Records
  <2>2. pc[p] = "mark" /\ t \in toMark[p] /\ UNCHANGED <<pc, cur, hits>>
    BY <2>1 DEF MarkNotified
  <2>3. t \in HitRoutes(p, cur[p])
    BY <2>2 DEF MarksHits
  <2> QED
    BY <2>1, <2>2, <2>3 DEF OnItsWay, HitRoutes
<1>2. CASE m \in notified /\ Sent(m)
  BY <1>0, <1>2, Records DEF Sent
<1>3. CASE m \in notified /\ OnItsWay(m)
  <2>1. PICK p \in Workers : /\ pc[p] \in {"mark", "hung"}
                             /\ Owner[cur[p].id] = m[1] /\ m[2] \in HitRoutes(p, cur[p])
    BY <1>3 DEF OnItsWay
  <2>2. ASSUME Send(p) PROVE Sent(m)'
    <3> DEFINE a == [by |-> p, id |-> cur[p].id, oneTime |-> cur[p].oneTime,
                     routes |-> HitRoutes(p, cur[p])]
    <3>1. log' = log \cup {a}
      BY <2>2 DEF Send
    <3>2. Owner[a.id] = m[1] /\ m[2] \in a.routes
      BY <2>1
    <3>3. a \in log'
      BY <3>1
    <3> HIDE DEF a
    <3> QED
      BY <3>2, <3>3 DEF Sent
  <2>3. CASE ~Send(p)
    BY <2>1, <2>3, Keeps DEF OnItsWay
  <2> QED
    BY <2>2, <2>3
<1> QED
  BY <1>1, <1>2, <1>3

\* As long as the process lives, no mark silences an alert that was not sent
\* (MarkedIsSent), whatever else fails or hangs.
THEOREM MarksAreSent == LifeSpec => []MarkedIsSent
<1> DEFINE Marks == \A m \in notified : Sent(m) \/ OnItsWay(m)
<1>1. Init => TypeInv /\ MarksHits /\ Marks
  BY TypeInit DEF Init, NoWork, MarksHits
<1>2. TypeInv /\ MarksHits /\ Marks /\ [Living]_vars => TypeInv' /\ MarksHits' /\ Marks'
  BY LivingOrCrash, SentStep, TypeStep, MarksHitsStep
<1>3. Marks => MarkedIsSent
  BY DEF OnItsWay, Sent, MarkedIsSent, Quiescent
<1> QED
  BY <1>1, <1>2, <1>3, PTL DEF LifeSpec

-----------------------------------------------------------------------------
(* The ledger                                                              *)

\* The tables and the hits start as an empty ledger.
LEMMA LedgerInit == Init => Ledger!Init
  BY DEF Init, NoWork, Ledger!Init

\* A hit is a claim, a mark a record, Send an alert; the rest stutters.
LEMMA LedgerStep ==
  ASSUME TypeInv, HitsMarked, [Next]_vars
  PROVE  [Ledger!Next]_(Ledger!vars)
<1> USE DEF Ledger!vars
<1>1. CASE UNCHANGED <<notified, hits, log>>
  BY <1>1
<1>2. ASSUME NEW p \in Workers, NEW s \in Snapshots, NEW r \in Routes,
             HasBeenNotified(p, s, r)
      PROVE [Ledger!Next]_(Ledger!vars)
  <2>1. CASE UNCHANGED hits
    BY <1>2, <2>1 DEF HasBeenNotified, db
  <2>2. CASE /\ <<Owner[s.id], r>> \notin notified
             /\ hits' = [hits EXCEPT ![p] = @ \cup {<<s, r>>}]
    <3>1. \A x \in Workers : hits'[x] = IF x = p THEN hits[x] \cup {<<s, r>>} ELSE hits[x]
      BY <2>2 DEF TypeInv, TypeOK
    <3>2. <<p, s>> \in Workers \X Snapshots /\ UNCHANGED <<notified, log>>
      BY <1>2 DEF HasBeenNotified, db
    <3>3. Ledger!Claim(<<p, s>>, r)
      BY <2>2, <3>1, <3>2 DEF Ledger!Claim
    <3> QED
      BY <3>2, <3>3 DEF Ledger!Next
  <2> QED
    BY <1>2, <2>1, <2>2 DEF HasBeenNotified
<1>3. ASSUME NEW p \in Workers, NEW r \in Routes, MarkNotified(p, r)
      PROVE [Ledger!Next]_(Ledger!vars)
  <2>1. Owner[cur[p].id] \in Users
    BY <1>3, ConstantsAssumption
    DEF ConstantsAssumption, TypeInv, TypeOK, Control, MarkNotified, Snapshots
  <2>2. CASE UNCHANGED notified
    BY <1>3, <2>2 DEF MarkNotified
  <2>3. CASE notified' = notified \cup {<<Owner[cur[p].id], r>>}
    BY <1>3, <2>1, <2>3 DEF MarkNotified, Ledger!Next, Ledger!Record
  <2> QED
    BY <1>3, <2>2, <2>3 DEF MarkNotified
<1>4. ASSUME NEW p \in Workers, Send(p) PROVE [Ledger!Next]_(Ledger!vars)
  <2>1. PICK c \in Workers \X Snapshots : c = <<p, cur[p]>>
    BY <1>4 DEF TypeInv, TypeOK, Control, Send
  <2>2. /\ notified' = notified
        /\ log' = log \cup {[by |-> p, id |-> cur[p].id, oneTime |-> cur[p].oneTime,
                             routes |-> HitRoutes(p, cur[p])]}
    BY <1>4 DEF Send, db
  <2>3. \A x \in Workers :
          hits'[x] = IF x = p THEN {h \in hits[x] : h[1] # cur[p]} ELSE hits[x]
    BY <1>4 DEF TypeInv, TypeOK, Send
  <2>4. Ledger!Claimed(c) = HitRoutes(p, cur[p])
    BY <2>1 DEF Ledger!Claimed, HitRoutes
  <2>5. \A r \in HitRoutes(p, cur[p]) : <<Owner[cur[p].id], r>> \in notified
    BY <1>4 DEF HitsMarked, Send
  <2>6. [id |-> cur[p].id, oneTime |-> cur[p].oneTime] = cur[p]
    BY <2>1 DEF Snapshots
  <2> DEFINE Abstract(a) == << <<a.by, [id |-> a.id, oneTime |-> a.oneTime]>>, a.routes>>
             sent == [by |-> p, id |-> cur[p].id, oneTime |-> cur[p].oneTime,
                      routes |-> HitRoutes(p, cur[p])]
  <2>7. {Abstract(a) : a \in log'}
          = {Abstract(a) : a \in log} \cup {<<c, Ledger!Claimed(c)>>}
    <3>1. Abstract(sent) = <<c, Ledger!Claimed(c)>>
      BY <2>1, <2>4, <2>6
    <3>2. log' = log \cup {sent}
      BY <2>2
    <3> HIDE DEF Abstract, sent
    <3> QED
      BY <3>1, <3>2
  <2>8. {k \in (Workers \X Snapshots) \X Routes : <<k[1][2], k[2]>> \in hits'[k[1][1]]}
          = {k \in {j \in (Workers \X Snapshots) \X Routes :
                      <<j[1][2], j[2]>> \in hits[j[1][1]]} : k[1] # c}
    <3>1. \A k \in (Workers \X Snapshots) \X Routes :
            /\ k[1][1] \in Workers
            /\ k[1] = c <=> k[1][1] = p /\ k[1][2] = cur[p]
      BY <2>1
    <3>2. \A k \in (Workers \X Snapshots) \X Routes :
            <<k[1][2], k[2]>> \in hits'[k[1][1]]
              <=> <<k[1][2], k[2]>> \in hits[k[1][1]] /\ k[1] # c
      <4> TAKE k \in (Workers \X Snapshots) \X Routes
      <4>1. CASE k[1][1] = p
        <5>1. hits'[k[1][1]] = {h \in hits[k[1][1]] : h[1] # cur[p]}
          BY <2>3, <4>1
        <5>2. k[1] # c <=> <<k[1][2], k[2]>>[1] # cur[p]
          BY <3>1, <4>1
        <5> QED
          BY <5>1, <5>2, Zenon
      <4>2. CASE k[1][1] # p
        BY <2>3, <3>1, <4>2
      <4> QED
        BY <4>1, <4>2
    <3> QED
      BY <3>2
  <2>9. Ledger!Alert(c)
    BY <2>1, <2>2, <2>4, <2>5, <2>7, <2>8 DEF Ledger!Alert
  <2> QED
    BY <2>9 DEF Ledger!Next
<1>5. CASE Crash
  BY <1>5 DEF Crash, NoWork, db, Ledger!Next, Ledger!Crash
<1> QED
  BY Writers, <1>1, <1>2, <1>3, <1>4, <1>5

\* The goroutines implement the ledger, one claimant per goroutine and watch,
\* whatever else fails, as long as marks are written (KeepsLedger).
THEOREM ImplementsLedger ==
  ASSUME "MarkNotified" \notin Faults
  PROVE  Spec => KeepsLedger
<1>1. TypeInv /\ MarkedBeforeSent /\ HitsMarked /\ [Next]_vars
        => /\ TypeInv' /\ MarkedBeforeSent' /\ HitsMarked'
           /\ [Ledger!Next]_(Ledger!vars)
  BY TypeStep, MarkedStep, LedgerStep
<1>2. Init => TypeInv /\ MarkedBeforeSent /\ HitsMarked /\ Ledger!Init
  BY TypeInit, MarkedInit, LedgerInit
<1> QED
  BY <1>1, <1>2, PTL DEF Spec, KeepsLedger, Ledger!Spec

-----------------------------------------------------------------------------
(* The poller                                                              *)

\* A route is new in one run of the poller only: what it holds or has alerted
\* is stored, and what it has alerted is not in newRoutes again.
Held == todo[Fetcher] \cup hits[Fetcher]
PolledOnce ==
  /\ pc[Fetcher] \in {"idle", "upsert", "load"} => Held = {}
  /\ pc[Fetcher] \notin {"upsert", "load"} => fresh = {}
  /\ pc[Fetcher] # "check" => todo[Fetcher] = {}
  /\ \A h, k \in Held : h[1].id = k[1].id => h[1] = k[1]
  /\ pc[Fetcher] = "mark" => \A h \in Held : h[1].id = cur[Fetcher].id => h[1] = cur[Fetcher]
  /\ \A h \in Held : routes[h[2]] # None
  /\ \A o \in fresh : routes[o.id] # None
  /\ \A a \in log : a.by = Fetcher => \A r \in a.routes :
       /\ routes[r] # None
       /\ \A o \in fresh : o.id # r
       /\ \A h \in Held : h[1].id = a.id => h[2] # r

\* It holds initially.
LEMMA PolledInit == Init => PolledOnce
  BY DEF Init, NoWork, PolledOnce, Held, Workers

\* Steps of the requests leave everything of the poller alone.
LEMMA PolledByOthers ==
  ASSUME TypeInv, PolledOnce, NEW q \in Requests,
         \/ \E i \in WatchIds, c \in Criteria, once \in BOOLEAN :
              CreateWatch(q, i, c, once) \/ ReadForEdit(q, i, c, once)
         \/ Handling(q) \/ Alerting(q) \/ Hang(q)
  PROVE  PolledOnce'
<1>1. q # Fetcher /\ q \in Workers /\ Fetcher \in Workers
  BY ConstantsAssumption DEF ConstantsAssumption, Workers
<1> DEFINE Untouched ==
             /\ pc'[Fetcher] = pc[Fetcher] /\ cur'[Fetcher] = cur[Fetcher]
             /\ todo'[Fetcher] = todo[Fetcher] /\ hits'[Fetcher] = hits[Fetcher]
             /\ UNCHANGED <<routes, fresh>>
             /\ \A a \in log' : a.by = Fetcher => a \in log
<1>2. ASSUME NEW i \in WatchIds, NEW c \in Criteria, NEW once \in BOOLEAN,
             CreateWatch(q, i, c, once) \/ ReadForEdit(q, i, c, once)
      PROVE Untouched
  BY <1>1, <1>2 DEF TypeInv, TypeOK, CreateWatch, ReadForEdit, db
<1>3. ASSUME Handling(q) \/ Hang(q) \/ NextHit(q) PROVE Untouched
  BY <1>1, <1>3 DEF TypeInv, TypeOK, Handling, UpdateWatch, ScanWatch, Hang, NextHit, db
<1>4. ASSUME NEW s \in Snapshots, NEW r \in Routes, HasBeenNotified(q, s, r)
      PROVE Untouched
  BY <1>1, <1>4 DEF TypeInv, TypeOK, HasBeenNotified, db
<1>5. ASSUME NEW r \in Routes, MarkNotified(q, r) PROVE Untouched
  BY <1>1, <1>5 DEF TypeInv, TypeOK, MarkNotified
<1>6. ASSUME Send(q) PROVE Untouched
  BY <1>1, <1>6 DEF TypeInv, TypeOK, Send, db
<1>7. Untouched
  BY <1>2, <1>3, <1>4, <1>5, <1>6 DEF Alerting
<1> QED
  BY <1>7 DEF PolledOnce, Held

\* Only an id that was not stored joins newRoutes, and routes are never deleted.
LEMMA PolledStep == TypeInv /\ PolledOnce /\ [Next]_vars => PolledOnce'
<1> SUFFICES ASSUME TypeInv, PolledOnce, [Next]_vars PROVE PolledOnce'
  OBVIOUS
<1> USE DEF Held
<1>0. Fetcher \in Workers /\ Fetcher \notin Requests
  BY ConstantsAssumption DEF ConstantsAssumption, Workers
<1>1. CASE RunOnce
  BY <1>0, <1>1 DEF TypeInv, TypeOK, PolledOnce, RunOnce, db
<1>2. ASSUME NEW o \in Offers, UpsertRoute(o) PROVE PolledOnce'
  <2>1. /\ pc[Fetcher] = "upsert" /\ Held = {} /\ UNCHANGED <<pc, todo, hits, cur, log>>
    BY <1>2 DEF PolledOnce, UpsertRoute
  <2>2. /\ o.id \in Routes /\ o.name # None
        /\ \A a \in log : a.routes \subseteq Routes
        /\ \A x \in fresh : x.id \in Routes
    BY ConstantsAssumption DEF ConstantsAssumption, TypeInv, TypeOK, Alerts
  <2>3. \A r \in Routes : routes[r] # None => routes'[r] # None
    BY <1>2, <2>2 DEF TypeInv, TypeOK, UpsertRoute
  <2>4. \A x \in fresh' : x \in fresh \/ (x = o /\ routes[o.id] = None /\ routes'[o.id] # None)
    BY <1>2, <2>2 DEF TypeInv, TypeOK, UpsertRoute
  <2> QED
    BY <2>1, <2>2, <2>3, <2>4 DEF PolledOnce
<1>3. CASE UpsertsDone
  BY <1>0, <1>3 DEF TypeInv, TypeOK, PolledOnce, UpsertsDone, db
<1>4. CASE GetAllActiveWatches
  <2>1. /\ UNCHANGED <<routes, cur, log, hits>> /\ hits[Fetcher] = {}
        /\ fresh' = {} /\ pc'[Fetcher] \in {"check", "idle"}
        /\ pc'[Fetcher] = "idle" => todo'[Fetcher] = {}
    BY <1>0, <1>4 DEF TypeInv, TypeOK, PolledOnce, GetAllActiveWatches, db
  <2>2. \A h \in todo'[Fetcher] : h[1] \in ActiveSnapshots /\ \E o \in fresh : o.id = h[2]
    <3>1. CASE UNCHANGED todo
      BY <1>4, <3>1 DEF PolledOnce, GetAllActiveWatches
    <3>2. CASE todo' = [todo EXCEPT ![Fetcher] =
                 {h \in ActiveSnapshots \X Routes :
                    \E o \in fresh : /\ o.id = h[2]
                                     /\ <<o.name, watches[h[1].id].crit>> \in Matches}]
      BY <1>0, <3>2 DEF TypeInv, TypeOK
    <3> QED
      BY <1>4, <3>1, <3>2 DEF GetAllActiveWatches
  <2>3. \A s, t \in ActiveSnapshots : s.id = t.id => s = t
    BY DEF ActiveSnapshots, Snapshots
  <2> QED
    BY <2>1, <2>2, <2>3 DEF PolledOnce
<1>5. ASSUME NEW s \in Snapshots, NEW r \in Routes, HasBeenNotified(Fetcher, s, r)
      PROVE PolledOnce'
  <2>1. /\ UNCHANGED <<routes, pc, cur, log, fresh>> /\ pc[Fetcher] = "check"
        /\ Held' \subseteq Held
    BY <1>0, <1>5 DEF TypeInv, TypeOK, HasBeenNotified, db
  <2> QED
    BY <2>1 DEF PolledOnce
<1>6. CASE NextHit(Fetcher)
  <2>1. /\ UNCHANGED <<routes, fresh, log, todo, hits>>
        /\ pc[Fetcher] = "check" /\ todo[Fetcher] = {}
    BY <1>6 DEF NextHit, db
  <2>2. CASE pc' = [pc EXCEPT ![Fetcher] = "idle"] /\ hits[Fetcher] = {}
    BY <1>0, <2>1, <2>2 DEF TypeInv, TypeOK, PolledOnce
  <2>3. ASSUME NEW s \in Snapshots, HitRoutes(Fetcher, s) # {},
               pc' = [pc EXCEPT ![Fetcher] = "mark"], cur' = [cur EXCEPT ![Fetcher] = s]
        PROVE PolledOnce'
    <3>1. /\ pc'[Fetcher] = "mark" /\ cur'[Fetcher] = s
      BY <1>0, <2>3 DEF TypeInv, TypeOK
    <3>2. PICK r \in Routes : <<s, r>> \in hits[Fetcher]
      BY <2>3 DEF HitRoutes
    <3>3. \A h \in Held : h[1].id = s.id => h[1] = s
      BY <3>2 DEF PolledOnce
    <3> QED
      BY <2>1, <3>1, <3>3 DEF PolledOnce
  <2> QED
    BY <1>6, <2>2, <2>3 DEF NextHit
<1>7. ASSUME NEW r \in Routes, MarkNotified(Fetcher, r) PROVE PolledOnce'
  BY <1>7 DEF PolledOnce, MarkNotified
<1>8. CASE Send(Fetcher)
  <2>1. /\ pc[Fetcher] = "mark" /\ pc'[Fetcher] \in {"check", "deactivate"}
        /\ UNCHANGED <<routes, fresh, todo>> /\ fresh = {} /\ todo[Fetcher] = {}
        /\ hits'[Fetcher] = {h \in hits[Fetcher] : h[1] # cur[Fetcher]}
        /\ log' = log \cup {[by |-> Fetcher, id |-> cur[Fetcher].id,
                             oneTime |-> cur[Fetcher].oneTime,
                             routes |-> HitRoutes(Fetcher, cur[Fetcher])]}
    BY <1>0, <1>8 DEF TypeInv, TypeOK, PolledOnce, Send, db
  <2>2. \A h \in hits[Fetcher] : h[1].id = cur[Fetcher].id => h \notin hits'[Fetcher]
    BY <2>1 DEF PolledOnce
  <2>3. \A r \in HitRoutes(Fetcher, cur[Fetcher]) : routes[r] # None
    BY DEF HitRoutes, PolledOnce
  <2> QED
    BY <2>1, <2>2, <2>3 DEF PolledOnce
<1>9. CASE Hang(Fetcher) \/ DeactivateWatch
  BY <1>0, <1>9 DEF TypeInv, TypeOK, PolledOnce, Hang, DeactivateWatch, db
<1>10. CASE Crash
  BY <1>0, <1>10 DEF PolledOnce, Crash, NoWork, db
<1>11. CASE UNCHANGED vars
  BY <1>11 DEF PolledOnce, vars
<1>12. CASE \/ \E q \in Requests :
                \/ \E i \in WatchIds, c \in Criteria, once \in BOOLEAN :
                     CreateWatch(q, i, c, once) \/ ReadForEdit(q, i, c, once)
                \/ Handling(q) \/ Alerting(q) \/ Hang(q)
  BY <1>12, PolledByOthers
<1>13. ASSUME NEW i \in WatchIds, DeleteWatch(i) PROVE PolledOnce'
  BY <1>13 DEF PolledOnce, DeleteWatch, locals
<1> QED
  BY <1>1, <1>2, <1>3, <1>4, <1>5, <1>6, <1>7, <1>8, <1>9, <1>10, <1>11, <1>12, <1>13
  DEF Next, Living, Environment, Polling, Alerting, Workers

\* The poller alerts a watch at most once about a route, whatever fails or
\* crashes, even where the dedup table could not be written (FetchNeverRepeats).
THEOREM PollerNeverRepeats == Spec => []FetchNeverRepeats
<1>1. TypeInv /\ PolledOnce /\ [Next]_vars => TypeInv' /\ PolledOnce'
  BY TypeStep, PolledStep
<1>2. Init => TypeInv /\ PolledOnce
  BY TypeInit, PolledInit
<1>3. PolledOnce => FetchNeverRepeats
  BY DEF PolledOnce, Held, FetchNeverRepeats
<1> QED
  BY <1>1, <1>2, <1>3, PTL DEF Spec

-----------------------------------------------------------------------------
(* No route is missed                                                      *)

\* When the database answers, a route keeps its names and the scan reads the
\* whole cache.
Steady ==
  /\ \A o, x \in Offers : o.id = x.id => o = x
  /\ Cardinality(Routes) <= ScanLimit
  /\ Faults \cap {"GetAllActiveWatches", "GetAllRoutes", "HasBeenNotified", "MarkNotified"} = {}

\* The cache and newRoutes hold what the API offered.
NamesKept ==
  /\ \A r \in Routes : routes[r] # None => [id |-> r, name |-> routes[r]] \in Offers
  /\ \A o \in fresh : routes[o.id] = o.name

NoneOwed == NamesKept /\ OwedIsInHand

\* The scan reads every cached route when they fit under its LIMIT.
LEMMA ScanReadsAll ==
  ASSUME Cardinality(Routes) <= ScanLimit
  PROVE  \A T \in LatestSets : T = StoredRoutes
<1> SUFFICES ASSUME NEW T \in LatestSets, Cardinality(T) = ScanLimit
             PROVE  T = StoredRoutes
  BY DEF LatestSets
<1>1. T \subseteq Routes /\ StoredRoutes \subseteq Routes /\ T \subseteq StoredRoutes
  BY DEF LatestSets, StoredRoutes
<1>2. IsFiniteSet(Routes) /\ ScanLimit \in Nat
  BY ConstantsAssumption DEF ConstantsAssumption
<1>3. Cardinality(T) <= Cardinality(Routes) /\ Cardinality(Routes) \in Nat
  BY <1>1, <1>2, FS_Subset, FS_CardinalityType
<1>4. Cardinality(T) = Cardinality(Routes)
  BY <1>2, <1>3
<1>5. T = Routes
  BY <1>1, <1>2, <1>4, FS_Subset
<1> QED
  BY <1>1, <1>5

\* Nothing is cached, watched or owed initially.
LEMMA NoneOwedInit == Init => NoneOwed
  BY DEF Init, NoneOwed, NamesKept, OwedIsInHand, Owed

\* A stored name is never overwritten by another.
LEMMA NamesStep ==
  ASSUME Steady, TypeInv, NamesKept, [Next]_vars
  PROVE  NamesKept' /\ \A r \in Routes : routes[r] # None => routes'[r] = routes[r]
<1>1. CASE UNCHANGED routes /\ fresh' \subseteq fresh
  BY <1>1 DEF NamesKept
<1>2. ASSUME NEW o \in Offers, UpsertRoute(o)
      PROVE  NamesKept' /\ \A r \in Routes : routes[r] # None => routes'[r] = routes[r]
  <2>1. o.id \in Routes /\ o.name # None /\ o = [id |-> o.id, name |-> o.name]
    BY ConstantsAssumption DEF ConstantsAssumption
  <2>2. \A r \in Routes : routes[r] # None => routes'[r] = routes[r]
    <3> SUFFICES ASSUME routes[o.id] # None, routes' = [routes EXCEPT ![o.id] = o.name]
                 PROVE  routes'[o.id] = routes[o.id]
      BY <1>2, <2>1 DEF UpsertRoute, TypeInv, TypeOK
    <3>1. [id |-> o.id, name |-> routes[o.id]] = o
      BY <2>1 DEF Steady, NamesKept
    <3> QED
      BY <2>1, <3>1 DEF TypeInv, TypeOK
  <2>3. \A r \in Routes : routes'[r] = routes[r] \/ (r = o.id /\ routes'[r] = o.name)
    BY <1>2 DEF UpsertRoute, TypeInv, TypeOK
  <2>4. \A x \in fresh' : x \in fresh \/ (x = o /\ routes'[o.id] = o.name)
    BY <1>2, <2>1 DEF UpsertRoute, TypeInv, TypeOK
  <2>5. \A x \in fresh : x.id \in Routes /\ x.name # None
    BY ConstantsAssumption DEF ConstantsAssumption, TypeInv, TypeOK
  <2> QED
    BY <2>1, <2>2, <2>3, <2>4, <2>5 DEF NamesKept
<1>3. \/ UNCHANGED routes /\ fresh' \subseteq fresh
      \/ \E o \in Offers : UpsertRoute(o)
  BY DEF Next, Living, Environment, Polling, Handling, Alerting, vars, db, locals, RunOnce,
         UpsertsDone, GetAllActiveWatches, CreateWatch, ReadForEdit, UpdateWatch,
         DeleteWatch, ScanWatch, HasBeenNotified, NextHit, MarkNotified, Send,
         Hang, DeactivateWatch, Crash, NoWork
<1> QED
  BY <1>1, <1>2, <1>3

\* What was owed before the step and was in hand is found in the same place
\* when the step leaves that place alone.
LEMMA HandKept ==
  ASSUME NEW i \in WatchIds, NEW r \in Routes, InHand(i, r),
         InNewRoutes(r) => InHand(i, r)',
         \A q \in Requests : InScan(q, i) => InHand(i, r)',
         \A p \in Workers : InLoop(p, i, r) => InHand(i, r)'
  PROVE  InHand(i, r)'
  BY DEF InHand

\* As long as the process lives, a step hands on what is owed, or settles it.
LEMMA HandStep ==
  ASSUME Steady, TypeInv, NamesKept, [Living]_vars, NEW i \in WatchIds, NEW r \in Routes,
         Owed(i, r) => InHand(i, r), Owed(i, r)'
  PROVE  InHand(i, r)'
<1> DEFINE OwedBefore == Owed(i, r) /\ InHand(i, r)
<1>0. Fetcher \in Workers /\ Requests \subseteq Workers /\ Fetcher \notin Requests
  BY ConstantsAssumption DEF ConstantsAssumption, Workers
<1>a. Owed(i, r) => OwedBefore
  OBVIOUS
<1>b. ASSUME UNCHANGED <<routes, watches, notified>> PROVE OwedBefore
  BY <1>a, <1>b DEF Owed, StoredRoutes, Match
<1>1. CASE RunOnce
  <2>1. OwedBefore
    BY <1>1, <1>b DEF RunOnce, db
  <2>2. /\ pc[Fetcher] = "idle" /\ \A x \in Workers \ {Fetcher} : pc'[x] = pc[x]
        /\ UNCHANGED <<watches, form, todo, hits, cur, toMark>>
    BY <1>1 DEF RunOnce, db, TypeInv, TypeOK
  <2> QED
    BY <2>1, <2>2, <1>0 DEF InHand, InNewRoutes, InScan, InLoop
<1>2. ASSUME NEW o \in Offers, UpsertRoute(o) PROVE InHand(i, r)'
  <2>1. /\ pc[Fetcher] = "upsert" /\ fresh \subseteq fresh'
        /\ UNCHANGED <<pc, watches, notified, form, todo, hits, cur, toMark>>
    BY <1>2 DEF UpsertRoute
  <2>2. CASE r = o.id /\ routes[r] = None
    <3>1. o \in fresh'
      BY <1>2, <2>2 DEF UpsertRoute, TypeInv, TypeOK, Owed, StoredRoutes
    <3> QED
      BY <2>1, <2>2, <3>1 DEF InHand, InNewRoutes
  <2>3. CASE ~(r = o.id /\ routes[r] = None)
    <3>1. routes'[r] = routes[r]
      BY <1>2, <2>3, LivingOrCrash, NamesStep DEF UpsertRoute, TypeInv, TypeOK
    <3>2. OwedBefore
      BY <1>a, <2>1, <3>1 DEF Owed, StoredRoutes, Match
    <3> QED
      BY <2>1, <3>2 DEF InHand, InNewRoutes, InScan, InLoop
  <2> QED
    BY <2>2, <2>3
<1>3. CASE UpsertsDone
  <2>1. OwedBefore
    BY <1>3, <1>b DEF UpsertsDone, db
  <2>2. /\ pc[Fetcher] = "upsert" /\ \A x \in Workers \ {Fetcher} : pc'[x] = pc[x]
        /\ fresh # {} => pc'[Fetcher] = "load"
        /\ UNCHANGED <<watches, fresh, form, todo, hits, cur, toMark>>
    BY <1>0, <1>3 DEF UpsertsDone, db, TypeInv, TypeOK
  <2> QED
    BY <2>1, <2>2, <1>0 DEF InHand, InNewRoutes, InScan, InLoop
<1>4. CASE GetAllActiveWatches
  <2>1. OwedBefore
    BY <1>4, <1>b DEF GetAllActiveWatches, db
  <2>2. /\ pc[Fetcher] = "load"
        /\ UNCHANGED <<watches, form, hits, cur, toMark>>
        /\ pc' = [pc EXCEPT ![Fetcher] = "check"]
        /\ todo' = [todo EXCEPT ![Fetcher] =
             {h \in ActiveSnapshots \X Routes :
                \E o \in fresh : /\ o.id = h[2]
                                 /\ <<o.name, watches[h[1].id].crit>> \in Matches}]
    BY <1>4 DEF GetAllActiveWatches, Steady, MayFail, db
  <2>3. CASE InNewRoutes(r)
    <3> DEFINE s == [id |-> i, oneTime |-> watches[i].oneTime]
    <3>1. watches[i] \in WatchRows /\ watches[i] # None /\ watches[i].active
      BY <2>1 DEF Owed, TypeInv, TypeOK
    <3>2. s \in ActiveSnapshots /\ s \in Snapshots /\ s.id = i
      BY <3>1 DEF WatchRows, ActiveSnapshots, Snapshots
    <3>3. PICK o \in fresh : o.id = r
      BY <2>3 DEF InNewRoutes
    <3>4. <<o.name, watches[i].crit>> \in Matches
      BY <2>1, <3>3 DEF NamesKept, Owed, Match
    <3>5. <<s, r>> \in todo'[Fetcher]
      BY <1>0, <2>2, <3>2, <3>3, <3>4 DEF TypeInv, TypeOK
    <3>6. pc'[Fetcher] = "check"
      BY <1>0, <2>2 DEF TypeInv, TypeOK
    <3> QED
      BY <1>0, <3>2, <3>5, <3>6 DEF InHand, InLoop
  <2>4. \A x \in Workers \ {Fetcher} : pc'[x] = pc[x] /\ todo'[x] = todo[x]
    BY <2>2 DEF TypeInv, TypeOK
  <2>5. \A q \in Requests : InScan(q, i) => InHand(i, r)'
    BY <1>0, <2>2, <2>4 DEF InScan, InHand
  <2>6. \A p \in Workers : InLoop(p, i, r) => InHand(i, r)'
    BY <1>0, <2>2, <2>4 DEF InLoop, InHand
  <2> QED
    BY <2>1, <2>3, <2>5, <2>6, HandKept
<1>5. ASSUME NEW q \in Requests, NEW j \in WatchIds, NEW c \in Criteria,
             NEW once \in BOOLEAN, CreateWatch(q, j, c, once)
      PROVE InHand(i, r)'
  <2>1. CASE i = j
    BY <1>0, <1>5, <2>1 DEF CreateWatch, TypeInv, TypeOK, InHand, InScan
  <2>2. CASE i # j
    <3>1. watches'[i] = watches[i] /\ UNCHANGED <<routes, notified>>
      BY <1>5, <2>2 DEF CreateWatch, TypeInv, TypeOK
    <3>2. OwedBefore
      BY <1>a, <3>1 DEF Owed, StoredRoutes, Match
    <3>3. /\ pc[q] = "idle" /\ UNCHANGED <<fresh, todo, hits, cur, toMark>>
          /\ \A x \in Workers \ {q} : pc'[x] = pc[x]
          /\ \A x \in Requests \ {q} : form'[x] = form[x]
      BY <1>5 DEF CreateWatch, TypeInv, TypeOK
    <3> QED
      BY <1>0, <3>1, <3>2, <3>3 DEF InHand, InNewRoutes, InScan, InLoop
  <2> QED
    BY <2>1, <2>2
<1>6. ASSUME NEW q \in Requests, NEW j \in WatchIds, NEW c \in Criteria,
             NEW once \in BOOLEAN, ReadForEdit(q, j, c, once)
      PROVE InHand(i, r)'
  <2>1. OwedBefore
    BY <1>6, <1>b DEF ReadForEdit, db
  <2>2. /\ pc[q] = "idle" /\ UNCHANGED <<watches, fresh, todo, hits, cur, toMark>>
        /\ \A x \in Workers \ {q} : pc'[x] = pc[x]
        /\ \A x \in Requests \ {q} : form'[x] = form[x]
    BY <1>6 DEF ReadForEdit, TypeInv, TypeOK, db
  <2> QED
    BY <1>0, <2>1, <2>2 DEF InHand, InNewRoutes, InScan, InLoop
<1>7. ASSUME NEW q \in Requests, UpdateWatch(q) PROVE InHand(i, r)'
  <2>1. /\ pc[q] = "edit" /\ form[q] \in Forms
        /\ UNCHANGED <<routes, notified, fresh, todo, hits, cur, toMark>>
        /\ \A x \in Workers \ {q} : pc'[x] = pc[x]
        /\ \A x \in Requests \ {q} : form'[x] = form[x]
    BY <1>7 DEF UpdateWatch, TypeInv, TypeOK, Control
  <2>2. CASE watches'[i] = watches[i]
    <3>1. OwedBefore
      BY <1>a, <2>1, <2>2 DEF Owed, StoredRoutes, Match
    <3> QED
      BY <1>0, <2>1, <2>2, <3>1 DEF InHand, InNewRoutes, InScan, InLoop
  <2>3. CASE watches'[i] # watches[i]
    <3>1. /\ form[q].id = i /\ UNCHANGED form /\ pc'[q] = "scan"
          /\ watches'[i] = None \/ watches'[i].crit = form[q].crit
      BY <1>0, <1>7, <2>1, <2>3 DEF UpdateWatch, TypeInv, TypeOK, Forms
    <3> QED
      BY <3>1 DEF Owed, InHand, InScan
  <2> QED
    BY <2>2, <2>3
<1>8. ASSUME NEW j \in WatchIds, DeleteWatch(j) PROVE InHand(i, r)'
  <2>1. UNCHANGED <<routes, notified, pc, fresh, form, todo, hits, cur, toMark>>
    BY <1>8 DEF DeleteWatch, locals
  <2>2. watches'[i] = watches[i]
    BY <1>8 DEF DeleteWatch, TypeInv, TypeOK, Owed
  <2>3. OwedBefore
    BY <1>a, <2>1, <2>2 DEF Owed, StoredRoutes, Match
  <2> QED
    BY <2>1, <2>2, <2>3 DEF InHand, InNewRoutes, InScan, InLoop
<1>9. ASSUME NEW q \in Requests, ScanWatch(q) PROVE InHand(i, r)'
  <2>1. OwedBefore
    BY <1>9, <1>b DEF ScanWatch, db
  <2>2. /\ pc[q] = "scan" /\ form[q] \in Forms
        /\ UNCHANGED <<watches, fresh, hits, cur, toMark>>
        /\ \A x \in Workers \ {q} : pc'[x] = pc[x] /\ todo'[x] = todo[x]
        /\ \A x \in Requests \ {q} : form'[x] = form[x]
    BY <1>9 DEF ScanWatch, TypeInv, TypeOK, Control, db
  <2>3. CASE InScan(q, i)
    <3> DEFINE s == [id |-> form[q].id, oneTime |-> form[q].oneTime]
    <3>1. s \in Snapshots /\ s.id = i
      BY <2>2, <2>3 DEF InScan, Forms, Snapshots
    <3>2. pc' = [pc EXCEPT ![q] = "check"]
          /\ todo' = [todo EXCEPT ![q] = {s} \X {t \in StoredRoutes : Match(t, form[q].crit)}]
      BY <1>9, ScanReadsAll DEF ScanWatch, Steady, MayFail
    <3>3. r \in {t \in StoredRoutes : Match(t, form[q].crit)}
      BY <2>1, <2>3 DEF Owed, InScan
    <3>4. pc'[q] = "check" /\ <<s, r>> \in todo'[q]
      BY <1>0, <3>2, <3>3 DEF TypeInv, TypeOK
    <3> QED
      BY <1>0, <3>1, <3>4 DEF InHand, InLoop
  <2>4. InNewRoutes(r) => InHand(i, r)'
    BY <1>0, <2>2 DEF InNewRoutes, InHand
  <2>5. \A x \in Requests \ {q} : InScan(x, i) => InHand(i, r)'
    BY <1>0, <2>2 DEF InScan, InHand
  <2>6. \A p \in Workers : InLoop(p, i, r) => InHand(i, r)'
    BY <1>0, <2>2 DEF InLoop, InHand
  <2> QED
    BY <2>1, <2>3, <2>4, <2>5, <2>6, HandKept
<1>10. ASSUME NEW p \in Workers, NEW s \in Snapshots, NEW t \in Routes,
              HasBeenNotified(p, s, t)
       PROVE InHand(i, r)'
  <2>1. OwedBefore
    BY <1>10, <1>b DEF HasBeenNotified, db
  <2>2. /\ pc[p] = "check" /\ UNCHANGED <<pc, watches, notified, fresh, form, cur, toMark>>
        /\ \A x \in Workers \ {p} : todo'[x] = todo[x] /\ hits'[x] = hits[x]
        /\ todo'[p] = todo[p] \ {<<s, t>>}
        /\ hits[p] \subseteq hits'[p]
        /\ <<Owner[s.id], t>> \notin notified => <<s, t>> \in hits'[p]
    BY <1>10 DEF HasBeenNotified, TypeInv, TypeOK, Steady, MayFail, db
  <2>3. CASE InLoop(p, i, r)
    <3>1. PICK z \in Snapshots : z.id = i /\ (<<z, r>> \in todo[p] \/ <<z, r>> \in hits[p])
      BY <2>3 DEF InLoop
    <3>2. <<z, r>> \in todo'[p] \/ <<z, r>> \in hits'[p]
      BY <2>1, <2>2, <3>1 DEF Owed
    <3> QED
      BY <2>2, <3>1, <3>2 DEF InHand, InLoop
  <2>4. InNewRoutes(r) => InHand(i, r)'
    BY <2>2 DEF InNewRoutes, InHand
  <2>5. \A q \in Requests : InScan(q, i) => InHand(i, r)'
    BY <2>2 DEF InScan, InHand
  <2>6. \A x \in Workers \ {p} : InLoop(x, i, r) => InHand(i, r)'
    BY <2>2 DEF InLoop, InHand
  <2> QED
    BY <2>1, <2>3, <2>4, <2>5, <2>6, HandKept
<1>11. ASSUME NEW p \in Workers, NextHit(p) PROVE InHand(i, r)'
  <2>1. OwedBefore
    BY <1>11, <1>b DEF NextHit, db
  <2>2. /\ pc[p] = "check" /\ todo[p] = {}
        /\ UNCHANGED <<watches, fresh, form, todo, hits>>
        /\ \A x \in Workers \ {p} : pc'[x] = pc[x] /\ cur'[x] = cur[x] /\ toMark'[x] = toMark[x]
    BY <1>11 DEF NextHit, TypeInv, TypeOK, db
  <2>3. CASE InLoop(p, i, r)
    <3>1. PICK z \in Snapshots : z.id = i /\ <<z, r>> \in hits[p]
      BY <2>2, <2>3 DEF InLoop
    <3>2. pc'[p] = "mark" /\ (cur'[p] = z => r \in toMark'[p])
      BY <1>11, <3>1 DEF NextHit, HitRoutes, TypeInv, TypeOK
    <3> QED
      BY <2>2, <3>1, <3>2 DEF InHand, InLoop
  <2>4. InNewRoutes(r) => InHand(i, r)'
    BY <1>0, <2>2 DEF InNewRoutes, InHand
  <2>5. \A q \in Requests : InScan(q, i) => InHand(i, r)'
    BY <1>0, <2>2 DEF InScan, InHand
  <2>6. \A x \in Workers \ {p} : InLoop(x, i, r) => InHand(i, r)'
    <3> SUFFICES ASSUME NEW x \in Workers \ {p}, InLoop(x, i, r) PROVE InLoop(x, i, r)'
      BY DEF InHand
    <3>1. PICK s \in Snapshots :
            /\ s.id = i
            /\ \/ <<s, r>> \in todo[x]
               \/ <<s, r>> \in hits[x] /\ (pc[x] = "mark" /\ cur[x] = s => r \in toMark[x])
      BY DEF InLoop
    <3> QED
      BY <2>2, <3>1 DEF InLoop
  <2> QED
    BY <2>1, <2>3, <2>4, <2>5, <2>6, HandKept
<1>12. ASSUME NEW p \in Workers, NEW t \in Routes, MarkNotified(p, t) PROVE InHand(i, r)'
  <2>1. /\ pc[p] = "mark" /\ UNCHANGED <<routes, watches, pc, fresh, form, todo, hits, cur>>
        /\ notified' = notified \cup {<<Owner[cur[p].id], t>>}
        /\ toMark'[p] = toMark[p] \ {t}
        /\ \A x \in Workers \ {p} : toMark'[x] = toMark[x]
    BY <1>12 DEF MarkNotified, TypeInv, TypeOK, Steady, MayFail
  <2>2. OwedBefore
    BY <1>a, <2>1 DEF Owed, StoredRoutes, Match
  <2>3. CASE InLoop(p, i, r)
    <3>1. PICK z \in Snapshots : /\ z.id = i
                                 /\ \/ <<z, r>> \in todo[p]
                                    \/ <<z, r>> \in hits[p] /\ (cur[p] = z => r \in toMark[p])
      BY <2>1, <2>3 DEF InLoop
    <3>2. cur[p] = z => r # t
      BY <2>1, <3>1 DEF Owed
    <3> QED
      BY <2>1, <3>1, <3>2 DEF InHand, InLoop
  <2>4. InNewRoutes(r) => InHand(i, r)'
    BY <2>1 DEF InNewRoutes, InHand
  <2>5. \A q \in Requests : InScan(q, i) => InHand(i, r)'
    BY <2>1 DEF InScan, InHand
  <2>6. \A x \in Workers \ {p} : InLoop(x, i, r) => InHand(i, r)'
    BY <2>1 DEF InLoop, InHand
  <2> QED
    BY <2>2, <2>3, <2>4, <2>5, <2>6, HandKept
<1>13. ASSUME NEW p \in Workers, Send(p) PROVE InHand(i, r)'
  <2>1. OwedBefore
    BY <1>13, <1>b DEF Send, db
  <2>2. /\ pc[p] = "mark" /\ toMark[p] = {} /\ pc'[p] \in {"check", "deactivate"}
        /\ UNCHANGED <<watches, fresh, form, todo>>
        /\ hits'[p] = {h \in hits[p] : h[1] # cur[p]}
        /\ \A x \in Workers \ {p} : /\ pc'[x] = pc[x] /\ cur'[x] = cur[x]
                                     /\ hits'[x] = hits[x] /\ toMark'[x] = toMark[x]
    BY <1>13 DEF Send, TypeInv, TypeOK, db
  <2>3. CASE InLoop(p, i, r)
    <3>1. PICK z \in Snapshots : /\ z.id = i
                                 /\ \/ <<z, r>> \in todo[p]
                                    \/ <<z, r>> \in hits[p] /\ cur[p] # z
      BY <2>2, <2>3 DEF InLoop
    <3> QED
      BY <2>2, <3>1 DEF InHand, InLoop
  <2>4. InNewRoutes(r) => InHand(i, r)'
    BY <1>0, <2>2 DEF InNewRoutes, InHand
  <2>5. \A q \in Requests : InScan(q, i) => InHand(i, r)'
    BY <1>0, <2>2 DEF InScan, InHand
  <2>6. \A x \in Workers \ {p} : InLoop(x, i, r) => InHand(i, r)'
    <3> SUFFICES ASSUME NEW x \in Workers \ {p}, InLoop(x, i, r) PROVE InLoop(x, i, r)'
      BY DEF InHand
    <3>1. PICK s \in Snapshots :
            /\ s.id = i
            /\ \/ <<s, r>> \in todo[x]
               \/ <<s, r>> \in hits[x] /\ (pc[x] = "mark" /\ cur[x] = s => r \in toMark[x])
      BY DEF InLoop
    <3> QED
      BY <2>2, <3>1 DEF InLoop
  <2> QED
    BY <2>1, <2>3, <2>4, <2>5, <2>6, HandKept
<1>14. CASE DeactivateWatch
  <2>1. /\ UNCHANGED <<routes, notified, fresh, form, todo, hits, toMark>>
        /\ pc[Fetcher] = "deactivate" /\ pc'[Fetcher] = "check"
        /\ \A x \in Workers \ {Fetcher} : pc'[x] = pc[x] /\ cur'[x] = cur[x]
    BY <1>0, <1>14 DEF DeactivateWatch, TypeInv, TypeOK
  <2>2. watches'[i] = watches[i]
    <3>1. CASE UNCHANGED watches
      BY <3>1
    <3>2. CASE watches' = [watches EXCEPT ![cur[Fetcher].id] =
                 IF @ = None THEN None ELSE [@ EXCEPT !.active = FALSE]]
      <4>1. watches[i] # None => watches[i] \in WatchRows
        BY DEF TypeInv, TypeOK
      <4>2. \A row \in WatchRows : ~[row EXCEPT !.active = FALSE].active
        BY DEF WatchRows
      <4> QED
        BY <3>2, <4>1, <4>2 DEF TypeInv, TypeOK, Owed
    <3> QED
      BY <1>14, <3>1, <3>2 DEF DeactivateWatch
  <2>3. OwedBefore
    BY <1>a, <2>1, <2>2 DEF Owed, StoredRoutes, Match
  <2> QED
    BY <1>0, <2>1, <2>2, <2>3 DEF InHand, InNewRoutes, InScan, InLoop
<1>15. CASE UNCHANGED vars
  BY <1>15, <1>b DEF vars, InHand, InNewRoutes, InScan, InLoop
<1>16. ASSUME NEW p \in Workers, Hang(p) PROVE InHand(i, r)'
  <2>1. OwedBefore
    BY <1>16, <1>b DEF Hang, db
  <2>2. /\ pc[p] = "mark" /\ pc'[p] = "hung" /\ toMark[p] = {}
        /\ \A x \in Workers \ {p} : pc'[x] = pc[x]
        /\ UNCHANGED <<watches, fresh, form, todo, hits, cur, toMark>>
    BY <1>16 DEF Hang, db, TypeInv, TypeOK
  <2> QED
    BY <1>0, <2>1, <2>2 DEF InHand, InNewRoutes, InScan, InLoop
<1> QED
  BY <1>1, <1>2, <1>3, <1>4, <1>5, <1>6, <1>7, <1>8, <1>9, <1>10, <1>11, <1>12,
     <1>13, <1>14, <1>15, <1>16
  DEF Living, Environment, Polling, Handling, Alerting

\* A route that an active watch is owed is always in a goroutine's hands
\* (OwedIsInHand) while the process lives: no interleaving of scan, poller and
\* edits drops it.
THEOREM OwedRoutesAreHeld ==
  ASSUME Steady
  PROVE  LifeSpec => []OwedIsInHand
<1>1. TypeInv /\ NoneOwed /\ [Living]_vars => TypeInv' /\ NoneOwed'
  <2> SUFFICES ASSUME TypeInv, NoneOwed, [Living]_vars PROVE TypeInv' /\ NoneOwed'
    OBVIOUS
  <2>0. [Next]_vars
    BY LivingOrCrash
  <2>1. TypeInv'
    BY <2>0, TypeStep
  <2>2. NamesKept'
    BY <2>0, NamesStep DEF NoneOwed
  <2>3. OwedIsInHand'
    BY HandStep DEF OwedIsInHand, NoneOwed
  <2> QED
    BY <2>1, <2>2, <2>3 DEF NoneOwed
<1>2. Init => TypeInv /\ NoneOwed
  BY TypeInit, NoneOwedInit
<1> QED
  BY <1>1, <1>2, PTL DEF LifeSpec, NoneOwed

\* Hence when nothing runs, every cached route that matches an active watch has
\* been announced to its owner (NoMissedRoute).
THEOREM NothingIsMissed ==
  ASSUME Steady
  PROVE  LifeSpec => []NoMissedRoute
<1>1. OwedIsInHand => NoMissedRoute
  BY ConstantsAssumption
  DEF ConstantsAssumption, OwedIsInHand, NoMissedRoute, Quiescent, InHand,
      InNewRoutes, InScan, InLoop, Workers
<1> QED
  BY <1>1, OwedRoutesAreHeld, PTL

-----------------------------------------------------------------------------
(* One-time watches                                                        *)

\* Nobody edits a watch, and every DeactivateWatch succeeds.
Undisturbed == "edit" \notin Ops /\ "DeactivateWatch" \notin Faults

\* A one-time watch the poller has alerted is inactive, or about to be, and the
\* poller holds no other hit of it; ids are not reused.
Spent ==
  /\ \A q \in Requests : pc[q] # "edit"
  /\ \A i \in WatchIds : watches[i] # None => i \in issued
  /\ \A h \in Held : h[1].id \in issued
  /\ pc[Fetcher] = "mark" => cur[Fetcher].id \in issued
  /\ \A a \in log : a.by = Fetcher /\ a.oneTime =>
       /\ a.id \in issued
       /\ watches[a.id] # None /\ watches[a.id].active
            => pc[Fetcher] = "deactivate" /\ cur[Fetcher].id = a.id
       /\ \A h \in Held : h[1].id # a.id
       /\ pc[Fetcher] = "mark" => cur[Fetcher].id # a.id
  /\ OneTimePolledOnce

\* It holds initially.
LEMMA SpentInit == Init => Spent
  BY DEF Init, NoWork, Spent, Held, Workers, OneTimePolledOnce

\* No step alerts a one-time watch that the poller alerted before.
LEMMA SpentStep ==
  ASSUME Undisturbed, TypeInv, PolledOnce, Spent, [Living]_vars
  PROVE  Spent'
<1> USE DEF Held
<1>0. Fetcher \in Workers /\ Requests \subseteq Workers /\ Fetcher \notin Requests
  BY ConstantsAssumption DEF ConstantsAssumption, Workers
<1>a. \A a \in log : a.id \in WatchIds
  BY DEF TypeInv, TypeOK, Alerts
<1>1. CASE RunOnce \/ UpsertsDone \/ \E o \in Offers : UpsertRoute(o)
  BY <1>0, <1>1 DEF TypeInv, TypeOK, Spent, OneTimePolledOnce, RunOnce, UpsertsDone,
     UpsertRoute, db
<1>2. CASE GetAllActiveWatches
  <2>1. /\ UNCHANGED <<watches, issued, cur, log, hits>>
        /\ pc[Fetcher] = "load" /\ hits[Fetcher] = {} /\ todo[Fetcher] = {}
        /\ pc'[Fetcher] \in {"check", "idle"}
        /\ \A q \in Requests : pc'[q] = pc[q]
    BY <1>0, <1>2 DEF TypeInv, TypeOK, PolledOnce, GetAllActiveWatches, db
  <2>2. \A h \in todo'[Fetcher] : h[1] \in ActiveSnapshots
    <3>1. CASE UNCHANGED todo
      BY <2>1, <3>1
    <3>2. CASE todo' = [todo EXCEPT ![Fetcher] =
                 {h \in ActiveSnapshots \X Routes :
                    \E o \in fresh : /\ o.id = h[2]
                                     /\ <<o.name, watches[h[1].id].crit>> \in Matches}]
      BY <1>0, <3>2 DEF TypeInv, TypeOK
    <3> QED
      BY <1>2, <3>1, <3>2 DEF GetAllActiveWatches
  <2>3. \A s \in ActiveSnapshots : /\ s.id \in WatchIds
                                   /\ watches[s.id] # None /\ watches[s.id].active
    BY DEF ActiveSnapshots, Snapshots
  <2> QED
    BY <2>1, <2>2, <2>3 DEF Spent, OneTimePolledOnce
<1>3. ASSUME NEW q \in Requests, NEW i \in WatchIds, NEW c \in Criteria,
             NEW once \in BOOLEAN, CreateWatch(q, i, c, once)
      PROVE Spent'
  <2>1. /\ i \notin issued /\ issued' = issued \cup {i}
        /\ \A j \in WatchIds \ {i} : watches'[j] = watches[j]
        /\ UNCHANGED <<cur, log, hits, todo>>
        /\ pc'[q] = "scan" /\ \A x \in Workers \ {q} : pc'[x] = pc[x]
    BY <1>0, <1>3 DEF TypeInv, TypeOK, CreateWatch
  <2> QED
    BY <1>0, <1>a, <2>1 DEF Spent, OneTimePolledOnce
<1>4. ASSUME NEW i \in WatchIds, DeleteWatch(i) PROVE Spent'
  BY <1>a, <1>4 DEF TypeInv, TypeOK, Spent, OneTimePolledOnce, DeleteWatch, locals
<1>5. ASSUME NEW q \in Requests, ScanWatch(q) \/ Hang(q) \/ NextHit(q) PROVE Spent'
  <2>1. /\ UNCHANGED <<watches, issued, log, hits>>
        /\ todo'[Fetcher] = todo[Fetcher] /\ cur'[Fetcher] = cur[Fetcher]
        /\ pc'[q] # "edit" /\ \A x \in Workers \ {q} : pc'[x] = pc[x]
    BY <1>0, <1>5 DEF TypeInv, TypeOK, ScanWatch, Hang, NextHit, db
  <2> QED
    BY <1>0, <2>1 DEF Spent, OneTimePolledOnce
<1>6. ASSUME NEW p \in Workers, NEW s \in Snapshots, NEW r \in Routes,
             HasBeenNotified(p, s, r)
      PROVE Spent'
  <2>1. /\ UNCHANGED <<watches, issued, pc, cur, log>> /\ Held' \subseteq Held
    BY <1>0, <1>6 DEF TypeInv, TypeOK, HasBeenNotified, db
  <2> QED
    BY <2>1 DEF Spent, OneTimePolledOnce
<1>7. CASE NextHit(Fetcher)
  <2>1. /\ UNCHANGED <<watches, issued, log, todo, hits>> /\ pc[Fetcher] = "check"
        /\ \A q \in Requests : pc'[q] = pc[q]
    BY <1>0, <1>7 DEF TypeInv, TypeOK, NextHit, db
  <2>2. CASE pc' = [pc EXCEPT ![Fetcher] = "idle"]
    BY <1>0, <2>1, <2>2 DEF TypeInv, TypeOK, Spent, OneTimePolledOnce
  <2>3. ASSUME NEW s \in Snapshots, HitRoutes(Fetcher, s) # {}, cur' = [cur EXCEPT ![Fetcher] = s]
        PROVE Spent'
    <3>1. cur'[Fetcher] = s
      BY <1>0, <2>3 DEF TypeInv, TypeOK
    <3>2. PICK r \in Routes : <<s, r>> \in Held
      BY <2>3 DEF HitRoutes
    <3> QED
      BY <2>1, <3>1, <3>2 DEF Spent, OneTimePolledOnce
  <2> QED
    BY <1>7, <2>2, <2>3 DEF NextHit
<1>8. ASSUME NEW p \in Workers, NEW r \in Routes, MarkNotified(p, r) PROVE Spent'
  BY <1>8 DEF Spent, OneTimePolledOnce, MarkNotified
<1>9. ASSUME NEW q \in Requests, Send(q) PROVE Spent'
  <2>1. /\ UNCHANGED <<watches, issued>>
        /\ todo'[Fetcher] = todo[Fetcher] /\ hits'[Fetcher] = hits[Fetcher]
        /\ cur'[Fetcher] = cur[Fetcher]
        /\ pc'[q] # "edit" /\ \A x \in Workers \ {q} : pc'[x] = pc[x]
    BY <1>0, <1>9 DEF TypeInv, TypeOK, Send, db
  <2>2. \A a \in log' : a.by = Fetcher => a \in log
    BY <1>0, <1>9 DEF Send
  <2> QED
    BY <1>0, <2>1, <2>2 DEF Spent, OneTimePolledOnce
<1>10. CASE Send(Fetcher)
  <2> DEFINE new == [by |-> Fetcher, id |-> cur[Fetcher].id, oneTime |-> cur[Fetcher].oneTime,
                     routes |-> HitRoutes(Fetcher, cur[Fetcher])]
  <2>1. /\ UNCHANGED <<watches, issued, todo>> /\ pc[Fetcher] = "mark" /\ todo[Fetcher] = {}
        /\ hits'[Fetcher] = {h \in hits[Fetcher] : h[1] # cur[Fetcher]}
        /\ log' = log \cup {new}
        /\ \A q \in Requests : pc'[q] = pc[q]
        /\ cur[Fetcher].oneTime => pc'[Fetcher] = "deactivate" /\ cur'[Fetcher] = cur[Fetcher]
        /\ pc'[Fetcher] # "mark"
    BY <1>0, <1>10 DEF TypeInv, TypeOK, PolledOnce, Send, db
  <2>2. \A h \in hits'[Fetcher] : h[1].id # cur[Fetcher].id /\ h \in Held
    BY <2>1 DEF PolledOnce
  <2>3. \A a \in log : a.by = Fetcher /\ a.oneTime =>
          /\ a.id # cur[Fetcher].id
          /\ watches[a.id] = None \/ ~watches[a.id].active
    BY <2>1 DEF Spent
  <2>4. OneTimePolledOnce'
    BY <2>1, <2>3 DEF Spent, OneTimePolledOnce
  <2>5. cur[Fetcher].id \in issued
    BY <2>1 DEF Spent
  <2>6. ASSUME NEW a \in log', a.by = Fetcher, a.oneTime
        PROVE  /\ a.id \in issued'
               /\ watches'[a.id] # None /\ watches'[a.id].active
                    => pc'[Fetcher] = "deactivate" /\ cur'[Fetcher].id = a.id
               /\ \A h \in Held' : h[1].id # a.id
    <3>1. CASE a \in log
      BY <2>1, <2>2, <2>3, <2>6, <3>1 DEF Spent
    <3>2. CASE a = new
      BY <2>1, <2>2, <2>5, <2>6, <3>2
    <3> QED
      BY <2>1, <3>1, <3>2
  <2> QED
    BY <2>1, <2>2, <2>4, <2>6 DEF Spent
<1>11. CASE Hang(Fetcher)
  BY <1>0, <1>11 DEF TypeInv, TypeOK, Spent, OneTimePolledOnce, Hang, db
<1>12. CASE DeactivateWatch
  <2>1. /\ UNCHANGED <<issued, todo, hits, log>> /\ pc[Fetcher] = "deactivate"
        /\ pc'[Fetcher] = "check" /\ \A q \in Requests : pc'[q] = pc[q]
        /\ cur[Fetcher] \in Snapshots /\ cur[Fetcher].id \in WatchIds
        /\ watches' = [watches EXCEPT ![cur[Fetcher].id] =
                         IF @ = None THEN None ELSE [@ EXCEPT !.active = FALSE]]
    BY <1>0, <1>12 DEF TypeInv, TypeOK, Control, Snapshots, DeactivateWatch, Undisturbed, MayFail
  <2>2. \A i \in WatchIds : watches[i] # None => watches[i] \in WatchRows
    BY DEF TypeInv, TypeOK
  <2>3. \A row \in WatchRows : ~[row EXCEPT !.active = FALSE].active
    BY DEF WatchRows
  <2>4. /\ watches'[cur[Fetcher].id] # None => ~watches'[cur[Fetcher].id].active
        /\ \A i \in WatchIds : watches'[i] # None => watches[i] # None
        /\ \A i \in WatchIds \ {cur[Fetcher].id} : watches'[i] = watches[i]
    BY <2>1, <2>2, <2>3 DEF TypeInv, TypeOK
  <2> QED
    BY <1>a, <2>1, <2>4 DEF Spent, OneTimePolledOnce
<1>13. CASE UNCHANGED vars
  BY <1>13 DEF Spent, OneTimePolledOnce, vars
<1>14. /\ \A q \in Requests : ~UpdateWatch(q)
       /\ \A q \in Requests, i \in WatchIds, c \in Criteria, once \in BOOLEAN :
            ~ReadForEdit(q, i, c, once)
  BY DEF UpdateWatch, ReadForEdit, Undisturbed, MayFail, Spent
<1> QED
  BY <1>1, <1>2, <1>3, <1>4, <1>5, <1>6, <1>7, <1>8, <1>9, <1>10, <1>11, <1>12,
     <1>13, <1>14
  DEF Living, Environment, Polling, Handling, Alerting, Workers

\* The poller alerts a one-time watch once in its life as long as nobody edits
\* it, however scans and deletions interleave (OneTimePolledOnce).
THEOREM OneTimeIsPolledOnce ==
  ASSUME Undisturbed
  PROVE  LifeSpec => []OneTimePolledOnce
<1>1. TypeInv /\ PolledOnce /\ Spent /\ [Living]_vars
        => TypeInv' /\ PolledOnce' /\ Spent'
  BY LivingOrCrash, TypeStep, PolledStep, SpentStep
<1>2. Init => TypeInv /\ PolledOnce /\ Spent
  BY TypeInit, PolledInit, SpentInit
<1>3. Spent => OneTimePolledOnce
  BY DEF Spent
<1> QED
  BY <1>1, <1>2, <1>3, PTL DEF LifeSpec
-----------------------------------------------------------------------------
(* From the listing to the alert                                           *)

LP == INSTANCE PollerProofs WITH
        Faults <- APIFaults \cup (Faults \cap {"UpsertRoute", "Crash"}),
        stored <- StoredRoutes,
        pc     <- at

\* Its constants meet the assumption of the polling loop.
LEMMA LoopAssumed == LP!PollerAssumption
  BY PipelineAssumption DEF PipelineAssumption, LP!PollerAssumption

\* A step of the whole is a step of the pipeline, and only Restart interrupts.
LEMMA PipelineStep ==
  ASSUME [PipelineNext]_all
  PROVE  [Next]_vars /\ (Restart \/ ([Living]_vars /\ UNCHANGED interrupted))
<1>1. Restart => Crash
  BY DEF Restart
<1>2. Restart \/ ([Living]_vars /\ UNCHANGED interrupted)
  <2>0. Requests \subseteq Workers /\ Fetcher \in Workers
    BY DEF Workers
  <2>1. CASE Request \/ Fail \/ Wait \/ Return \/ Relist \/ UNCHANGED all
    BY <2>1 DEF Request, Fail, Wait, Return, Relist, all
  <2>2. CASE Parse \/ Store
    BY <2>2 DEF Parse, Store, Living, Environment, Polling
  <2>3. CASE Notify
    BY <2>0, <2>3 DEF Notify, Living, Polling
  <2>4. ASSUME NEW q \in Requests, Serve(q) PROVE Living /\ UNCHANGED interrupted
    BY <2>0, <2>4 DEF Serve, Living
  <2>5. CASE Browse
    BY <2>5 DEF Browse, Living, Environment
  <2> QED
    BY <2>1, <2>2, <2>3, <2>4, <2>5 DEF PipelineNext
<1> QED
  BY <1>1, <1>2, LivingOrCrash

\* Whatever the process does is what WatchAlerts does, or nothing to the tables:
\* the loop, its backoff and its restarts hide nothing from the pipeline.
THEOREM PipelineKeepsAlerts == PipelineSpec => Spec
<1>1. PipelineInit => Init
  BY DEF PipelineInit
<1>2. [PipelineNext]_all => [Next]_vars
  BY PipelineStep
<1> QED
  BY <1>1, <1>2, PTL DEF PipelineSpec, Spec

\* Only UpsertRoute changes what is cached.
LEMMA NotifyKeepsRoutes ==
  ASSUME \/ Notify \/ Browse \/ \E q \in Requests : Serve(q)
  PROVE  UNCHANGED <<StoredRoutes, loop>>
<1>1. CASE Notify
  BY <1>1 DEF Notify, UpsertsDone, GetAllActiveWatches, DeactivateWatch, Alerting,
              HasBeenNotified, NextHit, MarkNotified, Send, db, StoredRoutes
<1>2. CASE Browse
  BY <1>2 DEF Browse, CreateWatch, ReadForEdit, DeleteWatch, Hang, db, StoredRoutes
<1>3. ASSUME NEW q \in Requests, Serve(q) PROVE UNCHANGED <<StoredRoutes, loop>>
  BY <1>3 DEF Serve, Handling, UpdateWatch, ScanWatch, Alerting, HasBeenNotified, NextHit,
              MarkNotified, Send, db, StoredRoutes
<1> QED
  BY <1>1, <1>2, <1>3

\* Whatever the process does is what Poller does, or nothing to the loop: what
\* runOnce does with new routes, and users and scans meanwhile, is a stutter.
THEOREM PipelineKeepsLoop == PipelineSpec => LP!Spec
<1>1. PipelineInit => LP!Init
  BY DEF PipelineInit, Loop!Init, LP!Init, Loop!Started, LP!Started
<1>2. [PipelineNext]_all => [LP!Next]_(LP!vars)
  <2> SUFFICES ASSUME [PipelineNext]_all PROVE [LP!Next]_(LP!vars)
    OBVIOUS
  <2>1. CASE \/ Notify \/ Browse \/ \E q \in Requests : Serve(q)
    BY <2>1, NotifyKeepsRoutes DEF loop, LP!vars
  <2>2. CASE Request
    BY <2>2 DEF Request, Loop!Answered, Loop!NotModified, Loop!OK, Loop!RunSucceeded, LP!Next,
                LP!Answered, LP!NotModified, LP!OK, LP!RunSucceeded
  <2>3. CASE Fail
    BY <2>3 DEF Fail, Loop!RequestFails, Loop!BodyFails, Loop!EmptyBody, Loop!RunFailed,
                Loop!RunSucceeded, Loop!MayFail, LP!Next, LP!RequestFails, LP!BodyFails,
                LP!EmptyBody, LP!RunFailed, LP!RunSucceeded, LP!MayFail
  <2>4. CASE Wait
    BY <2>4 DEF Wait, Loop!BackoffOver, Loop!DrawJitter, Loop!IntervalOver, LP!Next, LP!Working,
                LP!BackoffOver, LP!DrawJitter, LP!IntervalOver
  <2>5. CASE Parse
    BY <2>5 DEF Parse, Loop!ParseRoutes, LP!Next, LP!Working, LP!ParseRoutes
  <2>6. CASE Store
    <3>1. PICK o \in Offers : Loop!UpsertRoute(o.id)
      BY <2>6 DEF Store
    <3>2. o.id \in Routes
      BY ConstantsAssumption DEF ConstantsAssumption
    <3> QED
      BY <3>1, <3>2 DEF Loop!UpsertRoute, Loop!MayFail, LP!Next, LP!Working, LP!UpsertRoute,
                        LP!MayFail
  <2>7. CASE Return
    BY <2>7 DEF Return, Loop!StoreDone, Loop!RunSucceeded, LP!Next, LP!Working, LP!StoreDone,
                LP!RunSucceeded
  <2>8. CASE Relist
    BY <2>8 DEF Relist, Loop!Relist, LP!Next, LP!Relist
  <2>9. CASE Restart
    BY <2>9 DEF Restart, Loop!Crash, Loop!Started, Loop!MayFail, LP!Next, LP!Crash, LP!Started,
                LP!MayFail
  <2>10. CASE UNCHANGED all
    BY <2>10 DEF all, vars, loop, LP!vars, StoredRoutes
  <2> QED
    BY <2>1, <2>2, <2>3, <2>4, <2>5, <2>6, <2>7, <2>8, <2>9, <2>10 DEF PipelineNext
<1> QED
  BY <1>1, <1>2, PTL DEF PipelineSpec, LP!Spec

\* The goroutine that is in both: the loop stands in "store" from the parsed
\* answer to the return of notifyBatched, with the same routes left to upsert.
Coupled ==
  /\ at = "store" => answer = {o.id : o \in batch}
  /\ at # "store" => pc[Fetcher] = "idle"
  /\ pc[Fetcher] # "upsert" => batch = {}
  /\ \A o, other \in batch : o.id = other.id => o = other

\* It does initially.
LEMMA CoupledInit == PipelineInit => Coupled
  BY ConstantsAssumption
  DEF ConstantsAssumption, PipelineInit, Init, NoWork, Workers, Loop!Init, Loop!Started, Coupled

\* Return waits for notifyBatched, so a new run finds the goroutine idle.
LEMMA CoupledStep ==
  ASSUME TypeInv, Coupled, [PipelineNext]_all
  PROVE  Coupled'
<1> USE DEF Coupled
<1>0. /\ Fetcher \in Workers /\ Requests \subseteq Workers /\ Fetcher \notin Requests
      /\ \A q \in Requests : pc[q] \notin {"upsert", "load", "deactivate"}
  BY ConstantsAssumption DEF ConstantsAssumption, Workers, TypeInv, Control
<1>1. ASSUME UNCHANGED vars, at # "store", at' # "store" PROVE Coupled'
  BY <1>1 DEF vars
<1>2. CASE Request \/ Fail \/ Wait
  BY <1>1, <1>2
  DEF Request, Fail, Wait, Loop!Answered, Loop!NotModified, Loop!OK, Loop!RunSucceeded,
      Loop!RequestFails, Loop!BodyFails, Loop!EmptyBody, Loop!RunFailed, Loop!BackoffOver,
      Loop!DrawJitter, Loop!IntervalOver
<1>3. CASE Parse
  <2>1. at = "body" /\ at' = "store" /\ answer' = answer
    BY <1>3 DEF Parse, Loop!ParseRoutes
  <2>2. CASE answer = {} /\ UNCHANGED vars
    BY <2>1, <2>2 DEF vars
  <2>3. CASE RunOnce /\ {o.id : o \in batch'} = answer
    BY <1>0, <2>1, <2>3 DEF RunOnce, TypeInv, TypeOK
  <2> QED
    BY <1>3, <2>2, <2>3 DEF Parse
<1>4. CASE Store
  <2>1. PICK o \in Offers : UpsertRoute(o) /\ Loop!UpsertRoute(o.id)
    BY <1>4 DEF Store
  <2>2. /\ batch' = batch \ {o} /\ o \in batch /\ pc[Fetcher] = "upsert" /\ pc' = pc
        /\ at = "store" /\ at' = at /\ answer' = answer \ {o.id}
    BY <2>1 DEF UpsertRoute, Loop!UpsertRoute
  <2>3. {x.id : x \in batch'} = {x.id : x \in batch} \ {o.id}
    BY <2>2
  <2> QED
    BY <2>2, <2>3
<1>5. CASE Notify
  <2>1. at' = at /\ answer' = answer /\ pc[Fetcher] # "idle" /\ UNCHANGED batch
    BY <1>5 DEF Notify, loop, UpsertsDone, GetAllActiveWatches, DeactivateWatch, Alerting,
                HasBeenNotified, NextHit, MarkNotified, Send, db
  <2>2. pc'[Fetcher] # "upsert" => batch' = {}
    BY <1>0, <1>5, <2>1
    DEF Notify, UpsertsDone, GetAllActiveWatches, DeactivateWatch, Alerting,
        HasBeenNotified, NextHit, MarkNotified, Send, db, TypeInv, TypeOK
  <2> QED
    BY <2>1, <2>2
<1>6. CASE Return
  BY <1>6 DEF Return, Loop!StoreDone, Loop!RunSucceeded, vars
<1>7. ASSUME NEW q \in Requests, Serve(q) PROVE Coupled'
  <2>1. UNCHANGED <<at, answer, batch>> /\ pc'[Fetcher] = pc[Fetcher]
    BY <1>0, <1>7
    DEF Serve, loop, Handling, UpdateWatch, ScanWatch, Alerting, HasBeenNotified, NextHit,
        MarkNotified, Send, db, TypeInv, TypeOK
  <2> QED
    BY <2>1
<1>8. CASE Browse
  <2>1. UNCHANGED <<at, answer, batch>>
    BY <1>8 DEF Browse, loop, CreateWatch, ReadForEdit, DeleteWatch, Hang, locals, db
  <2>2. \/ pc'[Fetcher] = pc[Fetcher]
        \/ pc[Fetcher] = "mark" /\ pc'[Fetcher] = "hung"
    BY <1>0, <1>8
    DEF Browse, CreateWatch, ReadForEdit, DeleteWatch, Hang, locals, db, TypeInv, TypeOK
  <2> QED
    BY <2>1, <2>2
<1>9. CASE Relist
  BY <1>9 DEF Relist, Loop!Relist, vars
<1>10. CASE Restart
  BY <1>0, <1>10 DEF Restart, Crash, NoWork, Loop!Crash, Loop!Started
<1>11. CASE UNCHANGED all
  BY <1>11 DEF all, vars, loop
<1> QED
  BY <1>2, <1>3, <1>4, <1>5, <1>6, <1>7, <1>8, <1>9, <1>10, <1>11 DEF PipelineNext

\* Tables and locals of both keep their types, and the loop never starts a run
\* while the last one is still alerting (PipelineTypeOK).
THEOREM PipelineTypes == PipelineSpec => []PipelineTypeOK
<1>1. PipelineSpec => []TypeInv /\ []LP!TypeOK
  <2>1. Spec => []TypeInv
    BY TypeInit, TypeStep, PTL DEF Spec
  <2> QED
    BY <2>1, PipelineKeepsAlerts, PipelineKeepsLoop, LP!PollerTypes, LoopAssumed, PTL
<1>2. TypeInv /\ Coupled /\ [PipelineNext]_all => Coupled'
  BY CoupledStep
<1>3. TypeInv /\ LP!TypeOK /\ Coupled => PipelineTypeOK
  BY DEF TypeInv, LP!TypeOK, Loop!TypeOK, Coupled, PipelineTypeOK
<1> QED
  BY <1>1, <1>2, <1>3, CoupledInit, PTL DEF PipelineSpec

\* What is owed is in hand, and what is marked is alerted or about to be, but for
\* what a process that was killed had in hand.
Handed ==
  \A i \in WatchIds, r \in Routes :
    Owed(i, r) => InHand(i, r) \/ <<Owner[i], r>> \in interrupted
Known == \A m \in notified : Sent(m) \/ OnItsWay(m) \/ m \in interrupted

Delivered == TypeInv /\ NamesKept /\ MarksHits /\ Handed /\ Known

\* It holds initially.
LEMMA DeliveredInit == PipelineInit => Delivered
  BY TypeInit, NoneOwedInit
  DEF PipelineInit, Init, NoWork, NoneOwed, MarksHits, OwedIsInHand, Handed, Known, Delivered

\* A process that dies leaves what it had to the history of interrupted work.
LEMMA RestartStep ==
  ASSUME TypeInv, Handed, Known, Restart
  PROVE  Handed' /\ Known'
<1>1. /\ UNCHANGED <<routes, watches, notified, log>>
      /\ interrupted' = interrupted \cup
           {m \in Users \X Routes : \E i \in WatchIds : Owner[i] = m[1] /\ Holding(i, m[2])}
  BY DEF Restart, Crash, db
<1>2. ASSUME NEW i \in WatchIds, NEW r \in Routes, Owed(i, r)' PROVE <<Owner[i], r>> \in interrupted'
  <2>1. Owed(i, r)
    BY <1>1, <1>2 DEF Owed, StoredRoutes, Match
  <2>2. CASE InHand(i, r)
    <3>1. Holding(i, r)
      BY <2>1, <2>2 DEF Holding, Owed
    <3>2. <<Owner[i], r>> \in Users \X Routes
      BY ConstantsAssumption DEF ConstantsAssumption
    <3> QED
      BY <1>1, <3>1, <3>2
  <2> QED
    BY <1>1, <2>1, <2>2 DEF Handed
<1>3. ASSUME NEW m \in notified' PROVE Sent(m)' \/ m \in interrupted'
  <2>1. m \in notified /\ m \in Users \X Routes
    BY <1>1, <1>3 DEF TypeInv, TypeOK
  <2>2. CASE OnItsWay(m)
    <3>1. PICK p \in Workers : Owner[cur[p].id] = m[1] /\ <<cur[p], m[2]>> \in hits[p]
      BY <2>2 DEF OnItsWay, HitRoutes
    <3>2. cur[p] \in Snapshots /\ cur[p].id \in WatchIds
      BY <3>1 DEF TypeInv, TypeOK, Snapshots
    <3>3. Holding(cur[p].id, m[2])
      BY <3>1, <3>2 DEF Holding
    <3> QED
      BY <1>1, <2>1, <3>1, <3>2, <3>3
  <2> QED
    BY <1>1, <2>1, <2>2 DEF Known, Sent
<1> QED
  BY <1>2, <1>3 DEF Handed, Known

\* Every other step hands on what is owed and what is marked.
LEMMA DeliveredStep ==
  ASSUME Steady, Delivered, [PipelineNext]_all
  PROVE  Delivered'
<1> USE DEF Delivered
<1>1. [Next]_vars
  BY PipelineStep
<1>2. TypeInv' /\ NamesKept' /\ MarksHits'
  BY <1>1, TypeStep, NamesStep, MarksHitsStep
<1>3. CASE Restart
  BY <1>2, <1>3, RestartStep
<1>4. CASE [Living]_vars /\ UNCHANGED interrupted
  <2>1. Handed'
    BY <1>4, HandStep DEF Handed
  <2>2. Known'
    BY <1>4, SentStep DEF Known
  <2> QED
    BY <1>2, <2>1, <2>2
<1> QED
  BY <1>3, <1>4, PipelineStep

\* From end to end: while the home page shows a fetch without an error and no
\* scan is under way, every route of the listing it speaks of has been announced
\* to the owner of every active watch it matches, but for routes a broken body or
\* a failed upsert lost and work that a killed process had in hand
\* (ListedIsAnnounced).
THEOREM ListingIsAnnounced ==
  ASSUME Steady
  PROVE  PipelineSpec => []ListedIsAnnounced
<1>1. PipelineSpec => []Delivered
  BY DeliveredInit, DeliveredStep, PTL DEF PipelineSpec
<1>2. PipelineSpec => []LP!StatusHonest
  BY PipelineKeepsLoop, LP!StatusIsHonest, LoopAssumed, PTL
<1>3. TypeInv /\ Coupled /\ [PipelineNext]_all => Coupled'
  BY CoupledStep
<1>4. Delivered /\ Coupled /\ LP!StatusHonest => ListedIsAnnounced
  <2> SUFFICES ASSUME Delivered, Coupled, LP!StatusHonest, Loop!BetweenRuns, status = "ok",
                      \A q \in Requests : pc[q] \in {"idle", "edit"},
                      NEW i \in WatchIds, NEW r \in seen \ lost,
                      watches[i] # None, watches[i].active, Match(r, watches[i].crit)
               PROVE  Announced(i, r) \/ <<Owner[i], r>> \in interrupted
    BY DEF ListedIsAnnounced
  <2>1. \A p \in Workers : pc[p] \in {"idle", "edit"}
    BY DEF Coupled, Loop!BetweenRuns, Workers
  <2>2. r \in StoredRoutes /\ r \in Routes
    BY DEF LP!StatusHonest, LP!BetweenRuns, Loop!BetweenRuns, StoredRoutes
  <2>3. ~InHand(i, r)
    BY <2>1, ConstantsAssumption
    DEF ConstantsAssumption, Workers, InHand, InNewRoutes, InScan, InLoop
  <2>4. CASE <<Owner[i], r>> \notin notified
    BY <2>2, <2>3, <2>4 DEF Owed, Delivered, Handed
  <2>5. CASE <<Owner[i], r>> \in notified
    <3>1. ~OnItsWay(<<Owner[i], r>>)
      BY <2>1 DEF OnItsWay
    <3> QED
      BY <2>5, <3>1 DEF Delivered, Known, Sent, Announced
  <2> QED
    BY <2>4, <2>5
<1> QED
  BY <1>1, <1>2, <1>3, <1>4, CoupledInit, PTL DEF PipelineSpec, Delivered
=============================================================================
