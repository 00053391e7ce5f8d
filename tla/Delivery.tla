------------------------------ MODULE Delivery ------------------------------
(***************************************************************************)
(* How one notification reaches a user: sendWatchNotification (step Send   *)
(* of WatchAlerts) and handlePushTest, Pusher.Send and Emailer.Send, and   *)
(* the table push_subscriptions they share with the subscribe and          *)
(* unsubscribe handlers. Deliveries of several goroutines interleave, and  *)
(* the admin deletes users, whose watches go on being notified.            *)
(*                                                                         *)
(* A browser's push subscription is created once and ends once: from then  *)
(* on its push service answers 410 for its endpoint.                       *)
(***************************************************************************)
CONSTANTS
  Users,
  Endpoints,      \* one per push subscription a browser ever makes
  Senders,        \* goroutines that deliver: poller, scans, test requests
  MailConfigured, \* cfg.MailgunConfigured
  Faults,         \* "Load", "Push", "Prune", "Mail": calls that may fail
  None

ASSUME DeliveryAssumption ==
  /\ MailConfigured \in BOOLEAN
  /\ Faults \subseteq {"Load", "Push", "Prune", "Mail"}
  /\ None \notin Users \cup Endpoints

VARIABLES
  accounts,\* table users: who has not been deleted
  subs,    \* table push_subscriptions: the user_id of each endpoint, or None
  device,  \* external: "unused", "live" or "dead"
  pc,
  user,    \* whom the sender notifies, or None
  test,    \* is it handlePushTest
  snap,    \* the endpoints GetPushSubscriptionsByUser returned
  left,    \* those still to be tried
  gone,    \* the endpoint that answered 410 and is to be deleted, or None
  told,    \* history: the endpoints that accepted it, and "mail"
  failed,  \* history: has a call of this delivery failed
  late     \* history: endpoints registered after their browser's end

table  == <<accounts, subs, device, late>>
locals == <<pc, user, test, snap, left, gone, told, failed>>
vars   == <<accounts, subs, device, late, pc, user, test, snap, left, gone, told, failed>>

MayFail(call) == call \in Faults
SubsOf(u)     == {e \in Endpoints : subs[e] = u}

Init ==
  /\ accounts = Users
  /\ subs = [e \in Endpoints |-> None]
  /\ device = [e \in Endpoints |-> "unused"]
  /\ pc = [d \in Senders |-> "idle"]
  /\ user = [d \in Senders |-> None] /\ gone = [d \in Senders |-> None]
  /\ test = [d \in Senders |-> FALSE]
  /\ snap = [d \in Senders |-> {}] /\ left = [d \in Senders |-> {}]
  /\ told = [d \in Senders |-> {}]
  /\ failed = [d \in Senders |-> FALSE] /\ late = {}

-----------------------------------------------------------------------------
(* Browsers and their requests.                                            *)

\* pushManager.subscribe, and the end of a push subscription: the user turns
\* it off, clears the browser, or the push service lets it expire.
DeviceSubscribes(e) ==
  /\ device[e] = "unused"
  /\ device' = [device EXCEPT ![e] = "live"]
  /\ UNCHANGED <<accounts, subs, late, locals>>

DeviceDies(e) ==
  /\ device[e] = "live"
  /\ device' = [device EXCEPT ![e] = "dead"]
  /\ UNCHANGED <<accounts, subs, late, locals>>

\* handlePushSubscribe: the endpoint is the key, whoever had it before. The
\* browser may be gone when its request arrives, and its user deleted since
\* sessionMiddleware has read it.
PushSubscribe(u, e) ==
  /\ device[e] # "unused"
  /\ subs' = [subs EXCEPT ![e] = u]
  /\ late' = IF device[e] = "dead" THEN late \cup {e} ELSE late
  /\ UNCHANGED <<accounts, device, locals>>

\* handlePushUnsubscribe deletes a row of the user who asks.
PushUnsubscribe(u, e) ==
  /\ subs[e] = u
  /\ subs' = [subs EXCEPT ![e] = None]
  /\ UNCHANGED <<accounts, device, late, locals>>

\* handleAdminDeleteUser: push_subscriptions keeps the rows, and watches keeps
\* what the poller notifies about (REFERENCES is not enforced).
DeleteUser(u) ==
  /\ u \in accounts
  /\ accounts' = accounts \ {u}
  /\ UNCHANGED <<subs, device, late, locals>>

-----------------------------------------------------------------------------
(* A delivery.                                                             *)

\* A caller wants u notified, who may be gone.
Begin(d, u, isTest) ==
  /\ pc[d] = "idle"
  /\ pc' = [pc EXCEPT ![d] = "load"]
  /\ user' = [user EXCEPT ![d] = u]
  /\ test' = [test EXCEPT ![d] = isTest]
  /\ told' = [told EXCEPT ![d] = {}]
  /\ failed' = [failed EXCEPT ![d] = FALSE]
  /\ UNCHANGED <<table, snap, left, gone>>

\* An error is an empty list: an alert then goes by e-mail, a test is refused.
Load(d) ==
  /\ pc[d] = "load"
  /\ \/ snap' = [snap EXCEPT ![d] = SubsOf(user[d])] /\ UNCHANGED failed
     \/ /\ MayFail("Load")
        /\ snap' = [snap EXCEPT ![d] = {}]
        /\ failed' = [failed EXCEPT ![d] = TRUE]
  /\ left' = [left EXCEPT ![d] = snap'[d]]
  /\ pc' = [pc EXCEPT ![d] = IF snap'[d] # {} THEN "push"
                             ELSE IF test[d] THEN "done" ELSE "mail"]
  /\ UNCHANGED <<table, user, test, gone, told>>

\* Mutant: any failure is taken for the end of the subscription.
PushFailsGone(d, e) ==
  /\ pc[d] = "push" /\ e \in left[d] /\ MayFail("Push")
  /\ left' = [left EXCEPT ![d] = @ \ {e}]
  /\ gone' = [gone EXCEPT ![d] = e]
  /\ pc' = [pc EXCEPT ![d] = "prune"]
  /\ UNCHANGED <<table, user, test, snap, told, failed>>

\* Pusher.Send: an error, or a status it only logs (404, 429, 500).
PushFails(d, e) ==
  /\ pc[d] = "push" /\ e \in left[d] /\ MayFail("Push")
  /\ left' = [left EXCEPT ![d] = @ \ {e}]
  /\ failed' = [failed EXCEPT ![d] = TRUE]
  /\ UNCHANGED <<table, pc, user, test, snap, gone, told>>

PushAccepted(d, e) ==
  /\ pc[d] = "push" /\ e \in left[d] /\ device[e] = "live"
  /\ left' = [left EXCEPT ![d] = @ \ {e}]
  /\ told' = [told EXCEPT ![d] = @ \cup {e}]
  /\ UNCHANGED <<table, pc, user, test, snap, gone, failed>>

\* Mutant: the user, not the endpoint, is remembered for the delete.
PushGoneByUser(d, e) ==
  /\ pc[d] = "push" /\ e \in left[d] /\ device[e] = "dead"
  /\ left' = [left EXCEPT ![d] = @ \ {e}]
  /\ gone' = [gone EXCEPT ![d] = user[d]]
  /\ pc' = [pc EXCEPT ![d] = "prune"]
  /\ UNCHANGED <<table, user, test, snap, told, failed>>

\* 410: ErrGone.
PushGone(d, e) ==
  /\ pc[d] = "push" /\ e \in left[d] /\ device[e] = "dead"
  /\ left' = [left EXCEPT ![d] = @ \ {e}]
  /\ gone' = [gone EXCEPT ![d] = e]
  /\ pc' = [pc EXCEPT ![d] = "prune"]
  /\ UNCHANGED <<table, user, test, snap, told, failed>>

\* Mutant: DeletePushSubscription of the user the delivery is for.
PruneOwnRow(d) ==
  /\ pc[d] = "prune"
  /\ subs' = [subs EXCEPT ![gone[d]] = IF @ = user[d] THEN None ELSE @]
  /\ gone' = [gone EXCEPT ![d] = None]
  /\ pc' = [pc EXCEPT ![d] = "push"]
  /\ UNCHANGED <<accounts, device, late, user, test, snap, left, told, failed>>

\* DeletePushSubscriptionByEndpoint, its error dropped.
Prune(d) ==
  /\ pc[d] = "prune"
  /\ \/ subs' = [subs EXCEPT ![gone[d]] = None] /\ UNCHANGED failed
     \/ /\ MayFail("Prune")
        /\ failed' = [failed EXCEPT ![d] = TRUE]
        /\ UNCHANGED subs
  /\ gone' = [gone EXCEPT ![d] = None]
  /\ pc' = [pc EXCEPT ![d] = "push"]
  /\ UNCHANGED <<accounts, device, late, user, test, snap, left, told>>

\* The list was not empty: no e-mail, whatever the pushes met.
PushesDone(d) ==
  /\ pc[d] = "push" /\ left[d] = {}
  /\ pc' = [pc EXCEPT ![d] = "done"]
  /\ UNCHANGED <<table, user, test, snap, left, gone, told, failed>>

\* The e-mail fallback, if there is still a user; Emailer.Send reports success if
\* Mailgun is not set up. The lookup may fail, or Mailgun may refuse.
Mail(d) ==
  /\ pc[d] = "mail"
  /\ \/ /\ MailConfigured /\ user[d] \in accounts
        /\ told' = [told EXCEPT ![d] = @ \cup {"mail"}]
        /\ UNCHANGED failed
     \/ (~MailConfigured \/ user[d] \notin accounts) /\ UNCHANGED <<told, failed>>
     \/ MayFail("Mail") /\ failed' = [failed EXCEPT ![d] = TRUE] /\ UNCHANGED told
  /\ pc' = [pc EXCEPT ![d] = "done"]
  /\ UNCHANGED <<table, user, test, snap, left, gone>>

\* The caller goes on. A test was answered 204 if the list was not empty.
Finish(d) ==
  /\ pc[d] = "done"
  /\ pc' = [pc EXCEPT ![d] = "idle"]
  /\ user' = [user EXCEPT ![d] = None]
  /\ snap' = [snap EXCEPT ![d] = {}] /\ left' = [left EXCEPT ![d] = {}]
  /\ UNCHANGED <<table, test, gone, told, failed>>

-----------------------------------------------------------------------------
Browser ==
  \E e \in Endpoints :
    \/ DeviceSubscribes(e) \/ DeviceDies(e)
    \/ \E u \in Users : PushSubscribe(u, e) \/ PushUnsubscribe(u, e)

Pushing(d) ==
  \E e \in Endpoints : PushAccepted(d, e) \/ PushGone(d, e) \/ PushFails(d, e)

Next ==
  \/ Browser
  \/ \E u \in Users : DeleteUser(u)
  \/ \E d \in Senders :
       \/ \E u \in Users, isTest \in BOOLEAN : Begin(d, u, isTest)
       \/ Load(d) \/ Pushing(d) \/ Prune(d) \/ PushesDone(d) \/ Mail(d) \/ Finish(d)

Spec == Init /\ [][Next]_vars

-----------------------------------------------------------------------------
\* The table and the senders' locals keep their shape.
TypeOK ==
  /\ accounts \subseteq Users
  /\ subs \in [Endpoints -> Users \cup {None}]
  /\ device \in [Endpoints -> {"unused", "live", "dead"}]
  /\ pc \in [Senders -> {"idle", "load", "push", "prune", "mail", "done"}]
  /\ user \in [Senders -> Users \cup {None}]
  /\ test \in [Senders -> BOOLEAN]
  /\ snap \in [Senders -> SUBSET Endpoints]
  /\ left \in [Senders -> SUBSET Endpoints]
  /\ gone \in [Senders -> Endpoints \cup {None}]
  /\ told \in [Senders -> SUBSET (Endpoints \cup {"mail"})]
  /\ failed \in [Senders -> BOOLEAN]
  /\ late \subseteq Endpoints

\* No delivery, failing or working from a list that is out of date, takes the
\* subscription of a live browser away: only a request to unsubscribe does.
LiveRowsStay ==
  [][\A e \in Endpoints :
       device[e] = "live" /\ subs[e] # None /\ subs'[e] = None
         => \E u \in Users : PushUnsubscribe(u, e)]_vars

\* An alert that ends without reaching anybody, although no call failed, has at
\* least removed every row it tried, also those that moved to another account
\* meanwhile, so that the next alert falls back to e-mail: a browser that is
\* gone swallows no alert that begins after the one it swallowed. Only a user
\* who has been deleted may be left without e-mail.
ReachedOrHealed ==
  \A d \in Senders :
    pc[d] = "done" /\ ~test[d] /\ told[d] = {} /\ ~failed[d] =>
      /\ ~MailConfigured \/ snap[d] # {} \/ user[d] \notin accounts
      /\ \A e \in snap[d] : device[e] = "dead" /\ (subs[e] = None \/ e \in late)

-----------------------------------------------------------------------------
(* What the documents say and the code does not do                         *)

\* fetcher.go:420 "Email fallback if user has no active push subscriptions".
FallsBackToMail ==
  \A d \in Senders : pc[d] = "done" /\ ~test[d] => told[d] # {}
=============================================================================
