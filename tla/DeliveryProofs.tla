--------------------------- MODULE DeliveryProofs ---------------------------
(***************************************************************************)
(* What Delivery guarantees for any number of users, browsers and senders. *)
(***************************************************************************)
EXTENDS Delivery, TLAPS

\* A sender about to delete holds an endpoint that is dead.
GoneIsDead ==
  \A d \in Senders :
    /\ pc[d] = "prune" => gone[d] # None
    /\ gone[d] # None => device[gone[d]] = "dead"

TypeInv == TypeOK /\ GoneIsDead

\* The initial state has its types.
LEMMA TypeInit == Init => TypeInv
  BY DEF Init, TypeInv, TypeOK, GoneIsDead

\* Every step keeps them.
LEMMA TypeStep == TypeInv /\ [Next]_vars => TypeInv'
<1> SUFFICES ASSUME TypeInv, [Next]_vars PROVE TypeInv'
  OBVIOUS
<1> USE DeliveryAssumption DEF DeliveryAssumption, TypeInv, TypeOK, GoneIsDead
<1>1. ASSUME NEW e \in Endpoints, DeviceSubscribes(e) \/ DeviceDies(e) PROVE TypeInv'
  BY <1>1 DEF DeviceSubscribes, DeviceDies, locals
<1>2. ASSUME NEW e \in Endpoints, NEW u \in Users,
             PushSubscribe(u, e) \/ PushUnsubscribe(u, e)
      PROVE TypeInv'
  BY <1>2 DEF PushSubscribe, PushUnsubscribe, locals
<1>9. ASSUME NEW u \in Users, DeleteUser(u) PROVE TypeInv'
  BY <1>9 DEF DeleteUser, locals
<1>3. ASSUME NEW d \in Senders, NEW u \in Users, NEW isTest \in BOOLEAN,
             Begin(d, u, isTest)
      PROVE TypeInv'
  BY <1>3 DEF Begin, table
<1>4. ASSUME NEW d \in Senders, Load(d) PROVE TypeInv'
  <2>1. PICK S \in {SubsOf(user[d])} \cup (IF MayFail("Load") THEN {{}} ELSE {}) :
          /\ snap' = [snap EXCEPT ![d] = S]
          /\ left' = [left EXCEPT ![d] = S]
          /\ pc' = [pc EXCEPT ![d] = IF S # {} THEN "push"
                                     ELSE IF test[d] THEN "done" ELSE "mail"]
          /\ failed' \in [Senders -> BOOLEAN]
    BY <1>4 DEF Load
  <2>2. S \subseteq Endpoints
    BY DEF SubsOf
  <2> QED
    BY <1>4, <2>1, <2>2 DEF Load, table
<1>5. ASSUME NEW d \in Senders, NEW e \in Endpoints,
             PushAccepted(d, e) \/ PushGone(d, e) \/ PushFails(d, e)
      PROVE TypeInv'
  <2>1. CASE PushAccepted(d, e)
    BY <2>1 DEF PushAccepted, table
  <2>2. CASE PushGone(d, e)
    BY <2>2 DEF PushGone, table
  <2>3. CASE PushFails(d, e)
    BY <2>3 DEF PushFails, table
  <2> QED
    BY <1>5, <2>1, <2>2, <2>3
<1>6. ASSUME NEW d \in Senders, Prune(d) PROVE TypeInv'
  BY <1>6 DEF Prune
<1>7. ASSUME NEW d \in Senders, PushesDone(d) \/ Mail(d) \/ Finish(d) PROVE TypeInv'
  <2>1. CASE PushesDone(d) \/ Finish(d)
    BY <2>1 DEF PushesDone, Finish, table
  <2>2. CASE Mail(d)
    <3>1. told' \in [Senders -> SUBSET (Endpoints \cup {"mail"})]
      BY <2>2 DEF Mail
    <3>2. failed' \in [Senders -> BOOLEAN]
      BY <2>2 DEF Mail
    <3>3. pc' = [pc EXCEPT ![d] = "done"] /\ UNCHANGED <<table, user, test, snap, left, gone>>
      BY <2>2 DEF Mail
    <3> QED
      BY <3>1, <3>2, <3>3 DEF table
  <2> QED
    BY <1>7, <2>1, <2>2
<1>8. CASE UNCHANGED vars
  BY <1>8 DEF vars
<1> QED
  BY <1>1, <1>2, <1>3, <1>4, <1>5, <1>6, <1>7, <1>8, <1>9 DEF Next, Browser, Pushing

\* The table and the senders' locals keep their types (TypeOK).
THEOREM DeliveryTypes == Spec => []TypeOK
<1>1. Spec => []TypeInv
  BY TypeInit, TypeStep, PTL DEF Spec
<1> QED
  BY <1>1, PTL DEF TypeInv

\* The only other delete is of an endpoint that is dead.
LEMMA LiveRowStep ==
  ASSUME TypeInv, [Next]_vars, NEW e \in Endpoints,
         device[e] = "live", subs[e] # None, subs'[e] = None
  PROVE  \E u \in Users : PushUnsubscribe(u, e)
<1> USE DEF TypeInv, TypeOK
<1>1. ASSUME NEW d \in Senders, Prune(d) PROVE FALSE
  <2>1. gone[d] \in Endpoints /\ gone[d] # e
    BY <1>1 DEF GoneIsDead, Prune
  <2> QED
    BY <1>1, <2>1 DEF Prune
<1>2. ASSUME NEW f \in Endpoints, NEW u \in Users, PushUnsubscribe(u, f)
      PROVE \E v \in Users : PushUnsubscribe(v, e)
  <2>1. e = f
    BY <1>2 DEF PushUnsubscribe
  <2> QED
    BY <1>2, <2>1
<1>3. ASSUME NEW f \in Endpoints, NEW u \in Users, PushSubscribe(u, f) PROVE FALSE
  BY <1>3, DeliveryAssumption DEF DeliveryAssumption, PushSubscribe
<1>4. CASE UNCHANGED subs
  BY <1>4
<1> QED
  BY <1>1, <1>2, <1>3, <1>4
  DEF Next, Browser, Pushing, DeleteUser, DeviceSubscribes, DeviceDies, Begin, Load, PushAccepted,
      PushGone, PushFails, PushesDone, Mail, Finish, table, vars

\* Whatever fails, a delivery never costs a live browser its subscription
\* (LiveRowsStay).
THEOREM LiveRowsAreKept == Spec => LiveRowsStay
<1>1. TypeInv /\ [Next]_vars
        => [\A e \in Endpoints :
              device[e] = "live" /\ subs[e] # None /\ subs'[e] = None
                => \E u \in Users : PushUnsubscribe(u, e)]_vars
  BY LiveRowStep
<1>2. Spec => []TypeInv
  BY TypeInit, TypeStep, PTL DEF Spec
<1> QED
  BY <1>1, <1>2, PTL DEF Spec, LiveRowsStay

-----------------------------------------------------------------------------
\* Until a call fails, every endpoint a sender has tried was told, or is dead
\* and out of the table, or is about to be, or was registered after its browser's
\* end; and a list that was empty means e-mail.
Removed(e) == device[e] = "dead" /\ (subs[e] = None \/ e \in late)
TriedBy(d) ==
  /\ pc[d] \in {"push", "prune", "done"} =>
       \A e \in snap[d] \ left[d] :
         e \in told[d] \/ Removed(e) \/ (pc[d] = "prune" /\ gone[d] = e)
  /\ pc[d] \in {"push", "prune"} => snap[d] # {}
  /\ pc[d] = "mail" => snap[d] = {} /\ left[d] = {}
  /\ pc[d] = "done" => left[d] = {}
  /\ (pc[d] = "done" /\ ~test[d] /\ snap[d] = {}) =>
       (told[d] # {} \/ ~MailConfigured \/ user[d] \notin accounts)
Tried == \A d \in Senders : failed[d] \/ pc[d] = "idle" \/ TriedBy(d)

\* No sender has tried anything yet.
LEMMA TriedInit == Init => Tried
  BY DEF Init, Tried

\* What a sender's argument rests on besides its own locals.
LEMMA TriedFrame ==
  ASSUME NEW d \in Senders, Tried,
         snap[d] \subseteq Endpoints,
         \A e \in Endpoints : Removed(e) => Removed(e)',
         accounts' \subseteq accounts,
         UNCHANGED <<pc[d], user[d], test[d], snap[d], left[d], gone[d], told[d], failed[d]>>
  PROVE  (failed[d] \/ pc[d] = "idle" \/ TriedBy(d))'
  BY DEF Tried, TriedBy

\* A step of another sender, or of a browser, leaves removed rows removed: who
\* registers one of them again is late.
LEMMA RemovedStays ==
  ASSUME TypeInv, [Next]_vars, NEW e \in Endpoints, Removed(e)
  PROVE  Removed(e)'
<1> USE DeliveryAssumption DEF DeliveryAssumption, TypeInv, TypeOK, Removed
<1>1. ASSUME NEW f \in Endpoints, DeviceSubscribes(f) \/ DeviceDies(f) PROVE Removed(e)'
  BY <1>1 DEF DeviceSubscribes, DeviceDies
<1>2. ASSUME NEW f \in Endpoints, NEW u \in Users,
             PushSubscribe(u, f) \/ PushUnsubscribe(u, f)
      PROVE Removed(e)'
  BY <1>2 DEF PushSubscribe, PushUnsubscribe
<1>3. ASSUME NEW d \in Senders, Prune(d) PROVE Removed(e)'
  BY <1>3 DEF Prune
<1>4. CASE UNCHANGED <<subs, device, late>>
  BY <1>4
<1> QED
  BY <1>1, <1>2, <1>3, <1>4
  DEF Next, Browser, Pushing, DeleteUser, Begin, Load, PushAccepted, PushGone, PushFails,
      PushesDone, Mail, Finish, vars, table

\* An account that is gone stays gone.
LEMMA AccountsGo == [Next]_vars => accounts' \subseteq accounts
  BY DEF Next, Browser, Pushing, DeviceSubscribes, DeviceDies, PushSubscribe, PushUnsubscribe,
         DeleteUser, Begin, Load, PushAccepted, PushGone, PushFails, Prune, PushesDone, Mail,
         Finish, vars, table

\* Each step of a sender keeps its own argument.
LEMMA TriedOwn ==
  ASSUME TypeInv, Tried, [Next]_vars, NEW d \in Senders,
         pc[d] # "idle", ~failed[d], ~failed'[d], pc'[d] # "idle",
         \/ Load(d) \/ Pushing(d) \/ Prune(d) \/ PushesDone(d) \/ Mail(d)
  PROVE  TriedBy(d)'
<1>0. TriedBy(d) /\ \A e \in Endpoints : Removed(e) => Removed(e)'
  BY RemovedStays DEF Tried
<1> USE DEF TypeInv, TypeOK
<1>1. CASE Load(d)
  <2>1. /\ snap'[d] = left'[d]
        /\ pc'[d] = (IF snap'[d] # {} THEN "push" ELSE IF test[d] THEN "done" ELSE "mail")
        /\ UNCHANGED test
    BY <1>1 DEF Load
  <2> QED
    BY <2>1 DEF TriedBy
<1>2. ASSUME NEW e \in Endpoints,
             PushAccepted(d, e) \/ PushGone(d, e) \/ PushFails(d, e)
      PROVE TriedBy(d)'
  <2>1. CASE PushAccepted(d, e)
    <3>1. /\ pc[d] = "push" /\ pc'[d] = "push" /\ snap'[d] = snap[d]
          /\ left'[d] = left[d] \ {e} /\ told'[d] = told[d] \cup {e}
      BY <2>1 DEF PushAccepted
    <3> QED
      BY <1>0, <3>1 DEF TriedBy
  <2>2. CASE PushGone(d, e)
    <3>1. /\ pc[d] = "push" /\ pc'[d] = "prune" /\ snap'[d] = snap[d]
          /\ left'[d] = left[d] \ {e} /\ told'[d] = told[d] /\ gone'[d] = e
      BY <2>2 DEF PushGone
    <3> QED
      BY <1>0, <3>1 DEF TriedBy
  <2>3. CASE PushFails(d, e)
    BY <2>3 DEF PushFails
  <2> QED
    BY <1>2, <2>1, <2>2, <2>3
<1>3. CASE Prune(d)
  <2>1. PICK g \in Endpoints : g = gone[d] /\ device[g] = "dead"
    BY <1>3 DEF Prune, GoneIsDead
  <2>2. /\ pc[d] = "prune" /\ pc'[d] = "push"
        /\ UNCHANGED <<device, snap, left, told>>
    BY <1>3 DEF Prune
  <2>3. subs'[g] = None
    BY <1>3, <2>1 DEF Prune
  <2>4. Removed(g)'
    BY <2>1, <2>2, <2>3 DEF Removed
  <2> QED
    BY <1>0, <2>1, <2>2, <2>4 DEF TriedBy
<1>4. CASE PushesDone(d)
  <2>1. /\ pc[d] = "push" /\ pc'[d] = "done" /\ left[d] = {}
        /\ UNCHANGED <<test, snap, left, told>>
    BY <1>4 DEF PushesDone
  <2> QED
    BY <1>0, <2>1 DEF TriedBy
<1>5. CASE Mail(d)
  <2>1. /\ pc[d] = "mail" /\ pc'[d] = "done"
        /\ UNCHANGED <<accounts, user, test, snap, left>>
        /\ told'[d] # {} \/ ~MailConfigured \/ user[d] \notin accounts
    BY <1>5 DEF Mail, table
  <2> QED
    BY <1>0, <2>1 DEF TriedBy
<1> QED
  BY <1>1, <1>2, <1>3, <1>4, <1>5 DEF Pushing

\* No step breaks the argument of any sender.
LEMMA TriedStep == ASSUME TypeInv, Tried, [Next]_vars PROVE Tried'
<1> SUFFICES ASSUME NEW d \in Senders
             PROVE (failed[d] \/ pc[d] = "idle" \/ TriedBy(d))'
  BY DEF Tried
<1> DEFINE Locals == <<pc[d], user[d], test[d], snap[d], left[d], gone[d], told[d], failed[d]>>
<1>1. CASE UNCHANGED Locals
  <2>1. snap[d] \subseteq Endpoints
    BY DEF TypeInv, TypeOK
  <2>2. accounts' \subseteq accounts
    BY AccountsGo
  <2> QED
    BY <1>1, <2>1, <2>2, TriedFrame, RemovedStays
<1>2. CASE \E u \in Users, isTest \in BOOLEAN : Begin(d, u, isTest)
  BY <1>2 DEF Begin, TriedBy, TypeInv, TypeOK
<1>3. CASE Load(d) \/ Pushing(d) \/ Prune(d) \/ PushesDone(d) \/ Mail(d)
  <2>1. pc[d] # "idle"
    BY <1>3 DEF Load, Pushing, PushAccepted, PushGone, PushFails, Prune, PushesDone, Mail
  <2>2. failed[d] => failed'[d]
    BY <1>3
    DEF Load, Pushing, PushAccepted, PushGone, PushFails, Prune, PushesDone, Mail,
        TypeInv, TypeOK
  <2> QED
    BY <1>3, <2>1, <2>2, TriedOwn
<1>4. CASE Finish(d)
  BY <1>4 DEF Finish, TypeInv, TypeOK
<1>5. ASSUME NEW x \in Senders \ {d},
             \/ \E u \in Users, isTest \in BOOLEAN : Begin(x, u, isTest)
             \/ Load(x) \/ Pushing(x) \/ Prune(x) \/ PushesDone(x) \/ Mail(x) \/ Finish(x)
      PROVE UNCHANGED Locals
  BY <1>5
  DEF Begin, Load, Pushing, PushAccepted, PushGone, PushFails, Prune, PushesDone, Mail,
      Finish, TypeInv, TypeOK
<1>6. ASSUME Browser \/ (\E u \in Users : DeleteUser(u)) \/ UNCHANGED vars
      PROVE  UNCHANGED Locals
  BY <1>6
  DEF Browser, DeleteUser, DeviceSubscribes, DeviceDies, PushSubscribe, PushUnsubscribe, locals, vars
<1> QED
  BY <1>1, <1>2, <1>3, <1>4, <1>5, <1>6 DEF Next

\* An alert that reached nobody, although no call of it failed, has removed every
\* subscription it tried (ReachedOrHealed), whatever other deliveries met.
THEOREM SilenceIsHealed == Spec => []ReachedOrHealed
<1>1. TypeInv /\ Tried /\ [Next]_vars => TypeInv' /\ Tried'
  BY TypeStep, TriedStep
<1>2. Init => TypeInv /\ Tried
  BY TypeInit, TriedInit
<1>3. Tried => ReachedOrHealed
  BY DEF Tried, TriedBy, Removed, ReachedOrHealed
<1> QED
  BY <1>1, <1>2, <1>3, PTL DEF Spec
=============================================================================
