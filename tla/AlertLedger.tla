---------------------------- MODULE AlertLedger ----------------------------
(***************************************************************************)
(* What alerting promises, whoever does it: a route is taken up for a user *)
(* only while it is not on record, it goes on record before the alert      *)
(* leaves, nothing is struck off the record, and a crash may lose claims   *)
(* but makes none. The table notified is the record.                       *)
(***************************************************************************)
CONSTANTS
  Users, Routes,
  Claimants,   \* who alerts: a goroutine on behalf of a watch
  UserOf       \* UserOf[c] is the account that claimant c alerts

VARIABLES
  record,      \* pairs <<user, route>>
  claims,      \* pairs <<claimant, route>> taken up and not yet alerted
  alerts       \* history: the pairs <<claimant, routes>> alerted

vars == <<record, claims, alerts>>

Init == record = {} /\ claims = {} /\ alerts = {}

Claim(c, r) ==
  /\ <<UserOf[c], r>> \notin record
  /\ claims' = claims \cup {<<c, r>>}
  /\ UNCHANGED <<record, alerts>>

Record(u, r) ==
  /\ record' = record \cup {<<u, r>>}
  /\ UNCHANGED <<claims, alerts>>

\* One alert for all that the claimant has claimed.
Claimed(c) == {r \in Routes : <<c, r>> \in claims}
Alert(c) ==
  /\ \A r \in Claimed(c) : <<UserOf[c], r>> \in record
  /\ alerts' = alerts \cup {<<c, Claimed(c)>>}
  /\ claims' = {k \in claims : k[1] # c}
  /\ UNCHANGED record

Crash == claims' = {} /\ UNCHANGED <<record, alerts>>

Next ==
  \/ \E c \in Claimants : Alert(c) \/ \E r \in Routes : Claim(c, r)
  \/ \E u \in Users, r \in Routes : Record(u, r)
  \/ Crash

Spec == Init /\ [][Next]_vars
=============================================================================
