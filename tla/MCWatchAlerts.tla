--------------------------- MODULE MCWatchAlerts ---------------------------
(***************************************************************************)
(* Instances of WatchAlerts for TLC: one or two watches and routes.        *)
(***************************************************************************)
EXTENDS WatchAlerts

CONSTANTS u1, w1, w2, r1, r2, n1, n2, c1, c2, cAny

OneOwner  == [i \in WatchIds |-> u1]

\* c1 and c2 accept one name each, cAny accepts both.
MCMatches == {<<n1, c1>>, <<n2, c2>>, <<n1, cAny>>, <<n2, cAny>>}
               \cap (Names \X Criteria)

\* A route keeps its name for ever.
StableOffers  == {[id |-> r1, name |-> n1], [id |-> r2, name |-> n2]}
OneOffer      == {[id |-> r1, name |-> n1]}

\* r2 departs after r1.
MCDeparts == [r \in Routes |-> IF r = r1 THEN 1 ELSE 2]
=============================================================================
