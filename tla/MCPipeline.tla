----------------------------- MODULE MCPipeline -----------------------------
(***************************************************************************)
(* Instances of Pipeline for TLC: c1 accepts one name, cAny accepts both.  *)
(***************************************************************************)
EXTENDS Pipeline

CONSTANTS u1, w1, r1, r2, n1, n2, c1, cAny

OneOwner  == [i \in WatchIds |-> u1]
MCMatches == {<<n1, c1>>, <<n1, cAny>>, <<n2, cAny>>} \cap (Names \X Criteria)
MCOffers  == {[id |-> r1, name |-> n1], [id |-> r2, name |-> n2]} \cap [id : Routes, name : Names]
MCDeparts == [r \in Routes |-> 1]
=============================================================================
