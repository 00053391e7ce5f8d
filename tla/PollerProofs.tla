---------------------------- MODULE PollerProofs ----------------------------
(***************************************************************************)
(* What Poller guarantees for any set of routes, jitter and backoff.       *)
(***************************************************************************)
EXTENDS Poller, WellFoundedInduction, TLAPS

\* The initial state has its types.
LEMMA TypeInit == Init => TypeOK
  BY PollerAssumption DEF PollerAssumption, Init, Started, TypeOK

\* Every step keeps them.
LEMMA TypeStep == TypeOK /\ [Next]_vars => TypeOK'
<1> SUFFICES ASSUME TypeOK, [Next]_vars PROVE TypeOK'
  OBVIOUS
<1> USE PollerAssumption DEF PollerAssumption, TypeOK
<1>1. CASE Answered
  BY <1>1 DEF Answered, NotModified, OK, RunSucceeded
<1>2. CASE RequestFails \/ BodyFails
  BY <1>2 DEF RequestFails, BodyFails, RunFailed
<1>3. CASE ParseRoutes \/ DrawJitter \/ IntervalOver
  BY <1>3 DEF ParseRoutes, DrawJitter, IntervalOver
<1>4. CASE StoreDone
  BY <1>4 DEF StoreDone, RunSucceeded
<1>5. CASE BackoffOver
  BY <1>5 DEF BackoffOver
<1>6. ASSUME NEW r \in Routes, UpsertRoute(r) PROVE TypeOK'
  BY <1>6 DEF UpsertRoute
<1>7. CASE Crash
  BY <1>7 DEF Crash, Started
<1>8. CASE Relist \/ UNCHANGED vars
  BY <1>8 DEF Relist, vars
<1>9. CASE EmptyBody
  BY <1>9 DEF EmptyBody, RunSucceeded
<1> QED
  BY <1>1, <1>2, <1>3, <1>4, <1>5, <1>6, <1>7, <1>8, <1>9 DEF Next, Working

\* The loop variables and the backoff keep their range (TypeOK).
THEOREM PollerTypes == Spec => []TypeOK
  BY TypeInit, TypeStep, PTL DEF Spec

\* Of every listing the poller has a tag for, and of the last one it saw, the
\* part that is not stored is in the answer it is working on, or was lost.
Settling ==
  /\ pc \in {"body", "store"} => seen \subseteq stored \cup answer \cup lost
  /\ pc \notin {"body", "store"} => answer = {}
  /\ \A L \in etag : L \subseteq stored \cup answer \cup lost
  /\ status = "ok" => seen \subseteq stored \cup answer \cup lost

\* It holds initially.
LEMMA SettlingInit == Init => Settling
  BY DEF Init, Started, Settling

\* A run that fails moves what it had in hand to what was lost.
LEMMA SettlingStep ==
  ASSUME TypeOK, Settling, [Next]_vars
  PROVE  Settling'
<1> USE DEF Settling
<1>1. CASE NotModified
  BY <1>1 DEF NotModified, RunSucceeded
<1>2. ASSUME NEW tagged \in TagHeader, OK(tagged) PROVE Settling'
  BY <1>2 DEF OK
<1>3. CASE RequestFails
  BY <1>3 DEF RequestFails, RunFailed
<1>4. CASE BodyFails
  <2>1. answer' = {} /\ lost' = lost \cup (answer \ stored) /\ status' = "error"
    BY <1>4 DEF BodyFails, RunFailed
  <2>2. UNCHANGED <<stored, etag, seen>> /\ pc' \in {"loop", "backoff"}
    BY <1>4 DEF BodyFails, RunFailed
  <2> QED
    BY <2>1, <2>2
<1>5. CASE ParseRoutes \/ DrawJitter \/ IntervalOver \/ BackoffOver
  BY <1>5 DEF ParseRoutes, DrawJitter, IntervalOver, BackoffOver
<1>6. CASE StoreDone
  BY <1>6 DEF StoreDone, RunSucceeded
<1>7. ASSUME NEW r \in Routes, UpsertRoute(r) PROVE Settling'
  <2>1. /\ answer' = answer \ {r} /\ pc = "store"
        /\ UNCHANGED <<etag, pc, status, seen>>
    BY <1>7 DEF UpsertRoute
  <2>2. \A S : S \subseteq stored \cup answer \cup lost
                => S \subseteq stored' \cup answer' \cup lost'
    BY <1>7, <2>1 DEF UpsertRoute
  <2> QED
    BY <2>1, <2>2
<1>8. CASE Crash
  BY <1>8 DEF Crash, Started
<1>9. CASE Relist \/ UNCHANGED vars
  BY <1>9 DEF Relist, vars
<1>10. CASE EmptyBody
  <2>1. /\ answer' = {} /\ lost' = lost \cup (answer \ stored) /\ pc = "body" /\ pc' = "loop"
        /\ UNCHANGED <<stored, etag, seen>>
    BY <1>10 DEF EmptyBody, RunSucceeded
  <2> QED
    BY <2>1
<1> QED
  BY <1>1, <1>2, <1>3, <1>4, <1>5, <1>6, <1>7, <1>8, <1>9, <1>10 DEF Next, Answered, Working

\* Whatever fails and however often the process restarts, a 304 answer stands
\* for no route that is not stored, but for those of a body that broke or
\* was empty, or of an upsert that failed (CachedTagMeansStored).
THEOREM TagMeansStored == Spec => []CachedTagMeansStored
<1>1. TypeOK /\ Settling /\ [Next]_vars => TypeOK' /\ Settling'
  BY TypeStep, SettlingStep
<1>2. Init => TypeOK /\ Settling
  BY TypeInit, SettlingInit
<1>3. Settling => CachedTagMeansStored
  BY DEF Settling, CachedTagMeansStored, BetweenRuns
<1> QED
  BY <1>1, <1>2, <1>3, PTL DEF Spec

\* A status without an error stands for a listing that is in the table, with the
\* same exception (StatusHonest).
THEOREM StatusIsHonest == Spec => []StatusHonest
<1>1. TypeOK /\ Settling /\ [Next]_vars => TypeOK' /\ Settling'
  BY TypeStep, SettlingStep
<1>2. Init => TypeOK /\ Settling
  BY TypeInit, SettlingInit
<1>3. Settling => StatusHonest
  BY DEF Settling, StatusHonest, BetweenRuns
<1> QED
  BY <1>1, <1>2, <1>3, PTL DEF Spec

-----------------------------------------------------------------------------
\* A set of numbers that is not empty has a least one: what induction needs.
LEMMA Least ==
  ASSUME NEW T, T \subseteq Nat, T # {}
  PROVE  \E n \in T : \A m \in T : ~(m < n)
<1> DEFINE Less == OpToRel(<, Nat)
<1>1. IsWellFoundedOn(Less, Nat)
  BY NatLessThanWellFounded
<1>2. \A m, n \in Nat : <<m, n>> \in Less <=> m < n
  BY DEF OpToRel
<1> HIDE DEF Less
<1>3. \E n \in T : \A m \in T : <<m, n>> \notin Less
  BY <1>1, WFMin
<1> QED
  BY <1>2, <1>3

\* g is Doubled as far as n.
Chain(n, g) ==
  /\ g \in [0 .. n -> Nat] /\ g[0] = 1
  /\ \A k \in 0 .. n : k # 0 => g[k] = 2 * g[k - 1]

\* There is one for every n.
LEMMA Chains == \A n \in Nat : \E g : Chain(n, g)
<1> DEFINE T == {n \in Nat : ~ \E g : Chain(n, g)}
<1>1. SUFFICES ASSUME T # {} PROVE FALSE
  OBVIOUS
<1>2. PICK n \in T : \A m \in T : ~(m < n)
  BY <1>1, Least
<1>3. n # 0
  <2>1. Chain(0, [k \in 0 .. 0 |-> 1])
    BY DEF Chain
  <2> QED
    BY <2>1
<1>4. n - 1 \in Nat /\ n - 1 \notin T
  BY <1>2, <1>3
<1>5. PICK g : Chain(n - 1, g)
  BY <1>4
<1> DEFINE h == [k \in 0 .. n |-> IF k = n THEN 2 * g[n - 1] ELSE g[k]]
<1>6. Chain(n, h)
  BY <1>3, <1>4, <1>5 DEF Chain
<1> QED
  BY <1>6

\* Two of them agree where both are.
LEMMA Agree ==
  ASSUME NEW m \in Nat, NEW n \in Nat, NEW g, NEW h, Chain(m, g), Chain(n, h), NEW k \in 0 .. m, k <= n
  PROVE  g[k] = h[k]
<1> DEFINE T == {j \in Nat : j <= m /\ j <= n /\ g[j] # h[j]}
<1>1. SUFFICES ASSUME T # {} PROVE FALSE
  OBVIOUS
<1>2. PICK j \in T : \A i \in T : ~(i < j)
  BY <1>1, Least
<1>3. j # 0
  BY DEF Chain
<1>4. j - 1 \in Nat /\ j - 1 \notin T
  BY <1>2, <1>3
<1> QED
  BY <1>3, <1>4 DEF Chain

\* So the recursion defines what it says.
LEMMA DoubledDef == Doubled = [k \in Nat |-> IF k = 0 THEN 1 ELSE 2 * Doubled[k - 1]]
<1> DEFINE F(n) == CHOOSE g : Chain(n, g)
           d == [k \in Nat |-> F(k)[k]]
<1>1. \A n \in Nat : Chain(n, F(n))
  BY Chains
<1> HIDE DEF F
<1>2. ASSUME NEW k \in Nat PROVE d[k] = IF k = 0 THEN 1 ELSE 2 * d[k - 1]
  <2>1. CASE k = 0
    BY <2>1, <1>1 DEF Chain
  <2>2. CASE k # 0
    <3>1. k - 1 \in Nat /\ k - 1 <= k
      BY <2>2
    <3>2. F(k)[k] = 2 * F(k)[k - 1]
      BY <1>1, <2>2 DEF Chain
    <3>3. F(k - 1)[k - 1] = F(k)[k - 1]
      BY <3>1, <1>1, Agree
    <3> QED
      BY <3>1, <3>2, <3>3, <2>2
  <2> QED
    BY <2>1, <2>2
<1>3. d = [k \in Nat |-> IF k = 0 THEN 1 ELSE 2 * d[k - 1]]
  BY <1>2
<1> HIDE DEF d
<1> QED
  BY <1>3 DEF Doubled

\* From one power to the next, the cap included.
LEMMA Doubles ==
  /\ Capped(Doubled[0]) = 1
  /\ \A k \in Nat : /\ Doubled[k] \in Nat
                    /\ Capped(Doubled[k + 1]) = Capped(2 * Capped(Doubled[k]))
<1>1. Doubled[0] = 1 /\ \A k \in Nat : Doubled[k + 1] = 2 * Doubled[k]
  <2>1. \A k \in Nat : k + 1 \in Nat /\ k + 1 # 0 /\ (k + 1) - 1 = k
    OBVIOUS
  <2> QED
    BY <2>1, DoubledDef
<1>2. \A k \in Nat : Doubled[k] \in Nat
  <2>1. SUFFICES ASSUME {k \in Nat : Doubled[k] \notin Nat} # {} PROVE FALSE
    OBVIOUS
  <2>2. PICK k \in Nat : Doubled[k] \notin Nat /\ \A j \in Nat : Doubled[j] \notin Nat => ~(j < k)
    BY <2>1, Least
  <2>3. k # 0 /\ k - 1 \in Nat /\ (k - 1) + 1 = k /\ k - 1 < k
    BY <2>2, <1>1
  <2>4. Doubled[k] = 2 * Doubled[k - 1]
    BY <1>1, <2>3
  <2>5. Doubled[k - 1] \in Nat
    BY <2>2, <2>3
  <2> QED
    BY <2>2, <2>4, <2>5
<1> QED
  BY <1>1, <1>2, PollerAssumption DEF PollerAssumption, Capped

\* The first run has not backed off yet, and a backoff follows a failure.
Backed ==
  /\ first => backoff = 1 /\ fails = 0 /\ pc # "backoff"
  /\ pc = "backoff" => fails = MaxFails \/ fails > 0

\* The failures in a row and the backoff go together.
LEMMA BackedStep ==
  ASSUME TypeOK, Backed, BackoffDoubles, [Next]_vars
  PROVE  Backed' /\ BackoffDoubles'
<1> USE DEF Backed
<1>t. fails \in Nat /\ fails <= MaxFails /\ MaxFails \in Nat
  BY PollerAssumption DEF PollerAssumption, TypeOK
<1>d. /\ pc # "backoff" /\ fails < MaxFails => backoff = Capped(Doubled[fails])
      /\ pc = "backoff" /\ fails < MaxFails => backoff = Capped(Doubled[fails - 1])
  BY DEF BackoffDoubles
<1>1. ASSUME RunFailed, pc # "backoff" PROVE Backed' /\ BackoffDoubles'
  <2>1. CASE first
    BY <1>1, <1>t, <1>d, <2>1 DEF RunFailed, BackoffDoubles
  <2>2. CASE ~first
    <3>1. pc' = "backoff" /\ first' = first /\ backoff' = backoff
      BY <1>1, <2>2 DEF RunFailed
    <3>2. fails' = IF fails = MaxFails THEN fails ELSE fails + 1
      BY <1>1, <2>2 DEF RunFailed
    <3>3. fails' < MaxFails => fails < MaxFails /\ fails' - 1 = fails
      BY <3>2, <1>t
    <3> QED
      BY <1>1, <1>t, <1>d, <2>2, <3>1, <3>2, <3>3 DEF BackoffDoubles
  <2> QED
    BY <2>1, <2>2
<1>2. ASSUME RunSucceeded, pc # "backoff" PROVE Backed' /\ BackoffDoubles'
  <2>1. pc' = "loop" /\ fails' = 0 /\ backoff' = 1 /\ first' = first
    BY <1>2 DEF RunSucceeded
  <2> QED
    BY <2>1, Doubles DEF BackoffDoubles
<1>3. CASE BackoffOver
  <2>1. /\ pc = "backoff" /\ pc' = "loop" /\ UNCHANGED <<first, fails>>
        /\ backoff' = Capped(2 * backoff)
    BY <1>3 DEF BackoffOver, Capped
  <2>2. CASE fails < MaxFails
    <3>1. fails - 1 \in Nat /\ (fails - 1) + 1 = fails
      BY <2>1, <2>2, <1>t
    <3>2. backoff' = Capped(Doubled[fails])
      BY <2>1, <2>2, <3>1, <1>d, Doubles
    <3> QED
      BY <2>1, <3>2 DEF BackoffDoubles
  <2> QED
    BY <2>1, <2>2 DEF BackoffDoubles
<1>4. CASE Crash
  BY <1>4, Doubles DEF Crash, Started, BackoffDoubles
<1>5. CASE IntervalOver
  BY <1>5, <1>d DEF IntervalOver, BackoffDoubles
<1>6. ASSUME pc # "backoff", pc' # "backoff", UNCHANGED <<first, backoff, fails>>
      PROVE  Backed' /\ BackoffDoubles'
  BY <1>6, <1>d DEF BackoffDoubles
<1>7. CASE Relist \/ UNCHANGED vars
  BY <1>7 DEF Relist, vars, BackoffDoubles
<1>8. CASE RequestFails \/ BodyFails
  BY <1>8, <1>1 DEF RequestFails, BodyFails
<1>9. CASE NotModified \/ EmptyBody \/ StoreDone
  BY <1>9, <1>2 DEF NotModified, EmptyBody, StoreDone
<1>10. CASE (\E tagged \in TagHeader : OK(tagged)) \/ ParseRoutes \/ DrawJitter
            \/ \E r \in Routes : UpsertRoute(r)
  BY <1>10, <1>6 DEF OK, ParseRoutes, DrawJitter, UpsertRoute
<1> QED
  BY <1>3, <1>4, <1>5, <1>7, <1>8, <1>9, <1>10 DEF Next, Answered, Working

\* For any cap and however the failures are spread over restarts, the backoff is
\* two to the number of failures in a row, up to the cap (BackoffDoubles).
THEOREM BackoffIsPower == Spec => []BackoffDoubles
<1>1. Init => TypeOK /\ Backed /\ BackoffDoubles
  <2>1. Init => Backed /\ BackoffDoubles
    BY Doubles DEF Init, Started, Backed, BackoffDoubles
  <2> QED
    BY <2>1, TypeInit
<1>2. TypeOK /\ Backed /\ BackoffDoubles /\ [Next]_vars => TypeOK' /\ Backed' /\ BackoffDoubles'
  BY TypeStep, BackedStep
<1> QED
  BY <1>1, <1>2, PTL DEF Spec
=============================================================================
