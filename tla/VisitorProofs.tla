--------------------------- MODULE VisitorProofs ---------------------------
(***************************************************************************)
(* What a visitor may rely on, for any routes, page size, entries, forms   *)
(* and behaviour of the poller: first the reader of the route list, then   *)
(* the strings of WatchMatch.                                              *)
(***************************************************************************)
EXTENDS Visitor, FiniteSetTheorems, SequenceTheorems, WellFoundedInduction, TLAPS

\* A set of numbers that is not empty has a least one: what induction needs.
LEMMA Least ==
  ASSUME NEW T, T \subseteq Nat, T # {}
  PROVE  \E n \in T : \A m \in T : n <= m
<1> DEFINE Less == OpToRel(<, Nat)
<1>1. IsWellFoundedOn(Less, Nat)
  BY NatLessThanWellFounded
<1>2. \A m, n \in Nat : <<m, n>> \in Less <=> m < n
  BY DEF OpToRel
<1> HIDE DEF Less
<1>3. PICK n \in T : \A m \in T : <<m, n>> \notin Less
  BY <1>1, WFMin
<1>4. ASSUME NEW m \in T PROVE n <= m
  <2>1. ~(m < n)
    BY <1>2, <1>3
  <2> QED
    BY <2>1
<1> QED
  BY <1>4

-----------------------------------------------------------------------------
(* The pages of RouteList                                                  *)

\* A finite set of numbers has a greatest one.
LEMMA Greatest ==
  ASSUME NEW R \in SUBSET Nat, IsFiniteSet(R), R # {}
  PROVE  \E m \in R : \A r \in R : r <= m
<1> DEFINE Bad(S) == IsFiniteSet(S) /\ S # {} /\ ~ \E m \in S : \A r \in S : r <= m
           T == {n \in Nat : \E S \in SUBSET Nat : Bad(S) /\ Cardinality(S) = n}
<1>1. SUFFICES T = {}
  <2>1. Cardinality(R) \in Nat
    BY FS_CardinalityType
  <2> QED
    BY <2>1
<1>2. SUFFICES ASSUME T # {} PROVE FALSE
  OBVIOUS
<1>3. PICK n \in T : \A m \in T : n <= m
  BY <1>2, Least
<1>4. PICK S \in SUBSET Nat : Bad(S) /\ Cardinality(S) = n
  BY <1>3
<1>5. PICK x \in S : TRUE
  BY <1>4
<1>6. IsFiniteSet(S \ {x}) /\ Cardinality(S \ {x}) = n - 1
  BY <1>4, <1>5, FS_RemoveElement
<1>7. S \ {x} = {} \/ \E m \in S \ {x} : \A r \in S \ {x} : r <= m
  <2>1. n - 1 \notin T
    BY <1>3
  <2>2. n - 1 \in Nat
    BY <1>6, FS_CardinalityType
  <2> QED
    BY <1>6, <2>1, <2>2
<1>8. CASE S \ {x} = {}
  BY <1>4, <1>5, <1>8
<1>9. ASSUME NEW m \in S \ {x}, \A r \in S \ {x} : r <= m PROVE FALSE
  <2>1. CASE x <= m
    BY <1>4, <1>9, <2>1
  <2>2. CASE ~(x <= m)
    BY <1>4, <1>9, <2>2
  <2> QED
    BY <2>1, <2>2
<1> QED
  BY <1>7, <1>8, <1>9

\* The rows that come before r.
Before(R, r) == {s \in R : s < r}

\* They are counted by a number, smaller than the number of rows.
LEMMA Ranks ==
  ASSUME NEW R \in SUBSET Nat, IsFiniteSet(R), NEW r
  PROVE  /\ IsFiniteSet(Before(R, r)) /\ Cardinality(Before(R, r)) \in Nat /\ Cardinality(R) \in Nat
         /\ r \in R => Cardinality(Before(R, r)) < Cardinality(R)
<1>1. Before(R, r) \subseteq R
  BY DEF Before
<1>2. r \in R => r \notin Before(R, r)
  BY DEF Before
<1> QED
  BY <1>1, <1>2, FS_Subset, FS_CardinalityType

\* A row that is added, wherever it stands, moves no row forward.
LEMMA RanksRise ==
  ASSUME NEW R \in SUBSET Nat, IsFiniteSet(R), NEW n \in Nat, n \notin R, NEW r
  PROVE  /\ IsFiniteSet(R \cup {n}) /\ Cardinality(R \cup {n}) = Cardinality(R) + 1
         /\ Cardinality(Before(R, r)) <= Cardinality(Before(R \cup {n}, r))
<1>1. IsFiniteSet(R \cup {n}) /\ Cardinality(R \cup {n}) = Cardinality(R) + 1
  BY FS_AddElement
<1>2. R \cup {n} \in SUBSET Nat
  OBVIOUS
<1>3. IsFiniteSet(Before(R \cup {n}, r))
  BY <1>1, <1>2, Ranks
<1>4. Before(R, r) \subseteq Before(R \cup {n}, r)
  BY DEF Before
<1> QED
  BY <1>1, <1>3, <1>4, FS_Subset

\* Every number below that of the rows is the rank of one of them.
LEMMA RankTaken ==
  ASSUME NEW R \in SUBSET Nat, IsFiniteSet(R), NEW k \in Nat, k < Cardinality(R)
  PROVE  \E r \in R : Cardinality(Before(R, r)) = k
<1> DEFINE T == {r \in R : Cardinality(Before(R, r)) >= k}
<1>1. \E m \in R : Cardinality(Before(R, m)) = Cardinality(R) - 1
  <2>1. R # {}
    BY FS_EmptySet
  <2>2. PICK m \in R : \A r \in R : r <= m
    BY <2>1, Greatest
  <2>3. Before(R, m) = R \ {m}
    <3>1. \A s \in R : s < m <=> s # m
      BY <2>2
    <3> QED
      BY <3>1 DEF Before
  <2> QED
    BY <2>3, FS_RemoveElement
<1>2. T # {}
  BY <1>1, Ranks
<1>3. PICK r \in T : \A q \in T : r <= q
  BY <1>2, Least
<1>4. ASSUME Cardinality(Before(R, r)) > k PROVE FALSE
  <2> DEFINE B == Before(R, r)
  <2>1. B \in SUBSET Nat /\ IsFiniteSet(B) /\ B # {}
    <3>1. B \in SUBSET Nat /\ IsFiniteSet(B)
      BY Ranks DEF Before
    <3>2. B # {}
      <4>1. SUFFICES ASSUME B = {} PROVE FALSE
        OBVIOUS
      <4>2. Cardinality(Before(R, r)) = 0
        BY <4>1, FS_EmptySet
      <4> QED
        BY <4>2, <1>4
    <3> QED
      BY <3>1, <3>2
  <2>2. PICK m \in B : \A b \in B : b <= m
    BY <2>1, Greatest
  <2>3. m \in R /\ m < r
    BY <2>2 DEF Before
  <2>4. Before(R, m) = B \ {m}
    <3>1. r \in Nat /\ m \in Nat
      BY <1>3, <2>3
    <3>2. ASSUME NEW s \in R PROVE s < m <=> (s < r /\ s # m)
      <4>1. s < r => s <= m
        BY <2>2 DEF Before
      <4> QED
        BY <3>1, <4>1, <2>3
    <3> QED
      BY <3>2 DEF Before
  <2>5. Cardinality(Before(R, m)) = Cardinality(B) - 1
    <3> HIDE DEF B
    <3> QED
      BY <2>1, <2>2, <2>4, FS_RemoveElement
  <2>6. m \in T
    BY <1>4, <2>1, <2>3, <2>5, FS_CardinalityType
  <2> QED
    BY <1>3, <2>3, <2>6
<1> QED
  BY <1>3, <1>4, Ranks

\* handleRoutes links to the page after p exactly when the rows counted do not
\* fit on p pages.
LEMMA Links ==
  ASSUME NEW n \in Nat, NEW p \in Nat \ {0}
  PROVE  NextPage(n, p) = IF n <= p * PageSize THEN 0 ELSE p + 1
<1>1. PageSize \in Nat \ {0}
  BY RouteListAssumption DEF RouteListAssumption
<1> DEFINE q == (n + PageSize - 1) \div PageSize
<1>2. q \in Int /\ q * PageSize <= n + PageSize - 1 /\ n + PageSize - 1 < q * PageSize + PageSize
  BY <1>1
<1>3. \A x, y \in Int : x <= y => x * PageSize <= y * PageSize
  BY <1>1
<1>4. /\ p * PageSize \in Nat /\ q * PageSize \in Int
      /\ (p + 1) * PageSize = p * PageSize + PageSize
      /\ p * PageSize >= PageSize
  BY <1>1, <1>2
<1>5. n # 0 => (p + 1 > q <=> n <= p * PageSize)
  <2>1. ASSUME q <= p PROVE n <= p * PageSize
    <3>1. q * PageSize <= p * PageSize
      BY <1>2, <1>3, <2>1
    <3> HIDE DEF q
    <3> QED
      BY <1>1, <1>2, <1>4, <3>1
  <2>2. ASSUME p + 1 <= q PROVE ~(n <= p * PageSize)
    <3>1. (p + 1) * PageSize <= q * PageSize
      BY <1>2, <1>3, <2>2
    <3> HIDE DEF q
    <3> QED
      BY <1>1, <1>2, <1>4, <3>1
  <2> HIDE DEF q
  <2> QED
    BY <1>2, <2>1, <2>2
<1>6. CASE n = 0
  BY <1>4, <1>6 DEF NextPage
<1>7. CASE n # 0
  <2>1. NextPage(n, p) = IF p + 1 > q THEN 0 ELSE p + 1
    BY <1>7 DEF NextPage
  <2> HIDE DEF q
  <2> QED
    BY <1>5, <1>7, <2>1
<1> QED
  BY <1>6, <1>7

\* How far down the list a row is.
Rank(r) == Cardinality(Before(rows, r))

\* What the reader has not seen yet stands on the page asked for, or after it.
Walked ==
  /\ at = "away" => unseen = {}
  /\ ~broken =>
       /\ unseen \subseteq rows
       /\ \A r \in unseen : Rank(r) >= (page - 1) * PageSize
       /\ at = "page" => \A r \in unseen : Rank(r) >= page * PageSize
       /\ at = "search" => total <= Cardinality(rows) /\ (raced \/ total = Cardinality(rows))
       /\ at = "page" => /\ next \in {0, page + 1}
                         /\ next # 0 => page * PageSize < Cardinality(rows)
                         /\ next = 0 /\ ~raced => unseen = {}

ListTypes ==
  /\ rows \in SUBSET Nat /\ IsFiniteSet(rows)
  /\ at \in {"away", "count", "search", "page"}
  /\ page \in Nat \ {0} /\ total \in Nat /\ next \in Nat
  /\ raced \in BOOLEAN /\ broken \in BOOLEAN

\* Every step keeps the types.
LEMMA ListTypesStep == ListTypes /\ [Next]_vars => ListTypes'
<1> SUFFICES ASSUME ListTypes, [Next]_vars PROVE ListTypes'
  OBVIOUS
<1> USE DEF ListTypes
<1>1. CASE Open \/ Leave \/ UNCHANGED vars
  <2>1. rows' = rows
    BY <1>1 DEF Open, Leave, vars
  <2>2. raced' \in BOOLEAN /\ broken' \in BOOLEAN
    BY <1>1, Zenon DEF Open, Leave, vars
  <2>3. /\ at' \in {"away", "count", "search", "page"}
        /\ page' \in Nat \ {0} /\ total' \in Nat /\ next' \in Nat
    BY <1>1 DEF Open, Leave, vars
  <2> QED
    BY <2>1, <2>2, <2>3
<1>2. CASE CountSearchRoutes
  <2>1. Cardinality(rows) \in Nat
    BY FS_CardinalityType
  <2>2. raced' \in BOOLEAN /\ broken' \in BOOLEAN
    BY <1>2, Zenon DEF CountSearchRoutes
  <2>3. rows' = rows /\ at' = "search" /\ page' = page /\ total' \in Nat /\ next' = next
    BY <1>2, <2>1 DEF CountSearchRoutes
  <2> QED
    BY <2>2, <2>3
<1>3. CASE SearchRoutes
  <2>1. next' \in Nat
    <3>1. total \in Nat /\ page \in Nat \ {0} /\ next' = NextPage(total, page)
      BY <1>3 DEF SearchRoutes
    <3>2. next' \in {0, page + 1}
      BY <3>1, Links
    <3> QED
      BY <3>1, <3>2
  <2> QED
    BY <1>3, <2>1 DEF SearchRoutes
<1>4. CASE Follow
  BY <1>4 DEF Follow
<1>5. ASSUME NEW r \in Rows, Store(r) PROVE ListTypes'
  <2>1. rows' \in SUBSET Nat /\ IsFiniteSet(rows')
    BY <1>5, RouteListAssumption, FS_AddElement DEF RouteListAssumption, Store
  <2> QED
    BY <1>5, <2>1 DEF Store
<1>6. ASSUME NEW r \in Rows, Rename(r) PROVE ListTypes'
  <2>1. rows' \in SUBSET Nat /\ IsFiniteSet(rows')
    BY <1>6, FS_RemoveElement DEF Rename
  <2> QED
    BY <1>6, <2>1 DEF Rename
<1> QED
  BY <1>1, <1>2, <1>3, <1>4, <1>5, <1>6 DEF Next

\* The rows of a page, by their ranks.
LEMMA OnPage ==
  ASSUME NEW R \in SUBSET Nat, IsFiniteSet(R), NEW p \in Nat \ {0}, NEW r \in R
  PROVE  r \in PageOf(R, p) <=> /\ Cardinality(Before(R, r)) >= (p - 1) * PageSize
                                /\ Cardinality(Before(R, r)) < p * PageSize
<1>1. PageSize \in Nat \ {0} /\ Cardinality(Before(R, r)) \in Nat
  BY RouteListAssumption, Ranks DEF RouteListAssumption
<1>2. (p - 1) * PageSize \in Nat /\ p * PageSize = (p - 1) * PageSize + PageSize
  BY <1>1
<1>3. r \in PageOf(R, p) <=>
        Cardinality(Before(R, r)) \in (p - 1) * PageSize .. (p - 1) * PageSize + PageSize - 1
  BY DEF PageOf, Before
<1> QED
  BY <1>1, <1>2, <1>3

\* A page after the first, if the rows do not all fit before it, has rows.
LEMMA PageNotEmpty ==
  ASSUME NEW R \in SUBSET Nat, IsFiniteSet(R), NEW p \in Nat \ {0},
         p * PageSize < Cardinality(R)
  PROVE  PageOf(R, p + 1) # {}
<1>1. PageSize \in Nat \ {0} /\ p * PageSize \in Nat
  BY RouteListAssumption DEF RouteListAssumption
<1>2. PICK r \in R : Cardinality(Before(R, r)) = p * PageSize
  BY <1>1, RankTaken
<1>3. (p + 1) - 1 = p /\ p + 1 \in Nat \ {0} /\ (p + 1) * PageSize = p * PageSize + PageSize
  BY <1>1
<1>4. r \in PageOf(R, p + 1)
  BY <1>1, <1>2, <1>3, OnPage
<1> QED
  BY <1>4

\* Every step keeps what is left to be seen ahead of the reader.
LEMMA WalkedStep == ListTypes /\ Walked /\ [Next]_vars => Walked'
<1> SUFFICES ASSUME ListTypes, Walked, [Next]_vars PROVE Walked'
  OBVIOUS
<1> USE DEF ListTypes
<1>s. PageSize \in Nat \ {0}
  BY RouteListAssumption DEF RouteListAssumption
<1>c. Cardinality(rows) \in Nat /\ \A r : Rank(r) \in Nat /\ (r \in rows => Rank(r) < Cardinality(rows))
  BY Ranks DEF Rank
<1>1. CASE Open
  <2>1. /\ at' = "count" /\ page' = 1 /\ rows' = rows /\ unseen' = rows
    BY <1>1 DEF Open
  <2>2. \A r : Rank(r)' = Cardinality(Before(rows, r))
    BY <2>1 DEF Rank
  <2>3. (page' - 1) * PageSize = 0
    BY <1>s, <2>1
  <2>4. \A r : Rank(r)' >= (page' - 1) * PageSize
    BY <1>c, <2>2, <2>3 DEF Rank
  <2> QED
    BY <2>1, <2>4 DEF Walked
<1>2. CASE CountSearchRoutes
  <2>1. /\ at' = "search" /\ UNCHANGED <<rows, page, unseen>>
        /\ broken' \/ (total' = Cardinality(rows) /\ broken' = broken)
    BY <1>2 DEF CountSearchRoutes
  <2> QED
    BY <1>c, <2>1 DEF Walked, Rank
<1>3. CASE SearchRoutes
  <2>1. SUFFICES ASSUME ~broken' PROVE Walked'
    BY <1>3 DEF Walked, SearchRoutes
  <2>2. /\ at = "search" /\ at' = "page" /\ UNCHANGED <<rows, page, raced>> /\ ~broken
        /\ next' = NextPage(total, page) /\ unseen' = unseen \ PageOf(rows, page)
    BY <1>3, <2>1 DEF SearchRoutes
  <2>3. /\ total <= Cardinality(rows) /\ (raced \/ total = Cardinality(rows))
        /\ unseen \subseteq rows /\ \A r \in unseen : Rank(r) >= (page - 1) * PageSize
    BY <2>2 DEF Walked
  <2>4. \A r \in unseen' : r \in unseen /\ r \in rows /\ Rank(r) >= page * PageSize
    <3>1. page * PageSize \in Nat
      BY <1>s
    <3> QED
      BY <1>c, <2>2, <2>3, <3>1, OnPage DEF Rank
  <2>5. next' = IF total <= page * PageSize THEN 0 ELSE page + 1
    BY <2>2, Links
  <2>6. page * PageSize \in Nat /\ page + 1 # 0
    BY <1>s
  <2>7. next' # 0 => page * PageSize < Cardinality(rows)
    BY <1>c, <2>3, <2>5, <2>6
  <2>8. next' = 0 /\ ~raced => unseen' = {}
    BY <1>c, <2>3, <2>4, <2>5, <2>6
  <2>9. \A r : Rank(r)' = Rank(r)
    BY <2>2 DEF Rank
  <2> QED
    BY <2>2, <2>3, <2>4, <2>5, <2>7, <2>8, <2>9 DEF Walked
<1>4. CASE Follow
  <2>1. SUFFICES ASSUME ~broken' PROVE Walked'
    BY <1>4 DEF Walked, Follow
  <2>2. /\ at = "page" /\ at' = "count" /\ UNCHANGED <<rows, unseen>> /\ ~broken
        /\ page' \in {next, page - 1} \ {0}
    BY <1>4, <2>1 DEF Follow
  <2>3. /\ unseen \subseteq rows /\ next \in {0, page + 1}
        /\ \A r \in unseen : Rank(r) >= page * PageSize
    BY <2>2 DEF Walked
  <2>4. (page' - 1) * PageSize <= page * PageSize
    <3>1. page' - 1 = page \/ page' - 1 = page - 2
      <4>1. page' = page + 1 \/ page' = page - 1
        BY <2>2, <2>3
      <4>2. page \in Nat
        OBVIOUS
      <4> QED
        BY <4>1, <4>2
    <3>2. (page - 2) * PageSize = page * PageSize - 2 * PageSize
      BY <1>s
    <3>3. page * PageSize \in Int
      BY <1>s
    <3> QED
      BY <1>s, <3>1, <3>2, <3>3
  <2>5. page * PageSize \in Int /\ (page' - 1) * PageSize \in Int
    BY <1>s, <2>2
  <2>6. \A r \in unseen : Rank(r)' >= (page' - 1) * PageSize
    <3>1. \A r : Rank(r)' = Rank(r)
      BY <2>2 DEF Rank
    <3> QED
      BY <1>c, <2>3, <2>4, <2>5, <3>1
  <2> QED
    BY <2>2, <2>3, <2>6 DEF Walked
<1>5. CASE Leave
  BY <1>5 DEF Leave, Walked
<1>6. ASSUME NEW n \in Rows, Store(n) PROVE Walked'
  <2>1. /\ rows' = rows \cup {n} /\ n \notin rows /\ n \in Nat
        /\ UNCHANGED <<at, page, total, next, unseen, broken>>
        /\ raced' = (raced \/ at = "search")
    BY <1>6, RouteListAssumption DEF Store, RouteListAssumption
  <2>2. \A r : Rank(r)' \in Nat /\ Rank(r) <= Rank(r)'
    <3>1. rows' \in SUBSET Nat /\ IsFiniteSet(rows')
      BY <2>1, FS_AddElement
    <3>2. \A r : Rank(r)' = Cardinality(Before(rows', r))
      BY DEF Rank
    <3>3. \A r : Cardinality(Before(rows', r)) \in Nat
      BY <3>1, Ranks
    <3>4. \A r : Cardinality(Before(rows, r)) <= Cardinality(Before(rows', r))
      BY <2>1, RanksRise
    <3> QED
      BY <3>2, <3>3, <3>4 DEF Rank
  <2>3. Cardinality(rows') = Cardinality(rows) + 1
    BY <2>1, FS_AddElement
  <2>4. (page - 1) * PageSize \in Int /\ page * PageSize \in Int
    BY <1>s
  <2>5. ASSUME ~broken, NEW r \in unseen
        PROVE  Rank(r)' >= (page - 1) * PageSize /\ (at = "page" => Rank(r)' >= page * PageSize)
    BY <1>c, <2>2, <2>4, <2>5 DEF Walked
  <2>6. /\ at = "search" /\ ~broken => total <= Cardinality(rows') /\ raced'
        /\ at = "page" /\ next # 0 /\ ~broken => page * PageSize < Cardinality(rows')
    <3>1. at = "search" => raced'
      BY <2>1, Zenon
    <3>2. at = "search" /\ ~broken => total <= Cardinality(rows)
      BY DEF Walked
    <3>3. at = "page" /\ next # 0 /\ ~broken => page * PageSize < Cardinality(rows)
      BY DEF Walked
    <3>4. total \in Nat
      OBVIOUS
    <3> QED
      BY <1>c, <2>3, <2>4, <3>1, <3>2, <3>3, <3>4
  <2>7. at = "page" => raced' = raced
    BY <2>1
  <2> QED
    BY <2>1, <2>5, <2>6, <2>7 DEF Walked
<1>7. ASSUME NEW n \in Rows, Rename(n) PROVE Walked'
  BY <1>7 DEF Rename, Walked
<1>8. CASE UNCHANGED vars
  BY <1>8 DEF vars, Walked, Rank
<1> QED
  BY <1>1, <1>2, <1>3, <1>4, <1>5, <1>6, <1>7, <1>8 DEF Next

\* A reader who follows the Next links of handleRoutes to the end has been shown
\* every row there was, and no link leads to an empty page (WalkIsComplete), for
\* every page size and however often the poller stores between two statements.
THEOREM NothingIsSkipped == Spec => []WalkIsComplete
<1>1. Init => ListTypes /\ Walked
  <2> SUFFICES ASSUME Init PROVE ListTypes /\ Walked
    OBVIOUS
  <2>1. ListTypes
    <3>1. rows \in SUBSET Nat /\ IsFiniteSet(rows)
      BY RouteListAssumption DEF RouteListAssumption, Init
    <3>2. raced \in BOOLEAN /\ broken \in BOOLEAN
      BY Zenon DEF Init
    <3>3. at = "away" /\ page = 1 /\ total = 0 /\ next = 0
      BY DEF Init
    <3> QED
      BY <3>1, <3>2, <3>3 DEF ListTypes
  <2>2. at = "away" /\ unseen = {}
    BY DEF Init
  <2> QED
    BY <2>1, <2>2 DEF Walked
<1>2. ListTypes /\ Walked => WalkIsComplete
  <2> SUFFICES ASSUME ListTypes, Walked, at = "page", ~broken, next # 0
               PROVE  PageOf(rows, next) # {}
    BY DEF Walked, WalkIsComplete
  <2>1. next = page + 1 /\ page * PageSize < Cardinality(rows)
    BY DEF Walked
  <2> QED
    BY <2>1, PageNotEmpty DEF ListTypes
<1> QED
  BY <1>1, <1>2, ListTypesStep, WalkedStep, PTL DEF Spec

\* The same for a visitor, who may type forms instead.
THEOREM VisitorSkipsNothing == VisitorSpec => []WalkIsComplete
<1>1. VisitorInit => Init
  BY DEF VisitorInit
<1>2. [VisitorNext]_<<typing, vars>> => [Next]_vars
  BY DEF VisitorNext, Submit, Discard, Walk, vars
<1> QED
  BY <1>1, <1>2, NothingIsSkipped, PTL DEF VisitorSpec, Spec

-----------------------------------------------------------------------------
(* Strings                                                                 *)

\* What a text is, and what becomes of a part of it.
LEMMA Texts ==
  /\ <<>> \in Text /\ Len(<<>>) = 0
  /\ \A s \in Text : /\ Len(s) \in Nat /\ DOMAIN s = 1 .. Len(s) /\ (s = <<>> <=> Len(s) = 0)
                     /\ \A i \in 1 .. Len(s) : s[i] \in Chars
BY EmptySeq, LenProperties, ElementOfSeq DEF Text

LEMMA Parts ==
  ASSUME NEW s \in Text, NEW m \in Nat \ {0}, NEW n \in 0 .. Len(s)
  PROVE  /\ SubSeq(s, m, n) \in Text
         /\ Len(SubSeq(s, m, n)) = IF m <= n THEN n - m + 1 ELSE 0
         /\ \A i \in 1 .. n - m + 1 : SubSeq(s, m, n)[i] = s[m + i - 1]
<1>1. \A i \in m .. n : s[i] \in Chars
  BY Texts
<1> QED
  BY <1>1, Texts, SubSeqProperties DEF Text

LEMMA SameText ==
  ASSUME NEW s \in Text, NEW t \in Text, Len(s) = Len(t), \A i \in 1 .. Len(s) : s[i] = t[i]
  PROVE  s = t
BY SeqEqual DEF Text

\* TrimSpace cuts off what is before the first and after the last solid character.
LEMMA TrimCuts ==
  ASSUME NEW s \in Text, NEW a \in 1 .. Len(s), NEW b \in 1 .. Len(s),
         s[a] # Blank, s[b] # Blank, \A i \in 1 .. Len(s) : s[i] # Blank => a <= i /\ i <= b
  PROVE  TrimSpace(s) = SubSeq(s, a, b)
<1> DEFINE solid == {i \in DOMAIN s : s[i] # Blank}
<1>1. DOMAIN s = 1 .. Len(s) /\ Len(s) \in Nat
  BY Texts
<1>2. a \in solid /\ b \in solid /\ \A i \in solid : a <= i /\ i <= b /\ i \in Nat
  <2>1. a \in Nat /\ b \in Nat /\ a \in solid /\ b \in solid
    BY <1>1
  <2>2. ASSUME NEW i \in solid PROVE a <= i /\ i <= b /\ i \in Nat
    <3>1. i \in 1 .. Len(s) /\ s[i] # Blank
      BY <1>1
    <3> QED
      BY <1>1, <3>1
  <2> QED
    BY <2>1, <2>2
<1> HIDE DEF solid
<1>3. (CHOOSE i \in solid : \A j \in solid : i <= j) = a
  <2>1. ASSUME NEW i \in solid, \A j \in solid : i <= j PROVE i = a
    <3>1. i <= a /\ a <= i /\ a \in Nat /\ i \in Nat
      BY <1>2, <2>1
    <3> QED
      BY <3>1
  <2> QED
    BY <1>2, <2>1
<1>4. (CHOOSE i \in solid : \A j \in solid : i >= j) = b
  <2>1. ASSUME NEW i \in solid, \A j \in solid : i >= j PROVE i = b
    <3>1. i >= b /\ i <= b /\ b \in Nat /\ i \in Nat
      BY <1>2, <2>1
    <3> QED
      BY <3>1
  <2>2. \A j \in solid : b >= j
    BY <1>2
  <2> QED
    BY <1>2, <2>1, <2>2
<1>5. solid # {}
  BY <1>2
<1> QED
  BY <1>3, <1>4, <1>5 DEF TrimSpace, solid

\* Nothing is left of blanks, and only of blanks.
LEMMA TrimBlank ==
  ASSUME NEW s \in Text, \A i \in 1 .. Len(s) : s[i] = Blank
  PROVE  TrimSpace(s) = <<>>
BY Texts DEF TrimSpace

\* Of everything else there is a part, with solid characters at both ends.
LEMMA TrimSolid ==
  ASSUME NEW s \in Text, NEW k \in 1 .. Len(s), s[k] # Blank
  PROVE  \E a, b \in 1 .. Len(s) :
           /\ a <= k /\ k <= b /\ s[a] # Blank /\ s[b] # Blank
           /\ TrimSpace(s) = SubSeq(s, a, b)
<1> DEFINE solid == {i \in 1 .. Len(s) : s[i] # Blank}
<1>0. Len(s) \in Nat
  BY Texts
<1>1. solid \in SUBSET Nat /\ k \in solid /\ solid \subseteq 1 .. Len(s)
  BY <1>0
<1>2. IsFiniteSet(solid)
  <2>1. IsFiniteSet(1 .. Len(s))
    BY <1>0, FS_Interval
  <2> QED
    BY <1>1, <2>1, FS_Subset
<1>3. PICK a \in solid : \A i \in solid : a <= i
  BY <1>1, Least
<1>4. PICK b \in solid : \A i \in solid : i <= b
  BY <1>1, <1>2, Greatest
<1>5. TrimSpace(s) = SubSeq(s, a, b)
  <2>1. a \in 1 .. Len(s) /\ b \in 1 .. Len(s) /\ s[a] # Blank /\ s[b] # Blank
    OBVIOUS
  <2>2. \A i \in 1 .. Len(s) : s[i] # Blank => a <= i /\ i <= b
    BY <1>3, <1>4
  <2> QED
    BY <2>1, <2>2, TrimCuts
<1> QED
  BY <1>1, <1>3, <1>4, <1>5

\* What TrimSpace returns has no blanks at its ends, and it leaves that alone.
LEMMA Trims ==
  ASSUME NEW s \in Text
  PROVE  /\ TrimSpace(s) \in Text
         /\ TrimSpace(s) # <<>> => TrimSpace(s)[1] # Blank /\ TrimSpace(s)[Len(TrimSpace(s))] # Blank
         /\ TrimSpace(s) = <<>> <=> \A i \in 1 .. Len(s) : s[i] = Blank
<1>1. CASE \A i \in 1 .. Len(s) : s[i] = Blank
  BY <1>1, TrimBlank, Texts
<1>2. CASE \E i \in 1 .. Len(s) : s[i] # Blank
  <2>1. PICK a \in 1 .. Len(s), b \in 1 .. Len(s) :
          a <= b /\ s[a] # Blank /\ s[b] # Blank /\ TrimSpace(s) = SubSeq(s, a, b)
    <3>1. PICK k \in 1 .. Len(s) : s[k] # Blank
      BY <1>2
    <3>2. PICK a \in 1 .. Len(s), b \in 1 .. Len(s) :
            a <= k /\ k <= b /\ s[a] # Blank /\ s[b] # Blank /\ TrimSpace(s) = SubSeq(s, a, b)
      BY <3>1, TrimSolid
    <3>3. a <= b
      BY <3>2, Texts
    <3> QED
      BY <3>2, <3>3
  <2> DEFINE t == SubSeq(s, a, b)
  <2>2. Len(s) \in Nat
    BY Texts
  <2>3. /\ t \in Text /\ Len(t) = b - a + 1
        /\ \A i \in 1 .. b - a + 1 : t[i] = s[a + i - 1]
    BY <2>1, <2>2, Parts
  <2>4. 1 \in 1 .. b - a + 1 /\ b - a + 1 \in 1 .. b - a + 1
        /\ a + 1 - 1 = a /\ a + (b - a + 1) - 1 = b
    BY <2>1, <2>2
  <2>5. t[1] = s[a] /\ t[Len(t)] = s[b] /\ t # <<>>
    BY <2>3, <2>4, Texts
  <2> HIDE DEF t
  <2> QED
    BY <1>2, <2>1, <2>3, <2>5 DEF t
<1> QED
  BY <1>1, <1>2

LEMMA TrimKeeps ==
  ASSUME NEW t \in Text, t # <<>>, t[1] # Blank, t[Len(t)] # Blank
  PROVE  TrimSpace(t) = t
<1>1. Len(t) \in Nat \ {0}
  BY Texts
<1>2. TrimSpace(t) = SubSeq(t, 1, Len(t))
  <2>1. 1 \in 1 .. Len(t) /\ Len(t) \in 1 .. Len(t) /\ \A i \in 1 .. Len(t) : 1 <= i /\ i <= Len(t)
    BY <1>1
  <2> QED
    BY <2>1, TrimCuts
<1> QED
  BY <1>2, SubSeqFull DEF Text

LEMMA TrimTwice == \A s \in Text : TrimSpace(TrimSpace(s)) = TrimSpace(s)
<1> SUFFICES ASSUME NEW s \in Text PROVE TrimSpace(TrimSpace(s)) = TrimSpace(s)
  OBVIOUS
<1>1. CASE TrimSpace(s) = <<>>
  BY <1>1, TrimBlank, Texts
<1>2. CASE TrimSpace(s) # <<>>
  BY <1>2, Trims, TrimKeeps
<1> QED
  BY <1>1, <1>2

-----------------------------------------------------------------------------
(* Where a visitor sees a place: DisplayName                               *)

\* Where IndexFirstSubSeq finds something, it is no later than the end.
LEMMA FoundInside ==
  ASSUME NEW s \in Text, NEW sep, Len(sep) \in Nat \ {0}, sep \in SubSeqs(s)
  PROVE  IndexFirstSubSeq(sep, s) \in Int /\ IndexFirstSubSeq(sep, s) <= Len(s)
<1> DEFINE In(i) == sep \in SubSeqs(SubSeq(s, 1, i))
           T == {i \in 0 .. Len(s) : In(i)}
           last == CHOOSE i \in 0 .. Len(s) : In(i) /\ \A j \in 0 .. i - 1 : ~In(j)
<1>1. Len(s) \in Nat /\ In(Len(s))
  BY Texts, SubSeqFull DEF Text
<1> HIDE DEF In
<1>2. PICK n \in T : \A m \in T : n <= m
  <2>1. T \subseteq Nat /\ T # {}
    BY <1>1
  <2> HIDE DEF T
  <2> QED
    BY <2>1, Least
<1>3. In(n) /\ n \in 0 .. Len(s) /\ \A j \in 0 .. n - 1 : ~In(j)
  <2>1. n \in 0 .. Len(s) /\ In(n)
    OBVIOUS
  <2>2. ASSUME NEW j \in 0 .. n - 1, In(j) PROVE FALSE
    <3>1. j \in 0 .. Len(s) /\ j < n /\ j \in Nat /\ n \in Nat
      BY <1>1, <2>1
    <3>2. n <= j
      BY <1>2, <2>2, <3>1
    <3> QED
      BY <3>1, <3>2
  <2> QED
    BY <2>1, <2>2
<1>4. last \in 0 .. Len(s)
  BY <1>3
<1>5. IndexFirstSubSeq(sep, s) = last - (Len(sep) - 1)
  BY DEF IndexFirstSubSeq, In
<1> HIDE DEF last
<1> QED
  BY <1>1, <1>4, <1>5

\* The beginning of a trimmed text, trimmed again, is still a beginning of it.
LEMMA Beginning ==
  ASSUME NEW s \in Text, s # <<>>, s[1] # Blank, NEW n \in 1 .. Len(s)
  PROVE  /\ TrimSpace(SubSeq(s, 1, n)) \in Text
         /\ TrimSpace(SubSeq(s, 1, n)) # <<>>
         /\ IsPrefix(TrimSpace(SubSeq(s, 1, n)), s)
<1> DEFINE u == SubSeq(s, 1, n)
<1>1. Len(s) \in Nat /\ n \in Nat /\ n \in 0 .. Len(s)
  BY Texts
<1>2. u \in Text /\ Len(u) = n /\ \A i \in 1 .. n : u[i] = s[i]
  <2>1. /\ u \in Text /\ Len(u) = n - 1 + 1
        /\ \A i \in 1 .. n - 1 + 1 : u[i] = s[1 + i - 1]
    BY <1>1, Parts
  <2>2. n - 1 + 1 = n /\ \A i \in 1 .. n : 1 + i - 1 = i
    BY <1>1
  <2> HIDE DEF u
  <2> QED
    BY <2>1, <2>2
<1> HIDE DEF u
<1>3. 1 \in 1 .. Len(u) /\ u[1] # Blank
  BY <1>1, <1>2
<1>4. PICK a \in 1 .. Len(u), b \in 1 .. Len(u) : a <= 1 /\ 1 <= b /\ TrimSpace(u) = SubSeq(u, a, b)
  BY <1>2, <1>3, TrimSolid
<1>5. a = 1 /\ b \in Nat /\ b <= n /\ b \in 0 .. Len(u)
  BY <1>1, <1>2, <1>4
<1> DEFINE t == SubSeq(u, 1, b)
<1>6. t \in Text /\ Len(t) = b /\ \A i \in 1 .. b : t[i] = s[i]
  <2>1. /\ t \in Text /\ Len(t) = b - 1 + 1
        /\ \A i \in 1 .. b - 1 + 1 : t[i] = u[1 + i - 1]
    BY <1>2, <1>4, <1>5, Parts
  <2>2. b - 1 + 1 = b /\ \A i \in 1 .. b : 1 + i - 1 = i /\ i \in 1 .. n
    BY <1>1, <1>5
  <2> HIDE DEF t
  <2> QED
    BY <1>2, <2>1, <2>2
<1>7. t # <<>>
  <2> HIDE DEF t
  <2> QED
    BY <1>4, <1>5, <1>6, Texts
<1>8. SubSeq(t, 1, b) = SubSeq(s, 1, b)
  <2> HIDE DEF t
  <2>1. b \in 0 .. Len(s) /\ b \in 0 .. Len(t) /\ 1 \in Nat \ {0}
    BY <1>1, <1>5, <1>6
  <2>2. SubSeq(t, 1, b) = t
    BY <1>6, SubSeqFull DEF Text
  <2>3. /\ SubSeq(s, 1, b) \in Text /\ Len(SubSeq(s, 1, b)) = IF 1 <= b THEN b - 1 + 1 ELSE 0
        /\ \A i \in 1 .. b - 1 + 1 : SubSeq(s, 1, b)[i] = s[1 + i - 1]
    BY <2>1, Parts
  <2>4. b - 1 + 1 = b /\ \A i \in 1 .. b : 1 + i - 1 = i
    BY <1>5
  <2>5. Len(SubSeq(s, 1, b)) = b /\ \A i \in 1 .. b : SubSeq(s, 1, b)[i] = t[i]
    BY <1>4, <1>5, <1>6, <2>3, <2>4
  <2> QED
    BY <1>6, <2>2, <2>3, <2>5, SameText
<1>9. IsPrefix(t, s)
  <2> HIDE DEF t
  <2> QED
    BY <1>1, <1>5, <1>6, <1>8 DEF IsPrefix
<1> QED
  BY <1>4, <1>5, <1>6, <1>7, <1>9 DEF u

\* What DisplayName makes of a location with a name.
LEMMA Displays ==
  ASSUME NEW l \in Locations
  PROVE  /\ DisplayName(l) \in Text
         /\ TrimSpace(l.name) # <<>> =>
              /\ DisplayName(l) # <<>> /\ IsPrefix(DisplayName(l), TrimSpace(l.name))
              /\ DisplayName(l) = TrimSpace(DisplayName(l))
<1> DEFINE name == TrimSpace(l.name)
           cuts == {i \in 1 .. 3 : /\ Separators[i] \in SubSeqs(name)
                                   /\ IndexFirstSubSeq(Separators[i], name) > 1}
           sep == Separators[CHOOSE i \in cuts : \A j \in cuts : i <= j]
<1>1. l.name \in Text /\ l.city \in Text
  BY DEF Locations
<1>2. /\ name \in Text /\ TrimSpace(l.city) \in Text /\ TrimSpace(name) = name
      /\ name # <<>> => name[1] # Blank
  BY <1>1, Trims, TrimTwice
<1>3. CASE name = <<>>
  BY <1>2, <1>3 DEF DisplayName
<1>4. CASE name # <<>> /\ cuts = {}
  <2>1. DisplayName(l) = name
    BY <1>4 DEF DisplayName
  <2>2. IsPrefix(name, name)
    <3> HIDE DEF name
    <3> QED
      BY <1>2, Texts DEF IsPrefix
  <2> QED
    BY <1>2, <1>4, <2>1, <2>2
<1>5. CASE name # <<>> /\ cuts # {}
  <2> DEFINE n == IndexFirstSubSeq(sep, name) - 1
  <2>1. DisplayName(l) = TrimSpace(SubSeq(name, 1, n))
    BY <1>5 DEF DisplayName
  <2>2. PICK i \in cuts : \A j \in cuts : i <= j
    <3>1. cuts \subseteq Nat
      OBVIOUS
    <3> HIDE DEF cuts
    <3> QED
      BY <1>5, <3>1, Least
  <2>3. \E c \in 1 .. 3 : /\ sep = Separators[c] /\ sep \in SubSeqs(name)
                          /\ IndexFirstSubSeq(sep, name) > 1
    <3> DEFINE d == CHOOSE k \in cuts : \A j \in cuts : k <= j
    <3>1. d \in cuts
      <4> HIDE DEF cuts
      <4> QED
        BY <2>2
    <3>2. sep = Separators[d]
      OBVIOUS
    <3> HIDE DEF d, sep, name
    <3> QED
      BY <3>1, <3>2
  <2>4. Len(sep) \in Nat \ {0}
    <3>1. /\ Separators[1] = <<Blank, "/", Blank>> /\ Separators[2] = <<"/">>
          /\ Separators[3] = <<Blank, "&", Blank>>
      BY DEF Separators
    <3>2. /\ Len(<<Blank, "/", Blank>>) = 3 /\ Len(<<"/">>) = 1
          /\ Len(<<Blank, "&", Blank>>) = 3
      OBVIOUS
    <3>3. \A c \in 1 .. 3 : c = 1 \/ c = 2 \/ c = 3
      OBVIOUS
    <3>4. \A c \in 1 .. 3 : Len(Separators[c]) \in Nat \ {0}
      BY <3>1, <3>2, <3>3
    <3> HIDE DEF sep, cuts
    <3> QED
      BY <2>3, <3>4
  <2> HIDE DEF sep, cuts
  <2>5. IndexFirstSubSeq(sep, name) \in Int /\ IndexFirstSubSeq(sep, name) <= Len(name)
    BY <1>2, <2>3, <2>4, FoundInside
  <2>6. n \in 1 .. Len(name)
    BY <1>2, <2>3, <2>5, Texts
  <2> HIDE DEF n, name
  <2>7. /\ TrimSpace(SubSeq(name, 1, n)) \in Text /\ TrimSpace(SubSeq(name, 1, n)) # <<>>
        /\ IsPrefix(TrimSpace(SubSeq(name, 1, n)), name)
    BY <1>2, <1>5, <2>6, Beginning
  <2>8. SubSeq(name, 1, n) \in Text
    BY <1>2, <2>6, Parts, Texts
  <2>9. TrimSpace(DisplayName(l)) = DisplayName(l)
    BY <2>1, <2>8, TrimTwice
  <2> QED
    BY <2>1, <2>7, <2>9 DEF name
<1> QED
  BY <1>3, <1>4, <1>5

\* What parseRoutes makes of an entry that has a time.
LEMMA Routes ==
  ASSUME NEW e \in APIEntries, ParseRoute(e) # None
  PROVE  /\ e.availableAt \in Departures
         /\ ParseRoute(e).origin = Place(e.pickup, e.pickupGroup)
         /\ ParseRoute(e).destination = Place(e.return, e.returnGroup)
         /\ ParseRoute(e).departureAt = e.availableAt
         /\ ParseRoute(e).origin \in Text /\ ParseRoute(e).destination \in Text
         /\ e.pickup \in Locations
<1>1. e.availableAt # None
  BY DEF ParseRoute
<1>2. /\ e.pickup \in Locations /\ e.return \in Locations /\ e.availableAt \in Departures
      /\ e.pickupGroup \in Text /\ e.returnGroup \in Text
  BY <1>1 DEF APIEntries
<1>3. /\ ParseRoute(e).origin = Place(e.pickup, e.pickupGroup)
      /\ ParseRoute(e).destination = Place(e.return, e.returnGroup)
      /\ ParseRoute(e).departureAt = e.availableAt
  BY <1>1 DEF ParseRoute
<1>4. Place(e.pickup, e.pickupGroup) \in Text /\ Place(e.return, e.returnGroup) \in Text
  BY <1>2, Displays DEF Place
<1> QED
  BY <1>2, <1>3, <1>4

\* The entry is one of those listed, the form one of those submitted beside it.
VisitorTypes ==
  Typing => entry \in APIEntries /\ (form # None => form \in WatchForms)

\* Nobody types anything else.
LEMMA VisitorTyped == VisitorSpec => []VisitorTypes
<1> DEFINE Known == Typing => entry \in DOMAIN Forms /\ (form # None => form \in Forms[entry])
<1>1. VisitorInit => Known
  BY DEF VisitorInit, Typing
<1>2. Known /\ [VisitorNext]_<<typing, vars>> => Known'
  BY DEF VisitorNext, Submit, Discard, Walk, typing, Typing
<1>3. Known => VisitorTypes
  BY VisitorAssumption DEF VisitorAssumption, VisitorTypes
<1> QED
  BY <1>1, <1>2, <1>3, PTL DEF VisitorSpec

\* displayName: a location with a name is shown under the beginning of it, for
\* every name (ShownByName).
THEOREM NamesAreShown == VisitorSpec => []ShownByName
<1>1. VisitorTypes => ShownByName
  <2> SUFFICES ASSUME VisitorTypes, Typing, ParseRoute(entry) # None,
                      TrimSpace(entry.pickup.name) # <<>>
               PROVE  LET shown == ParseRoute(entry).origin
                      IN  /\ shown # <<>> /\ IsPrefix(shown, TrimSpace(entry.pickup.name))
                          /\ shown = TrimSpace(shown)
    BY DEF ShownByName
  <2>1. entry \in APIEntries
    BY DEF VisitorTypes
  <2>2. entry.pickup \in Locations /\ ParseRoute(entry).origin = Place(entry.pickup, entry.pickupGroup)
    BY <2>1, Routes
  <2>3. /\ DisplayName(entry.pickup) # <<>>
        /\ IsPrefix(DisplayName(entry.pickup), TrimSpace(entry.pickup.name))
        /\ DisplayName(entry.pickup) = TrimSpace(DisplayName(entry.pickup))
    BY <2>2, Displays
  <2>4. Place(entry.pickup, entry.pickupGroup) = DisplayName(entry.pickup)
    BY <2>3 DEF Place
  <2> QED
    BY <2>2, <2>3, <2>4
<1> QED
  BY <1>1, VisitorTyped, PTL

-----------------------------------------------------------------------------
(* Places: the comparison of the matcher, and that of the search           *)

\* A text in lower case is as long as it was.
LEMMA Lowers ==
  ASSUME NEW s \in Text
  PROVE  /\ ToLower(s) \in Seq({Lower(c) : c \in Chars}) /\ Len(ToLower(s)) = Len(s)
         /\ \A i \in 1 .. Len(s) : ToLower(s)[i] = Lower(s[i])
<1>1. Len(s) \in Nat /\ DOMAIN s = 1 .. Len(s) /\ \A i \in 1 .. Len(s) : s[i] \in Chars
  BY Texts
<1>2. ToLower(s) = [i \in 1 .. Len(s) |-> Lower(s[i])]
  BY <1>1 DEF ToLower
<1>3. ToLower(s) \in [1 .. Len(s) -> {Lower(c) : c \in Chars}]
  BY <1>1, <1>2
<1>4. ToLower(s) \in Seq({Lower(c) : c \in Chars})
  BY <1>1, <1>3, SeqDef
<1>5. Len(ToLower(s)) \in Nat /\ DOMAIN ToLower(s) = 1 .. Len(ToLower(s))
  BY <1>4, LenProperties
<1>6. 1 .. Len(ToLower(s)) = 1 .. Len(s)
  BY <1>2, <1>5
<1>7. \A m, n \in Nat : 1 .. m = 1 .. n => m = n
  <2> SUFFICES ASSUME NEW m \in Nat, NEW n \in Nat, 1 .. m = 1 .. n PROVE m = n
    OBVIOUS
  <2>1. m \in 1 .. m \/ m = 0
    OBVIOUS
  <2>2. n \in 1 .. n \/ n = 0
    OBVIOUS
  <2>3. m <= n
    BY <2>1
  <2>4. n <= m
    BY <2>2
  <2> QED
    BY <2>3, <2>4
<1> QED
  BY <1>1, <1>2, <1>4, <1>5, <1>6, <1>7

\* strings.Contains of two texts in lower case.
LEMMA Contained ==
  ASSUME NEW w \in Text, NEW s \in Text
  PROVE  ToLower(w) \in SubSeqs(ToLower(s)) <=> Occurs(w, s)
<1> DEFINE W == ToLower(w)
           L == ToLower(s)
           n == Len(w)
<1>1. /\ Len(W) = n /\ n \in Nat /\ Len(L) = Len(s) /\ Len(s) \in Nat
      /\ \A i \in 1 .. n : W[i] = Lower(w[i])
      /\ \A i \in 1 .. Len(s) : L[i] = Lower(s[i])
      /\ L \in Seq({Lower(c) : c \in Chars}) /\ W \in Seq({Lower(c) : c \in Chars})
      /\ DOMAIN w = 1 .. n
  BY Lowers, Texts
<1>2. ASSUME NEW i \in 0 .. Len(s), NEW j \in 0 .. Len(s)
      PROVE  LET t == SubSeq(L, i + 1, j)
             IN  /\ t \in Seq({Lower(c) : c \in Chars})
                 /\ Len(t) = IF i + 1 <= j THEN j - i ELSE 0
                 /\ \A k \in 1 .. j - i : t[k] = Lower(s[i + k])
  <2>1. i + 1 \in Int /\ j \in Int /\ \A k \in i + 1 .. j : L[k] \in {Lower(c) : c \in Chars}
    <3>1. \A k \in i + 1 .. j : k \in 1 .. Len(L)
      BY <1>1
    <3> QED
      BY <1>1, <3>1, ElementOfSeq
  <2> HIDE DEF L
  <2> DEFINE t == SubSeq(L, i + 1, j)
  <2>2. /\ t \in Seq({Lower(c) : c \in Chars})
        /\ Len(t) = IF i + 1 <= j THEN j - (i + 1) + 1 ELSE 0
        /\ \A k \in 1 .. j - (i + 1) + 1 : t[k] = L[(i + 1) + k - 1]
    BY <2>1, SubSeqProperties
  <2> HIDE DEF t
  <2>3. j - (i + 1) + 1 = j - i /\ \A k \in 1 .. j - i : (i + 1) + k - 1 = i + k /\ i + k \in 1 .. Len(s)
    BY <1>1
  <2> QED
    BY <1>1, <2>2, <2>3 DEF t
<1> HIDE DEF W, L, n
<1>3. ASSUME W \in SubSeqs(L) PROVE Occurs(w, s)
  <2>1. PICK i \in 0 .. Len(s), j \in 0 .. Len(s) : W = SubSeq(L, i + 1, j)
    BY <1>1, <1>3 DEF SubSeqs
  <2>2. /\ n = IF i + 1 <= j THEN j - i ELSE 0
        /\ \A k \in 1 .. j - i : W[k] = Lower(s[i + k])
    BY <1>1, <1>2, <2>1
  <2>3. CASE i + 1 <= j
    <3>1. n = j - i /\ i \in 0 .. Len(s) - n
      BY <1>1, <2>2, <2>3
    <3>2. \A k \in 1 .. n : Lower(w[k]) = Lower(s[i + k])
      BY <1>1, <2>2, <3>1
    <3> QED
      BY <1>1, <3>1, <3>2 DEF Occurs, n
  <2>4. CASE ~(i + 1 <= j)
    <3>1. n = 0 /\ 0 \in 0 .. Len(s) - n /\ 1 .. n = {}
      BY <1>1, <2>2, <2>4
    <3> QED
      BY <1>1, <3>1 DEF Occurs, n
  <2> QED
    BY <2>3, <2>4
<1>4. ASSUME Occurs(w, s) PROVE W \in SubSeqs(L)
  <2>1. PICK i \in 0 .. Len(s) - n : \A k \in 1 .. n : Lower(w[k]) = Lower(s[i + k])
    BY <1>1, <1>4 DEF Occurs, n
  <2>2. i \in 0 .. Len(s) /\ i + n \in 0 .. Len(s) /\ (i + n) - i = n
    BY <1>1
  <2> DEFINE t == SubSeq(L, i + 1, i + n)
  <2>3. /\ t \in Seq({Lower(c) : c \in Chars})
        /\ Len(t) = IF i + 1 <= i + n THEN n ELSE 0
        /\ \A k \in 1 .. n : t[k] = Lower(s[i + k])
    BY <1>2, <2>2
  <2> HIDE DEF t
  <2>4. Len(t) = n
    BY <1>1, <2>2, <2>3
  <2>5. t = W
    BY <1>1, <2>1, <2>3, <2>4, SeqEqual
  <2> QED
    BY <1>1, <2>2, <2>5 DEF SubSeqs, t
<1> QED
  BY <1>3, <1>4 DEF W, L

\* A character that has the lower case of another is folded to it by LIKE too,
\* unless it is a letter beyond ASCII.
LEMMA Folds ==
  ASSUME NEW a, NEW b, Lower(a) = Lower(b), a \notin Beyond \/ a = b
  PROVE  ASCIILower(a) = ASCIILower(b)
<1>1. CASE a = b
  BY <1>1
<1>2. CASE a \notin Beyond /\ b \notin Beyond
  BY <1>2 DEF Lower
<1>3. CASE a \notin Beyond /\ b \in Beyond
  <2>1. ASCIILower(a) = "aa"
    BY <1>3 DEF Lower
  <2>2. ASCIILower(a) = "aa" => a = "aa"
    BY DEF ASCIILower
  <2> QED
    BY <1>3, <2>1, <2>2 DEF Beyond
<1> QED
  BY <1>1, <1>2, <1>3

\* A place that occurs is found by the search, unless a letter beyond ASCII is in
\* the other case wherever it occurs.
LEMMA Listed ==
  ASSUME NEW w, NEW s, Occurs(w, s)
  PROVE  Like(w, s) \/ OtherCase(w, s)
<1> SUFFICES ASSUME ~OtherCase(w, s) PROVE Like(w, s)
  OBVIOUS
<1>1. PICK i \in 0 .. Len(s) - Len(w) :
        /\ \A k \in DOMAIN w : Lower(w[k]) = Lower(s[i + k])
        /\ \A k \in DOMAIN w : w[k] \notin Beyond \/ w[k] = s[i + k]
  BY DEF OtherCase
<1>2. \A k \in DOMAIN w : ASCIILower(w[k]) = ASCIILower(s[i + k])
  BY <1>1, Folds
<1> QED
  BY <1>1, <1>2 DEF Like

\* What a form that is not refused becomes.
LEMMA Watches ==
  ASSUME NEW f \in WatchForms, WatchOf(f) # None
  PROVE  /\ WatchOf(f).origin = TrimSpace(f.origin) /\ TrimSpace(f.origin) \in Text \ {<<>>}
         /\ WatchOf(f).destination = TrimSpace(f.destination) /\ TrimSpace(f.destination) \in Text \ {<<>>}
         /\ WatchOf(f).earliestTime = TrimSpace(f.earliest) /\ TrimSpace(f.earliest) \in Text
         /\ WatchOf(f).latestTime = TrimSpace(f.latest) /\ TrimSpace(f.latest) \in Text
         /\ WatchOf(f).weekdays = BuildWeekdays(f.weekdays)
<1>1. TrimSpace(f.origin) # <<>> /\ TrimSpace(f.destination) # <<>>
  BY DEF WatchOf
<1>2. f.origin \in Text /\ f.destination \in Text /\ f.earliest \in Text /\ f.latest \in Text
  BY DEF WatchForms
<1> QED
  BY <1>1, <1>2, Trims DEF WatchOf

\* matcher.Match compares places as a reader does.
LEMMA PlacesMatch ==
  ASSUME NEW e \in APIEntries, NEW f \in WatchForms, ParseRoute(e) # None, WatchOf(f) # None
  PROVE  /\ MatchPlace(ParseRoute(e).origin, WatchOf(f).origin) <=>
              Occurs(TrimSpace(f.origin), ParseRoute(e).origin)
         /\ MatchPlace(ParseRoute(e).destination, WatchOf(f).destination) <=>
              Occurs(TrimSpace(f.destination), ParseRoute(e).destination)
BY Routes, Watches, Contained DEF MatchPlace

\* The search of the route list finds the routes that a watch on the same places
\* announces, unless a letter beyond ASCII is typed in the other case wherever the
\* place occurs (SearchListsMatches): of the ways in which LIKE and matcher.Match
\* compare, that is the only one that hides a route.
THEOREM MatchesAreListed == VisitorSpec => []SearchListsMatches
<1>1. VisitorTypes => SearchListsMatches
  <2> SUFFICES ASSUME VisitorTypes, Both, Match(ParseRoute(entry), WatchOf(form))
               PROVE  /\ ListedOr(form.origin, ParseRoute(entry).origin)
                      /\ ListedOr(form.destination, ParseRoute(entry).destination)
    BY DEF SearchListsMatches
  <2>1. entry \in APIEntries /\ form \in WatchForms /\ ParseRoute(entry) # None /\ WatchOf(form) # None
    BY DEF VisitorTypes, Both
  <2>2. /\ MatchPlace(ParseRoute(entry).origin, WatchOf(form).origin)
        /\ MatchPlace(ParseRoute(entry).destination, WatchOf(form).destination)
    BY DEF Match
  <2>3. /\ Occurs(TrimSpace(form.origin), ParseRoute(entry).origin)
        /\ Occurs(TrimSpace(form.destination), ParseRoute(entry).destination)
    BY <2>1, <2>2, PlacesMatch
  <2> QED
    BY <2>3, Listed DEF SearchFinds, ListedOr
<1> QED
  BY <1>1, VisitorTyped, PTL

-----------------------------------------------------------------------------
(* Numbers and times                                                       *)

\* The ten digits, and the characters that are none.
LEMMA DigitsRead ==
  /\ \A n \in 0 .. 9 : Digit(n) \in Digits /\ Value(Digit(n)) = n
  /\ \A c \in Digits : c # Colon /\ c # Blank /\ c # Comma
  /\ \A m, n \in 0 .. 9 : Digit(m) = Digit(n) => m = n
<1>1. /\ Digit(0) = "0" /\ Digit(1) = "1" /\ Digit(2) = "2" /\ Digit(3) = "3" /\ Digit(4) = "4"
      /\ Digit(5) = "5" /\ Digit(6) = "6" /\ Digit(7) = "7" /\ Digit(8) = "8" /\ Digit(9) = "9"
  BY DEF Digit
<1>2. \A n \in 0 .. 9 : \/ n = 0 \/ n = 1 \/ n = 2 \/ n = 3 \/ n = 4
                        \/ n = 5 \/ n = 6 \/ n = 7 \/ n = 8 \/ n = 9
  OBVIOUS
<1>3. \A m, n \in 0 .. 9 : Digit(m) = Digit(n) => m = n
  BY <1>1, <1>2
<1>4. \A n \in 0 .. 9 : Value(Digit(n)) = n
  BY <1>3 DEF Value
<1>5. \A c \in Digits : c \in {"0", "1", "2", "3", "4", "5", "6", "7", "8", "9"}
  BY <1>1, <1>2 DEF Digits
<1>6. \A c \in {"0", "1", "2", "3", "4", "5", "6", "7", "8", "9"} : c # Blank /\ c # Comma /\ c # Colon
  BY Zenon DEF Blank, Comma, Colon
<1>7. \A n \in 0 .. 9 : Digit(n) \in Digits
  BY DEF Digits
<1> QED
  BY <1>3, <1>4, <1>5, <1>6, <1>7

\* strconv.Atoi of one digit, and of two.
LEMMA AtoiShort ==
  ASSUME NEW s, NEW a \in 0 .. 9, NEW b \in 0 .. 9,
         (s = <<Digit(b)>> /\ a = 0) \/ s = <<Digit(a), Digit(b)>>
  PROVE  Atoi(s) = 10 * a + b
<1> DEFINE read[k \in 0 .. Len(s)] == IF k = 0 THEN 0 ELSE 10 * read[k - 1] + Value(s[k])
<1>1. read = [k \in 0 .. Len(s) |-> IF k = 0 THEN 0 ELSE 10 * read[k - 1] + Value(s[k])]
  <2> DEFINE g == [k \in 0 .. Len(s) |-> IF k = 0 THEN 0
                                         ELSE IF k = 1 THEN Value(s[1])
                                         ELSE 10 * Value(s[1]) + Value(s[2])]
  <2>1. g = [k \in 0 .. Len(s) |-> IF k = 0 THEN 0 ELSE 10 * g[k - 1] + Value(s[k])]
    OBVIOUS
  <2> HIDE DEF g
  <2> QED
    BY <2>1
<1>2. s # <<>> /\ \A i \in DOMAIN s : s[i] \in Digits
  <2>1. Digit(a) \in Digits /\ Digit(b) \in Digits
    BY DigitsRead
  <2>2. \A c, d : /\ <<c>> # <<>> /\ DOMAIN <<c>> = {1} /\ <<c>>[1] = c
                  /\ <<c, d>> # <<>> /\ DOMAIN <<c, d>> = {1, 2}
                  /\ <<c, d>>[1] = c /\ <<c, d>>[2] = d
    OBVIOUS
  <2>3. CASE s = <<Digit(b)>>
    <3>1. s # <<>> /\ DOMAIN s = {1} /\ s[1] = Digit(b)
      BY <2>2, <2>3
    <3> QED
      BY <2>1, <3>1
  <2>4. CASE s = <<Digit(a), Digit(b)>>
    <3>1. s # <<>> /\ DOMAIN s = {1, 2} /\ s[1] = Digit(a) /\ s[2] = Digit(b)
      BY <2>2, <2>4
    <3> QED
      BY <2>1, <3>1
  <2> QED
    BY <2>3, <2>4
<1>3. Atoi(s) = read[Len(s)]
  BY <1>2 DEF Atoi
<1> HIDE DEF read
<1>4. Value(Digit(a)) = a /\ Value(Digit(b)) = b
  BY DigitsRead
<1>5. CASE s = <<Digit(b)>> /\ a = 0
  <2>1. Len(s) = 1 /\ s[1] = Digit(b)
    BY <1>5
  <2>2. read[0] = 0 /\ read[1] = 10 * read[0] + Value(s[1])
    BY <1>1, <2>1
  <2> QED
    BY <1>3, <1>4, <1>5, <2>1, <2>2
<1>6. CASE s = <<Digit(a), Digit(b)>>
  <2>1. Len(s) = 2 /\ s[1] = Digit(a) /\ s[2] = Digit(b)
    BY <1>6
  <2>2. /\ read[0] = 0 /\ read[1] = 10 * read[0] + Value(s[1])
        /\ read[2] = 10 * read[1] + Value(s[2])
    BY <1>1, <2>1
  <2> QED
    BY <1>3, <1>4, <2>1, <2>2
<1> QED
  BY <1>5, <1>6

\* The hour and the minute, digit by digit.
LEMMA ClockDigits ==
  ASSUME NEW n \in 0 .. 59
  PROVE  n \div 10 \in 0 .. 9 /\ n % 10 \in 0 .. 9 /\ n = 10 * (n \div 10) + (n % 10)
<1>1. n \in Int /\ 0 <= n /\ n <= 59
  OBVIOUS
<1>2. n \div 10 \in Int /\ n % 10 \in 0 .. 9
  BY <1>1
<1>3. n = 10 * (n \div 10) + (n % 10)
  BY <1>1
<1>4. 0 <= n \div 10 /\ n \div 10 <= 9
  BY <1>1, <1>2, <1>3
<1> QED
  BY <1>2, <1>3, <1>4

\* parseHHMM reads what a time input sends.
LEMMA ParsesClock ==
  ASSUME NEW h \in 0 .. 23, NEW m \in 0 .. 59
  PROVE  ParseHHMM(Clock(h, m)) = 60 * h + m /\ Clock(h, m) # <<>>
<1> DEFINE s == Clock(h, m)
           a == h \div 10
           b == h % 10
           c == m \div 10
           d == m % 10
           colons == {i \in DOMAIN s : s[i] = Colon}
<1>1. /\ a \in 0 .. 9 /\ b \in 0 .. 9 /\ h = 10 * a + b
      /\ c \in 0 .. 9 /\ d \in 0 .. 9 /\ m = 10 * c + d
  BY ClockDigits
<1>2. s = <<Digit(a), Digit(b), Colon, Digit(c), Digit(d)>>
  BY DEF Clock
<1> HIDE DEF s, a, b, c, d
<1>3. /\ Len(s) = 5 /\ DOMAIN s = 1 .. 5 /\ s # <<>>
      /\ s[1] = Digit(a) /\ s[2] = Digit(b) /\ s[3] = Colon /\ s[4] = Digit(c) /\ s[5] = Digit(d)
  BY <1>2
<1>4. s[1] # Colon /\ s[2] # Colon /\ s[4] # Colon /\ s[5] # Colon
  BY <1>1, <1>3, DigitsRead
<1>5. colons = {3}
  <2>1. \A i \in 1 .. 5 : i = 1 \/ i = 2 \/ i = 3 \/ i = 4 \/ i = 5
    OBVIOUS
  <2> QED
    BY <1>3, <1>4, <2>1
<1> HIDE DEF colons
<1>6. (CHOOSE i \in colons : \A j \in colons : i <= j) = 3
  BY <1>5
<1>7. SubSeq(s, 1, 2) = <<s[1], s[2]>> /\ SubSeq(s, 4, 5) = <<s[4], s[5]>>
  <2> DEFINE S == {s[1], s[2], s[4], s[5]}
  <2>1. \A i \in 1 .. 2 : s[i] \in S
    OBVIOUS
  <2>2. \A i \in 4 .. 5 : s[i] \in S
    OBVIOUS
  <2> HIDE DEF S
  <2>3. /\ SubSeq(s, 1, 2) \in Seq(S) /\ Len(SubSeq(s, 1, 2)) = 2
        /\ \A i \in 1 .. 2 : SubSeq(s, 1, 2)[i] = s[1 + i - 1]
    BY <2>1, SubSeqProperties
  <2>4. /\ SubSeq(s, 4, 5) \in Seq(S) /\ Len(SubSeq(s, 4, 5)) = 2
        /\ \A i \in 1 .. 2 : SubSeq(s, 4, 5)[i] = s[4 + i - 1]
    BY <2>2, SubSeqProperties
  <2>5. \A u \in Seq(S) : Len(u) = 2 => u = <<u[1], u[2]>>
    OBVIOUS
  <2>6. /\ SubSeq(s, 1, 2)[1] = s[1] /\ SubSeq(s, 1, 2)[2] = s[2]
        /\ SubSeq(s, 4, 5)[1] = s[4] /\ SubSeq(s, 4, 5)[2] = s[5]
    BY <2>3, <2>4
  <2> QED
    BY <2>3, <2>4, <2>5, <2>6
<1>8. Atoi(SubSeq(s, 1, 2)) = 10 * a + b /\ Atoi(SubSeq(s, 4, 5)) = 10 * c + d
  BY <1>1, <1>3, <1>7, AtoiShort
<1>9. 10 * a + b # None /\ 10 * c + d # None
  BY <1>1, WatchMatchAssumption DEF WatchMatchAssumption
<1>10. ParseHHMM(s) = (10 * a + b) * 60 + (10 * c + d)
  <2>1. colons # {} /\ 3 - 1 = 2 /\ 3 + 1 = 4
    BY <1>5
  <2> DEFINE number(t) == IF Atoi(t) = None THEN 0 ELSE Atoi(t)
             k == CHOOSE i \in colons : \A j \in colons : i <= j
  <2>2. ParseHHMM(s) = number(SubSeq(s, 1, k - 1)) * 60 + number(SubSeq(s, k + 1, Len(s)))
    BY <2>1 DEF ParseHHMM, colons
  <2>3. k - 1 = 2 /\ k + 1 = 4
    <3>1. k = 3
      BY <1>6
    <3> HIDE DEF k
    <3> QED
      BY <3>1
  <2>4. /\ SubSeq(s, 1, k - 1) = SubSeq(s, 1, 2)
        /\ SubSeq(s, k + 1, Len(s)) = SubSeq(s, 4, 5)
    BY <1>3, <2>3
  <2>5. /\ number(SubSeq(s, 1, k - 1)) = 10 * a + b
        /\ number(SubSeq(s, k + 1, Len(s))) = 10 * c + d
    BY <1>8, <1>9, <2>4
  <2> HIDE DEF k, number
  <2> QED
    BY <2>2, <2>5
<1> QED
  BY <1>1, <1>3, <1>10 DEF s

\* Times in this form read in the order they come in.
LEMMA ClockOrder ==
  ASSUME NEW h \in 0 .. 23, NEW m \in 0 .. 59, NEW i \in 0 .. 23, NEW j \in 0 .. 59
  PROVE  NotAfter(Clock(h, m), Clock(i, j)) <=> 60 * h + m <= 60 * i + j
<1> DEFINE s == Clock(h, m)
           t == Clock(i, j)
           a == h \div 10
           b == h % 10
           c == m \div 10
           d == m % 10
           w == i \div 10
           x == i % 10
           y == j \div 10
           z == j % 10
<1>1. /\ a \in 0 .. 9 /\ b \in 0 .. 9 /\ h = 10 * a + b
      /\ c \in 0 .. 9 /\ d \in 0 .. 9 /\ m = 10 * c + d
      /\ w \in 0 .. 9 /\ x \in 0 .. 9 /\ i = 10 * w + x
      /\ y \in 0 .. 9 /\ z \in 0 .. 9 /\ j = 10 * y + z
  BY ClockDigits
<1>2. /\ s = <<Digit(a), Digit(b), Colon, Digit(c), Digit(d)>>
      /\ t = <<Digit(w), Digit(x), Colon, Digit(y), Digit(z)>>
  BY DEF Clock
<1> HIDE DEF s, t, a, b, c, d, w, x, y, z
<1>3. /\ s[1] = Digit(a) /\ s[2] = Digit(b) /\ s[3] = Colon /\ s[4] = Digit(c) /\ s[5] = Digit(d)
      /\ t[1] = Digit(w) /\ t[2] = Digit(x) /\ t[3] = Colon /\ t[4] = Digit(y) /\ t[5] = Digit(z)
  BY <1>2
<1>4. /\ s[1] = t[1] <=> a = w
      /\ s[2] = t[2] <=> b = x
      /\ s[4] = t[4] <=> c = y
      /\ s[5] = t[5] <=> d = z
  BY <1>1, <1>3, DigitsRead
<1>5. /\ Value(s[1]) = a /\ Value(s[2]) = b /\ Value(s[4]) = c /\ Value(s[5]) = d
      /\ Value(t[1]) = w /\ Value(t[2]) = x /\ Value(t[4]) = y /\ Value(t[5]) = z
      /\ s[1] # Colon /\ s[2] # Colon /\ s[4] # Colon /\ s[5] # Colon
      /\ t[1] # Colon /\ t[2] # Colon /\ t[4] # Colon /\ t[5] # Colon
  BY <1>1, <1>3, DigitsRead
<1>6. s = t <=> a = w /\ b = x /\ c = y /\ d = z
  <2>1. s = t => a = w /\ b = x /\ c = y /\ d = z
    BY <1>4
  <2>2. a = w /\ b = x /\ c = y /\ d = z => s = t
    BY <1>2
  <2> QED
    BY <2>1, <2>2
<1> DEFINE First(k) == \A l \in 1 .. k - 1 : s[l] = t[l]
<1>7. /\ First(1) /\ (First(2) <=> a = w) /\ (First(4) => a = w /\ b = x)
      /\ (First(5) => a = w /\ b = x /\ c = y)
      /\ (a = w /\ b = x => First(4)) /\ (a = w /\ b = x /\ c = y => First(5))
  <2>1. /\ 1 .. 1 - 1 = {} /\ 1 .. 2 - 1 = {1} /\ 1 .. 4 - 1 = {1, 2, 3} /\ 1 .. 5 - 1 = {1, 2, 3, 4}
    OBVIOUS
  <2> QED
    BY <1>3, <1>4, <2>1
<1> HIDE DEF First
<1>8. NotAfter(s, t) <=>
        \/ a = w /\ b = x /\ c = y /\ d = z
        \/ a < w
        \/ a = w /\ b < x
        \/ a = w /\ b = x /\ c < y
        \/ a = w /\ b = x /\ c = y /\ d < z
  <2>1. NotAfter(s, t) <=>
          s = t \/ \E k \in 1 .. 5 : First(k) /\ s[k] # Colon /\ t[k] # Colon /\ Value(s[k]) < Value(t[k])
    BY DEF NotAfter, First
  <2>2. (\E k \in 1 .. 5 : First(k) /\ s[k] # Colon /\ t[k] # Colon /\ Value(s[k]) < Value(t[k])) <=>
          \/ First(1) /\ a < w
          \/ First(2) /\ b < x
          \/ First(4) /\ c < y
          \/ First(5) /\ d < z
    <3>1. \A k \in 1 .. 5 : k = 1 \/ k = 2 \/ k = 3 \/ k = 4 \/ k = 5
      OBVIOUS
    <3>2. 1 \in 1 .. 5 /\ 2 \in 1 .. 5 /\ 4 \in 1 .. 5 /\ 5 \in 1 .. 5
      OBVIOUS
    <3> QED
      BY <1>3, <1>5, <3>1, <3>2
  <2> QED
    BY <1>6, <1>7, <2>1, <2>2
<1>9. 60 * h + m <= 60 * i + j <=>
        \/ a = w /\ b = x /\ c = y /\ d = z
        \/ a < w
        \/ a = w /\ b < x
        \/ a = w /\ b = x /\ c < y
        \/ a = w /\ b = x /\ c = y /\ d < z
  <2>1. h < i <=> a < w \/ (a = w /\ b < x)
    BY <1>1
  <2>2. h = i <=> a = w /\ b = x
    BY <1>1
  <2>3. m <= j <=> c < y \/ (c = y /\ d < z) \/ (c = y /\ d = z)
    BY <1>1
  <2>4. 60 * h + m <= 60 * i + j <=> h < i \/ (h = i /\ m <= j)
    OBVIOUS
  <2> QED
    BY <2>1, <2>2, <2>3, <2>4
<1> QED
  BY <1>8, <1>9 DEF s, t

\* matcher.Match takes the times typed as a reader does.
LEMMA TimesMatch ==
  ASSUME NEW dep \in Departures, NEW f \in WatchForms, WatchOf(f) # None
  PROVE  MatchTime(dep, WatchOf(f)) <=>
           /\ TrimSpace(f.earliest) # <<>> => NotAfter(TrimSpace(f.earliest), Clock(dep.hour, dep.minute))
           /\ TrimSpace(f.latest) # <<>> => NotAfter(Clock(dep.hour, dep.minute), TrimSpace(f.latest))
<1> DEFINE e == TrimSpace(f.earliest)
           l == TrimSpace(f.latest)
<1>1. dep.hour \in 0 .. 23 /\ dep.minute \in 0 .. 59
  BY DEF Departures
<1>2. e \in Times /\ l \in Times
  BY DEF WatchForms
<1>3. WatchOf(f).earliestTime = e /\ WatchOf(f).latestTime = l
  BY Watches
<1> HIDE DEF e, l
<1>4. ASSUME NEW t \in Times, t # <<>>
      PROVE  /\ dep.hour * 60 + dep.minute >= ParseHHMM(t) <=> NotAfter(t, Clock(dep.hour, dep.minute))
             /\ dep.hour * 60 + dep.minute <= ParseHHMM(t) <=> NotAfter(Clock(dep.hour, dep.minute), t)
  <2>1. PICK h \in 0 .. 23, m \in 0 .. 59 : t = Clock(h, m)
    BY <1>4 DEF Times
  <2>2. ParseHHMM(t) = 60 * h + m
    BY <2>1, ParsesClock
  <2>3. /\ NotAfter(t, Clock(dep.hour, dep.minute)) <=> 60 * h + m <= 60 * dep.hour + dep.minute
        /\ NotAfter(Clock(dep.hour, dep.minute), t) <=> 60 * dep.hour + dep.minute <= 60 * h + m
    BY <1>1, <2>1, ClockOrder
  <2> QED
    BY <1>1, <2>2, <2>3
<1> QED
  BY <1>2, <1>3, <1>4 DEF MatchTime, e, l

-----------------------------------------------------------------------------
(* Days                                                                    *)

\* The field of s from i to before j.
IsField(s, i, j) ==
  /\ i <= j
  /\ i = 1 \/ s[i - 1] = Comma
  /\ j = Len(s) + 1 \/ s[j] = Comma
  /\ \A k \in i .. j - 1 : s[k] # Comma

LEMMA FieldsAre ==
  ASSUME NEW s, NEW x
  PROVE  x \in Fields(s, Comma) <=>
           \E i, j \in 1 .. Len(s) + 1 : IsField(s, i, j) /\ x = SubSeq(s, i, j - 1)
<1>1. ASSUME x \in Fields(s, Comma)
      PROVE  \E i, j \in 1 .. Len(s) + 1 : IsField(s, i, j) /\ x = SubSeq(s, i, j - 1)
  <2>1. PICK cut \in (1 .. Len(s) + 1) \X (1 .. Len(s) + 1) :
          IsField(s, cut[1], cut[2]) /\ x = SubSeq(s, cut[1], cut[2] - 1)
    BY <1>1 DEF Fields, IsField
  <2> QED
    BY <2>1
<1>2. ASSUME NEW i \in 1 .. Len(s) + 1, NEW j \in 1 .. Len(s) + 1,
             IsField(s, i, j), x = SubSeq(s, i, j - 1)
      PROVE  x \in Fields(s, Comma)
  <2> DEFINE cut == <<i, j>>
  <2>1. cut \in (1 .. Len(s) + 1) \X (1 .. Len(s) + 1) /\ cut[1] = i /\ cut[2] = j
    OBVIOUS
  <2> HIDE DEF cut
  <2> QED
    BY <1>2, <2>1 DEF Fields, IsField
<1> QED
  BY <1>1, <1>2

\* The only field of the empty text is empty, and one character is a field.
LEMMA FieldsFew ==
  /\ Fields(<<>>, Comma) = {<<>>}
  /\ \A c \in Chars : c # Comma => Fields(<<c>>, Comma) = {<<c>>}
<1>1. Fields(<<>>, Comma) = {<<>>}
  <2> DEFINE s == <<>>
  <2>1. Len(s) = 0 /\ SubSeq(s, 1, 1 - 1) = s
    BY SubSeqEmpty
  <2> HIDE DEF s
  <2>2. 1 .. Len(s) + 1 = {1} /\ Len(s) + 1 = 1
    BY <2>1
  <2>3. IsField(s, 1, 1)
    BY <2>2 DEF IsField
  <2>4. \A x : x \in Fields(s, Comma) <=> x = s
    <3>1. \A x : x \in Fields(s, Comma) <=> IsField(s, 1, 1) /\ x = SubSeq(s, 1, 1 - 1)
      BY <2>2, FieldsAre
    <3> QED
      BY <2>1, <2>3, <3>1
  <2> QED
    BY <2>4 DEF s
<1>2. ASSUME NEW c \in Chars, c # Comma PROVE Fields(<<c>>, Comma) = {<<c>>}
  <2> DEFINE s == <<c>>
  <2>1. s \in Text /\ Len(s) = 1 /\ s[1] = c
    BY DEF Text
  <2> HIDE DEF s
  <2>2. 1 .. Len(s) + 1 = {1, 2} /\ Len(s) + 1 = 2
    BY <2>1
  <2>3. IsField(s, 1, 2)
    BY <1>2, <2>1 DEF IsField
  <2>4. ~IsField(s, 1, 1) /\ ~IsField(s, 2, 1) /\ ~IsField(s, 2, 2)
    BY <1>2, <2>1 DEF IsField
  <2>5. SubSeq(s, 1, 2 - 1) = s
    BY <2>1, SubSeqFull DEF Text
  <2>6. \A x : x \in Fields(s, Comma) <=> x = s
    BY <2>2, <2>3, <2>4, <2>5, FieldsAre
  <2> QED
    BY <2>6 DEF s
<1> QED
  BY <1>1, <1>2

\* A comma and a character more is a field more.
LEMMA FieldsMore ==
  ASSUME NEW s \in Text, NEW c \in Chars, c # Comma, Comma \in Chars
  PROVE  /\ s \o <<Comma>> \o <<c>> \in Text /\ s \o <<Comma>> \o <<c>> # <<>>
         /\ Fields(s \o <<Comma>> \o <<c>>, Comma) = Fields(s, Comma) \cup {<<c>>}
<1> DEFINE n == Len(s)
           u == s \o <<Comma>> \o <<c>>
<1>1. n \in Nat
  BY Texts
<1>2. /\ u \in Text /\ Len(u) = n + 2 /\ \A i \in 1 .. n : u[i] = s[i]
      /\ u[n + 1] = Comma /\ u[n + 2] = c
  <2> DEFINE v == s \o <<Comma>>
  <2>1. <<Comma>> \in Text /\ Len(<<Comma>>) = 1 /\ <<c>> \in Text /\ Len(<<c>>) = 1
    BY DEF Text
  <2>2. /\ v \in Text /\ Len(v) = n + 1
        /\ \A i \in 1 .. n + 1 : v[i] = IF i <= n THEN s[i] ELSE <<Comma>>[i - n]
    BY <2>1, ConcatProperties DEF Text
  <2> HIDE DEF v
  <2>3. /\ v \o <<c>> \in Text /\ Len(v \o <<c>>) = (n + 1) + 1
        /\ \A i \in 1 .. (n + 1) + 1 : (v \o <<c>>)[i] = IF i <= n + 1 THEN v[i] ELSE <<c>>[i - (n + 1)]
    BY <2>1, <2>2, ConcatProperties DEF Text
  <2>4. u = v \o <<c>>
    BY DEF v
  <2> HIDE DEF u, n
  <2>5. \A i \in 1 .. n : i <= n /\ i <= n + 1 /\ i \in 1 .. n + 1 /\ i \in 1 .. (n + 1) + 1
    BY <1>1
  <2>6. /\ n + 1 \in 1 .. n + 1 /\ n + 1 \in 1 .. (n + 1) + 1 /\ ~(n + 1 <= n) /\ n + 1 <= n + 1
        /\ (n + 1) - n = 1
        /\ n + 2 \in 1 .. (n + 1) + 1 /\ ~(n + 2 <= n + 1) /\ (n + 2) - (n + 1) = 1
        /\ (n + 1) + 1 = n + 2
    BY <1>1
  <2>7. <<Comma>>[1] = Comma /\ <<c>>[1] = c
    OBVIOUS
  <2> QED
    BY <2>2, <2>3, <2>4, <2>5, <2>6, <2>7
<1> HIDE DEF u
<1>3. u # <<>>
  BY <1>1, <1>2, Texts
<1>4. ASSUME NEW i \in 1 .. n + 1, NEW j \in 1 .. n + 1
      PROVE  /\ IsField(u, i, j) <=> IsField(s, i, j)
             /\ SubSeq(u, i, j - 1) = SubSeq(s, i, j - 1)
  <2>1. /\ i - 1 \in 0 .. n /\ j \in Nat /\ i \in Nat /\ i - 1 # 0 => i - 1 \in 1 .. n
        /\ j # n + 1 => j \in 1 .. n
        /\ j # Len(u) + 1
        /\ \A k \in i .. j - 1 : k \in 1 .. n
    BY <1>1, <1>2
  <2>2. i = 1 \/ u[i - 1] = s[i - 1]
    BY <1>2, <2>1
  <2>3. u[j] = Comma <=> (j = n + 1 \/ s[j] = Comma)
    BY <1>2, <2>1
  <2>4. \A k \in i .. j - 1 : u[k] = s[k]
    BY <1>2, <2>1
  <2>5. IsField(u, i, j) <=> IsField(s, i, j)
    BY <2>1, <2>2, <2>3, <2>4 DEF IsField
  <2>6. SubSeq(u, i, j - 1) = SubSeq(s, i, j - 1)
    <3>1. i \in Nat \ {0} /\ j - 1 \in 0 .. Len(s) /\ j - 1 \in 0 .. Len(u)
      BY <1>1, <1>2
    <3>2. /\ SubSeq(s, i, j - 1) \in Text /\ SubSeq(u, i, j - 1) \in Text
          /\ Len(SubSeq(s, i, j - 1)) = Len(SubSeq(u, i, j - 1))
          /\ Len(SubSeq(s, i, j - 1)) = IF i <= j - 1 THEN (j - 1) - i + 1 ELSE 0
          /\ \A k \in 1 .. (j - 1) - i + 1 : /\ SubSeq(s, i, j - 1)[k] = s[i + k - 1]
                                             /\ SubSeq(u, i, j - 1)[k] = u[i + k - 1]
      BY <1>2, <3>1, Parts
    <3>3. \A k \in 1 .. (j - 1) - i + 1 : i + k - 1 \in i .. j - 1
      BY <2>1
    <3>4. \A k \in 1 .. Len(SubSeq(s, i, j - 1)) : k \in 1 .. (j - 1) - i + 1
      BY <3>2, <2>1
    <3> QED
      BY <2>4, <3>2, <3>3, <3>4, SameText
  <2> QED
    BY <2>5, <2>6
<1>5. ASSUME NEW i \in 1 .. Len(u) + 1, NEW j \in 1 .. Len(u) + 1, IsField(u, i, j)
      PROVE  (i \in 1 .. n + 1 /\ j \in 1 .. n + 1) \/ (i = n + 2 /\ j = n + 3)
  <2>1. /\ i \in Nat /\ j \in Nat /\ i <= j /\ j <= n + 3 /\ 1 <= i
        /\ i = 1 \/ u[i - 1] = Comma
        /\ j = n + 3 \/ u[j] = Comma
        /\ \A k \in i .. j - 1 : u[k] # Comma
    BY <1>1, <1>2, <1>5 DEF IsField
  <2>2. j # n + 2
    BY <1>1, <1>2, <2>1
  <2>3. CASE j = n + 3
    <3>1. i # n + 3
      BY <1>1, <1>2, <2>1
    <3>2. i > n + 1
      <4>1. n + 1 \in i .. j - 1 => FALSE
        BY <1>2, <2>1
      <4> QED
        BY <1>1, <2>1, <2>3, <4>1
    <3> QED
      BY <1>1, <2>1, <2>3, <3>1, <3>2
  <2> QED
    BY <1>1, <2>1, <2>2, <2>3
<1>6. IsField(u, n + 2, n + 3) /\ SubSeq(u, n + 2, (n + 3) - 1) = <<c>>
  <2>1. IsField(u, n + 2, n + 3)
    <3>1. /\ n + 2 <= n + 3 /\ (n + 2) - 1 = n + 1 /\ n + 3 = Len(u) + 1
          /\ \A k \in n + 2 .. (n + 3) - 1 : k = n + 2
      BY <1>1, <1>2
    <3> QED
      BY <1>2, <3>1 DEF IsField
  <2> DEFINE t == SubSeq(u, n + 2, (n + 3) - 1)
  <2>2. t \in Text /\ Len(t) = 1 /\ t[1] = c
    <3>1. n + 2 \in Nat \ {0} /\ (n + 3) - 1 \in 0 .. Len(u)
      BY <1>1, <1>2
    <3>2. /\ t \in Text
          /\ Len(t) = IF n + 2 <= (n + 3) - 1 THEN ((n + 3) - 1) - (n + 2) + 1 ELSE 0
          /\ \A i \in 1 .. ((n + 3) - 1) - (n + 2) + 1 : t[i] = u[(n + 2) + i - 1]
      BY <1>2, <3>1, Parts
    <3>3. /\ ((n + 3) - 1) - (n + 2) + 1 = 1 /\ n + 2 <= (n + 3) - 1
          /\ 1 \in 1 .. 1 /\ (n + 2) + 1 - 1 = n + 2
      BY <1>1
    <3> HIDE DEF t
    <3> QED
      BY <1>2, <3>2, <3>3
  <2>3. t = <<c>>
    <3> HIDE DEF t
    <3>1. <<c>> \in Text /\ Len(<<c>>) = 1 /\ <<c>>[1] = c
      BY DEF Text
    <3>2. \A i \in 1 .. 1 : i = 1
      OBVIOUS
    <3> QED
      BY <2>2, <3>1, <3>2, SameText
  <2> QED
    BY <2>1, <2>3
<1>7. \A x : x \in Fields(u, Comma) <=> x \in Fields(s, Comma) \/ x = <<c>>
  <2>1. /\ \A i \in 1 .. n + 1 : i \in 1 .. Len(u) + 1
        /\ n + 2 \in 1 .. Len(u) + 1 /\ n + 3 \in 1 .. Len(u) + 1
    BY <1>1, <1>2
  <2>2. ASSUME NEW x, x \in Fields(u, Comma) PROVE x \in Fields(s, Comma) \/ x = <<c>>
    <3>1. PICK i \in 1 .. Len(u) + 1, j \in 1 .. Len(u) + 1 : IsField(u, i, j) /\ x = SubSeq(u, i, j - 1)
      BY <2>2, FieldsAre
    <3>2. CASE i \in 1 .. n + 1 /\ j \in 1 .. n + 1
      BY <1>4, <3>1, <3>2, FieldsAre
    <3>3. CASE i = n + 2 /\ j = n + 3
      BY <1>6, <3>1, <3>3
    <3> QED
      BY <1>5, <3>1, <3>2, <3>3
  <2>3. ASSUME NEW x, x \in Fields(s, Comma) PROVE x \in Fields(u, Comma)
    <3>1. PICK i \in 1 .. n + 1, j \in 1 .. n + 1 : IsField(s, i, j) /\ x = SubSeq(s, i, j - 1)
      BY <2>3, FieldsAre
    <3> QED
      BY <1>4, <2>1, <3>1, FieldsAre
  <2>4. <<c>> \in Fields(u, Comma)
    BY <1>6, <2>1, FieldsAre
  <2> QED
    BY <2>2, <2>3, <2>4
<1> QED
  BY <1>2, <1>3, <1>7 DEF u

\* What buildWeekdays stores of the days D: nothing, or D between commas.
Stores(row, D) ==
  /\ row \in Text /\ D \subseteq ISODays
  /\ D = {} => row = <<>>
  /\ D # {} => row # <<>> /\ Fields(row, Comma) = D

\* A day is one character, which no separator or blank is.
LEMMA DayTexts ==
  /\ \A d \in 0 .. 9 : <<Digit(d)>> \in Text \ {<<>>} /\ TrimSpace(<<Digit(d)>>) = <<Digit(d)>>
  /\ \A day \in ISODays : \E d \in 1 .. 7 : day = <<Digit(d)>>
  /\ \A d, n \in 0 .. 9 : <<Digit(d)>> = <<Digit(n)>> => d = n
<1>1. ASSUME NEW d \in 0 .. 9
      PROVE  <<Digit(d)>> \in Text \ {<<>>} /\ TrimSpace(<<Digit(d)>>) = <<Digit(d)>>
  <2>1. Digit(d) \in Chars /\ Digit(d) # Blank
    BY DigitsRead, VisitorAssumption DEF VisitorAssumption
  <2> DEFINE t == <<Digit(d)>>
  <2>2. t \in Text /\ t # <<>> /\ Len(t) = 1 /\ t[1] = Digit(d)
    BY <2>1 DEF Text
  <2> HIDE DEF t
  <2>3. TrimSpace(t) = t
    BY <2>1, <2>2, TrimKeeps
  <2> QED
    BY <2>2, <2>3 DEF t
<1>2. ASSUME NEW d \in 0 .. 9, NEW n \in 0 .. 9, <<Digit(d)>> = <<Digit(n)>> PROVE d = n
  <2>1. Digit(d) = Digit(n)
    BY <1>2
  <2> QED
    BY <2>1, DigitsRead
<1> QED
  BY <1>1, <1>2 DEF ISODays

\* One value of the form.
LEMMA AddsDay ==
  ASSUME NEW row, NEW D, Stores(row, D), NEW day
  PROVE  Stores(AddDay(row, day), D \cup ({day} \cap ISODays))
<1>1. CASE day \notin ISODays
  <2>1. D \cup ({day} \cap ISODays) = D /\ AddDay(row, day) = row
    BY <1>1 DEF AddDay
  <2> QED
    BY <2>1
<1>2. CASE day \in ISODays
  <2>1. PICK d \in 1 .. 7 : day = <<Digit(d)>>
    BY <1>2, DayTexts
  <2>2. Digit(d) \in Chars /\ Comma \in Chars /\ Digit(d) # Comma /\ day \in Text /\ day # <<>>
    <3>1. d \in 0 .. 9
      OBVIOUS
    <3> QED
      BY <2>1, <3>1, DigitsRead, DayTexts, VisitorAssumption DEF VisitorAssumption
  <2>3. D \cup ({day} \cap ISODays) = D \cup {day}
    BY <1>2
  <2>4. CASE D = {}
    <3>1. row = <<>> /\ Fields(row, Comma) = {<<>>}
      BY <2>4, FieldsFew DEF Stores
    <3>2. AddDay(row, day) = day
      BY <1>2, <2>2, <3>1 DEF AddDay
    <3>3. Fields(day, Comma) = {day}
      BY <2>1, <2>2, FieldsFew
    <3> QED
      BY <1>2, <2>2, <2>3, <2>4, <3>2, <3>3 DEF Stores
  <2>5. CASE D # {} /\ day \in D
    <3>1. AddDay(row, day) = row /\ D \cup {day} = D
      BY <2>5 DEF Stores, AddDay
    <3> QED
      BY <2>3, <3>1
  <2>6. CASE D # {} /\ day \notin D
    <3>1. row \in Text /\ row # <<>> /\ Fields(row, Comma) = D /\ D \subseteq ISODays
      BY <2>6 DEF Stores
    <3>2. AddDay(row, day) = row \o <<Comma>> \o <<Digit(d)>>
      BY <1>2, <2>1, <2>6, <3>1 DEF AddDay
    <3>3. /\ AddDay(row, day) \in Text /\ AddDay(row, day) # <<>>
          /\ Fields(AddDay(row, day), Comma) = D \cup {day}
      BY <2>1, <2>2, <3>1, <3>2, FieldsMore
    <3> QED
      BY <1>2, <2>3, <3>1, <3>3 DEF Stores
  <2> QED
    BY <2>4, <2>5, <2>6
<1> QED
  BY <1>1, <1>2

\* The valid days among the first n values.
DaysOf(vals, n) == {TrimSpace(vals[k]) : k \in 1 .. n} \cap ISODays

\* All the values of the form, one after the other.
LEMMA BuildsRow ==
  ASSUME NEW vals \in Seq(Text)
  PROVE  Stores(BuildWeekdays(vals), DaysOf(vals, Len(vals)))
<1> DEFINE Kept(n, g) == g = [k \in 0 .. n |-> IF k = 0 THEN <<>>
                                               ELSE AddDay(g[k - 1], TrimSpace(vals[k]))]
           kept[k \in 0 .. Len(vals)] == IF k = 0 THEN <<>>
                                         ELSE AddDay(kept[k - 1], TrimSpace(vals[k]))
<1>1. Len(vals) \in Nat
  BY LenProperties
<1>2. \A n \in Nat : \E g : Kept(n, g)
  <2> DEFINE T == {n \in Nat : ~ \E g : Kept(n, g)}
  <2>1. SUFFICES ASSUME T # {} PROVE FALSE
    OBVIOUS
  <2>2. PICK n \in T : \A m \in T : n <= m
    BY <2>1, Least
  <2>3. n # 0
    <3>1. Kept(0, [k \in 0 .. 0 |-> <<>>])
      OBVIOUS
    <3> QED
      BY <3>1
  <2>4. n - 1 \in Nat /\ n - 1 \notin T
    BY <2>2, <2>3
  <2>5. PICK g : Kept(n - 1, g)
    BY <2>4
  <2> DEFINE h == [k \in 0 .. n |-> IF k = n THEN AddDay(g[n - 1], TrimSpace(vals[n])) ELSE g[k]]
  <2>6. ASSUME NEW k \in 0 .. n
        PROVE  h[k] = IF k = 0 THEN <<>> ELSE AddDay(h[k - 1], TrimSpace(vals[k]))
    <3>1. CASE k = n
      <4>1. n - 1 \in 0 .. n /\ n - 1 # n
        BY <2>3
      <4> QED
        BY <2>3, <3>1, <4>1
    <3>2. CASE k # n
      <4>1. k \in 0 .. n - 1 /\ (k # 0 => k - 1 \in 0 .. n /\ k - 1 # n)
        BY <3>2
      <4>2. g[k] = IF k = 0 THEN <<>> ELSE AddDay(g[k - 1], TrimSpace(vals[k]))
        BY <2>5, <4>1
      <4> QED
        BY <3>2, <4>1, <4>2
    <3> QED
      BY <3>1, <3>2
  <2>7. Kept(n, h)
    <3>1. h = [k \in 0 .. n |-> h[k]]
      OBVIOUS
    <3> HIDE DEF h
    <3> QED
      BY <2>6, <3>1
  <2> QED
    BY <2>7
<1>3. Kept(Len(vals), kept)
  <2>1. PICK g : Kept(Len(vals), g)
    BY <1>1, <1>2
  <2> QED
    BY <2>1
<1>4. BuildWeekdays(vals) = kept[Len(vals)]
  BY DEF BuildWeekdays
<1>5. kept[0] = <<>> /\ \A k \in 1 .. Len(vals) : kept[k] = AddDay(kept[k - 1], TrimSpace(vals[k]))
  <2>1. 0 \in 0 .. Len(vals) /\ \A k \in 1 .. Len(vals) : k \in 0 .. Len(vals) /\ k # 0
    BY <1>1
  <2> HIDE DEF kept
  <2> QED
    BY <1>3, <2>1
<1> HIDE DEF kept, Kept
<1>6. \A n \in 0 .. Len(vals) : Stores(kept[n], DaysOf(vals, n))
  <2> DEFINE T == {n \in 0 .. Len(vals) : ~Stores(kept[n], DaysOf(vals, n))}
  <2>1. SUFFICES ASSUME T # {} PROVE FALSE
    OBVIOUS
  <2>2. PICK n \in T : \A m \in T : n <= m
    <3>1. T \subseteq Nat
      BY <1>1
    <3> HIDE DEF T
    <3> QED
      BY <2>1, <3>1, Least
  <2>3. n # 0
    <3>1. DaysOf(vals, 0) = {}
      BY DEF DaysOf
    <3>2. Stores(<<>>, {})
      BY Texts DEF Stores
    <3> QED
      BY <1>5, <2>2, <3>1, <3>2
  <2>4. n - 1 \in 0 .. Len(vals) /\ n \in 1 .. Len(vals) /\ ~(n <= n - 1)
    BY <1>1, <2>3
  <2>5. Stores(kept[n - 1], DaysOf(vals, n - 1))
    BY <2>2, <2>4
  <2>6. DaysOf(vals, n) = DaysOf(vals, n - 1) \cup ({TrimSpace(vals[n])} \cap ISODays)
    <3>1. \A k : k \in 1 .. n <=> k \in 1 .. n - 1 \/ k = n
      BY <1>1, <2>4
    <3> QED
      BY <3>1 DEF DaysOf
  <2>7. Stores(kept[n], DaysOf(vals, n))
    BY <1>5, <2>4, <2>5, <2>6, AddsDay
  <2> QED
    BY <2>2, <2>7
<1> QED
  BY <1>1, <1>4, <1>6

\* What weekdayAllowed and hasWeekday read in what buildWeekdays stored.
LEMMA ReadsRow ==
  ASSUME NEW row, NEW D, Stores(row, D), NEW d \in 1 .. 7
  PROVE  /\ HasWeekday(row, <<Digit(d)>>) <=> <<Digit(d)>> \in D
         /\ row # <<>> => (WeekdayAllowed(d, row) <=> <<Digit(d)>> \in D)
         /\ row = <<>> <=> D = {}
<1>1. d \in 0 .. 9
  OBVIOUS
<1>2. row = <<>> <=> D = {}
  BY DEF Stores
<1>3. CASE D = {}
  <2>1. Fields(row, Comma) = {<<>>} /\ TrimSpace(<<>>) = <<>>
    BY <1>2, <1>3, FieldsFew, TrimBlank, Texts
  <2>2. <<Digit(d)>> # <<>>
    BY <1>1, DayTexts
  <2> QED
    BY <1>2, <1>3, <2>1, <2>2 DEF HasWeekday
<1>4. CASE D # {}
  <2>1. Fields(row, Comma) = D /\ D \subseteq ISODays
    BY <1>4 DEF Stores
  <2>2. ASSUME NEW part \in D
        PROVE  /\ TrimSpace(part) = part
               /\ Atoi(part) = d <=> part = <<Digit(d)>>
    <3>1. PICK n \in 1 .. 7 : part = <<Digit(n)>>
      BY <2>1, DayTexts
    <3>2. n \in 0 .. 9 /\ 0 \in 0 .. 9
      OBVIOUS
    <3>3. TrimSpace(part) = part
      BY <3>1, <3>2, DayTexts
    <3>4. Atoi(part) = 10 * 0 + n
      BY <3>1, <3>2, AtoiShort
    <3>5. Atoi(part) = n
      BY <3>2, <3>4
    <3>6. part = <<Digit(d)>> <=> n = d
      BY <1>1, <3>1, <3>2, DayTexts
    <3> QED
      BY <3>3, <3>5, <3>6
  <2> QED
    BY <1>2, <1>4, <2>1, <2>2 DEF HasWeekday, WeekdayAllowed
<1> QED
  BY <1>3, <1>4

\* weekdayAllowed decides by Go's weekday.
LEMMA DaysMatch ==
  ASSUME NEW row, NEW D, Stores(row, D), NEW watch, watch.weekdays = row,
         NEW dep, dep.weekday \in 0 .. 6
  PROVE  /\ ISOWeekday(dep.weekday) = ((dep.weekday + 6) % 7) + 1 /\ ISOWeekday(dep.weekday) \in 1 .. 7
         /\ MatchDay(dep, watch) <=> D = {} \/ <<Digit(ISOWeekday(dep.weekday))>> \in D
<1>1. ISOWeekday(dep.weekday) = ((dep.weekday + 6) % 7) + 1 /\ ISOWeekday(dep.weekday) \in 1 .. 7
  BY DEF ISOWeekday
<1>2. /\ row # <<>> => (WeekdayAllowed(ISOWeekday(dep.weekday), row) <=>
                          <<Digit(ISOWeekday(dep.weekday))>> \in D)
      /\ row = <<>> <=> D = {}
  BY <1>1, ReadsRow
<1> QED
  BY <1>1, <1>2 DEF MatchDay

\* The boxes ticked are the days stored.
LEMMA BoxesTicked ==
  ASSUME NEW row, NEW D, Stores(row, D)
  PROVE  Boxes(row) \in Seq(Text) /\ DaysOf(Boxes(row), Len(Boxes(row))) = D
<1> DEFINE box(d) == IF HasWeekday(row, <<Digit(d)>>) THEN << <<Digit(d)>> >> ELSE <<>>
           In(d) == {<<Digit(d)>>} \cap D
<1>1. ASSUME NEW d \in 1 .. 7 PROVE box(d) \in Seq(Text) /\ Range(box(d)) = In(d)
  <2>1. <<Digit(d)>> \in Text
    <3>1. d \in 0 .. 9
      OBVIOUS
    <3> QED
      BY <3>1, DayTexts
  <2>2. CASE <<Digit(d)>> \in D
    <3> DEFINE t == <<Digit(d)>>
    <3>1. box(d) = <<t>>
      BY <2>2, ReadsRow
    <3> HIDE DEF t
    <3>2. <<t>> \in Seq(Text) /\ Range(<<t>>) = {t}
      <4>1. t \in Text
        BY <2>1 DEF t
      <4>2. DOMAIN <<t>> = {1} /\ <<t>>[1] = t
        OBVIOUS
      <4> QED
        BY <4>1, <4>2 DEF Range
    <3> QED
      BY <2>2, <3>1, <3>2 DEF t
  <2>3. CASE <<Digit(d)>> \notin D
    <3>1. box(d) = <<>>
      BY <2>3, ReadsRow
    <3>2. <<>> \in Seq(Text) /\ Range(<<>>) = {}
      BY EmptySeq DEF Range
    <3> QED
      BY <2>3, <3>1, <3>2
  <2> QED
    BY <2>2, <2>3
<1>2. Boxes(row) = box(1) \o box(2) \o box(3) \o box(4) \o box(5) \o box(6) \o box(7)
  BY DEF Boxes
<1> HIDE DEF box
<1>3. ASSUME NEW s \in Seq(Text), NEW d \in 1 .. 7
      PROVE  s \o box(d) \in Seq(Text) /\ Range(s \o box(d)) = Range(s) \cup In(d)
  BY <1>1, ConcatProperties, RangeConcatenation
<1> HIDE DEF In
<1> DEFINE b2 == box(1) \o box(2)
           b3 == b2 \o box(3)
           b4 == b3 \o box(4)
           b5 == b4 \o box(5)
           b6 == b5 \o box(6)
           b7 == b6 \o box(7)
<1>4. b2 \in Seq(Text) /\ Range(b2) = In(1) \cup In(2)
  BY <1>1, <1>3
<1> HIDE DEF b2
<1>5. b3 \in Seq(Text) /\ Range(b3) = In(1) \cup In(2) \cup In(3)
  BY <1>3, <1>4
<1> HIDE DEF b3
<1>6. b4 \in Seq(Text) /\ Range(b4) = In(1) \cup In(2) \cup In(3) \cup In(4)
  BY <1>3, <1>5
<1> HIDE DEF b4
<1>7. b5 \in Seq(Text) /\ Range(b5) = In(1) \cup In(2) \cup In(3) \cup In(4) \cup In(5)
  BY <1>3, <1>6
<1> HIDE DEF b5
<1>8. /\ Boxes(row) \in Seq(Text)
      /\ Range(Boxes(row)) = In(1) \cup In(2) \cup In(3) \cup In(4) \cup In(5) \cup In(6) \cup In(7)
  <2>1. b6 \in Seq(Text) /\ Range(b6) = In(1) \cup In(2) \cup In(3) \cup In(4) \cup In(5) \cup In(6)
    BY <1>3, <1>7
  <2> HIDE DEF b6
  <2>2. b7 \in Seq(Text) /\ Range(b7) = Range(b6) \cup In(7)
    BY <1>3, <2>1
  <2>3. Boxes(row) = b7
    BY <1>2 DEF b2, b3, b4, b5, b6
  <2> QED
    BY <2>1, <2>2, <2>3
<1>9. Range(Boxes(row)) = D
  <2>1. D \subseteq ISODays
    BY DEF Stores
  <2>2. \A day \in D : \E d \in 1 .. 7 : day = <<Digit(d)>>
    BY <2>1, DayTexts
  <2>3. \A d \in 1 .. 7 : d = 1 \/ d = 2 \/ d = 3 \/ d = 4 \/ d = 5 \/ d = 6 \/ d = 7
    OBVIOUS
  <2> QED
    BY <1>8, <2>2, <2>3 DEF In
<1>10. DaysOf(Boxes(row), Len(Boxes(row))) = D
  <2>1. D \subseteq ISODays /\ \A day \in D : TrimSpace(day) = day
    <3>1. D \subseteq ISODays
      BY DEF Stores
    <3>2. \A d \in 1 .. 7 : d \in 0 .. 9
      OBVIOUS
    <3> QED
      BY <3>1, <3>2, DayTexts
  <2> DEFINE b == Boxes(row)
  <2>2. Range(b) = {b[k] : k \in 1 .. Len(b)}
    BY <1>8, RangeEquality
  <2>3. {TrimSpace(b[k]) : k \in 1 .. Len(b)} = D
    BY <1>9, <2>1, <2>2
  <2> QED
    BY <2>1, <2>3 DEF DaysOf
<1> QED
  BY <1>8, <1>10

\* The edit form: saving it unchanged keeps the days a watch is for, whatever was
\* chosen, in whatever order and how often (EditKeepsDays).
THEOREM EditsKeepDays == VisitorSpec => []EditKeepsDays
<1>1. VisitorTypes => EditKeepsDays
  <2> SUFFICES ASSUME VisitorTypes, Typing, form # None
               PROVE  EditKeepsDays
    BY DEF EditKeepsDays
  <2> DEFINE row   == BuildWeekdays(form.weekdays)
             saved == BuildWeekdays(Boxes(row))
             D     == DaysOf(form.weekdays, Len(form.weekdays))
  <2>1. form.weekdays \in Seq(Text)
    BY DEF VisitorTypes, WatchForms
  <2>2. Stores(row, D)
    BY <2>1, BuildsRow
  <2> HIDE DEF D, row
  <2>3. Stores(saved, D)
    <3>1. Boxes(row) \in Seq(Text) /\ DaysOf(Boxes(row), Len(Boxes(row))) = D
      BY <2>2, BoxesTicked
    <3> QED
      BY <3>1, BuildsRow
  <2> HIDE DEF saved
  <2>4. ASSUME NEW dep \in [weekday : 0 .. 6]
        PROVE  /\ MatchDay(dep, [weekdays |-> saved]) <=> MatchDay(dep, [weekdays |-> row])
               /\ row # <<>> => (MatchDay(dep, [weekdays |-> row]) <=>
                                   HasWeekday(row, <<Digit(ISOWeekday(dep.weekday))>>))
    <3> DEFINE n == ISOWeekday(dep.weekday)
               W(r) == [weekdays |-> r]
    <3>1. dep.weekday \in 0 .. 6 /\ W(row).weekdays = row /\ W(saved).weekdays = saved
      OBVIOUS
    <3> HIDE DEF W
    <3>2. /\ n \in 1 .. 7
          /\ MatchDay(dep, W(row)) <=> D = {} \/ <<Digit(n)>> \in D
          /\ MatchDay(dep, W(saved)) <=> D = {} \/ <<Digit(n)>> \in D
      BY <2>2, <2>3, <3>1, DaysMatch
    <3>3. /\ HasWeekday(row, <<Digit(n)>>) <=> <<Digit(n)>> \in D
          /\ row = <<>> <=> D = {}
      BY <2>2, <3>2, ReadsRow
    <3> QED
      BY <3>2, <3>3 DEF W
  <2> QED
    BY <2>4 DEF EditKeepsDays, row, saved
<1> QED
  BY <1>1, VisitorTyped, PTL

\* From the form to the row and to matcher.Match: a watch announces exactly what
\* its form asks for (MatchesAsTyped), for all places, times and days.
THEOREM AnnouncedAsTyped == VisitorSpec => []MatchesAsTyped
<1>1. VisitorTypes => MatchesAsTyped
  <2> SUFFICES ASSUME VisitorTypes, Both PROVE MatchesAsTyped
    BY DEF MatchesAsTyped
  <2> DEFINE route == ParseRoute(entry)
             watch == WatchOf(form)
             dep   == entry.availableAt
             wd    == ((dep.weekday + 6) % 7) + 1
             D     == DaysOf(form.weekdays, Len(form.weekdays))
  <2>1. entry \in APIEntries /\ form \in WatchForms /\ route # None /\ watch # None
    BY DEF VisitorTypes, Both
  <2>2. dep \in Departures /\ route.departureAt = dep /\ dep.weekday \in 0 .. 6
    BY <2>1, Routes DEF Departures
  <2>3. form.weekdays \in Seq(Text) /\ watch.weekdays = BuildWeekdays(form.weekdays)
    BY <2>1, Watches DEF WatchForms
  <2>4. Stores(watch.weekdays, D)
    BY <2>3, BuildsRow
  <2>5. \A d \in 1 .. 7 : d \in Chosen(form.weekdays) <=> <<Digit(d)>> \in D
    <3>1. DOMAIN form.weekdays = 1 .. Len(form.weekdays)
      BY <2>3, LenProperties
    <3>2. \A d \in 1 .. 7 : <<Digit(d)>> \in ISODays
      BY DEF ISODays
    <3> QED
      BY <3>1, <3>2 DEF Chosen, DaysOf
  <2>6. Chosen(form.weekdays) = {} <=> D = {}
    <3>1. \A day \in D : \E d \in 1 .. 7 : day = <<Digit(d)>>
      BY DayTexts DEF DaysOf
    <3>2. Chosen(form.weekdays) \subseteq 1 .. 7
      BY DEF Chosen
    <3> QED
      BY <2>5, <3>1, <3>2
  <2>7. MatchDay(dep, watch) <=> Chosen(form.weekdays) = {} \/ wd \in Chosen(form.weekdays)
    <3>1. wd \in 1 .. 7 /\ (MatchDay(dep, watch) <=> D = {} \/ <<Digit(wd)>> \in D)
      <4> HIDE DEF D, watch, dep
      <4>1. /\ ISOWeekday(dep.weekday) = wd /\ ISOWeekday(dep.weekday) \in 1 .. 7
            /\ MatchDay(dep, watch) <=> D = {} \/ <<Digit(ISOWeekday(dep.weekday))>> \in D
        BY <2>2, <2>4, DaysMatch
      <4> QED
        BY <4>1
    <3> QED
      BY <2>5, <2>6, <3>1
  <2>8. /\ MatchPlace(route.origin, watch.origin) <=> Occurs(TrimSpace(form.origin), route.origin)
        /\ MatchPlace(route.destination, watch.destination) <=>
             Occurs(TrimSpace(form.destination), route.destination)
    BY <2>1, PlacesMatch
  <2>9. MatchTime(dep, watch) <=>
          /\ TrimSpace(form.earliest) # <<>> => NotAfter(TrimSpace(form.earliest), Clock(dep.hour, dep.minute))
          /\ TrimSpace(form.latest) # <<>> => NotAfter(Clock(dep.hour, dep.minute), TrimSpace(form.latest))
    BY <2>1, <2>2, TimesMatch
  <2>10. Match(route, watch) <=>
           /\ MatchPlace(route.origin, watch.origin) /\ MatchPlace(route.destination, watch.destination)
           /\ MatchTime(dep, watch) /\ MatchDay(dep, watch)
    BY <2>2 DEF Match
  <2> QED
    BY <2>7, <2>8, <2>9, <2>10 DEF MatchesAsTyped
<1> QED
  BY <1>1, VisitorTyped, PTL
=============================================================================
