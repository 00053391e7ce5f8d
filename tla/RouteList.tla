------------------------------ MODULE RouteList ------------------------------
(***************************************************************************)
(* The pages of GET /routes: handleRoutes counts the rows a query finds,   *)
(* then reads one page of them, while the poller stores and renames routes.*)
(* A reader opens the list and follows its Prev and Next links. A row is   *)
(* its rank in ORDER BY departure_at DESC, which no update changes.        *)
(***************************************************************************)
EXTENDS Naturals, FiniteSets

CONSTANTS
  Rows,      \* ranks of the rows the query may find, numbers
  PageSize,  \* routesPageSize, positive: 50 in the code
  Faults     \* "CountSearchRoutes", "SearchRoutes"

ASSUME RouteListAssumption == Rows \subseteq Nat /\ PageSize \in Nat \ {0}

VARIABLES
  rows,    \* table routes: the rows the query finds
  at,      \* where the request of the reader is
  page,
  total,   \* what CountSearchRoutes returned
  next,    \* the Next link of the page shown, or 0
  unseen,  \* history: rows found when the reader opened the list, not shown since
  raced,   \* history: a row was stored between the count and the page
  broken   \* history: a row left the list, or a statement failed, since

vars == <<rows, at, page, total, next, unseen, raced, broken>>

MayFail(call) == call \in Faults

Init ==
  /\ rows \in SUBSET Rows /\ IsFiniteSet(rows)
  /\ at = "away" /\ page = 1 /\ total = 0 /\ next = 0
  /\ unseen = {} /\ raced = FALSE /\ broken = FALSE

-----------------------------------------------------------------------------
\* LIMIT PageSize OFFSET (p - 1) * PageSize.
PageOf(R, p) ==
  LET offset == (p - 1) * PageSize
  IN  {r \in R : Cardinality({s \in R : s < r}) \in offset .. offset + PageSize - 1}

\* Mutant: an incomplete last page is no page.
NextPageFloor(n, p) ==
  LET pages == IF n < PageSize THEN 1 ELSE n \div PageSize
  IN  IF p + 1 > pages THEN 0 ELSE p + 1

NextPage(n, p) ==
  LET pages == IF n = 0 THEN 1 ELSE (n + PageSize - 1) \div PageSize
  IN  IF p + 1 > pages THEN 0 ELSE p + 1

Open ==
  /\ at = "away"
  /\ at' = "count" /\ page' = 1
  /\ unseen' = rows /\ broken' = FALSE
  /\ UNCHANGED <<rows, total, next, raced>>

\* An error of the count is logged, and counts as no rows.
CountSearchRoutes ==
  /\ at = "count"
  /\ at' = "search" /\ raced' = FALSE
  /\ \/ total' = Cardinality(rows) /\ UNCHANGED broken
     \/ MayFail("CountSearchRoutes") /\ total' = 0 /\ broken' = TRUE
  /\ UNCHANGED <<rows, page, next, unseen>>

SearchRoutes ==
  /\ at = "search"
  /\ at' = "page"
  /\ next' = NextPage(total, page)
  /\ \/ unseen' = unseen \ PageOf(rows, page) /\ UNCHANGED broken
     \/ MayFail("SearchRoutes") /\ broken' = TRUE /\ UNCHANGED unseen
  /\ UNCHANGED <<rows, page, total, raced>>

Follow ==
  /\ at = "page"
  /\ page' \in {next, page - 1} \ {0}
  /\ at' = "count"
  /\ UNCHANGED <<rows, total, next, unseen, raced, broken>>

Leave ==
  /\ at = "page"
  /\ at' = "away" /\ page' = 1 /\ total' = 0 /\ next' = 0
  /\ unseen' = {} /\ raced' = FALSE /\ broken' = FALSE
  /\ UNCHANGED rows

\* The poller stores a route, anywhere in the order.
Store(r) ==
  /\ r \notin rows
  /\ rows' = rows \cup {r}
  /\ raced' = (raced \/ at = "search")
  /\ UNCHANGED <<at, page, total, next, unseen, broken>>

\* The poller renames a route, and the query does not find it any more.
Rename(r) ==
  /\ r \in rows
  /\ rows' = rows \ {r}
  /\ broken' = (at # "away")
  /\ UNCHANGED <<at, page, total, next, unseen, raced>>

Next ==
  \/ Open \/ CountSearchRoutes \/ SearchRoutes \/ Follow \/ Leave
  \/ \E r \in Rows : Store(r) \/ Rename(r)

Spec == Init /\ [][Next]_vars

-----------------------------------------------------------------------------
\* Whoever follows the Next links to the end has been shown every row the list
\* had when it was opened, however many routes the poller stored meanwhile,
\* unless one was stored between the last count and its page; and no Next link
\* leads to a page without rows.
WalkIsComplete ==
  at = "page" /\ ~broken =>
    /\ next = 0 /\ ~raced => unseen = {}
    /\ next # 0 => PageOf(rows, next) # {}
=============================================================================
