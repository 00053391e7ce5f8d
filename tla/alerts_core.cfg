\* Two requests and the poller race over one watch and one route, and writes of
\* either fail.
SPECIFICATION FairSpec
CONSTANTS
  u1 = u1  w1 = w1  w2 = w2  r1 = r1  r2 = r2
  n1 = n1  n2 = n2  c1 = c1  c2 = c2  cAny = cAny
  Users = {u1}
  WatchIds = {w1}
  Owner <- OneOwner
  Routes = {r1}
  Names = {n1, n2}
  Criteria = {c1, c2}
  Matches <- MCMatches
  Offers <- OneOffer
  Departs <- MCDeparts
  ScanLimit = 2
  Requests = {q1, q2}
  Ops = {"create", "edit", "delete"}
  Faults = {"UpsertRoute", "UpdateWatch", "DeactivateWatch"}
  Fetcher = Fetcher
  None = None
INVARIANTS TypeOK NoMissedRoute OwedIsInHand
PROPERTY OwedIsPaid
