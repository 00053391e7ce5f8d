\* The scan alerts a one-time watch and leaves it active.
SPECIFICATION Spec
CONSTANTS
  u1 = u1  w1 = w1  w2 = w2  r1 = r1  r2 = r2
  n1 = n1  n2 = n2  c1 = c1  c2 = c2  cAny = cAny
  Users = {u1}
  WatchIds = {w1}
  Owner <- OneOwner
  Routes = {r1, r2}
  Names = {n1, n2}
  Criteria = {cAny}
  Matches <- MCMatches
  Offers <- StableOffers
  Departs <- MCDeparts
  ScanLimit = 2
  Requests = {q1}
  Ops = {"create"}
  Faults = {}
  Fetcher = Fetcher
  None = None
INVARIANT OneTimeNotifiesOnce
