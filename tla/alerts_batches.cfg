\* Two watches of one user and two routes: alerts of several routes. Reads may
\* fail and a push may hang: when the poller hangs and every id has been given
\* out, nothing is left to happen.
SPECIFICATION FairSpec
CONSTANTS
  u1 = u1  w1 = w1  w2 = w2  r1 = r1  r2 = r2
  n1 = n1  n2 = n2  c1 = c1  c2 = c2  cAny = cAny
  Users = {u1}
  WatchIds = {w1, w2}
  Owner <- OneOwner
  Routes = {r1, r2}
  Names = {n1, n2}
  Criteria = {c1, cAny}
  Matches <- MCMatches
  Offers <- StableOffers
  Departs <- MCDeparts
  ScanLimit = 2
  Requests = {q1}
  Ops = {"create", "delete"}
  Faults = {"GetAllActiveWatches", "GetAllRoutes", "HasBeenNotified", "Send"}
  Fetcher = Fetcher
  None = None
INVARIANTS MarkedBeforeSent MarkedIsSent OneTimePolledOnce
PROPERTIES KeepsLedger PollerReturns
CHECK_DEADLOCK FALSE
