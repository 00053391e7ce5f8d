\* One route and a watch that may or may not match it: users, the polling loop
\* and its poller, with requests, bodies, upserts and marks that fail and a
\* process that is killed.
SPECIFICATION FairPipeline
CONSTANTS
  u1 = u1  w1 = w1  r1 = r1  r2 = r2  n1 = n1  n2 = n2  c1 = c1  cAny = cAny
  Users = {u1}
  WatchIds = {w1}
  Owner <- OneOwner
  Routes = {r1}
  Names = {n1}
  Criteria = {c1, cAny}
  Matches <- MCMatches
  Offers <- MCOffers
  Departs <- MCDeparts
  ScanLimit = 2
  Requests = {q1}
  Ops = {"create", "edit", "delete"}
  Faults = {"UpsertRoute", "MarkNotified", "Crash"}
  Fetcher = Fetcher
  None = None
  MaxBackoff = 1
  Jitter = 1
  TagHeader = {TRUE}
  MaxFails = 0
  APIFaults = {"Request", "Body"}
INVARIANTS ListedIsAnnounced FetchNeverRepeats
PROPERTIES SettledStaysSettled ListedIsAlerted
