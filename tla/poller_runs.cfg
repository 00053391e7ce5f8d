\* Requests, bodies and upserts fail, the process is killed, the listing
\* changes, the server may send no tag.
SPECIFICATION FairSpec
CONSTANTS
  Routes = {r1, r2}
  MaxBackoff = 5
  Jitter = 1
  TagHeader = {TRUE, FALSE}
  Faults = {"Request", "Body", "UpsertRoute", "Crash"}
  MaxFails = 5
INVARIANTS TypeOK CachedTagMeansStored StatusHonest BackoffDoubles
PROPERTY ListedIsStored
