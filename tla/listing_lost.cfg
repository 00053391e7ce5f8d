\* A body that is cut off, or an upsert that fails, after the tag was kept.
SPECIFICATION FairSpec
CONSTANTS
  Routes = {r1, r2}
  MaxBackoff = 5
  Jitter = 1
  TagHeader = {TRUE, FALSE}
  Faults = {"Body", "UpsertRoute"}
  MaxFails = 5
PROPERTY NoListingLost
