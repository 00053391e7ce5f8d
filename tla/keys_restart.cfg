\* Starts are killed and saves fail; at most three pairs are generated. Two
\* addresses send requests around the ends of three windows.
SPECIFICATION ServerSpec
CONSTANTS
  MaxPairs = 3
  Faults = {"SetConfig", "Crash"}
  IPs = {a1, a2}
  Limit = 2
  Window = 2
  MaxCount = 4
  MaxTime = 6
  None = None
INVARIANTS ServerTypeOK BrowsersReachable BurstBound
PROPERTY RefusedForCause
