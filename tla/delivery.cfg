\* Browsers come, move and die while two goroutines deliver and any call fails.
SPECIFICATION Spec
CONSTANTS
  Users = {u1, u2}
  Endpoints = {e1, e2}
  Senders = {d1, d2}
  MailConfigured = TRUE
  Faults = {"Load", "Push", "Prune", "Mail"}
  None = None
SYMMETRY Symmetries
INVARIANTS TypeOK ReachedOrHealed
PROPERTY LiveRowsStay
