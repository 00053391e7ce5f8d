\* Two requests of one browser at a time; any statement may fail.
SPECIFICATION Spec
CONSTANTS
  Browsers = {b1}
  Requests = {q1, q2}
  Emails = {m1}
  Tokens = {t1, t2}
  Notes = {n1, n2, n3}
  MaxUsers = 2
  Faults = {"GetSession", "GetUserByID", "ClearFlash", "SetFlash", "CreateUser",
            "CreateSession", "DeleteSession", "Crash"}
  None = None
INVARIANTS TypeOK EndedStaysEnded NoServiceAfterEnd OneAccountPerEmail
 
SYMMETRY Symmetries
