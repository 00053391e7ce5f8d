\* Two requests at a time, on two addresses, two accounts and two links, with
\* every method failing.
SPECIFICATION Spec
CONSTANTS
  Requests = {r1, r2}
  Emails = {m1, m2}
  Links = {l1, l2}
  Log = Log
  MaxUsers = 2
  Faults = {"GetUserByEmail", "CreateResetToken", "Send", "GetResetToken",
            "UpdateUserPassword", "MarkResetTokenUsed", "Crash"}
  None = None
SYMMETRY Symmetries
INVARIANTS TypeOK OnlyOwnersReset NoLateReset UsedMeansDone MailedLinksWork
CHECK_DEADLOCK FALSE
