\* A user logs out while a statement is processed, and logs in again.
SPECIFICATION Spec
CONSTANTS
  u1 = u1
  u2 = u2
  Uploads = {u1}
  Filters = {"all", "may"}
  All = "all"
  None = None
  Requests = {1, 2}
  MaxEvents = 1
CHECK_DEADLOCK FALSE
INVARIANTS
  PollsWhileBusy
