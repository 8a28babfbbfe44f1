\* One upload, two requests of a kind in flight, two events: failures, another
\* filter, logouts.
SPECIFICATION FairSpec
CONSTANTS
  u1 = u1
  u2 = u2
  Uploads = {u1}
  Filters = {"all", "may"}
  All = "all"
  None = None
  Requests = {1, 2}
  MaxEvents = 2
CHECK_DEADLOCK FALSE
CONSTRAINT Undisturbed
INVARIANTS
  CompletedIsRefreshed
PROPERTIES
  Converges
