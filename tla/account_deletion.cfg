\* A deletion and a clear, against two uploads, a rule and two categories.
SPECIFICATION FairSpec
CONSTANTS
  u1 = u1
  u2 = u2
  r1 = r1
  d1 = d1
  x1 = x1
  Uploads = {u1, u2}
  Patterns = {r1}
  Names = {"petrol", "Petrol"}
  Fold <- FoldOfNames
  Categories = {"cash"}
  Deletions = {d1}
  Clears = {x1}
CHECK_DEADLOCK FALSE
INVARIANTS
  DeletionInv
PROPERTIES
  AtOnce
  DeletionsEnd
