\* Two corrections and an ingest at a time, of two merchants, one with the
\* other in its name.
SPECIFICATION Spec
CONSTANTS
  shop = shop
  mall = mall
  blank = blank
  a1 = a1
  a2 = a2
  b1 = b1
  b2 = b2
  c1 = c1
  c2 = c2
  Window = 3
  Uploads = {"a", "b"}
  Lines = {a1, a2, b1, b2}
  Txn <- FourLines
  Patterns = {shop, mall, blank}
  PatternsIn <- MallHasShop
  Blank = blank
  Keywords <- KeywordsOfThree
  Offered = {"Dining", "Transfers"}
  Asked = {blank}
  Clients = {c1, c2}
  MaxIngests = 1
  MaxCorrections = 3
CHECK_DEADLOCK FALSE
SYMMETRY ClientsAlike
INVARIANTS
  RowsFollowRules
  RowsAgree
PROPERTIES
  HeuristicYieldsAlone
  CorrectionApplies
