\* A correction arrives between the reads and the write of markTransfers.
SPECIFICATION Spec
CONSTANTS
  shop = shop
  mall = mall
  blank = blank
  a1 = a1
  a2 = a2
  b1 = b1
  b2 = b2
  c1 = c1
  c2 = c2
  Window = 3
  Uploads = {"a", "b"}
  Lines = {a1, a2, b1, b2}
  Txn <- FourLines
  Patterns = {shop, mall, blank}
  PatternsIn <- MallHasShop
  Blank = blank
  Keywords <- KeywordsOfThree
  Offered = {"Dining", "Transfers"}
  Asked = {blank}
  Clients = {c1}
  MaxIngests = 1
  MaxCorrections = 1
CHECK_DEADLOCK FALSE
PROPERTIES
  HeuristicYields
