\* Lists of up to four rows, statements of up to three entries, names of up to
\* six characters.
SPECIFICATION Spec
CONSTANTS
  Window = 2
  Uploads = {"a", "b", "c"}
  Days = {0, 1, 3}
  MonthOf <- Halves
  CategoryOf <- OneEach
  Amounts = {100}
  MaxRows = 4
  Entries <- SmallEntries
  MaxEntries = 3
  Kept = {"A", "B"}
  Keywords <- SmallTable
  ShortLength = 1
  FuzzyLength = 3
  LongLength = 4
  Uncategorized = "Uncategorized"
  Characters = {"A", "B", "*"}
  MaxLength = 6
CHECK_DEADLOCK FALSE
INVARIANTS
  AtMostOnePair
  ClosestFirst
  OrderIsFree
  ChartAddsUp
  CsvRoundTrip
  TextRoundTrip
  MisspellingsAbsorbed
  CorrectionReaches
PROPERTIES
  NoFewerPairs
