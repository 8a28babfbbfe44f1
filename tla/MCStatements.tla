---------------------------- MODULE MCStatements ----------------------------
(***************************************************************************)
(* The pure functions of the backend on all small inputs.  A behaviour     *)
(* grows one input, step by step: the rows that TransferCandidates and the *)
(* analytics queries see, the entries of a statement, or a description.    *)
(***************************************************************************)
EXTENDS TransferMatching, StatementIngest, CategorizeEngine, Analytics

CONSTANTS
  Uploads,     \* the statements that rows come from
  Days,        \* dates of rows
  MonthOf,     \* ... and the month of each
  CategoryOf,  \* the category of each statement's rows
  Amounts,     \* amounts of rows, in cents
  MaxRows,     \* bound on the rows
  Entries,     \* entries a statement may have
  MaxEntries,  \* bound on the entries of a statement
  Characters,  \* characters of descriptions
  MaxLength    \* bound on the length of a description

ASSUME DaysAssumption == Days \subseteq Int
ASSUME MonthsAssumption == \A d \in Days : MonthOf[d] # AllMonths
ASSUME AmountsAssumption == Amounts \subseteq Int
ASSUME EntriesAssumption ==
  /\ Entries \subseteq [date   : {d \in [day : 1..31, month : 1..12] : IsDate(d.day, d.month)},
                        words  : SUBSET STRING,
                        cents  : Nat,
                        credit : BOOLEAN]
  /\ \A e \in Entries : e.words \cap Headings = {}

VARIABLES txns, entries, description

vars == <<txns, entries, description>>

\* Constants of the instance.
Halves  == [d \in Days |-> IF d < 2 THEN "January" ELSE "February"]
OneEach == [a |-> "Dining", b |-> "Groceries", c |-> "Dining"]

SmallEntries ==
  {[date |-> d, words |-> w, cents |-> c, credit |-> side] :
     d \in {[day |-> 3, month |-> 4], [day |-> 13, month |-> 4]},
     w \in {{"tesco"}, {"salary", "march"}},
     c \in {0, 2500, 120045},
     side \in BOOLEAN}

SmallTable ==
  {[word |-> <<"A">>, category |-> "Cash"],
   [word |-> <<"A", "B", "B">>, category |-> "Dining"],
   [word |-> <<"B", "A", "A", "B", " ", "B">>, category |-> "Travel"]}

Row(n) ==
  {[id |-> n, upload |-> u, day |-> d, month |-> MonthOf[d], cents |-> c,
    credit |-> side, category |-> CategoryOf[u]] :
     u \in Uploads, d \in Days, c \in Amounts, side \in BOOLEAN}

Init == txns = <<>> /\ entries = <<>> /\ description = <<>>

AnotherRow ==
  /\ entries = <<>> /\ description = <<>>
  /\ Len(txns) < MaxRows
  /\ \E row \in Row(Len(txns) + 1) : txns' = Append(txns, row)
  /\ UNCHANGED <<entries, description>>

AnotherEntry ==
  /\ txns = <<>> /\ description = <<>>
  /\ Len(entries) < MaxEntries
  /\ \E e \in Entries : entries' = Append(entries, e)
  /\ UNCHANGED <<txns, description>>

AnotherCharacter ==
  /\ txns = <<>> /\ entries = <<>>
  /\ Len(description) < MaxLength
  /\ \E c \in Characters : description' = Append(description, c)
  /\ UNCHANGED <<txns, entries>>

Next == AnotherRow \/ AnotherEntry \/ AnotherCharacter

Spec == Init /\ [][Next]_vars

----------------------------------------------------------------------------
(* Properties of MatchTransfers.                                           *)

\* Each transaction joins at most one pair: no row is a side of two.
AtMostOnePair ==
  \A p, q \in Matched(txns) :
    p.debit = q.debit \/ p.credit = q.credit => p = q

\* Closest dates first: two rows that could have been paired and were not are
\* kept apart by a pair of one of them that is at least as close.  In
\* particular no two rows that could pair are both left over.
ClosestFirst ==
  \A p \in Pairs(txns) \ Matched(txns) :
    \E q \in Matched(txns) :
      /\ q.debit = p.debit \/ q.credit = p.credit
      /\ Gap(txns, q) <= Gap(txns, p)

\* Another row never leaves fewer transfers recognised, though it may take the
\* partner of one.
NoFewerPairs ==
  [][Cardinality(Matched(txns')) >= Cardinality(Matched(txns))]_txns

\* TransferCandidates has no ORDER BY: what is marked does not depend on the
\* order of the rows, unless two pairs that share a row are equally close.
OrderIsFree ==
  LET backwards == [i \in DOMAIN txns |-> txns[Len(txns) + 1 - i]]
      tie == \E p, q \in Pairs(txns) :
               p # q /\ Clash(p, q) /\ Gap(txns, p) = Gap(txns, q)
  IN tie \/ MatchTransfers(backwards) = MatchTransfers(txns)

----------------------------------------------------------------------------
(* Properties of the dashboard's totals, before and after the marking.     *)

Marked ==
  [i \in DOMAIN txns |->
     IF txns[i].id \in MatchTransfers(txns)
       THEN [txns[i] EXCEPT !.category = "Transfers"] ELSE txns[i]]

\* The chart's slices add up to the money out of the tile above it, for every
\* month the summary lists and for all of them together: the tile groups the
\* rows by month, the chart by category, in two queries.
ChartAddsUp ==
  LET sum      == Summary(Marked)
      chart(m) == CategoryBreakdown(Marked, m)
  IN \A m \in DOMAIN sum.months \cup {AllMonths} :
       MapThenSumSet(LAMBDA c : chart(m)[c], DOMAIN chart(m)) = Tiles(sum, m).outflow

----------------------------------------------------------------------------
(* Statements as banks print them; `plain` chooses among spellings.        *)

Number(cents, sign, plain) ==
  IF plain /\ cents % 100 = 0
    THEN [is |-> "number", digits |-> cents \div 100, point |-> FALSE, sign |-> sign]
    ELSE [is |-> "number", digits |-> cents, point |-> TRUE, sign |-> sign]

Date(d) == [is |-> "date", first |-> d.day, second |-> d.month]

Text(e) == IF Income \cap e.words # {} THEN "SALARY" ELSE "TESCO"

Headers ==
  {<<"date", "description", "amount", "balance">>,
   <<"value date", "balance", "amount", "memo", "transaction date", "details">>,
   <<"date", "details", "money out", "money in">>,
   <<"transaction date", "posting date", "billing amount", "merchant", "debit/credit flag">>}

\* The flags parseFlag knows, as a bank pairs them.
Flags ==
  {[debit |-> "D", credit |-> "C"], [debit |-> "DR", credit |-> "CR"],
   [debit |-> "DBIT", credit |-> "CRDT"], [debit |-> "DEBIT", credit |-> "CREDIT"]}

Cell(name, e, plain, flags) ==
  CASE name \in {"date", "transaction date"} -> Date(e.date)
    [] name \in {"value date", "posting date"} -> Date([day |-> 28, month |-> 12])
    [] name \in {"description", "details", "merchant"} -> [is |-> "words", text |-> Text(e)]
    [] name = "amount" ->
         Number(e.cents, IF e.credit THEN "" ELSE IF plain THEN "-" ELSE "(", plain)
    [] name = "billing amount" -> Number(e.cents, "", plain)
    [] name = "debit/credit flag" ->
         [is |-> "words", text |-> IF e.credit THEN flags.credit ELSE flags.debit]
    [] name = "money out" -> IF e.credit THEN Blank ELSE Number(e.cents, "", plain)
    [] name = "money in" -> IF e.credit THEN Number(e.cents, "", plain) ELSE Blank
    [] name = "balance" -> Number(123456, "", FALSE)
    [] name = "memo" -> Blank

\* A row may end with its last cell that is not blank.
CsvRow(header, e, plain, flags) ==
  LET row == [i \in DOMAIN header |-> Cell(header[i], e, plain, flags)]
  IN IF plain /\ row[Len(row)] = Blank THEN SubSeq(row, 1, Len(row) - 1) ELSE row

TextLine(e, plain) ==
  [date    |-> Date(e.date),
   text    |-> Text(e),
   words   |-> e.words,
   numbers |-> <<Number(e.cents, IF plain /\ ~e.credit THEN "-" ELSE "", FALSE)>>,
   marker  |-> IF e.credit THEN "CR" ELSE IF plain THEN "" ELSE "DR"]

Closing(e) ==
  [TextLine(e, TRUE) EXCEPT !.words = {"closing", "balance"}, !.marker = ""]

\* What the user spent and received, but for entries of nothing.
Transactions(es) ==
  LET row(e) == [date |-> e.date, text |-> Text(e), cents |-> e.cents, credit |-> e.credit]
      f[i \in 0..Len(es)] ==
        IF i = 0 THEN <<>>
        ELSE f[i - 1] \o (IF es[i].cents = 0 THEN <<>> ELSE <<row(es[i])>>)
  IN f[Len(es)]

\* A CSV statement gives back the entries it was exported from, under each of
\* the headers: with one signed column, with debit and credit columns of which
\* one is blank, or with a flag in any of the pairs of spellings; beside columns
\* of other dates and amounts, with a minus or parentheses around what was spent,
\* with points or, for round amounts, without.
CsvRoundTrip ==
  entries # <<>> => \A header \in Headers, plain \in BOOLEAN, flags \in Flags :
    ParseCSV(header, [i \in DOMAIN entries |-> CsvRow(header, entries[i], plain, flags)])
      = Transactions(entries)

\* So does the text of a statement whose lines mark credits with CR and debits
\* with DR or a minus, salary or not; the balance below them is no entry.
TextRoundTrip ==
  entries # <<>> => \A plain \in BOOLEAN :
    LET lines == [i \in DOMAIN entries |-> TextLine(entries[i], plain)]
    IN ParseStatementText(Append(lines, Closing(entries[1]))) = Transactions(entries)

----------------------------------------------------------------------------
(* Properties of the categorisation of names.                              *)

\* The words that one letter more, less or other makes of a word.
Misspellings(word) ==
  LET n == Len(word)
  IN {word}
     \cup {SubSeq(word, 1, i - 1) \o SubSeq(word, i + 1, n) : i \in 1..n}
     \cup {[word EXCEPT ![i] = c] : i \in 1..n, c \in Kept}
     \cup {SubSeq(word, 1, i) \o <<c>> \o SubSeq(word, i + 1, n) : i \in 0..n, c \in Kept}

Misspells(token, word) ==
  /\ Len(token) >= FuzzyLength /\ Len(word) >= FuzzyLength
  /\ \/ token \in Misspellings(word)
     \/ Len(word) >= LongLength /\ Misspellings(token) \cap Misspellings(word) # {}

\* The fuzzy round absorbs one misspelt letter, two in long words, and nothing
\* more: a name without a keyword gets a category exactly when one of its words
\* is a misspelling.
MisspellingsAbsorbed ==
  LET name == Normalize(description)
      known == \E k \in Keywords : Exact(name, k.word)
      misspelt == \E k \in Keywords, t \in Tokens(name) : Misspells(t, FirstToken(k.word))
  IN CategorizeName(description, <<>>) = {Uncategorized} <=> ~known /\ ~misspelt

\* The same name without separators around it, and with twice as many in it.
Respelled(s) ==
  LET kept    == {i \in DOMAIN s : s[i] \in Kept}
      twice[i \in 0..Len(s)] ==
        IF i = 0 THEN <<>>
        ELSE twice[i - 1] \o (IF i \in kept THEN <<s[i]>> ELSE <<s[i], s[i]>>)
  IN {SubSeq(s, Min(kept), Max(kept)), twice[Len(s)]}

\* A correction applies to every later statement that names the merchant,
\* however it is spaced and whatever surrounds it: the rule's pattern is the
\* normalized name, and normalizing a longer name keeps it in one piece.
CorrectionReaches ==
  LET rule == [pattern |-> Normalize(description), category |-> "Corrected"]
  IN rule.pattern # <<>> =>
       \A s \in Respelled(description), before, after \in {<<>>} \cup {<<c>> : c \in Characters} :
         CategorizeName(before \o s \o after, <<rule>>) = {"Corrected"}

=============================================================================
