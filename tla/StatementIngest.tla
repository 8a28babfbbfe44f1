--------------------------- MODULE StatementIngest ---------------------------
(***************************************************************************)
(* The parsers of uploaded statements, ParseCSV and ParseStatementText.    *)
(*                                                                         *)
(* A CSV is a header of lower-case names and rows of cells, which may be   *)
(* shorter than the header.  A cell is blank, words, a date as two numbers *)
(* in the order they are printed, or a number: its digits read without any *)
(* punctuation, whether a point stands before the last two of them, and    *)
(* its sign ("", "-" or "(").  Amounts are cents.                          *)
(***************************************************************************)
EXTENDS Integers, Sequences, FiniteSetsExt

Blank == [is |-> "blank"]

\* Dates of a leap year: the year is left out.
IsDate(day, month) ==
  /\ month \in 1..12
  /\ day \in 1..(IF month = 2 THEN 29 ELSE IF month \in {4, 6, 9, 11} THEN 30 ELSE 31)

\* The layouts are tried day first; a cell that is no date that way is read
\* month first.
ParseDate(cell) ==
  IF cell.is # "date" THEN {}
  ELSE IF IsDate(cell.first, cell.second) THEN {[day |-> cell.first, month |-> cell.second]}
  ELSE IF IsDate(cell.second, cell.first) THEN {[day |-> cell.second, month |-> cell.first]}
  ELSE {}

\* cleanAmount keeps digits, points and the sign; commas vanish, whatever they
\* stand for.  A set, empty for an error.
CleanAmount(cell) ==
  IF cell.is # "number" THEN {}
  ELSE {[cents |-> IF cell.point THEN cell.digits ELSE 100 * cell.digits,
         neg   |-> cell.sign # ""]}

\* Mutant: only the flags that the function's comment names are known.
FlagOfComment(cell) ==
  IF cell.is # "words" THEN {}
  ELSE {[credit |-> f \in {"C", "CR", "CREDIT"}] :
          f \in {cell.text} \cap {"D", "DR", "DEBIT", "C", "CR", "CREDIT"}}

ParseFlag(cell) ==
  IF cell.is # "words" THEN {}
  ELSE {[credit |-> f \in {"C", "CR", "CRDT", "CREDIT"}] :
          f \in {cell.text} \cap {"D", "DR", "DBIT", "DEBIT", "C", "CR", "CRDT", "CREDIT"}}

Synonyms ==
  [date        |-> <<"date", "transaction date", "posted date", "value date">>,
   description |-> <<"description", "merchant", "details", "narrative", "memo", "payee",
                     "transaction description">>,
   amount      |-> <<"amount", "value", "transaction amount", "billing amount", "billed amount">>,
   debit       |-> <<"debit", "debit amount", "money out", "paid out", "withdrawal">>,
   credit      |-> <<"credit", "credit amount", "money in", "paid in", "deposit">>,
   flag        |-> <<"debit/credit flag", "debit / credit flag", "debit/credit",
                     "dr/cr indicator", "dr/cr">>]

\* The first synonym that names a column, and the last column of that name.
Columns(header, role) ==
  LET named(n) == {i \in DOMAIN header : header[i] = Synonyms[role][n]}
      known    == {n \in DOMAIN Synonyms[role] : named(n) # {}}
  IN IF known = {} THEN {} ELSE {Max(named(Min(known)))}

\* The cell of a role in a row.
Get(header, row, role) ==
  LET there == Columns(header, role) \cap DOMAIN row
  IN IF there = {} THEN Blank ELSE row[Max(there)]

\* Amount and direction of a row: the first of the amount, debit and credit
\* columns that is not blank, and an explicit flag beats the amount's sign.
Money(header, row) ==
  LET cell(role) == Get(header, row, role)
  IN IF cell("amount") # Blank
       THEN {[cents  |-> a.cents,
              credit |-> IF ParseFlag(cell("flag")) = {} THEN ~a.neg
                         ELSE \E f \in ParseFlag(cell("flag")) : f.credit] :
               a \in CleanAmount(cell("amount"))}
     ELSE IF cell("debit") # Blank
       THEN {[cents |-> a.cents, credit |-> FALSE] : a \in CleanAmount(cell("debit"))}
     ELSE {[cents |-> a.cents, credit |-> TRUE] : a \in CleanAmount(cell("credit"))}

\* The transaction of a row, none if it is bad or its amount is zero.
ParseRow(header, row) ==
  LET words == Get(header, row, "description")
  IN {[date |-> d, text |-> words.text, cents |-> m.cents, credit |-> m.credit] :
        d \in ParseDate(Get(header, row, "date")),
        m \in IF words = Blank THEN {} ELSE {m \in Money(header, row) : m.cents # 0}}

\* Rows that yield nothing are skipped.
Each(rows, parse(_)) ==
  LET f[i \in 0..Len(rows)] ==
        IF i = 0 THEN <<>>
        ELSE IF parse(rows[i]) = {} THEN f[i - 1]
        ELSE Append(f[i - 1], CHOOSE t \in parse(rows[i]) : TRUE)
  IN f[Len(rows)]

\* No transaction is an error, and so are missing columns.
ParseCSV(header, rows) ==
  IF \/ Columns(header, "date") = {}
     \/ Columns(header, "description") = {}
     \/ \A role \in {"amount", "debit", "credit"} : Columns(header, role) = {}
    THEN <<>>
    ELSE Each(rows, LAMBDA row : ParseRow(header, row))

----------------------------------------------------------------------------
(* Lines of OCR text: a date, words, numbers and a marker.                 *)

Income   == {"salary", "payroll", "deposit", "refund"}
Headings == {"balance", "statement"}

\* Mutant: the keywords decide although the line has a marker.
CreditByKeyword(line, neg) ==
  line.marker = "CR" \/ (~neg /\ line.words \cap Income # {})

CreditLine(line, neg) ==
  \/ line.marker = "CR"
  \/ line.marker = "" /\ ~neg /\ line.words \cap Income # {}

\* The expression takes the last number of a line, which needs two decimals,
\* for the amount; those before it belong to the description.
ParseLine(line) ==
  IF line.numbers = <<>> \/ line.words \cap Headings # {} THEN {}
  ELSE LET last == line.numbers[Len(line.numbers)]
       IN {[date |-> d, text |-> line.text, cents |-> a.cents,
            credit |-> CreditLine(line, a.neg)] :
             d \in ParseDate(line.date),
             a \in {a \in CleanAmount(last) : last.point /\ a.cents # 0}}

ParseStatementText(lines) == Each(lines, ParseLine)

=============================================================================
