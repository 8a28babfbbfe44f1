------------------------------ MODULE Analytics ------------------------------
(***************************************************************************)
(* The totals of the dashboard over the rows of one user's transactions,   *)
(* records with fields month, cents, credit and category.                  *)
(***************************************************************************)
EXTENDS Integers, Sequences, FiniteSetsExt

\* The cents of some rows together.
Total(txns, S) == MapThenSumSet(LAMBDA i : txns[i].cents, S)

\* Rows that count: transfers between own accounts are neither in nor out.
Counted(txns) == {i \in DOMAIN txns : txns[i].category # "Transfers"}

\* What came in and went out in each month that has a row that counts.
MonthlyFlows(txns) ==
  LET flow(month, credit) ==
        Total(txns, {i \in Counted(txns) : txns[i].month = month /\ txns[i].credit = credit})
  IN [m \in {txns[i].month : i \in Counted(txns)} |->
        [inflow |-> flow(m, TRUE), outflow |-> flow(m, FALSE)]]

\* The totals of all time are accumulated over the months.
Summary(txns) ==
  LET flows   == MonthlyFlows(txns)
      inflow  == MapThenSumSet(LAMBDA m : flows[m].inflow, DOMAIN flows)
      outflow == MapThenSumSet(LAMBDA m : flows[m].outflow, DOMAIN flows)
  IN [months |-> flows, totalInflow |-> inflow, totalOutflow |-> outflow,
      net |-> inflow - outflow]

\* No month is selected.
AllMonths == ""

\* The dashboard's tiles: a month that the summary does not list, because it has
\* no row that counts any more, gets the totals of all time.
Tiles(sum, month) ==
  IF month # AllMonths /\ month \in DOMAIN sum.months
    THEN sum.months[month]
    ELSE [inflow |-> sum.totalInflow, outflow |-> sum.totalOutflow]

\* Mutant: payments to own accounts count as spending.
SpendingOfAll(txns, month) ==
  {i \in DOMAIN txns : ~txns[i].credit /\ month \in {AllMonths, txns[i].month}}

Spending(txns, month) ==
  {i \in Counted(txns) : ~txns[i].credit /\ month \in {AllMonths, txns[i].month}}

\* The chart: the totals per category of the debits of a month, or of all.
CategoryBreakdown(txns, month) ==
  LET spent == Spending(txns, month)
  IN [c \in {txns[i].category : i \in spent} |->
        Total(txns, {i \in spent : txns[i].category = c})]

=============================================================================
