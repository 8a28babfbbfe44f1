-------------------------- MODULE TransferMatching --------------------------
(***************************************************************************)
(* The transfer matcher: which debits and credits of a user are the two    *)
(* sides of a transfer between accounts of their own.                      *)
(*                                                                         *)
(* The transactions come as a sequence of records in the order the query   *)
(* returned them, with fields id, upload, day, cents, credit, category.    *)
(* Pairs of different amounts never meet, so that one pass over all of     *)
(* them stands for a pass per amount.                                      *)
(***************************************************************************)
EXTENDS Integers, Sequences

CONSTANT Window  \* days the two sides of a transfer may be apart

ASSUME WindowAssumption == Window \in Nat

Gap(txns, p) ==
  LET days == txns[p.debit].day - txns[p.credit].day
  IN IF days < 0 THEN -days ELSE days

\* The positions of a debit and of a credit that may belong together.
Pairs(txns) ==
  {p \in [debit : DOMAIN txns, credit : DOMAIN txns] :
     LET d == txns[p.debit]
         c == txns[p.credit]
     IN /\ ~d.credit /\ c.credit
        /\ d.cents = c.cents
        /\ d.upload # c.upload
        /\ Gap(txns, p) <= Window}

\* Mutant: the order of the statement, not the gap.
BeforeByPosition(txns, p, q) ==
  \/ p.debit < q.debit
  \/ p.debit = q.debit /\ p.credit < q.credit

\* The order of the sort: closest dates first, then as the rows came.
Before(txns, p, q) ==
  \/ Gap(txns, p) < Gap(txns, q)
  \/ /\ Gap(txns, p) = Gap(txns, q)
     /\ \/ p.debit < q.debit
        \/ p.debit = q.debit /\ p.credit < q.credit

\* Mutant: only debits are marked as used.
ClashOfDebits(p, q) == p.debit = q.debit

Clash(p, q) == p.debit = q.debit \/ p.credit = q.credit

\* The pairs in that order, each taken unless one of its sides is used.
GreedyPairs(txns) ==
  LET taken[p \in Pairs(txns)] ==
        \A q \in Pairs(txns) : Before(txns, q, p) /\ Clash(p, q) => ~taken[q]
  IN {p \in Pairs(txns) : taken[p]}

\* Mutant: a transaction that could pair in two ways is left alone.
UnambiguousPairs(txns) ==
  {p \in Pairs(txns) : \A q \in Pairs(txns) : Clash(p, q) => q = p}

Matched(txns) == GreedyPairs(txns)

\* The ids of paired transactions that are not Transfers already.
MatchTransfers(txns) ==
  LET sides == UNION {{p.debit, p.credit} : p \in Matched(txns)}
  IN {txns[i].id : i \in {i \in sides : txns[i].category # "Transfers"}}

=============================================================================
