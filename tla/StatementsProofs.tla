-------------------------- MODULE StatementsProofs --------------------------
(***************************************************************************)
(* Proofs about MatchTransfers, the totals, normalized and misspelt names  *)
(* and the parsers, for every list of rows, every description and every    *)
(* statement.                                                              *)
(***************************************************************************)
EXTENDS MCStatements, FiniteSetTheorems, WellFoundedInduction, TLAPS

----------------------------------------------------------------------------
(* The order in which pairs are taken.                                     *)

\* Lists of rows with a date.
IsDated(t) ==
  /\ DOMAIN t \subseteq Nat
  /\ \A i \in DOMAIN t : t[i].day \in Int

\* A non-empty set of numbers has a least one.
LEMMA Least ==
  ASSUME NEW S \in SUBSET Nat, S # {}
  PROVE  \E i \in S : \A j \in S : i <= j
<1>1. PICK i \in S : \A j \in S : ~(<<j, i>> \in OpToRel(<, Nat))
  BY WFMin, NatLessThanWellFounded
<1>2. \A j \in S : ~(j < i)
  BY <1>1 DEF OpToRel
<1> QED BY <1>2

LEMMA LeastBy ==
  ASSUME NEW P, P # {}, NEW f, \A p \in P : f[p] \in Nat
  PROVE  \E p \in P : \A q \in P : f[p] <= f[q]
<1> DEFINE S == {f[p] : p \in P}
<1>1. S \in SUBSET Nat /\ S # {}
  OBVIOUS
<1> HIDE DEF S
<1>2. PICK i \in S : \A j \in S : i <= j
  BY <1>1, Least
<1> QED BY <1>2 DEF S

LEMMA GapIsNat ==
  ASSUME NEW t, IsDated(t), NEW p \in Pairs(t)
  PROVE  /\ Gap(t, p) \in Nat
         /\ p.debit \in DOMAIN t /\ p.credit \in DOMAIN t
         /\ p.debit \in Nat /\ p.credit \in Nat
<1>1. p \in [debit : DOMAIN t, credit : DOMAIN t]
  BY DEF Pairs
<1>2. t[p.debit].day \in Int /\ t[p.credit].day \in Int
  BY <1>1 DEF IsDated
<1> QED BY <1>1, <1>2 DEF Gap, IsDated

LEMMA PairsDiffer ==
  ASSUME NEW t, NEW p \in Pairs(t), NEW q \in Pairs(t), p # q
  PROVE  p.debit # q.debit \/ p.credit # q.credit
BY DEF Pairs

\* Before is a total order of the pairs, and any set of them has a first.
LEMMA BeforeIsTotal ==
  ASSUME NEW t, IsDated(t), NEW p \in Pairs(t), NEW q \in Pairs(t)
  PROVE  /\ ~Before(t, p, p)
         /\ Before(t, p, q) => ~Before(t, q, p)
         /\ p # q => Before(t, p, q) \/ Before(t, q, p)
         /\ Before(t, p, q) => Gap(t, p) <= Gap(t, q)
BY GapIsNat, PairsDiffer DEF Before

LEMMA BeforeIsTransitive ==
  ASSUME NEW t, IsDated(t), NEW p \in Pairs(t), NEW q \in Pairs(t), NEW r \in Pairs(t),
         Before(t, p, q), Before(t, q, r)
  PROVE  Before(t, p, r)
BY GapIsNat DEF Before

LEMMA FirstPair ==
  ASSUME NEW t, IsDated(t), NEW P \in SUBSET Pairs(t), P # {}
  PROVE  \E p \in P : \A q \in P : ~Before(t, q, p)
<1> DEFINE gap == [p \in P |-> Gap(t, p)]
           Q == {p \in P : \A q \in P : gap[p] <= gap[q]}
           debit == [p \in Q |-> p.debit]
           R == {p \in Q : \A q \in Q : debit[p] <= debit[q]}
           credit == [p \in R |-> p.credit]
<1>1. \A p \in P : gap[p] \in Nat /\ p.debit \in Nat /\ p.credit \in Nat
  BY GapIsNat
<1>2. Q # {}
  <2> HIDE DEF gap
  <2> QED BY <1>1, LeastBy
<1>3. R # {}
  <2>1. \A p \in Q : debit[p] \in Nat
    BY <1>1
  <2> HIDE DEF Q, debit
  <2> QED BY <1>2, <2>1, LeastBy
<1>4. PICK p \in R : \A q \in R : credit[p] <= credit[q]
  <2>1. \A p \in R : credit[p] \in Nat
    BY <1>1
  <2> HIDE DEF R, credit
  <2> QED BY <1>3, <2>1, LeastBy
<1>5. ASSUME NEW q \in P, Before(t, q, p)
      PROVE  FALSE
  <2>1. Gap(t, p) <= Gap(t, q)
    OBVIOUS
  <2>2. Gap(t, q) = Gap(t, p) /\ Gap(t, p) \in Nat
    BY <1>1, <1>5, <2>1 DEF Before
  <2>3. q \in Q
    BY <2>2
  <2>4. p.debit <= q.debit
    BY <2>3
  <2>5. q.debit = p.debit
    BY <1>1, <1>5, <2>2, <2>4 DEF Before
  <2>6. q \in R
    BY <2>3, <2>5
  <2>7. p.credit <= q.credit
    BY <1>4, <2>6
  <2> QED BY <1>1, <1>5, <2>2, <2>5, <2>7 DEF Before
<1> QED BY <1>5

----------------------------------------------------------------------------
(* The pairs that are taken.                                               *)

\* The pairs up to one, and the pairs taken among some.
UpTo(t, p) == {q \in Pairs(t) : q = p \/ Before(t, q, p)}

Closed(t, D) == \A q \in D : UpTo(t, q) \subseteq D

Kernel(t, D, K) ==
  /\ K \subseteq D
  /\ \A q \in D : q \in K <=> \A r \in K : Before(t, r, q) => ~Clash(q, r)

Takes(t, p) == \E K \in SUBSET Pairs(t) : Kernel(t, UpTo(t, p), K) /\ p \in K

LEMMA UpToIsClosed ==
  ASSUME NEW t, IsDated(t), NEW p \in Pairs(t)
  PROVE  Closed(t, UpTo(t, p)) /\ UpTo(t, p) \subseteq Pairs(t) /\ p \in UpTo(t, p)
BY BeforeIsTransitive DEF Closed, UpTo

LEMMA KernelIsUnique ==
  ASSUME NEW t, IsDated(t), NEW D \in SUBSET Pairs(t), Closed(t, D),
         NEW K, Kernel(t, D, K), NEW L, Kernel(t, D, L)
  PROVE  K = L
<1> DEFINE P == {q \in D : ~(q \in K <=> q \in L)}
<1>1. ASSUME P # {} PROVE FALSE
  <2>1. PICK p \in P : \A q \in P : ~Before(t, q, p)
    BY <1>1, FirstPair
  <2>2. \A r \in D : Before(t, r, p) => (r \in K <=> r \in L)
    BY <2>1
  <2>3. K \subseteq D /\ L \subseteq D
    BY DEF Kernel
  <2>4. p \in K <=> p \in L
    BY <2>2, <2>3 DEF Kernel
  <2> QED BY <2>4
<1> QED BY <1>1 DEF Kernel

LEMMA KernelUpTo ==
  ASSUME NEW t, IsDated(t), NEW D \in SUBSET Pairs(t), Closed(t, D),
         NEW K, Kernel(t, D, K), NEW p \in D
  PROVE  p \in K <=> Takes(t, p)
<1> DEFINE M == K \cap UpTo(t, p)
<1>1. p \in UpTo(t, p) /\ UpTo(t, p) \subseteq D /\ UpTo(t, p) \in SUBSET Pairs(t)
  BY UpToIsClosed DEF Closed
<1>2. Kernel(t, UpTo(t, p), M)
  <2>1. ASSUME NEW q \in UpTo(t, p)
        PROVE  q \in M <=> \A r \in M : Before(t, r, q) => ~Clash(q, r)
    <3>1. \A r \in K : Before(t, r, q) => r \in UpTo(t, p)
      BY <1>1, UpToIsClosed DEF Closed, Kernel, UpTo
    <3>2. q \in K <=> \A r \in K : Before(t, r, q) => ~Clash(q, r)
      BY <1>1 DEF Kernel
    <3> QED BY <3>1, <3>2
  <2> QED BY <2>1 DEF Kernel
<1>3. M \in SUBSET Pairs(t)
  BY <1>1
<1>4. p \in M => Takes(t, p)
  BY <1>2, <1>3 DEF Takes
<1>5. ASSUME Takes(t, p) PROVE p \in M
  <2>1. PICK L \in SUBSET Pairs(t) : Kernel(t, UpTo(t, p), L) /\ p \in L
    BY <1>5 DEF Takes
  <2>2. L = M
    BY <1>1, <1>2, <2>1, UpToIsClosed, KernelIsUnique
  <2> QED BY <2>1, <2>2
<1> QED BY <1>1, <1>4, <1>5

LEMMA KernelExists ==
  ASSUME NEW t, IsDated(t), NEW p \in Pairs(t)
  PROVE  \E K \in SUBSET Pairs(t) : Kernel(t, UpTo(t, p), K)
<1> DEFINE Has(q) == \E K \in SUBSET Pairs(t) : Kernel(t, UpTo(t, q), K)
           P == {q \in Pairs(t) : ~Has(q)}
<1> SUFFICES ASSUME P # {} PROVE FALSE
  OBVIOUS
<1>1. PICK q \in P : \A r \in P : ~Before(t, r, q)
  BY FirstPair
<1>2. \A r \in Pairs(t) : Before(t, r, q) => Has(r)
  BY <1>1
<1> DEFINE W == {r \in Pairs(t) : Before(t, r, q) /\ Takes(t, r)}
           K == W \cup {r \in {q} : \A s \in W : ~Clash(q, s)}
<1>3. ASSUME NEW r \in Pairs(t), Before(t, r, q)
      PROVE  r \in K <=> \A s \in K : Before(t, s, r) => ~Clash(r, s)
  <2>1. PICK L \in SUBSET Pairs(t) : Kernel(t, UpTo(t, r), L)
    BY <1>2, <1>3
  <2>2. \A s \in UpTo(t, r) : s \in L <=> Takes(t, s)
    BY <2>1, UpToIsClosed, KernelUpTo
  <2>3. r \in UpTo(t, r) /\ L \subseteq UpTo(t, r)
    BY <2>1, UpToIsClosed DEF Kernel
  <2>4. r \in K <=> r \in L
    BY <1>3, <2>2, <2>3, BeforeIsTotal
  <2>5. \A s \in Pairs(t) : Before(t, s, r) => (s \in K <=> s \in L)
    <3> SUFFICES ASSUME NEW s \in Pairs(t), Before(t, s, r)
                 PROVE  s \in K <=> s \in L
      OBVIOUS
    <3>1. Before(t, s, q) /\ s # q
      BY <1>3, BeforeIsTransitive, BeforeIsTotal
    <3>2. s \in UpTo(t, r)
      BY DEF UpTo
    <3> QED BY <2>2, <3>1, <3>2
  <2>6. r \in L <=> \A s \in L : Before(t, s, r) => ~Clash(r, s)
    BY <2>1, <2>3 DEF Kernel
  <2>7. K \subseteq Pairs(t)
    OBVIOUS
  <2> HIDE DEF K
  <2> QED BY <2>4, <2>5, <2>6, <2>7
<1>4. q \in K <=> \A s \in K : Before(t, s, q) => ~Clash(q, s)
  BY BeforeIsTotal
<1>5. K \in SUBSET Pairs(t) /\ K \subseteq UpTo(t, q)
  BY DEF UpTo
<1> HIDE DEF K
<1>6. Kernel(t, UpTo(t, q), K)
  BY <1>3, <1>4, <1>5 DEF Kernel, UpTo
<1> QED BY <1>5, <1>6

LEMMA GreedyIsChosen ==
  ASSUME NEW t, NEW f, f = [p \in Pairs(t) |->
           \A q \in Pairs(t) : Before(t, q, p) /\ Clash(p, q) => ~f[q]]
  PROVE  \E g : /\ g = [p \in Pairs(t) |->
                     \A q \in Pairs(t) : Before(t, q, p) /\ Clash(p, q) => ~g[q]]
                /\ GreedyPairs(t) = {p \in Pairs(t) : g[p]}
<1> DEFINE Fits(g) == g = [p \in Pairs(t) |->
                         \A q \in Pairs(t) : Before(t, q, p) /\ Clash(p, q) => ~g[q]]
           g == CHOOSE g : Fits(g)
<1>1. Fits(f)
  OBVIOUS
<1>2. GreedyPairs(t) = {p \in Pairs(t) : g[p]}
  BY DEF GreedyPairs
<1> HIDE DEF Fits
<1>3. Fits(g)
  BY <1>1
<1> QED BY <1>2, <1>3 DEF Fits

\* What the loop over the sorted pairs does: a pair is taken unless an earlier
\* one that was taken has a row in common with it.
LEMMA GreedyTakes ==
  ASSUME NEW t, IsDated(t)
  PROVE  /\ GreedyPairs(t) \subseteq Pairs(t)
         /\ \A p \in Pairs(t) : p \in GreedyPairs(t) <=>
              \A q \in GreedyPairs(t) : Before(t, q, p) => ~Clash(p, q)
<1> DEFINE f == [p \in Pairs(t) |-> Takes(t, p)]
<1>1. ASSUME NEW p \in Pairs(t)
      PROVE  f[p] <=> \A q \in Pairs(t) : Before(t, q, p) /\ Clash(p, q) => ~f[q]
  <2>1. PICK K \in SUBSET Pairs(t) : Kernel(t, UpTo(t, p), K)
    BY KernelExists
  <2>2. \A q \in UpTo(t, p) : q \in K <=> f[q]
    BY <2>1, UpToIsClosed, KernelUpTo
  <2>3. p \in K <=> \A r \in K : Before(t, r, p) => ~Clash(p, r)
    BY <2>1, UpToIsClosed DEF Kernel
  <2>4. \A q \in Pairs(t) : Before(t, q, p) => q \in UpTo(t, p)
    BY DEF UpTo
  <2> HIDE DEF f
  <2> QED BY <2>1, <2>2, <2>3, <2>4, UpToIsClosed
<1>2. f = [p \in Pairs(t) |-> \A q \in Pairs(t) : Before(t, q, p) /\ Clash(p, q) => ~f[q]]
  <2>1. \A p \in Pairs(t) : f[p] \in BOOLEAN
    BY DEF Takes
  <2>2. DOMAIN f = Pairs(t) /\ f = [p \in Pairs(t) |-> f[p]]
    OBVIOUS
  <2> HIDE DEF f
  <2> QED BY <1>1, <2>1, <2>2
<1> HIDE DEF f
<1>3. PICK g : /\ g = [p \in Pairs(t) |->
                     \A q \in Pairs(t) : Before(t, q, p) /\ Clash(p, q) => ~g[q]]
               /\ GreedyPairs(t) = {p \in Pairs(t) : g[p]}
  BY <1>2, GreedyIsChosen
<1>4. \A p \in Pairs(t) : g[p] <=> \A q \in Pairs(t) : Before(t, q, p) /\ Clash(p, q) => ~g[q]
  BY <1>3
<1> QED BY <1>3, <1>4

LEMMA MatchedOnce ==
  ASSUME NEW t, IsDated(t), NEW p \in GreedyPairs(t), NEW q \in GreedyPairs(t), Clash(p, q)
  PROVE  p = q
<1>1. p \in Pairs(t) /\ q \in Pairs(t)
  BY GreedyTakes
<1>2. ~Before(t, q, p)
  BY <1>1, GreedyTakes
<1>3. ~Before(t, p, q)
  BY <1>1, GreedyTakes DEF Clash
<1> QED BY <1>1, <1>2, <1>3, BeforeIsTotal

----------------------------------------------------------------------------
(* The lists of rows that grow.                                            *)

AnyRow   == UNION {Row(n) : n \in Nat}
RowLists == Seq(AnyRow)

ListOfRows == txns \in RowLists

LEMMA ListIsDated ==
  ASSUME NEW t \in RowLists
  PROVE  IsDated(t)
<1>1. \A i \in DOMAIN t : t[i] \in AnyRow
  BY DEF RowLists
<1>2. \A r \in AnyRow : r.day \in Int
  BY DaysAssumption DEF Row, AnyRow
<1>3. DOMAIN t \subseteq Nat
  BY DEF RowLists
<1> QED BY <1>1, <1>2, <1>3 DEF IsDated

LEMMA AppendsRow ==
  ASSUME ListOfRows, AnotherRow
  PROVE  ListOfRows' /\ \E row : txns' = Append(txns, row)
<1>1. PICK row \in Row(Len(txns) + 1) : txns' = Append(txns, row)
  BY DEF AnotherRow
<1>2. Len(txns) + 1 \in Nat
  BY DEF ListOfRows, RowLists
<1>3. row \in AnyRow
  BY <1>1, <1>2 DEF AnyRow
<1> QED BY <1>1, <1>3 DEF ListOfRows, RowLists

THEOREM ListsOfRows == Spec => []ListOfRows
<1>1. Init => ListOfRows
  BY DEF Init, ListOfRows, RowLists
<1>2. ListOfRows /\ [Next]_vars => ListOfRows'
  <2> SUFFICES ASSUME ListOfRows, [Next]_vars PROVE ListOfRows'
    OBVIOUS
  <2>1. CASE AnotherRow
    BY <2>1, AppendsRow
  <2>2. CASE AnotherEntry \/ AnotherCharacter \/ UNCHANGED vars
    BY <2>2 DEF AnotherEntry, AnotherCharacter, vars, ListOfRows
  <2> QED BY <2>1, <2>2 DEF Next
<1> QED BY <1>1, <1>2, PTL DEF Spec

\* Each transaction joins at most one pair, as the used maps see to.
THEOREM EachJoinsOnePair == Spec => []AtMostOnePair
<1>1. ListOfRows => AtMostOnePair
  <2> SUFFICES ASSUME ListOfRows, NEW p \in Matched(txns), NEW q \in Matched(txns),
                      p.debit = q.debit \/ p.credit = q.credit
               PROVE  p = q
    BY DEF AtMostOnePair
  <2> QED BY ListIsDated, MatchedOnce DEF ListOfRows, Matched, Clash
<1> QED BY <1>1, ListsOfRows, PTL

\* Closest dates first: two rows that could have been paired and were not are
\* kept apart by a pair of one of them that is at least as close.
THEOREM ClosestAreTaken == Spec => []ClosestFirst
<1>1. ListOfRows => ClosestFirst
  <2> SUFFICES ASSUME ListOfRows, NEW p \in Pairs(txns) \ GreedyPairs(txns)
               PROVE  \E q \in GreedyPairs(txns) :
                        /\ q.debit = p.debit \/ q.credit = p.credit
                        /\ Gap(txns, q) <= Gap(txns, p)
    BY DEF ClosestFirst, Matched
  <2>1. IsDated(txns)
    BY ListIsDated DEF ListOfRows
  <2>2. PICK q \in GreedyPairs(txns) : Before(txns, q, p) /\ Clash(p, q)
    BY <2>1, GreedyTakes
  <2>3. q \in Pairs(txns)
    BY <2>1, GreedyTakes
  <2> QED BY <2>1, <2>2, <2>3, BeforeIsTotal DEF Clash
<1> QED BY <1>1, ListsOfRows, PTL

----------------------------------------------------------------------------
(* The list read backwards.                                                *)

Backwards(t) == [i \in DOMAIN t |-> t[Len(t) + 1 - i]]

Mirror(t, p) == [debit |-> Len(t) + 1 - p.debit, credit |-> Len(t) + 1 - p.credit]

LEMMA MirrorClash ==
  ASSUME NEW n \in Int, NEW d \in Int, NEW c \in Int, NEW d2 \in Int, NEW c2 \in Int
  PROVE  (n - d = n - d2 \/ n - c = n - c2) <=> (d = d2 \/ c = c2)
OBVIOUS

LEMMA MirrorImage ==
  ASSUME NEW R, NEW t \in Seq(R), IsDated(t)
  PROVE  /\ IsDated(Backwards(t))
         /\ \A p \in Pairs(t) :
              /\ Mirror(t, p) \in Pairs(Backwards(t))
              /\ Gap(Backwards(t), Mirror(t, p)) = Gap(t, p)
              /\ Mirror(t, Mirror(t, p)) = p
         /\ \A p \in Pairs(Backwards(t)) :
              Mirror(t, p) \in Pairs(t) /\ Mirror(t, Mirror(t, p)) = p
         /\ \A p, q \in Pairs(t) : Clash(Mirror(t, p), Mirror(t, q)) <=> Clash(p, q)
<1> DEFINE b == Backwards(t)
           n == Len(t) + 1
<1>1. DOMAIN t = 1..Len(t) /\ Len(t) \in Nat /\ DOMAIN b = DOMAIN t
  BY DEF Backwards
<1>2. \A i \in DOMAIN t : n - i \in DOMAIN t /\ n - (n - i) = i /\ i \in Int
  BY <1>1
<1>3. \A i \in DOMAIN t : b[i] = t[n - i] /\ b[n - i] = t[i]
  BY <1>2 DEF Backwards
<1>4. IsDated(b)
  BY <1>1, <1>2, <1>3 DEF IsDated
<1> HIDE DEF b
<1>5. ASSUME NEW x, NEW y, DOMAIN x = DOMAIN t, DOMAIN y = DOMAIN t,
             \A i \in DOMAIN t : y[n - i] = x[i], NEW p \in Pairs(x)
      PROVE  /\ Mirror(t, p) \in Pairs(y)
             /\ Gap(y, Mirror(t, p)) = Gap(x, p)
             /\ Mirror(t, Mirror(t, p)) = p
  <2>1. p \in [debit : DOMAIN t, credit : DOMAIN t]
    BY <1>5 DEF Pairs
  <2>2. Mirror(t, p) \in [debit : DOMAIN t, credit : DOMAIN t]
    BY <1>2, <2>1 DEF Mirror
  <2>3. y[Mirror(t, p).debit] = x[p.debit] /\ y[Mirror(t, p).credit] = x[p.credit]
    BY <1>5, <2>1 DEF Mirror
  <2>4. Gap(y, Mirror(t, p)) = Gap(x, p)
    BY <2>3 DEF Gap
  <2>5. Mirror(t, p) \in Pairs(y)
    BY <1>5, <2>2, <2>3, <2>4 DEF Pairs
  <2>6. Mirror(t, Mirror(t, p)) = p
    BY <1>2, <2>1 DEF Mirror
  <2> QED BY <2>4, <2>5, <2>6
<1>6. \A p \in Pairs(t) :
        /\ Mirror(t, p) \in Pairs(b)
        /\ Gap(b, Mirror(t, p)) = Gap(t, p)
        /\ Mirror(t, Mirror(t, p)) = p
  BY <1>1, <1>3, <1>5
<1>7. \A p \in Pairs(b) : Mirror(t, p) \in Pairs(t) /\ Mirror(t, Mirror(t, p)) = p
  <2>1. \A i \in DOMAIN t : t[n - i] = b[i]
    BY <1>3
  <2> QED BY <1>1, <1>5, <2>1
<1>8. \A p, q \in Pairs(t) : Clash(Mirror(t, p), Mirror(t, q)) <=> Clash(p, q)
  <2> SUFFICES ASSUME NEW p \in Pairs(t), NEW q \in Pairs(t)
               PROVE  Clash(Mirror(t, p), Mirror(t, q)) <=> Clash(p, q)
    OBVIOUS
  <2>1. /\ p.debit \in Nat /\ p.credit \in Nat
        /\ q.debit \in Nat /\ q.credit \in Nat
    BY GapIsNat
  <2>2. /\ n \in Int /\ p.debit \in Int /\ p.credit \in Int
        /\ q.debit \in Int /\ q.credit \in Int
    BY <1>1, <2>1
  <2>3. Clash(p, q) <=> n - p.debit = n - q.debit \/ n - p.credit = n - q.credit
    <3> HIDE DEF n
    <3> QED BY <2>2, MirrorClash DEF Clash
  <2>4. /\ Mirror(t, p).debit = n - p.debit /\ Mirror(t, p).credit = n - p.credit
        /\ Mirror(t, q).debit = n - q.debit /\ Mirror(t, q).credit = n - q.credit
    BY <1>1, <2>1 DEF Mirror
  <2> HIDE DEF n
  <2> QED BY ONLY <2>3, <2>4 DEF Clash
<1> QED BY <1>4, <1>6, <1>7, <1>8 DEF b

\* Pairs that share a row and are equally close.
Tie(t) == \E p, q \in Pairs(t) : p # q /\ Clash(p, q) /\ Gap(t, p) = Gap(t, q)

LEMMA MirrorIsTaken ==
  ASSUME NEW R, NEW t \in Seq(R), IsDated(t), ~Tie(t), NEW p \in Pairs(t)
  PROVE  p \in GreedyPairs(t) <=> Mirror(t, p) \in GreedyPairs(Backwards(t))
<1> DEFINE b == Backwards(t)
           P == {q \in Pairs(t) :
                   ~(q \in GreedyPairs(t) <=> Mirror(t, q) \in GreedyPairs(b))}
<1> SUFFICES ASSUME P # {} PROVE FALSE
  OBVIOUS
<1> HIDE DEF b
<1>1. PICK q \in P : \A r \in P : ~Before(t, r, q)
  BY FirstPair
<1>2. IsDated(b) /\ q \in Pairs(t) /\ Mirror(t, q) \in Pairs(b)
  BY MirrorImage DEF b
<1>3. ASSUME NEW r \in Pairs(t), Clash(q, r), r # q
      PROVE  Before(t, r, q) <=> Before(b, Mirror(t, r), Mirror(t, q))
  <2>1. Gap(t, r) # Gap(t, q)
    BY <1>2, <1>3 DEF Tie
  <2>2. Gap(b, Mirror(t, r)) = Gap(t, r) /\ Gap(b, Mirror(t, q)) = Gap(t, q)
    BY <1>2, MirrorImage DEF b
  <2> QED BY <2>1, <2>2 DEF Before
<1>4. ~Before(t, q, q) /\ ~Before(b, Mirror(t, q), Mirror(t, q))
  BY <1>2, BeforeIsTotal
<1>5. ASSUME q \in GreedyPairs(t) PROVE Mirror(t, q) \in GreedyPairs(b)
  <2> SUFFICES ASSUME NEW s \in GreedyPairs(b), Before(b, s, Mirror(t, q)), Clash(Mirror(t, q), s)
               PROVE  FALSE
    BY <1>2, GreedyTakes
  <2>1. PICK r \in Pairs(t) : s = Mirror(t, r)
    BY <1>2, GreedyTakes, MirrorImage DEF b
  <2>2. Clash(q, r) /\ r # q
    BY <1>2, <1>4, <2>1, MirrorImage
  <2>3. Before(t, r, q)
    BY <1>3, <2>1, <2>2
  <2>4. r \in GreedyPairs(t)
    BY <1>1, <2>1, <2>3
  <2> QED BY <1>2, <1>5, <2>2, <2>3, <2>4, GreedyTakes
<1>6. ASSUME Mirror(t, q) \in GreedyPairs(b) PROVE q \in GreedyPairs(t)
  <2> SUFFICES ASSUME NEW r \in GreedyPairs(t), Before(t, r, q), Clash(q, r)
               PROVE  FALSE
    BY <1>2, GreedyTakes
  <2>1. r \in Pairs(t) /\ r # q
    BY <1>4, GreedyTakes
  <2>2. Before(b, Mirror(t, r), Mirror(t, q))
    BY <1>3, <2>1
  <2>3. Mirror(t, r) \in GreedyPairs(b)
    BY <1>1, <2>1
  <2>4. Clash(Mirror(t, q), Mirror(t, r))
    BY <1>2, <2>1, MirrorImage
  <2> QED BY <1>2, <1>6, <2>2, <2>3, <2>4, GreedyTakes
<1> QED BY <1>1, <1>5, <1>6

Sides(t) == UNION {{p.debit, p.credit} : p \in GreedyPairs(t)}

LEMMA SidesMirror ==
  ASSUME NEW R, NEW t \in Seq(R), IsDated(t), ~Tie(t)
  PROVE  /\ Sides(t) \subseteq DOMAIN t /\ Sides(Backwards(t)) \subseteq DOMAIN t
         /\ \A i \in DOMAIN t : i \in Sides(Backwards(t)) <=> Len(t) + 1 - i \in Sides(t)
<1> DEFINE b == Backwards(t)
           n == Len(t) + 1
<1>1. DOMAIN b = DOMAIN t /\ DOMAIN t = 1..Len(t) /\ Len(t) \in Nat /\ IsDated(b)
  BY MirrorImage DEF Backwards
<1> HIDE DEF b
<1>2. /\ \A p \in GreedyPairs(t) : p \in Pairs(t) /\ p.debit \in DOMAIN t /\ p.credit \in DOMAIN t
      /\ \A p \in GreedyPairs(b) : p \in Pairs(b) /\ p.debit \in DOMAIN t /\ p.credit \in DOMAIN t
  BY <1>1, GreedyTakes, GapIsNat
<1>3. Sides(t) \subseteq DOMAIN t /\ Sides(b) \subseteq DOMAIN t
  BY <1>2 DEF Sides
<1>4. ASSUME NEW i \in DOMAIN t, i \in Sides(b)
      PROVE  n - i \in Sides(t)
  <2>1. PICK p \in GreedyPairs(b) : i = p.debit \/ i = p.credit
    BY <1>4 DEF Sides
  <2>2. Mirror(t, p) \in Pairs(t) /\ Mirror(t, Mirror(t, p)) = p
    BY <1>2, MirrorImage DEF b
  <2>3. Mirror(t, p) \in GreedyPairs(t)
    BY <2>1, <2>2, MirrorIsTaken DEF b
  <2>4. n - i = Mirror(t, p).debit \/ n - i = Mirror(t, p).credit
    BY <2>1 DEF Mirror
  <2> QED BY <2>3, <2>4 DEF Sides
<1>5. ASSUME NEW i \in DOMAIN t, n - i \in Sides(t)
      PROVE  i \in Sides(b)
  <2>1. PICK p \in GreedyPairs(t) : n - i = p.debit \/ n - i = p.credit
    BY <1>5 DEF Sides
  <2>2. Mirror(t, p) \in GreedyPairs(b)
    BY <1>2, <2>1, MirrorIsTaken DEF b
  <2>3. n - (n - i) = i
    BY <1>1
  <2>4. i = Mirror(t, p).debit \/ i = Mirror(t, p).credit
    BY <2>1, <2>3 DEF Mirror
  <2> QED BY <2>2, <2>4 DEF Sides
<1> QED BY <1>3, <1>4, <1>5 DEF b

LEMMA MatchedSides ==
  ASSUME NEW t
  PROVE  MatchTransfers(t) = {t[i].id : i \in {i \in Sides(t) : t[i].category # "Transfers"}}
BY DEF MatchTransfers, Matched, Sides

\* What is marked does not depend on the order of the rows, unless two pairs that
\* share a row are equally close: TransferCandidates has no ORDER BY.
THEOREM OrderDoesNotMatter == Spec => []OrderIsFree
<1>1. ListOfRows => OrderIsFree
  <2> SUFFICES ASSUME ListOfRows, ~Tie(txns)
               PROVE  MatchTransfers(Backwards(txns)) = MatchTransfers(txns)
    BY DEF OrderIsFree, Tie, Backwards
  <2> DEFINE b == Backwards(txns)
             n == Len(txns) + 1
  <2>1. PICK R : txns \in Seq(R)
    BY DEF ListOfRows, RowLists
  <2>2. IsDated(txns)
    BY ListIsDated DEF ListOfRows
  <2>3. DOMAIN txns = 1..Len(txns) /\ Len(txns) \in Nat
    BY <2>1
  <2>4. \A i \in DOMAIN txns : n - i \in DOMAIN txns /\ n - (n - i) = i
    BY <2>3
  <2>5. \A i \in DOMAIN txns : b[i] = txns[n - i]
    BY DEF Backwards
  <2>6. /\ Sides(txns) \subseteq DOMAIN txns /\ Sides(b) \subseteq DOMAIN txns
        /\ \A i \in DOMAIN txns : i \in Sides(b) <=> n - i \in Sides(txns)
    BY <2>1, <2>2, SidesMirror
  <2> HIDE DEF b
  <2>7. \A k \in MatchTransfers(b) : k \in MatchTransfers(txns)
    <3> SUFFICES ASSUME NEW i \in Sides(b), b[i].category # "Transfers"
                 PROVE  b[i].id \in MatchTransfers(txns)
      BY MatchedSides
    <3>1. n - i \in Sides(txns) /\ b[i] = txns[n - i]
      BY <2>5, <2>6
    <3> QED BY <3>1, MatchedSides
  <2>8. \A k \in MatchTransfers(txns) : k \in MatchTransfers(b)
    <3> SUFFICES ASSUME NEW i \in Sides(txns), txns[i].category # "Transfers"
                 PROVE  txns[i].id \in MatchTransfers(b)
      BY MatchedSides
    <3>1. n - i \in Sides(b) /\ b[n - i] = txns[i]
      BY <2>4, <2>5, <2>6
    <3> QED BY <3>1, MatchedSides
  <2> QED BY <2>7, <2>8 DEF b
<1> QED BY <1>1, ListsOfRows, PTL

----------------------------------------------------------------------------
(* Another row.                                                            *)

\* The pairs of a longer list are those of a list and others that share one row,
\* n, at their side f; g is the other side.
Extends(t, u, f, g, n) ==
  /\ IsDated(t) /\ IsDated(u)
  /\ Pairs(t) \subseteq Pairs(u)
  /\ \A p, q \in Pairs(t) : Before(u, p, q) <=> Before(t, p, q)
  /\ \A p, q \in Pairs(u) : Clash(p, q) <=> (f[p] = f[q] \/ g[p] = g[q])
  /\ \A p \in Pairs(u) : p \in Pairs(t) <=> f[p] # n

\* The rows that were matched at the other side still are: a pair loses its row
\* at f to an earlier pair, which had lost its row at g to an earlier pair, and so
\* on; but the first of them would have had no reason to change.
LEMMA OtherSideStays ==
  ASSUME NEW t, NEW u, NEW f, NEW g, NEW n, Extends(t, u, f, g, n), NEW p \in GreedyPairs(t)
  PROVE  \E q \in GreedyPairs(u) : g[q] = g[p]
<1> USE DEF Extends
<1> DEFINE Keeps(x) == \E q \in GreedyPairs(u) : g[q] = g[x] /\ ~Before(u, x, q)
           Had(x)   == \E q \in GreedyPairs(t) : f[q] = f[x] /\ ~Before(u, x, q)
           Lost == {x \in GreedyPairs(t) : ~Keeps(x)}
           Odd  == {x \in GreedyPairs(u) \cap Pairs(t) : ~Had(x)}
<1>a. GreedyPairs(t) \subseteq Pairs(t) /\ GreedyPairs(u) \subseteq Pairs(u)
  BY GreedyTakes
<1>1. ASSUME Lost \cup Odd # {} PROVE FALSE
  <2>1. Lost \cup Odd \in SUBSET Pairs(u)
    BY <1>a
  <2>2. PICK x \in Lost \cup Odd : \A y \in Lost \cup Odd : ~Before(u, y, x)
    BY <1>1, <2>1, FirstPair
  <2>3. x \in Pairs(u) /\ x \in Pairs(t) /\ ~Before(u, x, x)
    BY <1>a, <2>1, BeforeIsTotal
  <2>4. CASE x \in Lost
    <3>1. x \notin GreedyPairs(u)
      BY <2>3, <2>4
    <3>2. PICK q \in GreedyPairs(u) : Before(u, q, x) /\ Clash(x, q)
      BY <2>3, <3>1, GreedyTakes
    <3>3. q \in Pairs(u) /\ ~Before(u, x, q)
      BY <1>a, <2>3, <3>2, BeforeIsTotal
    <3>4. g[q] # g[x]
      BY <2>4, <3>3
    <3>5. f[q] = f[x] /\ q \in Pairs(t)
      BY <2>3, <3>2, <3>3, <3>4
    <3>6. Had(q)
      BY <2>2, <3>2, <3>5
    <3>7. PICK r \in GreedyPairs(t) : f[r] = f[q] /\ ~Before(u, q, r)
      BY <3>6
    <3>8. r \in Pairs(t) /\ r \in Pairs(u)
      BY <1>a
    <3>9. Before(u, r, x)
      <4>1. r = q \/ Before(u, r, q)
        BY <3>3, <3>7, <3>8, BeforeIsTotal
      <4> QED BY <2>3, <3>2, <3>3, <3>8, <4>1, BeforeIsTransitive
    <3>10. Clash(x, r)
      BY <2>3, <3>5, <3>7, <3>8
    <3>11. x = r
      BY <2>4, <3>10, MatchedOnce
    <3> QED BY <2>3, <3>9, <3>11
  <2>5. CASE x \in Odd
    <3>1. x \notin GreedyPairs(t)
      BY <2>3, <2>5
    <3>2. PICK q \in GreedyPairs(t) : Before(t, q, x) /\ Clash(x, q)
      BY <2>3, <3>1, GreedyTakes
    <3>3. q \in Pairs(t) /\ q \in Pairs(u) /\ Before(u, q, x) /\ ~Before(u, x, q)
      BY <1>a, <2>3, <3>2, BeforeIsTotal
    <3>4. f[q] # f[x]
      BY <2>5, <3>3
    <3>5. g[q] = g[x]
      BY <2>3, <3>2, <3>3, <3>4
    <3>6. Keeps(q)
      BY <2>2, <3>3
    <3>7. PICK r \in GreedyPairs(u) : g[r] = g[q] /\ ~Before(u, q, r)
      BY <3>6
    <3>8. r \in Pairs(u)
      BY <1>a
    <3>9. Before(u, r, x)
      <4>1. r = q \/ Before(u, r, q)
        BY <3>3, <3>7, <3>8, BeforeIsTotal
      <4> QED BY <2>3, <3>3, <3>8, <4>1, BeforeIsTransitive
    <3>10. Clash(x, r)
      BY <2>3, <3>5, <3>7, <3>8
    <3>11. x = r
      BY <2>5, <3>10, MatchedOnce
    <3> QED BY <2>3, <3>9, <3>11
  <2> QED BY <2>2, <2>4, <2>5
<1> QED BY <1>1

LEMMA MatchedIsFinite ==
  ASSUME NEW R, NEW t \in Seq(R), IsDated(t)
  PROVE  IsFiniteSet(GreedyPairs(t))
<1> DEFINE f == [p \in GreedyPairs(t) |-> p.debit]
<1>1. f \in [GreedyPairs(t) -> 1..Len(t)]
  BY GreedyTakes, GapIsNat
<1>2. \A p, q \in GreedyPairs(t) : f[p] = f[q] => p = q
  BY MatchedOnce DEF Clash
<1>3. f \in Injection(GreedyPairs(t), 1..Len(t))
  BY <1>1, <1>2 DEF Injection, IsInjective
<1>4. IsFiniteSet(1..Len(t))
  BY FS_Interval
<1> QED BY <1>3, <1>4, FS_Injection

\* Pairs are as many as the rows they match at one side, so there are no fewer.
LEMMA NoFewer ==
  ASSUME NEW t, NEW u, NEW f, NEW g, NEW n, Extends(t, u, f, g, n),
         IsFiniteSet(GreedyPairs(u))
  PROVE  Cardinality(GreedyPairs(t)) <= Cardinality(GreedyPairs(u))
<1> DEFINE h == [p \in GreedyPairs(t) |-> CHOOSE q \in GreedyPairs(u) : g[q] = g[p]]
<1>1. \A p \in GreedyPairs(t) : h[p] \in GreedyPairs(u) /\ g[h[p]] = g[p]
  BY OtherSideStays
<1>2. DOMAIN h = GreedyPairs(t) /\ h \in [GreedyPairs(t) -> GreedyPairs(u)]
  BY <1>1
<1> HIDE DEF h
<1>3. \A p, q \in GreedyPairs(t) : h[p] = h[q] => p = q
  <2> SUFFICES ASSUME NEW p \in GreedyPairs(t), NEW q \in GreedyPairs(t), h[p] = h[q]
               PROVE  p = q
    OBVIOUS
  <2>1. IsDated(t) /\ Pairs(t) \subseteq Pairs(u)
    BY DEF Extends
  <2>2. g[p] = g[q] /\ p \in Pairs(u) /\ q \in Pairs(u)
    BY <1>1, <2>1, GreedyTakes
  <2>3. Clash(p, q)
    BY <2>2 DEF Extends
  <2> QED BY <2>1, <2>3, MatchedOnce
<1>4. h \in Injection(GreedyPairs(t), GreedyPairs(u))
  BY <1>2, <1>3 DEF Injection, IsInjective
<1> QED BY <1>4, FS_Injection

LEMMA AppendedRow ==
  ASSUME NEW R, NEW t \in Seq(R), IsDated(t), NEW row \in R, row.credit \in BOOLEAN,
         NEW u, u = Append(t, row), IsDated(u)
  PROVE  /\ \A p \in Pairs(u) :
              p \in Pairs(t) <=> p.debit # Len(t) + 1 /\ p.credit # Len(t) + 1
         /\ Pairs(t) \subseteq Pairs(u)
         /\ \A p, q \in Pairs(t) : Before(u, p, q) <=> Before(t, p, q)
         /\ row.credit => \A p \in Pairs(u) : p.debit # Len(t) + 1
         /\ ~row.credit => \A p \in Pairs(u) : p.credit # Len(t) + 1
<1> DEFINE n == Len(t) + 1
<1>1. /\ DOMAIN t = 1..Len(t) /\ Len(t) \in Nat /\ DOMAIN u = 1..n
      /\ \A i \in DOMAIN t : u[i] = t[i] /\ i # n
      /\ u[n] = row
  OBVIOUS
<1>2. \A i \in DOMAIN u : i \in DOMAIN t <=> i # n
  BY <1>1
<1>3. DOMAIN t \subseteq DOMAIN u
  BY <1>1
<1> HIDE DEF n
<1>4. ASSUME NEW p \in [debit : DOMAIN t, credit : DOMAIN t]
      PROVE  Gap(u, p) = Gap(t, p) /\ (p \in Pairs(u) <=> p \in Pairs(t))
  <2>1. u[p.debit] = t[p.debit] /\ u[p.credit] = t[p.credit]
    BY <1>1
  <2>2. Gap(u, p) = Gap(t, p)
    BY <2>1 DEF Gap
  <2>3. p \in [debit : DOMAIN u, credit : DOMAIN u]
    BY <1>3
  <2> QED BY <2>1, <2>2, <2>3 DEF Pairs
<1>5. Pairs(t) \subseteq [debit : DOMAIN t, credit : DOMAIN t]
  BY DEF Pairs
<1>6. \A p \in Pairs(u) : p \in Pairs(t) <=> p.debit # n /\ p.credit # n
  <2> SUFFICES ASSUME NEW p \in Pairs(u)
               PROVE  p \in Pairs(t) <=> p.debit # n /\ p.credit # n
    OBVIOUS
  <2>1. p \in [debit : DOMAIN u, credit : DOMAIN u]
    BY DEF Pairs
  <2>2. p \in [debit : DOMAIN t, credit : DOMAIN t] <=> p.debit # n /\ p.credit # n
    BY <1>2, <2>1
  <2> QED BY <1>4, <1>5, <2>2
<1>7. \A p, q \in Pairs(t) : Before(u, p, q) <=> Before(t, p, q)
  BY <1>4, <1>5 DEF Before
<1>8. \A p \in Pairs(u) : ~u[p.debit].credit /\ u[p.credit].credit
  BY DEF Pairs
<1>9. ASSUME row.credit, NEW p \in Pairs(u), p.debit = n PROVE FALSE
  <2>1. u[p.debit] = row
    BY <1>1, <1>9
  <2>2. ~u[p.debit].credit
    BY <1>8
  <2> QED BY <1>9, <2>1, <2>2
<1>10. ASSUME ~row.credit, NEW p \in Pairs(u), p.credit = n PROVE FALSE
  <2>1. u[p.credit] = row
    BY <1>1, <1>10
  <2>2. u[p.credit].credit
    BY <1>8
  <2> QED BY <1>10, <2>1, <2>2
<1> QED BY <1>4, <1>5, <1>6, <1>7, <1>9, <1>10 DEF n

\* Another row never leaves fewer transfers recognised, though it may take the
\* partner of one.
THEOREM RowsLeaveNoFewer == Spec => NoFewerPairs
<1>1. ASSUME ListOfRows, ListOfRows', AnotherRow
      PROVE  Cardinality(Matched(txns')) >= Cardinality(Matched(txns))
  <2>1. PICK row \in Row(Len(txns) + 1) : txns' = Append(txns, row)
    BY <1>1 DEF AnotherRow
  <2>2. PICK t \in Seq(AnyRow), u \in Seq(AnyRow) :
          t = txns /\ u = txns' /\ IsDated(t) /\ IsDated(u) /\ row \in AnyRow
    <3>1. txns \in RowLists /\ txns' \in RowLists
      BY <1>1 DEF ListOfRows
    <3>2. IsDated(txns) /\ IsDated(txns')
      BY <3>1, ListIsDated
    <3>3. Len(txns) + 1 \in Nat /\ row \in AnyRow
      BY <3>1 DEF RowLists, AnyRow
    <3> QED BY <3>1, <3>2, <3>3 DEF RowLists
  <2>3. row.credit \in BOOLEAN
    BY DEF Row
  <2> DEFINE n == Len(t) + 1
             debit == [p \in Pairs(u) |-> p.debit]
             credit == [p \in Pairs(u) |-> p.credit]
  <2>4. /\ \A p \in Pairs(u) : p \in Pairs(t) <=> p.debit # n /\ p.credit # n
        /\ Pairs(t) \subseteq Pairs(u)
        /\ \A p, q \in Pairs(t) : Before(u, p, q) <=> Before(t, p, q)
        /\ row.credit => \A p \in Pairs(u) : p.debit # n
        /\ ~row.credit => \A p \in Pairs(u) : p.credit # n
    BY <2>1, <2>2, <2>3, AppendedRow
  <2>5. \A p \in Pairs(u) : debit[p] = p.debit /\ credit[p] = p.credit
    OBVIOUS
  <2> HIDE DEF n, debit, credit
  <2>6. \/ Extends(t, u, credit, debit, n)
        \/ Extends(t, u, debit, credit, n)
    BY <2>2, <2>3, <2>4, <2>5 DEF Extends, Clash
  <2>7. IsFiniteSet(GreedyPairs(t)) /\ IsFiniteSet(GreedyPairs(u))
    BY <2>2, MatchedIsFinite
  <2>8. Cardinality(GreedyPairs(t)) <= Cardinality(GreedyPairs(u))
    BY <2>6, <2>7, NoFewer
  <2>9. Cardinality(GreedyPairs(t)) \in Nat /\ Cardinality(GreedyPairs(u)) \in Nat
    BY <2>7, FS_CardinalityType
  <2> QED BY <2>2, <2>8, <2>9 DEF Matched
<1>2. ListOfRows /\ ListOfRows' /\ [Next]_vars =>
        [Cardinality(Matched(txns')) >= Cardinality(Matched(txns))]_txns
  BY <1>1 DEF Next, AnotherEntry, AnotherCharacter, vars
<1> QED BY <1>2, ListsOfRows, PTL DEF Spec, NoFewerPairs

----------------------------------------------------------------------------
(* Sums over finite sets, the ones of the analytics queries.               *)

\* Some finite sets have one among them that loses its place with any element.
LEMMA SmallestSet ==
  ASSUME NEW S, IsFiniteSet(S), NEW P \in SUBSET SUBSET S, P # {}
  PROVE  \E s \in P : IsFiniteSet(s) /\ \A x \in s : s \ {x} \notin P
<1> DEFINE size == [s \in P |-> Cardinality(s)]
<1>1. \A s \in P : IsFiniteSet(s) /\ size[s] \in Nat
  BY FS_Subset, FS_CardinalityType
<1> HIDE DEF size
<1>2. PICK s \in P : \A t \in P : size[s] <= size[t]
  BY <1>1, LeastBy
<1>3. ASSUME NEW x \in s, s \ {x} \in P PROVE FALSE
  <2>1. Cardinality(s \ {x}) = Cardinality(s) - 1
    BY <1>1, FS_RemoveElement
  <2>2. size[s \ {x}] = size[s] - 1
    BY <1>3, <2>1 DEF size
  <2> QED BY <1>1, <1>2, <1>3, <2>2
<1> QED BY <1>1, <1>3

Sum(f, S) == MapThenSumSet(LAMBDA x : f[x], S)

Any(s) == CHOOSE x \in s : TRUE

\* g has the sums of f over the subsets of S, one value at a time.
Adds(f, S, g) ==
  g = [s \in SUBSET S |-> IF s = {} THEN 0 ELSE f[Any(s)] + g[s \ {Any(s)}]]

LEMMA AnyIsOne ==
  ASSUME NEW s, s # {}
  PROVE  Any(s) \in s
BY DEF Any

LEMMA AddsAt ==
  ASSUME NEW f, NEW S, NEW g, Adds(f, S, g), NEW s \in SUBSET S
  PROVE  g[s] = IF s = {} THEN 0 ELSE f[Any(s)] + g[s \ {Any(s)}]
<1> DEFINE rhs(x) == IF x = {} THEN 0 ELSE f[Any(x)] + g[x \ {Any(x)}]
<1>1. g = [x \in SUBSET S |-> rhs(x)]
  BY DEF Adds
<1> HIDE DEF rhs
<1>2. g[s] = rhs(s)
  BY <1>1
<1> QED BY <1>2 DEF rhs

LEMMA AddsAlike ==
  ASSUME NEW f, NEW S, NEW g, Adds(f, S, g), NEW T, NEW h, Adds(f, T, h),
         NEW D, IsFiniteSet(D), D \subseteq S, D \subseteq T
  PROVE  g[D] = h[D]
<1> DEFINE P == {s \in SUBSET D : g[s] # h[s]}
<1>1. ASSUME P # {} PROVE FALSE
  <2>1. PICK s \in P : \A x \in s : s \ {x} \notin P
    BY <1>1, SmallestSet
  <2>2. s \in SUBSET S /\ s \in SUBSET T
    OBVIOUS
  <2>3. g[s] = (IF s = {} THEN 0 ELSE f[Any(s)] + g[s \ {Any(s)}])
    BY <2>2, AddsAt
  <2>4. h[s] = (IF s = {} THEN 0 ELSE f[Any(s)] + h[s \ {Any(s)}])
    BY <2>2, AddsAt
  <2>5. s # {} => g[s \ {Any(s)}] = h[s \ {Any(s)}]
    BY <2>1, AnyIsOne
  <2> QED BY <2>3, <2>4, <2>5
<1> QED BY <1>1

\* There are such sums.
LEMMA AddsExists ==
  ASSUME NEW f, NEW S, IsFiniteSet(S)
  PROVE  \E g : Adds(f, S, g)
<1> DEFINE P == {s \in SUBSET S : ~\E g : Adds(f, s, g)}
<1>1. ASSUME P # {} PROVE FALSE
  <2>1. PICK K \in P : IsFiniteSet(K) /\ \A x \in K : K \ {x} \notin P
    BY <1>1, SmallestSet
  <2> DEFINE table(s) == CHOOSE g : Adds(f, s, g)
             value(s) == IF s = {} THEN 0 ELSE f[Any(s)] + table(s \ {Any(s)})[s \ {Any(s)}]
             g == [s \in SUBSET K |-> value(s)]
  <2>2. ASSUME NEW x \in K PROVE Adds(f, K \ {x}, table(K \ {x}))
    <3>1. K \ {x} \in SUBSET S
      OBVIOUS
    <3> QED BY <2>1, <3>1
  <2>3. ASSUME NEW s \in SUBSET K, s # K PROVE Adds(f, s, table(s))
    <3>1. PICK x \in K : x \notin s
      BY <2>3
    <3>2. s \in SUBSET (K \ {x})
      BY <3>1
    <3> DEFINE h == table(K \ {x})
               k == [t \in SUBSET s |-> h[t]]
    <3>3. ASSUME NEW t \in SUBSET s
          PROVE  h[t] = IF t = {} THEN 0 ELSE f[Any(t)] + h[t \ {Any(t)}]
      <4>1. Adds(f, K \ {x}, h) /\ t \in SUBSET (K \ {x})
        BY <2>2, <3>1, <3>2
      <4> HIDE DEF h
      <4> QED BY <4>1, AddsAt
    <3>4. \A t \in SUBSET s :
            k[t] = IF t = {} THEN 0 ELSE f[Any(t)] + k[t \ {Any(t)}]
      <4> SUFFICES ASSUME NEW t \in SUBSET s
                   PROVE  k[t] = IF t = {} THEN 0 ELSE f[Any(t)] + k[t \ {Any(t)}]
        OBVIOUS
      <4>1. t \ {Any(t)} \in SUBSET s
        OBVIOUS
      <4> HIDE DEF h
      <4>2. k[t] = h[t] /\ k[t \ {Any(t)}] = h[t \ {Any(t)}]
        BY <4>1
      <4> QED BY <3>3, <4>2
    <3>5. Adds(f, s, k)
      <4>1. k = [t \in SUBSET s |-> k[t]]
        OBVIOUS
      <4> HIDE DEF k
      <4> QED BY <3>4, <4>1 DEF Adds
    <3> QED BY <3>5
  <2>4. ASSUME NEW s \in SUBSET K, s # K PROVE g[s] = table(s)[s]
    <3> DEFINE t == s \ {Any(s)}
    <3>1. Adds(f, s, table(s))
      BY <2>3, <2>4
    <3>2. table(s)[s] = IF s = {} THEN 0 ELSE f[Any(s)] + table(s)[t]
      BY <3>1, AddsAt
    <3>3. CASE s = {}
      BY <3>2, <3>3
    <3>4. CASE s # {}
      <4>1. t \in SUBSET K /\ t # K /\ t \subseteq s
        BY <2>4
      <4>2. Adds(f, t, table(t))
        BY <4>1, <2>3
      <4>3. IsFiniteSet(t)
        BY <2>1, <4>1, FS_Subset
      <4>4. table(t)[t] = table(s)[t]
        <5> HIDE DEF table, t
        <5> QED BY <3>1, <4>1, <4>2, <4>3, AddsAlike
      <4>5. g[s] = f[Any(s)] + table(t)[t]
        BY <3>4
      <4> QED BY <3>2, <3>4, <4>4, <4>5
    <3> QED BY <3>3, <3>4
  <2>5. ASSUME NEW s \in SUBSET K
        PROVE  value(s) = IF s = {} THEN 0 ELSE f[Any(s)] + g[s \ {Any(s)}]
    <3> DEFINE t == s \ {Any(s)}
    <3>1. s # {} => t \in SUBSET K /\ t # K
      BY AnyIsOne
    <3>2. s # {} => g[t] = table(t)[t]
      BY <2>4, <3>1
    <3> HIDE DEF g, table
    <3> QED BY <3>2
  <2>6. g = [s \in SUBSET K |-> IF s = {} THEN 0 ELSE f[Any(s)] + g[s \ {Any(s)}]]
    <3>1. g = [s \in SUBSET K |-> value(s)]
      OBVIOUS
    <3> HIDE DEF g, value
    <3> QED BY <2>5, <3>1
  <2>7. Adds(f, K, g)
    BY <2>6 DEF Adds
  <2> QED BY <2>7
<1>2. S \notin P
  BY <1>1
<1> QED BY <1>2

\* A sum is that of the set without one element, and that element.
LEMMA SumIsOneOf ==
  ASSUME NEW f, NEW S, IsFiniteSet(S)
  PROVE  \E g : Adds(f, S, g) /\ Sum(f, S) = g[S]
<1> DEFINE g == CHOOSE h : Adds(f, S, h)
<1>1. Adds(f, S, g)
  BY AddsExists
<1>2. Sum(f, S) = g[S]
  BY DEF Sum, MapThenSumSet, MapThenFoldSet, Adds, Any
<1> QED BY <1>1, <1>2

LEMMA SumOfNone ==
  ASSUME NEW f
  PROVE  Sum(f, {}) = 0
BY SumIsOneOf, FS_EmptySet, AddsAt

LEMMA SumStep ==
  ASSUME NEW f, NEW S, IsFiniteSet(S), S # {}
  PROVE  Sum(f, S) = f[Any(S)] + Sum(f, S \ {Any(S)})
<1> DEFINE T == S \ {Any(S)}
<1>1. IsFiniteSet(T)
  BY FS_RemoveElement
<1>2. PICK g : Adds(f, S, g) /\ Sum(f, S) = g[S]
  BY SumIsOneOf
<1>3. PICK h : Adds(f, T, h) /\ Sum(f, T) = h[T]
  BY <1>1, SumIsOneOf
<1>4. g[S] = f[Any(S)] + g[T]
  BY <1>2, AddsAt
<1>5. g[T] = h[T]
  <2> HIDE DEF T
  <2>1. T \subseteq S
    BY DEF T
  <2> QED BY <1>1, <1>2, <1>3, <2>1, AddsAlike
<1> QED BY <1>2, <1>3, <1>4, <1>5

LEMMA SumIsInt ==
  ASSUME NEW f, NEW S, IsFiniteSet(S), \A x \in S : f[x] \in Int
  PROVE  Sum(f, S) \in Int
<1> DEFINE P == {s \in SUBSET S : Sum(f, s) \notin Int}
<1>1. ASSUME P # {} PROVE FALSE
  <2>1. PICK s \in P : IsFiniteSet(s) /\ \A y \in s : s \ {y} \notin P
    BY <1>1, SmallestSet
  <2>2. s # {}
    BY SumOfNone
  <2>3. Any(s) \in s /\ Sum(f, s) = f[Any(s)] + Sum(f, s \ {Any(s)})
    BY <2>1, <2>2, AnyIsOne, SumStep
  <2>4. Sum(f, s \ {Any(s)}) \in Int
    BY <2>1, <2>3
  <2> QED BY <2>3, <2>4
<1> QED BY <1>1

LEMMA SumsAreInt ==
  ASSUME NEW f, NEW S, IsFiniteSet(S), \A x \in S : f[x] \in Int, NEW T \in SUBSET S
  PROVE  IsFiniteSet(T) /\ Sum(f, T) \in Int
<1>1. IsFiniteSet(T)
  BY FS_Subset
<1> QED BY <1>1, SumIsInt

\* The order does not matter: any element may come first.
LEMMA SumRemove ==
  ASSUME NEW f, NEW S, IsFiniteSet(S), \A x \in S : f[x] \in Int, NEW x \in S
  PROVE  Sum(f, S) = f[x] + Sum(f, S \ {x})
<1> DEFINE Q == {s \in SUBSET S : \E y \in s : Sum(f, s) # f[y] + Sum(f, s \ {y})}
<1>3. ASSUME Q # {} PROVE FALSE
  <2>1. PICK s \in Q : IsFiniteSet(s) /\ \A y \in s : s \ {y} \notin Q
    BY <1>3, SmallestSet
  <2>2. PICK y \in s : Sum(f, s) # f[y] + Sum(f, s \ {y})
    BY <2>1
  <2> DEFINE c == Any(s)
  <2>3. c \in s /\ Sum(f, s) = f[c] + Sum(f, s \ {c})
    BY <2>1, <2>2, AnyIsOne, SumStep
  <2> HIDE DEF c
  <2>4. c # y
    BY <2>2, <2>3
  <2>5. Sum(f, s \ {c}) = f[y] + Sum(f, (s \ {c}) \ {y})
    BY <2>1, <2>2, <2>3, <2>4
  <2>6. Sum(f, s \ {y}) = f[c] + Sum(f, (s \ {y}) \ {c})
    BY <2>1, <2>2, <2>3, <2>4
  <2>7. (s \ {c}) \ {y} = (s \ {y}) \ {c}
    OBVIOUS
  <2>8. f[c] \in Int /\ f[y] \in Int
    BY <2>2, <2>3
  <2>9. Sum(f, (s \ {c}) \ {y}) \in Int
    <3>1. (s \ {c}) \ {y} \in SUBSET S
      OBVIOUS
    <3> QED BY <3>1, SumsAreInt
  <2> DEFINE rest == Sum(f, (s \ {c}) \ {y})
  <2>10. Sum(f, s) = f[c] + (f[y] + rest)
    BY <2>3, <2>5
  <2>11. Sum(f, s \ {y}) = f[c] + rest
    BY <2>6, <2>7
  <2> HIDE DEF Q, rest
  <2>12. f[c] + (f[y] + rest) # f[y] + (f[c] + rest)
    BY <2>2, <2>10, <2>11
  <2> QED BY <2>8, <2>9, <2>12 DEF rest
<1>4. S \notin Q
  BY <1>3
<1> QED BY <1>4

LEMMA SumOfBoth ==
  ASSUME NEW f, NEW S, IsFiniteSet(S), \A x \in S : f[x] \in Int,
         NEW A \in SUBSET S, NEW B \in SUBSET S, A \cap B = {}
  PROVE  Sum(f, A \cup B) = Sum(f, A) + Sum(f, B)
<1> DEFINE P == {T \in SUBSET B : Sum(f, A \cup T) # Sum(f, A) + Sum(f, T)}
<1>0. \A T \in SUBSET S : IsFiniteSet(T) /\ Sum(f, T) \in Int
  BY SumsAreInt
<1>1. ASSUME P # {} PROVE FALSE
  <2>1. PICK T \in P : \A y \in T : T \ {y} \notin P
    BY <1>0, <1>1, SmallestSet
  <2>2. T # {}
    <3>1. ASSUME T = {} PROVE FALSE
      <4>1. A \cup T = A /\ Sum(f, T) = 0 /\ Sum(f, A) \in Int
        BY <1>0, <3>1, SumOfNone
      <4>2. Sum(f, A) = Sum(f, A) + 0
        BY <4>1
      <4> QED BY <2>1, <4>1, <4>2
    <3> QED BY <3>1
  <2>3. PICK x \in T : TRUE
    BY <2>2
  <2>4. Sum(f, A \cup T) = f[x] + Sum(f, (A \cup T) \ {x})
    <3>1. A \cup T \in SUBSET S /\ x \in A \cup T
      BY <2>3
    <3> QED BY <1>0, <3>1, SumRemove
  <2>5. (A \cup T) \ {x} = A \cup (T \ {x})
    BY <2>3
  <2>6. Sum(f, T) = f[x] + Sum(f, T \ {x})
    BY <1>0, <2>3, SumRemove
  <2>7. Sum(f, A \cup (T \ {x})) = Sum(f, A) + Sum(f, T \ {x})
    BY <2>1, <2>3
  <2>8. f[x] \in Int /\ Sum(f, A) \in Int /\ Sum(f, T \ {x}) \in Int
    <3>1. T \ {x} \in SUBSET S
      OBVIOUS
    <3> QED BY <1>0, <2>3, <3>1
  <2>9. Sum(f, A \cup T) # Sum(f, A) + Sum(f, T)
    BY <2>1
  <2> HIDE DEF P
  <2> DEFINE all == Sum(f, A)
             rest == Sum(f, T \ {x})
  <2>10. f[x] + (all + rest) # all + (f[x] + rest)
    BY <2>4, <2>5, <2>6, <2>7, <2>9
  <2> HIDE DEF all, rest
  <2> QED BY <2>8, <2>10 DEF all, rest
<1>2. B \notin P
  BY <1>1
<1> QED BY <1>2

\* g has the sum of f over the part of S with each name.
Parts(f, S, h, M, g) == \A m \in M : g[m] = Sum(f, {x \in S : h[x] = m})

\* Parts that have each their own name add up to the whole, parts without
\* anything included.
LEMMA SumOfParts ==
  ASSUME NEW f, NEW S, IsFiniteSet(S), \A x \in S : f[x] \in Int,
         NEW h, NEW M, IsFiniteSet(M), \A x \in S : h[x] \in M,
         NEW g, Parts(f, S, h, M, g)
  PROVE  Sum(g, M) = Sum(f, S)
<1> USE DEF Parts
<1> DEFINE of(K) == {x \in S : h[x] \in K}
           P == {K \in SUBSET M : Sum(g, K) # Sum(f, of(K))}
<1>0. \A T \in SUBSET S : IsFiniteSet(T) /\ Sum(f, T) \in Int
  BY SumsAreInt
<1>1. ASSUME P # {} PROVE FALSE
  <2>1. PICK K \in P : IsFiniteSet(K) /\ \A m \in K : K \ {m} \notin P
    BY <1>1, SmallestSet
  <2>2. K # {}
    <3>1. of({}) = {}
      OBVIOUS
    <3> QED BY <2>1, <3>1, SumOfNone
  <2>3. PICK m \in K : TRUE
    BY <2>2
  <2> DEFINE one == {x \in S : h[x] = m}
  <2>4. \A k \in M : g[k] \in Int
    <3> SUFFICES ASSUME NEW k \in M PROVE g[k] \in Int
      OBVIOUS
    <3>1. {x \in S : h[x] = k} \in SUBSET S
      OBVIOUS
    <3> QED BY <1>0, <3>1
  <2>5. Sum(g, K) = g[m] + Sum(g, K \ {m})
    BY <2>1, <2>3, <2>4, SumRemove
  <2>6. Sum(g, K \ {m}) = Sum(f, of(K \ {m}))
    BY <2>1, <2>3
  <2>7. g[m] = Sum(f, one)
    BY <2>3
  <2>8. of(K) = one \cup of(K \ {m}) /\ one \cap of(K \ {m}) = {}
    BY <2>3
  <2>9. one \in SUBSET S /\ of(K \ {m}) \in SUBSET S
    OBVIOUS
  <2>10. Sum(g, K) # Sum(f, of(K))
    BY <2>1
  <2> HIDE DEF of, one, P
  <2>11. Sum(f, of(K)) = Sum(f, one) + Sum(f, of(K \ {m}))
    <3>1. \A A, B \in SUBSET S : A \cap B = {} => Sum(f, A \cup B) = Sum(f, A) + Sum(f, B)
      BY SumOfBoth
    <3> QED BY <2>8, <2>9, <3>1, Zenon
  <2> QED BY <2>5, <2>6, <2>7, <2>10, <2>11
<1>2. M \notin P
  BY <1>1
<1>3. of(M) = S
  OBVIOUS
<1> QED BY <1>2, <1>3

LEMMA SumAlike ==
  ASSUME NEW f, NEW g, NEW S, IsFiniteSet(S), \A x \in S : f[x] = g[x]
  PROVE  Sum(f, S) = Sum(g, S)
<1> DEFINE P == {s \in SUBSET S : Sum(f, s) # Sum(g, s)}
<1>1. ASSUME P # {} PROVE FALSE
  <2>1. PICK s \in P : IsFiniteSet(s) /\ \A y \in s : s \ {y} \notin P
    BY <1>1, SmallestSet
  <2>2. s # {}
    BY <2>1, SumOfNone
  <2>3. Any(s) \in s
    BY <2>2, AnyIsOne
  <2>4. Sum(f, s \ {Any(s)}) = Sum(g, s \ {Any(s)})
    BY <2>1, <2>3
  <2>5. f[Any(s)] = g[Any(s)]
    BY <2>3
  <2> QED BY <2>1, <2>2, <2>4, <2>5, SumStep
<1> QED BY <1>1

\* A sum over a field of records.
LEMMA SumOfField ==
  ASSUME NEW t, NEW S \in SUBSET DOMAIN t, IsFiniteSet(S), NEW field
  PROVE  MapThenSumSet(LAMBDA i : t[i][field], S) = Sum([i \in DOMAIN t |-> t[i][field]], S)
<1> DEFINE f == [i \in DOMAIN t |-> t[i][field]]
           sums(g) == g = [s \in SUBSET S |->
                        IF s = {} THEN 0 ELSE t[Any(s)][field] + g[s \ {Any(s)}]]
           sum == CHOOSE g : sums(g)
<1>1. \A s \in SUBSET S : s # {} => f[Any(s)] = t[Any(s)][field]
  BY AnyIsOne
<1> HIDE DEF f
<1>2. ASSUME NEW g PROVE sums(g) <=> Adds(f, S, g)
  BY <1>1 DEF Adds
<1>3. PICK g : Adds(f, S, g) /\ Sum(f, S) = g[S]
  BY SumIsOneOf
<1>4. MapThenSumSet(LAMBDA i : t[i][field], S) = sum[S]
  BY DEF MapThenSumSet, MapThenFoldSet, Any
<1> HIDE DEF sums
<1>5. sums(sum)
  BY <1>2, <1>3
<1>6. Adds(f, S, sum)
  BY <1>2, <1>5
<1> HIDE DEF sum
<1>7. sum[S] = g[S]
  BY <1>3, <1>6, AddsAlike
<1> QED BY <1>3, <1>4, <1>7 DEF f

LEMMA ImageIsFinite ==
  ASSUME NEW S, IsFiniteSet(S), NEW f
  PROVE  IsFiniteSet({f[x] : x \in S})
<1> DEFINE T == {f[x] : x \in S}
           g == [x \in S |-> f[x]]
<1>1. g \in Surjection(S, T)
  BY DEF Surjection
<1> HIDE DEF T, g
<1>2. IsFiniteSet(T)
  BY <1>1, FS_Surjection
<1> QED BY <1>2 DEF T

----------------------------------------------------------------------------
(* The totals of the dashboard.                                            *)

Cents(t) == [i \in DOMAIN t |-> t[i].cents]

\* Lists of rows with an amount and a direction.
IsLedger(t) ==
  /\ IsFiniteSet(DOMAIN t)
  /\ \A i \in DOMAIN t : t[i].cents \in Int /\ t[i].credit \in BOOLEAN

LEMMA TotalIsSum ==
  ASSUME NEW t, IsLedger(t), NEW S \in SUBSET DOMAIN t
  PROVE  IsFiniteSet(S) /\ Total(t, S) = Sum(Cents(t), S)
<1>1. IsFiniteSet(S)
  BY FS_Subset DEF IsLedger
<1>2. MapThenSumSet(LAMBDA i : t[i]["cents"], S) = Sum([i \in DOMAIN t |-> t[i]["cents"]], S)
  BY <1>1, SumOfField
<1>3. Total(t, S) = MapThenSumSet(LAMBDA i : t[i]["cents"], S)
  BY DEF Total, MapThenSumSet, MapThenFoldSet
<1>4. Cents(t) = [i \in DOMAIN t |-> t[i]["cents"]]
  BY DEF Cents
<1> QED BY <1>1, <1>2, <1>3, <1>4

Totals(t, S, h, M, g) == \A m \in M : g[m] = Total(t, {i \in S : h[i] = m})

\* Totals of the rows that share something add up.
LEMMA TotalOfParts ==
  ASSUME NEW t, IsLedger(t), NEW S \in SUBSET DOMAIN t,
         NEW h, NEW M, IsFiniteSet(M), \A i \in S : h[i] \in M,
         NEW g, Totals(t, S, h, M, g)
  PROVE  Sum(g, M) = Total(t, S)
<1>1. \A m \in M : g[m] = Sum(Cents(t), {i \in S : h[i] = m})
  <2> SUFFICES ASSUME NEW m \in M PROVE g[m] = Sum(Cents(t), {i \in S : h[i] = m})
    OBVIOUS
  <2>1. {i \in S : h[i] = m} \in SUBSET DOMAIN t
    OBVIOUS
  <2> QED BY <2>1, TotalIsSum DEF Totals
<1>2. IsFiniteSet(S) /\ Total(t, S) = Sum(Cents(t), S)
  BY TotalIsSum
<1> DEFINE f == Cents(t)
<1>3. \A i \in S : f[i] \in Int
  BY DEF Cents, IsLedger
<1>4. Parts(f, S, h, M, g)
  BY <1>1 DEF Parts
<1>5. Sum(g, M) = Sum(f, S)
  <2> HIDE DEF f
  <2> QED BY <1>2, <1>3, <1>4, SumOfParts
<1> QED BY <1>2, <1>5

\* The chart adds up to the debits it is about.
LEMMA ChartTotal ==
  ASSUME NEW t, IsLedger(t), NEW m
  PROVE  LET out == CategoryBreakdown(t, m)
         IN MapThenSumSet(LAMBDA c : out[c], DOMAIN out) = Total(t, Spending(t, m))
<1> DEFINE S == Spending(t, m)
           out == CategoryBreakdown(t, m)
           h == [i \in S |-> t[i].category]
<1>1. S \in SUBSET DOMAIN t
  BY DEF Spending, Counted
<1>2. DOMAIN out = {t[i].category : i \in S}
  BY DEF CategoryBreakdown
<1>3. IsFiniteSet(S) /\ IsFiniteSet(DOMAIN out)
  <2>1. IsFiniteSet(S)
    BY <1>1, TotalIsSum
  <2>2. DOMAIN out = {h[i] : i \in S}
    BY <1>2
  <2>3. IsFiniteSet({h[i] : i \in S})
    <3> HIDE DEF S, h
    <3> QED BY <2>1, ImageIsFinite
  <2> QED BY <2>1, <2>2, <2>3
<1>4. \A i \in S : h[i] \in DOMAIN out
  BY <1>2
<1>5. Totals(t, S, h, DOMAIN out, out)
  <2> SUFFICES ASSUME NEW c \in DOMAIN out PROVE out[c] = Total(t, {i \in S : h[i] = c})
    BY DEF Totals
  <2>1. {i \in S : h[i] = c} = {i \in S : t[i].category = c}
    OBVIOUS
  <2>2. out[c] = Total(t, {i \in S : t[i].category = c})
    BY <1>2 DEF CategoryBreakdown
  <2> QED BY <2>1, <2>2
<1>6. MapThenSumSet(LAMBDA c : out[c], DOMAIN out) = Total(t, S)
  <2>1. MapThenSumSet(LAMBDA c : out[c], DOMAIN out) = Sum(out, DOMAIN out)
    BY DEF Sum
  <2> HIDE DEF S, out, h
  <2>2. Sum(out, DOMAIN out) = Total(t, S)
    BY <1>1, <1>3, <1>4, <1>5, TotalOfParts
  <2> QED BY <2>1, <2>2
<1> HIDE DEF S, out
<1> QED BY <1>6 DEF out, S

\* The months a summary lists are names of months.
Dated(t) == IsLedger(t) /\ \A i \in DOMAIN t : t[i].month # AllMonths

LEMMA ChartOfMonth ==
  ASSUME NEW t, Dated(t), NEW m \in DOMAIN Summary(t).months
  PROVE  Tiles(Summary(t), m).outflow = Total(t, Spending(t, m))
<1>1. Summary(t).months = MonthlyFlows(t)
  BY DEF Summary
<1>2. m \in {t[i].month : i \in Counted(t)}
  BY <1>1 DEF MonthlyFlows
<1>3. m # AllMonths
  BY <1>2 DEF Dated, Counted
<1>4. MonthlyFlows(t)[m].outflow
        = Total(t, {i \in Counted(t) : t[i].month = m /\ t[i].credit = FALSE})
  BY <1>2 DEF MonthlyFlows
<1>5. {i \in Counted(t) : t[i].month = m /\ t[i].credit = FALSE} = Spending(t, m)
  BY <1>3 DEF Dated, IsLedger, Spending, Counted
<1> QED BY <1>1, <1>3, <1>4, <1>5 DEF Tiles

\* The months add up to the debits of all time.
LEMMA ChartOfAll ==
  ASSUME NEW t, Dated(t)
  PROVE  Tiles(Summary(t), AllMonths).outflow = Total(t, Spending(t, AllMonths))
<1> DEFINE months == MonthlyFlows(t)
           M == DOMAIN months
           S == Spending(t, AllMonths)
           h == [i \in DOMAIN t |-> t[i].month]
           out == [m \in M |-> months[m]["outflow"]]
<1>1. M = {t[i].month : i \in Counted(t)}
  BY DEF MonthlyFlows
<1>2. S = {i \in Counted(t) : ~t[i].credit} /\ S \in SUBSET DOMAIN t
  BY DEF Spending, Counted
<1>3. IsFiniteSet(M)
  <2>1. IsFiniteSet(Counted(t))
    BY FS_Subset DEF Dated, IsLedger, Counted
  <2>2. M = {h[i] : i \in Counted(t)}
    BY <1>1 DEF Counted
  <2>3. IsFiniteSet({h[i] : i \in Counted(t)})
    <3> HIDE DEF h
    <3> QED BY <2>1, ImageIsFinite
  <2> QED BY <2>2, <2>3
<1>4. \A i \in S : h[i] \in M
  BY <1>1, <1>2
<1>5. Totals(t, S, h, M, out)
  <2> SUFFICES ASSUME NEW m \in M PROVE out[m] = Total(t, {i \in S : h[i] = m})
    BY DEF Totals
  <2>1. {i \in S : h[i] = m} = {i \in Counted(t) : t[i].month = m /\ t[i].credit = FALSE}
    BY <1>2 DEF Dated, IsLedger, Counted
  <2>2. months[m].outflow
          = Total(t, {i \in Counted(t) : t[i].month = m /\ t[i].credit = FALSE})
    BY <1>1 DEF MonthlyFlows
  <2> QED BY <2>1, <2>2
<1>6. Sum(out, M) = Total(t, S)
  <2> HIDE DEF M, S, h, out
  <2> QED BY <1>2, <1>3, <1>4, <1>5, TotalOfParts DEF Dated
<1>7. Tiles(Summary(t), AllMonths).outflow = MapThenSumSet(LAMBDA m : months[m].outflow, M)
  BY DEF Tiles, Summary
<1> HIDE DEF months
<1>8. MapThenSumSet(LAMBDA m : months[m].outflow, M)
        = MapThenSumSet(LAMBDA m : months[m]["outflow"], M)
  BY DEF MapThenSumSet, MapThenFoldSet
<1>9. MapThenSumSet(LAMBDA m : months[m]["outflow"], M) = Sum(out, M)
  BY <1>3, SumOfField
<1> QED BY <1>6, <1>7, <1>8, <1>9

\* The chart's slices add up to the money out of the tile above it, for every
\* month the summary lists and for all of them together, after transfers were
\* marked: for every list of rows, whatever their months, amounts and categories.
THEOREM TotalsAgree == Spec => []ChartAddsUp
<1>1. ListOfRows => ChartAddsUp
  <2> SUFFICES ASSUME ListOfRows PROVE ChartAddsUp
    OBVIOUS
  <2>1. Dated(Marked)
    <3>1. PICK R : txns \in Seq(R)
      BY DEF ListOfRows, RowLists
    <3>2. IsFiniteSet(DOMAIN Marked)
      BY <3>1, FS_Interval DEF Marked
    <3>3. \A i \in DOMAIN txns :
            /\ txns[i].cents \in Int /\ txns[i].credit \in BOOLEAN
            /\ txns[i].month # AllMonths
      <4>1. \A i \in DOMAIN txns : txns[i] \in AnyRow
        BY DEF ListOfRows, RowLists
      <4>2. \A r \in AnyRow :
              r.cents \in Int /\ r.credit \in BOOLEAN /\ r.month # AllMonths
        BY AmountsAssumption, MonthsAssumption DEF Row, AnyRow
      <4> QED BY <4>1, <4>2
    <3>4. \A i \in DOMAIN Marked :
            /\ Marked[i].cents \in Int /\ Marked[i].credit \in BOOLEAN
            /\ Marked[i].month # AllMonths
      BY <3>3 DEF Marked
    <3> QED BY <3>2, <3>4 DEF Dated, IsLedger
  <2> DEFINE sum == Summary(Marked)
             chart(m) == CategoryBreakdown(Marked, m)
  <2>2. ASSUME NEW m \in DOMAIN sum.months \cup {AllMonths}
        PROVE  MapThenSumSet(LAMBDA c : chart(m)[c], DOMAIN chart(m)) = Tiles(sum, m).outflow
    <3>1. MapThenSumSet(LAMBDA c : chart(m)[c], DOMAIN chart(m))
            = Total(Marked, Spending(Marked, m))
      BY <2>1, ChartTotal DEF Dated
    <3>2. Tiles(sum, m).outflow = Total(Marked, Spending(Marked, m))
      BY <2>1, ChartOfMonth, ChartOfAll
    <3> QED BY <3>1, <3>2
  <2> QED BY <2>2 DEF ChartAddsUp
<1> QED BY <1>1, ListsOfRows, PTL

----------------------------------------------------------------------------
(* Recursion along a sequence.                                             *)

\* What holds at the start and is passed on holds of a whole interval.
LEMMA AllAlong ==
  ASSUME NEW a \in Nat, NEW b \in Nat, NEW P,
         a <= b => a \in P,
         \A i \in (a + 1)..b : i - 1 \in P => i \in P
  PROVE  \A i \in a..b : i \in P
<1> DEFINE Q == {i \in a..b : i \notin P}
<1>1. ASSUME Q # {} PROVE FALSE
  <2>1. Q \in SUBSET Nat
    OBVIOUS
  <2>2. PICK i \in Q : \A j \in Q : i <= j
    BY <1>1, <2>1, Least
  <2>3. i \in Nat /\ a <= i /\ i <= b /\ i \notin P
    OBVIOUS
  <2>4. i # a
    BY <2>3
  <2>5. i - 1 \in a..b /\ i \in (a + 1)..b
    BY <2>3, <2>4
  <2>6. i - 1 \notin Q
    BY <2>2, <2>3
  <2>7. i - 1 \in P
    BY <2>5, <2>6
  <2> QED BY <2>3, <2>5, <2>7
<1> QED BY <1>1

\* f begins with q and goes on by the steps in st.
Walks(f, n, Q, q, st) ==
  /\ f \in [0..n -> Q]
  /\ f[0] = q
  /\ \A i \in 1..n : f[i] = st[i][f[i - 1]]

LEMMA WalkExists ==
  ASSUME NEW n \in Nat, NEW Q, NEW q \in Q, NEW st \in [1..n -> [Q -> Q]]
  PROVE  \E f : Walks(f, n, Q, q, st)
<1> DEFINE P == {k \in 0..n : \E f : Walks(f, k, Q, q, st)}
<1>1. 0 \in P
  <2>1. Walks([i \in 0..0 |-> q], 0, Q, q, st)
    BY DEF Walks
  <2> QED BY <2>1
<1>2. ASSUME NEW k \in (0 + 1)..n, k - 1 \in P PROVE k \in P
  <2>1. PICK f : Walks(f, k - 1, Q, q, st)
    BY <1>2
  <2> DEFINE g == [i \in 0..k |-> IF i = k THEN st[k][f[k - 1]] ELSE f[i]]
  <2>2. k \in 1..n /\ k - 1 \in 0..(k - 1) /\ f[k - 1] \in Q
    BY <2>1 DEF Walks
  <2>3. st[k][f[k - 1]] \in Q
    BY <2>2
  <2>4. \A i \in 0..(k - 1) : g[i] = f[i] /\ f[i] \in Q
    BY <2>1 DEF Walks
  <2>5. g[k] = st[k][g[k - 1]]
    BY <2>2, <2>4
  <2>6. \A i \in 1..(k - 1) : g[i] = st[i][g[i - 1]]
    <3> SUFFICES ASSUME NEW i \in 1..(k - 1) PROVE g[i] = st[i][g[i - 1]]
      OBVIOUS
    <3>1. f[i] = st[i][f[i - 1]]
      BY <2>1 DEF Walks
    <3>2. i \in 0..(k - 1) /\ i - 1 \in 0..(k - 1)
      OBVIOUS
    <3> HIDE DEF g
    <3> QED BY <2>4, <3>1, <3>2
  <2>7. g \in [0..k -> Q] /\ g[0] = q
    BY <2>1, <2>2, <2>3, <2>4 DEF Walks
  <2> HIDE DEF g
  <2>8. Walks(g, k, Q, q, st)
    <3>1. \A i \in 1..k : i = k \/ i \in 1..(k - 1)
      OBVIOUS
    <3> QED BY <2>5, <2>6, <2>7, <3>1 DEF Walks
  <2> QED BY <2>8
<1>3. n \in P
  <2> HIDE DEF P
  <2>1. \A i \in 0..n : i \in P
    BY <1>1, <1>2, AllAlong
  <2> QED BY <2>1
<1> QED BY <1>3

----------------------------------------------------------------------------
(* Normalized names.                                                       *)

Chars == Characters \cup {" "}

\* The name after one more character.
NormStep(s, i, name) ==
  IF s[i] \in Kept THEN Append(name, s[i])
  ELSE IF i + 1 \in {j \in DOMAIN s : s[j] \in Kept} /\ name # <<>> THEN Append(name, " ")
  ELSE name

\* f has the normalized names of s, up to each of its places.
Norms(s, f) ==
  /\ f \in [0..Len(s) -> Seq(Chars)]
  /\ f[0] = <<>>
  /\ \A i \in 1..Len(s) : f[i] = NormStep(s, i, f[i - 1])

LEMMA NormStepIsName ==
  ASSUME NEW s \in Seq(Chars), NEW i \in 1..Len(s), NEW name \in Seq(Chars)
  PROVE  NormStep(s, i, name) \in Seq(Chars)
<1>1. s[i] \in Chars
  OBVIOUS
<1>2. " " \in Chars
  BY DEF Chars
<1>3. \A c \in Chars : Append(name, c) \in Seq(Chars)
  OBVIOUS
<1> QED BY <1>1, <1>2, <1>3 DEF NormStep

LEMMA NormalizeNorms ==
  ASSUME NEW s \in Seq(Chars)
  PROVE  \E f : Norms(s, f) /\ Normalize(s) = f[Len(s)]
<1> DEFINE n == Len(s)
           Q == Seq(Chars)
           st == [i \in 1..n |-> [q \in Q |-> NormStep(s, i, q)]]
<1>0. n \in Nat
  OBVIOUS
<1>1. st \in [1..n -> [Q -> Q]]
  BY NormStepIsName
<1>2. \A i \in 1..n, q \in Q : st[i][q] = NormStep(s, i, q)
  OBVIOUS
<1>3. <<>> \in Q
  OBVIOUS
<1>4. PICK f : Walks(f, n, Q, <<>>, st)
  <2> HIDE DEF n, Q, st
  <2> QED BY <1>0, <1>1, <1>3, WalkExists
<1>5. Norms(s, f)
  <2>1. ASSUME NEW i \in 1..n PROVE f[i] = NormStep(s, i, f[i - 1])
    <3>1. f[i] = st[i][f[i - 1]] /\ f[i - 1] \in Q
      <4> HIDE DEF n, Q, st
      <4> QED BY <1>0, <1>4 DEF Walks
    <3> QED BY <1>2, <3>1
  <2> QED BY <1>4, <2>1 DEF Walks, Norms
<1> DEFINE rec(g) == g = [i \in 0..Len(s) |->
                        IF i = 0 THEN <<>> ELSE NormStep(s, i, g[i - 1])]
           h == CHOOSE g : rec(g)
<1>6. rec(f)
  <2>1. f = [i \in 0..Len(s) |-> f[i]]
    BY <1>5 DEF Norms
  <2>2. \A i \in 0..Len(s) : f[i] = IF i = 0 THEN <<>> ELSE NormStep(s, i, f[i - 1])
    BY <1>5 DEF Norms
  <2> QED BY <2>1, <2>2
<1>7. Normalize(s) = h[Len(s)]
  BY DEF Normalize, NormStep
<1>8. rec(h)
  <2> HIDE DEF rec
  <2> QED BY <1>6
<1>9. \A i \in 0..n : h[i] = f[i]
  <2> DEFINE P == {i \in 0..n : h[i] = f[i]}
  <2>1. \A i \in 0..n : h[i] = IF i = 0 THEN <<>> ELSE NormStep(s, i, h[i - 1])
    <3> HIDE DEF h
    <3> QED BY <1>8
  <2> HIDE DEF h
  <2>2. 0 \in P
    BY <2>1, <1>5 DEF Norms
  <2>3. ASSUME NEW i \in (0 + 1)..n, i - 1 \in P PROVE i \in P
    <3>1. h[i] = NormStep(s, i, h[i - 1])
      BY <2>1
    <3>2. f[i] = NormStep(s, i, f[i - 1])
      BY <1>5 DEF Norms
    <3> QED BY <2>3, <3>1, <3>2
  <2> HIDE DEF P
  <2>4. \A i \in 0..n : i \in P
    BY <1>0, <2>2, <2>3, AllAlong
  <2> QED BY <2>4 DEF P
<1>10. h[n] = f[n]
  BY <1>0, <1>9
<1> QED BY <1>5, <1>7, <1>10

\* w is a part of s, from the place after o on, without separators at its ends.
Inside(s, w, o) ==
  /\ o \in Nat
  /\ Len(w) >= 1
  /\ o + Len(w) <= Len(s)
  /\ \A i \in 1..Len(w) : w[i] = s[o + i]
  /\ w[1] \in Kept
  /\ w[Len(w)] \in Kept

LEMMA Appended ==
  ASSUME NEW x \in Seq(Chars), NEW y \in Seq(Chars), NEW c \in Chars
  PROVE  /\ Append(x \o y, c) = x \o Append(y, c)
         /\ Append(y, c) # <<>>
         /\ Append(y, c) \in Seq(Chars)
         /\ x \o <<>> = x
         /\ <<>> \o x = x
         /\ y # <<>> => x \o y # <<>>
OBVIOUS

\* Appending a character to x \o y appends it to y.
Snoc(x, y, c) ==
  /\ Append(x \o y, c) = x \o Append(y, c)
  /\ Append(y, c) # <<>>
  /\ Append(y, c) \in Seq(Chars)

LEMMA SnocAny == \A x, y \in Seq(Chars) : \A c \in Chars : Snoc(x, y, c)
<1> SUFFICES ASSUME NEW x \in Seq(Chars), NEW y \in Seq(Chars), NEW c \in Chars
             PROVE  Snoc(x, y, c)
  OBVIOUS
<1>1. Append(x \o y, c) = x \o Append(y, c)
  OBVIOUS
<1>2. Append(y, c) # <<>> /\ Append(y, c) \in Seq(Chars)
  OBVIOUS
<1> QED BY <1>1, <1>2 DEF Snoc

LEMMA NormsAt ==
  ASSUME NEW s \in Seq(Chars), NEW f, Norms(s, f), NEW i \in 1..Len(s)
  PROVE  /\ f[i] = NormStep(s, i, f[i - 1])
         /\ f[i] \in Seq(Chars)
         /\ f[i - 1] \in Seq(Chars)
         /\ s[i] \in Chars
BY DEF Norms

Follows(f, g, w, o) == \A i \in 1..Len(w) : f[o + i] = f[o] \o g[i]

\* The part of a name is normalized as it would be alone.
LEMMA InsideNorms ==
  ASSUME NEW s \in Seq(Chars), NEW f, Norms(s, f), NEW w \in Seq(Chars), NEW g, Norms(w, g),
         NEW o, Inside(s, w, o)
  PROVE  Follows(f, g, w, o)
<1> USE DEF Follows
<1> DEFINE P == {i \in 1..Len(w) : f[o + i] = f[o] \o g[i] /\ g[i] # <<>>}
<1>1. o \in Nat /\ Len(w) \in Nat /\ Len(s) \in Nat /\ 1 <= Len(w) /\ o + Len(w) <= Len(s)
  BY DEF Inside
<1>2. \A i \in 1..Len(w) : o + i \in 1..Len(s) /\ w[i] = s[o + i]
  BY <1>1 DEF Inside
<1>3. f[o] \in Seq(Chars)
  <2>1. o \in 0..Len(s)
    BY <1>1
  <2> QED BY <2>1 DEF Norms
<1>4. 1 \in P
  <2>1. g[1] = NormStep(w, 1, g[0]) /\ g[0] = <<>> /\ w[1] \in Chars
    BY <1>1, NormsAt DEF Norms
  <2>2. f[o + 1] = NormStep(s, o + 1, f[o]) /\ s[o + 1] = w[1]
    BY <1>1, <1>2, NormsAt
  <2>3. w[1] \in Kept
    BY DEF Inside
  <2>4. g[1] = Append(<<>>, w[1]) /\ f[o + 1] = Append(f[o], w[1])
    BY <2>1, <2>2, <2>3 DEF NormStep
  <2>5. f[o] \o <<>> = f[o] /\ <<>> \in Seq(Chars)
    BY <1>3
  <2>6. Append(f[o] \o <<>>, w[1]) = f[o] \o Append(<<>>, w[1]) /\ Append(<<>>, w[1]) # <<>>
    BY <1>3, <2>1, <2>5, Appended
  <2> HIDE DEF P
  <2>7. f[o + 1] = f[o] \o g[1] /\ g[1] # <<>>
    BY <2>4, <2>5, <2>6
  <2>8. 1 \in 1..Len(w)
    BY <1>1
  <2> QED BY <2>7, <2>8, Zenon DEF P
<1>5. ASSUME NEW i \in (1 + 1)..Len(w), i - 1 \in P PROVE i \in P
  <2>1. i \in 1..Len(w) /\ o + i \in 1..Len(s) /\ i - 1 \in 1..Len(w) /\ (o + i) - 1 = o + (i - 1)
    BY <1>1
  <2>2. g[i] = NormStep(w, i, g[i - 1]) /\ g[i - 1] \in Seq(Chars) /\ w[i] \in Chars
    BY <2>1, NormsAt
  <2>3. f[o + i] = NormStep(s, o + i, f[o + (i - 1)]) /\ s[o + i] = w[i]
    <3>1. f[o + i] = NormStep(s, o + i, f[(o + i) - 1])
      <4> DEFINE j == o + i
      <4> HIDE DEF j
      <4>1. j \in 1..Len(s)
        BY <2>1 DEF j
      <4>2. f[j] = NormStep(s, j, f[j - 1])
        BY <4>1, NormsAt
      <4> QED BY <4>2 DEF j
    <3> QED BY <1>2, <2>1, <3>1
  <2>4. f[o + (i - 1)] = f[o] \o g[i - 1] /\ g[i - 1] # <<>>
    BY <1>5
  <2>5. f[o] \o g[i - 1] # <<>>
    BY <1>3, <2>2, <2>4, Appended
  <2>6. \A c \in Chars : /\ Append(f[o] \o g[i - 1], c) = f[o] \o Append(g[i - 1], c)
                        /\ Append(g[i - 1], c) # <<>>
    <3>1. \A c \in Chars : Snoc(f[o], g[i - 1], c)
      BY <1>3, <2>2, SnocAny
    <3> QED BY ONLY <3>1, Zenon DEF Snoc
  <2>7. " " \in Chars
    BY DEF Chars
  <2> HIDE DEF P
  <2>8. f[o + i] = f[o] \o g[i] /\ g[i] # <<>>
    <3>1. CASE w[i] \in Kept
      <4>1. g[i] = Append(g[i - 1], w[i])
        BY <2>2, <3>1 DEF NormStep
      <4>2. f[o + i] = Append(f[o] \o g[i - 1], w[i])
        BY <2>3, <2>4, <3>1 DEF NormStep
      <4> QED BY <2>2, <2>6, <4>1, <4>2
    <3>2. CASE w[i] \notin Kept
      <4>1. i + 1 \in 1..Len(w)
        BY <1>1, <2>1, <3>2 DEF Inside
      <4>2. w[i + 1] = s[o + i + 1] /\ o + i + 1 \in DOMAIN s /\ i + 1 \in DOMAIN w
        <5>1. o + (i + 1) = o + i + 1
          BY <1>1
        <5> QED BY <1>2, <4>1, <5>1
      <4>3. CASE w[i + 1] \in Kept
        <5>1. g[i] = Append(g[i - 1], " ")
          BY <2>2, <2>4, <3>2, <4>2, <4>3 DEF NormStep
        <5>2. f[o + i] = Append(f[o] \o g[i - 1], " ")
          BY <2>3, <2>4, <2>5, <3>2, <4>2, <4>3 DEF NormStep
        <5> QED BY <2>6, <2>7, <5>1, <5>2
      <4>4. CASE w[i + 1] \notin Kept
        <5>1. g[i] = g[i - 1]
          BY <2>2, <3>2, <4>2, <4>4 DEF NormStep
        <5>2. f[o + i] = f[o] \o g[i - 1]
          BY <2>3, <2>4, <3>2, <4>2, <4>4 DEF NormStep
        <5> QED BY <2>4, <5>1, <5>2
      <4> QED BY <4>3, <4>4
    <3> QED BY <3>1, <3>2
  <2> QED BY <2>1, <2>8 DEF P
<1>6. \A i \in 1..Len(w) : i \in P
  <2> HIDE DEF P
  <2> QED BY <1>1, <1>4, <1>5, AllAlong
<1> QED BY <1>6

\* A name only grows.
LEMMA NormsGrow ==
  ASSUME NEW s \in Seq(Chars), NEW f, Norms(s, f), NEW i \in 0..Len(s)
  PROVE  \E y \in Seq(Chars) : f[Len(s)] = f[i] \o y
<1> DEFINE P == {j \in i..Len(s) : \E y \in Seq(Chars) : f[j] = f[i] \o y}
<1>1. Len(s) \in Nat /\ i \in Nat /\ i <= Len(s) /\ f[i] \in Seq(Chars)
  BY DEF Norms
<1>2. i \in P
  <2>1. f[i] = f[i] \o <<>> /\ <<>> \in Seq(Chars)
    BY <1>1
  <2>2. \E y \in Seq(Chars) : f[i] = f[i] \o y
    BY <2>1
  <2>3. i \in i..Len(s)
    BY <1>1
  <2> QED BY <2>2, <2>3
<1>3. ASSUME NEW j \in (i + 1)..Len(s), j - 1 \in P PROVE j \in P
  <2>1. PICK y \in Seq(Chars) : f[j - 1] = f[i] \o y
    BY <1>3
  <2>2. f[j] = NormStep(s, j, f[j - 1]) /\ s[j] \in Chars
    BY <1>1, NormsAt
  <2>3. " " \in Chars
    BY DEF Chars
  <2>4. \A c \in Chars : Append(f[i] \o y, c) = f[i] \o Append(y, c) /\ Append(y, c) \in Seq(Chars)
    <3>1. \A c \in Chars : Snoc(f[i], y, c)
      BY <1>1, SnocAny
    <3> QED BY ONLY <3>1, Zenon DEF Snoc
  <2>5. f[j] = f[i] \o y \/ \E c \in Chars : f[j] = Append(f[i] \o y, c)
    BY <2>1, <2>2, <2>3 DEF NormStep
  <2>6. \E z \in Seq(Chars) : f[j] = f[i] \o z
    BY <2>4, <2>5
  <2>7. j \in i..Len(s)
    BY <1>1
  <2> QED BY <2>6, <2>7, Zenon
<1>4. \A j \in i..Len(s) : j \in P
  <2> HIDE DEF P
  <2> QED BY <1>1, <1>2, <1>3, AllAlong
<1>5. Len(s) \in P
  <2>1. Len(s) \in i..Len(s)
    BY <1>1
  <2> QED BY <1>4, <2>1
<1> QED BY <1>5

LEMMA WithinMiddle ==
  ASSUME NEW x \in Seq(Chars), NEW p \in Seq(Chars), NEW y \in Seq(Chars)
  PROVE  Within((x \o p) \o y, p)
<1> DEFINE name == (x \o p) \o y
           i == Len(x)
<1>1. /\ Len(name) = Len(x) + Len(p) + Len(y) /\ Len(x) \in Nat /\ Len(p) \in Nat /\ Len(y) \in Nat
      /\ name \in Seq(Chars)
  OBVIOUS
<1>2. i \in 0..(Len(name) - Len(p))
  BY <1>1
<1>3. \A k \in 1..Len(p) : name[i + k] = p[k]
  OBVIOUS
<1>4. SubSeq(name, i + 1, i + Len(p)) = p
  <2> DEFINE part == SubSeq(name, i + 1, i + Len(p))
  <2>1. Len(part) = Len(p) /\ part \in Seq(Chars) /\ \A k \in 1..Len(p) : part[k] = name[i + k]
    <3> HIDE DEF name
    <3> QED BY <1>1
  <2> HIDE DEF part, name
  <2>2. \A k \in 1..Len(p) : part[k] = p[k]
    BY <1>3, <2>1
  <2>3. part = p
    BY <2>1, <2>2
  <2> QED BY <2>3 DEF part
<1> QED BY <1>2, <1>4 DEF Within

\* The normalized name of a part is in that of the whole, in one piece.
LEMMA InsideIsWithin ==
  ASSUME NEW s \in Seq(Chars), NEW w \in Seq(Chars), NEW o, Inside(s, w, o)
  PROVE  Within(Normalize(s), Normalize(w))
<1>1. PICK f : Norms(s, f) /\ Normalize(s) = f[Len(s)]
  BY NormalizeNorms
<1>2. PICK g : Norms(w, g) /\ Normalize(w) = g[Len(w)]
  BY NormalizeNorms
<1>0. /\ o \in Nat /\ Len(w) \in 1..Len(w) /\ Len(w) \in 0..Len(w)
      /\ o + Len(w) \in 0..Len(s) /\ o \in 0..Len(s)
  BY DEF Inside
<1>3. f[o] \in Seq(Chars) /\ g[Len(w)] \in Seq(Chars)
  BY <1>0, <1>1, <1>2 DEF Norms
<1>4. f[o + Len(w)] = f[o] \o g[Len(w)]
  <2>1. \A i \in 1..Len(w) : f[o + i] = f[o] \o g[i]
    <3>1. Norms(s, f) /\ Norms(w, g)
      BY <1>1, <1>2
    <3>2. Follows(f, g, w, o)
      BY <3>1, InsideNorms
    <3> QED BY <3>2 DEF Follows
  <2> QED BY <1>0, <2>1
<1>5. PICK y \in Seq(Chars) : f[Len(s)] = f[o + Len(w)] \o y
  BY <1>0, <1>1, NormsGrow
<1> QED BY <1>1, <1>2, <1>3, <1>4, <1>5, WithinMiddle

\* Separators around a name do not matter.
LEMMA TrimmedAlike ==
  ASSUME NEW s \in Seq(Chars), NEW w \in Seq(Chars), NEW o, Inside(s, w, o),
         \A i \in DOMAIN s : s[i] \in Kept => o < i /\ i <= o + Len(w)
  PROVE  Normalize(s) = Normalize(w)
<1>1. PICK f : Norms(s, f) /\ Normalize(s) = f[Len(s)]
  BY NormalizeNorms
<1>2. PICK g : Norms(w, g) /\ Normalize(w) = g[Len(w)]
  BY NormalizeNorms
<1>3. /\ o \in Nat /\ Len(w) \in 1..Len(w) /\ o + Len(w) \in 0..Len(s) /\ Len(s) \in Nat
      /\ g[Len(w)] \in Seq(Chars)
  BY <1>2 DEF Inside, Norms
<1> DEFINE m == o + Len(w)
<1>4. f[o] = <<>>
  <2> DEFINE P == {i \in 0..o : f[i] = <<>>}
  <2>1. 0 \in P
    BY <1>1, <1>3 DEF Norms
  <2>2. ASSUME NEW i \in (0 + 1)..o, i - 1 \in P PROVE i \in P
    <3>1. i \in DOMAIN s /\ s[i] \notin Kept /\ i \in 1..Len(s)
      BY <1>3
    <3>2. f[i] = NormStep(s, i, <<>>)
      BY <1>1, <2>2, <3>1, NormsAt
    <3> QED BY <3>1, <3>2 DEF NormStep
  <2>3. \A i \in 0..o : i \in P
    <3> HIDE DEF P
    <3> QED BY <1>3, <2>1, <2>2, AllAlong
  <2> QED BY <1>3, <2>3
<1>5. f[Len(s)] = f[m]
  <2> DEFINE P == {i \in m..Len(s) : f[i] = f[m]}
  <2>0. m \in Nat /\ m <= Len(s)
    BY <1>3
  <2> HIDE DEF m
  <2>1. m \in P
    BY <1>3, <2>0
  <2>2. ASSUME NEW i \in (m + 1)..Len(s), i - 1 \in P PROVE i \in P
    <3>1. i \in DOMAIN s /\ i \in 1..Len(s) /\ i \in m..Len(s) /\ i \in Nat
      BY <1>3, <2>0
    <3>2. \A j \in DOMAIN s : j > m => s[j] \notin Kept
      BY <1>3, <2>0 DEF m
    <3>3. s[i] \notin Kept /\ i + 1 \notin {j \in DOMAIN s : s[j] \in Kept}
      BY <2>0, <3>1, <3>2
    <3>4. f[i] = NormStep(s, i, f[i - 1])
      BY <1>1, <3>1, NormsAt
    <3>5. f[i] = f[i - 1]
      BY <3>3, <3>4 DEF NormStep
    <3> QED BY <2>2, <3>1, <3>5
  <2>3. \A i \in m..Len(s) : i \in P
    <3> HIDE DEF P
    <3> QED BY <1>3, <2>0, <2>1, <2>2, AllAlong
  <2> QED BY <1>3, <2>0, <2>3
<1>6. f[m] = f[o] \o g[Len(w)]
  <2>1. \A i \in 1..Len(w) : f[o + i] = f[o] \o g[i]
    <3>1. Norms(s, f) /\ Norms(w, g)
      BY <1>1, <1>2
    <3>2. Follows(f, g, w, o)
      BY <3>1, InsideNorms
    <3> QED BY <3>2 DEF Follows
  <2> QED BY <1>3, <2>1
<1>7. <<>> \o g[Len(w)] = g[Len(w)]
  BY <1>3
<1> QED BY <1>1, <1>2, <1>4, <1>5, <1>6, <1>7

\* Every name that is not empty has a part between its outermost letters.
LEMMA HasTrimmed ==
  ASSUME NEW s \in Seq(Chars), NEW i \in DOMAIN s, s[i] \in Kept,
         NEW a, NEW b, a \in DOMAIN s, b \in DOMAIN s, s[a] \in Kept, s[b] \in Kept,
         \A j \in DOMAIN s : s[j] \in Kept => a <= j /\ j <= b
  PROVE  /\ SubSeq(s, a, b) \in Seq(Chars)
         /\ Inside(s, SubSeq(s, a, b), a - 1)
         /\ Normalize(s) = Normalize(SubSeq(s, a, b))
<1> DEFINE w == SubSeq(s, a, b)
<1>1. /\ a \in Nat /\ b \in Nat /\ 1 <= a /\ a <= b /\ b <= Len(s) /\ Len(s) \in Nat
  OBVIOUS
<1>2. w \in Seq(Chars) /\ Len(w) = (b - a) + 1 /\ \A k \in 1..Len(w) : w[k] = s[(a - 1) + k]
  BY <1>1
<1> HIDE DEF w
<1>3. Inside(s, w, a - 1)
  <2>1. a - 1 \in Nat /\ Len(w) >= 1 /\ (a - 1) + Len(w) <= Len(s)
    BY <1>1, <1>2
  <2>2. w[1] = s[a]
    <3>1. 1 \in 1..Len(w) /\ (a - 1) + 1 = a
      BY <1>1, <1>2
    <3> QED BY <1>2, <3>1
  <2>3. w[Len(w)] = s[b]
    <3>1. Len(w) \in 1..Len(w) /\ (a - 1) + Len(w) = b
      BY <1>1, <1>2
    <3> QED BY <1>2, <3>1
  <2> QED BY <1>2, <2>1, <2>2, <2>3 DEF Inside
<1>4. \A j \in DOMAIN s : s[j] \in Kept => a - 1 < j /\ j <= (a - 1) + Len(w)
  BY <1>1, <1>2
<1>5. Normalize(s) = Normalize(w)
  BY <1>2, <1>3, <1>4, TrimmedAlike
<1> QED BY <1>2, <1>3, <1>5 DEF w

LEMMA NothingKept ==
  ASSUME NEW s \in Seq(Chars), \A i \in DOMAIN s : s[i] \notin Kept
  PROVE  Normalize(s) = <<>>
<1>1. PICK f : Norms(s, f) /\ Normalize(s) = f[Len(s)]
  BY NormalizeNorms
<1> DEFINE P == {i \in 0..Len(s) : f[i] = <<>>}
<1>2. Len(s) \in Nat
  OBVIOUS
<1>3. 0 \in P
  BY <1>1, <1>2 DEF Norms
<1>4. ASSUME NEW i \in (0 + 1)..Len(s), i - 1 \in P PROVE i \in P
  <2>1. i \in DOMAIN s /\ s[i] \notin Kept /\ i \in 1..Len(s)
    BY <1>2
  <2>2. f[i] = NormStep(s, i, <<>>)
    BY <1>1, <1>4, <2>1, NormsAt
  <2> QED BY <2>1, <2>2 DEF NormStep
<1>5. \A i \in 0..Len(s) : i \in P
  <2> HIDE DEF P
  <2> QED BY <1>2, <1>3, <1>4, AllAlong
<1> QED BY <1>1, <1>2, <1>5

LEMMA Outermost ==
  ASSUME NEW S \in SUBSET Nat, S # {}, NEW n \in Nat, \A i \in S : i <= n
  PROVE  /\ Min(S) \in S /\ Max(S) \in S
         /\ \A i \in S : Min(S) <= i /\ i <= Max(S)
<1>1. \E i \in S : \A j \in S : i <= j
  BY Least
<1>2. \E i \in S : \A j \in S : i >= j
  <2> DEFINE f == [i \in S |-> n - i]
  <2>1. \A i \in S : f[i] \in Nat
    OBVIOUS
  <2> HIDE DEF f
  <2>2. PICK i \in S : \A j \in S : f[i] <= f[j]
    BY <2>1, LeastBy
  <2>3. \A j \in S : i >= j
    BY <2>2 DEF f
  <2> QED BY <2>3
<1>3. Min(S) \in S /\ \A j \in S : Min(S) <= j
  BY <1>1 DEF Min
<1>4. Max(S) \in S /\ \A j \in S : Max(S) >= j
  BY <1>2 DEF Max
<1> QED BY <1>3, <1>4

KeptIn(s) == {i \in DOMAIN s : s[i] \in Kept}

\* The part from the first to the last letter.
Trimmed(s) == SubSeq(s, Min(KeptIn(s)), Max(KeptIn(s)))

LEMMA TrimmedIsInside ==
  ASSUME NEW s \in Seq(Chars), Normalize(s) # <<>>
  PROVE  /\ Trimmed(s) \in Seq(Chars)
         /\ \E o : Inside(s, Trimmed(s), o)
         /\ Normalize(Trimmed(s)) = Normalize(s)
<1>1. KeptIn(s) \in SUBSET Nat /\ Len(s) \in Nat /\ \A i \in KeptIn(s) : i <= Len(s)
  BY DEF KeptIn
<1>2. KeptIn(s) # {}
  BY NothingKept DEF KeptIn
<1> DEFINE a == Min(KeptIn(s))
           b == Max(KeptIn(s))
<1>3. a \in KeptIn(s) /\ b \in KeptIn(s) /\ \A i \in KeptIn(s) : a <= i /\ i <= b
  BY <1>1, <1>2, Outermost
<1> HIDE DEF a, b
<1>4. /\ a \in DOMAIN s /\ b \in DOMAIN s /\ s[a] \in Kept /\ s[b] \in Kept
      /\ \A j \in DOMAIN s : s[j] \in Kept => a <= j /\ j <= b
  BY <1>3 DEF KeptIn
<1>5. /\ SubSeq(s, a, b) \in Seq(Chars)
      /\ Inside(s, SubSeq(s, a, b), a - 1)
      /\ Normalize(s) = Normalize(SubSeq(s, a, b))
  BY <1>4, HasTrimmed
<1> QED BY <1>5 DEF Trimmed, a, b

\* Whatever surrounds a name, it is found in one piece.
LEMMA SurroundedIsWithin ==
  ASSUME NEW s \in Seq(Chars), Normalize(s) # <<>>, NEW x \in Seq(Chars), NEW y \in Seq(Chars)
  PROVE  /\ (x \o s) \o y \in Seq(Chars)
         /\ Within(Normalize((x \o s) \o y), Normalize(s))
<1> DEFINE w == Trimmed(s)
           all == (x \o s) \o y
<1>1. w \in Seq(Chars) /\ Normalize(w) = Normalize(s)
  BY TrimmedIsInside
<1>2. PICK o : Inside(s, w, o)
  BY TrimmedIsInside
<1>3. /\ all \in Seq(Chars) /\ Len(all) = Len(x) + Len(s) + Len(y)
      /\ Len(x) \in Nat /\ Len(s) \in Nat /\ Len(y) \in Nat
      /\ \A i \in 1..Len(s) : all[Len(x) + i] = s[i]
  OBVIOUS
<1> HIDE DEF w, all
<1>4. Inside(all, w, Len(x) + o)
  <2>0. o \in Nat /\ Len(w) \in Nat /\ Len(w) >= 1 /\ o + Len(w) <= Len(s)
    BY <1>1, <1>2 DEF Inside
  <2>1. Len(x) + o \in Nat /\ (Len(x) + o) + Len(w) <= Len(all)
    BY <1>3, <2>0
  <2>2. ASSUME NEW i \in 1..Len(w) PROVE w[i] = all[(Len(x) + o) + i]
    <3>1. o + i \in 1..Len(s) /\ (Len(x) + o) + i = Len(x) + (o + i)
      BY <1>3, <2>0
    <3>2. w[i] = s[o + i]
      BY <1>2 DEF Inside
    <3> QED BY <1>3, <3>1, <3>2
  <2> QED BY <1>2, <2>0, <2>1, <2>2 DEF Inside
<1>5. Within(Normalize(all), Normalize(w))
  BY <1>1, <1>3, <1>4, InsideIsWithin
<1> QED BY <1>1, <1>3, <1>5 DEF all

----------------------------------------------------------------------------
(* A normalized name is its own.                                           *)

Separator == " "

\* Separators stand one at a time, between letters.
Tidy(p) ==
  p # <<>> =>
    /\ p[1] \in Kept
    /\ \A j \in 1..Len(p) :
         \/ p[j] \in Kept
         \/ p[j] = Separator /\ j + 1 \in 1..Len(p) /\ p[j + 1] \in Kept

LEMMA TidyAppend ==
  ASSUME NEW p \in Seq(Chars), Tidy(p), NEW c \in Chars, c \in Kept
  PROVE  Tidy(Append(p, c))
<1> DEFINE q == Append(p, c)
<1>1. /\ Len(p) \in Nat /\ Len(q) = Len(p) + 1 /\ q[Len(p) + 1] = c
      /\ \A j \in 1..Len(p) : q[j] = p[j]
  OBVIOUS
<1>2. p # <<>> => Len(p) >= 1
  OBVIOUS
<1>3. p = <<>> => Len(p) = 0
  OBVIOUS
<1> HIDE DEF q
<1>4. q[1] \in Kept
  <2>1. CASE p = <<>>
    BY <1>1, <1>3, <2>1
  <2>2. CASE p # <<>>
    <3>1. p[1] \in Kept
      BY <2>2 DEF Tidy
    <3>2. 1 \in 1..Len(p)
      BY <1>1, <1>2, <2>2
    <3> QED BY <1>1, <3>1, <3>2
  <2> QED BY <2>1, <2>2
<1>5. ASSUME NEW j \in 1..Len(q)
      PROVE  q[j] \in Kept \/ (q[j] = Separator /\ j + 1 \in 1..Len(q) /\ q[j + 1] \in Kept)
  <2>1. CASE j = Len(p) + 1
    BY <1>1, <2>1
  <2>2. CASE j # Len(p) + 1
    <3>1. j \in 1..Len(p) /\ p # <<>>
      BY <1>1, <1>3, <2>2
    <3>2. p[j] \in Kept \/ (p[j] = Separator /\ j + 1 \in 1..Len(p) /\ p[j + 1] \in Kept)
      BY <3>1 DEF Tidy
    <3>3. q[j] = p[j] /\ \A k \in 1..Len(p) : k \in 1..Len(q) /\ q[k] = p[k]
      BY <1>1, <3>1
    <3> QED BY <3>2, <3>3
  <2> QED BY <2>1, <2>2
<1>6. Tidy(q)
  BY <1>4, <1>5 DEF Tidy
<1> QED BY <1>6 DEF q

LEMMA TidyTwoMore ==
  ASSUME NEW p \in Seq(Chars), Tidy(p), p # <<>>, NEW c \in Chars, c \in Kept
  PROVE  Tidy(Append(Append(p, Separator), c))
<1> DEFINE q == Append(Append(p, Separator), c)
<1>0. Separator \in Chars
  BY DEF Chars, Separator
<1>1. /\ Len(p) \in Nat /\ Len(p) >= 1 /\ Len(q) = Len(p) + 2
      /\ q[Len(p) + 1] = Separator /\ q[Len(p) + 2] = c
      /\ \A j \in 1..Len(p) : q[j] = p[j]
  <2> DEFINE a == Append(p, Separator)
  <2>1. /\ a \in Seq(Chars) /\ Len(p) \in Nat /\ Len(p) >= 1 /\ Len(a) = Len(p) + 1
        /\ a[Len(p) + 1] = Separator /\ \A j \in 1..Len(p) : a[j] = p[j]
    BY <1>0
  <2> HIDE DEF a
  <2>2. /\ Len(Append(a, c)) = Len(a) + 1 /\ Append(a, c)[Len(a) + 1] = c
        /\ \A j \in 1..Len(a) : Append(a, c)[j] = a[j]
    BY <2>1
  <2>3. Len(p) + 1 \in 1..Len(a) /\ \A j \in 1..Len(p) : j \in 1..Len(a)
    BY <2>1
  <2>4. (Len(p) + 1) + 1 = Len(p) + 2
    BY <2>1
  <2>5. q = Append(a, c)
    BY DEF a
  <2> HIDE DEF q
  <2> QED BY <2>1, <2>2, <2>3, <2>4, <2>5
<1> HIDE DEF q
<1>2. q[1] \in Kept
  <2>1. p[1] \in Kept
    BY DEF Tidy
  <2>2. 1 \in 1..Len(p)
    BY <1>1
  <2> QED BY <1>1, <2>1, <2>2
<1>3. ASSUME NEW j \in 1..Len(q)
      PROVE  q[j] \in Kept \/ (q[j] = Separator /\ j + 1 \in 1..Len(q) /\ q[j + 1] \in Kept)
  <2>1. CASE j = Len(p) + 2
    BY <1>1, <2>1
  <2>2. CASE j = Len(p) + 1
    <3>1. j + 1 = Len(p) + 2
      BY <1>1, <2>2
    <3> QED BY <1>1, <2>2, <3>1
  <2>3. CASE j # Len(p) + 1 /\ j # Len(p) + 2
    <3>1. j \in 1..Len(p)
      BY <1>1, <2>3
    <3>2. p[j] \in Kept \/ (p[j] = Separator /\ j + 1 \in 1..Len(p) /\ p[j + 1] \in Kept)
      BY <3>1 DEF Tidy
    <3>3. q[j] = p[j] /\ \A k \in 1..Len(p) : k \in 1..Len(q) /\ q[k] = p[k]
      BY <1>1, <3>1
    <3> QED BY <3>2, <3>3
  <2> QED BY <2>1, <2>2, <2>3
<1>4. Tidy(q)
  BY <1>2, <1>3 DEF Tidy
<1> QED BY <1>4 DEF q

\* Within a name a separator is written only before the letter it precedes.
Pending(s, i, name) ==
  /\ i + 1 \in KeptIn(s)
  /\ \E q \in Seq(Chars) : q # <<>> /\ Tidy(q) /\ name = Append(q, Separator)

LEMMA NormalizedIsTidy ==
  ASSUME NEW s \in Seq(Chars)
  PROVE  Normalize(s) \in Seq(Chars) /\ Tidy(Normalize(s))
<1>1. PICK f : Norms(s, f) /\ Normalize(s) = f[Len(s)]
  BY NormalizeNorms
<1> DEFINE P == {i \in 0..Len(s) : Tidy(f[i]) \/ Pending(s, i, f[i])}
<1>2. Len(s) \in Nat /\ Len(s) \in 0..Len(s)
  OBVIOUS
<1>3. 0 \in P
  <2>1. Tidy(f[0]) /\ 0 \in 0..Len(s)
    BY <1>1, <1>2 DEF Norms, Tidy
  <2> QED BY <2>1, Zenon
<1>4. ASSUME NEW i \in (0 + 1)..Len(s), i - 1 \in P PROVE i \in P
  <2>1. /\ f[i] = NormStep(s, i, f[i - 1]) /\ f[i - 1] \in Seq(Chars)
        /\ s[i] \in Chars /\ i \in 0..Len(s) /\ i \in DOMAIN s /\ (i - 1) + 1 = i
    BY <1>1, <1>2, NormsAt
  <2>2. Tidy(f[i - 1]) \/ Pending(s, i - 1, f[i - 1])
    BY <1>4
  <2>3. Tidy(f[i]) \/ Pending(s, i, f[i])
    <3>1. CASE s[i] \in Kept /\ Tidy(f[i - 1])
      BY <2>1, <3>1, TidyAppend DEF NormStep
    <3>2. CASE s[i] \in Kept /\ Pending(s, i - 1, f[i - 1])
      <4>1. PICK q \in Seq(Chars) : q # <<>> /\ Tidy(q) /\ f[i - 1] = Append(q, Separator)
        BY <3>2 DEF Pending
      <4>2. f[i] = Append(Append(q, Separator), s[i])
        BY <2>1, <3>2, <4>1 DEF NormStep
      <4> QED BY <2>1, <3>2, <4>1, <4>2, TidyTwoMore
    <3>3. CASE s[i] \notin Kept
      <4>1. Tidy(f[i - 1])
        BY <2>1, <2>2, <3>3 DEF Pending, KeptIn
      <4>2. CASE i + 1 \in KeptIn(s) /\ f[i - 1] # <<>>
        <5>1. f[i] = Append(f[i - 1], Separator)
          BY <2>1, <3>3, <4>2 DEF NormStep, KeptIn, Separator
        <5> QED BY <2>1, <4>1, <4>2, <5>1 DEF Pending
      <4>3. CASE ~(i + 1 \in KeptIn(s) /\ f[i - 1] # <<>>)
        <5>1. f[i] = f[i - 1]
          BY <2>1, <3>3, <4>3 DEF NormStep, KeptIn
        <5> QED BY <4>1, <5>1
      <4> QED BY <4>2, <4>3
    <3> QED BY <2>2, <3>1, <3>2, <3>3
  <2> QED BY <2>1, <2>3
<1>5. \A i \in 0..Len(s) : i \in P
  <2> HIDE DEF P
  <2> QED BY <1>2, <1>3, <1>4, AllAlong
<1>6. Tidy(f[Len(s)]) \/ Pending(s, Len(s), f[Len(s)])
  BY <1>2, <1>5
<1>7. Len(s) + 1 \notin KeptIn(s)
  BY <1>2 DEF KeptIn
<1>8. f[Len(s)] \in Seq(Chars)
  BY <1>1, <1>2 DEF Norms
<1> QED BY <1>1, <1>6, <1>7, <1>8 DEF Pending

LEMMA OneMore ==
  ASSUME NEW p \in Seq(Chars), NEW i \in 1..Len(p)
  PROVE  /\ Append(SubSeq(p, 1, i - 1), p[i]) = SubSeq(p, 1, i)
         /\ i > 1 => SubSeq(p, 1, i - 1) # <<>>
<1> DEFINE a == SubSeq(p, 1, i - 1)
           b == SubSeq(p, 1, i)
<1>1. i \in Nat /\ Len(p) \in Nat /\ 1 <= i /\ i <= Len(p) /\ p[i] \in Chars
  OBVIOUS
<1>2. a \in Seq(Chars) /\ Len(a) = i - 1 /\ \A k \in 1..(i - 1) : a[k] = p[k]
  BY <1>1
<1>3. b \in Seq(Chars) /\ Len(b) = i /\ \A k \in 1..i : b[k] = p[k]
  BY <1>1
<1> HIDE DEF a, b
<1>4. /\ Append(a, p[i]) \in Seq(Chars) /\ Len(Append(a, p[i])) = i
      /\ \A k \in 1..i : Append(a, p[i])[k] = b[k]
  BY <1>1, <1>2, <1>3
<1>5. Append(a, p[i]) = b
  BY <1>3, <1>4
<1>6. i > 1 => a # <<>>
  BY <1>1, <1>2
<1> QED BY <1>5, <1>6 DEF a, b

LEMMA TidyStays ==
  ASSUME NEW p \in Seq(Chars), Tidy(p)
  PROVE  Normalize(p) = p
<1>1. PICK f : Norms(p, f) /\ Normalize(p) = f[Len(p)]
  BY NormalizeNorms
<1> DEFINE P == {i \in 0..Len(p) : f[i] = SubSeq(p, 1, i)}
<1>2. Len(p) \in Nat /\ Len(p) \in 0..Len(p) /\ SubSeq(p, 1, Len(p)) = p /\ SubSeq(p, 1, 0) = <<>>
  OBVIOUS
<1>3. 0 \in P
  BY <1>1, <1>2 DEF Norms
<1>4. ASSUME NEW i \in (0 + 1)..Len(p), i - 1 \in P PROVE i \in P
  <2>1. /\ f[i] = NormStep(p, i, f[i - 1]) /\ p[i] \in Chars
        /\ i \in 0..Len(p) /\ i \in 1..Len(p) /\ p # <<>>
    BY <1>1, <1>2, NormsAt
  <2>2. f[i - 1] = SubSeq(p, 1, i - 1)
    BY <1>4
  <2>3. Append(f[i - 1], p[i]) = SubSeq(p, 1, i) /\ (i > 1 => f[i - 1] # <<>>)
    BY <2>1, <2>2, OneMore
  <2>4. f[i] = Append(f[i - 1], p[i])
    <3>1. CASE p[i] \in Kept
      BY <2>1, <3>1 DEF NormStep
    <3>2. CASE p[i] \notin Kept
      <4>1. p[i] = Separator /\ i + 1 \in 1..Len(p) /\ p[i + 1] \in Kept /\ i # 1
        BY <2>1, <3>2 DEF Tidy
      <4>2. i + 1 \in {j \in DOMAIN p : p[j] \in Kept}
        BY <4>1
      <4>3. f[i - 1] # <<>>
        BY <2>1, <2>3, <4>1
      <4>4. f[i] = Append(f[i - 1], Separator)
        BY <2>1, <3>2, <4>2, <4>3 DEF NormStep, Separator
      <4> QED BY <4>1, <4>4
    <3> QED BY <3>1, <3>2
  <2> QED BY <2>1, <2>3, <2>4
<1>5. \A i \in 0..Len(p) : i \in P
  <2> HIDE DEF P
  <2> QED BY <1>2, <1>3, <1>4, AllAlong
<1> QED BY <1>1, <1>2, <1>5

\* A rule's pattern, which is a normalized name, is compared as it is.
LEMMA NormalizedStays ==
  ASSUME NEW s \in Seq(Chars)
  PROVE  Normalize(Normalize(s)) = Normalize(s)
BY NormalizedIsTidy, TidyStays

----------------------------------------------------------------------------
(* Names with their separators doubled.                                    *)

DoubleStep(s, i, q) == q \o (IF i \in KeptIn(s) THEN <<s[i]>> ELSE <<s[i], s[i]>>)

\* t has the doubled names of s, up to each of its places.
Doubles(s, t) ==
  /\ t \in [0..Len(s) -> Seq(Chars)]
  /\ t[0] = <<>>
  /\ \A i \in 1..Len(s) : t[i] = DoubleStep(s, i, t[i - 1])

Doubled(s) ==
  LET kept    == {i \in DOMAIN s : s[i] \in Kept}
      twice[i \in 0..Len(s)] ==
        IF i = 0 THEN <<>>
        ELSE twice[i - 1] \o (IF i \in kept THEN <<s[i]>> ELSE <<s[i], s[i]>>)
  IN twice[Len(s)]

LEMMA DoubledDoubles ==
  ASSUME NEW s \in Seq(Chars)
  PROVE  \E t : Doubles(s, t) /\ Doubled(s) = t[Len(s)]
<1> DEFINE n == Len(s)
           Q == Seq(Chars)
           st == [i \in 1..n |-> [q \in Q |-> DoubleStep(s, i, q)]]
<1>0. n \in Nat
  OBVIOUS
<1>1. st \in [1..n -> [Q -> Q]]
  <2>1. ASSUME NEW i \in 1..n, NEW q \in Q PROVE DoubleStep(s, i, q) \in Q
    <3>1. s[i] \in Chars
      OBVIOUS
    <3>2. <<s[i]>> \in Q /\ <<s[i], s[i]>> \in Q
      BY <3>1
    <3> QED BY <3>2 DEF DoubleStep
  <2> QED BY <2>1
<1>2. \A i \in 1..n, q \in Q : st[i][q] = DoubleStep(s, i, q)
  OBVIOUS
<1>3. <<>> \in Q
  OBVIOUS
<1>4. PICK f : Walks(f, n, Q, <<>>, st)
  <2> HIDE DEF n, Q, st
  <2> QED BY <1>0, <1>1, <1>3, WalkExists
<1>5. Doubles(s, f)
  <2>1. ASSUME NEW i \in 1..n PROVE f[i] = DoubleStep(s, i, f[i - 1])
    <3>1. f[i] = st[i][f[i - 1]] /\ f[i - 1] \in Q
      <4> HIDE DEF n, Q, st
      <4> QED BY <1>0, <1>4 DEF Walks
    <3> QED BY <1>2, <3>1
  <2> QED BY <1>4, <2>1 DEF Walks, Doubles
<1> DEFINE rec(g) == g = [i \in 0..Len(s) |->
                        IF i = 0 THEN <<>> ELSE DoubleStep(s, i, g[i - 1])]
           h == CHOOSE g : rec(g)
<1>6. rec(f)
  <2>1. f = [i \in 0..Len(s) |-> f[i]]
    BY <1>5 DEF Doubles
  <2>2. \A i \in 0..Len(s) : f[i] = IF i = 0 THEN <<>> ELSE DoubleStep(s, i, f[i - 1])
    BY <1>5 DEF Doubles
  <2> QED BY <2>1, <2>2
<1>7. Doubled(s) = h[Len(s)]
  BY DEF Doubled, DoubleStep, KeptIn
<1>8. rec(h)
  <2> HIDE DEF rec
  <2> QED BY <1>6
<1>9. \A i \in 0..n : h[i] = f[i]
  <2> DEFINE P == {i \in 0..n : h[i] = f[i]}
  <2>1. \A i \in 0..n : h[i] = IF i = 0 THEN <<>> ELSE DoubleStep(s, i, h[i - 1])
    <3> HIDE DEF h
    <3> QED BY <1>8
  <2> HIDE DEF h
  <2>2. 0 \in P
    BY <2>1, <1>5 DEF Doubles
  <2>3. ASSUME NEW i \in (0 + 1)..n, i - 1 \in P PROVE i \in P
    <3>1. h[i] = DoubleStep(s, i, h[i - 1])
      BY <2>1
    <3>2. f[i] = DoubleStep(s, i, f[i - 1])
      BY <1>5 DEF Doubles
    <3> QED BY <2>3, <3>1, <3>2
  <2> HIDE DEF P
  <2>4. \A i \in 0..n : i \in P
    BY <1>0, <2>2, <2>3, AllAlong
  <2> QED BY <2>4 DEF P
<1>10. h[n] = f[n]
  BY <1>0, <1>9
<1> QED BY <1>5, <1>7, <1>10

LEMMA Joined ==
  ASSUME NEW x \in Seq(Chars), NEW y \in Seq(Chars), NEW z \in Seq(Chars)
  PROVE  (x \o y) \o z = x \o (y \o z) /\ y \o z \in Seq(Chars)
<1> DEFINE a == (x \o y) \o z
           b == x \o (y \o z)
<1>1. a \in Seq(Chars) /\ b \in Seq(Chars) /\ Len(a) = Len(b)
  OBVIOUS
<1>2. \A i \in 1..Len(a) : a[i] = b[i]
  <2> SUFFICES ASSUME NEW i \in 1..Len(a)
               PROVE  a[i] = b[i]
    OBVIOUS
  <2>1. CASE i <= Len(x)
    BY <2>1
  <2>2. CASE i > Len(x) /\ i <= Len(x) + Len(y)
    BY <2>2
  <2>3. CASE i > Len(x) + Len(y)
    BY <2>3
  <2> QED BY <1>1, <2>1, <2>2, <2>3
<1> HIDE DEF a, b
<1>3. a = [i \in 1..Len(a) |-> a[i]] /\ b = [i \in 1..Len(a) |-> b[i]]
  BY <1>1
<1>4. a = b
  BY <1>2, <1>3
<1> QED BY <1>4 DEF a, b

Regroups(x, y, z) == (x \o y) \o z = x \o (y \o z) /\ y \o z \in Seq(Chars)

LEMMA JoinedAny == \A x, y, z \in Seq(Chars) : Regroups(x, y, z)
BY Joined DEF Regroups

\* The doubled name up to a place begins the whole.
LEMMA DoublesGrow ==
  ASSUME NEW s \in Seq(Chars), NEW t, Doubles(s, t), NEW i \in 0..Len(s)
  PROVE  \E y \in Seq(Chars) : t[Len(s)] = t[i] \o y
<1> DEFINE P == {j \in i..Len(s) : \E y \in Seq(Chars) : t[j] = t[i] \o y}
<1>1. Len(s) \in Nat /\ i \in Nat /\ i <= Len(s) /\ t[i] \in Seq(Chars)
  BY DEF Doubles
<1>2. i \in P
  <2>1. t[i] = t[i] \o <<>> /\ <<>> \in Seq(Chars)
    BY <1>1
  <2>2. \E y \in Seq(Chars) : t[i] = t[i] \o y
    BY <2>1
  <2>3. i \in i..Len(s)
    BY <1>1
  <2> QED BY <2>2, <2>3
<1>3. ASSUME NEW j \in (i + 1)..Len(s), j - 1 \in P PROVE j \in P
  <2>1. PICK y \in Seq(Chars) : t[j - 1] = t[i] \o y
    BY <1>3
  <2>2. t[j] = DoubleStep(s, j, t[j - 1]) /\ s[j] \in Chars
    <3>1. j \in 1..Len(s)
      BY <1>1
    <3> QED BY <3>1 DEF Doubles
  <2>3. PICK z \in Seq(Chars) : t[j] = (t[i] \o y) \o z
    <3>1. <<s[j]>> \in Seq(Chars) /\ <<s[j], s[j]>> \in Seq(Chars)
      BY <2>2
    <3> QED BY <2>1, <2>2, <3>1 DEF DoubleStep
  <2>4. t[j] = t[i] \o (y \o z) /\ y \o z \in Seq(Chars)
    <3>1. Regroups(t[i], y, z)
      BY <1>1, JoinedAny
    <3> QED BY ONLY <2>3, <3>1, Zenon DEF Regroups
  <2>5. \E x \in Seq(Chars) : t[j] = t[i] \o x
    BY <2>4
  <2>6. j \in i..Len(s)
    BY <1>1
  <2> QED BY <2>5, <2>6, Zenon
<1>4. \A j \in i..Len(s) : j \in P
  <2> HIDE DEF P
  <2> QED BY <1>1, <1>2, <1>3, AllAlong
<1>5. Len(s) \in P
  <2>1. Len(s) \in i..Len(s)
    BY <1>1
  <2> QED BY <1>4, <2>1
<1> QED BY <1>5

\* Where a character stands in the doubled name.
\* What all has after its first l characters: the character of s at i, twice
\* where it is not kept; next is the length up to there.
DoubledAt(s, i, all, l, next) ==
  /\ l \in Nat
  /\ l + 1 \in 1..Len(all) /\ all[l + 1] = s[i]
  /\ i \in KeptIn(s) => next = l + 1
  /\ i \notin KeptIn(s) => next = l + 2 /\ l + 2 \in 1..Len(all) /\ all[l + 2] = s[i]

LEMMA DoublesAt ==
  ASSUME NEW s \in Seq(Chars), NEW t, Doubles(s, t), NEW i \in 1..Len(s)
  PROVE  DoubledAt(s, i, t[Len(s)], Len(t[i - 1]), Len(t[i]))
<1> USE DEF DoubledAt
<1> DEFINE l == Len(t[i - 1])
           all == t[Len(s)]
           z == IF i \in KeptIn(s) THEN <<s[i]>> ELSE <<s[i], s[i]>>
<1>1. /\ t[i] = t[i - 1] \o z /\ t[i - 1] \in Seq(Chars) /\ t[i] \in Seq(Chars)
      /\ s[i] \in Chars /\ i \in 0..Len(s)
  <2>1. i \in 0..Len(s) /\ i - 1 \in 0..Len(s) /\ s[i] \in Chars
    OBVIOUS
  <2>2. t[i] = t[i - 1] \o z
    BY DEF Doubles, DoubleStep
  <2> QED BY <2>1, <2>2 DEF Doubles
<1>2. PICK y \in Seq(Chars) : all = t[i] \o y
  BY <1>1, DoublesGrow
<1>3. z \in Seq(Chars) /\ z[1] = s[i] /\ Len(z) \in Nat /\ Len(z) >= 1
  BY <1>1
<1>4. i \in KeptIn(s) => Len(z) = 1
  BY <1>1
<1>5. i \notin KeptIn(s) => Len(z) = 2 /\ z[2] = s[i]
  BY <1>1
<1> HIDE DEF z, all
<1>6. /\ l \in Nat /\ Len(t[i]) = l + Len(z) /\ Len(all) = (l + Len(z)) + Len(y) /\ Len(y) \in Nat
      /\ \A k \in 1..Len(z) : all[l + k] = z[k]
  BY <1>1, <1>2, <1>3
<1> HIDE DEF l
<1>7. l + 1 \in 1..Len(all) /\ all[l + 1] = s[i]
  BY <1>3, <1>6
<1>8. ASSUME i \notin KeptIn(s)
      PROVE  Len(t[i]) = l + 2 /\ l + 2 \in 1..Len(all) /\ all[l + 2] = s[i]
  <2>1. Len(z) = 2 /\ z[2] = s[i]
    BY <1>5, <1>8, Zenon
  <2>2. 2 \in 1..Len(z)
    BY <2>1
  <2>3. Len(t[i]) = l + 2 /\ all[l + 2] = s[i]
    BY <1>6, <2>1, <2>2
  <2> QED BY <1>6, <2>1, <2>3
<1>9. i \in KeptIn(s) => Len(t[i]) = l + 1
  BY <1>4, <1>6
<1> QED BY <1>6, <1>7, <1>8, <1>9 DEF l, all

\* Doubled separators do not matter.
LEMMA DoubledAlike ==
  ASSUME NEW s \in Seq(Chars)
  PROVE  Doubled(s) \in Seq(Chars) /\ Normalize(Doubled(s)) = Normalize(s)
<1>1. PICK t : Doubles(s, t) /\ Doubled(s) = t[Len(s)]
  BY DoubledDoubles
<1> DEFINE all == t[Len(s)]
<1>2. Len(s) \in Nat /\ Len(s) \in 0..Len(s) /\ all \in Seq(Chars)
  BY <1>1 DEF Doubles
<1>3. PICK f : Norms(s, f) /\ Normalize(s) = f[Len(s)]
  BY NormalizeNorms
<1>4. PICK g : Norms(all, g) /\ Normalize(all) = g[Len(all)]
  BY <1>2, NormalizeNorms
<1> HIDE DEF all
<1> DEFINE P == {i \in 0..Len(s) : g[Len(t[i])] = f[i]}
<1>5. 0 \in P
  <2>1. t[0] = <<>> /\ Len(t[0]) = 0 /\ f[0] = <<>> /\ g[0] = <<>> /\ 0 \in 0..Len(s)
    BY <1>1, <1>2, <1>3, <1>4 DEF Doubles, Norms
  <2> QED BY <2>1
<1>6. ASSUME NEW i \in (0 + 1)..Len(s), i - 1 \in P PROVE i \in P
  <2> DEFINE l == Len(t[i - 1])
  <2>1. i \in 1..Len(s) /\ i \in 0..Len(s) /\ i \in DOMAIN s
    BY <1>2
  <2>2. /\ l \in Nat
        /\ l + 1 \in 1..Len(all) /\ all[l + 1] = s[i]
        /\ i \in KeptIn(s) => Len(t[i]) = l + 1
        /\ i \notin KeptIn(s) =>
             Len(t[i]) = l + 2 /\ l + 2 \in 1..Len(all) /\ all[l + 2] = s[i]
    <3>1. DoubledAt(s, i, t[Len(s)], Len(t[i - 1]), Len(t[i]))
      BY <1>1, <2>1, DoublesAt
    <3> QED BY <3>1, Zenon DEF DoubledAt, all
  <2>3. i \in KeptIn(s) <=> s[i] \in Kept
    BY <2>1 DEF KeptIn
  <2>4. f[i] = NormStep(s, i, f[i - 1]) /\ f[i - 1] = g[l]
    BY <1>3, <1>6, <2>1, NormsAt
  <2> HIDE DEF l, P
  <2>5. g[l + 1] = NormStep(all, l + 1, g[l])
    <3> DEFINE k == l + 1
    <3>1. k \in 1..Len(all) /\ k - 1 = l
      BY <2>2
    <3> HIDE DEF k
    <3>2. g[k] = NormStep(all, k, g[k - 1])
      BY <1>2, <1>4, <3>1, NormsAt
    <3> QED BY <3>1, <3>2 DEF k
  <2>6. g[Len(t[i])] = f[i]
    <3>1. CASE i \in KeptIn(s)
      <4>1. f[i] = Append(g[l], s[i])
        BY <2>3, <2>4, <3>1 DEF NormStep
      <4>2. g[l + 1] = Append(g[l], s[i])
        BY <2>2, <2>3, <2>5, <3>1 DEF NormStep
      <4> QED BY <2>2, <3>1, <4>1, <4>2
    <3>2. CASE i \notin KeptIn(s)
      <4> DEFINE m == Len(t[i])
      <4>1. m = l + 2 /\ m \in 1..Len(all) /\ all[m] = s[i] /\ (l + 1) + 1 = m /\ m - 1 = l + 1
        BY <2>2, <3>2
      <4>2. m \notin KeptIn(all)
        BY <2>3, <3>2, <4>1 DEF KeptIn
      <4>3. l + 1 \notin KeptIn(all)
        BY <2>2, <2>3, <3>2 DEF KeptIn
      <4>4. i + 1 \in KeptIn(s) <=> m + 1 \in KeptIn(all)
        <5>1. CASE i = Len(s)
          <6>1. m = Len(all) /\ Len(all) \in Nat
            BY <1>2, <5>1 DEF all
          <6>2. i + 1 \notin DOMAIN s /\ m + 1 \notin DOMAIN all
            BY <1>2, <5>1, <6>1
          <6> QED BY <6>2 DEF KeptIn
        <5>2. CASE i # Len(s)
          <6> DEFINE j == i + 1
          <6>1. j \in 1..Len(s) /\ j - 1 = i
            BY <1>2, <2>1, <5>2
          <6> HIDE DEF j
          <6>2. m + 1 \in 1..Len(all) /\ all[m + 1] = s[j]
            <7>1. DoubledAt(s, j, t[Len(s)], Len(t[j - 1]), Len(t[j]))
              BY <1>1, <6>1, DoublesAt
            <7> QED BY <6>1, <7>1 DEF DoubledAt, all
          <6>3. j \in KeptIn(s) <=> m + 1 \in KeptIn(all)
            <7>1. j \in DOMAIN s /\ m + 1 \in DOMAIN all
              BY <1>2, <6>1, <6>2
            <7> QED BY <6>2, <7>1 DEF KeptIn
          <6> QED BY <6>3 DEF j
        <5> QED BY <5>1, <5>2
      <4> HIDE DEF m
      <4>5. g[m] = NormStep(all, m, g[m - 1])
        BY <1>2, <1>4, <4>1, NormsAt
      <4>6. g[m - 1] = g[l]
        <5>1. all[l + 1] \notin Kept /\ (l + 1) + 1 \notin {j \in DOMAIN all : all[j] \in Kept}
          BY <2>2, <2>3, <3>2, <4>1, <4>2 DEF KeptIn
        <5>2. g[l + 1] = g[l]
          BY <2>5, <5>1 DEF NormStep
        <5> QED BY <4>1, <5>2
      <4>7. s[i] \notin Kept /\ all[m] \notin Kept
        BY <2>3, <3>2, <4>1
      <4>8. CASE i + 1 \in KeptIn(s)
        <5>1. NormStep(s, i, g[l]) = NormStep(all, m, g[l])
          BY <4>4, <4>7, <4>8 DEF NormStep, KeptIn
        <5> QED BY <2>4, <4>5, <4>6, <5>1 DEF m
      <4>9. CASE i + 1 \notin KeptIn(s)
        <5>1. NormStep(s, i, g[l]) = NormStep(all, m, g[l])
          BY <4>4, <4>7, <4>9 DEF NormStep, KeptIn
        <5> QED BY <2>4, <4>5, <4>6, <5>1 DEF m
      <4> QED BY <4>8, <4>9
    <3> QED BY <3>1, <3>2
  <2> QED BY <2>1, <2>6 DEF P
<1>7. \A i \in 0..Len(s) : i \in P
  <2> HIDE DEF P
  <2> QED BY <1>2, <1>5, <1>6, AllAlong
<1>8. g[Len(all)] = f[Len(s)]
  BY <1>2, <1>7 DEF all
<1> QED BY <1>1, <1>2, <1>3, <1>4, <1>8 DEF all

----------------------------------------------------------------------------
(* Corrections.                                                            *)

LEMMA RespelledAlike ==
  ASSUME NEW d \in Seq(Chars), Normalize(d) # <<>>, NEW s \in Respelled(d)
  PROVE  s \in Seq(Chars) /\ Normalize(s) = Normalize(d)
<1>1. Respelled(d) = {Trimmed(d), Doubled(d)}
  BY DEF Respelled, Trimmed, Doubled, KeptIn
<1>2. s = Trimmed(d) \/ s = Doubled(d)
  BY <1>1
<1> QED BY <1>2, TrimmedIsInside, DoubledAlike

\* A rule whose pattern is in the name decides, if it is the only one.
LEMMA OneRuleDecides ==
  ASSUME NEW d, NEW p, NEW c, Normalize(p) # <<>>, Normalize(d) # <<>>,
         Within(Normalize(d), Normalize(p))
  PROVE  CategorizeName(d, <<[pattern |-> p, category |-> c]>>) = {c}
<1> DEFINE rules == <<[pattern |-> p, category |-> c]>>
           ruled == {i \in DOMAIN rules :
                       Normalize(rules[i].pattern) # <<>>
                         /\ Within(Normalize(d), Normalize(rules[i].pattern))}
<1>1. DOMAIN rules = {1} /\ rules[1].pattern = p /\ rules[1].category = c
  OBVIOUS
<1> HIDE DEF rules
<1>2. ruled = {1}
  BY <1>1
<1>3. Min(ruled) = 1
  <2>1. ruled \in SUBSET Nat /\ ruled # {} /\ \A i \in ruled : i <= 1
    BY <1>2
  <2>2. Min(ruled) \in ruled
    BY <2>1, Outermost
  <2> QED BY <1>2, <2>2
<1>4. CategorizeName(d, rules) = {rules[Min(ruled)].category}
  <2>1. ruled # {}
    BY <1>2
  <2> QED BY <2>1 DEF CategorizeName
<1>5. CategorizeName(d, rules) = {c}
  BY <1>1, <1>3, <1>4
<1> QED BY <1>5 DEF rules

\* A correction applies to every later statement that names the merchant,
\* however its words are spaced and whatever character stands before or after
\* them (Normalize and the rules of Categorize in engine.go), for every
\* alphabet and descriptions of every length.
THEOREM RulesMeetEverySpelling == Spec => []CorrectionReaches
<1> DEFINE Names == description \in Seq(Characters)
<1>1. Init => Names
  BY DEF Init
<1>2. Names /\ [Next]_vars => Names'
  <2> SUFFICES ASSUME Names, [Next]_vars PROVE Names'
    OBVIOUS
  <2>1. CASE AnotherCharacter
    BY <2>1 DEF AnotherCharacter
  <2>2. CASE AnotherRow \/ AnotherEntry \/ UNCHANGED vars
    BY <2>2 DEF AnotherRow, AnotherEntry, vars
  <2> QED BY <2>1, <2>2 DEF Next
<1>3. Names => CorrectionReaches
  <2> SUFFICES ASSUME Names, Normalize(description) # <<>>,
                      NEW s \in Respelled(description),
                      NEW before \in {<<>>} \cup {<<c>> : c \in Characters},
                      NEW after \in {<<>>} \cup {<<c>> : c \in Characters}
               PROVE  CategorizeName(before \o s \o after,
                        <<[pattern |-> Normalize(description), category |-> "Corrected"]>>)
                        = {"Corrected"}
    BY DEF CorrectionReaches
  <2> DEFINE p == Normalize(description)
             d == (before \o s) \o after
  <2>1. description \in Seq(Chars) /\ before \in Seq(Chars) /\ after \in Seq(Chars)
    <3>1. Characters \subseteq Chars
      BY DEF Chars
    <3>2. description \in Seq(Chars)
      BY <3>1
    <3>3. <<>> \in Seq(Chars) /\ \A c \in Characters : <<c>> \in Seq(Chars)
      BY <3>1
    <3> QED BY <3>2, <3>3
  <2>2. s \in Seq(Chars) /\ Normalize(s) = p
    BY <2>1, RespelledAlike
  <2>3. Normalize(p) = p
    BY <2>1, NormalizedStays
  <2>4. d \in Seq(Chars) /\ Within(Normalize(d), p)
    BY <2>1, <2>2, SurroundedIsWithin
  <2>5. Normalize(d) # <<>>
    <3>1. p \in Seq(Chars) /\ p # <<>>
      BY <2>1, NormalizedIsTidy
    <3> HIDE DEF p, d
    <3>2. Len(p) \in Nat /\ Len(p) >= 1
      BY <3>1
    <3>3. PICK i \in 0..(Len(Normalize(d)) - Len(p)) :
            SubSeq(Normalize(d), i + 1, i + Len(p)) = p
      BY <2>4 DEF Within
    <3>4. Len(Normalize(d)) - Len(p) >= 0
      BY <3>3
    <3> SUFFICES ASSUME Normalize(d) = <<>> PROVE FALSE
      OBVIOUS
    <3>5. Len(Normalize(d)) = 0
      OBVIOUS
    <3> QED BY <3>2, <3>4, <3>5
  <2>6. Normalize(p) # <<>> /\ Within(Normalize(d), Normalize(p))
    BY <2>3, <2>4
  <2> HIDE DEF p, d
  <2>7. CategorizeName(d, <<[pattern |-> p, category |-> "Corrected"]>>) = {"Corrected"}
    BY <2>5, <2>6, OneRuleDecides
  <2> QED BY <2>7 DEF p, d
<1> QED BY <1>1, <1>2, <1>3, PTL DEF Spec

----------------------------------------------------------------------------
(* The edit distance.                                                      *)

\* The cell of the table after those above, before and between.
EditStep(x, y, above, before, between) ==
  Min({above + 1, before + 1, between + (IF x = y THEN 0 ELSE 1)})

LEMMA EditStepIs ==
  ASSUME NEW x, NEW y, NEW u \in Nat, NEW l \in Nat, NEW g \in Nat
  PROVE  LET v == EditStep(x, y, u, l, g)
         IN  /\ v \in Nat
             /\ v <= u + 1 /\ v <= l + 1 /\ v <= g + 1
             /\ x = y => v <= g
             /\ v = u + 1 \/ v = l + 1 \/ (x = y /\ v = g) \/ (x # y /\ v = g + 1)
<1> DEFINE e == IF x = y THEN 0 ELSE 1
           S == {u + 1, l + 1, g + e}
           n == u + l + g + 2
<1>1. e \in Nat /\ e <= 1
  OBVIOUS
<1>2. S \in SUBSET Nat /\ S # {}
  BY <1>1
<1>3. n \in Nat /\ \A i \in S : i <= n
  BY <1>1
<1>4. Min(S) \in S /\ \A i \in S : Min(S) <= i
  <2> HIDE DEF S, n
  <2> QED BY <1>2, <1>3, Outermost
<1>5. EditStep(x, y, u, l, g) = Min(S)
  BY DEF EditStep
<1> QED BY <1>1, <1>4, <1>5

\* curr is the row of x after the row prev.
Follow(i, x, b, prev, curr) ==
  /\ curr \in [0..Len(b) -> Nat]
  /\ curr[0] = i
  /\ \A j \in 1..Len(b) : curr[j] = EditStep(x, b[j], prev[j], curr[j - 1], prev[j - 1])

LEMMA NextRowFollows ==
  ASSUME NEW i \in Nat, NEW x, NEW b, Len(b) \in Nat, NEW prev \in [0..Len(b) -> Nat]
  PROVE  Follow(i, x, b, prev, NextRow(i, x, b, prev))
<1> DEFINE m == Len(b)
           st == [j \in 1..m |-> [c \in Nat |-> EditStep(x, b[j], prev[j], c, prev[j - 1])]]
<1>1. \A j \in 1..m, c \in Nat : EditStep(x, b[j], prev[j], c, prev[j - 1]) \in Nat
  <2> SUFFICES ASSUME NEW j \in 1..m, NEW c \in Nat
               PROVE  EditStep(x, b[j], prev[j], c, prev[j - 1]) \in Nat
    OBVIOUS
  <2>1. j \in 0..m /\ j - 1 \in 0..m
    OBVIOUS
  <2>2. prev[j] \in Nat /\ prev[j - 1] \in Nat
    BY <2>1
  <2> QED BY <2>2, EditStepIs
<1>2. st \in [1..m -> [Nat -> Nat]]
  BY <1>1
<1>3. PICK f : Walks(f, m, Nat, i, st)
  <2> HIDE DEF st, m
  <2>1. m \in Nat
    BY DEF m
  <2> QED BY <1>2, <2>1, WalkExists
<1>4. Follow(i, x, b, prev, f)
  <2>1. f \in [0..m -> Nat] /\ f[0] = i /\ \A j \in 1..m : f[j] = st[j][f[j - 1]]
    <3> HIDE DEF st
    <3> QED BY <1>3 DEF Walks
  <2>2. ASSUME NEW j \in 1..m
        PROVE  f[j] = EditStep(x, b[j], prev[j], f[j - 1], prev[j - 1])
    <3>1. j - 1 \in 0..m
      OBVIOUS
    <3>2. f[j - 1] \in Nat
      BY <2>1, <3>1
    <3> QED BY <2>1, <3>2
  <2> QED BY <2>1, <2>2 DEF Follow
<1> DEFINE rec(g) == g = [j \in 0..m |->
                        IF j = 0 THEN i ELSE EditStep(x, b[j], prev[j], g[j - 1], prev[j - 1])]
           h == CHOOSE g : rec(g)
<1>5. rec(f)
  <2>1. f = [j \in 0..m |-> f[j]]
    BY <1>4 DEF Follow
  <2>2. \A j \in 0..m : f[j] = IF j = 0 THEN i
                               ELSE EditStep(x, b[j], prev[j], f[j - 1], prev[j - 1])
    BY <1>4 DEF Follow
  <2> QED BY <2>1, <2>2
<1>6. NextRow(i, x, b, prev) = h
  BY DEF NextRow, EditStep
<1>7. rec(h)
  <2> HIDE DEF rec
  <2> QED BY <1>5
<1>8. \A j \in 0..m : h[j] = f[j]
  <2> DEFINE P == {j \in 0..m : h[j] = f[j]}
  <2>1. \A j \in 0..m : h[j] = IF j = 0 THEN i
                               ELSE EditStep(x, b[j], prev[j], h[j - 1], prev[j - 1])
    <3> HIDE DEF h
    <3> QED BY <1>7
  <2> HIDE DEF h
  <2>2. 0 \in P
    BY <2>1, <1>4 DEF Follow
  <2>3. ASSUME NEW j \in (0 + 1)..m, j - 1 \in P PROVE j \in P
    <3>1. h[j] = EditStep(x, b[j], prev[j], h[j - 1], prev[j - 1])
      BY <2>1
    <3>2. f[j] = EditStep(x, b[j], prev[j], f[j - 1], prev[j - 1])
      BY <1>4 DEF Follow
    <3> QED BY <2>3, <3>1, <3>2
  <2> HIDE DEF P
  <2>4. \A j \in 0..m : j \in P
    BY <2>2, <2>3, AllAlong
  <2> QED BY <2>4 DEF P
<1>9. h = f
  <2>1. h = [j \in 0..m |-> h[j]]
    <3> HIDE DEF h
    <3> QED BY <1>7
  <2>2. f = [j \in 0..m |-> f[j]]
    BY <1>4 DEF Follow
  <2> HIDE DEF h
  <2> QED BY <1>8, <2>1, <2>2
<1> HIDE DEF h
<1> QED BY <1>4, <1>6, <1>9

\* d has the distances between the beginnings of a and those of b.
Table(a, b, d) ==
  /\ d \in [0..Len(a) -> [0..Len(b) -> Nat]]
  /\ \A j \in 0..Len(b) : d[0][j] = j
  /\ \A i \in 1..Len(a) : Follow(i, a[i], b, d[i - 1], d[i])

LEMMA LevenshteinTable ==
  ASSUME NEW a, NEW b, Len(a) \in Nat, Len(b) \in Nat
  PROVE  \E d : Table(a, b, d) /\ Levenshtein(a, b) = d[Len(a)][Len(b)]
<1> DEFINE n == Len(a)
           m == Len(b)
           Q == [0..m -> Nat]
           q0 == [j \in 0..m |-> j]
           st == [i \in 1..n |-> [q \in Q |-> NextRow(i, a[i], b, q)]]
<1>1. \A i \in 1..n, q \in Q : NextRow(i, a[i], b, q) \in Q
  <2> SUFFICES ASSUME NEW i \in 1..n, NEW q \in Q PROVE NextRow(i, a[i], b, q) \in Q
    OBVIOUS
  <2>1. i \in Nat
    OBVIOUS
  <2>2. Follow(i, a[i], b, q, NextRow(i, a[i], b, q))
    BY <2>1, NextRowFollows
  <2> QED BY <2>2 DEF Follow
<1>2. st \in [1..n -> [Q -> Q]] /\ q0 \in Q
  <2>1. q0 \in Q
    OBVIOUS
  <2> HIDE DEF Q, q0
  <2> QED BY <1>1, <2>1
<1>3. PICK f : Walks(f, n, Q, q0, st)
  <2> HIDE DEF st, q0, n, Q
  <2>1. n \in Nat
    BY DEF n
  <2> QED BY <1>2, <2>1, WalkExists
<1>4. /\ f \in [0..n -> Q] /\ f[0] = q0
      /\ \A i \in 1..n : f[i] = NextRow(i, a[i], b, f[i - 1]) /\ f[i - 1] \in Q
  <2>1. f \in [0..n -> Q] /\ f[0] = q0 /\ \A i \in 1..n : f[i] = st[i][f[i - 1]]
    <3> HIDE DEF st, q0, Q
    <3> QED BY <1>3 DEF Walks
  <2>2. ASSUME NEW i \in 1..n PROVE f[i] = NextRow(i, a[i], b, f[i - 1]) /\ f[i - 1] \in Q
    <3>1. i - 1 \in 0..n
      OBVIOUS
    <3>2. f[i - 1] \in Q
      BY <2>1, <3>1
    <3>3. st[i][f[i - 1]] = NextRow(i, a[i], b, f[i - 1])
      <4> HIDE DEF Q
      <4> QED BY <3>2
    <3> QED BY <2>1, <3>2, <3>3
  <2> QED BY <2>1, <2>2
<1>5. Table(a, b, f)
  <2>1. \A j \in 0..m : f[0][j] = j
    BY <1>4
  <2>2. ASSUME NEW i \in 1..n PROVE Follow(i, a[i], b, f[i - 1], f[i])
    <3>1. i \in Nat /\ f[i - 1] \in Q /\ f[i] = NextRow(i, a[i], b, f[i - 1])
      BY <1>4
    <3> QED BY <3>1, NextRowFollows
  <2> QED BY <1>4, <2>1, <2>2 DEF Table
<1> DEFINE rec(g) == g = [i \in 0..n |-> IF i = 0 THEN q0 ELSE NextRow(i, a[i], b, g[i - 1])]
           h == CHOOSE g : rec(g)
<1>6. rec(f)
  <2>1. f = [i \in 0..n |-> f[i]]
    <3> HIDE DEF Q, q0
    <3> QED BY <1>4
  <2>2. \A i \in 0..n : f[i] = IF i = 0 THEN q0 ELSE NextRow(i, a[i], b, f[i - 1])
    <3> HIDE DEF Q, q0
    <3> QED BY <1>4
  <2> HIDE DEF q0
  <2> QED BY <2>1, <2>2
<1>7. Levenshtein(a, b) = h[n][m]
  BY DEF Levenshtein
<1>8. rec(h)
  <2> HIDE DEF rec
  <2> QED BY <1>6
<1>9. \A i \in 0..n : h[i] = f[i]
  <2> DEFINE P == {i \in 0..n : h[i] = f[i]}
  <2> HIDE DEF q0
  <2>1. \A i \in 0..n : h[i] = IF i = 0 THEN q0 ELSE NextRow(i, a[i], b, h[i - 1])
    <3> HIDE DEF h
    <3> QED BY <1>8
  <2> HIDE DEF h, Q
  <2>2. 0 \in P
    <3>1. 0 \in 0..n
      OBVIOUS
    <3> QED BY <2>1, <1>4, <3>1
  <2>3. ASSUME NEW i \in (0 + 1)..n, i - 1 \in P PROVE i \in P
    <3>0. i \in 0..n /\ i \in 1..n /\ i # 0
      OBVIOUS
    <3>1. h[i] = NextRow(i, a[i], b, h[i - 1])
      BY <2>1, <3>0
    <3>2. f[i] = NextRow(i, a[i], b, f[i - 1])
      BY <1>4, <3>0
    <3> QED BY <2>3, <3>0, <3>1, <3>2
  <2> HIDE DEF P
  <2>4. \A i \in 0..n : i \in P
    BY <2>2, <2>3, AllAlong
  <2> QED BY <2>4 DEF P
<1>10. h[n] = f[n]
  BY <1>9
<1> HIDE DEF h
<1> QED BY <1>5, <1>7, <1>10

\* w begins with v.
Begins(w, v) ==
  /\ Len(v) \in Nat /\ Len(w) \in Nat /\ Len(v) <= Len(w)
  /\ \A i \in 1..Len(v) : w[i] = v[i]

LEMMA FollowAt ==
  ASSUME NEW i, NEW x, NEW b, NEW prev, NEW curr, Follow(i, x, b, prev, curr), NEW j \in 1..Len(b)
  PROVE  curr[j] = EditStep(x, b[j], prev[j], curr[j - 1], prev[j - 1])
BY DEF Follow

LEMMA TablesAgree ==
  ASSUME NEW a, NEW b, NEW d, Table(a, b, d), NEW p, NEW q, NEW e, Table(p, q, e),
         Begins(p, a), Begins(q, b)
  PROVE  \A i \in 0..Len(a) : \A j \in 0..Len(b) : e[i][j] = d[i][j]
<1> DEFINE n == Len(a)
           m == Len(b)
           P == {i \in 0..n : \A j \in 0..m : e[i][j] = d[i][j]}
<1>0. /\ n \in Nat /\ m \in Nat /\ Len(p) \in Nat /\ Len(q) \in Nat
      /\ n <= Len(p) /\ m <= Len(q)
      /\ \A i \in 1..n : p[i] = a[i]
      /\ \A j \in 1..m : q[j] = b[j]
  BY DEF Begins
<1>1. 0 \in P
  <2>1. ASSUME NEW j \in 0..m PROVE e[0][j] = d[0][j]
    <3>1. j \in 0..Len(q)
      BY <1>0
    <3> QED BY <3>1 DEF Table
  <2>2. 0 \in 0..n
    BY <1>0
  <2> QED BY <2>1, <2>2
<1>2. ASSUME NEW i \in (0 + 1)..n, i - 1 \in P PROVE i \in P
  <2> DEFINE R == {j \in 0..m : e[i][j] = d[i][j]}
  <2>0. i \in 0..n /\ i \in 1..n /\ i \in 1..Len(p)
    BY <1>0
  <2>1. Follow(i, a[i], b, d[i - 1], d[i]) /\ Follow(i, a[i], q, e[i - 1], e[i])
    BY <1>0, <2>0 DEF Table
  <2>2. 0 \in R
    <3>1. 0 \in 0..m
      BY <1>0
    <3> QED BY <2>1, <3>1 DEF Follow
  <2>3. ASSUME NEW j \in (0 + 1)..m, j - 1 \in R PROVE j \in R
    <3>1. j \in 0..m /\ j \in 1..m /\ j \in 1..Len(q) /\ j - 1 \in 0..m
      BY <1>0
    <3>2. d[i][j] = EditStep(a[i], b[j], d[i - 1][j], d[i][j - 1], d[i - 1][j - 1])
      BY <2>1, <3>1, FollowAt
    <3>3. e[i][j] = EditStep(a[i], q[j], e[i - 1][j], e[i][j - 1], e[i - 1][j - 1])
      BY <2>1, <3>1, FollowAt
    <3>4. /\ e[i - 1][j] = d[i - 1][j] /\ e[i - 1][j - 1] = d[i - 1][j - 1]
          /\ e[i][j - 1] = d[i][j - 1] /\ q[j] = b[j]
      BY <1>0, <1>2, <2>3, <3>1
    <3> QED BY <3>1, <3>2, <3>3, <3>4
  <2>4. \A j \in 0..m : j \in R
    <3> HIDE DEF R
    <3> QED BY <1>0, <2>2, <2>3, AllAlong
  <2> QED BY <2>0, <2>4
<1> HIDE DEF P
<1>3. \A i \in 0..n : i \in P
  BY <1>0, <1>1, <1>2, AllAlong
<1> QED BY <1>3 DEF P

LEMMA DistanceInTable ==
  ASSUME NEW p, NEW q, NEW e, Table(p, q, e), NEW a, NEW b, Begins(p, a), Begins(q, b)
  PROVE  Levenshtein(a, b) = e[Len(a)][Len(b)]
<1>1. Len(a) \in Nat /\ Len(b) \in Nat
  BY DEF Begins
<1>2. PICK d : Table(a, b, d) /\ Levenshtein(a, b) = d[Len(a)][Len(b)]
  BY <1>1, LevenshteinTable
<1>3. Len(a) \in 0..Len(a) /\ Len(b) \in 0..Len(b)
  BY <1>1
<1>4. e[Len(a)][Len(b)] = d[Len(a)][Len(b)]
  BY <1>2, <1>3, TablesAgree
<1> QED BY <1>2, <1>4

LEMMA DistanceOfNone ==
  ASSUME NEW S, NEW a \in Seq(S)
  PROVE  Levenshtein(<<>>, a) = Len(a) /\ Levenshtein(a, <<>>) = Len(a)
<1>0. Len(a) \in Nat /\ Len(<<>>) = 0 /\ Len(a) \in 0..Len(a) /\ 0 \in 0..0
  OBVIOUS
<1>1. Levenshtein(<<>>, a) = Len(a)
  <2>1. PICK d : Table(<<>>, a, d) /\ Levenshtein(<<>>, a) = d[Len(<<>>)][Len(a)]
    BY <1>0, LevenshteinTable
  <2>2. d[0][Len(a)] = Len(a)
    BY <1>0, <2>1 DEF Table
  <2> QED BY <1>0, <2>1, <2>2
<1>2. Levenshtein(a, <<>>) = Len(a)
  <2>1. PICK d : Table(a, <<>>, d) /\ Levenshtein(a, <<>>) = d[Len(a)][Len(<<>>)]
    BY <1>0, LevenshteinTable
  <2>2. CASE Len(a) = 0
    BY <1>0, <2>1, <2>2 DEF Table
  <2>3. CASE Len(a) # 0
    <3>1. Len(a) \in 1..Len(a)
      BY <1>0, <2>3
    <3>2. d[Len(a)][0] = Len(a)
      BY <2>1, <3>1 DEF Table, Follow
    <3> QED BY <1>0, <2>1, <3>2
  <2> QED BY <2>2, <2>3
<1> QED BY <1>1, <1>2

LEMMA AppendBegins ==
  ASSUME NEW S, NEW a \in Seq(S), NEW x \in S
  PROVE  /\ Append(a, x) \in Seq(S) /\ Len(Append(a, x)) = Len(a) + 1 /\ Len(a) \in Nat
         /\ Begins(Append(a, x), a) /\ Begins(Append(a, x), Append(a, x)) /\ Begins(a, a)
         /\ Append(a, x)[Len(a) + 1] = x
<1>1. /\ Append(a, x) \in Seq(S) /\ Len(Append(a, x)) = Len(a) + 1 /\ Len(a) \in Nat
      /\ Append(a, x)[Len(a) + 1] = x
      /\ \A i \in 1..Len(a) : Append(a, x)[i] = a[i]
  OBVIOUS
<1> QED BY <1>1 DEF Begins

\* The distance of longer words from those of their beginnings.
LEMMA DistanceStep ==
  ASSUME NEW S, NEW a \in Seq(S), NEW b \in Seq(S), NEW x \in S, NEW y \in S
  PROVE  /\ Levenshtein(a, b) \in Nat
         /\ Levenshtein(Append(a, x), Append(b, y)) =
              EditStep(x, y, Levenshtein(a, Append(b, y)), Levenshtein(Append(a, x), b),
                       Levenshtein(a, b))
<1> DEFINE p == Append(a, x)
           q == Append(b, y)
           n == Len(a) + 1
           m == Len(b) + 1
<1>1. /\ Len(p) = n /\ Len(a) \in Nat /\ p[n] = x
      /\ Begins(p, a) /\ Begins(p, p)
  BY AppendBegins
<1>2. /\ Len(q) = m /\ Len(b) \in Nat /\ q[m] = y
      /\ Begins(q, b) /\ Begins(q, q)
  BY AppendBegins
<1>3. PICK e : Table(p, q, e)
  <2>1. Len(p) \in Nat /\ Len(q) \in Nat
    BY <1>1, <1>2
  <2> HIDE DEF p, q
  <2> QED BY <2>1, LevenshteinTable
<1> HIDE DEF p, q
<1>4. /\ Levenshtein(a, b) = e[Len(a)][Len(b)]
      /\ Levenshtein(p, b) = e[n][Len(b)]
      /\ Levenshtein(a, q) = e[Len(a)][m]
      /\ Levenshtein(p, q) = e[n][m]
  BY <1>1, <1>2, <1>3, DistanceInTable
<1>5. n \in 1..Len(p) /\ m \in 1..Len(q) /\ n - 1 = Len(a) /\ m - 1 = Len(b)
  BY <1>1, <1>2
<1>6. Levenshtein(a, b) \in Nat
  <2>1. Len(a) \in 0..Len(p) /\ Len(b) \in 0..Len(q)
    BY <1>1, <1>2
  <2>2. e[Len(a)] \in [0..Len(q) -> Nat]
    BY <1>3, <2>1 DEF Table
  <2> QED BY <1>4, <2>1, <2>2
<1>7. Follow(n, p[n], q, e[n - 1], e[n])
  <2> HIDE DEF n
  <2> QED BY <1>3, <1>5 DEF Table
<1>8. e[n][m] = EditStep(p[n], q[m], e[n - 1][m], e[n][m - 1], e[n - 1][m - 1])
  <2> HIDE DEF n, m
  <2> QED BY <1>5, <1>7, FollowAt
<1>9. Levenshtein(p, q) = EditStep(x, y, Levenshtein(a, q), Levenshtein(p, b), Levenshtein(a, b))
  <2> HIDE DEF n, m
  <2> QED BY <1>1, <1>2, <1>4, <1>5, <1>8
<1> QED BY <1>6, <1>9 DEF p, q

\* What holds of the empty word and of each word one letter longer holds of all.
LEMMA WordInduction ==
  ASSUME NEW S, NEW P, <<>> \in P,
         \A a \in Seq(S) : \A x \in S : a \in P => Append(a, x) \in P,
         NEW w \in Seq(S)
  PROVE  w \in P
<1> DEFINE R == {n \in 0..Len(w) : \A a \in Seq(S) : Len(a) = n => a \in P}
<1>0. Len(w) \in Nat /\ Len(w) \in 0..Len(w) /\ 0 \in 0..Len(w)
  OBVIOUS
<1>1. 0 \in R
  <2>1. \A a \in Seq(S) : Len(a) = 0 => a = <<>>
    OBVIOUS
  <2> QED BY <1>0, <2>1
<1>2. ASSUME NEW n \in (0 + 1)..Len(w), n - 1 \in R PROVE n \in R
  <2>1. ASSUME NEW a \in Seq(S), Len(a) = n PROVE a \in P
    <3> DEFINE v == SubSeq(a, 1, n - 1)
    <3>1. v \in Seq(S) /\ Len(v) = n - 1 /\ \A i \in 1..(n - 1) : v[i] = a[i]
      BY <2>1
    <3>2. a[n] \in S
      BY <2>1
    <3> HIDE DEF v
    <3>3. a = Append(v, a[n])
      BY <2>1, <3>1, <3>2
    <3>4. v \in P
      BY <1>2, <3>1
    <3> QED BY <3>1, <3>2, <3>3, <3>4
  <2> QED BY <2>1
<1>3. \A n \in 0..Len(w) : n \in R
  <2> HIDE DEF R
  <2> QED BY <1>0, <1>1, <1>2, AllAlong
<1> QED BY <1>0, <1>3

\* How the distance of two words comes from those of shorter ones.
Distance(x, y, v, u, l, g) ==
  /\ v \in Nat /\ u \in Nat /\ l \in Nat /\ g \in Nat
  /\ v <= u + 1 /\ v <= l + 1 /\ v <= g + 1
  /\ x = y => v <= g
  /\ v = u + 1 \/ v = l + 1 \/ (x = y /\ v = g) \/ (x # y /\ v = g + 1)

LEMMA DistanceIsNat ==
  ASSUME NEW S, NEW a \in Seq(S), NEW b \in Seq(S)
  PROVE  Levenshtein(a, b) \in Nat
<1>1. Len(a) \in Nat /\ Len(b) \in Nat /\ Len(a) \in 0..Len(a) /\ Len(b) \in 0..Len(b)
  OBVIOUS
<1>2. PICK d : Table(a, b, d) /\ Levenshtein(a, b) = d[Len(a)][Len(b)]
  BY <1>1, LevenshteinTable
<1>3. d[Len(a)] \in [0..Len(b) -> Nat]
  BY <1>1, <1>2 DEF Table
<1> QED BY <1>1, <1>2, <1>3

LEMMA DistanceIs ==
  ASSUME NEW S, NEW a \in Seq(S), NEW b \in Seq(S), NEW x \in S, NEW y \in S
  PROVE  Distance(x, y, Levenshtein(Append(a, x), Append(b, y)), Levenshtein(a, Append(b, y)),
                  Levenshtein(Append(a, x), b), Levenshtein(a, b))
<1>1. Append(a, x) \in Seq(S) /\ Append(b, y) \in Seq(S)
  OBVIOUS
<1>2. /\ Levenshtein(a, Append(b, y)) \in Nat /\ Levenshtein(Append(a, x), b) \in Nat
      /\ Levenshtein(a, b) \in Nat
  BY <1>1, DistanceIsNat
<1> DEFINE v == Levenshtein(Append(a, x), Append(b, y))
           u == Levenshtein(a, Append(b, y))
           l == Levenshtein(Append(a, x), b)
           g == Levenshtein(a, b)
<1>3. v = EditStep(x, y, u, l, g)
  BY DistanceStep
<1> HIDE DEF v, u, l, g
<1>4. u \in Nat /\ l \in Nat /\ g \in Nat
  BY <1>2 DEF u, l, g
<1>5. Distance(x, y, v, u, l, g)
  BY <1>3, <1>4, EditStepIs DEF Distance
<1> QED BY <1>5 DEF v, u, l, g

\* A word is at no distance from itself, and only from itself.
LEMMA NoDistance ==
  ASSUME NEW S, NEW a \in Seq(S), NEW b \in Seq(S)
  PROVE  Levenshtein(a, b) = 0 <=> a = b
<1> DEFINE P == {c \in Seq(S) : \A d \in Seq(S) : Levenshtein(c, d) = 0 <=> c = d}
<1>1. <<>> \in P
  <2>1. ASSUME NEW d \in Seq(S) PROVE Levenshtein(<<>>, d) = 0 <=> <<>> = d
    <3>1. Levenshtein(<<>>, d) = Len(d)
      BY DistanceOfNone
    <3>2. Len(d) = 0 <=> <<>> = d
      OBVIOUS
    <3> QED BY <3>1, <3>2
  <2>2. <<>> \in Seq(S)
    OBVIOUS
  <2> QED BY <2>1, <2>2
<1>2. ASSUME NEW c \in Seq(S), NEW x \in S, c \in P PROVE Append(c, x) \in P
  <2> DEFINE p == Append(c, x)
             R == {d \in Seq(S) : Levenshtein(p, d) = 0 <=> p = d}
  <2>0. p \in Seq(S) /\ p # <<>> /\ Len(p) # 0
    <3>1. c \in Seq(S)
      BY <1>2
    <3>2. p \in Seq(S) /\ Len(p) = Len(c) + 1 /\ Len(c) \in Nat
      BY <3>1, AppendBegins
    <3>3. Len(p) # 0 /\ Len(<<>>) = 0
      BY <3>2
    <3> HIDE DEF p
    <3> QED BY <3>2, <3>3
  <2>1. <<>> \in R
    <3>1. <<>> \in Seq(S)
      OBVIOUS
    <3>2. Levenshtein(p, <<>>) = Len(p)
      BY <2>0, DistanceOfNone
    <3> QED BY <2>0, <3>1, <3>2
  <2>2. ASSUME NEW d \in Seq(S), NEW y \in S, d \in R PROVE Append(d, y) \in R
    <3>1. Append(d, y) \in Seq(S) /\ (Append(c, x) = Append(d, y) <=> c = d /\ x = y)
      OBVIOUS
    <3>2. Levenshtein(c, d) = 0 <=> c = d
      BY <1>2
    <3>3. Distance(x, y, Levenshtein(p, Append(d, y)), Levenshtein(c, Append(d, y)),
                   Levenshtein(p, d), Levenshtein(c, d))
      BY DistanceIs
    <3>4. Levenshtein(p, Append(d, y)) = 0 <=> x = y /\ Levenshtein(c, d) = 0
      BY <3>3 DEF Distance
    <3> QED BY <3>1, <3>2, <3>4
  <2>3. \A d \in Seq(S) : d \in R
    <3> HIDE DEF R
    <3> QED BY <2>1, <2>2, WordInduction
  <2> QED BY <2>0, <2>3
<1>3. a \in P
  <2> HIDE DEF P
  <2> QED BY <1>1, <1>2, WordInduction
<1> QED BY <1>3

\* p is at most one further from any word than q is.
Close(S, p, q) == \A b \in Seq(S) : Levenshtein(p, b) <= Levenshtein(q, b) + 1

LEMMA LongerByOne ==
  ASSUME NEW S, NEW a \in Seq(S), NEW b \in Seq(S), NEW y \in S
  PROVE  Levenshtein(a, Append(b, y)) <= Levenshtein(a, b) + 1
<1> DEFINE P == {c \in Seq(S) : Levenshtein(c, Append(b, y)) <= Levenshtein(c, b) + 1}
<1>1. <<>> \in P
  <2>1. Append(b, y) \in Seq(S) /\ Len(Append(b, y)) = Len(b) + 1 /\ Len(b) \in Nat
    BY AppendBegins
  <2>2. Levenshtein(<<>>, Append(b, y)) = Len(b) + 1 /\ Levenshtein(<<>>, b) = Len(b)
    BY <2>1, DistanceOfNone
  <2>3. <<>> \in Seq(S)
    OBVIOUS
  <2> QED BY <2>1, <2>2, <2>3
<1>2. ASSUME NEW c \in Seq(S), NEW x \in S PROVE Append(c, x) \in P
  <2>1. Distance(x, y, Levenshtein(Append(c, x), Append(b, y)), Levenshtein(c, Append(b, y)),
                 Levenshtein(Append(c, x), b), Levenshtein(c, b))
    BY DistanceIs
  <2>2. Append(c, x) \in Seq(S)
    BY AppendBegins
  <2> QED BY <2>1, <2>2 DEF Distance
<1>3. a \in P
  <2> HIDE DEF P
  <2> QED BY <1>1, <1>2, WordInduction
<1> QED BY <1>3

LEMMA CloseLetter ==
  ASSUME NEW S, NEW a \in Seq(S), NEW x \in S, NEW z \in S
  PROVE  /\ Close(S, Append(a, x), a)
         /\ Close(S, a, Append(a, x))
         /\ Close(S, Append(a, x), Append(a, z))
<1> DEFINE Near(b) ==
             /\ Levenshtein(Append(a, x), b) <= Levenshtein(a, b) + 1
             /\ Levenshtein(a, b) <= Levenshtein(Append(a, x), b) + 1
             /\ Levenshtein(Append(a, x), b) <= Levenshtein(Append(a, z), b) + 1
           P == {b \in Seq(S) : Near(b)}
<1>1. <<>> \in P
  <2>1. /\ Append(a, x) \in Seq(S) /\ Len(Append(a, x)) = Len(a) + 1 /\ Len(a) \in Nat
        /\ Append(a, z) \in Seq(S) /\ Len(Append(a, z)) = Len(a) + 1
    BY AppendBegins
  <2>2. /\ Levenshtein(a, <<>>) = Len(a)
        /\ Levenshtein(Append(a, x), <<>>) = Len(a) + 1
        /\ Levenshtein(Append(a, z), <<>>) = Len(a) + 1
    BY <2>1, DistanceOfNone
  <2>3. <<>> \in Seq(S)
    OBVIOUS
  <2> QED BY <2>1, <2>2, <2>3
<1>2. ASSUME NEW b \in Seq(S), NEW y \in S, b \in P PROVE Append(b, y) \in P
  <2>1. Distance(x, y, Levenshtein(Append(a, x), Append(b, y)), Levenshtein(a, Append(b, y)),
                 Levenshtein(Append(a, x), b), Levenshtein(a, b))
    BY DistanceIs
  <2>2. Distance(z, y, Levenshtein(Append(a, z), Append(b, y)), Levenshtein(a, Append(b, y)),
                 Levenshtein(Append(a, z), b), Levenshtein(a, b))
    BY DistanceIs
  <2>3. Levenshtein(a, Append(b, y)) <= Levenshtein(a, b) + 1
    BY LongerByOne
  <2>4. Near(Append(b, y))
    BY <1>2, <2>1, <2>2, <2>3 DEF Distance
  <2>5. Append(b, y) \in Seq(S)
    BY AppendBegins
  <2> QED BY <2>4, <2>5
<1>3. \A b \in Seq(S) : b \in P
  <2> HIDE DEF P
  <2> QED BY <1>1, <1>2, WordInduction
<1>4. \A b \in Seq(S) : Near(b)
  <2> HIDE DEF Near
  <2> QED BY <1>3
<1> QED BY <1>4 DEF Close

LEMMA CloseSums ==
  ASSUME NEW t, NEW y, NEW v, NEW u, NEW l, NEW g, Distance(t, y, v, u, l, g),
         NEW v2, NEW u2, NEW l2, NEW g2, Distance(t, y, v2, u2, l2, g2),
         u <= u2 + 1, l <= l2 + 1, g <= g2 + 1
  PROVE  v <= v2 + 1
BY DEF Distance

LEMMA CloseStays ==
  ASSUME NEW S, NEW p \in Seq(S), NEW q \in Seq(S), Close(S, p, q), NEW t \in S
  PROVE  Close(S, Append(p, t), Append(q, t))
<1> DEFINE Near(b) == Levenshtein(Append(p, t), b) <= Levenshtein(Append(q, t), b) + 1
           P == {b \in Seq(S) : Near(b)}
<1>1. <<>> \in P
  <2>1. /\ Append(p, t) \in Seq(S) /\ Len(Append(p, t)) = Len(p) + 1 /\ Len(p) \in Nat
        /\ Append(q, t) \in Seq(S) /\ Len(Append(q, t)) = Len(q) + 1 /\ Len(q) \in Nat
    BY AppendBegins
  <2>2. /\ Levenshtein(p, <<>>) = Len(p) /\ Levenshtein(Append(p, t), <<>>) = Len(p) + 1
        /\ Levenshtein(q, <<>>) = Len(q) /\ Levenshtein(Append(q, t), <<>>) = Len(q) + 1
    BY <2>1, DistanceOfNone
  <2>3. <<>> \in Seq(S)
    OBVIOUS
  <2>4. Levenshtein(p, <<>>) <= Levenshtein(q, <<>>) + 1
    BY <2>3 DEF Close
  <2> QED BY <2>1, <2>2, <2>3, <2>4
<1>2. ASSUME NEW b \in Seq(S), NEW y \in S, b \in P PROVE Append(b, y) \in P
  <2>1. Append(b, y) \in Seq(S)
    BY AppendBegins
  <2>2. Distance(t, y, Levenshtein(Append(p, t), Append(b, y)), Levenshtein(p, Append(b, y)),
                 Levenshtein(Append(p, t), b), Levenshtein(p, b))
    BY DistanceIs
  <2>3. Distance(t, y, Levenshtein(Append(q, t), Append(b, y)), Levenshtein(q, Append(b, y)),
                 Levenshtein(Append(q, t), b), Levenshtein(q, b))
    BY DistanceIs
  <2>4. /\ Levenshtein(p, Append(b, y)) <= Levenshtein(q, Append(b, y)) + 1
        /\ Levenshtein(p, b) <= Levenshtein(q, b) + 1
    BY <2>1 DEF Close
  <2>5. Near(Append(b, y))
    <3>1. Near(b)
      BY <1>2
    <3>2. Levenshtein(Append(p, t), b) <= Levenshtein(Append(q, t), b) + 1
      BY <3>1
    <3> QED BY ONLY <3>2, <2>2, <2>3, <2>4, CloseSums DEF Near
  <2> QED BY <2>1, <2>5
<1>3. \A b \in Seq(S) : b \in P
  <2> HIDE DEF P
  <2> QED BY <1>1, <1>2, WordInduction
<1>4. \A b \in Seq(S) : Near(b)
  <2> HIDE DEF Near
  <2> QED BY <1>3
<1> QED BY <1>4 DEF Close

----------------------------------------------------------------------------
(* Words one edit apart.                                                  *)

\* At most one letter.
Short(S) == {<<>>} \cup {<<c>> : c \in S}

\* c is a with one letter more, less or other, or a itself.
Edit(S, a, c) ==
  \E x \in Seq(S), z \in Seq(S), u \in Short(S), v \in Short(S) :
    a = (x \o u) \o z /\ c = (x \o v) \o z

LEMMA ShortIsWord ==
  ASSUME NEW S, NEW u \in Short(S)
  PROVE  u \in Seq(S)
<1>1. <<>> \in Seq(S) /\ \A c \in S : <<c>> \in Seq(S)
  OBVIOUS
<1>2. u = <<>> \/ \E c \in S : u = <<c>>
  BY DEF Short
<1> QED BY ONLY <1>1, <1>2

LEMMA EditTurns ==
  ASSUME NEW S, NEW a, NEW c, Edit(S, a, c)
  PROVE  Edit(S, c, a)
BY DEF Edit

LEMMA EditedWord ==
  ASSUME NEW S, NEW a, NEW c, Edit(S, a, c)
  PROVE  a \in Seq(S) /\ c \in Seq(S)
<1>1. PICK x \in Seq(S), z \in Seq(S), u \in Short(S), v \in Short(S) :
        a = (x \o u) \o z /\ c = (x \o v) \o z
  BY DEF Edit
<1>2. u \in Seq(S) /\ v \in Seq(S)
  BY ShortIsWord
<1> QED BY <1>1, <1>2

Moves(x, z, t) == Append(x \o z, t) = x \o Append(z, t)

LEMMA AppendMoves ==
  ASSUME NEW S, NEW x \in Seq(S), NEW z \in Seq(S), NEW t \in S
  PROVE  Moves(x, z, t)
BY DEF Moves

LEMMA EditAppend ==
  ASSUME NEW S, NEW a, NEW c, Edit(S, a, c), NEW t \in S
  PROVE  Edit(S, Append(a, t), Append(c, t))
<1>1. PICK x \in Seq(S), z \in Seq(S), u \in Short(S), v \in Short(S) :
        a = (x \o u) \o z /\ c = (x \o v) \o z
  BY DEF Edit
<1>2. u \in Seq(S) /\ v \in Seq(S)
  BY ShortIsWord
<1>3. x \o u \in Seq(S) /\ x \o v \in Seq(S)
  BY <1>2
<1>4. Append(a, t) = (x \o u) \o Append(z, t) /\ Append(c, t) = (x \o v) \o Append(z, t)
  <2>1. Moves(x \o u, z, t) /\ Moves(x \o v, z, t)
    BY <1>3, AppendMoves
  <2> QED BY ONLY <1>1, <2>1, Zenon DEF Moves
<1>5. Append(z, t) \in Seq(S)
  OBVIOUS
<1> QED BY <1>4, <1>5 DEF Edit

LEMMA EditLast ==
  ASSUME NEW S, NEW a \in Seq(S), NEW x \in S, NEW z \in S
  PROVE  /\ Edit(S, a, a)
         /\ Edit(S, Append(a, x), a)
         /\ Edit(S, a, Append(a, x))
         /\ Edit(S, Append(a, x), Append(a, z))
<1>1. /\ a = (a \o <<>>) \o <<>>
      /\ \A c \in S : Append(a, c) = (a \o <<c>>) \o <<>>
  OBVIOUS
<1>2. <<>> \in Short(S) /\ <<>> \in Seq(S) /\ \A c \in S : <<c>> \in Short(S)
  BY DEF Short
<1> QED BY <1>1, <1>2 DEF Edit

LEMMA CloseItself ==
  ASSUME NEW S, NEW a \in Seq(S)
  PROVE  Close(S, a, a)
BY DistanceIsNat DEF Close

\* An edit changes no distance by more than one.
LEMMA EditClose ==
  ASSUME NEW S, NEW a, NEW c, Edit(S, a, c)
  PROVE  Close(S, a, c)
<1>1. PICK x \in Seq(S), z \in Seq(S), u \in Short(S), v \in Short(S) :
        a = (x \o u) \o z /\ c = (x \o v) \o z
  BY DEF Edit
<1> DEFINE p == x \o u
           q == x \o v
           P == {w \in Seq(S) : Close(S, p \o w, q \o w)}
<1>2. p \in Seq(S) /\ q \in Seq(S)
  BY ShortIsWord
<1>3. <<>> \in P
  <2>1. p \o <<>> = p /\ q \o <<>> = q /\ <<>> \in Seq(S)
    BY <1>2
  <2>2. Close(S, p, q)
    <3>1. \A c_1 \in S : x \o <<c_1>> = Append(x, c_1)
      OBVIOUS
    <3>2. x \o <<>> = x
      OBVIOUS
    <3>3. (u = <<>> \/ \E s \in S : u = <<s>>) /\ (v = <<>> \/ \E s \in S : v = <<s>>)
      BY DEF Short
    <3>4. (p = x \/ \E s \in S : p = Append(x, s)) /\ (q = x \/ \E s \in S : q = Append(x, s))
      BY <3>1, <3>2, <3>3
    <3> HIDE DEF p, q
    <3> QED BY <3>4, CloseLetter, CloseItself
  <2> QED BY <2>1, <2>2
<1>4. ASSUME NEW w \in Seq(S), NEW t \in S, w \in P PROVE Append(w, t) \in P
  <2> HIDE DEF p, q
  <2>1. p \o w \in Seq(S) /\ q \o w \in Seq(S)
    BY <1>2
  <2>2. Close(S, Append(p \o w, t), Append(q \o w, t))
    BY <1>4, <2>1, CloseStays
  <2>3. Append(p \o w, t) = p \o Append(w, t) /\ Append(q \o w, t) = q \o Append(w, t)
    <3>1. Moves(p, w, t) /\ Moves(q, w, t)
      BY <1>2, AppendMoves
    <3> QED BY ONLY <3>1, Zenon DEF Moves
  <2>4. Append(w, t) \in Seq(S)
    OBVIOUS
  <2> QED BY <2>2, <2>3, <2>4
<1>5. z \in P
  <2> HIDE DEF P
  <2> QED BY <1>3, <1>4, WordInduction
<1> HIDE DEF p, q
<1> QED BY <1>1, <1>5 DEF p, q

\* An edit of a is at most k from b.
Reaches(S, k, a, b) == \E c \in Seq(S) : Edit(S, a, c) /\ Levenshtein(c, b) <= k

\* A word at some distance has an edit at one less.
LEMMA NearEdit ==
  ASSUME NEW S, NEW a \in Seq(S), NEW b \in Seq(S), NEW k \in Nat, Levenshtein(a, b) <= k + 1
  PROVE  Reaches(S, k, a, b)
<1> DEFINE Goal(p, q) == Levenshtein(p, q) <= k + 1 => Reaches(S, k, p, q)
           P == {p \in Seq(S) : \A q \in Seq(S) : Goal(p, q)}
<1>0. <<>> \in Seq(S) /\ Len(<<>>) = 0
  OBVIOUS
<1>1. <<>> \in P
  <2> DEFINE R == {q \in Seq(S) : Goal(<<>>, q)}
  <2>1. <<>> \in R
    <3>1. Levenshtein(<<>>, <<>>) = 0
      BY ONLY <1>0, DistanceOfNone
    <3>2. Edit(S, <<>>, <<>>)
      <4>1. <<>> = (<<>> \o <<>>) \o <<>> /\ <<>> \in Short(S)
        BY DEF Short
      <4> QED BY <1>0, <4>1 DEF Edit
    <3>3. Levenshtein(<<>>, <<>>) <= k
      BY ONLY <1>0, <3>1, k \in Nat
    <3>4. Reaches(S, k, <<>>, <<>>)
      BY ONLY <1>0, <3>2, <3>3, Zenon DEF Reaches
    <3> QED BY <1>0, <3>4
  <2>2. ASSUME NEW q \in Seq(S), NEW y \in S PROVE Append(q, y) \in R
    <3>1. Append(q, y) \in Seq(S) /\ Len(Append(q, y)) = Len(q) + 1 /\ Len(q) \in Nat
      BY AppendBegins
    <3>2. SUFFICES ASSUME Levenshtein(<<>>, Append(q, y)) <= k + 1
                   PROVE  Reaches(S, k, <<>>, Append(q, y))
      BY <3>1
    <3>3. Levenshtein(<<>>, q) <= k
      <4>1. Levenshtein(<<>>, q) = Len(q) /\ Levenshtein(<<>>, Append(q, y)) = Len(q) + 1
        BY <3>1, DistanceOfNone
      <4> QED BY ONLY <3>1, <3>2, <4>1
    <3>4. Append(<<>>, y) \in Seq(S) /\ Edit(S, <<>>, Append(<<>>, y))
      BY <1>0, AppendBegins, EditLast
    <3>5. Distance(y, y, Levenshtein(Append(<<>>, y), Append(q, y)),
                   Levenshtein(<<>>, Append(q, y)), Levenshtein(Append(<<>>, y), q),
                   Levenshtein(<<>>, q))
      BY <1>0, DistanceIs
    <3>6. Levenshtein(Append(<<>>, y), Append(q, y)) <= k
      BY <3>3, <3>5 DEF Distance
    <3> QED BY <3>4, <3>6 DEF Reaches
  <2>3. \A q \in Seq(S) : q \in R
    <3> HIDE DEF R
    <3> QED BY <2>1, <2>2, WordInduction
  <2> QED BY <1>0, <2>3
<1>2. ASSUME NEW p \in Seq(S), NEW x \in S, p \in P PROVE Append(p, x) \in P
  <2> DEFINE px == Append(p, x)
             R == {q \in Seq(S) : Goal(px, q)}
  <2>0. px \in Seq(S) /\ Len(px) = Len(p) + 1 /\ Len(p) \in Nat
    BY AppendBegins
  <2>1. <<>> \in R
    <3>1. SUFFICES ASSUME Levenshtein(px, <<>>) <= k + 1 PROVE Reaches(S, k, px, <<>>)
      BY <1>0
    <3>2. Levenshtein(p, <<>>) <= k
      <4> HIDE DEF px
      <4> QED BY <2>0, <3>1, DistanceOfNone
    <3>3. Edit(S, px, p)
      BY EditLast
    <3> QED BY <3>2, <3>3 DEF Reaches
  <2>2. ASSUME NEW q \in Seq(S), NEW y \in S PROVE Append(q, y) \in R
    <3> DEFINE qy == Append(q, y)
    <3>1. qy \in Seq(S)
      BY AppendBegins
    <3>2. SUFFICES ASSUME Levenshtein(px, qy) <= k + 1 PROVE Reaches(S, k, px, qy)
      BY <3>1
    <3>3. Distance(x, y, Levenshtein(px, qy), Levenshtein(p, qy), Levenshtein(px, q),
                   Levenshtein(p, q))
      BY DistanceIs
    <3>4. CASE Levenshtein(p, qy) <= k
      <4>1. Edit(S, px, p)
        BY EditLast
      <4> QED BY <3>4, <4>1 DEF Reaches
    <3>5. CASE Levenshtein(px, q) <= k
      <4>1. Edit(S, px, Append(px, y)) /\ Append(px, y) \in Seq(S)
        BY <2>0, EditLast, AppendBegins
      <4>2. Distance(y, y, Levenshtein(Append(px, y), qy), Levenshtein(px, qy),
                     Levenshtein(Append(px, y), q), Levenshtein(px, q))
        BY <2>0, DistanceIs
      <4>3. Levenshtein(Append(px, y), qy) <= k
        BY <3>5, <4>2 DEF Distance
      <4> QED BY <4>1, <4>3 DEF Reaches
    <3>6. CASE Levenshtein(p, q) <= k
      <4>1. Edit(S, px, Append(p, y)) /\ Append(p, y) \in Seq(S)
        BY EditLast, AppendBegins
      <4>2. Distance(y, y, Levenshtein(Append(p, y), qy), Levenshtein(p, qy),
                     Levenshtein(Append(p, y), q), Levenshtein(p, q))
        BY DistanceIs
      <4>3. Levenshtein(Append(p, y), qy) <= k
        BY <3>6, <4>2 DEF Distance
      <4> QED BY <4>1, <4>3 DEF Reaches
    <3>7. CASE x = y /\ Levenshtein(p, q) <= k + 1
      <4>1. Reaches(S, k, p, q)
        BY <1>2, <3>7
      <4>2. PICK c \in Seq(S) : Edit(S, p, c) /\ Levenshtein(c, q) <= k
        BY <4>1 DEF Reaches
      <4>3. Edit(S, px, Append(c, x)) /\ Append(c, x) \in Seq(S)
        BY <4>2, EditAppend, AppendBegins
      <4>4. Distance(x, y, Levenshtein(Append(c, x), qy), Levenshtein(c, qy),
                     Levenshtein(Append(c, x), q), Levenshtein(c, q))
        BY DistanceIs
      <4>5. Levenshtein(Append(c, x), qy) <= k
        BY <3>7, <4>2, <4>4 DEF Distance
      <4> QED BY <4>3, <4>5 DEF Reaches
    <3>8. \/ Levenshtein(p, qy) <= k \/ Levenshtein(px, q) <= k \/ Levenshtein(p, q) <= k
          \/ x = y /\ Levenshtein(p, q) <= k + 1
      <4> HIDE DEF px, qy
      <4> QED BY <3>2, <3>3 DEF Distance
    <3> QED BY <3>4, <3>5, <3>6, <3>7, <3>8
  <2>3. \A q \in Seq(S) : q \in R
    <3> HIDE DEF R
    <3> QED BY <2>1, <2>2, WordInduction
  <2> QED BY <2>0, <2>3
<1>3. a \in P
  <2> HIDE DEF P
  <2> QED BY <1>1, <1>2, WordInduction
<1> QED BY <1>3

\* At distance one are the edits, at distance two the edits of edits.
LEMMA DistanceCounts ==
  ASSUME NEW S, NEW a \in Seq(S), NEW b \in Seq(S)
  PROVE  /\ Levenshtein(a, b) <= 1 <=> Edit(S, a, b)
         /\ Levenshtein(a, b) <= 2 <=> \E c \in Seq(S) : Edit(S, a, c) /\ Edit(S, c, b)
<1>1. \A p, q \in Seq(S) : Levenshtein(p, q) <= 1 <=> Edit(S, p, q)
  <2> SUFFICES ASSUME NEW p \in Seq(S), NEW q \in Seq(S)
               PROVE  Levenshtein(p, q) <= 1 <=> Edit(S, p, q)
    OBVIOUS
  <2>1. ASSUME Levenshtein(p, q) <= 1 PROVE Edit(S, p, q)
    <3>1. Levenshtein(p, q) <= 0 + 1 /\ 0 \in Nat
      BY <2>1
    <3>2. Reaches(S, 0, p, q)
      BY ONLY <3>1, NearEdit, p \in Seq(S), q \in Seq(S)
    <3>3. PICK c \in Seq(S) : Edit(S, p, c) /\ Levenshtein(c, q) <= 0
      BY <3>2 DEF Reaches
    <3>4. Levenshtein(c, q) \in Nat
      BY DistanceIsNat
    <3>5. c = q
      BY <3>3, <3>4, NoDistance
    <3> QED BY <3>3, <3>5
  <2>2. ASSUME Edit(S, p, q) PROVE Levenshtein(p, q) <= 1
    <3>1. Close(S, p, q)
      BY <2>2, EditClose
    <3>2. Levenshtein(q, q) = 0
      BY NoDistance
    <3>3. Levenshtein(p, q) <= Levenshtein(q, q) + 1
      BY <3>1 DEF Close
    <3> QED BY <3>2, <3>3
  <2> QED BY <2>1, <2>2
<1>2. ASSUME Levenshtein(a, b) <= 2 PROVE \E c \in Seq(S) : Edit(S, a, c) /\ Edit(S, c, b)
  <2>1. Levenshtein(a, b) <= 1 + 1 /\ 1 \in Nat
    BY <1>2
  <2>2. Reaches(S, 1, a, b)
    BY ONLY <2>1, NearEdit, a \in Seq(S), b \in Seq(S)
  <2> QED BY <1>1, <2>2 DEF Reaches
<1>3. ASSUME NEW c \in Seq(S), Edit(S, a, c), Edit(S, c, b) PROVE Levenshtein(a, b) <= 2
  <2>1. Levenshtein(c, b) <= 1 /\ Levenshtein(c, b) \in Nat /\ Levenshtein(a, b) \in Nat
    BY <1>1, <1>3, DistanceIsNat
  <2>2. Close(S, a, c)
    BY <1>3, EditClose
  <2>3. Levenshtein(a, b) <= Levenshtein(c, b) + 1
    BY <2>2 DEF Close
  <2> QED BY <2>1, <2>3
<1> QED BY <1>1, <1>2, <1>3

----------------------------------------------------------------------------
(* Pieces of words.                                                        *)

LEMMA JoinedWords ==
  ASSUME NEW S, NEW x \in Seq(S), NEW z \in Seq(S), NEW y, y = x \o z
  PROVE  /\ y \in Seq(S) /\ Len(y) = Len(x) + Len(z)
         /\ \A j \in 1..Len(x) : y[j] = x[j]
         /\ \A j \in (Len(x) + 1)..(Len(x) + Len(z)) : y[j] = z[j - Len(x)]
OBVIOUS

\* A word in two pieces.
LEMMA CutInTwo ==
  ASSUME NEW S, NEW w \in Seq(S), NEW i \in 0..Len(w)
  PROVE  /\ w = SubSeq(w, 1, i) \o SubSeq(w, i + 1, Len(w))
         /\ SubSeq(w, 1, i) \in Seq(S) /\ SubSeq(w, i + 1, Len(w)) \in Seq(S)
<1> DEFINE x == SubSeq(w, 1, i)
           z == SubSeq(w, i + 1, Len(w))
<1>0. Len(w) \in Nat /\ i \in Int /\ 0 <= i /\ i <= Len(w)
  OBVIOUS
<1>1. x \in Seq(S) /\ Len(x) = i /\ \A j \in 1..i : x[j] = w[j]
  OBVIOUS
<1>2. z \in Seq(S) /\ Len(z) = Len(w) - i /\ \A j \in 1..(Len(w) - i) : z[j] = w[j + i]
  OBVIOUS
<1> HIDE DEF x, z
<1>y. PICK y : y = x \o z
  OBVIOUS
<1>3. /\ y \in Seq(S) /\ Len(y) = Len(x) + Len(z)
      /\ \A j \in 1..Len(x) : y[j] = x[j]
      /\ \A j \in (Len(x) + 1)..(Len(x) + Len(z)) : y[j] = z[j - Len(x)]
  <2>1. x \in Seq(S) /\ z \in Seq(S)
    BY <1>1, <1>2
  <2> QED BY ONLY <1>y, <2>1, JoinedWords
<1>4. ASSUME NEW j \in 1..Len(w) PROVE y[j] = w[j]
  <2>1. CASE j <= i
    BY <1>0, <1>1, <1>3, <2>1
  <2>2. CASE j > i
    <3>1. j \in (Len(x) + 1)..(Len(x) + Len(z)) /\ j - i \in 1..(Len(w) - i) /\ (j - i) + i = j
      BY <1>0, <1>1, <1>2, <2>2
    <3>2. y[j] = z[j - i]
      BY <1>1, <1>3, <3>1
    <3> QED BY <1>2, <3>1, <3>2
  <2> QED BY <1>0, <2>1, <2>2
<1>5. Len(y) = Len(w)
  BY <1>0, <1>1, <1>2, <1>3
<1>6. w = y
  BY <1>3, <1>4, <1>5
<1> QED BY <1>1, <1>2, <1>6, <1>y DEF x, z

Replaced(w, i, c) == [w EXCEPT ![i] = c]

\* ... and in three, of which the second is one letter.
LEMMA CutAround ==
  ASSUME NEW S, NEW w \in Seq(S), NEW i \in 1..Len(w)
  PROVE  /\ w = (SubSeq(w, 1, i - 1) \o <<w[i]>>) \o SubSeq(w, i + 1, Len(w))
         /\ SubSeq(w, 1, i - 1) \in Seq(S) /\ SubSeq(w, i + 1, Len(w)) \in Seq(S)
         /\ w[i] \in S
         /\ \A c \in S : Replaced(w, i, c)
              = (SubSeq(w, 1, i - 1) \o <<c>>) \o SubSeq(w, i + 1, Len(w))
<1> DEFINE x == SubSeq(w, 1, i - 1)
           z == SubSeq(w, i + 1, Len(w))
           p(c) == (x \o <<c>>) \o z
<1>0. Len(w) \in Nat /\ i \in Int /\ 1 <= i /\ i <= Len(w) /\ w[i] \in S
  OBVIOUS
<1>1. x \in Seq(S) /\ Len(x) = i - 1 /\ \A j \in 1..(i - 1) : x[j] = w[j]
  OBVIOUS
<1>2. z \in Seq(S) /\ Len(z) = Len(w) - i /\ \A j \in 1..(Len(w) - i) : z[j] = w[j + i]
  OBVIOUS
<1> HIDE DEF x, z
<1>3. ASSUME NEW c \in S
      PROVE  /\ p(c) \in Seq(S) /\ Len(p(c)) = Len(w)
             /\ p(c)[i] = c /\ \A j \in 1..Len(w) : j # i => p(c)[j] = w[j]
  <2> DEFINE q == x \o <<c>>
  <2>1. q \in Seq(S) /\ Len(q) = i /\ q[i] = c /\ \A j \in 1..(i - 1) : q[j] = w[j]
    BY <1>0, <1>1
  <2> HIDE DEF q
  <2>y. PICK y : y = q \o z
    OBVIOUS
  <2>2. /\ y \in Seq(S) /\ Len(y) = Len(q) + Len(z)
        /\ \A j \in 1..Len(q) : y[j] = q[j]
        /\ \A j \in (Len(q) + 1)..(Len(q) + Len(z)) : y[j] = z[j - Len(q)]
    <3>1. q \in Seq(S) /\ z \in Seq(S)
      BY <1>2, <2>1
    <3> QED BY ONLY <2>y, <3>1, JoinedWords
  <2>3. Len(y) = Len(w) /\ y[i] = c
    BY <1>0, <1>2, <2>1, <2>2
  <2>4. ASSUME NEW j \in 1..Len(w), j # i PROVE y[j] = w[j]
    <3>1. CASE j < i
      BY <1>0, <2>1, <2>2, <2>4, <3>1
    <3>2. CASE j > i
      <4>1. j \in (Len(q) + 1)..(Len(q) + Len(z)) /\ j - i \in 1..(Len(w) - i) /\ (j - i) + i = j
        BY <1>0, <1>2, <2>1, <3>2
      <4>2. y[j] = z[j - i]
        BY <2>1, <2>2, <4>1
      <4> QED BY <1>2, <4>1, <4>2
    <3> QED BY <1>0, <2>4, <3>1, <3>2
  <2> QED BY <2>2, <2>3, <2>4, <2>y DEF q
<1>4. ASSUME NEW c \in S PROVE Replaced(w, i, c) = p(c)
  <2>1. /\ [w EXCEPT ![i] = c] \in Seq(S) /\ Len([w EXCEPT ![i] = c]) = Len(w)
        /\ [w EXCEPT ![i] = c][i] = c
        /\ \A j \in 1..Len(w) : j # i => [w EXCEPT ![i] = c][j] = w[j]
    OBVIOUS
  <2> DEFINE l == [w EXCEPT ![i] = c]
             r == p(c)
  <2>2. /\ r \in Seq(S) /\ Len(r) = Len(w) /\ r[i] = c
        /\ \A j \in 1..Len(w) : j # i => r[j] = w[j]
    BY <1>3
  <2> HIDE DEF l, r
  <2>3. \A j \in 1..Len(w) : l[j] = r[j]
    BY <2>1, <2>2 DEF l
  <2>4. l \in Seq(S) /\ Len(l) = Len(w)
    BY <2>1 DEF l
  <2>5. l = r
    BY <1>0, <2>2, <2>3, <2>4
  <2> QED BY <2>5 DEF l, r, Replaced
<1>5. w = p(w[i])
  <2> DEFINE r == p(w[i])
  <2>1. /\ r \in Seq(S) /\ Len(r) = Len(w) /\ r[i] = w[i]
        /\ \A j \in 1..Len(w) : j # i => r[j] = w[j]
    BY <1>0, <1>3
  <2> HIDE DEF r
  <2>2. w = r
    BY <1>0, <2>1
  <2> QED BY <2>2 DEF r
<1> QED BY <1>0, <1>1, <1>2, <1>4, <1>5 DEF x, z

LEMMA PiecesOfTwo ==
  ASSUME NEW S, NEW x \in Seq(S), NEW z \in Seq(S), NEW w, w = x \o z
  PROVE  /\ Len(x) \in 0..Len(w)
         /\ SubSeq(w, 1, Len(x)) = x /\ SubSeq(w, Len(x) + 1, Len(w)) = z
<1>1. /\ w \in Seq(S) /\ Len(w) = Len(x) + Len(z) /\ Len(x) \in Nat /\ Len(z) \in Nat
      /\ \A j \in 1..Len(x) : w[j] = x[j]
      /\ \A j \in 1..Len(z) : w[Len(x) + j] = z[j]
  OBVIOUS
<1>2. SubSeq(w, 1, Len(x)) = x
  BY <1>1
<1>3. SubSeq(w, Len(x) + 1, Len(w)) = z
  <2> DEFINE s == SubSeq(w, Len(x) + 1, Len(w))
  <2>1. /\ s \in Seq(S) /\ Len(s) = Len(z)
        /\ \A j \in 1..Len(z) : s[j] = w[Len(x) + j]
    BY ONLY <1>1
  <2> HIDE DEF s
  <2>2. s = z
    BY <1>1, <2>1
  <2> QED BY <2>2 DEF s
<1> QED BY <1>1, <1>2, <1>3

LEMMA PiecesAround ==
  ASSUME NEW S, NEW x \in Seq(S), NEW z \in Seq(S), NEW s \in S, NEW w, w = (x \o <<s>>) \o z
  PROVE  /\ Len(x) + 1 \in 1..Len(w) /\ w \in Seq(S)
         /\ SubSeq(w, 1, Len(x)) = x /\ SubSeq(w, Len(x) + 2, Len(w)) = z
<1>1. /\ x \o <<s>> \in Seq(S) /\ Len(x \o <<s>>) = Len(x) + 1 /\ Len(x) \in Nat
      /\ \A j \in 1..Len(x) : (x \o <<s>>)[j] = x[j]
  OBVIOUS
<1> DEFINE q == x \o <<s>>
<1> HIDE DEF q
<1>2. /\ Len(q) \in 0..Len(w)
      /\ SubSeq(w, 1, Len(q)) = q /\ SubSeq(w, Len(q) + 1, Len(w)) = z
  BY <1>1, PiecesOfTwo DEF q
<1>3. /\ w \in Seq(S) /\ Len(w) = Len(q) + Len(z) /\ Len(z) \in Nat
      /\ \A j \in 1..Len(q) : w[j] = q[j]
  BY <1>1 DEF q
<1>4. SubSeq(w, 1, Len(x)) = x
  BY <1>1, <1>3 DEF q
<1> QED BY <1>1, <1>2, <1>3, <1>4 DEF q

ReplacedBetween(w, i, c, x, z) == Replaced(w, i, c) = (x \o <<c>>) \o z

LEMMA CutReplaced ==
  ASSUME NEW S, NEW w \in Seq(S), NEW i \in 1..Len(w), NEW c \in S,
         NEW x, x = SubSeq(w, 1, i - 1), NEW z, z = SubSeq(w, i + 1, Len(w))
  PROVE  ReplacedBetween(w, i, c, x, z)
<1>1. \A e \in S : Replaced(w, i, e) = (SubSeq(w, 1, i - 1) \o <<e>>) \o SubSeq(w, i + 1, Len(w))
  BY CutAround, Zenon
<1> QED BY <1>1, Zenon DEF ReplacedBetween

----------------------------------------------------------------------------
(* Misspellings.                                                           *)

Dropped(w, i) == SubSeq(w, 1, i - 1) \o SubSeq(w, i + 1, Len(w))
Added(w, i, c) == SubSeq(w, 1, i) \o <<c>> \o SubSeq(w, i + 1, Len(w))

LEMMA MisspellingsAre ==
  ASSUME NEW w, NEW a
  PROVE  a \in Misspellings(w) <=>
           \/ a = w
           \/ \E i \in 1..Len(w) : a = Dropped(w, i)
           \/ \E i \in 1..Len(w), c \in Kept : a = Replaced(w, i, c)
           \/ \E i \in 0..Len(w), c \in Kept : a = Added(w, i, c)
<1>1. Misspellings(w) = {w} \cup {Dropped(w, i) : i \in 1..Len(w)}
                            \cup {Replaced(w, i, c) : i \in 1..Len(w), c \in Kept}
                            \cup {Added(w, i, c) : i \in 0..Len(w), c \in Kept}
  BY DEF Misspellings, Dropped, Replaced, Added
<1> QED BY <1>1

\* The words one edit away are the misspellings.
LEMMA EditsMisspell ==
  ASSUME NEW w \in Seq(Kept), NEW a
  PROVE  a \in Misspellings(w) <=> Edit(Kept, w, a)
<1>0. /\ Len(w) \in Nat /\ <<>> \in Short(Kept) /\ <<>> \in Seq(Kept)
      /\ \A c \in Kept : <<c>> \in Short(Kept)
  BY DEF Short
<1>1. ASSUME a = w PROVE Edit(Kept, w, a)
  <2>1. w = (w \o <<>>) \o <<>>
    OBVIOUS
  <2> QED BY <1>0, <1>1, <2>1 DEF Edit
<1>2. ASSUME NEW i \in 1..Len(w), a = Dropped(w, i)
      PROVE  Edit(Kept, w, a)
  <2>1. PICK x, z : x = SubSeq(w, 1, i - 1) /\ z = SubSeq(w, i + 1, Len(w))
    OBVIOUS
  <2>2. x \in Seq(Kept) /\ z \in Seq(Kept) /\ w = (x \o <<w[i]>>) \o z /\ w[i] \in Kept
    BY <2>1, CutAround
  <2>3. a = (x \o <<>>) \o z
    <3>1. x \o <<>> = x
      BY <2>2
    <3> QED BY <1>2, <2>1, <3>1 DEF Dropped
  <2> QED BY <1>0, <2>2, <2>3 DEF Edit
<1>3. ASSUME NEW i \in 1..Len(w), NEW c \in Kept, a = Replaced(w, i, c)
      PROVE  Edit(Kept, w, a)
  <2>1. PICK x, z : x = SubSeq(w, 1, i - 1) /\ z = SubSeq(w, i + 1, Len(w))
    OBVIOUS
  <2>2. /\ x \in Seq(Kept) /\ z \in Seq(Kept) /\ w = (x \o <<w[i]>>) \o z /\ w[i] \in Kept
    BY <2>1, CutAround
  <2>3. a = (x \o <<c>>) \o z
    <3>1. ReplacedBetween(w, i, c, x, z)
      BY <2>1, CutReplaced
    <3> QED BY ONLY <1>3, <3>1, Zenon DEF ReplacedBetween
  <2> QED BY <1>0, <2>2, <2>3 DEF Edit
<1>4. ASSUME NEW i \in 0..Len(w), NEW c \in Kept, a = Added(w, i, c)
      PROVE  Edit(Kept, w, a)
  <2>1. PICK x, z : x = SubSeq(w, 1, i) /\ z = SubSeq(w, i + 1, Len(w))
    OBVIOUS
  <2>2. x \in Seq(Kept) /\ z \in Seq(Kept) /\ w = x \o z
    BY <2>1, CutInTwo
  <2>3. w = (x \o <<>>) \o z
    <3>1. x \o <<>> = x
      BY <2>2
    <3> QED BY <2>2, <3>1
  <2>4. a = (x \o <<c>>) \o z
    BY <1>4, <2>1 DEF Added
  <2> QED BY <1>0, <2>2, <2>3, <2>4 DEF Edit
<1>5. ASSUME Edit(Kept, w, a) PROVE a \in Misspellings(w)
  <2>1. PICK x \in Seq(Kept), z \in Seq(Kept), u \in Short(Kept), v \in Short(Kept) :
          w = (x \o u) \o z /\ a = (x \o v) \o z
    BY <1>5 DEF Edit
  <2>2. x \o <<>> = x /\ Len(x) \in Nat
    OBVIOUS
  <2>3. (u = <<>> \/ \E s \in Kept : u = <<s>>) /\ (v = <<>> \/ \E s \in Kept : v = <<s>>)
    BY DEF Short
  <2>4. CASE u = v
    BY <2>1, <2>4, MisspellingsAre
  <2>5. ASSUME NEW s \in Kept, u = <<s>>, v = <<>> PROVE a \in Misspellings(w)
    <3>1. /\ Len(x) + 1 \in 1..Len(w)
          /\ SubSeq(w, 1, Len(x)) = x /\ SubSeq(w, Len(x) + 2, Len(w)) = z
      BY <2>1, <2>5, PiecesAround
    <3>2. PICK i \in 1..Len(w) : i - 1 = Len(x) /\ i + 1 = Len(x) + 2
      BY <2>2, <3>1
    <3>3. a = x \o z
      BY <2>1, <2>2, <2>5
    <3>4. a = Dropped(w, i)
      BY <3>1, <3>2, <3>3 DEF Dropped
    <3> QED BY <3>4, MisspellingsAre
  <2>6. ASSUME NEW c \in Kept, u = <<>>, v = <<c>> PROVE a \in Misspellings(w)
    <3>1. w = x \o z
      BY <2>1, <2>2, <2>6
    <3>2. /\ Len(x) \in 0..Len(w)
          /\ SubSeq(w, 1, Len(x)) = x /\ SubSeq(w, Len(x) + 1, Len(w)) = z
      BY <3>1, PiecesOfTwo
    <3>3. a = Added(w, Len(x), c)
      BY <2>1, <2>6, <3>2 DEF Added
    <3> QED BY <3>2, <3>3, MisspellingsAre
  <2>7. ASSUME NEW s \in Kept, NEW c \in Kept, u = <<s>>, v = <<c>> PROVE a \in Misspellings(w)
    <3>1. /\ Len(x) + 1 \in 1..Len(w)
          /\ SubSeq(w, 1, Len(x)) = x /\ SubSeq(w, Len(x) + 2, Len(w)) = z
      BY <2>1, <2>7, PiecesAround
    <3>2. PICK i \in 1..Len(w) : i - 1 = Len(x) /\ i + 1 = Len(x) + 2
      BY <2>2, <3>1
    <3>3. ReplacedBetween(w, i, c, x, z)
      BY <3>1, <3>2, CutReplaced
    <3>4. a = Replaced(w, i, c)
      BY ONLY <2>1, <2>7, <3>3, Zenon DEF ReplacedBetween
    <3> QED BY <3>4, MisspellingsAre
  <2> QED BY <2>3, <2>4, <2>5, <2>6, <2>7
<1>6. ASSUME a \in Misspellings(w) PROVE Edit(Kept, w, a)
  BY <1>1, <1>2, <1>3, <1>4, <1>6, MisspellingsAre
<1> QED BY <1>5, <1>6
\* What the fuzzy round counts as a misspelling is one.
LEMMA MisspellsIs ==
  ASSUME NEW t \in Seq(Kept), NEW f \in Seq(Kept)
  PROVE  Misspells(t, f) <=>
           Len(t) >= FuzzyLength /\ Len(f) >= FuzzyLength
             /\ Levenshtein(t, f) <= FuzzThreshold(f)
<1>1. t \in Misspellings(f) <=> Levenshtein(t, f) <= 1
  BY EditsMisspell, EditTurns, DistanceCounts
<1>2. Misspellings(t) \cap Misspellings(f) # {} <=> Levenshtein(t, f) <= 2
  <2>1. ASSUME NEW c, c \in Misspellings(t), c \in Misspellings(f)
        PROVE  \E e \in Seq(Kept) : Edit(Kept, t, e) /\ Edit(Kept, e, f)
    <3>1. Edit(Kept, t, c) /\ Edit(Kept, c, f)
      BY <2>1, EditsMisspell, EditTurns
    <3>2. c \in Seq(Kept)
      BY <3>1, EditedWord
    <3> QED BY <3>1, <3>2
  <2>2. ASSUME NEW e \in Seq(Kept), Edit(Kept, t, e), Edit(Kept, e, f)
        PROVE  e \in Misspellings(t) /\ e \in Misspellings(f)
    <3>1. Edit(Kept, f, e)
      BY <2>2, EditTurns
    <3> QED BY <2>2, <3>1, EditsMisspell
  <2>3. Misspellings(t) \cap Misspellings(f) # {} <=>
          \E e \in Seq(Kept) : Edit(Kept, t, e) /\ Edit(Kept, e, f)
    BY <2>1, <2>2
  <2> QED BY <2>3, DistanceCounts
<1>3. Levenshtein(t, f) <= 1 => Levenshtein(t, f) <= 2
  BY DistanceIsNat
<1> QED BY ONLY <1>1, <1>2, <1>3 DEF Misspells, FuzzThreshold

----------------------------------------------------------------------------
(* The words of a name.                                                    *)

\* Where a word of a name stands.
WordAt(name, i, j) ==
  /\ i <= j
  /\ \A n \in i..j : name[n] # Separator
  /\ i > 1 => name[i - 1] = Separator
  /\ j < Len(name) => name[j + 1] = Separator

LEMMA TokensAre ==
  ASSUME NEW name, NEW t \in Tokens(name)
  PROVE  \E i \in DOMAIN name, j \in DOMAIN name :
           WordAt(name, i, j) /\ t = SubSeq(name, i, j)
<1>1. Tokens(name) = {SubSeq(name, ij[1], ij[2]) :
                        ij \in {ij \in (DOMAIN name) \X (DOMAIN name) :
                                  WordAt(name, ij[1], ij[2])}}
  BY Zenon DEF Tokens, WordAt, Separator
<1>2. PICK ij \in (DOMAIN name) \X (DOMAIN name) :
        WordAt(name, ij[1], ij[2]) /\ t = SubSeq(name, ij[1], ij[2])
  BY <1>1
<1> QED BY <1>2

\* Everything in it but separators is a letter.
Lettered(name) == \A j \in 1..Len(name) : name[j] \in Kept \/ name[j] = Separator

LEMMA TokensAreWords ==
  ASSUME NEW T, NEW name \in Seq(T), Lettered(name), NEW t \in Tokens(name)
  PROVE  t \in Seq(Kept)
<1>1. PICK i \in DOMAIN name, j \in DOMAIN name : WordAt(name, i, j) /\ t = SubSeq(name, i, j)
  BY TokensAre
<1>2. i \in 1..Len(name) /\ j \in 1..Len(name) /\ i <= j /\ Len(name) \in Nat
  BY <1>1 DEF WordAt
<1>3. \A n \in i..j : name[n] \in Kept
  BY <1>1, <1>2 DEF WordAt, Lettered
<1>4. /\ t \in Seq(T) /\ Len(t) = j - i + 1
      /\ \A n \in 1..(j - i + 1) : t[n] = name[i + n - 1]
  BY <1>1, <1>2
<1>5. \A n \in 1..Len(t) : t[n] \in Kept
  <2> SUFFICES ASSUME NEW n \in 1..Len(t) PROVE t[n] \in Kept
    OBVIOUS
  <2>1. i + n - 1 \in i..j
    BY <1>2, <1>4
  <2> QED BY <1>3, <1>4, <2>1
<1> QED BY <1>4, <1>5

LEMMA NoTokens == Tokens(<<>>) = {}
<1>1. DOMAIN <<>> = {}
  OBVIOUS
<1> QED BY <1>1, TokensAre

LEMMA FirstTokenIsWord ==
  ASSUME NEW T, NEW word \in Seq(T), Lettered(word)
  PROVE  FirstToken(word) \in Seq(Kept)
<1> DEFINE E == {i \in 0..Len(word) : i = Len(word) \/ word[i + 1] = Separator}
           m == Min(E)
<1>0. Len(word) \in Nat
  OBVIOUS
<1>1. FirstToken(word) = SubSeq(word, 1, m)
  BY Zenon DEF FirstToken, Separator
<1>2. E \in SUBSET Nat /\ E # {} /\ \A i \in E : i <= Len(word)
  BY <1>0
<1>3. m \in E /\ \A i \in E : m <= i
  <2> HIDE DEF E
  <2> QED BY <1>0, <1>2, Outermost
<1>4. m \in Nat /\ m <= Len(word)
  BY <1>0, <1>3
<1>5. \A j \in 1..m : word[j] \in Kept
  <2> SUFFICES ASSUME NEW j \in 1..m PROVE word[j] \in Kept
    OBVIOUS
  <2> HIDE DEF m
  <2>0. j \in Int /\ 1 <= j /\ j <= m
    BY <1>4
  <2>1. j - 1 \in 0..Len(word) /\ j - 1 < m /\ (j - 1) + 1 = j /\ j \in 1..Len(word)
    BY <1>0, <1>4
  <2>2. j - 1 \notin E
    <3> HIDE DEF E
    <3>1. ~(m <= j - 1)
      BY ONLY <1>4, <2>1
    <3> QED BY <1>3, <3>1
  <2>3. word[j] # Separator
    BY <2>1, <2>2
  <2> QED BY <2>1, <2>3 DEF Lettered
<1> HIDE DEF m
<1>6. /\ SubSeq(word, 1, m) \in Seq(T) /\ Len(SubSeq(word, 1, m)) = m
      /\ \A j \in 1..m : SubSeq(word, 1, m)[j] = word[j]
  BY <1>0, <1>4
<1> DEFINE s == SubSeq(word, 1, m)
<1>7. s \in Seq(Kept)
  <2>1. s \in Seq(T) /\ Len(s) = m /\ \A j \in 1..m : s[j] \in Kept
    BY <1>5, <1>6
  <2> HIDE DEF s
  <2> QED BY <2>1
<1> QED BY <1>1, <1>7

LEMMA KeywordWords ==
  ASSUME NEW k \in Keywords
  PROVE  /\ k.word \in Seq(Kept \cup {Separator}) /\ k.word # <<>>
         /\ Lettered(k.word) /\ k.category # Uncategorized
<1>1. /\ k.word \in Seq(Kept \cup {Separator}) /\ k.word # <<>>
      /\ k.category # Uncategorized
  BY KeywordsAssumption, Zenon DEF Separator
<1>2. Lettered(k.word)
  BY <1>1 DEF Lettered
<1> QED BY <1>1, <1>2

LEMMA FuzzyIsMisspelt ==
  ASSUME NEW T, NEW name \in Seq(T), Lettered(name), NEW k \in Keywords
  PROVE  Fuzzy(name, k.word) <=> \E t \in Tokens(name) : Misspells(t, FirstToken(k.word))
<1>1. FirstToken(k.word) \in Seq(Kept)
  BY KeywordWords, FirstTokenIsWord
<1>2. \A t \in Tokens(name) :
        Misspells(t, FirstToken(k.word)) <=>
          Len(t) >= FuzzyLength /\ Len(FirstToken(k.word)) >= FuzzyLength
            /\ Levenshtein(t, FirstToken(k.word)) <= FuzzThreshold(FirstToken(k.word))
  BY <1>1, TokensAreWords, MisspellsIs
<1> QED BY <1>2 DEF Fuzzy

LEMMA NothingInNoName ==
  ASSUME NEW k \in Keywords
  PROVE  ~Exact(<<>>, k.word)
<1>1. Len(k.word) \in Nat \ {0} /\ Len(<<>>) = 0
  BY KeywordWords
<1>2. ~Within(<<>>, k.word)
  BY <1>1 DEF Within
<1> QED BY <1>2, NoTokens DEF Exact

\* Without rules the two rounds decide.
LEMMA RoundsDecide ==
  ASSUME NEW d
  PROVE  CategorizeName(d, <<>>) = {Uncategorized} <=>
           \/ Normalize(d) = <<>>
           \/ \A k \in Keywords : ~Exact(Normalize(d), k.word) /\ ~Fuzzy(Normalize(d), k.word)
<1> DEFINE n == Normalize(d)
           exact == {k.category : k \in {k \in Keywords : Exact(n, k.word)}}
           fuzzy == {k.category : k \in {k \in Keywords : Fuzzy(n, k.word)}}
           rules == <<>>
           ruled == {i \in DOMAIN rules :
                       Normalize(rules[i].pattern) # <<>>
                         /\ Within(n, Normalize(rules[i].pattern))}
<1>1. ruled = {}
  <2>1. DOMAIN rules = {}
    OBVIOUS
  <2> HIDE DEF rules
  <2> QED BY <2>1
<1>2. CategorizeName(d, rules) =
        IF n = <<>> THEN {Uncategorized}
        ELSE IF exact # {} THEN exact
        ELSE IF fuzzy # {} THEN fuzzy
        ELSE {Uncategorized}
  <2> HIDE DEF rules
  <2> QED BY <1>1 DEF CategorizeName
<1>3. Uncategorized \notin exact /\ Uncategorized \notin fuzzy
  BY KeywordWords
<1>4. /\ exact = {} <=> \A k \in Keywords : ~Exact(n, k.word)
      /\ fuzzy = {} <=> \A k \in Keywords : ~Fuzzy(n, k.word)
  OBVIOUS
<1> HIDE DEF exact, fuzzy, n
<1>5. CategorizeName(d, rules) = {Uncategorized} <=> n = <<>> \/ (exact = {} /\ fuzzy = {})
  BY <1>2, <1>3
<1> QED BY <1>4, <1>5 DEF n

\* A name without a keyword, and without a misspelt one, has no category, and
\* every other has one (Categorize, fuzzThreshold and levenshtein in
\* engine.go): the edit distances that the fuzzy round allows are exactly one
\* letter more, less or other, twice in long words.  For every alphabet whose
\* letters are bytes, table of keywords and descriptions of every length.
THEOREM MisspeltWordsAreFound == Spec => []MisspellingsAbsorbed
<1> DEFINE Names == description \in Seq(Characters)
<1>1. Init => Names
  BY DEF Init
<1>2. Names /\ [Next]_vars => Names'
  <2> SUFFICES ASSUME Names, [Next]_vars PROVE Names'
    OBVIOUS
  <2>1. CASE AnotherCharacter
    BY <2>1 DEF AnotherCharacter
  <2>2. CASE AnotherRow \/ AnotherEntry \/ UNCHANGED vars
    BY <2>2 DEF AnotherRow, AnotherEntry, vars
  <2> QED BY <2>1, <2>2 DEF Next
<1>3. Names => MisspellingsAbsorbed
  <2> SUFFICES ASSUME Names PROVE MisspellingsAbsorbed
    OBVIOUS
  <2> DEFINE name == Normalize(description)
             known == \E k \in Keywords : Exact(name, k.word)
             misspelt == \E k \in Keywords, t \in Tokens(name) : Misspells(t, FirstToken(k.word))
  <2>1. description \in Seq(Chars)
    <3>1. Characters \subseteq Chars
      BY DEF Chars
    <3> QED BY <3>1
  <2>2. name \in Seq(Chars) /\ Lettered(name)
    <3>1. name \in Seq(Chars) /\ Tidy(name)
      BY <2>1, NormalizedIsTidy
    <3> HIDE DEF name
    <3>2. Lettered(name)
      BY <3>1 DEF Tidy, Lettered
    <3> QED BY <3>1, <3>2
  <2> HIDE DEF name
  <2>3. \A k \in Keywords :
          Fuzzy(name, k.word) <=> \E t \in Tokens(name) : Misspells(t, FirstToken(k.word))
    BY <2>2, FuzzyIsMisspelt
  <2>4. name = <<>> => ~known /\ ~misspelt
    BY NothingInNoName, NoTokens
  <2>5. CategorizeName(description, <<>>) = {Uncategorized} <=>
          name = <<>> \/ \A k \in Keywords : ~Exact(name, k.word) /\ ~Fuzzy(name, k.word)
    BY RoundsDecide DEF name
  <2>6. CategorizeName(description, <<>>) = {Uncategorized} <=> ~known /\ ~misspelt
    BY ONLY <2>3, <2>4, <2>5
  <2> QED BY <2>6 DEF MisspellingsAbsorbed, name
<1> QED BY <1>1, <1>2, <1>3, PTL DEF Spec

----------------------------------------------------------------------------
(* The texts of statements.                                                *)

\* What a statement is to give back of an entry.
Booking(e) == [date |-> e.date, text |-> Text(e), cents |-> e.cents, credit |-> e.credit]

Booked == {Booking(e) : e \in Entries}

BookStep(es, i, list) ==
  IF es[i].cents = 0 THEN list ELSE Append(list, Booking(es[i]))

\* f has the transactions of es, up to each of its places.
Books(es, f) ==
  /\ f \in [0..Len(es) -> Seq(Booked)]
  /\ f[0] = <<>>
  /\ \A i \in 1..Len(es) : f[i] = BookStep(es, i, f[i - 1])

LEMMA TransactionsBook ==
  ASSUME NEW es \in Seq(Entries)
  PROVE  \E f : Books(es, f) /\ Transactions(es) = f[Len(es)]
<1> DEFINE n == Len(es)
           Q == Seq(Booked)
           st == [i \in 1..n |-> [q \in Q |-> BookStep(es, i, q)]]
<1>0. n \in Nat
  OBVIOUS
<1>1. st \in [1..n -> [Q -> Q]]
  <2>1. ASSUME NEW i \in 1..n, NEW q \in Q PROVE BookStep(es, i, q) \in Q
    <3>1. Booking(es[i]) \in Booked
      BY DEF Booked
    <3> HIDE DEF Q
    <3> QED BY <3>1 DEF BookStep, Q
  <2> QED BY <2>1
<1>2. \A i \in 1..n, q \in Q : st[i][q] = BookStep(es, i, q)
  OBVIOUS
<1>3. <<>> \in Q
  OBVIOUS
<1>4. PICK f : Walks(f, n, Q, <<>>, st)
  <2> HIDE DEF n, Q, st
  <2> QED BY <1>0, <1>1, <1>3, WalkExists
<1>5. Books(es, f)
  <2>1. ASSUME NEW i \in 1..n PROVE f[i] = BookStep(es, i, f[i - 1])
    <3>1. f[i] = st[i][f[i - 1]] /\ f[i - 1] \in Q
      <4> HIDE DEF n, Q, st
      <4> QED BY <1>0, <1>4 DEF Walks
    <3> QED BY <1>2, <3>1
  <2> QED BY <1>4, <2>1 DEF Walks, Books
<1> DEFINE more(i) == IF es[i].cents = 0 THEN <<>> ELSE <<Booking(es[i])>>
           rec(g) == g = [i \in 0..Len(es) |-> IF i = 0 THEN <<>> ELSE g[i - 1] \o more(i)]
           h == CHOOSE g : rec(g)
<1>6. rec(f)
  <2>1. f = [i \in 0..Len(es) |-> f[i]]
    BY <1>5 DEF Books
  <2>2. ASSUME NEW i \in 0..Len(es) PROVE f[i] = IF i = 0 THEN <<>> ELSE f[i - 1] \o more(i)
    <3>1. CASE i = 0
      BY <1>5, <3>1 DEF Books
    <3>2. CASE i # 0
      <4>1. i \in 1..Len(es) /\ i - 1 \in 0..Len(es)
        BY <1>0, <3>2
      <4>2. f[i] = BookStep(es, i, f[i - 1]) /\ f[i - 1] \in Seq(Booked)
        BY <1>5, <4>1 DEF Books
      <4>3. Booking(es[i]) \in Booked
        BY <4>1 DEF Booked
      <4>4. /\ f[i - 1] \o <<>> = f[i - 1]
            /\ f[i - 1] \o <<Booking(es[i])>> = Append(f[i - 1], Booking(es[i]))
        BY <4>2, <4>3
      <4> QED BY <3>2, <4>2, <4>4 DEF BookStep
    <3> QED BY <3>1, <3>2
  <2> HIDE DEF more
  <2> QED BY <2>1, <2>2
<1>7. Transactions(es) = h[Len(es)]
  BY DEF Transactions, Booking
<1>8. rec(h)
  <2> HIDE DEF rec
  <2> QED BY <1>6
<1>9. \A i \in 0..n : h[i] = f[i]
  <2> DEFINE P == {i \in 0..n : h[i] = f[i]}
  <2>1. \A i \in 0..n : h[i] = IF i = 0 THEN <<>> ELSE h[i - 1] \o more(i)
    <3> HIDE DEF h, more
    <3> QED BY <1>8
  <2>2. \A i \in 0..n : f[i] = IF i = 0 THEN <<>> ELSE f[i - 1] \o more(i)
    <3> HIDE DEF h, more
    <3> QED BY <1>6
  <2> HIDE DEF h, more
  <2>3. 0 \in P
    BY <1>0, <2>1, <2>2
  <2>4. ASSUME NEW i \in (0 + 1)..n, i - 1 \in P PROVE i \in P
    BY <1>0, <2>1, <2>2, <2>4
  <2> HIDE DEF P
  <2>5. \A i \in 0..n : i \in P
    BY <1>0, <2>3, <2>4, AllAlong
  <2> QED BY <2>5 DEF P
<1>10. h[n] = f[n]
  <2> HIDE DEF h
  <2>1. n \in 0..n
    BY <1>0
  <2> QED BY <1>9, <2>1
<1> QED BY <1>5, <1>7, <1>10

\* What the rows of a statement yield: r has the transaction of each, if any.
Yields(r, es) ==
  /\ DOMAIN r = 1..Len(es)
  /\ \A i \in 1..Len(es) : r[i] = IF es[i].cents = 0 THEN {} ELSE {Booking(es[i])}

GatherStep(r, i, list) == IF r[i] = {} THEN list ELSE Append(list, Any(r[i]))

Gathers(r, n, h) ==
  /\ h[0] = <<>>
  /\ \A i \in 1..n : h[i] = GatherStep(r, i, h[i - 1])

LEMMA GatheredIsBooked ==
  ASSUME NEW es \in Seq(Entries), NEW r, Yields(r, es), NEW h, Gathers(r, Len(es), h)
  PROVE  h[Len(es)] = Transactions(es)
<1>1. PICK f : Books(es, f) /\ Transactions(es) = f[Len(es)]
  BY TransactionsBook
<1> DEFINE P == {i \in 0..Len(es) : h[i] = f[i]}
<1>2. Len(es) \in Nat
  OBVIOUS
<1>3. 0 \in P
  BY <1>1, <1>2 DEF Books, Gathers
<1>4. ASSUME NEW i \in (0 + 1)..Len(es), i - 1 \in P PROVE i \in P
  <2>1. i \in 1..Len(es) /\ i \in 0..Len(es)
    BY <1>2
  <2>2. f[i] = BookStep(es, i, f[i - 1]) /\ h[i] = GatherStep(r, i, h[i - 1])
    BY <1>1, <2>1 DEF Books, Gathers
  <2>3. r[i] = IF es[i].cents = 0 THEN {} ELSE {Booking(es[i])}
    BY <2>1 DEF Yields
  <2>4. Any({Booking(es[i])}) = Booking(es[i])
    BY DEF Any
  <2>5. h[i] = f[i]
    BY <1>4, <2>2, <2>3, <2>4 DEF BookStep, GatherStep
  <2> QED BY <2>1, <2>5
<1>5. \A i \in 0..Len(es) : i \in P
  <2> HIDE DEF P
  <2> QED BY <1>2, <1>3, <1>4, AllAlong
<1> QED BY <1>1, <1>2, <1>5

Fills(f, r, n) == f = [i \in 0..n |-> IF i = 0 THEN <<>> ELSE GatherStep(r, i, f[i - 1])]

LEMMA GatherExists ==
  ASSUME NEW n \in Nat, NEW r
  PROVE  \E f : Fills(f, r, n)
<1> DEFINE U == UNION {r[i] : i \in 1..n}
           Q == Seq(U)
           st == [i \in 1..n |-> [q \in Q |-> GatherStep(r, i, q)]]
<1>1. st \in [1..n -> [Q -> Q]]
  <2>1. ASSUME NEW i \in 1..n, NEW q \in Q PROVE GatherStep(r, i, q) \in Q
    <3>1. CASE r[i] = {}
      BY <3>1 DEF GatherStep
    <3>2. CASE r[i] # {}
      <4> DEFINE t == Any(r[i])
      <4>1. t \in r[i]
        BY <3>2 DEF Any
      <4>2. t \in U
        BY <4>1
      <4> HIDE DEF t
      <4>3. Append(q, t) \in Q
        BY <4>2
      <4> QED BY <3>2, <4>3 DEF GatherStep, t
    <3> QED BY <3>1, <3>2
  <2> QED BY <2>1
<1>2. \A i \in 1..n, q \in Q : st[i][q] = GatherStep(r, i, q)
  OBVIOUS
<1>3. <<>> \in Q
  OBVIOUS
<1> HIDE DEF Q, st
<1>4. PICK f : Walks(f, n, Q, <<>>, st)
  BY <1>1, <1>3, WalkExists
<1>5. \A i \in 0..n : f[i] = IF i = 0 THEN <<>> ELSE GatherStep(r, i, f[i - 1])
  <2> SUFFICES ASSUME NEW i \in 0..n, i # 0 PROVE f[i] = GatherStep(r, i, f[i - 1])
    BY <1>4 DEF Walks
  <2>1. i \in 1..n /\ i - 1 \in 0..n
    OBVIOUS
  <2> QED BY <1>2, <1>4, <2>1 DEF Walks
<1>6. f = [i \in 0..n |-> f[i]]
  BY <1>4 DEF Walks
<1>7. f = [i \in 0..n |-> IF i = 0 THEN <<>> ELSE GatherStep(r, i, f[i - 1])]
  BY <1>5, <1>6
<1> QED BY <1>7 DEF Fills

LEMMA DateIsRead ==
  ASSUME NEW e \in Entries
  PROVE  ParseDate(Date(e.date)) = {e.date}
<1>1. e.date \in [day : 1..31, month : 1..12] /\ IsDate(e.date.day, e.date.month)
  BY EntriesAssumption
<1>2. e.date = [day |-> e.date.day, month |-> e.date.month]
  BY <1>1
<1>3. /\ Date(e.date).is = "date"
      /\ Date(e.date).first = e.date.day /\ Date(e.date).second = e.date.month
  BY DEF Date
<1> QED BY <1>1, <1>2, <1>3 DEF ParseDate

\* What a line yields, of its dates and amounts.
Bookings(line, dates, amounts) ==
  {[date |-> d, text |-> line.text, cents |-> a.cents, credit |-> CreditLine(line, a.neg)] :
     d \in dates, a \in amounts}

OfLine(line, last) ==
  Bookings(line, ParseDate(line.date), {a \in CleanAmount(last) : last.point /\ a.cents # 0})

LEMMA ParseLineIs ==
  ASSUME NEW line
  PROVE  ParseLine(line) =
           IF line.numbers = <<>> \/ line.words \cap Headings # {} THEN {}
           ELSE OfLine(line, line.numbers[Len(line.numbers)])
BY DEF ParseLine, OfLine, Bookings

LEMMA LineIsRead ==
  ASSUME NEW e \in Entries, NEW plain \in BOOLEAN
  PROVE  ParseLine(TextLine(e, plain)) = IF e.cents = 0 THEN {} ELSE {Booking(e)}
<1> DEFINE line == TextLine(e, plain)
           sign == IF plain /\ ~e.credit THEN "-" ELSE ""
           number == Number(e.cents, sign, FALSE)
           a == [cents |-> e.cents, neg |-> sign # ""]
<1>1. e.words \cap Headings = {} /\ e.credit \in BOOLEAN /\ e.cents \in Nat
  BY EntriesAssumption
<1>2. /\ line.date = Date(e.date) /\ line.text = Text(e) /\ line.words = e.words
      /\ line.numbers = <<number>>
      /\ line.marker = IF e.credit THEN "CR" ELSE IF plain THEN "" ELSE "DR"
  BY DEF TextLine
<1>3. number = [is |-> "number", digits |-> e.cents, point |-> TRUE, sign |-> sign]
  BY DEF Number
<1> HIDE DEF line, number
<1>4. CreditLine(line, sign # "") = e.credit
  <2>1. CASE e.credit
    BY <1>2, <2>1 DEF CreditLine
  <2>2. CASE ~e.credit /\ plain
    BY <1>1, <1>2, <2>2 DEF CreditLine
  <2>3. CASE ~e.credit /\ ~plain
    BY <1>1, <1>2, <2>3 DEF CreditLine
  <2> QED BY <2>1, <2>2, <2>3
<1> HIDE DEF sign
<1>5. CleanAmount(number) = {a} /\ number.point
  BY <1>3 DEF CleanAmount
<1>6. a.cents = e.cents /\ a.neg = (sign # "")
  OBVIOUS
<1> HIDE DEF a
<1>7. line.numbers # <<>> /\ line.numbers[Len(line.numbers)] = number
  <2>1. <<number>> # <<>> /\ <<number>>[Len(<<number>>)] = number
    OBVIOUS
  <2> QED BY <1>2, <2>1
<1>8. ParseLine(line) = OfLine(line, line.numbers[Len(line.numbers)])
  BY <1>1, <1>2, <1>7, ParseLineIs
<1>9. ParseLine(line) = OfLine(line, number)
  BY <1>7, <1>8
<1>10. ParseDate(line.date) = {e.date}
  BY <1>2, DateIsRead
<1>11. CASE e.cents = 0
  <2>1. {b \in CleanAmount(number) : number.point /\ b.cents # 0} = {}
    BY <1>5, <1>6, <1>11
  <2>2. Bookings(line, {e.date}, {}) = {}
    BY DEF Bookings
  <2>3. ParseLine(line) = {}
    BY <1>9, <1>10, <2>1, <2>2 DEF OfLine
  <2> QED BY <1>11, <2>3 DEF line
<1>12. CASE e.cents # 0
  <2>1. {b \in CleanAmount(number) : number.point /\ b.cents # 0} = {a}
    BY <1>5, <1>6, <1>12
  <2>2. Bookings(line, {e.date}, {a}) =
          {[date |-> e.date, text |-> line.text, cents |-> a.cents,
            credit |-> CreditLine(line, a.neg)]}
    BY DEF Bookings
  <2>3. CreditLine(line, a.neg) = e.credit
    BY <1>4, <1>6
  <2>4. Bookings(line, {e.date}, {a}) = {Booking(e)}
    BY <1>2, <1>6, <2>2, <2>3 DEF Booking
  <2>5. ParseLine(line) = {Booking(e)}
    BY <1>9, <1>10, <2>1, <2>4 DEF OfLine
  <2> QED BY <1>12, <2>5 DEF line
<1> QED BY <1>11, <1>12

LEMMA ClosingIsSkipped ==
  ASSUME NEW e
  PROVE  ParseLine(Closing(e)) = {}
<1>1. Closing(e).words = {"closing", "balance"}
  BY DEF Closing, TextLine
<1>2. "balance" \in Closing(e).words \cap Headings
  BY <1>1 DEF Headings
<1> QED BY <1>2 DEF ParseLine

TextStep(lines, i, list) ==
  IF ParseLine(lines[i]) = {} THEN list
  ELSE Append(list, Any(ParseLine(lines[i])))

LEMMA TextGathers ==
  ASSUME NEW rows, NEW n \in Nat, Len(rows) = n,
         NEW r, \A i \in 1..n : r[i] = ParseLine(rows[i])
  PROVE  \E h : Gathers(r, n, h) /\ ParseStatementText(rows) = h[n]
<1> DEFINE rec(g) == g = [i \in 0..Len(rows) |->
                           IF i = 0 THEN <<>> ELSE TextStep(rows, i, g[i - 1])]
           h == CHOOSE g : rec(g)
<1>1. ParseStatementText(rows) = h[Len(rows)]
  BY DEF ParseStatementText, Each, TextStep, Any
<1>2. ASSUME NEW i \in 1..n, NEW list PROVE GatherStep(r, i, list) = TextStep(rows, i, list)
  BY DEF GatherStep, TextStep
<1>3. /\ 0 \in 0..n
      /\ \A i \in 0..n : i = 0 \/ i \in 1..n
      /\ \A i \in 1..n : i \in 0..n /\ i # 0
  OBVIOUS
<1>4. PICK f : Fills(f, r, n)
  BY GatherExists
<1>5. \A i \in 0..n : i = 0 \/ GatherStep(r, i, f[i - 1]) = TextStep(rows, i, f[i - 1])
  BY <1>2, <1>3
<1>6. rec(f)
  BY <1>4, <1>5 DEF Fills
<1>7. rec(h)
  <2> HIDE DEF rec
  <2> QED BY <1>6
<1> HIDE DEF h
<1>8. h[0] = <<>> /\ \A i \in 1..n : h[i] = TextStep(rows, i, h[i - 1])
  BY <1>3, <1>7
<1>9. Gathers(r, n, h)
  BY <1>2, <1>8 DEF Gathers
<1> QED BY <1>1, <1>9

\* Entries are listed one by one.
LEMMA ListsOfEntries == Spec => [](entries \in Seq(Entries))
<1> DEFINE Listed == entries \in Seq(Entries)
<1>1. Init => Listed
  BY DEF Init
<1>2. Listed /\ [Next]_vars => Listed'
  <2> SUFFICES ASSUME Listed, [Next]_vars PROVE Listed'
    OBVIOUS
  <2>1. CASE AnotherEntry
    BY <2>1 DEF AnotherEntry
  <2>2. CASE AnotherRow \/ AnotherCharacter \/ UNCHANGED vars
    BY <2>2 DEF AnotherRow, AnotherCharacter, vars
  <2> QED BY <2>1, <2>2 DEF Next
<1> QED BY <1>1, <1>2, PTL DEF Spec

\* The text of a statement gives back its entries (ParseStatementText in
\* ocr.go), for statements of every length over any entries whose words are
\* none of the headings the parser skips.
THEOREM TextsAreRead == Spec => []TextRoundTrip
<1>1. entries \in Seq(Entries) => TextRoundTrip
  <2> SUFFICES ASSUME entries \in Seq(Entries), NEW plain \in BOOLEAN
               PROVE  ParseStatementText(
                        Append([i \in DOMAIN entries |-> TextLine(entries[i], plain)],
                               Closing(entries[1])))
                        = Transactions(entries)
    BY DEF TextRoundTrip
  <2> DEFINE n == Len(entries)
             lines == [i \in DOMAIN entries |-> TextLine(entries[i], plain)]
             all == Append(lines, Closing(entries[1]))
             q == [i \in 1..n |-> ParseLine(all[i])]
             r == [i \in 1..(n + 1) |-> ParseLine(all[i])]
  <2>1. /\ n \in Nat /\ n + 1 \in Nat /\ DOMAIN entries = 1..n
        /\ \A i \in 1..n : i \in 1..(n + 1) /\ entries[i] \in Entries
    OBVIOUS
  <2>2. /\ Len(all) = n + 1 /\ all[n + 1] = Closing(entries[1])
        /\ \A i \in 1..n : all[i] = TextLine(entries[i], plain)
    <3> DEFINE any == {TextLine(entries[i], plain) : i \in 1..n} \cup {Closing(entries[1])}
    <3>1. lines \in Seq(any) /\ Len(lines) = n
      BY <2>1
    <3>2. \A i \in 1..n : lines[i] = TextLine(entries[i], plain)
      BY <2>1
    <3>3. Closing(entries[1]) \in any
      OBVIOUS
    <3> HIDE DEF n, lines, any
    <3> QED BY <2>1, <3>1, <3>2, <3>3
  <2> HIDE DEF all, lines
  <2>3. Yields(q, entries)
    <3>1. ASSUME NEW i \in 1..n
          PROVE  q[i] = IF entries[i].cents = 0 THEN {} ELSE {Booking(entries[i])}
      BY <2>1, <2>2, LineIsRead
    <3> QED BY <3>1 DEF Yields
  <2>4. /\ \A i \in 1..(n + 1) : r[i] = ParseLine(all[i])
        /\ \A i \in 1..n : q[i] = ParseLine(all[i])
    OBVIOUS
  <2>5. n + 1 \in 1..(n + 1) /\ (n + 1) - 1 = n
    BY <2>1
  <2> HIDE DEF r, q, n
  <2>6. PICK h : Gathers(r, n + 1, h) /\ ParseStatementText(all) = h[n + 1]
    BY <2>1, <2>2, <2>4, TextGathers
  <2>7. Gathers(q, n, h)
    <3>1. ASSUME NEW i \in 1..n PROVE h[i] = GatherStep(q, i, h[i - 1])
      <4>1. q[i] = r[i]
        BY <2>1, <2>4
      <4>2. h[i] = GatherStep(r, i, h[i - 1])
        BY <2>1, <2>6 DEF Gathers
      <4> QED BY <4>1, <4>2 DEF GatherStep
    <3> QED BY <2>6, <3>1 DEF Gathers
  <2>8. h[n] = Transactions(entries)
    BY <2>3, <2>7, GatheredIsBooked DEF n
  <2>9. h[n + 1] = h[n]
    <3>1. r[n + 1] = {}
      BY <2>2, <2>4, <2>5, ClosingIsSkipped
    <3>2. h[n + 1] = GatherStep(r, n + 1, h[n])
      BY <2>5, <2>6 DEF Gathers
    <3> QED BY <3>1, <3>2 DEF GatherStep
  <2> QED BY <2>6, <2>8, <2>9 DEF all, lines
<1> QED BY <1>1, ListsOfEntries, PTL

----------------------------------------------------------------------------
(* CSV statements.                                                         *)

\* Names of columns; the solver takes them as they are, without their letters.
cDate              == "date"
cTransactionDate   == "transaction date"
cPostedDate        == "posted date"
cValueDate         == "value date"
cPostingDate       == "posting date"
cDescription       == "description"
cMerchant          == "merchant"
cDetails           == "details"
cNarrative         == "narrative"
cMemo              == "memo"
cPayee             == "payee"
cTransactionText   == "transaction description"
cAmount            == "amount"
cValue             == "value"
cTransactionAmount == "transaction amount"
cBillingAmount     == "billing amount"
cBilledAmount      == "billed amount"
cDebit             == "debit"
cDebitAmount       == "debit amount"
cMoneyOut          == "money out"
cPaidOut           == "paid out"
cWithdrawal        == "withdrawal"
cCredit            == "credit"
cCreditAmount      == "credit amount"
cMoneyIn           == "money in"
cPaidIn            == "paid in"
cDeposit           == "deposit"
cFlag              == "debit/credit flag"
cSpacedFlag        == "debit / credit flag"
cShortFlag         == "debit/credit"
cIndicator         == "dr/cr indicator"
cDrCr              == "dr/cr"
cBalance           == "balance"

LEMMA SynonymsAre ==
  Synonyms =
    [date        |-> <<cDate, cTransactionDate, cPostedDate, cValueDate>>,
     description |-> <<cDescription, cMerchant, cDetails, cNarrative, cMemo, cPayee,
                       cTransactionText>>,
     amount      |-> <<cAmount, cValue, cTransactionAmount, cBillingAmount, cBilledAmount>>,
     debit       |-> <<cDebit, cDebitAmount, cMoneyOut, cPaidOut, cWithdrawal>>,
     credit      |-> <<cCredit, cCreditAmount, cMoneyIn, cPaidIn, cDeposit>>,
     flag        |-> <<cFlag, cSpacedFlag, cShortFlag, cIndicator, cDrCr>>]
BY Zenon DEF Synonyms, cDate, cTransactionDate, cPostedDate, cValueDate, cDescription, cMerchant,
             cDetails, cNarrative, cMemo, cPayee, cTransactionText, cAmount, cValue,
             cTransactionAmount, cBillingAmount, cBilledAmount, cDebit, cDebitAmount, cMoneyOut,
             cPaidOut, cWithdrawal, cCredit, cCreditAmount, cMoneyIn, cPaidIn, cDeposit, cFlag,
             cSpacedFlag, cShortFlag, cIndicator, cDrCr

SignedColumn == <<cDate, cDescription, cAmount, cBalance>>
OtherColumns == <<cValueDate, cBalance, cAmount, cMemo, cTransactionDate, cDetails>>
TwoColumns   == <<cDate, cDetails, cMoneyOut, cMoneyIn>>
FlagColumn   == <<cTransactionDate, cPostingDate, cBillingAmount, cMerchant, cFlag>>

LEMMA HeadersAre == Headers = {SignedColumn, OtherColumns, TwoColumns, FlagColumn}
BY Zenon DEF Headers, SignedColumn, OtherColumns, TwoColumns, FlagColumn, cDate, cDescription,
             cAmount, cBalance, cValueDate, cMemo, cTransactionDate, cDetails, cMoneyOut, cMoneyIn,
             cPostingDate, cBillingAmount, cMerchant, cFlag

FlagNames   == {cFlag, cSpacedFlag, cShortFlag, cIndicator, cDrCr}
AmountNames == {cAmount, cValue, cTransactionAmount, cBillingAmount, cBilledAmount}

LEMMA SignedApart ==
  /\ {cDate} \cap {cDescription, cAmount, cBalance} = {}
  /\ {cDescription} \cap {cAmount, cBalance} = {}
  /\ {cAmount} \cap {cBalance} = {}
  /\ FlagNames \cap {cDate, cDescription, cAmount, cBalance} = {}
BY Zenon DEF FlagNames, cDate, cDescription, cAmount, cBalance, cFlag, cSpacedFlag, cShortFlag,
             cIndicator, cDrCr

LEMMA OtherApart ==
  /\ {cDate, cTransactionDate} \cap {cValueDate, cBalance, cAmount, cMemo, cDetails} = {}
  /\ cDate # cTransactionDate
  /\ {cDescription, cMerchant, cDetails}
       \cap {cValueDate, cBalance, cAmount, cMemo, cTransactionDate} = {}
  /\ {cDescription, cMerchant} \cap {cDetails} = {}
  /\ {cAmount} \cap {cValueDate, cBalance, cMemo} = {}
  /\ FlagNames \cap {cValueDate, cBalance, cAmount, cMemo, cTransactionDate, cDetails} = {}
BY Zenon DEF FlagNames, cDate, cTransactionDate, cValueDate, cBalance, cAmount, cMemo, cDetails,
             cDescription, cMerchant, cFlag, cSpacedFlag, cShortFlag, cIndicator, cDrCr

LEMMA TwoApart ==
  /\ {cDate} \cap {cDetails, cMoneyOut, cMoneyIn} = {}
  /\ {cDescription, cMerchant, cDetails} \cap {cDate, cMoneyOut, cMoneyIn} = {}
  /\ {cDescription, cMerchant} \cap {cDetails} = {}
  /\ AmountNames \cap {cDate, cDetails, cMoneyOut, cMoneyIn} = {}
  /\ {cDebit, cDebitAmount, cMoneyOut} \cap {cDate, cDetails, cMoneyIn} = {}
  /\ {cDebit, cDebitAmount} \cap {cMoneyOut} = {}
  /\ {cCredit, cCreditAmount, cMoneyIn} \cap {cDate, cDetails, cMoneyOut} = {}
  /\ {cCredit, cCreditAmount} \cap {cMoneyIn} = {}
BY Zenon DEF AmountNames, cDate, cDetails, cMoneyOut, cMoneyIn, cDescription, cMerchant, cAmount,
             cValue, cTransactionAmount, cBillingAmount, cBilledAmount, cDebit, cDebitAmount,
             cCredit, cCreditAmount

LEMMA FlagApart ==
  /\ {cDate, cTransactionDate} \cap {cPostingDate, cBillingAmount, cMerchant, cFlag} = {}
  /\ cDate # cTransactionDate
  /\ {cDescription, cMerchant} \cap {cTransactionDate, cPostingDate, cBillingAmount, cFlag} = {}
  /\ cDescription # cMerchant
  /\ {cAmount, cValue, cTransactionAmount, cBillingAmount}
       \cap {cTransactionDate, cPostingDate, cMerchant, cFlag} = {}
  /\ {cAmount, cValue, cTransactionAmount} \cap {cBillingAmount} = {}
  /\ {cFlag} \cap {cTransactionDate, cPostingDate, cBillingAmount, cMerchant} = {}
BY Zenon DEF cDate, cTransactionDate, cPostingDate, cBillingAmount, cMerchant, cFlag,
             cDescription, cAmount, cValue, cTransactionAmount

LEMMA MaxOfOne ==
  ASSUME NEW k \in Nat
  PROVE  Max({k}) = k
<1> DEFINE S == {k}
<1>1. S \in SUBSET Nat /\ S # {} /\ \A i \in S : i <= k
  OBVIOUS
<1> HIDE DEF S
<1>2. Max(S) \in S
  BY <1>1, Outermost
<1> QED BY <1>2 DEF S

\* Of the q names of a role, the m-th is the first that is a column, the k-th of n.
Leads(header, n, role, q, k, m) ==
  /\ DOMAIN header = 1..n /\ DOMAIN Synonyms[role] = 1..q
  /\ k \in 1..n /\ m \in 1..q /\ header[k] = Synonyms[role][m]
  /\ \A j \in 1..n : header[j] = header[k] => j = k
  /\ \A l \in 1..q, j \in 1..n : l < m => header[j] # Synonyms[role][l]

\* The column of a role is that of the first of its names that is there.
LEMMA ColumnIs ==
  ASSUME NEW header, NEW n \in Nat, NEW role, NEW q \in Nat, NEW k, NEW m,
         Leads(header, n, role, q, k, m)
  PROVE  Columns(header, role) = {k}
<1>0. /\ DOMAIN header = 1..n /\ DOMAIN Synonyms[role] = 1..q
      /\ k \in 1..n /\ m \in 1..q /\ header[k] = Synonyms[role][m]
      /\ \A j \in 1..n : header[j] = header[k] => j = k
      /\ \A l \in 1..q, j \in 1..n : l < m => header[j] # Synonyms[role][l]
  BY DEF Leads
<1> DEFINE named(l) == {i \in DOMAIN header : header[i] = Synonyms[role][l]}
           known == {l \in DOMAIN Synonyms[role] : named(l) # {}}
<1>1. named(m) = {k}
  BY <1>0
<1>2. m \in known /\ \A l \in known : l >= m
  <2>1. m \in known
    BY <1>0, <1>1
  <2>2. ASSUME NEW l \in known PROVE l >= m
    BY <1>0
  <2> QED BY <2>1, <2>2
<1>3. known \in SUBSET Nat /\ known # {} /\ \A l \in known : l <= q
  BY <1>0, <1>2
<1> HIDE DEF named, known
<1>4. Min(known) = m
  <2>1. Min(known) \in known /\ \A l \in known : Min(known) <= l
    BY <1>3, Outermost
  <2>2. Min(known) \in Nat /\ m \in Nat
    BY <1>0, <1>3, <2>1
  <2> QED BY <1>2, <2>1, <2>2
<1>5. Max({k}) = k
  BY <1>0, MaxOfOne
<1>6. Columns(header, role) = IF known = {} THEN {} ELSE {Max(named(Min(known)))}
  BY DEF Columns, named, known
<1> QED BY <1>1, <1>3, <1>4, <1>5, <1>6

LEMMA NoColumn ==
  ASSUME NEW header, NEW role,
         \A j \in DOMAIN header, l \in DOMAIN Synonyms[role] : header[j] # Synonyms[role][l]
  PROVE  Columns(header, role) = {}
BY DEF Columns

\* Where the parser finds the date, the description, the amount and the flag.
LEMMA SignedColumns ==
  /\ Columns(SignedColumn, "date") = {1} /\ Columns(SignedColumn, "description") = {2}
  /\ Columns(SignedColumn, "amount") = {3} /\ Columns(SignedColumn, "flag") = {}
<1> DEFINE h == SignedColumn
<1>1. /\ DOMAIN h = 1..4 /\ \A j \in 1..4 : j = 1 \/ j = 2 \/ j = 3 \/ j = 4
      /\ h[1] = cDate /\ h[2] = cDescription /\ h[3] = cAmount /\ h[4] = cBalance
  BY DEF SignedColumn
<1> HIDE DEF h
<1>2. Columns(h, "date") = {1}
  <2>1. DOMAIN Synonyms["date"] = 1..4 /\ Synonyms["date"][1] = h[1]
    BY <1>1, SynonymsAre
  <2>2. \A j \in 1..4 : h[j] = h[1] => j = 1
    BY <1>1, SignedApart
  <2>3. \A l \in 1..4, j \in 1..4 : l < 1 => h[j] # Synonyms["date"][l]
    OBVIOUS
  <2>4. Leads(h, 4, "date", 4, 1, 1)
    BY <1>1, <2>1, <2>2, <2>3 DEF Leads
  <2> QED BY <2>4, ColumnIs
<1>3. Columns(h, "description") = {2}
  <2>1. DOMAIN Synonyms["description"] = 1..7 /\ Synonyms["description"][1] = h[2]
    BY <1>1, SynonymsAre
  <2>2. \A j \in 1..4 : h[j] = h[2] => j = 2
    BY <1>1, SignedApart
  <2>3. \A l \in 1..7, j \in 1..4 : l < 1 => h[j] # Synonyms["description"][l]
    OBVIOUS
  <2>4. Leads(h, 4, "description", 7, 2, 1)
    BY <1>1, <2>1, <2>2, <2>3 DEF Leads
  <2> QED BY <2>4, ColumnIs
<1>4. Columns(h, "amount") = {3}
  <2>1. DOMAIN Synonyms["amount"] = 1..5 /\ Synonyms["amount"][1] = h[3]
    BY <1>1, SynonymsAre
  <2>2. \A j \in 1..4 : h[j] = h[3] => j = 3
    BY <1>1, SignedApart
  <2>3. \A l \in 1..5, j \in 1..4 : l < 1 => h[j] # Synonyms["amount"][l]
    OBVIOUS
  <2>4. Leads(h, 4, "amount", 5, 3, 1)
    BY <1>1, <2>1, <2>2, <2>3 DEF Leads
  <2> QED BY <2>4, ColumnIs
<1>5. Columns(h, "flag") = {}
  <2>1. \A l \in DOMAIN Synonyms["flag"] : Synonyms["flag"][l] \in FlagNames
    BY SynonymsAre DEF FlagNames
  <2>2. \A j \in DOMAIN h : h[j] \notin FlagNames
    BY <1>1, SignedApart
  <2> QED BY <2>1, <2>2, NoColumn
<1> QED BY <1>2, <1>3, <1>4, <1>5 DEF h

LEMMA OtherColumnsAre ==
  /\ Columns(OtherColumns, "date") = {5} /\ Columns(OtherColumns, "description") = {6}
  /\ Columns(OtherColumns, "amount") = {3} /\ Columns(OtherColumns, "flag") = {}
<1> DEFINE h == OtherColumns
<1>1. /\ DOMAIN h = 1..6
      /\ \A j \in 1..6 : j = 1 \/ j = 2 \/ j = 3 \/ j = 4 \/ j = 5 \/ j = 6
      /\ h[1] = cValueDate /\ h[2] = cBalance /\ h[3] = cAmount /\ h[4] = cMemo
      /\ h[5] = cTransactionDate /\ h[6] = cDetails
  BY DEF OtherColumns
<1> HIDE DEF h
<1>2. Columns(h, "date") = {5}
  <2>1. /\ DOMAIN Synonyms["date"] = 1..4 /\ Synonyms["date"][2] = h[5]
        /\ Synonyms["date"][1] = cDate
    BY <1>1, SynonymsAre
  <2>2. \A j \in 1..6 : h[j] = h[5] => j = 5
    BY <1>1, OtherApart
  <2>3. \A j \in 1..6 : h[j] # cDate
    BY <1>1, OtherApart
  <2>4. \A l \in 1..4, j \in 1..6 : l < 2 => h[j] # Synonyms["date"][l]
    BY <2>1, <2>3
  <2>5. Leads(h, 6, "date", 4, 5, 2)
    BY <1>1, <2>1, <2>2, <2>4 DEF Leads
  <2> QED BY <2>5, ColumnIs
<1>3. Columns(h, "description") = {6}
  <2>1. /\ DOMAIN Synonyms["description"] = 1..7 /\ Synonyms["description"][3] = h[6]
        /\ Synonyms["description"][1] = cDescription /\ Synonyms["description"][2] = cMerchant
    BY <1>1, SynonymsAre
  <2>2. \A j \in 1..6 : h[j] = h[6] => j = 6
    BY <1>1, OtherApart
  <2>3. \A j \in 1..6 : h[j] # cDescription /\ h[j] # cMerchant
    BY <1>1, OtherApart
  <2>4. \A l \in 1..7, j \in 1..6 : l < 3 => h[j] # Synonyms["description"][l]
    BY <2>1, <2>3
  <2>5. Leads(h, 6, "description", 7, 6, 3)
    BY <1>1, <2>1, <2>2, <2>4 DEF Leads
  <2> QED BY <2>5, ColumnIs
<1>4. Columns(h, "amount") = {3}
  <2>1. DOMAIN Synonyms["amount"] = 1..5 /\ Synonyms["amount"][1] = h[3]
    BY <1>1, SynonymsAre
  <2>2. \A j \in 1..6 : h[j] = h[3] => j = 3
    BY <1>1, OtherApart
  <2>3. \A l \in 1..5, j \in 1..6 : l < 1 => h[j] # Synonyms["amount"][l]
    OBVIOUS
  <2>4. Leads(h, 6, "amount", 5, 3, 1)
    BY <1>1, <2>1, <2>2, <2>3 DEF Leads
  <2> QED BY <2>4, ColumnIs
<1>5. Columns(h, "flag") = {}
  <2>1. \A l \in DOMAIN Synonyms["flag"] : Synonyms["flag"][l] \in FlagNames
    BY SynonymsAre DEF FlagNames
  <2>2. \A j \in DOMAIN h : h[j] \notin FlagNames
    BY <1>1, OtherApart
  <2> QED BY <2>1, <2>2, NoColumn
<1> QED BY <1>2, <1>3, <1>4, <1>5 DEF h

LEMMA TwoColumnsAre ==
  /\ Columns(TwoColumns, "date") = {1} /\ Columns(TwoColumns, "description") = {2}
  /\ Columns(TwoColumns, "amount") = {}
  /\ Columns(TwoColumns, "debit") = {3} /\ Columns(TwoColumns, "credit") = {4}
<1> DEFINE h == TwoColumns
<1>1. /\ DOMAIN h = 1..4 /\ \A j \in 1..4 : j = 1 \/ j = 2 \/ j = 3 \/ j = 4
      /\ h[1] = cDate /\ h[2] = cDetails /\ h[3] = cMoneyOut /\ h[4] = cMoneyIn
  BY DEF TwoColumns
<1> HIDE DEF h
<1>2. Columns(h, "date") = {1}
  <2>1. DOMAIN Synonyms["date"] = 1..4 /\ Synonyms["date"][1] = h[1]
    BY <1>1, SynonymsAre
  <2>2. \A j \in 1..4 : h[j] = h[1] => j = 1
    BY <1>1, TwoApart
  <2>3. \A l \in 1..4, j \in 1..4 : l < 1 => h[j] # Synonyms["date"][l]
    OBVIOUS
  <2>4. Leads(h, 4, "date", 4, 1, 1)
    BY <1>1, <2>1, <2>2, <2>3 DEF Leads
  <2> QED BY <2>4, ColumnIs
<1>3. Columns(h, "description") = {2}
  <2>1. /\ DOMAIN Synonyms["description"] = 1..7 /\ Synonyms["description"][3] = h[2]
        /\ Synonyms["description"][1] = cDescription /\ Synonyms["description"][2] = cMerchant
    BY <1>1, SynonymsAre
  <2>2. \A j \in 1..4 : h[j] = h[2] => j = 2
    BY <1>1, TwoApart
  <2>3. \A j \in 1..4 : h[j] # cDescription /\ h[j] # cMerchant
    BY <1>1, TwoApart
  <2>4. \A l \in 1..7, j \in 1..4 : l < 3 => h[j] # Synonyms["description"][l]
    BY <2>1, <2>3
  <2>5. Leads(h, 4, "description", 7, 2, 3)
    BY <1>1, <2>1, <2>2, <2>4 DEF Leads
  <2> QED BY <2>5, ColumnIs
<1>4. Columns(h, "amount") = {}
  <2>1. \A l \in DOMAIN Synonyms["amount"] : Synonyms["amount"][l] \in AmountNames
    BY SynonymsAre DEF AmountNames
  <2>2. \A j \in DOMAIN h : h[j] \notin AmountNames
    BY <1>1, TwoApart
  <2> QED BY <2>1, <2>2, NoColumn
<1>5. Columns(h, "debit") = {3}
  <2>1. /\ DOMAIN Synonyms["debit"] = 1..5 /\ Synonyms["debit"][3] = h[3]
        /\ Synonyms["debit"][1] = cDebit /\ Synonyms["debit"][2] = cDebitAmount
    BY <1>1, SynonymsAre
  <2>2. \A j \in 1..4 : h[j] = h[3] => j = 3
    BY <1>1, TwoApart
  <2>3. \A j \in 1..4 : h[j] # cDebit /\ h[j] # cDebitAmount
    BY <1>1, TwoApart
  <2>4. \A l \in 1..5, j \in 1..4 : l < 3 => h[j] # Synonyms["debit"][l]
    BY <2>1, <2>3
  <2>5. Leads(h, 4, "debit", 5, 3, 3)
    BY <1>1, <2>1, <2>2, <2>4 DEF Leads
  <2> QED BY <2>5, ColumnIs
<1>6. Columns(h, "credit") = {4}
  <2>1. /\ DOMAIN Synonyms["credit"] = 1..5 /\ Synonyms["credit"][3] = h[4]
        /\ Synonyms["credit"][1] = cCredit /\ Synonyms["credit"][2] = cCreditAmount
    BY <1>1, SynonymsAre
  <2>2. \A j \in 1..4 : h[j] = h[4] => j = 4
    BY <1>1, TwoApart
  <2>3. \A j \in 1..4 : h[j] # cCredit /\ h[j] # cCreditAmount
    BY <1>1, TwoApart
  <2>4. \A l \in 1..5, j \in 1..4 : l < 3 => h[j] # Synonyms["credit"][l]
    BY <2>1, <2>3
  <2>5. Leads(h, 4, "credit", 5, 4, 3)
    BY <1>1, <2>1, <2>2, <2>4 DEF Leads
  <2> QED BY <2>5, ColumnIs
<1> QED BY <1>2, <1>3, <1>4, <1>5, <1>6 DEF h

LEMMA FlagColumns ==
  /\ Columns(FlagColumn, "date") = {1} /\ Columns(FlagColumn, "description") = {4}
  /\ Columns(FlagColumn, "amount") = {3} /\ Columns(FlagColumn, "flag") = {5}
<1> DEFINE h == FlagColumn
<1>1. /\ DOMAIN h = 1..5 /\ \A j \in 1..5 : j = 1 \/ j = 2 \/ j = 3 \/ j = 4 \/ j = 5
      /\ h[1] = cTransactionDate /\ h[2] = cPostingDate /\ h[3] = cBillingAmount
      /\ h[4] = cMerchant /\ h[5] = cFlag
  BY DEF FlagColumn
<1> HIDE DEF h
<1>2. Columns(h, "date") = {1}
  <2>1. /\ DOMAIN Synonyms["date"] = 1..4 /\ Synonyms["date"][2] = h[1]
        /\ Synonyms["date"][1] = cDate
    BY <1>1, SynonymsAre
  <2>2. \A j \in 1..5 : h[j] = h[1] => j = 1
    BY <1>1, FlagApart
  <2>3. \A j \in 1..5 : h[j] # cDate
    BY <1>1, FlagApart
  <2>4. \A l \in 1..4, j \in 1..5 : l < 2 => h[j] # Synonyms["date"][l]
    BY <2>1, <2>3
  <2>5. Leads(h, 5, "date", 4, 1, 2)
    BY <1>1, <2>1, <2>2, <2>4 DEF Leads
  <2> QED BY <2>5, ColumnIs
<1>3. Columns(h, "description") = {4}
  <2>1. /\ DOMAIN Synonyms["description"] = 1..7 /\ Synonyms["description"][2] = h[4]
        /\ Synonyms["description"][1] = cDescription
    BY <1>1, SynonymsAre
  <2>2. \A j \in 1..5 : h[j] = h[4] => j = 4
    BY <1>1, FlagApart
  <2>3. \A j \in 1..5 : h[j] # cDescription
    BY <1>1, FlagApart
  <2>4. \A l \in 1..7, j \in 1..5 : l < 2 => h[j] # Synonyms["description"][l]
    BY <2>1, <2>3
  <2>5. Leads(h, 5, "description", 7, 4, 2)
    BY <1>1, <2>1, <2>2, <2>4 DEF Leads
  <2> QED BY <2>5, ColumnIs
<1>4. Columns(h, "amount") = {3}
  <2>1. /\ DOMAIN Synonyms["amount"] = 1..5 /\ Synonyms["amount"][4] = h[3]
        /\ Synonyms["amount"][1] = cAmount /\ Synonyms["amount"][2] = cValue
        /\ Synonyms["amount"][3] = cTransactionAmount
    BY <1>1, SynonymsAre
  <2>2. \A j \in 1..5 : h[j] = h[3] => j = 3
    BY <1>1, FlagApart
  <2>3. \A j \in 1..5 : h[j] # cAmount /\ h[j] # cValue /\ h[j] # cTransactionAmount
    BY <1>1, FlagApart
  <2>4. \A l \in 1..5, j \in 1..5 : l < 4 => h[j] # Synonyms["amount"][l]
    BY <2>1, <2>3
  <2>5. Leads(h, 5, "amount", 5, 3, 4)
    BY <1>1, <2>1, <2>2, <2>4 DEF Leads
  <2> QED BY <2>5, ColumnIs
<1>5. Columns(h, "flag") = {5}
  <2>1. DOMAIN Synonyms["flag"] = 1..5 /\ Synonyms["flag"][1] = h[5]
    BY <1>1, SynonymsAre
  <2>2. \A j \in 1..5 : h[j] = h[5] => j = 5
    BY <1>1, FlagApart
  <2>3. \A l \in 1..5, j \in 1..5 : l < 1 => h[j] # Synonyms["flag"][l]
    OBVIOUS
  <2>4. Leads(h, 5, "flag", 5, 5, 1)
    BY <1>1, <2>1, <2>2, <2>3 DEF Leads
  <2> QED BY <2>4, ColumnIs
<1> QED BY <1>2, <1>3, <1>4, <1>5 DEF h

\* A cell is read where its column is, even if the row ends before it.
LEMMA CellIsRead ==
  ASSUME NEW S, NEW header \in Seq(S), NEW role, NEW k \in 1..Len(header),
         Columns(header, role) = {k}, NEW e, NEW plain \in BOOLEAN, NEW flags \in Flags
  PROVE  Get(header, CsvRow(header, e, plain, flags), role) = Cell(header[k], e, plain, flags)
<1> DEFINE row == [i \in DOMAIN header |-> Cell(header[i], e, plain, flags)]
           n == Len(header)
           cut == CsvRow(header, e, plain, flags)
           C == {Cell(header[i], e, plain, flags) : i \in 1..n}
<1>1. n \in Nat /\ k \in Nat /\ 1 <= k /\ k <= n /\ DOMAIN header = 1..n
  OBVIOUS
<1>2. row \in Seq(C) /\ Len(row) = n /\ \A i \in 1..n : row[i] = Cell(header[i], e, plain, flags)
  BY <1>1
<1>3. cut = IF plain /\ row[Len(row)] = Blank THEN SubSeq(row, 1, Len(row) - 1) ELSE row
  BY DEF CsvRow
<1> HIDE DEF row, n, cut, C
<1>4. Max({k}) = k
  BY <1>1, MaxOfOne
<1>5. CASE k \in DOMAIN cut
  <2>1. cut[k] = row[k]
    <3>1. CASE cut = row
      BY <3>1
    <3>2. CASE cut = SubSeq(row, 1, Len(row) - 1)
      BY <1>1, <1>2, <1>5, <3>2
    <3> QED BY <1>3, <3>1, <3>2
  <2>2. {k} \cap DOMAIN cut = {k}
    BY <1>5
  <2>3. Get(header, cut, role) = cut[k]
    BY <1>4, <2>2 DEF Get
  <2>4. row[k] = Cell(header[k], e, plain, flags)
    BY <1>1, <1>2 DEF n
  <2> QED BY <2>1, <2>3, <2>4 DEF cut
<1>6. CASE k \notin DOMAIN cut
  <2>1. row[n] = Blank /\ k = n
    <3>1. cut # row
      BY <1>1, <1>2, <1>6
    <3>2. cut = SubSeq(row, 1, n - 1) /\ row[n] = Blank
      BY <1>2, <1>3, <3>1
    <3>3. DOMAIN cut = 1..(n - 1)
      BY <1>1, <1>2, <3>2
    <3> QED BY <1>1, <1>6, <3>2, <3>3
  <2>2. {k} \cap DOMAIN cut = {}
    BY <1>6
  <2>3. Get(header, cut, role) = Blank
    BY <2>2 DEF Get
  <2>4. row[k] = Cell(header[k], e, plain, flags)
    BY <1>1, <1>2 DEF n
  <2> QED BY <2>1, <2>3, <2>4 DEF cut
<1> QED BY <1>5, <1>6

CellsRead(header, e, plain, flags) ==
  \A role : \A k \in 1..Len(header) :
    Columns(header, role) = {k}
      => Get(header, CsvRow(header, e, plain, flags), role) = Cell(header[k], e, plain, flags)

LEMMA EveryCellIsRead ==
  ASSUME NEW S, NEW header \in Seq(S), NEW e, NEW plain \in BOOLEAN, NEW flags \in Flags
  PROVE  CellsRead(header, e, plain, flags)
BY CellIsRead DEF CellsRead

LEMMA MissingIsBlank ==
  ASSUME NEW header, NEW row, NEW role, Columns(header, role) = {}
  PROVE  Get(header, row, role) = Blank
BY DEF Get

Words(e) == [is |-> "words", text |-> Text(e)]

FlagText(e, flags) ==
  IF e.credit THEN flags.credit ELSE flags.debit

LEMMA CellsAre ==
  ASSUME NEW e, NEW plain \in BOOLEAN, NEW flags \in Flags
  PROVE  /\ Cell(cDate, e, plain, flags) = Date(e.date)
         /\ Cell(cTransactionDate, e, plain, flags) = Date(e.date)
         /\ Cell(cDescription, e, plain, flags) = Words(e)
         /\ Cell(cDetails, e, plain, flags) = Words(e)
         /\ Cell(cMerchant, e, plain, flags) = Words(e)
         /\ Cell(cAmount, e, plain, flags) =
              Number(e.cents, IF e.credit THEN "" ELSE IF plain THEN "-" ELSE "(", plain)
         /\ Cell(cBillingAmount, e, plain, flags) = Number(e.cents, "", plain)
         /\ Cell(cFlag, e, plain, flags) = [is |-> "words", text |-> FlagText(e, flags)]
         /\ Cell(cMoneyOut, e, plain, flags) =
              IF e.credit THEN Blank ELSE Number(e.cents, "", plain)
         /\ Cell(cMoneyIn, e, plain, flags) = IF e.credit THEN Number(e.cents, "", plain) ELSE Blank
<1>1. Cell(cDate, e, plain, flags) = Date(e.date)
  BY DEF Cell, cDate
<1>2. Cell(cTransactionDate, e, plain, flags) = Date(e.date)
  BY DEF Cell, cTransactionDate
<1>3. Cell(cDescription, e, plain, flags) = Words(e)
  BY DEF Cell, cDescription, Words
<1>4. Cell(cDetails, e, plain, flags) = Words(e)
  BY DEF Cell, cDetails, Words
<1>5. Cell(cMerchant, e, plain, flags) = Words(e)
  BY DEF Cell, cMerchant, Words
<1>6. Cell(cAmount, e, plain, flags) =
        Number(e.cents, IF e.credit THEN "" ELSE IF plain THEN "-" ELSE "(", plain)
  BY DEF Cell, cAmount
<1>7. Cell(cBillingAmount, e, plain, flags) = Number(e.cents, "", plain)
  BY DEF Cell, cBillingAmount
<1>8. Cell(cFlag, e, plain, flags) = [is |-> "words", text |-> FlagText(e, flags)]
  BY DEF Cell, cFlag, FlagText
<1>9. Cell(cMoneyOut, e, plain, flags) = IF e.credit THEN Blank ELSE Number(e.cents, "", plain)
  BY DEF Cell, cMoneyOut
<1>10. Cell(cMoneyIn, e, plain, flags) = IF e.credit THEN Number(e.cents, "", plain) ELSE Blank
  BY DEF Cell, cMoneyIn
<1> QED BY <1>1, <1>2, <1>3, <1>4, <1>5, <1>6, <1>7, <1>8, <1>9, <1>10

LEMMA NumberIsRead ==
  ASSUME NEW cents \in Nat, NEW sign, NEW plain \in BOOLEAN
  PROVE  /\ CleanAmount(Number(cents, sign, plain)) = {[cents |-> cents, neg |-> sign # ""]}
         /\ Number(cents, sign, plain) # Blank
<1> DEFINE x == Number(cents, sign, plain)
<1>1. CASE plain /\ cents % 100 = 0
  <2>1. x = [is |-> "number", digits |-> cents \div 100, point |-> FALSE, sign |-> sign]
    BY <1>1 DEF Number
  <2>2. 100 * (cents \div 100) = cents
    BY <1>1
  <2> HIDE DEF x
  <2>3. x.is = "number" /\ 100 * x.digits = cents /\ ~x.point /\ x.sign = sign
    BY <2>1, <2>2
  <2>4. x # Blank
    BY <2>3 DEF Blank
  <2> QED BY <2>3, <2>4 DEF CleanAmount, x
<1>2. CASE ~(plain /\ cents % 100 = 0)
  <2>1. x = [is |-> "number", digits |-> cents, point |-> TRUE, sign |-> sign]
    BY <1>2 DEF Number
  <2> HIDE DEF x
  <2>2. x.is = "number" /\ x.digits = cents /\ x.point /\ x.sign = sign
    BY <2>1
  <2>3. x # Blank
    BY <2>2 DEF Blank
  <2> QED BY <2>2, <2>3 DEF CleanAmount, x
<1> QED BY <1>1, <1>2

NumberReads(cents, sign, plain) ==
  /\ CleanAmount(Number(cents, sign, plain)) = {[cents |-> cents, neg |-> sign # ""]}
  /\ Number(cents, sign, plain) # Blank

LEMMA NumberReadsAny ==
  \A cents \in Nat : \A sign : \A plain \in BOOLEAN : NumberReads(cents, sign, plain)
BY NumberIsRead DEF NumberReads

FromAmount(amount, flag) ==
  {[cents  |-> a.cents,
    credit |-> IF ParseFlag(flag) = {} THEN ~a.neg ELSE \E f \in ParseFlag(flag) : f.credit] :
     a \in CleanAmount(amount)}

FromColumn(amount, credit) ==
  {[cents |-> a.cents, credit |-> credit] : a \in CleanAmount(amount)}

LEMMA MoneyIs ==
  ASSUME NEW header, NEW row
  PROVE  Money(header, row) =
           IF Get(header, row, "amount") # Blank
             THEN FromAmount(Get(header, row, "amount"), Get(header, row, "flag"))
           ELSE IF Get(header, row, "debit") # Blank
             THEN FromColumn(Get(header, row, "debit"), FALSE)
           ELSE FromColumn(Get(header, row, "credit"), TRUE)
BY DEF Money, FromAmount, FromColumn

\* What a row yields, of its dates and amounts.
OfRow(words, dates, amounts) ==
  {[date |-> d, text |-> words.text, cents |-> m.cents, credit |-> m.credit] :
     d \in dates, m \in amounts}

LEMMA ParseRowIs ==
  ASSUME NEW header, NEW row
  PROVE  ParseRow(header, row) =
           OfRow(Get(header, row, "description"), ParseDate(Get(header, row, "date")),
                 IF Get(header, row, "description") = Blank THEN {}
                 ELSE {m \in Money(header, row) : m.cents # 0})
BY DEF ParseRow, OfRow

LEMMA RowIsRead ==
  ASSUME NEW e \in Entries, NEW header, NEW row,
         Get(header, row, "date") = Date(e.date), Get(header, row, "description") = Words(e),
         Money(header, row) = {[cents |-> e.cents, credit |-> e.credit]}
  PROVE  ParseRow(header, row) = IF e.cents = 0 THEN {} ELSE {Booking(e)}
<1> DEFINE m == [cents |-> e.cents, credit |-> e.credit]
<1>1. Words(e) # Blank /\ Words(e).text = Text(e)
  <2>1. Words(e).is = "words" /\ Blank.is = "blank" /\ Words(e).text = Text(e)
    BY DEF Words, Blank
  <2> QED BY <2>1
<1>2. ParseDate(Get(header, row, "date")) = {e.date}
  BY DateIsRead
<1>3. m.cents = e.cents /\ m.credit = e.credit /\ Money(header, row) = {m}
  OBVIOUS
<1> HIDE DEF m
<1>4. ParseRow(header, row) = OfRow(Words(e), {e.date}, {x \in {m} : x.cents # 0})
  <2>1. {x \in Money(header, row) : x.cents # 0} = {x \in {m} : x.cents # 0}
    BY <1>3
  <2> QED BY <1>1, <1>2, <2>1, ParseRowIs
<1>5. CASE e.cents = 0
  <2>1. {x \in {m} : x.cents # 0} = {}
    BY <1>3, <1>5
  <2>2. OfRow(Words(e), {e.date}, {}) = {}
    BY DEF OfRow
  <2> QED BY <1>4, <1>5, <2>1, <2>2
<1>6. CASE e.cents # 0
  <2>1. {x \in {m} : x.cents # 0} = {m}
    BY <1>3, <1>6
  <2>2. OfRow(Words(e), {e.date}, {m}) =
          {[date |-> e.date, text |-> Words(e).text, cents |-> m.cents, credit |-> m.credit]}
    BY DEF OfRow
  <2> QED BY <1>1, <1>3, <1>4, <1>6, <2>1, <2>2 DEF Booking
<1> QED BY <1>5, <1>6

LEMMA SignTellsSide ==
  ASSUME NEW e \in Entries, NEW plain \in BOOLEAN, NEW sign, (sign = "") <=> e.credit
  PROVE  FromAmount(Number(e.cents, sign, plain), Blank) =
           {[cents |-> e.cents, credit |-> e.credit]}
<1> DEFINE a == [cents |-> e.cents, neg |-> sign # ""]
<1>1. e.cents \in Nat /\ e.credit \in BOOLEAN
  BY EntriesAssumption
<1>2. a.cents = e.cents /\ a.neg = ~e.credit
  BY <1>1
<1>3. CleanAmount(Number(e.cents, sign, plain)) = {a}
  <2>1. e.cents \in Nat
    BY <1>1
  <2>2. NumberReads(e.cents, sign, plain)
    BY <2>1, NumberReadsAny
  <2>3. CleanAmount(Number(e.cents, sign, plain)) = {[cents |-> e.cents, neg |-> sign # ""]}
    BY ONLY <2>2, Zenon DEF NumberReads
  <2> QED BY <2>3
<1> HIDE DEF a
<1>4. ParseFlag(Blank) = {}
  BY DEF ParseFlag, Blank
<1>5. FromAmount(Number(e.cents, sign, plain), Blank) =
        {[cents |-> a.cents,
          credit |-> IF ParseFlag(Blank) = {} THEN ~a.neg
                     ELSE \E f \in ParseFlag(Blank) : f.credit]}
  BY <1>3 DEF FromAmount
<1> QED BY <1>1, <1>2, <1>4, <1>5

LEMMA FlagTellsSide ==
  ASSUME NEW e \in Entries, NEW plain \in BOOLEAN, NEW flags \in Flags
  PROVE  FromAmount(Number(e.cents, "", plain), [is |-> "words", text |-> FlagText(e, flags)]) =
           {[cents |-> e.cents, credit |-> e.credit]}
<1> DEFINE a == [cents |-> e.cents, neg |-> "" # ""]
           flag == [is |-> "words", text |-> FlagText(e, flags)]
           f == [credit |-> FlagText(e, flags) \in {"C", "CR", "CRDT", "CREDIT"}]
<1>1. e.cents \in Nat /\ e.credit \in BOOLEAN
  BY EntriesAssumption
<1>2. a.cents = e.cents
  OBVIOUS
<1>3. CleanAmount(Number(e.cents, "", plain)) = {a}
  BY <1>1, NumberIsRead
<1> HIDE DEF a
<1>4. flag.is = "words" /\ flag.text = FlagText(e, flags)
  OBVIOUS
<1>5. FlagText(e, flags) \in {"D", "DR", "DBIT", "DEBIT", "C", "CR", "CRDT", "CREDIT"}
  BY DEF FlagText, Flags
<1>6. f.credit = e.credit
  <2>1. FlagText(e, flags) \in {"C", "CR", "CRDT", "CREDIT"} <=> e.credit
    BY <1>1 DEF FlagText, Flags
  <2> QED BY <1>1, <2>1
<1>7. ParseFlag(flag) = {f}
  <2>1. {FlagText(e, flags)} \cap {"D", "DR", "DBIT", "DEBIT", "C", "CR", "CRDT", "CREDIT"}
          = {FlagText(e, flags)}
    BY <1>5
  <2> HIDE DEF flag
  <2> QED BY <1>4, <2>1 DEF ParseFlag
<1> HIDE DEF f, flag
<1>8. FromAmount(Number(e.cents, "", plain), flag) =
        {[cents |-> a.cents,
          credit |-> IF ParseFlag(flag) = {} THEN ~a.neg ELSE \E g \in ParseFlag(flag) : g.credit]}
  BY <1>3 DEF FromAmount
<1>9. ParseFlag(flag) # {} /\ (\E g \in ParseFlag(flag) : g.credit) = e.credit
  BY <1>1, <1>6, <1>7
<1> QED BY <1>2, <1>8, <1>9 DEF flag

LEMMA ColumnTellsSide ==
  ASSUME NEW e \in Entries, NEW plain \in BOOLEAN
  PROVE  FromColumn(Number(e.cents, "", plain), e.credit) =
           {[cents |-> e.cents, credit |-> e.credit]}
<1> DEFINE a == [cents |-> e.cents, neg |-> "" # ""]
<1>1. e.cents \in Nat
  BY EntriesAssumption
<1>2. a.cents = e.cents
  OBVIOUS
<1>3. CleanAmount(Number(e.cents, "", plain)) = {a}
  BY <1>1, NumberIsRead
<1> HIDE DEF a
<1> QED BY <1>2, <1>3 DEF FromColumn

\* Whatever the header, a row gives back the entry it was written from.
LEMMA EveryRowIsRead ==
  ASSUME NEW e \in Entries, NEW plain \in BOOLEAN, NEW flags \in Flags, NEW header \in Headers
  PROVE  ParseRow(header, CsvRow(header, e, plain, flags)) =
           IF e.cents = 0 THEN {} ELSE {Booking(e)}
<1>0. e.cents \in Nat /\ e.credit \in BOOLEAN
  BY EntriesAssumption
<1>1. CASE header = SignedColumn
  <2> DEFINE row == CsvRow(header, e, plain, flags)
             sign == IF e.credit THEN "" ELSE IF plain THEN "-" ELSE "("
             U == {cDate, cDescription, cAmount, cBalance}
  <2>1. /\ header \in Seq(U) /\ Len(header) = 4
        /\ header[1] = cDate /\ header[2] = cDescription /\ header[3] = cAmount
    BY <1>1 DEF SignedColumn
  <2>c. CellsRead(header, e, plain, flags)
    BY <2>1, EveryCellIsRead
  <2> HIDE DEF U
  <2>2. 1 \in 1..Len(header) /\ 2 \in 1..Len(header) /\ 3 \in 1..Len(header)
    BY <2>1
  <2>3. Get(header, row, "date") = Date(e.date)
    <3>1. Get(header, row, "date") = Cell(header[1], e, plain, flags)
      BY <1>1, <2>2, <2>c, SignedColumns DEF CellsRead
    <3> QED BY <2>1, <3>1, CellsAre
  <2>4. Get(header, row, "description") = Words(e)
    <3>1. Get(header, row, "description") = Cell(header[2], e, plain, flags)
      BY <1>1, <2>2, <2>c, SignedColumns DEF CellsRead
    <3> QED BY <2>1, <3>1, CellsAre
  <2>5. Get(header, row, "amount") = Number(e.cents, sign, plain)
    <3>1. Get(header, row, "amount") = Cell(header[3], e, plain, flags)
      BY <1>1, <2>2, <2>c, SignedColumns DEF CellsRead
    <3> QED BY <2>1, <3>1, CellsAre
  <2>6. Get(header, row, "flag") = Blank
    BY <1>1, SignedColumns, MissingIsBlank
  <2>7. FromAmount(Number(e.cents, sign, plain), Blank) =
          {[cents |-> e.cents, credit |-> e.credit]}
    <3>1. (sign = "") <=> e.credit
      OBVIOUS
    <3> HIDE DEF sign
    <3> QED BY <3>1, SignTellsSide
  <2> HIDE DEF row, sign
  <2>8. Money(header, row) = {[cents |-> e.cents, credit |-> e.credit]}
    BY <1>0, <2>5, <2>6, <2>7, MoneyIs, NumberIsRead
  <2> QED BY <2>3, <2>4, <2>8, RowIsRead DEF row
<1>2. CASE header = OtherColumns
  <2> DEFINE row == CsvRow(header, e, plain, flags)
             sign == IF e.credit THEN "" ELSE IF plain THEN "-" ELSE "("
             U == {cValueDate, cBalance, cAmount, cMemo, cTransactionDate, cDetails}
  <2>1. /\ header \in Seq(U) /\ Len(header) = 6
        /\ header[5] = cTransactionDate /\ header[6] = cDetails /\ header[3] = cAmount
    BY <1>2 DEF OtherColumns
  <2>c. CellsRead(header, e, plain, flags)
    BY <2>1, EveryCellIsRead
  <2> HIDE DEF U
  <2>2. 5 \in 1..Len(header) /\ 6 \in 1..Len(header) /\ 3 \in 1..Len(header)
    BY <2>1
  <2>3. Get(header, row, "date") = Date(e.date)
    <3>1. Get(header, row, "date") = Cell(header[5], e, plain, flags)
      BY <1>2, <2>2, <2>c, OtherColumnsAre DEF CellsRead
    <3> QED BY <2>1, <3>1, CellsAre
  <2>4. Get(header, row, "description") = Words(e)
    <3>1. Get(header, row, "description") = Cell(header[6], e, plain, flags)
      BY <1>2, <2>2, <2>c, OtherColumnsAre DEF CellsRead
    <3> QED BY <2>1, <3>1, CellsAre
  <2>5. Get(header, row, "amount") = Number(e.cents, sign, plain)
    <3>1. Get(header, row, "amount") = Cell(header[3], e, plain, flags)
      BY <1>2, <2>2, <2>c, OtherColumnsAre DEF CellsRead
    <3> QED BY <2>1, <3>1, CellsAre
  <2>6. Get(header, row, "flag") = Blank
    BY <1>2, OtherColumnsAre, MissingIsBlank
  <2>7. FromAmount(Number(e.cents, sign, plain), Blank) =
          {[cents |-> e.cents, credit |-> e.credit]}
    <3>1. (sign = "") <=> e.credit
      OBVIOUS
    <3> HIDE DEF sign
    <3> QED BY <3>1, SignTellsSide
  <2> HIDE DEF row, sign
  <2>8. Money(header, row) = {[cents |-> e.cents, credit |-> e.credit]}
    BY <1>0, <2>5, <2>6, <2>7, MoneyIs, NumberIsRead
  <2> QED BY <2>3, <2>4, <2>8, RowIsRead DEF row
<1>3. CASE header = TwoColumns
  <2> DEFINE row == CsvRow(header, e, plain, flags)
             number == Number(e.cents, "", plain)
             U == {cDate, cDetails, cMoneyOut, cMoneyIn}
  <2>1. /\ header \in Seq(U) /\ Len(header) = 4
        /\ header[1] = cDate /\ header[2] = cDetails
        /\ header[3] = cMoneyOut /\ header[4] = cMoneyIn
    BY <1>3 DEF TwoColumns
  <2>c. CellsRead(header, e, plain, flags)
    BY <2>1, EveryCellIsRead
  <2> HIDE DEF U
  <2>2. /\ 1 \in 1..Len(header) /\ 2 \in 1..Len(header)
        /\ 3 \in 1..Len(header) /\ 4 \in 1..Len(header)
    BY <2>1
  <2>3. Get(header, row, "date") = Date(e.date)
    <3>1. Get(header, row, "date") = Cell(header[1], e, plain, flags)
      BY <1>3, <2>2, <2>c, TwoColumnsAre DEF CellsRead
    <3> QED BY <2>1, <3>1, CellsAre
  <2>4. Get(header, row, "description") = Words(e)
    <3>1. Get(header, row, "description") = Cell(header[2], e, plain, flags)
      BY <1>3, <2>2, <2>c, TwoColumnsAre DEF CellsRead
    <3> QED BY <2>1, <3>1, CellsAre
  <2>5. Get(header, row, "amount") = Blank
    BY <1>3, TwoColumnsAre, MissingIsBlank
  <2>6. Get(header, row, "debit") = IF e.credit THEN Blank ELSE number
    <3>1. Get(header, row, "debit") = Cell(header[3], e, plain, flags)
      BY <1>3, <2>2, <2>c, TwoColumnsAre DEF CellsRead
    <3> QED BY <2>1, <3>1, CellsAre
  <2>7. Get(header, row, "credit") = IF e.credit THEN number ELSE Blank
    <3>1. Get(header, row, "credit") = Cell(header[4], e, plain, flags)
      BY <1>3, <2>2, <2>c, TwoColumnsAre DEF CellsRead
    <3>2. Cell(cMoneyIn, e, plain, flags) = IF e.credit THEN number ELSE Blank
      BY CellsAre
    <3> QED BY <2>1, <3>1, <3>2
  <2>8. number # Blank
    BY <1>0, NumberIsRead
  <2>9. FromColumn(number, e.credit) = {[cents |-> e.cents, credit |-> e.credit]}
    BY ColumnTellsSide
  <2> HIDE DEF row, number
  <2>10. Money(header, row) = {[cents |-> e.cents, credit |-> e.credit]}
    <3>1. CASE e.credit
      <4>1. Money(header, row) = FromColumn(number, TRUE)
        BY <2>5, <2>6, <2>7, <3>1, MoneyIs
      <4>2. e.credit = TRUE
        BY <1>0, <3>1
      <4> QED BY <2>9, <4>1, <4>2
    <3>2. CASE ~e.credit
      <4>1. Money(header, row) = FromColumn(number, FALSE)
        BY <2>5, <2>6, <2>8, <3>2, MoneyIs
      <4>2. e.credit = FALSE
        BY <1>0, <3>2
      <4> QED BY <2>9, <4>1, <4>2
    <3> QED BY <3>1, <3>2
  <2> QED BY <2>3, <2>4, <2>10, RowIsRead DEF row
<1>4. CASE header = FlagColumn
  <2> DEFINE row == CsvRow(header, e, plain, flags)
             flag == [is |-> "words", text |-> FlagText(e, flags)]
             U == {cTransactionDate, cPostingDate, cBillingAmount, cMerchant, cFlag}
  <2>1. /\ header \in Seq(U) /\ Len(header) = 5
        /\ header[1] = cTransactionDate /\ header[4] = cMerchant
        /\ header[3] = cBillingAmount /\ header[5] = cFlag
    BY <1>4 DEF FlagColumn
  <2>c. CellsRead(header, e, plain, flags)
    BY <2>1, EveryCellIsRead
  <2> HIDE DEF U
  <2>2. /\ 1 \in 1..Len(header) /\ 4 \in 1..Len(header)
        /\ 3 \in 1..Len(header) /\ 5 \in 1..Len(header)
    BY <2>1
  <2>3. Get(header, row, "date") = Date(e.date)
    <3>1. Get(header, row, "date") = Cell(header[1], e, plain, flags)
      BY <1>4, <2>2, <2>c, FlagColumns DEF CellsRead
    <3> QED BY <2>1, <3>1, CellsAre
  <2>4. Get(header, row, "description") = Words(e)
    <3>1. Get(header, row, "description") = Cell(header[4], e, plain, flags)
      BY <1>4, <2>2, <2>c, FlagColumns DEF CellsRead
    <3> QED BY <2>1, <3>1, CellsAre
  <2>5. Get(header, row, "amount") = Number(e.cents, "", plain)
    <3>1. Get(header, row, "amount") = Cell(header[3], e, plain, flags)
      BY <1>4, <2>2, <2>c, FlagColumns DEF CellsRead
    <3> QED BY <2>1, <3>1, CellsAre
  <2>6. Get(header, row, "flag") = flag
    <3>1. Get(header, row, "flag") = Cell(header[5], e, plain, flags)
      BY <1>4, <2>2, <2>c, FlagColumns DEF CellsRead
    <3> QED BY <2>1, <3>1, CellsAre
  <2>7. FromAmount(Number(e.cents, "", plain), flag) = {[cents |-> e.cents, credit |-> e.credit]}
    BY FlagTellsSide
  <2> HIDE DEF row, flag
  <2>8. Money(header, row) = {[cents |-> e.cents, credit |-> e.credit]}
    BY <1>0, <2>5, <2>6, <2>7, MoneyIs, NumberIsRead
  <2> QED BY <2>3, <2>4, <2>8, RowIsRead DEF row
<1> QED BY <1>1, <1>2, <1>3, <1>4, HeadersAre

CsvStep(header, rows, i, list) ==
  IF ParseRow(header, rows[i]) = {} THEN list
  ELSE Append(list, Any(ParseRow(header, rows[i])))

\* The header has the columns the parser needs.
Readable(header) ==
  /\ Columns(header, "date") # {} /\ Columns(header, "description") # {}
  /\ \E role \in {"amount", "debit", "credit"} : Columns(header, role) # {}

Parsed(header, rows, n, r) == \A i \in 1..n : r[i] = ParseRow(header, rows[i])

LEMMA CsvGathers ==
  ASSUME NEW header, Readable(header), NEW rows, NEW n \in Nat, Len(rows) = n,
         NEW r, Parsed(header, rows, n, r)
  PROVE  \E h : Gathers(r, n, h) /\ ParseCSV(header, rows) = h[n]
<1> DEFINE rec(g) == g = [i \in 0..Len(rows) |->
                           IF i = 0 THEN <<>> ELSE CsvStep(header, rows, i, g[i - 1])]
           h == CHOOSE g : rec(g)
<1>1. ParseCSV(header, rows) = h[Len(rows)]
  BY DEF ParseCSV, Readable, Each, CsvStep, Any
<1>2. ASSUME NEW i \in 1..n, NEW list PROVE GatherStep(r, i, list) = CsvStep(header, rows, i, list)
  BY DEF GatherStep, CsvStep, Parsed
<1>3. /\ 0 \in 0..n
      /\ \A i \in 0..n : i = 0 \/ i \in 1..n
      /\ \A i \in 1..n : i \in 0..n /\ i # 0
  OBVIOUS
<1>4. PICK f : Fills(f, r, n)
  BY GatherExists
<1>5. \A i \in 0..n : i = 0 \/ GatherStep(r, i, f[i - 1]) = CsvStep(header, rows, i, f[i - 1])
  BY <1>2, <1>3
<1>6. rec(f)
  BY <1>4, <1>5 DEF Fills
<1>7. rec(h)
  <2> HIDE DEF rec
  <2> QED BY <1>6
<1> HIDE DEF h
<1>8. h[0] = <<>> /\ \A i \in 1..n : h[i] = CsvStep(header, rows, i, h[i - 1])
  BY <1>3, <1>7
<1>9. Gathers(r, n, h)
  BY <1>2, <1>8 DEF Gathers
<1> QED BY <1>1, <1>9

LEMMA HeadersAreReadable ==
  ASSUME NEW header \in Headers
  PROVE  Readable(header)
BY HeadersAre, SignedColumns, OtherColumnsAre, TwoColumnsAre, FlagColumns DEF Readable

\* A CSV statement gives back the entries it was exported from (ParseCSV in
\* csv.go), under each of the four headers and with every pair of flags, for
\* statements of every length over any entries.
THEOREM ExportsAreRead == Spec => []CsvRoundTrip
<1>1. entries \in Seq(Entries) => CsvRoundTrip
  <2> SUFFICES ASSUME entries \in Seq(Entries), NEW header \in Headers, NEW plain \in BOOLEAN,
                      NEW flags \in Flags
               PROVE  ParseCSV(header,
                               [i \in DOMAIN entries |->
                                  CsvRow(header, entries[i], plain, flags)])
                        = Transactions(entries)
    BY DEF CsvRoundTrip
  <2> DEFINE n == Len(entries)
             rows == [i \in DOMAIN entries |-> CsvRow(header, entries[i], plain, flags)]
             r == [i \in 1..n |-> ParseRow(header, rows[i])]
  <2>1. n \in Nat /\ DOMAIN entries = 1..n /\ \A i \in 1..n : entries[i] \in Entries
    OBVIOUS
  <2>2. Len(rows) = n /\ \A i \in 1..n : rows[i] = CsvRow(header, entries[i], plain, flags)
    BY <2>1
  <2>3. Readable(header)
    BY HeadersAreReadable
  <2> HIDE DEF rows
  <2>4. Yields(r, entries)
    <3>1. ASSUME NEW i \in 1..n
          PROVE  r[i] = IF entries[i].cents = 0 THEN {} ELSE {Booking(entries[i])}
      <4>1. entries[i] \in Entries
        BY <2>1
      <4>2. r[i] = ParseRow(header, CsvRow(header, entries[i], plain, flags))
        BY <2>2
      <4> QED BY <4>1, <4>2, EveryRowIsRead
    <3> QED BY <3>1 DEF Yields
  <2>5. Parsed(header, rows, n, r)
    BY DEF Parsed
  <2> HIDE DEF r, n
  <2>6. PICK h : Gathers(r, n, h) /\ ParseCSV(header, rows) = h[n]
    BY <2>1, <2>2, <2>3, <2>5, CsvGathers
  <2>7. h[n] = Transactions(entries)
    BY <2>4, <2>6, GatheredIsBooked DEF n
  <2> QED BY <2>6, <2>7 DEF rows
<1> QED BY <1>1, ListsOfEntries, PTL

=============================================================================
