-------------------------- MODULE MCCategoryRules --------------------------
(* Small instances of CategoryRules for TLC.                               *)
EXTENDS CategoryRules, TLC

CONSTANTS shop, mall, blank, a1, a2, b1, b2, c1, c2

\* A debit of a shop and one of a mall that has the shop in its name; in the
\* other statement another debit of the mall, and a credit of it that may be the
\* other side of the first.
FourLines ==
  [l \in {a1, a2, b1, b2} |->
    [upload   |-> IF l \in {a1, a2} THEN "a" ELSE "b",
     merchant |-> IF l = a1 THEN shop ELSE mall,
     day      |-> IF l = b2 THEN 3 ELSE 1,
     cents    |-> IF l \in {a1, b2} THEN 100 ELSE 500,
     credit   |-> l = b2]]

MallHasShop == [m \in {shop, mall, blank} |-> {m, blank} \cup IF m = mall THEN {shop} ELSE {}]

KeywordsOfThree ==
  [m \in {shop, mall, blank} |-> IF m = shop THEN {"Shopping"} ELSE {"Uncategorized"}]

ClientsAlike == Permutations({c1, c2})

\* What the theorems about corrections take for granted is so here.
ASSUME InstanceAssumption == MerchantsNamed /\ PlainRequests

=============================================================================
