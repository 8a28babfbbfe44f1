-------------------------- MODULE CategorizeEngine --------------------------
(***************************************************************************)
(* The category of a transaction's description: user rules, then keywords, *)
(* then misspelt keywords.  Descriptions are sequences of characters in    *)
(* upper case, each of one byte: lengths and distances count bytes, so of  *)
(* letters that take several these operators say nothing.                  *)
(***************************************************************************)
EXTENDS Integers, Sequences, FiniteSetsExt

CONSTANTS
  Kept,          \* letters, digits and the punctuation that names keep
  Keywords,      \* the built-in table: a set of records [word, category]
  ShortLength,   \* keywords up to this length must be a whole token
  FuzzyLength,   \* words from this length on may be misspelt ...
  LongLength,    \* ... and from this length on twice
  Uncategorized

\* Keywords are made of what names keep and of spaces, "BP " with one at its
\* end, and none is for "Uncategorized".
ASSUME KeywordsAssumption ==
  \A k \in Keywords :
    k.word \in Seq(Kept \cup {" "}) \ {<<>>} /\ k.category # Uncategorized

\* Mutant: the space after the last word stays.
NormalizeUntrimmed(s) ==
  LET f[i \in 0..Len(s)] ==
        IF i = 0 THEN <<>>
        ELSE IF s[i] \in Kept THEN Append(f[i - 1], s[i])
        ELSE IF f[i - 1] = <<>> \/ s[i - 1] \notin Kept THEN f[i - 1]
        ELSE Append(f[i - 1], " ")
  IN f[Len(s)]

\* Everything else collapses into single spaces between words.
Normalize(s) ==
  LET words == {i \in DOMAIN s : s[i] \in Kept}
      f[i \in 0..Len(s)] ==
        IF i = 0 THEN <<>>
        ELSE IF s[i] \in Kept THEN Append(f[i - 1], s[i])
        ELSE IF i + 1 \in words /\ f[i - 1] # <<>> THEN Append(f[i - 1], " ")
        ELSE f[i - 1]
  IN f[Len(s)]

\* strings.Fields of a normalized name.
Tokens(name) ==
  {SubSeq(name, ij[1], ij[2]) : ij \in
     {ij \in (DOMAIN name) \X (DOMAIN name) :
        LET i == ij[1]
            j == ij[2]
        IN /\ i <= j
           /\ \A n \in i..j : name[n] # " "
           /\ i > 1 => name[i - 1] = " "
           /\ j < Len(name) => name[j + 1] = " "}}

FirstToken(word) ==
  SubSeq(word, 1, Min({i \in 0..Len(word) : i = Len(word) \/ word[i + 1] = " "}))

Within(name, word) ==
  \E i \in 0..(Len(name) - Len(word)) : SubSeq(name, i + 1, i + Len(word)) = word

\* Mutant: a replaced letter counts as an insertion and a deletion.
LevenshteinWithoutReplacement(a, b) ==
  LET row[i \in 0..Len(a)] ==
        IF i = 0 THEN [j \in 0..Len(b) |-> j]
        ELSE LET curr[j \in 0..Len(b)] ==
                   IF j = 0 THEN i
                   ELSE Min({row[i - 1][j] + 1, curr[j - 1] + 1,
                             row[i - 1][j - 1] + (IF a[i] = b[j] THEN 0 ELSE 2)})
             IN curr
  IN row[Len(a)][Len(b)]

\* One round of the loop over a, for its i-th character x.
NextRow(i, x, b, prev) ==
  LET curr[j \in 0..Len(b)] ==
        IF j = 0 THEN i
        ELSE Min({prev[j] + 1, curr[j - 1] + 1, prev[j - 1] + (IF x = b[j] THEN 0 ELSE 1)})
  IN curr

Levenshtein(a, b) ==
  LET row[i \in 0..Len(a)] ==
        IF i = 0 THEN [j \in 0..Len(b) |-> j] ELSE NextRow(i, a[i], b, row[i - 1])
  IN row[Len(a)][Len(b)]

FuzzThreshold(word) == IF Len(word) >= LongLength THEN 2 ELSE 1

Exact(name, word) ==
  IF Len(word) <= ShortLength THEN word \in Tokens(name) ELSE Within(name, word)

Fuzzy(name, word) ==
  LET first == FirstToken(word)
  IN /\ Len(first) >= FuzzyLength
     /\ \E token \in Tokens(name) :
          /\ Len(token) >= FuzzyLength
          /\ Levenshtein(token, first) <= FuzzThreshold(first)

\* The categories Categorize may return; the table is a Go map, whose order
\* differs from one call to the next.
CategorizeName(description, rules) ==
  LET name  == Normalize(description)
      pattern(i) == Normalize(rules[i].pattern)
      ruled == {i \in DOMAIN rules : pattern(i) # <<>> /\ Within(name, pattern(i))}
      hits(round(_, _)) == {k.category : k \in {k \in Keywords : round(name, k.word)}}
  IN IF name = <<>> THEN {Uncategorized}
     ELSE IF ruled # {} THEN {rules[Min(ruled)].category}
     ELSE IF hits(Exact) # {} THEN hits(Exact)
     ELSE IF hits(Fuzzy) # {} THEN hits(Fuzzy)
     ELSE {Uncategorized}

=============================================================================
