------------------------ MODULE CategoryRulesProofs ------------------------
(***************************************************************************)
(* Proofs about CategoryRules, for every set of statements, lines,         *)
(* merchants, rules, keywords and clients, and every bound on corrections  *)
(* and jobs.                                                               *)
(***************************************************************************)
EXTENDS CategoryRules, WellFoundedInduction, TLAPS

----------------------------------------------------------------------------
(* Type correctness.                                                       *)

LEMMA TransfersIsOne == "Transfers" \in Categories /\ "Uncategorized" \in Categories
BY DEF Categories

\* What extract gives a line is a category.
LEMMA CategorizeIsCategory ==
  ASSUME NEW m \in Patterns, NEW rs \in Seq(Rule)
  PROVE  Categorize(m, rs) \subseteq Categories
<1> DEFINE first == {i \in Hits(m, rs) : \A j \in Hits(m, rs) : i <= j}
<1>1. \A i \in first : rs[i].category \in Categories
  <2>1. \A i \in DOMAIN rs : rs[i] \in Rule
    OBVIOUS
  <2> QED BY <2>1 DEF Hits, Rule
<1> HIDE DEF first
<1>2. {rs[i].category : i \in first} \subseteq Categories
  BY <1>1
<1>3. CASE m = Blank
  BY <1>3, TransfersIsOne DEF Categorize
<1>4. CASE m # Blank /\ Hits(m, rs) # {}
  BY <1>2, <1>4 DEF Categorize, first
<1>5. CASE m # Blank /\ Hits(m, rs) = {}
  BY <1>5, RulesAssumption DEF Categorize
<1> QED BY <1>3, <1>4, <1>5

LEMMA ExtractedIsCategory ==
  ASSUME NEW l \in Lines, NEW rs \in Seq(Rule), NEW k \in Extracted(l, rs)
  PROVE  k \in Categories
<1>1. Merchant(l) \in Patterns
  BY RulesAssumption DEF Merchant
<1>2. "Income" \in Categories
  BY DEF Categories
<1> QED BY <1>1, <1>2, CategorizeIsCategory DEF Extracted

\* The rules after one is saved: still one for each pattern.
Saved(rs, rule) ==
  IF \E r \in Range(rs) : r.pattern = rule.pattern
    THEN [i \in DOMAIN rs |-> IF rs[i].pattern = rule.pattern THEN rule ELSE rs[i]]
    ELSE <<rule>> \o rs

Unique(rs) == \A i, j \in DOMAIN rs : rs[i].pattern = rs[j].pattern => i = j

LEMMA SavedRules ==
  ASSUME NEW rs \in Seq(Rule), Unique(rs), NEW rule \in Rule
  PROVE  /\ Saved(rs, rule) \in Seq(Rule)
         /\ Unique(Saved(rs, rule))
         /\ Range(Saved(rs, rule)) = {r \in Range(rs) : r.pattern # rule.pattern} \cup {rule}
<1> DEFINE new == Saved(rs, rule)
<1> SUFFICES /\ new \in Seq(Rule)
             /\ Unique(new)
             /\ Range(new) = {r \in Range(rs) : r.pattern # rule.pattern} \cup {rule}
  OBVIOUS
<1> HIDE DEF new
<1>1. CASE \E r \in Range(rs) : r.pattern = rule.pattern
  <2>1. new = [i \in DOMAIN rs |-> IF rs[i].pattern = rule.pattern THEN rule ELSE rs[i]]
    BY <1>1 DEF Saved, new
  <2>2. new \in Seq(Rule) /\ DOMAIN new = DOMAIN rs
    BY <2>1
  <2>3. Unique(new)
    BY <2>1 DEF Unique
  <2>4. PICK i \in DOMAIN rs : rs[i].pattern = rule.pattern
    BY <1>1 DEF Range
  <2>5. Range(new) = {r \in Range(rs) : r.pattern # rule.pattern} \cup {rule}
    BY <2>1, <2>4 DEF Range
  <2> QED BY <2>2, <2>3, <2>5
<1>2. CASE ~\E r \in Range(rs) : r.pattern = rule.pattern
  <2>1. new = <<rule>> \o rs
    BY <1>2 DEF Saved, new
  <2>2. new \in Seq(Rule) /\ DOMAIN new = 1..(Len(rs) + 1)
    BY <2>1
  <2>3. new[1] = rule /\ \A i \in 2..(Len(rs) + 1) : new[i] = rs[i - 1]
    BY <2>1
  <2>4. DOMAIN rs = 1..Len(rs) /\ Len(rs) \in Nat
    OBVIOUS
  <2>5. \A i \in DOMAIN rs : rs[i].pattern # rule.pattern
    BY <1>2 DEF Range
  <2>6. Unique(new)
    <3> SUFFICES ASSUME NEW i \in DOMAIN new, NEW j \in DOMAIN new, new[i].pattern = new[j].pattern
                 PROVE  i = j
      BY DEF Unique
    <3>1. \A n \in DOMAIN new : n = 1 \/ (n \in 2..(Len(rs) + 1) /\ n - 1 \in DOMAIN rs)
      BY <2>2, <2>4
    <3>2. CASE i = 1
      BY <2>3, <2>5, <3>1, <3>2
    <3>3. CASE j = 1
      BY <2>3, <2>5, <3>1, <3>3
    <3>4. CASE i # 1 /\ j # 1
      <4>1. i - 1 = j - 1
        BY <2>3, <3>1, <3>4 DEF Unique
      <4> QED BY <2>2, <4>1
    <3> QED BY <3>2, <3>3, <3>4
  <2>7. Range(new) = Range(rs) \cup {rule}
    <3>1. \A r \in Range(new) : r = rule \/ r \in Range(rs)
      BY <2>2, <2>3, <2>4 DEF Range
    <3>2. \A i \in DOMAIN rs : new[i + 1] = rs[i] /\ i + 1 \in DOMAIN new
      BY <2>2, <2>3, <2>4
    <3>3. 1 \in DOMAIN new
      BY <2>2, <2>4
    <3>4. \A r \in Range(rs) : r \in Range(new)
      BY <3>2, Zenon DEF Range
    <3>5. rule \in Range(new)
      BY <2>3, <3>3, Zenon DEF Range
    <3> QED BY <3>1, <3>4, <3>5
  <2> QED BY <1>2, <2>2, <2>6, <2>7
<1> QED BY <1>1, <1>2

LEMMA SaveRuleSaves ==
  ASSUME NEW c \in Clients, SaveRule(c)
  PROVE  rules' = Saved(rules, request[c])
BY DEF SaveRule, Saved, HasRule

\* Type correctness: there is one rule for each pattern, as the table's UNIQUE
\* says and UpsertRule keeps to, and every row belongs to an upload.
THEOREM Typing == Spec => []TypeOK
<1>1. Init => TypeOK
  <2> SUFFICES ASSUME Init PROVE TypeOK
    OBVIOUS
  <2> USE TransfersIsOne DEF Init
  <2>1. category \in [Lines -> Categories \cup {"absent"}] /\ Rows = {}
    BY DEF Nothing, Rows
  <2>2. rules \in Seq(Rule) /\ DOMAIN rules = {}
    OBVIOUS
  <2>3. \A a \in Clients \cup Uploads : pc[a] = IF a \in Clients THEN "idle" ELSE "unsent"
    OBVIOUS
  <2>4. \A u \in Uploads : pc[u] = "unsent"
    BY <2>3, RulesAssumption
  <2>5. request \in [Clients -> Rule]
    BY RulesAssumption DEF NoRequest, Rule
  <2>6. known \in [Uploads -> Seq(Rule)]
    OBVIOUS
  <2>7. seen \in [Uploads -> [Lines -> {"absent", "Transfers", "other"}]]
    BY DEF Nothing
  <2> QED BY <2>1, <2>2, <2>3, <2>4, <2>5, <2>6, <2>7, RulesAssumption DEF TypeOK
<1>2. TypeOK /\ [Next]_vars => TypeOK'
  <2> SUFFICES ASSUME TypeOK, [Next]_vars PROVE TypeOK'
    OBVIOUS
  <2> USE RulesAssumption, TransfersIsOne
  <2>1. ASSUME NEW c \in Clients, NEW l \in Lines, NEW k \in Offered, NEW asked \in Asked,
               Recategorize(c, l, k, asked)
        PROVE  TypeOK'
    <3>1. k \in Categories
      BY DEF Categories
    <3>2. Merchant(l) \in Patterns /\ asked \in Patterns
      BY DEF Merchant
    <3>3. request' \in [Clients -> Rule]
      BY <2>1, <3>1, <3>2 DEF Recategorize, Rule, TypeOK
    <3>4. category' \in [Lines -> Categories \cup {"absent"}] /\ Rows' \subseteq Rows
      BY <2>1, <3>1 DEF Recategorize, Rows, TypeOK
    <3>5. pc' = [pc EXCEPT ![c] = "rule"]
      BY <2>1 DEF Recategorize, Goto
    <3>6. corrections' \in 0..MaxCorrections
      BY <2>1 DEF Recategorize, TypeOK
    <3>7. disturbed' \subseteq {"correction", "ingest", "leaving"}
      <4>1. disturbed' \subseteq disturbed \cup {"correction"} \cup {"ingest"}
        BY <2>1 DEF Recategorize
      <4> QED BY <4>1 DEF TypeOK
    <3> QED BY <2>1, <3>3, <3>4, <3>5, <3>6, <3>7
            DEF Recategorize, TypeOK, Correcting, Ingesting, job
  <2>2. ASSUME NEW c \in Clients, SaveRule(c)
        PROVE  TypeOK'
    <3>1. rules' \in Seq(Rule) /\ Unique(rules')
      <4>1. rules \in Seq(Rule) /\ Unique(rules) /\ request[c] \in Rule
        BY DEF TypeOK, Unique
      <4>2. rules' = Saved(rules, request[c])
        BY <2>2, SaveRuleSaves
      <4> QED BY <4>1, <4>2, SavedRules
    <3>2. pc' = [pc EXCEPT ![c] = "retag"]
      BY <2>2 DEF SaveRule, Goto
    <3>3. saves' \in Seq(Rule)
      BY <2>2 DEF SaveRule, TypeOK
    <3> QED BY <2>2, <3>1, <3>2, <3>3
            DEF SaveRule, TypeOK, Correcting, Ingesting, job, Rows, Unique
  <2>3. ASSUME NEW c \in Clients, Retag(c)
        PROVE  TypeOK'
    <3>1. category' \in [Lines -> Categories \cup {"absent"}] /\ Rows' \subseteq Rows
      BY <2>3 DEF Retag, Rows, TypeOK, Rule
    <3>2. pc' = [pc EXCEPT ![c] = "idle"] /\ request' = [request EXCEPT ![c] = NoRequest]
      BY <2>3 DEF Retag, Goto
    <3>3. NoRequest \in Rule
      BY DEF NoRequest, Rule
    <3>4. request' \in [Clients -> Rule]
      BY <3>2, <3>3 DEF TypeOK
    <3> QED BY <2>3, <3>1, <3>2, <3>4
            DEF Retag, TypeOK, Correcting, Ingesting, job, ghost
  <2>4. ASSUME NEW c \in Clients, Leave(c)
        PROVE  TypeOK'
    <3>1. pc' = [pc EXCEPT ![c] = "idle"] /\ request' = [request EXCEPT ![c] = NoRequest]
      BY <2>4 DEF Leave, Goto
    <3>2. NoRequest \in Rule
      BY DEF NoRequest, Rule
    <3>3. request' \in [Clients -> Rule]
      BY <3>1, <3>2 DEF TypeOK
    <3> QED BY <2>4, <3>1, <3>3
            DEF Leave, TypeOK, Correcting, Ingesting, job, table, Rows
  <2>5. ASSUME ClearTransactions
        PROVE  TypeOK'
    <3>1. category' \in [Lines -> Categories \cup {"absent"}] /\ Rows' = {}
      BY <2>5 DEF ClearTransactions, Nothing, Rows
    <3> QED BY <2>5, <3>1
            DEF ClearTransactions, TypeOK, Correcting, Ingesting, job, ghost
  <2>6. ASSUME NEW u \in Uploads, Begin(u)
        PROVE  TypeOK'
    <3>1. pc' = [pc EXCEPT ![u] = "rules"]
      BY <2>6 DEF Begin, Goto
    <3> QED BY <2>6, <3>1
            DEF Begin, TypeOK, Correcting, Ingesting, job, Rows
  <2>7. ASSUME NEW u \in Uploads, ReadRules(u)
        PROVE  TypeOK'
    <3>1. pc' = [pc EXCEPT ![u] = "insert"]
      BY <2>7 DEF ReadRules, Goto
    <3>2. known' \in [Uploads -> Seq(Rule)]
      BY <2>7 DEF ReadRules, TypeOK
    <3> QED BY <2>7, <3>1, <3>2
            DEF ReadRules, TypeOK, Correcting, Ingesting, table, ghost, Rows
  <2>8. ASSUME NEW u \in Uploads, Insert(u)
        PROVE  TypeOK'
    <3>1. PICK new \in [LinesOf(u) -> Categories] :
            category' = [l \in Lines |-> IF l \in LinesOf(u) THEN new[l] ELSE category[l]]
      BY <2>8 DEF Insert
    <3>2. category' \in [Lines -> Categories \cup {"absent"}]
      BY <3>1 DEF TypeOK
    <3>3. Rows' \subseteq Rows \cup LinesOf(u)
      BY <3>1 DEF Rows, TypeOK
    <3>4. \A l \in Rows' : Txn[l].upload \in uploads'
      BY <2>8, <3>3 DEF Insert, TypeOK, LinesOf
    <3>5. pc' = [pc EXCEPT ![u] = "candidates"]
      BY <2>8 DEF Insert, Goto
    <3> QED BY <2>8, <3>2, <3>4, <3>5
            DEF Insert, TypeOK, Correcting, Ingesting, job, ghost
  <2>9. ASSUME NEW u \in Uploads, ReadCandidates(u)
        PROVE  TypeOK'
    <3>1. pc' = [pc EXCEPT ![u] = "rules again"]
      BY <2>9 DEF ReadCandidates, Goto
    <3>2. seen' \in [Uploads -> [Lines -> {"absent", "Transfers", "other"}]]
      BY <2>9 DEF ReadCandidates, TypeOK
    <3> QED BY <2>9, <3>1, <3>2
            DEF ReadCandidates, TypeOK, Correcting, Ingesting, table, ghost, Rows
  <2>10. ASSUME NEW u \in Uploads, ReadRulesAgain(u)
         PROVE  TypeOK'
    <3>1. pc' = [pc EXCEPT ![u] = "mark"]
      BY <2>10 DEF ReadRulesAgain, Goto
    <3>2. known' \in [Uploads -> Seq(Rule)]
      BY <2>10 DEF ReadRulesAgain, TypeOK
    <3> QED BY <2>10, <3>1, <3>2
            DEF ReadRulesAgain, TypeOK, Correcting, Ingesting, table, ghost, Rows
  <2>11. ASSUME NEW u \in Uploads, End(u), Ingesting(u), UNCHANGED <<rules, uploads, request, ghost>>,
                category' \in [Lines -> Categories \cup {"absent"}], Rows' \subseteq Rows
         PROVE  TypeOK'
    <3>1. pc' = [pc EXCEPT ![u] = "ended"]
      BY <2>11 DEF End, Goto
    <3>2. known' \in [Uploads -> Seq(Rule)]
      BY <2>11 DEF End, TypeOK
    <3>3. seen' \in [Uploads -> [Lines -> {"absent", "Transfers", "other"}]]
      BY <2>11 DEF End, Nothing, TypeOK
    <3> QED BY <2>11, <3>1, <3>2, <3>3
            DEF TypeOK, Correcting, Ingesting, ghost
  <2>12. ASSUME NEW u \in Uploads, Mark(u)
         PROVE  TypeOK'
    <3>1. PICK ids : category' = [l \in Lines |->
                       IF l \in ids \cap Rows THEN "Transfers" ELSE category[l]]
      BY <2>12 DEF Mark
    <3>2. category' \in [Lines -> Categories \cup {"absent"}] /\ Rows' \subseteq Rows
      BY <3>1 DEF Rows, TypeOK
    <3> QED BY <2>11, <2>12, <3>2 DEF Mark, Ingesting
  <2>13. ASSUME NEW u \in Uploads, JobFails(u)
         PROVE  TypeOK'
    BY <2>11, <2>13 DEF JobFails, table, TypeOK, Rows
  <2>14. CASE UNCHANGED vars
    BY <2>14 DEF vars, table, job, ghost, TypeOK, Rows, Correcting, Ingesting
  <2> QED
    BY <2>1, <2>2, <2>3, <2>4, <2>5, <2>6, <2>7, <2>8, <2>9, <2>10, <2>12, <2>13, <2>14 DEF Next
<1> QED BY <1>1, <1>2, PTL DEF Spec

----------------------------------------------------------------------------
(* The rules a job has.                                                    *)

\* A step of a client is none of a job, and the other way round.
LEMMA ClientGoes ==
  ASSUME TypeOK, NEW c \in Clients, NEW step, Goto(c, step)
  PROVE  /\ \A u \in Uploads : pc'[u] = pc[u]
         /\ \A d \in Clients \ {c} : pc'[d] = pc[d]
         /\ pc'[c] = step
BY RulesAssumption DEF TypeOK, Goto

LEMMA JobGoes ==
  ASSUME TypeOK, NEW u \in Uploads, NEW step, Goto(u, step)
  PROVE  /\ \A c \in Clients : pc'[c] = pc[c]
         /\ \A v \in Uploads \ {u} : pc'[v] = pc[v]
         /\ pc'[u] = step
BY RulesAssumption DEF TypeOK, Goto

LEMMA RulesAreCurrentStep ==
  ASSUME TypeOK, RulesAreCurrent, [Next]_vars
  PROVE  RulesAreCurrent'
<1> SUFFICES ASSUME "ingest" \notin disturbed', NEW u \in Uploads, Ingesting(u)'
             PROVE  /\ \A c \in Clients : ~Correcting(c)'
                    /\ pc'[u] # "rules" => known'[u] = rules'
  BY DEF RulesAreCurrent
<1>1. ASSUME NEW c \in Clients, NEW l \in Lines, NEW k \in Offered, NEW asked \in Asked,
             Recategorize(c, l, k, asked)
      PROVE  FALSE
  <2>1. ~Ingesting(u)
    BY <1>1 DEF Recategorize
  <2>2. pc'[u] = pc[u]
    BY <1>1, ClientGoes DEF Recategorize
  <2> QED BY <2>1, <2>2 DEF Ingesting
<1>2. ASSUME NEW c \in Clients, SaveRule(c) \/ Retag(c) \/ Leave(c)
      PROVE  FALSE
  <2>1. Correcting(c)
    BY <1>2 DEF SaveRule, Retag, Leave, Correcting
  <2>2. pc'[u] = pc[u]
    BY <1>2, ClientGoes DEF SaveRule, Retag, Leave
  <2>3. "ingest" \notin disturbed
    BY <1>2 DEF SaveRule, Retag, Leave, ghost
  <2> QED BY <2>1, <2>2, <2>3 DEF Ingesting, RulesAreCurrent
<1>3. CASE ClearTransactions \/ UNCHANGED vars
  BY <1>3 DEF ClearTransactions, vars, table, job, ghost, RulesAreCurrent, Ingesting, Correcting
<1>4. ASSUME NEW v \in Uploads,
             \/ Begin(v) \/ ReadRules(v) \/ Insert(v) \/ ReadCandidates(v)
             \/ ReadRulesAgain(v) \/ Mark(v) \/ JobFails(v)
      PROVE  /\ \A c \in Clients : ~Correcting(c)'
             /\ pc'[u] # "rules" => known'[u] = rules'
  <2>1. "ingest" \notin disturbed
    BY <1>4 DEF Begin, ReadRules, Insert, ReadCandidates, ReadRulesAgain, Mark, JobFails, ghost
  <2>2. /\ \A c \in Clients : pc'[c] = pc[c]
        /\ \A w \in Uploads \ {v} : pc'[w] = pc[w]
    BY <1>4, JobGoes
       DEF Begin, ReadRules, Insert, ReadCandidates, ReadRulesAgain, Mark, JobFails, End
  <2>3. rules' = rules
    BY <1>4 DEF Begin, ReadRules, Insert, ReadCandidates, ReadRulesAgain, Mark, JobFails, table
  <2>4. \A w \in Uploads \ {v} : known'[w] = known[w]
    BY <1>4 DEF Begin, ReadRules, Insert, ReadCandidates, ReadRulesAgain, Mark, JobFails,
                End, job, TypeOK
  <2>5. CASE u # v
    <3>1. Ingesting(u)
      BY <2>2, <2>5 DEF Ingesting
    <3> QED BY <2>1, <2>2, <2>3, <2>4, <2>5, <3>1 DEF RulesAreCurrent, Correcting
  <2>6. CASE u = v /\ Begin(v)
    <3>1. \A c \in Clients : ~Correcting(c)
      BY <2>6 DEF Begin
    <3>2. pc'[u] = "rules"
      BY <2>6, JobGoes DEF Begin
    <3> QED BY <2>2, <3>1, <3>2 DEF Correcting
  <2>7. CASE u = v /\ ~Begin(v)
    <3>1. Ingesting(u)
      BY <1>4, <2>7 DEF ReadRules, Insert, ReadCandidates, ReadRulesAgain, Mark, JobFails, Ingesting
    <3>2. \A c \in Clients : ~Correcting(c)'
      BY <2>1, <2>2, <3>1 DEF RulesAreCurrent, Correcting
    <3>3. known'[u] = rules'
      <4>1. CASE ReadRules(v) \/ ReadRulesAgain(v)
        BY <2>3, <2>7, <4>1 DEF ReadRules, ReadRulesAgain, TypeOK
      <4>2. CASE Insert(v) \/ ReadCandidates(v)
        <5>1. pc[u] # "rules" /\ known' = known
          BY <2>7, <4>2 DEF Insert, ReadCandidates, job
        <5> QED BY <2>1, <2>3, <3>1, <5>1 DEF RulesAreCurrent
      <4>3. CASE Mark(v) \/ JobFails(v)
        <5>1. pc'[u] = "ended"
          BY <2>7, <4>3, JobGoes DEF Mark, JobFails, End
        <5> QED BY <5>1 DEF Ingesting
      <4> QED BY <1>4, <2>7, <4>1, <4>2, <4>3
    <3> QED BY <3>2, <3>3
  <2> QED BY <2>5, <2>6, <2>7
<1> QED BY <1>1, <1>2, <1>3, <1>4 DEF Next

LEMMA RulesAreCurrentInit ==
  ASSUME Init
  PROVE  RulesAreCurrent
<1>1. \A u \in Uploads : pc[u] = "unsent"
  BY RulesAssumption DEF Init
<1> QED BY <1>1 DEF RulesAreCurrent, Ingesting

THEOREM JobsHaveTheRules == Spec => []RulesAreCurrent
<1>1. Init => RulesAreCurrent
  BY RulesAreCurrentInit
<1>2. TypeOK /\ RulesAreCurrent /\ [Next]_vars => RulesAreCurrent'
  BY RulesAreCurrentStep
<1> QED BY <1>1, <1>2, Typing, PTL DEF Spec

----------------------------------------------------------------------------
(* The heuristic and the rules.                                            *)

\* Only candidates are marked.
LEMMA MarkedAreCandidates ==
  ASSUME NEW u \in Uploads, NEW txns \in Candidates(u), NEW l \in MatchTransfers(txns)
  PROVE  l \in Lines /\ ~RuledByUser(l, known[u])
<1> DEFINE S == {[id |-> k, upload |-> Txn[k].upload, day |-> Txn[k].day,
                  cents |-> Txn[k].cents, credit |-> Txn[k].credit,
                  category |-> seen[u][k]] :
                   k \in {k \in Lines : seen[u][k] # "absent" /\ ~RuledByUser(k, known[u])}}
<1>1. txns \in [1..Cardinality(S) -> S]
  BY DEF Candidates, SetToSeqs
<1>2. \A r \in S : r.id \in Lines /\ ~RuledByUser(r.id, known[u])
  OBVIOUS
<1> HIDE DEF S
<1>3. PICK i \in UNION {{p.debit, p.credit} : p \in Matched(txns)} : l = txns[i].id
  BY DEF MatchTransfers
<1>4. Matched(txns) \subseteq [debit : DOMAIN txns, credit : DOMAIN txns]
  BY DEF Matched, GreedyPairs, Pairs
<1>5. i \in DOMAIN txns
  BY <1>3, <1>4
<1> QED BY <1>1, <1>2, <1>3, <1>5

LEMMA DecidedAreRuled ==
  ASSUME NEW l \in Decided
  PROVE  RuledByUser(l, rules)
BY DEF Decided, RuledByUser, Hits, Range

\* The jobs' steps that end one are Mark and JobFails.
LEMMA WhoEnds ==
  ASSUME TypeOK, [Next]_vars, NEW u \in Uploads, pc[u] = "mark", pc'[u] = "ended"
  PROVE  Mark(u) \/ JobFails(u)
<1>1. ASSUME NEW c \in Clients, NEW l \in Lines, NEW k \in Offered, NEW asked \in Asked,
             Recategorize(c, l, k, asked)
      PROVE  FALSE
  BY <1>1, ClientGoes DEF Recategorize
<1>2. ASSUME NEW c \in Clients, SaveRule(c) \/ Retag(c) \/ Leave(c)
      PROVE  FALSE
  BY <1>2, ClientGoes DEF SaveRule, Retag, Leave
<1>3. CASE ClearTransactions \/ UNCHANGED vars
  BY <1>3 DEF ClearTransactions, vars
<1>4. ASSUME NEW v \in Uploads,
             \/ Begin(v) \/ ReadRules(v) \/ Insert(v)
             \/ ReadCandidates(v) \/ ReadRulesAgain(v)
      PROVE  FALSE
  BY <1>4, JobGoes DEF Begin, ReadRules, Insert, ReadCandidates, ReadRulesAgain
<1>5. ASSUME NEW v \in Uploads, Mark(v) \/ JobFails(v)
      PROVE  v = u
  BY <1>5, JobGoes DEF Mark, JobFails, End
<1> QED BY <1>1, <1>2, <1>3, <1>4, <1>5 DEF Next

\* The transfer heuristic never overrides an explicit user decision: as long as
\* no correction has overlapped an ingest, markTransfers leaves the rows alone
\* that a rule gives a category of their own.
THEOREM HeuristicLeavesDecisions == Spec => HeuristicYieldsAlone
<1>1. ASSUME TypeOK, RulesAreCurrent, [Next]_vars, NEW u \in Uploads,
             pc[u] = "mark", pc'[u] = "ended", "ingest" \notin disturbed, NEW l \in Decided
      PROVE  category'[l] = category[l]
  <2>1. CASE Mark(u)
    <3>1. PICK txns \in Candidates(u) : category' = [k \in Lines |->
            IF k \in MatchTransfers(txns) \cap Rows THEN "Transfers" ELSE category[k]]
      BY <2>1 DEF Mark
    <3>2. known[u] = rules
      BY <1>1 DEF RulesAreCurrent, Ingesting
    <3>3. l \notin MatchTransfers(txns)
      BY <3>2, DecidedAreRuled, MarkedAreCandidates
    <3>4. l \in Lines
      BY DEF Decided, Rows
    <3> QED BY <3>1, <3>3, <3>4
  <2>2. CASE JobFails(u)
    BY <2>2 DEF JobFails, table
  <2> QED BY <1>1, <2>1, <2>2, WhoEnds
<1>2. TypeOK /\ RulesAreCurrent /\ [Next]_vars =>
        [\A u \in Uploads :
           pc[u] = "mark" /\ pc'[u] = "ended" /\ "ingest" \notin disturbed =>
             \A l \in Decided : category'[l] = category[l]]_vars
  BY <1>1
<1> QED BY <1>2, Typing, JobsHaveTheRules, PTL DEF Spec, HeuristicYieldsAlone

----------------------------------------------------------------------------
(* The rule of a merchant decides.                                         *)

\* A non-empty set of numbers has a least one.
LEMMA Least ==
  ASSUME NEW S \in SUBSET Nat, S # {}
  PROVE  \E i \in S : \A j \in S : i <= j
<1>1. PICK i \in S : \A j \in S : ~(<<j, i>> \in OpToRel(<, Nat))
  BY WFMin, NatLessThanWellFounded
<1>2. \A j \in S : ~(j < i)
  BY <1>1 DEF OpToRel
<1> QED BY <1>2

\* With a rule for the merchant, some rule decides.
LEMMA SomeRuleDecides ==
  ASSUME NEW m \in Patterns, m # Blank, NEW rs \in Seq(Rule),
         NEW r \in Range(rs), r.pattern = m
  PROVE  \E s \in Range(rs) : Categorize(m, rs) = {s.category}
<1>1. PICK n \in DOMAIN rs : rs[n] = r
  BY DEF Range
<1>2. n \in Hits(m, rs) /\ Hits(m, rs) \in SUBSET Nat
  BY <1>1, RulesAssumption DEF Hits
<1>3. PICK i \in Hits(m, rs) : \A j \in Hits(m, rs) : i <= j
  BY <1>2, Least
<1> DEFINE first == {k \in Hits(m, rs) : \A j \in Hits(m, rs) : k <= j}
<1>4. first = {i}
  <2>1. \A k \in first : k <= i /\ i <= k /\ k \in Nat /\ i \in Nat
    BY <1>2, <1>3
  <2>2. \A k \in first : k = i
    BY <2>1
  <2>3. i \in first
    BY <1>3
  <2> QED BY <2>2, <2>3
<1>5. Categorize(m, rs) = {rs[k].category : k \in first}
  BY <1>2 DEF Categorize
<1>6. rs[i] \in Range(rs)
  BY <1>3 DEF Hits, Range
<1> QED BY <1>4, <1>5, <1>6

\* The only rule that matches decides.
LEMMA OnlyRuleDecides ==
  ASSUME TypeOK, NEW m \in Patterns, m # Blank, NEW r \in Range(rules), OnlyRule(r, m)
  PROVE  Categorize(m, rules) = {r.category}
<1>1. r.pattern \in PatternsIn[m] \ {Blank}
  BY DEF OnlyRule
<1>2. PICK i \in DOMAIN rules : rules[i] = r
  BY DEF Range
<1>3. Hits(m, rules) = {i}
  <2>1. i \in Hits(m, rules)
    BY <1>1, <1>2 DEF Hits
  <2>2. ASSUME NEW j \in Hits(m, rules)
        PROVE  j = i
    <3>1. j \in DOMAIN rules /\ rules[j] \in Range(rules) /\ rules[j].pattern \in PatternsIn[m] \ {Blank}
      BY <2>2 DEF Hits, Range
    <3>2. rules[j] = r
      BY <3>1 DEF OnlyRule
    <3> QED BY <1>2, <3>1, <3>2 DEF TypeOK
  <2> QED BY <2>1, <2>2
<1>4. i \in Nat
  BY <1>2 DEF TypeOK
<1>5. {k \in Hits(m, rules) : \A j \in Hits(m, rules) : k <= j} = {i}
  BY <1>3, <1>4
<1> QED BY <1>2, <1>3, <1>5 DEF Categorize

----------------------------------------------------------------------------
(* Corrections and their rules.                                            *)

\* A saved rule replaces that of its pattern, if there is one.
LEMMA RulesAfterSave ==
  ASSUME TypeOK, NEW c \in Clients, SaveRule(c)
  PROVE  /\ Range(rules') = {r \in Range(rules) : r.pattern # request[c].pattern} \cup {request[c]}
         /\ \A p : HasRule(p) \/ p = request[c].pattern <=> HasRule(p)'
<1>1. rules \in Seq(Rule) /\ Unique(rules) /\ request[c] \in Rule
  BY DEF TypeOK, Unique
<1>2. rules' = Saved(rules, request[c])
  BY SaveRuleSaves
<1>3. Range(rules') = {r \in Range(rules) : r.pattern # request[c].pattern} \cup {request[c]}
  BY <1>1, <1>2, SavedRules
<1> QED BY <1>3 DEF HasRule

LEMMA RequestsAreSavedStep ==
  ASSUME MerchantsNamed, TypeOK, RequestsAreSaved, [Next]_vars
  PROVE  RequestsAreSaved'
<1>1. ASSUME NEW c \in Clients, NEW l \in Lines, NEW k \in Offered, NEW asked \in Asked,
             Recategorize(c, l, k, asked)
      PROVE  RequestsAreSaved'
  <2> DEFINE new == [pattern |-> IF asked = Blank THEN Merchant(l) ELSE asked, category |-> k]
  <2>1. new.pattern # Blank /\ new.category \in Offered
    BY DEF MerchantsNamed
  <2> HIDE DEF new
  <2>2. request' = [request EXCEPT ![c] = new] /\ rules' = rules
    BY <1>1 DEF Recategorize, new
  <2>3. request'[c] = new /\ \A d \in Clients \ {c} : request'[d] = request[d]
    BY <2>2 DEF TypeOK
  <2>4. pc'[c] = "rule" /\ \A d \in Clients \ {c} : pc'[d] = pc[d]
    BY <1>1, ClientGoes DEF Recategorize
  <2> QED BY <2>1, <2>2, <2>3, <2>4 DEF RequestsAreSaved, Correcting, HasRule
<1>2. ASSUME NEW c \in Clients, SaveRule(c)
      PROVE  RequestsAreSaved'
  <2>1. Correcting(c) /\ request' = request
    BY <1>2 DEF SaveRule, Correcting
  <2>2. \A d \in Clients \ {c} : pc'[d] = pc[d]
    BY <1>2, ClientGoes DEF SaveRule
  <2>3. \A r \in Range(rules') : r.category \in Offered /\ r.pattern # Blank
    BY <1>2, <2>1, RulesAfterSave DEF RequestsAreSaved
  <2>4. \A d \in Clients : Correcting(d)' =>
          /\ request'[d].category \in Offered
          /\ request'[d].pattern # Blank
          /\ pc'[d] = "retag" => HasRule(request[d].pattern)'
    BY <1>2, <2>1, <2>2, RulesAfterSave DEF RequestsAreSaved, Correcting
  <2> QED BY <2>3, <2>4 DEF RequestsAreSaved, HasRule
<1>3. ASSUME NEW c \in Clients, Retag(c) \/ Leave(c)
      PROVE  RequestsAreSaved'
  <2>1. rules' = rules /\ \A d \in Clients \ {c} : request'[d] = request[d]
    BY <1>3 DEF Retag, Leave, table, TypeOK
  <2>2. pc'[c] = "idle" /\ \A d \in Clients \ {c} : pc'[d] = pc[d]
    BY <1>3, ClientGoes DEF Retag, Leave
  <2> QED BY <2>1, <2>2 DEF RequestsAreSaved, Correcting, HasRule
<1>4. CASE ClearTransactions \/ UNCHANGED vars
  BY <1>4 DEF ClearTransactions, vars, table, RequestsAreSaved, Correcting, HasRule
<1>5. ASSUME NEW v \in Uploads,
             \/ Begin(v) \/ ReadRules(v) \/ Insert(v) \/ ReadCandidates(v)
             \/ ReadRulesAgain(v) \/ Mark(v) \/ JobFails(v)
      PROVE  RequestsAreSaved'
  <2>1. \A c \in Clients : pc'[c] = pc[c]
    BY <1>5, JobGoes
       DEF Begin, ReadRules, Insert, ReadCandidates, ReadRulesAgain, Mark, JobFails, End
  <2>2. rules' = rules /\ request' = request
    BY <1>5 DEF Begin, ReadRules, Insert, ReadCandidates, ReadRulesAgain, Mark, JobFails, table
  <2> QED BY <2>1, <2>2 DEF RequestsAreSaved, Correcting, HasRule
<1> QED BY <1>1, <1>2, <1>3, <1>4, <1>5 DEF Next

THEOREM RequestsHaveRules ==
  ASSUME MerchantsNamed PROVE Spec => []RequestsAreSaved
<1>1. Init => RequestsAreSaved
  BY DEF Init, RequestsAreSaved, Correcting, Range
<1>2. TypeOK /\ RequestsAreSaved /\ [Next]_vars => RequestsAreSaved'
  BY RequestsAreSavedStep
<1> QED BY <1>1, <1>2, Typing, PTL DEF Spec

----------------------------------------------------------------------------
(* Rows of one statement and one merchant.                                 *)

\* What has come in the way of corrections stays so.
LEMMA DisturbedForGood ==
  ASSUME [Next]_vars
  PROVE  disturbed \subseteq disturbed'
<1>1. ASSUME NEW c \in Clients, NEW l \in Lines, NEW k \in Offered, NEW asked \in Asked,
             Recategorize(c, l, k, asked)
      PROVE  disturbed \subseteq disturbed'
  BY <1>1 DEF Recategorize
<1>2. ASSUME NEW c \in Clients, SaveRule(c) \/ Retag(c) \/ Leave(c)
      PROVE  disturbed \subseteq disturbed'
  BY <1>2 DEF SaveRule, Retag, Leave, ghost
<1>3. CASE ClearTransactions \/ UNCHANGED vars
  BY <1>3 DEF ClearTransactions, vars, ghost
<1>4. ASSUME NEW v \in Uploads,
             \/ Begin(v) \/ ReadRules(v) \/ Insert(v) \/ ReadCandidates(v)
             \/ ReadRulesAgain(v) \/ Mark(v) \/ JobFails(v)
      PROVE  disturbed \subseteq disturbed'
  BY <1>4 DEF Begin, ReadRules, Insert, ReadCandidates, ReadRulesAgain, Mark, JobFails, ghost
<1> QED BY <1>1, <1>2, <1>3, <1>4 DEF Next

\* The rule that decides a line is what extract gives it: credits are not made
\* Income, since no rule calls them "Uncategorized".
LEMMA RuledLines ==
  ASSUME PlainRequests, RequestsAreSaved, NEW l \in Lines,
         NEW s \in Range(rules), Categorize(Merchant(l), rules) = {s.category}
  PROVE  Extracted(l, rules) = {s.category}
<1>1. Txn[l].credit => s.category # "Uncategorized"
  BY DEF PlainRequests, RequestsAreSaved
<1> QED BY <1>1 DEF Extracted

\* A correction in progress stays so until its retag.
LEMMA PendingStays ==
  ASSUME NEW m, Pending(m),
         \A c \in Clients : Correcting(c) /\ request[c].pattern = m =>
           Correcting(c)' /\ request'[c] = request[c]
  PROVE  Pending(m)'
BY DEF Pending

LEMMA RowsAgreeButStep ==
  ASSUME MerchantsNamed, PlainRequests, TypeOK, RulesAreCurrent, RequestsAreSaved,
         RowsAgreeBut, [Next]_vars
  PROVE  RowsAgreeBut'
<1> SUFFICES ASSUME disturbed' \subseteq {"correction"}, NEW l \in Rows', NEW m \in Rows',
                    Txn[l].upload = Txn[m].upload, Merchant(l) = Merchant(m),
                    HasRule(Merchant(l))'
             PROVE  \/ category'[l] = category'[m]
                    \/ category'[l] = "Transfers" \/ category'[m] = "Transfers"
                    \/ Pending(Merchant(l))'
  BY DEF RowsAgreeBut, Merchant
<1> DEFINE Alike == \/ category[l] = category[m]
                    \/ category[l] = "Transfers" \/ category[m] = "Transfers"
                    \/ Pending(Merchant(l))
<1>a. l \in Lines /\ m \in Lines
  BY DEF Rows
<1>b. disturbed \subseteq {"correction"}
  BY DisturbedForGood
<1>c. l \in Rows /\ m \in Rows /\ HasRule(Merchant(l)) => Alike
  BY <1>b DEF RowsAgreeBut
<1>d. Merchant(l) \in Patterns /\ Merchant(l) # Blank /\ Merchant(l) \in PatternsIn[Merchant(l)]
  BY <1>a, RulesAssumption DEF Merchant, MerchantsNamed
<1>1. ASSUME NEW c \in Clients, NEW x \in Lines, NEW k \in Offered, NEW asked \in Asked,
             Recategorize(c, x, k, asked)
      PROVE  \/ category'[l] = category'[m]
             \/ category'[l] = "Transfers" \/ category'[m] = "Transfers"
             \/ Pending(Merchant(l))'
  <2>1. pc'[c] = "rule" /\ \A d \in Clients \ {c} : pc'[d] = pc[d]
    BY <1>1, ClientGoes DEF Recategorize
  <2>2. request' = [request EXCEPT ![c] = [pattern |-> Merchant(x), category |-> k]]
    BY <1>1 DEF Recategorize, PlainRequests
  <2>3. request'[c].pattern = Merchant(x) /\ \A d \in Clients \ {c} : request'[d] = request[d]
    BY <2>2 DEF TypeOK
  <2>4. CASE Merchant(x) = Merchant(l)
    BY <2>1, <2>3, <2>4 DEF Pending, Correcting
  <2>5. CASE Merchant(x) # Merchant(l)
    <3>1. category'[l] = category[l] /\ category'[m] = category[m]
      BY <1>1, <1>a, <2>5 DEF Recategorize, TypeOK
    <3>2. HasRule(Merchant(l))
      BY <1>1 DEF Recategorize, HasRule
    <3>3. Alike
      BY <1>a, <1>c, <3>1, <3>2 DEF Rows
    <3>4. \A d \in Clients : Correcting(d) => d # c
      BY <1>1 DEF Recategorize, Correcting
    <3>5. Pending(Merchant(l)) => Pending(Merchant(l))'
      BY <2>1, <2>3, <3>4, PendingStays DEF Correcting
    <3> QED BY <3>1, <3>3, <3>5
  <2> QED BY <2>4, <2>5
<1>2. ASSUME NEW c \in Clients, SaveRule(c)
      PROVE  \/ category'[l] = category'[m]
             \/ category'[l] = "Transfers" \/ category'[m] = "Transfers"
             \/ Pending(Merchant(l))'
  <2>1. pc'[c] = "retag" /\ \A d \in Clients \ {c} : pc'[d] = pc[d]
    BY <1>2, ClientGoes DEF SaveRule
  <2>2. request' = request /\ category' = category
    BY <1>2 DEF SaveRule
  <2>3. CASE request[c].pattern = Merchant(l)
    BY <2>1, <2>2, <2>3 DEF Pending, Correcting
  <2>4. CASE request[c].pattern # Merchant(l)
    <3>1. HasRule(Merchant(l))
      BY <1>2, <2>4, RulesAfterSave
    <3>2. Alike
      BY <1>c, <2>2, <3>1 DEF Rows
    <3>3. Pending(Merchant(l)) => Pending(Merchant(l))'
      BY <2>1, <2>2, PendingStays DEF Correcting
    <3> QED BY <2>2, <3>2, <3>3
  <2> QED BY <2>3, <2>4
<1>3. ASSUME NEW c \in Clients, Retag(c)
      PROVE  \/ category'[l] = category'[m]
             \/ category'[l] = "Transfers" \/ category'[m] = "Transfers"
             \/ Pending(Merchant(l))'
  <2>1. \A x \in Lines : category'[x] =
          IF x \in Rows /\ request[c].pattern \in PatternsIn[Merchant(x)]
            THEN request[c].category ELSE category[x]
    BY <1>3 DEF Retag
  <2>2. l \in Rows /\ m \in Rows
    BY <1>a, <2>1 DEF Rows
  <2>3. CASE request[c].pattern \in PatternsIn[Merchant(l)]
    BY <1>a, <2>1, <2>2, <2>3
  <2>4. CASE request[c].pattern \notin PatternsIn[Merchant(l)]
    <3>1. category'[l] = category[l] /\ category'[m] = category[m]
      BY <1>a, <2>1, <2>4
    <3>2. HasRule(Merchant(l))
      BY <1>3 DEF Retag, HasRule
    <3>3. /\ \A d \in Clients \ {c} : pc'[d] = pc[d]
          /\ \A d \in Clients \ {c} : request'[d] = request[d]
      BY <1>3, ClientGoes DEF Retag, TypeOK
    <3>4. request[c].pattern # Merchant(l)
      BY <1>d, <2>4
    <3>5. Pending(Merchant(l)) => Pending(Merchant(l))'
      BY <3>3, <3>4, PendingStays DEF Correcting
    <3> QED BY <1>c, <2>2, <3>1, <3>2, <3>5
  <2> QED BY <2>3, <2>4
<1>4. ASSUME NEW c \in Clients, Leave(c)
      PROVE  FALSE
  BY <1>4 DEF Leave
<1>5. CASE ClearTransactions
  BY <1>5 DEF ClearTransactions, Nothing, Rows
<1>6. ASSUME \A c \in Clients : pc'[c] = pc[c], UNCHANGED <<category, rules, request>>
      PROVE  \/ category'[l] = category'[m]
             \/ category'[l] = "Transfers" \/ category'[m] = "Transfers"
             \/ Pending(Merchant(l))'
  <2>1. Alike
    BY <1>c, <1>6 DEF Rows, HasRule
  <2>2. Pending(Merchant(l)) => Pending(Merchant(l))'
    BY <1>6, PendingStays DEF Correcting
  <2> QED BY <1>6, <2>1, <2>2
<1>7. ASSUME NEW u \in Uploads,
             \/ Begin(u) \/ ReadRules(u) \/ ReadCandidates(u)
             \/ ReadRulesAgain(u) \/ JobFails(u)
      PROVE  (\A c \in Clients : pc'[c] = pc[c]) /\ UNCHANGED <<category, rules, request>>
  BY <1>7, JobGoes DEF Begin, ReadRules, ReadCandidates, ReadRulesAgain, JobFails, End, table
<1>8. ASSUME NEW u \in Uploads, Insert(u)
      PROVE  \/ category'[l] = category'[m]
             \/ category'[l] = "Transfers" \/ category'[m] = "Transfers"
             \/ Pending(Merchant(l))'
  <2>1. rules' = rules /\ request' = request /\ \A c \in Clients : pc'[c] = pc[c]
    BY <1>8, JobGoes DEF Insert
  <2>2. HasRule(Merchant(l))
    BY <2>1 DEF HasRule
  <2>3. PICK new \in [LinesOf(u) -> Categories] :
          /\ \A x \in LinesOf(u) : new[x] \in Extracted(x, known[u])
          /\ category' = [x \in Lines |-> IF x \in LinesOf(u) THEN new[x] ELSE category[x]]
    BY <1>8 DEF Insert
  <2>4. CASE Txn[l].upload = u
    <3>1. known[u] = rules
      BY <1>8, <1>b DEF Insert, RulesAreCurrent, Ingesting
    <3>2. PICK s \in Range(rules) : Categorize(Merchant(l), rules) = {s.category}
      BY <1>d, <2>2, SomeRuleDecides DEF TypeOK, HasRule
    <3>3. Extracted(l, rules) = {s.category} /\ Extracted(m, rules) = {s.category}
      BY <1>a, <3>2, RuledLines
    <3>4. l \in LinesOf(u) /\ m \in LinesOf(u)
      BY <1>a, <2>4 DEF LinesOf
    <3> QED BY <1>a, <2>3, <3>1, <3>3, <3>4
  <2>5. CASE Txn[l].upload # u
    <3>1. category'[l] = category[l] /\ category'[m] = category[m]
      BY <1>a, <2>3, <2>5 DEF LinesOf
    <3>2. Alike
      BY <1>a, <1>c, <2>2, <3>1 DEF Rows
    <3>3. Pending(Merchant(l)) => Pending(Merchant(l))'
      BY <2>1, PendingStays DEF Correcting
    <3> QED BY <3>1, <3>2, <3>3
  <2> QED BY <2>4, <2>5
<1>9. ASSUME NEW u \in Uploads, Mark(u)
      PROVE  \/ category'[l] = category'[m]
             \/ category'[l] = "Transfers" \/ category'[m] = "Transfers"
             \/ Pending(Merchant(l))'
  <2>1. rules' = rules /\ request' = request /\ \A c \in Clients : pc'[c] = pc[c]
    BY <1>9, JobGoes DEF Mark, End
  <2>2. PICK ids : category' = [x \in Lines |->
                     IF x \in ids \cap Rows THEN "Transfers" ELSE category[x]]
    BY <1>9 DEF Mark
  <2>3. l \in Rows /\ m \in Rows
    BY <1>a, <2>2 DEF Rows
  <2>4. Alike
    BY <1>c, <2>1, <2>3 DEF HasRule
  <2>5. Pending(Merchant(l)) => Pending(Merchant(l))'
    BY <2>1, PendingStays DEF Correcting
  <2> QED BY <1>a, <2>2, <2>4, <2>5
<1>10. CASE UNCHANGED vars
  BY <1>6, <1>10 DEF vars, table
<1> QED
  BY <1>1, <1>2, <1>3, <1>4, <1>5, <1>6, <1>7, <1>8, <1>9, <1>10 DEF Next

\* Corrections that race may leave rows that differ from the rule, but never
\* rows of one statement and one merchant that differ from each other, but for
\* those paired as transfers.  Every line names a merchant, and requests are
\* the dashboard's.
THEOREM RowsComeToAgree ==
  ASSUME MerchantsNamed, PlainRequests PROVE Spec => []RowsAgree
<1>1. Init => RowsAgreeBut
  BY DEF Init, RowsAgreeBut, Rows, Nothing
<1>2. TypeOK /\ RulesAreCurrent /\ RequestsAreSaved /\ RowsAgreeBut /\ [Next]_vars => RowsAgreeBut'
  BY RowsAgreeButStep
<1>3. RowsAgreeBut => RowsAgree
  BY DEF RowsAgreeBut, RowsAgree, Quiet, Pending, LinesOf
<1> QED BY <1>1, <1>2, <1>3, Typing, JobsHaveTheRules, RequestsHaveRules, PTL DEF Spec

----------------------------------------------------------------------------
(* Rows and the rules, without races.                                      *)

LEMMA OneAtATimeStep ==
  ASSUME TypeOK, OneAtATime, [Next]_vars
  PROVE  OneAtATime'
<1> SUFFICES ASSUME "correction" \notin disturbed'
             PROVE  /\ \A c, d \in Clients : Correcting(c)' /\ Correcting(d)' => c = d
                    /\ \A c \in Clients : pc'[c] = "retag" => request'[c] \in Range(rules')
  BY DEF OneAtATime
<1>a. /\ \A c, d \in Clients : Correcting(c) /\ Correcting(d) => c = d
      /\ \A c \in Clients : pc[c] = "retag" => request[c] \in Range(rules)
  BY DisturbedForGood DEF OneAtATime
<1>1. ASSUME NEW c \in Clients, NEW l \in Lines, NEW k \in Offered, NEW asked \in Asked,
             Recategorize(c, l, k, asked)
      PROVE  /\ \A d, e \in Clients : Correcting(d)' /\ Correcting(e)' => d = e
             /\ \A d \in Clients : pc'[d] = "retag" => request'[d] \in Range(rules')
  <2>1. \A d \in Clients : ~Correcting(d)
    BY <1>1 DEF Recategorize
  <2>2. pc'[c] = "rule" /\ \A d \in Clients \ {c} : pc'[d] = pc[d]
    BY <1>1, ClientGoes DEF Recategorize
  <2> QED BY <2>1, <2>2 DEF Correcting
<1>2. ASSUME NEW c \in Clients, SaveRule(c)
      PROVE  /\ \A d, e \in Clients : Correcting(d)' /\ Correcting(e)' => d = e
             /\ \A d \in Clients : pc'[d] = "retag" => request'[d] \in Range(rules')
  <2>1. Correcting(c) /\ request' = request
    BY <1>2 DEF SaveRule, Correcting
  <2>2. \A d \in Clients \ {c} : pc'[d] = pc[d] /\ ~Correcting(d)
    BY <1>2, <1>a, <2>1, ClientGoes DEF SaveRule
  <2>3. request[c] \in Range(rules')
    BY <1>2, RulesAfterSave
  <2> QED BY <2>1, <2>2, <2>3 DEF Correcting
<1>3. ASSUME NEW c \in Clients, Retag(c) \/ Leave(c)
      PROVE  \A d \in Clients : ~Correcting(d)'
  <2>1. Correcting(c)
    BY <1>3 DEF Retag, Leave, Correcting
  <2>2. pc'[c] = "idle" /\ \A d \in Clients \ {c} : pc'[d] = pc[d]
    BY <1>3, ClientGoes DEF Retag, Leave
  <2> QED BY <1>a, <2>1, <2>2 DEF Correcting
<1>4. CASE ClearTransactions \/ UNCHANGED vars
  BY <1>4, <1>a DEF ClearTransactions, vars, table, Correcting
<1>5. ASSUME NEW v \in Uploads,
             \/ Begin(v) \/ ReadRules(v) \/ Insert(v) \/ ReadCandidates(v)
             \/ ReadRulesAgain(v) \/ Mark(v) \/ JobFails(v)
      PROVE  /\ \A d, e \in Clients : Correcting(d)' /\ Correcting(e)' => d = e
             /\ \A d \in Clients : pc'[d] = "retag" => request'[d] \in Range(rules')
  <2>1. \A c \in Clients : pc'[c] = pc[c]
    BY <1>5, JobGoes
       DEF Begin, ReadRules, Insert, ReadCandidates, ReadRulesAgain, Mark, JobFails, End
  <2>2. rules' = rules /\ request' = request
    BY <1>5 DEF Begin, ReadRules, Insert, ReadCandidates, ReadRulesAgain, Mark, JobFails, table
  <2> QED BY <1>a, <2>1, <2>2 DEF Correcting
<1> QED BY <1>1, <1>2, <1>3, <1>4, <1>5 DEF Next, Correcting

LEMMA RowsFollowButStep ==
  ASSUME MerchantsNamed, PlainRequests,
         TypeOK, RulesAreCurrent, RequestsAreSaved, OneAtATime, RowsFollowBut, [Next]_vars
  PROVE  RowsFollowBut'
<1> DEFINE Awaited(l) ==
      \E c \in Clients : Correcting(c) /\ request[c].pattern \in PatternsIn[Merchant(l)]
<1> SUFFICES ASSUME disturbed' = {}, NEW l \in Rows', NEW r \in Range(rules'),
                    OnlyRule(r, Merchant(l))'
             PROVE  category'[l] = r.category \/ Awaited(l)'
  BY DEF RowsFollowBut, Merchant
<1>a. l \in Lines
  BY DEF Rows
<1>b. disturbed = {}
  BY DisturbedForGood
<1>c. l \in Rows /\ r \in Range(rules) /\ OnlyRule(r, Merchant(l)) =>
        category[l] = r.category \/ Awaited(l)
  BY <1>b DEF RowsFollowBut
<1>d. Merchant(l) \in Patterns /\ Merchant(l) # Blank /\ Merchant(l) \in PatternsIn[Merchant(l)]
  BY <1>a, RulesAssumption DEF Merchant, MerchantsNamed
<1>e. r.pattern \in PatternsIn[Merchant(l)] \ {Blank}
  BY DEF OnlyRule, Merchant
<1>f. rules' = rules => r \in Range(rules) /\ OnlyRule(r, Merchant(l))
  BY DEF OnlyRule, Merchant
<1>g. ASSUME NEW c, \A d \in Clients \ {c} : pc'[d] = pc[d] /\ request'[d] = request[d],
             Correcting(c) => request[c].pattern \notin PatternsIn[Merchant(l)], Awaited(l)
      PROVE  Awaited(l)'
  BY <1>g DEF Correcting, Merchant
<1>1. ASSUME NEW c \in Clients, NEW x \in Lines, NEW k \in Offered, NEW asked \in Asked,
             Recategorize(c, x, k, asked)
      PROVE  category'[l] = r.category \/ Awaited(l)'
  <2>1. pc'[c] = "rule" /\ \A d \in Clients \ {c} : pc'[d] = pc[d]
    BY <1>1, ClientGoes DEF Recategorize
  <2>2. request' = [request EXCEPT ![c] = [pattern |-> Merchant(x), category |-> k]]
    BY <1>1 DEF Recategorize, PlainRequests
  <2>3. request'[c].pattern = Merchant(x) /\ \A d \in Clients \ {c} : request'[d] = request[d]
    BY <2>2 DEF TypeOK
  <2>4. CASE x = l
    BY <1>d, <2>1, <2>3, <2>4 DEF Correcting, Merchant
  <2>5. CASE x # l
    <3>1. category'[l] = category[l] /\ rules' = rules
      BY <1>1, <1>a, <2>5 DEF Recategorize, TypeOK
    <3>2. ~Correcting(c)
      BY <1>1 DEF Recategorize, Correcting
    <3>3. Awaited(l) => Awaited(l)'
      BY <1>g, <2>1, <2>3, <3>2
    <3> HIDE DEF Awaited
    <3> QED BY <1>a, <1>c, <1>f, <3>1, <3>3 DEF Rows
  <2> QED BY <2>4, <2>5
<1>2. ASSUME NEW c \in Clients, SaveRule(c)
      PROVE  category'[l] = r.category \/ Awaited(l)'
  <2>1. pc'[c] = "retag" /\ \A d \in Clients \ {c} : pc'[d] = pc[d]
    BY <1>2, ClientGoes DEF SaveRule
  <2>2. request' = request /\ category' = category
    BY <1>2 DEF SaveRule
  <2>3. CASE request[c].pattern \in PatternsIn[Merchant(l)]
    BY <2>1, <2>2, <2>3 DEF Correcting, Merchant
  <2>4. CASE request[c].pattern \notin PatternsIn[Merchant(l)]
    <3>1. Range(rules') = {s \in Range(rules) : s.pattern # request[c].pattern} \cup {request[c]}
      BY <1>2, RulesAfterSave
    <3>2. \A s : s.pattern \in PatternsIn[Merchant(l)] =>
                 (s \in Range(rules') <=> s \in Range(rules))
      BY <2>4, <3>1
    <3>3. {s \in Range(rules') : s.pattern \in PatternsIn[Merchant(l)] \ {Blank}}
            = {s \in Range(rules) : s.pattern \in PatternsIn[Merchant(l)] \ {Blank}}
      BY <3>2
    <3>4. r \in Range(rules) /\ OnlyRule(r, Merchant(l))
      BY <1>e, <3>2, <3>3 DEF OnlyRule, Merchant
    <3>5. Awaited(l) => Awaited(l)'
      BY <1>g, <2>1, <2>2, <2>4
    <3> HIDE DEF Awaited
    <3> QED BY <1>c, <2>2, <3>4, <3>5 DEF Rows
  <2> QED BY <2>3, <2>4
<1>3. ASSUME NEW c \in Clients, Retag(c)
      PROVE  category'[l] = r.category \/ Awaited(l)'
  <2>1. \A x \in Lines : category'[x] =
          IF x \in Rows /\ request[c].pattern \in PatternsIn[Merchant(x)]
            THEN request[c].category ELSE category[x]
    BY <1>3 DEF Retag
  <2>2. l \in Rows /\ rules' = rules
    BY <1>3, <1>a, <2>1 DEF Rows, Retag
  <2>3. request[c] \in Range(rules) /\ request[c].pattern # Blank
    BY <1>3, <1>b DEF Retag, OneAtATime, RequestsAreSaved, Correcting
  <2>4. CASE request[c].pattern \in PatternsIn[Merchant(l)]
    <3>1. request[c] = r
      BY <1>f, <2>2, <2>3, <2>4 DEF OnlyRule
    <3> QED BY <1>a, <2>1, <2>2, <2>4, <3>1
  <2>5. CASE request[c].pattern \notin PatternsIn[Merchant(l)]
    <3>1. category'[l] = category[l]
      BY <1>a, <2>1, <2>5
    <3>2. \A d \in Clients \ {c} : pc'[d] = pc[d] /\ request'[d] = request[d]
      BY <1>3, ClientGoes DEF Retag, TypeOK
    <3>3. Awaited(l) => Awaited(l)'
      BY <1>g, <2>5, <3>2
    <3> HIDE DEF Awaited
    <3> QED BY <1>c, <1>f, <2>2, <3>1, <3>3
  <2> QED BY <2>4, <2>5
<1>4. ASSUME NEW c \in Clients, Leave(c)
      PROVE  FALSE
  BY <1>4 DEF Leave
<1>5. CASE ClearTransactions
  BY <1>5 DEF ClearTransactions, Nothing, Rows
<1>6. ASSUME \A c \in Clients : pc'[c] = pc[c], UNCHANGED <<rules, request>>
      PROVE  (Awaited(l) => Awaited(l)')
  BY <1>6 DEF Correcting, Merchant
<1>7. ASSUME \A c \in Clients : pc'[c] = pc[c], UNCHANGED <<rules, request>>,
             category'[l] = category[l]
      PROVE  category'[l] = r.category \/ Awaited(l)'
  <2>1. l \in Rows
    BY <1>7, <1>a DEF Rows
  <2>2. Awaited(l) => Awaited(l)'
    BY <1>6, <1>7
  <2> HIDE DEF Awaited
  <2> QED BY <1>7, <1>c, <1>f, <2>1, <2>2
<1>8. ASSUME NEW u \in Uploads,
             \/ Begin(u) \/ ReadRules(u) \/ ReadCandidates(u)
             \/ ReadRulesAgain(u) \/ JobFails(u)
      PROVE  (\A c \in Clients : pc'[c] = pc[c]) /\ UNCHANGED <<category, rules, request>>
  BY <1>8, JobGoes DEF Begin, ReadRules, ReadCandidates, ReadRulesAgain, JobFails, End, table
<1>9. ASSUME NEW u \in Uploads, Insert(u)
      PROVE  category'[l] = r.category \/ Awaited(l)'
  <2>1. rules' = rules /\ request' = request /\ \A c \in Clients : pc'[c] = pc[c]
    BY <1>9, JobGoes DEF Insert
  <2>2. PICK new \in [LinesOf(u) -> Categories] :
          /\ \A x \in LinesOf(u) : new[x] \in Extracted(x, known[u])
          /\ category' = [x \in Lines |-> IF x \in LinesOf(u) THEN new[x] ELSE category[x]]
    BY <1>9 DEF Insert
  <2>3. CASE l \in LinesOf(u)
    <3>1. known[u] = rules
      BY <1>9, <1>b DEF Insert, RulesAreCurrent, Ingesting
    <3>2. Categorize(Merchant(l), rules) = {r.category}
      BY <1>d, <1>f, <2>1, OnlyRuleDecides
    <3>3. Extracted(l, rules) = {r.category}
      BY <1>a, <2>1, <3>2, RuledLines
    <3> QED BY <1>a, <2>2, <2>3, <3>1, <3>3
  <2>4. CASE l \notin LinesOf(u)
    <3>1. category'[l] = category[l]
      BY <1>a, <2>2, <2>4
    <3> HIDE DEF Awaited
    <3> QED BY <1>7, <2>1, <3>1
  <2> QED BY <2>3, <2>4
<1>10. ASSUME NEW u \in Uploads, Mark(u)
      PROVE  category'[l] = r.category \/ Awaited(l)'
  <2>1. rules' = rules /\ request' = request /\ \A c \in Clients : pc'[c] = pc[c]
    BY <1>10, JobGoes DEF Mark, End
  <2>2. PICK txns \in Candidates(u) : category' = [x \in Lines |->
          IF x \in MatchTransfers(txns) \cap Rows THEN "Transfers" ELSE category[x]]
    BY <1>10 DEF Mark
  <2>3. l \in Rows
    BY <1>a, <2>2 DEF Rows
  <2>4. CASE l \in MatchTransfers(txns)
    <3>1. known[u] = rules
      BY <1>10, <1>b DEF Mark, RulesAreCurrent, Ingesting
    <3>2. ~RuledByUser(l, rules)
      BY <2>4, <3>1, MarkedAreCandidates
    <3>3. PICK i \in DOMAIN rules : rules[i] = r
      BY <2>1 DEF Range
    <3>4. i \in Hits(Merchant(l), rules)
      BY <1>e, <3>3 DEF Hits
    <3>5. r.category = "Transfers"
      BY <3>2, <3>3, <3>4 DEF RuledByUser
    <3> QED BY <1>a, <2>2, <2>3, <2>4, <3>5
  <2>5. CASE l \notin MatchTransfers(txns)
    <3>1. category'[l] = category[l]
      BY <1>a, <2>2, <2>5
    <3> HIDE DEF Awaited
    <3> QED BY <1>7, <2>1, <3>1
  <2> QED BY <2>4, <2>5
<1>11. CASE UNCHANGED vars
  <2>1. (\A c \in Clients : pc'[c] = pc[c]) /\ UNCHANGED <<category, rules, request>>
    BY <1>11 DEF vars, table
  <2> HIDE DEF Awaited
  <2> QED BY <1>7, <2>1
<1> HIDE DEF Awaited
<1> QED
  BY <1>1, <1>2, <1>3, <1>4, <1>5, <1>7, <1>8, <1>9, <1>10, <1>11 DEF Next

\* A correction is a statement about the merchant, not just one line: the rows
\* that one rule matches have its category, those that were there and those of
\* statements uploaded since, provided corrections ran to their end, one at a
\* time.  Every line names a merchant, and requests are the dashboard's.
THEOREM RowsComeToFollow ==
  ASSUME MerchantsNamed, PlainRequests PROVE Spec => []RowsFollowRules
<1>1. Init => OneAtATime /\ RowsFollowBut
  BY DEF Init, OneAtATime, RowsFollowBut, Rows, Nothing, Correcting
<1>2. TypeOK /\ OneAtATime /\ [Next]_vars => OneAtATime'
  BY OneAtATimeStep
<1>3. TypeOK /\ RulesAreCurrent /\ RequestsAreSaved /\ OneAtATime /\ RowsFollowBut /\ [Next]_vars
        => RowsFollowBut'
  BY RowsFollowButStep
<1>4. RowsFollowBut => RowsFollowRules
  BY DEF RowsFollowBut, RowsFollowRules, Quiet
<1> QED
  BY <1>1, <1>2, <1>3, <1>4, Typing, JobsHaveTheRules, RequestsHaveRules, PTL DEF Spec

----------------------------------------------------------------------------
(* The correction that decides for a statement.                            *)

\* Of two patterns, not each was saved before the other.
LEMMA BeforeIsAntisymmetric ==
  ASSUME saves \in Seq(Rule), NEW p, NEW q, SavedBefore(p, q)
  PROVE  ~SavedBefore(q, p)
<1> SUFFICES ASSUME SavedBefore(q, p) PROVE FALSE
  OBVIOUS
<1>1. PICK f \in DOMAIN saves : saves[f].pattern = p /\ \A g \in 1..f : saves[g].pattern # q
  BY DEF SavedBefore
<1>2. PICK h \in DOMAIN saves : saves[h].pattern = q /\ \A g \in 1..h : saves[g].pattern # p
  BY DEF SavedBefore
<1>3. f \in 1..h \/ h \in 1..f
  OBVIOUS
<1> QED BY <1>1, <1>2, <1>3

LEMMA BeforeStays ==
  ASSUME saves \in Seq(Rule), NEW rule, saves' = Append(saves, rule),
         NEW p, NEW q, SavedBefore(p, q)
  PROVE  SavedBefore(p, q)'
<1>1. PICK f \in DOMAIN saves : saves[f].pattern = p /\ \A g \in 1..f : saves[g].pattern # q
  BY DEF SavedBefore
<1>2. f \in DOMAIN saves' /\ \A g \in 1..f : saves'[g] = saves[g]
  OBVIOUS
<1>3. saves'[f].pattern = p /\ \A g \in 1..f : saves'[g].pattern # q
  BY <1>1, <1>2
<1> QED BY <1>2, <1>3 DEF SavedBefore

\* A rule that is saved again keeps its place; a new one goes to the front.
LEMMA RulesInOrderSave ==
  ASSUME TypeOK, RulesInOrder, NEW c \in Clients, SaveRule(c)
  PROVE  RulesInOrder'
<1> DEFINE rule == request[c]
           n == Len(saves) + 1
<1>a. rule \in Rule /\ rules \in Seq(Rule) /\ saves \in Seq(Rule)
  BY DEF TypeOK
<1>b. saves' = Append(saves, rule)
  BY DEF SaveRule
<1> HIDE DEF rule
<1>c. /\ DOMAIN saves = 1..(n - 1) /\ DOMAIN saves' = 1..n /\ n \in Nat \ {0}
      /\ saves'[n] = rule /\ \A i \in 1..(n - 1) : saves'[i] = saves[i]
  BY <1>a, <1>b
<1>d. ASSUME NEW p, NEW q, SavedBefore(p, q)
      PROVE  SavedBefore(p, q)'
  BY <1>a, <1>b, <1>d, BeforeStays
<1>e. ASSUME NEW p, NEW i \in DOMAIN saves', saves'[i].pattern = p
      PROVE  HasRule(p)'
  <2>1. HasRule(p) \/ p = rule.pattern <=> HasRule(p)'
    BY RulesAfterSave DEF rule
  <2>2. CASE i = n
    BY <1>c, <1>e, <2>1, <2>2
  <2>3. CASE i # n
    <3>1. i \in DOMAIN saves /\ saves[i].pattern = p
      BY <1>c, <1>e, <2>3
    <3> QED BY <2>1, <3>1 DEF RulesInOrder
  <2> QED BY <2>2, <2>3
<1>f. ASSUME NEW r, r = rule \/ (r \in Range(rules) /\ r.pattern # rule.pattern)
      PROVE  \E i \in DOMAIN saves' :
               /\ saves'[i] = r
               /\ \A j \in DOMAIN saves' : saves'[j].pattern = r.pattern => j <= i
  <2>1. CASE r = rule
    BY <1>c, <2>1
  <2>2. CASE r \in Range(rules) /\ r.pattern # rule.pattern
    <3>1. PICK k \in DOMAIN rules : rules[k] = r
      BY <2>2 DEF Range
    <3>2. PICK i \in DOMAIN saves :
            saves[i] = r /\ \A j \in DOMAIN saves : saves[j].pattern = r.pattern => j <= i
      BY <3>1 DEF RulesInOrder
    <3> QED BY <1>c, <2>2, <3>2
  <2> QED BY <1>f, <2>1, <2>2
<1>3. ASSUME \A k \in DOMAIN rules' : \E i \in DOMAIN saves' :
               /\ saves'[i] = rules'[k]
               /\ \A j \in DOMAIN saves' : saves'[j].pattern = rules'[k].pattern => j <= i,
             \A k, l \in DOMAIN rules' : k < l =>
               \A p, q : p = rules'[l].pattern /\ q = rules'[k].pattern => SavedBefore(p, q)'
      PROVE  RulesInOrder'
  <2>1. \A i \in DOMAIN saves' : \E r \in Range(rules') : r.pattern = saves'[i].pattern
    BY <1>e DEF HasRule
  <2>2. ASSUME NEW k \in DOMAIN rules', NEW l \in DOMAIN rules', k < l
        PROVE  \E f \in DOMAIN saves' : /\ saves'[f].pattern = rules'[l].pattern
                                        /\ \A g \in 1..f : saves'[g].pattern # rules'[k].pattern
    <3>1. ASSUME NEW p, NEW q, p = rules'[l].pattern, q = rules'[k].pattern
          PROVE  \E f \in DOMAIN saves' : saves'[f].pattern = p /\ \A g \in 1..f : saves'[g].pattern # q
      <4>1. SavedBefore(p, q)'
        BY <1>3, <2>2, <3>1
      <4> QED BY <4>1 DEF SavedBefore
    <3> QED BY <3>1
  <2> QED BY <1>3, <2>1, <2>2 DEF RulesInOrder, HasRule, SavedBefore
<1>1. CASE HasRule(rule.pattern)
  <2>1. rules' = [i \in DOMAIN rules |-> IF rules[i].pattern = rule.pattern THEN rule ELSE rules[i]]
    BY <1>1 DEF SaveRule, rule
  <2>2. DOMAIN rules' = DOMAIN rules /\ \A k \in DOMAIN rules : rules'[k].pattern = rules[k].pattern
    BY <2>1
  <2>3. ASSUME NEW k \in DOMAIN rules', NEW l \in DOMAIN rules', k < l,
               NEW p, NEW q, p = rules'[l].pattern, q = rules'[k].pattern
        PROVE  SavedBefore(p, q)'
    <3>1. SavedBefore(p, q)
      BY <2>2, <2>3 DEF RulesInOrder
    <3> QED BY <1>d, <3>1
  <2>4. \A k \in DOMAIN rules' :
          rules'[k] = rule \/ (rules'[k] \in Range(rules) /\ rules'[k].pattern # rule.pattern)
    BY <2>1 DEF Range
  <2>5. \A k \in DOMAIN rules' : \E i \in DOMAIN saves' :
          /\ saves'[i] = rules'[k]
          /\ \A j \in DOMAIN saves' : saves'[j].pattern = rules'[k].pattern => j <= i
    BY <1>f, <2>4
  <2> QED BY <1>3, <2>3, <2>5
<1>2. CASE ~HasRule(rule.pattern)
  <2>1. rules' = <<rule>> \o rules
    BY <1>2 DEF SaveRule, rule
  <2>2. /\ DOMAIN rules' = 1..(Len(rules) + 1) /\ DOMAIN rules = 1..Len(rules) /\ Len(rules) \in Nat
        /\ rules'[1] = rule
        /\ \A k \in 2..(Len(rules) + 1) : rules'[k] = rules[k - 1]
    BY <1>a, <2>1
  <2>3. \A k \in 2..(Len(rules) + 1) : k - 1 \in DOMAIN rules
    BY <2>2
  <2>4. ASSUME NEW k \in 2..(Len(rules) + 1)
        PROVE  rules'[k] \in Range(rules) /\ rules'[k].pattern # rule.pattern
    <3>1. rules'[k] \in Range(rules)
      BY <2>2, <2>3, Zenon DEF Range
    <3> QED BY <1>2, <3>1 DEF HasRule
  <2>5. \A k \in DOMAIN rules' :
          rules'[k] = rule \/ (rules'[k] \in Range(rules) /\ rules'[k].pattern # rule.pattern)
    BY <2>2, <2>4
  <2>6. \A k \in DOMAIN rules' : \E i \in DOMAIN saves' :
          /\ saves'[i] = rules'[k]
          /\ \A j \in DOMAIN saves' : saves'[j].pattern = rules'[k].pattern => j <= i
    BY <1>f, <2>5
  <2>7. ASSUME NEW k \in DOMAIN rules', NEW l \in DOMAIN rules', k < l,
               NEW p, NEW q, p = rules'[l].pattern, q = rules'[k].pattern
        PROVE  SavedBefore(p, q)'
    <3>1. l \in 2..(Len(rules) + 1)
      BY <2>2, <2>7
    <3>2. SavedBefore(p, q)
      <4>1. CASE k = 1
        <5>1. PICK i \in DOMAIN saves : saves[i] = rules[l - 1]
          BY <2>3, <3>1 DEF RulesInOrder
        <5>2. saves[i].pattern = p /\ q = rule.pattern
          BY <2>2, <2>7, <3>1, <4>1, <5>1
        <5>3. \A g \in 1..i : saves[g].pattern # rule.pattern
          BY <1>2, <1>c DEF RulesInOrder
        <5> QED BY <5>2, <5>3 DEF SavedBefore
      <4>2. CASE k # 1
        <5>1. k - 1 \in DOMAIN rules /\ l - 1 \in DOMAIN rules /\ k - 1 < l - 1
          BY <2>2, <2>7, <4>2
        <5>2. SavedBefore(rules[l - 1].pattern, rules[k - 1].pattern)
          BY <5>1 DEF RulesInOrder
        <5>3. rules'[k] = rules[k - 1] /\ rules'[l] = rules[l - 1]
          BY <2>2, <3>1, <4>2
        <5> QED BY <2>7, <5>2, <5>3
      <4> QED BY <4>1, <4>2
    <3> QED BY <1>d, <3>2
  <2> QED BY <1>3, <2>6, <2>7
<1> QED BY <1>1, <1>2

LEMMA RulesInOrderStep ==
  ASSUME TypeOK, RulesInOrder, [Next]_vars
  PROVE  RulesInOrder'
<1>1. ASSUME NEW c \in Clients, NEW l \in Lines, NEW k \in Offered, NEW asked \in Asked,
             Recategorize(c, l, k, asked)
      PROVE  UNCHANGED <<rules, saves>>
  BY <1>1 DEF Recategorize
<1>2. ASSUME NEW c \in Clients, SaveRule(c)
      PROVE  RulesInOrder'
  BY <1>2, RulesInOrderSave
<1>3. ASSUME NEW c \in Clients, Retag(c) \/ Leave(c)
      PROVE  UNCHANGED <<rules, saves>>
  BY <1>3 DEF Retag, Leave, table, ghost
<1>4. CASE ClearTransactions \/ UNCHANGED vars
  <2>1. UNCHANGED <<rules, saves>>
    BY <1>4 DEF ClearTransactions, vars, table, ghost
  <2> QED BY <2>1 DEF RulesInOrder, SavedBefore, HasRule
<1>5. ASSUME NEW v \in Uploads,
             \/ Begin(v) \/ ReadRules(v) \/ Insert(v) \/ ReadCandidates(v)
             \/ ReadRulesAgain(v) \/ Mark(v) \/ JobFails(v)
      PROVE  UNCHANGED <<rules, saves>>
  BY <1>5 DEF Begin, ReadRules, Insert, ReadCandidates, ReadRulesAgain, Mark, JobFails, table, ghost
<1>6. UNCHANGED <<rules, saves>> => RulesInOrder'
  BY DEF RulesInOrder, SavedBefore, HasRule
<1> QED BY <1>1, <1>2, <1>3, <1>4, <1>5, <1>6 DEF Next

\* The save that decides for a merchant is the rule the engine applies.
LEMMA DecidingSave ==
  ASSUME TypeOK, RulesInOrder, NEW m \in Patterns, m # Blank, NEW i \in DOMAIN saves, Decides(i, m)
  PROVE  saves[i] \in Range(rules) /\ Categorize(m, rules) = {saves[i].category}
<1> DEFINE q == saves[i].pattern
<1>a. rules \in Seq(Rule) /\ saves \in Seq(Rule)
  BY DEF TypeOK
<1>b. q \in PatternsIn[m] \ {Blank}
  BY DEF Decides, Matching
<1>1. PICK n \in DOMAIN rules : rules[n].pattern = q
  BY DEF RulesInOrder, HasRule, Range
<1>2. n \in Hits(m, rules) /\ Hits(m, rules) \in SUBSET Nat
  BY <1>1, <1>a, <1>b DEF Hits
<1>3. PICK k \in Hits(m, rules) : \A j \in Hits(m, rules) : k <= j
  BY <1>2, Least
<1>4. k \in DOMAIN rules /\ rules[k].pattern \in PatternsIn[m] \ {Blank} /\ k \in Nat /\ n \in Nat
  BY <1>2, <1>3 DEF Hits
<1>5. PICK a \in DOMAIN saves :
        /\ saves[a] = rules[k]
        /\ \A j \in DOMAIN saves : saves[j].pattern = rules[k].pattern => j <= a
  BY <1>4 DEF RulesInOrder
<1>6. a \in Matching(m)
  BY <1>4, <1>5 DEF Matching
<1>7. rules[k].pattern = q
  <2> SUFFICES ASSUME rules[k].pattern # q PROVE FALSE
    OBVIOUS
  <2>1. SavedBefore(rules[k].pattern, q)
    BY <1>5, <1>6 DEF Decides
  <2>2. k < n
    BY <1>1, <1>2, <1>3, <1>4
  <2>3. SavedBefore(q, rules[k].pattern)
    BY <1>1, <1>4, <2>2 DEF RulesInOrder
  <2> HIDE DEF q
  <2> QED BY <1>a, <2>1, <2>3, BeforeIsAntisymmetric
<1>8. a <= i /\ i <= a
  BY <1>5, <1>6, <1>7 DEF Decides
<1>9. rules[k] = saves[i]
  <2>1. a \in Nat /\ i \in Nat
    BY <1>a
  <2> QED BY <1>5, <1>8, <2>1
<1>10. {j \in Hits(m, rules) : \A h \in Hits(m, rules) : j <= h} = {k}
  BY <1>2, <1>3
<1>11. Categorize(m, rules) = {rules[k].category}
  <2>1. Categorize(m, rules) =
          {rules[j].category : j \in {j \in Hits(m, rules) : \A h \in Hits(m, rules) : j <= h}}
    BY <1>2 DEF Categorize
  <2> QED BY <1>10, <2>1
<1> QED BY <1>4, <1>9, <1>11 DEF Range

\* Only a job inserts its statement.
LEMMA WhoInserts ==
  ASSUME TypeOK, [Next]_vars, NEW u \in Uploads, pc[u] = "insert", pc'[u] = "candidates"
  PROVE  Insert(u)
<1>1. ASSUME NEW c \in Clients, NEW l \in Lines, NEW k \in Offered, NEW asked \in Asked,
             Recategorize(c, l, k, asked)
      PROVE  FALSE
  BY <1>1, ClientGoes DEF Recategorize
<1>2. ASSUME NEW c \in Clients, SaveRule(c) \/ Retag(c) \/ Leave(c)
      PROVE  FALSE
  BY <1>2, ClientGoes DEF SaveRule, Retag, Leave
<1>3. CASE ClearTransactions \/ UNCHANGED vars
  BY <1>3 DEF ClearTransactions, vars
<1>4. ASSUME NEW v \in Uploads,
             \/ Begin(v) \/ ReadRules(v) \/ ReadCandidates(v)
             \/ ReadRulesAgain(v) \/ Mark(v) \/ JobFails(v)
      PROVE  FALSE
  BY <1>4, JobGoes DEF Begin, ReadRules, ReadCandidates, ReadRulesAgain, Mark, JobFails, End
<1>5. ASSUME NEW v \in Uploads, Insert(v)
      PROVE  v = u
  BY <1>5, JobGoes DEF Insert
<1> QED BY <1>1, <1>2, <1>3, <1>4, <1>5 DEF Next

\* A correction applies to every future statement, until another one decides
\* for the merchant: of the corrections whose pattern the merchant contains, its
\* lines get the category of the pattern that was first corrected last, as it was
\* corrected the last time, whatever other corrections raced with these, as long
\* as none overlapped an ingest.  Every line names a merchant, and requests are
\* the dashboard's; names may contain one another.
THEOREM CorrectionsApply ==
  ASSUME MerchantsNamed, PlainRequests PROVE Spec => CorrectionApplies
<1>1. Init => RulesInOrder
  BY DEF Init, RulesInOrder
<1>2. TypeOK /\ RulesInOrder /\ [Next]_vars => RulesInOrder'
  BY RulesInOrderStep
<1>3. ASSUME TypeOK, RulesAreCurrent, RequestsAreSaved, RulesInOrder, [Next]_vars,
             NEW u \in Uploads, pc[u] = "insert", pc'[u] = "candidates", "ingest" \notin disturbed,
             NEW l \in LinesOf(u), NEW i \in DOMAIN saves, Decides(i, Merchant(l))
      PROVE  category'[l] = saves[i].category
  <2>1. Insert(u)
    BY <1>3, WhoInserts
  <2>2. PICK new \in [LinesOf(u) -> Categories] :
          /\ \A x \in LinesOf(u) : new[x] \in Extracted(x, known[u])
          /\ category' = [x \in Lines |-> IF x \in LinesOf(u) THEN new[x] ELSE category[x]]
    BY <2>1 DEF Insert
  <2>3. known[u] = rules
    BY <1>3 DEF RulesAreCurrent, Ingesting
  <2>4. l \in Lines /\ Merchant(l) \in Patterns /\ Merchant(l) # Blank
    BY RulesAssumption DEF LinesOf, Merchant, MerchantsNamed
  <2>5. saves[i] \in Range(rules) /\ Categorize(Merchant(l), rules) = {saves[i].category}
    BY <1>3, <2>4, DecidingSave
  <2>6. Extracted(l, rules) = {saves[i].category}
    BY <1>3, <2>4, <2>5, RuledLines
  <2> QED BY <2>2, <2>3, <2>4, <2>6
<1>4. TypeOK /\ RulesAreCurrent /\ RequestsAreSaved /\ RulesInOrder /\ [Next]_vars =>
        [\A u \in Uploads :
           pc[u] = "insert" /\ pc'[u] = "candidates" /\ "ingest" \notin disturbed =>
             \A l \in LinesOf(u) : \A i \in DOMAIN saves :
               Decides(i, Merchant(l)) => category'[l] = saves[i].category]_vars
  BY <1>3
<1> QED
  BY <1>1, <1>2, <1>4, Typing, JobsHaveTheRules, RequestsHaveRules, PTL DEF Spec, CorrectionApplies

=============================================================================
