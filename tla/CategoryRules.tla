--------------------------- MODULE CategoryRules ---------------------------
(***************************************************************************)
(* Categories of one user's transactions: corrections, which become rules, *)
(* and statements that are categorised by the rules while corrections are  *)
(* under way.  Neither is a transaction: every statement sent to the       *)
(* database is one action.                                                 *)
(*                                                                         *)
(* A line is one transaction of one upload.  Patterns and merchants are    *)
(* normalised.                                                             *)
(***************************************************************************)
EXTENDS TransferMatching, SequencesExt, FiniteSets

CONSTANTS
  Uploads,     \* statements, each uploaded once
  Lines,       \* their lines
  Txn,         \* upload, merchant, day, cents and credit of each line
  Patterns,    \* merchants and patterns of rules
  PatternsIn,  \* the patterns each merchant contains, itself included
  Blank,       \* the empty pattern, which every merchant contains
  Keywords,    \* what the keywords and fuzzy matches may give each merchant
  Offered,     \* categories that requests name
  Asked,       \* patterns that requests name, Blank when they name none
  Clients,     \* clients that correct categories
  MaxIngests,  \* bound on the jobs in progress
  MaxCorrections  \* bound on the corrections

Categories ==
  {"Transfers", "Uncategorized", "Income"} \cup Offered \cup UNION {Keywords[m] : m \in DOMAIN Keywords}

Rule == [pattern : Patterns, category : Categories]

ASSUME RulesAssumption ==
  /\ Clients \cap Uploads = {}
  /\ Txn \in [Lines -> [upload : Uploads, merchant : Patterns, day : Int,
                        cents : Nat, credit : BOOLEAN]]
  /\ PatternsIn \in [Patterns -> SUBSET Patterns]
  /\ Blank \in Patterns
  /\ \A m \in Patterns : {m, Blank} \subseteq PatternsIn[m]
  /\ Keywords \in [Patterns -> SUBSET Categories]
  /\ Asked \subseteq Patterns
  /\ MaxIngests \in Nat
  /\ MaxCorrections \in Nat

VARIABLES
  category,  \* of the lines that are rows of transactions, or "absent"
  rules,     \* rows of category_rules, newest first
  uploads,   \* rows of uploads
  pc,        \* next statement of each client and of each upload's job
  request,   \* pattern and category of each client's correction
  known,     \* rules each job read
  seen,      \* what each job read of the transfer candidates' categories
  corrections,  \* how many there have been
  saves,     \* history: the rules saved, oldest first, each as often as it was
  disturbed  \* what has come in the way of one: another "correction", an
             \* "ingest", or "leaving" half-way

table == <<category, rules, uploads>>
job   == <<known, seen>>
ghost == <<corrections, saves, disturbed>>
vars  == <<table, pc, request, job, ghost>>

Merchant(l) == Txn[l].merchant
LinesOf(u)  == {l \in Lines : Txn[l].upload = u}
Rows        == {l \in Lines : category[l] # "absent"}

Correcting(c) == pc[c] \in {"rule", "retag"}
Ingesting(u)  == pc[u] \in {"rules", "insert", "candidates", "rules again", "mark"}

NoRequest == [pattern |-> Blank, category |-> "Uncategorized"]
Nothing   == [l \in Lines |-> "absent"]

TypeOK ==
  /\ category \in [Lines -> Categories \cup {"absent"}]
  /\ \A l \in Rows : Txn[l].upload \in uploads
  /\ rules \in Seq(Rule)
  /\ \A i, j \in DOMAIN rules : rules[i].pattern = rules[j].pattern => i = j
  /\ uploads \subseteq Uploads
  /\ DOMAIN pc = Clients \cup Uploads
  /\ \A c \in Clients : Correcting(c) \/ pc[c] = "idle"
  /\ \A u \in Uploads : Ingesting(u) \/ pc[u] \in {"unsent", "ended"}
  /\ request \in [Clients -> Rule]
  /\ known \in [Uploads -> Seq(Rule)]
  /\ seen \in [Uploads -> [Lines -> {"absent", "Transfers", "other"}]]
  /\ corrections \in 0..MaxCorrections
  /\ saves \in Seq(Rule)
  /\ disturbed \subseteq {"correction", "ingest", "leaving"}

Init ==
  /\ category = Nothing
  /\ rules = <<>>
  /\ uploads = {}
  /\ pc = [a \in Clients \cup Uploads |-> IF a \in Clients THEN "idle" ELSE "unsent"]
  /\ request = [c \in Clients |-> NoRequest]
  /\ known = [u \in Uploads |-> <<>>]
  /\ seen = [u \in Uploads |-> Nothing]
  /\ corrections = 0
  /\ saves = <<>>
  /\ disturbed = {}

Goto(a, step) == pc' = [pc EXCEPT ![a] = step]

----------------------------------------------------------------------------
(* The rule engine.                                                        *)

\* The places of the rules whose pattern the merchant contains.
Hits(m, rs) == {i \in DOMAIN rs : rs[i].pattern \in PatternsIn[m] \ {Blank}}

\* Categorize: the first user rule in the list decides, then the keywords.
Categorize(m, rs) ==
  IF m = Blank THEN {"Uncategorized"}
  ELSE IF Hits(m, rs) = {} THEN Keywords[m]
  ELSE {rs[i].category : i \in {i \in Hits(m, rs) : \A j \in Hits(m, rs) : i <= j}}

\* The category extract gives a line: credits default to Income.
Extracted(l, rs) ==
  {IF Txn[l].credit /\ k = "Uncategorized" THEN "Income" ELSE k :
     k \in Categorize(Merchant(l), rs)}

\* Mutant: transactions a rule decides are paired like any other.
RuledByNobody(l, rs) == FALSE

\* RuledByUser: some rule, not only the first, says other than Transfers.
RuledByUser(l, rs) == \E i \in Hits(Merchant(l), rs) : rs[i].category # "Transfers"

----------------------------------------------------------------------------
(* recategorize, addressed by the row's id, and clearTransactions.         *)

\* RecategorizeTransaction; without a row the answer is 404.
Recategorize(c, l, k, asked) ==
  /\ pc[c] = "idle"
  /\ l \in Rows
  /\ category' = [category EXCEPT ![l] = k]
  /\ request' = [request EXCEPT ![c] =
       [pattern |-> IF asked = Blank THEN Merchant(l) ELSE asked, category |-> k]]
  /\ Goto(c, "rule")
  /\ corrections < MaxCorrections
  /\ corrections' = corrections + 1
  /\ disturbed' = disturbed
       \cup {o \in {"correction"} : \E d \in Clients : Correcting(d)}
       \cup {o \in {"ingest"} : \E u \in Uploads : Ingesting(u)}
  /\ UNCHANGED <<rules, uploads, job, saves>>

HasRule(pattern) == \E r \in Range(rules) : r.pattern = pattern

\* Mutant: ON CONFLICT (user_id, pattern) DO NOTHING.
SaveRuleOnce(c) ==
  /\ pc[c] = "rule"
  /\ rules' = IF HasRule(request[c].pattern) THEN rules ELSE <<request[c]>> \o rules
  /\ saves' = Append(saves, request[c])
  /\ Goto(c, "retag")
  /\ UNCHANGED <<category, uploads, request, job, corrections, disturbed>>

\* Mutant: ListRules without the DESC, so that the oldest rule decides.
SaveRuleLast(c) ==
  LET rule == request[c] IN
  /\ pc[c] = "rule"
  /\ rules' = IF HasRule(rule.pattern)
                THEN [i \in DOMAIN rules |->
                        IF rules[i].pattern = rule.pattern THEN rule ELSE rules[i]]
                ELSE Append(rules, rule)
  /\ saves' = Append(saves, rule)
  /\ Goto(c, "retag")
  /\ UNCHANGED <<category, uploads, request, job, corrections, disturbed>>

\* UpsertRule, which leaves created_at alone: a rule keeps its place.
SaveRule(c) ==
  LET rule == request[c] IN
  /\ pc[c] = "rule"
  /\ rules' = IF HasRule(rule.pattern)
                THEN [i \in DOMAIN rules |->
                        IF rules[i].pattern = rule.pattern THEN rule ELSE rules[i]]
                ELSE <<rule>> \o rules
  /\ saves' = Append(saves, rule)
  /\ Goto(c, "retag")
  /\ UNCHANGED <<category, uploads, request, job, corrections, disturbed>>

\* Mutant: only the uncategorised rows are retagged.
RetagUncategorized(c) ==
  /\ pc[c] = "retag"
  /\ category' = [l \in Lines |->
       IF category[l] = "Uncategorized" /\ request[c].pattern \in PatternsIn[Merchant(l)]
         THEN request[c].category ELSE category[l]]
  /\ Goto(c, "idle")
  /\ request' = [request EXCEPT ![c] = NoRequest]
  /\ UNCHANGED <<rules, uploads, job, ghost>>

\* RecategorizeByMerchant: every row whose merchant is LIKE '%pattern%'.
Retag(c) ==
  /\ pc[c] = "retag"
  /\ category' = [l \in Lines |->
       IF l \in Rows /\ request[c].pattern \in PatternsIn[Merchant(l)]
         THEN request[c].category ELSE category[l]]
  /\ Goto(c, "idle")
  /\ request' = [request EXCEPT ![c] = NoRequest]
  /\ UNCHANGED <<rules, uploads, job, ghost>>

\* A statement fails or the client leaves: the rest is not done.
Leave(c) ==
  /\ Correcting(c)
  /\ disturbed' = disturbed \cup {"leaving"}
  /\ Goto(c, "idle")
  /\ request' = [request EXCEPT ![c] = NoRequest]
  /\ UNCHANGED <<table, job, corrections, saves>>

\* DELETE FROM uploads, its transactions with it; the rules survive.
ClearTransactions ==
  /\ uploads # {}
  /\ uploads' = {}
  /\ category' = Nothing
  /\ UNCHANGED <<rules, pc, request, job, ghost>>

----------------------------------------------------------------------------
(* A worker's job: extract, then markTransfers.                            *)

Begin(u) ==
  /\ pc[u] = "unsent"
  /\ Cardinality({v \in Uploads : Ingesting(v)}) < MaxIngests
  /\ uploads' = uploads \cup {u}
  /\ Goto(u, "rules")
  /\ disturbed' = disturbed \cup {o \in {"ingest"} : \E c \in Clients : Correcting(c)}
  /\ UNCHANGED <<category, rules, request, job, corrections, saves>>

ReadRules(u) ==
  /\ pc[u] = "rules"
  /\ known' = [known EXCEPT ![u] = rules]
  /\ Goto(u, "insert")
  /\ UNCHANGED <<table, request, seen, ghost>>

\* InsertTransactions; the foreign key refuses rows of a removed upload.
Insert(u) ==
  /\ pc[u] = "insert"
  /\ u \in uploads
  /\ \E new \in [LinesOf(u) -> Categories] :
       /\ \A l \in LinesOf(u) : new[l] \in Extracted(l, known[u])
       /\ category' = [l \in Lines |-> IF l \in LinesOf(u) THEN new[l] ELSE category[l]]
  /\ Goto(u, "candidates")
  /\ UNCHANGED <<rules, uploads, request, job, ghost>>

\* TransferCandidates, once the upload is done and its file deleted.  All that
\* matters of a category is whether it is Transfers.
ReadCandidates(u) ==
  /\ pc[u] = "candidates"
  /\ seen' = [seen EXCEPT ![u] = [l \in Lines |->
       IF category[l] \in {"absent", "Transfers"} THEN category[l] ELSE "other"]]
  /\ Goto(u, "rules again")
  /\ UNCHANGED <<table, request, known, ghost>>

ReadRulesAgain(u) ==
  /\ pc[u] = "rules again"
  /\ known' = [known EXCEPT ![u] = rules]
  /\ Goto(u, "mark")
  /\ UNCHANGED <<table, request, seen, ghost>>

\* The candidates no rule of the user decides, in any order: the query names
\* none.
Candidates(u) ==
  SetToSeqs({[id |-> l, upload |-> Txn[l].upload, day |-> Txn[l].day,
              cents |-> Txn[l].cents, credit |-> Txn[l].credit,
              category |-> seen[u][l]] :
               l \in {l \in Lines : seen[u][l] # "absent" /\ ~RuledByUser(l, known[u])}})

End(u) ==
  /\ Goto(u, "ended")
  /\ known' = [known EXCEPT ![u] = <<>>]
  /\ seen' = [seen EXCEPT ![u] = Nothing]

\* SetTransactionsCategory of the rows that are still there.
Mark(u) ==
  /\ pc[u] = "mark"
  /\ \E ids \in {MatchTransfers(txns) : txns \in Candidates(u)} :
       category' = [l \in Lines |->
         IF l \in ids \cap Rows THEN "Transfers" ELSE category[l]]
  /\ End(u)
  /\ UNCHANGED <<rules, uploads, request, ghost>>

\* A call fails, or its pod stops: the rows that were inserted stay.
JobFails(u) ==
  /\ Ingesting(u)
  /\ End(u)
  /\ UNCHANGED <<table, request, ghost>>

----------------------------------------------------------------------------
Next ==
  \/ \E c \in Clients :
       \/ \E l \in Lines, k \in Offered, asked \in Asked : Recategorize(c, l, k, asked)
       \/ SaveRule(c)
       \/ Retag(c)
       \/ Leave(c)
  \/ ClearTransactions
  \/ \E u \in Uploads :
       \/ Begin(u)
       \/ ReadRules(u)
       \/ Insert(u)
       \/ ReadCandidates(u)
       \/ ReadRulesAgain(u)
       \/ Mark(u)
       \/ JobFails(u)

Spec == Init /\ [][Next]_vars

----------------------------------------------------------------------------
(* Properties.                                                             *)

Quiet ==
  /\ \A c \in Clients : ~Correcting(c)
  /\ \A u \in Uploads : ~Ingesting(u)

\* The only rule whose pattern the merchant contains.
OnlyRule(r, m) == {s \in Range(rules) : s.pattern \in PatternsIn[m] \ {Blank}} = {r}

\* A correction is a statement about the merchant, not just one line: the rows
\* that one rule matches have its category, those that were there and those of
\* statements uploaded since, provided corrections ran to their end, one at a
\* time.  A row that two rules match may keep what the one that was saved last
\* gave it, although the engine decides by the other.
RowsFollowRules ==
  Quiet /\ disturbed = {} =>
    \A l \in Rows : \A r \in Range(rules) :
      OnlyRule(r, Merchant(l)) => category[l] = r.category

\* Corrections that race may leave rows that differ from the rule, but never
\* rows of one statement and one merchant that differ from each other, but for
\* those paired as transfers.
RowsAgree ==
  Quiet /\ disturbed \subseteq {"correction"} =>
    \A u \in Uploads : \A l, m \in LinesOf(u) \cap Rows :
      Merchant(l) = Merchant(m) /\ HasRule(Merchant(l)) =>
        category[l] = category[m] \/ "Transfers" \in {category[l], category[m]}

\* Rows that some rule of the user gives a category of their own.
Decided ==
  {l \in Rows : \E r \in Range(rules) :
     r.category # "Transfers" /\ r.pattern \in PatternsIn[Merchant(l)] \ {Blank}}

\* The transfer heuristic never overrides an explicit user decision: with no
\* correction in progress, a step of markTransfers leaves the rows alone that
\* the rules of that moment decide.
HeuristicYields ==
  [][\A u \in Uploads :
       pc[u] = "mark" /\ pc'[u] = "ended" /\ (\A c \in Clients : ~Correcting(c)) =>
         \A l \in Decided : category'[l] = category[l]]_vars

\* The heuristic leaves them alone at any moment, as long as no correction has
\* overlapped an ingest.
HeuristicYieldsAlone ==
  [][\A u \in Uploads :
       pc[u] = "mark" /\ pc'[u] = "ended" /\ "ingest" \notin disturbed =>
         \A l \in Decided : category'[l] = category[l]]_vars

Matching(m) == {i \in DOMAIN saves : saves[i].pattern \in PatternsIn[m] \ {Blank}}

\* The first pattern was saved before the second ever was.
SavedBefore(p, q) ==
  \E f \in DOMAIN saves : saves[f].pattern = p /\ \A g \in 1..f : saves[g].pattern # q

\* The save that decides for a merchant: of the patterns it contains, the one
\* corrected for the first time most recently, as corrected the last time.
Decides(i, m) ==
  /\ i \in Matching(m)
  /\ \A j \in Matching(m) :
       IF saves[j].pattern = saves[i].pattern
         THEN j <= i ELSE SavedBefore(saves[j].pattern, saves[i].pattern)

\* A correction applies to every future statement, until another one decides
\* for the merchant: the lines of a statement are inserted with the category of
\* the save that decides, as long as no correction has overlapped an ingest.
\* Where a merchant's name contains another's that need not be the last one: a
\* rule saved again keeps its place behind newer ones that match.
CorrectionApplies ==
  [][\A u \in Uploads :
       pc[u] = "insert" /\ pc'[u] = "candidates" /\ "ingest" \notin disturbed =>
         \A l \in LinesOf(u) : \A i \in DOMAIN saves :
           Decides(i, Merchant(l)) => category'[l] = saves[i].category]_vars

----------------------------------------------------------------------------
(* What the properties hold for, and the invariants behind them.           *)

\* Every line names a merchant.
MerchantsNamed == \A l \in Lines : Merchant(l) # Blank

\* Requests as the dashboard sends them, without a pattern; no credit goes to
\* "Uncategorized", which extract makes Income.
PlainRequests ==
  /\ Asked \subseteq {Blank}
  /\ \A l \in Lines : Txn[l].credit => "Uncategorized" \notin Offered

\* Until a correction overlaps an ingest, a job has the rules of the moment.
RulesAreCurrent ==
  "ingest" \notin disturbed =>
    \A u \in Uploads : Ingesting(u) =>
      /\ \A c \in Clients : ~Correcting(c)
      /\ pc[u] # "rules" => known[u] = rules

\* Rules and requests name a category that is offered and a pattern, and the
\* rows are retagged after their rule is saved.
RequestsAreSaved ==
  /\ \A r \in Range(rules) : r.category \in Offered /\ r.pattern # Blank
  /\ \A c \in Clients : Correcting(c) =>
       /\ request[c].category \in Offered
       /\ request[c].pattern # Blank
       /\ pc[c] = "retag" => HasRule(request[c].pattern)

\* Someone is about to make the rows of a merchant alike.
Pending(m) == \E c \in Clients : Correcting(c) /\ request[c].pattern = m

\* Rows of one statement and one merchant with a rule differ only while someone
\* is about to make them alike.
RowsAgreeBut ==
  disturbed \subseteq {"correction"} =>
    \A l, m \in Rows :
      Txn[l].upload = Txn[m].upload /\ Merchant(l) = Merchant(m) /\ HasRule(Merchant(l)) =>
        \/ category[l] = category[m]
        \/ "Transfers" \in {category[l], category[m]}
        \/ Pending(Merchant(l))

\* Without races there is one correction at a time, and its rule is the one it
\* retags the rows with.
OneAtATime ==
  "correction" \notin disturbed =>
    /\ \A c, d \in Clients : Correcting(c) /\ Correcting(d) => c = d
    /\ \A c \in Clients : pc[c] = "retag" => request[c] \in Range(rules)

\* Rows differ from the only rule that matches them while someone is about to
\* retag them.
RowsFollowBut ==
  disturbed = {} =>
    \A l \in Rows : \A r \in Range(rules) : OnlyRule(r, Merchant(l)) =>
      \/ category[l] = r.category
      \/ \E c \in Clients : Correcting(c) /\ request[c].pattern \in PatternsIn[Merchant(l)]

\* The rules are the last saves of their patterns, one for every pattern that was
\* saved, those that were saved for the first time last in front.
RulesInOrder ==
  /\ \A k \in DOMAIN rules : \E i \in DOMAIN saves :
       /\ saves[i] = rules[k]
       /\ \A j \in DOMAIN saves : saves[j].pattern = rules[k].pattern => j <= i
  /\ \A i \in DOMAIN saves : HasRule(saves[i].pattern)
  /\ \A k, l \in DOMAIN rules : k < l => SavedBefore(rules[l].pattern, rules[k].pattern)

=============================================================================
