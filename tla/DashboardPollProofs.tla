------------------------ MODULE DashboardPollProofs ------------------------
(***************************************************************************)
(* Proofs about DashboardPoll, for every number of uploads, filters and    *)
(* requests in flight, and every bound on events.                          *)
(***************************************************************************)
EXTENDS DashboardPoll, TLAPS

----------------------------------------------------------------------------
(* Requests in flight.                                                     *)

\* Sending a request leaves the others alone, and one more is unanswered.
LEMMA SentRequest ==
  ASSUME NEW R, NEW reqs \in [Requests -> Transit(R)],
         NEW f \in Filters, NEW session \in BOOLEAN, NEW new \in With(reqs, f, session)
  PROVE  /\ new \in [Requests -> Transit(R)]
         /\ Answered(new) = Answered(reqs)
         /\ InFlight(reqs) \subseteq InFlight(new)
         /\ \A r \in InFlight(reqs) : new[r] = reqs[r]
         /\ \E r \in InFlight(new) : new[r].at # "answered"
<1>1. PICK r \in Requests \ InFlight(reqs) : new = [reqs EXCEPT ![r] = Sent(f, session)]
  BY DEF With
<1>2. Sent(f, session) \in Transit(R) /\ Sent(f, session).at = "sent"
  BY DEF Sent, Transit
<1>3. reqs[r].at = "free"
  BY <1>1 DEF InFlight
<1> QED BY <1>1, <1>2, <1>3 DEF Answered, InFlight

\* The server's answer is newer than all that are on their way.
LEMMA AnsweredRequest ==
  ASSUME NEW R, NEW reqs \in [Requests -> Transit(R)],
         NEW r \in Requests, reqs[r].at = "sent", NEW now \in R
  PROVE  LET new == Answer(reqs, r, now)
         IN  /\ new \in [Requests -> Transit(R)]
             /\ Answered(new) = Answered(reqs) \cup {r}
             /\ InFlight(new) = InFlight(reqs)
             /\ \A q \in Requests \ {r} : new[q] = reqs[q]
             /\ new[r].at = "answered" /\ new[r].read = now
             /\ new[r].older = Answered(reqs)
<1> DEFINE answer == [at |-> "answered", filter |-> reqs[r].filter, read |-> now,
                      late |-> FALSE, older |-> Answered(reqs)]
           new == Answer(reqs, r, now)
<1>1. new = [reqs EXCEPT ![r] = answer]
  BY DEF Answer
<1>2. reqs[r].filter \in Filters
  <2>1. reqs[r] \in Transit(R) /\ reqs[r] # Free
    BY DEF Free
  <2>2. PICK f \in Filters, session \in BOOLEAN : reqs[r] = Sent(f, session)
    BY <2>1 DEF Transit
  <2> QED BY <2>2 DEF Sent
<1>3. answer \in Transit(R)
  <2>1. Answered(reqs) \in SUBSET Requests
    BY DEF Answered
  <2> QED BY <1>2, <2>1 DEF Transit
<1>4. new[r] = answer /\ \A q \in Requests \ {r} : new[q] = reqs[q]
  BY <1>1
<1> HIDE DEF new
<1>5. new \in [Requests -> Transit(R)]
  BY <1>1, <1>3
<1>6. Answered(new) = Answered(reqs) \cup {r} /\ InFlight(new) = InFlight(reqs)
  BY <1>4 DEF Answered, InFlight
<1> QED BY <1>4, <1>5, <1>6 DEF new

\* A delivered answer is out of the way; the others become late if it was newer.
LEMMA DeliveredRequest ==
  ASSUME NEW R, NEW reqs \in [Requests -> Transit(R)], NEW r \in Answered(reqs)
  PROVE  LET new == Delivered(reqs, r)
         IN  /\ new \in [Requests -> Transit(R)]
             /\ Answered(new) = Answered(reqs) \ {r}
             /\ InFlight(new) = InFlight(reqs) \ {r}
             /\ \A q \in InFlight(new) : new[q].at = reqs[q].at
             /\ \A q \in Answered(new) :
                  /\ new[q].read = reqs[q].read
                  /\ new[q].older = reqs[q].older \ {r}
                  /\ ~new[q].late => ~reqs[q].late /\ q \notin reqs[r].older
<1> DEFINE new == Delivered(reqs, r)
           Answers == [at : {"answered"}, filter : Filters, read : R, late : BOOLEAN,
                       older : SUBSET Requests]
<1>1. \A q \in Requests : reqs[q].at = "answered" => reqs[q] \in Answers
  BY DEF Transit, Free, Sent
<1>2. ASSUME NEW a \in Answers, NEW late \in BOOLEAN
      PROVE  LET b == [a EXCEPT !.late = late, !.older = @ \ {r}]
             IN  /\ b \in Answers
                 /\ b.at = "answered" /\ b.read = a.read /\ b.older = a.older \ {r}
                 /\ b.late = late
  OBVIOUS
<1>3. \A q \in Requests :
        IF q = r THEN new[q] = Free
        ELSE IF reqs[q].at = "answered"
          THEN new[q] = [reqs[q] EXCEPT !.late = reqs[q].late \/ q \in reqs[r].older,
                                        !.older = @ \ {r}]
          ELSE new[q] = reqs[q]
  BY DEF Delivered
<1>4. new = [q \in Requests |-> new[q]]
  BY DEF Delivered
<1> HIDE DEF new, Answers
<1>5. ASSUME NEW q \in Requests, q # r, reqs[q].at = "answered"
      PROVE  /\ new[q] \in Answers
             /\ new[q].at = "answered" /\ new[q].read = reqs[q].read
             /\ new[q].older = reqs[q].older \ {r}
             /\ new[q].late = (reqs[q].late \/ q \in reqs[r].older)
  <2>1. reqs[q] \in Answers
    BY <1>1, <1>5
  <2>2. (reqs[q].late \/ q \in reqs[r].older) \in BOOLEAN
    OBVIOUS
  <2>3. new[q] = [reqs[q] EXCEPT !.late = reqs[q].late \/ q \in reqs[r].older,
                                 !.older = @ \ {r}]
    BY <1>3, <1>5
  <2> DEFINE a == reqs[q]
             late == reqs[q].late \/ q \in reqs[r].older
  <2>4. LET b == [a EXCEPT !.late = late, !.older = @ \ {r}]
        IN  /\ b \in Answers
            /\ b.at = "answered" /\ b.read = a.read /\ b.older = a.older \ {r}
            /\ b.late = late
    <3> HIDE DEF a, late
    <3> QED BY ONLY <1>2, <2>1, <2>2 DEF a, late
  <2> QED BY <2>3, <2>4
<1>6. \A q \in Requests : new[q] \in Transit(R)
  <2>1. Free \in Transit(R) /\ Answers \subseteq Transit(R)
    BY DEF Transit, Answers
  <2>2. \A q \in Requests : reqs[q] \in Transit(R)
    OBVIOUS
  <2>3. \A q \in Requests : new[q] = Free \/ new[q] \in Answers \/ new[q] = reqs[q]
    BY <1>3, <1>5
  <2> QED BY <2>1, <2>2, <2>3
<1>7. new \in [Requests -> Transit(R)]
  BY <1>4, <1>6
<1>8. Free.at = "free" /\ r \in Requests
  BY DEF Free, Answered
<1>9. \A q \in Requests : new[q].at = IF q = r THEN "free" ELSE reqs[q].at
  BY <1>3, <1>5, <1>8
<1>10. Answered(new) = Answered(reqs) \ {r} /\ InFlight(new) = InFlight(reqs) \ {r}
  BY <1>8, <1>9 DEF Answered, InFlight
<1>11. \A q \in InFlight(new) : new[q].at = reqs[q].at
  BY <1>9, <1>10 DEF InFlight
<1>12. \A q \in Answered(new) :
         /\ new[q].read = reqs[q].read
         /\ new[q].older = reqs[q].older \ {r}
         /\ ~new[q].late => ~reqs[q].late /\ q \notin reqs[r].older
  BY <1>5, <1>10 DEF Answered
<1> QED BY <1>7, <1>10, <1>11, <1>12 DEF new

\* A request that fails is out of the way, and nobody's answer changes.
LEMMA FailedRequest ==
  ASSUME NEW R, NEW reqs \in [Requests -> Transit(R)], NEW r \in Requests, reqs[r].at = "sent"
  PROVE  LET new == [reqs EXCEPT ![r] = Free]
         IN  /\ new \in [Requests -> Transit(R)]
             /\ Answered(new) = Answered(reqs)
             /\ \A q \in Answered(new) : new[q] = reqs[q]
<1>1. Free \in Transit(R) /\ Free.at = "free"
  BY DEF Free, Transit
<1> QED BY <1>1 DEF Answered

----------------------------------------------------------------------------
(* Type correctness.                                                       *)

LEMMA InitType == Init => TypeOK
<1> SUFFICES ASSUME Init PROVE TypeOK
  OBVIOUS
<1>1. /\ status \in [Uploads -> Statuses]
      /\ view \in [Uploads -> Statuses]
      /\ table \in [filter : Filters, rows : SUBSET Uploads, marked : SUBSET Uploads]
      /\ ledger \in Ledgers /\ marking \in SUBSET Uploads
  BY DashboardAssumption DEF Init, Empty, Statuses, Shown, NoRows, Ledgers
<1>2. ASSUME NEW R PROVE [r \in Requests |-> Free] \in [Requests -> Transit(R)]
  BY DEF Transit
<1>3. /\ polls \in [Requests -> Transit([Uploads -> Statuses])]
      /\ refreshes \in [Requests -> Transit(Ledgers)]
  BY <1>2 DEF Init
<1>4. /\ user \in BOOLEAN /\ pollRef \in BOOLEAN /\ disturbed \in BOOLEAN
      /\ timer \in Filters \cup {None}
      /\ filter \in Filters
  BY DashboardAssumption DEF Init
<1>5. events \in 0..MaxEvents
  BY DashboardAssumption DEF Init
<1>6. clearing = Free
  BY DEF Init
<1> QED BY <1>1, <1>3, <1>4, <1>5, <1>6 DEF TypeOK

LEMMA EventType == TypeOK /\ Event => events' \in 0..MaxEvents
BY DashboardAssumption DEF TypeOK, Event

\* What the filter of an answer on its way is good for.
LEMMA AnswerType ==
  ASSUME NEW R, NEW reqs \in [Requests -> Transit(R)], NEW r \in Answered(reqs)
  PROVE  reqs[r].filter \in Filters /\ reqs[r].read \in R
<1>1. reqs[r] \in Transit(R) /\ reqs[r].at = "answered"
  BY DEF Answered
<1> QED BY <1>1 DEF Transit, Free, Sent

LEMMA UserType ==
  ASSUME TypeOK,
         \/ Login \/ Logout \/ Tick
         \/ ClearTransactions \/ AnswerClear \/ DeliverClear \/ FailClear
         \/ \E u \in Uploads : Upload(u) \/ Work(u) \/ Mark(u)
         \/ \E f \in Filters : Pick(f)
  PROVE  TypeOK'
<1>1. CASE Login
  <2>1. polls' \in [Requests -> Transit([Uploads -> Statuses])]
    BY <1>1, SentRequest DEF Login, PollAndRefresh, TypeOK, page
  <2>2. refreshes' \in [Requests -> Transit(Ledgers)]
    BY <1>1, SentRequest DEF Login, PollAndRefresh, TypeOK, page
  <2> QED BY <1>1, <2>1, <2>2 DEF Login, TypeOK, server, page, polled
<1>2. CASE Logout
  <2>1. events' \in 0..MaxEvents
    BY <1>2, EventType DEF Logout
  <2>2. /\ Empty \in [Uploads -> Statuses]
        /\ Shown(table.filter, NoRows)
             \in [filter : Filters, rows : SUBSET Uploads, marked : SUBSET Uploads]
    BY DEF Empty, Statuses, Shown, NoRows, TypeOK
  <2>3. disturbed' \in BOOLEAN
    BY <1>2 DEF Logout
  <2> QED BY <1>2, <2>1, <2>2, <2>3 DEF Logout, TypeOK, server, sent
<1>3. CASE ClearTransactions
  <2>1. clearing' \in [at : {"sent", "answered"}, filter : Filters]
    BY <1>3 DEF ClearTransactions, TypeOK
  <2> QED BY <1>3, <2>1 DEF ClearTransactions, TypeOK, server, page, polled, sent
<1>4. CASE Tick
  <2>1. polls' \in [Requests -> Transit([Uploads -> Statuses])]
    BY <1>4, SentRequest DEF Tick, TypeOK, server
  <2> QED BY <1>4, <2>1 DEF Tick, TypeOK, server, page, polled
<1>5. ASSUME NEW u \in Uploads, Upload(u) PROVE TypeOK'
  <2>1. polls' \in [Requests -> Transit([Uploads -> Statuses])]
    BY <1>5, SentRequest DEF Upload, TypeOK
  <2>2. status' \in [Uploads -> Statuses]
    BY <1>5 DEF Upload, TypeOK, Statuses
  <2> QED BY <1>5, <2>1, <2>2 DEF Upload, TypeOK, page, polled
<1>6. ASSUME NEW u \in Uploads, Work(u) PROVE TypeOK'
  <2>1. CASE Post(u)
    <3>1. ledger' \in Ledgers
      BY <2>1 DEF Post, TypeOK, Ledgers
    <3> QED BY <2>1, <3>1 DEF Post, TypeOK, page, polled, sent
  <2>2. CASE Complete(u)
    <3>1. status' \in [Uploads -> Statuses] /\ marking' \in SUBSET Uploads
      BY <2>2 DEF Complete, TypeOK, Statuses
    <3> QED BY <2>2, <3>1 DEF Complete, TypeOK, page, polled, sent
  <2>3. CASE Reject(u)
    <3>1. status' \in [Uploads -> Statuses] /\ disturbed' \in BOOLEAN
      BY <2>3 DEF Reject, TypeOK, Statuses
    <3> QED BY <2>3, <3>1 DEF Reject, TypeOK, page, polled, sent
  <2> QED BY <1>6, <2>1, <2>2, <2>3 DEF Work
<1>7. ASSUME NEW f \in Filters, Pick(f) PROVE TypeOK'
  <2>1. refreshes' \in [Requests -> Transit(Ledgers)]
    BY <1>7, SentRequest DEF Pick, TypeOK, server
  <2>2. events' \in 0..MaxEvents
    BY <1>7, EventType DEF Pick
  <2> QED BY <1>7, <2>1, <2>2 DEF Pick, TypeOK, server, polled
<1>8. ASSUME NEW u \in Uploads, Mark(u) PROVE TypeOK'
  <2>1. ledger' \in Ledgers
    BY <1>8 DEF Mark, TypeOK, Ledgers
  <2>2. disturbed' \in BOOLEAN
    BY <1>8 DEF Mark
  <2>3. marking' \in SUBSET Uploads
    BY <1>8 DEF Mark, TypeOK
  <2> QED BY <1>8, <2>1, <2>2, <2>3 DEF Mark, TypeOK, page, polled, sent
<1>9. CASE AnswerClear
  <2>1. status' \in [Uploads -> Statuses]
    BY <1>9 DEF AnswerClear, Statuses
  <2>2. ledger' \in Ledgers
    BY <1>9 DEF AnswerClear, NoRows, Ledgers
  <2>3. clearing.filter \in Filters
    BY <1>9 DEF AnswerClear, TypeOK, Free
  <2>4. clearing' = [at |-> "answered", filter |-> clearing.filter]
    BY <1>9, <2>3 DEF AnswerClear, TypeOK, Free
  <2> QED BY <1>9, <2>1, <2>2, <2>3, <2>4 DEF AnswerClear, TypeOK, page, polled, sent
<1>10. CASE DeliverClear
  <2>1. clearing.filter \in Filters
    BY <1>10 DEF DeliverClear, TypeOK, Free
  <2>2. polls' \in [Requests -> Transit([Uploads -> Statuses])]
    BY <1>10, <2>1, SentRequest DEF DeliverClear, PollAndRefresh, TypeOK
  <2>3. refreshes' \in [Requests -> Transit(Ledgers)]
    BY <1>10, <2>1, SentRequest DEF DeliverClear, PollAndRefresh, TypeOK
  <2> QED BY <1>10, <2>2, <2>3 DEF DeliverClear, TypeOK, server, page, polled
<1>11. CASE FailClear
  <2>1. events' \in 0..MaxEvents
    BY <1>11, EventType DEF FailClear
  <2>2. disturbed' \in BOOLEAN
    BY <1>11 DEF FailClear
  <2> QED BY <1>11, <2>1, <2>2 DEF FailClear, TypeOK, server, page, polled, sent
<1> QED BY <1>1, <1>2, <1>3, <1>4, <1>5, <1>6, <1>7, <1>8, <1>9, <1>10, <1>11

LEMMA NetworkType ==
  ASSUME TypeOK, NEW r \in Requests, Network(r) \/ FailPoll(r) \/ FailRefresh(r)
  PROVE  TypeOK'
<1>1. CASE AnswerPoll(r)
  <2>1. polls' \in [Requests -> Transit([Uploads -> Statuses])]
    BY <1>1, AnsweredRequest DEF AnswerPoll, TypeOK
  <2> QED BY <1>1, <2>1 DEF AnswerPoll, TypeOK, server, page, polled
<1>2. CASE AnswerRefresh(r)
  <2>1. ledger \in Ledgers
    BY DEF TypeOK
  <2>2. refreshes' \in [Requests -> Transit(Ledgers)]
    BY <1>2, <2>1, AnsweredRequest DEF AnswerRefresh, TypeOK
  <2> QED BY <1>2, <2>2 DEF AnswerRefresh, TypeOK, server, page, polled
<1>3. CASE DeliverPoll(r)
  <2>1. r \in Answered(polls)
    BY <1>3 DEF DeliverPoll, Answered
  <2>2. polls[r].filter \in Filters /\ polls[r].read \in [Uploads -> Statuses]
    BY <2>1, AnswerType DEF TypeOK
  <2>3. polls' \in [Requests -> Transit([Uploads -> Statuses])]
    BY <1>3, <2>1, DeliveredRequest DEF DeliverPoll, TypeOK
  <2>4. refreshes' \in [Requests -> Transit(Ledgers)]
    BY <1>3, <2>2, SentRequest DEF DeliverPoll, TypeOK
  <2>5. timer' \in Filters \cup {None} /\ pollRef' \in BOOLEAN
    BY <1>3, <2>2 DEF DeliverPoll, Interval, TypeOK, polled
  <2>6. disturbed' \in BOOLEAN
    BY <1>3 DEF DeliverPoll
  <2> QED BY <1>3, <2>2, <2>3, <2>4, <2>5, <2>6 DEF DeliverPoll, TypeOK, server
<1>4. CASE DeliverRefresh(r)
  <2>1. r \in Answered(refreshes)
    BY <1>4 DEF DeliverRefresh, Answered
  <2>2. refreshes[r].filter \in Filters /\ refreshes[r].read \in Ledgers
    BY <2>1, AnswerType DEF TypeOK
  <2>3. refreshes' \in [Requests -> Transit(Ledgers)]
    BY <1>4, <2>1, DeliveredRequest DEF DeliverRefresh, TypeOK
  <2>4. disturbed' \in BOOLEAN
    BY <1>4 DEF DeliverRefresh
  <2>5. table' \in [filter : Filters, rows : SUBSET Uploads, marked : SUBSET Uploads]
    BY <1>4, <2>2 DEF DeliverRefresh, Shown, Ledgers
  <2> QED BY <1>4, <2>3, <2>4, <2>5 DEF DeliverRefresh, TypeOK, server, polled
<1>5. CASE FailPoll(r)
  <2>1. polls' \in [Requests -> Transit([Uploads -> Statuses])]
    BY <1>5, FailedRequest DEF FailPoll, TypeOK
  <2>2. events' \in 0..MaxEvents
    BY <1>5, EventType DEF FailPoll, Fails, TypeOK
  <2>3. disturbed' \in BOOLEAN
    BY <1>5 DEF FailPoll
  <2> QED BY <1>5, <2>1, <2>2, <2>3 DEF FailPoll, TypeOK, server, page, polled
<1>6. CASE FailRefresh(r)
  <2>1. refreshes' \in [Requests -> Transit(Ledgers)]
    BY <1>6, FailedRequest DEF FailRefresh, TypeOK
  <2>2. events' \in 0..MaxEvents
    BY <1>6, EventType DEF FailRefresh, Fails, TypeOK
  <2> QED BY <1>6, <2>1, <2>2 DEF FailRefresh, TypeOK, server, page, polled
<1> QED BY <1>1, <1>2, <1>3, <1>4, <1>5, <1>6 DEF Network

LEMMA NextType == TypeOK /\ [Next]_vars => TypeOK'
<1>1. CASE UNCHANGED vars
  BY <1>1 DEF TypeOK, vars, server, page, polled, sent
<1> QED BY <1>1, UserType, NetworkType DEF Next

----------------------------------------------------------------------------
(* A completed upload's rows are in the ledger, or on their way.           *)

\* The parts of the invariant that do not look at what the user sees.
Reads == RowsBeforeStatus /\ ReadForGood /\ LaterKnowsMore /\ LateOrBetter

\* They are kept by whatever only takes answers and views away, and uploads
\* further.
LEMMA ReadsKept ==
  ASSUME TypeOK, Reads, RowsBeforeStatus',
         \A u \in Uploads : status[u] \in {"done", "gone"} => status'[u] \in {"done", "gone"},
         \A u \in Uploads : status[u] = "gone" => status'[u] = "gone",
         \A u \in ledger.rows : u \in ledger'.rows \/ status'[u] = "gone",
         \A u \in Uploads : u \in ledger'.rows => u \in ledger.rows \/ status[u] = "busy",
         \A u \in Uploads : view'[u] = "done" => view[u] = "done",
         table'.rows \subseteq table.rows,
         Answered(polls)' \subseteq Answered(polls),
         \A r \in Answered(polls)' : polls'[r].read = polls[r].read,
         Answered(refreshes)' = Answered(refreshes),
         \A r \in Answered(refreshes) : refreshes'[r] = refreshes[r]
  PROVE  Reads'
<1>1. \A r \in Answered(refreshes) : refreshes[r].read.rows \subseteq Uploads
  <2>1. \A r \in Answered(refreshes) : refreshes[r].read \in Ledgers
    BY AnswerType DEF TypeOK
  <2> QED BY <2>1 DEF Ledgers
<1>2. table.rows \subseteq Uploads
  BY DEF TypeOK
<1>3. ReadForGood'
  BY DEF Reads, ReadForGood
<1>4. ASSUME NEW u \in Uploads, u \in ledger'.rows,
             u \in table.rows \/ \E r \in Answered(refreshes) : u \in refreshes[r].read.rows
      PROVE  u \in ledger.rows
  BY <1>4 DEF Reads, ReadForGood
<1>5. LaterKnowsMore'
  <2>1. SUFFICES ASSUME NEW q \in Answered(refreshes), NEW r \in Answered(refreshes)
                 PROVE  /\ refreshes'[q].older \subseteq Answered(refreshes)
                        /\ q # r /\ r \notin refreshes'[q].older =>
                             refreshes'[q].read.rows \cap ledger'.rows
                               \subseteq refreshes'[r].read.rows
    BY DEF LaterKnowsMore
  <2>2. refreshes'[q] = refreshes[q] /\ refreshes'[r] = refreshes[r]
    OBVIOUS
  <2>3. refreshes[q].read.rows \cap ledger'.rows \subseteq ledger.rows
    BY <1>1, <1>4
  <2> QED BY <2>2, <2>3 DEF Reads, LaterKnowsMore
<1>6. LateOrBetter'
  <2>1. table'.rows \cap ledger'.rows \subseteq table.rows \cap ledger.rows
    BY <1>2, <1>4
  <2> QED BY <2>1 DEF Reads, LateOrBetter
<1> QED BY <1>3, <1>5, <1>6 DEF Reads

\* A refresh nobody has answered yet will bring whatever is completed.
LEMMA RefreshUnderWay ==
  ASSUME NEW f \in Filters, NEW session \in BOOLEAN, TypeOK,
         refreshes' \in With(refreshes, f, session)
  PROVE  CompletedIsRefreshed'
<1>1. \E r \in InFlight(refreshes') : refreshes'[r].at # "answered"
  BY SentRequest DEF TypeOK
<1> QED BY <1>1 DEF CompletedIsRefreshed

\* What is shown, or on its way, stays so when only other things happen.
LEMMA ShownStays ==
  ASSUME CompletedIsRefreshed,
         user' => user, disturbed \in BOOLEAN, disturbed => disturbed',
         \A u \in Uploads : status'[u] = "done" /\ view'[u] = "done" =>
           status[u] = "done" /\ view[u] = "done",
         table'.rows = table.rows,
         InFlight(refreshes) \subseteq InFlight(refreshes)',
         \A r \in InFlight(refreshes) : refreshes'[r] = refreshes[r]
  PROVE  CompletedIsRefreshed'
BY DEF CompletedIsRefreshed

LEMMA UserRefreshes ==
  ASSUME TypeOK, RefreshInv,
         \/ Login \/ Logout \/ Tick
         \/ ClearTransactions \/ AnswerClear \/ DeliverClear \/ FailClear
         \/ \E u \in Uploads : Upload(u) \/ Work(u) \/ Mark(u)
         \/ \E f \in Filters : Pick(f)
  PROVE  RefreshInv'
<1>1. Reads /\ CompletedIsRefreshed
  BY DEF RefreshInv, Reads
<1>2. ASSUME Reads', CompletedIsRefreshed' PROVE RefreshInv'
  BY <1>2 DEF RefreshInv, Reads
<1>3. ledger.rows \subseteq Uploads /\ RowsBeforeStatus
  BY <1>1 DEF TypeOK, Ledgers, Reads
<1>4. polls' = polls \/ (\E f \in Filters, session \in BOOLEAN : polls' \in With(polls, f, session))
      => /\ Answered(polls)' \subseteq Answered(polls)
         /\ \A r \in Answered(polls)' : polls'[r].read = polls[r].read
  <2>1. CASE polls' = polls
    BY <2>1
  <2>2. ASSUME NEW f \in Filters, NEW session \in BOOLEAN, polls' \in With(polls, f, session)
        PROVE  /\ Answered(polls)' \subseteq Answered(polls)
               /\ \A r \in Answered(polls)' : polls'[r].read = polls[r].read
    BY <2>2, SentRequest DEF TypeOK, Answered, InFlight
  <2> QED BY <2>1, <2>2
<1>5. refreshes' = refreshes
        \/ (\E f \in Filters, session \in BOOLEAN : refreshes' \in With(refreshes, f, session))
      => /\ Answered(refreshes)' = Answered(refreshes)
         /\ \A r \in Answered(refreshes) : refreshes'[r] = refreshes[r]
         /\ InFlight(refreshes) \subseteq InFlight(refreshes)'
         /\ \A r \in InFlight(refreshes) : refreshes'[r] = refreshes[r]
  <2>1. CASE refreshes' = refreshes
    BY <2>1
  <2>2. ASSUME NEW f \in Filters, NEW session \in BOOLEAN,
               refreshes' \in With(refreshes, f, session)
        PROVE  /\ Answered(refreshes)' = Answered(refreshes)
               /\ \A r \in Answered(refreshes) : refreshes'[r] = refreshes[r]
               /\ InFlight(refreshes) \subseteq InFlight(refreshes)'
               /\ \A r \in InFlight(refreshes) : refreshes'[r] = refreshes[r]
    BY <2>2, SentRequest DEF TypeOK, Answered, InFlight
  <2> QED BY <2>1, <2>2
<1>6. CASE Login
  <2>1. /\ UNCHANGED <<status, ledger, view, table>>
        /\ filter \in Filters
        /\ polls' \in With(polls, filter, TRUE)
        /\ refreshes' \in With(refreshes, filter, TRUE)
    BY <1>6 DEF Login, server, PollAndRefresh, page, TypeOK
  <2>2. CompletedIsRefreshed'
    BY <2>1, RefreshUnderWay
  <2>3. Reads'
    BY <1>1, <1>4, <1>5, <1>3, <2>1, ReadsKept DEF RowsBeforeStatus
  <2> QED BY <1>2, <2>2, <2>3
<1>7. CASE Logout
  <2>1. /\ UNCHANGED <<status, ledger, polls, refreshes>>
        /\ table'.rows = {}
        /\ \A u \in Uploads : view'[u] # "done"
        /\ ~user'
    BY <1>7 DEF Logout, server, Shown, NoRows, Empty, sent, TypeOK
  <2>2. CompletedIsRefreshed'
    BY <2>1 DEF CompletedIsRefreshed
  <2>3. Reads'
    BY <1>1, <1>4, <1>5, <1>3, <2>1, ReadsKept DEF RowsBeforeStatus
  <2> QED BY <1>2, <2>2, <2>3
<1>8. CASE ClearTransactions
  <2>1. /\ UNCHANGED <<status, ledger, user, view, table, polls, refreshes, disturbed>>
        /\ disturbed \in BOOLEAN
    BY <1>8 DEF ClearTransactions, server, page, sent, TypeOK
  <2>2. CompletedIsRefreshed'
    BY <1>1, <2>1, ShownStays
  <2>3. Reads'
    BY <1>1, <1>4, <1>5, <1>3, <2>1, ReadsKept DEF RowsBeforeStatus
  <2> QED BY <1>2, <2>2, <2>3
<1>9. CASE Tick
  <2>1. /\ UNCHANGED <<status, ledger, user, view, table, refreshes, disturbed>>
        /\ timer \in Filters /\ user \in BOOLEAN /\ disturbed \in BOOLEAN
        /\ polls' \in With(polls, timer, user)
    BY <1>9 DEF Tick, server, page, TypeOK
  <2>2. CompletedIsRefreshed'
    BY <1>1, <2>1, ShownStays
  <2>3. Reads'
    BY <1>1, <1>4, <1>5, <1>3, <2>1, ReadsKept DEF RowsBeforeStatus
  <2> QED BY <1>2, <2>2, <2>3
<1>10. ASSUME NEW u \in Uploads, Upload(u) PROVE RefreshInv'
  <2>1. /\ UNCHANGED <<ledger, user, view, table, refreshes, disturbed>>
        /\ filter \in Filters /\ disturbed \in BOOLEAN
        /\ polls' \in With(polls, filter, TRUE)
        /\ status[u] = "absent"
        /\ \A x \in Uploads : status'[x] = IF x = u THEN "busy" ELSE status[x]
    BY <1>10 DEF Upload, page, TypeOK
  <2>2. CompletedIsRefreshed'
    BY <1>1, <2>1, ShownStays
  <2>3. Reads'
    BY <1>1, <1>4, <1>5, <1>3, <2>1, ReadsKept DEF RowsBeforeStatus
  <2> QED BY <1>2, <2>2, <2>3
<1>11. ASSUME NEW u \in Uploads, Work(u) PROVE RefreshInv'
  <2>1. /\ UNCHANGED <<user, view, table, polls, refreshes>>
        /\ disturbed \in BOOLEAN /\ (disturbed => disturbed')
        /\ status[u] = "busy"
        /\ \A x \in Uploads : x # u => status'[x] = status[x]
        /\ status'[u] \in {"busy", "done", "error"}
        /\ status'[u] = "done" => u \in ledger.rows
        /\ ledger' = ledger \/ (ledger'.rows = ledger.rows \cup {u} /\ status' = status)
    BY <1>11 DEF Work, Post, Complete, Reject, page, sent, TypeOK, Ledgers
  <2>2. view[u] # "done"
    BY <1>1, <2>1 DEF Reads, ReadForGood
  <2>3. CompletedIsRefreshed'
    BY <1>1, <2>1, <2>2, ShownStays
  <2>4. RowsBeforeStatus'
    BY <1>3, <2>1 DEF RowsBeforeStatus
  <2>5. Reads'
    BY <1>1, <1>4, <1>5, <1>3, <2>1, <2>4, ReadsKept
  <2> QED BY <1>2, <2>3, <2>5
<1>12. ASSUME NEW f \in Filters, Pick(f) PROVE RefreshInv'
  <2>1. /\ UNCHANGED <<status, ledger, view, table, polls>>
        /\ refreshes' \in With(refreshes, f, TRUE)
    BY <1>12 DEF Pick, server
  <2>2. CompletedIsRefreshed'
    BY <2>1, RefreshUnderWay
  <2>3. Reads'
    BY <1>1, <1>4, <1>5, <1>3, <2>1, ReadsKept DEF RowsBeforeStatus
  <2> QED BY <1>2, <2>2, <2>3
<1>13. ASSUME NEW u \in Uploads, Mark(u) PROVE RefreshInv'
  <2>1. /\ UNCHANGED <<status, user, view, table, polls, refreshes>>
        /\ disturbed \in BOOLEAN /\ (disturbed => disturbed')
        /\ ledger'.rows = ledger.rows
    BY <1>13 DEF Mark, page, sent, TypeOK, Ledgers
  <2>2. CompletedIsRefreshed'
    BY <1>1, <2>1, ShownStays
  <2>3. Reads'
    BY <1>1, <1>4, <1>5, <1>3, <2>1, ReadsKept DEF RowsBeforeStatus
  <2> QED BY <1>2, <2>2, <2>3
<1>14. CASE AnswerClear
  <2>1. /\ UNCHANGED <<user, view, table, polls, refreshes, disturbed>>
        /\ disturbed \in BOOLEAN
        /\ \A u \in Uploads : status'[u] = IF status[u] = "absent" THEN "absent" ELSE "gone"
        /\ ledger'.rows = {}
    BY <1>14 DEF AnswerClear, NoRows, page, sent, TypeOK
  <2>2. CompletedIsRefreshed'
    BY <1>1, <2>1, ShownStays
  <2>3. RowsBeforeStatus'
    BY <2>1 DEF RowsBeforeStatus
  <2>4. \A u \in ledger.rows : status'[u] = "gone"
    BY <1>3, <2>1 DEF RowsBeforeStatus
  <2>5. Reads'
    BY <1>1, <1>4, <1>5, <1>3, <2>1, <2>3, <2>4, ReadsKept
  <2> QED BY <1>2, <2>2, <2>5
<1>15. CASE DeliverClear \/ FailClear
  <2>1. CASE DeliverClear
    <3>1. /\ UNCHANGED <<status, ledger, view, table>>
          /\ clearing.filter \in Filters /\ user \in BOOLEAN
          /\ polls' \in With(polls, clearing.filter, user)
          /\ refreshes' \in With(refreshes, clearing.filter, user)
      BY <2>1 DEF DeliverClear, PollAndRefresh, server, page, TypeOK, Free
    <3>2. CompletedIsRefreshed'
      BY <3>1, RefreshUnderWay
    <3>3. Reads'
      BY <1>1, <1>4, <1>5, <1>3, <3>1, ReadsKept DEF RowsBeforeStatus
    <3> QED BY <1>2, <3>2, <3>3
  <2>2. CASE FailClear
    <3>1. /\ UNCHANGED <<status, ledger, user, view, table, polls, refreshes>>
          /\ disturbed \in BOOLEAN /\ (disturbed => disturbed')
      BY <2>2 DEF FailClear, server, page, sent, TypeOK
    <3>2. CompletedIsRefreshed'
      BY <1>1, <3>1, ShownStays
    <3>3. Reads'
      BY <1>1, <1>4, <1>5, <1>3, <3>1, ReadsKept DEF RowsBeforeStatus
    <3> QED BY <1>2, <3>2, <3>3
  <2> QED BY <1>15, <2>1, <2>2
<1> QED BY <1>6, <1>7, <1>8, <1>9, <1>10, <1>11, <1>12, <1>13, <1>14, <1>15
LEMMA NetworkRefreshes ==
  ASSUME TypeOK, RefreshInv, NEW r \in Requests,
         Network(r) \/ FailPoll(r) \/ FailRefresh(r)
  PROVE  RefreshInv'
<1>1. Reads /\ CompletedIsRefreshed
  BY DEF RefreshInv, Reads
<1>2. ASSUME Reads', CompletedIsRefreshed' PROVE RefreshInv'
  BY <1>2 DEF RefreshInv, Reads
<1>3. /\ polls \in [Requests -> Transit([Uploads -> Statuses])]
      /\ refreshes \in [Requests -> Transit(Ledgers)]
      /\ disturbed \in BOOLEAN /\ user \in BOOLEAN
  BY DEF TypeOK
<1>4. RowsBeforeStatus /\ ledger.rows \subseteq Uploads
  BY <1>1 DEF Reads, TypeOK, Ledgers
<1>5. CASE AnswerPoll(r)
  <2>1. /\ UNCHANGED <<status, ledger, user, view, table, refreshes, disturbed>>
        /\ polls[r].at = "sent"
        /\ status \in [Uploads -> Statuses]
        /\ polls' = Answer(polls, r, status)
    BY <1>5 DEF AnswerPoll, server, page, TypeOK
  <2>2. /\ Answered(polls)' = Answered(polls) \cup {r}
        /\ polls'[r].read = status
        /\ \A q \in Requests \ {r} : polls'[q] = polls[q]
    BY <1>3, <2>1, AnsweredRequest
  <2>3. Answered(polls) \subseteq Requests
    BY DEF Answered
  <2>4. ReadForGood'
    BY <1>1, <2>1, <2>2, <2>3 DEF Reads, ReadForGood
  <2>5. Reads'
    BY <1>1, <2>1, <2>4 DEF Reads, LaterKnowsMore, LateOrBetter, RowsBeforeStatus
  <2>6. CompletedIsRefreshed'
    BY <1>1, <1>3, <2>1, ShownStays
  <2> QED BY <1>2, <2>5, <2>6
<1>6. CASE AnswerRefresh(r)
  <2>1. /\ UNCHANGED <<status, ledger, user, view, table, polls, disturbed>>
        /\ refreshes[r].at = "sent"
        /\ refreshes' = Answer(refreshes, r, ledger)
        /\ ledger \in Ledgers
    BY <1>6 DEF AnswerRefresh, server, page, TypeOK
  <2>2. /\ Answered(refreshes)' = Answered(refreshes) \cup {r}
        /\ InFlight(refreshes)' = InFlight(refreshes)
        /\ \A q \in Requests \ {r} : refreshes'[q] = refreshes[q]
        /\ refreshes'[r].read = ledger
        /\ refreshes'[r].older = Answered(refreshes)
    BY <1>3, <2>1, AnsweredRequest
  <2>3. /\ Answered(refreshes) \subseteq Requests \ {r}
        /\ InFlight(refreshes) \subseteq Requests
    BY <2>1 DEF Answered, InFlight
  <2>4. ReadForGood'
    BY <1>1, <2>1, <2>2, <2>3 DEF Reads, ReadForGood
  <2>5. LaterKnowsMore'
    <3>1. SUFFICES ASSUME NEW p \in Answered(refreshes)', NEW q \in Answered(refreshes)'
                   PROVE  /\ refreshes'[p].older \subseteq Answered(refreshes)'
                          /\ p # q /\ q \notin refreshes'[p].older =>
                               refreshes'[p].read.rows \cap ledger.rows
                                 \subseteq refreshes'[q].read.rows
      BY <2>1 DEF LaterKnowsMore
    <3>2. CASE p = r
      BY <2>2, <3>1, <3>2
    <3>3. CASE p # r /\ q = r
      BY <1>1, <2>2, <2>3, <3>1, <3>3 DEF Reads, LaterKnowsMore
    <3>4. CASE p # r /\ q # r
      BY <1>1, <2>2, <2>3, <3>1, <3>4 DEF Reads, LaterKnowsMore
    <3> QED BY <3>2, <3>3, <3>4
  <2>6. LateOrBetter'
    BY <1>1, <2>1, <2>2, <2>3 DEF Reads, LateOrBetter
  <2>7. CompletedIsRefreshed'
    <3>1. SUFFICES ASSUME NEW u \in Uploads, status[u] = "done", user, view[u] = "done", ~disturbed
                   PROVE  \/ u \in table.rows
                          \/ \E q \in InFlight(refreshes)' :
                               refreshes'[q].at = "answered" => u \in refreshes'[q].read.rows
      BY <2>1 DEF CompletedIsRefreshed
    <3>2. u \in ledger.rows
      BY <1>4, <3>1 DEF RowsBeforeStatus
    <3>3. CASE u \in table.rows
      BY <3>3
    <3>4. CASE \E q \in InFlight(refreshes) :
                 refreshes[q].at = "answered" => u \in refreshes[q].read.rows
      <4>1. PICK q \in InFlight(refreshes) :
                   refreshes[q].at = "answered" => u \in refreshes[q].read.rows
        BY <3>4
      <4>2. CASE q = r
        BY <2>2, <3>2, <4>1, <4>2
      <4>3. CASE q # r
        BY <2>2, <2>3, <4>1, <4>3
      <4> QED BY <4>2, <4>3
    <3> QED BY <1>1, <3>1, <3>3, <3>4 DEF CompletedIsRefreshed
  <2> QED BY <1>2, <1>4, <2>1, <2>4, <2>5, <2>6, <2>7 DEF Reads, RowsBeforeStatus
<1>7. CASE DeliverPoll(r)
  <2>1. /\ UNCHANGED <<status, ledger, user, table>>
        /\ view' = polls[r].read
        /\ disturbed => disturbed'
        /\ IF NewlyDone(polls[r].read)
             THEN refreshes' \in With(refreshes, polls[r].filter, user)
             ELSE UNCHANGED refreshes
        /\ polls' = Delivered(polls, r)
        /\ r \in Answered(polls)
    BY <1>3, <1>7 DEF DeliverPoll, server, Answered
  <2>2. polls[r].filter \in Filters
    BY <1>3, <2>1, AnswerType
  <2>3. /\ Answered(polls)' = Answered(polls) \ {r}
        /\ \A q \in Answered(polls)' : polls'[q].read = polls[q].read
    BY <1>3, <2>1, DeliveredRequest
  <2>4. /\ Answered(refreshes)' = Answered(refreshes)
        /\ \A q \in Answered(refreshes) : refreshes'[q] = refreshes[q]
    <3>1. CASE refreshes' = refreshes
      BY <3>1
    <3>2. CASE refreshes' \in With(refreshes, polls[r].filter, user)
      BY <1>3, <2>2, <3>2, SentRequest DEF Answered, InFlight
    <3> QED BY <2>1, <3>1, <3>2
  <2>5. ReadForGood'
    BY <1>1, <2>1, <2>3, <2>4 DEF Reads, ReadForGood
  <2>6. Reads'
    BY <1>1, <2>1, <2>4, <2>5 DEF Reads, LaterKnowsMore, LateOrBetter, RowsBeforeStatus
  <2>7. CompletedIsRefreshed'
    <3>1. CASE NewlyDone(polls[r].read)
      BY <1>3, <2>1, <2>2, <3>1, RefreshUnderWay
    <3>2. CASE ~NewlyDone(polls[r].read)
      <4>1. \A u \in Uploads : view'[u] = "done" => view[u] = "done"
        BY <2>1, <3>2 DEF NewlyDone
      <4> QED BY <1>1, <1>3, <2>1, <3>2, <4>1, ShownStays
    <3> QED BY <3>1, <3>2
  <2> QED BY <1>2, <2>6, <2>7
<1>8. CASE DeliverRefresh(r)
  <2>1. /\ UNCHANGED <<status, ledger, user, view, polls>>
        /\ table'.rows = refreshes[r].read.rows
        /\ refreshes' = Delivered(refreshes, r)
        /\ disturbed => disturbed'
        /\ refreshes[r].late => disturbed'
        /\ r \in Answered(refreshes)
    BY <1>3, <1>8 DEF DeliverRefresh, server, Shown, Answered
  <2>2. /\ Answered(refreshes)' = Answered(refreshes) \ {r}
        /\ InFlight(refreshes)' = InFlight(refreshes) \ {r}
        /\ \A q \in InFlight(refreshes)' : refreshes'[q].at = refreshes[q].at
        /\ \A q \in Answered(refreshes)' :
             /\ refreshes'[q].read.rows = refreshes[q].read.rows
             /\ refreshes'[q].older = refreshes[q].older \ {r}
             /\ ~refreshes'[q].late => ~refreshes[q].late /\ q \notin refreshes[r].older
    BY <1>3, <2>1, DeliveredRequest
  <2>3. ReadForGood'
    BY <1>1, <2>1, <2>2 DEF Reads, ReadForGood
  <2>4. LaterKnowsMore'
    BY <1>1, <2>1, <2>2 DEF Reads, LaterKnowsMore
  <2>5. LateOrBetter'
    <3>1. SUFFICES ASSUME NEW q \in Answered(refreshes)', ~refreshes'[q].late
                   PROVE  refreshes[r].read.rows \cap ledger.rows \subseteq refreshes'[q].read.rows
      BY <2>1 DEF LateOrBetter
    <3>2. q # r /\ q \in Answered(refreshes) /\ q \notin refreshes[r].older
      BY <2>2, <3>1
    <3> QED BY <1>1, <2>1, <2>2, <3>1, <3>2 DEF Reads, LaterKnowsMore
  <2>6. CompletedIsRefreshed'
    <3>1. SUFFICES ASSUME NEW u \in Uploads, status[u] = "done", user, view[u] = "done", ~disturbed'
                   PROVE  \/ u \in refreshes[r].read.rows
                          \/ \E q \in InFlight(refreshes)' :
                               refreshes'[q].at = "answered" => u \in refreshes'[q].read.rows
      BY <2>1 DEF CompletedIsRefreshed
    <3>2. ~disturbed /\ ~refreshes[r].late
      BY <2>1, <3>1
    <3>3. CASE u \in table.rows
      BY <1>1, <1>4, <2>1, <3>1, <3>2, <3>3 DEF Reads, LateOrBetter, RowsBeforeStatus
    <3>4. ASSUME NEW q \in InFlight(refreshes),
                 refreshes[q].at = "answered" => u \in refreshes[q].read.rows
          PROVE  \/ u \in refreshes[r].read.rows
                 \/ refreshes'[q].at = "answered" => u \in refreshes'[q].read.rows
      <4>1. CASE q = r
        BY <2>1, <3>4, <4>1 DEF Answered
      <4>2. CASE q # r
        <5>1. q \in InFlight(refreshes)' /\ refreshes'[q].at = refreshes[q].at
          BY <2>2, <4>2
        <5>2. refreshes'[q].at = "answered" => q \in Answered(refreshes)'
          BY <5>1 DEF Answered, InFlight
        <5> QED BY <2>2, <3>4, <5>1, <5>2
      <4> QED BY <4>1, <4>2
    <3>5. \A q \in InFlight(refreshes) : q # r => q \in InFlight(refreshes)'
      BY <2>2
    <3>6. r \in InFlight(refreshes) /\ refreshes[r].at = "answered"
      BY <2>1 DEF Answered, InFlight
    <3> QED BY <1>1, <3>1, <3>2, <3>3, <3>4, <3>5, <3>6 DEF CompletedIsRefreshed
  <2> QED BY <1>2, <1>4, <2>1, <2>3, <2>4, <2>5, <2>6 DEF Reads, RowsBeforeStatus
<1>9. CASE FailPoll(r)
  <2>1. /\ UNCHANGED <<status, ledger, user, view, table, refreshes>>
        /\ disturbed => disturbed'
        /\ polls[r].at = "sent"
        /\ polls' = [polls EXCEPT ![r] = Free]
    BY <1>3, <1>9 DEF FailPoll, server, page
  <2>2. /\ Answered(polls)' = Answered(polls)
        /\ \A q \in Answered(polls)' : polls'[q] = polls[q]
    BY <1>3, <2>1, FailedRequest
  <2>3. Reads'
    BY <1>1, <1>4, <2>1, <2>2, ReadsKept DEF RowsBeforeStatus
  <2>4. CompletedIsRefreshed'
    BY <1>1, <1>3, <2>1, ShownStays
  <2> QED BY <1>2, <2>3, <2>4
<1>10. CASE FailRefresh(r)
  <2>1. /\ UNCHANGED <<status, ledger, user, view, table, polls>>
        /\ disturbed' = TRUE
        /\ refreshes[r].at = "sent"
        /\ refreshes' = [refreshes EXCEPT ![r] = Free]
    BY <1>10 DEF FailRefresh, server, page
  <2>2. /\ Answered(refreshes)' = Answered(refreshes)
        /\ \A q \in Answered(refreshes)' : refreshes'[q] = refreshes[q]
    BY <1>3, <2>1, FailedRequest
  <2>3. Reads'
    BY <1>1, <1>4, <2>1, <2>2, ReadsKept DEF RowsBeforeStatus
  <2>4. CompletedIsRefreshed'
    BY <2>1 DEF CompletedIsRefreshed
  <2> QED BY <1>2, <2>3, <2>4
<1> QED BY <1>5, <1>6, <1>7, <1>8, <1>9, <1>10 DEF Network

LEMMA InitRefreshes == Init => RefreshInv
<1> SUFFICES ASSUME Init PROVE RefreshInv
  OBVIOUS
<1>1. /\ Answered(polls) = {} /\ Answered(refreshes) = {}
      /\ table.rows = {} /\ ~user
      /\ \A u \in Uploads : view[u] # "done"
      /\ ledger.rows = {u \in Uploads : status[u] = "done"}
  BY DEF Init, Answered, Free, Empty, Shown, NoRows
<1> QED BY <1>1 DEF RefreshInv, RowsBeforeStatus, ReadForGood, LaterKnowsMore, LateOrBetter,
           CompletedIsRefreshed

LEMMA NextRefreshes == TypeOK /\ RefreshInv /\ [Next]_vars => RefreshInv'
<1>1. CASE UNCHANGED vars
  BY <1>1 DEF RefreshInv, ReadForGood, LaterKnowsMore, LateOrBetter, CompletedIsRefreshed,
     Answered, InFlight, RowsBeforeStatus, vars, server, page, polled, sent
<1> QED BY <1>1, UserRefreshes, NetworkRefreshes DEF Next

THEOREM RefreshInvariant == Spec => [](TypeOK /\ RefreshInv)
<1> QED BY InitType, NextType, InitRefreshes, NextRefreshes, PTL DEF Spec

\* Whatever polls and refreshes overlap, an upload that the dashboard shows as
\* completed has its transactions in the ledger it shows, or a refresh that will
\* bring them is on its way, unless one of the listed disturbances has happened
\* (pollUploads compares with the last list; refreshData replaces the ledger).
THEOREM CompletionReachesLedger == Spec => []CompletedIsRefreshed
<1>1. RefreshInv => CompletedIsRefreshed
  BY DEF RefreshInv
<1> QED BY <1>1, RefreshInvariant, PTL

=============================================================================
