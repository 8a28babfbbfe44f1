---------------------------- MODULE DashboardPoll ----------------------------
(***************************************************************************)
(* One tab of the dashboard: it polls the uploads while one is processed   *)
(* and refreshes its ledger when one completes.                            *)
(*                                                                         *)
(* Requests are answered when the server reads the database and delivered  *)
(* later, in any order.  A request belongs to a render of App and keeps    *)
(* the filter of that render.  The totals and the table of a refresh are   *)
(* taken to be read at once.  A worker posts the rows of an upload, then   *)
(* completes it, and then marks the transfers among the rows of all.       *)
(***************************************************************************)
EXTENDS Naturals, FiniteSets

CONSTANTS
  Uploads,
  Filters,    \* months and categories to choose from
  All,        \* the filter that leaves nothing out
  None,
  Requests,   \* requests that may be in flight at once
  MaxEvents   \* bound on failing requests, changes of the filter and logouts

ASSUME DashboardAssumption == All \in Filters /\ MaxEvents \in Nat

VARIABLES
  status,     \* uploads on the server
  ledger,     \* uploads that have rows on the server, and those with marked ones
  marking,    \* completed uploads whose worker has yet to mark transfers
  user,       \* whether someone is logged in
  filter,     \* the selected filter
  view,       \* the list of uploads shown
  table,      \* the ledger shown, and its filter
  timer,      \* the filter of the interval's render, None when no interval runs
  pollRef,    \* whether pollRef.current is not null
  polls,      \* requests in flight of pollUploads
  refreshes,  \* requests in flight of refreshData
  clearing,   \* the request in flight of clearTransactions
  events,
  disturbed   \* something has happened that nothing makes up for

server == <<status, ledger, marking>>
page   == <<filter, view, table>>
polled == <<timer, pollRef>>
sent   == <<polls, refreshes>>
vars   == <<server, user, page, polled, sent, clearing, events, disturbed>>

\* Uploads that are absent or gone are not in the list.
Statuses == {"absent", "busy", "done", "error", "gone"}
Empty    == [u \in Uploads |-> "absent"]
Ledgers  == [rows : SUBSET Uploads, marked : SUBSET Uploads]
NoRows   == [rows |-> {}, marked |-> {}]
Free     == [at |-> "free"]

\* A request that the server has not answered yet; one sent while nobody is
\* logged in is refused.
Sent(f, session) == [at |-> "sent", filter |-> f, session |-> session]

InFlight(reqs) == {r \in Requests : reqs[r].at # "free"}
Answered(reqs) == {r \in Requests : reqs[r].at = "answered"}

\* The ledger shown after an answer to a refresh under f.
Shown(f, now) == [filter |-> f, rows |-> now.rows, marked |-> now.marked]

\* reqs with one more request.
With(reqs, f, session) ==
  {[reqs EXCEPT ![r] = Sent(f, session)] : r \in Requests \ InFlight(reqs)}

\* reqs after r was answered with what the server has, and after its delivery:
\* answers that are older than it and come later are late.
Answer(reqs, r, now) ==
  [reqs EXCEPT ![r] =
     [at |-> "answered", filter |-> @.filter, read |-> now, late |-> FALSE,
      older |-> Answered(reqs)]]

Delivered(reqs, r) ==
  [q \in Requests |->
     IF q = r THEN Free
     ELSE IF reqs[q].at = "answered"
       THEN [reqs[q] EXCEPT !.late = @ \/ q \in reqs[r].older, !.older = @ \ {r}]
       ELSE reqs[q]]

\* What a request goes through, whose answer is one of R.
Transit(R) ==
  {Free} \cup {Sent(f, session) : f \in Filters, session \in BOOLEAN} \cup
  [at : {"answered"}, filter : Filters, read : R, late : BOOLEAN, older : SUBSET Requests]

TypeOK ==
  /\ status \in [Uploads -> Statuses]
  /\ ledger \in Ledgers
  /\ marking \in SUBSET Uploads
  /\ user \in BOOLEAN
  /\ filter \in Filters
  /\ view \in [Uploads -> Statuses]
  /\ table \in [filter : Filters, rows : SUBSET Uploads, marked : SUBSET Uploads]
  /\ timer \in Filters \cup {None}
  /\ pollRef \in BOOLEAN
  /\ polls \in [Requests -> Transit([Uploads -> Statuses])]
  /\ refreshes \in [Requests -> Transit(Ledgers)]
  /\ clearing \in {Free} \cup [at : {"sent", "answered"}, filter : Filters]
  /\ events \in 0..MaxEvents
  /\ disturbed \in BOOLEAN

Init ==
  /\ status \in [Uploads -> {"absent", "busy", "done"}]
  /\ ledger = [NoRows EXCEPT !.rows = {u \in Uploads : status[u] = "done"}]
  /\ marking = {}
  /\ user = FALSE
  /\ filter = All
  /\ view = Empty
  /\ table = Shown(filter, NoRows)
  /\ timer = None
  /\ pollRef = FALSE
  /\ polls = [r \in Requests |-> Free]
  /\ refreshes = [r \in Requests |-> Free]
  /\ clearing = Free
  /\ events = 0
  /\ disturbed = FALSE

----------------------------------------------------------------------------
(* The user.                                                               *)

Event == events < MaxEvents /\ events' = events + 1

PollAndRefresh(f, session) ==
  /\ polls' \in With(polls, f, session)
  /\ refreshes' \in With(refreshes, f, session)

\* The effects on [user].
Login ==
  /\ ~user
  /\ user' = TRUE
  /\ PollAndRefresh(filter, TRUE)
  /\ UNCHANGED <<server, page, polled, clearing, events, disturbed>>

\* The cleanup of the effect ends the interval, but pollRef keeps its number.
Logout ==
  /\ user
  /\ Event
  /\ user' = FALSE
  /\ view' = Empty
  /\ table' = Shown(table.filter, NoRows)
  /\ timer' = None
  /\ disturbed' =
       \/ disturbed
       \/ pollRef
       \/ InFlight(polls) \cup InFlight(refreshes) # {}
       \/ clearing.at # "free"
  /\ UNCHANGED <<server, filter, pollRef, sent, clearing>>

\* A statement is accepted.
Upload(u) ==
  /\ user
  /\ status[u] = "absent"
  /\ status' = [status EXCEPT ![u] = "busy"]
  /\ polls' \in With(polls, filter, TRUE)
  /\ UNCHANGED <<ledger, marking, user, page, polled, refreshes, clearing, events, disturbed>>

ClearTransactions ==
  /\ user
  /\ table.rows # {}
  /\ clearing.at = "free"
  /\ clearing' = [at |-> "sent", filter |-> filter]
  /\ UNCHANGED <<server, user, page, polled, sent, events, disturbed>>

\* Another month or category: refreshData changes, and its effect runs it.
Pick(f) ==
  /\ user
  /\ f # filter
  /\ Event
  /\ filter' = f
  /\ refreshes' \in With(refreshes, f, TRUE)
  /\ UNCHANGED <<server, user, view, table, polled, polls, clearing, disturbed>>

----------------------------------------------------------------------------
(* The server and the network.                                             *)

\* The rows of a statement are inserted.
Post(u) ==
  /\ status[u] = "busy"
  /\ u \notin ledger.rows
  /\ ledger' = [ledger EXCEPT !.rows = @ \cup {u}]
  /\ UNCHANGED <<status, marking, user, page, polled, sent, clearing, events, disturbed>>

Complete(u) ==
  /\ status[u] = "busy"
  /\ u \in ledger.rows
  /\ status' = [status EXCEPT ![u] = "done"]
  /\ marking' = marking \cup {u}
  /\ UNCHANGED <<ledger, user, page, polled, sent, clearing, events, disturbed>>

\* Its rows are in the ledger if their commit was reported as a failure.
Reject(u) ==
  /\ status[u] = "busy"
  /\ status' = [status EXCEPT ![u] = "error"]
  /\ disturbed' = (disturbed \/ u \in ledger.rows)
  /\ UNCHANGED <<ledger, marking, user, page, polled, sent, clearing, events>>

\* A refresh follows when the list first shows an upload as completed.
RefreshToCome == ~user \/ \E u \in ledger.rows : view[u] # "done"

\* Rows of any upload become transfers, or none do.
Mark(u) ==
  /\ u \in marking
  /\ marking' = marking \ {u}
  /\ \E S \in SUBSET ledger.rows : ledger' = [ledger EXCEPT !.marked = @ \cup S]
  /\ disturbed' = (disturbed \/ (ledger' # ledger /\ ~RefreshToCome))
  /\ UNCHANGED <<status, user, page, polled, sent, clearing, events>>

AnswerPoll(r) ==
  /\ polls[r].at = "sent" /\ polls[r].session
  /\ polls' = Answer(polls, r, status)
  /\ UNCHANGED <<server, user, page, polled, refreshes, clearing, events, disturbed>>

AnswerRefresh(r) ==
  /\ refreshes[r].at = "sent" /\ refreshes[r].session
  /\ refreshes' = Answer(refreshes, r, ledger)
  /\ UNCHANGED <<server, user, page, polled, polls, clearing, events, disturbed>>

AnswerClear ==
  /\ clearing.at = "sent"
  /\ clearing' = [clearing EXCEPT !.at = "answered"]
  /\ status' = [u \in Uploads |-> IF status[u] = "absent" THEN "absent" ELSE "gone"]
  /\ ledger' = NoRows
  /\ UNCHANGED <<marking, user, page, polled, sent, events, disturbed>>

\* A failure counts against the bound, unless the request is refused.
Fails(request) ==
  IF request.session THEN Event ELSE UNCHANGED events

\* Nothing is done about it: the interval, if one runs, polls again.
FailPoll(r) ==
  /\ polls[r].at = "sent"
  /\ Fails(polls[r])
  /\ polls' = [polls EXCEPT ![r] = Free]
  /\ disturbed' = (disturbed \/ timer = None \/ InFlight(polls) # {r})
  /\ UNCHANGED <<server, user, page, polled, refreshes, clearing>>

\* The error is shown, and nothing is read again.
FailRefresh(r) ==
  /\ refreshes[r].at = "sent"
  /\ Fails(refreshes[r])
  /\ refreshes' = [refreshes EXCEPT ![r] = Free]
  /\ disturbed' = TRUE
  /\ UNCHANGED <<server, user, page, polled, polls, clearing>>

\* The error is shown; the rows may be gone all the same.
FailClear ==
  /\ clearing.at # "free"
  /\ Event
  /\ clearing' = Free
  /\ disturbed' = (disturbed \/ clearing.at = "answered")
  /\ UNCHANGED <<server, user, page, polled, sent>>

----------------------------------------------------------------------------
(* The callbacks.                                                          *)

\* Mutant: only uploads that the list has shown as busy can complete.
SeenToComplete(list) == \E u \in Uploads : list[u] = "done" /\ view[u] = "busy"

NewlyDone(list) == \E u \in Uploads : list[u] = "done" /\ view[u] # "done"

Busy(list) == \E u \in Uploads : list[u] = "busy"

\* Mutant: whether to poll is decided on the list shown so far.
IntervalFrom(f, list) ==
  IF Busy(view) /\ ~pollRef THEN timer' = f /\ pollRef' = TRUE
  ELSE IF ~Busy(view) /\ pollRef THEN timer' = None /\ pollRef' = FALSE
  ELSE UNCHANGED polled

\* The interval starts with the first busy list and ends with the first quiet one.
Interval(f, list) ==
  IF Busy(list) /\ ~pollRef THEN timer' = f /\ pollRef' = TRUE
  ELSE IF ~Busy(list) /\ pollRef THEN timer' = None /\ pollRef' = FALSE
  ELSE UNCHANGED polled

\* The rest of pollUploads, with the refreshData of its own render.
DeliverPoll(r) ==
  LET p == polls[r] IN
  /\ p.at = "answered"
  /\ view' = p.read
  /\ IF NewlyDone(p.read)
       THEN refreshes' \in With(refreshes, p.filter, user) ELSE UNCHANGED refreshes
  /\ Interval(p.filter, p.read)
  /\ polls' = Delivered(polls, r)
  /\ disturbed' = (disturbed \/ (p.late /\ ~Busy(p.read)))
  /\ UNCHANGED <<server, user, filter, table, clearing, events>>

\* The rest of refreshData; no other request is looked at.
DeliverRefresh(r) ==
  LET a == refreshes[r] IN
  /\ a.at = "answered"
  /\ table' = Shown(a.filter, a.read)
  /\ refreshes' = Delivered(refreshes, r)
  /\ disturbed' =
       \/ disturbed
       \/ a.late
       \/ a.filter # filter /\ \A q \in InFlight(refreshes) \ {r} : refreshes[q].filter # filter
  /\ UNCHANGED <<server, user, filter, view, polled, polls, clearing, events>>

\* The refresh and the poll of the render in which it was asked for.
DeliverClear ==
  /\ clearing.at = "answered"
  /\ clearing' = Free
  /\ PollAndRefresh(clearing.filter, user)
  /\ UNCHANGED <<server, user, page, polled, events, disturbed>>

Tick ==
  /\ timer # None
  /\ polls' \in With(polls, timer, user)
  /\ UNCHANGED <<server, user, page, polled, refreshes, clearing, events, disturbed>>

----------------------------------------------------------------------------
Work(u) == Post(u) \/ Complete(u) \/ Reject(u)

Network(r) ==
  AnswerPoll(r) \/ AnswerRefresh(r) \/ DeliverPoll(r) \/ DeliverRefresh(r)

Next ==
  \/ Login \/ Logout \/ Tick
  \/ ClearTransactions \/ AnswerClear \/ DeliverClear \/ FailClear
  \/ \E u \in Uploads : Upload(u) \/ Work(u) \/ Mark(u)
  \/ \E f \in Filters : Pick(f)
  \/ \E r \in Requests : Network(r) \/ FailPoll(r) \/ FailRefresh(r)

Spec == Init /\ [][Next]_vars

\* The interval fires, statements are processed, requests are answered, and
\* callbacks run.  Whether transfers are marked is open.
Fairness ==
  /\ WF_vars(Tick) /\ WF_vars(AnswerClear) /\ WF_vars(DeliverClear)
  /\ \A u \in Uploads : WF_vars(Work(u))
  /\ \A r \in Requests :
       /\ WF_vars(AnswerPoll(r)) /\ WF_vars(DeliverPoll(r))
       /\ WF_vars(AnswerRefresh(r)) /\ WF_vars(DeliverRefresh(r))

FairSpec == Spec /\ Fairness

----------------------------------------------------------------------------
(* Properties.                                                             *)

\* Polls go on while an upload is busy: whoever sees one in the list of a
\* session has an interval running (the comment of pollUploads).
PollsWhileBusy == user /\ Busy(view) => timer # None

\* An upload that the list shows as completed has its rows in the ledger, or a
\* refresh that brings them is on its way, even if it was never seen busy.
CompletedIsRefreshed ==
  \A u \in Uploads : user /\ status[u] = "done" /\ view[u] = "done" /\ ~disturbed =>
    \/ u \in table.rows
    \/ \E r \in InFlight(refreshes) :
         refreshes[r].at = "answered" => u \in refreshes[r].read.rows

\* A completed upload has its rows, and one that is gone has none.
RowsBeforeStatus ==
  \A u \in Uploads :
    /\ status[u] = "done" => u \in ledger.rows
    /\ status[u] \in {"absent", "gone"} => u \notin ledger.rows

\* What was read stays true until it is removed for all: an upload once read as
\* completed is completed, and rows once read are there, or it is gone.
ReadForGood ==
  \A u \in Uploads :
    /\ view[u] = "done" \/ (\E r \in Answered(polls) : polls[r].read[u] = "done") =>
         status[u] \in {"done", "gone"}
    /\ u \in table.rows \/ (\E r \in Answered(refreshes) : u \in refreshes[r].read.rows) =>
         u \in ledger.rows \/ status[u] = "gone"

\* Of two answers on their way one is known to be the older, and what it has
\* read is in the other unless it is gone.
LaterKnowsMore ==
  \A q, r \in Answered(refreshes) :
    /\ refreshes[q].older \subseteq Answered(refreshes)
    /\ q # r /\ r \notin refreshes[q].older =>
         refreshes[q].read.rows \cap ledger.rows \subseteq refreshes[r].read.rows

\* An answer that is not late takes nothing from the table that is still there.
LateOrBetter ==
  \A r \in Answered(refreshes) :
    refreshes[r].late \/ table.rows \cap ledger.rows \subseteq refreshes[r].read.rows

RefreshInv ==
  RowsBeforeStatus /\ ReadForGood /\ LaterKnowsMore /\ LateOrBetter /\ CompletedIsRefreshed

\* In the end the dashboard shows what the server has, under the selected
\* filter, whatever polls overlap, and fail while an interval runs; the marks of
\* transfers too, if they come before the list that shows the upload completed.
Converges ==
  <>[](user /\ ~disturbed => view = status /\ table = Shown(filter, ledger))

=============================================================================
