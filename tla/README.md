# Formal models of budge-it

TLA+ specifications of the budge-it backend (`src/backend`) and of the polling
of its dashboard (`src/frontend/src/App.tsx`), TLC models that
check them on small instances, and TLAPS proofs of what holds for every
instance.

budge-it takes bank statements (CSV, PDF, images), extracts their transactions
in the background, categorises them and shows the result. Several backend pods
share one PostgreSQL database and one bucket; each pod has its own in-memory
job queue. What is hard about it is what happens *between* the calls of a
worker: another pod, a user, a crash, a failed call.

## 1. The system

| Component | State it keeps | Operations | Correct when |
|---|---|---|---|
| Job queue and workers (`internal/jobs/worker.go`) | jobs channel (256), worker goroutines, the job of each | `Enqueue`, `Start` (with recovery), `process`, `extract`, `markTransfers`, `Wait` | no statement lost, none posted twice, each upload settles, shutdown ends |
| Process lifecycle (`cmd/server/main.go`) | the process, its signal context | start, listen, SIGTERM, exit | recovery runs before requests; a stopped pod goes down |
| Upload API (`internal/api/api.go`) | requests in progress | `createUpload`, `clearTransactions` | an accepted upload has a row and a file |
| Uploads, transactions (`internal/store`, `db/migrations`) | status, object key, rows | `CreateUpload`, `MarkUpload*`, `InsertTransactions`, `PendingUploadIDs`, `ClearTransactions` | "done" means stored; removed means gone |
| Object storage (`internal/objectstore`) | staged files | `Put`, `Get`, `Delete` | a file stays while it is needed, goes when the upload is completed |
| Accounts, administrator seat (`store.go`, `api/admin.go`, `config.go`) | users, `is_admin` | login claim, `DeleteUser`, allowlist | at most one administrator claims the seat; no administrator deletes herself |
| Categories and rules (`api.go`, `store.go`) | categories, rules, category of each row | `recategorize`, `addCategory`, ingest | rows agree with the saved rules |
| Transfer matching (`categorize/transfers.go`, `worker.go`) | none | `MatchTransfers`, `markTransfers` | pairs are disjoint, across statements, within the window; user decisions win |
| Categorisation engine (`categorize/engine.go`) | rules of one job | `Categorize`, `Normalize` | user rules before keywords before fuzzy matches |
| Statement parsing (`ingest/csv.go`, `ocr.go`) | none | `ParseCSV`, `ParseStatementText` | sign, direction and amount of each line |
| Migrations (`db/db.go`) | `schema_migrations` | `Connect`, `Migrate` | each file applied once, with several pods starting |
| Sessions (`auth/session.go`) | none (signed token) | `Sign`, `Verify` | expiry; a token outlives its account |
| Dashboard (`frontend/src/App.tsx`) | uploads, ledger, pending poll | poll, upload, refresh | the view converges to the database |
| Listings, analytics (`store.go`) | none | `ListTransactions`, `Summary`, `CategoryBreakdown` | the totals of the tiles and of the chart agree in every month listed |
| Commit poller (`deploy/ci/commit-poller.yaml`) | last commit seen | poll, start a run, remember | each commit is built |

How they interact: a request of `createUpload` puts the file in the bucket,
inserts the row as `pending`, enqueues the job in its own pod and answers 202.
A worker of that pod loads the row, marks it `processing`, reads the file,
inserts all its rows in one batch, marks it `done` (emptying `object_key`),
deletes the file, and then lets `markTransfers` re-pair the user's rows, so
rows still change once the upload is done. A pod that
starts enqueues *every* pending or processing upload of the database. Users
remove their uploads, administrators remove accounts, at any moment.

## 2. Modules

| Module | What it is |
|---|---|
| `StatementPipeline` | the pipeline: handler, queue, workers, tables, bucket, pods |
| `UploadLifecycle` | what an upload's owner is promised, without pods, calls or queues |
| `StatementPipelineProofs` | the TLAPS proofs about `StatementPipeline` with any number of pods |
| `SinglePodProofs` | the TLAPS proofs about `StatementPipeline` with one pod, the refinement of `UploadLifecycle` included |
| `AdminSeat` | first logins that claim the administrator seat, deletion of accounts |
| `AdminSeatProofs` | the TLAPS proofs about `AdminSeat` |
| `TransferMatching` | the transfer matcher, as operators |
| `CategoryRules` | corrections, rules, categorisation and transfer marking of one user's rows; extends `TransferMatching` |
| `CategoryRulesProofs` | the TLAPS proofs about `CategoryRules` |
| `AccountDeletion` | the deletion of an account and the clearing of transactions, row by row, with the locks of PostgreSQL |
| `AccountData` | what a reader of the tables sees of an account: the abstract specification of `AccountDeletion` |
| `AccountDeletionProofs` | the TLAPS proofs about `AccountDeletion`, the refinement included |
| `Migrations` | pods of a rollout that migrate one database before they serve |
| `MigrationsProofs` | the TLAPS proofs about `Migrations` |
| `StatementIngest` | the CSV and text parsers, as operators |
| `CategorizeEngine` | normalization and the three rounds of the engine, as operators |
| `Analytics` | the totals of the dashboard, as operators |
| `DashboardPoll` | one tab of the dashboard: polls, refreshes, filters, sessions |
| `DashboardPollProofs` | the TLAPS proofs about `DashboardPoll` |
| `MC...` | constants of the small instances; `MCStatements` also grows the inputs of the operators and states what is expected of them |
| `StatementsProofs` | the TLAPS proofs about the transfer matcher, the totals, normalized names and the parsers, on the inputs that `MCStatements` grows |

### StatementPipeline

Every call to the database or to the bucket is one action, so that anything
may happen between two calls.

| Variables | Code |
|---|---|
| `status`, `keyed`, `createdAt` | columns of `uploads` (`keyed`: `object_key <> ''`) |
| `rows` | how many times the statement's batch is in `transactions`; a batch is one implicit transaction, so it is there whole or not at all |
| `unstored` | history: uploads a batch of which was answered and then not committed |
| `accounts` | rows of `users` |
| `objects` | staged files |
| `server`, `backlog`, `queue` | a process: its phase, the ids `Start` has still to enqueue, the channel |
| `pc`, `job`, `key`, `live` | a worker: next call, job, whether the row it loaded had a key, whether its context was live when the call began |
| `req`, `handlers` | requests of `createUpload` and the pod each runs in |

| Actions | Code |
|---|---|
| `PutObject`, `CreateUpload`, `EnqueueUpload` | `createUpload` |
| `Take`, `Load`, `MarkProcessing`, `Fetch`, `Post`, `Finish`, `Purge`, `MarkError`, `WorkerExit` | a worker goroutine, `process`, `extract` |
| `Start`, `RecoverPending`, `Requeue`, `Listen`, `Shutdown`, `Exit`, `Crash` | `main`, `Queue.Start`, `Wait` |
| `ClearTransactions`, `DeleteUser` | what users and administrators do meanwhile |

Failures. A call may fail with or without having taken effect (an answer lost
after the commit). SIGTERM cancels the workers' context: a call begun after it
never reaches the database, one in flight may or may not have. The requests
run under their own context and are not cancelled. The commit of a batch may fail
after each of its inserts was answered: that error comes out of `br.Close`, which
`InsertTransactions` ignores (`CommitUntold`). `Fetch` can always fail:
unreadable statements, the OCR service and the rules query are all behind it.
The content of a statement is abstract; the parsers refuse a statement without
transactions, so a batch is never empty.

Left out here: categories (`markTransfers` after the purge changes nothing
this module has), the HTTP answers, the time-out of `Shutdown` (a handler may
be lost when the pod exits at any point, which covers it). A failing
`ClearTransactions` or `DeleteUser` leaves things as they are or is the step
itself.

### UploadLifecycle

An upload is staged, registered, begun, posted, completed or failed, and may be
dropped with its rows at any time; its file may go only when it is completed or
dropped. A single pod implements it (`LifecycleSpec`, with `rows[u] > 0` as
"posted"). Several pods do not: `MarkUploadProcessing` does not look at the
status it replaces, so a second worker can put a finished upload back to
`processing`.

### AdminSeat

A login (`GetOrCreateUserByEmail`) is a sequence of statements: the look at the
flag (`AdminExists`), then a plain upsert (`PlainUpsert`), or a transaction
under the advisory lock (`LockSeat`, `UpsertRow`, `Claim`, `Commit`). What the
transaction writes shows at its commit; the row it wrote is locked until then,
which is what `RowLocked` says of upserts and deletions of the same address.
`GiveUp` is a broken connection or a client that leaves: rollback and release
of the lock, unless the statement in flight took effect. An account is named
after the login that inserted it, as its id is fresh. A `DELETE` of the admin
page is `Authorize` (allowlist or flag; refused requests change nothing),
`LookUp`, `DeleteUser`. A session stays valid when its account is gone, so a
caller may be an account that no longer exists: the allowlist goes by address.
The guard against deleting one's own account compares strings while the
database compares uuids, so the model lets a request name its own account.

### TransferMatching

`MatchTransfers` over a sequence of rows: the pairs that may belong together
(`Pairs`), the order of the sort (`Before`), the loop that takes a pair unless a
side is used (`GreedyPairs`). The loop is a recursive function on the pairs: one
is taken unless an earlier one that shares a row with it was, which is what
walking the sorted slice and skipping used rows does. Amounts are cents; the
groups by amount never interact and are not kept apart.

### CategoryRules

| Variables | Code |
|---|---|
| `category`, `uploads` | rows of `transactions` (category or absent) and `uploads` of one user |
| `rules` | `category_rules`, in the order of `ListRules` |
| `pc`, `request` | a correction in progress (`recategorize`) |
| `pc`, `known`, `seen` | a worker's job: the rules and candidates it read |
| `saves` | history: the rules saved, oldest first |
| `corrections`, `disturbed` | bound, and what has come in the way of a correction; the properties condition on it |

`Recategorize`, `SaveRule`, `Retag` are the three statements of `recategorize`;
`Leave` is a failure between them. `ReadRules`, `Insert` are `extract`;
`ReadCandidates`, `ReadRulesAgain`, `Mark` are `markTransfers`; `JobFails` ends
a job at any call. Between the insert and the candidates the job marks its
upload and deletes the file (`StatementPipeline`). `Candidates` comes in any
order, since the query has no `ORDER BY`. Patterns and merchants are values,
with a relation that says which pattern a merchant contains (`Hits` are the
places of the rules that match one); one merchant's name may contain another's.
The history `saves` lists the rules in the order they were saved, which
`ListRules` does not give: it goes by `created_at`, and a rule saved again keeps
its own. The empty pattern is `Blank`, which `LIKE` matches with everything and
the engine ignores. Which keyword a name matches is a choice among `Keywords`:
the code ranges over a Go map. A statement uploaded again is another upload with
the same merchants. A new rule becomes visible in the order of the commits;
requests name known categories.

### AccountDeletion

| Variables | Code |
|---|---|
| `rows` | committed rows of one account in the five tables, the batch of an upload as one row |
| `known` | rows ever inserted (ids are fresh), so that nothing is inserted twice |
| `share` | rows a batch of inserts holds a share lock on (foreign keys) |
| `step`, `todo`, `mine` | a transaction: its statement, the rows the statement found and has not deleted yet, the rows it has deleted and locked |

`Statements` are the five of `DeleteUser`, and the single one of
`ClearTransactions`, each with the cascade from uploads to transactions that
PostgreSQL runs behind it. A statement finds what is committed when it begins
(`Begin`, `NextStatement`), waits for each row in turn (`DeleteRow`), and the
last `DELETE` is refused when something still refers to the account
(`Refused`). `Deadlocked` and `Victim` are PostgreSQL's deadlock detection.
Inserts of rules, categories and uploads wait for the rows they refer to and are
one step; a batch of transactions locks the account and the upload one after
the other (`ShareLock`), which is where deadlocks come from. Nothing stops a
session from inserting after its account is gone except the foreign keys. What
an administrator's request is allowed to do is in `AdminSeat`.

### Migrations

A pod is a sequence of calls: `Connect`, `Track` and `Create` (`CREATE TABLE IF
NOT EXISTS`, which looks first and can lose a race), then for each file of its
image `Look` (outside of the transaction), `Run`, `Record`, `Commit`. An error
ends the process (`Exit`), the kubelet starts it again (`Restart`). `Fail` is a
crash or a failing call; a commit may have taken effect although its answer is
lost. `Locked` says that the SQL of a migration waits for another transaction
that has run the same one. SQL that finds the migration committed meanwhile
either fails or changes nothing; then `Record` meets the primary key. Pods may
carry images with fewer migrations.

### StatementIngest, CategorizeEngine, Analytics

Operators without state. A CSV is a header of lower-case names and rows of
cells that are blank, words, dates or numbers; a number is its digits, whether a
point stands before the last two, and its sign, which is what `cleanAmount`
tells apart. A line of OCR text is what the regular expression captures: date,
words, numbers, marker. `parseDate` is reduced to the order of day and month,
which its list of layouts decides, and to the days a month has; years are left
out, so February has 29 days. Flags and names of columns are those that remain
after the code's trimming and change of case. The expression and the layouts
themselves are not spelled out. `CategorizeEngine` works on sequences of
characters, which are the bytes of the code, and takes its keyword table and
lengths as constants; where the code ranges over a Go map, `CategorizeName`
returns the set of possible answers. `Analytics` has `Summary`, whose totals of
all time are accumulated over the months as in the code, `CategoryBreakdown`
and the tiles of the dashboard, which fall back to all time for a month that the
summary does not list. Amounts are exact integers, where the code turns
`NUMERIC` into floats.
`MCStatements` grows one input at a time, so each small input is a state.

### DashboardPoll

| Variables | Code |
|---|---|
| `status`, `ledger` | the user's uploads and rows on the server: which uploads have rows, and which of those some that were marked as transfers |
| `marking` | completed uploads whose worker has yet to run `markTransfers` |
| `user`, `filter`, `view`, `table` | React state: session, month and category, `uploads`, summary and transactions |
| `timer`, `pollRef` | the interval with the render it was created in, and whether `pollRef.current` is set |
| `polls`, `refreshes` | requests of `pollUploads` and `refreshData` on their way, with the render's filter, what the server answered, and which older answers are still to come |
| `clearing` | the request of `clearTransactions` on its way |
| `disturbed` | ghost: something happened that nothing makes up for |

On the server a worker posts the rows (`Post`), then completes the upload
(`Complete`), then marks transfers among all rows or finds none (`Mark`), or ends
with an error (`Reject`). Requests are answered (`AnswerPoll`, `AnswerRefresh`,
`AnswerClear`) at one moment and delivered (`DeliverPoll`, ...) at another, in any
order; they may fail, a clear also after it took effect. Requests of an ended
session are refused. The queries of one refresh count as one read: unless the
page is `disturbed`, every change of the rows is followed by a refresh that is
sent after it. A logout is taken to succeed.

`disturbed` is set by exactly these, and in each the code shows something stale
until the user acts:

* a refresh fails; a poll fails with no interval running or beside another;
* a quiet list overtaken by a newer one arrives after it; a refresh overtaken by
  a newer one arrives after it, or one with an old filter arrives last (the
  interval keeps the filter of the render that started it);
* a logout with requests on their way or with `pollRef` set;
* marks that change rows after the list has shown every upload with rows as
  completed, as no refresh follows (`worker.go:134` comes after `:119`);
* an upload that ends with an error although its rows are stored (their commit
  was reported as a failure): only completions are followed by a refresh;
* a clear that took effect and whose answer is lost (`App.tsx:247-250`).

## 3. Runs

Passing runs:

| Run | Instance | Shows |
|---|---|---|
| `single_pod_faults` | 1 pod, 2 workers, 3 uploads, 2 faults of any kind | each statement posted once as long as nothing fails; recovery only finds uploads with a file; refinement of `UploadLifecycle` |
| `fleet_faults` | 2 pods, 2 uploads, 1 fault of any kind | no statement lost, "done" is backed, one dispatch per process, no file left as long as nothing fails, the inductive invariant |
| `fleet_liveness` | 2 pods, channels of 1 place, 2 uploads, 1 fault of any kind | a job in a channel or with a worker settles unless a fault comes first; each undisturbed start settles the oldest upload of those that wait, dropped by a full channel or gone with a pod; shutdown ends |
| `admin_seat` | 3 logins, 1 older account, 2 deletions | one administrator at most, no wrong answer to a login, the seat taken by the first login and passed on only through a vacancy, each account reported deleted once; a waiting login is answered |
| `category_rules` | 2 statements of 2 lines, 2 merchants, the name of one inside the other's, 2 clients, 3 corrections | rows follow the rules; after racing corrections rows still agree with each other; the heuristic leaves corrected rows alone; which of the saved rules decides what comes next |
| `account_deletion` | 1 deletion, 1 clear, 2 uploads, 1 rule, 2 categories that differ in case | the invariant of the proofs; refinement of `AccountData`; every transaction is answered, deadlock or not |
| `statements` | lists of up to 4 rows, statements of up to 3 entries, names of up to 6 characters | pairs are apart, closest first, independent of the order of rows, never fewer for one more row; the chart adds up to the tile above it, for each month listed and for all time; CSV and text statements give back their entries; misspelt words are recognised up to the allowed distance and no further; a rule meets every spelling of its merchant |
| `migrations` | 2 pods of a new image, 1 of the old, 3 migrations, 2 faults | each migration runs once and in order; who serves has the schema; every pod serves in the end |
| `dashboard` | 1 upload, 2 filters, 2 requests of a kind in flight, a clear, 2 events (failure, other filter, logout) | a completed upload's rows are in the ledger or on their way; the page converges to the server |

Runs that show a disagreement between the code and what is written about it:

| Run | What happens |
|---|---|
| `scale_up_duplicates` | a pod that starts re-enqueues the job another pod is working on; its rows are posted twice |
| `transfer_overrides` | `markTransfers` overwrites a correction that was answered after it read the rules |
| `polling_after_login` | logout while a statement is processed, login again: the list shows it as busy and nothing polls |

Met while modelling, not among the runs.

*Pipeline.* A crash after `MarkUploadDone` leaves the file of a completed upload
in the bucket for ever, against `README.md:229`; the same order makes
`object_key` empty before the purge (`ARCHITECTURE.md` says after). A second
worker that loaded the row earlier puts a finished upload back to `processing`,
and the recovery query then returns an upload that did finish; if that worker
goes down at once, the upload stays `processing`, completed and without a key,
until some pod starts. A restart drops
again what a full channel dropped before, so a pending upload need not be
recovered "on next restart" (`worker.go:39`). A crash between the insert of the
rows and the status posts a statement twice without any second pod. When
`InsertTransactions` fails after its commit the upload ends in `error` with its
rows in the ledger. When the commit of a batch fails after its inserts were
answered, `br.Close` says so and nobody listens (`store.go:287-294`): the upload
is marked done, its file is deleted, and it has no rows. The properties about
loss and backing leave these uploads out (`unstored`).

*Rules.* A rule saved again keeps its place behind a newer one that also
matches, so a correction of overlapping merchants may not apply to later
statements (`ARCHITECTURE.md:154`), although `Retag` gives it to the rows that
are there; `CorrectionApplies` says which save decides instead, and
`RowsFollowRules` speaks of rows that one rule matches. `ARCHITECTURE.md` says a
correction retags uncategorized rows, the code retags every row of the merchant.
A line corrected to "Uncategorized" comes back as "Income" when a credit of that
merchant is uploaded again. A name that contains two keywords gets one category
or the other from call to call.

*Statements.* A CSV that prints 0.00 in the column a row does not use loses its
credits: the debit column is not blank, and a zero amount is skipped without
being counted as a bad row. A decimal comma makes an amount a hundredfold. US
dates are read day first up to the 12th and month first after it. A text line
with a running balance yields the balance, the last number. A line whose
description contains "balance" or "statement" is skipped, whatever it is.
With both columns present, "transaction amount" wins over "billing amount".

*Tiles.* A month that is selected and that the summary does not list (all its rows
are transfers now, or gone) gets the totals of all time over an empty chart
(`App.tsx:145-149`, against the comment at `:144`, "Per-month summary for the
selected month"). `ChartAddsUp` is about the months that the summary lists, and
about all of them together.

*Keywords.* `"BP "` has three bytes, so it is compared with whole words, which
have no spaces, and it is too short for the fuzzy round: no name gets its
category, against `engine.go:20`.

*Dashboard.* "transient; next poll retries" (`App.tsx:80`) is not so when no
interval runs. A quiet list that arrives late ends the interval of an upload
sent meanwhile. The interval keeps the `refreshData` of the render it started
in: with another month chosen while polling, the completed upload fetches the
ledger of the month before. Transfers that a worker marks once its upload is
done come after the refresh that the completion caused, so table, tiles and chart
may show the categories from before until the user does something. A clear that
took effect but whose answer is lost leaves the old table on the screen.

### Bounds

`StatementPipeline`: `Uploads`, `Replicas` and `Workers` are the small sets
above; `QueueCap` is 1 or 2 instead of 256, so that the channel does fill;
`MaxFaults` bounds crashes, shutdowns and failing calls together. Two uploads
are what the once-per-process and ordering properties need (two jobs in one
channel), two workers of one pod and one of another are what a race within and
across processes needs, and two faults allow a failure during the recovery from
another. `fleet_liveness` has two uploads for channels of one place: the second
is dropped, or waits behind the first. `UsersInTurn` there bounds users only:
they send one upload after the other to one of the pods, which are alike, and
remove nothing; no fair action is cut. `rows` and `createdAt` are bounded by the
rest. The properties about runs without a fault (`PostedOnce`, `PurgedOnce`)
look at the states before the first one.

`AdminSeat`: a race for the seat takes two logins, a third finds it taken or
vacated; two deletions race with each other and with a login to the account.

`MCStatements`: two debits and two credits are the smallest list in which a
pair pushes another aside that in turn frees a row; days lie within, at and
beyond the window. Three entries of a statement show that rows are read each for
itself, with dates before and after the 12th and amounts with and without cents.
Names of six characters over a small alphabet contain keywords as tokens, inside
words and misspelt once and twice; the lengths are scaled down with them
(`ShortLength`, `FuzzyLength`, `LongLength`).

`AccountDeletion`: one deletion and one clear with two uploads are enough for
them to wait for each other and for a batch; two deletions race in `AdminSeat`.
`Migrations`: three pods of two images; two faults allow the restart after a
crash to crash. `DashboardPoll`: the list is replaced as a whole, so one upload is
kept; `MaxEvents` bounds failures, changes of the filter and logouts together,
`Requests` what is in flight. `Undisturbed` stops the exploration where
`disturbed` is set: it stays set, and both properties hold of everything after.

`CategoryRules`: `MaxCorrections` allows a rule, and two corrections that race
on top of it; `MaxIngests` is one job at a time, as two jobs share nothing but
the rows they pair. Two merchants, one with the other's name inside, are the
smallest case in which two rules match one row and the order of the rules
decides. Requests name no pattern of their own, as the dashboard does not, nor
"Uncategorized".

### Fairness

`FairSpec` of `StatementPipeline` assumes that a worker goroutine that can take
a step takes one, and that a handler and a process that was started go on.
Nothing is assumed of `Start`: the autoscaler (2 to 10 replicas) removes pods for
good, so an upload in the channel of such a pod, or dropped by a full one, stays
pending until some pod happens to start. Nothing is assumed either of users, of
faults, or of which outcome a call has. Only weak fairness is used: no other
actor disables for good a step of these. So `EveryUploadSettles` is about a job
in a channel, or with a worker, of a process that nobody told to stop: it is
completed, failed or removed, unless one more fault comes first. And
`StartSettlesOldest` is about what waits for a start: each start that no fault
disturbs brings the oldest unfinished upload to an end, even if the channel has
room for no other. One start need not be enough for all of them.

`FairSpec` of `AdminSeat` assumes that a login in progress is served; a client
that leaves is never required to, so the lock has to be released by whatever
ends the transaction.

`CategoryRules` has no liveness property: nothing repairs rows that differ.

`FairSpec` of `AccountDeletion` assumes that the database serves a statement
whose locks are free, refuses one whose references are gone, and breaks a
deadlock; nobody has to begin anything. `FairSpec` of `Migrations` assumes that
calls return and pods that exited are restarted. `FairSpec` of `DashboardPoll`
assumes that the interval fires, that requests are answered and answers
delivered, and that statements are processed (`EveryUploadSettles`); whether and
when transfers are marked is open, and failures are bounded.

## 4. Proofs

`StatementPipelineProofs` proves, for any finite set of uploads and any pods,
workers, capacity and faults (`PipelineAssumption`):

| Theorem | States |
|---|---|
| `TypeCorrect` | `Spec => []TypeOK` |
| `StatementsAreNotLost` | `Spec => []NoStatementLost` |
| `CompletionIsBacked` | `Spec => []DoneIsBacked` |
| `NoDoubleDispatch` | `Spec => []OncePerProcess` |
| `PipelineInvariant` | `Spec => []PipelineInv` |
| `FilesArePurged` | `Spec => []PurgedOnce` |

The argument. None of the safety properties is inductive alone.

* *Loss and backing.* The file goes only in `Purge`, which a worker reaches
  after `Post` stored the rows: `PostedBeforeFinish` carries that fact over the
  calls in between, and says "or the row was removed" because a user may clear
  the uploads meanwhile, and "or the commit went wrong unnoticed" (`unstored`,
  empty until the first fault). That the rows of a removed upload do not come back
  needs the foreign key (the guard of `Post`), and that a removed upload cannot
  be inserted again needs `UnknownBeforeInsert`. `StagedBeforeInsert` gives the
  file at the moment the row appears. Together with the typing they are
  `LossInv`, which is inductive.
* *Once per process.* Recovery and `createUpload` enqueue independently;
  duplicates are excluded because requests are taken only after `Start` has
  returned. `QuietStart` says that (a starting process has an empty channel,
  idle workers and no handlers), and `HandlerEnqueuesFirst` that the job a
  handler is about to enqueue is nowhere in its process. With `LossInv` they
  make `OncePerProcess` inductive (`ProcessInv`).
* *Purge.* A second worker can leave the first one's file alone only if it read
  the row after `MarkUploadDone` emptied the key; but then it has no key to read
  a file with. `PurgeInv` says that whoever has read a file has its key, and
  that without a fault nobody is told to stop before the delete.

`PipelineInv` is also an invariant of the run `fleet_faults`.

`SinglePodProofs` proves more, for any uploads, accounts, workers, capacity and
faults, of a pipeline with one pod (`OnePod`, a hypothesis of each theorem):

| Theorem | States |
|---|---|
| `SinglePodInvariant` | `Spec => []SinglePodInv` |
| `RecoveryFindsFiles` | `Spec => []UnfinishedIsStaged` |
| `LedgerIsPostedOnce` | `Spec => []PostedOnce` |
| `PodImplementsLifecycle` | `Spec => LifecycleSpec`, the refinement of `UploadLifecycle` |

The argument. `OncePerProcess` is about one process; with one pod it is about
the system: nobody else has, will be given or is about to enqueue what a worker
is processing (`OneHand`). So a status changes by the worker's own calls only
(`CallTellsStatus`, and `WaitingIsUnfinished` for the uploads that wait), and a
file goes only when its upload is completed. Each call of a worker is then a
step of `UploadLifecycle` or none. Before the first fault recovery has found
nothing, and a job comes from `createUpload` alone (`FirstPass`), so no batch is
there when a worker posts one. The hypothesis is needed: `scale_up_duplicates`
violates the ledger with a second pod. The `dev`
overlay runs one replica until load scales it up; the base has at least two.

`AdminSeatProofs` proves, for any logins, older accounts, addresses, allowlist
and requests (`SeatAssumption`: ids are distinct, older accounts have distinct
addresses):

| Theorem | States |
|---|---|
| `SeatInvariant` | `Spec => []SeatInv` |
| `OneAdministrator` | `Spec => []AtMostOneAdmin` |
| `WinnersHoldTheSeat` | `Spec => []WinnerHoldsSeat` |
| `AccountsAreDeletedOnce` | `Spec => []DeletedOnce` |
| `AnsweredLoginsFillTheSeat` | `Spec => []SeatIsTaken` |
| `SeatChanges` | `Spec => SeatChangesHands` |

The argument. A claim is settled at `Claim` but shows at `Commit`. In between,
`LockHolder` (the transaction that may claim is the one that holds the advisory
lock) keeps other claims out, and `OpenRow` says what the commit will do: its
row is still there or still free to insert, and if it claimed, no other
account has the flag. That the row stays needs the row locks, and `UniqueEmail`
to know that no other login means the same row. `FreshId` keeps the names of
accounts apart, so that a deleted one does not come back. `SeatFilled` says what
a login has learned before it is answered: one on the plain path has seen an
administrator, one about to commit has seen one or is about to be it; as long as
no account is deleted neither changes.

`AccountDeletionProofs` proves, for any uploads, rules, categories, deletions and
clears (`DeletionAssumption`: requests and uploads are distinct):

| Theorem | States |
|---|---|
| `DeletionInvariant` | `Spec => []DeletionInv` |
| `DeletionIsOneStep` | `Spec => AtOnce`, the refinement of `AccountData` |

The argument. `AccountData` deletes everything in one step; that `Commit` does
so rests on its last check (nothing is left that refers to the account), and
that nothing comes back on every row referring to rows (`Rooted`) and the
account's row being the first. `Rooted` survives a commit because locks are
exclusive (`LocksApart`): a batch holds its parents until it is stored, and a
deleted upload takes along all its transactions (`CascadeIsWhole`), those that
were committed while its `DELETE` waited included. A clear takes uploads and
what belongs to them, nothing else (`ClearsUploads`).

`MigrationsProofs` proves, for any pods, images and faults
(`MigrationAssumption`):

| Theorem | States |
|---|---|
| `MigrationInvariant` | `Spec => []MigrationInv` |
| `MigrationsRunOnce` | `Spec => []RunsOnce` |
| `SchemaBeforeService` | `Spec => []ServesMigrated` |

The argument. The look at `schema_migrations` proves nothing by the time the
SQL runs; `OneRunner` (of the transactions past their SQL one at most can
still commit, by the lock) and `Behind` (a pod has left no migration behind, and
one about to commit knows its version is not recorded) make the count of
`RunsOnce` inductive, and the order with it.

`CategoryRulesProofs` proves, for any statements, lines, merchants, patterns,
keywords and clients, and any bound on jobs and corrections (`RulesAssumption`):

| Theorem | Hypotheses | States |
|---|---|---|
| `Typing` | | `Spec => []TypeOK`, with one rule per pattern and no row without its upload |
| `JobsHaveTheRules` | | `Spec => []RulesAreCurrent` |
| `HeuristicLeavesDecisions` | | `Spec => HeuristicYieldsAlone` |
| `RequestsHaveRules` | `MerchantsNamed` | `Spec => []RequestsAreSaved` |
| `RowsComeToAgree` | `MerchantsNamed`, `PlainRequests` | `Spec => []RowsAgree` |
| `RowsComeToFollow` | `MerchantsNamed`, `PlainRequests` | `Spec => []RowsFollowRules` |
| `CorrectionsApply` | `MerchantsNamed`, `PlainRequests` | `Spec => CorrectionApplies` |

The argument. Until a correction overlaps an ingest, whoever ingests has the
rules of the moment (`RulesAreCurrent`); so a row that a rule decides is decided
for the marking job as well, and `RuledByUser` keeps it out of the candidates.
A correction has three statements, and between them rows differ from the rule,
and from each other; what is inductive is that they differ only while some
client still has its `Retag` to do (`RowsAgreeBut`, `RowsFollowBut`, `Pending`),
and that a client that retags has its rule saved (`RequestsAreSaved`). For
agreement corrections may race: whoever retags last makes the rows alike. That
they are also as the rule says takes one correction at a time (`OneAtATime`).

Names of merchants may contain each other. A row that one rule matches is decided
by it (`OnlyRuleDecides`); which of several decides is what `RulesInOrder` is
for: the rules are the last saves of their patterns, ordered by their first ones.
It is inductive without any hypothesis, through the upsert that keeps the place of
a rule. The first rule that matches a merchant is then the save that `Decides`,
and the lines of a statement get its category.

The hypotheses are about inputs, and each is needed. `MerchantsNamed`: a
description without a letter or digit normalises to the empty pattern, which the
engine ignores and `RecategorizeByMerchant` matches with every row.
`PlainRequests`: requests as the dashboard sends them, without a pattern of their
own, and no credit sent to "Uncategorized", which the next statement makes
"Income". The instance of the run `category_rules` satisfies both
(`InstanceAssumption`).

`DashboardPollProofs` proves, for any uploads, filters, requests in flight and
events (`DashboardAssumption`):

| Theorem | States |
|---|---|
| `RefreshInvariant` | `Spec => [](TypeOK /\ RefreshInv)` |
| `CompletionReachesLedger` | `Spec => []CompletedIsRefreshed` |

The argument. Answers overtake each other, so it is not enough to know what the
last refresh has read. A completed upload has its rows (`RowsBeforeStatus`).
"done" is for good until a clear removes it, and so is what any answer says of
it or of its rows (`ReadForGood`). Of two answers on their way, one that was not
older than the other when they were sent has read no less of what is still there
(`LaterKnowsMore`), so the last to arrive of those that are not late takes
nothing from the ledger (`LateOrBetter`).

`StatementsProofs` proves what the run `statements` shows of `MatchTransfers`,
of the totals, of corrections, of misspelt names and of the parsers, for every
list of rows, every window, every alphabet, every table of keywords, every set of
entries and every bound (`DaysAssumption`, `AmountsAssumption`: days and amounts
are integers; `EntriesAssumption`: entries have a day, a month of 1 to 12 and an
amount of cents, and no word that the text parser takes for a heading;
`KeywordsAssumption`: keywords are non-empty, made of the characters that
normalized names keep and of spaces, and none is for "Uncategorized", as in
`defaultKeywords`):

| Theorem | States |
|---|---|
| `EachJoinsOnePair` | `Spec => []AtMostOnePair` |
| `ClosestAreTaken` | `Spec => []ClosestFirst` |
| `OrderDoesNotMatter` | `Spec => []OrderIsFree` |
| `RowsLeaveNoFewer` | `Spec => NoFewerPairs` |
| `TotalsAgree` | `Spec => []ChartAddsUp` |
| `RulesMeetEverySpelling` | `Spec => []CorrectionReaches` |
| `MisspeltWordsAreFound` | `Spec => []MisspellingsAbsorbed` |
| `TextsAreRead` | `Spec => []TextRoundTrip` |
| `ExportsAreRead` | `Spec => []CsvRoundTrip` |

The argument. `Before` is a strict total order, and of any set of pairs one comes
first (`FirstPair`). The induction over that order is done by the first
counterexample, which the library's `WFMin` gives as a fact about sets, without
an operator parameter: up to each pair there is one set of pairs that are taken
and no other (`KernelExists`, `KernelIsUnique`), so the recursive function of
`GreedyPairs` satisfies its equation (`GreedyTakes`). The first four theorems
follow from the equation alone. For the order of the rows, the mirror image of the
taken pairs satisfies the equation of the mirrored list, as long as no two
clashing pairs are equally close. For another row, every row that was matched
on the other side still is (`OtherSideStays`): a pair loses its row to an
earlier one, which had lost its other row to an earlier one, and the first of
that chain had no reason to change.

The totals are sums over sets of rows (`MapThenSumSet`), which take the rows in
an order of their own. `SumRemove` says that any row may come first, by the
smallest set that would be an exception, and `SumOfParts` that the parts of a
set, whatever names them, add up to the whole. The chart is the partition of a
month's spending by category, the tile that of the month's rows by direction, and
the totals of all time are accumulated over the months (`MonthlyFlows`); that
both sides leave out the same rows (`Counted`), and that every row that counts is
in a month that is listed, is what remains.

`Normalize` goes along a name, and what holds at its start and is passed on by
each character holds along it (`AllAlong`, again by the least exception). Its
function exists (`WalkExists`, `NormalizeNorms`). Between its outermost letters a
name is normalized as it would be alone, whatever is before it (`InsideNorms`),
and what follows only appends (`NormsGrow`): so the normalized name is found in
one piece in that of a longer one (`SurroundedIsWithin`), and the separators
around it leave no trace (`TrimmedAlike`). Of two separators in a row the first
writes nothing, as the next character is no letter (`DoubledAlike`). The saved
pattern is normalized again when it is compared, which leaves it as it is,
because in a normalized name separators stand alone and between letters
(`NormalizedIsTidy`, `TidyStays`). The theorem is about a single rule, whose
name the description contains; it says nothing of the keyword rounds.

`Levenshtein` is computed and `Misspellings` are written down, so that the two
agree is a fact about the algorithm. Its rows exist (`NextRowFollows`,
`LevenshteinTable`) and the cells of the table are the distances of the
beginnings of the two words (`TablesAgree`), which gives the distance of two
words from those of words one letter shorter (`DistanceIs`). What holds of the
empty word and is kept by one more letter holds of all words (`WordInduction`).
One letter more, less or other, anywhere in a word, changes its distance from
any word by at most one (`CloseLetter`, `CloseStays`, `EditClose`), and a word
that is not yet another is one such edit nearer to it (`NearEdit`); so distance
one means one edit, and distance two an edit of an edit (`DistanceCounts`). The
words of a normalized name are made of letters (`TokensAreWords`), as is the
first word of a keyword (`FirstTokenIsWord`), and their edits are the
`Misspellings` (`EditsMisspell`); `RoundsDecide` says that without rules nothing
but the two rounds gives a category.

The parsers keep what each row yields (`Gathers`), which is what `Transactions`
lists as soon as every row yields its entry, or nothing if its amount is zero
(`GatheredIsBooked`). For a line of text that is `LineIsRead`, for the balance
below it `ClosingIsSkipped`. For a row of a CSV it is `EveryRowIsRead`: where
the first known name of each role stands in each of the four headers
(`SignedColumns`, `OtherColumnsAre`, `TwoColumnsAre`, `FlagColumns`), that a
cell cut off at the end of a row was blank (`CellIsRead`), and that digits,
signs and each pair of flags give back the amount and the side. The headers are
the four that the property lists, not every header; names of columns are
definitions of their own (`cDate`, ...) because the solver does not read strings
with spaces.

Only model-checked:

* liveness, which needs fairness and ENABLED: `EveryUploadSettles`,
  `StartSettlesOldest`, `ShutdownEnds`, `LoginsAnswered`, `DeletionsEnd`,
  `EveryPodServes`, `Converges`.

Every safety invariant and action property that a passing run checks is stated
by a theorem.

Every inductive invariant above was an invariant of a TLC run of its instance
before it was proved.

## 5. Plan and what is not modelled

Every module and every theorem of the plan is written.

Not modelled, and why:

* *Configuration, telemetry, metrics*: read once at start, or reporting only;
  nothing depends on them but the allowlist, which is in `AdminSeat`.
* *Session tokens*: the signature is cryptography. That tokens outlive accounts
  is in `AccountDeletion` and `AdminSeat`; an expired token only ends a session.
* *Listings*: read-only selections, which appear as what `DashboardPoll` reads.
* *Components of the dashboard other than the polling*: rendering, and calls
  that are those of the API; each correction calls `refreshData`, the admin page
  reads the accounts again after each deletion.
* *Commit poller, manifests*: outside of the program. The replica count of the
  autoscaler is the reason why the models have several pods.
* *The OCR service*: external; it is part of `Fetch`, which may fail.

## 6. Running

    tlc -config fleet_faults.cfg MCStatementPipeline.tla
    tlc -config category_rules.cfg MCCategoryRules.tla
    tlc -config statements.cfg MCStatements.tla
    tlc -config account_deletion.cfg MCAccountDeletion.tla
    tlc -config migrations.cfg MCMigrations.tla
    tlc -config dashboard.cfg MCDashboardPoll.tla
    tlapm StatementPipelineProofs.tla
    tlapm AdminSeatProofs.tla
    tlapm AccountDeletionProofs.tla
    tlapm SinglePodProofs.tla
    tlapm MigrationsProofs.tla
    tlapm CategoryRulesProofs.tla
    tlapm DashboardPollProofs.tla
    tlapm StatementsProofs.tla
