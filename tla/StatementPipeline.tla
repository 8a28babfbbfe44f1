------------------------- MODULE StatementPipeline -------------------------
(***************************************************************************)
(* The statement pipeline of the backend: the createUpload handler, the    *)
(* in-process job queue and its workers, the uploads and transactions      *)
(* tables, the staging bucket, and the start, shutdown and crash of the    *)
(* replicas that share the database and the bucket.                        *)
(*                                                                         *)
(* Every call to the database or to the bucket is one action, so anything  *)
(* another worker, replica or user does can come between two calls of a    *)
(* handler.  A call that fails may have taken effect or not.               *)
(*                                                                         *)
(* An upload stands for its row, its object key and its job.  The rows of  *)
(* a statement are inserted by one batch (one implicit transaction), so    *)
(* the transactions table is counted in batches per upload.                *)
(***************************************************************************)
EXTENDS Naturals, Sequences, FiniteSets

CONSTANTS
  Uploads,    \* upload requests the users may send
  NoUpload,   \* the job of an idle worker
  Users,      \* accounts
  Owner,      \* the account that sends an upload
  Replicas,   \* backend pods
  Workers,    \* worker goroutines of all the pods
  Home,       \* the pod a worker runs in
  QueueCap,   \* capacity of a pod's jobs channel
  Faults,     \* the kinds of fault that may happen
  MaxFaults   \* bound on the number of faults

FaultKinds == {"crash", "stop", "database", "bucket"}

ASSUME PipelineAssumption ==
  /\ IsFiniteSet(Uploads)
  /\ NoUpload \notin Uploads
  /\ Owner \in [Uploads -> Users]
  /\ Home \in [Workers -> Replicas]
  /\ QueueCap \in Nat
  /\ Faults \subseteq FaultKinds
  /\ MaxFaults \in Nat

VARIABLES
  status,     \* uploads.status, "absent" when there is no row
  keyed,      \* uploads whose object_key is not empty
  createdAt,  \* uploads.created_at, as a rank; 0 before the insert
  rows,       \* batches of the upload's rows in the transactions table
  unstored,   \* history: uploads a batch of which was answered, then not committed
  accounts,   \* rows of the users table
  objects,    \* objects staged in the bucket
  server,     \* what each pod's process is doing
  backlog,    \* uploads that Start has still to re-enqueue
  queue,      \* each pod's jobs channel
  pc,         \* the call each worker is about to make
  job,        \* the upload each worker is processing
  key,        \* workers that loaded a row with an object key
  live,       \* workers whose context was live when their call began
  req,        \* how far each createUpload request has come
  handlers,   \* the createUpload requests in progress in each pod
  faults      \* faults so far

table   == <<status, keyed, createdAt, rows, unstored, accounts>>
process == <<server, backlog, queue>>
worker  == <<pc, job, key, live>>
request == <<req, handlers>>
vars    == <<table, objects, process, worker, request, faults>>

Statuses == {"absent", "pending", "processing", "done", "error"}
Running  == {"starting", "recovering", "serving", "stopping"}
Stages   == {"unsent", "create", "enqueue", "accepted", "refused"}
Calls    == {"load", "mark", "fetch", "post", "finish", "purge", "fail"}

TypeOK ==
  /\ status \in [Uploads -> Statuses]
  /\ keyed \subseteq Uploads
  /\ createdAt \in [Uploads -> Nat]
  /\ rows \in [Uploads -> Nat]
  /\ unstored \subseteq Uploads
  /\ accounts \subseteq Users
  /\ objects \subseteq Uploads
  /\ server \in [Replicas -> Running \cup {"down"}]
  /\ backlog \in [Replicas -> SUBSET Uploads]
  /\ queue \in [Replicas -> Seq(Uploads)]
  /\ \A r \in Replicas : Len(queue[r]) <= QueueCap
  /\ pc \in [Workers -> Calls \cup {"idle", "exited"}]
  /\ job \in [Workers -> Uploads \cup {NoUpload}]
  /\ \A w \in Workers : pc[w] \in Calls => job[w] \in Uploads
  /\ key \subseteq Workers
  /\ live \subseteq Workers
  /\ req \in [Uploads -> Stages]
  /\ handlers \in [Replicas -> SUBSET Uploads]
  /\ faults \in 0..MaxFaults

Init ==
  /\ status = [u \in Uploads |-> "absent"]
  /\ keyed = {}
  /\ createdAt = [u \in Uploads |-> 0]
  /\ rows = [u \in Uploads |-> 0]
  /\ unstored = {}
  /\ accounts = Users
  /\ objects = {}
  /\ server = [r \in Replicas |-> "down"]
  /\ backlog = [r \in Replicas |-> {}]
  /\ queue = [r \in Replicas |-> <<>>]
  /\ pc = [w \in Workers |-> "idle"]
  /\ job = [w \in Workers |-> NoUpload]
  /\ key = {}
  /\ live = {}
  /\ req = [u \in Uploads |-> "unsent"]
  /\ handlers = [r \in Replicas |-> {}]
  /\ faults = 0

----------------------------------------------------------------------------
(* Faults, and the outcome of a call a worker makes.                       *)

Fault(kind) ==
  /\ kind \in Faults
  /\ faults < MaxFaults
  /\ faults' = faults + 1

Stopping(w) == server[Home[w]] = "stopping"

\* SIGTERM cancels the workers' context: a call then fails without any fault
\* of the database.
CallFails(w, kind) ==
  IF Stopping(w) THEN UNCHANGED faults ELSE Fault(kind)

\* took: the statement took effect; ok: the worker saw it succeed.  A call
\* begun after the context was cancelled never reaches the database.
DbCall(w, took, ok) ==
  /\ took => w \in live
  /\ ok => took
  /\ IF ok THEN UNCHANGED faults ELSE CallFails(w, "database")

Goto(w, call) ==
  /\ pc' = [pc EXCEPT ![w] = call]
  /\ live' = IF Stopping(w) THEN live \ {w} ELSE live \cup {w}
  /\ UNCHANGED job

Release(w) ==
  /\ pc' = [pc EXCEPT ![w] = "idle"]
  /\ job' = [job EXCEPT ![w] = NoUpload]
  /\ key' = key \ {w}
  /\ live' = live \ {w}

\* UPDATE uploads SET status = s WHERE id = u: no row, no effect, no error.
SetStatus(u, s) ==
  status' = [status EXCEPT ![u] = IF @ = "absent" THEN @ ELSE s]

----------------------------------------------------------------------------
(* The jobs channel.                                                       *)

HasRoom(q) == Len(q) < QueueCap

\* The non-blocking send of Queue.Enqueue: a full channel drops the job.
Enqueue(q, u) == IF HasRoom(q) THEN Append(q, u) ELSE q

----------------------------------------------------------------------------
(* The createUpload handler.  Its context is the request's: SIGTERM does   *)
(* not cancel it, and Shutdown lets it finish within its timeout.          *)

\* Mutant: the HTTP server listens before Queue.Start has returned.
ServingBeforeStart(r) == server[r] \in {"starting", "recovering", "serving"}

Serving(r) == server[r] = "serving"

\* objects.Put; on failure the client gets a 502, the object staged or not.
PutObject(u, r) ==
  /\ req[u] = "unsent"
  /\ Serving(r)
  /\ \/ /\ objects' = objects \cup {u}
        /\ req' = [req EXCEPT ![u] = "create"]
        /\ handlers' = [handlers EXCEPT ![r] = @ \cup {u}]
        /\ UNCHANGED faults
     \/ /\ Fault("bucket")
        /\ objects' \in {objects, objects \cup {u}}
        /\ req' = [req EXCEPT ![u] = "refused"]
        /\ UNCHANGED handlers
  /\ UNCHANGED <<table, process, worker>>

Refuse(u, r) ==
  /\ req' = [req EXCEPT ![u] = "refused"]
  /\ handlers' = [handlers EXCEPT ![r] = @ \ {u}]

InsertUpload(u) ==
  /\ status' = [status EXCEPT ![u] = "pending"]
  /\ keyed' = keyed \cup {u}
  /\ createdAt' = [createdAt EXCEPT ![u] =
       1 + Cardinality({v \in Uploads : createdAt[v] > 0})]

\* store.CreateUpload; the insert is refused when the account is gone, and a
\* failure answers 500 and leaves the staged object behind.
CreateUpload(u, r) ==
  /\ u \in handlers[r]
  /\ req[u] = "create"
  /\ \/ /\ Owner[u] \in accounts
        /\ InsertUpload(u)
        /\ req' = [req EXCEPT ![u] = "enqueue"]
        /\ UNCHANGED <<handlers, faults>>
     \/ /\ Owner[u] \in accounts
        /\ Fault("database")
        /\ InsertUpload(u)
        /\ Refuse(u, r)
     \/ /\ Fault("database")
        /\ Refuse(u, r)
        /\ UNCHANGED <<status, keyed, createdAt>>
     \/ /\ Owner[u] \notin accounts
        /\ Refuse(u, r)
        /\ UNCHANGED <<status, keyed, createdAt, faults>>
  /\ UNCHANGED <<rows, unstored, accounts, objects, process, worker>>

\* queue.Enqueue, then the 202.
EnqueueUpload(u, r) ==
  /\ u \in handlers[r]
  /\ req[u] = "enqueue"
  /\ queue' = [queue EXCEPT ![r] = Enqueue(@, u)]
  /\ req' = [req EXCEPT ![u] = "accepted"]
  /\ handlers' = [handlers EXCEPT ![r] = @ \ {u}]
  /\ UNCHANGED <<table, objects, server, backlog, worker, faults>>

HandlerStep(r) ==
  \E u \in Uploads : CreateUpload(u, r) \/ EnqueueUpload(u, r)

----------------------------------------------------------------------------
(* Queue.process and Queue.extract, one action per call.                   *)

\* The select of a worker goroutine: with a job waiting it may take it even
\* after the context was cancelled, select choosing at random.
Take(w) ==
  /\ pc[w] = "idle"
  /\ server[Home[w]] \in Running
  /\ queue[Home[w]] # <<>>
  /\ job' = [job EXCEPT ![w] = Head(queue[Home[w]])]
  /\ queue' = [queue EXCEPT ![Home[w]] = Tail(@)]
  /\ pc' = [pc EXCEPT ![w] = "load"]
  /\ live' = IF Stopping(w) THEN live \ {w} ELSE live \cup {w}
  /\ UNCHANGED <<table, objects, server, backlog, key, request, faults>>

\* Mutant: an upload somebody is already processing is left to them.
LoadUnlessProcessing(w) ==
  LET u == job[w] IN
  /\ pc[w] = "load"
  /\ \/ /\ w \in live
        /\ status[u] \in {"pending", "error"}
        /\ key' = IF u \in keyed THEN key \cup {w} ELSE key
        /\ Goto(w, "mark")
        /\ UNCHANGED faults
     \/ /\ w \in live
        /\ status[u] \in {"absent", "done", "processing"}
        /\ Release(w)
        /\ UNCHANGED faults
     \/ /\ CallFails(w, "database")
        /\ Release(w)
  /\ UNCHANGED <<table, objects, process, request>>

\* GetUploadByID and the early returns on a missing or a completed upload.
Load(w) ==
  LET u == job[w] IN
  /\ pc[w] = "load"
  /\ \/ /\ w \in live
        /\ status[u] \notin {"absent", "done"}
        /\ key' = IF u \in keyed THEN key \cup {w} ELSE key
        /\ Goto(w, "mark")
        /\ UNCHANGED faults
     \/ /\ w \in live
        /\ status[u] \in {"absent", "done"}
        /\ Release(w)
        /\ UNCHANGED faults
     \/ /\ CallFails(w, "database")
        /\ Release(w)
  /\ UNCHANGED <<table, objects, process, request>>

MarkProcessing(w) ==
  /\ pc[w] = "mark"
  /\ \E took, ok \in BOOLEAN :
       /\ DbCall(w, took, ok)
       /\ IF took THEN SetStatus(job[w], "processing") ELSE UNCHANGED status
       /\ IF ok THEN Goto(w, "fetch") /\ UNCHANGED key ELSE Release(w)
  /\ UNCHANGED <<keyed, createdAt, rows, unstored, accounts, objects, process, request>>

\* Mutant: the file is purged as soon as it has been read.
FetchAndPurge(w) ==
  /\ pc[w] = "fetch"
  /\ \/ /\ w \in live
        /\ w \in key
        /\ job[w] \in objects
        /\ objects' = objects \ {job[w]}
        /\ Goto(w, "post")
     \/ Goto(w, "fail") /\ UNCHANGED objects
  /\ UNCHANGED <<table, process, key, request, faults>>

\* objects.Get, the parsers and ListRules: the statement is read, or anything
\* on the way fails (no such object, unreadable statement, OCR service, query).
Fetch(w) ==
  /\ pc[w] = "fetch"
  /\ \/ /\ w \in live
        /\ w \in key
        /\ job[w] \in objects
        /\ Goto(w, "post")
     \/ Goto(w, "fail")
  /\ UNCHANGED <<table, objects, process, key, request, faults>>

\* Mutant: the error of InsertTransactions is not returned.
PostIgnoringErrors(w) ==
  /\ pc[w] = "post"
  /\ \E took, ok \in BOOLEAN :
       /\ DbCall(w, took, ok)
       /\ rows' = [rows EXCEPT ![job[w]] =
            IF took /\ status[job[w]] # "absent" THEN @ + 1 ELSE @]
       /\ Goto(w, "finish")
  /\ UNCHANGED <<status, keyed, createdAt, unstored, accounts, objects, process, key, request>>

\* The batch's answers all come in before its commit, whose error would be
\* that of br.Close: InsertTransactions drops it and returns nil.
CommitUntold(w) ==
  /\ w \in live
  /\ Fault("database")
  /\ unstored' = unstored \cup {job[w]}
  /\ Goto(w, "finish")
  /\ UNCHANGED rows

\* InsertTransactions; the foreign key refuses the rows of a deleted upload.
Post(w) ==
  LET u == job[w] IN
  /\ pc[w] = "post"
  /\ \/ /\ status[u] = "absent"
        /\ Goto(w, "fail")
        /\ UNCHANGED <<rows, unstored, faults>>
     \/ /\ status[u] # "absent"
        /\ \E took, ok \in BOOLEAN :
             /\ DbCall(w, took, ok)
             /\ rows' = [rows EXCEPT ![u] = IF took THEN @ + 1 ELSE @]
             /\ Goto(w, IF ok THEN "finish" ELSE "fail")
        /\ UNCHANGED unstored
     \/ status[u] # "absent" /\ CommitUntold(w)
  /\ UNCHANGED <<status, keyed, createdAt, accounts, objects, process, key, request>>

\* Mutant: a failing MarkUploadDone does not return, and the file is purged.
FinishIgnoringErrors(w) ==
  /\ pc[w] = "finish"
  /\ \E took, ok \in BOOLEAN :
       /\ DbCall(w, took, ok)
       /\ IF took
            THEN /\ SetStatus(job[w], "done")
                 /\ keyed' = keyed \ {job[w]}
            ELSE UNCHANGED <<status, keyed>>
  /\ Goto(w, "purge")
  /\ UNCHANGED <<createdAt, rows, unstored, accounts, objects, process, key, request>>

\* Mutant: the purge uses the object key as it is after MarkUploadDone.
FinishReloadingKey(w) ==
  /\ pc[w] = "finish"
  /\ DbCall(w, TRUE, TRUE)
  /\ SetStatus(job[w], "done")
  /\ keyed' = keyed \ {job[w]}
  /\ key' = key \ {w}
  /\ Goto(w, "purge")
  /\ UNCHANGED <<createdAt, rows, unstored, accounts, objects, process, request>>

\* MarkUploadDone, which also empties object_key.
Finish(w) ==
  LET u == job[w] IN
  /\ pc[w] = "finish"
  /\ \E took, ok \in BOOLEAN :
       /\ DbCall(w, took, ok)
       /\ IF took
            THEN /\ SetStatus(u, "done")
                 /\ keyed' = keyed \ {u}
            ELSE UNCHANGED <<status, keyed>>
       /\ IF ok THEN Goto(w, "purge") /\ UNCHANGED key ELSE Release(w)
  /\ UNCHANGED <<createdAt, rows, unstored, accounts, objects, process, request>>

\* objects.Delete of the key loaded at the start, whose failure is only
\* logged.  The local store ignores the cancelled context, the bucket does not.
Purge(w) ==
  /\ pc[w] = "purge"
  /\ \/ /\ objects' = IF w \in key THEN objects \ {job[w]} ELSE objects
        /\ UNCHANGED faults
     \/ /\ CallFails(w, "bucket")
        /\ UNCHANGED objects
  /\ Release(w)
  /\ UNCHANGED <<table, process, request>>

\* MarkUploadError, whose failure is only logged.
MarkError(w) ==
  /\ pc[w] = "fail"
  /\ \E took, ok \in BOOLEAN :
       /\ DbCall(w, took, ok)
       /\ IF took THEN SetStatus(job[w], "error") ELSE UNCHANGED status
  /\ Release(w)
  /\ UNCHANGED <<keyed, createdAt, rows, unstored, accounts, objects, process, request>>

\* Mutant: the workers range over the channel, which nobody closes.
WorkerNeverExits(w) == pc[w] = "idle" /\ Stopping(w) /\ FALSE /\ UNCHANGED vars

\* The worker's select sees the cancelled context.
WorkerExit(w) ==
  /\ pc[w] = "idle"
  /\ Stopping(w)
  /\ pc' = [pc EXCEPT ![w] = "exited"]
  /\ UNCHANGED <<table, objects, process, job, key, live, request, faults>>

WorkerStep(w) ==
  \/ Take(w)
  \/ Load(w)
  \/ MarkProcessing(w)
  \/ Fetch(w)
  \/ Post(w)
  \/ Finish(w)
  \/ Purge(w)
  \/ MarkError(w)
  \/ WorkerExit(w)

----------------------------------------------------------------------------
(* The life of a pod: Queue.Start before the HTTP server, SIGTERM, exit.   *)

Start(r) ==
  /\ server[r] = "down"
  /\ server' = [server EXCEPT ![r] = "starting"]
  /\ UNCHANGED <<table, objects, backlog, queue, worker, request, faults>>

Unfinished(u) == status[u] \in {"pending", "processing"}

\* Mutant: the recovery query forgets the uploads being processed.
PendingOnlyIDs == {u \in Uploads : status[u] = "pending"}

\* Mutant: the recovery query also returns the failed uploads.
UncompletedUploadIDs == {u \in Uploads : status[u] \notin {"absent", "done"}}

PendingUploadIDs == {u \in Uploads : Unfinished(u)}

\* The recovery query of Start; when it fails the pod serves all the same.
RecoverPending(r) ==
  /\ server[r] = "starting"
  /\ \/ /\ backlog' = [backlog EXCEPT ![r] = PendingUploadIDs]
        /\ server' = [server EXCEPT ![r] = "recovering"]
        /\ UNCHANGED faults
     \/ /\ Fault("database")
        /\ server' = [server EXCEPT ![r] = "serving"]
        /\ UNCHANGED backlog
  /\ UNCHANGED <<table, objects, queue, worker, request>>

\* ... re-enqueues them in the order they were created, the workers running.
Requeue(r) ==
  /\ server[r] = "recovering"
  /\ \E u \in backlog[r] :
       /\ \A v \in backlog[r] : createdAt[u] <= createdAt[v]
       /\ queue' = [queue EXCEPT ![r] = Enqueue(@, u)]
       /\ backlog' = [backlog EXCEPT ![r] = @ \ {u}]
  /\ UNCHANGED <<table, objects, server, worker, request, faults>>

Listen(r) ==
  /\ server[r] = "recovering"
  /\ backlog[r] = {}
  /\ server' = [server EXCEPT ![r] = "serving"]
  /\ UNCHANGED <<table, objects, backlog, queue, worker, request, faults>>

\* SIGTERM.  Jobs that Start would still enqueue could only be dropped: their
\* first call would find the context cancelled.
Shutdown(r) ==
  /\ server[r] \in {"starting", "recovering", "serving"}
  /\ Fault("stop")
  /\ server' = [server EXCEPT ![r] = "stopping"]
  /\ backlog' = [backlog EXCEPT ![r] = {}]
  /\ UNCHANGED <<table, objects, queue, worker, request>>

\* The process ends: its memory and its requests in progress are lost.
Halt(r) ==
  /\ server' = [server EXCEPT ![r] = "down"]
  /\ backlog' = [backlog EXCEPT ![r] = {}]
  /\ queue' = [queue EXCEPT ![r] = <<>>]
  /\ pc' = [w \in Workers |-> IF Home[w] = r THEN "idle" ELSE pc[w]]
  /\ job' = [w \in Workers |-> IF Home[w] = r THEN NoUpload ELSE job[w]]
  /\ key' = {w \in key : Home[w] # r}
  /\ live' = {w \in live : Home[w] # r}
  /\ req' = [u \in Uploads |-> IF u \in handlers[r] THEN "refused" ELSE req[u]]
  /\ handlers' = [handlers EXCEPT ![r] = {}]
  /\ UNCHANGED <<table, objects>>

\* queue.Wait returns and main ends, the handlers done or Shutdown timed out.
Exit(r) ==
  /\ server[r] = "stopping"
  /\ \A w \in Workers : Home[w] = r => pc[w] = "exited"
  /\ Halt(r)
  /\ UNCHANGED faults

Crash(r) ==
  /\ server[r] \in Running
  /\ Fault("crash")
  /\ Halt(r)

\* What a pod that has been started does of itself.
PodStep(r) == RecoverPending(r) \/ Requeue(r) \/ Listen(r) \/ Exit(r)

ServerStep(r) == Start(r) \/ PodStep(r)

----------------------------------------------------------------------------
(* What users and administrators do to the rows meanwhile.                 *)

\* Mutant: the transactions are not removed with their upload.
DropUploadsOnly(usr) ==
  /\ status' = [u \in Uploads |-> IF Owner[u] = usr THEN "absent" ELSE status[u]]
  /\ UNCHANGED <<rows, unstored, keyed, createdAt, objects, process, worker, request, faults>>

DropUploads(usr) ==
  /\ status' = [u \in Uploads |-> IF Owner[u] = usr THEN "absent" ELSE status[u]]
  /\ rows' = [u \in Uploads |-> IF Owner[u] = usr THEN 0 ELSE rows[u]]
  /\ unstored' = {u \in unstored : Owner[u] # usr}
  /\ UNCHANGED <<keyed, createdAt, objects, process, worker, request, faults>>

SomeoneServes == \E r \in Replicas : Serving(r)

\* DELETE FROM uploads; the transactions go by ON DELETE CASCADE.
ClearTransactions(usr) ==
  /\ SomeoneServes
  /\ DropUploads(usr)
  /\ UNCHANGED accounts

DeleteUser(usr) ==
  /\ SomeoneServes
  /\ usr \in accounts
  /\ accounts' = accounts \ {usr}
  /\ DropUploads(usr)

----------------------------------------------------------------------------
Next ==
  \/ \E r \in Replicas :
       \/ \E u \in Uploads : PutObject(u, r)
       \/ HandlerStep(r)
       \/ ServerStep(r)
       \/ Shutdown(r)
       \/ Crash(r)
  \/ \E w \in Workers : WorkerStep(w)
  \/ \E usr \in Users : ClearTransactions(usr) \/ DeleteUser(usr)

Spec == Init /\ [][Next]_vars

\* Goroutines are scheduled, calls return and a process that was started goes
\* on.  Nothing is assumed of Start: the autoscaler may take a pod for good.
\* Users and faults are under no obligation either.
Fairness ==
  /\ \A w \in Workers : WF_vars(WorkerStep(w))
  /\ \A r \in Replicas : WF_vars(HandlerStep(r)) /\ WF_vars(PodStep(r))

FairSpec == Spec /\ Fairness

----------------------------------------------------------------------------
(* Safety.                                                                 *)

Busy(w) == pc[w] \in Calls

Queued(r) == {queue[r][i] : i \in 1..Len(queue[r])}

\* A statement is never lost: as long as its row exists, its file is staged or
\* its transactions are stored, whatever fails between insert, status and purge.
\* Only a commit that fails after its batch was answered gets past this: the
\* code does not look at that error.
NoStatementLost ==
  \A u \in Uploads \ unstored : status[u] # "absent" => u \in objects \/ rows[u] > 0

\* "done" is never reported before the transactions are durable, and removed
\* uploads leave no transactions behind; with the same exception.
DoneIsBacked ==
  \A u \in Uploads :
    /\ status[u] = "done" => rows[u] > 0 \/ u \in unstored
    /\ status[u] = "absent" => rows[u] = 0

\* Within one process an upload is in one place at most: the recovery backlog,
\* one slot of the channel, or one worker.  Recovery and createUpload both
\* enqueue, so this rests on Start running before the HTTP server.
OncePerProcess ==
  \A r \in Replicas :
    /\ \A i, j \in 1..Len(queue[r]) : queue[r][i] = queue[r][j] => i = j
    /\ backlog[r] \cap Queued(r) = {}
    /\ \A w \in Workers : Home[w] = r /\ Busy(w) =>
         /\ job[w] \notin backlog[r] \cup Queued(r)
         /\ \A v \in Workers : Home[v] = r /\ Busy(v) /\ job[v] = job[w] => v = w

\* PendingUploadIDs selects uploads that never finished: their object key has
\* never been cleared by MarkUploadDone, and there is a file to extract.
UnfinishedIsStaged ==
  \A u \in Uploads : Unfinished(u) => u \in keyed /\ u \in objects

\* The ledger is accurate: the transactions of a completed statement are in it
\* once.
LedgerAccurate == \A u \in Uploads : status[u] = "done" => rows[u] = 1

\* A completed upload has nothing left in object storage, but for the moment
\* between MarkUploadDone and the Delete of the worker that made the call.
CompletedIsPurged ==
  \A u \in Uploads : status[u] = "done" /\ u \in objects =>
    \E w \in Workers : pc[w] = "purge" /\ job[w] = u /\ w \in key

\* Both hold as long as nothing fails: the statements of a single pod are posted
\* once, and even two pods that process one upload leave no file behind.
PostedOnce == faults = 0 => LedgerAccurate
PurgedOnce == faults = 0 => CompletedIsPurged

----------------------------------------------------------------------------
(* The inductive invariant behind the safety properties, for any number of *)
(* pods.                                                                   *)

\* Nothing knows an upload before its CreateUpload.
UnknownBeforeInsert ==
  \A u \in Uploads : req[u] \in {"unsent", "create"} =>
    /\ status[u] = "absent"
    /\ \A r \in Replicas : u \notin backlog[r] \cup Queued(r)
    /\ \A w \in Workers : Busy(w) => job[w] # u

\* The handler inserts the row of a file that is staged.
StagedBeforeInsert == \A u \in Uploads : req[u] = "create" => u \in objects

\* A worker past InsertTransactions has its rows stored as far as it was told,
\* or lost its upload.
PostedBeforeFinish ==
  \A w \in Workers : pc[w] \in {"finish", "purge"} =>
    rows[job[w]] > 0 \/ job[w] \in unstored \/ status[job[w]] = "absent"

\* Commits fail only as faults, and are forgotten with their uploads.
UnstoredByFault ==
  /\ faults = 0 => unstored = {}
  /\ \A u \in unstored : status[u] # "absent"

\* A process starts empty, re-enqueues only in Start, and takes no request
\* before Start has returned.
QuietStart ==
  \A r \in Replicas :
    /\ server[r] \in {"down", "starting"} =>
         /\ queue[r] = <<>>
         /\ \A w \in Workers : Home[w] = r => ~Busy(w)
    /\ server[r] # "recovering" => backlog[r] = {}
    /\ server[r] \in {"down", "starting", "recovering"} => handlers[r] = {}

\* The job a handler is about to enqueue is nowhere in its process yet.
HandlerEnqueuesFirst ==
  \A r \in Replicas : \A u \in handlers[r] : req[u] = "enqueue" =>
    /\ u \notin backlog[r] \cup Queued(r)
    /\ \A w \in Workers : Home[w] = r /\ Busy(w) => job[w] # u

LossInv ==
  /\ TypeOK
  /\ UnknownBeforeInsert
  /\ StagedBeforeInsert
  /\ PostedBeforeFinish
  /\ UnstoredByFault
  /\ DoneIsBacked
  /\ NoStatementLost

ProcessInv ==
  /\ QuietStart
  /\ HandlerEnqueuesFirst
  /\ OncePerProcess

PipelineInv == LossInv /\ ProcessInv

\* Without a fault nobody is told to stop, and whoever has read a file loaded
\* the row with its key.
PurgeInv ==
  /\ \A w \in Workers : pc[w] \in {"post", "finish", "purge"} => w \in key
  /\ faults = 0 => \A r \in Replicas : server[r] # "stopping"
  /\ PurgedOnce

----------------------------------------------------------------------------
(* With a single pod an upload is in one hand at a time, which is what its *)
(* status and its rows then rest on.                                       *)

OnePod == \A r, s \in Replicas : r = s

\* Jobs that wait have not finished.
WaitingIsUnfinished ==
  \A r \in Replicas :
    /\ \A u \in backlog[r] \cup Queued(r) : status[u] \in {"absent", "pending", "processing"}
    /\ \A u \in handlers[r] :
         req[u] = "enqueue" => status[u] \in {"absent", "pending", "processing"}

\* A worker's own call says what the status of its upload is, unless its owner
\* removed the row.
CallTellsStatus ==
  \A w \in Workers :
    /\ pc[w] \in {"load", "mark"} => status[job[w]] \in {"absent", "pending", "processing"}
    /\ pc[w] \in {"fetch", "post", "finish", "fail"} => status[job[w]] \in {"absent", "processing"}
    /\ pc[w] = "purge" => status[job[w]] \in {"absent", "done"}

SinglePodInv == WaitingIsUnfinished /\ CallTellsStatus /\ UnfinishedIsStaged

\* As long as nothing has failed, jobs come from createUpload alone, one for
\* each upload, and are posted by the one worker that takes them.
FirstPass ==
  /\ \A r \in Replicas :
       /\ server[r] # "stopping"
       /\ server[r] # "serving" => \A u \in Uploads : req[u] = "unsent"
       /\ backlog[r] = {}
       /\ \A u \in Queued(r) : rows[u] = 0
  /\ \A u \in Uploads :
       /\ rows[u] <= 1
       /\ req[u] # "accepted" =>
            /\ rows[u] = 0
            /\ \A r \in Replicas : u \notin Queued(r)
            /\ \A w \in Workers : Busy(w) => job[w] # u
  /\ \A w \in Workers : pc[w] \in {"load", "mark", "fetch", "post"} => rows[job[w]] = 0

PostInv == faults = 0 => FirstPass

----------------------------------------------------------------------------
(* Liveness, under FairSpec.                                               *)

Settled(u) == status[u] \in {"done", "error", "absent"}

\* In the channel of a process that nobody has told to stop, or with one of its
\* workers, whose last word on the status is still to come.
InHand(u, r) ==
  /\ server[r] \in {"recovering", "serving"}
  /\ \/ u \in Queued(r)
     \/ \E w \in Workers : Home[w] = r /\ Busy(w) /\ pc[w] # "purge" /\ job[w] = u

\* A job that found room in a channel is completed, failed or removed in the
\* end, unless a fault comes first: waiting behind others, handed to two
\* pods at once or left half-way by an earlier process does not keep it open.
EveryUploadSettles ==
  \A u \in Uploads, n \in 0..MaxFaults :
    (\E r \in Replicas : InHand(u, r)) /\ faults = n ~> Settled(u) \/ faults > n

\* First in the order of PendingUploadIDs.
Oldest(u) == Unfinished(u) /\ \A v \in Uploads : Unfinished(v) => createdAt[u] <= createdAt[v]

\* Jobs that a full channel dropped, or a pod took with it, wait for the start
\* of some pod; each start that nothing disturbs brings the oldest of them to
\* an end, however many there are and however small the channel is.
StartSettlesOldest ==
  \A u \in Uploads, n \in 0..MaxFaults :
    (\E r \in Replicas : server[r] = "starting") /\ Oldest(u) /\ faults = n
      ~> ~Oldest(u) \/ faults > n

\* A pod told to stop stops: queue.Wait does not wait for ever.
ShutdownEnds == \A r \in Replicas : server[r] = "stopping" ~> server[r] = "down"

----------------------------------------------------------------------------
(* A single pod keeps the promises of UploadLifecycle.                     *)

Lifecycle == INSTANCE UploadLifecycle WITH
  state <- status,
  posted <- {u \in Uploads : rows[u] > 0} \cup unstored,
  staged <- objects

LifecycleSpec == Lifecycle!Spec

=============================================================================
