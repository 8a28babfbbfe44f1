-------------------------- MODULE SinglePodProofs --------------------------
(***************************************************************************)
(* Proofs about StatementPipeline with a single pod: what holds because an *)
(* upload is then in one hand at a time, and no longer holds of a fleet    *)
(* that scales up (run scale_up_duplicates).  The number of uploads,       *)
(* accounts and workers, the capacity of the channel and the budget of     *)
(* faults are arbitrary.                                                   *)
(***************************************************************************)
EXTENDS StatementPipelineProofs

----------------------------------------------------------------------------
(* One hand at a time.                                                     *)

\* Nobody else has the upload a worker of the pod is processing.
LEMMA OneHand ==
  ASSUME OnePod, PipelineInv, NEW w \in Workers, Busy(w)
  PROVE  /\ \A r \in Replicas : job[w] \notin backlog[r] \cup Queued(r)
         /\ \A r \in Replicas : \A u \in handlers[r] : req[u] = "enqueue" => u # job[w]
         /\ \A v \in Workers : Busy(v) /\ job[v] = job[w] => v = w
<1>1. \A v \in Workers : Home[v] \in Replicas /\ \A r \in Replicas : Home[v] = r
  BY PipelineAssumption DEF OnePod
<1>2. QED BY <1>1 DEF PipelineInv, ProcessInv, OncePerProcess, HandlerEnqueuesFirst

----------------------------------------------------------------------------
(* The status of an upload is what its worker makes it.                    *)

\* What the call of a worker makes of the statuses: only that of its own upload
\* changes, to what its next call relies on, and no upload becomes unfinished or
\* loses its key or its file while it is.
CallKeepsStatus(w) ==
  /\ \A x \in Uploads : status'[x] # status[x] => Busy(w) /\ x = job[w]
  /\ pc'[w] \in {"load", "mark"} => status'[job[w]] \in {"absent", "pending", "processing"}
  /\ pc'[w] \in {"fetch", "post", "finish", "fail"} => status'[job[w]] \in {"absent", "processing"}
  /\ pc'[w] = "purge" => status'[job[w]] \in {"absent", "done"}
  /\ \A x \in Uploads : Unfinished(x)' =>
       /\ Unfinished(x)
       /\ x \in keyed => x \in keyed'
       /\ x \in objects => x \in objects'

LEMMA CallStatus ==
  ASSUME TypeOK, CallTellsStatus, NEW w \in Workers, WorkerStep(w), ~Take(w)
  PROVE  CallKeepsStatus(w)
<1> USE DEF CallKeepsStatus, Unfinished
<1>1. CASE Load(w)
  BY <1>1 DEF Load, Goto, Release, TypeOK, CallTellsStatus, table
<1>2. CASE MarkProcessing(w)
  <2>1. PICK took \in BOOLEAN, ok \in BOOLEAN :
          /\ DbCall(w, took, ok)
          /\ IF took THEN SetStatus(job[w], "processing") ELSE UNCHANGED status
          /\ IF ok THEN Goto(w, "fetch") /\ UNCHANGED key ELSE Release(w)
    BY <1>2 DEF MarkProcessing
  <2>2. /\ Busy(w) /\ job[w] \in Uploads
        /\ status[job[w]] \in {"absent", "pending", "processing"}
        /\ UNCHANGED <<keyed, objects>>
    BY <1>2 DEF MarkProcessing, CallTellsStatus, TypeOK, Busy, Calls
  <2>3. ok => took
    BY <2>1 DEF DbCall
  <2>4. CASE took
    BY <2>1, <2>2, <2>4 DEF SetStatus, Goto, Release, TypeOK
  <2>5. CASE ~took
    BY <2>1, <2>2, <2>3, <2>5 DEF Release, TypeOK
  <2> QED BY <2>4, <2>5
<1>3. CASE Fetch(w)
  BY <1>3 DEF Fetch, Goto, TypeOK, CallTellsStatus, table
<1>4. CASE Post(w)
  BY <1>4 DEF Post, CommitUntold, Goto, TypeOK, CallTellsStatus
<1>5. CASE Finish(w)
  <2>1. PICK took \in BOOLEAN, ok \in BOOLEAN :
          /\ DbCall(w, took, ok)
          /\ IF took
               THEN SetStatus(job[w], "done") /\ keyed' = keyed \ {job[w]}
               ELSE UNCHANGED <<status, keyed>>
          /\ IF ok THEN Goto(w, "purge") /\ UNCHANGED key ELSE Release(w)
    BY <1>5 DEF Finish
  <2>2. Busy(w) /\ job[w] \in Uploads /\ UNCHANGED objects
    BY <1>5 DEF Finish, TypeOK, Busy, Calls
  <2>3. ok => took
    BY <2>1 DEF DbCall
  <2>4. CASE took
    BY <2>1, <2>2, <2>4 DEF SetStatus, Goto, Release, TypeOK
  <2>5. CASE ~took
    BY <2>1, <2>2, <2>3, <2>5 DEF Release, TypeOK
  <2> QED BY <2>4, <2>5
<1>6. CASE Purge(w)
  BY <1>6 DEF Purge, Release, TypeOK, CallTellsStatus, table
<1>7. CASE MarkError(w)
  <2>1. UNCHANGED status \/ SetStatus(job[w], "error")
    BY <1>7 DEF MarkError
  <2>2. Busy(w) /\ job[w] \in Uploads /\ UNCHANGED <<keyed, objects>>
    BY <1>7 DEF MarkError, TypeOK, Busy, Calls
  <2> QED BY <1>7, <2>1, <2>2 DEF MarkError, SetStatus, Release, TypeOK
<1>8. CASE WorkerExit(w)
  BY <1>8 DEF WorkerExit, TypeOK, table
<1> QED
  BY <1>1, <1>2, <1>3, <1>4, <1>5, <1>6, <1>7, <1>8 DEF WorkerStep

LEMMA SinglePodTake ==
  ASSUME TypeOK, SinglePodInv, NEW w \in Workers, Take(w)
  PROVE  SinglePodInv'
<1> DEFINE h == Home[w]
<1>1. /\ h \in Replicas
      /\ queue[h] \in Seq(Uploads)
      /\ queue[h] # <<>>
      /\ UNCHANGED <<status, keyed, objects, backlog, handlers, req>>
  BY PipelineAssumption DEF Take, TypeOK, table, request
<1>2. /\ Head(queue[h]) \in Queued(h)
      /\ \A r \in Replicas : Queued(r)' \subseteq Queued(r)
  <2>1. \A r \in Replicas : queue'[r] = IF r = h THEN Tail(queue[h]) ELSE queue[r]
    BY <1>1 DEF Take, TypeOK
  <2>2. /\ Head(queue[h]) \in Elements(queue[h])
        /\ Elements(Tail(queue[h])) \subseteq Elements(queue[h])
    BY <1>1, ReceiveType
  <2>3. Queued(h) = Elements(queue[h]) /\ Queued(h)' = Elements(Tail(queue[h]))
    BY <1>1, <2>1 DEF Queued, Elements
  <2>4. \A r \in Replicas : r # h => Queued(r)' = Queued(r)
    BY <2>1 DEF Queued
  <2> QED BY <2>2, <2>3, <2>4
<1>3. \A v \in Workers :
        IF v = w THEN pc'[v] = "load" /\ job'[v] = Head(queue[h])
                 ELSE pc'[v] = pc[v] /\ job'[v] = job[v]
  BY DEF Take, TypeOK
<1>4. WaitingIsUnfinished'
  BY <1>1, <1>2 DEF SinglePodInv, WaitingIsUnfinished
<1>5. CallTellsStatus'
  BY <1>1, <1>2, <1>3 DEF SinglePodInv, WaitingIsUnfinished, CallTellsStatus
<1>6. UnfinishedIsStaged'
  BY <1>1 DEF SinglePodInv, UnfinishedIsStaged, Unfinished
<1> QED BY <1>4, <1>5, <1>6 DEF SinglePodInv

LEMMA SinglePodWorker ==
  ASSUME OnePod, PipelineInv, SinglePodInv, NEW w \in Workers, WorkerStep(w)
  PROVE  SinglePodInv'
<1>1. TypeOK
  BY DEF PipelineInv, LossInv
<1>2. CASE Take(w)
  BY <1>1, <1>2, SinglePodTake
<1>3. CASE ~Take(w)
  <2>1. CallKeepsStatus(w)
    BY <1>1, <1>3, CallStatus DEF SinglePodInv
  <2>2. /\ UNCHANGED <<backlog, queue, handlers, req>>
        /\ \A v \in Workers \ {w} : pc'[v] = pc[v] /\ job'[v] = job[v]
        /\ Busy(w)' => Busy(w) /\ job'[w] = job[w]
    BY <1>1, <1>3, WorkerShape DEF StepShape, Busy
  <2>3. \A r \in Replicas : Queued(r)' = Queued(r)
    BY <2>2 DEF Queued
  <2>4. WaitingIsUnfinished'
    <3>1. SUFFICES ASSUME NEW r \in Replicas, NEW u \in Uploads,
                          \/ u \in backlog[r] \cup Queued(r)
                          \/ u \in handlers[r] /\ req[u] = "enqueue"
                   PROVE  status'[u] \in {"absent", "pending", "processing"}
      <4>1. \A r \in Replicas : backlog[r] \cup Queued(r) \cup handlers[r] \subseteq Uploads
        BY <1>1 DEF TypeOK, Queued
      <4> QED BY <2>2, <2>3, <4>1 DEF WaitingIsUnfinished
    <3>2. status[u] \in {"absent", "pending", "processing"}
      BY <3>1 DEF SinglePodInv, WaitingIsUnfinished
    <3>3. Busy(w) => u # job[w]
      BY <3>1, OneHand
    <3> QED BY <2>1, <3>2, <3>3 DEF CallKeepsStatus
  <2>5. CallTellsStatus'
    <3>1. ASSUME NEW v \in Workers, v # w, Busy(v)
          PROVE  status'[job[v]] = status[job[v]]
      <4>1. job[v] \in Uploads
        BY <1>1, <3>1 DEF TypeOK, Busy
      <4>2. Busy(w) => job[v] # job[w]
        BY <3>1, OneHand
      <4> QED BY <2>1, <4>1, <4>2 DEF CallKeepsStatus
    <3>2. \A v \in Workers \ {w} : CallTellsStatus =>
            /\ pc'[v] \in {"load", "mark"} =>
                 status'[job'[v]] \in {"absent", "pending", "processing"}
            /\ pc'[v] \in {"fetch", "post", "finish", "fail"} =>
                 status'[job'[v]] \in {"absent", "processing"}
            /\ pc'[v] = "purge" => status'[job'[v]] \in {"absent", "done"}
      BY <2>2, <3>1 DEF CallTellsStatus, Busy, Calls
    <3> QED BY <2>1, <2>2, <3>2 DEF SinglePodInv, CallTellsStatus, CallKeepsStatus, Busy, Calls
  <2>6. UnfinishedIsStaged'
    BY <2>1 DEF SinglePodInv, UnfinishedIsStaged, CallKeepsStatus
  <2> QED BY <2>4, <2>5, <2>6 DEF SinglePodInv
<1> QED BY <1>2, <1>3

\* What one pod enqueues has not finished: a row just inserted, or one that the
\* recovery query selected.
LEMMA SinglePodEnqueue ==
  ASSUME TypeOK, SinglePodInv, NEW r \in Replicas, NEW u \in Uploads,
         queue' = [queue EXCEPT ![r] = Enqueue(@, u)],
         UNCHANGED <<table, objects, worker>>,
         \A s \in Replicas : backlog'[s] \subseteq backlog[s] /\ handlers'[s] \subseteq handlers[s],
         \A x \in Uploads : req'[x] = "enqueue" => req[x] = "enqueue",
         status[u] \in {"absent", "pending", "processing"}
  PROVE  SinglePodInv'
<1>1. /\ UNCHANGED <<status, keyed, objects, pc, job>>
      /\ \A s \in Replicas : handlers[s] \subseteq Uploads
  BY DEF table, worker, TypeOK
<1>2. \A s \in Replicas : Queued(s)' \subseteq Queued(s) \cup {u}
  <2>1. Elements(Enqueue(queue[r], u)) \subseteq Elements(queue[r]) \cup {u}
    BY EnqueueElements DEF TypeOK
  <2>2. \A s \in Replicas : queue'[s] = IF s = r THEN Enqueue(queue[r], u) ELSE queue[s]
    BY DEF TypeOK
  <2>3. \A s \in Replicas : Queued(s) = Elements(queue[s]) /\ Queued(s)' = Elements(queue'[s])
    BY ONLY Zenon DEF Queued, Elements
  <2> QED BY <2>1, <2>2, <2>3
<1>3. WaitingIsUnfinished'
  BY <1>1, <1>2 DEF SinglePodInv, WaitingIsUnfinished
<1>4. CallTellsStatus' /\ UnfinishedIsStaged'
  BY <1>1 DEF SinglePodInv, CallTellsStatus, UnfinishedIsStaged, Unfinished
<1> QED BY <1>3, <1>4 DEF SinglePodInv

LEMMA SinglePodHandler ==
  ASSUME LossInv, SinglePodInv, NEW r \in Replicas, NEW u \in Uploads,
         PutObject(u, r) \/ CreateUpload(u, r) \/ EnqueueUpload(u, r)
  PROVE  SinglePodInv'
<1>0. TypeOK /\ \A s \in Replicas : handlers[s] \subseteq Uploads
  BY DEF LossInv, TypeOK
<1>1. CASE PutObject(u, r)
  <2>1. /\ UNCHANGED <<status, keyed, backlog, queue, pc, job>>
        /\ objects \subseteq objects'
        /\ \A x \in Uploads : req'[x] = "enqueue" => x # u /\ req[x] = "enqueue"
        /\ \A s \in Replicas : handlers'[s] \subseteq handlers[s] \cup {u}
    <3>1. /\ UNCHANGED <<status, keyed, backlog, queue, pc, job>>
          /\ objects \subseteq objects'
      BY <1>1 DEF PutObject, table, process, worker
    <3>2. \A x \in Uploads : req'[x] = "enqueue" => x # u /\ req[x] = "enqueue"
      BY <1>0, <1>1 DEF PutObject, TypeOK
    <3>3. \A s \in Replicas : handlers'[s] \subseteq handlers[s] \cup {u}
      <4>1. \/ handlers' = handlers
            \/ handlers' = [handlers EXCEPT ![r] = @ \cup {u}]
        BY <1>1 DEF PutObject
      <4> QED BY <1>0, <4>1 DEF TypeOK
    <3> QED BY <3>1, <3>2, <3>3
  <2>2. WaitingIsUnfinished'
    BY <1>0, <2>1 DEF SinglePodInv, WaitingIsUnfinished, Queued
  <2>3. CallTellsStatus' /\ UnfinishedIsStaged'
    BY <2>1 DEF SinglePodInv, CallTellsStatus, UnfinishedIsStaged, Unfinished
  <2> QED BY <2>2, <2>3 DEF SinglePodInv
<1>2. CASE CreateUpload(u, r)
  <2>1. /\ UNCHANGED <<objects, backlog, queue, pc, job>>
        /\ \A x \in Uploads \ {u} : req'[x] = req[x]
        /\ \A s \in Replicas : handlers'[s] \subseteq handlers[s]
        /\ \/ UNCHANGED <<status, keyed>> /\ req'[u] = "refused"
           \/ /\ status' = [status EXCEPT ![u] = "pending"]
              /\ keyed' = keyed \cup {u}
    <3>1. UNCHANGED <<objects, backlog, queue, pc, job>>
      BY <1>2 DEF CreateUpload, process, worker
    <3>2. \A x \in Uploads \ {u} : req'[x] = req[x]
      BY <1>0, <1>2 DEF CreateUpload, Refuse, TypeOK
    <3>3. \A s \in Replicas : handlers'[s] \subseteq handlers[s]
      BY <1>0, <1>2 DEF CreateUpload, Refuse, TypeOK
    <3>4. \/ UNCHANGED <<status, keyed>> /\ req'[u] = "refused"
          \/ /\ status' = [status EXCEPT ![u] = "pending"]
             /\ keyed' = keyed \cup {u}
      BY <1>0, <1>2 DEF CreateUpload, InsertUpload, Refuse, TypeOK
    <3> QED BY <3>1, <3>2, <3>3, <3>4
  <2>2. /\ u \in objects
        /\ \A w \in Workers : Busy(w) => job[w] # u
    BY <1>2 DEF CreateUpload, LossInv, StagedBeforeInsert, UnknownBeforeInsert
  <2>3. WaitingIsUnfinished'
    <3>1. \A x \in Uploads :
            status[x] \in {"absent", "pending", "processing"} =>
              status'[x] \in {"absent", "pending", "processing"}
      BY <1>0, <2>1 DEF TypeOK
    <3>2. \A s \in Replicas : backlog[s] \cup Queued(s) \subseteq Uploads
      BY <1>0 DEF TypeOK, Queued
    <3>3. \A s \in Replicas : \A x \in backlog'[s] \cup Queued(s)' :
            status'[x] \in {"absent", "pending", "processing"}
      BY <2>1, <3>1, <3>2 DEF SinglePodInv, WaitingIsUnfinished, Queued
    <3>4. ASSUME NEW s \in Replicas, NEW x \in handlers'[s], req'[x] = "enqueue"
          PROVE  status'[x] \in {"absent", "pending", "processing"}
      <4>1. x \in Uploads /\ x \in handlers[s]
        BY <1>0, <2>1, <3>4
      <4>2. CASE x = u
        BY <1>0, <2>1, <3>4, <4>2 DEF TypeOK
      <4>3. CASE x # u
        BY <2>1, <3>1, <3>4, <4>1, <4>3 DEF SinglePodInv, WaitingIsUnfinished
      <4> QED BY <4>2, <4>3
    <3> QED BY <3>3, <3>4 DEF WaitingIsUnfinished
  <2>4. CallTellsStatus'
    BY <1>0, <2>1, <2>2 DEF SinglePodInv, CallTellsStatus, Busy, Calls, TypeOK
  <2>5. UnfinishedIsStaged'
    BY <1>0, <2>1, <2>2 DEF SinglePodInv, UnfinishedIsStaged, Unfinished, TypeOK
  <2> QED BY <2>3, <2>4, <2>5 DEF SinglePodInv
<1>3. CASE EnqueueUpload(u, r)
  <2>1. status[u] \in {"absent", "pending", "processing"}
    BY <1>3 DEF EnqueueUpload, SinglePodInv, WaitingIsUnfinished
  <2>2. /\ queue' = [queue EXCEPT ![r] = Enqueue(@, u)]
        /\ UNCHANGED <<table, objects, backlog, worker>>
        /\ \A s \in Replicas : handlers'[s] \subseteq handlers[s]
        /\ \A x \in Uploads : req'[x] = "enqueue" => req[x] = "enqueue"
    BY <1>0, <1>3 DEF EnqueueUpload, TypeOK
  <2> QED BY <1>0, <2>1, <2>2, SinglePodEnqueue
<1> QED BY <1>1, <1>2, <1>3

LEMMA SinglePodServer ==
  ASSUME TypeOK, SinglePodInv, NEW r \in Replicas,
         ServerStep(r) \/ Shutdown(r) \/ Crash(r)
  PROVE  SinglePodInv'
<1>0. \A s \in Replicas : handlers[s] \subseteq Uploads
  BY DEF TypeOK
<1>1. ASSUME UNCHANGED <<status, keyed, objects, req>>,
             \A w \in Workers : Busy(w)' => pc'[w] = pc[w] /\ job'[w] = job[w],
             \A s \in Replicas :
               /\ \A u \in backlog'[s] : u \in backlog[s] \/ Unfinished(u)
               /\ Queued(s)' \subseteq Queued(s)
               /\ handlers'[s] \subseteq handlers[s]
      PROVE  SinglePodInv'
  <2>1. WaitingIsUnfinished'
    BY <1>1 DEF SinglePodInv, WaitingIsUnfinished, Unfinished
  <2>2. CallTellsStatus' /\ UnfinishedIsStaged'
    BY <1>1 DEF SinglePodInv, CallTellsStatus, UnfinishedIsStaged, Unfinished, Busy, Calls
  <2> QED BY <2>1, <2>2 DEF SinglePodInv
<1>2. CASE Start(r) \/ RecoverPending(r) \/ Listen(r) \/ Shutdown(r)
  <2>1. UNCHANGED <<status, keyed, objects, queue, pc, job, req, handlers>>
    BY <1>2 DEF Start, RecoverPending, Listen, Shutdown, table, worker, request
  <2>2. \A s \in Replicas : \A u \in backlog'[s] : u \in backlog[s] \/ Unfinished(u)
    <3>1. \/ backlog' = backlog
          \/ backlog' = [backlog EXCEPT ![r] = PendingUploadIDs]
          \/ backlog' = [backlog EXCEPT ![r] = {}]
      BY <1>2 DEF Start, RecoverPending, Listen, Shutdown
    <3>2. \A s \in Replicas : \/ backlog'[s] = backlog[s]
                             \/ backlog'[s] = PendingUploadIDs
                             \/ backlog'[s] = {}
      BY <3>1 DEF TypeOK
    <3> QED BY <3>2 DEF PendingUploadIDs
  <2> QED BY <1>1, <2>1, <2>2 DEF Queued
<1>3. CASE Requeue(r)
  <2>1. PICK u \in backlog[r] :
          /\ queue' = [queue EXCEPT ![r] = Enqueue(@, u)]
          /\ backlog' = [backlog EXCEPT ![r] = @ \ {u}]
    BY <1>3 DEF Requeue
  <2>2. u \in Uploads /\ \A s \in Replicas : backlog'[s] \subseteq backlog[s]
    BY <2>1 DEF TypeOK
  <2>3. status[u] \in {"absent", "pending", "processing"}
    BY <2>1 DEF SinglePodInv, WaitingIsUnfinished
  <2>4. UNCHANGED <<table, objects, worker, req, handlers>>
    BY <1>3 DEF Requeue, request
  <2> QED BY <2>1, <2>2, <2>3, <2>4, SinglePodEnqueue
<1>4. CASE Exit(r) \/ Crash(r)
  <2>1. Halt(r)
    BY <1>4 DEF Exit, Crash
  <2>2. /\ UNCHANGED <<status, keyed, objects>>
        /\ \A w \in Workers : Busy(w)' => pc'[w] = pc[w] /\ job'[w] = job[w]
        /\ \A s \in Replicas :
             /\ backlog'[s] \subseteq backlog[s]
             /\ handlers'[s] \subseteq handlers[s]
             /\ Queued(s)' \subseteq Queued(s)
    BY <2>1, HaltShape DEF Busy, Calls, Queued
  <2>3. \A s \in Replicas : \A u \in handlers'[s] : req'[u] = "enqueue" => req[u] = "enqueue"
    BY <1>0, <2>1, <2>2 DEF Halt, TypeOK
  <2>4. WaitingIsUnfinished'
    BY <2>2, <2>3 DEF SinglePodInv, WaitingIsUnfinished
  <2>5. CallTellsStatus' /\ UnfinishedIsStaged'
    BY <2>2 DEF SinglePodInv, CallTellsStatus, UnfinishedIsStaged, Unfinished, Busy, Calls
  <2> QED BY <2>4, <2>5 DEF SinglePodInv
<1> QED BY <1>2, <1>3, <1>4 DEF ServerStep, PodStep, PodStep

LEMMA SinglePodOwner ==
  ASSUME TypeOK, SinglePodInv, NEW usr \in Users,
         ClearTransactions(usr) \/ DeleteUser(usr)
  PROVE  SinglePodInv'
<1>1. /\ UNCHANGED <<keyed, objects, backlog, queue, handlers, req, pc, job>>
      /\ \A u \in Uploads : status'[u] \in {status[u], "absent"}
  BY DEF ClearTransactions, DeleteUser, DropUploads, process, worker, request, TypeOK
<1>2. \A r \in Replicas : backlog[r] \cup Queued(r) \cup handlers[r] \subseteq Uploads
  BY DEF TypeOK, Queued
<1>3. WaitingIsUnfinished'
  BY <1>1, <1>2 DEF SinglePodInv, WaitingIsUnfinished, Queued
<1>4. CallTellsStatus'
  <2>1. \A w \in Workers : pc[w] \in Calls => job[w] \in Uploads
    BY DEF TypeOK
  <2> QED BY <1>1, <2>1 DEF SinglePodInv, CallTellsStatus, Calls
<1>5. UnfinishedIsStaged'
  BY <1>1 DEF SinglePodInv, UnfinishedIsStaged, Unfinished
<1> QED BY <1>3, <1>4, <1>5 DEF SinglePodInv

LEMMA NextSinglePod ==
  ASSUME OnePod
  PROVE  PipelineInv /\ SinglePodInv /\ [Next]_vars => SinglePodInv'
<1>1. SUFFICES ASSUME PipelineInv, SinglePodInv, [Next]_vars PROVE SinglePodInv'
  OBVIOUS
<1>2. LossInv /\ TypeOK
  BY <1>1 DEF PipelineInv, LossInv
<1>3. CASE \E r \in Replicas, u \in Uploads :
             PutObject(u, r) \/ CreateUpload(u, r) \/ EnqueueUpload(u, r)
  BY <1>1, <1>2, <1>3, SinglePodHandler
<1>4. CASE \E r \in Replicas : ServerStep(r) \/ Shutdown(r) \/ Crash(r)
  BY <1>1, <1>2, <1>4, SinglePodServer
<1>5. CASE \E w \in Workers : WorkerStep(w)
  BY <1>1, <1>5, SinglePodWorker
<1>6. CASE \E usr \in Users : ClearTransactions(usr) \/ DeleteUser(usr)
  BY <1>1, <1>2, <1>6, SinglePodOwner
<1>7. CASE UNCHANGED vars
  BY <1>1, <1>7 DEF SinglePodInv, WaitingIsUnfinished, CallTellsStatus, UnfinishedIsStaged,
     Unfinished, Queued, vars, table, process, worker, request
<1> QED BY <1>1, <1>3, <1>4, <1>5, <1>6, <1>7 DEF Next, HandlerStep

LEMMA InitSinglePod == Init => SinglePodInv
BY DEF Init, SinglePodInv, WaitingIsUnfinished, CallTellsStatus, UnfinishedIsStaged,
   Unfinished, Queued

THEOREM SinglePodInvariant ==
  ASSUME OnePod
  PROVE  Spec => []SinglePodInv
<1>1. PipelineInv /\ SinglePodInv /\ [Next]_vars => SinglePodInv'
  BY NextSinglePod
<1>2. QED BY <1>1, InitSinglePod, PipelineInvariant, PTL DEF Spec

\* A pod that runs alone finds what its recovery query promises: an upload that
\* never finished still has its object key and its staged file, whatever crashed
\* or failed (PendingUploadIDs, MarkUploadDone, Queue.process).
THEOREM RecoveryFindsFiles ==
  ASSUME OnePod
  PROVE  Spec => []UnfinishedIsStaged
<1>1. SinglePodInv => UnfinishedIsStaged
  BY DEF SinglePodInv
<1>2. QED BY <1>1, SinglePodInvariant, PTL

----------------------------------------------------------------------------
(* Statements are posted once when nothing fails.                          *)

\* What makes an upload's first pass the only one, as an assumption of the
\* steps: only what createUpload has accepted is queued or being processed.
LEMMA AcceptedBeforeWork ==
  ASSUME TypeOK, FirstPass, NEW u \in Uploads,
         \/ \E r \in Replicas : u \in Queued(r)
         \/ \E w \in Workers : Busy(w) /\ job[w] = u
  PROVE  req[u] = "accepted"
BY DEF FirstPass

LEMMA FirstPassTake ==
  ASSUME TypeOK, FirstPass, NEW w \in Workers, Take(w)
  PROVE  FirstPass'
<1> DEFINE h == Home[w]
           u == Head(queue[h])
<1>1. /\ h \in Replicas
      /\ queue[h] \in Seq(Uploads)
      /\ queue[h] # <<>>
      /\ UNCHANGED <<rows, server, backlog, req>>
  BY PipelineAssumption DEF Take, TypeOK, table, request
<1>2. /\ u \in Queued(h) /\ u \in Uploads
      /\ \A r \in Replicas : Queued(r)' \subseteq Queued(r)
  <2>1. \A r \in Replicas : queue'[r] = IF r = h THEN Tail(queue[h]) ELSE queue[r]
    BY <1>1 DEF Take, TypeOK
  <2>2. /\ u \in Elements(queue[h]) /\ u \in Uploads
        /\ Elements(Tail(queue[h])) \subseteq Elements(queue[h])
    BY <1>1, ReceiveType
  <2>3. Queued(h) = Elements(queue[h]) /\ Queued(h)' = Elements(Tail(queue[h]))
    BY <1>1, <2>1 DEF Queued, Elements
  <2>4. \A r \in Replicas : r # h => Queued(r)' = Queued(r)
    BY <2>1 DEF Queued
  <2> QED BY <2>2, <2>3, <2>4
<1>3. \A v \in Workers :
        IF v = w THEN pc'[v] = "load" /\ job'[v] = u
                 ELSE pc'[v] = pc[v] /\ job'[v] = job[v]
  BY DEF Take, TypeOK
<1>4. rows[u] = 0 /\ req[u] = "accepted"
  BY <1>1, <1>2, AcceptedBeforeWork DEF FirstPass
<1>5. \A r \in Replicas :
        /\ server'[r] # "stopping"
        /\ server'[r] # "serving" => \A x \in Uploads : req'[x] = "unsent"
        /\ backlog'[r] = {}
        /\ \A x \in Queued(r)' : rows'[x] = 0
  BY <1>1, <1>2 DEF FirstPass
<1>6. \A x \in Uploads :
        /\ rows'[x] <= 1
        /\ req'[x] # "accepted" =>
             /\ rows'[x] = 0
             /\ \A r \in Replicas : x \notin Queued(r)'
             /\ \A v \in Workers : Busy(v)' => job'[v] # x
  BY <1>1, <1>2, <1>3, <1>4 DEF FirstPass, Busy
<1>7. \A v \in Workers :
        pc'[v] \in {"load", "mark", "fetch", "post"} => rows'[job'[v]] = 0
  BY <1>1, <1>3, <1>4 DEF FirstPass
<1> QED BY <1>5, <1>6, <1>7 DEF FirstPass

\* A call stores the rows of its worker's upload, once, or none.
LEMMA CallRows ==
  ASSUME TypeOK, NEW w \in Workers, WorkerStep(w), ~Take(w), faults' = 0, ~Stopping(w)
  PROVE  /\ \/ rows' = rows
            \/ /\ pc[w] = "post"
               /\ rows' = [rows EXCEPT ![job[w]] = @ + 1]
               /\ pc'[w] = "finish"
         /\ pc'[w] \in {"load", "mark", "fetch", "post"} =>
              pc[w] \in {"load", "mark", "fetch"} /\ job'[w] = job[w]
<1>1. CASE Load(w)
  BY <1>1 DEF Load, Goto, Release, TypeOK, table
<1>2. CASE MarkProcessing(w)
  BY <1>2 DEF MarkProcessing, Goto, Release, TypeOK
<1>3. CASE Fetch(w)
  BY <1>3 DEF Fetch, Goto, TypeOK, table
<1>4. CASE Post(w)
  <2>1. CASE status[job[w]] = "absent"
    BY <1>4, <2>1 DEF Post, CommitUntold, Goto, TypeOK
  <2>2. CASE status[job[w]] # "absent"
    <3>1. PICK took \in BOOLEAN, ok \in BOOLEAN :
            /\ DbCall(w, took, ok)
            /\ rows' = [rows EXCEPT ![job[w]] = IF took THEN @ + 1 ELSE @]
            /\ Goto(w, IF ok THEN "finish" ELSE "fail")
      <4>1. ~CommitUntold(w)
        BY PipelineAssumption DEF CommitUntold, Fault, TypeOK
      <4> QED BY <1>4, <2>2, <4>1 DEF Post
    <3>2. took /\ ok
      BY <3>1, CallSucceeds
    <3> QED BY <1>4, <3>1, <3>2 DEF Post, CommitUntold, Goto, TypeOK
  <2> QED BY <2>1, <2>2
<1>5. CASE Finish(w)
  BY <1>5 DEF Finish, Goto, Release, TypeOK
<1>6. CASE Purge(w)
  BY <1>6 DEF Purge, Release, TypeOK, table
<1>7. CASE MarkError(w)
  BY <1>7 DEF MarkError, Release, TypeOK
<1>8. CASE WorkerExit(w)
  BY <1>8 DEF WorkerExit, TypeOK, table
<1> QED
  BY <1>1, <1>2, <1>3, <1>4, <1>5, <1>6, <1>7, <1>8 DEF WorkerStep

LEMMA FirstPassWorker ==
  ASSUME OnePod, PipelineInv, FirstPass, NEW w \in Workers, WorkerStep(w), faults' = 0
  PROVE  FirstPass'
<1>1. TypeOK
  BY DEF PipelineInv, LossInv
<1>2. CASE Take(w)
  BY <1>1, <1>2, FirstPassTake
<1>3. CASE ~Take(w)
  <2>1. ~Stopping(w)
    BY PipelineAssumption DEF FirstPass, Stopping
  <2>2. /\ UNCHANGED <<server, backlog, queue, req>>
        /\ \A v \in Workers \ {w} : pc'[v] = pc[v] /\ job'[v] = job[v]
        /\ Busy(w)' => Busy(w) /\ job'[w] = job[w]
    BY <1>1, <1>3, WorkerShape DEF StepShape, Busy
  <2>3. /\ \A r \in Replicas : Queued(r)' = Queued(r)
        /\ \A r \in Replicas : Queued(r) \subseteq Uploads
        /\ \A v \in Workers : Busy(v)' => Busy(v) /\ job'[v] = job[v]
    BY <1>1, <2>2 DEF Queued, Busy, TypeOK
  <2>4. /\ pc'[w] \in {"load", "mark", "fetch", "post"} =>
             pc[w] \in {"load", "mark", "fetch"} /\ job'[w] = job[w]
        /\ \/ rows' = rows
           \/ /\ pc[w] = "post"
              /\ rows' = [rows EXCEPT ![job[w]] = @ + 1]
              /\ pc'[w] = "finish"
    BY <1>1, <1>3, <2>1, CallRows
  <2>5. CASE rows' = rows
    BY <2>2, <2>3, <2>4, <2>5 DEF FirstPass
  <2>6. CASE /\ pc[w] = "post"
             /\ rows' = [rows EXCEPT ![job[w]] = @ + 1]
             /\ pc'[w] = "finish"
    <3>1. /\ Busy(w) /\ job[w] \in Uploads
          /\ rows[job[w]] = 0
          /\ req[job[w]] = "accepted"
      <4>1. Busy(w) /\ job[w] \in Uploads
        BY <1>1, <2>6 DEF Busy, Calls, TypeOK
      <4> QED BY <1>1, <2>6, <4>1, AcceptedBeforeWork DEF FirstPass
    <3>2. rows'[job[w]] = 1 /\ \A x \in Uploads : x # job[w] => rows'[x] = rows[x]
      BY <1>1, <2>6, <3>1 DEF TypeOK
    <3>3. /\ \A r \in Replicas : job[w] \notin Queued(r)
          /\ \A v \in Workers : v # w /\ Busy(v) => job[v] # job[w]
      BY <3>1, OneHand
    <3>4. \A r \in Replicas :
            /\ server'[r] # "stopping"
            /\ server'[r] # "serving" => \A x \in Uploads : req'[x] = "unsent"
            /\ backlog'[r] = {}
            /\ \A x \in Queued(r)' : rows'[x] = 0
      BY <2>2, <2>3, <3>2, <3>3 DEF FirstPass
    <3>5. \A x \in Uploads :
            /\ rows'[x] <= 1
            /\ req'[x] # "accepted" =>
                 /\ rows'[x] = 0
                 /\ \A r \in Replicas : x \notin Queued(r)'
                 /\ \A v \in Workers : Busy(v)' => job'[v] # x
      BY <2>2, <2>3, <3>1, <3>2 DEF FirstPass
    <3>6. ASSUME NEW v \in Workers, pc'[v] \in {"load", "mark", "fetch", "post"}
          PROVE  rows'[job'[v]] = 0
      <4>1. v # w
        BY <2>6, <3>6
      <4>2. /\ pc[v] = pc'[v] /\ job'[v] = job[v]
            /\ Busy(v) /\ job[v] \in Uploads
        BY <1>1, <2>2, <3>6, <4>1 DEF Busy, Calls, TypeOK
      <4> QED BY <3>2, <3>3, <3>6, <4>1, <4>2 DEF FirstPass
    <3> QED BY <3>4, <3>5, <3>6 DEF FirstPass
  <2> QED BY <2>4, <2>5, <2>6
<1> QED BY <1>2, <1>3

LEMMA FirstPassHandler ==
  ASSUME OnePod, TypeOK, FirstPass, NEW r \in Replicas, NEW u \in Uploads,
         PutObject(u, r) \/ CreateUpload(u, r) \/ EnqueueUpload(u, r)
  PROVE  FirstPass'
<1>1. UNCHANGED <<rows, server, backlog, pc, job>>
  BY DEF PutObject, CreateUpload, EnqueueUpload, table, process, worker
<1>2. \A s \in Replicas : server[s] = "serving"
  <2>1. server[r] = "serving"
    BY DEF PutObject, CreateUpload, EnqueueUpload, Serving, FirstPass
  <2> QED BY <2>1 DEF OnePod
<1>3. req[u] # "accepted" /\ \A x \in Uploads : x # u => req'[x] = req[x]
  BY DEF PutObject, CreateUpload, EnqueueUpload, Refuse, TypeOK
<1>4. rows[u] = 0 /\ \A w \in Workers : Busy(w) => job[w] # u
  BY <1>3 DEF FirstPass
<1>5. \/ queue' = queue
      \/ /\ req'[u] = "accepted"
         /\ \A s \in Replicas : Queued(s)' \subseteq Queued(s) \cup {u}
  <2>1. CASE PutObject(u, r) \/ CreateUpload(u, r)
    BY <2>1 DEF PutObject, CreateUpload, process
  <2>2. CASE EnqueueUpload(u, r)
    <3>1. Elements(Enqueue(queue[r], u)) \subseteq Elements(queue[r]) \cup {u}
      BY EnqueueElements DEF TypeOK
    <3>2. \A s \in Replicas : queue'[s] = IF s = r THEN Enqueue(queue[r], u) ELSE queue[s]
      BY <2>2 DEF EnqueueUpload, TypeOK
    <3>3. req'[u] = "accepted"
      BY <2>2 DEF EnqueueUpload, TypeOK
    <3> QED BY <3>1, <3>2, <3>3 DEF Queued, Elements
  <2> QED BY <2>1, <2>2
<1>6. \A s \in Replicas :
        /\ Queued(s)' \subseteq Queued(s) \cup {u}
        /\ req'[u] # "accepted" => Queued(s)' = Queued(s)
  BY <1>5 DEF Queued
<1>7. \A s \in Replicas :
        /\ server'[s] # "stopping"
        /\ server'[s] # "serving" => \A x \in Uploads : req'[x] = "unsent"
        /\ backlog'[s] = {}
        /\ \A x \in Queued(s)' : rows'[x] = 0
  BY <1>1, <1>2, <1>4, <1>6 DEF FirstPass
<1>8. \A x \in Uploads :
        /\ rows'[x] <= 1
        /\ req'[x] # "accepted" =>
             /\ rows'[x] = 0
             /\ \A s \in Replicas : x \notin Queued(s)'
             /\ \A w \in Workers : Busy(w)' => job'[w] # x
  BY <1>1, <1>3, <1>4, <1>6 DEF FirstPass, Busy
<1>9. \A w \in Workers :
        pc'[w] \in {"load", "mark", "fetch", "post"} => rows'[job'[w]] = 0
  BY <1>1 DEF FirstPass
<1> QED BY <1>7, <1>8, <1>9 DEF FirstPass

\* Nothing waits for the pod that starts: every row comes from a request.
LEMMA FirstPassServer ==
  ASSUME OnePod, LossInv, FirstPass, NEW r \in Replicas, faults' = 0,
         ServerStep(r) \/ Shutdown(r) \/ Crash(r)
  PROVE  FirstPass'
<1>1. TypeOK /\ faults \in Nat
  BY PipelineAssumption DEF LossInv, TypeOK
<1>2. Start(r) \/ RecoverPending(r) \/ Listen(r)
  BY <1>1 DEF ServerStep, PodStep, Requeue, Exit, Shutdown, Crash, Fault, FirstPass
<1>3. /\ UNCHANGED <<rows, queue, pc, job, req>>
      /\ server'[r] # "stopping"
      /\ \A s \in Replicas : s = r
  BY <1>1, <1>2 DEF Start, RecoverPending, Listen, table, worker, request, TypeOK, OnePod
<1>4. server[r] # "serving"
  BY <1>2 DEF Start, RecoverPending, Listen
<1>5. backlog'[r] = {}
  <2>1. PendingUploadIDs = {}
    BY <1>4 DEF FirstPass, LossInv, UnknownBeforeInsert, PendingUploadIDs, Unfinished
  <2> QED BY <1>1, <1>2, <2>1 DEF Start, RecoverPending, Listen, FirstPass, TypeOK
<1> QED BY <1>3, <1>4, <1>5 DEF FirstPass, Queued, Busy

LEMMA FirstPassOwner ==
  ASSUME TypeOK, FirstPass, NEW usr \in Users,
         ClearTransactions(usr) \/ DeleteUser(usr)
  PROVE  FirstPass'
<1>1. /\ UNCHANGED <<server, backlog, queue, req, pc, job>>
      /\ \A u \in Uploads : rows'[u] \in {rows[u], 0} /\ rows[u] \in Nat
  BY DEF ClearTransactions, DeleteUser, DropUploads, process, worker, request, TypeOK
<1>2. /\ \A r \in Replicas : Queued(r) \subseteq Uploads /\ Queued(r)' = Queued(r)
      /\ \A w \in Workers : pc[w] \in Calls => job[w] \in Uploads
  BY <1>1 DEF TypeOK, Queued
<1>3. \A r \in Replicas :
        /\ server'[r] # "stopping"
        /\ server'[r] # "serving" => \A x \in Uploads : req'[x] = "unsent"
        /\ backlog'[r] = {}
        /\ \A x \in Queued(r)' : rows'[x] = 0
  BY <1>1, <1>2 DEF FirstPass
<1>4. \A x \in Uploads :
        /\ rows'[x] <= 1
        /\ req'[x] # "accepted" =>
             /\ rows'[x] = 0
             /\ \A r \in Replicas : x \notin Queued(r)'
             /\ \A w \in Workers : Busy(w)' => job'[w] # x
  BY <1>1, <1>2 DEF FirstPass, Busy
<1>5. \A w \in Workers :
        pc'[w] \in {"load", "mark", "fetch", "post"} => rows'[job'[w]] = 0
  BY <1>1, <1>2 DEF FirstPass, Calls
<1> QED BY <1>3, <1>4, <1>5 DEF FirstPass

LEMMA NextPost ==
  ASSUME OnePod
  PROVE  PipelineInv /\ PostInv /\ [Next]_vars => PostInv'
<1>1. SUFFICES ASSUME PipelineInv, PostInv, [Next]_vars, faults' = 0
               PROVE  FirstPass'
  BY DEF PostInv
<1>2. LossInv /\ TypeOK
  BY <1>1 DEF PipelineInv, LossInv
<1>3. FirstPass
  BY <1>1, <1>2, FaultsRemain DEF PostInv
<1>4. CASE \E r \in Replicas, u \in Uploads :
             PutObject(u, r) \/ CreateUpload(u, r) \/ EnqueueUpload(u, r)
  BY <1>2, <1>3, <1>4, FirstPassHandler
<1>5. CASE \E r \in Replicas : ServerStep(r) \/ Shutdown(r) \/ Crash(r)
  BY <1>1, <1>2, <1>3, <1>5, FirstPassServer
<1>6. CASE \E w \in Workers : WorkerStep(w)
  BY <1>1, <1>3, <1>6, FirstPassWorker
<1>7. CASE \E usr \in Users : ClearTransactions(usr) \/ DeleteUser(usr)
  BY <1>2, <1>3, <1>7, FirstPassOwner
<1>8. CASE UNCHANGED vars
  BY <1>3, <1>8 DEF FirstPass, Queued, Busy, vars, table, process, worker, request
<1> QED BY <1>1, <1>4, <1>5, <1>6, <1>7, <1>8 DEF Next, HandlerStep

LEMMA InitPost == Init => PostInv
BY DEF Init, PostInv, FirstPass, Queued, Busy, Calls

\* A pod that runs alone posts the transactions of a completed statement once,
\* as long as nothing fails (createUpload enqueues an upload once, and nothing
\* but Start enqueues it again).
THEOREM LedgerIsPostedOnce ==
  ASSUME OnePod
  PROVE  Spec => []PostedOnce
<1>1. PipelineInv /\ PostInv /\ [Next]_vars => PostInv'
  BY NextPost
<1>2. PipelineInv /\ PostInv => PostedOnce
  <2>1. SUFFICES ASSUME PipelineInv, PostInv, faults = 0, NEW u \in Uploads, status[u] = "done"
                 PROVE  rows[u] = 1
    BY DEF PostedOnce, LedgerAccurate
  <2>2. rows[u] \in Nat /\ rows[u] > 0 /\ rows[u] <= 1
    BY <2>1
    DEF PipelineInv, LossInv, TypeOK, DoneIsBacked, UnstoredByFault, PostInv, FirstPass
  <2> QED BY <2>2
<1>3. QED BY <1>1, <1>2, InitPost, PipelineInvariant, PTL DEF Spec

----------------------------------------------------------------------------
(* A single pod implements UploadLifecycle.                                *)

Posted == {u \in Uploads : rows[u] > 0} \cup unstored

\* The pipeline seen by an upload's owner.
Visible == <<status, Posted, objects>>

LEMMA LifecycleTuple ==
  (UNCHANGED Visible) <=> (UNCHANGED Lifecycle!lifecycle)
BY DEF Visible, Posted, Lifecycle!lifecycle

\* A step of the lifecycle is named, and shows that the lifecycle allows it.
LEMMA LifecycleStep ==
  ASSUME NEW u \in Uploads,
         \/ Lifecycle!Stage(u) \/ Lifecycle!Register(u) \/ Lifecycle!Begin(u)
         \/ Lifecycle!PostRows(u) \/ Lifecycle!Complete(u) \/ Lifecycle!Fail(u)
         \/ Lifecycle!Unstage(u)
  PROVE  [Lifecycle!Next]_Visible
BY DEF Lifecycle!Next

LEMMA HandlerRefines ==
  ASSUME LossInv, NEW r \in Replicas, NEW u \in Uploads,
         PutObject(u, r) \/ CreateUpload(u, r) \/ EnqueueUpload(u, r)
  PROVE  [Lifecycle!Next]_Visible
<1>1. CASE PutObject(u, r)
  <2>1. status[u] = "absent"
    BY <1>1 DEF PutObject, LossInv, UnknownBeforeInsert
  <2>2. UNCHANGED <<status, rows, unstored>> /\ objects' \in {objects, objects \cup {u}}
    BY <1>1 DEF PutObject, table
  <2>3. Lifecycle!Stage(u) \/ UNCHANGED Visible
    BY <2>1, <2>2 DEF Lifecycle!Stage, Visible, Posted
  <2> QED BY <2>3, LifecycleStep
<1>2. CASE CreateUpload(u, r)
  <2>1. status[u] = "absent" /\ u \in objects
    BY <1>2 DEF CreateUpload, LossInv, UnknownBeforeInsert, StagedBeforeInsert
  <2>2. /\ UNCHANGED <<rows, unstored, objects>>
        /\ status' = status \/ status' = [status EXCEPT ![u] = "pending"]
    BY <1>2 DEF CreateUpload, InsertUpload
  <2>3. Lifecycle!Register(u) \/ UNCHANGED Visible
    BY <2>1, <2>2 DEF Lifecycle!Register, Lifecycle!Becomes, Visible, Posted
  <2> QED BY <2>3, LifecycleStep
<1>3. CASE EnqueueUpload(u, r)
  BY <1>3 DEF EnqueueUpload, Visible, Posted, table
<1> QED BY <1>1, <1>2, <1>3

\* Each call of a worker is one step of its upload's life, or shows nothing:
\* what the step requires is what the worker's call tells of the status.
LEMMA WorkerRefines ==
  ASSUME LossInv, SinglePodInv, NEW w \in Workers, WorkerStep(w)
  PROVE  [Lifecycle!Next]_Visible
<1> DEFINE u == job[w]
<1>0. TypeOK
  BY DEF LossInv
<1>1. CASE Take(w) \/ Load(w) \/ Fetch(w) \/ WorkerExit(w)
  BY <1>1 DEF Take, Load, Fetch, WorkerExit, Visible, Posted, table
<1>2. CASE MarkProcessing(w)
  <2>1. /\ u \in Uploads
        /\ status[u] \in {"absent", "pending", "processing"}
        /\ UNCHANGED <<rows, unstored, objects>>
        /\ UNCHANGED status \/ SetStatus(u, "processing")
    BY <1>0, <1>2 DEF MarkProcessing, TypeOK, Calls, SinglePodInv, CallTellsStatus
  <2>2. status[u] = "pending" => u \in objects
    BY <2>1 DEF SinglePodInv, UnfinishedIsStaged, Unfinished
  <2>3. Lifecycle!Begin(u) \/ UNCHANGED Visible
    <3>1. \/ status' = status
          \/ status[u] = "pending" /\ status' = [status EXCEPT ![u] = "processing"]
      BY <1>0, <2>1 DEF SetStatus, TypeOK
    <3> QED
      BY <2>1, <2>2, <3>1 DEF Lifecycle!Begin, Lifecycle!Becomes, Visible, Posted
  <2> QED BY <2>1, <2>3, LifecycleStep
<1>3. CASE Post(w)
  <2>1. /\ u \in Uploads
        /\ status[u] \in {"absent", "processing"}
        /\ UNCHANGED <<status, objects>>
        /\ rows[u] \in Nat
    BY <1>0, <1>3 DEF Post, TypeOK, Calls, SinglePodInv, CallTellsStatus
  <2>2. /\ \/ rows' = rows
           \/ status[u] # "absent" /\ rows' = [rows EXCEPT ![u] = @ + 1]
        /\ \/ unstored' = unstored
           \/ status[u] # "absent" /\ unstored' = unstored \cup {u}
    BY <1>0, <1>3, WorkerEffect DEF StepEffect
  <2>3. PICK x \in Uploads : x = u
    BY <2>1
  <2>4. Lifecycle!PostRows(x) \/ UNCHANGED Visible
    <3>1. CASE rows' = rows /\ unstored' = unstored
      BY <2>1, <3>1 DEF Visible, Posted
    <3>2. CASE ~(rows' = rows /\ unstored' = unstored)
      <4>1. status[x] = "processing" /\ x \in objects
        BY <2>1, <2>2, <2>3, <3>2 DEF SinglePodInv, UnfinishedIsStaged, Unfinished
      <4>2. Posted' = Posted \cup {x}
        <5>1. \A y \in Uploads : rows'[y] > 0 <=> rows[y] > 0 \/ (y = x /\ rows' # rows)
          BY <1>0, <2>1, <2>2, <2>3 DEF TypeOK
        <5>2. unstored' = unstored \/ unstored' = unstored \cup {x}
          BY <2>2, <2>3
        <5> QED BY <2>3, <3>2, <5>1, <5>2 DEF Posted
      <4> QED BY <2>1, <4>1, <4>2 DEF Lifecycle!PostRows, Posted
    <3> QED BY <2>2, <2>3, <3>1, <3>2
  <2> QED BY <2>4, LifecycleStep
<1>4. CASE Finish(w)
  <2>1. /\ u \in Uploads
        /\ status[u] \in {"absent", "processing"}
        /\ UNCHANGED <<rows, unstored, objects>>
        /\ UNCHANGED status \/ SetStatus(u, "done")
    BY <1>0, <1>4 DEF Finish, TypeOK, Calls, SinglePodInv, CallTellsStatus
  <2>2. status[u] = "processing" => u \in Posted
    BY <1>4, <2>1 DEF Finish, LossInv, PostedBeforeFinish, Posted
  <2>3. Lifecycle!Complete(u) \/ UNCHANGED Visible
    <3>1. \/ status' = status
          \/ status[u] = "processing" /\ status' = [status EXCEPT ![u] = "done"]
      BY <1>0, <2>1 DEF SetStatus, TypeOK
    <3> QED
      BY <2>1, <2>2, <3>1 DEF Lifecycle!Complete, Lifecycle!Becomes, Visible, Posted
  <2> QED BY <2>1, <2>3, LifecycleStep
<1>5. CASE Purge(w)
  <2>1. /\ u \in Uploads
        /\ status[u] \in {"absent", "done"}
        /\ UNCHANGED <<status, rows, unstored>>
        /\ objects' \in {objects, objects \ {u}}
    BY <1>0, <1>5 DEF Purge, TypeOK, Calls, SinglePodInv, CallTellsStatus, table
  <2>2. Lifecycle!Unstage(u) \/ UNCHANGED Visible
    BY <2>1 DEF Lifecycle!Unstage, Visible, Posted
  <2> QED BY <2>1, <2>2, LifecycleStep
<1>6. CASE MarkError(w)
  <2>1. /\ u \in Uploads
        /\ status[u] \in {"absent", "processing"}
        /\ UNCHANGED <<rows, unstored, objects>>
        /\ UNCHANGED status \/ SetStatus(u, "error")
    BY <1>0, <1>6 DEF MarkError, TypeOK, Calls, SinglePodInv, CallTellsStatus
  <2>2. \/ status' = status
        \/ status[u] = "processing" /\ status' = [status EXCEPT ![u] = "error"]
    BY <1>0, <2>1 DEF SetStatus, TypeOK
  <2>3. Lifecycle!Fail(u) \/ UNCHANGED Visible
    BY <2>1, <2>2 DEF Lifecycle!Fail, Lifecycle!Becomes, Visible, Posted
  <2> QED BY <2>1, <2>3, LifecycleStep
<1> QED
  BY <1>1, <1>2, <1>3, <1>4, <1>5, <1>6 DEF WorkerStep

\* ON DELETE CASCADE: an owner's uploads go with their transactions.
LEMMA OwnerRefines ==
  ASSUME TypeOK, NEW usr \in Users, ClearTransactions(usr) \/ DeleteUser(usr)
  PROVE  [Lifecycle!Next]_Visible
<1> DEFINE S == {u \in Uploads : Owner[u] = usr}
<1>1. DropUploads(usr)
  BY DEF ClearTransactions, DeleteUser
<1>2. /\ status' = [u \in Uploads |-> IF u \in S THEN "absent" ELSE status[u]]
      /\ Posted' = Posted \ S
      /\ objects' = objects
  BY <1>1 DEF DropUploads, Posted, TypeOK
<1>3. S \in SUBSET Uploads /\ Lifecycle!Drop(S)
  BY <1>2 DEF Lifecycle!Drop, Posted
<1> QED BY <1>3 DEF Lifecycle!Next

LEMMA NextRefines == LossInv /\ SinglePodInv /\ [Next]_vars => [Lifecycle!Next]_Visible
<1>1. SUFFICES ASSUME LossInv, SinglePodInv, [Next]_vars PROVE [Lifecycle!Next]_Visible
  OBVIOUS
<1>2. CASE \E r \in Replicas, u \in Uploads :
             PutObject(u, r) \/ CreateUpload(u, r) \/ EnqueueUpload(u, r)
  BY <1>1, <1>2, HandlerRefines
<1>3. CASE \E r \in Replicas : ServerStep(r) \/ Shutdown(r) \/ Crash(r)
  <2>1. UNCHANGED <<status, rows, unstored, objects>>
    BY <1>3 DEF ServerStep, PodStep, Start, RecoverPending, Requeue, Listen, Exit, Shutdown, Crash,
       Halt, table
  <2> QED BY <2>1 DEF Visible, Posted
<1>4. CASE \E w \in Workers : WorkerStep(w)
  BY <1>1, <1>4, WorkerRefines
<1>5. CASE \E usr \in Users : ClearTransactions(usr) \/ DeleteUser(usr)
  BY <1>1, <1>5, OwnerRefines DEF LossInv
<1>6. CASE UNCHANGED vars
  BY <1>6 DEF Visible, Posted, vars, table
<1> QED BY <1>1, <1>2, <1>3, <1>4, <1>5, <1>6 DEF Next, HandlerStep

\* A pod that runs alone takes every upload from staged to registered, to
\* processing, to done with its transactions in the ledger or to error, and
\* removes its file only when it is done with, through crashes, shutdowns,
\* retries and removals by its owner (createUpload, Queue.process, Queue.Start).
THEOREM PodImplementsLifecycle ==
  ASSUME OnePod
  PROVE  Spec => LifecycleSpec
<1>1. Init => Lifecycle!Init
  BY DEF Init, Lifecycle!Init
<1>2. LossInv /\ SinglePodInv /\ [Next]_vars => [Lifecycle!Next]_(Lifecycle!lifecycle)
  BY NextRefines, LifecycleTuple
<1>3. PipelineInv => LossInv
  BY DEF PipelineInv
<1> QED
  BY <1>1, <1>2, <1>3, PipelineInvariant, SinglePodInvariant, PTL
  DEF Spec, LifecycleSpec, Lifecycle!Spec

=============================================================================
