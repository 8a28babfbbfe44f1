---------------------- MODULE StatementPipelineProofs ----------------------
(***************************************************************************)
(* Proofs about StatementPipeline, for every number of uploads, accounts,  *)
(* pods and workers, every channel capacity and every budget of faults.    *)
(***************************************************************************)
EXTENDS StatementPipeline, FiniteSetTheorems, TLAPS

----------------------------------------------------------------------------
(* The jobs channel.                                                       *)

Elements(q) == {q[i] : i \in 1..Len(q)}

NoDuplicates(q) == \A i, j \in 1..Len(q) : q[i] = q[j] => i = j

\* Queue.Enqueue keeps a channel within its capacity.
LEMMA EnqueueType ==
  ASSUME NEW q \in Seq(Uploads), NEW u \in Uploads, Len(q) <= QueueCap
  PROVE  Enqueue(q, u) \in Seq(Uploads) /\ Len(Enqueue(q, u)) <= QueueCap
BY PipelineAssumption DEF Enqueue, HasRoom

\* It adds the upload or nothing, and at most once.
LEMMA EnqueueElements ==
  ASSUME NEW q \in Seq(Uploads), NEW u \in Uploads
  PROVE  /\ Elements(Enqueue(q, u)) \subseteq Elements(q) \cup {u}
         /\ NoDuplicates(q) /\ u \notin Elements(q) => NoDuplicates(Enqueue(q, u))
BY DEF Enqueue, HasRoom, Elements, NoDuplicates

\* A receive takes the first job and leaves the others.
LEMMA ReceiveType ==
  ASSUME NEW q \in Seq(Uploads), q # <<>>
  PROVE  /\ Head(q) \in Elements(q)
         /\ Head(q) \in Uploads
         /\ Tail(q) \in Seq(Uploads)
         /\ Len(Tail(q)) <= Len(q)
         /\ Elements(Tail(q)) \subseteq Elements(q)
         /\ NoDuplicates(q) => NoDuplicates(Tail(q)) /\ Head(q) \notin Elements(Tail(q))
<1>1. /\ Len(q) \in Nat \ {0}
      /\ Head(q) = q[1]
      /\ Tail(q) \in Seq(Uploads)
      /\ Len(Tail(q)) = Len(q) - 1
      /\ \A i \in 1..Len(Tail(q)) : Tail(q)[i] = q[i + 1]
  OBVIOUS
<1>2. QED BY <1>1 DEF Elements, NoDuplicates

\* The next creation rank is a number.
LEMMA RankType ==
  TypeOK => 1 + Cardinality({v \in Uploads : createdAt[v] > 0}) \in Nat
<1>1. IsFiniteSet({v \in Uploads : createdAt[v] > 0})
  BY FS_Subset, PipelineAssumption
<1>2. QED BY <1>1, FS_CardinalityType

----------------------------------------------------------------------------
(* Type correctness.                                                       *)

LEMMA InitType == Init => TypeOK
BY PipelineAssumption DEF Init, TypeOK, Statuses, Running, Calls, Stages

LEMMA FaultType == \A kind : TypeOK /\ Fault(kind) => faults' \in 0..MaxFaults
BY PipelineAssumption DEF TypeOK, Fault

\* The requests in progress in a pod stay requests.
LEMMA InProgressType ==
  ASSUME TypeOK, NEW r \in Replicas, NEW S \in SUBSET Uploads
  PROVE  [handlers EXCEPT ![r] = S] \in [Replicas -> SUBSET Uploads]
BY DEF TypeOK

LEMMA HandlerType ==
  ASSUME TypeOK, NEW r \in Replicas, NEW u \in Uploads,
         PutObject(u, r) \/ CreateUpload(u, r) \/ EnqueueUpload(u, r)
  PROVE  TypeOK'
<1> DEFINE Added == handlers[r] \cup {u}
           Removed == handlers[r] \ {u}
<1>1. /\ [handlers EXCEPT ![r] = Added] \in [Replicas -> SUBSET Uploads]
      /\ [handlers EXCEPT ![r] = Removed] \in [Replicas -> SUBSET Uploads]
  <2>1. Added \in SUBSET Uploads /\ Removed \in SUBSET Uploads
    BY DEF TypeOK
  <2>2. QED BY <2>1, InProgressType
<1>2. CASE PutObject(u, r)
  <2>1. objects' \subseteq Uploads
    BY <1>2 DEF PutObject, TypeOK
  <2>2. req' \in [Uploads -> Stages]
    BY <1>2 DEF PutObject, TypeOK, Stages
  <2>3. faults' \in 0..MaxFaults
    BY <1>2, FaultType DEF PutObject, TypeOK
  <2>4. handlers' \in [Replicas -> SUBSET Uploads]
    BY <1>2, <1>1 DEF PutObject, TypeOK
  <2>5. QED
    BY <1>2, <2>1, <2>2, <2>3, <2>4 DEF PutObject, TypeOK, table, process, worker
<1>3. CASE CreateUpload(u, r)
  <2>1. createdAt' \in [Uploads -> Nat]
    BY <1>3, RankType DEF CreateUpload, InsertUpload, TypeOK
  <2>2. status' \in [Uploads -> Statuses] /\ keyed' \subseteq Uploads
    BY <1>3 DEF CreateUpload, InsertUpload, TypeOK, Statuses
  <2>3. req' \in [Uploads -> Stages]
    BY <1>3 DEF CreateUpload, Refuse, TypeOK, Stages
  <2>4. handlers' \in [Replicas -> SUBSET Uploads]
    BY <1>3, <1>1 DEF CreateUpload, Refuse, TypeOK
  <2>5. faults' \in 0..MaxFaults
    BY <1>3, FaultType DEF CreateUpload, TypeOK
  <2>6. QED
    BY <1>3, <2>1, <2>2, <2>3, <2>4, <2>5 DEF CreateUpload, TypeOK, process, worker
<1>4. CASE EnqueueUpload(u, r)
  <2>1. /\ Enqueue(queue[r], u) \in Seq(Uploads)
        /\ Len(Enqueue(queue[r], u)) <= QueueCap
    BY EnqueueType DEF TypeOK
  <2>2. req' \in [Uploads -> Stages]
    BY <1>4 DEF EnqueueUpload, TypeOK, Stages
  <2>3. handlers' \in [Replicas -> SUBSET Uploads]
    BY <1>4, <1>1 DEF EnqueueUpload
  <2>4. QED BY <1>4, <2>1, <2>2, <2>3 DEF EnqueueUpload, TypeOK, table, worker
<1>5. QED BY <1>2, <1>3, <1>4

\* A worker's call leaves its registers well-typed, whatever its outcome.
LEMMA RegisterType ==
  ASSUME TypeOK, NEW w \in Workers
  PROVE  /\ \A call \in Calls : Goto(w, call) /\ job[w] \in Uploads =>
              /\ pc' \in [Workers -> Calls \cup {"idle", "exited"}]
              /\ job' \in [Workers -> Uploads \cup {NoUpload}]
              /\ \A v \in Workers : pc'[v] \in Calls => job'[v] \in Uploads
              /\ live' \subseteq Workers
         /\ Release(w) =>
              /\ pc' \in [Workers -> Calls \cup {"idle", "exited"}]
              /\ job' \in [Workers -> Uploads \cup {NoUpload}]
              /\ \A v \in Workers : pc'[v] \in Calls => job'[v] \in Uploads
              /\ key' \subseteq Workers
              /\ live' \subseteq Workers
<1>1. ASSUME NEW call \in Calls, Goto(w, call), job[w] \in Uploads
      PROVE  /\ pc' \in [Workers -> Calls \cup {"idle", "exited"}]
             /\ job' \in [Workers -> Uploads \cup {NoUpload}]
             /\ \A v \in Workers : pc'[v] \in Calls => job'[v] \in Uploads
             /\ live' \subseteq Workers
  BY <1>1 DEF TypeOK, Goto, Stopping
<1>2. ASSUME Release(w)
      PROVE  /\ pc' \in [Workers -> Calls \cup {"idle", "exited"}]
             /\ job' \in [Workers -> Uploads \cup {NoUpload}]
             /\ \A v \in Workers : pc'[v] \in Calls => job'[v] \in Uploads
             /\ key' \subseteq Workers
             /\ live' \subseteq Workers
  BY <1>2 DEF TypeOK, Release, Calls
<1>3. QED BY <1>1, <1>2

LEMMA CallType ==
  ASSUME TypeOK, NEW w \in Workers, NEW took, NEW ok, DbCall(w, took, ok)
  PROVE  faults' \in 0..MaxFaults
BY FaultType DEF DbCall, CallFails, TypeOK

LEMMA WorkerType ==
  ASSUME TypeOK, NEW w \in Workers, WorkerStep(w)
  PROVE  TypeOK'
<1>1. CASE Take(w)
  <2>1. /\ Head(queue[Home[w]]) \in Uploads
        /\ Tail(queue[Home[w]]) \in Seq(Uploads)
        /\ Len(Tail(queue[Home[w]])) <= Len(queue[Home[w]])
        /\ Home[w] \in Replicas
    BY <1>1, ReceiveType, PipelineAssumption DEF Take, TypeOK
  <2>2. /\ queue' \in [Replicas -> Seq(Uploads)]
        /\ \A r \in Replicas : Len(queue'[r]) <= QueueCap
    BY <1>1, <2>1, PipelineAssumption DEF Take, TypeOK
  <2>3. /\ pc' \in [Workers -> Calls \cup {"idle", "exited"}]
        /\ job' \in [Workers -> Uploads \cup {NoUpload}]
        /\ \A v \in Workers : pc'[v] \in Calls => job'[v] \in Uploads
    BY <1>1, <2>1 DEF Take, TypeOK, Calls
  <2>4. live' \subseteq Workers
    BY <1>1 DEF Take, TypeOK
  <2>5. QED BY <1>1, <2>2, <2>3, <2>4 DEF Take, TypeOK, table, request
<1>2. CASE Load(w)
  <2>1. "mark" \in Calls /\ job[w] \in Uploads
    BY <1>2 DEF Load, TypeOK, Calls
  <2>2. faults' \in 0..MaxFaults
    BY <1>2, FaultType DEF Load, CallFails, TypeOK
  <2>3. key' \subseteq Workers
    BY <1>2 DEF Load, Release, TypeOK
  <2>4. QED
    BY <1>2, <2>1, <2>2, <2>3, RegisterType DEF Load, TypeOK, table, process, request
<1>3. CASE MarkProcessing(w)
  <2>1. "fetch" \in Calls /\ job[w] \in Uploads
    BY <1>3 DEF MarkProcessing, TypeOK, Calls
  <2>2. PICK took \in BOOLEAN, ok \in BOOLEAN :
          /\ DbCall(w, took, ok)
          /\ IF took THEN SetStatus(job[w], "processing") ELSE UNCHANGED status
          /\ IF ok THEN Goto(w, "fetch") /\ UNCHANGED key ELSE Release(w)
    BY <1>3 DEF MarkProcessing
  <2>3. faults' \in 0..MaxFaults
    BY <2>2, CallType
  <2>4. status' \in [Uploads -> Statuses]
    BY <2>2 DEF SetStatus, TypeOK, Statuses
  <2>5. key' \subseteq Workers
    BY <2>2 DEF Release, TypeOK
  <2>6. QED
    BY <1>3, <2>1, <2>2, <2>3, <2>4, <2>5, RegisterType
    DEF MarkProcessing, TypeOK, process, request
<1>4. CASE Fetch(w)
  <2>1. "post" \in Calls /\ "fail" \in Calls /\ job[w] \in Uploads
    BY <1>4 DEF Fetch, TypeOK, Calls
  <2>2. QED BY <1>4, <2>1, RegisterType DEF Fetch, TypeOK, table, process, request
<1>5. CASE Post(w)
  <2>1. "finish" \in Calls /\ "fail" \in Calls /\ job[w] \in Uploads
    BY <1>5 DEF Post, TypeOK, Calls
  <2>2. rows' \in [Uploads -> Nat] /\ unstored' \subseteq Uploads
    <3>1. \/ rows' = rows
          \/ \E n \in Nat : rows' = [rows EXCEPT ![job[w]] = n]
      BY <1>5, <2>1 DEF Post, CommitUntold, TypeOK
    <3>2. unstored' = unstored \/ unstored' = unstored \cup {job[w]}
      BY <1>5, Zenon DEF Post, CommitUntold
    <3>3. QED BY <2>1, <3>1, <3>2 DEF TypeOK
  <2>3. faults' \in 0..MaxFaults
    BY <1>5, CallType, FaultType DEF Post, CommitUntold, TypeOK
  <2>4. Goto(w, "finish") \/ Goto(w, "fail")
    BY <1>5 DEF Post, CommitUntold
  <2>5. QED
    BY <1>5, <2>1, <2>2, <2>3, <2>4, RegisterType DEF Post, TypeOK, process, request
<1>6. CASE Finish(w)
  <2>1. "purge" \in Calls /\ job[w] \in Uploads
    BY <1>6 DEF Finish, TypeOK, Calls
  <2>2. PICK took \in BOOLEAN, ok \in BOOLEAN :
          /\ DbCall(w, took, ok)
          /\ IF took
               THEN SetStatus(job[w], "done") /\ keyed' = keyed \ {job[w]}
               ELSE UNCHANGED <<status, keyed>>
          /\ IF ok THEN Goto(w, "purge") /\ UNCHANGED key ELSE Release(w)
    BY <1>6 DEF Finish
  <2>3. faults' \in 0..MaxFaults
    BY <2>2, CallType
  <2>4. status' \in [Uploads -> Statuses] /\ keyed' \subseteq Uploads
    <3>1. /\ \/ status' = status
             \/ status' = [status EXCEPT ![job[w]] = IF @ = "absent" THEN @ ELSE "done"]
          /\ keyed' = keyed \/ keyed' = keyed \ {job[w]}
      BY <2>2 DEF SetStatus
    <3>2. QED BY <2>1, <3>1 DEF TypeOK, Statuses
  <2>5. key' \subseteq Workers
    BY <2>2 DEF Release, TypeOK
  <2>6. QED
    BY <1>6, <2>1, <2>2, <2>3, <2>4, <2>5, RegisterType
    DEF Finish, TypeOK, process, request
<1>7. CASE Purge(w)
  <2>1. faults' \in 0..MaxFaults
    BY <1>7, FaultType DEF Purge, CallFails, TypeOK
  <2>2. objects' \subseteq Uploads
    BY <1>7 DEF Purge, TypeOK
  <2>3. QED
    BY <1>7, <2>1, <2>2, RegisterType DEF Purge, TypeOK, table, process, request
<1>8. CASE MarkError(w)
  <2>1. PICK took \in BOOLEAN, ok \in BOOLEAN :
          /\ DbCall(w, took, ok)
          /\ IF took THEN SetStatus(job[w], "error") ELSE UNCHANGED status
    BY <1>8 DEF MarkError
  <2>2. faults' \in 0..MaxFaults
    BY <2>1, CallType
  <2>3. status' \in [Uploads -> Statuses]
    BY <2>1 DEF SetStatus, TypeOK, Statuses
  <2>4. QED
    BY <1>8, <2>2, <2>3, RegisterType DEF MarkError, TypeOK, process, request
<1>9. CASE WorkerExit(w)
  BY <1>9 DEF WorkerExit, TypeOK, Calls, table, request, process
<1>10. QED
  BY <1>1, <1>2, <1>3, <1>4, <1>5, <1>6, <1>7, <1>8, <1>9 DEF WorkerStep

\* The end of a process empties its registers and touches no other process.
LEMMA HaltType ==
  ASSUME TypeOK, NEW r \in Replicas, Halt(r), faults' \in 0..MaxFaults
  PROVE  TypeOK'
<1>1. /\ server' \in [Replicas -> Running \cup {"down"}]
      /\ backlog' \in [Replicas -> SUBSET Uploads]
      /\ handlers' \in [Replicas -> SUBSET Uploads]
  BY DEF Halt, TypeOK
<1>2. /\ queue' \in [Replicas -> Seq(Uploads)]
      /\ \A s \in Replicas : Len(queue'[s]) <= QueueCap
  BY PipelineAssumption DEF Halt, TypeOK
<1>3. /\ pc' \in [Workers -> Calls \cup {"idle", "exited"}]
      /\ job' \in [Workers -> Uploads \cup {NoUpload}]
      /\ \A w \in Workers : pc'[w] \in Calls => job'[w] \in Uploads
  BY DEF Halt, TypeOK, Calls
<1>4. key' \subseteq Workers /\ live' \subseteq Workers
  BY DEF Halt, TypeOK
<1>5. req' \in [Uploads -> Stages]
  BY DEF Halt, TypeOK, Stages
<1>6. QED BY <1>1, <1>2, <1>3, <1>4, <1>5 DEF Halt, TypeOK, table

LEMMA ServerType ==
  ASSUME TypeOK, NEW r \in Replicas,
         ServerStep(r) \/ Shutdown(r) \/ Crash(r)
  PROVE  TypeOK'
<1>1. CASE Start(r)
  BY <1>1 DEF Start, TypeOK, Running, table, worker, request
<1>2. CASE RecoverPending(r)
  <2>1. backlog' \in [Replicas -> SUBSET Uploads]
    <3>1. PendingUploadIDs \in SUBSET Uploads
      BY DEF PendingUploadIDs
    <3>2. QED BY <1>2, <3>1 DEF RecoverPending, TypeOK
  <2>2. server' \in [Replicas -> Running \cup {"down"}]
    BY <1>2 DEF RecoverPending, TypeOK, Running
  <2>3. faults' \in 0..MaxFaults
    BY <1>2, FaultType DEF RecoverPending, TypeOK
  <2>4. QED
    BY <1>2, <2>1, <2>2, <2>3 DEF RecoverPending, TypeOK, table, worker, request
<1>3. CASE Requeue(r)
  <2>1. PICK u \in backlog[r] :
          /\ queue' = [queue EXCEPT ![r] = Enqueue(@, u)]
          /\ backlog' = [backlog EXCEPT ![r] = @ \ {u}]
    BY <1>3 DEF Requeue
  <2>2. u \in Uploads /\ backlog[r] \ {u} \in SUBSET Uploads
    BY <2>1 DEF TypeOK
  <2>3. backlog' \in [Replicas -> SUBSET Uploads]
    BY <2>1, <2>2 DEF TypeOK
  <2>4. /\ Enqueue(queue[r], u) \in Seq(Uploads)
        /\ Len(Enqueue(queue[r], u)) <= QueueCap
    BY <2>2, EnqueueType DEF TypeOK
  <2>5. /\ queue' \in [Replicas -> Seq(Uploads)]
        /\ \A s \in Replicas : Len(queue'[s]) <= QueueCap
    BY <2>1, <2>4 DEF TypeOK
  <2>6. QED BY <1>3, <2>3, <2>5 DEF Requeue, TypeOK, table, worker, request
<1>4. CASE Listen(r)
  BY <1>4 DEF Listen, TypeOK, Running, table, worker, request
<1>5. CASE Exit(r)
  BY <1>5, HaltType DEF Exit, TypeOK
<1>6. CASE Shutdown(r)
  <2>1. /\ server' \in [Replicas -> Running \cup {"down"}]
        /\ backlog' \in [Replicas -> SUBSET Uploads]
    BY <1>6 DEF Shutdown, TypeOK, Running
  <2>2. faults' \in 0..MaxFaults
    BY <1>6, FaultType DEF Shutdown
  <2>3. QED BY <1>6, <2>1, <2>2 DEF Shutdown, TypeOK, table, worker, request
<1>7. CASE Crash(r)
  BY <1>7, HaltType, FaultType DEF Crash
<1>8. QED BY <1>1, <1>2, <1>3, <1>4, <1>5, <1>6, <1>7 DEF ServerStep, PodStep

LEMMA OwnerType ==
  ASSUME TypeOK, NEW usr \in Users, ClearTransactions(usr) \/ DeleteUser(usr)
  PROVE  TypeOK'
<1>1. DropUploads(usr) /\ accounts' \subseteq Users
  BY DEF ClearTransactions, DeleteUser, TypeOK
<1>2. /\ status' \in [Uploads -> Statuses]
      /\ rows' \in [Uploads -> Nat]
  BY <1>1 DEF DropUploads, TypeOK, Statuses
<1>3. QED BY <1>1, <1>2 DEF DropUploads, TypeOK, process, worker, request

LEMMA StutterType == TypeOK /\ UNCHANGED vars => TypeOK'
BY DEF TypeOK, vars, table, process, worker, request

LEMMA NextType == TypeOK /\ [Next]_vars => TypeOK'
<1>1. SUFFICES ASSUME TypeOK, Next PROVE TypeOK'
  BY StutterType
<1>2. CASE \E r \in Replicas, u \in Uploads :
             PutObject(u, r) \/ CreateUpload(u, r) \/ EnqueueUpload(u, r)
  BY <1>1, <1>2, HandlerType
<1>3. CASE \E r \in Replicas : ServerStep(r) \/ Shutdown(r) \/ Crash(r)
  BY <1>1, <1>3, ServerType
<1>4. CASE \E w \in Workers : WorkerStep(w)
  BY <1>1, <1>4, WorkerType
<1>5. CASE \E usr \in Users : ClearTransactions(usr) \/ DeleteUser(usr)
  BY <1>1, <1>5, OwnerType
<1>6. QED BY <1>1, <1>2, <1>3, <1>4, <1>5 DEF Next, HandlerStep

\* Every variable keeps its type, and no channel of jobs ever exceeds its
\* capacity, in a fleet of any size (Queue.jobs, Queue.Enqueue).
THEOREM TypeCorrect == Spec => []TypeOK
<1>1. QED BY InitType, NextType, PTL DEF Spec

----------------------------------------------------------------------------
(* No statement is lost.                                                   *)

\* What a worker's step does to the processes: it touches its own registers
\* only, and works on the upload it had or on one it received.
StepShape(w) ==
  /\ UNCHANGED <<server, backlog, req, handlers, createdAt, accounts>>
  /\ \A v \in Workers \ {w} : pc'[v] = pc[v] /\ job'[v] = job[v]
  /\ \/ pc'[w] \in Calls => Busy(w) /\ job'[w] = job[w]
     \/ Take(w)
  /\ Take(w) \/ queue' = queue

LEMMA WorkerShape ==
  ASSUME TypeOK, NEW w \in Workers, WorkerStep(w)
  PROVE  StepShape(w)
<1> USE DEF StepShape
<1>1. CASE Take(w)
  BY <1>1 DEF Take, TypeOK, table, request
<1>2. CASE Load(w)
  BY <1>2 DEF Load, Goto, Release, TypeOK, Busy, Calls, table, process, request
<1>3. CASE MarkProcessing(w)
  <2>1. \/ Goto(w, "fetch")
        \/ Release(w)
    BY <1>3 DEF MarkProcessing
  <2>2. QED
    BY <1>3, <2>1 DEF MarkProcessing, Goto, Release, TypeOK, Busy, Calls, process, request
<1>4. CASE Fetch(w)
  BY <1>4 DEF Fetch, Goto, TypeOK, Busy, Calls, table, process, request
<1>5. CASE Post(w)
  <2>1. Goto(w, "fail") \/ Goto(w, "finish")
    BY <1>5 DEF Post, CommitUntold
  <2>2. QED BY <1>5, <2>1 DEF Post, Goto, TypeOK, Busy, Calls, process, request
<1>6. CASE Finish(w)
  <2>1. Goto(w, "purge") \/ Release(w)
    BY <1>6 DEF Finish
  <2>2. QED
    BY <1>6, <2>1 DEF Finish, Goto, Release, TypeOK, Busy, Calls, process, request
<1>7. CASE Purge(w)
  BY <1>7 DEF Purge, Release, TypeOK, Busy, Calls, table, process, request
<1>8. CASE MarkError(w)
  BY <1>8 DEF MarkError, Release, TypeOK, Busy, Calls, process, request
<1>9. CASE WorkerExit(w)
  BY <1>9 DEF WorkerExit, TypeOK, Busy, Calls, table, process, request
<1>10. QED
  BY <1>1, <1>2, <1>3, <1>4, <1>5, <1>6, <1>7, <1>8, <1>9 DEF WorkerStep

\* What it does to the tables and the bucket, all of it to its own upload.
StepEffect(w) ==
  /\ \/ status' = status
     \/ \E s \in {"processing", "error"} :
          status' = [status EXCEPT ![job[w]] = IF @ = "absent" THEN @ ELSE s]
     \/ /\ pc[w] = "finish"
        /\ status' = [status EXCEPT ![job[w]] = IF @ = "absent" THEN @ ELSE "done"]
  /\ \/ rows' = rows
     \/ /\ pc[w] = "post"
        /\ status' = status
        /\ status[job[w]] # "absent"
        /\ rows' = [rows EXCEPT ![job[w]] = @ + 1]
  /\ \/ unstored' = unstored
     \/ /\ pc[w] = "post"
        /\ status' = status
        /\ status[job[w]] # "absent"
        /\ faults' = faults + 1
        /\ unstored' = unstored \cup {job[w]}
  /\ \/ objects' = objects
     \/ /\ pc[w] = "purge"
        /\ status' = status
        /\ rows' = rows
        /\ objects' = objects \ {job[w]}
  /\ pc'[w] \in {"finish", "purge"} =>
       /\ job'[w] = job[w]
       /\ \/ /\ pc[w] = "post"
             /\ rows' = [rows EXCEPT ![job[w]] = @ + 1] \/ job[w] \in unstored'
          \/ pc[w] = "finish"

LEMMA WorkerEffect ==
  ASSUME TypeOK, NEW w \in Workers, WorkerStep(w)
  PROVE  StepEffect(w)
<1> USE DEF StepEffect
<1>1. CASE Take(w)
  BY <1>1 DEF Take, TypeOK, table
<1>2. CASE Load(w)
  BY <1>2 DEF Load, Goto, Release, TypeOK, table
<1>3. CASE MarkProcessing(w)
  <2>1. \/ Goto(w, "fetch")
        \/ Release(w)
    BY <1>3 DEF MarkProcessing
  <2>2. status' = status \/ SetStatus(job[w], "processing")
    BY <1>3 DEF MarkProcessing
  <2>3. QED
    BY <1>3, <2>1, <2>2 DEF MarkProcessing, SetStatus, Goto, Release, TypeOK
<1>4. CASE Fetch(w)
  BY <1>4 DEF Fetch, Goto, TypeOK, table
<1>5. CASE Post(w)
  <2>1. \/ /\ UNCHANGED unstored
           /\ \/ Goto(w, "fail") /\ rows' = rows
              \/ /\ Goto(w, "fail") \/ Goto(w, "finish")
                 /\ status[job[w]] # "absent"
                 /\ rows' = [rows EXCEPT ![job[w]] = @ + 1]
        \/ status[job[w]] # "absent" /\ CommitUntold(w)
    <3>1. CASE status[job[w]] = "absent"
      BY <1>5, <3>1 DEF Post
    <3>2. CASE status[job[w]] # "absent" /\ ~CommitUntold(w)
      <4>1. PICK took \in BOOLEAN, ok \in BOOLEAN :
              /\ DbCall(w, took, ok)
              /\ rows' = [rows EXCEPT ![job[w]] = IF took THEN @ + 1 ELSE @]
              /\ Goto(w, IF ok THEN "finish" ELSE "fail")
              /\ UNCHANGED unstored
        BY <1>5, <3>2 DEF Post
      <4>2. ok => took
        BY <4>1 DEF DbCall
      <4>3. [rows EXCEPT ![job[w]] = @] = rows
        BY DEF TypeOK
      <4>4. CASE took
        BY <3>2, <4>1, <4>4
      <4>5. CASE ~took
        BY <3>2, <4>1, <4>2, <4>3, <4>5
      <4>6. QED BY <4>4, <4>5
    <3>3. QED BY <3>1, <3>2
  <2>2. CASE CommitUntold(w)
    BY <1>5, <2>1, <2>2 DEF Post, CommitUntold, Fault, Goto, TypeOK
  <2>3. CASE ~CommitUntold(w)
    BY <1>5, <2>1, <2>3 DEF Post, CommitUntold, Goto, TypeOK
  <2>4. QED BY <2>2, <2>3
<1>6. CASE Finish(w)
  <2>1. Goto(w, "purge") \/ Release(w)
    BY <1>6 DEF Finish
  <2>2. status' = status \/ SetStatus(job[w], "done")
    BY <1>6 DEF Finish
  <2>3. QED BY <1>6, <2>1, <2>2 DEF Finish, SetStatus, Goto, Release, TypeOK
<1>7. CASE Purge(w)
  BY <1>7 DEF Purge, Release, TypeOK, table
<1>8. CASE MarkError(w)
  <2>1. status' = status \/ SetStatus(job[w], "error")
    BY <1>8 DEF MarkError
  <2>2. QED BY <1>8, <2>1 DEF MarkError, SetStatus, Release, TypeOK
<1>9. CASE WorkerExit(w)
  BY <1>9 DEF WorkerExit, TypeOK, table
<1>10. QED
  BY <1>1, <1>2, <1>3, <1>4, <1>5, <1>6, <1>7, <1>8, <1>9 DEF WorkerStep

\* The budget of faults is never given back.
LEMMA FaultsRemain == TypeOK /\ [Next]_vars /\ faults' = 0 => faults = 0
<1> SUFFICES ASSUME TypeOK, [Next]_vars, faults' = 0 PROVE faults = 0
  OBVIOUS
<1>1. faults \in Nat
  BY PipelineAssumption DEF TypeOK
<1>2. \A kind : Fault(kind) => FALSE
  BY <1>1 DEF Fault
<1>3. ASSUME NEW w \in Workers, WorkerStep(w) PROVE faults' = faults
  BY <1>2, <1>3 DEF WorkerStep, Take, Load, MarkProcessing, Fetch, Post, CommitUntold, Finish,
     Purge, MarkError, WorkerExit, DbCall, CallFails
<1>4. ASSUME NEW r \in Replicas,
             (\E u \in Uploads : PutObject(u, r)) \/ HandlerStep(r)
      PROVE  faults' = faults
  BY <1>2, <1>4 DEF HandlerStep, PutObject, CreateUpload, EnqueueUpload
<1>5. ASSUME NEW r \in Replicas, ServerStep(r) \/ Shutdown(r) \/ Crash(r)
      PROVE  faults' = faults
  BY <1>2, <1>5 DEF ServerStep, PodStep, Start, RecoverPending, Requeue, Listen, Exit, Shutdown, Crash
<1>6. ASSUME NEW usr \in Users, ClearTransactions(usr) \/ DeleteUser(usr)
      PROVE  faults' = faults
  BY <1>6 DEF ClearTransactions, DeleteUser, DropUploads
<1>7. CASE UNCHANGED vars
  BY <1>7 DEF vars
<1> QED BY <1>3, <1>4, <1>5, <1>6, <1>7 DEF Next

LEMMA InitLoss == Init => LossInv
<1>1. SUFFICES ASSUME Init PROVE LossInv
  OBVIOUS
<1>2. TypeOK
  BY <1>1, InitType
<1>3. UnknownBeforeInsert
  BY <1>1 DEF Init, UnknownBeforeInsert, Queued, Busy, Calls
<1>4. QED
  BY <1>1, <1>2, <1>3 DEF Init, LossInv, StagedBeforeInsert, PostedBeforeFinish,
     UnstoredByFault, DoneIsBacked, NoStatementLost

LEMMA LossWorker ==
  ASSUME LossInv, NEW w \in Workers, WorkerStep(w), TypeOK'
  PROVE  LossInv'
<1> USE DEF LossInv
<1>a. StepShape(w)
  BY WorkerShape
<1>b. StepEffect(w)
  BY WorkerEffect
<1>c. \A x \in Uploads :
        /\ rows[x] \in Nat /\ rows'[x] \in Nat /\ rows'[x] >= rows[x]
        /\ status'[x] = "absent" <=> status[x] = "absent"
        /\ x \in unstored => x \in unstored'
  <2>1. ASSUME NEW x \in Uploads
        PROVE  rows[x] \in Nat /\ rows'[x] \in Nat /\ rows'[x] >= rows[x]
    <3>1. rows' = rows \/ rows' = [rows EXCEPT ![job[w]] = @ + 1]
      BY <1>b DEF StepEffect
    <3>2. rows \in [Uploads -> Nat] /\ rows' \in [Uploads -> Nat]
      BY DEF TypeOK
    <3>3. QED BY <3>1, <3>2
  <2>2. ASSUME NEW x \in Uploads
        PROVE  status'[x] = "absent" <=> status[x] = "absent"
    <3>1. CASE status' = status
      BY <3>1
    <3>2. CASE status' # status
      <4>1. PICK s \in {"processing", "error", "done"} :
              status' = [status EXCEPT ![job[w]] = IF @ = "absent" THEN @ ELSE s]
        BY <3>2, <1>b DEF StepEffect
      <4>2. s # "absent" /\ status \in [Uploads -> Statuses]
        BY <4>1 DEF TypeOK
      <4>3. QED BY <4>1, <4>2
    <3>3. QED BY <3>1, <3>2
  <2>3. unstored \subseteq unstored'
    BY <1>b DEF StepEffect
  <2>4. QED BY <2>1, <2>2, <2>3
<1>1. UnknownBeforeInsert'
  <2>1. SUFFICES ASSUME NEW u \in Uploads, req[u] \in {"unsent", "create"}
                 PROVE  /\ status'[u] = "absent"
                        /\ \A r \in Replicas : u \notin backlog[r] \cup Queued(r)'
                        /\ \A v \in Workers : Busy(v)' => job'[v] # u
    BY <1>a DEF StepShape, UnknownBeforeInsert
  <2>2. /\ status[u] = "absent"
        /\ \A r \in Replicas : u \notin backlog[r] \cup Queued(r)
        /\ \A v \in Workers : Busy(v) => job[v] # u
    BY <2>1 DEF UnknownBeforeInsert
  <2>3. status'[u] = "absent"
    BY <2>2, <1>b DEF StepEffect, TypeOK
  <2>4. CASE Take(w)
    <3>1. /\ Head(queue[Home[w]]) \in Queued(Home[w])
          /\ Elements(Tail(queue[Home[w]])) \subseteq Queued(Home[w])
          /\ Home[w] \in Replicas
      <4>1. /\ Home[w] \in Replicas
            /\ queue[Home[w]] \in Seq(Uploads)
            /\ queue[Home[w]] # <<>>
        BY <2>4, PipelineAssumption DEF Take, TypeOK
      <4>2. QED BY <4>1, ReceiveType DEF Elements, Queued
    <3>2. \A r \in Replicas : Queued(r)' \subseteq Queued(r)
      <4>1. \A r \in Replicas :
              queue'[r] = IF r = Home[w] THEN Tail(queue[r]) ELSE queue[r]
        BY <2>4 DEF Take, TypeOK
      <4>2. ASSUME NEW r \in Replicas PROVE Queued(r)' \subseteq Queued(r)
        <5>1. CASE r = Home[w]
          <6>1. Queued(r)' = Elements(Tail(queue[r]))
            <7>1. queue'[r] = Tail(queue[r])
              BY <4>1, <5>1
            <7>2. QED BY ONLY <7>1, Zenon DEF Elements, Queued
          <6>2. QED BY <3>1, <5>1, <6>1
        <5>2. CASE r # Home[w]
          BY <4>1, <5>2 DEF Queued
        <5>3. QED BY <5>1, <5>2
      <4>3. QED BY <4>2
    <3>3. job'[w] # u
      <4>1. job'[w] = Head(queue[Home[w]])
        BY <2>4 DEF Take, TypeOK
      <4>2. QED BY <2>2, <3>1, <4>1
    <3>4. QED BY <2>2, <2>3, <3>2, <3>3, <1>a DEF StepShape, Busy
  <2>5. CASE ~Take(w)
    BY <2>2, <2>3, <2>5, <1>a DEF StepShape, Busy, Queued
  <2>6. QED BY <2>4, <2>5
<1>2. StagedBeforeInsert'
  <2>1. pc[w] = "purge" => req[job[w]] # "create"
    BY DEF UnknownBeforeInsert, Busy, Calls, TypeOK
  <2>2. QED BY <2>1, <1>a, <1>b DEF StepShape, StepEffect, StagedBeforeInsert, TypeOK
<1>3. PostedBeforeFinish'
  <2>1. SUFFICES ASSUME NEW v \in Workers, pc'[v] \in {"finish", "purge"}
                 PROVE  rows'[job'[v]] > 0 \/ job'[v] \in unstored' \/ status'[job'[v]] = "absent"
    BY DEF PostedBeforeFinish
  <2>2. job'[v] \in Uploads
    BY <2>1 DEF TypeOK, Calls
  <2>3. CASE v # w
    <3>1. /\ job'[v] = job[v]
          /\ rows[job[v]] > 0 \/ job[v] \in unstored \/ status[job[v]] = "absent"
      BY <2>1, <2>3, <1>a DEF StepShape, PostedBeforeFinish
    <3>2. QED BY <2>2, <3>1, <1>c
  <2>4. CASE v = w
    <3>1. CASE pc[w] = "finish"
      BY <2>1, <2>2, <2>4, <3>1, <1>b, <1>c DEF StepEffect, PostedBeforeFinish
    <3>2. CASE pc[w] = "post" /\ rows' = [rows EXCEPT ![job[w]] = @ + 1]
      BY <2>1, <2>2, <2>4, <3>2, <1>b DEF StepEffect, TypeOK
    <3>3. CASE pc[w] = "post" /\ job[w] \in unstored'
      BY <2>1, <2>4, <3>3, <1>b DEF StepEffect
    <3>4. QED BY <2>1, <2>4, <3>1, <3>2, <3>3, <1>b DEF StepEffect
  <2>5. QED BY <2>3, <2>4
<1>4. DoneIsBacked'
  <2>1. SUFFICES ASSUME NEW u \in Uploads
                 PROVE  /\ status'[u] = "done" => rows'[u] > 0 \/ u \in unstored'
                        /\ status'[u] = "absent" => rows'[u] = 0
    BY DEF DoneIsBacked
  <2>2. /\ status[u] = "done" => rows[u] > 0 \/ u \in unstored
        /\ status[u] = "absent" => rows[u] = 0
        /\ rows[u] \in Nat
    BY DEF DoneIsBacked, TypeOK
  <2>3. pc[w] = "finish" =>
          rows[job[w]] > 0 \/ job[w] \in unstored \/ status[job[w]] = "absent"
    BY DEF PostedBeforeFinish
  <2>4. status'[u] = "done" => rows'[u] > 0 \/ u \in unstored'
    <3>1. SUFFICES ASSUME status'[u] = "done" PROVE rows[u] > 0 \/ u \in unstored
      BY <1>c
    <3>2. CASE status[u] = "done"
      BY <2>2, <3>2
    <3>3. CASE status[u] # "done"
      BY <2>3, <3>1, <3>3, <1>b, <1>c DEF StepEffect, TypeOK
    <3>4. QED BY <3>2, <3>3
  <2>5. status'[u] = "absent" => rows'[u] = 0
    BY <2>2, <1>b, <1>c DEF StepEffect, TypeOK
  <2>6. QED BY <2>4, <2>5
<1>5. NoStatementLost'
  <2>1. SUFFICES ASSUME NEW u \in Uploads, u \notin unstored', status'[u] # "absent"
                 PROVE  u \in objects' \/ rows'[u] > 0
    BY DEF NoStatementLost
  <2>2. status[u] # "absent" /\ rows[u] \in Nat /\ u \notin unstored
    BY <2>1, <1>c
  <2>3. u \in objects \/ rows[u] > 0
    BY <2>2 DEF NoStatementLost
  <2>4. pc[w] = "purge" =>
          rows[job[w]] > 0 \/ job[w] \in unstored \/ status[job[w]] = "absent"
    BY DEF PostedBeforeFinish
  <2>5. CASE u \in objects'
    BY <2>5
  <2>6. CASE u \in objects /\ u \notin objects'
    <3>1. pc[w] = "purge" /\ u = job[w]
      BY <2>6, <1>b DEF StepEffect
    <3>2. QED BY <2>2, <2>4, <3>1, <1>c
  <2>7. CASE rows[u] > 0
    BY <2>7, <1>c
  <2>8. QED BY <2>3, <2>5, <2>6, <2>7
<1>6. UnstoredByFault'
  <2>1. faults \in Nat
    BY PipelineAssumption DEF TypeOK
  <2>2. unstored' = {} \/ faults' # 0
    <3>1. CASE unstored' = unstored
      <4>1. faults' = 0 => faults = 0
        BY FaultsRemain DEF Next
      <4>2. QED BY <3>1, <4>1 DEF UnstoredByFault
    <3>2. CASE unstored' # unstored
      BY <2>1, <3>2, <1>b DEF StepEffect
    <3>3. QED BY <3>1, <3>2
  <2>3. ASSUME NEW u \in unstored' PROVE status'[u] # "absent"
    <3>1. u \in Uploads
      BY <2>3 DEF TypeOK
    <3>2. status[u] # "absent"
      BY <2>3, <1>b DEF StepEffect, UnstoredByFault
    <3>3. QED BY <3>1, <3>2, <1>c
  <2>4. QED BY <2>2, <2>3 DEF UnstoredByFault
<1>7. QED BY <1>1, <1>2, <1>3, <1>4, <1>5, <1>6

\* A step that drops none but removed uploads from the failed commits.
LEMMA UnstoredKept ==
  ASSUME TypeOK, UnstoredByFault, [Next]_vars, unstored' \subseteq unstored,
         \A u \in unstored' : status'[u] # "absent"
  PROVE  UnstoredByFault'
BY FaultsRemain DEF UnstoredByFault

LEMMA LossHandler ==
  ASSUME LossInv, NEW r \in Replicas, NEW u \in Uploads, TypeOK',
         PutObject(u, r) \/ CreateUpload(u, r) \/ EnqueueUpload(u, r)
  PROVE  LossInv'
<1> USE DEF LossInv
<1>0. UnstoredByFault'
  <2>1. Next
    BY DEF Next, HandlerStep
  <2>2. unstored' = unstored /\ (status' = status \/ status' = [status EXCEPT ![u] = "pending"])
    BY DEF PutObject, CreateUpload, InsertUpload, EnqueueUpload, table
  <2>3. \A x \in unstored' : status'[x] # "absent"
    BY <2>2 DEF UnstoredByFault, TypeOK
  <2>4. QED BY <2>1, <2>2, <2>3, UnstoredKept
<1>1. CASE PutObject(u, r)
  <2>1. /\ UNCHANGED <<table, process, worker>>
        /\ objects \subseteq objects'
        /\ req[u] = "unsent"
        /\ \/ req' = [req EXCEPT ![u] = "create"] /\ u \in objects'
           \/ req' = [req EXCEPT ![u] = "refused"]
    BY <1>1 DEF PutObject
  <2>2. UnknownBeforeInsert'
    BY <2>1 DEF UnknownBeforeInsert, Queued, Busy, TypeOK, table, process, worker
  <2>3. QED
    BY <1>0, <2>1, <2>2 DEF StagedBeforeInsert, PostedBeforeFinish, DoneIsBacked,
       NoStatementLost, TypeOK, table, worker
<1>2. CASE CreateUpload(u, r)
  <2>1. /\ UNCHANGED <<rows, unstored, objects, process, worker>>
        /\ req[u] = "create"
        /\ \E s \in {"enqueue", "refused"} : req' = [req EXCEPT ![u] = s]
        /\ status' = status \/ status' = [status EXCEPT ![u] = "pending"]
    BY <1>2 DEF CreateUpload, InsertUpload, Refuse
  <2>2. UnknownBeforeInsert'
    BY <2>1 DEF UnknownBeforeInsert, Queued, Busy, TypeOK, process, worker
  <2>3. /\ u \in objects
        /\ \A w \in Workers : Busy(w) => job[w] # u
    BY <2>1 DEF StagedBeforeInsert, UnknownBeforeInsert
  <2>4. PostedBeforeFinish'
    BY <2>1, <2>3 DEF PostedBeforeFinish, Busy, Calls, TypeOK, worker
  <2>5. DoneIsBacked' /\ NoStatementLost' /\ StagedBeforeInsert'
    BY <2>1, <2>3 DEF DoneIsBacked, NoStatementLost, StagedBeforeInsert, TypeOK
  <2>6. QED BY <1>0, <2>2, <2>4, <2>5
<1>3. CASE EnqueueUpload(u, r)
  <2>1. /\ UNCHANGED <<table, objects, backlog, worker>>
        /\ req[u] = "enqueue"
        /\ req' = [req EXCEPT ![u] = "accepted"]
        /\ queue' = [queue EXCEPT ![r] = Enqueue(@, u)]
    BY <1>3 DEF EnqueueUpload
  <2>2. \A s \in Replicas : Queued(s)' \subseteq Queued(s) \cup {u}
    <3>1. Elements(Enqueue(queue[r], u)) \subseteq Elements(queue[r]) \cup {u}
      BY EnqueueElements DEF TypeOK
    <3>2. \A s \in Replicas : queue'[s] = IF s = r THEN Enqueue(queue[r], u) ELSE queue[s]
      BY <2>1 DEF TypeOK
    <3>3. QED BY <3>1, <3>2 DEF Queued, Elements
  <2>3. UnknownBeforeInsert'
    BY <2>1, <2>2 DEF UnknownBeforeInsert, Busy, TypeOK, table, worker
  <2>4. QED
    BY <1>0, <2>1, <2>3 DEF StagedBeforeInsert, PostedBeforeFinish, DoneIsBacked,
       NoStatementLost, TypeOK, table, worker
<1>4. QED BY <1>1, <1>2, <1>3

\* What the end of a process leaves of its registers, requests and channel.
LEMMA HaltShape ==
  ASSUME TypeOK, NEW r \in Replicas, Halt(r)
  PROVE  /\ UNCHANGED <<status, keyed, createdAt, rows, unstored, accounts, objects>>
         /\ \A u \in Uploads : req'[u] = req[u] \/ req'[u] = "refused"
         /\ \A w \in Workers :
              IF Home[w] = r THEN pc'[w] = "idle"
                             ELSE pc'[w] = pc[w] /\ job'[w] = job[w]
         /\ \A s \in Replicas :
              IF s = r THEN queue'[s] = <<>> /\ backlog'[s] = {} /\ handlers'[s] = {}
                       ELSE /\ queue'[s] = queue[s]
                            /\ backlog'[s] = backlog[s]
                            /\ handlers'[s] = handlers[s]
                            /\ server'[s] = server[s]
         /\ server'[r] = "down"
BY DEF Halt, TypeOK, table

LEMMA LossHalt ==
  ASSUME LossInv, NEW r \in Replicas, Halt(r), [Next]_vars, TypeOK'
  PROVE  LossInv'
<1> USE DEF LossInv
<1>1. /\ UNCHANGED <<status, rows, unstored, objects>>
      /\ \A u \in Uploads : req'[u] = req[u] \/ req'[u] = "refused"
      /\ \A w \in Workers : pc'[w] \in Calls => pc'[w] = pc[w] /\ job'[w] = job[w]
      /\ \A s \in Replicas : backlog'[s] \subseteq backlog[s]
  BY HaltShape DEF Calls
<1>2. \A s \in Replicas : Queued(s)' \subseteq Queued(s)
  BY HaltShape DEF Queued
<1>3. UnknownBeforeInsert'
  BY <1>1, <1>2 DEF UnknownBeforeInsert, Busy
<1>4. PostedBeforeFinish'
  BY <1>1 DEF PostedBeforeFinish, Calls
<1>5. StagedBeforeInsert'
  BY <1>1 DEF StagedBeforeInsert
<1>6. DoneIsBacked' /\ NoStatementLost'
  BY <1>1 DEF DoneIsBacked, NoStatementLost
<1>7. UnstoredByFault'
  BY <1>1, UnstoredKept DEF UnstoredByFault
<1>8. QED BY <1>3, <1>4, <1>5, <1>6, <1>7

LEMMA LossServer ==
  ASSUME LossInv, NEW r \in Replicas, TypeOK',
         ServerStep(r) \/ Shutdown(r) \/ Crash(r)
  PROVE  LossInv'
<1> USE DEF LossInv
<1>0. Next
  BY DEF Next
<1>1. ASSUME UNCHANGED <<table, objects, worker, req>>,
             \A u \in Uploads : req[u] \in {"unsent", "create"} =>
               \A s \in Replicas : u \notin backlog'[s] \cup Queued(s)'
      PROVE  LossInv'
  <2>1. UnknownBeforeInsert'
    BY <1>1 DEF UnknownBeforeInsert, Busy, table, worker
  <2>2. UnstoredByFault'
    BY <1>0, <1>1, UnstoredKept DEF UnstoredByFault, table
  <2>3. QED
    BY <1>1, <2>1, <2>2 DEF StagedBeforeInsert, PostedBeforeFinish, DoneIsBacked,
       NoStatementLost, table, worker
<1>2. CASE Start(r) \/ Listen(r)
  BY <1>1, <1>2 DEF Start, Listen, UnknownBeforeInsert, Queued, request
<1>3. CASE RecoverPending(r)
  <2>1. \A s \in Replicas : backlog'[s] \subseteq backlog[s] \cup PendingUploadIDs
    BY <1>3 DEF RecoverPending, TypeOK
  <2>2. \A u \in PendingUploadIDs : req[u] \notin {"unsent", "create"}
    BY DEF PendingUploadIDs, Unfinished, UnknownBeforeInsert
  <2>3. UNCHANGED <<table, objects, queue, worker, req>>
    BY <1>3 DEF RecoverPending, request
  <2>4. QED BY <1>1, <2>1, <2>2, <2>3 DEF UnknownBeforeInsert, Queued
<1>4. CASE Requeue(r)
  <2>1. PICK u \in backlog[r] :
          /\ queue' = [queue EXCEPT ![r] = Enqueue(@, u)]
          /\ backlog' = [backlog EXCEPT ![r] = @ \ {u}]
    BY <1>4 DEF Requeue
  <2>2. u \in Uploads /\ req[u] \notin {"unsent", "create"}
    BY <2>1 DEF TypeOK, UnknownBeforeInsert
  <2>3. \A s \in Replicas : backlog'[s] \subseteq backlog[s]
    BY <2>1 DEF TypeOK
  <2>4. \A s \in Replicas : Queued(s)' \subseteq Queued(s) \cup {u}
    <3>1. Elements(Enqueue(queue[r], u)) \subseteq Elements(queue[r]) \cup {u}
      BY <2>2, EnqueueElements DEF TypeOK
    <3>2. \A s \in Replicas : queue'[s] = IF s = r THEN Enqueue(queue[r], u) ELSE queue[s]
      BY <2>1 DEF TypeOK
    <3>3. QED BY <3>1, <3>2 DEF Queued, Elements
  <2>5. UNCHANGED <<table, objects, worker, req>>
    BY <1>4 DEF Requeue, request
  <2>6. QED BY <1>1, <2>2, <2>3, <2>4, <2>5 DEF UnknownBeforeInsert
<1>5. CASE Shutdown(r)
  <2>1. \A s \in Replicas : backlog'[s] \subseteq backlog[s]
    BY <1>5 DEF Shutdown, TypeOK
  <2>2. UNCHANGED <<table, objects, queue, worker, req>>
    BY <1>5 DEF Shutdown, request
  <2>3. QED BY <1>1, <2>1, <2>2 DEF UnknownBeforeInsert, Queued
<1>6. CASE Exit(r) \/ Crash(r)
  BY <1>0, <1>6, LossHalt DEF Exit, Crash
<1>7. QED BY <1>2, <1>3, <1>4, <1>5, <1>6 DEF ServerStep, PodStep

LEMMA LossOwner ==
  ASSUME LossInv, NEW usr \in Users, TypeOK',
         ClearTransactions(usr) \/ DeleteUser(usr)
  PROVE  LossInv'
<1> USE DEF LossInv
<1>1. DropUploads(usr)
  BY DEF ClearTransactions, DeleteUser
<1>2. /\ UNCHANGED <<objects, process, worker, req>>
      /\ \A u \in Uploads :
           \/ /\ status'[u] = status[u] /\ rows'[u] = rows[u]
              /\ u \in unstored' <=> u \in unstored
           \/ /\ status'[u] = "absent" /\ rows'[u] = 0
              /\ u \notin unstored'
  BY <1>1 DEF DropUploads, request, TypeOK
<1>3. UnknownBeforeInsert'
  BY <1>2 DEF UnknownBeforeInsert, Queued, Busy, process, worker
<1>4. PostedBeforeFinish'
  BY <1>2 DEF PostedBeforeFinish, Calls, worker, TypeOK
<1>5. DoneIsBacked' /\ NoStatementLost' /\ StagedBeforeInsert'
  BY <1>2 DEF DoneIsBacked, NoStatementLost, StagedBeforeInsert
<1>6. UnstoredByFault'
  <2>1. Next
    BY DEF Next
  <2>2. unstored' \subseteq Uploads
    BY DEF TypeOK
  <2>3. unstored' \subseteq unstored /\ \A u \in unstored' : status'[u] # "absent"
    BY <1>2, <2>2 DEF UnstoredByFault
  <2>4. QED BY <2>1, <2>3, UnstoredKept
<1>7. QED BY <1>3, <1>4, <1>5, <1>6

LEMMA LossStutter == LossInv /\ UNCHANGED vars => LossInv'
BY StutterType DEF LossInv, UnknownBeforeInsert, StagedBeforeInsert, PostedBeforeFinish,
   UnstoredByFault, DoneIsBacked, NoStatementLost, Queued, Busy, vars, table, process, worker, request

LEMMA NextLoss == LossInv /\ [Next]_vars => LossInv'
<1>1. SUFFICES ASSUME LossInv, Next PROVE LossInv'
  BY LossStutter
<1>2. TypeOK'
  BY <1>1, NextType DEF LossInv
<1>3. CASE \E r \in Replicas, u \in Uploads :
             PutObject(u, r) \/ CreateUpload(u, r) \/ EnqueueUpload(u, r)
  BY <1>1, <1>2, <1>3, LossHandler
<1>4. CASE \E r \in Replicas : ServerStep(r) \/ Shutdown(r) \/ Crash(r)
  BY <1>1, <1>2, <1>4, LossServer
<1>5. CASE \E w \in Workers : WorkerStep(w)
  BY <1>1, <1>2, <1>5, LossWorker
<1>6. CASE \E usr \in Users : ClearTransactions(usr) \/ DeleteUser(usr)
  BY <1>1, <1>2, <1>6, LossOwner
<1>7. QED BY <1>1, <1>3, <1>4, <1>5, <1>6 DEF Next, HandlerStep

\* Whatever crashes, fails or is retried, in a fleet of any size, a registered
\* statement still has its staged file or its transactions: the worker purges
\* only what it has extracted (Queue.process, worker.go:123-129).  The uploads
\* of which a batch failed to commit untold (store.go:288) are excepted.
THEOREM StatementsAreNotLost == Spec => []NoStatementLost
<1>1. LossInv => NoStatementLost
  BY DEF LossInv
<1>2. QED BY <1>1, InitLoss, NextLoss, PTL DEF Spec

\* "done" is reported only over stored transactions, and a removed upload
\* leaves none, in a fleet of any size (MarkUploadDone after
\* InsertTransactions; ON DELETE CASCADE and the foreign key on upload_id), with
\* the same exception.
THEOREM CompletionIsBacked == Spec => []DoneIsBacked
<1>1. LossInv => DoneIsBacked
  BY DEF LossInv
<1>2. QED BY <1>1, InitLoss, NextLoss, PTL DEF Spec

----------------------------------------------------------------------------
(* Within one process an upload is in one place at most.                   *)

LEMMA InitProcess == Init => ProcessInv
BY DEF Init, ProcessInv, QuietStart, HandlerEnqueuesFirst, OncePerProcess, Queued,
   Busy, Calls

\* ProcessInv only speaks of what is queued, waiting or being worked on: it is
\* kept when all of that can only shrink.
LEMMA ProcessShrinks ==
  ASSUME ProcessInv,
         UNCHANGED <<server, backlog, queue, handlers, req>>,
         \A v \in Workers : Busy(v)' => Busy(v) /\ job'[v] = job[v]
  PROVE  ProcessInv'
<1>1. \A r \in Replicas : Queued(r)' = Queued(r)
  BY DEF Queued
<1>2. QuietStart'
  BY DEF ProcessInv, QuietStart
<1>3. HandlerEnqueuesFirst'
  BY <1>1 DEF ProcessInv, HandlerEnqueuesFirst
<1>4. OncePerProcess'
  BY <1>1 DEF ProcessInv, OncePerProcess
<1>5. QED BY <1>2, <1>3, <1>4 DEF ProcessInv

LEMMA ProcessTake ==
  ASSUME TypeOK, ProcessInv, NEW w \in Workers, Take(w)
  PROVE  ProcessInv'
<1> DEFINE h == Home[w]
           u == Head(queue[h])
<1>1. /\ h \in Replicas
      /\ queue[h] \in Seq(Uploads)
      /\ queue[h] # <<>>
      /\ UNCHANGED <<server, backlog, handlers, req>>
  BY PipelineAssumption DEF Take, TypeOK, request
<1>2. \A r \in Replicas : queue'[r] = IF r = h THEN Tail(queue[h]) ELSE queue[r]
  BY <1>1 DEF Take, TypeOK
<1>3. \A v \in Workers :
        IF v = w THEN pc'[v] = "load" /\ job'[v] = u
                 ELSE pc'[v] = pc[v] /\ job'[v] = job[v]
  BY DEF Take, TypeOK
<1>4. /\ u \in Queued(h)
      /\ Elements(Tail(queue[h])) \subseteq Queued(h)
      /\ NoDuplicates(queue[h])
      /\ NoDuplicates(Tail(queue[h]))
      /\ u \notin Elements(Tail(queue[h]))
  <2>1. NoDuplicates(queue[h])
    BY <1>1 DEF ProcessInv, OncePerProcess, NoDuplicates
  <2>2. Queued(h) = Elements(queue[h])
    BY DEF Queued, Elements
  <2>3. QED BY <1>1, <2>1, <2>2, ReceiveType
<1>5. \A r \in Replicas :
        /\ Queued(r)' \subseteq Queued(r)
        /\ r = h => u \notin Queued(r)'
  <2>1. Queued(h)' = Elements(Tail(queue[h]))
    BY <1>1, <1>2 DEF Queued, Elements
  <2>2. \A r \in Replicas : r # h => Queued(r)' = Queued(r)
    BY <1>2 DEF Queued
  <2>3. QED BY <1>4, <2>1, <2>2
<1>6. QuietStart'
  <2>1. server[h] \notin {"down", "starting"}
    BY <1>1 DEF ProcessInv, QuietStart
  <2>2. QED BY <1>1, <1>2, <1>3, <2>1 DEF ProcessInv, QuietStart, Busy
<1>7. HandlerEnqueuesFirst'
  BY <1>1, <1>3, <1>4, <1>5 DEF ProcessInv, HandlerEnqueuesFirst, Busy
<1>8. OncePerProcess'
  <2>1. SUFFICES ASSUME NEW r \in Replicas
                 PROVE  /\ NoDuplicates(queue'[r])
                        /\ backlog[r] \cap Queued(r)' = {}
                        /\ \A v \in Workers : Home[v] = r /\ Busy(v)' =>
                             /\ job'[v] \notin backlog[r] \cup Queued(r)'
                             /\ \A x \in Workers :
                                  Home[x] = r /\ Busy(x)' /\ job'[x] = job'[v] => x = v
    BY <1>1 DEF OncePerProcess, NoDuplicates
  <2>2. /\ NoDuplicates(queue[r])
        /\ backlog[r] \cap Queued(r) = {}
        /\ \A v \in Workers : Home[v] = r /\ Busy(v) =>
             /\ job[v] \notin backlog[r] \cup Queued(r)
             /\ \A x \in Workers : Home[x] = r /\ Busy(x) /\ job[x] = job[v] => x = v
    BY DEF ProcessInv, OncePerProcess, NoDuplicates
  <2>3. NoDuplicates(queue'[r])
    BY <1>2, <1>4, <2>2
  <2>4. backlog[r] \cap Queued(r)' = {}
    BY <1>5, <2>2
  <2>5. ASSUME NEW v \in Workers, Home[v] = r, Busy(v)'
        PROVE  /\ job'[v] \notin backlog[r] \cup Queued(r)'
               /\ \A x \in Workers :
                    Home[x] = r /\ Busy(x)' /\ job'[x] = job'[v] => x = v
    <3>1. \A x \in Workers : x # w /\ Home[x] = r /\ Busy(x)' =>
            Busy(x) /\ job'[x] = job[x]
      BY <1>3 DEF Busy
    <3>2. Home[w] = r => u \in Queued(r) /\ u \notin backlog[r] \cup Queued(r)'
      BY <1>4, <1>5, <2>2
    <3>3. CASE v = w
      BY <1>3, <2>2, <2>5, <3>1, <3>2, <3>3
    <3>4. CASE v # w
      BY <1>3, <1>5, <2>2, <2>5, <3>1, <3>2, <3>4
    <3>5. QED BY <3>3, <3>4
  <2>6. QED BY <2>3, <2>4, <2>5
<1>9. QED BY <1>6, <1>7, <1>8 DEF ProcessInv

\* An upload that is nowhere in a process is enqueued there.
EnqueuesNew(r, u) ==
  /\ queue' = [queue EXCEPT ![r] = Enqueue(@, u)]
  /\ UNCHANGED <<server, worker>>
  /\ \A s \in Replicas :
       backlog'[s] \subseteq backlog[s] /\ handlers'[s] \subseteq handlers[s]
  /\ \A x \in Uploads : req'[x] = "enqueue" => req[x] = "enqueue"
  /\ u \notin backlog'[r] \cup Queued(r)
  /\ u \in handlers'[r] => req'[u] # "enqueue"
  /\ \A w \in Workers : Home[w] = r /\ Busy(w) => job[w] # u
  /\ server[r] \notin {"down", "starting"}

\* Then it is in one place: createUpload does so with its new row, and Start
\* with its backlog.
LEMMA ProcessEnqueue ==
  ASSUME TypeOK, ProcessInv, NEW r \in Replicas, NEW u \in Uploads, EnqueuesNew(r, u)
  PROVE  ProcessInv'
<1> USE DEF EnqueuesNew
<1>1. \A s \in Replicas : queue'[s] = IF s = r THEN Enqueue(queue[r], u) ELSE queue[s]
  BY DEF TypeOK
<1>2. /\ queue[r] \in Seq(Uploads)
      /\ NoDuplicates(queue[r])
      /\ Queued(r) = Elements(queue[r])
  BY DEF TypeOK, ProcessInv, OncePerProcess, NoDuplicates, Queued, Elements
<1>3. /\ Elements(Enqueue(queue[r], u)) \subseteq Queued(r) \cup {u}
      /\ NoDuplicates(Enqueue(queue[r], u))
  BY <1>2, EnqueueElements
<1>4. \A s \in Replicas :
        /\ s = r => Queued(s)' \subseteq Queued(s) \cup {u}
        /\ s # r => Queued(s)' = Queued(s)
  <2>1. Queued(r)' = Elements(Enqueue(queue[r], u))
    BY <1>1 DEF Queued, Elements
  <2>2. \A s \in Replicas : s # r => Queued(s)' = Queued(s)
    BY <1>1 DEF Queued
  <2>3. QED BY <1>3, <2>1, <2>2
<1>5. \A w \in Workers : (Busy(w)' <=> Busy(w)) /\ job'[w] = job[w]
  BY DEF Busy, worker
<1>6. QuietStart'
  BY <1>1, <1>5 DEF ProcessInv, QuietStart
<1>7. HandlerEnqueuesFirst'
  <2>1. SUFFICES ASSUME NEW s \in Replicas, NEW x \in handlers'[s], req'[x] = "enqueue"
                 PROVE  /\ x \notin backlog'[s] \cup Queued(s)'
                        /\ \A w \in Workers : Home[w] = s /\ Busy(w)' => job'[w] # x
    BY DEF HandlerEnqueuesFirst
  <2>2. x \in handlers[s] /\ req[x] = "enqueue" /\ (s = r => x # u)
    <3>1. x \in handlers[s] /\ handlers[s] \subseteq Uploads
      BY <2>1 DEF TypeOK
    <3>2. QED BY <2>1, <3>1
  <2>3. /\ x \notin backlog[s] \cup Queued(s)
        /\ \A w \in Workers : Home[w] = s /\ Busy(w) => job[w] # x
    BY <2>2 DEF ProcessInv, HandlerEnqueuesFirst
  <2>4. QED BY <1>4, <1>5, <2>2, <2>3
<1>8. OncePerProcess'
  <2>1. ASSUME NEW s \in Replicas PROVE NoDuplicates(queue'[s])
    BY <1>1, <1>3 DEF ProcessInv, OncePerProcess, NoDuplicates
  <2>2. ASSUME NEW s \in Replicas PROVE backlog'[s] \cap Queued(s)' = {}
    BY <1>4 DEF ProcessInv, OncePerProcess
  <2>3. ASSUME NEW w \in Workers, Busy(w)'
        PROVE  job'[w] \notin backlog'[Home[w]] \cup Queued(Home[w])'
    <3>1. Home[w] \in Replicas
      BY PipelineAssumption
    <3>2. job[w] \notin backlog[Home[w]] \cup Queued(Home[w])
      BY <1>5, <2>3, <3>1 DEF ProcessInv, OncePerProcess
    <3>3. QED BY <1>4, <1>5, <2>3, <3>1, <3>2
  <2>4. ASSUME NEW w \in Workers, NEW v \in Workers, Busy(w)', Busy(v)',
               Home[v] = Home[w], job'[v] = job'[w]
        PROVE  v = w
    <3>1. Home[w] \in Replicas
      BY PipelineAssumption
    <3>2. QED BY <1>5, <2>4, <3>1 DEF ProcessInv, OncePerProcess
  <2>5. QED BY <2>1, <2>2, <2>3, <2>4 DEF OncePerProcess, NoDuplicates
<1>9. QED BY <1>6, <1>7, <1>8 DEF ProcessInv

LEMMA ProcessHandler ==
  ASSUME LossInv, ProcessInv, NEW r \in Replicas, NEW u \in Uploads,
         PutObject(u, r) \/ CreateUpload(u, r) \/ EnqueueUpload(u, r)
  PROVE  ProcessInv'
<1>0. TypeOK
  BY DEF LossInv
<1>1. ASSUME UNCHANGED <<process, worker>>,
             \A s \in Replicas :
               server[s] # "serving" => handlers'[s] \subseteq handlers[s],
             \A s \in Replicas : \A x \in handlers'[s] :
               req'[x] = "enqueue" /\ req[x] # "create" =>
                 x \in handlers[s] /\ req[x] = "enqueue"
      PROVE  ProcessInv'
  <2>1. QuietStart'
    BY <1>1 DEF ProcessInv, QuietStart, Busy, process, worker
  <2>2. HandlerEnqueuesFirst'
    <3>1. SUFFICES ASSUME NEW s \in Replicas, NEW x \in handlers'[s], x \in Uploads,
                          req'[x] = "enqueue"
                   PROVE  /\ x \notin backlog[s] \cup Queued(s)
                          /\ \A w \in Workers : Home[w] = s /\ Busy(w) => job[w] # x
      <4>1. \A s \in Replicas : handlers'[s] \subseteq Uploads
        BY <1>0, HandlerType DEF TypeOK
      <4>2. QED BY <1>1, <4>1 DEF HandlerEnqueuesFirst, Queued, Busy, process, worker
    <3>2. CASE x \in handlers[s] /\ req[x] = "enqueue"
      BY <3>2 DEF ProcessInv, HandlerEnqueuesFirst
    <3>3. CASE req[x] = "create"
      BY <3>1, <3>3 DEF LossInv, UnknownBeforeInsert
    <3>4. QED BY <1>1, <3>1, <3>2, <3>3
  <2>3. OncePerProcess'
    BY <1>1 DEF ProcessInv, OncePerProcess, Queued, Busy, process, worker
  <2>4. QED BY <2>1, <2>2, <2>3 DEF ProcessInv
<1>2. CASE PutObject(u, r)
  <2>1. UNCHANGED <<process, worker>> /\ server[r] = "serving"
    BY <1>2 DEF PutObject, Serving
  <2>2. \A s \in Replicas : s # r => handlers'[s] = handlers[s]
    BY <1>0, <1>2 DEF PutObject, TypeOK
  <2>3. handlers'[r] \subseteq handlers[r] \cup {u}
    BY <1>0, <1>2 DEF PutObject, TypeOK
  <2>4. req'[u] # "enqueue" /\ \A x \in Uploads \ {u} : req'[x] = req[x]
    BY <1>0, <1>2 DEF PutObject, TypeOK
  <2>5. \A s \in Replicas : handlers'[s] \subseteq Uploads
    BY <1>0, <1>2, HandlerType DEF TypeOK
  <2>6. \A s \in Replicas :
          server[s] # "serving" => handlers'[s] \subseteq handlers[s]
    BY <2>1, <2>2
  <2>7. \A s \in Replicas : \A x \in handlers'[s] :
          req'[x] = "enqueue" /\ req[x] # "create" =>
            x \in handlers[s] /\ req[x] = "enqueue"
    BY <2>2, <2>3, <2>4, <2>5
  <2>8. QED BY <1>1, <2>1, <2>6, <2>7
<1>3. CASE CreateUpload(u, r)
  <2>1. UNCHANGED <<process, worker>> /\ req[u] = "create"
    BY <1>3 DEF CreateUpload
  <2>2. \A s \in Replicas : handlers'[s] \subseteq handlers[s]
    BY <1>0, <1>3 DEF CreateUpload, Refuse, TypeOK
  <2>3. \A x \in Uploads \ {u} : req'[x] = req[x]
    BY <1>0, <1>3 DEF CreateUpload, Refuse, TypeOK
  <2>4. \A s \in Replicas : handlers[s] \subseteq Uploads
    BY <1>0 DEF TypeOK
  <2>5. \A s \in Replicas : \A x \in handlers'[s] :
          req'[x] = "enqueue" /\ req[x] # "create" =>
            x \in handlers[s] /\ req[x] = "enqueue"
    BY <2>1, <2>2, <2>3, <2>4
  <2>6. QED BY <1>1, <2>1, <2>2, <2>5
<1>4. CASE EnqueueUpload(u, r)
  <2>1. /\ u \in handlers[r]
        /\ req[u] = "enqueue"
        /\ req' = [req EXCEPT ![u] = "accepted"]
        /\ handlers' = [handlers EXCEPT ![r] = @ \ {u}]
        /\ queue' = [queue EXCEPT ![r] = Enqueue(@, u)]
        /\ UNCHANGED <<server, backlog, worker>>
    BY <1>4 DEF EnqueueUpload
  <2>2. \A s \in Replicas : handlers'[s] \subseteq handlers[s]
    BY <1>0, <2>1 DEF TypeOK
  <2>3. \A x \in Uploads : req'[x] = "enqueue" => x # u /\ req[x] = "enqueue"
    BY <1>0, <2>1 DEF TypeOK
  <2>4. server[r] \notin {"down", "starting"}
    BY <2>1 DEF ProcessInv, QuietStart
  <2>5. /\ u \notin backlog[r] \cup Queued(r)
        /\ \A w \in Workers : Home[w] = r /\ Busy(w) => job[w] # u
    BY <2>1 DEF ProcessInv, HandlerEnqueuesFirst
  <2>6. EnqueuesNew(r, u)
    BY <2>1, <2>2, <2>3, <2>4, <2>5 DEF EnqueuesNew
  <2>7. QED BY <1>0, <2>6, ProcessEnqueue
<1>5. QED BY <1>2, <1>3, <1>4

LEMMA ProcessHalt ==
  ASSUME TypeOK, ProcessInv, NEW r \in Replicas, Halt(r)
  PROVE  ProcessInv'
<1>1. /\ \A s \in Replicas \ {r} : /\ server'[s] = server[s]
                                   /\ queue'[s] = queue[s]
                                   /\ backlog'[s] = backlog[s]
                                   /\ handlers'[s] = handlers[s]
      /\ server'[r] = "down" /\ queue'[r] = <<>> /\ backlog'[r] = {} /\ handlers'[r] = {}
      /\ \A w \in Workers : Home[w] = r => pc'[w] = "idle"
      /\ \A w \in Workers : Home[w] # r => pc'[w] = pc[w] /\ job'[w] = job[w]
      /\ \A u \in Uploads : req'[u] = "enqueue" => req[u] = "enqueue"
  BY HaltShape
<1>2. /\ \A s \in Replicas \ {r} : Queued(s)' = Queued(s)
      /\ Queued(r)' = {}
  BY <1>1 DEF Queued
<1>3. \A w \in Workers : /\ Home[w] = r => ~Busy(w)'
                         /\ Home[w] # r => (Busy(w)' <=> Busy(w)) /\ job'[w] = job[w]
  BY <1>1 DEF Busy, Calls
<1>4. QuietStart'
  BY <1>1, <1>3 DEF ProcessInv, QuietStart
<1>5. HandlerEnqueuesFirst'
  <2>1. SUFFICES ASSUME NEW s \in Replicas, NEW x \in handlers'[s], req'[x] = "enqueue"
                 PROVE  /\ x \notin backlog'[s] \cup Queued(s)'
                        /\ \A w \in Workers : Home[w] = s /\ Busy(w)' => job'[w] # x
    BY DEF HandlerEnqueuesFirst
  <2>2. s # r /\ x \in handlers[s]
    BY <1>1, <2>1
  <2>3. req[x] = "enqueue"
    BY <1>1, <2>1, <2>2 DEF TypeOK
  <2>4. QED BY <1>1, <1>2, <1>3, <2>2, <2>3 DEF ProcessInv, HandlerEnqueuesFirst
<1>6. OncePerProcess'
  <2>1. ASSUME NEW s \in Replicas
        PROVE  /\ NoDuplicates(queue'[s])
               /\ backlog'[s] \cap Queued(s)' = {}
    BY <1>1, <1>2 DEF ProcessInv, OncePerProcess, NoDuplicates
  <2>2. ASSUME NEW w \in Workers, Busy(w)'
        PROVE  job'[w] \notin backlog'[Home[w]] \cup Queued(Home[w])'
    <3>1. Home[w] \in Replicas \ {r} /\ Busy(w) /\ job'[w] = job[w]
      BY <1>3, <2>2, PipelineAssumption
    <3>2. QED BY <1>1, <1>2, <3>1 DEF ProcessInv, OncePerProcess
  <2>3. ASSUME NEW w \in Workers, NEW v \in Workers, Busy(w)', Busy(v)',
               Home[v] = Home[w], job'[v] = job'[w]
        PROVE  v = w
    <3>1. /\ Home[w] \in Replicas \ {r}
          /\ Busy(w) /\ job'[w] = job[w]
          /\ Busy(v) /\ job'[v] = job[v]
      BY <1>3, <2>3, PipelineAssumption
    <3>2. QED BY <2>3, <3>1 DEF ProcessInv, OncePerProcess
  <2>4. QED BY <2>1, <2>2, <2>3 DEF OncePerProcess, NoDuplicates
<1>7. QED BY <1>4, <1>5, <1>6 DEF ProcessInv

LEMMA ProcessServer ==
  ASSUME TypeOK, ProcessInv, NEW r \in Replicas,
         ServerStep(r) \/ Shutdown(r) \/ Crash(r)
  PROVE  ProcessInv'
<1>1. ASSUME UNCHANGED <<queue, worker, request>>,
             \A s \in Replicas \ {r} : server'[s] = server[s] /\ backlog'[s] = backlog[s],
             server'[r] \in {"down", "starting"} => server[r] = "down",
             server'[r] \in {"starting", "recovering"} =>
               server[r] \in {"down", "starting", "recovering"},
             backlog'[r] # {} => server'[r] = "recovering" /\ server[r] = "starting"
      PROVE  ProcessInv'
  <2>1. /\ \A s \in Replicas : Queued(s)' = Queued(s)
        /\ \A w \in Workers : (Busy(w)' <=> Busy(w)) /\ job'[w] = job[w]
        /\ handlers' = handlers /\ req' = req
    BY <1>1 DEF Queued, Busy, worker, request
  <2>2. \A s \in Replicas : backlog'[s] = backlog[s] \/ backlog'[s] = {}
          \/ /\ s = r
             /\ server[r] = "starting"
    BY <1>1
  <2>3. server[r] = "starting" =>
          /\ Queued(r) = {}
          /\ handlers[r] = {}
          /\ \A w \in Workers : Home[w] = r => ~Busy(w)
    BY DEF ProcessInv, QuietStart, Queued
  <2>4. QuietStart'
    BY <1>1, <2>1 DEF ProcessInv, QuietStart
  <2>5. HandlerEnqueuesFirst'
    BY <2>1, <2>2, <2>3 DEF ProcessInv, HandlerEnqueuesFirst
  <2>6. OncePerProcess'
    BY <1>1, <2>1, <2>2, <2>3 DEF ProcessInv, OncePerProcess
  <2>7. QED BY <2>4, <2>5, <2>6 DEF ProcessInv
<1>2. CASE Start(r)
  <2>1. backlog[r] = {}
    BY <1>2 DEF Start, ProcessInv, QuietStart
  <2>2. QED BY <1>1, <1>2, <2>1 DEF Start, TypeOK
<1>3. CASE RecoverPending(r)
  <2>1. backlog[r] = {}
    BY <1>3 DEF RecoverPending, ProcessInv, QuietStart
  <2>2. QED BY <1>1, <1>3, <2>1 DEF RecoverPending, TypeOK
<1>4. CASE Listen(r)
  BY <1>1, <1>4 DEF Listen, TypeOK
<1>5. CASE Shutdown(r)
  BY <1>1, <1>5 DEF Shutdown, TypeOK
<1>6. CASE Requeue(r)
  <2>1. PICK u \in backlog[r] :
          /\ queue' = [queue EXCEPT ![r] = Enqueue(@, u)]
          /\ backlog' = [backlog EXCEPT ![r] = @ \ {u}]
    BY <1>6 DEF Requeue
  <2>2. /\ server[r] = "recovering"
        /\ UNCHANGED <<server, worker, req, handlers>>
        /\ u \in Uploads
    BY <1>6, <2>1 DEF Requeue, request, TypeOK
  <2>3. handlers[r] = {}
    BY <2>2 DEF ProcessInv, QuietStart
  <2>4. /\ u \notin Queued(r)
        /\ \A w \in Workers : Home[w] = r /\ Busy(w) => job[w] # u
    BY <2>1 DEF ProcessInv, OncePerProcess
  <2>5. /\ u \notin backlog'[r]
        /\ \A s \in Replicas : backlog'[s] \subseteq backlog[s]
    BY <2>1 DEF TypeOK
  <2>6. EnqueuesNew(r, u)
    BY <2>1, <2>2, <2>3, <2>4, <2>5 DEF EnqueuesNew
  <2>7. QED BY <2>2, <2>6, ProcessEnqueue
<1>7. CASE Exit(r) \/ Crash(r)
  BY <1>7, ProcessHalt DEF Exit, Crash
<1>8. QED BY <1>2, <1>3, <1>4, <1>5, <1>6, <1>7 DEF ServerStep, PodStep

LEMMA ProcessWorker ==
  ASSUME TypeOK, ProcessInv, NEW w \in Workers, WorkerStep(w)
  PROVE  ProcessInv'
<1>1. StepShape(w)
  BY WorkerShape
<1>2. CASE Take(w)
  BY <1>2, ProcessTake
<1>3. CASE ~Take(w)
  <2>1. UNCHANGED <<server, backlog, queue, handlers, req>>
    BY <1>1, <1>3 DEF StepShape
  <2>2. \A v \in Workers : Busy(v)' => Busy(v) /\ job'[v] = job[v]
    BY <1>1, <1>3 DEF StepShape, Busy
  <2>3. QED BY <2>1, <2>2, ProcessShrinks
<1>4. QED BY <1>2, <1>3

\* Neither a removal of uploads nor a stuttering step reaches a process.
LEMMA ProcessUntouched ==
  ProcessInv /\ UNCHANGED <<process, worker, request>> => ProcessInv'
<1>1. SUFFICES ASSUME ProcessInv, UNCHANGED <<process, worker, request>>
               PROVE  ProcessInv'
  OBVIOUS
<1>2. UNCHANGED <<server, backlog, queue, handlers, req>>
  BY <1>1 DEF process, request
<1>3. \A v \in Workers : Busy(v)' => Busy(v) /\ job'[v] = job[v]
  BY <1>1 DEF worker, Busy
<1>4. QED BY <1>1, <1>2, <1>3, ProcessShrinks

LEMMA NextProcess == PipelineInv /\ [Next]_vars => ProcessInv'
<1>1. SUFFICES ASSUME LossInv, ProcessInv, TypeOK, [Next]_vars PROVE ProcessInv'
  BY DEF PipelineInv, LossInv
<1>2. CASE \E r \in Replicas, u \in Uploads :
             PutObject(u, r) \/ CreateUpload(u, r) \/ EnqueueUpload(u, r)
  BY <1>1, <1>2, ProcessHandler
<1>3. CASE \E r \in Replicas : ServerStep(r) \/ Shutdown(r) \/ Crash(r)
  BY <1>1, <1>3, ProcessServer
<1>4. CASE \E w \in Workers : WorkerStep(w)
  BY <1>1, <1>4, ProcessWorker
<1>5. CASE \E usr \in Users : ClearTransactions(usr) \/ DeleteUser(usr)
  <2>1. UNCHANGED <<process, worker, request>>
    BY <1>5 DEF ClearTransactions, DeleteUser, DropUploads
  <2>2. QED BY <1>1, <2>1, ProcessUntouched
<1>6. CASE UNCHANGED vars
  <2>1. UNCHANGED <<process, worker, request>>
    BY <1>6 DEF vars
  <2>2. QED BY <1>1, <2>1, ProcessUntouched
<1>7. QED BY <1>1, <1>2, <1>3, <1>4, <1>5, <1>6 DEF Next, HandlerStep

\* The invariant the safety theorems rest on is inductive.
THEOREM PipelineInvariant == Spec => []PipelineInv
<1>1. Init => PipelineInv
  BY InitLoss, InitProcess DEF PipelineInv
<1>2. PipelineInv /\ [Next]_vars => PipelineInv'
  BY NextLoss, NextProcess DEF PipelineInv
<1>3. QED BY <1>1, <1>2, PTL DEF Spec

\* Within one process an upload is never queued twice nor handed to two
\* workers, however many pods there are and whatever fails: main runs
\* Queue.Start, which re-enqueues, before the HTTP server, which enqueues.
THEOREM NoDoubleDispatch == Spec => []OncePerProcess
<1>1. PipelineInv => OncePerProcess
  BY DEF PipelineInv, ProcessInv
<1>2. QED BY <1>1, PipelineInvariant, PTL

----------------------------------------------------------------------------
(* Files are removed when nothing fails.                                   *)

\* A call to the database succeeds unless something fails or the pod stops.
LEMMA CallSucceeds ==
  ASSUME TypeOK, NEW w \in Workers, NEW took \in BOOLEAN, NEW ok \in BOOLEAN,
         DbCall(w, took, ok), faults' = 0, ~Stopping(w)
  PROVE  took /\ ok
<1>1. faults \in Nat
  BY PipelineAssumption DEF TypeOK
<1>2. QED BY <1>1 DEF DbCall, CallFails, Fault

\* A worker reads its file under the key it loaded, and keeps that key to purge.
LEMMA KeyWorker ==
  ASSUME TypeOK, NEW w \in Workers, WorkerStep(w),
         \A v \in Workers : pc[v] \in {"post", "finish", "purge"} => v \in key
  PROVE  \A v \in Workers : pc'[v] \in {"post", "finish", "purge"} => v \in key'
<1> SUFFICES ASSUME NEW v \in Workers, pc'[v] \in {"post", "finish", "purge"}
             PROVE  v \in key'
  OBVIOUS
<1>1. CASE Take(w)
  BY <1>1 DEF Take, TypeOK
<1>2. CASE Load(w)
  BY <1>2 DEF Load, Goto, Release, TypeOK
<1>3. CASE MarkProcessing(w)
  BY <1>3 DEF MarkProcessing, Goto, Release, TypeOK
<1>4. CASE Fetch(w)
  BY <1>4 DEF Fetch, Goto, TypeOK
<1>5. CASE Post(w)
  BY <1>5 DEF Post, CommitUntold, Goto, TypeOK
<1>6. CASE Finish(w)
  BY <1>6 DEF Finish, Goto, Release, TypeOK
<1>7. CASE Purge(w)
  BY <1>7 DEF Purge, Release, TypeOK
<1>8. CASE MarkError(w)
  BY <1>8 DEF MarkError, Release, TypeOK
<1>9. CASE WorkerExit(w)
  BY <1>9 DEF WorkerExit, TypeOK
<1> QED BY <1>1, <1>2, <1>3, <1>4, <1>5, <1>6, <1>7, <1>8, <1>9 DEF WorkerStep

\* What was left of a completed upload is in the hands of whoever completed it.
LEMMA PurgedWorker ==
  ASSUME LossInv, PurgeInv, NEW w \in Workers, WorkerStep(w), faults = 0, faults' = 0
  PROVE  CompletedIsPurged'
<1> USE DEF LossInv
<1>1. ~Stopping(w)
  BY PipelineAssumption DEF PurgeInv, Stopping
<1>2. CompletedIsPurged
  BY DEF PurgeInv, PurgedOnce
<1>3. faults \in Nat
  BY PipelineAssumption DEF TypeOK
<1>4. SUFFICES ASSUME NEW u \in Uploads, status'[u] = "done", u \in objects'
               PROVE  \E v \in Workers : pc'[v] = "purge" /\ job'[v] = u /\ v \in key'
  BY DEF CompletedIsPurged
<1>5. ASSUME status'[u] = status[u], objects' \subseteq objects, pc[w] # "purge",
             \A v \in Workers \ {w} :
               pc'[v] = pc[v] /\ job'[v] = job[v] /\ (v \in key => v \in key')
      PROVE  \E v \in Workers : pc'[v] = "purge" /\ job'[v] = u /\ v \in key'
  BY <1>2, <1>4, <1>5 DEF CompletedIsPurged
<1>6. CASE Take(w)
  BY <1>5, <1>6 DEF Take, TypeOK, table
<1>7. CASE Load(w)
  BY <1>5, <1>7 DEF Load, Goto, Release, TypeOK, table
<1>8. CASE MarkProcessing(w)
  <2>1. status'[u] = status[u]
    BY <1>4, <1>8 DEF MarkProcessing, SetStatus, TypeOK
  <2>2. QED BY <1>5, <1>8, <2>1 DEF MarkProcessing, Goto, Release, TypeOK
<1>9. CASE Fetch(w)
  BY <1>5, <1>9 DEF Fetch, Goto, TypeOK, table
<1>10. CASE Post(w)
  BY <1>5, <1>10 DEF Post, CommitUntold, Goto, TypeOK
<1>11. CASE Finish(w)
  <2>1. PICK took \in BOOLEAN, ok \in BOOLEAN :
          /\ DbCall(w, took, ok)
          /\ IF took
               THEN SetStatus(job[w], "done") /\ keyed' = keyed \ {job[w]}
               ELSE UNCHANGED <<status, keyed>>
          /\ IF ok THEN Goto(w, "purge") /\ UNCHANGED key ELSE Release(w)
    BY <1>11 DEF Finish
  <2>2. took /\ ok
    BY <1>1, <2>1, CallSucceeds
  <2>3. SetStatus(job[w], "done") /\ Goto(w, "purge") /\ UNCHANGED <<key, objects>>
    BY <1>11, <2>1, <2>2 DEF Finish
  <2>4. w \in key
    BY <1>11 DEF Finish, PurgeInv
  <2>5. CASE u = job[w]
    BY <2>3, <2>4, <2>5 DEF Goto, TypeOK
  <2>6. CASE u # job[w]
    <3>1. status'[u] = status[u]
      BY <2>3, <2>6 DEF SetStatus, TypeOK
    <3>2. QED BY <1>5, <1>11, <2>3, <3>1 DEF Finish, Goto, TypeOK
  <2>7. QED BY <2>5, <2>6
<1>12. CASE Purge(w)
  <2>1. w \in key /\ job[w] \in Uploads
    BY <1>12 DEF Purge, PurgeInv, TypeOK, Calls
  <2>2. objects' = objects \ {job[w]} /\ status' = status
    BY <1>1, <1>3, <1>12, <2>1 DEF Purge, CallFails, Fault, table
  <2>3. PICK v \in Workers : pc[v] = "purge" /\ job[v] = u /\ v \in key
    BY <1>2, <1>4, <2>2 DEF CompletedIsPurged
  <2>4. v # w
    BY <1>4, <2>2, <2>3
  <2>5. QED BY <1>12, <2>3, <2>4 DEF Purge, Release, TypeOK
<1>13. CASE MarkError(w)
  <2>1. status'[u] = status[u]
    BY <1>4, <1>13 DEF MarkError, SetStatus, TypeOK
  <2>2. QED BY <1>5, <1>13, <2>1 DEF MarkError, Release, TypeOK
<1>14. CASE WorkerExit(w)
  BY <1>5, <1>14 DEF WorkerExit, TypeOK, table
<1> QED
  BY <1>6, <1>7, <1>8, <1>9, <1>10, <1>11, <1>12, <1>13, <1>14 DEF WorkerStep

\* Nobody but a worker can complete an upload or lose hold of its file.
LEMMA PurgedOthers ==
  ASSUME PurgeInv, faults = 0, UNCHANGED worker,
         \A u \in Uploads : status'[u] = "done" /\ u \in objects' => status[u] = "done" /\ u \in objects
  PROVE  CompletedIsPurged'
BY DEF PurgeInv, PurgedOnce, CompletedIsPurged, worker

LEMMA NextPurge == LossInv /\ PurgeInv /\ [Next]_vars => PurgeInv'
<1> SUFFICES ASSUME LossInv, PurgeInv, [Next]_vars PROVE PurgeInv'
  OBVIOUS
<1>1. TypeOK
  BY DEF LossInv
<1>2. faults' = 0 => faults = 0
  BY <1>1, FaultsRemain
<1>3. faults \in Nat
  BY <1>1, PipelineAssumption DEF TypeOK
<1>4. ASSUME UNCHANGED <<worker, server>>, faults' = 0 => CompletedIsPurged'
      PROVE  PurgeInv'
  BY <1>2, <1>4 DEF PurgeInv, PurgedOnce, worker
<1>5. ASSUME NEW r \in Replicas, NEW u \in Uploads, PutObject(u, r)
      PROVE  PurgeInv'
  <2>1. status[u] = "absent"
    BY <1>5 DEF PutObject, LossInv, UnknownBeforeInsert
  <2>2. UNCHANGED <<status, worker, server>> /\ objects' \subseteq objects \cup {u}
    BY <1>5 DEF PutObject, table, process
  <2>3. faults' = 0 => CompletedIsPurged'
    BY <1>2, <2>1, <2>2, PurgedOthers
  <2>4. QED BY <1>4, <2>2, <2>3
<1>6. ASSUME NEW r \in Replicas, NEW u \in Uploads, CreateUpload(u, r) \/ EnqueueUpload(u, r)
      PROVE  PurgeInv'
  <2>1. UNCHANGED <<objects, worker, server>>
    BY <1>6 DEF CreateUpload, EnqueueUpload, process
  <2>2. \A v \in Uploads : status'[v] = "done" => status[v] = "done"
    BY <1>1, <1>6 DEF CreateUpload, EnqueueUpload, InsertUpload, TypeOK, table
  <2>3. faults' = 0 => CompletedIsPurged'
    BY <1>2, <2>1, <2>2, PurgedOthers
  <2>4. QED BY <1>4, <2>1, <2>3
<1>7. ASSUME NEW r \in Replicas, Start(r) \/ RecoverPending(r) \/ Requeue(r) \/ Listen(r)
      PROVE  PurgeInv'
  <2>1. UNCHANGED <<status, objects, worker>>
    BY <1>7 DEF Start, RecoverPending, Requeue, Listen, table
  <2>2. faults' = 0 => CompletedIsPurged'
    BY <1>2, <2>1, PurgedOthers
  <2>3. \A s \in Replicas : server'[s] = "stopping" => server[s] = "stopping"
    BY <1>1, <1>7 DEF Start, RecoverPending, Requeue, Listen, TypeOK
  <2>4. QED BY <1>2, <2>1, <2>2, <2>3 DEF PurgeInv, PurgedOnce, worker
<1>8. ASSUME NEW r \in Replicas, Shutdown(r)
      PROVE  PurgeInv'
  BY <1>3, <1>8 DEF Shutdown, Fault, PurgeInv, PurgedOnce, worker
<1>9. ASSUME NEW r \in Replicas, Exit(r) \/ Crash(r)
      PROVE  PurgeInv'
  <2>1. faults' # 0
    BY <1>3, <1>9 DEF Exit, Crash, Fault, PurgeInv
  <2>2. \A w \in Workers : pc'[w] \in {"post", "finish", "purge"} => w \in key'
    BY <1>9 DEF Exit, Crash, Halt, PurgeInv
  <2>3. QED BY <2>1, <2>2 DEF PurgeInv, PurgedOnce
<1>10. ASSUME NEW w \in Workers, WorkerStep(w)
       PROVE  PurgeInv'
  <2>1. \A v \in Workers : pc'[v] \in {"post", "finish", "purge"} => v \in key'
    BY <1>1, <1>10, KeyWorker DEF PurgeInv
  <2>2. server' = server
    BY <1>1, <1>10, WorkerShape DEF StepShape
  <2>3. faults' = 0 => CompletedIsPurged'
    BY <1>2, <1>10, PurgedWorker
  <2>4. QED BY <1>2, <2>1, <2>2, <2>3 DEF PurgeInv, PurgedOnce
<1>11. ASSUME NEW usr \in Users, ClearTransactions(usr) \/ DeleteUser(usr)
       PROVE  PurgeInv'
  <2>1. UNCHANGED <<objects, worker, server>>
    BY <1>11 DEF ClearTransactions, DeleteUser, DropUploads, process
  <2>2. \A v \in Uploads : status'[v] = "done" => status[v] = "done"
    BY <1>11 DEF ClearTransactions, DeleteUser, DropUploads
  <2>3. faults' = 0 => CompletedIsPurged'
    BY <1>2, <2>1, <2>2, PurgedOthers
  <2>4. QED BY <1>4, <2>1, <2>3
<1>12. CASE UNCHANGED vars
  <2>1. UNCHANGED <<status, objects, worker, server>>
    BY <1>12 DEF vars, table, process
  <2>2. faults' = 0 => CompletedIsPurged'
    BY <1>2, <2>1, PurgedOthers
  <2>3. QED BY <1>4, <2>1, <2>2
<1> QED
  BY <1>5, <1>6, <1>7, <1>8, <1>9, <1>10, <1>11, <1>12 DEF Next, HandlerStep, ServerStep, PodStep

\* As long as nothing fails, a completed upload leaves no file behind, however
\* many pods process it at once: who completes it has the key it was staged
\* under (Queue.process, worker.go:116-129).
THEOREM FilesArePurged == Spec => []PurgedOnce
<1>1. Init => PurgeInv
  BY DEF Init, PurgeInv, PurgedOnce, CompletedIsPurged
<1>2. PurgeInv => PurgedOnce
  BY DEF PurgeInv
<1>3. QED BY <1>1, <1>2, InitLoss, NextLoss, NextPurge, PTL DEF Spec

=============================================================================
