-------------------------- MODULE UploadLifecycle --------------------------
(***************************************************************************)
(* What the pipeline promises of an upload, without pods, workers, queues  *)
(* or calls: a statement is staged, registered, processed to one of two    *)
(* final states, and its staged object goes only when it is done with.     *)
(***************************************************************************)
CONSTANT Uploads

VARIABLES
  state,   \* the upload as its owner sees it, "absent" when not registered
  posted,  \* uploads whose transactions are in the ledger, or were reported so
  staged   \* uploads whose file is in the bucket

lifecycle == <<state, posted, staged>>

Init ==
  /\ state = [u \in Uploads |-> "absent"]
  /\ posted = {}
  /\ staged = {}

Becomes(u, from, to) ==
  /\ state[u] \in from
  /\ state' = [state EXCEPT ![u] = to]

Stage(u) ==
  /\ state[u] = "absent"
  /\ staged' = staged \cup {u}
  /\ UNCHANGED <<state, posted>>

Register(u) ==
  /\ u \in staged
  /\ Becomes(u, {"absent"}, "pending")
  /\ UNCHANGED <<posted, staged>>

Begin(u) ==
  /\ u \in staged
  /\ Becomes(u, {"pending"}, "processing")
  /\ UNCHANGED <<posted, staged>>

PostRows(u) ==
  /\ state[u] = "processing"
  /\ u \in staged
  /\ posted' = posted \cup {u}
  /\ UNCHANGED <<state, staged>>

Complete(u) ==
  /\ u \in posted
  /\ Becomes(u, {"processing"}, "done")
  /\ UNCHANGED <<posted, staged>>

Fail(u) ==
  /\ Becomes(u, {"processing"}, "error")
  /\ UNCHANGED <<posted, staged>>

\* The file goes once the upload is completed, or when its row was removed
\* under a worker that had posted the rows.
Unstage(u) ==
  /\ state[u] \in {"done", "absent"}
  /\ staged' = staged \ {u}
  /\ UNCHANGED <<state, posted>>

\* An owner's uploads are removed with their rows; their files stay.
Drop(S) ==
  /\ state' = [u \in Uploads |-> IF u \in S THEN "absent" ELSE state[u]]
  /\ posted' = posted \ S
  /\ UNCHANGED staged

Next ==
  \/ \E u \in Uploads :
       \/ Stage(u) \/ Register(u) \/ Begin(u) \/ PostRows(u)
       \/ Complete(u) \/ Fail(u) \/ Unstage(u)
  \/ \E S \in SUBSET Uploads : Drop(S)

Spec == Init /\ [][Next]_lifecycle

=============================================================================
