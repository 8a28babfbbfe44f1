----------------------------- MODULE Migrations -----------------------------
(***************************************************************************)
(* Pods of a rollout that migrate the database they share before they      *)
(* serve.  Migrations are numbered in the order of their file names; a pod *)
(* carries those of its image.  Each is one transaction: its SQL, whose    *)
(* statements accept what is there already, and the insert of its version. *)
(***************************************************************************)
EXTENDS Naturals

CONSTANTS
  Pods,
  Embedded,   \* the number of migrations in a pod's image
  Last,       \* the number of all migrations
  MaxFaults   \* bound on crashes and failing calls

ASSUME MigrationAssumption ==
  /\ Last \in Nat
  /\ Embedded \in [Pods -> 0..Last]
  /\ MaxFaults \in Nat

VARIABLES
  tracking,  \* whether the table schema_migrations exists
  recorded,  \* versions in it
  runs,      \* how often each migration's SQL was committed
  pc,        \* the call each pod is about to make
  at,        \* the migration it is at
  faults     \* faults so far

vars == <<tracking, recorded, runs, pc, at, faults>>

InTransaction == {"record", "commit"}

TypeOK ==
  /\ tracking \in BOOLEAN
  /\ recorded \subseteq 1..Last
  /\ runs \in [1..Last -> Nat]
  /\ pc \in [Pods -> {"down", "connect", "track", "create", "look", "run", "serving"} \cup InTransaction]
  /\ at \in [Pods -> 1..(Last + 1)]
  /\ faults \in 0..MaxFaults

Init ==
  /\ tracking = FALSE
  /\ recorded = {}
  /\ runs = [m \in 1..Last |-> 0]
  /\ pc = [p \in Pods |-> "down"]
  /\ at = [p \in Pods |-> 1]
  /\ faults = 0

Goto(p, call) == pc' = [pc EXCEPT ![p] = call]

\* An error ends the process, and the database rolls back what it had open.
Exit(p) == Goto(p, "down") /\ UNCHANGED <<tracking, recorded, runs, at>>

Restart(p) ==
  /\ pc[p] = "down"
  /\ Goto(p, "connect")
  /\ at' = [at EXCEPT ![p] = 1]
  /\ UNCHANGED <<tracking, recorded, runs, faults>>

\* Connect, within its attempts.
Connect(p) ==
  /\ pc[p] = "connect"
  /\ Goto(p, "track")
  /\ UNCHANGED <<tracking, recorded, runs, at, faults>>

\* CREATE TABLE IF NOT EXISTS looks for the table ...
Track(p) ==
  /\ pc[p] = "track"
  /\ Goto(p, IF tracking THEN "look" ELSE "create")
  /\ UNCHANGED <<tracking, recorded, runs, at, faults>>

\* ... and fails if another pod has created it since.
Create(p) ==
  /\ pc[p] = "create"
  /\ IF tracking
       THEN Exit(p)
       ELSE tracking' = TRUE /\ Goto(p, "look") /\ UNCHANGED <<recorded, runs, at>>
  /\ UNCHANGED faults

\* Mutant: the last file of the directory is left out.
LookTooShort(p) ==
  /\ pc[p] = "look"
  /\ IF at[p] >= Embedded[p] THEN Goto(p, "serving") /\ UNCHANGED at
     ELSE IF at[p] \in recorded THEN at' = [at EXCEPT ![p] = @ + 1] /\ UNCHANGED pc
     ELSE Goto(p, "run") /\ UNCHANGED at
  /\ UNCHANGED <<tracking, recorded, runs, faults>>

\* SELECT EXISTS, outside of the transaction that then runs the migration.
Look(p) ==
  /\ pc[p] = "look"
  /\ IF at[p] > Embedded[p] THEN Goto(p, "serving") /\ UNCHANGED at
     ELSE IF at[p] \in recorded THEN at' = [at EXCEPT ![p] = @ + 1] /\ UNCHANGED pc
     ELSE Goto(p, "run") /\ UNCHANGED at
  /\ UNCHANGED <<tracking, recorded, runs, faults>>

\* Another pod has run the pod's migration and not committed it yet.
Locked(p) ==
  /\ at[p] \notin recorded
  /\ \E q \in Pods \ {p} : at[q] = at[p] /\ pc[q] \in InTransaction

\* Mutant: a migration that fails is logged and skipped.
RunOrSkip(p) ==
  /\ pc[p] = "run"
  /\ ~Locked(p)
  /\ \/ Goto(p, "record") /\ UNCHANGED at
     \/ Goto(p, "look") /\ at' = [at EXCEPT ![p] = @ + 1]
  /\ UNCHANGED <<tracking, recorded, runs, faults>>

\* The SQL waits for a transaction that changes the same tables.  Once that one
\* has committed, it fails on the catalog's unique keys or changes nothing.
Run(p) ==
  /\ pc[p] = "run"
  /\ ~Locked(p)
  /\ \/ Goto(p, "record") /\ UNCHANGED <<tracking, recorded, runs, at>>
     \/ at[p] \in recorded /\ Exit(p)
  /\ UNCHANGED faults

\* Mutant: ON CONFLICT DO NOTHING.
RecordAgain(p) ==
  /\ pc[p] = "record"
  /\ Goto(p, "commit")
  /\ UNCHANGED <<tracking, recorded, runs, at, faults>>

\* Mutant: the insert is tried again, in a transaction that has failed.
RecordRetrying(p) ==
  /\ pc[p] = "record"
  /\ at[p] \notin recorded
  /\ Goto(p, "commit")
  /\ UNCHANGED <<tracking, recorded, runs, at, faults>>

\* The insert of the version meets the primary key.
Record(p) ==
  /\ pc[p] = "record"
  /\ IF at[p] \in recorded
       THEN Exit(p)
       ELSE Goto(p, "commit") /\ UNCHANGED <<tracking, recorded, runs, at>>
  /\ UNCHANGED faults

Effect(p) ==
  /\ recorded' = recorded \cup {at[p]}
  /\ runs' = [runs EXCEPT ![at[p]] = @ + 1]

Commit(p) ==
  /\ pc[p] = "commit"
  /\ Effect(p)
  /\ Goto(p, "look")
  /\ at' = [at EXCEPT ![p] = @ + 1]
  /\ UNCHANGED <<tracking, faults>>

\* A crash, or a call that fails: the process exits, its last call done or not.
Fail(p) ==
  /\ pc[p] # "down"
  /\ faults < MaxFaults
  /\ faults' = faults + 1
  /\ \/ Exit(p)
     \/ /\ pc[p] = "commit"
        /\ Effect(p)
        /\ Goto(p, "down")
        /\ UNCHANGED <<tracking, at>>
     \/ /\ pc[p] = "create"
        /\ tracking' = TRUE
        /\ Goto(p, "down")
        /\ UNCHANGED <<recorded, runs, at>>

Step(p) ==
  Restart(p) \/ Connect(p) \/ Track(p) \/ Create(p) \/ Look(p) \/ Run(p) \/ Record(p) \/ Commit(p)

Next == \E p \in Pods : Step(p) \/ Fail(p)

Spec == Init /\ [][Next]_vars

\* The kubelet restarts pods that exited, and calls return.
FairSpec == Spec /\ \A p \in Pods : WF_vars(Step(p))

----------------------------------------------------------------------------
(* Properties.                                                             *)

\* Each migration runs exactly once, however many pods see it missing, crash or
\* lose the answer to their commit: its version tells whether it ran.
RunsOnce == \A m \in 1..Last : runs[m] = IF m \in recorded THEN 1 ELSE 0

\* Migrations are committed in the order of their names, across pods.
InOrder == \A m \in recorded : \A n \in 1..m : n \in recorded

\* A pod that serves finds the schema its image expects.
ServesMigrated == \A p \in Pods : pc[p] = "serving" => 1..Embedded[p] \subseteq recorded

\* Of the transactions that run a migration, one at most may commit.
OneRunner ==
  \A p, q \in Pods :
    /\ pc[p] \in InTransaction /\ pc[q] \in InTransaction
    /\ at[p] = at[q] /\ at[p] \notin recorded
    => p = q

\* A pod has left no migration behind.
Behind ==
  \A p \in Pods :
    /\ pc[p] # "down" => \A n \in 1..(at[p] - 1) : n \in recorded
    /\ pc[p] \in {"run", "record", "commit"} => at[p] \in 1..Last
    /\ pc[p] = "commit" => at[p] \notin recorded

MigrationInv ==
  TypeOK /\ RunsOnce /\ InOrder /\ ServesMigrated /\ OneRunner /\ Behind

\* A pod that loses the race for a migration, or crashes, serves in the end.
EveryPodServes == \A p \in Pods : pc[p] # "serving" ~> pc[p] = "serving"

=============================================================================
