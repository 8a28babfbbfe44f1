-------------------------- MODULE MigrationsProofs --------------------------
(* Proofs about Migrations, for any pods, images and number of migrations. *)
EXTENDS Migrations, TLAPS

USE DEF InTransaction, Goto, Exit, Effect

LEMMA InitInv == Init => MigrationInv
<1> SUFFICES ASSUME Init PROVE MigrationInv
  OBVIOUS
<1> USE MigrationAssumption DEF Init
<1>1. TypeOK
  <2>1. 1 \in 1..(Last + 1) /\ 0 \in 0..MaxFaults
    OBVIOUS
  <2> QED
    BY <2>1 DEF TypeOK
<1>2. RunsOnce /\ InOrder /\ ServesMigrated /\ OneRunner /\ Behind
  BY DEF RunsOnce, InOrder, ServesMigrated, OneRunner, Behind
<1> QED
  BY <1>1, <1>2 DEF MigrationInv

\* A migration that is committed was not recorded, and those before it were.
LEMMA EffectInv ==
  ASSUME MigrationInv, NEW p \in Pods, pc[p] = "commit", Effect(p)
  PROVE  /\ recorded' \subseteq 1..Last /\ runs' \in [1..Last -> Nat]
         /\ recorded \subseteq recorded'
         /\ RunsOnce' /\ InOrder'
         /\ at[p] \in 1..Last /\ at[p] \notin recorded
<1> USE DEF MigrationInv
<1>1. at[p] \in 1..Last /\ at[p] \notin recorded /\ \A n \in 1..(at[p] - 1) : n \in recorded
  BY DEF Behind
<1>2. recorded' = recorded \cup {at[p]} /\ runs' = [runs EXCEPT ![at[p]] = runs[at[p]] + 1]
  OBVIOUS
<1>3. recorded' \subseteq 1..Last /\ runs' \in [1..Last -> Nat]
  <2>1. runs \in [1..Last -> Nat] /\ runs[at[p]] + 1 \in Nat /\ recorded \subseteq 1..Last
    BY <1>1 DEF TypeOK
  <2> QED
    BY <1>1, <1>2, <2>1
<1>4. RunsOnce'
  BY <1>1, <1>2 DEF RunsOnce, TypeOK
<1>5. InOrder'
  <2> SUFFICES ASSUME NEW m \in recorded', NEW n \in 1..m
               PROVE  n \in recorded'
    BY DEF InOrder
  <2>1. CASE m = at[p]
    BY <1>1, <1>2, <2>1
  <2>2. CASE m \in recorded
    BY <1>2, <2>2 DEF InOrder
  <2> QED
    BY <1>2, <2>1, <2>2
<1> QED
  BY <1>1, <1>2, <1>3, <1>4, <1>5

\* Another pod's commit disturbs nobody who is not in the same migration.
LEMMA CommitInv ==
  ASSUME MigrationInv, NEW p \in Pods, NEW call \in {"look", "down"},
         pc[p] = "commit", Effect(p), Goto(p, call),
         at' = [at EXCEPT ![p] = IF call = "look" THEN @ + 1 ELSE @],
         UNCHANGED tracking, faults' \in 0..MaxFaults
  PROVE  MigrationInv'
<1> USE DEF MigrationInv
<1>1. /\ recorded' \subseteq 1..Last /\ runs' \in [1..Last -> Nat]
      /\ recorded \subseteq recorded'
      /\ RunsOnce' /\ InOrder'
      /\ at[p] \in 1..Last /\ at[p] \notin recorded
  BY EffectInv
<1>2. TypeOK'
  BY <1>1, MigrationAssumption DEF TypeOK
<1>3. ServesMigrated'
  BY <1>1 DEF ServesMigrated, TypeOK
<1>4. OneRunner'
  <2> SUFFICES ASSUME NEW q \in Pods, NEW r \in Pods,
                      pc'[q] \in InTransaction, pc'[r] \in InTransaction,
                      at'[q] = at'[r], at'[q] \notin recorded'
               PROVE  q = r
    BY DEF OneRunner
  <2>1. q # p /\ r # p
    BY DEF TypeOK
  <2>2. pc'[q] = pc[q] /\ pc'[r] = pc[r] /\ at'[q] = at[q] /\ at'[r] = at[r]
    BY <2>1 DEF TypeOK
  <2> QED
    BY <1>1, <2>2 DEF OneRunner
<1>5. Behind'
  <2> SUFFICES ASSUME NEW q \in Pods
               PROVE  /\ pc'[q] # "down" =>
                           \A n \in 1..(at'[q] - 1) : n \in recorded'
                      /\ pc'[q] \in {"run", "record", "commit"} => at'[q] \in 1..Last
                      /\ pc'[q] = "commit" => at'[q] \notin recorded'
    BY DEF Behind
  <2>1. CASE q = p
    <3>1. pc'[q] = call /\ at'[q] = (IF call = "look" THEN at[p] + 1 ELSE at[p])
      BY <2>1 DEF TypeOK
    <3>2. call = "look" => \A n \in 1..at[p] : n \in recorded'
      <4>1. \A n \in 1..(at[p] - 1) : n \in recorded
        BY DEF Behind
      <4> QED
        BY <4>1, <1>1
    <3> QED
      BY <3>1, <3>2, <1>1
  <2>2. CASE q # p
    <3>1. pc'[q] = pc[q] /\ at'[q] = at[q]
      BY <2>2 DEF TypeOK
    <3>2. pc[q] = "commit" => at[q] # at[p]
      BY <1>1, <2>2 DEF OneRunner
    <3> QED
      BY <1>1, <3>1, <3>2 DEF Behind
  <2> QED
    BY <2>1, <2>2
<1> QED
  BY <1>1, <1>2, <1>3, <1>4, <1>5

\* A step that commits no migration keeps the invariant, if the call it leads
\* to stands for what the invariant says of it.
LEMMA MoveInv ==
  ASSUME MigrationInv, NEW p \in Pods, NEW call, NEW n \in 1..(Last + 1),
         call \in {"down", "connect", "track", "create", "look", "run", "serving"} \cup InTransaction,
         pc' = [pc EXCEPT ![p] = call], at' = [at EXCEPT ![p] = n],
         UNCHANGED <<recorded, runs>>, tracking' \in BOOLEAN, faults' \in 0..MaxFaults,
         call # "down" => \A k \in 1..(n - 1) : k \in recorded,
         call \in {"run", "record", "commit"} => n \in 1..Last,
         call = "commit" => n \notin recorded,
         call = "serving" => 1..Embedded[p] \subseteq recorded,
         call \in InTransaction /\ n \notin recorded =>
           \A q \in Pods \ {p} : ~(at[q] = n /\ pc[q] \in InTransaction)
  PROVE  MigrationInv'
<1> USE DEF MigrationInv
<1>1. TypeOK'
  BY DEF TypeOK
<1>2. pc'[p] = call /\ at'[p] = n
  BY DEF TypeOK
<1>3. \A q \in Pods \ {p} : pc'[q] = pc[q] /\ at'[q] = at[q]
  BY DEF TypeOK
<1>4. RunsOnce' /\ InOrder'
  BY DEF RunsOnce, InOrder
<1>5. ServesMigrated'
  BY <1>2, <1>3 DEF ServesMigrated
<1>6. OneRunner'
  BY <1>2, <1>3 DEF OneRunner
<1>7. Behind'
  BY <1>2, <1>3 DEF Behind
<1> QED
  BY <1>1, <1>4, <1>5, <1>6, <1>7

LEMMA ExitInv ==
  ASSUME MigrationInv, NEW p \in Pods, pc' = [pc EXCEPT ![p] = "down"],
         UNCHANGED <<recorded, runs, at>>, tracking' \in BOOLEAN, faults' \in 0..MaxFaults
  PROVE  MigrationInv'
<1>1. at[p] \in 1..(Last + 1) /\ at' = [at EXCEPT ![p] = at[p]]
  BY DEF MigrationInv, TypeOK
<1> QED
  BY <1>1, MoveInv

LEMMA LookInv ==
  ASSUME MigrationInv, NEW p \in Pods, Look(p)
  PROVE  MigrationInv'
<1> USE DEF MigrationInv
<1>1. /\ pc[p] = "look" /\ at[p] \in 1..(Last + 1) /\ Embedded[p] \in 0..Last
      /\ at = [at EXCEPT ![p] = at[p]] /\ pc = [pc EXCEPT ![p] = "look"]
      /\ tracking' \in BOOLEAN /\ faults' \in 0..MaxFaults
      /\ UNCHANGED <<recorded, runs>> /\ Last \in Nat
  BY MigrationAssumption DEF Look, TypeOK
<1>2. \A k \in 1..(at[p] - 1) : k \in recorded
  BY <1>1 DEF Behind
<1>3. CASE at[p] > Embedded[p]
  <2>1. pc' = [pc EXCEPT ![p] = "serving"] /\ at' = at
    BY <1>3 DEF Look
  <2>2. 1..Embedded[p] \subseteq recorded
    BY <1>1, <1>2, <1>3
  <2> QED
    BY <1>1, <1>2, <2>1, <2>2, MoveInv
<1>4. CASE ~(at[p] > Embedded[p]) /\ at[p] \in recorded
  <2>1. at' = [at EXCEPT ![p] = at[p] + 1] /\ pc' = pc
    BY <1>4 DEF Look
  <2>2. at[p] + 1 \in 1..(Last + 1) /\ \A k \in 1..((at[p] + 1) - 1) : k \in recorded
    BY <1>1, <1>2, <1>4
  <2> QED
    BY <1>1, <2>1, <2>2, MoveInv
<1>5. CASE ~(at[p] > Embedded[p]) /\ at[p] \notin recorded
  <2>1. pc' = [pc EXCEPT ![p] = "run"] /\ at' = at
    BY <1>5 DEF Look
  <2>2. at[p] \in 1..Last
    BY <1>1, <1>5
  <2> QED
    BY <1>1, <1>2, <2>1, <2>2, MoveInv
<1> QED
  BY <1>3, <1>4, <1>5

LEMMA RunInv ==
  ASSUME MigrationInv, NEW p \in Pods, Run(p)
  PROVE  MigrationInv'
<1> USE DEF MigrationInv
<1>1. /\ pc[p] = "run" /\ at[p] \in 1..(Last + 1)
      /\ at = [at EXCEPT ![p] = at[p]]
      /\ tracking' \in BOOLEAN /\ faults' \in 0..MaxFaults
      /\ UNCHANGED <<recorded, runs, at>>
  BY DEF Run, TypeOK
<1>2. at[p] \in 1..Last /\ \A k \in 1..(at[p] - 1) : k \in recorded
  BY <1>1 DEF Behind
<1>3. CASE pc' = [pc EXCEPT ![p] = "record"]
  <2>1. at[p] \notin recorded =>
          \A q \in Pods \ {p} : ~(at[q] = at[p] /\ pc[q] \in InTransaction)
    BY DEF Run, Locked
  <2> QED
    BY <1>1, <1>2, <1>3, <2>1, MoveInv
<1>4. CASE pc' = [pc EXCEPT ![p] = "down"]
  BY <1>1, <1>4, ExitInv
<1> QED
  BY <1>3, <1>4 DEF Run

LEMMA RecordInv ==
  ASSUME MigrationInv, NEW p \in Pods, Record(p)
  PROVE  MigrationInv'
<1> USE DEF MigrationInv
<1>1. /\ pc[p] = "record" /\ at[p] \in 1..(Last + 1)
      /\ at = [at EXCEPT ![p] = at[p]]
      /\ tracking' \in BOOLEAN /\ faults' \in 0..MaxFaults
      /\ UNCHANGED <<recorded, runs, at>>
  BY DEF Record, TypeOK
<1>2. at[p] \in 1..Last /\ \A k \in 1..(at[p] - 1) : k \in recorded
  BY <1>1 DEF Behind
<1>3. CASE at[p] \in recorded
  BY <1>1, <1>3, ExitInv DEF Record
<1>4. CASE at[p] \notin recorded
  <2>1. pc' = [pc EXCEPT ![p] = "commit"]
    BY <1>4 DEF Record
  <2>2. \A q \in Pods \ {p} : ~(at[q] = at[p] /\ pc[q] \in InTransaction)
    BY <1>1, <1>4 DEF OneRunner
  <2> QED
    BY <1>1, <1>2, <1>4, <2>1, <2>2, MoveInv
<1> QED
  BY <1>3, <1>4

LEMMA FailInv ==
  ASSUME MigrationInv, NEW p \in Pods, Fail(p)
  PROVE  MigrationInv'
<1> USE DEF MigrationInv
<1>1. tracking \in BOOLEAN /\ faults' \in 0..MaxFaults /\ at[p] \in 1..(Last + 1)
  BY MigrationAssumption DEF Fail, TypeOK
<1>2. CASE Exit(p)
  BY <1>1, <1>2, ExitInv
<1>3. CASE pc[p] = "commit" /\ Effect(p) /\ Goto(p, "down") /\ UNCHANGED <<tracking, at>>
  <2>1. at' = [at EXCEPT ![p] = @]
    BY <1>3 DEF TypeOK
  <2> QED
    BY <1>1, <1>3, <2>1, CommitInv
<1>4. CASE tracking' = TRUE /\ Goto(p, "down") /\ UNCHANGED <<recorded, runs, at>>
  BY <1>1, <1>4, ExitInv
<1> QED
  BY <1>2, <1>3, <1>4 DEF Fail

LEMMA StepInv == MigrationInv /\ [Next]_vars => MigrationInv'
<1> SUFFICES ASSUME MigrationInv, [Next]_vars PROVE MigrationInv'
  OBVIOUS
<1>1. tracking \in BOOLEAN /\ faults \in 0..MaxFaults /\ at \in [Pods -> 1..(Last + 1)] /\ Last \in Nat
  BY MigrationAssumption DEF MigrationInv, TypeOK
<1>2. ASSUME NEW p \in Pods, Restart(p) PROVE MigrationInv'
  <2>1. /\ pc' = [pc EXCEPT ![p] = "connect"] /\ at' = [at EXCEPT ![p] = 1]
        /\ UNCHANGED <<tracking, recorded, runs, faults>>
    BY <1>2 DEF Restart
  <2>2. 1 \in 1..(Last + 1) /\ \A k \in 1..(1 - 1) : k \in recorded
    BY <1>1
  <2> QED
    BY <1>1, <2>1, <2>2, MoveInv
<1>3. ASSUME NEW p \in Pods, Connect(p) \/ Track(p) PROVE MigrationInv'
  <2>1. /\ at = [at EXCEPT ![p] = at[p]] /\ at[p] \in 1..(Last + 1)
        /\ \A k \in 1..(at[p] - 1) : k \in recorded
    BY <1>1, <1>3 DEF Connect, Track, MigrationInv, Behind
  <2>2. CASE Connect(p)
    BY <1>1, <2>1, <2>2, MoveInv DEF Connect
  <2>3. CASE Track(p)
    <3>1. PICK call \in {"look", "create"} : pc' = [pc EXCEPT ![p] = call]
      BY <2>3 DEF Track
    <3>2. UNCHANGED <<tracking, recorded, runs, at, faults>>
      BY <2>3 DEF Track
    <3> QED
      BY <1>1, <2>1, <3>1, <3>2, MoveInv
  <2> QED
    BY <1>3, <2>2, <2>3
<1>4. ASSUME NEW p \in Pods, Create(p) PROVE MigrationInv'
  <2>1. /\ at = [at EXCEPT ![p] = at[p]] /\ at[p] \in 1..(Last + 1)
        /\ \A k \in 1..(at[p] - 1) : k \in recorded
    BY <1>1, <1>4 DEF Create, MigrationInv, Behind
  <2>2. CASE tracking
    BY <1>1, <1>4, <2>2, ExitInv DEF Create
  <2>3. CASE ~tracking
    BY <1>1, <1>4, <2>1, <2>3, MoveInv DEF Create
  <2> QED
    BY <2>2, <2>3
<1>5. ASSUME NEW p \in Pods, Commit(p) PROVE MigrationInv'
  BY <1>1, <1>5, CommitInv DEF Commit
<1>6. CASE UNCHANGED vars
  BY <1>6 DEF vars, MigrationInv, TypeOK, RunsOnce, InOrder, ServesMigrated, OneRunner, Behind
<1> QED
  BY <1>2, <1>3, <1>4, <1>5, <1>6, LookInv, RunInv, RecordInv, FailInv DEF Next, Step

\* Whatever crashes or races, each migration is committed once, in order, and a
\* pod serves only on the schema of its image.
THEOREM MigrationInvariant == Spec => []MigrationInv
  BY InitInv, StepInv, PTL DEF Spec

\* The promise of Migrate's comment.
THEOREM MigrationsRunOnce == Spec => []RunsOnce
<1>1. MigrationInv => RunsOnce
  BY DEF MigrationInv
<1> QED
  BY <1>1, MigrationInvariant, PTL

\* What main relies on when it listens after Migrate.
THEOREM SchemaBeforeService == Spec => []ServesMigrated
<1>1. MigrationInv => ServesMigrated
  BY DEF MigrationInv
<1> QED
  BY <1>1, MigrationInvariant, PTL

=============================================================================
