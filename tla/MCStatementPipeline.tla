------------------------ MODULE MCStatementPipeline ------------------------
(* Small instances of StatementPipeline for TLC.                           *)
EXTENDS StatementPipeline, TLC

CONSTANTS u1, u2, u3, alice, bob, podA, podB, wA1, wA2, wB1

AllToAlice == [u \in Uploads |-> alice]
TwoOwners == [u \in Uploads |-> IF u = u1 THEN alice ELSE bob]

HomeOfWorker == [w \in Workers |-> IF w = wB1 THEN podB ELSE podA]

\* Uploads of one owner are interchangeable, and so are the workers of one pod.
UploadsAndWorkers == Permutations(Uploads) \cup Permutations({wA1, wA2})

\* A bound on the users alone, who are under no obligation, so that no fair
\* action is cut: uploads of one owner are sent one after the other, to one pod
\* of two that are alike, and their rows are not removed.
UsersInTurn ==
  /\ req'[u2] # "unsent" => req'[u1] \notin {"unsent", "create"}
  /\ handlers'[podB] = {}
  /\ accounts' = accounts
  /\ \A u \in Uploads : status[u] # "absent" => status'[u] # "absent"

=============================================================================
