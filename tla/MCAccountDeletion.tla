------------------------- MODULE MCAccountDeletion -------------------------
(* Small instance of AccountDeletion for TLC.                              *)
EXTENDS AccountDeletion

CONSTANTS u1, u2, r1, d1, x1

FoldOfNames == [n \in {"petrol", "Petrol"} |-> "petrol"]

=============================================================================
