---------------------------- MODULE MCAdminSeat ----------------------------
(* Small instances of AdminSeat for TLC.                                   *)
EXTENDS AdminSeat

CONSTANTS l1, l2, l3, s1, alice, bob, carol

\* alice logs in twice, bob once; the seeded account is bob's.
TwoOfAlice == [a \in Ids |-> IF a \in {l1, l2} THEN alice ELSE bob]

=============================================================================
