----------------------------- MODULE AccountData -----------------------------
(***************************************************************************)
(* What the rows of one account promise: every row belongs to the account, *)
(* rows of transactions to an upload as well; uploads go together with     *)
(* their transactions, and an account goes with everything it has, at one  *)
(* moment, for good.                                                       *)
(***************************************************************************)

CONSTANTS
  Rows,      \* rows the account may have
  User,      \* the row of users
  Parents,   \* the rows each row refers to
  Children   \* the rows that an upload's row takes with it

VARIABLE rows

Init == rows = {User}

Insert(r) ==
  /\ Parents[r] \subseteq rows
  /\ User \in rows
  /\ rows' = rows \cup {r}

Clear(uploads) ==
  rows' = rows \ (uploads \cup UNION {Children[r] : r \in uploads})

Delete ==
  /\ User \in rows
  /\ rows' = {}

Next ==
  \/ \E r \in Rows \ {User} : Insert(r)
  \/ \E uploads \in SUBSET {r \in Rows : Children[r] # {}} : Clear(uploads)
  \/ Delete

Spec == Init /\ [][Next]_rows

=============================================================================
