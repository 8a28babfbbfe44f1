--------------------------- MODULE AccountDeletion ---------------------------
(***************************************************************************)
(* The rows of one account while administrators delete it, its user clears *)
(* the transactions, and the sessions and jobs of the account insert more. *)
(*                                                                         *)
(* DeleteUser and the cascade of ClearTransactions are transactions of     *)
(* several statements (READ COMMITTED): a statement finds the rows that    *)
(* are committed when it begins, then locks and deletes them one after the *)
(* other, waiting for whoever holds one.  Row ids are never used twice.    *)
(***************************************************************************)
EXTENDS Naturals, Sequences

CONSTANTS
  Uploads,     \* uploads the account may have, each with one batch of rows
  Patterns,    \* patterns of its category rules, one row each
  Names,       \* names of its categories, one row each
  Fold,        \* lower(name) of each name
  Categories,  \* the built-in categories, folded
  Deletions,   \* requests of administrators to delete the account
  Clears       \* requests of its user to clear the transactions

User == <<"users", "id">>
Up(u)  == <<"uploads", u>>
Txn(u) == <<"transactions", u>>

Rows ==
  {User} \cup ({"uploads", "transactions"} \X Uploads)
    \cup ({"category_rules"} \X Patterns) \cup ({"custom_categories"} \X Names)

\* The foreign keys of each row.
Parents ==
  [r \in Rows |-> IF r = User THEN {}
                  ELSE IF r[1] = "transactions" THEN {User, Up(r[2])} ELSE {User}]

\* ON DELETE CASCADE, of transactions.upload_id alone.
Children == [r \in Rows |-> IF r[1] = "uploads" THEN {Txn(r[2])} ELSE {}]

Requests == Deletions \cup Clears

ASSUME DeletionAssumption ==
  /\ Deletions \cap Clears = {}
  /\ Requests \cap Uploads = {}
  /\ Fold \in [Names -> STRING]

VARIABLES
  rows,    \* committed rows
  known,   \* every row that has been inserted, or failed to be
  share,   \* rows that the insert of an upload's transactions has locked
  step,    \* the statement each request is at; 0 before, 9 after
  todo,    \* rows that its statement found and has still to delete
  mine     \* rows it has deleted, locked until it commits

locks == <<share, step, todo, mine>>
vars  == <<rows, known, locks>>

\* The statements of each transaction; a cascade runs when its DELETE is done.
Statements(t) ==
  IF t \in Deletions
    THEN <<"transactions", "uploads", "cascade", "category_rules", "custom_categories", "users">>
    ELSE <<"uploads", "cascade">>

Busy(t) == step[t] \in 1..6

TypeOK ==
  /\ rows \subseteq Rows
  /\ known \subseteq Rows
  /\ share \in [Uploads -> SUBSET Rows]
  /\ step \in [Requests -> 0..9]
  /\ todo \in [Requests -> SUBSET Rows]
  /\ mine \in [Requests -> SUBSET Rows]

Init ==
  /\ rows = {User}
  /\ known = {User}
  /\ share = [u \in Uploads |-> {}]
  /\ step = [t \in Requests |-> 0]
  /\ todo = [t \in Requests |-> {}]
  /\ mine = [t \in Requests |-> {}]

Held(r) == \E t \in Requests : r \in mine[t]

----------------------------------------------------------------------------
(* Inserts of the account's sessions and workers.  A session outlives its  *)
(* account, so only the foreign keys refuse them once the account is gone. *)

\* The lookups of the foreign keys wait for rows being deleted.
Insert(r) ==
  /\ r \notin known
  /\ Parents[r] \subseteq rows
  /\ \A p \in Parents[r] : ~Held(p)
  /\ rows' = rows \cup {r}
  /\ known' = known \cup {r}
  /\ UNCHANGED locks

CreateUpload(u) == Insert(Up(u))

UpsertRule(p) == Insert(<<"category_rules", p>>)

\* addCategory: a name that exists, but for its case, is not inserted; the
\* unique index waits for the end of a transaction that deletes it.
AddCategory(n) ==
  /\ Fold[n] \notin Categories
  /\ \A m \in Names : Fold[m] = Fold[n] => <<"custom_categories", m>> \notin rows
  /\ Insert(<<"custom_categories", n>>)

\* InsertTransactions: its first row locks the rows it refers to, in the order
\* of their constraints' names.
ShareLock(u, p) ==
  /\ Up(u) \in known /\ Txn(u) \notin known
  /\ p \in (Parents[Txn(u)] \ share[u]) \cap rows
  /\ ~Held(p)
  /\ share' = [share EXCEPT ![u] = @ \cup {p}]
  /\ UNCHANGED <<rows, known, step, todo, mine>>

\* Mutant: the rows are visible before their references are checked.
StoreUnchecked(u) ==
  /\ Txn(u) \notin known
  /\ share[u] # {}
  /\ rows' = rows \cup {Txn(u)}
  /\ known' = known \cup {Txn(u)}
  /\ share' = [share EXCEPT ![u] = {}]
  /\ UNCHANGED <<step, todo, mine>>

\* The batch commits.
Store(u) ==
  /\ share[u] = Parents[Txn(u)]
  /\ rows' = rows \cup {Txn(u)}
  /\ known' = known \cup {Txn(u)}
  /\ share' = [share EXCEPT ![u] = {}]
  /\ UNCHANGED <<step, todo, mine>>

\* The batch fails: a reference to a row that is gone, a pod that stops.
DropBatch(u) ==
  /\ share[u] # {}
  /\ known' = known \cup {Txn(u)}
  /\ share' = [share EXCEPT ![u] = {}]
  /\ UNCHANGED <<rows, step, todo, mine>>

----------------------------------------------------------------------------
(* DeleteUser and ClearTransactions.                                       *)

\* What a statement finds: committed rows that it has not deleted itself.
Found(t, i) ==
  LET left == rows \ mine[t]
  IN IF Statements(t)[i] = "cascade"
       THEN left \cap UNION {Children[r] : r \in mine[t]}
       ELSE {r \in left : r[1] = Statements(t)[i]}

Begin(t) ==
  /\ step[t] = 0
  /\ step' = [step EXCEPT ![t] = 1]
  /\ todo' = [todo EXCEPT ![t] = Found(t, 1)]
  /\ UNCHANGED <<rows, known, share, mine>>

\* One row, once nobody else has locked it; it may be gone by then.
DeleteRow(t, r) ==
  /\ Busy(t)
  /\ r \in todo[t]
  /\ \A s \in Requests \ {t} : r \notin mine[s]
  /\ \A u \in Uploads : r \notin share[u]
  /\ todo' = [todo EXCEPT ![t] = @ \ {r}]
  /\ mine' = [mine EXCEPT ![t] = @ \cup ({r} \cap rows)]
  /\ UNCHANGED <<rows, known, share, step>>

Executed(t) == Busy(t) /\ todo[t] = {}

NextStatement(t) ==
  /\ Executed(t)
  /\ step[t] < Len(Statements(t))
  /\ step' = [step EXCEPT ![t] = @ + 1]
  /\ todo' = [todo EXCEPT ![t] = Found(t, step[t] + 1)]
  /\ UNCHANGED <<rows, known, share, mine>>

\* The end of a transaction: its locks go.
End(t) ==
  /\ step' = [step EXCEPT ![t] = 9]
  /\ todo' = [todo EXCEPT ![t] = {}]
  /\ mine' = [mine EXCEPT ![t] = {}]

\* Mutant: the foreign keys of users' children are not checked.
CommitUnchecked(t) ==
  /\ Executed(t)
  /\ step[t] = Len(Statements(t))
  /\ rows' = rows \ mine[t]
  /\ End(t)
  /\ UNCHANGED <<known, share>>

\* Nothing may refer to the row of users that the last statement deleted.
Commit(t) ==
  /\ Executed(t)
  /\ step[t] = Len(Statements(t))
  /\ t \in Deletions => User \in mine[t] /\ rows = mine[t]
  /\ rows' = rows \ mine[t]
  /\ End(t)
  /\ UNCHANGED <<known, share>>

\* Mutant: no rollback, the connection keeps its locks.
RollbackMissing(t) ==
  /\ Busy(t)
  /\ step' = [step EXCEPT ![t] = 9]
  /\ UNCHANGED <<rows, known, share, todo, mine>>

\* A rollback: the statement fails, or the client leaves.
Rollback(t) ==
  /\ Busy(t)
  /\ End(t)
  /\ UNCHANGED <<rows, known, share>>

\* The last DELETE meets no row of users, or one that something refers to.
Refused(t) ==
  /\ t \in Deletions
  /\ Executed(t)
  /\ step[t] = Len(Statements(t))
  /\ User \notin mine[t] \/ \E r \in rows \ mine[t] : ~Held(r)
  /\ Rollback(t)

\* The rows a transaction waits for, and whether another has them locked.
Awaited(a) ==
  IF a \in Uploads THEN IF share[a] = {} THEN {} ELSE Parents[Txn(a)] \ share[a]
  ELSE IF todo[a] # {} THEN todo[a] ELSE IF Executed(a) /\ User \in mine[a] THEN rows \ mine[a] ELSE {}

Blocks(b, r) == IF b \in Uploads THEN r \in share[b] ELSE r \in mine[b]

\* Transactions that wait for each other, and would for ever.
Deadlocked(a) ==
  \E S \in SUBSET {b \in Uploads \cup Requests : Awaited(b) # {}} :
    /\ a \in S
    /\ \A b \in S : \A r \in Awaited(b) : \E c \in S \ {b} : Blocks(c, r)

\* PostgreSQL aborts one of them.
Victim(a) ==
  /\ Deadlocked(a)
  /\ IF a \in Uploads THEN DropBatch(a) ELSE Rollback(a)

----------------------------------------------------------------------------
Inserts(u) ==
  \/ \E p \in Parents[Txn(u)] : ShareLock(u, p)
  \/ Store(u)

Runs(t) ==
  \/ \E r \in Rows : DeleteRow(t, r)
  \/ NextStatement(t)
  \/ Commit(t)
  \/ Refused(t)

Next ==
  \/ \E u \in Uploads : CreateUpload(u) \/ Inserts(u) \/ DropBatch(u)
  \/ \E p \in Patterns : UpsertRule(p)
  \/ \E n \in Names : AddCategory(n)
  \/ \E t \in Requests : Begin(t) \/ Runs(t) \/ Rollback(t)
  \/ \E a \in Uploads \cup Requests : Victim(a)

Spec == Init /\ [][Next]_vars

\* The database serves what it has begun, and breaks deadlocks.
Fairness ==
  /\ \A t \in Requests : WF_vars(Runs(t))
  /\ \A u \in Uploads :
       WF_vars(Inserts(u)) /\ WF_vars(~(Parents[Txn(u)] \subseteq rows) /\ DropBatch(u))
  /\ WF_vars(\E a \in Uploads \cup Requests : Victim(a))

FairSpec == Spec /\ Fairness

----------------------------------------------------------------------------
(* Properties.                                                             *)

\* Every row refers to rows.
Rooted == \A r \in rows : Parents[r] \subseteq rows

\* No two transactions lock a row against each other, and a locked row stays.
LocksApart ==
  /\ \A t \in Requests : mine[t] \subseteq rows
  /\ \A t, s \in Requests : t # s => mine[t] \cap mine[s] = {}
  /\ \A u \in Uploads : share[u] \subseteq Parents[Txn(u)] \cap rows
  /\ \A t \in Requests, u \in Uploads : mine[t] \cap share[u] = {}

\* From its cascade on, a transaction deletes all that belongs to its uploads.
Cascaded(t) == step[t] \in IF t \in Deletions THEN 3..6 ELSE {2}

CascadeIsWhole ==
  \A t \in Requests : Cascaded(t) =>
    /\ \A r \in mine[t] : Children[r] \cap rows \subseteq mine[t] \cup todo[t]
    /\ \A r \in todo[t] : Children[r] = {}

\* A clear deletes uploads, and what belongs to them.
ClearsUploads ==
  \A t \in Clears : \A r \in mine[t] \cup todo[t] :
    Children[r] # {} \/ \E upload \in mine[t] : r \in Children[upload]

\* The inductive invariant: rows are rooted because locks keep whatever a
\* deletion or an insert has looked at, and because cascades are whole.
DeletionInv ==
  TypeOK /\ rows \subseteq known /\ Rooted /\ LocksApart /\ CascadeIsWhole /\ ClearsUploads

\* The statement-by-statement deletion is one step for anyone who reads the
\* tables: all of the account or nothing, and nothing of it afterwards, whatever
\* its sessions and jobs still insert; uploads take their transactions along.
Account == INSTANCE AccountData
AtOnce  == Account!Spec

\* A deletion that has begun is answered, although it waits for the locks of
\* inserts and clears that wait for its own.
DeletionsEnd == \A t \in Requests : Busy(t) ~> ~Busy(t)

=============================================================================
