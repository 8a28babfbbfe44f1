------------------------ MODULE AccountDeletionProofs ------------------------
(***************************************************************************)
(* For any uploads, rules, categories and requests: the rows of the        *)
(* account stay rooted, and deleting them statement by statement is one    *)
(* step for whoever reads them.                                            *)
(***************************************************************************)
EXTENDS AccountDeletion, TLAPS

\* A row is not its own parent, and children name their upload.
LEMMA RowShapes ==
  /\ User \in Rows /\ Parents[User] = {} /\ Children[User] = {}
  /\ \A u \in Uploads :
       /\ Up(u) \in Rows /\ Txn(u) \in Rows
       /\ Up(u) # User /\ Txn(u) # User /\ Up(u) # Txn(u)
       /\ Parents[Up(u)] = {User} /\ Parents[Txn(u)] = {User, Up(u)}
       /\ Children[Up(u)] = {Txn(u)} /\ Children[Txn(u)] = {}
  /\ \A r \in Rows :
       /\ r # User => User \in Parents[r]
       /\ Parents[r] \subseteq Rows /\ Children[r] \subseteq Rows
       /\ \A p \in Parents[r] : p = User \/ r \in Children[p]
       /\ \A c \in Children[r] : r \in Parents[c]
       /\ Children[r] # {} => \E u \in Uploads : r = Up(u)
<1>1. User \in Rows /\ Parents[User] = {} /\ Children[User] = {}
  BY DEF User, Rows, Parents, Children
<1>2. ASSUME NEW u \in Uploads
      PROVE  /\ Up(u) \in Rows /\ Txn(u) \in Rows
             /\ Up(u) # User /\ Txn(u) # User /\ Up(u) # Txn(u)
             /\ Parents[Up(u)] = {User} /\ Parents[Txn(u)] = {User, Up(u)}
             /\ Children[Up(u)] = {Txn(u)} /\ Children[Txn(u)] = {}
  <2>1. /\ Up(u) \in Rows /\ Txn(u) \in Rows
        /\ Up(u) # User /\ Txn(u) # User /\ Up(u) # Txn(u)
    BY DEF User, Up, Txn, Rows
  <2>2. Up(u)[1] = "uploads" /\ Up(u)[2] = u /\ Txn(u)[1] = "transactions" /\ Txn(u)[2] = u
    BY DEF Up, Txn
  <2> QED
    BY <2>1, <2>2 DEF Parents, Children
<1>3. ASSUME NEW r \in Rows
      PROVE  /\ r # User => User \in Parents[r]
             /\ Parents[r] \subseteq Rows /\ Children[r] \subseteq Rows
             /\ \A p \in Parents[r] : p = User \/ r \in Children[p]
             /\ \A c \in Children[r] : r \in Parents[c]
             /\ Children[r] # {} => \E u \in Uploads : r = Up(u)
  <2>1. CASE r = User
    BY <2>1, <1>1
  <2>2. ASSUME NEW u \in Uploads, r = Up(u)
        PROVE  <1>3!2
    BY <2>2, <1>1, <1>2
  <2>3. ASSUME NEW u \in Uploads, r = Txn(u)
        PROVE  <1>3!2
    BY <2>3, <1>1, <1>2
  <2>4. ASSUME NEW x, r = <<"category_rules", x>> \/ r = <<"custom_categories", x>>
        PROVE  <1>3!2
    <3>1. r # User /\ r[1] # "transactions" /\ r[1] # "uploads"
      BY <2>4 DEF User
    <3> QED
      BY <3>1, <1>1 DEF Parents, Children
  <2> QED
    BY <2>1, <2>2, <2>3, <2>4 DEF Rows, Up, Txn
<1> QED
  BY <1>1, <1>2, <1>3

LEMMA InitInv == Init => DeletionInv
  BY RowShapes DEF Init, DeletionInv, TypeOK, Rooted, LocksApart, CascadeIsWhole,
    ClearsUploads, Cascaded, Requests

\* What an insert adds refers to rows that nobody is deleting.
LEMMA InsertInv ==
  ASSUME DeletionInv, NEW r \in Rows, Insert(r)
  PROVE  DeletionInv'
<1> USE DEF DeletionInv
<1>1. /\ r \notin known /\ Parents[r] \subseteq rows
      /\ \A p \in Parents[r], t \in Requests : p \notin mine[t]
      /\ rows' = rows \cup {r} /\ known' = known \cup {r}
      /\ UNCHANGED <<share, step, todo, mine>>
  BY DEF Insert, Held, locks
<1>2. TypeOK' /\ (rows \subseteq known)'
  BY <1>1 DEF TypeOK
<1>3. Rooted'
  BY <1>1 DEF Rooted
<1>4. LocksApart'
  BY <1>1 DEF LocksApart
<1>5. CascadeIsWhole'
  <2> SUFFICES ASSUME NEW t \in Requests, Cascaded(t)
               PROVE  /\ \A q \in mine[t] : r \notin Children[q]
                      /\ CascadeIsWhole
    BY <1>1 DEF CascadeIsWhole, Cascaded
  <2> QED
    BY <1>1, RowShapes DEF TypeOK
<1>6. ClearsUploads'
  BY <1>1 DEF ClearsUploads
<1> QED
  BY <1>2, <1>3, <1>4, <1>5, <1>6

LEMMA ShareLockInv ==
  ASSUME DeletionInv, NEW u \in Uploads, NEW p, ShareLock(u, p)
  PROVE  DeletionInv'
<1> USE DEF DeletionInv
<1>1. /\ p \in Parents[Txn(u)] /\ p \in rows
      /\ \A t \in Requests : p \notin mine[t]
      /\ share' = [share EXCEPT ![u] = @ \cup {p}]
      /\ UNCHANGED <<rows, known, step, todo, mine>>
  BY DEF ShareLock, Held
<1>2. TypeOK'
  BY <1>1 DEF TypeOK
<1>3. LocksApart'
  BY <1>1 DEF LocksApart, TypeOK
<1> QED
  BY <1>1, <1>2, <1>3 DEF Rooted, CascadeIsWhole, ClearsUploads, Cascaded

\* The upload of the batch is locked, so that no cascade has passed it by.
LEMMA StoreInv ==
  ASSUME DeletionInv, NEW u \in Uploads, Store(u)
  PROVE  DeletionInv'
<1> USE DEF DeletionInv
<1>1. /\ share[u] = Parents[Txn(u)]
      /\ rows' = rows \cup {Txn(u)} /\ known' = known \cup {Txn(u)}
      /\ share' = [share EXCEPT ![u] = {}]
      /\ UNCHANGED <<step, todo, mine>>
  BY DEF Store
<1>2. TypeOK' /\ (rows \subseteq known)'
  BY <1>1, RowShapes DEF TypeOK
<1>3. Rooted'
  BY <1>1 DEF Rooted, LocksApart
<1>4. LocksApart'
  BY <1>1 DEF LocksApart, TypeOK
<1>5. CascadeIsWhole'
  <2>1. \A t \in Requests : \A q \in mine[t] : Txn(u) \notin Children[q]
    BY <1>1, RowShapes DEF TypeOK, LocksApart
  <2> QED
    BY <1>1, <2>1 DEF CascadeIsWhole, Cascaded
<1>6. ClearsUploads'
  BY <1>1 DEF ClearsUploads
<1> QED
  BY <1>2, <1>3, <1>4, <1>5, <1>6

LEMMA DropBatchInv ==
  ASSUME DeletionInv, NEW u \in Uploads, DropBatch(u)
  PROVE  DeletionInv'
<1> USE DEF DeletionInv
<1>1. /\ known' = known \cup {Txn(u)}
      /\ share' = [share EXCEPT ![u] = {}]
      /\ UNCHANGED <<rows, step, todo, mine>>
  BY DEF DropBatch
<1>2. TypeOK' /\ (rows \subseteq known)'
  BY <1>1, RowShapes DEF TypeOK
<1>3. LocksApart'
  BY <1>1 DEF LocksApart, TypeOK
<1> QED
  BY <1>1, <1>2, <1>3 DEF Rooted, CascadeIsWhole, ClearsUploads, Cascaded

\* What a statement finds has the shape that its place in the program allows.
LEMMA FoundShapes ==
  ASSUME DeletionInv, NEW t \in Requests, NEW i \in 1..Len(Statements(t))
  PROVE  /\ Found(t, i) \subseteq rows /\ Found(t, i) \subseteq Rows
         /\ t \in Deletions /\ i \in 3..6 => \A r \in Found(t, i) : Children[r] = {}
         /\ t \notin Deletions /\ i = 1 => \A r \in Found(t, i) : Children[r] # {}
         /\ t \notin Deletions /\ i = 2 =>
              Found(t, i) = (rows \ mine[t]) \cap UNION {Children[r] : r \in mine[t]}
         /\ t \in Deletions /\ i = 3 =>
              Found(t, i) = (rows \ mine[t]) \cap UNION {Children[r] : r \in mine[t]}
<1> DEFINE table == Statements(t)[i]
<1>1. Found(t, i) \subseteq rows /\ Found(t, i) \subseteq Rows
  BY DEF Found, DeletionInv, TypeOK
<1>2. table = "cascade" =>
        Found(t, i) = (rows \ mine[t]) \cap UNION {Children[r] : r \in mine[t]}
  BY DEF Found
<1>3. table # "cascade" => \A r \in Found(t, i) : r[1] = table
  BY DEF Found
<1>4. \A r \in Rows : (r[1] = "uploads" => Children[r] # {}) /\ (r[1] # "uploads" => Children[r] = {})
  BY DEF Children
<1>5. \A r \in mine[t] : \A c \in Children[r] : Children[c] = {}
  <2> SUFFICES ASSUME NEW r \in mine[t], NEW c \in Children[r]
               PROVE  Children[c] = {}
    OBVIOUS
  <2>1. r \in Rows
    BY DEF DeletionInv, TypeOK
  <2>2. PICK u \in Uploads : r = Up(u)
    BY <2>1, RowShapes
  <2> QED
    BY <2>2, RowShapes
<1>6. CASE t \in Deletions
  <2>1. /\ Len(Statements(t)) = 6 /\ Statements(t)[3] = "cascade"
        /\ \A j \in 3..6 : Statements(t)[j] # "uploads"
    BY <1>6 DEF Statements
  <2>2. i \in 3..6 => \A r \in Found(t, i) : Children[r] = {}
    <3>1. CASE table = "cascade"
      BY <3>1, <1>2, <1>5
    <3>2. CASE table # "cascade"
      BY <3>2, <2>1, <1>1, <1>3, <1>4
    <3> QED
      BY <3>1, <3>2
  <2> QED
    BY <1>1, <1>2, <1>6, <2>1, <2>2
<1>7. CASE t \notin Deletions
  <2>1. Len(Statements(t)) = 2 /\ Statements(t)[1] = "uploads" /\ Statements(t)[2] = "cascade"
    BY <1>7 DEF Statements
  <2>2. i = 1 => \A r \in Found(t, i) : Children[r] # {}
    BY <2>1, <1>1, <1>3, <1>4
  <2> QED
    BY <1>1, <1>2, <1>7, <2>1, <2>2
<1> QED
  BY <1>6, <1>7

\* The steps between a transaction's statements; nothing of it is known before.
LEMMA BeginInv ==
  ASSUME DeletionInv, NEW t \in Requests, Begin(t)
  PROVE  DeletionInv'
<1> USE DEF DeletionInv
<1>1. /\ step' = [step EXCEPT ![t] = 1] /\ todo' = [todo EXCEPT ![t] = Found(t, 1)]
      /\ UNCHANGED <<rows, known, share, mine>>
  BY DEF Begin
<1>2. 1 \in 1..Len(Statements(t))
  BY DEF Statements
<1>3. TypeOK'
  BY <1>1, <1>2, FoundShapes DEF TypeOK
<1>4. CascadeIsWhole'
  <2>1. step'[t] = 1 /\ ~Cascaded(t)'
    BY <1>1 DEF Cascaded, TypeOK
  <2> QED
    BY <1>1, <2>1 DEF CascadeIsWhole, Cascaded, TypeOK
<1>5. ClearsUploads'
  <2>1. t \in Clears => \A r \in Found(t, 1) : Children[r] # {}
    BY <1>2, FoundShapes, DeletionAssumption
  <2> QED
    BY <1>1, <2>1 DEF ClearsUploads, TypeOK, Requests
<1> QED
  BY <1>1, <1>3, <1>4, <1>5 DEF Rooted, LocksApart

LEMMA NextStatementInv ==
  ASSUME DeletionInv, NEW t \in Requests, NextStatement(t)
  PROVE  DeletionInv'
<1> USE DEF DeletionInv
<1> DEFINE i == step[t] + 1
<1>1. /\ step' = [step EXCEPT ![t] = i] /\ todo' = [todo EXCEPT ![t] = Found(t, i)]
      /\ UNCHANGED <<rows, known, share, mine>>
  BY DEF NextStatement
<1>2. step[t] \in 1..6 /\ todo[t] = {} /\ step[t] < Len(Statements(t))
  BY DEF NextStatement, Executed, Busy
<1>3. Len(Statements(t)) = (IF t \in Deletions THEN 6 ELSE 2)
  BY DEF Statements
<1>4. i \in 2..Len(Statements(t)) /\ i \in 1..Len(Statements(t))
  BY <1>2, <1>3
<1>5. TypeOK'
  <2>1. i \in 0..9
    BY <1>3, <1>4
  <2>2. Found(t, i) \subseteq Rows
    BY <1>4, FoundShapes
  <2> QED
    BY <1>1, <2>1, <2>2 DEF TypeOK
<1>6. CascadeIsWhole'
  <2> SUFFICES ASSUME Cascaded(t)'
               PROVE  /\ \A r \in mine[t] : Children[r] \cap rows \subseteq mine[t] \cup Found(t, i)
                      /\ \A r \in Found(t, i) : Children[r] = {}
    BY <1>1 DEF CascadeIsWhole, Cascaded, TypeOK
  <2>1. IF t \in Deletions THEN i \in 3..6 ELSE i = 2
    BY <1>1 DEF Cascaded, TypeOK
  <2>2. CASE Cascaded(t)
    <3>1. \A r \in mine[t] : Children[r] \cap rows \subseteq mine[t]
      BY <1>2, <2>2 DEF CascadeIsWhole
    <3>2. t \in Deletions
      BY <2>1, <2>2, <1>2 DEF Cascaded
    <3> QED
      BY <3>1, <3>2, <2>1, <1>4, FoundShapes
  <2>3. CASE ~Cascaded(t)
    <3>1. IF t \in Deletions THEN i = 3 ELSE i = 2
      BY <1>2, <2>1, <2>3 DEF Cascaded
    <3>2. Found(t, i) = (rows \ mine[t]) \cap UNION {Children[r] : r \in mine[t]}
      BY <3>1, <1>4, FoundShapes
    <3>3. \A r \in Found(t, i) : Children[r] = {}
      <4> SUFFICES ASSUME NEW q \in mine[t], NEW r \in Children[q]
                   PROVE  Children[r] = {}
        BY <3>2
      <4>1. q \in Rows /\ Children[q] # {}
        BY DEF TypeOK
      <4>2. PICK u \in Uploads : q = Up(u)
        BY <4>1, RowShapes
      <4> QED
        BY <4>2, RowShapes
    <3> QED
      BY <3>2, <3>3
  <2> QED
    BY <2>2, <2>3
<1>7. ClearsUploads'
  <2>1. t \in Clears =>
          \A r \in Found(t, i) : \E upload \in mine[t] : r \in Children[upload]
    <3> SUFFICES ASSUME t \in Clears, NEW r \in Found(t, i)
                 PROVE  \E upload \in mine[t] : r \in Children[upload]
      OBVIOUS
    <3>1. t \notin Deletions /\ i = 2
      BY <1>3, <1>4, DeletionAssumption
    <3>2. Found(t, i) = (rows \ mine[t]) \cap UNION {Children[q] : q \in mine[t]}
      BY <1>4, <3>1, FoundShapes
    <3> QED
      BY <3>2
  <2> QED
    BY <1>1, <2>1 DEF ClearsUploads, TypeOK, Requests
<1> QED
  BY <1>1, <1>5, <1>6, <1>7 DEF Rooted, LocksApart

LEMMA DeleteRowInv ==
  ASSUME DeletionInv, NEW t \in Requests, NEW r, DeleteRow(t, r)
  PROVE  DeletionInv'
<1> USE DEF DeletionInv
<1>1. /\ r \in todo[t]
      /\ \A s \in Requests \ {t} : r \notin mine[s]
      /\ \A u \in Uploads : r \notin share[u]
      /\ todo' = [todo EXCEPT ![t] = @ \ {r}]
      /\ mine' = [mine EXCEPT ![t] = @ \cup ({r} \cap rows)]
      /\ UNCHANGED <<rows, known, share, step>>
  BY DEF DeleteRow
<1>2. TypeOK'
  BY <1>1 DEF TypeOK
<1>3. LocksApart'
  BY <1>1 DEF LocksApart, TypeOK
<1>4. CascadeIsWhole'
  <2>1. \A s \in Requests \ {t} : mine'[s] = mine[s] /\ todo'[s] = todo[s]
    BY <1>1 DEF TypeOK
  <2>2. mine'[t] = mine[t] \cup ({r} \cap rows) /\ todo'[t] = todo[t] \ {r}
    BY <1>1 DEF TypeOK
  <2>3. ASSUME Cascaded(t)
        PROVE  /\ \A q \in mine'[t] : Children[q] \cap rows \subseteq mine'[t] \cup todo'[t]
               /\ \A q \in todo'[t] : Children[q] = {}
    BY <1>1, <2>2, <2>3 DEF CascadeIsWhole
  <2> QED
    BY <1>1, <2>1, <2>3 DEF CascadeIsWhole, Cascaded
<1>5. ClearsUploads'
  BY <1>1 DEF ClearsUploads, TypeOK, Requests
<1> QED
  BY <1>1, <1>2, <1>3, <1>4, <1>5 DEF Rooted

\* Locks end with their transaction, and only a rollback brings nothing about.
LEMMA RollbackInv ==
  ASSUME DeletionInv, NEW t \in Requests, Rollback(t)
  PROVE  DeletionInv'
<1> USE DEF DeletionInv
<1>1. /\ step' = [step EXCEPT ![t] = 9] /\ todo' = [todo EXCEPT ![t] = {}]
      /\ mine' = [mine EXCEPT ![t] = {}]
      /\ UNCHANGED <<rows, known, share>>
  BY DEF Rollback, End
<1>2. TypeOK'
  BY <1>1 DEF TypeOK
<1>3. LocksApart'
  BY <1>1 DEF LocksApart, TypeOK
<1>4. CascadeIsWhole'
  <2>1. ~Cascaded(t)'
    BY <1>1 DEF Cascaded, TypeOK
  <2> QED
    BY <1>1, <2>1 DEF CascadeIsWhole, Cascaded, TypeOK
<1>5. ClearsUploads'
  BY <1>1 DEF ClearsUploads, TypeOK, Requests
<1> QED
  BY <1>1, <1>2, <1>3, <1>4, <1>5 DEF Rooted

\* What a commit removes: everything, or uploads with all that is theirs.
LEMMA CommitRemoves ==
  ASSUME DeletionInv, NEW t \in Requests, Commit(t)
  PROVE  /\ rows' = rows \ mine[t]
         /\ t \in Deletions => User \in rows /\ rows' = {}
         /\ t \in Clears =>
              LET uploads == {r \in mine[t] : Children[r] # {}}
              IN  mine[t] = rows \cap (uploads \cup UNION {Children[r] : r \in uploads})
<1> USE DEF DeletionInv
<1>1. /\ rows' = rows \ mine[t] /\ todo[t] = {} /\ step[t] = Len(Statements(t))
      /\ t \in Deletions => User \in mine[t] /\ rows = mine[t]
  BY DEF Commit, Executed
<1>2. ASSUME t \in Clears
      PROVE  LET uploads == {r \in mine[t] : Children[r] # {}}
             IN  mine[t] = rows \cap (uploads \cup UNION {Children[r] : r \in uploads})
  <2> DEFINE uploads == {r \in mine[t] : Children[r] # {}}
  <2>1. Cascaded(t)
    BY <1>1, <1>2, DeletionAssumption DEF Cascaded, Statements
  <2>2. \A r \in mine[t] : Children[r] \cap rows \subseteq mine[t]
    BY <1>1, <2>1 DEF CascadeIsWhole
  <2>3. \A r \in mine[t] : r \in uploads \/ \E q \in uploads : r \in Children[q]
    BY <1>2 DEF ClearsUploads
  <2>4. mine[t] \subseteq rows
    BY DEF LocksApart
  <2> QED
    BY <2>2, <2>3, <2>4
<1> QED
  BY <1>1, <1>2

LEMMA CommitInv ==
  ASSUME DeletionInv, NEW t \in Requests, Commit(t)
  PROVE  DeletionInv'
<1> USE DEF DeletionInv
<1>1. /\ step' = [step EXCEPT ![t] = 9] /\ todo' = [todo EXCEPT ![t] = {}]
      /\ mine' = [mine EXCEPT ![t] = {}] /\ rows' = rows \ mine[t]
      /\ UNCHANGED <<known, share>>
  BY DEF Commit, End
<1>2. TypeOK' /\ (rows \subseteq known)'
  BY <1>1 DEF TypeOK
<1>3. Rooted'
  <2>1. CASE t \in Deletions
    BY <2>1, CommitRemoves DEF Rooted
  <2>2. CASE t \in Clears
    <3> SUFFICES ASSUME NEW r \in rows', NEW p \in Parents[r], p \in mine[t]
                 PROVE  FALSE
      BY <1>1 DEF Rooted
    <3>1. /\ r \in rows /\ r \notin mine[t] /\ r \in Rows
      BY <1>1 DEF TypeOK
    <3> DEFINE uploads == {q \in mine[t] : Children[q] # {}}
    <3>2. mine[t] = rows \cap (uploads \cup UNION {Children[q] : q \in uploads})
      BY <2>2, CommitRemoves
    <3>3. p # User
      <4>1. Children[User] = {} /\ \A q \in uploads : User \notin Children[q]
        BY RowShapes DEF TypeOK
      <4> QED
        BY <3>2, <4>1
    <3>4. r \in Children[p]
      BY <3>1, <3>3, RowShapes
    <3>5. p \in uploads
      BY <3>4
    <3> QED
      BY <3>1, <3>2, <3>4, <3>5
  <2> QED
    BY <2>1, <2>2 DEF Requests
<1>4. LocksApart'
  BY <1>1 DEF LocksApart, TypeOK
<1>5. CascadeIsWhole'
  <2>1. ~Cascaded(t)'
    BY <1>1 DEF Cascaded, TypeOK
  <2> QED
    BY <1>1, <2>1 DEF CascadeIsWhole, Cascaded, TypeOK
<1>6. ClearsUploads'
  BY <1>1 DEF ClearsUploads, TypeOK, Requests
<1> QED
  BY <1>2, <1>3, <1>4, <1>5, <1>6

LEMMA StepInv ==
  ASSUME DeletionInv, [Next]_vars
  PROVE  DeletionInv'
<1>1. CASE UNCHANGED vars
  BY <1>1 DEF vars, locks, DeletionInv, TypeOK, Rooted, LocksApart, CascadeIsWhole,
    ClearsUploads, Cascaded
<1>2. ASSUME NEW u \in Uploads, CreateUpload(u) PROVE DeletionInv'
  BY <1>2, InsertInv, RowShapes DEF CreateUpload
<1>3. ASSUME NEW p \in Patterns, UpsertRule(p) PROVE DeletionInv'
  BY <1>3, InsertInv DEF UpsertRule, Rows
<1>4. ASSUME NEW n \in Names, AddCategory(n) PROVE DeletionInv'
  BY <1>4, InsertInv DEF AddCategory, Rows
<1>5. ASSUME NEW u \in Uploads, Inserts(u) \/ DropBatch(u) PROVE DeletionInv'
  BY <1>5, ShareLockInv, StoreInv, DropBatchInv DEF Inserts
<1>6. ASSUME NEW t \in Requests, Begin(t) \/ Runs(t) \/ Rollback(t) PROVE DeletionInv'
  BY <1>6, BeginInv, DeleteRowInv, NextStatementInv, CommitInv, RollbackInv DEF Runs, Refused
<1>7. ASSUME NEW a \in Uploads \cup Requests, Victim(a) PROVE DeletionInv'
  BY <1>7, DropBatchInv, RollbackInv DEF Victim
<1> QED
  BY <1>1, <1>2, <1>3, <1>4, <1>5, <1>6, <1>7 DEF Next

\* Rows stay rooted, locks keep what they have looked at, cascades are whole.
THEOREM DeletionInvariant == Spec => []DeletionInv
<1>1. Init => DeletionInv
  BY InitInv
<1>2. DeletionInv /\ [Next]_vars => DeletionInv'
  BY StepInv
<1> QED
  BY <1>1, <1>2, PTL DEF Spec

----------------------------------------------------------------------------
(* The refinement.                                                         *)

LEMMA InsertRefines ==
  ASSUME DeletionInv, NEW r \in Rows \ {User}, Insert(r)
  PROVE  Account!Next
<1>1. Parents[r] \subseteq rows /\ User \in rows /\ rows' = rows \cup {r}
  BY RowShapes DEF Insert
<1> QED
  BY <1>1 DEF Account!Next, Account!Insert

LEMMA StoreRefines ==
  ASSUME DeletionInv, NEW u \in Uploads, Store(u)
  PROVE  Account!Next
<1>1. Txn(u) \in Rows \ {User} /\ User \in Parents[Txn(u)]
  BY RowShapes
<1>2. Parents[Txn(u)] \subseteq rows /\ rows' = rows \cup {Txn(u)}
  BY DEF Store, DeletionInv, LocksApart
<1> QED
  BY <1>1, <1>2 DEF Account!Next, Account!Insert

LEMMA CommitRefines ==
  ASSUME DeletionInv, NEW t \in Requests, Commit(t)
  PROVE  Account!Next
<1>1. CASE t \in Deletions
  BY <1>1, CommitRemoves DEF Account!Next, Account!Delete
<1>2. CASE t \in Clears
  <2> DEFINE uploads == {r \in mine[t] : Children[r] # {}}
  <2>1. uploads \in SUBSET {r \in Rows : Children[r] # {}}
    BY DEF DeletionInv, TypeOK
  <2>2. rows' = rows \ (uploads \cup UNION {Children[r] : r \in uploads})
    BY <1>2, CommitRemoves
  <2>3. Account!Clear(uploads)
    BY <2>2 DEF Account!Clear
  <2> QED
    BY <2>1, <2>3 DEF Account!Next
<1> QED
  BY <1>1, <1>2 DEF Requests

LEMMA StepRefines ==
  ASSUME DeletionInv, [Next]_vars
  PROVE  [Account!Next]_rows
<1>1. CASE UNCHANGED vars
  BY <1>1 DEF vars
<1>2. ASSUME NEW u \in Uploads, CreateUpload(u) PROVE Account!Next
  BY <1>2, InsertRefines, RowShapes DEF CreateUpload
<1>3. ASSUME NEW p \in Patterns, UpsertRule(p) PROVE Account!Next
  BY <1>3, InsertRefines DEF UpsertRule, Rows, User
<1>4. ASSUME NEW n \in Names, AddCategory(n) PROVE Account!Next
  BY <1>4, InsertRefines DEF AddCategory, Rows, User
<1>5. ASSUME NEW u \in Uploads, Inserts(u) \/ DropBatch(u) PROVE [Account!Next]_rows
  BY <1>5, StoreRefines DEF Inserts, ShareLock, DropBatch
<1>6. ASSUME NEW t \in Requests, Begin(t) \/ Runs(t) \/ Rollback(t) PROVE [Account!Next]_rows
  BY <1>6, CommitRefines DEF Begin, Runs, DeleteRow, NextStatement, Refused, Rollback
<1>7. ASSUME NEW a \in Uploads \cup Requests, Victim(a) PROVE UNCHANGED rows
  BY <1>7 DEF Victim, DropBatch, Rollback
<1> QED
  BY <1>1, <1>2, <1>3, <1>4, <1>5, <1>6, <1>7 DEF Next

\* DeleteUser and ClearTransactions, statement by statement against concurrent
\* inserts, do in one step what AccountData says of them.
THEOREM DeletionIsOneStep == Spec => AtOnce
<1>1. Init => Account!Init
  BY DEF Init, Account!Init
<1>2. DeletionInv /\ [Next]_vars => [Account!Next]_rows
  BY StepRefines
<1> QED
  BY <1>1, <1>2, DeletionInvariant, PTL DEF Spec, AtOnce, Account!Spec

=============================================================================
