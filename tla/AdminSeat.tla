----------------------------- MODULE AdminSeat -----------------------------
(***************************************************************************)
(* Who is administrator: logins that create accounts and claim the free    *)
(* seat, and administrators that delete accounts.                          *)
(*                                                                         *)
(* Every statement sent to the database is one action; what a transaction  *)
(* wrote shows at its commit, and the rows it wrote stay locked until then. *)
(* An account is named after the login that inserted its row, as its id is *)
(* fresh; a login request is answered once.                                *)
(***************************************************************************)
CONSTANTS
  Logins,     \* login requests
  Seeded,     \* accounts older than the is_admin column
  Emails,     \* normalised addresses
  EmailOf,    \* the address of a login or of a seeded account
  AllowList,  \* ADMIN_EMAILS
  Requests,   \* DELETE requests to the admin page
  Nobody      \* no login, no account

Ids == Logins \cup Seeded

ASSUME SeatAssumption ==
  /\ Logins \cap Seeded = {}
  /\ Nobody \notin Ids
  /\ EmailOf \in [Ids -> Emails]
  /\ \A a, b \in Seeded : EmailOf[a] = EmailOf[b] => a = b
  /\ AllowList \subseteq Emails

VARIABLES
  accounts,  \* rows of users
  admins,    \* rows with is_admin
  lock,      \* the login that holds the advisory lock
  pc,        \* the statement each login is about to send
  uid,       \* the account a login found or inserted
  told,      \* logins whose row came back with is_admin
  outcome,   \* how far each DELETE request has come
  target     \* the account it names

seat    == <<accounts, admins, lock>>
login   == <<pc, uid, told>>
request == <<outcome, target>>
vars    == <<seat, login, request>>

Ended == {"done", "failed"}
InTx  == {"row", "claim", "commit"}

TypeOK ==
  /\ accounts \subseteq Ids
  /\ admins \subseteq accounts
  /\ lock \in Logins \cup {Nobody}
  /\ pc \in [Logins -> {"idle", "plain", "lock"} \cup InTx \cup Ended]
  /\ uid \in [Logins -> Ids \cup {Nobody}]
  /\ told \subseteq Logins
  /\ outcome \in [Requests ->
       {"idle", "lookup", "delete", "deleted", "missing", "failed"}]
  /\ target \in [Requests -> Ids \cup {Nobody}]

Init ==
  /\ accounts = Seeded
  /\ admins = {}
  /\ lock = Nobody
  /\ pc = [l \in Logins |-> "idle"]
  /\ uid = [l \in Logins |-> Nobody]
  /\ told = {}
  /\ outcome = [d \in Requests |-> "idle"]
  /\ target = [d \in Requests |-> Nobody]

----------------------------------------------------------------------------
(* GetOrCreateUserByEmail.                                                 *)

Send(l, statement) == pc' = [pc EXCEPT ![l] = statement]

\* adminExists: with an administrator in place the login is a plain upsert.
AdminExists(l) ==
  /\ pc[l] = "idle"
  /\ Send(l, IF admins # {} THEN "plain" ELSE "lock")
  /\ UNCHANGED <<seat, uid, told, request>>

\* The row that INSERT ... ON CONFLICT (email) DO UPDATE returns.
UpsertedRow(l, a) ==
  \/ a \in accounts /\ EmailOf[a] = EmailOf[l]
  \/ a = l /\ \A b \in accounts : EmailOf[b] # EmailOf[l]

\* A row written by an open transaction, or the key of its new row.
RowLocked(email) ==
  \E l \in Logins : pc[l] \in {"claim", "commit"} /\ EmailOf[l] = email

\* Mutant: the answer says whether the seat is claimed, not who holds it.
PlainUpsertTellsClaimed(l) ==
  /\ pc[l] = "plain"
  /\ ~RowLocked(EmailOf[l])
  /\ \E a \in Ids :
       /\ UpsertedRow(l, a)
       /\ accounts' = accounts \cup {a}
       /\ uid' = [uid EXCEPT ![l] = a]
  /\ told' = told \cup {l}
  /\ Send(l, "done")
  /\ UNCHANGED <<admins, lock, request>>

PlainUpsert(l) ==
  /\ pc[l] = "plain"
  /\ ~RowLocked(EmailOf[l])
  /\ \E a \in Ids :
       /\ UpsertedRow(l, a)
       /\ accounts' = accounts \cup {a}
       /\ uid' = [uid EXCEPT ![l] = a]
       /\ told' = IF a \in admins THEN told \cup {l} ELSE told
  /\ Send(l, "done")
  /\ UNCHANGED <<admins, lock, request>>

\* Mutant: no advisory lock.
LockSeatShared(l) ==
  /\ pc[l] = "lock"
  /\ lock' = l
  /\ Send(l, "row")
  /\ UNCHANGED <<accounts, admins, uid, told, request>>

\* BEGIN and pg_advisory_xact_lock.
LockSeat(l) ==
  /\ pc[l] = "lock"
  /\ lock = Nobody
  /\ lock' = l
  /\ Send(l, "row")
  /\ UNCHANGED <<accounts, admins, uid, told, request>>

\* The upsert of the transaction; an administrator's row needs no claim.
UpsertRow(l) ==
  /\ pc[l] = "row"
  /\ \E a \in Ids :
       /\ UpsertedRow(l, a)
       /\ uid' = [uid EXCEPT ![l] = a]
       /\ IF a \in admins
            THEN told' = told \cup {l} /\ Send(l, "commit")
            ELSE UNCHANGED told /\ Send(l, "claim")
  /\ UNCHANGED <<seat, request>>

\* Mutant: the seat is not looked at again under the lock.
ClaimUnchecked(l) ==
  /\ pc[l] = "claim"
  /\ told' = told \cup {l}
  /\ Send(l, "commit")
  /\ UNCHANGED <<seat, uid, request>>

\* Mutant: the claim is sent before the upsert, and finds no row of a new user.
ClaimBeforeUpsert(l) ==
  /\ pc[l] = "claim"
  /\ told' = IF admins = {} /\ uid[l] \in accounts THEN told \cup {l} ELSE told
  /\ Send(l, "commit")
  /\ UNCHANGED <<seat, uid, request>>

\* UPDATE users SET is_admin ... AND NOT EXISTS (... WHERE is_admin).
Claim(l) ==
  /\ pc[l] = "claim"
  /\ told' = IF admins = {} THEN told \cup {l} ELSE told
  /\ Send(l, "commit")
  /\ UNCHANGED <<seat, uid, request>>

\* The transaction takes effect, and its advisory lock is released.
Apply(l) ==
  /\ accounts' = accounts \cup {uid[l]}
  /\ admins' = IF l \in told THEN admins \cup {uid[l]} ELSE admins
  /\ lock' = Nobody

Commit(l) ==
  /\ pc[l] = "commit"
  /\ Apply(l)
  /\ Send(l, "done")
  /\ UNCHANGED <<uid, told, request>>

\* Mutant: a lock of the session, which a rollback does not release.
GiveUpKeepingLock(l) ==
  /\ pc[l] \notin Ended \cup {"idle"}
  /\ Send(l, "failed")
  /\ UNCHANGED <<seat, uid, told, request>>

\* The connection breaks or the client leaves: the transaction is rolled
\* back, unless its commit, or the plain upsert, was already under way.
GiveUp(l) ==
  /\ pc[l] \notin Ended \cup {"idle"}
  /\ \/ /\ lock' = IF lock = l THEN Nobody ELSE lock
        /\ UNCHANGED <<accounts, admins>>
     \/ /\ pc[l] = "commit"
        /\ Apply(l)
     \/ /\ pc[l] = "plain"
        /\ ~RowLocked(EmailOf[l])
        /\ \E a \in Ids : UpsertedRow(l, a) /\ accounts' = accounts \cup {a}
        /\ UNCHANGED <<admins, lock>>
  /\ Send(l, "failed")
  /\ UNCHANGED <<uid, told, request>>

LoginStep(l) ==
  PlainUpsert(l) \/ LockSeat(l) \/ UpsertRow(l) \/ Claim(l) \/ Commit(l)

----------------------------------------------------------------------------
(* The deleteUser handler.  A session is the answer to a login, and names  *)
(* the account and its address for 30 days, whatever becomes of it.        *)

Answer(d, o) == outcome' = [outcome EXCEPT ![d] = o]

\* isAdmin: the allowlist goes by address, the flag is read from the table.
IsAdmin(l) == EmailOf[l] \in AllowList \/ uid[l] \in admins

\* requireAdmin, and the guard against deleting oneself.  The guard compares the
\* id in the path with the one in the session as strings; PostgreSQL reads other
\* spellings as the same uuid, so a request may also name its own account.
\* Requests that are refused change nothing.
Authorize(d, l, a) ==
  /\ outcome[d] = "idle"
  /\ pc[l] = "done"
  /\ IsAdmin(l)
  /\ target' = [target EXCEPT ![d] = a]
  /\ Answer(d, "lookup")
  /\ UNCHANGED <<seat, login>>

LookUp(d) ==
  /\ outcome[d] = "lookup"
  /\ Answer(d, IF target[d] \in accounts THEN "delete" ELSE "missing")
  /\ UNCHANGED <<seat, login, target>>

Remove(a) ==
  /\ ~RowLocked(EmailOf[a])
  /\ accounts' = accounts \ {a}
  /\ admins' = admins \ {a}
  /\ UNCHANGED lock

\* Mutant: the number of rows that DELETE FROM users removed is not looked at.
DeleteUserUncounted(d) ==
  /\ outcome[d] = "delete"
  /\ Remove(target[d])
  /\ Answer(d, "deleted")
  /\ UNCHANGED <<login, target>>

\* store.DeleteUser commits, finds nobody, or fails, committed or not.
DeleteUser(d) ==
  /\ outcome[d] = "delete"
  /\ \/ /\ target[d] \in accounts
        /\ Remove(target[d])
        /\ \E o \in {"deleted", "failed"} : Answer(d, o)
     \/ /\ target[d] \notin accounts
        /\ Answer(d, "missing")
        /\ UNCHANGED seat
     \/ /\ Answer(d, "failed")
        /\ UNCHANGED seat
  /\ UNCHANGED <<login, target>>

----------------------------------------------------------------------------
Next ==
  \/ \E l \in Logins : AdminExists(l) \/ LoginStep(l) \/ GiveUp(l)
  \/ \E d \in Requests :
       \/ \E l \in Logins, a \in Ids : Authorize(d, l, a)
       \/ LookUp(d)
       \/ DeleteUser(d)

Spec == Init /\ [][Next]_vars

\* A login that was received is served; clients may leave, or never come.
FairSpec == Spec /\ \A l \in Logins : WF_vars(LoginStep(l))

----------------------------------------------------------------------------
(* Properties.                                                             *)

\* The claim is settled so that exactly one of several first logins wins:
\* there are never two administrators by claim.
AtMostOneAdmin == \A a, b \in admins : a = b

\* Nobody comes away believing they won who did not: an account that was told
\* it is administrator is, for as long as it exists.
WinnerHoldsSeat ==
  \A l \in told : pc[l] = "done" /\ uid[l] \in accounts => uid[l] \in admins

\* The first account to log in becomes the administrator: unless an account
\* was deleted, an answered login leaves the seat taken, seeded accounts or not.
SeatIsTaken ==
  (\E l \in Logins : pc[l] = "done") /\ admins = {} =>
    \E d \in Requests : outcome[d] \in {"deleted", "failed"}

\* A delete that raced with another administrator is told apart: an account is
\* reported deleted once, and is not there again afterwards.
DeletedOnce ==
  \A d \in Requests : outcome[d] = "deleted" =>
    /\ target[d] \notin accounts
    /\ \A e \in Requests : outcome[e] = "deleted" /\ target[e] = target[d] => e = d

\* The seat changes hands only through a vacancy, which only the deletion of
\* its holder makes.
SeatChangesHands == [][admins # {} /\ admins' # admins => admins' = {}]_vars

\* A login waiting for the advisory lock gets its answer: whoever holds the
\* lock lets go of it, also when its client leaves or its connection breaks.
LoginsAnswered == \A l \in Logins : pc[l] = "lock" ~> pc[l] \in Ended

----------------------------------------------------------------------------
(* The inductive invariant.                                                *)

\* The transaction that claims holds the advisory lock, and nobody else does.
LockHolder == \A l \in Logins : pc[l] \in InTx <=> lock = l

\* The table's UNIQUE (email).
UniqueEmail ==
  \A a, b \in accounts : EmailOf[a] = EmailOf[b] => a = b

\* A login that has not ended has not inserted a row another one knows of.
FreshId ==
  \A l \in Logins : pc[l] \notin Ended =>
    /\ l \notin accounts
    /\ \A m \in Logins : m # l => uid[m] # l
    /\ \A d \in Requests : outcome[d] = "deleted" => target[d] # l

\* The row of the open transaction: an existing one, which its lock keeps, or
\* a new one, which no other row stands in the way of.
OpenRow ==
  \A l \in Logins : pc[l] \in {"claim", "commit"} =>
    /\ UpsertedRow(l, uid[l])
    /\ l \in told => pc[l] = "commit" /\ admins \subseteq {uid[l]}

\* Only a row that was read or claimed says who is administrator.
ToldOnce == \A l \in told : pc[l] \in {"commit"} \cup Ended

\* As long as nobody was deleted, the plain path is taken past an administrator
\* only, and the transaction that commits either met one or has claimed.
SeatFilled ==
  (\A d \in Requests : outcome[d] \notin {"deleted", "failed"}) =>
    \A l \in Logins :
      /\ pc[l] \in {"plain", "done"} => admins # {}
      /\ pc[l] = "commit" => admins # {} \/ l \in told

SeatInv ==
  /\ TypeOK
  /\ LockHolder
  /\ UniqueEmail
  /\ FreshId
  /\ OpenRow
  /\ ToldOnce
  /\ AtMostOneAdmin
  /\ WinnerHoldsSeat
  /\ DeletedOnce
  /\ SeatFilled

=============================================================================
