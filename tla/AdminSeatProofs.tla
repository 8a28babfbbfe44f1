-------------------------- MODULE AdminSeatProofs --------------------------
(* Proofs about AdminSeat, for any logins, accounts and requests.          *)
EXTENDS AdminSeat, TLAPS

(* Before the first login the seat is free and nothing is locked. *)
LEMMA InitSeatInv == Init => SeatInv
  BY SeatAssumption
     DEF Init, SeatInv, TypeOK, LockHolder, UniqueEmail, FreshId, OpenRow,
         ToldOnce, AtMostOneAdmin, WinnerHoldsSeat, DeletedOnce, SeatFilled, Ids, InTx,
         Ended

(* adminExists reads the table, and says which statement comes next. *)
LEMMA AdminExistsKeeps ==
  ASSUME SeatInv, NEW l \in Logins, AdminExists(l)
  PROVE  SeatInv'
  BY DEF AdminExists, Send, seat, request, SeatInv,
         TypeOK, LockHolder, UniqueEmail, FreshId, OpenRow, UpsertedRow,
         ToldOnce, AtMostOneAdmin, WinnerHoldsSeat, DeletedOnce, SeatFilled, InTx, Ended

(* The advisory lock is taken by one login at a time. *)
LEMMA LockSeatKeeps ==
  ASSUME SeatInv, NEW l \in Logins, LockSeat(l)
  PROVE  SeatInv'
  BY SeatAssumption DEF LockSeat, Send, request, SeatInv,
         TypeOK, LockHolder, UniqueEmail, FreshId, OpenRow, UpsertedRow,
         ToldOnce, AtMostOneAdmin, WinnerHoldsSeat, DeletedOnce, SeatFilled, InTx, Ended, Ids

(* GetUserByID changes no row. *)
LEMMA LookUpKeeps ==
  ASSUME SeatInv, NEW d \in Requests, LookUp(d)
  PROVE  SeatInv'
  BY DEF LookUp, Answer, seat, login, SeatInv,
         TypeOK, LockHolder, UniqueEmail, FreshId, OpenRow, UpsertedRow,
         ToldOnce, AtMostOneAdmin, WinnerHoldsSeat, DeletedOnce, SeatFilled, InTx, Ended

(* requireAdmin and the guard of deleteUser change no row. *)
LEMMA AuthorizeKeeps ==
  ASSUME SeatInv, NEW d \in Requests,
         NEW l \in Logins, NEW a \in Ids, Authorize(d, l, a)
  PROVE  SeatInv'
  BY DEF Authorize, Answer, seat, login, SeatInv,
         TypeOK, LockHolder, UniqueEmail, FreshId, OpenRow, UpsertedRow,
         ToldOnce, AtMostOneAdmin, WinnerHoldsSeat, DeletedOnce, SeatFilled, InTx, Ended

(* The plain upsert: the row it finds or inserts may be an administrator's,
   never its own new one. *)
LEMMA PlainUpsertKeeps ==
  ASSUME SeatInv, NEW l \in Logins, PlainUpsert(l)
  PROVE  SeatInv'
<1>1. TypeOK'
  BY DEF SeatInv, TypeOK, PlainUpsert, Send, UpsertedRow, RowLocked, request,
         Ended
<1>2. LockHolder'
  BY DEF SeatInv, TypeOK, LockHolder, PlainUpsert, Send, UpsertedRow,
         RowLocked, request, InTx
<1>3. UniqueEmail'
  BY DEF SeatInv, TypeOK, UniqueEmail, PlainUpsert, Send, UpsertedRow,
         RowLocked, request
<1>4. FreshId'
  BY DEF SeatInv, TypeOK, FreshId, PlainUpsert, Send, UpsertedRow, RowLocked,
         request, Ended
<1>5. OpenRow'
  BY DEF SeatInv, TypeOK, LockHolder, OpenRow, PlainUpsert, Send, UpsertedRow,
         RowLocked, request
<1>6. ToldOnce'
  BY DEF SeatInv, TypeOK, ToldOnce, PlainUpsert, Send, UpsertedRow, RowLocked,
         request, Ended
<1>7. AtMostOneAdmin'
  BY DEF SeatInv, TypeOK, AtMostOneAdmin, PlainUpsert, Send, UpsertedRow,
         RowLocked, request
<1>8. WinnerHoldsSeat'
  BY DEF SeatInv, TypeOK, FreshId, ToldOnce, WinnerHoldsSeat, PlainUpsert,
         Send, UpsertedRow, RowLocked, request, Ended
<1>9. DeletedOnce'
  BY DEF SeatInv, TypeOK, FreshId, DeletedOnce, PlainUpsert, Send,
         UpsertedRow, RowLocked, request, Ended
<1>10. SeatFilled'
  BY DEF SeatInv, TypeOK, SeatFilled, PlainUpsert, Send, UpsertedRow, RowLocked, request
<1> QED
  BY <1>1, <1>2, <1>3, <1>4, <1>5, <1>6, <1>7, <1>8, <1>9, <1>10 DEF SeatInv

(* In the transaction: the row found is locked, and if it is the
   administrator's it is the only one. *)
LEMMA UpsertRowKeeps ==
  ASSUME SeatInv, NEW l \in Logins, UpsertRow(l)
  PROVE  SeatInv'
<1>1. TypeOK'
  BY DEF SeatInv, TypeOK, UpsertRow, Send, UpsertedRow, seat, request, InTx
<1>2. LockHolder'
  BY DEF SeatInv, TypeOK, LockHolder, UpsertRow, Send, UpsertedRow, seat,
         request, InTx
<1>3. UniqueEmail'
  BY DEF SeatInv, TypeOK, UniqueEmail, UpsertRow, Send, UpsertedRow, seat,
         request
<1>4. FreshId'
  BY DEF SeatInv, TypeOK, FreshId, UpsertRow, Send, UpsertedRow, seat,
         request, Ended
<1>5. OpenRow'
  BY DEF SeatInv, TypeOK, LockHolder, OpenRow, ToldOnce, AtMostOneAdmin,
         UpsertRow, Send, UpsertedRow, seat, request, InTx, Ended
<1>6. ToldOnce'
  BY DEF SeatInv, TypeOK, ToldOnce, UpsertRow, Send, UpsertedRow, seat,
         request, Ended
<1>7. AtMostOneAdmin'
  BY DEF SeatInv, TypeOK, AtMostOneAdmin, UpsertRow, Send, UpsertedRow, seat,
         request
<1>8. WinnerHoldsSeat'
  BY DEF SeatInv, TypeOK, WinnerHoldsSeat, UpsertRow, Send, UpsertedRow, seat,
         request
<1>9. DeletedOnce'
  BY DEF SeatInv, TypeOK, DeletedOnce, UpsertRow, Send, UpsertedRow, seat,
         request
<1>10. SeatFilled'
  BY DEF SeatInv, TypeOK, SeatFilled, UpsertRow, Send, UpsertedRow, seat, request
<1> QED
  BY <1>1, <1>2, <1>3, <1>4, <1>5, <1>6, <1>7, <1>8, <1>9, <1>10 DEF SeatInv

(* The re-check: only an empty seat is claimed. *)
LEMMA ClaimKeeps ==
  ASSUME SeatInv, NEW l \in Logins, Claim(l)
  PROVE  SeatInv'
<1>1. TypeOK'
  BY DEF SeatInv, TypeOK, Claim, Send, seat, request, InTx
<1>2. LockHolder'
  BY DEF SeatInv, TypeOK, LockHolder, Claim, Send, seat, request, InTx
<1>3. UniqueEmail'
  BY DEF SeatInv, TypeOK, UniqueEmail, Claim, Send, seat, request
<1>4. FreshId'
  BY DEF SeatInv, TypeOK, FreshId, Claim, Send, seat, request, Ended
<1>5. OpenRow'
  BY DEF SeatInv, TypeOK, LockHolder, OpenRow, Claim, Send, seat, request,
         UpsertedRow
<1>6. ToldOnce'
  BY DEF SeatInv, TypeOK, ToldOnce, Claim, Send, seat, request
<1>7. AtMostOneAdmin'
  BY DEF SeatInv, TypeOK, AtMostOneAdmin, Claim, Send, seat, request
<1>8. WinnerHoldsSeat'
  BY DEF SeatInv, TypeOK, WinnerHoldsSeat, Claim, Send, seat, request
<1>9. DeletedOnce'
  BY DEF SeatInv, TypeOK, DeletedOnce, Claim, Send, seat, request
<1>10. SeatFilled'
  BY DEF SeatInv, TypeOK, SeatFilled, Claim, Send, seat, request
<1> QED
  BY <1>1, <1>2, <1>3, <1>4, <1>5, <1>6, <1>7, <1>8, <1>9, <1>10 DEF SeatInv

(* The claim takes effect: AtMostOneAdmin and WinnerHoldsSeat follow from
   OpenRow. *)
LEMMA CommitKeeps ==
  ASSUME SeatInv, NEW l \in Logins, Commit(l)
  PROVE  SeatInv'
<1>1. TypeOK'
  BY DEF SeatInv, TypeOK, OpenRow, Commit, Apply, Send, UpsertedRow, request,
         Ids, InTx, Ended
<1>2. LockHolder'
  BY SeatAssumption DEF SeatInv, TypeOK, LockHolder, Commit, Apply, Send,
         UpsertedRow, request, Ids, InTx, Ended
<1>3. UniqueEmail'
  BY DEF SeatInv, TypeOK, UniqueEmail, OpenRow, Commit, Apply, Send,
         UpsertedRow, request, Ended
<1>4. FreshId'
  BY DEF SeatInv, TypeOK, FreshId, Commit, Apply, Send, UpsertedRow, request,
         Ended
<1>5. OpenRow'
  BY DEF SeatInv, TypeOK, LockHolder, OpenRow, Commit, Apply, Send,
         UpsertedRow, request, InTx
<1>6. ToldOnce'
  BY DEF SeatInv, TypeOK, ToldOnce, Commit, Apply, Send, UpsertedRow, request,
         Ended
<1>7. AtMostOneAdmin'
  BY DEF SeatInv, TypeOK, OpenRow, AtMostOneAdmin, Commit, Apply, Send,
         UpsertedRow, request, Ended
<1>8. WinnerHoldsSeat'
  BY DEF SeatInv, TypeOK, FreshId, OpenRow, ToldOnce, WinnerHoldsSeat, Commit,
         Apply, Send, UpsertedRow, request, Ended
<1>9. DeletedOnce'
  BY DEF SeatInv, TypeOK, FreshId, OpenRow, DeletedOnce, Commit, Apply, Send,
         UpsertedRow, request, Ended
<1>10. SeatFilled'
  BY DEF SeatInv, TypeOK, SeatFilled, Commit, Apply, Send, request
<1> QED
  BY <1>1, <1>2, <1>3, <1>4, <1>5, <1>6, <1>7, <1>8, <1>9, <1>10 DEF SeatInv

(* A login that ends without an answer has rolled back or taken effect. *)
LEMMA GiveUpKeeps ==
  ASSUME SeatInv, NEW l \in Logins, GiveUp(l)
  PROVE  SeatInv'
<1>1. TypeOK'
  BY DEF SeatInv, TypeOK, OpenRow, GiveUp, Apply, Send, UpsertedRow,
         RowLocked, request, Ids, InTx, Ended
<1>2. LockHolder'
  BY SeatAssumption DEF SeatInv, TypeOK, LockHolder, GiveUp, Apply, Send,
         UpsertedRow, RowLocked, request, Ids, InTx, Ended
<1>3. UniqueEmail'
  BY DEF SeatInv, TypeOK, UniqueEmail, OpenRow, GiveUp, Apply, Send,
         UpsertedRow, RowLocked, request, Ended
<1>4. FreshId'
  BY DEF SeatInv, TypeOK, FreshId, GiveUp, Apply, Send, UpsertedRow,
         RowLocked, request, Ended
<1>5. OpenRow'
  BY DEF SeatInv, TypeOK, LockHolder, OpenRow, GiveUp, Apply, Send,
         UpsertedRow, RowLocked, request, InTx
<1>6. ToldOnce'
  BY DEF SeatInv, TypeOK, ToldOnce, GiveUp, Apply, Send, UpsertedRow,
         RowLocked, request, Ended
<1>7. AtMostOneAdmin'
  BY DEF SeatInv, TypeOK, OpenRow, AtMostOneAdmin, GiveUp, Apply, Send,
         UpsertedRow, RowLocked, request, Ended
<1>8. WinnerHoldsSeat'
  BY DEF SeatInv, TypeOK, FreshId, OpenRow, ToldOnce, WinnerHoldsSeat, GiveUp,
         Apply, Send, UpsertedRow, RowLocked, request, Ended
<1>9. DeletedOnce'
  BY DEF SeatInv, TypeOK, FreshId, OpenRow, DeletedOnce, GiveUp, Apply, Send,
         UpsertedRow, RowLocked, request, Ended
<1>10. SeatFilled'
  BY DEF SeatInv, TypeOK, SeatFilled, GiveUp, Apply, Send, RowLocked, request, Ended
<1> QED
  BY <1>1, <1>2, <1>3, <1>4, <1>5, <1>6, <1>7, <1>8, <1>9, <1>10 DEF SeatInv

(* A deletion waits for the rows of the open transaction, and an account that
   is gone was inserted by a login that has ended (FreshId). *)
LEMMA DeleteUserKeeps ==
  ASSUME SeatInv, NEW d \in Requests, DeleteUser(d)
  PROVE  SeatInv'
<1>1. TypeOK'
  BY DEF SeatInv, TypeOK, DeleteUser, Remove, Answer, RowLocked, seat, login
<1>2. LockHolder'
  BY DEF SeatInv, TypeOK, LockHolder, DeleteUser, Remove, Answer, RowLocked,
         seat, login
<1>3. UniqueEmail'
  BY DEF SeatInv, TypeOK, UniqueEmail, DeleteUser, Remove, Answer, RowLocked,
         seat, login
<1>4. FreshId'
  BY DEF SeatInv, TypeOK, FreshId, DeleteUser, Remove, Answer, RowLocked,
         seat, login
<1>5. OpenRow'
  BY DEF SeatInv, TypeOK, LockHolder, OpenRow, DeleteUser, Remove, Answer,
         RowLocked, seat, login, UpsertedRow
<1>6. ToldOnce'
  BY DEF SeatInv, TypeOK, ToldOnce, DeleteUser, Remove, Answer, RowLocked,
         seat, login
<1>7. AtMostOneAdmin'
  BY DEF SeatInv, TypeOK, AtMostOneAdmin, DeleteUser, Remove, Answer,
         RowLocked, seat, login
<1>8. WinnerHoldsSeat'
  BY DEF SeatInv, TypeOK, WinnerHoldsSeat, DeleteUser, Remove, Answer,
         RowLocked, seat, login
<1>9. DeletedOnce'
  BY DEF SeatInv, TypeOK, DeletedOnce, DeleteUser, Remove, Answer, RowLocked,
         seat, login
<1>10. SeatFilled'
  BY DEF SeatInv, TypeOK, SeatFilled, DeleteUser, Remove, Answer, seat, login
<1> QED
  BY <1>1, <1>2, <1>3, <1>4, <1>5, <1>6, <1>7, <1>8, <1>9, <1>10 DEF SeatInv

(* Every step of the system keeps the invariant. *)
LEMMA NextKeeps == SeatInv /\ [Next]_vars => SeatInv'
<1> SUFFICES ASSUME SeatInv, [Next]_vars
             PROVE  SeatInv'
  OBVIOUS
<1>1. ASSUME NEW l \in Logins, AdminExists(l) \/ LoginStep(l) \/ GiveUp(l)
      PROVE  SeatInv'
  BY <1>1, AdminExistsKeeps, PlainUpsertKeeps, LockSeatKeeps, UpsertRowKeeps,
     ClaimKeeps, CommitKeeps, GiveUpKeeps DEF LoginStep
<1>2. ASSUME NEW d \in Requests,
             \/ \E l \in Logins, a \in Ids : Authorize(d, l, a)
             \/ LookUp(d)
             \/ DeleteUser(d)
      PROVE  SeatInv'
  BY <1>2, AuthorizeKeeps, LookUpKeeps, DeleteUserKeeps
<1>3. CASE UNCHANGED vars
  BY <1>3 DEF vars, seat, login, request, SeatInv,
         TypeOK, LockHolder, UniqueEmail, FreshId, OpenRow, UpsertedRow,
         ToldOnce, AtMostOneAdmin, WinnerHoldsSeat, DeletedOnce, SeatFilled, InTx, Ended
<1> QED BY <1>1, <1>2, <1>3 DEF Next

\* Everything below holds in every reachable state, with any number of logins,
\* accounts and DELETE requests.
THEOREM SeatInvariant == Spec => []SeatInv
  BY InitSeatInv, NextKeeps, PTL DEF Spec

\* Exactly one of several first logins wins (GetOrCreateUserByEmail).
THEOREM OneAdministrator == Spec => []AtMostOneAdmin
<1>1. SeatInv => AtMostOneAdmin
  BY DEF SeatInv
<1> QED BY <1>1, SeatInvariant, PTL

\* Nobody comes away from a login believing they won who did not.
THEOREM WinnersHoldTheSeat == Spec => []WinnerHoldsSeat
<1>1. SeatInv => WinnerHoldsSeat
  BY DEF SeatInv
<1> QED BY <1>1, SeatInvariant, PTL

\* Two administrators who delete one account are not both told they did, and
\* the account does not come back.
THEOREM AccountsAreDeletedOnce == Spec => []DeletedOnce
<1>1. SeatInv => DeletedOnce
  BY DEF SeatInv
<1> QED BY <1>1, SeatInvariant, PTL

\* The first account to log in becomes the administrator: only a deletion makes
\* the seat free again once a login was answered, so no login is answered past
\* a seat that nobody took (adminExists, then the claim under the lock).
THEOREM AnsweredLoginsFillTheSeat == Spec => []SeatIsTaken
<1>1. SeatInv => SeatIsTaken
  BY DEF SeatInv, SeatFilled, SeatIsTaken
<1> QED BY <1>1, SeatInvariant, PTL

\* The seat changes hands only through a vacancy.
THEOREM SeatChanges == Spec => SeatChangesHands
<1>1. ASSUME SeatInv, [Next]_vars, admins # {}, admins' # admins
      PROVE  admins' = {}
  <2>1. ASSUME NEW l \in Logins, Apply(l), pc[l] = "commit"
        PROVE  admins' = admins
    BY <1>1, <2>1 DEF SeatInv, TypeOK, OpenRow, Apply
  <2>2. ASSUME NEW l \in Logins, AdminExists(l) \/ LoginStep(l) \/ GiveUp(l)
        PROVE  admins' = admins
    BY <2>1, <2>2 DEF AdminExists, LoginStep, PlainUpsert, LockSeat, UpsertRow,
                      Claim, Commit, GiveUp, seat
  <2>3. ASSUME NEW d \in Requests, DeleteUser(d)
        PROVE  admins' \in {admins, {}}
    BY <1>1, <2>3 DEF SeatInv, AtMostOneAdmin, DeleteUser, Remove, seat
  <2>4. ASSUME NEW d \in Requests,
               \/ \E l \in Logins, a \in Ids : Authorize(d, l, a)
               \/ LookUp(d)
        PROVE  admins' = admins
    BY <2>4 DEF Authorize, LookUp, seat
  <2>5. CASE UNCHANGED vars
    BY <1>1, <2>5 DEF vars, seat
  <2> QED BY <1>1, <2>2, <2>3, <2>4, <2>5 DEF Next
<1>2. SeatInv /\ [Next]_vars => [admins # {} /\ admins' # admins => admins' = {}]_vars
  BY <1>1
<1> QED BY <1>2, SeatInvariant, PTL DEF Spec, SeatChangesHands

=============================================================================
