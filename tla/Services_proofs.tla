--------------------------- MODULE Services_proofs ---------------------------
(*****************************************************************************)
(* Proofs about the services of the server: accounts, backups and            *)
(* restores, notifications, exports.                                         *)
(*****************************************************************************)
EXTENDS Accounts, Restore, Notify, Exports, FiniteSetTheorems, WellFoundedInduction, TLAPS

---------------------------------------------------------------------------
(* The accounts. *)

\* What holds of the accounts for any users, names and requests: there is one first
\* administrator, and from then on an active one, unless requests of administrators
\* overlapped.
\* The property is not inductive.  A request is judged when it arrives and writes later,
\* so the invariant says of every request that is to come that somebody administers
\* after it (Ahead), and that at most one such request is under way (Exclusive); that is
\* what overlapping breaks.

Row == [name : UserNames \cup {""}, pass : Nat, active : BOOLEAN, admin : BOOLEAN]
Pcs == AdminPcs \cup {"idle", "setup", "login", "password", "prune"}
Request == [pc : Pcs, id : UserIds \cup {0}, row : Row, wipe : BOOLEAN, device : Requests \cup {0}]

AccountsTypeOK ==
    /\ acUsers \in [Users -> Row]
    /\ acReqs \in [Requests -> Request]
    /\ acPassed \in Nat /\ acSetups \in Nat /\ acCrowded \in BOOLEAN

Administers(u)    == acUsers[u].active /\ acUsers[u].admin
SomeAdministrator == \E u \in Users : Administers(u)
Another(id)       == \E u \in Users \ {id} : Administers(u)

\* At most one request of an administrator is under way.
Exclusive ==
    \A a, b \in Requests : acReqs[a].pc \in AdminPcs /\ acReqs[b].pc \in AdminPcs => a = b

\* Once the request r has written, somebody administers still.
Leaves(r) ==
    /\ r.pc = "create" => SomeAdministrator
    /\ r.pc = "delete" => Another(r.id)
    /\ r.pc = "update" => (r.row.active /\ r.row.admin) \/ Another(r.id)

Ahead == \A a \in Requests : Leaves(acReqs[a])

\* The setup page has done its work once users exist, and they keep an administrator.
Stands ==
    /\ acSetups <= 1
    /\ acSetups > 0 => Users # {}
    /\ Users # {} => SomeAdministrator

StandInv == AccountsTypeOK /\ (~acCrowded => Exclusive /\ Ahead /\ Stands)

\* Nobody loses the right to administer, and no user goes.
Keeps == Users \subseteq Users' /\ \A u \in Users : Administers(u) => Administers(u)'

---------------------------------------------------------------------------
(* Lemmas. *)

LEMMA QuietTyped == Quiet \in Request /\ Quiet.pc \notin AdminPcs
<1>1. NoUser \in Row
  BY DEF NoUser, Row
<1> QED BY <1>1 DEF Quiet, Request, Pcs, AdminPcs

\* What was left to somebody stays left to him.
LEMMA LeavesOn ==
  ASSUME Keeps, NEW r, Leaves(r)
  PROVE  Leaves(r)'
<1>1. SomeAdministrator => SomeAdministrator'
  BY DEF SomeAdministrator, Keeps
<1>2. ASSUME NEW id, Another(id) PROVE Another(id)'
  BY <1>2 DEF Another, Keeps
<1> QED BY <1>1, <1>2 DEF Leaves

\* Where nobody loses a right, requests end or turn to what is no administrator's
\* business, and no first user appears, all stands.
LEMMA AccountsSettled ==
  ASSUME StandInv, AccountsTypeOK', Keeps,
         UNCHANGED <<acSetups, acCrowded>>,
         \A a \in Requests : acReqs'[a] = acReqs[a] \/ acReqs'[a].pc \notin AdminPcs,
         ~acCrowded /\ Users' # {} => SomeAdministrator'
  PROVE  StandInv'
<1> SUFFICES ASSUME ~acCrowded PROVE (Exclusive /\ Ahead /\ Stands)'
  BY DEF StandInv
<1>1. Exclusive'
  BY DEF StandInv, Exclusive
<1>2. ASSUME NEW a \in Requests PROVE Leaves(acReqs[a])'
  <2>1. CASE acReqs'[a] = acReqs[a]
    <3>1. PICK r : r = acReqs[a]
      OBVIOUS
    <3>2. Leaves(r)
      BY <3>1 DEF StandInv, Ahead
    <3> QED BY <3>1, <3>2, <2>1, LeavesOn DEF Leaves
  <2>2. CASE acReqs'[a].pc \notin AdminPcs
    BY <2>2 DEF Leaves, AdminPcs
  <2> QED BY <2>1, <2>2
<1>3. Stands'
  <2>1. Users # {} => Users' # {}
    BY DEF Keeps
  <2> QED BY <2>1 DEF StandInv, Stands
<1> QED BY <1>1, <1>2, <1>3 DEF Ahead

\* A request of an administrator arrives, is judged, and leaves somebody.
LEMMA Opened ==
  ASSUME StandInv, NEW a \in Requests, NEW r \in Request, Open(a, r),
         r.pc \in AdminPcs => Leaves(r),
         UNCHANGED <<acUsers, acPassed, acSetups>>
  PROVE  StandInv'
<1>1. AccountsTypeOK'
  BY DEF StandInv, AccountsTypeOK, Open, Users
<1>2. acReqs' = [acReqs EXCEPT ![a] = r] /\ acReqs \in [Requests -> Request]
  BY DEF Open, StandInv, AccountsTypeOK
<1>3. acCrowded' = (acCrowded \/ (r.pc \in AdminPcs /\ \E b \in Requests : acReqs[b].pc \in AdminPcs))
  BY DEF Open
<1> SUFFICES ASSUME ~acCrowded' PROVE (Exclusive /\ Ahead /\ Stands)'
  BY <1>1 DEF StandInv
<1>4. Exclusive /\ Ahead /\ Stands
  BY <1>3 DEF StandInv
<1>5. Exclusive'
  BY <1>2, <1>3, <1>4 DEF Exclusive
<1>6. ASSUME NEW s, Leaves(s) PROVE Leaves(s)'
  BY <1>6 DEF Leaves, SomeAdministrator, Another, Administers, Users
<1>7. Leaves(r)
  BY DEF Leaves, AdminPcs
<1>8. Ahead'
  <2> SUFFICES ASSUME NEW b \in Requests PROVE Leaves(acReqs[b])'
    BY DEF Ahead
  <2>1. PICK s : s = acReqs'[b]
    OBVIOUS
  <2>2. Leaves(s)
    BY <2>1, <1>2, <1>4, <1>7 DEF Ahead
  <2> QED BY <2>1, <2>2, <1>6 DEF Leaves
<1>9. Stands'
  BY <1>4 DEF Stands, SomeAdministrator, Administers, Users
<1> QED BY <1>5, <1>8, <1>9

\* The one request of an administrator writes, and somebody is left: no other is under way.
LEMMA Written ==
  ASSUME StandInv, AccountsTypeOK', NEW a \in Requests, acReqs[a].pc \in AdminPcs, Close(a),
         UNCHANGED <<acSetups, acCrowded>>, ~acCrowded => SomeAdministrator'
  PROVE  StandInv'
<1> SUFFICES ASSUME ~acCrowded PROVE (Exclusive /\ Ahead /\ Stands)'
  BY DEF StandInv
<1>1. acReqs' = [acReqs EXCEPT ![a] = Quiet] /\ acReqs \in [Requests -> Request]
  BY DEF Close, StandInv, AccountsTypeOK
<1>2. \A b \in Requests : acReqs'[b].pc \notin AdminPcs
  BY <1>1, QuietTyped DEF StandInv, Exclusive
<1>3. Exclusive' /\ Ahead'
  BY <1>2 DEF Exclusive, Ahead, Leaves, AdminPcs
<1>4. Stands'
  BY DEF StandInv, Stands, SomeAdministrator
<1> QED BY <1>3, <1>4
LEMMA PutTyped ==
  ASSUME AccountsTypeOK, NEW u, NEW row \in Row, acUsers' = PutUser(u, row)
  PROVE  /\ Users' = Users \cup {u} /\ acUsers' \in [Users' -> Row]
         /\ \A v \in Users \ {u} : acUsers'[v] = acUsers[v]
         /\ acUsers'[u] = row
BY DEF AccountsTypeOK, PutUser, Users

---------------------------------------------------------------------------
(* The steps. *)

LEMMA AccountsStart == AccountsInit => StandInv
<1> SUFFICES ASSUME AccountsInit PROVE StandInv
  OBVIOUS
<1>1. Users = {} /\ acUsers \in [Users -> Row]
  BY DEF AccountsInit, Users
<1>2. AccountsTypeOK
  BY <1>1, QuietTyped DEF AccountsInit, AccountsTypeOK
<1>3. \A a \in Requests : acReqs[a].pc \notin AdminPcs
  BY QuietTyped DEF AccountsInit
<1> QED BY <1>1, <1>2, <1>3 DEF AccountsInit, StandInv, Exclusive, Ahead, Leaves, AdminPcs, Stands

\* Requests that arrive and are no administrator's.
LEMMA UserOpens ==
  ASSUME StandInv, NEW a \in Requests,
         \/ HandleSetupAdmin(a)
         \/ \E u \in UserIds : HandleLogin(a, u)
         \/ \E u \in UserIds, d \in Requests \cup {0} : HandleChangePassword(a, u, d)
  PROVE  StandInv'
<1>1. CASE HandleSetupAdmin(a)
  <2> DEFINE r == [Quiet EXCEPT !.pc = "setup"]
  <2>1. r \in Request /\ r.pc \notin AdminPcs
    BY QuietTyped DEF Request, Pcs, AdminPcs
  <2>2. Open(a, r) /\ UNCHANGED <<acUsers, acPassed, acSetups>>
    BY <1>1 DEF HandleSetupAdmin
  <2> HIDE DEF r
  <2> QED BY <2>1, <2>2, Opened
<1>2. ASSUME NEW u \in UserIds, HandleLogin(a, u)
      PROVE  StandInv'
  <2> DEFINE r == [Quiet EXCEPT !.pc = "login", !.id = u]
  <2>1. r \in Request /\ r.pc \notin AdminPcs
    BY QuietTyped DEF Request, Pcs, AdminPcs
  <2>2. Open(a, r) /\ UNCHANGED <<acUsers, acPassed, acSetups>>
    BY <1>2 DEF HandleLogin
  <2> HIDE DEF r
  <2> QED BY <2>1, <2>2, Opened
<1>3. ASSUME NEW u \in UserIds, NEW d \in Requests \cup {0}, HandleChangePassword(a, u, d)
      PROVE  StandInv'
  <2> DEFINE r == [Quiet EXCEPT !.pc = "password", !.id = u, !.device = d]
  <2>1. r \in Request /\ r.pc \notin AdminPcs
    BY QuietTyped DEF Request, Pcs, AdminPcs
  <2>2. Open(a, r) /\ UNCHANGED <<acUsers, acPassed, acSetups>>
    BY <1>3 DEF HandleChangePassword
  <2> HIDE DEF r
  <2> QED BY <2>1, <2>2, Opened
<1> QED BY <1>1, <1>2, <1>3

\* Requests of administrators: who asks administers himself, and nobody takes that from
\* himself.
LEMMA AdministratorOpens ==
  ASSUME StandInv, NEW a \in Requests, NEW by \in UserIds, NEW id \in UserIds,
         \/ \E n \in UserNames, admin \in BOOLEAN : HandleCreate(a, by, n, admin)
         \/ \E n \in UserNames, active, admin \in BOOLEAN : HandleUpdate(a, by, id, n, active, admin)
         \/ HandleResetPassword(a, by, id) \/ RunResetPassword(a, id) \/ HandleDelete(a, by, id)
  PROVE  StandInv'
<1>1. ASSUME NEW n \in UserNames, NEW admin \in BOOLEAN, HandleCreate(a, by, n, admin)
      PROVE  StandInv'
  <2> DEFINE row == [name |-> n, pass |-> 0, active |-> TRUE, admin |-> admin]
             r == [Quiet EXCEPT !.pc = "create", !.row = row]
  <2>1. row \in Row
    BY DEF Row
  <2>2. by \in Users /\ Administers(by)
    BY <1>1 DEF HandleCreate, AdminMiddleware, MayWrite, Administers
  <2>3. Open(a, r) /\ UNCHANGED <<acUsers, acPassed, acSetups>>
    BY <1>1 DEF HandleCreate
  <2> HIDE DEF row
  <2>4. r \in Request /\ r.pc = "create"
    BY <2>1, QuietTyped DEF Request, Pcs, AdminPcs
  <2>5. Leaves(r)
    BY <2>2, <2>4 DEF Leaves, SomeAdministrator
  <2> HIDE DEF r
  <2> QED BY <2>3, <2>4, <2>5, Opened
<1>2. ASSUME NEW n \in UserNames, NEW active \in BOOLEAN, NEW admin \in BOOLEAN,
             HandleUpdate(a, by, id, n, active, admin)
      PROVE  StandInv'
  <2> DEFINE row == [name |-> n, pass |-> acUsers[id].pass, active |-> active, admin |-> admin]
             wipe == acUsers[id].active /\ ~active
             r == [Quiet EXCEPT !.pc = "update", !.id = id, !.row = row, !.wipe = wipe]
  <2>1. by \in Users /\ Administers(by) /\ id \in Users
    BY <1>2 DEF HandleUpdate, AdminMiddleware, MayWrite, Administers
  <2>2. acUsers[id] \in Row
    BY <2>1 DEF StandInv, AccountsTypeOK
  <2>3. row \in Row /\ row.active = active /\ row.admin = admin /\ wipe \in BOOLEAN
    BY <2>2 DEF Row
  <2>4. Open(a, r) /\ UNCHANGED <<acUsers, acPassed, acSetups>> /\ SelfProtected(by, id, row)
    BY <1>2 DEF HandleUpdate
  <2> HIDE DEF row, wipe
  <2>5. r \in Request /\ r.pc = "update" /\ r.id = id /\ r.row = row
    BY <2>3, QuietTyped DEF Request, Pcs, AdminPcs
  <2>6. Leaves(r)
    BY <2>1, <2>4, <2>5 DEF Leaves, Another, SelfProtected
  <2> HIDE DEF r
  <2> QED BY <2>4, <2>5, <2>6, Opened
<1>3. CASE HandleResetPassword(a, by, id) \/ RunResetPassword(a, id)
  <2> DEFINE r == [Quiet EXCEPT !.pc = "reset", !.id = id]
  <2>1. Open(a, r) /\ UNCHANGED <<acUsers, acPassed, acSetups>>
    BY <1>3 DEF HandleResetPassword, RunResetPassword
  <2>2. r \in Request /\ r.pc = "reset"
    BY QuietTyped DEF Request, Pcs, AdminPcs
  <2>3. Leaves(r)
    BY <2>2 DEF Leaves
  <2> HIDE DEF r
  <2> QED BY <2>1, <2>2, <2>3, Opened
<1>4. CASE HandleDelete(a, by, id)
  <2> DEFINE r == [Quiet EXCEPT !.pc = "delete", !.id = id]
  <2>1. Open(a, r) /\ UNCHANGED <<acUsers, acPassed, acSetups>>
    BY <1>4 DEF HandleDelete
  <2>2. by \in Users /\ Administers(by) /\ id # by
    BY <1>4 DEF HandleDelete, AdminMiddleware, MayWrite, Administers
  <2>3. r \in Request /\ r.pc = "delete" /\ r.id = id
    BY QuietTyped DEF Request, Pcs, AdminPcs
  <2>4. Leaves(r)
    BY <2>2, <2>3 DEF Leaves, Another
  <2> HIDE DEF r
  <2> QED BY <2>1, <2>3, <2>4, Opened
<1> QED BY <1>1, <1>2, <1>3, <1>4
\* A new password, if the user is still there, changes nothing else.
LEMMA PasswordKeeps ==
  ASSUME AccountsTypeOK, NEW u, NewPassword(u)
  PROVE  /\ Users' = Users /\ acUsers' \in [Users' -> Row] /\ acPassed' \in Nat
         /\ \A v \in Users : Administers(v) => Administers(v)'
<1>1. acPassed' = acPassed + 1 /\ acPassed' \in Nat
  BY DEF NewPassword, AccountsTypeOK
<1>2. CASE u \in Users
  <2>1. acUsers' = [acUsers EXCEPT ![u].pass = acPassed + 1]
    BY <1>2 DEF NewPassword
  <2>2. acUsers \in [Users -> Row] /\ acPassed + 1 \in Nat
    BY <1>1 DEF AccountsTypeOK
  <2> QED BY <1>1, <1>2, <2>1, <2>2 DEF Row, Users, Administers
<1>3. CASE u \notin Users
  BY <1>1, <1>3 DEF NewPassword, AccountsTypeOK, Users, Administers
<1> QED BY <1>2, <1>3

\* What follows the first reads of a request that is no administrator's.
LEMMA UserWrites ==
  ASSUME StandInv, NEW a \in Requests,
         CommitAdmin(a) \/ IssueSession(a) \/ StorePassword(a) \/ PruneSessions(a)
  PROVE  StandInv'
<1>t. AccountsTypeOK /\ acReqs \in [Requests -> Request]
  BY DEF StandInv, AccountsTypeOK
<1>1. CASE (CommitAdmin(a) /\ Users # {}) \/ IssueSession(a) \/ PruneSessions(a)
  <2>1. Close(a) /\ UNCHANGED <<acUsers, acPassed, acSetups, acCrowded>>
    BY <1>1 DEF CommitAdmin, IssueSession, PruneSessions
  <2>2. acReqs' = [acReqs EXCEPT ![a] = Quiet]
    BY <2>1 DEF Close
  <2>3. AccountsTypeOK'
    BY <1>t, <2>1, <2>2, QuietTyped DEF AccountsTypeOK, Users
  <2>4. Keeps /\ (~acCrowded /\ Users' # {} => SomeAdministrator')
    BY <2>1 DEF Keeps, Users, Administers, StandInv, Stands, SomeAdministrator
  <2>5. \A b \in Requests : acReqs'[b] = acReqs[b] \/ acReqs'[b].pc \notin AdminPcs
    BY <1>t, <2>2, QuietTyped
  <2> QED BY <2>1, <2>3, <2>4, <2>5, AccountsSettled
<1>2. CASE CommitAdmin(a) /\ Users = {}
  <2>1. PICK u \in UserIds, n \in UserNames :
          acUsers' = PutUser(u, [name |-> n, pass |-> 0, active |-> TRUE, admin |-> TRUE])
    BY <1>2 DEF CommitAdmin
  <2> DEFINE row == [name |-> n, pass |-> 0, active |-> TRUE, admin |-> TRUE]
  <2>2. row \in Row /\ row.active /\ row.admin
    BY DEF Row
  <2>3. acUsers' = PutUser(u, row)
    BY <2>1
  <2> HIDE DEF row
  <2>4. u \in Users' /\ acUsers' \in [Users' -> Row] /\ Administers(u)'
    BY <1>t, <2>2, <2>3, PutTyped DEF Administers
  <2>5. /\ acReqs' = [acReqs EXCEPT ![a] = Quiet] /\ acSetups' = acSetups + 1
        /\ acPassed' = acPassed /\ acCrowded' = acCrowded
    BY <1>2 DEF CommitAdmin, Close
  <2>6. AccountsTypeOK'
    BY <1>t, <2>4, <2>5, QuietTyped DEF AccountsTypeOK
  <2>7. \A b \in Requests : acReqs'[b] = acReqs[b] \/ acReqs'[b].pc \notin AdminPcs
    BY <1>t, <2>5, QuietTyped
  <2> SUFFICES ASSUME ~acCrowded PROVE (Exclusive /\ Ahead /\ Stands)'
    BY <2>5, <2>6 DEF StandInv
  <2>8. Exclusive'
    BY <2>7 DEF StandInv, Exclusive
  <2>9. ASSUME NEW b \in Requests PROVE Leaves(acReqs[b])'
    <3>1. CASE acReqs'[b] = acReqs[b]
      <4>1. PICK r : r = acReqs[b]
        OBVIOUS
      <4>2. Leaves(r)
        BY <4>1 DEF StandInv, Ahead
      <4>3. Keeps
        BY <1>2 DEF Keeps
      <4> QED BY <3>1, <4>1, <4>2, <4>3, LeavesOn DEF Leaves
    <3>2. CASE acReqs'[b].pc \notin AdminPcs
      BY <3>2 DEF Leaves, AdminPcs
    <3> QED BY <2>7, <3>1, <3>2
  <2>10. acSetups' <= 1
    BY <1>2, <1>t, <2>5 DEF StandInv, Stands, AccountsTypeOK
  <2> QED BY <2>4, <2>8, <2>9, <2>10 DEF Ahead, Stands, SomeAdministrator
<1>3. CASE StorePassword(a)
  <2>1. NewPassword(acReqs[a].id) /\ acReqs' = [acReqs EXCEPT ![a].pc = "prune"]
        /\ UNCHANGED <<acSetups, acCrowded>>
    BY <1>3 DEF StorePassword
  <2>2. /\ Users' = Users /\ acUsers' \in [Users' -> Row] /\ acPassed' \in Nat
        /\ \A v \in Users : Administers(v) => Administers(v)'
    BY <1>t, <2>1, PasswordKeeps
  <2>3. acReqs' \in [Requests -> Request] /\ acReqs'[a].pc = "prune"
    BY <1>t, <2>1 DEF Request, Pcs
  <2>4. AccountsTypeOK'
    BY <1>t, <2>1, <2>2, <2>3 DEF AccountsTypeOK
  <2>5. \A b \in Requests : acReqs'[b] = acReqs[b] \/ acReqs'[b].pc \notin AdminPcs
    BY <1>t, <2>1, <2>3 DEF AdminPcs
  <2>6. Keeps /\ (~acCrowded /\ Users' # {} => SomeAdministrator')
    BY <2>2 DEF Keeps, StandInv, Stands, SomeAdministrator
  <2> QED BY <2>1, <2>4, <2>5, <2>6, AccountsSettled
<1> QED BY <1>1, <1>2, <1>3

\* What an administrator's request writes.
LEMMA AdministratorWrites ==
  ASSUME StandInv, NEW a \in Requests,
         InsertUser(a) \/ UpdateUser(a) \/ ResetUserPassword(a) \/ DeleteUser(a)
  PROVE  StandInv'
<1>t. AccountsTypeOK /\ acUsers \in [Users -> Row] /\ acReqs \in [Requests -> Request]
  BY DEF StandInv, AccountsTypeOK
<1> DEFINE r == acReqs[a]
<1>r. r \in Request /\ r.row \in Row
  BY <1>t DEF Request
<1>c. /\ acReqs' = [acReqs EXCEPT ![a] = Quiet] /\ Close(a)
      /\ r.pc \in AdminPcs /\ UNCHANGED <<acSetups, acCrowded>>
  BY DEF InsertUser, UpdateUser, ResetUserPassword, DeleteUser, Close, AdminPcs
<1>q. acReqs' \in [Requests -> Request]
  BY <1>t, <1>c, QuietTyped
<1>l. ~acCrowded => Leaves(r) /\ Stands
  BY DEF StandInv, Ahead
<1>n. CASE UNCHANGED <<acUsers, acPassed>>
  <2>1. AccountsTypeOK' /\ Keeps
    BY <1>t, <1>c, <1>q, <1>n DEF AccountsTypeOK, Keeps, Users, Administers
  <2>2. ~acCrowded /\ Users' # {} => SomeAdministrator'
    BY <1>l, <1>n DEF Stands, SomeAdministrator, Users, Administers
  <2>3. \A b \in Requests : acReqs'[b] = acReqs[b] \/ acReqs'[b].pc \notin AdminPcs
    BY <1>t, <1>c, QuietTyped
  <2> QED BY <1>c, <2>1, <2>2, <2>3, AccountsSettled
<1>1. CASE InsertUser(a) /\ acUsers' # acUsers
  <2>1. r.pc = "create" /\ acPassed' = acPassed
        /\ \E u \in UserIds \ Users : acUsers' = PutUser(u, r.row)
    BY <1>1 DEF InsertUser
  <2>2. PICK u \in UserIds \ Users : acUsers' = PutUser(u, r.row)
    BY <2>1
  <2> HIDE DEF r
  <2>3. /\ Users' = Users \cup {u} /\ acUsers' \in [Users' -> Row]
        /\ \A v \in Users \ {u} : acUsers'[v] = acUsers[v]
    BY <1>t, <1>r, <2>2, PutTyped
  <2>4. AccountsTypeOK'
    BY <1>t, <1>c, <1>q, <2>1, <2>3 DEF AccountsTypeOK
  <2>5. ~acCrowded => SomeAdministrator'
    BY <1>l, <2>1, <2>3 DEF Leaves, SomeAdministrator, Administers
  <2> QED BY <1>c, <2>4, <2>5, Written DEF r
<1>2. CASE UpdateUser(a) /\ acUsers' # acUsers
  <2>1. r.pc = "update" /\ r.id \in Users /\ acUsers' = PutUser(r.id, r.row) /\ acPassed' = acPassed
    BY <1>2 DEF UpdateUser
  <2> HIDE DEF r
  <2>2. /\ Users' = Users \cup {r.id} /\ acUsers' \in [Users' -> Row]
        /\ \A v \in Users \ {r.id} : acUsers'[v] = acUsers[v]
        /\ acUsers'[r.id] = r.row
    BY <1>t, <1>r, <2>1, PutTyped
  <2>3. AccountsTypeOK'
    BY <1>t, <1>c, <1>q, <2>1, <2>2 DEF AccountsTypeOK
  <2>4. ~acCrowded => SomeAdministrator'
    BY <1>l, <2>1, <2>2 DEF Leaves, Another, SomeAdministrator, Administers
  <2> QED BY <1>c, <2>3, <2>4, Written DEF r
<1>3. CASE ResetUserPassword(a)
  <2>1. NewPassword(r.id)
    BY <1>3 DEF ResetUserPassword
  <2>2. /\ Users' = Users /\ acUsers' \in [Users' -> Row] /\ acPassed' \in Nat
        /\ \A v \in Users : Administers(v) => Administers(v)'
    BY <1>t, <2>1, PasswordKeeps
  <2>3. AccountsTypeOK' /\ Keeps
    BY <1>t, <1>c, <1>q, <2>2 DEF AccountsTypeOK, Keeps
  <2>4. ~acCrowded /\ Users' # {} => SomeAdministrator'
    BY <1>l, <2>2 DEF Stands, SomeAdministrator
  <2>5. \A b \in Requests : acReqs'[b] = acReqs[b] \/ acReqs'[b].pc \notin AdminPcs
    BY <1>t, <1>c, QuietTyped
  <2> QED BY <1>c, <2>3, <2>4, <2>5, AccountsSettled
<1>4. CASE DeleteUser(a)
  <2>1. r.pc = "delete" /\ acUsers' = Without(r.id) /\ acPassed' = acPassed
    BY <1>4 DEF DeleteUser
  <2> HIDE DEF r
  <2>2. /\ Users' = Users \ {r.id} /\ acUsers' \in [Users' -> Row]
        /\ \A v \in Users \ {r.id} : acUsers'[v] = acUsers[v]
    BY <1>t, <2>1 DEF Without, Restrict, Users
  <2>3. AccountsTypeOK'
    BY <1>t, <1>c, <1>q, <2>1, <2>2 DEF AccountsTypeOK
  <2>4. ~acCrowded => SomeAdministrator'
    BY <1>l, <2>1, <2>2 DEF Leaves, Another, SomeAdministrator, Administers
  <2> QED BY <1>c, <2>3, <2>4, Written DEF r
<1>5. acUsers' = acUsers => acPassed' = acPassed \/ ResetUserPassword(a)
  BY DEF InsertUser, UpdateUser, DeleteUser
<1> QED BY <1>n, <1>1, <1>2, <1>3, <1>4, <1>5
\* Sessions, keys and names: no account changes its rights, and no request.
LEMMA Elsewhere ==
  ASSUME StandInv,
         \/ \E s \in acSessions : HandleLogout(s)
         \/ \E u \in UserIds, s \in acSessions :
               HandleRevokeSession(u, s) \/ HandleRevokeAllOtherSessions(u, s)
         \/ \E S \in SUBSET acSessions : CleanupExpiredSessions(S)
         \/ \E u \in UserIds, scope \in {"read", "write"} : HandleCreateAPIKey(u, scope)
         \/ \E u \in UserIds, n \in UserNames : HandleChangeUsername(u, n)
         \/ \E k \in acKeys : HandleRevokeAPIKey(k)
         \/ UNCHANGED accountVars
  PROVE  StandInv'
<1>1. UNCHANGED <<acReqs, acPassed, acSetups, acCrowded>>
  BY DEF HandleLogout, HandleRevokeSession, HandleRevokeAllOtherSessions, CleanupExpiredSessions,
         EndSessions, HandleCreateAPIKey, HandleRevokeAPIKey, HandleChangeUsername, accountVars
<1>2. \/ UNCHANGED acUsers
      \/ \E u \in UserIds, n \in UserNames : u \in Users /\ acUsers' = [acUsers EXCEPT ![u].name = n]
  BY DEF HandleLogout, HandleRevokeSession, HandleRevokeAllOtherSessions, CleanupExpiredSessions,
         EndSessions, HandleCreateAPIKey, HandleRevokeAPIKey, HandleChangeUsername, accountVars, MayWrite
<1>3. acUsers \in [Users -> Row]
  BY DEF StandInv, AccountsTypeOK
<1>4. acUsers' \in [Users' -> Row] /\ Users' = Users /\ \A v \in Users : Administers(v) => Administers(v)'
  <2>1. CASE UNCHANGED acUsers
    BY <1>3, <2>1 DEF Users, Administers
  <2>2. ASSUME NEW u \in Users, NEW n \in UserNames, acUsers' = [acUsers EXCEPT ![u].name = n]
        PROVE  acUsers' \in [Users' -> Row] /\ Users' = Users
               /\ \A v \in Users : Administers(v) => Administers(v)'
    BY <1>3, <2>2 DEF Users, Administers, Row
  <2> QED BY <1>2, <2>1, <2>2
<1>5. AccountsTypeOK' /\ Keeps
  BY <1>1, <1>4 DEF StandInv, AccountsTypeOK, Keeps
<1>6. ~acCrowded /\ Users' # {} => SomeAdministrator'
  BY <1>4 DEF StandInv, Stands, SomeAdministrator
<1> QED BY <1>1, <1>5, <1>6, AccountsSettled

LEMMA AccountsStep == StandInv /\ [AccountsNext]_accountVars => StandInv'
<1> SUFFICES ASSUME StandInv, [AccountsNext]_accountVars
             PROVE  StandInv'
  OBVIOUS
<1>1. ASSUME NEW a \in Requests,
             \/ HandleSetupAdmin(a)
             \/ \E u \in UserIds : HandleLogin(a, u)
             \/ \E u \in UserIds, d \in Requests \cup {0} : HandleChangePassword(a, u, d)
      PROVE  StandInv'
  BY <1>1, UserOpens, Zenon
<1>2. ASSUME NEW a \in Requests, NEW by \in UserIds, NEW id \in UserIds,
             \/ \E n \in UserNames, admin \in BOOLEAN : HandleCreate(a, by, n, admin)
             \/ \E n \in UserNames, active, admin \in BOOLEAN : HandleUpdate(a, by, id, n, active, admin)
             \/ HandleResetPassword(a, by, id) \/ RunResetPassword(a, id) \/ HandleDelete(a, by, id)
      PROVE  StandInv'
  BY <1>2, AdministratorOpens, Zenon
<1>3. ASSUME NEW a \in Requests,
             CommitAdmin(a) \/ IssueSession(a) \/ StorePassword(a) \/ PruneSessions(a)
      PROVE  StandInv'
  BY <1>3, UserWrites, Zenon
<1>4. ASSUME NEW a \in Requests,
             InsertUser(a) \/ UpdateUser(a) \/ ResetUserPassword(a) \/ DeleteUser(a)
      PROVE  StandInv'
  BY <1>4, AdministratorWrites, Zenon
<1>5. \/ \E a \in Requests :
            \/ HandleSetupAdmin(a)
            \/ \E u \in UserIds : HandleLogin(a, u)
            \/ \E u \in UserIds, d \in Requests \cup {0} : HandleChangePassword(a, u, d)
      \/ \E a \in Requests, by, id \in UserIds :
            \/ \E n \in UserNames, admin \in BOOLEAN : HandleCreate(a, by, n, admin)
            \/ \E n \in UserNames, active, admin \in BOOLEAN : HandleUpdate(a, by, id, n, active, admin)
            \/ HandleResetPassword(a, by, id) \/ RunResetPassword(a, id) \/ HandleDelete(a, by, id)
      \/ \E a \in Requests : CommitAdmin(a) \/ IssueSession(a) \/ StorePassword(a) \/ PruneSessions(a)
      \/ \E a \in Requests : InsertUser(a) \/ UpdateUser(a) \/ ResetUserPassword(a) \/ DeleteUser(a)
      \/ \E s \in acSessions : HandleLogout(s)
      \/ \E u \in UserIds, s \in acSessions :
            HandleRevokeSession(u, s) \/ HandleRevokeAllOtherSessions(u, s)
      \/ \E S \in SUBSET acSessions : CleanupExpiredSessions(S)
      \/ \E u \in UserIds, scope \in {"read", "write"} : HandleCreateAPIKey(u, scope)
      \/ \E u \in UserIds, n \in UserNames : HandleChangeUsername(u, n)
      \/ \E k \in acKeys : HandleRevokeAPIKey(k)
      \/ UNCHANGED accountVars
  BY Zenon DEF AccountsNext
<1> QED BY <1>1, <1>2, <1>3, <1>4, <1>5, Elsewhere, Zenon

\* The setup page makes one administrator, however many browsers send it at once
\* (tryCreateAdmin's transaction), and no sequence of demotions, deactivations, deletions and
\* self-made changes leaves the instance without an active one, as long as administrators do
\* not change accounts at the same moment (HandleUpdate and HandleDelete protect oneself).
THEOREM AdministratorAlways == AccountsSpec => []AdministratorStands
<1>1. AccountsInit => StandInv
  BY AccountsStart
<1>2. StandInv /\ [AccountsNext]_accountVars => StandInv'
  BY AccountsStep
<1>3. StandInv => AdministratorStands
  BY DEF StandInv, Stands, AccountsTypeOK, SomeAdministrator, Administers,
         AdministratorStands, OneFirstAdmin, AdminRemains
<1> QED BY <1>1, <1>2, <1>3, PTL DEF AccountsSpec

---------------------------------------------------------------------------
(* Backups and restores. *)

\* One operation at a time works on the database, for any number of administrators,
\* failures and crashes.  A restore gives the mutex up between two labels, so the
\* invariant names the labels at which an operation holds it.

\* Where an operation holds Service.mu.
Held == {"dump", "predump", "write", "prewrite", "extract", "drop", "load", "finish",
         "rollback", "redrop", "reload", "refinish"}

\* An operation is a record with the fields of OpIdle.
IsOp(r) ==
  r = [pc |-> r.pc, id |-> r.id, pre |-> r.pre, name |-> r.name, got |-> r.got, asked |-> r.asked,
       before |-> r.before, out |-> r.out, doomed |-> r.doomed]

OpsTyped == bkOps = [a \in Admins |-> bkOps[a]] /\ \A a \in Admins : IsOp(bkOps[a])

\* Who is at such a label has the mutex.
HolderOwns == \A a \in Admins : bkOps[a].pc \in Held => bkLock = a

LockInv == OpsTyped /\ HolderOwns

\* An operation keeps its fields when some of them change.
LEMMA OpFields ==
  ASSUME NEW r, IsOp(r), NEW x, NEW y
  PROVE  /\ IsOp([r EXCEPT !.pc = x]) /\ [r EXCEPT !.pc = x].pc = x
         /\ IsOp([r EXCEPT !.got = y]) /\ [r EXCEPT !.got = y].pc = r.pc
         /\ IsOp([r EXCEPT !.pre = y]) /\ [r EXCEPT !.pre = y].pc = r.pc
         /\ IsOp([r EXCEPT !.out = y]) /\ [r EXCEPT !.out = y].pc = r.pc
         /\ IsOp([r EXCEPT !.name = y]) /\ [r EXCEPT !.name = y].pc = r.pc
         /\ IsOp([r EXCEPT !.doomed = y]) /\ [r EXCEPT !.doomed = y].pc = r.pc
         /\ IsOp([r EXCEPT !.id = y]) /\ [r EXCEPT !.id = y].pc = r.pc
         /\ IsOp([r EXCEPT !.asked = y]) /\ [r EXCEPT !.asked = y].pc = r.pc
         /\ IsOp([r EXCEPT !.before = y]) /\ [r EXCEPT !.before = y].pc = r.pc
<1>1. IsOp([r EXCEPT !.pc = x]) /\ [r EXCEPT !.pc = x].pc = x
  BY DEF IsOp
<1>2. IsOp([r EXCEPT !.got = y]) /\ [r EXCEPT !.got = y].pc = r.pc
  BY DEF IsOp
<1>3. IsOp([r EXCEPT !.pre = y]) /\ [r EXCEPT !.pre = y].pc = r.pc
  BY DEF IsOp
<1>4. IsOp([r EXCEPT !.out = y]) /\ [r EXCEPT !.out = y].pc = r.pc
  BY DEF IsOp
<1>5. IsOp([r EXCEPT !.name = y]) /\ [r EXCEPT !.name = y].pc = r.pc
  BY DEF IsOp
<1>6. IsOp([r EXCEPT !.doomed = y]) /\ [r EXCEPT !.doomed = y].pc = r.pc
  BY DEF IsOp
<1>7. IsOp([r EXCEPT !.id = y]) /\ [r EXCEPT !.id = y].pc = r.pc
  BY DEF IsOp
<1>8. IsOp([r EXCEPT !.asked = y]) /\ [r EXCEPT !.asked = y].pc = r.pc
  BY DEF IsOp
<1>9. IsOp([r EXCEPT !.before = y]) /\ [r EXCEPT !.before = y].pc = r.pc
  BY DEF IsOp
<1> QED BY <1>1, <1>2, <1>3, <1>4, <1>5, <1>6, <1>7, <1>8, <1>9

\* A step of one operation: it keeps the mutex it has, takes it while it is
\* free, or leaves the labels that need it.
LEMMA OneOp ==
  ASSUME LockInv, NEW a \in Admins, NEW r, IsOp(r), bkOps' = [bkOps EXCEPT ![a] = r],
         \/ bkLock' = bkLock /\ (r.pc \in Held => bkOps[a].pc \in Held)
         \/ bkLock = 0 /\ bkLock' = a
         \/ bkOps[a].pc \in Held /\ r.pc \notin Held /\ bkLock' = 0
  PROVE  LockInv'
<1>1. OpsTyped'
  BY DEF LockInv, OpsTyped
<1>2. HolderOwns'
  BY RestoreAssumption DEF LockInv, OpsTyped, HolderOwns
<1> QED BY <1>1, <1>2 DEF LockInv

\* The same for the pairs of fields that one action writes.
LEMMA Named ==
  ASSUME NEW r, IsOp(r), NEW x, NEW y
  PROVE  IsOp([r EXCEPT !.pc = x, !.name = y]) /\ [r EXCEPT !.pc = x, !.name = y].pc = x
<1> DEFINE s == [r EXCEPT !.pc = x]
<1>1. IsOp(s) /\ s.pc = x
  BY OpFields, ZenonT(60)
<1>2. [r EXCEPT !.pc = x, !.name = y] = [s EXCEPT !.name = y]
  OBVIOUS
<1>3. IsOp([s EXCEPT !.name = y]) /\ [s EXCEPT !.name = y].pc = x
  <2> HIDE DEF s
  <2> QED BY <1>1, OpFields
<1> QED BY <1>2, <1>3, Zenon

LEMMA ReadIn ==
  ASSUME NEW r, IsOp(r), NEW x, NEW y
  PROVE  IsOp([r EXCEPT !.pc = x, !.got = y]) /\ [r EXCEPT !.pc = x, !.got = y].pc = x
<1> DEFINE s == [r EXCEPT !.pc = x]
<1>1. IsOp(s) /\ s.pc = x
  BY OpFields, ZenonT(60)
<1>2. [r EXCEPT !.pc = x, !.got = y] = [s EXCEPT !.got = y]
  OBVIOUS
<1>3. IsOp([s EXCEPT !.got = y]) /\ [s EXCEPT !.got = y].pc = x
  <2> HIDE DEF s
  <2> QED BY <1>1, OpFields
<1> QED BY <1>2, <1>3, Zenon

LEMMA Backed ==
  ASSUME NEW r, IsOp(r), NEW x, NEW y
  PROVE  IsOp([r EXCEPT !.pc = x, !.pre = y]) /\ [r EXCEPT !.pc = x, !.pre = y].pc = x
<1> DEFINE s == [r EXCEPT !.pc = x]
<1>1. IsOp(s) /\ s.pc = x
  BY OpFields, ZenonT(60)
<1>2. [r EXCEPT !.pc = x, !.pre = y] = [s EXCEPT !.pre = y]
  OBVIOUS
<1>3. IsOp([s EXCEPT !.pre = y]) /\ [s EXCEPT !.pre = y].pc = x
  <2> HIDE DEF s
  <2> QED BY <1>1, OpFields
<1> QED BY <1>2, <1>3, Zenon

LEMMA Reported ==
  ASSUME NEW r, IsOp(r), NEW x, NEW y
  PROVE  IsOp([r EXCEPT !.pc = x, !.out = y]) /\ [r EXCEPT !.pc = x, !.out = y].pc = x
<1> DEFINE s == [r EXCEPT !.pc = x]
<1>1. IsOp(s) /\ s.pc = x
  BY OpFields, ZenonT(60)
<1>2. [r EXCEPT !.pc = x, !.out = y] = [s EXCEPT !.out = y]
  OBVIOUS
<1>3. IsOp([s EXCEPT !.out = y]) /\ [s EXCEPT !.out = y].pc = x
  <2> HIDE DEF s
  <2> QED BY <1>1, OpFields
<1> QED BY <1>2, <1>3, Zenon

LEMMA Chosen ==
  ASSUME NEW r, IsOp(r), NEW x, NEW y
  PROVE  IsOp([r EXCEPT !.pc = x, !.doomed = y]) /\ [r EXCEPT !.pc = x, !.doomed = y].pc = x
<1> DEFINE s == [r EXCEPT !.pc = x]
<1>1. IsOp(s) /\ s.pc = x
  BY OpFields, ZenonT(60)
<1>2. [r EXCEPT !.pc = x, !.doomed = y] = [s EXCEPT !.doomed = y]
  OBVIOUS
<1>3. IsOp([s EXCEPT !.doomed = y]) /\ [s EXCEPT !.doomed = y].pc = x
  <2> HIDE DEF s
  <2> QED BY <1>1, OpFields
<1> QED BY <1>2, <1>3, Zenon

LEMMA DumpedTo ==
  ASSUME NEW r, IsOp(r), NEW x, NEW y
  PROVE  IsOp([r EXCEPT !.got = y, !.pc = x]) /\ [r EXCEPT !.got = y, !.pc = x].pc = x
<1> DEFINE s == [r EXCEPT !.got = y]
<1>1. IsOp(s)
  BY OpFields
<1>2. [r EXCEPT !.got = y, !.pc = x] = [s EXCEPT !.pc = x]
  OBVIOUS
<1>3. IsOp([s EXCEPT !.pc = x]) /\ [s EXCEPT !.pc = x].pc = x
  <2> HIDE DEF s
  <2> QED BY <1>1, OpFields, ZenonT(60)
<1> QED BY <1>2, <1>3, Zenon

LEMMA IdleOp == IsOp(OpIdle) /\ OpIdle.pc = "idle" /\ "idle" \notin Held
  BY DEF IsOp, OpIdle, Held

LEMMA LockInit == RestoreInit => LockInv
<1> SUFFICES ASSUME RestoreInit PROVE LockInv
  OBVIOUS
<1>1. \A a \in Admins : bkOps[a] = OpIdle
  BY DEF RestoreInit
<1>2. OpsTyped
  BY <1>1, IdleOp DEF OpsTyped, RestoreInit
<1>3. HolderOwns
  BY <1>1, IdleOp DEF HolderOwns
<1> QED BY <1>2, <1>3 DEF LockInv

\* What leaves the operations and the mutex alone.
LEMMA LockStutter == LockInv /\ UNCHANGED <<bkOps, bkLock>> => LockInv'
  BY DEF LockInv, OpsTyped, HolderOwns, IsOp

LEMMA LockCreate == ASSUME LockInv, NEW a \in Admins, CreateBackup(a) PROVE LockInv'
<1> DEFINE r == [OpIdle EXCEPT !.pc = "dump", !.name = bkClock]
<1>1. IsOp(r)
  BY IdleOp, Named
<1>2. bkOps' = [bkOps EXCEPT ![a] = r] /\ bkLock = 0 /\ bkLock' = a
  BY DEF CreateBackup
<1> HIDE DEF r
<1> QED BY <1>1, <1>2, OneOp

\* An operation moves to another label, holding what it held.
LEMMA LockMove ==
  ASSUME LockInv, NEW a \in Admins, NEW to, Step(a, to), UNCHANGED bkLock,
         to \in Held => bkOps[a].pc \in Held
  PROVE  LockInv'
<1> DEFINE r == [bkOps[a] EXCEPT !.pc = to]
<1>1. IsOp(bkOps[a])
  BY DEF LockInv, OpsTyped
<1>2. IsOp(r) /\ r.pc = to
  BY <1>1, OpFields, ZenonT(60)
<1>3. bkOps' = [bkOps EXCEPT ![a] = r]
  BY DEF Step
<1> HIDE DEF r
<1> QED BY <1>2, <1>3, OneOp

\* It leaves the labels at which the mutex is held and gives it back.
LEMMA LockLeave ==
  ASSUME LockInv, NEW a \in Admins, NEW to, Step(a, to), bkLock' = 0,
         bkOps[a].pc \in Held, to \notin Held
  PROVE  LockInv'
<1> DEFINE r == [bkOps[a] EXCEPT !.pc = to]
<1>1. IsOp(bkOps[a])
  BY DEF LockInv, OpsTyped
<1>2. IsOp(r) /\ r.pc = to
  BY <1>1, OpFields, ZenonT(60)
<1>3. bkOps' = [bkOps EXCEPT ![a] = r]
  BY DEF Step
<1> HIDE DEF r
<1> QED BY <1>2, <1>3, OneOp

\* It takes the mutex, which is free.
LEMMA LockTake ==
  ASSUME LockInv, NEW a \in Admins, NEW to, Step(a, to), bkLock = 0, bkLock' = a
  PROVE  LockInv'
<1> DEFINE r == [bkOps[a] EXCEPT !.pc = to]
<1>1. IsOp(bkOps[a])
  BY DEF LockInv, OpsTyped
<1>2. IsOp(r)
  BY <1>1, OpFields
<1>3. bkOps' = [bkOps EXCEPT ![a] = r]
  BY DEF Step
<1> HIDE DEF r
<1> QED BY <1>2, <1>3, OneOp

LEMMA LockEnd ==
  ASSUME LockInv, NEW a \in Admins, NEW out, Ended(a, out), bkLock' = 0, bkOps[a].pc \in Held
  PROVE  LockInv'
<1> DEFINE r == [bkOps[a] EXCEPT !.pc = "idle", !.out = out]
<1>1. IsOp(bkOps[a])
  BY DEF LockInv, OpsTyped
<1>2. IsOp(r) /\ r.pc = "idle"
  BY <1>1, Reported
<1>3. bkOps' = [bkOps EXCEPT ![a] = r]
  BY DEF Ended
<1> HIDE DEF r
<1> QED BY <1>2, <1>3, OneOp, IdleOp

LEMMA LockFail ==
  ASSUME LockInv, NEW a \in Admins, Fail(a), bkOps[a].pc \in Held
  PROVE  LockInv'
<1>1. "rollback" \in Held
  BY DEF Held
<1>2. ASSUME Step(a, "rollback"), UNCHANGED bkLock PROVE LockInv'
  BY <1>1, <1>2, LockMove
<1>3. ASSUME GiveUp(a) PROVE LockInv'
  BY <1>3, LockEnd DEF GiveUp
<1> QED BY <1>2, <1>3 DEF Fail

LEMMA LockDump == ASSUME LockInv, NEW a \in Admins, RunPgDump(a) PROVE LockInv'
<1>1. bkOps[a].pc \in Held /\ IsOp(bkOps[a])
  BY DEF RunPgDump, At, Held, LockInv, OpsTyped
<1>2. ASSUME bkOps' = [bkOps EXCEPT ![a].got = bkDb,
                        ![a].pc = IF @ = "dump" THEN "write" ELSE "prewrite"],
             UNCHANGED bkLock
      PROVE  LockInv'
  <2> DEFINE to == IF bkOps[a].pc = "dump" THEN "write" ELSE "prewrite"
             r  == [bkOps[a] EXCEPT !.got = bkDb, !.pc = to]
  <2>1. IsOp(r)
    BY <1>1, DumpedTo
  <2>2. bkOps' = [bkOps EXCEPT ![a] = r]
    BY <1>1, <1>2 DEF IsOp, LockInv, OpsTyped
  <2> HIDE DEF r
  <2> QED BY <1>1, <1>2, <2>1, <2>2, OneOp
<1>3. "relock" \notin Held
  BY DEF Held
<1>4. ASSUME Ended(a, "failed"), bkLock' = 0 PROVE LockInv'
  BY <1>1, <1>4, LockEnd
<1>5. ASSUME Step(a, "relock"), bkLock' = 0 PROVE LockInv'
  BY <1>1, <1>3, <1>5, LockLeave
<1> QED BY <1>2, <1>4, <1>5 DEF RunPgDump

LEMMA LockTar == ASSUME LockInv, NEW a \in Admins, CreateTarGz(a) PROVE LockInv'
<1> DEFINE plain == bkOps[a].pc = "write"
           to    == IF plain THEN "retain" ELSE "relock"
           pre   == IF plain THEN 0 ELSE bkOps[a].name
           r     == [bkOps[a] EXCEPT !.pc = to, !.pre = pre]
<1>1. bkOps[a].pc \in Held /\ IsOp(bkOps[a]) /\ bkLock' = 0
  BY DEF CreateTarGz, At, Held, LockInv, OpsTyped
<1>2. to \notin Held /\ "relock" \notin Held
  BY DEF Held
<1>3. ASSUME bkOps' = [bkOps EXCEPT ![a].pc = to, ![a].pre = pre] PROVE LockInv'
  <2> HIDE DEF to, pre
  <2>1. IsOp(r) /\ r.pc = to
    BY <1>1, Backed
  <2>2. bkOps' = [bkOps EXCEPT ![a] = r]
    BY <1>1, <1>3 DEF IsOp, LockInv, OpsTyped
  <2> HIDE DEF r
  <2> QED BY <1>1, <1>2, <2>1, <2>2, OneOp
<1>4. ASSUME Ended(a, "failed") PROVE LockInv'
  BY <1>1, <1>4, LockEnd
<1>5. ASSUME Step(a, "relock") PROVE LockInv'
  BY <1>1, <1>2, <1>5, LockLeave
<1> QED BY <1>3, <1>4, <1>5 DEF CreateTarGz

LEMMA LockRetain == ASSUME LockInv, NEW a \in Admins, ApplyRetention(a) PROVE LockInv'
<1>1. PICK d : bkOps' = [bkOps EXCEPT ![a].pc = "delete", ![a].doomed = d] /\ bkLock' = bkLock
  BY DEF ApplyRetention
<1> DEFINE r == [bkOps[a] EXCEPT !.pc = "delete", !.doomed = d]
<1>2. IsOp(bkOps[a]) /\ "delete" \notin Held
  BY DEF LockInv, OpsTyped, Held
<1>3. IsOp(r) /\ r.pc = "delete"
  BY <1>2, Chosen
<1>4. bkOps' = [bkOps EXCEPT ![a] = r]
  BY <1>1, <1>2 DEF IsOp, LockInv, OpsTyped
<1> HIDE DEF r
<1> QED BY <1>1, <1>2, <1>3, <1>4, OneOp

LEMMA LockDelete == ASSUME LockInv, NEW a \in Admins, DeleteDoomed(a) PROVE LockInv'
<1> DEFINE r == [OpIdle EXCEPT !.out = "ok"]
<1>1. IsOp(r) /\ r.pc = "idle"
  BY IdleOp, OpFields
<1>2. bkOps' = [bkOps EXCEPT ![a] = r] /\ bkLock' = bkLock
  BY DEF DeleteDoomed
<1> HIDE DEF r
<1> QED BY <1>1, <1>2, OneOp, IdleOp

LEMMA LockBegin ==
  ASSUME LockInv, NEW a \in Admins, NEW n, NEW data, NEW skip, BeginRestore(a, n, data, skip)
  PROVE  LockInv'
<1>1. PICK to : to = IF skip THEN "extract" ELSE "pre"
  OBVIOUS
<1>2. PICK r : r = [OpIdle EXCEPT !.pc = to, !.id = n, !.asked = data, !.before = bkDb]
  OBVIOUS
<1>3. IsOp(r) /\ r.pc = to
  <2> DEFINE s == [OpIdle EXCEPT !.pc = to]
             i == [s EXCEPT !.id = n]
             k == [i EXCEPT !.asked = data]
  <2>1. IsOp(s) /\ s.pc = to
    BY OpFields, IdleOp
  <2>2. IsOp(i) /\ i.pc = to
    <3> HIDE DEF s
    <3> QED BY <2>1, OpFields
  <2>3. IsOp(k) /\ k.pc = to
    <3> HIDE DEF i
    <3> QED BY <2>2, OpFields
  <2>4. r = [k EXCEPT !.before = bkDb]
    BY <1>2
  <2>5. IsOp([k EXCEPT !.before = bkDb]) /\ [k EXCEPT !.before = bkDb].pc = to
    <3> HIDE DEF k
    <3> QED BY <2>3, OpFields
  <2> QED BY <2>4, <2>5, Zenon
<1>4. bkOps' = [bkOps EXCEPT ![a] = r] /\ bkLock = 0 /\ bkLock' = IF skip THEN a ELSE 0
  BY <1>1, <1>2 DEF BeginRestore
<1>5. "pre" \notin Held
  BY DEF Held
<1> QED BY <1>1, <1>3, <1>4, <1>5, OneOp

LEMMA LockPre == ASSUME LockInv, NEW a \in Admins, PreRestore(a) PROVE LockInv'
<1>1. IsOp(bkOps[a]) /\ "relock" \notin Held
  BY DEF LockInv, OpsTyped, Held
<1>2. ASSUME bkLock = 0, bkLock' = a,
             bkOps' = [bkOps EXCEPT ![a].pc = "predump", ![a].name = bkClock]
      PROVE  LockInv'
  <2> DEFINE r == [bkOps[a] EXCEPT !.pc = "predump", !.name = bkClock]
  <2>1. IsOp(r)
    BY <1>1, Named
  <2>2. bkOps' = [bkOps EXCEPT ![a] = r]
    BY <1>1, <1>2 DEF IsOp, LockInv, OpsTyped
  <2> HIDE DEF r
  <2> QED BY <1>2, <2>1, <2>2, OneOp
<1>3. ASSUME Step(a, "relock"), UNCHANGED bkLock PROVE LockInv'
  BY <1>1, <1>3, LockMove
<1> QED BY <1>2, <1>3 DEF PreRestore

\* What is read from an archive, and the label after it.
LEMMA LockRead ==
  ASSUME LockInv, NEW a \in Admins, NEW to, NEW d, bkOps[a].pc \in Held, UNCHANGED bkLock,
         bkOps' = [bkOps EXCEPT ![a].pc = to, ![a].got = d]
  PROVE  LockInv'
<1> DEFINE r == [bkOps[a] EXCEPT !.pc = to, !.got = d]
<1>1. IsOp(bkOps[a])
  BY DEF LockInv, OpsTyped
<1>2. IsOp(r)
  BY <1>1, ReadIn
<1>3. bkOps' = [bkOps EXCEPT ![a] = r]
  BY <1>1 DEF IsOp, LockInv, OpsTyped
<1> HIDE DEF r
<1> QED BY <1>2, <1>3, OneOp

LEMMA LockExtract == ASSUME LockInv, NEW a \in Admins, ExtractTarGz(a) PROVE LockInv'
<1>1. bkOps[a].pc \in Held
  BY DEF ExtractTarGz, At, Held
<1>2. ASSUME NEW d, bkOps' = [bkOps EXCEPT ![a].pc = "drop", ![a].got = d], UNCHANGED bkLock
      PROVE  LockInv'
  BY <1>1, <1>2, LockRead
<1>3. ASSUME Fail(a) PROVE LockInv'
  BY <1>1, <1>3, LockFail
<1> QED BY <1>2, <1>3 DEF ExtractTarGz

LEMMA LockRollback == ASSUME LockInv, NEW a \in Admins, Rollback(a) PROVE LockInv'
<1>1. bkOps[a].pc \in Held
  BY DEF Rollback, At, Held
<1>2. ASSUME NEW d, bkOps' = [bkOps EXCEPT ![a].pc = "redrop", ![a].got = d], UNCHANGED bkLock
      PROVE  LockInv'
  BY <1>1, <1>2, LockRead
<1>3. ASSUME GiveUp(a) PROVE LockInv'
  BY <1>1, <1>3, LockEnd DEF GiveUp
<1> QED BY <1>2, <1>3 DEF Rollback

LEMMA LockSchema ==
  ASSUME LockInv, NEW a \in Admins, DropSchema(a) \/ LoadDump(a)
  PROVE  LockInv'
<1>1. bkOps[a].pc \in Held
  BY DEF DropSchema, LoadDump, At, Held
<1>2. ASSUME NEW to, Step(a, to), UNCHANGED bkLock PROVE LockInv'
  BY <1>1, <1>2, LockMove
<1>3. ASSUME Fail(a) PROVE LockInv'
  BY <1>1, <1>3, LockFail
<1>4. CASE DropSchema(a)
  BY <1>2, <1>3, <1>4 DEF DropSchema
<1>5. CASE LoadDump(a)
  BY <1>2, <1>3, <1>5 DEF LoadDump
<1> QED BY <1>4, <1>5

LEMMA LockFinish == ASSUME LockInv, NEW a \in Admins, EndRestore(a) PROVE LockInv'
<1>1. bkOps[a].pc \in Held
  BY DEF EndRestore, At, Held
<1>2. PICK out : Ended(a, out) /\ bkLock' = 0
  BY DEF EndRestore
<1> QED BY <1>1, <1>2, LockEnd

LEMMA LockCrash == LockInv /\ BackupCrash => LockInv'
<1> SUFFICES ASSUME BackupCrash PROVE LockInv'
  OBVIOUS
<1>1. bkOps' = [a \in Admins |-> OpIdle]
  BY DEF BackupCrash
<1>2. OpsTyped'
  BY <1>1, IdleOp DEF OpsTyped
<1>3. HolderOwns'
  BY <1>1, IdleOp DEF HolderOwns
<1> QED BY <1>2, <1>3 DEF LockInv

LEMMA LockStep == LockInv /\ [RestoreNext]_backupVars => LockInv'
<1> SUFFICES ASSUME LockInv, [RestoreNext]_backupVars PROVE LockInv'
  OBVIOUS
<1>1. ASSUME NEW a \in Admins, HandleCreateBackup(a) \/ CheckScheduledBackup(a) PROVE LockInv'
  BY <1>1, LockCreate DEF HandleCreateBackup, CheckScheduledBackup
<1>2. ASSUME NEW a \in Admins, RunPgDump(a) \/ CreateTarGz(a) PROVE LockInv'
  BY <1>2, LockDump, LockTar
<1>3. ASSUME NEW a \in Admins, ApplyRetention(a) \/ DeleteDoomed(a) PROVE LockInv'
  BY <1>3, LockRetain, LockDelete
<1>4. ASSUME NEW a \in Admins, HandleRestoreUpload(a) \/ HandleSetupRestore(a) PROVE LockInv'
  BY <1>4, LockBegin DEF HandleRestoreUpload, HandleSetupRestore, RestoreFromUpload
<1>5. ASSUME NEW a \in Admins, NEW n \in DOMAIN bkFiles,
             HandleRestore(a, n) \/ HandleSetupRestoreFromDisk(a, n)
      PROVE  LockInv'
  BY <1>5, LockBegin DEF HandleRestore, HandleSetupRestoreFromDisk
<1>6. ASSUME NEW a \in Admins, PreRestore(a) PROVE LockInv'
  BY <1>6, LockPre
<1>7. ASSUME NEW a \in Admins, Relock(a) PROVE LockInv'
  BY <1>7, LockTake DEF Relock
<1>8. ASSUME NEW a \in Admins, ExtractTarGz(a) \/ Rollback(a) PROVE LockInv'
  BY <1>8, LockExtract, LockRollback
<1>9. ASSUME NEW a \in Admins, DropSchema(a) \/ LoadDump(a) PROVE LockInv'
  BY <1>9, LockSchema
<1>10. ASSUME NEW a \in Admins, EndRestore(a) PROVE LockInv'
  BY <1>10, LockFinish
<1>11. ASSUME NEW n \in DOMAIN bkFiles, HandleDeleteBackup(n) PROVE LockInv'
  BY <1>11, LockStutter DEF HandleDeleteBackup
<1>12. CASE EditData \/ Tick \/ DaysPass
  BY <1>12, LockStutter DEF EditData, Tick, DaysPass
<1>13. CASE BackupCrash
  BY <1>13, LockCrash
<1>14. CASE UNCHANGED backupVars
  BY <1>14, LockStutter DEF backupVars
<1> QED
  BY <1>1, <1>2, <1>3, <1>4, <1>5, <1>6, <1>7, <1>8, <1>9, <1>10, <1>11, <1>12, <1>13, <1>14
  DEF RestoreNext

\* One operation at a time dumps, drops and loads the database (doRestore and CreateBackup
\* under Service.mu), however the gap in the middle of a restore is used, whatever fails
\* and whenever the server dies.
THEOREM OneAtATime == RestoreSpec => []OneAtTheDatabase
<1>1. LockInv => OneAtTheDatabase
  BY DEF LockInv, HolderOwns, OneAtTheDatabase, At, Held
<1> QED BY <1>1, LockInit, LockStep, PTL DEF RestoreSpec

---------------------------------------------------------------------------
(* Whoever is let in finds a whole database. *)

RestoreLabels == {"pre", "predump", "prewrite", "relock", "extract", "drop", "load", "finish",
                  "rollback", "redrop", "reload", "refinish"}
OpLabels == {"idle", "dump", "write", "retain", "delete"} \cup RestoreLabels

OpRecord == [pc : OpLabels, id : Int, pre : Int, name : Int, got : Int, asked : Int, before : Int,
             out : {"", "failed", "ok", "down", "rolledback"}, doomed : SUBSET Int]

ArchiveRecord == [data : Int, type : {"manual", "pre_restore"}, made : Int, whole : BOOLEAN, aged : BOOLEAN]

ServeTypes ==
  /\ bkOps \in [Admins -> OpRecord]
  /\ bkFiles \in [DOMAIN bkFiles -> ArchiveRecord] /\ DOMAIN bkFiles \subseteq Int
  /\ bkDb \in Int /\ bkClock \in Int /\ bkEdits \in Nat

\* An archive that can be read does not hold half a database.
SoundFile(n) == Whole(n) => bkFiles[n].data # Broken

\* A restore that is not mixed: it is the only one, maintenance is on, and the database is
\* whole except between the drop and the load, for which it has a whole dump in hand.
Unmixed(a) ==
  /\ bkMaint
  /\ \A b \in Admins : Restoring(b) => b = a
  /\ At(a, {"pre", "predump", "prewrite", "relock", "extract", "drop", "finish", "refinish"}) => bkDb # Broken
  /\ At(a, {"drop", "load", "redrop", "reload"}) => bkOps[a].got # Broken
  /\ At(a, {"rollback"}) => bkOps[a].pre # 0
  /\ SoundFile(bkOps[a].id)
  /\ bkOps[a].pre # 0 => SoundFile(bkOps[a].pre)
  /\ \A b \in Admins : At(b, {"write", "prewrite"}) => bkOps[b].got # Broken

ServeInv ==
  /\ ServeTypes /\ LockInv
  /\ ~bkMixed => /\ bkDb = Broken => bkMaint
                 /\ \A a \in Admins : Restoring(a) => Unmixed(a)

LEMMA IdleRecord == OpIdle \in OpRecord /\ OpIdle.pc = "idle"
BY DEF OpIdle, OpRecord, OpLabels

LEMMA ServeInit == RestoreInit => ServeInv
<1> SUFFICES ASSUME RestoreInit PROVE ServeInv
  OBVIOUS
<1>1. OpIdle \in OpRecord /\ OpIdle.pc = "idle"
  BY IdleRecord
<1>2. bkFiles \in [{0} -> ArchiveRecord] /\ DOMAIN bkFiles = {0}
  BY DEF RestoreInit, Archive, ArchiveRecord
<1>3. ServeTypes
  <2>1. bkOps \in [Admins -> OpRecord]
    BY <1>1 DEF RestoreInit
  <2>2. bkFiles \in [DOMAIN bkFiles -> ArchiveRecord] /\ DOMAIN bkFiles \subseteq Int
    BY <1>2
  <2>3. bkDb \in Int /\ bkClock \in Int /\ bkEdits \in Nat
    BY DEF RestoreInit
  <2> QED
    BY <2>1, <2>2, <2>3 DEF ServeTypes
<1>4. bkDb # Broken /\ \A a \in Admins : ~Restoring(a)
  BY <1>1 DEF RestoreInit, Broken, Restoring, At
<1> QED
  BY <1>3, <1>4, LockInit DEF ServeInv

\* An archive that is added is as sound as what was dumped into it.
LEMMA PutSound ==
  ASSUME ServeTypes, NEW n \in Int, NEW arc \in ArchiveRecord, bkFiles' = Put(n, arc)
  PROVE  /\ bkFiles' \in [DOMAIN bkFiles' -> ArchiveRecord] /\ DOMAIN bkFiles' \subseteq Int
         /\ \A m : m # n /\ SoundFile(m) => SoundFile(m)'
         /\ ~arc.whole \/ arc.data # Broken => SoundFile(n)'
<1>1. bkFiles' = [m \in DOMAIN bkFiles \cup {n} |-> IF m = n THEN arc ELSE bkFiles[m]]
  BY DEF Put
<1>2. DOMAIN bkFiles' = DOMAIN bkFiles \cup {n}
  BY <1>1
<1>3. bkFiles' \in [DOMAIN bkFiles \cup {n} -> ArchiveRecord]
  BY <1>1 DEF ServeTypes
<1> QED
  BY <1>1, <1>2, <1>3 DEF ServeTypes, SoundFile, Whole

\* Deleting archives breaks none.
LEMMA WithoutSound ==
  ASSUME ServeTypes, NEW N, bkFiles' = WithoutFiles(N)
  PROVE  /\ bkFiles' \in [DOMAIN bkFiles' -> ArchiveRecord] /\ DOMAIN bkFiles' \subseteq Int
         /\ \A m : SoundFile(m) => SoundFile(m)'
<1>1. bkFiles' = [m \in DOMAIN bkFiles \ N |-> bkFiles[m]]
  BY DEF WithoutFiles, Restrict
<1> QED
  BY <1>1 DEF ServeTypes, SoundFile, Whole

\* A step of an operation that restores nothing, before or after.
LEMMA PlainStep ==
  ASSUME ServeInv, LockInv', NEW a \in Admins, NEW r \in OpRecord, bkOps' = [bkOps EXCEPT ![a] = r],
         bkOps[a].pc \notin RestoreLabels, r.pc \notin RestoreLabels,
         r.pc = "write" => bkOps[a].pc = "dump" /\ r.got = bkDb,
         UNCHANGED <<bkDb, bkClock, bkMaint, bkEdits, bkMixed>>,
         bkFiles' \in [DOMAIN bkFiles' -> ArchiveRecord], DOMAIN bkFiles' \subseteq Int,
         \A m : ~bkMixed /\ (\E c \in Admins : Restoring(c)) /\ SoundFile(m) => SoundFile(m)'
  PROVE  ServeInv'
<1>1. ServeTypes'
  BY DEF ServeInv, ServeTypes
<1>2. \A c \in Admins : c # a => bkOps'[c] = bkOps[c]
  BY DEF ServeInv, ServeTypes
<1>3. bkOps'[a] = r
  BY DEF ServeInv, ServeTypes
<1>4. \A c \in Admins : bkOps[c].pc \in OpLabels /\ bkOps'[c].pc \in OpLabels
  BY <1>1 DEF ServeInv, ServeTypes, OpRecord
<1>5. \A c \in Admins : (Restoring(c) <=> bkOps[c].pc \in RestoreLabels)
                        /\ (Restoring(c)' <=> bkOps'[c].pc \in RestoreLabels)
  BY <1>4 DEF Restoring, At, OpLabels, RestoreLabels
<1>6. ASSUME ~bkMixed', NEW c \in Admins, Restoring(c)' PROVE Unmixed(c)'
  <2>1. c # a /\ Restoring(c) /\ bkOps'[c] = bkOps[c]
    BY <1>2, <1>3, <1>5, <1>6
  <2>2. Unmixed(c)
    BY <1>6, <2>1 DEF ServeInv
  <2>3. \A b \in Admins : Restoring(b)' => b = c
    BY <1>2, <1>3, <1>5, <2>2 DEF Unmixed
  <2>4. \A m : SoundFile(m) => SoundFile(m)'
    BY <1>6, <2>1
  <2>5. r.pc = "write" => r.got # Broken
    <3> SUFFICES ASSUME bkOps[a].pc = "dump" PROVE bkDb # Broken
      OBVIOUS
    <3>1. bkLock = a
      BY DEF ServeInv, LockInv, HolderOwns, Held
    <3>2. bkOps[c].pc \notin Held /\ bkOps[c].pc \in RestoreLabels
      BY <1>5, <2>1, <3>1 DEF ServeInv, LockInv, HolderOwns
    <3>3. bkOps[c].pc \in {"pre", "relock"}
      BY <3>2 DEF RestoreLabels, Held
    <3> QED
      BY <2>2, <3>3 DEF Unmixed, At
  <2>6. ASSUME NEW b \in Admins, At(b, {"write", "prewrite"})' PROVE bkOps'[b].got # Broken
    <3>1. CASE b = a
      <4>1. r.pc = "write"
        BY <1>3, <2>6, <3>1 DEF At, RestoreLabels
      <4> QED
        BY <1>3, <2>5, <3>1, <4>1
    <3>2. CASE b # a
      BY <1>2, <2>2, <2>6, <3>2 DEF Unmixed, At
    <3> QED
      BY <3>1, <3>2
  <2> QED
    BY <2>1, <2>2, <2>3, <2>4, <2>6 DEF Unmixed, At
<1> QED
  BY <1>1, <1>6 DEF ServeInv, ServeTypes

\* A step of a restore that does not change the database and keeps maintenance on.
LEMMA RestoreMoves ==
  ASSUME ServeInv, LockInv', NEW a \in Admins, NEW r \in OpRecord, bkOps' = [bkOps EXCEPT ![a] = r],
         Restoring(a), r.pc \in RestoreLabels \cup {"idle"},
         UNCHANGED <<bkClock, bkMaint, bkEdits>>, bkDb' \in Int, bkMixed => bkMixed',
         bkFiles' \in [DOMAIN bkFiles' -> ArchiveRecord], DOMAIN bkFiles' \subseteq Int,
         Unmixed(a) => /\ \A m : SoundFile(m) => SoundFile(m)'
                       /\ r.pc \in {"pre", "predump", "prewrite", "relock", "extract", "drop", "finish", "refinish"}
                            => bkDb' # Broken
                       /\ r.pc \in {"drop", "load", "redrop", "reload", "prewrite"} => r.got # Broken
                       /\ r.pc = "rollback" => r.pre # 0
                       /\ r.id = bkOps[a].id
                       /\ r.pre = bkOps[a].pre \/ SoundFile(r.pre)'
  PROVE  ServeInv'
<1>1. ServeTypes'
  BY DEF ServeInv, ServeTypes
<1>2. \A c \in Admins : c # a => bkOps'[c] = bkOps[c]
  BY DEF ServeInv, ServeTypes
<1>3. bkOps'[a] = r
  BY DEF ServeInv, ServeTypes
<1>4. ASSUME ~bkMixed' PROVE Unmixed(a)
  BY <1>4 DEF ServeInv
<1>5. ASSUME NEW c \in Admins, c # a PROVE Restoring(c)' = Restoring(c)
  BY <1>2, <1>5 DEF Restoring, At
<1>6. ASSUME ~bkMixed', NEW c \in Admins, Restoring(c)' PROVE Unmixed(c)'
  <2>1. c = a
    BY <1>4, <1>5, <1>6 DEF Unmixed
  <2>2. Unmixed(a)
    BY <1>4, <1>6
  <2>3. \A b \in Admins : Restoring(b)' => b = a
    BY <1>5, <2>2 DEF Unmixed
  <2>4. ASSUME NEW b \in Admins, At(b, {"write", "prewrite"})' PROVE bkOps'[b].got # Broken
    <3>1. CASE b = a
      <4>1. r.pc = "prewrite"
        BY <1>3, <2>4, <3>1 DEF At, RestoreLabels
      <4> QED
        BY <1>3, <2>2, <3>1, <4>1
    <3>2. CASE b # a
      BY <1>2, <2>2, <2>4, <3>2 DEF Unmixed, At
    <3> QED
      BY <3>1, <3>2
  <2>5. SoundFile(r.id)' /\ (r.pre # 0 => SoundFile(r.pre)')
    <3>1. SoundFile(bkOps[a].id) /\ (bkOps[a].pre # 0 => SoundFile(bkOps[a].pre))
      BY <2>2 DEF Unmixed
    <3> QED
      BY <2>2, <3>1
  <2>6. SoundFile(bkOps[a].id)' /\ (bkOps'[a].pre # 0 => SoundFile(bkOps[a].pre)')
    BY <1>3, <2>5 DEF SoundFile, Whole
  <2> QED
    BY <1>3, <2>1, <2>2, <2>3, <2>4, <2>6 DEF Unmixed, At
<1>7. ASSUME ~bkMixed', bkDb' = Broken PROVE bkMaint'
  BY <1>4, <1>7 DEF Unmixed
<1> QED
  BY <1>1, <1>6, <1>7 DEF ServeInv

\* A step beside the operations: whatever becomes of the database, nobody breaks it.
LEMMA AsideStep ==
  ASSUME ServeInv, LockInv', ServeTypes', UNCHANGED <<bkOps, bkMaint, bkMixed>>,
         bkDb' = bkDb \/ (bkDb # Broken /\ bkDb' # Broken),
         \A m : SoundFile(m) => SoundFile(m)'
  PROVE  ServeInv'
<1>1. ASSUME NEW a \in Admins, ~bkMixed, Restoring(a) PROVE Unmixed(a)'
  <2>1. Unmixed(a)
    BY <1>1 DEF ServeInv
  <2> QED
    BY <2>1 DEF Unmixed, At, Restoring
<1>2. \A a \in Admins : Restoring(a)' = Restoring(a)
  BY DEF Restoring, At
<1> QED
  BY <1>1, <1>2 DEF ServeInv

LEMMA ServeAside ==
  ASSUME ServeInv, LockInv', EditData \/ Tick \/ \E n \in DOMAIN bkFiles : HandleDeleteBackup(n)
  PROVE  ServeInv'
<1>1. CASE EditData
  <2>1. bkDb' \in Int /\ bkEdits' \in Nat /\ bkDb' # Broken /\ bkDb # Broken
    BY <1>1 DEF ServeInv, ServeTypes, EditData, Broken
  <2>2. ServeTypes'
    BY <1>1, <2>1 DEF ServeInv, ServeTypes, EditData
  <2> QED
    BY <1>1, <2>1, <2>2, AsideStep DEF EditData, SoundFile, Whole
<1>2. CASE Tick
  <2>1. ServeTypes'
    BY <1>2 DEF ServeInv, ServeTypes, Tick
  <2> QED
    BY <1>2, <2>1, AsideStep DEF Tick, SoundFile, Whole
<1>3. ASSUME NEW n \in DOMAIN bkFiles, HandleDeleteBackup(n) PROVE ServeInv'
  <2>1. bkFiles' = WithoutFiles({n})
    BY <1>3 DEF HandleDeleteBackup
  <2>2. /\ bkFiles' \in [DOMAIN bkFiles' -> ArchiveRecord] /\ DOMAIN bkFiles' \subseteq Int
        /\ \A m : SoundFile(m) => SoundFile(m)'
    BY <2>1, WithoutSound DEF ServeInv
  <2>3. ServeTypes'
    BY <1>3, <2>2 DEF ServeInv, ServeTypes, HandleDeleteBackup
  <2> QED
    BY <1>3, <2>2, <2>3, AsideStep DEF HandleDeleteBackup
<1> QED BY <1>1, <1>2, <1>3

\* Steps after which nothing restores.
LEMMA ServeQuiet ==
  ASSUME ServeInv, LockInv', DaysPass \/ BackupCrash
  PROVE  ServeInv'
<1>1. CASE DaysPass
  <2>1. bkFiles' \in [DOMAIN bkFiles' -> ArchiveRecord] /\ DOMAIN bkFiles' \subseteq Int
    BY <1>1 DEF DaysPass, ServeInv, ServeTypes, ArchiveRecord
  <2>2. ServeTypes'
    BY <1>1, <2>1 DEF DaysPass, ServeInv, ServeTypes
  <2> QED
    BY <1>1, <2>2 DEF DaysPass, ServeInv, Restoring, At
<1>2. CASE BackupCrash
  <2>1. \A a \in Admins : OpIdle \in OpRecord /\ bkOps'[a] = OpIdle /\ ~Restoring(a)'
    BY <1>2, IdleRecord DEF BackupCrash, Restoring, At
  <2>2. bkOps' \in [Admins -> OpRecord]
    BY <1>2, <2>1 DEF BackupCrash
  <2>3. bkFiles' \in [DOMAIN bkFiles' -> ArchiveRecord] /\ DOMAIN bkFiles' \subseteq Int
    <3> DEFINE writing == {a \in Admins : At(a, {"write", "prewrite"})}
               w  == CHOOSE a \in writing : TRUE
               arc == Archive(bkOps[w].got, "manual", bkOps[w].name, FALSE)
    <3>1. CASE writing = {}
      BY <1>2, <3>1 DEF BackupCrash, ServeInv, ServeTypes
    <3>2. CASE writing # {}
      <4>1. w \in Admins
        BY <3>2
      <4>2. bkOps[w].name \in Int /\ arc \in ArchiveRecord
        BY <4>1 DEF ServeInv, ServeTypes, OpRecord, Archive, ArchiveRecord
      <4>3. bkFiles' = Put(bkOps[w].name, arc)
        BY <1>2, <3>2 DEF BackupCrash
      <4> QED
        BY <4>2, <4>3, PutSound DEF ServeInv
    <3> QED BY <3>1, <3>2
  <2>4. ServeTypes'
    BY <1>2, <2>2, <2>3 DEF BackupCrash, ServeInv, ServeTypes
  <2> QED
    BY <1>2, <2>1, <2>4 DEF BackupCrash, ServeInv
<1> QED BY <1>1, <1>2

\* A backup is under way, or starts: it is in nobody's way.
LEMMA ServeBackup ==
  ASSUME ServeInv, LockInv', NEW a \in Admins,
         \/ HandleCreateBackup(a) \/ CheckScheduledBackup(a)
         \/ ApplyRetention(a) \/ DeleteDoomed(a)
  PROVE  ServeInv'
<1>0. bkOps[a] \in OpRecord /\ bkOps \in [Admins -> OpRecord]
  BY DEF ServeInv, ServeTypes
<1>f. UNCHANGED bkFiles => /\ bkFiles' \in [DOMAIN bkFiles' -> ArchiveRecord]
                           /\ DOMAIN bkFiles' \subseteq Int
                           /\ \A m : SoundFile(m) => SoundFile(m)'
  BY DEF ServeInv, ServeTypes, SoundFile, Whole
<1>1. CASE HandleCreateBackup(a) \/ CheckScheduledBackup(a)
  <2> DEFINE r == [OpIdle EXCEPT !.pc = "dump", !.name = bkClock]
  <2>1. r \in OpRecord /\ r.pc = "dump"
    BY IdleRecord DEF ServeInv, ServeTypes, OpRecord, OpLabels
  <2>2. bkOps[a].pc = "idle"
    BY <1>1 DEF HandleCreateBackup, CheckScheduledBackup, Started, At
  <2>3. bkOps' = [bkOps EXCEPT ![a] = r] /\ UNCHANGED <<bkDb, bkFiles, bkClock, bkMaint, bkEdits, bkMixed>>
    BY <1>1 DEF HandleCreateBackup, CheckScheduledBackup, CreateBackup
  <2>4. r.pc \notin RestoreLabels /\ bkOps[a].pc \notin RestoreLabels
    BY <2>1, <2>2 DEF RestoreLabels
  <2> HIDE DEF r
  <2> QED
    BY <1>f, <2>1, <2>2, <2>3, <2>4, PlainStep
<1>2. CASE ApplyRetention(a)
  <2>1. PICK doomed \in SUBSET DOMAIN bkFiles :
           /\ bkOps' = [bkOps EXCEPT ![a].pc = "delete",
                ![a].doomed = doomed \cup {n \in {n \in DOMAIN bkFiles : bkFiles[n].type = "pre_restore"} : bkFiles[n].aged}]
    BY <1>2 DEF ApplyRetention
  <2> DEFINE D == doomed \cup {n \in {n \in DOMAIN bkFiles : bkFiles[n].type = "pre_restore"} : bkFiles[n].aged}
             r == [bkOps[a] EXCEPT !.pc = "delete", !.doomed = D]
  <2>2. D \in SUBSET Int
    BY DEF ServeInv, ServeTypes
  <2>3. bkOps' = [bkOps EXCEPT ![a] = r]
    BY <1>0, <2>1
  <2> HIDE DEF D
  <2>4. r \in OpRecord /\ r.pc = "delete"
    BY <1>0, <2>2 DEF OpRecord, OpLabels
  <2>5. r.pc \notin RestoreLabels /\ bkOps[a].pc \notin RestoreLabels
    BY <1>2, <2>4 DEF ApplyRetention, At, RestoreLabels
  <2> HIDE DEF r
  <2>6. UNCHANGED <<bkDb, bkFiles, bkClock, bkMaint, bkEdits, bkMixed>>
    BY <1>2 DEF ApplyRetention
  <2> QED
    BY <1>f, <2>3, <2>4, <2>5, <2>6, PlainStep
<1>3. CASE DeleteDoomed(a)
  <2> DEFINE r == [OpIdle EXCEPT !.out = "ok"]
  <2>1. r \in OpRecord /\ r.pc = "idle"
    BY IdleRecord DEF OpRecord
  <2>2. /\ bkFiles' = WithoutFiles(bkOps[a].doomed)
        /\ bkOps' = [bkOps EXCEPT ![a] = r] /\ UNCHANGED <<bkDb, bkClock, bkMaint, bkEdits, bkMixed>>
    BY <1>3 DEF DeleteDoomed
  <2>3. /\ bkFiles' \in [DOMAIN bkFiles' -> ArchiveRecord] /\ DOMAIN bkFiles' \subseteq Int
        /\ \A m : SoundFile(m) => SoundFile(m)'
    BY <2>2, WithoutSound DEF ServeInv
  <2>4. r.pc \notin RestoreLabels /\ bkOps[a].pc \notin RestoreLabels
    BY <1>3, <2>1 DEF DeleteDoomed, At, RestoreLabels
  <2> HIDE DEF r
  <2> QED
    BY <2>1, <2>2, <2>3, <2>4, PlainStep
<1> QED BY <1>1, <1>2, <1>3

\* A restore that starts: it is not mixed only if it is alone and finds and asks for whole data.
LEMMA ServeBegin ==
  ASSUME ServeInv, LockInv', NEW a \in Admins, NEW n \in Int, NEW data \in Int, NEW skip \in BOOLEAN,
         BeginRestore(a, n, data, skip), bkFiles' \in [DOMAIN bkFiles' -> ArchiveRecord],
         DOMAIN bkFiles' \subseteq Int, data # Broken => SoundFile(n)'
  PROVE  ServeInv'
<1> DEFINE r == [OpIdle EXCEPT !.pc = IF skip THEN "extract" ELSE "pre", !.id = n, !.asked = data, !.before = bkDb]
<1>1. /\ r \in OpRecord /\ r.id = n /\ r.pre = 0
      /\ r.pc \in {"extract", "pre"}
  BY IdleRecord DEF OpIdle, OpRecord, OpLabels, RestoreLabels, ServeInv, ServeTypes
<1>2. bkOps' = [bkOps EXCEPT ![a] = r] /\ bkOps[a].pc = "idle" /\ bkLock = 0
  BY DEF BeginRestore, Started, At
<1> HIDE DEF r
<1>3. UNCHANGED <<bkDb, bkClock, bkEdits>> /\ bkMaint'
  BY DEF BeginRestore
<1>4. ServeTypes'
  BY <1>1, <1>2, <1>3 DEF ServeInv, ServeTypes
<1>5. bkOps'[a] = r /\ \A b \in Admins : b # a => bkOps'[b] = bkOps[b]
  BY <1>2 DEF ServeInv, ServeTypes
<1>6. \A b \in Admins : bkOps[b].pc \notin Held
  BY <1>2, RestoreAssumption DEF ServeInv, LockInv, HolderOwns
<1>7. ASSUME ~bkMixed' PROVE Unmixed(a)' /\ \A b \in Admins : Restoring(b)' => b = a
  <2>1. bkDb # Broken /\ data # Broken /\ \A b \in Admins : ~Restoring(b)
    BY <1>7 DEF BeginRestore
  <2>2. \A b \in Admins : Restoring(b)' => b = a
    BY <1>5, <2>1 DEF Restoring, At
  <2>4. SoundFile(bkOps[a].id)'
    BY <1>1, <1>5, <2>1 DEF SoundFile, Whole
  <2>5. \A b \in Admins : ~At(b, {"write", "prewrite"})'
    BY <1>1, <1>5, <1>6 DEF At, Held
  <2> QED
    BY <1>1, <1>3, <1>5, <2>1, <2>2, <2>4, <2>5 DEF Unmixed, At
<1>8. ASSUME ~bkMixed', NEW b \in Admins, Restoring(b)' PROVE Unmixed(b)'
  BY <1>7, <1>8
<1> QED
  BY <1>3, <1>4, <1>8 DEF ServeInv

LEMMA ServeStart ==
  ASSUME ServeInv, LockInv', NEW a \in Admins,
         \/ HandleRestoreUpload(a) \/ HandleSetupRestore(a)
         \/ \E n \in DOMAIN bkFiles : HandleRestore(a, n) \/ HandleSetupRestoreFromDisk(a, n)
  PROVE  ServeInv'
<1>1. CASE HandleRestoreUpload(a) \/ HandleSetupRestore(a)
  <2>1. PICK skip \in BOOLEAN : RestoreFromUpload(a, 1, skip)
    <3>1. (~bkDump) \in BOOLEAN /\ TRUE \in BOOLEAN
      OBVIOUS
    <3> QED BY <1>1, <3>1 DEF HandleRestoreUpload, HandleSetupRestore
  <2> DEFINE arc == Archive(1, "manual", 0, TRUE)
  <2>2. arc \in ArchiveRecord /\ arc.data = 1 /\ bkClock \in Int
    BY DEF Archive, ArchiveRecord, ServeInv, ServeTypes
  <2>3. bkFiles' = Put(bkClock, arc) /\ BeginRestore(a, bkClock, 1, skip)
    BY <2>1 DEF RestoreFromUpload
  <2> HIDE DEF arc
  <2>4. bkClock' = bkClock
    BY <2>3 DEF BeginRestore
  <2>5. /\ bkFiles' \in [DOMAIN bkFiles' -> ArchiveRecord] /\ DOMAIN bkFiles' \subseteq Int
        /\ bkFiles'[bkClock] = arc
    BY <2>2, <2>3, PutSound DEF ServeInv, Put
  <2>6. \A n : n = bkClock => SoundFile(n)'
    BY <2>2, <2>5 DEF SoundFile, Broken
  <2> QED
    BY <2>2, <2>3, <2>5, <2>6, ServeBegin
<1>2. ASSUME NEW n \in DOMAIN bkFiles, HandleRestore(a, n) \/ HandleSetupRestoreFromDisk(a, n)
      PROVE  ServeInv'
  <2>1. PICK skip \in BOOLEAN : BeginRestore(a, n, bkFiles[n].data, skip)
    <3>1. (~bkDump) \in BOOLEAN /\ TRUE \in BOOLEAN
      OBVIOUS
    <3> QED BY <1>2, <3>1 DEF HandleRestore, HandleSetupRestoreFromDisk
  <2>2. UNCHANGED bkFiles
    BY <1>2 DEF HandleRestore, HandleSetupRestoreFromDisk
  <2>3. n \in Int /\ bkFiles[n].data \in Int
    BY DEF ServeInv, ServeTypes, ArchiveRecord
  <2>4. bkFiles[n].data # Broken => SoundFile(n)'
    BY <2>2 DEF SoundFile
  <2>5. bkFiles' \in [DOMAIN bkFiles' -> ArchiveRecord] /\ DOMAIN bkFiles' \subseteq Int
    BY <2>2 DEF ServeInv, ServeTypes
  <2> QED
    BY <2>1, <2>3, <2>4, <2>5, ServeBegin
<1> QED BY <1>1, <1>2

\* The end of a restore opens the door to what its last step found.
LEMMA ServeEnd == ASSUME ServeInv, LockInv', NEW a \in Admins, EndRestore(a) PROVE ServeInv'
<1>1. PICK out \in {"ok", "rolledback"} : bkOps' = [bkOps EXCEPT ![a].pc = "idle", ![a].out = out]
  BY DEF EndRestore, Ended
<1> DEFINE r == [bkOps[a] EXCEPT !.pc = "idle", !.out = out]
<1>2. bkOps[a] \in OpRecord /\ bkOps \in [Admins -> OpRecord]
  BY DEF ServeInv, ServeTypes
<1>3. r \in OpRecord /\ r.pc = "idle"
  BY <1>2 DEF OpRecord, OpLabels
<1>4. bkOps' = [bkOps EXCEPT ![a] = r]
  BY <1>1, <1>2
<1> HIDE DEF r
<1>5. bkOps'[a] = r /\ \A b \in Admins : b # a => bkOps'[b] = bkOps[b]
  BY <1>2, <1>4
<1>6. ServeTypes'
  BY <1>2, <1>3, <1>4 DEF EndRestore, ServeInv, ServeTypes
<1>7. Restoring(a) /\ At(a, {"finish", "refinish"})
  BY DEF EndRestore, Restoring, At
<1>8. ASSUME ~bkMixed' PROVE bkDb' # Broken /\ \A b \in Admins : ~Restoring(b)'
  <2>1. Unmixed(a) /\ UNCHANGED bkDb
    BY <1>7, <1>8 DEF EndRestore, ServeInv
  <2>2. ~Restoring(a)'
    BY <1>3, <1>5 DEF Restoring, At
  <2>3. ASSUME NEW b \in Admins, b # a PROVE ~Restoring(b)'
    BY <1>5, <2>1, <2>3 DEF Unmixed, Restoring, At
  <2> QED
    BY <1>7, <2>1, <2>2, <2>3 DEF Unmixed, At
<1> QED
  BY <1>6, <1>8 DEF ServeInv

\* What fails within a restore is rolled back, if there is something to roll back to.
LEMMA ServeFail ==
  ASSUME ServeInv, LockInv', NEW a \in Admins, Restoring(a), Fail(a),
         UNCHANGED <<bkDb, bkFiles, bkClock, bkEdits, bkMixed>>
  PROVE  ServeInv'
<1>1. bkOps[a] \in OpRecord /\ bkOps \in [Admins -> OpRecord]
  BY DEF ServeInv, ServeTypes
<1>2. UNCHANGED bkMaint
  BY DEF Fail, GiveUp
<1>3. PICK r \in OpRecord : /\ bkOps' = [bkOps EXCEPT ![a] = r] /\ r.id = bkOps[a].id /\ r.pre = bkOps[a].pre
                            /\ \/ r.pc = "rollback" /\ r.pre # 0
                               \/ r.pc = "idle"
  <2>1. CASE bkOps[a].pre # 0 /\ At(a, {"extract", "drop", "load"})
    <3> DEFINE q == [bkOps[a] EXCEPT !.pc = "rollback"]
    <3>1. q \in OpRecord /\ q.pc = "rollback" /\ q.id = bkOps[a].id /\ q.pre = bkOps[a].pre
      BY <1>1 DEF OpRecord, OpLabels, RestoreLabels
    <3>2. bkOps' = [bkOps EXCEPT ![a] = q]
      BY <1>1, <2>1 DEF Fail, Step
    <3> QED BY <2>1, <3>1, <3>2
  <2>2. CASE ~(bkOps[a].pre # 0 /\ At(a, {"extract", "drop", "load"}))
    <3> DEFINE q == [bkOps[a] EXCEPT !.pc = "idle", !.out = "down"]
    <3>1. q \in OpRecord /\ q.pc = "idle" /\ q.id = bkOps[a].id /\ q.pre = bkOps[a].pre
      BY <1>1 DEF OpRecord, OpLabels
    <3>2. bkOps' = [bkOps EXCEPT ![a] = q]
      BY <1>1, <2>2 DEF Fail, GiveUp, Ended
    <3> QED BY <3>1, <3>2
  <2> QED BY <2>1, <2>2
<1>4. r.pc \in RestoreLabels \cup {"idle"}
  BY <1>3 DEF RestoreLabels
<1>5. /\ bkFiles' \in [DOMAIN bkFiles' -> ArchiveRecord] /\ DOMAIN bkFiles' \subseteq Int /\ bkDb' \in Int
      /\ \A m : SoundFile(m) => SoundFile(m)'
  BY DEF ServeInv, ServeTypes, SoundFile, Whole
<1> QED
  BY <1>2, <1>3, <1>4, <1>5, RestoreMoves

\* Where a restore keeps the files and the database, and goes from one step to another.
LEMMA RestorePasses ==
  ASSUME ServeInv, LockInv', NEW a \in Admins, NEW r \in OpRecord, bkOps' = [bkOps EXCEPT ![a] = r],
         Restoring(a), r.pc \in {"predump", "prewrite", "relock", "extract", "drop", "redrop", "idle"},
         r.id = bkOps[a].id, r.pre = bkOps[a].pre,
         UNCHANGED <<bkFiles, bkDb, bkClock, bkMaint, bkEdits>>, bkMixed => bkMixed',
         Unmixed(a) => /\ r.pc \in {"predump", "prewrite", "relock", "extract", "drop"} => bkDb # Broken
                       /\ r.pc \in {"drop", "redrop", "prewrite"} => r.got # Broken
  PROVE  ServeInv'
<1>1. r.pc \in RestoreLabels \cup {"idle"}
  BY DEF RestoreLabels
<1>2. /\ bkFiles' \in [DOMAIN bkFiles' -> ArchiveRecord] /\ DOMAIN bkFiles' \subseteq Int /\ bkDb' \in Int
      /\ \A m : SoundFile(m) => SoundFile(m)'
  BY DEF ServeInv, ServeTypes, SoundFile, Whole
<1> QED
  BY <1>1, <1>2, RestoreMoves

LEMMA ServeGap == ASSUME ServeInv, LockInv', NEW a \in Admins, PreRestore(a) \/ Relock(a) PROVE ServeInv'
<1>1. bkOps[a] \in OpRecord /\ bkOps \in [Admins -> OpRecord] /\ bkClock \in Int
  BY DEF ServeInv, ServeTypes
<1>2. Restoring(a) /\ (Unmixed(a) => bkDb # Broken)
  BY DEF PreRestore, Relock, Restoring, At, Unmixed
<1>3. UNCHANGED <<bkFiles, bkDb, bkClock, bkMaint, bkEdits>>
  BY DEF PreRestore, Relock
<1>m. bkMixed => bkMixed'
  <2>1. ASSUME PreRestore(a) PROVE bkMixed => bkMixed'
    BY <2>1, Zenon DEF PreRestore
  <2>2. ASSUME Relock(a) PROVE bkMixed => bkMixed'
    BY <2>2 DEF Relock
  <2> QED BY <2>1, <2>2
<1>4. CASE Relock(a) \/ (PreRestore(a) /\ bkLock # 0)
  <2> DEFINE to == IF Relock(a) THEN "extract" ELSE "relock"
             r  == [bkOps[a] EXCEPT !.pc = to]
  <2>1. bkOps' = [bkOps EXCEPT ![a] = r]
    BY <1>1, <1>4 DEF Relock, PreRestore, Step, At
  <2>2. to \in {"extract", "relock"}
    OBVIOUS
  <2> HIDE DEF to
  <2>3. r \in OpRecord /\ r.pc = to /\ r.id = bkOps[a].id /\ r.pre = bkOps[a].pre
    BY <1>1, <2>2 DEF OpRecord, OpLabels, RestoreLabels
  <2> HIDE DEF r
  <2> QED
    BY <1>2, <1>3, <1>m, <2>1, <2>2, <2>3, RestorePasses
<1>5. CASE PreRestore(a) /\ bkLock = 0
  <2> DEFINE r == [bkOps[a] EXCEPT !.pc = "predump", !.name = bkClock]
  <2>1. bkOps' = [bkOps EXCEPT ![a] = r]
    BY <1>1, <1>5 DEF PreRestore
  <2>2. r \in OpRecord /\ r.pc = "predump" /\ r.id = bkOps[a].id /\ r.pre = bkOps[a].pre
    BY <1>1 DEF OpRecord, OpLabels, RestoreLabels
  <2> HIDE DEF r
  <2> QED
    BY <1>2, <1>3, <1>m, <2>1, <2>2, RestorePasses
<1> QED BY <1>4, <1>5

LEMMA ServeDump == ASSUME ServeInv, LockInv', NEW a \in Admins, RunPgDump(a) PROVE ServeInv'
<1>1. bkOps[a] \in OpRecord /\ bkOps \in [Admins -> OpRecord] /\ bkDb \in Int
  BY DEF ServeInv, ServeTypes
<1>2. UNCHANGED <<bkFiles, bkDb, bkClock, bkMaint, bkEdits, bkMixed>>
  BY DEF RunPgDump
<1>3. /\ bkFiles' \in [DOMAIN bkFiles' -> ArchiveRecord] /\ DOMAIN bkFiles' \subseteq Int
      /\ \A m : SoundFile(m) => SoundFile(m)'
  BY <1>2 DEF ServeInv, ServeTypes, SoundFile, Whole
<1>4. CASE bkOps[a].pc = "dump"
  <2>1. PICK r \in OpRecord : /\ bkOps' = [bkOps EXCEPT ![a] = r]
                              /\ r.pc \in {"write", "idle"} /\ (r.pc = "write" => r.got = bkDb)
    <3>1. CASE bkOps' = [bkOps EXCEPT ![a].got = bkDb, ![a].pc = IF @ = "dump" THEN "write" ELSE "prewrite"]
      <4> DEFINE q == [bkOps[a] EXCEPT !.got = bkDb, !.pc = "write"]
      <4>1. q \in OpRecord /\ q.pc = "write" /\ q.got = bkDb
        BY <1>1 DEF OpRecord, OpLabels
      <4>2. bkOps' = [bkOps EXCEPT ![a] = q]
        BY <1>1, <1>4, <3>1
      <4> QED BY <4>1, <4>2
    <3>2. CASE Ended(a, "failed")
      <4> DEFINE q == [bkOps[a] EXCEPT !.pc = "idle", !.out = "failed"]
      <4>1. q \in OpRecord /\ q.pc = "idle"
        BY <1>1 DEF OpRecord, OpLabels
      <4>2. bkOps' = [bkOps EXCEPT ![a] = q]
        BY <1>1, <3>2 DEF Ended
      <4> QED BY <4>1, <4>2
    <3> QED BY <1>4, <3>1, <3>2 DEF RunPgDump, At
  <2>2. bkOps[a].pc \notin RestoreLabels /\ r.pc \notin RestoreLabels
    BY <1>4, <2>1 DEF RestoreLabels
  <2> QED
    BY <1>2, <1>3, <1>4, <2>1, <2>2, PlainStep
<1>5. CASE bkOps[a].pc = "predump"
  <2>1. PICK r \in OpRecord : /\ bkOps' = [bkOps EXCEPT ![a] = r]
                              /\ r.pc \in {"prewrite", "relock"} /\ (r.pc = "prewrite" => r.got = bkDb)
                              /\ r.id = bkOps[a].id /\ r.pre = bkOps[a].pre
    <3>1. CASE bkOps' = [bkOps EXCEPT ![a].got = bkDb, ![a].pc = IF @ = "dump" THEN "write" ELSE "prewrite"]
      <4> DEFINE q == [bkOps[a] EXCEPT !.got = bkDb, !.pc = "prewrite"]
      <4>1. q \in OpRecord /\ q.pc = "prewrite" /\ q.got = bkDb /\ q.id = bkOps[a].id /\ q.pre = bkOps[a].pre
        BY <1>1 DEF OpRecord, OpLabels, RestoreLabels
      <4>2. bkOps' = [bkOps EXCEPT ![a] = q]
        BY <1>1, <1>5, <3>1
      <4> QED BY <4>1, <4>2
    <3>2. CASE Step(a, "relock")
      <4> DEFINE q == [bkOps[a] EXCEPT !.pc = "relock"]
      <4>1. q \in OpRecord /\ q.pc = "relock" /\ q.id = bkOps[a].id /\ q.pre = bkOps[a].pre
        BY <1>1 DEF OpRecord, OpLabels, RestoreLabels
      <4>2. bkOps' = [bkOps EXCEPT ![a] = q]
        BY <1>1, <3>2 DEF Step
      <4> QED BY <4>1, <4>2
    <3> QED BY <1>5, <3>1, <3>2 DEF RunPgDump, At
  <2>2. Restoring(a) /\ (Unmixed(a) => bkDb # Broken)
    BY <1>5 DEF Restoring, At, Unmixed
  <2> QED
    BY <1>2, <2>1, <2>2, RestorePasses
<1> QED BY <1>4, <1>5 DEF RunPgDump, At

LEMMA ServeTar == ASSUME ServeInv, LockInv', NEW a \in Admins, CreateTarGz(a) PROVE ServeInv'
<1>1. bkOps[a] \in OpRecord /\ bkOps \in [Admins -> OpRecord]
  BY DEF ServeInv, ServeTypes
<1>2. UNCHANGED <<bkDb, bkClock, bkMaint, bkEdits, bkMixed>>
  BY DEF CreateTarGz
<1>3. PICK n \in Int : n = bkOps[a].name
  BY <1>1 DEF OpRecord
<1>4. PICK arc \in ArchiveRecord : bkFiles' = Put(n, arc) /\ arc.data = bkOps[a].got
  <2> DEFINE type == IF bkOps[a].pc = "write" THEN "manual" ELSE "pre_restore"
             arc(whole) == Archive(bkOps[a].got, type, n, whole)
  <2>1. \A whole \in BOOLEAN : arc(whole) \in ArchiveRecord /\ arc(whole).data = bkOps[a].got
    BY <1>1 DEF OpRecord, Archive, ArchiveRecord
  <2>2. \E whole \in BOOLEAN : bkFiles' = Put(n, arc(whole))
    BY <1>3 DEF CreateTarGz
  <2> HIDE DEF arc, type
  <2> QED BY <2>1, <2>2
<1>5. /\ bkFiles' \in [DOMAIN bkFiles' -> ArchiveRecord] /\ DOMAIN bkFiles' \subseteq Int
      /\ \A m : m # n /\ SoundFile(m) => SoundFile(m)'
      /\ arc.data # Broken => SoundFile(n)'
  BY <1>4, PutSound DEF ServeInv
<1>6. bkOps[a].got # Broken => \A m : SoundFile(m) => SoundFile(m)'
  BY <1>4, <1>5
<1>7. CASE bkOps[a].pc = "write"
  <2>1. PICK r \in OpRecord : bkOps' = [bkOps EXCEPT ![a] = r] /\ r.pc \in {"retain", "idle"}
    <3> DEFINE q == [bkOps[a] EXCEPT !.pc = "retain", !.pre = 0]
               e == [bkOps[a] EXCEPT !.pc = "idle", !.out = "failed"]
    <3>1. q \in OpRecord /\ q.pc = "retain"
      <4>1. 0 \in Int /\ "retain" \in OpLabels
        BY DEF OpLabels
      <4> QED BY <1>1, <4>1 DEF OpRecord
    <3>2. e \in OpRecord /\ e.pc = "idle"
      BY <1>1 DEF OpRecord, OpLabels
    <3>3. bkOps' = [bkOps EXCEPT ![a] = q] \/ bkOps' = [bkOps EXCEPT ![a] = e]
      BY <1>1, <1>7 DEF CreateTarGz, Ended
    <3> HIDE DEF q, e
    <3> QED BY <3>1, <3>2, <3>3
  <2>2. bkOps[a].pc \notin RestoreLabels /\ r.pc \notin RestoreLabels /\ r.pc # "write"
    BY <1>7, <2>1 DEF RestoreLabels
  <2>3. ASSUME NEW m, ~bkMixed, NEW c \in Admins, Restoring(c), SoundFile(m) PROVE SoundFile(m)'
    <3>1. bkOps[a].got # Broken
      BY <1>7, <2>3 DEF ServeInv, Unmixed, At
    <3> QED BY <1>6, <2>3, <3>1
  <2> QED
    BY <1>2, <1>5, <2>1, <2>2, <2>3, PlainStep
<1>8. CASE bkOps[a].pc = "prewrite"
  <2>1. PICK r \in OpRecord : /\ bkOps' = [bkOps EXCEPT ![a] = r] /\ r.pc = "relock"
                              /\ r.id = bkOps[a].id /\ (r.pre = bkOps[a].pre \/ r.pre = n)
    <3> DEFINE q == [bkOps[a] EXCEPT !.pc = "relock", !.pre = n]
               e == [bkOps[a] EXCEPT !.pc = "relock"]
    <3>1. /\ q \in OpRecord /\ q.pc = "relock" /\ q.id = bkOps[a].id /\ q.pre = n
          /\ e \in OpRecord /\ e.pc = "relock" /\ e.id = bkOps[a].id /\ e.pre = bkOps[a].pre
      BY <1>1 DEF OpRecord, OpLabels, RestoreLabels
    <3>2. bkOps' = [bkOps EXCEPT ![a] = q] \/ bkOps' = [bkOps EXCEPT ![a] = e]
      BY <1>1, <1>3, <1>8 DEF CreateTarGz, Step
    <3> HIDE DEF q, e
    <3> QED BY <3>1, <3>2
  <2>2. Restoring(a) /\ r.pc \in RestoreLabels
    BY <1>8, <2>1 DEF Restoring, At, RestoreLabels
  <2>3. Unmixed(a) => bkDb' # Broken /\ bkOps[a].got # Broken
    BY <1>2, <1>8 DEF Unmixed, At
  <2>4. r.pre = bkOps[a].pre \/ (bkOps[a].got # Broken => SoundFile(r.pre)')
    BY <1>4, <1>5, <2>1
  <2>5. bkDb' \in Int
    BY <1>2 DEF ServeInv, ServeTypes
  <2>6. Unmixed(a) => /\ \A m : SoundFile(m) => SoundFile(m)'
                      /\ r.pre = bkOps[a].pre \/ SoundFile(r.pre)'
    BY <1>6, <2>3, <2>4
  <2> QED
    BY <1>2, <1>5, <2>1, <2>2, <2>3, <2>5, <2>6, RestoreMoves
<1> QED BY <1>7, <1>8 DEF CreateTarGz, At

LEMMA ServeExtract ==
  ASSUME ServeInv, LockInv', NEW a \in Admins, ExtractTarGz(a) \/ Rollback(a)
  PROVE  ServeInv'
<1>1. bkOps[a] \in OpRecord /\ bkOps \in [Admins -> OpRecord]
  BY DEF ServeInv, ServeTypes
<1>2. UNCHANGED <<bkFiles, bkDb, bkClock, bkEdits, bkMixed>>
  BY DEF ExtractTarGz, Rollback
<1>3. Restoring(a)
  BY DEF ExtractTarGz, Rollback, Restoring, At
<1>4. ASSUME Fail(a) PROVE ServeInv'
  BY <1>2, <1>3, <1>4, ServeFail
<1>5. CASE ExtractTarGz(a)
  <2>1. CASE /\ Whole(bkOps[a].id) /\ UNCHANGED bkMaint /\ bkOps[a].pc = "extract"
             /\ bkOps' = [bkOps EXCEPT ![a].pc = "drop", ![a].got = bkFiles[bkOps[a].id].data]
    <3> DEFINE r == [bkOps[a] EXCEPT !.pc = "drop", !.got = bkFiles[bkOps[a].id].data]
    <3>1. bkFiles[bkOps[a].id].data \in Int
      BY <2>1 DEF Whole, ServeInv, ServeTypes, ArchiveRecord
    <3>2. /\ r \in OpRecord /\ r.pc = "drop" /\ r.got = bkFiles[bkOps[a].id].data
          /\ r.id = bkOps[a].id /\ r.pre = bkOps[a].pre
      BY <1>1, <3>1 DEF OpRecord, OpLabels, RestoreLabels
    <3>3. bkOps' = [bkOps EXCEPT ![a] = r]
      BY <1>1, <2>1
    <3> HIDE DEF r
    <3>4. Unmixed(a) => r.got # Broken /\ bkDb # Broken
      BY <2>1, <3>2 DEF Unmixed, At, SoundFile
    <3> QED
      BY <1>2, <1>3, <2>1, <3>2, <3>3, <3>4, RestorePasses
  <2> QED BY <1>4, <1>5, <2>1 DEF ExtractTarGz, At
<1>6. CASE Rollback(a)
  <2>1. CASE /\ Whole(bkOps[a].pre) /\ UNCHANGED bkMaint /\ bkOps[a].pc = "rollback"
             /\ bkOps' = [bkOps EXCEPT ![a].pc = "redrop", ![a].got = bkFiles[bkOps[a].pre].data]
    <3> DEFINE r == [bkOps[a] EXCEPT !.pc = "redrop", !.got = bkFiles[bkOps[a].pre].data]
    <3>1. bkFiles[bkOps[a].pre].data \in Int
      BY <2>1 DEF Whole, ServeInv, ServeTypes, ArchiveRecord
    <3>2. /\ r \in OpRecord /\ r.pc = "redrop" /\ r.got = bkFiles[bkOps[a].pre].data
          /\ r.id = bkOps[a].id /\ r.pre = bkOps[a].pre
      BY <1>1, <3>1 DEF OpRecord, OpLabels, RestoreLabels
    <3>3. bkOps' = [bkOps EXCEPT ![a] = r]
      BY <1>1, <2>1
    <3> HIDE DEF r
    <3>4. Unmixed(a) => r.got # Broken
      BY <2>1, <3>2 DEF Unmixed, At, SoundFile
    <3> QED
      BY <1>2, <1>3, <2>1, <3>2, <3>3, <3>4, RestorePasses
  <2>2. CASE GiveUp(a)
    <3>1. Fail(a)
      BY <1>6, <2>2 DEF Rollback, Fail, At
    <3> QED BY <1>4, <3>1
  <2> QED BY <1>6, <2>1, <2>2 DEF Rollback, At
<1> QED BY <1>5, <1>6

\* The schema is dropped with a whole dump in hand, and the dump in hand is loaded.
LEMMA ServeSchema ==
  ASSUME ServeInv, LockInv', NEW a \in Admins, DropSchema(a) \/ LoadDump(a)
  PROVE  ServeInv'
<1>1. bkOps[a] \in OpRecord /\ bkOps \in [Admins -> OpRecord]
  BY DEF ServeInv, ServeTypes
<1>2. UNCHANGED <<bkFiles, bkClock, bkEdits, bkMixed>>
  BY DEF DropSchema, LoadDump
<1>3. Restoring(a)
  BY DEF DropSchema, LoadDump, Restoring, At
<1>4. ASSUME Fail(a), UNCHANGED bkDb PROVE ServeInv'
  BY <1>2, <1>3, <1>4, ServeFail
<1>5. ASSUME NEW to \in {"load", "reload", "finish", "refinish"}, Step(a, to), UNCHANGED bkMaint,
             bkDb' \in Int,
             to \in {"load", "reload"} => At(a, {"drop", "redrop"}),
             to \in {"finish", "refinish"} => At(a, {"load", "reload"}) /\ bkDb' = bkOps[a].got
      PROVE  ServeInv'
  <2> DEFINE r == [bkOps[a] EXCEPT !.pc = to]
  <2>1. r \in OpRecord /\ r.pc = to /\ r.got = bkOps[a].got /\ r.id = bkOps[a].id /\ r.pre = bkOps[a].pre
    BY <1>1, <1>5 DEF OpRecord, OpLabels, RestoreLabels
  <2>2. bkOps' = [bkOps EXCEPT ![a] = r]
    BY <1>1, <1>5 DEF Step
  <2> HIDE DEF r
  <2>3. Unmixed(a) => bkOps[a].got # Broken
    BY <1>5 DEF Unmixed, At
  <2>4. Unmixed(a) => (r.pc \in {"finish", "refinish"} => bkDb' # Broken)
    BY <1>5, <2>1, <2>3
  <2>5. /\ bkFiles' \in [DOMAIN bkFiles' -> ArchiveRecord] /\ DOMAIN bkFiles' \subseteq Int
        /\ \A m : SoundFile(m) => SoundFile(m)'
    BY <1>2 DEF ServeInv, ServeTypes, SoundFile, Whole
  <2>6. r.pc \in RestoreLabels
    BY <1>5, <2>1 DEF RestoreLabels
  <2> QED
    BY <1>2, <1>3, <1>5, <2>1, <2>2, <2>3, <2>4, <2>5, <2>6, RestoreMoves
<1>6. CASE DropSchema(a)
  <2>1. Broken \in Int
    BY DEF Broken
  <2>2. \/ Fail(a) /\ UNCHANGED bkDb
        \/ bkDb' = Broken /\ UNCHANGED bkMaint /\ \E to \in {"load", "reload"} : Step(a, to)
    BY <1>6 DEF DropSchema
  <2> QED BY <1>4, <1>5, <1>6, <2>1, <2>2 DEF DropSchema
<1>7. CASE LoadDump(a)
  <2>1. bkOps[a].got \in Int
    BY <1>1 DEF OpRecord
  <2>2. \/ Fail(a) /\ UNCHANGED bkDb
        \/ bkDb' = bkOps[a].got /\ UNCHANGED bkMaint /\ \E to \in {"finish", "refinish"} : Step(a, to)
    BY <1>7 DEF LoadDump
  <2> QED BY <1>4, <1>5, <1>7, <2>1, <2>2 DEF LoadDump
<1> QED BY <1>6, <1>7

LEMMA ServeStep == ServeInv /\ [RestoreNext]_backupVars => ServeInv'
<1> SUFFICES ASSUME ServeInv, [RestoreNext]_backupVars PROVE ServeInv'
  OBVIOUS
<1>1. LockInv'
  BY LockStep DEF ServeInv
<1>2. ASSUME NEW a \in Admins,
             \/ HandleCreateBackup(a) \/ CheckScheduledBackup(a)
             \/ ApplyRetention(a) \/ DeleteDoomed(a)
      PROVE  ServeInv'
  BY <1>1, <1>2, ServeBackup
<1>3. ASSUME NEW a \in Admins, RunPgDump(a) \/ CreateTarGz(a) PROVE ServeInv'
  BY <1>1, <1>3, ServeDump, ServeTar
<1>4. ASSUME NEW a \in Admins,
             \/ HandleRestoreUpload(a) \/ HandleSetupRestore(a)
             \/ \E n \in DOMAIN bkFiles : HandleRestore(a, n) \/ HandleSetupRestoreFromDisk(a, n)
      PROVE  ServeInv'
  BY <1>1, <1>4, ServeStart
<1>5. ASSUME NEW a \in Admins, PreRestore(a) \/ Relock(a) PROVE ServeInv'
  BY <1>1, <1>5, ServeGap
<1>6. ASSUME NEW a \in Admins, ExtractTarGz(a) \/ Rollback(a) PROVE ServeInv'
  BY <1>1, <1>6, ServeExtract
<1>7. ASSUME NEW a \in Admins, DropSchema(a) \/ LoadDump(a) PROVE ServeInv'
  BY <1>1, <1>7, ServeSchema
<1>8. ASSUME NEW a \in Admins, EndRestore(a) PROVE ServeInv'
  BY <1>1, <1>8, ServeEnd
<1>9. CASE EditData \/ Tick \/ \E n \in DOMAIN bkFiles : HandleDeleteBackup(n)
  BY <1>1, <1>9, ServeAside
<1>10. CASE DaysPass \/ BackupCrash
  BY <1>1, <1>10, ServeQuiet
<1>11. CASE UNCHANGED backupVars
  <2>1. ServeTypes'
    BY <1>11 DEF backupVars, ServeInv, ServeTypes
  <2> QED
    BY <1>1, <1>11, <2>1, AsideStep DEF backupVars, SoundFile, Whole
<1> QED
  BY <1>2, <1>3, <1>4, <1>5, <1>6, <1>7, <1>8, <1>9, <1>10, <1>11 DEF RestoreNext

\* Whatever fails or is deleted on the way, and whichever backups run in the gap of the
\* mutex, a restore that found a whole database, was asked for the archive of one, is alone
\* and is not cut short by a death opens the service on a whole database only
\* (doRestore and handleRestoreFailure).
THEOREM NobodyServedHalf == RestoreSpec => []ServedWhole
<1>1. ServeInv => ServedWhole
  BY DEF ServeInv, ServedWhole
<1> QED BY <1>1, ServeInit, ServeStep, PTL DEF RestoreSpec

---------------------------------------------------------------------------
(* What a rollback gives back. *)

\* An archive that can be read holds the data of version v or later.
Late(n, v) == Whole(n) => bkFiles[n].data >= v

\* No data is newer than the last edit.
Bounded ==
  /\ bkDb <= bkEdits + 1
  /\ \A n \in DOMAIN bkFiles : bkFiles[n].data <= bkEdits + 1
  /\ \A a \in Admins : bkOps[a].got <= bkEdits + 1 /\ bkOps[a].before <= bkEdits + 1

\* Until a restore has dropped the schema the database is no older than when it began, so
\* what is dumped meanwhile is not either, and neither is what it rolls back to.
Current(a) ==
  LET v == bkOps[a].before IN
  /\ At(a, {"pre", "predump", "prewrite", "relock", "extract", "drop", "refinish"}) => bkDb >= v
  /\ At(a, {"redrop", "reload"}) => bkOps[a].got >= v
  /\ \A b \in Admins : At(b, {"write", "prewrite"}) => bkOps[b].got >= v
  /\ bkOps[a].pre # 0 => Late(bkOps[a].pre, v)

CurrentInv ==
  /\ ServeInv /\ Bounded
  /\ ~bkMixed => \A a \in Admins : Restoring(a) => Current(a)

\* A step of operation a.
Only(a) == \A c \in Admins : c # a => bkOps'[c] = bkOps[c]

\* Its purpose and what it has in hand stay.
SameHand(a) ==
  /\ bkOps'[a].got = bkOps[a].got
  /\ bkOps'[a].pre = bkOps[a].pre /\ bkOps'[a].before = bkOps[a].before

LEMMA OnlyStep ==
  ASSUME ServeTypes, NEW a \in Admins, NEW to, Step(a, to)
  PROVE  Only(a) /\ SameHand(a) /\ bkOps'[a].pc = to
BY DEF Step, Only, SameHand, ServeTypes, OpRecord

LEMMA OnlyEnded ==
  ASSUME ServeTypes, NEW a \in Admins, NEW out, Ended(a, out)
  PROVE  Only(a) /\ SameHand(a) /\ bkOps'[a].pc = "idle"
BY DEF Ended, Only, SameHand, ServeTypes, OpRecord

\* Restores are at a label of a restore.
LEMMA RestoringLabels ==
  ASSUME ServeTypes, NEW a \in Admins
  PROVE  Restoring(a) <=> bkOps[a].pc \in RestoreLabels
<1>1. bkOps[a].pc \in OpLabels
  BY DEF ServeTypes, OpRecord
<1> QED BY <1>1 DEF Restoring, At, OpLabels, RestoreLabels

LEMMA BoundedStep ==
  ASSUME Bounded, NEW a \in Admins, Only(a), UNCHANGED bkEdits, bkDb' <= bkEdits + 1,
         bkOps'[a].got <= bkEdits + 1, bkOps'[a].before <= bkEdits + 1,
         \A n \in DOMAIN bkFiles' : bkFiles'[n].data <= bkEdits + 1
  PROVE  Bounded'
BY DEF Bounded, Only

\* A step of the only restore: what it must not lose is what it was begun with.
LEMMA CurrentMove ==
  ASSUME CurrentInv, ServeInv', Bounded', NEW a \in Admins, Only(a), Restoring(a), bkMixed => bkMixed',
         NEW v, NEW n, v = bkOps[a].before, v = bkOps'[a].before, n = bkOps'[a].pre,
         Current(a) /\ Unmixed(a) /\ ~bkMixed' =>
            /\ At(a, {"pre", "predump", "prewrite", "relock", "extract", "drop", "refinish"})' => bkDb' >= v
            /\ At(a, {"redrop", "reload", "write", "prewrite"})' => bkOps'[a].got >= v
            /\ n # 0 => Late(n, v)'
  PROVE  CurrentInv'
<1> SUFFICES ASSUME ~bkMixed', NEW c \in Admins, Restoring(c)' PROVE Current(c)'
  BY DEF CurrentInv
<1>1. Current(a) /\ Unmixed(a)
  BY DEF CurrentInv, ServeInv
<1>2. c = a
  BY <1>1 DEF Only, Unmixed, Restoring, At
<1>3. \A b \in Admins : At(b, {"write", "prewrite"})' => bkOps'[b].got >= v
  BY <1>1 DEF Current, Only, At
<1> QED
  BY <1>1, <1>2, <1>3 DEF Current, At

\* A step of an operation that restores nothing, before or after.
LEMMA CurrentPlain ==
  ASSUME CurrentInv, ServeInv', Bounded', NEW a \in Admins, Only(a), UNCHANGED <<bkDb, bkMixed>>,
         bkOps[a].pc \notin RestoreLabels, bkOps'[a].pc \notin RestoreLabels,
         \A c \in Admins : \A v, n :
            /\ ~bkMixed /\ c # a /\ Restoring(c) /\ Current(c) /\ Unmixed(c)
            /\ v = bkOps[c].before /\ n = bkOps[c].pre
            => /\ At(a, {"write"})' => bkOps'[a].got >= v
               /\ n # 0 => Late(n, v)'
  PROVE  CurrentInv'
<1> SUFFICES ASSUME ~bkMixed', NEW c \in Admins, Restoring(c)' PROVE Current(c)'
  BY DEF CurrentInv
<1>1. Restoring(a)' <=> bkOps'[a].pc \in RestoreLabels
  BY RestoringLabels DEF ServeInv, ServeTypes, OpRecord, Restoring, At, OpLabels, RestoreLabels
<1>2. c # a /\ bkOps'[c] = bkOps[c]
  BY <1>1 DEF Only
<1>3. Restoring(c)
  BY <1>2 DEF Restoring, At
<1>4. Current(c) /\ Unmixed(c)
  BY <1>3 DEF CurrentInv, ServeInv
<1>5. PICK v, n : v = bkOps[c].before /\ n = bkOps[c].pre
  OBVIOUS
<1>6. /\ At(a, {"write"})' => bkOps'[a].got >= v
      /\ n # 0 => Late(n, v)'
  BY <1>2, <1>3, <1>4, <1>5
<1>7. ASSUME NEW b \in Admins, At(b, {"write", "prewrite"})' PROVE bkOps'[b].got >= v
  <2>1. CASE b = a
    BY <1>6, <1>7, <2>1 DEF At, RestoreLabels
  <2>2. CASE b # a
    BY <1>4, <1>5, <1>7, <2>2 DEF Only, Current, At
  <2> QED BY <2>1, <2>2
<1> QED
  BY <1>2, <1>4, <1>5, <1>6, <1>7 DEF Current, At

\* Nobody moves, the database gets no older and the archives lose nothing.
LEMMA CurrentAside ==
  ASSUME CurrentInv, ServeInv', Bounded', UNCHANGED <<bkOps, bkMixed>>,
         \A a \in Admins : Restoring(a) => bkDb' >= bkDb \/ bkDb' >= bkOps[a].before,
         \A n, v : Late(n, v) => Late(n, v)'
  PROVE  CurrentInv'
<1> SUFFICES ASSUME ~bkMixed', NEW c \in Admins, Restoring(c)' PROVE Current(c)'
  BY DEF CurrentInv
<1>1. Restoring(c) /\ Current(c)
  BY DEF CurrentInv, Restoring, At
<1>2. PICK v, n : v = bkOps[c].before /\ n = bkOps[c].pre
  OBVIOUS
<1>3. v \in Int /\ bkDb \in Int /\ bkDb' \in Int
  BY <1>2 DEF CurrentInv, ServeInv, ServeTypes, OpRecord
<1>4. At(c, {"pre", "predump", "prewrite", "relock", "extract", "drop", "refinish"})' => bkDb' >= v
  BY <1>1, <1>2, <1>3 DEF Current, At
<1>5. n # 0 => Late(n, v)'
  BY <1>1, <1>2 DEF Current
<1> QED
  BY <1>1, <1>2, <1>4, <1>5 DEF Current, At

LEMMA PutLate ==
  ASSUME ServeTypes, NEW n \in Int, NEW arc \in ArchiveRecord, bkFiles' = Put(n, arc)
  PROVE  /\ \A m, v : m # n /\ Late(m, v) => Late(m, v)'
         /\ \A v : arc.data >= v => Late(n, v)'
         /\ \A b : (\A m \in DOMAIN bkFiles : bkFiles[m].data <= b) /\ arc.data <= b
                     => \A m \in DOMAIN bkFiles' : bkFiles'[m].data <= b
BY DEF Put, Late, Whole, ServeTypes

LEMMA WithoutLate ==
  ASSUME NEW N, bkFiles' = WithoutFiles(N)
  PROVE  /\ \A m, v : Late(m, v) => Late(m, v)'
         /\ \A b : (\A m \in DOMAIN bkFiles : bkFiles[m].data <= b)
                     => \A m \in DOMAIN bkFiles' : bkFiles'[m].data <= b
BY DEF WithoutFiles, Restrict, Late, Whole

\* Backups that restore nothing.
LEMMA CurrentBackup ==
  ASSUME CurrentInv, ServeInv', NEW a \in Admins,
         \/ HandleCreateBackup(a) \/ CheckScheduledBackup(a)
         \/ ApplyRetention(a) \/ DeleteDoomed(a)
  PROVE  CurrentInv'
<1>1. ServeTypes
  BY DEF CurrentInv, ServeInv
<1>2. UNCHANGED <<bkDb, bkEdits, bkMixed>>
  BY DEF HandleCreateBackup, CheckScheduledBackup, CreateBackup, ApplyRetention, DeleteDoomed
<1>3. /\ Only(a) /\ bkOps'[a].pc \in {"dump", "delete", "idle"}
      /\ bkOps[a].pc \in {"idle", "retain", "delete"}
      /\ SameHand(a) \/ (bkOps'[a].got = 0 /\ bkOps'[a].before = 0)
  <2>1. CASE HandleCreateBackup(a) \/ CheckScheduledBackup(a)
    BY <1>1, <2>1 DEF HandleCreateBackup, CheckScheduledBackup, CreateBackup, Started, At, Only, OpIdle, ServeTypes
  <2>2. CASE ApplyRetention(a)
    BY <1>1, <2>2, ZenonT(60) DEF ApplyRetention, At, Only, SameHand, ServeTypes, OpRecord
  <2>3. CASE DeleteDoomed(a)
    BY <1>1, <2>3 DEF DeleteDoomed, At, Only, OpIdle, ServeTypes
  <2> QED BY <2>1, <2>2, <2>3
<1>4. /\ \A m, v : Late(m, v) => Late(m, v)'
      /\ \A b : (\A m \in DOMAIN bkFiles : bkFiles[m].data <= b)
                  => \A m \in DOMAIN bkFiles' : bkFiles'[m].data <= b
  <2>1. CASE DeleteDoomed(a)
    <3>1. PICK N : bkFiles' = WithoutFiles(N)
      BY <2>1 DEF DeleteDoomed
    <3> QED BY <3>1, WithoutLate
  <2>2. CASE bkFiles' = bkFiles
    BY <2>2 DEF Late, Whole
  <2> QED
    BY <2>1, <2>2 DEF HandleCreateBackup, CheckScheduledBackup, CreateBackup, ApplyRetention
<1>5. bkOps[a].got <= bkEdits + 1 /\ bkOps[a].before <= bkEdits + 1 /\ bkEdits \in Nat
  BY <1>1 DEF CurrentInv, Bounded, ServeTypes
<1>6. bkOps'[a].got <= bkEdits + 1 /\ bkOps'[a].before <= bkEdits + 1
  BY <1>3, <1>5 DEF SameHand
<1>7. Bounded'
  BY <1>2, <1>3, <1>4, <1>6, BoundedStep DEF CurrentInv, Bounded
<1>8. bkOps[a].pc \notin RestoreLabels /\ bkOps'[a].pc \notin RestoreLabels /\ ~At(a, {"write"})'
  BY <1>3 DEF RestoreLabels, At
<1>9. \A c \in Admins : \A v, n :
        Current(c) /\ v = bkOps[c].before /\ n = bkOps[c].pre /\ n # 0 => Late(n, v)'
  BY <1>4 DEF Current
<1> QED
  BY <1>2, <1>3, <1>7, <1>8, <1>9, CurrentPlain

LEMMA CurrentDump == ASSUME CurrentInv, ServeInv', NEW a \in Admins, RunPgDump(a) PROVE CurrentInv'
<1>1. ServeTypes /\ LockInv
  BY DEF CurrentInv, ServeInv
<1>2. UNCHANGED <<bkDb, bkFiles, bkEdits, bkMixed>>
  BY DEF RunPgDump
<1>3. /\ Only(a) /\ bkOps'[a].before = bkOps[a].before /\ bkOps'[a].pre = bkOps[a].pre
      /\ \/ bkOps[a].pc = "dump" /\ bkOps'[a].pc = "write" /\ bkOps'[a].got = bkDb
         \/ bkOps[a].pc = "predump" /\ bkOps'[a].pc = "prewrite" /\ bkOps'[a].got = bkDb
         \/ bkOps[a].pc = "dump" /\ bkOps'[a].pc = "idle" /\ bkOps'[a].got = bkOps[a].got
         \/ bkOps[a].pc = "predump" /\ bkOps'[a].pc = "relock" /\ bkOps'[a].got = bkOps[a].got
  <2>1. CASE bkOps' = [bkOps EXCEPT ![a].got = bkDb, ![a].pc = IF @ = "dump" THEN "write" ELSE "prewrite"]
    BY <1>1, <2>1 DEF RunPgDump, At, Only, ServeTypes, OpRecord
  <2>2. CASE At(a, {"dump"}) /\ Ended(a, "failed")
    BY <1>1, <2>2, OnlyEnded DEF At, SameHand
  <2>3. CASE At(a, {"predump"}) /\ Step(a, "relock")
    BY <1>1, <2>3, OnlyStep DEF At, SameHand
  <2> QED BY <2>1, <2>2, <2>3 DEF RunPgDump, At
<1>4. \A m, v : Late(m, v) => Late(m, v)'
  BY <1>2 DEF Late, Whole
<1>5. Bounded'
  BY <1>2, <1>3, BoundedStep DEF CurrentInv, Bounded
<1>6. CASE bkOps[a].pc = "predump"
  <2>1. PICK v, n : v = bkOps[a].before /\ n = bkOps[a].pre
    OBVIOUS
  <2>2. Restoring(a)
    BY <1>6 DEF Restoring, At
  <2> QED
    BY <1>2, <1>3, <1>4, <1>5, <1>6, <2>1, <2>2, CurrentMove DEF Current, At
<1>7. CASE bkOps[a].pc = "dump"
  <2>1. bkOps[a].pc \notin RestoreLabels /\ bkOps'[a].pc \notin RestoreLabels
    BY <1>3, <1>7 DEF RestoreLabels
  <2>2. ASSUME NEW c \in Admins, c # a, Restoring(c), Current(c) PROVE bkDb >= bkOps[c].before
    <3>1. bkOps[c].pc \notin Held
      BY <1>1, <1>7, <2>2 DEF LockInv, HolderOwns, Held
    <3>2. bkOps[c].pc \in {"pre", "relock"}
      BY <1>1, <2>2, <3>1, RestoringLabels DEF RestoreLabels, Held
    <3> QED BY <2>2, <3>2 DEF Current, At
  <2>3. \A c \in Admins : \A v, n :
           c # a /\ Restoring(c) /\ Current(c) /\ v = bkOps[c].before /\ n = bkOps[c].pre
             => (At(a, {"write"})' => bkOps'[a].got >= v) /\ (n # 0 => Late(n, v)')
    BY <1>3, <1>4, <1>7, <2>2 DEF Current, At
  <2> QED
    BY <1>2, <1>3, <1>5, <2>1, <2>3, CurrentPlain
<1> QED BY <1>3, <1>6, <1>7

LEMMA CurrentTar == ASSUME CurrentInv, ServeInv', NEW a \in Admins, CreateTarGz(a) PROVE CurrentInv'
<1>1. ServeTypes /\ bkOps[a] \in OpRecord
  BY DEF CurrentInv, ServeInv, ServeTypes
<1>2. UNCHANGED <<bkDb, bkEdits, bkMixed>>
  BY DEF CreateTarGz
<1>3. PICK m \in Int : m = bkOps[a].name
  BY <1>1 DEF OpRecord
<1>4. PICK arc \in ArchiveRecord : bkFiles' = Put(m, arc) /\ arc.data = bkOps[a].got
  <2> DEFINE type == IF bkOps[a].pc = "write" THEN "manual" ELSE "pre_restore"
             arc(whole) == Archive(bkOps[a].got, type, m, whole)
  <2>1. \A whole \in BOOLEAN : arc(whole) \in ArchiveRecord /\ arc(whole).data = bkOps[a].got
    BY <1>1 DEF OpRecord, Archive, ArchiveRecord
  <2>2. \E whole \in BOOLEAN : bkFiles' = Put(m, arc(whole))
    BY <1>3 DEF CreateTarGz
  <2> HIDE DEF arc, type
  <2> QED BY <2>1, <2>2
<1>5. /\ Only(a) /\ bkOps'[a].before = bkOps[a].before /\ bkOps'[a].got = bkOps[a].got
      /\ \/ bkOps[a].pc = "write" /\ bkOps'[a].pc \in {"retain", "idle"}
         \/ /\ bkOps[a].pc = "prewrite" /\ bkOps'[a].pc = "relock"
            /\ bkOps'[a].pre \in {bkOps[a].pre, m}
  <2>1. CASE bkOps' = [bkOps EXCEPT ![a].pc = IF bkOps[a].pc = "write" THEN "retain" ELSE "relock",
                                    ![a].pre = IF bkOps[a].pc = "write" THEN 0 ELSE bkOps[a].name]
    BY <1>1, <1>3, <2>1 DEF CreateTarGz, At, Only, ServeTypes, OpRecord
  <2>2. CASE bkOps[a].pc = "write" /\ Ended(a, "failed")
    BY <1>1, <2>2, OnlyEnded DEF SameHand
  <2>3. CASE bkOps[a].pc = "prewrite" /\ Step(a, "relock")
    BY <1>1, <2>3, OnlyStep DEF SameHand
  <2> QED BY <2>1, <2>2, <2>3 DEF CreateTarGz, At
<1>6. /\ \A k, v : k # m /\ Late(k, v) => Late(k, v)'
      /\ \A v : bkOps[a].got >= v => Late(m, v)'
      /\ \A b : (\A k \in DOMAIN bkFiles : bkFiles[k].data <= b) /\ bkOps[a].got <= b
                     => \A k \in DOMAIN bkFiles' : bkFiles'[k].data <= b
  BY <1>1, <1>4, PutLate
<1>7. Bounded'
  BY <1>2, <1>5, <1>6, BoundedStep DEF CurrentInv, Bounded
<1>8. CASE bkOps[a].pc = "prewrite"
  <2>1. PICK v, n : v = bkOps[a].before /\ n = bkOps'[a].pre
    OBVIOUS
  <2>2. Restoring(a)
    BY <1>8 DEF Restoring, At
  <2>3. Current(a) => (n # 0 => Late(n, v)')
    BY <1>5, <1>6, <1>8, <2>1 DEF Current, At
  <2> QED
    BY <1>2, <1>5, <1>7, <1>8, <2>1, <2>2, <2>3, CurrentMove DEF Current, At
<1>9. CASE bkOps[a].pc = "write"
  <2>1. bkOps[a].pc \notin RestoreLabels /\ bkOps'[a].pc \notin RestoreLabels /\ ~At(a, {"write"})'
    BY <1>5, <1>9 DEF RestoreLabels, At
  <2>2. \A c \in Admins : \A v, n :
           Current(c) /\ v = bkOps[c].before /\ n = bkOps[c].pre => (n # 0 => Late(n, v)')
    BY <1>6, <1>9 DEF Current, At
  <2> QED
    BY <1>2, <1>5, <1>7, <2>1, <2>2, CurrentPlain
<1> QED BY <1>5, <1>8, <1>9

\* A restore begins with the data of its moment.
LEMMA CurrentStart ==
  ASSUME CurrentInv, ServeInv', NEW a \in Admins,
         \/ HandleRestoreUpload(a) \/ HandleSetupRestore(a)
         \/ \E n \in DOMAIN bkFiles : HandleRestore(a, n) \/ HandleSetupRestoreFromDisk(a, n)
  PROVE  CurrentInv'
<1>1. ServeTypes /\ LockInv
  BY DEF CurrentInv, ServeInv
<1>2. PICK n, data, skip : BeginRestore(a, n, data, skip)
  BY Zenon DEF HandleRestoreUpload, HandleSetupRestore, RestoreFromUpload, HandleRestore, HandleSetupRestoreFromDisk
<1>3. \A b \in DOMAIN bkFiles' : bkFiles'[b].data <= bkEdits + 1
  <2>1. CASE bkFiles' = bkFiles
    BY <2>1 DEF CurrentInv, Bounded
  <2>2. CASE bkFiles' = Put(bkClock, Archive(1, "manual", 0, TRUE))
    <3> DEFINE arc == Archive(1, "manual", 0, TRUE)
    <3>1. arc \in ArchiveRecord /\ arc.data = 1
      BY DEF Archive, ArchiveRecord
    <3>2. bkClock \in Int /\ 1 <= bkEdits + 1
      BY <1>1 DEF ServeTypes
    <3> HIDE DEF arc
    <3>3. bkFiles' = Put(bkClock, arc)
      BY <2>2 DEF arc
    <3> QED
      BY <1>1, <3>1, <3>2, <3>3, PutLate DEF CurrentInv, Bounded
  <2> QED
    BY <2>1, <2>2 DEF HandleRestoreUpload, HandleSetupRestore, RestoreFromUpload, HandleRestore, HandleSetupRestoreFromDisk
<1>4. /\ Only(a) /\ bkOps'[a].pc \in {"pre", "extract"} /\ bkOps'[a].pre = 0 /\ bkOps'[a].got = 0
      /\ bkOps'[a].before = bkDb
  BY <1>1, <1>2 DEF BeginRestore, Only, OpIdle, ServeTypes
<1>5. UNCHANGED <<bkDb, bkEdits>> /\ bkLock = 0 /\ bkEdits \in Nat
  BY <1>1, <1>2 DEF BeginRestore, ServeTypes
<1>6. Bounded'
  BY <1>3, <1>4, <1>5, BoundedStep DEF CurrentInv, Bounded
<1> SUFFICES ASSUME ~bkMixed', NEW c \in Admins, Restoring(c)' PROVE Current(c)'
  BY <1>6 DEF CurrentInv
<1>7. c = a
  BY <1>2, <1>4 DEF BeginRestore, Only, Restoring, At
<1>8. \A b \in Admins : ~At(b, {"write", "prewrite"})'
  BY <1>1, <1>4, <1>5, RestoreAssumption DEF LockInv, HolderOwns, Held, Only, At
<1>9. bkDb \in Int
  BY <1>1 DEF ServeTypes
<1> QED
  BY <1>4, <1>5, <1>7, <1>8, <1>9 DEF Current, At

LEMMA CurrentGap == ASSUME CurrentInv, ServeInv', NEW a \in Admins, PreRestore(a) \/ Relock(a) PROVE CurrentInv'
<1>1. ServeTypes
  BY DEF CurrentInv, ServeInv
<1>2. UNCHANGED <<bkFiles, bkDb, bkEdits>> /\ Restoring(a)
  BY DEF PreRestore, Relock, Restoring, At
<1>3. bkMixed => bkMixed'
  <2>1. ASSUME PreRestore(a) PROVE bkMixed => bkMixed'
    BY <2>1, Zenon DEF PreRestore
  <2>2. ASSUME Relock(a) PROVE bkMixed => bkMixed'
    BY <2>2 DEF Relock
  <2> QED BY <2>1, <2>2
<1>4. /\ Only(a) /\ SameHand(a) /\ bkOps[a].pc \in {"pre", "relock"}
      /\ bkOps'[a].pc \in {"predump", "relock", "extract"}
  <2>1. CASE PreRestore(a) /\ bkLock = 0
    <3>1. bkOps' = [bkOps EXCEPT ![a].pc = "predump", ![a].name = bkClock] /\ bkOps[a].pc = "pre"
      BY <2>1 DEF PreRestore, At
    <3> QED
      BY <1>1, <3>1 DEF Only, SameHand, ServeTypes, OpRecord
  <2>2. CASE (PreRestore(a) /\ bkLock # 0) \/ Relock(a)
    BY <1>1, <2>2, OnlyStep DEF PreRestore, Relock, At
  <2> QED BY <2>1, <2>2
<1>5. Bounded'
  BY <1>2, <1>4, BoundedStep DEF CurrentInv, Bounded, SameHand
<1>6. PICK v, n : v = bkOps[a].before /\ n = bkOps'[a].pre
  OBVIOUS
<1>7. Current(a) => bkDb >= v /\ (n # 0 => Late(n, v)')
  BY <1>2, <1>4, <1>6 DEF Current, At, SameHand, Late, Whole
<1> QED
  BY <1>2, <1>3, <1>4, <1>5, <1>6, <1>7, CurrentMove DEF At, SameHand

\* A failure gives up or rolls back.
LEMMA CurrentFail ==
  ASSUME CurrentInv, ServeInv', NEW a \in Admins, Fail(a) \/ GiveUp(a), Restoring(a),
         UNCHANGED <<bkFiles, bkDb, bkEdits, bkMixed>>
  PROVE  CurrentInv'
<1>1. ServeTypes
  BY DEF CurrentInv, ServeInv
<1>2. Only(a) /\ SameHand(a) /\ bkOps'[a].pc \in {"rollback", "idle"}
  BY <1>1, OnlyStep, OnlyEnded DEF Fail, GiveUp
<1>3. Bounded'
  BY <1>2, BoundedStep DEF CurrentInv, Bounded, SameHand
<1>4. PICK v, n : v = bkOps[a].before /\ n = bkOps'[a].pre
  OBVIOUS
<1>5. Current(a) => (n # 0 => Late(n, v)')
  BY <1>2, <1>4 DEF Current, SameHand, Late, Whole
<1> QED
  BY <1>2, <1>3, <1>4, <1>5, CurrentMove DEF At, SameHand

\* What the rollback has in hand is its own backup.
LEMMA CurrentExtract ==
  ASSUME CurrentInv, ServeInv', NEW a \in Admins, ExtractTarGz(a) \/ Rollback(a)
  PROVE  CurrentInv'
<1>1. ServeTypes
  BY DEF CurrentInv, ServeInv
<1>2. UNCHANGED <<bkFiles, bkDb, bkEdits, bkMixed>> /\ Restoring(a)
  BY DEF ExtractTarGz, Rollback, Restoring, At
<1>3. ASSUME NEW k, NEW to, Whole(k),
             bkOps' = [bkOps EXCEPT ![a].pc = to, ![a].got = bkFiles[k].data],
             \/ bkOps[a].pc = "extract" /\ to = "drop"
             \/ bkOps[a].pc = "rollback" /\ to = "redrop" /\ k = bkOps[a].pre
      PROVE  CurrentInv'
  <2>1. /\ Only(a) /\ bkOps'[a].pc = to /\ bkOps'[a].got = bkFiles[k].data
        /\ bkOps'[a].before = bkOps[a].before /\ bkOps'[a].pre = bkOps[a].pre
    BY <1>1, <1>3 DEF Only, ServeTypes, OpRecord
  <2>2. Bounded'
    BY <1>2, <1>3, <2>1, BoundedStep DEF CurrentInv, Bounded, Whole
  <2>3. PICK v, n : v = bkOps[a].before /\ n = bkOps'[a].pre
    OBVIOUS
  <2>4. Current(a) => (n # 0 => Late(n, v)')
    BY <1>2, <2>1, <2>3 DEF Current, Late, Whole
  <2>5. Current(a) /\ Unmixed(a) /\ to = "redrop" => bkOps'[a].got >= v
    BY <1>3, <2>1, <2>3 DEF Current, Unmixed, At, Late
  <2>6. Current(a) /\ to = "drop" => bkDb >= v
    BY <1>3, <2>3 DEF Current, At
  <2> QED
    BY <1>2, <1>3, <2>1, <2>2, <2>3, <2>4, <2>5, <2>6, CurrentMove DEF At
<1>4. ASSUME Fail(a) \/ GiveUp(a) PROVE CurrentInv'
  BY <1>2, <1>4, CurrentFail
<1> QED
  BY <1>3, <1>4 DEF ExtractTarGz, Rollback, At

LEMMA CurrentSchema ==
  ASSUME CurrentInv, ServeInv', NEW a \in Admins, DropSchema(a) \/ LoadDump(a)
  PROVE  CurrentInv'
<1>1. ServeTypes /\ bkEdits \in Nat
  BY DEF CurrentInv, ServeInv, ServeTypes
<1>2. UNCHANGED <<bkFiles, bkEdits, bkMixed>> /\ Restoring(a)
  BY DEF DropSchema, LoadDump, Restoring, At
<1>3. ASSUME Fail(a), UNCHANGED bkDb PROVE CurrentInv'
  BY <1>2, <1>3, CurrentFail
<1>4. ASSUME NEW to, Step(a, to),
             \/ to \in {"load", "finish"}
             \/ to = "reload" /\ bkOps[a].pc = "redrop"
             \/ to = "refinish" /\ bkOps[a].pc = "reload" /\ bkDb' = bkOps[a].got,
             bkDb' <= bkEdits + 1
      PROVE  CurrentInv'
  <2>1. Only(a) /\ SameHand(a) /\ bkOps'[a].pc = to
    BY <1>1, <1>4, OnlyStep
  <2>2. Bounded'
    BY <1>2, <1>4, <2>1, BoundedStep DEF CurrentInv, Bounded, SameHand
  <2>3. PICK v, n : v = bkOps[a].before /\ n = bkOps'[a].pre
    OBVIOUS
  <2>4. Current(a) => (n # 0 => Late(n, v)')
    BY <1>2, <2>1, <2>3 DEF Current, SameHand, Late, Whole
  <2>5. Current(a) => /\ to = "refinish" => bkDb' >= v
                      /\ to = "reload" => bkOps'[a].got >= v
    BY <1>4, <2>1, <2>3 DEF Current, SameHand, At
  <2> QED
    BY <1>2, <1>4, <2>1, <2>2, <2>3, <2>4, <2>5, CurrentMove DEF At, SameHand
<1>5. CASE DropSchema(a)
  <2>1. Broken <= bkEdits + 1
    BY <1>1 DEF Broken
  <2>2. \/ Fail(a) /\ UNCHANGED bkDb
        \/ bkDb' = Broken /\ At(a, {"drop"}) /\ Step(a, "load")
        \/ bkDb' = Broken /\ At(a, {"redrop"}) /\ Step(a, "reload")
    BY <1>5 DEF DropSchema, At
  <2> QED BY <1>3, <1>4, <2>1, <2>2 DEF At
<1>6. CASE LoadDump(a)
  <2>1. bkOps[a].got <= bkEdits + 1
    BY DEF CurrentInv, Bounded
  <2>2. \/ Fail(a) /\ UNCHANGED bkDb
        \/ bkDb' = bkOps[a].got /\ At(a, {"load"}) /\ Step(a, "finish")
        \/ bkDb' = bkOps[a].got /\ At(a, {"reload"}) /\ Step(a, "refinish")
    BY <1>6 DEF LoadDump, At
  <2> QED BY <1>3, <1>4, <2>1, <2>2 DEF At
<1> QED BY <1>5, <1>6

LEMMA CurrentEnd == ASSUME CurrentInv, ServeInv', NEW a \in Admins, EndRestore(a) PROVE CurrentInv'
<1>1. ServeTypes
  BY DEF CurrentInv, ServeInv
<1>2. UNCHANGED <<bkFiles, bkDb, bkEdits, bkMixed>> /\ Restoring(a)
  BY DEF EndRestore, Restoring, At
<1>3. Only(a) /\ SameHand(a) /\ bkOps'[a].pc = "idle"
  BY <1>1, OnlyEnded DEF EndRestore
<1>4. Bounded'
  BY <1>2, <1>3, BoundedStep DEF CurrentInv, Bounded, SameHand
<1>5. PICK v, n : v = bkOps[a].before /\ n = bkOps'[a].pre
  OBVIOUS
<1>6. Current(a) => (n # 0 => Late(n, v)')
  BY <1>2, <1>3, <1>5 DEF Current, SameHand, Late, Whole
<1> QED
  BY <1>2, <1>3, <1>4, <1>5, <1>6, CurrentMove DEF At, SameHand

\* Writes of the users make the database newer, and archives come to no harm but deletion.
LEMMA CurrentSurroundings ==
  ASSUME CurrentInv, ServeInv',
         EditData \/ Tick \/ DaysPass \/ UNCHANGED backupVars \/ \E n \in DOMAIN bkFiles : HandleDeleteBackup(n)
  PROVE  CurrentInv'
<1>1. ServeTypes /\ bkEdits \in Nat
  BY DEF CurrentInv, ServeInv, ServeTypes
<1>2. UNCHANGED <<bkOps, bkMixed>> /\ bkEdits' >= bkEdits /\ bkEdits' \in Nat
  <2>1. UNCHANGED <<bkOps, bkMixed>> /\ (bkEdits' = bkEdits \/ bkEdits' = bkEdits + 1)
    BY DEF EditData, Tick, DaysPass, HandleDeleteBackup, backupVars
  <2> QED BY <1>1, <2>1
<1>3. /\ \A m, v : Late(m, v) => Late(m, v)'
      /\ \A b : (\A m \in DOMAIN bkFiles : bkFiles[m].data <= b)
                  => \A m \in DOMAIN bkFiles' : bkFiles'[m].data <= b
  <2>1. CASE \E n \in DOMAIN bkFiles : HandleDeleteBackup(n)
    <3>1. PICK N : bkFiles' = WithoutFiles(N)
      BY <2>1 DEF HandleDeleteBackup
    <3> QED BY <3>1, WithoutLate
  <2>2. CASE DaysPass
    BY <1>1, <2>2 DEF DaysPass, Late, Whole, ServeTypes, ArchiveRecord
  <2>3. CASE bkFiles' = bkFiles
    BY <2>3 DEF Late, Whole
  <2> QED
    BY <2>1, <2>2, <2>3 DEF EditData, Tick, backupVars
<1>4. (bkDb' = bkDb /\ bkEdits' = bkEdits) \/ (bkDb' = bkEdits + 2 /\ bkEdits' = bkEdits + 1)
  BY DEF EditData, Tick, DaysPass, HandleDeleteBackup, backupVars
<1>5. /\ \A n \in DOMAIN bkFiles : bkFiles[n].data \in Int
      /\ \A a \in Admins : bkOps[a].got \in Int /\ bkOps[a].before \in Int
      /\ bkDb \in Int
  BY <1>1 DEF ServeTypes, OpRecord, ArchiveRecord
<1>6. Bounded'
  <2>1. bkDb' <= bkEdits' + 1
    BY <1>1, <1>4, <1>5 DEF CurrentInv, Bounded
  <2>2. \A a \in Admins : bkOps[a].got <= bkEdits' + 1 /\ bkOps[a].before <= bkEdits' + 1
    BY <1>1, <1>2, <1>5 DEF CurrentInv, Bounded
  <2>3. \A m \in DOMAIN bkFiles : bkFiles[m].data <= bkEdits' + 1
    BY <1>1, <1>2, <1>5 DEF CurrentInv, Bounded
  <2> QED
    BY <1>2, <1>3, <2>1, <2>2, <2>3 DEF Bounded
<1>7. \A a \in Admins : bkDb' >= bkDb \/ bkDb' >= bkOps[a].before
  BY <1>1, <1>4, <1>5 DEF CurrentInv, Bounded
<1> QED
  BY <1>2, <1>3, <1>6, <1>7, CurrentAside

LEMMA CurrentCrash == ASSUME CurrentInv, ServeInv', BackupCrash PROVE CurrentInv'
<1>1. ServeTypes /\ bkEdits \in Nat
  BY DEF CurrentInv, ServeInv, ServeTypes
<1>2. /\ UNCHANGED <<bkDb, bkEdits>>
      /\ \A a \in Admins : bkOps'[a].got = 0 /\ bkOps'[a].before = 0 /\ bkOps'[a].pc = "idle"
  BY DEF BackupCrash, OpIdle
<1>3. \A m \in DOMAIN bkFiles' : bkFiles'[m].data <= bkEdits + 1
  <2>1. CASE bkFiles' = bkFiles
    BY <2>1 DEF CurrentInv, Bounded
  <2>2. ASSUME NEW a \in Admins,
               bkFiles' = Put(bkOps[a].name, Archive(bkOps[a].got, "manual", bkOps[a].name, FALSE))
        PROVE  \A m \in DOMAIN bkFiles' : bkFiles'[m].data <= bkEdits + 1
    <3>1. PICK arc, k : /\ k = bkOps[a].name
                        /\ arc = Archive(bkOps[a].got, "manual", bkOps[a].name, FALSE)
      OBVIOUS
    <3>2. arc \in ArchiveRecord /\ arc.data = bkOps[a].got /\ k \in Int
      BY <1>1, <3>1 DEF Archive, ArchiveRecord, ServeTypes, OpRecord
    <3>3. bkOps[a].got <= bkEdits + 1
      BY DEF CurrentInv, Bounded
    <3>4. bkFiles' = Put(k, arc)
      BY <2>2, <3>1
    <3> QED
      BY <1>1, <3>2, <3>3, <3>4, PutLate DEF CurrentInv, Bounded
  <2>3. \/ bkFiles' = bkFiles
        \/ \E a \in Admins :
              bkFiles' = Put(bkOps[a].name, Archive(bkOps[a].got, "manual", bkOps[a].name, FALSE))
    <3> DEFINE writing == {a \in Admins : At(a, {"write", "prewrite"})}
    <3>1. CASE writing = {}
      BY <3>1 DEF BackupCrash
    <3>2. CASE writing # {}
      <4>1. PICK a : a = CHOOSE x \in writing : TRUE
        OBVIOUS
      <4>2. a \in Admins
        BY <3>2, <4>1
      <4>3. bkFiles' = Put(bkOps[a].name, Archive(bkOps[a].got, "manual", bkOps[a].name, FALSE))
        BY <3>2, <4>1 DEF BackupCrash
      <4> QED BY <4>2, <4>3
    <3> QED BY <3>1, <3>2
  <2> QED BY <2>1, <2>2, <2>3
<1>4. Bounded'
  BY <1>1, <1>2, <1>3 DEF CurrentInv, Bounded
<1>5. \A a \in Admins : ~Restoring(a)'
  BY <1>2 DEF Restoring, At
<1> QED BY <1>4, <1>5 DEF CurrentInv

LEMMA CurrentInit == RestoreInit => CurrentInv
<1> SUFFICES ASSUME RestoreInit PROVE CurrentInv
  OBVIOUS
<1>1. Bounded
  <2>1. \A n \in DOMAIN bkFiles : bkFiles[n].data = 1
    BY DEF RestoreInit, Archive
  <2>2. \A a \in Admins : bkOps[a].got = 0 /\ bkOps[a].before = 0
    BY DEF RestoreInit, OpIdle
  <2>3. bkEdits = 0 /\ bkDb \in {0, 1}
    BY DEF RestoreInit
  <2> QED BY <2>1, <2>2, <2>3 DEF Bounded
<1>2. \A a \in Admins : ~Restoring(a)
  BY DEF RestoreInit, Restoring, At, OpIdle
<1> QED BY <1>1, <1>2, ServeInit DEF CurrentInv

LEMMA CurrentStep == CurrentInv /\ [RestoreNext]_backupVars => CurrentInv'
<1> SUFFICES ASSUME CurrentInv, [RestoreNext]_backupVars PROVE CurrentInv'
  OBVIOUS
<1>1. ServeInv'
  BY ServeStep DEF CurrentInv
<1>2. ASSUME NEW a \in Admins,
             \/ HandleCreateBackup(a) \/ CheckScheduledBackup(a)
             \/ ApplyRetention(a) \/ DeleteDoomed(a)
      PROVE  CurrentInv'
  BY <1>1, <1>2, CurrentBackup
<1>3. ASSUME NEW a \in Admins, RunPgDump(a) \/ CreateTarGz(a) PROVE CurrentInv'
  BY <1>1, <1>3, CurrentDump, CurrentTar
<1>4. ASSUME NEW a \in Admins,
             \/ HandleRestoreUpload(a) \/ HandleSetupRestore(a)
             \/ \E n \in DOMAIN bkFiles : HandleRestore(a, n) \/ HandleSetupRestoreFromDisk(a, n)
      PROVE  CurrentInv'
  BY <1>1, <1>4, CurrentStart
<1>5. ASSUME NEW a \in Admins, PreRestore(a) \/ Relock(a) PROVE CurrentInv'
  BY <1>1, <1>5, CurrentGap
<1>6. ASSUME NEW a \in Admins, ExtractTarGz(a) \/ Rollback(a) PROVE CurrentInv'
  BY <1>1, <1>6, CurrentExtract
<1>7. ASSUME NEW a \in Admins, DropSchema(a) \/ LoadDump(a) PROVE CurrentInv'
  BY <1>1, <1>7, CurrentSchema
<1>8. ASSUME NEW a \in Admins, EndRestore(a) PROVE CurrentInv'
  BY <1>1, <1>8, CurrentEnd
<1>9. CASE EditData \/ Tick \/ DaysPass \/ UNCHANGED backupVars \/ \E n \in DOMAIN bkFiles : HandleDeleteBackup(n)
  BY <1>1, <1>9, CurrentSurroundings
<1>10. CASE BackupCrash
  BY <1>1, <1>10, CurrentCrash
<1> QED
  BY <1>2, <1>3, <1>4, <1>5, <1>6, <1>7, <1>8, <1>9, <1>10 DEF RestoreNext

\* A restore that reports having rolled back gives back the data the database had when the
\* restore began, or later data, however often the data was edited and archives were made,
\* overwritten and deleted meanwhile (handleRestoreFailure).
THEOREM RollbackGivesBack == RestoreSpec => RolledBackIsCurrent
<1>1. CurrentInv /\ [RestoreNext]_backupVars
        => [\A a \in Admins :
              At(a, {"refinish"}) /\ bkOps'[a].out = "rolledback" /\ ~bkMixed => bkDb >= bkOps[a].before]_backupVars
  BY DEF CurrentInv, Current, Restoring, At
<1> QED BY <1>1, CurrentInit, CurrentStep, PTL DEF RestoreSpec, RolledBackIsCurrent

---------------------------------------------------------------------------
(* The notifications. *)

ChannelRecord == [id : Nat, user : Members]
WorkRecord == [pc : {"idle", "user", "send", "done"}, event : Int, users : SUBSET Members,
               chans : SUBSET ChannelRecord, owed : SUBSET ChannelRecord]

NotifyTypes ==
  /\ evUsed \subseteq Int /\ evMade \in Nat /\ evChannels \subseteq ChannelRecord
  /\ evWork \in [NotifyWorkers -> WorkRecord]

Busy(w) == evWork[w].pc # "idle"
Tried(e, c) == <<e, c.id>> \in evTried

\* An id names one event, which waits, is delivered or was delivered.
EventsOnce ==
  /\ evQueue \subseteq evUsed
  /\ \A e \in evRows : e.id \in evUsed
  /\ \A p \in evTried : p[1] \in evUsed \ evQueue
  /\ \A w \in NotifyWorkers : Busy(w) => evWork[w].event \in evUsed \ evQueue
  /\ \A v, w \in NotifyWorkers : Busy(v) /\ Busy(w) /\ evWork[v].event = evWork[w].event => v = w

\* The channels that are there or in the hands of a worker.
Known == evChannels \cup UNION {evWork[w].chans \cup evWork[w].owed : w \in NotifyWorkers}

ChannelsOnce ==
  /\ \A c \in Known : c.id <= evMade
  /\ \A c, d \in Known : c.id = d.id => c = d
  /\ \A p \in evTried : p[2] \in Nat /\ p[2] <= evMade

\* What a worker r with this event has still to do, and has done.
Course(r) ==
  /\ r.pc # "send" => r.chans = {}
  /\ r.pc \in {"idle", "done"} => r.users = {}
  /\ \A c \in r.chans : ~Tried(r.event, c) /\ c.user \notin r.users
  /\ \A c \in evChannels : c.user \in r.users => ~Tried(r.event, c)
  /\ r.pc # "idle" => \A c \in r.owed \cap evChannels :
                         c.user \in r.users \/ c \in r.chans \/ Tried(r.event, c)

NotifyInv ==
  /\ NotifyTypes /\ EventsOnce /\ ChannelsOnce
  /\ \A w \in NotifyWorkers : Course(evWork[w])
  /\ evTwice = {}

LEMMA NotifyBegins == NotifyInit => NotifyInv
<1> SUFFICES ASSUME NotifyInit PROVE NotifyInv
  OBVIOUS
<1>1. NoWork \in WorkRecord /\ NoWork.pc = "idle" /\ NoWork.users = {} /\ NoWork.chans = {} /\ NoWork.owed = {}
  BY DEF NoWork, WorkRecord
<1>2. \A w \in NotifyWorkers : evWork[w] = NoWork
  BY DEF NotifyInit
<1>3. NotifyTypes
  BY <1>1 DEF NotifyInit, NotifyTypes
<1>4. EventsOnce
  BY <1>1, <1>2 DEF NotifyInit, EventsOnce, Busy
<1>5. ChannelsOnce
  BY <1>1, <1>2 DEF NotifyInit, ChannelsOnce, Known
<1>6. \A w \in NotifyWorkers : Course(evWork[w])
  BY <1>1, <1>2 DEF NotifyInit, Course
<1> QED
  BY <1>3, <1>4, <1>5, <1>6 DEF NotifyInit, NotifyInv

\* Events come and go, and nobody's work is touched.
LEMMA EventsAside ==
  ASSUME NotifyInv, UNCHANGED <<evChannels, evMade, evWork, evTried, evTwice>>,
         evUsed \subseteq evUsed', evUsed' \subseteq Int, evQueue' \subseteq evQueue \cup (evUsed' \ evUsed),
         \A e \in evRows' : e.id \in evUsed'
  PROVE  NotifyInv'
<1>1. NotifyTypes'
  BY DEF NotifyInv, NotifyTypes
<1>2. EventsOnce'
  BY DEF NotifyInv, EventsOnce, Busy
<1>3. ChannelsOnce'
  BY DEF NotifyInv, ChannelsOnce, Known
<1>4. (\A w \in NotifyWorkers : Course(evWork[w]))'
  BY DEF NotifyInv, Course, Tried
<1> QED
  BY <1>1, <1>2, <1>3, <1>4 DEF NotifyInv

\* A new channel has a new id, of which nothing was tried.
LEMMA ChannelsChange ==
  ASSUME NotifyInv, UNCHANGED <<evRows, evUsed, evQueue, evWork, evTried, evTwice>>,
         \/ \E u \in Members : HandleCreateChannel(u)
         \/ \E c \in evChannels : HandleDeleteChannel(c)
  PROVE  NotifyInv'
<1>1. EventsOnce'
  BY DEF NotifyInv, EventsOnce, Busy
<1>2. ASSUME NEW u \in Members, HandleCreateChannel(u) PROVE NotifyInv'
  <2> DEFINE new == [id |-> evMade + 1, user |-> u]
  <2>1. evMade' = evMade + 1 /\ evChannels' = evChannels \cup {new} /\ evMade \in Nat
    BY <1>2 DEF HandleCreateChannel, NotifyInv, NotifyTypes
  <2>2. new \in ChannelRecord /\ new.id = evMade + 1
    BY <2>1 DEF ChannelRecord
  <2> HIDE DEF new
  <2>3. NotifyTypes'
    BY <2>1, <2>2 DEF NotifyInv, NotifyTypes
  <2>4. Known' = Known \cup {new}
    BY <2>1 DEF Known
  <2>5. \A c \in Known : c.id \in Nat /\ c.id <= evMade
    <3>1. \A c \in Known : c \in ChannelRecord
      BY DEF Known, NotifyInv, NotifyTypes, WorkRecord
    <3> QED BY <3>1 DEF ChannelRecord, NotifyInv, ChannelsOnce
  <2>6. \A p \in evTried : p[2] \in Nat /\ p[2] <= evMade
    BY DEF NotifyInv, ChannelsOnce
  <2>7. ChannelsOnce'
    <3>1. \A c \in Known' : c.id <= evMade'
      BY <2>1, <2>2, <2>4, <2>5
    <3>2. \A c, d \in Known' : c.id = d.id => c = d
      BY <2>1, <2>2, <2>4, <2>5 DEF NotifyInv, ChannelsOnce
    <3>3. \A p \in evTried : p[2] \in Nat /\ p[2] <= evMade'
      BY <2>1, <2>6
    <3> QED BY <3>1, <3>2, <3>3 DEF ChannelsOnce
  <2>8. \A e : ~Tried(e, new)
    BY <2>1, <2>2, <2>6 DEF Tried
  <2>9. (\A w \in NotifyWorkers : Course(evWork[w]))'
    <3>1. new \notin Known
      BY <2>1, <2>2, <2>5
    <3>2. \A w \in NotifyWorkers : new \notin evWork[w].owed
      BY <3>1 DEF Known
    <3> QED
      BY <2>1, <2>8, <3>2 DEF NotifyInv, Course, Tried
  <2> QED
    BY <1>1, <2>3, <2>7, <2>9 DEF NotifyInv
<1>3. ASSUME NEW c \in evChannels, HandleDeleteChannel(c) PROVE NotifyInv'
  <2>1. evChannels' \subseteq evChannels /\ evMade' = evMade
    BY <1>3 DEF HandleDeleteChannel
  <2>2. NotifyTypes'
    BY <2>1 DEF NotifyInv, NotifyTypes
  <2>3. ChannelsOnce'
    <3>1. Known' \subseteq Known
      BY <2>1 DEF Known
    <3> QED BY <2>1, <3>1 DEF NotifyInv, ChannelsOnce
  <2>4. (\A w \in NotifyWorkers : Course(evWork[w]))'
    BY <2>1 DEF NotifyInv, Course, Tried
  <2> QED
    BY <1>1, <2>2, <2>3, <2>4 DEF NotifyInv
<1> QED BY <1>2, <1>3

\* A worker goes from one step to another without sending.
LEMMA WorkMoves ==
  ASSUME NotifyInv, NEW w \in NotifyWorkers, NEW r \in WorkRecord, evWork' = [evWork EXCEPT ![w] = r],
         UNCHANGED <<evRows, evUsed, evChannels, evMade, evTried, evTwice>>, evQueue' \subseteq evQueue,
         r.pc # "idle" => /\ r.event \in evUsed \ evQueue'
                          /\ r.event \in evQueue \/ (Busy(w) /\ r.event = evWork[w].event),
         r.chans \cup r.owed \subseteq Known, Course(r)
  PROVE  NotifyInv'
<1>1. NotifyTypes'
  BY DEF NotifyInv, NotifyTypes
<1>2. evWork'[w] = r /\ \A v \in NotifyWorkers : v # w => evWork'[v] = evWork[v]
  BY DEF NotifyInv, NotifyTypes
<1>3. EventsOnce'
  BY <1>2 DEF NotifyInv, EventsOnce, Busy
<1>4. Known' \subseteq Known
  BY <1>2 DEF Known
<1>5. ChannelsOnce'
  BY <1>4 DEF NotifyInv, ChannelsOnce
<1>6. ASSUME NEW v \in NotifyWorkers PROVE Course(evWork[v])'
  BY <1>2 DEF NotifyInv, Course, Tried
<1> QED
  BY <1>1, <1>3, <1>5, <1>6 DEF NotifyInv

LEMMA EventSteps ==
  ASSUME NotifyInv, EventNext \/ FeedNext
  PROVE  NotifyInv'
<1>1. evUsed \subseteq Int /\ \A e \in evRows : e.id \in evUsed
  BY DEF NotifyInv, NotifyTypes, EventsOnce
<1>2. ASSUME NEW type, NEW actor, NEW queued \in BOOLEAN, Emit(type, actor, queued) PROVE NotifyInv'
  <2>1. UNCHANGED <<evChannels, evMade, evWork, evTried, evTwice>>
    BY <1>2 DEF Emit, settingVars, workVars
  <2>2. CASE UNCHANGED <<evRows, evUsed, evQueue>>
    BY <1>1, <2>1, <2>2, EventsAside
  <2>3. ASSUME NEW id \in EventIds \ evUsed,
               evRows' = evRows \cup {[id |-> id, type |-> type, actor |-> actor, at |-> evClock]},
               evUsed' = evUsed \cup {id},
               evQueue' = IF queued THEN evQueue \cup {id} ELSE evQueue
        PROVE  NotifyInv'
    <3>1. id \in Int
      BY NotifyAssumption
    <3>2. \A e \in evRows' : e.id \in evUsed'
      BY <1>1, <2>3
    <3>3. evQueue' \subseteq evQueue \cup (evUsed' \ evUsed)
      BY <2>3
    <3> QED
      BY <1>1, <2>1, <2>3, <3>1, <3>2, <3>3, EventsAside
  <2> QED
    BY <1>2, <2>2, <2>3 DEF Emit
<1>3. CASE EventTick \/ PruneEvents
  BY <1>1, <1>3, EventsAside DEF EventTick, PruneEvents, settingVars, workVars
<1>4. CASE FeedNext
  BY <1>1, <1>4, EventsAside DEF FeedNext, OpenFeed, HandleList, CloseFeed, settingVars, workVars, rowVars
<1> QED
  BY <1>2, <1>3, <1>4 DEF EventNext

LEMMA SettingSteps ==
  ASSUME NotifyInv, NEW u \in Members,
         \/ \E T \in SUBSET EventTypes : HandlePutSubscriptions(u, T)
         \/ HandleResetSubscriptions(u) \/ SetAdmin(u)
  PROVE  NotifyInv'
<1>1. evUsed \subseteq Int /\ \A e \in evRows : e.id \in evUsed
  BY DEF NotifyInv, NotifyTypes, EventsOnce
<1>2. UNCHANGED <<evRows, evUsed, evQueue, evChannels, evMade, evWork, evTried, evTwice>>
  BY DEF HandlePutSubscriptions, HandleResetSubscriptions, SetSubs, SetAdmin, rowVars, workVars
<1> QED
  BY <1>1, <1>2, EventsAside

\* A worker takes up an event of which nothing was tried.
LEMMA WorkBegins ==
  ASSUME NotifyInv, NEW w \in NotifyWorkers, NEW id \in evQueue, BeginWork(w, id)
  PROVE  NotifyInv'
<1>1. UNCHANGED <<evRows, evUsed, evChannels, evMade, evTried, evTwice>> /\ evQueue' = evQueue \ {id}
  BY DEF BeginWork, rowVars, settingVars
<1>2. CASE UNCHANGED evWork
  BY <1>1, <1>2, EventsAside DEF NotifyInv, NotifyTypes, EventsOnce
<1>3. ASSUME NEW e \in evRows, e.id = id,
             evWork' = [evWork EXCEPT ![w] = [NoWork EXCEPT !.pc = "user", !.event = id,
                            !.users = resolveRecipients(e), !.owed = ChannelsOf(resolveRecipients(e))]]
      PROVE  NotifyInv'
  <2> DEFINE U == resolveRecipients(e)
             r == [NoWork EXCEPT !.pc = "user", !.event = id, !.users = U, !.owed = ChannelsOf(U)]
  <2>1. U \subseteq Members
    BY DEF resolveRecipients
  <2>2. ChannelsOf(U) \subseteq evChannels /\ \A c \in ChannelsOf(U) : c.user \in U
    BY DEF ChannelsOf
  <2>3. id \in evUsed /\ id \in Int /\ evChannels \subseteq ChannelRecord
    BY DEF NotifyInv, EventsOnce, NotifyTypes
  <2> HIDE DEF U
  <2>4. /\ r \in WorkRecord /\ r.pc = "user" /\ r.event = id /\ r.users = U
        /\ r.chans = {} /\ r.owed = ChannelsOf(U)
    BY <2>1, <2>2, <2>3 DEF NoWork, WorkRecord
  <2>5. evWork' = [evWork EXCEPT ![w] = r]
    BY <1>3 DEF U
  <2> HIDE DEF r
  <2>6. \A c : ~Tried(id, c)
    BY DEF NotifyInv, EventsOnce, Tried
  <2>7. Course(r)
    BY <2>2, <2>4, <2>6 DEF Course
  <2>8. r.chans \cup r.owed \subseteq Known
    BY <2>2, <2>4 DEF Known
  <2>9. r.event \in evUsed \ evQueue'
    BY <1>1, <2>3, <2>4
  <2> QED
    BY <1>1, <2>4, <2>5, <2>7, <2>8, <2>9, WorkMoves
<1> QED
  BY <1>2, <1>3 DEF BeginWork, SetWork

\* The channels of the next recipient are read, or he is passed over.
LEMMA WorkLoads ==
  ASSUME NotifyInv, NEW w \in NotifyWorkers, NEW u \in evWork[w].users, loadChannels(w, u)
  PROVE  NotifyInv'
<1> DEFINE r == evWork[w]
<1>1. r \in WorkRecord /\ r.pc = "user" /\ evWork \in [NotifyWorkers -> WorkRecord] /\ evChannels \subseteq ChannelRecord
  BY DEF loadChannels, NotifyInv, NotifyTypes
<1>2. UNCHANGED <<evRows, evUsed, evQueue, evChannels, evMade, evTried, evTwice>>
  BY DEF loadChannels, OnlyWork, rowVars, settingVars
<1>3. Course(r) /\ r.event \in evUsed \ evQueue /\ Busy(w)
  BY <1>1 DEF NotifyInv, EventsOnce, Busy
<1>4. r.chans = {} /\ r.owed \subseteq Known /\ evChannels \subseteq Known
  BY <1>1, <1>3 DEF Course, Known
<1>5. ASSUME NEW q \in WorkRecord, evWork' = [evWork EXCEPT ![w] = q], q.event = r.event,
             q.chans \subseteq evChannels, q.owed \subseteq r.owed, Course(q)
      PROVE  NotifyInv'
  BY <1>2, <1>3, <1>4, <1>5, WorkMoves
<1>6. CASE SetWork(w, [r EXCEPT !.pc = "send", !.users = @ \ {u}, !.chans = ChannelsOf({u})])
  <2> DEFINE q == [r EXCEPT !.pc = "send", !.users = r.users \ {u}, !.chans = ChannelsOf({u})]
  <2>1. ChannelsOf({u}) = {c \in evChannels : c.user = u}
    BY DEF ChannelsOf
  <2>2. /\ q \in WorkRecord /\ q.pc = "send" /\ q.users = r.users \ {u}
        /\ q.chans = {c \in evChannels : c.user = u} /\ q.owed = r.owed /\ q.event = r.event
    BY <1>1, <2>1 DEF WorkRecord
  <2>3. evWork' = [evWork EXCEPT ![w] = q]
    BY <1>1, <1>6 DEF SetWork
  <2> HIDE DEF q
  <2>4. Course(q)
    BY <1>1, <1>3, <2>2 DEF Course
  <2> QED
    BY <1>5, <2>2, <2>3, <2>4
<1>7. CASE SetWork(w, [r EXCEPT !.users = @ \ {u}, !.owed = {c \in @ : c.user # u}])
  <2> DEFINE q == [r EXCEPT !.users = r.users \ {u}, !.owed = {c \in r.owed : c.user # u}]
  <2>1. /\ q \in WorkRecord /\ q.pc = "user" /\ q.users = r.users \ {u}
        /\ q.chans = {} /\ q.owed = {c \in r.owed : c.user # u} /\ q.event = r.event
    BY <1>1, <1>4 DEF WorkRecord
  <2>2. evWork' = [evWork EXCEPT ![w] = q]
    BY <1>1, <1>7 DEF SetWork
  <2> HIDE DEF q
  <2>3. Course(q)
    BY <1>1, <1>3, <1>4, <2>1 DEF Course
  <2> QED
    BY <1>5, <2>1, <2>2, <2>3
<1> QED
  BY <1>6, <1>7 DEF loadChannels

\* The work goes on, ends, or dies.
LEMMA WorkTurns ==
  ASSUME NotifyInv, NEW w \in NotifyWorkers, NextRecipient(w) \/ EndWork(w) \/ WorkerDies(w)
  PROVE  NotifyInv'
<1> DEFINE r == evWork[w]
<1>1. r \in WorkRecord /\ evWork \in [NotifyWorkers -> WorkRecord] /\ r.pc # "idle"
  BY DEF NextRecipient, EndWork, WorkerDies, NotifyInv, NotifyTypes
<1>2. UNCHANGED <<evRows, evUsed, evQueue, evChannels, evMade, evTried, evTwice>>
  BY DEF NextRecipient, EndWork, WorkerDies, OnlyWork, rowVars, settingVars
<1>3. Course(r) /\ r.event \in evUsed \ evQueue /\ Busy(w) /\ r.chans \cup r.owed \subseteq Known
  BY <1>1 DEF NotifyInv, EventsOnce, Busy, Known
<1>4. CASE SetWork(w, NoWork)
  <2>1. /\ NoWork \in WorkRecord /\ NoWork.pc = "idle" /\ NoWork.users = {}
        /\ NoWork.chans = {} /\ NoWork.owed = {}
    BY DEF NoWork, WorkRecord
  <2>2. Course(NoWork)
    BY <2>1 DEF Course
  <2>3. NoWork.chans \cup NoWork.owed \subseteq Known
    BY <2>1
  <2>4. evWork' = [evWork EXCEPT ![w] = NoWork]
    BY <1>4 DEF SetWork
  <2> QED
    BY <1>2, <2>1, <2>2, <2>3, <2>4, WorkMoves
<1>5. ASSUME NEW to \in {"user", "done"}, SetWork(w, [r EXCEPT !.pc = to]),
             r.chans = {}, to = "done" => r.users = {}
      PROVE  NotifyInv'
  <2> DEFINE q == [r EXCEPT !.pc = to]
  <2>1. /\ q \in WorkRecord /\ q.pc = to /\ q.users = r.users /\ q.chans = r.chans
        /\ q.owed = r.owed /\ q.event = r.event
    BY <1>1 DEF WorkRecord
  <2>2. evWork' = [evWork EXCEPT ![w] = q]
    BY <1>5 DEF SetWork
  <2> HIDE DEF q
  <2>3. Course(q)
    BY <1>1, <1>3, <1>5, <2>1 DEF Course
  <2> QED
    BY <1>2, <1>3, <2>1, <2>2, <2>3, WorkMoves
<1>6. CASE NextRecipient(w)
  BY <1>5, <1>6 DEF NextRecipient
<1>7. CASE EndWork(w)
  BY <1>3, <1>4, <1>5, <1>7 DEF EndWork, Course
<1>8. CASE WorkerDies(w)
  BY <1>4, <1>8 DEF WorkerDies
<1> QED BY <1>6, <1>7, <1>8

\* A channel in hand was not tried before, and no other channel has its id.
LEMMA WorkSends ==
  ASSUME NotifyInv, NEW w \in NotifyWorkers, NEW c \in evWork[w].chans, Send(w, c)
  PROVE  NotifyInv'
<1> DEFINE r == evWork[w]
           q == [r EXCEPT !.chans = r.chans \ {c}]
<1>1. r \in WorkRecord /\ evWork \in [NotifyWorkers -> WorkRecord] /\ r.pc = "send" /\ c \in ChannelRecord
  BY DEF Send, NotifyInv, NotifyTypes, WorkRecord
<1>2. UNCHANGED <<evRows, evUsed, evQueue, evChannels, evMade>>
  BY DEF Send, OnlyWork, rowVars, settingVars
<1>3. Course(r) /\ r.event \in evUsed \ evQueue /\ Busy(w) /\ r.chans \cup r.owed \subseteq Known
  BY <1>1 DEF NotifyInv, EventsOnce, Busy, Known
<1>4. evTried' = evTried \cup {<<r.event, c.id>>} /\ evTwice' = {}
  BY <1>3 DEF Send, Attempt, Course, Tried, NotifyInv
<1>5. /\ q \in WorkRecord /\ q.pc = "send" /\ q.users = r.users /\ q.chans = r.chans \ {c}
      /\ q.owed = r.owed /\ q.event = r.event
  BY <1>1 DEF WorkRecord
<1>6. evWork' = [evWork EXCEPT ![w] = q]
  BY <1>1 DEF Send, SetWork
<1>7. evWork'[w] = q /\ \A v \in NotifyWorkers : v # w => evWork'[v] = evWork[v]
  BY <1>1, <1>6
<1> HIDE DEF q
<1>8. NotifyTypes'
  BY <1>1, <1>2, <1>5, <1>6 DEF NotifyInv, NotifyTypes
<1>9. EventsOnce'
  <2>1. \A p \in evTried' : p[1] \in evUsed \ evQueue
    BY <1>3, <1>4 DEF NotifyInv, EventsOnce
  <2>2. \A v \in NotifyWorkers : evWork'[v].event = evWork[v].event /\ evWork'[v].pc = evWork[v].pc
    BY <1>1, <1>5, <1>7
  <2> QED
    BY <1>2, <2>1, <2>2 DEF NotifyInv, EventsOnce, Busy
<1>10. ChannelsOnce'
  <2>1. Known' \subseteq Known
    BY <1>2, <1>5, <1>7 DEF Known
  <2>2. c.id \in Nat /\ c.id <= evMade
    BY <1>1, <1>3 DEF ChannelRecord, NotifyInv, ChannelsOnce
  <2>3. \A p \in evTried' : p[2] \in Nat /\ p[2] <= evMade
    BY <1>4, <2>2 DEF NotifyInv, ChannelsOnce
  <2> QED
    BY <1>2, <2>1, <2>3 DEF NotifyInv, ChannelsOnce
<1>11. ASSUME NEW v \in NotifyWorkers PROVE Course(evWork[v])'
  <2>1. \A d \in Known : d # c => d.id # c.id
    BY <1>3 DEF NotifyInv, ChannelsOnce
  <2>2. \A e, i : <<e, i>> \in evTried' <=> <<e, i>> \in evTried \/ (e = evWork[w].event /\ i = c.id)
    BY <1>4
  <2>3. c \in Known /\ evChannels \subseteq Known
    BY <1>3 DEF Known
  <2>4. CASE v = w
    <3>1. \A d \in q.chans : <<q.event, d.id>> \notin evTried' /\ d.user \notin q.users
      BY <1>3, <1>5, <2>1, <2>2 DEF Course, Tried
    <3>2. \A d \in evChannels : d.user \in q.users => <<q.event, d.id>> \notin evTried'
      BY <1>3, <1>5, <2>1, <2>2, <2>3 DEF Course, Tried
    <3>3. \A d \in q.owed \cap evChannels :
             d.user \in q.users \/ d \in q.chans \/ <<q.event, d.id>> \in evTried'
      BY <1>1, <1>3, <1>5, <2>2 DEF Course, Tried
    <3> QED
      BY <1>2, <1>5, <1>7, <2>4, <3>1, <3>2, <3>3 DEF Course, Tried
  <2>5. CASE v # w
    <3>1. Course(evWork[v]) /\ (Busy(v) => evWork[v].event # r.event)
      BY <1>3, <2>5 DEF NotifyInv, EventsOnce
    <3>2. CASE ~Busy(v)
      <4>1. evWork[v].pc = "idle" /\ evWork[v].chans = {} /\ evWork[v].users = {}
        BY <3>1, <3>2 DEF Busy, Course
      <4> QED
        BY <1>7, <2>5, <4>1 DEF Course
    <3>3. CASE Busy(v)
      <4>1. \A d : <<evWork[v].event, d.id>> \in evTried' <=> <<evWork[v].event, d.id>> \in evTried
        BY <2>2, <3>1, <3>3
      <4> QED
        BY <1>2, <1>7, <2>5, <3>1, <4>1 DEF Course, Tried
    <3> QED BY <3>2, <3>3
  <2> QED BY <2>4, <2>5
<1> QED
  BY <1>4, <1>8, <1>9, <1>10, <1>11 DEF NotifyInv

LEMMA NotifyStep == NotifyInv /\ [NotifyNext]_notifyVars => NotifyInv'
<1> SUFFICES ASSUME NotifyInv, [NotifyNext]_notifyVars PROVE NotifyInv'
  OBVIOUS
<1>1. CASE EventNext \/ FeedNext
  BY <1>1, EventSteps
<1>2. CASE DeliverNext
  <2>1. ASSUME NEW u \in Members,
               \/ \E T \in SUBSET EventTypes : HandlePutSubscriptions(u, T)
               \/ HandleResetSubscriptions(u) \/ SetAdmin(u)
        PROVE  NotifyInv'
    BY <2>1, SettingSteps
  <2>2. ASSUME \/ \E u \in Members : HandleCreateChannel(u)
               \/ \E c \in evChannels : HandleDeleteChannel(c)
        PROVE  NotifyInv'
    <3>1. UNCHANGED <<evRows, evUsed, evQueue, evWork, evTried, evTwice>>
      BY <2>2 DEF HandleCreateChannel, HandleDeleteChannel, rowVars, workVars
    <3> QED BY <2>2, <3>1, ChannelsChange
  <2>3. ASSUME NEW w \in NotifyWorkers,
               \/ \E id \in evQueue : BeginWork(w, id)
               \/ \E u \in evWork[w].users : loadChannels(w, u)
               \/ \E c \in evWork[w].chans : Send(w, c)
        PROVE  NotifyInv'
    BY <2>3, WorkBegins, WorkLoads, WorkSends
  <2>4. ASSUME NEW w \in NotifyWorkers, NextRecipient(w) \/ EndWork(w) \/ WorkerDies(w)
        PROVE  NotifyInv'
    BY <2>4, WorkTurns
  <2> QED
    BY <1>2, <2>1, <2>2, <2>3, <2>4 DEF DeliverNext
<1>3. CASE UNCHANGED notifyVars
  <2>1. evUsed \subseteq Int /\ \A e \in evRows : e.id \in evUsed
    BY DEF NotifyInv, NotifyTypes, EventsOnce
  <2> QED
    BY <1>3, <2>1, EventsAside DEF notifyVars
<1> QED
  BY <1>1, <1>2, <1>3 DEF NotifyNext

\* A channel hears of an event at most once, whatever dies and whichever worker has the
\* task, and a worker that has finished has tried every channel that a recipient had all
\* the while (NotifyWorker.Work).
THEOREM DeliveredOnce == NotifySpec => []TriedOnce
<1>1. NotifyInv => TriedOnce
  BY DEF NotifyInv, Course, TriedOnce, Tried
<1> QED BY <1>1, NotifyBegins, NotifyStep, PTL DEF NotifySpec

---------------------------------------------------------------------------
(* The feed. *)

\* Rows are ordered by time and id.
Key(e)   == <<e.at, e.id>>
Dated(e) == e.at \in Nat /\ e.id \in Nat

LEMMA KeysOrdered ==
  ASSUME NEW e, NEW f, NEW g, Dated(e), Dated(f), Dated(g)
  PROVE  /\ ~Below(e, Key(e))
         /\ Below(e, Key(f)) /\ Below(f, Key(g)) => Below(e, Key(g))
         /\ e.id # f.id => Below(e, Key(f)) \/ Below(f, Key(e))
BY DEF Dated, Below, Key

\* A finite set that a transitive relation orders has a first element: one with the fewest
\* elements before it has none.
LEMMA FirstOf ==
  ASSUME NEW S, IsFiniteSet(S), S # {}, NEW R,
         \A x \in S : <<x, x>> \notin R,
         \A x, y, z \in S : <<x, y>> \in R /\ <<y, z>> \in R => <<x, z>> \in R
  PROVE  \E x \in S : \A y \in S : <<y, x>> \notin R
<1> DEFINE before == [x \in S |-> {y \in S : <<y, x>> \in R}]
           T == {Cardinality(before[x]) : x \in S}
           N == {ss \in Nat \X Nat : ss[1] < ss[2]}
<1>1. \A x \in S : IsFiniteSet(before[x]) /\ Cardinality(before[x]) \in Nat
  BY FS_Subset, FS_CardinalityType
<1>2. T \subseteq Nat /\ T # {}
  <2> HIDE DEF before
  <2>1. PICK x \in S : TRUE
    OBVIOUS
  <2>2. Cardinality(before[x]) \in T
    OBVIOUS
  <2>3. T \subseteq Nat
    BY <1>1
  <2> QED BY <2>2, <2>3
<1>3. IsWellFoundedOn(N, Nat)
  BY NatLessThanWellFounded DEF OpToRel
<1>4. \A m, n \in Nat : m < n => <<m, n>> \in N
  OBVIOUS
<1> HIDE DEF N, T
<1>5. PICK t \in T : \A u \in T : ~ (<<u, t>> \in N)
  BY <1>2, <1>3, WFMin
<1>6. PICK x \in S : t = Cardinality(before[x])
  BY DEF T
<1>7. \A y \in S : ~ (Cardinality(before[y]) < Cardinality(before[x]))
  BY <1>1, <1>4, <1>5, <1>6 DEF T
<1>8. ASSUME NEW y \in S, <<y, x>> \in R PROVE FALSE
  <2>1. before[y] \subseteq before[x] /\ y \in before[x] /\ y \notin before[y]
    BY <1>8
  <2>2. Cardinality(before[y]) < Cardinality(before[x])
    <3> HIDE DEF before
    <3>1. before[y] # before[x]
      BY <2>1
    <3> QED BY <1>1, <2>1, <3>1, FS_Subset
  <2> QED BY <1>7, <2>2
<1> QED BY <1>8

\* The rows of S above row e.
Above(S, e) == {f \in S : Below(e, Key(f))}

\* Rows with an id each.
Rows(S) ==
  /\ IsFiniteSet(S)
  /\ \A e \in S : Dated(e)
  /\ \A e, f \in S : e.id = f.id => e = f

LEMMA Highest ==
  ASSUME NEW S, Rows(S), S # {}
  PROVE  \E e \in S : \A f \in S : ~Below(e, Key(f))
<1> DEFINE R == {p \in S \X S : Below(p[2], Key(p[1]))}
<1>1. \A x, y \in S : <<x, y>> \in R <=> Below(y, Key(x))
  OBVIOUS
<1> HIDE DEF R
<1>2. /\ \A x \in S : <<x, x>> \notin R
      /\ \A x, y, z \in S : <<x, y>> \in R /\ <<y, z>> \in R => <<x, z>> \in R
  BY <1>1, KeysOrdered DEF Rows
<1>3. \E x \in S : \A y \in S : <<y, x>> \notin R
  BY <1>2, FirstOf DEF Rows
<1> QED BY <1>1, <1>3

LEMMA Lowest ==
  ASSUME NEW S, Rows(S), S # {}
  PROVE  Oldest(S) \in S /\ \A f \in S : ~Below(f, Key(Oldest(S)))
<1> DEFINE R == {p \in S \X S : Below(p[1], Key(p[2]))}
<1>1. \A x, y \in S : <<x, y>> \in R <=> Below(x, Key(y))
  OBVIOUS
<1> HIDE DEF R
<1>2. /\ \A x \in S : <<x, x>> \notin R
      /\ \A x, y, z \in S : <<x, y>> \in R /\ <<y, z>> \in R => <<x, z>> \in R
  BY <1>1, KeysOrdered DEF Rows
<1>3. \E x \in S : \A y \in S : <<y, x>> \notin R
  BY <1>2, FirstOf DEF Rows
<1>4. \E x \in S : \A y \in S : ~Below(y, <<x.at, x.id>>)
  BY <1>1, <1>3 DEF Key
<1> QED BY <1>4 DEF Oldest, Key

LEMMA SomeRows ==
  ASSUME NEW S, Rows(S), NEW T \in SUBSET S
  PROVE  Rows(T)
BY FS_Subset DEF Rows

\* A page: with a row it has the rows above, it is not empty if there are rows, and what
\* is not on it lies below its last row.
LEMMA PageFacts ==
  ASSUME NEW S, Rows(S), S # {}, NEW n \in Nat \ {0}
  PROVE  /\ Newest(S, n) \subseteq S /\ Newest(S, n) # {}
         /\ \A e \in Newest(S, n), f \in S : Below(e, Key(f)) => f \in Newest(S, n)
         /\ \A e \in S \ Newest(S, n) : Below(e, Key(Oldest(Newest(S, n))))
<1> DEFINE page == Newest(S, n)
<1>1. \A e \in S : IsFiniteSet(Above(S, e)) /\ Cardinality(Above(S, e)) \in Nat
  BY FS_Subset, FS_CardinalityType DEF Rows, Above
<1>2. \A e : e \in page <=> e \in S /\ Cardinality(Above(S, e)) < n
  BY DEF Newest, Above, Key
<1> HIDE DEF page
<1>3. page # {}
  <2>1. PICK e \in S : \A f \in S : ~Below(e, Key(f))
    BY Highest
  <2>2. Cardinality(Above(S, e)) = 0
    BY <2>1, FS_EmptySet DEF Above
  <2> QED BY <1>2, <2>2
<1>4. ASSUME NEW e \in page, NEW f \in S, Below(e, Key(f)) PROVE f \in page
  <2>1. Above(S, f) \subseteq Above(S, e)
    BY <1>2, <1>4, KeysOrdered DEF Above, Rows
  <2>2. Cardinality(Above(S, f)) <= Cardinality(Above(S, e))
    BY <1>1, <1>2, <2>1, FS_Subset
  <2> QED BY <1>1, <1>2, <2>2
<1>5. ASSUME NEW e \in S \ page PROVE Below(e, Key(Oldest(page)))
  <2>1. Rows(page)
    BY <1>2, SomeRows
  <2>2. Oldest(page) \in page
    BY <1>3, <2>1, Lowest
  <2>3. Oldest(page) \in S /\ Oldest(page) # e
    BY <1>2, <1>5, <2>2
  <2>4. ~Below(Oldest(page), Key(e))
    BY <1>4, <1>5, <2>2
  <2> QED BY <2>3, <2>4, KeysOrdered DEF Rows
<1> QED BY <1>2, <1>3, <1>4, <1>5 DEF page

\* One row more than the page is found if there is a row that is not on the page.
LEMMA OneMore ==
  ASSUME NEW S, Rows(S), NEW n \in Nat \ {0}, S \ Newest(S, n) # {}
  PROVE  Cardinality(Newest(S, n + 1)) > n
<1> DEFINE page == Newest(S, n)
           next == Newest(S, n + 1)
<1>1. \A e \in S : IsFiniteSet(Above(S, e)) /\ Cardinality(Above(S, e)) \in Nat
  BY FS_Subset, FS_CardinalityType DEF Rows, Above
<1>2. /\ \A e : e \in page <=> e \in S /\ Cardinality(Above(S, e)) < n
      /\ \A e : e \in next <=> e \in S /\ Cardinality(Above(S, e)) < n + 1
  BY DEF Newest, Above, Key
<1> HIDE DEF page, next
<1>3. S \ page # {}
  BY DEF page
<1>4. Rows(S \ page)
  BY SomeRows
<1>5. PICK e \in S \ page : \A f \in S \ page : ~Below(e, Key(f))
  BY <1>3, <1>4, Highest
<1>6. Above(S, e) \subseteq page
  BY <1>5 DEF Above
<1>7. Cardinality(Above(S, e)) >= n
  BY <1>1, <1>2, <1>5
<1>8. Above(S, e) # {}
  BY <1>7, FS_EmptySet
<1>9. Rows(Above(S, e))
  BY SomeRows DEF Above
<1> DEFINE m == Oldest(Above(S, e))
<1>10. m \in Above(S, e) /\ \A f \in Above(S, e) : ~Below(f, Key(m))
  BY <1>8, <1>9, Lowest
<1> HIDE DEF m
<1>11. m \in page /\ m \in S /\ Below(e, Key(m))
  BY <1>6, <1>10 DEF Above
<1>12. Above(S, e) = Above(S, m) \cup {m}
  <2>1. ASSUME NEW f \in Above(S, e), f # m PROVE f \in Above(S, m)
    <3>1. f \in S /\ f.id # m.id
      BY <1>11, <2>1 DEF Above, Rows
    <3> QED BY <1>10, <1>11, <2>1, <3>1, KeysOrdered DEF Above, Rows
  <2>2. ASSUME NEW f \in Above(S, m) PROVE f \in Above(S, e)
    BY <1>5, <1>11, <2>2, KeysOrdered DEF Above, Rows
  <2> QED BY <1>10, <2>1, <2>2
<1>13. m \notin Above(S, m)
  BY <1>11, KeysOrdered DEF Above, Rows
<1>14. Cardinality(Above(S, e)) = n
  <2>1. Cardinality(Above(S, m) \cup {m}) = Cardinality(Above(S, m)) + 1
    BY <1>1, <1>11, <1>13, FS_AddElement
  <2> QED BY <1>1, <1>2, <1>7, <1>11, <1>12, <2>1
<1>15. Above(S, e) \cup {e} \subseteq next
  <2>1. page \subseteq next
    BY <1>1, <1>2
  <2>2. e \in next
    BY <1>2, <1>5, <1>14
  <2> QED BY <1>6, <2>1, <2>2
<1>16. Cardinality(Above(S, e) \cup {e}) = n + 1
  <2>1. e \notin Above(S, e)
    BY <1>5, <1>2, <1>6
  <2> QED BY <1>1, <1>5, <1>14, <2>1, FS_AddElement
<1>17. IsFiniteSet(next)
  BY <1>2, FS_Subset DEF Rows
<1>18. Cardinality(next) >= n + 1 /\ Cardinality(next) \in Nat
  BY <1>15, <1>16, <1>17, FS_Subset, FS_CardinalityType
<1> QED BY <1>18 DEF next

\* What was seen lies at the cursor or above, and what stayed was seen or lies below.
FeedSound(r) ==
  /\ DOMAIN r = {"pc", "types", "cursor", "seen", "again", "stayed"}
  /\ r.pc \in {"closed", "more", "end"} /\ ~r.again
  /\ \A e \in r.seen : Dated(e)
  /\ r.pc = "more" =>
       /\ r.cursor[1] \in Nat /\ r.cursor[2] \in Nat
       /\ \A e \in r.seen : ~Below(e, r.cursor)
       /\ \A e \in r.stayed : e \in evRows /\ e.type \in r.types /\ (e \in r.seen \/ Below(e, r.cursor))
  /\ r.pc = "end" => r.stayed \subseteq r.seen

FeedInv ==
  /\ evClock \in Nat /\ evClock <= MaxEventTime
  /\ Rows(evRows)
  /\ \A e \in evRows : e.id \in evUsed /\ e.at <= evClock
  /\ FeedSound(evFeed)

LEMMA FeedBegins == NotifyInit => FeedInv
<1> SUFFICES ASSUME NotifyInit PROVE FeedInv
  OBVIOUS
<1>1. Rows(evRows)
  BY FS_EmptySet DEF NotifyInit, Rows
<1>2. FeedSound(evFeed)
  BY DEF NotifyInit, FeedSound, NoFeed
<1> QED BY <1>1, <1>2, NotifyAssumption DEF NotifyInit, FeedInv

LEMMA BelowCursor ==
  ASSUME NEW e, NEW f, Dated(e), Dated(f), NEW k, k[1] \in Nat, k[2] \in Nat,
         Below(e, k), ~Below(f, k)
  PROVE  ~Below(f, Key(e))
BY DEF Dated, Below, Key

LEMMA FeedEvents ==
  ASSUME FeedInv, EventNext
  PROVE  FeedInv'
<1>1. ASSUME NEW type, NEW actor, NEW queued \in BOOLEAN, Emit(type, actor, queued) PROVE FeedInv'
  <2>1. UNCHANGED <<evClock, evFeed>>
    BY <1>1 DEF Emit
  <2>2. CASE UNCHANGED <<evRows, evUsed, evQueue>>
    BY <2>1, <2>2 DEF FeedInv, FeedSound
  <2>3. ASSUME NEW id \in EventIds \ evUsed,
               evRows' = evRows \cup {[id |-> id, type |-> type, actor |-> actor, at |-> evClock]},
               evUsed' = evUsed \cup {id}
        PROVE  FeedInv'
    <3> DEFINE new == [id |-> id, type |-> type, actor |-> actor, at |-> evClock]
    <3>1. Dated(new) /\ new.id = id /\ new.at = evClock
      BY NotifyAssumption DEF FeedInv, Dated
    <3>2. evRows' = evRows \cup {new}
      BY <2>3
    <3> HIDE DEF new
    <3>3. Rows(evRows')
      <4>1. IsFiniteSet(evRows')
        BY <3>2, FS_AddElement DEF FeedInv, Rows
      <4>2. \A e \in evRows : e.id # new.id
        BY <3>1 DEF FeedInv
      <4> QED BY <3>1, <3>2, <4>1, <4>2 DEF FeedInv, Rows
    <3>4. \A e \in evRows' : e.id \in evUsed' /\ e.at <= evClock'
      BY <2>1, <2>3, <3>1, <3>2 DEF FeedInv
    <3>5. FeedSound(evFeed)'
      BY <2>1, <3>2 DEF FeedInv, FeedSound
    <3> QED BY <2>1, <3>3, <3>4, <3>5 DEF FeedInv
  <2> QED BY <1>1, <2>2, <2>3 DEF Emit
<1>2. CASE EventTick
  <2>1. UNCHANGED <<evRows, evUsed, evFeed>> /\ evClock' = evClock + 1 /\ evClock < MaxEventTime
    BY <1>2 DEF EventTick
  <2>2. \A e \in evRows : e.at \in Nat
    BY DEF FeedInv, Rows, Dated
  <2>3. evClock' \in Nat /\ evClock' <= MaxEventTime /\ \A e \in evRows' : e.at <= evClock'
    BY <2>1, <2>2, NotifyAssumption DEF FeedInv
  <2>4. FeedSound(evFeed)'
    BY <2>1 DEF FeedInv, FeedSound
  <2> QED BY <2>1, <2>3, <2>4 DEF FeedInv
<1>3. CASE PruneEvents
  <2>1. /\ evRows' \subseteq evRows /\ UNCHANGED <<evUsed, evClock>>
        /\ evFeed' = [evFeed EXCEPT !.stayed = evFeed.stayed \cap evRows']
    BY <1>3 DEF PruneEvents, FeedInv, FeedSound
  <2>2. /\ DOMAIN evFeed' = DOMAIN evFeed /\ evFeed'.stayed = evFeed.stayed \cap evRows'
        /\ evFeed'.pc = evFeed.pc /\ evFeed'.types = evFeed.types /\ evFeed'.cursor = evFeed.cursor
        /\ evFeed'.seen = evFeed.seen /\ evFeed'.again = evFeed.again
    BY <2>1 DEF FeedInv, FeedSound
  <2>3. FeedSound(evFeed)'
    BY <2>2 DEF FeedInv, FeedSound
  <2>4. Rows(evRows')
    BY <2>1, SomeRows DEF FeedInv
  <2> QED BY <2>1, <2>3, <2>4 DEF FeedInv
<1> QED BY <1>1, <1>2, <1>3 DEF EventNext

\* The first page will be of all rows there are.
LEMMA FeedOpens ==
  ASSUME FeedInv, NEW T, OpenFeed(T)
  PROVE  FeedInv'
<1> DEFINE k == <<MaxEventTime + 1, 0>>
           here == {e \in evRows : e.type \in T}
           r == [pc |-> "more", types |-> T, cursor |-> k, seen |-> {}, again |-> FALSE, stayed |-> here]
<1>1. evFeed' = r /\ UNCHANGED <<evRows, evUsed, evClock>>
  BY DEF OpenFeed, NoFeed, rowVars
<1>2. k[1] \in Nat /\ k[2] \in Nat
  BY NotifyAssumption
<1>3. \A e \in evRows : Below(e, k)
  BY NotifyAssumption DEF FeedInv, Rows, Dated, Below
<1> HIDE DEF k
<1>4. /\ DOMAIN r = {"pc", "types", "cursor", "seen", "again", "stayed"} /\ r.pc = "more"
      /\ ~r.again /\ r.seen = {} /\ r.cursor = k /\ r.types = T /\ r.stayed = here
  OBVIOUS
<1> HIDE DEF r
<1>5. FeedSound(evFeed)'
  BY <1>1, <1>2, <1>3, <1>4 DEF FeedSound
<1> QED BY <1>1, <1>5 DEF FeedInv

LEMMA FeedPages ==
  ASSUME FeedInv, HandleList
  PROVE  FeedInv'
<1> DEFINE k    == evFeed.cursor
           S    == {e \in evRows : e.type \in evFeed.types /\ Below(e, k)}
           page == Newest(S, FeedLimit)
           more == Cardinality(Newest(S, FeedLimit + 1)) > FeedLimit
<1>1. /\ evFeed.pc = "more" /\ ~evFeed.again /\ UNCHANGED <<evRows, evUsed, evClock>>
      /\ DOMAIN evFeed = {"pc", "types", "cursor", "seen", "again", "stayed"}
      /\ k[1] \in Nat /\ k[2] \in Nat
      /\ \A e \in evFeed.seen : Dated(e) /\ ~Below(e, k)
      /\ \A e \in evFeed.stayed : e \in evRows /\ e.type \in evFeed.types /\ (e \in evFeed.seen \/ Below(e, k))
  BY DEF HandleList, FeedInv, FeedSound, rowVars
<1>2. evFeed' = [evFeed EXCEPT !.pc = IF more THEN "more" ELSE "end",
                               !.cursor = IF more THEN NextCursor(S) ELSE k,
                               !.again = evFeed.again \/ page \cap evFeed.seen # {},
                               !.seen = evFeed.seen \cup page]
  BY DEF HandleList
<1>3. Rows(S) /\ FeedLimit \in Nat \ {0}
  BY SomeRows, NotifyAssumption DEF FeedInv
<1>4. page \subseteq S
  BY DEF Newest
<1>5. page \cap evFeed.seen = {}
  BY <1>1, <1>4
<1>6. ASSUME NEW e \in evFeed.stayed PROVE e \in evFeed.seen \/ e \in S
  BY <1>1
<1>7. \A e \in evFeed.seen \cup page : Dated(e)
  BY <1>1, <1>3, <1>4 DEF Rows
<1> HIDE DEF page
<1>8. /\ DOMAIN evFeed' = DOMAIN evFeed /\ evFeed'.pc = (IF more THEN "more" ELSE "end")
      /\ evFeed'.cursor = (IF more THEN NextCursor(S) ELSE k)
      /\ evFeed'.seen = evFeed.seen \cup page
      /\ evFeed'.types = evFeed.types /\ evFeed'.stayed = evFeed.stayed
  <2> HIDE DEF more, S, k
  <2> QED BY <1>1, <1>2
<1>9. ~evFeed'.again
  <2>1. (evFeed.again \/ page \cap evFeed.seen # {}) = FALSE
    BY <1>1, <1>5
  <2> HIDE DEF more, S, k
  <2> QED BY <1>1, <1>2, <2>1
<1>10. CASE more
  <2>1. S # {}
    <3>1. CASE S = {}
      <4>1. Newest(S, FeedLimit + 1) = {}
        BY <3>1 DEF Newest
      <4> QED BY <1>3, <1>10, <4>1, FS_EmptySet
    <3> QED BY <3>1
  <2> DEFINE m == Oldest(page)
  <2>2. /\ page # {} /\ Rows(page)
        /\ \A e \in S \ page : Below(e, Key(m))
    <3> HIDE DEF S
    <3> QED BY <1>3, <1>4, <2>1, PageFacts, SomeRows DEF page
  <2>3. m \in page /\ \A f \in page : ~Below(f, Key(m))
    BY <2>2, Lowest
  <2>4. NextCursor(S) = Key(m)
    BY DEF NextCursor, Key, page
  <2> HIDE DEF m
  <2>5. m \in S /\ Dated(m) /\ Below(m, k)
    BY <1>3, <1>4, <2>3 DEF Rows
  <2>6. Key(m)[1] \in Nat /\ Key(m)[2] \in Nat
    BY <2>5 DEF Key, Dated
  <2>7. \A e \in evFeed.seen \cup page : ~Below(e, Key(m))
    <3>1. ASSUME NEW e \in evFeed.seen PROVE ~Below(e, Key(m))
      BY <1>1, <2>5, BelowCursor
    <3> QED BY <2>3, <3>1
  <2>8. \A e \in evFeed.stayed : e \in evFeed.seen \cup page \/ Below(e, Key(m))
    BY <1>6, <2>2
  <2>9. evFeed'.pc = "more" /\ evFeed'.cursor = Key(m)
    BY <1>8, <1>10, <2>4
  <2> HIDE DEF S, more, k
  <2>10. FeedSound(evFeed)'
    BY <1>1, <1>7, <1>8, <1>9, <2>6, <2>7, <2>8, <2>9 DEF FeedSound
  <2> QED BY <1>1, <2>10 DEF FeedInv
<1>11. CASE ~more
  <2>1. S \subseteq page
    <3>1. CASE S \ page # {}
      <4> HIDE DEF S
      <4>1. Cardinality(Newest(S, FeedLimit + 1)) > FeedLimit
        BY <1>3, <3>1, OneMore DEF page
      <4> QED BY <1>11, <4>1 DEF S
    <3> QED BY <3>1
  <2>2. evFeed.stayed \subseteq evFeed.seen \cup page
    BY <1>6, <2>1
  <2>3. evFeed'.pc = "end"
    BY <1>8, <1>11
  <2> HIDE DEF S, more, k
  <2>4. FeedSound(evFeed)'
    BY <1>1, <1>7, <1>8, <1>9, <2>2, <2>3 DEF FeedSound
  <2> QED BY <1>1, <2>4 DEF FeedInv
<1> QED BY <1>10, <1>11

LEMMA FeedStep == FeedInv /\ [NotifyNext]_notifyVars => FeedInv'
<1> SUFFICES ASSUME FeedInv, [NotifyNext]_notifyVars PROVE FeedInv'
  OBVIOUS
<1>1. CASE EventNext
  BY <1>1, FeedEvents
<1>2. CASE DeliverNext \/ UNCHANGED notifyVars
  <2>1. UNCHANGED <<evRows, evUsed, evClock, evFeed>>
    BY <1>2 DEF DeliverNext, HandlePutSubscriptions, HandleResetSubscriptions, SetSubs, SetAdmin,
         HandleCreateChannel, HandleDeleteChannel, BeginWork, loadChannels, Send, NextRecipient,
         EndWork, WorkerDies, OnlyWork, rowVars, notifyVars
  <2> QED BY <2>1 DEF FeedInv, FeedSound
<1>3. CASE FeedNext
  <2>1. CASE CloseFeed
    <3>1. evFeed' = NoFeed /\ UNCHANGED <<evRows, evUsed, evClock>>
      BY <2>1 DEF CloseFeed, rowVars
    <3>2. FeedSound(evFeed)'
      BY <3>1 DEF FeedSound, NoFeed
    <3> QED BY <3>1, <3>2 DEF FeedInv
  <2> QED BY <1>3, <2>1, FeedOpens, FeedPages DEF FeedNext
<1> QED BY <1>1, <1>2, <1>3 DEF NotifyNext

\* Whoever pages to the end of the feed has seen every event that was there all the while
\* and none twice, for any pages, events and retention (HandleList's cursor, the time and id
\* of the last row of a page, though ids do not follow time and several events carry one).
THEOREM FeedMissesNothing == NotifySpec => []FeedComplete
<1>1. FeedInv => FeedComplete
  BY DEF FeedInv, FeedSound, FeedComplete
<1> QED BY <1>1, FeedBegins, FeedStep, PTL DEF NotifySpec

---------------------------------------------------------------------------
(* The exports. *)

\* A job is a record with the fields of NoExport.
JobTyped(r) == DOMAIN r = {"st", "pc", "doc", "path", "done"} /\ r.path \in Nat \cup {NoPath} /\ r.done \in Int

ExportTypes ==
  /\ exClock \in Nat /\ DOMAIN exFiles \subseteq Nat
  /\ DOMAIN exJobs = ExportJobs /\ \A j \in ExportJobs : JobTyped(exJobs[j])

\* A path is a second that has begun, and a job that is done has left it behind or is in it.
PathsPast ==
  \A j \in ExportJobs :
     /\ exJobs[j].path <= exClock
     /\ exJobs[j].pc = "write" => exJobs[j].path # NoPath
     /\ exJobs[j].st = "completed" => /\ exJobs[j].pc = "idle"
                                      /\ exJobs[j].path # NoPath => exJobs[j].path <= exJobs[j].done

\* The file of this second stays while the second lasts: only the files of expired jobs go.
FreshStays == \A j \in ExportJobs : exJobs[j].path = exClock => exClock \in DOMAIN exFiles

\* Two jobs of one path are torn; the file of an untorn job is its own, and whole once it is written.
Alone ==
  \A i, j \in ExportJobs :
     i # j /\ exJobs[i].path = exJobs[j].path /\ exJobs[i].path # NoPath => i \in exTorn
OwnFile(j) ==
  j \notin exTorn /\ exJobs[j].path \in DOMAIN exFiles =>
     /\ exFiles[exJobs[j].path].job = j
     /\ exJobs[j].pc = "mark" \/ exJobs[j].st = "completed" => exFiles[exJobs[j].path].whole

ExportInv ==
  /\ ExportTypes /\ PathsPast /\ FreshStays /\ Alone
  /\ \A j \in ExportJobs : OwnFile(j)
  /\ DownloadIsOwn

\* A worker step writes the status unless the row is gone.
LEMMA WorkerWrites ==
  ASSUME NEW j, NEW from, NEW r, JobTyped(r), WorkerStep(j, from, r)
  PROVE  /\ exJobs[j].pc = from
         /\ \E q : /\ exJobs' = [exJobs EXCEPT ![j] = q]
                   /\ JobTyped(q) /\ q.pc = r.pc /\ q.path = r.path /\ q.done = r.done
                   /\ q.st = "deleted" \/ q.st = r.st
<1> DEFINE q == [r EXCEPT !.st = "deleted"]
<1>1. JobTyped(q) /\ q.pc = r.pc /\ q.path = r.path /\ q.done = r.done /\ q.st = "deleted"
  BY DEF JobTyped
<1>2. exJobs' = [exJobs EXCEPT ![j] = q] \/ exJobs' = [exJobs EXCEPT ![j] = r]
  BY DEF WorkerStep, SetJob
<1> HIDE DEF q
<1> QED
  BY <1>1, <1>2 DEF WorkerStep

\* A step of one job that leaves the files alone: its path stays or is forgotten, and it is
\* reported as done only from the label after the writing.
LEMMA JobMoves ==
  ASSUME ExportInv, NEW j \in ExportJobs, NEW q, JobTyped(q), exJobs' = [exJobs EXCEPT ![j] = q],
         UNCHANGED <<exFiles, exClock, exTorn, exGot>>,
         q.path \in {NoPath, exJobs[j].path},
         q.pc = "write" => exJobs[j].pc = "write" /\ q.path = exJobs[j].path,
         q.st = "completed" => q.pc = "idle" /\ (q.path # NoPath => q.path <= q.done),
         q.st = "completed" \/ q.pc = "mark" => exJobs[j].pc = "mark" \/ exJobs[j].st = "completed"
  PROVE  ExportInv'
<1>1. /\ DOMAIN exJobs' = ExportJobs /\ \A i \in ExportJobs : i # j => exJobs'[i] = exJobs[i]
      /\ exJobs'[j] = q
  BY DEF ExportInv, ExportTypes
<1>2. ExportTypes'
  BY <1>1 DEF ExportInv, ExportTypes, JobTyped
<1>3. NoPath \notin Nat /\ NoPath <= exClock /\ exClock \in Nat
  BY DEF NoPath, ExportInv, ExportTypes
<1>4. PathsPast'
  BY <1>1, <1>3 DEF ExportInv, PathsPast
<1>5. FreshStays'
  BY <1>1, <1>3 DEF ExportInv, FreshStays
<1>6. Alone'
  <2>1. NoPath' = NoPath
    BY DEF NoPath
  <2> QED BY <1>1, <2>1 DEF ExportInv, Alone
<1>7. \A i \in ExportJobs : OwnFile(i)'
  <2>1. DOMAIN exFiles \subseteq Nat
    BY DEF ExportInv, ExportTypes
  <2> QED BY <1>1, <1>3, <2>1 DEF ExportInv, OwnFile
<1>8. DownloadIsOwn'
  BY DEF ExportInv, DownloadIsOwn
<1> QED
  BY <1>2, <1>4, <1>5, <1>6, <1>7, <1>8 DEF ExportInv

\* A job that is at work is not reported as done.
LEMMA AtWork ==
  ASSUME ExportInv, NEW j \in ExportJobs, exJobs[j].pc # "idle"
  PROVE  exJobs[j].st # "completed"
BY DEF ExportInv, PathsPast

LEMMA ExportSteps ==
  ASSUME ExportInv, NEW j \in ExportJobs,
         \/ handleExport(j) \/ loadAndStartJob(j) \/ loadUserGames(j) \/ loadRelations(j)
         \/ loadPoolsForExport(j) \/ markJobCompleted(j) \/ markJobFailed(j)
         \/ ExportReadFails(j) \/ ExportWorkerDies(j) \/ CancelExport(j) \/ DeleteExport(j)
  PROVE  ExportInv'
<1> DEFINE J == exJobs[j]
<1>1. JobTyped(J) /\ J.path <= exClock /\ exClock \in Nat /\ NoPath \in Int
  BY DEF ExportInv, ExportTypes, PathsPast, NoPath
<1>2. UNCHANGED <<exFiles, exClock, exTorn, exGot>>
  BY DEF handleExport, loadAndStartJob, loadUserGames, loadRelations, loadPoolsForExport, markJobCompleted,
         markJobFailed, ExportReadFails, ExportWorkerDies, CancelExport, DeleteExport, Reads
<1>3. ASSUME NEW from \in {"queued", "games", "relations", "pools"}, NEW r, JobTyped(r),
             r.pc \notin {"write", "mark"}, r.path = J.path, r.st # "completed", WorkerStep(j, from, r)
      PROVE  ExportInv'
  <2>1. PICK q : /\ exJobs' = [exJobs EXCEPT ![j] = q]
                 /\ JobTyped(q) /\ q.pc = r.pc /\ q.path = r.path /\ q.done = r.done
                 /\ q.st = "deleted" \/ q.st = r.st
    BY <1>3, WorkerWrites
  <2> QED
    BY <1>2, <1>3, <2>1, JobMoves
<1>4. CASE handleExport(j)
  <2> DEFINE q == [NoExport EXCEPT !.st = "pending", !.pc = "queued"]
             p == [NoExport EXCEPT !.st = "pending"]
  <2>1. JobTyped(q) /\ q.st = "pending" /\ q.pc = "queued" /\ q.path = NoPath
    BY <1>1 DEF NoExport, JobTyped
  <2>2. JobTyped(p) /\ p.st = "pending" /\ p.pc = "idle" /\ p.path = NoPath
    BY <1>1 DEF NoExport, JobTyped
  <2>3. exJobs' = [exJobs EXCEPT ![j] = q] \/ exJobs' = [exJobs EXCEPT ![j] = p]
    BY <1>4 DEF handleExport, SetJob
  <2> HIDE DEF q, p
  <2> QED
    BY <1>2, <2>1, <2>2, <2>3, JobMoves
<1>5. CASE loadAndStartJob(j)
  <2> DEFINE r == [J EXCEPT !.st = "processing", !.pc = "games"]
             p == [J EXCEPT !.pc = "idle"]
  <2>1. JobTyped(r) /\ r.st = "processing" /\ r.pc = "games" /\ r.path = J.path
    BY <1>1 DEF JobTyped
  <2>2. JobTyped(p) /\ p.st = J.st /\ p.pc = "idle" /\ p.path = J.path
    BY <1>1 DEF JobTyped
  <2>3. \/ WorkerStep(j, "queued", r)
        \/ J.st = "deleted" /\ WorkerStep(j, "queued", p)
    BY <1>5 DEF loadAndStartJob
  <2> HIDE DEF r, p
  <2> QED
    BY <1>3, <2>1, <2>2, <2>3
<1>6. CASE loadUserGames(j) \/ loadRelations(j) \/ loadPoolsForExport(j)
  <2>a. PICK d : \E from \in {"games", "relations", "pools"}, to \in {"relations", "pools", "create"} :
                    WorkerStep(j, from, [J EXCEPT !.pc = to, !.doc = d])
    BY <1>6 DEF loadUserGames, loadRelations, loadPoolsForExport
  <2>1. PICK from \in {"games", "relations", "pools"}, to \in {"relations", "pools", "create"} :
           WorkerStep(j, from, [J EXCEPT !.pc = to, !.doc = d])
    BY <2>a
  <2> DEFINE r == [J EXCEPT !.pc = to, !.doc = d]
  <2>2. JobTyped(r) /\ r.st = J.st /\ r.pc = to /\ r.path = J.path
    BY <1>1 DEF JobTyped
  <2>3. J.st # "completed"
    BY <2>1, AtWork DEF WorkerStep
  <2> HIDE DEF r
  <2> QED
    BY <1>3, <2>1, <2>2, <2>3 DEF r
<1>7. CASE markJobCompleted(j)
  <2> DEFINE r == [J EXCEPT !.st = "completed", !.pc = "idle", !.done = exClock]
  <2>1. JobTyped(r) /\ r.pc = "idle" /\ r.path = J.path /\ r.done = exClock
    BY <1>1 DEF JobTyped
  <2>2. WorkerStep(j, "mark", r)
    BY <1>7 DEF markJobCompleted
  <2> HIDE DEF r
  <2>3. PICK q : /\ exJobs' = [exJobs EXCEPT ![j] = q]
                 /\ JobTyped(q) /\ q.pc = r.pc /\ q.path = r.path /\ q.done = r.done
    BY <2>1, <2>2, WorkerWrites
  <2>4. J.pc = "mark"
    BY <2>1, <2>2, WorkerWrites
  <2> QED
    BY <1>1, <1>2, <2>1, <2>3, <2>4, JobMoves
<1>8. CASE markJobFailed(j)
  <2> DEFINE r == [J EXCEPT !.st = "failed", !.pc = "idle", !.path = NoPath, !.done = exClock]
  <2>1. JobTyped(r) /\ r.st = "failed" /\ r.pc = "idle" /\ r.path = NoPath
    BY <1>1 DEF JobTyped
  <2>2. WorkerStep(j, "fail", r)
    BY <1>8 DEF markJobFailed
  <2> HIDE DEF r
  <2>3. PICK q : /\ exJobs' = [exJobs EXCEPT ![j] = q]
                 /\ JobTyped(q) /\ q.pc = r.pc /\ q.path = r.path /\ (q.st = "deleted" \/ q.st = r.st)
    BY <2>1, <2>2, WorkerWrites
  <2> QED
    BY <1>2, <2>1, <2>3, JobMoves
<1>9. CASE ExportReadFails(j) \/ ExportWorkerDies(j)
  <2>1. PICK to \in {"fail", "idle"} : exJobs' = [exJobs EXCEPT ![j] = [J EXCEPT !.pc = to]]
    BY <1>9 DEF ExportReadFails, ExportWorkerDies, SetJob
  <2> DEFINE q == [J EXCEPT !.pc = to]
  <2>2. JobTyped(q) /\ q.st = J.st /\ q.pc = to /\ q.path = J.path
    BY <1>1 DEF JobTyped
  <2>3. J.st # "completed"
    BY <1>9, AtWork DEF ExportReadFails, ExportWorkerDies
  <2>4. exJobs' = [exJobs EXCEPT ![j] = q]
    BY <2>1
  <2> HIDE DEF q
  <2> QED
    BY <1>2, <2>1, <2>2, <2>3, <2>4, JobMoves
<1>10. CASE CancelExport(j) \/ DeleteExport(j)
  <2>1. PICK q : /\ exJobs' = [exJobs EXCEPT ![j] = q] /\ JobTyped(q)
                 /\ q.st # "completed" /\ q.pc = J.pc /\ q.path = J.path
    <3> DEFINE c == [J EXCEPT !.st = "cancelled", !.done = exClock]
               d == [J EXCEPT !.st = "deleted"]
    <3>1. JobTyped(c) /\ c.st = "cancelled" /\ c.pc = J.pc /\ c.path = J.path
      BY <1>1 DEF JobTyped
    <3>2. JobTyped(d) /\ d.st = "deleted" /\ d.pc = J.pc /\ d.path = J.path
      BY <1>1 DEF JobTyped
    <3>3. exJobs' = [exJobs EXCEPT ![j] = c] \/ exJobs' = [exJobs EXCEPT ![j] = d]
      BY <1>10 DEF CancelExport, DeleteExport, SetJob
    <3> HIDE DEF c, d
    <3> QED BY <3>1, <3>2, <3>3
  <2> QED
    BY <1>2, <2>1, JobMoves
<1> QED
  BY <1>4, <1>5, <1>6, <1>7, <1>8, <1>9, <1>10

\* The file of this second is opened: whose it was is torn, and so is whoever opens it now.
LEMMA ExportOpens == ASSUME ExportInv, NEW j \in ExportJobs, OpenExportFile(j) PROVE ExportInv'
<1> DEFINE J == exJobs[j]
           q == [J EXCEPT !.pc = "write", !.path = exClock]
<1>1. JobTyped(J) /\ exClock \in Nat /\ exClock # NoPath /\ J.pc = "create" /\ J.st # "completed"
  BY AtWork DEF OpenExportFile, ExportInv, ExportTypes, NoPath
<1>2. JobTyped(q) /\ q.st = J.st /\ q.pc = "write" /\ q.path = exClock
  BY <1>1 DEF JobTyped
<1>3. exJobs' = [exJobs EXCEPT ![j] = q] /\ UNCHANGED <<exClock, exGot>>
  BY DEF OpenExportFile, SetJob
<1> HIDE DEF q
<1>4. /\ DOMAIN exJobs' = ExportJobs /\ \A i \in ExportJobs : i # j => exJobs'[i] = exJobs[i]
      /\ exJobs'[j] = q
  BY <1>3 DEF ExportInv, ExportTypes
<1>5. /\ DOMAIN exFiles' = DOMAIN exFiles \cup {exClock} /\ exFiles'[exClock].job = j
      /\ \A p \in DOMAIN exFiles : p # exClock => exFiles'[p] = exFiles[p]
  <2>1. [NoFile EXCEPT !.job = j].job = j
    BY DEF NoFile
  <2> QED BY <2>1 DEF OpenExportFile
<1>6. exTorn' = IF exClock \in DOMAIN exFiles THEN exTorn \cup {j, exFiles[exClock].job} ELSE exTorn
  BY DEF OpenExportFile
<1>7. ASSUME NEW i \in ExportJobs, i # j, exJobs[i].path = exClock PROVE {i, j} \subseteq exTorn'
  BY <1>6, <1>7 DEF ExportInv, FreshStays, OwnFile
<1>8. ExportTypes'
  BY <1>1, <1>2, <1>3, <1>4, <1>5 DEF ExportInv, ExportTypes, JobTyped
<1>9. PathsPast'
  <2>1. exClock <= exClock
    BY <1>1
  <2> QED BY <1>1, <1>2, <1>3, <1>4, <2>1 DEF ExportInv, PathsPast
<1>10. FreshStays'
  BY <1>3, <1>5 DEF FreshStays
<1>11. Alone'
  BY <1>2, <1>3, <1>4, <1>6, <1>7 DEF ExportInv, Alone, NoPath
<1>12. ASSUME NEW i \in ExportJobs PROVE OwnFile(i)'
  <2>1. CASE i = j
    BY <1>1, <1>2, <1>4, <1>5, <2>1 DEF OwnFile
  <2>2. CASE i # j
    BY <1>4, <1>5, <1>6, <1>7, <2>2 DEF ExportInv, OwnFile
  <2> QED BY <2>1, <2>2
<1>13. DownloadIsOwn'
  BY <1>3, <1>6 DEF ExportInv, DownloadIsOwn
<1> QED
  BY <1>8, <1>9, <1>10, <1>11, <1>12, <1>13 DEF ExportInv

\* A job writes its own file: the others of that path are torn.
LEMMA ExportWrites == ASSUME ExportInv, NEW j \in ExportJobs, writeJSONExport(j) PROVE ExportInv'
<1> DEFINE J == exJobs[j]
<1>1. JobTyped(J) /\ J.pc = "write" /\ J.st # "completed"
  BY AtWork DEF writeJSONExport, ExportInv, ExportTypes
<1>2. PICK to \in {"mark", "fail"} : exJobs' = [exJobs EXCEPT ![j] = [J EXCEPT !.pc = to]]
  BY DEF writeJSONExport, SetJob
<1>3. PICK p \in Nat : p = J.path
  BY <1>1 DEF JobTyped, ExportInv, PathsPast
<1>4. PICK f : /\ exFiles' = [x \in DOMAIN exFiles \cup {p} |-> IF x = p THEN f ELSE exFiles[x]]
               /\ f.job = j /\ (to = "mark" => f.whole \/ j \in exTorn')
  <2> DEFINE b == buildJSONDoc(j)
             c == [b EXCEPT !.whole = FALSE]
             Writes(f) == exFiles' = [x \in DOMAIN exFiles \cup {p} |-> IF x = p THEN f ELSE exFiles[x]]
  <2>1. b.job = j /\ b.whole = TRUE /\ c.job = j
    BY DEF buildJSONDoc
  <2>2. \/ Writes(b)
        \/ Writes(c) /\ exJobs' = [exJobs EXCEPT ![j] = [J EXCEPT !.pc = "fail"]]
        \/ Writes(c) /\ j \in exTorn'
    BY <1>3 DEF writeJSONExport, SetJob
  <2>3. exJobs' = [exJobs EXCEPT ![j] = [J EXCEPT !.pc = "fail"]] => to = "fail"
    <3>1. [J EXCEPT !.pc = "fail"].pc = "fail" /\ [J EXCEPT !.pc = to].pc = to
      BY <1>1 DEF JobTyped
    <3>2. exJobs'[j] = [J EXCEPT !.pc = to]
      BY <1>2 DEF ExportInv, ExportTypes
    <3> QED BY <3>1, <3>2 DEF ExportInv, ExportTypes
  <2> HIDE DEF b, c
  <2> QED BY <2>1, <2>2, <2>3
<1>5. exTorn \subseteq exTorn' /\ UNCHANGED <<exClock, exGot>>
  BY DEF writeJSONExport
<1> DEFINE q == [J EXCEPT !.pc = to]
<1>6. JobTyped(q) /\ q.st = J.st /\ q.pc = to /\ q.path = p /\ q.done = J.done
  BY <1>1, <1>3 DEF JobTyped
<1>7. exJobs' = [exJobs EXCEPT ![j] = q]
  BY <1>2
<1> HIDE DEF q
<1>8. /\ DOMAIN exJobs' = ExportJobs /\ \A i \in ExportJobs : i # j => exJobs'[i] = exJobs[i]
      /\ exJobs'[j] = q
  BY <1>7 DEF ExportInv, ExportTypes
<1>9. /\ DOMAIN exFiles' = DOMAIN exFiles \cup {p} /\ exFiles'[p] = f
      /\ \A x \in DOMAIN exFiles : x # p => exFiles'[x] = exFiles[x]
  BY <1>4
<1>10. \A i \in ExportJobs : exJobs'[i].path = exJobs[i].path
  BY <1>3, <1>6, <1>8
<1>11. ExportTypes'
  BY <1>5, <1>6, <1>8, <1>9 DEF ExportInv, ExportTypes, JobTyped, NoPath
<1>12. PathsPast'
  BY <1>1, <1>3, <1>5, <1>6, <1>8 DEF ExportInv, PathsPast, NoPath
<1>13. FreshStays'
  BY <1>5, <1>9, <1>10 DEF ExportInv, FreshStays
<1>14. Alone'
  BY <1>5, <1>10 DEF ExportInv, Alone, NoPath
<1>15. ASSUME NEW i \in ExportJobs PROVE OwnFile(i)'
  <2>1. CASE i = j
    BY <1>1, <1>4, <1>6, <1>8, <1>9, <2>1 DEF OwnFile
  <2>2. CASE i # j
    <3>1. exJobs[i].path = p => i \in exTorn
      BY <1>3, <2>2 DEF ExportInv, Alone, NoPath
    <3> QED
      BY <1>5, <1>8, <1>9, <2>2, <3>1 DEF ExportInv, OwnFile
  <2> QED BY <2>1, <2>2
<1>16. DownloadIsOwn'
  BY <1>5 DEF ExportInv, DownloadIsOwn
<1> QED
  BY <1>11, <1>12, <1>13, <1>14, <1>15, <1>16 DEF ExportInv

\* Files of jobs that are done go, long after the second they are named for.
LEMMA FilesGo ==
  ASSUME ExportInv, NEW old, old \subseteq ExportJobs,
         \A j \in old : exJobs[j].st = "completed" /\ exJobs[j].path # NoPath /\ Expired(j),
         exFiles' = Restrict(exFiles, DOMAIN exFiles \ {exJobs[j].path : j \in old}),
         DOMAIN exJobs' = ExportJobs,
         \A j \in ExportJobs : \/ exJobs'[j] = exJobs[j]
                              \/ /\ JobTyped(exJobs'[j]) /\ exJobs'[j].st = exJobs[j].st /\ exJobs'[j].pc = "idle"
                                 /\ exJobs'[j].path = NoPath,
         UNCHANGED <<exClock, exTorn, exGot>>
  PROVE  ExportInv'
<1>1. /\ DOMAIN exFiles' = DOMAIN exFiles \ {exJobs[j].path : j \in old}
      /\ \A x \in DOMAIN exFiles' : exFiles'[x] = exFiles[x]
  BY DEF Restrict
<1>2. NoPath \notin Nat /\ NoPath <= exClock /\ exClock \in Nat /\ NoPath' = NoPath /\ DOMAIN exFiles \subseteq Nat
  BY DEF NoPath, ExportInv, ExportTypes
<1>3. ExportTypes'
  BY <1>1 DEF ExportInv, ExportTypes, JobTyped, NoPath
<1>4. PathsPast'
  BY <1>2 DEF ExportInv, PathsPast
<1>5. FreshStays'
  <2>1. \A j \in old : exJobs[j].path # exClock
    <3> SUFFICES ASSUME NEW j \in old PROVE exJobs[j].path # exClock
      OBVIOUS
    <3>1. /\ exJobs[j].path \in Nat /\ exJobs[j].done \in Int /\ FileAge \in Nat
          /\ exJobs[j].path <= exJobs[j].done /\ exClock > exJobs[j].done + FileAge
      BY ExportsAssumption DEF ExportInv, ExportTypes, JobTyped, PathsPast, Expired
    <3> QED BY <1>2, <3>1
  <2> QED
    BY <1>1, <1>2, <2>1 DEF ExportInv, FreshStays
<1>6. Alone'
  BY <1>2 DEF ExportInv, Alone
<1>7. ASSUME NEW i \in ExportJobs PROVE OwnFile(i)'
  BY <1>1, <1>2 DEF ExportInv, OwnFile
<1>8. DownloadIsOwn'
  BY DEF ExportInv, DownloadIsOwn
<1> QED
  BY <1>3, <1>4, <1>5, <1>6, <1>7, <1>8 DEF ExportInv

LEMMA ExportFilesStep ==
  ASSUME ExportInv, CleanupExports \/ \E j \in ExportJobs : HandleDownload(j)
  PROVE  ExportInv'
<1>1. CASE CleanupExports
  <2> DEFINE old == {j \in ExportJobs : exJobs[j].st = "completed" /\ exJobs[j].path # NoPath /\ Expired(j)}
  <2>1. /\ exFiles' = Restrict(exFiles, DOMAIN exFiles \ {exJobs[j].path : j \in old})
        /\ exJobs' = [j \in ExportJobs |-> IF j \in old THEN [exJobs[j] EXCEPT !.path = NoPath] ELSE exJobs[j]]
        /\ UNCHANGED <<exClock, exTorn, exGot>>
    BY <1>1 DEF CleanupExports
  <2>2. ASSUME NEW j \in old
        PROVE  /\ JobTyped(exJobs'[j]) /\ exJobs'[j].st = exJobs[j].st /\ exJobs'[j].pc = "idle"
               /\ exJobs'[j].path = NoPath
    <3>1. JobTyped(exJobs[j]) /\ exJobs[j].pc = "idle"
      BY DEF ExportInv, ExportTypes, PathsPast
    <3>2. exJobs'[j] = [exJobs[j] EXCEPT !.path = NoPath]
      BY <2>1
    <3> QED BY <3>1, <3>2 DEF JobTyped
  <2>3. \A j \in ExportJobs \ old : exJobs'[j] = exJobs[j]
    BY <2>1
  <2>4. DOMAIN exJobs' = ExportJobs /\ old \subseteq ExportJobs
    BY <2>1
  <2>5. \A j \in old : exJobs[j].st = "completed" /\ exJobs[j].path # NoPath /\ Expired(j)
    OBVIOUS
  <2> HIDE DEF old
  <2> QED
    BY <2>1, <2>2, <2>3, <2>4, <2>5, FilesGo
<1>2. ASSUME NEW j \in ExportJobs, HandleDownload(j) PROVE ExportInv'
  <2>1. /\ exJobs[j].st = "completed" /\ exJobs[j].path \in DOMAIN exFiles
        /\ UNCHANGED <<exJobs, exClock, exTorn>> /\ DOMAIN exJobs = ExportJobs /\ exJobs[j].path # NoPath
    BY <1>2 DEF HandleDownload, ExportInv, ExportTypes, NoPath
  <2>2. CASE Expired(j)
    <3>1. exFiles' = Restrict(exFiles, DOMAIN exFiles \ {exJobs[i].path : i \in {j}}) /\ UNCHANGED exGot
      <4>1. {exJobs[i].path : i \in {j}} = {exJobs[j].path}
        OBVIOUS
      <4> QED BY <1>2, <2>2, <4>1 DEF HandleDownload
    <3> DEFINE old == {j}
    <3>2. old \subseteq ExportJobs /\ \A i \in old : exJobs[i].st = "completed" /\ exJobs[i].path # NoPath /\ Expired(i)
      BY <2>1, <2>2
    <3>3. exFiles' = Restrict(exFiles, DOMAIN exFiles \ {exJobs[i].path : i \in old})
      BY <3>1
    <3> HIDE DEF old
    <3> QED
      BY <2>1, <3>1, <3>2, <3>3, FilesGo
  <2>3. CASE ~Expired(j)
    <3>1. exGot' = [job |-> j, file |-> exFiles[exJobs[j].path]] /\ UNCHANGED exFiles
      BY <1>2, <2>3 DEF HandleDownload
    <3>2. DownloadIsOwn'
      <4>1. exGot'.job = j /\ exGot'.file = exFiles[exJobs[j].path]
        BY <3>1
      <4> QED
        BY <2>1, <4>1 DEF ExportInv, OwnFile, DownloadIsOwn
    <3> QED
      BY <2>1, <3>1, <3>2 DEF ExportInv, ExportTypes, PathsPast, FreshStays, Alone, OwnFile, JobTyped, NoPath
  <2> QED BY <2>2, <2>3
<1> QED BY <1>1, <1>2

LEMMA ExportAside ==
  ASSUME ExportInv, UNCHANGED <<exJobs, exFiles, exTorn, exGot>>, exClock' \in {exClock, exClock + 1}
  PROVE  ExportInv'
<1>1. exClock \in Nat /\ \A j \in ExportJobs : exJobs[j].path \in Nat \cup {NoPath} /\ exJobs[j].path <= exClock
  BY DEF ExportInv, ExportTypes, JobTyped, PathsPast
<1>2. exClock' \in Nat /\ exClock <= exClock' /\ NoPath \in Int
  BY <1>1 DEF NoPath
<1>3. ExportTypes'
  BY <1>2 DEF ExportInv, ExportTypes, JobTyped, NoPath
<1>4. PathsPast'
  BY <1>1, <1>2 DEF ExportInv, PathsPast, NoPath
<1>5. FreshStays'
  BY <1>1, <1>2 DEF ExportInv, FreshStays
<1> QED
  BY <1>3, <1>4, <1>5 DEF ExportInv, Alone, OwnFile, DownloadIsOwn, NoPath

LEMMA ExportBegins == ExportsInit => ExportInv
<1> SUFFICES ASSUME ExportsInit PROVE ExportInv
  OBVIOUS
<1>1. JobTyped(NoExport) /\ NoExport.st = "none" /\ NoExport.pc = "idle" /\ NoExport.path = NoPath
  BY DEF NoExport, JobTyped
<1>2. DOMAIN exJobs = ExportJobs /\ \A j \in ExportJobs : exJobs[j] = NoExport
  BY DEF ExportsInit
<1>3. DOMAIN exFiles = {} /\ exClock = 0 /\ exGot.job = 0
  BY DEF ExportsInit
<1> HIDE DEF NoExport
<1> QED
  BY <1>1, <1>2, <1>3
  DEF ExportInv, ExportTypes, PathsPast, FreshStays, Alone, OwnFile, DownloadIsOwn, NoPath

LEMMA ExportInvStep == ExportInv /\ [ExportsNext]_exportVars => ExportInv'
<1> SUFFICES ASSUME ExportInv, [ExportsNext]_exportVars PROVE ExportInv'
  OBVIOUS
<1>1. ASSUME NEW j \in ExportJobs, ExportStep(j) PROVE ExportInv'
  BY <1>1, ExportSteps, ExportOpens, ExportWrites, ExportFilesStep DEF ExportStep
<1>2. CASE CleanupExports
  BY <1>2, ExportFilesStep
<1>3. CASE ExportTick \/ \E L \in Libraries : EditLibrary(L)
  BY <1>3, ExportAside DEF ExportTick, EditLibrary
<1>4. CASE ImportStep
  BY <1>4, ExportAside DEF ImportStep, HandleImport, BeginItem, FinishItem, applyImportedPools, sourceVars
<1>5. CASE UNCHANGED exportVars
  BY <1>5, ExportAside DEF exportVars
<1> QED
  BY <1>1, <1>2, <1>3, <1>4, <1>5 DEF ExportsNext

\* A download is the whole document of the job it was asked for, unless another export of
\* the user opened the file of that second or its close failed: however long jobs take, are
\* cancelled or deleted, and however often files are removed (HandleDownload).
THEOREM DownloadsAreOwn == ExportsSpec => []DownloadIsOwn
<1>1. ExportInv => DownloadIsOwn
  BY DEF ExportInv
<1> QED BY <1>1, ExportBegins, ExportInvStep, PTL DEF ExportsSpec

---------------------------------------------------------------------------
(* A library that goes through a file. *)

\* A document that is not mixed says what the library it remembers said.
Faithful(d) == d.calm # Mixed => d.calm \in Libraries /\ d.games = d.calm.games /\ d.pools = d.calm.pools

\* The games before their copies and tags are read.
Bare(games) == [g \in DOMAIN games |-> [games[g] EXCEPT !.rows = <<>>, !.tags = {}]]

\* What a worker at pc has read is what the library said that it remembers.
ReadSoFar(pc, d) ==
  /\ DOMAIN d = {"games", "pools", "calm"}
  /\ pc = "relations" => d.calm \in Libraries /\ d.games = Bare(d.calm.games)
  /\ pc = "pools" => (d.calm # Mixed => d.calm \in Libraries /\ d.games = d.calm.games)
  /\ pc \in {"create", "write"} => Faithful(d)

DocsFaithful ==
  /\ exLib \in Libraries
  /\ \A j \in ExportJobs : ReadSoFar(exJobs[j].pc, exJobs[j].doc)
  /\ \A p \in DOMAIN exFiles : Faithful(exFiles[p].doc)
  /\ Faithful(exGot.file.doc)

LEMMA NothingFaithful == Faithful(EmptyDoc) /\ ReadSoFar("idle", EmptyDoc) /\ ReadSoFar("queued", EmptyDoc)
BY DEF Faithful, ReadSoFar, EmptyDoc

\* A record with two fields taken away and put back.
LEMMA PutBack ==
  ASSUME NEW r, r = [status |-> r.status, wish |-> r.wish, rows |-> r.rows, tags |-> r.tags]
  PROVE  [[r EXCEPT !.rows = <<>>, !.tags = {}] EXCEPT !.rows = r.rows, !.tags = r.tags] = r
<1> DEFINE s == [status |-> r.status, wish |-> r.wish, rows |-> r.rows, tags |-> r.tags]
<1>1. [[s EXCEPT !.rows = <<>>, !.tags = {}] EXCEPT !.rows = r.rows, !.tags = r.tags] = s
  OBVIOUS
<1> QED BY <1>1

\* The three reads of a worker.
LEMMA ReadsOn ==
  ASSUME DocsFaithful, NEW j \in ExportJobs, JobTyped(exJobs[j]),
         loadUserGames(j) \/ loadRelations(j) \/ loadPoolsForExport(j)
  PROVE  \E to, d : /\ ReadSoFar(to, d)
                    /\ \E from : WorkerStep(j, from, [exJobs[j] EXCEPT !.pc = to, !.doc = d])
<1> DEFINE doc == exJobs[j].doc
<1>0. exLib \in Libraries /\ ReadSoFar(exJobs[j].pc, doc) /\ DOMAIN doc = {"games", "pools", "calm"}
  BY DEF DocsFaithful, ReadSoFar
<1>1. CASE loadUserGames(j)
  <2> DEFINE d == [EmptyDoc EXCEPT !.calm = exLib, !.games = Bare(exLib.games)]
  <2>1. DOMAIN d = {"games", "pools", "calm"} /\ d.calm = exLib /\ d.games = Bare(exLib.games)
    BY DEF EmptyDoc
  <2>2. WorkerStep(j, "games", [exJobs[j] EXCEPT !.pc = "relations", !.doc = d])
    BY <1>1 DEF loadUserGames, Bare
  <2> HIDE DEF d
  <2>3. ReadSoFar("relations", d)
    BY <1>0, <2>1 DEF ReadSoFar
  <2> QED BY <2>2, <2>3
<1>2. CASE loadRelations(j)
  <2> DEFINE g2(g) == IF g \in DOMAIN exLib.games
                        THEN [doc.games[g] EXCEPT !.rows = exLib.games[g].rows, !.tags = exLib.games[g].tags]
                        ELSE doc.games[g]
             games == [g \in DOMAIN doc.games |-> g2(g)]
             calm  == StillCalm(doc)
             d == [doc EXCEPT !.games = games, !.calm = calm]
  <2>1. WorkerStep(j, "relations", [exJobs[j] EXCEPT !.pc = "pools", !.doc = d]) /\ exJobs[j].pc = "relations"
    BY <1>2 DEF loadRelations, WorkerStep
  <2>2. doc.calm \in Libraries /\ doc.games = Bare(doc.calm.games)
    BY <1>0, <2>1 DEF ReadSoFar
  <2>3. ASSUME calm # Mixed  PROVE  calm \in Libraries /\ games = calm.games
    <3>1. calm = exLib /\ doc.calm = exLib
      BY <2>3 DEF StillCalm
    <3>2. DOMAIN doc.games = DOMAIN exLib.games
      BY <2>2, <3>1 DEF Bare
    <3>3. exLib.games = [g \in DOMAIN exLib.games |->
             LET r == exLib.games[g]
             IN  [status |-> r.status, wish |-> r.wish, rows |-> r.rows, tags |-> r.tags]]
      BY <1>0, ExportsAssumption DEF ExportsAssumption
    <3>4. ASSUME NEW g \in DOMAIN exLib.games  PROVE  games[g] = exLib.games[g]
      <4> DEFINE r == exLib.games[g]
      <4>1. r = [status |-> r.status, wish |-> r.wish, rows |-> r.rows, tags |-> r.tags]
        BY <3>3
      <4>2. doc.games[g] = [r EXCEPT !.rows = <<>>, !.tags = {}]
        BY <2>2, <3>1 DEF Bare
      <4>3. games[g] = [[r EXCEPT !.rows = <<>>, !.tags = {}] EXCEPT !.rows = r.rows, !.tags = r.tags]
        BY <3>2, <4>2
      <4> HIDE DEF games, r
      <4> QED BY <4>1, <4>3, PutBack DEF r
    <3>5. games = [g \in DOMAIN exLib.games |-> exLib.games[g]]
      BY <3>2, <3>4
    <3>6. exLib.games = [g \in DOMAIN exLib.games |-> exLib.games[g]]
      BY <3>3
    <3> QED BY <1>0, <3>1, <3>5, <3>6
  <2> HIDE DEF games, calm
  <2>4. DOMAIN d = {"games", "pools", "calm"} /\ d.calm = calm /\ d.games = games
    BY <1>0
  <2> HIDE DEF d
  <2>5. ReadSoFar("pools", d)
    BY <2>3, <2>4 DEF ReadSoFar
  <2> QED BY <2>1, <2>5
<1>3. CASE loadPoolsForExport(j)
  <2> DEFINE calm == StillCalm(doc)
             d == [doc EXCEPT !.pools = exLib.pools, !.calm = calm]
  <2>1. WorkerStep(j, "pools", [exJobs[j] EXCEPT !.pc = "create", !.doc = d]) /\ exJobs[j].pc = "pools"
    BY <1>3 DEF loadPoolsForExport, WorkerStep
  <2>2. doc.calm # Mixed => doc.calm \in Libraries /\ doc.games = doc.calm.games
    BY <1>0, <2>1 DEF ReadSoFar
  <2>3. calm = (IF doc.calm = exLib THEN exLib ELSE Mixed)
    BY DEF StillCalm
  <2> HIDE DEF calm
  <2>4. DOMAIN d = {"games", "pools", "calm"} /\ d.calm = calm /\ d.games = doc.games /\ d.pools = exLib.pools
    BY <1>0
  <2> HIDE DEF d
  <2>5. ReadSoFar("create", d)
    BY <2>2, <2>3, <2>4 DEF ReadSoFar, Faithful
  <2> QED BY <2>1, <2>5
<1> QED BY <1>1, <1>2, <1>3

\* A worker writes what it has read, unless the row is gone, where only the status is kept.
LEMMA WorkerReads ==
  ASSUME NEW j, NEW from, NEW r, JobTyped(r), WorkerStep(j, from, r)
  PROVE  \E q : exJobs' = [exJobs EXCEPT ![j] = q] /\ q.pc = r.pc /\ q.doc = r.doc
<1> DEFINE q == [r EXCEPT !.st = "deleted"]
<1>1. q.pc = r.pc /\ q.doc = r.doc
  BY DEF JobTyped
<1> HIDE DEF q
<1> QED BY <1>1 DEF WorkerStep, SetJob, q

LEMMA JobReads ==
  ASSUME DocsFaithful, ExportTypes, NEW j \in ExportJobs, NEW q, exJobs' = [exJobs EXCEPT ![j] = q],
         ReadSoFar(q.pc, q.doc),
         exLib' \in Libraries, UNCHANGED <<exFiles, exGot>>
  PROVE  DocsFaithful'
<1>1. \A i \in ExportJobs : exJobs'[i] = IF i = j THEN q ELSE exJobs[i]
  BY DEF ExportTypes
<1>2. ASSUME NEW i \in ExportJobs  PROVE  ReadSoFar(exJobs'[i].pc, exJobs'[i].doc)
  BY <1>1 DEF DocsFaithful
<1> QED BY <1>2 DEF DocsFaithful, ReadSoFar, Faithful, EmptyDoc

LEMMA ReadSteps ==
  ASSUME DocsFaithful, ExportTypes, NEW j \in ExportJobs,
         \/ handleExport(j) \/ loadAndStartJob(j) \/ loadUserGames(j) \/ loadRelations(j)
         \/ loadPoolsForExport(j) \/ markJobCompleted(j) \/ markJobFailed(j)
         \/ ExportReadFails(j) \/ ExportWorkerDies(j) \/ CancelExport(j) \/ DeleteExport(j)
  PROVE  DocsFaithful'
<1> DEFINE J == exJobs[j]
<1>1. JobTyped(J) /\ ReadSoFar(J.pc, J.doc) /\ exLib \in Libraries
  BY DEF ExportTypes, DocsFaithful
<1>2. UNCHANGED <<exLib, exFiles, exGot>>
  BY DEF handleExport, loadAndStartJob, loadUserGames, loadRelations, loadPoolsForExport, markJobCompleted,
         markJobFailed, ExportReadFails, ExportWorkerDies, CancelExport, DeleteExport, Reads
<1>3. \A pc \in {"idle", "queued", "games", "mark", "fail"} : ReadSoFar(pc, J.doc)
  BY <1>1 DEF ReadSoFar
<1>4. ASSUME NEW from, NEW r, JobTyped(r), ReadSoFar(r.pc, r.doc), WorkerStep(j, from, r)
      PROVE  DocsFaithful'
  BY <1>1, <1>2, <1>4, WorkerReads, JobReads
<1>5. CASE handleExport(j)
  <2>1. \E q \in {[NoExport EXCEPT !.st = "pending", !.pc = "queued"], [NoExport EXCEPT !.st = "pending"]} :
           exJobs' = [exJobs EXCEPT ![j] = q]
    BY <1>5 DEF handleExport, SetJob
  <2>2. \A q \in {[NoExport EXCEPT !.st = "pending", !.pc = "queued"], [NoExport EXCEPT !.st = "pending"]} :
           q.pc \in {"queued", "idle"} /\ q.doc = EmptyDoc
    BY DEF NoExport
  <2>3. PICK q : exJobs' = [exJobs EXCEPT ![j] = q] /\ q.pc \in {"queued", "idle"} /\ q.doc = EmptyDoc
    BY <2>1, <2>2
  <2>4. ReadSoFar(q.pc, q.doc)
    BY <2>3, NothingFaithful
  <2> QED BY <1>1, <1>2, <2>3, <2>4, JobReads
<1>6. CASE loadUserGames(j) \/ loadRelations(j) \/ loadPoolsForExport(j)
  <2>1. PICK to, d, from : ReadSoFar(to, d) /\ WorkerStep(j, from, [J EXCEPT !.pc = to, !.doc = d])
    BY <1>1, <1>6, ReadsOn
  <2> DEFINE r == [J EXCEPT !.pc = to, !.doc = d]
  <2>2. JobTyped(r) /\ r.pc = to /\ r.doc = d
    BY <1>1 DEF JobTyped
  <2> HIDE DEF r
  <2> QED BY <1>4, <2>1, <2>2 DEF r
<1>7. CASE loadAndStartJob(j) \/ markJobCompleted(j) \/ markJobFailed(j)
  <2> DEFINE R == {[J EXCEPT !.st = "processing", !.pc = "games"], [J EXCEPT !.pc = "idle"],
                   [J EXCEPT !.st = "completed", !.pc = "idle", !.done = exClock],
                   [J EXCEPT !.st = "failed", !.pc = "idle", !.path = NoPath, !.done = exClock]}
  <2>0. exClock \in Nat /\ exClock \in Int
    BY DEF ExportTypes
  <2>1. \A r \in R : r.pc \in {"idle", "games"} /\ r.doc = J.doc /\ JobTyped(r)
    BY <1>1, <2>0 DEF JobTyped
  <2>2. \E from : \E r \in R : WorkerStep(j, from, r)
    BY <1>7 DEF loadAndStartJob, markJobCompleted, markJobFailed
  <2> HIDE DEF R
  <2> QED BY <1>3, <1>4, <2>1, <2>2
<1>8. CASE ExportReadFails(j) \/ ExportWorkerDies(j) \/ CancelExport(j) \/ DeleteExport(j)
  <2> DEFINE R == {[J EXCEPT !.pc = "fail"], [J EXCEPT !.pc = "idle"],
                   [J EXCEPT !.st = "cancelled", !.done = exClock], [J EXCEPT !.st = "deleted"]}
  <2>1. \A r \in R : r.pc \in {"idle", "fail", J.pc} /\ r.doc = J.doc
    BY <1>1 DEF JobTyped
  <2>2. \E r \in R : exJobs' = [exJobs EXCEPT ![j] = r]
    BY <1>8 DEF ExportReadFails, ExportWorkerDies, CancelExport, DeleteExport, SetJob
  <2> HIDE DEF R
  <2>3. PICK r : exJobs' = [exJobs EXCEPT ![j] = r] /\ r.pc \in {"idle", "fail", J.pc} /\ r.doc = J.doc
    BY <2>1, <2>2
  <2>4. ReadSoFar(r.pc, r.doc)
    BY <1>1, <1>3, <2>3
  <2> QED BY <1>1, <1>2, <2>3, <2>4, JobReads
<1> QED BY <1>5, <1>6, <1>7, <1>8

LEMMA FileSteps ==
  ASSUME DocsFaithful, ExportTypes, NEW j \in ExportJobs,
         OpenExportFile(j) \/ writeJSONExport(j) \/ HandleDownload(j)
  PROVE  DocsFaithful'
<1> DEFINE J == exJobs[j]
<1>1. JobTyped(J) /\ ReadSoFar(J.pc, J.doc) /\ exLib' = exLib
  BY DEF ExportTypes, DocsFaithful, OpenExportFile, writeJSONExport, HandleDownload
<1>2. ASSUME NEW to, ReadSoFar(to, J.doc), NEW q, exJobs' = [exJobs EXCEPT ![j] = q], q.pc = to, q.doc = J.doc,
             \A p \in DOMAIN exFiles' : \/ p \in DOMAIN exFiles /\ exFiles'[p] = exFiles[p]
                                       \/ Faithful(exFiles'[p].doc),
             exGot' = exGot
      PROVE  DocsFaithful'
  <2>1. \A i \in ExportJobs : exJobs'[i] = IF i = j THEN q ELSE exJobs[i]
    BY <1>2 DEF ExportTypes
  <2>2. ASSUME NEW i \in ExportJobs  PROVE  ReadSoFar(exJobs'[i].pc, exJobs'[i].doc)
    BY <1>2, <2>1 DEF DocsFaithful
  <2>3. \A p \in DOMAIN exFiles' : Faithful(exFiles'[p].doc)
    BY <1>2 DEF DocsFaithful
  <2> QED BY <1>1, <1>2, <2>2, <2>3 DEF DocsFaithful, ReadSoFar, Faithful
<1>3. CASE OpenExportFile(j)
  <2> DEFINE q == [J EXCEPT !.pc = "write", !.path = exClock]
             f == [NoFile EXCEPT !.job = j]
  <2>1. q.pc = "write" /\ q.doc = J.doc /\ f.doc = EmptyDoc
    BY <1>1 DEF JobTyped, NoFile
  <2>2. J.pc = "create" /\ exJobs' = [exJobs EXCEPT ![j] = q] /\ exGot' = exGot
        /\ exFiles' = [p \in DOMAIN exFiles \cup {exClock} |-> IF p = exClock THEN f ELSE exFiles[p]]
    BY <1>3 DEF OpenExportFile, SetJob
  <2> HIDE DEF q, f
  <2>3. ReadSoFar("write", J.doc)
    BY <1>1, <2>2 DEF ReadSoFar
  <2> QED BY <1>2, <2>1, <2>2, <2>3, NothingFaithful
<1>4. CASE writeJSONExport(j)
  <2> DEFINE b == buildJSONDoc(j)
             F == {b, [b EXCEPT !.whole = FALSE]}
             Q == {[J EXCEPT !.pc = "mark"], [J EXCEPT !.pc = "fail"]}
             p == J.path
  <2>1. /\ \A f \in F : f.doc = J.doc
        /\ \A q \in Q : q.pc \in {"mark", "fail"} /\ q.doc = J.doc
    BY <1>1 DEF JobTyped, buildJSONDoc
  <2>2. /\ \E q \in Q : exJobs' = [exJobs EXCEPT ![j] = q]
        /\ \E f \in F : exFiles' = [x \in DOMAIN exFiles \cup {p} |-> IF x = p THEN f ELSE exFiles[x]]
    BY <1>4 DEF writeJSONExport, SetJob
  <2>3. J.pc = "write" /\ exGot' = exGot
    BY <1>4 DEF writeJSONExport
  <2> HIDE DEF F, Q
  <2>4. PICK q, f : /\ exJobs' = [exJobs EXCEPT ![j] = q] /\ q.pc \in {"mark", "fail"} /\ q.doc = J.doc
                    /\ exFiles' = [x \in DOMAIN exFiles \cup {p} |-> IF x = p THEN f ELSE exFiles[x]]
                    /\ f.doc = J.doc
    BY <2>1, <2>2
  <2>5. Faithful(J.doc) /\ ReadSoFar(q.pc, J.doc)
    BY <1>1, <2>3, <2>4 DEF ReadSoFar
  <2>6. \A x \in DOMAIN exFiles' : (x \in DOMAIN exFiles /\ exFiles'[x] = exFiles[x]) \/ Faithful(exFiles'[x].doc)
    BY <2>4, <2>5
  <2> QED BY <1>2, <2>3, <2>4, <2>5, <2>6
<1>5. CASE HandleDownload(j)
  <2>1. CASE Expired(j)
    <3>1. exFiles' = Restrict(exFiles, DOMAIN exFiles \ {J.path}) /\ UNCHANGED <<exJobs, exGot>>
      BY <1>5, <2>1 DEF HandleDownload
    <3>2. \A p \in DOMAIN exFiles' : p \in DOMAIN exFiles /\ exFiles'[p] = exFiles[p]
      BY <3>1 DEF Restrict
    <3> QED BY <1>1, <3>1, <3>2 DEF DocsFaithful, ReadSoFar, Faithful
  <2>2. CASE ~Expired(j)
    <3>1. exGot' = [job |-> j, file |-> exFiles[J.path]] /\ J.path \in DOMAIN exFiles /\ UNCHANGED <<exJobs, exFiles>>
      BY <1>5, <2>2 DEF HandleDownload
    <3> QED BY <1>1, <3>1 DEF DocsFaithful, ReadSoFar, Faithful
  <2> QED BY <2>1, <2>2
<1> QED BY <1>3, <1>4, <1>5

\* An item that a worker has is left, and no other worker has it.
ItemsOpen ==
  /\ DOMAIN exItems = ImportWorkers
  /\ \A w \in ImportWorkers : exItems[w].pc = "open" =>
        /\ exItems[w].game \in exImport.left
        /\ Folds(exItems[w].linked) = Folds(exImport.doc.games[exItems[w].game].tags)
        /\ \A v \in ImportWorkers : v # w /\ exItems[v].pc = "open" => exItems[v].game # exItems[w].game

\* What has arrived of a library so far.
CopySoFar ==
  LET L == exImport.doc.calm
  IN  exImport.pc = "items" /\ L # Mixed /\ Empty(exImport.from) =>
        /\ exImport.left \subseteq DOMAIN L.games /\ exImport.failed \subseteq DOMAIN L.games
        /\ exImport.left \cap exImport.failed = {}
        /\ DOMAIN exCopy.games = Arrived(L) \ exImport.left
        /\ \A g \in DOMAIN exCopy.games : [exCopy.games[g] EXCEPT !.tags = Folds(@)] = Settled(L.games[g])
        /\ DOMAIN exCopy.pools = {}

ImportShape ==
  /\ DOMAIN exImport = {"pc", "doc", "left", "failed", "from"} /\ Faithful(exImport.doc)
  /\ exCopy = [games |-> exCopy.games, pools |-> exCopy.pools]
  /\ exImport.pc # "items" => exImport.left = {}

RoundInv == ImportShape /\ ItemsOpen /\ CopySoFar /\ RoundTrip

\* The record of a game, and a field of it written.
GameRecord(a, b, c, d) == [status |-> a, wish |-> b, rows |-> c, tags |-> d]
With(r, f, x)          == [r EXCEPT ![f] = x]

LEMMA Fields ==
  ASSUME NEW a, NEW b, NEW c, NEW d, NEW x
  PROVE  /\ With(GameRecord(a, b, c, d), "status", x) = GameRecord(x, b, c, d)
         /\ With(GameRecord(a, b, c, d), "wish", x) = GameRecord(a, x, c, d)
         /\ With(GameRecord(a, b, c, d), "rows", x) = GameRecord(a, b, x, d)
         /\ With(GameRecord(a, b, c, d), "tags", x) = GameRecord(a, b, c, x)
<1>1. With(GameRecord(a, b, c, d), "status", x) = GameRecord(x, b, c, d)
  BY DEF GameRecord, With
<1>2. With(GameRecord(a, b, c, d), "wish", x) = GameRecord(a, x, c, d)
  BY DEF GameRecord, With
<1>3. With(GameRecord(a, b, c, d), "rows", x) = GameRecord(a, b, x, d)
  BY DEF GameRecord, With
<1>4. With(GameRecord(a, b, c, d), "tags", x) = GameRecord(a, b, c, x)
  BY DEF GameRecord, With
<1> QED BY <1>1, <1>2, <1>3, <1>4

LEMMA SettledFields ==
  ASSUME NEW a, NEW b, NEW c, NEW d
  PROVE  SettleRow(GameRecord(a, b, c, d)) =
           GameRecord(IF a = "not_started" /\ \E k \in DOMAIN c : c[k].hours > 0 THEN "in_progress" ELSE a,
                      b /\ DOMAIN c = {}, c, d)
<1> DEFINE r  == GameRecord(a, b, c, d)
           st == IF a = "not_started" /\ \E k \in DOMAIN c : c[k].hours > 0 THEN "in_progress" ELSE a
           w  == b /\ DOMAIN c = {}
<1>1. r.status = a /\ r.wish = b /\ r.rows = c
  BY DEF GameRecord
<1>2. SettleRow(r) = [r EXCEPT !.wish = r.wish /\ DOMAIN r.rows = {},
                               !.status = IF r.status = "not_started" /\ \E k \in DOMAIN r.rows : r.rows[k].hours > 0
                                            THEN "in_progress" ELSE r.status]
  BY DEF SettleRow
<1>3. (r.wish /\ DOMAIN r.rows = {}) = w
  BY <1>1
<1>4. (IF r.status = "not_started" /\ \E k \in DOMAIN r.rows : r.rows[k].hours > 0
         THEN "in_progress" ELSE r.status) = st
  BY <1>1
<1>5. SettleRow(r) = [r EXCEPT !.wish = w, !.status = st]
  <2> HIDE DEF r
  <2> QED BY <1>2, <1>3, <1>4
<1> HIDE DEF st, w
<1>6. [r EXCEPT !.wish = w, !.status = st] = GameRecord(st, w, c, d)
  <2>1. [r EXCEPT !.wish = w, !.status = st] = With(With(r, "wish", w), "status", st)
    <3> HIDE DEF r
    <3> QED BY DEF With
  <2> QED BY <2>1, Fields
<1> QED BY <1>5, <1>6 DEF st, w

\* A game that is new at the destination arrives settled.
LEMMA NewArrives ==
  ASSUME NEW r, r = [status |-> r.status, wish |-> r.wish, rows |-> r.rows, tags |-> r.tags],
         NEW linked, Folds(linked) = Folds(r.tags),
         NEW a, a = SettleRow([[r EXCEPT !.rows = <<>>, !.tags = {}]
                                 EXCEPT !.rows = MergeRows(<<>>, KnownRows(r.rows)), !.tags = {} \cup linked])
  PROVE  [a EXCEPT !.tags = Folds(@)] = Settled(r)
<1> DEFINE K == KnownRows(r.rows)
           st == IF r.status = "not_started" /\ \E k \in DOMAIN K : K[k].hours > 0 THEN "in_progress" ELSE r.status
           w == r.wish /\ DOMAIN K = {}
<1>0. r = GameRecord(r.status, r.wish, r.rows, r.tags)
  BY DEF GameRecord
<1>1. MergeRows(<<>>, K) = K
  <2>1. DOMAIN <<>> = {}
    OBVIOUS
  <2>2. K = [k \in DOMAIN K |-> K[k]]
    BY DEF KnownRows
  <2>3. MergeRows(<<>>, K) = [k \in DOMAIN <<>> \cup DOMAIN K |->
           IF k \notin DOMAIN <<>> THEN K[k]
           ELSE IF k \in DOMAIN K /\ k.storefront # NoStorefront THEN Better(K[k], <<>>[k]) ELSE <<>>[k]]
    BY DEF MergeRows
  <2> HIDE DEF K
  <2>4. MergeRows(<<>>, K) = [k \in DOMAIN K |-> K[k]]
    BY <2>1, <2>3
  <2> QED BY <2>2, <2>4
<1> HIDE DEF K
<1>2. [[r EXCEPT !.rows = <<>>, !.tags = {}] EXCEPT !.rows = K, !.tags = {} \cup linked]
        = GameRecord(r.status, r.wish, K, linked)
  <2> DEFINE q == [r EXCEPT !.rows = <<>>, !.tags = {}]
             e == {} \cup linked
  <2>1. q = With(With(r, "rows", <<>>), "tags", {})
    BY DEF With
  <2>2. q = GameRecord(r.status, r.wish, <<>>, {})
    BY <1>0, <2>1, Fields
  <2>3. e = linked
    OBVIOUS
  <2> HIDE DEF q, e
  <2>4. [q EXCEPT !.rows = K, !.tags = e] = With(With(q, "rows", K), "tags", e)
    BY DEF With
  <2>5. [q EXCEPT !.rows = K, !.tags = e] = GameRecord(r.status, r.wish, K, linked)
    BY <2>2, <2>3, <2>4, Fields
  <2> QED BY <2>5 DEF q, e
<1>3. [r EXCEPT !.rows = K] = GameRecord(r.status, r.wish, K, r.tags)
  <2>1. [r EXCEPT !.rows = K] = With(r, "rows", K)
    BY DEF With
  <2> QED BY <1>0, <2>1, Fields
<1>4. a = GameRecord(st, w, K, linked)
  <2>1. a = SettleRow(GameRecord(r.status, r.wish, K, linked))
    BY <1>1, <1>2 DEF K
  <2> QED BY <2>1, SettledFields
<1>5. SettleRow([r EXCEPT !.rows = K]) = GameRecord(st, w, K, r.tags)
  BY <1>3, SettledFields
<1> HIDE DEF st, w
<1>6. [a EXCEPT !.tags = Folds(@)] = GameRecord(st, w, K, Folds(linked))
  <2>1. a.tags = linked
    BY <1>4 DEF GameRecord
  <2>2. [a EXCEPT !.tags = Folds(@)] = With(a, "tags", Folds(a.tags))
    BY DEF With
  <2>3. With(a, "tags", Folds(a.tags)) = GameRecord(st, w, K, Folds(linked))
    BY <1>4, <2>1, Fields
  <2> QED BY <2>2, <2>3
<1>7. Settled(r) = GameRecord(st, w, K, Folds(r.tags))
  <2> DEFINE q == SettleRow([r EXCEPT !.rows = K])
  <2>1. Settled(r) = [q EXCEPT !.tags = Folds(@)]
    BY DEF Settled, K
  <2>2. q.tags = r.tags
    BY <1>5 DEF GameRecord
  <2> HIDE DEF q
  <2>3. [q EXCEPT !.tags = Folds(@)] = With(q, "tags", Folds(q.tags))
    BY DEF With
  <2>4. q = GameRecord(st, w, K, r.tags)
    BY <1>5 DEF q
  <2> QED BY <2>1, <2>2, <2>3, <2>4, Fields
<1> QED BY <1>6, <1>7

\* New pools are as far apart as pools of the file are between them.
LEMMA PoolsInOrder ==
  ASSUME NEW in, IsFiniteSet(DOMAIN in), \A n \in DOMAIN in : in[n].order \in Nat,
         NEW P, DOMAIN P = {},
         NEW m \in DOMAIN in, NEW n \in DOMAIN in
  PROVE  findOrCreatePool(P, in, m) < findOrCreatePool(P, in, n) <=> in[m].order < in[n].order
<1> DEFINE Under(x) == {k \in DOMAIN in : in[k].order < in[x].order}
<1>1. \A x \in DOMAIN in : findOrCreatePool(P, in, x) = Cardinality(Under(x)) /\ IsFiniteSet(Under(x))
                          /\ Cardinality(Under(x)) \in Nat
  <2> SUFFICES ASSUME NEW x \in DOMAIN in
               PROVE  findOrCreatePool(P, in, x) = Cardinality(Under(x)) /\ IsFiniteSet(Under(x))
                          /\ Cardinality(Under(x)) \in Nat
    OBVIOUS
  <2>1. IsFiniteSet(Under(x)) /\ Cardinality(Under(x)) \in Nat
    BY FS_Subset, FS_CardinalityType
  <2>2. {k \in DOMAIN in \ DOMAIN P : in[k].order < in[x].order} = Under(x)
    OBVIOUS
  <2>3. NewOrder(P) = 0
    BY DEF NewOrder
  <2>4. findOrCreatePool(P, in, x) = NewOrder(P) + Cardinality({k \in DOMAIN in \ DOMAIN P : in[k].order < in[x].order})
    BY DEF findOrCreatePool
  <2>5. findOrCreatePool(P, in, x) = 0 + Cardinality(Under(x))
    <3> HIDE DEF Under
    <3> QED BY <2>2, <2>3, <2>4
  <2> HIDE DEF Under
  <2> QED BY <2>1, <2>5
<1>2. ASSUME NEW x \in DOMAIN in, NEW y \in DOMAIN in, in[x].order < in[y].order
      PROVE  Cardinality(Under(x)) < Cardinality(Under(y))
  <2>1. Under(x) \subseteq Under(y) /\ x \in Under(y) /\ x \notin Under(x)
    BY <1>2
  <2> HIDE DEF Under
  <2> QED BY <1>1, <2>1, FS_Subset
<1>3. ASSUME NEW x \in DOMAIN in, NEW y \in DOMAIN in, ~(in[y].order < in[x].order)
      PROVE  Cardinality(Under(x)) <= Cardinality(Under(y))
  <2>1. Under(x) \subseteq Under(y)
    BY <1>3
  <2> HIDE DEF Under
  <2> QED BY <1>1, <2>1, FS_Subset
<1> HIDE DEF Under
<1> QED BY <1>1, <1>2, <1>3

\* Nothing of the destination is touched.
LEMMA ImportRests == ASSUME RoundInv, UNCHANGED targetVars PROVE RoundInv'
BY DEF RoundInv, ImportShape, ItemsOpen, CopySoFar, RoundTrip, targetVars, Faithful, Empty, Arrived, Mixed, OrderedAs

LEMMA ImportBegins == ASSUME RoundInv, DocsFaithful, HandleImport PROVE RoundInv'
<1> DEFINE d == exGot.file.doc
<1>1. exImport' = [pc |-> "items", doc |-> d, left |-> DOMAIN d.games, failed |-> {}, from |-> exCopy]
      /\ UNCHANGED <<exItems, exCopy>> /\ exImport.pc # "items"
  BY DEF HandleImport
<1>2. Faithful(d) /\ Faithful(d)'
  BY <1>1 DEF DocsFaithful, Faithful, HandleImport, sourceVars
<1> HIDE DEF d
<1>3. /\ exImport'.pc = "items" /\ exImport'.doc = d /\ exImport'.left = DOMAIN d.games
      /\ exImport'.failed = {} /\ exImport'.from = exCopy
      /\ DOMAIN exImport' = {"pc", "doc", "left", "failed", "from"}
  BY <1>1
<1>4. \A w \in ImportWorkers : exItems[w].pc # "open"
  BY <1>1 DEF RoundInv, ImportShape, ItemsOpen
<1>5. ImportShape'
  BY <1>1, <1>2, <1>3 DEF RoundInv, ImportShape, Faithful
<1>6. ItemsOpen'
  BY <1>1, <1>4 DEF RoundInv, ItemsOpen
<1>7. CopySoFar'
  BY <1>1, <1>2, <1>3 DEF CopySoFar, Empty, Faithful, Arrived
<1>8. RoundTrip'
  BY <1>3 DEF RoundTrip
<1> QED BY <1>5, <1>6, <1>7, <1>8 DEF RoundInv

LEMMA ItemBegins ==
  ASSUME RoundInv, NEW w \in ImportWorkers, NEW g \in exImport.left, BeginItem(w, g)
  PROVE  RoundInv'
<1>1. PICK new, linked : /\ exItems' = [exItems EXCEPT ![w] = [pc |-> "open", game |-> g, new |-> new, linked |-> linked]]
                         /\ Folds(linked) = Folds(exImport.doc.games[g].tags)
  BY DEF BeginItem
<1>2. /\ exItems[w].pc = "idle" /\ \A v \in ImportWorkers : exItems[v].pc = "idle" \/ exItems[v].game # g
      /\ UNCHANGED <<exImport, exCopy>>
  BY DEF BeginItem
<1>3. /\ DOMAIN exItems' = ImportWorkers /\ exItems'[w].pc = "open" /\ exItems'[w].game = g /\ exItems'[w].linked = linked
      /\ \A v \in ImportWorkers : v # w => exItems'[v] = exItems[v]
  BY <1>1 DEF RoundInv, ItemsOpen
<1>4. ItemsOpen'
  BY <1>1, <1>2, <1>3 DEF RoundInv, ItemsOpen, Folds
<1> QED
  BY <1>2, <1>4 DEF RoundInv, ImportShape, CopySoFar, RoundTrip, Faithful, Empty, Arrived, Mixed, OrderedAs

LEMMA ItemEnds ==
  ASSUME RoundInv, NEW w \in ImportWorkers, FinishItem(w)
  PROVE  RoundInv'
<1> DEFINE g == exItems[w].game
           linked == exItems[w].linked
           raced == exItems[w].new \cap CopyTags(exCopy) # {}
           L == exImport.doc.calm
           a == AcquireImported(g, linked)
<1>1. /\ exItems[w].pc = "open" /\ exItems' = [exItems EXCEPT ![w] = NoItem]
      /\ exImport' = [exImport EXCEPT !.left = @ \ {g}, !.failed = IF raced THEN @ \cup {g} ELSE @]
      /\ exCopy' = IF raced THEN exCopy
                   ELSE [exCopy EXCEPT !.games = [h \in DOMAIN @ \cup {g} |-> IF h = g THEN a ELSE @[h]]]
  BY DEF FinishItem
<1>2. g \in exImport.left /\ Folds(linked) = Folds(exImport.doc.games[g].tags) /\ exImport.pc = "items"
  BY <1>1 DEF RoundInv, ItemsOpen, ImportShape
<1>3. /\ DOMAIN exItems' = ImportWorkers /\ exItems'[w].pc = "idle"
      /\ \A v \in ImportWorkers : v # w => exItems'[v] = exItems[v]
  BY <1>1 DEF RoundInv, ItemsOpen, NoItem
<1>4. /\ exImport'.pc = exImport.pc /\ exImport'.doc = exImport.doc /\ exImport'.from = exImport.from
      /\ DOMAIN exImport' = DOMAIN exImport /\ exImport'.left = exImport.left \ {g}
      /\ exImport'.failed = IF raced THEN exImport.failed \cup {g} ELSE exImport.failed
  <2> HIDE DEF g, raced
  <2> QED BY <1>1 DEF RoundInv, ImportShape
<1>5. /\ exCopy' = [games |-> exCopy'.games, pools |-> exCopy'.pools] /\ exCopy'.pools = exCopy.pools
      /\ raced => exCopy'.games = exCopy.games
      /\ ~raced => exCopy'.games = [h \in DOMAIN exCopy.games \cup {g} |-> IF h = g THEN a ELSE exCopy.games[h]]
  <2> DEFINE e == [games |-> exCopy.games, pools |-> exCopy.pools]
             G == [h \in DOMAIN exCopy.games \cup {g} |-> IF h = g THEN a ELSE exCopy.games[h]]
  <2>1. exCopy = e
    BY DEF RoundInv, ImportShape
  <2>2. CASE raced
    BY <1>1, <2>1, <2>2
  <2>3. CASE ~raced
    <3>1. exCopy' = [exCopy EXCEPT !.games = G]
      BY <1>1, <2>3
    <3> HIDE DEF G, g, a, raced
    <3>2. [e EXCEPT !.games = G] = [games |-> G, pools |-> exCopy.pools]
      OBVIOUS
    <3>3. exCopy' = [games |-> G, pools |-> exCopy.pools]
      BY <2>1, <3>1, <3>2
    <3> QED BY <2>3, <3>3 DEF G
  <2> QED BY <2>2, <2>3
<1>6. ItemsOpen'
  <2> HIDE DEF linked, raced, a, L
  <2>1. \A v \in ImportWorkers : v # w /\ exItems[v].pc = "open" =>
           exItems[v].game # g /\ exItems[v].game \in exImport.left
    BY <1>1 DEF RoundInv, ItemsOpen
  <2> HIDE DEF g
  <2> QED BY <1>3, <1>4, <2>1 DEF RoundInv, ItemsOpen, Folds
<1>7. ImportShape'
  <2> HIDE DEF linked, raced, a, L, g
  <2> QED BY <1>2, <1>4, <1>5 DEF RoundInv, ImportShape, Faithful
<1>8. CopySoFar'
  <2>1. SUFFICES ASSUME L # Mixed, Empty(exImport.from)
                 PROVE  /\ exImport'.left \subseteq DOMAIN L.games /\ exImport'.failed \subseteq DOMAIN L.games
                        /\ exImport'.left \cap exImport'.failed = {}
                        /\ DOMAIN exCopy'.games = (DOMAIN L.games \ exImport'.failed) \ exImport'.left
                        /\ \A h \in DOMAIN exCopy'.games :
                             [exCopy'.games[h] EXCEPT !.tags = Folds(@)] = Settled(L.games[h])
                        /\ DOMAIN exCopy'.pools = {}
    <3> HIDE DEF linked, raced, a, g
    <3> QED BY <1>4 DEF CopySoFar, Empty, Arrived, Mixed
  <2>2. /\ exImport.left \subseteq DOMAIN L.games /\ exImport.failed \subseteq DOMAIN L.games
        /\ exImport.left \cap exImport.failed = {}
        /\ DOMAIN exCopy.games = (DOMAIN L.games \ exImport.failed) \ exImport.left
        /\ \A h \in DOMAIN exCopy.games : [exCopy.games[h] EXCEPT !.tags = Folds(@)] = Settled(L.games[h])
        /\ DOMAIN exCopy.pools = {}
    BY <1>2, <2>1 DEF RoundInv, CopySoFar, Arrived
  <2>3. g \in DOMAIN L.games /\ g \notin DOMAIN exCopy.games /\ g \notin exImport.failed
    BY <1>2, <2>2
  <2>4. [a EXCEPT !.tags = Folds(@)] = Settled(L.games[g])
    <3> DEFINE r == L.games[g]
    <3>1. L \in Libraries /\ exImport.doc.games = L.games
      BY <2>1 DEF RoundInv, ImportShape, Faithful
    <3>2. L.games = [h \in DOMAIN L.games |->
             LET x == L.games[h]
             IN  [status |-> x.status, wish |-> x.wish, rows |-> x.rows, tags |-> x.tags]]
      BY <3>1, ExportsAssumption DEF ExportsAssumption
    <3>3. r = [status |-> r.status, wish |-> r.wish, rows |-> r.rows, tags |-> r.tags]
      BY <2>3, <3>2
    <3>4. Folds(linked) = Folds(r.tags)
      BY <1>2, <3>1
    <3>5. a = SettleRow([[r EXCEPT !.rows = <<>>, !.tags = {}]
                           EXCEPT !.rows = MergeRows(@, KnownRows(r.rows)), !.tags = @ \cup linked])
      BY <2>3, <3>1 DEF AcquireImported
    <3> DEFINE q == [r EXCEPT !.rows = <<>>, !.tags = {}]
    <3>6. q.rows = <<>> /\ q.tags = {}
      <4> DEFINE p == [status |-> r.status, wish |-> r.wish, rows |-> r.rows, tags |-> r.tags]
      <4>1. [p EXCEPT !.rows = <<>>, !.tags = {}].rows = <<>> /\ [p EXCEPT !.rows = <<>>, !.tags = {}].tags = {}
        OBVIOUS
      <4> HIDE DEF p
      <4> QED BY <3>3, <4>1 DEF p
    <3>7. a = SettleRow([q EXCEPT !.rows = MergeRows(q.rows, KnownRows(r.rows)), !.tags = q.tags \cup linked])
      BY <3>5
    <3>8. a = SettleRow([q EXCEPT !.rows = MergeRows(<<>>, KnownRows(r.rows)), !.tags = {} \cup linked])
      <4> HIDE DEF a, q
      <4> QED BY <3>6, <3>7
    <3> HIDE DEF a, r, linked
    <3> QED BY <3>3, <3>4, <3>8, NewArrives DEF r
  <2> HIDE DEF linked, raced, a, L, g
  <2> QED BY <1>4, <1>5, <2>2, <2>3, <2>4
<1>9. RoundTrip'
  <2> HIDE DEF linked, raced, a, L, g
  <2> QED BY <1>2, <1>4 DEF RoundTrip
<1> QED BY <1>6, <1>7, <1>8, <1>9 DEF RoundInv

LEMMA ImportEnds == ASSUME RoundInv, applyImportedPools PROVE RoundInv'
<1> DEFINE P  == exCopy.pools
           in == exImport.doc.pools
           L  == exImport.doc.calm
           members(n) ==
             LET old == IF n \in DOMAIN P THEN P[n].members ELSE <<>>
                 new == IF n \in DOMAIN in THEN Restrict(in[n].members, DOMAIN in[n].members \cap DOMAIN exCopy.games)
                        ELSE <<>>
             IN  [h \in DOMAIN old \cup DOMAIN new |-> IF h \in DOMAIN old THEN old[h] ELSE new[h]]
           Q == [n \in DOMAIN P \cup DOMAIN in |-> [order |-> findOrCreatePool(P, in, n), members |-> members(n)]]
<1>1. /\ exImport.pc = "items" /\ exImport.left = {}
      /\ exCopy' = [exCopy EXCEPT !.pools = Q] /\ exImport' = [exImport EXCEPT !.pc = "done"] /\ exItems' = exItems
  BY DEF applyImportedPools, NonePending
<1>2. /\ exImport'.pc = "done" /\ exImport'.doc = exImport.doc /\ exImport'.from = exImport.from
      /\ exImport'.left = {} /\ exImport'.failed = exImport.failed /\ DOMAIN exImport' = DOMAIN exImport
  <2> HIDE DEF Q
  <2> QED BY <1>1 DEF RoundInv, ImportShape
<1>3. exCopy' = [games |-> exCopy.games, pools |-> Q]
  <2> DEFINE e == [games |-> exCopy.games, pools |-> exCopy.pools]
  <2>1. exCopy = e
    BY DEF RoundInv, ImportShape
  <2> HIDE DEF Q
  <2>2. [e EXCEPT !.pools = Q] = [games |-> exCopy.games, pools |-> Q]
    OBVIOUS
  <2> QED BY <1>1, <2>1, <2>2
<1>4. ImportShape'
  <2> HIDE DEF Q
  <2> QED BY <1>2, <1>3 DEF RoundInv, ImportShape, Faithful
<1>5. ItemsOpen'
  <2> HIDE DEF Q
  <2>1. \A w \in ImportWorkers : exItems[w].pc # "open"
    BY <1>1 DEF RoundInv, ItemsOpen
  <2> QED BY <1>1, <2>1 DEF RoundInv, ItemsOpen
<1>6. CopySoFar'
  BY <1>2 DEF CopySoFar
<1>7. RoundTrip'
  <2>1. SUFFICES ASSUME L # Mixed, Empty(exImport.from)
                 PROVE  /\ DOMAIN exCopy.games = Arrived(L)
                        /\ \A g \in Arrived(L) : [exCopy.games[g] EXCEPT !.tags = Folds(@)] = Settled(L.games[g])
                        /\ DOMAIN Q = DOMAIN L.pools /\ OrderedAs(Q, L.pools)
                        /\ \A n \in DOMAIN L.pools :
                              Q[n].members = Restrict(L.pools[n].members, DOMAIN L.pools[n].members \cap Arrived(L))
    <3> HIDE DEF Q
    <3>1. exCopy'.games = exCopy.games /\ exCopy'.pools = Q
      BY <1>3
    <3> QED BY <1>2, <3>1 DEF RoundTrip, Empty, Arrived, Mixed, OrderedAs
  <2>2. /\ DOMAIN exCopy.games = Arrived(L) /\ DOMAIN P = {}
        /\ \A g \in Arrived(L) : [exCopy.games[g] EXCEPT !.tags = Folds(@)] = Settled(L.games[g])
    BY <1>1, <2>1 DEF RoundInv, CopySoFar
  <2>3. in = L.pools /\ IsFiniteSet(DOMAIN in) /\ \A n \in DOMAIN in : in[n].order \in Nat
    BY <2>1, ExportsAssumption DEF RoundInv, ImportShape, Faithful, ExportsAssumption
  <2>4. DOMAIN Q = DOMAIN in
    BY <2>2
  <2>5. OrderedAs(Q, in)
    <3>1. \A n \in DOMAIN in : Q[n].order = findOrCreatePool(P, in, n)
      BY <2>2
    <3> HIDE DEF Q, P, in
    <3>2. ASSUME NEW m \in DOMAIN in, NEW n \in DOMAIN in
          PROVE  Q[m].order < Q[n].order <=> in[m].order < in[n].order
      BY <2>2, <2>3, <3>1, PoolsInOrder
    <3> QED BY <2>4, <3>2 DEF OrderedAs
  <2>6. ASSUME NEW n \in DOMAIN in
        PROVE  Q[n].members = Restrict(in[n].members, DOMAIN in[n].members \cap DOMAIN exCopy.games)
    <3> DEFINE R == Restrict(in[n].members, DOMAIN in[n].members \cap DOMAIN exCopy.games)
    <3>1. DOMAIN <<>> = {}
      OBVIOUS
    <3>2. R = [h \in DOMAIN R |-> R[h]]
      BY DEF Restrict
    <3>3. Q[n].members = members(n)
      BY <2>6
    <3>4. n \notin DOMAIN P
      BY <2>2
    <3>5. members(n) = [h \in DOMAIN <<>> \cup DOMAIN R |-> IF h \in DOMAIN <<>> THEN <<>>[h] ELSE R[h]]
      BY <2>6, <3>4
    <3> HIDE DEF R, members, P, in, Q
    <3>6. members(n) = [h \in DOMAIN R |-> R[h]]
      BY <3>1, <3>5
    <3> QED BY <3>2, <3>3, <3>6 DEF R
  <2> HIDE DEF Q
  <2> QED BY <2>2, <2>3, <2>4, <2>5, <2>6
<1> QED BY <1>4, <1>5, <1>6, <1>7 DEF RoundInv

\* A library that is exported while nobody changes it and imported into an empty one arrives
\* as it was, for any library, exports, workers, edits and failures: every game with its
\* status, its copies and its tags, every pool in its order with its queue; only what
\* settling changes differs, and what failed is missing (loadUserGames to
\* applyImportedPools).
THEOREM LibrariesArrive == ExportsSpec => []RoundTrip
<1> DEFINE Inv == ExportInv /\ DocsFaithful /\ RoundInv
<1>1. ExportsInit => Inv
  <2> SUFFICES ASSUME ExportsInit PROVE Inv
    OBVIOUS
  <2>1. /\ \A j \in ExportJobs : exJobs[j] = NoExport
        /\ DOMAIN exFiles = {} /\ exGot.file = NoFile /\ exLib \in Libraries
        /\ exImport = NoImport /\ exItems = [w \in ImportWorkers |-> NoItem] /\ exCopy \in Destinations
    BY DEF ExportsInit
  <2>2. /\ NoExport.pc = "idle" /\ NoExport.doc = EmptyDoc /\ NoFile.doc = EmptyDoc /\ NoItem.pc = "idle"
        /\ NoImport.pc = "none" /\ NoImport.doc = EmptyDoc /\ NoImport.left = {}
        /\ DOMAIN NoImport = {"pc", "doc", "left", "failed", "from"}
    BY DEF NoExport, NoFile, NoItem, NoImport
  <2> HIDE DEF NoImport
  <2>3. DocsFaithful
    BY <2>1, <2>2, NothingFaithful DEF DocsFaithful
  <2>4. exCopy = [games |-> exCopy.games, pools |-> exCopy.pools]
    BY <2>1, ExportsAssumption DEF ExportsAssumption
  <2>5. RoundInv
    BY <2>1, <2>2, <2>4, NothingFaithful DEF RoundInv, ImportShape, ItemsOpen, CopySoFar, RoundTrip
  <2> QED BY <2>3, <2>5, ExportBegins
<1>2. Inv /\ [ExportsNext]_exportVars => Inv'
  <2> SUFFICES ASSUME Inv, [ExportsNext]_exportVars PROVE Inv'
    OBVIOUS
  <2>1. ExportInv' /\ ExportTypes
    BY ExportInvStep DEF ExportInv
  <2>2. ASSUME NEW j \in ExportJobs, ExportStep(j) PROVE DocsFaithful' /\ RoundInv'
    <3>1. DocsFaithful'
      BY <2>1, <2>2, ReadSteps, FileSteps DEF ExportStep
    <3>2. UNCHANGED targetVars
      BY <2>2 DEF ExportStep, handleExport, loadAndStartJob, loadUserGames, loadRelations, loadPoolsForExport,
           OpenExportFile, writeJSONExport, markJobCompleted, markJobFailed, ExportReadFails, ExportWorkerDies,
           CancelExport, DeleteExport, HandleDownload, Reads
    <3> QED BY <3>1, <3>2, ImportRests
  <2>3. CASE CleanupExports
    <3> DEFINE old == {j \in ExportJobs : exJobs[j].st = "completed" /\ exJobs[j].path # NoPath /\ Expired(j)}
    <3>1. /\ exFiles' = Restrict(exFiles, DOMAIN exFiles \ {exJobs[j].path : j \in old})
          /\ exJobs' = [j \in ExportJobs |-> IF j \in old THEN [exJobs[j] EXCEPT !.path = NoPath] ELSE exJobs[j]]
          /\ UNCHANGED <<exLib, exGot, targetVars>>
      BY <2>3 DEF CleanupExports
    <3> HIDE DEF old
    <3>2. \A p \in DOMAIN exFiles' : p \in DOMAIN exFiles /\ exFiles'[p] = exFiles[p]
      BY <3>1 DEF Restrict
    <3>3. \A j \in ExportJobs : exJobs'[j].pc = exJobs[j].pc /\ exJobs'[j].doc = exJobs[j].doc
      BY <2>1, <3>1 DEF ExportTypes, JobTyped
    <3>4. DocsFaithful'
      BY <3>1, <3>2, <3>3 DEF DocsFaithful, ReadSoFar, Faithful
    <3> QED BY <2>1, <3>1, <3>4, ImportRests
  <2>4. CASE ExportTick \/ (\E L \in Libraries : EditLibrary(L)) \/ UNCHANGED exportVars
    <3>1. exLib' \in Libraries /\ UNCHANGED <<exJobs, exFiles, exGot, targetVars>>
      BY <2>4 DEF ExportTick, EditLibrary, exportVars, targetVars, DocsFaithful
    <3>2. DocsFaithful'
      BY <3>1 DEF DocsFaithful, ReadSoFar, Faithful
    <3> QED BY <2>1, <3>1, <3>2, ImportRests
  <2>5. CASE ImportStep
    <3>1. UNCHANGED sourceVars
      BY <2>5 DEF ImportStep, HandleImport, BeginItem, FinishItem, applyImportedPools
    <3>2. DocsFaithful'
      BY <3>1 DEF DocsFaithful, ReadSoFar, Faithful, sourceVars
    <3>3. RoundInv'
      BY <2>5, ImportBegins, ItemBegins, ItemEnds, ImportEnds DEF ImportStep
    <3> QED BY <2>1, <3>2, <3>3
  <2> QED BY <2>1, <2>2, <2>3, <2>4, <2>5 DEF ExportsNext
<1>3. Inv => RoundTrip
  BY DEF RoundInv
<1> QED BY <1>1, <1>2, <1>3, PTL DEF ExportsSpec
=============================================================================
