------------------------------ MODULE Accounts ------------------------------
(***************************************************************************)
(* The accounts: the first administrator made by the setup page, the       *)
(* requests by which administrators and users change accounts, sessions    *)
(* and API keys.  A request is authorized when it arrives, reads the row,  *)
(* and writes later; other requests run in between.  The checks of the     *)
(* lengths of names and passwords are left out.                            *)
(***************************************************************************)
EXTENDS Naturals, FiniteSets, Functions

CONSTANTS
    UserIds, UserNames,
    Requests,       \* requests that may be under way at once
    MaxPasswords,   \* bound on password changes
    MaxAccountOps   \* bound on the requests that change accounts

ASSUME AccountsAssumption ==
    /\ IsFiniteSet(UserIds) /\ {MaxPasswords, MaxAccountOps} \subseteq Nat

VARIABLES
    acUsers,     \* users: rows by id
    acSessions,  \* user_sessions: [user, device]
    acKeys,      \* api_keys not revoked: [user, scope]
    acReqs,      \* requests past their first reads
    acPassed, acOps, \* bounds reached so far
    acTold,      \* password of each account by the last change that was carried out (history)
    acSetups,    \* administrators made by the setup page (history)
    acCrowded    \* requests of administrators overlapped (history)

accountVars == <<acUsers, acSessions, acKeys, acReqs, acPassed, acOps, acTold, acSetups, acCrowded>>

NoUser == [name |-> "", pass |-> 0, active |-> FALSE, admin |-> FALSE]
Quiet  == [pc |-> "idle", id |-> 0, row |-> NoUser, wipe |-> FALSE, device |-> 0]

AccountsInit ==
    /\ acUsers = [u \in {} |-> NoUser]
    /\ acSessions = {} /\ acKeys = {}
    /\ acReqs = [a \in Requests |-> Quiet]
    /\ acPassed = 0 /\ acOps = 0
    /\ acTold = [u \in UserIds |-> 0]
    /\ acSetups = 0 /\ acCrowded = FALSE

Users      == DOMAIN acUsers
Taken(n)   == \E u \in Users : acUsers[u].name = n
Without(u) == Restrict(acUsers, Users \ {u})
PutUser(u, row) == [v \in Users \cup {u} |-> IF v = u THEN row ELSE acUsers[v]]
SessionsOf(u)   == {s \in acSessions : s.user = u}

\* AuthMiddleware: a session or a key of a user who is active; a read key changes nothing.
MayWrite(u) ==
    /\ u \in Users /\ acUsers[u].active
    /\ SessionsOf(u) # {} \/ [user |-> u, scope |-> "write"] \in acKeys
AdminMiddleware(u) == MayWrite(u) /\ acUsers[u].admin

AdminPcs   == {"update", "reset", "delete", "create"}
Open(a, r) == /\ acReqs[a].pc = "idle" /\ acOps < MaxAccountOps
              /\ acOps' = acOps + 1
              /\ acReqs' = [acReqs EXCEPT ![a] = r]
              /\ acCrowded' = (acCrowded \/ (r.pc \in AdminPcs /\ \E b \in Requests : acReqs[b].pc \in AdminPcs))
Close(a)   == acReqs' = [acReqs EXCEPT ![a] = Quiet]

---------------------------------------------------------------------------
(* The first administrator. *)

\* tryCreateAdmin: the transaction has seen that there are no users.
HandleSetupAdmin(a) ==
    /\ Users = {}
    /\ Open(a, [Quiet EXCEPT !.pc = "setup"])
    /\ UNCHANGED <<acUsers, acSessions, acKeys, acPassed, acTold, acSetups>>

\* The commit fails if another user was created meanwhile, and the retry finds that user.
CommitAdmin(a) ==
    /\ acReqs[a].pc = "setup"
    /\ IF Users # {} THEN UNCHANGED <<acUsers, acSessions, acTold, acSetups>>
       ELSE /\ \E u \in UserIds, n \in UserNames :
                 /\ acUsers' = PutUser(u, [name |-> n, pass |-> 0, active |-> TRUE, admin |-> TRUE])
                 /\ acSessions' = {[user |-> u, device |-> a]}
                 /\ acTold' = [acTold EXCEPT ![u] = 0]
            /\ acSetups' = acSetups + 1
    /\ Close(a)
    /\ UNCHANGED <<acKeys, acPassed, acOps, acCrowded>>

---------------------------------------------------------------------------
(* Sessions and keys. *)

\* The password was right and the account active; issueSession comes later.
HandleLogin(a, u) ==
    /\ u \in Users /\ acUsers[u].active
    /\ Open(a, [Quiet EXCEPT !.pc = "login", !.id = u])
    /\ UNCHANGED <<acUsers, acSessions, acKeys, acPassed, acTold, acSetups>>

IssueSession(a) ==
    /\ acReqs[a].pc = "login"
    /\ LET u == acReqs[a].id
       IN  acSessions' = IF u \in Users THEN acSessions \cup {[user |-> u, device |-> a]} ELSE acSessions
    /\ Close(a)
    /\ UNCHANGED <<acUsers, acKeys, acPassed, acOps, acTold, acSetups, acCrowded>>

EndSessions(S) ==
    /\ S # {}
    /\ acSessions' = acSessions \ S
    /\ UNCHANGED <<acUsers, acKeys, acReqs, acPassed, acOps, acTold, acSetups, acCrowded>>

HandleLogout(s)              == EndSessions({s})
HandleRevokeSession(u, s)    == MayWrite(u) /\ s.user = u /\ EndSessions({s})
HandleRevokeAllOtherSessions(u, s) == MayWrite(u) /\ s.user = u /\ EndSessions(SessionsOf(u) \ {s})
CleanupExpiredSessions(S)    == EndSessions(S)

HandleCreateAPIKey(u, scope) ==
    /\ MayWrite(u) /\ [user |-> u, scope |-> scope] \notin acKeys
    /\ acKeys' = acKeys \cup {[user |-> u, scope |-> scope]}
    /\ UNCHANGED <<acUsers, acSessions, acReqs, acPassed, acOps, acTold, acSetups, acCrowded>>

HandleRevokeAPIKey(k) ==
    /\ MayWrite(k.user)
    /\ acKeys' = acKeys \ {k}
    /\ UNCHANGED <<acUsers, acSessions, acReqs, acPassed, acOps, acTold, acSetups, acCrowded>>

---------------------------------------------------------------------------
(* Changing one's own account. *)

\* The current password was right.  A request made with a key has no session (device 0).
HandleChangePassword(a, u, d) ==
    /\ MayWrite(u)
    /\ \/ [user |-> u, device |-> d] \in acSessions
       \/ d = 0 /\ [user |-> u, scope |-> "write"] \in acKeys
    /\ Open(a, [Quiet EXCEPT !.pc = "password", !.id = u, !.device = d])
    /\ UNCHANGED <<acUsers, acSessions, acKeys, acPassed, acTold, acSetups>>

NewPassword(u) ==
    /\ acPassed < MaxPasswords /\ acPassed' = acPassed + 1
    /\ IF u \in Users
         THEN /\ acUsers' = [acUsers EXCEPT ![u].pass = acPassed + 1]
              /\ acTold' = [acTold EXCEPT ![u] = acPassed + 1]
         ELSE UNCHANGED <<acUsers, acTold>>

StorePassword(a) ==
    /\ acReqs[a].pc = "password"
    /\ NewPassword(acReqs[a].id)
    /\ acReqs' = [acReqs EXCEPT ![a].pc = "prune"]
    /\ UNCHANGED <<acSessions, acKeys, acOps, acSetups, acCrowded>>

PruneSessions(a) ==
    /\ acReqs[a].pc = "prune"
    /\ acSessions' = {s \in acSessions : s.user = acReqs[a].id => s.device = acReqs[a].device}
    /\ Close(a)
    /\ UNCHANGED <<acUsers, acKeys, acPassed, acOps, acTold, acSetups, acCrowded>>

HandleChangeUsername(u, n) ==
    /\ MayWrite(u) /\ ~Taken(n) /\ acOps < MaxAccountOps
    /\ acOps' = acOps + 1
    /\ acUsers' = [acUsers EXCEPT ![u].name = n]
    /\ UNCHANGED <<acSessions, acKeys, acReqs, acPassed, acTold, acSetups, acCrowded>>

---------------------------------------------------------------------------
(* Administrators. *)

HandleCreate(a, by, n, admin) ==
    /\ AdminMiddleware(by) /\ ~Taken(n)
    /\ Open(a, [Quiet EXCEPT !.pc = "create",
                   !.row = [name |-> n, pass |-> 0, active |-> TRUE, admin |-> admin]])
    /\ UNCHANGED <<acUsers, acSessions, acKeys, acPassed, acTold, acSetups>>

\* The unique index has the last word on the name.
InsertUser(a) ==
    /\ acReqs[a].pc = "create"
    /\ IF Taken(acReqs[a].row.name) THEN UNCHANGED <<acUsers, acTold>>
       ELSE \E u \in UserIds \ Users :
              /\ acUsers' = PutUser(u, acReqs[a].row)
              /\ acTold' = [acTold EXCEPT ![u] = 0]
    /\ Close(a)
    /\ UNCHANGED <<acSessions, acKeys, acPassed, acOps, acSetups, acCrowded>>

\* Mutant: the protection of oneself forgets the administrator flag.
SelfActiveOnly(by, id, row) == by = id => row.active

\* Nobody disables himself or gives up his own administrator flag.
SelfProtected(by, id, row) == by = id => row.active /\ row.admin

\* The row is loaded, and what the request names is changed in the copy.
HandleUpdate(a, by, id, n, active, admin) ==
    /\ AdminMiddleware(by) /\ id \in Users
    /\ n # acUsers[id].name => ~Taken(n)
    /\ LET row == [name |-> n, pass |-> acUsers[id].pass, active |-> active, admin |-> admin]
       IN  /\ row # acUsers[id] /\ SelfProtected(by, id, row)
           /\ Open(a, [Quiet EXCEPT !.pc = "update", !.id = id, !.row = row,
                          !.wipe = acUsers[id].active /\ ~active])
    /\ UNCHANGED <<acUsers, acSessions, acKeys, acPassed, acTold, acSetups>>

\* Every column of the copy is written, and in the same transaction a user who is being
\* disabled loses his sessions.
UpdateUser(a) ==
    /\ acReqs[a].pc = "update"
    /\ LET r == acReqs[a]
       IN  IF r.id \notin Users \/ \E u \in Users \ {r.id} : acUsers[u].name = r.row.name
             THEN UNCHANGED <<acUsers, acSessions>>
             ELSE /\ acUsers' = PutUser(r.id, r.row)
                  /\ acSessions' = IF r.wipe THEN acSessions \ SessionsOf(r.id) ELSE acSessions
    /\ Close(a)
    /\ UNCHANGED <<acKeys, acPassed, acOps, acTold, acSetups, acCrowded>>

HandleResetPassword(a, by, id) ==
    /\ AdminMiddleware(by) /\ id \in Users
    /\ Open(a, [Quiet EXCEPT !.pc = "reset", !.id = id])
    /\ UNCHANGED <<acUsers, acSessions, acKeys, acPassed, acTold, acSetups>>

\* The command reset-password, run beside the server.
RunResetPassword(a, id) ==
    /\ id \in Users
    /\ Open(a, [Quiet EXCEPT !.pc = "reset", !.id = id])
    /\ UNCHANGED <<acUsers, acSessions, acKeys, acPassed, acTold, acSetups>>

\* Password and sessions in one transaction.
ResetUserPassword(a) ==
    /\ acReqs[a].pc = "reset"
    /\ NewPassword(acReqs[a].id)
    /\ acSessions' = acSessions \ SessionsOf(acReqs[a].id)
    /\ Close(a)
    /\ UNCHANGED <<acKeys, acOps, acSetups, acCrowded>>

HandleDelete(a, by, id) ==
    /\ AdminMiddleware(by) /\ id \in Users /\ id # by
    /\ Open(a, [Quiet EXCEPT !.pc = "delete", !.id = id])
    /\ UNCHANGED <<acUsers, acSessions, acKeys, acPassed, acTold, acSetups>>

\* Everything of the user goes with the row.
DeleteUser(a) ==
    /\ acReqs[a].pc = "delete"
    /\ LET u == acReqs[a].id
       IN  /\ acUsers' = Without(u)
           /\ acSessions' = acSessions \ SessionsOf(u)
           /\ acKeys' = {k \in acKeys : k.user # u}
    /\ Close(a)
    /\ UNCHANGED <<acPassed, acOps, acTold, acSetups, acCrowded>>

AccountsNext ==
    \/ \E a \in Requests :
          \/ HandleSetupAdmin(a) \/ CommitAdmin(a) \/ IssueSession(a)
          \/ StorePassword(a) \/ PruneSessions(a)
          \/ InsertUser(a) \/ UpdateUser(a) \/ ResetUserPassword(a) \/ DeleteUser(a)
          \/ \E u \in UserIds : HandleLogin(a, u) \/ RunResetPassword(a, u)
          \/ \E u \in UserIds, d \in Requests \cup {0} : HandleChangePassword(a, u, d)
          \/ \E by, id \in UserIds : HandleResetPassword(a, by, id) \/ HandleDelete(a, by, id)
          \/ \E by \in UserIds, n \in UserNames, admin \in BOOLEAN :
                \/ HandleCreate(a, by, n, admin)
                \/ \E id \in UserIds, active \in BOOLEAN : HandleUpdate(a, by, id, n, active, admin)
    \/ \E s \in acSessions : HandleLogout(s)
    \/ \E u \in UserIds, s \in acSessions : HandleRevokeSession(u, s) \/ HandleRevokeAllOtherSessions(u, s)
    \/ \E S \in SUBSET acSessions : CleanupExpiredSessions(S)
    \/ \E u \in UserIds : \/ \E scope \in {"read", "write"} : HandleCreateAPIKey(u, scope)
                          \/ \E n \in UserNames : HandleChangeUsername(u, n)
    \/ \E k \in acKeys : HandleRevokeAPIKey(k)

AccountsSpec == AccountsInit /\ [][AccountsNext]_accountVars

---------------------------------------------------------------------------
\* The setup page makes one administrator, however many browsers send it at once
\* (HandleSetupAdmin: "Idempotent against concurrent requests").
OneFirstAdmin == acSetups > 1 => acCrowded

\* Somebody can always administer the instance: no sequence of demotions, deactivations,
\* deletions and self-made changes leaves it without an active administrator, as long as
\* administrators do not change accounts at the same moment.
AdminRemains ==
    Users # {} => acCrowded \/ \E u \in Users : acUsers[u].active /\ acUsers[u].admin

\* A password change that was carried out stays in force until the next one
\* (HandleChangePassword: "Password changed successfully.").
PasswordSticks == \A u \in Users : acUsers[u].pass = acTold[u]

\* There is one first administrator, and from then on always an active one.
AdministratorStands == OneFirstAdmin /\ AdminRemains
=============================================================================
