---------------------------- MODULE JobAdmission ----------------------------
(***************************************************************************)
(* How a background job comes to exist in nexorious, and how its dedup key *)
(* is given back.                                                          *)
(*                                                                         *)
(* A job is admitted by one of four paths, all of the form "is an          *)
(* equivalent job active? if not, insert a row":                           *)
(*   "sync"    HandleTriggerSync and CheckPendingSyncsWorker               *)
(*   "handler" startMaintenanceRefresh (an admin's POST)                   *)
(*   "self"    writeMaintenanceJobInTx (a periodic or chained dispatch)    *)
(*   "import"  enqueueImportJob, the only one that takes no advisory lock  *)
(* Three other writers make a row active without asking anybody: the skip  *)
(* of a game taken back, the retry of failed items, and a dispatch worker  *)
(* that starts on a row which is already terminal.  The module models all  *)
(* of them at the granularity of committed SQL statements.                 *)
(***************************************************************************)
EXTENDS Naturals

CONSTANTS
    Jobs,       \* the jobs rows (uuids) there can be
    Keys,       \* dedup keys: (job_type, source, user_id or "")
    Locks,      \* advisory lock numbers: hashtext() of a key
    Clients,    \* goroutines that ask for a job to be created
    ClassOf,    \* Keys -> {"sync", "maint", "import"}
    LockOf,     \* Keys -> Locks; two keys may hash to the same number
    NoClient,   \* the holder of a lock nobody holds
    NoJob       \* the job of a client that has none

ASSUME ClassAssumption == ClassOf \in [Keys -> {"sync", "maint", "import"}]
ASSUME LockAssumption  == LockOf \in [Keys -> Locks]
ASSUME KeysAssumption  == Keys # {}
ASSUME NullAssumption  == NoClient \notin Clients /\ NoJob \notin Jobs

VARIABLES
    status,     \* jobs.status, "absent" before the row is committed
    keyOf,      \* the dedup key of each row
    gate,       \* jobs.dispatch_complete (DEFAULT true)
    items,      \* "none": no job_items; "open": some unfinished; "done": all finished
    task,       \* the River dispatch task of the row; "returned" is done, not yet acked
    unguarded,  \* rows that some write made active without the guard (history)
    lock,       \* holder of each advisory lock
    pc,         \* where each client is
    kind,       \* the path each client is on
    want,       \* the key each client asks for
    mine        \* the row id each client generated

rows    == <<status, keyOf, gate, items, task, unguarded>>
clients == <<lock, pc, kind, want, mine>>
vars    == <<rows, clients>>

ActiveStatus   == {"pending", "processing"}
TerminalStatus == {"completed", "failed", "cancelled"}
Status         == {"absent", "deleted"} \cup ActiveStatus \cup TerminalStatus
Kinds          == {"sync", "handler", "self", "import"}

\* Only imports go from the guard to the insert without the lock.
TakesLock(kd) == kd # "import"

KindsFor(k) == CASE ClassOf[k] = "sync"   -> {"sync"}
                 [] ClassOf[k] = "maint"  -> {"handler", "self"}
                 [] ClassOf[k] = "import" -> {"import"}

Active(j) == status[j] \in ActiveStatus

RowExists(j) == status[j] \notin {"absent", "deleted"}

\* Mutant: the guard overlooks rows that are still pending.
OccupiedProcessing(k) == \E j \in Jobs : keyOf[j] = k /\ status[j] = "processing"

\* The guard SELECT: some committed row of the key is pending or processing.
Occupied(k) == \E j \in Jobs : keyOf[j] = k /\ Active(j)

\* A row id is a fresh uuid: no row has it and no client is about to use it.
Fresh(j) == status[j] = "absent" /\ \A c \in Clients : mine[c] # j

\* finalizeJobCompleted: the guarded UPDATE; sync and import rows need the gate.
Finalized(j, open) ==
    IF Active(j) /\ (ClassOf[keyOf[j]] = "maint" \/ open)
    THEN [status EXCEPT ![j] = "completed"] ELSE status

\* A write that sets status = 'processing' whatever it was.
MarkProcessing(j) ==
    /\ status' = [status EXCEPT ![j] = "processing"]
    /\ unguarded' = IF Active(j) THEN unguarded ELSE unguarded \cup {j}

\* What an unused row or client has for a key.
AnyKey == CHOOSE k \in Keys : TRUE

TypeOK ==
    /\ status \in [Jobs -> Status]
    /\ keyOf \in [Jobs -> Keys]
    /\ gate \in [Jobs -> BOOLEAN]
    /\ items \in [Jobs -> {"none", "open", "done"}]
    /\ task \in [Jobs -> {"none", "queued", "running", "returned"}]
    /\ unguarded \in SUBSET Jobs
    /\ lock \in [Locks -> Clients \cup {NoClient}]
    /\ pc \in [Clients -> {"idle", "preguard", "lock", "guard", "commit",
                           "stream", "check", "enqueue"}]
    /\ kind \in [Clients -> Kinds]
    /\ want \in [Clients -> Keys]
    /\ mine \in [Clients -> Jobs \cup {NoJob}]

Init ==
    /\ status = [j \in Jobs |-> "absent"]
    /\ keyOf = [j \in Jobs |-> AnyKey]
    /\ gate = [j \in Jobs |-> TRUE]
    /\ items = [j \in Jobs |-> "none"]
    /\ task = [j \in Jobs |-> "none"]
    /\ unguarded = {}
    /\ lock = [l \in Locks |-> NoClient]
    /\ pc = [c \in Clients |-> "idle"]
    /\ kind = [c \in Clients |-> "sync"]
    /\ want = [c \in Clients |-> AnyKey]
    /\ mine = [c \in Clients |-> NoJob]

---------------------------------------------------------------------------
(* The four guarded admissions. *)

GoTo(c, label) == pc' = [pc EXCEPT ![c] = label]

\* A client whose request ends forgets the row id it generated.
Leave(c) == GoTo(c, "idle") /\ mine' = [mine EXCEPT ![c] = NoJob]

Release(c) == lock' = [lock EXCEPT ![LockOf[want[c]]] = NoClient]

\* A request arrives: the row id is generated before anything is read.
Begin(c, k, kd, j) ==
    /\ pc[c] = "idle"
    /\ kd \in KindsFor(k)
    /\ Fresh(j)
    /\ GoTo(c, IF kd = "self" THEN "preguard"
               ELSE IF kd = "import" THEN "guard" ELSE "lock")
    /\ kind' = [kind EXCEPT ![c] = kd]
    /\ want' = [want EXCEPT ![c] = k]
    /\ mine' = [mine EXCEPT ![c] = j]
    /\ UNCHANGED <<rows, lock>>

\* The self-created dispatch looks once outside the transaction: an early out.
\* It also returns when there is nothing to refresh or a query fails.
PreGuard(c) ==
    /\ pc[c] = "preguard"
    /\ \/ ~Occupied(want[c]) /\ GoTo(c, "lock") /\ UNCHANGED mine
       \/ Leave(c)
    /\ UNCHANGED <<rows, lock, kind, want>>

\* pg_advisory_xact_lock blocks until the number is free.
AcquireJobDedupLock(c) ==
    /\ pc[c] = "lock"
    /\ lock[LockOf[want[c]]] = NoClient
    /\ lock' = [lock EXCEPT ![LockOf[want[c]]] = c]
    /\ GoTo(c, "guard")
    /\ UNCHANGED <<rows, kind, want, mine>>

\* The active-job guard.  A duplicate ends the transaction, and the request.
Guard(c) ==
    /\ pc[c] = "guard"
    /\ IF Occupied(want[c])
       THEN /\ Leave(c)
            /\ IF TakesLock(kind[c]) THEN Release(c) ELSE UNCHANGED lock
       ELSE GoTo(c, "commit") /\ UNCHANGED <<lock, mine>>
    /\ UNCHANGED <<rows, kind, want>>

\* INSERT INTO jobs becomes visible at COMMIT, which also releases the lock.
\* A self-created row is inserted with its items in the same transaction; when
\* River refuses every one of them the items are failed and nothing checks the job.
Commit(c) ==
    LET j == mine[c] IN
    /\ pc[c] = "commit"
    /\ keyOf' = [keyOf EXCEPT ![j] = want[c]]
    /\ status' = [status EXCEPT ![j] =
                    IF kind[c] \in {"self", "import"} THEN "processing" ELSE "pending"]
    /\ gate' = [gate EXCEPT ![j] = kind[c] # "import"]
    /\ IF kind[c] = "self"
       THEN \E s \in {"open", "done"} : items' = [items EXCEPT ![j] = s]
       ELSE UNCHANGED items
    /\ IF TakesLock(kind[c]) THEN Release(c) ELSE UNCHANGED lock
    /\ IF kind[c] = "self" THEN Leave(c)
       ELSE GoTo(c, IF kind[c] = "import" THEN "stream" ELSE "enqueue") /\ UNCHANGED mine
    /\ UNCHANGED <<task, unguarded, kind, want>>

\* enqueueImportJob goes on in the request with the items.  An insert that fails
\* (the row may be gone by now) ends the request and leaves the gate closed.
StreamImport(c) ==
    LET j == mine[c] IN
    /\ pc[c] = "stream"
    /\ IF RowExists(j)
       THEN /\ \E s \in {"none", "open", "done"} : items' = [items EXCEPT ![j] = s]
            /\ (GoTo(c, "check") /\ UNCHANGED mine) \/ Leave(c)
       ELSE Leave(c) /\ UNCHANGED items
    /\ UNCHANGED <<status, keyOf, gate, task, unguarded, lock, kind, want>>

\* Then it opens the gate, which may fail, and runs the completion check.
CheckImport(c) ==
    LET j == mine[c] IN
    /\ pc[c] = "check"
    /\ \E open \in BOOLEAN : gate' = [gate EXCEPT ![j] = open]
    /\ status' = IF items[j] = "open" THEN status ELSE Finalized(j, gate'[j])
    /\ Leave(c)
    /\ UNCHANGED <<keyOf, items, task, unguarded, lock, kind, want>>

\* riverClient.Insert of the dispatch task, on a connection of its own, after
\* the commit.  On an error the maintenance handlers delete the row again, if they
\* can (their context may be what failed); the sync trigger and the scheduler leave
\* it pending.
Enqueue(c) ==
    LET j == mine[c] IN
    /\ pc[c] = "enqueue"
    /\ \/ /\ task' = [task EXCEPT ![j] = "queued"]
          /\ UNCHANGED status
       \/ /\ kind[c] = "handler"
          /\ status' = [status EXCEPT ![j] = "deleted"]
          /\ UNCHANGED task
       \/ UNCHANGED <<status, task>>
    /\ Leave(c)
    /\ UNCHANGED <<keyOf, gate, items, unguarded, lock, kind, want>>

---------------------------------------------------------------------------
(* The dispatch tasks. *)

\* DispatchSyncWorker.Work begins: 'processing' and a closed gate, unconditionally.
StartSync(j) ==
    /\ ClassOf[keyOf[j]] = "sync" /\ task[j] = "queued"
    /\ IF RowExists(j)
       THEN /\ MarkProcessing(j)
            /\ gate' = [gate EXCEPT ![j] = FALSE]
            /\ task' = [task EXCEPT ![j] = "running"]
       ELSE /\ task' = [task EXCEPT ![j] = "none"]
            /\ UNCHANGED <<status, unguarded, gate>>
    /\ UNCHANGED <<keyOf, items, clients>>

\* A batch of the library arrives: items are inserted and enqueued.  Without the
\* row the inserts fail on their foreign key, and are only logged.
StreamSync(j) ==
    /\ ClassOf[keyOf[j]] = "sync" /\ task[j] = "running"
    /\ RowExists(j)
    /\ items' = [items EXCEPT ![j] = "open"]
    /\ UNCHANGED <<status, keyOf, gate, task, unguarded, clients>>

\* The library is through: the gate opens and the completion check runs.  When
\* the write of the gate fails, the task returns without the check.
FinishSync(j) ==
    /\ ClassOf[keyOf[j]] = "sync" /\ task[j] = "running"
    /\ \/ /\ gate' = [gate EXCEPT ![j] = TRUE]
          /\ status' = IF items[j] = "open" THEN status ELSE Finalized(j, TRUE)
       \/ UNCHANGED <<gate, status>>
    /\ task' = [task EXCEPT ![j] = "returned"]
    /\ UNCHANGED <<keyOf, items, unguarded, clients>>

\* failSyncJob / handleCredentialError: 'failed', unconditionally; the pending
\* items are cancelled, those in review stay open.
FailSync(j) ==
    /\ ClassOf[keyOf[j]] = "sync" /\ task[j] = "running"
    /\ status' = IF RowExists(j) THEN [status EXCEPT ![j] = "failed"] ELSE status
    /\ items' \in {items, [items EXCEPT ![j] = IF @ = "open" THEN "done" ELSE @]}
    /\ task' = [task EXCEPT ![j] = "returned"]
    /\ UNCHANGED <<keyOf, gate, unguarded, clients>>

\* River records that the dispatch task is done.
Ack(j) ==
    /\ task[j] = "returned"
    /\ task' = [task EXCEPT ![j] = "none"]
    /\ UNCHANGED <<status, keyOf, gate, items, unguarded, clients>>

\* A maintenance dispatch worker on a row its handler created: one transaction
\* that sets 'processing' and inserts the items; or nothing to refresh, which
\* finalizes the row; or an early return (IGDB not configured, a failed query)
\* that leaves the row as it is.  A row that is gone fails the transaction.
DispatchMaintenance(j) ==
    /\ ClassOf[keyOf[j]] = "maint" /\ task[j] = "queued"
    /\ task' = [task EXCEPT ![j] = "none"]
    /\ \/ /\ RowExists(j)
          /\ MarkProcessing(j)
          /\ \E s \in {"open", "done"} : items' = [items EXCEPT ![j] = s]
       \/ status' = Finalized(j, TRUE) /\ UNCHANGED <<items, unguarded>>
       \/ UNCHANGED <<status, items, unguarded>>
    /\ UNCHANGED <<keyOf, gate, clients>>

---------------------------------------------------------------------------
(* The rest of a job's life, as far as its key is concerned. *)

\* The worker of the last unfinished item marks it and runs the completion check.
Drain(j) ==
    /\ items[j] = "open"
    /\ RowExists(j)
    /\ items' = [items EXCEPT ![j] = "done"]
    /\ status' = Finalized(j, gate[j])
    /\ UNCHANGED <<keyOf, gate, task, unguarded, clients>>

\* HandleCancelJob: the items keep their status.
Cancel(j) ==
    /\ Active(j)
    /\ status' = [status EXCEPT ![j] = "cancelled"]
    /\ UNCHANGED <<keyOf, gate, items, task, unguarded, clients>>

\* Mutant: only rows whose dispatch began are reaped.
CleanupProcessingJobs(j) ==
    /\ status[j] = "processing"
    /\ items[j] # "open"
    /\ \/ ClassOf[keyOf[j]] = "maint"
       \/ ClassOf[keyOf[j]] = "sync" /\ ~gate[j]
    /\ status' = [status EXCEPT ![j] = "failed"]
    /\ UNCHANGED <<keyOf, gate, items, task, unguarded, clients>>

\* CleanupStaleJobs on a row older than its threshold: the maintenance rule, and
\* the sync rule, which asks for a closed gate.  Imports are not in either.
CleanupStaleJobs(j) ==
    /\ Active(j)
    /\ items[j] # "open"
    /\ \/ ClassOf[keyOf[j]] = "maint"
       \/ ClassOf[keyOf[j]] = "sync" /\ ~gate[j]
    /\ status' = [status EXCEPT ![j] = "failed"]
    /\ UNCHANGED <<keyOf, gate, items, task, unguarded, clients>>

\* HandleDeleteJob and CleanupOldJobs: a terminal row goes, its items with it.
Delete(j) ==
    /\ status[j] \in TerminalStatus
    /\ status' = [status EXCEPT ![j] = "deleted"]
    /\ items' = [items EXCEPT ![j] = "none"]
    /\ UNCHANGED <<keyOf, gate, task, unguarded, clients>>

\* HandleRetryFailed: failed items back to pending, the row back to processing,
\* with no look at the status it had or at the other rows of its key.
RetryFailed(j) ==
    /\ RowExists(j)
    /\ items[j] # "none"
    /\ MarkProcessing(j)
    /\ items' = [items EXCEPT ![j] = "open"]
    /\ UNCHANGED <<keyOf, gate, task, clients>>

\* HandleUnskipGame: a one-item sync row, inserted as 'processing' with no lock
\* and no guard; the item insert or its enqueue may then fail, and nobody checks.
Unskip(j, k) ==
    /\ ClassOf[k] = "sync"
    /\ Fresh(j)
    /\ status' = [status EXCEPT ![j] = "processing"]
    /\ keyOf' = [keyOf EXCEPT ![j] = k]
    /\ unguarded' = unguarded \cup {j}
    /\ \E s \in {"none", "open", "done"} : items' = [items EXCEPT ![j] = s]
    /\ UNCHANGED <<gate, task, clients>>

\* The server dies: requests and open transactions vanish with their locks.  A
\* dispatch_sync in flight runs again (reconciled at startup), or not when it is
\* out of attempts (which are not counted here); a maintenance dispatch (MaxAttempts 1) is atomic here.
Crash ==
    /\ pc' = [c \in Clients |-> "idle"]
    /\ mine' = [c \in Clients |-> NoJob]
    /\ lock' = [l \in Locks |-> NoClient]
    /\ \E again \in SUBSET {j \in Jobs : task[j] \in {"running", "returned"}} :
         task' = [j \in Jobs |-> IF j \in again THEN "queued"
                                 ELSE IF task[j] = "queued" THEN "queued" ELSE "none"]
    /\ UNCHANGED <<status, keyOf, gate, items, unguarded, kind, want>>

---------------------------------------------------------------------------
Client(c) ==
    \/ \E k \in Keys, kd \in Kinds, j \in Jobs : Begin(c, k, kd, j)
    \/ PreGuard(c) \/ AcquireJobDedupLock(c) \/ Guard(c) \/ Commit(c)
    \/ StreamImport(c) \/ CheckImport(c) \/ Enqueue(c)

Row(j) ==
    \/ StartSync(j) \/ StreamSync(j) \/ FinishSync(j) \/ FailSync(j) \/ Ack(j)
    \/ DispatchMaintenance(j) \/ Drain(j) \/ Cancel(j) \/ CleanupStaleJobs(j)
    \/ Delete(j) \/ RetryFailed(j)
    \/ \E k \in Keys : Unskip(j, k)

Next == (\E c \in Clients : Client(c)) \/ (\E j \in Jobs : Row(j)) \/ Crash

Spec == Init /\ [][Next]_vars

\* A request that runs goes on, River runs queued tasks, items of an active job
\* are worked off (rescued when orphaned), and the hourly cleanup keeps coming.
Fairness ==
  /\ \A c \in Clients : WF_vars(Guard(c) \/ Commit(c) \/ StreamImport(c) \/ CheckImport(c)
                                   \/ Enqueue(c))
  /\ \A j \in Jobs :
        /\ WF_vars(DispatchMaintenance(j))
        /\ WF_vars(StartSync(j))
        /\ WF_vars(FinishSync(j) \/ FailSync(j))
        /\ WF_vars(Drain(j))
        /\ WF_vars(CleanupStaleJobs(j))

FairSpec == Spec /\ Fairness

---------------------------------------------------------------------------
(* What is promised. *)

\* Rows that are active because the guard let them in, and for no other reason.
Live(j) == Active(j) /\ j \notin unguarded

Exclusive(S) == \A j1, j2 \in Jobs :
    (/\ Live(j1) /\ Live(j2)
     /\ keyOf[j1] = keyOf[j2]
     /\ ClassOf[keyOf[j1]] \in S) => j1 = j2

\* The advisory lock works: whatever the triggers, the scheduler, the admin
\* handlers and the self-created dispatches do at once, and through crashes,
\* cancellations, retries and lock-number collisions, no two rows that came in
\* through the locked guard are active on one dedup key.
AtMostOneGuarded == Exclusive({"sync", "maint"})

\* handleImportSource says "One active import per (user, source) is allowed at
\* a time"; enqueueImportJob guards and inserts without the lock.
OneActiveImport == Exclusive({"import"})

\* A maintenance dedup key that is taken is given back, however the dispatch,
\* the enqueue or the server fails in between: this is what CleanupStaleJobs,
\* the handlers' rollback and the empty-run finalization are for.
MaintenanceKeyFreed ==
    \A j \in Jobs : (Active(j) /\ ClassOf[keyOf[j]] = "maint") ~> ~Active(j)

\* The server crashes, and the user retries failed items, only finitely often.
Calm == <>[][~Crash /\ \A j \in Jobs : ~RetryFailed(j)]_vars

\* The same of a sync row that came in through the guard, once that is over.
\* CleanupStaleJobs says it "releases duplicate-run guards and unblocks scheduled
\* syncs after a crash", but a crash or a failed enqueue right after the commit
\* leaves a pending row whose gate still has its default, true, and the sync rule
\* does not reap that.
SyncKeyFreed ==
    Calm => \A j \in Jobs : (Live(j) /\ ClassOf[keyOf[j]] = "sync") ~> ~Live(j)
=============================================================================
