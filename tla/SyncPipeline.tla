----------------------------- MODULE SyncPipeline -----------------------------
(***************************************************************************)
(* One storefront of one user, synced by nexorious' River workers:         *)
(* DispatchSyncWorker streams the library into job items, IGDBMatchWorker  *)
(* finds each game, UserGameWorker writes it, and every one of them ends   *)
(* with SyncCheckJobCompletion.  All of them run at once and meet only in  *)
(* the database: a step here is a committed SQL statement (or a run of     *)
(* statements nobody else can tell apart), and what a worker read before   *)
(* it is kept with the worker.                                             *)
(*                                                                         *)
(* The environment interferes as far as its budgets go: the server dies,   *)
(* River refuses an insert, the write of a game fails, a worker runs into  *)
(* its timeout, a user cancels.                                            *)
(***************************************************************************)
EXTENDS Naturals, FiniteSets

CONSTANTS
    NJobs,       \* bound: sync jobs that are triggered
    Games,       \* external_games of the storefront
    Procs,       \* goroutines: River's workers and the HTTP handlers
    Parent,      \* Games -> Games \cup {NoGame}: external_games.parent_id
    NoGame,      \* no parent
    WasSkipped,  \* games the user skipped after an earlier sync
    BatchSize,   \* games GetLibrary hands over at a time (10 in the code)
    Attempts,    \* MaxAttempts of dispatch_sync (3 in the code)
    MaxCrashes,  \* bound: deaths of the server
    MaxFaults,   \* bound: refused inserts and failed writes
    MaxLost,     \* bound: workers that time out
    MaxCancels   \* bound: cancellations by the user

Jobs  == 1..NJobs
Tasks == [kind : {"match", "write"}, job : Jobs, game : Games]

ASSUME BoundsAssumption ==
    /\ NJobs \in Nat \ {0} /\ BatchSize \in Nat \ {0} /\ Attempts \in Nat \ {0}
    /\ {MaxCrashes, MaxFaults, MaxLost, MaxCancels} \subseteq Nat
ASSUME ProcsAssumption == IsFiniteSet(Procs)
ASSUME GamesAssumption ==
    /\ NoGame \notin Games /\ WasSkipped \subseteq Games
    /\ Parent \in [Games -> Games \cup {NoGame}]

VARIABLES
    status,     \* jobs.status, "absent" before the trigger
    gate,       \* jobs.dispatch_complete
    item,       \* job_items.status of each game in each job
    known,      \* external_games rows that exist
    resolved,   \* those with a resolved_igdb_id
    skipped,    \* those with is_skipped
    library,    \* those whose user_game is written
    dispatch,   \* River's dispatch_sync task of each job
    queue,      \* how many tasks of each kind River has queued
    tried,      \* how often the dispatch of each job was started
    asked,      \* jobs whose needs-review event is recorded
    announced,  \* how often the completion of each job was announced (history)
    at,         \* where each goroutine is
    on,         \* the task or request it works on
    todo,       \* items it still has to enqueue
    seen,       \* games its GetLibrary has delivered
    spent       \* how much of each budget is used

rows   == <<status, gate, item>>
games  == <<known, resolved, skipped, library>>
river  == <<dispatch, queue>>
notes  == <<tried, asked, announced>>
local  == <<at, on, todo, seen>>
vars   == <<rows, games, river, notes, local, spent>>

ActiveStatus   == {"pending", "processing"}
TerminalStatus == {"completed", "failed", "cancelled"}
ItemStatus     == {"absent", "pending", "pending_review", "completed", "skipped",
                   "failed", "cancelled"}
Labels == {"idle", "stream", "enqueue", "cancelItems", "parent", "search", "toWrite",
           "acquire", "markSkipped", "markFailed", "markCompleted", "siblings",
           "trigger", "count", "review", "finalize", "announce", "ack",
           "cancelJob", "cancelTasks"}
Kinds == {"dispatch", "match", "write", "cancel"}

Active(j) == status[j] \in ActiveStatus

\* Items of a job in one of the statuses S: what countJobItems counts.
ItemsIn(j, S) == {g \in Games : item[j][g] \in S}

\* "Active" for the completion check; no sync worker writes 'processing'.
Remaining(j) == ItemsIn(j, {"pending"})

Task(k, j, g) == [kind |-> k, job |-> j, game |-> g]

\* The item of p's task, and what p reads or writes of it.
SetItem(p, s) == item' = [item EXCEPT ![on[p].job][on[p].game] = s]

GoTo(p, label) == at' = [at EXCEPT ![p] = label]

\* What an idle goroutine is on.
Nothing == [kind |-> "cancel", job |-> 1, game |-> NoGame]

\* A goroutine takes up a task or request.
Take(p, label, task) ==
    /\ at[p] = "idle"
    /\ GoTo(p, label)
    /\ on' = [on EXCEPT ![p] = task]

Spend(what, max) ==
    /\ spent[what] < max
    /\ spent' = [spent EXCEPT ![what] = @ + 1]

\* Mutant: a refused insert leaves the item as it is.
SilentEnqueue(task, accepted) ==
    IF accepted
    THEN queue' = [queue EXCEPT ![task] = @ + 1] /\ UNCHANGED <<item, spent>>
    ELSE Spend("faults", MaxFaults) /\ UNCHANGED <<item, queue>>

\* EnqueueOrFail: River takes the task, or the pending item is marked failed.
EnqueueOrFail(task, accepted) ==
    IF accepted
    THEN queue' = [queue EXCEPT ![task] = @ + 1] /\ UNCHANGED <<item, spent>>
    ELSE /\ Spend("faults", MaxFaults)
         /\ item' = IF item[task.job][task.game] = "pending"
                    THEN [item EXCEPT ![task.job][task.game] = "failed"] ELSE item
         /\ UNCHANGED queue

TypeOK ==
    /\ status \in [Jobs -> {"absent"} \cup ActiveStatus \cup TerminalStatus]
    /\ gate \in [Jobs -> BOOLEAN]
    /\ item \in [Jobs -> [Games -> ItemStatus]]
    /\ known \in SUBSET Games /\ resolved \in SUBSET Games
    /\ skipped \in SUBSET Games /\ library \in SUBSET Games
    /\ dispatch \in [Jobs -> {"none", "queued", "running"}]
    /\ queue \in [Tasks -> Nat]
    /\ tried \in [Jobs -> Nat]
    /\ asked \in SUBSET Jobs
    /\ announced \in [Jobs -> Nat]
    /\ at \in [Procs -> Labels]
    /\ on \in [Procs -> [kind : Kinds, job : Jobs, game : Games \cup {NoGame}]]
    /\ todo \in [Procs -> SUBSET (Jobs \X Games)]
    /\ seen \in [Procs -> SUBSET Games]
    /\ spent \in [{"crashes", "faults", "lost", "cancels"} -> Nat]

Init ==
    /\ status = [j \in Jobs |-> "absent"]
    /\ gate = [j \in Jobs |-> TRUE]
    /\ item = [j \in Jobs |-> [g \in Games |-> "absent"]]
    /\ known = WasSkipped /\ skipped = WasSkipped
    /\ resolved = {} /\ library = {}
    /\ dispatch = [j \in Jobs |-> "none"]
    /\ queue = [t \in Tasks |-> 0]
    /\ tried = [j \in Jobs |-> 0]
    /\ asked = {}
    /\ announced = [j \in Jobs |-> 0]
    /\ at = [p \in Procs |-> "idle"]
    /\ on = [p \in Procs |-> Nothing]
    /\ todo = [p \in Procs |-> {}]
    /\ seen = [p \in Procs |-> {}]
    /\ spent = [b \in {"crashes", "faults", "lost", "cancels"} |-> 0]

---------------------------------------------------------------------------
(* Stage 1: the trigger and DispatchSyncWorker.Work. *)

\* The guarded insert and the enqueue of HandleTriggerSync and the scheduler,
\* which JobAdmission takes apart; here they are one step that succeeds.
Trigger(j) ==
    /\ status[j] = "absent"
    /\ \A i \in Jobs : (i < j => status[i] # "absent") /\ ~Active(i)
    /\ status' = [status EXCEPT ![j] = "pending"]
    /\ dispatch' = [dispatch EXCEPT ![j] = "queued"]
    /\ UNCHANGED <<gate, item, games, queue, notes, local, spent>>

\* The first statement: 'processing' and a closed gate, whatever the row was.
StartDispatch(p, j) ==
    /\ dispatch[j] = "queued"
    /\ Take(p, "stream", [kind |-> "dispatch", job |-> j, game |-> NoGame])
    /\ dispatch' = [dispatch EXCEPT ![j] = "running"]
    /\ status' = [status EXCEPT ![j] = "processing"]
    /\ gate' = [gate EXCEPT ![j] = FALSE]
    /\ tried' = [tried EXCEPT ![j] = @ + 1]
    /\ seen' = [seen EXCEPT ![p] = {}]
    /\ UNCHANGED <<item, games, queue, asked, announced, todo, spent>>

\* A batch is delivered, full unless it is the last one: upsertExternalGame and,
\* unless the user skipped the game, insertJobItem (ON CONFLICT DO NOTHING: only
\* a new item is enqueued).
\* A later game of the same title is the child of the one already known.
StreamBatch(p, B) ==
    LET j == on[p].job
        new == {g \in B \ skipped : item[j][g] = "absent"}
    IN  /\ at[p] = "stream"
        /\ B # {} /\ B \cap seen[p] = {}
        /\ Cardinality(B) <= BatchSize /\ Cardinality(seen[p]) % BatchSize = 0
        /\ \A g \in B : Parent[g] \in known \cup B \cup {NoGame}
        /\ known' = known \cup B
        /\ item' = [item EXCEPT ![j] = [g \in Games |-> IF g \in new THEN "pending"
                                                       ELSE @[g]]]
        /\ todo' = [todo EXCEPT ![p] = {<<j, g>> : g \in new}]
        /\ seen' = [seen EXCEPT ![p] = @ \cup B]
        /\ GoTo(p, "enqueue")
        /\ UNCHANGED <<status, gate, resolved, skipped, library, river, notes, on, spent>>

\* One more match task, for the batch of a dispatch or for waiting siblings.
EnqueueNext(p) ==
    /\ at[p] \in {"enqueue", "trigger"}
    /\ \/ \E accepted \in BOOLEAN : \E w \in todo[p] :
            /\ EnqueueOrFail(Task("match", w[1], w[2]), accepted)
            /\ todo' = [todo EXCEPT ![p] = @ \ {w}]
            /\ UNCHANGED at
       \/ /\ todo[p] = {}
          /\ GoTo(p, IF at[p] = "enqueue" THEN "stream" ELSE "count")
          /\ UNCHANGED <<item, queue, todo, spent>>
    /\ UNCHANGED <<status, gate, games, dispatch, notes, on, seen>>

\* The library is through: the gate opens and the authoritative check follows.
\* When the write of the gate fails it stays closed, and nobody checks.
OpenGate(p) ==
    /\ at[p] = "stream"
    /\ \/ /\ gate' = [gate EXCEPT ![on[p].job] = TRUE]
          /\ GoTo(p, "count")
          /\ UNCHANGED spent
       \/ Spend("faults", MaxFaults) /\ GoTo(p, "ack") /\ UNCHANGED gate
    /\ UNCHANGED <<status, item, games, river, notes, on, todo, seen>>

\* No config, no credentials, a failed fetch: markSyncJobFailed, statement one ...
FailJob(p) ==
    /\ at[p] = "stream"
    /\ status' = [status EXCEPT ![on[p].job] = "failed"]
    /\ GoTo(p, "cancelItems")
    /\ UNCHANGED <<gate, item, games, river, notes, on, todo, seen, spent>>

\* ... and statement two.  The gate stays closed.
CancelItems(p) ==
    /\ at[p] = "cancelItems"
    /\ item' = [item EXCEPT ![on[p].job] =
                  [g \in Games |-> IF @[g] = "pending" THEN "cancelled" ELSE @[g]]]
    /\ GoTo(p, "ack")
    /\ UNCHANGED <<status, gate, games, river, notes, on, todo, seen, spent>>

---------------------------------------------------------------------------
(* Stage 2: IGDBMatchWorker.Work. *)

Dequeue(t) == queue[t] > 0 /\ queue' = [queue EXCEPT ![t] = @ - 1]

\* The external game is read once; the item's own status is never looked at.
StartMatch(p, j, g) ==
    /\ Dequeue(Task("match", j, g))
    /\ Take(p, IF g \in skipped \cup resolved THEN "toWrite"
               ELSE IF Parent[g] # NoGame THEN "parent" ELSE "search",
            Task("match", j, g))
    /\ UNCHANGED <<rows, games, dispatch, notes, todo, seen, spent>>

\* A child inherits from a resolved parent, or leaves its item pending.
AskParent(p) ==
    /\ at[p] = "parent"
    /\ IF Parent[on[p].game] \in resolved
       THEN resolved' = resolved \cup {on[p].game} /\ GoTo(p, "toWrite")
       ELSE UNCHANGED resolved /\ GoTo(p, "ack")
    /\ UNCHANGED <<rows, known, skipped, library, river, notes, on, todo, seen, spent>>

\* Mutant: the completion check is forgotten when a match needs review.
SearchUnchecked(p) ==
    /\ at[p] = "search"
    /\ \/ resolved' = resolved \cup {on[p].game} /\ GoTo(p, "toWrite") /\ UNCHANGED item
       \/ SetItem(p, "pending_review") /\ GoTo(p, "ack") /\ UNCHANGED resolved
    /\ UNCHANGED <<status, gate, known, skipped, library, river, notes, on, todo, seen,
                   spent>>

\* The IGDB search: a confident match, or a question for the user.
Search(p) ==
    /\ at[p] = "search"
    /\ \/ resolved' = resolved \cup {on[p].game} /\ GoTo(p, "toWrite") /\ UNCHANGED item
       \/ SetItem(p, "pending_review") /\ GoTo(p, "count") /\ UNCHANGED resolved
    /\ UNCHANGED <<status, gate, known, skipped, library, river, notes, on, todo, seen,
                   spent>>

\* enqueueUserGame: a refused insert is followed by the check.
EnqueueUserGame(p) ==
    /\ at[p] = "toWrite"
    /\ \E accepted \in BOOLEAN :
         /\ EnqueueOrFail(Task("write", on[p].job, on[p].game), accepted)
         /\ GoTo(p, IF accepted THEN "ack" ELSE "count")
    /\ UNCHANGED <<status, gate, games, dispatch, notes, on, todo, seen>>

---------------------------------------------------------------------------
(* Stage 3: UserGameWorker.Work. *)

StartWrite(p, j, g) ==
    /\ Dequeue(Task("write", j, g))
    /\ Take(p, IF g \in skipped THEN "markSkipped"
               ELSE IF g \in resolved THEN "acquire" ELSE "markFailed",
            Task("write", j, g))
    /\ UNCHANGED <<rows, games, dispatch, notes, todo, seen, spent>>

\* usergame.Acquire, one transaction that may fail.
Acquire(p) ==
    /\ at[p] = "acquire"
    /\ \/ /\ library' = library \cup {on[p].game}
          /\ GoTo(p, "markCompleted")
          /\ UNCHANGED spent
       \/ Spend("faults", MaxFaults) /\ GoTo(p, "markFailed") /\ UNCHANGED library
    /\ UNCHANGED <<rows, known, resolved, skipped, river, notes, on, todo, seen>>

\* markItem*: an UPDATE by id, whatever the item's status is by now.
Mark(p) ==
    /\ \/ at[p] = "markSkipped"   /\ SetItem(p, "skipped")   /\ GoTo(p, "count")
       \/ at[p] = "markFailed"    /\ SetItem(p, "failed")    /\ GoTo(p, "count")
       \/ at[p] = "markCompleted" /\ SetItem(p, "completed") /\ GoTo(p, "siblings")
    /\ UNCHANGED <<status, gate, games, river, notes, on, todo, seen, spent>>

\* The children that wait for this game, in whatever job.
Siblings(p) ==
    /\ at[p] = "siblings"
    /\ todo' = [todo EXCEPT ![p] =
                  {w \in Jobs \X (Games \ (resolved \cup skipped)) :
                     Parent[w[2]] = on[p].game /\ item[w[1]][w[2]] = "pending"}]
    /\ GoTo(p, "trigger")
    /\ UNCHANGED <<rows, games, river, notes, on, seen, spent>>

---------------------------------------------------------------------------
(* SyncCheckJobCompletion: four statements, with anybody in between. *)

Count(p) ==
    /\ at[p] = "count"
    /\ GoTo(p, IF Remaining(on[p].job) = {} THEN "review" ELSE "ack")
    /\ UNCHANGED <<rows, games, river, notes, on, todo, seen, spent>>

\* Mutant: the user is told, but the job is not held.
ReviewPasses(p) ==
    LET j == on[p].job IN
    /\ at[p] = "review"
    /\ asked' = IF ItemsIn(j, {"pending_review"}) # {} THEN asked \cup {j} ELSE asked
    /\ GoTo(p, "finalize")
    /\ UNCHANGED <<rows, games, river, tried, announced, on, todo, seen, spent>>

\* Items for the user hold the job, and the user is told (once per job).
Review(p) ==
    LET j == on[p].job
        waiting == ItemsIn(j, {"pending_review"}) # {}
    IN  /\ at[p] = "review"
        /\ asked' = IF waiting THEN asked \cup {j} ELSE asked
        /\ GoTo(p, IF waiting THEN "ack" ELSE "finalize")
        /\ UNCHANGED <<rows, games, river, tried, announced, on, todo, seen, spent>>

\* An UPDATE whose guard is done, and whether it changed a row.
FinalizeIf(p, done) ==
    /\ at[p] = "finalize"
    /\ status' = IF done THEN [status EXCEPT ![on[p].job] = "completed"] ELSE status
    /\ GoTo(p, IF done THEN "announce" ELSE "ack")
    /\ UNCHANGED <<gate, item, games, river, notes, on, todo, seen, spent>>

\* Mutants: without requireDispatchComplete; without the status guard.
FinalizeUngated(p) == FinalizeIf(p, Active(on[p].job))
FinalizeAgain(p)   == FinalizeIf(p, gate[on[p].job])

\* finalizeJobCompleted with requireDispatchComplete: the guard is in the UPDATE.
Finalize(p) == FinalizeIf(p, Active(on[p].job) /\ gate[on[p].job])

\* The completion event, the diff and the chained store-link refresh.
Announce(p) ==
    /\ at[p] = "announce"
    /\ announced' = [announced EXCEPT ![on[p].job] = @ + 1]
    /\ GoTo(p, "ack")
    /\ UNCHANGED <<rows, games, river, tried, asked, on, todo, seen, spent>>

\* Work returns, and River records it.
Ack(p) ==
    /\ at[p] = "ack"
    /\ dispatch' = IF on[p].kind = "dispatch"
                   THEN [dispatch EXCEPT ![on[p].job] = "none"] ELSE dispatch
    /\ GoTo(p, "idle")
    /\ on' = [on EXCEPT ![p] = Nothing]
    /\ todo' = [todo EXCEPT ![p] = {}]
    /\ seen' = [seen EXCEPT ![p] = {}]
    /\ UNCHANGED <<rows, games, queue, notes, spent>>

---------------------------------------------------------------------------
(* HandleCancelJob: read, then two UPDATEs.  River's dispatch_sync task has *)
(* no job_item_id, so the second one does not reach it.                     *)

StartCancel(p, j) ==
    /\ Active(j)
    /\ Spend("cancels", MaxCancels)
    /\ Take(p, "cancelJob", [kind |-> "cancel", job |-> j, game |-> NoGame])
    /\ UNCHANGED <<rows, games, river, notes, todo, seen>>

CancelJob(p) ==
    /\ at[p] = "cancelJob"
    /\ status' = [status EXCEPT ![on[p].job] = "cancelled"]
    /\ GoTo(p, "cancelTasks")
    /\ UNCHANGED <<gate, item, games, river, notes, on, todo, seen, spent>>

CancelTasks(p) ==
    /\ at[p] = "cancelTasks"
    /\ queue' = [t \in Tasks |-> IF t.job = on[p].job THEN 0 ELSE queue[t]]
    /\ GoTo(p, "ack")
    /\ UNCHANGED <<rows, games, dispatch, notes, on, todo, seen, spent>>

---------------------------------------------------------------------------
(* The scheduler's safety nets, and what they are for. *)

\* p is executing a River task of the item.
WorksOn(p, j, g) ==
    at[p] # "idle" /\ \E k \in {"match", "write"} : on[p] = Task(k, j, g)

\* Some task of the item is queued or running, or about to be queued.
Backed(j, g) ==
    \/ \E k \in {"match", "write"} : queue[Task(k, j, g)] > 0
    \/ \E p \in Procs : WorksOn(p, j, g) \/ <<j, g>> \in todo[p]

\* Mutant: only the items of pending jobs are rescued.
RescueOfPendingJobs(j, g) ==
    /\ item[j][g] = "pending" /\ status[j] = "pending" /\ ~Backed(j, g)
    /\ \E accepted \in BOOLEAN : EnqueueOrFail(Task("match", j, g), accepted)
    /\ UNCHANGED <<status, gate, games, dispatch, notes, local>>

\* RescueOrphanedPendingItems, one item of its loop: pending for an hour in an
\* active job with no live task.  A refused insert fails the item, and nobody
\* checks the job.
Rescue(j, g) ==
    /\ item[j][g] = "pending" /\ Active(j) /\ ~Backed(j, g)
    /\ \E accepted \in BOOLEAN : EnqueueOrFail(Task("match", j, g), accepted)
    /\ UNCHANGED <<status, gate, games, dispatch, notes, local>>

\* CleanupStaleJobs, the rule for sync jobs.
CleanupStaleJobs(j) ==
    /\ Active(j) /\ ~gate[j]
    /\ ItemsIn(j, {"pending", "pending_review"}) = {}
    /\ status' = [status EXCEPT ![j] = "failed"]
    /\ UNCHANGED <<gate, item, games, river, notes, local, spent>>

\* The server dies.  River runs again what it had not recorded as done, but not a
\* dispatch that is out of attempts (reconcileOrphanedDispatchJobs).
Crash ==
    /\ Spend("crashes", MaxCrashes)
    /\ queue' = [t \in Tasks |-> queue[t] +
                   Cardinality({p \in Procs : at[p] # "idle" /\ on[p] = t})]
    /\ dispatch' = [j \in Jobs |-> IF dispatch[j] # "running" THEN dispatch[j]
                                   ELSE IF tried[j] < Attempts THEN "queued" ELSE "none"]
    /\ at' = [p \in Procs |-> "idle"]
    /\ on' = [p \in Procs |-> Nothing]
    /\ todo' = [p \in Procs |-> {}]
    /\ seen' = [p \in Procs |-> {}]
    /\ UNCHANGED <<rows, games, notes>>

\* An item worker's context ends: its statements fail, are logged, and it
\* returns nil.  (A dispatch has no timeout, and a failed search is retried.)
LoseWorker(p) ==
    /\ at[p] \notin {"idle", "search", "ack"} /\ on[p].kind \in {"match", "write"}
    /\ Spend("lost", MaxLost)
    /\ GoTo(p, "ack")
    /\ UNCHANGED <<rows, games, river, notes, on, todo, seen>>

---------------------------------------------------------------------------
Continue(p) ==
    \/ \E B \in SUBSET Games : StreamBatch(p, B)
    \/ EnqueueNext(p) \/ OpenGate(p) \/ FailJob(p) \/ CancelItems(p)
    \/ AskParent(p) \/ Search(p) \/ EnqueueUserGame(p)
    \/ Acquire(p) \/ Mark(p) \/ Siblings(p)
    \/ Count(p) \/ Review(p) \/ Finalize(p) \/ Announce(p) \/ Ack(p)
    \/ CancelJob(p) \/ CancelTasks(p)

Begin(p) ==
    \E j \in Jobs :
        \/ StartDispatch(p, j) \/ StartCancel(p, j)
        \/ \E g \in Games : StartMatch(p, j, g) \/ StartWrite(p, j, g)

Next ==
    \/ \E p \in Procs : Begin(p) \/ Continue(p) \/ LoseWorker(p)
    \/ \E j \in Jobs : Trigger(j) \/ CleanupStaleJobs(j) \/ \E g \in Games : Rescue(j, g)
    \/ Crash

Spec == Init /\ [][Next]_vars

\* Goroutines that run go on, River gets to every queued task, and the periodic
\* jobs come round.
Fairness ==
    /\ \A p \in Procs : WF_vars(Continue(p))
    /\ \A j \in Jobs :
         /\ WF_vars(\E p \in Procs : StartDispatch(p, j))
         /\ WF_vars(CleanupStaleJobs(j))
         /\ \A g \in Games :
              /\ WF_vars(Rescue(j, g))
              /\ WF_vars(\E p \in Procs : StartMatch(p, j, g))
              /\ WF_vars(\E p \in Procs : StartWrite(p, j, g))

FairSpec == Spec /\ Fairness

---------------------------------------------------------------------------
(* What is promised. *)

\* The gate of SyncCheckJobCompletion: "a sync job is never finalized while its
\* dispatch is still streaming batches".  Holds through crashes, re-dispatch,
\* cancellation and stale cleanup, whichever worker's check comes in when.
Streaming(p, j) == at[p] \in {"stream", "enqueue"} /\ on[p].kind = "dispatch" /\ on[p].job = j

GateHolds ==
    \A p \in Procs, j \in Jobs : Streaming(p, j) => ~gate[j] /\ status[j] # "completed"

\* The stage 3 of a parent that will still wake its waiting children.
WillWake(g) ==
    \/ \E j \in Jobs, k \in {"match", "write"} : queue[Task(k, j, g)] > 0
    \/ \E p \in Procs : /\ at[p] \notin {"idle", "trigger", "count", "review", "finalize",
                                          "announce", "ack"}
                         /\ on[p].kind \in {"match", "write"} /\ on[p].game = g

\* EnqueueOrFail: "job_items.status='pending' and the existence of a non-terminal
\* river_job row must stay in lockstep".  The one exception is a child that
\* waits: its parent is open, will wake it, or has failed.
Waits(j, g) ==
    LET parent == Parent[g] IN
    /\ parent # NoGame /\ g \notin resolved
    /\ parent \notin resolved \/ WillWake(parent)
       \/ \E i \in Jobs : item[i][parent] = "failed"

Lockstep ==
    \A j \in Jobs, g \in Games :
        Active(j) /\ item[j][g] = "pending" => Backed(j, g) \/ Waits(j, g)

\* finalizeJobCompleted reports success to one caller only, "to emit completion
\* notifications exactly once": two checks of one job never both announce it, as
\* long as its dispatch is not run again (then Emit's dedup key has to help).
Announcing(j) == {p \in Procs : at[p] = "announce" /\ on[p].job = j}

AnnouncedOnce ==
    \A j \in Jobs : tried[j] <= 1 => announced[j] + Cardinality(Announcing(j)) <= 1

\* The job's items that are not settled.
Open == [j \in Jobs |-> ItemsIn(j, {"pending", "pending_review"})]

Lifecycle == INSTANCE SyncLifecycle WITH Work <- Games, open <- Open

\* The sync documentation's job life cycle: a job completes only when every item
\* is settled, and its verdict is final.  For a library of one batch, with any
\* interleaving of workers, refused inserts and failed writes.
ImplementsLifecycle == Lifecycle!Spec

\* Between the last count and the UPDATE anything can happen: the count of
\* SyncCheckJobCompletion is stale when the UPDATE relies on it.
FinalizeSound ==
    [][\A j \in Jobs : Active(j) /\ status'[j] = "completed" => Open[j] = {}]_vars

\* "completed --> [*]" and "failed --> [*]": no terminal job becomes active again.
TerminalIsFinal ==
    [][\A j \in Jobs : status[j] \in TerminalStatus => ~Active(j)']_vars

\* A job ends, or the user is asked to review a match: whatever crashes, and
\* however its items, its dispatch and the safety nets overlap.  An item worker
\* that times out in its completion check is the exception: nobody repeats it.
JobSettles ==
    \A j \in Jobs :
        Active(j) ~> (~Active(j) \/ ItemsIn(j, {"pending_review"}) # {} \/ spent["lost"] > 0)

\* When a job only waits for the user, the user is told.
ReviewAsked ==
    \A j \in Jobs :
        (Active(j) /\ Remaining(j) = {} /\ ItemsIn(j, {"pending_review"}) # {})
            ~> (j \in asked \/ ~Active(j) \/ ItemsIn(j, {"pending_review"}) = {})

\* "Parent not yet resolved -- leave job_item in pending.  Stage 3 of the parent
\* will re-enqueue Stage 2 for this child": a waiting child gets its turn, or its
\* parent is a question to the user.
ChildWoken ==
    \A j \in Jobs, g \in Games :
        (Active(j) /\ item[j][g] = "pending")
            ~> (item[j][g] # "pending" \/ ~Active(j)
                \/ \E i \in Jobs : Parent[g] # NoGame /\ item[i][Parent[g]] = "pending_review")
=============================================================================
