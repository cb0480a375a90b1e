---- MODULE StoreLinks ----
(***************************************************************************)
(* The store-link refresh (internal/worker/tasks/store_link_refresh.go):    *)
(* a dispatch heals wedged predecessors, passes the active-job guard,       *)
(* writes a job with one item per (user, storefront) group and enqueues the *)
(* items after the commit; an item resolves the links of its group row by   *)
(* row (internal/services/storelink/resolver.go) and, last, runs the        *)
(* completion check of its job.                                             *)
(*                                                                          *)
(* A job is either global and forced, started by an administrator           *)
(* (internal/api/games.go), or covers one group after its sync.  The        *)
(* guards see other jobs of the same scope only.                            *)
(***************************************************************************)
EXTENDS Integers, FiniteSets

CONSTANTS
  LinkJobs,      \* ids of the refreshes started
  LinkScope,     \* job -> the groups it may cover; all of them when global
  LinkGroups,    \* (user, storefront) groups
  LinkRows,      \* available external games of resolvable storefronts
  GroupOf,       \* row -> its group
  LinkStore,     \* group -> its storefront
  ReapMinAge,    \* storeLinkReapMinAge
  MaxLinkTime,   \* bound on the clock
  MaxLinkFaults  \* bound on crashes and failed inserts

ASSUME LinkAssumption ==
  /\ LinkScope \in [LinkJobs -> SUBSET LinkGroups]
  /\ GroupOf \in [LinkRows -> LinkGroups]
  /\ LinkStore \in [LinkGroups -> {"steam", "gog", "epic", "psn"}]
  /\ ReapMinAge \in Nat

VARIABLES slJobs, slItems, slTasks, slLinked, slDispatch, slClock, slFaults

linkVars == <<slJobs, slItems, slTasks, slLinked, slDispatch, slClock, slFaults>>

Items == LinkJobs \X LinkGroups
JobOf(i) == i[1]
Global(j) == LinkScope[j] = LinkGroups
MaxAttempts == 3

LinksInit ==
  /\ slJobs = [j \in LinkJobs |-> "none"]
  /\ slItems = [i \in Items |-> [status |-> "none", born |-> 0, reaped |-> FALSE]]
  /\ slTasks = [i \in Items |-> [state |-> "none", attempt |-> 0, left |-> {}, once |-> "unset",
                                 force |-> FALSE]]
  /\ slLinked \in SUBSET LinkRows
  /\ slDispatch = [j \in LinkJobs |-> [pc |-> "none", stuck |-> {}]]
  /\ slClock = 0
  /\ slFaults = 0

Active(j) == slJobs[j] \in {"pending", "processing"}
Open(i) == slItems[i].status = "pending"
Live(i) == slTasks[i].state \in {"queued", "running", "check"}
DispatchAt(j, pc) == slDispatch[j].pc = pc
DispatchGoes(j, pc) == slDispatch' = [slDispatch EXCEPT ![j].pc = pc]

\* Jobs the guard of j counts: same source, and the same user when scoped.
SameKey(j) == {k \in LinkJobs \ {j} : LinkScope[k] = LinkScope[j] /\ Active(k)}

\* startMaintenanceRefresh: under the dedup lock, a pending row and the
\* dispatch task; a failed insert of the task deletes the row again.
HandleStartStoreLinkRefreshJob(j) ==
  /\ Global(j) /\ DispatchAt(j, "none")
  /\ IF SameKey(j) # {}
     THEN DispatchGoes(j, "done") /\ UNCHANGED slJobs
     ELSE DispatchGoes(j, "reap") /\ slJobs' = [slJobs EXCEPT ![j] = "pending"]
  /\ UNCHANGED <<slItems, slTasks, slLinked, slClock, slFaults>>

\* The end of a group's sync queues a scoped dispatch.
SyncCompleted(j) ==
  /\ ~Global(j) /\ DispatchAt(j, "none")
  /\ DispatchGoes(j, "reap")
  /\ UNCHANGED <<slJobs, slItems, slTasks, slLinked, slClock, slFaults>>

----
(* The dispatch *)

\* Mutant: the reaper without its minimum age.
OrphansOfAnyAge == {i \in Items : Active(JobOf(i)) /\ Open(i) /\ ~Live(i)}

\* Open items of active jobs, older than the reap age, without a live task.
Orphans == {i \in Items : /\ Active(JobOf(i)) /\ Open(i) /\ ~Live(i)
                          /\ slItems[i].born < slClock - ReapMinAge}

\* reapStuckStoreLinkJobs: the query, then the marks, then the checks.
ReapQuery(j) ==
  /\ DispatchAt(j, "reap")
  /\ slDispatch' = [slDispatch EXCEPT ![j] = [pc |-> "mark", stuck |-> Orphans]]
  /\ UNCHANGED <<slJobs, slItems, slTasks, slLinked, slClock, slFaults>>

ReapMark(j) ==
  /\ DispatchAt(j, "mark")
  /\ slItems' = [i \in Items |->
                   IF i \in slDispatch[j].stuck
                   THEN [slItems[i] EXCEPT !.status = "failed", !.reaped = TRUE]
                   ELSE slItems[i]]
  /\ DispatchGoes(j, "heal")
  /\ UNCHANGED <<slJobs, slTasks, slLinked, slClock, slFaults>>

\* storeLinkCheckJobCompletion of the jobs in K: an active job without an
\* open item completes.
Checked(K) == [k \in LinkJobs |->
                 IF /\ k \in K /\ Active(k)
                    /\ \A g \in LinkGroups : ~Open(<<k, g>>)
                 THEN "completed" ELSE slJobs[k]]

ReapCheck(j) ==
  /\ DispatchAt(j, "heal")
  /\ slJobs' = Checked({JobOf(i) : i \in slDispatch[j].stuck})
  /\ DispatchGoes(j, "guard")
  /\ UNCHANGED <<slItems, slTasks, slLinked, slClock, slFaults>>

\* The self-created path stops when an equivalent job is active; a job
\* started by the handler has its own row and skips the guard.
Guard(j) ==
  /\ DispatchAt(j, "guard")
  /\ DispatchGoes(j, IF ~Global(j) /\ SameKey(j) # {} THEN "done" ELSE "select")
  /\ UNCHANGED <<slJobs, slItems, slTasks, slLinked, slClock, slFaults>>

\* Target rows: all of them when forced, else those without a link.
Targets(force) == IF force THEN LinkRows ELSE LinkRows \ slLinked
SelectGroups(j) == {GroupOf[r] : r \in Targets(Global(j))} \cap LinkScope[j]

\* No group: a handler-owned row is finalized, otherwise nothing was made.
NothingToDo(j) ==
  /\ DispatchAt(j, "select")
  /\ SelectGroups(j) = {}
  /\ slJobs' = IF Active(j) THEN [slJobs EXCEPT ![j] = "completed"] ELSE slJobs
  /\ DispatchGoes(j, "done")
  /\ UNCHANGED <<slItems, slTasks, slLinked, slClock, slFaults>>

\* writeMaintenanceJobInTx: under the dedup lock the guard again, then the
\* job and its items in one transaction.
Write(j) ==
  /\ DispatchAt(j, "select")
  /\ SelectGroups(j) # {}
  /\ IF ~Global(j) /\ SameKey(j) # {}
     THEN DispatchGoes(j, "done") /\ UNCHANGED <<slJobs, slItems>>
     ELSE /\ slJobs' = [slJobs EXCEPT ![j] = "processing"]
          /\ slItems' = [i \in Items |->
                           IF JobOf(i) = j /\ i[2] \in SelectGroups(j)
                           THEN [status |-> "pending", born |-> slClock, reaped |-> FALSE]
                           ELSE slItems[i]]
          /\ DispatchGoes(j, "enqueue")
  /\ UNCHANGED <<slTasks, slLinked, slClock, slFaults>>

Waiting(j) == {i \in Items : JobOf(i) = j /\ slItems[i].status # "none" /\ slTasks[i].state = "none"}

\* EnqueueOrFail: the task of one item, or the item fails; nobody runs the
\* completion check for an item failed here.
EnqueueOrFail(j) ==
  /\ DispatchAt(j, "enqueue")
  /\ \E i \in Waiting(j) :
       \/ /\ slTasks' = [slTasks EXCEPT ![i] = [state |-> "queued", attempt |-> 1, left |-> {},
                                                once |-> "unset", force |-> Global(j)]]
          /\ UNCHANGED <<slItems, slFaults>>
       \/ /\ slFaults < MaxLinkFaults /\ slFaults' = slFaults + 1
          /\ slItems' = [slItems EXCEPT ![i].status = "failed"]
          /\ slTasks' = [slTasks EXCEPT ![i].state = "dead"]
  /\ UNCHANGED <<slJobs, slLinked, slDispatch, slClock>>

Enqueued(j) ==
  /\ DispatchAt(j, "enqueue") /\ Waiting(j) = {}
  /\ DispatchGoes(j, "done")
  /\ UNCHANGED <<slJobs, slItems, slTasks, slLinked, slClock, slFaults>>

\* A crash ends a dispatch for good: its task has one attempt.
DispatchCrash(j) ==
  /\ slDispatch[j].pc \notin {"none", "done"}
  /\ slFaults < MaxLinkFaults /\ slFaults' = slFaults + 1
  /\ DispatchGoes(j, "done")
  /\ UNCHANGED <<slJobs, slItems, slTasks, slLinked, slClock>>

----
(* An item *)

\* The item is loaded and its target rows selected; without a resolver the
\* item fails, and so does one whose rows cannot be read.
StartItem(i) ==
  /\ slTasks[i].state = "queued"
  /\ \/ /\ slTasks' = [slTasks EXCEPT ![i].state = "running",
                                    ![i].left = {r \in Targets(slTasks[i].force) : GroupOf[r] = i[2]}]
        /\ UNCHANGED slItems
     \/ /\ slItems' = [slItems EXCEPT ![i].status = "failed"]
        /\ slTasks' = [slTasks EXCEPT ![i].state = "check"]
  /\ UNCHANGED <<slJobs, slLinked, slDispatch, slClock, slFaults>>

\* What a resolver may answer for a row, with what it then keeps for the
\* other rows of its item: whether a link was found, and the fate of the
\* mapping or token it fetches once.
steamResolver(once) == {<<TRUE, once>>}
gogResolver(once) == {<<TRUE, once>>, <<FALSE, once>>}

\* Fetched by the first row that needs it; if that failed, every row fails.
OnceThen(once) == CASE once = "unset" -> {<<TRUE, "ok">>, <<FALSE, "ok">>, <<FALSE, "failed">>}
                    [] once = "ok" -> {<<TRUE, "ok">>, <<FALSE, "ok">>}
                    [] once = "failed" -> {<<FALSE, "failed">>}
epicResolver(once) == OnceThen(once) \cup {<<FALSE, once>>}   \* or a row without namespace
psnResolver(once) == OnceThen(once)

ResolveLink(store, once) ==
  CASE store = "steam" -> steamResolver(once) [] store = "gog" -> gogResolver(once)
    [] store = "epic" -> epicResolver(once) [] store = "psn" -> psnResolver(once)

\* ResolveLink one row: a link is stored; an error or an empty link leaves the
\* row, and the link it may have had, alone.
ResolveRow(i) ==
  /\ slTasks[i].state = "running"
  /\ \E r \in slTasks[i].left, answer \in ResolveLink(LinkStore[i[2]], slTasks[i].once) :
       /\ slTasks' = [slTasks EXCEPT ![i].left = @ \ {r}, ![i].once = answer[2]]
       /\ slLinked' = IF answer[1] THEN slLinked \cup {r} ELSE slLinked
  /\ UNCHANGED <<slJobs, slItems, slDispatch, slClock, slFaults>>

\* The rows are done, or the context ended first: then the deferred
\* finalizer marks the item failed, with a context that cannot be cancelled.
FinishItem(i) ==
  /\ slTasks[i].state = "running"
  /\ \/ slTasks[i].left = {} /\ slItems' = [slItems EXCEPT ![i].status = "completed"]
     \/ slTasks[i].left # {} /\ slItems' = [slItems EXCEPT ![i].status = "failed"]
  /\ slTasks' = [slTasks EXCEPT ![i].state = "check"]
  /\ UNCHANGED <<slJobs, slLinked, slDispatch, slClock, slFaults>>

CheckItem(i) ==
  /\ slTasks[i].state = "check"
  /\ slJobs' = Checked({JobOf(i)})
  /\ slTasks' = [slTasks EXCEPT ![i].state = "dead"]
  /\ UNCHANGED <<slItems, slLinked, slDispatch, slClock, slFaults>>

\* A task that ended without a result runs again while it has attempts left.
Retried(t) ==
  IF t.attempt < MaxAttempts
  THEN [t EXCEPT !.state = "queued", !.attempt = @ + 1, !.left = {}, !.once = "unset"]
  ELSE [t EXCEPT !.state = "dead"]

\* A crash, or an item that could not be loaded.
TaskFault(i) ==
  /\ Live(i)
  /\ slFaults < MaxLinkFaults /\ slFaults' = slFaults + 1
  /\ slTasks' = [slTasks EXCEPT ![i] = Retried(slTasks[i])]
  /\ UNCHANGED <<slJobs, slItems, slLinked, slDispatch, slClock>>

\* A dispatch enqueues its few items within the reap age: the clock does not
\* outrun one that is between its commit and its last insert.
LinkTick ==
  /\ slClock < MaxLinkTime
  /\ \A j \in LinkJobs : DispatchAt(j, "enqueue") =>
       \A i \in Waiting(j) : slClock < slItems[i].born + ReapMinAge
  /\ slClock' = slClock + 1
  /\ UNCHANGED <<slJobs, slItems, slTasks, slLinked, slDispatch, slFaults>>

LinksNext ==
  \/ \E j \in LinkJobs :
       \/ HandleStartStoreLinkRefreshJob(j) \/ SyncCompleted(j)
       \/ ReapQuery(j) \/ ReapMark(j) \/ ReapCheck(j) \/ Guard(j) \/ NothingToDo(j) \/ Write(j)
       \/ EnqueueOrFail(j) \/ Enqueued(j) \/ DispatchCrash(j)
  \/ \E i \in Items :
       StartItem(i) \/ ResolveRow(i) \/ FinishItem(i) \/ CheckItem(i) \/ TaskFault(i)
  \/ LinkTick

LinksSpec == LinksInit /\ [][LinksNext]_linkVars

\* The reaper of one dispatch never fails an item that another dispatch is
\* still about to enqueue or that a worker will still run: what it declares
\* orphaned has no live task, then or later (store_link_refresh.go: "keeps
\* the reaper from failing a just-dispatched item").
OnlyOrphansReaped == \A i \in Items : slItems[i].reaped => ~Live(i)

====
