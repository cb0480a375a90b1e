---------------------------- MODULE ImportPipeline ----------------------------
(***************************************************************************)
(* One uploaded file.  A mapped file (CSV, vglist) goes through            *)
(* enqueueImportJob, ImportMatchWorker, the user's review and              *)
(* ImportFinalizeWorker; a Nexorious export has its own handler, its own   *)
(* ImportItemWorker, its own completion check and, at the end, the play    *)
(* pools of the file.  Handlers and workers meet only in the database: a   *)
(* step is a committed statement, or several nobody can tell apart.        *)
(*                                                                         *)
(* A budget bounds what goes wrong or comes in from the side: a death of   *)
(* the server, a refused task, a failed statement, a cancellation, a retry.*)
(***************************************************************************)
EXTENDS Naturals, FiniteSets

CONSTANTS
    NItems,      \* games in the file
    Workers,     \* goroutines: River's workers and the HTTP handlers
    WithId,      \* items whose row carries an IGDB id (a re-imported export)
    MaxMishaps   \* bound: what goes wrong or comes from the side

ASSUME ImportAssumption ==
    /\ NItems \in Nat \ {0} /\ WithId \subseteq 1..NItems /\ MaxMishaps \in Nat
    /\ IsFiniteSet(Workers)

Items == 1..NItems
ImportTasks == [kind : {"match", "finalize", "item"}, item : Items]

VARIABLES
    imKind,      \* "generic" or "nexorious"
    imStatus,    \* jobs.status, "absent" before the upload
    imGate,      \* jobs.dispatch_complete
    imItem,      \* job_items.status
    imResolved,  \* items with a resolved_igdb_id
    imOwned,     \* items whose game is in the library
    imPools,     \* the synthetic pools item: "none" or "stashed"
    imQueue,     \* River: how many tasks of each kind are queued
    imAt,        \* where each goroutine is
    imOn,        \* what it works on
    imTodo,      \* items a retry still has to enqueue
    imFinals,    \* history: UPDATEs that completed the job
    imEvents,    \* history: completion events emitted
    imPoolRuns,  \* history: runs of applyImportedPools
    imSpent,     \* how much of the budget is used
    imLost       \* a check or a task is lost that nobody makes up for

imJob    == <<imKind, imStatus, imGate>>
imData   == <<imItem, imResolved, imOwned, imPools>>
imLocal  == <<imAt, imOn, imTodo>>
imHist   == <<imFinals, imEvents, imPoolRuns>>
importVars == <<imJob, imData, imQueue, imLocal, imHist, imSpent, imLost>>

imActive == imStatus \in {"pending", "processing"}
ItemsWith(S) == {i \in Items : imItem[i] \in S}

Here(w, label)   == imAt[w] = label
Mishap           == imSpent < MaxMishaps /\ imSpent' = imSpent + 1
Task(k, i)       == [kind |-> k, item |-> i]
Unused           == [kind |-> "none", item |-> 1]
Write(w, s)      == imItem' = [imItem EXCEPT ![imOn[w].item] = s]

\* The next statement of w; with the last one River has its answer, too.
Go(w, label) ==
    /\ imAt' = [imAt EXCEPT ![w] = label]
    /\ imOn' = IF label = "idle" THEN [imOn EXCEPT ![w] = Unused] ELSE imOn

\* An idle goroutine takes up a task or a request.
TakeUp(w, label, what) ==
    /\ Here(w, "idle")
    /\ imAt' = [imAt EXCEPT ![w] = label]
    /\ imOn' = [imOn EXCEPT ![w] = what]

\* EnqueueOrFail(i) after i was set to s: refused, a pending item fails, unless that
\* write is refused too, and one in another status stays.
EnqueueSet(k, i, s, accepted) ==
    IF accepted
    THEN /\ imQueue' = [imQueue EXCEPT ![Task(k, i)] = @ + 1]
         /\ imItem' = [imItem EXCEPT ![i] = s]
         /\ UNCHANGED imSpent
    ELSE /\ Mishap
         /\ \E t \in IF s = "pending" THEN {"failed", s} ELSE {s} :
               imItem' = [imItem EXCEPT ![i] = t]
         /\ UNCHANGED imQueue

Enqueue(k, i, accepted) == EnqueueSet(k, i, imItem[i], accepted)

\* ArgsForJobType: where a retried or rescued item enters.
EntryTask == IF imKind = "generic" THEN "match" ELSE "item"

ImportInit ==
    /\ imKind \in {"generic", "nexorious"}
    /\ imStatus = "absent" /\ imGate = TRUE
    /\ imItem = [i \in Items |-> "absent"]
    /\ imResolved = {} /\ imOwned = {} /\ imPools = "none"
    /\ imQueue = [t \in ImportTasks |-> 0]
    /\ imAt = [w \in Workers |-> "idle"]
    /\ imOn = [w \in Workers |-> Unused]
    /\ imTodo = [w \in Workers |-> {}]
    /\ imFinals = 0 /\ imEvents = 0 /\ imPoolRuns = 0
    /\ imSpent = 0 /\ imLost = FALSE

---------------------------------------------------------------------------
(* The upload. *)

\* Mutant: the row keeps the column's default, an open gate, as an export's does.
UploadOpen(w) ==
    /\ imKind = "generic" /\ imStatus = "absent"
    /\ TakeUp(w, "stream", Task("upload", 1))
    /\ imStatus' = "processing" /\ imGate' = TRUE
    /\ UNCHANGED <<imKind, imData, imQueue, imTodo, imHist, imSpent, imLost>>

\* enqueueImportJob: the row, with the gate closed.
Upload(w) ==
    /\ imKind = "generic" /\ imStatus = "absent"
    /\ TakeUp(w, "stream", Task("upload", 1))
    /\ imStatus' = "processing" /\ imGate' = FALSE
    /\ UNCHANGED <<imKind, imData, imQueue, imTodo, imHist, imSpent, imLost>>

\* HandleImportNexorious leaves the gate open and stashes the pools, if there are
\* any, as an item that is completed already.
UploadExport(w) ==
    /\ imKind = "nexorious" /\ imStatus = "absent"
    /\ TakeUp(w, "stream", Task("upload", 1))
    /\ imStatus' = "pending" /\ imGate' = TRUE
    /\ imPools' \in {"none", "stashed"}
    /\ UNCHANGED <<imKind, imItem, imResolved, imOwned, imQueue, imTodo, imHist, imSpent, imLost>>

\* The next item and its task; a failed insert ends the request, with whatever gate
\* the job has and nobody to check.
InsertItem(w) ==
    LET i == imOn[w].item IN
    /\ Here(w, "stream") /\ i <= NItems
    /\ \/ /\ \E accepted \in BOOLEAN : EnqueueSet(EntryTask, i, "pending", accepted)
          /\ imOn' = [imOn EXCEPT ![w].item = @ + 1] /\ UNCHANGED <<imAt, imLost>>
       \/ Mishap /\ Go(w, "idle") /\ imLost' = TRUE /\ UNCHANGED <<imItem, imQueue>>
    /\ UNCHANGED <<imJob, imResolved, imOwned, imPools, imTodo, imHist>>

\* A malformed game of an export gets no item.
PassOverMalformed(w) ==
    /\ imKind = "nexorious" /\ Here(w, "stream") /\ imOn[w].item <= NItems
    /\ imOn' = [imOn EXCEPT ![w].item = @ + 1]
    /\ UNCHANGED <<imJob, imData, imQueue, imAt, imTodo, imHist, imSpent, imLost>>

\* Mutant: the gate opens and nobody checks.
EndUploadOnly(w) ==
    /\ Here(w, "stream") /\ imOn[w].item > NItems
    /\ imGate' = TRUE
    /\ Go(w, "idle")
    /\ UNCHANGED <<imKind, imStatus, imData, imQueue, imTodo, imHist, imSpent, imLost>>

\* Every item exists: the gate opens, or the failure is logged, and the handler
\* checks; the handler of an export just returns.
EndUpload(w) ==
    /\ Here(w, "stream") /\ imOn[w].item > NItems
    /\ \/ imGate' = TRUE /\ UNCHANGED <<imSpent, imLost>>
       \/ imKind = "generic" /\ Mishap /\ imLost' = TRUE /\ UNCHANGED imGate
    /\ Go(w, IF imKind = "generic" THEN "count" ELSE "idle")
    /\ UNCHANGED <<imKind, imStatus, imData, imQueue, imTodo, imHist>>

---------------------------------------------------------------------------
(* The workers.  What happens between taking a task and the first write is *)
(* nobody's business: no worker looks at the status of its item.           *)

Fetch(k, i) == imQueue[Task(k, i)] > 0 /\ imQueue' = [imQueue EXCEPT ![Task(k, i)] = @ - 1]

\* ImportMatchWorker: a trusted id or a confident match ...
StartMatch(w, i) ==
    /\ Fetch("match", i)
    /\ TakeUp(w, "toFinalize", Task("match", i))
    /\ imResolved' = imResolved \cup {i}
    /\ UNCHANGED <<imJob, imItem, imOwned, imPools, imTodo, imHist, imSpent, imLost>>

\* ... or a question for the user (also without IGDB, and when the third search
\* failed), and the check.
MarkPendingReview(w, i) ==
    /\ i \notin WithId
    /\ Fetch("match", i)
    /\ TakeUp(w, "count", Task("match", i))
    /\ imItem' = [imItem EXCEPT ![i] = "pending_review"]
    /\ UNCHANGED <<imJob, imResolved, imOwned, imPools, imTodo, imHist, imSpent, imLost>>

EnqueueFinalize(w) ==
    /\ Here(w, "toFinalize")
    /\ \E accepted \in BOOLEAN :
          /\ Enqueue("finalize", imOn[w].item, accepted)
          /\ Go(w, IF accepted \/ imOn[w].kind = "resolve" THEN "idle" ELSE "count")
          /\ imLost' = (imLost \/ (~accepted /\ imOn[w].kind = "resolve"))
    /\ UNCHANGED <<imJob, imResolved, imOwned, imPools, imTodo, imHist>>

\* ImportFinalizeWorker: the games row and Acquire, either of which may fail.
StartFinalize(w, i) ==
    /\ Fetch("finalize", i)
    /\ \/ /\ i \in imResolved
          /\ TakeUp(w, "markCompleted", Task("finalize", i))
          /\ imOwned' = imOwned \cup {i}
       \/ TakeUp(w, "markFailed", Task("finalize", i)) /\ UNCHANGED imOwned
    /\ UNCHANGED <<imJob, imItem, imResolved, imPools, imTodo, imHist, imSpent, imLost>>

\* ImportItemWorker: the same in one stage, or an item that cannot be read.
StartItem(w, i) ==
    /\ Fetch("item", i)
    /\ \/ TakeUp(w, "markCompleted", Task("item", i)) /\ imOwned' = imOwned \cup {i}
       \/ TakeUp(w, "markFailed", Task("item", i)) /\ UNCHANGED imOwned
    /\ UNCHANGED <<imJob, imItem, imResolved, imPools, imTodo, imHist, imSpent, imLost>>

\* The item cannot be read: the task is over all the same.  A pending item is the
\* sweeper's, a resolved one nobody's.
LoseTask(k, i) ==
    /\ Fetch(k, i) /\ Mishap
    /\ imLost' = (imLost \/ imItem[i] = "processing")
    /\ UNCHANGED <<imJob, imData, imLocal, imHist>>

\* By id, whatever the status is by now; then the check of the pipeline.
MarkItem(w) ==
    /\ \/ Here(w, "markCompleted") /\ Write(w, "completed")
       \/ Here(w, "markFailed") /\ Write(w, "failed")
       \/ Here(w, "markSkipped") /\ Write(w, "skipped")
    /\ Go(w, "count")
    /\ UNCHANGED <<imJob, imResolved, imOwned, imPools, imQueue, imTodo, imHist, imSpent, imLost>>

\* The write fails: the worker checks all the same, HandleSkipItem answers 500.
MarkNothing(w) ==
    /\ imAt[w] \in {"markCompleted", "markFailed", "markSkipped"} /\ Mishap
    /\ Go(w, IF Here(w, "markSkipped") THEN "idle" ELSE "count")
    /\ imLost' = (imLost \/ imItem[imOn[w].item] = "processing")
    /\ UNCHANGED <<imJob, imData, imQueue, imTodo, imHist>>

---------------------------------------------------------------------------
(* The completion checks. *)

\* checkJobCompletion: pending alone, and neither reviews nor the gate.
CountPending(w) ==
    /\ imKind = "nexorious" /\ Here(w, "count")
    /\ Go(w, IF ItemsWith({"pending"}) # {} THEN "idle" ELSE "finalize")
    /\ UNCHANGED <<imJob, imData, imQueue, imTodo, imHist, imSpent, imLost>>

\* ImportCheckJobCompletion: what is active, then what is in review, then the UPDATE.
CountActive(w) ==
    /\ imKind = "generic" /\ Here(w, "count")
    /\ Go(w, IF ItemsWith({"pending", "processing"}) # {} THEN "idle" ELSE "review")
    /\ UNCHANGED <<imJob, imData, imQueue, imTodo, imHist, imSpent, imLost>>

CountReview(w) ==
    /\ Here(w, "review")
    /\ Go(w, IF ItemsWith({"pending_review"}) # {} THEN "idle" ELSE "finalize")
    /\ UNCHANGED <<imJob, imData, imQueue, imTodo, imHist, imSpent, imLost>>

\* A count or the UPDATE fails, and nobody checks again.
GiveUpCheck(w) ==
    /\ imAt[w] \in {"count", "review", "finalize"} /\ Mishap
    /\ Go(w, "idle") /\ imLost' = TRUE
    /\ UNCHANGED <<imJob, imData, imQueue, imTodo, imHist>>

\* Mutant: the result of the UPDATE is ignored, as checkJobCompletion does.
FinalizeAnyway(w) ==
    /\ Here(w, "finalize")
    /\ LET done == imActive /\ (imKind = "generic" => imGate) IN
       /\ imStatus' = IF done THEN "completed" ELSE imStatus
       /\ imFinals' = imFinals + IF done THEN 1 ELSE 0
    /\ Go(w, IF imPools = "stashed" THEN "pools" ELSE "emit")
    /\ UNCHANGED <<imKind, imGate, imData, imQueue, imTodo, imEvents, imPoolRuns, imSpent, imLost>>

\* finalizeJobCompleted: who completes the job goes on to the pools and the event;
\* the check of an export emits its event in any case.
FinalizeImport(w) ==
    /\ Here(w, "finalize")
    /\ LET done == imActive /\ (imKind = "generic" => imGate) IN
       /\ imStatus' = IF done THEN "completed" ELSE imStatus
       /\ imFinals' = imFinals + IF done THEN 1 ELSE 0
       /\ Go(w, IF done /\ imPools = "stashed" THEN "pools"
                ELSE IF done \/ imKind = "nexorious" THEN "emit" ELSE "idle")
    /\ UNCHANGED <<imKind, imGate, imData, imQueue, imTodo, imEvents, imPoolRuns, imSpent, imLost>>

\* applyImportedPools: additive, from the games that are in the library by now.
ApplyPools(w) ==
    /\ Here(w, "pools")
    /\ imPoolRuns' = imPoolRuns + 1
    /\ Go(w, "emit")
    /\ UNCHANGED <<imJob, imData, imQueue, imTodo, imFinals, imEvents, imSpent, imLost>>

\* The failed items are counted for the wording, and the event goes out.
EmitDone(w) ==
    /\ Here(w, "emit")
    /\ imEvents' = imEvents + 1
    /\ Go(w, "idle")
    /\ UNCHANGED <<imJob, imData, imQueue, imTodo, imFinals, imPoolRuns, imSpent, imLost>>

---------------------------------------------------------------------------
(* The user's handlers: a read that decides, and then writes by id. *)

\* HandleResolveItem: only the generic pipeline has a finalize stage.
StartResolve(w, i) ==
    /\ imItem[i] = "pending_review"
    /\ TakeUp(w, "resolve", Task("resolve", i))
    /\ UNCHANGED <<imJob, imData, imQueue, imTodo, imHist, imSpent, imLost>>

ResolveItem(w) ==
    /\ Here(w, "resolve")
    /\ Write(w, "processing")
    /\ imResolved' = imResolved \cup {imOn[w].item}
    /\ Go(w, "toFinalize")
    /\ UNCHANGED <<imJob, imOwned, imPools, imQueue, imTodo, imHist, imSpent, imLost>>

\* HandleSkipItem.
StartSkip(w, i) ==
    /\ imItem[i] = "pending_review"
    /\ TakeUp(w, "markSkipped", Task("skip", i))
    /\ UNCHANGED <<imJob, imData, imQueue, imTodo, imHist, imSpent, imLost>>

\* HandleRetryItem: the item alone; the job keeps its status.
StartRetryItem(w, i) ==
    /\ imItem[i] = "failed" /\ Mishap
    /\ TakeUp(w, "retryItem", Task("retry", i))
    /\ UNCHANGED <<imJob, imData, imQueue, imTodo, imHist, imLost>>

RetryItem(w) ==
    /\ Here(w, "retryItem")
    /\ Write(w, "pending")
    /\ imTodo' = [imTodo EXCEPT ![w] = {imOn[w].item}]
    /\ Go(w, "retryInsert")
    /\ UNCHANGED <<imJob, imResolved, imOwned, imPools, imQueue, imOn, imHist, imSpent, imLost>>

\* HandleRetryFailed: the failed items, then the job, then the tasks.
StartRetryFailed(w) ==
    /\ ItemsWith({"failed"}) # {} /\ Mishap
    /\ TakeUp(w, "retryFailed", Task("retry", 1))
    /\ imTodo' = [imTodo EXCEPT ![w] = ItemsWith({"failed"})]
    /\ UNCHANGED <<imJob, imData, imQueue, imHist, imLost>>

RetryFailed(w) ==
    /\ Here(w, "retryFailed")
    /\ imItem' = [i \in Items |-> IF imItem[i] = "failed" THEN "pending" ELSE imItem[i]]
    /\ Go(w, "reopen")
    /\ UNCHANGED <<imJob, imResolved, imOwned, imPools, imQueue, imTodo, imHist, imSpent, imLost>>

Reopen(w) ==
    /\ Here(w, "reopen")
    /\ imStatus' = "processing"
    /\ Go(w, "retryInsert")
    /\ UNCHANGED <<imKind, imGate, imData, imQueue, imTodo, imHist, imSpent, imLost>>

\* retryInsert of each item that was read.
RetryInsert(w) ==
    /\ Here(w, "retryInsert")
    /\ \/ \E i \in imTodo[w], accepted \in BOOLEAN :
             /\ Enqueue(EntryTask, i, accepted) /\ imLost' = (imLost \/ ~accepted)
             /\ imTodo' = [imTodo EXCEPT ![w] = @ \ {i}]
             /\ UNCHANGED <<imAt, imOn>>
       \/ imTodo[w] = {} /\ Go(w, "idle") /\ UNCHANGED <<imItem, imQueue, imTodo, imSpent, imLost>>
    /\ UNCHANGED <<imJob, imResolved, imOwned, imPools, imHist>>

\* HandleCancelJob: read, the row, the queued tasks.
StartCancelImport(w) ==
    /\ imActive /\ Mishap
    /\ TakeUp(w, "cancel", Task("cancel", 1))
    /\ UNCHANGED <<imJob, imData, imQueue, imTodo, imHist, imLost>>

CancelImport(w) ==
    /\ Here(w, "cancel")
    /\ imStatus' = "cancelled"
    /\ Go(w, "cancelTasks")
    /\ UNCHANGED <<imKind, imGate, imData, imQueue, imTodo, imHist, imSpent, imLost>>

CancelImportTasks(w) ==
    /\ Here(w, "cancelTasks")
    /\ imQueue' = [t \in ImportTasks |-> 0]
    /\ Go(w, "idle")
    /\ UNCHANGED <<imJob, imData, imTodo, imHist, imSpent, imLost>>

---------------------------------------------------------------------------
(* The safety nets and the crash. *)

\* Some task of the item is queued or running.  One that a retry is about to insert
\* is not seen, and the items that a retry has reset are old enough.
BackedItem(i) ==
    \E k \in {"match", "finalize", "item"} :
        imQueue[Task(k, i)] > 0 \/ \E w \in Workers : imOn[w] = Task(k, i)

RescueItem(i) ==
    /\ imItem[i] = "pending" /\ imActive /\ ~BackedItem(i)
    /\ \E accepted \in BOOLEAN :
          Enqueue(EntryTask, i, accepted) /\ imLost' = (imLost \/ ~accepted)
    /\ UNCHANGED <<imJob, imResolved, imOwned, imPools, imLocal, imHist>>

\* River runs a match again (three attempts), a finalize or an item never.
CrashImport ==
    /\ Mishap
    /\ imQueue' = [t \in ImportTasks |-> imQueue[t] +
                     IF t.kind = "match" THEN Cardinality({w \in Workers : imOn[w] = t}) ELSE 0]
    /\ imAt' = [w \in Workers |-> "idle"]
    /\ imOn' = [w \in Workers |-> Unused]
    /\ imTodo' = [w \in Workers |-> {}]
    /\ imLost' = TRUE
    /\ UNCHANGED <<imJob, imData, imHist>>

---------------------------------------------------------------------------
ContinueImport(w) ==
    \/ InsertItem(w) \/ PassOverMalformed(w) \/ EndUpload(w) \/ EnqueueFinalize(w) \/ MarkItem(w) \/ MarkNothing(w)
    \/ GiveUpCheck(w) \/ CountPending(w) \/ CountActive(w) \/ CountReview(w) \/ FinalizeImport(w) \/ ApplyPools(w) \/ EmitDone(w)
    \/ ResolveItem(w) \/ RetryItem(w) \/ RetryFailed(w) \/ Reopen(w) \/ RetryInsert(w)
    \/ CancelImport(w) \/ CancelImportTasks(w)

RunTask(i) ==
    \E w \in Workers :
        \/ StartMatch(w, i) \/ MarkPendingReview(w, i)
        \/ StartFinalize(w, i) \/ StartItem(w, i)

UserRequest(w) ==
    \/ Upload(w) \/ UploadExport(w) \/ StartRetryFailed(w) \/ StartCancelImport(w)
    \/ \E i \in Items : StartResolve(w, i) \/ StartSkip(w, i) \/ StartRetryItem(w, i)

ImportNext ==
    \/ \E w \in Workers : ContinueImport(w) \/ UserRequest(w)
    \/ \E i \in Items : RunTask(i) \/ RescueItem(i) \/ \E k \in {"match", "finalize", "item"} : LoseTask(k, i)
    \/ CrashImport

ImportSpec == ImportInit /\ [][ImportNext]_importVars

\* Goroutines go on, River gets to every task, and the sweeper comes round.
ImportFairness ==
    /\ \A w \in Workers : WF_importVars(ContinueImport(w))
    /\ \A i \in Items : WF_importVars(RunTask(i)) /\ WF_importVars(RescueItem(i))

ImportFairSpec == ImportSpec /\ ImportFairness

---------------------------------------------------------------------------
(* What is promised. *)

(* "The completion check refuses to finalize while dispatch is in flight":  *)
(* a mapped file is not finished while its upload still inserts items, with *)
(* workers, retries and cancellations at any moment.                        *)
ImportGateHolds ==
    \A w \in Workers :
        imKind = "generic" /\ Here(w, "stream")
            => ~imGate /\ imStatus # "completed"

(* finalizeJobCompleted tells one caller that it did it: the pools of an    *)
(* export are applied, and the event of a mapped file is emitted, once for  *)
(* each time the job was completed (a retry completes it again), however    *)
(* many last workers check at once, and never for a cancelled job.          *)
FinalizerOnly ==
    /\ imPoolRuns <= imFinals
    /\ imKind = "generic" => imEvents <= imFinals

(* A mapped file ends, or waits for the user: refused tasks of its upload   *)
(* and its matches, items that cannot be read or written while they are     *)
(* pending, retries and cancellations are made up for.  imLost names what   *)
(* is not: an upload cut short or that does not open its gate, a check that *)
(* fails, an item in the user's resolve that is lost or not written, a      *)
(* task refused to a resolve, a retry or the sweeper (nobody checks), and a *)
(* crash (no stale rule looks at imports).                                  *)
ImportSettles ==
    (imKind = "generic" /\ imActive)
        ~> (~imActive \/ ItemsWith({"pending_review"}) # {} \/ imLost)

(* Without that exception: the import need not end (nor can the user then   *)
(* upload another file of that source before cancelling it).                *)
ImportEnds ==
    (imKind = "generic" /\ imActive)
        ~> (~imActive \/ ItemsWith({"pending_review"}) # {})

(* The pools of an export are "applied once at the job-completion           *)
(* transition, after every game's user_game exists".                        *)
PoolsApplyLast ==
    [][imPoolRuns' > imPoolRuns =>
         /\ ItemsWith({"pending"}) = {}
         /\ \A w \in Workers : ~Here(w, "stream")]_importVars
=============================================================================
