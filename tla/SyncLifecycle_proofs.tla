------------------------- MODULE SyncLifecycle_proofs -------------------------
(***************************************************************************)
(* The sync pipeline implements the job life cycle of its documentation:   *)
(* Spec => ImplementsLifecycle, for any number of jobs, goroutines, games, *)
(* refused inserts, failed writes and timed-out workers, as long as the    *)
(* server does not die, nobody cancels, and the library is one batch.      *)
(*                                                                         *)
(* Each hypothesis is needed: a second batch, a dispatch run again or a    *)
(* cancelled dispatch that streams on can put an item into a job whose     *)
(* completion was already counted (the runs that expect a violation).      *)
(*                                                                         *)
(* The step that has to be right is Finalize: the count it relies on is    *)
(* two statements old.  What makes it right is that a game without a       *)
(* parent has one task at most, and that task a pending item (Single):     *)
(* once no item is pending, no worker is left that could put one into      *)
(* review.                                                                 *)
(*                                                                         *)
(* The second part proves Lockstep, for libraries of any number of batches *)
(* but one job: no pending item is without a task or the prospect of one.  *)
(***************************************************************************)
EXTENDS SyncPipeline_proofs

\* Labels at which a worker still has its item in hand.
WorkLabels == {"parent", "search", "toWrite", "acquire",
               "markSkipped", "markFailed", "markCompleted"}

\* p has the item in hand, or will enqueue it.
Holds(p, j, g) ==
    \/ <<j, g>> \in todo[p]
    \/ at[p] \in WorkLabels /\ on[p].job = j /\ on[p].game = g

\* Nobody cancels ...
Quiet == \A p \in Procs :
    /\ at[p] \notin {"cancelJob", "cancelTasks"}
    /\ at[p] # "idle" => on[p].kind # "cancel"

\* ... a worker's label fits its task ...
OnTask == \A p \in Procs :
    /\ at[p] \in WorkLabels \cup {"siblings"} => on[p] \in Tasks
    /\ at[p] = "search" => Parent[on[p].game] = NoGame
    /\ todo[p] # {} => at[p] \in {"enqueue", "trigger", "ack"}

\* ... and a game without a parent is in one place at most: queued, in a list, or
\* in a worker's hands; and then its item is pending or its job has failed.
OnePlace(j, g) ==
    /\ queue[Task("match", j, g)] + queue[Task("write", j, g)] <= 1
    /\ \A p, q \in Procs : Holds(p, j, g) /\ Holds(q, j, g) => p = q
    /\ \A p \in Procs : Holds(p, j, g) =>
         queue[Task("match", j, g)] = 0 /\ queue[Task("write", j, g)] = 0
    /\ \/ item[j][g] = "pending" \/ status[j] = "failed"
       \/ /\ queue[Task("match", j, g)] = 0 /\ queue[Task("write", j, g)] = 0
          /\ \A p \in Procs : ~Holds(p, j, g)

Single == \A j \in Jobs, g \in Games : Parent[g] = NoGame => OnePlace(j, g)

\* A job waits for its dispatch exactly while it is 'pending'.
Statuses == \A j \in Jobs :
    /\ dispatch[j] = "queued" <=> status[j] = "pending"
    /\ status[j] \in {"absent", "pending"} => tried[j] = 0 /\ gate[j]
    /\ status[j] # "cancelled"

\* Nothing of j exists, and nobody but p is on it.
Untouched(j, p) ==
    /\ \A g \in Games : /\ item[j][g] = "absent"
                        /\ queue[Task("match", j, g)] = 0
                        /\ queue[Task("write", j, g)] = 0
                        /\ \A q \in Procs : <<j, g>> \notin todo[q]
    /\ \A q \in Procs \ {p} : at[q] # "idle" => on[q].job # j

\* Until its first batch a dispatch finds its job untouched.
Opening == \A p \in Procs :
    at[p] = "stream" /\ seen[p] = {} => Untouched(on[p].job, p)

Stage1 == \A p \in Procs :
    /\ at[p] = "enqueue" => seen[p] # {}
    /\ at[p] = "cancelItems" => status[on[p].job] = "failed"

\* No item of the job is open.
Settled(j) == \A g \in Games : item[j][g] \notin {"pending", "pending_review"}

\* What a completion check has read is still so when it acts on it ...
Counted == \A p \in Procs :
    at[p] \in {"review", "finalize"} => \A g \in Games : item[on[p].job][g] # "pending"
Reviewed == \A p \in Procs :
    at[p] = "finalize" /\ Active(on[p].job) => Settled(on[p].job)

\* ... and stays so.
Closed == \A j \in Jobs : status[j] = "completed" => Settled(j)

LInv == Quiet /\ OnTask /\ Single /\ Statuses /\ Opening /\ Stage1 /\ Counted /\ Reviewed /\ Closed
RInv == IInv /\ CancelsApart /\ AllFresh /\ LInv

\* The hypotheses: the server lives, nobody cancels, GetLibrary has one batch.
OneBatch ==
    /\ MaxCrashes = 0 /\ MaxCancels = 0
    /\ IsFiniteSet(Games) /\ Cardinality(Games) <= BatchSize

---------------------------------------------------------------------------
(* Helpers. *)

LEMMA TaskApart ==
  ASSUME NEW k, NEW j, NEW g, NEW l, NEW i, NEW h
  PROVE  Task(k, j, g) = Task(l, i, h) <=> k = l /\ j = i /\ g = h
  BY DEF Task

LEMMA OpenIsSettled ==
  ASSUME NEW j \in Jobs
  PROVE  Open[j] = {} <=> Settled(j)
  BY DEF Open, ItemsIn, Settled

LEMMA RemainingIsPending ==
  ASSUME NEW j \in Jobs
  PROVE  Remaining(j) = {} <=> \A g \in Games : item[j][g] # "pending"
  BY DEF Remaining, ItemsIn

\* A library of one batch is delivered at once.
LEMMA FirstBatch ==
  ASSUME TypeOK, OneBatch, NEW p \in Procs, NEW B \in SUBSET Games, StreamBatch(p, B)
  PROVE  seen[p] = {}
<1>1. B # {} /\ B \cap seen[p] = {} /\ Cardinality(seen[p]) % BatchSize = 0
  BY DEF StreamBatch
<1>2. seen[p] \subseteq Games /\ seen[p] # Games
  BY <1>1 DEF TypeOK
<1>3. Cardinality(seen[p]) \in Nat /\ Cardinality(Games) \in Nat
      /\ Cardinality(seen[p]) < Cardinality(Games)
  BY <1>2, FS_Subset, FS_CardinalityType DEF OneBatch
<1>4. \A n, b \in Nat : n < b => n % b = n
  OBVIOUS
<1>5. Cardinality(seen[p]) = 0
  BY <1>1, <1>3, <1>4, BoundsAssumption DEF OneBatch
<1> QED BY <1>2, <1>5, FS_Subset, FS_EmptySet DEF OneBatch

---------------------------------------------------------------------------
(* One lemma for each way in which a step changes the state. *)

\* p goes on: nothing is enqueued and no row of jobs or job_items changes.
LEMMA MoveStep ==
  ASSUME RInv, NEW p \in Procs, NEW l \in Labels, GoTo(p, l), at[p] # "idle",
         UNCHANGED <<status, item, queue, dispatch, tried, on, seen>>,
         \A j \in Jobs : gate[j] => gate'[j],
         \A q \in Procs \ {p} : todo'[q] = todo[q],
         \A j \in Jobs, g \in Games : <<j, g>> \in todo'[p] =>
            <<j, g>> \in todo[p] \/ (Parent[g] # NoGame /\ item[j][g] = "pending"),
         todo'[p] # {} => l \in {"enqueue", "trigger", "ack"},
         l \in WorkLabels \cup {"siblings"} => at[p] \in WorkLabels,
         l = "search" => at[p] = "search",
         l \notin {"cancelJob", "cancelTasks", "cancelItems"},
         l \in {"stream", "enqueue"} => seen[p] # {},
         l \in {"review", "finalize"} => \A g \in Games : item[on[p].job][g] # "pending",
         l = "finalize" => Settled(on[p].job)
  PROVE  LInv'
<1> USE DEF RInv, LInv, IInv
<1>0. at \in [Procs -> Labels] /\ \A q \in Procs : on[q].job \in Jobs
  BY DEF TypeOK
<1>1. at'[p] = l /\ \A q \in Procs \ {p} : at'[q] = at[q]
  BY <1>0 DEF GoTo
<1>2. Quiet'
  BY <1>1 DEF Quiet
<1>3. OnTask'
  BY <1>1 DEF OnTask
<1>4. Single'
  <2>1. ASSUME NEW q \in Procs, NEW j \in Jobs, NEW g \in Games, Parent[g] = NoGame, Holds(q, j, g)'
        PROVE  Holds(q, j, g)
    BY <1>1, <2>1 DEF Holds, WorkLabels
  <2> QED BY <2>1 DEF Single, OnePlace
<1>5. Statuses'
  BY DEF Statuses
<1>6. Opening'
  <2> SUFFICES ASSUME NEW q \in Procs, at'[q] = "stream", seen'[q] = {}
               PROVE  Untouched(on[q].job, q)'
    BY DEF Opening
  <2>1. q # p /\ at[q] = "stream" /\ Untouched(on[q].job, q)
    BY <1>1 DEF Opening
  <2> QED BY <1>0, <1>1, <2>1 DEF Untouched
<1>7. Stage1'
  BY <1>1 DEF Stage1
<1>8. Counted' /\ Reviewed' /\ Closed'
  BY <1>1 DEF Counted, Reviewed, Closed, Settled, Active
<1> QED BY <1>2, <1>3, <1>4, <1>5, <1>6, <1>7, <1>8

\* A worker writes the status of the item it has in hand, and lets go of it.
LEMMA SetItemStep ==
  ASSUME RInv, NEW p \in Procs, NEW l \in {"count", "siblings"}, GoTo(p, l),
         at[p] \in WorkLabels, NEW s \in ItemStatus \ {"pending", "absent"}, SetItem(p, s),
         s = "pending_review" => at[p] = "search",
         UNCHANGED <<status, gate, queue, dispatch, tried, on, todo, seen>>
  PROVE  LInv'
<1> USE DEF RInv, LInv, IInv
<1> DEFINE j == on[p].job
           g == on[p].game
<1>0. /\ at \in [Procs -> Labels] /\ \A q \in Procs : on[q].job \in Jobs
      /\ j \in Jobs /\ g \in Games /\ on[p] \in Tasks /\ todo[p] = {}
      /\ queue \in [Tasks -> Nat]
  BY DEF TypeOK, OnTask, WorkLabels, Tasks
<1>1. at'[p] = l /\ l \notin WorkLabels /\ \A q \in Procs \ {p} : at'[q] = at[q]
  BY <1>0 DEF GoTo, WorkLabels
<1>2. /\ item'[j][g] = s
      /\ \A i \in Jobs, h \in Games : i # j \/ h # g => item'[i][h] = item[i][h]
  BY <1>0 DEF SetItem, TypeOK
<1>3. Holds(p, j, g) /\ at[p] # "idle"
  BY DEF Holds, WorkLabels
<1>4. Quiet'
  BY <1>1, <1>3 DEF Quiet
<1>5. OnTask'
  BY <1>0, <1>1 DEF OnTask
<1>6. Single'
  <2> SUFFICES ASSUME NEW i \in Jobs, NEW h \in Games, Parent[h] = NoGame
               PROVE  OnePlace(i, h)'
    BY DEF Single
  <2>1. OnePlace(i, h)
    BY DEF Single
  <2>2. \A q \in Procs : Holds(q, i, h)' => Holds(q, i, h) /\ q # p
    BY <1>0, <1>1 DEF Holds
  <2>3. CASE i = j /\ h = g
    BY <1>3, <2>1, <2>2, <2>3 DEF OnePlace
  <2>4. CASE i # j \/ h # g
    BY <1>2, <2>1, <2>2, <2>4 DEF OnePlace
  <2> QED BY <2>3, <2>4
<1>7. Statuses'
  BY DEF Statuses
<1>8. Opening'
  <2> SUFFICES ASSUME NEW q \in Procs, at'[q] = "stream", seen'[q] = {}
               PROVE  Untouched(on[q].job, q)'
    BY DEF Opening
  <2>1. q # p /\ at[q] = "stream" /\ Untouched(on[q].job, q)
    BY <1>1 DEF Opening
  <2>2. on[q].job # j
    BY <1>3, <2>1 DEF Untouched
  <2> QED BY <1>0, <1>1, <1>2, <2>1, <2>2 DEF Untouched
<1>9. Stage1'
  BY <1>1 DEF Stage1
<1>10. \A i \in Jobs, h \in Games : item[i][h] # "pending" => item'[i][h] # "pending"
  BY <1>0, <1>2
<1>11. Counted'
  BY <1>0, <1>1, <1>10 DEF Counted
<1>12. ASSUME NEW i \in Jobs, Settled(i), status[i] # "failed" PROVE Settled(i)'
  <2>1. CASE s # "pending_review" \/ i # j
    BY <1>2, <1>12, <2>1 DEF Settled
  <2>2. CASE s = "pending_review" /\ i = j
    <3>1. Parent[g] = NoGame
      BY <1>0, <2>2 DEF OnTask
    <3>2. item[j][g] = "pending"
      BY <1>0, <1>3, <1>12, <2>2, <3>1 DEF Single, OnePlace
    <3> QED BY <1>0, <1>12, <2>2, <3>2 DEF Settled
  <2> QED BY <2>1, <2>2
<1>13. Reviewed' /\ Closed'
  BY <1>0, <1>1, <1>12 DEF Reviewed, Closed, Active, ActiveStatus
<1> QED BY <1>4, <1>5, <1>6, <1>7, <1>8, <1>9, <1>11, <1>13

\* What EnqueueOrFail does to rows and queue.
LEMMA EnqueueShape ==
  ASSUME TypeOK, NEW k \in {"match", "write"}, NEW j \in Jobs, NEW g \in Games,
         NEW accepted \in BOOLEAN, EnqueueOrFail(Task(k, j, g), accepted)
  PROVE  /\ \A i \in Jobs, h \in Games : i # j \/ h # g => item'[i][h] = item[i][h]
         /\ item'[j][g] = item[j][g] \/ (item[j][g] = "pending" /\ item'[j][g] = "failed")
         /\ \A t \in Tasks \ {Task(k, j, g)} : queue'[t] = queue[t]
         /\ \/ queue' = queue
            \/ item' = item /\ queue'[Task(k, j, g)] = queue[Task(k, j, g)] + 1
<1>0. Task(k, j, g) \in Tasks /\ Task(k, j, g).job = j /\ Task(k, j, g).game = g
  BY TaskTyping DEF Task
<1>1. CASE accepted
  BY <1>0, <1>1 DEF EnqueueOrFail, TypeOK
<1>2. CASE ~accepted
  <2>1. CASE item[j][g] = "pending"
    BY <1>0, <1>2, <2>1 DEF EnqueueOrFail, TypeOK
  <2>2. CASE item[j][g] # "pending"
    BY <1>0, <1>2, <2>2 DEF EnqueueOrFail, TypeOK
  <2> QED BY <2>1, <2>2
<1> QED BY <1>1, <1>2

\* A task is enqueued by the goroutine that alone had it, or by the rescue.
LEMMA EnqueueStep ==
  ASSUME RInv, NEW k \in {"match", "write"}, NEW j \in Jobs, NEW g \in Games,
         NEW accepted \in BOOLEAN, EnqueueOrFail(Task(k, j, g), accepted),
         UNCHANGED <<status, gate, dispatch, tried, on, seen>>,
         \A q \in Procs : at'[q] = at[q] \/ (at[q] # "idle" /\ at'[q] \in {"count", "ack"}),
         \A q \in Procs : todo'[q] \subseteq todo[q] /\ (todo'[q] # {} => at'[q] = at[q]),
         Parent[g] = NoGame =>
            /\ queue[Task("match", j, g)] = 0 /\ queue[Task("write", j, g)] = 0
            /\ \A q \in Procs : ~Holds(q, j, g)'
            /\ item[j][g] = "pending" \/ status[j] = "failed",
         \A q \in Procs : at[q] = "stream" /\ seen[q] = {} => on[q].job # j
  PROVE  LInv'
<1> USE DEF RInv, LInv, IInv
<1>0. /\ at \in [Procs -> Labels] /\ \A q \in Procs : on[q].job \in Jobs
      /\ queue \in [Tasks -> Nat]
  BY DEF TypeOK
<1>1. /\ \A i \in Jobs, h \in Games : i # j \/ h # g => item'[i][h] = item[i][h]
      /\ item'[j][g] = item[j][g] \/ (item[j][g] = "pending" /\ item'[j][g] = "failed")
  BY EnqueueShape
<1>2. \A i \in Jobs, h \in Games, m \in {"match", "write"} :
         i # j \/ h # g => queue'[Task(m, i, h)] = queue[Task(m, i, h)]
  BY EnqueueShape, TaskTyping, TaskApart
<1>3. Quiet'
  BY DEF Quiet
<1>4. OnTask'
  BY DEF OnTask, WorkLabels
<1>5. Single'
  <2> SUFFICES ASSUME NEW i \in Jobs, NEW h \in Games, Parent[h] = NoGame
               PROVE  OnePlace(i, h)'
    BY DEF Single
  <2>1. OnePlace(i, h)
    BY DEF Single
  <2>2. \A q \in Procs : Holds(q, i, h)' => Holds(q, i, h)
    BY DEF Holds, WorkLabels
  <2>3. CASE i = j /\ h = g
    <3>1. \A q \in Procs : ~Holds(q, j, g)'
      BY <2>3
    <3>2. \A m \in {"match", "write"} : Task(m, j, g) \in Tasks
      BY TaskTyping
    <3>3. Task("match", j, g) # Task("write", j, g)
      BY TaskApart
    <3>4. /\ queue[Task("match", j, g)] = 0 /\ queue[Task("write", j, g)] = 0
          /\ item[j][g] = "pending" \/ status[j] = "failed"
      BY <2>3
    <3>5. CASE queue' = queue
      BY <2>3, <3>1, <3>4, <3>5 DEF OnePlace
    <3>6. CASE item' = item /\ queue'[Task(k, j, g)] = queue[Task(k, j, g)] + 1
      <4>1. queue'[Task("match", j, g)] + queue'[Task("write", j, g)] <= 1
        BY <3>2, <3>3, <3>4, <3>6, EnqueueShape
      <4> QED BY <2>3, <3>1, <3>4, <3>6, <4>1 DEF OnePlace
    <3> QED BY <3>5, <3>6, EnqueueShape
  <2>4. CASE i # j \/ h # g
    BY <1>1, <1>2, <2>1, <2>2, <2>4 DEF OnePlace
  <2> QED BY <2>3, <2>4
<1>6. Statuses'
  BY DEF Statuses
<1>7. Opening'
  <2> SUFFICES ASSUME NEW q \in Procs, at'[q] = "stream", seen'[q] = {}
               PROVE  Untouched(on[q].job, q)'
    BY DEF Opening
  <2>1. at[q] = "stream" /\ Untouched(on[q].job, q) /\ on[q].job # j
    BY DEF Opening
  <2> QED BY <1>0, <1>1, <1>2, <2>1 DEF Untouched
<1>8. Stage1'
  BY DEF Stage1
<1>9. /\ \A i \in Jobs, h \in Games : item[i][h] # "pending" => item'[i][h] # "pending"
      /\ \A i \in Jobs : Settled(i) => Settled(i)'
  BY <1>1 DEF Settled
<1>10. Counted' /\ Reviewed' /\ Closed'
  BY <1>0, <1>9 DEF Counted, Reviewed, Closed, Active
<1> QED BY <1>3, <1>4, <1>5, <1>6, <1>7, <1>8, <1>10

\* A job fails, if need be with its dispatch going on to cancel its items.
LEMMA FailStep ==
  ASSUME RInv, NEW j \in Jobs, status[j] # "pending",
         status' = [status EXCEPT ![j] = "failed"],
         \/ UNCHANGED at
         \/ \E p \in Procs : at[p] = "stream" /\ on[p].job = j /\ GoTo(p, "cancelItems"),
         UNCHANGED <<gate, item, queue, dispatch, tried, on, todo, seen>>
  PROVE  LInv'
<1> USE DEF RInv, LInv, IInv
<1>0. /\ at \in [Procs -> Labels] /\ \A q \in Procs : on[q].job \in Jobs
      /\ status'[j] = "failed" /\ \A i \in Jobs \ {j} : status'[i] = status[i]
  BY DEF TypeOK
<1>1. \A q \in Procs : \/ at'[q] = at[q]
                       \/ at[q] = "stream" /\ on[q].job = j /\ at'[q] = "cancelItems"
  BY <1>0 DEF GoTo
<1>2. Quiet'
  BY <1>1 DEF Quiet
<1>3. OnTask'
  BY <1>1 DEF OnTask, WorkLabels
<1>4. Single'
  <2> SUFFICES ASSUME NEW i \in Jobs, NEW h \in Games, Parent[h] = NoGame
               PROVE  OnePlace(i, h)'
    BY DEF Single
  <2>1. OnePlace(i, h)
    BY DEF Single
  <2>2. \A q \in Procs : Holds(q, i, h)' => Holds(q, i, h)
    BY <1>1 DEF Holds, WorkLabels
  <2> QED BY <1>0, <2>1, <2>2 DEF OnePlace
<1>5. Statuses'
  BY <1>0 DEF Statuses
<1>6. Opening'
  BY <1>0, <1>1 DEF Opening, Untouched
<1>7. Stage1'
  BY <1>0, <1>1 DEF Stage1
<1>8. Counted' /\ Reviewed' /\ Closed'
  BY <1>0, <1>1 DEF Counted, Reviewed, Closed, Settled, Active, ActiveStatus
<1> QED BY <1>2, <1>3, <1>4, <1>5, <1>6, <1>7, <1>8

\* A job completes: the last read of its items still holds.
LEMMA CompleteStep ==
  ASSUME RInv, NEW p \in Procs, Finalize(p), Active(on[p].job), gate[on[p].job]
  PROVE  LInv'
<1> USE DEF RInv, LInv, IInv, games, river, notes
<1> DEFINE j == on[p].job
<1>0. /\ at \in [Procs -> Labels] /\ \A q \in Procs : on[q].job \in Jobs
      /\ j \in Jobs /\ at[p] = "finalize"
      /\ status'[j] = "completed" /\ \A i \in Jobs \ {j} : status'[i] = status[i]
      /\ UNCHANGED <<gate, item, queue, dispatch, tried, on, todo, seen>>
  BY DEF TypeOK, Finalize, FinalizeIf
<1>1. at'[p] = "announce" /\ \A q \in Procs \ {p} : at'[q] = at[q]
  BY <1>0 DEF Finalize, FinalizeIf, GoTo
<1>2. Settled(j) /\ status[j] # "failed"
  BY <1>0 DEF Reviewed, Active, ActiveStatus
<1>3. status[j] # "pending"
  <2>1. on[p].kind # "cancel"
    BY <1>0 DEF Quiet
  <2>2. tried[j] # 0
    BY <1>0, <2>1 DEF AllFresh, Fresh
  <2> QED BY <1>0, <2>2 DEF Statuses
<1>4. Quiet'
  BY <1>0, <1>1 DEF Quiet
<1>5. OnTask'
  BY <1>0, <1>1 DEF OnTask, WorkLabels
<1>6. Single'
  <2> SUFFICES ASSUME NEW i \in Jobs, NEW h \in Games, Parent[h] = NoGame
               PROVE  OnePlace(i, h)'
    BY DEF Single
  <2>1. OnePlace(i, h)
    BY DEF Single
  <2>2. \A q \in Procs : Holds(q, i, h)' => Holds(q, i, h)
    BY <1>0, <1>1 DEF Holds, WorkLabels
  <2> QED BY <1>0, <1>2, <2>1, <2>2 DEF OnePlace, Settled
<1>7. Statuses'
  BY <1>0, <1>3 DEF Statuses
<1>8. Opening'
  BY <1>0, <1>1 DEF Opening, Untouched
<1>9. Stage1'
  BY <1>0, <1>1, <1>2 DEF Stage1
<1>10. Counted' /\ Reviewed' /\ Closed'
  BY <1>0, <1>1, <1>2 DEF Counted, Reviewed, Closed, Settled, Active, ActiveStatus
<1> QED BY <1>4, <1>5, <1>6, <1>7, <1>8, <1>9, <1>10

LEMMA TriggerStep ==
  ASSUME RInv, NEW j \in Jobs, Trigger(j)
  PROVE  LInv'
<1> USE DEF RInv, LInv, IInv, games, notes, local
<1>0. /\ \A q \in Procs : on[q].job \in Jobs
      /\ UNCHANGED <<gate, item, queue, tried, at, on, todo, seen>>
      /\ status[j] = "absent" /\ status'[j] = "pending" /\ dispatch'[j] = "queued"
      /\ \A i \in Jobs \ {j} : status'[i] = status[i] /\ dispatch'[i] = dispatch[i]
  BY DEF TypeOK, Trigger
<1>1. Fresh(j)
  BY <1>0 DEF Statuses, AllFresh
<1>2. Quiet' /\ OnTask'
  BY <1>0 DEF Quiet, OnTask
<1>3. Single'
  <2> SUFFICES ASSUME NEW i \in Jobs, NEW h \in Games, Parent[h] = NoGame
               PROVE  OnePlace(i, h)'
    BY DEF Single
  <2>1. OnePlace(i, h)
    BY DEF Single
  <2>2. \A q \in Procs : Holds(q, i, h)' => Holds(q, i, h)
    BY <1>0 DEF Holds, WorkLabels
  <2> QED BY <1>0, <2>1, <2>2 DEF OnePlace
<1>4. Statuses'
  BY <1>0 DEF Statuses
<1>5. Opening'
  BY <1>0 DEF Opening, Untouched
<1>6. Stage1'
  BY <1>0 DEF Stage1
<1>7. Counted' /\ Closed'
  BY <1>0 DEF Counted, Closed, Settled
<1>8. Reviewed'
  <2>1. ASSUME NEW q \in Procs, at[q] = "finalize" PROVE on[q].job # j
    BY <1>1, <2>1 DEF Fresh, Quiet
  <2> QED BY <1>0, <2>1 DEF Reviewed, Settled, Active
<1> QED BY <1>2, <1>3, <1>4, <1>5, <1>6, <1>7, <1>8

\* The only batch: until now nothing of the job existed.
LEMMA BatchStep ==
  ASSUME RInv, OneBatch, NEW p \in Procs, NEW B \in SUBSET Games, StreamBatch(p, B)
  PROVE  LInv'
<1> USE DEF RInv, LInv, IInv, river, notes
<1> DEFINE j == on[p].job
           new == {g \in B \ skipped : item[j][g] = "absent"}
<1>0. /\ at \in [Procs -> Labels] /\ \A q \in Procs : on[q].job \in Jobs
      /\ j \in Jobs /\ at[p] = "stream" /\ B # {}
      /\ UNCHANGED <<status, gate, queue, dispatch, tried, on>>
  BY DEF TypeOK, StreamBatch
<1>1. at'[p] = "enqueue" /\ \A q \in Procs \ {p} : at'[q] = at[q]
  BY <1>0 DEF StreamBatch, GoTo
<1>2. /\ \A i \in Jobs, h \in Games : i # j => item'[i][h] = item[i][h]
      /\ \A h \in Games : item'[j][h] = IF h \in new THEN "pending" ELSE item[j][h]
  BY <1>0 DEF StreamBatch, TypeOK
<1>3. /\ todo'[p] = {<<j, g>> : g \in new} /\ seen'[p] # {}
      /\ \A q \in Procs \ {p} : todo'[q] = todo[q] /\ seen'[q] = seen[q]
  BY <1>0 DEF StreamBatch, TypeOK
<1>4. seen[p] = {} /\ Untouched(j, p)
  BY <1>0, FirstBatch DEF Opening
<1>5. status[j] # "completed"
  BY <1>0 DEF GInv, GateHolds, Streaming, Labelled
<1>6. Quiet'
  BY <1>0, <1>1 DEF Quiet
<1>7. OnTask'
  BY <1>0, <1>1, <1>3 DEF OnTask, WorkLabels
<1>8. Single'
  <2> SUFFICES ASSUME NEW i \in Jobs, NEW h \in Games, Parent[h] = NoGame
               PROVE  OnePlace(i, h)'
    BY DEF Single
  <2>1. OnePlace(i, h)
    BY DEF Single
  <2>2. \A q \in Procs \ {p} : Holds(q, i, h)' <=> Holds(q, i, h)
    BY <1>0, <1>1, <1>3 DEF Holds
  <2>3. Holds(p, i, h)' <=> i = j /\ h \in new
    BY <1>1, <1>3 DEF Holds, WorkLabels
  <2>4. CASE i # j
    BY <1>0, <1>2, <2>1, <2>2, <2>3, <2>4 DEF OnePlace
  <2>5. CASE i = j
    <3>1. \A q \in Procs \ {p} : ~Holds(q, i, h)
      BY <1>4, <2>5 DEF Untouched, Holds, WorkLabels
    <3>2. /\ queue'[Task("match", i, h)] = 0 /\ queue'[Task("write", i, h)] = 0
          /\ item[i][h] = "absent"
      BY <1>0, <1>4, <2>5 DEF Untouched
    <3>3. h \in new => item'[i][h] = "pending"
      BY <1>2, <2>5
    <3>4. \A q \in Procs : Holds(q, i, h)' => q = p /\ h \in new
      BY <2>2, <2>3, <3>1
    <3> QED BY <3>2, <3>3, <3>4 DEF OnePlace
  <2> QED BY <2>4, <2>5
<1>9. Statuses'
  BY <1>0 DEF Statuses
<1>10. Opening'
  <2> SUFFICES ASSUME NEW q \in Procs, at'[q] = "stream", seen'[q] = {}
               PROVE  Untouched(on[q].job, q)'
    BY <1>0 DEF Opening
  <2>1. q # p /\ at[q] = "stream" /\ Untouched(on[q].job, q)
    BY <1>1, <1>3 DEF Opening
  <2>2. on[q].job # j
    BY <1>0, <2>1 DEF Untouched
  <2> QED BY <1>0, <1>1, <1>2, <1>3, <2>1, <2>2 DEF Untouched
<1>11. Stage1'
  BY <1>0, <1>1, <1>3 DEF Stage1
<1>12. \A q \in Procs : at[q] \in {"review", "finalize"} => on[q].job # j
  BY <1>0, <1>4 DEF Untouched
<1>13. \A i \in Jobs \ {j} : Settled(i) => Settled(i)'
  BY <1>2 DEF Settled
<1>14. Counted' /\ Reviewed' /\ Closed'
  BY <1>0, <1>1, <1>2, <1>5, <1>12, <1>13 DEF Counted, Reviewed, Closed, Active
<1> QED BY <1>6, <1>7, <1>8, <1>9, <1>10, <1>11, <1>14

LEMMA CancelItemsStep ==
  ASSUME RInv, NEW p \in Procs, CancelItems(p)
  PROVE  LInv'
<1> USE DEF RInv, LInv, IInv, river, notes, games
<1> DEFINE j == on[p].job
<1>0. /\ at \in [Procs -> Labels] /\ \A q \in Procs : on[q].job \in Jobs
      /\ j \in Jobs /\ at[p] = "cancelItems"
      /\ UNCHANGED <<status, gate, queue, dispatch, tried, on, todo, seen>>
  BY DEF TypeOK, CancelItems
<1>1. at'[p] = "ack" /\ \A q \in Procs \ {p} : at'[q] = at[q]
  BY <1>0 DEF CancelItems, GoTo
<1>2. /\ \A i \in Jobs, h \in Games : i # j => item'[i][h] = item[i][h]
      /\ \A h \in Games : item'[j][h] = IF item[j][h] = "pending" THEN "cancelled" ELSE item[j][h]
  BY <1>0 DEF CancelItems, TypeOK
<1>3. status[j] = "failed"
  BY <1>0 DEF Stage1
<1>4. Quiet'
  BY <1>0, <1>1 DEF Quiet
<1>5. OnTask'
  BY <1>0, <1>1 DEF OnTask, WorkLabels
<1>6. Single'
  <2> SUFFICES ASSUME NEW i \in Jobs, NEW h \in Games, Parent[h] = NoGame
               PROVE  OnePlace(i, h)'
    BY DEF Single
  <2>1. OnePlace(i, h)
    BY DEF Single
  <2>2. \A q \in Procs : Holds(q, i, h)' => Holds(q, i, h)
    BY <1>0, <1>1 DEF Holds, WorkLabels
  <2> QED BY <1>0, <1>2, <1>3, <2>1, <2>2 DEF OnePlace
<1>7. Statuses'
  BY <1>0 DEF Statuses
<1>8. Opening'
  <2> SUFFICES ASSUME NEW q \in Procs, at'[q] = "stream", seen'[q] = {}
               PROVE  Untouched(on[q].job, q)'
    BY <1>0 DEF Opening
  <2>1. q # p /\ at[q] = "stream" /\ Untouched(on[q].job, q)
    BY <1>0, <1>1 DEF Opening
  <2> QED BY <1>0, <1>1, <1>2, <2>1 DEF Untouched
<1>9. Stage1'
  BY <1>0, <1>1 DEF Stage1
<1>10. /\ \A i \in Jobs, h \in Games : item[i][h] # "pending" => item'[i][h] # "pending"
       /\ \A i \in Jobs : Settled(i) => Settled(i)'
  BY <1>2 DEF Settled
<1>11. Counted' /\ Reviewed' /\ Closed'
  BY <1>0, <1>1, <1>10 DEF Counted, Reviewed, Closed, Active
<1> QED BY <1>4, <1>5, <1>6, <1>7, <1>8, <1>9, <1>11

LEMMA AckStep ==
  ASSUME RInv, NEW p \in Procs, Ack(p)
  PROVE  LInv'
<1> USE DEF RInv, LInv, IInv, rows, notes, games
<1>0. /\ at \in [Procs -> Labels] /\ \A q \in Procs : on[q].job \in Jobs
      /\ at[p] = "ack" /\ UNCHANGED <<status, gate, item, queue, tried>>
  BY DEF TypeOK, Ack
<1>1. /\ at'[p] = "idle" /\ todo'[p] = {}
      /\ \A q \in Procs \ {p} : /\ at'[q] = at[q] /\ on'[q] = on[q]
                               /\ todo'[q] = todo[q] /\ seen'[q] = seen[q]
  BY DEF TypeOK, Ack, GoTo
<1>2. \A j \in Jobs : dispatch'[j] = "queued" <=> dispatch[j] = "queued"
  <2>1. CASE on[p].kind = "dispatch"
    <3>1. dispatch[on[p].job] = "running"
      BY <1>0, <2>1 DEF GInv, Held, Dispatching
    <3> QED BY <1>0, <2>1, <3>1 DEF Ack, TypeOK
  <2>2. CASE on[p].kind # "dispatch"
    BY <2>2 DEF Ack
  <2> QED BY <2>1, <2>2
<1>3. Quiet'
  BY <1>0, <1>1 DEF Quiet
<1>4. OnTask'
  BY <1>0, <1>1 DEF OnTask, WorkLabels
<1>5. Single'
  <2> SUFFICES ASSUME NEW i \in Jobs, NEW h \in Games, Parent[h] = NoGame
               PROVE  OnePlace(i, h)'
    BY DEF Single
  <2>1. OnePlace(i, h)
    BY DEF Single
  <2>2. \A q \in Procs : Holds(q, i, h)' => Holds(q, i, h)
    BY <1>0, <1>1 DEF Holds, WorkLabels
  <2> QED BY <1>0, <2>1, <2>2 DEF OnePlace
<1>6. Statuses'
  BY <1>0, <1>2 DEF Statuses
<1>7. Opening'
  <2> SUFFICES ASSUME NEW q \in Procs, at'[q] = "stream", seen'[q] = {}
               PROVE  Untouched(on[q].job, q)'
    BY <1>0 DEF Opening
  <2>1. q # p /\ at[q] = "stream" /\ Untouched(on[q].job, q)
    BY <1>0, <1>1 DEF Opening
  <2> QED BY <1>0, <1>1, <2>1 DEF Untouched
<1>8. Stage1'
  BY <1>0, <1>1 DEF Stage1
<1>9. Counted' /\ Reviewed' /\ Closed'
  BY <1>0, <1>1 DEF Counted, Reviewed, Closed, Active, Settled
<1> QED BY <1>3, <1>4, <1>5, <1>6, <1>7, <1>8, <1>9

\* The first start of a dispatch, and there is no other.
LEMMA DispatchStep ==
  ASSUME RInv, NEW p \in Procs, NEW j \in Jobs, StartDispatch(p, j)
  PROVE  LInv'
<1> USE DEF RInv, LInv, IInv, games
<1>0. /\ \A q \in Procs : on[q].job \in Jobs
      /\ UNCHANGED <<item, queue, todo>> /\ dispatch[j] = "queued" /\ dispatch'[j] = "running"
      /\ status'[j] = "processing" /\ seen'[p] = {}
      /\ \A i \in Jobs \ {j} : /\ status'[i] = status[i] /\ dispatch'[i] = dispatch[i]
                             /\ gate'[i] = gate[i] /\ tried'[i] = tried[i]
      /\ \A q \in Procs \ {p} : seen'[q] = seen[q]
  BY DEF TypeOK, StartDispatch
<1>1. /\ at[p] = "idle" /\ at'[p] = "stream" /\ on'[p].job = j /\ on'[p].kind = "dispatch"
      /\ \A q \in Procs \ {p} : at'[q] = at[q] /\ on'[q] = on[q]
  BY TakeShape DEF StartDispatch
<1>2. status[j] = "pending" /\ Fresh(j) /\ todo[p] = {}
  BY <1>0, <1>1 DEF Statuses, AllFresh, OnTask
<1>3. \A q \in Procs : at[q] # "idle" => on[q].job # j
  BY <1>2 DEF Fresh, Quiet
<1>4. Quiet'
  BY <1>1 DEF Quiet
<1>5. OnTask'
  BY <1>0, <1>1, <1>2 DEF OnTask, WorkLabels
<1>6. Single'
  <2> SUFFICES ASSUME NEW i \in Jobs, NEW h \in Games, Parent[h] = NoGame
               PROVE  OnePlace(i, h)'
    BY DEF Single
  <2>1. OnePlace(i, h)
    BY DEF Single
  <2>2. \A q \in Procs : Holds(q, i, h)' => Holds(q, i, h)
    BY <1>0, <1>1 DEF Holds, WorkLabels
  <2> QED BY <1>0, <1>2, <2>1, <2>2 DEF OnePlace
<1>7. Statuses'
  BY <1>0 DEF Statuses
<1>8. Opening'
  <2> SUFFICES ASSUME NEW q \in Procs, at'[q] = "stream", seen'[q] = {}
               PROVE  Untouched(on[q].job, q)'
    BY <1>0 DEF Opening
  <2>1. CASE q = p
    <3>1. \A k \in {"match", "write"}, g \in Games : Task(k, j, g).job = j
      BY DEF Task
    <3>2. \A g \in Games : queue[Task("match", j, g)] = 0 /\ queue[Task("write", j, g)] = 0
      BY <1>2, <3>1, TaskTyping DEF Fresh
    <3> QED BY <1>0, <1>1, <1>2, <1>3, <2>1, <3>2 DEF Untouched, Fresh
  <2>2. CASE q # p
    <3>1. at[q] = "stream" /\ Untouched(on[q].job, q) /\ on[q].job # j
      BY <1>0, <1>1, <1>3, <2>2 DEF Opening
    <3> QED BY <1>0, <1>1, <2>2, <3>1 DEF Untouched
  <2> QED BY <2>1, <2>2
<1>9. Stage1'
  BY <1>0, <1>1, <1>2 DEF Stage1
<1>10. Counted' /\ Reviewed' /\ Closed'
  BY <1>0, <1>1, <1>3 DEF Counted, Reviewed, Closed, Active, Settled
<1> QED BY <1>4, <1>5, <1>6, <1>7, <1>8, <1>9, <1>10

\* A worker takes an item's task off the queue.
LEMMA TakeItemStep ==
  ASSUME RInv, NEW p \in Procs, NEW j \in Jobs, NEW g \in Games, NEW k \in {"match", "write"},
         Dequeue(Task(k, j, g)), NEW l \in WorkLabels, Take(p, l, Task(k, j, g)),
         l = "search" => Parent[g] = NoGame,
         UNCHANGED <<status, gate, item, dispatch, tried, todo, seen>>
  PROVE  LInv'
<1> USE DEF RInv, LInv, IInv
<1>0. /\ \A q \in Procs : on[q].job \in Jobs
      /\ queue \in [Tasks -> Nat] /\ Task(k, j, g) \in Tasks
      /\ Task(k, j, g).kind = k /\ Task(k, j, g).job = j /\ Task(k, j, g).game = g
  BY TaskTyping DEF TypeOK, Task
<1>1. /\ at[p] = "idle" /\ at'[p] = l /\ on'[p] = Task(k, j, g)
      /\ \A q \in Procs \ {p} : at'[q] = at[q] /\ on'[q] = on[q]
  BY TakeShape
<1>2. /\ queue[Task(k, j, g)] > 0 /\ queue'[Task(k, j, g)] = queue[Task(k, j, g)] - 1
      /\ \A t \in Tasks \ {Task(k, j, g)} : queue'[t] = queue[t]
  BY <1>0 DEF Dequeue
<1>3. todo[p] = {}
  BY <1>1 DEF OnTask
<1>4. Quiet'
  BY <1>0, <1>1 DEF Quiet, WorkLabels
<1>5. OnTask'
  BY <1>0, <1>1, <1>3 DEF OnTask
<1>6. \A i \in Jobs, h \in Games, m \in {"match", "write"} :
         /\ i # j \/ h # g => queue'[Task(m, i, h)] = queue[Task(m, i, h)]
         /\ Task(m, i, h) \in Tasks
  BY <1>2, TaskTyping, TaskApart
<1>7. Single'
  <2> SUFFICES ASSUME NEW i \in Jobs, NEW h \in Games, Parent[h] = NoGame
               PROVE  OnePlace(i, h)'
    BY DEF Single
  <2>1. OnePlace(i, h)
    BY DEF Single
  <2>2. \A q \in Procs \ {p} : Holds(q, i, h)' <=> Holds(q, i, h)
    BY <1>1 DEF Holds
  <2>3. Holds(p, i, h)' <=> i = j /\ h = g
    BY <1>0, <1>1, <1>3 DEF Holds
  <2>4. CASE i # j \/ h # g
    BY <1>6, <2>1, <2>2, <2>3, <2>4 DEF OnePlace
  <2>5. CASE i = j /\ h = g
    <3>1. Task("match", j, g) # Task("write", j, g)
      BY TaskApart
    <3>2. queue'[Task("match", j, g)] = 0 /\ queue'[Task("write", j, g)] = 0
      <4>1. Task("match", j, g) \in Tasks /\ Task("write", j, g) \in Tasks
        BY <1>6
      <4>2. /\ queue[Task("match", j, g)] \in Nat /\ queue[Task("write", j, g)] \in Nat
            /\ queue[Task("match", j, g)] + queue[Task("write", j, g)] <= 1
        BY <1>0, <2>1, <2>5, <4>1 DEF OnePlace
      <4>3. CASE k = "match"
        BY <1>2, <3>1, <4>1, <4>2, <4>3
      <4>4. CASE k = "write"
        BY <1>2, <3>1, <4>1, <4>2, <4>4
      <4> QED BY <4>3, <4>4
    <3>3. /\ item[j][g] = "pending" \/ status[j] = "failed"
          /\ \A q \in Procs : ~Holds(q, j, g)
      BY <1>0, <1>2, <2>1, <2>5 DEF OnePlace
    <3> QED BY <2>2, <2>3, <2>5, <3>2, <3>3 DEF OnePlace
  <2> QED BY <2>4, <2>5
<1>8. Statuses'
  BY DEF Statuses
<1>9. Opening'
  <2> SUFFICES ASSUME NEW q \in Procs, at'[q] = "stream", seen'[q] = {}
               PROVE  Untouched(on[q].job, q)'
    BY DEF Opening
  <2>1. q # p /\ at[q] = "stream" /\ Untouched(on[q].job, q)
    BY <1>1 DEF Opening, WorkLabels
  <2>2. on[q].job # j
    <3>1. \E m \in {"match", "write"} : queue[Task(m, j, g)] > 0
      BY <1>2
    <3>2. on[q].job = j => queue[Task("match", j, g)] = 0 /\ queue[Task("write", j, g)] = 0
      BY <2>1 DEF Untouched
    <3> QED BY <3>1, <3>2
  <2> QED BY <1>0, <1>1, <1>6, <2>1, <2>2 DEF Untouched
<1>10. Stage1'
  BY <1>1 DEF Stage1, WorkLabels
<1>11. Counted' /\ Reviewed' /\ Closed'
  BY <1>1 DEF Counted, Reviewed, Closed, Active, Settled, WorkLabels
<1> QED BY <1>4, <1>5, <1>7, <1>8, <1>9, <1>10, <1>11

---------------------------------------------------------------------------
(* Every step keeps the invariant. *)

LEMMA LInvContinue ==
  ASSUME RInv, OneBatch, NEW p \in Procs, Continue(p) \/ LoseWorker(p)
  PROVE  LInv'
<1> USE DEF RInv, LInv, IInv, rows, games, river, notes, local
<1>0. /\ at \in [Procs -> Labels] /\ on[p].job \in Jobs /\ DOMAIN todo = Procs
      /\ todo[p] \in SUBSET (Jobs \X Games) /\ gate \in [Jobs -> BOOLEAN]
  BY DEF TypeOK
<1>1. ASSUME NEW B \in SUBSET Games, StreamBatch(p, B) PROVE LInv'
  BY <1>1, BatchStep
<1>2. CASE EnqueueNext(p)
  <2>0. at[p] \in {"enqueue", "trigger"} /\ UNCHANGED <<status, gate, dispatch, tried, on, seen>>
    BY <1>2 DEF EnqueueNext
  <2>1. ASSUME NEW accepted \in BOOLEAN, NEW w \in todo[p],
               EnqueueOrFail(Task("match", w[1], w[2]), accepted),
               todo' = [todo EXCEPT ![p] = @ \ {w}], UNCHANGED at
        PROVE  LInv'
    <3> DEFINE j == w[1]
               g == w[2]
    <3>1. w = <<j, g>> /\ j \in Jobs /\ g \in Games
      BY <1>0
    <3>2. todo'[p] = todo[p] \ {w} /\ \A q \in Procs \ {p} : todo'[q] = todo[q]
      BY <1>0, <2>1
    <3>3. ASSUME Parent[g] = NoGame
          PROVE  /\ queue[Task("match", j, g)] = 0 /\ queue[Task("write", j, g)] = 0
                 /\ \A q \in Procs : ~Holds(q, j, g)'
                 /\ item[j][g] = "pending" \/ status[j] = "failed"
      <4>1. OnePlace(j, g) /\ Holds(p, j, g)
        BY <3>1, <3>3 DEF Single, Holds
      <4>2. \A q \in Procs \ {p} : ~Holds(q, j, g)
        BY <4>1 DEF OnePlace
      <4>3. \A q \in Procs : ~Holds(q, j, g)'
        BY <2>0, <2>1, <3>1, <3>2, <4>2 DEF Holds, WorkLabels
      <4> QED BY <4>1, <4>3 DEF OnePlace
    <3>4. \A q \in Procs : at[q] = "stream" /\ seen[q] = {} => on[q].job # j
      BY <3>1 DEF Opening, Untouched
    <3>5. \A q \in Procs : todo'[q] \subseteq todo[q]
      BY <3>2
    <3> QED BY <2>0, <2>1, <3>1, <3>3, <3>4, <3>5, EnqueueStep
  <2>2. ASSUME todo[p] = {}, GoTo(p, IF at[p] = "enqueue" THEN "stream" ELSE "count"),
               UNCHANGED <<item, queue, todo, spent>>
        PROVE  LInv'
    <3> DEFINE l == IF at[p] = "enqueue" THEN "stream" ELSE "count"
    <3>1. l \in Labels /\ GoTo(p, l) /\ l \in {"stream", "count"} /\ (l = "stream" => seen[p] # {})
      BY <2>0, <2>2 DEF Labels, Stage1
    <3> HIDE DEF l
    <3> QED BY <2>0, <2>2, <3>1, MoveStep DEF WorkLabels
  <2> QED BY <1>2, <2>1, <2>2 DEF EnqueueNext
<1>3. CASE OpenGate(p)
  <2>1. at[p] = "stream" /\ UNCHANGED <<status, item, queue, dispatch, tried, on, todo, seen>>
    BY <1>3 DEF OpenGate
  <2>2. PICK l \in {"count", "ack"} : GoTo(p, l) /\ \A j \in Jobs : gate[j] => gate'[j]
    BY <1>0, <1>3 DEF OpenGate
  <2>3. todo[p] = {} /\ l \in Labels
    BY <2>1 DEF OnTask, Labels
  <2> QED BY <2>1, <2>2, <2>3, MoveStep DEF WorkLabels
<1>4. CASE FailJob(p)
  <2>1. dispatch[on[p].job] = "running"
    BY <1>4 DEF FailJob, GInv, Held, Labelled, Dispatching
  <2>2. status[on[p].job] # "pending"
    BY <1>0, <2>1 DEF Statuses
  <2> QED BY <1>0, <1>4, <2>2, FailStep DEF FailJob
<1>5. CASE CancelItems(p)
  BY <1>5, CancelItemsStep
<1>6. CASE AskParent(p)
  <2>1. at[p] = "parent" /\ UNCHANGED <<status, gate, item, queue, dispatch, tried, on, todo, seen>>
    BY <1>6 DEF AskParent
  <2>2. PICK l \in {"toWrite", "ack"} : GoTo(p, l)
    BY <1>6 DEF AskParent
  <2>3. todo[p] = {} /\ l \in Labels
    BY <2>1 DEF OnTask, Labels
  <2> QED BY <2>1, <2>2, <2>3, MoveStep DEF WorkLabels
<1>7. CASE Search(p)
  <2>1. at[p] = "search" /\ UNCHANGED <<status, gate, queue, dispatch, tried, on, todo, seen>>
        /\ todo[p] = {}
    BY <1>7 DEF Search, OnTask
  <2>2. CASE GoTo(p, "toWrite") /\ UNCHANGED item
    <3>1. "toWrite" \in Labels /\ "toWrite" \in WorkLabels /\ "search" \in WorkLabels
      BY DEF Labels, WorkLabels
    <3> QED BY <2>1, <2>2, <3>1, MoveStep
  <2>3. CASE SetItem(p, "pending_review") /\ GoTo(p, "count")
    <3>1. "pending_review" \in ItemStatus \ {"pending", "absent"} /\ "search" \in WorkLabels
      BY DEF ItemStatus, WorkLabels
    <3> QED BY <2>1, <2>3, <3>1, SetItemStep
  <2> QED BY <1>7, <2>2, <2>3 DEF Search
<1>8. CASE EnqueueUserGame(p)
  <2> DEFINE j == on[p].job
             g == on[p].game
  <2>1. PICK accepted \in BOOLEAN :
           EnqueueOrFail(Task("write", j, g), accepted) /\ GoTo(p, IF accepted THEN "ack" ELSE "count")
    BY <1>8 DEF EnqueueUserGame
  <2>2. /\ at[p] = "toWrite" /\ UNCHANGED <<status, gate, dispatch, tried, on, todo, seen>>
        /\ todo[p] = {} /\ j \in Jobs /\ g \in Games
    BY <1>0, <1>8 DEF EnqueueUserGame, OnTask, WorkLabels, Tasks
  <2>3. /\ at'[p] \in {"ack", "count"} /\ \A q \in Procs \ {p} : at'[q] = at[q]
    BY <1>0, <2>1 DEF GoTo
  <2>4. ASSUME Parent[g] = NoGame
        PROVE  /\ queue[Task("match", j, g)] = 0 /\ queue[Task("write", j, g)] = 0
               /\ \A q \in Procs : ~Holds(q, on[p].job, on[p].game)'
               /\ item[j][g] = "pending" \/ status[j] = "failed"
    <3>1. OnePlace(j, g) /\ Holds(p, j, g)
      BY <2>2, <2>4 DEF Single, Holds, WorkLabels
    <3>2. \A q \in Procs \ {p} : ~Holds(q, j, g)
      BY <3>1 DEF OnePlace
    <3>3. \A q \in Procs : ~Holds(q, on[p].job, on[p].game)'
      BY <2>2, <2>3, <3>2 DEF Holds, WorkLabels
    <3> QED BY <3>1, <3>3 DEF OnePlace
  <2>5. \A q \in Procs : at[q] = "stream" /\ seen[q] = {} => on[q].job # j
    BY <2>2 DEF Opening, Untouched
  <2>6. /\ \A q \in Procs : at'[q] = at[q] \/ (at[q] # "idle" /\ at'[q] \in {"count", "ack"})
        /\ \A q \in Procs : todo'[q] \subseteq todo[q] /\ (todo'[q] # {} => at'[q] = at[q])
    BY <2>2, <2>3
  <2>7. \A q \in Procs : ~Holds(q, j, g)' <=> ~Holds(q, on[p].job, on[p].game)'
    BY <2>2
  <2> QED BY <2>1, <2>2, <2>4, <2>5, <2>6, EnqueueStep
<1>9. CASE Acquire(p)
  <2>1. at[p] = "acquire" /\ UNCHANGED <<status, gate, item, queue, dispatch, tried, on, todo, seen>>
    BY <1>9 DEF Acquire
  <2>2. PICK l \in {"markCompleted", "markFailed"} : GoTo(p, l)
    BY <1>9 DEF Acquire
  <2>3. todo[p] = {} /\ l \in Labels
    BY <2>1 DEF OnTask, Labels
  <2> QED BY <2>1, <2>2, <2>3, MoveStep DEF WorkLabels
<1>10. CASE Mark(p)
  <2>1. UNCHANGED <<status, gate, queue, dispatch, tried, on, todo, seen>>
        /\ at[p] \in {"markSkipped", "markFailed", "markCompleted"}
    BY <1>10 DEF Mark
  <2>2. PICK s \in {"skipped", "failed", "completed"}, l \in {"count", "siblings"} :
           SetItem(p, s) /\ GoTo(p, l)
    BY <1>10 DEF Mark
  <2>3. s \in ItemStatus \ {"pending", "absent"} /\ at[p] \in WorkLabels /\ s # "pending_review"
    BY <2>1 DEF ItemStatus, WorkLabels
  <2> QED BY <2>1, <2>2, <2>3, SetItemStep
<1>11. CASE Siblings(p)
  <2>1. /\ at[p] = "siblings" /\ UNCHANGED <<status, gate, item, queue, dispatch, tried, on, seen>>
        /\ GoTo(p, "trigger")
    BY <1>11 DEF Siblings
  <2>2. todo'[p] = {w \in Jobs \X (Games \ (resolved \cup skipped)) :
                     Parent[w[2]] = on[p].game /\ item[w[1]][w[2]] = "pending"}
    BY <1>0, <1>11 DEF Siblings
  <2>3. on[p].game # NoGame
    BY <2>1, GamesAssumption DEF OnTask, Tasks
  <2>4. \A j \in Jobs, g \in Games : <<j, g>> \in todo'[p] =>
            Parent[g] # NoGame /\ item[j][g] = "pending"
    BY <2>2, <2>3
  <2>5. \A q \in Procs \ {p} : todo'[q] = todo[q]
    BY <1>0, <1>11 DEF Siblings
  <2>6. "trigger" \in Labels /\ "trigger" \notin WorkLabels
    BY DEF Labels, WorkLabels
  <2> QED BY <2>1, <2>4, <2>5, <2>6, MoveStep
<1>12. CASE Count(p)
  <2> DEFINE l == IF Remaining(on[p].job) = {} THEN "review" ELSE "ack"
  <2>1. /\ at[p] = "count" /\ UNCHANGED <<status, gate, item, queue, dispatch, tried, on, todo, seen>>
        /\ GoTo(p, l)
    BY <1>12 DEF Count
  <2>2. /\ todo[p] = {} /\ l \in Labels /\ l \in {"review", "ack"}
        /\ l = "review" => \A g \in Games : item[on[p].job][g] # "pending"
    BY <1>0, <2>1, RemainingIsPending DEF OnTask, Labels
  <2> HIDE DEF l
  <2> QED BY <2>1, <2>2, MoveStep DEF WorkLabels
<1>13. CASE Review(p)
  <2> DEFINE l == IF ItemsIn(on[p].job, {"pending_review"}) # {} THEN "ack" ELSE "finalize"
  <2>1. /\ at[p] = "review" /\ UNCHANGED <<status, gate, item, queue, dispatch, tried, on, todo, seen>>
        /\ GoTo(p, l)
    BY <1>13 DEF Review
  <2>2. \A g \in Games : item[on[p].job][g] # "pending"
    BY <2>1 DEF Counted
  <2>3. /\ todo[p] = {} /\ l \in Labels /\ l \in {"ack", "finalize"}
        /\ l = "finalize" => Settled(on[p].job)
    BY <1>0, <2>1, <2>2 DEF OnTask, Labels, ItemsIn, Settled
  <2> HIDE DEF l
  <2> QED BY <2>1, <2>2, <2>3, MoveStep DEF WorkLabels
<1>14. CASE Finalize(p)
  <2>1. CASE Active(on[p].job) /\ gate[on[p].job]
    BY <1>14, <2>1, CompleteStep
  <2>2. CASE ~(Active(on[p].job) /\ gate[on[p].job])
    <3>1. /\ at[p] = "finalize" /\ GoTo(p, "ack") /\ todo[p] = {}
          /\ UNCHANGED <<status, gate, item, queue, dispatch, tried, on, todo, seen>>
      BY <1>14, <2>2 DEF Finalize, FinalizeIf, OnTask
    <3>2. "ack" \in Labels /\ "ack" \notin WorkLabels
      BY DEF Labels, WorkLabels
    <3> QED BY <3>1, <3>2, MoveStep
  <2> QED BY <2>1, <2>2
<1>15. CASE Announce(p)
  <2>1. /\ at[p] = "announce" /\ GoTo(p, "ack") /\ todo[p] = {}
        /\ UNCHANGED <<status, gate, item, queue, dispatch, tried, on, todo, seen>>
    BY <1>15 DEF Announce, OnTask
  <2>2. "ack" \in Labels /\ "ack" \notin WorkLabels
    BY DEF Labels, WorkLabels
  <2> QED BY <2>1, <2>2, MoveStep
<1>16. CASE Ack(p)
  BY <1>16, AckStep
<1>17. CASE CancelJob(p) \/ CancelTasks(p)
  BY <1>17 DEF CancelJob, CancelTasks, Quiet
<1>18. CASE LoseWorker(p)
  <2>1. /\ at[p] # "idle" /\ GoTo(p, "ack")
        /\ UNCHANGED <<status, gate, item, queue, dispatch, tried, on, todo, seen>>
    BY <1>18 DEF LoseWorker
  <2>2. "ack" \in Labels /\ "ack" \notin WorkLabels
    BY DEF Labels, WorkLabels
  <2> QED BY <2>1, <2>2, MoveStep
<1> QED BY <1>1, <1>2, <1>3, <1>4, <1>5, <1>6, <1>7, <1>8, <1>9, <1>10, <1>11, <1>12,
           <1>13, <1>14, <1>15, <1>16, <1>17, <1>18 DEF Continue

LEMMA LInvStep == RInv /\ OneBatch /\ [Next]_vars => LInv'
<1> SUFFICES ASSUME RInv, OneBatch, [Next]_vars PROVE LInv'
  OBVIOUS
<1> USE DEF RInv, LInv, IInv, rows, games, river, notes, local
<1>0. /\ status \in [Jobs -> {"absent"} \cup ActiveStatus \cup TerminalStatus]
      /\ spent["crashes"] \in Nat /\ spent["cancels"] \in Nat
  BY DEF TypeOK
<1>1. ASSUME NEW p \in Procs, Continue(p) \/ LoseWorker(p) PROVE LInv'
  BY <1>1, LInvContinue
<1>2. ASSUME NEW p \in Procs, Begin(p) PROVE LInv'
  <2>1. PICK j \in Jobs : \/ StartDispatch(p, j) \/ StartCancel(p, j)
                          \/ \E g \in Games : StartMatch(p, j, g) \/ StartWrite(p, j, g)
    BY <1>2 DEF Begin
  <2>2. CASE StartDispatch(p, j)
    BY <2>2, DispatchStep
  <2>3. CASE StartCancel(p, j)
    BY <1>0, <2>3 DEF StartCancel, Spend, OneBatch
  <2>4. ASSUME NEW g \in Games, StartMatch(p, j, g) PROVE LInv'
    <3> DEFINE l == IF g \in skipped \cup resolved THEN "toWrite"
                    ELSE IF Parent[g] # NoGame THEN "parent" ELSE "search"
    <3>1. l \in WorkLabels /\ (l = "search" => Parent[g] = NoGame)
      BY DEF WorkLabels
    <3>2. /\ Dequeue(Task("match", j, g)) /\ Take(p, l, Task("match", j, g))
          /\ UNCHANGED <<status, gate, item, dispatch, tried, todo, seen>>
      BY <2>4 DEF StartMatch
    <3> HIDE DEF l
    <3> QED BY <3>1, <3>2, TakeItemStep
  <2>5. ASSUME NEW g \in Games, StartWrite(p, j, g) PROVE LInv'
    <3> DEFINE l == IF g \in skipped THEN "markSkipped"
                    ELSE IF g \in resolved THEN "acquire" ELSE "markFailed"
    <3>1. l \in WorkLabels /\ l # "search"
      BY DEF WorkLabels
    <3>2. /\ Dequeue(Task("write", j, g)) /\ Take(p, l, Task("write", j, g))
          /\ UNCHANGED <<status, gate, item, dispatch, tried, todo, seen>>
      BY <2>5 DEF StartWrite
    <3> HIDE DEF l
    <3> QED BY <3>1, <3>2, TakeItemStep
  <2> QED BY <2>1, <2>2, <2>3, <2>4, <2>5
<1>3. ASSUME NEW j \in Jobs, Trigger(j) PROVE LInv'
  BY <1>3, TriggerStep
<1>4. ASSUME NEW j \in Jobs, CleanupStaleJobs(j) PROVE LInv'
  <2>1. status[j] # "pending"
    BY <1>4 DEF CleanupStaleJobs, Statuses
  <2> QED BY <1>4, <2>1, FailStep DEF CleanupStaleJobs
<1>5. ASSUME NEW j \in Jobs, NEW g \in Games, Rescue(j, g) PROVE LInv'
  <2>1. PICK accepted \in BOOLEAN : EnqueueOrFail(Task("match", j, g), accepted)
    BY <1>5 DEF Rescue
  <2>2. /\ item[j][g] = "pending" /\ ~Backed(j, g)
        /\ UNCHANGED <<status, gate, dispatch, tried, at, on, todo, seen>>
    BY <1>5 DEF Rescue
  <2>3. \A q \in Procs : ~Holds(q, j, g)
    <3> SUFFICES ASSUME NEW q \in Procs, Holds(q, j, g) PROVE FALSE
      OBVIOUS
    <3>1. at[q] \in WorkLabels /\ on[q].job = j /\ on[q].game = g
      BY <2>2 DEF Holds, Backed
    <3>2. on[q] \in Tasks /\ at[q] # "idle"
      BY <3>1 DEF OnTask, WorkLabels
    <3>3. on[q].kind \in {"match", "write"} /\ on[q] = Task(on[q].kind, j, g)
      BY <3>1, <3>2 DEF Tasks, Task
    <3> QED BY <2>2, <3>2, <3>3 DEF Backed, WorksOn
  <2>4. \A q \in Procs : ~Holds(q, j, g)'
    BY <2>2, <2>3 DEF Holds
  <2>5. queue[Task("match", j, g)] = 0 /\ queue[Task("write", j, g)] = 0
    BY <2>2, TaskTyping DEF Backed, TypeOK
  <2>6. \A q \in Procs : at[q] = "stream" /\ seen[q] = {} => on[q].job # j
    BY <2>2 DEF Opening, Untouched
  <2> QED BY <2>1, <2>2, <2>4, <2>5, <2>6, EnqueueStep
<1>6. CASE Crash
  BY <1>0, <1>6 DEF Crash, Spend, OneBatch
<1>7. CASE UNCHANGED vars
  <2>1. UNCHANGED <<status, gate, item, queue, dispatch, tried, at, on, todo, seen>>
    BY <1>7 DEF vars
  <2>2. Quiet' /\ OnTask' /\ Statuses' /\ Opening' /\ Stage1'
    BY <2>1 DEF Quiet, OnTask, Statuses, Opening, Untouched, Stage1
  <2>3. Single'
    <3> SUFFICES ASSUME NEW i \in Jobs, NEW h \in Games, Parent[h] = NoGame
                 PROVE  OnePlace(i, h)'
      BY DEF Single
    <3>1. OnePlace(i, h) /\ \A q \in Procs : Holds(q, i, h)' <=> Holds(q, i, h)
      BY <2>1 DEF Single, Holds
    <3> QED BY <2>1, <3>1 DEF OnePlace
  <2>4. Counted' /\ Reviewed' /\ Closed'
    BY <2>1 DEF Counted, Reviewed, Closed, Settled, Active
  <2> QED BY <2>2, <2>3, <2>4
<1> QED BY <1>1, <1>2, <1>3, <1>4, <1>5, <1>6, <1>7 DEF Next

---------------------------------------------------------------------------
(* The refinement. *)

\* SetItem and EnqueueOrFail write the rows of one job.
LEMMA ContinueRows ==
  ASSUME RInv, NEW p \in Procs, Continue(p) \/ LoseWorker(p)
  PROVE  \/ UNCHANGED <<status, item>> \/ FailJob(p) \/ Finalize(p)
         \/ UNCHANGED status /\ \E j \in Jobs : \A i \in Jobs \ {j} : item'[i] = item[i]
<1> USE DEF RInv, LInv, IInv, rows, games, river, notes, local
<1>0. on[p].job \in Jobs /\ item \in [Jobs -> [Games -> ItemStatus]]
      /\ todo[p] \in SUBSET (Jobs \X Games)
  BY DEF TypeOK
<1> DEFINE OneJob == UNCHANGED status /\ \E j \in Jobs : \A i \in Jobs \ {j} : item'[i] = item[i]
<1>1. ASSUME NEW B \in SUBSET Games, StreamBatch(p, B) PROVE OneJob
  <2>1. \A i \in Jobs \ {on[p].job} : item'[i] = item[i]
    BY <1>0, <1>1 DEF StreamBatch
  <2> QED BY <1>0, <1>1, <2>1 DEF StreamBatch
<1>2. ASSUME NEW k \in {"match", "write"}, NEW j \in Jobs, NEW g, NEW accepted \in BOOLEAN,
             EnqueueOrFail(Task(k, j, g), accepted), UNCHANGED status
      PROVE  OneJob
  <2>1. Task(k, j, g).job = j /\ Task(k, j, g).game = g
    BY DEF Task
  <2>2. \A i \in Jobs \ {j} : item'[i] = item[i]
    BY <1>0, <1>2, <2>1 DEF EnqueueOrFail
  <2> QED BY <1>2, <2>2
<1>3. CASE EnqueueNext(p)
  <2>1. ASSUME NEW accepted \in BOOLEAN, NEW w \in todo[p],
               EnqueueOrFail(Task("match", w[1], w[2]), accepted)
        PROVE  OneJob
    BY <1>0, <1>2, <1>3, <2>1 DEF EnqueueNext
  <2>2. CASE UNCHANGED <<item, queue, todo, spent>>
    BY <1>0, <1>3, <2>2 DEF EnqueueNext
  <2> QED BY <1>3, <2>1, <2>2 DEF EnqueueNext
<1>4. CASE CancelItems(p)
  <2>1. \A i \in Jobs \ {on[p].job} : item'[i] = item[i]
    BY <1>0, <1>4 DEF CancelItems
  <2> QED BY <1>0, <1>4, <2>1 DEF CancelItems
<1>5. CASE EnqueueUserGame(p)
  BY <1>0, <1>2, <1>5 DEF EnqueueUserGame
<1>6. CASE Search(p) \/ Mark(p)
  <2>1. ASSUME NEW s, SetItem(p, s) PROVE \A i \in Jobs \ {on[p].job} : item'[i] = item[i]
    BY <1>0, <2>1 DEF SetItem
  <2>2. UNCHANGED status /\ (UNCHANGED item \/ \E s : SetItem(p, s))
    BY <1>6 DEF Search, Mark
  <2> QED BY <1>0, <2>1, <2>2
<1>7. ASSUME OpenGate(p) \/ AskParent(p) \/ Acquire(p) \/ Siblings(p) \/ Count(p) \/ Review(p)
             \/ Announce(p) \/ Ack(p) \/ CancelTasks(p) \/ LoseWorker(p)
      PROVE  UNCHANGED <<status, item>>
  BY <1>7 DEF OpenGate, AskParent, Acquire, Siblings, Count, Review, Announce, Ack, CancelTasks,
              LoseWorker
<1>8. CASE CancelJob(p)
  BY <1>8 DEF CancelJob, Quiet
<1> QED BY <1>1, <1>3, <1>4, <1>5, <1>6, <1>7, <1>8 DEF Continue

\* Items change only while their job is 'processing' or has failed: before its
\* dispatch ran there are none, and a completed job keeps none open.
LEMMA ProgressStep ==
  ASSUME RInv, RInv', UNCHANGED status, NEW j \in Jobs,
         \A i \in Jobs \ {j} : item'[i] = item[i]
  PROVE  [Lifecycle!Next]_Lifecycle!vars
<1> USE DEF RInv, LInv, IInv
<1>1. \A i \in Jobs \ {j} : Open'[i] = Open[i]
  BY DEF Open, ItemsIn
<1>2. Open = [i \in Jobs |-> Open[i]] /\ Open' = [i \in Jobs |-> Open'[i]]
  BY DEF Open
<1>3. CASE Open'[j] = Open[j]
  <2>1. Open' = Open
    BY <1>1, <1>2, <1>3
  <2> QED BY <2>1 DEF Lifecycle!vars
<1>4. CASE Open'[j] # Open[j]
  <2>1. ~(Settled(j) /\ Settled(j)')
    <3>1. Settled(j)' <=> Open'[j] = {}
      BY DEF Open, ItemsIn, Settled
    <3> QED BY <1>4, <3>1, OpenIsSettled
  <2>2. status[j] # "completed"
    BY <2>1 DEF Closed
  <2>3. status[j] \notin {"absent", "pending"}
    <3>1. ASSUME status[j] \in {"absent", "pending"} PROVE Fresh(j) /\ Fresh(j)'
      BY <3>1 DEF Statuses, AllFresh
    <3> QED BY <2>1, <3>1 DEF Fresh, Settled
  <2>4. status[j] \in {"processing", "failed"}
    BY <2>2, <2>3 DEF Statuses, TypeOK, ActiveStatus, TerminalStatus
  <2>5. Open' = [Open EXCEPT ![j] = Open'[j]]
    BY <1>1, <1>2
  <2>6. Open'[j] \in SUBSET Games
    BY DEF Open, ItemsIn
  <2>7. Lifecycle!Progress(j)
    BY <2>4, <2>5, <2>6 DEF Lifecycle!Progress
  <2> QED BY <2>7 DEF Lifecycle!Next
<1> QED BY <1>3, <1>4

\* A step of the pipeline is a step of the life cycle.
LEMMA LifecycleStep ==
  ASSUME RInv, RInv', OneBatch, [Next]_vars
  PROVE  [Lifecycle!Next]_Lifecycle!vars
<1> USE DEF RInv, LInv, IInv, rows, games, river, notes, local
<1>0. /\ status \in [Jobs -> {"absent"} \cup ActiveStatus \cup TerminalStatus]
      /\ \A p \in Procs : on[p].job \in Jobs
      /\ spent["crashes"] \in Nat /\ spent["cancels"] \in Nat
  BY DEF TypeOK
<1>a. UNCHANGED item => UNCHANGED Open
  BY DEF Open, ItemsIn
<1>1. ASSUME UNCHANGED <<status, item>> PROVE [Lifecycle!Next]_Lifecycle!vars
  BY <1>a, <1>1 DEF Lifecycle!vars
<1>2. ASSUME NEW j \in Jobs, Active(j), status[j] # "pending" \/ status'[j] = "failed",
             NEW to, status' = [status EXCEPT ![j] = to], UNCHANGED item,
             \/ to = "failed"
             \/ to = "completed" /\ Settled(j)
      PROVE  [Lifecycle!Next]_Lifecycle!vars
  <2>1. CASE to = "failed"
    <3>1. Lifecycle!Fail(j)
      BY <1>a, <1>2, <2>1 DEF Lifecycle!Fail, Lifecycle!Move, Active, ActiveStatus
    <3> QED BY <3>1 DEF Lifecycle!Next
  <2>2. CASE to = "completed" /\ Settled(j)
    <3>1. status[j] = "processing" /\ Open[j] = {}
      BY <1>0, <1>2, <2>2, OpenIsSettled DEF Active, ActiveStatus
    <3>2. Lifecycle!Complete(j)
      BY <1>a, <1>2, <2>2, <3>1 DEF Lifecycle!Complete, Lifecycle!Move
    <3> QED BY <3>2 DEF Lifecycle!Next
  <2> QED BY <1>2, <2>1, <2>2
<1>3. ASSUME NEW p \in Procs, FailJob(p) PROVE [Lifecycle!Next]_Lifecycle!vars
  <2> DEFINE j == on[p].job
  <2>1. status' = [status EXCEPT ![j] = "failed"] /\ UNCHANGED item /\ at[p] = "stream"
    BY <1>3 DEF FailJob
  <2>2. dispatch[j] = "running" /\ status[j] \notin {"absent", "completed"}
    BY <1>0, <2>1 DEF GInv, Held, Labelled, Dispatching, GateHolds, Streaming
  <2>3. Active(j) \/ status[j] = "failed"
    BY <1>0, <2>2 DEF Statuses, Active, ActiveStatus, TerminalStatus
  <2>4. CASE status[j] = "failed"
    BY <1>0, <1>1, <2>1, <2>4
  <2>5. CASE Active(j)
    BY <1>0, <1>2, <2>1, <2>5
  <2> QED BY <2>3, <2>4, <2>5
<1>4. ASSUME NEW p \in Procs, Finalize(p) PROVE [Lifecycle!Next]_Lifecycle!vars
  <2> DEFINE j == on[p].job
             done == Active(j) /\ gate[j]
  <2>1. /\ at[p] = "finalize" /\ UNCHANGED item
        /\ status' = IF done THEN [status EXCEPT ![j] = "completed"] ELSE status
    BY <1>4 DEF Finalize, FinalizeIf
  <2>2. CASE ~done
    BY <1>1, <2>1, <2>2
  <2>3. CASE done
    <3>1. Settled(j) /\ on[p].kind # "cancel"
      BY <2>1, <2>3 DEF Reviewed, Quiet
    <3>2. status[j] # "pending"
      BY <1>0, <2>1, <3>1 DEF Statuses, AllFresh, Fresh
    <3> QED BY <1>0, <1>2, <2>1, <2>3, <3>1, <3>2
  <2> QED BY <2>2, <2>3
<1>5. ASSUME NEW p \in Procs, Continue(p) \/ LoseWorker(p) PROVE [Lifecycle!Next]_Lifecycle!vars
  BY <1>1, <1>3, <1>4, <1>5, ContinueRows, ProgressStep
<1>6. ASSUME NEW p \in Procs, NEW j \in Jobs, StartDispatch(p, j)
      PROVE  [Lifecycle!Next]_Lifecycle!vars
  <2>1. status[j] = "pending" /\ status' = [status EXCEPT ![j] = "processing"] /\ UNCHANGED item
    BY <1>6 DEF StartDispatch, Statuses
  <2>2. Lifecycle!Start(j)
    BY <1>a, <2>1 DEF Lifecycle!Start, Lifecycle!Move
  <2> QED BY <2>2 DEF Lifecycle!Next
<1>7. ASSUME NEW p \in Procs, NEW j \in Jobs, StartCancel(p, j) PROVE FALSE
  BY <1>0, <1>7 DEF StartCancel, Spend, OneBatch
<1>8. ASSUME NEW p \in Procs, NEW j \in Jobs, NEW g \in Games,
             StartMatch(p, j, g) \/ StartWrite(p, j, g)
      PROVE  [Lifecycle!Next]_Lifecycle!vars
  BY <1>1, <1>8 DEF StartMatch, StartWrite
<1>9. ASSUME NEW j \in Jobs, Trigger(j) PROVE [Lifecycle!Next]_Lifecycle!vars
  <2>1. Lifecycle!Trigger(j)
    BY <1>a, <1>9 DEF Trigger, Lifecycle!Trigger, Lifecycle!Move
  <2> QED BY <2>1 DEF Lifecycle!Next
<1>10. ASSUME NEW j \in Jobs, CleanupStaleJobs(j) PROVE [Lifecycle!Next]_Lifecycle!vars
  <2>1. Active(j) /\ status' = [status EXCEPT ![j] = "failed"] /\ UNCHANGED item
    BY <1>10 DEF CleanupStaleJobs
  <2>2. status'[j] = "failed"
    BY <1>0, <2>1
  <2> QED BY <1>2, <2>1, <2>2
<1>11. ASSUME NEW j \in Jobs, NEW g \in Games, Rescue(j, g)
       PROVE  [Lifecycle!Next]_Lifecycle!vars
  <2>1. PICK accepted \in BOOLEAN : EnqueueOrFail(Task("match", j, g), accepted)
    BY <1>11 DEF Rescue
  <2>2. UNCHANGED status /\ \A i \in Jobs \ {j} : item'[i] = item[i]
    <3>1. Task("match", j, g).job = j
      BY DEF Task
    <3> QED BY <1>11, <2>1, <3>1 DEF Rescue, EnqueueOrFail, TypeOK
  <2> QED BY <2>2, ProgressStep
<1>12. CASE Crash
  BY <1>0, <1>12 DEF Crash, Spend, OneBatch
<1>13. CASE UNCHANGED vars
  BY <1>1, <1>13 DEF vars
<1> QED BY <1>5, <1>6, <1>7, <1>8, <1>9, <1>10, <1>11, <1>12, <1>13 DEF Next, Begin

\* The initial states are those of the life cycle.
LEMMA LifecycleInit == Init => RInv /\ Lifecycle!Init
<1> SUFFICES ASSUME Init PROVE RInv /\ Lifecycle!Init
  OBVIOUS
<1>1. TypeOK /\ OnItem
  BY TypingInit
<1>2. GInv
  BY DEF Init, GInv, Labelled, Sole, Held, GateHolds, Dispatching, Streaming
<1>3. CancelsApart /\ AllFresh
  BY DEF Init, CancelsApart, AllFresh, Fresh
<1>4. Quiet /\ OnTask /\ Statuses /\ Opening /\ Stage1
  BY DEF Init, Quiet, OnTask, Statuses, Opening, Stage1, WorkLabels
<1>5. Single
  BY TaskTyping DEF Init, Single, OnePlace, Holds, WorkLabels
<1>6. Counted /\ Reviewed /\ Closed
  BY DEF Init, Counted, Reviewed, Closed, Settled
<1>7. Lifecycle!Init
  BY DEF Init, Lifecycle!Init, Open, ItemsIn
<1> QED BY <1>1, <1>2, <1>3, <1>4, <1>5, <1>6, <1>7 DEF RInv, IInv, LInv

\* RInv is inductive.
LEMMA RInvStep == RInv /\ OneBatch /\ [Next]_vars => RInv'
<1> SUFFICES ASSUME RInv, OneBatch, [Next]_vars PROVE RInv'
  OBVIOUS
<1>1. IInv'
  BY TypingStep, GInvStep DEF RInv, IInv
<1>2. CancelsApart' /\ AllFresh'
  BY CancelsApartStep, AllFreshStep DEF RInv, IInv
<1> QED BY <1>1, <1>2, LInvStep DEF RInv

\* "A job completes only when every item is settled, and its verdict is final":
\* the pipeline implements the life cycle of the sync documentation.
THEOREM LifecycleRefined ==
  ASSUME OneBatch
  PROVE  Spec => ImplementsLifecycle
<1>1. Init => RInv /\ Lifecycle!Init
  BY LifecycleInit
<1>2. RInv /\ [Next]_vars => RInv'
  BY RInvStep
<1>3. RInv /\ RInv' /\ [Next]_vars => [Lifecycle!Next]_Lifecycle!vars
  BY LifecycleStep
<1> QED BY <1>1, <1>2, <1>3, PTL DEF Spec, ImplementsLifecycle, Lifecycle!Spec

\* Where the life cycle is implemented, the count of a completion check is not
\* stale when its UPDATE relies on it, and no verdict is taken back: the two
\* promises that the runs refute need a second batch, a crash or a cancellation.
THEOREM VerdictsHold ==
  ASSUME OneBatch
  PROVE  Spec => FinalizeSound /\ TerminalIsFinal
<1>1. Init => RInv
  BY LifecycleInit
<1>2. RInv /\ [Next]_vars => RInv'
  BY RInvStep
<1>3. ASSUME RInv, RInv', [Next]_vars, NEW j \in Jobs
      PROVE  /\ Active(j) /\ status'[j] = "completed" => Open[j] = {}
             /\ status[j] \in TerminalStatus => ~Active(j)'
  <2>1. status \in [Jobs -> {"absent"} \cup ActiveStatus \cup TerminalStatus]
    BY <1>3 DEF RInv, IInv, TypeOK
  <2>2. CASE Lifecycle!Next
    BY <2>1, <2>2 DEF Lifecycle!Next, Lifecycle!Trigger, Lifecycle!Start, Lifecycle!Fail,
         Lifecycle!Complete, Lifecycle!Progress, Lifecycle!Move, Active, ActiveStatus, TerminalStatus
  <2>3. CASE UNCHANGED Lifecycle!vars
    BY <2>3 DEF Lifecycle!vars, Active, ActiveStatus, TerminalStatus
  <2> QED BY <1>3, <2>2, <2>3, LifecycleStep
<1>4. RInv /\ RInv' /\ [Next]_vars =>
        /\ \A j \in Jobs : Active(j) /\ status'[j] = "completed" => Open[j] = {}
        /\ \A j \in Jobs : status[j] \in TerminalStatus => ~Active(j)'
  BY <1>3
<1> QED BY <1>1, <1>2, <1>4, PTL DEF Spec, FinalizeSound, TerminalIsFinal

---------------------------------------------------------------------------
(* Tasks and items in lockstep.                                            *)
(*                                                                         *)
(* A pending item of a job that is not over has a task or will get one, or *)
(* is a child that waits: Lockstep, for the one job of a run whose workers *)
(* nobody stops.  Lockstep is not inductive: that a parent still wakes the *)
(* child that waits for it depends on where the parent's own task is.      *)
(* Tracked follows each item from list to queue to worker, and says of a   *)
(* waiting child that its parent is not written yet, or about to wake it.  *)

\* The hypotheses: one job, and neither crashes nor timeouts nor cancellations.
OneJob == NJobs = 1 /\ MaxCrashes = 0 /\ MaxLost = 0 /\ MaxCancels = 0

Alive(j) == status[j] \in {"absent", "pending", "processing"}

\* p has the item in hand.
Serves(p, j, g) == at[p] \in WorkLabels /\ on[p].job = j /\ on[p].game = g

\* The item has a task, queued or at work; it is on a list to get one.
Carried(j, g) == \/ queue[Task("match", j, g)] > 0 \/ queue[Task("write", j, g)] > 0
                 \/ \E p \in Procs : Serves(p, j, g)
Listed(j, g)  == \E p \in Procs : <<j, g>> \in todo[p]

\* A child that waits: its parent is not resolved, or not written, or about to wake it.
Waking(g)  == \E p \in Procs : at[p] = "siblings" /\ on[p].game = g
Left(j, g) == /\ Parent[g] # NoGame /\ g \notin resolved
              /\ Parent[g] \in resolved => item[j][Parent[g]] # "completed" \/ Waking(Parent[g])

\* No pending item is forgotten, and one whose game is resolved has its task.
Tracked == \A j \in Jobs, g \in Games : Alive(j) /\ item[j][g] = "pending" =>
    /\ Carried(j, g) \/ Listed(j, g) \/ Left(j, g)
    /\ g \in resolved => Carried(j, g)

\* Only what was streamed has tasks, and what the user skipped is not streamed.
Streamed == \A j \in Jobs, g \in Games :
    /\ item[j][g] # "absent" => g \notin skipped
    /\ Carried(j, g) \/ Listed(j, g) => item[j][g] # "absent"

\* How far a game is and how far its item is.
InStep == \A j \in Jobs, g \in Games :
    /\ item[j][g] = "completed" => g \in resolved
    /\ Alive(j) /\ g \in resolved => item[j][g] \in {"pending", "completed", "failed"}
    /\ Alive(j) => item[j][g] \notin {"skipped", "cancelled"}
    /\ Parent[g] # NoGame => item[j][g] # "pending_review"
    /\ g \in resolved /\ Parent[g] # NoGame => Parent[g] \in resolved
    /\ Alive(j) /\ Parent[g] = NoGame => OnePlace(j, g)

\* What a goroutine at a label knows of its game.
Handy(p) ==
    /\ at[p] \in WorkLabels \cup {"siblings"} => on[p] \in Tasks
    /\ at[p] = "search" => /\ Parent[on[p].game] = NoGame
                           /\ Alive(on[p].job) => on[p].game \notin resolved
    /\ at[p] = "parent" => Parent[on[p].game] # NoGame
    /\ at[p] \in {"toWrite", "acquire", "markCompleted", "siblings"} => on[p].game \in resolved
    /\ at[p] # "markSkipped"
    /\ at[p] = "cancelItems" => ~Alive(on[p].job)
    /\ todo[p] # {} => at[p] \in {"enqueue", "trigger"}
Hands == \A p \in Procs : Handy(p)

PInv == Streamed /\ InStep /\ Tracked
JInv == IInv /\ CancelsApart /\ AllFresh /\ Quiet /\ Statuses /\ Hands /\ PInv

LEMMA NoOtherJob ==
  ASSUME OneJob, NEW i \in Jobs, NEW j \in Jobs
  PROVE  i = j
BY DEF OneJob, Jobs

\* What JInv says of Lockstep.
LEMMA TrackedLockstep == JInv => Lockstep
<1> SUFFICES ASSUME JInv, NEW j \in Jobs, NEW g \in Games, Active(j), item[j][g] = "pending"
             PROVE  Backed(j, g) \/ Waits(j, g)
  BY DEF Lockstep
<1> USE DEF JInv, PInv, IInv
<1>1. Alive(j)
  BY DEF Active, ActiveStatus, Alive
<1>2. ASSUME NEW p \in Procs, NEW i \in Jobs, NEW h \in Games, Serves(p, i, h)
      PROVE  WorksOn(p, i, h) /\ on[p].kind \in {"match", "write"} /\ on[p].game = h
  <2>1. on[p] \in Tasks /\ on[p].job = i /\ on[p].game = h /\ at[p] # "idle"
    BY <1>2 DEF Serves, Hands, Handy, WorkLabels
  <2>2. on[p].kind \in {"match", "write"} /\ on[p] = Task(on[p].kind, i, h)
    BY <2>1 DEF Tasks, Task
  <2> QED BY <2>1, <2>2 DEF WorksOn
<1>3. CASE Carried(j, g) \/ Listed(j, g)
  BY <1>2, <1>3 DEF Carried, Listed, Backed
<1>4. CASE Left(j, g)
  <2> DEFINE parent == Parent[g]
  <2>1. parent \in Games /\ parent # NoGame /\ g \notin resolved
    BY <1>4, GamesAssumption DEF Left
  <2>2. CASE parent \notin resolved
    BY <2>1, <2>2 DEF Waits
  <2>3. CASE parent \in resolved
    <3>1. item[j][parent] \in {"pending", "completed", "failed"}
      BY <1>1, <2>1, <2>3 DEF InStep
    <3>2. CASE item[j][parent] = "pending"
      <4>1. Carried(j, parent)
        BY <1>1, <2>1, <2>3, <3>2 DEF Tracked
      <4>2. WillWake(parent)
        <5>1. CASE \E p \in Procs : Serves(p, j, parent)
          <6>1. PICK p \in Procs : Serves(p, j, parent)
            BY <5>1
          <6>2. on[p].kind \in {"match", "write"} /\ on[p].game = parent
            BY <1>2, <2>1, <6>1
          <6> QED BY <6>1, <6>2 DEF WillWake, Serves, WorkLabels
        <5> QED BY <4>1, <5>1 DEF Carried, WillWake
      <4> QED BY <2>1, <4>2 DEF Waits
    <3>3. CASE item[j][parent] = "completed"
      <4>1. PICK p \in Procs : at[p] = "siblings" /\ on[p].game = parent
        BY <1>4, <2>3, <3>3 DEF Left, Waking
      <4>2. on[p] \in Tasks
        BY <4>1 DEF Hands, Handy
      <4>3. on[p].kind \in {"match", "write"}
        BY <4>2 DEF Tasks
      <4> QED BY <2>1, <4>1, <4>3 DEF Waits, WillWake
    <3>4. CASE item[j][parent] = "failed"
      BY <2>1, <3>4 DEF Waits
    <3> QED BY <3>1, <3>2, <3>3, <3>4
  <2> QED BY <2>2, <2>3
<1> QED BY <1>1, <1>3, <1>4 DEF Tracked

---------------------------------------------------------------------------
(* One lemma for each way in which a step moves the items on. *)

\* Nothing but labels and the status of the job.
LEMMA SteadyStep ==
  ASSUME JInv, UNCHANGED <<item, queue, resolved, skipped, todo>>,
         \A j \in Jobs : Alive(j)' => Alive(j),
         \A q \in Procs, i \in Jobs, h \in Games : Serves(q, i, h)' <=> Serves(q, i, h),
         \A h \in Games : Waking(h) => Waking(h)'
  PROVE  PInv'
<1> USE DEF JInv, PInv
<1>1. \A i \in Jobs, h \in Games : (Carried(i, h)' <=> Carried(i, h)) /\ (Listed(i, h)' <=> Listed(i, h))
  BY DEF Carried, Listed
<1>2. \A i \in Jobs, h \in Games : Left(i, h) => Left(i, h)'
  BY GamesAssumption DEF Left
<1>3. Streamed'
  BY <1>1 DEF Streamed
<1>4. Tracked'
  BY <1>1, <1>2 DEF Tracked
<1>5. \A q \in Procs, i \in Jobs, h \in Games : Holds(q, i, h)' <=> Holds(q, i, h)
  BY DEF Holds, Serves
<1>6. \A i \in Jobs, h \in Games : OnePlace(i, h) /\ Alive(i)' => OnePlace(i, h)'
  BY <1>5 DEF OnePlace, Alive
<1>7. InStep'
  BY <1>6 DEF InStep
<1> QED BY <1>3, <1>4, <1>7

\* A child finds its parent unresolved, and its item is left pending.
LEMMA LeaveStep ==
  ASSUME JInv, OneJob, NEW p \in Procs, at[p] = "parent", Parent[on[p].game] \notin resolved,
         GoTo(p, "ack"), UNCHANGED <<status, item, queue, resolved, skipped, todo, on>>
  PROVE  PInv'
<1> USE DEF JInv, PInv
<1> DEFINE g == on[p].game
<1>0. at \in [Procs -> Labels] /\ on[p] \in Tasks /\ Parent[g] # NoGame /\ g \in Games /\ on[p].job \in Jobs
  BY DEF IInv, TypeOK, Hands, Handy, WorkLabels, Tasks
<1>1. at'[p] = "ack" /\ \A q \in Procs \ {p} : at'[q] = at[q]
  BY <1>0 DEF GoTo
<1>2. \A q \in Procs, i \in Jobs, h \in Games :
         /\ Serves(q, i, h)' => Serves(q, i, h)
         /\ h # g => (Serves(q, i, h)' <=> Serves(q, i, h))
  BY <1>1 DEF Serves, WorkLabels
<1>3. \A i \in Jobs, h \in Games : /\ Carried(i, h)' => Carried(i, h)
                                   /\ h # g => (Carried(i, h)' <=> Carried(i, h))
                                   /\ Listed(i, h)' <=> Listed(i, h)
  BY <1>2 DEF Carried, Listed
<1>4. \A h \in Games : Waking(h) => Waking(h)'
  BY <1>1 DEF Waking
<1>5. \A i \in Jobs, h \in Games : Left(i, h) => Left(i, h)'
  BY <1>4, GamesAssumption DEF Left
<1>6. g \notin resolved /\ \A i \in Jobs : Left(i, g)'
  BY <1>0 DEF InStep, Left
<1>7. Streamed'
  BY <1>3 DEF Streamed
<1>8. Tracked'
  BY <1>3, <1>5, <1>6 DEF Tracked, Alive
<1>9. \A i \in Jobs, h \in Games : OnePlace(i, h) => OnePlace(i, h)'
  BY <1>2 DEF OnePlace, Holds, Serves
<1>10. InStep'
  BY <1>9 DEF InStep, Alive
<1> QED BY <1>7, <1>8, <1>10

\* A game is resolved: its item waits for the write.
LEMMA ResolveStep ==
  ASSUME JInv, OneJob, NEW p \in Procs, at[p] \in {"parent", "search"},
         at[p] = "parent" => Parent[on[p].game] \in resolved,
         GoTo(p, "toWrite"), resolved' = resolved \cup {on[p].game},
         UNCHANGED <<status, item, queue, skipped, todo, on>>
  PROVE  PInv'
<1> USE DEF JInv, PInv
<1> DEFINE j == on[p].job
           g == on[p].game
<1>0. at \in [Procs -> Labels] /\ on[p] \in Tasks /\ j \in Jobs /\ g \in Games
  BY DEF IInv, TypeOK, Hands, Handy, WorkLabels, Tasks
<1>1. at'[p] = "toWrite" /\ \A q \in Procs \ {p} : at'[q] = at[q]
  BY <1>0 DEF GoTo
<1>2. \A q \in Procs, i \in Jobs, h \in Games : Serves(q, i, h)' <=> Serves(q, i, h)
  BY <1>1 DEF Serves, WorkLabels
<1>3. \A i \in Jobs, h \in Games : (Carried(i, h)' <=> Carried(i, h)) /\ (Listed(i, h)' <=> Listed(i, h))
  BY <1>2 DEF Carried, Listed
<1>4. \A h \in Games : Waking(h) => Waking(h)'
  BY <1>1 DEF Waking
<1>5. Serves(p, j, g) /\ Carried(j, g)
  BY DEF Serves, Carried, WorkLabels
<1>6. at[p] = "search" => Parent[g] = NoGame
  BY DEF Hands, Handy
<1>7. Alive(j) => item[j][g] \in {"pending", "completed", "failed"}
  <2>1. CASE at[p] = "search"
    <3>1. Holds(p, j, g)
      BY <1>5 DEF Holds, Serves
    <3>2. Alive(j) => OnePlace(j, g)
      BY <1>0, <1>6, <2>1 DEF InStep
    <3> QED BY <3>1, <3>2 DEF OnePlace, Alive
  <2>2. CASE at[p] = "parent"
    <3>1. item[j][g] \in ItemStatus /\ item[j][g] # "absent" /\ Parent[g] # NoGame
      BY <1>0, <1>5, <2>2 DEF IInv, TypeOK, Streamed, Hands, Handy
    <3> QED BY <1>0, <3>1 DEF InStep, ItemStatus
  <2> QED BY <2>1, <2>2
<1>8. \A i \in Jobs : i = j
  BY <1>0, NoOtherJob
<1>9. Streamed'
  BY <1>3 DEF Streamed
<1>10. \A i \in Jobs, h \in Games : OnePlace(i, h) => OnePlace(i, h)'
  BY <1>2 DEF OnePlace, Holds, Serves
<1>11. InStep'
  <2> SUFFICES ASSUME NEW i \in Jobs, NEW h \in Games
               PROVE  /\ item[i][h] = "completed" => h \in resolved'
                      /\ Alive(i) /\ h \in resolved' => item[i][h] \in {"pending", "completed", "failed"}
                      /\ h \in resolved' /\ Parent[h] # NoGame => Parent[h] \in resolved'
    BY <1>10 DEF InStep, Alive
  <2>1. CASE h = g
    BY <1>6, <1>7, <1>8, <2>1
  <2>2. CASE h # g
    BY <2>2 DEF InStep
  <2> QED BY <2>1, <2>2
<1>12. Tracked'
  <2> SUFFICES ASSUME NEW i \in Jobs, NEW h \in Games, Alive(i), item[i][h] = "pending"
               PROVE  /\ Carried(i, h)' \/ Listed(i, h)' \/ Left(i, h)'
                      /\ h \in resolved' => Carried(i, h)'
    BY DEF Tracked, Alive
  <2>1. CASE h = g
    BY <1>3, <1>5, <1>8, <2>1
  <2>2. CASE h # g
    <3>1. h \in resolved' => h \in resolved
      BY <2>2
    <3>2. Left(i, h) => Left(i, h)'
      <4>1. SUFFICES ASSUME Left(i, h), Parent[h] \in resolved', item[i][Parent[h]] = "completed"
                     PROVE  Waking(Parent[h])'
        BY <3>1 DEF Left
      <4>2. Parent[h] \in Games
        BY <4>1, GamesAssumption DEF Left
      <4>3. Parent[h] \in resolved
        BY <4>1, <4>2 DEF InStep
      <4> QED BY <1>4, <4>1, <4>2, <4>3 DEF Left
    <3> QED BY <1>3, <3>1, <3>2 DEF Tracked
  <2> QED BY <2>1, <2>2
<1> QED BY <1>9, <1>11, <1>12

\* A worker writes the status of the item it has in hand.
LEMMA WriteStep ==
  ASSUME JInv, OneJob, NEW p \in Procs, NEW s \in {"completed", "failed", "pending_review"},
         NEW l \in {"count", "siblings"}, at[p] \in WorkLabels,
         s = "completed" => at[p] = "markCompleted" /\ l = "siblings",
         s = "pending_review" => at[p] = "search",
         SetItem(p, s), GoTo(p, l), UNCHANGED <<status, queue, resolved, skipped, todo, on>>
  PROVE  PInv'
<1> USE DEF JInv, PInv
<1> DEFINE j == on[p].job
           g == on[p].game
<1>0. /\ at \in [Procs -> Labels] /\ on[p] \in Tasks /\ j \in Jobs /\ g \in Games
      /\ at[p] = "markCompleted" => g \in resolved
      /\ at[p] = "search" => Parent[g] = NoGame /\ (Alive(j) => g \notin resolved)
  BY DEF IInv, TypeOK, Hands, Handy, Tasks
<1>1. at'[p] = l /\ l \notin WorkLabels /\ \A q \in Procs \ {p} : at'[q] = at[q]
  BY <1>0 DEF GoTo, WorkLabels
<1>2. /\ item'[j][g] = s
      /\ \A i \in Jobs, h \in Games : i # j \/ h # g => item'[i][h] = item[i][h]
  BY <1>0 DEF SetItem, IInv, TypeOK
<1>3. Serves(p, j, g) /\ Carried(j, g)
  BY DEF Serves, Carried
<1>4. \A i \in Jobs : i = j
  BY <1>0, NoOtherJob
<1>5. \A q \in Procs, i \in Jobs, h \in Games :
         /\ Serves(q, i, h)' => Serves(q, i, h) /\ q # p
         /\ h # g => (Serves(q, i, h)' <=> Serves(q, i, h))
  BY <1>1 DEF Serves
<1>6. \A i \in Jobs, h \in Games : /\ Carried(i, h)' => Carried(i, h)
                                   /\ h # g => (Carried(i, h)' <=> Carried(i, h))
                                   /\ Listed(i, h)' <=> Listed(i, h)
  BY <1>5 DEF Carried, Listed
<1>7. \A h \in Games : Waking(h) => Waking(h)'
  BY <1>1 DEF Waking, WorkLabels
<1>8. Streamed'
  BY <1>0, <1>2, <1>3, <1>4, <1>6 DEF Streamed
<1>9. ASSUME NEW h \in Games, Parent[h] = NoGame, Alive(j) PROVE OnePlace(j, h)'
  <2>1. OnePlace(j, h)
    BY <1>0, <1>9 DEF InStep
  <2>2. \A q \in Procs : Holds(q, j, h)' => Holds(q, j, h)
    BY <1>0, <1>5 DEF Holds, Serves
  <2>3. CASE h # g
    BY <1>0, <1>2, <2>1, <2>2, <2>3 DEF OnePlace
  <2>4. CASE h = g
    <3>1. Holds(p, j, g) /\ todo[p] = {}
      BY <1>3 DEF Holds, Serves, Hands, Handy, WorkLabels
    <3>2. \A q \in Procs : Holds(q, j, g)' => q # p
      BY <1>1, <3>1 DEF Holds
    <3> QED BY <2>1, <2>2, <2>4, <3>1, <3>2 DEF OnePlace
  <2> QED BY <2>3, <2>4
<1>10. InStep'
  <2> SUFFICES ASSUME NEW h \in Games
               PROVE  /\ item'[j][h] = "completed" => h \in resolved
                      /\ Alive(j) /\ h \in resolved => item'[j][h] \in {"pending", "completed", "failed"}
                      /\ Alive(j) => item'[j][h] \notin {"skipped", "cancelled"}
                      /\ Parent[h] # NoGame => item'[j][h] # "pending_review"
    BY <1>0, <1>4, <1>9 DEF InStep, Alive
  <2>1. CASE h = g
    BY <1>0, <1>2, <2>1
  <2>2. CASE h # g
    BY <1>0, <1>2, <2>2 DEF InStep
  <2> QED BY <2>1, <2>2
<1>11. Tracked'
  <2> SUFFICES ASSUME NEW h \in Games, Alive(j), item'[j][h] = "pending"
               PROVE  /\ Carried(j, h)' \/ Listed(j, h)' \/ Left(j, h)'
                      /\ h \in resolved => Carried(j, h)'
    BY <1>4 DEF Tracked, Alive
  <2>1. h # g /\ item[j][h] = "pending"
    BY <1>0, <1>2
  <2>2. Left(j, h) => Left(j, h)'
    <3>1. SUFFICES ASSUME Left(j, h), Parent[h] \in resolved, item'[j][Parent[h]] = "completed"
                   PROVE  Waking(Parent[h])'
      BY <1>0 DEF Left
    <3>2. Parent[h] \in Games
      BY <3>1, GamesAssumption DEF Left
    <3>3. CASE Parent[h] = g
      BY <1>0, <1>1, <1>2, <3>1, <3>3 DEF Waking
    <3>4. CASE Parent[h] # g
      BY <1>0, <1>2, <1>7, <3>1, <3>2, <3>4 DEF Left
    <3> QED BY <3>3, <3>4
  <2> QED BY <1>0, <1>6, <2>1, <2>2 DEF Tracked
<1> QED BY <1>8, <1>10, <1>11

\* A resolved game's write collects the children that wait for it.
LEMMA WakeStep ==
  ASSUME JInv, OneJob, NEW p \in Procs, Siblings(p)
  PROVE  PInv'
<1> USE DEF JInv, PInv
<1> DEFINE g == on[p].game
<1>0. /\ at \in [Procs -> Labels] /\ at[p] = "siblings" /\ todo[p] = {} /\ DOMAIN todo = Procs
      /\ on[p] \in Tasks /\ g \in Games /\ g # NoGame
      /\ UNCHANGED <<status, item, queue, resolved, skipped, on>>
  BY GamesAssumption DEF IInv, TypeOK, Hands, Handy, Tasks, Siblings, rows, games, river
<1>1. at'[p] = "trigger" /\ \A q \in Procs \ {p} : at'[q] = at[q]
  BY <1>0 DEF Siblings, GoTo
<1>2. /\ \A i \in Jobs, h \in Games : <<i, h>> \in todo'[p] <=>
            h \notin resolved \cup skipped /\ Parent[h] = g /\ item[i][h] = "pending"
      /\ \A q \in Procs \ {p} : todo'[q] = todo[q]
  <2>1. todo'[p] = {w \in Jobs \X (Games \ (resolved \cup skipped)) :
                      Parent[w[2]] = g /\ item[w[1]][w[2]] = "pending"}
    BY <1>0 DEF Siblings
  <2> QED BY <1>0, <2>1 DEF Siblings
<1>3. \A q \in Procs, i \in Jobs, h \in Games :
         /\ Serves(q, i, h)' <=> Serves(q, i, h)
         /\ Holds(q, i, h) => Holds(q, i, h)'
         /\ Holds(q, i, h)' => Holds(q, i, h) \/ (Parent[h] # NoGame /\ item[i][h] = "pending")
  <2>1. \A q \in Procs, i \in Jobs, h \in Games : Serves(q, i, h)' <=> Serves(q, i, h)
    BY <1>0, <1>1 DEF Serves, WorkLabels
  <2>2. \A q \in Procs, i \in Jobs, h \in Games : Holds(q, i, h) <=> <<i, h>> \in todo[q] \/ Serves(q, i, h)
    BY DEF Holds, Serves
  <2>3. \A q \in Procs, i \in Jobs, h \in Games : Holds(q, i, h)' <=> <<i, h>> \in todo'[q] \/ Serves(q, i, h)'
    BY DEF Holds, Serves
  <2>4. \A q \in Procs, i \in Jobs, h \in Games :
           /\ <<i, h>> \in todo[q] => <<i, h>> \in todo'[q]
           /\ <<i, h>> \in todo'[q] => <<i, h>> \in todo[q] \/ (Parent[h] # NoGame /\ item[i][h] = "pending")
    BY <1>0, <1>2
  <2> QED BY <2>1, <2>2, <2>3, <2>4
<1>4. \A i \in Jobs, h \in Games :
         /\ Carried(i, h)' <=> Carried(i, h)
         /\ Listed(i, h) => Listed(i, h)'
         /\ Listed(i, h)' => Listed(i, h) \/ item[i][h] = "pending"
         /\ h \notin resolved \cup skipped /\ Parent[h] = g /\ item[i][h] = "pending" => Listed(i, h)'
  BY <1>0, <1>2, <1>3 DEF Carried, Listed
<1>5. \A h \in Games : h # g /\ Waking(h) => Waking(h)'
  BY <1>0, <1>1 DEF Waking
<1>6. Streamed'
  BY <1>0, <1>4 DEF Streamed
<1>7. \A i \in Jobs, h \in Games : Parent[h] = NoGame /\ OnePlace(i, h) => OnePlace(i, h)'
  BY <1>0, <1>3 DEF OnePlace
<1>8. InStep'
  BY <1>0, <1>7 DEF InStep, Alive
<1>9. Tracked'
  <2> SUFFICES ASSUME NEW i \in Jobs, NEW h \in Games, Alive(i), item[i][h] = "pending"
               PROVE  /\ Carried(i, h)' \/ Listed(i, h)' \/ Left(i, h)'
                      /\ h \in resolved => Carried(i, h)'
    BY <1>0 DEF Tracked, Alive
  <2>1. h \in resolved => Carried(i, h)'
    BY <1>4 DEF Tracked
  <2>2. CASE Parent[h] = g /\ h \notin resolved
    BY <1>4, <2>2 DEF Streamed
  <2>3. CASE Parent[h] # g
    <3>1. Left(i, h) => Left(i, h)'
      BY <1>0, <1>5, <2>3, GamesAssumption DEF Left
    <3> QED BY <1>4, <2>1, <3>1 DEF Tracked
  <2> QED BY <2>1, <2>2, <2>3
<1> QED BY <1>6, <1>8, <1>9

\* A task is enqueued, or its item marked failed.
LEMMA TaskStep ==
  ASSUME JInv, NEW k \in {"match", "write"}, NEW j \in Jobs, NEW g \in Games,
         NEW accepted \in BOOLEAN, EnqueueOrFail(Task(k, j, g), accepted),
         UNCHANGED <<status, resolved, skipped, on>>,
         \A q \in Procs, i \in Jobs, h \in Games :
            /\ Holds(q, i, h)' => Holds(q, i, h)
            /\ i # j \/ h # g => /\ Serves(q, i, h) => Serves(q, i, h)'
                                 /\ <<i, h>> \in todo[q] => <<i, h>> \in todo'[q],
         \A q \in Procs, i \in Jobs, h \in Games :
            (Serves(q, i, h)' => Serves(q, i, h)) /\ (<<i, h>> \in todo'[q] => <<i, h>> \in todo[q]),
         \A h \in Games : Waking(h) => Waking(h)',
         item[j][g] # "absent",
         Parent[g] = NoGame /\ Alive(j) =>
            /\ queue[Task("match", j, g)] = 0 /\ queue[Task("write", j, g)] = 0
            /\ \A q \in Procs : ~Holds(q, j, g)'
            /\ item[j][g] = "pending"
  PROVE  PInv'
<1> USE DEF JInv, PInv
<1>0. queue \in [Tasks -> Nat] /\ TypeOK
  BY DEF IInv, TypeOK
<1>1. /\ \A i \in Jobs, h \in Games : i # j \/ h # g => item'[i][h] = item[i][h]
      /\ item'[j][g] = item[j][g] \/ (item[j][g] = "pending" /\ item'[j][g] = "failed")
      /\ \A t \in Tasks \ {Task(k, j, g)} : queue'[t] = queue[t]
      /\ \/ queue' = queue
         \/ item' = item /\ queue'[Task(k, j, g)] = queue[Task(k, j, g)] + 1
  BY <1>0, EnqueueShape
<1>2. item'[j][g] = "pending" => queue'[Task(k, j, g)] > 0
  <2>1. Task(k, j, g) \in Tasks /\ Task(k, j, g).job = j /\ Task(k, j, g).game = g
    BY TaskTyping DEF Task
  <2>2. CASE accepted
    BY <1>0, <2>1, <2>2 DEF EnqueueOrFail
  <2>3. CASE ~accepted
    BY <1>0, <2>1, <2>3 DEF EnqueueOrFail, TypeOK
  <2> QED BY <2>2, <2>3
<1>3. \A i \in Jobs, h \in Games, m \in {"match", "write"} :
         i # j \/ h # g => queue'[Task(m, i, h)] = queue[Task(m, i, h)]
  BY <1>1, TaskTyping, TaskApart
<1>4. \A i \in Jobs, h \in Games : i # j \/ h # g =>
         /\ Carried(i, h)' <=> Carried(i, h)
         /\ Listed(i, h)' <=> Listed(i, h)
  BY <1>3 DEF Carried, Listed
<1>5. item'[j][g] = "pending" => Carried(j, g)'
  BY <1>2 DEF Carried
<1>6. Streamed'
  BY <1>1, <1>4 DEF Streamed
<1>7. ASSUME NEW i \in Jobs, NEW h \in Games, Parent[h] = NoGame, Alive(i) PROVE OnePlace(i, h)'
  <2>1. OnePlace(i, h)
    BY <1>7 DEF InStep
  <2>2. CASE i = j /\ h = g
    <3>1. \A m \in {"match", "write"} : Task(m, j, g) \in Tasks
      BY TaskTyping
    <3>2. Task("match", j, g) # Task("write", j, g)
      BY TaskApart
    <3>3. /\ queue[Task("match", j, g)] = 0 /\ queue[Task("write", j, g)] = 0
          /\ \A q \in Procs : ~Holds(q, j, g)'
          /\ item[j][g] = "pending"
      BY <1>7, <2>2
    <3>4. CASE queue' = queue
      BY <2>2, <3>3, <3>4 DEF OnePlace
    <3>5. CASE item' = item /\ queue'[Task(k, j, g)] = queue[Task(k, j, g)] + 1
      <4>1. queue'[Task("match", j, g)] + queue'[Task("write", j, g)] <= 1
        BY <1>1, <3>1, <3>2, <3>3, <3>5
      <4> QED BY <2>2, <3>3, <3>5, <4>1 DEF OnePlace
    <3> QED BY <1>1, <3>4, <3>5
  <2>3. CASE i # j \/ h # g
    BY <1>1, <1>3, <2>1, <2>3 DEF OnePlace
  <2> QED BY <2>2, <2>3
<1>8. InStep'
  BY <1>1, <1>7 DEF InStep, Alive
<1>9. Tracked'
  <2> SUFFICES ASSUME NEW i \in Jobs, NEW h \in Games, Alive(i), item'[i][h] = "pending"
               PROVE  /\ Carried(i, h)' \/ Listed(i, h)' \/ Left(i, h)'
                      /\ h \in resolved => Carried(i, h)'
    BY DEF Tracked, Alive
  <2>1. CASE i = j /\ h = g
    BY <1>5, <2>1
  <2>2. CASE i # j \/ h # g
    <3>1. Left(i, h) => Left(i, h)'
      BY <1>1, GamesAssumption DEF Left
    <3> QED BY <1>1, <1>4, <2>2, <3>1 DEF Tracked
  <2> QED BY <2>1, <2>2
<1> QED BY <1>6, <1>8, <1>9

\* A worker takes a task off the queue.
LEMMA TakeStep ==
  ASSUME JInv, NEW p \in Procs, NEW j \in Jobs, NEW g \in Games, NEW k \in {"match", "write"},
         Dequeue(Task(k, j, g)), NEW l \in WorkLabels, Take(p, l, Task(k, j, g)),
         UNCHANGED <<status, item, resolved, skipped, todo>>
  PROVE  PInv'
<1> USE DEF JInv, PInv
<1>0. /\ queue \in [Tasks -> Nat] /\ Task(k, j, g) \in Tasks
      /\ Task(k, j, g).job = j /\ Task(k, j, g).game = g
  BY TaskTyping DEF IInv, TypeOK, Task
<1>1. /\ at[p] = "idle" /\ at'[p] = l /\ on'[p] = Task(k, j, g)
      /\ \A q \in Procs \ {p} : at'[q] = at[q] /\ on'[q] = on[q]
  BY TakeShape DEF IInv
<1>2. /\ queue[Task(k, j, g)] > 0 /\ queue'[Task(k, j, g)] = queue[Task(k, j, g)] - 1
      /\ \A t \in Tasks \ {Task(k, j, g)} : queue'[t] = queue[t]
  BY <1>0 DEF Dequeue
<1>3. \A i \in Jobs, h \in Games, m \in {"match", "write"} :
         /\ i # j \/ h # g => queue'[Task(m, i, h)] = queue[Task(m, i, h)]
         /\ Task(m, i, h) \in Tasks
  BY <1>2, TaskTyping, TaskApart
<1>4. \A q \in Procs, i \in Jobs, h \in Games :
         Serves(q, i, h)' <=> IF q = p THEN i = j /\ h = g ELSE Serves(q, i, h)
  BY <1>0, <1>1 DEF Serves
<1>5. \A q \in Procs, i \in Jobs, h \in Games : ~Serves(p, i, h)
  BY <1>1 DEF Serves, WorkLabels
<1>6. Carried(j, g) /\ Carried(j, g)'
  BY <1>2, <1>4 DEF Carried
<1>7. \A i \in Jobs, h \in Games :
         /\ i # j \/ h # g => (Carried(i, h)' <=> Carried(i, h))
         /\ Listed(i, h)' <=> Listed(i, h)
  BY <1>3, <1>4, <1>5 DEF Carried, Listed
<1>8. \A h \in Games : Waking(h) => Waking(h)'
  BY <1>1 DEF Waking
<1>9. \A i \in Jobs, h \in Games : Left(i, h) => Left(i, h)'
  BY <1>8, GamesAssumption DEF Left
<1>10. Streamed'
  BY <1>6, <1>7 DEF Streamed
<1>11. ASSUME NEW i \in Jobs, NEW h \in Games, Parent[h] = NoGame, Alive(i) PROVE OnePlace(i, h)'
  <2>1. OnePlace(i, h)
    BY <1>11 DEF InStep
  <2>2. todo[p] = {}
    BY <1>1 DEF Hands, Handy
  <2>3. \A q \in Procs : Holds(q, i, h)' <=> IF q = p THEN i = j /\ h = g ELSE Holds(q, i, h)
    BY <1>4, <2>2 DEF Holds, Serves
  <2>4. CASE i # j \/ h # g
    BY <1>3, <2>1, <2>3, <2>4 DEF OnePlace
  <2>5. CASE i = j /\ h = g
    <3>1. Task("match", j, g) # Task("write", j, g)
      BY TaskApart
    <3>2. /\ queue[Task("match", j, g)] \in Nat /\ queue[Task("write", j, g)] \in Nat
          /\ queue[Task("match", j, g)] + queue[Task("write", j, g)] <= 1
      BY <1>0, <1>3, <2>1, <2>5 DEF OnePlace
    <3>3. queue'[Task("match", j, g)] = 0 /\ queue'[Task("write", j, g)] = 0
      <4>0. Task("match", j, g) \in Tasks /\ Task("write", j, g) \in Tasks
        BY <1>3
      <4>1. CASE k = "match"
        BY <1>2, <3>1, <3>2, <4>0, <4>1
      <4>2. CASE k = "write"
        BY <1>2, <3>1, <3>2, <4>0, <4>2
      <4> QED BY <4>1, <4>2
    <3>4. /\ item[j][g] = "pending" \/ status[j] = "failed"
          /\ \A q \in Procs : ~Holds(q, j, g)
      BY <1>0, <1>2, <2>1, <2>5 DEF OnePlace
    <3> QED BY <2>3, <2>5, <3>3, <3>4 DEF OnePlace
  <2> QED BY <2>4, <2>5
<1>12. InStep'
  BY <1>11 DEF InStep, Alive
<1>13. Tracked'
  BY <1>6, <1>7, <1>9 DEF Tracked, Alive
<1> QED BY <1>10, <1>12, <1>13

\* A batch is streamed: its new items are on the list of the dispatch.
LEMMA StreamStep ==
  ASSUME JInv, OneJob, NEW p \in Procs, NEW B \in SUBSET Games, StreamBatch(p, B)
  PROVE  PInv'
<1> USE DEF JInv, PInv
<1> DEFINE j == on[p].job
           new == {g \in B \ skipped : item[j][g] = "absent"}
<1>0. /\ at \in [Procs -> Labels] /\ j \in Jobs /\ at[p] = "stream" /\ todo[p] = {}
      /\ UNCHANGED <<status, queue, resolved, skipped, on>>
  BY DEF IInv, TypeOK, StreamBatch, Hands, Handy, river
<1>1. at'[p] = "enqueue" /\ \A q \in Procs \ {p} : at'[q] = at[q]
  BY <1>0 DEF StreamBatch, GoTo
<1>2. \A h \in Games : item'[j][h] = IF h \in new THEN "pending" ELSE item[j][h]
  BY <1>0 DEF StreamBatch, IInv, TypeOK
<1>3. /\ \A h \in Games : <<j, h>> \in todo'[p] <=> h \in new
      /\ \A q \in Procs \ {p} : todo'[q] = todo[q]
  BY <1>0 DEF StreamBatch, IInv, TypeOK
<1>4. \A i \in Jobs : i = j
  BY <1>0, NoOtherJob
<1>5. \A h \in new : item[j][h] = "absent" /\ h \notin skipped
  OBVIOUS
<1> HIDE DEF new
<1>6. \A q \in Procs, h \in Games : Serves(q, j, h)' <=> Serves(q, j, h)
  BY <1>0, <1>1 DEF Serves, WorkLabels
<1>7. \A h \in Games : /\ Carried(j, h)' <=> Carried(j, h)
                       /\ Listed(j, h)' <=> Listed(j, h) \/ h \in new
  BY <1>0, <1>3, <1>6 DEF Carried, Listed
<1>8. \A h \in Games : Waking(h) => Waking(h)'
  BY <1>0, <1>1 DEF Waking
<1>9. \A h \in Games : h \in new => ~Carried(j, h) /\ ~Listed(j, h) /\ (Alive(j) => h \notin resolved)
  BY <1>0, <1>5 DEF Streamed, InStep
<1>10. Streamed'
  <2> SUFFICES ASSUME NEW h \in Games
               PROVE  /\ item'[j][h] # "absent" => h \notin skipped
                      /\ Carried(j, h)' \/ Listed(j, h)' => item'[j][h] # "absent"
    BY <1>0, <1>4 DEF Streamed
  <2> QED BY <1>0, <1>2, <1>5, <1>7 DEF Streamed
<1>11. ASSUME NEW h \in Games, Parent[h] = NoGame, Alive(j) PROVE OnePlace(j, h)'
  <2>1. OnePlace(j, h)
    BY <1>0, <1>11 DEF InStep
  <2>2. \A q \in Procs : Holds(q, j, h)' <=> Holds(q, j, h) \/ (q = p /\ h \in new)
    BY <1>0, <1>3, <1>6 DEF Holds, Serves
  <2>3. CASE h \in new
    <3>1. /\ ~(queue[Task("match", j, h)] > 0) /\ ~(queue[Task("write", j, h)] > 0)
          /\ \A q \in Procs : ~Holds(q, j, h)
      BY <1>9, <2>3 DEF Carried, Listed, Holds, Serves
    <3>2. queue[Task("match", j, h)] = 0 /\ queue[Task("write", j, h)] = 0
      BY <1>0, <3>1, TaskTyping DEF IInv, TypeOK
    <3> QED BY <1>0, <1>2, <2>2, <2>3, <3>1, <3>2 DEF OnePlace
  <2>4. CASE h \notin new
    BY <1>0, <1>2, <2>1, <2>2, <2>4 DEF OnePlace
  <2> QED BY <2>3, <2>4
<1>12. InStep'
  <2> SUFFICES ASSUME NEW h \in Games
               PROVE  /\ item'[j][h] = "completed" => h \in resolved
                      /\ Alive(j) /\ h \in resolved => item'[j][h] \in {"pending", "completed", "failed"}
                      /\ Alive(j) => item'[j][h] \notin {"skipped", "cancelled"}
                      /\ Parent[h] # NoGame => item'[j][h] # "pending_review"
    BY <1>0, <1>4, <1>11 DEF InStep, Alive
  <2> QED BY <1>0, <1>2 DEF InStep
<1>13. Tracked'
  <2> SUFFICES ASSUME NEW h \in Games, Alive(j), item'[j][h] = "pending"
               PROVE  /\ Carried(j, h)' \/ Listed(j, h)' \/ Left(j, h)'
                      /\ h \in resolved => Carried(j, h)'
    BY <1>0, <1>4 DEF Tracked, Alive
  <2>1. CASE h \in new
    BY <1>7, <1>9, <2>1
  <2>2. CASE h \notin new
    <3>1. item[j][h] = "pending"
      BY <1>2, <2>2
    <3>2. Left(j, h) => Left(j, h)'
      BY <1>0, <1>2, <1>8, GamesAssumption DEF Left
    <3> QED BY <1>0, <1>7, <3>1, <3>2 DEF Tracked
  <2> QED BY <2>1, <2>2
<1> QED BY <1>10, <1>12, <1>13

\* The items of a job that failed are cancelled.
LEMMA CancelStep ==
  ASSUME JInv, OneJob, NEW p \in Procs, CancelItems(p)
  PROVE  PInv'
<1> USE DEF JInv, PInv
<1> DEFINE j == on[p].job
<1>0. /\ at \in [Procs -> Labels] /\ j \in Jobs /\ at[p] = "cancelItems" /\ ~Alive(j)
      /\ UNCHANGED <<status, queue, resolved, skipped, todo, on>>
  BY DEF IInv, TypeOK, CancelItems, Hands, Handy, games, river
<1>1. at'[p] = "ack" /\ \A q \in Procs \ {p} : at'[q] = at[q]
  BY <1>0 DEF CancelItems, GoTo
<1>2. \A h \in Games : item'[j][h] = IF item[j][h] = "pending" THEN "cancelled" ELSE item[j][h]
  BY <1>0 DEF CancelItems, IInv, TypeOK
<1>3. \A i \in Jobs : i = j /\ ~Alive(i)'
  BY <1>0, NoOtherJob DEF Alive
<1>4. \A h \in Games : (Carried(j, h)' => Carried(j, h)) /\ (Listed(j, h)' => Listed(j, h))
  BY <1>0, <1>1 DEF Carried, Listed, Serves, WorkLabels
<1>5. Streamed'
  BY <1>0, <1>2, <1>3, <1>4 DEF Streamed
<1>6. InStep'
  BY <1>0, <1>2, <1>3 DEF InStep
<1>7. Tracked'
  BY <1>3 DEF Tracked
<1> QED BY <1>5, <1>6, <1>7

---------------------------------------------------------------------------
(* Every step keeps the items tracked. *)

\* Whoever is at work is about a job that was started.
LEMMA AtWork ==
  ASSUME JInv, NEW p \in Procs, at[p] # "idle"
  PROVE  on[p].job \in Jobs /\ status[on[p].job] \notin {"absent", "pending"}
<1>1. on[p].job \in Jobs /\ on[p].kind # "cancel"
  BY DEF JInv, IInv, TypeOK, Quiet
<1>2. ~Fresh(on[p].job)
  BY <1>1 DEF Fresh
<1> QED BY <1>1, <1>2 DEF JInv, AllFresh, Statuses

\* A goroutine goes on; if it writes the status of a job, that job is over.
LEMMA OnwardStep ==
  ASSUME JInv, NEW p \in Procs, NEW l \in Labels \ {"cancelJob", "cancelTasks"},
         at[p] # "idle", GoTo(p, l), UNCHANGED <<on, dispatch, tried>>,
         \A j \in Jobs : gate[j] => gate'[j],
         \/ UNCHANGED status
         \/ \E s \in {"failed", "completed"} : status' = [status EXCEPT ![on[p].job] = s],
         \A q \in Procs \ {p} : todo'[q] = todo[q],
         \/ UNCHANGED resolved
         \/ /\ resolved' = resolved \cup {on[p].game}
            /\ \A q \in Procs \ {p} :
                  at[q] = "search" /\ Alive(on[q].job) => on[q].game # on[p].game,
         Handy(p)'
  PROVE  Quiet' /\ Statuses' /\ Hands' /\ \A j \in Jobs : Alive(j)' => Alive(j)
<1> USE DEF JInv, PInv
<1>0. /\ at \in [Procs -> Labels] /\ \A q \in Procs : on[q].job \in Jobs
      /\ on[p].job \in Jobs /\ status[on[p].job] \notin {"absent", "pending"}
      /\ DOMAIN status = Jobs
  BY AtWork DEF IInv, TypeOK
<1>1. at'[p] = l /\ \A q \in Procs \ {p} : at'[q] = at[q]
  BY <1>0 DEF GoTo
<1>2. \A j \in Jobs : \/ status'[j] = status[j]
                      \/ status[j] \notin {"absent", "pending"} /\ status'[j] \in {"failed", "completed"}
  BY <1>0
<1>3. Quiet'
  BY <1>1 DEF Quiet
<1>4. Statuses'
  BY <1>2 DEF Statuses
<1>5. \A j \in Jobs : Alive(j)' => Alive(j)
  BY <1>2 DEF Alive
<1>6. ASSUME NEW q \in Procs \ {p} PROVE Handy(q)'
  <2>1. Handy(q)
    BY DEF Hands
  <2>2. at[q] = "search" /\ Alive(on[q].job)' => on[q].game \notin resolved'
    BY <1>0, <1>5, <2>1 DEF Handy
  <2>3. at[q] = "cancelItems" => ~Alive(on[q].job)'
    BY <1>0, <1>5, <2>1 DEF Handy
  <2>4. at'[q] = at[q] /\ on' = on /\ todo'[q] = todo[q] /\ resolved \subseteq resolved'
    BY <1>1
  <2> QED BY <2>1, <2>2, <2>3, <2>4 DEF Handy, Alive
<1>7. Hands'
  BY <1>6 DEF Hands
<1> QED BY <1>3, <1>4, <1>5, <1>7

\* The steps that move no item.
LEMMA QuietMove ==
  ASSUME JInv, NEW p \in Procs, NEW l \in Labels \ {"cancelJob", "cancelTasks"},
         at[p] \notin {"idle", "siblings"}, GoTo(p, l),
         UNCHANGED <<item, queue, resolved, skipped, todo, on, dispatch, tried>>,
         \A j \in Jobs : gate[j] => gate'[j],
         \/ UNCHANGED status
         \/ \E s \in {"failed", "completed"} : status' = [status EXCEPT ![on[p].job] = s],
         at[p] \in WorkLabels <=> l \in WorkLabels,
         Handy(p)'
  PROVE  Quiet' /\ Statuses' /\ Hands' /\ PInv'
<1>1. Quiet' /\ Statuses' /\ Hands' /\ \A j \in Jobs : Alive(j)' => Alive(j)
  BY OnwardStep
<1>2. at \in [Procs -> Labels]
  BY DEF JInv, IInv, TypeOK
<1>3. at'[p] = l /\ \A q \in Procs \ {p} : at'[q] = at[q]
  BY <1>2 DEF GoTo
<1>4. \A q \in Procs, i \in Jobs, h \in Games : Serves(q, i, h)' <=> Serves(q, i, h)
  BY <1>3 DEF Serves
<1>5. \A h \in Games : Waking(h) => Waking(h)'
  BY <1>3 DEF Waking
<1> QED BY <1>1, <1>4, <1>5, SteadyStep

TInv == Quiet /\ Statuses /\ Hands /\ PInv

LEMMA TInvContinue ==
  ASSUME JInv, OneJob, NEW p \in Procs, Continue(p)
  PROVE  TInv'
<1> USE DEF TInv, rows, games, river, notes, local
<1>0. /\ at \in [Procs -> Labels] /\ on[p].job \in Jobs /\ DOMAIN todo = Procs
      /\ todo[p] \in SUBSET (Jobs \X Games) /\ gate \in [Jobs -> BOOLEAN]
      /\ Handy(p) /\ DOMAIN status = Jobs
  BY DEF JInv, IInv, TypeOK, Hands
<1>00. ASSUME NEW l, GoTo(p, l) PROVE at'[p] = l /\ \A q \in Procs \ {p} : at'[q] = at[q]
  BY <1>0, <1>00 DEF GoTo
<1>1. ASSUME NEW B \in SUBSET Games, StreamBatch(p, B) PROVE TInv'
  <2>1. /\ at[p] = "stream" /\ GoTo(p, "enqueue") /\ UNCHANGED <<status, gate, resolved, dispatch, tried, on>>
        /\ \A q \in Procs \ {p} : todo'[q] = todo[q]
    BY <1>0, <1>1 DEF StreamBatch
  <2>2. Handy(p)'
    BY <1>00, <2>1 DEF Handy, WorkLabels
  <2>3. "enqueue" \in Labels \ {"cancelJob", "cancelTasks"}
    BY DEF Labels
  <2> QED BY <1>1, <2>1, <2>2, <2>3, OnwardStep, StreamStep
<1>2. CASE EnqueueNext(p)
  <2>0. /\ at[p] \in {"enqueue", "trigger"}
        /\ UNCHANGED <<status, gate, resolved, skipped, dispatch, tried, on>>
    BY <1>2 DEF EnqueueNext
  <2>1. ASSUME NEW accepted \in BOOLEAN, NEW w \in todo[p],
               EnqueueOrFail(Task("match", w[1], w[2]), accepted),
               todo' = [todo EXCEPT ![p] = @ \ {w}], UNCHANGED at
        PROVE  TInv'
    <3> DEFINE j == w[1]
               g == w[2]
    <3>1. w = <<j, g>> /\ j \in Jobs /\ g \in Games
      BY <1>0
    <3>2. todo'[p] = todo[p] \ {w} /\ \A q \in Procs \ {p} : todo'[q] = todo[q]
      BY <1>0, <2>1
    <3> HIDE DEF j, g
    <3>3. \A q \in Procs, i \in Jobs, h \in Games :
             /\ Serves(q, i, h)' <=> Serves(q, i, h)
             /\ <<i, h>> \in todo'[q] <=> <<i, h>> \in todo[q] /\ ~(q = p /\ i = j /\ h = g)
      BY <2>0, <2>1, <3>1, <3>2 DEF Serves
    <3>4. \A q \in Procs, i \in Jobs, h \in Games : Holds(q, i, h)' => Holds(q, i, h)
      BY <3>3 DEF Holds, Serves
    <3>5. item[j][g] # "absent"
      BY <3>1 DEF JInv, PInv, Streamed, Listed
    <3>6. ASSUME Parent[g] = NoGame, Alive(j)
          PROVE  /\ queue[Task("match", j, g)] = 0 /\ queue[Task("write", j, g)] = 0
                 /\ \A q \in Procs : ~Holds(q, j, g)'
                 /\ item[j][g] = "pending"
      <4>1. OnePlace(j, g) /\ Holds(p, j, g)
        BY <3>1, <3>6 DEF JInv, PInv, InStep, Holds
      <4>2. ~Serves(p, j, g) /\ \A q \in Procs \ {p} : ~Holds(q, j, g)
        BY <2>0, <4>1 DEF OnePlace, Serves, WorkLabels
      <4>3. \A q \in Procs : ~Holds(q, j, g)'
        BY <3>1, <3>3, <3>4, <4>2 DEF Holds, Serves
      <4> QED BY <3>1, <3>6, <4>1, <4>3 DEF OnePlace, Alive
    <3>7. \A h \in Games : Waking(h) => Waking(h)'
      BY <2>0, <2>1 DEF Waking
    <3>8. EnqueueOrFail(Task("match", j, g), accepted)
      BY <2>1 DEF j, g
    <3>9. PInv'
      BY <2>0, <3>1, <3>3, <3>4, <3>5, <3>6, <3>7, <3>8, TaskStep
    <3>10. GoTo(p, at[p]) /\ at[p] \in Labels \ {"cancelJob", "cancelTasks"} /\ at[p] # "idle"
      BY <1>0, <2>0, <2>1 DEF GoTo
    <3>11. Handy(p)'
      BY <1>00, <2>0, <3>10 DEF Handy, WorkLabels
    <3> QED BY <2>0, <3>2, <3>9, <3>10, <3>11, OnwardStep
  <2>2. ASSUME todo[p] = {}, GoTo(p, IF at[p] = "enqueue" THEN "stream" ELSE "count"),
               UNCHANGED <<item, queue, todo, spent>>
        PROVE  TInv'
    <3> DEFINE l == IF at[p] = "enqueue" THEN "stream" ELSE "count"
    <3>1. l \in Labels \ {"cancelJob", "cancelTasks"} /\ GoTo(p, l) /\ l \in {"stream", "count"}
      BY <2>0, <2>2 DEF Labels
    <3> HIDE DEF l
    <3>2. Handy(p)'
      BY <1>00, <2>0, <2>2, <3>1 DEF Handy, WorkLabels
    <3> QED BY <2>0, <2>2, <3>1, <3>2, QuietMove DEF WorkLabels
  <2> QED BY <1>2, <2>1, <2>2 DEF EnqueueNext
<1>3. CASE OpenGate(p)
  <2>1. at[p] = "stream" /\ UNCHANGED <<status, item, queue, resolved, skipped, dispatch, tried, on, todo>>
    BY <1>3 DEF OpenGate
  <2>2. PICK l \in {"count", "ack"} : GoTo(p, l) /\ \A j \in Jobs : gate[j] => gate'[j]
    BY <1>0, <1>3 DEF OpenGate
  <2>3. Handy(p)' /\ l \in Labels \ {"cancelJob", "cancelTasks"}
    BY <1>0, <1>00, <2>1, <2>2 DEF Handy, WorkLabels, Labels
  <2> QED BY <2>1, <2>2, <2>3, QuietMove DEF WorkLabels
<1>4. CASE FailJob(p)
  <2>1. /\ at[p] = "stream" /\ GoTo(p, "cancelItems") /\ status' = [status EXCEPT ![on[p].job] = "failed"]
        /\ UNCHANGED <<gate, item, queue, resolved, skipped, dispatch, tried, on, todo>>
    BY <1>4 DEF FailJob
  <2>2. ~Alive(on[p].job)'
    BY <1>0, <2>1 DEF Alive
  <2>3. Handy(p)' /\ "cancelItems" \in Labels \ {"cancelJob", "cancelTasks"}
    BY <1>0, <1>00, <2>1, <2>2 DEF Handy, WorkLabels, Labels
  <2> QED BY <2>1, <2>3, QuietMove DEF WorkLabels
<1>5. CASE CancelItems(p)
  <2>1. at[p] = "cancelItems" /\ GoTo(p, "ack") /\ UNCHANGED <<status, gate, resolved, dispatch, tried, on, todo>>
    BY <1>5 DEF CancelItems
  <2>2. Handy(p)' /\ "ack" \in Labels \ {"cancelJob", "cancelTasks"}
    BY <1>0, <1>00, <2>1 DEF Handy, WorkLabels, Labels
  <2> QED BY <1>5, <2>1, <2>2, OnwardStep, CancelStep
<1>6. CASE AskParent(p)
  <2>1. at[p] = "parent" /\ UNCHANGED <<status, gate, item, queue, skipped, dispatch, tried, on, todo>>
    BY <1>6 DEF AskParent
  <2>2. CASE Parent[on[p].game] \in resolved
    <3>1. resolved' = resolved \cup {on[p].game} /\ GoTo(p, "toWrite")
      BY <1>6, <2>2 DEF AskParent
    <3>2. Handy(p)' /\ "toWrite" \in Labels \ {"cancelJob", "cancelTasks"}
      BY <1>0, <1>00, <2>1, <3>1 DEF Handy, WorkLabels, Labels
    <3>3. \A q \in Procs : at[q] = "search" => on[q].game # on[p].game
      BY <1>0, <2>1 DEF JInv, Hands, Handy
    <3> QED BY <2>1, <2>2, <3>1, <3>2, <3>3, OnwardStep, ResolveStep
  <2>3. CASE Parent[on[p].game] \notin resolved
    <3>1. resolved' = resolved /\ GoTo(p, "ack")
      BY <1>6, <2>3 DEF AskParent
    <3>2. Handy(p)' /\ "ack" \in Labels \ {"cancelJob", "cancelTasks"}
      BY <1>0, <1>00, <2>1, <3>1 DEF Handy, WorkLabels, Labels
    <3> QED BY <2>1, <2>3, <3>1, <3>2, OnwardStep, LeaveStep
  <2> QED BY <2>2, <2>3
<1>7. CASE Search(p)
  <2>1. at[p] = "search" /\ UNCHANGED <<status, gate, queue, skipped, dispatch, tried, on, todo>>
    BY <1>7 DEF Search
  <2>2. CASE resolved' = resolved \cup {on[p].game} /\ GoTo(p, "toWrite") /\ UNCHANGED item
    <3>1. Handy(p)' /\ "toWrite" \in Labels \ {"cancelJob", "cancelTasks"}
      BY <1>0, <1>00, <2>1, <2>2 DEF Handy, WorkLabels, Labels
    <3>2. ASSUME NEW q \in Procs \ {p}, at[q] = "search", Alive(on[q].job) PROVE on[q].game # on[p].game
      <4>1. on[q].job = on[p].job
        BY <1>0, NoOtherJob DEF JInv, IInv, TypeOK
      <4>2. on[p].game \in Games /\ Parent[on[p].game] = NoGame
        BY <1>0, <2>1 DEF Handy, WorkLabels, Tasks
      <4>3. OnePlace(on[p].job, on[p].game)
        BY <1>0, <3>2, <4>1, <4>2 DEF JInv, PInv, InStep
      <4>4. Holds(p, on[p].job, on[p].game)
        BY <2>1 DEF Holds, WorkLabels
      <4>5. on[q].game = on[p].game => Holds(q, on[p].job, on[p].game)
        BY <3>2, <4>1 DEF Holds, WorkLabels
      <4> QED BY <4>3, <4>4, <4>5 DEF OnePlace
    <3> QED BY <2>1, <2>2, <3>1, <3>2, OnwardStep, ResolveStep
  <2>3. CASE SetItem(p, "pending_review") /\ GoTo(p, "count") /\ UNCHANGED resolved
    <3>1. Handy(p)' /\ "count" \in Labels \ {"cancelJob", "cancelTasks"} /\ at[p] \in WorkLabels
      BY <1>0, <1>00, <2>1, <2>3 DEF Handy, WorkLabels, Labels
    <3> QED BY <2>1, <2>3, <3>1, OnwardStep, WriteStep
  <2> QED BY <1>7, <2>2, <2>3 DEF Search
<1>8. CASE EnqueueUserGame(p)
  <2> DEFINE j == on[p].job
             g == on[p].game
  <2>1. PICK accepted \in BOOLEAN :
           EnqueueOrFail(Task("write", j, g), accepted) /\ GoTo(p, IF accepted THEN "ack" ELSE "count")
    BY <1>8 DEF EnqueueUserGame
  <2>2. /\ at[p] = "toWrite" /\ UNCHANGED <<status, gate, resolved, skipped, dispatch, tried, on, todo>>
        /\ todo[p] = {} /\ j \in Jobs /\ g \in Games
    BY <1>0, <1>8 DEF EnqueueUserGame, Handy, WorkLabels, Tasks
  <2>3. PICK l \in {"ack", "count"} : GoTo(p, l)
    BY <2>1
  <2>4. at'[p] = l /\ \A q \in Procs \ {p} : at'[q] = at[q]
    BY <1>00, <2>3
  <2>5. Handy(p)' /\ l \in Labels \ {"cancelJob", "cancelTasks"}
    BY <1>0, <2>2, <2>4 DEF Handy, WorkLabels, Labels
  <2>6. \A q \in Procs, i \in Jobs, h \in Games :
           /\ Serves(q, i, h)' => Serves(q, i, h) /\ q # p
           /\ i # j \/ h # g => (Serves(q, i, h) => Serves(q, i, h)')
    BY <2>2, <2>4 DEF Serves, WorkLabels
  <2>7. \A q \in Procs, i \in Jobs, h \in Games : Holds(q, i, h)' => Holds(q, i, h)
    BY <2>2, <2>6 DEF Holds, Serves
  <2>8. Serves(p, j, g) /\ item[j][g] # "absent"
    BY <2>2 DEF JInv, PInv, Streamed, Carried, Serves, WorkLabels
  <2>9. ASSUME Parent[g] = NoGame, Alive(j)
        PROVE  /\ queue[Task("match", j, g)] = 0 /\ queue[Task("write", j, g)] = 0
               /\ \A q \in Procs : ~Holds(q, on[p].job, on[p].game)'
               /\ item[j][g] = "pending"
    <3>1. OnePlace(j, g) /\ Holds(p, j, g)
      BY <2>2, <2>8, <2>9 DEF JInv, PInv, InStep, Holds, Serves
    <3>2. \A q \in Procs \ {p} : ~Holds(q, j, g)
      BY <3>1 DEF OnePlace
    <3>3. \A q \in Procs : ~Holds(q, on[p].job, on[p].game)'
      BY <2>2, <2>4, <3>2 DEF Holds, WorkLabels
    <3> QED BY <2>2, <2>9, <3>1, <3>3 DEF OnePlace, Alive
  <2>10. \A h \in Games : Waking(h) => Waking(h)'
    BY <2>2, <2>4 DEF Waking
  <2>11. PInv'
    <3>1. PICK i \in Jobs, h \in Games : i = j /\ h = g
      BY <2>2
    <3>2. Parent[h] = NoGame /\ Alive(i) =>
             /\ queue[Task("match", i, h)] = 0 /\ queue[Task("write", i, h)] = 0
             /\ \A q \in Procs : ~Holds(q, i, h)'
             /\ item[i][h] = "pending"
      <4>1. \A q \in Procs : Holds(q, i, h)' => Holds(q, on[p].job, on[p].game)'
        BY <2>2, <3>1 DEF Holds
      <4> QED BY <2>9, <3>1, <4>1
    <3> QED BY <2>1, <2>2, <2>6, <2>7, <2>8, <2>10, <3>1, <3>2, TaskStep
  <2> QED BY <2>2, <2>3, <2>5, <2>11, OnwardStep
<1>9. CASE Acquire(p)
  <2>1. at[p] = "acquire" /\ UNCHANGED <<status, gate, item, queue, resolved, skipped, dispatch, tried, on, todo>>
    BY <1>9 DEF Acquire
  <2>2. PICK l \in {"markCompleted", "markFailed"} : GoTo(p, l)
    BY <1>9 DEF Acquire
  <2>3. Handy(p)' /\ l \in Labels \ {"cancelJob", "cancelTasks"}
    BY <1>0, <1>00, <2>1, <2>2 DEF Handy, WorkLabels, Labels
  <2> QED BY <2>1, <2>2, <2>3, QuietMove DEF WorkLabels
<1>10. CASE Mark(p)
  <2>1. UNCHANGED <<status, gate, queue, resolved, skipped, dispatch, tried, on, todo>>
    BY <1>10 DEF Mark
  <2>2. PICK s \in {"failed", "completed"}, l \in {"count", "siblings"} :
           /\ SetItem(p, s) /\ GoTo(p, l) /\ at[p] \in {"markFailed", "markCompleted"}
           /\ s = "completed" \/ l = "siblings" => at[p] = "markCompleted" /\ l = "siblings"
    BY <1>0, <1>10 DEF Mark, Handy
  <2>3. Handy(p)' /\ l \in Labels \ {"cancelJob", "cancelTasks"} /\ at[p] \in WorkLabels
    BY <1>0, <1>00, <2>1, <2>2 DEF Handy, WorkLabels, Labels
  <2> QED BY <2>1, <2>2, <2>3, OnwardStep, WriteStep
<1>11. CASE Siblings(p)
  <2>1. /\ at[p] = "siblings" /\ GoTo(p, "trigger") /\ UNCHANGED <<status, gate, resolved, dispatch, tried, on>>
        /\ \A q \in Procs \ {p} : todo'[q] = todo[q]
    BY <1>0, <1>11 DEF Siblings
  <2>2. Handy(p)' /\ "trigger" \in Labels \ {"cancelJob", "cancelTasks"}
    BY <1>00, <2>1 DEF Handy, WorkLabels, Labels
  <2> QED BY <1>11, <2>1, <2>2, OnwardStep, WakeStep
<1>12. CASE Count(p) \/ Review(p) \/ Announce(p)
  <2>1. PICK l \in {"review", "ack", "finalize"} :
           /\ at[p] \in {"count", "review", "announce"} /\ GoTo(p, l)
           /\ UNCHANGED <<status, gate, item, queue, resolved, skipped, dispatch, tried, on, todo>>
    BY <1>12 DEF Count, Review, Announce
  <2>2. Handy(p)' /\ l \in Labels \ {"cancelJob", "cancelTasks"}
    BY <1>0, <1>00, <2>1 DEF Handy, WorkLabels, Labels
  <2> QED BY <2>1, <2>2, QuietMove DEF WorkLabels
<1>13. CASE Finalize(p)
  <2>1. PICK l \in {"announce", "ack"} :
           /\ at[p] = "finalize" /\ GoTo(p, l)
           /\ UNCHANGED <<gate, item, queue, resolved, skipped, dispatch, tried, on, todo>>
           /\ UNCHANGED status \/ status' = [status EXCEPT ![on[p].job] = "completed"]
    BY <1>13 DEF Finalize, FinalizeIf
  <2>2. Handy(p)' /\ l \in Labels \ {"cancelJob", "cancelTasks"}
    BY <1>0, <1>00, <2>1 DEF Handy, WorkLabels, Labels
  <2> QED BY <2>1, <2>2, QuietMove DEF WorkLabels
<1>14. CASE Ack(p)
  <2>1. /\ at[p] = "ack" /\ UNCHANGED <<status, gate, item, queue, resolved, skipped, tried>>
        /\ at'[p] = "idle" /\ todo'[p] = {} /\ todo[p] = {}
        /\ \A q \in Procs \ {p} : at'[q] = at[q] /\ on'[q] = on[q] /\ todo'[q] = todo[q]
    BY <1>0, <1>14 DEF JInv, IInv, TypeOK, Ack, GoTo, Handy
  <2>2. todo' = todo
    BY <1>0, <1>14, <2>1 DEF JInv, IInv, TypeOK, Ack
  <2>3. \A j \in Jobs : dispatch'[j] = "queued" <=> dispatch[j] = "queued"
    <3>1. CASE on[p].kind = "dispatch"
      <4>1. dispatch[on[p].job] = "running"
        BY <1>0, <2>1, <3>1 DEF JInv, IInv, GInv, Held, Dispatching
      <4> QED BY <1>0, <1>14, <3>1, <4>1 DEF Ack, JInv, IInv, TypeOK
    <3>2. CASE on[p].kind # "dispatch"
      BY <1>14, <3>2 DEF Ack
    <3> QED BY <3>1, <3>2
  <2>4. Quiet'
    BY <2>1 DEF JInv, Quiet
  <2>5. Statuses'
    BY <2>1, <2>3 DEF JInv, Statuses
  <2>6. Hands'
    <3>1. Handy(p)'
      BY <2>1 DEF Handy, WorkLabels
    <3>2. ASSUME NEW q \in Procs \ {p} PROVE Handy(q)'
      BY <2>1 DEF JInv, Hands, Handy, Alive
    <3> QED BY <3>1, <3>2 DEF Hands
  <2>7. \A q \in Procs, i \in Jobs, h \in Games : Serves(q, i, h)' <=> Serves(q, i, h)
    BY <2>1 DEF Serves, WorkLabels
  <2>8. (\A j \in Jobs : Alive(j)' => Alive(j)) /\ \A h \in Games : Waking(h) => Waking(h)'
    BY <2>1 DEF Alive, Waking
  <2>9. PInv'
    BY <2>1, <2>2, <2>7, <2>8, SteadyStep
  <2> QED BY <2>4, <2>5, <2>6, <2>9
<1>15. CASE CancelJob(p) \/ CancelTasks(p)
  BY <1>15 DEF CancelJob, CancelTasks, JInv, Quiet
<1> QED BY <1>1, <1>2, <1>3, <1>4, <1>5, <1>6, <1>7, <1>8, <1>9, <1>10, <1>11, <1>12,
           <1>13, <1>14, <1>15 DEF Continue

\* What a goroutine that others leave alone knows stays so.
LEMMA HandyElsewhere ==
  ASSUME JInv, NEW q \in Procs, UNCHANGED <<resolved, at[q], on[q], todo[q]>>,
         \A j \in Jobs : Alive(j)' => Alive(j)
  PROVE  Handy(q)'
<1>1. Handy(q) /\ on[q].job \in Jobs
  BY DEF JInv, IInv, TypeOK, Hands
<1>2. Alive(on[q].job)' => Alive(on[q].job)
  BY <1>1
<1> QED BY <1>1, <1>2 DEF Handy, Alive

\* A task is in hand only if the item was streamed, so the user did not skip it.
LEMMA QueuedKept ==
  ASSUME JInv, NEW j \in Jobs, NEW g \in Games, NEW k \in {"match", "write"},
         Dequeue(Task(k, j, g))
  PROVE  g \notin skipped
BY DEF JInv, PInv, Streamed, Carried, Dequeue

\* A worker takes up an item.
LEMMA TInvTake ==
  ASSUME JInv, NEW p \in Procs, NEW j \in Jobs, NEW g \in Games, NEW k \in {"match", "write"},
         Dequeue(Task(k, j, g)), NEW l \in WorkLabels, Take(p, l, Task(k, j, g)),
         l = "search" => Parent[g] = NoGame /\ g \notin resolved,
         l = "parent" => Parent[g] # NoGame,
         l \in {"toWrite", "acquire", "markCompleted"} => g \in resolved,
         l # "markSkipped",
         UNCHANGED <<status, gate, item, dispatch, tried, resolved, skipped, todo>>
  PROVE  TInv'
<1>0. /\ Task(k, j, g) \in Tasks /\ Task(k, j, g).kind = k
      /\ Task(k, j, g).job = j /\ Task(k, j, g).game = g
  BY TaskTyping DEF Task
<1>1. /\ at[p] = "idle" /\ at'[p] = l /\ on'[p] = Task(k, j, g)
      /\ \A q \in Procs \ {p} : at'[q] = at[q] /\ on'[q] = on[q]
  BY TakeShape DEF JInv, IInv
<1>2. todo[p] = {}
  BY <1>1 DEF JInv, Hands, Handy
<1>3. Quiet'
  BY <1>0, <1>1 DEF JInv, Quiet, WorkLabels
<1>4. Statuses'
  BY DEF JInv, Statuses
<1>5. Handy(p)'
  BY <1>0, <1>1, <1>2 DEF Handy, WorkLabels
<1>6. \A q \in Procs \ {p} : Handy(q)'
  BY <1>1, HandyElsewhere DEF Alive
<1>7. Hands'
  BY <1>5, <1>6 DEF Hands
<1>8. PInv'
  BY TakeStep
<1> QED BY <1>3, <1>4, <1>7, <1>8 DEF TInv

\* A job's row is written, and no item moves.
LEMMA TInvRow ==
  ASSUME JInv, NEW j \in Jobs,
         \A i \in Jobs \ {j} : status'[i] = status[i] /\ dispatch'[i] = dispatch[i],
         Alive(j)' => Alive(j),
         dispatch'[j] = "queued" <=> status'[j] = "pending",
         status'[j] \notin {"absent", "cancelled"},
         status'[j] = "pending" => tried[j] = 0 /\ gate[j],
         UNCHANGED <<gate, tried, item, queue, resolved, skipped, at, on, todo>>
  PROVE  TInv'
<1>1. \A i \in Jobs : Alive(i)' => Alive(i)
  BY DEF Alive
<1>2. Quiet' /\ Statuses'
  BY DEF JInv, Quiet, Statuses
<1>3. Hands'
  BY <1>1, HandyElsewhere DEF Hands
<1>4. PInv'
  <2>1. \A q \in Procs, i \in Jobs, h \in Games : Serves(q, i, h)' <=> Serves(q, i, h)
    BY DEF Serves
  <2>2. \A h \in Games : Waking(h) => Waking(h)'
    BY DEF Waking
  <2> QED BY <1>1, <2>1, <2>2, SteadyStep
<1> QED BY <1>2, <1>3, <1>4 DEF TInv

\* The dispatch of a pending job is taken up.
LEMMA TInvDispatch ==
  ASSUME JInv, NEW p \in Procs, NEW j \in Jobs, StartDispatch(p, j)
  PROVE  TInv'
<1>0. /\ UNCHANGED <<item, queue, resolved, skipped, todo>> /\ dispatch[j] = "queued"
      /\ dispatch'[j] = "running" /\ status'[j] = "processing"
      /\ \A i \in Jobs \ {j} : /\ status'[i] = status[i] /\ dispatch'[i] = dispatch[i]
                             /\ gate'[i] = gate[i] /\ tried'[i] = tried[i]
  BY DEF JInv, IInv, TypeOK, StartDispatch, games
<1>1. /\ at[p] = "idle" /\ at'[p] = "stream" /\ on'[p].job = j /\ on'[p].kind = "dispatch"
      /\ \A q \in Procs \ {p} : at'[q] = at[q] /\ on'[q] = on[q]
  BY TakeShape DEF JInv, IInv, StartDispatch
<1>2. status[j] = "pending" /\ todo[p] = {}
  BY <1>0, <1>1 DEF JInv, Statuses, Hands, Handy
<1>3. \A i \in Jobs : Alive(i)' => Alive(i)
  BY <1>0, <1>2 DEF Alive
<1>4. Quiet' /\ Statuses'
  BY <1>0, <1>1 DEF JInv, Quiet, Statuses
<1>5. Handy(p)'
  BY <1>0, <1>1, <1>2 DEF Handy, WorkLabels
<1>6. \A q \in Procs \ {p} : Handy(q)'
  BY <1>0, <1>1, <1>3, HandyElsewhere
<1>7. Hands'
  BY <1>5, <1>6 DEF Hands
<1>8. \A q \in Procs, i \in Jobs, h \in Games : Serves(q, i, h)' <=> Serves(q, i, h)
  BY <1>1 DEF Serves, WorkLabels
<1>9. \A h \in Games : Waking(h) => Waking(h)'
  BY <1>1 DEF Waking
<1>10. PInv'
  BY <1>0, <1>3, <1>8, <1>9, SteadyStep
<1> QED BY <1>4, <1>7, <1>10 DEF TInv

\* The rescue finds no task of the item, and gives it one.
LEMMA TInvRescue ==
  ASSUME JInv, NEW j \in Jobs, NEW g \in Games, Rescue(j, g)
  PROVE  TInv'
<1>1. PICK accepted \in BOOLEAN : EnqueueOrFail(Task("match", j, g), accepted)
  BY DEF Rescue
<1>2. /\ item[j][g] = "pending" /\ ~Backed(j, g)
      /\ UNCHANGED <<status, gate, resolved, skipped, dispatch, tried, at, on, todo>>
  BY DEF Rescue, games, notes, local
<1>3. \A q \in Procs : ~Holds(q, j, g)
  <2> SUFFICES ASSUME NEW q \in Procs, Holds(q, j, g) PROVE FALSE
    OBVIOUS
  <2>1. at[q] \in WorkLabels /\ on[q].job = j /\ on[q].game = g
    BY <1>2 DEF Holds, Backed
  <2>2. on[q] \in Tasks /\ at[q] # "idle"
    BY <2>1 DEF JInv, Hands, Handy, WorkLabels
  <2>3. on[q].kind \in {"match", "write"} /\ on[q] = Task(on[q].kind, j, g)
    BY <2>1, <2>2 DEF Tasks, Task
  <2> QED BY <1>2, <2>2, <2>3 DEF Backed, WorksOn
<1>4. queue[Task("match", j, g)] = 0 /\ queue[Task("write", j, g)] = 0
  BY <1>2, TaskTyping DEF Backed, JInv, IInv, TypeOK
<1>5. \A q \in Procs, i \in Jobs, h \in Games :
         (Serves(q, i, h)' <=> Serves(q, i, h)) /\ (Holds(q, i, h)' <=> Holds(q, i, h))
  BY <1>2 DEF Serves, Holds
<1>6. \A h \in Games : Waking(h) => Waking(h)'
  BY <1>2 DEF Waking
<1>7. PInv'
  BY <1>1, <1>2, <1>3, <1>4, <1>5, <1>6, TaskStep
<1>8. Quiet' /\ Statuses'
  BY <1>2 DEF JInv, Quiet, Statuses
<1>9. Hands'
  BY <1>2, HandyElsewhere DEF Hands, Alive
<1> QED BY <1>7, <1>8, <1>9 DEF TInv

LEMMA TInvStep == JInv /\ OneJob /\ [Next]_vars => TInv'
<1> SUFFICES ASSUME JInv, OneJob, [Next]_vars PROVE TInv'
  OBVIOUS
<1>0. /\ spent["crashes"] \in Nat /\ spent["cancels"] \in Nat /\ spent["lost"] \in Nat
      /\ DOMAIN status = Jobs /\ DOMAIN dispatch = Jobs
  BY DEF JInv, IInv, TypeOK
<1>1. ASSUME NEW p \in Procs, LoseWorker(p) PROVE FALSE
  BY <1>0, <1>1 DEF LoseWorker, Spend, OneJob
<1>2. ASSUME NEW p \in Procs, Begin(p) PROVE TInv'
  <2>1. PICK j \in Jobs : \/ StartDispatch(p, j) \/ StartCancel(p, j)
                          \/ \E g \in Games : StartMatch(p, j, g) \/ StartWrite(p, j, g)
    BY <1>2 DEF Begin
  <2>2. CASE StartDispatch(p, j)
    BY <2>2, TInvDispatch
  <2>3. CASE StartCancel(p, j)
    BY <1>0, <2>3 DEF StartCancel, Spend, OneJob
  <2>4. ASSUME NEW g \in Games, StartMatch(p, j, g) PROVE TInv'
    <3> DEFINE l == IF g \in skipped \cup resolved THEN "toWrite"
                    ELSE IF Parent[g] # NoGame THEN "parent" ELSE "search"
    <3>1. /\ Dequeue(Task("match", j, g)) /\ Take(p, l, Task("match", j, g))
          /\ UNCHANGED <<status, gate, item, dispatch, tried, resolved, skipped, todo>>
      BY <2>4 DEF StartMatch, rows, games, notes
    <3>2. g \notin skipped
      BY <3>1, QueuedKept
    <3>3. /\ l \in WorkLabels /\ (l = "search" => Parent[g] = NoGame /\ g \notin resolved)
          /\ (l = "parent" => Parent[g] # NoGame)
          /\ (l \in {"toWrite", "acquire", "markCompleted"} => g \in resolved)
          /\ l # "markSkipped"
      BY <3>2 DEF WorkLabels
    <3> HIDE DEF l
    <3> QED BY <3>1, <3>3, TInvTake
  <2>5. ASSUME NEW g \in Games, StartWrite(p, j, g) PROVE TInv'
    <3> DEFINE l == IF g \in skipped THEN "markSkipped"
                    ELSE IF g \in resolved THEN "acquire" ELSE "markFailed"
    <3>1. /\ Dequeue(Task("write", j, g)) /\ Take(p, l, Task("write", j, g))
          /\ UNCHANGED <<status, gate, item, dispatch, tried, resolved, skipped, todo>>
      BY <2>5 DEF StartWrite, rows, games, notes
    <3>2. g \notin skipped
      BY <3>1, QueuedKept
    <3>3. /\ l \in WorkLabels /\ l \notin {"search", "parent", "markSkipped"}
          /\ (l \in {"toWrite", "acquire", "markCompleted"} => g \in resolved)
      BY <3>2 DEF WorkLabels
    <3> HIDE DEF l
    <3> QED BY <3>1, <3>3, TInvTake
  <2> QED BY <2>1, <2>2, <2>3, <2>4, <2>5
<1>3. ASSUME NEW j \in Jobs, Trigger(j) PROVE TInv'
  <2>1. /\ status[j] = "absent" /\ status'[j] = "pending" /\ dispatch'[j] = "queued"
        /\ \A i \in Jobs \ {j} : status'[i] = status[i] /\ dispatch'[i] = dispatch[i]
        /\ UNCHANGED <<gate, tried, item, queue, resolved, skipped, at, on, todo>>
    BY <1>0, <1>3 DEF Trigger, games, notes, local
  <2>2. tried[j] = 0 /\ gate[j]
    BY <2>1 DEF JInv, Statuses
  <2>3. Alive(j)
    BY <2>1 DEF Alive
  <2> QED BY <2>1, <2>2, <2>3, TInvRow
<1>4. ASSUME NEW j \in Jobs, CleanupStaleJobs(j) PROVE TInv'
  <2>1. /\ Active(j) /\ ~gate[j] /\ status'[j] = "failed" /\ dispatch' = dispatch
        /\ \A i \in Jobs \ {j} : status'[i] = status[i]
        /\ UNCHANGED <<gate, tried, item, queue, resolved, skipped, at, on, todo>>
    BY <1>0, <1>4 DEF CleanupStaleJobs, games, notes, local, river
  <2>2. dispatch'[j] # "queued"
    BY <2>1 DEF JInv, Statuses
  <2>3. ~Alive(j)'
    BY <2>1 DEF Alive
  <2> QED BY <2>1, <2>2, <2>3, TInvRow
<1>5. ASSUME NEW j \in Jobs, NEW g \in Games, Rescue(j, g) PROVE TInv'
  BY <1>5, TInvRescue
<1>6. CASE Crash
  BY <1>0, <1>6 DEF Crash, Spend, OneJob
<1>7. CASE UNCHANGED vars
  <2>1. UNCHANGED <<status, gate, item, queue, dispatch, tried, resolved, skipped, at, on, todo>>
    BY <1>7 DEF vars, rows, games, river, notes, local
  <2>2. Quiet' /\ Statuses'
    BY <2>1 DEF JInv, Quiet, Statuses
  <2>3. \A i \in Jobs : Alive(i)' => Alive(i)
    BY <2>1 DEF Alive
  <2>4. Hands'
    BY <2>1, <2>3, HandyElsewhere DEF Hands
  <2>5. \A q \in Procs, i \in Jobs, h \in Games : Serves(q, i, h)' <=> Serves(q, i, h)
    BY <2>1 DEF Serves
  <2>6. \A h \in Games : Waking(h) => Waking(h)'
    BY <2>1 DEF Waking
  <2>7. PInv'
    BY <2>1, <2>3, <2>5, <2>6, SteadyStep
  <2> QED BY <2>2, <2>4, <2>7 DEF TInv
<1> QED BY <1>1, <1>2, <1>3, <1>4, <1>5, <1>6, <1>7, TInvContinue DEF Next

\* JInv is inductive.
LEMMA JInvStep == JInv /\ OneJob /\ [Next]_vars => JInv'
<1> SUFFICES ASSUME JInv, OneJob, [Next]_vars PROVE JInv'
  OBVIOUS
<1>1. IInv'
  BY TypingStep, GInvStep DEF JInv, IInv
<1>2. CancelsApart' /\ AllFresh'
  BY CancelsApartStep, AllFreshStep DEF JInv, IInv
<1> QED BY <1>1, <1>2, TInvStep DEF JInv, TInv

LEMMA JInvInit == Init => JInv
<1> SUFFICES ASSUME Init PROVE JInv
  OBVIOUS
<1>1. IInv /\ CancelsApart /\ AllFresh /\ Quiet /\ Statuses
  BY LifecycleInit DEF RInv, LInv
<1>2. Hands
  BY DEF Init, Hands, Handy, WorkLabels
<1>3. ASSUME NEW j \in Jobs, NEW g \in Games PROVE ~Carried(j, g) /\ ~Listed(j, g) /\ item[j][g] = "absent"
  BY TaskTyping DEF Init, Carried, Listed, Serves, WorkLabels
<1>4. Streamed /\ Tracked
  BY <1>3 DEF Streamed, Tracked
<1>5. ASSUME NEW j \in Jobs, NEW g \in Games PROVE OnePlace(j, g)
  BY TaskTyping DEF Init, OnePlace, Holds, WorkLabels
<1>6. resolved = {}
  BY DEF Init
<1>7. InStep
  BY <1>3, <1>5, <1>6 DEF InStep, Init
<1> QED BY <1>1, <1>2, <1>4, <1>7 DEF JInv, PInv

\* EnqueueOrFail: "job_items.status='pending' and the existence of a non-terminal
\* river_job row must stay in lockstep": as long as one job syncs the storefront
\* and no worker is stopped from outside, a pending item has a task, will get one
\* or is a child whose parent wakes it, for any library, any batches and parents,
\* and whatever inserts are refused and writes fail.
THEOREM LockstepKept ==
  ASSUME OneJob
  PROVE  Spec => []Lockstep
<1>1. Init => JInv
  BY JInvInit
<1>2. JInv /\ [Next]_vars => JInv'
  BY JInvStep
<1>3. JInv => Lockstep
  BY TrackedLockstep
<1> QED BY <1>1, <1>2, <1>3, PTL DEF Spec
==============================================================================
