------------------------- MODULE SyncPipeline_proofs -------------------------
(***************************************************************************)
(* The dispatch gate holds for any library, any number of jobs, goroutines *)
(* and crashes, and any batch size: Spec => []GateHolds.                   *)
(*                                                                         *)
(* GateHolds is not inductive: another dispatch of the same job could open *)
(* the gate.  IInv adds that a job has at most one dispatch worker, which  *)
(* rests on River's single dispatch_sync task and on the trigger asking    *)
(* only for a row that is not there yet.                                   *)
(*                                                                         *)
(* From the same invariant, Spec => []AnnouncedOnce: a dispatch that runs  *)
(* once announces its completion at most once.                             *)
(***************************************************************************)
EXTENDS SyncPipeline, FiniteSetTheorems, TLAPS

\* p runs DispatchSyncWorker.Work, from the first statement to the ack.
Dispatching(p) == at[p] # "idle" /\ on[p].kind = "dispatch"

\* A goroutine at an item's label has an item.
OnItem == \A p \in Procs :
    at[p] \in {"parent", "search", "toWrite", "acquire"} => on[p].game \in Games

\* Only a dispatch is at the labels of stage 1.
Labelled == \A p \in Procs : at[p] \in {"stream", "enqueue"} => on[p].kind = "dispatch"

\* A job has one dispatch worker at a time ...
Sole ==
    \A p, q \in Procs :
        Dispatching(p) /\ Dispatching(q) /\ on[p].job = on[q].job => p = q

\* ... and while it has one, its task is running and its row exists.
Held ==
    \A p \in Procs : Dispatching(p) =>
        dispatch[on[p].job] = "running" /\ status[on[p].job] # "absent"

\* What the gate rests on, without and with the types.
GInv == Labelled /\ Sole /\ Held /\ GateHolds
IInv == TypeOK /\ OnItem /\ GInv

---------------------------------------------------------------------------
(* Typing. *)

LEMMA TaskTyping == \A k \in {"match", "write"}, j \in Jobs, g \in Games : Task(k, j, g) \in Tasks
  BY DEF Task, Tasks

LEMMA NothingTyping == Nothing \in [kind : Kinds, job : Jobs, game : Games \cup {NoGame}]
  BY BoundsAssumption DEF Nothing, Kinds, Jobs

\* EnqueueOrFail keeps the types of what it writes.
LEMMA EnqueueTyping ==
  ASSUME TypeOK, NEW t \in Tasks, NEW accepted \in BOOLEAN, EnqueueOrFail(t, accepted)
  PROVE  /\ item' \in [Jobs -> [Games -> ItemStatus]]
         /\ queue' \in [Tasks -> Nat]
         /\ spent' \in [{"crashes", "faults", "lost", "cancels"} -> Nat]
<1>0. t.job \in Jobs /\ t.game \in Games
  BY DEF Tasks
<1>1. CASE accepted
  BY <1>1 DEF EnqueueOrFail, TypeOK
<1>2. CASE ~accepted
  <2>1. item' \in [Jobs -> [Games -> ItemStatus]]
    <3>1. CASE item[t.job][t.game] = "pending"
      <4>1. item' = [item EXCEPT ![t.job][t.game] = "failed"]
        BY <1>2, <3>1 DEF EnqueueOrFail
      <4> QED BY <4>1, <1>0 DEF TypeOK, ItemStatus
    <3>2. CASE item[t.job][t.game] # "pending"
      BY <1>2, <3>2 DEF EnqueueOrFail, TypeOK
    <3> QED BY <3>1, <3>2
  <2>2. spent' \in [{"crashes", "faults", "lost", "cancels"} -> Nat] /\ queue' = queue
    BY <1>2 DEF EnqueueOrFail, TypeOK, Spend
  <2> QED BY <2>1, <2>2 DEF TypeOK
<1> QED BY <1>1, <1>2

\* The types of a goroutine's own state survive a move to another label.
LEMMA MoveTyping ==
  ASSUME TypeOK, NEW p \in Procs, NEW l \in Labels, GoTo(p, l)
  PROVE  at' \in [Procs -> Labels]
  BY DEF TypeOK, GoTo

\* Every step of a goroutine that is at work keeps the types.
LEMMA ContinueTyping ==
  ASSUME TypeOK, OnItem, NEW p \in Procs, Continue(p)
  PROVE  TypeOK'
<1> USE DEF TypeOK, rows, games, river, notes
<1>0. /\ on[p] \in [kind : Kinds, job : Jobs, game : Games \cup {NoGame}]
      /\ on[p].job \in Jobs /\ on[p].game \in Games \cup {NoGame}
  OBVIOUS
<1>1. ASSUME NEW B \in SUBSET Games, StreamBatch(p, B) PROVE TypeOK'
  <2>1. item' \in [Jobs -> [Games -> ItemStatus]]
    BY <1>0, <1>1 DEF StreamBatch, ItemStatus
  <2>2. known' \in SUBSET Games /\ todo' \in [Procs -> SUBSET (Jobs \X Games)]
        /\ seen' \in [Procs -> SUBSET Games]
    BY <1>0, <1>1 DEF StreamBatch
  <2>3. at' \in [Procs -> Labels]
    BY <1>1, MoveTyping DEF StreamBatch, Labels
  <2> QED BY <1>1, <2>1, <2>2, <2>3 DEF StreamBatch
<1>2. CASE EnqueueNext(p)
  <2>1. at' \in [Procs -> Labels]
    BY <1>2 DEF EnqueueNext, GoTo, Labels
  <2>2. /\ item' \in [Jobs -> [Games -> ItemStatus]]
        /\ queue' \in [Tasks -> Nat]
        /\ spent' \in [{"crashes", "faults", "lost", "cancels"} -> Nat]
        /\ todo' \in [Procs -> SUBSET (Jobs \X Games)]
    <3>1. ASSUME NEW accepted \in BOOLEAN, NEW w \in todo[p],
                 EnqueueOrFail(Task("match", w[1], w[2]), accepted),
                 todo' = [todo EXCEPT ![p] = @ \ {w}]
          PROVE  <2>2
      <4>1. Task("match", w[1], w[2]) \in Tasks
        BY TaskTyping
      <4> QED BY <4>1, <3>1, EnqueueTyping
    <3>2. CASE UNCHANGED <<item, queue, todo, spent>>
      BY <3>2
    <3> QED BY <1>2, <3>1, <3>2 DEF EnqueueNext
  <2> QED BY <1>2, <2>1, <2>2 DEF EnqueueNext
<1>3. CASE OpenGate(p)
  <2>1. at' \in [Procs -> Labels]
    BY <1>3, MoveTyping DEF OpenGate, Labels
  <2>2. /\ gate' \in [Jobs -> BOOLEAN]
        /\ spent' \in [{"crashes", "faults", "lost", "cancels"} -> Nat]
    <3>1. ASSUME gate' = [gate EXCEPT ![on[p].job] = TRUE], UNCHANGED spent PROVE <2>2
      BY <1>0, <3>1
    <3>2. ASSUME Spend("faults", MaxFaults), UNCHANGED gate PROVE <2>2
      BY <3>2 DEF Spend
    <3> QED BY <1>3, <3>1, <3>2 DEF OpenGate
  <2> QED BY <1>3, <2>1, <2>2 DEF OpenGate
<1>4. CASE FailJob(p)
  BY <1>0, <1>4 DEF FailJob, GoTo, Labels, TerminalStatus
<1>5. CASE CancelItems(p)
  <2>1. item' \in [Jobs -> [Games -> ItemStatus]]
    BY <1>0, <1>5 DEF CancelItems, ItemStatus
  <2> QED BY <1>5, <2>1 DEF CancelItems, GoTo, Labels
<1>6. CASE AskParent(p)
  <2>1. resolved' \in SUBSET Games
    BY <1>6 DEF AskParent, OnItem
  <2> QED BY <1>6, <2>1 DEF AskParent, GoTo, Labels
<1>7. CASE Search(p)
  <2>1. resolved' \in SUBSET Games
    BY <1>7 DEF Search, OnItem
  <2>2. item' \in [Jobs -> [Games -> ItemStatus]]
    <3>1. ASSUME SetItem(p, "pending_review") PROVE <2>2
      BY <1>0, <3>1 DEF SetItem, ItemStatus
    <3> QED BY <1>7, <3>1 DEF Search
  <2>3. at' \in [Procs -> Labels]
    BY <1>7, MoveTyping DEF Search, Labels
  <2> QED BY <1>7, <2>1, <2>2, <2>3 DEF Search
<1>8. CASE EnqueueUserGame(p)
  <2>1. PICK accepted \in BOOLEAN :
           /\ EnqueueOrFail(Task("write", on[p].job, on[p].game), accepted)
           /\ GoTo(p, IF accepted THEN "ack" ELSE "count")
    BY <1>8 DEF EnqueueUserGame
  <2>2. Task("write", on[p].job, on[p].game) \in Tasks
    BY <1>0, <1>8, TaskTyping DEF EnqueueUserGame, OnItem
  <2>3. at' \in [Procs -> Labels]
    BY <2>1 DEF GoTo, Labels
  <2> QED BY <1>8, <2>1, <2>2, <2>3, EnqueueTyping DEF EnqueueUserGame
<1>9. CASE Acquire(p)
  <2>1. library' \in SUBSET Games
    BY <1>9 DEF Acquire, OnItem
  <2>2. spent' \in [{"crashes", "faults", "lost", "cancels"} -> Nat]
    BY <1>9 DEF Acquire, Spend
  <2> QED BY <1>9, <2>1, <2>2 DEF Acquire, GoTo, Labels
<1>10. CASE Mark(p)
  <2>1. ASSUME NEW s \in ItemStatus, SetItem(p, s)
        PROVE  item' \in [Jobs -> [Games -> ItemStatus]]
    BY <1>0, <2>1 DEF SetItem
  <2>2. item' \in [Jobs -> [Games -> ItemStatus]]
    BY <1>10, <2>1 DEF Mark, ItemStatus
  <2>3. at' \in [Procs -> Labels]
    BY <1>10 DEF Mark, GoTo, Labels
  <2> QED BY <1>10, <2>2, <2>3 DEF Mark
<1>11. CASE Siblings(p)
  <2>1. todo' \in [Procs -> SUBSET (Jobs \X Games)]
    BY <1>11 DEF Siblings
  <2> QED BY <1>11, <2>1 DEF Siblings, GoTo, Labels
<1>12. CASE Count(p)
  BY <1>12 DEF Count, GoTo, Labels
<1>13. CASE Review(p)
  BY <1>0, <1>13 DEF Review, GoTo, Labels
<1>14. CASE Finalize(p)
  BY <1>0, <1>14 DEF Finalize, FinalizeIf, GoTo, Labels, TerminalStatus
<1>15. CASE Announce(p)
  <2>1. announced' \in [Jobs -> Nat]
    BY <1>0, <1>15 DEF Announce
  <2> QED BY <1>15, <2>1 DEF Announce, GoTo, Labels
<1>16. CASE Ack(p)
  <2>1. dispatch' \in [Jobs -> {"none", "queued", "running"}]
    BY <1>0, <1>16 DEF Ack
  <2>2. on' \in [Procs -> [kind : Kinds, job : Jobs, game : Games \cup {NoGame}]]
    BY <1>16, NothingTyping DEF Ack
  <2>3. todo' \in [Procs -> SUBSET (Jobs \X Games)] /\ seen' \in [Procs -> SUBSET Games]
    BY <1>16 DEF Ack
  <2> QED BY <1>16, <2>1, <2>2, <2>3 DEF Ack, GoTo, Labels
<1>17. CASE CancelJob(p)
  BY <1>0, <1>17 DEF CancelJob, GoTo, Labels, TerminalStatus
<1>18. CASE CancelTasks(p)
  <2>1. queue' \in [Tasks -> Nat]
    BY <1>18 DEF CancelTasks
  <2> QED BY <1>18, <2>1 DEF CancelTasks, GoTo, Labels
<1> QED BY <1>1, <1>2, <1>3, <1>4, <1>5, <1>6, <1>7, <1>8, <1>9, <1>10, <1>11, <1>12,
           <1>13, <1>14, <1>15, <1>16, <1>17, <1>18 DEF Continue

\* Taking up a task keeps the types of the goroutine's own state.
LEMMA TakeTyping ==
  ASSUME TypeOK, NEW p \in Procs, NEW l \in Labels,
         NEW t \in [kind : Kinds, job : Jobs, game : Games \cup {NoGame}], Take(p, l, t)
  PROVE  /\ at' \in [Procs -> Labels]
         /\ on' \in [Procs -> [kind : Kinds, job : Jobs, game : Games \cup {NoGame}]]
  BY DEF TypeOK, Take, GoTo

\* Every other step keeps the types too.
LEMMA OtherTyping ==
  ASSUME TypeOK,
         \/ \E p \in Procs : Begin(p) \/ LoseWorker(p)
         \/ \E j \in Jobs : Trigger(j) \/ CleanupStaleJobs(j) \/ \E g \in Games : Rescue(j, g)
         \/ Crash
         \/ UNCHANGED vars
  PROVE  TypeOK'
<1> USE DEF TypeOK, rows, games, river, notes, local
<1>1. ASSUME NEW p \in Procs, NEW j \in Jobs, StartDispatch(p, j) PROVE TypeOK'
  <2>1. [kind |-> "dispatch", job |-> j, game |-> NoGame]
           \in [kind : Kinds, job : Jobs, game : Games \cup {NoGame}]
    BY DEF Kinds
  <2>2. /\ at' \in [Procs -> Labels]
        /\ on' \in [Procs -> [kind : Kinds, job : Jobs, game : Games \cup {NoGame}]]
    BY <1>1, <2>1, TakeTyping DEF StartDispatch, Labels
  <2>3. /\ status' \in [Jobs -> {"absent"} \cup ActiveStatus \cup TerminalStatus]
        /\ tried' \in [Jobs -> Nat] /\ seen' \in [Procs -> SUBSET Games]
    BY <1>1 DEF StartDispatch, ActiveStatus
  <2> QED BY <1>1, <2>2, <2>3 DEF StartDispatch
<1>2. ASSUME NEW p \in Procs, NEW j \in Jobs, StartCancel(p, j) PROVE TypeOK'
  <2>1. [kind |-> "cancel", job |-> j, game |-> NoGame]
           \in [kind : Kinds, job : Jobs, game : Games \cup {NoGame}]
    BY DEF Kinds
  <2>2. /\ at' \in [Procs -> Labels]
        /\ on' \in [Procs -> [kind : Kinds, job : Jobs, game : Games \cup {NoGame}]]
    BY <1>2, <2>1, TakeTyping DEF StartCancel, Labels
  <2>3. spent' \in [{"crashes", "faults", "lost", "cancels"} -> Nat]
    BY <1>2 DEF StartCancel, Spend
  <2> QED BY <1>2, <2>2, <2>3 DEF StartCancel
<1>3. ASSUME NEW p \in Procs, NEW j \in Jobs, NEW g \in Games,
             NEW k \in {"match", "write"}, NEW l \in Labels,
             Dequeue(Task(k, j, g)), Take(p, l, Task(k, j, g)),
             UNCHANGED <<rows, games, dispatch, notes, todo, seen, spent>>
      PROVE  TypeOK'
  <2>1. Task(k, j, g) \in [kind : Kinds, job : Jobs, game : Games \cup {NoGame}]
    BY DEF Kinds, Task
  <2>2. /\ at' \in [Procs -> Labels]
        /\ on' \in [Procs -> [kind : Kinds, job : Jobs, game : Games \cup {NoGame}]]
    BY <1>3, <2>1, TakeTyping
  <2>3. queue' \in [Tasks -> Nat]
    <3>1. Task(k, j, g) \in Tasks
      BY TaskTyping
    <3> QED BY <1>3, <3>1 DEF Dequeue
  <2> QED BY <1>3, <2>2, <2>3
<1>4. ASSUME NEW p \in Procs, NEW j \in Jobs, NEW g \in Games,
             StartMatch(p, j, g) \/ StartWrite(p, j, g)
      PROVE  TypeOK'
  BY <1>3, <1>4 DEF StartMatch, StartWrite, Labels
<1>5. ASSUME NEW p \in Procs, LoseWorker(p) PROVE TypeOK'
  <2>1. spent' \in [{"crashes", "faults", "lost", "cancels"} -> Nat]
    BY <1>5 DEF LoseWorker, Spend
  <2> QED BY <1>5, <2>1 DEF LoseWorker, GoTo, Labels
<1>6. ASSUME NEW j \in Jobs, Trigger(j) PROVE TypeOK'
  BY <1>6 DEF Trigger, ActiveStatus
<1>7. ASSUME NEW j \in Jobs, CleanupStaleJobs(j) PROVE TypeOK'
  BY <1>7 DEF CleanupStaleJobs, TerminalStatus
<1>8. ASSUME NEW j \in Jobs, NEW g \in Games, Rescue(j, g) PROVE TypeOK'
  <2>1. PICK accepted \in BOOLEAN : EnqueueOrFail(Task("match", j, g), accepted)
    BY <1>8 DEF Rescue
  <2>2. Task("match", j, g) \in Tasks
    BY TaskTyping
  <2> QED BY <1>8, <2>1, <2>2, EnqueueTyping DEF Rescue
<1>9. CASE Crash
  <2>1. queue' \in [Tasks -> Nat]
    <3>1. ASSUME NEW t \in Tasks
          PROVE  Cardinality({p \in Procs : at[p] # "idle" /\ on[p] = t}) \in Nat
      <4>1. IsFiniteSet({p \in Procs : at[p] # "idle" /\ on[p] = t})
        BY ProcsAssumption, FS_Subset
      <4> QED BY <4>1, FS_CardinalityType
    <3> QED BY <1>9, <3>1 DEF Crash
  <2>2. dispatch' \in [Jobs -> {"none", "queued", "running"}]
    BY <1>9 DEF Crash
  <2>3. /\ at' \in [Procs -> Labels]
        /\ on' \in [Procs -> [kind : Kinds, job : Jobs, game : Games \cup {NoGame}]]
        /\ todo' \in [Procs -> SUBSET (Jobs \X Games)]
        /\ seen' \in [Procs -> SUBSET Games]
    BY <1>9, NothingTyping DEF Crash, Labels
  <2>4. spent' \in [{"crashes", "faults", "lost", "cancels"} -> Nat]
    BY <1>9 DEF Crash, Spend
  <2> QED BY <1>9, <2>1, <2>2, <2>3, <2>4 DEF Crash
<1>10. CASE UNCHANGED vars
  BY <1>10 DEF vars
<1> QED BY <1>1, <1>2, <1>4, <1>5, <1>6, <1>7, <1>8, <1>9, <1>10 DEF Begin

---------------------------------------------------------------------------
(* What a step can do to the state the gate depends on. *)

ItemLabels   == {"parent", "search", "toWrite", "acquire"}
StreamLabels == {"stream", "enqueue"}

\* A goroutine moves on with the task it has: only a dispatch stays among the
\* labels of stage 1, and no other goroutine moves.
Moves(p) ==
    /\ at[p] # "idle"
    /\ \E l \in Labels \ {"idle"} :
         /\ GoTo(p, l)
         /\ l \in ItemLabels => at[p] \in ItemLabels
         /\ l \in StreamLabels => at[p] \in StreamLabels
    /\ UNCHANGED <<on, dispatch>>

\* No row disappears, and a job is completed only through an open gate.
KeepsRows ==
    \A j \in Jobs :
        /\ status[j] # "absent" => status'[j] # "absent"
        /\ status'[j] = "completed" => status[j] = "completed" \/ gate[j]

\* A goroutine at work moves on or is done, and only OpenGate opens the gate.
LEMMA ContinueShape ==
  ASSUME TypeOK, NEW p \in Procs, Continue(p) \/ LoseWorker(p)
  PROVE  /\ Moves(p) \/ Ack(p)
         /\ KeepsRows
         /\ UNCHANGED gate \/ OpenGate(p)
<1> USE DEF rows, games, river, notes, local, KeepsRows
<1>0. /\ on[p].job \in Jobs /\ status \in [Jobs -> {"absent"} \cup ActiveStatus \cup TerminalStatus]
      /\ at \in [Procs -> Labels]
  BY DEF TypeOK
<1> USE DEF Moves, Labels, ItemLabels, StreamLabels
<1>1. ASSUME NEW B \in SUBSET Games, StreamBatch(p, B) PROVE Moves(p) /\ UNCHANGED <<status, gate>>
  BY <1>1 DEF StreamBatch
<1>2. CASE EnqueueNext(p)
  <2>1. UNCHANGED <<status, gate, on, dispatch>> /\ at[p] \in {"enqueue", "trigger"}
    BY <1>2 DEF EnqueueNext
  <2>2. at' = at \/ GoTo(p, IF at[p] = "enqueue" THEN "stream" ELSE "count")
    BY <1>2 DEF EnqueueNext
  <2>3. CASE at' = at
    <3>1. GoTo(p, at[p])
      BY <1>0, <2>3 DEF GoTo
    <3> QED BY <2>1, <3>1
  <2>4. CASE GoTo(p, IF at[p] = "enqueue" THEN "stream" ELSE "count")
    BY <2>1, <2>4
  <2> QED BY <2>2, <2>3, <2>4, <2>1
<1>3. CASE OpenGate(p)
  BY <1>3 DEF OpenGate
<1>4. CASE FailJob(p)
  <2>1. status' = [status EXCEPT ![on[p].job] = "failed"] /\ UNCHANGED gate
    BY <1>4 DEF FailJob
  <2>2. KeepsRows
    BY <1>0, <2>1
  <2>3. Moves(p)
    BY <1>4 DEF FailJob
  <2> QED BY <2>1, <2>2, <2>3
<1>5. CASE CancelItems(p)
  BY <1>5 DEF CancelItems
<1>6. CASE AskParent(p)
  BY <1>6 DEF AskParent
<1>7. CASE Search(p)
  BY <1>7 DEF Search
<1>8. CASE EnqueueUserGame(p)
  BY <1>8 DEF EnqueueUserGame
<1>9. CASE Acquire(p)
  BY <1>9 DEF Acquire
<1>10. CASE Mark(p)
  BY <1>10 DEF Mark
<1>11. CASE Siblings(p)
  BY <1>11 DEF Siblings
<1>12. CASE Count(p)
  BY <1>12 DEF Count
<1>13. CASE Review(p)
  BY <1>13 DEF Review
<1>14. CASE Finalize(p)
  <2> DEFINE done == Active(on[p].job) /\ gate[on[p].job]
  <2>1. /\ status' = IF done THEN [status EXCEPT ![on[p].job] = "completed"] ELSE status
        /\ UNCHANGED gate
    BY <1>14 DEF Finalize, FinalizeIf
  <2>2. KeepsRows
    BY <1>0, <2>1
  <2>3. Moves(p)
    BY <1>14 DEF Finalize, FinalizeIf
  <2> QED BY <2>1, <2>2, <2>3
<1>15. CASE Announce(p)
  BY <1>15 DEF Announce
<1>16. CASE Ack(p)
  BY <1>16 DEF Ack
<1>17. CASE CancelJob(p)
  <2>1. status' = [status EXCEPT ![on[p].job] = "cancelled"] /\ UNCHANGED gate
    BY <1>17 DEF CancelJob
  <2>2. KeepsRows
    BY <1>0, <2>1
  <2>3. Moves(p)
    BY <1>17 DEF CancelJob
  <2> QED BY <2>1, <2>2, <2>3
<1>18. CASE CancelTasks(p)
  BY <1>18 DEF CancelTasks
<1>19. CASE LoseWorker(p)
  BY <1>19 DEF LoseWorker
<1> QED BY <1>1, <1>2, <1>3, <1>4, <1>5, <1>6, <1>7, <1>8, <1>9, <1>10, <1>11, <1>12,
           <1>13, <1>14, <1>15, <1>16, <1>17, <1>18, <1>19 DEF Continue

\* A goroutine comes to an item's label only with an item.
LEMMA OnItemStep == TypeOK /\ OnItem /\ [Next]_vars => OnItem'
<1> SUFFICES ASSUME TypeOK, OnItem, [Next]_vars, NEW q \in Procs, at'[q] \in ItemLabels
             PROVE  on'[q].game \in Games
  BY DEF OnItem, ItemLabels
<1>0. at \in [Procs -> Labels] /\ DOMAIN on = Procs
  BY DEF TypeOK
<1>1. ASSUME NEW p \in Procs, Continue(p) \/ LoseWorker(p) PROVE on'[q].game \in Games
  <2>1. CASE Moves(p)
    BY <1>0, <2>1 DEF Moves, GoTo, OnItem, ItemLabels
  <2>2. CASE Ack(p)
    BY <1>0, <2>2 DEF Ack, GoTo, OnItem, ItemLabels
  <2> QED BY <1>1, <2>1, <2>2, ContinueShape
<1>2. ASSUME NEW p \in Procs, Begin(p) PROVE on'[q].game \in Games
  <2>1. ASSUME NEW l, NEW task, Take(p, l, task), l \in ItemLabels => task.game \in Games
        PROVE  on'[q].game \in Games
    BY <1>0, <2>1 DEF Take, GoTo, OnItem, ItemLabels
  <2>2. ASSUME NEW j \in Jobs, StartDispatch(p, j) \/ StartCancel(p, j)
        PROVE  on'[q].game \in Games
    BY <2>1, <2>2 DEF StartDispatch, StartCancel, ItemLabels
  <2>3. ASSUME NEW j \in Jobs, NEW g \in Games, StartMatch(p, j, g) \/ StartWrite(p, j, g)
        PROVE  on'[q].game \in Games
    <3>1. \A k : Task(k, j, g).game = g
      BY DEF Task
    <3> QED BY <2>1, <2>3, <3>1 DEF StartMatch, StartWrite
  <2> QED BY <1>2, <2>2, <2>3 DEF Begin
<1>3. CASE UNCHANGED <<at, on>>
  BY <1>3 DEF OnItem, ItemLabels
<1>4. CASE Crash
  BY <1>4 DEF Crash, ItemLabels
<1>5. ASSUME NEW j \in Jobs,
             Trigger(j) \/ CleanupStaleJobs(j) \/ \E g \in Games : Rescue(j, g)
      PROVE  UNCHANGED <<at, on>>
  BY <1>5 DEF Trigger, CleanupStaleJobs, Rescue, local
<1>6. UNCHANGED vars => UNCHANGED <<at, on>>
  BY DEF vars, local
<1> QED BY <1>1, <1>2, <1>3, <1>4, <1>5, <1>6 DEF Next

---------------------------------------------------------------------------
(* Theorems. *)

LEMMA TypingInit == Init => TypeOK /\ OnItem
<1> SUFFICES ASSUME Init PROVE TypeOK /\ OnItem
  OBVIOUS
<1>1. OnItem
  BY DEF Init, OnItem
<1>2. TypeOK
  BY GamesAssumption, NothingTyping DEF Init, TypeOK, ItemStatus, Labels
<1> QED BY <1>1, <1>2

LEMMA TypingStep == TypeOK /\ OnItem /\ [Next]_vars => TypeOK' /\ OnItem'
  BY ContinueTyping, OtherTyping, OnItemStep DEF Next

\* Type correctness of SyncPipeline, for every instance.
THEOREM SyncTyping == Spec => []TypeOK
  BY TypingInit, TypingStep, PTL DEF Spec

LEMMA GInvStep == TypeOK /\ GInv /\ [Next]_vars => GInv'
<1> SUFFICES ASSUME TypeOK, GInv, [Next]_vars PROVE GInv'
  OBVIOUS
<1>0. /\ at \in [Procs -> Labels] /\ DOMAIN on = Procs
      /\ \A p \in Procs : on[p].job \in Jobs
      /\ dispatch \in [Jobs -> {"none", "queued", "running"}] /\ DOMAIN status = Jobs
      /\ DOMAIN gate = Jobs
  BY DEF TypeOK
<1> USE DEF GInv, rows, games, river, local, Dispatching, Streaming
<1>1. ASSUME NEW p \in Procs, Continue(p) \/ LoseWorker(p) PROVE GInv'
  <2>0. Moves(p) \/ Ack(p)
    BY <1>1, ContinueShape
  <2>1. KeepsRows /\ (UNCHANGED gate \/ OpenGate(p))
    BY <1>1, ContinueShape
  <2>2. \A q \in Procs \ {p} : at'[q] = at[q] /\ on'[q] = on[q]
    BY <1>0, <2>0 DEF Moves, Ack, GoTo
  <2>3. CASE Moves(p)
    <3>1. /\ UNCHANGED <<on, dispatch>> /\ at[p] # "idle"
          /\ at'[p] \in StreamLabels => at[p] \in StreamLabels
      BY <1>0, <2>3 DEF Moves, GoTo
    <3>2. \A q \in Procs : /\ Dispatching(q)' => Dispatching(q)
                           /\ at'[q] \in StreamLabels => at[q] \in StreamLabels
      BY <2>2, <3>1
    <3>3. Labelled'
      BY <3>1, <3>2 DEF Labelled, StreamLabels
    <3>4. Sole'
      BY <3>1, <3>2 DEF Sole
    <3>5. Held'
      BY <1>0, <2>1, <3>1, <3>2 DEF Held, KeepsRows
    <3>6. GateHolds'
      <4> SUFFICES ASSUME NEW q \in Procs, NEW j \in Jobs, Streaming(q, j)'
                   PROVE  ~gate'[j] /\ status'[j] # "completed"
        BY DEF GateHolds
      <4>1. Streaming(q, j)
        BY <3>1, <3>2 DEF StreamLabels
      <4>2. ~gate[j] /\ status[j] # "completed"
        BY <4>1 DEF GateHolds
      <4>3. CASE UNCHANGED gate
        BY <2>1, <4>2, <4>3 DEF KeepsRows
      <4>4. CASE OpenGate(p)
        <5>1. at[p] = "stream" /\ on[p].kind = "dispatch" /\ at'[p] # "stream"
                /\ at'[p] \in {"count", "ack"}
          BY <1>0, <4>4 DEF OpenGate, GoTo, Labelled
        <5>2. q # p
          BY <5>1
        <5>3. on[p].job # j
          BY <4>1, <5>1, <5>2 DEF Sole
        <5>4. gate'[j] = gate[j]
          BY <1>0, <4>4, <5>3 DEF OpenGate
        <5> QED BY <2>1, <4>2, <5>4 DEF KeepsRows
      <4> QED BY <2>1, <4>3, <4>4
    <3> QED BY <3>3, <3>4, <3>5, <3>6
  <2>4. CASE Ack(p)
    <3>1. /\ at'[p] = "idle" /\ UNCHANGED <<status, gate>>
          /\ dispatch' = IF on[p].kind = "dispatch"
                         THEN [dispatch EXCEPT ![on[p].job] = "none"] ELSE dispatch
          /\ at[p] # "idle"
      BY <1>0, <2>4 DEF Ack, GoTo
    <3>2. Labelled'
      BY <2>2, <3>1 DEF Labelled
    <3>3. Sole'
      BY <2>2, <3>1 DEF Sole
    <3>4. Held'
      <4> SUFFICES ASSUME NEW q \in Procs, Dispatching(q)'
                   PROVE  dispatch'[on'[q].job] = "running" /\ status'[on'[q].job] # "absent"
        BY DEF Held
      <4>1. q # p /\ Dispatching(q) /\ on'[q] = on[q]
        BY <2>2, <3>1
      <4>2. on[p].kind = "dispatch" => on[p].job # on[q].job
        BY <3>1, <4>1 DEF Sole
      <4>3. dispatch'[on[q].job] = dispatch[on[q].job]
        BY <1>0, <3>1, <4>2
      <4> QED BY <3>1, <4>1, <4>3 DEF Held
    <3>5. GateHolds'
      BY <2>2, <3>1 DEF GateHolds
    <3> QED BY <3>2, <3>3, <3>4, <3>5
  <2> QED BY <2>0, <2>3, <2>4
<1>2. ASSUME NEW p \in Procs, NEW j \in Jobs, StartDispatch(p, j) PROVE GInv'
  <2>1. /\ at[p] = "idle" /\ at'[p] = "stream" /\ on'[p].kind = "dispatch" /\ on'[p].job = j
        /\ \A q \in Procs \ {p} : at'[q] = at[q] /\ on'[q] = on[q]
    BY <1>0, <1>2 DEF StartDispatch, Take, GoTo
  <2>2. /\ dispatch[j] = "queued" /\ dispatch'[j] = "running"
        /\ status'[j] = "processing" /\ gate'[j] = FALSE
        /\ \A i \in Jobs \ {j} : /\ dispatch'[i] = dispatch[i]
                                 /\ status'[i] = status[i] /\ gate'[i] = gate[i]
    BY <1>0, <1>2 DEF StartDispatch
  <2>3. \A q \in Procs \ {p} : Dispatching(q)' => Dispatching(q) /\ on'[q] = on[q] /\ on[q].job # j
    BY <2>1, <2>2 DEF Held
  <2>4. Labelled'
    BY <2>1 DEF Labelled
  <2>5. Sole'
    BY <2>1, <2>3 DEF Sole
  <2>6. Held'
    BY <1>0, <2>1, <2>2, <2>3 DEF Held
  <2>7. GateHolds'
    BY <1>0, <2>1, <2>2 DEF GateHolds
  <2> QED BY <2>4, <2>5, <2>6, <2>7
<1>3. ASSUME NEW p \in Procs, NEW j \in Jobs,
             \/ StartCancel(p, j)
             \/ \E g \in Games : StartMatch(p, j, g) \/ StartWrite(p, j, g)
      PROVE  GInv'
  <2>1. UNCHANGED <<status, gate, dispatch>>
    BY <1>3 DEF StartCancel, StartMatch, StartWrite
  <2>2. ASSUME NEW l, NEW task, Take(p, l, task), task.kind # "dispatch", l \notin StreamLabels
        PROVE  GInv'
    <3>1. /\ at'[p] = l /\ on'[p] = task
          /\ \A q \in Procs \ {p} : at'[q] = at[q] /\ on'[q] = on[q]
      BY <1>0, <2>2 DEF Take, GoTo
    <3>2. \A q \in Procs : Dispatching(q)' => q # p /\ Dispatching(q) /\ on'[q] = on[q]
      BY <2>2, <3>1
    <3> QED BY <2>1, <2>2, <3>1, <3>2 DEF Labelled, Sole, Held, GateHolds, StreamLabels
  <2>3. CASE StartCancel(p, j)
    BY <2>2, <2>3 DEF StartCancel, StreamLabels
  <2>4. ASSUME NEW g \in Games, StartMatch(p, j, g) \/ StartWrite(p, j, g) PROVE GInv'
    <3>1. \A k : Task(k, j, g).kind = k
      BY DEF Task
    <3> QED BY <2>2, <2>4, <3>1 DEF StartMatch, StartWrite, StreamLabels
  <2> QED BY <1>3, <2>3, <2>4
<1>4. ASSUME NEW j \in Jobs, Trigger(j) PROVE GInv'
  <2>1. /\ UNCHANGED <<gate, at, on>> /\ status[j] = "absent" /\ status'[j] = "pending"
        /\ \A i \in Jobs \ {j} : status'[i] = status[i] /\ dispatch'[i] = dispatch[i]
    BY <1>0, <1>4 DEF Trigger
  <2>2. \A q \in Procs : Dispatching(q) => on[q].job # j
    BY <2>1 DEF Held
  <2> QED BY <1>0, <2>1, <2>2 DEF Labelled, Sole, Held, GateHolds
<1>5. ASSUME NEW j \in Jobs, CleanupStaleJobs(j) PROVE GInv'
  <2>1. /\ UNCHANGED <<gate, at, on, dispatch>> /\ status'[j] = "failed"
        /\ \A i \in Jobs \ {j} : status'[i] = status[i]
    BY <1>0, <1>5 DEF CleanupStaleJobs
  <2> QED BY <1>0, <2>1 DEF Labelled, Sole, Held, GateHolds
<1>6. ASSUME UNCHANGED <<status, gate, at, on, dispatch>> PROVE GInv'
  BY <1>6 DEF Labelled, Sole, Held, GateHolds
<1>7. CASE Crash
  <2>1. \A q \in Procs : at'[q] = "idle"
    BY <1>7 DEF Crash
  <2> QED BY <2>1 DEF Labelled, Sole, Held, GateHolds
<1>8. ASSUME NEW j \in Jobs, NEW g \in Games, Rescue(j, g)
      PROVE  UNCHANGED <<status, gate, at, on, dispatch>>
  BY <1>8 DEF Rescue
<1>9. UNCHANGED vars => UNCHANGED <<status, gate, at, on, dispatch>>
  BY DEF vars
<1> QED BY <1>1, <1>2, <1>3, <1>4, <1>5, <1>6, <1>7, <1>8, <1>9 DEF Next, Begin

\* The dispatch gate of SyncCheckJobCompletion: while a dispatch worker streams
\* batches of a job, the job's gate is closed and it is not completed.
THEOREM Gate == Spec => []GateHolds
<1>1. Init => IInv
  <2> SUFFICES ASSUME Init PROVE GInv
    BY TypingInit DEF IInv
  <2> QED BY DEF Init, GInv, Labelled, Sole, Held, GateHolds, Dispatching, Streaming
<1>2. IInv /\ [Next]_vars => IInv'
  BY TypingStep, GInvStep DEF IInv
<1>3. IInv => GateHolds
  BY DEF IInv, GInv
<1> QED BY <1>1, <1>2, <1>3, PTL DEF Spec

---------------------------------------------------------------------------
(* Completion is announced once: what AnnouncedOnce rests on. *)

CancelLabels == {"cancelJob", "cancelTasks", "ack"}

\* A cancellation stays at its own labels ...
CancelsApart == \A p \in Procs :
    at[p] # "idle" /\ on[p].kind = "cancel" => at[p] \in CancelLabels

\* ... and nothing else is about a job whose dispatch never ran.
Fresh(j) ==
    /\ announced[j] = 0
    /\ \A g \in Games : item[j][g] = "absent"
    /\ \A t \in Tasks : t.job = j => queue[t] = 0
    /\ \A p \in Procs :
         /\ \A g \in Games : <<j, g>> \notin todo[p]
         /\ at[p] # "idle" /\ on[p].job = j => on[p].kind = "cancel"

AllFresh == \A j \in Jobs : tried[j] = 0 => Fresh(j)

\* While the first dispatch is the only one, an announced job is over.
OverOnce(j) ==
    tried[j] <= 1 =>
        /\ announced[j] + Cardinality(Announcing(j)) <= 1
        /\ announced[j] > 0 \/ Announcing(j) # {} => status[j] \in TerminalStatus

AInv == CancelsApart /\ AllFresh /\ \A j \in Jobs : OverOnce(j)

\* What a goroutine at work leaves alone, and the two steps that matter.
LEMMA ContinueSettles ==
  ASSUME TypeOK, NEW p \in Procs, Continue(p) \/ LoseWorker(p)
  PROVE  /\ UNCHANGED tried
         /\ \A q \in Procs \ {p} : at'[q] = at[q] /\ on'[q] = on[q] /\ todo'[q] = todo[q]
         /\ \/ Finalize(p) \/ Announce(p)
            \/ /\ UNCHANGED announced /\ at'[p] # "announce"
               /\ \A j \in Jobs : status[j] \in TerminalStatus => status'[j] \in TerminalStatus
         /\ at[p] \in CancelLabels => at'[p] \in CancelLabels \cup {"idle"}
         /\ on'[p] = on[p] \/ at'[p] = "idle"
<1> USE DEF rows, games, river, notes, local, CancelLabels, TerminalStatus
<1>0. /\ on[p].job \in Jobs /\ status \in [Jobs -> {"absent"} \cup ActiveStatus \cup TerminalStatus]
      /\ at \in [Procs -> Labels] /\ DOMAIN on = Procs /\ DOMAIN todo = Procs
  BY DEF TypeOK
<1> DEFINE Others == \A q \in Procs \ {p} : at'[q] = at[q] /\ on'[q] = on[q] /\ todo'[q] = todo[q]
           Kept == UNCHANGED announced /\ at'[p] # "announce"
                   /\ \A j \in Jobs : status[j] \in TerminalStatus => status'[j] \in TerminalStatus
           Stays == at[p] \in CancelLabels => at'[p] \in CancelLabels \cup {"idle"}
           Goal == /\ UNCHANGED tried /\ Others /\ Kept /\ Stays
                   /\ on'[p] = on[p] \/ at'[p] = "idle"
<1>1. ASSUME NEW B \in SUBSET Games, StreamBatch(p, B) PROVE Goal
  BY <1>0, <1>1 DEF StreamBatch, GoTo
<1>2. CASE EnqueueNext(p)
  BY <1>0, <1>2 DEF EnqueueNext, GoTo
<1>3. CASE OpenGate(p)
  BY <1>0, <1>3 DEF OpenGate, GoTo
<1>4. CASE FailJob(p)
  BY <1>0, <1>4 DEF FailJob, GoTo
<1>5. CASE CancelItems(p)
  BY <1>0, <1>5 DEF CancelItems, GoTo
<1>6. CASE AskParent(p)
  BY <1>0, <1>6 DEF AskParent, GoTo
<1>7. CASE Search(p)
  BY <1>0, <1>7 DEF Search, GoTo
<1>8. CASE EnqueueUserGame(p)
  BY <1>0, <1>8 DEF EnqueueUserGame, GoTo
<1>9. CASE Acquire(p)
  BY <1>0, <1>9 DEF Acquire, GoTo
<1>10. CASE Mark(p)
  BY <1>0, <1>10 DEF Mark, GoTo
<1>11. CASE Siblings(p)
  BY <1>0, <1>11 DEF Siblings, GoTo
<1>12. CASE Count(p)
  BY <1>0, <1>12 DEF Count, GoTo
<1>13. CASE Review(p)
  BY <1>0, <1>13 DEF Review, GoTo
<1>14. CASE Finalize(p)
  BY <1>0, <1>14 DEF Finalize, FinalizeIf, GoTo
<1>15. CASE Announce(p)
  BY <1>0, <1>15 DEF Announce, GoTo
<1>16. CASE Ack(p)
  BY <1>0, <1>16 DEF Ack, GoTo
<1>17. CASE CancelJob(p)
  BY <1>0, <1>17 DEF CancelJob, GoTo
<1>18. CASE CancelTasks(p)
  BY <1>0, <1>18 DEF CancelTasks, GoTo
<1>19. CASE LoseWorker(p)
  BY <1>0, <1>19 DEF LoseWorker, GoTo
<1> QED BY <1>1, <1>2, <1>3, <1>4, <1>5, <1>6, <1>7, <1>8, <1>9, <1>10, <1>11, <1>12,
           <1>13, <1>14, <1>15, <1>16, <1>17, <1>18, <1>19 DEF Continue


\* A goroutine that takes up a task leaves the others alone.
LEMMA TakeShape ==
  ASSUME TypeOK, NEW p \in Procs, NEW l, NEW task, Take(p, l, task)
  PROVE  /\ at[p] = "idle" /\ at'[p] = l /\ on'[p] = task
         /\ \A q \in Procs \ {p} : at'[q] = at[q] /\ on'[q] = on[q]
BY DEF TypeOK, Take, GoTo

LEMMA CancelsApartStep == TypeOK /\ CancelsApart /\ [Next]_vars => CancelsApart'
<1> SUFFICES ASSUME TypeOK, CancelsApart, [Next]_vars, NEW q \in Procs,
                    at'[q] # "idle", on'[q].kind = "cancel"
             PROVE  at'[q] \in CancelLabels
  BY DEF CancelsApart
<1> USE DEF CancelsApart, rows, games, river, notes, local
<1>1. ASSUME NEW p \in Procs, Continue(p) \/ LoseWorker(p) PROVE at'[q] \in CancelLabels
  <2>1. q # p => at'[q] = at[q] /\ on'[q] = on[q]
    BY <1>1, ContinueSettles
  <2>2. q = p => on'[q] = on[q] /\ (at[p] \in CancelLabels => at'[p] \in CancelLabels)
    BY <1>1, ContinueSettles
  <2>3. q = p => at[q] # "idle"
    BY <1>1, ContinueShape DEF Moves, Ack
  <2> QED BY <2>1, <2>2, <2>3
<1>2. ASSUME NEW p \in Procs, NEW l, NEW task, Take(p, l, task),
             task.kind = "cancel" => l \in CancelLabels
      PROVE  at'[q] \in CancelLabels
  BY <1>2, TakeShape
<1>3. ASSUME NEW p \in Procs, Begin(p) PROVE at'[q] \in CancelLabels
  <2>1. ASSUME NEW j \in Jobs, StartDispatch(p, j) \/ StartCancel(p, j)
        PROVE  at'[q] \in CancelLabels
    BY <1>2, <2>1 DEF StartDispatch, StartCancel, CancelLabels
  <2>2. ASSUME NEW j \in Jobs, NEW g \in Games, StartMatch(p, j, g) \/ StartWrite(p, j, g)
        PROVE  at'[q] \in CancelLabels
    <3>1. \A k : Task(k, j, g).kind = k
      BY DEF Task
    <3> QED BY <1>2, <2>2, <3>1 DEF StartMatch, StartWrite
  <2> QED BY <1>3, <2>1, <2>2 DEF Begin
<1>4. CASE UNCHANGED <<at, on>>
  BY <1>4
<1>5. CASE Crash
  BY <1>5 DEF Crash
<1>6. ASSUME NEW j \in Jobs,
             Trigger(j) \/ CleanupStaleJobs(j) \/ \E g \in Games : Rescue(j, g)
      PROVE  UNCHANGED <<at, on>>
  BY <1>6 DEF Trigger, CleanupStaleJobs, Rescue
<1>7. UNCHANGED vars => UNCHANGED <<at, on>>
  BY DEF vars
<1> QED BY <1>1, <1>3, <1>4, <1>5, <1>6, <1>7 DEF Next

\* EnqueueOrFail of a task of another job leaves a fresh job's rows and queue.
LEMMA EnqueueElsewhere ==
  ASSUME TypeOK, NEW j \in Jobs, NEW t \in Tasks, t.job # j, NEW accepted \in BOOLEAN,
         EnqueueOrFail(t, accepted)
  PROVE  /\ item'[j] = item[j]
         /\ \A u \in Tasks : u.job = j => queue'[u] = queue[u]
<1>1. t.job \in Jobs
  BY DEF Tasks
<1>2. CASE accepted
  BY <1>2 DEF EnqueueOrFail, TypeOK
<1>3. CASE ~accepted
  BY <1>1, <1>3 DEF EnqueueOrFail, TypeOK
<1> QED BY <1>2, <1>3

\* A goroutine at work does nothing for a job whose dispatch never ran.
LEMMA FreshContinue ==
  ASSUME TypeOK, OnItem, CancelsApart, NEW p \in Procs, Continue(p) \/ LoseWorker(p),
         NEW j \in Jobs, Fresh(j)
  PROVE  Fresh(j)'
<1> USE DEF rows, games, river, notes, local
<1>0. /\ on[p].job \in Jobs /\ on[p].game \in Games \cup {NoGame}
      /\ at[p] \notin CancelLabels \cup {"idle"} => on[p].job # j
  BY DEF TypeOK, Fresh, CancelsApart
<1>1. \A q \in Procs : at'[q] # "idle" /\ on'[q].job = j => on'[q].kind = "cancel"
  <2>1. at[p] # "idle"
    BY ContinueShape DEF Moves, Ack
  <2> QED BY <2>1, ContinueSettles DEF Fresh
<1>2. announced'[j] = 0
  <2>1. CASE Announce(p)
    BY <1>0, <2>1 DEF Announce, Fresh, CancelLabels, TypeOK
  <2>2. CASE Finalize(p)
    BY <2>2 DEF Finalize, FinalizeIf, Fresh
  <2> QED BY <2>1, <2>2, ContinueSettles DEF Fresh
<1> DEFINE Same == item'[j] = item[j] /\ (\A t \in Tasks : t.job = j => queue'[t] = queue[t] \/ queue'[t] = 0)
           NoTodo == \A g \in Games : <<j, g>> \notin todo'[p]
           Goal == Same /\ NoTodo
<1>3. \A g \in Games : <<j, g>> \notin todo[p]
  BY DEF Fresh
<1>4. ASSUME NEW B \in SUBSET Games, StreamBatch(p, B) PROVE Goal
  <2>1. on[p].job # j
    BY <1>0, <1>4 DEF StreamBatch, CancelLabels
  <2> QED BY <1>0, <1>4, <2>1 DEF StreamBatch, TypeOK
<1>5. ASSUME EnqueueNext(p) PROVE Goal
  <2>1. ASSUME NEW accepted \in BOOLEAN, NEW w \in todo[p],
               EnqueueOrFail(Task("match", w[1], w[2]), accepted),
               todo' = [todo EXCEPT ![p] = @ \ {w}]
        PROVE  Goal
    <3>1. w \in Jobs \X Games /\ w = <<w[1], w[2]>>
      BY DEF TypeOK
    <3>2. w[1] # j /\ w[1] \in Jobs /\ w[2] \in Games
      BY <1>3, <3>1
    <3>3. Task("match", w[1], w[2]) \in Tasks /\ Task("match", w[1], w[2]).job # j
      BY <3>2, TaskTyping DEF Task
    <3>4. Same
      BY <2>1, <3>3, EnqueueElsewhere
    <3>5. NoTodo
      BY <1>3, <2>1 DEF TypeOK
    <3> QED BY <3>4, <3>5
  <2>2. CASE UNCHANGED <<item, queue, todo, spent>>
    BY <1>3, <2>2
  <2> QED BY <1>5, <2>1, <2>2 DEF EnqueueNext
<1>6. ASSUME OpenGate(p) \/ FailJob(p) \/ AskParent(p) \/ Acquire(p) \/ Count(p) \/ Review(p)
             \/ Finalize(p) \/ Announce(p) \/ CancelJob(p) \/ LoseWorker(p)
      PROVE  Goal
  <2>1. UNCHANGED <<item, queue, todo>>
    BY <1>6 DEF OpenGate, FailJob, AskParent, Acquire, Count, Review, Finalize, FinalizeIf,
                Announce, CancelJob, LoseWorker
  <2> QED BY <1>3, <2>1
<1>7. ASSUME CancelItems(p) PROVE Goal
  <2>1. on[p].job # j
    BY <1>0, <1>7 DEF CancelItems, CancelLabels
  <2> QED BY <1>0, <1>3, <1>7, <2>1 DEF CancelItems, TypeOK
<1>8. ASSUME NEW s, SetItem(p, s), on[p].job # j PROVE item'[j] = item[j]
  BY <1>0, <1>8 DEF SetItem, TypeOK
<1>9. ASSUME Search(p) \/ Mark(p) PROVE Goal
  <2>1. on[p].job # j
    BY <1>0, <1>9 DEF Search, Mark, CancelLabels
  <2>2. item'[j] = item[j] /\ UNCHANGED <<queue, todo>>
    BY <1>8, <1>9, <2>1 DEF Search, Mark
  <2> QED BY <1>3, <2>2
<1>10. ASSUME EnqueueUserGame(p) PROVE Goal
  <2>1. on[p].job # j /\ on[p].game \in Games
    BY <1>0, <1>10 DEF EnqueueUserGame, CancelLabels, OnItem
  <2>2. PICK accepted \in BOOLEAN : EnqueueOrFail(Task("write", on[p].job, on[p].game), accepted)
    BY <1>10 DEF EnqueueUserGame
  <2>3. Task("write", on[p].job, on[p].game) \in Tasks /\ Task("write", on[p].job, on[p].game).job # j
    BY <1>0, <2>1, TaskTyping DEF Task
  <2>4. Same
    BY <2>2, <2>3, EnqueueElsewhere
  <2> QED BY <1>3, <1>10, <2>4 DEF EnqueueUserGame
<1>11. ASSUME Siblings(p) PROVE Goal
  <2>1. UNCHANGED <<item, queue>>
    BY <1>11 DEF Siblings
  <2>2. NoTodo
    BY <1>11 DEF Siblings, TypeOK, Fresh
  <2> QED BY <2>1, <2>2
<1>12. ASSUME Ack(p) PROVE Goal
  BY <1>12 DEF Ack, TypeOK
<1>13. ASSUME CancelTasks(p) PROVE Goal
  BY <1>3, <1>13 DEF CancelTasks
<1>14. Goal
  BY <1>4, <1>5, <1>6, <1>7, <1>9, <1>10, <1>11, <1>12, <1>13 DEF Continue
<1>15. \A q \in Procs : \A g \in Games : <<j, g>> \notin todo'[q]
  BY <1>14, ContinueSettles DEF Fresh
<1> QED BY <1>1, <1>2, <1>14, <1>15 DEF Fresh


\* No other step does, until the dispatch starts.
LEMMA AllFreshStep == TypeOK /\ OnItem /\ CancelsApart /\ AllFresh /\ [Next]_vars => AllFresh'
<1> SUFFICES ASSUME TypeOK, OnItem, CancelsApart, AllFresh, [Next]_vars,
                    NEW j \in Jobs, tried'[j] = 0
             PROVE  Fresh(j)'
  BY DEF AllFresh
<1> USE DEF rows, games, river, notes, local
<1>0. tried \in [Jobs -> Nat]
  BY DEF TypeOK
<1>1. ASSUME NEW p \in Procs, Continue(p) \/ LoseWorker(p) PROVE Fresh(j)'
  BY <1>1, ContinueSettles, FreshContinue DEF AllFresh
<1>2. ASSUME NEW p \in Procs, NEW i \in Jobs, StartDispatch(p, i) PROVE Fresh(j)'
  <2>1. i # j /\ tried[j] = 0
    BY <1>0, <1>2 DEF StartDispatch
  <2>2. UNCHANGED <<announced, item, queue, todo>>
    BY <1>2 DEF StartDispatch
  <2>3. on'[p].job # j /\ \A q \in Procs \ {p} : at'[q] = at[q] /\ on'[q] = on[q]
    BY <1>2, <2>1, TakeShape DEF StartDispatch
  <2> QED BY <2>1, <2>2, <2>3 DEF AllFresh, Fresh
<1>3. ASSUME NEW p \in Procs, NEW i \in Jobs, StartCancel(p, i) PROVE Fresh(j)'
  <2>1. UNCHANGED <<announced, item, queue, todo, tried>>
    BY <1>3 DEF StartCancel
  <2>2. on'[p].kind = "cancel" /\ \A q \in Procs \ {p} : at'[q] = at[q] /\ on'[q] = on[q]
    BY <1>3, TakeShape DEF StartCancel
  <2> QED BY <2>1, <2>2 DEF AllFresh, Fresh
<1>4. ASSUME NEW p \in Procs, NEW i \in Jobs, NEW g \in Games,
             StartMatch(p, i, g) \/ StartWrite(p, i, g)
      PROVE  Fresh(j)'
  <2>1. PICK k \in {"match", "write"}, l \in Labels :
          Dequeue(Task(k, i, g)) /\ Take(p, l, Task(k, i, g))
          /\ UNCHANGED <<rows, games, dispatch, notes, todo, seen, spent>>
    BY <1>4 DEF StartMatch, StartWrite, Labels
  <2>2. Task(k, i, g) \in Tasks /\ Task(k, i, g).job = i
    BY TaskTyping DEF Task
  <2>3. Fresh(j) /\ queue \in [Tasks -> Nat]
    BY <2>1 DEF AllFresh, TypeOK
  <2>4. i # j
    BY <2>1, <2>2, <2>3 DEF Dequeue, Fresh
  <2>5. \A t \in Tasks : t.job = j => queue'[t] = 0
    BY <2>1, <2>2, <2>3, <2>4 DEF Dequeue, Fresh
  <2>6. on'[p].job # j /\ \A q \in Procs \ {p} : at'[q] = at[q] /\ on'[q] = on[q]
    BY <2>1, <2>2, <2>4, TakeShape
  <2> QED BY <2>1, <2>3, <2>5, <2>6 DEF Fresh
<1>5. ASSUME NEW i \in Jobs, Trigger(i) \/ CleanupStaleJobs(i) PROVE Fresh(j)'
  <2>1. UNCHANGED <<announced, item, queue, todo, tried, at, on>>
    BY <1>5 DEF Trigger, CleanupStaleJobs
  <2> QED BY <2>1 DEF AllFresh, Fresh
<1>6. ASSUME NEW i \in Jobs, NEW g \in Games, Rescue(i, g) PROVE Fresh(j)'
  <2>1. Fresh(j) /\ UNCHANGED <<announced, todo, tried, at, on>>
    BY <1>6 DEF AllFresh, Rescue
  <2>2. i # j
    BY <1>6, <2>1 DEF Rescue, Fresh
  <2>3. Task("match", i, g) \in Tasks /\ Task("match", i, g).job # j
    BY <2>2, TaskTyping DEF Task
  <2>4. PICK accepted \in BOOLEAN : EnqueueOrFail(Task("match", i, g), accepted)
    BY <1>6 DEF Rescue
  <2>5. item'[j] = item[j] /\ \A t \in Tasks : t.job = j => queue'[t] = queue[t]
    BY <2>3, <2>4, EnqueueElsewhere
  <2> QED BY <2>1, <2>5 DEF Fresh
<1>7. CASE Crash
  <2>1. Fresh(j) /\ UNCHANGED <<announced, item, tried>>
    BY <1>7 DEF AllFresh, Crash
  <2>2. \A q \in Procs : at'[q] = "idle" /\ todo'[q] = {}
    BY <1>7 DEF Crash
  <2>3. ASSUME NEW t \in Tasks, t.job = j PROVE queue'[t] = 0
    <3>1. t.kind # "cancel"
      BY DEF Tasks
    <3>2. {p \in Procs : at[p] # "idle" /\ on[p] = t} = {}
      BY <2>1, <2>3, <3>1 DEF Fresh
    <3>3. queue'[t] = queue[t] + Cardinality({p \in Procs : at[p] # "idle" /\ on[p] = t})
      BY <1>7 DEF Crash
    <3>4. queue[t] = 0
      BY <2>1, <2>3 DEF Fresh
    <3> QED BY <3>2, <3>3, <3>4, FS_EmptySet
  <2> QED BY <2>1, <2>2, <2>3 DEF Fresh
<1>8. CASE UNCHANGED vars
  BY <1>8 DEF vars, AllFresh, Fresh
<1> QED BY <1>1, <1>2, <1>3, <1>4, <1>5, <1>6, <1>7, <1>8 DEF Next, Begin

\* A step that announces nothing, and brings nobody to announce, keeps a job over.
LEMMA QuietStep ==
  ASSUME NEW j \in Jobs, OverOnce(j), announced[j] \in Nat,
         UNCHANGED tried, announced'[j] = announced[j],
         Announcing(j)' \subseteq Announcing(j),
         status[j] \in TerminalStatus => status'[j] \in TerminalStatus
  PROVE  OverOnce(j)'
<1>1. IsFiniteSet(Announcing(j))
  BY ProcsAssumption, FS_Subset DEF Announcing
<1>2. /\ Cardinality(Announcing(j)') <= Cardinality(Announcing(j))
      /\ Cardinality(Announcing(j)) \in Nat /\ Cardinality(Announcing(j)') \in Nat
  BY <1>1, FS_Subset, FS_CardinalityType
<1> QED BY <1>2 DEF OverOnce

LEMMA OverOnceStep ==
  ASSUME TypeOK, CancelsApart, AllFresh, [Next]_vars, NEW j \in Jobs, OverOnce(j)
  PROVE  OverOnce(j)'
<1> USE DEF rows, games, river, notes, local
<1>0. /\ announced \in [Jobs -> Nat] /\ tried \in [Jobs -> Nat]
      /\ status \in [Jobs -> {"absent"} \cup ActiveStatus \cup TerminalStatus]
      /\ at \in [Procs -> Labels] /\ \A p \in Procs : on[p].job \in Jobs
      /\ DOMAIN on = Procs
  BY DEF TypeOK
<1>a. IsFiniteSet(Announcing(j)) /\ Cardinality(Announcing(j)) \in Nat
  BY ProcsAssumption, FS_Subset, FS_CardinalityType DEF Announcing
<1>1. ASSUME NEW p \in Procs, Continue(p) \/ LoseWorker(p) PROVE OverOnce(j)'
  <2>1. UNCHANGED tried /\ \A q \in Procs \ {p} : at'[q] = at[q] /\ on'[q] = on[q]
    BY <1>1, ContinueSettles
  <2>2. CASE Finalize(p)
    <3>1. UNCHANGED <<announced, on>>
      BY <2>2 DEF Finalize, FinalizeIf
    <3>2. CASE ~(Active(on[p].job) /\ gate[on[p].job]) \/ on[p].job # j
      <4>1. status'[j] = status[j] /\ Announcing(j)' \subseteq Announcing(j)
        BY <1>0, <2>1, <2>2, <3>1, <3>2 DEF Finalize, FinalizeIf, Announcing, GoTo
      <4> QED BY <1>0, <2>1, <3>1, <4>1, QuietStep
    <3>3. CASE Active(on[p].job) /\ gate[on[p].job] /\ on[p].job = j
      <4>1. status'[j] = "completed" /\ at'[p] = "announce"
        BY <1>0, <2>2, <3>3 DEF Finalize, FinalizeIf, GoTo
      <4>2. status[j] \notin TerminalStatus
        BY <3>3 DEF Active, ActiveStatus, TerminalStatus
      <4>3. tried[j] <= 1 => announced[j] = 0 /\ Announcing(j) = {}
        BY <1>0, <4>2 DEF OverOnce
      <4>4. Announcing(j)' = Announcing(j) \cup {p}
        BY <2>1, <3>1, <3>3, <4>1 DEF Announcing
      <4>5. Cardinality({p}) = 1
        BY FS_Singleton
      <4>6. tried[j] <= 1 => Announcing(j)' = {p}
        BY <4>3, <4>4
      <4> QED BY <2>1, <3>1, <4>1, <4>3, <4>5, <4>6 DEF OverOnce, TerminalStatus
    <3> QED BY <3>2, <3>3
  <2>3. CASE Announce(p)
    <3>1. /\ UNCHANGED <<status, on>> /\ at[p] = "announce" /\ at'[p] = "ack"
          /\ announced' = [announced EXCEPT ![on[p].job] = @ + 1]
      BY <1>0, <2>3 DEF Announce, GoTo
    <3>2. CASE on[p].job # j
      <4>1. announced'[j] = announced[j] /\ Announcing(j)' \subseteq Announcing(j)
        BY <1>0, <2>1, <3>1, <3>2 DEF Announcing
      <4> QED BY <1>0, <2>1, <3>1, <4>1, QuietStep
    <3>3. CASE on[p].job = j
      <4>1. announced'[j] = announced[j] + 1
        BY <1>0, <3>1, <3>3
      <4>2. Announcing(j)' = Announcing(j) \ {p} /\ p \in Announcing(j)
        BY <2>1, <3>1, <3>3 DEF Announcing
      <4>3. Cardinality(Announcing(j)') = Cardinality(Announcing(j)) - 1
        BY <1>a, <4>2, FS_RemoveElement
      <4>4. tried[j] <= 1 => status[j] \in TerminalStatus
        BY <4>2 DEF OverOnce
      <4> QED BY <1>0, <1>a, <2>1, <3>1, <4>1, <4>3, <4>4 DEF OverOnce
    <3> QED BY <3>2, <3>3
  <2>4. CASE UNCHANGED announced /\ at'[p] # "announce"
             /\ \A i \in Jobs : status[i] \in TerminalStatus => status'[i] \in TerminalStatus
    <3>1. Announcing(j)' \subseteq Announcing(j)
      BY <2>1, <2>4 DEF Announcing
    <3> QED BY <1>0, <2>1, <2>4, <3>1, QuietStep
  <2> QED BY <1>1, <2>2, <2>3, <2>4, ContinueSettles
<1>2. ASSUME NEW p \in Procs, NEW l, NEW task, Take(p, l, task), l # "announce"
      PROVE  Announcing(j)' \subseteq Announcing(j)
  BY <1>2, TakeShape DEF Announcing
<1>3. ASSUME NEW p \in Procs, NEW i \in Jobs, StartDispatch(p, i) PROVE OverOnce(j)'
  <2>1. Announcing(j)' \subseteq Announcing(j) /\ UNCHANGED announced
    BY <1>2, <1>3 DEF StartDispatch
  <2>2. CASE i # j
    <3>1. tried'[j] = tried[j] /\ status'[j] = status[j]
      BY <1>0, <1>3, <2>2 DEF StartDispatch
    <3>2. Cardinality(Announcing(j)') <= Cardinality(Announcing(j)) /\ Cardinality(Announcing(j)') \in Nat
      BY <1>a, <2>1, FS_Subset, FS_CardinalityType
    <3> QED BY <1>0, <1>a, <2>1, <3>1, <3>2 DEF OverOnce
  <2>3. CASE i = j
    <3>1. tried'[j] = tried[j] + 1
      BY <1>0, <1>3, <2>3 DEF StartDispatch
    <3>2. CASE tried[j] # 0
      BY <1>0, <3>1, <3>2 DEF OverOnce
    <3>3. CASE tried[j] = 0
      <4>1. announced[j] = 0 /\ Announcing(j) = {}
        BY <3>3 DEF AllFresh, Fresh, Announcing, CancelsApart, CancelLabels
      <4>2. Announcing(j)' = {} /\ announced'[j] = 0
        BY <2>1, <4>1
      <4>3. Cardinality({}) = 0
        BY FS_EmptySet
      <4> QED BY <4>2, <4>3 DEF OverOnce
    <3> QED BY <3>2, <3>3
  <2> QED BY <2>2, <2>3
<1>4. ASSUME NEW p \in Procs, NEW i \in Jobs,
             \/ StartCancel(p, i)
             \/ \E g \in Games : StartMatch(p, i, g) \/ StartWrite(p, i, g)
      PROVE  OverOnce(j)'
  <2>1. UNCHANGED <<status, announced, tried>>
    BY <1>4 DEF StartCancel, StartMatch, StartWrite
  <2>2. Announcing(j)' \subseteq Announcing(j)
    BY <1>2, <1>4 DEF StartCancel, StartMatch, StartWrite
  <2> QED BY <1>0, <2>1, <2>2, QuietStep
<1>5. ASSUME NEW i \in Jobs, Trigger(i) \/ CleanupStaleJobs(i) PROVE OverOnce(j)'
  <2>1. UNCHANGED <<announced, tried, at, on>>
    BY <1>5 DEF Trigger, CleanupStaleJobs
  <2>2. status[j] \in TerminalStatus => status'[j] \in TerminalStatus
    BY <1>0, <1>5 DEF Trigger, CleanupStaleJobs, TerminalStatus
  <2>3. Announcing(j)' \subseteq Announcing(j)
    BY <2>1 DEF Announcing
  <2> QED BY <1>0, <2>1, <2>2, <2>3, QuietStep
<1>6. ASSUME UNCHANGED <<status, announced, tried, at, on>> PROVE OverOnce(j)'
  <2>1. Announcing(j)' \subseteq Announcing(j)
    BY <1>6 DEF Announcing
  <2> QED BY <1>0, <1>6, <2>1, QuietStep
<1>7. ASSUME NEW i \in Jobs, NEW g \in Games, Rescue(i, g)
      PROVE  UNCHANGED <<status, announced, tried, at, on>>
  BY <1>7 DEF Rescue
<1>8. CASE Crash
  <2>1. UNCHANGED <<status, announced, tried>> /\ Announcing(j)' \subseteq Announcing(j)
    BY <1>8 DEF Crash, Announcing
  <2> QED BY <1>0, <2>1, QuietStep
<1>9. UNCHANGED vars => UNCHANGED <<status, announced, tried, at, on>>
  BY DEF vars
<1> QED BY <1>1, <1>3, <1>4, <1>5, <1>6, <1>7, <1>8, <1>9 DEF Next, Begin

\* finalizeJobCompleted lets one check announce: whatever crashes, times out, is
\* refused or cancelled, a job whose dispatch ran once is announced once.
THEOREM SingleAnnouncement == Spec => []AnnouncedOnce
<1> DEFINE SInv == TypeOK /\ OnItem /\ AInv
<1>1. Init => SInv
  <2> SUFFICES ASSUME Init PROVE AInv
    BY TypingInit
  <2>1. CancelsApart /\ AllFresh
    BY DEF Init, CancelsApart, AllFresh, Fresh
  <2>2. ASSUME NEW j \in Jobs PROVE OverOnce(j)
    <3>1. Announcing(j) = {} /\ announced[j] = 0
      BY DEF Init, Announcing
    <3> QED BY <3>1, FS_EmptySet DEF OverOnce
  <2> QED BY <2>1, <2>2 DEF AInv
<1>2. SInv /\ [Next]_vars => SInv'
  <2> SUFFICES ASSUME SInv, [Next]_vars PROVE AInv'
    BY TypingStep
  <2>1. CancelsApart' /\ AllFresh'
    BY CancelsApartStep, AllFreshStep DEF AInv
  <2>2. ASSUME NEW j \in Jobs PROVE OverOnce(j)'
    BY OverOnceStep DEF AInv
  <2> QED BY <2>1, <2>2 DEF AInv
<1>3. SInv => AnnouncedOnce
  BY DEF AInv, OverOnce, AnnouncedOnce
<1> QED BY <1>1, <1>2, <1>3, PTL DEF Spec
=============================================================================
