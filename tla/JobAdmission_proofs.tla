------------------------- MODULE JobAdmission_proofs -------------------------
(***************************************************************************)
(* The dedup lock works for any number of rows, clients, keys and lock     *)
(* numbers, and for any hash: Spec => []AtMostOneGuarded.                  *)
(*                                                                         *)
(* AtMostOneGuarded is not inductive by itself.  IInv adds what the lock   *)
(* contributes: a client between the lock and the commit holds the lock of *)
(* its key, and one that passed the guard still sees a free key.           *)
(***************************************************************************)
EXTENDS JobAdmission, TLAPS

\* A client that has passed the lock holds it until it commits or leaves.
HoldsLock ==
    \A c \in Clients :
        pc[c] \in {"guard", "commit"} /\ TakesLock(kind[c]) => lock[LockOf[want[c]]] = c

\* The path of a client fits the class of the key it wants.
KindFits ==
    \A c \in Clients : pc[c] # "idle" => kind[c] \in KindsFor(want[c])

\* A guarded client that is about to commit will not find company.
ClearAhead ==
    \A c \in Clients : pc[c] = "commit" /\ TakesLock(kind[c]) =>
        \A j \in Jobs : ~(Live(j) /\ keyOf[j] = want[c])

IInv == TypeOK /\ HoldsLock /\ KindFits /\ ClearAhead /\ AtMostOneGuarded

\* No row becomes live, and no live row changes its key.
NoNewLive == \A j \in Jobs : Live(j)' => Live(j) /\ keyOf'[j] = keyOf[j]

LEMMA AnyKeyIsKey == AnyKey \in Keys
  BY KeysAssumption DEF AnyKey

\* Every step of JobAdmission keeps the types of its variables.
LEMMA TypeStep == TypeOK /\ [Next]_vars => TypeOK'
<1> SUFFICES ASSUME TypeOK, [Next]_vars PROVE TypeOK'
  OBVIOUS
<1> USE DEF TypeOK, Status, ActiveStatus, TerminalStatus, Kinds, rows, clients, vars
<1>1. ASSUME NEW c \in Clients, Client(c) PROVE TypeOK'
  <2>1. CASE \E k \in Keys, kd \in Kinds, j \in Jobs : Begin(c, k, kd, j)
    BY <2>1 DEF Begin, GoTo
  <2>2. CASE PreGuard(c)
    BY <2>2 DEF PreGuard, GoTo, Leave
  <2>3. CASE AcquireJobDedupLock(c)
    BY <2>3 DEF AcquireJobDedupLock, GoTo
  <2>4. CASE Guard(c)
    BY <2>4 DEF Guard, GoTo, Leave, Release
  <2>5. CASE Commit(c)
    <3>1. status' \in [Jobs -> Status]
      BY <2>5 DEF Commit
    <3>2. keyOf' \in [Jobs -> Keys] /\ gate' \in [Jobs -> BOOLEAN]
      BY <2>5 DEF Commit
    <3>3. items' \in [Jobs -> {"none", "open", "done"}]
      BY <2>5 DEF Commit
    <3>4. lock' \in [Locks -> Clients \cup {NoClient}]
      BY <2>5 DEF Commit, Release
    <3>5. pc' \in [Clients -> {"idle", "preguard", "lock", "guard", "commit",
                               "stream", "check", "enqueue"}]
          /\ mine' \in [Clients -> Jobs \cup {NoJob}]
      BY <2>5 DEF Commit, GoTo, Leave
    <3> QED BY <3>1, <3>2, <3>3, <3>4, <3>5, <2>5 DEF Commit
  <2>6. CASE StreamImport(c)
    <3>1. items' \in [Jobs -> {"none", "open", "done"}]
      BY <2>6 DEF StreamImport
    <3> QED BY <3>1, <2>6 DEF StreamImport, Leave, GoTo
  <2>8. CASE CheckImport(c)
    <3>1. status' \in [Jobs -> Status]
      BY <2>8 DEF CheckImport, Finalized
    <3>2. gate' \in [Jobs -> BOOLEAN]
      BY <2>8 DEF CheckImport
    <3> QED BY <3>1, <3>2, <2>8 DEF CheckImport, Leave, GoTo
  <2>7. CASE Enqueue(c)
    BY <2>7 DEF Enqueue, GoTo, Leave
  <2> QED BY <1>1, <2>1, <2>2, <2>3, <2>4, <2>5, <2>6, <2>8, <2>7 DEF Client
<1>2. ASSUME NEW j \in Jobs, Row(j) PROVE TypeOK'
  <2>1. CASE StartSync(j)
    <3>1. CASE RowExists(j)
      <4>1. status' \in [Jobs -> Status] /\ unguarded' \in SUBSET Jobs
        BY <2>1, <3>1 DEF StartSync, MarkProcessing
      <4>2. gate' \in [Jobs -> BOOLEAN]
        BY <2>1, <3>1 DEF StartSync
      <4>3. task' \in [Jobs -> {"none", "queued", "running", "returned"}]
        BY <2>1, <3>1 DEF StartSync
      <4> QED BY <4>1, <4>2, <4>3, <2>1 DEF StartSync
    <3>2. CASE ~RowExists(j)
      BY <2>1, <3>2 DEF StartSync
    <3> QED BY <3>1, <3>2
  <2>2. CASE StreamSync(j)
    BY <2>2 DEF StreamSync
  <2>3. CASE FinishSync(j)
    BY <2>3, ZenonT(60) DEF FinishSync, Finalized
  <2>4. CASE FailSync(j)
    BY <2>4 DEF FailSync
  <2>5. CASE Ack(j)
    BY <2>5 DEF Ack
  <2>6. CASE DispatchMaintenance(j)
    BY <2>6 DEF DispatchMaintenance, MarkProcessing, Finalized
  <2>7. CASE Drain(j)
    BY <2>7 DEF Drain, Finalized
  <2>8. CASE Cancel(j)
    BY <2>8 DEF Cancel
  <2>9. CASE CleanupStaleJobs(j)
    BY <2>9 DEF CleanupStaleJobs
  <2>10. CASE Delete(j)
    BY <2>10 DEF Delete
  <2>11. CASE RetryFailed(j)
    BY <2>11 DEF RetryFailed, MarkProcessing
  <2>12. CASE \E k \in Keys : Unskip(j, k)
    BY <2>12 DEF Unskip
  <2> QED BY <1>2, <2>1, <2>2, <2>3, <2>4, <2>5, <2>6, <2>7, <2>8, <2>9, <2>10,
             <2>11, <2>12 DEF Row
<1>3. CASE Crash
  BY <1>3 DEF Crash
<1>4. CASE UNCHANGED vars
  BY <1>4
<1> QED BY <1>1, <1>2, <1>3, <1>4 DEF Next

\* Type correctness of JobAdmission, for every instance.
THEOREM Typing == Spec => []TypeOK
<1>1. Init => TypeOK
  BY AnyKeyIsKey DEF Init, TypeOK, Status, Kinds
<1> QED BY <1>1, TypeStep, PTL DEF Spec

\* What happens to a row after its admission never makes it live: the writers
\* that set 'processing' without a guard mark what they revive.
LEMMA RowNoNewLive ==
  ASSUME TypeOK, NEW j \in Jobs, Row(j)
  PROVE  NoNewLive /\ UNCHANGED clients
<1> USE DEF TypeOK, NoNewLive, Live, Active, ActiveStatus, clients
<1>1. CASE StartSync(j)
  BY <1>1 DEF StartSync, MarkProcessing
<1>2. CASE StreamSync(j)
  BY <1>2 DEF StreamSync
<1>3. CASE FinishSync(j)
  BY <1>3 DEF FinishSync, Finalized
<1>4. CASE FailSync(j)
  BY <1>4 DEF FailSync
<1>5. CASE Ack(j)
  BY <1>5 DEF Ack
<1>6. CASE DispatchMaintenance(j)
  BY <1>6 DEF DispatchMaintenance, MarkProcessing, Finalized
<1>7. CASE Drain(j)
  BY <1>7 DEF Drain, Finalized
<1>8. CASE Cancel(j)
  BY <1>8 DEF Cancel
<1>9. CASE CleanupStaleJobs(j)
  BY <1>9 DEF CleanupStaleJobs
<1>10. CASE Delete(j)
  BY <1>10 DEF Delete, TerminalStatus
<1>11. CASE RetryFailed(j)
  BY <1>11 DEF RetryFailed, MarkProcessing
<1>12. CASE \E k \in Keys : Unskip(j, k)
  BY <1>12 DEF Unskip
<1> QED BY <1>1, <1>2, <1>3, <1>4, <1>5, <1>6, <1>7, <1>8, <1>9, <1>10, <1>11, <1>12
        DEF Row

\* A step that makes no row live keeps the two conjuncts about live rows, as
\* long as no client comes to the commit in it.
LEMMA QuietStep ==
  ASSUME IInv, NoNewLive,
         \A c \in Clients : pc'[c] = "commit" =>
             pc[c] = "commit" /\ kind'[c] = kind[c] /\ want'[c] = want[c]
  PROVE  ClearAhead' /\ AtMostOneGuarded'
<1>1. ClearAhead'
  BY DEF IInv, ClearAhead, NoNewLive, TakesLock
<1>2. AtMostOneGuarded'
  BY DEF IInv, AtMostOneGuarded, Exclusive, NoNewLive
<1> QED BY <1>1, <1>2

\* The strengthened invariant is inductive: one step per action.
LEMMA IInvStep == IInv /\ [Next]_vars => IInv'
<1> SUFFICES ASSUME IInv, [Next]_vars PROVE IInv'
  OBVIOUS
<1>0. TypeOK' /\ TypeOK
  BY TypeStep DEF IInv
<1>1. ASSUME NEW c \in Clients, Client(c)
      PROVE  HoldsLock' /\ KindFits' /\ ClearAhead' /\ AtMostOneGuarded'
  <2> USE <1>0 DEF TypeOK
  <2>1. CASE \E k \in Keys, kd \in Kinds, j \in Jobs : Begin(c, k, kd, j)
    <3>1. HoldsLock' /\ KindFits'
      BY <2>1 DEF IInv, HoldsLock, KindFits, TakesLock, Begin, GoTo
    <3>2. NoNewLive
      BY <2>1 DEF Begin, rows, NoNewLive, Live, Active
    <3>3. \A d \in Clients : pc'[d] = "commit" =>
             pc[d] = "commit" /\ kind'[d] = kind[d] /\ want'[d] = want[d]
      BY <2>1 DEF Begin, GoTo
    <3> QED BY <3>1, <3>2, <3>3, QuietStep
  <2>2. CASE PreGuard(c)
    <3>1. HoldsLock' /\ KindFits'
      BY <2>2 DEF IInv, HoldsLock, KindFits, PreGuard, GoTo, Leave
    <3>2. NoNewLive
      BY <2>2 DEF PreGuard, rows, NoNewLive, Live, Active
    <3>3. \A d \in Clients : pc'[d] = "commit" =>
             pc[d] = "commit" /\ kind'[d] = kind[d] /\ want'[d] = want[d]
      BY <2>2 DEF PreGuard, GoTo, Leave
    <3> QED BY <3>1, <3>2, <3>3, QuietStep
  <2>3. CASE AcquireJobDedupLock(c)
    <3>1. HoldsLock' /\ KindFits'
      BY <2>3, NullAssumption, LockAssumption
         DEF IInv, HoldsLock, KindFits, AcquireJobDedupLock, GoTo
    <3>2. NoNewLive
      BY <2>3 DEF AcquireJobDedupLock, rows, NoNewLive, Live, Active
    <3>3. \A d \in Clients : pc'[d] = "commit" =>
             pc[d] = "commit" /\ kind'[d] = kind[d] /\ want'[d] = want[d]
      BY <2>3 DEF AcquireJobDedupLock, GoTo
    <3> QED BY <3>1, <3>2, <3>3, QuietStep
  <2>4. CASE Guard(c)
    <3>1. HoldsLock' /\ KindFits'
      BY <2>4, LockAssumption
         DEF IInv, HoldsLock, KindFits, Guard, GoTo, Leave, Release
    <3>2. NoNewLive
      BY <2>4 DEF Guard, rows, NoNewLive, Live, Active
    <3>3. CASE Occupied(want[c])
      <4>1. \A d \in Clients : pc'[d] = "commit" =>
               pc[d] = "commit" /\ kind'[d] = kind[d] /\ want'[d] = want[d]
        BY <2>4, <3>3 DEF Guard, GoTo, Leave
      <4> QED BY <4>1, <3>1, <3>2, QuietStep
    <3>4. CASE ~Occupied(want[c])
      <4>1. ClearAhead'
        BY <2>4, <3>4, <3>2
           DEF IInv, ClearAhead, Guard, GoTo, Occupied, NoNewLive, Live
      <4>2. AtMostOneGuarded'
        BY <3>2 DEF IInv, AtMostOneGuarded, Exclusive, NoNewLive
      <4> QED BY <4>1, <4>2, <3>1
    <3> QED BY <3>3, <3>4
  <2>5. CASE Commit(c)
    <3> DEFINE j == mine[c]
    <3>1. HoldsLock'
      BY <2>5, LockAssumption
         DEF IInv, HoldsLock, Commit, GoTo, Leave, Release
    <3>2. KindFits'
      BY <2>5 DEF IInv, KindFits, Commit, GoTo, Leave
    <3>3. /\ unguarded' = unguarded /\ want' = want /\ kind' = kind
          /\ \A i \in Jobs : i # j => status'[i] = status[i] /\ keyOf'[i] = keyOf[i]
          /\ \A i \in Jobs : i = j => keyOf'[i] = want[c]
      BY <2>5 DEF Commit
    <3>4. \A i \in Jobs : i # j /\ Live(i)' => Live(i) /\ keyOf'[i] = keyOf[i]
      BY <3>3 DEF Live, Active
    <3>5. \A d \in Clients : pc'[d] = "commit" => pc[d] = "commit" /\ d # c
      BY <2>5 DEF Commit, GoTo, Leave
    <3>6. CASE TakesLock(kind[c])
      <4>1. lock[LockOf[want[c]]] = c
        BY <2>5, <3>6 DEF IInv, HoldsLock, Commit
      <4>2. \A d \in Clients : pc'[d] = "commit" /\ TakesLock(kind[d]) => want[d] # want[c]
        BY <4>1, <3>5 DEF IInv, HoldsLock
      <4>3. ClearAhead'
        BY <4>2, <3>3, <3>4, <3>5 DEF IInv, ClearAhead, TakesLock
      <4>4. \A i \in Jobs : ~(Live(i) /\ keyOf[i] = want[c])
        BY <2>5, <3>6 DEF IInv, ClearAhead, Commit
      <4>5. AtMostOneGuarded'
        BY <4>4, <3>3, <3>4 DEF IInv, AtMostOneGuarded, Exclusive
      <4> QED BY <3>1, <3>2, <4>3, <4>5
    <3>7. CASE ~TakesLock(kind[c])
      <4>1. ClassOf[want[c]] = "import"
        BY <2>5, <3>7, ClassAssumption
           DEF IInv, KindFits, KindsFor, Commit, TakesLock
      <4>2. \A d \in Clients : pc'[d] = "commit" /\ TakesLock(kind[d]) => want[d] # want[c]
        BY <4>1, <3>5 DEF IInv, KindFits, KindsFor, TakesLock
      <4>3. ClearAhead'
        BY <4>2, <3>3, <3>4, <3>5 DEF IInv, ClearAhead, TakesLock
      <4>4. AtMostOneGuarded'
        BY <4>1, <3>3, <3>4 DEF IInv, AtMostOneGuarded, Exclusive
      <4> QED BY <3>1, <3>2, <4>3, <4>4
    <3> QED BY <3>6, <3>7
  <2>6. CASE StreamImport(c)
    <3>1. HoldsLock' /\ KindFits'
      BY <2>6 DEF IInv, HoldsLock, KindFits, StreamImport, GoTo, Leave
    <3>2. NoNewLive
      BY <2>6 DEF StreamImport, NoNewLive, Live, Active
    <3>3. \A d \in Clients : pc'[d] = "commit" =>
             pc[d] = "commit" /\ kind'[d] = kind[d] /\ want'[d] = want[d]
      BY <2>6 DEF StreamImport, GoTo, Leave
    <3> QED BY <3>1, <3>2, <3>3, QuietStep
  <2>8. CASE CheckImport(c)
    <3>1. HoldsLock' /\ KindFits'
      BY <2>8 DEF IInv, HoldsLock, KindFits, CheckImport, GoTo, Leave
    <3>2. NoNewLive
      BY <2>8 DEF CheckImport, Finalized, NoNewLive, Live, Active, ActiveStatus
    <3>3. \A d \in Clients : pc'[d] = "commit" =>
             pc[d] = "commit" /\ kind'[d] = kind[d] /\ want'[d] = want[d]
      BY <2>8 DEF CheckImport, GoTo, Leave
    <3> QED BY <3>1, <3>2, <3>3, QuietStep
  <2>7. CASE Enqueue(c)
    <3>1. HoldsLock' /\ KindFits'
      BY <2>7 DEF IInv, HoldsLock, KindFits, Enqueue, GoTo, Leave
    <3>2. NoNewLive
      BY <2>7 DEF Enqueue, NoNewLive, Live, Active, ActiveStatus
    <3>3. \A d \in Clients : pc'[d] = "commit" =>
             pc[d] = "commit" /\ kind'[d] = kind[d] /\ want'[d] = want[d]
      BY <2>7 DEF Enqueue, GoTo, Leave
    <3> QED BY <3>1, <3>2, <3>3, QuietStep
  <2> QED BY <1>1, <2>1, <2>2, <2>3, <2>4, <2>5, <2>6, <2>8, <2>7 DEF Client
<1>2. ASSUME NEW j \in Jobs, Row(j)
      PROVE  HoldsLock' /\ KindFits' /\ ClearAhead' /\ AtMostOneGuarded'
  <2>1. NoNewLive /\ UNCHANGED clients
    BY <1>0, <1>2, RowNoNewLive
  <2>2. HoldsLock' /\ KindFits'
    BY <2>1 DEF IInv, HoldsLock, KindFits, clients
  <2>3. \A d \in Clients : pc'[d] = "commit" =>
           pc[d] = "commit" /\ kind'[d] = kind[d] /\ want'[d] = want[d]
    BY <2>1 DEF clients
  <2> QED BY <2>1, <2>2, <2>3, QuietStep
<1>3. CASE Crash
  <2>1. NoNewLive
    BY <1>3 DEF Crash, NoNewLive, Live, Active
  <2>2. \A d \in Clients : pc'[d] = "idle"
    BY <1>3 DEF Crash
  <2>3. HoldsLock' /\ KindFits'
    BY <2>2 DEF HoldsLock, KindFits
  <2> QED BY <1>0, <2>1, <2>2, <2>3, QuietStep DEF IInv
<1>4. CASE UNCHANGED vars
  BY <1>0, <1>4 DEF IInv, vars, rows, clients, HoldsLock, KindFits, ClearAhead,
                    AtMostOneGuarded, Exclusive, Live, Active
<1> QED BY <1>0, <1>1, <1>2, <1>3, <1>4 DEF Next, IInv

\* No two rows that came in through the locked guard are ever active on one
\* dedup key: HandleTriggerSync, CheckPendingSyncsWorker, startMaintenanceRefresh
\* and writeMaintenanceJobInTx in any number, and everything else at once.
THEOREM GuardedAdmission == Spec => []AtMostOneGuarded
<1>1. Init => IInv
  <2> SUFFICES ASSUME Init PROVE IInv
    OBVIOUS
  <2>1. TypeOK
    BY AnyKeyIsKey DEF Init, TypeOK, Status, Kinds
  <2>2. HoldsLock /\ KindFits /\ ClearAhead
    BY DEF Init, HoldsLock, KindFits, ClearAhead
  <2>3. AtMostOneGuarded
    BY DEF Init, AtMostOneGuarded, Exclusive, Live, Active, ActiveStatus
  <2> QED BY <2>1, <2>2, <2>3 DEF IInv
<1>2. IInv => AtMostOneGuarded
  BY DEF IInv
<1> QED BY <1>1, <1>2, IInvStep, PTL DEF Spec
=============================================================================
