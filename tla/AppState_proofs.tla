---------------------------- MODULE AppState_proofs ----------------------------
(***************************************************************************)
(* Theorems about AppState, for any number of requests and of migrate      *)
(* processes: the server's state is "ready" only over a current schema,    *)
(* and a v0.17.1 history is adopted at most once.                          *)
(*                                                                         *)
(* Both rest on one inductive invariant.  It says who may change the       *)
(* recorded migrations (Alone: one process at a time, with the lock row in *)
(* place), what that process may find recorded at each of its steps        *)
(* (Finds), and that a verdict "ready" on its way into Migrator.state is   *)
(* about a schema that cannot go back (Earned).                            *)
(***************************************************************************)
EXTENDS AppState, TLAPS

\* The steps of RunMigrations between bunMig.Lock and bunMig.Unlock.
Critical == {"classify", "adopt", "apply", "unlock"}

Alone ==
    /\ \A p \in Procs : pc[p] \in Critical => locked
    /\ \A p, q \in Procs : pc[p] \in Critical /\ pc[q] \in Critical => p = q

Finds ==
    \A p \in Procs :
        /\ pc[p] = "classify" => schema # "fresh"
        /\ pc[p] = "adopt" => schema = "v0171"
        /\ pc[p] = "apply" => schema \in {"empty", "behind", "current"}

Earned ==
    \A p \in Procs :
        \/ pc[p] \in {"store", "unlock"} /\ seen[p] = "ready"
        \/ p \in Requests /\ pc[p] \in {"count", "ready"}
        => schema = "current"

Counted == baselines = IF schema \in {"behind", "current"} THEN 1 ELSE 0

IInv == TypeOK /\ Alone /\ Finds /\ Earned /\ Counted /\ ReadyIsCurrent

---------------------------------------------------------------------------
LEMMA InitTypes == Init => TypeOK
PROOF
  <1> SUFFICES ASSUME Init PROVE TypeOK
    OBVIOUS
  <1>1. /\ up \in BOOLEAN /\ locked \in BOOLEAN /\ schema \in Schemas
        /\ state \in AppStates /\ prev \in AppStates
        /\ needsSetup \in BOOLEAN /\ bunMig \in BOOLEAN /\ serving \in BOOLEAN
        /\ migrateMu \in Requests \cup {Nobody}
    BY DEF Init, AppStates
  <1>2. baselines \in Nat
    BY DEF Init
  <1>3. pc \in [Procs -> Labels] /\ seen \in [Procs -> AppStates]
    BY DEF Init, Labels, AppStates
  <1> QED BY <1>1, <1>2, <1>3 DEF TypeOK

\* A step of one process changes its own place only.
LEMMA KnowingTypes ==
  ASSUME TypeOK, NEW p \in Procs, NEW label \in Labels, NEW s \in AppStates,
         Knowing(p, label, s)
  PROVE  /\ pc' \in [Procs -> Labels] /\ seen' \in [Procs -> AppStates]
         /\ pc'[p] = label /\ seen'[p] = s
         /\ \A q \in Procs \ {p} : pc'[q] = pc[q] /\ seen'[q] = seen[q]
  BY DEF TypeOK, Knowing

LEMMA GoToTypes ==
  ASSUME TypeOK, NEW p \in Procs, NEW label \in Labels, GoTo(p, label)
  PROVE  /\ pc' \in [Procs -> Labels] /\ seen' \in [Procs -> AppStates]
         /\ pc'[p] = label /\ seen'[p] = "db_unavailable"
         /\ \A q \in Procs \ {p} : pc'[q] = pc[q] /\ seen'[q] = seen[q]
  BY KnowingTypes DEF GoTo, AppStates

LEMMA VerdictType == \A s \in Schemas : Verdict(s) \in AppStates
  BY DEF Verdict, AppStates

LEMMA VerdictReady == \A s \in Schemas : Verdict(s) = "ready" => s = "current"
  BY DEF Verdict, Schemas

\* Nothing but an unprotected step of the probe, a request or a process outside
\* RunMigrations' lock: the recorded migrations stay, p gets a new place.
LEMMA Outside ==
  ASSUME IInv, NEW p \in Procs, NEW label \in Labels \ Critical, NEW s \in AppStates,
         Knowing(p, label, s),
         UNCHANGED <<schema, baselines>>,
         locked' = locked \/ locked' = TRUE \/ pc[p] \in Critical,
         label = "store" /\ s = "ready" => schema = "current",
         p \in Requests /\ label \in {"count", "ready"} => schema = "current"
  PROVE  Alone' /\ Finds' /\ Earned' /\ Counted'
PROOF
  <1> TypeOK /\ Alone /\ Finds /\ Earned /\ Counted
    BY DEF IInv
  <1>1. /\ pc'[p] = label /\ seen'[p] = s
        /\ \A q \in Procs \ {p} : pc'[q] = pc[q] /\ seen'[q] = seen[q]
    BY KnowingTypes
  <1>2. Alone'
    BY <1>1 DEF Alone, TypeOK
  <1>3. Finds' /\ Counted'
    BY <1>1 DEF Finds, Counted, Critical
  <1>4. Earned'
    BY <1>1 DEF Earned, Critical
  <1> QED BY <1>2, <1>3, <1>4

LEMMA InitInvariant == Init => IInv
PROOF
  <1> SUFFICES ASSUME Init PROVE IInv
    OBVIOUS
  <1>1. TypeOK
    BY InitTypes
  <1>2. \A p \in Procs : pc[p] = "idle"
    BY DEF Init
  <1>3. Alone /\ Finds /\ Earned
    BY <1>2 DEF Alone, Finds, Earned, Critical
  <1>4. Counted /\ ReadyIsCurrent
    BY DEF Init, Counted, ReadyIsCurrent
  <1> QED BY <1>1, <1>3, <1>4 DEF IInv

---------------------------------------------------------------------------
(* The steps that leave the recorded migrations alone and forget what was read. *)

LEMMA Quiet ==
  ASSUME IInv, NEW p \in Procs, NEW label \in Labels \ Critical,
         GoTo(p, label), UNCHANGED <<schema, baselines>>,
         locked' = locked \/ locked' = TRUE \/ pc[p] \in Critical,
         label \notin {"count", "ready"} \/ schema = "current" \/ p \notin Requests
  PROVE  Alone' /\ Finds' /\ Earned' /\ Counted'
  BY Outside DEF GoTo, AppStates

LEMMA ProbeSteps ==
  ASSUME IInv, PingFails \/ Fall \/ StartWithout \/ Recover \/ Settle
  PROVE  IInv'
PROOF
  <1> TypeOK /\ Alone /\ Finds /\ Earned /\ Counted /\ ReadyIsCurrent
    BY DEF IInv
  <1> Probe \in Procs /\ Probe \notin Requests
    BY DistinctAssumption DEF Procs, Handlers
  <1>1. CASE PingFails
    <2>1. GoTo(Probe, "fall") /\ UNCHANGED <<schema, baselines, locked, state>>
      BY <1>1 DEF PingFails, At, database
    <2>2. Alone' /\ Finds' /\ Earned' /\ Counted'
      BY <2>1, Quiet DEF Labels, Critical
    <2>3. TypeOK'
      BY <1>1, <2>1, GoToTypes DEF PingFails, TypeOK, Labels, database
    <2> QED BY <2>1, <2>2, <2>3 DEF IInv, ReadyIsCurrent
  <1>2. CASE Fall
    <2>1. GoTo(Probe, "idle") /\ UNCHANGED <<schema, baselines, locked>>
      BY <1>2 DEF Fall, At, database
    <2>2. Alone' /\ Finds' /\ Earned' /\ Counted'
      BY <2>1, Quiet DEF Labels, Critical
    <2>3. TypeOK'
      BY <1>2, <2>1, GoToTypes DEF Fall, TypeOK, Labels, AppStates, database
    <2>4. ReadyIsCurrent'
      BY <1>2 DEF Fall, ReadyIsCurrent
    <2> QED BY <2>2, <2>3, <2>4 DEF IInv
  <1>3. CASE StartWithout
    BY <1>3 DEF StartWithout, IInv, TypeOK, Alone, Finds, Earned, Counted, ReadyIsCurrent,
                database, migrator
  <1>4. CASE Recover
    <2>1. GoTo(Probe, "determine") /\ UNCHANGED <<schema, baselines, locked, state>>
      BY <1>4 DEF Recover, At, database
    <2>2. Alone' /\ Finds' /\ Earned' /\ Counted'
      BY <2>1, Quiet DEF Labels, Critical
    <2>3. TypeOK'
      BY <1>4, <2>1, GoToTypes DEF Recover, TypeOK, Labels, database
    <2> QED BY <2>1, <2>2, <2>3 DEF IInv, ReadyIsCurrent
  <1>5. CASE Settle
    <2>1. PICK label \in {"count", "idle"} :
            GoTo(Probe, label) /\ serving' \in BOOLEAN
      BY <1>5 DEF Settle, Rest, TypeOK
    <2>2. UNCHANGED <<up, schema, baselines, locked>>
          /\ UNCHANGED <<state, prev, needsSetup, bunMig, migrateMu>>
      BY <1>5 DEF Settle, database, migrator
    <2>3. Alone' /\ Finds' /\ Earned' /\ Counted'
      BY <2>1, <2>2, Quiet DEF Labels, Critical
    <2>4. TypeOK'
      BY <2>1, <2>2, GoToTypes DEF TypeOK, Labels
    <2> QED BY <2>2, <2>3, <2>4 DEF IInv, ReadyIsCurrent
  <1> QED BY <1>1, <1>2, <1>3, <1>4, <1>5

---------------------------------------------------------------------------
(* determineState and InitNeedsSetup, whoever calls them. *)

LEMMA DetermineStep ==
  ASSUME IInv, NEW p \in Procs, Determine(p)
  PROVE  IInv'
PROOF
  <1> TypeOK /\ Alone /\ Finds /\ Earned /\ Counted /\ ReadyIsCurrent
    BY DEF IInv
  <1>1. PICK label \in {"read", "idle"} : GoTo(p, label)
    BY DEF Determine, Rest
  <1>2. UNCHANGED <<up, baselines, locked, state, prev, needsSetup, migrateMu>>
        /\ bunMig' \in BOOLEAN /\ serving' \in BOOLEAN
    BY DEF Determine, Rest, TypeOK
  <1>3. schema' = schema \/ (schema = "fresh" /\ schema' = "empty")
    BY DEF Determine, Effect
  <1>4. TypeOK'
    BY <1>1, <1>2, <1>3, GoToTypes DEF TypeOK, Labels, Schemas
  <1>5. /\ pc'[p] = label
        /\ \A q \in Procs \ {p} : pc'[q] = pc[q] /\ seen'[q] = seen[q]
    BY <1>1, GoToTypes DEF Labels
  <1>6. Alone' /\ Earned'
    BY <1>2, <1>3, <1>5 DEF Alone, Earned, Critical
  <1>7. Finds'
    BY <1>3, <1>5 DEF Finds
  <1>8. Counted' /\ ReadyIsCurrent'
    BY <1>2, <1>3 DEF Counted, ReadyIsCurrent
  <1> QED BY <1>4, <1>6, <1>7, <1>8 DEF IInv

LEMMA ReadStep ==
  ASSUME IInv, NEW p \in Procs, Read(p)
  PROVE  IInv'
PROOF
  <1> TypeOK /\ Alone /\ Finds /\ Earned /\ Counted /\ ReadyIsCurrent
    BY DEF IInv
  <1>1. UNCHANGED <<up, schema, baselines, locked>>
        /\ UNCHANGED <<state, prev, needsSetup, bunMig, migrateMu>>
    BY DEF Read, database, migrator
  <1>2. serving' \in BOOLEAN
    BY DEF Read, Rest, TypeOK
  <1>3. PICK label \in {"idle", "store", "lock"}, s \in AppStates :
          Knowing(p, label, s) /\ (label = "store" => s = Verdict(schema))
    <2>1. CASE GoTo(p, "idle")
      BY <2>1 DEF GoTo, AppStates
    <2>2. CASE Knowing(p, IF p \in Handlers THEN "store" ELSE "lock", Verdict(schema))
      BY <2>2, VerdictType DEF TypeOK
    <2> QED BY <2>1, <2>2 DEF Read, Rest
  <1>4. label = "store" /\ s = "ready" => schema = "current"
    BY <1>3, VerdictReady DEF TypeOK
  <1>5. Alone' /\ Finds' /\ Earned' /\ Counted'
    BY <1>1, <1>3, <1>4, Outside DEF Labels, Critical
  <1>6. TypeOK'
    BY <1>1, <1>2, <1>3, KnowingTypes DEF TypeOK, Labels
  <1> QED BY <1>1, <1>5, <1>6 DEF IInv, ReadyIsCurrent

LEMMA StoreStep ==
  ASSUME IInv, NEW p \in Procs, Store(p)
  PROVE  IInv'
PROOF
  <1> TypeOK /\ Alone /\ Finds /\ Earned /\ Counted /\ ReadyIsCurrent
    BY DEF IInv
  <1>1. UNCHANGED <<up, schema, baselines, locked>>
        /\ UNCHANGED <<prev, needsSetup, bunMig, migrateMu, serving>>
        /\ pc[p] = "store" /\ state' = seen[p]
    BY DEF Store, database
  <1>2. PICK label \in {"idle", "settle"} : GoTo(p, label)
    BY DEF Store
  <1>3. Alone' /\ Finds' /\ Earned' /\ Counted'
    BY <1>1, <1>2, Quiet DEF Labels, Critical
  <1>4. TypeOK'
    BY <1>1, <1>2, GoToTypes DEF TypeOK, Labels
  <1>5. ReadyIsCurrent'
    BY <1>1 DEF ReadyIsCurrent, Earned
  <1> QED BY <1>3, <1>4, <1>5 DEF IInv

LEMMA CountStep ==
  ASSUME IInv, NEW p \in Handlers, Count(p)
  PROVE  IInv'
PROOF
  <1> TypeOK /\ Alone /\ Finds /\ Earned /\ Counted /\ ReadyIsCurrent
    BY DEF IInv
  <1>0. p \in Procs /\ (p # Probe => p \in Requests)
    BY DEF Procs, Handlers
  <1>1. UNCHANGED <<up, schema, baselines, locked, prev, bunMig, migrateMu>>
        /\ pc[p] = "count"
    BY DEF Count, database
  <1>2. /\ needsSetup' \in BOOLEAN /\ serving' \in BOOLEAN
        /\ state' \in {state, "migration_failed", "db_unavailable"}
    BY DEF Count, Rest, TypeOK
  <1>3. PICK label \in {"idle", "ready"} :
          GoTo(p, label) /\ (label = "ready" => p # Probe)
    BY DEF Count, Rest
  <1>4. label = "ready" => schema = "current"
    BY <1>0, <1>1, <1>3 DEF Earned
  <1>5. Alone' /\ Finds' /\ Earned' /\ Counted'
    BY <1>0, <1>1, <1>3, <1>4, Quiet DEF Labels, Critical
  <1>6. TypeOK'
    BY <1>0, <1>1, <1>2, <1>3, GoToTypes DEF TypeOK, Labels, AppStates
  <1> QED BY <1>1, <1>2, <1>5, <1>6 DEF IInv, ReadyIsCurrent

---------------------------------------------------------------------------
(* Requests and migrate processes outside the lock. *)

LEMMA RequestSteps ==
  ASSUME IInv, NEW r \in Requests,
         Arrive(r) \/ PendingCount(r) \/ HandleRun(r) \/ StartRun(r)
  PROVE  IInv'
PROOF
  <1> TypeOK /\ Alone /\ Finds /\ Earned /\ Counted /\ ReadyIsCurrent
    BY DEF IInv
  <1> r \in Procs
    BY DEF Procs, Handlers
  <1>1. UNCHANGED <<up, schema, baselines, locked>>
        /\ UNCHANGED <<prev, needsSetup, bunMig, serving>>
    BY DEF Arrive, PendingCount, HandleRun, StartRun, database, migrator
  <1>2. state' \in {state, "migrating"} /\ migrateMu' \in {migrateMu, r}
    BY DEF Arrive, PendingCount, HandleRun, StartRun, migrator
  <1>3. PICK label \in {"idle", "handle", "pending", "determine", "run", "lock"} :
          GoTo(r, label)
    BY DEF Arrive, PendingCount, HandleRun, StartRun, At
  <1>4. Alone' /\ Finds' /\ Earned' /\ Counted'
    BY <1>1, <1>3, Quiet DEF Labels, Critical
  <1>5. TypeOK'
    BY <1>1, <1>2, <1>3, GoToTypes DEF TypeOK, Labels, AppStates
  <1> QED BY <1>1, <1>2, <1>4, <1>5 DEF IInv, ReadyIsCurrent

LEMMA ReadyStep ==
  ASSUME IInv, NEW r \in Requests, TransitionToReady(r)
  PROVE  IInv'
PROOF
  <1> TypeOK /\ Alone /\ Finds /\ Earned /\ Counted /\ ReadyIsCurrent
    BY DEF IInv
  <1>1. r \in Procs /\ pc[r] = "ready" /\ GoTo(r, "idle") /\ state' = "ready"
    BY DEF TransitionToReady, At, Procs, Handlers
  <1>2. UNCHANGED <<up, schema, baselines, locked>>
        /\ UNCHANGED <<prev, needsSetup, bunMig, migrateMu, serving>>
    BY DEF TransitionToReady, database
  <1>3. schema = "current"
    BY <1>1 DEF Earned
  <1>4. Alone' /\ Finds' /\ Earned' /\ Counted'
    BY <1>1, <1>2, Quiet DEF Labels, Critical
  <1>5. TypeOK'
    BY <1>1, <1>2, GoToTypes DEF TypeOK, Labels, AppStates
  <1> QED BY <1>2, <1>3, <1>4, <1>5 DEF IInv, ReadyIsCurrent

LEMMA CliSteps ==
  ASSUME IInv, NEW c \in Clis, StartCli(c) \/ KillCli(c)
  PROVE  IInv'
PROOF
  <1> TypeOK /\ Alone /\ Finds /\ Earned /\ Counted /\ ReadyIsCurrent
    BY DEF IInv
  <1>1. UNCHANGED <<up, schema, baselines, locked>>
        /\ UNCHANGED <<state, prev, needsSetup, bunMig, migrateMu, serving>>
    BY DEF StartCli, KillCli, database, migrator
  <1>2. PICK label \in {"idle", "determine"} : GoTo(c, label)
    BY DEF StartCli, KillCli, At
  <1>3. c \in Procs
    BY DEF Procs
  <1>4. Alone' /\ Finds' /\ Earned' /\ Counted'
    BY <1>1, <1>2, <1>3, Quiet DEF Labels, Critical
  <1>5. TypeOK'
    BY <1>1, <1>2, <1>3, GoToTypes DEF TypeOK, Labels
  <1> QED BY <1>1, <1>4, <1>5 DEF IInv, ReadyIsCurrent

---------------------------------------------------------------------------
(* RunMigrations under the lock. *)

LEMMA UnlockedType ==
  ASSUME TypeOK, NEW p \in Procs, Unlocked(p)
  PROVE  migrateMu' \in Requests \cup {Nobody}
  BY DEF Unlocked, TypeOK

LEMMA BunLockStep ==
  ASSUME IInv, NEW p \in Procs, BunLock(p)
  PROVE  IInv'
PROOF
  <1> TypeOK /\ Alone /\ Finds /\ Earned /\ Counted /\ ReadyIsCurrent
    BY DEF IInv
  <1>1. UNCHANGED <<up, schema, baselines, prev, needsSetup, bunMig, serving>>
        /\ pc[p] = "lock"
    BY DEF BunLock
  <1>2. CASE Works /\ ~locked
    <2>1. locked' = TRUE /\ Knowing(p, "classify", seen[p]) /\ UNCHANGED <<state, migrateMu>>
      BY <1>2 DEF BunLock
    <2>2. /\ pc'[p] = "classify" /\ pc' \in [Procs -> Labels] /\ seen' \in [Procs -> AppStates]
          /\ \A q \in Procs \ {p} : pc'[q] = pc[q] /\ seen'[q] = seen[q]
      BY <2>1, KnowingTypes DEF TypeOK, Labels
    <2>3. \A q \in Procs : pc[q] \notin Critical
      BY <1>2 DEF Alone
    <2>4. Alone'
      BY <2>1, <2>2, <2>3 DEF Alone
    <2>5. Finds'
      BY <1>1, <1>2, <2>2 DEF Finds, Works
    <2>6. Earned'
      BY <1>1, <2>2 DEF Earned
    <2>7. TypeOK' /\ Counted' /\ ReadyIsCurrent'
      BY <1>1, <2>1, <2>2 DEF TypeOK, Counted, ReadyIsCurrent
    <2> QED BY <2>4, <2>5, <2>6, <2>7 DEF IInv
  <1>3. CASE ~(Works /\ ~locked)
    <2>1. GoTo(p, "idle") /\ Unlocked(p) /\ state' \in {"migration_failed", state}
      BY <1>3 DEF BunLock
    <2>2. locked' = locked \/ locked' = TRUE
      BY <1>3 DEF BunLock, Works, TypeOK
    <2>3. Alone' /\ Finds' /\ Earned' /\ Counted'
      <3>1. PICK label \in {"idle"} : GoTo(p, label)
        BY <2>1
      <3>2. label \in Labels \ Critical /\ label \notin {"count", "ready"}
        BY DEF Labels, Critical
      <3> QED BY <1>1, <2>2, <3>1, <3>2, Quiet
    <2>4. pc' \in [Procs -> Labels] /\ seen' \in [Procs -> AppStates]
      BY <2>1, GoToTypes DEF Labels
    <2>5. locked' \in BOOLEAN /\ migrateMu' \in Requests \cup {Nobody}
      BY <2>1, <2>2, UnlockedType DEF TypeOK
    <2>6. TypeOK'
      BY <1>1, <2>1, <2>4, <2>5 DEF TypeOK, AppStates
    <2> QED BY <1>1, <2>1, <2>3, <2>6 DEF IInv, ReadyIsCurrent
  <1> QED BY <1>2, <1>3

LEMMA UnlockStep ==
  ASSUME IInv, NEW p \in Procs, Unlock(p)
  PROVE  IInv'
PROOF
  <1> TypeOK /\ Alone /\ Finds /\ Earned /\ Counted /\ ReadyIsCurrent
    BY DEF IInv
  <1>1. UNCHANGED <<up, schema, baselines, state, prev, needsSetup, bunMig, serving>>
        /\ pc[p] = "unlock" /\ Unlocked(p)
    BY DEF Unlock
  <1>2. locked' \in BOOLEAN
    BY DEF Unlock, Effect, TypeOK
  <1>3. PICK label \in {"count", "idle"} :
          GoTo(p, label) /\ (label = "count" => seen[p] = "ready")
    BY DEF Unlock
  <1>4. label = "count" => schema = "current"
    BY <1>1, <1>3 DEF Earned
  <1>5. Alone' /\ Finds' /\ Earned' /\ Counted'
    <2>1. label \in Labels \ Critical /\ pc[p] \in Critical
      BY <1>1 DEF Labels, Critical
    <2> QED BY <1>1, <1>3, <1>4, <2>1, Quiet
  <1>6. TypeOK'
    BY <1>1, <1>2, <1>3, GoToTypes, UnlockedType DEF TypeOK, Labels
  <1> QED BY <1>1, <1>5, <1>6 DEF IInv, ReadyIsCurrent

\* A step of the process that holds the lock, to another step under it.
LEMMA Inside ==
  ASSUME IInv, NEW p \in Procs, pc[p] \in Critical,
         NEW label \in Critical, NEW s \in AppStates, Knowing(p, label, s),
         UNCHANGED locked,
         schema = "current" => schema' = "current",
         label = "adopt" => schema' = "v0171",
         label = "apply" => schema' \in {"empty", "behind", "current"},
         label = "classify" => schema' # "fresh",
         label = "unlock" /\ s = "ready" => schema' = "current"
  PROVE  Alone' /\ Finds' /\ Earned'
PROOF
  <1> TypeOK /\ Alone /\ Finds /\ Earned
    BY DEF IInv
  <1>1. /\ pc'[p] = label /\ seen'[p] = s
        /\ \A q \in Procs \ {p} : pc'[q] = pc[q] /\ seen'[q] = seen[q]
    BY KnowingTypes DEF Critical, Labels
  <1>2. \A q \in Procs \ {p} : pc[q] \notin Critical
    BY DEF Alone
  <1>3. Alone'
    BY <1>1, <1>2 DEF Alone
  <1>4. Finds'
    BY <1>1, <1>2 DEF Finds, Critical
  <1>5. Earned'
    BY <1>1, <1>2 DEF Earned, Critical
  <1> QED BY <1>3, <1>4, <1>5

LEMMA ClassifyStep ==
  ASSUME IInv, NEW p \in Procs, Classify(p)
  PROVE  IInv'
PROOF
  <1> TypeOK /\ Alone /\ Finds /\ Earned /\ Counted /\ ReadyIsCurrent
    BY DEF IInv
  <1>1. /\ UNCHANGED <<up, schema, baselines, locked>>
        /\ UNCHANGED <<prev, needsSetup, bunMig, migrateMu, serving>>
        /\ pc[p] = "classify"
    BY DEF Classify, database
  <1>2. state' \in {state, "migration_refused", "migration_failed"}
    BY DEF Classify, End
  <1>3. PICK label \in {"adopt", "apply", "unlock"}, s \in AppStates \ {"ready"} :
          /\ Knowing(p, label, s)
          /\ label = "adopt" => schema = "v0171"
          /\ label = "apply" => schema \notin {"v0171", "unknown"}
    BY DEF Classify, End, GoTo, AppStates
  <1>4. label = "apply" => schema \in {"empty", "behind", "current"}
    BY <1>1, <1>3 DEF Finds, TypeOK, Schemas
  <1>5. Alone' /\ Finds' /\ Earned'
    BY <1>1, <1>3, <1>4, Inside DEF Critical
  <1>6. TypeOK' /\ Counted' /\ ReadyIsCurrent'
    <2>1. pc' \in [Procs -> Labels] /\ seen' \in [Procs -> AppStates]
      BY <1>3, KnowingTypes DEF Labels
    <2> QED BY <1>1, <1>2, <2>1 DEF TypeOK, AppStates, Counted, ReadyIsCurrent
  <1> QED BY <1>5, <1>6 DEF IInv

LEMMA AdoptStep ==
  ASSUME IInv, NEW p \in Procs, Adopt(p)
  PROVE  IInv'
PROOF
  <1> TypeOK /\ Alone /\ Finds /\ Earned /\ Counted /\ ReadyIsCurrent
    BY DEF IInv
  <1>1. /\ UNCHANGED <<up, locked, prev, needsSetup, bunMig, migrateMu, serving>>
        /\ pc[p] = "adopt"
    BY DEF Adopt
  <1>2. schema = "v0171" /\ baselines = 0
    BY <1>1 DEF Finds, Counted
  <1>3. PICK label \in {"apply", "unlock"}, s \in AppStates \ {"ready"} :
          Knowing(p, label, s) /\ (label = "apply" => up)
    BY DEF Adopt, End, GoTo, AppStates
  <1>4. /\ state' \in {state, "migration_failed"}
        /\ \/ schema' = "behind" /\ baselines' = 1
           \/ ~up /\ schema' = schema /\ baselines' = baselines
    BY <1>2 DEF Adopt, End
  <1>5. Alone' /\ Finds' /\ Earned'
    BY <1>1, <1>2, <1>3, <1>4, Inside DEF Critical
  <1>6. TypeOK' /\ Counted' /\ ReadyIsCurrent'
    <2>1. pc' \in [Procs -> Labels] /\ seen' \in [Procs -> AppStates]
      BY <1>3, KnowingTypes DEF Labels
    <2> QED BY <1>1, <1>2, <1>4, <2>1
         DEF TypeOK, AppStates, Schemas, Counted, ReadyIsCurrent
  <1> QED BY <1>5, <1>6 DEF IInv

LEMMA ApplyStep ==
  ASSUME IInv, NEW p \in Procs, Apply(p)
  PROVE  IInv'
PROOF
  <1> TypeOK /\ Alone /\ Finds /\ Earned /\ Counted /\ ReadyIsCurrent
    BY DEF IInv
  <1>1. /\ UNCHANGED <<up, locked, prev, needsSetup, bunMig, migrateMu, serving>>
        /\ pc[p] = "apply"
    BY DEF Apply
  <1>2. schema \in {"empty", "behind", "current"}
    BY <1>1 DEF Finds
  <1>3. PICK s \in {schema, "behind", "current"}, v \in {"ready", "migration_failed"} :
          /\ Record(s) /\ Knowing(p, "unlock", v)
          /\ schema = "current" => s = "current"
          /\ v = "ready" => s = "current"
          /\ state' \in {state, "migration_failed"}
    BY DEF Apply, End
  <1>4. schema' = s /\ baselines' = IF s = "empty" THEN 0 ELSE 1
    BY <1>2, <1>3 DEF Record, Counted
  <1>5. Alone' /\ Finds' /\ Earned'
    BY <1>1, <1>3, <1>4, Inside DEF Critical, AppStates
  <1>6. TypeOK' /\ Counted' /\ ReadyIsCurrent'
    <2>1. pc' \in [Procs -> Labels] /\ seen' \in [Procs -> AppStates]
      BY <1>3, KnowingTypes DEF Labels, AppStates
    <2> QED BY <1>1, <1>2, <1>3, <1>4, <2>1
         DEF TypeOK, AppStates, Schemas, Counted, ReadyIsCurrent
  <1> QED BY <1>5, <1>6 DEF IInv

---------------------------------------------------------------------------
(* What befalls them. *)

\* A server that ends takes its goroutines with it; the lock row stays unless the
\* goroutine that held it took it away.
LEMMA RestartStep ==
  ASSUME IInv, Restart,
         \/ locked' = locked
         \/ locked' \in BOOLEAN /\ \E r \in Requests : pc[r] \in Critical
  PROVE  IInv'
PROOF
  <1> TypeOK /\ Alone /\ Finds /\ Earned /\ Counted /\ ReadyIsCurrent
    BY DEF IInv
  <1>1. \A p \in Procs : \/ pc'[p] = "idle"
                         \/ p \notin Handlers /\ pc'[p] = pc[p] /\ seen'[p] = seen[p]
    BY DEF Restart
  <1>2. UNCHANGED <<up, schema, baselines>> /\ state' = "db_unavailable"
    BY DEF Restart
  <1>3. Alone'
    <2>1. CASE locked' = locked
      BY <1>1, <2>1 DEF Alone, Critical
    <2>2. CASE \E r \in Requests : pc[r] \in Critical
      <3>1. \A p \in Procs : pc'[p] \notin Critical
        BY <1>1, <2>2 DEF Alone, Critical, Procs, Handlers
      <3> QED BY <3>1 DEF Alone
    <2> QED BY <2>1, <2>2
  <1>4. Finds' /\ Earned'
    BY <1>1, <1>2 DEF Finds, Earned
  <1>5. Counted' /\ ReadyIsCurrent'
    BY <1>2 DEF Counted, ReadyIsCurrent
  <1>6. TypeOK'
    <2>1. pc' \in [Procs -> Labels] /\ seen' \in [Procs -> AppStates]
      BY DEF Restart, TypeOK, Labels, AppStates
    <2> QED BY <2>1 DEF Restart, TypeOK, AppStates
  <1> QED BY <1>3, <1>4, <1>5, <1>6 DEF IInv

LEMMA PanicStep ==
  ASSUME IInv, NEW r \in Requests, Panic(r)
  PROVE  IInv'
PROOF
  <1> TypeOK
    BY DEF IInv
  <1>1. CASE pc[r] = "lock"
    BY <1>1, RestartStep DEF Panic
  <1>2. CASE pc[r] \in {"classify", "apply"}
    <2>1. locked' \in BOOLEAN /\ pc[r] \in Critical
      BY <1>2 DEF Panic, Effect, TypeOK, Critical
    <2> QED BY <2>1, RestartStep DEF Panic
  <1> QED BY <1>1, <1>2 DEF Panic

LEMMA ConnectionStep ==
  ASSUME IInv, ConnectionChanges
  PROVE  IInv'
  BY DEF ConnectionChanges, IInv, TypeOK, Alone, Finds, Earned, Counted, ReadyIsCurrent,
         migrator, local

---------------------------------------------------------------------------
LEMMA MigrationStep ==
  ASSUME IInv, NEW p \in Procs, Migration(p)
  PROVE  IInv'
  BY BunLockStep, ClassifyStep, AdoptStep, ApplyStep, UnlockStep DEF Migration

LEMMA NextInvariant == IInv /\ [Next]_vars => IInv'
PROOF
  <1> SUFFICES ASSUME IInv, [Next]_vars PROVE IInv'
    OBVIOUS
  <1>1. CASE PingFails \/ ProbeStep
    <2>1. Probe \in Procs /\ Probe \in Handlers
      BY DEF Procs, Handlers
    <2> QED BY <1>1, <2>1, ProbeSteps, DetermineStep, ReadStep, StoreStep, CountStep
            DEF ProbeStep
  <1>2. ASSUME NEW r \in Requests, Arrive(r) \/ RequestStep(r) \/ Panic(r)
        PROVE  IInv'
    <2>1. r \in Procs /\ r \in Handlers
      BY DEF Procs, Handlers
    <2> QED BY <1>2, <2>1, RequestSteps, MigrationStep, CountStep, ReadyStep,
               DetermineStep, ReadStep, StoreStep, PanicStep
            DEF RequestStep
  <1>3. ASSUME NEW c \in Clis, StartCli(c) \/ CliStep(c) \/ KillCli(c)
        PROVE  IInv'
    <2>1. c \in Procs
      BY DEF Procs
    <2> QED BY <1>3, <2>1, CliSteps, DetermineStep, ReadStep, MigrationStep DEF CliStep
  <1>4. CASE ConnectionChanges
    BY <1>4, ConnectionStep
  <1>5. CASE Crash
    BY <1>5, RestartStep DEF Crash
  <1>6. CASE UNCHANGED vars
    BY <1>6 DEF vars, database, migrator, local, IInv, TypeOK, Alone, Finds, Earned,
                Counted, ReadyIsCurrent
  <1> QED BY <1>1, <1>2, <1>3, <1>4, <1>5, <1>6 DEF Next

THEOREM Inductive == Spec => []IInv
  BY InitInvariant, NextInvariant, PTL DEF Spec

\* Every variable keeps its type, with any number of requests and processes.
THEOREM AppTyping == Spec => []TypeOK
  BY Inductive, PTL DEF IInv

\* The gates never open over a schema that is not up to date: through lost
\* connections, crashes, panics, failed migrations and migrate processes beside it.
THEOREM GatesOverCurrent == Spec => []ReadyIsCurrent
  BY Inductive, PTL DEF IInv

\* However many servers' requests and migrate processes saw a v0.17.1 history, at
\* most one baseline row is written: re-classifying under the lock is enough.
THEOREM SingleAdoption == Spec => []AdoptedOnce
PROOF
  <1>1. IInv => AdoptedOnce
    BY DEF IInv, Counted, AdoptedOnce
  <1> QED BY <1>1, Inductive, PTL
=============================================================================
