------------------------------- MODULE AppState -------------------------------
(***************************************************************************)
(* What a nexorious server believes about its database, and who changes    *)
(* that belief: the startup, the database probe, and the migrations an     *)
(* administrator starts from the /migrate page, while `nexorious migrate`  *)
(* processes migrate the same database beside it.                          *)
(*                                                                         *)
(* The Migrator's fields are plain or atomic variables without a common    *)
(* lock, so a step here is about one load or store of them or one          *)
(* statement on the database; what a goroutine has read it keeps in "seen".*)
(*                                                                         *)
(* The environment takes the database away and brings it back, kills the   *)
(* server or a migrate process, and lets a migration fail, all without     *)
(* bound: the state space is finite anyway.                                *)
(***************************************************************************)
EXTENDS Naturals

CONSTANTS
    Probe,      \* the goroutine of the startup and of StartDBProbe
    Requests,   \* goroutines of the server's HTTP handlers
    Clis,       \* `nexorious migrate` processes
    Nobody      \* the holder of a mutex nobody holds

Handlers == {Probe} \cup Requests
Procs    == Handlers \cup Clis

ASSUME DistinctAssumption ==
    /\ Probe \notin Requests /\ Handlers \cap Clis = {} /\ Nobody \notin Procs

VARIABLES
    up,         \* the database can be reached
    schema,     \* which migrations the database has recorded
    baselines,  \* how often a baseline row was written to bun_migrations (history)
    locked,     \* the row of bun_migration_locks is there
    state,      \* Migrator.state
    prev,       \* Migrator.prevState
    needsSetup, \* Migrator.needsSetup
    bunMig,     \* Migrator.bunMig is set
    migrateMu,  \* holder of Migrator.migrateMu
    serving,    \* the startup is over: HTTP requests come in
    pc,         \* where each goroutine or process is
    seen        \* what it has read or how its migration ended, while it matters

database == <<up, schema, baselines, locked>>
migrator == <<state, prev, needsSetup, bunMig, migrateMu>>
local    == <<serving, pc, seen>>
vars     == <<database, migrator, local>>

AppStates == {"db_unavailable", "needs_migration", "migrating", "ready",
              "migration_failed", "needs_adopt", "migration_refused"}

\* No tables at all; the tables of the migrator only; exactly the v0.17.1
\* manifest; the baseline but not everything after it; all of it; anything else.
Schemas == {"fresh", "empty", "v0171", "behind", "current", "unknown"}

Labels == {"idle", "fall", "determine", "read", "store", "settle", "count", "handle",
           "run", "lock", "classify", "adopt", "apply", "unlock", "ready", "pending"}

\* determineState: classify, and whether Bun or River have anything unapplied.
Verdict(s) ==
    CASE s = "v0171"   -> "needs_adopt"
      [] s = "unknown" -> "migration_refused"
      [] s = "current" -> "ready"
      [] OTHER         -> "needs_migration"

TypeOK ==
    /\ up \in BOOLEAN /\ locked \in BOOLEAN
    /\ schema \in Schemas /\ baselines \in Nat
    /\ state \in AppStates /\ prev \in AppStates
    /\ needsSetup \in BOOLEAN /\ bunMig \in BOOLEAN /\ serving \in BOOLEAN
    /\ migrateMu \in Requests \cup {Nobody}
    /\ pc \in [Procs -> Labels]
    /\ seen \in [Procs -> AppStates]

Init ==
    /\ up \in BOOLEAN /\ schema \in Schemas \ {"empty"} /\ locked = FALSE
    /\ baselines = IF schema \in {"behind", "current"} THEN 1 ELSE 0
    /\ state = "db_unavailable" /\ prev = "db_unavailable"
    /\ needsSetup = FALSE /\ bunMig = FALSE /\ migrateMu = Nobody
    /\ serving = FALSE
    /\ pc = [p \in Procs |-> "idle"]
    /\ seen = [p \in Procs |-> "db_unavailable"]

---------------------------------------------------------------------------
\* On to the next step, knowing s, or with nothing worth knowing.
Knowing(p, label, s) == pc' = [pc EXCEPT ![p] = label] /\ seen' = [seen EXCEPT ![p] = s]
GoTo(p, label) == Knowing(p, label, "db_unavailable")
At(p, from, to) == pc[p] = from /\ GoTo(p, to)

\* A statement on the migrator's tables: they have to be there.
Works == up /\ schema # "fresh"

\* What a statement may leave behind: its effect, unless the connection was lost
\* first.  It succeeds for its caller when the database is up.
Effect(old, new) == IF up THEN {new} ELSE {old, new}

\* The migrations recorded become s; from an empty history that writes a baseline.
Record(s) ==
    /\ schema' = s
    /\ baselines' = IF schema = "empty" /\ s # "empty" THEN baselines + 1 ELSE baselines

---------------------------------------------------------------------------
(* The startup's ping and initAppState, and the ticks of StartDBProbe. *)

\* The ping fails: the probe remembers the state ...
PingFails ==
    /\ ~up /\ state # "db_unavailable"
    /\ At(Probe, "idle", "fall")
    /\ prev' = state
    /\ UNCHANGED <<database, state, needsSetup, bunMig, migrateMu, serving>>

\* ... and overwrites it.
Fall ==
    /\ At(Probe, "fall", "idle")
    /\ state' = "db_unavailable"
    /\ UNCHANGED <<database, prev, needsSetup, bunMig, migrateMu, serving>>

\* The startup's only ping fails: the server serves all the same.
StartWithout ==
    /\ ~up /\ ~serving /\ pc[Probe] = "idle"
    /\ serving' = TRUE
    /\ UNCHANGED <<database, migrator, pc, seen>>

\* Mutant: recovery is forgotten for a database lost during a migration.
RecoverSettled ==
    /\ up /\ state = "db_unavailable" /\ prev # "migrating"
    /\ At(Probe, "idle", "determine")
    /\ bunMig' = (bunMig /\ prev \in {"db_unavailable", "migrating"})
    /\ UNCHANGED <<database, state, prev, needsSetup, migrateMu, serving>>

\* The ping answers and the state says the database is away: recoverFromUnavailable,
\* whose default case begins with a Bun migrator it is going to build anew.  The
\* startup is the same with prev still at its first value.
Recover ==
    /\ up /\ state = "db_unavailable"
    /\ At(Probe, "idle", "determine")
    /\ bunMig' = (bunMig /\ prev \in {"db_unavailable", "migrating"})
    /\ UNCHANGED <<database, state, prev, needsSetup, migrateMu, serving>>

\* A caller of determineState that is through with it.  The startup then serves.
Rest(p) ==
    /\ GoTo(p, "idle")
    /\ serving' = (serving \/ p = Probe)

\* determineState: the first call builds the Bun migrator and its tables, any later
\* one relies on them.  A migrate process always makes the first call.
Determine(p) ==
    /\ pc[p] = "determine"
    /\ IF p \in Handlers /\ bunMig
       THEN GoTo(p, "read") /\ UNCHANGED <<schema, serving>>
       ELSE /\ schema' \in Effect(schema, IF schema = "fresh" THEN "empty" ELSE schema)
            /\ IF up THEN GoTo(p, "read") /\ UNCHANGED serving ELSE Rest(p)
    /\ bunMig' = (bunMig \/ p \in Handlers)
    /\ UNCHANGED <<up, baselines, locked, state, prev, needsSetup, migrateMu>>

\* Its queries.  A migrate process goes on or exits by what it sees.
Read(p) ==
    /\ pc[p] = "read"
    /\ IF ~Works \/ (p \in Clis /\ Verdict(schema) \in {"ready", "migration_refused"})
       THEN Rest(p)
       ELSE /\ Knowing(p, IF p \in Handlers THEN "store" ELSE "lock", Verdict(schema))
            /\ UNCHANGED serving
    /\ UNCHANGED <<database, migrator>>

\* Its verdict, whatever has become of the state meanwhile.
Store(p) ==
    /\ pc[p] = "store"
    /\ state' = seen[p]
    /\ GoTo(p, IF p = Probe THEN "settle" ELSE "idle")
    /\ UNCHANGED <<database, prev, needsSetup, bunMig, migrateMu, serving>>

\* initAppState asks for users when the state is ready; recovery of a ready server
\* asks again when setup was still open.
Settle ==
    /\ pc[Probe] = "settle"
    /\ IF \/ prev = "db_unavailable" /\ state = "ready"
          \/ prev = "ready" /\ needsSetup
       THEN GoTo(Probe, "count") /\ UNCHANGED serving
       ELSE Rest(Probe)
    /\ UNCHANGED <<database, migrator>>

\* InitNeedsSetup asks whether there are users; when it fails, each caller has its
\* own way out.
Count(p) ==
    /\ pc[p] = "count"
    /\ IF up
       THEN needsSetup' \in BOOLEAN /\ UNCHANGED state
       ELSE /\ state' = IF p # Probe THEN "migration_failed"
                        ELSE IF prev = "ready" THEN "db_unavailable" ELSE state
            /\ UNCHANGED needsSetup
    /\ IF p # Probe /\ up THEN GoTo(p, "ready") /\ UNCHANGED serving ELSE Rest(p)
    /\ UNCHANGED <<database, prev, bunMig, migrateMu>>

---------------------------------------------------------------------------
(* What requests do with it. *)

\* The gates let a request for a migrate route through by the state they see.
Arrive(r) ==
    /\ serving /\ state # "db_unavailable"
    /\ \/ At(r, "idle", "handle")
       \/ At(r, "idle", "pending")
    /\ UNCHANGED <<database, migrator, serving>>

\* PendingCount, for the migrate page: determineState when the Bun migrator is gone.
PendingCount(r) ==
    /\ pc[r] = "pending"
    /\ GoTo(r, IF bunMig THEN "idle" ELSE "determine")
    /\ UNCHANGED <<database, migrator, serving>>

\* HandleRun looks at the state again and starts a goroutine, or refuses.
HandleRun(r) ==
    /\ pc[r] = "handle"
    /\ GoTo(r, IF state \in {"migrating", "ready", "migration_refused"} THEN "idle" ELSE "run")
    /\ UNCHANGED <<database, migrator, serving>>

---------------------------------------------------------------------------
(* RunMigrations, of a request or of a migrate process (whose Migrator is its   *)
(* own, so that only the database matters).                                     *)

\* TransitionToFailed and its like, for a server's run; deferred calls follow.
End(p, label, s) ==
    /\ Knowing(p, label, s)
    /\ state' = IF p \in Requests THEN s ELSE state

StartRun(r) ==
    /\ pc[r] = "run" /\ migrateMu = Nobody
    /\ IF state = "migrating"
       THEN GoTo(r, "idle") /\ UNCHANGED <<state, migrateMu>>
       ELSE GoTo(r, "lock") /\ state' = "migrating" /\ migrateMu' = r
    /\ UNCHANGED <<database, prev, needsSetup, bunMig, serving>>

Unlocked(p) == migrateMu' = IF migrateMu = p THEN Nobody ELSE migrateMu

\* Using the Bun migrator while the probe has taken it away is a nil dereference.
HasBun(p) == p \in Clis \/ bunMig

\* Mutant: a lock that cannot be had ends the run without a word.
BunLockSilent(p) ==
    /\ pc[p] = "lock" /\ HasBun(p)
    /\ IF Works /\ ~locked
       THEN /\ locked' = TRUE /\ Knowing(p, "classify", seen[p])
            /\ UNCHANGED <<state, migrateMu>>
       ELSE /\ locked' \in (IF Works THEN {locked} ELSE {locked, locked \/ schema # "fresh"})
            /\ GoTo(p, "idle") /\ Unlocked(p) /\ UNCHANGED state
    /\ UNCHANGED <<up, schema, baselines, prev, needsSetup, bunMig, serving>>

\* bunMig.Lock inserts a row that must not be there yet; a run that fails here has
\* no Unlock to defer, even when its row got in.
BunLock(p) ==
    /\ pc[p] = "lock" /\ HasBun(p)
    /\ IF Works /\ ~locked
       THEN /\ locked' = TRUE /\ Knowing(p, "classify", seen[p])
            /\ UNCHANGED <<state, migrateMu>>
       ELSE /\ locked' \in (IF Works THEN {locked} ELSE {locked, locked \/ schema # "fresh"})
            /\ GoTo(p, "idle") /\ Unlocked(p)
            /\ state' = IF p \in Requests THEN "migration_failed" ELSE state
    /\ UNCHANGED <<up, schema, baselines, prev, needsSetup, bunMig, serving>>

\* Mutant: a migrate process trusts what it saw before it had the lock.
ClassifyEarly(p) ==
    /\ pc[p] = "classify" /\ HasBun(p)
    /\ IF ~up \/ schema = "unknown"
       THEN End(p, "unlock", IF up THEN "migration_refused" ELSE "migration_failed")
       ELSE /\ GoTo(p, IF schema = "v0171" \/ (p \in Clis /\ seen[p] = "needs_adopt")
                       THEN "adopt" ELSE "apply")
            /\ UNCHANGED state
    /\ UNCHANGED <<database, prev, needsSetup, bunMig, migrateMu, serving>>

\* Under the lock the history is classified again.
Classify(p) ==
    /\ pc[p] = "classify" /\ HasBun(p)
    /\ IF ~up \/ schema = "unknown"
       THEN End(p, "unlock", IF up THEN "migration_refused" ELSE "migration_failed")
       ELSE /\ GoTo(p, IF schema = "v0171" THEN "adopt" ELSE "apply")
            /\ UNCHANGED state
    /\ UNCHANGED <<database, prev, needsSetup, bunMig, migrateMu, serving>>

\* adopt: one transaction that replaces the manifest by the baseline row.
Adopt(p) ==
    /\ pc[p] = "adopt"
    /\ \/ schema' = "behind" /\ baselines' = baselines + 1
       \/ ~up /\ UNCHANGED <<schema, baselines>>
    /\ IF up THEN GoTo(p, "apply") /\ UNCHANGED state
       ELSE End(p, "unlock", "migration_failed")
    /\ UNCHANGED <<up, locked, prev, needsSetup, bunMig, migrateMu, serving>>

\* bunMig.Migrate and River's migrations; any of them may fail, the ones before it
\* are recorded.
Apply(p) ==
    /\ pc[p] = "apply" /\ HasBun(p)
    /\ \/ /\ up /\ Record("current")
          /\ Knowing(p, "unlock", "ready") /\ UNCHANGED state
       \/ /\ \E s \in {schema, "behind", "current"} :
                 (schema = "current" => s = "current") /\ Record(s)
          /\ End(p, "unlock", "migration_failed")
    /\ UNCHANGED <<up, locked, prev, needsSetup, bunMig, migrateMu, serving>>

\* Mutant: HandleRun's goroutine ignores the error of RunMigrations.
UnlockAnyway(p) ==
    /\ pc[p] = "unlock"
    /\ locked' \in Effect(locked, FALSE)
    /\ Unlocked(p)
    /\ GoTo(p, IF p \in Requests THEN "count" ELSE "idle")
    /\ UNCHANGED <<up, schema, baselines, state, prev, needsSetup, bunMig, serving>>

\* The deferred bunMig.Unlock, whose error nobody looks at, and the mutex.  After a
\* failed run the goroutine returns; after a good one it asks for users.
Unlock(p) ==
    /\ pc[p] = "unlock"
    /\ locked' \in Effect(locked, FALSE)
    /\ Unlocked(p)
    /\ GoTo(p, IF p \in Requests /\ seen[p] = "ready" THEN "count" ELSE "idle")
    /\ UNCHANGED <<up, schema, baselines, state, prev, needsSetup, bunMig, serving>>

TransitionToReady(r) ==
    /\ At(r, "ready", "idle")
    /\ state' = "ready"
    /\ UNCHANGED <<database, prev, needsSetup, bunMig, migrateMu, serving>>

\* runMigrate; waitForDB has seen an answer.
StartCli(c) ==
    /\ up
    /\ At(c, "idle", "determine")
    /\ UNCHANGED <<database, migrator, serving>>

---------------------------------------------------------------------------
(* What befalls them. *)

ConnectionChanges ==
    /\ up' = ~up
    /\ UNCHANGED <<schema, baselines, locked, migrator, local>>

\* The server's memory is gone, and the next process starts.
Restart ==
    /\ state' = "db_unavailable" /\ prev' = "db_unavailable"
    /\ needsSetup' = FALSE /\ bunMig' = FALSE /\ migrateMu' = Nobody
    /\ serving' = FALSE
    /\ pc' = [p \in Procs |-> IF p \in Handlers THEN "idle" ELSE pc[p]]
    /\ seen' = [p \in Procs |-> IF p \in Handlers THEN "db_unavailable" ELSE seen[p]]
    /\ UNCHANGED <<up, schema, baselines>>

Crash == Restart /\ UNCHANGED locked

\* The panic of a goroutine runs its deferred Unlock and takes the server with it.
Panic(r) ==
    /\ pc[r] \in {"lock", "classify", "apply"} /\ ~HasBun(r)
    /\ locked' \in IF pc[r] = "lock" THEN {locked} ELSE Effect(locked, FALSE)
    /\ Restart

\* A migrate process is killed; a signal is as bad, the deferred Unlock being given
\* the context it cancels.
KillCli(c) ==
    /\ pc[c] # "idle"
    /\ GoTo(c, "idle")
    /\ UNCHANGED <<database, migrator, serving>>

---------------------------------------------------------------------------
Migration(p) == BunLock(p) \/ Classify(p) \/ Adopt(p) \/ Apply(p) \/ Unlock(p)

ProbeStep ==
    \/ Fall \/ StartWithout \/ Recover \/ Settle
    \/ Determine(Probe) \/ Read(Probe) \/ Store(Probe)
    \/ Count(Probe)

RequestStep(r) ==
    \/ PendingCount(r) \/ HandleRun(r)
    \/ StartRun(r) \/ Migration(r) \/ Count(r) \/ TransitionToReady(r)
    \/ Determine(r) \/ Read(r) \/ Store(r)

CliStep(c) == Determine(c) \/ Read(c) \/ Migration(c)

Next ==
    \/ PingFails \/ ProbeStep
    \/ \E r \in Requests : Arrive(r) \/ RequestStep(r) \/ Panic(r)
    \/ \E c \in Clis : StartCli(c) \/ CliStep(c) \/ KillCli(c)
    \/ ConnectionChanges \/ Crash

Spec == Init /\ [][Next]_vars

\* Goroutines and processes that run go on; the probe keeps ticking.
Fairness ==
    /\ WF_vars(ProbeStep)
    /\ \A r \in Requests : WF_vars(RequestStep(r))
    /\ \A c \in Clis : WF_vars(CliStep(c))

FairSpec == Spec /\ Fairness

---------------------------------------------------------------------------
(* What is promised. *)

\* "Until the schema is up to date, the server gates every route other than the
\* migration page": the gates open on "ready", and however late a verdict of
\* determineState is stored, however often a migration is started, lost or
\* killed, and whoever else migrates, the state is "ready" only when the schema is.
ReadyIsCurrent == state = "ready" => schema = "current"

\* "Re-classify UNDER the lock: a concurrently-booting instance may have already
\* adopted": however many servers' requests and migrate processes saw a v0.17.1
\* history, only one of them writes the baseline row.
AdoptedOnce == baselines <= 1

\* No run leaves the server in "migrating", where HandleRun refuses every new one.
MigrationSettles == state = "migrating" ~> state # "migrating"

\* The database is there for good, and the server does not die any more.
Calm == <>[]up /\ <>[][~Crash /\ \A r \in Requests : ~Panic(r)]_vars

\* "Recovery complete": once a database whose migrator tables exist is back for
\* good, the probe takes the server out of "database unavailable".
Recovers ==
    Calm => (state = "db_unavailable" /\ schema # "fresh" ~> state # "db_unavailable")

\* The startup relies on the same of any database: "single ping, no retry
\* (StartDBProbe handles retries)".  When the connection is lost between the first
\* ping and the creation of the migrator's tables, nobody creates them later.
ProbeRetries == Calm => (state = "db_unavailable" ~> state # "db_unavailable")
=============================================================================
