------------------------------- MODULE Restore -------------------------------
(***************************************************************************)
(* Backups of the database and their restoration (internal/backup).  An    *)
(* archive is named for the second in which it was written.  One mutex     *)
(* guards backups and restores, but a restore lets go of it to take its    *)
(* own pre-restore backup, and retention and deletion never hold it.       *)
(* Cover art follows the database and is left out.                         *)
(***************************************************************************)
EXTENDS Integers, FiniteSets, FiniteSetsExt, Functions

CONSTANTS
    Admins,          \* operations that may be under way at once
    MaxSecond,       \* bound on the clock
    MaxEdits,        \* bound on the versions of the data
    MaxBackups,      \* bound on the operations started
    MaxBackupFaults  \* bound on failing commands and deaths of the server

ASSUME RestoreAssumption ==
    /\ IsFiniteSet(Admins) /\ 0 \notin Admins
    /\ {MaxSecond, MaxEdits, MaxBackups, MaxBackupFaults} \subseteq Nat

VARIABLES
    bkDb,      \* version of the data; 0: no users yet, Broken: not a whole database
    bkFiles,   \* the backup directory: archives by the second in their name
    bkClock,
    bkDump,    \* pgDumpAvailable
    bkLock,    \* holder of Service.mu, 0 when free
    bkMaint,   \* maintenanceMode
    bkOps,     \* the operations
    bkEdits, bkStarted, bkFaults,  \* bounds reached so far
    bkMixed    \* the restore overlapped another, began on or was cut short over a broken
               \* database, was asked for the archive of one, or took its backup in the
               \* second it is named for (history)

backupVars == <<bkDb, bkFiles, bkClock, bkDump, bkLock, bkMaint, bkOps,
                bkEdits, bkStarted, bkFaults, bkMixed>>

Broken == -1

Archive(data, type, made, whole) ==
    [data |-> data, type |-> type, made |-> made, whole |-> whole, aged |-> FALSE]

\* id: the archive restored; pre: the pre-restore backup, 0 for none; name: the archive
\* being written; got: data dumped or extracted; asked, before: data of the archive and of
\* the database when the restore began; doomed: what retention is about to delete.
OpIdle == [pc |-> "idle", id |-> 0, pre |-> 0, name |-> 0, got |-> 0, asked |-> 0,
           before |-> 0, out |-> "", doomed |-> {}]

RestoreInit ==
    /\ bkDb \in {0, 1} /\ bkDump \in BOOLEAN
    /\ bkFiles = [n \in {0} |-> Archive(1, "manual", 0, TRUE)]
    /\ bkClock = 1 /\ bkLock = 0 /\ bkMaint = FALSE
    /\ bkOps = [a \in Admins |-> OpIdle]
    /\ bkEdits = 0 /\ bkStarted = 0 /\ bkFaults = 0 /\ bkMixed = FALSE

At(a, pcs)  == bkOps[a].pc \in pcs
Restoring(a) == ~At(a, {"idle", "dump", "write", "retain", "delete"})
Put(n, arc) == [m \in DOMAIN bkFiles \cup {n} |-> IF m = n THEN arc ELSE bkFiles[m]]
Whole(n)    == n \in DOMAIN bkFiles /\ bkFiles[n].whole
WithoutFiles(N)  == Restrict(bkFiles, DOMAIN bkFiles \ N)
Step(a, to) == bkOps' = [bkOps EXCEPT ![a].pc = to]
Ended(a, out) == bkOps' = [bkOps EXCEPT ![a].pc = "idle", ![a].out = out]
CommandFails  == bkFaults < MaxBackupFaults /\ bkFaults' = bkFaults + 1
Started(a)    == At(a, {"idle"}) /\ bkStarted < MaxBackups /\ bkStarted' = bkStarted + 1

---------------------------------------------------------------------------
(* Creating backups. *)

\* A held mutex is ErrOperationInProgress, and nothing happens.
CreateBackup(a) ==
    /\ bkLock = 0
    /\ bkLock' = a
    /\ bkOps' = [bkOps EXCEPT ![a] = [OpIdle EXCEPT !.pc = "dump", !.name = bkClock]]
    /\ UNCHANGED <<bkDb, bkFiles, bkClock, bkDump, bkMaint, bkEdits, bkFaults, bkMixed>>

HandleCreateBackup(a) == bkDump /\ Started(a) /\ CreateBackup(a)

\* The schedule is looked up in the database, where an edit or a restore may change it: it
\* may be due at any time.
CheckScheduledBackup(a) == bkDump /\ bkDb # Broken /\ Started(a) /\ CreateBackup(a)

\* pg_dump; a failure ends a backup, while a restore goes on without one.
RunPgDump(a) ==
    /\ At(a, {"dump", "predump"})
    /\ \/ /\ bkOps' = [bkOps EXCEPT ![a].got = bkDb,
                        ![a].pc = IF @ = "dump" THEN "write" ELSE "prewrite"]
          /\ UNCHANGED <<bkLock, bkFaults>>
       \/ /\ CommandFails
          /\ bkLock' = 0
          /\ IF At(a, {"dump"}) THEN Ended(a, "failed") ELSE Step(a, "relock")
    /\ UNCHANGED <<bkDb, bkFiles, bkClock, bkDump, bkMaint, bkEdits, bkStarted, bkMixed>>

\* createTarGz truncates what has the same name; a failure leaves a partial archive.
CreateTarGz(a) ==
    /\ At(a, {"write", "prewrite"})
    /\ LET op    == bkOps[a]
           plain == op.pc = "write"
           type  == IF plain THEN "manual" ELSE "pre_restore"
       IN  \/ /\ bkFiles' = Put(op.name, Archive(op.got, type, op.name, TRUE))
              /\ bkOps' = [bkOps EXCEPT ![a].pc = IF plain THEN "retain" ELSE "relock",
                                        ![a].pre = IF plain THEN 0 ELSE op.name]
              /\ UNCHANGED bkFaults
           \/ /\ CommandFails
              /\ bkFiles' = Put(op.name, Archive(op.got, type, op.name, FALSE))
              /\ IF plain THEN Ended(a, "failed") ELSE Step(a, "relock")
    /\ bkLock' = 0
    /\ UNCHANGED <<bkDb, bkClock, bkDump, bkMaint, bkEdits, bkStarted, bkMixed>>

\* ApplyRetention lists by the manifests: an upload counts from when it was first made.
ApplyRetention(a) ==
    /\ At(a, {"retain"})
    /\ LET pres  == {n \in DOMAIN bkFiles : bkFiles[n].type = "pre_restore"}
           rest  == DOMAIN bkFiles \ pres
           Aged(N) == {n \in N : bkFiles[n].aged}
       IN  \E doomed \in SUBSET rest :
             /\ \/ doomed = Aged(rest)
                \/ /\ Cardinality(rest \ doomed) <= 1 /\ rest \ doomed # {}
                   /\ \A n \in doomed, m \in rest \ doomed : bkFiles[n].made <= bkFiles[m].made
             /\ bkOps' = [bkOps EXCEPT ![a].pc = "delete", ![a].doomed = doomed \cup Aged(pres)]
    /\ UNCHANGED <<bkDb, bkFiles, bkClock, bkDump, bkLock, bkMaint, bkEdits, bkStarted, bkFaults, bkMixed>>

DeleteDoomed(a) ==
    /\ At(a, {"delete"})
    /\ bkFiles' = WithoutFiles(bkOps[a].doomed)
    /\ bkOps' = [bkOps EXCEPT ![a] = [OpIdle EXCEPT !.out = "ok"]]
    /\ UNCHANGED <<bkDb, bkClock, bkDump, bkLock, bkMaint, bkEdits, bkStarted, bkFaults, bkMixed>>

\* At any time, in maintenance too.
HandleDeleteBackup(n) ==
    /\ n \in DOMAIN bkFiles /\ bkStarted < MaxBackups
    /\ bkStarted' = bkStarted + 1
    /\ bkFiles' = WithoutFiles({n})
    /\ UNCHANGED <<bkDb, bkClock, bkDump, bkLock, bkMaint, bkOps, bkEdits, bkFaults, bkMixed>>

---------------------------------------------------------------------------
(* Restoring. *)

\* doRestore to where it unlocks for the pre-restore backup, which the setup restores skip,
\* and every restore without pg_dump.
BeginRestore(a, n, data, skip) ==
    /\ Started(a) /\ bkLock = 0
    /\ bkMaint' = TRUE
    /\ bkLock' = IF skip THEN a ELSE 0
    /\ bkOps' = [bkOps EXCEPT ![a] = [OpIdle EXCEPT !.pc = IF skip THEN "extract" ELSE "pre",
                    !.id = n, !.asked = data, !.before = bkDb]]
    /\ bkMixed' = (bkDb = Broken \/ data = Broken \/ \E b \in Admins : Restoring(b))
    /\ UNCHANGED <<bkDb, bkClock, bkDump, bkEdits, bkFaults>>

\* The manifest and the name of the dump are looked at, not the checksums.
HandleRestore(a, n) ==
    /\ n \in DOMAIN bkFiles
    /\ BeginRestore(a, n, bkFiles[n].data, ~bkDump)
    /\ UNCHANGED bkFiles

\* The upload is checked to the last byte, then named for the current second.
RestoreFromUpload(a, data, skip) ==
    /\ bkFiles' = Put(bkClock, Archive(data, "manual", 0, TRUE))
    /\ BeginRestore(a, bkClock, data, skip)

HandleRestoreUpload(a) == bkDb # 0 /\ RestoreFromUpload(a, 1, ~bkDump)

\* requireNoUsers answers 403 when there are users, and returns nil: both go on over any
\* data, and as during setup without a backup of it.
HandleSetupRestore(a) == RestoreFromUpload(a, 1, TRUE)

HandleSetupRestoreFromDisk(a, n) ==
    /\ Whole(n)
    /\ BeginRestore(a, n, bkFiles[n].data, TRUE)
    /\ UNCHANGED bkFiles

\* CreateBackup("pre_restore"); if another operation has the mutex, go on without.
PreRestore(a) ==
    /\ At(a, {"pre"})
    /\ IF bkLock = 0
         THEN /\ bkLock' = a
              /\ bkOps' = [bkOps EXCEPT ![a].pc = "predump", ![a].name = bkClock]
         ELSE Step(a, "relock") /\ UNCHANGED bkLock
    /\ bkMixed' = (bkMixed \/ bkClock = bkOps[a].id)
    /\ UNCHANGED <<bkDb, bkFiles, bkClock, bkDump, bkMaint, bkEdits, bkStarted, bkFaults>>

\* Mutant: the mutex is not taken back.
RelockNever(a) ==
    /\ At(a, {"relock"})
    /\ Step(a, "extract")
    /\ UNCHANGED <<bkDb, bkFiles, bkClock, bkDump, bkLock, bkMaint, bkEdits, bkStarted, bkFaults, bkMixed>>

Relock(a) ==
    /\ At(a, {"relock"}) /\ bkLock = 0
    /\ bkLock' = a
    /\ Step(a, "extract")
    /\ UNCHANGED <<bkDb, bkFiles, bkClock, bkDump, bkMaint, bkEdits, bkStarted, bkFaults, bkMixed>>

\* The rollback failed or there is nothing to roll back to: db_unavailable, in maintenance.
GiveUp(a) == Ended(a, "down") /\ bkLock' = 0 /\ UNCHANGED bkMaint

\* Mutant: maintenance ends on every way out.
FailAndOpen(a) ==
    IF bkOps[a].pre # 0 /\ At(a, {"extract", "drop", "load"})
      THEN Step(a, "rollback") /\ UNCHANGED <<bkLock, bkMaint>>
      ELSE Ended(a, "down") /\ bkLock' = 0 /\ bkMaint' = FALSE

\* handleRestoreFailure.
Fail(a) ==
    IF bkOps[a].pre # 0 /\ At(a, {"extract", "drop", "load"})
      THEN Step(a, "rollback") /\ UNCHANGED <<bkLock, bkMaint>>
      ELSE GiveUp(a)

ExtractTarGz(a) ==
    /\ At(a, {"extract"})
    /\ LET n == bkOps[a].id
       IN  \/ /\ Whole(n)
              /\ bkOps' = [bkOps EXCEPT ![a].pc = "drop", ![a].got = bkFiles[n].data]
              /\ UNCHANGED <<bkLock, bkMaint, bkFaults>>
           \/ /\ ~Whole(n)
              /\ Fail(a) /\ UNCHANGED bkFaults
           \/ CommandFails /\ Fail(a)
    /\ UNCHANGED <<bkDb, bkFiles, bkClock, bkDump, bkEdits, bkStarted, bkMixed>>

\* Mutant: what the failed restore had extracted is loaded again.
RollbackSameDir(a) ==
    /\ At(a, {"rollback"})
    /\ IF bkOps[a].pre \in DOMAIN bkFiles
         THEN Step(a, "redrop") /\ UNCHANGED <<bkLock, bkMaint>>
         ELSE GiveUp(a)
    /\ UNCHANGED <<bkDb, bkFiles, bkClock, bkDump, bkEdits, bkStarted, bkFaults, bkMixed>>

Rollback(a) ==
    /\ At(a, {"rollback"})
    /\ LET n == bkOps[a].pre
       IN  IF Whole(n)
             THEN /\ bkOps' = [bkOps EXCEPT ![a].pc = "redrop", ![a].got = bkFiles[n].data]
                  /\ UNCHANGED <<bkLock, bkMaint>>
             ELSE GiveUp(a)
    /\ UNCHANGED <<bkDb, bkFiles, bkClock, bkDump, bkEdits, bkStarted, bkFaults, bkMixed>>

\* applyRestoreFromDir, terminating connections and dropping the schema.
DropSchema(a) ==
    /\ At(a, {"drop", "redrop"})
    /\ \/ /\ bkDb' = Broken
          /\ Step(a, IF At(a, {"drop"}) THEN "load" ELSE "reload")
          /\ UNCHANGED <<bkLock, bkMaint, bkFaults>>
       \/ CommandFails /\ Fail(a) /\ UNCHANGED bkDb
    /\ UNCHANGED <<bkFiles, bkClock, bkDump, bkEdits, bkStarted, bkMixed>>

\* RunPsqlFile, then the pool and the services are built again.
LoadDump(a) ==
    /\ At(a, {"load", "reload"})
    /\ \/ /\ bkDb' = bkOps[a].got
          /\ Step(a, IF At(a, {"load"}) THEN "finish" ELSE "refinish")
          /\ UNCHANGED <<bkLock, bkMaint, bkFaults>>
       \/ CommandFails /\ Fail(a) /\ UNCHANGED bkDb
    /\ UNCHANGED <<bkFiles, bkClock, bkDump, bkEdits, bkStarted, bkMixed>>

EndRestore(a) ==
    /\ At(a, {"finish", "refinish"})
    /\ bkMaint' = FALSE /\ bkLock' = 0
    /\ Ended(a, IF At(a, {"finish"}) THEN "ok" ELSE "rolledback")
    /\ UNCHANGED <<bkDb, bkFiles, bkClock, bkDump, bkEdits, bkStarted, bkFaults, bkMixed>>

---------------------------------------------------------------------------
(* The surroundings. *)

\* Requests write while there is no maintenance, background jobs at any time: the
\* callbacks that should stop the pool and the scheduler do nothing.
EditData ==
    /\ bkDb # Broken /\ bkEdits < MaxEdits
    /\ bkEdits' = bkEdits + 1
    /\ bkDb' = bkEdits + 2
    /\ UNCHANGED <<bkFiles, bkClock, bkDump, bkLock, bkMaint, bkOps, bkStarted, bkFaults, bkMixed>>

Tick ==
    /\ bkClock < MaxSecond
    /\ bkClock' = bkClock + 1
    /\ UNCHANGED <<bkDb, bkFiles, bkDump, bkLock, bkMaint, bkOps, bkEdits, bkStarted, bkFaults, bkMixed>>

\* Days pass.
DaysPass ==
    /\ \A a \in Admins : At(a, {"idle"})
    /\ \E n \in DOMAIN bkFiles : ~bkFiles[n].aged
    /\ bkFiles' = [n \in DOMAIN bkFiles |-> [bkFiles[n] EXCEPT !.aged = TRUE]]
    /\ UNCHANGED <<bkDb, bkClock, bkDump, bkLock, bkMaint, bkOps, bkEdits, bkStarted, bkFaults, bkMixed>>

\* The server dies and is started again; an archive being written stays partial.
BackupCrash ==
    /\ CommandFails
    /\ \E a \in Admins : ~At(a, {"idle"})
    /\ bkOps' = [a \in Admins |-> OpIdle]
    /\ bkLock' = 0 /\ bkMaint' = FALSE
    /\ LET writing == {a \in Admins : At(a, {"write", "prewrite"})}
       IN  bkFiles' = IF writing = {} THEN bkFiles
                      ELSE LET op == bkOps[CHOOSE a \in writing : TRUE]
                           IN  Put(op.name, Archive(op.got, "manual", op.name, FALSE))
    /\ bkMixed' = (bkMixed \/ bkDb = Broken)
    /\ UNCHANGED <<bkDb, bkClock, bkDump, bkEdits, bkStarted>>

RestoreNext ==
    \/ \E a \in Admins :
          \/ HandleCreateBackup(a) \/ CheckScheduledBackup(a)
          \/ RunPgDump(a) \/ CreateTarGz(a) \/ ApplyRetention(a) \/ DeleteDoomed(a)
          \/ HandleRestoreUpload(a) \/ HandleSetupRestore(a)
          \/ \E n \in DOMAIN bkFiles : HandleRestore(a, n) \/ HandleSetupRestoreFromDisk(a, n)
          \/ PreRestore(a) \/ Relock(a) \/ ExtractTarGz(a) \/ Rollback(a)
          \/ DropSchema(a) \/ LoadDump(a) \/ EndRestore(a)
    \/ \E n \in DOMAIN bkFiles : HandleDeleteBackup(n)
    \/ EditData \/ Tick \/ DaysPass \/ BackupCrash

RestoreSpec == RestoreInit /\ [][RestoreNext]_backupVars

---------------------------------------------------------------------------
\* Nobody is let in to half a database: whatever fails or is deleted on the way, and
\* whichever backups run in the gap of the mutex, a restore that found a whole database, was
\* asked for the archive of one, is alone and is not cut short by a death ends maintenance
\* only with a whole database.  (ValidateArchive refuses the dump of an empty schema for its
\* missing migration, not the dump of a schema that was half loaded.)
ServedWhole == ~bkMaint /\ bkDb = Broken => bkMixed

\* A restore that reports having rolled back gives back the data the database had when the
\* restore began, or later data.
RolledBackIsCurrent ==
    [][\A a \in Admins :
         At(a, {"refinish"}) /\ bkOps'[a].out = "rolledback" /\ ~bkMixed => bkDb >= bkOps[a].before]_backupVars

\* The schema is dropped and loaded, and dumps are taken, by one operation at a time, though
\* a restore gives up the mutex half-way and takes it back.
OneAtTheDatabase ==
    \A a, b \in Admins :
       At(a, {"drop", "load", "finish", "redrop", "reload", "refinish"})
       /\ At(b, {"dump", "predump", "write", "prewrite", "drop", "load", "finish", "redrop", "reload", "refinish"})
       => a = b

\* The comment on requireNoUsers, "must reject with 403 if the users table is non-empty":
\* where pg_dump is there, no restore begins over data without a backup of it.  The code
\* does not hold to it.
BackedUpFirst ==
    [][\A a \in Admins :
         At(a, {"idle"}) /\ bkOps'[a].pc = "extract" /\ bkDump => bkDb \in {0, Broken}]_backupVars

\* A restore reported as done has loaded the archive that was asked for
\* (api/backup.go: "Restore completed from: %s").
RestoresWhatWasAsked ==
    \A a \in Admins : At(a, {"finish"}) => bkOps[a].got = bkOps[a].asked
=============================================================================
