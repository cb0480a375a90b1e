------------------------------ MODULE Exports ------------------------------
(***************************************************************************)
(* Taking a library out and into another instance: the export jobs and     *)
(* their files, the download, the daily removal of old files, and the      *)
(* import of a downloaded file, one task to a game and the pools last.     *)
(* The library of the exporting user changes while a worker reads it, so   *)
(* a document may mix several moments.  A library is                       *)
(*     [games : id -> [status, wish, rows, tags],                          *)
(*      pools : name -> [order, members : id -> position]]                 *)
(* with rows : key -> [own, hours]; titles, notes and dates are left out,  *)
(* and so is the CSV file, which takes the same path without the pools.    *)
(***************************************************************************)
EXTENDS Integers, FiniteSets, FiniteSetsExt, Functions

CONSTANTS
    Libraries,      \* the states the exporting library goes through
    Destinations,   \* libraries into which a file may be imported
    TagFold,        \* spelled tag name -> its lower case
    DestPlatforms, DestStorefronts, \* reference tables of the destination
    NoStorefront,
    ExportJobs, ImportWorkers,
    MaxExportTime, FileAge,         \* bound on the clock; how long a file is kept
    MaxExportEdits, MaxExportFaults \* bounds on edits and on failures

ASSUME ExportsAssumption ==
    /\ {MaxExportTime, FileAge, MaxExportEdits, MaxExportFaults} \subseteq Nat
    /\ \A L \in Libraries :
          /\ L.games = [g \in DOMAIN L.games |->
                LET r == L.games[g]
                IN  [status |-> r.status, wish |-> r.wish, rows |-> r.rows, tags |-> r.tags]]
          /\ IsFiniteSet(DOMAIN L.pools) /\ \A n \in DOMAIN L.pools : L.pools[n].order \in Nat
    /\ \A C \in Destinations : C = [games |-> C.games, pools |-> C.pools]

VARIABLES
    exLib,      \* the exporting library
    exJobs,     \* [st, pc, doc, path, done]; pc is what its worker does
    exFiles,    \* files in the exports directory: path -> [doc, whole, job]
    exClock,
    exEdits, exFaults, \* bounds reached so far
    exTorn,     \* jobs whose file another export of the same second opened, or whose close failed (history)
    exGot,      \* the last download: [job, file]
    exImport,   \* an import at the destination: [pc, doc, left, failed, from]
    exItems,    \* what each worker of the destination is at
    exCopy      \* the library of the destination

exportVars == <<exLib, exJobs, exFiles, exClock, exEdits, exFaults, exTorn, exGot, exImport, exItems, exCopy>>
sourceVars == <<exLib, exJobs, exFiles, exClock, exEdits, exFaults, exTorn, exGot>>
targetVars == <<exImport, exItems, exCopy>>

\* A document remembers the library it was read from, as long as that was one library; the
\* empty one is never exported.
Mixed    == [games |-> <<>>, pools |-> <<>>]
EmptyDoc == [games |-> <<>>, pools |-> <<>>, calm |-> Mixed]
NoPath   == -1
NoExport == [st |-> "none", pc |-> "idle", doc |-> EmptyDoc, path |-> NoPath, done |-> 0]
NoFile   == [doc |-> EmptyDoc, whole |-> FALSE, job |-> 0]
NoItem   == [pc |-> "idle", game |-> 0, new |-> {}, linked |-> {}]
NoImport == [pc |-> "none", doc |-> EmptyDoc, left |-> {}, failed |-> {}, from |-> EmptyDoc]

ExportsInit ==
    /\ exLib \in Libraries
    /\ exJobs = [j \in ExportJobs |-> NoExport]
    /\ exFiles = <<>> /\ exClock = 0 /\ exEdits = 0 /\ exFaults = 0 /\ exTorn = {}
    /\ exGot = [job |-> 0, file |-> NoFile]
    /\ exImport = NoImport
    /\ exItems = [w \in ImportWorkers |-> NoItem]
    /\ exCopy \in Destinations

ExportFault == exFaults < MaxExportFaults /\ exFaults' = exFaults + 1
Folds(N)    == {TagFold[n] : n \in N}

---------------------------------------------------------------------------
(* The export job. *)

SetJob(j, r) == exJobs' = [exJobs EXCEPT ![j] = r]

\* The row is written, then the task; when that fails the row stays pending.
handleExport(j) ==
    /\ exJobs[j].st = "none" /\ DOMAIN exLib.games # {}
    /\ \/ SetJob(j, [NoExport EXCEPT !.st = "pending", !.pc = "queued"]) /\ UNCHANGED exFaults
       \/ SetJob(j, [NoExport EXCEPT !.st = "pending"]) /\ ExportFault
    /\ UNCHANGED <<exLib, exFiles, exClock, exEdits, exTorn, exGot, targetVars>>

\* A worker step on the job of a row that is still there writes its columns; on a deleted
\* row the update matches nothing.
WorkerStep(j, from, r) ==
    /\ exJobs[j].pc = from
    /\ SetJob(j, IF exJobs[j].st = "deleted" THEN [r EXCEPT !.st = "deleted"] ELSE r)

\* The status is set whatever it was.  A deleted row ends the work.
loadAndStartJob(j) ==
    /\ \/ /\ exJobs[j].st # "deleted"
          /\ WorkerStep(j, "queued", [exJobs[j] EXCEPT !.st = "processing", !.pc = "games"])
       \/ exJobs[j].st = "deleted" /\ WorkerStep(j, "queued", [exJobs[j] EXCEPT !.pc = "idle"])
    /\ UNCHANGED <<exLib, exFiles, exClock, exEdits, exFaults, exTorn, exGot, targetVars>>

Reads == UNCHANGED <<exLib, exFiles, exClock, exEdits, exTorn, exGot, targetVars>>
StillCalm(doc) == IF doc.calm = exLib THEN exLib ELSE Mixed

\* The rows of user_games first,
loadUserGames(j) ==
    /\ WorkerStep(j, "games", [exJobs[j] EXCEPT !.pc = "relations",
          !.doc = [EmptyDoc EXCEPT !.calm = exLib,
                     !.games = [g \in DOMAIN exLib.games |-> [exLib.games[g] EXCEPT !.rows = <<>>, !.tags = {}]]]])
    /\ Reads /\ UNCHANGED exFaults

\* then their platforms and tags by further queries.
loadRelations(j) ==
    /\ LET doc == exJobs[j].doc
           g2(g) == IF g \in DOMAIN exLib.games
                      THEN [doc.games[g] EXCEPT !.rows = exLib.games[g].rows, !.tags = exLib.games[g].tags]
                      ELSE doc.games[g]
       IN  WorkerStep(j, "relations", [exJobs[j] EXCEPT !.pc = "pools",
              !.doc = [doc EXCEPT !.games = [g \in DOMAIN doc.games |-> g2(g)], !.calm = StillCalm(doc)]])
    /\ Reads /\ UNCHANGED exFaults

loadPoolsForExport(j) ==
    /\ LET doc == exJobs[j].doc
       IN  WorkerStep(j, "pools", [exJobs[j] EXCEPT !.pc = "create",
              !.doc = [doc EXCEPT !.pools = exLib.pools, !.calm = StillCalm(doc)]])
    /\ Reads /\ UNCHANGED exFaults

\* The name of the file is the user and the second.
OpenExportFile(j) ==
    /\ exJobs[j].pc = "create"
    /\ SetJob(j, [exJobs[j] EXCEPT !.pc = "write", !.path = exClock])
    /\ exFiles' = [p \in DOMAIN exFiles \cup {exClock} |->
                     IF p = exClock THEN [NoFile EXCEPT !.job = j] ELSE exFiles[p]]
    /\ exTorn' = IF exClock \in DOMAIN exFiles THEN exTorn \cup {j, exFiles[exClock].job} ELSE exTorn
    /\ UNCHANGED <<exLib, exClock, exEdits, exFaults, exGot, targetVars>>

\* All that was read, game by game, each with its copies and tags.
buildJSONDoc(j) == [doc |-> exJobs[j].doc, whole |-> TRUE, job |-> j]

\* The path is in the job's memory until it is marked; a failed write fails the job, a failed
\* close is lost (the deferred function assigns a variable that is no result).
writeJSONExport(j) ==
    LET p == exJobs[j].path
        Put(f) == exFiles' = [q \in DOMAIN exFiles \cup {p} |-> IF q = p THEN f ELSE exFiles[q]]
        f == buildJSONDoc(j)
    IN  /\ exJobs[j].pc = "write"
        /\ \/ /\ Put(f) /\ SetJob(j, [exJobs[j] EXCEPT !.pc = "mark"])
              /\ UNCHANGED <<exFaults, exTorn>>
           \/ /\ ExportFault /\ Put([f EXCEPT !.whole = FALSE])
              /\ SetJob(j, [exJobs[j] EXCEPT !.pc = "fail"])
              /\ UNCHANGED exTorn
           \/ /\ ExportFault /\ Put([f EXCEPT !.whole = FALSE])
              /\ SetJob(j, [exJobs[j] EXCEPT !.pc = "mark"])
              /\ exTorn' = exTorn \cup {j}
        /\ UNCHANGED <<exLib, exClock, exEdits, exGot, targetVars>>

\* Mutant: the job is reported before its file is written.
MarkBeforeWrite(j) ==
    /\ \/ exJobs[j].pc = "write" /\ SetJob(j, [exJobs[j] EXCEPT !.st = "completed", !.done = exClock])
       \/ WorkerStep(j, "mark", [exJobs[j] EXCEPT !.pc = "idle"])
    /\ Reads /\ UNCHANGED exFaults

markJobCompleted(j) ==
    /\ WorkerStep(j, "mark", [exJobs[j] EXCEPT !.st = "completed", !.pc = "idle", !.done = exClock])
    /\ Reads /\ UNCHANGED exFaults

markJobFailed(j) ==
    /\ WorkerStep(j, "fail", [exJobs[j] EXCEPT !.st = "failed", !.pc = "idle", !.path = NoPath, !.done = exClock])
    /\ Reads /\ UNCHANGED exFaults

\* A query fails.
ExportReadFails(j) ==
    /\ exJobs[j].pc \in {"games", "relations", "pools", "create"} /\ ExportFault
    /\ SetJob(j, [exJobs[j] EXCEPT !.pc = "fail"])
    /\ Reads

\* The task has one attempt: nothing takes the job up again.
ExportWorkerDies(j) ==
    /\ exJobs[j].pc \notin {"idle", "queued"} /\ ExportFault
    /\ SetJob(j, [exJobs[j] EXCEPT !.pc = "idle"])
    /\ Reads

\* The cancelling of queued tasks looks for items: an export has none, and its task runs.
CancelExport(j) ==
    /\ exJobs[j].st \in {"pending", "processing"}
    /\ SetJob(j, [exJobs[j] EXCEPT !.st = "cancelled", !.done = exClock])
    /\ Reads /\ UNCHANGED exFaults

DeleteExport(j) ==
    /\ exJobs[j].st \in {"completed", "failed", "cancelled"}
    /\ SetJob(j, [exJobs[j] EXCEPT !.st = "deleted"])
    /\ Reads /\ UNCHANGED exFaults

---------------------------------------------------------------------------
(* Files. *)

Expired(j) == exClock > exJobs[j].done + FileAge

\* An expired file is removed, another one is streamed.
HandleDownload(j) ==
    /\ exJobs[j].st = "completed" /\ exJobs[j].path \in DOMAIN exFiles
    /\ IF Expired(j)
         THEN exFiles' = Restrict(exFiles, DOMAIN exFiles \ {exJobs[j].path}) /\ UNCHANGED exGot
         ELSE exGot' = [job |-> j, file |-> exFiles[exJobs[j].path]] /\ UNCHANGED exFiles
    /\ UNCHANGED <<exLib, exJobs, exClock, exEdits, exFaults, exTorn, targetVars>>

CleanupExports ==
    LET old == {j \in ExportJobs : exJobs[j].st = "completed" /\ exJobs[j].path # NoPath /\ Expired(j)}
    IN  /\ old # {}
        /\ exFiles' = Restrict(exFiles, DOMAIN exFiles \ {exJobs[j].path : j \in old})
        /\ exJobs' = [j \in ExportJobs |-> IF j \in old THEN [exJobs[j] EXCEPT !.path = NoPath] ELSE exJobs[j]]
        /\ UNCHANGED <<exLib, exClock, exEdits, exFaults, exTorn, exGot, targetVars>>

ExportTick ==
    /\ exClock < MaxExportTime /\ exClock' = exClock + 1
    /\ UNCHANGED <<exLib, exJobs, exFiles, exEdits, exFaults, exTorn, exGot, targetVars>>

EditLibrary(L) ==
    /\ exEdits < MaxExportEdits /\ exEdits' = exEdits + 1
    /\ L # exLib /\ exLib' = L
    /\ UNCHANGED <<exJobs, exFiles, exClock, exFaults, exTorn, exGot, targetVars>>

---------------------------------------------------------------------------
(* The import of a downloaded file. *)

CopyTags(C) == UNION {C.games[g].tags : g \in DOMAIN C.games}

HandleImport ==
    /\ exImport.pc # "items" /\ exGot.file.whole
    /\ exImport' = [pc |-> "items", doc |-> exGot.file.doc, left |-> DOMAIN exGot.file.doc.games,
                    failed |-> {}, from |-> exCopy]
    /\ UNCHANGED <<sourceVars, exItems, exCopy>>

\* Acquire finds the tags it knows without regard to case and is to create the others,
\* one of each set of spellings.
BeginItem(w, g) ==
    /\ exItems[w].pc = "idle" /\ g \in exImport.left
    /\ \A v \in ImportWorkers : exItems[v].pc = "idle" \/ exItems[v].game # g
    /\ LET names == exImport.doc.games[g].tags
           have  == CopyTags(exCopy)
           One(S, F) == Folds(S) = F /\ Cardinality(S) = Cardinality(F)
       IN  \E new \in SUBSET names :
             /\ One(new, Folds(names) \ Folds(have))
             /\ \E linked \in SUBSET (have \cup new) :
                  /\ One(linked, Folds(names))
                  /\ exItems' = [exItems EXCEPT ![w] = [pc |-> "open", game |-> g, new |-> new, linked |-> linked]]
    /\ UNCHANGED <<sourceVars, exImport, exCopy>>

\* An unknown platform is skipped, an unknown storefront becomes none; of rows that fall
\* together the first stays.
KnownKey(k)    == [k EXCEPT !.storefront = IF @ \in DestStorefronts THEN @ ELSE NoStorefront]
KnownRows(rows) ==
    LET keys == {k \in DOMAIN rows : k.platform \in DestPlatforms}
        From(k) == {r \in keys : KnownKey(r) = k}
    IN  [k \in {KnownKey(r) : r \in keys} |-> rows[IF k \in From(k) THEN k ELSE CHOOSE r \in From(k) : TRUE]]

Better(a, b) == [own |-> IF a.own > b.own THEN a.own ELSE b.own,
                 hours |-> IF a.hours > b.hours THEN a.hours ELSE b.hours]

\* A row of a storefront is merged field by field; one without is never found and stays.
MergeRows(old, in) ==
    [k \in DOMAIN old \cup DOMAIN in |->
        IF k \notin DOMAIN old THEN in[k]
        ELSE IF k \in DOMAIN in /\ k.storefront # NoStorefront THEN Better(in[k], old[k])
        ELSE old[k]]

\* The rules every writer of platform rows ends with.
SettleRow(r) ==
    [r EXCEPT !.wish = @ /\ DOMAIN r.rows = {},
              !.status = IF @ = "not_started" /\ \E k \in DOMAIN r.rows : r.rows[k].hours > 0
                           THEN "in_progress" ELSE @]

\* A new row takes the fields of the file, an existing one only platforms and tags.
AcquireImported(g, linked) ==
    LET in  == exImport.doc.games[g]
        old == IF g \in DOMAIN exCopy.games THEN exCopy.games[g] ELSE [in EXCEPT !.rows = <<>>, !.tags = {}]
    IN  SettleRow([old EXCEPT !.rows = MergeRows(@, KnownRows(in.rows)), !.tags = @ \cup linked])

\* A tag that another item created meanwhile breaks the unique index: the transaction is
\* rolled back and the item has failed.
FinishItem(w) ==
    LET i == exItems[w]
        raced == i.new \cap CopyTags(exCopy) # {}
    IN  /\ i.pc = "open"
        /\ exItems' = [exItems EXCEPT ![w] = NoItem]
        /\ exImport' = [exImport EXCEPT !.left = @ \ {i.game},
                                        !.failed = IF raced THEN @ \cup {i.game} ELSE @]
        /\ exCopy' = IF raced THEN exCopy
                     ELSE [exCopy EXCEPT !.games = [g \in DOMAIN @ \cup {i.game} |->
                              IF g = i.game THEN AcquireImported(g, i.linked) ELSE @[g]]]
        /\ UNCHANGED sourceVars

NewOrder(P)  == IF DOMAIN P = {} THEN 0 ELSE 1 + Max({P[n].order : n \in DOMAIN P})

\* A pool that exists keeps its place, new ones follow in the order of the file.
findOrCreatePool(P, in, n) ==
    IF n \in DOMAIN P THEN P[n].order
    ELSE NewOrder(P) + Cardinality({m \in DOMAIN in \ DOMAIN P : in[m].order < in[n].order})

\* Mutant: an item counts as settled as soon as a worker has it.
NoneWaiting == exImport.left \ {exItems[w].game : w \in ImportWorkers} = {}

\* checkJobCompletion: an item is pending until its outcome is written.
NonePending == exImport.left = {}

\* Once the last item is settled.  A member whose game did not arrive is skipped, one that is
\* there keeps its place.
applyImportedPools ==
    LET P  == exCopy.pools
        in == exImport.doc.pools
        members(n) ==
          LET old == IF n \in DOMAIN P THEN P[n].members ELSE <<>>
              new == IF n \in DOMAIN in THEN Restrict(in[n].members, DOMAIN in[n].members \cap DOMAIN exCopy.games)
                     ELSE <<>>
          IN  [g \in DOMAIN old \cup DOMAIN new |-> IF g \in DOMAIN old THEN old[g] ELSE new[g]]
    IN  /\ exImport.pc = "items" /\ NonePending
        /\ exCopy' = [exCopy EXCEPT !.pools = [n \in DOMAIN P \cup DOMAIN in |->
                         [order |-> findOrCreatePool(P, in, n), members |-> members(n)]]]
        /\ exImport' = [exImport EXCEPT !.pc = "done"]
        /\ UNCHANGED <<sourceVars, exItems>>

---------------------------------------------------------------------------
ExportStep(j) ==
    \/ handleExport(j) \/ loadAndStartJob(j)
    \/ loadUserGames(j) \/ loadRelations(j) \/ loadPoolsForExport(j)
    \/ OpenExportFile(j) \/ writeJSONExport(j)
    \/ markJobCompleted(j) \/ markJobFailed(j) \/ ExportReadFails(j) \/ ExportWorkerDies(j)
    \/ CancelExport(j) \/ DeleteExport(j)
    \/ HandleDownload(j)

ImportStep ==
    \/ HandleImport
    \/ \E w \in ImportWorkers : \/ \E g \in exImport.left : BeginItem(w, g)
                                \/ FinishItem(w)
    \/ applyImportedPools

ExportsNext ==
    \/ \E j \in ExportJobs : ExportStep(j)
    \/ CleanupExports \/ ExportTick
    \/ \E L \in Libraries : EditLibrary(L)
    \/ ImportStep

ExportsSpec == ExportsInit /\ [][ExportsNext]_exportVars

---------------------------------------------------------------------------
\* A download is the whole document of the job it was asked for, unless another export of
\* the user opened the file of that second or its close failed (HandleDownload).
DownloadIsOwn ==
    exGot.job # 0 => exGot.job \in exTorn \/ (exGot.file.whole /\ exGot.file.job = exGot.job)

Empty(C)    == DOMAIN C.games = {} /\ DOMAIN C.pools = {}
Arrived(L)  == DOMAIN L.games \ exImport.failed
Settled(r)  == [SettleRow([r EXCEPT !.rows = KnownRows(@)]) EXCEPT !.tags = Folds(@)]
OrderedAs(P, Q) == \A m, n \in DOMAIN P : P[m].order < P[n].order <=> Q[m].order < Q[n].order

\* A library that is exported while nobody changes it and imported into an empty one arrives
\* as it was: statuses, wishes, copies, tags without regard to case, pools in their order with
\* their queues.  Only what settling changes differs, and what failed is missing
\* (docs/import-export-format.md: "move a library without losing data").
RoundTrip ==
    LET L == exImport.doc.calm
    IN  exImport.pc = "done" /\ L # Mixed /\ Empty(exImport.from) =>
          /\ DOMAIN exCopy.games = Arrived(L)
          /\ \A g \in Arrived(L) : [exCopy.games[g] EXCEPT !.tags = Folds(@)] = Settled(L.games[g])
          /\ DOMAIN exCopy.pools = DOMAIN L.pools /\ OrderedAs(exCopy.pools, L.pools)
          /\ \A n \in DOMAIN L.pools :
               exCopy.pools[n].members = Restrict(L.pools[n].members, DOMAIN L.pools[n].members \cap Arrived(L))

\* Every game of the file arrives (docs/import-export-format.md: "move a library without
\* losing data").  Violated: two items that create one tag at once.
EveryGameArrives == exImport.failed = {}
=============================================================================
