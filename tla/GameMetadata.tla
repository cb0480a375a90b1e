---- MODULE GameMetadata ----
(***************************************************************************)
(* The games rows and their cover files: the nightly metadata refresh       *)
(* (internal/worker/tasks/metadata_refresh.go), the fetch for a newly added *)
(* game (metadata_fetch.go), both built on fetchAndStoreMetadata, and the   *)
(* import of a game by its IGDB id (internal/api/games.go).  They run at    *)
(* the same time, and each reads a row, asks IGDB, downloads a cover and    *)
(* writes the row in steps of its own.                                      *)
(*                                                                          *)
(* What IGDB knows of a game is a version number and the image of its       *)
(* cover; a row's cover is none, "remote", or an image served from disk.    *)
(***************************************************************************)
EXTENDS Integers, FiniteSets

CONSTANTS
  MetaGames,      \* IGDB ids
  Images,         \* cover image ids
  Fetchers,       \* metadata_fetch tasks and import requests that may run
  MinAge,         \* the refresh leaves alone games updated within it
  MaxMetaTime,    \* bound on the clock
  MaxRefreshes,   \* bound on the refresh jobs
  MaxMetaFaults   \* bound on crashes and failed calls

NoCover == "none"
Remote == "remote"

ASSUME MetaAssumption == {NoCover, Remote} \cap Images = {} /\ 0 \notin MetaGames

VARIABLES gmRows, gmIgdb, gmFiles, gmWork, gmJob, gmItems, gmClock, gmRefreshes, gmFaults

metaVars == <<gmRows, gmIgdb, gmFiles, gmWork, gmJob, gmItems, gmClock, gmRefreshes, gmFaults>>

\* A writer is a fetcher or the worker of the refresh item of a game.
ItemWorkers == {"item"} \X MetaGames
FetchWorkers == {"fetcher"} \X Fetchers
Writers == FetchWorkers \cup ItemWorkers

NoGame == [there |-> FALSE, cover |-> NoCover, updated |-> 0]
Idle == [pc |-> "idle", kind |-> "none", game |-> 0, image |-> NoCover, seen |-> NoCover,
         isNew |-> FALSE, attempt |-> 0]

MetaInit ==
  /\ gmRows = [g \in MetaGames |-> [there |-> TRUE, cover |-> NoCover, updated |-> 0]]
  /\ gmIgdb \in [MetaGames -> Images \cup {NoCover}]
  /\ gmFiles = [i \in Images |-> "absent"]
  /\ gmWork = [w \in Writers |-> Idle]
  /\ gmJob = [status |-> "none", made |-> 0]
  /\ gmItems = [g \in MetaGames |-> "none"]
  /\ gmClock = 0
  /\ gmRefreshes = 0
  /\ gmFaults = 0

\* An attempt of a task, or a request, for a game; and the next one.
Attempt(kind, g, n) ==
  [pc |-> IF kind = "import" THEN "ask" ELSE "load", kind |-> kind, game |-> g, image |-> NoCover,
   seen |-> NoCover, isNew |-> FALSE, attempt |-> n]
Again(k) == Attempt(k.kind, k.game, k.attempt + 1)

FetcherGoes(w, pc) == gmWork' = [gmWork EXCEPT ![w].pc = pc]
FetcherAt(w, pc) == gmWork[w].pc = pc
Strikes == gmFaults < MaxMetaFaults /\ gmFaults' = gmFaults + 1
jobVars == <<gmJob, gmItems, gmRefreshes>>

----
(* Who starts a writer *)

\* The dispatch: games not updated within MinAge, a job and its items in one
\* transaction, behind the active-job guard.
Dispatch ==
  LET due == {g \in MetaGames : gmRows[g].there /\ gmRows[g].updated < gmClock - MinAge}
  IN /\ gmRefreshes < MaxRefreshes
     /\ gmJob.status # "processing"
     /\ due # {}
     /\ gmRefreshes' = gmRefreshes + 1
     /\ gmJob' = [status |-> "processing", made |-> gmClock]
     /\ gmItems' = [g \in MetaGames |-> IF g \in due THEN "pending" ELSE "none"]
     /\ gmWork' = [w \in Writers |->
                     IF w \in ItemWorkers /\ w[2] \in due THEN Attempt("item", w[2], 1) ELSE gmWork[w]]
     /\ \A g \in due : FetcherAt(<<"item", g>>, "idle")
     /\ UNCHANGED <<gmRows, gmIgdb, gmFiles, gmClock, gmFaults>>

\* A sync queues a fetch for a game without metadata; a user imports a game.
StartFetcher(w) ==
  /\ FetcherAt(w, "idle")
  /\ \E g \in MetaGames, kind \in {"fetch", "import"} :
       gmWork' = [gmWork EXCEPT ![w] = Attempt(kind, g, 1)]
  /\ UNCHANGED <<gmRows, gmIgdb, gmFiles, jobVars, gmClock, gmFaults>>

----
(* fetchAndStoreMetadata *)

\* The row's cover is read before IGDB is asked.
Load(w) ==
  /\ FetcherAt(w, "load")
  /\ gmRows[gmWork[w].game].there
  /\ gmWork' = [gmWork EXCEPT ![w].pc = "ask", ![w].seen = gmRows[gmWork[w].game].cover]
  /\ UNCHANGED <<gmRows, gmIgdb, gmFiles, jobVars, gmClock, gmFaults>>

\* FetchFullMetadata answers; an import looks for the row right after.
Ask(w) ==
  /\ FetcherAt(w, "ask")
  /\ gmWork' = [gmWork EXCEPT ![w].pc = IF gmWork[w].kind = "import" THEN "cover" ELSE "store",
                              ![w].image = gmIgdb[gmWork[w].game],
                              ![w].isNew = ~gmRows[gmWork[w].game].there]
  /\ UNCHANGED <<gmRows, gmIgdb, gmFiles, jobVars, gmClock, gmFaults>>

\* The UPDATE of every metadata column and last_updated, the cover apart; it
\* is downloaded when the image differs from the one the row had at first.
Store(w) ==
  /\ FetcherAt(w, "store")
  /\ gmRows' = [gmRows EXCEPT ![gmWork[w].game].updated = gmClock]
  /\ FetcherGoes(w, IF gmWork[w].image \in Images \ {gmWork[w].seen} THEN "cover" ELSE "done")
  /\ UNCHANGED <<gmIgdb, gmFiles, jobVars, gmClock, gmFaults>>

\* Mutant: the path is handed out before the download.
PathFirst(w) ==
  /\ FetcherAt(w, "cover")
  /\ gmWork[w].image \in Images
  /\ FetcherGoes(w, "link")
  /\ UNCHANGED <<gmRows, gmIgdb, gmFiles, jobVars, gmClock, gmFaults>>

\* DownloadCoverArt: a file that is there, whole or not, is taken as it is;
\* otherwise the file is created empty and the body copied into it.
DownloadCoverArt(w) ==
  /\ FetcherAt(w, "cover")
  /\ gmWork[w].image \in Images
  /\ IF gmFiles[gmWork[w].image] # "absent"
     THEN FetcherGoes(w, "link") /\ UNCHANGED gmFiles
     ELSE FetcherGoes(w, "copy") /\ gmFiles' = [gmFiles EXCEPT ![gmWork[w].image] = "partial"]
  /\ UNCHANGED <<gmRows, gmIgdb, jobVars, gmClock, gmFaults>>

Copied(w) ==
  /\ FetcherAt(w, "copy")
  /\ gmFiles' = [gmFiles EXCEPT ![gmWork[w].image] = "whole"]
  /\ FetcherGoes(w, "link")
  /\ UNCHANGED <<gmRows, gmIgdb, jobVars, gmClock, gmFaults>>

\* The download fails, before the file or half way through it, which leaves
\* the part that arrived; nobody removes it.
DownloadFails(w) ==
  /\ gmWork[w].pc \in {"cover", "copy"} /\ gmWork[w].image \in Images
  /\ Strikes
  /\ FetcherGoes(w, IF gmWork[w].kind = "import" THEN "exists-remote" ELSE "done")
  /\ UNCHANGED <<gmRows, gmIgdb, gmFiles, jobVars, gmClock>>

\* UPDATE games SET cover_art_url; an import carries the path to its row.
Link(w) ==
  /\ FetcherAt(w, "link")
  /\ IF gmWork[w].kind = "import"
     THEN FetcherGoes(w, "exists-local") /\ UNCHANGED gmRows
     ELSE /\ gmRows' = [gmRows EXCEPT ![gmWork[w].game].cover =
                          IF gmRows[gmWork[w].game].there THEN gmWork[w].image ELSE @]
          /\ FetcherGoes(w, "done")
  /\ UNCHANGED <<gmIgdb, gmFiles, jobVars, gmClock, gmFaults>>

----
(* HandleImportFromIGDB *)

\* The caller asked for no cover, or IGDB has none.
NoDownload(w) ==
  /\ FetcherAt(w, "cover") /\ gmWork[w].kind = "import"
  /\ FetcherGoes(w, "exists-remote")
  /\ UNCHANGED <<gmRows, gmIgdb, gmFiles, jobVars, gmClock, gmFaults>>

\* The whole row is written: its cover is the local file, or else the URL at
\* IGDB, in place of whatever the row had.
ImportCover(w) ==
  IF FetcherAt(w, "exists-local") THEN gmWork[w].image
  ELSE IF gmWork[w].image \in Images THEN Remote ELSE NoCover

\* Inserted if there was no row, else updated; a row that came or went in
\* between is left as it is.
StoreImport(w) ==
  /\ gmWork[w].pc \in {"exists-local", "exists-remote"}
  /\ gmRows' = [gmRows EXCEPT ![gmWork[w].game] =
                  IF @.there = gmWork[w].isNew THEN @
                  ELSE [there |-> TRUE, cover |-> ImportCover(w), updated |-> gmClock]]
  /\ gmWork' = [gmWork EXCEPT ![w] = Idle]
  /\ UNCHANGED <<gmIgdb, gmFiles, jobVars, gmClock, gmFaults>>

----
(* The end of a writer *)

JobChecked(items) ==
  IF gmJob.status = "processing" /\ \A g \in MetaGames : items[g] # "pending"
  THEN [gmJob EXCEPT !.status = "completed"] ELSE gmJob

\* Success: an item is completed and its job checked; a fetch is done.
Done(w) ==
  /\ FetcherAt(w, "done")
  /\ IF gmWork[w].kind = "item"
     THEN /\ gmItems' = [gmItems EXCEPT ![gmWork[w].game] = "completed"]
          /\ gmJob' = JobChecked(gmItems')
     ELSE UNCHANGED <<gmItems, gmJob>>
  /\ gmWork' = [gmWork EXCEPT ![w] = Idle]
  /\ UNCHANGED <<gmRows, gmIgdb, gmFiles, gmClock, gmRefreshes, gmFaults>>

\* An error, the missing row included: an item fails and its job is checked;
\* a fetch is tried three times; a request answers the error.
Errs(w) ==
  /\ \/ gmWork[w].pc \in {"ask", "store", "exists-local", "exists-remote"} /\ Strikes
     \/ FetcherAt(w, "load") /\ ~gmRows[gmWork[w].game].there /\ UNCHANGED gmFaults
  /\ IF gmWork[w].kind = "item"
     THEN /\ gmItems' = [gmItems EXCEPT ![gmWork[w].game] = "failed"]
          /\ gmJob' = JobChecked(gmItems')
     ELSE UNCHANGED <<gmItems, gmJob>>
  /\ gmWork' = [gmWork EXCEPT ![w] =
       IF @.kind = "fetch" /\ @.attempt < 3 THEN Again(@) ELSE Idle]
  /\ UNCHANGED <<gmRows, gmIgdb, gmFiles, gmClock, gmRefreshes>>

\* The process dies: requests are gone, tasks run again while they have
\* attempts left, and the files stay as they are.
Crash ==
  /\ Strikes
  /\ gmWork' = [w \in Writers |->
       LET k == gmWork[w]
           most == IF k.kind = "item" THEN 5 ELSE 3
       IN IF k.kind \in {"item", "fetch"} /\ k.attempt < most
          THEN Again(k) ELSE Idle]
  /\ UNCHANGED <<gmRows, gmIgdb, gmFiles, jobVars, gmClock>>

----
\* IGDB gets another cover for a game; an unreferenced game is removed.
IgdbEdit(g) ==
  /\ \E i \in Images : i # gmIgdb[g] /\ gmIgdb' = [gmIgdb EXCEPT ![g] = i]
  /\ UNCHANGED <<gmRows, gmFiles, gmWork, jobVars, gmClock, gmFaults>>

RemoveGame(g) ==
  /\ gmRows[g].there
  /\ gmRows' = [gmRows EXCEPT ![g] = NoGame]
  /\ UNCHANGED <<gmIgdb, gmFiles, gmWork, jobVars, gmClock, gmFaults>>

MetaTick ==
  /\ gmClock < MaxMetaTime
  /\ gmClock' = gmClock + 1
  /\ UNCHANGED <<gmRows, gmIgdb, gmFiles, gmWork, jobVars, gmFaults>>

MetaNext ==
  \/ \E w \in FetchWorkers : StartFetcher(w)
  \/ \E w \in Writers :
       \/ Load(w) \/ Ask(w) \/ Store(w) \/ DownloadCoverArt(w) \/ Copied(w) \/ DownloadFails(w)
       \/ Link(w) \/ NoDownload(w) \/ StoreImport(w) \/ Done(w) \/ Errs(w)
  \/ \E g \in MetaGames : IgdbEdit(g) \/ RemoveGame(g)
  \/ Dispatch \/ Crash \/ MetaTick

(* Every variable has its type, and a writer at work has a game. *)
Places == {"idle", "load", "ask", "store", "cover", "copy", "link", "exists-local", "exists-remote", "done"}
Work ==
  [pc : Places,
   kind : {"none", "fetch", "import", "item"}, game : MetaGames \cup {0},
   image : Images \cup {NoCover}, seen : Images \cup {NoCover, Remote}, isNew : BOOLEAN, attempt : Nat]
Rows == [there : BOOLEAN, cover : Images \cup {NoCover, Remote}, updated : Nat]
MetaTypeOK ==
  /\ gmRows \in [MetaGames -> Rows]
  /\ gmIgdb \in [MetaGames -> Images \cup {NoCover}]
  /\ gmFiles \in [Images -> {"absent", "partial", "whole"}]
  /\ gmWork \in [Writers -> Work]
  /\ \A w \in Writers : gmWork[w] # Idle => gmWork[w].game \in MetaGames
  /\ gmJob \in [status : {"none", "processing", "completed"}, made : Nat]
  /\ gmItems \in [MetaGames -> {"none", "pending", "completed", "failed"}]
  /\ gmClock \in Nat /\ gmRefreshes \in Nat /\ gmFaults \in Nat

MetaSpec == MetaInit /\ [][MetaNext]_metaVars

\* A row never points at a cover that is not on disk, whoever wrote the row
\* last and whichever downloads failed or died on the way.
CoverOnDisk == \A g \in MetaGames : gmRows[g].cover \in Images => gmFiles[gmRows[g].cover] # "absent"

\* The file of a row's cover is whole (not a property of this code: a download
\* cut short is taken for a finished one ever after).
CoverWhole == \A g \in MetaGames : gmRows[g].cover \in Images => gmFiles[gmRows[g].cover] = "whole"
====
