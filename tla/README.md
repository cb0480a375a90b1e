# A TLA+ model of nexorious

nexorious is a self-hosted server for a personal game library: a Go program (`src/cmd/nexorious`) in
front of one PostgreSQL database. It imports the user's games from the stores, matches them with IGDB
and keeps track of what is owned and played. Almost everything that takes time runs as background
jobs in [River](https://riverqueue.com), a job queue whose tasks are rows of the same database.

This directory models the parts of the program where several actors meet in shared state, checks them
with TLC on small instances and proves the safety properties that matter most with TLAPS for instances
of any size. Sections: the [system](#the-system), the [modules](#the-modules), what the
[runs](#what-the-runs-show) show, what is [proved](#what-is-proved), where code and docs
[disagree](#findings), what is [left out](#what-is-not-modelled) and the [plan](#plan).

    tlc -workers 2 -config MCSyncFlow.cfg MCSyncPipeline     # one run
    tlapm SyncPipeline_proofs.tla                            # the proofs of a module

## The system

For each part: its state, its operations, what it meets, what is hard, and what would make it correct.

**Job admission and dedup keys** (`worker/tasks/job_dedup_lock.go`, `maintenance_dispatch.go`,
`api/sync.go` HandleTriggerSync, `scheduler/scheduler.go` CheckPendingSyncs, `api/games.go`
startMaintenanceRefresh, `api/import.go` enqueueImportJob). A `jobs` row has a dedup key (type, source,
user). Whoever wants a job looks for an active row of the key and inserts one if there is none; all but the
import do both in a transaction that holds an advisory lock numbered by a hash of the key. The
River task is inserted afterwards, on another connection. *Hard:* concurrent admissions, hash
collisions, a crash or a refused insert between row and task, and writers that make a row active without
asking (an unskip, a retry of failed items, a dispatch that starts on a terminal row). *Correct:* at most one
guarded row per key is active; a key that is taken is given back.

**Sync pipeline** (`worker/tasks/sync.go`, `job_item.go`, `enqueue.go`). Stage 1 (`dispatch_sync`) streams
the library in batches into `external_games`, `job_items` and stage-2 tasks while the gate
`jobs.dispatch_complete` is false; stage 2 (`igdb_match`) resolves a game, asks the user
(`pending_review`) or parks a child until its parent is resolved; stage 3 (`user_game`) writes the library,
wakes the children and settles the item. After every item, SyncCheckJobCompletion counts and perhaps finalizes
and announces the job. *Hard:* the count and the guarded UPDATE are separate statements of concurrent workers;
stage 1 is retried from the start after a crash; River may refuse any insert; a worker
has a timeout; the user cancels meanwhile. *Correct:* no verdict while items are open, verdicts are final, every
open item has somebody who will come back to it, the job ends or asks the user, completion is announced once.

**Scheduler safety nets** (`scheduler/*.go`): rescue of orphaned pending items and of parked children every
half hour, stale-job cleanup every hour, pending syncs, purges of old rows. They overlap with everything above.
*Correct:* they repair what a crash leaves and break nothing that is still running.

**Job and item handlers** (`api/jobs.go`, `api/job_items.go`): cancel, delete, retry of failed items, resolve or skip
an item. *Hard:* they read a status and write later, by id, while workers run.

**Sync user handlers** (`api/sync.go`): trigger, skip, unskip, rematch, resolve, reset of a storefront, each of them
against a running pipeline.

**Import pipeline** (`api/import.go`, `worker/tasks/import_*.go`): a file is streamed into items behind the same
gate, matched, reviewed and finalized; `import_nexorious` restores an export with its own worker, completion check and play
pools. *Correct:* as for sync; the job is finalized by one caller, and what the upload loses is made up for.

**Maintenance refreshes** (`worker/tasks/metadata_refresh.go`, `metadata_fetch.go`, `store_link_refresh.go`): dispatch tasks that create their
own row when the scheduler or another job starts them, fan out, and chain each other; item workers download covers and resolve store links.
*Hard:* two writers download one cover; a dispatch reaps the items of a dead predecessor while another still enqueues. *Correct:* a
row never names a cover that is not there; only orphans are reaped.

**User-game library** (`usergame/*.go`, `api/user_games.go`, `api/pools.go`, `api/tags.go`, `librarysmells/*.go`): acquisition merges hours, ownership and
platforms of one game from several storefronts; wishlist promotion, status, pools with their queues, tags, checks of the collection and their
one-click fixes. *Hard:* rows are read without a lock and written later. *Correct:* what one request adds another does not take away; the rules
between fields (no wish beside a copy, played is not "not started") survive every writer; fixes do not undo each other.

**Library queries and job views** (`filter/*.go`, `api/user_games.go`, `api/jobs.go`): facets, cards of saved filters, pages, statistics, counts and polls,
which state one thing in several queries. *Correct:* they agree.

**Store connections and adapters** (`api/sync.go`, `services/*/adapter.go`): credentials that a sync rotates while the user reconnects; five ways to
page through a store's library, and sweeps that mark what was not seen. *Correct:* a rotated token is not lost; after a sync the rows are the store's library.

**What the user decides about a store's games** (`api/sync.go` skip, unskip, rematch, retry): against match and write workers that hold an older answer.
*Correct:* a game ends with its links at one entry.

**IGDB client and rate limiter** (`services/igdb`, `ratelimit`): one cached token for many goroutines, retries, a search in several queries; a token bucket in one
row shared by processes whose clocks differ. *Correct:* a refused token is not sent again; the rate is kept.

**Migrations and application state** (`migrate/*.go`, `cmd/nexorious/serve.go`, `cmd/nexorious/migrate.go`). A `Migrator` holds
the server's idea of its database in atomics without a common lock; the startup, a 5-second probe,
the `/migrate` page's requests and the migration goroutine all write it; `nexorious migrate` processes change the
database beside it. A history of exactly v0.17.1 is *adopted*: rewritten to one baseline row. *Hard:* outages at any point,
verdicts stored late, runs killed with the lock row in place. *Correct:* the gates open only over a current schema,
adoption happens once, no state is a dead end.

**Backup and restore** (`backup/service.go`, `api/backup.go`, `middleware/maintenance.go`): archives, retention, maintenance mode, a pre-restore
backup, psql, rollback. *Hard:* every step can fail, the process can die in each, and the mutex is given up in the middle of a restore. *Correct:* half a
database is not served, one operation at a time works on it, a rollback gives back what was there.

**Startup and shutdown** (`cmd/nexorious/serve.go`): reconciliation of dispatch tasks that a dead process left running, the gate that starts
River when the state is ready, graceful shutdown.

**Notifications** (`notify/*.go`): an event row with a dedup key, a delivery task, an activity feed read page by page. *Correct:* a channel
hears once, and one broken channel does not silence another; the feed misses nothing.

**Export** (`worker/tasks/export.go`, `api/export.go`): a job, a file, a download, a daily removal; the file is imported elsewhere. *Correct:* a download is the
whole document of its job; a library comes back as it was.

**Authentication and accounts** (`auth/*.go`, `api/setup.go`, `api/admin_users.go`, `api/auth.go`): the first administrator, and requests that check an account and write it
later. *Correct:* there is one first administrator and always an active one.

**Matching and CSV mapping** (`services/matching`, `services/csvmap`): pure functions. **Clients** (`cmd/nexctl`, `cliclient`) and the web interface only use
the HTTP API.

How they meet: handlers and periodic jobs admit jobs; a dispatch fans out through River; items end in the completion
check, which notifies and may chain a maintenance job; the safety nets read and write the same rows. The application
state decides whether any of it runs. Everything shared is in the database, so the modules take one
committed SQL statement (or a run of them that nobody can tell apart) as a step, and keep what a goroutine has read
before in a variable of its own.

## The modules

| module | models | refines, is composed in |
|---|---|---|
| `JobAdmission` | admission, locks, the writers that bypass them, cleanup, crashes | `MCJobAdmission` |
| `SyncPipeline` | the three stages, River's queue, the completion check, the safety nets, faults | refines `SyncLifecycle`; `MCSyncPipeline` |
| `SyncLifecycle` | what a sync job promises: the state diagram of `src/docs/sync.md` | |
| `AppState` | startup, probe, migrate page, migrations, migrate processes, outages | `MCAppState` |
| `Library` | a user's games, their platform rows, Acquire against the other writers | with `Pools` in `MCLibrary` |
| `Pools`, `Tags`, `Smells` | play-next pools and queues; tags; checks of the collection and their fixes | `MCLibrary` |
| `LibraryQuery` | what clients read of the collection: facets, cards, pages, statistics | `MCLibrary` |
| `JobViews` | what clients read of jobs: lists, pages, counts, polls | `MCServices` |
| `ImportPipeline` | both importers from upload to finalization, the user's answers, faults | `MCLibrary` |
| `StoreConnections` | credentials: connect, disconnect, rotation by a sync, the "expired" notice | `MCStores` |
| `StoreFetch` | five adapters' paging, the upserts, the sweeps | `MCStores` |
| `ExternalGames` | skip, unskip, rematch and retry against match and write workers | `MCStores` |
| `StoreLinks`, `GameMetadata` | the two maintenance refreshes, single fetches, imports by id, cover files | `MCStores` |
| `IgdbClient`, `RateLimiter` | token, retries and search; the shared bucket and clocks that disagree | `MCStores` |
| `Restore` | backups, retention, restore, rollback, maintenance mode, deaths | `MCServices` |
| `Accounts`, `Notify`, `Exports` | accounts and sessions; events, delivery and feed; exports and their import | `MCServices` |
| `MC*` | instances for TLC | |
| `JobAdmission_proofs`, `SyncPipeline_proofs`, `AppState_proofs` | theorems about the module of that name, and their proofs | |
| `SyncLifecycle_proofs` | the refinement of SyncLifecycle by SyncPipeline; tasks and items in lockstep | extends `SyncPipeline_proofs` |
| `Library_proofs` | theorems about ImportPipeline, Library, Pools, Tags, Smells, LibraryQuery, JobViews | extends `Counting_proofs` |
| `Stores_proofs` | RateLimiter, GameMetadata, ExternalGames, StoreLinks, StoreFetch, StoreConnections, IgdbClient | extends `Counting_proofs` |
| `Services_proofs` | Accounts, Restore, Notify, Exports | extends `Counting_proofs` |
| `Counting_proofs` | lemmas about numbers: least and greatest, the places of an order, products and quotients | |

**JobAdmission.** `status`, `keyOf`, `gate` are columns of `jobs`; `items` and `task` abstract the job's items and its
dispatch task; `lock` is PostgreSQL's advisory locks, `pc`, `kind`, `want`, `mine` the
requests and periodic jobs in flight. An admission is `Begin`, (`PreGuard`), `AcquireJobDedupLock`, `Guard`, `Commit`, `Enqueue`, on four
paths: sync trigger or tick, an admin's handler, a self-created dispatch, an import (which has no lock and streams its items
before it opens the gate). `unguarded` is history: rows that some write made active without asking, so that the guarantee
of the guard can be stated without blaming it for them. Workers appear as far as they change a row's status: start, finish, fail,
and `Drain` for all item workers of a job together. `LockOf` need not be injective, as `hashtext()` is not.

**SyncPipeline.** `status`, `gate`, `item` are `jobs` and `job_items`; `known`, `resolved`, `skipped`, `library`
are what the pipeline reads and writes of `external_games` and `user_games`; `dispatch` and `queue` are River's
tasks; `asked` and `announced` the events. Each goroutine (`Procs`) is at a label (`at`) on a task (`on`), a dispatch with the games
delivered so far (`seen`) and those it still has to enqueue (`todo`). `StartDispatch` .. `StreamBatch` .. `EnqueueNext` are stage 1,
`AskParent`/`Search`/`EnqueueUserGame` stage 2, `Acquire` .. `Siblings` stage 3, and `Count`, `Review`, `Finalize`,
`Announce` the completion check, which every worker ends with. What IGDB answers is chosen freely.
`Crash` forgets all goroutines and lets the next process reconcile running tasks; the queue and the rows survive. A dispatch that starts again
delivers the library from the beginning, as the code does.

**AppState.** `state`, `prev`, `needsSetup`, `bunMig`, `migrateMu` are the fields of `Migrator`; `schema` is what the database has *recorded*
as applied, in six classes that `classify` and the two "unapplied" questions tell apart; `locked` is the row in
`bun_migration_locks`. `seen[p]` is a verdict between the queries and the store of `determineState`, or how p's run has ended.
A statement over a lost connection may or may not have had its effect. `migrate` processes share only the database with the server. `serve
--migrate` is such a run before a startup, and is not a separate action. The semantics of bun's migrator (its lock row, that a
migration is marked as it is applied) and of PostgreSQL are taken from how the code uses them, and marked external in the map.

**Library and Pools.** `status`, `wish`, `plat` and `pools` are `user_games`, `user_game_platforms` and `pool_games`. A handler whose transaction locks what it reads, or reads
and writes in one statement, is one step. Four are not, and stay open in a variable while others write: an Acquire on an existing row reads the platform row without a lock (`tx`); a platform write (`write`) and a progress
update (`progress`) promote by what is committed when they look, so that two of them at once see neither each other's hours nor status; and `HandleSetQueue` (`queueTx`) is its guard, the demotion of the members it sees, a promotion for
each listed id, and the commit. Row locks are modelled by what they keep out (`Locked`, `HoldsKey`, `MayLeave`); `overlap` and `late` are history, and name who was not seen. One transaction of each kind is open at a time: a second on the same
game or pool waits for the lock of the first, and one on another has nothing to do with it. **Tags** splits ReplaceTags into its read and its write, **Smells** a fix into the check it re-runs and the write. **LibraryQuery** and **JobViews** are queries
written as operators, with the actions of the client that calls them page by page. A list of jobs or items is sorted by one column alone, so a page is a function of an order of the ties (`tie`) that each query picks anew.

**ImportPipeline.** One job and its items, River's queue as a count per task kind, goroutines with a label each; both importers in one module (`imKind`), as they share the job
row, the items and the handlers. Any statement may fail, a task may be lost, the gate may stay closed (`EndUpload`) and an upload may be cut short (`InsertItem`).
`imLost` records the losses nobody makes up for, `imFinals`, `imEvents`, `imPoolRuns` what was done how often.

**StoreConnections.** The row of `user_sync_configs`, the store's side (which version of a token it accepts) and one sync and one request under way.
**StoreFetch.** An adapter is a function from the store's listing, a page position and a memory of the pages read; the dispatch interleaves with changes of
the store's data. **ExternalGames.** `external_games`, their items and links, the entries of the library, and workers that carry what they read.
**StoreLinks** and **GameMetadata** take the statements of the dispatch, the items and the reaper apart; a cover file is absent, partial or whole.
**IgdbClient.** A call is at a point of `doPost`; tokens are numbered in the order Twitch gave them; a search is evaluated on a whole
catalogue, as a pass of two searches for each query (`Requests`), any of which may fail, and a second pass without the platforms, in which others may.
**RateLimiter.** One unit of time refills one token; an observer opens a window at any time.

**Restore.** An operation is a program counter with what it has in hand (`bkOps`), `bkFiles` the directory of archives, named by the second. The setup restores have no guard, since the code's does not stop them. **Accounts** has one record per
request between its first read and its write. **Notify** has rows, tasks, channels and workers; **Exports** documents as values, files by
path, and the importing side with one task per game.

Faults are budgets in the modules other than JobAdmission and AppState, which are finite without.

## What the runs show

| run | instance | shows |
|---|---|---|
| `admission` | 2 clients, 2 rows, a key of each class, two of them on one lock number | no two guarded rows are active on one key; a maintenance key that is taken is given back (liveness) |
| `sync_flow` | 2 goroutines, a game and its sibling in one batch, 1 fault | every open item is backed by a task or waits for its parent; the pipeline implements `SyncLifecycle` |
| `sync_gate` | 2 goroutines, 2 games in 2 batches, a crash, a fault, a timeout, a cancel | no job completes while its dispatch streams; a dispatch that ran once announces once |
| `sync_crash` | 2 goroutines, 2 games, a crash | the job settles; who has to review is asked (liveness) |
| `app_state` | the probe, a request, a migrate process, unbounded faults | gates only over a current schema; adopted once; no run leaves the server migrating; a recovered database is noticed (liveness) |
| `library` | seven parts: rows, members, order, tags, query, smells, import | the rules between the fields of a game; queues, tags and fixes that keep what others wrote; reads that agree; an import finalized once, behind its gate, that ends (liveness) |
| `stores` | eight parts: connect, fetch, decide, links, metadata, igdb, search, rate | rotated tokens kept, no repeated notices; a sync ends with the store's library; one home for a game's links; only orphans reaped; covers exist; a fresh token after a refusal; a search that keeps what was found; the rate |
| `services` | nine parts: backup, accounts, notify, feed, export, import, jobs, lists, items | no broken database served, one operation at a time on it, a rollback that gives back; an administrator; one delivery; a whole feed; one's own download; a library that travels; lists and polls of jobs that tell one story |
| `sync_stale`, `sync_revived`, `sync_child`, `app_recovery` | smaller instances of the same | the [findings](#findings) |

*Parts.* `MCLibrary`, `MCStores` and `MCServices` each hold several modules that share no variable (except Library and Pools). The
initial states choose a `part`, and only that part takes steps: the state space is the sum, not the product, of the modules', and each property is about one of
them. Components that do meet, such as Library's games and Pools' members, are in one part together.

*Why these bounds.* Admission is a race of two for one key; a third client or row only repeats one of the roles, and the proof
covers any number. The pipeline's races are between two goroutines (a dispatch and a check, two checks, a worker and the
user), over two items (the last one and another) and two batches (between which the gate is closed); a parent and a child are two games.
One fault of each kind at every possible point finds what the handlers forget; a second of the same kind is spent
in the state the first one led to, which `sync_gate` explores for different kinds together. `Attempts` is the code's 3, above what one crash can use.
`BatchSize` is 1 or 2 where the code has 10: what matters is whether the library takes one batch or several. In `app_state`, runs
of one server are serialised by `migrateMu`, so its second contender is a migrate process; `app_recovery` has two requests and the proofs any number.

In `library`, a pair with a storefront, one without and one the tables do not know are the three kinds of key; two spellings of one tag are what LOWER() tells apart;
the libraries that are read differ in every facet (a copy that splits platform and storefront over two rows, a genre inside another, a game without rows), with pages of two.
Hours are none or some (`MaxHours = 1`), as the promotion only asks whether there are any, and a game beside it gives two transactions the choice to meet or not. A queue of two games of which one is listed meets an import of the other.
An import has two items, two goroutines and one mishap, so that the last item and another race with a crash, a refusal, a failed statement, a cancel or a retry at every point; there are two tasks at most, one of each item or two of one. In `stores`,
three titles over pages of two give a full page, a last page and a change in between; a search has two expanded queries, so that there is one before and one after a failed one, over every catalogue of two games with a limit of one or two (the searches that fail: none, one of either expanded query, both of the first, all of both, or one of the original); a game and a child, two jobs of nested scope, two images,
two calls and three tokens are what the modules' races need; the limiter's window is up to two refill times with one of skew, and the proof
covers any. In `services`, a clock of two seconds makes archives and exports of one second meet and of two not; two administrators and two requests at once are the
races of the code; three events make a feed of three pages; three jobs and three items over pages of two make a page that cuts through rows of one
column's value, and one that does not.

*The refinement* is checked, and proved, for a library of one batch without crashes and cancellations; outside of that the code does not implement
its documented life cycle, which is what `sync_stale` and `sync_revived` show. The mapping keeps `status` and takes
for `open` the items that are pending or in review.

*Deadlock* is checked in JobAdmission and AppState. The other cfgs switch it off: with every budget spent and everything
settled nothing is left to do, and a job in review waits for a user.

*Fairness.* Weak fairness only. (1) A goroutine that has started continues until it returns, dies or loses the
database: statements come back with a result or an error, the code setting timeouts on pings and River on workers. (2) River fetches every
queued task: it polls, and a task is only taken off by a worker. (3) The periodic jobs come
round: rescue each half hour, cleanup each hour, `CheckPendingSyncs`, the probe each five seconds. (4) `Drain` of JobAdmission assumes
that the items of an active job are worked off; SyncPipeline is where that is examined for sync, and ImportPipeline for imports (`ImportFairness`: (1) to (3) for
one job). (5) Nothing is
assumed of users, of the environment or of crashes: `Calm`, a premise of two properties, says that crashes (and, for admission, retries by the user)
end and the database stays, without which nothing can settle. `JobSettles` excuses a job one of whose workers
timed out inside its completion check, and `ImportSettles` an import that lost a check, a task of the user's answer or of a retry, its gate or part of its upload (`imLost`): nobody repeats
those, a weakness listed among the hazards and, for the upload, the findings. `library` carries `ImportFairness` for all its parts; for a part that is not the import it says nothing.

*Conditions in properties.* Some guarantees hold only apart from a race the code does not prevent, and say so: `RolledBackIsCurrent` and `ServedWhole` except for restores that
overlap, find or leave a broken database, or back up in the second of the archive they load (`bkMixed`), `AdministratorStands` except while administrators act at the same moment (`acCrowded`: two who demote each other at once leave
none), `PromoteOnPlay` except at the end of a
platform write or progress update that overlapped another write of the status (`overlap`), `QueueOrdered` except for games an import queues after the demotion (`late`), `ViewsAgree` except for rows whose equals in the
sorted column do not fit on a page (`GroupOnPage`), `OneHome` except for games written by a worker with an older answer (`exRaced`), `TokensKept` except after a death, a failed write or two users of Epic's directory
(`cnMixed`), `SweepExact` except for a store that changed meanwhile or a Humble order that was passed over (`sfDrift`), `DownloadIsOwn` except for exports of one second
(`exTorn`). The history variables are set only where the race happens, so the properties still see everything else.

Every property of a passing run has a mutant: a definition of the model changed the way a bug would change the code
(a status forgotten in the guard, an unchecked count, an ignored error, a re-classification left out), under which TLC finds the
property violated. The mutants stand before their definitions, under a comment that starts with "Mutant".

## What is proved

TLAPS checks these for all values of the constants. The assumptions are the named `ASSUME`s of the modules: null values lie outside the sets they
complete, functions have their domains, bounds are natural numbers, some sets are finite, statuses and kinds of store are the code's, and requests, processes
and the probe are different. TLC evaluates them in every run. The three theorems of `SyncLifecycle_proofs` have a hypothesis beyond these, named below. Where a property excuses a race (see
*Conditions in properties*), so does the theorem.

Each safety proof has the same three parts: the initial states satisfy an invariant, every action keeps it (a lemma per action or per group of actions that
change the same thing), and it implies the property. The invariants were checked with TLC before they were proved. What follows is why each is needed.

**Jobs and the sync pipeline**

- `JobAdmission_proofs`: **Typing**, and **GuardedAdmission**, `Spec => []AtMostOneGuarded`. Exclusion alone is not inductive: nothing in it
  says that the key is free when a client commits. The invariant adds that a client past the lock holds it (`HoldsLock`), that a client's
  path fits its key's class, so that nobody goes round the lock to a guarded key (`KindFits`), and that the row a client is about to commit
  will find no live row of its key (`ClearAhead`). `ClearAhead` is the step the lock is for: the only step that could
  break it is another guarded commit on the key, for which the other client would have to hold the same lock.
- `SyncPipeline_proofs`: **SyncTyping**, and **Gate**, `Spec => []GateHolds`. A worker of the same job could open the gate or finalize; the invariant adds
  that only a dispatch is at stage 1's labels (`Labelled`), that a job has one dispatch worker at a time (`Sole`), and that its task is running and its
  row exists as long as it has (`Held`); the completion check then finds the gate closed.
- **SingleAnnouncement**, `Spec => []AnnouncedOnce`, in the same module: a goroutine is past the finalizing UPDATE only if it changed the row, so announcements made and
  under way together are at most one. What could reopen the job is a second start of the dispatch, which the property excludes, so the invariant says that an announced
  job is over (`OverOnce`) and that nothing but a cancellation is about a job whose dispatch has not run (`Fresh`): only then is
  the first start known to find nothing announced.
- `SyncLifecycle_proofs`: **LifecycleRefined**, `OneBatch => (Spec => ImplementsLifecycle)`: each step of the pipeline is a step or a stutter of the documented life cycle, for any number of jobs,
  goroutines and games and any refused inserts, failed writes and timeouts. **VerdictsHold**, under the same hypothesis: `FinalizeSound` and `TerminalIsFinal`.
  `OneBatch` says that the server does not die, nobody cancels, and the library (a finite set) is delivered as one batch. Each part is needed:
  `sync_stale` breaks the first promise with a second batch, `sync_revived` the second with a cancellation. The step that has to be right is `Finalize`, whose count is two statements old:
  what was counted must still be so (`Counted`, `Reviewed`). That rests on each game without a parent having one task at most, and a
  pending item as long as it has one (`Single`): once no item is pending, no worker is left to put one into review. `Opening` says that a dispatch finds its job untouched until its batch,
  and a lemma (`FirstBatch`) that the batch is the only one.
- **LockstepKept**, `OneJob => (Spec => []Lockstep)`, in the same module. `OneJob` is the situation of `sync_flow` without its bounds: one job, neither crashes nor timeouts nor cancellations, but
  a library of any number of batches, any parents, any number of workers, refused inserts and failed writes. A crash or a timeout loses a list of items to enqueue, and a cancellation takes tasks
  off the queue of a job that its dispatch may revive: there the rescue has to help. `Lockstep` is not inductive: it says that a parent's task will wake the child that waits, and not
  what the parent has to be doing to keep that promise. `Tracked` says it: every pending item is queued or in hand (`Carried`), on somebody's list (`Listed`), or a child whose parent is not written or is
  just being written (`Left`); and an item whose game is resolved is queued or in hand, which is why a resolved parent is on its way to wake. It needs what a worker knows at each label
  (`Hands`), how far a game is when its item is (`InStep`), and that nothing the user skipped is streamed (`Streamed`). Eight lemmas deal with the ways in which a step moves items on
  (a batch, a task, a take-up, a child left, a resolution, a write, a wake-up, a failed job), one with all steps that move none.

**The application's state**

- `AppState_proofs`: **AppTyping**, **GatesOverCurrent**, `Spec => []ReadyIsCurrent`, and **SingleAdoption**, `Spec => []AdoptedOnce`, from one
  invariant: one process at a time is under the lock row (`Alone`), each step under it finds the history it expects
  (`Finds`), a "ready" on its way into the state was earned by a schema that is current (`Earned`) and that, by the first two, no step takes back, and
  the baseline has been written once exactly if the history says so (`Counted`).

**The collection** (`Library_proofs`)

- **ImportGate**, `ImportSpec => []ImportGateHolds`, and **SingleFinalizer**, `ImportSpec => []FinalizerOnly`. The gate rests on there being one upload,
  begun over an absent row (`OneUpload`); the counts rest on counting also the goroutines that have finalized and not yet applied or emitted (`Counted`).
  Most steps move one goroutine to a label where nothing is at stake; two lemmas (`QuietOnes`, `AllSteps`) deal with these at once.
- **WishedOrOwned**, `LibrarySpec => []WishlistDisjoint`. The dangerous writer is an Acquire that read a platform row, or none, and writes later: the row may have been deleted meanwhile.
  The invariant (`OnRow`) says that as long as an Acquire is open its game is there and not wished for, because it has locked the row that a deletion would need.
- **HoursPromote**, `LibrarySpec => PromoteOnPlay`, an action property. A platform write that commits has decided long before, by what it saw then. The invariant says of an open one that either it has overlapped another write, or the row is still as it
  saw it, so that its promotion is right of the row it commits to; and the same of a progress update. Lemmas about the operators say which writes keep that: those that leave the game alone, those that lock it out, and those that `overlap` names.
- **QueueFollowsList**, `PoolsSpec => QueueOrdered`. The invariant (`QueueInv`) is about the transaction between its statements: the positions given so far are last places among the ids so far (`LastPlace`), to members that nobody can
  delete until the commit; after the demotion every queued member that is not among them came late. It says nothing of games that joined before the demotion, which is why the guard's stale count does no harm.
- **MergedLinksStay**, `TagsSpec => MergedTagsStay`: a rename or a merge changes what the request has read as it changes the links.
- **FixesNeverFight**, `SmellsSpec => FixesSettle`: for each of the three fixes and each of the nine checks, what the fix writes makes the check's condition no truer. The invariant
  (`FixFlagged`) is that a fix under way is about games its check flagged, except for those edited since.
- **PollsSeeTheEnd**, `ViewsSpec => PollSeesCompletion`: the lemma (`FoundJobs`) is that the query for the job that ended last finds one if any has ended, and none that ended later is left. It rests on a
  finite set of stamps having a greatest (`LargestExists`).
- **ViewsFit**, `ViewsSpec => []ViewsAgree`: the views are functions of the rows, so the argument is about counting. An order gives each row a place, the number of those before it; the places are different
  (`PlacesDiffer`) and leave no gap (`EveryPlace`), so pages cut out of the places by size and number (`PagesOfKeys`) show each title under review on one page, and there are as many pages as the quotient says.
  In a list with ties a row's place depends on the query, but lies between the number of rows with a smaller key and that of rows with no greater one (`OnePage`): where these fall on one page, so does the row, each time. Items
  are counted by status once more in the summary, and the counts add up because the statuses are disjoint.
- **ReadsFit**, `QuerySpec => []ReadsAgree`: the invariant is that a client that has turned n pages has seen the first n pages' rows of one sorted list (`QueryInv`), which has every match once (`AllSorted`). No
  page repeats a row as long as no two rows tie both in the order asked for and in `created_at`, by which the code breaks ties (`NoTies`, a premise of the property). The statistics are sums over the statuses; that the
  sums add up to the number of matches is shown by a smallest set for which they would not (`CountsAddUp`). For a pool's card, that its facets pick what the list of the same facets shows (`CardsAgree`).

**The stores and the catalogue** (`Stores_proofs`)

- **RateTypeCorrect**, and **RateHolding**, `LimiterSpec => []RateHolds`. A bucket is weighed against the window: what was let through since it opened and
  what the bucket still holds cannot exceed what the window has earned (`Covered`), for the row, for a caller that has read it under the lock and for one that
  has taken its token. The row lock is why what was read is still what is stored.
- **MetaTyping**, and **CoversExist**, `MetaSpec => []CoverOnDisk`. The row is written steps after the download, by a writer that carries the image's
  name; the invariant adds that such a writer's file exists (`CarriedOnDisk`), and a step lemma that no file goes away (`FilesStay`).
- **LinksHaveOneHome**, `ExtSpec => []OneHome`: also a worker about to write holds the game's present answer (`HomeWorkers`), and between a rematch's two
  statements no link of the game is left (`HomeUnlinked`). `HomeKept` deals at once with the steps that give no game another answer.
- **ReaperSpares**, `LinksSpec => []OnlyOrphansReaped`: the reaper decides on a list read before it writes, so the list must consist of items that no task will run any more, now and
  later (`StuckDoomed`). Age is the argument: an item that its dispatch is still to enqueue is younger than `ReapMinAge` (`Young`).
- **FetchesSound**, `FetchSpec => []FetchSound`, for the five ways of paging, any page size and any library. The invariant follows the library through the adapter:
  what is on later pages, fetched and not handed over, or already written is together the library (`NothingLost`) and nothing else (`NothingElse`); when the adapter is done all is delivered
  (`AllDelivered`), which makes the sweeps exact (`SweepExact`). That the rows of a title form one group (`GroupsFlat`) is the other half of the property.
- **TokensSurvive**, `ConnectionsSpec => []TokensKept`, and **ToldOfExpiryOnce**, `ConnectionsSpec => []NoNagging`. A sync that has rotated the token may find the row cleared or replaced. `Held` says where the newest
  token is then: in the row (`RowKept`), with the sync that will write it (`Carried`), or in Epic's directory (`Directory`). For the notice, `ToldOnce` relates the flag the sync read before it
  started to what the user has been told since.
- **RetriesAreFresh**, `IgdbSpec => []RetryIsFresh`: tokens are numbered as Twitch issues them (`TokensIssued`). A late 401 may clear a token that another call has just fetched, which costs a
  request and nothing else, since what a call was refused is never in the cache again once that call has cleared it (`RefusedGone`): so what it finds or fetches afterwards has a greater number.
- **ScopedSearchesFind**, `IgdbSpec => []SearchLosesNothing`, for any catalogue, platforms, limit, number of queries and sets of searches that fail. A pass merges the answers of its searches, each cut off at the limit, and ranks
  them. What makes it sound is that the first of many that satisfy a clause are still among the first when fewer satisfy it (`FirstOfFewer`): a scoped query does not lose a game to others that push it off the end. That ranking
  loses and repeats nothing (`RankedOnce`) rests on the places of an order again; what is worth listing and is not listed has a full list of no lesser games before it.

**The services** (`Services_proofs`)

- **AdministratorAlways**, `AccountsSpec => []AdministratorStands`. A request is judged when it arrives and writes later, so the invariant says of every
  request under way that somebody administers after it (`Ahead`), and that one administrator's request at most is under way as long as none overlapped (`Exclusive`).
- **OneAtATime**, `RestoreSpec => []OneAtTheDatabase`. A restore gives up the mutex half-way, so the invariant names the labels at which
  an operation holds it (`HolderOwns`); each action keeps the mutex, takes it when free or leaves those labels.
- **NobodyServedHalf**, `RestoreSpec => []ServedWhole`: a database is broken only in maintenance, and a restore that nothing disturbed (`Unmixed`) has a whole archive to load, a
  whole one to go back to, and no backup beside it that has dumped a broken database.
- **RollbackGivesBack**, `RestoreSpec => RolledBackIsCurrent`: in addition the pre-restore archive is as late as what the restore found (`Late`), as long as it can be read, and so is every dump that is being
  written beside it (`Current`).
- **DeliveredOnce**, `NotifySpec => []TriedOnce`. That nothing is sent twice follows from tasks and workers of one event or channel being one (`EventsOnce`, `ChannelsOnce`); that nobody is
  forgotten, from each worker's course (`Course`): whom it owes is still in its lists or has been tried.
- **FeedMissesNothing**, `NotifySpec => []FeedComplete`: what a reader has seen lies at its cursor or above, once each, and what was there all the while was seen or lies below (`FeedSound`).
  Two lemmas carry it: what a page leaves out lies below its last row (`PageFacts`), and one row more than the page is found exactly if there is one (`OneMore`). They need the order of the feed, by time and
  then by id, to be total on what is stored (`KeysOrdered`), and a finite set to have a first row in it (`FirstOf`).
- **DownloadsAreOwn**, `ExportsSpec => []DownloadIsOwn`: files are named by the second, so a job's file is its own as long as no other export writes in that second (`OwnFile`, `Alone`), and no later
  one can, since names lie in the past (`PathsPast`) until the second is over (`FreshStays`).
- **LibrariesArrive**, `ExportsSpec => []RoundTrip`, through both halves of the way. An export reads games and pools in several statements: as long as nobody edits meanwhile, what it has read agrees with the library
  it remembers (`Faithful`, `ReadSoFar`). An import has items left, failed and arrived, which together are the document's games, and what has arrived is what settling makes of the document's row (`CopySoFar`). The
  pools come last and keep their order: the number of pools before one is the same on both sides (`PoolsInOrder`). The property is about an empty destination, its pools included, since a pool of the
  same name would be merged with.

Where an argument goes by a number (the first batch, the last page, the least place in a list) it takes the least element of a set of naturals, as the induction theorems of the library have operator parameters.

*What the proofs changed in the model.* An invariant that would not close showed places where a module said less than the code or more: GOG's adapter goes on by the number of the page instead
of from a list it does not have, `ServedWhole` excuses a restore of an archive that was itself made of a broken database (`ValidateArchive` does not see that), and `OneHome` now holds of every game
that no worker with an older answer wrote, where it spoke of settled ones only. `RoundTrip` said nothing of the destination's pools; it now asks
for none. `SearchLosesNothing` promised that a scoped search names a game of another platform only when it knows no other; with three games in the catalogue that is false, as the exact-name query leaves out games of no
known platform, and the property now says what holds. `PromoteOnPlay`, `QueueOrdered` and `ViewsAgree` held of handlers that
were one step and of lists without ties; taken apart as the code is, they need the exceptions they now name. `ReadsAgree` held in the run because the libraries had no ties; the premise (`NoTies`) is now explicit. IgdbClient and LibraryQuery sort by the place that an order gives
a row instead of by a recursive insertion, so that they can be proved about.

*Only model-checked.*

- Liveness under fairness, which needs ENABLED and is out of the prover's reach: `MaintenanceKeyFreed`, `JobSettles`, `ReviewAsked`, `MigrationSettles`, `Recovers`, `ImportSettles`.
- `Lockstep` for several jobs is not claimed: tasks that a failed job leaves in the queue can still raise games that another job counts. Every other invariant and
  action property of the passing runs is stated by a theorem.

## Findings

Four are runs in which TLC finds the property violated, with the shortest way to it in the trace.

- `FinalizeSound` (`sync_stale`): a completion check that counted between two batches runs its UPDATE after the last batch has opened the gate, and completes a job
  with pending items: the UPDATE looks at the gate again, not at the items.
- `TerminalIsFinal` (`sync_revived`): cancelling a job does not cancel its dispatch task; the dispatch sets the row to processing whatever it is.
- `ChildWoken` (`sync_child`): a child whose parent the user skipped in an earlier sync waits for a wake-up that no task of this job sends.
- `ProbeRetries` (`app_recovery`): a connection lost while the migrator's tables are created at the first start leaves a server that never recovers without a restart:
  `bunMig` is set before `Init` has succeeded and the first-init recovery does not reset it.

The others are kept as definitions that do not hold. To see a counterexample, check the property with the cfg named, alone.

- `OneActiveImport` (`MCAdmissionImport.cfg`): the import guard takes no lock; two uploads of one source both become active.
- `SyncKeyFreed` (`MCAdmissionSync.cfg`): a sync row committed but never enqueued has its gate open by default, so the cleanup of stale jobs, which asks for a closed
  gate, leaves it; it holds its key until a user cancels it.
- `PoolsApplyLast` (add it to `MCLibrary.cfg`): an export's pools are applied while games of the file are still on their way.
- `SkippedNotRaised`, `ChildFollows`, `CoverWhole` (`MCStores.cfg`): a search that answers after the skip raises the game again; a rematch leaves the children's links;
  a cover cut short is taken for a finished one.
- `PlayedIsStarted`, `QueueIsTheList`, `ImportEnds` (`MCLibrary.cfg`): a platform write with hours and a progress update to not_started at the same time leave a game not started with hours; an import's
  member stays queued beside the list that a request has just set; an upload whose gate or item cannot be written leaves an import that never ends and keeps its source busy.
- `BackedUpFirst` (`MCServices.cfg`): the check that lets setup restores run only without users answers 403 and does not stop them, so a database in use is replaced without a backup.
- `PasswordSticks`, `RestoresWhatWasAsked`, `EveryGameArrives` (`MCServices.cfg`): an administrator's update writes back an old password; the pre-restore backup of the same second
  overwrites the archive to be restored; of two items that create one tag, one fails.

PROJECT.json has these with quotations, and further disagreements read off the code while modelling it (the way back that a busy mutex takes from a restore, the lost error of Close, the
document version, a Humble order passed over, copies without a storefront, the version notice that comes again). Lesser observations, in the
comments of the modules: the callbacks that should stop workers during a restore do nothing; handlers keep the River client of before a restore; a retry of failed items does not
reopen an item's job; `ArgsForJobType` knows no store-link refresh; an import that crashes while it is streamed keeps its gate closed; the job list and the items of a job have no tie-break, so pages may
repeat or skip rows of one batch, status or type; an event whose task was refused is
never delivered; the limiter lets one request per window through beyond burst and rate.

## What is not modelled

Abstracted in modelled parts: database errors other than the named faults and worker timeouts; the changes log of the sync workers; priorities,
attempts and back-off of tasks where no property depends on them; `lastError` and the log of a migration; the services rebuilt after a restore; texts of messages,
names, notes and dates no rule reads; wire formats of the stores; the listings of sync configurations.

Skip, rematch and reset are modelled on the games and links (ExternalGames) and on the row they insert (JobAdmission), not inside SyncPipeline, whose state space they
would multiply. `HandleSetupAdmin` is in Accounts; AppState lets `needsSetup` take any value when users are counted. `ReinitAfterRestore` and `SetAppState` are not composed with Restore.

Not modelled at all: matching and CSV mapping (pure functions over text), the command line clients and the web interface (sequential users of the API), graceful shutdown
and the wiring of services, logging, configuration, static files. PROJECT.json lists every component with its status
and every hazard with the properties that watch it or the reason why none does.

## Plan

The components are modelled; what is left, in this order.

1. Proofs: a type invariant of ImportPipeline, whose proofs use the part of it they need (`AtTyped`); Lockstep where tasks of a failed job are about games of the next one, after stating what should hold then.
2. ImportPipeline against SyncLifecycle: with a generic import the same abstract life cycle.
3. Restore composed with AppState: the probe and the migrate page while a restore drops the schema.
4. Matching's decision rule as operators checked against a reference definition.
