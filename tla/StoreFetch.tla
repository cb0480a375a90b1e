------------------------------ MODULE StoreFetch ------------------------------
(***************************************************************************)
(* What one sync reads of a store and leaves in external_games: the five   *)
(* adapters, each with its own way to page through a library that may      *)
(* change meanwhile, the upserts of DispatchSyncWorker, and the sweeps     *)
(* that drop platforms and mark games removed.  Games are numbers, in the  *)
(* order in which the store lists them.                                    *)
(***************************************************************************)
EXTENDS Naturals, FiniteSets

CONSTANTS
    Adapters,       \* "steam", "playstation-store", "gog", "epic", "humble"
    StoreGames,     \* titles the user may own
    TitleOf,        \* the name the store gives each of them
    OrderOf,        \* Humble: the order a game was bought in
    StorePlatforms, \* numbers: 1 is "pc-windows", the order is Steam's
    PlatformLists,  \* the platforms a store may report for a game
    PageSize,       \* titles per page or batch
    MaxPlaytime,    \* bound on the hours a store reports
    MaxChanges      \* bound on how often the store's data changes

ASSUME StoreFetchAssumption ==
    /\ Adapters \subseteq {"steam", "playstation-store", "gog", "epic", "humble"}
    /\ StoreGames \subseteq Nat \ {0} /\ IsFiniteSet(StoreGames)
    /\ \A g \in StoreGames : OrderOf[g] \in Nat
    /\ StorePlatforms \subseteq Nat /\ 1 \in StorePlatforms
    /\ PlatformLists \subseteq SUBSET StorePlatforms
    /\ PageSize \in Nat \ {0} /\ {MaxPlaytime, MaxChanges} \subseteq Nat

VARIABLES
    sfStore,   \* which adapter
    sfOwned,   \* the user's titles at the store
    sfPlats,   \* the platforms the store reports for each title
    sfHours,   \* the playtime it reports
    sfRows,    \* external_games with their external_game_platforms
    sfFetch,   \* the dispatch: where it is and what it holds in memory
    sfDrift,   \* the store's data changed, or an order was passed over, since it began
    sfChanges  \* bound reached so far

fetchVars == <<sfStore, sfOwned, sfPlats, sfHours, sfRows, sfFetch, sfDrift, sfChanges>>
storeSide == <<sfStore, sfOwned, sfPlats, sfHours, sfChanges>>

NoParent == 0
NoEntry  == [there |-> FALSE, avail |-> FALSE, parent |-> NoParent,
             hours |-> [p \in StorePlatforms |-> 0], plats |-> {}]

FetchIdle == [pc |-> "idle", page |-> 0, list |-> {}, batch |-> {}, then |-> "idle", seen |-> {},
              plats |-> [g \in StoreGames |-> {}]]

FetchInit ==
    /\ sfStore \in Adapters
    /\ sfOwned \in SUBSET StoreGames
    /\ sfPlats \in [StoreGames -> PlatformLists]
    /\ sfHours = [g \in StoreGames |-> 0]
    /\ sfRows = [g \in StoreGames |-> NoEntry]
    /\ sfFetch = FetchIdle
    /\ sfDrift = FALSE /\ sfChanges = 0

Least(S) == CHOOSE x \in S : \A y \in S : x <= y
Greater(a, b) == IF a >= b THEN a ELSE b

\* Titles of S on a page of a listing, and how many pages there are.
OnStorePage(S, page) ==
    {g \in S : LET before == Cardinality({h \in S : h < g})
               IN  (page - 1) * PageSize <= before /\ before < page * PageSize}
PageCount(S) == (Cardinality(S) + PageSize - 1) \div PageSize

---------------------------------------------------------------------------
(* What becomes an entry.  Steam and GOG report a title without platforms,  *)
(* which then counts as a Windows game; the other adapters leave it out:    *)
(* Humble because nothing of it is a game, PlayStation because it knows     *)
(* only two platforms, Epic because it is an add-on.                        *)

HumbleEntry(g) == sfPlats[g] # {}
Qualifies(g)   == sfStore \in {"steam", "gog"} \/ HumbleEntry(g)

EntryPlatforms(g) == IF sfStore = "epic" \/ sfPlats[g] = {} THEN {1} ELSE sfPlats[g]

\* Steam's total, or PlayStation's for a title that is owned and was played.
EntryHours(g) == IF sfStore \in {"steam", "playstation-store"} THEN sfHours[g] ELSE 0

---------------------------------------------------------------------------
(* GetLibrary. *)

\* Steam and Epic list everything at once; Humble lists the orders.
StartFetch ==
    /\ sfFetch.pc = "idle"
    /\ sfFetch' = [FetchIdle EXCEPT
                     !.pc = CASE sfStore \in {"steam", "epic"} -> "batches"
                              [] sfStore = "humble"            -> "orders"
                              [] OTHER                         -> "pages",
                     !.page = IF sfStore \in {"gog", "playstation-store"} THEN 1 ELSE 0,
                     !.list = CASE sfStore \in {"steam", "epic"} -> sfOwned
                                [] sfStore = "humble"            -> {OrderOf[g] : g \in sfOwned}
                                [] OTHER                         -> {}]
    /\ sfDrift' = FALSE
    /\ UNCHANGED <<storeSide, sfRows>>

\* GOG: one page and one batch at a time.  The number of pages is the one of the answer,
\* or it is computed when the answer says zero.
FetchPage ==
    /\ sfFetch.pc = "pages" /\ sfStore = "gog"
    /\ sfFetch' = [sfFetch EXCEPT !.pc = "upsert", !.batch = OnStorePage(sfOwned, sfFetch.page),
                     !.page = @ + 1,
                     !.then = IF sfFetch.page >= PageCount(sfOwned) THEN "sweep" ELSE "pages"]
    /\ UNCHANGED <<storeSide, sfRows, sfDrift>>

\* Mutant: a full page is taken for the last one.
PurchasedPageShort ==
    LET games == OnStorePage(sfOwned, sfFetch.page) IN
    /\ sfFetch.pc = "pages" /\ sfStore = "playstation-store"
    /\ sfFetch' = [sfFetch EXCEPT !.list = @ \cup games, !.page = @ + 1,
                                  !.pc = IF Cardinality(games) <= PageSize THEN "batches" ELSE @]
    /\ UNCHANGED <<storeSide, sfRows, sfDrift>>

\* PlayStation: pages are collected until one is not full, then handed over in batches.
FetchPurchasedGames ==
    LET games == OnStorePage(sfOwned, sfFetch.page) IN
    /\ sfFetch.pc = "pages" /\ sfStore = "playstation-store"
    /\ sfFetch' = [sfFetch EXCEPT !.list = @ \cup games, !.page = @ + 1,
                                  !.pc = IF Cardinality(games) < PageSize THEN "batches" ELSE @]
    /\ UNCHANGED <<storeSide, sfRows, sfDrift>>

\* The next batch of a list in memory; after the last one the sweeps.
NextBatch ==
    LET B == OnStorePage(sfFetch.list, 1) IN
    /\ sfFetch.pc = "batches"
    /\ IF sfFetch.list = {}
       THEN sfFetch' = [sfFetch EXCEPT !.pc = "sweep"]
       ELSE sfFetch' = [sfFetch EXCEPT !.pc = "upsert", !.batch = B, !.list = @ \ B,
                                       !.then = "batches"]
    /\ UNCHANGED <<storeSide, sfRows, sfDrift>>

\* Humble: order after order.  One that cannot be fetched is passed over; entries are
\* handed over when a batch is full and at the end.
FetchOrder ==
    /\ sfFetch.pc = "orders"
    /\ IF sfFetch.list = {}
       THEN sfFetch' = [sfFetch EXCEPT !.pc = "upsert", !.then = "sweep"] /\ UNCHANGED sfDrift
       ELSE LET o == Least(sfFetch.list)
                games == {g \in sfOwned : OrderOf[g] = o}
                held  == sfFetch.batch \cup games
            IN  \/ /\ sfFetch' = [sfFetch EXCEPT !.list = @ \ {o}, !.batch = held,
                                    !.then = "orders",
                                    !.pc = IF Cardinality(held) >= PageSize THEN "upsert" ELSE @]
                   /\ UNCHANGED sfDrift
                \/ sfFetch' = [sfFetch EXCEPT !.list = @ \ {o}] /\ sfDrift' = TRUE
    /\ UNCHANGED <<storeSide, sfRows>>

\* Any other error, of whichever call, fails the job before the sweeps; only a rate
\* limit of Steam's is waited out.
FailFetch ==
    /\ sfFetch.pc \in {"pages", "batches", "orders"}
    /\ sfFetch' = FetchIdle /\ sfDrift' = TRUE
    /\ UNCHANGED <<storeSide, sfRows>>

---------------------------------------------------------------------------
(* The batch callback of DispatchSyncWorker.Work. *)

\* Rows of the same title that can be the parent of a new one.
ParentsFor(g) ==
    {h \in StoreGames \ {g} : sfRows[h].there /\ TitleOf[h] = TitleOf[g]
                              /\ sfRows[h].parent = NoParent}

\* upsertExternalGame: available again, and a new row is grouped under one of its title.
\* upsertPlatforms: the hours go to the first platform, and never down.
UpsertEntry ==
    /\ sfFetch.pc = "upsert"
    /\ IF sfFetch.batch = {}
       THEN sfFetch' = [sfFetch EXCEPT !.pc = sfFetch.then] /\ UNCHANGED sfRows
       ELSE LET g == Least(sfFetch.batch)
                plats == EntryPlatforms(g)
                first == Least(plats)
                old   == sfRows[g]
            IN  IF ~Qualifies(g)
                THEN sfFetch' = [sfFetch EXCEPT !.batch = @ \ {g}] /\ UNCHANGED sfRows
                ELSE /\ \E parent \in (IF old.there THEN {old.parent}
                                       ELSE IF ParentsFor(g) = {} THEN {NoParent}
                                       ELSE ParentsFor(g)) :
                          sfRows' = [sfRows EXCEPT ![g] =
                            [there |-> TRUE, avail |-> TRUE, parent |-> parent,
                             plats |-> old.plats \cup plats,
                             hours |-> [old.hours EXCEPT ![first] = Greater(@, EntryHours(g))]]]
                     /\ sfFetch' = [sfFetch EXCEPT !.batch = @ \ {g}, !.seen = @ \cup {g},
                                                   !.plats[g] = plats]
    /\ UNCHANGED <<storeSide, sfDrift>>

---------------------------------------------------------------------------
(* The sweeps. *)

\* Platform rows that were not reported are deleted.
SweepPlatforms ==
    /\ sfFetch.pc = "sweep"
    /\ sfRows' = [g \in StoreGames |->
                    IF g \notin sfFetch.seen THEN sfRows[g]
                    ELSE [sfRows[g] EXCEPT !.plats = @ \cap sfFetch.plats[g],
                            !.hours = [p \in StorePlatforms |->
                                         IF p \in sfFetch.plats[g] THEN @[p] ELSE 0]]]
    /\ sfFetch' = [sfFetch EXCEPT !.pc = "removed"]
    /\ UNCHANGED <<storeSide, sfDrift>>

\* Available rows that were not delivered are marked removed, and the dispatch is through.
MarkRemoved ==
    /\ sfFetch.pc = "removed"
    /\ sfRows' = [g \in StoreGames |->
                    IF g \in sfFetch.seen THEN sfRows[g] ELSE [sfRows[g] EXCEPT !.avail = FALSE]]
    /\ sfFetch' = [FetchIdle EXCEPT !.pc = "swept"]
    /\ UNCHANGED <<storeSide, sfDrift>>

EndFetch ==
    /\ sfFetch.pc = "swept"
    /\ sfFetch' = FetchIdle
    /\ UNCHANGED <<storeSide, sfRows, sfDrift>>

---------------------------------------------------------------------------
(* The store, and the user who resets the storefront's data. *)

StoreChanges ==
    /\ sfChanges < MaxChanges /\ sfChanges' = sfChanges + 1
    /\ \/ \E g \in StoreGames :
            /\ sfOwned' = IF g \in sfOwned THEN sfOwned \ {g} ELSE sfOwned \cup {g}
            /\ UNCHANGED <<sfPlats, sfHours>>
       \/ \E g \in sfOwned, ps \in PlatformLists :
            sfPlats' = [sfPlats EXCEPT ![g] = ps] /\ UNCHANGED <<sfOwned, sfHours>>
       \/ \E g \in sfOwned :
            /\ sfHours[g] < MaxPlaytime
            /\ sfHours' = [sfHours EXCEPT ![g] = @ + 1] /\ UNCHANGED <<sfOwned, sfPlats>>
    /\ sfDrift' = TRUE
    /\ UNCHANGED <<sfStore, sfRows, sfFetch>>

\* The deletes of HandleResetSyncData; a dispatch that runs is not stopped.
DeleteExternalGames ==
    /\ \E g \in StoreGames : sfRows[g].there
    /\ sfRows' = [g \in StoreGames |-> NoEntry]
    /\ sfDrift' = TRUE
    /\ UNCHANGED <<storeSide, sfFetch>>

FetchNext ==
    \/ StartFetch \/ FetchPage \/ FetchPurchasedGames \/ NextBatch \/ FetchOrder \/ FailFetch
    \/ UpsertEntry \/ SweepPlatforms \/ MarkRemoved \/ EndFetch
    \/ StoreChanges \/ DeleteExternalGames

FetchSpec == FetchInit /\ [][FetchNext]_fetchVars

---------------------------------------------------------------------------
\* The availability sweep marks games "not seen in this sync run" which "have been
\* removed from the user's library": after a sync of a library that did not change, the
\* available rows are exactly the titles that qualify, each with the store's platforms
\* and at least its playtime, however the store pages.  (An order of Humble's that could
\* not be fetched is the exception: its games are marked removed.)
SweepExact ==
    sfFetch.pc = "swept" /\ ~sfDrift =>
        /\ {g \in StoreGames : sfRows[g].avail} = {g \in sfOwned : Qualifies(g)}
        /\ \A g \in StoreGames : sfRows[g].avail =>
              /\ sfRows[g].plats = EntryPlatforms(g)
              /\ sfRows[g].hours[Least(EntryPlatforms(g))] >= EntryHours(g)

\* A game that waits for its parent waits for one that does not wait itself: the rows of
\* one title form one group, whatever is synced, removed and bought again in between.
GroupsFlat ==
    \A g \in StoreGames :
        sfRows[g].parent # NoParent =>
            /\ sfRows[sfRows[g].parent].there
            /\ sfRows[sfRows[g].parent].parent = NoParent

\* What dispatches leave in the external library is right, row by row and as groups.
FetchSound == SweepExact /\ GroupsFlat
=============================================================================
