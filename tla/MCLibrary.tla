------------------------------ MODULE MCLibrary ------------------------------
(* An instance of the collection and of imports into it for TLC: one       *)
(* behaviour exercises the rows of one game, or the members of a pool, or  *)
(* the order of two, the tags, or reads, or the smell checks and their     *)
(* fixes; or it runs an import.                                            *)
EXTENDS Pools, Tags, LibraryQuery, Smells, ImportPipeline, TLC

CONSTANTS g1, g2, g3, q1, q2

VARIABLE part

vars == <<part, libraryVars, poolsVars, tagsVars, queryVars, smellVars, importVars>>

\* A pair with a storefront, one without, and one whose storefront is unknown.
SteamPC == [platform |-> "pc", storefront |-> "steam"]
DiscPC  == [platform |-> "pc", storefront |-> NoStore]
WrongPC == [platform |-> "pc", storefront |-> "wrong"]
PairSet == {SteamPC, DiscPC, WrongPC}

Lower == ("RPG" :> "rpg") @@ ("rpg" :> "rpg") 

(* A library to read: two spellings of a platform row, a game without any,  *)
(* a wishlist entry, a genre that is inside another one.                   *)
Row(st, w, rating, genres, ts, rows) ==
    [status |-> st, wish |-> w, rating |-> rating, genres |-> genres, tags |-> ts, rows |-> rows]
Copy(p, s, own, hours) == [platform |-> p, storefront |-> s, own |-> own, hours |-> hours]

RowSet ==
    { Row("not_started", FALSE, 0, {"Strategy"}, {}, {Copy("pc", "steam", "owned", 0)}),
      Row("in_progress", FALSE, 4, {"RTS"}, {"t"}, {Copy("pc", "steam", "owned", 3), Copy("ps5", "psn", "subscription", 1)}),
      Row("completed", FALSE, 4, {"Strategy", "RTS"}, {}, {Copy("ps5", "unknown", "owned", 9)}),
      Row("in_progress", FALSE, 2, {}, {"t"}, {}),
      Row("not_started", TRUE, 0, {"Strategy"}, {}, {}) }

Card(st, rmin, genre, tag, plats, stores, own) ==
    [status |-> st, rating_min |-> rmin, genre |-> genre, tag |-> tag,
     platform |-> plats, storefront |-> stores, own |-> own]

CardSet ==
    { NoFacets,
      Card({"not_started"}, 0, {}, {}, {}, {}, ""),
      Card({"in_progress", "completed"}, 3, {}, {}, {}, {}, ""),
      Card({}, 0, {"Strategy"}, {}, {}, {}, ""),
      Card({}, 0, {"RTS"}, {"t"}, {}, {}, ""),
      Card({}, 0, {}, {}, {"pc"}, {"psn"}, ""),
      Card({}, 0, {}, {}, {"ps5"}, {"psn", "steam"}, ""),
      Card({}, 0, {}, {}, {}, {"unknown"}, ""),
      Card({}, 0, {}, {}, {"pc", "unknown"}, {}, "owned"),
      Card({}, 0, {}, {}, {"ps5"}, {}, "owned") }

Created == (g1 :> 2) @@ (g2 :> 1) @@ (g3 :> 3)
Substrings == {<<"Strategy", "Strategy">>, <<"RTS", "RTS">>, <<"Strategy", "RTS">>}

\* Rows of a game to be checked: sound, dated far in the past, without a store, broken.
Platform(store, owned, date, hours) == [store |-> store, owned |-> owned, date |-> date, hours |-> hours]
PlatformSet ==
    { Platform("valid", TRUE, "", 0), Platform("valid", TRUE, "possible", 2),
      Platform("none", FALSE, "", 1), Platform("invalid", TRUE, "impossible", 0) }
GameSet ==
    [status : {"not_started", "in_progress", "completed"}, wish : BOOLEAN, rated : BOOLEAN]
CheckedGames == {s \in GameSet : s.rated = (s.status # "completed")}

SmellsIdle ==
    /\ smGame = [g \in SmellGames |-> CHOOSE s \in CheckedGames : TRUE]
    /\ smRows = [g \in SmellGames |-> {}]
    /\ smIgnores = {} /\ smFix = NoFix /\ smEdited = FALSE

SomeRows == CHOOSE f \in [Listed -> RowSet] : TRUE

Init ==
    /\ LibraryInit /\ PoolsInit /\ TagsInit
    /\ \/ part = "query" /\ QueryInit
       \/ /\ part \in {"rows", "members", "order", "tags", "smells", "import"}
          /\ qRows = SomeRows /\ qCard = NoFacets /\ qOrder = "asc" /\ qPage = 0 /\ qSeen = <<>>
    /\ IF part = "smells" THEN SmellsInit ELSE SmellsIdle
    /\ ImportInit /\ (part # "import" => imKind = "generic")

RowStep ==
    /\ part = "rows"
    /\ \/ RowOps(g1)
       \/ TransactionEnds
       \/ \E k \in Keys : HandleBulkAddPlatforms(Games, k) \/ HandleBulkRemovePlatforms(Games, k)
       \/ ClearWishlist(Games)
    /\ UNCHANGED <<part, poolsVars, tagsVars, queryVars, smellVars, importVars>>

\* Rows without platforms, as far as the pools see them.
MemberStep ==
    /\ part = "members"
    /\ \/ MemberOps(q1) \/ PoolOps(q1) \/ SetQueueSteps
       \/ /\ \/ \E g \in Games :
                  \/ HandleCreateUserGame(g, "not_started", FALSE, {}, [hours |-> 0, own |-> Max(Ranks)])
                  \/ \E st \in Statuses : HandleUpdateUserGame(g, st)
             \/ \E G \in SUBSET Games :
                  HandleBulkDelete(G) \/ \E st \in Statuses : HandleBulkUpdate(G, st)
             \/ HandleClearLibrary
          /\ UNCHANGED poolsVars
    /\ UNCHANGED <<part, tagsVars, queryVars, smellVars, importVars>>

OrderStep ==
    /\ part = "order"
    /\ \/ \E p \in Pools : PoolOps(p)
       \/ \E ids \in Lists(Pools) : HandleReorderPools(ids)
    /\ UNCHANGED <<part, tagsVars, queryVars, smellVars, importVars>>

TagStep == part = "tags" /\ TagsNext /\ UNCHANGED <<part, libraryVars, poolsVars, queryVars, smellVars, importVars>>

QueryStep == part = "query" /\ QueryNext /\ UNCHANGED <<part, libraryVars, poolsVars, tagsVars, smellVars, importVars>>

SmellStep == part = "smells" /\ SmellsNext /\ UNCHANGED <<part, libraryVars, poolsVars, tagsVars, queryVars, importVars>>

\* At most two tasks: one of each item, or two of one that a retry and the sweeper
\* both rescued.
TaskCount ==
    MapThenSumSet(LAMBDA task : imQueue[task] + Cardinality({w \in Workers : imOn[w] = task}), ImportTasks)

ImportStep ==
    /\ part = "import" /\ ImportNext /\ TaskCount' <= 2
    /\ UNCHANGED <<part, libraryVars, poolsVars, tagsVars, queryVars, smellVars>>
Next ==
    \/ SmellStep \/ QueryStep \/ RowStep \/ MemberStep \/ OrderStep \/ TagStep
    \/ ImportStep

Spec == Init /\ [][Next]_vars /\ ImportFairness
=============================================================================
