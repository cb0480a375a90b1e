---------------------------- MODULE LibraryQuery -----------------------------
(***************************************************************************)
(* Reading the collection: the facets of GET /api/user-games, the saved    *)
(* filter of a pool, pagination, "select all" (/user-games/ids), the       *)
(* filter options and the statistics.  The answers are functions of the    *)
(* rows; a client scrolls the list page by page, and every page is a query *)
(* of its own.                                                             *)
(***************************************************************************)
EXTENDS Integers, SequencesExt

CONSTANTS
    Listed,         \* the user_games rows
    RowChoices,     \* what a row may hold: see below
    Cards,          \* facet selections: see Facets
    FinishedStates, \* enum.FinishedPlayStatuses
    CreatedAt,      \* Listed -> Nat, user_games.created_at
    Inside,         \* <<a, b>>: the name a is a substring of the name b, case apart
    PerPage         \* the per_page parameter

\* "null" stands for NULL and "unknown" for asking for it: neither is anybody's name.
ASSUME QueryAssumption ==
    /\ IsFiniteSet(Listed) /\ CreatedAt \in [Listed -> Nat] /\ PerPage \in Nat \ {0}
    /\ \A row \in RowChoices :
          /\ row.wish \in BOOLEAN /\ row.rating \in Nat /\ row.status \notin {"null", "unknown"}
          /\ \A x \in row.genres : <<x, x>> \in Inside
          /\ \A r \in row.rows : r.own \notin {"null", ""}
    /\ \A c \in Cards : "null" \notin c.platform \cup c.storefront

VARIABLES
    qRows,      \* the rows
    qCard,      \* the facets of the request, also saved as the only card of a pool
    qOrder,     \* sort_order of a sort by personal_rating
    qPage,      \* pages the client has read
    qSeen       \* the ids on them, in order

queryVars == <<qRows, qCard, qOrder, qPage, qSeen>>

\* A row: status, wish, rating (0 for NULL), genres, tags, and the platform rows,
\* each [platform, storefront ("unknown" for NULL), own, hours].
Facets == {"status", "rating_min", "genre", "tag", "platform", "storefront"}

NullRow == [platform |-> "null", storefront |-> "unknown", own |-> "null", hours |-> 0]

\* LEFT JOIN user_game_platforms: a game without rows stays, with NULLs.
Joined(row) == IF row.rows = {} THEN {NullRow} ELSE row.rows

-----------------------------------------------------------------------------
(* Facets: values OR within a facet, facets AND.  Platform and storefront   *)
(* are conditions on one joined row.                                       *)

ApplyPlayStatus(row, c) == c.status = {} \/ row.status \in c.status
\* A NULL rating fails every comparison.
ApplyRatingMin(row, c)  == c.rating_min = 0 \/ (row.rating # 0 /\ row.rating >= c.rating_min)
\* ILIKE '%genre%' on the comma-separated list.
ApplyGenre(row, c)      == c.genre = {} \/ \E x \in c.genre, y \in row.genres : <<x, y>> \in Inside
ApplyTag(row, c)        == c.tag = {} \/ row.tags \cap c.tag # {}
ApplyWishlist(row, w)   == row.wish = w

\* "unknown" asks for NULL, known names for equality.
ApplyPlatform(r, c) ==
    \/ c.platform = {}
    \/ r.platform \in c.platform \ {"unknown"}
    \/ "unknown" \in c.platform /\ r.platform = "null"
ApplyStorefront(r, c) ==
    \/ c.storefront = {}
    \/ r.storefront \in c.storefront \ {"unknown"}
    \/ "unknown" \in c.storefront /\ r.storefront = "unknown"

ApplyOwnershipStatus(r, c) == c.own = "" \/ r.own = c.own

ApplyUserGameFacetFilters(row, c, w) ==
    /\ ApplyPlayStatus(row, c) /\ ApplyRatingMin(row, c)
    /\ ApplyGenre(row, c) /\ ApplyTag(row, c) /\ ApplyWishlist(row, w)
    /\ \E r \in Joined(row) :
          ApplyPlatform(r, c) /\ ApplyStorefront(r, c) /\ ApplyOwnershipStatus(r, c)

\* orIn: a plain IN, which no NULL satisfies.
OrIn(v, values)      == values = {} \/ v \in values \ {"unknown", "null"}
\* Mutant: equality instead of ILIKE.
OrEqual(vs, values)  == values = {} \/ values \cap vs # {}
OrILike(vs, values)  == values = {} \/ \E x \in values, y \in vs : <<x, y>> \in Inside

\* One card of a pool's filter on one joined row.
ApplyCardPredicates(row, r, c) ==
    /\ OrIn(row.status, c.status)
    /\ c.rating_min # 0 => row.rating >= c.rating_min /\ row.rating # 0
    /\ OrILike(row.genres, c.genre)
    /\ OrIn(r.platform, c.platform) /\ OrIn(r.storefront, c.storefront)
    /\ c.tag # {} => row.tags \cap c.tag # {}

\* (card1) OR (card2) OR ...; without cards nothing is filtered.
ApplyPoolFilter(row, cards) ==
    cards = {} \/ \E c \in cards : \E r \in Joined(row) : ApplyCardPredicates(row, r, c)

\* ?pool=: the saved filter and not finished; owned and wishlisted alike.
ApplyPool(row, cards) == ApplyPoolFilter(row, cards) /\ row.status \notin FinishedStates

HasFacets(c) ==
    \/ c.rating_min # 0
    \/ \E f \in Facets \ {"rating_min"} : c[f] # {}

-----------------------------------------------------------------------------
(* The list. *)

NoFacets == [status |-> {}, rating_min |-> 0, genre |-> {}, tag |-> {},
             platform |-> {}, storefront |-> {}, own |-> ""]

Matches == {g \in Listed : ApplyUserGameFacetFilters(qRows[g], qCard, FALSE)}

\* NULLs come first in descending and last in ascending order.
SortKey(g) == IF qRows[g].rating # 0 THEN qRows[g].rating
              ELSE 1 + Max({qRows[h].rating : h \in Listed})

Before(g, h) ==
    LET a == SortKey(g)  b == SortKey(h)
    IN  \/ (IF qOrder = "desc" THEN a > b ELSE a < b)
        \/ a = b /\ CreatedAt[g] > CreatedAt[h]

Total == Cardinality(Matches)

\* Each game at the place its predecessors leave it.
AtPlace(i) == {g \in Matches : Cardinality({h \in Matches : Before(h, g)}) = i - 1}
Sorted     == [i \in 1..Total |-> CHOOSE g \in AtPlace(i) : TRUE]

\* Rows that tie in the sort key and in created_at come in no order of their own.
NoTies == \A g, h \in Matches :
              SortKey(g) = SortKey(h) /\ CreatedAt[g] = CreatedAt[h] => g = h

PageCount == Max({1, (Total + PerPage - 1) \div PerPage})

HandleListUserGames ==
    /\ qPage < PageCount
    /\ qPage' = qPage + 1
    /\ LET last == IF PerPage * qPage' < Total THEN PerPage * qPage' ELSE Total
       IN  qSeen' = qSeen \o SubSeq(Sorted, PerPage * qPage + 1, last)
    /\ UNCHANGED <<qRows, qCard, qOrder>>

\* The same facets, no sort and no page.
HandleListUserGameIDs == {g \in Listed : ApplyUserGameFacetFilters(qRows[g], qCard, FALSE)}

\* Values that occur in the collection, wishlist included.
HandleFilterOptions == UNION {qRows[g].genres : g \in Listed}

-----------------------------------------------------------------------------
(* Statistics, all over the rows that are not wishlisted. *)

InLibrary == {g \in Listed : ~qRows[g].wish}

CompletionStats(st) == Cardinality({g \in InLibrary : qRows[g].status = st})

\* COUNT(DISTINCT user_game_id) for each ownership_status.
OwnershipStats(own) == Cardinality({g \in InLibrary : \E r \in qRows[g].rows : r.own = own})

GenreStats(x) == Cardinality({g \in InLibrary : x \in qRows[g].genres})

TotalHours == FoldSet(LAMBDA g, n : n + FoldSet(LAMBDA r, m : m + r.hours, 0, qRows[g].rows),
                      0, InLibrary)

\* Rounded to two decimals of a percent.
CompletionRate ==
    IF InLibrary = {} THEN 0
    ELSE (10000 * FoldSet(LAMBDA st, n : n + CompletionStats(st), 0,
                          {"completed", "mastered", "dominated"})) \div Cardinality(InLibrary)

-----------------------------------------------------------------------------
QueryInit ==
    /\ qRows \in [Listed -> RowChoices]
    /\ qCard \in Cards
    /\ qOrder \in {"asc", "desc"}
    /\ qPage = 0 /\ qSeen = <<>>

\* A client that has read every page starts again.
Rescroll == qPage = PageCount /\ qPage' = 0 /\ qSeen' = <<>> /\ UNCHANGED <<qRows, qCard, qOrder>>

QueryNext == HandleListUserGames \/ Rescroll

QuerySpec == QueryInit /\ [][QueryNext]_queryVars

-----------------------------------------------------------------------------
(* A client that reads every page of an unchanged library has seen each id *)
(* of "select all" once, for any facets and either order, provided no two  *)
(* rows share both the sort key and created_at: the list's count, its page *)
(* query and the ids endpoint agree.                                       *)
PagesPartition ==
    NoTies /\ qPage = PageCount =>
        /\ Len(qSeen) = Total
        /\ ToSet(qSeen) = HandleListUserGameIDs

(* The statistics count what the list finds: for each status and each      *)
(* ownership status, as many games as a list with that facet alone, and    *)
(* the status counts add up to the library (seven queries, one snapshot).  *)
StatsMatchList ==
    LET found(c) == Cardinality({g \in Listed : ApplyUserGameFacetFilters(qRows[g], c, FALSE)})
        statuses == {qRows[g].status : g \in Listed}
    IN  /\ \A st \in statuses : CompletionStats(st) = found([NoFacets EXCEPT !.status = {st}])
        /\ \A own \in {r.own : r \in UNION {qRows[g].rows : g \in Listed}} :
              OwnershipStats(own) = found([NoFacets EXCEPT !.own = own])
        /\ FoldSet(LAMBDA st, n : n + CompletionStats(st), 0, statuses) = Cardinality(InLibrary)
        /\ \A x \in HandleFilterOptions : GenreStats(x) <= found([NoFacets EXCEPT !.genre = {x}])

(* A facet selection saved as a pool's card suggests what the list shows   *)
(* for it in library and wishlist, finished games apart.  Two translations *)
(* of the facets exist in the code: criteria.go and applyCardPredicates;   *)
(* they differ on "unknown" alone, which a card never matches.             *)
CardMirrorsFacet ==
    ("unknown" \notin qCard.platform \cup qCard.storefront /\ qCard.own = "") =>
        \A g \in Listed :
            ApplyPool(qRows[g], {qCard}) <=>
                /\ ApplyUserGameFacetFilters(qRows[g], qCard, qRows[g].wish)
                /\ qRows[g].status \notin FinishedStates

\* What a client is told about one library by its pages, its cards and its
\* statistics fits together.
ReadsAgree == PagesPartition /\ StatsMatchList /\ CardMirrorsFacet
=============================================================================
