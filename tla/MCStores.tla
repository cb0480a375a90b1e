------------------------------- MODULE MCStores -------------------------------
(* An instance for TLC of what talks to the stores and to IGDB: one behaviour *)
(* connects a store, or syncs its library, or decides about its games, or     *)
(* refreshes store links, or metadata, or calls IGDB, or searches there, or   *)
(* waits for the rate limiter.                                                *)
EXTENDS StoreConnections, StoreFetch, ExternalGames, StoreLinks, GameMetadata, IgdbClient, RateLimiter, TLC

CONSTANT MaxPassed \* bound on the calls the limiter lets through

VARIABLE part

\* Copies of one title in two orders.
OneTitle  == [g \in StoreGames |-> "t"]
TwoOrders == <<1, 1, 2>>
Lists     == {{}, {1, 2}}

\* A game with two platforms, and another of a third under it.
SecondUnderFirst == <<0, 1>>
ThreePlatforms   == <<{"pc", "linux"}, {"mac"}>>
OneStore         == [g \in ExtGames |-> "steam"]
TwoThenOne       == <<2, 1>>

\* A refresh of everything and one of a single storefront.
Scopes   == <<{1, 2}, {1}>>
OwnGroup == <<1, 2>>
Stores   == <<"steam", "epic">>

\* Games named like a query or only similar to one, or to all.
Known(q)  == [score : {5, 10}, platforms : {{}, {1}, {2}}, named : {q}, similar : {{q}}]
AnyGames  == [IgdbGames -> UNION {Known(q) : q \in Queries}
                \cup [score : {10}, platforms : {{1}, {2}}, named : {Unknown}, similar : {{0}, {2}}]
                \cup [score : {8}, platforms : {{}, {2}}, named : {Unknown}, similar : {Queries}]]
SomeGames == [g \in IgdbGames |-> [score |-> 8, platforms |-> {}, named |-> Unknown, similar |-> Queries]]

\* Nothing fails, or one of the first form, of the second, the first form,
\* all forms, or the original query.
SomeFail  == {{}, {3}, {6}, {3, 4}, 3..6, {2}}

vars == <<part, connVars, fetchVars, extVars, linkVars, metaVars, igdbVars, limiterVars>>

Init ==
    /\ part \in {"connect", "fetch", "decide", "links", "metadata", "igdb", "search", "rate"}
    /\ ConnectionsInit /\ (part # "connect" => cnKind = "plain")
    /\ FetchInit /\ (part # "fetch" => sfStore = "gog" /\ sfOwned = {} /\ sfPlats = [g \in StoreGames |-> {}])
    /\ ExtInit
    /\ LinksInit /\ slLinked = {}
    /\ MetaInit /\ gmIgdb = [g \in MetaGames |-> "a"]
    /\ IgdbInit /\ (part # "search" => igCatalogue = SomeGames) /\ (part # "igdb" => igToken = 0)
    /\ LimiterInit

ConnectStep ==
    /\ part = "connect" /\ ConnectionsNext
    /\ UNCHANGED <<part, fetchVars, extVars, linkVars, metaVars, igdbVars, limiterVars>>
FetchStep ==
    /\ part = "fetch" /\ FetchNext
    /\ UNCHANGED <<part, connVars, extVars, linkVars, metaVars, igdbVars, limiterVars>>
DecideStep ==
    /\ part = "decide" /\ ExtNext
    /\ UNCHANGED <<part, connVars, fetchVars, linkVars, metaVars, igdbVars, limiterVars>>
LinkStep ==
    /\ part = "links" /\ LinksNext
    /\ UNCHANGED <<part, connVars, fetchVars, extVars, metaVars, igdbVars, limiterVars>>
MetaStep ==
    /\ part = "metadata" /\ MetaNext
    /\ UNCHANGED <<part, connVars, fetchVars, extVars, linkVars, igdbVars, limiterVars>>
\* Failures in both passes matter to a search by name only.
OneFailure ==
    /\ igAsked'.kind = "name" => igAsked'.id = 0
    /\ igAsked'.kind \in {"N", "igdb:N"} => igAsked'.lost = igAsked'.again
IgdbStep ==
    /\ \/ part = "igdb" /\ RequestNext
       \/ part = "search" /\ igAsked.kind = "none" /\ HandleSearchIGDB /\ OneFailure
    /\ UNCHANGED <<part, connVars, fetchVars, extVars, linkVars, metaVars, limiterVars>>
RateStep ==
    /\ part = "rate" /\ LimiterNext /\ rlPassed' <= MaxPassed
    /\ UNCHANGED <<part, connVars, fetchVars, extVars, linkVars, metaVars, igdbVars>>

Next ==
    ConnectStep \/ FetchStep \/ DecideStep \/ LinkStep \/ MetaStep \/ IgdbStep \/ RateStep

Spec == Init /\ [][Next]_vars
=============================================================================
