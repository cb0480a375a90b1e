---- MODULE IgdbClient ----
(***************************************************************************)
(* The IGDB client: the shared Twitch token (internal/services/igdb/        *)
(* auth.go), the request loop with its 401 and 429 retries and the search   *)
(* pipeline (igdb.go), and the search handler that infers an id from the    *)
(* query (internal/api/games.go).                                           *)
(*                                                                          *)
(* A token is the number of the answer of Twitch it came in; 0 is none.     *)
(* Searches are evaluated on a catalogue of games with, per game, the score *)
(* of its title against the query, its platforms, which of the queries, the *)
(* original or an expanded form, its name is and to which it is similar.    *)
(* Every search of IGDB fails on its own.                                   *)
(***************************************************************************)
EXTENDS Integers, Sequences, SequencesExt, FiniteSets

CONSTANTS
  IgdbCalls,       \* goroutines inside doPost
  MaxRateRetries,  \* config IGDB_MAX_RETRIES
  TokenLife,       \* how long Twitch says a token lives
  MaxTokens,       \* bound on the tokens Twitch issues
  MaxIgdbTime,     \* bound on the clock
  IgdbGames,       \* ids of IGDB games
  Catalogues,      \* the catalogues a search may meet: [IgdbGames -> Entry]
  Scopings,        \* sets of platforms a search may be scoped to; {} for none
  Limits,          \* the limit parameter
  Expansions,      \* bound on the expanded forms of a query
  Failures         \* sets of searches that may fail in one pass

VARIABLES igToken, igExpiry, igLock, igCalls, igIssued, igRevoked, igClock, igCatalogue, igAsked

tokenVars == <<igToken, igExpiry, igLock, igIssued>>
igdbVars == <<igToken, igExpiry, igLock, igCalls, igIssued, igRevoked, igClock, igCatalogue, igAsked>>

Unknown == -1   \* the zero expiresAt: "valid until 401"

----
(* The token *)

\* isTokenValid, with a buffer of one tick before the expiry.
isTokenValid == /\ igToken # 0
                /\ igExpiry = Unknown \/ igClock + 1 < igExpiry

\* A request in progress: its step, the token in hand, whether it already
\* refreshed after a 401, its 429 retries, and the token a 401 refused.
Call(pc) == [pc |-> pc, token |-> 0, refreshed |-> FALSE, retries |-> 0, refused |-> 0]
NoCall   == Call("idle")

\* NewAuthManager, with or without a configured token of unknown expiry.
IgdbInit ==
  /\ igToken \in {0, 1}
  /\ igExpiry = Unknown
  /\ igIssued = igToken
  /\ igLock = {}
  /\ igCalls = [c \in IgdbCalls |-> NoCall]
  /\ igRevoked = {}
  /\ igClock = 0
  /\ igCatalogue \in Catalogues
  /\ igAsked = [kind |-> "none"]

\* doPost begins; limiter.Wait comes first in every attempt.
Post(c) ==
  /\ igCalls[c].pc = "idle"
  /\ igCalls' = [igCalls EXCEPT ![c] = Call("limit")]
  /\ UNCHANGED <<tokenVars, igRevoked, igClock>>

Admitted(c) ==
  /\ igCalls[c].pc = "limit"
  /\ igCalls' = [igCalls EXCEPT ![c].pc = "token"]
  /\ UNCHANGED <<tokenVars, igRevoked, igClock>>

\* GetAccessToken, fast path under the read lock.
CachedToken(c) ==
  /\ igCalls[c].pc = "token"
  /\ igLock = {}
  /\ isTokenValid
  /\ igCalls' = [igCalls EXCEPT ![c].pc = "send", ![c].token = igToken]
  /\ UNCHANGED <<tokenVars, igRevoked, igClock>>

\* Slow path: the reader saw no valid token and waits for the write lock.
TokenMissing(c) ==
  /\ igCalls[c].pc = "token"
  /\ igLock = {}
  /\ ~isTokenValid
  /\ igCalls' = [igCalls EXCEPT ![c].pc = "lock"]
  /\ UNCHANGED <<tokenVars, igRevoked, igClock>>

\* The write lock, and the second look at the token under it.
LockAndRecheck(c) ==
  /\ igCalls[c].pc = "lock"
  /\ igLock = {}
  /\ IF isTokenValid
     THEN igCalls' = [igCalls EXCEPT ![c].pc = "send", ![c].token = igToken] /\ UNCHANGED igLock
     ELSE igCalls' = [igCalls EXCEPT ![c].pc = "fetch"] /\ igLock' = {c}
  /\ UNCHANGED <<igToken, igExpiry, igIssued, igRevoked, igClock>>

\* fetchToken answers: the new token is kept with its expiry, the lock freed.
fetchToken(c) ==
  /\ igCalls[c].pc = "fetch"
  /\ igIssued < MaxTokens
  /\ igIssued' = igIssued + 1
  /\ igToken' = igIssued'
  /\ igExpiry' = igClock + TokenLife
  /\ igLock' = {}
  /\ igCalls' = [igCalls EXCEPT ![c].pc = "send", ![c].token = igIssued']
  /\ UNCHANGED <<igRevoked, igClock>>

\* The limiter, the token request or the request itself fails, or the
\* caller's context ends: doPost returns the error.
Fails(c) ==
  /\ igCalls[c].pc \in {"limit", "fetch", "send", "sleep"}
  /\ igCalls' = [igCalls EXCEPT ![c] = NoCall]
  /\ igLock' = igLock \ {c}
  /\ UNCHANGED <<igToken, igExpiry, igIssued, igRevoked, igClock>>

\* IGDB refuses a token it no longer knows.  The first time, doPost will
\* forget the token and try again; the second time the 401 is the answer.
Unauthorized(c) ==
  /\ igCalls[c].pc = "send"
  /\ igCalls[c].token \in igRevoked
  /\ IF igCalls[c].refreshed
     THEN igCalls' = [igCalls EXCEPT ![c] = NoCall]
     ELSE igCalls' = [igCalls EXCEPT ![c].pc = "forget", ![c].refreshed = TRUE, ![c].refused = igCalls[c].token]
  /\ UNCHANGED <<tokenVars, igRevoked, igClock>>

\* Mutant: only the expiry is cleared, which reads as "valid until 401".
InvalidateExpiry(c) ==
  /\ igCalls[c].pc = "forget"
  /\ igLock = {}
  /\ igExpiry' = Unknown
  /\ igCalls' = [igCalls EXCEPT ![c].pc = "limit"]
  /\ UNCHANGED <<igToken, igLock, igIssued, igRevoked, igClock>>

\* InvalidateToken: whatever token is cached by then is forgotten.
InvalidateToken(c) ==
  /\ igCalls[c].pc = "forget"
  /\ igLock = {}
  /\ igToken' = 0
  /\ igExpiry' = Unknown
  /\ igCalls' = [igCalls EXCEPT ![c].pc = "limit"]
  /\ UNCHANGED <<igLock, igIssued, igRevoked, igClock>>

\* 429: sleep for Retry-After or the backoff and try again, MaxRateRetries
\* times; the next 429 is the answer.
TooManyRequests(c) ==
  /\ igCalls[c].pc = "send"
  /\ IF igCalls[c].retries < MaxRateRetries
     THEN igCalls' = [igCalls EXCEPT ![c].pc = "sleep", ![c].retries = igCalls[c].retries + 1]
     ELSE igCalls' = [igCalls EXCEPT ![c] = NoCall]
  /\ UNCHANGED <<tokenVars, igRevoked, igClock>>

Slept(c) ==
  /\ igCalls[c].pc = "sleep"
  /\ igCalls' = [igCalls EXCEPT ![c].pc = "limit"]
  /\ UNCHANGED <<tokenVars, igRevoked, igClock>>

\* Any other status, 200 or not, ends the loop.
Answered(c) ==
  /\ igCalls[c].pc = "send"
  /\ igCalls[c].token \notin igRevoked
  /\ igCalls' = [igCalls EXCEPT ![c] = NoCall]
  /\ UNCHANGED <<tokenVars, igRevoked, igClock>>

\* Twitch withdraws a token; time passes.
Withdraw ==
  /\ igRevoked' = 1..igIssued
  /\ UNCHANGED <<tokenVars, igCalls, igClock>>

IgdbTick ==
  /\ igClock < MaxIgdbTime
  /\ igClock' = igClock + 1
  /\ UNCHANGED <<tokenVars, igCalls, igRevoked>>

RequestNext ==
  /\ \/ \E c \in IgdbCalls :
          \/ Post(c) \/ Admitted(c) \/ CachedToken(c) \/ TokenMissing(c) \/ LockAndRecheck(c)
          \/ fetchToken(c) \/ Fails(c) \/ Unauthorized(c) \/ InvalidateToken(c)
          \/ TooManyRequests(c) \/ Slept(c) \/ Answered(c)
     \/ Withdraw
     \/ IgdbTick
  /\ UNCHANGED <<igCatalogue, igAsked>>

----
(* The search pipeline, evaluated on the catalogue *)

\* expandQueries: the original query is 0, its expanded forms follow.  (One
\* with fewer forms answers as if the searches for the others had failed.)
Queries == 0..Expansions

\* The searches of one pass, in the order of their answers: for each query
\* the exact-name one and then the fuzzy one.
Requests == 1..(2 * (Expansions + 1))
Query(r) == (r - 1) \div 2
Exact(r) == r % 2 = 1
Original == {1, 2}

\* named: the query that is the game's name, if one is; similar: those a
\* fuzzy search finds it for.
Entry == [score : 0..10, platforms : SUBSET Nat, named : Queries \cup {Unknown}, similar : SUBSET Queries]

ASSUME IgdbAssumption ==
  /\ IsFiniteSet(IgdbGames) /\ IgdbGames \subseteq Nat
  /\ Catalogues \subseteq [IgdbGames -> Entry]
  /\ Limits \subseteq Nat \ {0}
  /\ Expansions \in Nat
  /\ Failures \subseteq SUBSET Requests

Threshold == 6   \* fuzzySearchThreshold

\* An answer of IGDB: the first of the games that fit, here by their ids.
FirstOf(G, limit) == {g \in G : Cardinality({h \in G : h < g}) < limit}

\* IGDB honours the platform clause on exact-name queries and ignores it on
\* fuzzy ones.
Fits(g, P) == P = {} \/ igCatalogue[g].platforms \cap P # {}
exactSearch(q, P, limit) ==
  FirstOf({g \in IgdbGames : igCatalogue[g].named = q /\ Fits(g, P)}, limit)
fuzzySearch(q, limit) == FirstOf({g \in IgdbGames : q \in igCatalogue[g].similar}, limit)

answerTo(r, P, limit) ==
  IF Exact(r) THEN exactSearch(Query(r), P, limit) ELSE fuzzySearch(Query(r), limit)

\* Mutant: the first search that fails ends the loop.
searchesUntilLost(P, limit, lost) ==
  [r \in Requests |-> IF \E q \in lost : q <= r THEN {} ELSE answerTo(r, P, limit)]

\* One pass: exact before fuzzy, the original query before the expanded
\* ones; a search that fails (lost) adds nothing and the next one goes on.
searches(P, limit, lost) ==
  [r \in Requests |-> IF r \in lost THEN {} ELSE answerTo(r, P, limit)]

\* seen: a game has its place in the list where it is met first.
metIn(g, answers) ==
  CHOOSE k \in DOMAIN answers : g \in answers[k] /\ \A i \in 1..(k - 1) : g \notin answers[i]

\* The post-filter keeps a game without platforms.
KeepsPlatform(g, P) == \/ P = {} \/ igCatalogue[g].platforms = {}
                       \/ igCatalogue[g].platforms \cap P # {}

candidates(answers, P) ==
  {g \in UNION {answers[k] : k \in DOMAIN answers} :
     igCatalogue[g].score >= Threshold /\ KeepsPlatform(g, P)}

\* sortByScore: best first, and equals as they were merged.
sortByScore(g, h, answers) ==
  LET score(x) == igCatalogue[x].score
      met(x)   == metIn(x, answers)
  IN \/ score(g) > score(h)
     \/ score(g) = score(h) /\ (met(g) < met(h) \/ (met(g) = met(h) /\ g < h))

AtRank(i, kept, answers) ==
  {g \in kept : Cardinality({h \in kept : sortByScore(h, g, answers)}) = i - 1}

rankedResults(P, limit, lost) ==
  LET answers == searches(P, limit, lost)
      kept    == candidates(answers, P)
      length  == IF Cardinality(kept) < limit THEN Cardinality(kept) ELSE limit
  IN [i \in 1..length |-> CHOOSE g \in AtRank(i, kept, answers) : TRUE]

\* SearchGames, with the unfiltered retry when the filter left nothing: a
\* pass of its own, of which other searches may fail (again).
SearchGames(P, limit, lost, again) ==
  LET found == rankedResults(P, limit, lost)
  IN IF found = <<>> /\ P # {} THEN rankedResults({}, limit, again) ELSE found

\* A search for the original query that fails is the error of its pass.
SearchFails(P, limit, lost, again) ==
  \/ lost \cap Original # {}
  \/ rankedResults(P, limit, lost) = <<>> /\ P # {} /\ again \cap Original # {}

\* mergeIGDBByID: the game the digits name comes first, once.
mergeIGDBByID(id, names) == <<id>> \o SelectSeq(names, LAMBDA g : g # id)

\* searchIGDBWithIDInference: "igdb:N", digits N, or a name.
searchIGDBWithIDInference(form, id, names) ==
  CASE form = "igdb:N" -> IF id \in IgdbGames THEN <<id>> ELSE <<>>
    [] form = "N" -> IF id \in IgdbGames THEN mergeIGDBByID(id, names) ELSE names
    [] form = "name" -> names

\* The look-up of an id may fail, too; any error is the answer.
HandleSearchIGDB ==
  /\ \E form \in {"igdb:N", "N", "name"}, id \in IgdbGames \cup {0},
        P \in Scopings, limit \in Limits, lost \in Failures, again \in Failures :
       \/ /\ form # "name" \/ SearchFails(P, limit, lost, again)
          /\ igAsked' = [kind |-> "failed"]
       \/ /\ form # "igdb:N" => ~SearchFails(P, limit, lost, again)
          /\ igAsked' = [kind |-> form, id |-> id, platforms |-> P, limit |-> limit,
                         lost |-> lost, again |-> again,
                         results |-> searchIGDBWithIDInference(form, id, SearchGames(P, limit, lost, again))]
  /\ UNCHANGED <<igToken, igExpiry, igLock, igCalls, igIssued, igRevoked, igClock, igCatalogue>>

IgdbNext == RequestNext \/ HandleSearchIGDB

IgdbSpec == IgdbInit /\ [][IgdbNext]_igdbVars

----
\* A request retried after a 401 never sends the token that was refused
\* again, whatever the other goroutines do to the cached token meanwhile.
RetryIsFresh ==
  \A c \in IgdbCalls :
    igCalls[c].pc = "send" /\ igCalls[c].refreshed => igCalls[c].token > igCalls[c].refused

\* Neither a scope nor a failed search hides what the others found.  A search
\* scoped to platforms answers something whenever its retry without them has
\* something to answer, whatever failed before; no game twice; a game known
\* only on other platforms only when, with the same searches failing, the one
\* without platforms finds none known on those asked for; and every game worth
\* listing that a search of the first pass found is listed, whichever others
\* failed, unless the list is full of games that score no less.  (It may name
\* one of no known platform, which the platform clause of the exact-name query
\* leaves out.)
SearchLosesNothing ==
  igAsked.kind = "name" =>
    LET P == igAsked.platforms
        limit == igAsked.limit
        found == ToSet(igAsked.results)
        open(failed) == ToSet(rankedResults({}, limit, failed))
        score(g) == igCatalogue[g].score
    IN /\ Len(igAsked.results) = Cardinality(found)
       /\ P # {} /\ open(igAsked.again) # {} => found # {}
       /\ (\E g \in found : ~KeepsPlatform(g, P))
            => \A g \in open(igAsked.lost) : igCatalogue[g].platforms \cap P = {}
       /\ \A r \in Requests \ igAsked.lost : \A g \in answerTo(r, P, limit) :
            score(g) >= Threshold /\ KeepsPlatform(g, P) =>
              \/ g \in found
              \/ Len(igAsked.results) = limit /\ \A h \in found : score(h) >= score(g)
====
