---------------------------- MODULE ExternalGames ----------------------------
(***************************************************************************)
(* What the user decides about the games of a store (match again, ignore,  *)
(* take back, retry) while the match and write workers of the sync bring   *)
(* the same games into the library.  A game of a store is an external      *)
(* game; the rows that tie it to entries of the library are its links.     *)
(* SyncPipeline has the jobs; here the games and their links are at stake. *)
(***************************************************************************)
EXTENDS Naturals, FiniteSets, Sequences

CONSTANTS
    ExtGames,      \* the external games of one user, numbers
    ExtParent,     \* the row each is grouped under, 0 for none
    ExtStore,      \* its storefront
    ExtPlatforms,  \* the platforms the store reports for it
    IgdbIds,       \* the games it may be, numbers; the library has one entry for each
    ExtWorkers,    \* workers of the match and write queues
    MaxExtItems,   \* how many job items each external game may get
    MaxDecisions   \* requests of the user

ASSUME ExternalGamesAssumption ==
    /\ ExtGames \subseteq Nat \ {0} /\ IgdbIds \subseteq Nat \ {0}
    /\ \A g \in ExtGames : /\ ExtParent[g] \in ExtGames \cup {0}
                           /\ ExtParent[g] # g /\ ExtPlatforms[g] # {}

VARIABLES
    exGame,      \* external_games: resolved_igdb_id (0 is NULL), is_skipped
    exItems,     \* the statuses of the job items of each, the latest last
    exLinks,     \* user_game_platforms
    exLibrary,   \* user_games
    exQueue,     \* tasks in River: <<kind, game, item>>
    exWorker,    \* what each worker is doing
    exRematch,   \* the rematch request in progress
    exDecisions, \* bound reached so far
    exRaced      \* games written or matched by a worker that held an older answer

extVars == <<exGame, exItems, exLinks, exLibrary, exQueue, exWorker, exRematch, exDecisions, exRaced>>
extWork == <<exQueue, exWorker>>

Unresolved == 0
ExtFree    == [pc |-> "free", game |-> 0, item |-> 0, id |-> Unresolved]
NoRematch  == [pc |-> "none", game |-> 0, id |-> 0, drops |-> 0]

ExtInit ==
    /\ exGame = [g \in ExtGames |-> [resolved |-> Unresolved, skipped |-> FALSE]]
    /\ exItems = [g \in ExtGames |-> <<>>]
    /\ exLinks = {} /\ exLibrary = {} /\ exQueue = {}
    /\ exWorker = [w \in ExtWorkers |-> ExtFree]
    /\ exRematch = NoRematch
    /\ exDecisions = 0 /\ exRaced = {}

ChildrenOf(g) == {c \in ExtGames : ExtParent[c] = g}
Latest(g)     == Len(exItems[g])
LinksOf(g)    == {l \in exLinks : l.ext = g}
Holding(g)    == {w \in ExtWorkers : exWorker[w].pc = "acquire" /\ exWorker[w].game = g}

\* A task for every item of G in that status.
ItemTasks(kind, G, st) ==
    UNION {{<<kind, g, i>> : i \in {j \in 1 .. Latest(g) : exItems[g][j] = st}} : g \in G}

Decide == exDecisions < MaxDecisions /\ exDecisions' = exDecisions + 1

\* The items with their latest one set to st, for the games that satisfy the condition.
LatestSet(G, from, st) ==
    [g \in ExtGames |-> IF g \in G /\ Latest(g) > 0 /\ exItems[g][Latest(g)] \in from
                        THEN [exItems[g] EXCEPT ![Latest(g)] = st] ELSE exItems[g]]

---------------------------------------------------------------------------
(* The sync. *)

\* The next sync adds an item for a game that is not ignored, and queues its match.
InsertJobItem(g) ==
    /\ ~exGame[g].skipped /\ Latest(g) < MaxExtItems[g]
    /\ exItems' = [exItems EXCEPT ![g] = Append(@, "pending")]
    /\ exQueue' = exQueue \cup {<<"match", g, Latest(g) + 1>>}
    /\ UNCHANGED <<exGame, exLinks, exLibrary, exWorker, exRematch, exDecisions, exRaced>>

\* Stage 2 up to the search: an ignored or resolved game goes to stage 3, a child takes the
\* answer of its parent or is left to it.
StartMatch(w) ==
    \E t \in exQueue :
        LET g == t[2]
            write == <<"write", g, t[3]>>
            above == ExtParent[g]
        IN
        /\ t[1] = "match" /\ exWorker[w] = ExtFree
        /\ \/ /\ exGame[g].skipped \/ exGame[g].resolved # Unresolved
              /\ exQueue' = (exQueue \ {t}) \cup {write}
              /\ UNCHANGED <<exGame, exWorker>>
           \/ /\ ~exGame[g].skipped /\ exGame[g].resolved = Unresolved /\ above # 0
              /\ IF exGame[above].resolved # Unresolved
                 THEN /\ exGame' = [exGame EXCEPT ![g].resolved = exGame[above].resolved]
                      /\ exQueue' = (exQueue \ {t}) \cup {write}
                 ELSE exQueue' = exQueue \ {t} /\ UNCHANGED exGame
              /\ UNCHANGED exWorker
           \/ /\ ~exGame[g].skipped /\ exGame[g].resolved = Unresolved /\ above = 0
              /\ exWorker' = [exWorker EXCEPT ![w] = [ExtFree EXCEPT !.pc = "search", !.game = g,
                                                                     !.item = t[3]]]
              /\ exQueue' = exQueue \ {t} /\ UNCHANGED exGame
        /\ UNCHANGED <<exItems, exLinks, exLibrary, exRematch, exDecisions, exRaced>>

\* The search answers: a confident match is written whatever was decided meanwhile, and so
\* is the review when there is none.
EndMatch(w) ==
    LET g == exWorker[w].game
        i == exWorker[w].item
    IN
    /\ exWorker[w].pc = "search"
    /\ exWorker' = [exWorker EXCEPT ![w] = ExtFree]
    /\ \/ \E id \in IgdbIds :
            /\ exGame' = [exGame EXCEPT ![g].resolved = id]
            /\ exQueue' = exQueue \cup {<<"write", g, i>>}
            /\ exRaced' = IF exGame[g].resolved \in {Unresolved, id} THEN exRaced
                          ELSE exRaced \cup {g}
            /\ UNCHANGED exItems
       \/ /\ exItems' = [exItems EXCEPT ![g][i] = "pending_review"]
          /\ UNCHANGED <<exGame, exQueue, exRaced>>
    /\ UNCHANGED <<exLinks, exLibrary, exRematch, exDecisions>>

\* Stage 3 up to usergame.Acquire: the game is read once.
LoadWrite(w) ==
    \E t \in exQueue :
        LET g == t[2]
            i == t[3]
        IN
        /\ t[1] = "write" /\ exWorker[w] = ExtFree
        /\ exQueue' = exQueue \ {t}
        /\ IF exGame[g].skipped \/ exGame[g].resolved = Unresolved
           THEN /\ exItems' = [exItems EXCEPT ![g][i] = IF exGame[g].skipped THEN "skipped"
                                                        ELSE "failed"]
                /\ UNCHANGED exWorker
           ELSE /\ exWorker' = [exWorker EXCEPT ![w] = [pc |-> "acquire", game |-> g, item |-> i,
                                                        id |-> exGame[g].resolved]]
                /\ UNCHANGED exItems
        /\ UNCHANGED <<exGame, exLinks, exLibrary, exRematch, exDecisions, exRaced>>

\* Acquire in its transaction: a row per platform, taken over from another game of the
\* storefront when it exists.  Then the children that waited are matched again.
AcquireLinks(w) ==
    LET a == exWorker[w]
        g == a.game
        mine == {[entry |-> a.id, platform |-> p, store |-> ExtStore[g], ext |-> g] :
                    p \in ExtPlatforms[g]}
        Same(l) == \E m \in mine : [m EXCEPT !.ext = l.ext] = l
        waiting == {c \in ChildrenOf(g) : ~exGame[c].skipped /\ exGame[c].resolved = Unresolved}
    IN
    /\ a.pc = "acquire"
    /\ exLinks' = {l \in exLinks : ~Same(l)} \cup mine
    /\ exLibrary' = exLibrary \cup {a.id}
    /\ exItems' = [exItems EXCEPT ![g][a.item] = "completed"]
    /\ exQueue' = exQueue \cup ItemTasks("match", waiting, "pending")
    /\ exWorker' = [exWorker EXCEPT ![w] = ExtFree]
    /\ exRaced' = exRaced \cup {h \in {g} : exRematch.pc = "unlinked" /\ exRematch.game = h}
    /\ UNCHANGED <<exGame, exRematch, exDecisions>>

---------------------------------------------------------------------------
(* The user. *)

\* HandleSkipGame flags the game and its children and skips the items that wait.
HandleSkipGame(g) ==
    LET G == {g} \cup ChildrenOf(g) IN
    /\ Decide
    /\ exGame' = [h \in ExtGames |-> IF h \in G THEN [exGame[h] EXCEPT !.skipped = TRUE]
                                     ELSE exGame[h]]
    /\ exItems' = LatestSet(G, {"pending", "pending_review"}, "skipped")
    /\ UNCHANGED <<exLinks, exLibrary, extWork, exRematch, exRaced>>

HandleUnskipGame(g) ==
    LET G == {g} \cup ChildrenOf(g) IN
    /\ Decide /\ Latest(g) < MaxExtItems[g]
    /\ exGame' = [h \in ExtGames |-> IF h \in G THEN [exGame[h] EXCEPT !.skipped = FALSE]
                                     ELSE exGame[h]]
    /\ exItems' = [exItems EXCEPT ![g] = Append(@, "pending")]
    /\ exQueue' = exQueue \cup {<<"match", g, Latest(g) + 1>>}
    /\ UNCHANGED <<exLinks, exLibrary, exWorker, exRematch, exRaced>>

\* HandleRetryFailedExternalGames.
RetryFailedGames ==
    /\ Decide
    /\ exItems' = [g \in ExtGames |-> [i \in 1 .. Latest(g) |->
                     IF exItems[g][i] = "failed" THEN "pending" ELSE exItems[g][i]]]
    /\ exQueue' = exQueue \cup ItemTasks("match", ExtGames, "failed")
    /\ UNCHANGED <<exGame, exLinks, exLibrary, exWorker, exRematch, exRaced>>

\* The user's own row for an entry, or the removal of one of any origin.
EditLinks ==
    /\ Decide
    /\ \/ \E e \in exLibrary : exLinks' = exLinks \cup
            {[entry |-> e, platform |-> "pc", store |-> "physical", ext |-> 0]}
       \/ \E l \in exLinks : exLinks' = exLinks \ {l}
    /\ UNCHANGED <<exGame, exItems, exLibrary, extWork, exRematch, exRaced>>

(* HandleRematchExternalGame, which is not a transaction: it reads the link  *)
(* and counts the others, deletes, and then writes the answer and queues.    *)

CountOthers(g, id, orphan) ==
    /\ Decide /\ exRematch = NoRematch
    /\ \/ LinksOf(g) = {} /\ exRematch' = [NoRematch EXCEPT !.pc = "unlinked", !.game = g, !.id = id]
       \/ \E l \in LinksOf(g) :
            LET others == Cardinality({o \in exLinks : o.entry = l.entry /\ o.ext # g}) IN
            /\ others > 0 \/ orphan # ""
            /\ exRematch' = [pc |-> "counted", game |-> g, id |-> id,
                             drops |-> IF others = 0 /\ orphan = "remove" THEN l.entry ELSE 0]
    /\ UNCHANGED <<exGame, exItems, exLinks, exLibrary, extWork, exRaced>>

\* Mutant: only the row that was found is deleted, as if a game had one platform.
UnlinkOne ==
    LET r == exRematch IN
    /\ r.pc = "counted"
    /\ \E l \in LinksOf(r.game) : exLinks' = exLinks \ {l}
    /\ exRematch' = [r EXCEPT !.pc = "unlinked", !.drops = 0]
    /\ UNCHANGED <<exGame, exItems, exLibrary, extWork, exDecisions, exRaced>>

\* All links of the game go; the entry with its other rows too, when it was the last one
\* and the user says so.
Unlink ==
    LET r == exRematch IN
    /\ r.pc = "counted"
    /\ exLinks' = {l \in exLinks : l.ext # r.game /\ l.entry # r.drops}
    /\ exLibrary' = exLibrary \ {r.drops}
    /\ exRematch' = [r EXCEPT !.pc = "unlinked", !.drops = 0]
    /\ UNCHANGED <<exGame, exItems, extWork, exDecisions, exRaced>>

\* The answer is written to the game and to the children that are not ignored; their latest
\* items, made if need be, are queued for stage 3.
Resolve ==
    LET r == exRematch
        G == {r.game} \cup {c \in ChildrenOf(r.game) : ~exGame[c].skipped}
    IN
    /\ r.pc = "unlinked"
    /\ exGame' = [h \in ExtGames |->
                    IF h = r.game THEN [resolved |-> r.id, skipped |-> FALSE]
                    ELSE IF h \in G THEN [exGame[h] EXCEPT !.resolved = r.id] ELSE exGame[h]]
    /\ exItems' = [g \in ExtGames |->
                     IF g \notin G THEN exItems[g]
                     ELSE IF Latest(g) = 0 THEN <<"pending">>
                     ELSE [exItems[g] EXCEPT ![Latest(g)] = "pending"]]
    /\ exQueue' = exQueue \cup {<<"write", g, IF Latest(g) = 0 THEN 1 ELSE Latest(g)>> : g \in G}
    /\ exRaced' = exRaced \cup {g \in {r.game} : Holding(g) # {}}
    /\ exRematch' = NoRematch
    /\ UNCHANGED <<exLinks, exLibrary, exWorker, exDecisions>>

HandleRematch ==
    \/ \E g \in ExtGames, id \in IgdbIds, orphan \in {"", "keep", "remove"} :
            CountOthers(g, id, orphan)
    \/ Unlink \/ Resolve

ExtNext ==
    \/ \E g \in ExtGames : InsertJobItem(g) \/ HandleSkipGame(g) \/ HandleUnskipGame(g)
    \/ \E w \in ExtWorkers : StartMatch(w) \/ EndMatch(w) \/ LoadWrite(w) \/ AcquireLinks(w)
    \/ RetryFailedGames \/ EditLinks \/ HandleRematch

ExtSpec == ExtInit /\ [][ExtNext]_extVars

---------------------------------------------------------------------------
\* Nothing is under way for a game.
ExtQuiet(g) ==
    /\ \A t \in exQueue : t[2] # g
    /\ \A w \in ExtWorkers : exWorker[w].game # g
    /\ exRematch.game # g

\* HandleRematchExternalGame deletes "all platform links for this external game" before the
\* new answer is written: whatever is matched, matched again, ignored, retried and synced,
\* all the links of a game that is not a child are at the one entry it is resolved to, at
\* every moment.  Only a worker that overlapped a rematch, or a search that was overtaken
\* by one, can leave some at another.
OneHome ==
    \A g \in ExtGames : ExtParent[g] = 0 /\ g \notin exRaced =>
        \A l \in LinksOf(g) : l.entry = exGame[g].resolved

\* The same of the children, which a rematch of the parent resolves anew without deleting
\* their links: this does not hold.
ChildFollows ==
    \A g \in ExtGames : ExtQuiet(g) /\ exRaced = {} =>
        \A l \in LinksOf(g) : l.entry = exGame[g].resolved

\* "Skip it so it's left out and not raised again": no item of an ignored game awaits a
\* review once nothing is under way.  A search that answers after the skip breaks it.
SkippedNotRaised ==
    \A g \in ExtGames : exGame[g].skipped /\ ExtQuiet(g) =>
        \A i \in 1 .. Latest(g) : exItems[g][i] # "pending_review"
=============================================================================
