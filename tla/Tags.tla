-------------------------------- MODULE Tags ---------------------------------
(***************************************************************************)
(* A user's tags and their links to games.  A tag's name is unique as it   *)
(* is spelled, yet looked up by its lower case, so two spellings of one    *)
(* name can exist side by side.  ReplaceTags reads the links of the game   *)
(* without a lock and then deletes and inserts the difference; it is two   *)
(* steps here, and several requests may be between them.                   *)
(***************************************************************************)
EXTENDS Integers, FiniteSets

CONSTANTS
    TaggedGames,    \* the user_games rows
    Spellings,      \* names as they are spelled, trimmed
    Folded,         \* Spellings -> their LOWER()
    Requests,       \* concurrent PUT /user-games/:id/tags requests
    NoTags          \* a request that is not running

\* A running request: broken once a tag that it is to link has gone.
ReplaceRequests ==
    [game : TaggedGames, want : SUBSET Spellings, read : SUBSET Spellings,
     create : SUBSET Spellings, broken : BOOLEAN]

ASSUME TagsAssumption == NoTags \notin ReplaceRequests

VARIABLES
    tags,       \* names of the tags rows
    links,      \* user_game_tags: the names linked to each game
    replacing   \* each request: its game, the tags it wants and the links it read

tagsVars == <<tags, links, replacing>>

LowerOf(N) == {Folded[n] : n \in N}

TagsInit ==
    /\ tags = {}
    /\ links = [g \in TaggedGames |-> {}]
    /\ replacing = [r \in Requests |-> NoTags]

HandleCreateTag(n) ==
    /\ n \notin tags
    /\ tags' = tags \cup {n}
    /\ UNCHANGED <<links, replacing>>

\* A link names its tag by id: renaming the tag renames it in every link.
Renamed(S, n, m) == IF n \in S THEN (S \ {n}) \cup {m} ELSE S

HandleUpdateTag(n, m) ==
    /\ n \in tags /\ m \notin tags
    /\ tags' = Renamed(tags, n, m)
    /\ links' = [g \in TaggedGames |-> Renamed(links[g], n, m)]
    /\ replacing' = [r \in Requests |->
         IF replacing[r] = NoTags THEN NoTags
         ELSE [replacing[r] EXCEPT !.want = Renamed(@, n, m), !.read = Renamed(@, n, m)]]

\* user_game_tags goes by cascade.  A request that is to insert a link to the tag
\* fails on the foreign key; one that found the link there notices nothing.
HandleDeleteTag(n) ==
    /\ n \in tags
    /\ tags' = tags \ {n}
    /\ links' = [g \in TaggedGames |-> links[g] \ {n}]
    /\ replacing' = [r \in Requests |->
         IF replacing[r] # NoTags /\ n \in replacing[r].want \ replacing[r].read
         THEN [replacing[r] EXCEPT !.broken = TRUE] ELSE replacing[r]]

\* The tags that ResolveOrCreateTag may return for a name: any that matches
\* without regard to case (the query has no ORDER BY), or the new one.
ResolveOrCreateTag(n, have) ==
    LET same == {t \in have : Folded[t] = Folded[n]}
    IN  IF same = {} THEN {n} ELSE same

\* One tag for each distinct lower-case name of the request.
Resolutions(names, have) ==
    {W \in SUBSET (have \cup names) :
        /\ LowerOf(W) = LowerOf(names)
        /\ \A s, t \in W : Folded[s] = Folded[t] => s = t
        /\ \A t \in W : \E n \in names : t \in ResolveOrCreateTag(n, have)}

\* The ownership check, the resolution of every name and the read of the links.
\* A tag it creates is visible to others only at the commit, and a second
\* request that creates the same one waits for that and fails: see ReplaceTags.
HandleReplaceTags(r, g, names) ==
    /\ replacing[r] = NoTags
    /\ \E W \in Resolutions(names, tags) :
         replacing' = [replacing EXCEPT ![r] =
             [game |-> g, want |-> W, read |-> links[g], create |-> W \ tags, broken |-> FALSE]]
    /\ UNCHANGED <<tags, links>>

\* Mutant: deletes every link that is not wanted, read or not.
ReplaceTagsAll(r) ==
    LET x == replacing[r]
    IN  /\ x # NoTags /\ ~x.broken
        /\ x.create \cap tags = {}
        /\ tags' = tags \cup x.create
        /\ links' = [links EXCEPT ![x.game] = x.want]
        /\ replacing' = [replacing EXCEPT ![r] = NoTags]

\* Delete the links it read and does not want, insert those it wants and did not
\* read, create its new tags, and commit.
ReplaceTags(r) ==
    LET x == replacing[r]
    IN  /\ x # NoTags /\ ~x.broken
        /\ x.create \cap tags = {}
        /\ (x.want \ x.read) \cap links[x.game] = {}
        /\ tags' = tags \cup x.create
        /\ links' = [links EXCEPT ![x.game] = (@ \ (x.read \ x.want)) \cup (x.want \ x.read)]
        /\ replacing' = [replacing EXCEPT ![r] = NoTags]

\* A unique or foreign key violation, or any other error: rolled back, 500.
ReplaceTagsFails(r) ==
    /\ replacing[r] # NoTags
    /\ replacing' = [replacing EXCEPT ![r] = NoTags]
    /\ UNCHANGED <<tags, links>>

\* reconcileTags of an Acquire with TagMerge, one tag at a time.
ReconcileTags(g, n) ==
    \E t \in ResolveOrCreateTag(n, tags) :
        /\ tags' = tags \cup {t}
        /\ links' = [links EXCEPT ![g] = @ \cup {t}]
        /\ UNCHANGED replacing

-----------------------------------------------------------------------------
TagsNext ==
    \/ \E n \in Spellings : HandleCreateTag(n) \/ HandleDeleteTag(n)
    \/ \E n, m \in Spellings : HandleUpdateTag(n, m)
    \/ \E g \in TaggedGames, n \in Spellings : ReconcileTags(g, n)
    \/ \E r \in Requests, g \in TaggedGames, names \in SUBSET Spellings : HandleReplaceTags(r, g, names)
    \/ \E r \in Requests : ReplaceTags(r) \/ ReplaceTagsFails(r)

TagsSpec == TagsInit /\ [][TagsNext]_tagsVars

-----------------------------------------------------------------------------
(* Replacing the tags of a game takes away no link that somebody else added *)
(* after the request read the links: a sync or an import that merges its   *)
(* tags meanwhile keeps them (usergame.ReplaceTags deletes by the ids it   *)
(* read, reconcileTags inserts one link at a time).                        *)
MergedTagsStay ==
    [][\A r \in Requests : replacing[r] # NoTags /\ replacing'[r] = NoTags =>
          LET g == replacing[r].game IN links[g] \ replacing[r].read \subseteq links'[g]]_tagsVars
=============================================================================
