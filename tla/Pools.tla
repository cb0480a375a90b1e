-------------------------------- MODULE Pools --------------------------------
(***************************************************************************)
(* Play-next pools (api/pools.go): ordered pools, each with member games   *)
(* that are queued (a position) or candidates (no position).  The members  *)
(* are in Library's variable pools, because deleting a game and finishing  *)
(* it also write them.  HandleSetQueue is taken apart into its statements: *)
(* a count of the listed members, without a lock; one UPDATE that demotes  *)
(* the members it sees and locks them until the commit; one UPDATE for     *)
(* each listed id.  Members may leave until they are locked, and join at   *)
(* any time: the pools of an imported file are applied row by row, outside *)
(* any transaction.  One SetQueue is open at a time: another waits at its  *)
(* demotion for the rows of the first.                                     *)
(***************************************************************************)
EXTENDS Library, Sequences

CONSTANTS
    MaxPosition,    \* bound on the positions an imported file carries
    MaxListed,      \* bound on the length of an ids list
    MaxOrder        \* bound on pools.position

ASSUME PoolsAssumption == {MaxPosition, MaxListed, MaxOrder} \subseteq Nat

VARIABLES
    order,      \* pools.position of the pools that exist
    smart       \* the pools whose filter is not NULL

poolsVars == <<order, smart>>

NULL      == -1
Existing  == DOMAIN order
Lists(S)  == UNION {[1..n -> S] : n \in 0..MaxListed}

\* The last place of x in ids: of two updates of a row the later one stays.
LastIndex(ids, x) == Max({i \in DOMAIN ids : ids[i] = x})

Queued(members) == {g \in DOMAIN members : members[g] # NULL}

PoolsInit == order = <<>> /\ smart = {}

-----------------------------------------------------------------------------
(* Pools. *)

\* COALESCE(MAX(position) + 1, 0).  Two concurrent inserts may get one number;
\* nothing depends on it being unique.
NextOrder == IF Existing = {} THEN 0 ELSE 1 + Max({order[p] : p \in Existing})

\* normalizePoolFilter: no filter, or at least one card, all of them with facets.
\* The id is new.
HandleCreatePool(p, filtered) ==
    /\ p \notin Existing \cup {queueTx.pool} /\ NextOrder <= MaxOrder
    /\ order' = [q \in Existing \cup {p} |-> IF q = p THEN NextOrder ELSE order[q]]
    /\ smart' = IF filtered THEN smart \cup {p} ELSE smart
    /\ UNCHANGED libraryVars

\* The filter is the field the models read; name and colour are data.
HandleUpdatePool(p, filtered) ==
    /\ p \in Existing
    /\ smart' = IF filtered THEN smart \cup {p} ELSE smart \ {p}
    /\ UNCHANGED <<order, libraryVars>>

\* pool_games goes by cascade, unless a member is locked.
HandleDeletePool(p) ==
    /\ p \in Existing
    /\ queueTx.pool = p => MayLeave(Members(p))
    /\ order' = Restrict(order, Existing \ {p})
    /\ smart' = smart \ {p}
    /\ pools' = [pools EXCEPT ![p] = <<>>]
    /\ UNCHANGED <<status, wish, plat, txVars>>

\* The listed pools get their index; the others keep the number they had.
HandleReorderPools(ids) ==
    /\ order' = [p \in Existing |->
                   IF p \in Range(ids) THEN LastIndex(ids, p) - 1 ELSE order[p]]
    /\ UNCHANGED <<smart, libraryVars>>

-----------------------------------------------------------------------------
(* Members. *)

SetMembers(p, members) ==
    /\ pools' = [pools EXCEPT ![p] = members]
    /\ UNCHANGED <<order, smart, status, wish, plat, tx, write, progress>>

\* INSERT ... ON CONFLICT (pool_id, user_game_id) DO NOTHING.
WithMember(p, G, pos) ==
    [g \in Members(p) \cup G |-> IF g \in Members(p) THEN pools[p][g] ELSE pos]

HandleAddPoolGame(p, g) ==
    /\ p \in Existing /\ g \in Present
    /\ SetMembers(p, WithMember(p, {g}, NULL)) /\ UNCHANGED queueTx

\* The statement selects from the user's own rows; other ids are skipped.
HandleBulkAddPoolGames(p, G) ==
    /\ p \in Existing
    /\ SetMembers(p, WithMember(p, G \cap Present, NULL)) /\ UNCHANGED queueTx

HandleRemovePoolGame(p, g) ==
    /\ g \in Members(p)
    /\ queueTx.pool = p => MayLeave({g})
    /\ SetMembers(p, Restrict(pools[p], Members(p) \ {g})) /\ UNCHANGED queueTx

\* The guard of HandleSetQueue: every listed id is a member now.
SetQueueGuard(p, ids) ==
    /\ queueTx = NoQueue /\ p \in Existing
    /\ Range(ids) \subseteq Members(p)
    /\ queueTx' = [NoQueue EXCEPT !.pool = p, !.ids = ids]
    /\ UNCHANGED <<status, wish, plat, pools, tx, write, progress, poolsVars>>

SetQueueWrites(at, new, late) ==
    /\ queueTx' = [queueTx EXCEPT !.at = at, !.new = new, !.late = late]
    /\ UNCHANGED <<status, wish, plat, pools, tx, write, progress, poolsVars>>

\* Mutant: only the listed members are demoted.
DemoteListed ==
    /\ queueTx # NoQueue /\ queueTx.at = NULL
    /\ SetQueueWrites(0, [g \in Members(queueTx.pool) \cap Range(queueTx.ids) |-> NULL], {})

\* UPDATE pool_games SET position = NULL: the members of this moment.
DemoteMembers ==
    /\ queueTx # NoQueue /\ queueTx.at = NULL
    /\ SetQueueWrites(0, [g \in Members(queueTx.pool) |-> NULL], {})

\* The UPDATE of the next id, for a member of this moment; of another id nothing.
PromoteListed ==
    LET at == queueTx.at + 1
        g  == queueTx.ids[at]
    IN  /\ queueTx.at \in 0..Len(queueTx.ids) - 1
        /\ IF g \in Members(queueTx.pool)
           THEN SetQueueWrites(at, [x \in DOMAIN queueTx.new \cup {g} |->
                                      IF x = g THEN at - 1 ELSE queueTx.new[x]],
                               queueTx.late \ {g})
           ELSE SetQueueWrites(at, queueTx.new, queueTx.late)

HandleSetQueue ==
    /\ queueTx # NoQueue /\ queueTx.at = Len(queueTx.ids)
    /\ LET p == queueTx.pool
       IN  SetMembers(p, [g \in Members(p) |->
                            IF g \in DOMAIN queueTx.new THEN queueTx.new[g] ELSE pools[p][g]])
    /\ queueTx' = NoQueue

-----------------------------------------------------------------------------
(* The pools of an imported file, applied after the job is finalized. *)

\* An existing pool with that name keeps its colour and filter.
FindOrCreatePool(p, filtered) == HandleCreatePool(p, filtered)

\* One member of the file.  A game that did not import is skipped, a game that is
\* a member already keeps its position, and the others get the file's number
\* whatever numbers the pool has.  late is history: who came queued into a pool
\* whose members an open SetQueue has demoted.
ApplyImportedPools(p, g, pos) ==
    /\ p \in Existing /\ g \in Present
    /\ SetMembers(p, WithMember(p, {g}, pos))
    /\ queueTx' = IF queueTx.pool = p /\ queueTx.at # NULL /\ g \notin Members(p)
                  THEN [queueTx EXCEPT !.late = @ \cup {g}] ELSE queueTx

-----------------------------------------------------------------------------
MemberOps(p) ==
    \/ \E g \in Games : HandleAddPoolGame(p, g) \/ HandleRemovePoolGame(p, g)
    \/ \E G \in SUBSET Games : HandleBulkAddPoolGames(p, G)
    \/ \E ids \in Lists(Games) : SetQueueGuard(p, ids)
    \/ \E g \in Games, pos \in NULL..MaxPosition : ApplyImportedPools(p, g, pos)

PoolOps(p) ==
    \/ \E f \in BOOLEAN : HandleCreatePool(p, f) \/ HandleUpdatePool(p, f) \/ FindOrCreatePool(p, f)
    \/ HandleDeletePool(p)

SetQueueSteps == DemoteMembers \/ PromoteListed \/ HandleSetQueue

PoolsNext ==
    \/ \E p \in Pools : MemberOps(p) \/ PoolOps(p)
    \/ \E ids \in Lists(Pools) : HandleReorderPools(ids)
    \/ SetQueueSteps

\* The pools beside every other writer of the collection.
PoolsSpec ==
    PoolsInit /\ LibraryInit
    /\ [][PoolsNext \/ (LibraryNext /\ UNCHANGED poolsVars)]_<<poolsVars, libraryVars>>

-----------------------------------------------------------------------------
InListOrder(members, ids, gs) ==
    /\ gs \subseteq Range(ids)
    /\ \A g, h \in gs : LastIndex(ids, g) < LastIndex(ids, h) => members[g] < members[h]

(* When HandleSetQueue commits, whatever joined or left the pool since its *)
(* guard: only listed games are queued, in the order of the list, and no   *)
(* two share a position; but for games that an import put into the queue   *)
(* after the demotion, which the transaction has not seen.                 *)
QueueOrdered ==
    [][queueTx # NoQueue /\ queueTx' = NoQueue =>
         LET members == pools'[queueTx.pool]
         IN  InListOrder(members, queueTx.ids, Queued(members) \ queueTx.late)]_<<poolsVars, libraryVars>>

(* The comment on HandleSetQueue, which has every member not listed become *)
(* a candidate, atomically: it does not hold of those games.               *)
QueueIsTheList ==
    [][queueTx # NoQueue /\ queueTx' = NoQueue =>
         LET members == pools'[queueTx.pool]
         IN  InListOrder(members, queueTx.ids, Queued(members))]_<<poolsVars, libraryVars>>
=============================================================================
