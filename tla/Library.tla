------------------------------- MODULE Library -------------------------------
(***************************************************************************)
(* One user's collection: the rows of user_games, user_game_platforms and  *)
(* pool_games, and every operation of internal/usergame that writes them,  *)
(* with the HTTP handler of api/user_games.go that calls it.               *)
(*                                                                         *)
(* Each operation runs in one READ COMMITTED transaction.  Three decide on *)
(* what they have read without a lock, and are split:                      *)
(*  - the Acquire of a sync or an import on a row that exists locks the    *)
(*    user_games row (ON CONFLICT DO UPDATE), reads the platform row, and  *)
(*    then writes what it computed from it: AcquireRead, AcquireWrite;     *)
(*  - AddPlatform and UpdatePlatform write a platform row and promote the  *)
(*    status they can see: one that another transaction has written and    *)
(*    not committed they cannot, and they do not wait for it either,       *)
(*    unless they mean to change it;                                       *)
(*  - RecordProgress writes the status and promotes it by the hours it can *)
(*    see.                                                                 *)
(* The last two are open from their promotion to CommitPlatform and        *)
(* CommitProgress.  The others are one step: they lock what they read, or  *)
(* read and write in one statement, or lock the user_games row before the  *)
(* statement that promotes.                                                *)
(***************************************************************************)
EXTENDS Integers, Functions, FiniteSetsExt

CONSTANTS
    Games,          \* games.id values that the user may have a row for
    Platforms,      \* slugs of the platforms table
    Storefronts,    \* slugs of the storefronts table
    NoStore,        \* storefront IS NULL
    Keys,           \* the [platform, storefront] pairs requests name
    Statuses,       \* enum.PlayStatus values
    Finished,       \* enum.FinishedPlayStatuses
    MaxHours,       \* bound on hours_played
    Ranks,          \* ownershipRank of the ownership_status values
    Pools,          \* pools.id values
    NoGame,         \* the game of a transaction that is not open
    NoKey           \* tx.row when there is no row to update

ASSUME LibraryStatusAssumption ==
    /\ {"not_started", "in_progress"} \subseteq Statuses \ Finished
    /\ Finished \subseteq Statuses
    /\ "absent" \notin Statuses
ASSUME LibraryNullAssumption == NoGame \notin Games /\ NoKey \notin Keys
ASSUME LibraryNumberAssumption == MaxHours \in Nat /\ Ranks \subseteq Nat

VARIABLES
    status,     \* user_games.play_status, "absent" where there is no row
    wish,       \* user_games.is_wishlisted
    plat,       \* the platform rows of each game: a function from some keys
    pools,      \* the members of each pool: game -> position, -1 for NULL
    tx,         \* the open Acquire transaction
    write,      \* the open AddPlatform or UpdatePlatform
    progress,   \* the open RecordProgress
    queueTx     \* the open HandleSetQueue of module Pools

txVars      == <<tx, write, progress, queueTx>>
libraryVars == <<status, wish, plat, pools, txVars>>

\* hours_played (NULL counts as 0 wherever it is read) and the ownership rank.
Rows  == [hours : 0..MaxHours, own : Ranks]
Idle  == [game |-> NoGame]
\* new: the positions it has given, to members whose rows it has locked.
NoQueue == [pool |-> -1, ids |-> <<>>, at |-> -1, new |-> <<>>, late |-> {}]

Present    == {g \in Games : status[g] # "absent"}
Owned(g)   == DOMAIN plat[g]
Members(p) == DOMAIN pools[p]

\* A transaction has updated the user_games row of g: who wants to update or
\* delete it waits.
Locked(g) ==
    \/ g \in {tx.game, progress.game}
    \/ write.game = g /\ (write.promote \/ wish[g])

\* A transaction writes a platform row of g that has, had or will have key k.
HoldsKey(g, k) == write.game = g /\ k \in {write.from, write.to}

\* The rows of these games in pool_games can be deleted.
MayLeave(gs) == gs \cap DOMAIN queueTx.new = {}

Higher(a, b) == IF a > b THEN a ELSE b

\* The slugs exist in the reference tables; otherwise ErrUnprocessable.
ValidatePlatformRef(k) ==
    k.platform \in Platforms /\ k.storefront \in Storefronts \cup {NoStore}

-----------------------------------------------------------------------------
(* The rules the operations share. *)

Played(rows) == \E k \in DOMAIN rows : rows[k].hours > 0

\* Mutant: looks at the rows one by one instead of at their sum.
PromoteIfAllPlayed(st, rows) ==
    IF st = "not_started" /\ \A k \in DOMAIN rows : rows[k].hours > 0 THEN "in_progress" ELSE st

PromoteIfPlayed(st, rows) ==
    IF st = "not_started" /\ Played(rows) THEN "in_progress" ELSE st

\* Mutant: a platform does not end the wish.
ClearWishlistNever(w, rows) == w

ClearWishlistOnAcquire(w, rows) == w /\ DOMAIN rows = {}

Without(gs) == [p \in Pools |-> Restrict(pools[p], Members(p) \ gs)]

RemoveFromPoolsIfFinished(gs, st) == IF st \in Finished THEN Without(gs) ELSE pools

\* The platform rows of g become rows: what every writer of them does next.
SetPlatforms(g, rows) ==
    /\ plat' = [plat EXCEPT ![g] = rows]
    /\ wish' = [wish EXCEPT ![g] = ClearWishlistOnAcquire(@, rows)]
    /\ status' = [status EXCEPT ![g] = PromoteIfPlayed(@, rows)]
    /\ UNCHANGED pools

WithRow(rows, k, r)  == [x \in DOMAIN rows \cup {k} |-> IF x = k THEN r ELSE rows[x]]
WithoutKeys(rows, K) == Restrict(rows, DOMAIN rows \ K)

\* insertPlatformStrict: a duplicate pair is ErrConflict and nothing is written.
InsertPlatformsStrict(g, K, in) ==
    /\ K \cap Owned(g) = {}
    /\ \A k \in K : ValidatePlatformRef(k)
    /\ SetPlatforms(g, [k \in Owned(g) \cup K |-> IF k \in K THEN in ELSE plat[g][k]])

\* The open Acquire updates by row id: the row it read may get another key, or
\* be deleted.
Follow(g, k, to) == IF tx.game = g /\ tx.row = k THEN [tx EXCEPT !.row = to] ELSE tx

\* History: games whose status and hours are being written by two transactions
\* that do not see each other.
Overlapped(t, gs) == IF t.game \in gs THEN [t EXCEPT !.overlap = TRUE] ELSE t

LibraryInit ==
    /\ status = [g \in Games |-> "absent"]
    /\ wish = [g \in Games |-> FALSE]
    /\ plat = [g \in Games |-> <<>>]
    /\ pools = [p \in Pools |-> <<>>]
    /\ tx = Idle /\ write = Idle /\ progress = Idle /\ queueTx = NoQueue

-----------------------------------------------------------------------------
(* Acquire. *)

\* No row yet: the insert, the platforms and the two rules commit as one.  An
\* import may carry a status and the wishlist flag; a sync carries neither.
\* ModeCreate finds the row there: ErrConflict, nothing is written.
AcquireFresh(g, st, w, K, in) ==
    /\ status[g] = "absent" /\ tx = Idle
    /\ \A k \in K : ValidatePlatformRef(k)
    /\ LET rows == [k \in K |-> in]
       IN  /\ plat' = [plat EXCEPT ![g] = rows]
           /\ wish' = [wish EXCEPT ![g] = ClearWishlistOnAcquire(w, rows)]
           /\ status' = [status EXCEPT ![g] = PromoteIfPlayed(st, rows)]
    /\ UNCHANGED <<pools, txVars>>

HandleCreateUserGame(g, st, w, K, in) ==
    /\ ~(w /\ K # {})
    /\ AcquireFresh(g, st, w, K, in)

\* upsertUserGame hits the row and locks it; mergeOnePlatform selects the
\* platform row.  "storefront = NULL" is never true, so a row without a
\* storefront is never found.
AcquireRead(g, k, in) ==
    /\ g \in Present /\ tx = Idle /\ ~Locked(g)
    /\ ValidatePlatformRef(k)
    /\ LET found == k \in Owned(g) /\ k.storefront # NoStore
       IN  tx' = [game |-> g, key |-> k, in |-> in, found |-> found,
                  read |-> IF found THEN plat[g][k] ELSE in,
                  row |-> IF found THEN k ELSE NoKey]
    /\ UNCHANGED <<status, wish, plat, pools, write, progress, queueTx>>

\* The better of what was read and what came in, field by field.
Merged == [hours |-> Higher(tx.in.hours, tx.read.hours),
           own   |-> Higher(tx.in.own, tx.read.own)]

\* INSERT ... ON CONFLICT DO NOTHING when nothing was read, else UPDATE by id.
MergeOnePlatform ==
    LET rows == plat[tx.game]
    IN  CASE ~tx.found /\ tx.key \notin DOMAIN rows -> WithRow(rows, tx.key, tx.in)
          [] tx.found /\ tx.row # NoKey -> WithRow(rows, tx.row, Merged)
          [] OTHER -> rows

AcquireWrite ==
    /\ tx # Idle
    /\ ~HoldsKey(tx.game, IF tx.found THEN tx.row ELSE tx.key)
    /\ SetPlatforms(tx.game, MergeOnePlatform)
    /\ tx' = Idle
    /\ UNCHANGED <<write, progress, queueTx>>

\* A database error, a deadlock victim or a cancelled context: rolled back.
AcquireAbort ==
    /\ tx # Idle /\ tx' = Idle
    /\ UNCHANGED <<status, wish, plat, pools, write, progress, queueTx>>

-----------------------------------------------------------------------------
(* Platform rows. *)

\* The row from (or none) becomes row r under the key to, seen by nobody yet; then
\* the promotion, by the committed status and the hours of the committed rows and
\* this one.  An insert ends a wish and so locks the row of user_games; a promotion
\* does so if it changes the status, else nothing is locked.
WriteThenPromote(g, from, to, r) ==
    LET rows    == WithRow(WithoutKeys(plat[g], {from}), to, r)
        promote == PromoteIfPlayed(status[g], rows) # status[g]
    IN  /\ write = Idle
        /\ Locked(g) => ~promote /\ ~wish[g]
        /\ write' = [game |-> g, from |-> from, to |-> to, row |-> r, promote |-> promote,
                     overlap |-> progress.game = g]
        /\ progress' = Overlapped(progress, {g})
        /\ UNCHANGED <<status, wish, plat, pools, tx, queueTx>>

\* A duplicate pair is ErrConflict.
AddPlatform(g, k, in) ==
    /\ g \in Present /\ k \notin Owned(g) /\ ValidatePlatformRef(k)
    /\ WriteThenPromote(g, NoKey, k, in)

\* The handler checks the slugs before it asks, the operation again.
HandleCreatePlatform(g, k, in) == ValidatePlatformRef(k) /\ AddPlatform(g, k, in)

\* PATCH of one row, its key included: the pair must stay unique, and a
\* storefront can be set but not cleared ("" is no row of storefronts).
UpdatePlatform(g, k, to, r) ==
    /\ g \in Present /\ k \in Owned(g)
    /\ to \in Keys \ (Owned(g) \ {k}) /\ ValidatePlatformRef(to)
    /\ to.storefront = NoStore => k.storefront = NoStore
    /\ WriteThenPromote(g, k, to, r)

HandleUpdatePlatform(g, k, to, r) ==
    /\ g \in Present /\ k \in Owned(g) /\ ValidatePlatformRef(to)
    /\ UpdatePlatform(g, k, to, r)

CommitPlatform ==
    LET g    == write.game
        rows == WithRow(WithoutKeys(plat[g], {write.from}), write.to, write.row)
    IN  /\ write # Idle
        /\ plat' = [plat EXCEPT ![g] = rows]
        /\ wish' = [wish EXCEPT ![g] = ClearWishlistOnAcquire(@, rows)]
        /\ status' = [status EXCEPT ![g] = IF write.promote THEN "in_progress" ELSE @]
        /\ tx' = IF write.from = NoKey THEN tx ELSE Follow(g, write.from, write.to)
        /\ write' = Idle
        /\ UNCHANGED <<pools, progress, queueTx>>

AbortPlatform ==
    /\ write # Idle /\ write' = Idle
    /\ UNCHANGED <<status, wish, plat, pools, tx, progress, queueTx>>

RemovePlatform(g, k) ==
    /\ g \in Present /\ k \in Owned(g) /\ ~HoldsKey(g, k)
    /\ plat' = [plat EXCEPT ![g] = WithoutKeys(@, {k})]
    /\ tx' = Follow(g, k, NoKey)
    /\ UNCHANGED <<status, wish, pools, write, progress, queueTx>>

HandleDeletePlatform(g, k) == RemovePlatform(g, k)

\* Rows without hours; a game that has the pair is skipped, wishlist and all.
AddPlatformBulk(G, k) ==
    /\ ValidatePlatformRef(k) /\ k.storefront # NoStore
    /\ LET new == {g \in G \cap Present : k \notin Owned(g)}
       IN  /\ new # {}
           /\ \A g \in new : ~(Locked(g) /\ wish[g]) /\ ~HoldsKey(g, k)
           /\ plat' = [g \in Games |-> IF g \in new
                         THEN WithRow(plat[g], k, [hours |-> 0, own |-> Max(Ranks)]) ELSE plat[g]]
           /\ wish' = [g \in Games |-> wish[g] /\ g \notin new]
    /\ UNCHANGED <<status, pools, txVars>>

HandleBulkAddPlatforms(G, k) == G # {} /\ AddPlatformBulk(G, k)

RemovePlatformBulk(G, k) ==
    /\ k.storefront # NoStore
    /\ \E g \in G \cap Present : k \in Owned(g)
    /\ \A g \in G : ~HoldsKey(g, k)
    /\ plat' = [g \in Games |-> IF g \in G THEN WithoutKeys(plat[g], {k}) ELSE plat[g]]
    /\ tx' = IF tx.game \in G THEN Follow(tx.game, k, NoKey) ELSE tx
    /\ UNCHANGED <<status, wish, pools, write, progress, queueTx>>

HandleBulkRemovePlatforms(G, k) == G # {} /\ RemovePlatformBulk(G, k)

MoveToLibrary(g, K, in) ==
    /\ g \in Present /\ wish[g] /\ ~Locked(g)
    /\ InsertPlatformsStrict(g, K, in)
    /\ UNCHANGED txVars

HandleMoveToLibrary(g, K, in) == K # {} /\ MoveToLibrary(g, K, in)

\* The fix of the "wishlisted yet owned" smell.
ClearWishlist(G) ==
    /\ \A g \in G : ~Locked(g)
    /\ wish' = [g \in Games |-> wish[g] /\ ~(g \in G /\ Owned(g) # {})]
    /\ UNCHANGED <<status, plat, pools, txVars>>

-----------------------------------------------------------------------------
(* Play status, and rows that go. *)

\* A play_status among the fields; the others are data.
UpdateFields(g, st) ==
    /\ g \in Present /\ ~Locked(g)
    /\ st \in Finished => MayLeave({g})
    /\ status' = [status EXCEPT ![g] = st]
    /\ pools' = RemoveFromPoolsIfFinished({g}, st)
    /\ write' = Overlapped(write, {g})
    /\ UNCHANGED <<wish, plat, tx, progress, queueTx>>

HandleUpdateUserGame(g, st) == st \in Statuses /\ UpdateFields(g, st)

\* Writes the status, which locks the row; then promotes by the committed hours,
\* and leaves the pools alone.
RecordProgress(g, st) ==
    /\ g \in Present /\ ~Locked(g) /\ progress = Idle
    /\ progress' = [game |-> g, status |-> PromoteIfPlayed(st, plat[g]),
                    overlap |-> write.game = g]
    /\ write' = Overlapped(write, {g})
    /\ UNCHANGED <<status, wish, plat, pools, tx, queueTx>>

CommitProgress ==
    /\ progress # Idle
    /\ status' = [status EXCEPT ![progress.game] = progress.status]
    /\ progress' = Idle
    /\ UNCHANGED <<wish, plat, pools, tx, write, queueTx>>

AbortProgress ==
    /\ progress # Idle /\ progress' = Idle
    /\ UNCHANGED <<status, wish, plat, pools, tx, write, queueTx>>

HandleUpdateProgress(g, st) == st \in Statuses /\ RecordProgress(g, st)

\* One update and one clean-up of the pools for each id that is the user's.
SetPlayStatusBulk(G, st) ==
    /\ \A g \in G : ~Locked(g)
    /\ st \in Finished => MayLeave(G)
    /\ status' = [g \in Games |-> IF g \in G \cap Present THEN st ELSE status[g]]
    /\ pools' = RemoveFromPoolsIfFinished(G, st)
    /\ write' = Overlapped(write, G)
    /\ UNCHANGED <<wish, plat, tx, progress, queueTx>>

HandleBulkUpdate(G, st) == G # {} /\ st \in Statuses /\ SetPlayStatusBulk(G, st)

\* DELETE FROM user_games; the foreign keys cascade.
DeleteRows(G) ==
    /\ \A g \in G : ~Locked(g) /\ write.game # g
    /\ MayLeave(G)
    /\ status' = [g \in Games |-> IF g \in G THEN "absent" ELSE status[g]]
    /\ wish' = [g \in Games |-> wish[g] /\ g \notin G]
    /\ plat' = [g \in Games |-> IF g \in G THEN <<>> ELSE plat[g]]
    /\ pools' = Without(G)
    /\ UNCHANGED txVars

Delete(g)     == g \in Present /\ DeleteRows({g})
DeleteBulk(G) == DeleteRows(G \cap Present)
\* The user's jobs go in the same transaction (SyncPipeline's "deleted" rows).
ClearLibrary  == DeleteRows(Present)

HandleDeleteUserGame(g) == Delete(g)
HandleBulkDelete(G)     == G # {} /\ DeleteBulk(G)
HandleClearLibrary      == ClearLibrary

-----------------------------------------------------------------------------
RowOps(g) ==
    \/ \E in \in Rows, k \in Keys : AcquireRead(g, k, in) \/ HandleCreatePlatform(g, k, in)
    \/ \E in \in Rows, K \in SUBSET Keys, st \in Statuses, w \in BOOLEAN :
          \/ AcquireFresh(g, st, w, K, in)
          \/ HandleCreateUserGame(g, st, w, K, in)
    \/ \E in \in Rows, K \in SUBSET Keys : HandleMoveToLibrary(g, K, in)
    \/ \E in \in Rows, k, to \in Keys : HandleUpdatePlatform(g, k, to, in)
    \/ \E k \in Keys : HandleDeletePlatform(g, k)
    \/ \E st \in Statuses : HandleUpdateUserGame(g, st) \/ HandleUpdateProgress(g, st)
    \/ HandleDeleteUserGame(g)

BulkOps ==
    \E G \in SUBSET Games :
        \/ \E k \in Keys : HandleBulkAddPlatforms(G, k) \/ HandleBulkRemovePlatforms(G, k)
        \/ \E st \in Statuses : HandleBulkUpdate(G, st)
        \/ ClearWishlist(G) \/ HandleBulkDelete(G)

TransactionEnds ==
    \/ AcquireWrite \/ AcquireAbort
    \/ CommitPlatform \/ AbortPlatform
    \/ CommitProgress \/ AbortProgress

LibraryNext ==
    \/ \E g \in Games : RowOps(g)
    \/ TransactionEnds
    \/ BulkOps \/ HandleClearLibrary

LibrarySpec == LibraryInit /\ [][LibraryNext]_libraryVars

-----------------------------------------------------------------------------
(* A wishlisted game has no platform row, and only a row of the collection  *)
(* has either: whatever path brings a platform takes the game off the      *)
(* wishlist (clearWishlistOnAcquire), also while a sync's Acquire is open.  *)
WishlistDisjoint ==
    \A g \in Games : /\ wish[g] => Owned(g) = {}
                     /\ g \notin Present => ~wish[g] /\ Owned(g) = {}

(* Hours that appear promote: a step that leaves a game with played hours   *)
(* and not_started found it so, or is the user setting the status by an     *)
(* edit, which does not promote; or it ends a transaction that wrote the    *)
(* hours, or the progress, while another wrote the other one               *)
(* (promoteToInProgressIfPlayed after every write of hours_played, and     *)
(* after a progress update).                                               *)
Unseen(t, g) == t.game = g /\ t.overlap

PromoteOnPlay ==
    [][\A g \in Games : status'[g] = "not_started" /\ Played(plat'[g]) =>
          \/ Played(plat[g]) /\ status[g] = "not_started"
          \/ Played(plat[g]) /\ plat'[g] = plat[g] /\ progress' = progress
          \/ write' = Idle /\ Unseen(write, g)
          \/ progress' = Idle /\ Unseen(progress, g)]_libraryVars

(* Without the last two: the reading of promote.go that does not hold.      *)
PlayedIsStarted ==
    [][\A g \in Games : status'[g] = "not_started" /\ Played(plat'[g]) =>
          \/ Played(plat[g]) /\ status[g] = "not_started"
          \/ Played(plat[g]) /\ plat'[g] = plat[g] /\ progress' = progress]_libraryVars
=============================================================================
