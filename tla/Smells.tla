------------------------------- MODULE Smells -------------------------------
(***************************************************************************)
(* The checks of internal/librarysmells and the endpoints that list, fix,  *)
(* ignore and restore what they flag.  A fix re-runs its check and then    *)
(* writes in another transaction; the games may be edited in between.      *)
(* A library may hold anything: rows written before the rules of           *)
(* internal/usergame (Library) existed, or by hand.                        *)
(***************************************************************************)
EXTENDS Integers, FiniteSets, FiniteSetsExt

CONSTANTS
    SmellGames,   \* user_games of one user
    SmellRows,    \* platform rows a game may have
    SmellStates,  \* the other fields: play_status, is_wishlisted, personal_rating is set
    PlayedFrom,   \* 0.5 hours, in the unit of hours_played here
    MaxIgnored    \* bound on the dismissals

PlayStatuses == {"not_started", "in_progress", "completed", "mastered", "dominated",
                 "shelved", "dropped", "replay"}

ASSUME SmellsAssumption ==
    /\ PlayedFrom \in Nat \ {0} /\ MaxIgnored \in Nat
    /\ SmellRows \subseteq [store : {"valid", "invalid", "none"}, owned : BOOLEAN,
                            date : {"", "possible", "impossible"}, hours : Nat]
    /\ SmellStates \subseteq [status : PlayStatuses, wish : BOOLEAN, rated : BOOLEAN]

VARIABLES
    smGame,     \* fields of each game
    smRows,     \* its user_game_platforms
    smIgnores,  \* smell_ignores: [game, check]
    smFix,      \* the apply request in progress
    smEdited    \* a game or an ignore changed since the request re-ran its check

smellVars == <<smGame, smRows, smIgnores, smFix, smEdited>>

NoFix == [check |-> "", games |-> {}]

HoursOf(rows) == MapThenSumSet(LAMBDA r : r.hours, rows)
Hours(g)      == HoursOf(smRows[g])

---------------------------------------------------------------------------
(* The checks. *)

OrphanGame(g)          == ~smGame[g].wish /\ smRows[g] = {}
StorefrontLess(g)      == \E r \in smRows[g] : r.store = "none"
MissingOwnership(g)    == \E r \in smRows[g] : ~r.owned
ImpossibleDate(g)      == \E r \in smRows[g] : r.date = "impossible"
WishlistedYetOwned(g)  == smGame[g].wish /\ smRows[g] # {}
InvalidStorefront(g)   == \E r \in smRows[g] : r.store = "invalid"
PlayedButNotStarted(g) == smGame[g].status = "not_started" /\ Hours(g) >= PlayedFrom
\* Mutant: a row without playtime is enough.
UntouchedSomewhere(g)  == smGame[g].status = "in_progress" /\ \E r \in smRows[g] : r.hours = 0
InProgressUntouched(g) == smGame[g].status = "in_progress" /\ Hours(g) = 0
Unrated(g)             == smGame[g].status \in {"completed", "mastered", "dominated"} /\ ~smGame[g].rated

Registry == {"orphan-game", "storefront-less-platform", "missing-ownership-status",
             "impossible-acquired-date", "wishlisted-yet-owned", "invalid-storefront-for-platform",
             "played-but-not-started", "in-progress-untouched", "unrated-after-finishing"}
Fixable  == {"wishlisted-yet-owned", "played-but-not-started", "in-progress-untouched"}

Flags(check, g) ==
    CASE check = "orphan-game"                     -> OrphanGame(g)
      [] check = "storefront-less-platform"        -> StorefrontLess(g)
      [] check = "missing-ownership-status"        -> MissingOwnership(g)
      [] check = "impossible-acquired-date"        -> ImpossibleDate(g)
      [] check = "wishlisted-yet-owned"            -> WishlistedYetOwned(g)
      [] check = "invalid-storefront-for-platform" -> InvalidStorefront(g)
      [] check = "played-but-not-started"          -> PlayedButNotStarted(g)
      [] check = "in-progress-untouched"           -> InProgressUntouched(g)
      [] check = "unrated-after-finishing"         -> Unrated(g)

\* Detect, and the counts of HandleSummary: what is flagged and was not dismissed.
Detect(check) == {g \in SmellGames : Flags(check, g) /\ <<g, check>> \notin smIgnores}
Smelly(g)     == {check \in Registry : g \in Detect(check)}

SmellsInit ==
    /\ smGame \in [SmellGames -> SmellStates]
    /\ smRows \in [SmellGames -> SUBSET SmellRows]
    /\ smIgnores = {} /\ smFix = NoFix /\ smEdited = FALSE

---------------------------------------------------------------------------
(* The endpoints. *)

\* HandleApply: of the games the client names, those that are flagged now are fixed.
Revalidate(check, ids) ==
    /\ smFix = NoFix /\ check \in Fixable /\ ids # {}
    /\ LET subset == ids \cap Detect(check)
       IN  /\ subset # {}
           /\ smFix' = [check |-> check, games |-> subset]
    /\ smEdited' = FALSE
    /\ UNCHANGED <<smGame, smRows, smIgnores>>

\* SetPlayStatusBulk sets the status unconditionally; ClearWishlist asks again.
ApplyFix ==
    /\ smFix # NoFix
    /\ smGame' = [g \in SmellGames |->
         IF g \notin smFix.games THEN smGame[g]
         ELSE CASE smFix.check = "played-but-not-started" -> [smGame[g] EXCEPT !.status = "in_progress"]
                [] smFix.check = "in-progress-untouched"  -> [smGame[g] EXCEPT !.status = "not_started"]
                [] OTHER -> [smGame[g] EXCEPT !.wish = @ /\ smRows[g] = {}]]
    /\ smFix' = NoFix
    /\ UNCHANGED <<smRows, smIgnores, smEdited>>

HandleIgnore(check, ids) ==
    /\ ids # {} /\ Cardinality(smIgnores) < MaxIgnored
    /\ smIgnores' = smIgnores \cup {<<g, check>> : g \in ids}
    /\ smEdited' = TRUE
    /\ UNCHANGED <<smGame, smRows, smFix>>

HandleRestore(check, ids) ==
    /\ \E g \in ids : <<g, check>> \in smIgnores
    /\ smIgnores' = smIgnores \ {<<g, check>> : g \in ids}
    /\ smEdited' = TRUE
    /\ UNCHANGED <<smGame, smRows, smFix>>

\* Any other request, sync or import that writes the game.
OtherWriter ==
    /\ \/ \E g \in SmellGames, s \in SmellStates : smGame' = [smGame EXCEPT ![g] = s] /\ UNCHANGED smRows
       \/ \E g \in SmellGames, r \in SmellRows :
            /\ smRows' = [smRows EXCEPT ![g] = IF r \in @ THEN @ \ {r} ELSE @ \cup {r}]
            /\ UNCHANGED smGame
    /\ smEdited' = TRUE
    /\ UNCHANGED <<smIgnores, smFix>>

SmellsNext ==
    \/ \E check \in Registry, ids \in SUBSET SmellGames :
          Revalidate(check, ids) \/ HandleIgnore(check, ids) \/ HandleRestore(check, ids)
    \/ ApplyFix \/ OtherWriter

SmellsSpec == SmellsInit /\ [][SmellsNext]_smellVars

---------------------------------------------------------------------------
\* The one-click fixes do not undo each other: a fix of games that nobody edited since they
\* were looked at leaves each with strictly fewer smells and none it did not have, so that
\* applying every fix empties the lists of the fixable checks.  Lists, checks and fixes are
\* written apart (detectors.go, apply.go, internal/usergame) and only agree by design.
FixesSettle ==
    [][smFix # NoFix /\ ApplyFix /\ ~smEdited =>
         \A g \in smFix.games : Smelly(g)' \subseteq Smelly(g) \ {smFix.check}]_smellVars
=============================================================================
