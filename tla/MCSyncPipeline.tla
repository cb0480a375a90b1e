--------------------------- MODULE MCSyncPipeline ---------------------------
(* Instances of SyncPipeline for TLC. *)
EXTENDS SyncPipeline, TLC

CONSTANTS g1, g2, p1, p2

\* g2 is the PS5 edition of g1; or two unrelated games.
Siblings12 == (g1 :> NoGame) @@ (g2 :> g1)
Unrelated  == (g1 :> NoGame) @@ (g2 :> NoGame)

\* The goroutines are interchangeable.
Symmetric == Permutations({p1, p2})
=============================================================================
