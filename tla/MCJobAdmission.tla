--------------------------- MODULE MCJobAdmission ---------------------------
(* Instances of JobAdmission for TLC. *)
EXTENDS JobAdmission, TLC

CONSTANTS j1, j2, s1, m1, i1, h1, h2, c1, c2

\* One key of each class; the hashtext() of the first two collides.
Class == (s1 :> "sync") @@ (m1 :> "maint") @@ (i1 :> "import")
Lock  == (s1 :> h1) @@ (m1 :> h1) @@ (i1 :> h2)

\* Only a sync key, for the row that is never freed.
ClassSync  == s1 :> "sync"
LockSync   == s1 :> h1
=============================================================================
