----------------------------- MODULE MCAppState -----------------------------
(* Instances of AppState for TLC. *)
EXTENDS AppState, TLC

CONSTANTS r1, r2, c1
=============================================================================
