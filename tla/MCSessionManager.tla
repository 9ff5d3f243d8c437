-------------------------- MODULE MCSessionManager --------------------------
(***************************************************************************)
(* Two users with a connection each, two session ids and up to three       *)
(* handlers at a time.                                                     *)
(***************************************************************************)
EXTENDS SessionManager, TLC

CONSTANTS u1, u2, c1, c2

MCOwner == c1 :> u1 @@ c2 :> u2

Symmetry == Permutations(Sessions) \cup Permutations(Requests)

=============================================================================
