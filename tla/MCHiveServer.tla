--------------------------- MODULE MCHiveServer ---------------------------
(***************************************************************************)
(* Two keys of two users, two overlapping calls and two clients.           *)
(***************************************************************************)
EXTENDS HiveServer, TLC

CONSTANTS k1, k2, u1, u2

MCKeyUser == (k1 :> u1) @@ (k2 :> u2)

=============================================================================
