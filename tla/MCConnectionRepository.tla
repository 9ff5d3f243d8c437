----------------------- MODULE MCConnectionRepository -----------------------
(***************************************************************************)
(* Two connections of two versions and two credentials: enough for one     *)
(* operation to be cut between two credentials while another connection is *)
(* saved, deleted or moved.                                                *)
(***************************************************************************)
EXTENDS ConnectionRepository, TLC

Symmetry == Permutations(Ids) \cup Permutations(Versions)

=============================================================================
