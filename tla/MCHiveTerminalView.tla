------------------------ MODULE MCHiveTerminalView ------------------------
(***************************************************************************)
(* Three calls: a connect, another one, a dispose.                         *)
(***************************************************************************)
EXTENDS HiveTerminalView, TLC

Symmetry == Permutations(Calls) \cup Permutations(Sessions)

===========================================================================
