---------------------------- MODULE MCWorkspace ----------------------------
(***************************************************************************)
(* Two terminals in two workspaces, with everything that can happen; three *)
(* in two while splits are saved; four in one, which makes three levels of *)
(* containers.                                                             *)
(***************************************************************************)
EXTENDS Workspace

Symmetry == Permutations(Terminals)

\* Only splits are saved, and meanwhile nothing is chosen or deleted.
SplitsSaved == saving = NoRequest \/ (chooser = "closed" /\ saved /\ saving.op = "split")

Bounds ==
  /\ Cardinality(opened) > 2 => SplitsSaved
  /\ opened = Terminals => Len(roots) = 1 /\ saving = NoRequest

===========================================================================
