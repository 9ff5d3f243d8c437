----------------------------- MODULE PaneLists -----------------------------
(***************************************************************************)
(* What the user sees of the workspaces, whatever the splits: every        *)
(* workspace is a list of terminals, one workspace is current, and what is *)
(* done to it concerns one terminal and leaves the others in their order.  *)
(***************************************************************************)
EXTENDS Naturals, Sequences

CONSTANT Terminals

VARIABLES
  panes,    \* the terminals of every workspace
  current,  \* index of the current workspace, from 0
  opened    \* the terminals opened so far: their ids are never used again

vars == <<panes, current, opened>>

Here == panes[current + 1]
Positions == DOMAIN Here

\* s with e at position i, s without position i.
With(s, i, e) ==
  [j \in 1 .. Len(s) + 1 |-> IF j < i THEN s[j] ELSE IF j = i THEN e ELSE s[j - 1]]
Without(s, i) ==
  [j \in 1 .. Len(s) - 1 |-> IF j < i THEN s[j] ELSE s[j + 1]]

Init ==
  /\ panes = << <<>> >>
  /\ current = 0
  /\ opened = {}

SetCurrent ==
  /\ current' \in 0 .. Len(panes) - 1
  /\ UNCHANGED <<panes, opened>>

AddWorkspace ==
  /\ panes' = Append(panes, <<>>)
  /\ current' = Len(panes)
  /\ UNCHANGED opened

\* The workspace after the removed one is current next, or the last one.
RemoveWorkspace ==
  /\ \E i \in 1 .. Len(panes) :
       panes' = IF Len(panes) = 1 THEN << <<>> >> ELSE Without(panes, i)
  /\ current' = IF current >= Len(panes') THEN Len(panes') - 1 ELSE current
  /\ UNCHANGED opened

\* A new terminal next to another one, or last.
Open ==
  /\ \E t \in Terminals \ opened, i \in 1 .. Len(Here) + 1 :
       /\ panes' = [panes EXCEPT ![current + 1] = With(Here, i, t)]
       /\ opened' = opened \cup {t}
  /\ UNCHANGED current

Close ==
  /\ \E i \in Positions : panes' = [panes EXCEPT ![current + 1] = Without(Here, i)]
  /\ UNCHANGED <<current, opened>>

Move ==
  /\ \E i \in Positions, k \in Positions :
       panes' = [panes EXCEPT ![current + 1] = With(Without(Here, i), k, Here[i])]
  /\ UNCHANGED <<current, opened>>

Next == SetCurrent \/ AddWorkspace \/ RemoveWorkspace \/ Open \/ Close \/ Move

Spec == Init /\ [][Next]_vars

-----------------------------------------------------------------------------

\* A terminal is in one place of one workspace.
OncePlaced ==
  \A a, b \in DOMAIN panes : \A i \in DOMAIN panes[a], j \in DOMAIN panes[b] :
    panes[a][i] = panes[b][j] => a = b /\ i = j

=============================================================================
