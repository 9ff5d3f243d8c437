----------------------------- MODULE SplitTree -----------------------------
(***************************************************************************)
(* The tree of panes of a workspace and the operations of WorkspaceManager *)
(* on it.  A TerminalNode is its pane's id; a SplitContainerNode is a      *)
(* record.  Ids of containers name nothing a caller passes in.  The ratios *)
(* the manager computes are the same for all children of a container; what *)
(* the user makes of them is in SplitContainer.                            *)
(*                                                                         *)
(* What the manager computes by recursion on a node is here a function of  *)
(* the levels below the node, then of the node.                            *)
(***************************************************************************)
EXTENDS SequencesExt, Integers

CONSTANTS
  Terminals,  \* ids of TerminalPanes
  None,       \* null
  MaxDepth    \* bound on the containers around a terminal

Container(horizontal, children) == [horizontal |-> horizontal, children |-> children]

\* The nodes that d levels of containers can make, and those the bound allows.
Nodes[d \in Nat] ==
  IF d = 0 THEN Terminals
  ELSE Terminals \cup [horizontal : BOOLEAN, children : Seq(Nodes[d - 1])]

Node == Nodes[MaxDepth]

\* An id is not null, and neither is a container.
ASSUME NodeAssumption ==
  /\ MaxDepth \in Nat
  /\ None \notin Terminals
  /\ (Terminals \cup {None}) \cap [horizontal : BOOLEAN, children : Seq(Node)] = {}

\* A node and everything below it: the terminals and the containers of a tree.
Parts[d \in Nat] ==
  [node \in Nodes[d] |->
     IF node \in Terminals THEN {node}
     ELSE {node} \cup UNION {Parts[d - 1][node.children[i]] : i \in DOMAIN node.children}]

Panes(root) == IF root = None THEN {} ELSE Parts[MaxDepth][root] \cap Terminals
Containers(root) == IF root = None THEN {} ELSE Parts[MaxDepth][root] \ Terminals

\* The terminals of a tree from left to right and from top to bottom.
LeavesOf[d \in Nat] ==
  [node \in Nodes[d] |->
     IF node \in Terminals THEN <<node>>
     ELSE FlattenSeq([i \in DOMAIN node.children |-> LeavesOf[d - 1][node.children[i]]])]

Leaves(root) == IF root = None THEN <<>> ELSE LeavesOf[MaxDepth][root]

\* The container that has a and b in different children.
Between(root, a, b) ==
  CHOOSE c \in Containers(root) :
    \E i, j \in DOMAIN c.children :
      i # j /\ a \in Panes(c.children[i]) /\ b \in Panes(c.children[j])

Beside(children, target, new, before) ==
  LET i == CHOOSE i \in DOMAIN children : children[i] = target
  IN  InsertAt(children, IF before THEN i ELSE i + 1, new)

\* Mutant: any container will do, whatever its direction.
TakesIn_AnyDirection(node, target, horizontal) == target \in ToSet(node.children)

\* The container of the target takes the new terminal in where it runs in the
\* direction asked for.
TakesIn(node, target, horizontal) ==
  target \in ToSet(node.children) /\ node.horizontal = horizontal

\* _insertNode, and with before = FALSE _splitNode: into the container of the
\* target where that runs in the direction asked for, else into a new one.
InsertNode(root, target, new, horizontal, before) ==
  LET insert[d \in Nat] ==
        [node \in Nodes[d] |->
           IF node = target THEN Container(horizontal, Beside(<<node>>, node, new, before))
           ELSE IF node \in Terminals THEN node
           ELSE IF TakesIn(node, target, horizontal)
           THEN Container(horizontal, Beside(node.children, target, new, before))
           ELSE Container(node.horizontal,
                  [i \in DOMAIN node.children |-> insert[d - 1][node.children[i]]])]
  IN  insert[MaxDepth][root]

\* What is there of a list with nulls in it, in its order.
NonNull(nodes) ==
  LET upTo[i \in 0 .. Len(nodes)] ==
        IF i = 0 THEN <<>>
        ELSE IF nodes[i] = None THEN upTo[i - 1] ELSE Append(upTo[i - 1], nodes[i])
  IN  upTo[Len(nodes)]

\* Mutants: a container with one child stays; it goes, and its child with it.
Collapse_Keep(horizontal, children) ==
  IF children = <<>> THEN None ELSE Container(horizontal, children)
Collapse_Drop(horizontal, children) ==
  IF Len(children) < 2 THEN None ELSE Container(horizontal, children)

\* What is left of a container after some of its children are gone.
Collapse(horizontal, children) ==
  IF children = <<>> THEN None
  ELSE IF Len(children) = 1 THEN children[1]
  ELSE Container(horizontal, children)

\* _removeNode.  A root that is the target itself is not its business.
RemoveNode(root, target) ==
  LET remove[d \in Nat] ==
        [node \in Nodes[d] |->
           IF node \in Terminals THEN node
           ELSE Collapse(node.horizontal,
                  NonNull([i \in DOMAIN node.children |->
                             IF node.children[i] = target THEN None
                             ELSE remove[d - 1][node.children[i]]]))]
  IN  remove[MaxDepth][root]

\* _filterNode of SplitView does the same with the tree it shows, root included.
FilterNode(root, target) ==
  IF root = None \/ root = target THEN None ELSE RemoveNode(root, target)

=============================================================================
