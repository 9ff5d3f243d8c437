----------------------------- MODULE Workspace -----------------------------
(***************************************************************************)
(* WorkspaceManager, the page that lets the user choose a connection for a *)
(* new terminal, and the SplitViews that show the trees.                   *)
(*                                                                         *)
(* A terminal's view has a GlobalKey: Flutter keeps its state as long as   *)
(* every frame has it somewhere, and disposes it - which closes its        *)
(* session, see HiveTerminalView - when a frame has not.  All other widgets *)
(* here are matched by their place.                                        *)
(***************************************************************************)
EXTENDS SplitTree

CONSTANT MaxWorkspaces  \* bound on addWorkspace

\* There is always a workspace.
ASSUME MaxWorkspacesAssumption == MaxWorkspaces \in Nat \ {0}

VARIABLES
  roots,     \* the root of every Workspace, in the order of _workspaces
  current,   \* _currentIndex
  opened,    \* history: the panes created
  dragging,  \* _draggingId of the SplitView at every place of the IndexedStack
  drag,      \* the terminal the pointer holds
  shown,     \* terminals whose view is mounted
  disposed,  \* history: views disposed although their terminal is open
  dragged,   \* history: terminals ever dragged
  chooser,   \* what the page shows above itself
  request,   \* who awaits _showConnectionChooser
  saved,     \* the repository has connections
  saving     \* who awaits the repository's save of a new connection, at most one

treeVars == <<roots, current, opened>>
viewVars == <<dragging, shown, disposed>>
pageVars == <<chooser, request, saved, saving>>
vars == <<treeVars, viewVars, drag, dragged, pageVars>>

-----------------------------------------------------------------------------

Requests == [op : {"add", "split"}, target : Terminals \cup {None}, horizontal : BOOLEAN]
NoRequest == None

Root == roots[current + 1]
AllPanes(rs) == UNION {Panes(rs[i]) : i \in DOMAIN rs}

\* The terminals in front of the user.
Present == Panes(Root) \cap shown

\* setState and the frame after it: roots rs, a drag d in the SplitView of
\* every place.  A SplitView stays where a tree follows a tree.
Show(rs, d) ==
  /\ dragging' = [i \in DOMAIN rs |->
                    IF i \in DOMAIN roots /\ roots[i] # None /\ rs[i] # None
                    THEN d[i] ELSE None]
  /\ shown' = UNION {Panes(FilterNode(rs[i], dragging'[i])) : i \in DOMAIN rs}
  /\ disposed' = disposed \cup ((shown \ shown') \cap AllPanes(rs))

\* A new root for the current workspace, as far as MaxDepth allows it.
Replace(root, d) ==
  /\ root \in Node \cup {None}
  /\ roots' = [roots EXCEPT ![current + 1] = root]
  /\ Show(roots', d)

Init ==
  /\ roots = <<None>> /\ current = 0 /\ opened = {}
  /\ dragging = <<None>> /\ shown = {} /\ disposed = {}
  /\ drag = None /\ dragged = {}
  /\ chooser = "closed" /\ request = NoRequest
  /\ saved \in BOOLEAN /\ saving = NoRequest

\* One pointer, and what is open above the page takes it.
Free == chooser = "closed" /\ drag = None

-----------------------------------------------------------------------------
(***************************************************************************)
(* Workspaces.                                                             *)
(***************************************************************************)

SetCurrentIndex(i) ==
  /\ Free
  /\ i \in 0 .. Len(roots) - 1
  /\ current' = i
  /\ UNCHANGED <<roots, opened, viewVars, drag, dragged, pageVars>>

AddWorkspace ==
  /\ Free
  /\ Len(roots) < MaxWorkspaces
  /\ roots' = Append(roots, None)
  /\ current' = Len(roots)
  /\ Show(roots', dragging)
  /\ UNCHANGED <<opened, drag, dragged, pageVars>>

\* Mutant: the index is left alone.
RemoveWorkspace_KeepIndex(i) ==
  /\ Free
  /\ i \in DOMAIN roots
  /\ roots' = IF Len(roots) = 1 THEN <<None>> ELSE RemoveAt(roots, i)
  /\ Show(roots', dragging)
  /\ UNCHANGED <<current, opened, drag, dragged, pageVars>>

\* The last one is replaced by a new, empty one (the page lets only others go).
RemoveWorkspace(i) ==
  /\ Free
  /\ i \in DOMAIN roots
  /\ roots' = IF Len(roots) = 1 THEN <<None>> ELSE RemoveAt(roots, i)
  /\ current' = IF current >= Len(roots') THEN Len(roots') - 1 ELSE current
  /\ Show(roots', dragging)
  /\ UNCHANGED <<opened, drag, dragged, pageVars>>

-----------------------------------------------------------------------------
(***************************************************************************)
(* Terminals.                                                              *)
(***************************************************************************)

AddTerminal(t) ==
  Replace(IF Root = None THEN t ELSE Container(TRUE, <<Root, t>>), dragging)

SplitTerminal(target, t, horizontal) ==
  Replace(IF Root = None THEN None ELSE InsertNode(Root, target, t, horizontal, FALSE),
          dragging)

\* Mutant: the new terminal takes the place of the old one.
OpenPane_Replace(r) ==
  \E t \in Terminals \ opened :
    /\ IF r.op = "add" \/ Root = None THEN AddTerminal(t)
       ELSE Replace(RemoveNode(InsertNode(Root, r.target, t, r.horizontal, FALSE), r.target), dragging)
    /\ opened' = opened \cup ({t} \cap AllPanes(roots'))
    /\ UNCHANGED current

\* A TerminalPane with a fresh id, put where the request wants it; nowhere, if
\* the current workspace has no such terminal by then.
OpenPane(r) ==
  \E t \in Terminals \ opened :
    /\ IF r.op = "add" THEN AddTerminal(t) ELSE SplitTerminal(r.target, t, r.horizontal)
    /\ opened' = opened \cup ({t} \cap AllPanes(roots'))
    /\ UNCHANGED current

\* The close button of a terminal.
CloseTerminal(t) ==
  /\ Free
  /\ t \in Present
  /\ Replace(IF Root = t THEN None ELSE RemoveNode(Root, t), dragging)
  /\ UNCHANGED <<current, opened, drag, dragged, pageVars>>

\* A tap on a connection of the SavedConnectionsPage, whatever is open already.
ConnectSaved ==
  /\ Free /\ saved
  /\ OpenPane([op |-> "add", target |-> None, horizontal |-> TRUE])
  /\ UNCHANGED <<drag, dragged, pageVars>>

\* Connections are added and deleted there too.
EditSaved ==
  /\ Free
  /\ saved' = ~saved
  /\ UNCHANGED <<treeVars, viewVars, drag, dragged, chooser, request, saving>>

-----------------------------------------------------------------------------
(***************************************************************************)
(* _showConnectionChooser, which split and add await.                      *)
(***************************************************************************)

ShowConnectionChooser(r) ==
  /\ Free
  /\ IF r.op = "add" THEN Root = None ELSE r.target \in Present
  /\ request' = r
  /\ chooser' = IF saved THEN "sheet" ELSE "dialog"
  /\ UNCHANGED <<treeVars, viewVars, drag, dragged, saved, saving>>

PickSaved ==
  /\ chooser = "sheet"
  /\ OpenPane(request)
  /\ chooser' = "closed" /\ request' = NoRequest
  /\ UNCHANGED <<drag, dragged, saved, saving>>

\* "New Connection" pops the sheet, whose future completes with null: the
\* request is over before the dialog that follows has anything to say.
PickNew ==
  /\ chooser = "sheet"
  /\ chooser' = "dialog" /\ request' = NoRequest
  /\ UNCHANGED <<treeVars, viewVars, drag, dragged, saved, saving>>

DialogConfirm ==
  /\ chooser = "dialog"
  /\ IF request # NoRequest THEN OpenPane(request) ELSE UNCHANGED <<treeVars, viewVars>>
  /\ chooser' = "closed" /\ request' = NoRequest
  /\ UNCHANGED <<drag, dragged, saved, saving>>

\* With "add to favorites" the connection is saved first: it is in the list at
\* once, and while it is written the page is the user's again.
DialogConfirmFavorite ==
  /\ chooser = "dialog" /\ saving = NoRequest
  /\ saving' = request
  /\ saved' = TRUE
  /\ chooser' = "closed" /\ request' = NoRequest
  /\ UNCHANGED <<treeVars, viewVars, drag, dragged>>

SaveDone ==
  /\ saving # NoRequest
  /\ OpenPane(saving)
  /\ saving' = NoRequest
  /\ UNCHANGED <<drag, dragged, chooser, request, saved>>

\* The preferences cannot be written: nobody catches the exception.
SaveFails ==
  /\ saving # NoRequest
  /\ saving' = NoRequest
  /\ UNCHANGED <<treeVars, viewVars, drag, dragged, chooser, request, saved>>

Dismiss ==
  /\ chooser # "closed"
  /\ chooser' = "closed" /\ request' = NoRequest
  /\ UNCHANGED <<treeVars, viewVars, drag, dragged, saved, saving>>

-----------------------------------------------------------------------------
(***************************************************************************)
(* Dragging a terminal by its header.                                      *)
(***************************************************************************)

\* onDragStarted: the SplitView filters the terminal out of what it builds.
DragStart(t) ==
  /\ Free
  /\ t \in Present
  /\ drag' = t
  /\ dragged' = dragged \cup {t}
  /\ Show(roots, [dragging EXCEPT ![current + 1] = t])
  /\ UNCHANGED <<treeVars, pageVars>>

\* Draggable calls onDragEnd only while the view it is part of is mounted.
AfterDrag ==
  IF drag \in shown THEN [dragging EXCEPT ![current + 1] = None] ELSE dragging

\* moveTerminal, of a terminal that is in the tree and not the target.
MoveTerminal(source, target, horizontal, before) ==
  LET rest == RemoveNode(Root, source)
  IN  Replace(IF rest = None THEN source ELSE InsertNode(rest, target, source, horizontal, before),
              AfterDrag)

\* A drop on another terminal, left, right, above or below.
Drop(target, horizontal, before) ==
  /\ drag # None
  /\ target \in Present \ {drag}
  /\ MoveTerminal(drag, target, horizontal, before)
  /\ drag' = None
  /\ UNCHANGED <<current, opened, dragged, pageVars>>

\* A drop anywhere else; the zone that alone is left does nothing with it.
Release ==
  /\ drag # None
  /\ drag' = None
  /\ Show(roots, AfterDrag)
  /\ UNCHANGED <<treeVars, dragged, pageVars>>

Next ==
  \/ \E i \in 0 .. MaxWorkspaces : SetCurrentIndex(i) \/ RemoveWorkspace(i)
  \/ AddWorkspace \/ ConnectSaved \/ EditSaved
  \/ \E r \in Requests : ShowConnectionChooser(r)
  \/ PickSaved \/ PickNew \/ DialogConfirm \/ Dismiss
  \/ DialogConfirmFavorite \/ SaveDone \/ SaveFails
  \/ \E t \in Terminals : CloseTerminal(t) \/ DragStart(t)
  \/ \E t \in Terminals, horizontal, before \in BOOLEAN : Drop(t, horizontal, before)
  \/ Release

Spec == Init /\ [][Next]_vars

-----------------------------------------------------------------------------
(***************************************************************************)
(* Correctness.                                                            *)
(***************************************************************************)

\* Every variable has its type, and currentWorkspace is one of the list.
TypeOK ==
  /\ roots \in Seq(Node \cup {None})
  /\ opened \subseteq Terminals
  /\ AllPanes(roots) \subseteq opened
  /\ Len(roots) \in 1 .. MaxWorkspaces
  /\ current \in 0 .. Len(roots) - 1
  /\ dragging \in [DOMAIN roots -> Terminals \cup {None}]
  /\ drag \in Terminals \cup {None}
  /\ shown \subseteq Terminals /\ disposed \subseteq Terminals /\ dragged \subseteq Terminals
  /\ chooser \in {"closed", "sheet", "dialog"}
  /\ {request, saving} \subseteq Requests \cup {NoRequest}
  /\ saved \in BOOLEAN

\* After any mixture of splits, moves and closes every container separates
\* something: it has two children or more.
NoIdleContainers ==
  \A i \in DOMAIN roots : \A c \in Containers(roots[i]) : Len(c.children) > 1

\* A dropped terminal is where the user saw the zone: directly before or after
\* the one it was dropped on, in the direction of the zone.
PlacedBeside ==
  [][ \A t \in Terminals, horizontal, before \in BOOLEAN :
        Drop(t, horizontal, before) =>
          \E c \in Containers(roots'[current + 1]) : \E i \in 1 .. Len(c.children) - 1 :
            /\ c.horizontal = horizontal
            /\ SubSeq(c.children, i, i + 1) = IF before THEN <<drag, t>> ELSE <<t, drag>> ]_vars

\* No step turns the split between two terminals it is not about.
LayoutKept ==
  [][ \A i \in {i \in DOMAIN roots \cap DOMAIN roots' : roots[i] # roots'[i]} :
        \A a, b \in (Panes(roots[i]) \cap Panes(roots'[i])) \ {drag} :
          a # b => Between(roots[i], a, b).horizontal = Between(roots'[i], a, b).horizontal ]_vars

\* A drop changes the layout where the user sees it, and nowhere else: the two above.
DropsKeepLayout == PlacedBeside /\ LayoutKept

\* A terminal nobody dragged keeps its view, and with it its session, while
\* others are split, moved and closed around it.
ViewsKept == disposed \subseteq dragged

Lists == INSTANCE PaneLists WITH panes <- [i \in DOMAIN roots |-> Leaves(roots[i])]

\* Read from left to right and from top to bottom the trees are the plain lists
\* of PaneLists: whatever becomes of the containers, splits, moves and closes
\* concern one terminal and leave the others in their order.
ImplementsLists == Lists!Spec

(***************************************************************************)
(* What plans and comments say and the code does not do.                   *)
(***************************************************************************)

\* "On release the terminal is inserted in its new place": when nothing is
\* dragged every terminal of the current workspace is shown.
DroppedIsShown == drag = None => Panes(Root) \subseteq shown

\* "Quick picks from saved or new connection": a connection the user chooses
\* for a terminal opens one.
ChoiceOpens == [][DialogConfirm \/ PickSaved => opened' # opened]_vars

=============================================================================
