SPECIFICATION Spec
CONSTANTS
  None = None
  Terminals = {t1, t2, t3, t4}
  MaxDepth = 3
  MaxWorkspaces = 2
SYMMETRY Symmetry
CONSTRAINT Bounds
INVARIANTS
  TypeOK
  NoIdleContainers
  ViewsKept
PROPERTIES
  ImplementsLists
  DropsKeepLayout
CHECK_DEADLOCK FALSE
