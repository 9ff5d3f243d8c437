SPECIFICATION Spec
CONSTANTS
  Ids = {a, b}
  Versions = {v, w}
  Parts = 2
  Haste = {}
  MaxUnderWay = 2
  MaxOperations = 4
  MaxFaults = 2
  None = None
SYMMETRY Symmetry
INVARIANTS TypeOK ConnectionsKept
CHECK_DEADLOCK FALSE
