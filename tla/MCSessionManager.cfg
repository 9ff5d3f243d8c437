SPECIFICATION Spec
CONSTANTS
  u1 = u1
  u2 = u2
  c1 = c1
  c2 = c2
  None = None
  Users = {u1, u2}
  Connections = {c1, c2}
  Owner <- MCOwner
  Sessions = {s1, s2}
  Requests = {r1, r2, r3}
SYMMETRY Symmetry
INVARIANTS
  TypeOK
  Ownership
  LiveSessionHasRow
  CloseEffective
PROPERTY
  ImplementsLifecycle
