SPECIFICATION Spec
CONSTANTS
  ann = ann
  bob = bob
  u1 = u1
  u2 = u2
  u3 = u3
  r1 = r1
  r2 = r2
  d1 = d1
  d2 = d2
  Users = {u1, u2, u3}
  Names = {ann, bob}
  NameOf <- MCNameOf
  Keys = {k1}
  Conns = {c1}
  Data = {d1, d2}
  Malformed = Malformed
  Requests = {r1, r2}
  None = None
SYMMETRY Alike
INVARIANTS
  TypeOK
  AnswersHold
PROPERTY
  ImplementsRegistry
