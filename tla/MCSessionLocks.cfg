SPECIFICATION FairSpec
CONSTANTS
  None = None
  Tasks = {t1, t2, t3}
  Sessions = {s1, s2}
INVARIANTS
  TypeOK
  OneOnChannel
  ReattachFindsSession
PROPERTY
  EveryoneServed
