SPECIFICATION FairSpec
CONSTANTS
  ChunkSize = 2
  Capacity = 2
  MaxPacket = 3
  MaxBytes = 5
INVARIANTS
  TypeOK
  PersistedInOrder
  ChunksPacked
  Conserved
  RecoveryReads
PROPERTIES
  AppendOnly
  ResumedInOrder
  SaverCatchesUp
CHECK_DEADLOCK FALSE
