SPECIFICATION Spec
CONSTANTS
  ChunkSize = 2
  Capacity = 4
  MaxPacket = 2
  MaxBytes = 4
INVARIANT
  RecoveryComplete
CHECK_DEADLOCK FALSE
