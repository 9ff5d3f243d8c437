SPECIFICATION Spec
CONSTANTS
  s1 = s1
  s2 = s2
  Streams <- MCStreams
  Script <- LongScript
  Leaving <- LeavingOne
  MaxOutput = 2
  Broadcast = 1
  Places = 1
  Window = 1
  Closer = Closer
  None = None
INVARIANT
  SentIsDelivered
CHECK_DEADLOCK FALSE
