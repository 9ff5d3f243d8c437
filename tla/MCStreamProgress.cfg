SPECIFICATION FairSpec
CONSTANTS
  s1 = s1
  s2 = s2
  Streams <- MCStreams
  Script <- ShortScript
  Leaving <- MCStreams
  MaxOutput = 1
  Broadcast = 1
  Places = 1
  Window = 1
  Closer = Closer
  None = None
PROPERTY
  StreamsGetOn
CHECK_DEADLOCK FALSE
