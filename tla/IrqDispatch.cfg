SPECIFICATION Spec
CONSTANTS
  Channels <- MCChannels
  RingChannel = 3
  GpuChannel = 2
  OtcChannel = 6
  Submissions = 1
  QueueSize = 1
  MaxBlanks = 2
INVARIANTS
  TypeOK
  NothingStranded
PROPERTIES
  CompletionServed
  EveryEdgeCounted
