\* Two requests that may become websockets, two chat messages, one event from Redis.
CONSTANTS
  Conn = {c1, c2}
  QueueCap = 1
  MaxSends = 2
  MaxEvents = 1
SPECIFICATION FairSpec
CHECK_DEADLOCK FALSE
INVARIANTS IInv ClosedDbIsQuiet NilManagerOnlyAtBoot
PROPERTIES ShutdownEnds QueueingEnds
