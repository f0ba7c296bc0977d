\* Four messages, one of which the table refuses, and a call that fails or a crash.
CONSTANTS
  Msg = {m1, m2, m3, m4}
  Poison = {m4}
  BatchSize = 2
  QueueCap = 1
  MaxRetries = 2
  MaxFaults = 1
SPECIFICATION FairSpec
CHECK_DEADLOCK FALSE
INVARIANTS IInv FeedFaithful CopiesBounded
PROPERTIES ImplementsLog CallsReturn MessagesSettle StopEnds
