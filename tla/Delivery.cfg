\* Two clients of a room, one of whom types, the two *Room objects it may get, and
\* channels one deep.
CONSTANTS
  Client = {c1, c2}
  Typist = {c2}
  Room = {a}
  Object = {o1, o2}
  None = None
  BroadcastCap = 1
  SendCap = 1
  MaxEvents = 2
  MaxLost = 1
SPECIFICATION FairSpec
CHECK_DEADLOCK FALSE
INVARIANTS IInv NothingVanishes
PROPERTIES ImplementsTimeline Told
