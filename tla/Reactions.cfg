\* A user who waits for each answer beside one whose requests race; two events in a
\* queue.  Nodes have nothing to do with each other, so that one will do.
CONSTANTS
  Node = {n1}
  User = {u1, u2}
  Hasty = {u2}
  MaxRacing = 2
  MaxFeed = 2
SPECIFICATION FairSpec
CHECK_DEADLOCK FALSE
INVARIANTS IInv UsersFollow
PROPERTIES Converges RemovedFallsSilent
