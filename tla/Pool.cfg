\* The requests of two users and the writer share two connections.
CONSTANTS
  Conn = {c1, c2}
  User = {u1, u2}
  None = None
  BatchSize = 2
SPECIFICATION FairSpec
CHECK_DEADLOCK FALSE
INVARIANTS IInv RoomsHaveAdmins
PROPERTIES AcquireEnds CloseEnds
