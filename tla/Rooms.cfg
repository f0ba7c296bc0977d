\* A room that is removed and created again under two clients who type.
CONSTANTS
  RoomID = {id1}
  Room = {o1, o2}
  Client = {c1, c2}
  Talker = {c1, c2}
  None = None
  BroadcastCap = 1
  RegisterCap = 1
  UnregisterRoomCap = 1
  SendCap = 1
  MaxEvents = 1
  MayStop = FALSE
SPECIFICATION Spec
SYMMETRY Symmetric
INVARIANTS IInv FanoutSafe
PROPERTY LeaversAreHeard
CHECK_DEADLOCK FALSE
