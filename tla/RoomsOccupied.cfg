\* A room that was joined again within the minute.
CONSTANTS
  RoomID = {id1}
  Room = {o1}
  Client = {c1, c2}
  Talker = {}
  None = None
  BroadcastCap = 4
  RegisterCap = 1
  UnregisterRoomCap = 1
  SendCap = 1
  MaxEvents = 0
  MayStop = FALSE
SPECIFICATION Spec
PROPERTY RemovedOnlyIfEmpty
CHECK_DEADLOCK FALSE
