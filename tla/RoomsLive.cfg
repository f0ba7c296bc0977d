\* Fair goroutines, a broadcast channel of one, and a Stop at any moment.
CONSTANTS
  RoomID = {id1}
  Room = {o1}
  Client = {c1}
  Talker = {c1}
  None = None
  BroadcastCap = 1
  RegisterCap = 1
  UnregisterRoomCap = 1
  SendCap = 1
  MaxEvents = 1
  MayStop = TRUE
SPECIFICATION FairSpec
INVARIANT IInv
PROPERTIES FoundEmptyIsRemoved LoopReturns LeaverIsDropped PumpsEndTogether
CHECK_DEADLOCK FALSE
