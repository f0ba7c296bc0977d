------------------------------- MODULE Rooms -------------------------------
(***************************************************************************)
(* The in-memory chat rooms: Manager and Room (internal/rooms/manager.go), *)
(* the pumps of a websocket Client (internal/rooms/client.go) and the      *)
(* handler that opens a connection (internal/api/websocket.go).            *)
(*                                                                         *)
(* Every goroutine is a process with a program counter.  A step runs from  *)
(* one point where the goroutine can block, or where another goroutine can *)
(* see the difference, to the next one.  roomsMu is never held across such *)
(* a point, so its critical sections are single steps; room.mu is held     *)
(* across blocking sends and is a variable.  Event payloads are left out:  *)
(* a channel of events is the number of events buffered in it.             *)
(***************************************************************************)
EXTENDS Naturals, Sequences

CONSTANTS
  RoomID,            \* room uuids
  Room,              \* *Room objects; each is allocated at most once
  Client,            \* *Client objects, one per websocket connection
  Talker,            \* the clients whose peer sends typing and relayed events
  None,              \* nil, "no such entry", "nobody"
  BroadcastCap,      \* cap(room.broadcast), 256 in the code
  RegisterCap,       \* cap(room.register) = cap(room.unregister), 16 in the code
  UnregisterRoomCap, \* cap(m.unregisterRoom), 100 in the code
  SendCap,           \* cap(client.send), 256 in the code
  MaxEvents,         \* bound: events that peers and other nodes inject
  MayStop            \* whether main asks the manager to stop

ASSUME RoomsAssumption ==
  /\ None \notin RoomID \cup Room \cup Client \cup {"warm", "cold"}
  /\ Room \cap Client = {}
  /\ Talker \subseteq Client
  /\ {BroadcastCap, RegisterCap, UnregisterRoomCap, SendCap} \subseteq Nat \ {0}
  /\ MaxEvents \in Nat
  /\ MayStop \in BOOLEAN

VARIABLES
  \* Manager
  rooms,          \* m.rooms: room id -> *Room or None
  lastActivity,   \* m.lastActivity: room id -> None, "warm" or "cold" (over 10 minutes old)
  unregisterRoom, \* m.unregisterRoom, a channel of room ids
  sleepers,       \* per room id, the goroutines in "sleep one minute, then unregister"
  closing,        \* the room removeRoom has unmapped and not closed yet
  running,        \* which of the manager's goroutines are alive: "start", "evict"
  pubsubCancel,   \* whose context m.pubsubCancel cancels: NewManager's "unused" one, "start" or "pubsub"
  stop,           \* "no", then whose context main's Stop has cancelled
  stopped,        \* history: the rooms that main's Stop found mapped and closed
  \* Room
  home,           \* room.ID, None before the object is allocated
  clients,        \* room.clients
  register,       \* room.register, a channel of clients
  unregister,     \* room.unregister, a channel of clients
  broadcast,      \* events buffered in room.broadcast
  closed,         \* room.broadcast is closed
  mu,             \* who holds room.mu: None, the room itself (its loop), or a client
  loop,           \* where the goroutine of handleRoom is
  arg,            \* the client that goroutine took from register or unregister
  dest,           \* the room that goroutine is about to send an event to
  \* Client
  handler,        \* where WebSocketHandler and Client.Start are
  room,           \* client.room
  conn,           \* the connection: "none", "open" or "closed"
  send,           \* events buffered in client.send
  sendClosed,     \* client.send is closed
  reader,         \* where readPump is
  writer,         \* where writePump is
  \* the rest of the process
  sync,           \* the room SyncEngine's loop is about to send an event to
  events,         \* events injected so far
  panic           \* "none", or the operation that panicked and killed the process

mapVars   == <<rooms, lastActivity>>
stopVars  == <<stop, stopped>>
startVars == <<unregisterRoom, sleepers, closing, running, pubsubCancel, stopVars>>
queueVars == <<register, unregister>>
eventVars == <<broadcast, closed>>
loopVars  == <<clients, loop, arg, dest>>
pumpVars  == <<handler, room, conn, send, sendClosed, reader, writer>>
restVars  == <<sync, events>>
vars      == <<mapVars, startVars, queueVars, eventVars, home, mu, loopVars, pumpVars, restVars, panic>>

TypeOK ==
  /\ rooms \in [RoomID -> Room \cup {None}]
  /\ lastActivity \in [RoomID -> {None, "warm", "cold"}]
  /\ unregisterRoom \in Seq(RoomID)
  /\ sleepers \in [RoomID -> Nat]
  /\ closing \in Room \cup {None}
  /\ running \in SUBSET {"start", "evict"}
  /\ pubsubCancel \in {"unused", "start", "pubsub"}
  /\ stop \in {"no", "unused", "start", "pubsub"}
  /\ stopped \in SUBSET Room
  /\ home \in [Room -> RoomID \cup {None}]
  /\ clients \in [Room -> SUBSET Client]
  /\ register \in [Room -> Seq(Client)]
  /\ unregister \in [Room -> Seq(Client)]
  /\ broadcast \in [Room -> 0..BroadcastCap]
  /\ closed \in [Room -> BOOLEAN]
  /\ mu \in [Room -> Room \cup Client \cup {None}]
  /\ loop \in [Room -> {"off", "select", "add", "join", "drop", "lookup", "leave", "check", "fan", "sweep"}]
  /\ arg \in [Room -> Client \cup {None}]
  /\ dest \in [Room -> Room \cup {None}]
  /\ handler \in [Client -> {"idle", "start", "register", "parked"}]
  /\ room \in [Client -> Room \cup {None}]
  /\ conn \in [Client -> {"none", "open", "closed"}]
  /\ send \in [Client -> 0..SendCap]
  /\ sendClosed \in [Client -> BOOLEAN]
  /\ reader \in [Client -> {"off", "read", "relay", "lock", "type", "leave", "done"}]
  /\ writer \in [Client -> {"off", "run", "done"}]
  /\ sync \in Room \cup {None}
  /\ events \in 0..MaxEvents
  /\ panic \in {"none", "send", "close", "fanout"}

(* NewManager has returned.  main launches Manager.Start in a goroutine of its own, *)
(* which connections and a Stop may overtake.                                       *)
Init ==
  /\ rooms = [id \in RoomID |-> None]
  /\ lastActivity = [id \in RoomID |-> None]
  /\ unregisterRoom = <<>>
  /\ sleepers = [id \in RoomID |-> 0]
  /\ closing = None
  /\ running = {}
  /\ pubsubCancel = "unused"
  /\ stop = "no"
  /\ stopped = {}
  /\ home = [o \in Room |-> None]
  /\ clients = [o \in Room |-> {}]
  /\ register = [o \in Room |-> <<>>]
  /\ unregister = [o \in Room |-> <<>>]
  /\ broadcast = [o \in Room |-> 0]
  /\ closed = [o \in Room |-> FALSE]
  /\ mu = [o \in Room |-> None]
  /\ loop = [o \in Room |-> "off"]
  /\ arg = [o \in Room |-> None]
  /\ dest = [o \in Room |-> None]
  /\ handler = [c \in Client |-> "idle"]
  /\ room = [c \in Client |-> None]
  /\ conn = [c \in Client |-> "none"]
  /\ send = [c \in Client |-> 0]
  /\ sendClosed = [c \in Client |-> FALSE]
  /\ reader = [c \in Client |-> "off"]
  /\ writer = [c \in Client |-> "off"]
  /\ sync = None
  /\ events = 0
  /\ panic = "none"

-----------------------------------------------------------------------------
HasSpace(o) == broadcast[o] < BroadcastCap

(* room.broadcast <- event: blocks while the channel is full, panics once it is closed. *)
Broadcast(o) ==
  /\ UNCHANGED closed
  /\ \/ closed[o] /\ panic' = "send" /\ UNCHANGED broadcast
     \/ /\ ~closed[o] /\ HasSpace(o)
        /\ broadcast' = [broadcast EXCEPT ![o] = @ + 1]
        /\ UNCHANGED panic

Goto(o, pc) == loop' = [loop EXCEPT ![o] = pc]
Lock(o, who) == mu[o] = None /\ mu' = [mu EXCEPT ![o] = who]

StaysLocked(o) == UNCHANGED mu                                            \* mutant
Unlock(o) == mu' = [mu EXCEPT ![o] = None]

StaysOpen(c) == UNCHANGED conn                                            \* mutant
CloseConn(c) == conn' = [conn EXCEPT ![c] = "closed"]

StaysUntracked(id) == UNCHANGED lastActivity                              \* mutant
Warm(id) == lastActivity' = [lastActivity EXCEPT ![id] = "warm"]

StaysMapped(id) == UNCHANGED rooms                                        \* mutant
Unmap(id) == rooms' = [rooms EXCEPT ![id] = None]

StaysSeated(o) == UNCHANGED clients                                       \* mutant
Unseat(o) == clients' = [clients EXCEPT ![o] = @ \ {arg[o]}]

-----------------------------------------------------------------------------
(* A connection: WebSocketHandler, GetOrCreateRoom and Client.Start. *)

(* The handler has upgraded the connection and gets the room, creating it if need be. *)
GetOrCreateRoom(c, id) ==
  /\ handler[c] = "idle"
  /\ handler' = [handler EXCEPT ![c] = "start"]
  /\ conn' = [conn EXCEPT ![c] = "open"]
  /\ Warm(id)
  /\ \/ /\ rooms[id] # None
        /\ room' = [room EXCEPT ![c] = rooms[id]]
        /\ UNCHANGED <<rooms, home, loop>>
     \/ /\ rooms[id] = None
        /\ \E o \in Room :
             /\ home[o] = None
             /\ home' = [home EXCEPT ![o] = id]
             /\ rooms' = [rooms EXCEPT ![id] = o]
             /\ room' = [room EXCEPT ![c] = o]
             /\ Goto(o, "select")
  /\ UNCHANGED <<startVars, queueVars, eventVars, mu, clients, arg, dest,
                 send, sendClosed, reader, writer, restVars, panic>>

(* Presence is set and published, which takes a while; then both pumps start. *)
StartPumps(c) ==
  /\ handler[c] = "start"
  /\ handler' = [handler EXCEPT ![c] = "register"]
  /\ reader' = [reader EXCEPT ![c] = "read"]
  /\ writer' = [writer EXCEPT ![c] = "run"]
  /\ UNCHANGED <<mapVars, startVars, queueVars, eventVars, home, mu, loopVars,
                 room, conn, send, sendClosed, restVars, panic>>

(* c.room.register <- c, after which the handler waits forever. *)
Register(c) ==
  /\ handler[c] = "register" /\ Len(register[room[c]]) < RegisterCap
  /\ handler' = [handler EXCEPT ![c] = "parked"]
  /\ register' = [register EXCEPT ![room[c]] = Append(@, c)]
  /\ UNCHANGED <<mapVars, startVars, unregister, eventVars, home, mu, loopVars,
                 room, conn, send, sendClosed, reader, writer, restVars, panic>>

-----------------------------------------------------------------------------
(* readPump *)
ReaderGoto(c, pc) == reader' = [reader EXCEPT ![c] = pc]

(* The peer sends an event to relay, or a typing event. *)
ReadEvent(c) ==
  /\ c \in Talker /\ reader[c] = "read" /\ conn[c] = "open" /\ events < MaxEvents
  /\ events' = events + 1
  /\ \E pc \in {"relay", "lock"} : ReaderGoto(c, pc)
  /\ UNCHANGED <<mapVars, startVars, queueVars, eventVars, home, mu, loopVars,
                 handler, room, conn, send, sendClosed, writer, sync, panic>>

(* The peer closes, falls silent for pongWait, or the connection was closed here. *)
ReadFail(c) ==
  /\ reader[c] = "read" /\ ReaderGoto(c, "leave")
  /\ UNCHANGED <<mapVars, startVars, queueVars, eventVars, home, mu, loopVars,
                 handler, room, conn, send, sendClosed, writer, restVars, panic>>

(* c.room.broadcast <- msg, without the lock *)
Relay(c) ==
  /\ reader[c] = "relay" /\ Broadcast(room[c]) /\ ReaderGoto(c, "read")
  /\ UNCHANGED <<mapVars, startVars, queueVars, home, mu, loopVars,
                 handler, room, conn, send, sendClosed, writer, restVars>>

(* HandleTypingEvent takes room.mu and holds it until its event is in the channel. *)
LockForTyping(c) ==
  /\ reader[c] = "lock" /\ Lock(room[c], c) /\ ReaderGoto(c, "type")
  /\ UNCHANGED <<mapVars, startVars, queueVars, eventVars, home, loopVars,
                 handler, room, conn, send, sendClosed, writer, restVars, panic>>

HandleTypingEvent(c) ==
  /\ reader[c] = "type" /\ Broadcast(room[c]) /\ Unlock(room[c]) /\ ReaderGoto(c, "read")
  /\ UNCHANGED <<mapVars, startVars, queueVars, home, loopVars,
                 handler, room, conn, send, sendClosed, writer, restVars>>

(* The deferred c.room.unregister <- c and c.conn.Close(). *)
Leave(c) ==
  /\ reader[c] = "leave" /\ Len(unregister[room[c]]) < RegisterCap
  /\ unregister' = [unregister EXCEPT ![room[c]] = Append(@, c)]
  /\ CloseConn(c)
  /\ ReaderGoto(c, "done")
  /\ UNCHANGED <<mapVars, startVars, register, eventVars, home, mu, loopVars,
                 handler, room, send, sendClosed, writer, restVars, panic>>

(* writePump *)
Write(c) ==
  /\ writer[c] = "run" /\ send[c] > 0 /\ conn[c] = "open"
  /\ send' = [send EXCEPT ![c] = @ - 1]
  /\ UNCHANGED <<mapVars, startVars, queueVars, eventVars, home, mu, loopVars,
                 handler, room, conn, sendClosed, reader, writer, restVars, panic>>

(* The room closed the channel, or a write or a ping failed. *)
WriterExit(c) ==
  /\ writer[c] = "run"
  /\ writer' = [writer EXCEPT ![c] = "done"]
  /\ CloseConn(c)
  /\ UNCHANGED <<mapVars, startVars, queueVars, eventVars, home, mu, loopVars,
                 handler, room, send, sendClosed, reader, restVars, panic>>

-----------------------------------------------------------------------------
(* handleRoom, the goroutine of room o.  From "select" it takes any case that is ready. *)

TakeRegister(o) ==
  /\ loop[o] = "select" /\ register[o] # <<>> /\ Goto(o, "add")
  /\ arg' = [arg EXCEPT ![o] = Head(register[o])]
  /\ register' = [register EXCEPT ![o] = Tail(@)]
  /\ UNCHANGED <<mapVars, startVars, unregister, eventVars, home, mu, clients, dest,
                 pumpVars, restVars, panic>>

(* Adds the client under room.mu, warms the room and looks up whom to tell of the join: *)
(* the room now mapped to the id, which may be another one, or none.                    *)
AddClient(o) ==
  /\ loop[o] = "add" /\ mu[o] = None
  /\ clients' = [clients EXCEPT ![o] = @ \cup {arg[o]}]
  /\ arg' = [arg EXCEPT ![o] = None]
  /\ Warm(home[o])
  /\ dest' = [dest EXCEPT ![o] = rooms[home[o]]]
  /\ Goto(o, IF rooms[home[o]] = None THEN "select" ELSE "join")
  /\ UNCHANGED <<rooms, startVars, queueVars, eventVars, home, mu, pumpVars, restVars, panic>>

(* BroadcastUserEvent(..., "join") *)
TellJoin(o) ==
  /\ loop[o] = "join" /\ Broadcast(dest[o])
  /\ dest' = [dest EXCEPT ![o] = None]
  /\ Goto(o, "select")
  /\ UNCHANGED <<mapVars, startVars, queueVars, home, mu, clients, arg, pumpVars, restVars>>

TakeUnregister(o) ==
  /\ loop[o] = "select" /\ unregister[o] # <<>> /\ Goto(o, "drop")
  /\ arg' = [arg EXCEPT ![o] = Head(unregister[o])]
  /\ unregister' = [unregister EXCEPT ![o] = Tail(@)]
  /\ UNCHANGED <<mapVars, startVars, register, eventVars, home, mu, clients, dest,
                 pumpVars, restVars, panic>>

(* A client that is in the room leaves it and has its channel closed; room.mu stays held. *)
DropClient(o) ==
  /\ loop[o] = "drop" /\ arg[o] \in clients[o]
  /\ Lock(o, o)
  /\ Unseat(o)
  /\ sendClosed' = [sendClosed EXCEPT ![arg[o]] = TRUE]
  /\ panic' = IF sendClosed[arg[o]] THEN "close" ELSE panic
  /\ Goto(o, "lookup")
  /\ UNCHANGED <<mapVars, startVars, queueVars, eventVars, home, arg, dest,
                 handler, room, conn, send, reader, writer, restVars>>

(* A client that is not in the room, or not yet, is passed over. *)
DropUnknown(o) ==
  /\ loop[o] = "drop" /\ arg[o] \notin clients[o] /\ mu[o] = None
  /\ arg' = [arg EXCEPT ![o] = None]
  /\ Goto(o, "check")
  /\ UNCHANGED <<mapVars, startVars, queueVars, eventVars, home, mu, clients, dest,
                 pumpVars, restVars, panic>>

(* BroadcastUserEvent(..., "leave"), all of it under room.mu: the lookup and the send. *)
LookupLeave(o) ==
  /\ loop[o] = "lookup"
  /\ dest' = [dest EXCEPT ![o] = rooms[home[o]]]
  /\ arg' = [arg EXCEPT ![o] = None]
  /\ IF rooms[home[o]] = None THEN Goto(o, "check") /\ Unlock(o)
                              ELSE Goto(o, "leave") /\ UNCHANGED mu
  /\ UNCHANGED <<mapVars, startVars, queueVars, eventVars, home, clients, pumpVars, restVars, panic>>

TellLeave(o) ==
  /\ loop[o] = "leave" /\ Broadcast(dest[o]) /\ Unlock(o)
  /\ dest' = [dest EXCEPT ![o] = None]
  /\ Goto(o, "check")
  /\ UNCHANGED <<mapVars, startVars, queueVars, home, clients, arg, pumpVars, restVars>>

(* An empty room gets a goroutine that will ask the manager to consider it. *)
CheckEmpty(o) ==
  /\ loop[o] = "check" /\ mu[o] = None /\ Goto(o, "select")
  /\ sleepers' = IF clients[o] = {} THEN [sleepers EXCEPT ![home[o]] = @ + 1] ELSE sleepers
  /\ UNCHANGED <<mapVars, unregisterRoom, closing, running, pubsubCancel, stopVars, queueVars,
                 eventVars, home, mu, clients, arg, dest, pumpVars, restVars, panic>>

(* A closed channel delivers nil, at once and forever, when it has been drained. *)
TakeBroadcast(o) ==
  /\ loop[o] = "select" /\ (broadcast[o] > 0 \/ closed[o]) /\ Goto(o, "fan")
  /\ broadcast' = [broadcast EXCEPT ![o] = IF @ > 0 THEN @ - 1 ELSE 0]
  /\ Warm(home[o])
  /\ UNCHANGED <<rooms, startVars, queueVars, closed, home, mu, clients, arg, dest,
                 pumpVars, restVars, panic>>

(* Fans out to every client of the room; one whose channel is full misses the event. *)
FanOut(o) ==
  /\ loop[o] = "fan" /\ mu[o] = None /\ Goto(o, "select")
  /\ IF \E c \in clients[o] : sendClosed[c]
     THEN panic' = "fanout" /\ UNCHANGED send
     ELSE /\ send' = [c \in Client |-> IF c \in clients[o] /\ send[c] < SendCap
                                      THEN send[c] + 1 ELSE send[c]]
          /\ UNCHANGED panic
  /\ UNCHANGED <<mapVars, startVars, queueVars, eventVars, home, mu, clients, arg, dest,
                 handler, room, conn, sendClosed, reader, writer, restVars>>

(* The ticker: stale typing trackers go, once room.mu is free.  With room.mu free at the *)
(* tick that changes nothing the model keeps, so only the tick that has to wait is a step. *)
Tick(o) ==
  /\ loop[o] = "select" /\ mu[o] # None /\ Goto(o, "sweep")
  /\ UNCHANGED <<mapVars, startVars, queueVars, eventVars, home, mu, clients, arg, dest,
                 pumpVars, restVars, panic>>

Sweep(o) ==
  /\ loop[o] = "sweep" /\ mu[o] = None /\ Goto(o, "select")
  /\ UNCHANGED <<mapVars, startVars, queueVars, eventVars, home, mu, clients, arg, dest,
                 pumpVars, restVars, panic>>

-----------------------------------------------------------------------------
(* The manager's goroutines. *)

(* Manager.Start gets to run: it replaces the function Stop will call and launches the *)
(* subscription and the eviction.  A Stop that came first has cancelled nothing of it. *)
Start ==
  /\ pubsubCancel = "unused" /\ pubsubCancel' = "start"
  /\ running' = {"start", "evict"}
  /\ UNCHANGED <<mapVars, unregisterRoom, sleepers, closing, stopVars, queueVars,
                 eventVars, home, mu, loopVars, pumpVars, restVars, panic>>

(* A minute after the room was found empty: m.unregisterRoom <- roomID *)
Wake(id) ==
  /\ sleepers[id] > 0 /\ Len(unregisterRoom) < UnregisterRoomCap
  /\ sleepers' = [sleepers EXCEPT ![id] = @ - 1]
  /\ unregisterRoom' = Append(unregisterRoom, id)
  /\ UNCHANGED <<mapVars, closing, running, pubsubCancel, stopVars, queueVars, eventVars, home,
                 mu, loopVars, pumpVars, restVars, panic>>

(* Manager.Start receives an id and unmaps its room, whoever is in it by now ... *)
RemoveRoom ==
  /\ "start" \in running /\ closing = None /\ unregisterRoom # <<>>
  /\ closing' = rooms[Head(unregisterRoom)]
  /\ Unmap(Head(unregisterRoom))
  /\ unregisterRoom' = Tail(unregisterRoom)
  /\ UNCHANGED <<lastActivity, sleepers, running, pubsubCancel, stopVars, queueVars, eventVars,
                 home, mu, loopVars, pumpVars, restVars, panic>>

(* ... and closes its channel. *)
CloseRoom ==
  /\ closing # None /\ closing' = None
  /\ closed' = [closed EXCEPT ![closing] = TRUE]
  /\ panic' = IF closed[closing] THEN "close" ELSE panic
  /\ UNCHANGED <<mapVars, unregisterRoom, sleepers, running, pubsubCancel, stopVars, queueVars,
                 broadcast, home, mu, loopVars, pumpVars, restVars>>

(* Ten minutes pass without activity. *)
Cool(id) ==
  /\ lastActivity[id] = "warm"
  /\ lastActivity' = [lastActivity EXCEPT ![id] = "cold"]
  /\ UNCHANGED <<rooms, startVars, queueVars, eventVars, home, mu, loopVars, pumpVars, restVars, panic>>

(* The rooms evictColdRooms forgets in one pass.  Their channels stay open. *)
Cold == {id \in RoomID : lastActivity[id] = "cold" /\ rooms[id] # None /\ clients[rooms[id]] = {}}

EvictColdRooms ==
  /\ "evict" \in running /\ Cold # {}
  /\ rooms' = [id \in RoomID |-> IF id \in Cold THEN None ELSE rooms[id]]
  /\ lastActivity' = [id \in RoomID |-> IF id \in Cold THEN None ELSE lastActivity[id]]
  /\ UNCHANGED <<startVars, queueVars, eventVars, home, mu, loopVars, pumpVars, restVars, panic>>

(* subscribeToPubSub, launched by Start, overwrites the function Stop will call. *)
SubscribeToPubSub ==
  /\ pubsubCancel = "start" /\ pubsubCancel' = "pubsub"
  /\ UNCHANGED <<mapVars, unregisterRoom, sleepers, closing, running, stopVars, queueVars,
                 eventVars, home, mu, loopVars, pumpVars, restVars, panic>>

Mapped == {rooms[id] : id \in RoomID} \ {None}

(* Stop closes the channel of every mapped room, which stays mapped. *)
CloseMapped ==
  /\ closed' = [o \in Room |-> closed[o] \/ o \in Mapped]
  /\ panic' = IF \E o \in Mapped : closed[o] THEN "close" ELSE panic

(* gracefulShutdown calls Stop, which also cancels one context, whosever it is by now. *)
Stop ==
  /\ MayStop /\ stop = "no" /\ CloseMapped
  /\ stop' = pubsubCancel
  /\ stopped' = Mapped
  /\ UNCHANGED <<mapVars, unregisterRoom, sleepers, closing, running, pubsubCancel, queueVars,
                 broadcast, home, mu, loopVars, pumpVars, restVars>>

(* Start sees its context cancelled and calls Stop once more. *)
StartReturns ==
  /\ "start" \in running /\ stop = "start" /\ closing = None
  /\ CloseMapped
  /\ running' = running \ {"start"}
  /\ UNCHANGED <<mapVars, unregisterRoom, sleepers, closing, pubsubCancel, stopVars, queueVars,
                 broadcast, home, mu, loopVars, pumpVars, restVars>>

EvictReturns ==
  /\ "evict" \in running /\ stop = "start"
  /\ running' = running \ {"evict"}
  /\ UNCHANGED <<mapVars, unregisterRoom, sleepers, closing, pubsubCancel, stopVars, queueVars,
                 eventVars, home, mu, loopVars, pumpVars, restVars, panic>>

-----------------------------------------------------------------------------
(* SyncEngine's loop hands an event from Redis to BroadcastMessage: lookup, then send. *)
BroadcastMessage(id) ==
  /\ sync = None /\ events < MaxEvents
  /\ events' = events + 1
  /\ sync' = rooms[id]
  /\ UNCHANGED <<mapVars, startVars, queueVars, eventVars, home, mu, loopVars, pumpVars, panic>>

SyncSend ==
  /\ sync # None /\ Broadcast(sync) /\ sync' = None
  /\ UNCHANGED <<mapVars, startVars, queueVars, home, mu, loopVars, pumpVars, events>>

-----------------------------------------------------------------------------
Connection(c) == (\E id \in RoomID : GetOrCreateRoom(c, id)) \/ StartPumps(c) \/ Register(c)
ReadPump(c)   == ReadEvent(c) \/ ReadFail(c) \/ Relay(c) \/ LockForTyping(c) \/ HandleTypingEvent(c) \/ Leave(c)
WritePump(c)  == Write(c) \/ WriterExit(c)
HandleRoom(o) == \/ TakeRegister(o) \/ AddClient(o) \/ TellJoin(o)
                 \/ TakeUnregister(o) \/ DropClient(o) \/ DropUnknown(o) \/ LookupLeave(o)
                 \/ TellLeave(o) \/ CheckEmpty(o)
                 \/ TakeBroadcast(o) \/ FanOut(o) \/ Tick(o) \/ Sweep(o)
ManagerStep   == \/ Start \/ RemoveRoom \/ CloseRoom \/ EvictColdRooms \/ SubscribeToPubSub
                 \/ Stop \/ StartReturns \/ EvictReturns
                 \/ \E id \in RoomID : Wake(id) \/ Cool(id)
SyncLoop      == SyncSend \/ \E id \in RoomID : BroadcastMessage(id)

(* A panic in any goroutine kills the process. *)
Next ==
  /\ panic = "none"
  /\ \/ \E c \in Client : Connection(c) \/ ReadPump(c) \/ WritePump(c)
     \/ \E o \in Room : HandleRoom(o)
     \/ ManagerStep
     \/ SyncLoop

Spec == Init /\ [][Next]_vars

-----------------------------------------------------------------------------
(* What the goroutines are assumed to do.  A goroutine that can step and stays  *)
(* able to does so (WF); a select picks among its ready cases at random, so a   *)
(* case that is ready again and again is taken (SF).  Peers, clocks of minutes, *)
(* other nodes and main owe nothing: GetOrCreateRoom, ReadEvent, ReadFail and   *)
(* WriterExit on an open connection, Cool, BroadcastMessage and Stop are never  *)
(* forced.  The eviction and the return of Start are, in the code, but nothing  *)
(* below needs that.                                                            *)
ReaderMustStep(c) ==
  \/ conn[c] = "closed" /\ ReadFail(c)
  \/ Relay(c) \/ LockForTyping(c) \/ HandleTypingEvent(c) \/ Leave(c)
WriterMustStep(c) ==
  \/ Write(c)
  \/ (conn[c] = "closed" \/ (sendClosed[c] /\ send[c] = 0)) /\ WriterExit(c)
LoopMustStep(o) ==
  \/ AddClient(o) \/ TellJoin(o) \/ DropClient(o) \/ DropUnknown(o) \/ LookupLeave(o)
  \/ TellLeave(o) \/ CheckEmpty(o) \/ FanOut(o) \/ Sweep(o)

Fairness ==
  /\ \A c \in Client :
       /\ WF_vars(panic = "none" /\ (StartPumps(c) \/ Register(c)))
       /\ WF_vars(panic = "none" /\ ReaderMustStep(c))
       /\ WF_vars(panic = "none" /\ WriterMustStep(c))
  /\ \A o \in Room :
       /\ SF_vars(panic = "none" /\ TakeRegister(o))
       /\ SF_vars(panic = "none" /\ TakeUnregister(o))
       /\ SF_vars(panic = "none" /\ TakeBroadcast(o))
       /\ WF_vars(panic = "none" /\ LoopMustStep(o))
  /\ \A id \in RoomID : WF_vars(panic = "none" /\ Wake(id))
  /\ WF_vars(panic = "none" /\ Start)
  /\ WF_vars(panic = "none" /\ (RemoveRoom \/ CloseRoom))
  /\ WF_vars(panic = "none" /\ SyncSend)

FairSpec == Spec /\ Fairness

-----------------------------------------------------------------------------
(* Safety *)

(* No event is ever sent to a closed client.send, and none reaches a client of  *)
(* another room: whoever is among a room's clients joined that room, and its    *)
(* channel is open.  Rests on a client registering once, on handleRoom taking   *)
(* it out before it closes the channel, and on an unregister that overtook the  *)
(* register being passed over (manager.go:207-225, 249-257, client.go:187).     *)
FanoutSafe == \A o \in Room : \A c \in clients[o] : room[c] = o /\ ~sendClosed[c]

(* A room that can be found has an open channel, unless Stop found it mapped    *)
(* too, or Start's own second Stop came by: else only who looked it up before   *)
(* it was removed can hit the closed one (manager.go:102-104, 118-120, 187-198).*)
StartIsOver == stop = "start" /\ "start" \notin running

MappedRoomOpen == \A id \in RoomID : rooms[id] # None =>
  /\ home[rooms[id]] = id
  /\ closed[rooms[id]] => rooms[id] \in stopped \/ StartIsOver

(* Every mapped room is known to the eviction pass, which walks lastActivity    *)
(* (manager.go:175-176, 319-326).                                               *)
MappedRoomTracked == \A id \in RoomID : rooms[id] # None => lastActivity[id] # None

(* What can panic is a send to the channel of a room that was removed or        *)
(* stopped and, only if main's Stop found a room mapped, a second close of its  *)
(* channel, by Start's own Stop or by a removal that is still served.  However  *)
(* many goroutines ask for the same room to go, without a Stop no channel is    *)
(* closed twice, and no fan-out hits a closed one (manager.go:102-103, 119,     *)
(* 196, 222, 240, 250-257).                                                     *)
OnlySendsPanic ==
  /\ panic = "send" => \E o \in Room : closed[o]
  /\ panic = "close" => stopped # {}
  /\ panic # "fanout"

(* room.mu outlives a step only in the room's goroutine while it tells of a     *)
(* leave and in a reader inside HandleTypingEvent, one of them at a time        *)
(* (manager.go:27-44, 219-225).                                                 *)
LockHeld == \A o \in Room :
  /\ mu[o] = o <=> loop[o] \in {"lookup", "leave"}
  /\ \A c \in Client : mu[o] = c <=> (reader[c] = "type" /\ room[c] = o)

(* Why the invariants above hold, step by step.                                 *)

(* Who is in which state has what it needs: an object that was allocated has a  *)
(* goroutine, a goroutine that took a client or looked up a room still has it,  *)
(* a client whose handler has begun has a room, and pumps only after that.      *)
Wired ==
  /\ \A o \in Room :
       /\ loop[o] = "off" <=> home[o] = None
       /\ loop[o] \in {"add", "drop", "lookup"} => arg[o] # None
       /\ loop[o] \in {"join", "leave"} => dest[o] # None
  /\ \A c \in Client :
       /\ handler[c] # "idle" => room[c] # None
       /\ handler[c] \in {"idle", "start"} => reader[c] = "off"

(* A client is at one place on its way into its room: the register queue, the   *)
(* hands of the room's goroutine, or the set of clients, with its channel open. *)
Waiting(c, o) ==
  room[c] = o /\ handler[c] = "parked" /\ ~sendClosed[c] /\ c \notin clients[o]

SeatedIn(o) ==
  /\ \A c \in clients[o] : room[c] = o /\ handler[c] = "parked" /\ ~sendClosed[c]
  /\ loop[o] = "add" => Waiting(arg[o], o)
  /\ \A i \in 1..Len(register[o]) :
       /\ Waiting(register[o][i], o)
       /\ loop[o] = "add" => register[o][i] # arg[o]
       /\ \A j \in 1..Len(register[o]) : register[o][i] = register[o][j] => i = j

Seated ==
  /\ \A c \in Client : sendClosed[c] => handler[c] = "parked"
  /\ \A o \in Room : SeatedIn(o)

(* And at most once on its way out: in the unregister queue or in the hands of  *)
(* the room's goroutine, its reader over and its channel not closed yet.  That  *)
(* the channel is closed once rests on it (client.go:52-55, manager.go:218-223).*)
Left(c, o) == room[c] = o /\ reader[c] = "done" /\ ~sendClosed[c]

OnTheWayOut(o) ==
  /\ loop[o] = "drop" => Left(arg[o], o)
  /\ \A i \in 1..Len(unregister[o]) :
       /\ Left(unregister[o][i], o)
       /\ loop[o] = "drop" => unregister[o][i] # arg[o]
       /\ \A j \in 1..Len(unregister[o]) : unregister[o][i] = unregister[o][j] => i = j

LeavesOnce ==
  /\ \A c \in Client : sendClosed[c] => reader[c] = "done"
  /\ \A o \in Room : OnTheWayOut(o)

(* A room's goroutine takes no lock but its own room's, and the room it is      *)
(* about to tell of a join or a leave has the same id, if it is another at all. *)
OwnRoom == \A o \in Room :
  /\ mu[o] \in Client \cup {o, None}
  /\ dest[o] # None => home[o] # None /\ home[dest[o]] = home[o]

(* A room's goroutine waits for a reader that can go on, or for space in the    *)
(* channel of a room of its own id: no two goroutines wait for each other's     *)
(* lock, and a hang does not spread from one room id to another                 *)
(* (manager.go:27-44, 205-225, client.go:92-95).                                *)
Full(o) == broadcast[o] = BroadcastCap /\ ~closed[o]

Waits(o) ==
  \/ loop[o] \in {"add", "drop", "check", "fan", "sweep"} /\ mu[o] # None
  \/ loop[o] \in {"join", "leave"} /\ Full(dest[o])

WaitsAtHome == \A o \in Room : Waits(o) =>
  \/ \E c \in Client : mu[o] = c /\ reader[c] = "type" /\ room[c] = o /\ ~Full(o)
  \/ \E p \in Room : home[p] = home[o] /\ Full(p)

(* A pump that has ended has closed the connection, which ends the other one    *)
(* (client.go:52-55, 120-122).                                                  *)
OverIsClosed == \A c \in Client :
  /\ reader[c] = "done" \/ writer[c] = "done" => conn[c] = "closed"
  /\ handler[c] = "idle" => writer[c] = "off"

(* Stop ends the manager's goroutines only if it comes after Start and before   *)
(* subscribeToPubSub: before, it cancels the context that NewManager threw      *)
(* away, and after, the subscription's alone; in both cases they run, or will   *)
(* run, on (manager.go:71, 80, 91-98, 122-124, 279; main.go:66).                *)
StopMisses ==
  /\ pubsubCancel = "unused" => running = {} /\ stop \in {"no", "unused"}
  /\ pubsubCancel # "unused" /\ stop # "start" => running = {"start", "evict"}
  /\ stop = "pubsub" => pubsubCancel = "pubsub"
  /\ stop = "no" => stopped = {}

(* The room being removed is not mapped any more, so nobody else will close it, *)
(* and Stop alone can have closed it before.                                    *)
Closable ==
  /\ \A o \in Room : closed[o] => home[o] # None
  /\ closing # None =>
       /\ home[closing] # None
       /\ \A id \in RoomID : rooms[id] # closing
       /\ closed[closing] => closing \in stopped
       /\ "start" \in running

IInv ==
  /\ TypeOK /\ Wired /\ Seated /\ LeavesOnce /\ Closable /\ OwnRoom /\ WaitsAtHome
  /\ OverIsClosed /\ StopMisses
  /\ MappedRoomOpen /\ MappedRoomTracked /\ OnlySendsPanic /\ LockHeld

(* The goroutine of a room acts on rooms of its own id and on their clients:    *)
(* no other room's channels, lock, clients or goroutine change by its step      *)
(* (manager.go:201-271).                                                        *)
Untouched(p) ==
  /\ UNCHANGED <<clients[p], register[p], unregister[p], broadcast[p], closed[p]>>
  /\ UNCHANGED <<mu[p], loop[p], arg[p], dest[p]>>
  /\ \A c \in Client : room[c] = p => UNCHANGED <<send[c], sendClosed[c]>>

RoomsApart == [][\A o, p \in Room :
  (HandleRoom(o) /\ home[p] # home[o]) => Untouched(p)]_vars

(* A room's goroutine that tells its own full channel of a join or a leave, or  *)
(* that waits for the lock of a reader who holds it while sending a typing      *)
(* event to the full channel, never comes back to empty it: it hangs until the  *)
(* channel is closed, and then the send panics (manager.go:27-44, 208, 216,     *)
(* 219-225, 233, 249, 261).                                                     *)
SelfHung(o) == Full(o) /\ loop[o] \in {"join", "leave"} /\ dest[o] = o
LockHung(o) == Full(o) /\ loop[o] \in {"add", "drop", "check", "fan", "sweep"} /\ mu[o] # None
Hung(o)     == SelfHung(o) \/ LockHung(o)

HangsForGood == [][\A o \in Room : Hung(o) => Hung(o)' \/ closed'[o]]_vars

(* A reader that is leaving is in the deferred call, its client in the          *)
(* unregister queue, or in the hands of the room's goroutine, until the client  *)
(* is out of the room with its channel closed.  The exception is the client     *)
(* that is not in the room yet, as its reader starts before the handler         *)
(* registers it: it is passed over, and from then on nothing takes it out of    *)
(* the room it is put in later (client.go:52-55, 184-187, manager.go:207-225).  *)
Leaving(c, o) ==
  \/ reader[c] = "leave"
  \/ \E i \in 1..Len(unregister[o]) : unregister[o][i] = c
  \/ loop[o] = "drop" /\ arg[o] = c

PassedOver(c, o) == Left(c, o) /\ ~Leaving(c, o)

LeaversAreHeard == [][\A o \in Room, c \in Client :
  /\ (room[c] = o /\ Leaving(c, o)) =>
       \/ Leaving(c, o)'
       \/ c \in clients[o] /\ c \notin clients'[o] /\ sendClosed'[c]
       \/ c \notin clients[o] /\ PassedOver(c, o)'
  /\ PassedOver(c, o) => PassedOver(c, o)' /\ (c \in clients[o] => c \in clients'[o])]_vars

(* A Stop that missed the manager is never made good: it is called once, and    *)
(* from then on no step ends a goroutine of the manager, those that Start has   *)
(* yet to launch included (main.go:66, 152; manager.go:71, 91-98, 122, 279).    *)
MissedForGood == [][(stop \in {"unused", "pubsub"}) =>
  stop' = stop /\ running \subseteq running']_vars

(* A request to remove a room is kept, asleep or in the manager's channel,      *)
(* until the id is free: none is dropped when the channel is full, and none is  *)
(* used up by the removal of another room (manager.go:103-108, 238-241).        *)
Asked(id) == sleepers[id] > 0 \/ \E i \in 1..Len(unregisterRoom) : unregisterRoom[i] = id

RemovalStaysAsked == [][\A id \in RoomID : Asked(id) => Asked(id)' \/ rooms'[id] = None]_vars

-----------------------------------------------------------------------------
(* Liveness.  All of it is about a process that has not panicked. *)
Crashed == panic # "none"

(* Until Stop the manager, once started, drains its requests: a room found      *)
(* empty is unmapped a minute or more later, even when its own goroutine hangs  *)
(* (manager.go:103-108, 238-241).                                               *)
FoundEmptyIsRemoved == \A id \in RoomID :
  sleepers[id] > 0 ~> (rooms[id] = None \/ stop # "no" \/ Crashed)

(* The goroutine of a room comes back to its select from every case, unless it  *)
(* or that of another room of the same id hangs in one of the two ways of Hung, *)
(* and there are no others (manager.go:27-44, 201-271).                         *)
HungAt(id) == \E o \in Room : home[o] = id /\ Hung(o)

LoopReturns == \A o \in Room :
  loop[o] # "off" ~> (loop[o] = "select" \/ HungAt(home[o]) \/ Crashed)

(* A client whose reader has ended is taken out of its room, a removed room     *)
(* included, unless its unregister overtook its register and was passed over,   *)
(* or the room hangs (client.go:52-55, 184-187, manager.go:207-225).            *)
LeaverIsDropped == \A c \in Client, o \in Room :
  (reader[c] = "leave" /\ room[c] = o) ~>
    (sendClosed[c] \/ PassedOver(c, o) \/ HungAt(home[o]) \/ Crashed)

(* Neither pump outlives the other: the one that ends closes the connection,    *)
(* and then the other ends too, unless the room hangs, in which case a reader   *)
(* may be stuck in a send to it (client.go:52-55, 92-95, 120-122).              *)
PumpsEndTogether == \A c \in Client, o \in Room :
  (room[c] = o /\ (reader[c] = "done" \/ writer[c] = "done")) ~>
    ((reader[c] = "done" /\ writer[c] = "done") \/ HungAt(home[o]) \/ Crashed)

-----------------------------------------------------------------------------
(* What comments in the code say and the code does not do. *)

(* manager.go:237, 240: the manager checks the room a minute after it was empty *)
(* and considers it for eviction.  RemoveRoom takes a room somebody rejoined.   *)
RemovedOnlyIfEmpty == [][\A id \in RoomID :
  (rooms[id] # None /\ rooms'[id] = None) => clients[rooms[id]] = {}]_vars

=============================================================================
