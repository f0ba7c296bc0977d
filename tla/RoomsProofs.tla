---------------------------- MODULE RoomsProofs ----------------------------
(***************************************************************************)
(* The safety of Rooms for any number of rooms, connections and goroutines *)
(* and any channel capacities: IInv is inductive and implies the           *)
(* invariants.  Each conjunct of IInv has a lemma that says what it rests  *)
(* on, with one step per action.                                           *)
(***************************************************************************)
EXTENDS Rooms, TLAPS

(* The capacities and bounds are numbers. *)
LEMMA Capacities ==
  /\ BroadcastCap \in Nat /\ SendCap \in Nat /\ MaxEvents \in Nat
  /\ None \notin Room /\ None \notin Client /\ None \notin RoomID
  /\ None # "warm" /\ None # "cold" /\ Room \cap Client = {}
BY RoomsAssumption

(* A send to room.broadcast keeps the channel within its capacity. *)
LEMMA BroadcastType ==
  ASSUME TypeOK, NEW o \in Room, Broadcast(o)
  PROVE  /\ broadcast' \in [Room -> 0..BroadcastCap]
         /\ closed' = closed
         /\ panic' \in {"none", "send", "close", "fanout"}
<1> USE Capacities DEF TypeOK, Broadcast, HasSpace
<1>1. CASE closed[o]
  BY <1>1
<1>2. CASE ~closed[o]
  <2>1. broadcast[o] + 1 \in 0..BroadcastCap
    BY <1>2
  <2>2. broadcast' = [broadcast EXCEPT ![o] = broadcast[o] + 1] /\ UNCHANGED <<closed, panic>>
    BY <1>2
  <2> QED
    BY <2>1, <2>2
<1> QED
  BY <1>1, <1>2

(* Every step keeps the types: no channel outgrows its capacity. *)
LEMMA TypeStep == TypeOK /\ Wired /\ [Next]_vars => TypeOK'
<1> SUFFICES ASSUME TypeOK, Wired, [Next]_vars PROVE TypeOK'
  OBVIOUS
<1> USE Capacities DEF TypeOK, mapVars, startVars, stopVars, queueVars, eventVars, loopVars, pumpVars, restVars
<1>1. ASSUME NEW c \in Client, NEW id \in RoomID, GetOrCreateRoom(c, id) PROVE TypeOK'
  <2>1. CASE rooms[id] # None
    <3>1. rooms[id] \in Room
      BY <2>1
    <3>2. UNCHANGED <<rooms, home, loop>> /\ room' = [room EXCEPT ![c] = rooms[id]]
      BY <1>1, <2>1 DEF GetOrCreateRoom
    <3> QED
      BY <1>1, <3>1, <3>2 DEF GetOrCreateRoom, Warm, Goto
  <2>2. CASE rooms[id] = None
    <3>1. PICK o \in Room :
            /\ home[o] = None
            /\ home' = [home EXCEPT ![o] = id]
            /\ rooms' = [rooms EXCEPT ![id] = o]
            /\ room' = [room EXCEPT ![c] = o]
            /\ Goto(o, "select")
      BY <1>1, <2>2 DEF GetOrCreateRoom
    <3> QED
      BY <1>1, <3>1 DEF GetOrCreateRoom, Warm, Goto
  <2> QED
    BY <2>1, <2>2
<1>2. ASSUME NEW c \in Client, StartPumps(c) PROVE TypeOK'
  BY <1>2 DEF StartPumps
<1>3. ASSUME NEW c \in Client, Register(c) PROVE TypeOK'
  <2>1. room[c] \in Room
    BY <1>3 DEF Register, Wired
  <2>2. register' \in [Room -> Seq(Client)]
    BY <1>3, <2>1 DEF Register
  <2> QED
    BY <1>3, <2>2 DEF Register
<1>4. ASSUME NEW c \in Client, ReadEvent(c) PROVE TypeOK'
  <2>1. events' \in 0..MaxEvents
    BY <1>4 DEF ReadEvent
  <2> QED
    BY <1>4, <2>1 DEF ReadEvent, ReaderGoto
<1>5. ASSUME NEW c \in Client, ReadFail(c) PROVE TypeOK'
  BY <1>5 DEF ReadFail, ReaderGoto
<1>6. ASSUME NEW c \in Client, Relay(c) PROVE TypeOK'
  <2>1. room[c] \in Room
    BY <1>6 DEF Relay, Wired
  <2>2. broadcast' \in [Room -> 0..BroadcastCap] /\ closed' = closed /\ panic' \in {"none", "send", "close", "fanout"}
    BY <1>6, <2>1, BroadcastType DEF Relay
  <2> QED
    BY <1>6, <2>2 DEF Relay, ReaderGoto
<1>7. ASSUME NEW c \in Client, LockForTyping(c) PROVE TypeOK'
  BY <1>7 DEF LockForTyping, ReaderGoto, Lock
<1>8. ASSUME NEW c \in Client, HandleTypingEvent(c) PROVE TypeOK'
  <2>1. room[c] \in Room
    BY <1>8 DEF HandleTypingEvent, Wired
  <2>2. broadcast' \in [Room -> 0..BroadcastCap] /\ closed' = closed /\ panic' \in {"none", "send", "close", "fanout"}
    BY <1>8, <2>1, BroadcastType DEF HandleTypingEvent
  <2> QED
    BY <1>8, <2>2 DEF HandleTypingEvent, ReaderGoto, Unlock
<1>9. ASSUME NEW c \in Client, Leave(c) PROVE TypeOK'
  <2>1. room[c] \in Room
    BY <1>9 DEF Leave, Wired
  <2>2. unregister' \in [Room -> Seq(Client)]
    BY <1>9, <2>1 DEF Leave
  <2> QED
    BY <1>9, <2>2 DEF Leave, ReaderGoto, CloseConn
<1>10. ASSUME NEW c \in Client, Write(c) PROVE TypeOK'
  <2>1. send' \in [Client -> 0..SendCap]
    BY <1>10 DEF Write
  <2> QED
    BY <1>10, <2>1 DEF Write
<1>11. ASSUME NEW c \in Client, WriterExit(c) PROVE TypeOK'
  BY <1>11 DEF WriterExit, CloseConn
<1>12. ASSUME NEW o \in Room, TakeRegister(o) PROVE TypeOK'
  <2>1. register' \in [Room -> Seq(Client)] /\ Head(register[o]) \in Client
    BY <1>12 DEF TakeRegister
  <2> QED
    BY <1>12, <2>1 DEF TakeRegister, Goto
<1>13. ASSUME NEW o \in Room, AddClient(o) PROVE TypeOK'
  <2>1. home[o] \in RoomID /\ arg[o] \in Client
    BY <1>13 DEF AddClient, Wired
  <2>2. dest' \in [Room -> Room \cup {None}] /\ clients' \in [Room -> SUBSET Client]
    BY SMTT(20), <1>13, <2>1 DEF AddClient
  <2> QED
    BY <1>13, <2>1, <2>2 DEF AddClient, Goto, Warm
<1>14. ASSUME NEW o \in Room, TellJoin(o) PROVE TypeOK'
  <2>1. dest[o] \in Room
    BY <1>14 DEF TellJoin, Wired
  <2>2. broadcast' \in [Room -> 0..BroadcastCap] /\ closed' = closed /\ panic' \in {"none", "send", "close", "fanout"}
    BY <1>14, <2>1, BroadcastType DEF TellJoin
  <2> QED
    BY <1>14, <2>2 DEF TellJoin, Goto
<1>15. ASSUME NEW o \in Room, TakeUnregister(o) PROVE TypeOK'
  <2>1. unregister' \in [Room -> Seq(Client)] /\ Head(unregister[o]) \in Client
    BY <1>15 DEF TakeUnregister
  <2> QED
    BY <1>15, <2>1 DEF TakeUnregister, Goto
<1>16. ASSUME NEW o \in Room, DropClient(o) PROVE TypeOK'
  BY <1>16 DEF DropClient, Goto, Lock, Unseat
<1>17. ASSUME NEW o \in Room, DropUnknown(o) PROVE TypeOK'
  BY <1>17 DEF DropUnknown, Goto
<1>18. ASSUME NEW o \in Room, LookupLeave(o) PROVE TypeOK'
  <2>1. home[o] \in RoomID
    BY <1>18 DEF LookupLeave, Wired
  <2>2. CASE rooms[home[o]] = None
    <3>1. loop' = [loop EXCEPT ![o] = "check"] /\ mu' = [mu EXCEPT ![o] = None]
      BY <1>18, <2>2 DEF LookupLeave, Goto, Unlock
    <3> QED
      BY <1>18, <2>1, <3>1 DEF LookupLeave
  <2>3. CASE rooms[home[o]] # None
    <3>1. loop' = [loop EXCEPT ![o] = "leave"] /\ mu' = mu
      BY <1>18, <2>3 DEF LookupLeave, Goto, Unlock
    <3> QED
      BY <1>18, <2>1, <3>1 DEF LookupLeave
  <2> QED
    BY <2>2, <2>3
<1>19. ASSUME NEW o \in Room, TellLeave(o) PROVE TypeOK'
  <2>1. dest[o] \in Room
    BY <1>19 DEF TellLeave, Wired
  <2>2. broadcast' \in [Room -> 0..BroadcastCap] /\ closed' = closed /\ panic' \in {"none", "send", "close", "fanout"}
    BY <1>19, <2>1, BroadcastType DEF TellLeave
  <2> QED
    BY <1>19, <2>2 DEF TellLeave, Goto, Unlock
<1>20. ASSUME NEW o \in Room, CheckEmpty(o) PROVE TypeOK'
  <2>1. home[o] \in RoomID
    BY <1>20 DEF CheckEmpty, Wired
  <2>2. sleepers' \in [RoomID -> Nat]
    BY SMTT(20), <1>20, <2>1 DEF CheckEmpty
  <2> QED
    BY <1>20, <2>2 DEF CheckEmpty, Goto
<1>21. ASSUME NEW o \in Room, TakeBroadcast(o) PROVE TypeOK'
  <2>1. broadcast' \in [Room -> 0..BroadcastCap]
    BY SMTT(30), <1>21 DEF TakeBroadcast
  <2> QED
    BY <1>21, <2>1 DEF TakeBroadcast, Goto, Warm
<1>22. ASSUME NEW o \in Room, FanOut(o) PROVE TypeOK'
  <2>1. send' \in [Client -> 0..SendCap] /\ panic' \in {"none", "send", "close", "fanout"}
    <3>1. CASE \E c \in clients[o] : sendClosed[c]
      BY <1>22, <3>1 DEF FanOut
    <3>2. CASE ~\E c \in clients[o] : sendClosed[c]
      <4>1. \A c \in Client : send[c] \in 0..SendCap /\ (send[c] < SendCap => send[c] + 1 \in 0..SendCap)
        BY SMTT(30)
      <4>2. /\ send' = [c \in Client |-> IF c \in clients[o] /\ send[c] < SendCap
                                       THEN send[c] + 1 ELSE send[c]]
            /\ panic' = panic
        BY <1>22, <3>2 DEF FanOut
      <4> QED
        BY <4>1, <4>2
    <3> QED
      BY <3>1, <3>2
  <2> QED
    BY <1>22, <2>1 DEF FanOut, Goto
<1>23. ASSUME NEW o \in Room, Tick(o) PROVE TypeOK'
  BY <1>23 DEF Tick, Goto
<1>24. ASSUME NEW o \in Room, Sweep(o) PROVE TypeOK'
  BY <1>24 DEF Sweep, Goto
<1>25. ASSUME NEW id \in RoomID, Wake(id) PROVE TypeOK'
  <2>1. sleepers' \in [RoomID -> Nat] /\ unregisterRoom' \in Seq(RoomID)
    BY <1>25 DEF Wake
  <2> QED
    BY <1>25, <2>1 DEF Wake
<1>26. CASE RemoveRoom
  <2>1. Head(unregisterRoom) \in RoomID /\ unregisterRoom' \in Seq(RoomID)
    BY <1>26 DEF RemoveRoom
  <2> QED
    BY <1>26, <2>1 DEF RemoveRoom, Unmap
<1>27. CASE CloseRoom
  BY <1>27 DEF CloseRoom
<1>28. ASSUME NEW id \in RoomID, Cool(id) PROVE TypeOK'
  BY <1>28 DEF Cool
<1>29. CASE EvictColdRooms
  BY <1>29 DEF EvictColdRooms, Cold
<1>30. CASE SubscribeToPubSub
  BY <1>30 DEF SubscribeToPubSub
<1>31. CASE Stop
  BY SMTT(30), <1>31 DEF Stop, CloseMapped, Mapped
<1>32. CASE StartReturns
  BY <1>32 DEF StartReturns, CloseMapped, Mapped
<1>33. CASE EvictReturns
  BY <1>33 DEF EvictReturns
<1>37. CASE Start
  BY <1>37 DEF Start
<1>34. ASSUME NEW id \in RoomID, BroadcastMessage(id) PROVE TypeOK'
  BY <1>34 DEF BroadcastMessage
<1>35. CASE SyncSend
  <2>1. sync \in Room
    BY <1>35 DEF SyncSend, Wired
  <2>2. broadcast' \in [Room -> 0..BroadcastCap] /\ closed' = closed /\ panic' \in {"none", "send", "close", "fanout"}
    BY <1>35, <2>1, BroadcastType DEF SyncSend
  <2> QED
    BY <1>35, <2>2 DEF SyncSend
<1>36. CASE UNCHANGED vars
  BY <1>36 DEF vars
<1> QED
  BY <1>1, <1>2, <1>3, <1>4, <1>5, <1>6, <1>7, <1>8, <1>9, <1>10, <1>11, <1>12, <1>13, <1>14, <1>15,
     <1>16, <1>17, <1>18, <1>19, <1>20, <1>21, <1>22, <1>23, <1>24, <1>25, <1>26, <1>27, <1>28,
     <1>29, <1>30, <1>31, <1>32, <1>33, <1>34, <1>35, <1>36, <1>37 DEF Next, Connection, ReadPump,
     WritePump, HandleRoom, ManagerStep, SyncLoop

-----------------------------------------------------------------------------
(* A step that leaves a room and the clients that have it as they are keeps it seated. *)
LEMMA SeatedInKept ==
  ASSUME TypeOK, Wired, NEW p \in Room, SeatedIn(p),
         register'[p] = register[p], clients'[p] = clients[p],
         loop'[p] = "add" => loop[p] = "add" /\ arg'[p] = arg[p],
         \A d \in Client : room[d] = p /\ handler[d] = "parked" =>
            room'[d] = p /\ handler'[d] = "parked" /\ sendClosed'[d] = sendClosed[d]
  PROVE  SeatedIn(p)'
<1> USE Capacities DEF TypeOK
<1>1. ASSUME NEW d \in Client, Waiting(d, p)
      PROVE  room'[d] = p /\ handler'[d] = "parked" /\ ~sendClosed'[d] /\ d \notin clients'[p]
  BY <1>1 DEF Waiting
<1>2. \A d \in clients'[p] : room'[d] = p /\ handler'[d] = "parked" /\ ~sendClosed'[d]
  BY DEF SeatedIn
<1>3. loop'[p] = "add" => Waiting(arg[p], p)'
  <2> SUFFICES ASSUME loop'[p] = "add" PROVE Waiting(arg[p], p)'
    OBVIOUS
  <2>1. arg[p] \in Client /\ arg'[p] = arg[p] /\ Waiting(arg[p], p)
    BY DEF Wired, SeatedIn
  <2> QED
    BY <2>1, <1>1 DEF Waiting
<1>4. ASSUME NEW i \in 1..Len(register'[p])
      PROVE  /\ Waiting(register[p][i], p)'
             /\ loop'[p] = "add" => register'[p][i] # arg'[p]
             /\ \A j \in 1..Len(register'[p]) : register'[p][i] = register'[p][j] => i = j
  <2>1. i \in 1..Len(register[p]) /\ register[p][i] \in Client
    BY <1>4
  <2>2. Waiting(register[p][i], p)
    BY <2>1 DEF SeatedIn
  <2>3. Waiting(register[p][i], p)'
    BY <1>1, <2>1, <2>2 DEF Waiting
  <2>4. loop[p] = "add" => register[p][i] # arg[p]
    BY <2>1 DEF SeatedIn
  <2>5. \A j \in 1..Len(register[p]) : register[p][i] = register[p][j] => i = j
    BY <2>1 DEF SeatedIn
  <2> QED
    BY <2>3, <2>4, <2>5
<1> QED
  BY <1>2, <1>3, <1>4 DEF SeatedIn

(* The seats depend on few variables, and on arg only while a client is being added. *)
LEMMA SeatedFrame ==
  ASSUME TypeOK, Wired, Seated,
         UNCHANGED <<clients, register, room, handler, sendClosed>>,
         \A o \in Room : loop'[o] = "add" => loop[o] = "add" /\ arg'[o] = arg[o]
  PROVE  Seated'
<1>1. ASSUME NEW o \in Room PROVE SeatedIn(o)'
  <2>1. SeatedIn(o)
    BY DEF Seated
  <2> QED
    BY <2>1, SeatedInKept
<1> QED
  BY <1>1 DEF Seated

LEMMA LastIndex == ASSUME NEW n \in Nat, NEW j \in 1..(n + 1) PROVE j \in 1..n \/ j = n + 1
OBVIOUS

(* A client that asks to join is seated at the end of the queue. *)
LEMMA SeatedAppend ==
  ASSUME TypeOK, Wired, NEW p \in Room, SeatedIn(p), NEW c \in Client,
         handler[c] = "register", room[c] = p, sendClosed[c] => handler[c] = "parked",
         handler' = [handler EXCEPT ![c] = "parked"],
         register' = [register EXCEPT ![p] = Append(@, c)],
         UNCHANGED <<clients, room, sendClosed, arg, loop>>
  PROVE  SeatedIn(p)'
<1> USE Capacities DEF TypeOK
<1>1. ASSUME NEW d \in Client, Waiting(d, p)
      PROVE  d # c /\ room'[d] = p /\ handler'[d] = "parked" /\ ~sendClosed'[d] /\ d \notin clients'[p]
  BY <1>1 DEF Waiting
<1>2. room'[c] = p /\ handler'[c] = "parked" /\ ~sendClosed'[c] /\ c \notin clients'[p]
  BY DEF SeatedIn
<1>3. \A d \in clients'[p] : room'[d] = p /\ handler'[d] = "parked" /\ ~sendClosed'[d]
  BY DEF SeatedIn
<1>4. loop[p] = "add" => arg[p] \in Client /\ Waiting(arg[p], p) /\ arg[p] # c
  BY <1>1 DEF Wired, SeatedIn
<1>5. loop'[p] = "add" => Waiting(arg[p], p)'
  BY <1>1, <1>4 DEF Waiting
<1>6. ASSUME NEW i \in 1..Len(register[p])
      PROVE  /\ register'[p][i] = register[p][i] /\ register[p][i] \in Client
             /\ Waiting(register[p][i], p)
             /\ loop[p] = "add" => register[p][i] # arg[p]
             /\ \A j \in 1..Len(register[p]) : register[p][i] = register[p][j] => i = j
  <2>1. register[p] \in Seq(Client) /\ register'[p] = Append(register[p], c)
    OBVIOUS
  <2>2. register'[p][i] = register[p][i] /\ register[p][i] \in Client
    BY <1>6, <2>1
  <2> QED
    BY <1>6, <2>2 DEF SeatedIn
<1>7. /\ Len(register'[p]) = Len(register[p]) + 1 /\ Len(register[p]) \in Nat
      /\ register'[p][Len(register[p]) + 1] = c
  OBVIOUS
<1>8. ASSUME NEW i \in 1..Len(register'[p])
      PROVE  /\ Waiting(register[p][i], p)'
             /\ loop'[p] = "add" => register'[p][i] # arg'[p]
             /\ \A j \in 1..Len(register'[p]) : register'[p][i] = register'[p][j] => i = j
  <2> PICK n \in Nat : n = Len(register[p]) /\ n + 1 = Len(register'[p])
    BY <1>7
  <2>1. \A j \in 1..Len(register'[p]) : j \in 1..Len(register[p]) \/ j = Len(register[p]) + 1
    BY LastIndex
  <2>2. \A j \in 1..Len(register[p]) : register[p][j] # c
    BY <1>1, <1>6
  <2>3. CASE i \in 1..Len(register[p])
    <3>1. Waiting(register[p][i], p)'
      BY <1>1, <1>6, <2>3 DEF Waiting
    <3>2. \A j \in 1..Len(register'[p]) : register'[p][i] = register'[p][j] => i = j
      BY <1>6, <1>7, <2>1, <2>2, <2>3
    <3>3. loop'[p] = "add" => register'[p][i] # arg'[p]
      BY <1>6, <2>3
    <3> QED
      BY <3>1, <3>2, <3>3
  <2>4. CASE i = Len(register[p]) + 1
    <3>1. Waiting(register[p][i], p)'
      BY <1>2, <1>7, <2>4 DEF Waiting
    <3>2. \A j \in 1..Len(register'[p]) : register'[p][i] = register'[p][j] => i = j
      BY <1>6, <1>7, <2>1, <2>2, <2>4
    <3> QED
      BY <1>4, <1>7, <2>4, <3>1, <3>2
  <2> QED
    BY <2>1, <2>3, <2>4
<1> QED
  BY <1>3, <1>5, <1>8 DEF SeatedIn

(* The head of the queue is seated in the hands of the room's goroutine. *)
LEMMA SeatedTake ==
  ASSUME TypeOK, NEW p \in Room, SeatedIn(p), register[p] # <<>>,
         arg' = [arg EXCEPT ![p] = Head(register[p])],
         register' = [register EXCEPT ![p] = Tail(@)],
         UNCHANGED <<clients, room, handler, sendClosed>>
  PROVE  SeatedIn(p)'
<1> USE DEF TypeOK
<1>1. ASSUME NEW i \in 1..Len(register[p])
      PROVE  /\ register[p][i] \in Client /\ Waiting(register[p][i], p)
             /\ \A j \in 1..Len(register[p]) : register[p][i] = register[p][j] => i = j
  BY <1>1 DEF SeatedIn
<1>2. /\ 1 \in 1..Len(register[p]) /\ arg'[p] = register[p][1]
      /\ Len(register'[p]) = Len(register[p]) - 1 /\ Len(register[p]) \in Nat
  OBVIOUS
<1>3. ASSUME NEW i \in 1..Len(register'[p])
      PROVE  i + 1 \in 1..Len(register[p]) /\ register'[p][i] = register[p][i + 1] /\ i + 1 # 1
  BY <1>2, <1>3
<1>4. Waiting(arg[p], p)'
  BY <1>1, <1>2 DEF Waiting
<1>5. ASSUME NEW i \in 1..Len(register'[p])
      PROVE  /\ Waiting(register[p][i], p)'
             /\ register'[p][i] # arg'[p]
             /\ \A j \in 1..Len(register'[p]) : register'[p][i] = register'[p][j] => i = j
  <2>1. Waiting(register[p][i], p)'
    BY <1>1, <1>3, <1>5 DEF Waiting
  <2>2. register'[p][i] # arg'[p]
    BY <1>1, <1>2, <1>3, <1>5
  <2>3. ASSUME NEW j \in 1..Len(register'[p]), register'[p][i] = register'[p][j] PROVE i = j
    <3>1. i + 1 = j + 1
      BY <1>1, <1>3, <1>5, <2>3
    <3> QED
      BY <3>1, <1>2, <1>5
  <2> QED
    BY <2>1, <2>2, <2>3
<1>6. \A d \in clients'[p] : room'[d] = p /\ handler'[d] = "parked" /\ ~sendClosed'[d]
  BY DEF SeatedIn
<1> QED
  BY <1>4, <1>5, <1>6 DEF SeatedIn

(* Every step keeps the clients seated. *)
LEMMA SeatedStep == TypeOK /\ Wired /\ Seated /\ [Next]_vars => Seated'
<1> SUFFICES ASSUME TypeOK, Wired, Seated, [Next]_vars PROVE Seated'
  OBVIOUS
<1> USE Capacities DEF TypeOK, mapVars, startVars, stopVars, queueVars, eventVars, loopVars, pumpVars, restVars
<1>1. ASSUME NEW c \in Client, NEW id \in RoomID, GetOrCreateRoom(c, id) PROVE Seated'
  <2>1. /\ handler[c] = "idle"
        /\ \A d \in Client : d # c => handler'[d] = handler[d] /\ room'[d] = room[d]
    BY <1>1 DEF GetOrCreateRoom
  <2>2. /\ UNCHANGED <<clients, register, sendClosed, arg>>
        /\ \A p \in Room : loop'[p] = "add" => loop[p] = "add"
    BY <1>1 DEF GetOrCreateRoom, Warm, Goto
  <2>3. ASSUME NEW p \in Room PROVE SeatedIn(p)'
    <3>1. SeatedIn(p)
      BY DEF Seated
    <3> QED
      BY <2>1, <2>2, <3>1, SeatedInKept
  <2> QED
    BY <2>1, <2>2, <2>3 DEF Seated
<1>2. ASSUME NEW c \in Client, StartPumps(c) PROVE Seated'
  <2>1. UNCHANGED <<clients, register, room, sendClosed, loop, arg>>
    BY <1>2 DEF StartPumps
  <2>2. handler[c] = "start" /\ handler' = [handler EXCEPT ![c] = "register"]
    BY <1>2 DEF StartPumps
  <2>3. ASSUME NEW p \in Room PROVE SeatedIn(p)'
    <3>1. SeatedIn(p)
      BY DEF Seated
    <3> QED
      BY <2>1, <2>2, <3>1, SeatedInKept
  <2> QED
    BY <2>1, <2>2, <2>3 DEF Seated
<1>3. ASSUME NEW c \in Client, Register(c) PROVE Seated'
  <2>1. UNCHANGED <<clients, room, sendClosed, arg, loop>> /\ room[c] \in Room
    BY <1>3 DEF Register, Wired
  <2>2. handler[c] = "register" /\ handler' = [handler EXCEPT ![c] = "parked"]
    BY <1>3 DEF Register
  <2>3. register' = [register EXCEPT ![room[c]] = Append(@, c)]
    BY <1>3 DEF Register
  <2>4. ASSUME NEW p \in Room PROVE SeatedIn(p)'
    <3>1. SeatedIn(p)
      BY DEF Seated
    <3>2. CASE p # room[c]
      BY <2>1, <2>2, <2>3, <3>1, <3>2, SeatedInKept
    <3>3. CASE p = room[c]
      BY <2>1, <2>2, <2>3, <3>1, <3>3, SeatedAppend DEF Seated
    <3> QED
      BY <3>2, <3>3
  <2> QED
    BY <2>1, <2>2, <2>4 DEF Seated
<1>4. ASSUME NEW c \in Client, ReadEvent(c) PROVE Seated'
  BY <1>4, SeatedFrame DEF ReadEvent, ReaderGoto
<1>5. ASSUME NEW c \in Client, ReadFail(c) PROVE Seated'
  BY <1>5, SeatedFrame DEF ReadFail, ReaderGoto
<1>6. ASSUME NEW c \in Client, Relay(c) PROVE Seated'
  BY <1>6, SeatedFrame DEF Relay, ReaderGoto, Broadcast, HasSpace
<1>7. ASSUME NEW c \in Client, LockForTyping(c) PROVE Seated'
  BY <1>7, SeatedFrame DEF LockForTyping, ReaderGoto, Lock
<1>8. ASSUME NEW c \in Client, HandleTypingEvent(c) PROVE Seated'
  BY <1>8, SeatedFrame DEF HandleTypingEvent, ReaderGoto, Broadcast, HasSpace, Unlock
<1>9. ASSUME NEW c \in Client, Leave(c) PROVE Seated'
  BY <1>9, SeatedFrame DEF Leave, ReaderGoto, CloseConn
<1>10. ASSUME NEW c \in Client, Write(c) PROVE Seated'
  BY <1>10, SeatedFrame DEF Write
<1>11. ASSUME NEW c \in Client, WriterExit(c) PROVE Seated'
  BY <1>11, SeatedFrame DEF WriterExit, CloseConn
<1>12. ASSUME NEW o \in Room, TakeRegister(o) PROVE Seated'
  <2>1. UNCHANGED <<clients, room, handler, sendClosed>> /\ register[o] # <<>>
    BY <1>12 DEF TakeRegister
  <2>2. /\ arg' = [arg EXCEPT ![o] = Head(register[o])]
        /\ register' = [register EXCEPT ![o] = Tail(@)]
        /\ \A p \in Room : p # o => loop'[p] = loop[p]
    BY <1>12 DEF TakeRegister, Goto
  <2>3. ASSUME NEW p \in Room PROVE SeatedIn(p)'
    <3>1. SeatedIn(p)
      BY DEF Seated
    <3>2. CASE p # o
      BY ZenonT(40), <2>1, <2>2, <3>1, <3>2, SeatedInKept
    <3>3. CASE p = o
      BY <2>1, <2>2, <3>1, <3>3, SeatedTake
    <3> QED
      BY <3>2, <3>3
  <2> QED
    BY <2>1, <2>3 DEF Seated
<1>13. ASSUME NEW o \in Room, AddClient(o) PROVE Seated'
  <2>1. UNCHANGED <<register, room, handler, sendClosed>> /\ loop[o] = "add"
    BY <1>13 DEF AddClient
  <2>2. clients' = [clients EXCEPT ![o] = @ \cup {arg[o]}] /\ loop'[o] # "add"
    BY <1>13 DEF AddClient, Goto, Warm
  <2>3. \A p \in Room : p # o => loop'[p] = loop[p] /\ arg'[p] = arg[p]
    BY <1>13 DEF AddClient, Goto, Warm
  <2>4. SeatedIn(o)'
    <3>1. SeatedIn(o) /\ Waiting(arg[o], o)
      BY <2>1 DEF Seated, SeatedIn
    <3>2. \A d \in clients'[o] : room'[d] = o /\ handler'[d] = "parked" /\ ~sendClosed'[d]
      BY <2>1, <2>2, <3>1 DEF SeatedIn, Waiting
    <3>3. ASSUME NEW i \in 1..Len(register'[o])
          PROVE  /\ Waiting(register[o][i], o)'
                 /\ \A j \in 1..Len(register'[o]) : register'[o][i] = register'[o][j] => i = j
      <4>1. Waiting(register[o][i], o) /\ register[o][i] # arg[o] /\ register'[o] = register[o]
        BY <2>1, <3>1, <3>3 DEF SeatedIn
      <4>2. Waiting(register[o][i], o)'
        BY <2>1, <2>2, <4>1 DEF Waiting
      <4> QED
        BY <3>1, <3>3, <4>1, <4>2 DEF SeatedIn
    <3> QED
      BY <2>2, <3>2, <3>3 DEF SeatedIn
  <2>5. ASSUME NEW p \in Room, p # o PROVE SeatedIn(p)'
    <3>1. SeatedIn(p)
      BY DEF Seated
    <3> QED
      BY ZenonT(40), <2>1, <2>2, <2>3, <2>5, <3>1, SeatedInKept
  <2> QED
    BY <2>1, <2>4, <2>5 DEF Seated
<1>14. ASSUME NEW o \in Room, TellJoin(o) PROVE Seated'
  BY SMTT(20), <1>14, SeatedFrame DEF TellJoin, Goto, Broadcast, HasSpace
<1>15. ASSUME NEW o \in Room, TakeUnregister(o) PROVE Seated'
  BY <1>15, SeatedFrame DEF TakeUnregister, Goto
<1>16. ASSUME NEW o \in Room, DropClient(o) PROVE Seated'
  <2>1. /\ UNCHANGED <<register, room, handler, arg>> /\ arg[o] \in clients[o]
        /\ loop'[o] # "add" /\ \A p \in Room : p # o => loop'[p] = loop[p]
    BY <1>16 DEF DropClient, Goto
  <2>2. /\ clients' = [clients EXCEPT ![o] = @ \ {arg[o]}]
        /\ sendClosed' = [sendClosed EXCEPT ![arg[o]] = TRUE]
    BY <1>16 DEF DropClient, Unseat
  <2>3. room[arg[o]] = o /\ handler[arg[o]] = "parked" /\ arg[o] \in Client
    BY <2>1 DEF Seated, SeatedIn
  <2>4. ASSUME NEW p \in Room PROVE SeatedIn(p)'
    <3>1. SeatedIn(p) /\ \A i \in 1..Len(register[p]) : register[p][i] \in Client
      BY DEF Seated
    <3>2. CASE p # o
      BY ZenonT(40), <2>1, <2>2, <2>3, <3>1, <3>2, SeatedInKept
    <3>3. CASE p = o
      BY SMTT(20), <2>1, <2>2, <2>3, <3>1, <3>3 DEF SeatedIn, Waiting
    <3> QED
      BY <3>2, <3>3
  <2> QED
    BY <2>1, <2>2, <2>3, <2>4 DEF Seated
<1>17. ASSUME NEW o \in Room, DropUnknown(o) PROVE Seated'
  BY <1>17, SeatedFrame DEF DropUnknown, Goto
<1>18. ASSUME NEW o \in Room, LookupLeave(o) PROVE Seated'
  <2>1. UNCHANGED <<clients, register, room, handler, sendClosed>>
    BY <1>18 DEF LookupLeave, Goto, Unlock
  <2>2. \A p \in Room : loop'[p] = "add" => loop[p] = "add" /\ arg'[p] = arg[p]
    BY SMTT(20), <1>18 DEF LookupLeave, Goto, Unlock
  <2> QED
    BY <2>1, <2>2, SeatedFrame
<1>19. ASSUME NEW o \in Room, TellLeave(o) PROVE Seated'
  BY ZenonT(40), <1>19, SeatedFrame DEF TellLeave, Goto, Broadcast, HasSpace, Unlock
<1>20. ASSUME NEW o \in Room, CheckEmpty(o) PROVE Seated'
  BY <1>20, SeatedFrame DEF CheckEmpty, Goto
<1>21. ASSUME NEW o \in Room, TakeBroadcast(o) PROVE Seated'
  BY <1>21, SeatedFrame DEF TakeBroadcast, Goto, Warm
<1>22. ASSUME NEW o \in Room, FanOut(o) PROVE Seated'
  BY <1>22, SeatedFrame DEF FanOut, Goto
<1>23. ASSUME NEW o \in Room, Tick(o) PROVE Seated'
  BY <1>23, SeatedFrame DEF Tick, Goto
<1>24. ASSUME NEW o \in Room, Sweep(o) PROVE Seated'
  BY <1>24, SeatedFrame DEF Sweep, Goto
<1>25. ASSUME NEW id \in RoomID, Wake(id) PROVE Seated'
  BY <1>25, SeatedFrame DEF Wake
<1>26. CASE RemoveRoom
  BY <1>26, SeatedFrame DEF RemoveRoom, Unmap
<1>27. CASE CloseRoom
  BY <1>27, SeatedFrame DEF CloseRoom
<1>28. ASSUME NEW id \in RoomID, Cool(id) PROVE Seated'
  BY <1>28, SeatedFrame DEF Cool
<1>29. CASE EvictColdRooms
  BY <1>29, SeatedFrame DEF EvictColdRooms, Cold
<1>30. CASE SubscribeToPubSub
  BY <1>30, SeatedFrame DEF SubscribeToPubSub
<1>31. CASE Stop
  BY <1>31, SeatedFrame DEF Stop, CloseMapped, Mapped
<1>32. CASE StartReturns
  BY <1>32, SeatedFrame DEF StartReturns, CloseMapped, Mapped
<1>33. CASE EvictReturns
  BY <1>33, SeatedFrame DEF EvictReturns
<1>37. CASE Start
  BY <1>37, SeatedFrame DEF Start
<1>34. ASSUME NEW id \in RoomID, BroadcastMessage(id) PROVE Seated'
  BY <1>34, SeatedFrame DEF BroadcastMessage
<1>35. CASE SyncSend
  BY <1>35, SeatedFrame DEF SyncSend, Broadcast, HasSpace
<1>36. CASE UNCHANGED vars
  BY <1>36, SeatedFrame DEF vars
<1> QED
  BY <1>1, <1>2, <1>3, <1>4, <1>5, <1>6, <1>7, <1>8, <1>9, <1>10, <1>11, <1>12, <1>13, <1>14, <1>15,
     <1>16, <1>17, <1>18, <1>19, <1>20, <1>21, <1>22, <1>23, <1>24, <1>25, <1>26, <1>27, <1>28,
     <1>29, <1>30, <1>31, <1>32, <1>33, <1>34, <1>35, <1>36, <1>37 DEF Next, Connection, ReadPump,
     WritePump, HandleRoom, ManagerStep, SyncLoop
-----------------------------------------------------------------------------
(* A step that leaves a queue of leavers and their clients as they are keeps them on their way. *)
LEMMA OutKept ==
  ASSUME TypeOK, Wired, NEW p \in Room, OnTheWayOut(p), unregister'[p] = unregister[p],
         loop'[p] = "drop" => loop[p] = "drop" /\ arg'[p] = arg[p],
         \A d \in Client : Left(d, p) => Left(d, p)'
  PROVE  OnTheWayOut(p)'
<1> USE DEF TypeOK
<1>1. loop'[p] = "drop" => Left(arg[p], p)'
  <2> SUFFICES ASSUME loop'[p] = "drop" PROVE Left(arg[p], p)'
    OBVIOUS
  <2>1. arg[p] \in Client /\ arg'[p] = arg[p] /\ Left(arg[p], p)
    BY DEF Wired, OnTheWayOut
  <2>2. room'[arg[p]] = p /\ reader'[arg[p]] = "done" /\ ~sendClosed'[arg[p]]
    BY <2>1 DEF Left
  <2> QED
    BY <2>1, <2>2 DEF Left
<1>2. ASSUME NEW i \in 1..Len(unregister'[p])
      PROVE  /\ Left(unregister[p][i], p)'
             /\ loop'[p] = "drop" => unregister'[p][i] # arg'[p]
             /\ \A j \in 1..Len(unregister'[p]) : unregister'[p][i] = unregister'[p][j] => i = j
  <2>1. i \in 1..Len(unregister[p]) /\ unregister[p][i] \in Client /\ unregister'[p][i] = unregister[p][i]
    BY <1>2
  <2>2. /\ room'[unregister[p][i]] = p /\ reader'[unregister[p][i]] = "done"
        /\ ~sendClosed'[unregister[p][i]]
    BY <2>1 DEF OnTheWayOut, Left
  <2>3. loop[p] = "drop" => unregister[p][i] # arg[p]
    BY <2>1 DEF OnTheWayOut
  <2>4. \A j \in 1..Len(unregister[p]) : unregister[p][i] = unregister[p][j] => i = j
    BY <2>1 DEF OnTheWayOut
  <2> QED
    BY <2>1, <2>2, <2>3, <2>4 DEF Left
<1> QED
  BY <1>1, <1>2 DEF OnTheWayOut

(* The way out depends on few variables; a reader that is done stays so. *)
LEMMA OutFrame ==
  ASSUME TypeOK, Wired, LeavesOnce, UNCHANGED <<unregister, room, sendClosed>>,
         \A d \in Client : reader[d] = "done" => reader'[d] = "done",
         \A o \in Room : loop'[o] = "drop" => loop[o] = "drop" /\ arg'[o] = arg[o]
  PROVE  LeavesOnce'
<1>1. ASSUME NEW o \in Room PROVE OnTheWayOut(o)'
  <2>1. OnTheWayOut(o)
    BY DEF LeavesOnce
  <2>2. \A d \in Client : Left(d, o) => Left(d, o)'
    BY DEF Left
  <2> QED
    BY <2>1, <2>2, OutKept
<1> QED
  BY <1>1 DEF LeavesOnce

(* A reader that leaves puts its client at the end of the queue, where it is not yet. *)
LEMMA OutAppend ==
  ASSUME TypeOK, Wired, NEW p \in Room, OnTheWayOut(p), NEW c \in Client,
         reader[c] = "leave", room[c] = p, ~sendClosed[c],
         reader' = [reader EXCEPT ![c] = "done"],
         unregister' = [unregister EXCEPT ![p] = Append(@, c)],
         UNCHANGED <<room, sendClosed, arg, loop>>
  PROVE  OnTheWayOut(p)'
<1> USE DEF TypeOK
<1>1. ASSUME NEW d \in Client, Left(d, p)
      PROVE  d # c /\ room'[d] = p /\ reader'[d] = "done" /\ ~sendClosed'[d]
  BY <1>1 DEF Left
<1>2. room'[c] = p /\ reader'[c] = "done" /\ ~sendClosed'[c]
  OBVIOUS
<1>3. loop[p] = "drop" => arg[p] \in Client /\ Left(arg[p], p) /\ arg[p] # c
  BY <1>1 DEF Wired, OnTheWayOut
<1>4. loop'[p] = "drop" => Left(arg[p], p)'
  BY <1>1, <1>3 DEF Left
<1>5. ASSUME NEW i \in 1..Len(unregister[p])
      PROVE  /\ unregister'[p][i] = unregister[p][i] /\ unregister[p][i] \in Client
             /\ Left(unregister[p][i], p)
             /\ loop[p] = "drop" => unregister[p][i] # arg[p]
             /\ \A j \in 1..Len(unregister[p]) : unregister[p][i] = unregister[p][j] => i = j
  <2>1. unregister[p] \in Seq(Client) /\ unregister'[p] = Append(unregister[p], c)
    OBVIOUS
  <2>2. unregister'[p][i] = unregister[p][i] /\ unregister[p][i] \in Client
    BY <1>5, <2>1
  <2> QED
    BY <1>5, <2>2 DEF OnTheWayOut
<1>6. /\ Len(unregister'[p]) = Len(unregister[p]) + 1 /\ Len(unregister[p]) \in Nat
      /\ unregister'[p][Len(unregister[p]) + 1] = c
  OBVIOUS
<1>7. ASSUME NEW i \in 1..Len(unregister'[p])
      PROVE  /\ Left(unregister[p][i], p)'
             /\ loop'[p] = "drop" => unregister'[p][i] # arg'[p]
             /\ \A j \in 1..Len(unregister'[p]) : unregister'[p][i] = unregister'[p][j] => i = j
  <2>1. \A j \in 1..Len(unregister'[p]) : j \in 1..Len(unregister[p]) \/ j = Len(unregister[p]) + 1
    <3> PICK n \in Nat : n = Len(unregister[p]) /\ n + 1 = Len(unregister'[p])
      BY <1>6
    <3> QED
      BY LastIndex
  <2>2. \A j \in 1..Len(unregister[p]) : unregister[p][j] # c
    BY <1>1, <1>5
  <2>3. CASE i \in 1..Len(unregister[p])
    <3>1. /\ room'[unregister[p][i]] = p /\ reader'[unregister[p][i]] = "done"
          /\ ~sendClosed'[unregister[p][i]] /\ unregister'[p][i] = unregister[p][i]
      BY <1>1, <1>5, <2>3
    <3>2. Left(unregister[p][i], p)'
      BY <3>1 DEF Left
    <3>3. \A j \in 1..Len(unregister'[p]) : unregister'[p][i] = unregister'[p][j] => i = j
      BY SMTT(30), <1>5, <1>6, <2>1, <2>2, <2>3
    <3>4. loop'[p] = "drop" => unregister'[p][i] # arg'[p]
      BY <1>5, <2>3
    <3> QED
      BY <3>2, <3>3, <3>4
  <2>4. CASE i = Len(unregister[p]) + 1
    <3>1. Left(unregister[p][i], p)'
      BY <1>2, <1>6, <2>4 DEF Left
    <3>2. \A j \in 1..Len(unregister'[p]) : unregister'[p][i] = unregister'[p][j] => i = j
      BY <1>5, <1>6, <2>1, <2>2, <2>4
    <3> QED
      BY <1>3, <1>6, <2>4, <3>1, <3>2
  <2> QED
    BY <1>7, <2>1, <2>3, <2>4
<1> QED
  BY <1>4, <1>7 DEF OnTheWayOut

(* The head of the queue goes into the hands of the room's goroutine. *)
LEMMA OutTake ==
  ASSUME TypeOK, NEW p \in Room, OnTheWayOut(p), unregister[p] # <<>>,
         arg' = [arg EXCEPT ![p] = Head(unregister[p])],
         unregister' = [unregister EXCEPT ![p] = Tail(@)],
         UNCHANGED <<room, reader, sendClosed>>
  PROVE  OnTheWayOut(p)'
<1> USE DEF TypeOK
<1>1. ASSUME NEW i \in 1..Len(unregister[p])
      PROVE  /\ unregister[p][i] \in Client
             /\ room'[unregister[p][i]] = p /\ reader'[unregister[p][i]] = "done"
             /\ ~sendClosed'[unregister[p][i]]
             /\ \A j \in 1..Len(unregister[p]) : unregister[p][i] = unregister[p][j] => i = j
  BY SMTT(30), <1>1 DEF OnTheWayOut, Left
<1>2. /\ 1 \in 1..Len(unregister[p]) /\ arg'[p] = unregister[p][1]
      /\ Len(unregister'[p]) = Len(unregister[p]) - 1 /\ Len(unregister[p]) \in Nat
  OBVIOUS
<1>3. ASSUME NEW i \in 1..Len(unregister'[p])
      PROVE  i + 1 \in 1..Len(unregister[p]) /\ unregister'[p][i] = unregister[p][i + 1] /\ i + 1 # 1
  BY <1>2, <1>3
<1>4. Left(arg[p], p)'
  BY <1>1, <1>2 DEF Left
<1>5. ASSUME NEW i \in 1..Len(unregister'[p])
      PROVE  /\ Left(unregister[p][i], p)'
             /\ unregister'[p][i] # arg'[p]
             /\ \A j \in 1..Len(unregister'[p]) : unregister'[p][i] = unregister'[p][j] => i = j
  <2>1. Left(unregister[p][i], p)'
    BY SMTT(30), <1>1, <1>3, <1>5 DEF Left
  <2>2. unregister'[p][i] # arg'[p]
    BY <1>1, <1>2, <1>3, <1>5
  <2>3. ASSUME NEW j \in 1..Len(unregister'[p]), unregister'[p][i] = unregister'[p][j] PROVE i = j
    <3>1. i + 1 = j + 1
      BY <1>1, <1>3, <1>5, <2>3
    <3> QED
      BY <3>1, <1>2, <1>5
  <2> QED
    BY <2>1, <2>2, <2>3
<1> QED
  BY <1>4, <1>5 DEF OnTheWayOut

(* Every step keeps the leavers on their way, each once. *)
LEMMA OutStep == TypeOK /\ Wired /\ Seated /\ LeavesOnce /\ [Next]_vars => LeavesOnce'
<1> SUFFICES ASSUME TypeOK, Wired, Seated, LeavesOnce, [Next]_vars PROVE LeavesOnce'
  OBVIOUS
<1> USE Capacities DEF TypeOK, mapVars, startVars, stopVars, queueVars, eventVars, loopVars, pumpVars, restVars
<1>1. ASSUME NEW c \in Client, NEW id \in RoomID, GetOrCreateRoom(c, id) PROVE LeavesOnce'
  <2>1. /\ handler[c] = "idle" /\ UNCHANGED <<unregister, sendClosed, reader, arg>>
        /\ \A d \in Client : d # c => room'[d] = room[d]
        /\ \A p \in Room : loop'[p] = "drop" => loop[p] = "drop"
    BY <1>1 DEF GetOrCreateRoom, Warm, Goto
  <2>2. reader[c] # "done"
    BY <2>1 DEF Wired
  <2>3. ASSUME NEW p \in Room PROVE OnTheWayOut(p)'
    <3>1. OnTheWayOut(p) /\ \A d \in Client : Left(d, p) => Left(d, p)'
      BY <2>1, <2>2 DEF LeavesOnce, Left
    <3> QED
      BY <2>1, <3>1, OutKept
  <2> QED
    BY <2>1, <2>3 DEF LeavesOnce
<1>2. ASSUME NEW c \in Client, StartPumps(c) PROVE LeavesOnce'
  <2>1. reader[c] # "done" /\ UNCHANGED <<unregister, room, sendClosed, loop, arg>>
    BY <1>2 DEF StartPumps, Wired
  <2>2. \A d \in Client : reader[d] = "done" => reader'[d] = "done"
    BY <1>2, <2>1 DEF StartPumps
  <2> QED
    BY <2>1, <2>2, OutFrame
<1>3. ASSUME NEW c \in Client, Register(c) PROVE LeavesOnce'
  BY <1>3, OutFrame DEF Register
<1>4. ASSUME NEW c \in Client, ReadEvent(c) PROVE LeavesOnce'
  BY <1>4, OutFrame DEF ReadEvent, ReaderGoto
<1>5. ASSUME NEW c \in Client, ReadFail(c) PROVE LeavesOnce'
  BY <1>5, OutFrame DEF ReadFail, ReaderGoto
<1>6. ASSUME NEW c \in Client, Relay(c) PROVE LeavesOnce'
  BY <1>6, OutFrame DEF Relay, ReaderGoto, Broadcast, HasSpace
<1>7. ASSUME NEW c \in Client, LockForTyping(c) PROVE LeavesOnce'
  BY <1>7, OutFrame DEF LockForTyping, ReaderGoto, Lock
<1>8. ASSUME NEW c \in Client, HandleTypingEvent(c) PROVE LeavesOnce'
  BY <1>8, OutFrame DEF HandleTypingEvent, ReaderGoto, Broadcast, HasSpace, Unlock
<1>9. ASSUME NEW c \in Client, Leave(c) PROVE LeavesOnce'
  <2>1. /\ reader[c] = "leave" /\ UNCHANGED <<room, sendClosed, loop, arg>>
        /\ unregister' = [unregister EXCEPT ![room[c]] = Append(@, c)]
        /\ reader' = [reader EXCEPT ![c] = "done"]
    BY <1>9 DEF Leave, ReaderGoto
  <2>2. room[c] \in Room /\ ~sendClosed[c]
    BY <2>1 DEF Wired, LeavesOnce
  <2>3. ASSUME NEW p \in Room PROVE OnTheWayOut(p)'
    <3>1. OnTheWayOut(p) /\ \A d \in Client : Left(d, p) => Left(d, p)'
      BY <2>1 DEF LeavesOnce, Left
    <3>2. CASE p # room[c]
      BY <2>1, <2>2, <3>1, <3>2, OutKept
    <3>3. CASE p = room[c]
      BY <2>1, <2>2, <3>1, <3>3, OutAppend
    <3> QED
      BY <3>2, <3>3
  <2> QED
    BY <2>1, <2>3 DEF LeavesOnce
<1>10. ASSUME NEW c \in Client, Write(c) PROVE LeavesOnce'
  BY <1>10, OutFrame DEF Write
<1>11. ASSUME NEW c \in Client, WriterExit(c) PROVE LeavesOnce'
  BY <1>11, OutFrame DEF WriterExit, CloseConn
<1>12. ASSUME NEW o \in Room, TakeRegister(o) PROVE LeavesOnce'
  BY <1>12, OutFrame DEF TakeRegister, Goto
<1>13. ASSUME NEW o \in Room, AddClient(o) PROVE LeavesOnce'
  BY <1>13, OutFrame DEF AddClient, Goto, Warm
<1>14. ASSUME NEW o \in Room, TellJoin(o) PROVE LeavesOnce'
  BY <1>14, OutFrame DEF TellJoin, Goto, Broadcast, HasSpace
<1>15. ASSUME NEW o \in Room, TakeUnregister(o) PROVE LeavesOnce'
  <2>1. UNCHANGED <<room, reader, sendClosed>> /\ unregister[o] # <<>>
    BY <1>15 DEF TakeUnregister
  <2>2. /\ arg' = [arg EXCEPT ![o] = Head(unregister[o])]
        /\ unregister' = [unregister EXCEPT ![o] = Tail(@)]
        /\ \A p \in Room : p # o => loop'[p] = loop[p]
    BY <1>15 DEF TakeUnregister, Goto
  <2>3. ASSUME NEW p \in Room PROVE OnTheWayOut(p)'
    <3>1. OnTheWayOut(p) /\ \A d \in Client : Left(d, p) => Left(d, p)'
      BY <2>1 DEF LeavesOnce, Left
    <3>2. CASE p # o
      BY ZenonT(40), <2>1, <2>2, <3>1, <3>2, OutKept
    <3>3. CASE p = o
      BY <2>1, <2>2, <3>1, <3>3, OutTake
    <3> QED
      BY <3>2, <3>3
  <2> QED
    BY <2>1, <2>3 DEF LeavesOnce
<1>16. ASSUME NEW o \in Room, DropClient(o) PROVE LeavesOnce'
  <2>1. /\ UNCHANGED <<unregister, room, reader, arg>> /\ loop[o] = "drop" /\ arg[o] \in Client
        /\ loop'[o] # "drop" /\ \A p \in Room : p # o => loop'[p] = loop[p]
    BY <1>16 DEF DropClient, Goto, Wired
  <2>2. sendClosed' = [sendClosed EXCEPT ![arg[o]] = TRUE]
    BY <1>16 DEF DropClient
  <2>3. Left(arg[o], o) /\ OnTheWayOut(o)
    BY <2>1 DEF LeavesOnce, OnTheWayOut
  <2>4. ASSUME NEW p \in Room PROVE OnTheWayOut(p)'
    <3>1. OnTheWayOut(p)
      BY DEF LeavesOnce
    <3>2. CASE p # o
      <4>1. \A d \in Client : Left(d, p) => Left(d, p)'
        BY <2>1, <2>2, <2>3, <3>2 DEF Left
      <4> QED
        BY <2>1, <3>1, <3>2, <4>1, OutKept
    <3>3. CASE p = o
      <4>1. ASSUME NEW i \in 1..Len(unregister[o])
            PROVE  /\ Left(unregister[o][i], o)'
                   /\ \A j \in 1..Len(unregister[o]) : unregister[o][i] = unregister[o][j] => i = j
        <5>1. /\ unregister[o][i] \in Client /\ Left(unregister[o][i], o) /\ unregister[o][i] # arg[o]
              /\ \A j \in 1..Len(unregister[o]) : unregister[o][i] = unregister[o][j] => i = j
          BY SMTT(30), <2>1, <2>3, <4>1 DEF OnTheWayOut
        <5> QED
          BY <2>1, <2>2, <5>1 DEF Left
      <4> QED
        BY <2>1, <3>3, <4>1 DEF OnTheWayOut, Left
    <3> QED
      BY <3>2, <3>3
  <2>5. \A d \in Client : sendClosed'[d] => reader'[d] = "done"
    BY <2>1, <2>2, <2>3 DEF LeavesOnce, Left
  <2> QED
    BY <2>4, <2>5 DEF LeavesOnce
<1>17. ASSUME NEW o \in Room, DropUnknown(o) PROVE LeavesOnce'
  BY <1>17, OutFrame DEF DropUnknown, Goto
<1>18. ASSUME NEW o \in Room, LookupLeave(o) PROVE LeavesOnce'
  <2>1. UNCHANGED <<unregister, room, reader, sendClosed>>
    BY <1>18 DEF LookupLeave
  <2>2. \A p \in Room : loop'[p] = "drop" => loop[p] = "drop" /\ arg'[p] = arg[p]
    BY SMTT(20), <1>18 DEF LookupLeave, Goto, Unlock
  <2> QED
    BY <2>1, <2>2, OutFrame
<1>19. ASSUME NEW o \in Room, TellLeave(o) PROVE LeavesOnce'
  BY <1>19, OutFrame DEF TellLeave, Goto, Broadcast, HasSpace, Unlock
<1>20. ASSUME NEW o \in Room, CheckEmpty(o) PROVE LeavesOnce'
  BY <1>20, OutFrame DEF CheckEmpty, Goto
<1>21. ASSUME NEW o \in Room, TakeBroadcast(o) PROVE LeavesOnce'
  BY <1>21, OutFrame DEF TakeBroadcast, Goto, Warm
<1>22. ASSUME NEW o \in Room, FanOut(o) PROVE LeavesOnce'
  BY <1>22, OutFrame DEF FanOut, Goto
<1>23. ASSUME NEW o \in Room, Tick(o) PROVE LeavesOnce'
  BY <1>23, OutFrame DEF Tick, Goto
<1>24. ASSUME NEW o \in Room, Sweep(o) PROVE LeavesOnce'
  BY <1>24, OutFrame DEF Sweep, Goto
<1>25. ASSUME NEW id \in RoomID, Wake(id) PROVE LeavesOnce'
  BY <1>25, OutFrame DEF Wake
<1>26. CASE RemoveRoom
  BY <1>26, OutFrame DEF RemoveRoom, Unmap
<1>27. CASE CloseRoom
  BY <1>27, OutFrame DEF CloseRoom
<1>28. ASSUME NEW id \in RoomID, Cool(id) PROVE LeavesOnce'
  BY <1>28, OutFrame DEF Cool
<1>29. CASE EvictColdRooms
  BY <1>29, OutFrame DEF EvictColdRooms, Cold
<1>30. CASE SubscribeToPubSub
  BY <1>30, OutFrame DEF SubscribeToPubSub
<1>31. CASE Stop
  BY <1>31, OutFrame DEF Stop, CloseMapped, Mapped
<1>32. CASE StartReturns
  BY <1>32, OutFrame DEF StartReturns, CloseMapped, Mapped
<1>33. CASE EvictReturns
  BY <1>33, OutFrame DEF EvictReturns
<1>37. CASE Start
  BY <1>37, OutFrame DEF Start
<1>34. ASSUME NEW id \in RoomID, BroadcastMessage(id) PROVE LeavesOnce'
  BY <1>34, OutFrame DEF BroadcastMessage
<1>35. CASE SyncSend
  BY <1>35, OutFrame DEF SyncSend, Broadcast, HasSpace
<1>36. CASE UNCHANGED vars
  BY <1>36, OutFrame DEF vars
<1> QED
  BY <1>1, <1>2, <1>3, <1>4, <1>5, <1>6, <1>7, <1>8, <1>9, <1>10, <1>11, <1>12, <1>13, <1>14, <1>15,
     <1>16, <1>17, <1>18, <1>19, <1>20, <1>21, <1>22, <1>23, <1>24, <1>25, <1>26, <1>27, <1>28,
     <1>29, <1>30, <1>31, <1>32, <1>33, <1>34, <1>35, <1>36, <1>37 DEF Next, Connection, ReadPump,
     WritePump, HandleRoom, ManagerStep, SyncLoop

(* Every step keeps the goroutines wired. *)
LEMMA WiredStep == TypeOK /\ Wired /\ [Next]_vars => Wired'
<1> SUFFICES ASSUME TypeOK, Wired, [Next]_vars PROVE Wired'
  OBVIOUS
<1> USE Capacities DEF TypeOK, Wired, mapVars, startVars, stopVars, queueVars, eventVars, loopVars, pumpVars, restVars
<1>1. ASSUME NEW c \in Client, NEW id \in RoomID, GetOrCreateRoom(c, id) PROVE Wired'
  <2>1. /\ handler' = [handler EXCEPT ![c] = "start"] /\ handler[c] = "idle"
        /\ room'[c] \in Room /\ UNCHANGED <<reader, arg, dest>>
        /\ \A d \in Client : d # c => room'[d] = room[d]
    BY <1>1 DEF GetOrCreateRoom
  <2>2. \A d \in Client :
          /\ handler'[d] # "idle" => room'[d] # None
          /\ handler'[d] \in {"idle", "start"} => reader'[d] = "off"
    BY SMTT(20), <2>1
  <2>3. CASE rooms[id] # None
    <3>1. UNCHANGED <<home, loop>>
      BY <1>1, <2>3 DEF GetOrCreateRoom
    <3> QED
      BY <2>1, <2>2, <3>1
  <2>4. CASE rooms[id] = None
    <3>1. PICK o \in Room : home' = [home EXCEPT ![o] = id] /\ loop' = [loop EXCEPT ![o] = "select"]
      BY <1>1, <2>4 DEF GetOrCreateRoom, Warm, Goto
    <3>2. \A p \in Room :
            /\ loop'[p] = "off" <=> home'[p] = None
            /\ loop'[p] \in {"add", "drop", "lookup"} => arg'[p] # None
            /\ loop'[p] \in {"join", "leave"} => dest'[p] # None
      BY <2>1, <3>1
    <3> QED
      BY ONLY <2>2, <3>2 DEF Wired
  <2> QED
    BY <2>3, <2>4
<1>2. ASSUME NEW c \in Client, StartPumps(c) PROVE Wired'
  BY <1>2 DEF StartPumps
<1>3. ASSUME NEW c \in Client, Register(c) PROVE Wired'
  BY <1>3 DEF Register
<1>4. ASSUME NEW c \in Client, ReadEvent(c) PROVE Wired'
  BY <1>4 DEF ReadEvent, ReaderGoto
<1>5. ASSUME NEW c \in Client, ReadFail(c) PROVE Wired'
  BY <1>5 DEF ReadFail, ReaderGoto
<1>6. ASSUME NEW c \in Client, Relay(c) PROVE Wired'
  BY <1>6 DEF Relay, ReaderGoto, Broadcast, HasSpace
<1>7. ASSUME NEW c \in Client, LockForTyping(c) PROVE Wired'
  BY <1>7 DEF LockForTyping, ReaderGoto, Lock
<1>8. ASSUME NEW c \in Client, HandleTypingEvent(c) PROVE Wired'
  BY <1>8 DEF HandleTypingEvent, ReaderGoto, Broadcast, HasSpace, Unlock
<1>9. ASSUME NEW c \in Client, Leave(c) PROVE Wired'
  BY SMTT(20), <1>9 DEF Leave, ReaderGoto, CloseConn
<1>10. ASSUME NEW c \in Client, Write(c) PROVE Wired'
  BY <1>10 DEF Write
<1>11. ASSUME NEW c \in Client, WriterExit(c) PROVE Wired'
  BY <1>11 DEF WriterExit, CloseConn
<1>12. ASSUME NEW o \in Room, TakeRegister(o) PROVE Wired'
  BY SMTT(20), <1>12 DEF TakeRegister, Goto
<1>13. ASSUME NEW o \in Room, AddClient(o) PROVE Wired'
  BY <1>13 DEF AddClient, Goto, Warm
<1>14. ASSUME NEW o \in Room, TellJoin(o) PROVE Wired'
  BY <1>14 DEF TellJoin, Goto, Broadcast, HasSpace
<1>15. ASSUME NEW o \in Room, TakeUnregister(o) PROVE Wired'
  BY SMTT(20), <1>15 DEF TakeUnregister, Goto
<1>16. ASSUME NEW o \in Room, DropClient(o) PROVE Wired'
  BY <1>16 DEF DropClient, Goto, Lock, Unseat
<1>17. ASSUME NEW o \in Room, DropUnknown(o) PROVE Wired'
  BY <1>17 DEF DropUnknown, Goto
<1>18. ASSUME NEW o \in Room, LookupLeave(o) PROVE Wired'
  <2>1. loop[o] = "lookup" /\ UNCHANGED <<home, handler, room, reader>> /\ home[o] \in RoomID
    BY <1>18 DEF LookupLeave
  <2>2. /\ dest' = [dest EXCEPT ![o] = rooms[home[o]]] /\ arg' = [arg EXCEPT ![o] = None]
        /\ \/ loop' = [loop EXCEPT ![o] = "check"]
           \/ loop' = [loop EXCEPT ![o] = "leave"] /\ rooms[home[o]] # None
    BY <1>18 DEF LookupLeave, Goto, Unlock
  <2>3. CASE loop' = [loop EXCEPT ![o] = "check"]
    BY <2>1, <2>2, <2>3
  <2>4. CASE loop' = [loop EXCEPT ![o] = "leave"] /\ rooms[home[o]] # None
    <3>1. dest'[o] # None /\ \A p \in Room : p # o => dest'[p] = dest[p] /\ arg'[p] = arg[p] /\ loop'[p] = loop[p]
      BY <2>2, <2>4
    <3>2. loop'[o] = "leave" /\ home[o] # None
      BY <2>1, <2>4
    <3>3. ASSUME NEW p \in Room
          PROVE  /\ loop'[p] = "off" <=> home'[p] = None
                 /\ loop'[p] \in {"add", "drop", "lookup"} => arg'[p] # None
                 /\ loop'[p] \in {"join", "leave"} => dest'[p] # None
      <4>1. CASE p = o
        BY <2>1, <3>1, <3>2, <4>1
      <4>2. CASE p # o
        BY ZenonT(40), <2>1, <3>1, <4>2
      <4> QED
        BY <4>1, <4>2
    <3> QED
      BY <2>1, <3>3
  <2> QED
    BY <2>2, <2>3, <2>4
<1>19. ASSUME NEW o \in Room, TellLeave(o) PROVE Wired'
  BY <1>19 DEF TellLeave, Goto, Broadcast, HasSpace, Unlock
<1>20. ASSUME NEW o \in Room, CheckEmpty(o) PROVE Wired'
  BY <1>20 DEF CheckEmpty, Goto
<1>21. ASSUME NEW o \in Room, TakeBroadcast(o) PROVE Wired'
  BY <1>21 DEF TakeBroadcast, Goto, Warm
<1>22. ASSUME NEW o \in Room, FanOut(o) PROVE Wired'
  BY <1>22 DEF FanOut, Goto
<1>23. ASSUME NEW o \in Room, Tick(o) PROVE Wired'
  BY <1>23 DEF Tick, Goto
<1>24. ASSUME NEW o \in Room, Sweep(o) PROVE Wired'
  BY <1>24 DEF Sweep, Goto
<1>25. ASSUME NEW id \in RoomID, Wake(id) PROVE Wired'
  BY <1>25 DEF Wake
<1>26. CASE RemoveRoom
  BY <1>26 DEF RemoveRoom, Unmap
<1>27. CASE CloseRoom
  BY <1>27 DEF CloseRoom
<1>28. ASSUME NEW id \in RoomID, Cool(id) PROVE Wired'
  BY <1>28 DEF Cool
<1>29. CASE EvictColdRooms
  BY <1>29 DEF EvictColdRooms, Cold
<1>30. CASE SubscribeToPubSub
  BY <1>30 DEF SubscribeToPubSub
<1>31. CASE Stop
  BY <1>31 DEF Stop, CloseMapped, Mapped
<1>32. CASE StartReturns
  BY <1>32 DEF StartReturns, CloseMapped, Mapped
<1>33. CASE EvictReturns
  BY <1>33 DEF EvictReturns
<1>37. CASE Start
  BY <1>37 DEF Start
<1>34. ASSUME NEW id \in RoomID, BroadcastMessage(id) PROVE Wired'
  BY <1>34 DEF BroadcastMessage
<1>35. CASE SyncSend
  BY <1>35 DEF SyncSend, Broadcast, HasSpace
<1>36. CASE UNCHANGED vars
  BY <1>36 DEF vars
<1> QED
  BY <1>1, <1>2, <1>3, <1>4, <1>5, <1>6, <1>7, <1>8, <1>9, <1>10, <1>11, <1>12, <1>13, <1>14, <1>15,
     <1>16, <1>17, <1>18, <1>19, <1>20, <1>21, <1>22, <1>23, <1>24, <1>25, <1>26, <1>27, <1>28,
     <1>29, <1>30, <1>31, <1>32, <1>33, <1>34, <1>35, <1>36, <1>37 DEF Next, Connection, ReadPump,
     WritePump, HandleRoom, ManagerStep, SyncLoop
(* Who holds room.mu depends on few variables. *)
LEMMA LockFrame ==
  ASSUME TypeOK, LockHeld, UNCHANGED <<mu, room>>,
         \A d \in Client : reader'[d] = "type" <=> reader[d] = "type",
         \A p \in Room : loop'[p] \in {"lookup", "leave"} <=> loop[p] \in {"lookup", "leave"}
  PROVE  LockHeld'
BY DEF LockHeld

(* Every step keeps room.mu with who it says. *)
LEMMA LockStep == TypeOK /\ Wired /\ LockHeld /\ [Next]_vars => LockHeld'
<1> SUFFICES ASSUME TypeOK, Wired, LockHeld, [Next]_vars PROVE LockHeld'
  OBVIOUS
<1> USE Capacities DEF TypeOK, mapVars, startVars, stopVars, queueVars, eventVars, loopVars, pumpVars, restVars
<1>1. ASSUME NEW c \in Client, NEW id \in RoomID, GetOrCreateRoom(c, id) PROVE LockHeld'
  <2>1. /\ handler[c] = "idle" /\ UNCHANGED <<mu, reader>>
        /\ \A d \in Client : d # c => room'[d] = room[d]
    BY <1>1 DEF GetOrCreateRoom
  <2>2. ASSUME NEW p \in Room PROVE loop'[p] \in {"lookup", "leave"} <=> loop[p] \in {"lookup", "leave"}
    <3>1. loop' = loop \/ \E q \in Room : home[q] = None /\ loop' = [loop EXCEPT ![q] = "select"]
      BY <1>1 DEF GetOrCreateRoom, Goto
    <3>2. \A q \in Room : home[q] = None => loop[q] = "off"
      BY DEF Wired
    <3>3. loop \in [Room -> {"off", "select", "add", "join", "drop", "lookup", "leave", "check", "fan", "sweep"}]
      OBVIOUS
    <3> HIDE DEF TypeOK
    <3> QED
      BY <3>1, <3>2, <3>3
  <2>3. reader[c] = "off" /\ \A p \in Room : mu[p] # c
    BY <2>1 DEF Wired, LockHeld
  <2> QED
    BY SMTT(20), <2>1, <2>2, <2>3 DEF LockHeld
<1>2. ASSUME NEW c \in Client, StartPumps(c) PROVE LockHeld'
  <2>1. UNCHANGED <<mu, room>> /\ \A d \in Client : reader'[d] = "type" <=> reader[d] = "type"
    <3>1. reader' = [reader EXCEPT ![c] = "read"] /\ UNCHANGED <<mu, room>> /\ handler[c] = "start"
      BY <1>2 DEF StartPumps
    <3>2. reader[c] = "off"
      BY <3>1 DEF Wired
    <3> QED
      BY <3>1, <3>2
  <2>2. \A p \in Room : loop'[p] \in {"lookup", "leave"} <=> loop[p] \in {"lookup", "leave"}
    BY <1>2 DEF StartPumps
  <2> QED
    BY <2>1, <2>2, LockFrame
<1>3. ASSUME NEW c \in Client, Register(c) PROVE LockHeld'
  BY <1>3, LockFrame DEF Register
<1>4. ASSUME NEW c \in Client, ReadEvent(c) PROVE LockHeld'
  BY <1>4, LockFrame DEF ReadEvent, ReaderGoto
<1>5. ASSUME NEW c \in Client, ReadFail(c) PROVE LockHeld'
  BY <1>5, LockFrame DEF ReadFail, ReaderGoto
<1>6. ASSUME NEW c \in Client, Relay(c) PROVE LockHeld'
  BY <1>6, LockFrame DEF Relay, ReaderGoto, Broadcast, HasSpace
<1>7. ASSUME NEW c \in Client, LockForTyping(c) PROVE LockHeld'
  <2>1. /\ reader[c] = "lock" /\ reader' = [reader EXCEPT ![c] = "type"]
        /\ mu[room[c]] = None /\ mu' = [mu EXCEPT ![room[c]] = c] /\ UNCHANGED <<loop, room>>
    BY <1>7 DEF LockForTyping, ReaderGoto, Lock
  <2>2. room[c] \in Room
    BY <2>1 DEF Wired
  <2> QED
    BY <2>1, <2>2 DEF LockHeld
<1>8. ASSUME NEW c \in Client, HandleTypingEvent(c) PROVE LockHeld'
  <2>1. /\ reader[c] = "type" /\ reader' = [reader EXCEPT ![c] = "read"]
        /\ mu' = [mu EXCEPT ![room[c]] = None] /\ UNCHANGED <<loop, room>>
    BY <1>8 DEF HandleTypingEvent, ReaderGoto, Unlock
  <2>2. room[c] \in Room
    BY <2>1 DEF Wired
  <2>3. mu[room[c]] = c /\ loop[room[c]] \notin {"lookup", "leave"}
    BY <2>1, <2>2 DEF LockHeld
  <2> QED
    BY <2>1, <2>2, <2>3 DEF LockHeld
<1>9. ASSUME NEW c \in Client, Leave(c) PROVE LockHeld'
  BY SMTT(20), <1>9, LockFrame DEF Leave, ReaderGoto, CloseConn
<1>10. ASSUME NEW c \in Client, Write(c) PROVE LockHeld'
  BY <1>10, LockFrame DEF Write
<1>11. ASSUME NEW c \in Client, WriterExit(c) PROVE LockHeld'
  BY <1>11, LockFrame DEF WriterExit, CloseConn
<1>12. ASSUME NEW o \in Room, TakeRegister(o) PROVE LockHeld'
  BY <1>12, LockFrame DEF TakeRegister, Goto
<1>13. ASSUME NEW o \in Room, AddClient(o) PROVE LockHeld'
  BY <1>13, LockFrame DEF AddClient, Goto, Warm
<1>14. ASSUME NEW o \in Room, TellJoin(o) PROVE LockHeld'
  BY SMTT(20), <1>14, LockFrame DEF TellJoin, Goto, Broadcast, HasSpace
<1>15. ASSUME NEW o \in Room, TakeUnregister(o) PROVE LockHeld'
  BY <1>15, LockFrame DEF TakeUnregister, Goto
<1>16. ASSUME NEW o \in Room, DropClient(o) PROVE LockHeld'
  <2>1. /\ loop[o] = "drop" /\ loop' = [loop EXCEPT ![o] = "lookup"]
        /\ mu[o] = None /\ mu' = [mu EXCEPT ![o] = o] /\ UNCHANGED <<reader, room>>
    BY <1>16 DEF DropClient, Goto, Lock, Unseat
  <2>2. mu[o] = None
    BY <2>1 DEF LockHeld
  <2>3. \A d \in Client : mu[o] # d /\ mu'[o] # d
    BY <2>1, <2>2
  <2> QED
    BY SMTT(20), <2>1, <2>2, <2>3 DEF LockHeld
<1>17. ASSUME NEW o \in Room, DropUnknown(o) PROVE LockHeld'
  BY <1>17, LockFrame DEF DropUnknown, Goto
<1>18. ASSUME NEW o \in Room, LookupLeave(o) PROVE LockHeld'
  <2>1. loop[o] = "lookup" /\ UNCHANGED <<reader, room>>
    BY <1>18 DEF LookupLeave
  <2>2. mu[o] = o /\ \A d \in Client : mu[o] # d
    BY <2>1 DEF LockHeld
  <2>3. CASE loop' = [loop EXCEPT ![o] = "check"] /\ mu' = [mu EXCEPT ![o] = None]
    BY SMTT(20), <2>1, <2>2, <2>3 DEF LockHeld
  <2>4. CASE loop' = [loop EXCEPT ![o] = "leave"] /\ mu' = mu
    BY <2>1, <2>2, <2>4 DEF LockHeld
  <2> QED
    BY <1>18, <2>3, <2>4 DEF LookupLeave, Goto, Unlock
<1>19. ASSUME NEW o \in Room, TellLeave(o) PROVE LockHeld'
  <2>1. /\ loop[o] = "leave" /\ loop' = [loop EXCEPT ![o] = "check"]
        /\ mu' = [mu EXCEPT ![o] = None] /\ UNCHANGED <<reader, room>>
    BY <1>19 DEF TellLeave, Goto, Broadcast, HasSpace, Unlock
  <2>2. mu[o] = o
    BY <2>1 DEF LockHeld
  <2>3. \A d \in Client : mu[o] # d /\ mu'[o] # d
    BY <2>1, <2>2
  <2> QED
    BY SMTT(20), <2>1, <2>2, <2>3 DEF LockHeld
<1>20. ASSUME NEW o \in Room, CheckEmpty(o) PROVE LockHeld'
  BY <1>20, LockFrame DEF CheckEmpty, Goto
<1>21. ASSUME NEW o \in Room, TakeBroadcast(o) PROVE LockHeld'
  BY <1>21, LockFrame DEF TakeBroadcast, Goto, Warm
<1>22. ASSUME NEW o \in Room, FanOut(o) PROVE LockHeld'
  BY <1>22, LockFrame DEF FanOut, Goto
<1>23. ASSUME NEW o \in Room, Tick(o) PROVE LockHeld'
  BY <1>23, LockFrame DEF Tick, Goto
<1>24. ASSUME NEW o \in Room, Sweep(o) PROVE LockHeld'
  BY <1>24, LockFrame DEF Sweep, Goto
<1>25. ASSUME NEW id \in RoomID, Wake(id) PROVE LockHeld'
  BY <1>25, LockFrame DEF Wake
<1>26. CASE RemoveRoom
  BY <1>26, LockFrame DEF RemoveRoom, Unmap
<1>27. CASE CloseRoom
  BY <1>27, LockFrame DEF CloseRoom
<1>28. ASSUME NEW id \in RoomID, Cool(id) PROVE LockHeld'
  BY <1>28, LockFrame DEF Cool
<1>29. CASE EvictColdRooms
  BY <1>29, LockFrame DEF EvictColdRooms, Cold
<1>30. CASE SubscribeToPubSub
  BY <1>30, LockFrame DEF SubscribeToPubSub
<1>31. CASE Stop
  BY <1>31, LockFrame DEF Stop, CloseMapped, Mapped
<1>32. CASE StartReturns
  BY <1>32, LockFrame DEF StartReturns, CloseMapped, Mapped
<1>33. CASE EvictReturns
  BY <1>33, LockFrame DEF EvictReturns
<1>37. CASE Start
  BY <1>37, LockFrame DEF Start
<1>34. ASSUME NEW id \in RoomID, BroadcastMessage(id) PROVE LockHeld'
  BY <1>34, LockFrame DEF BroadcastMessage
<1>35. CASE SyncSend
  BY <1>35, LockFrame DEF SyncSend, Broadcast, HasSpace
<1>36. CASE UNCHANGED vars
  BY <1>36, LockFrame DEF vars
<1> QED
  BY <1>1, <1>2, <1>3, <1>4, <1>5, <1>6, <1>7, <1>8, <1>9, <1>10, <1>11, <1>12, <1>13, <1>14, <1>15,
     <1>16, <1>17, <1>18, <1>19, <1>20, <1>21, <1>22, <1>23, <1>24, <1>25, <1>26, <1>27, <1>28,
     <1>29, <1>30, <1>31, <1>32, <1>33, <1>34, <1>35, <1>36, <1>37 DEF Next, Connection, ReadPump,
     WritePump, HandleRoom, ManagerStep, SyncLoop
(* Every step keeps track of the mapped rooms. *)
LEMMA TrackedStep == TypeOK /\ MappedRoomTracked /\ [Next]_vars => MappedRoomTracked'
<1> SUFFICES ASSUME TypeOK, MappedRoomTracked, [Next]_vars PROVE MappedRoomTracked'
  OBVIOUS
<1> USE Capacities DEF TypeOK, MappedRoomTracked, mapVars, startVars, stopVars, queueVars, eventVars, loopVars, pumpVars, restVars
<1>1. ASSUME NEW c \in Client, NEW id \in RoomID, GetOrCreateRoom(c, id) PROVE MappedRoomTracked'
  BY <1>1 DEF GetOrCreateRoom, Warm, Goto
<1>2. ASSUME NEW c \in Client, StartPumps(c) PROVE MappedRoomTracked'
  BY <1>2 DEF StartPumps
<1>3. ASSUME NEW c \in Client, Register(c) PROVE MappedRoomTracked'
  BY <1>3 DEF Register
<1>4. ASSUME NEW c \in Client, ReadEvent(c) PROVE MappedRoomTracked'
  BY <1>4 DEF ReadEvent, ReaderGoto
<1>5. ASSUME NEW c \in Client, ReadFail(c) PROVE MappedRoomTracked'
  BY <1>5 DEF ReadFail, ReaderGoto
<1>6. ASSUME NEW c \in Client, Relay(c) PROVE MappedRoomTracked'
  BY <1>6 DEF Relay, ReaderGoto, Broadcast, HasSpace
<1>7. ASSUME NEW c \in Client, LockForTyping(c) PROVE MappedRoomTracked'
  BY <1>7 DEF LockForTyping, ReaderGoto, Lock
<1>8. ASSUME NEW c \in Client, HandleTypingEvent(c) PROVE MappedRoomTracked'
  BY <1>8 DEF HandleTypingEvent, ReaderGoto, Broadcast, HasSpace, Unlock
<1>9. ASSUME NEW c \in Client, Leave(c) PROVE MappedRoomTracked'
  BY <1>9 DEF Leave, ReaderGoto, CloseConn
<1>10. ASSUME NEW c \in Client, Write(c) PROVE MappedRoomTracked'
  BY <1>10 DEF Write
<1>11. ASSUME NEW c \in Client, WriterExit(c) PROVE MappedRoomTracked'
  BY <1>11 DEF WriterExit, CloseConn
<1>12. ASSUME NEW o \in Room, TakeRegister(o) PROVE MappedRoomTracked'
  BY <1>12 DEF TakeRegister, Goto
<1>13. ASSUME NEW o \in Room, AddClient(o) PROVE MappedRoomTracked'
  BY <1>13 DEF AddClient, Goto, Warm
<1>14. ASSUME NEW o \in Room, TellJoin(o) PROVE MappedRoomTracked'
  BY <1>14 DEF TellJoin, Goto, Broadcast, HasSpace
<1>15. ASSUME NEW o \in Room, TakeUnregister(o) PROVE MappedRoomTracked'
  BY <1>15 DEF TakeUnregister, Goto
<1>16. ASSUME NEW o \in Room, DropClient(o) PROVE MappedRoomTracked'
  BY <1>16 DEF DropClient, Goto, Lock, Unseat
<1>17. ASSUME NEW o \in Room, DropUnknown(o) PROVE MappedRoomTracked'
  BY <1>17 DEF DropUnknown, Goto
<1>18. ASSUME NEW o \in Room, LookupLeave(o) PROVE MappedRoomTracked'
  BY <1>18 DEF LookupLeave, Goto, Unlock
<1>19. ASSUME NEW o \in Room, TellLeave(o) PROVE MappedRoomTracked'
  BY <1>19 DEF TellLeave, Goto, Broadcast, HasSpace, Unlock
<1>20. ASSUME NEW o \in Room, CheckEmpty(o) PROVE MappedRoomTracked'
  BY <1>20 DEF CheckEmpty, Goto
<1>21. ASSUME NEW o \in Room, TakeBroadcast(o) PROVE MappedRoomTracked'
  BY <1>21 DEF TakeBroadcast, Goto, Warm
<1>22. ASSUME NEW o \in Room, FanOut(o) PROVE MappedRoomTracked'
  BY <1>22 DEF FanOut, Goto
<1>23. ASSUME NEW o \in Room, Tick(o) PROVE MappedRoomTracked'
  BY <1>23 DEF Tick, Goto
<1>24. ASSUME NEW o \in Room, Sweep(o) PROVE MappedRoomTracked'
  BY <1>24 DEF Sweep, Goto
<1>25. ASSUME NEW id \in RoomID, Wake(id) PROVE MappedRoomTracked'
  BY <1>25 DEF Wake
<1>26. CASE RemoveRoom
  BY <1>26 DEF RemoveRoom, Unmap
<1>27. CASE CloseRoom
  BY <1>27 DEF CloseRoom
<1>28. ASSUME NEW id \in RoomID, Cool(id) PROVE MappedRoomTracked'
  BY <1>28 DEF Cool
<1>29. CASE EvictColdRooms
  BY <1>29 DEF EvictColdRooms, Cold
<1>30. CASE SubscribeToPubSub
  BY <1>30 DEF SubscribeToPubSub
<1>31. CASE Stop
  BY <1>31 DEF Stop, CloseMapped, Mapped
<1>32. CASE StartReturns
  BY <1>32 DEF StartReturns, CloseMapped, Mapped
<1>33. CASE EvictReturns
  BY <1>33 DEF EvictReturns
<1>37. CASE Start
  BY <1>37 DEF Start
<1>34. ASSUME NEW id \in RoomID, BroadcastMessage(id) PROVE MappedRoomTracked'
  BY <1>34 DEF BroadcastMessage
<1>35. CASE SyncSend
  BY <1>35 DEF SyncSend, Broadcast, HasSpace
<1>36. CASE UNCHANGED vars
  BY <1>36 DEF vars
<1> QED
  BY <1>1, <1>2, <1>3, <1>4, <1>5, <1>6, <1>7, <1>8, <1>9, <1>10, <1>11, <1>12, <1>13, <1>14, <1>15,
     <1>16, <1>17, <1>18, <1>19, <1>20, <1>21, <1>22, <1>23, <1>24, <1>25, <1>26, <1>27, <1>28,
     <1>29, <1>30, <1>31, <1>32, <1>33, <1>34, <1>35, <1>36, <1>37 DEF Next, Connection, ReadPump,
     WritePump, HandleRoom, ManagerStep, SyncLoop

-----------------------------------------------------------------------------
(* Every step keeps the room being removed unmapped, and open until Stop. *)
LEMMA ClosableStep ==
  TypeOK /\ Wired /\ Closable /\ MappedRoomOpen /\ StopMisses /\ [Next]_vars => Closable'
<1> SUFFICES ASSUME TypeOK, Wired, Closable, MappedRoomOpen, StopMisses, [Next]_vars PROVE Closable'
  OBVIOUS
<1> USE Capacities DEF TypeOK, Wired, Closable, MappedRoomOpen, StartIsOver, StopMisses,
           mapVars, startVars, stopVars, queueVars, eventVars, loopVars, pumpVars, restVars
<1>1. ASSUME NEW c \in Client, NEW id \in RoomID, GetOrCreateRoom(c, id) PROVE Closable'
  BY <1>1 DEF GetOrCreateRoom, Warm, Goto
<1>2. ASSUME NEW c \in Client, StartPumps(c) PROVE Closable'
  BY <1>2 DEF StartPumps
<1>3. ASSUME NEW c \in Client, Register(c) PROVE Closable'
  BY <1>3 DEF Register
<1>4. ASSUME NEW c \in Client, ReadEvent(c) PROVE Closable'
  BY <1>4 DEF ReadEvent, ReaderGoto
<1>5. ASSUME NEW c \in Client, ReadFail(c) PROVE Closable'
  BY <1>5 DEF ReadFail, ReaderGoto
<1>6. ASSUME NEW c \in Client, Relay(c) PROVE Closable'
  BY <1>6 DEF Relay, ReaderGoto, Broadcast, HasSpace
<1>7. ASSUME NEW c \in Client, LockForTyping(c) PROVE Closable'
  BY <1>7 DEF LockForTyping, ReaderGoto, Lock
<1>8. ASSUME NEW c \in Client, HandleTypingEvent(c) PROVE Closable'
  BY <1>8 DEF HandleTypingEvent, ReaderGoto, Broadcast, HasSpace, Unlock
<1>9. ASSUME NEW c \in Client, Leave(c) PROVE Closable'
  BY <1>9 DEF Leave, ReaderGoto, CloseConn
<1>10. ASSUME NEW c \in Client, Write(c) PROVE Closable'
  BY <1>10 DEF Write
<1>11. ASSUME NEW c \in Client, WriterExit(c) PROVE Closable'
  BY <1>11 DEF WriterExit, CloseConn
<1>12. ASSUME NEW o \in Room, TakeRegister(o) PROVE Closable'
  BY <1>12 DEF TakeRegister, Goto
<1>13. ASSUME NEW o \in Room, AddClient(o) PROVE Closable'
  BY <1>13 DEF AddClient, Goto, Warm
<1>14. ASSUME NEW o \in Room, TellJoin(o) PROVE Closable'
  BY <1>14 DEF TellJoin, Goto, Broadcast, HasSpace
<1>15. ASSUME NEW o \in Room, TakeUnregister(o) PROVE Closable'
  BY <1>15 DEF TakeUnregister, Goto
<1>16. ASSUME NEW o \in Room, DropClient(o) PROVE Closable'
  BY <1>16 DEF DropClient, Goto, Lock, Unseat
<1>17. ASSUME NEW o \in Room, DropUnknown(o) PROVE Closable'
  BY <1>17 DEF DropUnknown, Goto
<1>18. ASSUME NEW o \in Room, LookupLeave(o) PROVE Closable'
  BY <1>18 DEF LookupLeave, Goto, Unlock
<1>19. ASSUME NEW o \in Room, TellLeave(o) PROVE Closable'
  BY <1>19 DEF TellLeave, Goto, Broadcast, HasSpace, Unlock
<1>20. ASSUME NEW o \in Room, CheckEmpty(o) PROVE Closable'
  BY <1>20 DEF CheckEmpty, Goto
<1>21. ASSUME NEW o \in Room, TakeBroadcast(o) PROVE Closable'
  BY <1>21 DEF TakeBroadcast, Goto, Warm
<1>22. ASSUME NEW o \in Room, FanOut(o) PROVE Closable'
  BY <1>22 DEF FanOut, Goto
<1>23. ASSUME NEW o \in Room, Tick(o) PROVE Closable'
  BY <1>23 DEF Tick, Goto
<1>24. ASSUME NEW o \in Room, Sweep(o) PROVE Closable'
  BY <1>24 DEF Sweep, Goto
<1>25. ASSUME NEW id \in RoomID, Wake(id) PROVE Closable'
  BY <1>25 DEF Wake
<1>26. CASE RemoveRoom
  BY <1>26 DEF RemoveRoom, Unmap
<1>27. CASE CloseRoom
  BY <1>27 DEF CloseRoom
<1>28. ASSUME NEW id \in RoomID, Cool(id) PROVE Closable'
  BY <1>28 DEF Cool
<1>29. CASE EvictColdRooms
  BY <1>29 DEF EvictColdRooms, Cold
<1>30. CASE SubscribeToPubSub
  BY <1>30 DEF SubscribeToPubSub
<1>31. CASE Stop
  BY <1>31 DEF Stop, CloseMapped, Mapped
<1>32. CASE StartReturns
  BY <1>32 DEF StartReturns, CloseMapped, Mapped
<1>33. CASE EvictReturns
  BY <1>33 DEF EvictReturns
<1>37. CASE Start
  BY <1>37 DEF Start
<1>34. ASSUME NEW id \in RoomID, BroadcastMessage(id) PROVE Closable'
  BY <1>34 DEF BroadcastMessage
<1>35. CASE SyncSend
  BY <1>35 DEF SyncSend, Broadcast, HasSpace
<1>36. CASE UNCHANGED vars
  BY <1>36 DEF vars
<1> QED
  BY <1>1, <1>2, <1>3, <1>4, <1>5, <1>6, <1>7, <1>8, <1>9, <1>10, <1>11, <1>12, <1>13, <1>14, <1>15,
     <1>16, <1>17, <1>18, <1>19, <1>20, <1>21, <1>22, <1>23, <1>24, <1>25, <1>26, <1>27, <1>28,
     <1>29, <1>30, <1>31, <1>32, <1>33, <1>34, <1>35, <1>36, <1>37 DEF Next, Connection, ReadPump,
     WritePump, HandleRoom, ManagerStep, SyncLoop

(* Every step keeps the rooms that can be found open, until Stop. *)
LEMMA MappedStep ==
  TypeOK /\ Wired /\ Closable /\ MappedRoomOpen /\ StopMisses /\ [Next]_vars => MappedRoomOpen'
<1> SUFFICES ASSUME TypeOK, Wired, Closable, MappedRoomOpen, StopMisses, [Next]_vars PROVE MappedRoomOpen'
  OBVIOUS
<1> USE Capacities DEF TypeOK, Wired, Closable, MappedRoomOpen, StartIsOver, StopMisses,
           mapVars, startVars, stopVars, queueVars, eventVars, loopVars, pumpVars, restVars
<1>1. ASSUME NEW c \in Client, NEW id \in RoomID, GetOrCreateRoom(c, id) PROVE MappedRoomOpen'
  BY SMTT(20), <1>1 DEF GetOrCreateRoom, Warm, Goto
<1>2. ASSUME NEW c \in Client, StartPumps(c) PROVE MappedRoomOpen'
  BY <1>2 DEF StartPumps
<1>3. ASSUME NEW c \in Client, Register(c) PROVE MappedRoomOpen'
  BY <1>3 DEF Register
<1>4. ASSUME NEW c \in Client, ReadEvent(c) PROVE MappedRoomOpen'
  BY <1>4 DEF ReadEvent, ReaderGoto
<1>5. ASSUME NEW c \in Client, ReadFail(c) PROVE MappedRoomOpen'
  BY <1>5 DEF ReadFail, ReaderGoto
<1>6. ASSUME NEW c \in Client, Relay(c) PROVE MappedRoomOpen'
  BY <1>6 DEF Relay, ReaderGoto, Broadcast, HasSpace
<1>7. ASSUME NEW c \in Client, LockForTyping(c) PROVE MappedRoomOpen'
  BY <1>7 DEF LockForTyping, ReaderGoto, Lock
<1>8. ASSUME NEW c \in Client, HandleTypingEvent(c) PROVE MappedRoomOpen'
  BY <1>8 DEF HandleTypingEvent, ReaderGoto, Broadcast, HasSpace, Unlock
<1>9. ASSUME NEW c \in Client, Leave(c) PROVE MappedRoomOpen'
  BY <1>9 DEF Leave, ReaderGoto, CloseConn
<1>10. ASSUME NEW c \in Client, Write(c) PROVE MappedRoomOpen'
  BY <1>10 DEF Write
<1>11. ASSUME NEW c \in Client, WriterExit(c) PROVE MappedRoomOpen'
  BY <1>11 DEF WriterExit, CloseConn
<1>12. ASSUME NEW o \in Room, TakeRegister(o) PROVE MappedRoomOpen'
  BY <1>12 DEF TakeRegister, Goto
<1>13. ASSUME NEW o \in Room, AddClient(o) PROVE MappedRoomOpen'
  BY <1>13 DEF AddClient, Goto, Warm
<1>14. ASSUME NEW o \in Room, TellJoin(o) PROVE MappedRoomOpen'
  BY <1>14 DEF TellJoin, Goto, Broadcast, HasSpace
<1>15. ASSUME NEW o \in Room, TakeUnregister(o) PROVE MappedRoomOpen'
  BY <1>15 DEF TakeUnregister, Goto
<1>16. ASSUME NEW o \in Room, DropClient(o) PROVE MappedRoomOpen'
  BY <1>16 DEF DropClient, Goto, Lock, Unseat
<1>17. ASSUME NEW o \in Room, DropUnknown(o) PROVE MappedRoomOpen'
  BY <1>17 DEF DropUnknown, Goto
<1>18. ASSUME NEW o \in Room, LookupLeave(o) PROVE MappedRoomOpen'
  BY <1>18 DEF LookupLeave, Goto, Unlock
<1>19. ASSUME NEW o \in Room, TellLeave(o) PROVE MappedRoomOpen'
  BY <1>19 DEF TellLeave, Goto, Broadcast, HasSpace, Unlock
<1>20. ASSUME NEW o \in Room, CheckEmpty(o) PROVE MappedRoomOpen'
  BY <1>20 DEF CheckEmpty, Goto
<1>21. ASSUME NEW o \in Room, TakeBroadcast(o) PROVE MappedRoomOpen'
  BY <1>21 DEF TakeBroadcast, Goto, Warm
<1>22. ASSUME NEW o \in Room, FanOut(o) PROVE MappedRoomOpen'
  BY <1>22 DEF FanOut, Goto
<1>23. ASSUME NEW o \in Room, Tick(o) PROVE MappedRoomOpen'
  BY <1>23 DEF Tick, Goto
<1>24. ASSUME NEW o \in Room, Sweep(o) PROVE MappedRoomOpen'
  BY <1>24 DEF Sweep, Goto
<1>25. ASSUME NEW id \in RoomID, Wake(id) PROVE MappedRoomOpen'
  BY <1>25 DEF Wake
<1>26. CASE RemoveRoom
  BY <1>26 DEF RemoveRoom, Unmap
<1>27. CASE CloseRoom
  BY <1>27 DEF CloseRoom
<1>28. ASSUME NEW id \in RoomID, Cool(id) PROVE MappedRoomOpen'
  BY <1>28 DEF Cool
<1>29. CASE EvictColdRooms
  BY <1>29 DEF EvictColdRooms, Cold
<1>30. CASE SubscribeToPubSub
  BY <1>30 DEF SubscribeToPubSub
<1>31. CASE Stop
  BY <1>31 DEF Stop, CloseMapped, Mapped
<1>32. CASE StartReturns
  BY <1>32 DEF StartReturns, CloseMapped, Mapped
<1>33. CASE EvictReturns
  BY <1>33 DEF EvictReturns
<1>37. CASE Start
  BY <1>37 DEF Start
<1>34. ASSUME NEW id \in RoomID, BroadcastMessage(id) PROVE MappedRoomOpen'
  BY <1>34 DEF BroadcastMessage
<1>35. CASE SyncSend
  BY <1>35 DEF SyncSend, Broadcast, HasSpace
<1>36. CASE UNCHANGED vars
  BY <1>36 DEF vars
<1> QED
  BY <1>1, <1>2, <1>3, <1>4, <1>5, <1>6, <1>7, <1>8, <1>9, <1>10, <1>11, <1>12, <1>13, <1>14, <1>15,
     <1>16, <1>17, <1>18, <1>19, <1>20, <1>21, <1>22, <1>23, <1>24, <1>25, <1>26, <1>27, <1>28,
     <1>29, <1>30, <1>31, <1>32, <1>33, <1>34, <1>35, <1>36, <1>37 DEF Next, Connection, ReadPump,
     WritePump, HandleRoom, ManagerStep, SyncLoop

(* No step panics before Stop, but for a send to the channel of a removed room. *)
LEMMA PanicStep ==
  TypeOK /\ Wired /\ Seated /\ Closable /\ MappedRoomOpen /\ StopMisses /\ OnlySendsPanic /\ [Next]_vars
    => OnlySendsPanic'
<1> SUFFICES ASSUME TypeOK, Wired, Seated, Closable, MappedRoomOpen, StopMisses, OnlySendsPanic, [Next]_vars
             PROVE  OnlySendsPanic'
  OBVIOUS
<1> USE Capacities DEF TypeOK, Seated, SeatedIn, Closable, MappedRoomOpen, StartIsOver, StopMisses, OnlySendsPanic,
           mapVars, startVars, stopVars, queueVars, eventVars, loopVars, pumpVars, restVars
<1>1. ASSUME NEW c \in Client, NEW id \in RoomID, GetOrCreateRoom(c, id) PROVE OnlySendsPanic'
  BY <1>1 DEF GetOrCreateRoom, Warm, Goto
<1>2. ASSUME NEW c \in Client, StartPumps(c) PROVE OnlySendsPanic'
  BY <1>2 DEF StartPumps
<1>3. ASSUME NEW c \in Client, Register(c) PROVE OnlySendsPanic'
  BY <1>3 DEF Register
<1>4. ASSUME NEW c \in Client, ReadEvent(c) PROVE OnlySendsPanic'
  BY <1>4 DEF ReadEvent, ReaderGoto
<1>5. ASSUME NEW c \in Client, ReadFail(c) PROVE OnlySendsPanic'
  BY <1>5 DEF ReadFail, ReaderGoto
<1>6. ASSUME NEW c \in Client, Relay(c) PROVE OnlySendsPanic'
  <2>1. room[c] \in Room
    BY <1>6 DEF Relay, Wired
  <2> QED
    BY <1>6, <2>1 DEF Relay, ReaderGoto, Broadcast, HasSpace
<1>7. ASSUME NEW c \in Client, LockForTyping(c) PROVE OnlySendsPanic'
  BY <1>7 DEF LockForTyping, ReaderGoto, Lock
<1>8. ASSUME NEW c \in Client, HandleTypingEvent(c) PROVE OnlySendsPanic'
  <2>1. room[c] \in Room
    BY <1>8 DEF HandleTypingEvent, Wired
  <2> QED
    BY <1>8, <2>1 DEF HandleTypingEvent, ReaderGoto, Broadcast, HasSpace, Unlock
<1>9. ASSUME NEW c \in Client, Leave(c) PROVE OnlySendsPanic'
  BY <1>9 DEF Leave, ReaderGoto, CloseConn
<1>10. ASSUME NEW c \in Client, Write(c) PROVE OnlySendsPanic'
  BY <1>10 DEF Write
<1>11. ASSUME NEW c \in Client, WriterExit(c) PROVE OnlySendsPanic'
  BY <1>11 DEF WriterExit, CloseConn
<1>12. ASSUME NEW o \in Room, TakeRegister(o) PROVE OnlySendsPanic'
  BY <1>12 DEF TakeRegister, Goto
<1>13. ASSUME NEW o \in Room, AddClient(o) PROVE OnlySendsPanic'
  BY <1>13 DEF AddClient, Goto, Warm
<1>14. ASSUME NEW o \in Room, TellJoin(o) PROVE OnlySendsPanic'
  <2>1. dest[o] \in Room
    BY <1>14 DEF TellJoin, Wired
  <2> QED
    BY <1>14, <2>1 DEF TellJoin, Goto, Broadcast, HasSpace
<1>15. ASSUME NEW o \in Room, TakeUnregister(o) PROVE OnlySendsPanic'
  BY <1>15 DEF TakeUnregister, Goto
<1>16. ASSUME NEW o \in Room, DropClient(o) PROVE OnlySendsPanic'
  BY <1>16 DEF DropClient, Goto, Lock, Unseat
<1>17. ASSUME NEW o \in Room, DropUnknown(o) PROVE OnlySendsPanic'
  BY <1>17 DEF DropUnknown, Goto
<1>18. ASSUME NEW o \in Room, LookupLeave(o) PROVE OnlySendsPanic'
  BY <1>18 DEF LookupLeave, Goto, Unlock
<1>19. ASSUME NEW o \in Room, TellLeave(o) PROVE OnlySendsPanic'
  <2>1. dest[o] \in Room
    BY <1>19 DEF TellLeave, Wired
  <2> QED
    BY <1>19, <2>1 DEF TellLeave, Goto, Broadcast, HasSpace, Unlock
<1>20. ASSUME NEW o \in Room, CheckEmpty(o) PROVE OnlySendsPanic'
  BY <1>20 DEF CheckEmpty, Goto
<1>21. ASSUME NEW o \in Room, TakeBroadcast(o) PROVE OnlySendsPanic'
  BY <1>21 DEF TakeBroadcast, Goto, Warm
<1>22. ASSUME NEW o \in Room, FanOut(o) PROVE OnlySendsPanic'
  BY <1>22 DEF FanOut, Goto
<1>23. ASSUME NEW o \in Room, Tick(o) PROVE OnlySendsPanic'
  BY <1>23 DEF Tick, Goto
<1>24. ASSUME NEW o \in Room, Sweep(o) PROVE OnlySendsPanic'
  BY <1>24 DEF Sweep, Goto
<1>25. ASSUME NEW id \in RoomID, Wake(id) PROVE OnlySendsPanic'
  BY <1>25 DEF Wake
<1>26. CASE RemoveRoom
  BY <1>26 DEF RemoveRoom, Unmap
<1>27. CASE CloseRoom
  BY <1>27 DEF CloseRoom
<1>28. ASSUME NEW id \in RoomID, Cool(id) PROVE OnlySendsPanic'
  BY <1>28 DEF Cool
<1>29. CASE EvictColdRooms
  BY <1>29 DEF EvictColdRooms, Cold
<1>30. CASE SubscribeToPubSub
  BY <1>30 DEF SubscribeToPubSub
<1>31. CASE Stop
  BY <1>31 DEF Stop, CloseMapped, Mapped
<1>32. CASE StartReturns
  BY <1>32 DEF StartReturns, CloseMapped, Mapped
<1>33. CASE EvictReturns
  BY <1>33 DEF EvictReturns
<1>37. CASE Start
  BY <1>37 DEF Start
<1>34. ASSUME NEW id \in RoomID, BroadcastMessage(id) PROVE OnlySendsPanic'
  BY <1>34 DEF BroadcastMessage
<1>35. CASE SyncSend
  BY <1>35 DEF SyncSend, Broadcast, HasSpace
<1>36. CASE UNCHANGED vars
  BY <1>36 DEF vars
<1> QED
  BY <1>1, <1>2, <1>3, <1>4, <1>5, <1>6, <1>7, <1>8, <1>9, <1>10, <1>11, <1>12, <1>13, <1>14, <1>15,
     <1>16, <1>17, <1>18, <1>19, <1>20, <1>21, <1>22, <1>23, <1>24, <1>25, <1>26, <1>27, <1>28,
     <1>29, <1>30, <1>31, <1>32, <1>33, <1>34, <1>35, <1>36, <1>37 DEF Next, Connection, ReadPump,
     WritePump, HandleRoom, ManagerStep, SyncLoop

(* Every step keeps the goroutines of rooms to the rooms of their id: what they looked up *)
(* is mapped to their id, and the id of a room never changes.                             *)
LEMMA OwnStep == TypeOK /\ Wired /\ OwnRoom /\ MappedRoomOpen /\ [Next]_vars => OwnRoom'
<1> SUFFICES ASSUME TypeOK, Wired, OwnRoom, MappedRoomOpen, [Next]_vars PROVE OwnRoom'
  OBVIOUS
<1> USE Capacities DEF TypeOK, Wired, OwnRoom, MappedRoomOpen,
           mapVars, startVars, stopVars, queueVars, eventVars, loopVars, pumpVars, restVars
<1>1. ASSUME NEW c \in Client, NEW id \in RoomID, GetOrCreateRoom(c, id) PROVE OwnRoom'
  <2>1. UNCHANGED <<mu, dest>>
    BY <1>1 DEF GetOrCreateRoom
  <2>2. home' = home \/ \E q \in Room : home[q] = None /\ home' = [home EXCEPT ![q] = id]
    BY <1>1 DEF GetOrCreateRoom
  <2>3. \A p \in Room : home[p] # None => home'[p] = home[p]
    BY <2>2
  <2>4. ASSUME NEW p \in Room, dest[p] # None PROVE home'[p] # None /\ home'[dest[p]] = home'[p]
    <3>1. dest[p] \in Room /\ home[p] # None /\ home[dest[p]] = home[p]
      BY <2>4
    <3> QED
      BY <2>3, <3>1
  <2> QED
    BY <2>1, <2>4
<1>2. ASSUME NEW c \in Client, StartPumps(c) PROVE OwnRoom'
  BY <1>2 DEF StartPumps
<1>3. ASSUME NEW c \in Client, Register(c) PROVE OwnRoom'
  BY <1>3 DEF Register
<1>4. ASSUME NEW c \in Client, ReadEvent(c) PROVE OwnRoom'
  BY <1>4 DEF ReadEvent, ReaderGoto
<1>5. ASSUME NEW c \in Client, ReadFail(c) PROVE OwnRoom'
  BY <1>5 DEF ReadFail, ReaderGoto
<1>6. ASSUME NEW c \in Client, Relay(c) PROVE OwnRoom'
  BY <1>6 DEF Relay, ReaderGoto, Broadcast, HasSpace
<1>7. ASSUME NEW c \in Client, LockForTyping(c) PROVE OwnRoom'
  <2>1. UNCHANGED <<home, dest>> /\ mu' = [mu EXCEPT ![room[c]] = c]
    BY <1>7 DEF LockForTyping, Lock
  <2> HIDE DEF Wired, MappedRoomOpen
  <2> QED
    BY <2>1
<1>8. ASSUME NEW c \in Client, HandleTypingEvent(c) PROVE OwnRoom'
  <2>1. UNCHANGED <<home, dest>> /\ mu' = [mu EXCEPT ![room[c]] = None]
    BY <1>8 DEF HandleTypingEvent, Unlock
  <2> QED
    BY <2>1
<1>9. ASSUME NEW c \in Client, Leave(c) PROVE OwnRoom'
  BY <1>9 DEF Leave, ReaderGoto, CloseConn
<1>10. ASSUME NEW c \in Client, Write(c) PROVE OwnRoom'
  BY <1>10 DEF Write
<1>11. ASSUME NEW c \in Client, WriterExit(c) PROVE OwnRoom'
  BY <1>11 DEF WriterExit, CloseConn
<1>12. ASSUME NEW o \in Room, TakeRegister(o) PROVE OwnRoom'
  BY <1>12 DEF TakeRegister, Goto
<1>13. ASSUME NEW o \in Room, AddClient(o) PROVE OwnRoom'
  <2>1. home[o] \in RoomID
    BY <1>13 DEF AddClient
  <2>2. rooms[home[o]] # None => home[rooms[home[o]]] = home[o]
    BY <2>1
  <2>3. home' = home /\ dest' = [dest EXCEPT ![o] = rooms[home[o]]] /\ mu' = mu
    BY <1>13 DEF AddClient
  <2>4. home[o] # None
    BY <2>1
  <2>5. ASSUME NEW p \in Room, dest'[p] # None PROVE home[p] # None /\ home[dest'[p]] = home[p]
    <3>1. CASE p = o
      <4>1. dest'[o] = rooms[home[o]]
        BY <2>3
      <4> QED
        BY <2>2, <2>4, <2>5, <3>1, <4>1
    <3>2. CASE p # o
      <4>1. dest'[p] = dest[p]
        BY <2>3, <3>2
      <4> QED
        BY <2>5, <4>1
    <3> QED
      BY <3>1, <3>2
  <2> HIDE DEF TypeOK, Wired, MappedRoomOpen
  <2> QED
    BY <2>3, <2>5
<1>14. ASSUME NEW o \in Room, TellJoin(o) PROVE OwnRoom'
  <2>1. home' = home /\ dest' = [dest EXCEPT ![o] = None] /\ mu' = mu
    BY <1>14 DEF TellJoin
  <2> QED
    BY <2>1
<1>15. ASSUME NEW o \in Room, TakeUnregister(o) PROVE OwnRoom'
  BY <1>15 DEF TakeUnregister, Goto
<1>16. ASSUME NEW o \in Room, DropClient(o) PROVE OwnRoom'
  <2>1. UNCHANGED <<home, dest>> /\ mu' = [mu EXCEPT ![o] = o]
    BY <1>16 DEF DropClient, Lock
  <2> QED
    BY <2>1
<1>17. ASSUME NEW o \in Room, DropUnknown(o) PROVE OwnRoom'
  BY <1>17 DEF DropUnknown, Goto
<1>18. ASSUME NEW o \in Room, LookupLeave(o) PROVE OwnRoom'
  <2>1. home[o] \in RoomID
    BY <1>18 DEF LookupLeave
  <2>2. rooms[home[o]] # None => home[rooms[home[o]]] = home[o]
    BY <2>1
  <2>3. home' = home /\ dest' = [dest EXCEPT ![o] = rooms[home[o]]] /\ (mu' = mu \/ mu' = [mu EXCEPT ![o] = None])
    BY <1>18 DEF LookupLeave, Unlock
  <2>4. ASSUME NEW p \in Room PROVE mu'[p] \in Client \cup {p, None}
    <3>1. mu'[p] = mu[p] \/ mu'[p] = None
      BY <2>3
    <3> QED
      BY <3>1
  <2>5. \A p \in Room : dest'[p] # None => home[p] # None /\ home[dest'[p]] = home[p]
    BY <2>1, <2>2, <2>3
  <2> QED
    BY <2>3, <2>4, <2>5
<1>19. ASSUME NEW o \in Room, TellLeave(o) PROVE OwnRoom'
  <2>1. home' = home /\ dest' = [dest EXCEPT ![o] = None] /\ mu' = [mu EXCEPT ![o] = None]
    BY <1>19 DEF TellLeave, Unlock
  <2> QED
    BY <2>1
<1>20. ASSUME NEW o \in Room, CheckEmpty(o) PROVE OwnRoom'
  BY <1>20 DEF CheckEmpty, Goto
<1>21. ASSUME NEW o \in Room, TakeBroadcast(o) PROVE OwnRoom'
  BY <1>21 DEF TakeBroadcast, Goto, Warm
<1>22. ASSUME NEW o \in Room, FanOut(o) PROVE OwnRoom'
  BY <1>22 DEF FanOut, Goto
<1>23. ASSUME NEW o \in Room, Tick(o) PROVE OwnRoom'
  BY <1>23 DEF Tick, Goto
<1>24. ASSUME NEW o \in Room, Sweep(o) PROVE OwnRoom'
  BY <1>24 DEF Sweep, Goto
<1>25. ASSUME NEW id \in RoomID, Wake(id) PROVE OwnRoom'
  BY <1>25 DEF Wake
<1>26. CASE RemoveRoom
  BY <1>26 DEF RemoveRoom, Unmap
<1>27. CASE CloseRoom
  BY <1>27 DEF CloseRoom
<1>28. ASSUME NEW id \in RoomID, Cool(id) PROVE OwnRoom'
  BY <1>28 DEF Cool
<1>29. CASE EvictColdRooms
  BY <1>29 DEF EvictColdRooms, Cold
<1>30. CASE SubscribeToPubSub
  BY <1>30 DEF SubscribeToPubSub
<1>31. CASE Stop
  BY <1>31 DEF Stop, CloseMapped, Mapped
<1>32. CASE StartReturns
  BY <1>32 DEF StartReturns, CloseMapped, Mapped
<1>33. CASE EvictReturns
  BY <1>33 DEF EvictReturns
<1>37. CASE Start
  BY <1>37 DEF Start
<1>34. ASSUME NEW id \in RoomID, BroadcastMessage(id) PROVE OwnRoom'
  BY <1>34 DEF BroadcastMessage
<1>35. CASE SyncSend
  BY <1>35 DEF SyncSend, Broadcast, HasSpace
<1>36. CASE UNCHANGED vars
  BY <1>36 DEF vars
<1> QED
  BY <1>1, <1>2, <1>3, <1>4, <1>5, <1>6, <1>7, <1>8, <1>9, <1>10, <1>11, <1>12, <1>13, <1>14, <1>15,
     <1>16, <1>17, <1>18, <1>19, <1>20, <1>21, <1>22, <1>23, <1>24, <1>25, <1>26, <1>27, <1>28,
     <1>29, <1>30, <1>31, <1>32, <1>33, <1>34, <1>35, <1>36, <1>37 DEF Next, Connection, ReadPump,
     WritePump, HandleRoom, ManagerStep, SyncLoop

(* No step opens a connection again, and a pump closes it before it ends; no step ends a *)
(* goroutine of the manager before Start's context is cancelled.                         *)
LEMMA EndsStep ==
  TypeOK /\ Wired /\ OverIsClosed /\ StopMisses /\ [Next]_vars => OverIsClosed' /\ StopMisses'
<1> SUFFICES ASSUME TypeOK, Wired, OverIsClosed, StopMisses, [Next]_vars
             PROVE  OverIsClosed' /\ StopMisses'
  OBVIOUS
<1> USE Capacities DEF TypeOK, Wired, OverIsClosed, StopMisses,
           mapVars, startVars, stopVars, queueVars, eventVars, loopVars, pumpVars, restVars
<1>1. ASSUME NEW c \in Client, NEW id \in RoomID, GetOrCreateRoom(c, id) PROVE OverIsClosed' /\ StopMisses'
  BY SMTT(20), <1>1 DEF GetOrCreateRoom, Warm, Goto
<1>2. ASSUME NEW c \in Client, StartPumps(c) PROVE OverIsClosed' /\ StopMisses'
  BY <1>2 DEF StartPumps
<1>3. ASSUME NEW c \in Client, Register(c) PROVE OverIsClosed' /\ StopMisses'
  BY <1>3 DEF Register
<1>4. ASSUME NEW c \in Client, ReadEvent(c) PROVE OverIsClosed' /\ StopMisses'
  BY <1>4 DEF ReadEvent, ReaderGoto
<1>5. ASSUME NEW c \in Client, ReadFail(c) PROVE OverIsClosed' /\ StopMisses'
  BY <1>5 DEF ReadFail, ReaderGoto
<1>6. ASSUME NEW c \in Client, Relay(c) PROVE OverIsClosed' /\ StopMisses'
  BY <1>6 DEF Relay, ReaderGoto, Broadcast, HasSpace
<1>7. ASSUME NEW c \in Client, LockForTyping(c) PROVE OverIsClosed' /\ StopMisses'
  BY <1>7 DEF LockForTyping, ReaderGoto, Lock
<1>8. ASSUME NEW c \in Client, HandleTypingEvent(c) PROVE OverIsClosed' /\ StopMisses'
  BY <1>8 DEF HandleTypingEvent, ReaderGoto, Broadcast, HasSpace, Unlock
<1>9. ASSUME NEW c \in Client, Leave(c) PROVE OverIsClosed' /\ StopMisses'
  BY <1>9 DEF Leave, ReaderGoto, CloseConn
<1>10. ASSUME NEW c \in Client, Write(c) PROVE OverIsClosed' /\ StopMisses'
  BY <1>10 DEF Write
<1>11. ASSUME NEW c \in Client, WriterExit(c) PROVE OverIsClosed' /\ StopMisses'
  BY <1>11 DEF WriterExit, CloseConn
<1>12. ASSUME NEW o \in Room, TakeRegister(o) PROVE OverIsClosed' /\ StopMisses'
  BY <1>12 DEF TakeRegister, Goto
<1>13. ASSUME NEW o \in Room, AddClient(o) PROVE OverIsClosed' /\ StopMisses'
  BY <1>13 DEF AddClient, Goto, Warm
<1>14. ASSUME NEW o \in Room, TellJoin(o) PROVE OverIsClosed' /\ StopMisses'
  BY <1>14 DEF TellJoin, Goto, Broadcast, HasSpace
<1>15. ASSUME NEW o \in Room, TakeUnregister(o) PROVE OverIsClosed' /\ StopMisses'
  BY <1>15 DEF TakeUnregister, Goto
<1>16. ASSUME NEW o \in Room, DropClient(o) PROVE OverIsClosed' /\ StopMisses'
  BY <1>16 DEF DropClient, Goto, Lock, Unseat
<1>17. ASSUME NEW o \in Room, DropUnknown(o) PROVE OverIsClosed' /\ StopMisses'
  BY <1>17 DEF DropUnknown, Goto
<1>18. ASSUME NEW o \in Room, LookupLeave(o) PROVE OverIsClosed' /\ StopMisses'
  BY <1>18 DEF LookupLeave, Goto, Unlock
<1>19. ASSUME NEW o \in Room, TellLeave(o) PROVE OverIsClosed' /\ StopMisses'
  BY <1>19 DEF TellLeave, Goto, Broadcast, HasSpace, Unlock
<1>20. ASSUME NEW o \in Room, CheckEmpty(o) PROVE OverIsClosed' /\ StopMisses'
  BY <1>20 DEF CheckEmpty, Goto
<1>21. ASSUME NEW o \in Room, TakeBroadcast(o) PROVE OverIsClosed' /\ StopMisses'
  BY <1>21 DEF TakeBroadcast, Goto, Warm
<1>22. ASSUME NEW o \in Room, FanOut(o) PROVE OverIsClosed' /\ StopMisses'
  BY <1>22 DEF FanOut, Goto
<1>23. ASSUME NEW o \in Room, Tick(o) PROVE OverIsClosed' /\ StopMisses'
  BY <1>23 DEF Tick, Goto
<1>24. ASSUME NEW o \in Room, Sweep(o) PROVE OverIsClosed' /\ StopMisses'
  BY <1>24 DEF Sweep, Goto
<1>25. ASSUME NEW id \in RoomID, Wake(id) PROVE OverIsClosed' /\ StopMisses'
  BY <1>25 DEF Wake
<1>26. CASE RemoveRoom
  BY <1>26 DEF RemoveRoom, Unmap
<1>27. CASE CloseRoom
  BY <1>27 DEF CloseRoom
<1>28. ASSUME NEW id \in RoomID, Cool(id) PROVE OverIsClosed' /\ StopMisses'
  BY <1>28 DEF Cool
<1>29. CASE EvictColdRooms
  BY <1>29 DEF EvictColdRooms, Cold
<1>30. CASE SubscribeToPubSub
  BY <1>30 DEF SubscribeToPubSub
<1>31. CASE Stop
  BY <1>31 DEF Stop, CloseMapped, Mapped
<1>32. CASE StartReturns
  BY <1>32 DEF StartReturns, CloseMapped, Mapped
<1>33. CASE EvictReturns
  BY <1>33 DEF EvictReturns
<1>37. CASE Start
  BY <1>37 DEF Start
<1>34. ASSUME NEW id \in RoomID, BroadcastMessage(id) PROVE OverIsClosed' /\ StopMisses'
  BY <1>34 DEF BroadcastMessage
<1>35. CASE SyncSend
  BY <1>35 DEF SyncSend, Broadcast, HasSpace
<1>36. CASE UNCHANGED vars
  BY <1>36 DEF vars
<1> QED
  BY <1>1, <1>2, <1>3, <1>4, <1>5, <1>6, <1>7, <1>8, <1>9, <1>10, <1>11, <1>12, <1>13, <1>14, <1>15,
     <1>16, <1>17, <1>18, <1>19, <1>20, <1>21, <1>22, <1>23, <1>24, <1>25, <1>26, <1>27, <1>28,
     <1>29, <1>30, <1>31, <1>32, <1>33, <1>34, <1>35, <1>36, <1>37 DEF Next, Connection, ReadPump,
     WritePump, HandleRoom, ManagerStep, SyncLoop

(* Whoever holds the lock of a room that another goroutine waits for is about to send to it, *)
(* and a send waits for space only.                                                          *)
LEMMA WaitsLemma == TypeOK /\ Wired /\ LockHeld /\ OwnRoom => WaitsAtHome
<1> SUFFICES ASSUME TypeOK, Wired, LockHeld, OwnRoom, NEW o \in Room, Waits(o)
             PROVE  \/ \E c \in Client : mu[o] = c /\ reader[c] = "type" /\ room[c] = o /\ ~Full(o)
                    \/ \E p \in Room : home[p] = home[o] /\ Full(p)
  BY DEF WaitsAtHome
<1>1. CASE loop[o] \in {"add", "drop", "check", "fan", "sweep"} /\ mu[o] # None
  <2>1. PICK c \in Client : mu[o] = c
    BY <1>1 DEF OwnRoom, LockHeld
  <2>2. reader[c] = "type" /\ room[c] = o
    BY <2>1 DEF LockHeld
  <2> QED
    BY <2>1, <2>2
<1>2. CASE loop[o] \in {"join", "leave"} /\ Full(dest[o])
  <2>1. dest[o] \in Room /\ home[dest[o]] = home[o]
    BY <1>2 DEF TypeOK, Wired, OwnRoom
  <2> QED
    BY <1>2, <2>1
<1> QED
  BY <1>1, <1>2 DEF Waits

-----------------------------------------------------------------------------
(* What joins a queue is found at its end, and what was there is still where it was. *)
LEMMA AppendFinds ==
  ASSUME NEW S, NEW s \in Seq(S), NEW e \in S
  PROVE  /\ \A i \in 1..Len(s) : i \in 1..Len(Append(s, e)) /\ Append(s, e)[i] = s[i]
         /\ \E i \in 1..Len(Append(s, e)) : Append(s, e)[i] = e
<1>1. Len(Append(s, e)) = Len(s) + 1 /\ Len(s) \in Nat
  OBVIOUS
<1>2. Append(s, e)[Len(s) + 1] = e /\ Len(s) + 1 \in 1..Len(Append(s, e))
  BY <1>1
<1>3. \A i \in 1..Len(s) : i \in 1..Len(Append(s, e)) /\ Append(s, e)[i] = s[i]
  BY <1>1
<1> QED
  BY <1>2, <1>3

(* What is in a queue is its head or in the rest of it. *)
LEMMA TailFinds ==
  ASSUME NEW S, NEW s \in Seq(S), s # <<>>, NEW i \in 1..Len(s), s[i] # Head(s)
  PROVE  \E j \in 1..Len(Tail(s)) : Tail(s)[j] = s[i]
<1>1. Len(s) \in Nat /\ Len(Tail(s)) = Len(s) - 1 /\ Head(s) = s[1]
  OBVIOUS
<1>2. i > 1 /\ i - 1 \in 1..Len(Tail(s))
  BY <1>1
<1>3. Tail(s)[i - 1] = s[i]
  BY <1>1, <1>2
<1> QED
  BY <1>2, <1>3

(* Every step leaves a leaver on its way out, or takes it out. *)
LEMMA LeavingStep ==
  ASSUME TypeOK, Wired, [Next]_vars, NEW p \in Room, NEW d \in Client, room[d] = p, Leaving(d, p),
         arg[p] = d => ~DropClient(p) /\ ~DropUnknown(p)
  PROVE  Leaving(d, p)'
<1> USE Capacities DEF TypeOK, Wired, Leaving,
           mapVars, startVars, stopVars, queueVars, eventVars, loopVars, pumpVars, restVars
<1>1. ASSUME NEW c \in Client, NEW id \in RoomID, GetOrCreateRoom(c, id) PROVE Leaving(d, p)'
  BY SMTT(20), <1>1 DEF GetOrCreateRoom, Warm, Goto
<1>2. ASSUME NEW c \in Client, StartPumps(c) PROVE Leaving(d, p)'
  BY <1>2 DEF StartPumps
<1>3. ASSUME NEW c \in Client, Register(c) PROVE Leaving(d, p)'
  BY <1>3 DEF Register
<1>4. ASSUME NEW c \in Client, ReadEvent(c) PROVE Leaving(d, p)'
  BY <1>4 DEF ReadEvent, ReaderGoto
<1>5. ASSUME NEW c \in Client, ReadFail(c) PROVE Leaving(d, p)'
  BY <1>5 DEF ReadFail, ReaderGoto
<1>6. ASSUME NEW c \in Client, Relay(c) PROVE Leaving(d, p)'
  BY <1>6 DEF Relay, ReaderGoto, Broadcast, HasSpace
<1>7. ASSUME NEW c \in Client, LockForTyping(c) PROVE Leaving(d, p)'
  BY <1>7 DEF LockForTyping, ReaderGoto, Lock
<1>8. ASSUME NEW c \in Client, HandleTypingEvent(c) PROVE Leaving(d, p)'
  BY <1>8 DEF HandleTypingEvent, ReaderGoto, Broadcast, HasSpace, Unlock
<1>9. ASSUME NEW c \in Client, Leave(c) PROVE Leaving(d, p)'
  <2>1. /\ reader[c] = "leave" /\ UNCHANGED <<loop, arg>>
        /\ unregister' = [unregister EXCEPT ![room[c]] = Append(@, c)]
        /\ reader' = [reader EXCEPT ![c] = "done"]
    BY <1>9 DEF Leave, ReaderGoto
  <2>2. room[c] \in Room /\ unregister[p] \in Seq(Client)
    BY <2>1
  <2>3. CASE c = d
    <3>1. unregister'[p] = Append(unregister[p], d)
      <4>1. room[c] = p
        BY <2>1, <2>2, <2>3
      <4> HIDE DEF Wired, Leaving
      <4> QED
        BY <2>1, <2>3, <4>1
    <3>2. \E i \in 1..Len(Append(unregister[p], d)) : Append(unregister[p], d)[i] = d
      <4> HIDE DEF TypeOK, Wired, Leaving
      <4> QED
        BY <2>2, <2>3, AppendFinds
    <3> QED
      BY <3>1, <3>2
  <2>4. CASE c # d
    <3>1. reader'[d] = reader[d]
      BY <2>1, <2>4
    <3>2. unregister'[p] = unregister[p] \/ unregister'[p] = Append(unregister[p], c)
      <4> HIDE DEF Wired, Leaving
      <4> QED
        BY <2>1, <2>2
    <3>3. \A i \in 1..Len(unregister[p]) : i \in 1..Len(unregister'[p]) /\ unregister'[p][i] = unregister[p][i]
      <4> HIDE DEF TypeOK, Wired, Leaving
      <4> QED
        BY <2>2, <3>2, AppendFinds
    <3> QED
      BY <2>1, <3>1, <3>3
  <2> QED
    BY <2>3, <2>4
<1>10. ASSUME NEW c \in Client, Write(c) PROVE Leaving(d, p)'
  BY <1>10 DEF Write
<1>11. ASSUME NEW c \in Client, WriterExit(c) PROVE Leaving(d, p)'
  BY <1>11 DEF WriterExit, CloseConn
<1>12. ASSUME NEW o \in Room, TakeRegister(o) PROVE Leaving(d, p)'
  BY <1>12 DEF TakeRegister, Goto
<1>13. ASSUME NEW o \in Room, AddClient(o) PROVE Leaving(d, p)'
  BY <1>13 DEF AddClient, Goto, Warm
<1>14. ASSUME NEW o \in Room, TellJoin(o) PROVE Leaving(d, p)'
  BY <1>14 DEF TellJoin, Goto, Broadcast, HasSpace
<1>15. ASSUME NEW o \in Room, TakeUnregister(o) PROVE Leaving(d, p)'
  <2>1. /\ loop[o] = "select" /\ loop' = [loop EXCEPT ![o] = "drop"] /\ reader' = reader
        /\ arg' = [arg EXCEPT ![o] = Head(unregister[o])]
        /\ unregister[o] # <<>> /\ unregister' = [unregister EXCEPT ![o] = Tail(@)]
    BY <1>15 DEF TakeUnregister, Goto
  <2>2. CASE o = p
    <3>1. loop'[p] = "drop" /\ arg'[p] = Head(unregister[p]) /\ unregister'[p] = Tail(unregister[p])
      BY <2>1, <2>2
    <3>2. ASSUME NEW i \in 1..Len(unregister[p]), unregister[p][i] = d, d # Head(unregister[p])
          PROVE  \E j \in 1..Len(unregister'[p]) : unregister'[p][j] = d
      <4>1. unregister[p] \in Seq(Client) /\ unregister[p] # <<>>
        BY <2>1, <2>2
      <4>2. \E j \in 1..Len(Tail(unregister[p])) : Tail(unregister[p])[j] = unregister[p][i]
        <5> HIDE DEF TypeOK, Wired, Leaving
        <5> QED
          BY <3>2, <4>1, TailFinds
      <4> QED
        BY <3>1, <3>2, <4>2
    <3> QED
      BY <2>1, <2>2, <3>1, <3>2
  <2>3. CASE o # p
    BY <2>1, <2>3
  <2> QED
    BY <2>2, <2>3
<1>16. ASSUME NEW o \in Room, DropClient(o) PROVE Leaving(d, p)'
  BY <1>16 DEF DropClient, Goto, Lock, Unseat
<1>17. ASSUME NEW o \in Room, DropUnknown(o) PROVE Leaving(d, p)'
  BY <1>17 DEF DropUnknown, Goto
<1>18. ASSUME NEW o \in Room, LookupLeave(o) PROVE Leaving(d, p)'
  <2>1. /\ loop[o] = "lookup" /\ UNCHANGED <<reader, unregister>>
        /\ \A q \in Room : q # o => loop'[q] = loop[q] /\ arg'[q] = arg[q]
    <3> HIDE DEF Wired, Leaving
    <3> QED
      BY <1>18 DEF LookupLeave, Goto
  <2> QED
    BY <2>1
<1>19. ASSUME NEW o \in Room, TellLeave(o) PROVE Leaving(d, p)'
  BY <1>19 DEF TellLeave, Goto, Broadcast, HasSpace, Unlock
<1>20. ASSUME NEW o \in Room, CheckEmpty(o) PROVE Leaving(d, p)'
  BY <1>20 DEF CheckEmpty, Goto
<1>21. ASSUME NEW o \in Room, TakeBroadcast(o) PROVE Leaving(d, p)'
  BY <1>21 DEF TakeBroadcast, Goto, Warm
<1>22. ASSUME NEW o \in Room, FanOut(o) PROVE Leaving(d, p)'
  BY <1>22 DEF FanOut, Goto
<1>23. ASSUME NEW o \in Room, Tick(o) PROVE Leaving(d, p)'
  BY <1>23 DEF Tick, Goto
<1>24. ASSUME NEW o \in Room, Sweep(o) PROVE Leaving(d, p)'
  BY <1>24 DEF Sweep, Goto
<1>25. ASSUME NEW id \in RoomID, Wake(id) PROVE Leaving(d, p)'
  BY <1>25 DEF Wake
<1>26. CASE RemoveRoom
  BY <1>26 DEF RemoveRoom, Unmap
<1>27. CASE CloseRoom
  BY <1>27 DEF CloseRoom
<1>28. ASSUME NEW id \in RoomID, Cool(id) PROVE Leaving(d, p)'
  BY <1>28 DEF Cool
<1>29. CASE EvictColdRooms
  BY <1>29 DEF EvictColdRooms, Cold
<1>30. CASE SubscribeToPubSub
  BY <1>30 DEF SubscribeToPubSub
<1>31. CASE Stop
  BY <1>31 DEF Stop, CloseMapped, Mapped
<1>32. CASE StartReturns
  BY <1>32 DEF StartReturns, CloseMapped, Mapped
<1>33. CASE EvictReturns
  BY <1>33 DEF EvictReturns
<1>37. CASE Start
  BY <1>37 DEF Start
<1>34. ASSUME NEW id \in RoomID, BroadcastMessage(id) PROVE Leaving(d, p)'
  BY <1>34 DEF BroadcastMessage
<1>35. CASE SyncSend
  BY <1>35 DEF SyncSend, Broadcast, HasSpace
<1>36. CASE UNCHANGED vars
  BY <1>36 DEF vars
<1> HIDE DEF TypeOK, Wired, Leaving
<1> QED
  BY <1>1, <1>2, <1>3, <1>4, <1>5, <1>6, <1>7, <1>8, <1>9, <1>10, <1>11, <1>12, <1>13, <1>14, <1>15,
     <1>16, <1>17, <1>18, <1>19, <1>20, <1>21, <1>22, <1>23, <1>24, <1>25, <1>26, <1>27, <1>28,
     <1>29, <1>30, <1>31, <1>32, <1>33, <1>34, <1>35, <1>36, <1>37 DEF Next, Connection, ReadPump,
     WritePump, HandleRoom, ManagerStep, SyncLoop

(* A client passed over is never taken up again, and never taken out of its room. *)
LEMMA PassedOverStep ==
  ASSUME TypeOK, Wired, Seated, [Next]_vars, NEW p \in Room, NEW d \in Client, PassedOver(d, p)
  PROVE  PassedOver(d, p)' /\ (d \in clients[p] => d \in clients'[p])
<1>0. /\ room[d] = p /\ reader[d] = "done" /\ ~sendClosed[d]
      /\ \A i \in 1..Len(unregister[p]) : unregister[p][i] # d
      /\ loop[p] = "drop" => arg[p] # d
  BY DEF PassedOver, Left, Leaving
<1> DEFINE Stays ==
                   /\ room'[d] = p /\ reader'[d] = "done" /\ ~sendClosed'[d]
                   /\ \A i \in 1..Len(unregister'[p]) : unregister'[p][i] # d
                   /\ loop'[p] = "drop" => arg'[p] # d
                   /\ d \in clients[p] => d \in clients'[p]
<1> SUFFICES Stays
  BY DEF PassedOver, Left, Leaving
<1> USE Capacities DEF TypeOK, Wired, mapVars, startVars, stopVars, queueVars, eventVars, loopVars, pumpVars, restVars
<1>1. ASSUME NEW c \in Client, NEW id \in RoomID, GetOrCreateRoom(c, id) PROVE Stays
  BY SMTT(20), <1>0, <1>1 DEF GetOrCreateRoom, Warm, Goto
<1>2. ASSUME NEW c \in Client, StartPumps(c) PROVE Stays
  BY <1>2, <1>0 DEF StartPumps
<1>3. ASSUME NEW c \in Client, Register(c) PROVE Stays
  BY <1>3, <1>0 DEF Register
<1>4. ASSUME NEW c \in Client, ReadEvent(c) PROVE Stays
  BY <1>4, <1>0 DEF ReadEvent, ReaderGoto
<1>5. ASSUME NEW c \in Client, ReadFail(c) PROVE Stays
  BY <1>5, <1>0 DEF ReadFail, ReaderGoto
<1>6. ASSUME NEW c \in Client, Relay(c) PROVE Stays
  BY <1>6, <1>0 DEF Relay, ReaderGoto, Broadcast, HasSpace
<1>7. ASSUME NEW c \in Client, LockForTyping(c) PROVE Stays
  BY <1>7, <1>0 DEF LockForTyping, ReaderGoto, Lock
<1>8. ASSUME NEW c \in Client, HandleTypingEvent(c) PROVE Stays
  BY <1>8, <1>0 DEF HandleTypingEvent, ReaderGoto, Broadcast, HasSpace, Unlock
<1>9. ASSUME NEW c \in Client, Leave(c) PROVE Stays
  <2>1. reader[c] = "leave" /\ unregister' = [unregister EXCEPT ![room[c]] = Append(@, c)]
    BY <1>9 DEF Leave
  <2>2. c # d /\ unregister[p] \in Seq(Client) /\ room[c] \in Room
    BY <1>0, <2>1
  <2>3. unregister'[p] = unregister[p] \/ unregister'[p] = Append(unregister[p], c)
    BY <2>1, <2>2
  <2>4. \A i \in 1..Len(unregister'[p]) : unregister'[p][i] # d
    <3> HIDE DEF TypeOK, Wired
    <3> QED
      BY <1>0, <2>2, <2>3
  <2> QED
    BY <1>0, <1>9, <2>2, <2>4 DEF Leave, ReaderGoto, CloseConn
<1>10. ASSUME NEW c \in Client, Write(c) PROVE Stays
  BY <1>10, <1>0 DEF Write
<1>11. ASSUME NEW c \in Client, WriterExit(c) PROVE Stays
  BY <1>11, <1>0 DEF WriterExit, CloseConn
<1>12. ASSUME NEW o \in Room, TakeRegister(o) PROVE Stays
  BY <1>12, <1>0 DEF TakeRegister, Goto
<1>13. ASSUME NEW o \in Room, AddClient(o) PROVE Stays
  BY <1>13, <1>0 DEF AddClient, Goto, Warm
<1>14. ASSUME NEW o \in Room, TellJoin(o) PROVE Stays
  BY <1>14, <1>0 DEF TellJoin, Goto, Broadcast, HasSpace
<1>15. ASSUME NEW o \in Room, TakeUnregister(o) PROVE Stays
  <2>1. /\ unregister[o] # <<>> /\ unregister' = [unregister EXCEPT ![o] = Tail(@)]
        /\ arg' = [arg EXCEPT ![o] = Head(unregister[o])] /\ UNCHANGED <<room, reader, sendClosed, clients>>
        /\ \A q \in Room : q # o => loop'[q] = loop[q]
    BY <1>15 DEF TakeUnregister, Goto
  <2>2. CASE o # p
    BY <1>0, <2>1, <2>2
  <2>3. CASE o = p
    <3>1. unregister[p] \in Seq(Client) /\ unregister[p] # <<>>
      BY <2>1, <2>3
    <3>2. Head(unregister[p]) # d /\ \A i \in 1..Len(Tail(unregister[p])) : Tail(unregister[p])[i] # d
      <4> HIDE DEF TypeOK, Wired
      <4> QED
        BY <1>0, <3>1
    <3> QED
      BY <1>0, <2>1, <2>3, <3>2
  <2> QED
    BY <2>2, <2>3
<1>16. ASSUME NEW o \in Room, DropClient(o) PROVE Stays
  <2>1. room[arg[o]] = o /\ arg[o] \in Client /\ loop[o] = "drop"
    BY <1>16 DEF DropClient, Seated, SeatedIn
  <2>2. arg[o] # d
    BY <1>0, <2>1
  <2> QED
    BY SMTT(30), <1>0, <1>16, <2>2 DEF DropClient, Goto, Lock, Unseat
<1>17. ASSUME NEW o \in Room, DropUnknown(o) PROVE Stays
  BY <1>17, <1>0 DEF DropUnknown, Goto
<1>18. ASSUME NEW o \in Room, LookupLeave(o) PROVE Stays
  <2>1. /\ UNCHANGED <<room, reader, sendClosed, unregister, clients>>
        /\ \A q \in Room : loop'[q] = "drop" => loop[q] = "drop" /\ arg'[q] = arg[q]
    BY SMTT(40), <1>18 DEF LookupLeave, Goto, Unlock
  <2> QED
    BY <1>0, <2>1
<1>19. ASSUME NEW o \in Room, TellLeave(o) PROVE Stays
  BY <1>19, <1>0 DEF TellLeave, Goto, Broadcast, HasSpace, Unlock
<1>20. ASSUME NEW o \in Room, CheckEmpty(o) PROVE Stays
  BY <1>20, <1>0 DEF CheckEmpty, Goto
<1>21. ASSUME NEW o \in Room, TakeBroadcast(o) PROVE Stays
  BY <1>21, <1>0 DEF TakeBroadcast, Goto, Warm
<1>22. ASSUME NEW o \in Room, FanOut(o) PROVE Stays
  BY <1>22, <1>0 DEF FanOut, Goto
<1>23. ASSUME NEW o \in Room, Tick(o) PROVE Stays
  BY <1>23, <1>0 DEF Tick, Goto
<1>24. ASSUME NEW o \in Room, Sweep(o) PROVE Stays
  BY <1>24, <1>0 DEF Sweep, Goto
<1>25. ASSUME NEW id \in RoomID, Wake(id) PROVE Stays
  BY <1>25, <1>0 DEF Wake
<1>26. CASE RemoveRoom
  BY <1>26, <1>0 DEF RemoveRoom, Unmap
<1>27. CASE CloseRoom
  BY <1>27, <1>0 DEF CloseRoom
<1>28. ASSUME NEW id \in RoomID, Cool(id) PROVE Stays
  BY <1>28, <1>0 DEF Cool
<1>29. CASE EvictColdRooms
  BY <1>29, <1>0 DEF EvictColdRooms, Cold
<1>30. CASE SubscribeToPubSub
  BY <1>30, <1>0 DEF SubscribeToPubSub
<1>31. CASE Stop
  BY <1>31, <1>0 DEF Stop, CloseMapped, Mapped
<1>32. CASE StartReturns
  BY <1>32, <1>0 DEF StartReturns, CloseMapped, Mapped
<1>33. CASE EvictReturns
  BY <1>33, <1>0 DEF EvictReturns
<1>37. CASE Start
  BY <1>37, <1>0 DEF Start
<1>34. ASSUME NEW id \in RoomID, BroadcastMessage(id) PROVE Stays
  BY <1>34, <1>0 DEF BroadcastMessage
<1>35. CASE SyncSend
  BY <1>35, <1>0 DEF SyncSend, Broadcast, HasSpace
<1>36. CASE UNCHANGED vars
  BY <1>36, <1>0 DEF vars
<1> QED
  BY <1>1, <1>2, <1>3, <1>4, <1>5, <1>6, <1>7, <1>8, <1>9, <1>10, <1>11, <1>12, <1>13, <1>14, <1>15,
     <1>16, <1>17, <1>18, <1>19, <1>20, <1>21, <1>22, <1>23, <1>24, <1>25, <1>26, <1>27, <1>28,
     <1>29, <1>30, <1>31, <1>32, <1>33, <1>34, <1>35, <1>36, <1>37 DEF Next, Connection, ReadPump,
     WritePump, HandleRoom, ManagerStep, SyncLoop

(* A client on its way out stays there, or is out, or was not in the room yet. *)
LEMMA HeardStep ==
  ASSUME TypeOK, Wired, Seated, LeavesOnce, [Next]_vars,
         NEW p \in Room, NEW d \in Client, room[d] = p, Leaving(d, p)
  PROVE  \/ Leaving(d, p)'
         \/ d \in clients[p] /\ d \notin clients'[p] /\ sendClosed'[d]
         \/ d \notin clients[p] /\ PassedOver(d, p)'
<1> USE DEF TypeOK
<1>1. CASE DropClient(p) /\ arg[p] = d
  BY <1>1 DEF DropClient, Unseat
<1>2. CASE DropUnknown(p) /\ arg[p] = d
  <2>1. d \notin clients[p] /\ loop[p] = "drop"
    BY <1>2 DEF DropUnknown
  <2>2. Left(d, p)
    BY <1>2, <2>1 DEF LeavesOnce, OnTheWayOut
  <2>3. Left(d, p)'
    BY <1>2, <2>2 DEF DropUnknown, Left, pumpVars
  <2> QED
    BY <2>1, <2>3 DEF PassedOver
<1>3. CASE arg[p] = d => ~DropClient(p) /\ ~DropUnknown(p)
  BY <1>3, LeavingStep
<1> QED
  BY <1>1, <1>2, <1>3

(* Every step keeps a request to remove a room, or frees its id. *)
LEMMA AskedStep ==
  ASSUME TypeOK, Wired, [Next]_vars, NEW k \in RoomID, Asked(k)
  PROVE  Asked(k)' \/ rooms'[k] = None
<1> USE Capacities DEF TypeOK, Wired, Asked,
           mapVars, startVars, stopVars, queueVars, eventVars, loopVars, pumpVars, restVars
<1>1. ASSUME NEW c \in Client, NEW id \in RoomID, GetOrCreateRoom(c, id) PROVE Asked(k)' \/ rooms'[k] = None
  BY SMTT(20), <1>1 DEF GetOrCreateRoom, Warm, Goto
<1>2. ASSUME NEW c \in Client, StartPumps(c) PROVE Asked(k)' \/ rooms'[k] = None
  BY <1>2 DEF StartPumps
<1>3. ASSUME NEW c \in Client, Register(c) PROVE Asked(k)' \/ rooms'[k] = None
  BY <1>3 DEF Register
<1>4. ASSUME NEW c \in Client, ReadEvent(c) PROVE Asked(k)' \/ rooms'[k] = None
  BY <1>4 DEF ReadEvent, ReaderGoto
<1>5. ASSUME NEW c \in Client, ReadFail(c) PROVE Asked(k)' \/ rooms'[k] = None
  BY <1>5 DEF ReadFail, ReaderGoto
<1>6. ASSUME NEW c \in Client, Relay(c) PROVE Asked(k)' \/ rooms'[k] = None
  BY <1>6 DEF Relay, ReaderGoto, Broadcast, HasSpace
<1>7. ASSUME NEW c \in Client, LockForTyping(c) PROVE Asked(k)' \/ rooms'[k] = None
  BY <1>7 DEF LockForTyping, ReaderGoto, Lock
<1>8. ASSUME NEW c \in Client, HandleTypingEvent(c) PROVE Asked(k)' \/ rooms'[k] = None
  BY <1>8 DEF HandleTypingEvent, ReaderGoto, Broadcast, HasSpace, Unlock
<1>9. ASSUME NEW c \in Client, Leave(c) PROVE Asked(k)' \/ rooms'[k] = None
  BY <1>9 DEF Leave, ReaderGoto, CloseConn
<1>10. ASSUME NEW c \in Client, Write(c) PROVE Asked(k)' \/ rooms'[k] = None
  BY <1>10 DEF Write
<1>11. ASSUME NEW c \in Client, WriterExit(c) PROVE Asked(k)' \/ rooms'[k] = None
  BY <1>11 DEF WriterExit, CloseConn
<1>12. ASSUME NEW o \in Room, TakeRegister(o) PROVE Asked(k)' \/ rooms'[k] = None
  BY <1>12 DEF TakeRegister, Goto
<1>13. ASSUME NEW o \in Room, AddClient(o) PROVE Asked(k)' \/ rooms'[k] = None
  BY <1>13 DEF AddClient, Goto, Warm
<1>14. ASSUME NEW o \in Room, TellJoin(o) PROVE Asked(k)' \/ rooms'[k] = None
  BY <1>14 DEF TellJoin, Goto, Broadcast, HasSpace
<1>15. ASSUME NEW o \in Room, TakeUnregister(o) PROVE Asked(k)' \/ rooms'[k] = None
  BY <1>15 DEF TakeUnregister, Goto
<1>16. ASSUME NEW o \in Room, DropClient(o) PROVE Asked(k)' \/ rooms'[k] = None
  BY <1>16 DEF DropClient, Goto, Lock, Unseat
<1>17. ASSUME NEW o \in Room, DropUnknown(o) PROVE Asked(k)' \/ rooms'[k] = None
  BY <1>17 DEF DropUnknown, Goto
<1>18. ASSUME NEW o \in Room, LookupLeave(o) PROVE Asked(k)' \/ rooms'[k] = None
  BY <1>18 DEF LookupLeave, Goto, Unlock
<1>19. ASSUME NEW o \in Room, TellLeave(o) PROVE Asked(k)' \/ rooms'[k] = None
  BY <1>19 DEF TellLeave, Goto, Broadcast, HasSpace, Unlock
<1>20. ASSUME NEW o \in Room, CheckEmpty(o) PROVE Asked(k)' \/ rooms'[k] = None
  BY <1>20 DEF CheckEmpty, Goto
<1>21. ASSUME NEW o \in Room, TakeBroadcast(o) PROVE Asked(k)' \/ rooms'[k] = None
  BY <1>21 DEF TakeBroadcast, Goto, Warm
<1>22. ASSUME NEW o \in Room, FanOut(o) PROVE Asked(k)' \/ rooms'[k] = None
  BY <1>22 DEF FanOut, Goto
<1>23. ASSUME NEW o \in Room, Tick(o) PROVE Asked(k)' \/ rooms'[k] = None
  BY <1>23 DEF Tick, Goto
<1>24. ASSUME NEW o \in Room, Sweep(o) PROVE Asked(k)' \/ rooms'[k] = None
  BY <1>24 DEF Sweep, Goto
<1>25. ASSUME NEW id \in RoomID, Wake(id) PROVE Asked(k)' \/ rooms'[k] = None
  <2>1. /\ sleepers' = [sleepers EXCEPT ![id] = @ - 1]
        /\ unregisterRoom' = Append(unregisterRoom, id)
    BY <1>25 DEF Wake
  <2>2. CASE k = id
    <3>1. unregisterRoom \in Seq(RoomID)
      OBVIOUS
    <3>2. \E i \in 1..Len(unregisterRoom') : unregisterRoom'[i] = id
      <4> HIDE DEF TypeOK, Wired, Asked
      <4> QED
        BY <2>1, <3>1, AppendFinds
    <3> QED
      BY <2>2, <3>2
  <2>3. CASE k # id
    <3>1. sleepers'[k] = sleepers[k]
      BY <2>1, <2>3
    <3>2. \A i \in 1..Len(unregisterRoom) : i \in 1..Len(unregisterRoom') /\ unregisterRoom'[i] = unregisterRoom[i]
      BY <2>1, AppendFinds
    <3> QED
      BY <3>1, <3>2
  <2> QED
    BY <2>2, <2>3
<1>26. CASE RemoveRoom
  <2>1. /\ unregisterRoom # <<>> /\ unregisterRoom' = Tail(unregisterRoom) /\ sleepers' = sleepers
        /\ rooms' = [rooms EXCEPT ![Head(unregisterRoom)] = None]
    BY <1>26 DEF RemoveRoom, Unmap
  <2>2. CASE k = Head(unregisterRoom)
    BY <2>1, <2>2
  <2>3. CASE k # Head(unregisterRoom)
    <3>1. unregisterRoom \in Seq(RoomID)
      OBVIOUS
    <3>2. ASSUME NEW i \in 1..Len(unregisterRoom), unregisterRoom[i] = k
          PROVE  \E j \in 1..Len(unregisterRoom') : unregisterRoom'[j] = k
      <4> HIDE DEF TypeOK, Wired, Asked
      <4> QED
        BY <2>1, <2>3, <3>1, <3>2, TailFinds
    <3> QED
      BY <2>1, <3>2
  <2> QED
    BY <2>2, <2>3
<1>27. CASE CloseRoom
  BY <1>27 DEF CloseRoom
<1>28. ASSUME NEW id \in RoomID, Cool(id) PROVE Asked(k)' \/ rooms'[k] = None
  BY <1>28 DEF Cool
<1>29. CASE EvictColdRooms
  BY <1>29 DEF EvictColdRooms, Cold
<1>30. CASE SubscribeToPubSub
  BY <1>30 DEF SubscribeToPubSub
<1>31. CASE Stop
  BY <1>31 DEF Stop, CloseMapped, Mapped
<1>32. CASE StartReturns
  BY <1>32 DEF StartReturns, CloseMapped, Mapped
<1>33. CASE EvictReturns
  BY <1>33 DEF EvictReturns
<1>37. CASE Start
  BY <1>37 DEF Start
<1>34. ASSUME NEW id \in RoomID, BroadcastMessage(id) PROVE Asked(k)' \/ rooms'[k] = None
  BY <1>34 DEF BroadcastMessage
<1>35. CASE SyncSend
  BY <1>35 DEF SyncSend, Broadcast, HasSpace
<1>36. CASE UNCHANGED vars
  BY <1>36 DEF vars
<1> HIDE DEF TypeOK, Wired, Asked
<1> QED
  BY <1>1, <1>2, <1>3, <1>4, <1>5, <1>6, <1>7, <1>8, <1>9, <1>10, <1>11, <1>12, <1>13, <1>14, <1>15,
     <1>16, <1>17, <1>18, <1>19, <1>20, <1>21, <1>22, <1>23, <1>24, <1>25, <1>26, <1>27, <1>28,
     <1>29, <1>30, <1>31, <1>32, <1>33, <1>34, <1>35, <1>36, <1>37 DEF Next, Connection, ReadPump,
     WritePump, HandleRoom, ManagerStep, SyncLoop

(* A step of one room's goroutine leaves the rooms of other ids alone. *)
LEMMA ApartStep ==
  ASSUME TypeOK, Wired, Seated, OwnRoom, NEW o \in Room, NEW p \in Room, HandleRoom(o), home[p] # home[o]
  PROVE  Untouched(p)
<1> USE Capacities DEF TypeOK, Untouched,
           mapVars, startVars, stopVars, queueVars, eventVars, loopVars, pumpVars, restVars
<1>1. p # o
  OBVIOUS
<1>2. loop[o] \in {"join", "leave"} => dest[o] \in Room /\ p # dest[o]
  BY DEF Wired, OwnRoom
<1>3. \A c \in clients[o] : room[c] # p
  BY <1>1 DEF Seated, SeatedIn
<1>4. CASE TakeRegister(o)
  BY <1>1, <1>4 DEF TakeRegister, Goto
<1>5. CASE AddClient(o)
  BY <1>1, <1>5 DEF AddClient, Goto
<1>6. CASE TellJoin(o)
  <2>1. broadcast'[p] = broadcast[p] /\ closed'[p] = closed[p]
    BY <1>2, <1>6 DEF TellJoin, Broadcast
  <2> QED
    BY <1>1, <1>6, <2>1 DEF TellJoin, Goto
<1>7. CASE TakeUnregister(o)
  BY <1>1, <1>7 DEF TakeUnregister, Goto
<1>8. CASE DropClient(o)
  <2>1. \A c \in Client : room[c] = p => sendClosed'[c] = sendClosed[c] /\ send'[c] = send[c]
    <3>1. arg[o] \in Client /\ room[arg[o]] # p
      BY <1>3, <1>8 DEF DropClient
    <3>2. send' = send /\ sendClosed' = [sendClosed EXCEPT ![arg[o]] = TRUE]
      BY <1>8 DEF DropClient
    <3>3. DOMAIN sendClosed = Client
      OBVIOUS
    <3> HIDE DEF TypeOK, Untouched
    <3>4. \A c \in Client : c # arg[o] => sendClosed'[c] = sendClosed[c]
      BY <3>2, <3>3
    <3> QED
      BY <3>1, <3>2, <3>4
  <2>2. clients'[p] = clients[p] /\ mu'[p] = mu[p] /\ loop'[p] = loop[p]
    BY <1>1, <1>8 DEF DropClient, Goto, Lock, Unseat
  <2> QED
    BY <1>8, <2>1, <2>2 DEF DropClient
<1>9. CASE DropUnknown(o)
  BY <1>1, <1>9 DEF DropUnknown, Goto
<1>10. CASE LookupLeave(o)
  BY <1>1, <1>10 DEF LookupLeave, Goto, Unlock
<1>11. CASE TellLeave(o)
  <2>1. broadcast'[p] = broadcast[p] /\ closed'[p] = closed[p]
    BY <1>2, <1>11 DEF TellLeave, Broadcast
  <2> QED
    BY <1>1, <1>11, <2>1 DEF TellLeave, Goto, Unlock
<1>12. CASE CheckEmpty(o)
  BY <1>1, <1>12 DEF CheckEmpty, Goto
<1>13. CASE TakeBroadcast(o)
  BY <1>1, <1>13 DEF TakeBroadcast, Goto
<1>14. CASE FanOut(o)
  <2>1. \A c \in Client : room[c] = p => sendClosed'[c] = sendClosed[c] /\ send'[c] = send[c]
    BY <1>3, <1>14 DEF FanOut
  <2> QED
    BY <1>1, <1>14, <2>1 DEF FanOut, Goto
<1>15. CASE Tick(o)
  BY <1>1, <1>15 DEF Tick, Goto
<1>16. CASE Sweep(o)
  BY <1>1, <1>16 DEF Sweep, Goto
<1> QED
  BY <1>4, <1>5, <1>6, <1>7, <1>8, <1>9, <1>10, <1>11, <1>12, <1>13, <1>14, <1>15, <1>16 DEF HandleRoom

(* No step but the closing of its channel frees a room's goroutine that sends to itself. *)
LEMMA SelfHungStep ==
  ASSUME TypeOK, Wired, [Next]_vars, NEW p \in Room, SelfHung(p)
  PROVE  SelfHung(p)' \/ closed'[p]
<1> USE Capacities DEF TypeOK, Wired, SelfHung, Full,
           mapVars, startVars, stopVars, queueVars, eventVars, loopVars, pumpVars, restVars
<1>1. ASSUME NEW c \in Client, NEW id \in RoomID, GetOrCreateRoom(c, id) PROVE SelfHung(p)' \/ closed'[p]
  BY SMTT(20), <1>1 DEF GetOrCreateRoom, Warm, Goto
<1>2. ASSUME NEW c \in Client, StartPumps(c) PROVE SelfHung(p)' \/ closed'[p]
  BY <1>2 DEF StartPumps
<1>3. ASSUME NEW c \in Client, Register(c) PROVE SelfHung(p)' \/ closed'[p]
  BY <1>3 DEF Register
<1>4. ASSUME NEW c \in Client, ReadEvent(c) PROVE SelfHung(p)' \/ closed'[p]
  BY <1>4 DEF ReadEvent, ReaderGoto
<1>5. ASSUME NEW c \in Client, ReadFail(c) PROVE SelfHung(p)' \/ closed'[p]
  BY <1>5 DEF ReadFail, ReaderGoto
<1>6. ASSUME NEW c \in Client, Relay(c) PROVE SelfHung(p)' \/ closed'[p]
  BY <1>6 DEF Relay, ReaderGoto, Broadcast, HasSpace
<1>7. ASSUME NEW c \in Client, LockForTyping(c) PROVE SelfHung(p)' \/ closed'[p]
  BY <1>7 DEF LockForTyping, ReaderGoto, Lock
<1>8. ASSUME NEW c \in Client, HandleTypingEvent(c) PROVE SelfHung(p)' \/ closed'[p]
  BY <1>8 DEF HandleTypingEvent, ReaderGoto, Broadcast, HasSpace, Unlock
<1>9. ASSUME NEW c \in Client, Leave(c) PROVE SelfHung(p)' \/ closed'[p]
  BY <1>9 DEF Leave, ReaderGoto, CloseConn
<1>10. ASSUME NEW c \in Client, Write(c) PROVE SelfHung(p)' \/ closed'[p]
  BY <1>10 DEF Write
<1>11. ASSUME NEW c \in Client, WriterExit(c) PROVE SelfHung(p)' \/ closed'[p]
  BY <1>11 DEF WriterExit, CloseConn
<1>12. ASSUME NEW o \in Room, TakeRegister(o) PROVE SelfHung(p)' \/ closed'[p]
  BY <1>12 DEF TakeRegister, Goto
<1>13. ASSUME NEW o \in Room, AddClient(o) PROVE SelfHung(p)' \/ closed'[p]
  BY <1>13 DEF AddClient, Goto, Warm
<1>14. ASSUME NEW o \in Room, TellJoin(o) PROVE SelfHung(p)' \/ closed'[p]
  BY <1>14 DEF TellJoin, Goto, Broadcast, HasSpace
<1>15. ASSUME NEW o \in Room, TakeUnregister(o) PROVE SelfHung(p)' \/ closed'[p]
  BY <1>15 DEF TakeUnregister, Goto
<1>16. ASSUME NEW o \in Room, DropClient(o) PROVE SelfHung(p)' \/ closed'[p]
  BY <1>16 DEF DropClient, Goto, Lock, Unseat
<1>17. ASSUME NEW o \in Room, DropUnknown(o) PROVE SelfHung(p)' \/ closed'[p]
  BY <1>17 DEF DropUnknown, Goto
<1>18. ASSUME NEW o \in Room, LookupLeave(o) PROVE SelfHung(p)' \/ closed'[p]
  <2>1. /\ loop[o] = "lookup" /\ UNCHANGED <<broadcast, closed>>
        /\ \A q \in Room : q # o => loop'[q] = loop[q] /\ dest'[q] = dest[q]
    <3> HIDE DEF Wired, SelfHung, Full
    <3> QED
      BY <1>18 DEF LookupLeave, Goto
  <2>2. p # o
    BY <2>1
  <2> QED
    BY <2>1, <2>2
<1>19. ASSUME NEW o \in Room, TellLeave(o) PROVE SelfHung(p)' \/ closed'[p]
  BY <1>19 DEF TellLeave, Goto, Broadcast, HasSpace, Unlock
<1>20. ASSUME NEW o \in Room, CheckEmpty(o) PROVE SelfHung(p)' \/ closed'[p]
  BY <1>20 DEF CheckEmpty, Goto
<1>21. ASSUME NEW o \in Room, TakeBroadcast(o) PROVE SelfHung(p)' \/ closed'[p]
  BY <1>21 DEF TakeBroadcast, Goto, Warm
<1>22. ASSUME NEW o \in Room, FanOut(o) PROVE SelfHung(p)' \/ closed'[p]
  BY <1>22 DEF FanOut, Goto
<1>23. ASSUME NEW o \in Room, Tick(o) PROVE SelfHung(p)' \/ closed'[p]
  BY <1>23 DEF Tick, Goto
<1>24. ASSUME NEW o \in Room, Sweep(o) PROVE SelfHung(p)' \/ closed'[p]
  BY <1>24 DEF Sweep, Goto
<1>25. ASSUME NEW id \in RoomID, Wake(id) PROVE SelfHung(p)' \/ closed'[p]
  BY <1>25 DEF Wake
<1>26. CASE RemoveRoom
  BY <1>26 DEF RemoveRoom, Unmap
<1>27. CASE CloseRoom
  BY <1>27 DEF CloseRoom
<1>28. ASSUME NEW id \in RoomID, Cool(id) PROVE SelfHung(p)' \/ closed'[p]
  BY <1>28 DEF Cool
<1>29. CASE EvictColdRooms
  BY <1>29 DEF EvictColdRooms, Cold
<1>30. CASE SubscribeToPubSub
  BY <1>30 DEF SubscribeToPubSub
<1>31. CASE Stop
  BY <1>31 DEF Stop, CloseMapped, Mapped
<1>32. CASE StartReturns
  BY <1>32 DEF StartReturns, CloseMapped, Mapped
<1>33. CASE EvictReturns
  BY <1>33 DEF EvictReturns
<1>37. CASE Start
  BY <1>37 DEF Start
<1>34. ASSUME NEW id \in RoomID, BroadcastMessage(id) PROVE SelfHung(p)' \/ closed'[p]
  BY <1>34 DEF BroadcastMessage
<1>35. CASE SyncSend
  BY <1>35 DEF SyncSend, Broadcast, HasSpace
<1>36. CASE UNCHANGED vars
  BY <1>36 DEF vars
<1> QED
  BY <1>1, <1>2, <1>3, <1>4, <1>5, <1>6, <1>7, <1>8, <1>9, <1>10, <1>11, <1>12, <1>13, <1>14, <1>15,
     <1>16, <1>17, <1>18, <1>19, <1>20, <1>21, <1>22, <1>23, <1>24, <1>25, <1>26, <1>27, <1>28,
     <1>29, <1>30, <1>31, <1>32, <1>33, <1>34, <1>35, <1>36, <1>37 DEF Next, Connection, ReadPump,
     WritePump, HandleRoom, ManagerStep, SyncLoop

(* No step but the closing of its channel frees a room's goroutine that waits for a *)
(* reader in a send to the full channel: the reader cannot send, and keeps the lock. *)
LEMMA LockHungStep ==
  ASSUME TypeOK, Wired, LockHeld, OwnRoom, [Next]_vars, NEW p \in Room, LockHung(p)
  PROVE  LockHung(p)' \/ closed'[p]
<1>0. PICK h \in Client : mu[p] = h /\ reader[h] = "type" /\ room[h] = p
  <2>1. mu[p] # None /\ mu[p] # p
    BY DEF LockHung, LockHeld
  <2>2. mu[p] \in Client
    BY <2>1 DEF OwnRoom
  <2> QED
    BY <2>2 DEF LockHeld
<1> USE Capacities DEF TypeOK, Wired, LockHung, Full,
           mapVars, startVars, stopVars, queueVars, eventVars, loopVars, pumpVars, restVars
<1>1. ASSUME NEW c \in Client, NEW id \in RoomID, GetOrCreateRoom(c, id) PROVE LockHung(p)' \/ closed'[p]
  BY SMTT(20), <1>1 DEF GetOrCreateRoom, Warm, Goto
<1>2. ASSUME NEW c \in Client, StartPumps(c) PROVE LockHung(p)' \/ closed'[p]
  BY <1>2 DEF StartPumps
<1>3. ASSUME NEW c \in Client, Register(c) PROVE LockHung(p)' \/ closed'[p]
  BY <1>3 DEF Register
<1>4. ASSUME NEW c \in Client, ReadEvent(c) PROVE LockHung(p)' \/ closed'[p]
  BY <1>4 DEF ReadEvent, ReaderGoto
<1>5. ASSUME NEW c \in Client, ReadFail(c) PROVE LockHung(p)' \/ closed'[p]
  BY <1>5 DEF ReadFail, ReaderGoto
<1>6. ASSUME NEW c \in Client, Relay(c) PROVE LockHung(p)' \/ closed'[p]
  BY <1>6 DEF Relay, ReaderGoto, Broadcast, HasSpace
<1>7. ASSUME NEW c \in Client, LockForTyping(c) PROVE LockHung(p)' \/ closed'[p]
  BY <1>7 DEF LockForTyping, ReaderGoto, Lock
<1>8. ASSUME NEW c \in Client, HandleTypingEvent(c) PROVE LockHung(p)' \/ closed'[p]
  <2>1. c # h
    BY <1>0, <1>8 DEF HandleTypingEvent, Broadcast, HasSpace
  <2>2. room[c] # p
    BY <1>0, <1>8, <2>1 DEF HandleTypingEvent, LockHeld
  <2> QED
    BY <1>8, <2>2 DEF HandleTypingEvent, ReaderGoto, Broadcast, HasSpace, Unlock
<1>9. ASSUME NEW c \in Client, Leave(c) PROVE LockHung(p)' \/ closed'[p]
  BY <1>9 DEF Leave, ReaderGoto, CloseConn
<1>10. ASSUME NEW c \in Client, Write(c) PROVE LockHung(p)' \/ closed'[p]
  BY <1>10 DEF Write
<1>11. ASSUME NEW c \in Client, WriterExit(c) PROVE LockHung(p)' \/ closed'[p]
  BY <1>11 DEF WriterExit, CloseConn
<1>12. ASSUME NEW o \in Room, TakeRegister(o) PROVE LockHung(p)' \/ closed'[p]
  BY <1>12 DEF TakeRegister, Goto
<1>13. ASSUME NEW o \in Room, AddClient(o) PROVE LockHung(p)' \/ closed'[p]
  BY <1>13 DEF AddClient, Goto, Warm
<1>14. ASSUME NEW o \in Room, TellJoin(o) PROVE LockHung(p)' \/ closed'[p]
  BY <1>14 DEF TellJoin, Goto, Broadcast, HasSpace
<1>15. ASSUME NEW o \in Room, TakeUnregister(o) PROVE LockHung(p)' \/ closed'[p]
  BY <1>15 DEF TakeUnregister, Goto
<1>16. ASSUME NEW o \in Room, DropClient(o) PROVE LockHung(p)' \/ closed'[p]
  BY <1>16 DEF DropClient, Goto, Lock, Unseat
<1>17. ASSUME NEW o \in Room, DropUnknown(o) PROVE LockHung(p)' \/ closed'[p]
  BY <1>17 DEF DropUnknown, Goto
<1>18. ASSUME NEW o \in Room, LookupLeave(o) PROVE LockHung(p)' \/ closed'[p]
  BY SMTT(30), <1>18 DEF LookupLeave, Goto, Unlock
<1>19. ASSUME NEW o \in Room, TellLeave(o) PROVE LockHung(p)' \/ closed'[p]
  BY SMTT(30), <1>19 DEF TellLeave, Goto, Broadcast, HasSpace, Unlock
<1>20. ASSUME NEW o \in Room, CheckEmpty(o) PROVE LockHung(p)' \/ closed'[p]
  BY <1>20 DEF CheckEmpty, Goto
<1>21. ASSUME NEW o \in Room, TakeBroadcast(o) PROVE LockHung(p)' \/ closed'[p]
  BY <1>21 DEF TakeBroadcast, Goto, Warm
<1>22. ASSUME NEW o \in Room, FanOut(o) PROVE LockHung(p)' \/ closed'[p]
  BY <1>22 DEF FanOut, Goto
<1>23. ASSUME NEW o \in Room, Tick(o) PROVE LockHung(p)' \/ closed'[p]
  BY <1>23 DEF Tick, Goto
<1>24. ASSUME NEW o \in Room, Sweep(o) PROVE LockHung(p)' \/ closed'[p]
  BY <1>24 DEF Sweep, Goto
<1>25. ASSUME NEW id \in RoomID, Wake(id) PROVE LockHung(p)' \/ closed'[p]
  BY <1>25 DEF Wake
<1>26. CASE RemoveRoom
  BY <1>26 DEF RemoveRoom, Unmap
<1>27. CASE CloseRoom
  BY <1>27 DEF CloseRoom
<1>28. ASSUME NEW id \in RoomID, Cool(id) PROVE LockHung(p)' \/ closed'[p]
  BY <1>28 DEF Cool
<1>29. CASE EvictColdRooms
  BY <1>29 DEF EvictColdRooms, Cold
<1>30. CASE SubscribeToPubSub
  BY <1>30 DEF SubscribeToPubSub
<1>31. CASE Stop
  BY <1>31 DEF Stop, CloseMapped, Mapped
<1>32. CASE StartReturns
  BY <1>32 DEF StartReturns, CloseMapped, Mapped
<1>33. CASE EvictReturns
  BY <1>33 DEF EvictReturns
<1>37. CASE Start
  BY <1>37 DEF Start
<1>34. ASSUME NEW id \in RoomID, BroadcastMessage(id) PROVE LockHung(p)' \/ closed'[p]
  BY <1>34 DEF BroadcastMessage
<1>35. CASE SyncSend
  BY <1>35 DEF SyncSend, Broadcast, HasSpace
<1>36. CASE UNCHANGED vars
  BY <1>36 DEF vars
<1> QED
  BY <1>1, <1>2, <1>3, <1>4, <1>5, <1>6, <1>7, <1>8, <1>9, <1>10, <1>11, <1>12, <1>13, <1>14, <1>15,
     <1>16, <1>17, <1>18, <1>19, <1>20, <1>21, <1>22, <1>23, <1>24, <1>25, <1>26, <1>27, <1>28,
     <1>29, <1>30, <1>31, <1>32, <1>33, <1>34, <1>35, <1>36, <1>37 DEF Next, Connection, ReadPump,
     WritePump, HandleRoom, ManagerStep, SyncLoop

(* Both together. *)
LEMMA HungStep ==
  ASSUME TypeOK, Wired, LockHeld, OwnRoom, [Next]_vars, NEW p \in Room, Hung(p)
  PROVE  Hung(p)' \/ closed'[p]
BY SelfHungStep, LockHungStep DEF Hung

(* After a Stop that missed, no step stops again or ends a goroutine of the manager. *)
LEMMA MissedStep ==
  ASSUME TypeOK, StopMisses, [Next]_vars, stop \in {"unused", "pubsub"}
  PROVE  stop' = stop /\ running \subseteq running'
<1> USE DEF TypeOK, StopMisses, mapVars, startVars, stopVars, queueVars, eventVars, loopVars, pumpVars, restVars
<1>1. ASSUME NEW c \in Client, NEW id \in RoomID, GetOrCreateRoom(c, id) PROVE stop' = stop /\ running \subseteq running'
  BY <1>1 DEF GetOrCreateRoom, Warm, Goto
<1>2. ASSUME NEW c \in Client, StartPumps(c) PROVE stop' = stop /\ running \subseteq running'
  BY <1>2 DEF StartPumps
<1>3. ASSUME NEW c \in Client, Register(c) PROVE stop' = stop /\ running \subseteq running'
  BY <1>3 DEF Register
<1>4. ASSUME NEW c \in Client, ReadEvent(c) PROVE stop' = stop /\ running \subseteq running'
  BY <1>4 DEF ReadEvent, ReaderGoto
<1>5. ASSUME NEW c \in Client, ReadFail(c) PROVE stop' = stop /\ running \subseteq running'
  BY <1>5 DEF ReadFail, ReaderGoto
<1>6. ASSUME NEW c \in Client, Relay(c) PROVE stop' = stop /\ running \subseteq running'
  BY <1>6 DEF Relay, ReaderGoto, Broadcast, HasSpace
<1>7. ASSUME NEW c \in Client, LockForTyping(c) PROVE stop' = stop /\ running \subseteq running'
  BY <1>7 DEF LockForTyping, ReaderGoto, Lock
<1>8. ASSUME NEW c \in Client, HandleTypingEvent(c) PROVE stop' = stop /\ running \subseteq running'
  BY <1>8 DEF HandleTypingEvent, ReaderGoto, Broadcast, HasSpace, Unlock
<1>9. ASSUME NEW c \in Client, Leave(c) PROVE stop' = stop /\ running \subseteq running'
  BY <1>9 DEF Leave, ReaderGoto, CloseConn
<1>10. ASSUME NEW c \in Client, Write(c) PROVE stop' = stop /\ running \subseteq running'
  BY <1>10 DEF Write
<1>11. ASSUME NEW c \in Client, WriterExit(c) PROVE stop' = stop /\ running \subseteq running'
  BY <1>11 DEF WriterExit, CloseConn
<1>12. ASSUME NEW o \in Room, TakeRegister(o) PROVE stop' = stop /\ running \subseteq running'
  BY <1>12 DEF TakeRegister, Goto
<1>13. ASSUME NEW o \in Room, AddClient(o) PROVE stop' = stop /\ running \subseteq running'
  BY <1>13 DEF AddClient, Goto, Warm
<1>14. ASSUME NEW o \in Room, TellJoin(o) PROVE stop' = stop /\ running \subseteq running'
  BY <1>14 DEF TellJoin, Goto, Broadcast, HasSpace
<1>15. ASSUME NEW o \in Room, TakeUnregister(o) PROVE stop' = stop /\ running \subseteq running'
  BY <1>15 DEF TakeUnregister, Goto
<1>16. ASSUME NEW o \in Room, DropClient(o) PROVE stop' = stop /\ running \subseteq running'
  BY <1>16 DEF DropClient, Goto, Lock, Unseat
<1>17. ASSUME NEW o \in Room, DropUnknown(o) PROVE stop' = stop /\ running \subseteq running'
  BY <1>17 DEF DropUnknown, Goto
<1>18. ASSUME NEW o \in Room, LookupLeave(o) PROVE stop' = stop /\ running \subseteq running'
  BY <1>18 DEF LookupLeave, Goto, Unlock
<1>19. ASSUME NEW o \in Room, TellLeave(o) PROVE stop' = stop /\ running \subseteq running'
  BY <1>19 DEF TellLeave, Goto, Broadcast, HasSpace, Unlock
<1>20. ASSUME NEW o \in Room, CheckEmpty(o) PROVE stop' = stop /\ running \subseteq running'
  BY <1>20 DEF CheckEmpty, Goto
<1>21. ASSUME NEW o \in Room, TakeBroadcast(o) PROVE stop' = stop /\ running \subseteq running'
  BY <1>21 DEF TakeBroadcast, Goto, Warm
<1>22. ASSUME NEW o \in Room, FanOut(o) PROVE stop' = stop /\ running \subseteq running'
  BY <1>22 DEF FanOut, Goto
<1>23. ASSUME NEW o \in Room, Tick(o) PROVE stop' = stop /\ running \subseteq running'
  BY <1>23 DEF Tick, Goto
<1>24. ASSUME NEW o \in Room, Sweep(o) PROVE stop' = stop /\ running \subseteq running'
  BY <1>24 DEF Sweep, Goto
<1>25. ASSUME NEW id \in RoomID, Wake(id) PROVE stop' = stop /\ running \subseteq running'
  BY <1>25 DEF Wake
<1>26. CASE RemoveRoom
  BY <1>26 DEF RemoveRoom, Unmap
<1>27. CASE CloseRoom
  BY <1>27 DEF CloseRoom
<1>28. ASSUME NEW id \in RoomID, Cool(id) PROVE stop' = stop /\ running \subseteq running'
  BY <1>28 DEF Cool
<1>29. CASE EvictColdRooms
  BY <1>29 DEF EvictColdRooms, Cold
<1>30. CASE SubscribeToPubSub
  BY <1>30 DEF SubscribeToPubSub
<1>31. CASE Stop
  BY <1>31 DEF Stop, CloseMapped, Mapped
<1>32. CASE StartReturns
  BY <1>32 DEF StartReturns, CloseMapped, Mapped
<1>33. CASE EvictReturns
  BY <1>33 DEF EvictReturns
<1>37. CASE Start
  BY <1>37 DEF Start
<1>34. ASSUME NEW id \in RoomID, BroadcastMessage(id) PROVE stop' = stop /\ running \subseteq running'
  BY <1>34 DEF BroadcastMessage
<1>35. CASE SyncSend
  BY <1>35 DEF SyncSend, Broadcast, HasSpace
<1>36. CASE UNCHANGED vars
  BY <1>36 DEF vars
<1> QED
  BY <1>1, <1>2, <1>3, <1>4, <1>5, <1>6, <1>7, <1>8, <1>9, <1>10, <1>11, <1>12, <1>13, <1>14, <1>15,
     <1>16, <1>17, <1>18, <1>19, <1>20, <1>21, <1>22, <1>23, <1>24, <1>25, <1>26, <1>27, <1>28,
     <1>29, <1>30, <1>31, <1>32, <1>33, <1>34, <1>35, <1>36, <1>37 DEF Next, Connection, ReadPump,
     WritePump, HandleRoom, ManagerStep, SyncLoop

-----------------------------------------------------------------------------
(* A fresh manager satisfies the inductive invariant. *)
LEMMA InitInv == Init => IInv
<1> SUFFICES ASSUME Init PROVE IInv
  OBVIOUS
<1> USE Capacities DEF Init
<1>1. TypeOK
  BY DEF TypeOK
<1>2. Wired /\ LockHeld
  BY DEF Wired, LockHeld
<1>3. Seated
  BY DEF Seated, SeatedIn, Waiting
<1>4. Closable /\ MappedRoomOpen /\ MappedRoomTracked /\ OnlySendsPanic
  BY DEF Closable, MappedRoomOpen, MappedRoomTracked, OnlySendsPanic
<1>5. OwnRoom
  BY DEF OwnRoom
<1>6. WaitsAtHome
  BY <1>1, <1>2, <1>5, WaitsLemma
<1>7. OverIsClosed /\ StopMisses
  BY DEF OverIsClosed, StopMisses
<1>8. LeavesOnce
  BY DEF LeavesOnce, OnTheWayOut, Left
<1> QED
  BY <1>1, <1>2, <1>3, <1>4, <1>5, <1>6, <1>7, <1>8 DEF IInv

(* And every step keeps it. *)
LEMMA StepInv == IInv /\ [Next]_vars => IInv'
<1> SUFFICES ASSUME IInv, [Next]_vars PROVE IInv'
  OBVIOUS
<1>1. TypeOK' /\ Wired' /\ Seated' /\ LeavesOnce' /\ Closable' /\ LockHeld'
  BY TypeStep, WiredStep, SeatedStep, OutStep, ClosableStep, LockStep DEF IInv
<1>2. MappedRoomOpen' /\ MappedRoomTracked' /\ OnlySendsPanic' /\ OwnRoom'
  BY MappedStep, TrackedStep, PanicStep, OwnStep DEF IInv
<1>3. (TypeOK /\ Wired /\ LockHeld /\ OwnRoom => WaitsAtHome)'
  BY WaitsLemma, PTL
<1>4. WaitsAtHome'
  BY <1>1, <1>2, <1>3
<1>5. OverIsClosed' /\ StopMisses'
  BY EndsStep DEF IInv
<1> QED
  BY <1>1, <1>2, <1>4, <1>5 DEF IInv

(* In every reachable state each goroutine has what its place in the code needs. *)
THEOREM Invariance == Spec => []IInv
<1>1. Init => IInv
  BY InitInv
<1>2. IInv /\ [Next]_vars => IInv'
  BY StepInv
<1> QED
  BY <1>1, <1>2, PTL DEF Spec

(* The channels stay within their capacities, and every variable keeps its type. *)
THEOREM TypeCorrect == Spec => []TypeOK
<1>1. IInv => TypeOK
  BY DEF IInv
<1> QED
  BY <1>1, Invariance, PTL

(* No event is sent to a closed client channel nor to a client of another room. *)
THEOREM FanoutIsSafe == Spec => []FanoutSafe
<1>1. IInv => FanoutSafe
  BY DEF IInv, Seated, SeatedIn, FanoutSafe
<1> QED
  BY <1>1, Invariance, PTL

(* A room that can be found has an open channel, unless Stop closed it. *)
THEOREM MappedRoomsAreOpen == Spec => []MappedRoomOpen
<1>1. IInv => MappedRoomOpen
  BY DEF IInv
<1> QED
  BY <1>1, Invariance, PTL

(* Every mapped room is known to the eviction pass. *)
THEOREM MappedRoomsAreTracked == Spec => []MappedRoomTracked
<1>1. IInv => MappedRoomTracked
  BY DEF IInv
<1> QED
  BY <1>1, Invariance, PTL

(* No fan-out panics, and no channel is closed twice unless Stop found a room mapped. *)
THEOREM OnlyASendPanics == Spec => []OnlySendsPanic
<1>1. IInv => OnlySendsPanic
  BY DEF IInv
<1> QED
  BY <1>1, Invariance, PTL

(* room.mu is held by who is between its lock and its unlock, and by nobody else. *)
THEOREM LockDiscipline == Spec => []LockHeld
<1>1. IInv => LockHeld
  BY DEF IInv
<1> QED
  BY <1>1, Invariance, PTL

(* A room's goroutine waits for a reader that can go on, or for space in the channel of a *)
(* room of its own id; never for a lock whose holder waits for another lock.              *)
THEOREM RoomsWaitAtHome == Spec => []WaitsAtHome
<1>1. IInv => WaitsAtHome
  BY DEF IInv
<1> QED
  BY <1>1, Invariance, PTL

(* The step of one room's goroutine leaves alone the channels, the lock, the clients and *)
(* the goroutine of every room of another id.                                            *)
THEOREM RoomsKeepApart == Spec => RoomsApart
<1> DEFINE Apart == \A o, p \in Room : (HandleRoom(o) /\ home[p] # home[o]) => Untouched(p)
<1>1. IInv => Apart
  BY ApartStep DEF IInv
<1>2. IInv /\ [Next]_vars => [Apart]_vars
  BY <1>1
<1>3. [][Apart]_vars => RoomsApart
  BY PTL DEF RoomsApart
<1> QED
  BY <1>2, <1>3, Invariance, PTL DEF Spec

(* A room's goroutine that tells its own full channel of a join or a leave, or waits for *)
(* the lock of a reader in a send to it, stays there until the channel is closed.        *)
THEOREM HungRoomsStayHung == Spec => HangsForGood
<1> DEFINE Stays == \A o \in Room : Hung(o) => Hung(o)' \/ closed'[o]
<1>1. IInv /\ [Next]_vars => [Stays]_vars
  BY HungStep DEF IInv
<1>2. [][Stays]_vars => HangsForGood
  BY PTL DEF HangsForGood
<1> QED
  BY <1>1, <1>2, Invariance, PTL DEF Spec

(* A reader's unregister is never forgotten: its client is dropped, or was not in the room *)
(* yet and is passed over, and then it stays in the room it is put in later for good.      *)
THEOREM LeaversAreDroppedOrPassedOver == Spec => LeaversAreHeard
<1> DEFINE Heard == \A o \in Room, c \in Client :
      /\ (room[c] = o /\ Leaving(c, o)) =>
           \/ Leaving(c, o)'
           \/ c \in clients[o] /\ c \notin clients'[o] /\ sendClosed'[c]
           \/ c \notin clients[o] /\ PassedOver(c, o)'
      /\ PassedOver(c, o) => PassedOver(c, o)' /\ (c \in clients[o] => c \in clients'[o])
<1>1. IInv /\ [Next]_vars => Heard
  BY HeardStep, PassedOverStep DEF IInv
<1>2. [][Heard]_vars => LeaversAreHeard
  BY PTL DEF LeaversAreHeard
<1> HIDE DEF Heard
<1>3. IInv /\ [Next]_vars => [Heard]_vars
  BY <1>1
<1> QED
  BY <1>2, <1>3, Invariance, PTL DEF Spec

(* Once a room was found empty the request to remove it is kept until its id is free. *)
THEOREM RemovalsStayAsked == Spec => RemovalStaysAsked
<1> DEFINE Kept == \A id \in RoomID : Asked(id) => Asked(id)' \/ rooms'[id] = None
<1>1. IInv /\ [Next]_vars => [Kept]_vars
  BY AskedStep DEF IInv
<1>2. [][Kept]_vars => RemovalStaysAsked
  BY PTL DEF RemovalStaysAsked
<1> QED
  BY <1>1, <1>2, Invariance, PTL DEF Spec

(* When one pump of a connection has ended, the connection is closed, which ends the other. *)
THEOREM PumpsCloseTheConnection == Spec => []OverIsClosed
<1>1. IInv => OverIsClosed
  BY DEF IInv
<1> QED
  BY <1>1, Invariance, PTL

(* The manager's goroutines end by a Stop that comes after Start and before the subscription *)
(* only; a Stop at any other time leaves them running, or about to be started, for good.     *)
THEOREM StopMayMissTheManager == Spec => []StopMisses /\ MissedForGood
<1> DEFINE Missed == stop \in {"unused", "pubsub"} => stop' = stop /\ running \subseteq running'
<1>1. IInv => StopMisses
  BY DEF IInv
<1>2. IInv /\ [Next]_vars => [Missed]_vars
  BY MissedStep DEF IInv
<1>3. [][Missed]_vars => MissedForGood
  BY PTL DEF MissedForGood
<1> QED
  BY <1>1, <1>2, <1>3, Invariance, PTL DEF Spec

=============================================================================
