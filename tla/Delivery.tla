------------------------------ MODULE Delivery ------------------------------
(***************************************************************************)
(* How a message that was announced on Redis reaches the clients of one    *)
(* node: SyncEngine.syncLoop (internal/persistence/sync.go) takes it from  *)
(* the subscription and hands it to BroadcastMessage, handleRoom           *)
(* (internal/rooms/manager.go) fans it out, writePump                      *)
(* (internal/rooms/client.go) writes it to the connection.                 *)
(*                                                                         *)
(* Rooms has the same goroutines, and events that are all alike.  Here an  *)
(* event is the index of its message in what Redis published, or Local: a  *)
(* join, a leave or typing.  What is done with room.mu held is one step,   *)
(* except where a goroutine blocks that holds it: the room in a send to    *)
(* itself, and a reader that types into a full channel.  What peers relay  *)
(* is left to Rooms.  Nodes share nothing but what Redis published, so one *)
(* node is enough.                                                         *)
(***************************************************************************)
EXTENDS Naturals, Sequences

CONSTANTS
  Client, Room,
  Object,        \* *Room objects; each is allocated at most once
  None,
  BroadcastCap,  \* cap(room.broadcast), 256 in the code
  SendCap,       \* cap(client.send), 256 in the code
  MaxEvents,     \* bound: messages published
  Typist,        \* bound: the clients that type
  MaxLost        \* bound: messages the subscription misses

Local == 0

ASSUME DeliveryAssumption ==
  /\ None \notin Room \cup Object /\ Typist \subseteq Client
  /\ {BroadcastCap, SendCap} \subseteq Nat \ {0}
  /\ {MaxEvents, MaxLost} \subseteq Nat

VARIABLES
  log,       \* the rooms of the messages published; a message is its index
  inbox,     \* messages in pubsub.Channel()
  hand,      \* the message syncLoop is about to send, or Local
  target,    \* the object it sends that to
  home,      \* per object: room.ID
  mapped,    \* the objects in m.rooms
  closed,    \* the objects whose channel is closed
  sleepers,  \* per room: requests to remove it that are under way
  broadcast, \* per object: room.broadcast, behind the event its loop is about to "fan" out
  loop,      \* per object: its goroutine is in "select", about to tell of a "join" or "leave",
             \* or waits for room.mu, to "fan" an event out or for any other case ("lock")
  dest,      \* per object: the object it tells
  typing,    \* the objects whose room.mu a reader has that is blocked in HandleTypingEvent
  obj,       \* per client: client.room
  seat,      \* per client: "out", "queued" in room.register, "in" room.clients, "left"
  leave,     \* per client: "no", "asked" once its connection ended, "done" once the room knows
  send,      \* per client: client.send
  due,       \* per client: what it is owed, the messages of its room that it may expect to see
  shown,     \* per client: the messages written to its connection
  panic      \* a send to a closed channel killed the process

syncVars   == <<inbox, hand, target>>
mapVars    == <<home, mapped, closed, sleepers>>
loopVars   == <<loop, dest, typing>>
seatVars   == <<obj, seat, leave>>
clientVars == <<send, due, shown>>
vars == <<log, syncVars, mapVars, broadcast, loopVars, seatVars, clientVars, panic>>

Event == 1..MaxEvents

(* The event that is about to be fanned out is no longer in the channel. *)
Space(o) == IF loop[o] = "fan" THEN BroadcastCap + 1 ELSE BroadcastCap
Full(o)  == Len(broadcast[o]) = Space(o)

TypeOK ==
  /\ log \in Seq(Room) /\ Len(log) <= MaxEvents
  /\ inbox \in Seq(Event)
  /\ hand \in Event \cup {Local} /\ target \in Object \cup {None}
  /\ home \in [Object -> Room \cup {None}]
  /\ mapped \subseteq Object /\ closed \subseteq Object
  /\ sleepers \in [Room -> Nat]
  /\ broadcast \in [Object -> Seq(Event \cup {Local})]
  /\ \A o \in Object : Len(broadcast[o]) <= Space(o)
  /\ loop \in [Object -> {"select", "lock", "fan", "join", "leave"}]
  /\ dest \in [Object -> Object \cup {None}]
  /\ typing \subseteq Object
  /\ obj \in [Client -> Object \cup {None}]
  /\ seat \in [Client -> {"out", "queued", "in", "left"}]
  /\ leave \in [Client -> {"no", "asked", "done"}]
  /\ send \in [Client -> Seq(Event \cup {Local})]
  /\ \A c \in Client : Len(send[c]) <= SendCap
  /\ due \in [Client -> SUBSET Event]
  /\ shown \in [Client -> Seq(Event)]
  /\ panic \in BOOLEAN

Init ==
  /\ log = <<>> /\ inbox = <<>> /\ hand = Local /\ target = None
  /\ home = [o \in Object |-> None] /\ mapped = {} /\ closed = {}
  /\ sleepers = [r \in Room |-> 0]
  /\ broadcast = [o \in Object |-> <<>>]
  /\ loop = [o \in Object |-> "select"] /\ dest = [o \in Object |-> None] /\ typing = {}
  /\ obj = [c \in Client |-> None] /\ seat = [c \in Client |-> "out"]
  /\ leave = [c \in Client |-> "no"]
  /\ send = [c \in Client |-> <<>>] /\ due = [c \in Client |-> {}]
  /\ shown = [c \in Client |-> <<>>]
  /\ panic = FALSE

-----------------------------------------------------------------------------
(* room.broadcast <- e *)
Broadcast(o, e) ==
  IF o \in closed
  THEN panic' = TRUE /\ UNCHANGED broadcast
  ELSE /\ Len(broadcast[o]) < Space(o)
       /\ broadcast' = [broadcast EXCEPT ![o] = Append(@, e)]
       /\ UNCHANGED panic

(* The objects that can be found under a room id: one or none. *)
Mapped(r) == {o \in mapped : home[o] = r}

In(O) == {c \in Client : obj[c] \in O /\ seat[c] = "in"}
Forgive(C, I) == due' = [c \in Client |-> IF c \in C THEN due[c] \ I ELSE due[c]]

-----------------------------------------------------------------------------
(* Redis and syncLoop *)

(* A writer of some node announces a message.  The clients in its room may expect to *)
(* see it, unless the subscription misses it: Redis hands it to who is connected, and *)
(* go-redis drops it when nobody takes it off its channel.                            *)
Publish(r) ==
  /\ Len(log) < MaxEvents /\ log' = Append(log, r)
  /\ LET i == Len(log) + 1 IN
       \/ /\ inbox' = Append(inbox, i)
          /\ due' = [c \in Client |-> IF c \in In(Mapped(r)) THEN due[c] \cup {i} ELSE due[c]]
       \/ i <= MaxLost /\ UNCHANGED <<inbox, due>>
  /\ UNCHANGED <<hand, target, mapVars, broadcast, loopVars, seatVars, send, shown, panic>>

TakesLast == inbox[Len(inbox)]                                            \* mutant
NextEvent == Head(inbox)

(* The lookup of BroadcastMessage.  A room that is not mapped gets nothing. *)
BroadcastMessage ==
  /\ hand = Local /\ inbox # <<>> /\ inbox' = Tail(inbox)
  /\ LET i == NextEvent IN
       \/ Mapped(log[i]) = {} /\ UNCHANGED <<hand, target>>
       \/ \E o \in Mapped(log[i]) : hand' = i /\ target' = o
  /\ UNCHANGED <<log, mapVars, broadcast, loopVars, seatVars, clientVars, panic>>

SyncSend ==
  /\ hand # Local /\ Broadcast(target, hand)
  /\ hand' = Local /\ target' = None
  /\ UNCHANGED <<log, inbox, mapVars, loopVars, seatVars, clientVars>>

-----------------------------------------------------------------------------
(* handleRoom *)

(* Whatever the select took (the ticker, too, may fire at any time), the loop locks *)
(* room.mu next.  It may have to wait for it, and does so with the event in hand.   *)
GoTo(o, l) == loop' = [loop EXCEPT ![o] = l] /\ UNCHANGED <<dest, typing>>

HasEvent(o)  == broadcast[o] # <<>> \/ o \in closed
TakeEvent(o) == HasEvent(o) /\ GoTo(o, "fan")
Wait(o) ==
  /\ loop[o] = "select" /\ o \in typing
  /\ TakeEvent(o) \/ GoTo(o, "lock")
  /\ UNCHANGED <<log, syncVars, mapVars, broadcast, seatVars, clientVars, panic>>

HasLock(o) == loop[o] \in {"select", "lock"} /\ o \notin typing

(* The sweep of the typing indicators, which changes nothing else. *)
Tick(o) ==
  /\ HasLock(o) /\ GoTo(o, "select")
  /\ UNCHANGED <<log, syncVars, mapVars, broadcast, seatVars, clientVars, panic>>

(* The client in hand joined or left: the room that can be found now is told of it. *)
Tells(o, what) == \E d \in Mapped(home[o]) :
  loop' = [loop EXCEPT ![o] = what] /\ dest' = [dest EXCEPT ![o] = d] /\ UNCHANGED typing
TellsNobody(o) == Mapped(home[o]) = {} /\ GoTo(o, "select")

(* A room that is found empty is to be removed. *)
CheckEmpty(o, C) ==
  sleepers' = IF C = {} THEN [sleepers EXCEPT ![home[o]] = @ + 1] ELSE sleepers

AddClient(o, c) ==
  /\ HasLock(o) /\ obj[c] = o /\ seat[c] = "queued"
  /\ seat' = [seat EXCEPT ![c] = "in"]
  /\ Tells(o, "join") \/ TellsNobody(o)
  /\ UNCHANGED <<log, syncVars, mapVars, broadcast, obj, leave, clientVars, panic>>

Unregister(o, c) ==
  /\ HasLock(o) /\ obj[c] = o
  /\ leave[c] = "asked" /\ leave' = [leave EXCEPT ![c] = "done"]

(* Out of the room, with what is left in its channel. *)
DropClient(o, c) ==
  /\ Unregister(o, c) /\ seat[c] = "in" /\ seat' = [seat EXCEPT ![c] = "left"]
  /\ obj' = [obj EXCEPT ![c] = None]
  /\ send' = [send EXCEPT ![c] = <<>>]
  /\ Forgive({c}, Event)
  /\ shown' = [shown EXCEPT ![c] = <<>>]
  /\ \/ Tells(o, "leave") /\ UNCHANGED sleepers
     \/ TellsNobody(o) /\ CheckEmpty(o, In({o}) \ {c})
  /\ UNCHANGED <<log, syncVars, home, mapped, closed, broadcast, panic>>

(* A client that is still in room.register is passed over, and stays for good. *)
DropUnknown(o, c) ==
  /\ Unregister(o, c) /\ seat[c] = "queued" /\ CheckEmpty(o, In({o})) /\ GoTo(o, "select")
  /\ UNCHANGED <<log, syncVars, home, mapped, closed, broadcast, obj, seat, clientVars, panic>>

(* BroadcastUserEvent, after a leave with room.mu held; then comes the check. *)
BroadcastUserEvent(o) ==
  /\ loop[o] \in {"join", "leave"} /\ Broadcast(dest[o], Local)
  /\ IF loop[o] = "leave" THEN CheckEmpty(o, In({o})) ELSE UNCHANGED sleepers
  /\ loop' = [loop EXCEPT ![o] = "select"] /\ dest' = [dest EXCEPT ![o] = None]
  /\ UNCHANGED <<log, syncVars, home, mapped, closed, typing, seatVars, clientVars>>

(* Everybody in the room gets the event, except who has no space for it.  A closed  *)
(* channel that is drained yields nil, again and again.                             *)
FanOut(o) ==
  /\ loop[o] = "fan" \/ (loop[o] = "select" /\ HasEvent(o))
  /\ o \notin typing /\ GoTo(o, "select")
  /\ broadcast' = [broadcast EXCEPT ![o] = IF @ = <<>> THEN @ ELSE Tail(@)]
  /\ LET e    == IF broadcast[o] = <<>> THEN Local ELSE Head(broadcast[o])
         full == {c \in In({o}) : Len(send[c]) >= SendCap} IN
       /\ send' = [c \in Client |->
                     IF c \in In({o}) \ full THEN Append(send[c], e) ELSE send[c]]
       /\ Forgive(full, {e})
  /\ UNCHANGED <<log, syncVars, mapVars, seatVars, shown, panic>>

-----------------------------------------------------------------------------
(* HandleTypingEvent, called by the reader of a connection.  If there is no space *)
(* for the event the reader waits for it with room.mu held.                       *)
CanType(o) ==
  /\ \E c \in Typist : obj[c] = o /\ leave[c] = "no"
  /\ o \notin typing /\ loop[o] # "leave"

HandleTypingEvent(o) ==
  /\ CanType(o)
  /\ \/ Broadcast(o, Local) /\ UNCHANGED typing
     \/ o \notin closed /\ Full(o) /\ typing' = typing \cup {o} /\ UNCHANGED <<broadcast, panic>>
  /\ UNCHANGED <<log, syncVars, mapVars, loop, dest, seatVars, clientVars>>

SendTyping(o) ==
  /\ o \in typing /\ Broadcast(o, Local) /\ typing' = typing \ {o}
  /\ UNCHANGED <<log, syncVars, mapVars, loop, dest, seatVars, clientVars>>

-----------------------------------------------------------------------------
(* The manager *)

(* removeRoom, a minute or more after the room was found empty. *)
RemoveRoom(r) ==
  /\ sleepers[r] > 0 /\ sleepers' = [sleepers EXCEPT ![r] = @ - 1]
  /\ mapped' = mapped \ Mapped(r) /\ closed' = closed \cup Mapped(r)
  /\ Forgive(In(Mapped(r)), Event)
  /\ UNCHANGED <<log, syncVars, home, broadcast, loopVars, seatVars, send, shown, panic>>

EvenOccupied(o) == o \in mapped                                           \* mutant
Evictable(o) == o \in mapped /\ In({o}) = {}

(* evictColdRooms *)
EvictRoom(o) ==
  /\ Evictable(o) /\ mapped' = mapped \ {o}
  /\ UNCHANGED <<log, syncVars, home, closed, sleepers, broadcast, loopVars, seatVars, clientVars,
                 panic>>

-----------------------------------------------------------------------------
(* Clients *)

(* Which of the objects that were never used is allocated makes no difference. *)
NewRoom   == CHOOSE o \in Object : home[o] = None
NewClient == CHOOSE c \in Client : seat[c] = "out"

(* A connection opens: NewClient and GetOrCreateRoom, up to the entry in room.register. *)
GetOrCreateRoom(r) ==
  /\ \E c \in Client : seat[c] = "out"
  /\ seat' = [seat EXCEPT ![NewClient] = "queued"]
  /\ \/ /\ \E o \in Mapped(r) : obj' = [obj EXCEPT ![NewClient] = o]
        /\ UNCHANGED <<home, mapped>>
     \/ /\ Mapped(r) = {} /\ \E o \in Object : home[o] = None
        /\ home' = [home EXCEPT ![NewRoom] = r]
        /\ mapped' = mapped \cup {NewRoom}
        /\ obj' = [obj EXCEPT ![NewClient] = NewRoom]
  /\ UNCHANGED <<log, syncVars, closed, sleepers, broadcast, loopVars, leave, clientVars,
                 panic>>

(* writePump *)
WritePump(c) ==
  /\ send[c] # <<>> /\ leave[c] = "no"
  /\ send' = [send EXCEPT ![c] = Tail(@)]
  /\ Forgive({c}, {Head(send[c])})
  /\ shown' = IF Head(send[c]) = Local THEN shown
              ELSE [shown EXCEPT ![c] = Append(@, Head(send[c]))]
  /\ UNCHANGED <<log, syncVars, mapVars, broadcast, loopVars, seatVars, panic>>

(* The connection ends, from either side. *)
Leave(c) ==
  /\ seat[c] \in {"queued", "in"} /\ leave[c] = "no" /\ leave' = [leave EXCEPT ![c] = "asked"]
  /\ UNCHANGED <<log, syncVars, mapVars, broadcast, loopVars, obj, seat, clientVars, panic>>

-----------------------------------------------------------------------------
SyncLoop      == BroadcastMessage \/ SyncSend
Select(o)     == Wait(o) \/ FanOut(o) \/ Tick(o)
                 \/ \E c \in Client : AddClient(o, c) \/ DropClient(o, c) \/ DropUnknown(o, c)
HandleRoom(o) == Select(o) \/ BroadcastUserEvent(o)
Typing(o)     == HandleTypingEvent(o) \/ SendTyping(o)

Next ==
  /\ ~panic
  /\ \/ \E r \in Room : Publish(r) \/ RemoveRoom(r) \/ GetOrCreateRoom(r)
     \/ SyncLoop
     \/ \E o \in Object : HandleRoom(o) \/ Typing(o) \/ EvictRoom(o)
     \/ \E c \in Client : WritePump(c) \/ Leave(c)

Spec == Init /\ [][Next]_vars

(* The goroutines go on when they can.  Among the cases of a select the one of an event *)
(* gets its turn, and so does a sender among those who wait for a place in a channel.   *)
(* Peers, Redis and the clock owe nothing.                                              *)
GetsItsTurn(o) == FanOut(o) \/ (Wait(o) /\ TakeEvent(o)) \/ BroadcastUserEvent(o)
Fairness ==
  /\ SF_vars(~panic /\ SyncLoop)
  /\ \A o \in Object : /\ SF_vars(~panic /\ GetsItsTurn(o))
                       /\ WF_vars(~panic /\ (Tick(o) \/ SendTyping(o)))
  /\ \A c \in Client : WF_vars(~panic /\ WritePump(c))

FairSpec == Spec /\ Fairness

-----------------------------------------------------------------------------
(* Why the messages of a room stay in order: the further an event has come, the *)
(* older it is, and a room id is mapped to one object at most.                   *)
On(q) == {q[k] : k \in DOMAIN q}
Before(I, J) == \A i \in I \ {Local}, j \in J \ {Local} : i < j
Ascending(q) == \A j, k \in DOMAIN q : j < k => Before({q[j]}, {q[k]})

Sorted ==
  LET next == {hand} \cup On(inbox) IN
  /\ Ascending(inbox) /\ Before({hand}, On(inbox))
  /\ \A o \in Object : Ascending(broadcast[o]) /\ Before(On(broadcast[o]), next)
  /\ \A c \in Client :
       /\ Ascending(send[c]) /\ Before(On(shown[c]), On(send[c]))
       /\ Before(On(shown[c]) \cup On(send[c]), next)
       /\ obj[c] # None => Before(On(shown[c]) \cup On(send[c]), On(broadcast[obj[c]]))

OfRoom(I, o) == \A i \in I \ {Local} : i \in DOMAIN log /\ log[i] = home[o]
Routed ==
  /\ On(inbox) \subseteq DOMAIN log
  /\ target # None => OfRoom({hand}, target)
  /\ \A o \in Object : OfRoom(On(broadcast[o]), o)
  /\ \A c \in Client : obj[c] # None => OfRoom(On(shown[c]) \cup On(send[c]), obj[c])

Wired ==
  /\ hand = Local <=> target = None
  /\ \A o \in Object : home[o] = None =>
       broadcast[o] = <<>> /\ o \notin mapped \cup closed
  /\ \A o, p \in mapped : home[o] = home[p] => o = p
  /\ mapped \cap closed = {}
  /\ \A o \in Object :
       /\ loop[o] \in {"join", "leave"} => dest[o] # None /\ home[dest[o]] # None
       /\ o \in typing => home[o] # None /\ loop[o] # "leave"
  /\ \A c \in Client :
       /\ obj[c] = None <=> seat[c] \in {"out", "left"}
       /\ obj[c] # None => home[obj[c]] # None
       /\ seat[c] # "in" => send[c] = <<>> /\ shown[c] = <<>>

(* A debt is about messages of the room the client is in. *)
Owed == \A c \in Client : due[c] # {} =>
  seat[c] = "in" /\ obj[c] \in mapped /\ OfRoom(due[c], obj[c])

(* The clients of the node see the timeline of their room (sync.go:67-71,       *)
(* manager.go:243-258, client.go:130-143).                                      *)
RoomOf == [c \in Client |-> IF obj[c] = None THEN None ELSE home[obj[c]]]
TL == INSTANCE Timeline WITH room <- RoomOf
ImplementsTimeline == TL!Spec

(* A message that a client is owed is on its way to it.  The debt ends when the *)
(* message is written to the connection, when the client's channel is full      *)
(* (manager.go:249-256), when the client leaves, and when its room is removed   *)
(* (manager.go:187-198): in no other way can a message vanish.                  *)
OnItsWay(c) == On(inbox) \cup (IF target = obj[c] THEN {hand} ELSE {})
                 \cup On(broadcast[obj[c]]) \cup On(send[c])
NothingVanishes == \A c \in Client : due[c] # {} => due[c] \subseteq OnItsWay(c)

IInv == TypeOK /\ Sorted /\ Routed /\ Wired /\ Owed /\ NothingVanishes

(* It never moves back: what has come to the client's channel, to the room's, or *)
(* to syncLoop's send stays there or moves on, whatever is removed, evicted or    *)
(* created anew meanwhile, and the debt ends only when the message is written or  *)
(* where the code gives it up (manager.go:151-159, 243-258).                      *)
AtClient(c) == On(send[c])
AtRoom(c)   == AtClient(c) \cup On(broadcast[obj[c]])
AtSend(c)   == AtRoom(c) \cup (IF target = obj[c] THEN {hand} ELSE {})

MovesOn(c, i) ==
  /\ i \in AtClient(c) => i \in AtClient(c)'
  /\ i \in AtRoom(c)   => i \in AtRoom(c)'
  /\ i \in AtSend(c)   => i \in AtSend(c)'
Settled(c, i) ==
  \/ i \in On(shown[c])'
  \/ Len(send[c]) >= SendCap \/ seat'[c] = "left" \/ obj[c] \notin mapped'

DebtsMoveOn == [][\A c \in Client : \A i \in due[c] :
  IF i \in due'[c] THEN MovesOn(c, i) ELSE Settled(c, i)]_vars

(* The debt does end, unless the client is leaving or a room hangs: its own, or  *)
(* the one syncLoop is in the middle of a send to, which holds up the events of  *)
(* all rooms (sync.go:69).  A room hangs in a send to itself (manager.go:216,    *)
(* 223), and when it waits for room.mu (208, 219, 233, 249, 261) while a reader  *)
(* has it who types into the channel that only the room could empty (43).        *)
Hangs(o) ==
  /\ o # None /\ Full(o)
  /\ \/ loop[o] \in {"join", "leave"} /\ dest[o] = o
     \/ loop[o] \in {"lock", "fan"} /\ o \in typing
Told == \A c \in Client, i \in Event :
  []<>(i \notin due[c] \/ leave[c] # "no" \/ Hangs(obj[c]) \/ Hangs(target) \/ panic)

=============================================================================
