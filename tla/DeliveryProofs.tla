--------------------------- MODULE DeliveryProofs ---------------------------
(***************************************************************************)
(* For any clients, rooms and channel capacities: delivery implements      *)
(* Timeline, and no message vanishes but where Delivery says so.           *)
(***************************************************************************)
EXTENDS Delivery, SequenceTheorems, TLAPS

(* Queues: p is q with e at its end; p is q without e at its head. *)
Appended(p, q, e) == p = Append(q, e)
Removed(p, q, e)  == q # <<>> /\ p = Tail(q) /\ e = Head(q)

LEMMA OnEmpty == On(<<>>) = {} /\ Ascending(<<>>)
  BY DEF On, Ascending, Before

LEMMA OnAppend ==
  ASSUME NEW S, NEW q \in Seq(S), NEW e \in S, NEW p, Appended(p, q, e)
  PROVE  /\ p \in Seq(S) /\ Len(p) = Len(q) + 1 /\ Len(q) \in Nat
         /\ \A x : x \in On(p) <=> x \in On(q) \/ x = e
         /\ Ascending(q) /\ Before(On(q), {e}) => Ascending(p)
<1>1. /\ p \in Seq(S) /\ Len(p) = Len(q) + 1 /\ Len(q) \in Nat
      /\ DOMAIN q = 1..Len(q) /\ DOMAIN p = 1..(Len(q) + 1)
      /\ \A k \in 1..Len(q) : p[k] = q[k]
      /\ p[Len(q) + 1] = e
  BY AppendProperties DEF Appended
<1>2. \A k \in 1..(Len(q) + 1) : k \in 1..Len(q) \/ k = Len(q) + 1
  BY <1>1
<1>3. \A x : x \in On(p) <=> x \in On(q) \/ x = e
  <2>1. On(p) \subseteq On(q) \cup {e}
    BY <1>1, <1>2 DEF On
  <2>2. \A k \in 1..Len(q) : q[k] \in On(p)
    BY <1>1 DEF On
  <2>3. e \in On(p)
    BY <1>1 DEF On
  <2> QED BY <1>1, <2>1, <2>2, <2>3 DEF On
<1>4. ASSUME Ascending(q), Before(On(q), {e}) PROVE Ascending(p)
  <2> SUFFICES ASSUME NEW j \in DOMAIN p, NEW k \in DOMAIN p, j < k
               PROVE  Before({p[j]}, {p[k]})
    BY DEF Ascending
  <2>1. j \in 1..Len(q) /\ p[j] = q[j]
    BY <1>1
  <2>2. CASE k \in 1..Len(q)
    BY <1>1, <1>4, <2>1, <2>2 DEF Ascending
  <2>3. CASE k = Len(q) + 1
    <3>1. q[j] \in On(q) /\ p[k] = e
      BY <1>1, <2>1, <2>3 DEF On
    <3> QED BY <1>4, <2>1, <3>1 DEF Before
  <2> QED BY <1>1, <1>2, <2>2, <2>3
<1> QED BY <1>1, <1>3, <1>4

LEMMA OnTail ==
  ASSUME NEW S, NEW q \in Seq(S), NEW p, NEW e, Removed(p, q, e)
  PROVE  /\ e \in S /\ p \in Seq(S) /\ Len(p) < Len(q) /\ Len(p) \in Nat /\ Len(q) \in Nat
         /\ \A x : x \in On(q) <=> x = e \/ x \in On(p)
         /\ Ascending(q) => Ascending(p) /\ Before({e}, On(p))
<1>1. /\ e \in S /\ p \in Seq(S) /\ Len(p) = Len(q) - 1
      /\ \A k \in 1..(Len(q) - 1) : p[k] = q[k + 1]
  BY HeadTailProperties DEF Removed
<1>2. /\ Len(q) \in Nat \ {0} /\ DOMAIN q = 1..Len(q) /\ DOMAIN p = 1..(Len(q) - 1)
      /\ e = q[1]
  BY <1>1 DEF Removed
<1>3. /\ \A k \in 1..(Len(q) - 1) : k + 1 \in 1..Len(q) /\ 1 < k + 1
      /\ \A k \in 1..Len(q) : k # 1 => k - 1 \in 1..(Len(q) - 1) /\ (k - 1) + 1 = k
      /\ \A j, k \in 1..(Len(q) - 1) : j < k => j + 1 < k + 1
      /\ 1 \in 1..Len(q)
  BY <1>2
<1>4. \A x : x \in On(q) <=> x = e \/ x \in On(p)
  <2>1. \A k \in 1..Len(q) : k # 1 => q[k] \in On(p)
    <3> SUFFICES ASSUME NEW k \in 1..Len(q), k # 1 PROVE q[k] \in On(p)
      OBVIOUS
    <3>1. k - 1 \in DOMAIN p /\ p[k - 1] = q[k]
      BY <1>1, <1>2, <1>3
    <3> QED BY <3>1 DEF On
  <2>2. \A k \in 1..(Len(q) - 1) : p[k] \in On(q)
    BY <1>1, <1>2, <1>3 DEF On
  <2>3. e \in On(q)
    BY <1>2, <1>3 DEF On
  <2> QED BY <1>2, <2>1, <2>2, <2>3 DEF On
<1>5. ASSUME Ascending(q) PROVE Ascending(p)
  <2> SUFFICES ASSUME NEW j \in 1..(Len(q) - 1), NEW k \in 1..(Len(q) - 1), j < k
               PROVE  Before({p[j]}, {p[k]})
    BY <1>2 DEF Ascending
  <2>1. p[j] = q[j + 1] /\ p[k] = q[k + 1]
    BY <1>1
  <2>2. j + 1 \in DOMAIN q /\ k + 1 \in DOMAIN q /\ j + 1 < k + 1
    BY <1>2, <1>3
  <2> QED BY <1>5, <2>1, <2>2 DEF Ascending
<1>6. ASSUME Ascending(q) PROVE Before({e}, On(p))
  <2>1. \A k \in 1..(Len(q) - 1) : Before({q[1]}, {q[k + 1]})
    BY <1>2, <1>3, <1>6 DEF Ascending
  <2>2. \A i \in On(p) : Before({q[1]}, {i})
    BY <1>1, <1>2, <2>1 DEF On
  <2> QED BY <1>2, <2>2 DEF Before
<1> QED BY <1>1, <1>2, <1>4, <1>5, <1>6

-----------------------------------------------------------------------------
(* The steps *)
Place == {"select", "lock", "fan", "join", "leave"}
USE DEF Place, Space

LEMMA Start == Init => IInv
<1> SUFFICES ASSUME Init PROVE IInv
  OBVIOUS
<1>1. TypeOK
  <2>1. \A S : <<>> \in Seq(S) /\ Len(<<>>) = 0
    BY EmptySeq
  <2>2. {BroadcastCap, SendCap, MaxEvents} \subseteq Nat
    BY DeliveryAssumption
  <2>3. \A n \in Nat : 0 <= n
    OBVIOUS
  <2> QED BY <2>1, <2>2, <2>3 DEF Init, TypeOK, Local
<1>2. Sorted /\ Routed /\ Wired /\ Owed /\ NothingVanishes
  BY OnEmpty DEF Init, Sorted, Routed, Wired, Owed, NothingVanishes, Before, OfRoom, Local
<1> QED BY <1>1, <1>2 DEF IInv

(* What a send to a room does, to an open channel or to a closed one. *)
LEMMA Sent ==
  ASSUME TypeOK, NEW o \in Object, NEW e \in Event \cup {Local}, Broadcast(o, e)
  PROVE  /\ broadcast' \in [Object -> Seq(Event \cup {Local})]
         /\ \A p \in Object : Len(broadcast'[p]) <= Space(p)
         /\ panic' \in BOOLEAN
         /\ \A p \in Object : p # o => broadcast'[p] = broadcast[p]
         /\ o \in closed => UNCHANGED broadcast
         /\ o \notin closed =>
              /\ \A x : x \in On(broadcast'[o]) <=> x \in On(broadcast[o]) \/ x = e
              /\ Ascending(broadcast[o]) /\ Before(On(broadcast[o]), {e}) => Ascending(broadcast'[o])
<1> DEFINE S == Event \cup {Local}
<1>1. broadcast[o] \in Seq(S) /\ e \in S
  BY DEF TypeOK
<1>2. CASE o \in closed
  BY <1>2 DEF Broadcast, TypeOK
<1>3. CASE o \notin closed
  <2>1. broadcast'[o] = Append(broadcast[o], e) /\ \A p \in Object : p # o => broadcast'[p] = broadcast[p]
    BY <1>3 DEF Broadcast, TypeOK
  <2>2. /\ broadcast'[o] \in Seq(S)
        /\ Len(broadcast'[o]) = Len(broadcast[o]) + 1
        /\ \A x : x \in On(broadcast'[o]) <=> x \in On(broadcast[o]) \/ x = e
        /\ Ascending(broadcast[o]) /\ Before(On(broadcast[o]), {e}) => Ascending(broadcast'[o])
    <3>1. Appended(broadcast'[o], broadcast[o], e)
      BY <2>1 DEF Appended
    <3> HIDE DEF S
    <3> QED BY <1>1, <3>1, OnAppend, ZenonT(40)
  <2>3. broadcast' \in [Object -> Seq(S)]
    <3>1. broadcast' = [broadcast EXCEPT ![o] = broadcast'[o]]
      BY <1>3, <2>1 DEF Broadcast, TypeOK
    <3> QED BY <2>2, <3>1 DEF TypeOK
  <2>4. \A p \in Object : Len(broadcast'[p]) <= Space(p)
    <3>1. Len(broadcast[o]) < Space(o) /\ Len(broadcast[o]) \in Nat /\ Space(o) \in Nat
      BY <1>1, <1>3, DeliveryAssumption DEF Broadcast
    <3> HIDE DEF Space
    <3>2. Len(broadcast'[o]) <= Space(o)
      BY <2>1, <2>2, <3>1
    <3> QED BY <2>1, <3>2 DEF TypeOK
  <2> QED BY <1>3, <2>1, <2>2, <2>3, <2>4 DEF Broadcast, TypeOK
<1> QED BY <1>2, <1>3

LEMMA PublishStep ==
  ASSUME IInv, NEW r \in Room, Publish(r)
  PROVE  IInv'
<1> DEFINE i == Len(log) + 1
<1>1. TypeOK /\ Sorted /\ Routed /\ Wired /\ Owed /\ NothingVanishes
  BY DEF IInv
<1>2. /\ log' \in Seq(Room) /\ Len(log') = i /\ Len(log) \in Nat /\ MaxEvents \in Nat /\ i \in Event
      /\ DOMAIN log = 1..Len(log) /\ DOMAIN log' = 1..i
      /\ \A j \in DOMAIN log : j \in DOMAIN log' /\ log'[j] = log[j]
      /\ i \in DOMAIN log' /\ log'[i] = r
  <2>1. log \in Seq(Room) /\ log' = Append(log, r) /\ Len(log) < MaxEvents /\ MaxEvents \in Nat
    BY <1>1, DeliveryAssumption DEF Publish, TypeOK
  <2>2. Len(log) \in Nat /\ DOMAIN log = 1..Len(log)
    BY <2>1
  <2>3. log' \in Seq(Room) /\ Len(log') = i /\ DOMAIN log' = 1..i /\ log'[i] = r
        /\ \A j \in 1..Len(log) : log'[j] = log[j]
    BY <2>1, AppendProperties
  <2> QED BY <2>1, <2>2, <2>3 DEF Event
<1>3. /\ inbox' \in Seq(Event) /\ Ascending(inbox')
      /\ \/ inbox' = inbox /\ due' = due
         \/ \A x : x \in On(inbox') <=> x \in On(inbox) \/ x = i
  <2>1. inbox \in Seq(Event) /\ Ascending(inbox) /\ Before(On(inbox), {i})
    BY <1>1, <1>2 DEF TypeOK, Sorted, Routed, Before
  <2>2. (inbox' = inbox /\ due' = due) \/ Appended(inbox', inbox, i)
    BY DEF Publish, Appended
  <2> QED BY <1>2, <2>1, <2>2, OnAppend
<1>4. \A I, o : OfRoom(I, o) => OfRoom(I, o)' 
  BY <1>2 DEF OfRoom, Publish, mapVars
<1>5. TypeOK'
  <2>1. due' \in [Client -> SUBSET Event]
    <3>1. due \in [Client -> SUBSET Event]
      BY <1>1 DEF TypeOK
    <3>2. \A c \in Client : due[c] \cup {i} \in SUBSET Event
      BY <1>2, <3>1
    <3>3. \/ due' = due
          \/ due' = [c \in Client |-> IF c \in In(Mapped(r)) THEN due[c] \cup {i} ELSE due[c]]
      BY DEF Publish
    <3> QED BY <3>1, <3>2, <3>3
  <2>2. Len(log') <= MaxEvents
    BY <1>2 DEF Event
  <2> QED BY <1>1, <1>2, <1>3, <2>1, <2>2
        DEF TypeOK, Publish, mapVars, loopVars, seatVars
<1>6. Sorted'
  <2>1. /\ Before({hand}, {i}) /\ \A o \in Object : Before(On(broadcast[o]), {i})
        /\ \A c \in Client : Before(On(shown[c]) \cup On(send[c]), {i})
    <3>1. \A j \in DOMAIN log : j < i
      BY <1>2
    <3>2. \A I, o : OfRoom(I, o) => Before(I, {i})
      BY <3>1 DEF OfRoom, Before
    <3>3. Before({hand}, {i})
      BY <1>1, <3>2 DEF Routed, Wired, Before
    <3>4. \A c \in Client : Before(On(shown[c]) \cup On(send[c]), {i})
      BY <1>1, <3>2, OnEmpty DEF Routed, Wired, Before
    <3> QED BY <1>1, <3>2, <3>3, <3>4 DEF Routed
  <2>2. UNCHANGED <<hand, broadcast, obj, send, shown>>
    BY DEF Publish, seatVars
  <2>3. \A I : Before(I, {hand} \cup On(inbox)) /\ Before(I, {i}) => Before(I, {hand'} \cup On(inbox'))
    BY <1>3, <2>2 DEF Before
  <2>4. Before({hand'}, On(inbox'))
    BY <1>1, <1>3, <2>1, <2>2 DEF Sorted, Before
  <2> QED BY <1>1, <1>3, <2>1, <2>2, <2>3, <2>4 DEF Sorted
<1>7. Routed'
  <2>1. On(inbox') \subseteq DOMAIN log'
    BY <1>1, <1>2, <1>3 DEF Routed
  <2> QED BY <1>1, <1>4, <2>1 DEF Routed, Publish, mapVars, seatVars
<1>8. Wired'
  BY <1>1 DEF Wired, Publish, mapVars, loopVars, seatVars
<1>9. Owed'
  <2> SUFFICES ASSUME NEW c \in Client, (due[c] # {})'
               PROVE  (seat[c] = "in" /\ obj[c] \in mapped /\ OfRoom(due[c], obj[c]))'
    BY DEF Owed
  <2>1. UNCHANGED <<seat, obj, mapped, home>>
    BY DEF Publish, seatVars, mapVars
  <2>2. due'[c] = due[c] \/ (c \in In(Mapped(r)) /\ due'[c] = due[c] \cup {i})
    BY <1>1 DEF Publish, TypeOK
  <2>3. CASE due'[c] = due[c]
    BY <1>1, <1>2, <2>1, <2>3 DEF Owed, OfRoom
  <2>4. CASE c \in In(Mapped(r)) /\ due'[c] = due[c] \cup {i}
    <3>1. seat[c] = "in" /\ obj[c] \in mapped /\ home[obj[c]] = r
      BY <2>4 DEF In, Mapped
    <3>2. \A j \in due[c] \ {Local} : j \in DOMAIN log /\ log[j] = home[obj[c]]
      BY <1>1 DEF Owed, OfRoom
    <3>3. \A j \in due'[c] \ {Local} : j \in DOMAIN log' /\ log'[j] = home'[obj'[c]]
      BY <1>2, <2>1, <2>4, <3>1, <3>2
    <3> QED BY <2>1, <3>1, <3>3 DEF OfRoom
  <2> QED BY <2>2, <2>3, <2>4
<1>10. NothingVanishes'
  <2> SUFFICES ASSUME NEW c \in Client, NEW x \in due'[c] PROVE x \in OnItsWay(c)'
    BY DEF NothingVanishes
  <2>1. UNCHANGED <<hand, target, obj, broadcast, send>>
    BY DEF Publish, seatVars
  <2>2. CASE x \in due[c]
    <3>1. x \in OnItsWay(c)
      BY <1>1, <2>2 DEF NothingVanishes
    <3> QED BY <1>3, <2>1, <3>1 DEF OnItsWay
  <2>3. CASE x \notin due[c]
    <3>1. due'[c] = due[c] \/ due'[c] = due[c] \cup {i}
      BY <1>1 DEF Publish, TypeOK
    <3>2. x = i /\ due' # due
      BY <2>3, <3>1
    <3> QED BY <1>3, <3>2 DEF OnItsWay
  <2> QED BY <2>2, <2>3
<1> QED BY <1>5, <1>6, <1>7, <1>8, <1>9, <1>10 DEF IInv

(* An action that leaves the queues alone, and who reads from which. *)
queueVars == <<log, inbox, hand, target, home, broadcast, send, shown, obj>>

LEMMA QueuesAlone ==
  ASSUME Sorted, Routed, UNCHANGED queueVars
  PROVE  Sorted' /\ Routed' /\ \A I, o : OfRoom(I, o) => OfRoom(I, o)'
<1>1. Sorted'
  BY DEF queueVars, Sorted
<1>2. \A I, o : OfRoom(I, o) => OfRoom(I, o)'
  BY DEF queueVars, OfRoom
<1>3. Routed'
  BY <1>2 DEF queueVars, Routed
<1> QED BY <1>1, <1>2, <1>3

(* What is on its way stays so when no queue and no room of a client changes. *)
LEMMA DebtsAlone ==
  ASSUME IInv, UNCHANGED queueVars, UNCHANGED <<due, seat>>,
         \A c \in Client : due[c] # {} => obj[c] \in mapped'
  PROVE  Owed' /\ NothingVanishes'
<1>1. Owed'
  BY QueuesAlone DEF IInv, Owed, queueVars
<1>2. NothingVanishes'
  BY DEF IInv, NothingVanishes, OnItsWay, queueVars
<1> QED BY <1>1, <1>2

LEMMA BroadcastMessageStep ==
  ASSUME IInv, BroadcastMessage
  PROVE  IInv'
<1> DEFINE i == Head(inbox)
<1>1. TypeOK /\ Sorted /\ Routed /\ Wired /\ Owed /\ NothingVanishes
  BY DEF IInv
<1>2. /\ i \in Event /\ inbox' \in Seq(Event) /\ Ascending(inbox')
      /\ \A x : x \in On(inbox) <=> x = i \/ x \in On(inbox')
      /\ Before({i}, On(inbox')) /\ i # Local
  <2>1. inbox \in Seq(Event) /\ Removed(inbox', inbox, i) /\ Ascending(inbox)
    BY <1>1 DEF BroadcastMessage, TypeOK, Sorted, Removed
  <2>2. Local \notin Event
    BY DeliveryAssumption DEF Event, Local
  <2> QED BY <2>1, <2>2, OnTail
<1>3. hand = Local /\ UNCHANGED <<log, mapVars, broadcast, loopVars, seatVars, clientVars, panic>>
  BY DEF BroadcastMessage
<1>4. \/ Mapped(log[i]) = {} /\ UNCHANGED <<hand, target>>
      \/ hand' = i /\ target' \in mapped /\ home[target'] = log[i]
  BY DEF BroadcastMessage, NextEvent, Mapped
<1>5. TypeOK'
  BY <1>1, <1>2, <1>3, <1>4 DEF TypeOK, mapVars, loopVars, seatVars, clientVars
<1>6. Sorted'
  <2>1. \A x \in {hand'} \cup On(inbox') : x = Local \/ x \in On(inbox)
    BY <1>2, <1>3, <1>4
  <2>2. \A I : Before(I, {hand} \cup On(inbox)) => Before(I, {hand'} \cup On(inbox'))
    BY <2>1 DEF Before
  <2>3. Before({hand'}, On(inbox'))
    BY <1>2, <1>3, <1>4 DEF Before
  <2> QED BY <1>1, <1>2, <1>3, <2>2, <2>3 DEF Sorted, seatVars, clientVars
<1>7. Routed'
  <2>1. i \in DOMAIN log /\ On(inbox') \subseteq DOMAIN log
    BY <1>1, <1>2 DEF Routed
  <2>2. (target # None => OfRoom({hand}, target))'
    BY <1>1, <1>3, <1>4, <2>1 DEF Routed, OfRoom, mapVars
  <2>3. \A I, o : OfRoom(I, o) => OfRoom(I, o)'
    BY <1>3 DEF OfRoom, mapVars
  <2> QED BY <1>1, <1>3, <2>1, <2>2, <2>3 DEF Routed, seatVars, clientVars
<1>8. Wired'
  <2>1. None \notin mapped
    BY <1>1, DeliveryAssumption DEF TypeOK
  <2>2. (hand = Local <=> target = None)'
    BY <1>1, <1>2, <1>3, <1>4, <2>1 DEF Wired
  <2> QED BY <1>1, <1>3, <2>2 DEF Wired, mapVars, loopVars, seatVars, clientVars
<1>9. Owed'
  BY <1>1, <1>3 DEF Owed, OfRoom, mapVars, seatVars, clientVars
<1>10. NothingVanishes'
  <2> SUFFICES ASSUME NEW c \in Client, NEW x \in due[c] PROVE x \in OnItsWay(c)'
    BY <1>3 DEF NothingVanishes, clientVars
  <2>1. /\ x \in OnItsWay(c) /\ x # Local
        /\ obj[c] \in mapped /\ x \in DOMAIN log /\ log[x] = home[obj[c]]
    <3>1. x \in Event
      BY <1>1 DEF TypeOK
    <3>2. x # Local
      BY <3>1, DeliveryAssumption DEF Event, Local
    <3> QED BY <1>1, <3>2 DEF NothingVanishes, Owed, OfRoom
  <2>2. CASE x = i
    BY <1>1, <1>3, <1>4, <2>1, <2>2 DEF Mapped, Wired, OnItsWay, seatVars
  <2>3. CASE x # i
    BY <1>2, <1>3, <2>1, <2>3 DEF OnItsWay, seatVars, clientVars
  <2> QED BY <2>2, <2>3
<1> QED BY <1>5, <1>6, <1>7, <1>8, <1>9, <1>10 DEF IInv

(* A send to a room, by syncLoop or by the goroutine of a room. *)
LEMMA SendKeepsOrder ==
  ASSUME IInv, NEW o \in Object, home[o] # None, NEW e \in Event \cup {Local}, Broadcast(o, e),
         UNCHANGED <<log, inbox, home, send, shown, obj>>,
         \/ e = Local /\ UNCHANGED <<hand, target>>
         \/ e = hand /\ target = o /\ hand' = Local /\ target' = None
  PROVE  /\ broadcast' \in [Object -> Seq(Event \cup {Local})]
         /\ \A p \in Object : Len(broadcast'[p]) <= Space(p)
         /\ panic' \in BOOLEAN
         /\ Sorted' /\ Routed'
         /\ \A p \in Object : home[p] = None => broadcast'[p] = <<>>
         /\ \A p \in Object : On(broadcast[p]) \subseteq On(broadcast'[p])
         /\ o \notin closed => e \in On(broadcast'[o])
<1>1. TypeOK /\ Sorted /\ Routed /\ Wired
  BY DEF IInv
<1>2. /\ broadcast' \in [Object -> Seq(Event \cup {Local})]
      /\ \A p \in Object : Len(broadcast'[p]) <= Space(p)
      /\ panic' \in BOOLEAN
      /\ \A p \in Object : p # o => broadcast'[p] = broadcast[p]
      /\ o \in closed => UNCHANGED broadcast
      /\ o \notin closed =>
           /\ \A x : x \in On(broadcast'[o]) <=> x \in On(broadcast[o]) \/ x = e
           /\ Ascending(broadcast[o]) /\ Before(On(broadcast[o]), {e}) => Ascending(broadcast'[o])
  BY <1>1, Sent
<1>3. CASE o \in closed
  <2>1. UNCHANGED broadcast
    BY <1>2, <1>3
  <2>2. \A I : Before(I, {hand} \cup On(inbox)) => Before(I, {hand'} \cup On(inbox'))
    BY DEF Before
  <2>3. Before({hand'}, On(inbox'))
    BY <1>1 DEF Sorted, Before
  <2>4. Sorted'
    BY <1>1, <2>1, <2>2, <2>3 DEF Sorted
  <2>5. Routed'
    BY <1>1, <2>1 DEF Routed, OfRoom
  <2> QED BY <1>1, <1>2, <1>3, <2>1, <2>4, <2>5 DEF Wired
<1>4. CASE o \notin closed
  <2>1. \A x : x \in On(broadcast'[o]) <=> x \in On(broadcast[o]) \/ x = e
    BY <1>2, <1>4
  <2>2. \A I : Before(I, {hand} \cup On(inbox)) => Before(I, {hand'} \cup On(inbox')) /\ Before(I, {e})
    BY DEF Before
  <2>3. Before({hand'}, On(inbox')) /\ Before({e}, {hand'} \cup On(inbox'))
    BY <1>1 DEF Sorted, Before
  <2>4. \A p \in Object : Ascending(broadcast'[p]) /\ Before(On(broadcast'[p]), {hand'} \cup On(inbox'))
    <3>1. Ascending(broadcast[o]) /\ Before(On(broadcast[o]), {hand} \cup On(inbox))
      BY <1>1 DEF Sorted
    <3>2. Ascending(broadcast'[o])
      BY <1>2, <1>4, <2>2, <3>1
    <3>3. Before(On(broadcast[o]), {hand'} \cup On(inbox'))
      BY <2>2, <3>1
    <3>4. Before(On(broadcast'[o]), {hand'} \cup On(inbox'))
      BY <2>1, <2>3, <3>3 DEF Before
    <3>5. \A p \in Object : p # o => Ascending(broadcast'[p]) /\ Before(On(broadcast'[p]), {hand'} \cup On(inbox'))
      BY <1>1, <1>2, <2>2 DEF Sorted
    <3> QED BY <3>2, <3>4, <3>5
  <2>5. ASSUME NEW c \in Client
        PROVE  (/\ Ascending(send[c]) /\ Before(On(shown[c]), On(send[c]))
                /\ Before(On(shown[c]) \cup On(send[c]), {hand} \cup On(inbox))
                /\ obj[c] # None => Before(On(shown[c]) \cup On(send[c]), On(broadcast[obj[c]])))'
    <3> DEFINE I == On(shown[c]) \cup On(send[c])
    <3>1. /\ Ascending(send[c]) /\ Before(On(shown[c]), On(send[c]))
          /\ Before(I, {hand} \cup On(inbox)) /\ (obj[c] # None => Before(I, On(broadcast[obj[c]])))
      BY <1>1 DEF Sorted
    <3>2. Before(I, {hand'} \cup On(inbox')) /\ Before(I, {e})
      BY <2>2, <3>1
    <3>3. obj[c] # None => Before(I, On(broadcast'[obj[c]]))
      <4>1. CASE obj[c] = o
        BY <2>1, <3>1, <3>2, <4>1 DEF Before
      <4>2. CASE obj[c] # o
        BY <1>1, <1>2, <3>1, <4>2 DEF TypeOK
      <4> QED BY <4>1, <4>2
    <3> QED BY <3>1, <3>2, <3>3
  <2>6. Sorted'
    BY <1>1, <2>3, <2>4, <2>5 DEF Sorted
  <2>7. Routed'
    <3>1. OfRoom({e}, o)
      BY <1>1, DeliveryAssumption DEF Routed, OfRoom, TypeOK
    <3>2. \A I, p : OfRoom(I, p) => OfRoom(I, p)'
      BY DEF OfRoom
    <3>3. \A p \in Object : OfRoom(On(broadcast[p]), p)'
      <4>1. OfRoom(On(broadcast[o]), o)'
        <5>1. \A x \in On(broadcast'[o]) \ {Local} : x \in DOMAIN log /\ log[x] = home[o]
          BY <1>1, <2>1, <3>1 DEF Routed, OfRoom
        <5> QED BY <5>1 DEF OfRoom
      <4>2. ASSUME NEW p \in Object, p # o PROVE OfRoom(On(broadcast[p]), p)'
        <5>1. broadcast'[p] = broadcast[p] /\ OfRoom(On(broadcast[p]), p)
          BY <1>1, <1>2, <4>2 DEF Routed
        <5> QED BY <5>1 DEF OfRoom
      <4> QED BY <4>1, <4>2
    <3>4. (target # None => OfRoom({hand}, target))'
      BY <1>1, <3>2 DEF Routed
    <3> QED BY <1>1, <3>2, <3>3, <3>4 DEF Routed
  <2>8. \A p \in Object : home[p] = None => broadcast'[p] = <<>>
    BY <1>1, <1>2 DEF Wired
  <2>9. \A p \in Object : On(broadcast[p]) \subseteq On(broadcast'[p])
    BY <1>2, <2>1
  <2> QED BY <1>2, <2>1, <2>6, <2>7, <2>8, <2>9
<1> QED BY <1>3, <1>4

(* A room that somebody found has an id. *)
LEMMA Homes ==
  ASSUME IInv
  PROVE  /\ \A o \in mapped : o \in Object /\ home[o] # None
         /\ hand # Local => target \in Object /\ home[target] # None
<1>1. TypeOK /\ Routed /\ Wired
  BY DEF IInv
<1>2. \A o \in mapped : o \in Object /\ home[o] # None
  BY <1>1 DEF TypeOK, Wired
<1>3. hand # Local => target \in Object /\ home[target] # None
  <2> SUFFICES ASSUME hand # Local PROVE target \in Object /\ home[target] # None
    OBVIOUS
  <2>1. target \in Object
    BY <1>1 DEF TypeOK, Wired
  <2>2. hand \in DOMAIN log /\ log[hand] = home[target]
    BY <1>1, <2>1, DeliveryAssumption DEF Routed, OfRoom
  <2>3. log[hand] \in Room
    BY <1>1, <2>2 DEF TypeOK
  <2> QED BY <2>1, <2>2, <2>3, DeliveryAssumption
<1> QED BY <1>2, <1>3

LEMMA SyncSendStep ==
  ASSUME IInv, SyncSend
  PROVE  IInv'
<1>1. TypeOK /\ Sorted /\ Routed /\ Wired /\ Owed /\ NothingVanishes
  BY DEF IInv
<1>2. /\ hand \in Event /\ target \in Object /\ home[target] # None
      /\ Broadcast(target, hand) /\ hand' = Local /\ target' = None
      /\ UNCHANGED <<log, inbox, mapVars, loopVars, seatVars, clientVars>>
  BY <1>1, Homes DEF SyncSend, TypeOK
<1>3. /\ broadcast' \in [Object -> Seq(Event \cup {Local})]
      /\ \A p \in Object : Len(broadcast'[p]) <= Space(p)
      /\ panic' \in BOOLEAN
      /\ Sorted' /\ Routed'
      /\ \A p \in Object : home[p] = None => broadcast'[p] = <<>>
      /\ \A p \in Object : On(broadcast[p]) \subseteq On(broadcast'[p])
      /\ target \notin closed => hand \in On(broadcast'[target])
  BY <1>2, SendKeepsOrder DEF mapVars, seatVars, clientVars
<1>4. TypeOK'
  BY <1>1, <1>2, <1>3 DEF TypeOK, mapVars, loopVars, seatVars, clientVars
<1>5. Wired'
  BY <1>1, <1>2, <1>3 DEF Wired, mapVars, loopVars, seatVars, clientVars
<1>6. Owed'
  BY <1>1, <1>2 DEF Owed, OfRoom, mapVars, seatVars, clientVars
<1>7. NothingVanishes'
  <2> SUFFICES ASSUME NEW c \in Client, NEW x \in due[c] PROVE x \in OnItsWay(c)'
    BY <1>2 DEF NothingVanishes, clientVars
  <2>1. x \in OnItsWay(c) /\ obj[c] \in mapped /\ obj[c] \in Object /\ obj[c] \notin closed
    BY <1>1, Homes DEF NothingVanishes, Owed, Wired
  <2>2. CASE target = obj[c] /\ x = hand
    BY <1>2, <1>3, <2>1, <2>2 DEF OnItsWay, seatVars, clientVars
  <2>3. CASE ~(target = obj[c] /\ x = hand)
    BY <1>2, <1>3, <2>1, <2>3 DEF OnItsWay, seatVars, clientVars
  <2> QED BY <2>2, <2>3
<1> QED BY <1>1, <1>3, <1>4, <1>5, <1>6, <1>7 DEF IInv

LEMMA Checked ==
  ASSUME TypeOK, NEW o, NEW C, CheckEmpty(o, C)
  PROVE  sleepers' \in [Room -> Nat]
<1>1. sleepers \in [Room -> Nat]
  BY DEF TypeOK
<1>2. CASE C = {}
  <2> DEFINE h == home[o]
  <2>1. sleepers' = [sleepers EXCEPT ![h] = sleepers[h] + 1]
    BY <1>2 DEF CheckEmpty
  <2> HIDE DEF h
  <2>2. \A r \in Room : sleepers[r] + 1 \in Nat
    BY <1>1
  <2> QED BY <1>1, <2>1, <2>2
<1>3. CASE C # {}
  BY <1>1, <1>3 DEF CheckEmpty
<1> QED BY <1>2, <1>3

LEMMA BroadcastUserEventStep ==
  ASSUME IInv, NEW o \in Object, BroadcastUserEvent(o)
  PROVE  IInv'
<1>1. TypeOK /\ Sorted /\ Routed /\ Wired /\ Owed /\ NothingVanishes
  BY DEF IInv
<1>2. /\ dest[o] \in Object /\ Local \in Event \cup {Local}
      /\ Broadcast(dest[o], Local)
      /\ loop' = [loop EXCEPT ![o] = "select"] /\ dest' = [dest EXCEPT ![o] = None]
      /\ UNCHANGED <<log, syncVars, home, mapped, closed, typing, seatVars, clientVars>>
      /\ sleepers' = sleepers \/ CheckEmpty(o, In({o}))
      /\ loop[o] \in {"join", "leave"}
  BY <1>1 DEF BroadcastUserEvent, TypeOK, Wired
<1>3. home[dest[o]] # None
  BY <1>1, <1>2 DEF Wired, BroadcastUserEvent
<1>4. /\ broadcast' \in [Object -> Seq(Event \cup {Local})]
      /\ \A p \in Object : Len(broadcast'[p]) <= Space(p)
      /\ panic' \in BOOLEAN
      /\ Sorted' /\ Routed'
      /\ \A p \in Object : home[p] = None => broadcast'[p] = <<>>
      /\ \A p \in Object : On(broadcast[p]) \subseteq On(broadcast'[p])
  BY <1>2, <1>3, SendKeepsOrder DEF syncVars, seatVars, clientVars
<1>5. TypeOK'
  <2>1. sleepers' \in [Room -> Nat]
    BY <1>1, <1>2, Checked DEF TypeOK
  <2>2. loop' \in [Object -> Place] /\ dest' \in [Object -> Object \cup {None}]
    BY <1>1, <1>2 DEF TypeOK
  <2>3. \A p \in Object : Len(broadcast'[p]) <= Space(p)'
    BY <1>1, <1>2, <1>4 DEF TypeOK
  <2> HIDE DEF Space
  <2> QED BY <1>1, <1>2, <1>4, <2>1, <2>2, <2>3 DEF TypeOK, syncVars, seatVars, clientVars
<1>6. Wired'
  <2>2. \A p \in Object : p \in typing' => home'[p] # None /\ loop'[p] # "leave"
    BY <1>1, <1>2 DEF Wired, TypeOK
  <2>1. \A p \in Object : loop'[p] \in {"join", "leave"} => dest'[p] # None /\ home'[dest'[p]] # None
    BY <1>1, <1>2 DEF Wired, TypeOK
  <2> QED BY <1>1, <1>2, <1>4, <2>1, <2>2 DEF Wired, syncVars, seatVars, clientVars
<1>7. Owed'
  BY <1>1, <1>2 DEF Owed, OfRoom, seatVars, clientVars
<1>8. NothingVanishes'
  <2> SUFFICES ASSUME NEW c \in Client, NEW x \in due[c] PROVE x \in OnItsWay(c)'
    BY <1>2 DEF NothingVanishes, clientVars
  <2>1. x \in OnItsWay(c) /\ obj[c] \in Object
    BY <1>1, Homes DEF NothingVanishes, Owed
  <2> QED BY <1>2, <1>4, <2>1 DEF OnItsWay, syncVars, seatVars, clientVars
<1> QED BY <1>4, <1>5, <1>6, <1>7, <1>8 DEF IInv

(* The goroutine of a room goes from its select to another place. *)
Loops ==
  /\ loop \in [Object -> Place] /\ dest \in [Object -> Object \cup {None}] /\ typing \subseteq Object
  /\ \A p \in Object :
       /\ Len(broadcast[p]) <= Space(p)
       /\ loop[p] \in {"join", "leave"} => dest[p] # None /\ home[dest[p]] # None
       /\ p \in typing => home[p] # None /\ loop[p] # "leave"

LEMMA LoopsFit == TypeOK /\ Wired => Loops
  BY DEF Loops, TypeOK, Wired

LEMMA Going ==
  ASSUME IInv, NEW o \in Object, loop[o] \in {"select", "lock"}, NEW l \in {"select", "lock", "fan"},
         GoTo(o, l), UNCHANGED <<broadcast, home>>
  PROVE  Loops'
<1>1. TypeOK /\ Wired /\ Loops
  BY LoopsFit DEF IInv
<1>2. \A p \in Object : loop'[p] = IF p = o THEN l ELSE loop[p]
  BY <1>1 DEF GoTo, Loops
<1>3. loop' \in [Object -> Place] /\ UNCHANGED <<dest, typing>>
  BY <1>1 DEF GoTo, Loops
<1>4. \A p \in Object : Len(broadcast'[p]) <= Space(p)'
  <2>1. \A p \in Object : Len(broadcast[p]) \in Nat /\ BroadcastCap \in Nat
    BY <1>1, DeliveryAssumption DEF TypeOK
  <2> QED BY <1>1, <1>2, <2>1 DEF Loops
<1> QED BY <1>1, <1>2, <1>3, <1>4 DEF Loops

(* Telling of a join or a leave, or of neither. *)
LEMMA Telling ==
  ASSUME IInv, NEW o \in Object, HasLock(o), NEW what \in {"join", "leave"},
         Tells(o, what) \/ TellsNobody(o), UNCHANGED <<broadcast, home>>
  PROVE  Loops'
<1>1. TypeOK /\ Wired /\ Loops /\ loop[o] \in {"select", "lock"} /\ o \notin typing
  BY LoopsFit DEF IInv, HasLock
<1>2. CASE TellsNobody(o)
  BY <1>1, <1>2, Going DEF TellsNobody
<1>3. CASE Tells(o, what)
  <2>1. PICK d \in Mapped(home[o]) :
          loop' = [loop EXCEPT ![o] = what] /\ dest' = [dest EXCEPT ![o] = d] /\ UNCHANGED typing
    BY <1>3 DEF Tells
  <2>2. d \in Object /\ d # None /\ home[d] # None
    BY <1>1, <2>1, Homes, DeliveryAssumption DEF Mapped
  <2>3. loop' \in [Object -> Place] /\ dest' \in [Object -> Object \cup {None}]
    BY <1>1, <2>1, <2>2 DEF Loops
  <2>4. \A p \in Object : /\ p = o => loop'[p] = what /\ dest'[p] = d
                          /\ p # o => loop'[p] = loop[p] /\ dest'[p] = dest[p]
    BY <1>1, <2>1 DEF Loops
  <2>5. \A p \in Object : Len(broadcast'[p]) <= Space(p)'
    BY <1>1, <2>4 DEF Loops
  <2>6. \A p \in Object : /\ loop'[p] \in {"join", "leave"} => dest'[p] # None /\ home'[dest'[p]] # None
                          /\ p \in typing' => home'[p] # None /\ loop'[p] # "leave"
    BY <1>1, <2>1, <2>2, <2>4 DEF Loops
  <2> QED BY <1>1, <2>1, <2>3, <2>5, <2>6 DEF Loops
<1> QED BY <1>2, <1>3

LEMMA AddClientStep ==
  ASSUME IInv, NEW o \in Object, NEW c \in Client, AddClient(o, c)
  PROVE  IInv'
<1>1. TypeOK /\ Sorted /\ Routed /\ Wired /\ Owed /\ NothingVanishes
  BY DEF IInv
<1>2. /\ seat[c] = "queued" /\ seat' = [seat EXCEPT ![c] = "in"]
      /\ UNCHANGED <<log, syncVars, mapVars, broadcast, obj, leave, clientVars, panic>>
  BY DEF AddClient
<1>3. Loops'
  BY Telling DEF AddClient, mapVars
<1>4. UNCHANGED queueVars
  BY <1>2 DEF queueVars, syncVars, mapVars, clientVars
<1>5. Sorted' /\ Routed'
  BY <1>1, <1>4, QueuesAlone
<1>6. TypeOK'
  BY <1>1, <1>2, <1>3 DEF TypeOK, Loops, syncVars, mapVars, clientVars
<1>7. Wired'
  BY <1>1, <1>2, <1>3 DEF TypeOK, Loops, Wired, syncVars, mapVars, clientVars
<1>8. Owed'
  BY <1>1, <1>2 DEF TypeOK, Owed, OfRoom, mapVars, clientVars
<1>9. NothingVanishes'
  BY <1>1, <1>2 DEF NothingVanishes, OnItsWay, syncVars, clientVars
<1> QED BY <1>5, <1>6, <1>7, <1>8, <1>9 DEF IInv

LEMMA DropUnknownStep ==
  ASSUME IInv, NEW o \in Object, NEW c \in Client, DropUnknown(o, c)
  PROVE  IInv'
<1>1. TypeOK /\ Sorted /\ Routed /\ Wired
  BY DEF IInv
<1>2. /\ leave' = [leave EXCEPT ![c] = "done"] /\ CheckEmpty(o, In({o}))
      /\ UNCHANGED <<log, syncVars, home, mapped, closed, broadcast, obj, seat, clientVars, panic>>
      /\ Loops'
  BY Going DEF DropUnknown, Unregister, HasLock
<1>3. UNCHANGED queueVars
  BY <1>2 DEF queueVars, syncVars, clientVars
<1>4. Sorted' /\ Routed'
  BY <1>1, <1>3, QueuesAlone
<1>5. TypeOK'
  <2>1. sleepers' \in [Room -> Nat]
    BY <1>1, <1>2, Checked DEF TypeOK
  <2> QED BY <1>1, <1>2, <2>1 DEF TypeOK, Loops, syncVars, clientVars
<1>6. Wired'
  BY <1>1, <1>2 DEF Wired, Loops, syncVars, clientVars
<1>7. Owed' /\ NothingVanishes'
  BY <1>2, <1>3, DebtsAlone DEF clientVars, IInv, Owed
<1> QED BY <1>4, <1>5, <1>6, <1>7 DEF IInv

(* Waiting for the lock, or for nothing. *)
LEMMA GoToStep ==
  ASSUME IInv, NEW o \in Object, loop[o] \in {"select", "lock"}, NEW l \in {"select", "lock", "fan"},
         GoTo(o, l), UNCHANGED <<log, syncVars, mapVars, broadcast, seatVars, clientVars, panic>>
  PROVE  IInv'
<1>1. TypeOK /\ Sorted /\ Routed /\ Wired /\ Loops'
  BY Going DEF IInv, mapVars
<1>2. UNCHANGED queueVars
  BY DEF queueVars, syncVars, mapVars, seatVars, clientVars
<1>3. Sorted' /\ Routed'
  BY <1>1, <1>2, QueuesAlone
<1>4. TypeOK'
  BY <1>1 DEF TypeOK, Loops, syncVars, mapVars, seatVars, clientVars
<1>5. Wired'
  BY <1>1 DEF Wired, Loops, syncVars, mapVars, seatVars, clientVars
<1>6. Owed' /\ NothingVanishes'
  BY <1>2, DebtsAlone DEF clientVars, seatVars, mapVars, IInv, Owed
<1> QED BY <1>3, <1>4, <1>5, <1>6 DEF IInv

LEMMA WaitStep == ASSUME IInv, NEW o \in Object, Wait(o) PROVE IInv'
  BY GoToStep DEF Wait, TakeEvent

LEMMA TickStep == ASSUME IInv, NEW o \in Object, Tick(o) PROVE IInv'
  BY GoToStep DEF Tick, HasLock

(* A reader sends Local to its room, or takes the lock of the room, or gives it back. *)
LEMMA ReaderStep ==
  ASSUME IInv, NEW o \in Object, home[o] # None,
         UNCHANGED <<log, syncVars, mapVars, loop, dest, seatVars, clientVars>>,
         Broadcast(o, Local) \/ UNCHANGED <<broadcast, panic>>,
         typing' \subseteq typing \cup {o}, o \in typing' => loop[o] # "leave"
  PROVE  IInv'
<1>1. TypeOK /\ Sorted /\ Routed /\ Wired /\ Owed /\ NothingVanishes
  BY DEF IInv
<1>2. /\ broadcast' \in [Object -> Seq(Event \cup {Local})]
      /\ \A p \in Object : Len(broadcast'[p]) <= Space(p)
      /\ panic' \in BOOLEAN
      /\ Sorted' /\ Routed'
      /\ \A p \in Object : home[p] = None => broadcast'[p] = <<>>
      /\ \A p \in Object : On(broadcast[p]) \subseteq On(broadcast'[p])
  <2>1. CASE Broadcast(o, Local)
    BY <2>1, SendKeepsOrder DEF syncVars, mapVars, seatVars, clientVars
  <2>2. CASE UNCHANGED <<broadcast, panic>>
    <3>1. UNCHANGED queueVars
      BY <2>2 DEF queueVars, syncVars, mapVars, seatVars, clientVars
    <3> QED BY <1>1, <2>2, <3>1, QueuesAlone DEF TypeOK, Wired
  <2> QED BY <2>1, <2>2
<1>3. TypeOK'
  BY <1>1, <1>2 DEF TypeOK, syncVars, mapVars, seatVars, clientVars
<1>4. Wired'
  BY <1>1, <1>2 DEF Wired, syncVars, mapVars, seatVars, clientVars
<1>5. Owed'
  BY <1>1 DEF Owed, OfRoom, mapVars, seatVars, clientVars
<1>6. NothingVanishes'
  <2> SUFFICES ASSUME NEW c \in Client, NEW x \in due[c] PROVE x \in OnItsWay(c)'
    BY DEF NothingVanishes, clientVars
  <2>1. x \in OnItsWay(c) /\ obj[c] \in Object
    BY <1>1, Homes DEF NothingVanishes, Owed
  <2> QED BY <1>2, <2>1 DEF OnItsWay, syncVars, seatVars, clientVars
<1> QED BY <1>2, <1>3, <1>4, <1>5, <1>6 DEF IInv

LEMMA HandleTypingEventStep == ASSUME IInv, NEW o \in Object, HandleTypingEvent(o) PROVE IInv'
<1>1. PICK c \in Client : obj[c] = o
  BY DeliveryAssumption DEF HandleTypingEvent, CanType
<1>2. home[o] # None
  BY <1>1, DeliveryAssumption DEF IInv, Wired
<1> QED BY <1>2, ReaderStep DEF HandleTypingEvent, CanType, IInv, Wired

LEMMA SendTypingStep == ASSUME IInv, NEW o \in Object, SendTyping(o) PROVE IInv'
<1>1. home[o] # None
  BY DEF SendTyping, IInv, Wired
<1> QED BY <1>1, ReaderStep DEF SendTyping

LEMMA LeaveStep ==
  ASSUME IInv, NEW c \in Client, Leave(c)
  PROVE  IInv'
<1>1. TypeOK /\ Sorted /\ Routed /\ Wired
  BY DEF IInv
<1>2. /\ leave' = [leave EXCEPT ![c] = "asked"]
      /\ UNCHANGED <<log, syncVars, mapVars, broadcast, loopVars, obj, seat, clientVars, panic>>
  BY DEF Leave
<1>3. UNCHANGED queueVars
  BY <1>2 DEF queueVars, syncVars, mapVars, clientVars
<1>4. Sorted' /\ Routed'
  BY <1>1, <1>3, QueuesAlone
<1>5. TypeOK'
  BY <1>1, <1>2 DEF TypeOK, syncVars, mapVars, loopVars, clientVars
<1>6. Wired'
  BY <1>1, <1>2 DEF Wired, syncVars, mapVars, loopVars, clientVars
<1>7. Owed' /\ NothingVanishes'
  BY <1>2, <1>3, DebtsAlone DEF clientVars, mapVars, IInv, Owed
<1> QED BY <1>4, <1>5, <1>6, <1>7 DEF IInv

LEMMA EvictRoomStep ==
  ASSUME IInv, NEW o \in Object, EvictRoom(o)
  PROVE  IInv'
<1>1. TypeOK /\ Sorted /\ Routed /\ Wired /\ Owed
  BY DEF IInv
<1>2. /\ o \in mapped /\ In({o}) = {} /\ mapped' = mapped \ {o}
      /\ UNCHANGED <<log, syncVars, home, closed, sleepers, broadcast, loopVars, seatVars, clientVars, panic>>
  BY DEF EvictRoom, Evictable
<1>3. UNCHANGED queueVars
  BY <1>2 DEF queueVars, syncVars, seatVars, clientVars
<1>4. Sorted' /\ Routed'
  BY <1>1, <1>3, QueuesAlone
<1>5. TypeOK'
  BY <1>1, <1>2 DEF TypeOK, syncVars, loopVars, seatVars, clientVars
<1>6. Wired'
  BY <1>1, <1>2 DEF Wired, syncVars, loopVars, seatVars, clientVars
<1>7. \A c \in Client : due[c] # {} => obj[c] \in mapped'
  BY <1>1, <1>2 DEF Owed, In
<1>8. Owed' /\ NothingVanishes'
  BY <1>2, <1>3, <1>7, DebtsAlone DEF clientVars, seatVars
<1> QED BY <1>4, <1>5, <1>6, <1>8 DEF IInv

LEMMA RemoveRoomStep ==
  ASSUME IInv, NEW r \in Room, RemoveRoom(r)
  PROVE  IInv'
<1>1. TypeOK /\ Sorted /\ Routed /\ Wired /\ Owed /\ NothingVanishes
  BY DEF IInv
<1>2. /\ sleepers[r] > 0 /\ sleepers' = [sleepers EXCEPT ![r] = @ - 1]
      /\ mapped' = mapped \ Mapped(r) /\ closed' = closed \cup Mapped(r)
      /\ due' = [c \in Client |-> IF c \in In(Mapped(r)) THEN due[c] \ Event ELSE due[c]]
      /\ UNCHANGED <<log, syncVars, home, broadcast, loopVars, seatVars, send, shown, panic>>
  BY DEF RemoveRoom, Forgive
<1>3. UNCHANGED queueVars
  BY <1>2 DEF queueVars, syncVars, seatVars
<1>4. Sorted' /\ Routed'
  BY <1>1, <1>3, QueuesAlone
<1>5. \A c \in Client : due'[c] # {} => due'[c] = due[c] /\ c \notin In(Mapped(r))
  BY <1>1, <1>2 DEF TypeOK
<1>6. TypeOK'
  <2>1. Mapped(r) \subseteq Object
    BY <1>1 DEF Mapped, TypeOK
  <2>2. sleepers' \in [Room -> Nat]
    <3>1. sleepers \in [Room -> Nat] /\ sleepers[r] \in Nat
      BY <1>1 DEF TypeOK
    <3>2. sleepers[r] - 1 \in Nat
      BY <1>2, <3>1
    <3> QED BY <1>2, <3>1, <3>2
  <2>3. due' \in [Client -> SUBSET Event]
    BY <1>1, <1>2 DEF TypeOK
  <2> QED BY <1>1, <1>2, <2>1, <2>2, <2>3 DEF TypeOK, syncVars, loopVars, seatVars
<1>7. Wired'
  BY <1>1, <1>2 DEF Wired, Mapped, syncVars, loopVars, seatVars
<1>8. Owed'
  <2> SUFFICES ASSUME NEW c \in Client, (due[c] # {})'
               PROVE  (seat[c] = "in" /\ obj[c] \in mapped /\ OfRoom(due[c], obj[c]))'
    BY DEF Owed
  <2>1. due'[c] = due[c] /\ c \notin In(Mapped(r))
    BY <1>5
  <2>2. seat[c] = "in" /\ obj[c] \in mapped /\ OfRoom(due[c], obj[c])
    BY <1>1, <2>1 DEF Owed
  <2>3. obj[c] \in mapped'
    BY <1>2, <2>1, <2>2 DEF In
  <2> QED BY <1>2, <2>1, <2>2, <2>3 DEF OfRoom, seatVars
<1>9. NothingVanishes'
  BY <1>1, <1>2, <1>5 DEF NothingVanishes, OnItsWay, syncVars, seatVars
<1> QED BY <1>4, <1>6, <1>7, <1>8, <1>9 DEF IInv

LEMMA DropClientStep ==
  ASSUME IInv, NEW o \in Object, NEW c \in Client, DropClient(o, c)
  PROVE  IInv'
<1>1. TypeOK /\ Sorted /\ Routed /\ Wired /\ Owed /\ NothingVanishes
  BY DEF IInv
<1>2. /\ leave' = [leave EXCEPT ![c] = "done"]
      /\ seat' = [seat EXCEPT ![c] = "left"] /\ obj' = [obj EXCEPT ![c] = None]
      /\ send' = [send EXCEPT ![c] = <<>>] /\ shown' = [shown EXCEPT ![c] = <<>>]
      /\ due' = [d \in Client |-> IF d \in {c} THEN due[d] \ Event ELSE due[d]]
      /\ sleepers' = sleepers \/ CheckEmpty(o, In({o}) \ {c})
      /\ UNCHANGED <<log, syncVars, home, mapped, closed, broadcast, panic>>
  BY DEF DropClient, Unregister, Forgive
<1>3. Loops'
  BY Telling DEF DropClient, Unregister
<1>4. /\ seat'[c] = "left" /\ obj'[c] = None /\ send'[c] = <<>> /\ shown'[c] = <<>> /\ due'[c] = {}
      /\ \A d \in Client : d # c => /\ seat'[d] = seat[d] /\ obj'[d] = obj[d] /\ send'[d] = send[d]
                                    /\ shown'[d] = shown[d] /\ due'[d] = due[d]
  BY <1>1, <1>2 DEF TypeOK
<1>5. UNCHANGED <<log, inbox, hand, target, home, mapped, closed, broadcast, panic>>
  BY <1>2 DEF syncVars
<1>6. TypeOK'
  <2>1. sleepers' \in [Room -> Nat]
    BY <1>1, <1>2, Checked DEF TypeOK
  <2>2. /\ \A S : <<>> \in Seq(S) /\ Len(<<>>) = 0
        /\ SendCap \in Nat /\ 0 <= SendCap
    BY EmptySeq, DeliveryAssumption
  <2>3. send' \in [Client -> Seq(Event \cup {Local})] /\ shown' \in [Client -> Seq(Event)]
    BY <1>1, <1>2, <2>2 DEF TypeOK
  <2>4. \A d \in Client : Len(send'[d]) <= SendCap
    BY <1>1, <1>4, <2>2 DEF TypeOK
  <2>5. due' \in [Client -> SUBSET Event]
    BY <1>1, <1>2 DEF TypeOK
  <2>6. /\ leave' \in [Client -> {"no", "asked", "done"}]
        /\ seat' \in [Client -> {"out", "queued", "in", "left"}] /\ obj' \in [Client -> Object \cup {None}]
    BY <1>1, <1>2 DEF TypeOK
  <2> HIDE DEF Space
  <2> QED BY <1>1, <1>3, <1>5, <2>1, <2>3, <2>4, <2>5, <2>6 DEF TypeOK, Loops
<1>7. Sorted'
  <2>1. Ascending(send'[c]) /\ On(send'[c]) = {} /\ On(shown'[c]) = {}
    BY <1>4, OnEmpty
  <2>2. (/\ Ascending(send[c]) /\ Before(On(shown[c]), On(send[c]))
         /\ Before(On(shown[c]) \cup On(send[c]), {hand} \cup On(inbox))
         /\ obj[c] # None => Before(On(shown[c]) \cup On(send[c]), On(broadcast[obj[c]])))'
    BY <1>4, <2>1 DEF Before
  <2>3. ASSUME NEW d \in Client, d # c
        PROVE  (/\ Ascending(send[d]) /\ Before(On(shown[d]), On(send[d]))
                /\ Before(On(shown[d]) \cup On(send[d]), {hand} \cup On(inbox))
                /\ obj[d] # None => Before(On(shown[d]) \cup On(send[d]), On(broadcast[obj[d]])))'
    BY <1>1, <1>4, <1>5, <2>3 DEF Sorted
  <2> QED BY <1>1, <1>5, <2>2, <2>3 DEF Sorted
<1>8. Routed'
  <2>1. \A I, p : OfRoom(I, p) => OfRoom(I, p)'
    BY <1>5 DEF OfRoom
  <2>2. ASSUME NEW d \in Client PROVE (obj[d] # None => OfRoom(On(shown[d]) \cup On(send[d]), obj[d]))'
    BY <1>1, <1>4, <2>1 DEF Routed
  <2> QED BY <1>1, <1>5, <2>1, <2>2 DEF Routed
<1>9. Wired'
  BY <1>1, <1>3, <1>4, <1>5 DEF Wired, Loops
<1>10. Owed'
  BY <1>1, <1>4, <1>5 DEF Owed, OfRoom
<1>11. NothingVanishes'
  BY <1>1, <1>4, <1>5 DEF NothingVanishes, OnItsWay
<1> QED BY <1>6, <1>7, <1>8, <1>9, <1>10, <1>11 DEF IInv

LEMMA WritePumpStep ==
  ASSUME IInv, NEW c \in Client, WritePump(c)
  PROVE  IInv'
<1> DEFINE e == Head(send[c])
<1>1. TypeOK /\ Sorted /\ Routed /\ Wired /\ Owed /\ NothingVanishes
  BY DEF IInv
<1>2. /\ send[c] # <<>> /\ send' = [send EXCEPT ![c] = Tail(@)]
      /\ due' = [d \in Client |-> IF d \in {c} THEN due[d] \ {e} ELSE due[d]]
      /\ shown' = IF e = Local THEN shown ELSE [shown EXCEPT ![c] = Append(@, e)]
      /\ UNCHANGED <<log, syncVars, mapVars, broadcast, loopVars, seatVars, panic>>
  BY DEF WritePump, Forgive
<1>3. UNCHANGED <<log, inbox, hand, target, home, mapped, closed, broadcast, loop, dest, typing, obj, seat>>
  BY <1>2 DEF syncVars, mapVars, loopVars, seatVars
<1>4. /\ e \in Event \cup {Local} /\ send'[c] \in Seq(Event \cup {Local})
      /\ Len(send'[c]) <= SendCap
      /\ \A x : x \in On(send[c]) <=> x = e \/ x \in On(send'[c])
      /\ Ascending(send'[c]) /\ Before({e}, On(send'[c]))
  <2> DEFINE S == Event \cup {Local}
  <2>1. send[c] \in Seq(S) /\ Len(send[c]) <= SendCap /\ SendCap \in Nat /\ Ascending(send[c])
    BY <1>1, DeliveryAssumption DEF TypeOK, Sorted
  <2>2. Removed(send'[c], send[c], e)
    BY <1>1, <1>2 DEF Removed, TypeOK
  <2> HIDE DEF S, e
  <2>3. /\ e \in S /\ send'[c] \in Seq(S) /\ Len(send'[c]) < Len(send[c])
        /\ Len(send'[c]) \in Nat /\ Len(send[c]) \in Nat
        /\ \A x : x \in On(send[c]) <=> x = e \/ x \in On(send'[c])
        /\ Ascending(send'[c]) /\ Before({e}, On(send'[c]))
    BY <2>1, <2>2, OnTail
  <2>4. Len(send'[c]) <= SendCap
    BY <2>1, <2>3
  <2> QED BY <2>3, <2>4 DEF S
<1>5. /\ shown'[c] \in Seq(Event)
      /\ \A x : x \in On(shown'[c]) => x \in On(shown[c]) \/ x = e
      /\ \A d \in Client : d # c => shown'[d] = shown[d]
  <2>1. shown[c] \in Seq(Event) /\ shown \in [Client -> Seq(Event)]
    BY <1>1 DEF TypeOK
  <2>2. CASE e = Local
    BY <1>2, <2>1, <2>2
  <2>3. CASE e # Local
    <3>1. shown'[c] = Append(shown[c], e) /\ \A d \in Client : d # c => shown'[d] = shown[d]
      BY <1>2, <2>1, <2>3
    <3>2. Appended(shown'[c], shown[c], e) /\ e \in Event
      BY <1>4, <2>3, <3>1 DEF Appended
    <3> HIDE DEF e
    <3>3. shown'[c] \in Seq(Event)
      BY <2>1, <3>2, OnAppend
    <3>4. ASSUME NEW x \in On(shown'[c]) PROVE x \in On(shown[c]) \/ x = e
      <4>1. shown[c] \in Seq(Event) /\ e \in Event /\ Appended(shown'[c], shown[c], e)
        BY <2>1, <3>2
      <4> QED BY <4>1, OnAppend, ZenonT(30)
    <3> QED BY <3>1, <3>3, <3>4
  <2> QED BY <2>2, <2>3
<1>6. /\ \A d \in Client : d # c => send'[d] = send[d] /\ due'[d] = due[d]
      /\ due'[c] = due[c] \ {e} /\ due' \in [Client -> SUBSET Event]
  BY <1>1, <1>2 DEF TypeOK
<1> HIDE DEF e
<1>7. TypeOK'
  <2>1. send' \in [Client -> Seq(Event \cup {Local})]
    <3>1. send' = [send EXCEPT ![c] = send'[c]]
      BY <1>1, <1>2 DEF TypeOK
    <3> QED BY <1>1, <1>4, <3>1 DEF TypeOK
  <2>2. shown' \in [Client -> Seq(Event)]
    <3>1. shown' = [shown EXCEPT ![c] = shown'[c]]
      BY <1>1, <1>2 DEF TypeOK
    <3> QED BY <1>1, <1>5, <3>1 DEF TypeOK
  <2>3. \A d \in Client : Len(send'[d]) <= SendCap
    BY <1>1, <1>4, <1>6 DEF TypeOK
  <2> QED BY <1>1, <1>2, <1>6, <2>1, <2>2, <2>3 DEF TypeOK, syncVars, mapVars, loopVars, seatVars
<1>8. seat[c] = "in" /\ obj[c] # None
  BY <1>1, <1>2 DEF Wired
<1>9. Sorted'
  <2>1. /\ Before(On(shown[c]), On(send[c]))
        /\ Before(On(shown[c]) \cup On(send[c]), {hand} \cup On(inbox))
        /\ Before(On(shown[c]) \cup On(send[c]), On(broadcast[obj[c]]))
    BY <1>1, <1>8 DEF Sorted
  <2>2. \A I : Before(On(shown[c]) \cup On(send[c]), I) => Before(On(shown'[c]) \cup On(send'[c]), I)
    BY <1>4, <1>5 DEF Before
  <2>3. Before(On(shown'[c]), On(send'[c]))
    BY <1>4, <1>5, <2>1 DEF Before
  <2>4. (/\ Ascending(send[c]) /\ Before(On(shown[c]), On(send[c]))
         /\ Before(On(shown[c]) \cup On(send[c]), {hand} \cup On(inbox))
         /\ obj[c] # None => Before(On(shown[c]) \cup On(send[c]), On(broadcast[obj[c]])))'
    BY <1>3, <1>4, <2>1, <2>2, <2>3
  <2>5. ASSUME NEW d \in Client, d # c
        PROVE  (/\ Ascending(send[d]) /\ Before(On(shown[d]), On(send[d]))
                /\ Before(On(shown[d]) \cup On(send[d]), {hand} \cup On(inbox))
                /\ obj[d] # None => Before(On(shown[d]) \cup On(send[d]), On(broadcast[obj[d]])))'
    BY <1>1, <1>3, <1>5, <1>6, <2>5 DEF Sorted
  <2> QED BY <1>1, <1>3, <2>4, <2>5 DEF Sorted
<1>10. Routed'
  <2>1. \A I, p : OfRoom(I, p) => OfRoom(I, p)'
    BY <1>3 DEF OfRoom
  <2>2. (obj[c] # None => OfRoom(On(shown[c]) \cup On(send[c]), obj[c]))'
    <3>1. OfRoom(On(shown[c]) \cup On(send[c]), obj[c])
      BY <1>1, <1>8 DEF Routed
    <3>2. \A x \in On(shown'[c]) \cup On(send'[c]) : x \in On(shown[c]) \cup On(send[c])
      BY <1>4, <1>5
    <3> QED BY <1>3, <3>1, <3>2 DEF OfRoom
  <2>3. ASSUME NEW d \in Client, d # c PROVE (obj[d] # None => OfRoom(On(shown[d]) \cup On(send[d]), obj[d]))'
    BY <1>1, <1>3, <1>5, <1>6, <2>1, <2>3 DEF Routed
  <2> QED BY <1>1, <1>3, <2>1, <2>2, <2>3 DEF Routed
<1>11. Wired'
  BY <1>1, <1>3, <1>5, <1>6, <1>8 DEF Wired
<1>12. Owed'
  <2>1. \A d \in Client : due'[d] \subseteq due[d]
    BY <1>6
  <2> QED BY <1>1, <1>3, <2>1 DEF Owed, OfRoom
<1>13. NothingVanishes'
  <2> SUFFICES ASSUME NEW d \in Client, NEW x \in due'[d] PROVE x \in OnItsWay(d)'
    BY DEF NothingVanishes
  <2>1. x \in OnItsWay(d)
    BY <1>1, <1>6 DEF NothingVanishes
  <2> QED BY <1>3, <1>4, <1>6, <2>1 DEF OnItsWay
<1> QED BY <1>7, <1>9, <1>10, <1>11, <1>12, <1>13 DEF IInv

LEMMA FanOutStep ==
  ASSUME IInv, NEW o \in Object, FanOut(o)
  PROVE  IInv'
<1> DEFINE e    == IF broadcast[o] = <<>> THEN Local ELSE Head(broadcast[o])
           full == {c \in In({o}) : Len(send[c]) >= SendCap}
           S    == Event \cup {Local}
<1>1. TypeOK /\ Sorted /\ Routed /\ Wired /\ Owed /\ NothingVanishes
  BY DEF IInv
<1>2. /\ broadcast' = [broadcast EXCEPT ![o] = IF @ = <<>> THEN @ ELSE Tail(@)]
      /\ send' = [c \in Client |-> IF c \in In({o}) \ full THEN Append(send[c], e) ELSE send[c]]
      /\ due' = [c \in Client |-> IF c \in full THEN due[c] \ {e} ELSE due[c]]
      /\ UNCHANGED <<log, syncVars, mapVars, seatVars, shown, panic>>
      /\ loop' = [loop EXCEPT ![o] = "select"] /\ UNCHANGED <<dest, typing>>
  BY DEF FanOut, GoTo, Forgive
<1>3. UNCHANGED <<log, inbox, hand, target, home, mapped, closed, dest, typing, obj, seat, shown>>
  BY <1>2 DEF syncVars, mapVars, seatVars
<1>0. /\ loop' \in [Object -> Place] /\ loop'[o] = "select" /\ loop[o] \in {"select", "fan"}
      /\ \A p \in Object : p # o => loop'[p] = loop[p]
  BY <1>1, <1>2 DEF TypeOK, FanOut
<1>4. /\ e \in S /\ broadcast'[o] \in Seq(S) /\ Len(broadcast'[o]) <= BroadcastCap
      /\ \A x \in On(broadcast'[o]) : x \in On(broadcast[o])
      /\ \A x \in On(broadcast[o]) : x = e \/ x \in On(broadcast'[o])
      /\ e # Local => e \in On(broadcast[o])
      /\ Ascending(broadcast'[o]) /\ Before({e}, On(broadcast'[o]))
      /\ \A p \in Object : p # o => broadcast'[p] = broadcast[p]
      /\ broadcast' \in [Object -> Seq(S)]
  <2>1. /\ broadcast[o] \in Seq(S) /\ Len(broadcast[o]) <= BroadcastCap + 1 /\ BroadcastCap \in Nat
        /\ Ascending(broadcast[o]) /\ broadcast \in [Object -> Seq(S)]
    BY <1>1, DeliveryAssumption DEF TypeOK, Sorted
  <2>2. CASE broadcast[o] = <<>>
    <3>1. e = Local /\ broadcast' = broadcast
      BY <1>2, <2>1, <2>2
    <3>2. Len(broadcast'[o]) <= BroadcastCap
      BY <2>1, <2>2, <3>1, EmptySeq
    <3> HIDE DEF e
    <3> QED BY <2>1, <3>1, <3>2 DEF Before
  <2>3. CASE broadcast[o] # <<>>
    <3>1. /\ broadcast'[o] = Tail(broadcast[o]) /\ e = Head(broadcast[o])
          /\ broadcast' = [broadcast EXCEPT ![o] = broadcast'[o]]
      BY <1>2, <2>1, <2>3
    <3>2. Removed(broadcast'[o], broadcast[o], e)
      BY <2>3, <3>1 DEF Removed
    <3> HIDE DEF e, S
    <3>3. /\ e \in S /\ broadcast'[o] \in Seq(S) /\ Len(broadcast'[o]) < Len(broadcast[o])
          /\ Len(broadcast'[o]) \in Nat /\ Len(broadcast[o]) \in Nat
          /\ \A x : x \in On(broadcast[o]) <=> x = e \/ x \in On(broadcast'[o])
          /\ Ascending(broadcast'[o]) /\ Before({e}, On(broadcast'[o]))
      BY <2>1, <3>2, OnTail
    <3>4. broadcast' \in [Object -> Seq(S)] /\ \A p \in Object : p # o => broadcast'[p] = broadcast[p]
      BY <2>1, <3>1, <3>3
    <3>5. Len(broadcast'[o]) <= BroadcastCap
      BY <2>1, <3>3
    <3> QED BY <3>3, <3>4, <3>5
  <2> QED BY <2>2, <2>3
<1>5. \A c \in Client : /\ c \in full => due'[c] = due[c] \ {e}
                        /\ c \notin full => due'[c] = due[c]
                        /\ due'[c] \subseteq Event
  BY <1>1, <1>2 DEF TypeOK
<1>6. \A c \in Client : \/ send'[c] = send[c] /\ (c \in full \/ c \notin In({o}))
                        \/ c \in In({o}) \ full /\ send'[c] = Append(send[c], e)
  BY <1>2
<1>7. ASSUME NEW c \in Client, c \in In({o}) \ full
      PROVE  /\ obj[c] = o /\ seat[c] = "in"
             /\ send'[c] \in Seq(S) /\ Len(send'[c]) <= SendCap
             /\ \A x \in On(send'[c]) : x \in On(send[c]) \/ x = e
             /\ \A x \in On(send[c]) \cup {e} : x \in On(send'[c])
             /\ Ascending(send'[c])
  <2>1. obj[c] = o /\ seat[c] = "in" /\ ~(Len(send[c]) >= SendCap)
    BY <1>7 DEF In
  <2>2. /\ send[c] \in Seq(S) /\ Len(send[c]) \in Nat /\ SendCap \in Nat /\ Ascending(send[c])
    <3>1. send[c] \in Seq(S)
      BY <1>1 DEF TypeOK
    <3> HIDE DEF S
    <3>2. Ascending(send[c])
      BY <1>1 DEF Sorted
    <3> QED BY <3>1, <3>2, DeliveryAssumption
  <2>3. o # None
    BY DeliveryAssumption
  <2> HIDE DEF e, S, full
  <2>4. Before(On(send[c]), {e})
    <3>1. Before(On(send[c]), On(broadcast[o]))
      BY <1>1, <2>1, <2>3 DEF Sorted, Before
    <3> QED BY <1>4, <3>1 DEF Before
  <2>5. e \in S /\ Appended(send'[c], send[c], e)
    BY <1>4, <1>6, <1>7 DEF Appended
  <2>6. /\ send'[c] \in Seq(S) /\ Len(send'[c]) = Len(send[c]) + 1 /\ Ascending(send'[c])
        /\ \A x : x \in On(send'[c]) <=> x \in On(send[c]) \/ x = e
    BY <2>2, <2>4, <2>5, OnAppend
  <2> QED BY <2>1, <2>2, <2>6
<1> HIDE DEF e, full
<1>8. TypeOK'
  <2>1. send' \in [Client -> Seq(S)] /\ \A c \in Client : Len(send'[c]) <= SendCap
    <3>1. ASSUME NEW c \in Client PROVE send'[c] \in Seq(S) /\ Len(send'[c]) <= SendCap
      BY <1>1, <1>6, <1>7 DEF TypeOK
    <3>2. send' = [c \in Client |-> send'[c]]
      BY <1>2
    <3> QED BY <3>1, <3>2
  <2>2. due' \in [Client -> SUBSET Event]
    <3>1. due' = [c \in Client |-> due'[c]]
      BY <1>2
    <3> QED BY <1>5, <3>1
  <2>3. \A p \in Object : Len(broadcast'[p]) <= Space(p)'
    BY <1>0, <1>1, <1>4 DEF TypeOK
  <2> HIDE DEF Space
  <2> QED BY <1>0, <1>1, <1>2, <1>4, <2>1, <2>2, <2>3 DEF TypeOK, syncVars, mapVars, seatVars
<1>9. Sorted'
  <2>1. \A p \in Object : /\ Ascending(broadcast'[p])
                          /\ \A x \in On(broadcast'[p]) : x \in On(broadcast[p])
    BY <1>1, <1>4 DEF Sorted
  <2>2. \A p \in Object : Before(On(broadcast'[p]), {hand} \cup On(inbox))
    BY <1>1, <2>1 DEF Sorted, Before
  <2>3. ASSUME NEW c \in Client
        PROVE  (/\ Ascending(send[c]) /\ Before(On(shown[c]), On(send[c]))
                /\ Before(On(shown[c]) \cup On(send[c]), {hand} \cup On(inbox))
                /\ obj[c] # None => Before(On(shown[c]) \cup On(send[c]), On(broadcast[obj[c]])))'
    <3>1. /\ Ascending(send[c]) /\ Before(On(shown[c]), On(send[c]))
          /\ Before(On(shown[c]) \cup On(send[c]), {hand} \cup On(inbox))
          /\ obj[c] # None => Before(On(shown[c]) \cup On(send[c]), On(broadcast[obj[c]]))
      BY <1>1 DEF Sorted
    <3>2. CASE send'[c] = send[c]
      <4>1. obj[c] # None => Before(On(shown[c]) \cup On(send[c]), On(broadcast'[obj[c]]))
        BY <1>1, <2>1, <3>1 DEF Before, TypeOK
      <4> QED BY <1>3, <3>1, <3>2, <4>1
    <3>3. CASE c \in In({o}) \ full
      <4>1. /\ obj[c] = o /\ obj[c] # None /\ Ascending(send'[c])
            /\ \A x \in On(send'[c]) : x \in On(send[c]) \/ x = e
        BY <1>7, <3>3, DeliveryAssumption
      <4>2. Before(On(shown[c]), On(send'[c]))
        BY <1>4, <3>1, <4>1 DEF Before
      <4>3. Before({e}, {hand} \cup On(inbox))
        BY <1>1, <1>4 DEF Sorted, Before
      <4>4. Before(On(shown[c]) \cup On(send'[c]), {hand} \cup On(inbox))
        BY <3>1, <4>1, <4>3 DEF Before
      <4>5. Before(On(shown[c]) \cup On(send'[c]), On(broadcast'[o]))
        BY <1>4, <3>1, <4>1 DEF Before
      <4> QED BY <1>3, <4>1, <4>2, <4>4, <4>5
    <3> QED BY <1>6, <3>2, <3>3
  <2> QED BY <1>1, <1>3, <2>1, <2>2, <2>3 DEF Sorted
<1>10. Routed'
  <2>1. \A I, p : OfRoom(I, p) => OfRoom(I, p)'
    BY <1>3 DEF OfRoom
  <2>2. ASSUME NEW p \in Object PROVE OfRoom(On(broadcast[p]), p)'
    <3>1. OfRoom(On(broadcast[p]), p) /\ \A x \in On(broadcast'[p]) : x \in On(broadcast[p])
      BY <1>1, <1>4 DEF Routed
    <3> QED BY <1>3, <3>1 DEF OfRoom
  <2>3. ASSUME NEW c \in Client, obj[c] # None
        PROVE  OfRoom(On(shown[c]) \cup On(send[c]), obj[c])'
    <3>1. OfRoom(On(shown[c]) \cup On(send[c]), obj[c])
      BY <1>1, <2>3 DEF Routed
    <3>2. CASE send'[c] = send[c]
      BY <1>3, <3>1, <3>2 DEF OfRoom
    <3>3. CASE c \in In({o}) \ full
      <4>1. obj[c] = o /\ \A x \in On(send'[c]) : x \in On(send[c]) \/ x = e
        BY <1>7, <3>3
      <4>2. e # Local => e \in DOMAIN log /\ log[e] = home[o]
        BY <1>1, <1>4 DEF Routed, OfRoom
      <4> QED BY <1>3, <3>1, <4>1, <4>2 DEF OfRoom
    <3> QED BY <1>6, <3>2, <3>3
  <2> QED BY <1>1, <1>3, <2>1, <2>2, <2>3 DEF Routed
<1>11. Wired'
  <2>1. \A p \in Object : home[p] = None => broadcast'[p] = <<>>
    BY <1>1, <1>2 DEF Wired, TypeOK
  <2>2. \A c \in Client : seat[c] # "in" => send'[c] = send[c]
    BY <1>6, <1>7
  <2>3. \A p \in Object : /\ loop'[p] \in {"join", "leave"} => dest'[p] # None /\ home'[dest'[p]] # None
                          /\ p \in typing' => home'[p] # None /\ loop'[p] # "leave"
    BY <1>0, <1>1, <1>3 DEF Wired
  <2> QED BY <1>1, <1>3, <2>1, <2>2, <2>3 DEF Wired
<1>12. Owed'
  <2>1. \A c \in Client : due'[c] \subseteq due[c]
    BY <1>5
  <2> QED BY <1>1, <1>3, <2>1 DEF Owed, OfRoom
<1>13. NothingVanishes'
  <2> SUFFICES ASSUME NEW c \in Client, NEW x \in due'[c] PROVE x \in OnItsWay(c)'
    BY DEF NothingVanishes
  <2>1. x \in due[c] /\ x \in OnItsWay(c) /\ seat[c] = "in" /\ obj[c] \in Object
    BY <1>1, <1>5, Homes DEF NothingVanishes, Owed
  <2>2. \A y \in On(send[c]) : y \in On(send'[c])
    BY <1>6, <1>7
  <2>3. CASE obj[c] # o
    BY <1>3, <1>4, <2>1, <2>2, <2>3 DEF OnItsWay
  <2>4. CASE obj[c] = o /\ x # e
    BY <1>3, <1>4, <2>1, <2>2, <2>4 DEF OnItsWay
  <2>5. CASE obj[c] = o /\ x = e
    <3>1. c \in In({o}) \ full
      BY <1>5, <2>1, <2>5 DEF In
    <3> QED BY <1>7, <3>1, <2>5 DEF OnItsWay
  <2> QED BY <2>3, <2>4, <2>5
<1> QED BY <1>8, <1>9, <1>10, <1>11, <1>12, <1>13 DEF IInv

LEMMA GetOrCreateRoomStep ==
  ASSUME IInv, NEW r \in Room, GetOrCreateRoom(r)
  PROVE  IInv'
<1>1. TypeOK /\ Sorted /\ Routed /\ Wired /\ Owed /\ NothingVanishes
  BY DEF IInv
<1>2. PICK n \in Client : n = NewClient /\ seat[n] = "out"
  BY DEF GetOrCreateRoom, NewClient
<1>3. obj[n] = None /\ send[n] = <<>> /\ shown[n] = <<>> /\ due[n] = {}
  BY <1>1, <1>2 DEF Wired, Owed
<1>4. /\ UNCHANGED <<log, syncVars, closed, sleepers, broadcast, loopVars, leave, clientVars, panic>>
      /\ seat' = [seat EXCEPT ![n] = "queued"]
  BY <1>2 DEF GetOrCreateRoom
<1>5. UNCHANGED <<log, inbox, hand, target, closed, broadcast, loop, dest, typing, send, due, shown>>
  BY <1>4 DEF syncVars, loopVars, clientVars
<1>6. PICK o \in Object :
        /\ obj' = [obj EXCEPT ![n] = o]
        /\ \/ o \in mapped /\ home[o] = r /\ UNCHANGED <<home, mapped>>
           \/ /\ Mapped(r) = {} /\ home[o] = None
              /\ home' = [home EXCEPT ![o] = r] /\ mapped' = mapped \cup {o}
  <2>1. CASE \E o \in Mapped(r) : obj' = [obj EXCEPT ![NewClient] = o] /\ UNCHANGED <<home, mapped>>
    BY <1>1, <1>2, <2>1 DEF Mapped, TypeOK
  <2>2. CASE /\ Mapped(r) = {} /\ \E o \in Object : home[o] = None
             /\ home' = [home EXCEPT ![NewRoom] = r]
             /\ mapped' = mapped \cup {NewRoom}
             /\ obj' = [obj EXCEPT ![NewClient] = NewRoom]
    <3>1. NewRoom \in Object /\ home[NewRoom] = None
      BY <2>2 DEF NewRoom
    <3> QED BY <1>2, <2>2, <3>1
  <2> QED BY <2>1, <2>2 DEF GetOrCreateRoom
<1>7. /\ home' \in [Object -> Room \cup {None}] /\ home'[o] = r /\ r # None
      /\ \A p \in Object : home[p] # None => home'[p] = home[p]
      /\ \A p \in Object : home'[p] = None => home[p] = None /\ p # o
      /\ mapped \subseteq mapped' /\ mapped' \subseteq mapped \cup {o} /\ o \in mapped'
  <2>1. home \in [Object -> Room \cup {None}] /\ r # None
    BY <1>1, DeliveryAssumption DEF TypeOK
  <2>2. CASE o \in mapped /\ home[o] = r /\ UNCHANGED <<home, mapped>>
    BY <2>1, <2>2
  <2>3. CASE home[o] = None /\ home' = [home EXCEPT ![o] = r] /\ mapped' = mapped \cup {o}
    BY <2>1, <2>3
  <2> QED BY <1>6, <2>2, <2>3
<1>8. /\ obj'[n] = o /\ \A c \in Client : c # n => obj'[c] = obj[c] /\ seat'[c] = seat[c]
      /\ obj' \in [Client -> Object \cup {None}] /\ seat'[n] = "queued"
  BY <1>1, <1>2, <1>4, <1>6 DEF TypeOK
<1>9. TypeOK'
  BY <1>1, <1>4, <1>6, <1>7, <1>8 DEF TypeOK, syncVars, loopVars, clientVars
<1>10. Sorted'
  <2>1. (/\ Ascending(send[n]) /\ Before(On(shown[n]), On(send[n]))
         /\ Before(On(shown[n]) \cup On(send[n]), {hand} \cup On(inbox))
         /\ obj[n] # None => Before(On(shown[n]) \cup On(send[n]), On(broadcast[obj[n]])))'
    <3>1. Ascending(send'[n]) /\ On(send'[n]) = {} /\ On(shown'[n]) = {}
      BY <1>3, <1>5, OnEmpty
    <3> QED BY <3>1 DEF Before
  <2>2. ASSUME NEW c \in Client, c # n
        PROVE  (/\ Ascending(send[c]) /\ Before(On(shown[c]), On(send[c]))
                /\ Before(On(shown[c]) \cup On(send[c]), {hand} \cup On(inbox))
                /\ obj[c] # None => Before(On(shown[c]) \cup On(send[c]), On(broadcast[obj[c]])))'
    BY <1>1, <1>5, <1>8, <2>2 DEF Sorted
  <2> QED BY <1>1, <1>5, <2>1, <2>2 DEF Sorted
<1>11. Routed'
  <2>1. \A I, p : p \in Object /\ home[p] # None /\ OfRoom(I, p) => OfRoom(I, p)'
    BY <1>5, <1>7 DEF OfRoom
  <2>2. (target # None => OfRoom({hand}, target))'
    BY <1>1, <1>5, <2>1, Homes DEF Routed, Wired
  <2>3. ASSUME NEW p \in Object PROVE OfRoom(On(broadcast[p]), p)'
    <3>1. CASE home[p] = None
      BY <1>1, <1>5, <3>1, OnEmpty DEF Wired, OfRoom
    <3>2. CASE home[p] # None
      BY <1>1, <1>5, <2>1, <3>2 DEF Routed
    <3> QED BY <3>1, <3>2
  <2>4. ASSUME NEW c \in Client PROVE (obj[c] # None => OfRoom(On(shown[c]) \cup On(send[c]), obj[c]))'
    <3>1. CASE c = n
      BY <1>3, <1>5, <3>1, OnEmpty DEF OfRoom
    <3>2. CASE c # n
      BY <1>1, <1>5, <1>8, <2>1, <3>2 DEF Routed, Wired, TypeOK
    <3> QED BY <3>1, <3>2
  <2> QED BY <1>1, <1>5, <2>2, <2>3, <2>4 DEF Routed
<1>12. Wired'
  <2>1. \A p \in Object : home'[p] = None => broadcast'[p] = <<>> /\ p \notin mapped' \cup closed'
    BY <1>1, <1>5, <1>7 DEF Wired
  <2>2. mapped' \cap closed' = {} /\ \A p, q \in mapped' : home'[p] = home'[q] => p = q
    <3>1. CASE o \in mapped /\ UNCHANGED <<home, mapped>>
      BY <1>1, <1>5, <3>1 DEF Wired
    <3>2. CASE Mapped(r) = {} /\ home[o] = None /\ mapped' = mapped \cup {o}
      <4>1. o \notin closed /\ \A p \in mapped : p \in Object /\ home[p] # r /\ home'[p] = home[p]
        BY <1>1, <1>7, <3>2, Homes DEF Wired, Mapped
      <4> QED BY <1>1, <1>5, <1>7, <3>2, <4>1 DEF Wired
    <3> QED BY <1>6, <3>1, <3>2
  <2>3. \A p \in Object : loop'[p] \in {"join", "leave"} => dest'[p] # None /\ home'[dest'[p]] # None
    BY <1>1, <1>5, <1>7 DEF Wired, TypeOK
  <2>4. \A c \in Client : /\ obj'[c] = None <=> seat'[c] \in {"out", "left"}
                          /\ obj'[c] # None => home'[obj'[c]] # None
                          /\ seat'[c] # "in" => send'[c] = <<>> /\ shown'[c] = <<>>
    <3>1. /\ obj'[n] # None /\ home'[obj'[n]] # None /\ seat'[n] = "queued"
          /\ send'[n] = <<>> /\ shown'[n] = <<>>
      BY <1>3, <1>5, <1>7, <1>8, DeliveryAssumption
    <3>2. ASSUME NEW c \in Client, c # n
          PROVE  /\ obj'[c] = None <=> seat'[c] \in {"out", "left"}
                 /\ obj'[c] # None => home'[obj'[c]] # None
                 /\ seat'[c] # "in" => send'[c] = <<>> /\ shown'[c] = <<>>
      BY <1>1, <1>5, <1>7, <1>8, <3>2 DEF Wired, TypeOK
    <3> QED BY <3>1, <3>2
  <2>5. hand' = Local <=> target' = None
    BY <1>1, <1>5 DEF Wired
  <2>6. \A p \in Object : p \in typing' => home'[p] # None /\ loop'[p] # "leave"
    BY <1>1, <1>5, <1>7 DEF Wired
  <2> QED BY <2>1, <2>2, <2>3, <2>4, <2>5, <2>6 DEF Wired
<1>13. Owed'
  <2> SUFFICES ASSUME NEW c \in Client, (due[c] # {})'
               PROVE  (seat[c] = "in" /\ obj[c] \in mapped /\ OfRoom(due[c], obj[c]))'
    BY DEF Owed
  <2>1. c # n /\ seat[c] = "in" /\ obj[c] \in mapped /\ OfRoom(due[c], obj[c])
    BY <1>1, <1>3, <1>5 DEF Owed
  <2>2. home'[obj[c]] = home[obj[c]]
    BY <1>7, <2>1, Homes
  <2> QED BY <1>5, <1>7, <1>8, <2>1, <2>2 DEF OfRoom
<1>14. NothingVanishes'
  BY <1>1, <1>3, <1>5, <1>8 DEF NothingVanishes, OnItsWay
<1> QED BY <1>9, <1>10, <1>11, <1>12, <1>13, <1>14 DEF IInv

LEMMA Step == IInv /\ [Next]_vars => IInv'
<1> SUFFICES ASSUME IInv, [Next]_vars PROVE IInv'
  OBVIOUS
<1>1. ASSUME NEW r \in Room, Publish(r) PROVE IInv'
  BY <1>1, PublishStep
<1>2. ASSUME NEW r \in Room, RemoveRoom(r) PROVE IInv'
  BY <1>2, RemoveRoomStep
<1>3. ASSUME NEW r \in Room, GetOrCreateRoom(r) PROVE IInv'
  BY <1>3, GetOrCreateRoomStep
<1>4. CASE SyncLoop
  BY <1>4, BroadcastMessageStep, SyncSendStep DEF SyncLoop
<1>5. ASSUME NEW o \in Object, HandleRoom(o) PROVE IInv'
  BY <1>5, WaitStep, FanOutStep, TickStep, AddClientStep, DropClientStep, DropUnknownStep,
     BroadcastUserEventStep DEF HandleRoom, Select
<1>9. ASSUME NEW o \in Object, Typing(o) PROVE IInv'
  BY <1>9, HandleTypingEventStep, SendTypingStep DEF Typing
<1>6. ASSUME NEW o \in Object, EvictRoom(o) PROVE IInv'
  BY <1>6, EvictRoomStep
<1>7. ASSUME NEW c \in Client, WritePump(c) \/ Leave(c) PROVE IInv'
  BY <1>7, WritePumpStep, LeaveStep
<1>8. CASE UNCHANGED vars
  <2>1. /\ UNCHANGED queueVars /\ UNCHANGED <<due, seat>>
        /\ UNCHANGED <<mapped, closed, sleepers, loop, dest, typing, leave, panic>>
    BY <1>8 DEF vars, queueVars, syncVars, mapVars, loopVars, seatVars, clientVars
  <2>2. Sorted' /\ Routed'
    BY <2>1, QueuesAlone DEF IInv
  <2>3. Owed' /\ NothingVanishes'
    BY <2>1, DebtsAlone DEF IInv, Owed
  <2>4. TypeOK' /\ Wired'
    BY <2>1 DEF IInv, TypeOK, Wired, queueVars
  <2> QED BY <2>2, <2>3, <2>4 DEF IInv
<1> QED BY <1>1, <1>2, <1>3, <1>4, <1>5, <1>6, <1>7, <1>8, <1>9 DEF Next

(* The inductive invariant, from which all the rest follows.                    *)
THEOREM Invariance == Spec => []IInv
<1> QED BY Start, Step, PTL DEF Spec

(* Every variable has its type.                                                 *)
THEOREM TypeCorrect == Spec => []TypeOK
<1>1. IInv => TypeOK
  BY DEF IInv
<1> QED BY <1>1, Invariance, PTL

(* A message that a client is owed is on its way to it, for any number of       *)
(* clients, rooms and messages (sync.go:69, manager.go:151-159, 243-258).       *)
THEOREM Conservation == Spec => []NothingVanishes
<1>1. IInv => NothingVanishes
  BY DEF IInv
<1> QED BY <1>1, Invariance, PTL

-----------------------------------------------------------------------------
(* The refinement *)
LEMMA TimelineStart == Init => TL!Init
  BY DEF Init, TL!Init, RoomOf

(* What RoomOf does when nobody enters or leaves. *)
LEMMA SameRooms == UNCHANGED <<obj, home>> => RoomOf' = RoomOf
  BY DEF RoomOf

LEMMA Enters ==
  ASSUME IInv, NEW r \in Room, GetOrCreateRoom(r)
  PROVE  \E c \in Client : TL!Enter(c, r)
<1>1. TypeOK /\ Wired
  BY DEF IInv
<1>2. PICK n \in Client : n = NewClient /\ seat[n] = "out"
  BY DEF GetOrCreateRoom, NewClient
<1>3. PICK o \in Object : /\ obj' = [obj EXCEPT ![n] = o]
                          /\ home'[o] = r /\ \A p \in Object : home[p] # None => home'[p] = home[p]
  <2>1. CASE \E o \in Mapped(r) : obj' = [obj EXCEPT ![NewClient] = o] /\ UNCHANGED <<home, mapped>>
    BY <1>1, <1>2, <2>1 DEF Mapped, TypeOK
  <2>2. CASE /\ \E o \in Object : home[o] = None
             /\ home' = [home EXCEPT ![NewRoom] = r]
             /\ obj' = [obj EXCEPT ![NewClient] = NewRoom]
    <3>1. NewRoom \in Object /\ home[NewRoom] = None
      BY <2>2 DEF NewRoom
    <3> QED BY <1>1, <1>2, <2>2, <3>1 DEF TypeOK
  <2> QED BY <2>1, <2>2 DEF GetOrCreateRoom
<1>4. obj[n] = None /\ obj \in [Client -> Object \cup {None}]
  BY <1>1, <1>2 DEF Wired, TypeOK
<1>5. RoomOf[n] = None
  BY <1>4 DEF RoomOf
<1>6. RoomOf' = [RoomOf EXCEPT ![n] = r]
  <2>1. \A c \in Client : c # n => obj'[c] = obj[c] /\ (obj[c] # None => home'[obj[c]] = home[obj[c]])
    BY <1>1, <1>3, <1>4 DEF Wired
  <2>2. obj'[n] = o /\ o # None /\ home'[o] = r
    BY <1>3, <1>4, DeliveryAssumption
  <2>3. \A c \in Client : RoomOf'[c] = IF c = n THEN r ELSE RoomOf[c]
    BY <2>1, <2>2 DEF RoomOf
  <2>4. /\ RoomOf' = [c \in Client |-> RoomOf'[c]]
        /\ [RoomOf EXCEPT ![n] = r] = [c \in Client |-> IF c = n THEN r ELSE RoomOf[c]]
    BY DEF RoomOf
  <2> QED BY <2>3, <2>4
<1>7. UNCHANGED <<log, shown>>
  BY DEF GetOrCreateRoom, clientVars
<1> QED BY <1>5, <1>6, <1>7 DEF TL!Enter

LEMMA Leaves ==
  ASSUME IInv, NEW o \in Object, NEW c \in Client, DropClient(o, c)
  PROVE  TL!Leave(c)
<1>1. obj \in [Client -> Object \cup {None}] /\ UNCHANGED <<log, home>>
      /\ obj' = [obj EXCEPT ![c] = None] /\ shown' = [shown EXCEPT ![c] = <<>>]
  BY DEF IInv, TypeOK, DropClient
<1>2. RoomOf' = [RoomOf EXCEPT ![c] = None]
  <2>1. \A d \in Client : RoomOf'[d] = IF d = c THEN None ELSE RoomOf[d]
    BY <1>1 DEF RoomOf
  <2>2. /\ RoomOf' = [d \in Client |-> RoomOf'[d]]
        /\ [RoomOf EXCEPT ![c] = None] = [d \in Client |-> IF d = c THEN None ELSE RoomOf[d]]
    BY DEF RoomOf
  <2> QED BY <2>1, <2>2
<1> QED BY <1>1, <1>2 DEF TL!Leave

(* What a client is shown is of its room, and later than all it was shown. *)
LEMMA Shows ==
  ASSUME IInv, NEW c \in Client, WritePump(c)
  PROVE  UNCHANGED TL!vars \/ \E i \in DOMAIN log : TL!Show(c, i)
<1> DEFINE e == Head(send[c])
<1>1. TypeOK /\ Sorted /\ Routed /\ Wired
  BY DEF IInv
<1>2. /\ send[c] # <<>>
      /\ shown' = IF e = Local THEN shown ELSE [shown EXCEPT ![c] = Append(@, e)]
      /\ UNCHANGED <<log, obj, home>>
  BY DEF WritePump, mapVars, seatVars
<1>3. UNCHANGED <<log, RoomOf>>
  BY <1>2, SameRooms
<1>4. CASE e = Local
  BY <1>2, <1>3, <1>4 DEF TL!vars
<1>5. CASE e # Local
  <2>1. send[c] \in Seq(Event \cup {Local}) /\ shown[c] \in Seq(Event) /\ obj[c] # None
    BY <1>1, <1>2 DEF TypeOK, Wired
  <2>2. e \in On(send[c])
    <3>1. 1 \in DOMAIN send[c] /\ e = send[c][1]
      BY <1>2, <2>1
    <3> QED BY <3>1 DEF On
  <2> HIDE DEF e
  <2>3. e \in DOMAIN log /\ log[e] = home[obj[c]]
    BY <1>1, <1>5, <2>1, <2>2 DEF Routed, OfRoom
  <2>4. \A j \in DOMAIN shown[c] : shown[c][j] < e
    <3> SUFFICES ASSUME NEW j \in DOMAIN shown[c] PROVE shown[c][j] < e
      OBVIOUS
    <3>1. shown[c][j] \in Event /\ shown[c][j] \in On(shown[c])
      BY <2>1 DEF On
    <3>2. shown[c][j] # Local
      BY <3>1, DeliveryAssumption DEF Event, Local
    <3> QED BY <1>1, <1>5, <2>2, <3>1, <3>2 DEF Sorted, Before
  <2>5. log[e] = RoomOf[c]
    BY <2>1, <2>3 DEF RoomOf
  <2>6. shown' = [shown EXCEPT ![c] = Append(@, e)]
    BY <1>2, <1>5
  <2> QED BY <1>3, <2>3, <2>4, <2>5, <2>6 DEF TL!Show
<1> QED BY <1>4, <1>5

LEMMA TimelineStep == IInv /\ [Next]_vars => [TL!Next]_TL!vars
<1> SUFFICES ASSUME IInv, [Next]_vars PROVE TL!Next \/ UNCHANGED TL!vars
  OBVIOUS
<1>1. ASSUME UNCHANGED <<log, obj, home, shown>> PROVE UNCHANGED TL!vars
  BY <1>1, SameRooms DEF TL!vars
<1>2. ASSUME NEW r \in Room, Publish(r) PROVE TL!Next
  <2>1. RoomOf' = RoomOf
    BY <1>2, SameRooms DEF Publish, mapVars, seatVars
  <2> QED BY <1>2, <2>1 DEF Publish, TL!Next, TL!Publish
<1>3. ASSUME NEW r \in Room, GetOrCreateRoom(r) PROVE TL!Next
  BY <1>3, Enters DEF TL!Next
<1>4. ASSUME NEW r \in Room, RemoveRoom(r) PROVE UNCHANGED <<log, obj, home, shown>>
  BY <1>4 DEF RemoveRoom, seatVars
<1>5. ASSUME SyncLoop PROVE UNCHANGED <<log, obj, home, shown>>
  BY <1>5 DEF SyncLoop, BroadcastMessage, SyncSend, mapVars, seatVars, clientVars
<1>6. ASSUME NEW o \in Object, HandleRoom(o) PROVE TL!Next \/ UNCHANGED <<log, obj, home, shown>>
  <2>1. CASE FanOut(o)
    BY <2>1 DEF FanOut, mapVars, seatVars
  <2>2. ASSUME NEW c \in Client, AddClient(o, c) PROVE UNCHANGED <<log, obj, home, shown>>
    BY <2>2 DEF AddClient, mapVars, clientVars
  <2>3. ASSUME NEW c \in Client, DropClient(o, c) PROVE TL!Next
    BY <2>3, Leaves DEF TL!Next
  <2>4. ASSUME NEW c \in Client, DropUnknown(o, c) PROVE UNCHANGED <<log, obj, home, shown>>
    BY <2>4 DEF DropUnknown, clientVars
  <2>5. CASE BroadcastUserEvent(o)
    BY <2>5 DEF BroadcastUserEvent, seatVars, clientVars
  <2>6. CASE Wait(o) \/ Tick(o)
    BY <2>6 DEF Wait, Tick, mapVars, seatVars, clientVars
  <2> QED BY <1>6, <2>1, <2>2, <2>3, <2>4, <2>5, <2>6 DEF HandleRoom, Select
<1>11. ASSUME NEW o \in Object, Typing(o) PROVE UNCHANGED <<log, obj, home, shown>>
  BY <1>11 DEF Typing, HandleTypingEvent, SendTyping, mapVars, seatVars, clientVars
<1>7. ASSUME NEW o \in Object, EvictRoom(o) PROVE UNCHANGED <<log, obj, home, shown>>
  BY <1>7 DEF EvictRoom, seatVars, clientVars
<1>8. ASSUME NEW c \in Client, WritePump(c) PROVE TL!Next \/ UNCHANGED TL!vars
  BY <1>8, Shows DEF TL!Next
<1>9. ASSUME NEW c \in Client, Leave(c) PROVE UNCHANGED <<log, obj, home, shown>>
  BY <1>9 DEF Leave, mapVars, clientVars
<1>10. ASSUME UNCHANGED vars PROVE UNCHANGED <<log, obj, home, shown>>
  BY <1>10 DEF vars, mapVars, seatVars, clientVars
<1> QED BY <1>1, <1>2, <1>3, <1>4, <1>5, <1>6, <1>7, <1>8, <1>9, <1>10, <1>11 DEF Next

(* Clients see the messages of their room in the order of the log, none twice   *)
(* and none of another room, whatever joins, leaves, removals and evictions     *)
(* come in between (sync.go:67-71, manager.go:151-159, client.go:130-143).      *)
THEOREM Refinement == Spec => ImplementsTimeline
<1> QED BY TimelineStart, TimelineStep, Invariance, PTL DEF Spec, ImplementsTimeline, TL!Spec
-----------------------------------------------------------------------------
(* Debts move towards their clients *)
Forward(c, i) == IF i \in due'[c] THEN MovesOn(c, i) ELSE Settled(c, i)

(* What is known of a debt. *)
LEMMA Debt ==
  ASSUME IInv, NEW c \in Client, NEW i \in due[c]
  PROVE  /\ i \in Event /\ i # Local
         /\ seat[c] = "in" /\ obj[c] \in mapped /\ obj[c] \in Object /\ obj[c] \notin closed
         /\ broadcast[obj[c]] \in Seq(Event \cup {Local})
         /\ send[c] \in Seq(Event \cup {Local}) /\ shown[c] \in Seq(Event)
<1>1. TypeOK /\ Wired /\ Owed
  BY DEF IInv
<1>2. seat[c] = "in" /\ obj[c] \in mapped
  BY <1>1 DEF Owed
<1>3. i \in Event /\ obj[c] \in Object
  BY <1>1, <1>2 DEF TypeOK
<1>4. i # Local
  BY <1>3, DeliveryAssumption DEF Event, Local
<1> QED BY <1>1, <1>2, <1>3, <1>4 DEF TypeOK, Wired

(* A step that takes nothing away from where the debt has come. *)
LEMMA Stays ==
  ASSUME NEW c \in Client, NEW i, i \in due'[c],
         On(send[c]) \subseteq On(send'[c]), obj'[c] = obj[c],
         On(broadcast[obj[c]]) \subseteq On(broadcast'[obj[c]]),
         i = hand => UNCHANGED <<hand, target>>
  PROVE  Forward(c, i)
BY DEF Forward, MovesOn, AtSend, AtRoom, AtClient

LEMMA SyncSendForward ==
  ASSUME IInv, SyncSend, NEW c \in Client, NEW i \in due[c]
  PROVE  Forward(c, i)
<1>1. /\ hand \in Event \cup {Local} /\ target \in Object /\ Broadcast(target, hand)
      /\ UNCHANGED <<send, obj, due>>
  BY Homes DEF IInv, TypeOK, SyncSend, clientVars, seatVars
<1>2. TypeOK
  BY DEF IInv
<1>3. /\ \A p \in Object : On(broadcast[p]) \subseteq On(broadcast'[p])
      /\ target \notin closed => hand \in On(broadcast'[target])
  <2>1. /\ \A p \in Object : p # target => broadcast'[p] = broadcast[p]
        /\ target \in closed => UNCHANGED broadcast
        /\ target \notin closed => \A x : x \in On(broadcast'[target]) <=> x \in On(broadcast[target]) \/ x = hand
    BY <1>1, <1>2, Sent
  <2> QED BY <2>1
<1>4. obj[c] \in Object /\ obj[c] \notin closed
  BY Debt
<1> QED BY <1>1, <1>3, <1>4 DEF Forward, MovesOn, AtSend, AtRoom, AtClient

LEMMA LocalForward ==
  ASSUME IInv, NEW d \in Object, Broadcast(d, Local), UNCHANGED <<send, obj, due, hand, target>>,
         NEW c \in Client, NEW i \in due[c]
  PROVE  Forward(c, i)
<1>1. TypeOK /\ Local \in Event \cup {Local}
  BY DEF IInv
<1>2. \A p \in Object : On(broadcast[p]) \subseteq On(broadcast'[p])
  <2>1. /\ \A p \in Object : p # d => broadcast'[p] = broadcast[p]
        /\ d \in closed => UNCHANGED broadcast
        /\ d \notin closed => \A x : x \in On(broadcast'[d]) <=> x \in On(broadcast[d]) \/ x = Local
    BY <1>1, Sent
  <2> QED BY <2>1
<1>3. obj[c] \in Object
  BY Debt
<1> QED BY <1>2, <1>3, Stays

LEMMA UserEventForward ==
  ASSUME IInv, NEW o \in Object, BroadcastUserEvent(o), NEW c \in Client, NEW i \in due[c]
  PROVE  Forward(c, i)
<1>1. /\ dest[o] \in Object /\ Broadcast(dest[o], Local)
      /\ UNCHANGED <<send, obj, due, hand, target>>
  BY DEF IInv, TypeOK, Wired, BroadcastUserEvent, clientVars, seatVars, syncVars
<1> QED BY <1>1, LocalForward

LEMMA TypingForward ==
  ASSUME IInv, NEW o \in Object, Typing(o), NEW c \in Client, NEW i \in due[c]
  PROVE  Forward(c, i)
<1>1. UNCHANGED <<send, obj, due, hand, target>> /\ (Broadcast(o, Local) \/ UNCHANGED broadcast)
  BY DEF Typing, HandleTypingEvent, SendTyping, clientVars, seatVars, syncVars
<1> QED BY <1>1, LocalForward, Stays

(* Everybody in the room has the event in their channel, or no space in it. *)
LEMMA FanOutForward ==
  ASSUME IInv, NEW o \in Object, FanOut(o), NEW c \in Client, NEW i \in due[c]
  PROVE  Forward(c, i)
<1> DEFINE e    == IF broadcast[o] = <<>> THEN Local ELSE Head(broadcast[o])
           full == {d \in In({o}) : Len(send[d]) >= SendCap}
           S    == Event \cup {Local}
<1>1. /\ broadcast' = [broadcast EXCEPT ![o] = IF @ = <<>> THEN @ ELSE Tail(@)]
      /\ send'[c] = IF c \in In({o}) \ full THEN Append(send[c], e) ELSE send[c]
      /\ due'[c] = IF c \in full THEN due[c] \ {e} ELSE due[c]
      /\ UNCHANGED <<hand, target, obj>>
  BY DEF FanOut, Forgive, syncVars, seatVars
<1>2. /\ i # Local /\ seat[c] = "in" /\ obj[c] \in Object
      /\ broadcast[obj[c]] \in Seq(S) /\ send[c] \in Seq(S)
  BY Debt
<1>3. CASE obj[c] # o
  <2>1. c \notin In({o}) /\ broadcast'[obj[c]] = broadcast[obj[c]]
    BY <1>1, <1>2, <1>3 DEF IInv, TypeOK, In
  <2> QED BY <1>1, <2>1, Stays
<1>4. CASE obj[c] = o
  <2>1. c \in In({o})
    BY <1>2, <1>4 DEF In
  <2>2. /\ e \in S
        /\ \A x \in On(broadcast[o]) : x = e \/ x \in On(broadcast'[o])
    <3>1. CASE broadcast[o] = <<>>
      BY <3>1, OnEmpty
    <3>2. CASE broadcast[o] # <<>>
      <4>1. broadcast'[o] = Tail(broadcast[o]) /\ e = Head(broadcast[o])
        BY <1>1, <3>2 DEF IInv, TypeOK
      <4>2. Removed(broadcast'[o], broadcast[o], e)
        BY <3>2, <4>1 DEF Removed
      <4> HIDE DEF e, S
      <4> QED BY <1>2, <1>4, <4>2, OnTail
    <3> QED BY <3>1, <3>2
  <2>3. CASE c \in full
    <3>1. send'[c] = send[c] /\ due'[c] = due[c] \ {e} /\ Len(send[c]) >= SendCap
      BY <1>1, <2>3
    <3> HIDE DEF e, full, S
    <3> QED BY <1>1, <1>4, <2>2, <3>1 DEF Forward, MovesOn, Settled, AtSend, AtRoom, AtClient
  <2>4. CASE c \notin full
    <3>1. send'[c] = Append(send[c], e) /\ due'[c] = due[c]
      BY <1>1, <2>1, <2>4
    <3> HIDE DEF e, full, S
    <3>2. Appended(send'[c], send[c], e)
      BY <3>1 DEF Appended
    <3>3. \A x : x \in On(send'[c]) <=> x \in On(send[c]) \/ x = e
      <4>1. send[c] \in Seq(S) /\ e \in S
        BY <1>2, <2>2
      <4> DEFINE q == send[c]
                 p == send'[c]
      <4>2. Appended(p, q, e) /\ q \in Seq(S) /\ e \in S
        BY <3>2, <4>1
      <4> HIDE DEF p, q
      <4>3. \A x : x \in On(p) <=> x \in On(q) \/ x = e
        BY ONLY <4>2, OnAppend
      <4> QED BY <4>3 DEF p, q
    <3> QED BY <1>1, <1>4, <2>2, <3>1, <3>3 DEF Forward, MovesOn, AtSend, AtRoom, AtClient
  <2> QED BY <2>3, <2>4
<1> QED BY <1>3, <1>4

(* The first event of the channel is written; the others stay. *)
LEMMA WritePumpForward ==
  ASSUME IInv, NEW d \in Client, WritePump(d), NEW c \in Client, NEW i \in due[c]
  PROVE  Forward(c, i)
<1> DEFINE e == Head(send[c])
           S == Event \cup {Local}
<1>1. UNCHANGED <<hand, target, obj, broadcast>>
  BY DEF WritePump, syncVars, seatVars
<1>2. i # Local /\ i \in Event /\ send[c] \in Seq(S) /\ shown[c] \in Seq(Event)
  BY Debt
<1>3. CASE c # d
  <2>1. send'[c] = send[c] /\ due'[c] = due[c]
    BY <1>3 DEF WritePump, Forgive, IInv, TypeOK
  <2> QED BY <1>1, <2>1, Stays
<1>4. CASE c = d
  <2>1. /\ send[c] # <<>> /\ send'[c] = Tail(send[c]) /\ due'[c] = due[c] \ {e}
        /\ e # Local => shown'[c] = Append(shown[c], e)
    BY <1>4 DEF WritePump, Forgive, IInv, TypeOK
  <2>2. Removed(send'[c], send[c], e)
    BY <2>1 DEF Removed
  <2> HIDE DEF e, S
  <2>3. \A x : x \in On(send[c]) <=> x = e \/ x \in On(send'[c])
    BY <1>2, <2>2, OnTail
  <2>4. CASE i # e
    BY <1>1, <2>1, <2>3, <2>4 DEF Forward, MovesOn, AtSend, AtRoom, AtClient
  <2>5. CASE i = e
    <3>1. e \in Event /\ Appended(shown'[c], shown[c], e)
      BY <1>2, <2>1, <2>5 DEF Appended
    <3>2. e \in On(shown'[c])
      BY <1>2, <3>1, OnAppend
    <3>3. i \notin due'[c]
      BY <2>1, <2>5
    <3> QED BY <2>5, <3>2, <3>3 DEF Forward, Settled
  <2> QED BY <2>4, <2>5
<1> QED BY <1>3, <1>4

(* Whoever leaves, or whose room is removed, is owed nothing any more. *)
LEMMA GoneForward ==
  ASSUME IInv, NEW c \in Client, NEW i \in due[c],
         \/ \E o \in Object, d \in Client : DropClient(o, d)
         \/ \E r \in Room : RemoveRoom(r)
  PROVE  Forward(c, i)
<1>1. i \in Event /\ seat[c] = "in" /\ obj[c] \in mapped
  BY Debt
<1>2. ASSUME NEW o \in Object, NEW d \in Client, DropClient(o, d) PROVE Forward(c, i)
  <2>1. CASE c = d
    BY <1>1, <1>2, <2>1 DEF DropClient, Forgive, IInv, TypeOK, Forward, Settled
  <2>2. CASE c # d
    <3>1. /\ send'[c] = send[c] /\ due'[c] = due[c] /\ obj'[c] = obj[c]
          /\ UNCHANGED <<hand, target, broadcast>>
      BY <1>2, <2>2 DEF DropClient, Forgive, IInv, TypeOK, syncVars
    <3> QED BY <3>1, Stays
  <2> QED BY <2>1, <2>2
<1>3. ASSUME NEW r \in Room, RemoveRoom(r) PROVE Forward(c, i)
  <2>1. UNCHANGED <<send, obj, hand, target, broadcast>>
    BY <1>3 DEF RemoveRoom, syncVars, seatVars
  <2>2. CASE c \in In(Mapped(r))
    <3>1. obj[c] \notin mapped' /\ i \notin due'[c]
      BY <1>1, <1>3, <2>2 DEF RemoveRoom, Forgive, In
    <3> QED BY <3>1 DEF Forward, Settled
  <2>3. CASE c \notin In(Mapped(r))
    <3>1. due'[c] = due[c]
      BY <1>3, <2>3 DEF RemoveRoom, Forgive
    <3> QED BY <2>1, <3>1, Stays
  <2> QED BY <2>2, <2>3
<1> QED BY <1>2, <1>3

(* The other steps take nothing out of a channel that leads to a client. *)
LEMMA OtherForward ==
  ASSUME IInv, NEW c \in Client, NEW i \in due[c],
         \/ UNCHANGED vars \/ BroadcastMessage
         \/ \E r \in Room : Publish(r) \/ GetOrCreateRoom(r)
         \/ \E o \in Object, d \in Client : AddClient(o, d) \/ DropUnknown(o, d)
         \/ \E o \in Object : EvictRoom(o) \/ Wait(o) \/ Tick(o)
         \/ \E d \in Client : Leave(d)
  PROVE  Forward(c, i)
<1> USE DEF vars, syncVars, seatVars, clientVars
<1>1. i \in Event /\ i # Local /\ seat[c] = "in"
  BY Debt
<1>2. CASE UNCHANGED vars
  BY <1>2, Stays
<1>3. CASE BroadcastMessage
  BY <1>1, <1>3, Stays DEF BroadcastMessage
<1>4. ASSUME NEW r \in Room, Publish(r) PROVE Forward(c, i)
  <2>1. UNCHANGED <<send, obj, hand, target, broadcast>> /\ i \in due'[c]
    BY <1>4 DEF Publish
  <2> QED BY <2>1, Stays
<1>5. ASSUME NEW r \in Room, GetOrCreateRoom(r) PROVE Forward(c, i)
  <2>1. NewClient \in Client /\ seat[NewClient] = "out"
    BY <1>5 DEF GetOrCreateRoom, NewClient
  <2>2. obj'[c] = obj[c]
    BY <1>1, <1>5, <2>1 DEF GetOrCreateRoom, IInv, TypeOK
  <2>3. UNCHANGED <<send, due, hand, target, broadcast>>
    BY <1>5 DEF GetOrCreateRoom
  <2> QED BY <2>2, <2>3, Stays
<1>6. CASE \E o \in Object, d \in Client : AddClient(o, d) \/ DropUnknown(o, d)
  <2>1. UNCHANGED <<send, obj, hand, target, broadcast, due>>
    BY <1>6 DEF AddClient, DropUnknown
  <2> QED BY <2>1, Stays
<1>7. CASE (\E o \in Object : EvictRoom(o) \/ Wait(o) \/ Tick(o)) \/ \E d \in Client : Leave(d)
  <2>1. UNCHANGED <<send, obj, hand, target, broadcast, due>>
    BY <1>7 DEF EvictRoom, Wait, Tick, Leave
  <2> QED BY <2>1, Stays
<1> QED BY <1>2, <1>3, <1>4, <1>5, <1>6, <1>7

LEMMA StepForward ==
  ASSUME IInv, [Next]_vars, NEW c \in Client, NEW i \in due[c]
  PROVE  Forward(c, i)
<1>1. ASSUME NEW r \in Room, Publish(r) \/ RemoveRoom(r) \/ GetOrCreateRoom(r) PROVE Forward(c, i)
  BY <1>1, OtherForward, GoneForward
<1>2. CASE SyncLoop
  BY <1>2, OtherForward, SyncSendForward DEF SyncLoop
<1>3. ASSUME NEW o \in Object, HandleRoom(o) \/ EvictRoom(o) PROVE Forward(c, i)
  BY <1>3, FanOutForward, UserEventForward, GoneForward, OtherForward DEF HandleRoom, Select
<1>6. ASSUME NEW o \in Object, Typing(o) PROVE Forward(c, i)
  BY <1>6, TypingForward
<1>4. ASSUME NEW d \in Client, WritePump(d) \/ Leave(d) PROVE Forward(c, i)
  BY <1>4, WritePumpForward, OtherForward
<1>5. CASE UNCHANGED vars
  BY <1>5, OtherForward
<1> QED BY <1>1, <1>2, <1>3, <1>4, <1>5, <1>6 DEF Next

(* A message on its way to a client never moves back, and the debt ends when it is *)
(* written, at a full channel, or with the client or its room.                     *)
THEOREM MessagesMoveOn == Spec => DebtsMoveOn
<1> DEFINE Body == \A c \in Client : \A i \in due[c] :
                     IF i \in due'[c] THEN MovesOn(c, i) ELSE Settled(c, i)
<1>1. IInv /\ [Next]_vars => [Body]_vars
  BY StepForward DEF Forward
<1>2. [][Body]_vars => DebtsMoveOn
  BY PTL DEF DebtsMoveOn
<1> QED BY <1>1, <1>2, Invariance, PTL DEF Spec

=============================================================================
