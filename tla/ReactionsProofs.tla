--------------------------- MODULE ReactionsProofs ---------------------------
(***************************************************************************)
(* For any number of nodes, users and failures, and any bound on the feed: *)
(* what clients end up showing of a user who waits for the answer to a     *)
(* request is what the table holds, unless an event passes them by.        *)
(***************************************************************************)
EXTENDS Reactions, TLAPS

-----------------------------------------------------------------------------
(* Queues of events. *)
LEMMA TailFacts ==
  ASSUME NEW S, NEW s \in Seq(S), s # <<>>
  PROVE  /\ Head(s) \in S /\ Tail(s) \in Seq(S) /\ Head(s) = s[1]
         /\ Len(Tail(s)) = Len(s) - 1 /\ Len(s) \in Nat /\ Len(s) > 0
         /\ \A i \in 1..Len(Tail(s)) : Tail(s)[i] = s[i + 1]
<1>1. Len(s) > 0 /\ Len(s) \in Nat
  OBVIOUS
<1> QED
  BY <1>1

LEMMA AppendFacts ==
  ASSUME NEW S, NEW s \in Seq(S), NEW e \in S
  PROVE  /\ Append(s, e) \in Seq(S)
         /\ Len(Append(s, e)) = Len(s) + 1 /\ Len(s) \in Nat
         /\ Append(s, e)[Len(s) + 1] = e
         /\ \A i \in 1..Len(s) : Append(s, e)[i] = s[i]
OBVIOUS

(* An event at the end of the queue is the last word on its user, and says *)
(* nothing of the others.                                                  *)
LEMMA SeesAppend ==
  ASSUME NEW s \in Seq(Event), NEW e \in Event, NEW u, NEW set
  PROVE  /\ e.user = u => (Sees(Append(s, e), u, set) <=> e.op = "reaction_added")
         /\ e.user # u => (Sees(Append(s, e), u, set) <=> Sees(s, u, set))
<1>1. PICK t : t = Append(s, e)
  OBVIOUS
<1>2. /\ Len(t) = Len(s) + 1 /\ Len(s) \in Nat /\ t[Len(s) + 1] = e
      /\ \A i \in 1..Len(s) : t[i] = s[i]
  BY <1>1, AppendFacts
<1>3. \A i \in 1..Len(t) : i = Len(s) + 1 \/ i \in 1..Len(s)
  BY <1>2
<1>4. Len(s) + 1 \in 1..Len(t) /\ \A i \in 1..Len(s) : i \in 1..Len(t) /\ i < Len(s) + 1
  BY <1>2
<1>5. ASSUME e.user = u
      PROVE  Sees(t, u, set) <=> e.op = "reaction_added"
  <2>1. \E i \in 1..Len(t) : t[i].user = u
    BY <1>2, <1>4, <1>5
  <2>2. ASSUME e.op = "reaction_added"
        PROVE  Sees(t, u, set)
    <3>1. \A j \in 1..Len(t) : ~(j > Len(s) + 1)
      BY <1>2
    <3> QED
      BY <1>2, <1>4, <1>5, <2>1, <2>2, <3>1 DEF Sees
  <2>3. ASSUME Sees(t, u, set)
        PROVE  e.op = "reaction_added"
    <3>1. PICK i \in 1..Len(t) : /\ t[i].op = "reaction_added"
                                 /\ \A j \in 1..Len(t) : j > i => t[j].user # u
      BY <2>1, <2>3 DEF Sees
    <3>2. ~(Len(s) + 1 > i)
      BY <1>2, <1>4, <1>5, <3>1
    <3>3. i = Len(s) + 1
      BY <1>2, <1>3, <3>2
    <3> QED
      BY <1>2, <3>1, <3>3
  <2> QED
    BY <2>2, <2>3
<1>6. ASSUME e.user # u
      PROVE  Sees(t, u, set) <=> Sees(s, u, set)
  <2>1. \A i \in 1..Len(t) : t[i].user = u <=> (i \in 1..Len(s) /\ s[i].user = u)
    BY <1>2, <1>3, <1>6
  <2>2. CASE \E i \in 1..Len(s) : s[i].user = u
    <3>1. \E i \in 1..Len(t) : t[i].user = u
      BY <1>4, <2>1, <2>2
    <3>2. ASSUME Sees(t, u, set)
          PROVE  Sees(s, u, set)
      <4>1. PICK i \in 1..Len(t) : /\ t[i].user = u /\ t[i].op = "reaction_added"
                                   /\ \A j \in 1..Len(t) : j > i => t[j].user # u
        BY <3>1, <3>2 DEF Sees
      <4>2. i \in 1..Len(s) /\ s[i].user = u /\ s[i].op = "reaction_added"
        BY <1>2, <2>1, <4>1
      <4>3. \A j \in 1..Len(s) : j > i => s[j].user # u
        BY <1>2, <1>4, <4>1
      <4> QED
        BY <2>2, <4>2, <4>3 DEF Sees
    <3>3. ASSUME Sees(s, u, set)
          PROVE  Sees(t, u, set)
      <4>1. PICK i \in 1..Len(s) : /\ s[i].user = u /\ s[i].op = "reaction_added"
                                   /\ \A j \in 1..Len(s) : j > i => s[j].user # u
        BY <2>2, <3>3 DEF Sees
      <4>2. i \in 1..Len(t) /\ t[i].user = u /\ t[i].op = "reaction_added"
        BY <1>2, <1>4, <4>1
      <4>3. \A j \in 1..Len(t) : j > i => t[j].user # u
        BY <1>2, <2>1, <4>1
      <4> QED
        BY <3>1, <4>2, <4>3 DEF Sees
    <3> QED
      BY <3>2, <3>3
  <2>3. CASE ~ \E i \in 1..Len(s) : s[i].user = u
    <3>1. ~ \E i \in 1..Len(t) : t[i].user = u
      BY <2>1, <2>3
    <3> QED
      BY <2>3, <3>1 DEF Sees
  <2> QED
    BY <2>2, <2>3
<1> QED
  BY <1>1, <1>5, <1>6

(* An event that leaves the queue takes nothing away if what is shown takes *)
(* it into account.                                                         *)
LEMMA SeesTail ==
  ASSUME NEW s \in Seq(Event), s # <<>>, NEW u, NEW set, NEW after,
         Head(s).user = u => (u \in after <=> Head(s).op = "reaction_added"),
         Head(s).user # u => (u \in after <=> u \in set)
  PROVE  Sees(Tail(s), u, after) <=> Sees(s, u, set)
<1>1. PICK t : t = Tail(s)
  OBVIOUS
<1>2. /\ Head(s) = s[1] /\ Len(t) = Len(s) - 1 /\ Len(s) \in Nat /\ Len(s) > 0
      /\ \A i \in 1..Len(t) : t[i] = s[i + 1]
  BY <1>1, TailFacts
<1>3. \A i \in 1..Len(t) : i + 1 \in 1..Len(s) /\ i + 1 > 1
  BY <1>2
<1>4. \A i \in 1..Len(s) : i = 1 \/ (i - 1 \in 1..Len(t) /\ t[i - 1] = s[i])
  BY <1>2
<1>5. 1 \in 1..Len(s)
  BY <1>2
<1>6. ASSUME \E i \in 1..Len(t) : t[i].user = u
      PROVE  Sees(t, u, after) <=> Sees(s, u, set)
  <2>1. \E i \in 1..Len(s) : s[i].user = u
    BY <1>2, <1>3, <1>6
  <2>2. ASSUME Sees(t, u, after)
        PROVE  Sees(s, u, set)
    <3>1. PICK i \in 1..Len(t) : /\ t[i].user = u /\ t[i].op = "reaction_added"
                                 /\ \A j \in 1..Len(t) : j > i => t[j].user # u
      BY <1>6, <2>2 DEF Sees
    <3>2. i + 1 \in 1..Len(s) /\ s[i + 1].user = u /\ s[i + 1].op = "reaction_added"
      BY <1>2, <1>3, <3>1
    <3>3. \A j \in 1..Len(s) : j > i + 1 => s[j].user # u
      <4>1. ASSUME NEW j \in 1..Len(s), j > i + 1
            PROVE  s[j].user # u
        <5>1. j - 1 \in 1..Len(t) /\ t[j - 1] = s[j] /\ j - 1 > i
          BY <1>2, <1>4, <4>1
        <5> QED
          BY <3>1, <5>1
      <4> QED
        BY <4>1
    <3> QED
      BY <2>1, <3>2, <3>3 DEF Sees
  <2>3. ASSUME Sees(s, u, set)
        PROVE  Sees(t, u, after)
    <3>1. PICK i \in 1..Len(s) : /\ s[i].user = u /\ s[i].op = "reaction_added"
                                 /\ \A j \in 1..Len(s) : j > i => s[j].user # u
      BY <2>1, <2>3 DEF Sees
    <3>2. i # 1
      BY <1>2, <1>3, <1>6, <3>1
    <3>3. i - 1 \in 1..Len(t) /\ t[i - 1] = s[i]
      BY <1>4, <3>2
    <3>4. \A j \in 1..Len(t) : j > i - 1 => t[j].user # u
      BY <1>2, <1>3, <3>1
    <3> QED
      BY <1>6, <3>1, <3>3, <3>4 DEF Sees
  <2> QED
    BY <2>2, <2>3
<1>7. ASSUME ~ \E i \in 1..Len(t) : t[i].user = u
      PROVE  Sees(t, u, after) <=> Sees(s, u, set)
  <2>1. Sees(t, u, after) <=> u \in after
    BY <1>7 DEF Sees
  <2>2. \A i \in 1..Len(s) : i # 1 => s[i].user # u
    BY <1>4, <1>7
  <2>3. CASE Head(s).user = u
    <3>1. \E i \in 1..Len(s) : s[i].user = u
      BY <1>2, <1>5, <2>3
    <3>2. ASSUME s[1].op = "reaction_added"
          PROVE  Sees(s, u, set)
      <4>1. \A j \in 1..Len(s) : j > 1 => s[j].user # u
        BY <1>2, <2>2
      <4> QED
        BY <1>2, <1>5, <2>3, <3>1, <3>2, <4>1 DEF Sees
    <3>3. ASSUME Sees(s, u, set)
          PROVE  s[1].op = "reaction_added"
      BY <2>2, <3>1, <3>3 DEF Sees
    <3> QED
      BY <1>2, <2>1, <2>3, <3>2, <3>3
  <2>4. CASE Head(s).user # u
    <3>1. ~ \E i \in 1..Len(s) : s[i].user = u
      BY <1>2, <2>2, <2>4
    <3> QED
      BY <2>1, <2>4, <3>1 DEF Sees
  <2> QED
    BY <2>3, <2>4
<1> QED
  BY <1>1, <1>6, <1>7

-----------------------------------------------------------------------------
(* Types. *)

LEMMA PutFacts ==
  ASSUME NEW set \in SUBSET User, NEW e \in Event
  PROVE  /\ Put(set, e) \in SUBSET User
         /\ e.user \in Put(set, e) <=> e.op = "reaction_added"
         /\ \A u : u # e.user => (u \in Put(set, e) <=> u \in set)
<1>1. e.user \in User /\ e.op \in {"reaction_added", "reaction_removed"}
  BY DEF Event, Op
<1> QED
  BY <1>1 DEF Put

LEMMA RequestEvent ==
  ASSUME TypeOK, NEW r \in Req
  PROVE  /\ r[1] \in User /\ op[r] \in Op
         /\ [user |-> r[1], op |-> op[r]] \in Event
<1>1. r[1] \in User
  BY DEF Req
<1>2. op[r] \in Op
  BY DEF TypeOK
<1> QED
  BY <1>1, <1>2 DEF Event

LEMMA FeedStep ==
  ASSUME TypeOK, NEW n \in Node, feed[n] # <<>>, feed' = [feed EXCEPT ![n] = Tail(@)]
  PROVE  /\ feed[n] \in Seq(Event) /\ Head(feed[n]) \in Event /\ Head(feed[n]).user \in User
         /\ feed' \in [Node -> Seq(Event)] /\ feed'[n] = Tail(feed[n])
         /\ \A m \in Node : m # n => feed'[m] = feed[m]
<1>1. feed \in [Node -> Seq(Event)] /\ feed[n] \in Seq(Event)
  BY DEF TypeOK
<1>2. Head(feed[n]) \in Event /\ Tail(feed[n]) \in Seq(Event)
  BY <1>1, TailFacts
<1>3. Head(feed[n]).user \in User
  BY <1>2 DEF Event
<1> QED
  BY <1>1, <1>2, <1>3

LEMMA AnnounceStep ==
  ASSUME TypeOK, NEW e \in Event, Announce(e)
  PROVE  /\ feed' \in [Node -> Seq(Event)]
         /\ \A n \in Node \ hung : feed[n] \in Seq(Event) /\ feed'[n] = Append(feed[n], e)
<1>1. /\ \A n \in Node : feed[n] \in Seq(Event)
      /\ \A n \in Node \ hung : feed'[n] = Append(feed[n], e)
  BY DEF TypeOK, Announce
<1>2. \A n \in Node : Append(feed[n], e) \in Seq(Event)
  BY <1>1, AppendFacts
<1> QED
  BY <1>1, <1>2 DEF Announce

LEMMA HurtStep ==
  ASSUME TypeOK, NEW nodes \in SUBSET Node, NEW u \in User, Hurt(nodes, u)
  PROVE  /\ hurt' \in SUBSET (Node \X Patient) /\ hurt \subseteq hurt'
         /\ \A n \in Node, v \in Patient : n \in nodes /\ v = u => <<n, v>> \in hurt'
BY DEF TypeOK, Hurt

LEMMA HealStep ==
  ASSUME TypeOK, NEW u \in User, Heal(u)
  PROVE  /\ hurt' \in SUBSET (Node \X Patient)
         /\ \A n \in Node, v \in Patient : v # u /\ <<n, v>> \in hurt => <<n, v>> \in hurt'
BY DEF TypeOK, Heal

LEMMA InitTypes == Init => TypeOK
<1> SUFFICES ASSUME Init PROVE TypeOK
  OBVIOUS
<1>1. <<>> \in Seq(Event) /\ "reaction_added" \in Op
  BY DEF Op
<1>2. feed \in [Node -> Seq(Event)] /\ shown \in [Node -> SUBSET User]
  BY <1>1 DEF Init
<1>3. pc \in [Req -> {"idle", "write", "publish"}] /\ op \in [Req -> Op]
  BY <1>1 DEF Init
<1> QED
  BY <1>2, <1>3 DEF Init, TypeOK

LEMMA TypeStep == TypeOK /\ [Next]_vars => TypeOK'
<1> SUFFICES ASSUME TypeOK, [Next]_vars PROVE TypeOK'
  OBVIOUS
<1>1. ASSUME NEW r \in Req, Check(r) PROVE TypeOK'
  BY <1>1 DEF Check, Goto, TypeOK, rowVars
<1>2. ASSUME NEW r \in Req, Write(r) PROVE TypeOK'
  <2>1. r[1] \in User /\ [user |-> r[1], op |-> op[r]] \in Event
    BY RequestEvent
  <2>2. reactions' \in SUBSET User
    <3>1. Change(r) => reactions' \in SUBSET User
      BY <2>1, PutFacts DEF Change, TypeOK
    <3> QED
      BY <1>2, <3>1 DEF Write, TypeOK
  <2>3. pc' \in [Req -> {"idle", "write", "publish"}]
    BY <1>2 DEF Write, Answer, Goto, TypeOK
  <2>4. hurt' \in SUBSET (Node \X Patient)
    BY <1>2, <2>1, HurtStep DEF Write, TypeOK
  <2>5. op' \in [Req -> Op]
    BY <1>2 DEF Write, Answer, TypeOK, Op
  <2> QED
    BY <1>2, <2>2, <2>3, <2>4, <2>5 DEF Write, TypeOK
<1>3. ASSUME NEW r \in Req, Publish(r) PROVE TypeOK'
  <2>1. r[1] \in User /\ [user |-> r[1], op |-> op[r]] \in Event
    BY RequestEvent
  <2>2. feed' \in [Node -> Seq(Event)]
    BY <1>3, <2>1, AnnounceStep DEF Publish, TypeOK
  <2>3. pc' \in [Req -> {"idle", "write", "publish"}]
    BY <1>3 DEF Publish, Answer, Goto, TypeOK
  <2>4. hurt' \in SUBSET (Node \X Patient)
    BY <1>3, <2>1, HurtStep, HealStep DEF Publish
  <2>5. op' \in [Req -> Op]
    BY <1>3 DEF Publish, Answer, TypeOK, Op
  <2> QED
    BY <1>3, <2>2, <2>3, <2>4, <2>5 DEF Publish, TypeOK, rowVars
<1>4. ASSUME NEW n \in Node, HandleRoomEvent(n) PROVE TypeOK'
  <2>1. feed' \in [Node -> Seq(Event)] /\ Head(feed[n]) \in Event
    BY <1>4, FeedStep DEF HandleRoomEvent
  <2>2. Put(shown[n], Head(feed[n])) \in SUBSET User
    BY <2>1, PutFacts DEF TypeOK
  <2>3. shown' \in [Node -> SUBSET User]
    BY <1>4, <2>2 DEF HandleRoomEvent, TypeOK
  <2> QED
    BY <1>4, <2>1, <2>3 DEF HandleRoomEvent, TypeOK, rowVars, reqVars
<1>5. ASSUME NEW n \in Node, Lose(n) PROVE TypeOK'
  <2>1. feed' \in [Node -> Seq(Event)] /\ Head(feed[n]).user \in User
    BY <1>5, FeedStep DEF Lose
  <2>2. hurt' \in SUBSET (Node \X Patient)
    BY <1>5, <2>1, HurtStep DEF Lose
  <2> QED
    BY <1>5, <2>1, <2>2 DEF Lose, TypeOK, rowVars, reqVars
<1>6. ASSUME NEW u \in User, AddRoomMember(u) \/ RemoveRoomMember(u) PROVE TypeOK'
  BY <1>6 DEF AddRoomMember, RemoveRoomMember, TypeOK, reqVars
<1>7. ASSUME NEW n \in Node, Hang(n) PROVE TypeOK'
  <2>1. feed' \in [Node -> Seq(Event)] /\ hung' \in SUBSET Node
    BY <1>7 DEF Hang, TypeOK
  <2> QED
    BY <1>7, <2>1 DEF Hang, TypeOK, rowVars, reqVars
<1>8. CASE UNCHANGED vars
  BY <1>8 DEF vars, rowVars, reqVars, TypeOK
<1> QED
  BY <1>1, <1>2, <1>3, <1>4, <1>5, <1>6, <1>7, <1>8 DEF Next, Handler

-----------------------------------------------------------------------------
(* What a step does to what the clients of a node are going to see. *)

LEMMA PublishSight ==
  ASSUME TypeOK, NEW r \in Req, Announce([user |-> r[1], op |-> op[r]]), UNCHANGED shown
  PROVE  \A n \in Node \ hung, u \in User :
           /\ u = r[1] => (WillSee(n, u)' <=> op[r] = "reaction_added")
           /\ u # r[1] => (WillSee(n, u)' <=> WillSee(n, u))
<1> DEFINE e == [user |-> r[1], op |-> op[r]]
<1>1. e \in Event
  BY RequestEvent
<1>2. e.user = r[1] /\ e.op = op[r]
  OBVIOUS
<1> HIDE DEF e
<1>3. Announce(e)
  BY DEF e
<1>4. ASSUME NEW n \in Node \ hung, NEW u \in User
      PROVE  /\ u = r[1] => (WillSee(n, u)' <=> op[r] = "reaction_added")
             /\ u # r[1] => (WillSee(n, u)' <=> WillSee(n, u))
  <2>1. feed[n] \in Seq(Event) /\ feed'[n] = Append(feed[n], e) /\ shown'[n] = shown[n]
    BY <1>1, <1>3, AnnounceStep
  <2>2. WillSee(n, u)' <=> Sees(Append(feed[n], e), u, shown[n])
    BY <2>1 DEF WillSee, Sees
  <2>3. /\ e.user = u => (Sees(Append(feed[n], e), u, shown[n]) <=> e.op = "reaction_added")
        /\ e.user # u => (Sees(Append(feed[n], e), u, shown[n]) <=> Sees(feed[n], u, shown[n]))
    BY <1>1, <2>1, SeesAppend
  <2> QED
    BY <1>2, <2>2, <2>3 DEF WillSee
<1> QED
  BY <1>4

LEMMA HandleSight ==
  ASSUME TypeOK, NEW n \in Node, HandleRoomEvent(n)
  PROVE  \A m \in Node, u \in User : WillSee(m, u)' <=> WillSee(m, u)
<1>1. /\ feed[n] \in Seq(Event) /\ feed[n] # <<>> /\ feed'[n] = Tail(feed[n])
      /\ Head(feed[n]) \in Event
      /\ \A m \in Node : m # n => feed'[m] = feed[m]
  BY FeedStep DEF HandleRoomEvent
<1>2. shown[n] \in SUBSET User /\ shown'[n] = Put(shown[n], Head(feed[n]))
      /\ \A m \in Node : m # n => shown'[m] = shown[m]
  BY DEF HandleRoomEvent, TypeOK
<1>3. ASSUME NEW u \in User PROVE WillSee(n, u)' <=> WillSee(n, u)
  <2>1. PICK after : after = shown'[n]
    OBVIOUS
  <2>2. /\ Head(feed[n]).user = u => (u \in after <=> Head(feed[n]).op = "reaction_added")
        /\ Head(feed[n]).user # u => (u \in after <=> u \in shown[n])
    BY <1>1, <1>2, <2>1, PutFacts
  <2>3. Sees(Tail(feed[n]), u, after) <=> Sees(feed[n], u, shown[n])
    BY <1>1, <2>2, SeesTail
  <2> QED
    BY <1>1, <2>1, <2>3 DEF WillSee, Sees
<1>4. ASSUME NEW m \in Node, NEW u \in User, m # n PROVE WillSee(m, u)' <=> WillSee(m, u)
  BY SMTT(20), <1>1, <1>2, <1>4 DEF WillSee, Sees
<1> QED
  BY <1>3, <1>4

(* Losing an event concerns its node and its user alone, who are hurt by it. *)
LEMMA LoseSight ==
  ASSUME TypeOK, NEW n \in Node, Lose(n)
  PROVE  /\ hurt \subseteq hurt'
         /\ \A m \in Node, u \in Patient : <<m, u>> \notin hurt' => (WillSee(m, u)' <=> WillSee(m, u))
<1>1. /\ feed[n] \in Seq(Event) /\ feed[n] # <<>> /\ feed'[n] = Tail(feed[n])
      /\ \A m \in Node : m # n => feed'[m] = feed[m]
      /\ Head(feed[n]).user \in User
  BY FeedStep DEF Lose
<1>2. /\ UNCHANGED shown /\ hurt \subseteq hurt'
      /\ \A u \in Patient : u = Head(feed[n]).user => <<n, u>> \in hurt'
  BY <1>1, HurtStep DEF Lose
<1>3. ASSUME NEW u \in Patient, <<n, u>> \notin hurt' PROVE WillSee(n, u)' <=> WillSee(n, u)
  <2>1. Head(feed[n]).user # u
    BY <1>2, <1>3
  <2>2. Sees(Tail(feed[n]), u, shown[n]) <=> Sees(feed[n], u, shown[n])
    BY <1>1, <2>1, SeesTail
  <2>3. WillSee(n, u)' <=> Sees(feed'[n], u, shown'[n])
    BY DEF WillSee, Sees
  <2>4. feed'[n] = Tail(feed[n]) /\ shown'[n] = shown[n]
    BY <1>1, <1>2
  <2> QED
    BY <2>2, <2>3, <2>4 DEF WillSee
<1>4. ASSUME NEW m \in Node, NEW u \in Patient, m # n PROVE WillSee(m, u)' <=> WillSee(m, u)
  BY <1>1, <1>2, <1>4 DEF WillSee, Sees
<1> QED
  BY <1>2, <1>3, <1>4

LEMMA InitSight == Init => \A n \in Node, u \in User : ~WillSee(n, u)
<1> SUFFICES ASSUME Init, NEW n \in Node, NEW u \in User PROVE ~WillSee(n, u)
  OBVIOUS
<1>1. feed[n] = <<>> /\ shown[n] = {}
  BY DEF Init
<1>2. ~ \E i \in 1..Len(feed[n]) : feed[n][i].user = u
  BY <1>1
<1> QED
  BY <1>1, <1>2 DEF WillSee, Sees

LEMMA SameSight ==
  ASSUME UNCHANGED <<feed, shown>>
  PROVE  \A n \in Node, u \in User : WillSee(n, u)' <=> WillSee(n, u)
BY DEF WillSee, Sees

-----------------------------------------------------------------------------
(* Users who wait for each answer. *)

LEMMA OnePerUser ==
  ASSUME NEW q \in Req, NEW r \in Req, q[1] = r[1], q[1] \in Patient
  PROVE  q = r
<1>1. q = <<q[1], 1>> /\ r = <<r[1], 1>>
  BY DEF Req, Patient
<1> QED
  BY <1>1

(* What a user's last write left in the table is what is said of it. *)
LEMMA WrittenStep ==
  ASSUME TypeOK, TellsWhatIs, [Next]_vars
  PROVE  TellsWhatIs'
<1> SUFFICES ASSUME NEW q \in Req, q[1] \in Patient, pc'[q] = "publish"
             PROVE  q[1] \in reactions' <=> op'[q] = "reaction_added"
  BY DEF TellsWhatIs
<1>1. pc[q] = "publish" => (q[1] \in reactions <=> op[q] = "reaction_added")
  BY DEF TellsWhatIs
<1>2. ASSUME NEW r \in Req, Check(r) PROVE q[1] \in reactions' <=> op'[q] = "reaction_added"
  <2>1. q # r /\ pc'[q] = pc[q] /\ op'[q] = op[q] /\ reactions' = reactions
    BY <1>2 DEF Check, Goto, TypeOK, rowVars
  <2> QED
    BY <1>1, <2>1
<1>3. ASSUME NEW r \in Req, Write(r) PROVE q[1] \in reactions' <=> op'[q] = "reaction_added"
  <2>1. op'[q] = op[q] /\ [user |-> r[1], op |-> op[r]] \in Event /\ reactions \in SUBSET User
    BY <1>3, RequestEvent DEF Write, Answer, Goto, TypeOK
  <2>2. CASE q = r
    <3>1. Change(r)
      BY <1>3, <2>2 DEF Write, Answer, Goto, TypeOK
    <3> QED
      BY <2>1, <2>2, <3>1, PutFacts DEF Change
  <2>3. CASE q # r
    <3>1. q[1] # r[1]
      BY <2>3, OnePerUser
    <3>2. Change(r) => (q[1] \in reactions' <=> q[1] \in reactions)
      BY <2>1, <3>1, PutFacts DEF Change
    <3>3. pc'[q] = pc[q]
      BY <1>3, <2>3 DEF Write, Answer, Goto, TypeOK
    <3> QED
      BY <1>1, <1>3, <2>1, <3>2, <3>3 DEF Write
  <2> QED
    BY <2>2, <2>3
<1>4. ASSUME NEW r \in Req, Publish(r) PROVE q[1] \in reactions' <=> op'[q] = "reaction_added"
  <2>1. q # r /\ pc'[q] = pc[q] /\ op'[q] = op[q] /\ reactions' = reactions
    BY <1>4 DEF Publish, Answer, Goto, TypeOK, rowVars
  <2> QED
    BY <1>1, <2>1
<1>5. ASSUME UNCHANGED <<reactions, pc, op>> PROVE q[1] \in reactions' <=> op'[q] = "reaction_added"
  BY <1>1, <1>5
<1>6. CASE UNCHANGED vars
  BY <1>5, <1>6 DEF vars, rowVars, reqVars
<1>7. ASSUME NEW n \in Node, HandleRoomEvent(n) \/ Lose(n) \/ Hang(n) PROVE UNCHANGED <<reactions, pc, op>>
  BY <1>7 DEF HandleRoomEvent, Lose, Hang, rowVars, reqVars
<1>8. ASSUME NEW u \in User, AddRoomMember(u) \/ RemoveRoomMember(u) PROVE UNCHANGED <<reactions, pc, op>>
  BY <1>8 DEF AddRoomMember, RemoveRoomMember, reqVars
<1> QED
  BY <1>2, <1>3, <1>4, <1>5, <1>6, <1>7, <1>8 DEF Next, Handler

(* At the end of the only request of a patient user, what the client will see is *)
(* what the table holds.                                                         *)
LEMMA FollowStep ==
  ASSUME IInv, UsersFollow, [Next]_vars
  PROVE  UsersFollow'
<1> SUFFICES ASSUME NEW u \in Patient, NEW n \in Node \ hung', <<n, u>> \notin hurt', ~Publishing(u)'
             PROVE  WillSee(n, u)' <=> u \in reactions'
  BY DEF UsersFollow
<1> USE DEF IInv
<1>0. u \in User
  BY DEF Patient
<1>1. ASSUME n \notin hung, <<n, u>> \notin hurt, ~Publishing(u) PROVE WillSee(n, u) <=> u \in reactions
  BY <1>1 DEF UsersFollow
<1>2. ASSUME UNCHANGED <<pc, reactions>>, n \notin hung, <<n, u>> \notin hurt, WillSee(n, u)' <=> WillSee(n, u)
      PROVE  WillSee(n, u)' <=> u \in reactions'
  BY <1>1, <1>2 DEF Publishing
<1>3. ASSUME NEW r \in Req, Check(r) PROVE WillSee(n, u)' <=> u \in reactions'
  <2>1. UNCHANGED <<reactions, feed, shown, hung, hurt>>
    BY <1>3 DEF Check, rowVars
  <2>2. \A q \in Req : pc[q] = "publish" => pc'[q] = "publish"
    BY <1>3 DEF Check, Goto, TypeOK
  <2>3. ~Publishing(u)
    BY <2>2 DEF Publishing
  <2> QED
    BY <1>0, <1>1, <2>1, <2>3, SameSight
<1>4. ASSUME NEW r \in Req, Write(r) PROVE WillSee(n, u)' <=> u \in reactions'
  <2>0. r[1] \in User
    BY RequestEvent
  <2>1. UNCHANGED <<feed, shown, hung>> /\ hurt \subseteq hurt'
    BY <1>4, <2>0, HurtStep DEF Write
  <2>2. u # r[1]
    <3>1. CASE Goto(r, "publish")
      <4>1. pc'[r] = "publish"
        BY <3>1 DEF Goto, TypeOK
      <4> QED
        BY <4>1 DEF Publishing
    <3>2. CASE Hurt(Node, r[1])
      BY <2>0, <3>2, HurtStep
    <3> QED
      BY <1>4, <3>1, <3>2 DEF Write
  <2>3. u \in reactions' <=> u \in reactions
    <3>1. [user |-> r[1], op |-> op[r]] \in Event /\ reactions \in SUBSET User
      BY RequestEvent DEF TypeOK
    <3>2. Change(r) => (u \in reactions' <=> u \in reactions)
      BY <2>2, <3>1, PutFacts DEF Change
    <3> QED
      BY <1>4, <3>2 DEF Write
  <2>4. ~Publishing(u)
    <3>1. \A q \in Req : q[1] = u => pc'[q] = pc[q]
      BY <1>4, <2>2 DEF Write, Answer, Goto, TypeOK
    <3> QED
      BY <3>1 DEF Publishing
  <2> QED
    BY <1>0, <1>1, <2>1, <2>3, <2>4, SameSight
<1>5. ASSUME NEW r \in Req, Publish(r) PROVE WillSee(n, u)' <=> u \in reactions'
  <2>0. r[1] \in User
    BY RequestEvent
  <2>1. UNCHANGED <<reactions, shown, hung>> /\ pc[r] = "publish"
    BY <1>5 DEF Publish, rowVars
  <2>2. CASE Announce([user |-> r[1], op |-> op[r]]) /\ Heal(r[1])
    <3>1. /\ u = r[1] => (WillSee(n, u)' <=> op[r] = "reaction_added")
          /\ u # r[1] => (WillSee(n, u)' <=> WillSee(n, u))
      BY <1>0, <2>1, <2>2, PublishSight
    <3>2. CASE u = r[1]
      BY <2>1, <3>1, <3>2 DEF TellsWhatIs
    <3>3. CASE u # r[1]
      <4>1. \A q \in Req : q[1] = u => pc'[q] = pc[q]
        BY <1>5, <3>3 DEF Publish, Answer, Goto, TypeOK
      <4>2. ~Publishing(u) /\ <<n, u>> \notin hurt
        BY <2>0, <2>2, <3>3, <4>1, HealStep DEF Publishing
      <4> QED
        BY <1>1, <2>1, <3>1, <3>3, <4>2
    <3> QED
      BY <3>2, <3>3
  <2>3. CASE Hurt(Node, r[1]) /\ UNCHANGED feed
    <3>1. u # r[1] /\ <<n, u>> \notin hurt
      BY <2>0, <2>3, HurtStep
    <3>2. \A q \in Req : q[1] = u => pc'[q] = pc[q]
      BY <1>5, <3>1 DEF Publish, Answer, Goto, TypeOK
    <3>3. ~Publishing(u)
      BY <3>2 DEF Publishing
    <3> QED
      BY <1>0, <1>1, <2>1, <2>3, <3>1, <3>3, SameSight
  <2> QED
    BY <1>5, <2>2, <2>3 DEF Publish
<1>6. ASSUME NEW m \in Node, HandleRoomEvent(m) PROVE WillSee(n, u)' <=> u \in reactions'
  <2>1. UNCHANGED <<pc, reactions, hung, hurt>>
    BY <1>6 DEF HandleRoomEvent, rowVars, reqVars
  <2> QED
    BY <1>0, <1>2, <1>6, <2>1, HandleSight
<1>7. ASSUME NEW m \in Node, Lose(m) PROVE WillSee(n, u)' <=> u \in reactions'
  <2>1. UNCHANGED <<pc, reactions, hung>>
    BY <1>7 DEF Lose, rowVars, reqVars
  <2>2. <<n, u>> \notin hurt /\ (WillSee(n, u)' <=> WillSee(n, u))
    BY <1>7, LoseSight
  <2> QED
    BY <1>2, <2>1, <2>2
<1>8. ASSUME NEW m \in Node, Hang(m) PROVE WillSee(n, u)' <=> u \in reactions'
  <2>1. /\ n # m /\ n \notin hung /\ UNCHANGED <<pc, reactions, hurt>>
        /\ shown' = shown /\ feed'[n] = feed[n]
    BY <1>8 DEF Hang, TypeOK, rowVars, reqVars
  <2>2. WillSee(n, u)' <=> WillSee(n, u)
    BY <2>1 DEF WillSee, Sees
  <2> QED
    BY <1>2, <2>1, <2>2
<1>9. ASSUME UNCHANGED <<pc, reactions, feed, shown, hung, hurt>> PROVE WillSee(n, u)' <=> u \in reactions'
  BY <1>0, <1>2, <1>9, SameSight
<1>10. ASSUME NEW v \in User, AddRoomMember(v) \/ RemoveRoomMember(v)
       PROVE  UNCHANGED <<pc, reactions, feed, shown, hung, hurt>>
  BY <1>10 DEF AddRoomMember, RemoveRoomMember, reqVars
<1>11. CASE UNCHANGED vars
  BY <1>9, <1>11 DEF vars, rowVars, reqVars
<1> QED
  BY <1>3, <1>4, <1>5, <1>6, <1>7, <1>8, <1>9, <1>10, <1>11 DEF Next, Handler

(* However requests race and fail, what a patient user's request is about to tell *)
(* the nodes is what the table holds.                                             *)
THEOREM Invariance == Spec => []IInv
<1>1. Init => IInv
  <2>1. Init => TellsWhatIs
    BY DEF Init, TellsWhatIs
  <2> QED
    BY <2>1, InitTypes DEF IInv
<1>2. IInv /\ [Next]_vars => IInv'
  BY TypeStep, WrittenStep DEF IInv
<1> QED
  BY <1>1, <1>2, PTL DEF Spec

(* Of a user who waits for each answer, every client that was not passed by   *)
(* ends up showing what the table holds, whatever races or failures concern   *)
(* the others, and again after the user's own next success.                   *)
THEOREM PatientUsersFollow == Spec => []UsersFollow
<1>1. Init => UsersFollow
  <2>1. \A u \in Patient : u \in User
    BY DEF Patient
  <2> QED
    BY <2>1, InitSight DEF Init, UsersFollow
<1>2. IInv /\ UsersFollow /\ [Next]_vars => UsersFollow'
  BY FollowStep
<1> QED
  BY <1>1, <1>2, Invariance, PTL DEF Spec

-----------------------------------------------------------------------------
(* A write concerns the row of its own user, and no request is let past the check *)
(* for a user who is no member.                                                   *)
LEMMA RunsOutStep ==
  ASSUME TypeOK, [Next]_vars, NEW u \in User, u \notin members, u \notin members'
  PROVE  /\ PastCheck(u)' \subseteq PastCheck(u)
         /\ PastCheck(u)' = PastCheck(u) => ((u \in reactions)' <=> u \in reactions)
<1> DEFINE Goal == /\ PastCheck(u)' \subseteq PastCheck(u)
                   /\ PastCheck(u)' = PastCheck(u) => ((u \in reactions)' <=> u \in reactions)
<1> SUFFICES Goal
  OBVIOUS
<1>1. ASSUME NEW r \in Req, Check(r) PROVE Goal
  <2>1. r[1] # u /\ pc' = [pc EXCEPT ![r] = "write"] /\ reactions' = reactions
    BY <1>1 DEF Check, IsRoomMember, Goto, rowVars
  <2>2. \A q \in Req : q[1] = u => pc'[q] = pc[q]
    BY <2>1 DEF TypeOK
  <2> QED
    BY <2>1, <2>2 DEF PastCheck
<1>2. ASSUME NEW r \in Req, Write(r) PROVE Goal
  <2>1. pc[r] = "write" /\ \E step \in {"publish", "idle"} : pc' = [pc EXCEPT ![r] = step]
    BY <1>2 DEF Write, Answer, Goto
  <2>2. pc'[r] # "write" /\ \A q \in Req : q # r => pc'[q] = pc[q]
    BY <2>1 DEF TypeOK
  <2>3. PastCheck(u)' \subseteq PastCheck(u)
    BY <2>2 DEF PastCheck
  <2>4. CASE r[1] = u
    <3>1. r \in PastCheck(u) /\ r \notin PastCheck(u)'
      BY <2>1, <2>2, <2>4 DEF PastCheck
    <3> QED
      BY <2>3, <3>1
  <2>5. CASE r[1] # u
    <3>1. [user |-> r[1], op |-> op[r]] \in Event
      BY RequestEvent
    <3>2. Change(r) => ((u \in reactions)' <=> u \in reactions)
      BY <2>5, <3>1, PutFacts DEF Change, TypeOK
    <3> QED
      BY <1>2, <2>3, <3>2 DEF Write
  <2> QED
    BY <2>4, <2>5
<1>3. ASSUME NEW r \in Req, Publish(r) PROVE Goal
  <2>1. pc' = [pc EXCEPT ![r] = "idle"] /\ reactions' = reactions
    BY <1>3 DEF Publish, Answer, Goto, rowVars
  <2>2. \A q \in Req : pc'[q] = "write" => pc[q] = "write"
    BY <2>1 DEF TypeOK
  <2> QED
    BY <2>1, <2>2 DEF PastCheck
<1>4. ASSUME UNCHANGED <<pc, reactions>> PROVE Goal
  BY <1>4 DEF PastCheck
<1>5. ASSUME NEW n \in Node, HandleRoomEvent(n) \/ Lose(n) \/ Hang(n) PROVE UNCHANGED <<pc, reactions>>
  BY <1>5 DEF HandleRoomEvent, Lose, Hang, rowVars, reqVars
<1>6. ASSUME NEW v \in User, AddRoomMember(v) \/ RemoveRoomMember(v) PROVE UNCHANGED <<pc, reactions>>
  BY <1>6 DEF AddRoomMember, RemoveRoomMember, reqVars
<1>7. CASE UNCHANGED vars
  BY <1>4, <1>7 DEF vars, rowVars, reqVars
<1> QED
  BY <1>1, <1>2, <1>3, <1>4, <1>5, <1>6, <1>7 DEF Next, Handler

(* The writes that may still change the row of a removed user run out: their number *)
(* never grows, and whatever changes the row uses one of them up.                   *)
THEOREM RemovedRunOut == Spec => RemovedRunsOut
<1> DEFINE RunsOut == \A u \in User : (u \notin members /\ u \notin members') =>
             /\ PastCheck(u)' \subseteq PastCheck(u)
             /\ PastCheck(u)' = PastCheck(u) => ((u \in reactions)' <=> u \in reactions)
<1>1. IInv /\ [Next]_vars => [RunsOut]_vars
  BY RunsOutStep DEF IInv
<1>2. [][RunsOut]_vars => RemovedRunsOut
  BY PTL DEF RemovedRunsOut
<1> QED
  BY <1>1, <1>2, Invariance, PTL DEF Spec

=============================================================================
