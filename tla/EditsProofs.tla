----------------------------- MODULE EditsProofs -----------------------------
(***************************************************************************)
(* For any number of nodes and requests: a deletion is final, clients are  *)
(* told only what was stored, nodes agree unless events get lost, and      *)
(* clients follow the table until requests race.                           *)
(***************************************************************************)
EXTENDS Edits, FiniteSetTheorems, TLAPS

LEMMA Parameters ==
  /\ MaxConcurrent \in Nat \ {0} /\ MaxFaults \in Nat
  /\ Original \notin Edit /\ Gone \notin Text /\ Edit \cap Delete = {}
  /\ Nothing \notin Text \cup {Gone}
  /\ IsFiniteSet(Req)
BY EditsAssumption

-----------------------------------------------------------------------------
(* What a queue that is not empty ends with, and with what its tail ends. *)
LEMMA EmptyIff ==
  ASSUME NEW S, NEW s \in Seq(S)
  PROVE  s = <<>> <=> Len(s) = 0
OBVIOUS

LEMMA TailFacts ==
  ASSUME NEW S, NEW s \in Seq(S), s # <<>>
  PROVE  /\ Head(s) \in S /\ Tail(s) \in Seq(S) /\ Head(s) = s[1]
         /\ Len(Tail(s)) = Len(s) - 1 /\ Len(s) \in Nat /\ Len(s) > 0
         /\ \A i \in 1..Len(Tail(s)) : Tail(s)[i] = s[i + 1]
<1>1. Len(s) > 0 /\ Len(s) \in Nat
  BY EmptyIff
<1> QED
  BY <1>1

LEMMA LastOfTail ==
  ASSUME NEW S, NEW s \in Seq(S), s # <<>>
  PROVE  s[Len(s)] = IF Tail(s) = <<>> THEN Head(s) ELSE Tail(s)[Len(Tail(s))]
<1>1. PICK t : t = Tail(s)
  OBVIOUS
<1>2. /\ t \in Seq(S) /\ Len(t) = Len(s) - 1 /\ Len(s) \in Nat /\ Len(s) > 0 /\ Head(s) = s[1]
      /\ \A i \in 1..Len(t) : t[i] = s[i + 1]
  BY <1>1, TailFacts
<1>3. CASE Len(t) = 0
  <2>1. t = <<>> /\ Len(s) = 1
    BY <1>2, <1>3, EmptyIff
  <2> QED
    BY <1>1, <1>2, <2>1
<1>4. CASE Len(t) # 0
  <2>1. t # <<>> /\ Len(t) \in 1..Len(t) /\ Len(t) + 1 = Len(s)
    BY <1>2, <1>4, EmptyIff
  <2>2. t[Len(t)] = s[Len(s)]
    BY <1>2, <2>1
  <2> QED
    BY <1>1, <2>1, <2>2
<1> QED
  BY <1>3, <1>4

LEMMA AppendFacts ==
  ASSUME NEW S, NEW s \in Seq(S), NEW e \in S
  PROVE  /\ Append(s, e) \in Seq(S) /\ Append(s, e) # <<>>
         /\ Append(s, e)[Len(Append(s, e))] = e
         /\ \A i \in 1..Len(Append(s, e)) : Append(s, e)[i] = e \/ (i \in 1..Len(s) /\ Append(s, e)[i] = s[i])
<1>1. Append(s, e) \in Seq(S) /\ Len(Append(s, e)) = Len(s) + 1 /\ Len(s) \in Nat
  OBVIOUS
<1>2. Append(s, e) # <<>>
  BY <1>1, EmptyIff
<1>3. ASSUME NEW i \in 1..Len(Append(s, e))
      PROVE  Append(s, e)[i] = IF i = Len(s) + 1 THEN e ELSE s[i]
  BY <1>1
<1> QED
  BY <1>1, <1>2, <1>3

(* Announcing makes the event the latest of every node; taking an event into *)
(* account leaves the latest what it was.                                    *)
LEMMA AnnounceLatest ==
  ASSUME TypeOK, NEW e \in Event, Announce(e)
  PROVE  /\ feed' \in [Node -> Seq(Event)]
         /\ \A n \in Node : Latest(n)' = e
         /\ UpToDate' = Node
         /\ \A n \in Node : \A i \in 1..Len(feed'[n]) :
              feed'[n][i] = e \/ (i \in 1..Len(feed[n]) /\ feed'[n][i] = feed[n][i])
<1>1. \A n \in Node : feed[n] \in Seq(Event) /\ feed'[n] = Append(feed[n], e)
  BY DEF TypeOK, Announce
<1>2. ASSUME NEW n \in Node
      PROVE  /\ feed'[n] \in Seq(Event) /\ Latest(n)' = e /\ feed'[n] # <<>>
             /\ \A i \in 1..Len(feed'[n]) : feed'[n][i] = e \/ (i \in 1..Len(feed[n]) /\ feed'[n][i] = feed[n][i])
  <2>1. feed[n] \in Seq(Event) /\ feed'[n] = Append(feed[n], e)
    BY <1>1
  <2>2. /\ feed'[n] \in Seq(Event) /\ feed'[n] # <<>> /\ feed'[n][Len(feed'[n])] = e
        /\ \A i \in 1..Len(feed'[n]) : feed'[n][i] = e \/ (i \in 1..Len(feed[n]) /\ feed'[n][i] = feed[n][i])
    BY <2>1, AppendFacts
  <2> QED
    BY <2>2 DEF Latest
<1>3. feed' \in [Node -> Seq(Event)]
  BY <1>2 DEF Announce
<1>4. UpToDate' = Node
  BY <1>2 DEF UpToDate
<1> QED
  BY <1>2, <1>3, <1>4

LEMMA TakeFacts ==
  ASSUME TypeOK, NEW n \in Node, feed[n] # <<>>, feed' = [feed EXCEPT ![n] = Tail(@)]
  PROVE  /\ feed' \in [Node -> Seq(Event)] /\ Head(feed[n]) \in Event
         /\ Len(feed[n]) > 0 /\ Head(feed[n]) = feed[n][1]
         /\ \A m \in Node : m # n => feed'[m] = feed[m]
         /\ \A i \in 1..Len(feed'[n]) : i + 1 \in 1..Len(feed[n]) /\ feed'[n][i] = feed[n][i + 1]
<1>1. feed[n] \in Seq(Event) /\ feed'[n] = Tail(feed[n]) /\ feed \in [Node -> Seq(Event)]
  BY DEF TypeOK
<1>2. /\ Head(feed[n]) \in Event /\ Tail(feed[n]) \in Seq(Event) /\ Head(feed[n]) = feed[n][1]
      /\ Len(Tail(feed[n])) = Len(feed[n]) - 1 /\ Len(feed[n]) \in Nat /\ Len(feed[n]) > 0
      /\ \A i \in 1..Len(Tail(feed[n])) : Tail(feed[n])[i] = feed[n][i + 1]
  BY <1>1, TailFacts
<1>3. feed' \in [Node -> Seq(Event)]
  BY <1>1, <1>2
<1> QED
  BY <1>1, <1>2, <1>3

(* A client is told the event its room takes, or passed over with it. *)
LEMMA HandleTells ==
  ASSUME TypeOK, NEW n \in Node, Handle(n)
  PROVE  /\ Head(feed[n]) \in Event
         /\ \/ told'[n] = Head(feed[n]) /\ missed'[n] = Nothing
            \/ told'[n] = told[n] /\ missed'[n] = Head(feed[n])
         /\ \A m \in Node : m # n => told'[m] = told[m] /\ missed'[m] = missed[m]
         /\ told' \in [Node -> Event] /\ missed' \in [Node -> Event \cup {Nothing}]
<1>1. Head(feed[n]) \in Event
  BY TakeFacts DEF Handle
<1>2. /\ told \in [Node -> Event] /\ missed \in [Node -> Event \cup {Nothing}]
      /\ Tell(n, Head(feed[n])) \/ PassOver(n, Head(feed[n]))
  BY DEF Handle, TypeOK
<1>3. CASE Tell(n, Head(feed[n]))
  BY <1>1, <1>2, <1>3 DEF Tell
<1>4. CASE PassOver(n, Head(feed[n]))
  BY <1>1, <1>2, <1>4 DEF PassOver
<1> QED
  BY <1>2, <1>3, <1>4

LEMMA HandleLatest ==
  ASSUME TypeOK, NEW n \in Node, Handle(n)
  PROVE  \A m \in UpToDate' : m \in UpToDate /\ Latest(m)' = Latest(m)
<1>1. feed[n] \in Seq(Event) /\ feed[n] # <<>> /\ feed'[n] = Tail(feed[n])
  BY DEF TypeOK, Handle
<1>2. \A m \in Node : m # n => feed'[m] = feed[m] /\ told'[m] = told[m] /\ missed'[m] = missed[m]
  BY HandleTells DEF TypeOK, Handle
<1>3. n \in UpToDate' => n \in UpToDate /\ Latest(n)' = Latest(n)
  <2>1. feed[n][Len(feed[n])] = IF Tail(feed[n]) = <<>> THEN Head(feed[n]) ELSE Tail(feed[n])[Len(Tail(feed[n]))]
    BY <1>1, LastOfTail
  <2>2. n \in UpToDate
    BY <1>1 DEF UpToDate
  <2>3. CASE Tail(feed[n]) # <<>>
    BY <1>1, <2>1, <2>2, <2>3 DEF Latest
  <2>4. CASE Tail(feed[n]) = <<>>
    <3>1. n \in UpToDate' => missed'[n] = Nothing
      BY <1>1, <2>4 DEF UpToDate
    <3>2. Head(feed[n]) # Nothing
      BY HandleTells, Parameters DEF Event
    <3>3. missed'[n] = Nothing => told'[n] = Head(feed[n])
      BY <3>2, HandleTells
    <3> QED
      BY <1>1, <2>1, <2>2, <2>4, <3>1, <3>3 DEF Latest
  <2> QED
    BY <2>3, <2>4
<1>4. \A m \in UpToDate' : m \in Node
  BY DEF UpToDate
<1>5. \A m \in Node : m # n => (m \in UpToDate' <=> m \in UpToDate) /\ Latest(m)' = Latest(m)
  BY <1>2 DEF Latest, UpToDate
<1> QED
  BY <1>3, <1>4, <1>5

LEMMA SameLatest ==
  ASSUME UNCHANGED <<feed, told, missed>>
  PROVE  UpToDate' = UpToDate /\ \A n \in Node : Latest(n)' = Latest(n)
BY DEF UpToDate, Latest

-----------------------------------------------------------------------------
(* Types, and that nobody is told what was not stored. *)

LEMMA InitIInv == Init => IInv
<1> SUFFICES ASSUME Init PROVE IInv
  OBVIOUS
<1>1. TypeOK
  <2>1. <<>> \in Seq(Event) /\ Original \in Event
    BY DEF Event, Text
  <2>2. pc \in [Req -> {"idle"} \cup Calls \cup Answer] /\ shows \in [Req -> Event]
    BY <2>1 DEF Init
  <2>3. /\ feed \in [Node -> Seq(Event)] /\ told \in [Node -> Event]
        /\ missed \in [Node -> Event \cup {Nothing}] /\ hung \in SUBSET Node
    BY <2>1 DEF Init
  <2>4. content \in Text /\ wrote \in SUBSET Edit /\ faults \in 0..MaxFaults
    BY Parameters DEF Init, Text
  <2>5. deleted \in BOOLEAN
    BY Zenon DEF Init
  <2>6. raced \in BOOLEAN
    BY Zenon DEF Init
  <2> QED
    BY <2>2, <2>3, <2>4, <2>5, <2>6 DEF TypeOK
<1>2. ToldIsStored
  <2>1. \A n \in Node : feed[n] = <<>> /\ told[n] = Original
    BY DEF Init
  <2>2. Stored(Original)
    BY Parameters DEF Stored, Text
  <2> QED
    BY <2>1, <2>2 DEF ToldIsStored
<1>3. ShowsStored
  BY Parameters DEF Init, ShowsStored, InFlight, Calls, Stored, Text
<1>4. DeletesSayGone
  BY DEF Init, DeletesSayGone, Req
<1> QED
  BY <1>1, <1>2, <1>3, <1>4 DEF IInv

(* What a fault or its absence leaves of the bound. *)
LEMMA FaultBound ==
  ASSUME TypeOK, Fault \/ UNCHANGED faults
  PROVE  faults' \in 0..MaxFaults
BY Parameters DEF TypeOK, Fault

(* The table only gains deletions and texts. *)
LEMMA StoredStays ==
  ASSUME deleted => deleted', wrote \subseteq wrote', NEW e, Stored(e)
  PROVE  Stored(e)'
BY DEF Stored

LEMMA TableGrows == TypeOK /\ [Next]_vars => /\ deleted \in BOOLEAN /\ (deleted => deleted')
                                             /\ wrote \subseteq wrote'
<1> SUFFICES ASSUME TypeOK, [Next]_vars
             PROVE  deleted \in BOOLEAN /\ (deleted => deleted') /\ wrote \subseteq wrote'
  OBVIOUS
<1>1. CASE UNCHANGED vars
  BY <1>1 DEF vars, rowVars, TypeOK
<1>2. ASSUME NEW r \in Req, Find(r) \/ Fetch(r) \/ Publish(r)
      PROVE  UNCHANGED rowVars
  BY <1>2 DEF Find, Fetch, Publish
<1>3. ASSUME NEW r \in Req, EditMessage(r)
      PROVE  UNCHANGED deleted /\ wrote \subseteq wrote'
  BY <1>3 DEF EditMessage, Update
<1>4. ASSUME NEW r \in Req, SoftDeleteMessage(r)
      PROVE  (deleted => deleted') /\ UNCHANGED wrote
  <2>1. deleted' = TRUE \/ deleted' = deleted
    BY <1>4, Zenon DEF SoftDeleteMessage
  <2>2. UNCHANGED wrote
    BY <1>4 DEF SoftDeleteMessage
  <2> QED
    BY <2>1, <2>2
<1>5. ASSUME NEW n \in Node, Handle(n) \/ Hang(n) \/ Lose(n)
      PROVE  UNCHANGED rowVars
  BY <1>5 DEF Handle, Hang, Lose
<1>6. deleted \in BOOLEAN
  BY DEF TypeOK
<1> QED
  BY <1>1, <1>2, <1>3, <1>4, <1>5, <1>6 DEF Next, Handler, rowVars

(* A step of handler r leaves the other requests alone. *)
LEMMA OthersStay ==
  ASSUME TypeOK, NEW r \in Req, Handler(r)
  PROVE  \A s \in Req : s # r => pc'[s] = pc[s] /\ shows'[s] = shows[s]
BY DEF Handler, Find, EditMessage, SoftDeleteMessage, Fetch, Publish, Goto, Fails, TypeOK

LEMMA TypeStep == TypeOK /\ [Next]_vars => TypeOK'
<1> SUFFICES ASSUME TypeOK, [Next]_vars PROVE TypeOK'
  OBVIOUS
<1>1. CASE UNCHANGED vars
  BY <1>1 DEF vars, rowVars, busVars, TypeOK
<1>2. ASSUME NEW r \in Req, Handler(r) PROVE TypeOK'
  <2>1. pc' \in [Req -> {"idle"} \cup Calls \cup Answer]
    BY <1>2 DEF Handler, Find, EditMessage, SoftDeleteMessage, Fetch, Publish, Goto, Fails, TypeOK, Calls, Answer
  <2>2. content' \in Text /\ wrote' \in SUBSET Edit
    BY <1>2 DEF Handler, Find, EditMessage, SoftDeleteMessage, Fetch, Publish, Update, rowVars, TypeOK, Text
  <2>3. deleted' \in BOOLEAN
    BY <1>2 DEF Handler, Find, EditMessage, SoftDeleteMessage, Fetch, Publish, rowVars, TypeOK
  <2>4. shows' \in [Req -> Event]
    BY <1>2 DEF Handler, Find, EditMessage, SoftDeleteMessage, Fetch, Publish, TypeOK, Event
  <2>5. feed' \in [Node -> Seq(Event)]
    <3>1. CASE Publish(r) /\ Announce(shows[r])
      <4>1. shows[r] \in Event
        BY <3>1 DEF TypeOK
      <4> QED
        BY <3>1, <4>1, AnnounceLatest
    <3>2. CASE UNCHANGED feed
      BY <3>2 DEF TypeOK
    <3> QED
      BY <1>2, <3>1, <3>2 DEF Handler, Find, EditMessage, SoftDeleteMessage, Fetch, Publish, busVars
  <2>6. told' \in [Node -> Event] /\ missed' \in [Node -> Event \cup {Nothing}] /\ hung' \in SUBSET Node
    BY <1>2 DEF Handler, Find, EditMessage, SoftDeleteMessage, Fetch, Publish, busVars, TypeOK
  <2>7. faults' \in 0..MaxFaults
    <3>1. Fault \/ UNCHANGED faults
      BY <1>2 DEF Handler, Find, EditMessage, SoftDeleteMessage, Fetch, Publish
    <3> QED
      BY <3>1, FaultBound
  <2>8. raced' \in BOOLEAN
    <3>1. Find(r) => raced' \in BOOLEAN
      BY DEF Find
    <3>2. ~Find(r) => UNCHANGED raced
      BY <1>2 DEF Handler, EditMessage, SoftDeleteMessage, Fetch, Publish
    <3> QED
      BY <3>1, <3>2 DEF TypeOK
  <2> QED
    BY <2>1, <2>2, <2>3, <2>4, <2>5, <2>6, <2>7, <2>8 DEF TypeOK
<1>3. ASSUME NEW n \in Node, Handle(n) \/ Hang(n) \/ Lose(n) PROVE TypeOK'
  <2>1. UNCHANGED <<rowVars, pc, shows, raced>>
    BY <1>3 DEF Handle, Hang, Lose
  <2>2. feed' \in [Node -> Seq(Event)]
    <3>1. CASE Hang(n)
      BY <3>1 DEF Hang, TypeOK
    <3>2. CASE Handle(n) \/ Lose(n)
      BY <3>2, TakeFacts DEF Handle, Lose
    <3> QED
      BY <1>3, <3>1, <3>2
  <2>3. told' \in [Node -> Event] /\ missed' \in [Node -> Event \cup {Nothing}] /\ hung' \in SUBSET Node
    <3>1. CASE Handle(n)
      BY <3>1, HandleTells DEF Handle, TypeOK
    <3>2. CASE Hang(n) \/ Lose(n)
      BY <3>2 DEF Hang, Lose, TypeOK
    <3> QED
      BY <1>3, <3>1, <3>2
  <2>4. faults' \in 0..MaxFaults
    BY <1>3, FaultBound DEF Handle, Hang, Lose
  <2> QED
    BY <2>1, <2>2, <2>3, <2>4 DEF rowVars, TypeOK
<1> QED
  BY <1>1, <1>2, <1>3 DEF Next

LEMMA ContentStep == IInv /\ [Next]_vars => Stored(content)'
<1> SUFFICES ASSUME IInv, [Next]_vars PROVE Stored(content)'
  OBVIOUS
<1>1. TypeOK /\ TypeOK' /\ (deleted => deleted') /\ wrote \subseteq wrote' /\ Stored(content)
  BY TypeStep, TableGrows DEF IInv, ShowsStored
<1>2. content' # Gone
  BY <1>1, Parameters DEF TypeOK
<1>3. content' = content \/ content' \in wrote'
  <2>1. ASSUME NEW r \in Req, Handler(r) PROVE content' = content \/ content' \in wrote'
    BY <2>1 DEF Handler, Find, EditMessage, SoftDeleteMessage, Fetch, Publish, Update, rowVars
  <2>2. ASSUME NEW n \in Node, Handle(n) \/ Hang(n) \/ Lose(n) PROVE content' = content
    BY <2>2 DEF Handle, Hang, Lose, rowVars
  <2> QED
    BY <2>1, <2>2 DEF Next, vars, rowVars
<1> QED
  BY <1>1, <1>2, <1>3 DEF Stored

LEMMA ShowsStep == IInv /\ [Next]_vars => ShowsStored'
<1> SUFFICES ASSUME IInv, [Next]_vars, NEW s \in Req, pc'[s] = "publish"
             PROVE  Stored(shows[s])'
  BY ContentStep DEF ShowsStored, InFlight
<1>0. TypeOK /\ deleted \in BOOLEAN /\ (deleted => deleted') /\ wrote \subseteq wrote'
  BY TableGrows DEF IInv
<1>1. CASE pc[s] = "publish" /\ shows'[s] = shows[s]
  <2>1. Stored(shows[s])
    BY <1>1 DEF IInv, ShowsStored, InFlight, Calls
  <2>2. Stored(shows[s])'
    BY <1>0, <1>1, <2>1 DEF Stored
  <2> QED
    BY <2>2
<1>2. CASE UNCHANGED vars
  BY <1>1, <1>2 DEF vars
<1>3. ASSUME NEW r \in Req, Handler(r) PROVE Stored(shows[s])'
  <2>1. CASE s # r
    BY <1>0, <1>1, <1>3, <2>1, OthersStay
  <2>2. CASE s = r
    <3>1. pc'[r] = "publish"
      BY <2>2
    <3>2. CASE SoftDeleteMessage(r)
      <4>1. shows'[r] = Gone /\ deleted' /\ Gone \notin Edit
        BY <1>0, <3>1, <3>2, Parameters DEF SoftDeleteMessage, Fails, Goto, TypeOK, Text
      <4> QED
        BY <2>2, <4>1 DEF Stored
    <3>3. CASE Fetch(r)
      <4>1. shows'[r] = content /\ UNCHANGED wrote
        BY <1>0, <3>1, <3>3 DEF Fetch, Goto, TypeOK, rowVars
      <4>2. content # Gone /\ (content \in Edit => content \in wrote)
        BY <1>0, Parameters DEF IInv, TypeOK, ShowsStored, Stored
      <4> QED
        BY <2>2, <4>1, <4>2 DEF Stored
    <3>4. pc[r] # "publish" /\ ~Find(r) /\ ~EditMessage(r) /\ ~Publish(r)
      BY <1>0, <1>3, <3>1 DEF Find, EditMessage, Publish, Goto, Fails, TypeOK, Handler, SoftDeleteMessage, Fetch
    <3> QED
      BY <1>3, <3>2, <3>3, <3>4 DEF Handler
  <2> QED
    BY <2>1, <2>2
<1>4. ASSUME NEW n \in Node, Handle(n) \/ Hang(n) \/ Lose(n) PROVE Stored(shows[s])'
  BY <1>1, <1>4 DEF Handle, Hang, Lose
<1> QED
  BY <1>2, <1>3, <1>4 DEF Next

LEMMA ToldStep == IInv /\ [Next]_vars => ToldIsStored'
<1> SUFFICES ASSUME IInv, [Next]_vars PROVE ToldIsStored'
  OBVIOUS
<1>0. TypeOK /\ deleted \in BOOLEAN /\ (deleted => deleted') /\ wrote \subseteq wrote'
  BY TableGrows DEF IInv
<1>1. ASSUME NEW e, Stored(e) PROVE (e = Gone => deleted') /\ (e \in Edit => e \in wrote')
  BY <1>0, <1>1 DEF Stored
<1>2. SUFFICES ASSUME NEW n \in Node
               PROVE  /\ \/ told'[n] = told[n]
                         \/ feed[n] # <<>> /\ told'[n] = Head(feed[n])
                      /\ \A i \in 1..Len(feed'[n]) :
                           \/ \E j \in 1..Len(feed[n]) : feed'[n][i] = feed[n][j]
                           \/ \E r \in InFlight : pc[r] = "publish" /\ feed'[n][i] = shows[r]
  <2>1. ASSUME NEW n \in Node
        PROVE  /\ Stored(told[n])
               /\ \A j \in 1..Len(feed[n]) : Stored(feed[n][j])
               /\ feed[n] # <<>> => Stored(Head(feed[n]))
    <3>1. Stored(told[n]) /\ \A j \in 1..Len(feed[n]) : Stored(feed[n][j])
      BY DEF IInv, ToldIsStored
    <3>2. ASSUME feed[n] # <<>> PROVE 1 \in 1..Len(feed[n]) /\ Head(feed[n]) = feed[n][1]
      <4>1. feed[n] \in Seq(Event)
        BY <1>0 DEF TypeOK
      <4> QED
        BY <3>2, <4>1, TailFacts
    <3> QED
      BY <3>1, <3>2
  <2>2. \A r \in InFlight : pc[r] = "publish" => Stored(shows[r])
    BY DEF IInv, ShowsStored
  <2> QED
    BY <1>1, <1>2, <2>1, <2>2 DEF ToldIsStored, Stored
<1>3. CASE UNCHANGED <<feed, told>>
  BY <1>3
<1>4. ASSUME NEW r \in Req, Publish(r), Announce(shows[r])
      PROVE  /\ told'[n] = told[n] /\ r \in InFlight /\ pc[r] = "publish"
             /\ \A i \in 1..Len(feed'[n]) : feed'[n][i] = shows[r] \/ \E j \in 1..Len(feed[n]) : feed'[n][i] = feed[n][j]
  <2>1. pc[r] = "publish" /\ UNCHANGED told /\ shows[r] \in Event /\ r \in InFlight
    BY <1>0, <1>4 DEF Publish, TypeOK, InFlight, Calls
  <2>2. \A i \in 1..Len(feed'[n]) : feed'[n][i] = shows[r] \/ (i \in 1..Len(feed[n]) /\ feed'[n][i] = feed[n][i])
    BY <1>0, <1>4, <2>1, AnnounceLatest
  <2> QED
    BY <2>1, <2>2
<1>5. ASSUME NEW m \in Node, Handle(m) \/ Lose(m)
      PROVE  /\ \/ told'[n] = told[n]
                \/ feed[n] # <<>> /\ told'[n] = Head(feed[n])
             /\ \A i \in 1..Len(feed'[n]) : \E j \in 1..Len(feed[n]) : feed'[n][i] = feed[n][j]
  <2>1. feed[m] # <<>> /\ feed' = [feed EXCEPT ![m] = Tail(@)]
    BY <1>5 DEF Handle, Lose
  <2>2. told'[n] = told[n] \/ (n = m /\ told'[n] = Head(feed[n]))
    BY <1>0, <1>5, HandleTells DEF Lose
  <2>3. CASE n # m
    <3>1. feed'[n] = feed[n]
      BY <1>0, <2>1, <2>3 DEF TypeOK
    <3> QED
      BY <2>2, <2>3, <3>1
  <2>4. CASE n = m
    <3>1. \A i \in 1..Len(feed'[n]) : i + 1 \in 1..Len(feed[n]) /\ feed'[n][i] = feed[n][i + 1]
      BY <1>0, <2>1, <2>4, TakeFacts
    <3> QED
      BY <2>1, <2>2, <2>4, <3>1
  <2> QED
    BY <2>3, <2>4
<1>6. ASSUME NEW r \in Req, Handler(r), ~UNCHANGED <<feed, told>>
      PROVE  Publish(r) /\ Announce(shows[r])
  BY <1>6 DEF Handler, Find, EditMessage, SoftDeleteMessage, Fetch, Publish, busVars
<1>7. \A m \in Node : Hang(m) => UNCHANGED <<feed, told>>
  BY DEF Hang
<1> QED
  BY <1>3, <1>4, <1>5, <1>6, <1>7 DEF Next, vars, busVars

(* A request to delete comes to its publish with the event it made up, and fetches nothing. *)
LEMMA GoneStep == IInv /\ [Next]_vars => DeletesSayGone'
<1> SUFFICES ASSUME IInv, [Next]_vars, NEW d \in Delete
             PROVE  pc'[d] # "fetch" /\ (pc'[d] = "publish" => shows'[d] = Gone)
  BY DEF DeletesSayGone
<1>0. TypeOK /\ d \in Req /\ d \notin Edit /\ pc[d] # "fetch" /\ (pc[d] = "publish" => shows[d] = Gone)
  BY Parameters DEF IInv, DeletesSayGone, Req
<1>1. CASE UNCHANGED <<pc, shows>>
  BY <1>0, <1>1
<1>2. ASSUME NEW r \in Req, Handler(r), r # d PROVE pc'[d] = pc[d] /\ shows'[d] = shows[d]
  BY <1>0, <1>2, OthersStay
<1>3. CASE Handler(d)
  <2>1. CASE SoftDeleteMessage(d)
    BY <1>0, <2>1 DEF SoftDeleteMessage, Goto, Fails, TypeOK
  <2>2. CASE ~SoftDeleteMessage(d)
    BY <1>0, <1>3, <2>2 DEF Handler, Find, EditMessage, Fetch, Publish, Goto, TypeOK
  <2> QED
    BY <2>1, <2>2
<1>4. ASSUME NEW n \in Node, Handle(n) \/ Hang(n) \/ Lose(n) PROVE UNCHANGED <<pc, shows>>
  BY <1>4 DEF Handle, Hang, Lose
<1> QED
  BY <1>0, <1>1, <1>2, <1>3, <1>4 DEF Next, vars

(* Types hold, and what handlers publish and clients are told has been stored. *)
THEOREM Invariance == Spec => []IInv
<1>1. IInv /\ [Next]_vars => IInv'
  BY TypeStep, ToldStep, ShowsStep, GoneStep DEF IInv
<1> QED
  BY <1>1, InitIInv, PTL DEF Spec

(* A deleted message stays deleted and keeps its text, however edits race it. *)
THEOREM DeletionIsFinal == Spec => DeleteIsFinal
<1>1. IInv /\ [Next]_vars => [deleted => deleted' /\ content' = content]_vars
  <2> SUFFICES ASSUME IInv, [Next]_vars, deleted PROVE deleted' /\ content' = content
    OBVIOUS
  <2>1. deleted'
    BY TableGrows DEF IInv
  <2>2. ASSUME NEW r \in Req, Handler(r) PROVE content' = content
    BY <2>2 DEF Handler, Find, EditMessage, SoftDeleteMessage, Fetch, Publish, Update, rowVars
  <2>3. ASSUME NEW n \in Node, Handle(n) \/ Hang(n) \/ Lose(n) PROVE content' = content
    BY <2>3 DEF Handle, Hang, Lose, rowVars
  <2> QED
    BY <2>1, <2>2, <2>3 DEF Next, vars, rowVars
<1> QED
  BY <1>1, Invariance, PTL DEF Spec, DeleteIsFinal

-----------------------------------------------------------------------------
(* The event of a deletion on its way. *)

LEMMA AppendKeeps ==
  ASSUME NEW S, NEW s \in Seq(S), NEW e \in S
  PROVE  /\ \A i \in 1..Len(s) : i \in 1..Len(Append(s, e)) /\ Append(s, e)[i] = s[i]
         /\ \E i \in 1..Len(Append(s, e)) : Append(s, e)[i] = e
<1>1. Len(Append(s, e)) = Len(s) + 1 /\ Len(s) \in Nat
  OBVIOUS
<1>2. Append(s, e)[Len(s) + 1] = e /\ Len(s) + 1 \in 1..Len(Append(s, e))
  BY <1>1
<1>3. \A i \in 1..Len(s) : i \in 1..Len(Append(s, e)) /\ Append(s, e)[i] = s[i]
  BY <1>1
<1> QED
  BY <1>2, <1>3

(* Publishing puts an event into the feed of every node, and keeps what is there. *)
LEMMA AnnounceAhead ==
  ASSUME TypeOK, NEW e \in Event, Announce(e), NEW n \in Node
  PROVE  /\ Ahead(n) => Ahead(n)'
         /\ e = Gone => Ahead(n)'
<1>1. feed[n] \in Seq(Event) /\ feed'[n] = Append(feed[n], e)
  BY DEF TypeOK, Announce
<1>2. /\ \A i \in 1..Len(feed[n]) : i \in 1..Len(feed'[n]) /\ feed'[n][i] = feed[n][i]
      /\ \E i \in 1..Len(feed'[n]) : feed'[n][i] = e
  BY <1>1, AppendKeeps
<1> QED
  BY <1>2 DEF Ahead

(* A node that takes an event sends it out, and keeps the others. *)
LEMMA HandleAhead ==
  ASSUME TypeOK, NEW m \in Node, Handle(m), NEW n \in Node, Ahead(n)
  PROVE  Ahead(n)' \/ SentOut(n, Gone)'
<1>1. /\ feed[m] \in Seq(Event) /\ feed[m] # <<>> /\ feed' = [feed EXCEPT ![m] = Tail(@)]
      /\ told'[m] = Head(feed[m]) \/ missed'[m] = Head(feed[m])
  BY HandleTells DEF TypeOK, Handle, SentOut
<1>2. CASE n # m
  <2>1. feed'[n] = feed[n]
    BY <1>1, <1>2 DEF TypeOK
  <2> QED
    BY <2>1 DEF Ahead
<1>3. CASE n = m
  <2>1. PICK i \in 1..Len(feed[n]) : feed[n][i] = Gone
    BY DEF Ahead
  <2>2. /\ feed'[n] = Tail(feed[n]) /\ Head(feed[n]) = feed[n][1]
        /\ Len(Tail(feed[n])) = Len(feed[n]) - 1 /\ Len(feed[n]) \in Nat
        /\ \A j \in 1..Len(Tail(feed[n])) : Tail(feed[n])[j] = feed[n][j + 1]
    BY <1>1, <1>3, TailFacts DEF TypeOK
  <2>3. CASE i = 1
    BY <1>1, <1>3, <2>1, <2>2, <2>3 DEF SentOut
  <2>4. CASE i > 1
    <3>1. i - 1 \in 1..Len(feed'[n]) /\ feed'[n][i - 1] = Gone
      BY <2>1, <2>2, <2>4
    <3> QED
      BY <3>1 DEF Ahead
  <2> QED
    BY <2>3, <2>4
<1> QED
  BY <1>2, <1>3

(* The event of a deletion reaches the feed of every node when it is published, and leaves *)
(* it only by being sent to the clients, as long as nothing fails and nothing is lost.     *)
THEOREM DeletionsTravel == Spec => DeletionTravels
<1> DEFINE Travels == faults' = faults => \A n \in Node :
             /\ Ahead(n) => Ahead(n)' \/ SentOut(n, Gone)'
             /\ \A r \in Delete : (pc[r] = "publish" /\ pc'[r] # "publish") => Ahead(n)'
<1>1. IInv /\ [Next]_vars => [Travels]_vars
  <2> SUFFICES ASSUME IInv, [Next]_vars, faults' = faults, NEW n \in Node
               PROVE  /\ Ahead(n) => Ahead(n)' \/ SentOut(n, Gone)'
                      /\ \A d \in Delete : (pc[d] = "publish" /\ pc'[d] # "publish") => Ahead(n)'
    OBVIOUS
  <2>0. TypeOK /\ faults \in Nat /\ ~Fault /\ Delete \subseteq Req
    BY Parameters DEF IInv, TypeOK, Fault, Req
  <2>1. ASSUME UNCHANGED feed, UNCHANGED pc
        PROVE  /\ Ahead(n) => Ahead(n)' \/ SentOut(n, Gone)'
               /\ \A d \in Delete : (pc[d] = "publish" /\ pc'[d] # "publish") => Ahead(n)'
    BY <2>1 DEF Ahead
  <2>2. ASSUME NEW r \in Req, Publish(r)
        PROVE  /\ Ahead(n) => Ahead(n)'
               /\ \A d \in Delete : (pc[d] = "publish" /\ pc'[d] # "publish") => Ahead(n)'
    <3>1. pc[r] = "publish" /\ Announce(shows[r]) /\ shows[r] \in Event
      BY <2>0, <2>2 DEF Publish, TypeOK
    <3>2. (Ahead(n) => Ahead(n)') /\ (shows[r] = Gone => Ahead(n)')
      BY <2>0, <3>1, AnnounceAhead
    <3>3. \A d \in Delete : (pc[d] = "publish" /\ pc'[d] # "publish") => d = r
      BY <2>0, <2>2, OthersStay DEF Handler
    <3>4. r \in Delete => shows[r] = Gone
      BY <3>1 DEF IInv, DeletesSayGone
    <3> QED
      BY <3>2, <3>3, <3>4
  <2>3. ASSUME NEW r \in Req, Handler(r), ~Publish(r)
        PROVE  /\ Ahead(n) => Ahead(n)'
               /\ \A d \in Delete : (pc[d] = "publish" /\ pc'[d] # "publish") => Ahead(n)'
    <3>1. UNCHANGED feed /\ pc[r] # "publish"
      BY <2>3 DEF Handler, Find, EditMessage, SoftDeleteMessage, Fetch, busVars
    <3>2. \A d \in Delete : pc[d] = "publish" => pc'[d] = "publish"
      BY <2>0, <2>3, <3>1, OthersStay
    <3> QED
      BY <3>1, <3>2 DEF Ahead
  <2>4. ASSUME NEW m \in Node, Handle(m)
        PROVE  /\ Ahead(n) => Ahead(n)' \/ SentOut(n, Gone)'
               /\ \A d \in Delete : (pc[d] = "publish" /\ pc'[d] # "publish") => Ahead(n)'
    <3>1. UNCHANGED pc
      BY <2>4 DEF Handle
    <3>2. Ahead(n) => Ahead(n)' \/ SentOut(n, Gone)'
      BY <2>0, <2>4, HandleAhead
    <3> QED
      BY <3>1, <3>2
  <2>5. ASSUME NEW m \in Node, Lose(m) PROVE FALSE
    BY <2>0, <2>5 DEF Lose
  <2>6. ASSUME NEW m \in Node, Hang(m) PROVE UNCHANGED <<feed, pc>>
    BY <2>6 DEF Hang
  <2>7. CASE UNCHANGED vars
    BY <2>1, <2>7 DEF vars, busVars
  <2> QED
    BY <2>1, <2>2, <2>3, <2>4, <2>5, <2>6, <2>7 DEF Next
<1>2. [][Travels]_vars => DeletionTravels
  BY PTL DEF DeletionTravels
<1> QED
  BY <1>1, <1>2, Invariance, PTL DEF Spec

-----------------------------------------------------------------------------
(* Agreement of the nodes. *)

LEMMA AgreeStep == TypeOK /\ NodesAgree /\ [Next]_vars => NodesAgree'
<1> SUFFICES ASSUME TypeOK, NodesAgree, [Next]_vars, faults' = 0, NEW m \in UpToDate', NEW n \in UpToDate'
             PROVE  Latest(m)' = Latest(n)'
  BY DEF NodesAgree
<1>0. faults = 0 /\ ~Fault
  <2>1. ~Fault
    BY Parameters DEF Fault, TypeOK
  <2> QED
    BY <2>1 DEF Next, Handler, Find, EditMessage, SoftDeleteMessage, Fetch, Publish, Handle, Hang, Lose, vars
<1>1. m \in Node /\ n \in Node /\ \A i, j \in UpToDate : Latest(i) = Latest(j)
  BY <1>0 DEF NodesAgree, UpToDate
<1>2. CASE UNCHANGED <<feed, told, missed>>
  BY <1>1, <1>2, SameLatest
<1>3. ASSUME NEW r \in Req, Handler(r), ~UNCHANGED <<feed, told, missed>> PROVE Latest(m)' = Latest(n)'
  <2>1. Publish(r) /\ Announce(shows[r]) /\ shows[r] \in Event
    BY <1>3 DEF Handler, Find, EditMessage, SoftDeleteMessage, Fetch, Publish, busVars, TypeOK
  <2> QED
    BY <1>1, <2>1, AnnounceLatest
<1>4. ASSUME NEW k \in Node, Handle(k) PROVE Latest(m)' = Latest(n)'
  BY <1>1, <1>4, HandleLatest
<1>5. \A k \in Node : Hang(k) => UNCHANGED <<feed, told, missed>>
  BY DEF Hang
<1> QED
  BY <1>0, <1>2, <1>3, <1>4, <1>5 DEF Next, Lose, vars, busVars

(* Unless events get lost, the clients of all nodes that are not passed over in the end *)
(* are told the same.                                                                   *)
THEOREM NodesEndUpAgreeing == Spec => []NodesAgree
<1>1. Init => NodesAgree
  BY DEF Init, NodesAgree, Latest, UpToDate
<1>2. TypeOK /\ NodesAgree /\ [Next]_vars => NodesAgree'
  BY AgreeStep
<1>3. IInv => TypeOK
  BY DEF IInv
<1> QED
  BY <1>1, <1>2, <1>3, Invariance, PTL DEF Spec

-----------------------------------------------------------------------------
(* No two requests in flight together. *)

(* Without a race a request starts only when no other is in flight. *)
LEMMA AloneStep ==
  ASSUME TypeOK, [Next]_vars, ~raced', \A r, s \in InFlight : r = s
  PROVE  /\ \A r, s \in InFlight' : r = s
         /\ \A r \in Req : Find(r) => InFlight = {}
<1>1. ASSUME NEW r \in Req, Find(r) PROVE InFlight = {}
  BY <1>1 DEF Find
<1>2. ASSUME NEW r \in Req, Handler(r) PROVE InFlight' \subseteq InFlight \cup {r}
  BY <1>2, OthersStay DEF InFlight
<1>3. ASSUME NEW r \in Req, Handler(r), ~Find(r) PROVE r \in InFlight
  BY <1>3 DEF Handler, EditMessage, SoftDeleteMessage, Fetch, Publish, InFlight, Calls
<1>4. ASSUME UNCHANGED pc PROVE InFlight' = InFlight
  BY <1>4 DEF InFlight
<1>5. \A n \in Node : Handle(n) \/ Hang(n) \/ Lose(n) => UNCHANGED pc
  BY DEF Handle, Hang, Lose
<1> QED
  BY <1>1, <1>2, <1>3, <1>4, <1>5 DEF Next, vars

(* A race is never forgotten. *)
LEMMA RacedStays == [Next]_vars /\ raced => raced'
BY DEF Next, Handler, Find, EditMessage, SoftDeleteMessage, Fetch, Publish, Handle, Hang, Lose, vars

(* What one step makes of what the clients will see and of the only request. *)
LEMMA FollowStep ==
  ASSUME TypeOK, SequentialInv, [Next]_vars, faults' = 0, ~raced'
  PROVE  ClientsFollow' /\ \A r \in InFlight' : Follows(r)'
<1>0. faults = 0 /\ ~Fault
  <2>1. ~Fault
    BY Parameters DEF Fault, TypeOK
  <2> QED
    BY <2>1 DEF Next, Handler, Find, EditMessage, SoftDeleteMessage, Fetch, Publish, Handle, Hang, Lose, vars
<1>1. /\ InFlight = {} => \A n \in UpToDate : Latest(n) = Shown
      /\ \A r \in InFlight : Follows(r)
      /\ \A r, s \in InFlight : r = s
  BY <1>0, RacedStays DEF SequentialInv, ClientsFollow
<1>2. ASSUME NEW k \in Node, Handle(k) PROVE ClientsFollow' /\ \A r \in InFlight' : Follows(r)'
  <2>1. \A n \in UpToDate' : n \in UpToDate /\ Latest(n)' = Latest(n)
    BY <1>2, HandleLatest
  <2>2. UNCHANGED <<content, deleted, pc, shows>>
    BY <1>2 DEF Handle, rowVars
  <2>3. InFlight' = InFlight /\ Shown' = Shown
    BY <2>2 DEF InFlight, Shown
  <2> QED
    BY <1>1, <2>1, <2>2, <2>3 DEF ClientsFollow, Follows
<1>3. CASE UNCHANGED <<content, deleted, pc, shows, feed, told, missed>>
  <2>1. UpToDate' = UpToDate /\ \A n \in Node : Latest(n)' = Latest(n)
    BY <1>3, SameLatest
  <2>2. \A n \in UpToDate : n \in Node
    BY DEF UpToDate
  <2>3. InFlight' = InFlight /\ Shown' = Shown
    BY <1>3 DEF InFlight, Shown
  <2> QED
    BY <1>1, <1>3, <2>1, <2>2, <2>3 DEF ClientsFollow, Follows
<1>4. ASSUME NEW r \in Req, Handler(r) PROVE ClientsFollow' /\ \A s \in InFlight' : Follows(s)'
  <2>1. \A s \in InFlight' : s = r
    <3>1. Find(r) => InFlight = {}
      BY <1>1, AloneStep
    <3>2. ~Find(r) => r \in InFlight
      BY <1>4 DEF Handler, EditMessage, SoftDeleteMessage, Fetch, Publish, InFlight, Calls
    <3>3. InFlight' \subseteq InFlight \cup {r}
      BY <1>4, OthersStay DEF InFlight
    <3> QED
      BY <1>1, <3>1, <3>2, <3>3
  <2>2. SUFFICES /\ InFlight' = {} => \A n \in UpToDate' : Latest(n)' = Shown'
                 /\ r \in InFlight' => Follows(r)'
    BY <2>1 DEF ClientsFollow
  <2>3. CASE Find(r)
    <3>1. UNCHANGED <<content, deleted, feed, told, missed>> /\ pc'[r] \in {"write", "forbidden"}
          /\ (pc'[r] = "write" => ~deleted)
      BY <1>0, <2>3 DEF Find, Goto, TypeOK, rowVars, busVars
    <3>2. \A n \in UpToDate' : Latest(n)' = Shown'
      <4>1. InFlight = {}
        BY <1>1, <2>3, AloneStep
      <4>2. UpToDate' = UpToDate /\ \A n \in Node : Latest(n)' = Latest(n)
        BY <3>1, SameLatest
      <4>3. \A n \in UpToDate : n \in Node
        BY DEF UpToDate
      <4> QED
        BY <1>1, <3>1, <4>1, <4>2, <4>3 DEF Shown
    <3> QED
      BY <3>1, <3>2 DEF Follows
  <2>4. CASE EditMessage(r)
    <3>1. r \in InFlight /\ pc[r] = "write" /\ ~deleted
      BY <1>1, <2>4 DEF EditMessage, InFlight, Calls, Follows
    <3>2. UNCHANGED deleted /\ pc'[r] = "fetch"
      BY <1>0, <2>4 DEF EditMessage, Goto, TypeOK
    <3>3. r \in InFlight'
      BY <3>2 DEF InFlight, Calls
    <3> QED
      BY <3>1, <3>2, <3>3 DEF Follows
  <2>5. CASE SoftDeleteMessage(r)
    <3>1. deleted' /\ pc'[r] = "publish" /\ shows'[r] = Gone
      BY <1>0, <2>5 DEF SoftDeleteMessage, Goto, TypeOK
    <3>2. r \in InFlight'
      BY <3>1 DEF InFlight, Calls
    <3> QED
      BY <3>1, <3>2 DEF Follows, Shown
  <2>6. CASE Fetch(r)
    <3>1. r \in InFlight /\ ~deleted
      BY <1>1, <2>6 DEF Fetch, InFlight, Calls, Follows
    <3>2. UNCHANGED <<content, deleted>> /\ pc'[r] = "publish" /\ shows'[r] = content
      BY <1>0, <2>6, <3>1 DEF Fetch, Goto, TypeOK, rowVars
    <3>3. r \in InFlight'
      BY <3>2 DEF InFlight, Calls
    <3> QED
      BY <3>1, <3>2, <3>3 DEF Follows, Shown
  <2>7. CASE Publish(r)
    <3>1. r \in InFlight /\ shows[r] = Shown /\ shows[r] \in Event
      BY <1>1, <2>7 DEF Publish, InFlight, Calls, Follows, TypeOK
    <3>2. UNCHANGED <<content, deleted>> /\ Announce(shows[r]) /\ pc'[r] = "done"
      BY <1>0, <2>7 DEF Publish, Goto, TypeOK, rowVars
    <3>3. \A n \in UpToDate' : Latest(n)' = shows[r]
      BY <3>1, <3>2, AnnounceLatest
    <3>4. Shown' = Shown
      BY <3>2 DEF Shown
    <3> QED
      BY <3>1, <3>2, <3>3, <3>4 DEF Follows
  <2> QED
    BY <1>4, <2>3, <2>4, <2>5, <2>6, <2>7 DEF Handler
<1>5. ASSUME NEW n \in Node, Hang(n) PROVE UNCHANGED <<content, deleted, pc, shows, feed, told, missed>>
  BY <1>5 DEF Hang, rowVars
<1>6. CASE UNCHANGED vars
  BY <1>6, <1>3 DEF vars, rowVars, busVars
<1> QED
  BY <1>0, <1>2, <1>3, <1>4, <1>5, <1>6 DEF Next, Lose

(* While requests do not race, and unless something fails, what the clients end *)
(* up seeing is what the table holds.                                           *)
THEOREM SequentialClientsFollow == Spec => []ClientsFollow
<1>1. Init => SequentialInv
  BY DEF Init, SequentialInv, ClientsFollow, InFlight, Calls, Latest, UpToDate, Shown
<1>2. IInv /\ SequentialInv /\ [Next]_vars => SequentialInv'
  <2> SUFFICES ASSUME IInv, SequentialInv, [Next]_vars, ~raced'
               PROVE  /\ \A r, s \in InFlight' : r = s
                      /\ faults' = 0 => ClientsFollow' /\ \A r \in InFlight' : Follows(r)'
    BY DEF SequentialInv
  <2>1. TypeOK /\ \A r, s \in InFlight : r = s
    BY RacedStays DEF IInv, SequentialInv
  <2>2. \A r, s \in InFlight' : r = s
    BY <2>1, AloneStep
  <2>3. faults' = 0 => ClientsFollow' /\ \A r \in InFlight' : Follows(r)'
    BY <2>1, FollowStep
  <2> QED
    BY <2>2, <2>3
<1>3. IInv /\ SequentialInv => ClientsFollow
  BY DEF SequentialInv, ClientsFollow, IInv, TypeOK
<1> QED
  BY <1>1, <1>2, <1>3, Invariance, PTL DEF Spec

=============================================================================
