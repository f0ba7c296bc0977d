-------------------------------- MODULE Edits --------------------------------
(***************************************************************************)
(* Editing and deleting a message that others are looking at:              *)
(* EditMessageHandler and SoftDeleteMessageHandler (internal/api/          *)
(* room_handlers.go), their queries (internal/db/queries.go) and the       *)
(* SyncEngine (internal/persistence/sync.go) that tells every node of it   *)
(* over Redis.  Handlers are concurrent; each of their calls to the        *)
(* database or to Redis is a step, and may fail.  One message is modelled: *)
(* requests for different messages share nothing but the order of the      *)
(* channel.  A text is named by the request that wrote it.  One client of  *)
(* the room stands for those of its node: what one client gets and misses  *)
(* does not bear on another.                                               *)
(***************************************************************************)
EXTENDS Naturals, Sequences, FiniteSets

CONSTANTS
  Node,           \* nodes, each with a SyncEngine subscribed to "messages"
  Edit,           \* edit requests
  Delete,         \* delete requests
  Foreign,        \* the requests of somebody who did not write the message
  Original,       \* the text the message was created with
  Gone,           \* what an event with deleted_at shows
  Nothing,        \* no event
  MaxConcurrent,  \* requests for the message in flight at a time
  MaxFaults       \* bound: calls that fail and events that get lost

Req  == Edit \cup Delete
Text == Edit \cup {Original}

ASSUME EditsAssumption ==
  /\ IsFiniteSet(Req) /\ Edit \cap Delete = {} /\ Foreign \subseteq Req
  /\ Original \notin Edit /\ Gone \notin Text /\ Nothing \notin Text \cup {Gone}
  /\ MaxConcurrent \in Nat \ {0} /\ MaxFaults \in Nat

VARIABLES
  content,  \* messages.content
  deleted,  \* messages.deleted_at is not null
  pc,       \* per request: the call it makes next, or its answer
  shows,    \* per request: the event it is about to publish
  feed,     \* per node: what Redis has delivered and the room has not sent to its clients yet
  told,     \* per node: what its client was told last
  missed,   \* per node: the event its client was passed over with since then, the latest one
  hung,     \* nodes whose syncLoop, or whose room, waits in a send that never returns
  wrote,    \* the edits whose UPDATE found the row
  faults,   \* faults so far
  raced     \* two requests have been in flight together

rowVars == <<content, deleted, wrote>>
busVars == <<feed, told, missed, hung>>
vars    == <<rowVars, pc, shows, busVars, faults, raced>>

Answer == {"forbidden", "failed", "unfetched", "done"}
Calls  == {"write", "fetch", "publish"}
Event  == Text \cup {Gone}

TypeOK ==
  /\ content \in Text /\ deleted \in BOOLEAN /\ wrote \in SUBSET Edit
  /\ pc \in [Req -> {"idle"} \cup Calls \cup Answer]
  /\ shows \in [Req -> Event]
  /\ feed \in [Node -> Seq(Event)] /\ told \in [Node -> Event]
  /\ missed \in [Node -> Event \cup {Nothing}] /\ hung \in SUBSET Node
  /\ faults \in 0..MaxFaults /\ raced \in BOOLEAN

(* The message is stored and everybody has seen it. *)
Init ==
  /\ content = Original /\ deleted = FALSE /\ wrote = {}
  /\ pc = [r \in Req |-> "idle"]
  /\ shows = [r \in Req |-> Original]
  /\ feed = [n \in Node |-> <<>>] /\ told = [n \in Node |-> Original]
  /\ missed = [n \in Node |-> Nothing] /\ hung = {}
  /\ faults = 0 /\ raced = FALSE

-----------------------------------------------------------------------------
InFlight == {r \in Req : pc[r] \in Calls}
Goto(r, step) == pc' = [pc EXCEPT ![r] = step]

(* A call that fails: the database, Redis, or the caller hung up and took ctx with him. *)
Fault == faults < MaxFaults /\ faults' = faults + 1

IgnoresError(r) == Goto(r, IF r \in Edit THEN "fetch" ELSE "publish")     \* mutant
Fails(r) == Goto(r, "failed")

(* GetMessageByID: there is such a message, not deleted, and the caller wrote it. *)
Find(r) ==
  /\ pc[r] = "idle" /\ Cardinality(InFlight) < MaxConcurrent
  /\ raced' = (raced \/ InFlight # {})
  /\ \/ ~deleted /\ r \notin Foreign /\ Goto(r, "write") /\ UNCHANGED faults
     \/ (deleted \/ r \in Foreign) /\ Goto(r, "forbidden") /\ UNCHANGED faults
     \/ Fault /\ Goto(r, "forbidden")
  /\ UNCHANGED <<rowVars, shows, busVars>>

(* UPDATE messages SET content ... AND deleted_at IS NULL.  No row is no error. *)
UpdateAny(r) == content' = r /\ wrote' = wrote \cup {r}                   \* mutant
Update(r) ==
  \/ ~deleted /\ content' = r /\ wrote' = wrote \cup {r}
  \/ deleted /\ UNCHANGED <<content, wrote>>

EditMessage(r) ==
  /\ r \in Edit /\ pc[r] = "write"
  /\ \/ Update(r) /\ Goto(r, "fetch") /\ UNCHANGED faults
     \/ Fault /\ Fails(r) /\ (Update(r) \/ UNCHANGED <<content, wrote>>)
  /\ UNCHANGED <<deleted, shows, busVars, raced>>

(* UPDATE messages SET deleted_at; the event is made up, not fetched. *)
SoftDeleteMessage(r) ==
  /\ r \in Delete /\ pc[r] = "write"
  /\ shows' = [shows EXCEPT ![r] = Gone]
  /\ \/ deleted' = TRUE /\ Goto(r, "publish") /\ UNCHANGED faults
     \/ Fault /\ Fails(r) /\ deleted' \in {deleted, TRUE}
  /\ UNCHANGED <<content, wrote, busVars, raced>>

(* GetMessageByID again.  Without a row the caller is told of success all the same. *)
Fetch(r) ==
  /\ pc[r] = "fetch"
  /\ \/ /\ ~deleted /\ Goto(r, "publish") /\ UNCHANGED faults
        /\ shows' = [shows EXCEPT ![r] = content]
     \/ deleted /\ Goto(r, "unfetched") /\ UNCHANGED <<shows, faults>>
     \/ Fault /\ Goto(r, "unfetched") /\ UNCHANGED shows
  /\ UNCHANGED <<rowVars, busVars, raced>>

(* Redis delivers to every subscriber, in one order. *)
AnnounceIfIdle(e) == feed' = [n \in Node |-> IF feed[n] = <<>> THEN <<e>> ELSE feed[n]] \* mutant
Announce(e) == feed' = [n \in Node |-> Append(feed[n], e)]

(* PublishMessage.  Its error is ignored. *)
Publish(r) ==
  /\ pc[r] = "publish" /\ Goto(r, "done")
  /\ \/ Announce(shows[r]) /\ UNCHANGED faults
     \/ Fault /\ UNCHANGED feed
  /\ UNCHANGED <<rowVars, shows, told, missed, hung, raced>>

-----------------------------------------------------------------------------
Tell(n, e) == told' = [told EXCEPT ![n] = e] /\ missed' = [missed EXCEPT ![n] = Nothing]
PassOver(n, e) == missed' = [missed EXCEPT ![n] = e] /\ UNCHANGED told

(* syncLoop takes an event and broadcasts it to the room, in the order of arrival; *)
(* the room passes over a client whose channel is full.                            *)
Handle(n) ==
  /\ feed[n] # <<>> /\ n \notin hung
  /\ Tell(n, Head(feed[n])) \/ PassOver(n, Head(feed[n]))
  /\ feed' = [feed EXCEPT ![n] = Tail(@)]
  /\ UNCHANGED <<rowVars, pc, shows, hung, faults, raced>>

(* A send that never returns, of an event for this room or for another one: *)
(* syncLoop, or the room after it, takes no other event.  Delivery and Rooms *)
(* show how it comes to that.                                               *)
Hang(n) ==
  /\ n \notin hung /\ hung' = hung \cup {n}
  /\ UNCHANGED <<rowVars, pc, shows, feed, told, missed, faults, raced>>

(* The node was not connected, or its buffer was full. *)
Lose(n) ==
  /\ feed[n] # <<>> /\ Fault
  /\ feed' = [feed EXCEPT ![n] = Tail(@)]
  /\ UNCHANGED <<rowVars, pc, shows, told, missed, hung, raced>>

Handler(r) == Find(r) \/ EditMessage(r) \/ SoftDeleteMessage(r) \/ Fetch(r) \/ Publish(r)

Next ==
  \/ \E r \in Req : Handler(r)
  \/ \E n \in Node : Handle(n) \/ Hang(n) \/ Lose(n)

Spec == Init /\ [][Next]_vars

(* A handler that has begun runs to its end, and syncLoop keeps taking events *)
(* as long as its sends return.                                               *)
FairSpec ==
  /\ Spec
  /\ \A r \in Req : WF_vars(EditMessage(r) \/ SoftDeleteMessage(r) \/ Fetch(r) \/ Publish(r))
  /\ \A n \in Node : WF_vars(Handle(n))

-----------------------------------------------------------------------------
(* A deleted message stays deleted and keeps its text, an edit that passed its  *)
(* check before the deletion included (queries.go:247-253).                     *)
DeleteIsFinal == [][deleted => deleted' /\ content' = content]_vars

(* Nobody is told of a deletion that did not take place or of a text that was   *)
(* never stored: handlers publish what the database confirmed                   *)
(* (room_handlers.go:294-309, 338-346).                                         *)
Stored(e) == (e = Gone => deleted) /\ (e \in Edit => e \in wrote)
ToldIsStored == \A n \in Node :
  /\ Stored(told[n])
  /\ \A i \in 1..Len(feed[n]) : Stored(feed[n][i])

(* Unless events get lost, the clients that are not passed over at the end are  *)
(* all told the same, on whatever node they are and in whatever order the       *)
(* handlers publish (sync.go:60-72, 292-299, manager.go:251-255).               *)
Latest(n) == IF feed[n] = <<>> THEN told[n] ELSE feed[n][Len(feed[n])]
UpToDate == {n \in Node : feed[n] # <<>> \/ missed[n] = Nothing}
NodesAgree == faults = 0 => \A m, n \in UpToDate : Latest(m) = Latest(n)

(* Until requests race or something fails, what they are told in the end is     *)
(* what is in the table (room_handlers.go:266-350).  After a race it need not   *)
(* be: the event published last may show a text that was overwritten, or a      *)
(* message that is deleted.                                                     *)
Shown == IF deleted THEN Gone ELSE content
ClientsFollow == (faults = 0 /\ ~raced /\ InFlight = {}) => \A n \in UpToDate : Latest(n) = Shown

(* Why ToldIsStored holds: a handler about to publish has seen it stored.       *)
ShowsStored ==
  /\ Stored(content)
  /\ \A r \in InFlight : pc[r] = "publish" => Stored(shows[r])
DeletesSayGone == \A r \in Delete :
  pc[r] # "fetch" /\ (pc[r] = "publish" => shows[r] = Gone)
IInv == TypeOK /\ ToldIsStored /\ ShowsStored /\ DeletesSayGone

(* Why ClientsFollow holds while requests do not race: a request that passed    *)
(* its check still finds the message, and what it publishes is what is stored.  *)
Follows(r) ==
  /\ pc[r] \in {"write", "fetch"} => ~deleted
  /\ pc[r] = "write" => \A n \in UpToDate : Latest(n) = Shown
  /\ pc[r] = "publish" => shows[r] = Shown
SequentialInv == ~raced =>
  /\ \A r, s \in InFlight : r = s
  /\ faults = 0 => ClientsFollow /\ \A r \in InFlight : Follows(r)

(* A deletion that is published comes to the clients of every node, whatever    *)
(* edits race it, and each is told of it unless its own channel is full at that *)
(* very event (sync.go:60-72, room_handlers.go:346, manager.go:251-255).  Only  *)
(* a node in which a send never returns (manager.go:43, 150), a publish that    *)
(* fails and an event that Redis loses keep it from them.                       *)
SentOut(n, e) == told[n] = e \/ missed[n] = e

(* Why: publishing it puts it ahead of every node, and there it stays until it  *)
(* is sent to the clients, unless a call fails or an event gets lost.           *)
Ahead(n) == \E i \in 1..Len(feed[n]) : feed[n][i] = Gone
DeletionTravels == [][faults' = faults => \A n \in Node :
  /\ Ahead(n) => Ahead(n)' \/ SentOut(n, Gone)'
  /\ \A r \in Delete : (pc[r] = "publish" /\ pc'[r] # "publish") => Ahead(n)']_vars

=============================================================================
