------------------------------ MODULE Reactions ------------------------------
(***************************************************************************)
(* Reactions to a message: AddReactionHandler and RemoveReactionHandler    *)
(* (internal/api/room_handlers.go), their queries (internal/db/queries.go) *)
(* and the room events by which SyncEngine tells every node of them        *)
(* (internal/persistence/sync.go).  One message and one emoji are          *)
(* modelled; the reaction of each user is a row of its own.  The handlers  *)
(* that change room_members (internal/api/member_handlers.go) run beside   *)
(* them.  Each call to the database or to Redis is a step, and may fail,   *)
(* any number of times.  One client of the room stands for those of its    *)
(* node: what one client gets and misses does not bear on another.         *)
(***************************************************************************)
EXTENDS Naturals, Sequences

CONSTANTS
  Node,      \* nodes, each with a SyncEngine subscribed to "room_events"
  User,
  Hasty,     \* the users who do not wait for the answer to a request
  MaxRacing, \* bound: requests a hasty user has in flight at a time
  MaxFeed    \* bound: events Redis has delivered and a node has not sent out yet

ASSUME ReactionsAssumption ==
  Hasty \subseteq User /\ MaxRacing \in Nat \ {0} /\ MaxFeed \in Nat \ {0}

Req   == {r \in User \X (1..MaxRacing) : r[1] \in Hasty \/ r[2] = 1}
Op    == {"reaction_added", "reaction_removed"}
Event == [user : User, op : Op]

(* The users who wait for the answer to a request before they make another one. *)
Patient == User \ Hasty

VARIABLES
  members,    \* room_members of the room
  reactions,  \* the users with a row in reactions
  pc,         \* per request: "idle", then the call it makes next, "write" or "publish"
  op,         \* per request: what it is about, once it has passed its check
  feed,       \* per node: what Redis has delivered and the room has not sent to its clients yet
  shown,      \* per node: the users whose reaction the events its client got leave in place
  hung,       \* nodes whose syncLoop, or whose room, waits in a send that never returns
  hurt        \* the nodes and patient users of whom, since the last success of that user, a
              \* call failed, or an event got lost on its way to the client of that node

rowVars == <<members, reactions>>
reqVars == <<pc, op>>
vars    == <<rowVars, reqVars, feed, shown, hung, hurt>>

TypeOK ==
  /\ members \in SUBSET User /\ reactions \in SUBSET User
  /\ pc \in [Req -> {"idle", "write", "publish"}]
  /\ op \in [Req -> Op]
  /\ feed \in [Node -> Seq(Event)]
  /\ shown \in [Node -> SUBSET User]
  /\ hung \in SUBSET Node /\ hurt \in SUBSET (Node \X Patient)

Init ==
  /\ members = User /\ reactions = {}
  /\ pc = [r \in Req |-> "idle"] /\ op = [r \in Req |-> "reaction_added"]
  /\ feed = [n \in Node |-> <<>>] /\ shown = [n \in Node |-> {}]
  /\ hung = {} /\ hurt = {}

-----------------------------------------------------------------------------
Goto(r, step) == pc' = [pc EXCEPT ![r] = step]
Answer(r) == Goto(r, "idle") /\ op' = [op EXCEPT ![r] = "reaction_added"]
Hurt(nodes, u) == hurt' = hurt \cup (nodes \X ({u} \cap Patient))
Heal(u) == hurt' = hurt \ (Node \X {u})

(* What a set of users with a reaction is after an event. *)
Put(set, e) == IF e.op = "reaction_added" THEN set \cup {e.user} ELSE set \ {e.user}

AnyUser(u) == TRUE                                                        \* mutant
IsRoomMember(u) == u \in members

(* The handler begins, and passes its check of membership. *)
Check(r) ==
  /\ pc[r] = "idle" /\ IsRoomMember(r[1]) /\ Goto(r, "write")
  /\ \E o \in Op : op' = [op EXCEPT ![r] = o]
  /\ UNCHANGED <<rowVars, feed, shown, hung, hurt>>

InsertsOnly(r) == reactions' = reactions \cup {r[1]}                      \* mutant
(* AddMessageReaction or RemoveMessageReaction.  A row that is there already, or *)
(* is not there, is no error.                                                    *)
Change(r) == reactions' = Put(reactions, [user |-> r[1], op |-> op[r]])

(* A call that fails may have changed the table nevertheless. *)
Write(r) ==
  /\ pc[r] = "write"
  /\ \/ Change(r) /\ Goto(r, "publish") /\ UNCHANGED <<op, hurt>>
     \/ (Change(r) \/ UNCHANGED reactions) /\ Answer(r) /\ Hurt(Node, r[1])
  /\ UNCHANGED <<members, feed, shown, hung>>

AnnounceFirst(e) == feed' = [n \in Node |-> <<e>> \o feed[n]]             \* mutant
AnnounceAdded(e) == feed' = [n \in Node |-> Append(feed[n], [e EXCEPT !.op = "reaction_added"])] \* mutant
(* Redis delivers to every subscriber, in one order.  What is for a node that *)
(* hangs is as good as lost.                                                  *)
Announce(e) == feed' = [n \in Node |-> IF n \in hung THEN feed[n] ELSE Append(feed[n], e)]

(* PublishRoomEvent.  Its error is ignored. *)
Publish(r) ==
  /\ pc[r] = "publish" /\ Answer(r)
  /\ \/ /\ \A n \in Node \ hung : Len(feed[n]) < MaxFeed
        /\ Announce([user |-> r[1], op |-> op[r]])
        /\ Heal(r[1])
     \/ Hurt(Node, r[1]) /\ UNCHANGED feed
  /\ UNCHANGED <<rowVars, shown, hung>>

-----------------------------------------------------------------------------
(* syncLoop takes an event and broadcasts it to the room. *)
HandleRoomEvent(n) ==
  /\ feed[n] # <<>> /\ n \notin hung
  /\ shown' = [shown EXCEPT ![n] = Put(@, Head(feed[n]))]
  /\ feed' = [feed EXCEPT ![n] = Tail(@)]
  /\ UNCHANGED <<rowVars, reqVars, hung, hurt>>

(* The event does not reach the client: the node was not connected, its buffer *)
(* was full, or the channel of the client is full and the room passes it over. *)
Lose(n) ==
  /\ feed[n] # <<>> /\ n \notin hung /\ Hurt({n}, Head(feed[n]).user)
  /\ feed' = [feed EXCEPT ![n] = Tail(@)]
  /\ UNCHANGED <<rowVars, reqVars, shown, hung>>

(* A send that never returns, of an event for this room or for another one: *)
(* syncLoop, or the room after it, takes no other event.                    *)
Hang(n) ==
  /\ n \notin hung /\ hung' = hung \cup {n}
  /\ feed' = [feed EXCEPT ![n] = <<>>]
  /\ UNCHANGED <<rowVars, reqVars, shown, hurt>>

(* AddMemberHandler and RemoveMemberHandler. *)
AddRoomMember(u) ==
  /\ u \notin members /\ members' = members \cup {u}
  /\ UNCHANGED <<reactions, reqVars, feed, shown, hung, hurt>>

RemoveRoomMember(u) ==
  /\ u \in members /\ members' = members \ {u}
  /\ UNCHANGED <<reactions, reqVars, feed, shown, hung, hurt>>

-----------------------------------------------------------------------------
Handler(r) == Check(r) \/ Write(r) \/ Publish(r)

Next ==
  \/ \E r \in Req : Handler(r)
  \/ \E n \in Node : HandleRoomEvent(n) \/ Lose(n) \/ Hang(n)
  \/ \E u \in User : AddRoomMember(u) \/ RemoveRoomMember(u)

Spec == Init /\ [][Next]_vars

(* A handler that has begun runs to its end, and syncLoop keeps taking events *)
(* as long as its sends return.                                               *)
FairSpec ==
  /\ Spec
  /\ \A r \in Req : WF_vars(Write(r) \/ Publish(r))
  /\ \A n \in Node : WF_vars(HandleRoomEvent(n))

-----------------------------------------------------------------------------
(* Whether a client ends up seeing the reaction of u, when set is what it sees  *)
(* now and s is what it is still going to be told.                              *)
Sees(s, u, set) ==
  IF \E i \in 1..Len(s) : s[i].user = u
  THEN \E i \in 1..Len(s) :
         /\ s[i].user = u /\ s[i].op = "reaction_added"
         /\ \A j \in 1..Len(s) : j > i => s[j].user # u
  ELSE u \in set

WillSee(n, u) == Sees(feed[n], u, shown[n])
Publishing(u) == \E r \in Req : r[1] = u /\ pc[r] = "publish"

(* What a request of a patient user is about to tell the nodes is what the      *)
(* table holds, whatever races the others run.                                  *)
TellsWhatIs == \A r \in Req : r[1] \in Patient /\ pc[r] = "publish" =>
  (r[1] \in reactions <=> op[r] = "reaction_added")

IInv == TypeOK /\ TellsWhatIs

(* For a patient user, what the clients end up showing is what is in the table; *)
(* a failure concerns the user it hits, an event that a client misses (lost by  *)
(* Redis, or its channel was full) concerns that client, and the next success   *)
(* of that user repairs both (room_handlers.go:392-403, 444-455, sync.go:60-72, *)
(* manager.go:251-255).  Only where a send hangs nothing does.                  *)
UsersFollow == \A u \in Patient, n \in Node \ hung :
  (<<n, u>> \notin hurt /\ ~Publishing(u)) => (WillSee(n, u) <=> u \in reactions)

-----------------------------------------------------------------------------
(* Once such a user stops reacting, the clients of every node come to see what  *)
(* is in the table, however busy the others are, save a client that missed the  *)
(* last event (manager.go:251-255) and a node in which a send never returns     *)
(* (room_handlers.go:398, sync.go:207, manager.go:43, 150).                     *)
Quiet(u) == \A r \in Req : r[1] = u => pc[r] = "idle"
OutOfReach(n, u) == n \in hung \/ <<n, u>> \in hurt
Converges == \A u \in Patient : <>[]Quiet(u) =>
  <>[](\A n \in Node : OutOfReach(n, u) \/ (u \in shown[n] <=> u \in reactions))

(* After a member is removed for good, the requests that had passed their check *)
(* come to an end, and from then on the row of that user stays as it is         *)
(* (room_handlers.go:385-390, 437-442).                                         *)
RemovedFallsSilent == \A u \in User :
  <>[](u \notin members) => <>[][(u \in reactions)' = (u \in reactions)]_vars

(* Why: while a user is no member, the requests that may still write for that   *)
(* user only become fewer, and each changes the row once at most.               *)
PastCheck(u) == {r \in Req : r[1] = u /\ pc[r] = "write"}
RemovedRunsOut == [][\A u \in User : (u \notin members /\ u \notin members') =>
  /\ PastCheck(u)' \subseteq PastCheck(u)
  /\ PastCheck(u)' = PastCheck(u) => ((u \in reactions)' <=> u \in reactions)]_vars

=============================================================================
