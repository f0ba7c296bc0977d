-------------------------------- MODULE Pool --------------------------------
(***************************************************************************)
(* The pool of database connections (internal/db/db.go) and those who take *)
(* connections from it: HTTP handlers of a user, callers without one       *)
(* (websockets, read receipts, signup), and the message writer, whose      *)
(* transaction holds a connection while CreateMessage asks for another     *)
(* (writer.go:122, 130).                                                   *)
(*                                                                         *)
(* Each call takes a connection, lets BeforeAcquire set app.user_id for    *)
(* the session if the context has a user, runs its statement and gives the *)
(* connection back.  Nothing resets app.user_id.  pgxpool serves those who *)
(* wait in the order they came, and replaces a connection that broke.      *)
(***************************************************************************)
EXTENDS Naturals, Sequences

CONSTANTS
  Conn,      \* connections, as many as MaxConns; one that broke is replaced in its place
  User,      \* users, each with one call of a handler at a time
  None,
  BatchSize  \* mw.batchSize

Tx   == "tx"    \* the writer's transaction
Stmt == "stmt"  \* its CreateMessage
Caller == User \cup {Tx, Stmt}

ASSUME PoolAssumption ==
  /\ BatchSize \in Nat \ {0}
  /\ None \notin User \cup Conn
  /\ Tx \notin User /\ Stmt \notin User

VARIABLES
  pool,     \* "open", "closing" once main called Close, "closed" when that returned
  busy,     \* the connections that are out
  session,  \* per connection: app.user_id
  waiting,  \* who waits for a connection, first come first
  pc,       \* per caller: where it is
  at,       \* per caller: its connection
  task,     \* per user: "create" a room, "read" something in a few calls, or do so
            \* as a "guest": in a context without the user
  room,     \* per user: the room it creates: "none", a "row", or a row and its "admin"
  left      \* messages the writer's transaction has still to store

reqVars == <<task, room>>
vars == <<pool, busy, session, waiting, pc, at, reqVars, left>>

Holding == {"set", "run", "blind", "open", "rollback"}

Task == {"create", "read", "guest"}

TypeOK ==
  /\ pool \in {"open", "closing", "closed"}
  /\ busy \subseteq Conn
  /\ session \in [Conn -> User \cup {None}]
  /\ waiting \in Seq(Caller)
  /\ pc \in [Caller -> {"idle", "next", "wait", "done", "cut"} \cup Holding]
  /\ at \in [Caller -> Conn \cup {None}]
  /\ task \in [User -> Task]
  /\ room \in [User -> {"none", "row", "admin"}]
  /\ left \in 0..BatchSize

Init ==
  /\ pool = "open" /\ busy = {} /\ session = [c \in Conn |-> None]
  /\ waiting = <<>>
  /\ pc = [p \in Caller |-> "idle"] /\ at = [p \in Caller |-> None]
  /\ task = [r \in User |-> "read"] /\ room = [r \in User |-> "none"] /\ left = 0

-----------------------------------------------------------------------------
(* The pool *)
Goto(p, from, to) == pc[p] = from /\ pc' = [pc EXCEPT ![p] = to]

Ask(p) == waiting' = Append(waiting, p)

(* The first in the queue takes a connection that is free. *)
Grant(c) ==
  /\ pool = "open" /\ waiting # <<>> /\ c \notin busy
  /\ busy' = busy \cup {c}
  /\ at' = [at EXCEPT ![Head(waiting)] = c]
  /\ pc' = [pc EXCEPT ![Head(waiting)] = "set"]
  /\ waiting' = Tail(waiting)
  /\ UNCHANGED <<pool, session, reqVars, left>>

UserOf(p) == IF p \in User /\ task[p] # "guest" THEN p ELSE None

SetsOnce(p) == session' = IF session[at[p]] = None                        \* mutant
                          THEN [session EXCEPT ![at[p]] = UserOf(p)] ELSE session
SetsUser(p) == session' = [session EXCEPT ![at[p]] = UserOf(p)]

(* An error of set_config is printed, and the connection is used as it is. *)
BeforeAcquire(p) ==
  /\ pc[p] = "set"
  /\ IF UserOf(p) = None
     THEN pc' = [pc EXCEPT ![p] = "run"] /\ UNCHANGED session
     ELSE \/ pc' = [pc EXCEPT ![p] = "run"] /\ SetsUser(p)
          \/ pc' = [pc EXCEPT ![p] = "blind"] /\ UNCHANGED session
  /\ UNCHANGED <<pool, busy, waiting, at, reqVars, left>>

KeepsConn(p) == UNCHANGED <<busy, at>>                                    \* mutant
Release(p) ==
  /\ busy' = busy \ {at[p]}
  /\ at' = [at EXCEPT ![p] = None]

(* A connection that broke is destroyed, and the next one knows no user. *)
Breaks(p) == session' = [session EXCEPT ![at[p]] = None]
MayBreak(p) == UNCHANGED session \/ Breaks(p)

(* The pool closes connections that are idle for long, or old. *)
Expire(c) ==
  /\ c \notin busy /\ session[c] # None
  /\ session' = [session EXCEPT ![c] = None]
  /\ UNCHANGED <<pool, busy, waiting, pc, at, reqVars, left>>

(* main closes the pool when the writer is down; Close waits for the connections. *)
Close ==
  /\ pool = "open" /\ pc[Tx] = "idle" /\ pool' = "closing"
  /\ UNCHANGED <<busy, session, waiting, pc, at, reqVars, left>>

CloseReturns ==
  /\ pool = "closing" /\ busy = {} /\ pool' = "closed"
  /\ UNCHANGED <<busy, session, waiting, pc, at, reqVars, left>>

-----------------------------------------------------------------------------
(* Handlers: CreateRoom inserts the room and then its creator as a member; *)
(* other handlers check membership and go on or not, in a few calls.       *)
Start(r) ==
  /\ pc[r] \in {"idle", "done", "cut"} /\ pc' = [pc EXCEPT ![r] = "next"]
  /\ \E t \in Task : task' = [task EXCEPT ![r] = t]
  /\ room' = [room EXCEPT ![r] = "none"]
  /\ UNCHANGED <<pool, busy, session, waiting, at, left>>

Call(r) ==
  /\ Goto(r, "next", "wait") /\ Ask(r)
  /\ UNCHANGED <<pool, busy, session, at, reqVars, left>>

(* What the next statement of a creation stores. *)
Stores(r) == room' = IF task[r] # "create" THEN room
                     ELSE [room EXCEPT ![r] = IF @ = "none" THEN "row" ELSE "admin"]

SkipsAdmin(r) == pc' = [pc EXCEPT ![r] = "done"]                          \* mutant
(* The next call of the handler, or its answer. *)
GoesOn(r) ==
  \/ room[r] = "none" /\ pc' = [pc EXCEPT ![r] = "next"]
  \/ (room[r] # "none" \/ task[r] # "create") /\ pc' = [pc EXCEPT ![r] = "done"]

Succeed(r) ==
  /\ pc[r] \in {"run", "blind"}
  /\ Stores(r) /\ GoesOn(r) /\ Release(r)
  /\ UNCHANGED <<pool, session, waiting, task, left>>

(* The call fails and the handler answers; the error of the second statement of a *)
(* creation is dropped, and the answer is 201.                                    *)
GiveUp(r) == pc' = [pc EXCEPT ![r] = "cut"] /\ UNCHANGED task

(* The author of a message cannot be read, and is left out of the answer. *)
ReadsOn(r) == task[r] # "create" /\ pc' = [pc EXCEPT ![r] = "next"] /\ UNCHANGED task

(* PostgreSQL refuses, or the connection breaks before or after the statement. *)
Fail(r) ==
  /\ pc[r] \in {"run", "blind"} /\ Release(r)
  /\ GiveUp(r) \/ ReadsOn(r)
  /\ \/ MayBreak(r) /\ UNCHANGED room
     \/ Breaks(r) /\ Stores(r)
  /\ UNCHANGED <<pool, waiting, left>>

Leaves(r) == \E i \in DOMAIN waiting :
  /\ waiting[i] = r
  /\ waiting' = [j \in 1..(Len(waiting) - 1) |-> waiting[IF j < i THEN j ELSE j + 1]]

(* The caller hangs up: who waits leaves the queue; a connection in use is closed. *)
HangUp(r) ==
  /\ \/ /\ pc[r] = "wait" /\ Leaves(r)
        /\ UNCHANGED <<busy, at, session, room>>
     \/ /\ pc[r] \in {"set", "run", "blind"} /\ Release(r) /\ Breaks(r)
        /\ UNCHANGED room \/ (pc[r] # "set" /\ Stores(r))
        /\ UNCHANGED waiting
  /\ GiveUp(r)
  /\ UNCHANGED <<pool, left>>

(* The pool was closed. *)
Denied(r) ==
  /\ pc[r] = "wait" /\ pool # "open" /\ Leaves(r) /\ GiveUp(r)
  /\ UNCHANGED <<pool, busy, session, at, room, left>>

-----------------------------------------------------------------------------
(* The message writer: writeBatch. *)
Batch ==
  /\ pool = "open" /\ Goto(Tx, "idle", "wait") /\ Ask(Tx)
  /\ left' \in 1..BatchSize
  /\ UNCHANGED <<pool, busy, session, at, reqVars>>

Begin ==
  /\ pc[Tx] = "run"
  /\ \/ pc' = [pc EXCEPT ![Tx] = "open"] /\ UNCHANGED <<busy, at, session>>
     \/ pc' = [pc EXCEPT ![Tx] = "idle"] /\ Release(Tx) /\ MayBreak(Tx)
  /\ UNCHANGED <<pool, waiting, reqVars, left>>

CreateMessage ==
  /\ pc[Tx] = "open" /\ left > 0 /\ Goto(Stmt, "idle", "wait") /\ Ask(Stmt)
  /\ UNCHANGED <<pool, busy, session, at, reqVars, left>>

Insert ==
  /\ pc[Stmt] = "run" /\ Release(Stmt)
  /\ \/ /\ pc' = [pc EXCEPT ![Stmt] = "idle"] /\ left' = left - 1 /\ UNCHANGED session
     \/ /\ pc' = [pc EXCEPT ![Stmt] = "idle", ![Tx] = "rollback"] /\ UNCHANGED left
        /\ MayBreak(Stmt)
  /\ UNCHANGED <<pool, waiting, reqVars>>

(* Both give the connection back, whatever PostgreSQL says. *)
Commit ==
  /\ left = 0 /\ pc[Stmt] = "idle" /\ Goto(Tx, "open", "idle")
  /\ Release(Tx) /\ MayBreak(Tx)
  /\ UNCHANGED <<pool, waiting, reqVars, left>>

Rollback ==
  /\ Goto(Tx, "rollback", "idle") /\ Release(Tx) /\ MayBreak(Tx)
  /\ UNCHANGED <<pool, waiting, reqVars, left>>

-----------------------------------------------------------------------------
Writer == BeforeAcquire(Tx) \/ Begin \/ CreateMessage
          \/ BeforeAcquire(Stmt) \/ Insert \/ Commit \/ Rollback
Handler(r) == Call(r) \/ BeforeAcquire(r) \/ Succeed(r) \/ Fail(r) \/ Denied(r)

Next ==
  \/ \E c \in Conn : Grant(c) \/ Expire(c)
  \/ Close \/ CloseReturns
  \/ \E r \in User : Start(r) \/ Handler(r) \/ HangUp(r)
  \/ Batch \/ Writer

Spec == Init /\ [][Next]_vars

(* PostgreSQL answers each statement, well or not, and handlers go on.  Nobody owes a *)
(* request, a batch or a Close.                                                       *)
Fairness ==
  /\ WF_vars(\E c \in Conn : Grant(c)) /\ WF_vars(CloseReturns) /\ WF_vars(Writer)
  /\ \A r \in User : WF_vars(Handler(r))

FairSpec == Spec /\ Fairness

-----------------------------------------------------------------------------
(* A statement of a user runs in a session of that user, whoever had the        *)
(* connection before, unless set_config failed (db.go:50-66).                   *)
SessionIsCallers == \A u \in User :
  pc[u] = "run" /\ task[u] # "guest" => session[at[u]] = u

(* What is out is in the hands of one caller that uses it, through errors,      *)
(* hang-ups and rollbacks: no connection is lost or shared (writer.go:122-142,  *)
(* queries.go:99-135).                                                          *)
NothingLeaks ==
  /\ \A p \in Caller : pc[p] \in Holding <=> at[p] \in Conn
  /\ \A p, q \in Caller : at[p] = at[q] /\ at[p] # None => p = q
  /\ \A c \in Conn : c \in busy <=> \E p \in Caller : at[p] = c

(* Unless a call failed or its caller hung up, a request that created a room    *)
(* leaves its creator as a member (queries.go:99-106).                          *)
RoomsHaveAdmins == \A u \in User : pc[u] = "done" /\ task[u] = "create" => room[u] = "admin"

(* Who waits for a connection is in the queue, once.                            *)
Queued ==
  /\ \A i, j \in DOMAIN waiting : waiting[i] = waiting[j] => i = j
  /\ \A p \in Caller : pc[p] = "wait" <=> \E i \in DOMAIN waiting : waiting[i] = p

(* The writer asks for a second connection only while it holds its first.       *)
Nested == pc[Stmt] # "idle" => pc[Tx] = "open" /\ left > 0

Hands == TypeOK /\ Queued /\ Nested /\ NothingLeaks /\ SessionIsCallers

(* Each caller is at its own places, and the writer is down before the pool is. *)
Roles ==
  /\ pc[Tx] \in {"idle", "wait", "set", "run", "open", "rollback"}
  /\ pc[Stmt] \in {"idle", "wait", "set", "run"}
  /\ \A u \in User : pc[u] \notin {"open", "rollback"}
  /\ pool # "open" => pc[Tx] = "idle"

(* Whose next step waits for no connection. *)
CanGoOn(p) ==
  \/ pc[p] \in {"set", "run", "blind", "rollback"}
  \/ p = Tx /\ pc[Tx] = "open" /\ pc[Stmt] = "idle"

(* Nobody waits in a circle if there are two connections, though the writer waits  *)
(* with one in its hands: one is free, or someone who has one can go on; and once  *)
(* the pool closes, who waits is a handler, which is told so, and Close waits for  *)
(* someone who can go on (writer.go:122-142, main.go:164).                         *)
NoCircularWait == (\E c, d \in Conn : c # d) =>
  /\ pool = "open" /\ waiting # <<>> =>
       busy # Conn \/ \E p \in Caller : at[p] \in Conn /\ CanGoOn(p)
  /\ pool # "open" => \A i \in DOMAIN waiting : waiting[i] \in User
  /\ pool = "closing" /\ busy # {} => \E p \in Caller : at[p] \in Conn /\ CanGoOn(p)

IInv == Hands /\ Roles /\ NoCircularWait

-----------------------------------------------------------------------------
(* Whoever waits for a connection gets an answer, the writer included, which    *)
(* waits with one in its hands: a pool of two is enough (writer.go:122-142).    *)
AcquireEnds == \A p \in Caller : pc[p] = "wait" ~> pc[p] # "wait"

(* Closing the pool comes to an end, whoever uses it (main.go:164).             *)
CloseEnds == pool = "closing" ~> pool = "closed"

=============================================================================
