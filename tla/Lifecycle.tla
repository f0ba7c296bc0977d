------------------------------ MODULE Lifecycle ------------------------------
(***************************************************************************)
(* How the process comes up and goes down: main and gracefulShutdown       *)
(* (cmd/main.go), Start and Stop of MessageWriter and SyncEngine           *)
(* (internal/persistence), and the connections that outlive the server.    *)
(* What the services do in between is in Writer and Rooms; here they are   *)
(* the points where they wait, use the database or hand an event on.       *)
(***************************************************************************)
EXTENDS Naturals

CONSTANTS
  Conn,      \* HTTP requests; some become websocket connections
  QueueCap,  \* cap(mw.messageQueue), 1000 in the code
  MaxSends,  \* bound: chat messages that connections send
  MaxEvents  \* bound: events from Redis

ASSUME LifecycleAssumption ==
  QueueCap \in Nat \ {0} /\ MaxSends \in Nat /\ MaxEvents \in Nat

VARIABLES
  main,       \* the call main, or gracefulShutdown, makes next
  timedOut,   \* server.Shutdown gave up waiting for requests
  dbOpen,     \* the pool has not been closed
  writer,     \* "none", "spawned" (go Start), then where batchWriter is
  queue,      \* messages in mw.messageQueue
  batch,      \* whether batchWriter's batch has messages
  sync,       \* "none", "spawned" (go Start), then where syncLoop is
  linked,     \* se.roomMgr is not nil
  conn,       \* per request: "none", "request", websocket "open" or "queueing", "closed"
  late,       \* who used the database after it was closed
  overtaken,  \* services whose Stop returned before their Start had run
  sends, events,
  panic       \* "none", or why the process died: "nil" or "send"

mainVars   == <<main, timedOut, dbOpen, overtaken>>
writerVars == <<writer, queue, batch>>
syncVars   == <<sync, linked, events>>
connVars   == <<conn, sends>>
vars       == <<mainVars, writerVars, syncVars, connVars, late, panic>>

Boot     == {"writer", "sync", "link", "setup"}
Shutdown == {"server", "rooms", "writer done", "writer wait", "sync done", "sync wait", "db"}

TypeOK ==
  /\ main \in Boot \cup {"serve"} \cup Shutdown \cup {"exit"}
  /\ {timedOut, dbOpen, batch, linked} \subseteq BOOLEAN
  /\ writer \in {"none", "spawned", "select", "write", "flush", "exit"}
  /\ queue \in 0..QueueCap
  /\ sync \in {"none", "spawned", "select", "handle", "send", "stuck", "lost", "exit"}
  /\ conn \in [Conn -> {"none", "request", "open", "queueing", "closed"}]
  /\ late \in SUBSET {"writer", "request", "connection"}
  /\ overtaken \in SUBSET {"writer", "sync"}
  /\ sends \in 0..MaxSends /\ events \in 0..MaxEvents
  /\ panic \in {"none", "nil", "send"}

Init ==
  /\ main = "writer" /\ timedOut = FALSE /\ dbOpen = TRUE
  /\ writer = "none" /\ queue = 0 /\ batch = FALSE
  /\ sync = "none" /\ linked = FALSE /\ events = 0
  /\ conn = [c \in Conn |-> "none"] /\ sends = 0
  /\ late = {} /\ overtaken = {} /\ panic = "none"

UsesDb(who) == late' = IF dbOpen THEN late ELSE late \cup {who}

-----------------------------------------------------------------------------
(* main *)
MainGoto(from, to) == main = from /\ main' = to

StartWriter ==
  /\ MainGoto("writer", "sync") /\ writer' = "spawned"
  /\ UNCHANGED <<timedOut, dbOpen, overtaken, queue, batch, syncVars, connVars, late, panic>>

StartSync ==
  /\ MainGoto("sync", "link") /\ sync' = "spawned"
  /\ UNCHANGED <<timedOut, dbOpen, overtaken, writerVars, linked, events, connVars, late, panic>>

LinkLost == UNCHANGED linked                                              \* mutant
Link == linked' = TRUE

SetRoomManager ==
  /\ MainGoto("link", "setup") /\ Link
  /\ UNCHANGED <<timedOut, dbOpen, overtaken, writerVars, sync, events, connVars, late, panic>>

(* The rest of the setup, after which the server listens; or logger.Fatal, which *)
(* ends the process, as it does when the server cannot listen.                   *)
Serve ==
  /\ MainGoto("setup", "serve")
  /\ UNCHANGED <<timedOut, dbOpen, overtaken, writerVars, syncVars, connVars, late, panic>>

Fatal ==
  /\ MainGoto("setup", "exit") \/ MainGoto("serve", "exit")
  /\ UNCHANGED <<timedOut, dbOpen, overtaken, writerVars, syncVars, connVars, late, panic>>

Signal ==
  /\ MainGoto("serve", "server")
  /\ UNCHANGED <<timedOut, dbOpen, overtaken, writerVars, syncVars, connVars, late, panic>>

(* server.Shutdown waits for requests, not for websockets, and at most 30 seconds. *)
ShutdownServer ==
  /\ MainGoto("server", "rooms")
  /\ timedOut' = (\E c \in Conn : conn[c] = "request")
  /\ UNCHANGED <<dbOpen, overtaken, writerVars, syncVars, connVars, late, panic>>

(* The channels of the mapped rooms are closed, which panics who is blocked in a send. *)
StopRooms ==
  /\ MainGoto("rooms", "writer done")
  /\ panic' = IF sync = "stuck" THEN "send" ELSE panic
  /\ UNCHANGED <<timedOut, dbOpen, overtaken, writerVars, syncVars, connVars, late>>

StopWriter ==
  /\ MainGoto("writer done", "writer wait")
  /\ UNCHANGED <<timedOut, dbOpen, overtaken, writerVars, syncVars, connVars, late, panic>>

NotAwaited(at) == TRUE                                                    \* mutant
(* mw.wg and se.wg count one only after Start has run, and none once the loop ended. *)
NotCounted(at) == at \in {"spawned", "exit"}

Overtakes(who, at) == overtaken' = IF at = "spawned" THEN overtaken \cup {who} ELSE overtaken

WaitWriter ==
  /\ MainGoto("writer wait", "sync done") /\ NotCounted(writer) /\ Overtakes("writer", writer)
  /\ UNCHANGED <<timedOut, dbOpen, writerVars, syncVars, connVars, late, panic>>

StopSync ==
  /\ MainGoto("sync done", "sync wait")
  /\ UNCHANGED <<timedOut, dbOpen, overtaken, writerVars, syncVars, connVars, late, panic>>

WaitSync ==
  /\ MainGoto("sync wait", "db") /\ NotCounted(sync) /\ Overtakes("sync", sync)
  /\ UNCHANGED <<timedOut, dbOpen, writerVars, syncVars, connVars, late, panic>>

CloseDb ==
  /\ main = "db" /\ dbOpen /\ dbOpen' = FALSE
  /\ UNCHANGED <<main, timedOut, overtaken, writerVars, syncVars, connVars, late, panic>>

(* Closing the cache and the telemetry takes a while; then main returns. *)
Exit ==
  /\ ~dbOpen /\ MainGoto("db", "exit")
  /\ UNCHANGED <<timedOut, dbOpen, overtaken, writerVars, syncVars, connVars, late, panic>>

-----------------------------------------------------------------------------
(* MessageWriter.  mw.done is closed from "writer wait" on. *)
WriterDone == main \in {"writer wait", "sync done", "sync wait", "db"}

WriterStarts ==
  /\ writer = "spawned" /\ writer' = "select"
  /\ UNCHANGED <<mainVars, queue, batch, syncVars, connVars, late, panic>>

Receive ==
  /\ writer = "select" /\ queue > 0 /\ queue' = queue - 1 /\ batch' = TRUE
  /\ writer' \in {"select", "write"}
  /\ UNCHANGED <<mainVars, syncVars, connVars, late, panic>>

FlushOnTick ==
  /\ writer = "select" /\ batch /\ writer' = "write"
  /\ UNCHANGED <<mainVars, queue, batch, syncVars, connVars, late, panic>>

FlushOnDone ==
  /\ writer = "select" /\ WriterDone
  /\ writer' = IF batch THEN "flush" ELSE "exit"
  /\ UNCHANGED <<mainVars, queue, batch, syncVars, connVars, late, panic>>

WriteBatch ==
  /\ writer \in {"write", "flush"} /\ batch' = FALSE /\ UsesDb("writer")
  /\ writer' = IF writer = "write" THEN "select" ELSE "exit"
  /\ UNCHANGED <<mainVars, queue, syncVars, connVars, panic>>

-----------------------------------------------------------------------------
(* SyncEngine.  se.done is closed from "sync wait" on. *)
IgnoresDone == FALSE                                                      \* mutant
SyncDone == main \in {"sync wait", "db"}

SyncStarts ==
  /\ sync = "spawned" /\ sync' = "select"
  /\ UNCHANGED <<mainVars, writerVars, linked, events, connVars, late, panic>>

TakeEvent ==
  /\ sync = "select" /\ events < MaxEvents /\ events' = events + 1 /\ sync' = "handle"
  /\ UNCHANGED <<mainVars, writerVars, linked, connVars, late, panic>>

(* BroadcastMessage locks the manager, nil or not, and looks for the room: *)
(* none is mapped before there was a connection.                           *)
Lookup ==
  /\ sync = "handle"
  /\ IF linked
     THEN /\ UNCHANGED panic
          /\ sync' = "select" \/ (sync' = "send" /\ \E c \in Conn : conn[c] \notin {"none", "request"})
     ELSE panic' = "nil" /\ UNCHANGED sync
  /\ UNCHANGED <<mainVars, writerVars, linked, events, connVars, late>>

(* The send to the room's channel: done; or the channel is full and the room's *)
(* goroutine hangs; or removeRoom or Stop has closed it since the lookup.        *)
Send ==
  /\ sync = "send"
  /\ \/ sync' \in {"select", "stuck"} /\ UNCHANGED panic
     \/ panic' = "send" /\ UNCHANGED sync
  /\ UNCHANGED <<mainVars, writerVars, linked, events, connVars, late>>

(* The manager evicts the room that hangs, and Stop will not close its channel; *)
(* or it removes the room, and closes it now.                                    *)
Forget ==
  /\ sync = "stuck"
  /\ \/ sync' = "lost" /\ UNCHANGED panic
     \/ panic' = "send" /\ UNCHANGED sync
  /\ UNCHANGED <<mainVars, writerVars, linked, events, connVars, late>>

SyncExits ==
  /\ sync = "select" /\ SyncDone /\ sync' = "exit"
  /\ UNCHANGED <<mainVars, writerVars, linked, events, connVars, late, panic>>

-----------------------------------------------------------------------------
(* Requests and connections. *)
ConnGoto(c, from, to) == conn[c] = from /\ conn' = [conn EXCEPT ![c] = to]

Accept(c) ==
  /\ main = "serve" /\ ConnGoto(c, "none", "request")
  /\ UNCHANGED <<mainVars, writerVars, syncVars, sends, late, panic>>

(* A handler asks the database and answers, or asks for membership and upgrades. *)
Answer(c) ==
  /\ ConnGoto(c, "request", "closed") \/ ConnGoto(c, "request", "open")
  /\ UsesDb("request")
  /\ UNCHANGED <<mainVars, writerVars, syncVars, sends, panic>>

(* Client.handleRead *)
MarkRead(c) ==
  /\ conn[c] = "open" /\ UsesDb("connection")
  /\ UNCHANGED <<mainVars, writerVars, syncVars, connVars, panic>>

SendChat(c) ==
  /\ sends < MaxSends /\ sends' = sends + 1 /\ ConnGoto(c, "open", "queueing")
  /\ UNCHANGED <<mainVars, writerVars, syncVars, late, panic>>

MissesDone == FALSE                                                       \* mutant
Refused == WriterDone

QueueMessage(c) ==
  /\ ConnGoto(c, "queueing", "open")
  /\ \/ queue < QueueCap /\ queue' = queue + 1
     \/ Refused /\ UNCHANGED queue
  /\ UNCHANGED <<mainVars, writer, batch, syncVars, sends, late, panic>>

(* The peer goes away.  Nothing here closes a connection. *)
Close(c) ==
  /\ ConnGoto(c, "open", "closed")
  /\ UNCHANGED <<mainVars, writerVars, syncVars, sends, late, panic>>

-----------------------------------------------------------------------------
GracefulShutdown == \/ ShutdownServer \/ StopRooms \/ StopWriter \/ WaitWriter
                    \/ StopSync \/ WaitSync \/ CloseDb \/ Exit
Main == \/ StartWriter \/ StartSync \/ SetRoomManager \/ Serve \/ Fatal \/ Signal
        \/ GracefulShutdown
BatchWriter == WriterStarts \/ Receive \/ FlushOnTick \/ FlushOnDone \/ WriteBatch
SyncLoop == SyncStarts \/ TakeEvent \/ Lookup \/ Send \/ Forget \/ SyncExits
Connection(c) == Accept(c) \/ Answer(c) \/ MarkRead(c) \/ SendChat(c) \/ QueueMessage(c) \/ Close(c)

Next ==
  /\ main # "exit" /\ panic = "none"
  /\ Main \/ BatchWriter \/ SyncLoop \/ \E c \in Conn : Connection(c)

Spec == Init /\ [][Next]_vars

(* gracefulShutdown and the goroutines go on when they can; a select whose done is *)
(* closed sees it sooner or later.  Signals, peers and Redis owe nothing.          *)
Alive == main # "exit" /\ panic = "none"
Fairness ==
  /\ WF_vars(Alive /\ GracefulShutdown)
  /\ WF_vars(Alive /\ (WriterStarts \/ Receive \/ FlushOnTick \/ WriteBatch))
  /\ SF_vars(Alive /\ FlushOnDone)
  /\ WF_vars(Alive /\ (SyncStarts \/ Lookup \/ Send)) /\ SF_vars(Alive /\ SyncExits)
  /\ \A c \in Conn : SF_vars(Alive /\ QueueMessage(c))

FairSpec == Spec /\ Fairness

-----------------------------------------------------------------------------
(* Once messageWriter.Stop has returned, the writer's goroutine has ended and   *)
(* its batch is written, unless Stop overtook Start (writer.go:51-60, 87-92).   *)
WriterIsDown == (main \in {"sync done", "sync wait", "db"} /\ "writer" \notin overtaken) =>
  writer = "exit" /\ ~batch

(* The services are down before what they use: after the database is closed     *)
(* only connections that survived the server ask for it, or requests it gave up *)
(* on, or a writer that started late (main.go:144-168).                         *)
ClosedDbIsQuiet ==
  /\ "writer" \in late => "writer" \in overtaken
  /\ "request" \in late => timedOut

(* An event that comes before the sync engine has its room manager kills the    *)
(* process, and that can happen only between the two lines of main, before      *)
(* anybody was served (main.go:62-70).                                          *)
NilManagerOnlyAtBoot == panic = "nil" => main = "link" /\ \A c \in Conn : conn[c] = "none"

(* Why: each stage of main leaves behind what it did.                           *)
Staged ==
  /\ main \in {"writer"} => writer = "none"
  /\ main \in {"writer", "sync"} => sync = "none"
  /\ ~linked => main \in {"writer", "sync", "link"}
  /\ main \in Boot \cup {"serve", "server", "rooms", "writer done"} => overtaken = {}
  /\ main \in Boot => \A c \in Conn : conn[c] = "none"
  /\ ~dbOpen => main \in {"db", "exit"}
  /\ main \in Boot \cup {"serve", "server"} => ~timedOut
  /\ main \notin Boot \cup {"serve", "server", "exit"} =>
       (timedOut \/ \A c \in Conn : conn[c] # "request")
  /\ batch => writer \in {"select", "write", "flush"}

Stages == TypeOK /\ Staged /\ WriterIsDown /\ ClosedDbIsQuiet

(* And once syncEngine.Stop has returned, no event is under way to a room any   *)
(* more, unless Stop overtook Start (sync.go:42-74, main.go:158-168).           *)
SyncIsDown == main = "db" /\ "sync" \notin overtaken => sync = "exit"

IInv == Stages /\ SyncIsDown

-----------------------------------------------------------------------------
(* gracefulShutdown comes to its end unless the process panics on the way or    *)
(* syncLoop hangs in a send to a room that hangs (main.go:137-187).             *)
ShutdownEnds == main = "server" ~> (main = "exit" \/ panic # "none" \/ sync \in {"stuck", "lost"})

(* No connection is left in QueueMessage, however full the queue is when the    *)
(* writer goes down (writer.go:63-68).                                          *)
QueueingEnds == \A c \in Conn : conn[c] = "queueing" ~> (conn[c] # "queueing" \/ ~Alive)

=============================================================================
