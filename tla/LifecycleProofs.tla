--------------------------- MODULE LifecycleProofs ---------------------------
(***************************************************************************)
(* What holds of start and shutdown for every number of connections, every *)
(* queue and every bound.                                                  *)
(***************************************************************************)
EXTENDS Lifecycle, TLAPS

(* The proof: the stages of main, and which goroutines a stage leaves running. *)
LEMMA InitStages == Init => Stages
<1> SUFFICES ASSUME Init PROVE Stages
  OBVIOUS
<1>1. queue \in 0..QueueCap /\ sends \in 0..MaxSends /\ events \in 0..MaxEvents
  BY LifecycleAssumption DEF LifecycleAssumption, Init
<1>2. TypeOK
  BY <1>1 DEF Init, TypeOK, Boot
<1>3. Staged /\ WriterIsDown /\ ClosedDbIsQuiet
  BY DEF Init, Staged, WriterIsDown, ClosedDbIsQuiet, Boot
<1> QED BY <1>2, <1>3 DEF Stages

LEMMA MainStep ==
  ASSUME Stages, main # "exit", Main
  PROVE  Stages'
<1> USE LifecycleAssumption DEF LifecycleAssumption, Boot, Shutdown, mainVars, writerVars, syncVars, connVars, MainGoto
<1>1. CASE StartWriter
  BY <1>1 DEF Stages, StartWriter, TypeOK, Staged, WriterIsDown, ClosedDbIsQuiet
<1>2. CASE StartSync
  BY <1>2 DEF Stages, StartSync, TypeOK, Staged, WriterIsDown, ClosedDbIsQuiet
<1>3. CASE SetRoomManager
  BY <1>3 DEF Stages, SetRoomManager, Link, TypeOK, Staged, WriterIsDown, ClosedDbIsQuiet
<1>4. CASE Serve
  BY <1>4 DEF Stages, Serve, TypeOK, Staged, WriterIsDown, ClosedDbIsQuiet
<1>5. CASE Fatal
  BY ZenonT(40), <1>5 DEF Stages, Fatal, TypeOK, Staged, WriterIsDown, ClosedDbIsQuiet
<1>6. CASE Signal
  BY <1>6 DEF Stages, Signal, TypeOK, Staged, WriterIsDown, ClosedDbIsQuiet
<1>7. CASE ShutdownServer
  BY <1>7 DEF Stages, ShutdownServer, TypeOK, Staged, WriterIsDown, ClosedDbIsQuiet
<1>8. CASE StopRooms
  BY <1>8 DEF Stages, StopRooms, TypeOK, Staged, WriterIsDown, ClosedDbIsQuiet
<1>9. CASE StopWriter
  BY ZenonT(40), <1>9 DEF Stages, StopWriter, TypeOK, Staged, WriterIsDown, ClosedDbIsQuiet
<1>10. CASE WaitWriter
  BY ZenonT(40), <1>10 DEF Stages, WaitWriter, NotCounted, Overtakes, TypeOK, Staged, WriterIsDown, ClosedDbIsQuiet
<1>11. CASE StopSync
  BY ZenonT(40), <1>11 DEF Stages, StopSync, TypeOK, Staged, WriterIsDown, ClosedDbIsQuiet
<1>12. CASE WaitSync
  BY <1>12 DEF Stages, WaitSync, NotCounted, Overtakes, TypeOK, Staged, WriterIsDown, ClosedDbIsQuiet
<1>13. CASE CloseDb
  BY ZenonT(40), <1>13 DEF Stages, CloseDb, TypeOK, Staged, WriterIsDown, ClosedDbIsQuiet
<1>14. CASE Exit
  BY <1>14 DEF Stages, Exit, TypeOK, Staged, WriterIsDown, ClosedDbIsQuiet
<1> QED BY <1>1, <1>2, <1>3, <1>4, <1>5, <1>6, <1>7, <1>8, <1>9, <1>10, <1>11, <1>12, <1>13, <1>14
        DEF Main, GracefulShutdown

LEMMA WriterStep ==
  ASSUME Stages, main # "exit", BatchWriter
  PROVE  Stages'
<1> USE LifecycleAssumption DEF LifecycleAssumption, Boot, Shutdown, mainVars, writerVars, syncVars, connVars
<1>1. CASE WriterStarts
  <2>1. TypeOK'
    BY <1>1 DEF Stages, WriterStarts, TypeOK
  <2>2. Staged'
    BY <1>1 DEF Stages, WriterStarts, TypeOK, Staged
  <2>3. WriterIsDown'
    BY <1>1 DEF Stages, WriterStarts, TypeOK, Staged, WriterIsDown
  <2>4. ClosedDbIsQuiet'
    BY <1>1 DEF Stages, WriterStarts, TypeOK, Staged, WriterIsDown, ClosedDbIsQuiet
  <2> QED BY <2>1, <2>2, <2>3, <2>4 DEF Stages
<1>2. CASE Receive
  <2>1. TypeOK'
    <3>1. queue \in 0..QueueCap /\ queue > 0 /\ queue' = queue - 1
      BY <1>2 DEF Stages, Receive, TypeOK
    <3>2. queue' \in 0..QueueCap
      BY <3>1
    <3> QED BY <1>2, <3>2 DEF Stages, Receive, TypeOK
  <2>2. Staged'
    BY <1>2 DEF Stages, Receive, TypeOK, Staged
  <2>3. WriterIsDown'
    BY <1>2 DEF Stages, Receive, TypeOK, Staged, WriterIsDown
  <2>4. ClosedDbIsQuiet'
    BY <1>2 DEF Stages, Receive, TypeOK, Staged, WriterIsDown, ClosedDbIsQuiet
  <2> QED BY <2>1, <2>2, <2>3, <2>4 DEF Stages
<1>3. CASE FlushOnTick
  BY ZenonT(40), <1>3 DEF Stages, FlushOnTick, TypeOK, Staged, WriterIsDown, ClosedDbIsQuiet
<1>4. CASE FlushOnDone
  <2>1. TypeOK'
    BY <1>4 DEF Stages, FlushOnDone, WriterDone, TypeOK
  <2>2. Staged'
    BY <1>4 DEF Stages, FlushOnDone, WriterDone, TypeOK, Staged
  <2>3. WriterIsDown'
    BY <1>4 DEF Stages, FlushOnDone, WriterDone, TypeOK, Staged, WriterIsDown
  <2>4. ClosedDbIsQuiet'
    BY <1>4 DEF Stages, FlushOnDone, WriterDone, TypeOK, Staged, WriterIsDown, ClosedDbIsQuiet
  <2> QED BY <2>1, <2>2, <2>3, <2>4 DEF Stages
<1>5. CASE WriteBatch
  <2>1. TypeOK'
    BY <1>5 DEF Stages, WriteBatch, UsesDb, TypeOK
  <2>2. Staged'
    BY <1>5 DEF Stages, WriteBatch, UsesDb, TypeOK, Staged
  <2>3. WriterIsDown'
    BY <1>5 DEF Stages, WriteBatch, UsesDb, TypeOK, Staged, WriterIsDown
  <2>4. ClosedDbIsQuiet'
    BY <1>5 DEF Stages, WriteBatch, UsesDb, TypeOK, Staged, WriterIsDown, ClosedDbIsQuiet
  <2> QED BY <2>1, <2>2, <2>3, <2>4 DEF Stages
<1> QED BY <1>1, <1>2, <1>3, <1>4, <1>5 DEF BatchWriter

LEMMA SyncStep ==
  ASSUME Stages, main # "exit", SyncLoop
  PROVE  Stages'
<1> USE LifecycleAssumption DEF LifecycleAssumption, Boot, Shutdown, mainVars, writerVars, syncVars, connVars
<1>1. CASE SyncStarts
  BY ZenonT(40), <1>1 DEF Stages, SyncStarts, TypeOK, Staged, WriterIsDown, ClosedDbIsQuiet
<1>2. CASE TakeEvent
  <2>1. TypeOK'
    <3>1. events \in 0..MaxEvents /\ events < MaxEvents /\ events' = events + 1
      BY <1>2 DEF Stages, TakeEvent, TypeOK
    <3>2. events' \in 0..MaxEvents
      BY <3>1
    <3> QED BY <1>2, <3>2 DEF Stages, TakeEvent, TypeOK
  <2>2. Staged'
    BY <1>2 DEF Stages, TakeEvent, TypeOK, Staged
  <2>3. WriterIsDown'
    BY <1>2 DEF Stages, TakeEvent, TypeOK, Staged, WriterIsDown
  <2>4. ClosedDbIsQuiet'
    BY <1>2 DEF Stages, TakeEvent, TypeOK, Staged, WriterIsDown, ClosedDbIsQuiet
  <2> QED BY <2>1, <2>2, <2>3, <2>4 DEF Stages
<1>3. CASE Lookup
  <2>1. TypeOK'
    BY <1>3 DEF Stages, Lookup, TypeOK
  <2>2. Staged'
    BY <1>3 DEF Stages, Lookup, TypeOK, Staged
  <2>3. WriterIsDown'
    BY <1>3 DEF Stages, Lookup, TypeOK, Staged, WriterIsDown
  <2>4. ClosedDbIsQuiet'
    BY <1>3 DEF Stages, Lookup, TypeOK, Staged, WriterIsDown, ClosedDbIsQuiet
  <2> QED BY <2>1, <2>2, <2>3, <2>4 DEF Stages
<1>4. CASE Send
  <2>1. TypeOK'
    BY <1>4 DEF Stages, Send, TypeOK
  <2>2. Staged'
    BY <1>4 DEF Stages, Send, TypeOK, Staged
  <2>3. WriterIsDown'
    BY <1>4 DEF Stages, Send, TypeOK, Staged, WriterIsDown
  <2>4. ClosedDbIsQuiet'
    BY <1>4 DEF Stages, Send, TypeOK, Staged, WriterIsDown, ClosedDbIsQuiet
  <2> QED BY <2>1, <2>2, <2>3, <2>4 DEF Stages
<1>5. CASE Forget
  BY ZenonT(40), <1>5 DEF Stages, Forget, TypeOK, Staged, WriterIsDown, ClosedDbIsQuiet
<1>6. CASE SyncExits
  <2>1. TypeOK'
    BY <1>6 DEF Stages, SyncExits, TypeOK
  <2>2. Staged'
    BY <1>6 DEF Stages, SyncExits, TypeOK, Staged
  <2>3. WriterIsDown'
    BY <1>6 DEF Stages, SyncExits, TypeOK, Staged, WriterIsDown
  <2>4. ClosedDbIsQuiet'
    BY <1>6 DEF Stages, SyncExits, TypeOK, Staged, WriterIsDown, ClosedDbIsQuiet
  <2> QED BY <2>1, <2>2, <2>3, <2>4 DEF Stages
<1> QED BY <1>1, <1>2, <1>3, <1>4, <1>5, <1>6 DEF SyncLoop

LEMMA ConnectionStep ==
  ASSUME Stages, main # "exit", NEW c \in Conn, Connection(c)
  PROVE  Stages'
<1> USE LifecycleAssumption DEF LifecycleAssumption, Boot, Shutdown, mainVars, writerVars, syncVars, connVars, ConnGoto
<1>1. CASE Accept(c)
  <2>1. TypeOK'
    BY <1>1 DEF Stages, Accept, TypeOK
  <2>2. Staged'
    BY <1>1 DEF Stages, Accept, TypeOK, Staged
  <2>3. WriterIsDown'
    BY <1>1 DEF Stages, Accept, TypeOK, Staged, WriterIsDown
  <2>4. ClosedDbIsQuiet'
    BY <1>1 DEF Stages, Accept, TypeOK, Staged, WriterIsDown, ClosedDbIsQuiet
  <2> QED BY <2>1, <2>2, <2>3, <2>4 DEF Stages
<1>2. CASE Answer(c)
  <2>1. TypeOK'
    BY ZenonT(40), <1>2 DEF Stages, Answer, UsesDb, TypeOK
  <2>2. Staged'
    BY <1>2 DEF Stages, Answer, UsesDb, TypeOK, Staged
  <2>3. WriterIsDown'
    BY <1>2 DEF Stages, Answer, UsesDb, TypeOK, Staged, WriterIsDown
  <2>4. ClosedDbIsQuiet'
    BY <1>2 DEF Stages, Answer, UsesDb, TypeOK, Staged, WriterIsDown, ClosedDbIsQuiet
  <2> QED BY <2>1, <2>2, <2>3, <2>4 DEF Stages
<1>3. CASE MarkRead(c)
  <2>1. TypeOK'
    BY ZenonT(40), <1>3 DEF Stages, MarkRead, UsesDb, TypeOK
  <2>2. Staged'
    BY <1>3 DEF Stages, MarkRead, UsesDb, TypeOK, Staged
  <2>3. WriterIsDown'
    BY <1>3 DEF Stages, MarkRead, UsesDb, TypeOK, Staged, WriterIsDown
  <2>4. ClosedDbIsQuiet'
    BY <1>3 DEF Stages, MarkRead, UsesDb, TypeOK, Staged, WriterIsDown, ClosedDbIsQuiet
  <2> QED BY <2>1, <2>2, <2>3, <2>4 DEF Stages
<1>4. CASE SendChat(c)
  <2>1. TypeOK'
    <3>1. sends \in 0..MaxSends /\ sends < MaxSends /\ sends' = sends + 1
      BY <1>4 DEF Stages, SendChat, TypeOK
    <3>2. sends' \in 0..MaxSends
      BY <3>1
    <3> QED BY ZenonT(40), <1>4, <3>2 DEF Stages, SendChat, TypeOK
  <2>2. Staged'
    BY <1>4 DEF Stages, SendChat, TypeOK, Staged
  <2>3. WriterIsDown'
    BY <1>4 DEF Stages, SendChat, TypeOK, Staged, WriterIsDown
  <2>4. ClosedDbIsQuiet'
    BY <1>4 DEF Stages, SendChat, TypeOK, Staged, WriterIsDown, ClosedDbIsQuiet
  <2> QED BY <2>1, <2>2, <2>3, <2>4 DEF Stages
<1>5. CASE QueueMessage(c)
  <2>1. TypeOK'
    <3>1. queue \in 0..QueueCap /\ (queue' = queue \/ (queue < QueueCap /\ queue' = queue + 1))
      BY <1>5 DEF Stages, QueueMessage, TypeOK
    <3>2. queue' \in 0..QueueCap
      BY <3>1
    <3> QED BY ZenonT(40), <1>5, <3>2 DEF Stages, QueueMessage, TypeOK
  <2>2. Staged'
    BY <1>5 DEF Stages, QueueMessage, TypeOK, Staged
  <2>3. WriterIsDown'
    BY <1>5 DEF Stages, QueueMessage, TypeOK, Staged, WriterIsDown
  <2>4. ClosedDbIsQuiet'
    BY <1>5 DEF Stages, QueueMessage, TypeOK, Staged, WriterIsDown, ClosedDbIsQuiet
  <2> QED BY <2>1, <2>2, <2>3, <2>4 DEF Stages
<1>6. CASE Close(c)
  <2>1. TypeOK'
    BY ZenonT(40), <1>6 DEF Stages, Close, TypeOK
  <2>2. Staged'
    BY <1>6 DEF Stages, Close, TypeOK, Staged
  <2>3. WriterIsDown'
    BY <1>6 DEF Stages, Close, TypeOK, Staged, WriterIsDown
  <2>4. ClosedDbIsQuiet'
    BY <1>6 DEF Stages, Close, TypeOK, Staged, WriterIsDown, ClosedDbIsQuiet
  <2> QED BY <2>1, <2>2, <2>3, <2>4 DEF Stages
<1> QED BY <1>1, <1>2, <1>3, <1>4, <1>5, <1>6 DEF Connection

LEMMA NextStages == Stages /\ [Next]_vars => Stages'
<1> SUFFICES ASSUME Stages, [Next]_vars PROVE Stages'
  OBVIOUS
<1>1. CASE Next
  BY <1>1, MainStep, WriterStep, SyncStep, ConnectionStep DEF Next
<1>2. CASE UNCHANGED vars
  <2> USE <1>2 DEF vars, mainVars, writerVars, syncVars, connVars
  <2>1. TypeOK'
    BY DEF Stages, TypeOK
  <2>2. Staged'
    BY DEF Stages, Staged
  <2>3. WriterIsDown' /\ ClosedDbIsQuiet'
    BY DEF Stages, WriterIsDown, ClosedDbIsQuiet
  <2> QED BY <2>1, <2>2, <2>3 DEF Stages
<1> QED BY <1>1, <1>2

(* The sync engine, once main has waited for it, stays where it ended. *)
LEMMA SyncDownStep == SyncIsDown /\ [Next]_vars => SyncIsDown'
<1> SUFFICES ASSUME SyncIsDown, [Next]_vars PROVE SyncIsDown'
  OBVIOUS
<1> USE DEF mainVars, writerVars, syncVars, connVars, SyncIsDown
<1>1. CASE WaitSync
  BY <1>1 DEF WaitSync, MainGoto, NotCounted, Overtakes
<1>2. ASSUME main' # "db" PROVE SyncIsDown'
  BY <1>2
<1>3. CASE CloseDb \/ UNCHANGED vars
  BY <1>3 DEF CloseDb, vars
<1>4. CASE Main /\ ~WaitSync /\ ~CloseDb
  <2>1. main' # "db"
    BY <1>4 DEF Main, GracefulShutdown, MainGoto, StartWriter, StartSync, SetRoomManager, Serve, Fatal, Signal,
                ShutdownServer, StopRooms, StopWriter, WaitWriter, StopSync, Exit
  <2> QED BY <1>2, <2>1
<1>5. CASE BatchWriter
  BY <1>5 DEF BatchWriter, WriterStarts, Receive, FlushOnTick, FlushOnDone, WriteBatch
<1>6. CASE SyncLoop
  BY <1>6 DEF SyncLoop, SyncStarts, TakeEvent, Lookup, Send, Forget, SyncExits
<1>7. CASE \E c \in Conn : Connection(c)
  BY <1>7 DEF Connection, Accept, Answer, MarkRead, SendChat, QueueMessage, Close
<1> QED BY <1>1, <1>3, <1>4, <1>5, <1>6, <1>7 DEF Next

LEMMA InitIInv == Init => IInv
BY InitStages DEF IInv, Init, SyncIsDown

LEMMA NextIInv == IInv /\ [Next]_vars => IInv'
BY NextStages, SyncDownStep DEF IInv

(* The state keeps its types and the stages of main leave behind what they did. *)
THEOREM Invariance == Spec => []IInv
  BY InitIInv, NextIInv, PTL DEF Spec

(* Once Stop has returned, the message writer is down with nothing in its hands, *)
(* unless Stop overtook Start (writer.go:51-60).                                 *)
THEOREM StopAwaitsTheWriter == Spec => []WriterIsDown
<1>1. IInv => WriterIsDown
  BY DEF IInv, Stages
<1> QED BY Invariance, <1>1, PTL

(* Once Stop has returned, syncLoop has ended, unless Stop overtook Start          *)
(* (sync.go:42-74).                                                              *)
THEOREM StopAwaitsTheEngine == Spec => []SyncIsDown
<1>1. IInv => SyncIsDown
  BY DEF IInv
<1> QED BY Invariance, <1>1, PTL

(* No service main has waited for uses the database after main closed it, and no *)
(* request does that the server did not give up on (main.go:144-168).            *)
THEOREM DatabaseClosesLast == Spec => []ClosedDbIsQuiet
<1>1. IInv => ClosedDbIsQuiet
  BY DEF IInv, Stages
<1> QED BY Invariance, <1>1, PTL

(* The panic through a nil room manager belongs to the moment between the two    *)
(* lines of main (main.go:62-70).                                                *)
THEOREM NilManagerIsShortLived == Spec => []NilManagerOnlyAtBoot
<1>1. Init => NilManagerOnlyAtBoot
  BY DEF Init, NilManagerOnlyAtBoot
<1>2. IInv /\ NilManagerOnlyAtBoot /\ [Next]_vars => NilManagerOnlyAtBoot'
  <2> SUFFICES ASSUME IInv, NilManagerOnlyAtBoot, [Next]_vars, panic' = "nil"
               PROVE  main' = "link" /\ \A c \in Conn : conn'[c] = "none"
    BY DEF NilManagerOnlyAtBoot
  <2>1. CASE UNCHANGED vars
    BY <2>1 DEF vars, mainVars, connVars, NilManagerOnlyAtBoot
  <2>2. CASE Next
    <3>1. panic = "none"
      BY <2>2 DEF Next
    <3>2. Lookup /\ ~linked
      <4>1. ~Main
        BY <3>1 DEF Main, GracefulShutdown, StartWriter, StartSync, SetRoomManager, Serve, Fatal, Signal,
                    ShutdownServer, StopRooms, StopWriter, WaitWriter, StopSync, WaitSync, CloseDb, Exit
      <4>2. ~BatchWriter
        BY <3>1 DEF BatchWriter, WriterStarts, Receive, FlushOnTick, FlushOnDone, WriteBatch
      <4>3. \A c \in Conn : ~Connection(c)
        BY <3>1 DEF Connection, Accept, Answer, MarkRead, SendChat, QueueMessage, Close
      <4>4. SyncLoop
        BY <2>2, <4>1, <4>2, <4>3 DEF Next
      <4>5. ~SyncStarts /\ ~TakeEvent /\ ~Send /\ ~Forget /\ ~SyncExits
        BY <3>1 DEF SyncStarts, TakeEvent, Send, Forget, SyncExits
      <4> QED BY <3>1, <4>4, <4>5 DEF SyncLoop, Lookup
    <3>3. main = "link" /\ \A c \in Conn : conn[c] = "none"
      <4>1. sync # "none" /\ main \in {"writer", "sync", "link"}
        BY <3>2 DEF Lookup, IInv, Stages, Staged
      <4>2. main = "link"
        BY <4>1 DEF IInv, Stages, Staged
      <4> QED BY <4>2 DEF IInv, Stages, Staged, Boot
    <3> QED BY <3>2, <3>3 DEF Lookup, mainVars, connVars
  <2> QED BY <2>1, <2>2
<1> QED BY <1>1, <1>2, Invariance, PTL DEF Spec

=============================================================================
