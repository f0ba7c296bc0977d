------------------------------- MODULE Writer -------------------------------
(***************************************************************************)
(* MessageWriter (internal/persistence/writer.go): connections queue chat  *)
(* messages, one goroutine collects them into batches, stores each batch   *)
(* in PostgreSQL and announces it on Redis.                                *)
(*                                                                         *)
(* CreateMessage runs on the pool and not on the transaction writeBatch    *)
(* began (writer.go:130, queries.go:180), so every INSERT commits by       *)
(* itself: Rollback and Commit end a transaction that did nothing.         *)
(*                                                                         *)
(* A fault is an error a call to PostgreSQL or Redis returns, or the death *)
(* of the process, after which another process starts with empty memory.   *)
(***************************************************************************)
EXTENDS Naturals, Sequences, FiniteSets

CONSTANTS
  Msg,         \* chat messages; each is queued once, by the connection it arrived on
  Poison,      \* the messages the table's CHECK on message_type refuses
  BatchSize,   \* mw.batchSize, 50 in the code
  QueueCap,    \* cap(mw.messageQueue), 1000 in the code
  MaxRetries,  \* maxRetries, 5 in the code
  MaxFaults    \* bound: faults in a behaviour

ASSUME WriterAssumption ==
  /\ Poison \subseteq Msg
  /\ BatchSize \in Nat \ {0}
  /\ QueueCap \in Nat \ {0}
  /\ MaxRetries \in Nat \ {0}
  /\ MaxFaults \in Nat

VARIABLES
  status,    \* per message: "unsent", "calling" QueueMessage, "accepted" by it or "refused"
  queue,     \* mw.messageQueue
  stop,      \* "no", "waiting" once Stop closed mw.done, "returned" after mw.wg.Wait()
  pc,        \* where batchWriter is
  batch,     \* its batch; while it announces, what is left to announce
  final,     \* whether the batch being written is the last one, flushed on done
  attempt,   \* writeBatch's i
  inserted,  \* how many messages at the head of batch this attempt has stored
  id,        \* msg.ID per message, 0 before the first INSERT
  rows,      \* the messages table: the id of a row is its position
  feed,      \* what was published on messages_delivered
  faults     \* faults so far

senderVars == <<status, stop>>
memVars    == <<pc, batch, final, attempt, inserted, id>>
vars       == <<senderVars, queue, memVars, rows, feed, faults>>

TypeOK ==
  /\ status \in [Msg -> {"unsent", "calling", "accepted", "refused"}]
  /\ queue \in Seq(Msg) /\ Len(queue) <= QueueCap
  /\ stop \in {"no", "waiting", "returned"}
  /\ pc \in {"select", "begin", "insert", "commit", "publish", "backoff", "exit"}
  /\ batch \in Seq(Msg) /\ Len(batch) <= BatchSize
  /\ final \in BOOLEAN
  /\ attempt \in 0..(MaxRetries - 1)
  /\ inserted \in 0..Len(batch)
  /\ id \in [Msg -> Nat]
  /\ rows \in Seq(Msg)
  /\ feed \in Seq([msg : Msg, id : Nat])
  /\ faults \in 0..MaxFaults

Init ==
  /\ status = [m \in Msg |-> "unsent"]
  /\ queue = <<>> /\ stop = "no"
  /\ pc = "select" /\ batch = <<>> /\ final = FALSE /\ attempt = 0 /\ inserted = 0
  /\ id = [m \in Msg |-> 0]
  /\ rows = <<>> /\ feed = <<>> /\ faults = 0

-----------------------------------------------------------------------------
(* QueueMessage, called by the goroutine of a connection. *)

Call(m) ==
  /\ status[m] = "unsent"
  /\ status' = [status EXCEPT ![m] = "calling"]
  /\ UNCHANGED <<stop, queue, memVars, rows, feed, faults>>

IgnoresDone(m) == FALSE /\ UNCHANGED status                              \* mutant
Refuse(m) == stop # "no" /\ status' = [status EXCEPT ![m] = "refused"]

(* Its select takes the queue while that has room, or done once it is closed. *)
QueueMessage(m) ==
  /\ status[m] = "calling"
  /\ \/ /\ Len(queue) < QueueCap
        /\ queue' = Append(queue, m)
        /\ status' = [status EXCEPT ![m] = "accepted"]
     \/ Refuse(m) /\ UNCHANGED queue
  /\ UNCHANGED <<stop, memVars, rows, feed, faults>>

(* Stop closes done and waits for the goroutine. *)
Stop ==
  /\ stop = "no" /\ stop' = "waiting"
  /\ UNCHANGED <<status, queue, memVars, rows, feed, faults>>

StopReturns ==
  /\ stop = "waiting" /\ pc = "exit" /\ stop' = "returned"
  /\ UNCHANGED <<status, queue, memVars, rows, feed, faults>>

-----------------------------------------------------------------------------
(* batchWriter: its select takes any case that is ready. *)

Fault == faults < MaxFaults /\ faults' = faults + 1

Receive ==
  /\ pc = "select" /\ queue # <<>>
  /\ batch' = Append(batch, Head(queue))
  /\ queue' = Tail(queue)
  /\ pc' = IF Len(batch) + 1 >= BatchSize THEN "begin" ELSE "select"
  /\ UNCHANGED <<senderVars, final, attempt, inserted, id, rows, feed, faults>>

NeverDue == FALSE                                                         \* mutant
FlushDue == batch # <<>>

FlushOnTick ==
  /\ pc = "select" /\ FlushDue /\ pc' = "begin"
  /\ UNCHANGED <<senderVars, queue, batch, final, attempt, inserted, id, rows, feed, faults>>

(* On done the batch is flushed, whatever the queue holds. *)
FlushOnDone ==
  /\ pc = "select" /\ stop # "no"
  /\ IF batch = <<>>
     THEN pc' = "exit" /\ UNCHANGED final
     ELSE pc' = "begin" /\ final' = TRUE
  /\ UNCHANGED <<senderVars, queue, batch, attempt, inserted, id, rows, feed, faults>>

-----------------------------------------------------------------------------
(* writeBatch *)

Begin ==
  /\ pc = "begin"
  /\ \/ pc' = "insert" /\ UNCHANGED faults
     \/ pc' = "backoff" /\ Fault
  /\ UNCHANGED <<senderVars, queue, batch, final, attempt, inserted, id, rows, feed>>

KeepsCount == UNCHANGED inserted                                          \* mutant
(* Rollback undoes none of the rows; the next attempt begins with the first message. *)
Rollback == inserted' = 0

ReusesId(m) == UNCHANGED id                                               \* mutant
ReturnsId(m) == id' = [id EXCEPT ![m] = Len(rows) + 1]

(* CreateMessage for the next message: it is stored, or refused, or the call fails, *)
(* perhaps after PostgreSQL stored the row.                                         *)
CreateMessage ==
  LET m == batch[inserted + 1] IN
  /\ pc = "insert"
  /\ \/ /\ m \notin Poison
        /\ rows' = Append(rows, m)
        /\ ReturnsId(m)
        /\ inserted' = inserted + 1
        /\ pc' = IF inserted + 1 = Len(batch) THEN "commit" ELSE "insert"
        /\ UNCHANGED faults
     \/ /\ IF m \in Poison THEN UNCHANGED <<rows, faults>>
           ELSE Fault /\ rows' \in {rows, Append(rows, m)}
        /\ Rollback
        /\ pc' = "backoff"
        /\ UNCHANGED id
  /\ UNCHANGED <<senderVars, queue, batch, final, attempt, feed>>

Commit ==
  /\ pc = "commit"
  /\ \/ pc' = "publish" /\ UNCHANGED <<inserted, faults>>
     \/ pc' = "backoff" /\ Rollback /\ Fault
  /\ UNCHANGED <<senderVars, queue, batch, final, attempt, id, rows, feed>>

(* Where batchWriter goes once writeBatch returns. *)
Return ==
  /\ attempt' = 0
  /\ pc' = IF final THEN "exit" ELSE "select"

KeepsBatch == UNCHANGED batch                                             \* mutant
EmptyBatch == batch' = <<>>

(* Announces the next message.  An error of Redis is ignored. *)
Publish ==
  LET m == Head(batch) IN
  /\ pc = "publish"
  /\ \/ feed' = Append(feed, [msg |-> m, id |-> id[m]]) /\ UNCHANGED faults
     \/ Fault /\ UNCHANGED feed
  /\ inserted' = inserted - 1
  /\ \/ Len(batch) > 1 /\ batch' = Tail(batch) /\ UNCHANGED <<pc, attempt>>
     \/ Len(batch) = 1 /\ EmptyBatch /\ Return
  /\ UNCHANGED <<senderVars, queue, final, id, rows>>

RetriesOnceMore == attempt <= MaxRetries - 1                              \* mutant
MayRetry == attempt + 1 < MaxRetries

SameAttempt == UNCHANGED attempt                                          \* mutant
NextAttempt == attempt' = attempt + 1

(* The sleep between two attempts is over: the next one, or none is left. *)
Retry ==
  /\ pc = "backoff" /\ MayRetry
  /\ NextAttempt /\ pc' = "begin"
  /\ UNCHANGED <<senderVars, queue, batch, final, inserted, id, rows, feed, faults>>

GiveUp ==
  /\ pc = "backoff" /\ ~MayRetry
  /\ EmptyBatch /\ Return
  /\ UNCHANGED <<senderVars, queue, final, inserted, id, rows, feed, faults>>

-----------------------------------------------------------------------------
(* The process dies and another one starts.  A call that had not returned is lost. *)
Crash ==
  /\ Fault
  /\ status' = [m \in Msg |-> IF status[m] = "calling" THEN "refused" ELSE status[m]]
  /\ stop' = "no" /\ queue' = <<>>
  /\ pc' = "select" /\ batch' = <<>> /\ final' = FALSE /\ attempt' = 0 /\ inserted' = 0
  /\ UNCHANGED <<id, rows, feed>>

BatchWriter == \/ Receive \/ FlushOnTick \/ FlushOnDone
               \/ Begin \/ CreateMessage \/ Commit \/ Publish \/ Retry \/ GiveUp

Next == \/ \E m \in Msg : Call(m) \/ QueueMessage(m)
        \/ Stop \/ StopReturns \/ BatchWriter \/ Crash

Spec == Init /\ [][Next]_vars

(* A goroutine that can step does: nothing it waits for comes and goes.  Nobody owes *)
(* a call, a stop or a crash.                                                        *)
Fairness ==
  /\ WF_vars(BatchWriter) /\ WF_vars(StopReturns)
  /\ \A m \in Msg : WF_vars(QueueMessage(m))

FairSpec == Spec /\ Fairness

-----------------------------------------------------------------------------
(* Safety *)

Occurrences(m, s) == Cardinality({i \in DOMAIN s : s[i] = m})
Known == {m \in Msg : status[m] = "accepted"}
Inbox == batch \o queue
Announced == [i \in 1..Len(feed) |-> feed[i].msg]

(* An announcement names the row that holds its message, and rows are announced  *)
(* in the order they were stored, whatever was retried in between                *)
(* (writer.go:130, 151-166; queries.go:184).                                     *)
FeedFaithful ==
  /\ \A i \in 1..Len(feed) : feed[i].id \in 1..Len(rows) /\ rows[feed[i].id] = feed[i].msg
  /\ \A i, j \in 1..Len(feed) : i < j => feed[i].id < feed[j].id

(* Retries store a message again: at most maxRetries rows of it                  *)
(* (writer.go:120, 130).                                                         *)
CopiesBounded == \A m \in Msg : Occurrences(m, rows) <= MaxRetries

(* The writer does what MessageLog promises: at most one announcement for a      *)
(* message, in the order of acceptance, through retries, losses and crashes.     *)
Log == INSTANCE MessageLog WITH known <- Known, inbox <- Inbox, feed <- Announced
ImplementsLog == Log!Spec

(* Why: a message is in one place; what this attempt stored has fresh ids, in    *)
(* order, above all that were announced.                                         *)
Distinct ==
  /\ \A i \in 1..Len(Inbox) : status[Inbox[i]] = "accepted"
  /\ \A i, j \in 1..Len(Inbox) : Inbox[i] = Inbox[j] => i = j

Stored ==
  /\ \A i \in 1..inserted : id[batch[i]] \in 1..Len(rows) /\ rows[id[batch[i]]] = batch[i]
  /\ \A i, j \in 1..inserted : i < j => id[batch[i]] < id[batch[j]]
  /\ \A i \in 1..inserted : \A j \in 1..Len(feed) : feed[j].id < id[batch[i]]

Placed ==
  /\ pc \in {"begin", "insert", "commit", "publish", "backoff"} => batch # <<>>
  /\ pc \in {"select", "begin", "backoff", "exit"} => inserted = 0
  /\ pc = "insert" => inserted < Len(batch)
  /\ pc = "commit" \/ pc = "publish" => inserted = Len(batch)
  /\ pc = "select" => Len(batch) < BatchSize /\ attempt = 0

(* The rows of a message count the attempts made for it: none until its batch is *)
(* written, one more in the attempt that has passed it or failed.                *)
Passed(i) == IF i <= inserted \/ pc = "backoff" THEN 1 ELSE 0

Copied ==
  /\ \A m \in Msg : status[m] # "accepted" => Occurrences(m, rows) = 0
  /\ \A i \in 1..Len(queue) : Occurrences(queue[i], rows) = 0
  /\ \A i \in 1..Len(batch) : Occurrences(batch[i], rows) <= attempt + Passed(i)

(* Unless a call failed, the process died or the table refused a message, what    *)
(* was accepted has been announced or is in the queue or the batch still, and it  *)
(* has one row at most, whatever the interleaving of senders, ticks and Stop      *)
(* (writer.go:62-111, 150).  What Stop leaves in the queue stays there.           *)
Undisturbed == faults = 0 /\ Poison \cap Known = {}

NothingLost == Undisturbed =>
  /\ \A m \in Known : \/ \E i \in 1..Len(Inbox) : Inbox[i] = m
                      \/ \E i \in 1..Len(feed) : feed[i].msg = m
  /\ \A m \in Msg : Occurrences(m, rows) <= 1

(* Why: it is stored at the first attempt. *)
Smooth == Undisturbed => pc # "backoff" /\ attempt = 0

(* Stop returns to a writer that has exited, and it exits with its batch written  *)
(* and announced or given up, not in the middle of it (writer.go:57-60, 87-93).   *)
Down == /\ stop = "returned" => pc = "exit"
        /\ pc = "exit" => stop # "no" /\ batch = <<>>
        /\ final => stop # "no"

IInv == /\ TypeOK /\ Placed /\ Distinct /\ Stored /\ FeedFaithful /\ Copied /\ CopiesBounded
        /\ Smooth /\ NothingLost /\ Down

(* From the return of Stop on the table and the channel stay as they are, until   *)
(* the process starts again: what gracefulShutdown tears down next is not used by *)
(* this writer any more (writer.go:57-60, main.go:153-168).                       *)
StoppedIsQuiet == [][(stop = "returned" /\ stop' = "returned") => UNCHANGED <<rows, feed, batch>>]_vars

-----------------------------------------------------------------------------
(* Liveness *)

(* A connection is never stuck in QueueMessage for good (writer.go:63-68).       *)
CallsReturn == \A m \in Msg : status[m] = "calling" ~> status[m] # "calling"

(* Until the writer exits, an accepted message is announced or given up,         *)
(* however many calls fail (writer.go:76-111, 120, 171).                         *)
MessagesSettle == \A m \in Msg :
  Occurrences(m, Inbox) > 0 ~> (Occurrences(m, Inbox) = 0 \/ pc = "exit")

(* Stop returns (writer.go:57-60).                                               *)
StopEnds == stop = "waiting" ~> stop # "waiting"

-----------------------------------------------------------------------------
(* writer.go:134 says that the entire batch is rolled back if any message       *)
(* fails.  What was inserted before the failure stays.                          *)
BatchRolledBack == pc = "backoff" =>
  \A i \in DOMAIN batch : Occurrences(batch[i], rows) = 0

=============================================================================
