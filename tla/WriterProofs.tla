---------------------------- MODULE WriterProofs ----------------------------
(***************************************************************************)
(* For any messages, batch size, capacity and number of retries and        *)
(* faults: what the writer announces is faithful to the table, and the     *)
(* writer implements MessageLog.  Everything rests on Inbox, the batch     *)
(* followed by the queue: receiving a message leaves it alone, and every   *)
(* other operation appends to it or drops a prefix of it.                  *)
(***************************************************************************)
EXTENDS Writer, SequenceTheorems, FiniteSetTheorems, TLAPS

(* Moving the head of q to the end of b does not change their concatenation. *)
LEMMA MoveHead ==
  ASSUME NEW S, NEW b \in Seq(S), NEW q \in Seq(S), q # <<>>
  PROVE  Append(b, Head(q)) \o Tail(q) = b \o q
<1>1. /\ Append(b, Head(q)) \in Seq(S) /\ Len(Append(b, Head(q))) = Len(b) + 1
      /\ Tail(q) \in Seq(S) /\ Len(Tail(q)) = Len(q) - 1 /\ Len(q) \in Nat \ {0} /\ Len(b) \in Nat
  OBVIOUS
<1>2. /\ Append(b, Head(q)) \o Tail(q) \in Seq(S) /\ b \o q \in Seq(S)
      /\ Len(Append(b, Head(q)) \o Tail(q)) = Len(b) + Len(q) /\ Len(b \o q) = Len(b) + Len(q)
  BY <1>1
<1>3. ASSUME NEW i \in 1..(Len(b) + Len(q)) PROVE (Append(b, Head(q)) \o Tail(q))[i] = (b \o q)[i]
  <2>1. (b \o q)[i] = IF i <= Len(b) THEN b[i] ELSE q[i - Len(b)]
    BY ConcatProperties, <1>1
  <2>2. (Append(b, Head(q)) \o Tail(q))[i]
          = IF i <= Len(b) + 1 THEN Append(b, Head(q))[i] ELSE Tail(q)[i - (Len(b) + 1)]
    BY ConcatProperties, <1>1
  <2> QED
    BY <1>1, <2>1, <2>2
<1> QED
  BY <1>2, <1>3, SeqEqual

(* Appending to q appends to b \o q. *)
LEMMA AppendLast ==
  ASSUME NEW S, NEW b \in Seq(S), NEW q \in Seq(S), NEW m \in S
  PROVE  b \o Append(q, m) = Append(b \o q, m)
<1>1. <<m>> \in Seq(S) /\ Append(q, m) = q \o <<m>> /\ b \o q \in Seq(S)
  BY AppendIsConcat
<1>2. Append(b \o q, m) = (b \o q) \o <<m>>
  BY <1>1, AppendIsConcat
<1> QED
  BY <1>1, <1>2, ConcatAssociative

(* Dropping the head of b, or all of b, drops a prefix of b \o q. *)
LEMMA DropHead ==
  ASSUME NEW S, NEW b \in Seq(S), NEW q \in Seq(S), b # <<>>
  PROVE  Tail(b) \o q = Tail(b \o q) /\ Head(b \o q) = Head(b) /\ b \o q # <<>>
<1>1. /\ Tail(b) \in Seq(S) /\ Len(Tail(b)) = Len(b) - 1 /\ Len(b) \in Nat \ {0} /\ Len(q) \in Nat
      /\ b \o q \in Seq(S) /\ Len(b \o q) = Len(b) + Len(q)
      /\ \A i \in 1..Len(Tail(b)) : Tail(b)[i] = b[i + 1]
  BY HeadTailProperties
<1>2. b \o q # <<>>
  BY <1>1
<1>3. /\ Tail(b \o q) \in Seq(S) /\ Len(Tail(b \o q)) = Len(b) + Len(q) - 1
      /\ \A i \in 1..(Len(b) + Len(q) - 1) : Tail(b \o q)[i] = (b \o q)[i + 1]
  BY <1>1, <1>2, HeadTailProperties
<1>4. Tail(b) \o q \in Seq(S) /\ Len(Tail(b) \o q) = Len(b) + Len(q) - 1
  BY <1>1
<1>5. ASSUME NEW i \in 1..(Len(b) + Len(q) - 1) PROVE (Tail(b) \o q)[i] = (b \o q)[i + 1]
  <2>1. (b \o q)[i + 1] = IF i + 1 <= Len(b) THEN b[i + 1] ELSE q[i + 1 - Len(b)]
    BY ConcatProperties, <1>1
  <2>2. (Tail(b) \o q)[i] = IF i <= Len(b) - 1 THEN Tail(b)[i] ELSE q[i - (Len(b) - 1)]
    BY ConcatProperties, <1>1
  <2> QED
    BY <1>1, <2>1, <2>2
<1>6. (b \o q)[1] = b[1]
  BY <1>1, ConcatProperties
<1> QED
  BY <1>1, <1>2, <1>3, <1>4, <1>5, <1>6, SeqEqual

LEMMA DropAll ==
  ASSUME NEW S, NEW b \in Seq(S), NEW q \in Seq(S)
  PROVE  SubSeq(b \o q, Len(b) + 1, Len(b \o q)) = q /\ Len(b) <= Len(b \o q)
<1>1. /\ Len(b) \in Nat /\ Len(q) \in Nat /\ b \o q \in Seq(S) /\ Len(b \o q) = Len(b) + Len(q)
      /\ \A i \in 1..(Len(b) + Len(q)) : (b \o q)[i] \in S
  BY ConcatProperties
<1> DEFINE s == SubSeq(b \o q, Len(b) + 1, Len(b \o q))
<1>2. /\ s \in Seq(S) /\ Len(s) = Len(q)
      /\ \A i \in 1..Len(q) : s[i] = (b \o q)[Len(b) + i]
  BY <1>1, SubSeqProperties
<1>3. \A i \in 1..Len(q) : (b \o q)[Len(b) + i] = q[i]
  BY <1>1, ConcatProperties
<1> QED
  BY <1>1, <1>2, <1>3, SeqEqual

-----------------------------------------------------------------------------
(* The bounds are numbers. *)
LEMMA Bounds ==
  /\ BatchSize \in Nat \ {0} /\ QueueCap \in Nat \ {0} /\ MaxRetries \in Nat \ {0} /\ MaxFaults \in Nat
BY WriterAssumption

LEMMA NoMessages == <<>> \in Seq(Msg) /\ Len(<<>>) = 0
BY EmptySeq

(* Only the empty sequence has length 0. *)
LEMMA EmptyIff ==
  ASSUME NEW S, NEW s \in Seq(S)
  PROVE  s = <<>> <=> Len(s) = 0
BY EmptySeq

(* The inbox is a sequence of messages that begins with the batch. *)
LEMMA InboxType ==
  ASSUME TypeOK
  PROVE  /\ Inbox \in Seq(Msg) /\ Len(Inbox) \in Nat /\ Len(batch) \in Nat
         /\ Len(batch) <= Len(Inbox)
         /\ \A i \in 1..Len(batch) : Inbox[i] = batch[i]
<1>1. batch \in Seq(Msg) /\ queue \in Seq(Msg)
  BY DEF TypeOK
<1>2. Len(batch) \in Nat /\ Len(queue) \in Nat
  BY <1>1
<1> QED
  BY <1>1, <1>2, ConcatProperties DEF Inbox

(* What each operation does to it. *)
LEMMA InboxQueue ==
  ASSUME TypeOK, NEW m \in Msg, queue' = Append(queue, m), batch' = batch
  PROVE  Inbox' = Append(Inbox, m)
<1>1. batch \in Seq(Msg) /\ queue \in Seq(Msg)
  BY DEF TypeOK
<1> QED
  BY <1>1, AppendLast DEF Inbox

LEMMA InboxReceive ==
  ASSUME TypeOK, Receive
  PROVE  Inbox' = Inbox
<1>1. batch \in Seq(Msg) /\ queue \in Seq(Msg) /\ queue # <<>>
  BY DEF TypeOK, Receive
<1>2. batch' = Append(batch, Head(queue)) /\ queue' = Tail(queue)
  BY DEF Receive
<1> QED
  BY <1>1, <1>2, MoveHead DEF Inbox

LEMMA InboxPublish ==
  ASSUME TypeOK, Placed, Publish
  PROVE  /\ batch' = Tail(batch)
         /\ Inbox' = Tail(Inbox) /\ Inbox # <<>> /\ Head(Inbox) = Head(batch)
<1>1. batch \in Seq(Msg) /\ queue \in Seq(Msg) /\ batch # <<>> /\ queue' = queue
  BY DEF TypeOK, Placed, Publish
<1>2. batch' = Tail(batch)
  <2>1. CASE batch' = <<>> /\ Len(batch) = 1
    <3>1. PICK t \in Seq(Msg) : t = Tail(batch) /\ Len(t) = Len(batch) - 1
      BY <1>1, HeadTailProperties
    <3>2. t = <<>>
      BY <2>1, <3>1, EmptyIff
    <3> QED
      BY <2>1, <3>1, <3>2
  <2> QED
    BY <2>1 DEF Publish, EmptyBatch
<1>3. Tail(batch) \o queue = Tail(batch \o queue) /\ Head(batch \o queue) = Head(batch) /\ batch \o queue # <<>>
  BY <1>1, DropHead
<1> QED
  BY <1>1, <1>2, <1>3 DEF Inbox

LEMMA InboxGiveUp ==
  ASSUME TypeOK, GiveUp
  PROVE  Inbox' = SubSeq(Inbox, Len(batch) + 1, Len(Inbox))
<1>1. batch \in Seq(Msg) /\ queue \in Seq(Msg)
  BY DEF TypeOK
<1>2. batch' = <<>> /\ queue' = queue
  BY DEF GiveUp, EmptyBatch
<1>3. <<>> \o queue = queue
  BY <1>1, ConcatEmptySeq
<1>4. SubSeq(batch \o queue, Len(batch) + 1, Len(batch \o queue)) = queue
  BY <1>1, DropAll
<1> QED
  BY <1>2, <1>3, <1>4 DEF Inbox

LEMMA InboxCrash ==
  ASSUME Crash
  PROVE  Inbox' = <<>>
<1>1. batch' = <<>> /\ queue' = <<>>
  BY DEF Crash
<1>2. <<>> \in Seq(Msg)
  BY NoMessages
<1>3. <<>> \o <<>> = <<>>
  BY <1>2, ConcatEmptySeq
<1> QED
  BY <1>1, <1>3 DEF Inbox

(* A suffix of distinct accepted messages is one. *)
LEMMA DistinctSuffix ==
  ASSUME TypeOK, Distinct, NEW n \in 0..Len(Inbox), status' = status,
         Inbox' = SubSeq(Inbox, n + 1, Len(Inbox))
  PROVE  Distinct'
<1>1. Inbox \in Seq(Msg) /\ Len(Inbox) \in Nat
  BY InboxType
<1>2. \A i \in (n + 1)..Len(Inbox) : Inbox[i] \in Msg
  BY <1>1
<1>3. /\ Len(Inbox') = Len(Inbox) - n
      /\ \A i \in 1..(Len(Inbox) - n) : Inbox'[i] = Inbox[n + i]
  BY <1>1, <1>2, SubSeqProperties
<1> QED
  BY SMTT(20), <1>1, <1>3 DEF Distinct

-----------------------------------------------------------------------------
(* Every step keeps the types: neither the queue nor the batch outgrows its bound. *)
LEMMA TypeStep == TypeOK /\ Placed /\ [Next]_vars => TypeOK'
<1> SUFFICES ASSUME TypeOK, Placed, [Next]_vars PROVE TypeOK'
  OBVIOUS
<1> USE DEF senderVars, memVars
<1>1. ASSUME NEW m \in Msg, Call(m) PROVE TypeOK'
  BY <1>1, Bounds DEF Call, TypeOK, Placed
<1>2. ASSUME NEW m \in Msg, QueueMessage(m) PROVE TypeOK'
  <2>1. queue \in Seq(Msg) /\ Len(queue) <= QueueCap /\ QueueCap \in Nat
    BY Bounds DEF TypeOK
  <2>2. Append(queue, m) \in Seq(Msg) /\ Len(Append(queue, m)) = Len(queue) + 1 /\ Len(queue) \in Nat
    BY <2>1, AppendProperties
  <2>3. \/ Len(queue) < QueueCap /\ queue' = Append(queue, m)
        \/ queue' = queue
    BY <1>2 DEF QueueMessage, Refuse
  <2>4. queue' \in Seq(Msg) /\ Len(queue') <= QueueCap
    BY <2>1, <2>2, <2>3
  <2>5. status' \in [Msg -> {"unsent", "calling", "accepted", "refused"}]
    BY <1>2 DEF QueueMessage, Refuse, TypeOK
  <2> QED
    BY <1>2, <2>4, <2>5 DEF QueueMessage, TypeOK
<1>3. CASE Stop
  BY <1>3, Bounds DEF Stop, TypeOK, Placed
<1>4. CASE StopReturns
  BY <1>4, Bounds DEF StopReturns, TypeOK, Placed
<1>5. CASE Receive
  BY <1>5, Bounds DEF Receive, TypeOK, Placed
<1>6. CASE FlushOnTick
  BY <1>6, Bounds DEF FlushOnTick, FlushDue, TypeOK, Placed
<1>7. CASE FlushOnDone
  BY <1>7, Bounds DEF FlushOnDone, TypeOK, Placed
<1>8. CASE Begin
  BY <1>8, Bounds DEF Begin, Fault, TypeOK, Placed
<1>9. CASE CreateMessage
  <2> DEFINE m == batch[inserted + 1]
  <2>1. inserted + 1 \in 1..Len(batch) /\ m \in Msg /\ Len(batch) \in Nat /\ inserted \in Nat
    BY <1>9 DEF CreateMessage, Placed, TypeOK
  <2>2. /\ rows' = rows \/ rows' = Append(rows, m)
        /\ id' = id \/ id' = [id EXCEPT ![m] = Len(rows) + 1]
        /\ inserted' = inserted + 1 \/ inserted' = 0
        /\ faults' = faults \/ (faults < MaxFaults /\ faults' = faults + 1)
        /\ pc' \in {"commit", "insert", "backoff"}
    BY <1>9 DEF CreateMessage, Fault, Rollback, ReturnsId
  <2> HIDE DEF m
  <2>3. rows' \in Seq(Msg) /\ id' \in [Msg -> Nat]
    <3>1. rows \in Seq(Msg) /\ id \in [Msg -> Nat] /\ Len(rows) + 1 \in Nat
      BY DEF TypeOK
    <3>2. Append(rows, m) \in Seq(Msg)
      BY <2>1, <3>1, AppendProperties
    <3> QED
      BY <2>2, <3>1, <3>2
  <2>4. inserted' \in 0..Len(batch)
    BY <2>1, <2>2
  <2>5. faults' \in 0..MaxFaults
    <3>1. faults \in 0..MaxFaults /\ MaxFaults \in Nat
      BY Bounds DEF TypeOK
    <3> QED
      BY <2>2, <3>1
  <2> QED
    BY <2>5, <1>9, <2>2, <2>3, <2>4 DEF CreateMessage, TypeOK
<1>10. CASE Commit
  BY <1>10, Bounds DEF Commit, Fault, Rollback, TypeOK, Placed
<1>11. CASE Publish
  <2> DEFINE a == [msg |-> Head(batch), id |-> id[Head(batch)]]
  <2>1. /\ batch \in Seq(Msg) /\ batch # <<>> /\ inserted = Len(batch) /\ Len(batch) \in Nat \ {0}
        /\ Head(batch) \in Msg
    BY <1>11 DEF Publish, Placed, TypeOK
  <2>2. Tail(batch) \in Seq(Msg) /\ Len(Tail(batch)) = Len(batch) - 1
    BY <2>1, HeadTailProperties
  <2>3. /\ feed' = feed \/ feed' = Append(feed, a)
        /\ batch' = Tail(batch) \/ (batch' = <<>> /\ Len(batch) = 1)
        /\ pc' \in {"publish", "exit", "select"} /\ (attempt' = attempt \/ attempt' = 0)
        /\ faults' = faults \/ (faults < MaxFaults /\ faults' = faults + 1)
        /\ inserted' = inserted - 1
    BY <1>11 DEF Publish, Fault, EmptyBatch, Return, TypeOK
  <2>4. feed' \in Seq([msg : Msg, id : Nat])
    <3>1. a \in [msg : Msg, id : Nat] /\ feed \in Seq([msg : Msg, id : Nat])
      BY <2>1 DEF TypeOK
    <3> HIDE DEF a
    <3>2. Append(feed, a) \in Seq([msg : Msg, id : Nat])
      BY <3>1, AppendProperties
    <3> QED
      BY <2>3, <3>1, <3>2
  <2> HIDE DEF a
  <2>5. batch' \in Seq(Msg) /\ Len(batch') = Len(batch) - 1
    <3>1. CASE batch' = Tail(batch)
      BY <2>2, <3>1
    <3>2. CASE batch' = <<>> /\ Len(batch) = 1
      BY <3>2, NoMessages
    <3> QED
      BY <2>3, <3>1, <3>2
  <2>6. /\ inserted' \in 0..Len(batch') /\ Len(batch') <= BatchSize
        /\ attempt' \in 0..(MaxRetries - 1) /\ faults' \in 0..MaxFaults
    <3>1. Len(batch) <= BatchSize /\ attempt \in 0..(MaxRetries - 1) /\ faults \in 0..MaxFaults
      BY DEF TypeOK
    <3> QED
      BY <2>1, <2>3, <2>5, <3>1, Bounds
  <2> QED
    BY <1>11, <2>3, <2>4, <2>5, <2>6 DEF Publish, TypeOK
<1>12. CASE Retry
  BY <1>12, Bounds DEF Retry, NextAttempt, MayRetry, TypeOK, Placed
<1>13. CASE GiveUp
  BY <1>13, Bounds DEF GiveUp, MayRetry, EmptyBatch, Return, TypeOK, Placed
<1>14. CASE Crash
  <2>1. status' \in [Msg -> {"unsent", "calling", "accepted", "refused"}] /\ faults' \in 0..MaxFaults
    BY <1>14, Bounds DEF Crash, Fault, TypeOK
  <2>2. <<>> \in Seq(Msg) /\ Len(<<>>) = 0
    BY NoMessages
  <2>3. queue' = <<>> /\ batch' = <<>> /\ inserted' = 0 /\ attempt' = 0
    BY <1>14 DEF Crash
  <2>4. queue' \in Seq(Msg) /\ Len(queue') <= QueueCap /\ batch' \in Seq(Msg) /\ Len(batch') <= BatchSize
    BY <2>2, <2>3, Bounds
  <2>5. attempt' \in 0..(MaxRetries - 1) /\ inserted' \in 0..Len(batch')
    BY <2>2, <2>3, Bounds
  <2> QED
    BY <1>14, <2>1, <2>4, <2>5 DEF Crash, TypeOK
<1>15. CASE UNCHANGED vars
  BY <1>15 DEF vars, TypeOK
<1> QED
  BY <1>1, <1>2, <1>3, <1>4, <1>5, <1>6, <1>7, <1>8, <1>9, <1>10, <1>11, <1>12, <1>13, <1>14, <1>15 DEF Next, BatchWriter

(* Every step keeps the progress counters in line with where the writer is. *)
LEMMA PlacedStep == TypeOK /\ Placed /\ [Next]_vars => Placed'
<1> SUFFICES ASSUME TypeOK, Placed, [Next]_vars PROVE Placed'
  OBVIOUS
<1> USE DEF senderVars, memVars
<1>1. ASSUME NEW m \in Msg, Call(m) PROVE Placed'
  BY <1>1, Bounds DEF Call, TypeOK, Placed
<1>2. ASSUME NEW m \in Msg, QueueMessage(m) PROVE Placed'
  BY <1>2, Bounds DEF QueueMessage, Refuse, TypeOK, Placed
<1>3. CASE Stop
  BY <1>3, Bounds DEF Stop, TypeOK, Placed
<1>4. CASE StopReturns
  BY <1>4, Bounds DEF StopReturns, TypeOK, Placed
<1>5. CASE Receive
  <2>1. /\ Append(batch, Head(queue)) # <<>> /\ Len(Append(batch, Head(queue))) = Len(batch) + 1
        /\ Len(batch) \in Nat
    <3>1. batch \in Seq(Msg) /\ Head(queue) \in Msg
      BY <1>5, HeadTailProperties DEF Receive, TypeOK
    <3> QED
      BY <3>1, AppendProperties
  <2>2. /\ pc = "select" /\ batch' = Append(batch, Head(queue)) /\ UNCHANGED <<attempt, inserted>>
        /\ pc' = IF Len(batch) + 1 >= BatchSize THEN "begin" ELSE "select"
    BY <1>5 DEF Receive
  <2> QED
    BY <2>1, <2>2, Bounds DEF Placed
<1>6. CASE FlushOnTick
  BY <1>6, Bounds DEF FlushOnTick, FlushDue, TypeOK, Placed
<1>7. CASE FlushOnDone
  BY <1>7, Bounds DEF FlushOnDone, TypeOK, Placed
<1>8. CASE Begin
  BY <1>8, Bounds DEF Begin, Fault, TypeOK, Placed
<1>9. CASE CreateMessage
  <2>1. pc = "insert" /\ batch # <<>> /\ Len(batch) \in Nat /\ inserted \in Nat /\ inserted < Len(batch)
    BY <1>9 DEF CreateMessage, Placed, TypeOK
  <2>2. /\ batch' = batch
        /\ \/ inserted' = inserted + 1 /\ pc' = IF inserted + 1 = Len(batch) THEN "commit" ELSE "insert"
           \/ inserted' = 0 /\ pc' = "backoff"
    BY <1>9 DEF CreateMessage, Rollback
  <2> QED
    BY <2>1, <2>2 DEF Placed
<1>10. CASE Commit
  BY <1>10, Bounds DEF Commit, Fault, Rollback, TypeOK, Placed
<1>11. CASE Publish
  <2>1. batch \in Seq(Msg) /\ batch # <<>> /\ inserted = Len(batch) /\ Len(batch) \in Nat \ {0}
    BY <1>11 DEF Publish, Placed, TypeOK
  <2>2. CASE Len(batch) > 1
    <3>1. PICK t \in Seq(Msg) : t = Tail(batch) /\ Len(t) = Len(batch) - 1
      BY <2>1, HeadTailProperties
    <3>2. t # <<>>
      BY <2>1, <2>2, <3>1, EmptyIff
    <3>3. batch' = t /\ pc' = "publish" /\ inserted' = Len(batch) - 1
      BY <1>11, <2>1, <2>2, <3>1 DEF Publish
    <3> QED
      BY <3>1, <3>2, <3>3 DEF Placed
  <2>3. CASE Len(batch) = 1
    <3>1. batch' = <<>> /\ pc' \in {"exit", "select"} /\ attempt' = 0 /\ inserted' = 0
      BY <1>11, <2>1, <2>3 DEF Publish, EmptyBatch, Return
    <3> QED
      BY <3>1, NoMessages, Bounds DEF Placed
  <2> QED
    BY <2>1, <2>2, <2>3
<1>12. CASE Retry
  BY <1>12, Bounds DEF Retry, NextAttempt, MayRetry, TypeOK, Placed
<1>13. CASE GiveUp
  BY <1>13, Bounds DEF GiveUp, MayRetry, EmptyBatch, Return, TypeOK, Placed
<1>14. CASE Crash
  BY <1>14, Bounds DEF Crash, Fault, TypeOK, Placed
<1>15. CASE UNCHANGED vars
  BY <1>15 DEF vars, Placed
<1> QED
  BY <1>1, <1>2, <1>3, <1>4, <1>5, <1>6, <1>7, <1>8, <1>9, <1>10, <1>11, <1>12, <1>13, <1>14, <1>15 DEF Next, BatchWriter

(* Every step keeps the messages in the inbox distinct. *)
LEMMA DistinctStep == TypeOK /\ Placed /\ Distinct /\ [Next]_vars => Distinct'
<1> SUFFICES ASSUME TypeOK, Placed, Distinct, [Next]_vars PROVE Distinct'
  OBVIOUS
<1> USE DEF senderVars, memVars
<1>1. ASSUME NEW m \in Msg, Call(m) PROVE Distinct'
  <2>1. status[m] = "unsent" /\ status' = [status EXCEPT ![m] = "calling"] /\ Inbox' = Inbox
    BY <1>1 DEF Call, Inbox
  <2>2. \A i \in 1..Len(Inbox) : Inbox[i] # m /\ Inbox[i] \in Msg
    BY <2>1, InboxType DEF Distinct
  <2>3. status \in [Msg -> {"unsent", "calling", "accepted", "refused"}]
    BY DEF TypeOK
  <2>4. \A i \in 1..Len(Inbox) : status'[Inbox[i]] = "accepted"
    BY <2>1, <2>2, <2>3 DEF Distinct
  <2> QED
    BY <2>1, <2>4 DEF Distinct
<1>2. ASSUME NEW m \in Msg, QueueMessage(m) PROVE Distinct'
  <2>1. /\ status[m] = "calling" /\ Inbox \in Seq(Msg) /\ Len(Inbox) \in Nat
        /\ status \in [Msg -> {"unsent", "calling", "accepted", "refused"}]
    BY <1>2, InboxType DEF QueueMessage, TypeOK
  <2>2. \A i \in 1..Len(Inbox) : Inbox[i] # m /\ Inbox[i] \in Msg
    BY <2>1 DEF Distinct
  <2>3. CASE queue' = Append(queue, m) /\ status' = [status EXCEPT ![m] = "accepted"]
    <3>1. Inbox' = Append(Inbox, m)
      BY <1>2, <2>3, InboxQueue DEF QueueMessage
    <3>2. /\ Len(Inbox') = Len(Inbox) + 1 /\ Inbox'[Len(Inbox) + 1] = m
          /\ \A i \in 1..Len(Inbox) : Inbox'[i] = Inbox[i]
      BY <2>1, <3>1, AppendProperties
    <3>3. \A i \in 1..Len(Inbox) : status'[Inbox[i]] = "accepted"
      BY <2>1, <2>2, <2>3 DEF Distinct
    <3>4. \A i \in 1..(Len(Inbox) + 1) : i \in 1..Len(Inbox) \/ i = Len(Inbox) + 1
      BY <2>1
    <3>5. \A i \in 1..Len(Inbox') : status'[Inbox'[i]] = "accepted"
      BY <2>1, <2>3, <3>2, <3>3, <3>4
    <3>6. ASSUME NEW i \in 1..Len(Inbox'), NEW j \in 1..Len(Inbox'), Inbox'[i] = Inbox'[j] PROVE i = j
      BY <2>2, <3>2, <3>4, <3>6 DEF Distinct
    <3> QED
      BY <3>5, <3>6 DEF Distinct
  <2>4. CASE queue' = queue /\ status' = [status EXCEPT ![m] = "refused"]
    <3>1. Inbox' = Inbox
      BY <1>2, <2>4 DEF QueueMessage, Inbox, memVars
    <3> QED
      BY <2>1, <2>2, <2>4, <3>1 DEF Distinct
  <2> QED
    BY <1>2, <2>3, <2>4 DEF QueueMessage, Refuse
<1>3. CASE Stop
  BY <1>3 DEF Stop, Distinct, Inbox
<1>4. CASE StopReturns
  BY <1>4 DEF StopReturns, Distinct, Inbox
<1>5. CASE Receive
  BY <1>5, InboxReceive DEF Receive, Distinct
<1>6. CASE FlushOnTick
  BY <1>6 DEF FlushOnTick, FlushDue, Distinct, Inbox
<1>7. CASE FlushOnDone
  BY <1>7 DEF FlushOnDone, Distinct, Inbox
<1>8. CASE Begin
  BY <1>8 DEF Begin, Fault, Distinct, Inbox
<1>9. CASE CreateMessage
  BY <1>9 DEF CreateMessage, Fault, Rollback, ReturnsId, Distinct, Inbox
<1>10. CASE Commit
  BY <1>10 DEF Commit, Fault, Rollback, Distinct, Inbox
<1>11. CASE Publish
  <2>1. Inbox' = Tail(Inbox) /\ Inbox # <<>> /\ Inbox \in Seq(Msg) /\ Len(Inbox) \in Nat /\ status' = status
    BY <1>11, InboxPublish, InboxType DEF Publish
  <2>2. Inbox' = SubSeq(Inbox, 1 + 1, Len(Inbox)) /\ 1 \in 0..Len(Inbox)
    BY <2>1, TailIsSubSeq
  <2> QED
    BY <2>1, <2>2, DistinctSuffix
<1>12. CASE Retry
  BY <1>12 DEF Retry, NextAttempt, MayRetry, Distinct, Inbox
<1>13. CASE GiveUp
  <2>1. Inbox' = SubSeq(Inbox, Len(batch) + 1, Len(Inbox)) /\ Len(batch) \in 0..Len(Inbox) /\ status' = status
    BY <1>13, InboxGiveUp, InboxType DEF GiveUp
  <2> QED
    BY <2>1, DistinctSuffix
<1>14. CASE Crash
  <2>1. Len(Inbox') = 0
    BY <1>14, InboxCrash, NoMessages
  <2> QED
    BY <2>1 DEF Distinct
<1>15. CASE UNCHANGED vars
  BY <1>15 DEF vars, Distinct, Inbox
<1> QED
  BY <1>1, <1>2, <1>3, <1>4, <1>5, <1>6, <1>7, <1>8, <1>9, <1>10, <1>11, <1>12, <1>13, <1>14, <1>15 DEF Next, BatchWriter

(* Every step keeps the announcements, past and next, faithful to the table. *)
LEMMA FaithfulStep == TypeOK /\ Placed /\ Distinct /\ Stored /\ FeedFaithful /\ [Next]_vars => (Stored /\ FeedFaithful)'
<1> SUFFICES ASSUME TypeOK, Placed, Distinct, Stored, FeedFaithful, [Next]_vars PROVE (Stored /\ FeedFaithful)'
  OBVIOUS
<1> USE DEF senderVars, memVars
<1>1. ASSUME NEW m \in Msg, Call(m) PROVE (Stored /\ FeedFaithful)'
  BY <1>1 DEF Call, Stored, FeedFaithful
<1>2. ASSUME NEW m \in Msg, QueueMessage(m) PROVE (Stored /\ FeedFaithful)'
  BY <1>2 DEF QueueMessage, Refuse, Stored, FeedFaithful
<1>3. CASE Stop
  BY <1>3 DEF Stop, Stored, FeedFaithful
<1>4. CASE StopReturns
  BY <1>4 DEF StopReturns, Stored, FeedFaithful
<1>5. CASE Receive
  <2>1. inserted = 0 /\ inserted' = 0 /\ UNCHANGED <<rows, feed>>
    BY <1>5 DEF Receive, Placed
  <2> QED
    BY <2>1 DEF Stored, FeedFaithful
<1>6. CASE FlushOnTick
  BY <1>6 DEF FlushOnTick, FlushDue, Stored, FeedFaithful
<1>7. CASE FlushOnDone
  BY <1>7 DEF FlushOnDone, Stored, FeedFaithful
<1>8. CASE Begin
  BY <1>8 DEF Begin, Fault, Stored, FeedFaithful
<1>9. CASE CreateMessage
  <2> DEFINE m == batch[inserted + 1]
  <2>1. /\ inserted \in Nat /\ Len(batch) \in Nat /\ inserted + 1 \in 1..Len(batch)
        /\ batch' = batch /\ feed' = feed /\ rows \in Seq(Msg) /\ m \in Msg
    BY <1>9 DEF CreateMessage, Placed, TypeOK
  <2>2. /\ Len(Append(rows, m)) = Len(rows) + 1 /\ Append(rows, m)[Len(rows) + 1] = m
        /\ \A i \in 1..Len(rows) : Append(rows, m)[i] = rows[i]
        /\ Len(rows) \in Nat
    BY <2>1, AppendProperties
  <2>3. rows' = rows \/ rows' = Append(rows, m)
    BY <1>9 DEF CreateMessage
  <2>4. FeedFaithful'
    BY <2>1, <2>2, <2>3 DEF FeedFaithful
  <2>5. CASE inserted' = 0
    BY <2>4, <2>5 DEF Stored
  <2>6. CASE rows' = Append(rows, m) /\ ReturnsId(m) /\ inserted' = inserted + 1
    <3>1. id \in [Msg -> Nat] /\ id' = [id EXCEPT ![m] = Len(rows) + 1]
      BY <2>6 DEF ReturnsId, TypeOK
    <3>2. \A i \in 1..inserted : batch[i] \in Msg /\ batch[i] # m
      <4>1. batch \in Seq(Msg) /\ Len(batch) <= Len(Inbox) /\ Len(Inbox) \in Nat /\ Inbox[inserted + 1] = m
            /\ \A i \in 1..Len(batch) : Inbox[i] = batch[i]
        BY <2>1, InboxType DEF TypeOK
      <4>2. TAKE i \in 1..inserted
      <4>3. i \in 1..Len(Inbox) /\ inserted + 1 \in 1..Len(Inbox) /\ i \in 1..Len(batch) /\ i # inserted + 1
        BY <2>1, <4>1
      <4> QED
        BY <4>1, <4>3 DEF Distinct
    <3>3. id'[m] = Len(rows) + 1 /\ \A i \in 1..inserted : id'[batch[i]] = id[batch[i]]
      BY <2>1, <3>1, <3>2
    <3>4. \A i \in 1..(inserted + 1) : i \in 1..inserted \/ (i = inserted + 1 /\ batch[i] = m)
      BY <2>1
    <3>5. \A i \in 1..inserted : id[batch[i]] \in 1..Len(rows) /\ rows[id[batch[i]]] = batch[i]
      BY DEF Stored
    <3> HIDE DEF m
    <3>6. \A i \in 1..inserted' : id'[batch'[i]] \in 1..Len(rows') /\ rows'[id'[batch'[i]]] = batch'[i]
      <4>1. TAKE i \in 1..inserted'
      <4>2. CASE i \in 1..inserted
        <5>1. id'[batch'[i]] = id[batch[i]] /\ id[batch[i]] \in 1..Len(rows)
          BY <2>1, <3>3, <3>5, <4>2
        <5>2. rows'[id[batch[i]]] = rows[id[batch[i]]] /\ rows[id[batch[i]]] = batch[i] /\ Len(rows') = Len(rows) + 1
          BY <2>2, <2>6, <3>5, <4>2, <5>1
        <5> QED
          BY <2>1, <2>2, <5>1, <5>2
      <4>3. CASE i = inserted + 1 /\ batch[i] = m
        BY <2>1, <2>2, <2>6, <3>3, <4>3
      <4> QED
        BY <2>6, <3>4, <4>2, <4>3
    <3>7. ASSUME NEW i \in 1..inserted', NEW j \in 1..inserted', i < j PROVE id'[batch'[i]] < id'[batch'[j]]
      <4>1. i \in 1..inserted
        BY <2>1, <2>6, <3>7
      <4> QED
        BY <2>1, <2>2, <2>6, <3>3, <3>4, <3>5, <3>7, <4>1 DEF Stored
    <3>8. ASSUME NEW i \in 1..inserted', NEW j \in 1..Len(feed) PROVE feed[j].id < id'[batch'[i]]
      <4>1. feed[j].id \in 1..Len(rows)
        BY DEF FeedFaithful
      <4> QED
        BY <2>1, <2>2, <2>6, <3>3, <3>4, <4>1 DEF Stored
    <3> QED
      BY <2>1, <2>4, <3>6, <3>7, <3>8 DEF Stored
  <2> QED
    BY <1>9, <2>5, <2>6 DEF CreateMessage, Rollback
<1>10. CASE Commit
  <2>1. UNCHANGED <<batch, id, rows, feed>> /\ inserted' \in {0, inserted}
    BY <1>10 DEF Commit, Rollback
  <2> QED
    BY <2>1 DEF Stored, FeedFaithful
<1>11. CASE Publish
  <2> DEFINE a == [msg |-> Head(batch), id |-> id[Head(batch)]]
  <2>1. /\ batch \in Seq(Msg) /\ batch # <<>> /\ inserted = Len(batch) /\ Len(batch) \in Nat \ {0}
        /\ Head(batch) = batch[1] /\ Head(batch) \in Msg /\ feed \in Seq([msg : Msg, id : Nat])
        /\ id \in [Msg -> Nat]
    BY <1>11 DEF Publish, Placed, TypeOK
  <2>2. batch' = Tail(batch) /\ inserted' = inserted - 1 /\ UNCHANGED <<id, rows>>
    BY <1>11, InboxPublish DEF Publish
  <2>3. \A i \in 1..inserted' : i + 1 \in 1..inserted /\ batch'[i] = batch[i + 1]
    BY <2>1, <2>2, HeadTailProperties
  <2>4. 1 \in 1..inserted /\ a.msg = batch[1] /\ a.id = id[batch[1]] /\ a \in [msg : Msg, id : Nat]
    BY <2>1
  <2>5. feed' = feed \/ feed' = Append(feed, a)
    BY <1>11 DEF Publish
  <2> HIDE DEF a
  <2>6. CASE feed' = feed
    <3>1. \A i \in 1..inserted' : id'[batch'[i]] \in 1..Len(rows') /\ rows'[id'[batch'[i]]] = batch'[i]
      BY <2>2, <2>3 DEF Stored
    <3>2. ASSUME NEW i \in 1..inserted', NEW j \in 1..inserted', i < j PROVE id'[batch'[i]] < id'[batch'[j]]
      BY <2>1, <2>2, <2>3, <3>2 DEF Stored
    <3>3. \A i \in 1..inserted' : \A j \in 1..Len(feed') : feed'[j].id < id'[batch'[i]]
      BY <2>2, <2>3, <2>6 DEF Stored
    <3> QED
      BY <2>2, <2>6, <3>1, <3>2, <3>3 DEF Stored, FeedFaithful
  <2>7. CASE feed' = Append(feed, a)
    <3>1. /\ Len(feed') = Len(feed) + 1 /\ feed'[Len(feed) + 1] = a /\ Len(feed) \in Nat
          /\ \A j \in 1..Len(feed) : feed'[j] = feed[j]
      BY <2>1, <2>4, <2>7, AppendProperties
    <3>2. \A j \in 1..(Len(feed) + 1) : j \in 1..Len(feed) \/ j = Len(feed) + 1
      BY <3>1
    <3>3. \A j \in 1..Len(feed') : feed'[j].id \in 1..Len(rows') /\ rows'[feed'[j].id] = feed'[j].msg
      BY <2>2, <2>4, <3>1, <3>2 DEF FeedFaithful, Stored
    <3>4. ASSUME NEW i \in 1..Len(feed'), NEW j \in 1..Len(feed'), i < j PROVE feed'[i].id < feed'[j].id
      <4>1. i \in 1..Len(feed)
        BY <3>1, <3>4
      <4> QED
        BY <2>4, <3>1, <3>2, <3>4, <4>1 DEF FeedFaithful, Stored
    <3>5. ASSUME NEW i \in 1..inserted', NEW j \in 1..Len(feed') PROVE feed'[j].id < id'[batch'[i]]
      <4>1. id'[batch'[i]] = id[batch[i + 1]] /\ i + 1 \in 1..inserted /\ 1 < i + 1
        BY <2>1, <2>2, <2>3
      <4>2. CASE j \in 1..Len(feed)
        BY <3>1, <4>1, <4>2 DEF Stored
      <4>3. CASE j = Len(feed) + 1
        BY <2>4, <3>1, <4>1, <4>3 DEF Stored
      <4> QED
        BY <3>1, <3>2, <4>2, <4>3
    <3>6. \A i \in 1..inserted' : id'[batch'[i]] \in 1..Len(rows') /\ rows'[id'[batch'[i]]] = batch'[i]
      BY <2>2, <2>3 DEF Stored
    <3>7. ASSUME NEW i \in 1..inserted', NEW j \in 1..inserted', i < j PROVE id'[batch'[i]] < id'[batch'[j]]
      BY <2>1, <2>2, <2>3, <3>7 DEF Stored
    <3> QED
      BY <3>3, <3>4, <3>5, <3>6, <3>7 DEF Stored, FeedFaithful
  <2> QED
    BY <2>5, <2>6, <2>7
<1>12. CASE Retry
  BY <1>12 DEF Retry, NextAttempt, MayRetry, Stored, FeedFaithful
<1>13. CASE GiveUp
  <2>1. inserted = 0 /\ inserted' = 0 /\ UNCHANGED <<rows, feed>>
    BY <1>13 DEF GiveUp, Placed
  <2> QED
    BY <2>1 DEF Stored, FeedFaithful
<1>14. CASE Crash
  <2>1. inserted' = 0 /\ UNCHANGED <<rows, feed>>
    BY <1>14 DEF Crash
  <2> QED
    BY <2>1 DEF Stored, FeedFaithful
<1>15. CASE UNCHANGED vars
  BY <1>15 DEF vars, Stored, FeedFaithful
<1> QED
  BY <1>1, <1>2, <1>3, <1>4, <1>5, <1>6, <1>7, <1>8, <1>9, <1>10, <1>11, <1>12, <1>13, <1>14, <1>15 DEF Next, BatchWriter

-----------------------------------------------------------------------------
(* One more row is one more of its message and of no other. *)
LEMMA OneMore ==
  ASSUME NEW S, NEW s \in Seq(S), NEW e \in S, NEW m
  PROVE  /\ Occurrences(m, s) \in Nat
         /\ Occurrences(m, Append(s, e)) = Occurrences(m, s) + (IF e = m THEN 1 ELSE 0)
<1> DEFINE t == Append(s, e)
           Of(r) == {i \in DOMAIN r : r[i] = m}
<1> SUFFICES /\ Cardinality(Of(s)) \in Nat
             /\ Cardinality(Of(t)) = Cardinality(Of(s)) + (IF e = m THEN 1 ELSE 0)
  BY DEF Occurrences
<1>1. /\ Len(s) \in Nat /\ DOMAIN s = 1..Len(s) /\ DOMAIN t = 1..(Len(s) + 1)
      /\ t[Len(s) + 1] = e /\ \A i \in 1..Len(s) : t[i] = s[i]
  BY AppendProperties
<1>2. IsFiniteSet(Of(s)) /\ Cardinality(Of(s)) \in Nat
  <2>1. IsFiniteSet(1..Len(s))
    BY <1>1, FS_Interval
  <2>2. Of(s) \in SUBSET (1..Len(s))
    BY <1>1
  <2> QED BY <2>1, <2>2, FS_Subset, FS_CardinalityType
<1>3. Len(s) + 1 \notin Of(s) /\ \A i \in 1..(Len(s) + 1) : i \in 1..Len(s) \/ i = Len(s) + 1
  BY <1>1
<1>4. CASE e = m
  <2>1. Of(t) = Of(s) \cup {Len(s) + 1}
    BY <1>1, <1>3, <1>4
  <2>2. Cardinality(Of(s) \cup {Len(s) + 1}) = Cardinality(Of(s)) + 1
    BY <1>2, <1>3, FS_AddElement
  <2> HIDE DEF Of, t
  <2> QED BY <1>2, <1>4, <2>1, <2>2
<1>5. CASE e # m
  <2>1. Of(t) = Of(s)
    BY <1>1, <1>3, <1>5
  <2> HIDE DEF Of, t
  <2> QED BY <1>2, <1>5, <2>1
<1> QED BY <1>4, <1>5

LEMMA Counts ==
  ASSUME TypeOK, NEW m
  PROVE  Occurrences(m, rows) \in Nat
<1>1. CASE Msg = {}
  <2>1. {i \in DOMAIN rows : rows[i] = m} = {}
    BY <1>1 DEF TypeOK
  <2> QED BY <2>1, FS_EmptySet DEF Occurrences
<1>2. CASE Msg # {}
  <2>1. PICK e \in Msg : TRUE
    BY <1>2
  <2> QED BY <2>1, OneMore DEF TypeOK
<1> QED BY <1>1, <1>2

(* Every step keeps the count of rows in line with the attempts. *)
LEMMA CopiedStep == TypeOK /\ Placed /\ Distinct /\ Copied /\ CopiesBounded /\ [Next]_vars
                      => Copied' /\ CopiesBounded'
<1> SUFFICES ASSUME TypeOK, Placed, Distinct, Copied, CopiesBounded, [Next]_vars
             PROVE  Copied' /\ CopiesBounded'
  OBVIOUS
<1> USE DEF senderVars, memVars
<1>a. /\ status \in [Msg -> {"unsent", "calling", "accepted", "refused"}]
      /\ batch \in Seq(Msg) /\ queue \in Seq(Msg) /\ rows \in Seq(Msg)
      /\ Len(batch) \in Nat /\ Len(queue) \in Nat
      /\ attempt \in Nat /\ attempt + 1 <= MaxRetries /\ MaxRetries \in Nat /\ inserted \in Nat
      /\ \A m \in Msg : Occurrences(m, rows) \in Nat
      /\ \A i \in 1..Len(batch) : batch[i] \in Msg
      /\ \A i \in 1..Len(queue) : queue[i] \in Msg
  BY Counts, Bounds DEF TypeOK
<1>b. \A e, n \in Msg :
        Occurrences(n, Append(rows, e)) = Occurrences(n, rows) + (IF e = n THEN 1 ELSE 0)
  BY <1>a, OneMore
<1>1. ASSUME NEW m \in Msg, Call(m) PROVE Copied' /\ CopiesBounded'
  <2>1. /\ UNCHANGED <<queue, batch, attempt, inserted, pc, rows>>
        /\ status[m] = "unsent" /\ status' = [status EXCEPT ![m] = "calling"]
    BY <1>1 DEF Call
  <2>2. \A n \in Msg : status'[n] # "accepted" => status[n] # "accepted"
    BY <1>a, <2>1
  <2> QED BY <2>1, <2>2 DEF Copied, Passed, CopiesBounded
<1>2. ASSUME NEW m \in Msg, QueueMessage(m) PROVE Copied' /\ CopiesBounded'
  <2>1. UNCHANGED <<batch, attempt, inserted, pc, rows>> /\ status[m] = "calling"
    BY <1>2 DEF QueueMessage
  <2>2. Occurrences(m, rows) = 0
    BY <2>1 DEF Copied
  <2>3. CASE queue' = Append(queue, m) /\ status' = [status EXCEPT ![m] = "accepted"]
    <3>1. /\ Len(queue') = Len(queue) + 1 /\ queue'[Len(queue) + 1] = m
          /\ \A i \in 1..Len(queue) : queue'[i] = queue[i]
      BY <1>a, <2>3, AppendProperties
    <3>2. \A i \in 1..(Len(queue) + 1) : i \in 1..Len(queue) \/ i = Len(queue) + 1
      BY <1>a
    <3>3. \A i \in 1..Len(queue') : Occurrences(queue'[i], rows) = 0
      BY <2>2, <3>1, <3>2 DEF Copied
    <3>4. \A n \in Msg : status'[n] # "accepted" => status[n] # "accepted"
      BY <1>a, <2>1, <2>3
    <3> QED BY <2>1, <3>3, <3>4 DEF Copied, Passed, CopiesBounded
  <2>4. CASE queue' = queue /\ status' = [status EXCEPT ![m] = "refused"]
    <3>1. \A n \in Msg : status'[n] # "accepted" => status[n] # "accepted"
      BY <1>a, <2>1, <2>4
    <3> QED BY <2>1, <2>4, <3>1 DEF Copied, Passed, CopiesBounded
  <2> QED
    BY <1>2, <2>3, <2>4 DEF QueueMessage, Refuse
<1>3. CASE Stop
  BY <1>3 DEF Stop, Copied, Passed, CopiesBounded
<1>4. CASE StopReturns
  BY <1>4 DEF StopReturns, Copied, Passed, CopiesBounded
<1>5. CASE Receive
  <2>1. /\ pc = "select" /\ pc' # "backoff" /\ queue # <<>> /\ queue' = Tail(queue)
        /\ batch' = Append(batch, Head(queue)) /\ UNCHANGED <<status, attempt, inserted, rows>>
    BY <1>5 DEF Receive
  <2>2. /\ Len(batch') = Len(batch) + 1 /\ batch'[Len(batch) + 1] = queue[1]
        /\ \A i \in 1..Len(batch) : batch'[i] = batch[i]
    <3>1. Head(queue) \in Msg /\ Head(queue) = queue[1]
      BY <1>a, <2>1, HeadTailProperties
    <3> QED BY <1>a, <2>1, <3>1, AppendProperties
  <2>3. /\ Len(queue') = Len(queue) - 1 /\ 1 \in 1..Len(queue)
        /\ \A i \in 1..Len(queue') : queue'[i] = queue[i + 1] /\ i + 1 \in 1..Len(queue)
    BY <1>a, <2>1, HeadTailProperties
  <2>4. \A i \in 1..Len(queue') : Occurrences(queue'[i], rows) = 0
    BY <2>3 DEF Copied
  <2>5. \A i \in 1..(Len(batch) + 1) : i \in 1..Len(batch) \/ i = Len(batch) + 1
    BY <1>a
  <2>6. \A i \in 1..Len(batch') : Occurrences(batch'[i], rows) <= attempt + Passed(i)'
    <3>1. \A i \in 1..Len(batch) : Passed(i)' = Passed(i)
      BY <2>1 DEF Passed
    <3>2. Occurrences(queue[1], rows) = 0 /\ \A i \in 1..(Len(batch) + 1) : Passed(i)' \in {0, 1}
      BY <2>3 DEF Copied, Passed
    <3>3. ASSUME NEW i \in 1..Len(batch') PROVE Occurrences(batch'[i], rows) <= attempt + Passed(i)'
      <4>1. CASE i \in 1..Len(batch)
        BY <2>2, <3>1, <4>1 DEF Copied
      <4>2. CASE i = Len(batch) + 1
        <5>1. Occurrences(batch'[i], rows) = 0 /\ Passed(i)' \in {0, 1}
          BY <2>2, <3>2, <4>2
        <5> QED BY <1>a, <5>1
      <4> QED BY <2>2, <2>5, <4>1, <4>2
    <3> QED BY <3>3
  <2> QED BY <2>1, <2>4, <2>6 DEF Copied, CopiesBounded
<1>6. CASE FlushOnTick
  BY <1>6 DEF FlushOnTick, FlushDue, Copied, Passed, CopiesBounded
<1>7. CASE FlushOnDone
  <2>1. UNCHANGED <<status, queue, batch, attempt, inserted, rows>> /\ pc = "select" /\ pc' # "backoff"
    BY <1>7 DEF FlushOnDone
  <2> QED BY <2>1 DEF Copied, Passed, CopiesBounded
<1>8. CASE Begin
  <2>1. UNCHANGED <<status, queue, batch, attempt, inserted, rows>> /\ pc = "begin"
    BY <1>8 DEF Begin
  <2>2. \A i \in 1..Len(batch) : Passed(i) <= Passed(i)' /\ Passed(i) \in Nat /\ Passed(i)' \in Nat
    BY <2>1 DEF Passed
  <2>3. \A i \in 1..Len(batch) : Occurrences(batch[i], rows) <= attempt + Passed(i)'
    BY <1>a, <2>2 DEF Copied
  <2> QED BY <2>1, <2>3 DEF Copied, CopiesBounded
<1>9. CASE CreateMessage
  <2> DEFINE k == inserted + 1
             m == batch[k]
  <2>1. /\ pc = "insert" /\ k \in 1..Len(batch) /\ m \in Msg /\ ~(k <= inserted)
        /\ UNCHANGED <<status, queue, batch, attempt>>
    BY <1>9, <1>a DEF CreateMessage, Placed
  <2> DEFINE r == Append(rows, m)
  <2>2. rows' = rows \/ rows' = r
    BY <1>9 DEF CreateMessage
  <2>a. \A n \in Msg : Occurrences(n, r) = Occurrences(n, rows) + (IF m = n THEN 1 ELSE 0)
    BY <1>b, <2>1
  <2> HIDE DEF r
  <2>3. \/ inserted' = k
        \/ pc' = "backoff" /\ inserted' = 0
    BY <1>9 DEF CreateMessage, Rollback
  <2>4. \A n \in Msg : n # m => Occurrences(n, rows') = Occurrences(n, rows)
    <3> HIDE DEF m
    <3>1. \A n \in Msg : Occurrences(n, rows) \in Nat
      BY <1>a
    <3>2. \A n \in Msg : n # m => Occurrences(n, r) = Occurrences(n, rows)
      BY <2>a, <3>1
    <3> QED BY <2>2, <3>2
  <2>5. Occurrences(m, rows') \in Nat /\ Occurrences(m, rows') <= Occurrences(m, rows) + 1
    <3> HIDE DEF m
    <3>1. m \in Msg /\ Occurrences(m, rows) \in Nat
      BY <1>a, <2>1
    <3>2. Occurrences(m, r) = Occurrences(m, rows) + 1
      BY <2>a, <3>1
    <3> QED BY <2>2, <3>1, <3>2
  <2>6. Occurrences(m, rows) <= attempt
    BY <1>a, <2>1 DEF Copied, Passed
  <2>7. /\ status[m] = "accepted" /\ \A i \in 1..Len(queue) : queue[i] # m
        /\ \A i \in 1..Len(batch) : i # k => batch[i] # m
    <3>1. /\ Inbox \in Seq(Msg) /\ Len(Inbox) = Len(batch) + Len(queue)
          /\ \A i \in 1..Len(batch) : Inbox[i] = batch[i]
          /\ \A i \in 1..Len(queue) : Inbox[Len(batch) + i] = queue[i]
      BY <1>a, ConcatProperties DEF Inbox
    <3> HIDE DEF k
    <3>2. /\ \A i \in 1..Len(batch) : i \in 1..Len(Inbox)
          /\ \A i \in 1..Len(queue) : Len(batch) + i \in 1..Len(Inbox) /\ Len(batch) + i # k
      <4>1. Len(batch) \in Nat /\ Len(queue) \in Nat /\ Len(Inbox) = Len(batch) + Len(queue) /\ k \in 1..Len(batch)
        BY <1>a, <2>1, <3>1
      <4> QED BY <4>1
    <3>3. \A i, j \in 1..Len(Inbox) : Inbox[i] = Inbox[j] => i = j
      BY DEF Distinct
    <3>4. Inbox[k] = m /\ k \in 1..Len(Inbox)
      BY <2>1, <3>1, <3>2
    <3>5. status[m] = "accepted"
      BY <3>4 DEF Distinct
    <3> QED BY <2>1, <3>1, <3>2, <3>3, <3>4, <3>5
  <2>8. \A i \in 1..Len(batch) : Passed(i)' \in Nat /\ (i = k => Passed(i)' = 1) /\ Passed(i) <= Passed(i)' /\ Passed(i) \in Nat
    BY <1>a, <2>1, <2>3 DEF Passed
  <2> HIDE DEF k, m
  <2>9. \A i \in 1..Len(batch) : Occurrences(batch[i], rows') <= attempt + Passed(i)'
    <3> TAKE i \in 1..Len(batch)
    <3>1. CASE i = k
      <4>1. batch[i] = m
        BY <3>1 DEF m
      <4> QED BY <1>a, <2>1, <2>5, <2>6, <2>8, <3>1, <4>1
    <3>2. CASE i # k
      <4>1. Occurrences(batch[i], rows') = Occurrences(batch[i], rows)
        BY <1>a, <2>4, <2>7, <3>2
      <4> QED BY <1>a, <2>8, <4>1 DEF Copied
    <3> QED BY <3>1, <3>2
  <2>10. \A i \in 1..Len(queue) : Occurrences(queue[i], rows') = 0
    BY <1>a, <2>4, <2>7 DEF Copied
  <2>11. \A n \in Msg : status[n] # "accepted" => Occurrences(n, rows') = 0
    BY <2>4, <2>7 DEF Copied
  <2>12. Copied'
    BY <2>1, <2>9, <2>10, <2>11 DEF Copied
  <2>13. CopiesBounded'
    <3>1. Occurrences(m, rows') <= MaxRetries
      BY <1>a, <2>1, <2>5, <2>6
    <3> QED BY <2>4, <3>1 DEF CopiesBounded
  <2> QED BY <2>12, <2>13
<1>10. CASE Commit
  <2>1. /\ UNCHANGED <<status, queue, batch, attempt, rows>> /\ pc = "commit"
        /\ \/ pc' = "publish" /\ inserted' = inserted
           \/ pc' = "backoff" /\ inserted' = 0
    BY <1>10 DEF Commit, Rollback
  <2>2. \A i \in 1..Len(batch) : Passed(i) <= Passed(i)' /\ Passed(i) \in Nat /\ Passed(i)' \in Nat
    BY <1>a, <2>1 DEF Passed
  <2>3. \A i \in 1..Len(batch) : Occurrences(batch[i], rows) <= attempt + Passed(i)'
    BY <1>a, <2>2 DEF Copied
  <2> QED BY <2>1, <2>3 DEF Copied, CopiesBounded
<1>11. CASE Publish
  <2>1. /\ UNCHANGED <<status, queue, rows>> /\ batch' = Tail(batch) /\ batch # <<>>
        /\ inserted = Len(batch) /\ inserted' = inserted - 1
    BY <1>11, InboxPublish DEF Publish, Placed
  <2>2. /\ Len(batch') = Len(batch) - 1
        /\ \A i \in 1..Len(batch') : batch'[i] = batch[i + 1] /\ i + 1 \in 1..Len(batch)
    BY <1>a, <2>1, HeadTailProperties
  <2>3. Len(batch) > 1 => attempt' = attempt
    <3>1. ASSUME Len(batch) = 1 PROVE ~(Len(batch) > 1)
      BY <3>1
    <3> QED BY <1>11, <3>1 DEF Publish
  <2>4. \A i \in 1..Len(batch') : Occurrences(batch'[i], rows) <= attempt' + Passed(i)'
    <3> TAKE i \in 1..Len(batch')
    <3>1. Len(batch) > 1
      BY <1>a, <2>2
    <3>2. Passed(i + 1) = 1 /\ Passed(i)' = 1
      BY <1>a, <2>1, <2>2 DEF Passed
    <3> QED BY <2>2, <2>3, <3>1, <3>2 DEF Copied
  <2> QED BY <2>1, <2>4 DEF Copied, CopiesBounded
<1>12. CASE Retry
  <2>1. /\ UNCHANGED <<status, queue, batch, inserted, rows>> /\ pc = "backoff" /\ attempt' = attempt + 1
        /\ pc' = "begin"
    BY <1>12 DEF Retry, NextAttempt
  <2>2. \A i \in 1..Len(batch) : Passed(i) = 1 /\ Passed(i)' \in Nat
    BY <2>1 DEF Passed
  <2>3. \A i \in 1..Len(batch) : Occurrences(batch[i], rows) <= attempt' + Passed(i)'
    BY <1>a, <2>1, <2>2 DEF Copied
  <2> QED BY <2>1, <2>3 DEF Copied, CopiesBounded
<1>13. CASE GiveUp
  <2>1. UNCHANGED <<status, queue, rows>> /\ Len(batch') = 0
    BY <1>13, NoMessages DEF GiveUp, EmptyBatch
  <2> QED BY <2>1 DEF Copied, CopiesBounded
<1>14. CASE Crash
  <2>1. rows' = rows /\ Len(batch') = 0 /\ Len(queue') = 0
    BY <1>14, NoMessages DEF Crash
  <2>2. \A n \in Msg : status'[n] # "accepted" => status[n] # "accepted"
    BY <1>14, <1>a DEF Crash
  <2> QED BY <2>1, <2>2 DEF Copied, CopiesBounded
<1>15. CASE UNCHANGED vars
  BY <1>15 DEF vars, Copied, Passed, CopiesBounded
<1> QED
  BY <1>1, <1>2, <1>3, <1>4, <1>5, <1>6, <1>7, <1>8, <1>9, <1>10, <1>11, <1>12, <1>13, <1>14, <1>15 DEF Next, BatchWriter

-----------------------------------------------------------------------------
(* What disturbed the writer once is remembered. *)
LEMMA UndisturbedBefore ==
  ASSUME TypeOK, [Next]_vars, Undisturbed'
  PROVE  Undisturbed /\ faults' = faults
<1> USE DEF senderVars, memVars
<1>a. faults \in Nat /\ status \in [Msg -> {"unsent", "calling", "accepted", "refused"}]
  BY Bounds DEF TypeOK
<1>1. faults' = faults \/ faults' = faults + 1
  BY DEF Next, vars, BatchWriter, Call, QueueMessage, Stop, StopReturns, Receive, FlushOnTick, FlushOnDone,
         Begin, CreateMessage, Commit, Publish, Retry, GiveUp, Crash, Fault
<1>2. Known \subseteq Known'
  <2>1. CASE status' = status
    BY <2>1 DEF Known
  <2>2. ASSUME NEW m \in Msg, status[m] \in {"unsent", "calling"}, NEW v, status' = [status EXCEPT ![m] = v]
        PROVE  Known \subseteq Known'
    BY <1>a, <2>2 DEF Known
  <2>3. CASE Crash
    BY <1>a, <2>3 DEF Crash, Known
  <2>4. ASSUME NEW m \in Msg, Call(m) \/ QueueMessage(m)
        PROVE  status' = status \/ \E v : status[m] \in {"unsent", "calling"} /\ status' = [status EXCEPT ![m] = v]
    BY <2>4 DEF Call, QueueMessage, Refuse
  <2>5. CASE UNCHANGED vars \/ Stop \/ StopReturns \/ BatchWriter
    BY <2>1, <2>5 DEF vars, BatchWriter, Stop, StopReturns, Receive, FlushOnTick, FlushOnDone,
         Begin, CreateMessage, Commit, Publish, Retry, GiveUp
  <2> QED BY <2>1, <2>2, <2>3, <2>4, <2>5 DEF Next
<1> QED BY <1>a, <1>1, <1>2 DEF Undisturbed

(* An undisturbed writer never comes to a second attempt. *)
LEMMA SmoothStep == TypeOK /\ Placed /\ Distinct /\ Smooth /\ [Next]_vars => Smooth'
<1> SUFFICES ASSUME TypeOK, Placed, Distinct, Smooth, [Next]_vars, Undisturbed'
             PROVE  pc' # "backoff" /\ attempt' = 0
  BY DEF Smooth
<1> USE DEF senderVars, memVars
<1>a. Undisturbed /\ faults' = faults /\ pc # "backoff" /\ attempt = 0 /\ faults \in Nat
  BY UndisturbedBefore, Bounds DEF Smooth, TypeOK
<1>b. ~Fault
  BY <1>a DEF Fault
<1>9. CASE CreateMessage
  <2>1. batch[inserted + 1] \notin Poison
    <3>1. inserted + 1 \in 1..Len(batch) /\ batch[inserted + 1] \in Msg
      BY <1>9 DEF CreateMessage, Placed, TypeOK
    <3>2. status[batch[inserted + 1]] = "accepted"
      BY <3>1, InboxType DEF Distinct
    <3> QED BY <1>a, <3>1, <3>2 DEF Undisturbed, Known
  <2> QED BY <1>9, <1>a, <1>b, <2>1 DEF CreateMessage
<1>10. CASE UNCHANGED vars \/ Stop \/ StopReturns \/ \E m \in Msg : Call(m) \/ QueueMessage(m)
  BY <1>a, <1>10 DEF vars, Stop, StopReturns, Call, QueueMessage
<1>11. CASE Receive \/ FlushOnTick \/ FlushOnDone
  BY <1>a, <1>11 DEF Receive, FlushOnTick, FlushOnDone
<1>12. CASE Begin \/ Commit \/ Publish
  BY <1>a, <1>b, <1>12 DEF Begin, Commit, Publish, Return
<1>13. CASE Retry \/ GiveUp \/ Crash
  BY <1>a, <1>b, <1>13 DEF Retry, GiveUp, Crash
<1> QED
  BY <1>9, <1>10, <1>11, <1>12, <1>13 DEF Next, BatchWriter

(* Nor does it lose a message or store one twice. *)
LEMMA LostStep == TypeOK /\ Placed /\ Distinct /\ Copied /\ Smooth /\ NothingLost /\ [Next]_vars => NothingLost'
<1> DEFINE Waits(m) == \E i \in 1..Len(Inbox) : Inbox[i] = m
           Told(m)  == \E i \in 1..Len(feed) : feed[i].msg = m
<1> SUFFICES ASSUME TypeOK, Placed, Distinct, Copied, Smooth, NothingLost, [Next]_vars, Undisturbed'
             PROVE  /\ \A m \in Known' : Waits(m)' \/ Told(m)'
                    /\ \A m \in Msg : Occurrences(m, rows') <= 1
  BY DEF NothingLost
<1> USE DEF senderVars, memVars
<1>a. /\ Undisturbed /\ faults' = faults /\ pc # "backoff" /\ attempt = 0 /\ faults \in Nat /\ ~Fault
      /\ \A m \in Known : Waits(m) \/ Told(m)
      /\ \A m \in Msg : Occurrences(m, rows) <= 1
  <2>1. Undisturbed /\ faults' = faults /\ faults \in Nat
    BY UndisturbedBefore, Bounds DEF TypeOK
  <2>2. ~Fault
    BY <2>1 DEF Fault
  <2> QED BY <2>1, <2>2 DEF Smooth, NothingLost
<1>b. /\ status \in [Msg -> {"unsent", "calling", "accepted", "refused"}]
      /\ Inbox \in Seq(Msg) /\ Len(Inbox) \in Nat
  BY InboxType DEF TypeOK
<1>1. ASSUME Known' = Known, UNCHANGED rows, Inbox' = Inbox, UNCHANGED feed
      PROVE  /\ \A m \in Known' : Waits(m)' \/ Told(m)'
             /\ \A m \in Msg : Occurrences(m, rows') <= 1
  BY <1>a, <1>1
<1>2. ASSUME NEW m \in Msg, Call(m)
      PROVE  Known' = Known /\ UNCHANGED rows /\ Inbox' = Inbox /\ UNCHANGED feed
  BY <1>b, <1>2 DEF Call, Known, Inbox
<1>3. ASSUME NEW m \in Msg, QueueMessage(m)
      PROVE  /\ \A n \in Known' : Waits(n)' \/ Told(n)'
             /\ \A n \in Msg : Occurrences(n, rows') <= 1
  <2>1. UNCHANGED <<batch, rows, feed>> /\ status[m] = "calling"
    BY <1>3 DEF QueueMessage
  <2>2. CASE queue' = Append(queue, m) /\ status' = [status EXCEPT ![m] = "accepted"]
    <3>1. Inbox' = Append(Inbox, m)
      BY <2>1, <2>2, InboxQueue
    <3>2. /\ Len(Inbox') = Len(Inbox) + 1 /\ Inbox'[Len(Inbox) + 1] = m
          /\ \A i \in 1..Len(Inbox) : Inbox'[i] = Inbox[i] /\ i \in 1..(Len(Inbox) + 1)
          /\ Len(Inbox) + 1 \in 1..(Len(Inbox) + 1)
      BY <1>b, <3>1, AppendProperties
    <3>3. \A n \in Known' : n = m \/ n \in Known
      BY <1>b, <2>2 DEF Known
    <3>4. \A n \in Known' : Waits(n)' \/ Told(n)'
      BY <1>a, <2>1, <3>2, <3>3
    <3> QED BY <1>a, <2>1, <3>4
  <2>3. CASE queue' = queue /\ status' = [status EXCEPT ![m] = "refused"]
    <3>1. Known' = Known /\ Inbox' = Inbox
      BY <1>b, <2>1, <2>3 DEF Known, Inbox
    <3> QED BY <1>1, <2>1, <3>1
  <2> QED
    BY <1>3, <2>2, <2>3 DEF QueueMessage, Refuse
<1>4. CASE UNCHANGED vars \/ Stop \/ StopReturns
  BY <1>1, <1>4 DEF vars, Stop, StopReturns, Known, Inbox
<1>5. CASE Receive
  <2>1. Inbox' = Inbox
    BY <1>5, InboxReceive
  <2> QED BY <1>1, <1>5, <2>1 DEF Receive, Known
<1>6. CASE FlushOnTick \/ FlushOnDone \/ Begin \/ Commit
  BY <1>1, <1>6 DEF FlushOnTick, FlushOnDone, Begin, Commit, Known, Inbox
<1>7. CASE CreateMessage
  <2> DEFINE m == batch[inserted + 1]
             r == Append(rows, m)
  <2>1. inserted + 1 \in 1..Len(batch) /\ m \in Msg /\ ~(inserted + 1 <= inserted)
    BY <1>7 DEF CreateMessage, Placed, TypeOK
  <2>2. UNCHANGED <<status, queue, batch, feed>> /\ (rows' = rows \/ rows' = r)
    BY <1>7 DEF CreateMessage
  <2>3. Known' = Known /\ Inbox' = Inbox
    BY <2>2 DEF Known, Inbox
  <2>4. \A n \in Msg : /\ Occurrences(n, rows) \in Nat
                       /\ Occurrences(n, r) = Occurrences(n, rows) + (IF m = n THEN 1 ELSE 0)
    <3>1. rows \in Seq(Msg)
      BY DEF TypeOK
    <3> QED BY <2>1, <3>1, OneMore
  <2>5. Occurrences(m, rows) <= 0
    BY <1>a, <2>1 DEF Copied, Passed
  <2> HIDE DEF m, r
  <2>6. \A n \in Msg : Occurrences(n, r) <= 1
    <3> TAKE n \in Msg
    <3>1. CASE n = m
      BY <2>4, <2>5, <3>1
    <3>2. CASE n # m
      BY <1>a, <2>4, <3>2
    <3> QED BY <3>1, <3>2
  <2> QED BY <1>a, <2>2, <2>3, <2>6
<1>8. CASE Publish
  <2> DEFINE a == [msg |-> Head(batch), id |-> id[Head(batch)]]
  <2>1. /\ Inbox' = Tail(Inbox) /\ Inbox # <<>> /\ Head(Inbox) = Head(batch)
        /\ batch # <<>> /\ batch \in Seq(Msg) /\ id \in [Msg -> Nat]
    BY <1>8, InboxPublish DEF Publish, Placed, TypeOK
  <2>2. Known' = Known /\ UNCHANGED rows /\ feed' = Append(feed, a)
    BY <1>a, <1>8 DEF Publish, Known
  <2>3. /\ Len(Inbox') = Len(Inbox) - 1 /\ Inbox[1] = a.msg
        /\ \A i \in 1..Len(Inbox') : Inbox'[i] = Inbox[i + 1]
    BY <1>b, <2>1, HeadTailProperties
  <2>4. /\ feed \in Seq([msg : Msg, id : Nat]) /\ a \in [msg : Msg, id : Nat]
    <3>1. Head(batch) \in Msg
      BY <2>1, HeadTailProperties
    <3> QED BY <2>1, <3>1 DEF TypeOK
  <2> HIDE DEF a
  <2>5. /\ Len(feed') = Len(feed) + 1 /\ feed'[Len(feed) + 1] = a /\ Len(feed) \in Nat
        /\ \A j \in 1..Len(feed) : feed'[j] = feed[j] /\ j \in 1..(Len(feed) + 1)
        /\ Len(feed) + 1 \in 1..(Len(feed) + 1)
    <3> DEFINE R == [msg : Msg, id : Nat]
    <3> HIDE DEF R
    <3>1. feed \in Seq(R) /\ a \in R
      BY <2>4 DEF R
    <3> QED BY <2>2, <3>1, AppendProperties
  <2>6. \A i \in 1..Len(Inbox) : i = 1 \/ (i - 1 \in 1..Len(Inbox') /\ (i - 1) + 1 = i)
    BY <1>b, <2>3
  <2>7. ASSUME NEW n \in Known, Waits(n) PROVE Waits(n)' \/ Told(n)'
    <3>1. PICK i \in 1..Len(Inbox) : Inbox[i] = n
      BY <2>7
    <3>2. CASE i = 1
      BY <2>3, <2>5, <3>1, <3>2
    <3>3. CASE i # 1
      <4>1. i - 1 \in 1..Len(Inbox') /\ Inbox'[i - 1] = n
        BY <2>3, <2>6, <3>1, <3>3
      <4> QED BY <4>1
    <3> QED BY <3>2, <3>3
  <2>8. ASSUME NEW n \in Known, Told(n) PROVE Told(n)'
    BY <2>5, <2>8
  <2> QED BY <1>a, <2>2, <2>7, <2>8
<1>9. CASE Retry \/ GiveUp \/ Crash
  BY <1>a, <1>9 DEF Retry, GiveUp, Crash
<1> QED
  BY <1>1, <1>2, <1>3, <1>4, <1>5, <1>6, <1>7, <1>8, <1>9 DEF Next, BatchWriter

-----------------------------------------------------------------------------
(* The writer goes on until it is told to stop, and exits with an empty batch. *)
LEMMA DownStep == TypeOK /\ Placed /\ Down /\ [Next]_vars => Down'
<1> SUFFICES ASSUME TypeOK, Placed, Down, [Next]_vars
             PROVE  Down'
  OBVIOUS
<1> USE DEF senderVars, memVars, Down
<1>1. CASE UNCHANGED vars \/ StopReturns \/ \E m \in Msg : Call(m) \/ QueueMessage(m)
  BY <1>1 DEF vars, StopReturns, Call, QueueMessage
<1>2. CASE Stop
  BY <1>2 DEF Stop
<1>3. CASE Receive \/ FlushOnTick \/ FlushOnDone
  BY <1>3 DEF Receive, FlushOnTick, FlushOnDone
<1>4. CASE Begin \/ CreateMessage \/ Commit \/ Retry
  BY <1>4 DEF Begin, CreateMessage, Commit, Retry
<1>5. ASSUME pc # "exit", stop' = stop, final' = final,
             \/ pc' = pc
             \/ batch' = <<>> /\ pc' = IF final THEN "exit" ELSE "select"
      PROVE  Down'
  BY <1>5
<1>6. CASE Publish \/ GiveUp
  <2>1. pc # "exit" /\ stop' = stop /\ final' = final
    BY <1>6 DEF Publish, GiveUp
  <2>2. \/ pc' = pc
        \/ batch' = <<>> /\ pc' = IF final THEN "exit" ELSE "select"
    BY <1>6 DEF Publish, GiveUp, Return, EmptyBatch
  <2> QED
    BY <1>5, <2>1, <2>2
<1>7. CASE Crash
  <2>1. stop' = "no" /\ pc' = "select" /\ final' = FALSE
    BY <1>7 DEF Crash
  <2> QED
    BY <2>1, Zenon
<1> QED
  BY <1>1, <1>2, <1>3, <1>4, <1>6, <1>7 DEF Next, BatchWriter

-----------------------------------------------------------------------------
(* A fresh writer satisfies the inductive invariant. *)
LEMMA InitInv == Init => IInv
<1> SUFFICES ASSUME Init PROVE IInv
  OBVIOUS
<1> USE Bounds, NoMessages DEF Init
<1>1. TypeOK
  <2>1. feed \in Seq([msg : Msg, id : Nat])
    BY EmptySeq
  <2>2. status \in [Msg -> {"unsent", "calling", "accepted", "refused"}] /\ id \in [Msg -> Nat]
    OBVIOUS
  <2>3. /\ queue \in Seq(Msg) /\ Len(queue) <= QueueCap /\ batch \in Seq(Msg) /\ Len(batch) <= BatchSize
        /\ rows \in Seq(Msg) /\ inserted \in 0..Len(batch)
    OBVIOUS
  <2>4. attempt \in 0..(MaxRetries - 1) /\ faults \in 0..MaxFaults
    OBVIOUS
  <2>5. /\ stop \in {"no", "waiting", "returned"}
        /\ pc \in {"select", "begin", "insert", "commit", "publish", "backoff", "exit"}
    OBVIOUS
  <2>6. final \in BOOLEAN
    BY Zenon
  <2> QED
    BY ONLY <2>1, <2>2, <2>3, <2>4, <2>5, <2>6 DEF TypeOK
<1>2. Placed /\ Stored /\ FeedFaithful
  BY DEF Placed, Stored, FeedFaithful
<1>3. Distinct
  <2>1. Inbox = <<>>
    BY ConcatEmptySeq DEF Inbox
  <2> QED
    BY <2>1 DEF Distinct
<1>4. Copied /\ CopiesBounded
  <2>1. rows = <<>> /\ DOMAIN <<>> = {}
    OBVIOUS
  <2>2. \A m \in Msg : Occurrences(m, rows) = 0
    BY <2>1, FS_EmptySet DEF Occurrences
  <2> QED
    BY <2>2 DEF Copied, CopiesBounded
<1>5. Known = {} /\ \A m \in Msg : Occurrences(m, rows) = 0
  <2>1. rows = <<>> /\ DOMAIN <<>> = {}
    OBVIOUS
  <2> QED
    BY <2>1, FS_EmptySet DEF Occurrences, Known
<1>6. Smooth /\ NothingLost
  BY <1>5 DEF Smooth, NothingLost
<1>7. Down
  BY Zenon DEF Down
<1> QED
  BY <1>1, <1>2, <1>3, <1>4, <1>6, <1>7 DEF IInv

(* And every step keeps it. *)
LEMMA StepInv == IInv /\ [Next]_vars => IInv'
BY TypeStep, PlacedStep, DistinctStep, FaithfulStep, CopiedStep, SmoothStep, LostStep, DownStep DEF IInv

(* In every reachable state the inbox holds distinct accepted messages, and what is *)
(* about to be announced is stored under fresh ids.                                 *)
THEOREM Invariance == Spec => []IInv
<1>1. Init => IInv
  BY InitInv
<1>2. IInv /\ [Next]_vars => IInv'
  BY StepInv
<1> QED
  BY <1>1, <1>2, PTL DEF Spec

(* Neither the queue nor the batch outgrows its bound, and writeBatch never goes *)
(* beyond its last attempt.                                                      *)
THEOREM TypeCorrect == Spec => []TypeOK
<1>1. IInv => TypeOK
  BY DEF IInv
<1> QED
  BY <1>1, Invariance, PTL

(* Announcements name the rows of their messages, in the order of the table. *)
THEOREM AnnouncementsAreFaithful == Spec => []FeedFaithful
<1>1. IInv => FeedFaithful
  BY DEF IInv
<1> QED
  BY <1>1, Invariance, PTL

(* However often a batch is retried, and wherever an attempt fails, a message has *)
(* at most MaxRetries rows.                                                       *)
THEOREM CopiesAreBounded == Spec => []CopiesBounded
<1>1. IInv => CopiesBounded
  BY DEF IInv
<1> QED
  BY <1>1, Invariance, PTL

(* Unless something fails, what was accepted is waiting or announced, and stored *)
(* once.                                                                        *)
THEOREM NothingGetsLost == Spec => []NothingLost
<1>1. IInv => NothingLost
  BY DEF IInv
<1> QED
  BY <1>1, Invariance, PTL

(* Once Stop has returned, the writer stores and announces nothing, and its batch *)
(* is empty for good.                                                            *)
THEOREM StopLeavesQuiet == Spec => StoppedIsQuiet
<1> DEFINE Quiet == (stop = "returned" /\ stop' = "returned") => UNCHANGED <<rows, feed, batch>>
<1>1. IInv /\ [Next]_vars => [Quiet]_vars
  <2> SUFFICES ASSUME Placed, Down, Next, stop = "returned", stop' = "returned"
               PROVE  UNCHANGED <<rows, feed, batch>>
    BY DEF IInv
  <2>1. pc = "exit"
    BY DEF Down
  <2> QED
    BY <2>1 DEF Next, BatchWriter, Call, QueueMessage, Stop, StopReturns, Receive, FlushOnTick, FlushOnDone,
                Begin, CreateMessage, Commit, Publish, Retry, GiveUp, Crash, senderVars, memVars
<1>2. [][Quiet]_vars => StoppedIsQuiet
  BY PTL DEF StoppedIsQuiet
<1> QED
  BY <1>1, <1>2, Invariance, PTL DEF Spec

-----------------------------------------------------------------------------
(* The announcements are messages, and one more announcement appends its message. *)
LEMMA AnnouncedAppend ==
  ASSUME TypeOK, NEW a \in [msg : Msg, id : Nat], feed' = Append(feed, a)
  PROVE  Announced' = Append(Announced, a.msg)
<1>1. /\ feed \in Seq([msg : Msg, id : Nat]) /\ Len(feed) \in Nat
      /\ Len(feed') = Len(feed) + 1 /\ feed'[Len(feed) + 1] = a
      /\ \A i \in 1..Len(feed) : feed'[i] = feed[i] /\ feed[i].msg \in Msg
  <2> DEFINE R == [msg : Msg, id : Nat]
  <2>1. feed \in Seq(R) /\ a \in R /\ \A r \in R : r.msg \in Msg
    BY DEF TypeOK
  <2> HIDE DEF R
  <2>2. /\ Len(feed) \in Nat /\ \A i \in 1..Len(feed) : feed[i] \in R
        /\ Len(Append(feed, a)) = Len(feed) + 1 /\ Append(feed, a)[Len(feed) + 1] = a
        /\ \A i \in 1..Len(feed) : Append(feed, a)[i] = feed[i]
    BY <2>1, AppendProperties
  <2> QED
    BY <2>1, <2>2 DEF R
<1>2. Announced \in Seq(Msg) /\ Len(Announced) = Len(feed) /\ \A i \in 1..Len(feed) : Announced[i] = feed[i].msg
  BY <1>1 DEF Announced
<1>3. \A i \in 1..(Len(feed) + 1) : i \in 1..Len(feed) \/ i = Len(feed) + 1
  BY <1>1
<1>4. \A i \in 1..(Len(feed) + 1) : feed'[i].msg \in Msg
  BY <1>1, <1>3
<1>5. /\ Announced' \in Seq(Msg) /\ Len(Announced') = Len(feed) + 1
      /\ \A i \in 1..(Len(feed) + 1) : Announced'[i] = feed'[i].msg
  BY <1>1, <1>4 DEF Announced
<1>6. /\ Append(Announced, a.msg) \in Seq(Msg) /\ Len(Append(Announced, a.msg)) = Len(feed) + 1
      /\ Append(Announced, a.msg)[Len(feed) + 1] = a.msg
      /\ \A i \in 1..Len(feed) : Append(Announced, a.msg)[i] = Announced[i]
  BY <1>1, <1>2, AppendProperties
<1>7. \A i \in 1..(Len(feed) + 1) : Announced'[i] = Append(Announced, a.msg)[i]
  BY <1>1, <1>2, <1>3, <1>5, <1>6
<1> QED
  BY <1>5, <1>6, <1>7, SeqEqual

(* Every step of the writer is a step of the log or leaves it alone. *)
LEMMA LogStep == IInv /\ [Next]_vars => [Log!Next]_(Log!vars)
<1> DEFINE LogNext == Log!Next \/ UNCHANGED <<Known, Inbox, Announced>>
<1> SUFFICES ASSUME IInv, [Next]_vars PROVE LogNext
  BY DEF Log!vars, Known
<1> USE DEF IInv, senderVars, memVars
<1>1. ASSUME NEW m \in Msg, Call(m) PROVE LogNext
  <2>1. status[m] = "unsent" /\ status' = [status EXCEPT ![m] = "calling"] 
    BY <1>1 DEF Call
  <2>2. Known' = Known
    <3>1. status \in [Msg -> {"unsent", "calling", "accepted", "refused"}]
      BY DEF TypeOK
    <3> QED
      BY <2>1, <3>1 DEF Known
  <2>3. Inbox' = Inbox /\ Announced' = Announced
    BY <1>1 DEF Call, Inbox, Announced
  <2> QED
    BY <2>2, <2>3
<1>2. ASSUME NEW m \in Msg, QueueMessage(m) PROVE LogNext
  <2>1. status[m] = "calling" /\ feed' = feed /\ batch' = batch
    BY <1>2 DEF QueueMessage
  <2>2. status \in [Msg -> {"unsent", "calling", "accepted", "refused"}]
    BY DEF TypeOK
  <2>3. Announced' = Announced
    BY <2>1 DEF Announced
  <2>4. CASE queue' = Append(queue, m) /\ status' = [status EXCEPT ![m] = "accepted"]
    <3>1. m \notin Known /\ Known' = Known \cup {m}
      BY <2>1, <2>2, <2>4 DEF Known
    <3>2. Inbox' = Append(Inbox, m)
      BY <2>1, <2>4, InboxQueue
    <3> QED
      BY <2>3, <3>1, <3>2 DEF Log!Next, Log!Accept
  <2>5. CASE queue' = queue /\ status' = [status EXCEPT ![m] = "refused"]
    <3>1. Known' = Known
      BY <2>1, <2>2, <2>5 DEF Known
    <3>2. Inbox' = Inbox
      BY <2>1, <2>5 DEF Inbox
    <3> QED
      BY <2>3, <3>1, <3>2
  <2> QED
    BY <1>2, <2>4, <2>5 DEF QueueMessage, Refuse
<1>3. CASE Stop
  BY <1>3 DEF Stop, Known, Inbox, Announced
<1>4. CASE StopReturns
  BY <1>4 DEF StopReturns, Known, Inbox, Announced
<1>5. CASE Receive
  <2>1. Inbox' = Inbox /\ status' = status /\ feed' = feed
    BY <1>5, InboxReceive DEF Receive
  <2> QED
    BY <2>1 DEF Known, Announced
<1>6. CASE FlushOnTick
  BY <1>6 DEF FlushOnTick, FlushDue, Known, Inbox, Announced
<1>7. CASE FlushOnDone
  BY <1>7 DEF FlushOnDone, Known, Inbox, Announced
<1>8. CASE Begin
  BY <1>8 DEF Begin, Fault, Known, Inbox, Announced
<1>9. CASE CreateMessage
  BY <1>9 DEF CreateMessage, Fault, Rollback, ReturnsId, Known, Inbox, Announced
<1>10. CASE Commit
  BY <1>10 DEF Commit, Fault, Rollback, Known, Inbox, Announced
<1>11. CASE Publish
  <2> DEFINE a == [msg |-> Head(batch), id |-> id[Head(batch)]]
  <2>1. /\ Inbox' = Tail(Inbox) /\ Inbox # <<>> /\ Head(Inbox) = Head(batch)
        /\ Inbox \in Seq(Msg) /\ Len(Inbox) \in Nat
    BY <1>11, InboxPublish, InboxType
  <2>2. Known' = Known
    BY <1>11 DEF Publish, Known
  <2>3. CASE feed' = Append(feed, a)
    <3>1. batch \in Seq(Msg) /\ batch # <<>> /\ id \in [Msg -> Nat]
      BY <1>11 DEF Publish, Placed, TypeOK
    <3>2. a \in [msg : Msg, id : Nat] /\ a.msg = Head(batch)
      BY <3>1, HeadTailProperties
    <3> HIDE DEF a
    <3>3. Announced' = Append(Announced, Head(Inbox))
      BY <2>1, <2>3, <3>2, AnnouncedAppend
    <3> QED
      BY <2>1, <2>2, <3>3 DEF Log!Next, Log!Announce
  <2>4. CASE feed' = feed
    <3>1. Inbox' = SubSeq(Inbox, 1 + 1, Len(Inbox)) /\ 1 \in 1..Len(Inbox)
      BY <2>1, TailIsSubSeq
    <3>2. Announced' = Announced
      BY <2>4 DEF Announced
    <3>3. Log!Forget(1)
      BY <2>2, <3>1, <3>2 DEF Log!Forget
    <3> QED
      BY <3>1, <3>3 DEF Log!Next
  <2> QED
    BY <1>11, <2>3, <2>4 DEF Publish
<1>12. CASE Retry
  BY <1>12 DEF Retry, NextAttempt, MayRetry, Known, Inbox, Announced
<1>13. CASE GiveUp
  <2>1. Inbox' = SubSeq(Inbox, Len(batch) + 1, Len(Inbox))
    BY <1>13, InboxGiveUp
  <2>2. batch # <<>> /\ batch \in Seq(Msg) /\ status' = status /\ feed' = feed
    BY <1>13 DEF GiveUp, Placed, TypeOK
  <2>3. Len(batch) \in 1..Len(Inbox)
    BY <2>2, InboxType
  <2>4. Known' = Known /\ Announced' = Announced
    BY <2>2 DEF Known, Announced
  <2>5. Log!Forget(Len(batch))
    BY <2>1, <2>3, <2>4 DEF Log!Forget
  <2> QED
    BY <2>3, <2>5 DEF Log!Next
<1>14. CASE Crash
  <2>1. Inbox' = <<>> /\ Inbox \in Seq(Msg) /\ Len(Inbox) \in Nat /\ feed' = feed
    BY <1>14, InboxCrash, InboxType DEF Crash
  <2>2. Known' = Known /\ Announced' = Announced
    <3>1. status \in [Msg -> {"unsent", "calling", "accepted", "refused"}]
      BY DEF TypeOK
    <3>2. status' = [m \in Msg |-> IF status[m] = "calling" THEN "refused" ELSE status[m]]
      BY <1>14 DEF Crash
    <3> QED
      BY <2>1, <3>1, <3>2 DEF Known, Announced
  <2>3. CASE Inbox = <<>>
    BY <2>1, <2>2, <2>3
  <2>4. CASE Inbox # <<>>
    <3>1. Len(Inbox) \in 1..Len(Inbox)
      BY <2>1, <2>4, EmptyIff
    <3>2. Inbox' = SubSeq(Inbox, Len(Inbox) + 1, Len(Inbox))
      BY <2>1, SubSeqEmpty
    <3>3. Log!Forget(Len(Inbox))
      BY <2>2, <3>1, <3>2 DEF Log!Forget
    <3> QED
      BY <3>1, <3>3 DEF Log!Next
  <2> QED
    BY <2>3, <2>4
<1>15. CASE UNCHANGED vars
  BY <1>15 DEF vars, Known, Inbox, Announced
<1> QED
  BY <1>1, <1>2, <1>3, <1>4, <1>5, <1>6, <1>7, <1>8, <1>9, <1>10, <1>11, <1>12, <1>13, <1>14, <1>15 DEF Next, BatchWriter

(* The writer implements MessageLog: each message it accepts is announced at most *)
(* once and in the order of acceptance, for any retries, losses and crashes.      *)
THEOREM WriterImplementsLog == Spec => ImplementsLog
<1>1. Init => Log!Init
  <2>1. ASSUME Init PROVE Known = {} /\ Inbox = <<>> /\ Announced = <<>>
    <3>1. Known = {}
      BY <2>1 DEF Init, Known
    <3>2. Inbox = <<>>
      BY <2>1, NoMessages, ConcatEmptySeq DEF Init, Inbox
    <3>3. Len(feed) = 0
      BY <2>1, NoMessages DEF Init
    <3>4. Announced = <<>>
      BY <3>3 DEF Announced
    <3> QED
      BY <3>1, <3>2, <3>4
  <2> QED
    BY <2>1 DEF Log!Init
<1>2. IInv /\ [Next]_vars => [Log!Next]_(Log!vars)
  BY LogStep
<1> QED
  BY <1>1, <1>2, Invariance, PTL DEF Spec, ImplementsLog, Log!Spec

=============================================================================
