----------------------------- MODULE PoolProofs -----------------------------
(***************************************************************************)
(* What holds of the pool for every number of connections and users, and   *)
(* every batch.                                                            *)
(***************************************************************************)
EXTENDS Pool, SequenceTheorems, TLAPS

(* A place of a caller; the queue, as a set and without repetition. *)
Place == {"idle", "next", "wait", "done", "cut"} \cup Holding
In(q, p) == \E i \in DOMAIN q : q[i] = p
Distinct(q) == \A i, j \in DOMAIN q : q[i] = q[j] => i = j
Without(q, k) == [j \in 1..(Len(q) - 1) |-> q[IF j < k THEN j ELSE j + 1]]

-----------------------------------------------------------------------------
(* The queue *)
LEMMA Appended ==
  ASSUME NEW S, NEW q \in Seq(S), NEW e \in S, Distinct(q), ~In(q, e)
  PROVE  /\ Append(q, e) \in Seq(S) /\ Distinct(Append(q, e))
         /\ \A p : In(Append(q, e), p) <=> In(q, p) \/ p = e
<1>1. /\ Append(q, e) \in Seq(S) /\ Len(Append(q, e)) = Len(q) + 1 /\ Len(q) \in Nat
      /\ DOMAIN q = 1..Len(q) /\ DOMAIN Append(q, e) = 1..(Len(q) + 1)
      /\ \A i \in 1..Len(q) : Append(q, e)[i] = q[i]
      /\ Append(q, e)[Len(q) + 1] = e
  BY AppendProperties
<1>2. \A i \in 1..(Len(q) + 1) : i \in 1..Len(q) \/ i = Len(q) + 1
  BY <1>1
<1>3. Distinct(Append(q, e))
  BY <1>1, <1>2 DEF Distinct, In
<1>4. \A p : In(Append(q, e), p) <=> In(q, p) \/ p = e
  <2> TAKE p
  <2>1. In(Append(q, e), p) => In(q, p) \/ p = e
    BY <1>1, <1>2 DEF In
  <2>2. In(q, p) => In(Append(q, e), p)
    BY <1>1 DEF In
  <2>3. p = e => In(Append(q, e), p)
    BY <1>1 DEF In
  <2> QED BY <2>1, <2>2, <2>3
<1> QED BY <1>1, <1>3, <1>4

LEMMA Dequeued ==
  ASSUME NEW S, NEW q \in Seq(S), q # <<>>, Distinct(q)
  PROVE  /\ Head(q) \in S /\ Tail(q) \in Seq(S) /\ Distinct(Tail(q))
         /\ In(q, Head(q)) /\ ~In(Tail(q), Head(q))
         /\ \A p : p # Head(q) => (In(Tail(q), p) <=> In(q, p))
<1>1. /\ Head(q) \in S /\ Tail(q) \in Seq(S) /\ Len(Tail(q)) = Len(q) - 1
      /\ \A i \in 1..(Len(q) - 1) : Tail(q)[i] = q[i + 1]
  BY HeadTailProperties
<1>2. /\ Len(q) \in Nat \ {0} /\ DOMAIN q = 1..Len(q) /\ DOMAIN Tail(q) = 1..(Len(q) - 1)
      /\ Head(q) = q[1]
  BY <1>1
<1>3. /\ \A i \in 1..(Len(q) - 1) : i + 1 \in 1..Len(q) /\ i + 1 # 1
      /\ \A i \in 1..Len(q) : i # 1 => i - 1 \in 1..(Len(q) - 1) /\ (i - 1) + 1 = i
      /\ \A i, j \in 1..(Len(q) - 1) : i + 1 = j + 1 => i = j
      /\ 1 \in 1..Len(q)
  BY <1>2
<1>4. Distinct(Tail(q))
  BY <1>1, <1>2, <1>3 DEF Distinct
<1>5. In(q, Head(q)) /\ ~In(Tail(q), Head(q))
  BY <1>1, <1>2, <1>3 DEF In, Distinct
<1>6. \A p : p # Head(q) => (In(Tail(q), p) <=> In(q, p))
  <2> SUFFICES ASSUME NEW p, p # Head(q) PROVE In(Tail(q), p) <=> In(q, p)
    OBVIOUS
  <2>1. In(Tail(q), p) => In(q, p)
    BY <1>1, <1>2, <1>3 DEF In
  <2>2. In(q, p) => In(Tail(q), p)
    <3> SUFFICES ASSUME NEW i \in DOMAIN q, q[i] = p PROVE In(Tail(q), p)
      BY DEF In
    <3>1. i # 1 /\ i - 1 \in DOMAIN Tail(q) /\ Tail(q)[i - 1] = q[i]
      BY <1>1, <1>2, <1>3
    <3> QED BY <3>1 DEF In
  <2> QED BY <2>1, <2>2
<1> QED BY <1>1, <1>4, <1>5, <1>6

(* What Leaves does to the queue. *)
LEMMA Dropped ==
  ASSUME NEW S, NEW q \in Seq(S), Distinct(q), NEW k \in DOMAIN q
  PROVE  /\ Without(q, k) \in Seq(S) /\ Distinct(Without(q, k)) /\ ~In(Without(q, k), q[k])
         /\ \A p : p # q[k] => (In(Without(q, k), p) <=> In(q, p))
<1> DEFINE d == Without(q, k)
           f(j) == IF j < k THEN j ELSE j + 1
<1>1. /\ Len(q) \in Nat \ {0} /\ DOMAIN q = 1..Len(q) /\ Len(q) - 1 \in Nat
      /\ k \in 1..Len(q)
      /\ \A i \in 1..Len(q) : q[i] \in S
  OBVIOUS
<1>2. /\ \A j \in 1..(Len(q) - 1) : f(j) \in 1..Len(q) /\ f(j) # k
      /\ \A i, j \in 1..(Len(q) - 1) : f(i) = f(j) => i = j
      /\ \A i \in 1..Len(q) : i # k => \E j \in 1..(Len(q) - 1) : f(j) = i
  <2>1. \A j \in 1..(Len(q) - 1) : f(j) \in 1..Len(q) /\ f(j) # k
    BY <1>1
  <2>2. \A i, j \in 1..(Len(q) - 1) : f(i) = f(j) => i = j
    BY <1>1
  <2>3. ASSUME NEW i \in 1..Len(q), i # k
        PROVE  \E j \in 1..(Len(q) - 1) : f(j) = i
    <3>1. CASE i < k
      <4>1. i \in 1..(Len(q) - 1) /\ f(i) = i
        BY <1>1, <3>1
      <4> QED BY <4>1
    <3>2. CASE i > k
      <4>1. i - 1 \in 1..(Len(q) - 1) /\ f(i - 1) = i
        BY <1>1, <3>2
      <4> QED BY <4>1
    <3> QED BY <1>1, <2>3, <3>1, <3>2
  <2> QED BY <2>1, <2>2, <2>3
<1>3. DOMAIN d = 1..(Len(q) - 1) /\ \A j \in 1..(Len(q) - 1) : d[j] = q[f(j)]
  BY DEF Without
<1>4. d = [j \in 1..(Len(q) - 1) |-> q[f(j)]]
  BY DEF Without
<1> HIDE DEF d, f
<1>5. d \in Seq(S)
  <2>1. d \in [1..(Len(q) - 1) -> S]
    BY <1>1, <1>2, <1>4
  <2> QED BY <1>1, <2>1, SeqDef
<1>6. Distinct(d)
  BY <1>1, <1>2, <1>3 DEF Distinct
<1>7. ~In(d, q[k])
  BY <1>1, <1>2, <1>3 DEF Distinct, In
<1>8. \A p : p # q[k] => (In(d, p) <=> In(q, p))
  <2> SUFFICES ASSUME NEW p, p # q[k] PROVE In(d, p) <=> In(q, p)
    OBVIOUS
  <2>1. In(d, p) => In(q, p)
    BY <1>1, <1>2, <1>3 DEF In
  <2>2. In(q, p) => In(d, p)
    <3> SUFFICES ASSUME NEW i \in DOMAIN q, q[i] = p PROVE In(d, p)
      BY DEF In
    <3>1. PICK j \in 1..(Len(q) - 1) : f(j) = i
      BY <1>1, <1>2
    <3> QED BY <1>3, <3>1 DEF In
  <2> QED BY <2>1, <2>2
<1> QED BY <1>5, <1>6, <1>7, <1>8 DEF d

-----------------------------------------------------------------------------
(* What an action does to the queue and to what is out *)
Users == pc \in [Caller -> Place] /\ at \in [Caller -> Conn \cup {None}]

LEMMA QueueKept ==
  ASSUME Queued, UNCHANGED waiting, \A p \in Caller : pc'[p] = "wait" <=> pc[p] = "wait"
  PROVE  Queued'
BY DEF Queued

LEMMA Joins ==
  ASSUME waiting \in Seq(Caller), Queued, NEW p \in Caller, pc \in [Caller -> Place],
         pc[p] # "wait", pc' = [pc EXCEPT ![p] = "wait"], Ask(p)
  PROVE  Queued' /\ waiting' \in Seq(Caller)
<1>1. Distinct(waiting) /\ ~In(waiting, p)
  BY DEF Queued, Distinct, In
<1>2. /\ waiting' \in Seq(Caller) /\ Distinct(waiting')
      /\ \A q : In(waiting', q) <=> In(waiting, q) \/ q = p
  BY <1>1, Appended DEF Ask
<1> QED BY <1>1, <1>2 DEF Queued, Distinct, In

LEMMA LeavesQueue ==
  ASSUME waiting \in Seq(Caller), Queued, NEW p \in Caller, pc \in [Caller -> Place],
         NEW to \in Place \ {"wait"}, pc' = [pc EXCEPT ![p] = to], Leaves(p)
  PROVE  Queued' /\ waiting' \in Seq(Caller)
<1>1. Distinct(waiting)
  BY DEF Queued, Distinct
<1>2. PICK k \in DOMAIN waiting :
        waiting[k] = p /\ waiting' = Without(waiting, k)
  BY DEF Leaves, Without
<1>3. /\ waiting' \in Seq(Caller) /\ Distinct(waiting') /\ ~In(waiting', p)
      /\ \A q : q # p => (In(waiting', q) <=> In(waiting, q))
  BY <1>1, <1>2, Dropped
<1> QED BY <1>3 DEF Queued, Distinct, In

LEMMA HandsKept ==
  ASSUME NothingLeaks, UNCHANGED <<busy, at>>,
         \A p \in Caller : pc'[p] \in Holding <=> pc[p] \in Holding
  PROVE  NothingLeaks'
BY DEF NothingLeaks

LEMMA HandsEmptied ==
  ASSUME NothingLeaks, Users, None \notin Conn, busy \subseteq Conn,
         NEW p \in Caller, pc[p] \in Holding, Release(p), pc'[p] \notin Holding,
         \A q \in Caller \ {p} : pc'[q] \in Holding <=> pc[q] \in Holding
  PROVE  NothingLeaks' /\ at' \in [Caller -> Conn \cup {None}] /\ busy' \subseteq Conn
<1>1. at[p] \in Conn /\ at' = [at EXCEPT ![p] = None] /\ busy' = busy \ {at[p]}
  BY DEF NothingLeaks, Release
<1>2. at' \in [Caller -> Conn \cup {None}] /\ busy' \subseteq Conn
  BY <1>1 DEF Users
<1>3. at'[p] = None /\ \A q \in Caller \ {p} : at'[q] = at[q]
  BY <1>1 DEF Users
<1>4. \A q \in Caller : pc'[q] \in Holding <=> at'[q] \in Conn
  BY <1>3 DEF NothingLeaks
<1>5. \A q, r \in Caller : at'[q] = at'[r] /\ at'[q] # None => q = r
  BY <1>3 DEF NothingLeaks
<1>6. \A c \in Conn : c \in busy' <=> \E q \in Caller : at'[q] = c
  BY <1>1, <1>3 DEF NothingLeaks
<1> QED BY <1>2, <1>4, <1>5, <1>6 DEF NothingLeaks

(* Sessions change in the hands of one caller, or of none. *)
LEMMA SessionsKept ==
  ASSUME SessionIsCallers, NothingLeaks, Users, None \notin Conn, session \in [Conn -> User \cup {None}],
         NEW c, c \notin Conn \/ \A u \in User : pc'[u] = "run" => at[u] # c,
         \A d \in Conn \ {c} : session'[d] = session[d],
         \A u \in User : pc'[u] = "run" => pc[u] = "run" /\ at'[u] = at[u] /\ task'[u] = task[u]
  PROVE  SessionIsCallers'
<1> SUFFICES ASSUME NEW u \in User, pc'[u] = "run", task'[u] # "guest"
             PROVE  session'[at'[u]] = u
  BY DEF SessionIsCallers
<1>1. pc[u] = "run" /\ at'[u] = at[u] /\ session[at[u]] = u
  BY DEF SessionIsCallers
<1>2. at[u] \in Conn /\ at[u] # c
  BY <1>1 DEF NothingLeaks, Caller, Holding
<1> QED BY <1>1, <1>2

-----------------------------------------------------------------------------
(* The invariant, action by action *)
LEMMA Facts ==
  ASSUME Hands
  PROVE  /\ TypeOK /\ Queued /\ Nested /\ NothingLeaks /\ SessionIsCallers /\ Users
         /\ None \notin Conn /\ None \notin User /\ BatchSize \in Nat \ {0}
         /\ Tx \in Caller /\ Stmt \in Caller /\ Tx # Stmt /\ Tx \notin User /\ Stmt \notin User
         /\ User \subseteq Caller
BY PoolAssumption DEF PoolAssumption, Hands, TypeOK, Users, Place, Caller, Tx, Stmt

LEMMA InitHands == Init => Hands
<1> SUFFICES ASSUME Init PROVE Hands
  OBVIOUS
<1>1. BatchSize \in Nat \ {0} /\ None \notin Conn
  BY PoolAssumption DEF PoolAssumption
<1>2. waiting \in Seq(Caller) /\ DOMAIN waiting = {}
  BY DEF Init
<1>3. TypeOK
  BY <1>1, <1>2 DEF Init, TypeOK, Task
<1>4. Queued /\ Nested /\ NothingLeaks /\ SessionIsCallers
  BY <1>1, <1>2 DEF Init, Queued, Nested, NothingLeaks, SessionIsCallers, Caller, Holding
<1> QED BY <1>3, <1>4 DEF Hands

(* A step of a caller that changes neither queue nor connections nor sessions. *)
LEMMA Walks ==
  ASSUME Hands, NEW p \in Caller, NEW to \in Place \ {"wait"}, pc[p] # "wait",
         to \in Holding <=> pc[p] \in Holding, to # "run" \/ p \notin User,
         pc' = [pc EXCEPT ![p] = to],
         UNCHANGED <<busy, waiting, at, session>>,
         \A u \in User \ {p} : task'[u] = task[u]
  PROVE  Queued' /\ NothingLeaks' /\ SessionIsCallers'
<1> USE Facts
<1>1. Queued'
  BY QueueKept DEF Users
<1>2. NothingLeaks'
  BY HandsKept DEF Users
<1>3. \A u \in User : pc'[u] = "run" => pc[u] = "run" /\ at'[u] = at[u] /\ task'[u] = task[u]
  BY DEF Users
<1>4. SessionIsCallers'
  BY <1>3, SessionsKept DEF TypeOK
<1> QED BY <1>1, <1>2, <1>4

(* A caller that gives its connection back, which may break. *)
LEMMA Returns ==
  ASSUME Hands, NEW p \in Caller, NEW to \in Place \ ({"wait"} \cup Holding), pc[p] \in Holding,
         pc' = [pc EXCEPT ![p] = to], Release(p), MayBreak(p),
         UNCHANGED waiting, UNCHANGED task
  PROVE  /\ Queued' /\ NothingLeaks' /\ SessionIsCallers'
         /\ at' \in [Caller -> Conn \cup {None}] /\ busy' \subseteq Conn
         /\ session' \in [Conn -> User \cup {None}] /\ pc' \in [Caller -> Place]
<1> USE Facts
<1>1. at[p] \in Conn
  BY DEF NothingLeaks
<1>2. Queued'
  BY QueueKept DEF Users, Holding
<1>3. pc' \in [Caller -> Place] /\ pc'[p] = to /\ \A q \in Caller \ {p} : pc'[q] = pc[q]
  BY DEF Users
<1>4. NothingLeaks' /\ at' \in [Caller -> Conn \cup {None}] /\ busy' \subseteq Conn
  BY <1>3, HandsEmptied DEF TypeOK
<1>5. session' \in [Conn -> User \cup {None}] /\ \A d \in Conn \ {at[p]} : session'[d] = session[d]
  BY DEF MayBreak, Breaks, TypeOK
<1>6. \A u \in User : pc'[u] = "run" => u # p /\ pc[u] = "run" /\ at'[u] = at[u] /\ task'[u] = task[u]
  BY <1>3 DEF Users, Release, Holding
<1>7. \A u \in User : pc'[u] = "run" => at[u] # at[p]
  BY <1>1, <1>6 DEF NothingLeaks
<1>8. SessionIsCallers'
  BY <1>5, <1>6, <1>7, SessionsKept DEF TypeOK
<1> QED BY <1>2, <1>3, <1>4, <1>5, <1>8

LEMMA JoinsQueue ==
  ASSUME Hands, NEW p \in Caller, pc[p] \notin Holding \cup {"wait"},
         pc' = [pc EXCEPT ![p] = "wait"], Ask(p),
         UNCHANGED <<busy, at, session, task>>
  PROVE  Queued' /\ waiting' \in Seq(Caller) /\ NothingLeaks' /\ SessionIsCallers' /\ pc' \in [Caller -> Place]
<1> USE Facts
<1>1. Queued' /\ waiting' \in Seq(Caller)
  BY Joins DEF Users, TypeOK
<1>2. NothingLeaks' /\ pc' \in [Caller -> Place]
  BY HandsKept DEF Users, Holding, Place
<1>3. \A u \in User : pc'[u] = "run" => pc[u] = "run" /\ at'[u] = at[u] /\ task'[u] = task[u]
  BY DEF Users
<1>4. SessionIsCallers'
  BY <1>3, SessionsKept DEF TypeOK
<1> QED BY <1>1, <1>2, <1>4

LEMMA PoolStep ==
  ASSUME Hands, NEW c \in Conn, Grant(c) \/ Expire(c)
  PROVE  Hands'
<1> USE Facts DEF reqVars
<1>1. CASE Grant(c)
  <2> DEFINE h == Head(waiting)
  <2>1. /\ waiting # <<>> /\ c \notin busy /\ waiting' = Tail(waiting) /\ busy' = busy \cup {c}
        /\ at' = [at EXCEPT ![h] = c] /\ pc' = [pc EXCEPT ![h] = "set"]
        /\ UNCHANGED <<pool, session, task, room, left>>
    BY <1>1 DEF Grant
  <2>2. /\ h \in Caller /\ waiting' \in Seq(Caller) /\ Distinct(waiting') /\ In(waiting, h) /\ ~In(waiting', h)
        /\ \A p : p # h => (In(waiting', p) <=> In(waiting, p))
    BY <2>1, Dequeued DEF TypeOK, Queued, Distinct
  <2>3. pc[h] = "wait" /\ at[h] \notin Conn
    BY <2>2 DEF Queued, In, NothingLeaks, Holding
  <2> HIDE DEF h
  <2>4. /\ pc' \in [Caller -> Place] /\ at' \in [Caller -> Conn \cup {None}]
        /\ pc'[h] = "set" /\ at'[h] = c
        /\ \A q \in Caller \ {h} : pc'[q] = pc[q] /\ at'[q] = at[q]
    BY <2>1, <2>2 DEF Users, Place, Holding
  <2>5. TypeOK'
    BY <2>1, <2>2, <2>4 DEF TypeOK, Place
  <2>6. Queued'
    BY <2>2, <2>4 DEF Queued, Distinct, In
  <2>7. Nested'
    <3>1. pc[Tx] = "open" => h # Tx
      BY <2>3
    <3>2. h = Stmt => pc[Stmt] # "idle"
      BY <2>3
    <3> QED BY <2>1, <2>4, <3>1, <3>2 DEF Nested
  <2>8. NothingLeaks'
    <3>1. \A q \in Caller : at[q] # c
      BY <2>1 DEF NothingLeaks
    <3>2. \A q \in Caller : pc'[q] \in Holding <=> at'[q] \in Conn
      BY <2>4 DEF NothingLeaks, Holding
    <3>3. \A q, r \in Caller : at'[q] = at'[r] /\ at'[q] # None => q = r
      BY <2>4, <3>1 DEF NothingLeaks
    <3>4. \A d \in Conn : d \in busy' <=> \E q \in Caller : at'[q] = d
      BY <2>1, <2>2, <2>3, <2>4, <3>1 DEF NothingLeaks
    <3> QED BY <3>2, <3>3, <3>4 DEF NothingLeaks
  <2>9. SessionIsCallers'
    BY <2>1, <2>4 DEF SessionIsCallers
  <2> QED BY <2>5, <2>6, <2>7, <2>8, <2>9 DEF Hands
<1>2. CASE Expire(c)
  <2>1. /\ UNCHANGED <<pool, busy, waiting, pc, at, task, room, left>> /\ c \notin busy
        /\ session' = [session EXCEPT ![c] = None]
    BY <1>2 DEF Expire
  <2>2. session' \in [Conn -> User \cup {None}] /\ \A d \in Conn \ {c} : session'[d] = session[d]
    BY <2>1 DEF TypeOK
  <2>3. \A u \in User : at[u] # c
    BY <2>1 DEF NothingLeaks
  <2>4. SessionIsCallers'
    BY <2>1, <2>2, <2>3, SessionsKept DEF TypeOK
  <2> QED BY <2>1, <2>2, <2>4 DEF Hands, TypeOK, Queued, Nested, NothingLeaks
<1> QED BY <1>1, <1>2

LEMMA CloseStep ==
  ASSUME Hands, Close \/ CloseReturns
  PROVE  Hands'
BY DEF Close, CloseReturns, reqVars, Hands, TypeOK, Queued, Nested, NothingLeaks, SessionIsCallers

LEMMA BeforeAcquireStep ==
  ASSUME Hands, NEW p \in Caller, BeforeAcquire(p)
  PROVE  Hands'
<1> USE Facts DEF reqVars
<1>1. /\ pc[p] = "set" /\ at[p] \in Conn
      /\ UNCHANGED <<pool, busy, waiting, at, task, room, left>>
  BY DEF BeforeAcquire, NothingLeaks, Holding
<1>2. PICK to \in {"run", "blind"} : pc' = [pc EXCEPT ![p] = to]
  BY DEF BeforeAcquire
<1>3. /\ \A d \in Conn \ {at[p]} : session'[d] = session[d]
      /\ session' \in [Conn -> User \cup {None}]
      /\ to = "run" /\ UserOf(p) # None => session'[at[p]] = UserOf(p)
  BY <1>1, <1>2 DEF BeforeAcquire, SetsUser, UserOf, TypeOK, Users
<1>4. /\ pc' \in [Caller -> Place] /\ pc'[p] = to /\ \A q \in Caller \ {p} : pc'[q] = pc[q]
  BY <1>2 DEF Users, Place, Holding
<1>5. TypeOK'
  BY <1>1, <1>3, <1>4 DEF TypeOK, Place
<1>6. Queued'
  BY <1>1, <1>2, <1>4, QueueKept
<1>7. Nested'
  BY <1>1, <1>2, <1>4 DEF Nested
<1>8. NothingLeaks'
  BY <1>1, <1>2, <1>4, HandsKept DEF Holding
<1>9. SessionIsCallers'
  <2> SUFFICES ASSUME NEW u \in User, pc'[u] = "run", task'[u] # "guest"
               PROVE  session'[at'[u]] = u
    BY DEF SessionIsCallers
  <2>1. CASE u = p
    BY <1>1, <1>3, <1>4, <2>1 DEF UserOf
  <2>2. CASE u # p
    <3>1. pc[u] = "run" /\ at'[u] = at[u] /\ session[at[u]] = u
      BY <1>1, <1>4, <2>2 DEF SessionIsCallers
    <3>2. at[u] \in Conn /\ at[u] # at[p]
      BY <1>1, <2>2, <3>1 DEF NothingLeaks, Holding
    <3> QED BY <1>3, <3>1, <3>2
  <2> QED BY <2>1, <2>2
<1> QED BY <1>5, <1>6, <1>7, <1>8, <1>9 DEF Hands

LEMMA HandlerStep ==
  ASSUME Hands, NEW r \in User, Start(r) \/ Call(r) \/ Succeed(r) \/ Fail(r) \/ Denied(r) \/ HangUp(r)
  PROVE  Hands'
<1> USE Facts DEF reqVars
<1>1. CASE Start(r)
  <2>1. /\ pc[r] \in {"idle", "done", "cut"} /\ pc' = [pc EXCEPT ![r] = "next"]
        /\ UNCHANGED <<pool, busy, session, waiting, at, left>>
    BY <1>1 DEF Start
  <2>2. task' \in [User -> Task] /\ \A u \in User \ {r} : task'[u] = task[u]
    BY <1>1 DEF Start, TypeOK
  <2>3. room' \in [User -> {"none", "row", "admin"}]
    BY <1>1 DEF Start, TypeOK
  <2>4. Queued' /\ NothingLeaks' /\ SessionIsCallers'
    BY <2>1, <2>2, Walks DEF Place, Holding
  <2>5. TypeOK' /\ Nested'
    BY <2>1, <2>2, <2>3 DEF TypeOK, Nested
  <2> QED BY <2>4, <2>5 DEF Hands
<1>2. CASE Call(r)
  <2>1. /\ pc[r] = "next" /\ pc' = [pc EXCEPT ![r] = "wait"] /\ Ask(r)
        /\ UNCHANGED <<pool, busy, session, at, task, room, left>>
    BY <1>2 DEF Call, Goto
  <2>2. Queued' /\ waiting' \in Seq(Caller) /\ NothingLeaks' /\ SessionIsCallers' /\ pc' \in [Caller -> Place]
    BY <2>1, JoinsQueue DEF Holding
  <2>3. TypeOK' /\ Nested'
    BY <2>1, <2>2 DEF TypeOK, Nested, Place
  <2> QED BY <2>2, <2>3 DEF Hands
<1>3. CASE Succeed(r) \/ Fail(r) \/ (HangUp(r) /\ pc[r] # "wait")
  <2>1. PICK to \in {"next", "done", "cut"} : pc' = [pc EXCEPT ![r] = to]
    BY <1>3 DEF Succeed, GoesOn, Fail, HangUp, GiveUp, ReadsOn
  <2>2. /\ pc[r] \in Holding /\ Release(r) /\ MayBreak(r)
        /\ UNCHANGED <<pool, waiting, task, left>>
    BY <1>3 DEF Succeed, Fail, HangUp, GiveUp, ReadsOn, Holding, MayBreak
  <2>3. room' \in [User -> {"none", "row", "admin"}]
    BY <1>3 DEF Succeed, Fail, HangUp, Stores, TypeOK
  <2>4. /\ Queued' /\ NothingLeaks' /\ SessionIsCallers'
        /\ at' \in [Caller -> Conn \cup {None}] /\ busy' \subseteq Conn
        /\ session' \in [Conn -> User \cup {None}] /\ pc' \in [Caller -> Place]
    BY <2>1, <2>2, Returns DEF Place, Holding
  <2>5. TypeOK' /\ Nested'
    BY <2>1, <2>2, <2>3, <2>4 DEF TypeOK, Nested, Place
  <2> QED BY <2>4, <2>5 DEF Hands
<1>4. CASE Denied(r) \/ (HangUp(r) /\ pc[r] = "wait")
  <2>1. /\ pc[r] = "wait" /\ Leaves(r) /\ pc' = [pc EXCEPT ![r] = "cut"]
        /\ UNCHANGED <<pool, busy, session, at, task, room, left>>
    BY <1>4 DEF Denied, HangUp, GiveUp, ReadsOn
  <2>2. Queued' /\ waiting' \in Seq(Caller)
    BY <2>1, LeavesQueue DEF TypeOK, Users, Place
  <2>3. pc' \in [Caller -> Place] /\ NothingLeaks'
    BY <2>1, HandsKept DEF Users, Place, Holding
  <2>4. SessionIsCallers'
    BY <2>1 DEF SessionIsCallers, Users
  <2>5. TypeOK' /\ Nested'
    BY <2>1, <2>2, <2>3 DEF TypeOK, Nested, Place
  <2> QED BY <2>2, <2>3, <2>4, <2>5 DEF Hands
<1> QED BY <1>1, <1>2, <1>3, <1>4

LEMMA WriterStep ==
  ASSUME Hands, Batch \/ Begin \/ CreateMessage \/ Insert \/ Commit \/ Rollback
  PROVE  Hands'
<1> USE Facts DEF reqVars
<1>1. CASE Batch
  <2>1. /\ pc[Tx] = "idle" /\ pc' = [pc EXCEPT ![Tx] = "wait"] /\ Ask(Tx)
        /\ UNCHANGED <<pool, busy, session, at, task, room>> /\ left' \in 0..BatchSize
    BY <1>1 DEF Batch, Goto
  <2>2. Queued' /\ waiting' \in Seq(Caller) /\ NothingLeaks' /\ SessionIsCallers' /\ pc' \in [Caller -> Place]
    BY <2>1, JoinsQueue DEF Holding
  <2>3. TypeOK' /\ Nested'
    BY <2>1, <2>2 DEF TypeOK, Nested, Place
  <2> QED BY <2>2, <2>3 DEF Hands
<1>2. CASE CreateMessage
  <2>1. /\ pc[Stmt] = "idle" /\ pc[Tx] = "open" /\ pc' = [pc EXCEPT ![Stmt] = "wait"] /\ Ask(Stmt)
        /\ UNCHANGED <<pool, busy, session, at, task, room, left>> /\ left > 0
    BY <1>2 DEF CreateMessage, Goto
  <2>2. Queued' /\ waiting' \in Seq(Caller) /\ NothingLeaks' /\ SessionIsCallers' /\ pc' \in [Caller -> Place]
    BY <2>1, JoinsQueue DEF Holding
  <2>3. TypeOK' /\ Nested'
    BY <2>1, <2>2 DEF TypeOK, Nested, Place
  <2> QED BY <2>2, <2>3 DEF Hands
<1>3. CASE Begin /\ pc'[Tx] = "open"
  <2>1. /\ pc[Tx] = "run" /\ pc' = [pc EXCEPT ![Tx] = "open"]
        /\ UNCHANGED <<pool, busy, session, waiting, at, task, room, left>>
    BY <1>3 DEF Begin, Users
  <2>2. Queued' /\ NothingLeaks' /\ SessionIsCallers'
    BY <2>1, Walks DEF Place, Holding
  <2>3. TypeOK' /\ Nested'
    BY <2>1 DEF TypeOK, Nested, Holding
  <2> QED BY <2>2, <2>3 DEF Hands
<1>4. CASE (Begin /\ pc'[Tx] # "open") \/ Commit \/ Rollback
  <2>1. /\ pc[Tx] \in Holding /\ pc[Stmt] = "idle" /\ pc' = [pc EXCEPT ![Tx] = "idle"]
        /\ Release(Tx) /\ MayBreak(Tx) /\ UNCHANGED <<pool, waiting, task, room, left>>
    BY <1>4 DEF Begin, Commit, Rollback, Goto, Nested, Holding, Users
  <2>2. /\ Queued' /\ NothingLeaks' /\ SessionIsCallers'
        /\ at' \in [Caller -> Conn \cup {None}] /\ busy' \subseteq Conn
        /\ session' \in [Conn -> User \cup {None}] /\ pc' \in [Caller -> Place]
    BY <2>1, Returns DEF Place, Holding
  <2>3. TypeOK' /\ Nested'
    BY <2>1, <2>2 DEF TypeOK, Nested, Place
  <2> QED BY <2>2, <2>3 DEF Hands
<1>5. CASE Insert
  <2>1. /\ pc[Stmt] = "run" /\ pc[Tx] = "open" /\ left > 0 /\ at[Stmt] \in Conn
        /\ Release(Stmt) /\ MayBreak(Stmt) /\ UNCHANGED <<pool, waiting, task, room>>
    BY <1>5 DEF Insert, Nested, NothingLeaks, Holding, MayBreak
  <2>2. /\ pc'[Stmt] = "idle" /\ pc'[Tx] \in {"open", "rollback"} /\ pc' \in [Caller -> Place]
        /\ \A q \in Caller \ {Stmt, Tx} : pc'[q] = pc[q]
    BY <1>5, <2>1 DEF Insert, Users, Place, Holding
  <2>3. left' \in 0..BatchSize
    BY <1>5, <2>1 DEF Insert, TypeOK
  <2>4. NothingLeaks' /\ at' \in [Caller -> Conn \cup {None}] /\ busy' \subseteq Conn
    BY <2>1, <2>2, HandsEmptied DEF TypeOK, Holding
  <2>5. Queued'
    BY <2>1, <2>2, QueueKept
  <2>6. session' \in [Conn -> User \cup {None}] /\ \A d \in Conn \ {at[Stmt]} : session'[d] = session[d]
    BY <2>1 DEF MayBreak, Breaks, TypeOK
  <2>7. \A u \in User : /\ at[u] # at[Stmt]
                        /\ pc'[u] = "run" => pc[u] = "run" /\ at'[u] = at[u] /\ task'[u] = task[u]
    BY <2>1, <2>2 DEF NothingLeaks, Release, Users
  <2>8. SessionIsCallers'
    BY <2>6, <2>7, SessionsKept DEF TypeOK
  <2>9. TypeOK' /\ Nested'
    BY <2>1, <2>2, <2>3, <2>4, <2>6 DEF TypeOK, Nested, Place
  <2> QED BY <2>4, <2>5, <2>8, <2>9 DEF Hands
<1> QED BY <1>1, <1>2, <1>3, <1>4, <1>5

LEMMA NextHands == Hands /\ [Next]_vars => Hands'
<1> SUFFICES ASSUME Hands, [Next]_vars PROVE Hands'
  OBVIOUS
<1>1. CASE UNCHANGED vars
  BY <1>1 DEF vars, reqVars, Hands, TypeOK, Queued, Nested, NothingLeaks, SessionIsCallers
<1>2. CASE Next
  <2>1. CASE \E c \in Conn : Grant(c) \/ Expire(c)
    BY <2>1, PoolStep
  <2>2. CASE Close \/ CloseReturns
    BY <2>2, CloseStep
  <2>3. CASE \E r \in User : Start(r) \/ Handler(r) \/ HangUp(r)
    BY <2>3, BeforeAcquireStep, HandlerStep, Facts DEF Handler
  <2>4. CASE Batch \/ Writer
    BY <2>4, BeforeAcquireStep, WriterStep, Facts DEF Writer
  <2> QED BY <1>2, <2>1, <2>2, <2>3, <2>4 DEF Next
<1> QED BY <1>1, <1>2

(* Callers stay at their own places. *)
LEMMA RolesStep == Hands /\ Roles /\ [Next]_vars => Roles'
<1> SUFFICES ASSUME Hands, Roles, [Next]_vars PROVE Roles'
  OBVIOUS
<1> USE Facts DEF reqVars
<1>0. /\ pc \in [Caller -> Place]
      /\ \A u \in User : u # Tx /\ u # Stmt /\ u \in Caller
  BY DEF Users
<1>1. ASSUME NEW c \in Conn, Grant(c) PROVE Roles'
  <2> DEFINE h == Head(waiting)
  <2>1. /\ pool = "open" /\ pool' = pool /\ waiting # <<>> /\ pc' = [pc EXCEPT ![h] = "set"]
    BY <1>1 DEF Grant
  <2>2. h \in Caller
    BY <2>1, Dequeued DEF TypeOK, Queued, Distinct
  <2> HIDE DEF h
  <2> QED BY <1>0, <2>1, <2>2 DEF Roles
<1>2. ASSUME NEW c \in Conn, Expire(c) PROVE Roles'
  BY <1>2 DEF Expire, Roles
<1>3. CASE Close \/ CloseReturns
  BY <1>3 DEF Close, CloseReturns, Roles
<1>4. ASSUME NEW r \in User, Start(r) \/ Call(r) \/ Succeed(r) \/ Fail(r) \/ Denied(r) \/ HangUp(r)
      PROVE  Roles'
  <2>1. pool' = pool
    BY <1>4 DEF Start, Call, Succeed, Fail, Denied, HangUp
  <2>2. \E to \in {"next", "wait", "done", "cut"} : pc' = [pc EXCEPT ![r] = to]
    BY <1>4 DEF Start, Call, Goto, Succeed, GoesOn, Fail, Denied, HangUp, GiveUp, ReadsOn
  <2> QED BY <1>0, <2>1, <2>2 DEF Roles
<1>5. ASSUME NEW p \in Caller, BeforeAcquire(p) PROVE Roles'
  <2>1. pool' = pool /\ pc[p] = "set"
    BY <1>5 DEF BeforeAcquire
  <2>2. /\ \E to \in {"run", "blind"} : pc' = [pc EXCEPT ![p] = to]
        /\ p \notin User => pc' = [pc EXCEPT ![p] = "run"]
    BY <1>5 DEF BeforeAcquire, UserOf
  <2>3. CASE p \in User
    BY <1>0, <2>1, <2>2, <2>3 DEF Roles
  <2>4. CASE p \notin User
    BY <1>0, <2>1, <2>2, <2>4 DEF Roles
  <2> QED BY <2>3, <2>4
<1>6. CASE Batch \/ Begin \/ CreateMessage \/ Insert \/ Commit \/ Rollback
  <2>1. pool' = pool /\ (Batch => pool = "open")
    BY <1>6 DEF Batch, Begin, CreateMessage, Insert, Commit, Rollback
  <2>2. /\ pc'[Tx] \in {"idle", "wait", "open", "rollback"} \cup {pc[Tx]}
        /\ pc'[Stmt] \in {"idle", "wait"} \cup {pc[Stmt]}
        /\ \A u \in User : pc'[u] = pc[u]
        /\ pc[Tx] = "idle" /\ ~Batch => pc'[Tx] = "idle"
    BY <1>0, <1>6 DEF Batch, Begin, CreateMessage, Insert, Commit, Rollback, Goto, Nested
  <2> QED BY <2>1, <2>2 DEF Roles
<1>7. CASE UNCHANGED vars
  BY <1>7 DEF vars, Roles
<1> QED BY <1>1, <1>2, <1>3, <1>4, <1>5, <1>6, <1>7 DEF Next, Handler, Writer

(* Of two callers with a connection, one is not the transaction that waits for its *)
(* statement to get another.                                                       *)
LEMMA NoCircle == Hands /\ Roles => NoCircularWait
<1> SUFFICES ASSUME Hands, Roles, NEW c \in Conn, NEW d \in Conn, c # d
             PROVE  /\ pool = "open" /\ waiting # <<>> =>
                         busy # Conn \/ \E p \in Caller : at[p] \in Conn /\ CanGoOn(p)
                    /\ pool # "open" => \A i \in DOMAIN waiting : waiting[i] \in User
                    /\ pool = "closing" /\ busy # {} => \E p \in Caller : at[p] \in Conn /\ CanGoOn(p)
  BY DEF NoCircularWait
<1> USE Facts
<1>1. ASSUME NEW p \in Caller, at[p] \in Conn, p # Tx PROVE CanGoOn(p)
  BY <1>1 DEF NothingLeaks, Holding, Roles, CanGoOn, Caller
<1>2. ASSUME c \in busy, d \in busy PROVE \E p \in Caller : at[p] \in Conn /\ CanGoOn(p)
  <2>1. PICK p \in Caller, q \in Caller : at[p] = c /\ at[q] = d
    BY <1>2 DEF NothingLeaks
  <2>2. p # Tx \/ q # Tx
    BY <2>1
  <2> QED BY <1>1, <2>1, <2>2
<1>3. ASSUME pool # "open" PROVE \A i \in DOMAIN waiting : waiting[i] \in User
  <2>1. pc[Tx] = "idle" /\ pc[Stmt] = "idle"
    BY <1>3 DEF Roles, Nested
  <2>2. \A i \in DOMAIN waiting : waiting[i] \in Caller
    BY DEF TypeOK
  <2>3. \A i \in DOMAIN waiting : pc[waiting[i]] = "wait"
    BY <2>2 DEF Queued
  <2> QED BY <2>1, <2>2, <2>3 DEF Caller
<1>4. ASSUME pool = "closing", NEW e \in busy PROVE \E p \in Caller : at[p] \in Conn /\ CanGoOn(p)
  <2>1. PICK p \in Caller : at[p] = e /\ e \in Conn
    BY DEF NothingLeaks, TypeOK
  <2>2. pc[Tx] = "idle" /\ pc[p] \in Holding
    BY <1>4, <2>1 DEF Roles, NothingLeaks
  <2> QED BY <1>1, <2>1, <2>2 DEF Holding
<1> QED BY <1>2, <1>3, <1>4

LEMMA InitIInv == Init => IInv
<1>1. Init => Roles
  <2>1. User \subseteq Caller /\ Tx \in Caller /\ Stmt \in Caller
    BY DEF Caller
  <2> QED BY <2>1 DEF Init, Roles
<1> QED BY <1>1, InitHands, NoCircle DEF IInv

LEMMA NextIInv == IInv /\ [Next]_vars => IInv'
<1>1. Hands /\ [Next]_vars => Hands'
  BY NextHands
<1>2. Hands' /\ Roles' => NoCircularWait'
  BY NoCircle, PTL
<1> QED BY <1>1, <1>2, RolesStep DEF IInv

(* Only the call of a creation that stores its second row leads to "done". *)
LEMMA RoomsStep == TypeOK /\ RoomsHaveAdmins /\ [Next]_vars => RoomsHaveAdmins'
<1> SUFFICES ASSUME TypeOK, RoomsHaveAdmins, [Next]_vars,
                    NEW u \in User, pc'[u] = "done", task'[u] = "create"
             PROVE  room'[u] = "admin"
  BY DEF RoomsHaveAdmins
<1> USE DEF reqVars
<1>1. u \in Caller /\ u # Tx /\ u # Stmt /\ pc \in [Caller -> Place]
  BY PoolAssumption DEF PoolAssumption, Caller, TypeOK, Place
<1>2. CASE pc'[u] = pc[u] /\ task'[u] = task[u] /\ room'[u] = room[u]
  BY <1>2 DEF RoomsHaveAdmins
<1>3. CASE \E r \in User : Succeed(r)
  <2> PICK r \in User : Succeed(r)
    BY <1>3
  <2>1. CASE r = u
    BY <1>1, <2>1 DEF Succeed, GoesOn, Stores, TypeOK
  <2>2. CASE r # u
    <3>1. pc'[u] = pc[u] /\ task'[u] = task[u] /\ room'[u] = room[u]
      BY <1>1, <2>2 DEF Succeed, GoesOn, Stores, TypeOK
    <3> QED BY <1>2, <3>1
  <2> QED BY <2>1, <2>2
<1>4. CASE \E r \in User : Start(r) \/ Call(r) \/ BeforeAcquire(r) \/ Fail(r) \/ Denied(r) \/ HangUp(r)
  <2> PICK r \in User : Start(r) \/ Call(r) \/ BeforeAcquire(r) \/ Fail(r) \/ Denied(r) \/ HangUp(r)
    BY <1>4
  <2>1. r # u
    BY <1>1 DEF Start, Call, BeforeAcquire, Fail, Denied, HangUp, GiveUp, ReadsOn, Goto
  <2>2. pc'[u] = pc[u]
    BY <1>1, <2>1 DEF Start, Call, BeforeAcquire, Fail, Denied, HangUp, GiveUp, ReadsOn, Goto
  <2>3. task'[u] = task[u]
    BY <2>1 DEF Start, Call, BeforeAcquire, Fail, Denied, HangUp, GiveUp, ReadsOn, TypeOK
  <2>4. room'[u] = room[u]
    BY <2>1 DEF Start, Call, BeforeAcquire, Fail, Denied, HangUp, Stores, TypeOK
  <2> QED BY <1>2, <2>2, <2>3, <2>4
<1>5. CASE Batch \/ Writer
  <2>1. pc'[u] = pc[u]
    BY <1>1, <1>5 DEF Batch, Writer, BeforeAcquire, Begin, CreateMessage, Insert, Commit, Rollback, Goto
  <2>2. task' = task /\ room' = room
    BY <1>5 DEF Batch, Writer, BeforeAcquire, Begin, CreateMessage, Insert, Commit, Rollback
  <2> QED BY <1>2, <2>1, <2>2
<1>6. CASE \E c \in Conn : Grant(c)
  BY <1>1, <1>6 DEF Grant, RoomsHaveAdmins
<1>7. CASE (\E c \in Conn : Expire(c)) \/ Close \/ CloseReturns \/ UNCHANGED vars
  BY <1>2, <1>7 DEF Expire, Close, CloseReturns, vars
<1> QED BY <1>3, <1>4, <1>5, <1>6, <1>7 DEF Next, Handler

-----------------------------------------------------------------------------
(* The theorems *)

(* The invariant of the pool holds for every number of connections and users.  *)
THEOREM Invariance == Spec => []IInv
BY InitIInv, NextIInv, PTL DEF Spec

(* Callers stay at their places, and the writer's count within its batch.      *)
THEOREM TypeCorrect == Spec => []TypeOK
BY Invariance, PTL DEF IInv, Hands

(* A statement of a user runs in that user's session (db.go:50-66).            *)
THEOREM SessionsAreTheirs == Spec => []SessionIsCallers
BY Invariance, PTL DEF IInv, Hands

(* No connection is lost or shared (writer.go:122-142, db.go:106-162).         *)
THEOREM NoConnectionLeaks == Spec => []NothingLeaks
BY Invariance, PTL DEF IInv, Hands

(* With two connections nobody waits in a circle, in the pool or for its end       *)
(* (writer.go:122-142, main.go:164).                                            *)
THEOREM TwoConnectionsSuffice == Spec => []NoCircularWait
BY Invariance, PTL DEF IInv

(* A creation no call of which failed leaves a member (queries.go:99-106).     *)
THEOREM CreatorsAreAdmins == Spec => []RoomsHaveAdmins
<1>1. Init => RoomsHaveAdmins
  BY DEF Init, RoomsHaveAdmins, Caller
<1> QED BY <1>1, RoomsStep, TypeCorrect, PTL DEF Spec

=============================================================================
