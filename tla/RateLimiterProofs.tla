-------------------------- MODULE RateLimiterProofs --------------------------
(***************************************************************************)
(* For any number of requests, capacity, unit of time and skew of clocks:  *)
(* waiting a second and the skew is always rewarded, and a user whose      *)
(* requests never race is never admitted beyond what an ideal bucket holds *)
(* while Redis answers and clocks agree.                                   *)
(***************************************************************************)
EXTENDS RateLimiter, FiniteSetTheorems, TLAPS

(* The parameters are numbers, and a full bucket is worth Full ticks. *)
LEMMA Parameters ==
  /\ Capacity \in Nat \ {0} /\ Unit \in Nat \ {0} /\ MaxConcurrent \in Nat \ {0}
  /\ MaxSkew \in Nat /\ MaxFaults \in Nat /\ Horizon \in Nat /\ Full \in Nat
  /\ None \notin [tokens : Int, refill : Int]
BY RateAssumption DEF Full

(* Whole tokens are worth no more ticks than have passed. *)
LEMMA WholeTokens ==
  ASSUME NEW d \in Nat, NEW u \in Nat \ {0}
  PROVE  d \div u \in Nat /\ (d \div u) * u <= d /\ (d \div u < 1 => d < u)
OBVIOUS

LEMMA Monotone ==
  ASSUME NEW a \in Int, NEW b \in Int, NEW u \in Nat, a <= b
  PROVE  a * u <= b * u
OBVIOUS

LEMMA Distribute ==
  ASSUME NEW a \in Int, NEW b \in Int, NEW u \in Nat
  PROVE  (a + b) * u = a * u + b * u /\ (a - 1) * u = a * u - u
OBVIOUS

(* What a request computes is at most Capacity, and less than one only when its *)
(* clock shows less than a second since the refill it read.                     *)
LEMMA RefilledFacts ==
  ASSUME NEW r \in Req, TypeOK
  PROVE  /\ Clock(r) \in 0..(Horizon + MaxSkew) /\ Elapsed(r) \in Int /\ Refilled(r) \in Int /\ Refilled(r) <= Capacity
         /\ Refilled(r) < 1 => Elapsed(r) < Unit /\ (local[r].tokens >= 1 => Elapsed(r) < 0)
<1>1. /\ local[r].tokens \in 0..Capacity /\ local[r].refill \in Int /\ now \in 0..Horizon /\ ahead[r] \in 0..MaxSkew
  BY DEF TypeOK, Hash
<1>2. Clock(r) \in 0..(Horizon + MaxSkew) /\ Elapsed(r) \in Int
  BY <1>1, Parameters DEF Clock, Elapsed
<1>3. /\ TokensToAdd(r) \in Int /\ (Elapsed(r) >= 0 => TokensToAdd(r) >= 0)
      /\ TokensToAdd(r) < 1 => Elapsed(r) < Unit
  <2>1. CASE Elapsed(r) >= 0
    <3>1. Elapsed(r) \in Nat /\ TokensToAdd(r) = Elapsed(r) \div Unit
      BY <1>2, <2>1 DEF TokensToAdd
    <3> QED BY <3>1, WholeTokens, Parameters
  <2>2. CASE Elapsed(r) < 0
    <3>1. 0 - Elapsed(r) \in Nat /\ TokensToAdd(r) = 0 - ((0 - Elapsed(r)) \div Unit)
      BY <1>2, <2>2 DEF TokensToAdd
    <3>2. (0 - Elapsed(r)) \div Unit \in Nat
      BY <3>1, WholeTokens, Parameters
    <3> QED BY <1>2, <2>2, <3>1, <3>2, Parameters
  <2> QED BY <1>2, <2>1, <2>2
<1>4. Refilled(r) = IF Capacity <= local[r].tokens + TokensToAdd(r) THEN Capacity ELSE local[r].tokens + TokensToAdd(r)
  BY DEF Refilled, Least
<1>5. Refilled(r) \in Int /\ Refilled(r) <= Capacity
  BY <1>1, <1>3, <1>4, Parameters
<1>6. ASSUME Refilled(r) < 1
      PROVE  Elapsed(r) < Unit /\ (local[r].tokens >= 1 => Elapsed(r) < 0)
  <2>1. local[r].tokens + TokensToAdd(r) < 1
    BY <1>1, <1>3, <1>4, <1>6, Parameters
  <2> QED BY <1>1, <1>2, <1>3, <2>1
<1> QED BY <1>2, <1>5, <1>6

(* By a clock that is not behind, it is a whole number of tokens, worth no more *)
(* than the tokens that were read and the ticks since.                          *)
LEMMA RefilledWorth ==
  ASSUME NEW r \in Req, TypeOK, ahead[r] = 0, local[r].refill <= now
  PROVE  /\ Clock(r) = now /\ Refilled(r) \in 0..Capacity
         /\ Refilled(r) * Unit <= Least(Full, local[r].tokens * Unit + (now - local[r].refill))
         /\ Refilled(r) < 1 => local[r].tokens = 0
<1> DEFINE t == local[r].tokens
           d == now - local[r].refill
           q == d \div Unit
<1>1. t \in 0..Capacity /\ d \in Nat /\ now \in Int
  BY Parameters DEF TypeOK, Hash
<1>0. Clock(r) = now /\ Elapsed(r) = d
  BY <1>1 DEF Clock, Elapsed
<1>2. q \in Nat /\ q * Unit <= d /\ (q < 1 => d < Unit)
  BY <1>1, Parameters, WholeTokens
<1>3. Refilled(r) = IF Capacity <= t + q THEN Capacity ELSE t + q
  BY <1>0, <1>1 DEF Refilled, Least, TokensToAdd
<1> HIDE DEF t, d, q
<1>4. Refilled(r) \in 0..Capacity /\ (Refilled(r) < 1 => t = 0 /\ q < 1)
  BY <1>1, <1>2, <1>3, Parameters
<1>5. Refilled(r) * Unit <= Full
  <2>1. Refilled(r) <= Capacity /\ Refilled(r) \in Int /\ Capacity \in Int /\ Unit \in Nat
    BY <1>4, Parameters
  <2> QED
    BY <2>1, Monotone DEF Full
<1>6. Refilled(r) * Unit <= t * Unit + d
  <2>1. Refilled(r) <= t + q /\ Refilled(r) \in Int /\ t \in Int /\ q \in Int /\ Unit \in Nat
    BY <1>1, <1>2, <1>3, <1>4, Parameters
  <2>2. Refilled(r) * Unit <= (t + q) * Unit
    BY <2>1, Monotone
  <2>3. (t + q) * Unit = t * Unit + q * Unit
    BY <2>1, Distribute
  <2>4. Refilled(r) * Unit \in Int /\ t * Unit \in Int /\ q * Unit \in Int
    BY <2>1
  <2> QED
    BY <1>1, <1>2, <2>2, <2>3, <2>4
<1> QED
  BY <1>0, <1>2, <1>4, <1>5, <1>6 DEF t, d, Least

-----------------------------------------------------------------------------
(* Every step keeps the types. *)
LEMMA TypeStep == TypeOK /\ [Next]_vars => TypeOK'
<1> SUFFICES ASSUME TypeOK, [Next]_vars PROVE TypeOK'
  OBVIOUS
<1>1. CASE Tick
  BY <1>1, Parameters DEF Tick, TypeOK, Hash, Least
<1>2. ASSUME NEW r \in Req, Get(r) PROVE TypeOK'
  <2>1. Fresh(r) \in Hash
    BY RefilledFacts, Parameters DEF Fresh, Hash
  <2>2. local' \in [Req -> Hash]
    BY <1>2, <2>1 DEF Get, TypeOK
  <2>3. /\ pc' \in [Req -> {"idle", "got", "put", "admitted", "rejected"}]
        /\ faults' \in 0..MaxFaults /\ now' = now /\ ahead' = ahead /\ stored' = stored
    BY <1>2, Parameters DEF Get, Fault, TypeOK
  <2>5. raced' \in BOOLEAN
    BY <1>2 DEF Get
  <2>4. bucket' \in Int /\ bucket' <= Full /\ lastAdmit' \in (0 - Unit)..Horizon
    BY <1>2, Parameters DEF Get, Admit, TypeOK
  <2> QED
    BY <2>2, <2>3, <2>4, <2>5 DEF TypeOK, Hash
<1>3. ASSUME NEW r \in Req, Compute(r) PROVE TypeOK'
  <2>1. Refilled(r) >= 1 => [tokens |-> Refilled(r) - 1, refill |-> Clock(r)] \in Hash
    <3>1. Refilled(r) >= 1 => Refilled(r) - 1 \in 0..Capacity
      BY RefilledFacts, Parameters
    <3>2. Clock(r) \in 0..(Horizon + MaxSkew)
      BY RefilledFacts
    <3> QED BY <3>1, <3>2 DEF Hash
  <2>4. local' \in [Req -> Hash]
    BY <1>3, <2>1 DEF Compute, TypeOK
  <2>5. /\ pc' \in [Req -> {"idle", "got", "put", "admitted", "rejected"}]
        /\ UNCHANGED <<now, ahead, stored, faults, raced>>
    BY <1>3 DEF Compute, TypeOK
  <2>6. bucket' \in Int /\ bucket' <= Full /\ lastAdmit' \in (0 - Unit)..Horizon
    BY <1>3, Parameters DEF Compute, Admit, TypeOK
  <2> QED
    BY <2>4, <2>5, <2>6 DEF TypeOK, Hash
<1>4. ASSUME NEW r \in Req, Put(r) PROVE TypeOK'
  <2>1. stored' \in Hash \cup {None} /\ faults' \in 0..MaxFaults
    BY <1>4, Parameters DEF Put, Fault, TypeOK
  <2> QED
    BY <1>4, <2>1 DEF Put, TypeOK, Hash
<1>5. CASE UNCHANGED vars
  BY <1>5 DEF vars, TypeOK, Hash
<1> QED
  BY <1>1, <1>2, <1>3, <1>4, <1>5 DEF Next

(* Every step keeps the last refill before the last admission. *)
Old(h) == h.refill <= lastAdmit + MaxSkew
New(r) == pc[r] = "got" /\ local[r].tokens >= 1 /\ local[r].refill <= Clock(r)

LEMMA RefillStep == TypeOK /\ RefilledBefore /\ [Next]_vars => RefilledBefore'
<1> SUFFICES ASSUME TypeOK, RefilledBefore, [Next]_vars PROVE RefilledBefore'
  OBVIOUS
<1> USE Parameters
<1>0. /\ stored # None => Old(stored)
      /\ \A s \in InFlight : Old(local[s]) \/ New(s)
      /\ lastAdmit <= now /\ lastAdmit \in Int /\ now \in Int
      /\ \A s \in Req : local[s].refill \in Int /\ ahead[s] \in 0..MaxSkew
      /\ stored # None => stored.refill \in Int
  BY DEF RefilledBefore, Old, New, TypeOK, Hash
<1>1. CASE Tick
  <2>1. UNCHANGED <<ahead, stored, pc, local, lastAdmit>> /\ now' = now + 1
    BY <1>1 DEF Tick
  <2>2. \A s \in InFlight : New(s) => New(s)'
    BY <1>0, <2>1 DEF New, Clock, InFlight
  <2> QED BY <1>0, <2>1, <2>2 DEF RefilledBefore, InFlight, Old, New
<1>2. ASSUME NEW r \in Req, Get(r) PROVE RefilledBefore'
  <2>1. lastAdmit <= lastAdmit' /\ lastAdmit' <= now /\ lastAdmit' \in Int /\ UNCHANGED <<now, ahead, stored>>
    BY <1>0, <1>2 DEF Get, Admit
  <2>2. ASSUME NEW s \in Req, s # r PROVE pc'[s] = pc[s] /\ local'[s] = local[s]
    BY <1>2, <2>2 DEF Get, TypeOK
  <2>3. \/ pc'[r] = "admitted"
        \/ pc'[r] = "got" /\ local'[r] = IF stored = None THEN Fresh(r) ELSE stored
    BY <1>2 DEF Get, TypeOK
  <2>4. ASSUME NEW s \in Req, pc'[s] \in {"got", "put"} PROVE Old(local[s])' \/ New(s)'
    <3>1. CASE s # r
      <4>1. s \in InFlight
        BY <2>2, <2>4, <3>1 DEF InFlight
      <4>2. Old(local[s]) => Old(local[s])'
        BY <1>0, <2>1, <2>2, <3>1 DEF Old
      <4>3. New(s) => New(s)'
        BY <2>1, <2>2, <3>1 DEF New, Clock
      <4> QED BY <1>0, <4>1, <4>2, <4>3
    <3>2. CASE s = r /\ stored = None
      <4>1. local'[r] = Fresh(r) /\ pc'[r] = "got" /\ Clock(r)' = Clock(r)
        BY <2>1, <2>3, <2>4, <3>2 DEF Clock
      <4>2. Clock(r) \in Int
        BY RefilledFacts
      <4> QED
        BY <3>2, <4>1, <4>2 DEF Fresh, New
    <3>3. CASE s = r /\ stored # None
      <4>1. local'[r] = stored
        BY <2>3, <2>4, <3>3
      <4> QED
        BY <1>0, <2>1, <3>3, <4>1 DEF Old
    <3> QED
      BY <3>1, <3>2, <3>3
  <2>5. stored' # None => Old(stored)'
    BY <1>0, <2>1 DEF Old
  <2> QED
    BY <2>1, <2>4, <2>5 DEF RefilledBefore, InFlight, Old, New
<1>3. ASSUME NEW r \in Req, Compute(r) PROVE RefilledBefore'
  <2>1. UNCHANGED <<now, ahead, stored>> /\ lastAdmit <= lastAdmit' /\ lastAdmit' <= now /\ lastAdmit' \in Int
    BY <1>0, <1>3 DEF Compute, Admit
  <2>2. ASSUME NEW s \in Req, s # r PROVE pc'[s] = pc[s] /\ local'[s] = local[s]
    BY <1>3, <2>2 DEF Compute, TypeOK
  <2>3. \/ pc'[r] = "rejected"
        \/ pc'[r] = "put" /\ local'[r].refill = Clock(r) /\ lastAdmit' = now
    BY <1>3 DEF Compute, Admit, TypeOK
  <2>4. ASSUME NEW s \in Req, pc'[s] \in {"got", "put"} PROVE Old(local[s])' \/ New(s)'
    <3>1. CASE s # r
      <4>1. s \in InFlight
        BY <2>2, <2>4, <3>1 DEF InFlight
      <4>2. Old(local[s]) => Old(local[s])'
        BY <1>0, <2>1, <2>2, <3>1 DEF Old
      <4>3. New(s) => New(s)'
        BY <2>1, <2>2, <3>1 DEF New, Clock
      <4> QED BY <1>0, <4>1, <4>2, <4>3
    <3>2. CASE s = r
      <4>1. local'[r].refill = now + ahead[r] /\ lastAdmit' = now
        BY <2>3, <2>4, <3>2 DEF Clock
      <4> QED BY <1>0, <3>2, <4>1 DEF Old
    <3> QED
      BY <3>1, <3>2
  <2>5. stored' # None => Old(stored)'
    BY <1>0, <2>1 DEF Old
  <2> QED
    BY <2>1, <2>4, <2>5 DEF RefilledBefore, InFlight, Old, New
<1>4. ASSUME NEW r \in Req, Put(r) PROVE RefilledBefore'
  <2>1. pc[r] = "put" /\ pc' = [pc EXCEPT ![r] = "admitted"] /\ UNCHANGED <<now, ahead, local, lastAdmit>>
        /\ stored' \in {stored, local[r]}
    BY <1>4 DEF Put
  <2>2. Old(local[r])
    BY <1>0, <2>1 DEF New, InFlight
  <2>3. \A s \in Req : pc'[s] \in {"got", "put"} => pc'[s] = pc[s]
    BY <2>1 DEF TypeOK
  <2>4. \A s \in InFlight' : Old(local[s])' \/ New(s)'
    BY <1>0, <2>1, <2>3 DEF InFlight, Old, New, Clock
  <2>5. stored' # None => Old(stored)'
    BY <1>0, <2>1, <2>2 DEF Old
  <2> QED
    BY <1>0, <2>1, <2>4, <2>5 DEF RefilledBefore, InFlight, Old, New
<1>5. CASE UNCHANGED vars
  BY <1>5 DEF vars, RefilledBefore, InFlight, Clock
<1> QED
  BY <1>1, <1>2, <1>3, <1>4, <1>5 DEF Next

LEMMA InitInv == Init => TypeOK /\ RefilledBefore
<1> SUFFICES ASSUME Init PROVE TypeOK /\ RefilledBefore
  OBVIOUS
<1>1. [tokens |-> Capacity, refill |-> 0] \in Hash
  BY Parameters DEF Hash
<1>2. TypeOK
  <2>1. raced \in BOOLEAN
    BY DEF Init
  <2> QED
    BY <1>1, <2>1, Parameters DEF Init, TypeOK
<1>3. RefilledBefore
  BY Parameters DEF Init, RefilledBefore, InFlight
<1> QED
  BY <1>2, <1>3

(* Types hold, and nobody refills after the last admission. *)
THEOREM RefillInvariance == Spec => []IInv
<1>1. IInv /\ [Next]_vars => IInv'
  BY TypeStep, RefillStep DEF IInv
<1>2. Init => IInv
  BY InitInv DEF IInv
<1> QED
  BY <1>1, <1>2, PTL DEF Spec

(* A request is rejected only within a second and the skew of the clocks of an *)
(* admission, however many race.                                               *)
THEOREM Patience == Spec => PatienceRewarded
<1>1. ASSUME TypeOK, RefilledBefore, [Next]_vars, NEW r \in Req, Rejects(r)
      PROVE  now - lastAdmit < Unit + MaxSkew
  <2>1. Compute(r) /\ Refilled(r) < 1
    <3>1. pc[r] = "got" /\ pc'[r] = "rejected"
      BY <1>1 DEF Rejects
    <3>2. ~UNCHANGED vars /\ ~Tick
      BY <3>1 DEF vars, Tick
    <3>3. \A s \in Req : ~Get(s) /\ ~Put(s)
      BY <1>1, <3>1 DEF Get, Put, TypeOK
    <3>4. PICK s \in Req : Compute(s)
      BY <1>1, <3>2, <3>3 DEF Next
    <3>5. s = r
      BY <1>1, <3>1, <3>4 DEF Compute, TypeOK
    <3> QED
      BY <1>1, <3>1, <3>4, <3>5 DEF Compute, TypeOK
  <2>2. /\ Elapsed(r) < Unit /\ (local[r].tokens >= 1 => Elapsed(r) < 0)
        /\ Elapsed(r) = (now + ahead[r]) - local[r].refill
    BY <1>1, <2>1, RefilledFacts DEF Elapsed, Clock
  <2>3. /\ local[r].refill \in Int /\ now \in Int /\ lastAdmit \in Int /\ Unit \in Int
        /\ ahead[r] \in 0..MaxSkew /\ MaxSkew \in Nat
    BY <1>1, Parameters DEF TypeOK, Hash
  <2>4. local[r].refill <= lastAdmit + MaxSkew
    BY <1>1, <2>1, <2>2, <2>3 DEF Compute, InFlight, RefilledBefore, Clock
  <2> QED
    BY <2>2, <2>3, <2>4
<1>2. IInv /\ [Next]_vars => [\A r \in Req : Rejects(r) => now - lastAdmit < Unit + MaxSkew]_vars
  BY <1>1 DEF IInv
<1> QED
  BY <1>2, RefillInvariance, PTL DEF Spec, PatienceRewarded

-----------------------------------------------------------------------------
(* No two requests in flight together. *)

(* Without a race a request starts only when no other is in flight. *)
LEMMA AloneStep ==
  ASSUME TypeOK, Alone, [Next]_vars, ~raced'
  PROVE  /\ Alone' /\ ~raced
         /\ \A r \in Req : Get(r) => InFlight = {}
<1>1. ASSUME NEW r \in Req, Get(r) PROVE InFlight = {}
  BY <1>1 DEF Get
<1>0. ~raced
  BY DEF Next, Tick, Get, Compute, Put, vars, TypeOK
<1>2. ASSUME Tick \/ UNCHANGED vars PROVE Alone'
  BY <1>2 DEF Tick, vars, Alone, InFlight
<1>3. ASSUME NEW r \in Req, Get(r) PROVE Alone'
  <2>1. \A s \in Req : s # r => pc'[s] = pc[s] /\ pc[s] \notin {"got", "put"}
    BY <1>1, <1>3 DEF Get, TypeOK, InFlight
  <2> QED
    BY <2>1 DEF Alone, InFlight
<1>4. ASSUME NEW r \in Req, Compute(r) \/ Put(r) PROVE Alone'
  <2>1. InFlight' \subseteq InFlight
    BY <1>4 DEF Compute, Put, TypeOK, InFlight
  <2> QED
    BY <2>1 DEF Alone
<1> QED
  BY <1>0, <1>1, <1>2, <1>3, <1>4 DEF Next

(* The ideal bucket never holds less than what the hash, or the request that *)
(* will rewrite it, says.                                                    *)
LEMMA BackedStep ==
  ASSUME TypeOK, RefilledBefore, SequentialInv, [Next]_vars, Plain', ~raced'
  PROVE  Backed'
<1> USE Parameters
<1>0. Plain /\ ~raced /\ Backed /\ Alone /\ faults' = 0 /\ faults = 0 /\ \A r \in Req : ahead[r] = 0
  <2>1. Plain /\ ~raced /\ faults' = 0
    BY DEF Next, Tick, Get, Compute, Put, Fault, vars, TypeOK, Plain, Agreed
  <2> QED
    BY <2>1 DEF SequentialInv, Plain, Agreed
<1>1. CASE Tick
  <2>1. now' = now + 1 /\ bucket' = Least(Full, bucket + 1) /\ bucket \in Int /\ now \in Int /\ InFlight' = InFlight
    BY <1>1 DEF Tick, TypeOK, InFlight
  <2>2. ASSUME NEW h, h.tokens * Unit \in Int, h.refill \in Int, Holds(h)
        PROVE  Least(Full, h.tokens * Unit + (now' - h.refill)) <= bucket'
    BY <2>1, <2>2 DEF Holds, Least
  <2>3. \A r \in InFlight : local[r].tokens * Unit \in Int /\ local[r].refill \in Int
    BY DEF TypeOK, Hash, InFlight
  <2>4. stored # None => stored.tokens * Unit \in Int /\ stored.refill \in Int
    BY DEF TypeOK, Hash
  <2>5. \A r \in InFlight : /\ Least(Full, local[r].tokens * Unit + (now' - local[r].refill)) <= bucket'
                            /\ local[r].refill <= now'
    BY <1>0, <2>1, <2>2, <2>3 DEF Backed, Holds
  <2>6. stored # None /\ InFlight = {} => /\ Least(Full, stored.tokens * Unit + (now' - stored.refill)) <= bucket'
                                         /\ stored.refill <= now'
    BY <1>0, <2>1, <2>2, <2>4 DEF Backed, Holds
  <2>7. bucket' >= 0 /\ (bucket = Full => bucket' = Full)
    BY <1>0, <2>1 DEF Backed, Least
  <2>8. UNCHANGED <<stored, local>>
    BY <1>1 DEF Tick
  <2> QED
    BY <1>0, <1>1, <2>1, <2>5, <2>6, <2>7, <2>8 DEF Backed, Holds, Read, Tick
<1>2. ASSUME NEW r \in Req, Get(r) PROVE Backed'
  <2>1. /\ UNCHANGED <<now, stored, bucket>> /\ pc' = [pc EXCEPT ![r] = "got"]
        /\ local' = [local EXCEPT ![r] = IF stored = None THEN Fresh(r) ELSE stored]
    BY <1>0, <1>2 DEF Get, Fault
  <2>2. InFlight = {}
    BY <1>0, <1>2, AloneStep
  <2>3. InFlight' = {r}
    BY <2>1, <2>2 DEF InFlight, TypeOK
  <2>4. local'[r] = IF stored = None THEN Fresh(r) ELSE stored
    BY <2>1 DEF TypeOK
  <2>5. Holds(local'[r])
    <3>1. CASE stored = None
      <4>1. bucket = Full
        BY <1>0, <2>2, <3>1 DEF Backed
      <4>2. Fresh(r).refill = now /\ Fresh(r).tokens * Unit + (now - Fresh(r).refill) = Full
        BY <1>0 DEF Fresh, Clock, Full, TypeOK
      <4> QED
        BY <2>4, <3>1, <4>1, <4>2 DEF Holds, Least, TypeOK
    <3>2. CASE stored # None
      BY <1>0, <2>2, <2>4, <3>2 DEF Backed
    <3> QED
      BY <3>1, <3>2
  <2>6. Holds(local[r])' /\ Read(r)'
    BY <2>1, <2>4, <2>5 DEF Holds, Read, Fresh
  <2> QED
    BY <1>0, <2>1, <2>3, <2>6 DEF Backed
<1>3. ASSUME NEW r \in Req, Compute(r) PROVE Backed'
  <2>1. r \in InFlight /\ \A s \in InFlight : s = r
    BY <1>0, <1>3 DEF Compute, InFlight, Alone
  <2>2. ahead[r] = 0 /\ local[r].refill <= now /\ Holds(local[r]) /\ bucket >= 0
    BY <1>0, <2>1 DEF Holds, Backed
  <2>3. CASE Refilled(r) >= 1
    <3>1. /\ local' = [local EXCEPT ![r] = [tokens |-> Refilled(r) - 1, refill |-> Clock(r)]]
          /\ pc' = [pc EXCEPT ![r] = "put"] /\ bucket' = bucket - Unit /\ UNCHANGED <<now, stored>>
      BY <1>3, <2>2, <2>3, RefilledWorth DEF Compute, Admit
    <3>2. InFlight' = {r}
      BY <1>3, <2>1, <3>1 DEF InFlight, TypeOK
    <3>3. local'[r].tokens = Refilled(r) - 1 /\ local'[r].refill = now
      BY <2>2, <3>1, RefilledWorth DEF TypeOK
    <3>4. Refilled(r) \in Int /\ Refilled(r) * Unit <= bucket
      <4>1. Refilled(r) \in 0..Capacity
            /\ Refilled(r) * Unit <= Least(Full, local[r].tokens * Unit + (now - local[r].refill))
        BY <2>2, RefilledWorth
      <4>2. local[r].tokens * Unit \in Int /\ now - local[r].refill \in Int /\ bucket \in Int
        BY DEF TypeOK, Hash
      <4> QED
        BY <2>2, <4>1, <4>2 DEF Holds, Least
    <3>5. (Refilled(r) - 1) * Unit = Refilled(r) * Unit - Unit /\ Unit <= Refilled(r) * Unit
      <4>1. 1 * Unit <= Refilled(r) * Unit
        BY <2>3, <3>4, Monotone
      <4> QED
        BY <3>4, <4>1, Distribute
    <3>6. bucket' \in Int /\ bucket' >= 0 /\ (Refilled(r) - 1) * Unit <= bucket'
      <4>1. bucket \in Int /\ Refilled(r) * Unit \in Int
        BY <3>4 DEF TypeOK
      <4> QED
        BY <3>1, <3>4, <3>5, <4>1
    <3>7. Holds(local[r])'
      <4>1. local'[r].tokens * Unit + (now' - local'[r].refill) = (Refilled(r) - 1) * Unit
        <5>1. now' - local'[r].refill = 0
          BY <3>1, <3>3 DEF TypeOK
        <5>2. (Refilled(r) - 1) * Unit \in Int
          BY <3>4
        <5> QED
          BY <3>3, <5>1, <5>2
      <4>2. (Refilled(r) - 1) * Unit \in Int
        BY <3>4
      <4> QED
        BY <3>1, <3>3, <3>6, <4>1, <4>2 DEF Holds, Least, TypeOK
    <3>8. pc'[r] # "got"
      BY <3>1 DEF TypeOK
    <3> QED
      BY <1>0, <3>1, <3>2, <3>6, <3>7, <3>8 DEF Backed
  <2>4. CASE Refilled(r) < 1
    <3>1. UNCHANGED <<now, stored, local, bucket>> /\ pc' = [pc EXCEPT ![r] = "rejected"]
      BY <1>3, <2>4, <2>2, RefilledWorth DEF Compute
    <3>2. InFlight' = {}
      BY <2>1, <3>1 DEF InFlight, TypeOK
    <3>3. local[r].tokens = 0 /\ pc[r] = "got"
      BY <1>3, <2>2, <2>4, RefilledWorth DEF Compute
    <3>4. stored # None /\ stored = local[r]
      BY <1>0, <2>1, <3>3 DEF Backed, Read
    <3>5. Holds(stored)'
      BY <2>2, <3>1, <3>4 DEF Holds
    <3> QED
      BY <1>0, <3>1, <3>2, <3>4, <3>5 DEF Backed
  <2>5. Refilled(r) \in 0..Capacity
    BY <2>2, RefilledWorth
  <2> QED
    BY <2>3, <2>4, <2>5
<1>4. ASSUME NEW r \in Req, Put(r) PROVE Backed'
  <2>1. r \in InFlight /\ \A s \in InFlight : s = r
    BY <1>0, <1>4 DEF Put, InFlight, Alone
  <2>2. stored' = local[r] /\ UNCHANGED <<now, local, bucket>> /\ pc' = [pc EXCEPT ![r] = "admitted"]
    BY <1>0, <1>4 DEF Put, Fault
  <2>3. InFlight' = {}
    BY <2>1, <2>2 DEF InFlight, TypeOK
  <2>4. Holds(local[r]) /\ local[r] \in [tokens : Int, refill : Int]
    BY <1>0, <2>1 DEF Backed, TypeOK, Hash
  <2>5. Holds(stored)' /\ stored' # None
    BY <2>2, <2>4 DEF Holds
  <2> QED
    BY <1>0, <2>2, <2>3, <2>5 DEF Backed
<1>5. CASE UNCHANGED vars
  BY <1>0, <1>5 DEF vars, Backed, Holds, Read, InFlight
<1> QED
  BY <1>1, <1>2, <1>3, <1>4, <1>5 DEF Next

(* While requests do not race, Redis answers and clocks agree, no user is ever   *)
(* admitted beyond what the ideal bucket holds.                                  *)
THEOREM NoRaceIsFair == Spec => []NeverOverdrawn
<1>1. Init => SequentialInv
  BY Parameters DEF Init, SequentialInv, Alone, Backed, InFlight
<1>2. IInv /\ SequentialInv /\ [Next]_vars => SequentialInv'
  <2> SUFFICES ASSUME TypeOK, RefilledBefore, SequentialInv, [Next]_vars, ~raced'
               PROVE  Alone' /\ (Plain' => Backed')
    BY DEF SequentialInv, IInv
  <2>1. ~raced
    BY DEF Next, Tick, Get, Compute, Put, vars, TypeOK
  <2>2. Alone
    BY <2>1 DEF SequentialInv
  <2> QED
    BY <2>2, AloneStep, BackedStep
<1>3. SequentialInv => NeverOverdrawn
  BY DEF SequentialInv, Backed, NeverOverdrawn
<1>4. Spec => []SequentialInv
  BY <1>1, <1>2, RefillInvariance, PTL DEF Spec
<1> QED
  BY <1>3, <1>4, PTL

=============================================================================
