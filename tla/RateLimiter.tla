---------------------------- MODULE RateLimiter ----------------------------
(***************************************************************************)
(* RateLimiter.Allow (internal/middleware/rate_limit.go) for one user: a   *)
(* token bucket kept in a Redis hash.  Requests read the hash, compute and *)
(* write it back, and nothing makes the three one step: tokenLock is never *)
(* locked.  Time passes in ticks, Unit of them to the second in which a    *)
(* token is added; tokens are whole, time in between is not counted.  The  *)
(* nodes that serve the requests each have a clock of their own.           *)
(***************************************************************************)
EXTENDS Integers, FiniteSets

CONSTANTS
  Req,            \* requests of the user
  None,           \* the hash does not exist
  Capacity,       \* rl.capacity, 5 in the code
  Unit,           \* ticks per token; rl.rate is one token per second
  MaxConcurrent,  \* requests the user has in flight at a time
  MaxSkew,        \* bound: ticks one node's clock is ahead of another's
  MaxFaults,      \* bound: errors Redis returns
  Horizon         \* bound: ticks in a behaviour

ASSUME RateAssumption ==
  /\ None \notin [tokens : Int, refill : Int]
  /\ IsFiniteSet(Req)
  /\ Capacity \in Nat \ {0} /\ Unit \in Nat \ {0} /\ MaxConcurrent \in Nat \ {0}
  /\ MaxSkew \in Nat /\ MaxFaults \in Nat /\ Horizon \in Nat

VARIABLES
  now,        \* the time
  ahead,      \* per request: how far the clock of its node is ahead
  stored,     \* the hash: tokens and last_refill, or None
  pc,         \* per request: "idle", "got" the hash, "put" it back next, "admitted", "rejected"
  local,      \* per request: its currentTokens and lastRefillTime
  faults,     \* errors so far
  bucket,     \* the ticks an ideal bucket, filled tick by tick, would hold now
  lastAdmit,  \* when a request was last admitted
  raced       \* two requests have been in flight together

vars == <<now, ahead, stored, pc, local, faults, bucket, lastAdmit, raced>>

Full  == Capacity * Unit
Least(a, b) == IF a <= b THEN a ELSE b

Clock(r) == now + ahead[r]

FreshEmpty(r) == [tokens |-> 0, refill |-> Clock(r)]                      \* mutant
Fresh(r) == [tokens |-> Capacity, refill |-> Clock(r)]

Hash == [tokens : 0..Capacity, refill : 0..(Horizon + MaxSkew)]

TypeOK ==
  /\ now \in 0..Horizon
  /\ ahead \in [Req -> 0..MaxSkew]
  /\ stored \in Hash \cup {None}
  /\ pc \in [Req -> {"idle", "got", "put", "admitted", "rejected"}]
  /\ local \in [Req -> Hash]
  /\ faults \in 0..MaxFaults
  /\ bucket \in Int /\ bucket <= Full
  /\ lastAdmit \in (0 - Unit)..Horizon
  /\ raced \in BOOLEAN

Init ==
  /\ now = 0 /\ ahead \in [Req -> 0..MaxSkew] /\ stored = None
  /\ pc = [r \in Req |-> "idle"]
  /\ local = [r \in Req |-> [tokens |-> Capacity, refill |-> 0]]
  /\ faults = 0 /\ bucket = Full /\ lastAdmit = 0 - Unit
  /\ raced = FALSE

-----------------------------------------------------------------------------
InFlight == {r \in Req : pc[r] \in {"got", "put"}}

Tick ==
  /\ now < Horizon /\ now' = now + 1
  /\ bucket' = Least(Full, bucket + 1)
  /\ UNCHANGED <<ahead, stored, pc, local, faults, lastAdmit, raced>>

Fault == faults < MaxFaults /\ faults' = faults + 1

Admit ==
  /\ bucket' = bucket - Unit
  /\ lastAdmit' = now

(* HMGET.  An error lets the request through. *)
Get(r) ==
  /\ pc[r] = "idle" /\ Cardinality(InFlight) < MaxConcurrent
  /\ raced' = (raced \/ InFlight # {})
  /\ \/ /\ pc' = [pc EXCEPT ![r] = "got"]
        /\ local' = [local EXCEPT ![r] = IF stored = None THEN Fresh(r) ELSE stored]
        /\ UNCHANGED <<faults, bucket, lastAdmit>>
     \/ /\ Fault /\ Admit
        /\ pc' = [pc EXCEPT ![r] = "admitted"]
        /\ UNCHANGED local
  /\ UNCHANGED <<now, ahead, stored>>

Elapsed(r) == Clock(r) - local[r].refill

ElapsedRoundedUp(r) == (Elapsed(r) + Unit - 1) \div Unit                  \* mutant
(* Go's conversion to an integer drops the fraction, of a negative number too. *)
TokensToAdd(r) == IF Elapsed(r) >= 0 THEN Elapsed(r) \div Unit ELSE 0 - ((0 - Elapsed(r)) \div Unit)

RefilledFromNow(r) == local[r].tokens                                     \* mutant
Refilled(r) == Least(Capacity, local[r].tokens + TokensToAdd(r))

(* Refill, then take a token if there is one. *)
Compute(r) ==
  /\ pc[r] = "got"
  /\ \/ /\ Refilled(r) >= 1
        /\ local' = [local EXCEPT ![r] = [tokens |-> Refilled(r) - 1, refill |-> Clock(r)]]
        /\ pc' = [pc EXCEPT ![r] = "put"]
        /\ Admit
     \/ /\ Refilled(r) < 1
        /\ pc' = [pc EXCEPT ![r] = "rejected"]
        /\ UNCHANGED <<local, bucket, lastAdmit>>
  /\ UNCHANGED <<now, ahead, stored, faults, raced>>

(* HMSET.  The request goes through even when that fails. *)
Put(r) ==
  /\ pc[r] = "put"
  /\ pc' = [pc EXCEPT ![r] = "admitted"]
  /\ \/ stored' = local[r] /\ UNCHANGED faults
     \/ Fault /\ UNCHANGED stored
  /\ UNCHANGED <<now, ahead, local, bucket, lastAdmit, raced>>

Next == Tick \/ \E r \in Req : Get(r) \/ Compute(r) \/ Put(r)

Spec == Init /\ [][Next]_vars

-----------------------------------------------------------------------------
(* As long as Redis answers, clocks agree and requests do not race, the limiter  *)
(* admits nothing an ideal token bucket would not: at most capacity requests at  *)
(* once, and one more for each second (rate_limit.go:79-95).                     *)
Agreed == \A r \in Req : ahead[r] = 0
Plain == faults = 0 /\ Agreed
NeverOverdrawn == Plain /\ ~raced => bucket >= 0

(* Whoever is rejected asks less than a second after somebody was admitted, or   *)
(* than a second and what the clocks differ by, however many requests race and   *)
(* whatever Redis loses (rate_limit.go:79-87): tokens taken back from a node     *)
(* whose clock is behind never lock the user out for longer.                     *)
Rejects(r) == pc[r] = "got" /\ pc'[r] = "rejected"
PatienceRewarded == [][\A r \in Req : Rejects(r) => now - lastAdmit < Unit + MaxSkew]_vars

(* Why: while requests do not race, the hash (or what is about to be written to *)
(* it) never says more than the ideal bucket holds, and a request that is       *)
(* rejected leaves behind the hash that it read ...                             *)
Holds(h) == h.refill <= now /\ Least(Full, h.tokens * Unit + (now - h.refill)) <= bucket

Alone == \A r, s \in InFlight : r = s

Read(r) == IF stored = None THEN local[r].tokens = Capacity ELSE local[r] = stored

Backed ==
  /\ bucket >= 0
  /\ IF stored = None THEN bucket = Full \/ InFlight # {} ELSE InFlight = {} => Holds(stored)
  /\ \A r \in InFlight : Holds(local[r]) /\ (pc[r] = "got" => Read(r))

SequentialInv == ~raced => Alone /\ (Plain => Backed)

(* ... and, with any number of them, it was last refilled before the last admission, *)
(* by the clock that is furthest ahead, or has just been filled.                     *)
RefilledBefore ==
  /\ stored # None => stored.refill <= lastAdmit + MaxSkew
  /\ \A r \in InFlight :
       \/ local[r].refill <= lastAdmit + MaxSkew
       \/ pc[r] = "got" /\ local[r].tokens >= 1 /\ local[r].refill <= Clock(r)
  /\ lastAdmit <= now

IInv == TypeOK /\ RefilledBefore

-----------------------------------------------------------------------------
(* rate_limit.go:24 says that tokenLock protects the two values, so that racing *)
(* requests do not spend a token twice: it is never locked, and they do.        *)
RacesNeverOverdraw == Plain => bucket >= 0

=============================================================================
