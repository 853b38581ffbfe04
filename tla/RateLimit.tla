----------------------------- MODULE RateLimit -----------------------------
(***************************************************************************)
(* The token buckets of one process (core/rateLimit.ts,                    *)
(* MemoryRateLimitStore): refilled lazily when used, and swept now and     *)
(* then of the buckets that are full again.                                *)
(***************************************************************************)
EXTENDS Integers

CONSTANTS
  Keys,        \* owner and provider pairs
  Capacity,    \* per key: the burst, in units
  Refill,      \* per key: the units one tick adds
  Cost,        \* the units one request costs
  PruneEvery,  \* the ticks between two sweeps
  MaxClock,    \* bound: the last tick of a behaviour
  NoBucket     \* a key the map does not hold

ASSUME RateLimitAssumption ==
  /\ Capacity \in [Keys -> Nat \ {0}]
  /\ Refill \in [Keys -> Nat \ {0}]
  /\ Cost \in Nat \ {0}
  /\ PruneEvery \in Nat
  /\ MaxClock \in Nat
  /\ \A k \in Keys : Cost <= Capacity[k]
  /\ NoBucket \notin [tokens : Nat, last : Nat]

VARIABLES
  clock,      \* Date.now()
  buckets,    \* MemoryRateLimitStore.buckets
  lastPrune,  \* MemoryRateLimitStore.lastPrune
  granted,    \* history: how many requests each key was granted before each tick
  denied      \* the last answer, when it was a denial: its key and hint

rateLimitVars == <<clock, buckets, lastPrune, granted, denied>>

Bucket == [tokens : Nat, last : Nat]

RateLimitTypeOK ==
  /\ clock \in 0..MaxClock
  /\ buckets \in [Keys -> Bucket \cup {NoBucket}]
  /\ lastPrune \in Int
  /\ \A k \in Keys : buckets[k] # NoBucket => buckets[k].last <= clock

RateLimitInit ==
  /\ clock = 0
  /\ buckets = [k \in Keys |-> NoBucket]
  /\ lastPrune = -(PruneEvery + 1)
  /\ granted = [k \in Keys |-> [t \in 0..(MaxClock + 1) |-> 0]]
  /\ denied = {}

AdvanceClock ==
  /\ clock < MaxClock
  /\ clock' = clock + 1
  /\ UNCHANGED <<buckets, lastPrune, granted, denied>>

Lower(a, b) == IF a <= b THEN a ELSE b

(* Mutant: a bucket that refills past its capacity. *)
UncappedLevelAt(k, b, t) ==
  IF b = NoBucket THEN Capacity[k] ELSE b.tokens + (t - b.last) * Refill[k]

(* The level of a bucket at time t. *)
LevelAt(k, b, t) ==
  IF b = NoBucket THEN Capacity[k]
  ELSE Lower(Capacity[k], b.tokens + (t - b.last) * Refill[k])

(* Mutant: a sweep that forgets every bucket that was left alone. *)
IdleForgettable(k) ==
  buckets[k] # NoBucket /\ clock - buckets[k].last >= PruneEvery

(* Whether the sweep may forget a bucket: it is full again. *)
Forgettable(k) ==
  /\ buckets[k] # NoBucket
  /\ buckets[k].tokens + (clock - buckets[k].last) * Refill[k] >= Capacity[k]

PruneDue == clock - lastPrune > PruneEvery

(* The map as take() finds it, after its sweep. *)
Swept == [k \in Keys |-> IF PruneDue /\ Forgettable(k) THEN NoBucket ELSE buckets[k]]

(* Mutant: rounded down. *)
RetryAfterFloor(k, tokens) == (Cost - tokens) \div Refill[k]

(* How long until `tokens` have grown to the cost, rounded up. *)
RetryAfter(k, tokens) == (Cost - tokens + Refill[k] - 1) \div Refill[k]

(* One more request is granted now: it is before every later tick.          *)
OneMoreGranted(k) ==
  [granted EXCEPT ![k] = [t \in 0..(MaxClock + 1) |->
     IF t > clock THEN granted[k][t] + 1 ELSE granted[k][t]]]

(* take(key, cost, refill, capacity): the bucket is brought up to date and  *)
(* charged, or left uncharged with the time to wait.                        *)
TakeTokens(k) ==
  LET tokens == LevelAt(k, Swept[k], clock)
      ok == tokens >= Cost
      left == IF ok THEN tokens - Cost ELSE tokens
  IN  /\ buckets' = [Swept EXCEPT ![k] = [tokens |-> left, last |-> clock]]
      /\ lastPrune' = IF PruneDue THEN clock ELSE lastPrune
      /\ granted' = IF ok THEN OneMoreGranted(k) ELSE granted
      /\ denied' = IF ok THEN {} ELSE {[key |-> k, wait |-> RetryAfter(k, tokens)]}
      /\ UNCHANGED clock

RateLimitNext == AdvanceClock \/ \E k \in Keys : TakeTokens(k)

RateLimitSpec == RateLimitInit /\ [][RateLimitNext]_rateLimitVars

(* Lazily refilled and swept buckets promise exactly what eagerly refilled  *)
(* ones do: forgetting a full bucket loses nothing, and no order of takes,  *)
(* denials and sweeps grants a request the budget does not hold             *)
(* (MemoryRateLimitStore.take against the contract of RateLimitStore).      *)
Eager == INSTANCE Budget WITH
  level <- [k \in Keys |-> LevelAt(k, buckets[k], clock)]

ImplementsBudget == Eager!BudgetSpec

GrantedIn(k, from, to) == granted[k][to + 1] - granted[k][from]

(* Over any window the provider sees at most the burst and what the window  *)
(* refilled (provider.rateLimit, the promise to the owner of the account).  *)
WithinBudget ==
  \A k \in Keys, from \in 0..clock : \A to \in from..clock :
    GrantedIn(k, from, to) * Cost <= Capacity[k] + (to - from) * Refill[k]

(* The hint of a denial is exact: waiting that long is enough when nobody   *)
(* else spends, and waiting any less is not (RateLimitedError.retryAfterMs, *)
(* which the broker turns into Retry-After).                                *)
HonestHint ==
  \A d \in denied :
    LET b == buckets[d.key] IN
      /\ d.wait >= 1
      /\ LevelAt(d.key, b, b.last + d.wait) >= Cost
      /\ LevelAt(d.key, b, b.last + d.wait - 1) < Cost

(* The buckets of one process. *)
RateLimitInv == RateLimitTypeOK /\ WithinBudget /\ HonestHint
=============================================================================
