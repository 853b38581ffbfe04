--------------------------- MODULE ServicesProofs ---------------------------
(***************************************************************************)
(* What the small protocols keep for every value of their constants: the   *)
(* rate limit, the delivery of prompts, the messages about credential      *)
(* health, rekeying, the tool allowlist and the advisory locks.            *)
(***************************************************************************)
EXTENDS ServicesInv, FiniteSetTheorems, WellFoundedInduction, TLAPS

(***************************************************************************)
(* Rate limiting                                                           *)
(***************************************************************************)

(* One more tick adds one more refill. *)
LEMMA OneMoreTick ==
  ASSUME NEW d \in Nat, NEW r \in Nat
  PROVE  (d + 1) * r = d * r + r /\ d * r \in Nat
  OBVIOUS

(* A level is a number of units, at most the capacity. *)
LEMMA LevelBounds ==
  ASSUME RateLimitTypeOK, NEW k \in Keys
  PROVE  /\ LevelAt(k, buckets[k], clock) \in Nat
         /\ LevelAt(k, buckets[k], clock) <= Capacity[k]
<1>1. Capacity[k] \in Nat /\ Refill[k] \in Nat
  BY RateLimitAssumption
<1>2. CASE buckets[k] = NoBucket
  BY <1>1, <1>2 DEF LevelAt
<1>3. CASE buckets[k] # NoBucket
  <2>1. buckets[k] \in Bucket /\ clock \in Nat /\ buckets[k].last <= clock
    BY <1>3 DEF RateLimitTypeOK
  <2>2. /\ buckets[k].tokens \in Nat
        /\ clock - buckets[k].last \in Nat
    BY <2>1 DEF Bucket
  <2>3. (clock - buckets[k].last) * Refill[k] \in Nat
    BY <1>1, <2>2, OneMoreTick
  <2> QED  BY <1>1, <1>3, <2>2, <2>3 DEF LevelAt, Lower
<1> QED  BY <1>2, <1>3

(* The sweep forgets only buckets that are full again. *)
LEMMA SweepKeepsLevels ==
  ASSUME RateLimitTypeOK, NEW k \in Keys
  PROVE  /\ Swept[k] \in Bucket \cup {NoBucket}
         /\ Swept[k] # NoBucket => Swept[k].last <= clock
         /\ LevelAt(k, Swept[k], clock) = LevelAt(k, buckets[k], clock)
<1>1. Swept[k] = IF PruneDue /\ Forgettable(k) THEN NoBucket ELSE buckets[k]
  BY DEF Swept
<1>2. CASE PruneDue /\ Forgettable(k)
  <2>1. LevelAt(k, buckets[k], clock) <= Capacity[k]
    BY LevelBounds
  <2>2. buckets[k] \in Bucket /\ clock \in Nat /\ buckets[k].last <= clock /\ buckets[k] # NoBucket
    BY <1>2 DEF Forgettable, RateLimitTypeOK
  <2>3. (clock - buckets[k].last) * Refill[k] \in Nat
    BY <2>2, RateLimitAssumption, OneMoreTick DEF Bucket
  <2>4. LevelAt(k, buckets[k], clock) = Capacity[k]
    BY <1>2, <2>2, <2>3, RateLimitAssumption DEF Forgettable, LevelAt, Lower, Bucket
  <2> QED  BY <1>1, <1>2, <2>4 DEF LevelAt
<1>3. CASE ~(PruneDue /\ Forgettable(k))
  BY <1>1, <1>3 DEF RateLimitTypeOK
<1> QED  BY <1>2, <1>3

(* A take keeps the types. *)
LEMMA TakeKeepsTypes ==
  ASSUME RateLimitTypeOK, NEW k \in Keys, TakeTokens(k)
  PROVE  RateLimitTypeOK'
<1> DEFINE tokens == LevelAt(k, Swept[k], clock)
           left == IF tokens >= Cost THEN tokens - Cost ELSE tokens
<1>1. tokens \in Nat /\ left \in Nat
  BY SweepKeepsLevels, LevelBounds, RateLimitAssumption
<1>2. clock' = clock /\ clock \in Nat
  BY DEF TakeTokens, RateLimitTypeOK
<1>3. buckets' = [Swept EXCEPT ![k] = [tokens |-> left, last |-> clock]]
  BY DEF TakeTokens
<1>4. [tokens |-> left, last |-> clock] \in Bucket
  BY <1>1, <1>2 DEF Bucket
<1>5. Swept \in [Keys -> Bucket \cup {NoBucket}]
  BY SweepKeepsLevels DEF Swept
<1>6. buckets' \in [Keys -> Bucket \cup {NoBucket}]
  BY <1>3, <1>4, <1>5
<1>7. ASSUME NEW j \in Keys, buckets'[j] # NoBucket
      PROVE  buckets'[j].last <= clock'
  <2>1. CASE j = k
    BY <2>1, <1>2, <1>3, <1>5
  <2>2. CASE j # k
    <3>1. buckets'[j] = Swept[j]
      BY <2>2, <1>3, <1>5
    <3> QED  BY <3>1, <1>2, <1>7, SweepKeepsLevels
  <2> QED  BY <2>1, <2>2
<1>8. lastPrune' \in Int
  BY DEF TakeTokens, RateLimitTypeOK
<1> QED  BY <1>2, <1>6, <1>7, <1>8 DEF RateLimitTypeOK

(* The clock, the map and the time of the sweep keep their types, and no    *)
(* bucket is ever written in the future (MemoryRateLimitStore).            *)
THEOREM RateLimitTypeCorrect == RateLimitSpec => []RateLimitTypeOK
<1>1. RateLimitInit => RateLimitTypeOK
  BY RateLimitAssumption DEF RateLimitInit, RateLimitTypeOK
<1>2. RateLimitTypeOK /\ [RateLimitNext]_rateLimitVars => RateLimitTypeOK'
  <2> SUFFICES ASSUME RateLimitTypeOK, [RateLimitNext]_rateLimitVars
               PROVE  RateLimitTypeOK'
    OBVIOUS
  <2>1. CASE AdvanceClock
    BY <2>1, RateLimitAssumption DEF AdvanceClock, RateLimitTypeOK, Bucket
  <2>2. ASSUME NEW k \in Keys, TakeTokens(k)
        PROVE  RateLimitTypeOK'
    BY <2>2, TakeKeepsTypes
  <2>3. CASE UNCHANGED rateLimitVars
    BY <2>3 DEF rateLimitVars, RateLimitTypeOK
  <2> QED  BY <2>1, <2>2, <2>3 DEF RateLimitNext
<1> QED  BY <1>1, <1>2, PTL DEF RateLimitSpec

(* What the abstract budget holds. *)
Level == [k \in Keys |-> LevelAt(k, buckets[k], clock)]

(* The initial budget is full, as every key without a bucket is. *)
LEMMA StartsFull == RateLimitInit => Eager!BudgetInit
<1> SUFFICES ASSUME RateLimitInit
             PROVE  [k \in Keys |-> LevelAt(k, buckets[k], clock)] = [k \in Keys |-> Capacity[k]]
  BY DEF Eager!BudgetInit
<1> QED  BY DEF RateLimitInit, LevelAt

(* A tick of the clock refills every key at once. *)
LEMMA TickReplenishes ==
  ASSUME RateLimitTypeOK, AdvanceClock
  PROVE  Eager!Replenish
<1> SUFFICES ASSUME NEW k \in Keys
             PROVE  LevelAt(k, buckets'[k], clock') =
                      Eager!Least(Capacity[k], LevelAt(k, buckets[k], clock) + Refill[k])
  BY DEF Eager!Replenish
<1>1. Capacity[k] \in Nat /\ Refill[k] \in Nat
  BY RateLimitAssumption
<1>2. buckets'[k] = buckets[k] /\ clock' = clock + 1 /\ clock \in Nat
  BY DEF AdvanceClock, RateLimitTypeOK
<1>3. CASE buckets[k] = NoBucket
  BY <1>1, <1>2, <1>3 DEF LevelAt, Eager!Least
<1>4. CASE buckets[k] # NoBucket
  <2>1. /\ buckets[k].tokens \in Nat
        /\ buckets[k].last \in Nat
        /\ clock - buckets[k].last \in Nat
    BY <1>2, <1>4 DEF RateLimitTypeOK, Bucket
  <2> DEFINE d == clock - buckets[k].last
  <2>2. clock' - buckets[k].last = d + 1
    BY <1>2, <2>1
  <2>3. (d + 1) * Refill[k] = d * Refill[k] + Refill[k] /\ d * Refill[k] \in Nat
    BY <1>1, <2>1, OneMoreTick
  <2>4. LevelAt(k, buckets'[k], clock') =
          Lower(Capacity[k], buckets[k].tokens + (d + 1) * Refill[k])
    BY <1>2, <1>4, <2>2 DEF LevelAt
  <2>5. LevelAt(k, buckets[k], clock) = Lower(Capacity[k], buckets[k].tokens + d * Refill[k])
    BY <1>4 DEF LevelAt
  <2> HIDE DEF d
  <2> QED  BY <1>1, <2>1, <2>3, <2>4, <2>5 DEF Lower, Eager!Least
<1> QED  BY <1>3, <1>4

(* What a take leaves of its own budget. *)
Charged(k) ==
  IF LevelAt(k, buckets[k], clock) >= Cost THEN LevelAt(k, buckets[k], clock) - Cost
  ELSE LevelAt(k, buckets[k], clock)

(* A take writes what it left into its own bucket; to every other level its *)
(* sweep makes no difference.                                               *)
LEMMA TakeLevels ==
  ASSUME RateLimitTypeOK, NEW k \in Keys, TakeTokens(k)
  PROVE  /\ Charged(k) \in Nat /\ Charged(k) <= LevelAt(k, buckets[k], clock)
         /\ buckets'[k] # NoBucket /\ buckets'[k].tokens = Charged(k)
         /\ LevelAt(k, buckets'[k], clock') = Charged(k)
         /\ \A j \in Keys : j # k =>
              LevelAt(j, buckets'[j], clock') = LevelAt(j, buckets[j], clock)
<1> DEFINE tokens == LevelAt(k, Swept[k], clock)
           left == IF tokens >= Cost THEN tokens - Cost ELSE tokens
<1>1. /\ tokens = LevelAt(k, buckets[k], clock) /\ tokens \in Nat /\ tokens <= Capacity[k]
      /\ left \in Nat /\ left <= tokens
  BY SweepKeepsLevels, LevelBounds, RateLimitAssumption
<1>2. clock' = clock /\ clock \in Nat
  BY DEF TakeTokens, RateLimitTypeOK
<1>3. buckets' = [Swept EXCEPT ![k] = [tokens |-> left, last |-> clock]]
  BY DEF TakeTokens
<1>4. Swept \in [Keys -> Bucket \cup {NoBucket}]
  BY SweepKeepsLevels DEF Swept
<1>5. ASSUME NEW j \in Keys, j # k
      PROVE  LevelAt(j, buckets'[j], clock') = LevelAt(j, buckets[j], clock)
  <2>1. buckets'[j] = Swept[j]
    BY <1>3, <1>4, <1>5
  <2> QED  BY <1>2, <2>1, SweepKeepsLevels
<1>6. buckets'[k] = [tokens |-> left, last |-> clock]
  BY <1>3, <1>4
<1>7. buckets'[k] # NoBucket
  <2>1. [tokens |-> left, last |-> clock] \in [tokens : Nat, last : Nat]
    BY <1>1, <1>2
  <2> QED  BY <1>6, <2>1, RateLimitAssumption
<1>8. LevelAt(k, buckets'[k], clock') = left
  <2>1. buckets'[k].tokens = left /\ buckets'[k].last = clock
    BY <1>6
  <2>2. left <= Capacity[k] /\ Capacity[k] \in Nat /\ Refill[k] \in Nat
    BY <1>1, RateLimitAssumption
  <2>3. LevelAt(k, buckets'[k], clock') = Lower(Capacity[k], left + (clock - clock) * Refill[k])
    BY <1>2, <1>7, <2>1 DEF LevelAt
  <2>4. (clock - clock) * Refill[k] = 0
    BY <1>2, <2>2
  <2> HIDE DEF left, tokens
  <2> QED  BY <1>1, <2>2, <2>3, <2>4 DEF Lower
<1>9. Charged(k) = left
  BY <1>1 DEF Charged
<1> HIDE DEF left, tokens
<1> QED  BY <1>1, <1>5, <1>6, <1>7, <1>8, <1>9

(* A take charges its own key or nothing; its sweep is not to be seen. *)
LEMMA TakeSpends ==
  ASSUME RateLimitTypeOK, NEW k \in Keys, TakeTokens(k)
  PROVE  Eager!Spend(k) \/ Level' = Level
<1> DEFINE now(j) == LevelAt(j, buckets[j], clock)
<1>1. /\ LevelAt(k, buckets'[k], clock') = Charged(k)
      /\ \A j \in Keys : j # k => LevelAt(j, buckets'[j], clock') = now(j)
  BY TakeLevels
<1>2. Charged(k) = IF now(k) >= Cost THEN now(k) - Cost ELSE now(k)
  BY DEF Charged
<1>3. Level = [j \in Keys |-> now(j)] /\ Level' = [j \in Keys |-> LevelAt(j, buckets'[j], clock')]
  BY DEF Level
<1> HIDE DEF now
<1>4. CASE now(k) >= Cost
  <2>1. Level' = [Level EXCEPT ![k] = @ - Cost]
    BY <1>1, <1>2, <1>3, <1>4
  <2>2. Level[k] >= Cost
    BY <1>3, <1>4
  <2> QED  BY <2>1, <2>2 DEF Level, Eager!Spend, Eager!Affordable
<1>5. CASE ~(now(k) >= Cost)
  BY <1>1, <1>2, <1>3, <1>5
<1> QED  BY <1>4, <1>5

(* The store of one process keeps the contract of RateLimitStore: whatever  *)
(* the order of takes, denials and sweeps, it grants exactly what a budget  *)
(* that is refilled at every tick would (MemoryRateLimitStore.take).       *)
THEOREM StoreImplementsBudget == RateLimitSpec => ImplementsBudget
<1>1. RateLimitTypeOK /\ [RateLimitNext]_rateLimitVars => [Eager!BudgetNext]_Level
  <2> SUFFICES ASSUME RateLimitTypeOK, [RateLimitNext]_rateLimitVars
               PROVE  Eager!BudgetNext \/ Level' = Level
    OBVIOUS
  <2>1. CASE AdvanceClock
    BY <2>1, TickReplenishes DEF Eager!BudgetNext
  <2>2. ASSUME NEW k \in Keys, TakeTokens(k)
        PROVE  Eager!BudgetNext \/ Level' = Level
    BY <2>2, TakeSpends DEF Eager!BudgetNext
  <2>3. CASE UNCHANGED rateLimitVars
    BY <2>3 DEF rateLimitVars, Level, LevelAt
  <2> QED  BY <2>1, <2>2, <2>3 DEF RateLimitNext
<1> QED
  BY <1>1, StartsFull, RateLimitTypeCorrect, PTL
  DEF RateLimitSpec, ImplementsBudget, Eager!BudgetSpec, Level

LEMMA OneMoreUnit ==
  ASSUME NEW n \in Int, NEW c \in Int
  PROVE  (n + 1) * c = n * c + c /\ n * c \in Int
OBVIOUS

(* Division, as SMT knows it. *)
LEMMA RoundedUp ==
  ASSUME NEW short \in Nat \ {0}, NEW r \in Nat \ {0}
  PROVE  LET w == (short + r - 1) \div r IN
           /\ w \in Nat /\ w >= 1
           /\ w * r >= short
           /\ (w - 1) * r < short
<1> DEFINE a == short + r - 1
           w == a \div r
<1>1. a \in Nat /\ r \in Nat /\ r > 0
  OBVIOUS
<1>2. w \in Nat /\ r * w <= a /\ a < r * w + r
  BY <1>1
<1>3. a = short + r - 1
  OBVIOUS
<1> HIDE DEF w, a
<1>4. r * w = w * r /\ (w - 1) * r = w * r - r /\ w * r \in Nat
  BY <1>1, <1>2
<1>5. w * r >= short /\ (w - 1) * r < short
  BY <1>1, <1>2, <1>3, <1>4
<1>6. w # 0
  BY <1>1, <1>2, <1>3, <1>4
<1> QED  BY <1>2, <1>5, <1>6 DEF w, a

(* The level of a bucket some ticks after its last use. *)
LEMMA LevelLater ==
  ASSUME NEW k \in Keys, NEW b \in Bucket, b # NoBucket, NEW n \in Int
  PROVE  LevelAt(k, b, b.last + n) = Lower(Capacity[k], b.tokens + n * Refill[k])
<1> DEFINE t == b.last + n
<1>1. t - b.last = n
  BY DEF Bucket
<1> HIDE DEF t
<1>2. LevelAt(k, b, t) = Lower(Capacity[k], b.tokens + (t - b.last) * Refill[k])
  BY DEF LevelAt
<1>3. LevelAt(k, b, t) = Lower(Capacity[k], b.tokens + n * Refill[k])
  BY <1>1, <1>2
<1> QED  BY <1>3 DEF t

LEMMA HintHonest == RateLimitIInv => HonestHint
<1> SUFFICES ASSUME RateLimitIInv, NEW d \in denied
             PROVE  LET b == buckets[d.key] IN
                      /\ d.wait >= 1
                      /\ LevelAt(d.key, b, b.last + d.wait) >= Cost
                      /\ LevelAt(d.key, b, b.last + d.wait - 1) < Cost
  BY DEF HonestHint
<1> DEFINE k == d.key
           b == buckets[k]
           short == Cost - b.tokens
<1>1. k \in Keys /\ b # NoBucket /\ b \in Bucket /\ b.tokens < Cost /\ d.wait = RetryAfter(k, b.tokens)
  BY DEF RateLimitIInv, DeniedBucket, RateLimitTypeOK
<1>2. /\ Capacity[k] \in Nat /\ Refill[k] \in Nat \ {0} /\ Cost \in Nat \ {0} /\ Cost <= Capacity[k]
      /\ b.tokens \in Nat /\ b.last \in Nat
  BY <1>1, RateLimitAssumption DEF Bucket
<1>3. short \in Nat \ {0}
  BY <1>1, <1>2
<1> HIDE DEF k, b
<1>4. /\ d.wait \in Nat /\ d.wait >= 1
      /\ d.wait * Refill[k] >= short
      /\ (d.wait - 1) * Refill[k] < short
  BY <1>1, <1>2, <1>3, RoundedUp DEF RetryAfter
<1>6. /\ d.wait * Refill[k] \in Int /\ (d.wait - 1) * Refill[k] \in Int
  BY <1>2, <1>4, OneMoreUnit
<1>7. LevelAt(k, b, b.last + d.wait) = Lower(Capacity[k], b.tokens + d.wait * Refill[k])
  BY <1>1, <1>4, LevelLater
<1>8. LevelAt(k, b, b.last + d.wait - 1) = Lower(Capacity[k], b.tokens + (d.wait - 1) * Refill[k])
  <2>1. LevelAt(k, b, b.last + (d.wait - 1)) = Lower(Capacity[k], b.tokens + (d.wait - 1) * Refill[k])
    BY <1>1, <1>4, LevelLater
  <2>2. b.last + d.wait - 1 = b.last + (d.wait - 1)
    BY <1>2, <1>4
  <2> QED  BY <2>1, <2>2
<1>9. LevelAt(k, b, b.last + d.wait) >= Cost
  BY <1>2, <1>4, <1>6, <1>7 DEF Lower
<1>10. LevelAt(k, b, b.last + d.wait - 1) < Cost
  BY <1>2, <1>4, <1>6, <1>8 DEF Lower
<1> QED  BY <1>4, <1>9, <1>10 DEF k, b

LEMMA RateLimitInitially == RateLimitInit => RateLimitIInv
<1> SUFFICES ASSUME RateLimitInit
             PROVE  RateLimitIInv
  OBVIOUS
<1>1. RateLimitTypeOK
  BY RateLimitAssumption DEF RateLimitInit, RateLimitTypeOK
<1>2. MaxClock \in Nat /\ clock = 0 /\ Cost \in Nat
  BY RateLimitAssumption DEF RateLimitInit
<1>3. granted \in [Keys -> [0..(MaxClock + 1) -> Nat]]
      /\ \A k \in Keys : \A t \in 0..(MaxClock + 1) : granted[k][t] = 0
  BY <1>2 DEF RateLimitInit
<1>4. GrantsCounted
  BY <1>2, <1>3 DEF GrantsCounted
<1>5. ASSUME NEW k \in Keys
      PROVE  /\ GrantedIn(k, 0, 0) = 0 /\ Capacity[k] \in Nat /\ Refill[k] \in Nat
             /\ LevelAt(k, buckets[k], clock) = Capacity[k]
  BY <1>2, <1>3, RateLimitAssumption DEF RateLimitInit, GrantedIn, LevelAt
<1>6. PaidFor /\ WithinBudget
  BY <1>2, <1>5 DEF PaidFor, WithinBudget
<1>7. DeniedBucket
  BY DEF RateLimitInit, DeniedBucket
<1> QED  BY <1>1, <1>4, <1>6, <1>7 DEF RateLimitIInv

(* What is paid for, with something left, is within. *)
LEMMA LeftOver ==
  ASSUME NEW n \in Int, NEW c \in Nat, NEW left \in Nat, NEW most, n * c + left <= most, most \in Int
  PROVE  n * c <= most
<1>1. n * c \in Int
  OBVIOUS
<1> QED  BY <1>1

(* A tick refills no more than what the window grows by. *)
LEMMA TickKeepsPaid ==
  ASSUME RateLimitIInv, AdvanceClock
  PROVE  RateLimitIInv'
<1> USE DEF RateLimitIInv
<1>1. clock' = clock + 1 /\ clock < MaxClock /\ UNCHANGED <<buckets, lastPrune, granted, denied>>
  BY DEF AdvanceClock
<1>2. clock \in Nat /\ MaxClock \in Nat /\ Cost \in Nat
  BY RateLimitAssumption DEF RateLimitTypeOK
<1>3. RateLimitTypeOK'
  BY <1>1, RateLimitAssumption DEF RateLimitTypeOK, Bucket
<1>4. \A k \in Keys : granted[k][clock + 2] = granted[k][clock + 1]
  BY <1>1, <1>2 DEF GrantsCounted
<1>5. GrantsCounted'
  <2> SUFFICES ASSUME NEW k \in Keys, NEW t \in (clock + 2)..(MaxClock + 1)
               PROVE  granted[k][t] = granted[k][clock + 2]
    BY <1>1, <1>2 DEF GrantsCounted
  <2> QED  BY <1>2, <1>4 DEF GrantsCounted
<1>6. ASSUME NEW k \in Keys, NEW from \in 0..(clock + 1)
      PROVE  /\ LevelAt(k, buckets[k], clock + 1) \in Nat
             /\ GrantedIn(k, from, clock + 1) * Cost + LevelAt(k, buckets[k], clock + 1)
                  <= Capacity[k] + (clock + 1 - from) * Refill[k]
  <2>1. Capacity[k] \in Nat /\ Refill[k] \in Nat
    BY RateLimitAssumption
  <2>2. LevelAt(k, buckets[k], clock) \in Nat
    BY LevelBounds
  <2>3. LevelAt(k, buckets'[k], clock') = Eager!Least(Capacity[k], LevelAt(k, buckets[k], clock) + Refill[k])
    BY TickReplenishes DEF Eager!Replenish
  <2>4. LevelAt(k, buckets[k], clock + 1) \in Nat
        /\ LevelAt(k, buckets[k], clock + 1) <= Capacity[k]
        /\ LevelAt(k, buckets[k], clock + 1) <= LevelAt(k, buckets[k], clock) + Refill[k]
    BY <1>1, <2>1, <2>2, <2>3 DEF Eager!Least
  <2>5. CASE from = clock + 1
    <3>1. GrantedIn(k, from, clock + 1) = 0
      <4>1. granted[k][clock + 2] = granted[k][clock + 1] /\ granted[k][clock + 1] \in Nat
        BY <1>1, <1>2, <1>4 DEF GrantsCounted
      <4>2. clock + 1 + 1 = clock + 2
        BY <1>2
      <4> QED  BY <2>5, <4>1, <4>2 DEF GrantedIn
    <3>2. 0 * Cost = 0 /\ (clock + 1 - from) * Refill[k] = 0
      BY <1>2, <2>1, <2>5
    <3> QED  BY <2>1, <2>4, <3>1, <3>2
  <2>6. CASE from \in 0..clock
    <3>1. GrantedIn(k, from, clock + 1) = GrantedIn(k, from, clock)
      <4>1. clock + 1 + 1 = clock + 2
        BY <1>2
      <4> QED  BY <1>4, <4>1 DEF GrantedIn
    <3>2. GrantedIn(k, from, clock) * Cost + LevelAt(k, buckets[k], clock)
            <= Capacity[k] + (clock - from) * Refill[k]
      BY <2>6 DEF PaidFor
    <3>3. /\ clock + 1 - from = (clock - from) + 1
          /\ ((clock - from) + 1) * Refill[k] = (clock - from) * Refill[k] + Refill[k]
          /\ (clock - from) * Refill[k] \in Int
      BY <1>2, <2>1, <2>6, OneMoreUnit
    <3>4. GrantedIn(k, from, clock) \in Int
      BY <1>1, <1>2, <2>6 DEF GrantsCounted, GrantedIn
    <3>5. GrantedIn(k, from, clock) * Cost \in Int
      BY <3>4, <1>2, OneMoreUnit
    <3> QED  BY <2>1, <2>2, <2>4, <3>1, <3>2, <3>3, <3>5
  <2> QED  BY <1>2, <2>4, <2>5, <2>6
<1>7. PaidFor'
  <2> SUFFICES ASSUME NEW k \in Keys, NEW from \in 0..clock'
               PROVE  (granted'[k][clock' + 1] - granted'[k][from]) * Cost + LevelAt(k, buckets'[k], clock')
                        <= Capacity[k] + (clock' - from) * Refill[k]
    BY Zenon DEF PaidFor, GrantedIn
  <2>1. from \in 0..(clock + 1)
    BY <1>1
  <2>2. (granted[k][clock + 1 + 1] - granted[k][from]) * Cost + LevelAt(k, buckets[k], clock + 1)
          <= Capacity[k] + (clock + 1 - from) * Refill[k]
    BY <1>6, <2>1, Zenon DEF GrantedIn
  <2>3. clock' = clock + 1 /\ granted' = granted /\ buckets' = buckets
    BY <1>1
  <2>4. LevelAt(k, buckets'[k], clock') = LevelAt(k, buckets[k], clock + 1)
    BY <2>3
  <2>5. (granted'[k][clock' + 1] - granted'[k][from]) = (granted[k][clock + 1 + 1] - granted[k][from])
    BY <2>3
  <2>6. clock' - from = clock + 1 - from
    BY <2>3, <2>1, <1>2
  <2>7. (clock' - from) * Refill[k] = (clock + 1 - from) * Refill[k]
    BY <2>6, Zenon
  <2> QED  BY <2>2, <2>4, <2>5, <2>7
<1>8. WithinBudget'
  <2> SUFFICES ASSUME NEW k \in Keys, NEW from \in 0..(clock + 1), NEW to \in from..(clock + 1)
               PROVE  GrantedIn(k, from, to) * Cost <= Capacity[k] + (to - from) * Refill[k]
    BY <1>1, Zenon DEF WithinBudget, GrantedIn
  <2>1. CASE to = clock + 1
    <3>1. /\ LevelAt(k, buckets[k], clock + 1) \in Nat
          /\ GrantedIn(k, from, clock + 1) * Cost + LevelAt(k, buckets[k], clock + 1)
               <= Capacity[k] + (clock + 1 - from) * Refill[k]
      BY <1>6
    <3>2. GrantedIn(k, from, clock + 1) \in Int
      <4>1. from \in 0..(MaxClock + 1) /\ clock + 1 + 1 \in 0..(MaxClock + 1)
        BY <1>1, <1>2
      <4>2. granted[k][from] \in Nat /\ granted[k][clock + 1 + 1] \in Nat
        BY <4>1 DEF GrantsCounted
      <4> QED  BY <4>2 DEF GrantedIn
    <3>3. Capacity[k] + (clock + 1 - from) * Refill[k] \in Int
      <4>1. Capacity[k] \in Int /\ Refill[k] \in Int /\ clock + 1 - from \in Int
        BY <1>2, RateLimitAssumption
      <4> QED  BY <4>1
    <3> QED  BY <1>2, <2>1, <3>1, <3>2, <3>3, LeftOver
  <2>2. CASE to \in from..clock
    <3>1. from \in 0..clock
      BY <1>2, <2>2
    <3> QED  BY <2>2, <3>1 DEF WithinBudget
  <2> QED  BY <1>2, <2>1, <2>2
<1>9. DeniedBucket'
  BY <1>1 DEF DeniedBucket
<1> QED  BY <1>3, <1>5, <1>7, <1>8, <1>9

(* One more granted request, for the key it was granted to. *)
LEMMA GrantCounts ==
  ASSUME RateLimitTypeOK, GrantsCounted, NEW k \in Keys
  PROVE  /\ OneMoreGranted(k) \in [Keys -> [0..(MaxClock + 1) -> Nat]]
         /\ \A t \in 0..(MaxClock + 1) :
              OneMoreGranted(k)[k][t] = IF t > clock THEN granted[k][t] + 1 ELSE granted[k][t]
         /\ \A j \in Keys : j # k => OneMoreGranted(k)[j] = granted[j]
<1> DEFINE more == [t \in 0..(MaxClock + 1) |-> IF t > clock THEN granted[k][t] + 1 ELSE granted[k][t]]
<1>1. more \in [0..(MaxClock + 1) -> Nat]
  <2>1. \A t \in 0..(MaxClock + 1) : granted[k][t] \in Nat
    BY DEF GrantsCounted
  <2> QED  BY <2>1
<1>2. \A t \in 0..(MaxClock + 1) :
        more[t] = IF t > clock THEN granted[k][t] + 1 ELSE granted[k][t]
  OBVIOUS
<1>3. OneMoreGranted(k) = [granted EXCEPT ![k] = more]
  BY DEF OneMoreGranted
<1> HIDE DEF more
<1> QED  BY <1>1, <1>2, <1>3 DEF GrantsCounted

LEMMA TakeKeepsPaid ==
  ASSUME RateLimitIInv, NEW k \in Keys, TakeTokens(k)
  PROVE  RateLimitIInv'
<1> USE DEF RateLimitIInv
<1> DEFINE now(j) == LevelAt(j, buckets[j], clock)
           ok == now(k) >= Cost
<1>1. /\ clock' = clock /\ clock \in Nat /\ MaxClock \in Nat /\ clock <= MaxClock /\ Cost \in Nat \ {0}
  BY RateLimitAssumption DEF RateLimitTypeOK, TakeTokens
<1>2. LevelAt(k, Swept[k], clock) = now(k)
  BY SweepKeepsLevels
<1>3. /\ granted' = IF ok THEN OneMoreGranted(k) ELSE granted
      /\ denied' = IF ok THEN {} ELSE {[key |-> k, wait |-> RetryAfter(k, now(k))]}
  BY <1>2 DEF TakeTokens
<1>4. /\ Charged(k) \in Nat /\ buckets'[k] # NoBucket /\ buckets'[k].tokens = Charged(k)
      /\ LevelAt(k, buckets'[k], clock') = Charged(k)
      /\ \A j \in Keys : j # k => LevelAt(j, buckets'[j], clock') = now(j)
  BY TakeLevels
<1>5. Charged(k) = IF ok THEN now(k) - Cost ELSE now(k)
  BY DEF Charged
<1>6. \A j \in Keys : now(j) \in Nat
  BY LevelBounds
<1> HIDE DEF now
<1>7. RateLimitTypeOK'
  BY TakeKeepsTypes
<1>8. GrantsCounted'
  <2>1. CASE ~ok
    BY <1>1, <1>3, <2>1 DEF GrantsCounted
  <2>2. CASE ok
    <3> SUFFICES ASSUME NEW j \in Keys, NEW t \in (clock + 1)..(MaxClock + 1)
                 PROVE  granted'[j][t] = granted'[j][clock + 1]
      BY <1>1, <1>3, <2>2, GrantCounts DEF GrantsCounted
    <3>1. /\ t \in 0..(MaxClock + 1) /\ clock + 1 \in 0..(MaxClock + 1) /\ t > clock
          /\ granted[j][t] = granted[j][clock + 1]
      BY <1>1 DEF GrantsCounted
    <3>2. CASE j = k
      BY <1>1, <1>3, <2>2, <3>1, <3>2, GrantCounts
    <3>3. CASE j # k
      BY <1>3, <2>2, <3>1, <3>3, GrantCounts
    <3> QED  BY <3>2, <3>3
  <2> QED  BY <2>1, <2>2
<1>9. ASSUME NEW j \in Keys, NEW from \in 0..clock
      PROVE  (granted'[j][clock + 1] - granted'[j][from]) * Cost + LevelAt(j, buckets'[j], clock')
               <= Capacity[j] + (clock - from) * Refill[j]
  <2> DEFINE n == GrantedIn(j, from, clock)
             most == Capacity[j] + (clock - from) * Refill[j]
  <2>1. n * Cost + now(j) <= most
    BY DEF PaidFor, now
  <2>2. /\ clock + 1 \in 0..(MaxClock + 1) /\ from \in 0..(MaxClock + 1)
        /\ granted[j][clock + 1] \in Nat /\ granted[j][from] \in Nat
    BY <1>1 DEF GrantsCounted
  <2>3. n = granted[j][clock + 1] - granted[j][from] /\ n \in Int
    BY <2>2 DEF GrantedIn
  <2> HIDE DEF n, most
  <2>4. CASE j # k \/ ~ok
    <3>1. granted'[j] = granted[j] /\ LevelAt(j, buckets'[j], clock') = now(j)
      BY <1>3, <1>4, <1>5, <2>4, GrantCounts
    <3> QED  BY <2>1, <2>3, <3>1 DEF most
  <2>5. CASE j = k /\ ok
    <3>1. granted'[j][clock + 1] = granted[j][clock + 1] + 1 /\ granted'[j][from] = granted[j][from]
      BY <1>1, <1>3, <2>2, <2>5, GrantCounts
    <3>2. granted'[j][clock + 1] - granted'[j][from] = n + 1
      BY <2>2, <2>3, <3>1
    <3>3. LevelAt(j, buckets'[j], clock') = now(j) - Cost
      BY <1>4, <1>5, <2>5
    <3>4. (n + 1) * Cost = n * Cost + Cost /\ n * Cost \in Int
      BY <1>1, <2>3, OneMoreUnit
    <3>5. (n + 1) * Cost + (now(j) - Cost) = n * Cost + now(j)
      BY <1>1, <1>6, <3>4
    <3> QED  BY <2>1, <3>2, <3>3, <3>5 DEF most
  <2> QED  BY <2>4, <2>5
<1>10. PaidFor'
  <2> SUFFICES ASSUME NEW j \in Keys, NEW from \in 0..clock'
               PROVE  (granted'[j][clock' + 1] - granted'[j][from]) * Cost + LevelAt(j, buckets'[j], clock')
                        <= Capacity[j] + (clock' - from) * Refill[j]
    BY Zenon DEF PaidFor, GrantedIn
  <2> QED  BY <1>1, <1>9, Zenon
<1>11. WithinBudget'
  <2> SUFFICES ASSUME NEW j \in Keys, NEW from \in 0..clock, NEW to \in from..clock
               PROVE  (granted'[j][to + 1] - granted'[j][from]) * Cost <= Capacity[j] + (to - from) * Refill[j]
    BY <1>1, Zenon DEF WithinBudget, GrantedIn
  <2>1. CASE to = clock
    <3>1. LevelAt(j, buckets'[j], clock') \in Nat
      BY <1>4, <1>6
    <3>2. /\ granted'[j][clock + 1] - granted'[j][from] \in Int
          /\ Capacity[j] + (clock - from) * Refill[j] \in Int
      <4>1. granted'[j][clock + 1] \in Int /\ granted'[j][from] \in Int
        BY <1>1, <1>8 DEF GrantsCounted
      <4>2. Capacity[j] \in Int /\ Refill[j] \in Int /\ clock - from \in Int
        BY <1>1, RateLimitAssumption
      <4> QED  BY <4>1, <4>2
    <3> QED  BY <1>1, <1>9, <2>1, <3>1, <3>2, LeftOver
  <2>2. CASE to # clock
    <3>1. /\ from \in 0..clock /\ from \in 0..(MaxClock + 1) /\ to + 1 \in 0..(MaxClock + 1)
          /\ ~(from > clock) /\ ~(to + 1 > clock)
      BY <1>1, <2>2
    <3>2. granted'[j][to + 1] = granted[j][to + 1] /\ granted'[j][from] = granted[j][from]
      BY <1>3, <3>1, GrantCounts
    <3>3. GrantedIn(j, from, to) * Cost <= Capacity[j] + (to - from) * Refill[j]
      BY <3>1 DEF WithinBudget
    <3> QED  BY <3>2, <3>3 DEF GrantedIn
  <2> QED  BY <2>1, <2>2
<1>12. DeniedBucket'
  <2>1. CASE ok
    BY <1>3, <2>1 DEF DeniedBucket
  <2>2. CASE ~ok
    <3>1. denied' = {[key |-> k, wait |-> RetryAfter(k, now(k))]} /\ Charged(k) = now(k)
      BY <1>3, <1>5, <2>2
    <3>2. now(k) < Cost
      BY <1>1, <1>6, <2>2
    <3> QED  BY <1>4, <3>1, <3>2 DEF DeniedBucket
  <2> QED  BY <2>1, <2>2
<1> QED  BY <1>7, <1>8, <1>10, <1>11, <1>12

(* No order of takes, denials and sweeps lets a key spend more in a window  *)
(* than its burst and the refill of the window, and the hint of a denial is *)
(* exact (MemoryRateLimitStore.take, RateLimitedError.retryAfterMs).        *)
THEOREM RateLimitKept == RateLimitSpec => []RateLimitInv
<1>1. RateLimitIInv /\ [RateLimitNext]_rateLimitVars => RateLimitIInv'
  <2> SUFFICES ASSUME RateLimitIInv, [RateLimitNext]_rateLimitVars
               PROVE  RateLimitIInv'
    OBVIOUS
  <2>1. CASE AdvanceClock
    BY <2>1, TickKeepsPaid
  <2>2. ASSUME NEW k \in Keys, TakeTokens(k)
        PROVE  RateLimitIInv'
    BY <2>2, TakeKeepsPaid
  <2>3. CASE UNCHANGED rateLimitVars
    BY <2>3
    DEF rateLimitVars, RateLimitIInv, RateLimitTypeOK, GrantsCounted, PaidFor, WithinBudget,
        DeniedBucket, GrantedIn
  <2> QED  BY <2>1, <2>2, <2>3 DEF RateLimitNext
<1>2. RateLimitIInv => RateLimitInv
  BY HintHonest DEF RateLimitIInv, RateLimitInv
<1> QED  BY <1>1, <1>2, RateLimitInitially, PTL DEF RateLimitSpec

(***************************************************************************)
(* Prompt delivery                                                         *)
(***************************************************************************)

RequestRow ==
  [table : Tables, inChannel : BOOLEAN, status : {"none", "pending", "closed"},
   token : Turns \union {NoTurn}, lease : 0..Lease, delivered : BOOLEAN,
   cooldown : 0..Debounce, audience : Approvers \union {"nobody"}]

Plans == [approver : Approvers, new : BOOLEAN, renew : BOOLEAN]

(* What only Holder, LeaseOutlasts, BudgetReserves and UpForGood look at.  *)
SameLease ==
  /\ request'.token = request.token /\ request'.lease = request.lease
  /\ request'.delivered = request.delivered /\ request'.audience = request.audience

SamePlace ==
  request'.table = request.table /\ request'.inChannel = request.inChannel

Early == {"idle", "prepare", "claim"}

(* One turn moves on. *)
LEMMA Moved ==
  ASSUME DeliveryTypeOK, NEW t \in Turns, NEW place \in Places, NEW b \in Nat, Move(t, place, b)
  PROVE  /\ at' \in [Turns -> Places] /\ bound' \in [Turns -> Nat]
         /\ at'[t] = place /\ bound'[t] = b
         /\ \A u \in Turns : u # t => at'[u] = at[u] /\ bound'[u] = bound[u]
BY DEF Move, DeliveryTypeOK

LEMMA Ended ==
  ASSUME DeliveryTypeOK, NEW t \in Turns, End(t)
  PROVE  /\ at' \in [Turns -> Places] /\ bound' \in [Turns -> Nat]
         /\ plan' \in [Turns -> Plans] /\ budget' \in [Turns -> 0..PostDeadline]
         /\ at'[t] = "done" /\ ~plan'[t].renew
         /\ \A u \in Turns : u # t =>
              at'[u] = at[u] /\ bound'[u] = bound[u] /\ plan'[u] = plan[u] /\ budget'[u] = budget[u]
<1>1. Move(t, "done", 0) /\ plan' = [plan EXCEPT ![t] = NoPlan] /\ budget' = [budget EXCEPT ![t] = 0]
  BY DEF End
<1>2. NoPlan \in Plans /\ ~NoPlan.renew /\ "done" \in Places /\ 0 \in 0..PostDeadline
  BY DeliveryAssumption DEF NoPlan, Plans, Approvers, Places
<1>3. plan \in [Turns -> Plans] /\ budget \in [Turns -> 0..PostDeadline]
  BY DEF DeliveryTypeOK, Plans
<1> QED  BY <1>1, <1>2, <1>3, Moved

LEMMA Discarded ==
  ASSUME DeliveryTypeOK, Discard
  PROVE  /\ request' \in RequestRow /\ SameLease /\ SamePlace
         /\ request'.status # "pending"
         /\ request.status # "none" => request'.status # "none"
<1> DEFINE s == IF request.status = "pending" THEN "closed" ELSE request.status
<1>1. request' = [request EXCEPT !.status = s]
  BY DEF Discard
<1>2. s \in {"none", "pending", "closed"} /\ s # "pending" /\ (request.status # "none" => s # "none")
  BY DEF DeliveryTypeOK
<1> HIDE DEF s
<1> QED  BY <1>1, <1>2 DEF DeliveryTypeOK, RequestRow, SameLease, SamePlace

(* A step at the edges of the protocol: some turn has not come to its claim *)
(* and goes on or ends, and the request may end.                            *)
LEMMA EarlyKeeps ==
  ASSUME DeliveryIInv, DeliveryTypeOK', SameLease, SamePlace,
         request.status # "none",
         request'.status \in {request.status, "closed"},
         \A u \in Turns :
           \/ at'[u] = at[u] /\ plan'[u] = plan[u] /\ bound'[u] = bound[u] /\ budget'[u] = budget[u]
           \/ /\ at[u] \in Early /\ at'[u] \in {"prepare", "claim", "done"}
              /\ plan'[u].renew => request.table = "consent",
         UNCHANGED <<shown, fault, switched>>
  PROVE  DeliveryIInv'
<1> USE DEF DeliveryIInv
<1>0. /\ Live' => Live
      /\ request'.status # "none"
  BY DEF Live, DeliveryTypeOK
<1>1. ASSUME NEW u \in Turns, at'[u] \in Leased \/ at[u] \in Leased \/ at[u] = "done"
      PROVE  at'[u] = at[u] /\ plan'[u] = plan[u] /\ bound'[u] = bound[u] /\ budget'[u] = budget[u]
  BY <1>1 DEF Leased, Early
<1>2. BeforeRequest'
  BY <1>0 DEF BeforeRequest, SamePlace
<1>3. Holder'
  BY <1>0, <1>1 DEF Holder, SameLease
<1>4. LeaseOutlasts'
  BY <1>1 DEF LeaseOutlasts, SameLease, Posting, Leased
<1>5. BudgetReserves'
  BY <1>1 DEF BudgetReserves, SameLease, SamePlace, Approval, Leased
<1>6. Sure' = Sure /\ \A a : Durable(a)' <=> Durable(a)
  BY DEF Sure, Durable, SamePlace
<1>7. ASSUME Approval, ~switched, NEW s \in Sure, Durable(s.audience)
      PROVE  /\ at'[s.turn] \in {"confirm", "done"}
             /\ at'[s.turn] = "confirm" => s.audience = plan'[s.turn].approver
             /\ at'[s.turn] = "done" =>
                  ~Live' \/ (request'.delivered /\ request'.audience = s.audience)
             /\ \A u \in Turns \ {s.turn} : at'[u] \notin {"claimed", "posting"}
  <2>1. s.turn \in Turns
    BY DEF Sure, DeliveryTypeOK
  <2>2. /\ at[s.turn] \in {"confirm", "done"}
        /\ at[s.turn] = "confirm" => s.audience = plan[s.turn].approver
        /\ at[s.turn] = "done" => ~Live \/ (request.delivered /\ request.audience = s.audience)
        /\ \A u \in Turns \ {s.turn} : at[u] \notin {"claimed", "posting"}
    BY <1>7 DEF UpForGood
  <2>3. at'[s.turn] = at[s.turn] /\ plan'[s.turn] = plan[s.turn]
    BY <1>1, <2>1, <2>2 DEF Leased
  <2>4. \A u \in Turns : at'[u] \in {"claimed", "posting"} => at[u] = at'[u]
    BY <1>1 DEF Leased
  <2> QED  BY <1>0, <2>2, <2>3, <2>4 DEF SameLease
<1>8. UpForGood'
  BY <1>6, <1>7 DEF UpForGood, Approval, SamePlace
<1>9. PostedOnce'
  BY <1>6 DEF PostedOnce, SamePlace
<1> QED  BY <1>2, <1>3, <1>4, <1>5, <1>8, <1>9

LEMMA DeliveryInitially == DeliveryInit => DeliveryIInv
<1> SUFFICES ASSUME DeliveryInit
             PROVE  DeliveryIInv
  OBVIOUS
<1>1. /\ request = [table |-> "approval", inChannel |-> FALSE, status |-> "none",
                    token |-> NoTurn, lease |-> 0, delivered |-> FALSE, cooldown |-> 0,
                    audience |-> "nobody"]
      /\ at = [t \in Turns |-> "idle"] /\ plan = [t \in Turns |-> NoPlan]
      /\ budget = [t \in Turns |-> 0] /\ bound = [t \in Turns |-> 0]
      /\ shown = {} /\ fault = {} /\ switched = FALSE
  BY DEF DeliveryInit
<1>2. 0 \in 0..Lease /\ 0 \in 0..Debounce /\ 0 \in 0..PostDeadline
  BY DeliveryAssumption
<1>3. NoPlan \in Plans /\ ~NoPlan.renew
  BY DEF NoPlan, Plans, Approvers
<1>4. DeliveryTypeOK
  <2>1. request \in RequestRow
    BY <1>1, <1>2 DEF RequestRow, Tables, Approvers
  <2>2. at \in [Turns -> Places] /\ plan \in [Turns -> Plans]
    BY <1>1, <1>3 DEF Places
  <2> QED  BY <1>1, <1>2, <2>1, <2>2 DEF DeliveryTypeOK, RequestRow, Plans
<1>5. request.status = "none" /\ request.token = NoTurn /\ NoTurn \notin Turns
  BY <1>1, DeliveryAssumption
<1>6. \A t \in Turns : at[t] = "idle" /\ plan[t] = NoPlan
  BY <1>1
<1>7. BeforeRequest
  BY <1>1, <1>3, <1>5, <1>6 DEF BeforeRequest
<1>8. Holder /\ LeaseOutlasts /\ BudgetReserves
  BY <1>5, <1>6 DEF Holder, LeaseOutlasts, BudgetReserves, Posting
<1>9. UpForGood /\ PostedOnce
  BY <1>1 DEF UpForGood, PostedOnce, Sure
<1> QED  BY <1>4, <1>7, <1>8, <1>9 DEF DeliveryIInv

LEMMA AskKeeps ==
  ASSUME DeliveryIInv, NEW t \in Turns, Ask(t)
  PROVE  DeliveryIInv'
<1> USE DEF DeliveryIInv
<1>1. at[t] = "idle" /\ Move(t, "prepare", 0) /\ UNCHANGED <<budget, shown, fault, switched>>
  BY DEF Ask
<1>2. /\ at' \in [Turns -> Places] /\ bound' \in [Turns -> Nat]
      /\ at'[t] = "prepare" /\ bound'[t] = 0
      /\ \A u \in Turns : u # t => at'[u] = at[u] /\ bound'[u] = bound[u]
  BY <1>1, Moved DEF Places
<1>3. plan \in [Turns -> Plans] /\ ~plan[t].renew
  BY <1>1 DEF DeliveryTypeOK, Plans, BeforeRequest
<1>4. ASSUME request.status = "none", NEW k \in Tables, NEW c \in BOOLEAN,
             request' = [request EXCEPT !.status = "pending", !.table = k, !.inChannel = c],
             plan' = [plan EXCEPT ![t].new = TRUE]
      PROVE  DeliveryIInv'
  <2> DEFINE q == [plan[t] EXCEPT !.new = TRUE]
  <2>1. q \in Plans /\ ~q.renew
    BY <1>3 DEF Plans
  <2>2. plan' = [plan EXCEPT ![t] = q]
    BY <1>3, <1>4
  <2> HIDE DEF q
  <2>3. plan' \in [Turns -> Plans] /\ ~plan'[t].renew /\ \A u \in Turns : u # t => plan'[u] = plan[u]
    BY <1>3, <2>1, <2>2
  <2>4. /\ request' \in RequestRow /\ request'.status = "pending" /\ SameLease
    BY <1>4 DEF DeliveryTypeOK, RequestRow, SameLease
  <2>5. DeliveryTypeOK'
    BY <1>1, <1>2, <2>3, <2>4 DEF DeliveryTypeOK, RequestRow, Plans
  <2>6. /\ request.token = NoTurn /\ shown = {} /\ NoTurn \notin Turns
        /\ \A u \in Turns : at[u] = "idle" /\ ~plan[u].renew
    BY <1>4, DeliveryAssumption DEF BeforeRequest
  <2>7. \A u \in Turns : at'[u] \in {"idle", "prepare"} /\ ~plan'[u].renew
    BY <1>2, <2>3, <2>6
  <2>8. BeforeRequest'
    BY <2>4, <2>7 DEF BeforeRequest
  <2>9. Holder' /\ LeaseOutlasts' /\ BudgetReserves'
    BY <2>4, <2>6, <2>7 DEF Holder, LeaseOutlasts, BudgetReserves, Posting, SameLease
  <2>10. UpForGood' /\ PostedOnce'
    BY <1>1, <2>6 DEF UpForGood, PostedOnce, Sure
  <2> QED  BY <2>5, <2>8, <2>9, <2>10
<1>5. ASSUME Live, NEW renewed \in BOOLEAN, renewed => request.table = "consent",
             plan' = [plan EXCEPT ![t].renew = renewed], request' = request
      PROVE  DeliveryIInv'
  <2> DEFINE q == [plan[t] EXCEPT !.renew = renewed]
  <2>1. q \in Plans /\ (q.renew <=> renewed)
    BY <1>3 DEF Plans
  <2>2. plan' = [plan EXCEPT ![t] = q]
    BY <1>3, <1>5
  <2> HIDE DEF q
  <2>3. /\ plan' \in [Turns -> Plans] /\ (plan'[t].renew => request.table = "consent")
        /\ \A u \in Turns : u # t => plan'[u] = plan[u]
    BY <1>3, <1>5, <2>1, <2>2
  <2>4. DeliveryTypeOK'
    BY <1>1, <1>2, <1>5, <2>3 DEF DeliveryTypeOK, Plans
  <2>5. request.status # "none" /\ SameLease /\ SamePlace
    BY <1>5 DEF Live, SameLease, SamePlace
  <2> QED  BY <1>1, <1>2, <1>5, <2>3, <2>4, <2>5, EarlyKeeps DEF Early
<1> QED  BY <1>4, <1>5 DEF Ask

LEMMA RecoverKeeps ==
  ASSUME DeliveryIInv, NEW t \in Turns, Recover(t)
  PROVE  DeliveryIInv'
<1> USE DEF DeliveryIInv
<1>1. at[t] = "idle" /\ ~plan[t].renew /\ UNCHANGED <<shown, fault, switched>>
  BY DEF Recover, BeforeRequest
<1>2. CASE request.status = "closed" /\ End(t) /\ UNCHANGED request
  <2>1. SameLease /\ SamePlace /\ DeliveryTypeOK'
    BY <1>1, <1>2, Ended DEF SameLease, SamePlace, DeliveryTypeOK, Plans
  <2> QED  BY <1>1, <1>2, <2>1, Ended, EarlyKeeps DEF Early
<1>3. CASE Live /\ Move(t, "prepare", 0) /\ UNCHANGED <<request, plan, budget>>
  <2>0. "prepare" \in Places
    BY DEF Places
  <2>1. SameLease /\ SamePlace /\ DeliveryTypeOK'
    BY <1>1, <1>3, <2>0, Moved DEF SameLease, SamePlace, DeliveryTypeOK
  <2> QED  BY <1>1, <1>3, <2>0, <2>1, Moved, EarlyKeeps DEF Early, Live
<1>4. CASE Live /\ End(t) /\ Discard
  <2>1. SameLease /\ SamePlace /\ DeliveryTypeOK'
    BY <1>1, <1>4, Ended, Discarded DEF DeliveryTypeOK, Plans, RequestRow
  <2>2. request'.status = "closed" /\ request.status # "none"
    BY <1>4, Discarded DEF Live, RequestRow
  <2> QED  BY <1>1, <1>4, <2>1, <2>2, Ended, EarlyKeeps DEF Early
<1> QED  BY <1>2, <1>3, <1>4 DEF Recover

LEMMA PrepareKeeps ==
  ASSUME DeliveryIInv, NEW t \in Turns, Prepare(t)
  PROVE  DeliveryIInv'
<1> USE DEF DeliveryIInv
<1>1. at[t] = "prepare" /\ request.status # "none" /\ UNCHANGED <<shown, fault, switched>>
  BY DEF Prepare, BeforeRequest
<1>2. ASSUME NEW a \in Approvers, plan' = [plan EXCEPT ![t].approver = a],
             budget' = [budget EXCEPT ![t] = PostDeadline], Move(t, "claim", 0), request' = request
      PROVE  DeliveryIInv'
  <2> DEFINE q == [plan[t] EXCEPT !.approver = a]
  <2>0. plan \in [Turns -> Plans] /\ budget \in [Turns -> 0..PostDeadline]
        /\ PostDeadline \in 0..PostDeadline /\ "claim" \in Places
    BY DeliveryAssumption DEF DeliveryTypeOK, Plans, Places
  <2>1. q \in Plans /\ (q.renew <=> plan[t].renew)
    BY <2>0 DEF Plans
  <2>2. plan' = [plan EXCEPT ![t] = q]
    BY <1>2, <2>0
  <2> HIDE DEF q
  <2>3. /\ plan' \in [Turns -> Plans] /\ (plan'[t].renew => request.table = "consent")
        /\ \A u \in Turns : u # t => plan'[u] = plan[u]
    BY <2>0, <2>1, <2>2 DEF BeforeRequest
  <2>4. /\ budget' \in [Turns -> 0..PostDeadline]
        /\ \A u \in Turns : u # t => budget'[u] = budget[u]
    BY <1>2, <2>0
  <2>5. /\ at' \in [Turns -> Places] /\ bound' \in [Turns -> Nat]
        /\ at'[t] = "claim"
        /\ \A u \in Turns : u # t => at'[u] = at[u] /\ bound'[u] = bound[u]
    BY <1>2, <2>0, Moved
  <2>6. DeliveryTypeOK'
    BY <1>1, <1>2, <2>3, <2>4, <2>5 DEF DeliveryTypeOK, Plans
  <2>7. SameLease /\ SamePlace
    BY <1>2 DEF SameLease, SamePlace
  <2> QED  BY <1>1, <1>2, <2>3, <2>4, <2>5, <2>6, <2>7, EarlyKeeps DEF Early
<1>3. CASE End(t) /\ Discard
  <2>1. SameLease /\ SamePlace /\ DeliveryTypeOK'
    BY <1>1, <1>3, Ended, Discarded DEF DeliveryTypeOK, Plans, RequestRow
  <2>2. request'.status = "closed"
    BY <1>1, <1>3, Discarded DEF RequestRow
  <2> QED  BY <1>1, <1>3, <2>1, <2>2, Ended, EarlyKeeps DEF Early
<1> QED  BY <1>2, <1>3 DEF Prepare
(* A lease is taken only when nobody holds one any more, and no prompt that *)
(* stays is up.                                                             *)
LEMMA ClaimKeeps ==
  ASSUME DeliveryIInv, NEW t \in Turns, Claim(t)
  PROVE  DeliveryIInv'
<1> USE DEF DeliveryIInv
<1>1. at[t] = "claim" /\ request.status # "none" /\ UNCHANGED <<shown, fault>>
  BY DEF Claim, BeforeRequest
<1>2. CASE ~Claimable(t) /\ End(t) /\ UNCHANGED rowVars
  <2>1. SameLease /\ SamePlace /\ DeliveryTypeOK'
    BY <1>1, <1>2, Ended DEF SameLease, SamePlace, DeliveryTypeOK, Plans, rowVars
  <2> QED  BY <1>1, <1>2, <2>1, Ended, EarlyKeeps DEF Early, rowVars
<1>3. ASSUME Claimable(t),
             request' = [request EXCEPT !.token = t, !.lease = Lease, !.delivered = FALSE,
                                        !.cooldown = 0, !.audience = plan[t].approver],
             switched' = (switched \/ request.audience \notin {"nobody", plan[t].approver}),
             Move(t, "claimed", DbBound), UNCHANGED <<plan, budget>>
      PROVE  DeliveryIInv'
  <2>0. /\ Lease \in Nat /\ PostDeadline \in Nat /\ PostBound \in Nat /\ DbBound \in Nat
        /\ PostDeadline > 0 /\ PostDeadline + PostBound + DbBound <= Lease /\ NoTurn \notin Turns
        /\ Debounce \in Nat
    BY DeliveryAssumption
  <2>1. plan \in [Turns -> Plans] /\ plan[t].approver \in Approvers
    BY DEF DeliveryTypeOK, Plans
  <2>2. /\ request' \in RequestRow /\ SamePlace /\ request'.status = request.status
        /\ request'.token = t /\ request'.lease = Lease /\ ~request'.delivered
        /\ request'.audience = plan[t].approver
    <3>1. Lease \in 0..Lease /\ 0 \in 0..Debounce
      BY <2>0
    <3> QED  BY <1>3, <2>1, <3>1 DEF DeliveryTypeOK, RequestRow, SamePlace
  <2>3. /\ at' \in [Turns -> Places] /\ bound' \in [Turns -> Nat]
        /\ at'[t] = "claimed" /\ bound'[t] = DbBound
        /\ \A u \in Turns : u # t => at'[u] = at[u] /\ bound'[u] = bound[u]
    BY <1>3, <2>0, Moved DEF Places
  <2>4. DeliveryTypeOK'
    <3>1. switched' \in BOOLEAN
      BY <1>3 DEF DeliveryTypeOK
    <3> QED  BY <1>1, <1>3, <2>2, <2>3, <3>1 DEF DeliveryTypeOK, RequestRow, Plans
  <2>5. BeforeRequest'
    BY <1>1, <1>3, <2>2, <2>3 DEF BeforeRequest, SamePlace
  <2>6. Holder'
    BY <1>3, <2>2, <2>3 DEF Holder, Leased
  <2>7. \A u \in Turns : at[u] # "claimed" /\ ~Posting(u)
    <3> SUFFICES ASSUME NEW u \in Turns, at[u] = "claimed" \/ Posting(u)
                 PROVE  FALSE
      OBVIOUS
    <3>1. bound[u] \in Nat /\ request.lease \in Nat
      BY <2>0 DEF DeliveryTypeOK
    <3>2. request.token = u /\ request.lease >= bound[u] + PostDeadline
      BY <2>0, <3>1 DEF LeaseOutlasts
    <3> QED  BY <1>3, <2>0, <3>1, <3>2 DEF Claimable, Unleased
  <2>8. LeaseOutlasts'
    BY <1>3, <2>0, <2>2, <2>3, <2>7 DEF LeaseOutlasts, Posting
  <2>9. BudgetReserves'
    <3> SUFFICES ASSUME Approval
                 PROVE  BudgetReserves'
      BY <2>2 DEF BudgetReserves, Approval, SamePlace
    <3>1. \A u \in Turns : at[u] # "posting" /\ at[u] # "confirm"
      <4>1. \A u \in Turns : ~plan[u].renew
        BY DEF BeforeRequest, Approval
      <4>2. ASSUME NEW u \in Turns, at[u] = "confirm"
            PROVE  FALSE
        <5>1. bound[u] \in Nat /\ request.lease \in Nat
          BY <2>0 DEF DeliveryTypeOK
        <5>2. request.token = u /\ request.lease >= bound[u] + 1
          BY <4>2 DEF BudgetReserves
        <5> QED  BY <1>3, <2>0, <5>1, <5>2 DEF Claimable, Unleased
      <4> QED  BY <2>7, <4>1, <4>2 DEF Posting
    <3>2. budget[t] \in Nat /\ budget[t] <= PostDeadline
      BY <2>0 DEF DeliveryTypeOK
    <3> QED  BY <1>3, <2>0, <2>2, <2>3, <2>7, <3>1, <3>2 DEF BudgetReserves
  <2>10. ASSUME Approval, ~switched', NEW s \in Sure, Durable(s.audience)
         PROVE  FALSE
    <3>1. s.turn \in Turns /\ ~switched /\ s.audience \in Approvers
      BY <1>3, <2>10 DEF Sure, DeliveryTypeOK
    <3>2. /\ at[s.turn] \in {"confirm", "done"}
          /\ at[s.turn] = "done" => ~Live \/ (request.delivered /\ request.audience = s.audience)
      BY <2>10, <3>1 DEF UpForGood
    <3>3. at[s.turn] # "confirm"
      <4> SUFFICES ASSUME at[s.turn] = "confirm"
                   PROVE  FALSE
        OBVIOUS
      <4>1. bound[s.turn] \in Nat /\ request.lease \in Nat
        BY <2>0, <3>1 DEF DeliveryTypeOK
      <4>2. request.token = s.turn /\ request.lease >= bound[s.turn] + 1
        BY <2>10, <3>1 DEF BudgetReserves
      <4> QED  BY <1>3, <2>0, <3>1, <4>1, <4>2 DEF Claimable, Unleased
    <3>4. request.delivered /\ request.audience = s.audience
      BY <1>3, <3>2, <3>3 DEF Claimable
    <3>5. request.audience = plan[t].approver
      BY <1>3, <2>10, <3>1, <3>4 DEF Approvers
    <3> QED  BY <1>3, <2>10, <3>4, <3>5 DEF Claimable, Wanted
  <2>11. Sure' = Sure /\ \A a : Durable(a)' <=> Durable(a)
    BY <1>1, <2>2 DEF Sure, Durable, SamePlace
  <2>12. UpForGood'
    BY <2>2, <2>10, <2>11 DEF UpForGood, Approval, SamePlace
  <2>13. PostedOnce'
    BY <2>2, <2>10, <2>11 DEF PostedOnce, Approval, SamePlace
  <2> QED  BY <2>4, <2>5, <2>6, <2>8, <2>9, <2>12, <2>13
<1> QED  BY <1>2, <1>3 DEF Claim

LEMMA StartPostKeeps ==
  ASSUME DeliveryIInv, NEW t \in Turns, StartPost(t)
  PROVE  DeliveryIInv'
<1> USE DEF DeliveryIInv
<1>0. /\ Lease \in Nat /\ PostDeadline \in Nat /\ PostBound \in Nat /\ DbBound \in Nat
      /\ PostDeadline > 0 /\ PostDeadline + PostBound + DbBound <= Lease
  BY DeliveryAssumption
<1>1. /\ at[t] = "claimed" /\ budget' = [budget EXCEPT ![t] = 0]
      /\ request' = request /\ switched' = switched /\ plan' = plan /\ shown' = shown /\ fault' = fault
  BY DEF StartPost, rowVars
<1>2. /\ at' \in [Turns -> Places] /\ bound' \in [Turns -> Nat]
      /\ at'[t] = IF InBudget(t) THEN "posting" ELSE "abandon"
      /\ InBudget(t) => bound'[t] = PostBound
      /\ \A u \in Turns : u # t => at'[u] = at[u] /\ bound'[u] = bound[u]
  BY <1>0, Moved DEF StartPost, Places
<1>3. /\ budget' \in [Turns -> 0..PostDeadline]
      /\ \A u \in Turns : u # t => budget'[u] = budget[u]
  BY <1>0, <1>1 DEF DeliveryTypeOK
<1>4. DeliveryTypeOK'
  BY <1>1, <1>2, <1>3 DEF DeliveryTypeOK
<1>5. BeforeRequest'
  BY <1>1, <1>2 DEF BeforeRequest
<1>6. Holder'
  BY <1>1, <1>2 DEF Holder, Leased, Live
<1>7. bound[t] \in Nat /\ request.lease \in Nat /\ budget[t] \in Nat
  BY <1>0 DEF DeliveryTypeOK
<1>8. request.token = t /\ request.lease >= PostBound + PostDeadline
  BY <1>0, <1>1, <1>7 DEF LeaseOutlasts
<1>9. LeaseOutlasts'
  BY <1>1, <1>2, <1>8 DEF LeaseOutlasts, Posting
<1>10. BudgetReserves'
  <2> SUFFICES ASSUME Approval
               PROVE  BudgetReserves'
    BY <1>1 DEF BudgetReserves, Approval
  <2>1. InBudget(t) => request.lease >= PostBound + DbBound + 1
    <3> SUFFICES ASSUME InBudget(t)
                 PROVE  request.lease >= PostBound + DbBound + 1
      OBVIOUS
    <3>1. budget[t] > 0
      BY DEF InBudget, Approval
    <3>2. request.lease >= Lease - PostDeadline + budget[t]
      BY <1>1, <3>1 DEF BudgetReserves
    <3> QED  BY <1>0, <1>7, <3>1, <3>2
  <2> QED  BY <1>1, <1>2, <1>3, <2>1 DEF BudgetReserves, Approval
<1>11. Sure' = Sure /\ (\A a : Durable(a)' <=> Durable(a)) /\ (Approval' <=> Approval) /\ (Live' <=> Live)
  BY <1>1 DEF Sure, Durable, Approval, Live
<1>12. UpForGood'
  <2> SUFFICES ASSUME Approval, ~switched, NEW s \in Sure, Durable(s.audience)
               PROVE  /\ at'[s.turn] \in {"confirm", "done"}
                      /\ at'[s.turn] = "confirm" => s.audience = plan[s.turn].approver
                      /\ at'[s.turn] = "done" => ~Live \/ (request.delivered /\ request.audience = s.audience)
                      /\ \A u \in Turns \ {s.turn} : at'[u] \notin {"claimed", "posting"}
    BY <1>1, <1>11 DEF UpForGood
  <2>1. s.turn \in Turns
    BY DEF Sure, DeliveryTypeOK
  <2> QED  BY <1>1, <1>2, <2>1 DEF UpForGood
<1>13. PostedOnce'
  BY <1>1, <1>11 DEF PostedOnce
<1> QED  BY <1>4, <1>5, <1>6, <1>9, <1>10, <1>12, <1>13

LEMMA PostAnsweredKeeps ==
  ASSUME DeliveryIInv, NEW t \in Turns, PostAnswered(t)
  PROVE  DeliveryIInv'
<1> USE DEF DeliveryIInv
<1>0. /\ Lease \in Nat /\ PostDeadline \in Nat /\ PostBound \in Nat /\ DbBound \in Nat
      /\ PostDeadline > 0 /\ PostDeadline + PostBound + DbBound <= Lease
  BY DeliveryAssumption
<1>1. at[t] = "posting" /\ request' = request /\ switched' = switched
  BY DEF PostAnswered, rowVars
<1>2. PICK answer \in Answers, up \in BOOLEAN :
        /\ (answer # "ambiguous") => (up <=> answer = "accepted")
        /\ shown' = IF up THEN shown \union {[turn |-> t, audience |-> plan[t].approver]}
                    ELSE shown
        /\ fault' = IF answer = "ambiguous" THEN fault \union {t} ELSE fault
        /\ \/ /\ answer = "accepted"
              /\ Move(t, "confirm", DbBound) /\ UNCHANGED <<plan, budget>>
           \/ /\ answer \in KnownUndelivered
              /\ Move(t, "abandon", DbBound) /\ UNCHANGED <<plan, budget>>
           \/ answer \notin KnownUndelivered \union {"accepted"} /\ End(t)
  BY DEF PostAnswered
<1> DEFINE prompt == [turn |-> t, audience |-> plan[t].approver]
<1>3. prompt \in [turn : Turns, audience : Approvers] /\ prompt.turn = t /\ prompt.audience = plan[t].approver
  BY DEF DeliveryTypeOK
<1> HIDE DEF prompt
<1>4. /\ shown' \subseteq shown \union {prompt} /\ fault \subseteq fault' /\ fault' \subseteq fault \union {t}
      /\ answer = "ambiguous" => t \in fault'
      /\ answer # "accepted" /\ answer # "ambiguous" => shown' = shown
  BY <1>2 DEF prompt
<1>5. /\ at' \in [Turns -> Places] /\ bound' \in [Turns -> Nat]
      /\ plan' \in [Turns -> Plans] /\ budget' \in [Turns -> 0..PostDeadline]
      /\ at'[t] \in {"confirm", "abandon", "done"}
      /\ at'[t] = "confirm" => answer = "accepted" /\ bound'[t] = DbBound
      /\ at'[t] \in {"confirm", "abandon"} => plan'[t] = plan[t]
      /\ at'[t] = "done" => answer = "ambiguous"
      /\ answer = "accepted" => at'[t] = "confirm"
      /\ plan'[t].renew => plan[t].renew
      /\ \A u \in Turns : u # t =>
           at'[u] = at[u] /\ bound'[u] = bound[u] /\ plan'[u] = plan[u] /\ budget'[u] = budget[u]
  <2>1. plan \in [Turns -> Plans] /\ budget \in [Turns -> 0..PostDeadline] /\ {"confirm", "abandon"} \subseteq Places
    BY DEF DeliveryTypeOK, Plans, Places
  <2>2. CASE answer = "accepted" /\ Move(t, "confirm", DbBound) /\ UNCHANGED <<plan, budget>>
    BY <1>0, <2>1, <2>2, Moved
  <2>3. CASE answer \in KnownUndelivered /\ Move(t, "abandon", DbBound) /\ UNCHANGED <<plan, budget>>
    BY <1>0, <2>1, <2>3, Moved DEF KnownUndelivered
  <2>4. CASE answer \notin KnownUndelivered \union {"accepted"} /\ End(t)
    BY <2>1, <2>4, Ended DEF KnownUndelivered, Answers
  <2> QED  BY <1>2, <2>2, <2>3, <2>4
<1>6. DeliveryTypeOK'
  BY <1>1, <1>3, <1>4, <1>5 DEF DeliveryTypeOK, Plans
<1>7. request.status # "none"
  BY <1>1 DEF BeforeRequest
<1>8. BeforeRequest'
  BY <1>1, <1>5, <1>7 DEF BeforeRequest
<1>9. Holder'
  BY <1>1, <1>4, <1>5 DEF Holder, Leased, Live
<1>10. LeaseOutlasts'
  BY <1>1, <1>5 DEF LeaseOutlasts, Posting
<1>11. ASSUME Approval
       PROVE  /\ request.token = t /\ request.lease >= bound[t] + DbBound + 1
              /\ bound[t] \in Nat /\ request.lease \in Nat
  <2>1. Posting(t)
    BY <1>1, <1>11 DEF Posting, BeforeRequest, Approval
  <2> QED  BY <1>0, <1>1, <1>11, <2>1 DEF LeaseOutlasts, BudgetReserves, DeliveryTypeOK
<1>12. BudgetReserves'
  <2> SUFFICES ASSUME Approval
               PROVE  BudgetReserves'
    BY <1>1 DEF BudgetReserves, Approval
  <2>1. request.lease >= DbBound + 1
    BY <1>0, <1>11
  <2> QED  BY <1>1, <1>5, <1>11, <2>1 DEF BudgetReserves
<1>13. (\A a : Durable(a)' <=> Durable(a)) /\ (Approval' <=> Approval) /\ (Live' <=> Live)
  BY <1>1 DEF Durable, Approval, Live
<1>14. ASSUME Approval, ~switched, NEW s \in Sure', Durable(s.audience)
       PROVE  s = prompt /\ at'[t] = "confirm"
  <2>1. s \in shown' /\ s.turn \notin fault'
    BY <1>14 DEF Sure
  <2>2. s \notin Sure
    <3> SUFFICES ASSUME s \in Sure
                 PROVE  FALSE
      OBVIOUS
    <3>1. s.turn \in Turns
      BY DEF Sure, DeliveryTypeOK
    <3> QED  BY <1>1, <1>14, <3>1 DEF UpForGood
  <2>3. s = prompt
    BY <1>4, <2>1, <2>2 DEF Sure
  <2>4. answer = "accepted"
    BY <1>3, <1>4, <2>1, <2>2, <2>3 DEF Sure
  <2> QED  BY <1>5, <2>3, <2>4
<1>15. UpForGood'
  <2> SUFFICES ASSUME Approval, ~switched, NEW s \in Sure', Durable(s.audience)
               PROVE  /\ at'[s.turn] \in {"confirm", "done"}
                      /\ at'[s.turn] = "confirm" => s.audience = plan'[s.turn].approver
                      /\ at'[s.turn] = "done" => ~Live \/ (request.delivered /\ request.audience = s.audience)
                      /\ \A u \in Turns \ {s.turn} : at'[u] \notin {"claimed", "posting"}
    BY <1>1, <1>13 DEF UpForGood
  <2>1. s.turn = t /\ s.audience = plan[t].approver /\ at'[t] = "confirm" /\ plan'[t] = plan[t]
    BY <1>3, <1>5, <1>14
  <2>2. ASSUME NEW u \in Turns \ {t}, at'[u] \in {"claimed", "posting"}
        PROVE  FALSE
    <3>1. at[u] = "claimed" \/ Posting(u)
      BY <1>5, <2>2 DEF Posting, BeforeRequest, Approval
    <3> QED  BY <1>11, <2>2, <3>1 DEF LeaseOutlasts
  <2> QED  BY <2>1, <2>2
<1>16. PostedOnce'
  BY <1>1, <1>13, <1>14 DEF PostedOnce, Approval
<1> QED  BY <1>6, <1>8, <1>9, <1>10, <1>12, <1>15, <1>16

(* A turn that ends where it held or had held the lease, whatever becomes   *)
(* of the row.                                                              *)
LEMMA EndingKeeps ==
  ASSUME DeliveryIInv, NEW t \in Turns, at[t] \in Leased, End(t), SamePlace,
         request' \in RequestRow, request'.audience = request.audience,
         request'.status \in {request.status, "closed"},
         SameLease \/ (request.token = t /\ request'.token = NoTurn),
         request'.token = t => t \in fault' \/ ~Live',
         request.delivered => request'.delivered,
         at[t] = "confirm" /\ request.token = t => t \in fault' \/ ~Live' \/ request'.delivered,
         fault' \in {fault, fault \union {t}},
         UNCHANGED <<shown, switched>>
  PROVE  DeliveryIInv'
<1> USE DEF DeliveryIInv
<1>0. NoTurn \notin Turns
  BY DeliveryAssumption
<1>1. /\ at' \in [Turns -> Places] /\ bound' \in [Turns -> Nat]
      /\ plan' \in [Turns -> Plans] /\ budget' \in [Turns -> 0..PostDeadline]
      /\ at'[t] = "done" /\ ~plan'[t].renew
      /\ \A u \in Turns : u # t =>
           at'[u] = at[u] /\ bound'[u] = bound[u] /\ plan'[u] = plan[u] /\ budget'[u] = budget[u]
  BY Ended
<1>2. DeliveryTypeOK'
  BY <1>1 DEF DeliveryTypeOK, RequestRow, Plans
<1>3. request.status # "none" /\ request'.status # "none"
  BY DEF BeforeRequest, Leased
<1>4. BeforeRequest'
  BY <1>1, <1>3 DEF BeforeRequest, SamePlace
<1>5. Live' => Live
  BY <1>3 DEF Live
<1>6. \A u \in Turns : u # t /\ request.token = u =>
        /\ request'.token = u /\ request'.lease = request.lease /\ request'.delivered = request.delivered
  BY <1>0 DEF SameLease
<1>7. \A u \in Turns : request'.token = u => request.token = u /\ request'.delivered = request.delivered
  BY <1>0 DEF SameLease
<1>8. Holder'
  BY <1>1, <1>5, <1>7 DEF Holder, Leased, Live
<1>9. LeaseOutlasts'
  BY <1>1, <1>6 DEF LeaseOutlasts, Posting
<1>10. BudgetReserves'
  BY <1>1, <1>6 DEF BudgetReserves, LeaseOutlasts, Posting, BeforeRequest, Approval, SamePlace
<1>11. Sure' \subseteq Sure /\ (\A a : Durable(a)' <=> Durable(a)) /\ (Approval' <=> Approval)
  BY DEF Sure, Durable, Approval, SamePlace
<1>12. UpForGood'
  <2> SUFFICES ASSUME Approval, ~switched, NEW s \in Sure', Durable(s.audience)
               PROVE  /\ at'[s.turn] \in {"confirm", "done"}
                      /\ at'[s.turn] = "confirm" => s.audience = plan'[s.turn].approver
                      /\ at'[s.turn] = "done" => ~Live' \/ (request'.delivered /\ request'.audience = s.audience)
                      /\ \A u \in Turns \ {s.turn} : at'[u] \notin {"claimed", "posting"}
    BY <1>11 DEF UpForGood
  <2>1. s \in Sure /\ s.turn \in Turns /\ s.turn \notin fault'
    BY <1>11 DEF Sure, DeliveryTypeOK
  <2>2. /\ at[s.turn] \in {"confirm", "done"}
        /\ at[s.turn] = "confirm" => s.audience = plan[s.turn].approver
        /\ at[s.turn] = "done" => ~Live \/ (request.delivered /\ request.audience = s.audience)
        /\ \A u \in Turns \ {s.turn} : at[u] \notin {"claimed", "posting"}
    BY <2>1 DEF UpForGood
  <2>3. \A u \in Turns \ {s.turn} : at'[u] \notin {"claimed", "posting"}
    BY <1>1, <2>2
  <2>4. CASE s.turn # t
    BY <1>1, <1>5, <2>1, <2>2, <2>3, <2>4
  <2>5. CASE s.turn = t
    <3>1. at[t] = "confirm" /\ s.audience = plan[t].approver
      BY <2>2, <2>5 DEF Leased
    <3>2. request.token = t /\ request.audience = plan[t].approver
      BY <3>1 DEF BudgetReserves, Holder, Leased
    <3> QED  BY <1>1, <2>1, <2>3, <2>5, <3>1, <3>2
  <2> QED  BY <2>4, <2>5
<1>13. PostedOnce'
  BY <1>11 DEF PostedOnce, Approval, SamePlace
<1> QED  BY <1>2, <1>4, <1>8, <1>9, <1>10, <1>12, <1>13
LEMMA ConfirmKeeps ==
  ASSUME DeliveryIInv, NEW t \in Turns, Confirm(t)
  PROVE  DeliveryIInv'
<1> USE DEF DeliveryIInv
<1>1. /\ at[t] = "confirm" /\ at[t] \in Leased /\ End(t) /\ UNCHANGED <<shown, switched>>
      /\ request' \in {request, Confirmed(t)} /\ fault' \in {fault, fault \union {t}}
      /\ t \in fault' \/ request' = Confirmed(t)
  BY DEF Confirm, Settle, Leased
<1>2. request \in RequestRow
  BY DEF DeliveryTypeOK, RequestRow
<1>3. CASE request' = request
  <2>1. SamePlace /\ SameLease /\ (Live' <=> Live)
    BY <1>3 DEF SamePlace, SameLease, Live
  <2>2. CASE t \in fault'
    BY <1>1, <1>2, <1>3, <2>1, <2>2, EndingKeeps
  <2>3. CASE t \notin fault'
    <3>1. ~StillMine(t)
      <4> SUFFICES ASSUME StillMine(t)
                   PROVE  FALSE
        OBVIOUS
      <4>1. Confirmed(t).delivered /\ ~request.delivered
        BY <1>2 DEF Confirmed, StillMine, RequestRow
      <4> QED  BY <1>1, <1>3, <2>3, <4>1
    <3>2. ~Live \/ request.token # t
      BY <1>1, <3>1 DEF StillMine, Holds, Holder
    <3> QED  BY <1>1, <1>2, <1>3, <2>1, <3>2, EndingKeeps
  <2> QED  BY <2>2, <2>3
<1>4. CASE request' = Confirmed(t) /\ StillMine(t)
  <2>1. request' = [request EXCEPT !.delivered = TRUE, !.cooldown = Debounce, !.token = NoTurn, !.lease = 0]
    BY <1>4 DEF Confirmed
  <2>2. Debounce \in 0..Debounce /\ 0 \in 0..Lease
    BY DeliveryAssumption
  <2>3. /\ request' \in RequestRow /\ SamePlace /\ request'.audience = request.audience
        /\ request'.status = request.status /\ request'.token = NoTurn /\ request'.delivered
    BY <1>2, <2>1, <2>2 DEF RequestRow, SamePlace
  <2>4. request.token = t /\ NoTurn # t
    BY <1>4, DeliveryAssumption DEF StillMine, Holds
  <2> QED  BY <1>1, <2>3, <2>4, EndingKeeps
<1>5. CASE request' = Confirmed(t) /\ ~StillMine(t)
  BY <1>3, <1>5 DEF Confirmed
<1> QED  BY <1>1, <1>3, <1>4, <1>5
LEMMA AbandonKeeps ==
  ASSUME DeliveryIInv, NEW t \in Turns, Abandon(t)
  PROVE  DeliveryIInv'
<1> USE DEF DeliveryIInv
<1>1. /\ at[t] = "abandon" /\ at[t] \in Leased /\ End(t) /\ UNCHANGED <<shown, switched>>
      /\ request' \in {request, Abandoned(t)} /\ fault' \in {fault, fault \union {t}}
      /\ t \in fault' \/ request' = Abandoned(t)
  BY DEF Abandon, Settle, Leased
<1>2. request \in RequestRow
  BY DEF DeliveryTypeOK, RequestRow
<1>3. CASE request' = request /\ (t \in fault' \/ ~StillMine(t))
  <2>1. SamePlace /\ SameLease /\ (Live' <=> Live)
    BY <1>3 DEF SamePlace, SameLease, Live
  <2>2. request.token = t => t \in fault' \/ ~Live
    BY <1>1, <1>3 DEF StillMine, Holds, Holder
  <2> QED  BY <1>1, <1>2, <1>3, <2>1, <2>2, EndingKeeps
<1>4. CASE StillMine(t) /\ request' = [request EXCEPT !.status = "closed"]
  <2>1. /\ request' \in RequestRow /\ SamePlace /\ SameLease /\ request'.audience = request.audience
        /\ request'.status = "closed"
    BY <1>2, <1>4 DEF RequestRow, SamePlace, SameLease
  <2> QED  BY <1>1, <2>1, EndingKeeps DEF SameLease, Live
<1>5. CASE StillMine(t) /\ request' = [request EXCEPT !.token = NoTurn, !.lease = 0]
  <2>1. 0 \in 0..Lease /\ NoTurn # t
    BY DeliveryAssumption
  <2>2. /\ request' \in RequestRow /\ SamePlace /\ request'.audience = request.audience
        /\ request'.status = request.status /\ request'.token = NoTurn
        /\ request'.delivered = request.delivered
    BY <1>2, <1>5, <2>1 DEF RequestRow, SamePlace
  <2>3. request.token = t
    BY <1>5 DEF StillMine, Holds
  <2> QED  BY <1>1, <2>1, <2>2, <2>3, EndingKeeps
<1> QED  BY <1>1, <1>3, <1>4, <1>5 DEF Abandoned

LEMMA DieKeeps ==
  ASSUME DeliveryIInv, NEW t \in Turns, Die(t)
  PROVE  DeliveryIInv'
<1>1. /\ at[t] \in Leased /\ End(t) /\ fault' = fault \union {t}
      /\ UNCHANGED <<request, shown, switched>>
  BY DEF Die, rowVars
<1>2. /\ SamePlace /\ SameLease /\ request' \in RequestRow
  BY <1>1 DEF SamePlace, SameLease, DeliveryIInv, DeliveryTypeOK, RequestRow
<1> QED  BY <1>1, <1>2, EndingKeeps

LEMMA CloseKeeps ==
  ASSUME DeliveryIInv, Close
  PROVE  DeliveryIInv'
<1> USE DEF DeliveryIInv
<1>1. Live /\ Discard /\ UNCHANGED <<at, plan, budget, bound, fault, shown, switched>>
  BY DEF Close, turnVars
<1>2. /\ request' \in RequestRow /\ SameLease /\ SamePlace
      /\ request.status # "none" /\ request'.status = "closed"
  BY <1>1, Discarded DEF Live, RequestRow
<1>3. DeliveryTypeOK'
  BY <1>1, <1>2 DEF DeliveryTypeOK, RequestRow
<1> QED  BY <1>1, <1>2, <1>3, EarlyKeeps

(* Time runs for the lease and for the steps under way alike. *)
LEMMA PassKeeps ==
  ASSUME DeliveryIInv, Pass
  PROVE  DeliveryIInv'
<1> USE DEF DeliveryIInv
<1>0. /\ Lease \in Nat /\ PostDeadline \in Nat /\ PostBound \in Nat /\ DbBound \in Nat
      /\ PostDeadline > 0 /\ PostDeadline + PostBound + DbBound <= Lease /\ Debounce \in Nat
  BY DeliveryAssumption
<1>1. /\ \A t \in Turns : at[t] \in Leased /\ ~Unbounded(t) => bound[t] > 0
      /\ budget' = [t \in Turns |-> Left(budget[t])]
      /\ bound' = [t \in Turns |-> Left(bound[t])]
      /\ UNCHANGED <<at, plan, shown, fault, switched>>
  BY DEF Pass
<1>2. \A t \in Turns : bound[t] \in Nat /\ budget[t] \in 0..PostDeadline
  BY DEF DeliveryTypeOK
<1>3. \A t \in Turns : bound'[t] = Left(bound[t]) /\ budget'[t] = Left(budget[t])
  BY <1>1
<1>4. request.lease \in Nat /\ request.cooldown \in Nat
  BY <1>0 DEF DeliveryTypeOK
<1> DEFINE l == Left(request.lease)
           c == Left(request.cooldown)
<1>5. l \in 0..Lease /\ c \in 0..Debounce
  BY <1>0 DEF Left, DeliveryTypeOK
<1>6. request' = [request EXCEPT !.lease = l, !.cooldown = c]
  BY DEF Pass
<1>7. /\ request' \in RequestRow /\ request'.lease = Left(request.lease)
      /\ request'.token = request.token /\ request'.delivered = request.delivered
      /\ request'.audience = request.audience /\ request'.status = request.status /\ SamePlace
  <2> HIDE DEF l, c
  <2>1. /\ request' \in RequestRow /\ request'.lease = l
        /\ request'.token = request.token /\ request'.delivered = request.delivered
        /\ request'.audience = request.audience /\ request'.status = request.status /\ SamePlace
    BY <1>5, <1>6 DEF DeliveryTypeOK, RequestRow, SamePlace
  <2> QED  BY <2>1 DEF l
<1>8. DeliveryTypeOK'
  <2>1. budget' \in [Turns -> 0..PostDeadline] /\ bound' \in [Turns -> Nat]
    BY <1>0, <1>1, <1>2 DEF Left
  <2> QED  BY <1>1, <1>7, <2>1 DEF DeliveryTypeOK, RequestRow
<1>9. BeforeRequest' /\ Holder'
  BY <1>1, <1>7 DEF BeforeRequest, Holder, SamePlace, Live
<1>10. LeaseOutlasts'
  <2> SUFFICES ASSUME NEW t \in Turns
               PROVE  /\ at[t] = "claimed" =>
                           request.token = t /\ Left(request.lease) >= Left(bound[t]) + PostBound + PostDeadline
                      /\ Posting(t) =>
                           request.token = t /\ Left(request.lease) >= Left(bound[t]) + PostDeadline
    BY <1>1, <1>3, <1>7 DEF LeaseOutlasts, Posting
  <2>1. bound[t] \in Nat
    BY <1>2
  <2>2. CASE at[t] = "claimed"
    <3>1. bound[t] > 0 /\ request.token = t /\ request.lease >= bound[t] + PostBound + PostDeadline
      BY <1>1, <2>2 DEF Leased, Unbounded, LeaseOutlasts
    <3> QED  BY <1>0, <1>4, <2>1, <2>2, <3>1 DEF Left, Posting
  <2>3. CASE Posting(t)
    <3>1. bound[t] > 0 /\ request.token = t /\ request.lease >= bound[t] + PostDeadline
      BY <1>1, <2>3 DEF Leased, Unbounded, LeaseOutlasts, Posting
    <3> QED  BY <1>0, <1>4, <2>1, <2>3, <3>1 DEF Left, Posting
  <2> QED  BY <2>2, <2>3
<1>11. BudgetReserves'
  <2> SUFFICES ASSUME Approval, NEW t \in Turns
               PROVE  /\ at[t] = "claimed" /\ Left(budget[t]) > 0 =>
                           Left(request.lease) >= Lease - PostDeadline + Left(budget[t])
                      /\ at[t] = "posting" => Left(request.lease) >= Left(bound[t]) + DbBound + 1
                      /\ at[t] = "confirm" =>
                           request.token = t /\ Left(request.lease) >= Left(bound[t]) + 1
    BY <1>1, <1>3, <1>7 DEF BudgetReserves, Approval, SamePlace
  <2>1. bound[t] \in Nat /\ budget[t] \in Nat /\ ~plan[t].renew
    BY <1>0, <1>2 DEF BeforeRequest, Approval
  <2>2. at[t] \in Leased => bound[t] > 0
    BY <1>1, <2>1 DEF Unbounded
  <2>3. CASE at[t] = "claimed"
    <3>1. budget[t] > 0 => request.lease >= Lease - PostDeadline + budget[t]
      BY <2>3 DEF BudgetReserves
    <3> QED  BY <1>0, <1>4, <2>1, <2>3, <3>1 DEF Left
  <2>4. CASE at[t] = "posting"
    <3>1. bound[t] > 0 /\ request.lease >= bound[t] + DbBound + 1
      BY <2>2, <2>4 DEF BudgetReserves, Leased
    <3> QED  BY <1>0, <1>4, <2>1, <2>4, <3>1 DEF Left
  <2>5. CASE at[t] = "confirm"
    <3>1. bound[t] > 0 /\ request.token = t /\ request.lease >= bound[t] + 1
      BY <2>2, <2>5 DEF BudgetReserves, Leased
    <3> QED  BY <1>0, <1>4, <2>1, <2>5, <3>1 DEF Left
  <2> QED  BY <2>3, <2>4, <2>5
<1>12. /\ Sure' = Sure /\ (\A a : Durable(a)' <=> Durable(a)) /\ (Approval' <=> Approval)
       /\ (Live' <=> Live)
  BY <1>1, <1>7 DEF Sure, Durable, Approval, SamePlace, Live
<1>13. UpForGood'
  BY <1>1, <1>7, <1>12 DEF UpForGood
<1>14. PostedOnce'
  BY <1>1, <1>12 DEF PostedOnce, Approval
<1> QED  BY <1>8, <1>9, <1>10, <1>11, <1>13, <1>14

LEMMA DeliveryInductive == DeliveryIInv /\ [DeliveryNext]_deliveryVars => DeliveryIInv'
<1> SUFFICES ASSUME DeliveryIInv, [DeliveryNext]_deliveryVars
             PROVE  DeliveryIInv'
  OBVIOUS
<1>1. ASSUME NEW t \in Turns, DeliveryStep(t)
      PROVE  DeliveryIInv'
  BY <1>1, AskKeeps, RecoverKeeps, PrepareKeeps, ClaimKeeps, StartPostKeeps, PostAnsweredKeeps,
     ConfirmKeeps, AbandonKeeps, DieKeeps
  DEF DeliveryStep
<1>2. CASE UNCHANGED deliveryVars
  BY <1>2
  DEF deliveryVars, rowVars, turnVars, DeliveryIInv, DeliveryTypeOK, BeforeRequest, Holder,
      LeaseOutlasts, BudgetReserves, UpForGood, PostedOnce, Posting, Live, Approval, Sure, Durable
<1> QED  BY <1>1, <1>2, CloseKeeps, PassKeeps DEF DeliveryNext

LEMMA DeliveryImplied == DeliveryIInv => DeliveryInv
<1> SUFFICES ASSUME DeliveryIInv
             PROVE  OnePoster /\ HeldForCause
  BY DEF DeliveryIInv, DeliveryInv
<1>1. OnePoster
  BY DEF DeliveryIInv, LeaseOutlasts, OnePoster
<1>2. HeldForCause
  BY DEF DeliveryIInv, DeliveryTypeOK, Holder, HeldForCause
<1> QED  BY <1>1, <1>2

(* The lease of a prompt, for any durations that fit into it and any number *)
(* of turns: one poster at a time, one lasting approval prompt, and nothing *)
(* held back without cause (claimDelivery, confirmDelivery and              *)
(* abandonDelivery of core/approval.ts, consent.ts and provisioning.ts).    *)
THEOREM PromptsDelivered == DeliverySpec => []DeliveryInv
BY DeliveryInitially, DeliveryInductive, DeliveryImplied, PTL DEF DeliverySpec

(***************************************************************************)
(* Credential health                                                       *)
(***************************************************************************)

LEMMA HealthInitially == HealthInit => HealthIInv
<1> SUFFICES ASSUME HealthInit
             PROVE  HealthIInv
  OBVIOUS
<1>1. \A e \in Events : notice[e].at = "idle" /\ notice[e].of = 0 /\ ~Heard(e) /\ ~Claimed(e)
  BY DEF HealthInit, Heard, Claimed
<1>2. HealthTypeOK
  <2>1. 0 \in 0..MaxStamp /\ 0 \in 0..MaxPurges
    BY HealthAssumption
  <2> QED BY <2>1 DEF HealthInit, HealthTypeOK, Notice
<1> QED  BY <1>1, <1>2, HealthAssumption
  DEF HealthInit, HealthIInv, ClaimsPast, HeardCovers, NoTwin, HeardApart, HeardInOrder, RowClaimed

(* A handler moves on without a message, and the row stays as it is.  A     *)
(* claim keeps its stamp, and its claimant does not just forget it.         *)
LEMMA QuietMove ==
  ASSUME HealthIInv, NEW e \in Events, NEW x \in Notice,
         notice' = [notice EXCEPT ![e] = x],
         x.of = notice[e].of, x.late = notice[e].late,
         IF Claimed(e) THEN x.stamp = notice[e].stamp /\ x.at \in {"releasing", "done", "lost"}
                       ELSE x.at \in {"claiming", "passed"},
         e \notin told,
         x.at = "done" => claimant # e \/ lastNotified = NoClaim,
         UNCHANGED <<lastNotified, claimant, told, lifetime>>
  PROVE  HealthIInv'
<1> USE DEF HealthIInv
<1>1. /\ notice'[e] = x
      /\ \A f \in Events \ {e} : notice'[f] = notice[f]
      /\ notice' \in [Events -> Notice]
  BY DEF HealthTypeOK
<1>2. HealthTypeOK'
  BY <1>1 DEF HealthTypeOK
<1>3. /\ \A f \in Events : notice'[f].of = notice[f].of /\ (Claimed(f)' <=> Claimed(f))
      /\ \A f \in Events : Claimed(f) => notice'[f].stamp = notice[f].stamp
  BY <1>1 DEF Claimed
<1>4. \A f \in Events : HeardInOrder(f)' => HeardInOrder(f) /\ Claimed(f)
  BY <1>1 DEF HeardInOrder, Heard, Claimed, ClaimsPast
<1>5. \A f \in Events : Claimed(f) /\ Overtaken(f) => Overtaken(f)'
  BY <1>3 DEF Overtaken
<1>6. ClaimsPast'
  BY <1>1, <1>3 DEF ClaimsPast
<1>7. HeardCovers'
  BY <1>3, <1>4, <1>5 DEF HeardCovers
<1>8. NoTwin'
  BY <1>3, <1>4, <1>5 DEF NoTwin
<1>9. HeardApart'
  BY <1>3, <1>4 DEF HeardApart
<1>10. RowClaimed'
  BY <1>1, <1>3 DEF RowClaimed, Heard
<1> QED BY <1>2, <1>6, <1>7, <1>8, <1>9, <1>10

(* A claim is made: no row stood, or one that was a window older. *)
LEMMA NoticeClaimKeeps ==
  ASSUME HealthIInv, NEW e \in Events, ClaimWindow(e)
  PROVE  HealthIInv'
<1> USE DEF HealthIInv
<1> DEFINE late == OutOfOrder(notice[e].stamp)
           s == notice[e].stamp
           x == [notice[e] EXCEPT !.at = "sending", !.of = lifetime, !.late = late]
<1>0. /\ late \in BOOLEAN /\ s \in Nat /\ s \in 0..MaxStamp /\ Window \in Nat /\ Window > 0
      /\ lifetime \in 0..MaxPurges /\ s # NoClaim
      /\ notice[e].at = "claiming" /\ ~Claimed(e) /\ e \notin told
      /\ UNCHANGED <<told, lifetime>> /\ lastNotified' = s /\ claimant' = e
  BY HealthAssumption DEF HealthTypeOK, Notice, OutOfOrder, ClaimWindow, Claimed, ClaimsPast
<1>1. x \in Notice /\ x.at = "sending" /\ x.of = lifetime /\ x.stamp = s
  BY <1>0 DEF HealthTypeOK, Notice
<1>2. x.late = late
  BY <1>0, Zenon DEF HealthTypeOK, Notice
<1>3. notice' = [notice EXCEPT ![e] = x]
  BY Zenon DEF ClaimWindow
<1> HIDE DEF x, late, s
<1>4. /\ notice'[e] = x
      /\ \A f \in Events \ {e} : notice'[f] = notice[f]
      /\ notice' \in [Events -> Notice]
  BY <1>1, <1>3 DEF HealthTypeOK
<1>5. \A f \in Events : notice[f].stamp \in Nat
  BY HealthAssumption DEF HealthTypeOK, Notice
<1>6. ~late => \A f \in Events : Claimed(f) =>
         notice[f].stamp # s /\ (notice[f].of = lifetime => notice[f].stamp < s)
  BY <1>0, <1>5 DEF late, s, OutOfOrder
<1>7. HealthTypeOK'
  BY <1>0, <1>4 DEF HealthTypeOK
<1>8. ClaimsPast'
  BY <1>0, <1>1, <1>4, HealthAssumption DEF ClaimsPast, HealthTypeOK
<1>9. /\ Claimed(e)' /\ Heard(e)'
      /\ \A f \in Events \ {e} : (Claimed(f)' <=> Claimed(f)) /\ (HeardInOrder(f)' <=> HeardInOrder(f))
      /\ HeardInOrder(e)' => ~late
  BY <1>0, <1>1, <1>2, <1>4 DEF Claimed, Heard, HeardInOrder
<1>10. \A f \in Events \ {e} : Overtaken(f) => Overtaken(f)'
  BY <1>0, <1>4, <1>9 DEF Overtaken
<1>11. \A f \in Events : HeardInOrder(f) => Claimed(f)
  BY DEF HeardInOrder, Heard, Claimed, ClaimsPast
<1>12. ASSUME NEW f \in Events \ {e}, HeardInOrder(f), notice[f].of = lifetime
       PROVE  Overtaken(f) \/ notice[f].stamp + Window <= s
  <2>1. lastNotified = notice[f].stamp \/ Overtaken(f)
    BY <1>12 DEF HeardCovers
  <2>2. lastNotified = NoClaim \/ lastNotified + Window <= s
    BY DEF ClaimWindow, WindowOpen, s
  <2>3. notice[f].stamp # NoClaim
    BY <1>5, HealthAssumption
  <2> QED BY <2>1, <2>2, <2>3
<1>13. ASSUME NEW f \in Events \ {e}, notice[f].of = lifetime, notice[f].stamp + Window <= s
       PROVE  Overtaken(f)'
  BY <1>0, <1>1, <1>4, <1>9, <1>13 DEF Overtaken
<1>14. HeardCovers'
  BY <1>0, <1>1, <1>4, <1>9, <1>10, <1>12, <1>13 DEF HeardCovers
<1>15. NoTwin'
  <2> SUFFICES ASSUME NEW f \in Events, NEW g \in Events, HeardInOrder(f)', notice'[f].of = lifetime,
                      f # g, Claimed(g)', notice'[g].stamp = notice'[f].stamp
               PROVE  Overtaken(f)'
    BY <1>0 DEF NoTwin
  <2>1. f # e
    BY <1>1, <1>4, <1>6, <1>9
  <2>2. CASE g = e
    BY <1>0, <1>1, <1>4, <1>5, <1>9, <1>10, <1>12, <2>1, <2>2
  <2>3. CASE g # e
    BY <1>4, <1>9, <1>10, <2>1, <2>3 DEF NoTwin
  <2> QED BY <2>2, <2>3
<1>16. ASSUME NEW f \in Events \ {e}, HeardInOrder(f), notice[f].of = lifetime, ~late
       PROVE  notice[f].stamp + Window <= s
  <2>1. CASE Overtaken(f)
    <3>1. PICK k \in Events : Claimed(k) /\ notice[k].of = lifetime /\ notice[k].stamp >= notice[f].stamp + Window
      BY <1>16, <2>1 DEF Overtaken
    <3> QED BY <1>0, <1>5, <1>6, <1>16, <3>1
  <2> QED BY <1>12, <1>16, <2>1
<1>17. HeardApart'
  <2> SUFFICES ASSUME NEW f \in Events, NEW g \in Events, HeardInOrder(f)', HeardInOrder(g)', f # g,
                      notice'[f].of = notice'[g].of
               PROVE  \/ notice'[f].stamp + Window <= notice'[g].stamp
                      \/ notice'[g].stamp + Window <= notice'[f].stamp
    BY DEF HeardApart
  <2>1. CASE f # e /\ g # e
    BY <1>4, <1>9, <2>1 DEF HeardApart
  <2>2. CASE f = e
    BY <1>1, <1>4, <1>9, <1>16, <2>2
  <2>3. CASE g = e
    BY <1>1, <1>4, <1>9, <1>16, <2>3
  <2> QED BY <2>1, <2>2, <2>3
<1>18. RowClaimed'
  BY <1>0, <1>1, <1>4, <1>9 DEF RowClaimed
<1> QED BY <1>7, <1>8, <1>14, <1>15, <1>17, <1>18

LEMMA SentKeeps ==
  ASSUME HealthIInv, NEW e \in Events, Sent(e)
  PROVE  HealthIInv'
<1> USE DEF HealthIInv
<1> DEFINE x == [notice[e] EXCEPT !.at = "done"]
<1>1. x \in Notice /\ x.at = "done" /\ x.of = notice[e].of /\ x.stamp = notice[e].stamp
  BY DEF HealthTypeOK, Notice
<1>2. x.late = notice[e].late
  BY Zenon DEF HealthTypeOK, Notice
<1>3. notice' = [notice EXCEPT ![e] = x]
  BY Zenon DEF Sent, Reach
<1> HIDE DEF x
<1>4. notice[e].at = "sending" /\ told' = told \cup {e} /\ UNCHANGED <<lastNotified, claimant, lifetime>>
  BY DEF Sent
<1>5. /\ notice'[e] = x
      /\ \A f \in Events \ {e} : notice'[f] = notice[f]
      /\ notice' \in [Events -> Notice]
  BY <1>1, <1>3 DEF HealthTypeOK
<1>6. HealthTypeOK' /\ ClaimsPast'
  BY <1>1, <1>4, <1>5 DEF HealthTypeOK, ClaimsPast
<1>7. \A f \in Events : /\ Claimed(f)' <=> Claimed(f)
                        /\ Heard(f)' <=> Heard(f)
                        /\ notice'[f].stamp = notice[f].stamp /\ notice'[f].of = notice[f].of
  BY <1>1, <1>4, <1>5 DEF Claimed, Heard
<1>8. \A f \in Events : HeardInOrder(f)' <=> HeardInOrder(f)
  BY <1>2, <1>5, <1>7 DEF HeardInOrder
<1>9. \A f \in Events : Overtaken(f) => Overtaken(f)'
  BY <1>7 DEF Overtaken
<1>10. HeardCovers' /\ NoTwin' /\ HeardApart'
  BY <1>4, <1>7, <1>8, <1>9 DEF HeardCovers, NoTwin, HeardApart
<1>11. RowClaimed'
  BY <1>4, <1>5, <1>7 DEF RowClaimed, Heard
<1> QED BY <1>6, <1>10, <1>11

(* Who gives its claim back finds its own row, or leaves the row alone. *)
LEMMA ReleaseKeeps ==
  ASSUME HealthIInv, NEW e \in Events, ReleaseWindow(e)
  PROVE  HealthIInv'
<1> USE DEF HealthIInv
<1> DEFINE x == [notice[e] EXCEPT !.at = "done"]
<1>1. x \in Notice /\ x.at = "done" /\ x.of = notice[e].of /\ x.stamp = notice[e].stamp
  BY DEF HealthTypeOK, Notice
<1>2. x.late = notice[e].late
  BY Zenon DEF HealthTypeOK, Notice
<1>3. notice' = [notice EXCEPT ![e] = x]
  BY Zenon DEF ReleaseWindow, Reach
<1>4. notice[e].at = "releasing" /\ e \notin told /\ UNCHANGED <<told, lifetime>>
  BY DEF ReleaseWindow, ClaimsPast
<1> HIDE DEF x
<1>5. CASE ~OwnClaimStands(e)
  <2>1. UNCHANGED <<lastNotified, claimant>>
    BY <1>5 DEF ReleaseWindow
  <2>2. claimant # e \/ lastNotified = NoClaim
    BY <1>5 DEF RowClaimed, OwnClaimStands
  <2>3. Claimed(e)
    BY <1>4 DEF Claimed
  <2> QED BY <1>1, <1>2, <1>3, <1>4, <2>1, <2>2, <2>3, QuietMove
<1>6. CASE OwnClaimStands(e)
  <2>1. lastNotified' = NoClaim /\ claimant' = NoClaim
    BY <1>6 DEF ReleaseWindow
  <2>2. /\ notice'[e] = x
        /\ \A f \in Events \ {e} : notice'[f] = notice[f]
        /\ notice' \in [Events -> Notice]
    BY <1>1, <1>3 DEF HealthTypeOK
  <2>3. HealthTypeOK' /\ ClaimsPast'
    BY <1>1, <1>4, <2>1, <2>2 DEF HealthTypeOK, ClaimsPast
  <2>4. \A f \in Events : /\ Claimed(f)' <=> Claimed(f)
                          /\ notice'[f].stamp = notice[f].stamp /\ notice'[f].of = notice[f].of
    BY <1>1, <1>4, <2>2 DEF Claimed
  <2>5. \A f \in Events : HeardInOrder(f)' => HeardInOrder(f) /\ f # e
    BY <1>1, <1>4, <2>2 DEF HeardInOrder, Heard
  <2>6. \A f \in Events : Overtaken(f) => Overtaken(f)'
    BY <2>4 DEF Overtaken
  <2>7. Claimed(e) /\ lastNotified = notice[e].stamp
    BY <1>4, <1>6 DEF Claimed, OwnClaimStands
  <2>8. HeardCovers'
    BY <1>4, <2>4, <2>5, <2>6, <2>7 DEF HeardCovers, NoTwin
  <2>9. NoTwin' /\ HeardApart'
    BY <1>4, <2>4, <2>5, <2>6 DEF NoTwin, HeardApart
  <2>10. RowClaimed'
    BY <2>1 DEF RowClaimed
  <2> QED BY <2>3, <2>8, <2>9, <2>10
<1> QED BY <1>5, <1>6

LEMMA PurgeNoticesKeeps ==
  ASSUME HealthIInv, PurgeNotices
  PROVE  HealthIInv'
<1> USE DEF HealthIInv
<1>1. /\ lifetime' = lifetime + 1 /\ lifetime < MaxPurges /\ lastNotified' = NoClaim
      /\ claimant' = NoClaim /\ UNCHANGED <<notice, told>>
  BY DEF PurgeNotices
<1>2. HealthTypeOK'
  BY <1>1, HealthAssumption DEF HealthTypeOK
<1>3. \A f \in Events : notice[f].of \in Nat /\ notice[f].of <= lifetime /\ lifetime \in Nat
  BY HealthAssumption DEF HealthTypeOK, Notice, ClaimsPast
<1>4. ClaimsPast' /\ \A f \in Events : notice'[f].of # lifetime'
  BY <1>1, <1>3 DEF ClaimsPast
<1>5. HeardCovers' /\ NoTwin'
  BY <1>4 DEF HeardCovers, NoTwin
<1>6. HeardApart'
  BY <1>1 DEF HeardApart, HeardInOrder, Heard
<1>7. RowClaimed'
  BY <1>1 DEF RowClaimed
<1> QED BY <1>2, <1>4, <1>5, <1>6, <1>7

(* The steps of a handler that claim nothing and give nothing back. *)
LEMMA HandlerMoves ==
  ASSUME HealthIInv, NEW e \in Events,
         Skip(e) \/ TakeStamp(e) \/ LoseWindow(e) \/ SendFails(e) \/ PodDies(e)
  PROVE  HealthIInv'
<1> USE DEF HealthIInv
<1>1. UNCHANGED <<lastNotified, claimant, told, lifetime>>
  BY DEF Skip, TakeStamp, LoseWindow, SendFails, PodDies
<1>2. e \notin told
  BY DEF ClaimsPast, Skip, TakeStamp, LoseWindow, SendFails, PodDies
<1>3. ASSUME NEW place \in {"passed", "releasing", "lost"}, Reach(e, place),
             IF Claimed(e) THEN place # "passed" ELSE place = "passed"
      PROVE  HealthIInv'
  <2> DEFINE x == [notice[e] EXCEPT !.at = place]
  <2>1. x \in Notice /\ x.at = place /\ x.of = notice[e].of /\ x.stamp = notice[e].stamp
    BY DEF HealthTypeOK, Notice
  <2>2. x.late = notice[e].late
    BY Zenon DEF HealthTypeOK, Notice
  <2>3. notice' = [notice EXCEPT ![e] = x]
    BY <1>3, Zenon DEF Reach
  <2> HIDE DEF x
  <2> QED BY <1>1, <1>2, <1>3, <2>1, <2>2, <2>3, QuietMove
<1>4. CASE TakeStamp(e)
  <2>1. PICK s \in 0..MaxStamp : notice' = [notice EXCEPT ![e].at = "claiming", ![e].stamp = s]
    BY <1>4 DEF TakeStamp
  <2> DEFINE x == [notice[e] EXCEPT !.at = "claiming", !.stamp = s]
  <2>2. x \in Notice /\ x.at = "claiming" /\ x.of = notice[e].of
    BY DEF HealthTypeOK, Notice
  <2>3. x.late = notice[e].late
    BY Zenon DEF HealthTypeOK, Notice
  <2>4. notice' = [notice EXCEPT ![e] = x]
    BY <2>1, Zenon
  <2>5. ~Claimed(e)
    BY <1>4 DEF TakeStamp, Claimed
  <2> HIDE DEF x
  <2> QED BY <1>1, <1>2, <2>2, <2>3, <2>4, <2>5, QuietMove
<1>5. CASE Skip(e) \/ LoseWindow(e)
  BY <1>3, <1>5 DEF Skip, LoseWindow, Claimed
<1>6. CASE SendFails(e)
  BY <1>3, <1>6 DEF SendFails, GiveBack, Claimed
<1>7. CASE PodDies(e)
  BY <1>3, <1>7 DEF PodDies, Claimed
<1> QED BY <1>4, <1>5, <1>6, <1>7

LEMMA HealthStep == HealthIInv /\ [HealthNext]_healthVars => HealthIInv'
<1> SUFFICES ASSUME HealthIInv, [HealthNext]_healthVars
             PROVE  HealthIInv'
  OBVIOUS
<1>1. CASE HealthNext
  BY <1>1, HandlerMoves, NoticeClaimKeeps, SentKeeps, ReleaseKeeps, PurgeNoticesKeeps DEF HealthNext
<1>2. CASE UNCHANGED healthVars
  BY <1>2
  DEF healthVars, HealthIInv, HealthTypeOK, ClaimsPast, HeardCovers, NoTwin, HeardApart,
      RowClaimed, HeardInOrder, Heard, Overtaken, Claimed
<1> QED BY <1>1, <1>2

LEMMA HealthImplied == HealthIInv => HealthInv
<1> SUFFICES ASSUME HealthIInv
             PROVE  ToldOnce /\ SilentForCause
  BY DEF HealthIInv, HealthInv
<1> USE DEF HealthIInv
<1>1. ToldOnce
  <2> SUFFICES ASSUME NEW e \in told, NEW f \in told, e # f, notice[e].of = notice[f].of,
                      ~notice[e].late, ~notice[f].late
               PROVE  \/ notice[e].stamp >= notice[f].stamp + Window
                      \/ notice[f].stamp >= notice[e].stamp + Window
    BY DEF ToldOnce
  <2>1. /\ e \in Events /\ f \in Events /\ HeardInOrder(e) /\ HeardInOrder(f)
        /\ notice[e].stamp \in Nat /\ notice[f].stamp \in Nat /\ Window \in Nat
    BY HealthAssumption DEF HealthTypeOK, Notice, HeardInOrder, Heard
  <2> QED BY <2>1 DEF HeardApart
<1>2. SilentForCause
  BY DEF SilentForCause, RowClaimed, Claimed, Heard
<1> QED BY <1>1, <1>2

(* Whatever pods notify, fail, reconnect and purge, with whatever clocks,   *)
(* two messages whose claims were in order are a window apart, and a claim  *)
(* that keeps a window silent belongs to a message that arrived, is on its  *)
(* way or was lost (NotificationState).                                     *)
THEOREM HealthMessagesHold == HealthSpec => []HealthInv
BY HealthInitially, HealthStep, HealthImplied, PTL DEF HealthSpec

(***************************************************************************)
(* Least and greatest                                                      *)
(***************************************************************************)

(* A set of numbers has a least one. *)
LEMMA LeastOf ==
  ASSUME NEW S, S \subseteq Nat, S # {}
  PROVE  \E n \in S : \A m \in S : n <= m
<1>1. PICK n \in S : \A m \in S : <<m, n>> \notin OpToRel(<, Nat)
  BY WFMin, NatLessThanWellFounded, Zenon
<1>2. \A m \in S : ~(m < n)
  BY <1>1, Zenon DEF OpToRel
<1>3. \A m \in S : n <= m
  BY <1>2
<1> QED  BY <1>3

(* A finite one has a greatest: among the subsets without one, take one of the
   fewest elements; without one of its elements it has a greatest. *)
LEMMA GreatestOf ==
  ASSUME NEW S, S \subseteq Nat, S # {}, IsFiniteSet(S)
  PROVE  \E n \in S : \A m \in S : m <= n
<1> DEFINE Topped(T) == \E n \in T : \A m \in T : m <= n
           Bad == {T \in SUBSET S : T # {} /\ ~Topped(T)}
           Sizes == {Cardinality(T) : T \in Bad}
<1> SUFFICES ASSUME Bad # {} PROVE FALSE
  OBVIOUS
<1>1. Sizes \subseteq Nat /\ Sizes # {}
  <2>1. \A T \in Bad : Cardinality(T) \in Nat
    BY FS_Subset, FS_CardinalityType
  <2> QED  BY <2>1
<1>2. PICK n \in Sizes : \A m \in Sizes : n <= m
  BY <1>1, LeastOf
<1>3. PICK T \in Bad : n = Cardinality(T)
  OBVIOUS
<1>4. PICK x \in T : TRUE
  OBVIOUS
<1>5. /\ T \ {x} \in SUBSET S
      /\ IsFiniteSet(T)
      /\ Cardinality(T \ {x}) = Cardinality(T) - 1
      /\ Cardinality(T) \in Nat
  BY FS_Subset, FS_RemoveElement, FS_CardinalityType
<1>6. T \ {x} \notin Bad
  <2> SUFFICES ASSUME T \ {x} \in Bad PROVE FALSE
    OBVIOUS
  <2>1. Cardinality(T \ {x}) \in Sizes
    OBVIOUS
  <2>2. n <= Cardinality(T \ {x})
    BY <2>1, <1>2
  <2> HIDE DEF Sizes, Bad
  <2> QED  BY <2>2, <1>3, <1>5
<1>7. CASE T \ {x} = {}
  BY <1>7
<1>8. CASE Topped(T \ {x})
  BY <1>8
<1> QED  BY <1>5, <1>6, <1>7, <1>8

(* What Min of the community modules returns. *)
LEMMA MinIs ==
  ASSUME NEW S, S \subseteq Nat, S # {}
  PROVE  Min(S) \in S /\ \A m \in S : Min(S) <= m
BY LeastOf DEF Min

(***************************************************************************)
(* Rekeying                                                                *)
(***************************************************************************)

(* A page is the first rows after the cursor: what it does not reach comes *)
(* after all of it, and then it is full.                                   *)
LEMMA PageIsNext ==
  ASSUME NEW cursor
  PROVE  /\ NextIds(cursor) \subseteq After(cursor)
         /\ \A i \in After(cursor) \ NextIds(cursor) :
              /\ Cardinality(NextIds(cursor)) = BatchSize
              /\ NextIds(cursor) # {}
              /\ \A j \in NextIds(cursor) : i > j
<1> DEFINE all == After(cursor)
           ids == NextIds(cursor)
           UpTo(i) == {j \in all : j <= i}
<1>1. /\ all \subseteq Ids /\ IsFiniteSet(Ids) /\ Ids \subseteq Nat /\ BatchSize \in Nat \ {0}
  BY RekeyAssumption DEF After
<1>2. ids \subseteq all /\ \A i \in all : i \in ids <=> Cardinality(UpTo(i)) <= BatchSize
  BY DEF NextIds
<1> HIDE DEF all, ids
<1>3. IsFiniteSet(all)
  BY <1>1, FS_Subset
<1>4. \A T \in SUBSET all : IsFiniteSet(T) /\ Cardinality(T) \in Nat
  BY <1>3, FS_Subset, FS_CardinalityType
<1>5. ASSUME NEW i \in all, i \notin ids, NEW j \in ids, ~(i > j)
      PROVE  FALSE
  <2>1. i \in Nat /\ j \in Nat /\ j \in all /\ i <= j
    BY <1>1, <1>2, <1>5
  <2>2. UpTo(i) \subseteq UpTo(j) /\ UpTo(j) \subseteq all
    <3> SUFFICES ASSUME NEW k \in all, k <= i
                 PROVE  k <= j
      OBVIOUS
    <3>1. k \in Nat
      BY <1>1
    <3> QED  BY <2>1, <3>1
  <2>3. Cardinality(UpTo(i)) <= Cardinality(UpTo(j)) /\ Cardinality(UpTo(i)) \in Nat /\ Cardinality(UpTo(j)) \in Nat
    BY <1>4, <2>2, FS_Subset
  <2>4. Cardinality(UpTo(j)) <= BatchSize
    BY <1>2, <2>1
  <2> HIDE DEF UpTo
  <2>5. Cardinality(UpTo(i)) <= BatchSize
    BY <1>1, <2>3, <2>4
  <2> QED  BY <1>2, <1>5, <2>5 DEF UpTo
<1>6. ASSUME NEW i \in all, i \notin ids
      PROVE  Cardinality(ids) = BatchSize /\ ids # {}
  <2>1. PICK m \in all \ ids : \A n \in all \ ids : m <= n
    <3>1. all \ ids # {} /\ all \ ids \subseteq Nat
      BY <1>1, <1>6
    <3> QED  BY <3>1, LeastOf
  <2>2. UpTo(m) \subseteq ids \union {m} /\ m \notin ids
    <3> SUFFICES ASSUME NEW k \in all, k <= m, k \notin ids
                 PROVE  k = m
      BY <2>1
    <3>1. k \in Nat /\ m \in Nat /\ m <= k
      BY <1>1, <2>1
    <3> QED  BY <3>1
  <2>3. ids \in SUBSET all /\ ids \union {m} \in SUBSET all /\ UpTo(m) \in SUBSET all
    BY <1>2, <2>1
  <2>4. Cardinality(ids \union {m}) = Cardinality(ids) + 1
    BY <1>4, <2>2, <2>3, FS_AddElement
  <2>5. Cardinality(UpTo(m)) <= Cardinality(ids \union {m})
    BY <1>4, <2>2, <2>3, FS_Subset
  <2>6. ~(Cardinality(UpTo(m)) <= BatchSize)
    BY <1>2, <2>1
  <2>7. Cardinality(ids) \in Nat /\ Cardinality(UpTo(m)) \in Nat
    BY <1>4, <2>3
  <2> HIDE DEF UpTo
  <2>8. Cardinality(ids) >= BatchSize
    BY <1>1, <2>4, <2>5, <2>6, <2>7
  <2>9. ids # {}
    BY <1>1, <2>8, FS_EmptySet
  <2>10. PICK g \in ids : \A n \in ids : n <= g
    <3>1. ids \subseteq Nat /\ IsFiniteSet(ids)
      BY <1>1, <1>4, <2>3
    <3> QED  BY <2>9, <3>1, GreatestOf
  <2>11. ids \subseteq UpTo(g) /\ UpTo(g) \in SUBSET all /\ g \in all
    BY <1>2, <2>10 DEF UpTo
  <2>12. Cardinality(ids) <= Cardinality(UpTo(g)) /\ Cardinality(UpTo(g)) \in Nat
    BY <1>4, <2>11, FS_Subset
  <2>13. Cardinality(UpTo(g)) <= BatchSize
    BY <1>2, <2>10, <2>11 DEF UpTo
  <2> QED  BY <1>1, <2>7, <2>8, <2>9, <2>12, <2>13
<1> QED  BY <1>2, <1>5, <1>6 DEF all, ids

(* A run that moves on. *)
RunStates ==
  [at : {"ready", "fetch", "page", "done", "crashed"},
   cursor : Ids \union {0}, page : [Ids -> Row \union {NoRow}],
   full : BOOLEAN, dry : BOOLEAN,
   report : [reencrypted : BOOLEAN, skipped : BOOLEAN]]

LEMMA RunMoves ==
  ASSUME RekeyTypeOK, NEW r \in Runs, NEW x \in RunStates, run' = [run EXCEPT ![r] = x]
  PROVE  /\ run' \in [Runs -> RunStates] /\ run'[r] = x
         /\ \A s \in Runs : s # r => run'[s] = run[s]
BY DEF RekeyTypeOK, RunStates

(* The other runs, when a run moves. *)
LEMMA OthersKeep ==
  ASSUME VouchedFor, NEW r \in Runs, \A s \in Runs : s # r => run'[s] = run[s],
         migrated => migrated', NEW s \in vouched, s \in Runs, s # r,
         \A i \in Ids : Present(i)' =>
           \/ Stale(rows'[i]) = {}
           \/ Present(i) /\ Stale(rows'[i]) \subseteq Stale(rows[i])
  PROVE  migrated' /\ run'[s].at # "ready" /\ LeftOverReported(s)' /\ OldKeyOnlyGoes(s)'
<1>1. run'[s] = run[s] /\ migrated /\ run[s].at # "ready" /\ LeftOverReported(s) /\ OldKeyOnlyGoes(s)
  BY DEF VouchedFor
<1>2. OnPage(s)' = OnPage(s) /\ \A i : Pending(s, i)' <=> Pending(s, i)
  BY <1>1 DEF OnPage, Pending
<1>3. LeftOverReported(s)'
  BY <1>1, <1>2 DEF LeftOverReported
<1>4. OldKeyOnlyGoes(s)'
  BY <1>1, <1>2 DEF OldKeyOnlyGoes, OnPage
<1> QED  BY <1>1, <1>3, <1>4

(* A writer that seals under the new primary, once every replica does. *)
LEMMA WriterKeeps ==
  ASSUME RekeyIInv, UNCHANGED <<run, vouched>>, migrated => migrated',
         rows' \in [Ids -> Row \union {NoRow}],
         newest' \in [Ids -> [Columns -> 0..MaxVersion]],
         NeverClobbered', migrated' \in BOOLEAN,
         migrated => \A i \in Ids : Present(i)' =>
           \/ Stale(rows'[i]) = {}
           \/ Present(i) /\ Stale(rows'[i]) \subseteq Stale(rows[i])
  PROVE  RekeyIInv'
<1>1. RekeyTypeOK' /\ RunsInPlace'
  BY DEF RekeyIInv, RekeyTypeOK, RunsInPlace, OnPage
<1>2. VouchedFor'
  <2> SUFFICES ASSUME NEW s \in vouched
               PROVE  migrated' /\ run'[s].at # "ready" /\ LeftOverReported(s)' /\ OldKeyOnlyGoes(s)'
    BY DEF VouchedFor
  <2>1. run'[s] = run[s] /\ migrated /\ run[s].at # "ready" /\ LeftOverReported(s) /\ OldKeyOnlyGoes(s)
    BY DEF RekeyIInv, VouchedFor
  <2>2. OnPage(s)' = OnPage(s) /\ \A i : Pending(s, i)' <=> Pending(s, i)
    BY <2>1 DEF OnPage, Pending
  <2>3. LeftOverReported(s)'
    BY <2>1, <2>2 DEF LeftOverReported
  <2>4. OldKeyOnlyGoes(s)'
    BY <2>1, <2>2 DEF OldKeyOnlyGoes, OnPage
  <2> QED  BY <2>1, <2>3, <2>4
<1> QED  BY <1>1, <1>2 DEF RekeyIInv

LEMMA RefreshTokensKeeps ==
  ASSUME RekeyIInv, NEW i \in Ids, RefreshTokens(i)
  PROVE  RekeyIInv'
<1>1. PICK k \in Primaries, rotated \in BOOLEAN :
        LET moved == IF rotated THEN Columns ELSE {"access"}
            version == [c \in Columns |-> newest[i][c] + (IF c \in moved THEN 1 ELSE 0)]
        IN  /\ \A c \in Columns : version[c] <= MaxVersion
            /\ newest' = [newest EXCEPT ![i] = version]
            /\ rows' = [rows EXCEPT ![i] = [c \in Columns |-> [key |-> k, version |-> version[c]]]]
  BY DEF RefreshTokens
<1> DEFINE version == [c \in Columns |-> newest[i][c] + (IF c \in (IF rotated THEN Columns ELSE {"access"}) THEN 1 ELSE 0)]
           row == [c \in Columns |-> [key |-> k, version |-> version[c]]]
<1>2. version \in [Columns -> 0..MaxVersion]
  <2>1. \A c \in Columns : newest[i][c] \in 0..MaxVersion /\ version[c] <= MaxVersion
    BY <1>1 DEF RekeyIInv, RekeyTypeOK
  <2>2. \A c \in Columns : version[c] \in 0..MaxVersion
    BY <2>1, RekeyAssumption
  <2> QED  BY <2>2
<1>3. newest' = [newest EXCEPT ![i] = version] /\ rows' = [rows EXCEPT ![i] = row]
  BY <1>1
<1>4. k \in {"primary", "old"} /\ (migrated => k = "primary")
  BY DEF Primaries
<1>5. /\ row \in Row /\ \A c \in Columns : row[c].version = version[c] /\ row[c].key = k
  <2> HIDE DEF version
  <2>1. \A c \in Columns : [key |-> k, version |-> version[c]] \in Blob
    BY <1>2, <1>4 DEF Blob, Sealers
  <2> QED  BY <2>1 DEF Row
<1>6. migrated => Stale(row) = {}
  BY <1>4, <1>5 DEF Stale
<1> HIDE DEF version, row
<1>7. /\ rows' \in [Ids -> Row \union {NoRow}] /\ newest' \in [Ids -> [Columns -> 0..MaxVersion]]
      /\ rows'[i] = row /\ newest'[i] = version
      /\ \A j \in Ids : j # i => rows'[j] = rows[j] /\ newest'[j] = newest[j]
  BY <1>2, <1>3, <1>5 DEF RekeyIInv, RekeyTypeOK
<1>8. NeverClobbered'
  BY <1>5, <1>7 DEF RekeyIInv, NeverClobbered, Present
<1>9. UNCHANGED <<run, vouched, migrated>>
  BY DEF RefreshTokens
<1>10. \A j \in Ids : j # i => (Present(j)' => Present(j) /\ Stale(rows'[j]) \subseteq Stale(rows[j]))
  BY <1>7 DEF Present
<1> QED  BY <1>6, <1>7, <1>8, <1>9, <1>10, WriterKeeps DEF RekeyIInv, RekeyTypeOK

LEMMA DropRowKeeps ==
  ASSUME RekeyIInv, NEW i \in Ids, DropRow(i)
  PROVE  RekeyIInv'
<1>1. /\ rows' = [rows EXCEPT ![i] = NoRow]
      /\ UNCHANGED <<newest, migrated, run, vouched>>
  BY DEF DropRow
<1>2. /\ rows' \in [Ids -> Row \union {NoRow}] /\ rows'[i] = NoRow
      /\ \A j \in Ids : j # i => rows'[j] = rows[j]
  BY <1>1 DEF RekeyIInv, RekeyTypeOK
<1>3. \A j \in Ids : Present(j)' => Present(j) /\ rows'[j] = rows[j]
  BY <1>2 DEF Present
<1>4. NeverClobbered'
  BY <1>1, <1>3 DEF RekeyIInv, NeverClobbered
<1> QED  BY <1>1, <1>2, <1>3, <1>4, WriterKeeps DEF RekeyIInv, RekeyTypeOK

LEMMA AddRowKeeps ==
  ASSUME RekeyIInv, NEW i \in Ids, AddRow(i)
  PROVE  RekeyIInv'
<1>1. PICK k \in Primaries : rows' = [rows EXCEPT ![i] = [c \in Columns |-> [key |-> k, version |-> 1]]]
  BY DEF AddRow
<1>2. newest' = [newest EXCEPT ![i] = [c \in Columns |-> 1]] /\ UNCHANGED <<migrated, run, vouched>>
  BY DEF AddRow
<1> DEFINE row == [c \in Columns |-> [key |-> k, version |-> 1]]
           ones == [c \in Columns |-> 1]
<1>3. k \in {"primary", "old"} /\ (migrated => k = "primary")
  BY DEF Primaries
<1>4. row \in Row /\ ones \in [Columns -> 0..MaxVersion]
      /\ \A c \in Columns : row[c].version = 1 /\ row[c].key = k /\ ones[c] = 1
  <2>1. 1 \in 0..MaxVersion
    BY RekeyAssumption
  <2>2. [key |-> k, version |-> 1] \in Blob
    BY <1>3, <2>1 DEF Blob, Sealers
  <2> QED  BY <2>1, <2>2 DEF Row
<1>5. migrated => Stale(row) = {}
  BY <1>3, <1>4 DEF Stale
<1>6. rows' = [rows EXCEPT ![i] = row] /\ newest' = [newest EXCEPT ![i] = ones]
  BY <1>1, <1>2
<1> HIDE DEF row, ones
<1>7. /\ rows' \in [Ids -> Row \union {NoRow}] /\ newest' \in [Ids -> [Columns -> 0..MaxVersion]]
      /\ rows'[i] = row /\ newest'[i] = ones
      /\ \A j \in Ids : j # i => rows'[j] = rows[j] /\ newest'[j] = newest[j]
  BY <1>4, <1>6 DEF RekeyIInv, RekeyTypeOK
<1>8. NeverClobbered'
  BY <1>4, <1>7 DEF RekeyIInv, NeverClobbered, Present
<1>9. \A j \in Ids : j # i => (Present(j)' => Present(j) /\ Stale(rows'[j]) \subseteq Stale(rows[j]))
  BY <1>7 DEF Present
<1> QED  BY <1>2, <1>5, <1>7, <1>8, <1>9, WriterKeeps DEF RekeyIInv, RekeyTypeOK

LEMMA MigrateKeeps ==
  ASSUME RekeyIInv, Migrate
  PROVE  RekeyIInv'
<1>1. ~migrated /\ migrated' = TRUE /\ UNCHANGED <<rows, newest, run, vouched>>
  BY DEF Migrate
<1>2. NeverClobbered'
  BY <1>1 DEF RekeyIInv, NeverClobbered, Present
<1> QED  BY <1>1, <1>2, WriterKeeps DEF RekeyIInv, RekeyTypeOK

LEMMA StartRunKeeps ==
  ASSUME RekeyIInv, NEW r \in Runs, StartRun(r)
  PROVE  RekeyIInv'
<1>1. PICK d \in BOOLEAN : run' = [run EXCEPT ![r].at = "fetch", ![r].dry = d]
  BY DEF StartRun
<1>2. /\ run[r].at = "ready" /\ UNCHANGED <<rows, newest, migrated>>
      /\ vouched' = IF migrated THEN vouched \union {r} ELSE vouched
  BY DEF StartRun
<1> DEFINE x == [run[r] EXCEPT !.at = "fetch", !.dry = d]
<1>3. run' = [run EXCEPT ![r] = x]
  BY <1>1, Zenon
<1>4. x \in RunStates /\ x.at = "fetch" /\ x.cursor = run[r].cursor
  BY DEF RekeyIInv, RekeyTypeOK, RunStates
<1> HIDE DEF x
<1>5. /\ run' \in [Runs -> RunStates] /\ run'[r] = x
      /\ \A s \in Runs : s # r => run'[s] = run[s]
  BY <1>3, <1>4, RunMoves DEF RekeyIInv
<1>6. x.cursor = 0 /\ \A i \in Ids : i > x.cursor
  <2>1. x.cursor = 0
    BY <1>2, <1>4 DEF RekeyIInv, RunsInPlace
  <2> QED  BY <2>1, RekeyAssumption
<1>7. RekeyTypeOK'
  BY <1>2, <1>5 DEF RekeyIInv, RekeyTypeOK, RunStates
<1>8. RunsInPlace'
  BY <1>4, <1>5 DEF RekeyIInv, RunsInPlace, OnPage
<1>9. NeverClobbered'
  BY <1>2 DEF RekeyIInv, NeverClobbered, Present
<1>10. VouchedFor'
  <2> SUFFICES ASSUME NEW s \in vouched'
               PROVE  migrated' /\ run'[s].at # "ready" /\ LeftOverReported(s)' /\ OldKeyOnlyGoes(s)'
    BY DEF VouchedFor
  <2>1. CASE s = r
    <3>1. migrated'
      BY <1>2, <2>1 DEF RekeyIInv, VouchedFor
    <3>2. \A i \in Ids : Pending(s, i)'
      BY <1>4, <1>5, <1>6, <2>1 DEF Pending
    <3> QED  BY <1>4, <1>5, <2>1, <3>1, <3>2 DEF LeftOverReported, OldKeyOnlyGoes
  <2>2. CASE s # r
    BY <1>2, <1>5, <2>2, OthersKeep DEF RekeyIInv, RekeyTypeOK, Present
  <2> QED  BY <2>1, <2>2
<1> QED  BY <1>7, <1>8, <1>9, <1>10 DEF RekeyIInv

LEMMA FetchPageKeeps ==
  ASSUME RekeyIInv, NEW r \in Runs, FetchPage(r)
  PROVE  RekeyIInv'
<1> DEFINE cursor == run[r].cursor
           ids == NextIds(cursor)
           page == [i \in Ids |-> IF i \in ids THEN rows[i] ELSE NoRow]
           x == [run[r] EXCEPT !.page = page, !.full = (Cardinality(ids) = BatchSize),
                               !.at = IF ids = {} THEN "done" ELSE "page"]
<1>1. /\ run[r].at = "fetch" /\ UNCHANGED <<rows, newest, migrated, vouched>>
      /\ run' = [run EXCEPT ![r] = x]
  BY Zenon DEF FetchPage
<1>2. page \in [Ids -> Row \union {NoRow}]
  BY DEF RekeyIInv, RekeyTypeOK
<1>3. /\ ids \subseteq After(cursor)
      /\ \A i \in After(cursor) \ ids :
           Cardinality(ids) = BatchSize /\ ids # {} /\ \A j \in ids : i > j
  BY PageIsNext
<1>4. \A i \in Ids : page[i] = IF i \in ids THEN rows[i] ELSE NoRow
  OBVIOUS
<1>5. {i \in Ids : page[i] # NoRow} = ids
  BY <1>3, <1>4 DEF After, Present
<1> HIDE DEF ids, page
<1>6. /\ x \in RunStates /\ x.page = page /\ x.cursor = cursor
      /\ x.full = (Cardinality(ids) = BatchSize) /\ x.at = (IF ids = {} THEN "done" ELSE "page")
      /\ x.report = run[r].report /\ x.dry = run[r].dry
  <2>1. run[r] \in RunStates
    BY DEF RekeyIInv, RekeyTypeOK, RunStates
  <2>2. (Cardinality(ids) = BatchSize) \in BOOLEAN /\ (IF ids = {} THEN "done" ELSE "page") \in {"done", "page"}
    OBVIOUS
  <2> QED  BY <1>2, <2>1, <2>2 DEF RunStates
<1> HIDE DEF x, cursor
<1>7. /\ run' \in [Runs -> RunStates] /\ run'[r] = x
      /\ \A s \in Runs : s # r => run'[s] = run[s]
  BY <1>1, <1>6, RunMoves DEF RekeyIInv
<1>8. OnPage(r)' = ids
  BY <1>5, <1>6, <1>7 DEF OnPage
<1>9. RekeyTypeOK'
  BY <1>1, <1>7 DEF RekeyIInv, RekeyTypeOK, RunStates
<1>10. RunsInPlace'
  BY <1>6, <1>7, <1>8 DEF RekeyIInv, RunsInPlace, OnPage
<1>11. NeverClobbered'
  BY <1>1 DEF RekeyIInv, NeverClobbered, Present
<1>12. VouchedFor'
  <2> SUFFICES ASSUME NEW s \in vouched'
               PROVE  migrated' /\ run'[s].at # "ready" /\ LeftOverReported(s)' /\ OldKeyOnlyGoes(s)'
    BY DEF VouchedFor
  <2>1. CASE s = r
    <3>1. migrated /\ LeftOverReported(r)
      BY <1>1, <2>1 DEF RekeyIInv, VouchedFor
    <3>2. run'[r].at # "ready"
      BY <1>6, <1>7
    <3>3. LeftOverReported(r)'
      <4> SUFFICES ASSUME NEW i \in Ids, Present(i), Stale(rows[i]) # {},
                          ~run[r].report.skipped, ~(run[r].dry /\ run[r].report.reencrypted)
                   PROVE  Pending(r, i)'
        BY <1>1, <1>6, <1>7 DEF LeftOverReported, Present
      <4>1. i > cursor
        BY <1>1, <3>1 DEF LeftOverReported, Pending, cursor
      <4>2. i \in After(cursor)
        BY <4>1 DEF After
      <4>3. CASE i \in ids
        BY <1>6, <1>7, <1>8, <4>3 DEF Pending
      <4>4. CASE i \notin ids
        <5>1. Cardinality(ids) = BatchSize /\ ids # {} /\ \A j \in ids : i > j
          BY <1>3, <4>2, <4>4
        <5> QED  BY <1>6, <1>7, <1>8, <5>1 DEF Pending
      <4> QED  BY <4>3, <4>4
    <3>4. OldKeyOnlyGoes(r)'
      <4>1. \A i \in ids : run'[r].page[i] = rows'[i]
        BY <1>1, <1>3, <1>4, <1>6, <1>7 DEF After
      <4> QED  BY <1>8, <4>1 DEF OldKeyOnlyGoes
    <3> QED  BY <1>1, <2>1, <3>1, <3>2, <3>3, <3>4
  <2>2. CASE s # r
    BY <1>1, <1>7, <2>2, OthersKeep DEF RekeyIInv, RekeyTypeOK, Present
  <2> QED  BY <2>1, <2>2
<1> QED  BY <1>9, <1>10, <1>11, <1>12 DEF RekeyIInv

LEMMA CrashRunKeeps ==
  ASSUME RekeyIInv, NEW r \in Runs, CrashRun(r)
  PROVE  RekeyIInv'
<1> DEFINE x == [run[r] EXCEPT !.at = "crashed", !.page = NoPage, !.cursor = 0, !.full = FALSE]
<1>1. UNCHANGED <<rows, newest, migrated, vouched>> /\ run' = [run EXCEPT ![r] = x]
  BY Zenon DEF CrashRun
<1>2. x \in RunStates /\ x.at = "crashed"
  <2>1. run[r] \in RunStates
    BY DEF RekeyIInv, RekeyTypeOK, RunStates
  <2> QED  BY <2>1 DEF RunStates, NoPage
<1> HIDE DEF x
<1>3. /\ run' \in [Runs -> RunStates] /\ run'[r] = x
      /\ \A s \in Runs : s # r => run'[s] = run[s]
  BY <1>1, <1>2, RunMoves DEF RekeyIInv
<1>4. RekeyTypeOK'
  BY <1>1, <1>3 DEF RekeyIInv, RekeyTypeOK, RunStates
<1>5. RunsInPlace'
  BY <1>2, <1>3 DEF RekeyIInv, RunsInPlace, OnPage
<1>6. NeverClobbered'
  BY <1>1 DEF RekeyIInv, NeverClobbered, Present
<1>7. VouchedFor'
  <2> SUFFICES ASSUME NEW s \in vouched'
               PROVE  migrated' /\ run'[s].at # "ready" /\ LeftOverReported(s)' /\ OldKeyOnlyGoes(s)'
    BY DEF VouchedFor
  <2>1. CASE s = r
    <3>1. migrated'
      BY <1>1, <2>1 DEF RekeyIInv, VouchedFor
    <3> QED  BY <1>2, <1>3, <2>1, <3>1 DEF LeftOverReported, OldKeyOnlyGoes
  <2>2. CASE s # r
    BY <1>1, <1>3, <2>2, OthersKeep DEF RekeyIInv, RekeyTypeOK, Present
  <2> QED  BY <2>1, <2>2
<1> QED  BY <1>4, <1>5, <1>6, <1>7 DEF RekeyIInv

(* What a rewrite makes of the rows: nothing turns stale, no version moves, *)
(* and a stale row that was written is stale no more.                       *)
LEMMA RewrittenRow ==
  ASSUME RekeyTypeOK, NEW i \in Ids, NEW read \in Row, Unchanged(i, read)
  PROVE  /\ Rewritten(i, read) \in Row
         /\ \A c \in Columns : Rewritten(i, read)[c] # NoBlob =>
              rows[i][c] # NoBlob /\ Rewritten(i, read)[c].version = rows[i][c].version
         /\ Stale(Rewritten(i, read)) = Stale(rows[i]) \ Stale(read)
<1> DEFINE new == Rewritten(i, read)
<1>1. /\ rows[i] \in Row /\ \A c \in Stale(read) : rows[i][c] = read[c]
      /\ \A c \in Stale(read) : c \in Columns /\ read[c] # NoBlob /\ read[c] \in Blob
  BY DEF Unchanged, Present, RekeyTypeOK, Stale, Row
<1>2. \A c \in Columns :
        new[c] = IF c \in Stale(read) THEN [read[c] EXCEPT !.key = "primary"] ELSE rows[i][c]
  BY DEF Rewritten
<1>3. ASSUME NEW c \in Stale(read)
      PROVE  new[c] \in Blob /\ new[c].key = "primary" /\ new[c].version = rows[i][c].version /\ rows[i][c] # NoBlob
  BY <1>1, <1>2 DEF Blob, Sealers
<1>4. \A c \in Columns : c \notin Stale(read) => new[c] = rows[i][c] /\ rows[i][c] \in Blob \union {NoBlob}
  BY <1>1, <1>2 DEF Row
<1>5. new \in Row
  <2>1. \A c \in Columns : new[c] \in Blob \union {NoBlob}
    BY <1>3, <1>4
  <2>2. new = [c \in Columns |-> new[c]]
    BY DEF Rewritten
  <2> HIDE DEF new
  <2> QED  BY <2>1, <2>2 DEF Row
<1> HIDE DEF new
<1>6. Stale(new) = Stale(rows[i]) \ Stale(read)
  <2>1. ASSUME NEW c \in Columns
        PROVE  c \in Stale(new) <=> c \in Stale(rows[i]) /\ c \notin Stale(read)
    <3>1. CASE c \in Stale(read)
      BY <1>3, <3>1 DEF Stale
    <3>2. CASE c \notin Stale(read)
      BY <1>4, <3>2 DEF Stale
    <3> QED  BY <3>1, <3>2
  <2>2. Stale(new) \subseteq Columns /\ Stale(rows[i]) \subseteq Columns
    BY DEF Stale
  <2> QED  BY <2>1, <2>2
<1>7. \A c \in Columns : new[c] # NoBlob => rows[i][c] # NoBlob /\ new[c].version = rows[i][c].version
  BY <1>3, <1>4
<1> QED  BY <1>5, <1>6, <1>7 DEF new

LEMMA RewriteRowKeeps ==
  ASSUME RekeyIInv, NEW r \in Runs, RewriteRow(r)
  PROVE  RekeyIInv'
<1> DEFINE i == Current(r)
           rest == Remaining(r)
           read == run[r].page[i]
           stale == Stale(read) # {}
           won == run[r].dry \/ Unchanged(i, read)
           last == LastPage(r)
           place == IF last THEN "done" ELSE IF rest = {} THEN "fetch" ELSE "page"
           report == [reencrypted |-> run[r].report.reencrypted \/ (stale /\ won),
                      skipped |-> run[r].report.skipped \/ (stale /\ ~won)]
           x == [run[r] EXCEPT !.report = report,
                               !.cursor = IF last THEN 0 ELSE i,
                               !.page = [run[r].page EXCEPT ![i] = NoRow],
                               !.full = run[r].full /\ rest # {},
                               !.at = place]
<1>1. /\ run[r].at = "page" /\ UNCHANGED <<newest, migrated, vouched>>
      /\ run' = [run EXCEPT ![r] = x]
      /\ rows' = IF stale /\ ~run[r].dry /\ won THEN [rows EXCEPT ![i] = Rewritten(i, read)] ELSE rows
  BY Zenon DEF RewriteRow
<1>2. run[r] \in RunStates
  BY DEF RekeyIInv, RekeyTypeOK, RunStates
<1>3. /\ i \in Ids /\ i \in OnPage(r) /\ read \in Row /\ rest = OnPage(r) \ {i}
      /\ \A j \in rest : j \in Ids /\ j > i
      /\ i \in Nat
  <2>1. OnPage(r) # {} /\ OnPage(r) \subseteq Ids /\ Ids \subseteq Nat
    BY <1>1, RekeyAssumption DEF RekeyIInv, RunsInPlace, OnPage
  <2>2. i \in OnPage(r) /\ \A m \in OnPage(r) : i <= m
    BY <2>1, MinIs DEF Current
  <2>3. read \in Row
    BY <1>2, <2>2 DEF OnPage, RunStates
  <2>4. rest = OnPage(r) \ {i}
    BY DEF Remaining
  <2>5. \A j \in rest : j \in Nat /\ i \in Nat /\ i <= j /\ i # j /\ j \in Ids
    BY <2>1, <2>2, <2>4
  <2> HIDE DEF i, rest, read
  <2>6. \A j \in rest : j > i
    BY <2>5
  <2> QED  BY <2>1, <2>2, <2>3, <2>4, <2>5, <2>6
<1>4. last <=> rest = {} /\ ~run[r].full
  BY DEF LastPage
<1>5. stale \in BOOLEAN /\ (won <=> run[r].dry \/ Unchanged(i, read))
  OBVIOUS
<1>6. stale <=> Stale(read) # {}
  OBVIOUS
<1>7. place = IF last THEN "done" ELSE IF rest = {} THEN "fetch" ELSE "page"
  OBVIOUS
<1> HIDE DEF i, rest, read, stale, won, last, place
<1>8. /\ x \in RunStates
      /\ (x.report.reencrypted <=> run[r].report.reencrypted \/ (stale /\ won))
      /\ (x.report.skipped <=> run[r].report.skipped \/ (stale /\ ~won))
      /\ x.cursor = (IF last THEN 0 ELSE i) /\ x.dry = run[r].dry
      /\ x.page = [run[r].page EXCEPT ![i] = NoRow]
      /\ (x.full <=> run[r].full /\ rest # {})
      /\ x.at = place
  <2> DEFINE page == [run[r].page EXCEPT ![i] = NoRow]
  <2>1. page \in [Ids -> Row \union {NoRow}]
    BY <1>2, <1>3 DEF RunStates
  <2> HIDE DEF page
  <2>2. place \in {"done", "fetch", "page"} /\ (IF last THEN 0 ELSE i) \in Ids \union {0}
    BY <1>3, <1>7
  <2>3. /\ report \in [reencrypted : BOOLEAN, skipped : BOOLEAN]
        /\ (report.reencrypted <=> run[r].report.reencrypted \/ (stale /\ won))
        /\ (report.skipped <=> run[r].report.skipped \/ (stale /\ ~won))
        /\ (run[r].full /\ rest # {}) \in BOOLEAN
    <3> DEFINE a == run[r].report.reencrypted \/ (stale /\ won)
               b == run[r].report.skipped \/ (stale /\ ~won)
    <3>1. a \in BOOLEAN /\ b \in BOOLEAN /\ (run[r].full /\ rest # {}) \in BOOLEAN
      BY Zenon
    <3>2. (a <=> run[r].report.reencrypted \/ (stale /\ won))
          /\ (b <=> run[r].report.skipped \/ (stale /\ ~won))
      BY Zenon
    <3>3. report = [reencrypted |-> a, skipped |-> b]
      BY Zenon
    <3> HIDE DEF a, b, report
    <3> QED  BY <3>1, <3>2, <3>3
  <2> HIDE DEF report
  <2>4. x = [run[r] EXCEPT !.report = report,
                           !.cursor = IF last THEN 0 ELSE i,
                           !.page = page,
                           !.full = run[r].full /\ rest # {},
                           !.at = place]
    BY Zenon DEF page
  <2> HIDE DEF x
  <2>5. x \in RunStates
    BY <1>2, <2>1, <2>2, <2>3, <2>4 DEF RunStates
  <2> QED  BY <1>2, <2>3, <2>4, <2>5 DEF RunStates, page
<1> HIDE DEF x
<1>9. /\ run' \in [Runs -> RunStates] /\ run'[r] = x
      /\ \A s \in Runs : s # r => run'[s] = run[s]
  BY <1>1, <1>8, RunMoves DEF RekeyIInv
<1>10. /\ \A j \in Ids : x.page[j] = IF j = i THEN NoRow ELSE run[r].page[j]
       /\ OnPage(r)' = rest
  <2>1. \A j \in Ids : x.page[j] = IF j = i THEN NoRow ELSE run[r].page[j]
    BY <1>2, <1>8 DEF RunStates
  <2> QED  BY <1>3, <1>9, <2>1 DEF OnPage
<1>11. /\ rows' \in [Ids -> Row \union {NoRow}]
       /\ \A j \in Ids : j # i => rows'[j] = rows[j]
       /\ \A j \in Ids : Present(j)' <=> Present(j)
       /\ \A j \in Ids : Present(j) => Stale(rows'[j]) \subseteq Stale(rows[j])
       /\ \A j \in Ids : Present(j) => \A c \in Columns : rows'[j][c] # NoBlob =>
            rows[j][c] # NoBlob /\ rows'[j][c].version = rows[j][c].version
       /\ stale /\ ~run[r].dry /\ won => Stale(rows'[i]) = Stale(rows[i]) \ Stale(read)
  <2>1. CASE stale /\ ~run[r].dry /\ won
    <3>1. Unchanged(i, read)
      BY <1>5, <2>1
    <3>2. /\ Rewritten(i, read) \in Row
          /\ \A c \in Columns : Rewritten(i, read)[c] # NoBlob =>
              rows[i][c] # NoBlob /\ Rewritten(i, read)[c].version = rows[i][c].version
          /\ Stale(Rewritten(i, read)) = Stale(rows[i]) \ Stale(read)
      BY <1>3, <3>1, RewrittenRow DEF RekeyIInv
    <3>3. rows \in [Ids -> Row \union {NoRow}] /\ rows' = [rows EXCEPT ![i] = Rewritten(i, read)]
      BY <1>1, <2>1 DEF RekeyIInv, RekeyTypeOK
    <3>4. rows' \in [Ids -> Row \union {NoRow}] /\ rows'[i] = Rewritten(i, read)
          /\ \A j \in Ids : j # i => rows'[j] = rows[j]
      BY <1>3, <3>2, <3>3
    <3>5. rows[i] # NoRow /\ rows'[i] # NoRow
      BY <3>1, <3>2, <3>4, RekeyAssumption DEF Unchanged, Present
    <3> QED  BY <3>2, <3>4, <3>5 DEF Present
  <2>2. CASE ~(stale /\ ~run[r].dry /\ won)
    BY <1>1, <2>2 DEF RekeyIInv, RekeyTypeOK, Present
  <2> QED  BY <2>1, <2>2
<1>12. RekeyTypeOK'
  BY <1>1, <1>9, <1>11 DEF RekeyIInv, RekeyTypeOK, RunStates
<1>13. RunsInPlace'
  <2>1. x.at # "ready" /\ (x.at = "page" => rest # {})
    BY <1>4, <1>7, <1>8
  <2> QED  BY <1>9, <1>10, <2>1 DEF RekeyIInv, RunsInPlace, OnPage
<1>14. NeverClobbered'
  BY <1>1, <1>11 DEF RekeyIInv, NeverClobbered
<1>15. VouchedFor'
  <2> SUFFICES ASSUME NEW s \in vouched'
               PROVE  migrated' /\ run'[s].at # "ready" /\ LeftOverReported(s)' /\ OldKeyOnlyGoes(s)'
    BY DEF VouchedFor
  <2>1. CASE s = r
    <3>1. migrated /\ LeftOverReported(r) /\ OldKeyOnlyGoes(r)
      BY <1>1, <2>1 DEF RekeyIInv, VouchedFor
    <3>2. run'[r].at # "ready"
      BY <1>7, <1>8, <1>9
    <3>3. OldKeyOnlyGoes(r)'
      <4> SUFFICES ASSUME NEW j \in rest, Present(j)
                   PROVE  Stale(rows'[j]) \subseteq Stale(x.page[j])
        BY <1>3, <1>9, <1>10, <1>11 DEF OldKeyOnlyGoes
      <4>1. x.page[j] = run[r].page[j] /\ Stale(rows[j]) \subseteq Stale(run[r].page[j])
        BY <1>1, <1>3, <1>10, <3>1 DEF OldKeyOnlyGoes
      <4> QED  BY <1>3, <1>11, <4>1
    <3>4. LeftOverReported(r)'
      <4> SUFFICES ASSUME NEW j \in Ids, Present(j), Stale(rows'[j]) # {},
                          ~x.report.skipped, ~(x.dry /\ x.report.reencrypted)
                   PROVE  Pending(r, j)'
        BY <1>9, <1>11 DEF LeftOverReported
      <4>1. Stale(rows[j]) # {}
        BY <1>11
      <4>2. j \in OnPage(r) \/ (run[r].full /\ \A k \in OnPage(r) : j > k)
        BY <1>1, <1>8, <3>1, <4>1 DEF LeftOverReported, Pending
      <4>3. j # i
        <5>1. SUFFICES ASSUME j = i PROVE FALSE
          OBVIOUS
        <5>2. Stale(rows[i]) \subseteq Stale(read)
          BY <1>1, <1>3, <3>1, <5>1 DEF OldKeyOnlyGoes, read
        <5>3. stale
          BY <1>6, <4>1, <5>1, <5>2
        <5>4. won /\ ~run[r].dry
          BY <1>5, <1>8, <5>3
        <5> QED  BY <1>11, <5>1, <5>2, <5>3, <5>4
      <4>4. CASE rest = {}
        <5>1. run[r].full /\ j > i
          BY <1>3, <4>2, <4>3, <4>4
        <5>2. x.at = "fetch" /\ x.cursor = i
          BY <1>4, <1>7, <1>8, <4>4, <5>1
        <5> QED  BY <1>9, <5>1, <5>2 DEF Pending
      <4>5. CASE rest # {}
        <5>1. x.at = "page" /\ (x.full <=> run[r].full)
          BY <1>4, <1>7, <1>8, <4>5
        <5>2. j \in rest \/ (run[r].full /\ \A k \in rest : j > k)
          BY <1>3, <4>2, <4>3
        <5> QED  BY <1>9, <1>10, <5>1, <5>2 DEF Pending
      <4> QED  BY <4>4, <4>5
    <3> QED  BY <1>1, <2>1, <3>1, <3>2, <3>3, <3>4
  <2>2. CASE s # r
    <3>1. s \in vouched /\ s \in Runs
      BY <1>1 DEF RekeyIInv, RekeyTypeOK
    <3> QED  BY <1>1, <1>9, <1>11, <2>2, <3>1, OthersKeep DEF RekeyIInv
  <2> QED  BY <2>1, <2>2
<1> QED  BY <1>12, <1>13, <1>14, <1>15 DEF RekeyIInv

LEMMA RekeyInitially == RekeyInit => RekeyIInv
<1> SUFFICES ASSUME RekeyInit
             PROVE  RekeyIInv
  OBVIOUS
<1>1. /\ 0 \in 0..MaxVersion
      /\ \A i \in Ids : Stored[i] # NoRow => Stored[i] \in Row /\ \A c \in Columns :
           Stored[i][c] # NoBlob => Stored[i][c].version = 0
  BY RekeyAssumption DEF Row, Blob
<1>2. rows \in [Ids -> Row \union {NoRow}]
  BY <1>1, RekeyAssumption DEF RekeyInit
<1>3. run \in [Runs -> RunStates]
  <2>1. [reencrypted |-> FALSE, skipped |-> FALSE] \in [reencrypted : BOOLEAN, skipped : BOOLEAN]
    OBVIOUS
  <2> QED  BY <2>1 DEF RekeyInit, RunStates, NoPage
<1>4. RekeyTypeOK
  BY <1>1, <1>2, <1>3 DEF RekeyInit, RekeyTypeOK, RunStates
<1>5. NeverClobbered
  BY <1>1 DEF RekeyInit, NeverClobbered, Present
<1>6. RunsInPlace /\ VouchedFor
  BY DEF RekeyInit, RunsInPlace, VouchedFor
<1> QED  BY <1>4, <1>5, <1>6 DEF RekeyIInv

(* Whatever runs, crashes and writers there are, a rotation of the master  *)
(* key puts no older token back, and a vouched run that reports nothing    *)
(* left over leaves nothing that needs the old key (rekey, cmdRekey).      *)
THEOREM RekeyLosesNothing == RekeySpec => []RekeyInv
<1>1. RekeyIInv /\ [RekeyNext]_rekeyVars => RekeyIInv'
  <2> SUFFICES ASSUME RekeyIInv, [RekeyNext]_rekeyVars
               PROVE  RekeyIInv'
    OBVIOUS
  <2>1. CASE UNCHANGED rekeyVars
    <3>1. UNCHANGED <<rows, newest, migrated, run, vouched>>
      BY <2>1 DEF rekeyVars
    <3>2. NeverClobbered'
      BY <3>1 DEF RekeyIInv, NeverClobbered, Present
    <3> QED  BY <3>1, <3>2, WriterKeeps DEF RekeyIInv, RekeyTypeOK, Present
  <2> QED
    BY <2>1, MigrateKeeps, RefreshTokensKeeps, DropRowKeeps, AddRowKeeps, StartRunKeeps,
       FetchPageKeeps, RewriteRowKeeps, CrashRunKeeps DEF RekeyNext
<1>2. RekeyIInv => RekeyInv
  <2> SUFFICES ASSUME RekeyIInv, NEW r \in vouched, run[r].at = "done", ~run[r].report.skipped,
                      run[r].dry => ~run[r].report.reencrypted, NEW i \in Ids, Present(i)
               PROVE  Stale(rows[i]) = {}
    BY DEF RekeyIInv, RekeyInv, SafeToRetire
  <2>1. LeftOverReported(r) /\ ~Pending(r, i)
    BY DEF RekeyIInv, VouchedFor, Pending
  <2> QED  BY <2>1 DEF LeftOverReported
<1> QED  BY <1>1, <1>2, RekeyInitially, PTL DEF RekeySpec

(***************************************************************************)
(* The tool allowlist                                                      *)
(***************************************************************************)

(* The row a writer comes to next is the first of those it has to do. *)
LEMMA NextRow ==
  ASSUME AllowlistTypeOK, NEW c \in Commands, command[c].todo # {}
  PROVE  /\ InOrder(c) \in command[c].todo /\ InOrder(c) \in ToolProviders
         /\ \A q \in command[c].todo \ {InOrder(c)} : InOrder(c) < q
<1>1. command[c].todo \subseteq Nat /\ command[c].todo \subseteq ToolProviders
  BY AllowlistAssumption DEF AllowlistTypeOK
<1>2. InOrder(c) \in command[c].todo /\ \A q \in command[c].todo : InOrder(c) <= q
  BY <1>1, MinIs DEF InOrder
<1>3. \A q \in command[c].todo : InOrder(c) \in Nat /\ q \in Nat
  BY <1>1, <1>2
<1> QED  BY <1>1, <1>2, <1>3

CommandStates ==
  [at : {"new", "locked", "fill", "upsert", "commit", "done"},
   changes : [ToolProviders -> BOOLEAN \union {Unset}],
   todo : SUBSET ToolProviders]

(* A command that moves on, and the others. *)
LEMMA CommandMoves ==
  ASSUME AllowlistTypeOK, NEW c \in Commands, NEW x \in CommandStates,
         command' = [command EXCEPT ![c] = x]
  PROVE  /\ command' \in [Commands -> CommandStates] /\ command'[c] = x
         /\ \A d \in Commands : d # c => command'[d] = command[d]
         /\ \A d \in Commands : d # c => Asked(d)' = Asked(d) /\ \A p : Wish(d, p)' = Wish(d, p)
         /\ Asked(c)' = {p \in ToolProviders : x.changes[p] # Unset}
         /\ \A p : Wish(c, p)' = (x.changes[p] = TRUE)
<1>1. /\ command' \in [Commands -> CommandStates] /\ command'[c] = x
      /\ \A d \in Commands : d # c => command'[d] = command[d]
  BY DEF AllowlistTypeOK, CommandStates
<1> QED  BY <1>1 DEF Asked, Wish

(* The end of a command, with what it wrote committed or dropped. *)
LEMMA EndKeeps ==
  ASSUME AllowlistIInv, NEW c \in Commands, Finish(c),
         written' = [p \in ToolProviders |-> IF p \in Mine(c) THEN Unset ELSE written[p]],
         writer' = [p \in ToolProviders |-> IF p \in Mine(c) THEN Free ELSE writer[p]],
         enabled' \in [ToolProviders -> BOOLEAN \union {Unset}],
         decided' \in [ToolProviders -> BOOLEAN],
         LastCommandRules', AllOrNone',
         \A p \in ToolProviders : enabled[p] # Unset => enabled'[p] # Unset,
         \A p \in ToolProviders : writer[p] # c => enabled'[p] = enabled[p]
  PROVE  AllowlistIInv'
<1> USE DEF AllowlistIInv
<1> DEFINE x == [at |-> "done", changes |-> NoChange, todo |-> {}]
<1>1. x \in CommandStates /\ x.at = "done" /\ x.todo = {} /\ \A p \in ToolProviders : x.changes[p] = Unset
  BY DEF CommandStates, NoChange
<1>2. command' = [command EXCEPT ![c] = x]
  BY DEF Finish
<1> HIDE DEF x
<1>3. /\ command' \in [Commands -> CommandStates] /\ command'[c] = x
      /\ \A d \in Commands : d # c => command'[d] = command[d]
      /\ \A d \in Commands : d # c => Asked(d)' = Asked(d) /\ \A p : Wish(d, p)' = Wish(d, p)
      /\ Asked(c)' = {p \in ToolProviders : x.changes[p] # Unset}
  BY <1>1, <1>2, CommandMoves
<1>4. Asked(c)' = {}
  BY <1>1, <1>3
<1>5. /\ locked' \in [ToolProviders -> Commands \union {Free}]
      /\ \A p \in ToolProviders : locked'[p] = IF locked[p] = c THEN Free ELSE locked[p]
  BY DEF Finish, AllowlistTypeOK
<1>6. /\ writer' \in [ToolProviders -> Commands \union {Free}]
      /\ \A p \in ToolProviders : writer'[p] = IF writer[p] = c THEN Free ELSE writer[p]
      /\ written' \in [ToolProviders -> BOOLEAN \union {Unset}]
      /\ \A p \in ToolProviders : written'[p] = IF writer[p] = c THEN Unset ELSE written[p]
  BY DEF AllowlistTypeOK, Mine
<1>7. AllowlistTypeOK'
  BY <1>3, <1>5, <1>6 DEF AllowlistTypeOK, CommandStates
<1>8. \A d \in Commands, p \in ToolProviders : writer'[p] = d => d # c /\ writer[p] = d /\ written'[p] = written[p]
  BY <1>6, AllowlistAssumption
<1>9. LocksHeld'
  BY <1>1, <1>3, <1>4, <1>5, <1>8 DEF LocksHeld
<1>10. WritesOwn'
  BY <1>3, <1>8 DEF WritesOwn
<1>11. NoHalfRow'
  BY <1>6 DEF NoHalfRow
<1>12. FilledSoFar'
  <2> SUFFICES ASSUME NEW d \in Commands, NEW p \in ToolProviders,
                      \/ command'[d].at = "fill" /\ p \notin command'[d].todo
                      \/ command'[d].at \in {"upsert", "commit"}
               PROVE  writer'[p] = d \/ enabled'[p] # Unset
    BY DEF FilledSoFar
  <2>1. d # c
    BY <1>1, <1>3
  <2>2. writer[p] = d \/ enabled[p] # Unset
    BY <1>3, <2>1 DEF FilledSoFar
  <2> QED  BY <1>6, <2>1, <2>2
<1>13. InRowOrder'
  BY <1>1, <1>3, <1>8 DEF InRowOrder
<1>14. UpsertedSoFar'
  <2>1. \A d \in Commands : command'[d].at \in {"upsert", "commit"} =>
          d # c /\ command'[d] = command[d] /\ Asked(d)' = Asked(d)
    BY <1>1, <1>3
  <2>2. \A d \in Commands : d # c => \A p \in ToolProviders : writer[p] = d => writer'[p] = d
    BY <1>6
  <2>3. \A d \in Commands : Asked(d) \subseteq ToolProviders
    BY DEF Asked
  <2> QED  BY <2>1, <2>2, <2>3 DEF UpsertedSoFar
<1> QED  BY <1>7, <1>9, <1>10, <1>11, <1>12, <1>13, <1>14

(* Command c becomes x: it may go only where its rows already stand. *)
RowsStand(c, x) ==
  /\ x.at \in {"locked", "fill", "upsert", "commit"}
  /\ x.at \in {"locked", "commit"} => x.todo = {}
  /\ x.at = "locked" => \A p \in ToolProviders : writer[p] # c
  /\ \A p \in ToolProviders : writer[p] = c => x.changes = command[c].changes
  /\ x.at = "fill" => \A p \in ToolProviders : writer[p] # c /\ (p \notin x.todo => enabled[p] # Unset)
  /\ x.at = "upsert" => \A p \in x.todo : x.changes[p] # Unset
  /\ x.at \in {"upsert", "commit"} => \A p \in ToolProviders :
       /\ writer[p] = c \/ enabled[p] # Unset
       /\ x.changes[p] # Unset /\ p \notin x.todo => writer[p] = c

(* A command that moves on without touching a row. *)
LEMMA QuietKeeps ==
  ASSUME AllowlistIInv, NEW c \in Commands, NEW x \in CommandStates,
         command' = [command EXCEPT ![c] = x],
         UNCHANGED <<enabled, written, writer, decided>>,
         locked' \in [ToolProviders -> Commands \union {Free}],
         \A d \in Commands, p \in ToolProviders : d # c /\ locked[p] = d => locked'[p] = d,
         RowsStand(c, x),
         \A p \in ToolProviders : x.changes[p] # Unset => locked'[p] = c
  PROVE  AllowlistIInv'
<1>0. /\ AllowlistTypeOK /\ LastCommandRules
      /\ LocksHeld /\ AllOrNone /\ WritesOwn /\ NoHalfRow /\ FilledSoFar /\ InRowOrder /\ UpsertedSoFar
  BY DEF AllowlistIInv
<1>1. /\ command' \in [Commands -> CommandStates] /\ command'[c] = x
      /\ \A d \in Commands : d # c => command'[d] = command[d]
      /\ \A d \in Commands : d # c => Asked(d)' = Asked(d) /\ \A p : Wish(d, p)' = Wish(d, p)
      /\ Asked(c)' = {p \in ToolProviders : x.changes[p] # Unset}
      /\ \A p : Wish(c, p)' = (x.changes[p] = TRUE)
  BY <1>0, CommandMoves, Zenon
<1>2. AllowlistTypeOK'
  BY <1>0, <1>1 DEF AllowlistTypeOK, CommandStates
<1>3. LastCommandRules' /\ AllOrNone' /\ NoHalfRow'
  BY <1>0 DEF LastCommandRules, IsEnabled, AllOrNone, Configured, NoHalfRow
<1>4. LocksHeld'
  <2>1. ASSUME NEW d \in Commands
        PROVE  /\ command'[d].at = "new" => Asked(d)' = {}
               /\ command'[d].at \in {"new", "locked", "commit", "done"} => command'[d].todo = {}
    BY <1>0, <1>1 DEF LocksHeld, RowsStand
  <2>2. ASSUME NEW d \in Commands, NEW p \in ToolProviders
        PROVE  /\ p \in Asked(d)' => locked'[p] = d
               /\ writer[p] = d => command'[d].at \in {"fill", "upsert", "commit"}
    <3>1. CASE d = c
      BY <1>1, <3>1 DEF RowsStand
    <3>2. CASE d # c
      BY <1>0, <1>1, <3>2 DEF LocksHeld
    <3> QED  BY <3>1, <3>2
  <2>3. \A d \in Commands, p \in ToolProviders : writer'[p] = d <=> writer[p] = d
    OBVIOUS
  <2> QED  BY <2>1, <2>2, <2>3, Zenon DEF LocksHeld
<1>5. WritesOwn'
  <2> SUFFICES ASSUME NEW d \in Commands, NEW p \in ToolProviders, writer[p] = d
               PROVE  /\ written[p] = Wish(d, p)'
                      /\ enabled[p] # Unset => p \in Asked(d)'
    BY DEF WritesOwn
  <2>1. written[p] = Wish(d, p) /\ (enabled[p] # Unset => p \in Asked(d))
    BY <1>0 DEF WritesOwn
  <2>2. CASE d = c
    BY <1>1, <2>1, <2>2 DEF Wish, Asked, RowsStand
  <2>3. CASE d # c
    BY <1>1, <2>1, <2>3
  <2> QED  BY <2>2, <2>3
<1>6. FilledSoFar'
  <2> SUFFICES ASSUME NEW d \in Commands, NEW p \in ToolProviders
               PROVE  /\ command'[d].at = "fill" /\ p \notin command'[d].todo => writer[p] = d \/ enabled[p] # Unset
                      /\ command'[d].at \in {"upsert", "commit"} => writer[p] = d \/ enabled[p] # Unset
    BY DEF FilledSoFar
  <2>1. CASE d = c
    BY <1>1, <2>1 DEF RowsStand
  <2>2. CASE d # c
    BY <1>0, <1>1, <2>2 DEF FilledSoFar
  <2> QED  BY <2>1, <2>2
<1>7. InRowOrder'
  <2> SUFFICES ASSUME NEW d \in Commands, NEW p \in ToolProviders, command'[d].at = "fill", writer[p] = d
               PROVE  \A y \in command'[d].todo : p < y
    BY DEF InRowOrder
  <2>1. d # c
    BY <1>1 DEF RowsStand
  <2> QED  BY <1>0, <1>1, <2>1 DEF InRowOrder
<1>8. UpsertedSoFar'
  <2> SUFFICES ASSUME NEW d \in Commands
               PROVE  /\ command'[d].at = "upsert" => command'[d].todo \subseteq Asked(d)'
                      /\ command'[d].at \in {"upsert", "commit"} =>
                           \A p \in Asked(d)' \ command'[d].todo : writer[p] = d
    BY DEF UpsertedSoFar
  <2>1. CASE d = c
    <3>1. x.todo \subseteq ToolProviders
      BY DEF CommandStates
    <3> QED  BY <1>1, <2>1, <3>1 DEF RowsStand
  <2>2. CASE d # c
    BY <1>0, <1>1, <2>2 DEF UpsertedSoFar
  <2> QED  BY <2>1, <2>2
<1> QED  BY <1>2, <1>3, <1>4, <1>5, <1>6, <1>7, <1>8 DEF AllowlistIInv

LEMMA LockCommandKeeps ==
  ASSUME AllowlistIInv, NEW c \in Commands, LockCommand(c)
  PROVE  AllowlistIInv'
<1> USE DEF AllowlistIInv
<1>1. PICK ch \in Changes :
        /\ \A p \in ToolProviders : ch[p] # Unset => locked[p] = Free
        /\ locked' = [p \in ToolProviders |-> IF ch[p] # Unset THEN c ELSE locked[p]]
        /\ command' = [command EXCEPT ![c].at = "locked", ![c].changes = ch]
  BY DEF LockCommand
<1>2. command[c].at = "new" /\ UNCHANGED <<enabled, written, writer, decided>>
  BY DEF LockCommand
<1> DEFINE x == [command[c] EXCEPT !.at = "locked", !.changes = ch]
<1>3. command' = [command EXCEPT ![c] = x]
  BY <1>1, Zenon
<1>4. x \in CommandStates /\ x.at = "locked" /\ x.todo = command[c].todo /\ x.changes = ch
  BY DEF AllowlistTypeOK, CommandStates, Changes
<1> HIDE DEF x
<1>5. /\ locked' \in [ToolProviders -> Commands \union {Free}]
      /\ \A p \in ToolProviders : locked'[p] = IF ch[p] # Unset THEN c ELSE locked[p]
  BY <1>1 DEF AllowlistTypeOK
<1>6. \A d \in Commands, p \in ToolProviders : d # c /\ locked[p] = d => locked'[p] = d
  BY <1>1, <1>5, AllowlistAssumption
<1>7. x.todo = {} /\ \A p \in ToolProviders : writer[p] # c
  BY <1>2, <1>4 DEF LocksHeld
<1>8. RowsStand(c, x)
  BY <1>4, <1>7 DEF RowsStand
<1>9. \A p \in ToolProviders : x.changes[p] # Unset => locked'[p] = c
  BY <1>4, <1>5
<1> QED  BY <1>2, <1>3, <1>4, <1>5, <1>6, <1>8, <1>9, QuietKeeps

LEMMA CompareKeeps ==
  ASSUME AllowlistIInv, NEW c \in Commands, Compare(c)
  PROVE  AllowlistIInv'
<1> USE DEF AllowlistIInv
<1>1. command[c].at = "locked" /\ UNCHANGED <<enabled, written, writer, decided>>
      /\ \A p \in ToolProviders : writer[p] # c
  BY DEF Compare, LocksHeld
<1>2. CASE Finish(c)
  <2>1. Mine(c) = {}
    BY <1>1 DEF Mine
  <2>2. /\ written' = [p \in ToolProviders |-> IF p \in Mine(c) THEN Unset ELSE written[p]]
        /\ writer' = [p \in ToolProviders |-> IF p \in Mine(c) THEN Free ELSE writer[p]]
    BY <1>1, <2>1 DEF AllowlistTypeOK
  <2>3. LastCommandRules' /\ AllOrNone'
    BY <1>1 DEF LastCommandRules, IsEnabled, AllOrNone, Configured
  <2> QED  BY <1>1, <1>2, <2>2, <2>3, EndKeeps DEF AllowlistTypeOK
<1>3. CASE ~Finish(c)
  <2> DEFINE ch == command[c].changes
             real == {p \in ToolProviders : ch[p] # Unset /\ ch[p] # IsEnabled(p)}
             changes == [p \in ToolProviders |-> IF p \in real THEN ch[p] ELSE Unset]
             todo == IF Configured THEN {} ELSE ToolProviders
             x == [at |-> "fill", changes |-> changes, todo |-> todo]
  <2>1. command' = [command EXCEPT ![c] = x] /\ UNCHANGED locked
    BY <1>3 DEF Compare
  <2>2. /\ ch \in [ToolProviders -> BOOLEAN \union {Unset}]
        /\ changes \in [ToolProviders -> BOOLEAN \union {Unset}]
        /\ \A p \in ToolProviders : changes[p] # Unset => ch[p] # Unset
    BY DEF AllowlistTypeOK
  <2> HIDE DEF changes
  <2>3. x \in CommandStates
    BY <2>2 DEF CommandStates
  <2>4. x.at = "fill" /\ x.changes = changes /\ x.todo = todo
    BY DEF x
  <2> HIDE DEF x
  <2>5. \A p \in ToolProviders : x.changes[p] # Unset => locked[p] = c
    BY <2>2, <2>4 DEF LocksHeld, Asked
  <2>6. \A p \in ToolProviders : p \notin x.todo => enabled[p] # Unset
    BY <2>4 DEF AllOrNone
  <2>7. RowsStand(c, x)
    BY <1>1, <2>4, <2>6 DEF RowsStand
  <2> QED  BY <1>1, <2>1, <2>3, <2>5, <2>7, QuietKeeps DEF AllowlistTypeOK
<1> QED  BY <1>2, <1>3

LEMMA FilledKeeps ==
  ASSUME AllowlistIInv, NEW c \in Commands, Filled(c)
  PROVE  AllowlistIInv'
<1> USE DEF AllowlistIInv
<1> DEFINE x == [command[c] EXCEPT !.at = "upsert", !.todo = Asked(c)]
<1>1. /\ command[c].at = "fill" /\ command[c].todo = {}
      /\ UNCHANGED <<enabled, written, writer, locked, decided>>
      /\ command' = [command EXCEPT ![c] = x]
  BY Zenon DEF Filled
<1>2. x \in CommandStates /\ x.at = "upsert" /\ x.changes = command[c].changes /\ x.todo = Asked(c)
  BY DEF AllowlistTypeOK, CommandStates, Asked
<1> HIDE DEF x
<1>3. \A p \in ToolProviders : (x.changes[p] # Unset => locked'[p] = c) /\ (x.changes[p] # Unset <=> p \in x.todo)
  BY <1>1, <1>2 DEF LocksHeld, Asked
<1>4. \A p \in ToolProviders : writer[p] = c \/ enabled[p] # Unset
  BY <1>1 DEF FilledSoFar
<1>5. RowsStand(c, x)
  BY <1>2, <1>3, <1>4 DEF RowsStand, Asked
<1>6. \A p \in ToolProviders : x.changes[p] # Unset => locked'[p] = c
  BY <1>3
<1>7. locked' \in [ToolProviders -> Commands \union {Free}]
  BY <1>1 DEF AllowlistTypeOK
<1>8. \A d \in Commands, p \in ToolProviders : d # c /\ locked[p] = d => locked'[p] = d
  BY <1>1
<1> QED  BY <1>1, <1>2, <1>5, <1>6, <1>7, <1>8, QuietKeeps

LEMMA UpsertedKeeps ==
  ASSUME AllowlistIInv, NEW c \in Commands, Upserted(c)
  PROVE  AllowlistIInv'
<1> USE DEF AllowlistIInv
<1> DEFINE x == [command[c] EXCEPT !.at = "commit"]
<1>1. /\ command[c].at = "upsert" /\ command[c].todo = {}
      /\ UNCHANGED <<enabled, written, writer, locked, decided>>
      /\ command' = [command EXCEPT ![c] = x]
  BY Zenon DEF Upserted
<1>2. x \in CommandStates /\ x.at = "commit" /\ x.changes = command[c].changes /\ x.todo = {}
  BY <1>1 DEF AllowlistTypeOK, CommandStates
<1> HIDE DEF x
<1>3. \A p \in ToolProviders : x.changes[p] # Unset => locked'[p] = c /\ writer[p] = c
  BY <1>1, <1>2 DEF LocksHeld, UpsertedSoFar, Asked
<1>4. \A p \in ToolProviders : writer[p] = c \/ enabled[p] # Unset
  BY <1>1 DEF FilledSoFar
<1>5. RowsStand(c, x)
  BY <1>2, <1>3, <1>4 DEF RowsStand
<1>6. \A p \in ToolProviders : x.changes[p] # Unset => locked'[p] = c
  BY <1>3
<1>7. locked' \in [ToolProviders -> Commands \union {Free}]
  BY <1>1 DEF AllowlistTypeOK
<1>8. \A d \in Commands, p \in ToolProviders : d # c /\ locked[p] = d => locked'[p] = d
  BY <1>1
<1> QED  BY <1>1, <1>2, <1>5, <1>6, <1>7, <1>8, QuietKeeps

(* The next row is done: it was there, or it holds what the command wants. *)
LEMMA RowKeeps ==
  ASSUME AllowlistIInv, NEW c \in Commands, command[c].todo # {}, NEW p, p = InOrder(c),
         command[c].at \in {"fill", "upsert"}, Writable(p, c),
         \/ Write(p, c, Wish(c, p)) /\ (enabled[p] # Unset => p \in Asked(c))
         \/ /\ command[c].at = "fill" /\ (writer[p] = c \/ enabled[p] # Unset)
            /\ UNCHANGED <<written, writer>>,
         command' = [command EXCEPT ![c].todo = @ \ {p}],
         UNCHANGED <<enabled, locked, decided>>
  PROVE  AllowlistIInv'
<1> USE DEF AllowlistIInv
<1> DEFINE x == [command[c] EXCEPT !.todo = command[c].todo \ {p}]
<1>1. /\ p \in command[c].todo /\ p \in ToolProviders /\ \A q \in command[c].todo \ {p} : p < q
  BY NextRow
<1>2. command' = [command EXCEPT ![c] = x]
  BY Zenon
<1>3. /\ x \in CommandStates /\ x.at = command[c].at /\ x.changes = command[c].changes
      /\ x.todo = command[c].todo \ {p}
  BY DEF AllowlistTypeOK, CommandStates
<1> HIDE DEF x
<1>4. /\ command' \in [Commands -> CommandStates] /\ command'[c] = x
      /\ \A d \in Commands : d # c => command'[d] = command[d]
      /\ \A d \in Commands : Asked(d)' = Asked(d) /\ \A q : Wish(d, q)' = Wish(d, q)
  <2>1. /\ command' \in [Commands -> CommandStates] /\ command'[c] = x
        /\ \A d \in Commands : d # c => command'[d] = command[d]
    BY <1>2, <1>3, CommandMoves
  <2> QED  BY <1>3, <2>1 DEF Asked, Wish
<1>5. writer[p] \in {Free, c}
  BY DEF Writable
<1>6. /\ written' \in [ToolProviders -> BOOLEAN \union {Unset}]
      /\ writer' \in [ToolProviders -> Commands \union {Free}]
      /\ \A q \in ToolProviders : q # p => written'[q] = written[q] /\ writer'[q] = writer[q]
      /\ \/ written'[p] = Wish(c, p) /\ writer'[p] = c /\ (enabled[p] # Unset => p \in Asked(c))
         \/ /\ written'[p] = written[p] /\ writer'[p] = writer[p] /\ command[c].at = "fill"
            /\ (writer[p] = c \/ enabled[p] # Unset)
  <2>1. CASE Write(p, c, Wish(c, p)) /\ (enabled[p] # Unset => p \in Asked(c))
    <3>1. Wish(c, p) \in BOOLEAN
      BY DEF Wish
    <3>2. written' = [written EXCEPT ![p] = Wish(c, p)] /\ writer' = [writer EXCEPT ![p] = c]
      BY <2>1 DEF Write
    <3>3. written'[p] = Wish(c, p) /\ writer'[p] = c
      BY <1>1, <3>2 DEF AllowlistTypeOK
    <3>4. \A q \in ToolProviders : q # p => written'[q] = written[q] /\ writer'[q] = writer[q]
      BY <1>1, <3>2 DEF AllowlistTypeOK
    <3>5. /\ written' \in [ToolProviders -> BOOLEAN \union {Unset}]
          /\ writer' \in [ToolProviders -> Commands \union {Free}]
      BY <1>1, <3>1, <3>2 DEF AllowlistTypeOK
    <3> QED  BY <2>1, <3>3, <3>4, <3>5
  <2>2. CASE UNCHANGED <<written, writer>> /\ command[c].at = "fill"
             /\ (writer[p] = c \/ enabled[p] # Unset)
    BY <2>2 DEF AllowlistTypeOK
  <2> QED  BY <2>1, <2>2
<1>7. \A d \in Commands, q \in ToolProviders : d # c => (writer'[q] = d <=> writer[q] = d)
  BY <1>5, <1>6, AllowlistAssumption
<1>8. \A q \in ToolProviders : writer[q] = c => writer'[q] = c
  BY <1>6
<1>9. AllowlistTypeOK'
  BY <1>4, <1>6 DEF AllowlistTypeOK, CommandStates
<1>10. LastCommandRules' /\ AllOrNone'
  BY DEF LastCommandRules, IsEnabled, AllOrNone, Configured
<1>11. LocksHeld'
  <2> SUFFICES ASSUME NEW d \in Commands, NEW q \in ToolProviders
               PROVE  /\ q \in Asked(d) => locked[q] = d
                      /\ writer'[q] = d => command'[d].at \in {"fill", "upsert", "commit"}
                      /\ command'[d].at = "new" => Asked(d) = {}
                      /\ command'[d].at \in {"new", "locked", "commit", "done"} => command'[d].todo = {}
    BY <1>4 DEF LocksHeld
  <2>1. CASE d = c
    BY <1>3, <1>4, <2>1 DEF LocksHeld
  <2>2. CASE d # c
    BY <1>4, <1>7, <2>2 DEF LocksHeld
  <2> QED  BY <2>1, <2>2
<1>12. WritesOwn'
  <2> SUFFICES ASSUME NEW d \in Commands, NEW q \in ToolProviders, writer'[q] = d
               PROVE  written'[q] = Wish(d, q) /\ (enabled[q] # Unset => q \in Asked(d))
    BY <1>4 DEF WritesOwn
  <2>1. CASE q # p
    BY <1>6, <2>1 DEF WritesOwn
  <2>2. CASE q = p
    BY <1>5, <1>6, <2>2, AllowlistAssumption DEF WritesOwn
  <2> QED  BY <2>1, <2>2
<1>13. NoHalfRow'
  BY <1>6, AllowlistAssumption DEF NoHalfRow
<1>14. FilledSoFar'
  <2> SUFFICES ASSUME NEW d \in Commands, NEW q \in ToolProviders,
                      \/ command'[d].at = "fill" /\ q \notin command'[d].todo
                      \/ command'[d].at \in {"upsert", "commit"}
               PROVE  writer'[q] = d \/ enabled[q] # Unset
    BY DEF FilledSoFar
  <2>1. CASE d # c
    BY <1>4, <1>7, <2>1 DEF FilledSoFar
  <2>2. CASE d = c /\ q = p
    BY <1>6, <2>2
  <2>3. CASE d = c /\ q # p
    BY <1>3, <1>4, <1>8, <2>3 DEF FilledSoFar
  <2> QED  BY <2>1, <2>2, <2>3
<1>15. InRowOrder'
  <2> SUFFICES ASSUME NEW d \in Commands, NEW q \in ToolProviders, command'[d].at = "fill",
                      writer'[q] = d, NEW o \in command'[d].todo
               PROVE  q < o
    BY DEF InRowOrder
  <2>1. CASE d # c
    BY <1>4, <1>7, <2>1 DEF InRowOrder
  <2>2. CASE d = c /\ q = p
    BY <1>1, <1>3, <1>4, <2>2
  <2>3. CASE d = c /\ q # p
    BY <1>3, <1>4, <1>6, <2>3 DEF InRowOrder
  <2> QED  BY <2>1, <2>2, <2>3
<1>16. UpsertedSoFar'
  <2>0. ASSUME NEW d \in Commands, command'[d].at = "upsert"
        PROVE  command'[d].todo \subseteq Asked(d)
    <3>1. command[d].at = "upsert" /\ command'[d].todo \subseteq command[d].todo
      BY <1>3, <1>4, <2>0
    <3> QED  BY <3>1 DEF UpsertedSoFar
  <2> SUFFICES ASSUME NEW d \in Commands, NEW q \in ToolProviders,
                      command'[d].at \in {"upsert", "commit"}, q \in Asked(d), q \notin command'[d].todo
               PROVE  writer'[q] = d
    BY <1>4, <2>0 DEF UpsertedSoFar, Asked
  <2>1. CASE d # c
    BY <1>4, <1>7, <2>1 DEF UpsertedSoFar, Asked
  <2>2. CASE d = c /\ q = p
    BY <1>3, <1>4, <1>6, <2>2
  <2>3. CASE d = c /\ q # p
    BY <1>3, <1>4, <1>8, <2>3 DEF UpsertedSoFar
  <2> QED  BY <2>1, <2>2, <2>3
<1> QED  BY <1>9, <1>10, <1>11, <1>12, <1>13, <1>14, <1>15, <1>16

LEMMA FillRowKeeps ==
  ASSUME AllowlistIInv, NEW c \in Commands, FillRow(c)
  PROVE  AllowlistIInv'
<1> DEFINE p == InOrder(c)
<1>1. /\ command[c].at = "fill" /\ command[c].todo # {} /\ Writable(p, c)
      /\ IF DoNothing(p, c) THEN Write(p, c, Wish(c, p)) ELSE UNCHANGED <<written, writer>>
      /\ command' = [command EXCEPT ![c].todo = @ \ {p}]
      /\ UNCHANGED <<enabled, locked, decided>>
  BY DEF FillRow
<1>2. p \in ToolProviders
  BY <1>1, NextRow DEF AllowlistIInv
<1>3. DoNothing(p, c) => enabled[p] = Unset
  <2>1. writer[p] = c => written[p] \in BOOLEAN
    BY <1>2 DEF AllowlistIInv, WritesOwn, Wish
  <2> QED  BY <2>1, AllowlistAssumption DEF DoNothing, RowOf
<1>4. ~DoNothing(p, c) => writer[p] = c \/ enabled[p] # Unset
  BY DEF DoNothing, RowOf
<1> HIDE DEF p
<1>5. p = InOrder(c)
  BY DEF p
<1> QED  BY <1>1, <1>3, <1>4, <1>5, RowKeeps

LEMMA UpsertRowKeeps ==
  ASSUME AllowlistIInv, NEW c \in Commands, UpsertRow(c)
  PROVE  AllowlistIInv'
<1> DEFINE p == InOrder(c)
<1>1. /\ command[c].at = "upsert" /\ command[c].todo # {} /\ Writable(p, c)
      /\ Write(p, c, Wish(c, p))
      /\ command' = [command EXCEPT ![c].todo = @ \ {p}]
      /\ UNCHANGED <<enabled, locked, decided>>
  BY DEF UpsertRow
<1>2. p \in command[c].todo
  BY <1>1, NextRow DEF AllowlistIInv
<1>3. p \in Asked(c)
  BY <1>1, <1>2 DEF AllowlistIInv, LocksHeld, UpsertedSoFar
<1> HIDE DEF p
<1>4. p = InOrder(c)
  BY DEF p
<1> QED  BY <1>1, <1>3, <1>4, RowKeeps

(* What a command commits is what it wants, of all it still wanted and of  *)
(* nothing else that was there.                                            *)
LEMMA CommitKeeps ==
  ASSUME AllowlistIInv, NEW c \in Commands, CommitCommand(c)
  PROVE  AllowlistIInv'
<1> USE DEF AllowlistIInv
<1>1. /\ command[c].at = "commit" /\ command[c].todo = {} /\ CloseTxn(c)
      /\ enabled' = [p \in ToolProviders |-> IF p \in Mine(c) THEN written[p] ELSE enabled[p]]
      /\ decided' = [p \in ToolProviders |-> IF p \in Asked(c) THEN Wish(c, p) ELSE decided[p]]
  BY DEF CommitCommand, LocksHeld
<1>2. \A p \in ToolProviders :
        /\ p \in Mine(c) => written[p] = Wish(c, p) /\ (enabled[p] # Unset => p \in Asked(c))
        /\ p \in Asked(c) => p \in Mine(c)
        /\ p \in Mine(c) \/ enabled[p] # Unset
        /\ Wish(c, p) \in BOOLEAN /\ (Wish(c, p) => p \in Asked(c))
  BY <1>1, AllowlistAssumption DEF Mine, WritesOwn, UpsertedSoFar, FilledSoFar, Wish, Asked
<1>3. \A p \in ToolProviders :
        /\ enabled'[p] = IF p \in Mine(c) THEN written[p] ELSE enabled[p]
        /\ decided'[p] = IF p \in Asked(c) THEN Wish(c, p) ELSE decided[p]
  BY <1>1
<1>4. /\ enabled' \in [ToolProviders -> BOOLEAN \union {Unset}]
      /\ decided' \in [ToolProviders -> BOOLEAN]
  BY <1>1, <1>2 DEF AllowlistTypeOK
<1>5. \A p \in ToolProviders : enabled'[p] # Unset
  BY <1>2, <1>3, AllowlistAssumption
<1>6. LastCommandRules'
  <2> SUFFICES ASSUME NEW p \in ToolProviders
               PROVE  enabled'[p] = TRUE <=> decided'[p]
    BY DEF LastCommandRules, IsEnabled
  <2>1. CASE p \in Asked(c)
    BY <1>2, <1>3, <2>1
  <2>2. CASE p \notin Asked(c) /\ p \in Mine(c)
    <3>1. enabled[p] = Unset /\ ~Wish(c, p)
      BY <1>2, <2>2
    <3>2. ~decided[p]
      BY <3>1, AllowlistAssumption DEF LastCommandRules, IsEnabled
    <3> QED  BY <1>2, <1>3, <2>2, <3>1, <3>2
  <2>3. CASE p \notin Asked(c) /\ p \notin Mine(c)
    BY <1>3, <2>3 DEF LastCommandRules, IsEnabled
  <2> QED  BY <2>1, <2>2, <2>3
<1>7. \A p \in ToolProviders : writer[p] # c => enabled'[p] = enabled[p]
  BY <1>3 DEF Mine
<1>8. AllOrNone'
  BY <1>5 DEF AllOrNone
<1> QED  BY <1>1, <1>4, <1>5, <1>6, <1>7, <1>8, EndKeeps DEF CloseTxn

LEMMA RollBackKeeps ==
  ASSUME AllowlistIInv, NEW c \in Commands, RollBack(c)
  PROVE  AllowlistIInv'
<1> USE DEF AllowlistIInv
<1>1. CloseTxn(c) /\ UNCHANGED <<enabled, decided>>
  BY DEF RollBack
<1>2. LastCommandRules' /\ AllOrNone'
  BY <1>1 DEF LastCommandRules, IsEnabled, AllOrNone, Configured
<1> QED  BY <1>1, <1>2, EndKeeps DEF CloseTxn, AllowlistTypeOK

LEMMA AllowlistInitially == AllowlistInit => AllowlistIInv
<1> SUFFICES ASSUME AllowlistInit
             PROVE  AllowlistIInv
  OBVIOUS
<1> DEFINE x == [at |-> "new", changes |-> NoChange, todo |-> {}]
<1>1. x \in CommandStates /\ x.at = "new" /\ x.todo = {} /\ \A p \in ToolProviders : x.changes[p] = Unset
  BY DEF CommandStates, NoChange
<1>2. command = [c \in Commands |-> x]
  BY DEF AllowlistInit
<1> HIDE DEF x
<1>3. /\ command \in [Commands -> CommandStates] /\ \A c \in Commands : command[c] = x
      /\ \A c \in Commands : Asked(c) = {}
  BY <1>1, <1>2 DEF Asked
<1>4. AllowlistTypeOK
  BY <1>3 DEF AllowlistInit, AllowlistTypeOK, CommandStates
<1>5. \A p \in ToolProviders, c \in Commands : writer[p] # c /\ writer[p] = Free
  BY AllowlistAssumption DEF AllowlistInit
<1>6. LastCommandRules /\ AllOrNone /\ NoHalfRow
  BY AllowlistAssumption
  DEF AllowlistInit, LastCommandRules, IsEnabled, AllOrNone, Configured, NoHalfRow
<1>7. LocksHeld /\ WritesOwn /\ FilledSoFar /\ InRowOrder /\ UpsertedSoFar
  BY <1>1, <1>3, <1>5 DEF LocksHeld, WritesOwn, FilledSoFar, InRowOrder, UpsertedSoFar
<1> QED  BY <1>4, <1>6, <1>7 DEF AllowlistIInv

(* An upserter never waits: each row it comes to is its own or committed,  *)
(* and who writes over a committed row has its lock.                       *)
LEMMA UpserterGoesOn ==
  ASSUME AllowlistIInv, NEW c \in Commands, command[c].at = "upsert", command[c].todo # {}
  PROVE  Writable(InOrder(c), c)
<1> USE DEF AllowlistIInv
<1> DEFINE p == InOrder(c)
<1>1. p \in command[c].todo /\ p \in ToolProviders
  BY NextRow
<1> HIDE DEF p
<1>2. p \in Asked(c) /\ locked[p] = c
  BY <1>1 DEF UpsertedSoFar, LocksHeld
<1>3. writer[p] = c \/ enabled[p] # Unset
  BY <1>1 DEF FilledSoFar
<1>4. CASE writer[p] \in Commands /\ writer[p] # c
  <2>1. p \in Asked(writer[p])
    BY <1>1, <1>3, <1>4 DEF WritesOwn
  <2>2. locked[p] = writer[p]
    BY <1>1, <1>4, <2>1 DEF LocksHeld
  <2> QED  BY <1>2, <1>4, <2>2
<1>5. writer[p] \in Commands \union {Free}
  BY <1>1 DEF AllowlistTypeOK
<1> QED  BY <1>4, <1>5 DEF Writable, p

(* Of the commands at work, the filler whose next row is the last in the   *)
(* order waits for nobody that waits.                                      *)
LEMMA SomeCommandGoesOn == AllowlistIInv => NoRowCycle
<1> SUFFICES ASSUME AllowlistIInv, Active # {}, \A c \in Active : Stuck(c)
             PROVE  FALSE
  BY DEF NoRowCycle
<1> USE DEF AllowlistIInv
<1>1. \A c \in Active : c \in Commands /\ command[c].at = "fill" /\ command[c].todo # {}
                        /\ ~Writable(InOrder(c), c)
  BY UpserterGoesOn DEF Active, Stuck
<1>2. \A c \in Active : InOrder(c) \in command[c].todo /\ InOrder(c) \in ToolProviders
  BY <1>1, NextRow
<1> DEFINE nexts == {InOrder(c) : c \in Active}
<1>3. nexts \subseteq Nat /\ nexts # {} /\ IsFiniteSet(nexts)
  <2>1. nexts \subseteq ToolProviders /\ nexts # {}
    BY <1>2
  <2> HIDE DEF nexts
  <2> QED  BY <2>1, AllowlistAssumption, FS_Subset
<1>4. PICK c \in Active : \A d \in Active : InOrder(d) <= InOrder(c)
  <2>1. PICK n \in nexts : \A m \in nexts : m <= n
    BY <1>3, GreatestOf
  <2> QED  BY <2>1
<1> DEFINE d == writer[InOrder(c)]
<1>5. d \in Commands /\ d # c
  BY <1>1, <1>2, <1>4 DEF Writable, AllowlistTypeOK
<1>6. command[d].at \in {"fill", "upsert", "commit"}
  BY <1>2, <1>4, <1>5 DEF LocksHeld
<1>7. d \in Active
  BY <1>5, <1>6 DEF Active
<1>8. InOrder(c) < InOrder(d)
  BY <1>1, <1>2, <1>4, <1>5, <1>7 DEF InRowOrder
<1>9. InOrder(c) \in Nat /\ InOrder(d) \in Nat /\ InOrder(d) <= InOrder(c)
  BY <1>2, <1>4, <1>7, AllowlistAssumption
<1> QED  BY <1>8, <1>9

(* A provider is on exactly when the last committed command about it said  *)
(* so, and writers of one channel never wait for each other in a circle    *)
(* (applyEnabled, configureChannelTools).                                  *)
THEOREM AllowlistHolds == AllowlistSpec => []AllowlistInv
<1>1. AllowlistIInv /\ [AllowlistNext]_allowlistVars => AllowlistIInv'
  <2> SUFFICES ASSUME AllowlistIInv, [AllowlistNext]_allowlistVars
               PROVE  AllowlistIInv'
    OBVIOUS
  <2>1. CASE UNCHANGED allowlistVars
    <3>1. UNCHANGED <<enabled, written, writer, locked, command, decided>>
      BY <2>1 DEF allowlistVars
    <3>2. \A c : Asked(c)' = Asked(c) /\ \A p : Wish(c, p)' = Wish(c, p)
      BY <3>1 DEF Asked, Wish
    <3>3. AllowlistTypeOK' /\ LastCommandRules' /\ AllOrNone' /\ NoHalfRow'
      BY <3>1
      DEF AllowlistIInv, AllowlistTypeOK, LastCommandRules, IsEnabled, AllOrNone, Configured, NoHalfRow
    <3>4. LocksHeld' /\ WritesOwn' /\ FilledSoFar' /\ InRowOrder' /\ UpsertedSoFar'
      BY <3>1, <3>2
      DEF AllowlistIInv, LocksHeld, WritesOwn, FilledSoFar, InRowOrder, UpsertedSoFar
    <3> QED  BY <3>3, <3>4 DEF AllowlistIInv
  <2> QED
    BY <2>1, LockCommandKeeps, CompareKeeps, FillRowKeeps, FilledKeeps, UpsertRowKeeps,
       UpsertedKeeps, CommitKeeps, RollBackKeeps DEF AllowlistNext
<1>2. AllowlistIInv => AllowlistInv
  BY SomeCommandGoesOn DEF AllowlistIInv, AllowlistInv
<1> QED  BY <1>1, <1>2, AllowlistInitially, PTL DEF AllowlistSpec

(***************************************************************************)
(* Advisory locks                                                          *)
(***************************************************************************)

(* Of a transaction that takes a lock: which one. *)
LEMMA NextOfBatch ==
  ASSUME LocksTypeOK, NEW t \in Txns, wanted[t] # {}
  PROVE  /\ Canonical(t) \in wanted[t] /\ Canonical(t) \in LockKeys
         /\ \A k \in wanted[t] : Canonical(t) <= k
<1>1. wanted[t] \subseteq Nat /\ wanted[t] \subseteq LockKeys
  BY LocksAssumption DEF LocksTypeOK
<1> QED  BY <1>1, MinIs DEF Canonical

(* The connection of a transaction is made, and what is held stands. *)
LEMMA ConnectKeepsOrder ==
  ASSUME LocksIInv, NEW t \in Txns, Connect(t)
  PROVE  LocksIInv'
<1>1. /\ client[t] = "none" /\ UNCHANGED <<batch, wanted, holder>>
      /\ client' = [client EXCEPT ![t] =
           IF Cardinality(Open) < PoolSize THEN "open" ELSE "rolled back"]
  BY DEF Connect
<1>2. /\ client' \in [Txns -> {"none", "open", "committed", "rolled back"}]
      /\ \A u \in Txns : u # t => client'[u] = client[u]
  BY <1>1 DEF LocksIInv, LocksTypeOK
<1>3. LocksTypeOK'
  BY <1>1, <1>2 DEF LocksIInv, LocksTypeOK
<1>4. IsFiniteSet(Open')
  <2>1. Open' \subseteq Open \union {t}
    BY <1>2 DEF Open
  <2>2. IsFiniteSet(Open \union {t})
    BY FS_AddElement DEF LocksIInv
  <2> QED  BY <2>1, <2>2, FS_Subset
<1>5. WantsLastBatch'
  BY <1>1, <1>2 DEF LocksIInv, WantsLastBatch
<1>6. HoldsInOrder'
  <2> SUFFICES ASSUME NEW u \in Txns, NEW k \in LockKeys, holder[HashText[k]] = u
               PROVE  client'[u] = "open"
    BY <1>1 DEF LocksIInv, HoldsInOrder
  <2>1. client[u] = "open"
    BY DEF LocksIInv, HoldsInOrder
  <2> QED  BY <1>1, <1>2, <2>1
<1> QED  BY <1>3, <1>4, <1>5, <1>6 DEF LocksIInv

(* A nested batch comes after all that is held. *)
LEMMA NestKeepsOrder ==
  ASSUME LocksIInv, NestedInOrder, NEW t \in Txns, Nest(t)
  PROVE  LocksIInv'
<1> DEFINE next == batch[t] + 1
           keys == Batches[t][next]
<1>1. /\ client[t] = "open" /\ wanted[t] = {} /\ batch[t] < Len(Batches[t])
      /\ batch' = [batch EXCEPT ![t] = next] /\ wanted' = [wanted EXCEPT ![t] = keys]
      /\ UNCHANGED <<client, holder>>
  BY DEF Nest
<1>2. /\ batch[t] \in Nat /\ DOMAIN Batches[t] = 1..Len(Batches[t]) /\ Len(Batches[t]) \in Nat
      /\ next \in 1..Len(Batches[t]) /\ keys \subseteq LockKeys
  <2> DEFINE b == Batches[t]
  <2>1. b \in Seq(SUBSET LockKeys) /\ batch[t] \in Nat
    BY LocksAssumption DEF LocksIInv, LocksTypeOK
  <2>2. Len(b) \in Nat /\ next \in 1..Len(b) /\ DOMAIN b = 1..Len(b)
    BY <1>1, <2>1
  <2>3. b[next] \subseteq LockKeys
    BY <2>1, <2>2
  <2> QED  BY <2>1, <2>2, <2>3
<1> HIDE DEF next, keys
<1>3. /\ batch' \in [Txns -> Nat] /\ batch'[t] = next
      /\ wanted' \in [Txns -> SUBSET LockKeys] /\ wanted'[t] = keys
      /\ \A u \in Txns : u # t => batch'[u] = batch[u] /\ wanted'[u] = wanted[u]
  <2>1. batch \in [Txns -> Nat] /\ wanted \in [Txns -> SUBSET LockKeys]
    BY DEF LocksIInv, LocksTypeOK
  <2>2. next \in Nat /\ keys \in SUBSET LockKeys
    BY <1>2
  <2> QED  BY <1>1, <2>1, <2>2
<1>4. LocksTypeOK'
  <2>1. ASSUME NEW u \in Txns
        PROVE  batch'[u] <= Len(Batches[u])
    <3>1. batch[u] <= Len(Batches[u])
      BY DEF LocksIInv, LocksTypeOK
    <3>2. next <= Len(Batches[t])
      BY <1>2
    <3> QED  BY <1>3, <3>1, <3>2
  <2> QED  BY <1>1, <1>3, <2>1 DEF LocksIInv, LocksTypeOK
<1>5. IsFiniteSet(Open')
  BY <1>1 DEF LocksIInv, Open
<1>6. WantsLastBatch'
  BY <1>1, <1>2, <1>3 DEF LocksIInv, WantsLastBatch, keys
<1>7. HoldsInOrder'
  <2> SUFFICES ASSUME NEW u \in Txns, NEW k \in LockKeys, holder[HashText[k]] = u
               PROVE  /\ client[u] = "open"
                      /\ \E m \in 1..batch'[u] : k \in Batches[u][m]
                      /\ \A j \in wanted'[u] : k < j
    BY <1>1 DEF HoldsInOrder
  <2>1. /\ client[u] = "open" /\ \A j \in wanted[u] : k < j
    BY DEF LocksIInv, HoldsInOrder
  <2>2. PICK m \in 1..batch[u] : k \in Batches[u][m]
    BY DEF LocksIInv, HoldsInOrder
  <2>3. CASE u = t
    <3>1. m \in 1..next /\ m < next /\ m \in DOMAIN Batches[t] /\ next \in DOMAIN Batches[t]
      BY <1>2, <2>2, <2>3 DEF next
    <3>2. \A j \in keys : k < j
      BY <2>2, <2>3, <3>1 DEF NestedInOrder, keys
    <3> QED  BY <1>3, <2>1, <2>2, <2>3, <3>1, <3>2
  <2>4. CASE u # t
    BY <1>3, <2>1, <2>2, <2>4
  <2> QED  BY <2>3, <2>4
<1> QED  BY <1>4, <1>5, <1>6, <1>7 DEF LocksIInv

(* The next lock of a batch comes after all that is held, and before the   *)
(* rest of the batch.                                                      *)
LEMMA GrantKeepsOrder ==
  ASSUME LocksIInv, HashesApart, NEW t \in Txns, Grant(t)
  PROVE  LocksIInv'
<1> DEFINE key == Canonical(t)
<1>1. /\ client[t] = "open" /\ wanted[t] # {} /\ holder[HashText[key]] \in {Nobody, t}
      /\ holder' = [holder EXCEPT ![HashText[key]] = t]
      /\ wanted' = [wanted EXCEPT ![t] = wanted[t] \ {key}]
      /\ UNCHANGED <<client, batch>>
  BY DEF Grant, NextLock
<1>2. key \in wanted[t] /\ key \in LockKeys /\ \A k \in wanted[t] : key <= k
  BY <1>1, NextOfBatch DEF LocksIInv
<1> HIDE DEF key
<1>3. HashText[key] \in LockNumbers
  BY <1>2 DEF LockNumbers
<1>4. /\ holder' \in [LockNumbers -> Txns \union {Nobody}] /\ holder'[HashText[key]] = t
      /\ \A n \in LockNumbers : n # HashText[key] => holder'[n] = holder[n]
      /\ wanted' \in [Txns -> SUBSET LockKeys] /\ wanted'[t] = wanted[t] \ {key}
      /\ \A u \in Txns : u # t => wanted'[u] = wanted[u]
  BY <1>1, <1>3 DEF LocksIInv, LocksTypeOK
<1>5. LocksTypeOK'
  BY <1>1, <1>4 DEF LocksIInv, LocksTypeOK
<1>6. IsFiniteSet(Open')
  BY <1>1 DEF LocksIInv, Open
<1>7. WantsLastBatch'
  BY <1>1, <1>4 DEF LocksIInv, WantsLastBatch
<1>8. HoldsInOrder'
  <2> SUFFICES ASSUME NEW u \in Txns, NEW k \in LockKeys, holder'[HashText[k]] = u
               PROVE  /\ client[u] = "open"
                      /\ \E m \in 1..batch[u] : k \in Batches[u][m]
                      /\ \A j \in wanted'[u] : k < j
    BY <1>1 DEF HoldsInOrder
  <2>1. CASE k = key
    <3>1. u = t
      BY <1>4, <2>1
    <3>2. batch[t] \in Nat /\ batch[t] # 0 /\ key \in Batches[t][batch[t]]
      <4>1. batch[t] \in Nat
        BY DEF LocksIInv, LocksTypeOK
      <4>2. batch[t] # 0 /\ wanted[t] \subseteq Batches[t][batch[t]]
        BY <1>1 DEF LocksIInv, WantsLastBatch
      <4> QED  BY <1>2, <4>1, <4>2
    <3>3. \A j \in wanted'[t] : j \in Nat /\ key \in Nat /\ key <= j /\ j # key
      BY <1>2, <1>4, LocksAssumption DEF LocksIInv, LocksTypeOK
    <3>4. \A j \in wanted'[t] : key < j
      BY <3>3
    <3>5. batch[t] \in 1..batch[t]
      BY <3>2
    <3> QED  BY <1>1, <2>1, <3>1, <3>2, <3>4, <3>5
  <2>2. CASE k # key
    <3>1. HashText[k] # HashText[key] /\ HashText[k] \in LockNumbers
      BY <1>2, <2>2 DEF HashesApart, LockNumbers
    <3>2. holder[HashText[k]] = u
      BY <1>4, <3>1
    <3>3. wanted'[u] \subseteq wanted[u]
      BY <1>4
    <3> QED  BY <3>2, <3>3 DEF LocksIInv, HoldsInOrder
  <2> QED  BY <2>1, <2>2
<1> QED  BY <1>5, <1>6, <1>7, <1>8 DEF LocksIInv

(* The end of a transaction leaves nothing of it behind. *)
LEMMA EndKeepsOrder ==
  ASSUME LocksIInv, NEW t \in Txns, EndTxn(t)
  PROVE  LocksIInv'
<1>1. PICK how \in {"committed", "rolled back"} : client' = [client EXCEPT ![t] = how]
  BY DEF EndTxn
<1>2. /\ wanted[t] = {} /\ UNCHANGED <<batch, wanted>>
      /\ holder' = [n \in LockNumbers |-> IF holder[n] = t THEN Nobody ELSE holder[n]]
  BY DEF EndTxn
<1>3. /\ client' \in [Txns -> {"none", "open", "committed", "rolled back"}]
      /\ \A u \in Txns : u # t => client'[u] = client[u]
      /\ client'[t] # "open"
  BY <1>1 DEF LocksIInv, LocksTypeOK
<1>4. LocksTypeOK'
  BY <1>2, <1>3 DEF LocksIInv, LocksTypeOK
<1>5. IsFiniteSet(Open')
  <2>1. Open' \subseteq Open
    BY <1>3 DEF Open
  <2> QED  BY <2>1, FS_Subset DEF LocksIInv
<1>6. WantsLastBatch'
  BY <1>2, <1>3 DEF LocksIInv, WantsLastBatch
<1>7. HoldsInOrder'
  <2> SUFFICES ASSUME NEW u \in Txns, NEW k \in LockKeys, holder'[HashText[k]] = u
               PROVE  /\ client'[u] = "open"
                      /\ \E m \in 1..batch[u] : k \in Batches[u][m]
                      /\ \A j \in wanted[u] : k < j
    BY <1>2 DEF HoldsInOrder
  <2>1. HashText[k] \in LockNumbers /\ u # Nobody
    BY LocksAssumption DEF LockNumbers
  <2>2. holder[HashText[k]] = u /\ u # t
    BY <1>2, <2>1
  <2> QED  BY <1>3, <2>2 DEF LocksIInv, HoldsInOrder
<1> QED  BY <1>4, <1>5, <1>6, <1>7 DEF LocksIInv

(* Of the open transactions, the one whose next lock is the last in the    *)
(* order waits for nobody that waits.                                      *)
LEMMA SomeoneGoesOn == LocksIInv => NoLockCycle
<1> SUFFICES ASSUME LocksIInv, Open # {}, \A t \in Open : Waiting(t)
             PROVE  FALSE
  BY DEF NoLockCycle
<1>0. LockKeys \subseteq Nat
  BY LocksAssumption
<1> DEFINE nexts == {Canonical(t) : t \in Open}
<1>1. \A t \in Open : t \in Txns /\ wanted[t] # {} /\ holder[NextLock(t)] \notin {Nobody, t}
  BY DEF Open, Waiting
<1>2. \A t \in Open : Canonical(t) \in wanted[t] /\ Canonical(t) \in LockKeys
  BY <1>1, NextOfBatch DEF LocksIInv
<1>3. nexts \subseteq Nat /\ nexts # {} /\ IsFiniteSet(nexts)
  <2>1. IsFiniteSet(nexts)
    <3> DEFINE f == [t \in Open |-> Canonical(t)]
    <3>1. f \in Surjection(Open, nexts)
      BY DEF Surjection
    <3> QED  BY <3>1, FS_Surjection DEF LocksIInv
  <2>2. nexts # {}
    OBVIOUS
  <2>3. \A t \in Open : Canonical(t) \in Nat
    BY <1>0, <1>2
  <2>4. nexts \subseteq Nat
    BY <2>3
  <2> QED  BY <2>1, <2>2, <2>4
<1>4. PICK t \in Open : \A u \in Open : Canonical(u) <= Canonical(t)
  <2>1. PICK n \in nexts : \A m \in nexts : m <= n
    BY <1>3, GreatestOf
  <2> QED  BY <2>1
<1> DEFINE u == holder[NextLock(t)]
<1>5. u \in Txns /\ HashText[Canonical(t)] \in LockNumbers
  BY <1>1, <1>2, <1>4 DEF LocksIInv, LocksTypeOK, NextLock, LockNumbers
<1>6. u \in Open /\ \A j \in wanted[u] : Canonical(t) < j
  BY <1>2, <1>4, <1>5 DEF LocksIInv, HoldsInOrder, Open, NextLock
<1>7. Canonical(t) < Canonical(u) /\ Canonical(u) <= Canonical(t)
  BY <1>2, <1>4, <1>6
<1>8. Canonical(t) \in Nat /\ Canonical(u) \in Nat
  BY <1>0, <1>2, <1>4, <1>6
<1> QED  BY <1>7, <1>8

(* Multi-key writers never wait for each other in a circle, however their  *)
(* batches overlap and nest, as long as no two names share a lock number   *)
(* (withRefreshLocks, acquireXactLocks).                                   *)
THEOREM NoLockCycleForms ==
  ASSUME HashesApart, NestedInOrder
  PROVE  LocksSpec => []LocksInv
<1>1. LocksInit => LocksIInv
  <2> SUFFICES ASSUME LocksInit
               PROVE  LocksIInv
    OBVIOUS
  <2>1. LocksTypeOK
    BY LocksAssumption DEF LocksInit, LocksTypeOK
  <2>2. Open = {}
    BY DEF LocksInit, Open
  <2>3. \A k \in LockKeys : holder[HashText[k]] = Nobody
    BY DEF LocksInit, LockNumbers
  <2> QED
    BY <2>1, <2>2, <2>3, FS_EmptySet, LocksAssumption
    DEF LocksInit, LocksIInv, WantsLastBatch, HoldsInOrder
<1>2. LocksIInv /\ [LocksNext]_locksVars => LocksIInv'
  <2> SUFFICES ASSUME LocksIInv, [LocksNext]_locksVars
               PROVE  LocksIInv'
    OBVIOUS
  <2>1. CASE UNCHANGED locksVars
    <3>1. UNCHANGED <<client, batch, wanted, holder>>
      BY <2>1 DEF locksVars
    <3>2. LocksTypeOK' /\ IsFiniteSet(Open')
      BY <3>1 DEF LocksIInv, LocksTypeOK, Open
    <3>3. WantsLastBatch' /\ HoldsInOrder'
      BY <3>1 DEF LocksIInv, WantsLastBatch, HoldsInOrder
    <3> QED  BY <3>2, <3>3 DEF LocksIInv
  <2> QED
    BY <2>1, ConnectKeepsOrder, NestKeepsOrder, GrantKeepsOrder, EndKeepsOrder DEF LocksNext
<1>3. LocksIInv => LocksInv
  BY SomeoneGoesOn DEF LocksIInv, LocksInv
<1> QED  BY <1>1, <1>2, <1>3, PTL DEF LocksSpec
=============================================================================
