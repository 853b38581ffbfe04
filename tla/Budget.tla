------------------------------- MODULE Budget -------------------------------
(***************************************************************************)
(* What the per-(owner, provider) rate limit promises (core/rateLimit.ts,  *)
(* the contract of RateLimitStore): a budget that starts full, is refilled *)
(* at every tick of the clock and never exceeds its capacity.              *)
(***************************************************************************)
EXTENDS Naturals

CONSTANTS
  Keys,        \* owner and provider pairs
  Capacity,    \* per key: the burst, in units
  Refill,      \* per key: the units one tick adds
  Cost         \* the units one request costs

VARIABLE level   \* per key: the units left

Least(a, b) == IF a <= b THEN a ELSE b

BudgetTypeOK == level \in [Keys -> Nat]

BudgetInit == level = [k \in Keys |-> Capacity[k]]

(* One tick of the clock. *)
Replenish == level' = [k \in Keys |-> Least(Capacity[k], level[k] + Refill[k])]

Affordable(k) == level[k] >= Cost

Spend(k) == Affordable(k) /\ level' = [level EXCEPT ![k] = @ - Cost]

BudgetNext == Replenish \/ \E k \in Keys : Spend(k)

BudgetSpec == BudgetInit /\ [][BudgetNext]_level
=============================================================================
