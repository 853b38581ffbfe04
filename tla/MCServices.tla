----------------------------- MODULE MCServices -----------------------------
(***************************************************************************)
(* Small instances of the six protocols that share no state with each      *)
(* other, for one run of TLC: a behaviour is one of a single protocol, and *)
(* the others rest in their initial states.                                *)
(***************************************************************************)
EXTENDS ServicesInv, TLC

VARIABLE protocol

Protocols == {"rateLimit", "delivery", "rekey", "health", "allowlist", "locks"}

Init ==
  /\ protocol \in Protocols
  /\ RateLimitInit /\ DeliveryInit /\ RekeyInit /\ HealthInit /\ AllowlistInit /\ LocksInit

Rests(p) ==
  CASE p = "rateLimit" -> UNCHANGED rateLimitVars
    [] p = "delivery" -> UNCHANGED deliveryVars
    [] p = "rekey" -> UNCHANGED rekeyVars
    [] p = "health" -> UNCHANGED healthVars
    [] p = "allowlist" -> UNCHANGED allowlistVars
    [] p = "locks" -> UNCHANGED locksVars

Alone(p) == protocol = p /\ UNCHANGED protocol /\ \A q \in Protocols \ {p} : Rests(q)

Next ==
  \/ Alone("rateLimit") /\ RateLimitNext
  \/ Alone("delivery") /\ DeliveryNext
  \/ Alone("rekey") /\ RekeyNext
  \/ Alone("health") /\ HealthNext
  \/ Alone("allowlist") /\ AllowlistNext
  \/ Alone("locks") /\ LocksNext

vars == <<protocol, rateLimitVars, deliveryVars, rekeyVars, healthVars, allowlistVars, locksVars>>

Spec == Init /\ [][Next]_vars

(* Two keys that refill at different rates. *)
BurstOf == <<3, 4>>
RefillOf == <<1, 2>>

Sealed(key) == [key |-> key, version |-> 0]

(* Per id: no row yet, and one whose two tokens are under the old key. *)
BeforeRekey == <<NoRow, [access |-> Sealed("old"), refresh |-> Sealed("old")]>>

(* Overlapping batches nested up to three deep, and names the hash tells    *)
(* apart: credential keys 1 to 3, a revocation key and an offboard key.     *)
Nested ==
  <<<<{1, 2}, {4}>>, <<{2, 3}, {4}, {5}>>, <<{1, 2, 3}, {5}>>, <<{1, 3}, {4}, {5}>>>>
Apart == [k \in LockKeys |-> 10 - k]

(* The hypotheses of NoLockCycleForms, of the instance. *)
ASSUME LocksInstance == HashesApart /\ NestedInOrder
=============================================================================
