---------------------------- MODULE ServicesInv ----------------------------
(***************************************************************************)
(* The inductive invariants of the small protocols that share no state:    *)
(* what each of them keeps at every step, from which the invariant that its*)
(* code is there for follows.                                              *)
(***************************************************************************)
EXTENDS RateLimit, Delivery, Rekey, Health, Allowlist, Locks, FiniteSets

(***************************************************************************)
(* Rate limiting                                                           *)
(***************************************************************************)

(* What was granted before a tick stands; of the ticks to come nothing is known yet. *)
GrantsCounted ==
  /\ granted \in [Keys -> [0..(MaxClock + 1) -> Nat]]
  /\ \A k \in Keys : \A t \in (clock + 1)..(MaxClock + 1) : granted[k][t] = granted[k][clock + 1]

(* What was spent since a tick, and what is left, is no more than what the *)
(* bucket can have held then and was refilled since.                       *)
PaidFor ==
  \A k \in Keys : \A from \in 0..clock :
    GrantedIn(k, from, clock) * Cost + LevelAt(k, buckets[k], clock)
      <= Capacity[k] + (clock - from) * Refill[k]

(* The denied key has the bucket its denial left. *)
DeniedBucket ==
  \A d \in denied :
    /\ d.key \in Keys
    /\ buckets[d.key] # NoBucket
    /\ buckets[d.key].tokens < Cost
    /\ d.wait = RetryAfter(d.key, buckets[d.key].tokens)

RateLimitIInv == RateLimitTypeOK /\ GrantsCounted /\ PaidFor /\ WithinBudget /\ DeniedBucket

(***************************************************************************)
(* Prompt delivery                                                         *)
(***************************************************************************)

Approval == request.table = "approval"

(* Until the first request there is nothing, and only a Connect link is    *)
(* ever renewed.                                                           *)
BeforeRequest ==
  /\ request.status = "none" =>
       /\ request.token = NoTurn
       /\ shown = {}
       /\ \A t \in Turns : at[t] = "idle" /\ plan[t] = NoPlan
  /\ \A t \in Turns : plan[t].renew => request.table = "consent"
  /\ \A t \in Turns : at[t] = "idle" => ~plan[t].renew

(* The turn the row names took the lease and has not given it back.        *)
Holder ==
  \A t \in Turns : request.token = t =>
    /\ ~request.delivered
    /\ at[t] \in Leased => request.audience = plan[t].approver
    /\ at[t] \in Leased \union {"done"}
    /\ at[t] = "done" => ~Live \/ t \in fault

(* While a turn may still post, the lease is its own and outlasts the post. *)
LeaseOutlasts ==
  \A t \in Turns :
    /\ at[t] = "claimed" =>
         request.token = t /\ request.lease >= bound[t] + PostBound + PostDeadline
    /\ Posting(t) =>
         request.token = t /\ request.lease >= bound[t] + PostDeadline

(* The budget of an approval prompt leaves time to confirm as well.        *)
BudgetReserves ==
  Approval => \A t \in Turns :
    /\ at[t] = "claimed" /\ budget[t] > 0 =>
         request.lease >= Lease - PostDeadline + budget[t]
    /\ at[t] = "posting" => request.lease >= bound[t] + DbBound + 1
    /\ at[t] = "confirm" => request.token = t /\ request.lease >= bound[t] + 1

(* A prompt whose turn knows it is up leaves no room for another.          *)
UpForGood ==
  Approval /\ ~switched =>
    \A s \in Sure : Durable(s.audience) =>
      /\ at[s.turn] \in {"confirm", "done"}
      /\ at[s.turn] = "confirm" => s.audience = plan[s.turn].approver
      /\ at[s.turn] = "done" => ~Live \/ (request.delivered /\ request.audience = s.audience)
      /\ \A u \in Turns \ {s.turn} : at[u] \notin {"claimed", "posting"}

DeliveryIInv ==
  /\ DeliveryTypeOK
  /\ BeforeRequest /\ Holder /\ LeaseOutlasts /\ BudgetReserves /\ UpForGood /\ PostedOnce

(***************************************************************************)
(* Credential health                                                       *)
(***************************************************************************)

(* A message that is on its way, or arrived. *)
Heard(e) == notice[e].at = "sending" \/ e \in told

HeardInOrder(e) == Heard(e) /\ ~notice[e].late

(* A later claim began when the window of this one was over. *)
Overtaken(e) ==
  \E k \in Events : /\ Claimed(k) /\ notice[k].of = notice[e].of
                     /\ notice[k].stamp >= notice[e].stamp + Window

(* A claim is of a lifetime that has begun; a message that arrived is done. *)
ClaimsPast ==
  /\ \A e \in Events : notice[e].of <= lifetime
  /\ \A e \in told : notice[e].at = "done"

(* A message of this lifetime keeps the window closed until it has passed. *)
HeardCovers ==
  \A e \in Events : HeardInOrder(e) /\ notice[e].of = lifetime =>
    lastNotified = notice[e].stamp \/ Overtaken(e)

(* Nobody can give its row back in its place: a claim of the same instant   *)
(* was only possible over a later one that was given back.                  *)
NoTwin ==
  \A e, f \in Events :
    /\ HeardInOrder(e) /\ notice[e].of = lifetime
    /\ e # f /\ Claimed(f) /\ notice[f].stamp = notice[e].stamp
    => Overtaken(e)

HeardApart ==
  \A e, f \in Events : HeardInOrder(e) /\ HeardInOrder(f) /\ e # f /\ notice[e].of = notice[f].of =>
    notice[e].stamp + Window <= notice[f].stamp \/ notice[f].stamp + Window <= notice[e].stamp

(* The row is the claim of its claimant, who has not given it up. *)
RowClaimed ==
  lastNotified # NoClaim =>
    /\ claimant \in Events
    /\ Claimed(claimant)
    /\ notice[claimant].stamp = lastNotified
    /\ notice[claimant].at = "done" => Heard(claimant)

HealthIInv ==
  /\ HealthTypeOK
  /\ ClaimsPast /\ HeardCovers /\ NoTwin /\ HeardApart /\ RowClaimed

(***************************************************************************)
(* Rekeying                                                                *)
(***************************************************************************)

(* The rows a run has yet to come to. *)
Pending(r, i) ==
  \/ run[r].at = "fetch" /\ i > run[r].cursor
  \/ /\ run[r].at = "page"
     /\ i \in OnPage(r) \/ (run[r].full /\ \A j \in OnPage(r) : i > j)

(* What a run leaves behind it under the old key, it has in its report. *)
LeftOverReported(r) ==
  run[r].at # "crashed" =>
    \A i \in Ids : Present(i) /\ Stale(rows[i]) # {} =>
      Pending(r, i) \/ run[r].report.skipped \/ (run[r].dry /\ run[r].report.reencrypted)

(* Once every replica seals under the new primary, the old key only goes:  *)
(* what a run read there holds all that is left of it.                     *)
OldKeyOnlyGoes(r) ==
  run[r].at = "page" =>
    \A i \in OnPage(r) : Present(i) => Stale(rows[i]) \subseteq Stale(run[r].page[i])

RunsInPlace ==
  \A r \in Runs :
    /\ run[r].at = "ready" => run[r].cursor = 0
    /\ run[r].at = "page" => OnPage(r) # {}

VouchedFor ==
  \A r \in vouched : migrated /\ run[r].at # "ready" /\ LeftOverReported(r) /\ OldKeyOnlyGoes(r)

RekeyIInv == RekeyTypeOK /\ NeverClobbered /\ RunsInPlace /\ VouchedFor

(***************************************************************************)
(* The tool allowlist                                                      *)
(***************************************************************************)

(* A command changes only what it has locked, and a transaction that wrote *)
(* is still open.                                                          *)
LocksHeld ==
  \A c \in Commands :
    /\ command[c].at = "new" => Asked(c) = {}
    /\ command[c].at \in {"new", "locked", "commit", "done"} => command[c].todo = {}
    /\ \A p \in ToolProviders :
         /\ p \in Asked(c) => locked[p] = c
         /\ writer[p] = c => command[c].at \in {"fill", "upsert", "commit"}

(* The first commit of a channel is of all its rows. *)
AllOrNone == Configured => \A p \in ToolProviders : enabled[p] # Unset

(* What a transaction wrote is what its command wants; over a row that is  *)
(* committed it writes only its own changes.                               *)
WritesOwn ==
  \A c \in Commands, p \in ToolProviders : writer[p] = c =>
    /\ written[p] = Wish(c, p)
    /\ enabled[p] # Unset => p \in Asked(c)

NoHalfRow == \A p \in ToolProviders : writer[p] = Free => written[p] = Unset

(* A filler has passed the rows before the ones it has to do, an upserter  *)
(* all of them: each is its own or was there.                              *)
FilledSoFar ==
  \A c \in Commands, p \in ToolProviders :
    /\ command[c].at = "fill" /\ p \notin command[c].todo => writer[p] = c \/ enabled[p] # Unset
    /\ command[c].at \in {"upsert", "commit"} => writer[p] = c \/ enabled[p] # Unset

InRowOrder ==
  \A c \in Commands, p \in ToolProviders :
    command[c].at = "fill" /\ writer[p] = c => \A q \in command[c].todo : p < q

UpsertedSoFar ==
  \A c \in Commands :
    /\ command[c].at = "upsert" => command[c].todo \subseteq Asked(c)
    /\ command[c].at \in {"upsert", "commit"} =>
         \A p \in Asked(c) \ command[c].todo : writer[p] = c

AllowlistIInv ==
  /\ AllowlistTypeOK /\ LastCommandRules
  /\ LocksHeld /\ AllOrNone /\ WritesOwn /\ NoHalfRow /\ FilledSoFar /\ InRowOrder /\ UpsertedSoFar

(***************************************************************************)
(* Advisory locks                                                          *)
(***************************************************************************)

(* The names tell the locks apart, and a batch nests inside those before it. *)
HashesApart == \A j, k \in LockKeys : HashText[j] = HashText[k] => j = k
NestedInOrder ==
  \A t \in Txns : \A m, n \in DOMAIN Batches[t] :
    m < n => \A j \in Batches[t][m], k \in Batches[t][n] : j < k

(* What a transaction has yet to take is of its last batch. *)
WantsLastBatch ==
  \A t \in Txns :
    /\ client[t] # "open" => wanted[t] = {}
    /\ wanted[t] # {} => batch[t] # 0 /\ wanted[t] \subseteq Batches[t][batch[t]]

(* What it holds comes before what it has yet to take. *)
HoldsInOrder ==
  \A t \in Txns, k \in LockKeys : holder[HashText[k]] = t =>
    /\ client[t] = "open"
    /\ \E m \in 1..batch[t] : k \in Batches[t][m]
    /\ \A j \in wanted[t] : k < j

LocksIInv == LocksTypeOK /\ IsFiniteSet(Open) /\ WantsLastBatch /\ HoldsInOrder
=============================================================================
