----------------------------- MODULE Assertions -----------------------------
(***************************************************************************)
(* Identity assertions of the HTTP broker: minted by the trusted host,     *)
(* verified by any broker replica on its own clock, spent in one shared    *)
(* table, and mapped to the database's clock to be ordered against the     *)
(* lifecycle tombstones (src/adapters/http/identity.ts, replayStore.ts,    *)
(* and verify and userInteractionIssuedAt of src/adapters/http/broker.ts). *)
(* Signature, audience and claim checks are a forger's problem and are not *)
(* modelled: every assertion here was minted.                              *)
(***************************************************************************)
EXTENDS Integers

CONSTANTS
  Jtis,        \* bound: the random ids that can be minted
  Minters,     \* hosts that mint
  Replicas,    \* broker processes
  Calls,       \* bound: requests that present an assertion
  Interactive, \* the requests whose route orders them against tombstones
  Skew,        \* IDENTITY_SKEW_MS
  MaxLifetime, \* MAX_LIFETIME_MS
  PruneEvery,  \* the pause between two prunes of one process
  Offset,      \* assumption: how far a machine's clock is from the database's
  MaxLag,      \* assumption: how long a verified request takes to be spent
  MaxTime      \* bound: the last instant

ASSUME AssertionsAssumption ==
  /\ Skew \in Nat
  /\ MaxLifetime \in Nat \ {0}
  /\ PruneEvery \in Nat
  /\ Offset \in Nat
  /\ MaxLag \in Nat
  /\ MaxTime \in Nat

VARIABLES
  t,          \* the database clock, the reference
  offset,     \* every machine's clock against it
  tokens,     \* the assertions minted so far
  brokerJti,  \* broker_jti
  lastPrune,  \* per process
  calls       \* the requests

vars == <<t, offset, tokens, brokerJti, lastPrune, calls>>

Machines == Minters \cup Replicas
Clock(m) == t + offset[m]

(* minted is history: the instant on the reference clock. *)
Token == [ jti : Jtis, iat : Int, exp : Int, minted : Nat ]

(* A request that is verified and not yet spent: at is when it was verified, *)
(* cutoff the argument of its prune.                                        *)
Request ==
  [ pc : {"verified", "prune", "insert"}, tok : tokens, replica : Replicas,
    at : Nat, cutoff : Int ]

(* A request whose assertion is spent: the two values of                    *)
(* userInteractionIssuedAt.                                                 *)
Served ==
  [ pc : {"spent", "read", "issued"}, tok : tokens, replica : Replicas, pg : Int, issued : Int ]

Idle == [pc |-> "idle"]
Refused == [pc |-> "refused"]

(* The type invariant; an assertion never outlives the ceiling. *)
TypeOK ==
  /\ t \in Nat
  /\ offset \in [Machines -> -Offset..Offset]
  /\ tokens \subseteq Token
  /\ \A k \in tokens : k.exp - k.iat \in 1..MaxLifetime
  /\ brokerJti \subseteq [jti : Jtis, exp : Int]
  /\ lastPrune \in [Replicas -> Int]
  /\ calls \in [Calls -> Request \cup Served \cup {Idle, Refused}]

Init ==
  /\ t = 0
  /\ offset \in [Machines -> -Offset..Offset]
  /\ tokens = {}
  /\ brokerJti = {}
  /\ lastPrune = [r \in Replicas |-> -PruneEvery - Offset - 1]
  /\ calls = [c \in Calls |-> Idle]

InFlight == {c \in Calls : calls[c].pc \in {"verified", "prune", "insert"}}

Tick ==
  /\ t < MaxTime
  /\ \A c \in InFlight : t < calls[c].at + MaxLag
  /\ t' = t + 1
  /\ UNCHANGED <<offset, tokens, brokerJti, lastPrune, calls>>

Lifetime(ttl) == IF ttl < 1 THEN 1 ELSE IF ttl > MaxLifetime THEN MaxLifetime ELSE ttl

(* mintIdentity; the id is random, so no two assertions share one. *)
Mint(m, j, ttl) ==
  /\ \A k \in tokens : k.jti # j
  /\ tokens' = tokens \cup
       {[jti |-> j, iat |-> Clock(m), exp |-> Clock(m) + Lifetime(ttl), minted |-> t]}
  /\ UNCHANGED <<t, offset, brokerJti, lastPrune, calls>>

(* verifyIdentity: the time checks of the deployment-bound mode. *)
Acceptable(k, clock) ==
  /\ k.iat <= clock + Skew
  /\ k.exp > clock - Skew
  /\ k.exp > k.iat
  /\ k.exp - k.iat <= MaxLifetime

(* The same assertion may be presented any number of times. *)
Verify(c, k, r) ==
  /\ calls[c] = Idle
  /\ Acceptable(k, Clock(r))
  /\ calls' = [calls EXCEPT ![c] =
       [pc |-> "verified", tok |-> k, replica |-> r, at |-> t, cutoff |-> 0]]
  /\ UNCHANGED <<t, offset, tokens, brokerJti, lastPrune>>

(* Mutant: a spent id is kept only through its own tolerance. *)
TightRetention == Skew

ReplayRetentionGrace == 3 * Skew

(* use(): the guard and the prune's cutoff read the process clock once. *)
Use(c) ==
  LET now == Clock(calls[c].replica)
      r == calls[c].replica
  IN /\ calls[c].pc = "verified"
     /\ \/ /\ calls[c].tok.exp + ReplayRetentionGrace <= now
           /\ calls' = [calls EXCEPT ![c] = Refused]
           /\ UNCHANGED lastPrune
        \/ /\ calls[c].tok.exp + ReplayRetentionGrace > now
           /\ now - lastPrune[r] > PruneEvery
           /\ lastPrune' = [lastPrune EXCEPT ![r] = now]
           /\ calls' = [calls EXCEPT ![c] =
                [@ EXCEPT !.pc = "prune", !.cutoff = now - ReplayRetentionGrace]]
        \/ /\ calls[c].tok.exp + ReplayRetentionGrace > now
           /\ now - lastPrune[r] <= PruneEvery
           /\ calls' = [calls EXCEPT ![c].pc = "insert"]
           /\ UNCHANGED lastPrune
     /\ UNCHANGED <<t, offset, tokens, brokerJti>>

Prune(c) ==
  /\ calls[c].pc = "prune"
  /\ brokerJti' = {row \in brokerJti : row.exp > calls[c].cutoff}
  /\ calls' = [calls EXCEPT ![c] = [@ EXCEPT !.pc = "insert", !.cutoff = 0]]
  /\ UNCHANGED <<t, offset, tokens, lastPrune>>

(* INSERT ... ON CONFLICT DO NOTHING: the caller that inserted owns the id. *)
Insert(c) ==
  LET k == calls[c].tok IN
  /\ calls[c].pc = "insert"
  /\ \/ /\ \E row \in brokerJti : row.jti = k.jti
        /\ calls' = [calls EXCEPT ![c] = Refused]
        /\ UNCHANGED brokerJti
     \/ /\ \A row \in brokerJti : row.jti # k.jti
        /\ brokerJti' = brokerJti \cup {[jti |-> k.jti, exp |-> k.exp]}
        /\ calls' = [calls EXCEPT ![c] =
             [pc |-> "spent", tok |-> k, replica |-> calls[c].replica, pg |-> 0, issued |-> 0]]
  /\ UNCHANGED <<t, offset, tokens, lastPrune>>

(* userInteractionIssuedAt reads the database clock, then its own. *)
ReadDatabaseClock(c) ==
  /\ c \in Interactive
  /\ calls[c].pc = "spent"
  /\ calls' = [calls EXCEPT ![c] = [@ EXCEPT !.pc = "read", !.pg = t]]
  /\ UNCHANGED <<t, offset, tokens, brokerJti, lastPrune>>

(* Mutant: the tolerance of the two clocks is forgotten. *)
ObservedAge(k, clock) == IF clock > k.iat THEN clock - k.iat ELSE 0

TokenAge(k, clock) == (IF clock > k.iat THEN clock - k.iat ELSE 0) + Skew

MapIssuance(c) ==
  /\ calls[c].pc = "read"
  /\ calls' = [calls EXCEPT ![c] =
       [@ EXCEPT !.pc = "issued",
                 !.issued = calls[c].pg - TokenAge(calls[c].tok, Clock(calls[c].replica))]]
  /\ UNCHANGED <<t, offset, tokens, brokerJti, lastPrune>>

(* A new process takes the place of r, whose unfinished requests are lost; it *)
(* starts with lastPrune = 0, so its first use prunes.                        *)
Restart(r) ==
  /\ lastPrune' = [lastPrune EXCEPT ![r] = -PruneEvery - Offset - 1]
  /\ calls' = [c \in Calls |->
       IF c \in InFlight /\ calls[c].replica = r THEN Refused ELSE calls[c]]
  /\ UNCHANGED <<t, offset, tokens, brokerJti>>

Next ==
  \/ Tick
  \/ \E m \in Minters, j \in Jtis, ttl \in 0..(MaxLifetime + 1) : Mint(m, j, ttl)
  \/ \E c \in Calls, k \in tokens, r \in Replicas : Verify(c, k, r)
  \/ \E c \in Calls : Use(c) \/ Prune(c) \/ Insert(c) \/ ReadDatabaseClock(c) \/ MapIssuance(c)
  \/ \E r \in Replicas : Restart(r)

Spec == Init /\ [][Next]_vars

----------------------------------------------------------------------------

Spent == {c \in Calls : calls[c].pc \in {"spent", "read", "issued"}}

(* One assertion admits one request in the whole fleet, whatever replicas    *)
(* it reaches, however their clocks differ, and although every replica       *)
(* prunes the shared table on its own clock (DbReplayStore.use).             *)
AcceptedOnce ==
  \A c, d \in Spent : calls[c].tok.jti = calls[d].tok.jti => c = d

(* The issuance time a request is ordered by is never later than the instant *)
(* its assertion was minted, so authority from before a tombstone cannot     *)
(* pass for authority from after it (userInteractionIssuedAt).               *)
IssuanceFailsClosed ==
  \A c \in Calls : calls[c].pc = "issued" => calls[c].issued <= calls[c].tok.minted
=============================================================================
