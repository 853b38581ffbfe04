------------------------------- MODULE Locks --------------------------------
(***************************************************************************)
(* The advisory transaction locks every fenced mutation runs under         *)
(* (withRefreshLocks and acquireXactLocks of core/db.ts), taken in batches:*)
(* first the credential keys of the mutation (Vault.withCredentialLocks),  *)
(* then, nested in the same transaction, its provisioning-revocation keys  *)
(* (withProvisioningRevocationLock) and last the offboard keys of the      *)
(* people it concerns (withOffboardLocks); a mutation may skip a class.  A *)
(* batch is sorted by name; PostgreSQL locks the 32-bit hash of the name.  *)
(***************************************************************************)
EXTENDS Naturals, Sequences, FiniteSetsExt

CONSTANTS
  Txns,      \* transactions
  LockKeys,  \* lock names, as numbers: by their level of nesting, then by name
  Batches,   \* per transaction: the sets of keys it asks for, in nesting order
  HashText,  \* per key: the number PostgreSQL locks
  PoolSize,  \* connections of the refresh pool
  Nobody     \* the holder of a free lock

ASSUME LocksAssumption ==
  /\ LockKeys \subseteq Nat
  /\ Batches \in [Txns -> Seq(SUBSET LockKeys)]
  /\ HashText \in [LockKeys -> Nat]
  /\ PoolSize \in Nat \ {0}
  /\ Nobody \notin Txns

VARIABLES
  client,  \* per transaction: its connection to the database
  batch,   \* per transaction: how many batches it has asked for
  wanted,  \* per transaction: the locks of its last batch it has yet to take
  holder   \* per lock number: the transaction that holds it

locksVars == <<client, batch, wanted, holder>>

LockNumbers == {HashText[k] : k \in LockKeys}

LocksTypeOK ==
  /\ client \in [Txns -> {"none", "open", "committed", "rolled back"}]
  /\ batch \in [Txns -> Nat] /\ \A t \in Txns : batch[t] <= Len(Batches[t])
  /\ wanted \in [Txns -> SUBSET LockKeys]
  /\ holder \in [LockNumbers -> Txns \union {Nobody}]

LocksInit ==
  /\ client = [t \in Txns |-> "none"]
  /\ batch = [t \in Txns |-> 0]
  /\ wanted = [t \in Txns |-> {}]
  /\ holder = [n \in LockNumbers |-> Nobody]

Open == {t \in Txns : client[t] = "open"}

(* A connection of the pool, and BEGIN; a caller that waits too long for   *)
(* one gives up with nothing held.                                         *)
Connect(t) ==
  /\ client[t] = "none"
  /\ client' = [client EXCEPT ![t] =
       IF Cardinality(Open) < PoolSize THEN "open" ELSE "rolled back"]
  /\ UNCHANGED <<batch, wanted, holder>>

(* The first batch of a transaction, or the next one its body nests in it. *)
Nest(t) ==
  /\ client[t] = "open"
  /\ wanted[t] = {}
  /\ batch[t] < Len(Batches[t])
  /\ batch' = [batch EXCEPT ![t] = @ + 1]
  /\ wanted' = [wanted EXCEPT ![t] = Batches[t][batch[t] + 1]]
  /\ UNCHANGED <<client, holder>>

(* Mutant: a batch in the order the caller gave, here the reverse for one. *)
CallerOrder(t) == IF t = CHOOSE u \in Txns : TRUE THEN Max(wanted[t]) ELSE Min(wanted[t])

(* acquireXactLocks: each key once, in the order of the names. *)
Canonical(t) == Min(wanted[t])

NextLock(t) == HashText[Canonical(t)]

(* pg_advisory_xact_lock: granted at once to its holder or when it is free,*)
(* else the transaction waits.                                             *)
Grant(t) ==
  /\ client[t] = "open"
  /\ wanted[t] # {}
  /\ holder[NextLock(t)] \in {Nobody, t}
  /\ holder' = [holder EXCEPT ![NextLock(t)] = t]
  /\ wanted' = [wanted EXCEPT ![t] = @ \ {Canonical(t)}]
  /\ UNCHANGED <<client, batch>>

(* COMMIT when the body is through, or ROLLBACK when it throws; either     *)
(* releases every lock and the connection.                                 *)
EndTxn(t) ==
  /\ client[t] = "open"
  /\ wanted[t] = {}
  /\ \E how \in {"committed", "rolled back"} : client' = [client EXCEPT ![t] = how]
  /\ holder' = [n \in LockNumbers |-> IF holder[n] = t THEN Nobody ELSE holder[n]]
  /\ UNCHANGED <<batch, wanted>>

LocksNext == \E t \in Txns : Connect(t) \/ Nest(t) \/ Grant(t) \/ EndTxn(t)

LocksSpec == LocksInit /\ [][LocksNext]_locksVars

Waiting(t) ==
  client[t] = "open" /\ wanted[t] # {} /\ holder[NextLock(t)] \notin {Nobody, t}

(* Multi-key writers never wait for each other in a circle, however their  *)
(* batches overlap: some open transaction can always go on ("canonical     *)
(* order prevents two multi-key governance writers from deadlocking",      *)
(* withRefreshLocks).                                                      *)
NoLockCycle == Open # {} => \E t \in Open : ~Waiting(t)

(* The locks of the batches. *)
LocksInv == LocksTypeOK /\ NoLockCycle
=============================================================================
