------------------------------ MODULE Fences ------------------------------
(***************************************************************************)
(* The PostgreSQL clock and the durable tombstones every credential writer *)
(* of Vouchr is ordered against (src/core/consent.ts).                     *)
(*                                                                         *)
(* A tombstone is one timestamp per scope, and 0 stands for a missing row: *)
(* the clock starts at 1, so 0 blocks nothing.  Timestamps come from the   *)
(* database clock, sampled while the scope's advisory lock is held, and a  *)
(* lock is held to the end of its transaction.  A locked transaction is    *)
(* therefore one action; two transactions may share a timestamp, since the *)
(* clock need not advance between two actions.                             *)
(***************************************************************************)
EXTENDS Naturals, FiniteSets

CONSTANTS
  Identities,    \* [ent, team, user]: the identities Slack can present
  NoEnterprise,  \* enterprise_id IS NULL
  MaxTime        \* bound: the last reading of the clock

ASSUME MaxTimeAssumption == MaxTime \in Nat \ {0}

VARIABLES
  now,      \* PostgreSQL's clock
  offTomb,  \* offboard_tombstone and user_offboard_scope_tombstone
  revTomb   \* provisioning_revocation_tombstone

fenceVars == <<now, offTomb, revTomb>>

Time == 0..MaxTime

(* The credential key: one row per team, user (and the one provider). *)
OwnerOf(i) == [team |-> i.team, user |-> i.user]
Owners == {OwnerOf(i) : i \in Identities}

----------------------------------------------------------------------------
(* Offboarding scopes. *)

TeamScope(o) == <<"team", o.team, o.user>>
GlobalScope(u) == <<"global", u>>
UnscopedScope(u) == <<"unscoped", u>>
EnterpriseScope(e, u) == <<"enterprise", e, u>>

IdentityOffboardScopes(i) ==
  { TeamScope(OwnerOf(i)), GlobalScope(i.user),
    IF i.ent = NoEnterprise THEN UnscopedScope(i.user)
                            ELSE EnterpriseScope(i.ent, i.user) }

(* Mutant: a sweep of a named enterprise forgets callers without one. *)
NamedOffboardScopes(e, u) ==
  IF e = NoEnterprise THEN {GlobalScope(u)} ELSE {EnterpriseScope(e, u)}

EverywhereOffboardScopes(e, u) ==
  IF e = NoEnterprise THEN {GlobalScope(u)}
                      ELSE {EnterpriseScope(e, u), UnscopedScope(u)}

Enterprises == {i.ent : i \in Identities}
Users == {i.user : i \in Identities}

OffScopes == UNION {IdentityOffboardScopes(i) : i \in Identities}
               \cup UNION {EverywhereOffboardScopes(e, u) : e \in Enterprises, u \in Users}

(* Break-glass and disconnect scopes of one provider. *)

ExactScope(o) == <<"team-user", o.team, o.user>>

OwnerProvisioningScopes(o) ==
  {<<"global">>, <<"team", o.team>>, <<"user", o.user>>, ExactScope(o)}

RevScopes == UNION {OwnerProvisioningScopes(o) : o \in Owners}

----------------------------------------------------------------------------

(* Mutant: authority of the tombstone's own instant passes. *)
TombstoneOutlives(tomb, minted) == tomb > minted

TombstoneBlocks(tomb, minted) == tomb >= minted

(* latestUserOffboardTombstone and latestProvisioningRevocationTombstone   *)
(* return the newest applicable row, so the newest blocks exactly when one *)
(* of them does.                                                           *)
OffBlocks(i, minted) ==
  \E s \in IdentityOffboardScopes(i) : TombstoneBlocks(offTomb[s], minted)

(* Mutant: only the tombstone of the whole provider is read. *)
ProviderRevBlocks(o, minted) == TombstoneBlocks(revTomb[<<"global">>], minted)

RevBlocks(o, minted) ==
  \E s \in OwnerProvisioningScopes(o) : TombstoneBlocks(revTomb[s], minted)

LifecycleBlocks(i, minted) == OffBlocks(i, minted) \/ RevBlocks(OwnerOf(i), minted)

----------------------------------------------------------------------------

FencesTypeOK ==
  /\ now \in 1..MaxTime
  /\ offTomb \in [OffScopes -> Time]
  /\ revTomb \in [RevScopes -> Time]

FencesInit ==
  /\ now = 1
  /\ offTomb = [s \in OffScopes |-> 0]
  /\ revTomb = [s \in RevScopes |-> 0]

Tick ==
  /\ now < MaxTime
  /\ now' = now + 1
  /\ UNCHANGED <<offTomb, revTomb>>

Greatest(a, b) == IF a >= b THEN a ELSE b

MarkOffboarded(S) ==
  /\ offTomb' = [s \in OffScopes |-> IF s \in S THEN Greatest(offTomb[s], now) ELSE offTomb[s]]
  /\ UNCHANGED <<now, revTomb>>

MarkProvisioningRevoked(s) ==
  /\ revTomb' = [revTomb EXCEPT ![s] = Greatest(@, now)]
  /\ UNCHANGED <<now, offTomb>>
=============================================================================
