------------------------------ MODULE Consent ------------------------------
(***************************************************************************)
(* The single-use OAuth state rows (table consent_request): minting,       *)
(* reuse, supersession, the browser's Slack verification and retention     *)
(* (class Consent of src/core/consent.ts).  What the provider callback     *)
(* does with a row is in Vault.                                            *)
(***************************************************************************)
EXTENDS Fences

CONSTANTS
  StateIds,   \* bound: the random OAuth states that can be minted
  TicketIds,  \* bound: the key-setup request ids that can be minted
  GenIds,     \* bound: the connection row ids (credential generations)
  Channels,   \* the Slack conversations a prompt may be shown in
  StateTTL,   \* STATE_TTL_US
  Retention   \* STATE_RECOVERY_RETENTION_US

ASSUME ConsentAssumption ==
  /\ StateTTL \in Nat
  /\ Retention \in Nat
  /\ StateTTL <= Retention

VARIABLES
  consents,  \* consent_request
  used       \* every random id minted so far; ids are never minted twice

consentVars == <<consents, used>>

(* superseded is superseded_at with 0 for NULL; of consumed_at and         *)
(* slack_verified_at only the presence is ever read.                       *)
ConsentRow ==
  [ state : StateIds, who : Identities, chan : Channels, created : Time,
    verified : BOOLEAN, consumed : BOOLEAN, superseded : Time ]

OwnerConsents(o) == {c \in consents : OwnerOf(c.who) = o}

(* Mutant: a prompt whose callback is in progress counts as gone. *)
UnconsumedConsents(o) == {c \in OwnerConsents(o) : c.superseded = 0 /\ ~c.consumed}

(* The unique partial index allows one row per owner with superseded_at NULL. *)
CurrentConsents(o) == {c \in OwnerConsents(o) : c.superseded = 0}

(* The live predicate of activeRow, inspect and markSlackVerified. *)
Active(c) == c.superseded = 0 /\ ~c.consumed /\ now <= c.created + StateTTL

(* beginAt hands out an existing row again instead of minting a new one. *)
Reusable(c, i, ch) ==
  /\ c.who.ent = i.ent /\ c.chan = ch
  /\ Active(c)
  /\ ~LifecycleBlocks(i, c.created)

SupersedeRow(c) == [c EXCEPT !.superseded = now]

----------------------------------------------------------------------------

ConsentTypeOK ==
  /\ consents \subseteq ConsentRow
  /\ used \subseteq StateIds \cup TicketIds \cup GenIds

ConsentInit == consents = {} /\ used = {}

(* beginFenced: `issued` is the trusted receipt of the request, at or      *)
(* before the clock.  Reuse and refusal change nothing and are no steps.   *)
Begin(i, ch, issued) ==
  LET existing == CurrentConsents(OwnerOf(i)) IN
  /\ ~LifecycleBlocks(i, issued)
  /\ now <= issued + StateTTL
  /\ \A c \in existing : ~Reusable(c, i, ch) /\ c.created <= issued
  /\ \E s \in StateIds \ used :
       /\ used' = used \cup {s}
       /\ consents' = (consents \ existing)
            \cup {SupersedeRow(c) : c \in existing}
            \cup {[ state |-> s, who |-> i, chan |-> ch, created |-> issued,
                    verified |-> FALSE, consumed |-> FALSE, superseded |-> 0 ]}
  /\ UNCHANGED fenceVars

MarkSlackVerified(c) ==
  /\ Active(c)
  /\ ~c.verified
  /\ consents' = (consents \ {c}) \cup {[c EXCEPT !.verified = TRUE]}
  /\ UNCHANGED <<used, fenceVars>>

(* sweepStale. *)
SweepStale ==
  /\ \E c \in consents : c.created + Retention < now
  /\ consents' = {c \in consents : c.created + Retention >= now}
  /\ UNCHANGED <<used, fenceVars>>
=============================================================================
