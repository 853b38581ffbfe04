----------------------------- MODULE Lifecycle -----------------------------
(***************************************************************************)
(* The life of a user-owned credential: every writer of Vault and every    *)
(* remover, interleaved over one database.                                 *)
(***************************************************************************)
EXTENDS Disconnect, Offboard, BreakGlass

vars == <<fenceVars, consentVars, vaultVars, removalVars, disc, ob, cli>>

(* Every table, fence and control state of a call has its type. *)
TypeOK ==
  /\ FencesTypeOK
  /\ ConsentTypeOK
  /\ VaultTypeOK
  /\ RemovalTypeOK
  /\ DisconnectTypeOK
  /\ OffboardTypeOK
  /\ BreakGlassTypeOK

Init ==
  /\ FencesInit
  /\ ConsentInit
  /\ VaultInit
  /\ RemovalInit
  /\ DisconnectInit
  /\ OffboardInit
  /\ BreakGlassInit

Clock == Tick /\ UNCHANGED <<consentVars, vaultVars>>

(* A request carries the receipt it was accepted under, at or before now. *)
ConsentStep ==
  /\ \/ \E i \in Identities, ch \in Channels, issued \in 1..now : Begin(i, ch, issued)
     \/ \E c \in consents : MarkSlackVerified(c)
     \/ SweepStale
  /\ UNCHANGED vaultVars

VaultStep ==
  \/ \E c \in consents, synthetic \in Modes : Consume(c, synthetic)
  \/ \E cb \in callbacks : Classify(cb) \/ FailCallback(cb) \/ Finalize(cb)
  \/ \E i \in Identities, issued \in 1..now : IssueRequest(i, issued)
  \/ \E t \in tickets, i \in Identities : SubmitRequest(t, i)
  \/ \E i \in Identities, issued \in 1..now, synthetic \in Modes : DirectWrite(i, issued, synthetic)
  \/ SweepRequests
  \/ \E r \in connection : \/ GrowIdle(r) \/ GrowOld(r) \/ Touch(r)
                           \/ UpdateTokens(r) \/ DeleteExpired(r)

ClaimStep == \E p \in Removers : ClaimFence(p) \/ ClaimDelete(p) \/ ClaimRetry(p)

DisconnectStep ==
  \E d \in Disconnects :
    \/ \E i \in Identities, issued \in 1..now, expected \in (GenIds \cap used) \cup {None} :
         PrepareDisconnect(d, i, issued, expected)
    \/ DeletePrepared(d)
    \/ \E upstreamOk \in BOOLEAN : SettleDisconnect(d, upstreamOk)

OffboardStep ==
  \/ \E p \in Sweeps :
       \/ \E e \in Enterprises \cup {NoEnterprise}, u \in Users : MarkEverywhere(p, e, u)
       \/ Discover(p)
       \/ EndEverywhere(p)
  \/ \E p \in Offboards \cup Sweeps :
       \/ \E o \in Owners : MarkTeam(p, o)
       \/ PurgeConsents(p)
       \/ PurgeRequests(p)
       \/ ListConnections(p)
       \/ Removed(p)
       \/ FinishTeam(p)

BreakGlassStep ==
  \E q \in Revokers :
    \/ \E s \in RevScopes : MarkScope(q, s)
    \/ PurgePending(q)
    \/ SelectRows(q)
    \/ \E o \in Owners : RevokeRow(q, o)
    \/ RowRevoked(q)
    \/ EndRound(q)
    \/ Exit(q)

Next ==
  \/ (Clock \/ ConsentStep \/ VaultStep) /\ UNCHANGED <<removalVars, disc, ob, cli>>
  \/ ClaimStep /\ UNCHANGED <<disc, ob, cli>>
  \/ DisconnectStep /\ UNCHANGED <<ob, cli>>
  \/ OffboardStep /\ UNCHANGED <<disc, cli>>
  \/ BreakGlassStep /\ UNCHANGED <<disc, ob>>

Spec == Init /\ [][Next]_vars

----------------------------------------------------------------------------
(* What removal promises. *)

(* No stored credential of owner o in these enterprises was admitted at or *)
(* before time `at`.                                                       *)
Clean(o, ents, at) ==
  \A r \in connection : r.owner = o /\ r.ent \in ents => r.issued > at

SealHolds(kind) == \A s \in sealed : s.kind = kind => Clean(s.owner, s.ents, s.at)

(* Once an offboarding of a user returned, no authority the user held when  *)
(* its tombstone was written ever becomes a stored credential again: not a  *)
(* callback in its token exchange, an open setup form, or a delayed request *)
(* (offboardUserDetailed against withUserProvisioningFence).                *)
OffboardFinal == SealHolds("offboard")

(* The same for a sweep over all teams without an incomplete team, in every *)
(* covered enterprise, including teams it never found anything in           *)
(* (offboardUserEverywhere).                                                *)
EverywhereFinal == SealHolds("everywhere")

(* The same for a disconnect reported ok (disconnectProviderAtGeneration).  *)
DisconnectFinal == SealHolds("disconnect")

(* The same for every owner in the scope of a break-glass command that      *)
(* exited with status 0 (vouchr revoke).                                    *)
BreakGlassFinal == SealHolds("revoke")

(* The tokens of a credential generation are handed to upstream revocation  *)
(* at most once, and never while the generation is still stored             *)
(* (claimDelete with its retry, claimPreparedDisconnect).                   *)
ClaimedOnce ==
  \A a \in claimed :
    /\ \A b \in claimed : a.id = b.id => a = b
    /\ \A r \in connection : r.id # a.id

(* A disconnect removes only the generation its control named or, when it   *)
(* named none, one that was stored before the request was issued: a delayed *)
(* request never hits a reconnect (prepareUserDisconnect).                  *)
DisconnectExact ==
  [][\A d \in Disconnects, r \in connection :
       disc'[d].removed /\ ~disc[d].removed /\ r \notin connection' =>
         \/ r.id = disc[d].expected
         \/ disc[d].expected = None /\ r.gen < disc[d].issued]_vars

(* A sweep of one enterprise denies nothing to the same user id in another  *)
(* named enterprise (everywhereOffboardScopes, and the test of cross-team   *)
(* tombstones in test/revocation.test.ts).                                  *)
SweepSparesOtherEnterprises ==
  \A i \in Identities :
    /\ \A p \in Sweeps : ob[p].pc = "idle" \/ i.ent \notin CoveredEnterprises(ob[p].ent)
    /\ \A p \in Offboards : ob[p].owner # OwnerOf(i)
    => \A issued \in 1..now : ~OffBlocks(i, issued)

----------------------------------------------------------------------------
(* What provisioning promises. *)

(* One OAuth state and one setup request yield at most one credential, over *)
(* duplicated callbacks, duplicated submissions and failed attempts         *)
(* (consume, finalizeProvisioning, issuance).                               *)
SingleUse ==
  \A a, b \in written : a.src = b.src /\ a.src # Direct => a = b

(* beginAt never leaves an owner two prompts that are not superseded; the   *)
(* unique partial index would make its INSERT fail.                         *)
OneCurrentConsent ==
  \A c1, c2 \in consents :
    OwnerOf(c1.who) = OwnerOf(c2.who) /\ c1.superseded = 0 /\ c2.superseded = 0 => c1 = c2

(* A prompt superseded while its callback was in the token exchange never   *)
(* becomes a credential (finalizeProvisioning).                             *)
NoSupersededWrite ==
  [][\A w \in written' \ written, c \in consents : c.state = w.src => c.superseded = 0]_vars

(* A live real credential is replaced only under an issuance newer than its *)
(* own write, and never by a synthetic one, expired or not                  *)
(* (withUserProvisioningFence, writeDryRunCredential).                      *)
ReplacementOrder ==
  [][\A r \in connection, n \in connection' :
       r.owner = n.owner /\ r.id # n.id /\ ~r.dry =>
         ~n.dry /\ (~Expired(r) => n.issued > r.gen)]_vars

(* Fresh demand never reuses a prompt whose callback can only be refused,   *)
(* because a live real credential is at least as new as the prompt          *)
(* (beginAt against withUserProvisioningFence).                             *)
ReusedPromptCanComplete ==
  \A c \in consents : Reusable(c, c.who, c.chan) =>
    ~NewestGenerationBlocks(OwnerOf(c.who), c.created, FALSE)
=============================================================================
