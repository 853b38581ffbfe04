------------------------------- MODULE Vault -------------------------------
(***************************************************************************)
(* The user-owned credential rows of one provider (table connection), the  *)
(* opaque key-setup requests that can become one                           *)
(* (user_provisioning_request), and every writer: the OAuth callback, the  *)
(* key-setup modal, a direct trusted call, dry-run (synthetic) writes, the *)
(* silent refresh, the idle touch and the TTL sweep (src/core/vault.ts,    *)
(* oauthCallback.ts, provisioning.ts).                                     *)
(***************************************************************************)
EXTENDS Consent

CONSTANTS
  PendingTTL,  \* PENDING_INTERACTION_TTL_US
  TtlPolicy,   \* which of "idle" and "maxAge" the deployment configures
  Modes,       \* dryRun of the processes sharing the database: {FALSE}, {TRUE} or both
  MaxRefresh,  \* bound: silent refreshes of one generation
  Lockdown     \* VOUCHR_LOCKDOWN

ASSUME VaultAssumption ==
  /\ PendingTTL \in Nat
  /\ TtlPolicy \subseteq {"idle", "maxAge"}
  /\ Modes \subseteq BOOLEAN
  /\ MaxRefresh \in Nat
  /\ Lockdown \in BOOLEAN

VARIABLES
  connection,  \* the credential rows
  tickets,     \* user_provisioning_request
  callbacks,   \* provider callbacks between consume() and their response
  written      \* history: every credential write, with the authority it spent

vaultVars == <<connection, tickets, callbacks, written>>

Direct == "direct"

(* OAuth states and request ids are random and of different kinds. *)
ASSUME SourcesAssumption == StateIds \cap TicketIds = {} /\ Direct \notin StateIds \cup TicketIds

(* gen is generation_at, the write's own time; issued is history: the       *)
(* issuance the write was admitted under.  idle and aged say that the row   *)
(* is past the idle or the maximum age limit of the application clock, and  *)
(* tok counts the token rotations of the ciphertext columns.                *)
Row ==
  [ id : GenIds, owner : Owners, ent : Enterprises, issued : Time, gen : Time,
    dry : BOOLEAN, idle : BOOLEAN, aged : BOOLEAN, tok : 0..MaxRefresh ]

Write == [ id : GenIds, src : StateIds \cup TicketIds \cup {Direct} ]

Ticket == [ id : TicketIds, owner : Owners, created : Time ]

(* row is what the UPDATE ... RETURNING of consume() handed the callback. *)
Callback ==
  [ pc : {"claimed", "exchanging"}, row : ConsentRow, expired : BOOLEAN, synthetic : BOOLEAN ]

Expired(r) == r.idle \/ r.aged
RowsOf(o) == {r \in connection : r.owner = o}
LiveRows(o) == {r \in RowsOf(o) : ~Expired(r)}
TicketsOf(o) == {t \in tickets : t.owner = o}
TicketLive(t) == t.created + PendingTTL > now

(* The rows of the owner that a write or a delete purges with it. *)
WithoutSatellites(o, pending) == {t \in pending : t.owner # o}

VaultTypeOK ==
  /\ connection \subseteq Row
  /\ tickets \subseteq Ticket
  /\ callbacks \subseteq Callback
  /\ written \subseteq Write

VaultInit == connection = {} /\ tickets = {} /\ callbacks = {} /\ written = {}

----------------------------------------------------------------------------
(* withUserProvisioningFence: the one fence in front of every user write,  *)
(* in one transaction under the credential, revocation and offboard locks. *)

(* Mutant: a write of the issuance's own instant does not count. *)
LaterGenerationBlocks(o, issued, synthetic) ==
  \E r \in LiveRows(o) : r.gen > issued /\ (synthetic \/ ~r.dry)

NewestGenerationBlocks(o, issued, synthetic) ==
  \E r \in LiveRows(o) : r.gen >= issued /\ (synthetic \/ ~r.dry)

(* Mutant: a write is only ordered against other writes. *)
UnfencedVerdict(i, issued, synthetic) ==
  IF NewestGenerationBlocks(OwnerOf(i), issued, synthetic) THEN "stale" ELSE "current"

Verdict(i, issued, synthetic) ==
  CASE OffBlocks(i, issued) -> "offboarded"
    [] RevBlocks(OwnerOf(i), issued) /\ ~OffBlocks(i, issued) -> "revoked"
    [] ~LifecycleBlocks(i, issued) /\ NewestGenerationBlocks(OwnerOf(i), issued, synthetic) -> "stale"
    [] OTHER -> "current"

(* Consents no newer than a committed write are superseded with it. *)
SupersedeThrough(o, issued, pending) ==
  {IF OwnerOf(c.who) = o /\ c.superseded = 0 /\ ~c.consumed /\ c.created <= issued
     THEN SupersedeRow(c) ELSE c : c \in pending}

(* pendingConsents and pendingTickets are the tables after the issuance    *)
(* resolver ran: what it consumed stays consumed when the fence refuses.   *)
(* A synthetic write never replaces a real row, but still supersedes.      *)
Provision(i, issued, synthetic, src, pendingConsents, pendingTickets) ==
  LET o == OwnerOf(i) IN
  /\ ~Lockdown
  /\ \/ /\ Verdict(i, issued, synthetic) # "current"
        /\ consents' = pendingConsents
        /\ tickets' = pendingTickets
        /\ UNCHANGED <<connection, used, written>>
     \/ /\ Verdict(i, issued, synthetic) = "current"
        /\ consents' = SupersedeThrough(o, issued, pendingConsents)
        /\ \/ /\ synthetic /\ \E r \in RowsOf(o) : ~r.dry
              /\ tickets' = pendingTickets
              /\ UNCHANGED <<connection, used, written>>
           \/ /\ ~(synthetic /\ \E r \in RowsOf(o) : ~r.dry)
              /\ tickets' = WithoutSatellites(o, pendingTickets)
              /\ \E g \in GenIds \ used :
                   /\ used' = used \cup {g}
                   /\ connection' = (connection \ RowsOf(o)) \cup
                        {[ id |-> g, owner |-> o, ent |-> i.ent, issued |-> issued, gen |-> now,
                           dry |-> synthetic, idle |-> FALSE, aged |-> FALSE, tok |-> 0 ]}
                   /\ written' = written \cup {[id |-> g, src |-> src]}
  /\ UNCHANGED fenceVars

----------------------------------------------------------------------------
(* The OAuth callback. *)

(* consume(): one UPDATE spends the state; no lock is held. *)
Consume(c, synthetic) ==
  /\ ~Lockdown
  /\ ~c.consumed
  /\ consents' = (consents \ {c}) \cup {[c EXCEPT !.consumed = TRUE]}
  /\ callbacks' = callbacks \cup
       {[ pc |-> "claimed", row |-> c, expired |-> now > c.created + StateTTL,
          synthetic |-> synthetic ]}
  /\ UNCHANGED <<used, connection, tickets, written, fenceVars>>

(* The rest of consume(): a blocking tombstone wins over supersession and  *)
(* expiry, unless the supersession is newer than every blocking tombstone. *)
Invalidated(row) ==
  LET off == OffBlocks(row.who, row.created)
      rev == RevBlocks(OwnerOf(row.who), row.created)
  IN /\ off \/ rev
     /\ ~ ( /\ off => \A s \in IdentityOffboardScopes(row.who) : row.superseded > offTomb[s]
            /\ rev => \A s \in OwnerProvisioningScopes(OwnerOf(row.who)) :
                        row.superseded > revTomb[s] )

ClaimActive(cb) == ~Invalidated(cb.row) /\ cb.row.superseded = 0 /\ ~cb.expired

(* Only an active, browser-verified claim goes on to the token exchange. *)
Classify(cb) ==
  /\ cb.pc = "claimed"
  /\ IF ClaimActive(cb) /\ (cb.row.verified \/ cb.synthetic)
       THEN callbacks' = (callbacks \ {cb}) \cup {[cb EXCEPT !.pc = "exchanging"]}
       ELSE callbacks' = callbacks \ {cb}
  /\ UNCHANGED <<consentVars, connection, tickets, written, fenceVars>>

(* A denial, a missing code, a failed exchange, a rolled-back write or a   *)
(* crashed process: the state is spent and nothing is stored.              *)
FailCallback(cb) ==
  /\ cb.pc = "exchanging"
  /\ callbacks' = callbacks \ {cb}
  /\ UNCHANGED <<consentVars, connection, tickets, written, fenceVars>>

(* Mutant: supersession during the exchange goes unnoticed. *)
AnyClaim(row) == {c \in consents : c.state = row.state /\ c.consumed}

CurrentClaim(row) ==
  {c \in consents : c.state = row.state /\ c.superseded = 0 /\ c.consumed}

(* Mutant: the write is retried under the state it already spent. *)
FinalizeAgain(cb) ==
  /\ cb.pc = "exchanging"
  /\ Provision(cb.row.who, cb.row.created, cb.synthetic, cb.row.state, consents, tickets)
  /\ UNCHANGED callbacks

(* finalizeProvisioning() resolves the issuance inside Vault's transaction: *)
(* deleting the still-current row yields it; a vanished row yields it only  *)
(* for a tombstone to refuse it, and otherwise the callback is stale.       *)
Finalize(cb) ==
  LET row == cb.row
      current == CurrentClaim(row)
  IN /\ cb.pc = "exchanging"
     /\ callbacks' = callbacks \ {cb}
     /\ IF current # {} \/ LifecycleBlocks(row.who, row.created)
          THEN Provision(row.who, row.created, cb.synthetic, row.state, consents \ current, tickets)
          ELSE /\ ~Lockdown
               /\ UNCHANGED <<consentVars, connection, tickets, written, fenceVars>>

----------------------------------------------------------------------------
(* Key-setup requests and direct writes. *)

IssueRequest(i, issued) ==
  LET o == OwnerOf(i) IN
  /\ ~LifecycleBlocks(i, issued)
  /\ LiveRows(o) = {}
  /\ issued + PendingTTL > now
  /\ \A t \in TicketsOf(o) : ~TicketLive(t) \/ LifecycleBlocks(i, t.created)
  /\ \E n \in TicketIds \ used :
       /\ used' = used \cup {n}
       /\ tickets' = WithoutSatellites(o, tickets) \cup {[id |-> n, owner |-> o, created |-> issued]}
  /\ UNCHANGED <<consents, connection, callbacks, written, fenceVars>>

(* A modal submission: the resolver deletes the unexpired request by id, and *)
(* the submitting identity may differ from the issuing one in its enterprise. *)
SubmitRequest(t, i) ==
  /\ t.owner = OwnerOf(i)
  /\ TicketLive(t)
  /\ Provision(i, t.created, FALSE, t.id, consents, tickets \ {t})
  /\ UNCHANGED callbacks

(* upsert, upsertDryRun and reference under a receipt taken earlier. *)
DirectWrite(i, issued, synthetic) ==
  /\ Provision(i, issued, synthetic, Direct, consents, tickets)
  /\ UNCHANGED callbacks

SweepRequests ==
  /\ \E t \in tickets : t.created + PendingTTL < now
  /\ tickets' = {t \in tickets : t.created + PendingTTL >= now}
  /\ UNCHANGED <<consentVars, connection, callbacks, written, fenceVars>>

----------------------------------------------------------------------------
(* Row upkeep. *)

Replace(r, new) ==
  /\ connection' = (connection \ {r}) \cup {new}
  /\ UNCHANGED <<consentVars, tickets, callbacks, written, fenceVars>>

(* The application clock passes a configured limit. *)
GrowIdle(r) == "idle" \in TtlPolicy /\ ~r.idle /\ Replace(r, [r EXCEPT !.idle = TRUE])
GrowOld(r) == "maxAge" \in TtlPolicy /\ ~r.aged /\ Replace(r, [r EXCEPT !.aged = TRUE])

(* A use admitted before the row went idle resets the idle timer after it. *)
Touch(r) == r.idle /\ Replace(r, [r EXCEPT !.idle = FALSE])

(* updateTokens: the silent refresh keeps id, generation and age. *)
UpdateTokens(r) ==
  /\ ~Lockdown
  /\ r.tok < MaxRefresh
  /\ Replace(r, [r EXCEPT !.tok = @ + 1])

(* deleteExpired re-evaluates the limit under the credential lock. *)
DeleteExpired(r) ==
  /\ Expired(r)
  /\ connection' = connection \ {r}
  /\ tickets' = WithoutSatellites(r.owner, tickets)
  /\ UNCHANGED <<consentVars, callbacks, written, fenceVars>>
=============================================================================
