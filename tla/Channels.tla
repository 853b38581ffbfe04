------------------------------ MODULE Channels ------------------------------
(***************************************************************************)
(* The credential a channel owns and who the agent acts as there           *)
(* (core/channelCredential.ts, core/channelConfig.ts, the channel half of  *)
(* core/provisioning.ts and core/interaction.ts, and the commands, modals  *)
(* and admin routes of adapters/bolt.ts and adapters/http/broker.ts that   *)
(* call them).  One channel.  Every commit runs under the credential lock  *)
(* of (channel, provider), so it is one action; between the receipt of a   *)
(* request and its commit everything else may happen.                      *)
(***************************************************************************)
EXTENDS Naturals

CONSTANTS
  Members,      \* members of the channel
  Providers,    \* providers a channel may share
  Requests,     \* bound: the requests of a behaviour
  MaxClock,     \* bound: the last tick of the database clock
  TicketTTL,    \* how long a setup ticket lives
  NoCred        \* no stored row

ASSUME ChannelsAssumption ==
  /\ MaxClock \in Nat \ {0}
  /\ Members # {} /\ Providers # {}
  /\ TicketTTL \in Nat \ {0}
  /\ NoCred \notin [by : Requests, at : 0..MaxClock, issued : 0..MaxClock, since : 0..MaxClock]

VARIABLES
  clock,       \* the PostgreSQL clock
  identity,    \* channel_config: who the agent acts as, per provider
  cred,        \* the connection row of the channel, per provider
  tool,        \* channel_tool: whether the provider is enabled
  changed,     \* channel_interaction_tombstone, 0 for none
  revoked,     \* the provisioning revocation tombstone of the channel
  offboarded,  \* the offboarding tombstone of each member
  tickets,     \* channel_provisioning_request
  req,         \* the requests in flight
  lastChange   \* history: the last change of credential, identity or tool

govVars == <<identity, cred, tool>>
fenceVars == <<changed, revoked, offboarded>>
channelVars ==
  <<clock, govVars, fenceVars, tickets, req, lastChange>>

Time == 0..MaxClock
Kinds == {"setup", "direct", "person", "channel", "enable", "disable", "unshare"}

(* A row: the request that wrote it, when, on whose issuance, and (history)  *)
(* when the tuple had last changed before.                                   *)
Cred == [by : Requests, at : Time, issued : Time, since : Time]

(* A setup ticket, unique per member and provider. *)
Ticket == [id : Requests, member : Members, provider : Providers, at : Time]

Request ==
  [ pc : {"idle", "issue", "open", "submit", "authorize", "commit", "upstream", "audit", "done"},
    kind : Kinds, member : Members, provider : Providers, at : Time,
    ticket : Requests, claimed : Cred \cup {NoCred},
    outcome : {"none", "refused", "stale", "failed", "stored", "set", "unchanged",
               "not-shared", "missing", "removed", "unaudited"} ]

NoRequest(o) ==
  [pc |-> "idle", kind |-> "direct", member |-> CHOOSE m \in Members : TRUE,
   provider |-> CHOOSE p \in Providers : TRUE, at |-> 0, ticket |-> o, claimed |-> NoCred,
   outcome |-> "none"]

ChannelsInit ==
  /\ clock = 1
  /\ identity = [p \in Providers |-> "person"]
  /\ cred = [p \in Providers |-> NoCred]
  /\ tool = [p \in Providers |-> FALSE]
  /\ changed = [p \in Providers |-> 0]
  /\ revoked = [p \in Providers |-> 0]
  /\ offboarded = [m \in Members |-> 0]
  /\ tickets = {}
  /\ req = [o \in Requests |-> NoRequest(o)]
  /\ lastChange = [p \in Providers |-> 0]

Tick ==
  /\ clock < MaxClock
  /\ clock' = clock + 1
  /\ UNCHANGED <<govVars, fenceVars, tickets, req, lastChange>>

----------------------------------------------------------------------------
(* Receipt, ticket and authorization.                                       *)

(* The receipt: its time is the issuance of everything but a ticket. *)
Receive(o, k, m, p) ==
  /\ req[o].pc = "idle"
  /\ req' = [req EXCEPT ![o] = [@ EXCEPT !.pc = IF k = "setup" THEN "issue" ELSE "authorize",
                                         !.kind = k, !.member = m, !.provider = p, !.at = clock]]
  /\ UNCHANGED <<clock, govVars, fenceVars, tickets, lastChange>>

(* tombstoneBlocks: a tie fails closed. *)
Blocks(tombstone, at) == tombstone # 0 /\ tombstone >= at

(* Whether nothing has fenced what a member began at `at`. *)
Current(m, p, at) ==
  /\ ~Blocks(revoked[p], at)
  /\ ~Blocks(offboarded[m], at)
  /\ ~Blocks(changed[p], at)

Expired(at) == at + TicketTTL <= clock

(* The request is answered; only a removal says more than its outcome. *)
Done(o, outcome) ==
  req' = [req EXCEPT ![o] = [NoRequest(o) EXCEPT !.pc = "done", !.outcome = outcome]]

TicketsOf(m, p) == {t \in tickets : t.member = m /\ t.provider = p}

(* Mutant: a new ticket beside the one that ran out. *)
Unreplaced(m, p) == {}

(* The row a new ticket takes the place of. *)
Superseded(m, p) == TicketsOf(m, p)

(* ChannelProvisioningRequests.issue: reuse the member's live ticket or     *)
(* write one that carries the receipt's time.                               *)
IssueTicket(o) ==
  LET r == req[o]
      live == {t \in TicketsOf(r.member, r.provider) : ~Expired(t.at) /\ Current(r.member, r.provider, t.at)}
  IN  /\ r.pc = "issue"
      /\ \/ /\ ~Current(r.member, r.provider, r.at) \/ Expired(r.at)
            /\ Done(o, "stale")
            /\ UNCHANGED tickets
         \/ /\ Current(r.member, r.provider, r.at) /\ ~Expired(r.at)
            /\ \/ \E t \in live :
                    /\ req' = [req EXCEPT ![o].pc = "open", ![o].ticket = t.id]
                    /\ UNCHANGED tickets
               \/ /\ live = {}
                  /\ req' = [req EXCEPT ![o].pc = "open", ![o].ticket = o]
                  /\ tickets' = (tickets \ Superseded(r.member, r.provider)) \cup
                       {[id |-> o, member |-> r.member, provider |-> r.provider, at |-> r.at]}
      /\ UNCHANGED <<clock, govVars, fenceVars, lastChange>>

(* The ticket of a form, while nothing fenced it. *)
ResolvedForModal(o) ==
  {t \in TicketsOf(req[o].member, req[o].provider) :
     t.id = req[o].ticket /\ ~Expired(t.at) /\ Current(t.member, t.provider, t.at)}

(* openConfigureModal: Slack confirms channel and member, the ticket is read *)
(* again and the form is filled; or the view stays without one.             *)
OpenForm(o) ==
  /\ req[o].pc = "open"
  /\ \/ ResolvedForModal(o) # {} /\ req' = [req EXCEPT ![o].pc = "submit"]
     \/ Done(o, "refused")
  /\ UNCHANGED <<clock, govVars, fenceVars, tickets, lastChange>>

(* handleSecretSubmit: the form comes back, however late. *)
Submit(o) ==
  /\ req[o].pc = "submit"
  /\ IF ResolvedForModal(o) # {} THEN req' = [req EXCEPT ![o].pc = "authorize"]
     ELSE Done(o, "stale")
  /\ UNCHANGED <<clock, govVars, fenceVars, tickets, lastChange>>

(* Slack says whether the actor is a member and the channel eligible. *)
AuthorizeMember(o) ==
  /\ req[o].pc = "authorize"
  /\ \/ req' = [req EXCEPT ![o].pc = "commit"]
     \/ Done(o, "refused")
  /\ UNCHANGED <<clock, govVars, fenceVars, tickets, lastChange>>

----------------------------------------------------------------------------
(* The commits.                                                             *)

Committing(o, kinds) == req[o].pc = "commit" /\ req[o].kind \in kinds

WithoutTickets(p) == {t \in tickets : t.provider # p}

(* Mutant: a purge that leaves no tombstone. *)
PurgeTickets(p) ==
  /\ tickets' = WithoutTickets(p)
  /\ UNCHANGED changed

(* purgeChannelInteractionState: fence what began before, drop the tickets. *)
Purge(p) ==
  /\ changed' = [changed EXCEPT ![p] = clock]
  /\ tickets' = WithoutTickets(p)

NoPurge == UNCHANGED <<changed, tickets>>

Changed(p) == lastChange' = [lastChange EXCEPT ![p] = clock]

(* An error anywhere rolls the whole transaction back. *)
CommitFails(o) ==
  /\ req[o].pc = "commit"
  /\ Done(o, "failed")
  /\ UNCHANGED <<clock, govVars, fenceVars, tickets, lastChange>>

(* The issuance of a setup: its own receipt, or the ticket it consumes. *)
Issuances(o) ==
  IF req[o].kind = "direct" THEN {req[o].at}
  ELSE {t.at : t \in {u \in tickets :
          /\ u.id = req[o].ticket /\ u.member = req[o].member
          /\ u.provider = req[o].provider /\ ~Expired(u.at)}}

(* What a consumed ticket leaves, when the setup is refused after all. *)
Unconsumed(o) ==
  {t \in tickets : ~(t.id = req[o].ticket /\ req[o].kind = "setup" /\ ~Expired(t.at))}

(* configureChannelCredential: store the secret and act as the channel. *)
Configure(o) ==
  LET m == req[o].member
      p == req[o].provider
  IN  /\ Committing(o, {"setup", "direct"})
      /\ \/ /\ \A i \in Issuances(o) : ~Current(m, p, i)
            /\ tickets' = Unconsumed(o)
            /\ Done(o, "stale")
            /\ UNCHANGED <<identity, cred, changed, lastChange>>
         \/ \E i \in Issuances(o) :
              /\ Current(m, p, i)
              /\ cred' = [cred EXCEPT ![p] =
                   [by |-> o, at |-> clock, issued |-> i, since |-> lastChange[p]]]
              /\ identity' = [identity EXCEPT ![p] = "channel"]
              /\ Purge(p)
              /\ Changed(p)
              /\ Done(o, "stored")
      /\ UNCHANGED <<clock, tool, revoked, offboarded>>

(* Mutant: the row stays behind when everybody is to act as themselves. *)
KeptCred(p, who) == cred[p]

(* The row that stays when the channel is to act as `who`. *)
CredAs(p, who) == IF who = "person" THEN NoCred ELSE cred[p]

(* setChannelCredentialIdentity: fenced by the actor's offboarding only. *)
SetIdentity(o) ==
  LET m == req[o].member
      p == req[o].provider
      who == req[o].kind
      moved == identity[p] # who \/ CredAs(p, who) # cred[p]
  IN  /\ Committing(o, {"person", "channel"})
      /\ IF Blocks(offboarded[m], req[o].at)
         THEN Done(o, "stale") /\ NoPurge /\ UNCHANGED <<identity, cred, lastChange>>
         ELSE /\ cred' = [cred EXCEPT ![p] = CredAs(p, who)]
              /\ identity' = [identity EXCEPT ![p] = who]
              /\ IF moved THEN Purge(p) /\ Changed(p) ELSE NoPurge /\ UNCHANGED lastChange
              /\ Done(o, "set")
      /\ UNCHANGED <<clock, tool, revoked, offboarded>>

(* configureChannelTools, for one provider: only a real change writes. *)
SetTool(o) ==
  LET m == req[o].member
      p == req[o].provider
      on == req[o].kind = "enable"
  IN  /\ Committing(o, {"enable", "disable"})
      /\ \/ /\ Blocks(offboarded[m], req[o].at)
            /\ Done(o, "stale") /\ NoPurge /\ UNCHANGED <<tool, lastChange>>
         \/ /\ ~Blocks(offboarded[m], req[o].at) /\ tool[p] = on
            /\ Done(o, "unchanged") /\ NoPurge /\ UNCHANGED <<tool, lastChange>>
         \/ /\ ~Blocks(offboarded[m], req[o].at) /\ tool[p] # on
            /\ tool' = [tool EXCEPT ![p] = on]
            /\ Purge(p) /\ Changed(p) /\ Done(o, "set")
      /\ UNCHANGED <<clock, identity, cred, revoked, offboarded>>

(* Mutant: a row of the very tick is taken for an older one. *)
StrictlyNewer(row, at) == row.at > at

(* Whether a row is too new for a command received at `at`. *)
TooNew(row, at) == row.at >= at

(* Back to "person", whatever was found. *)
ReturnToPerson(p) ==
  /\ identity' = [identity EXCEPT ![p] = "person"]
  /\ Purge(p)
  /\ Changed(p)

(* The transaction of disconnectChannelShared.  A break-glass marker does   *)
(* not block it: it is the way out of what that command leaves behind.      *)
Unshare(o) ==
  LET m == req[o].member
      p == req[o].provider
      at == req[o].at
      fenced == Blocks(offboarded[m], at)
  IN  /\ Committing(o, {"unshare"})
      /\ \/ /\ \/ fenced
               \/ identity[p] = "channel" /\ cred[p] # NoCred /\ TooNew(cred[p], at)
            /\ Done(o, "stale") /\ NoPurge /\ UNCHANGED <<identity, cred, lastChange>>
         \/ /\ ~fenced /\ identity[p] = "person"
            /\ Done(o, "not-shared") /\ NoPurge /\ UNCHANGED <<identity, cred, lastChange>>
         \/ /\ ~fenced /\ identity[p] = "channel" /\ cred[p] = NoCred
            /\ ReturnToPerson(p) /\ Done(o, "missing") /\ UNCHANGED cred
         \/ /\ ~fenced /\ identity[p] = "channel" /\ cred[p] # NoCred
            /\ ~TooNew(cred[p], at)
            /\ cred' = [cred EXCEPT ![p] = NoCred]
            /\ ReturnToPerson(p)
            /\ req' = [req EXCEPT ![o].pc = "upstream", ![o].claimed = cred[p]]
      /\ UNCHANGED <<clock, tool, revoked, offboarded>>

(* The upstream revocation, after the commit and best effort: whatever the  *)
(* provider answers, the row is gone.                                       *)
RevokeUpstream(o) ==
  /\ req[o].pc = "upstream"
  /\ req' = [req EXCEPT ![o].pc = "audit"]
  /\ UNCHANGED <<clock, govVars, fenceVars, tickets, lastChange>>

(* The audit row of the removal: its failure is reported, never thrown. *)
AuditRemoval(o) ==
  /\ req[o].pc = "audit"
  /\ \E outcome \in {"removed", "unaudited"} :
       req' = [req EXCEPT ![o].pc = "done", ![o].outcome = outcome]
  /\ UNCHANGED <<clock, govVars, fenceVars, tickets, lastChange>>

----------------------------------------------------------------------------
(* What happens around the requests.                                        *)

(* A member is offboarded: the tombstone first, their tickets later. *)
MarkOffboarded(m) ==
  /\ offboarded[m] = 0
  /\ offboarded' = [offboarded EXCEPT ![m] = clock]
  /\ UNCHANGED <<clock, govVars, changed, revoked, tickets, req, lastChange>>

PurgeMember(m) ==
  /\ offboarded[m] # 0
  /\ tickets' = {t \in tickets : t.member # m}
  /\ UNCHANGED <<clock, govVars, fenceVars, req, lastChange>>

(* The operator's break-glass command: the marker first, in a transaction of *)
(* its own, and once more before each delete, unless that marker fails.      *)
MarkRevoked(p) ==
  /\ revoked[p] < clock
  /\ revoked' = [revoked EXCEPT ![p] = clock]
  /\ UNCHANGED <<clock, govVars, changed, offboarded, tickets, req, lastChange>>

(* Its tickets next; a later receipt may have left one by then. *)
PurgePending(p) ==
  /\ revoked[p] # 0
  /\ tickets' = WithoutTickets(p)
  /\ UNCHANGED <<clock, govVars, fenceVars, req, lastChange>>

(* What an uncleaned delete fences is what its command's marker fences. *)
MarkedAt(p) == IF revoked[p] > lastChange[p] THEN revoked[p] ELSE lastChange[p]

(* Its row last, whoever wrote it by then, and with the row its satellites.  *)
(* When that cleanup fails, the transaction rolls back, and the same row is  *)
(* deleted again alone: no ticket goes and no tombstone is left.  The        *)
(* identity stays as it is.                                                  *)
BreakGlassDelete(p) ==
  /\ revoked[p] # 0
  /\ cred[p] # NoCred
  /\ cred' = [cred EXCEPT ![p] = NoCred]
  /\ \/ Purge(p) /\ Changed(p)
     \/ NoPurge /\ lastChange' = [lastChange EXCEPT ![p] = MarkedAt(p)]
  /\ UNCHANGED <<clock, identity, tool, revoked, offboarded, req>>

(* The sweep deletes a row past its lifetime, satellites and all. *)
ExpireRow(p) ==
  /\ cred[p] # NoCred
  /\ cred' = [cred EXCEPT ![p] = NoCred]
  /\ Purge(p)
  /\ Changed(p)
  /\ UNCHANGED <<clock, identity, tool, revoked, offboarded, req>>

ChannelsNext ==
  \/ Tick
  \/ \E o \in Requests :
       \/ \E k \in Kinds, m \in Members, p \in Providers : Receive(o, k, m, p)
       \/ IssueTicket(o) \/ OpenForm(o) \/ Submit(o) \/ AuthorizeMember(o) \/ CommitFails(o)
       \/ Configure(o) \/ SetIdentity(o) \/ SetTool(o) \/ Unshare(o)
       \/ RevokeUpstream(o) \/ AuditRemoval(o)
  \/ \E m \in Members : MarkOffboarded(m) \/ PurgeMember(m)
  \/ \E p \in Providers : MarkRevoked(p) \/ PurgePending(p) \/ BreakGlassDelete(p) \/ ExpireRow(p)

ChannelsSpec == ChannelsInit /\ [][ChannelsNext]_channelVars

----------------------------------------------------------------------------

(* Rows, tombstones and requests have their types, and a member has one     *)
(* ticket per provider.                                                     *)
ChannelsTypeOK ==
  /\ clock \in Time
  /\ identity \in [Providers -> {"person", "channel"}]
  /\ cred \in [Providers -> Cred \cup {NoCred}]
  /\ req \in [Requests -> Request]
  /\ tickets \subseteq Ticket
  /\ \A t, u \in tickets : t.member = u.member /\ t.provider = u.provider => t = u

(* A channel whose members act as themselves holds no credential: none      *)
(* survives a change of identity to be found again by the next one          *)
(* (setChannelCredentialIdentity, disconnectChannelShared).                 *)
NoDormantCredential ==
  \A p \in Providers : cred[p] # NoCred => identity[p] = "channel"

(* A stored credential is one the channel acts with.  The converse is no    *)
(* promise: break-glass and the sweep leave the identity "channel" without  *)
(* a row, which disconnectChannelShared reports as missing.                 *)
IdentityHolds == ChannelsTypeOK /\ NoDormantCredential

(* No setup overtakes: the credential in place was asked for after the last *)
(* commit that stored or removed one, or changed identity or tool, however  *)
(* long its modal stood open and whoever made that change                   *)
(* (configureChannelCredential, the channel interaction tombstone).  A      *)
(* break-glass delete whose cleanup failed leaves no tombstone; there it    *)
(* was asked for after the last marker (claimDelete, markProvisioningRevoked). *)
SetupNotOvertaken ==
  \A p \in Providers : cred[p] # NoCred => cred[p].issued > cred[p].since

(* A disconnect that was delayed never removes a credential that was set up *)
(* after it was asked for, not even in the same tick                        *)
(* (disconnectChannelShared, the generation check).                         *)
DelayedDisconnectSpares ==
  \A o \in Requests : req[o].claimed # NoCred => req[o].claimed.at < req[o].at
=============================================================================
