-------------------------- MODULE LifecycleProofs --------------------------
(***************************************************************************)
(* Proofs about Lifecycle for every value of its constants.                *)
(*                                                                         *)
(* The proof goes through one view of a step, Step: fences only grow, and  *)
(* the stored rows shrink, or one row is updated in place, or one row is   *)
(* admitted by the fence.  The first half shows that every action is such  *)
(* a step and keeps the types; the second half shows once, from Step, that *)
(* a fenced scope stays fenced and a closed one stays closed, and then     *)
(* adds what each action of a removal changes in its own control state.    *)
(***************************************************************************)
EXTENDS LifecycleInv, TLAPS

(* The types of the data: fences, consents, credentials. *)
DataOK == FencesTypeOK /\ ConsentTypeOK /\ VaultTypeOK

(* Clock and tombstones never move back. *)
FencesGrow ==
  /\ now <= now'
  /\ \A s \in OffScopes : offTomb[s] <= offTomb'[s]
  /\ \A s \in RevScopes : revTomb[s] <= revTomb'[s]

(* Row `new` is row r after an update in place. *)
Inherits(new, r) ==
  /\ new.id = r.id
  /\ new.owner = r.owner
  /\ new.ent = r.ent
  /\ new.issued = r.issued
  /\ new.gen = r.gen

(* Row `new` was admitted by the fence for identity i, under a fresh id, in *)
(* the place of nothing that it may not replace.                            *)
Admits(i, new) ==
  /\ new.owner = OwnerOf(i)
  /\ new.ent = i.ent
  /\ new.id \notin used
  /\ new.id \in used'
  /\ ~LifecycleBlocks(i, new.issued)
  /\ \A r \in RowsOf(OwnerOf(i)) : ~r.dry => ~new.dry /\ (~Expired(r) => new.issued > r.gen)

(* What one step may do to the stored rows. *)
RowsStep ==
  \/ connection' \subseteq connection
  \/ \E r \in connection, new \in Row :
       Inherits(new, r) /\ connection' = (connection \ {r}) \cup {new}
  \/ \E i \in Identities, new \in Row :
       Admits(i, new) /\ connection' = (connection \ RowsOf(OwnerOf(i))) \cup {new}

(* What every step is, as far as the removals care. *)
Step == DataOK' /\ FencesGrow /\ RowsStep /\ used \subseteq used'

(* An identity's owner, enterprise and user belong to the derived sets. *)
LEMMA OwnerInOwners == \A i \in Identities : OwnerOf(i) \in Owners /\ i.ent \in Enterprises /\ i.user \in Users
BY DEF Owners, Enterprises, Users

(* A step that leaves the fences alone satisfies FencesGrow. *)
LEMMA QuietFences ==
  ASSUME DataOK, UNCHANGED fenceVars PROVE FencesTypeOK' /\ FencesGrow
BY MaxTimeAssumption DEF DataOK, FencesTypeOK, FencesGrow, fenceVars, Time

(* Writing an offboarding tombstone only raises it, to now at least. *)
LEMMA MarkOffboardedStep ==
  ASSUME FencesTypeOK, NEW S, MarkOffboarded(S)
  PROVE  /\ FencesTypeOK' /\ FencesGrow
         /\ \A s \in S \cap OffScopes : offTomb'[s] >= now
BY MaxTimeAssumption DEF FencesTypeOK, FencesGrow, MarkOffboarded, Greatest, Time

(* Writing a revocation tombstone only raises it, to now at least. *)
LEMMA MarkRevokedStep ==
  ASSUME FencesTypeOK, NEW s \in RevScopes, MarkProvisioningRevoked(s)
  PROVE  /\ FencesTypeOK' /\ FencesGrow
         /\ revTomb'[s] >= now
BY MaxTimeAssumption DEF FencesTypeOK, FencesGrow, MarkProvisioningRevoked, Greatest, Time

(* The clock only grows. *)
LEMMA TickStep ==
  ASSUME FencesTypeOK, Tick PROVE FencesTypeOK' /\ FencesGrow
BY MaxTimeAssumption DEF FencesTypeOK, FencesGrow, Tick, Time

(* Minting a prompt keeps the types and changes no row. *)
LEMMA BeginStep ==
  ASSUME DataOK, NEW i \in Identities, NEW ch \in Channels, NEW issued \in 1..now,
         Begin(i, ch, issued), UNCHANGED vaultVars
  PROVE Step
<1>1. FencesTypeOK' /\ FencesGrow
  BY QuietFences DEF Begin
<1>2. issued \in Time /\ now \in Time
  BY MaxTimeAssumption DEF DataOK, FencesTypeOK, Time
<1>3. ConsentTypeOK'
  <2>1. PICK s \in StateIds \ used :
          /\ used' = used \cup {s}
          /\ consents' = (consents \ CurrentConsents(OwnerOf(i)))
               \cup {SupersedeRow(c) : c \in CurrentConsents(OwnerOf(i))}
               \cup {[ state |-> s, who |-> i, chan |-> ch, created |-> issued,
                       verified |-> FALSE, consumed |-> FALSE, superseded |-> 0 ]}
    BY DEF Begin
  <2>2. [ state |-> s, who |-> i, chan |-> ch, created |-> issued,
          verified |-> FALSE, consumed |-> FALSE, superseded |-> 0 ] \in ConsentRow
    BY <1>2, MaxTimeAssumption DEF ConsentRow, Time
  <2>3. \A c \in CurrentConsents(OwnerOf(i)) : SupersedeRow(c) \in ConsentRow
    BY <1>2 DEF DataOK, ConsentTypeOK, CurrentConsents, OwnerConsents, ConsentRow, SupersedeRow
  <2> QED BY <2>1, <2>2, <2>3 DEF DataOK, ConsentTypeOK
<1>4. VaultTypeOK' /\ RowsStep /\ used \subseteq used'
  BY DEF DataOK, VaultTypeOK, vaultVars, RowsStep, Begin
<1> QED BY <1>1, <1>3, <1>4 DEF Step, DataOK

(* The fenced write keeps the types, and a row it stores is not fenced. *)
LEMMA ProvisionStep ==
  ASSUME DataOK, NEW i \in Identities, NEW issued \in Time, NEW synthetic \in BOOLEAN,
         NEW src \in StateIds \cup TicketIds \cup {Direct},
         NEW cs \in SUBSET consents, NEW ts \in SUBSET tickets,
         Provision(i, issued, synthetic, src, cs, ts),
         callbacks' \subseteq callbacks
  PROVE Step
<1> DEFINE o == OwnerOf(i)
<1>1. FencesTypeOK' /\ FencesGrow
  BY QuietFences DEF Provision
<1>2. now \in Time
  BY MaxTimeAssumption DEF DataOK, FencesTypeOK, Time
<1>3. SupersedeThrough(o, issued, cs) \subseteq ConsentRow
  BY <1>2 DEF SupersedeThrough, SupersedeRow, ConsentRow, DataOK, ConsentTypeOK
<1>4. CASE UNCHANGED <<connection, used, written>>
  <2>1. ConsentTypeOK'
    BY <1>3, <1>4 DEF Provision, DataOK, ConsentTypeOK
  <2>2. VaultTypeOK'
    BY <1>4 DEF Provision, DataOK, VaultTypeOK, WithoutSatellites
  <2> QED BY <1>1, <1>4, <2>1, <2>2 DEF Step, DataOK, RowsStep
<1>5. CASE \E g \in GenIds \ used :
                   /\ used' = used \cup {g}
                   /\ connection' = (connection \ RowsOf(o)) \cup
                        {[ id |-> g, owner |-> o, ent |-> i.ent, issued |-> issued, gen |-> now,
                           dry |-> synthetic, idle |-> FALSE, aged |-> FALSE, tok |-> 0 ]}
                   /\ written' = written \cup {[id |-> g, src |-> src]}
                   /\ Verdict(i, issued, synthetic) = "current"
                   /\ ~(synthetic /\ \E r \in RowsOf(o) : ~r.dry)
  <2>1. PICK g \in GenIds \ used :
                   /\ used' = used \cup {g}
                   /\ connection' = (connection \ RowsOf(o)) \cup
                        {[ id |-> g, owner |-> o, ent |-> i.ent, issued |-> issued, gen |-> now,
                           dry |-> synthetic, idle |-> FALSE, aged |-> FALSE, tok |-> 0 ]}
                   /\ written' = written \cup {[id |-> g, src |-> src]}
                   /\ Verdict(i, issued, synthetic) = "current"
                   /\ ~(synthetic /\ \E r \in RowsOf(o) : ~r.dry)
    BY <1>5
  <2> DEFINE new == [ id |-> g, owner |-> o, ent |-> i.ent, issued |-> issued, gen |-> now,
                      dry |-> synthetic, idle |-> FALSE, aged |-> FALSE, tok |-> 0 ]
  <2>2. new \in Row
    BY <1>2, OwnerInOwners, VaultAssumption DEF Row
  <2>3. ~LifecycleBlocks(i, issued)
    BY <2>1 DEF Verdict, LifecycleBlocks
  <2>4. RowsStep
    <3>1. ~NewestGenerationBlocks(o, issued, synthetic)
      BY <2>1, <2>3 DEF Verdict, LifecycleBlocks
    <3>2. ASSUME NEW r \in RowsOf(o), ~r.dry
          PROVE  ~synthetic /\ (~Expired(r) => issued > r.gen)
      <4>1. r.gen \in Nat /\ issued \in Nat /\ (r.gen >= issued \/ issued > r.gen)
        BY <1>2, MaxTimeAssumption DEF RowsOf, DataOK, VaultTypeOK, Row, Time
      <4> QED BY <2>1, <3>1, <3>2, <4>1 DEF NewestGenerationBlocks, LiveRows
    <3>3. Admits(i, new)
      BY <2>1, <2>3, <3>2 DEF Admits
    <3> QED BY <2>1, <2>2, <3>3 DEF RowsStep
  <2>5. ConsentTypeOK' /\ used \subseteq used'
    BY <1>3, <2>1 DEF Provision, DataOK, ConsentTypeOK
  <2>6. [id |-> g, src |-> src] \in Write
    BY <2>1 DEF Write
  <2>7. connection' \subseteq Row /\ written' \subseteq Write /\ callbacks' \subseteq Callback
    BY <2>1, <2>2, <2>6 DEF DataOK, VaultTypeOK
  <2>8. tickets' \subseteq Ticket
    BY DEF Provision, DataOK, VaultTypeOK, WithoutSatellites
  <2>9. VaultTypeOK'
    BY <2>7, <2>8 DEF VaultTypeOK
  <2> QED BY <1>1, <2>4, <2>5, <2>9 DEF Step, DataOK
<1> QED BY <1>4, <1>5 DEF Provision

(* A step that stores nothing and leaves the fences alone is a Step. *)
LEMMA NoNewRowsStep ==
  ASSUME DataOK, UNCHANGED fenceVars, ConsentTypeOK', VaultTypeOK',
         connection' \subseteq connection, used \subseteq used'
  PROVE  Step
BY QuietFences DEF Step, DataOK, RowsStep

(* Row upkeep keeps the identity and the authority of the row. *)
LEMMA ReplaceStep ==
  ASSUME DataOK, NEW r \in connection, NEW new \in Row, Inherits(new, r), Replace(r, new)
  PROVE  Step
<1>1. FencesTypeOK' /\ FencesGrow
  BY QuietFences DEF Replace
<1>2. ConsentTypeOK' /\ used \subseteq used'
  BY DEF Replace, consentVars, DataOK, ConsentTypeOK
<1>3. VaultTypeOK'
  BY DEF Replace, DataOK, VaultTypeOK
<1>4. RowsStep
  BY DEF Replace, RowsStep
<1> QED BY <1>1, <1>2, <1>3, <1>4 DEF Step, DataOK

(* Every action on prompts is a Step. *)
LEMMA ConsentStepOK ==
  ASSUME DataOK, ConsentStep PROVE Step
<1>1. CASE \E i \in Identities, ch \in Channels, issued \in 1..now : Begin(i, ch, issued)
  BY <1>1, BeginStep DEF ConsentStep
<1>2. ASSUME NEW c \in consents, MarkSlackVerified(c) PROVE Step
  <2>1. [c EXCEPT !.verified = TRUE] \in ConsentRow
    BY DEF DataOK, ConsentTypeOK, ConsentRow
  <2> QED BY <1>2, <2>1, NoNewRowsStep
       DEF ConsentStep, MarkSlackVerified, DataOK, ConsentTypeOK, VaultTypeOK, vaultVars
<1>3. CASE SweepStale
  BY <1>3, NoNewRowsStep DEF ConsentStep, SweepStale, DataOK, ConsentTypeOK, VaultTypeOK, vaultVars
<1> QED BY <1>1, <1>2, <1>3 DEF ConsentStep

(* Every action of the OAuth callback is a Step. *)
LEMMA CallbackStepOK ==
  ASSUME DataOK, NEW cb \in callbacks, Classify(cb) \/ FailCallback(cb) \/ Finalize(cb)
  PROVE  Step
<1>1. /\ cb \in Callback /\ cb.row \in ConsentRow /\ cb.synthetic \in BOOLEAN
      /\ cb.row.who \in Identities /\ cb.row.created \in Time /\ cb.row.state \in StateIds
  BY DEF DataOK, VaultTypeOK, Callback, ConsentRow
<1>2. CASE Classify(cb)
  <2>1. [cb EXCEPT !.pc = "exchanging"] \in Callback
    BY <1>1 DEF Callback
  <2>2. callbacks' \subseteq Callback
    BY <1>2, <2>1 DEF Classify, DataOK, VaultTypeOK
  <2>3. VaultTypeOK' /\ ConsentTypeOK'
    BY <1>2, <2>2 DEF Classify, DataOK, VaultTypeOK, ConsentTypeOK, consentVars
  <2> QED BY <1>2, <2>3, NoNewRowsStep DEF Classify, consentVars
<1>3. CASE FailCallback(cb)
  BY <1>3, NoNewRowsStep DEF FailCallback, DataOK, ConsentTypeOK, VaultTypeOK, consentVars
<1>4. CASE Finalize(cb)
  <2>1. CASE Provision(cb.row.who, cb.row.created, cb.synthetic, cb.row.state,
                       consents \ CurrentClaim(cb.row), tickets)
    <3> DEFINE cs == consents \ CurrentClaim(cb.row)
    <3>1. cs \in SUBSET consents /\ tickets \in SUBSET tickets
      OBVIOUS
    <3>2. callbacks' \subseteq callbacks
      BY <1>4 DEF Finalize
    <3> HIDE DEF cs
    <3> QED BY <1>1, <2>1, <3>1, <3>2, ProvisionStep DEF cs
  <2>2. CASE UNCHANGED <<consentVars, connection, tickets, written, fenceVars>>
    BY <1>4, <2>2, NoNewRowsStep DEF Finalize, DataOK, ConsentTypeOK, VaultTypeOK, consentVars
  <2> QED BY <1>4, <2>1, <2>2 DEF Finalize
<1> QED BY <1>2, <1>3, <1>4

(* Every writer and upkeep action is a Step. *)
LEMMA VaultStepOK ==
  ASSUME DataOK, VaultStep PROVE Step
<1>1. now \in Time /\ 1..now \subseteq Time
  BY MaxTimeAssumption DEF DataOK, FencesTypeOK, Time
<1>2. ASSUME NEW c \in consents, NEW synthetic \in Modes, Consume(c, synthetic) PROVE Step
  <2>1. c \in ConsentRow /\ [c EXCEPT !.consumed = TRUE] \in ConsentRow
    BY DEF DataOK, ConsentTypeOK, ConsentRow
  <2>2. synthetic \in BOOLEAN
    BY VaultAssumption
  <2>3. [pc |-> "claimed", row |-> c, expired |-> now > c.created + StateTTL,
         synthetic |-> synthetic] \in Callback
    BY <2>1, <2>2 DEF Callback
  <2> QED BY <1>2, <2>1, <2>3, NoNewRowsStep DEF Consume, DataOK, ConsentTypeOK, VaultTypeOK
<1>3. ASSUME NEW i \in Identities, NEW issued \in 1..now, IssueRequest(i, issued) PROVE Step
  <2>1. PICK n \in TicketIds \ used :
          /\ used' = used \cup {n}
          /\ tickets' = WithoutSatellites(OwnerOf(i), tickets)
               \cup {[id |-> n, owner |-> OwnerOf(i), created |-> issued]}
    BY <1>3 DEF IssueRequest
  <2>2. [id |-> n, owner |-> OwnerOf(i), created |-> issued] \in Ticket
    BY <1>1, OwnerInOwners DEF Ticket
  <2>3. tickets' \subseteq Ticket
    BY <2>1, <2>2 DEF WithoutSatellites, DataOK, VaultTypeOK
  <2>4. ConsentTypeOK' /\ used \subseteq used'
    BY <1>3, <2>1 DEF IssueRequest, DataOK, ConsentTypeOK
  <2>5. VaultTypeOK' /\ connection' = connection
    BY <1>3, <2>3 DEF IssueRequest, DataOK, VaultTypeOK
  <2> QED BY <1>3, <2>4, <2>5, NoNewRowsStep DEF IssueRequest
<1>4. ASSUME NEW t \in tickets, NEW i \in Identities, SubmitRequest(t, i) PROVE Step
  <2>1. t.id \in TicketIds /\ t.created \in Time /\ FALSE \in BOOLEAN
    BY DEF DataOK, VaultTypeOK, Ticket
  <2> DEFINE ts == tickets \ {t}
  <2>2. ts \in SUBSET tickets /\ consents \in SUBSET consents
    OBVIOUS
  <2>3. Provision(i, t.created, FALSE, t.id, consents, ts) /\ callbacks' \subseteq callbacks
    BY <1>4 DEF SubmitRequest
  <2> HIDE DEF ts
  <2> QED BY <2>1, <2>2, <2>3, ProvisionStep
<1>5. ASSUME NEW i \in Identities, NEW issued \in 1..now, NEW synthetic \in Modes,
             DirectWrite(i, issued, synthetic) PROVE Step
  <2>1. synthetic \in BOOLEAN /\ issued \in Time
    BY <1>1, VaultAssumption
  <2>2. consents \in SUBSET consents /\ tickets \in SUBSET tickets
    OBVIOUS
  <2>3. Provision(i, issued, synthetic, Direct, consents, tickets) /\ callbacks' \subseteq callbacks
    BY <1>5 DEF DirectWrite
  <2> QED BY <2>1, <2>2, <2>3, ProvisionStep
<1>6. CASE SweepRequests
  BY <1>6, NoNewRowsStep DEF SweepRequests, DataOK, ConsentTypeOK, VaultTypeOK, consentVars
<1>7. ASSUME NEW r \in connection, GrowIdle(r) \/ GrowOld(r) \/ Touch(r) \/ UpdateTokens(r)
      PROVE Step
  <2>1. r \in Row
    BY DEF DataOK, VaultTypeOK
  <2>2. \A b \in BOOLEAN : /\ [r EXCEPT !.idle = b] \in Row /\ Inherits([r EXCEPT !.idle = b], r)
                           /\ [r EXCEPT !.aged = b] \in Row /\ Inherits([r EXCEPT !.aged = b], r)
    BY <2>1 DEF Row, Inherits
  <2>3. Inherits([r EXCEPT !.tok = @ + 1], r)
    BY <2>1 DEF Row, Inherits
  <2>4. r.tok < MaxRefresh => [r EXCEPT !.tok = @ + 1] \in Row
    BY <2>1, VaultAssumption DEF Row
  <2> QED BY <1>7, <2>2, <2>3, <2>4, ReplaceStep DEF GrowIdle, GrowOld, Touch, UpdateTokens
<1>8. ASSUME NEW r \in connection, DeleteExpired(r) PROVE Step
  BY <1>8, NoNewRowsStep DEF DeleteExpired, DataOK, ConsentTypeOK, VaultTypeOK, consentVars,
                             WithoutSatellites
<1> QED BY <1>2, <1>3, <1>4, <1>5, <1>6, <1>7, <1>8, CallbackStepOK DEF VaultStep

(* The types and operands of the calls in progress. *)
CallOK ==
  /\ RemovalTypeOK
  /\ DisconnectTypeOK
  /\ OffboardTypeOK
  /\ BreakGlassTypeOK
  /\ ControlOK

(* A delete that a caller won keeps the types and only removes. *)
LEMMA DeleteRowOK ==
  ASSUME DataOK, RemovalTypeOK, NEW r \in connection, NEW p \in Disconnects \cup Removers,
         NEW purged \in BOOLEAN, DeleteRow(r, p, purged)
  PROVE  connection' \subseteq connection /\ tickets' \subseteq tickets /\ claimed' \subseteq Claimed
BY DEF DataOK, VaultTypeOK, RemovalTypeOK, Row, Claimed, DeleteRow, WithoutSatellites

(* A step that only removes data is a Step. *)
LEMMA DeletionStep ==
  ASSUME DataOK, UNCHANGED fenceVars, UNCHANGED consentVars, UNCHANGED callbacks,
         UNCHANGED written, connection' \subseteq connection, tickets' \subseteq tickets
  PROVE  Step
<1>1. ConsentTypeOK' /\ VaultTypeOK' /\ used \subseteq used'
  BY DEF DataOK, ConsentTypeOK, VaultTypeOK, consentVars
<1> QED BY <1>1, NoNewRowsStep

(* The shared delete is a Step and keeps the types of the calls. *)
LEMMA ClaimStepOK ==
  ASSUME DataOK, CallOK, ClaimStep, UNCHANGED <<disc, ob, cli>>
  PROVE  Step /\ CallOK'
<1> SUFFICES ASSUME NEW p \in Removers, ClaimFence(p) \/ ClaimDelete(p) \/ ClaimRetry(p)
             PROVE  Step /\ CallOK'
  BY DEF ClaimStep
<1>1. /\ claim[p] \in Claim /\ claim[p].owner \in Owners \cup {None}
      /\ claim[p].pc # "idle" => claim[p].owner \in Owners
  BY DEF CallOK, RemovalTypeOK, ControlOK, Claim
<1>2. ASSUME claim' \in [Removers -> Claim], claimed' \subseteq Claimed, sealed' = sealed,
             \A x \in Removers : claim'[x].pc # "idle" => claim'[x].owner \in Owners
      PROVE  CallOK'
  BY <1>2 DEF CallOK, RemovalTypeOK, DisconnectTypeOK, OffboardTypeOK, BreakGlassTypeOK, ControlOK
<1>3. ASSUME NEW pc \in {"delete", "removed", "absent", "failed"}, claim[p].pc # "idle",
             claim' = [claim EXCEPT ![p].pc = pc]
      PROVE  /\ claim' \in [Removers -> Claim]
             /\ \A x \in Removers : claim'[x].pc # "idle" => claim'[x].owner \in Owners
  BY <1>1, <1>3 DEF CallOK, RemovalTypeOK, ControlOK, Claim
<1>4. CASE ClaimFence(p)
  <2>1. CallOK'
    BY <1>2, <1>3, <1>4 DEF ClaimFence, CallOK, RemovalTypeOK
  <2>2. CASE MarkProvisioningRevoked(ExactScope(claim[p].owner))
    <3>1. ExactScope(claim[p].owner) \in RevScopes
      BY <1>1, <1>4 DEF ClaimFence, RevScopes, OwnerProvisioningScopes
    <3>2. FencesTypeOK' /\ FencesGrow
      BY <2>2, <3>1, MarkRevokedStep DEF DataOK
    <3> QED BY <1>4, <2>1, <3>2 DEF ClaimFence, Step, DataOK, ConsentTypeOK, VaultTypeOK,
                                    consentVars, vaultVars, RowsStep
  <2>3. CASE UNCHANGED fenceVars
    BY <1>4, <2>1, <2>3, DeletionStep DEF ClaimFence, vaultVars
  <2> QED BY <1>4, <2>2, <2>3 DEF ClaimFence
<1>5. CASE ClaimDelete(p) \/ ClaimRetry(p)
  <2>1. \/ NothingDeleted
        \/ \E r \in connection, purged \in BOOLEAN : DeleteRow(r, p, purged)
    BY <1>5 DEF ClaimDelete, ClaimRetry, RetryMatch, RowsOf
  <2>2. connection' \subseteq connection /\ tickets' \subseteq tickets /\ claimed' \subseteq Claimed
    BY <2>1, DeleteRowOK DEF NothingDeleted, CallOK, RemovalTypeOK
  <2>3. ASSUME NEW r \in RowsOf(claim[p].owner), claim[p].pc # "idle",
               claim' = [claim EXCEPT ![p] = [@ EXCEPT !.pc = "retry", !.id = r.id, !.tok = r.tok]]
        PROVE  /\ claim' \in [Removers -> Claim]
               /\ \A x \in Removers : claim'[x].pc # "idle" => claim'[x].owner \in Owners
    <3>1. r.id \in GenIds /\ r.tok \in 0..MaxRefresh
      BY DEF RowsOf, DataOK, VaultTypeOK, Row
    <3> QED BY <1>1, <2>3, <3>1 DEF CallOK, RemovalTypeOK, ControlOK, Claim
  <2>4. /\ claim' \in [Removers -> Claim]
        /\ \A x \in Removers : claim'[x].pc # "idle" => claim'[x].owner \in Owners
    BY <1>3, <1>5, <2>3 DEF ClaimDelete, ClaimRetry
  <2>5. CallOK' /\ UNCHANGED <<fenceVars, consentVars, callbacks, written>>
    BY <1>2, <1>5, <2>2, <2>4 DEF ClaimDelete, ClaimRetry
  <2> QED BY <2>2, <2>5, DeletionStep
<1> QED BY <1>4, <1>5

(* A disconnect is a Step and keeps the types of the calls. *)
LEMMA DisconnectStepOK ==
  ASSUME DataOK, CallOK, DisconnectStep, UNCHANGED <<ob, cli>>
  PROVE  Step /\ CallOK'
<1> SUFFICES ASSUME NEW d \in Disconnects,
                    \/ \E i \in Identities, issued \in 1..now, expected \in (GenIds \cap used) \cup {None} :
                         PrepareDisconnect(d, i, issued, expected)
                    \/ DeletePrepared(d)
                    \/ \E upstreamOk \in BOOLEAN : SettleDisconnect(d, upstreamOk)
             PROVE  Step /\ CallOK'
  BY DEF DisconnectStep
<1>1. /\ disc[d] \in DisconnectRequest
      /\ disc[d].pc # "idle" => disc[d].who \in Identities
  BY DEF CallOK, DisconnectTypeOK, ControlOK
<1>2. ASSUME disc' \in [Disconnects -> DisconnectRequest], claim' = claim,
             claimed' \subseteq Claimed, sealed' \subseteq Seal,
             \A x \in Disconnects : disc'[x].pc # "idle" => disc'[x].who \in Identities
      PROVE  CallOK'
  BY <1>2 DEF CallOK, RemovalTypeOK, DisconnectTypeOK, OffboardTypeOK, BreakGlassTypeOK, ControlOK
<1>3. ASSUME NEW pc \in {"settle", "done"}, NEW removed \in BOOLEAN, disc[d].pc # "idle",
             disc' = [disc EXCEPT ![d] = [@ EXCEPT !.pc = pc, !.removed = removed]]
      PROVE  /\ disc' \in [Disconnects -> DisconnectRequest]
             /\ \A x \in Disconnects : disc'[x].pc # "idle" => disc'[x].who \in Identities
  BY <1>1, <1>3 DEF CallOK, DisconnectTypeOK, ControlOK, DisconnectRequest
<1>4. disc[d].removed \in BOOLEAN /\ disc[d] = [disc[d] EXCEPT !.removed = disc[d].removed]
  BY <1>1 DEF DisconnectRequest
<1>5. ASSUME NEW pc, disc' = [disc EXCEPT ![d].pc = pc]
      PROVE  disc' = [disc EXCEPT ![d] = [@ EXCEPT !.pc = pc, !.removed = disc[d].removed]]
  BY <1>1, <1>5 DEF DisconnectRequest, CallOK, DisconnectTypeOK
<1>6. ASSUME NEW i \in Identities, NEW issued \in 1..now, NEW expected \in (GenIds \cap used) \cup {None},
             PrepareDisconnect(d, i, issued, expected)
      PROVE  Step /\ CallOK'
  <2>1. PICK fenced \in BOOLEAN, snap \in GenIds \cup {None} :
       /\ \/ fenced /\ MarkProvisioningRevoked(ExactScope(OwnerOf(i)))
          \/ ~fenced /\ Faults /\ UNCHANGED fenceVars
       /\ disc' = [disc EXCEPT ![d] =
            [ pc |-> IF snap = None THEN "settle" ELSE "prepared", who |-> i, issued |-> issued,
              expected |-> expected, snap |-> snap, fenced |-> fenced, at |-> now,
              removed |-> FALSE ]]
    BY <1>6 DEF PrepareDisconnect
  <2>2. FencesTypeOK' /\ FencesGrow
    <3>1. ExactScope(OwnerOf(i)) \in RevScopes
      BY OwnerInOwners DEF RevScopes, OwnerProvisioningScopes
    <3> QED BY <2>1, <3>1, QuietFences, MarkRevokedStep DEF DataOK
  <2>3. now \in Time /\ issued \in Time
    BY MaxTimeAssumption DEF DataOK, FencesTypeOK, Time
  <2>4. [ pc |-> IF snap = None THEN "settle" ELSE "prepared", who |-> i, issued |-> issued,
          expected |-> expected, snap |-> snap, fenced |-> fenced, at |-> now,
          removed |-> FALSE ] \in DisconnectRequest
    BY <2>3 DEF DisconnectRequest
  <2>5. /\ disc' \in [Disconnects -> DisconnectRequest]
        /\ \A x \in Disconnects : disc'[x].pc # "idle" => disc'[x].who \in Identities
    BY <2>1, <2>4 DEF CallOK, DisconnectTypeOK, ControlOK
  <2>6. CallOK'
    BY <1>2, <1>6, <2>5 DEF PrepareDisconnect, removalVars, CallOK, RemovalTypeOK
  <2> QED BY <1>6, <2>2, <2>6 DEF PrepareDisconnect, Step, DataOK, ConsentTypeOK, VaultTypeOK,
                                  consentVars, vaultVars, RowsStep
<1>7. CASE DeletePrepared(d)
  <2>1. /\ disc' \in [Disconnects -> DisconnectRequest]
        /\ \A x \in Disconnects : disc'[x].pc # "idle" => disc'[x].who \in Identities
    BY <1>3, <1>4, <1>5, <1>7 DEF DeletePrepared
  <2>2. \/ NothingDeleted
        \/ \E r \in connection, purged \in BOOLEAN : DeleteRow(r, d, purged)
    BY <1>7, RemovalAssumption DEF DeletePrepared, ExactRows, RowsOf
  <2>3. connection' \subseteq connection /\ tickets' \subseteq tickets /\ claimed' \subseteq Claimed
    BY <2>2, DeleteRowOK DEF NothingDeleted, CallOK, RemovalTypeOK
  <2>4. CallOK'
    BY <1>2, <1>7, <2>1, <2>3 DEF DeletePrepared, CallOK, RemovalTypeOK
  <2> QED BY <1>7, <2>3, <2>4, DeletionStep DEF DeletePrepared
<1>8. ASSUME NEW upstreamOk \in BOOLEAN, SettleDisconnect(d, upstreamOk) PROVE Step /\ CallOK'
  <2>1. /\ disc' \in [Disconnects -> DisconnectRequest]
        /\ \A x \in Disconnects : disc'[x].pc # "idle" => disc'[x].who \in Identities
    BY <1>3, <1>4, <1>5, <1>8 DEF SettleDisconnect
  <2>2. [ kind |-> "disconnect", owner |-> OwnerOf(disc[d].who), ents |-> Enterprises,
          at |-> disc[d].at ] \in Seal
    BY <1>1, <1>8, OwnerInOwners DEF SettleDisconnect, Seal, DisconnectRequest
  <2>3. CallOK'
    BY <1>2, <1>8, <2>1, <2>2 DEF SettleDisconnect, CallOK, RemovalTypeOK
  <2> QED BY <1>8, <2>3, DeletionStep DEF SettleDisconnect, vaultVars
<1> QED BY <1>6, <1>7, <1>8

(* Starting the shared delete keeps its type. *)
LEMMA StartClaimOK ==
  ASSUME CallOK, NEW p \in Removers, NEW o \in Owners, StartClaim(p, o)
  PROVE  /\ claim' \in [Removers -> Claim]
         /\ \A x \in Removers : claim'[x].pc # "idle" => claim'[x].owner \in Owners
<1>1. [pc |-> "fence", owner |-> o, id |-> None, tok |-> 0] \in Claim
  BY VaultAssumption DEF Claim
<1> QED BY <1>1 DEF CallOK, RemovalTypeOK, ControlOK, StartClaim

(* An offboarding is a Step and keeps the types of the calls. *)
LEMMA OffboardStepOK ==
  ASSUME DataOK, CallOK, OffboardStep, UNCHANGED <<disc, cli>>
  PROVE  Step /\ CallOK'
<1> DEFINE Calls == Offboards \cup Sweeps
           Busy(pc) == pc \notin {"idle", "discover", "next", "done"}
<1> USE DEF Busy
<1>1. now \in Time
  BY MaxTimeAssumption DEF DataOK, FencesTypeOK, Time
<1>2. ASSUME NEW p \in Calls
      PROVE  /\ ob[p] \in Offboarding
             /\ p \in Removers
             /\ Busy(ob[p].pc) => ob[p].owner \in Owners
  BY DEF CallOK, OffboardTypeOK, ControlOK, Removers
<1>3. ASSUME ob' \in [Calls -> Offboarding], claim' \in [Removers -> Claim],
             claimed' = claimed, sealed' \subseteq Seal,
             \A x \in Removers : claim'[x].pc # "idle" => claim'[x].owner \in Owners,
             \A x \in Calls : Busy(ob'[x].pc) => ob'[x].owner \in Owners
      PROVE  CallOK'
  BY <1>3 DEF CallOK, RemovalTypeOK, DisconnectTypeOK, OffboardTypeOK, BreakGlassTypeOK, ControlOK
<1>4. ASSUME NEW p \in Calls, NEW new \in Offboarding, ob' = [ob EXCEPT ![p] = new],
             Busy(new.pc) => new.owner \in Owners
      PROVE  /\ ob' \in [Calls -> Offboarding]
             /\ \A x \in Calls : Busy(ob'[x].pc) => ob'[x].owner \in Owners
  BY <1>4 DEF CallOK, OffboardTypeOK, ControlOK
<1>5. ASSUME UNCHANGED removalVars, ob' \in [Calls -> Offboarding],
             \A x \in Calls : Busy(ob'[x].pc) => ob'[x].owner \in Owners
      PROVE  CallOK'
  <2>1. /\ claim' \in [Removers -> Claim] /\ claimed' = claimed /\ sealed' \subseteq Seal
        /\ \A x \in Removers : claim'[x].pc # "idle" => claim'[x].owner \in Owners
    BY <1>5 DEF CallOK, RemovalTypeOK, ControlOK, removalVars
  <2> QED BY <1>3, <1>5, <2>1
<1>6. ASSUME FencesTypeOK', FencesGrow, UNCHANGED <<consentVars, vaultVars>> PROVE Step
  BY <1>6 DEF Step, DataOK, ConsentTypeOK, VaultTypeOK, consentVars, vaultVars, RowsStep
<1>7. ASSUME NEW p \in Sweeps, NEW e \in Enterprises \cup {NoEnterprise}, NEW u \in Users,
             MarkEverywhere(p, e, u)
      PROVE  Step /\ CallOK'
  <2> DEFINE new == [ob[p] EXCEPT !.pc = "discover", !.ent = e, !.user = u, !.scopeAt = now]
  <2>1. new \in Offboarding /\ ~Busy(new.pc) /\ ob' = [ob EXCEPT ![p] = new]
    BY <1>1, <1>2, <1>7 DEF Offboarding, MarkEverywhere
  <2>2. Step
    BY <1>6, <1>7, MarkOffboardedStep DEF MarkEverywhere, DataOK
  <2> HIDE DEF new
  <2> QED BY <1>4, <1>5, <1>7, <2>1, <2>2 DEF MarkEverywhere
<1>8. ASSUME NEW p \in Sweeps, Discover(p) PROVE Step /\ CallOK'
  <2> DEFINE new == [ob[p] EXCEPT !.pc = "next", !.todo = Discovered(ob[p].ent, ob[p].user)]
  <2>1. new \in Offboarding /\ ~Busy(new.pc) /\ ob' = [ob EXCEPT ![p] = new]
    BY <1>2, <1>8 DEF Offboarding, Discover, Discovered
  <2> HIDE DEF new
  <2> QED BY <1>4, <1>5, <1>8, <2>1, DeletionStep DEF Discover, vaultVars
<1>9. ASSUME NEW p \in Sweeps, EndEverywhere(p) PROVE Step /\ CallOK'
  <2> DEFINE new == [ob[p] EXCEPT !.pc = "done"]
  <2>1. new \in Offboarding /\ ~Busy(new.pc) /\ ob' = [ob EXCEPT ![p] = new]
    BY <1>2, <1>9 DEF Offboarding, EndEverywhere
  <2>2. sealed' \subseteq Seal
    <3>1. CoveredEnterprises(ob[p].ent) \subseteq Enterprises /\ ob[p].scopeAt \in Time
      BY <1>2 DEF CoveredEnterprises, Offboarding
    <3> QED BY <1>9, <3>1 DEF EndEverywhere, Seal, CallOK, RemovalTypeOK
  <2>3. claim' \in [Removers -> Claim]
        /\ \A x \in Removers : claim'[x].pc # "idle" => claim'[x].owner \in Owners
    BY <1>9 DEF EndEverywhere, CallOK, RemovalTypeOK, ControlOK
  <2> HIDE DEF new
  <2>4. CallOK'
    BY <1>3, <1>4, <1>9, <2>1, <2>2, <2>3 DEF EndEverywhere
  <2> QED BY <1>9, <2>4, DeletionStep DEF EndEverywhere, vaultVars
<1>10. ASSUME NEW p \in Calls, NEW o \in Owners, MarkTeam(p, o) PROVE Step /\ CallOK'
  <2>1. PICK gated \in {TRUE, ~Faults} :
       /\ IF gated THEN MarkOffboarded({TeamScope(o)}) ELSE UNCHANGED fenceVars
       /\ ob' = [ob EXCEPT ![p] =
            [@ EXCEPT !.pc = "consents", !.todo = ob[p].todo \ {o}, !.owner = o, !.at = now,
                      !.gated = gated, !.failed = FALSE]]
    BY <1>10 DEF MarkTeam
  <2>2. gated \in BOOLEAN
    BY RemovalAssumption
  <2> DEFINE new == [ob[p] EXCEPT !.pc = "consents", !.todo = ob[p].todo \ {o}, !.owner = o, !.at = now,
                                  !.gated = gated, !.failed = FALSE]
  <2>3. new \in Offboarding /\ new.owner \in Owners /\ ob' = [ob EXCEPT ![p] = new]
    <3>1. ob[p] \in Offboarding /\ ob[p].todo \ {o} \in SUBSET Owners
      BY <1>2 DEF Offboarding
    <3>2. new \in Offboarding
      BY <1>1, <2>2, <3>1 DEF Offboarding
    <3>3. ob' = [ob EXCEPT ![p] = new]
      BY <2>1
    <3>4. new.owner = o
      BY <3>1 DEF Offboarding
    <3> QED BY <3>2, <3>3, <3>4
  <2>4. FencesTypeOK' /\ FencesGrow
    BY <2>1, <2>2, MarkOffboardedStep, QuietFences DEF DataOK
  <2> HIDE DEF new
  <2> QED BY <1>4, <1>5, <1>6, <1>10, <2>3, <2>4 DEF MarkTeam
<1>11. ASSUME NEW p \in Calls, PurgeConsents(p) PROVE Step /\ CallOK'
  <2> DEFINE new == [ob[p] EXCEPT !.pc = "tickets"]
  <2>1. new \in Offboarding /\ new.owner \in Owners /\ ob' = [ob EXCEPT ![p] = new]
    BY <1>2, <1>11 DEF Offboarding, PurgeConsents
  <2>2. ConsentTypeOK' /\ VaultTypeOK' /\ used \subseteq used' /\ connection' = connection
    BY <1>11 DEF PurgeConsents, DataOK, ConsentTypeOK, VaultTypeOK, vaultVars
  <2> HIDE DEF new
  <2> QED BY <1>4, <1>5, <1>11, <2>1, <2>2, NoNewRowsStep DEF PurgeConsents
<1>12. ASSUME NEW p \in Calls, PurgeRequests(p) PROVE Step /\ CallOK'
  <2> DEFINE new == [ob[p] EXCEPT !.pc = "list"]
  <2>1. new \in Offboarding /\ new.owner \in Owners /\ ob' = [ob EXCEPT ![p] = new]
    BY <1>2, <1>12 DEF Offboarding, PurgeRequests
  <2>2. tickets' \subseteq tickets /\ connection' = connection
    BY <1>12 DEF PurgeRequests
  <2> HIDE DEF new
  <2> QED BY <1>4, <1>5, <1>12, <2>1, <2>2, DeletionStep DEF PurgeRequests
<1>13. ASSUME NEW p \in Calls, ListConnections(p) PROVE Step /\ CallOK'
  <2>1. PICK new \in Offboarding : new.owner \in Owners /\ ob' = [ob EXCEPT ![p] = new]
    <3>1. \A pc \in {"finish", "removing"} : /\ [ob[p] EXCEPT !.pc = pc] \in Offboarding
                                             /\ [ob[p] EXCEPT !.pc = pc].owner \in Owners
      BY <1>2, <1>13 DEF Offboarding, ListConnections
    <3>2. /\ [ob[p] EXCEPT !.pc = "finish", !.failed = TRUE] \in Offboarding
          /\ [ob[p] EXCEPT !.pc = "finish", !.failed = TRUE].owner \in Owners
      BY <1>2, <1>13 DEF Offboarding, ListConnections
    <3> QED BY <1>13, <3>1, <3>2 DEF ListConnections
  <2>2. /\ claim' \in [Removers -> Claim]
        /\ \A x \in Removers : claim'[x].pc # "idle" => claim'[x].owner \in Owners
    <3>1. ob[p].owner \in Owners /\ p \in Removers
      BY <1>2, <1>13 DEF ListConnections
    <3>2. CASE UNCHANGED claim
      BY <3>2 DEF CallOK, RemovalTypeOK, ControlOK
    <3> QED BY <1>13, <3>1, <3>2, StartClaimOK DEF ListConnections
  <2>3. claimed' = claimed /\ sealed' \subseteq Seal
    BY <1>13 DEF ListConnections, CallOK, RemovalTypeOK
  <2>4. CallOK'
    BY <1>3, <1>4, <2>1, <2>2, <2>3
  <2> QED BY <1>13, <2>4, DeletionStep DEF ListConnections, vaultVars
<1>14. ASSUME NEW p \in Calls, Removed(p) PROVE Step /\ CallOK'
  <2> DEFINE new == [ob[p] EXCEPT !.pc = "finish", !.failed = claim[p].pc = "failed"]
  <2>1. new \in Offboarding /\ new.owner \in Owners /\ ob' = [ob EXCEPT ![p] = new]
    BY <1>2, <1>14 DEF Offboarding, Removed
  <2> HIDE DEF new
  <2> QED BY <1>4, <1>5, <1>14, <2>1, DeletionStep DEF Removed, vaultVars
<1>15. ASSUME NEW p \in Calls, FinishTeam(p) PROVE Step /\ CallOK'
  <2> DEFINE new == [ob[p] EXCEPT !.pc = IF p \in Sweeps THEN "next" ELSE "done",
                                  !.clean = ob[p].clean /\ Complete(p)]
  <2>1. /\ new \in Offboarding /\ ~Busy(new.pc) /\ ob' = [ob EXCEPT ![p] = new]
        /\ ob[p].owner \in Owners /\ ob[p].at \in Time
    <3>1. ob[p] \in Offboarding /\ (ob[p].clean /\ Complete(p)) \in BOOLEAN
      BY <1>2 DEF Offboarding, Complete
    <3>2. new \in Offboarding
      BY <3>1 DEF Offboarding
    <3>3. ob' = [ob EXCEPT ![p] = new]
      BY <1>15 DEF FinishTeam
    <3>4. ~Busy(new.pc)
      BY <3>1 DEF Offboarding
    <3>5. ob[p].owner \in Owners /\ ob[p].at \in Time
      BY <1>2, <1>15 DEF FinishTeam, Offboarding
    <3> QED BY <3>2, <3>3, <3>4, <3>5
  <2>2. [ kind |-> "offboard", owner |-> ob[p].owner, ents |-> Enterprises, at |-> ob[p].at ] \in Seal
    BY <2>1 DEF Seal
  <2>3. /\ claim' \in [Removers -> Claim] /\ claimed' = claimed /\ sealed' \subseteq Seal
        /\ \A x \in Removers : claim'[x].pc # "idle" => claim'[x].owner \in Owners
    BY <1>15, <2>2 DEF FinishTeam, CallOK, RemovalTypeOK, ControlOK
  <2> HIDE DEF new
  <2>4. CallOK'
    BY <1>3, <1>4, <2>1, <2>3
  <2> QED BY <1>15, <2>4, DeletionStep DEF FinishTeam, vaultVars
<1> QED
  BY <1>7, <1>8, <1>9, <1>10, <1>11, <1>12, <1>13, <1>14, <1>15 DEF OffboardStep

(* A break-glass command is a Step and keeps the types of the calls. *)
LEMMA BreakGlassStepOK ==
  ASSUME DataOK, CallOK, BreakGlassStep, UNCHANGED <<disc, ob>>
  PROVE  Step /\ CallOK'
<1> DEFINE Ready(c) == /\ c.pc # "idle" => c.scope \in RevScopes
                       /\ c.pc \in {"rows", "removing"} => c.round < 2
<1>1. now \in Time
  BY MaxTimeAssumption DEF DataOK, FencesTypeOK, Time
<1>2. ASSUME NEW q \in Revokers
      PROVE  /\ cli[q] \in Command
             /\ q \in Removers
             /\ Ready(cli[q])
  BY DEF CallOK, BreakGlassTypeOK, ControlOK, Removers
<1>3. ASSUME NEW q \in Revokers, NEW new \in Command, Ready(new),
             cli' = [cli EXCEPT ![q] = new], claim' \in [Removers -> Claim],
             claimed' = claimed, sealed' \subseteq Seal,
             \A x \in Removers : claim'[x].pc # "idle" => claim'[x].owner \in Owners
      PROVE  CallOK'
  BY <1>3 DEF CallOK, RemovalTypeOK, DisconnectTypeOK, OffboardTypeOK, BreakGlassTypeOK, ControlOK
<1>4. ASSUME NEW q \in Revokers, NEW new \in Command, Ready(new),
             cli' = [cli EXCEPT ![q] = new], claim' = claim, claimed' = claimed, sealed' \subseteq Seal
      PROVE  CallOK'
  <2>1. /\ claim' \in [Removers -> Claim]
        /\ \A x \in Removers : claim'[x].pc # "idle" => claim'[x].owner \in Owners
    BY <1>4 DEF CallOK, RemovalTypeOK, ControlOK
  <2> QED BY <1>3, <1>4, <2>1
<1>5. sealed \subseteq Seal
  BY DEF CallOK, RemovalTypeOK
<1>6. ASSUME NEW q \in Revokers, NEW s \in RevScopes, MarkScope(q, s) PROVE Step /\ CallOK'
  <2> DEFINE new == [cli[q] EXCEPT !.pc = "purge", !.scope = s, !.at = now]
  <2>1. new \in Command /\ Ready(new) /\ cli' = [cli EXCEPT ![q] = new]
    BY <1>1, <1>2, <1>6 DEF Command, MarkScope
  <2>2. FencesTypeOK' /\ FencesGrow
    BY <1>6, MarkRevokedStep DEF MarkScope, DataOK
  <2> HIDE DEF new
  <2>3. CallOK'
    BY <1>4, <1>5, <1>6, <2>1 DEF MarkScope, removalVars
  <2> QED BY <1>6, <2>2, <2>3 DEF MarkScope, Step, DataOK, ConsentTypeOK, VaultTypeOK,
                                  consentVars, vaultVars, RowsStep
<1>7. ASSUME NEW q \in Revokers, PurgePending(q) PROVE Step /\ CallOK'
  <2>1. PICK new \in Command : Ready(new) /\ cli' = [cli EXCEPT ![q] = new]
    <3>1. \A pc \in {"select", "done"} : /\ [cli[q] EXCEPT !.pc = pc] \in Command
                                         /\ Ready([cli[q] EXCEPT !.pc = pc])
      BY <1>2, <1>7 DEF Command, PurgePending
    <3> QED BY <1>7, <3>1 DEF PurgePending
  <2>2. ConsentTypeOK' /\ VaultTypeOK' /\ used \subseteq used' /\ connection' = connection
    BY <1>7 DEF PurgePending, DataOK, ConsentTypeOK, VaultTypeOK
  <2>3. CallOK'
    BY <1>4, <1>5, <1>7, <2>1 DEF PurgePending, removalVars
  <2> QED BY <1>7, <2>2, <2>3, NoNewRowsStep DEF PurgePending
<1>8. ASSUME NEW q \in Revokers, SelectRows(q) PROVE Step /\ CallOK'
  <2> DEFINE new == [cli[q] EXCEPT !.pc = "rows", !.batch = SelectRevocations(q)]
  <2>1. new \in Command /\ Ready(new) /\ cli' = [cli EXCEPT ![q] = new]
    BY <1>2, <1>8 DEF Command, SelectRows, SelectRevocations, InScope
  <2> HIDE DEF new
  <2>2. CallOK'
    BY <1>4, <1>5, <1>8, <2>1 DEF SelectRows, removalVars
  <2> QED BY <1>8, <2>2, DeletionStep DEF SelectRows, vaultVars
<1>9. ASSUME NEW q \in Revokers, NEW o \in Owners, RevokeRow(q, o) PROVE Step /\ CallOK'
  <2> DEFINE new == [cli[q] EXCEPT !.pc = "removing", !.batch = cli[q].batch \ {o}]
  <2>1. new \in Command /\ Ready(new) /\ cli' = [cli EXCEPT ![q] = new]
    <3>1. cli[q] \in Command /\ cli[q].batch \ {o} \in SUBSET Owners
      BY <1>2 DEF Command
    <3>2. new \in Command
      BY <3>1 DEF Command
    <3>3. cli' = [cli EXCEPT ![q] = new]
      BY <1>9 DEF RevokeRow
    <3>4. Ready(new)
      BY <1>2, <1>9, <3>1 DEF Command, RevokeRow
    <3> QED BY <3>2, <3>3, <3>4
  <2> HIDE DEF new
  <2>2. /\ claim' \in [Removers -> Claim]
        /\ \A x \in Removers : claim'[x].pc # "idle" => claim'[x].owner \in Owners
    BY <1>2, <1>9, StartClaimOK DEF RevokeRow
  <2>3. CallOK'
    BY <1>3, <1>5, <1>9, <2>1, <2>2 DEF RevokeRow
  <2> QED BY <1>9, <2>3, DeletionStep DEF RevokeRow, vaultVars
<1>10. ASSUME NEW q \in Revokers, RowRevoked(q) PROVE Step /\ CallOK'
  <2> DEFINE new == [cli[q] EXCEPT !.pc = "rows"]
  <2>1. new \in Command /\ Ready(new) /\ cli' = [cli EXCEPT ![q] = new]
    BY <1>2, <1>10 DEF Command, RowRevoked
  <2>2. ConsentTypeOK' /\ VaultTypeOK' /\ used \subseteq used' /\ connection' = connection
    BY <1>10 DEF RowRevoked, DataOK, ConsentTypeOK, VaultTypeOK, vaultVars
  <2> HIDE DEF new
  <2>3. CallOK'
    BY <1>4, <1>5, <1>10, <2>1 DEF RowRevoked, removalVars
  <2> QED BY <1>10, <2>2, <2>3, NoNewRowsStep DEF RowRevoked
<1>11. ASSUME NEW q \in Revokers, EndRound(q) PROVE Step /\ CallOK'
  <2> DEFINE new == [cli[q] EXCEPT !.pc = "select", !.round = cli[q].round + 1]
  <2>1. cli[q].round \in {0, 1}
    BY <1>2, <1>11 DEF Command, EndRound
  <2>2. new \in Command /\ Ready(new) /\ cli' = [cli EXCEPT ![q] = new]
    <3>1. cli[q] \in Command /\ cli[q].round + 1 \in 0..2
      BY <1>2, <2>1
    <3>2. new \in Command
      BY <3>1 DEF Command
    <3>3. cli' = [cli EXCEPT ![q] = new]
      BY <1>11 DEF EndRound
    <3>4. Ready(new)
      BY <1>2, <1>11, <3>1 DEF Command, EndRound
    <3> QED BY <3>2, <3>3, <3>4
  <2> HIDE DEF new
  <2>3. CallOK'
    BY <1>4, <1>5, <1>11, <2>2 DEF EndRound, removalVars
  <2> QED BY <1>11, <2>3, DeletionStep DEF EndRound, vaultVars
<1>12. ASSUME NEW q \in Revokers, Exit(q) PROVE Step /\ CallOK'
  <2> DEFINE new == [cli[q] EXCEPT !.pc = "done"]
  <2>1. new \in Command /\ Ready(new) /\ cli' = [cli EXCEPT ![q] = new]
    BY <1>2, <1>12 DEF Command, Exit
  <2>2. sealed' \subseteq Seal
    <3>1. cli[q].at \in Time
      BY <1>2 DEF Command
    <3> QED BY <1>5, <1>12, <3>1 DEF Exit, Seal, InScope
  <2> HIDE DEF new
  <2>3. CallOK'
    BY <1>4, <1>12, <2>1, <2>2 DEF Exit
  <2> QED BY <1>12, <2>3, DeletionStep DEF Exit, vaultVars
<1> QED BY <1>6, <1>7, <1>8, <1>9, <1>10, <1>11, <1>12 DEF BreakGlassStep

(* The initial state is typed. *)
LEMMA InitOK == Init => DataOK /\ CallOK
<1> SUFFICES ASSUME Init PROVE DataOK /\ CallOK
  OBVIOUS
<1>1. DataOK
  BY MaxTimeAssumption DEF Init, FencesInit, ConsentInit, VaultInit, DataOK, FencesTypeOK,
                           ConsentTypeOK, VaultTypeOK, Time
<1>2. RemovalTypeOK
  BY VaultAssumption DEF Init, RemovalInit, RemovalTypeOK, NoClaim, Claim
<1>3. DisconnectTypeOK /\ OffboardTypeOK /\ BreakGlassTypeOK
  BY MaxTimeAssumption DEF Init, DisconnectInit, OffboardInit, BreakGlassInit, DisconnectTypeOK,
     OffboardTypeOK, BreakGlassTypeOK, DisconnectRequest, Offboarding, Command, Time
<1>4. ControlOK
  BY DEF Init, DisconnectInit, OffboardInit, BreakGlassInit, RemovalInit, NoClaim, ControlOK
<1> QED BY <1>1, <1>2, <1>3, <1>4 DEF CallOK

(* Every step of the system is a Step and keeps the types of the calls. *)
LEMMA NextOK ==
  ASSUME DataOK, CallOK, [Next]_vars PROVE Step /\ CallOK'
<1>1. CASE Clock /\ UNCHANGED <<removalVars, disc, ob, cli>>
  <2>1. FencesTypeOK' /\ FencesGrow
    BY <1>1, TickStep DEF Clock, DataOK
  <2>2. Step
    BY <1>1, <2>1 DEF Clock, Step, DataOK, ConsentTypeOK, VaultTypeOK, consentVars, vaultVars, RowsStep
  <2> QED BY <1>1, <2>2 DEF CallOK, RemovalTypeOK, DisconnectTypeOK, OffboardTypeOK,
                            BreakGlassTypeOK, ControlOK, removalVars
<1>2. CASE (ConsentStep \/ VaultStep) /\ UNCHANGED <<removalVars, disc, ob, cli>>
  <2>1. Step
    BY <1>2, ConsentStepOK, VaultStepOK
  <2> QED BY <1>2, <2>1 DEF CallOK, RemovalTypeOK, DisconnectTypeOK, OffboardTypeOK,
                            BreakGlassTypeOK, ControlOK, removalVars
<1>3. CASE UNCHANGED vars
  <2>1. Step
    BY <1>3, DeletionStep DEF vars, vaultVars
  <2> QED BY <1>3, <2>1 DEF CallOK, RemovalTypeOK, DisconnectTypeOK, OffboardTypeOK,
                            BreakGlassTypeOK, ControlOK, removalVars, vars
<1> QED BY <1>1, <1>2, <1>3, ClaimStepOK, DisconnectStepOK, OffboardStepOK, BreakGlassStepOK DEF Next

(* Every table, fence and control state keeps its type, for every set of   *)
(* identities, ids, callers and bounds.                                    *)
THEOREM TypeCorrect == Spec => []TypeOK
<1>1. Init => DataOK /\ CallOK
  BY InitOK
<1>2. DataOK /\ CallOK /\ [Next]_vars => DataOK' /\ CallOK'
  BY NextOK DEF Step
<1>3. DataOK /\ CallOK => TypeOK
  BY DEF DataOK, CallOK, TypeOK
<1> QED BY <1>1, <1>2, <1>3, PTL DEF Spec

----------------------------------------------------------------------------

(* The scopes an identity is checked against have tombstones. *)
LEMMA ScopesTyped ==
  ASSUME NEW i \in Identities
  PROVE  /\ IdentityOffboardScopes(i) \subseteq OffScopes
         /\ OwnerProvisioningScopes(OwnerOf(i)) \subseteq RevScopes
BY OwnerInOwners DEF OffScopes, RevScopes

(* What blocks an authority blocks every older one. *)
LEMMA BlocksOlder ==
  ASSUME FencesTypeOK, NEW i \in Identities, NEW at \in Time, NEW minted \in Time,
         minted <= at, LifecycleBlocks(i, at)
  PROVE  LifecycleBlocks(i, minted)
BY ScopesTyped, MaxTimeAssumption
   DEF FencesTypeOK, Time, LifecycleBlocks, OffBlocks, RevBlocks, TombstoneBlocks

(* What is blocked stays blocked. *)
LEMMA BlocksStable ==
  ASSUME FencesTypeOK, FencesTypeOK', FencesGrow, NEW i \in Identities, NEW at \in Time,
         LifecycleBlocks(i, at)
  PROVE  LifecycleBlocks(i, at)'
BY ScopesTyped, MaxTimeAssumption
   DEF FencesTypeOK, FencesGrow, Time, LifecycleBlocks, OffBlocks, RevBlocks, TombstoneBlocks

(* What is fenced stays fenced. *)
LEMMA FencedStable ==
  ASSUME FencesTypeOK, FencesTypeOK', FencesGrow, NEW o, NEW ents, NEW at \in Time,
         Fenced(o, ents, at)
  PROVE  Fenced(o, ents, at)'
BY BlocksStable DEF Fenced

(* Every row of the next state is an old one or was just admitted. *)
LEMMA RowsCome ==
  ASSUME DataOK, RowsStep, NEW r \in connection'
  PROVE  \/ \E q \in connection : Inherits(r, q)
         \/ \E i \in Identities : r \in Row /\ Admits(i, r)
BY DEF RowsStep, Inherits

(* In a fenced scope, a row of the next state is an old one or is younger than the fence. *)
LEMMA RowsComeFenced ==
  ASSUME DataOK, RowsStep, NEW o, NEW ents, NEW at \in Time, Fenced(o, ents, at),
         NEW r \in connection', r.owner = o, r.ent \in ents
  PROVE  \/ \E q \in connection : Inherits(r, q)
         \/ r.issued > at /\ r.id \notin used
<1>1. ASSUME NEW i \in Identities, r \in Row, Admits(i, r)
      PROVE  r.issued > at /\ r.id \notin used
  <2>1. LifecycleBlocks(i, at) /\ ~LifecycleBlocks(i, r.issued) /\ r.issued \in Time
    BY <1>1 DEF Fenced, Admits, Row
  <2>2. ~(r.issued <= at)
    BY <2>1, BlocksOlder DEF DataOK
  <2> QED BY <1>1, <2>1, <2>2, MaxTimeAssumption DEF Time, Admits
<1> QED BY <1>1, RowsCome

(* A closed scope stays clean: its fence admits nothing old. *)
LEMMA CleanStable ==
  ASSUME DataOK, RowsStep, NEW o, NEW ents, NEW at \in Time, Closed(o, ents, at)
  PROVE  Clean(o, ents, at)'
BY RowsComeFenced DEF Closed, Clean, Inherits

(* What is closed stays closed. *)
LEMMA ClosedStable ==
  ASSUME DataOK, Step, NEW o, NEW ents, NEW at \in Time, Closed(o, ents, at)
  PROVE  Closed(o, ents, at)'
BY CleanStable, FencedStable DEF Closed, Step, DataOK


(* Seals that are closed now are closed in the next state. *)
LEMMA SealsKept ==
  ASSUME DataOK, Step, sealed' \subseteq Seal, \A s \in sealed' : Closed(s.owner, s.ents, s.at)
  PROVE  SealsClosed'
<1> SUFFICES ASSUME NEW s \in sealed' PROVE Closed(s.owner, s.ents, s.at)'
  BY DEF SealsClosed
<1>1. s.at \in Time
  BY DEF Seal
<1> QED BY <1>1, ClosedStable

(* A step that is not a disconnect's own keeps what the disconnect has done. *)
LEMMA DisconnectKept ==
  ASSUME DataOK, CallOK, Step, NEW d \in Disconnects, disc'[d] = disc[d], DisconnectOK(d)
  PROVE  DisconnectOK(d)'
<1> DEFINE o == OwnerOf(disc[d].who)
           at == disc[d].at
           snap == disc[d].snap
<1>1. at \in Time /\ DataOK' /\ FencesGrow /\ RowsStep
  BY DEF CallOK, DisconnectTypeOK, DisconnectRequest, Step
<1>2. snap # None => snap \in used /\ snap \in used'
  BY DEF DisconnectOK, Step
<1>3. ASSUME disc[d].pc \in {"prepared", "settle"}, disc[d].fenced
      PROVE  Fenced(o, Enterprises, at) /\ Fenced(o, Enterprises, at)'
  <2>1. Fenced(o, Enterprises, at)
    BY <1>3 DEF DisconnectOK
  <2> QED BY <1>1, <2>1, FencedStable DEF DataOK
<1>4. ASSUME disc[d].pc \in {"prepared", "settle"}, disc[d].fenced,
             NEW r \in connection', r.owner = o, r.id # snap
      PROVE  r.issued > at
  <2>1. r.ent \in Enterprises
    BY <1>1 DEF DataOK, VaultTypeOK, Row
  <2>2. \/ \E q \in connection : Inherits(r, q)
        \/ r.issued > at
    BY <1>1, <1>3, <1>4, <2>1, RowsComeFenced
  <2> QED BY <1>4, <2>2 DEF DisconnectOK, Inherits
<1>5. ASSUME disc[d].pc = "settle", NEW r \in connection', r.owner = o
      PROVE  r.id # snap
  <2>1. CASE \E q \in connection : Inherits(r, q)
    BY <1>5, <2>1 DEF DisconnectOK, Inherits
  <2>2. CASE \E i \in Identities : r \in Row /\ Admits(i, r)
    BY <1>2, <2>2, RemovalAssumption DEF Admits, Row
  <2> QED BY <1>1, <2>1, <2>2, RowsCome
<1> QED BY <1>2, <1>3, <1>4, <1>5 DEF DisconnectOK

(* A step that is not an offboarding's own keeps what it has done in its team. *)
LEMMA TeamKept ==
  ASSUME DataOK, CallOK, Step, NEW p \in Offboards \cup Sweeps,
         ob'[p] = ob[p], claim'[p] = claim[p], TeamOK(p)
  PROVE  TeamOK(p)'
<1>1. ob[p].at \in Time
  BY DEF CallOK, OffboardTypeOK, Offboarding
<1>2. ob[p].pc \in InTeam /\ ob[p].gated => Fenced(ob[p].owner, Enterprises, ob[p].at)'
  BY <1>1, FencedStable DEF TeamOK, Step, DataOK
<1>3. Closed(ob[p].owner, Enterprises, ob[p].at) => Clean(ob[p].owner, Enterprises, ob[p].at)'
  BY <1>1, ClosedStable DEF Closed
<1>4. ob[p].pc = "removing" /\ ob[p].gated /\ claim[p].pc \in {"removed", "absent"} =>
        Clean(ob[p].owner, Enterprises, ob[p].at)'
  BY <1>3 DEF TeamOK, Closed, InTeam
<1>5. ob[p].pc = "finish" /\ Complete(p) => Clean(ob[p].owner, Enterprises, ob[p].at)'
  BY <1>3 DEF TeamOK, Closed, InTeam, Complete
<1> QED BY <1>2, <1>4, <1>5 DEF TeamOK, Complete

(* A sweep keeps the teams behind it clean as long as it does not lose its place. *)
LEMMA SweepKept ==
  ASSUME DataOK, CallOK, Step, NEW p \in Sweeps, SweepOK(p), ob[p].pc # "idle",
         ob'[p].ent = ob[p].ent, ob'[p].user = ob[p].user, ob'[p].scopeAt = ob[p].scopeAt,
         ob'[p].pc \in InTeam => ob[p].scopeAt <= ob'[p].at,
         \A o \in Owners : o.user = ob[p].user /\ ob'[p].clean /\ PassedBy(p, o)' =>
           Clean(o, CoveredEnterprises(ob[p].ent), ob[p].scopeAt)
  PROVE  SweepOK(p)'
<1> DEFINE ents == CoveredEnterprises(ob[p].ent)
           at == ob[p].scopeAt
<1>1. at \in Time
  BY DEF CallOK, OffboardTypeOK, Offboarding
<1>2. at <= now'
  BY <1>1, MaxTimeAssumption DEF SweepOK, Step, FencesGrow, DataOK, FencesTypeOK, Time
<1>3. ASSUME NEW o \in Owners, o.user = ob[p].user
      PROVE  Fenced(o, ents, at)' /\ (Clean(o, ents, at) => Clean(o, ents, at)')
  <2>1. Fenced(o, ents, at)
    BY <1>3 DEF SweepOK
  <2>2. ents' = ents /\ at' = at
    BY DEF CoveredEnterprises
  <2> HIDE DEF ents, at
  <2>3. \A E, t : t \in Time /\ Fenced(o, E, t) =>
          Fenced(o, E, t)' /\ (Clean(o, E, t) => Clean(o, E, t)')
    BY FencedStable, CleanStable DEF Step, DataOK, Closed
  <2> QED BY <1>1, <2>1, <2>2, <2>3
<1>4. CoveredEnterprises(ob'[p].ent) = ents
  BY DEF CoveredEnterprises
<1> QED BY <1>2, <1>3, <1>4 DEF SweepOK

(* A step that is not a command's own keeps its scope fenced. *)
LEMMA BreakGlassKept ==
  ASSUME DataOK, CallOK, Step, NEW q \in Revokers, BreakGlassOK(q),
         cli'[q].pc = "idle" \/ (cli[q].pc # "idle" /\ cli'[q].scope = cli[q].scope /\ cli'[q].at = cli[q].at)
  PROVE  BreakGlassOK(q)'
<1>1. cli[q].at \in Time
  BY DEF CallOK, BreakGlassTypeOK, Command
<1> SUFFICES ASSUME cli'[q].pc # "idle", NEW o \in InScope(cli'[q].scope)
             PROVE  Fenced(o, Enterprises, cli[q].at)'
  BY DEF BreakGlassOK, InScope
<1>2. Fenced(o, Enterprises, cli[q].at)
  BY DEF BreakGlassOK, InScope
<1>3. Fenced(o, Enterprises, cli[q].at)'
  BY <1>1, <1>2, FencedStable DEF Step, DataOK
<1> QED BY <1>3

----------------------------------------------------------------------------

(* What one step may hand out for upstream revocation. *)
ClaimedStep ==
  \/ claimed' = claimed
  \/ \E r \in connection, x \in Disconnects \cup Removers :
       claimed' = claimed \cup {[id |-> r.id, by |-> x]} /\ connection' = connection \ {r}

(* A step hands out no tokens, or those of one stored row it removes. *)
LEMMA ClaimedStepOK ==
  ASSUME DataOK, CallOK, [Next]_vars PROVE ClaimedStep
<1>1. ASSUME NEW r \in connection, NEW x \in Disconnects \cup Removers, NEW purged,
             DeleteRow(r, x, purged)
      PROVE  ClaimedStep
  BY <1>1 DEF ClaimedStep, DeleteRow
<1>2. CASE ClaimStep
  <2>1. PICK p \in Removers : ClaimFence(p) \/ ClaimDelete(p) \/ ClaimRetry(p)
    BY <1>2 DEF ClaimStep
  <2>2. \/ claimed' = claimed
        \/ \E r \in connection, purged \in BOOLEAN : DeleteRow(r, p, purged)
    BY <2>1 DEF ClaimFence, ClaimDelete, ClaimRetry, RetryMatch, RowsOf, NothingDeleted
  <2> QED BY <1>1, <2>2 DEF ClaimedStep
<1>3. CASE DisconnectStep
  <2>1. PICK d \in Disconnects : claimed' = claimed \/ DeletePrepared(d)
    BY <1>3 DEF DisconnectStep, PrepareDisconnect, SettleDisconnect, removalVars
  <2>2. \/ claimed' = claimed
        \/ \E r \in connection, purged \in {TRUE, ~Faults} : DeleteRow(r, d, purged)
    BY <2>1 DEF DeletePrepared, ExactRows, RowsOf, NothingDeleted
  <2> QED BY <1>1, <2>2 DEF ClaimedStep
<1>4. CASE OffboardStep
  BY <1>4 DEF ClaimedStep, OffboardStep, MarkEverywhere, Discover, EndEverywhere, MarkTeam,
     PurgeConsents, PurgeRequests, ListConnections, Removed, FinishTeam, removalVars
<1>5. CASE BreakGlassStep
  BY <1>5 DEF ClaimedStep, BreakGlassStep, MarkScope, PurgePending, SelectRows, RevokeRow,
     RowRevoked, EndRound, Exit, removalVars
<1>6. CASE UNCHANGED removalVars
  BY <1>6 DEF ClaimedStep, removalVars
<1> QED BY <1>2, <1>3, <1>4, <1>5, <1>6 DEF Next, vars

(* Generations stay unique. *)
LEMMA RowsKept ==
  ASSUME DataOK, RowsOK, Step, ClaimedStep PROVE RowsOK'
<1>1. used \subseteq used' /\ RowsStep
  BY DEF Step
<1>2. \A r \in connection' : r.id \in used'
  BY <1>1, RowsCome DEF RowsOK, Inherits, Admits
<1>3. \A a \in claimed' : a.id \in used'
  BY <1>1 DEF RowsOK, ClaimedStep
<1>4. \A r1, r2 \in connection' : r1.owner = r2.owner \/ r1.id = r2.id => r1 = r2
  <2>1. CASE connection' \subseteq connection
    BY <2>1 DEF RowsOK
  <2>2. ASSUME NEW r \in connection, NEW new \in Row, Inherits(new, r),
               connection' = (connection \ {r}) \cup {new}
        PROVE  \A r1, r2 \in connection' : r1.owner = r2.owner \/ r1.id = r2.id => r1 = r2
    BY <2>2 DEF RowsOK, Inherits
  <2>3. ASSUME NEW i \in Identities, NEW new \in Row, Admits(i, new),
               connection' = (connection \ RowsOf(OwnerOf(i))) \cup {new}
        PROVE  \A r1, r2 \in connection' : r1.owner = r2.owner \/ r1.id = r2.id => r1 = r2
    BY <2>3 DEF RowsOK, Admits, RowsOf
  <2> QED BY <1>1, <2>1, <2>2, <2>3 DEF RowsStep
<1> QED BY <1>2, <1>3, <1>4 DEF RowsOK

(* What a step of claimDeleteFenced for caller p leaves behind. *)
LEMMA ClaimEffect ==
  ASSUME CallOK, RowsOK, NEW p \in Removers, ClaimFence(p) \/ ClaimDelete(p) \/ ClaimRetry(p)
  PROVE  /\ \A x \in Removers \ {p} : claim'[x] = claim[x]
         /\ claim'[p].owner = claim[p].owner
         /\ claim'[p].pc # "idle"
         /\ claim'[p].pc \in {"removed", "absent"} =>
              \A r \in connection' : r.owner # claim[p].owner
<1>1. claim[p] \in Claim /\ DOMAIN claim = Removers
  BY DEF CallOK, RemovalTypeOK
<1>2. CASE ClaimFence(p)
  BY <1>1, <1>2 DEF ClaimFence, Claim
<1>3. ASSUME NEW r \in RowsOf(claim[p].owner), NEW purged, DeleteRow(r, p, purged)
      PROVE  \A x \in connection' : x.owner # claim[p].owner
  BY <1>3 DEF DeleteRow, RowsOK, RowsOf
<1>4. CASE ClaimDelete(p)
  BY <1>1, <1>3, <1>4 DEF ClaimDelete, Claim, RowsOf, NothingDeleted
<1>5. CASE ClaimRetry(p)
  BY <1>1, <1>3, <1>5 DEF ClaimRetry, RetryMatch, Claim
<1> QED BY <1>2, <1>4, <1>5

(* The parts of IInv that are about removals. *)
Parts ==
  /\ SealsClosed
  /\ \A d \in Disconnects : DisconnectOK(d)
  /\ \A p \in Offboards \cup Sweeps : TeamOK(p)
  /\ \A p \in Sweeps : SweepOK(p)
  /\ \A q \in Revokers : BreakGlassOK(q)

(* A step that reports nothing complete keeps all seals closed. *)
LEMMA SealsSame ==
  ASSUME DataOK, CallOK, Step, SealsClosed, sealed' = sealed PROVE SealsClosed'
BY SealsKept DEF CallOK, RemovalTypeOK, SealsClosed

(* A step that is not a sweep's own keeps what it has done. *)
LEMMA SweepSame ==
  ASSUME DataOK, CallOK, Step, NEW p \in Sweeps, SweepOK(p), ob'[p] = ob[p]
  PROVE  SweepOK(p)'
<1>1. \A o : PassedBy(p, o)' = PassedBy(p, o)
  BY DEF PassedBy
<1>2. CASE ob[p].pc = "idle"
  BY <1>2 DEF SweepOK
<1>3. CASE ob[p].pc # "idle"
  BY <1>1, <1>3, SweepKept DEF SweepOK
<1> QED BY <1>2, <1>3

(* A writer keeps what every removal has done. *)
LEMMA QuietParts ==
  ASSUME DataOK, CallOK, Step, Parts, UNCHANGED <<removalVars, disc, ob, cli>>
  PROVE  Parts'
<1>1. SealsClosed'
  BY SealsSame DEF Parts, removalVars
<1>2. \A d \in Disconnects : DisconnectOK(d)'
  BY DisconnectKept DEF Parts
<1>3. \A p \in Offboards \cup Sweeps : TeamOK(p)'
  BY TeamKept DEF Parts, removalVars
<1>4. \A p \in Sweeps : SweepOK(p)'
  BY SweepSame DEF Parts
<1>5. \A q \in Revokers : BreakGlassOK(q)'
  BY BreakGlassKept DEF Parts
<1> QED BY <1>1, <1>2, <1>3, <1>4, <1>5 DEF Parts

(* The shared delete keeps what every removal has done. *)
LEMMA ClaimParts ==
  ASSUME DataOK, CallOK, RowsOK, Step, Parts, ClaimStep, UNCHANGED <<disc, ob, cli>>
  PROVE  Parts'
<1> PICK p \in Removers : ClaimFence(p) \/ ClaimDelete(p) \/ ClaimRetry(p)
  BY DEF ClaimStep
<1>1. SealsClosed'
  BY SealsSame DEF Parts, ClaimFence, ClaimDelete, ClaimRetry
<1>2. \A d \in Disconnects : DisconnectOK(d)'
  BY DisconnectKept DEF Parts
<1>3. ASSUME NEW x \in Offboards \cup Sweeps PROVE TeamOK(x)'
  <2>1. CASE x # p
    <3>1. claim'[x] = claim[x]
      BY <2>1, ClaimEffect DEF Removers
    <3> QED BY <3>1, TeamKept DEF Parts
  <2>2. CASE x = p
    <3>1. TeamOK(p) /\ ob[p].at \in Time
      BY <2>2 DEF Parts, CallOK, OffboardTypeOK, Offboarding
    <3>2. ob[p].pc \in InTeam /\ ob[p].gated => Fenced(ob[p].owner, Enterprises, ob[p].at)'
      BY <3>1, FencedStable DEF TeamOK, Step, DataOK
    <3>3. ob[p].pc = "removing" /\ claim'[p].pc \in {"removed", "absent"} =>
            Clean(ob[p].owner, Enterprises, ob[p].at)'
      BY <3>1, ClaimEffect DEF TeamOK, Clean
    <3>4. ob[p].pc = "finish" /\ Complete(p) => Clean(ob[p].owner, Enterprises, ob[p].at)'
      BY <3>1, ClosedStable DEF TeamOK, Complete, InTeam, Closed
    <3> QED BY <2>2, <3>1, <3>2, <3>3, <3>4, ClaimEffect DEF TeamOK, Complete
  <2> QED BY <2>1, <2>2
<1>4. \A x \in Sweeps : SweepOK(x)'
  BY SweepSame DEF Parts
<1>5. \A q \in Revokers : BreakGlassOK(q)'
  BY BreakGlassKept DEF Parts
<1> QED BY <1>1, <1>2, <1>3, <1>4, <1>5 DEF Parts

(* A disconnect keeps what every removal has done. *)
LEMMA DisconnectParts ==
  ASSUME DataOK, CallOK, RowsOK, Step, CallOK', Parts, DisconnectStep, UNCHANGED <<ob, cli>>
  PROVE  Parts'
<1> PICK d \in Disconnects :
      \/ \E i \in Identities, issued \in 1..now, expected \in (GenIds \cap used) \cup {None} :
           PrepareDisconnect(d, i, issued, expected)
      \/ DeletePrepared(d)
      \/ \E upstreamOk \in BOOLEAN : SettleDisconnect(d, upstreamOk)
  BY DEF DisconnectStep
<1>1. UNCHANGED claim /\ \A x \in Disconnects \ {d} : disc'[x] = disc[x]
  BY DEF PrepareDisconnect, DeletePrepared, SettleDisconnect, removalVars, CallOK, DisconnectTypeOK
<1>2. /\ disc[d] \in DisconnectRequest /\ DOMAIN disc = Disconnects /\ disc[d].at \in Time
      /\ now \in Time
  BY MaxTimeAssumption DEF CallOK, DisconnectTypeOK, DisconnectRequest, DataOK, FencesTypeOK, Time
<1>3. /\ \A x \in Disconnects \ {d} : DisconnectOK(x)'
      /\ \A p \in Offboards \cup Sweeps : TeamOK(p)'
      /\ \A p \in Sweeps : SweepOK(p)'
      /\ \A q \in Revokers : BreakGlassOK(q)'
  BY <1>1, DisconnectKept, TeamKept, SweepSame, BreakGlassKept DEF Parts
<1>4. DisconnectOK(d)
  BY DEF Parts
<1>5. ASSUME DisconnectOK(d)', SealsClosed' PROVE Parts'
  BY <1>3, <1>5 DEF Parts
<1>6. ASSUME NEW i \in Identities, NEW issued \in 1..now, NEW expected \in (GenIds \cap used) \cup {None},
             PrepareDisconnect(d, i, issued, expected)
      PROVE  Parts'
  <2> DEFINE o == OwnerOf(i)
  <2>1. PICK fenced \in BOOLEAN, snap \in GenIds \cup {None} :
       /\ IF RowsOf(o) = {} THEN snap = None ELSE \E r \in RowsOf(o) : r.id = snap
       /\ fenced => MarkProvisioningRevoked(ExactScope(o))
       /\ disc'[d] =
            [ pc |-> IF snap = None THEN "settle" ELSE "prepared", who |-> i, issued |-> issued,
              expected |-> expected, snap |-> snap, fenced |-> fenced, at |-> now,
              removed |-> FALSE ]
    BY <1>6, <1>2 DEF PrepareDisconnect
  <2>2. UNCHANGED <<connection, used, sealed>>
    BY <1>6 DEF PrepareDisconnect, consentVars, vaultVars, removalVars
  <2>3. snap # None => snap \in used
    BY <2>1 DEF RowsOK, RowsOf
  <2>4. \A r \in connection : r.owner = o => r.id = snap
    BY <2>1 DEF RowsOK, RowsOf
  <2>5. snap = None => \A r \in connection : r.owner # o
    BY <2>1, RemovalAssumption DEF RowsOf, DataOK, VaultTypeOK, Row
  <2>6. fenced => Fenced(o, Enterprises, now)'
    <3> SUFFICES ASSUME fenced, NEW x \in Identities, OwnerOf(x) = o
                 PROVE  LifecycleBlocks(x, now)'
      BY DEF Fenced
    <3>1. ExactScope(o) \in OwnerProvisioningScopes(o) /\ ExactScope(o) \in RevScopes
      BY ScopesTyped DEF OwnerProvisioningScopes
    <3>2. revTomb'[ExactScope(o)] >= now /\ now' = now
      BY <2>1, <3>1, MarkRevokedStep DEF DataOK, MarkProvisioningRevoked
    <3> QED BY <3>1, <3>2 DEF LifecycleBlocks, RevBlocks, TombstoneBlocks
  <2>7. fenced => now' = now
    BY <2>1 DEF MarkProvisioningRevoked
  <2>8. DisconnectOK(d)'
    BY <2>1, <2>2, <2>3, <2>4, <2>5, <2>6, <2>7 DEF DisconnectOK
  <2> QED BY <1>5, <2>2, <2>8, SealsSame DEF Parts
<1>7. CASE DeletePrepared(d)
  <2>1. UNCHANGED <<fenceVars, used, sealed>>
    BY <1>7 DEF DeletePrepared, consentVars
  <2>2. /\ disc[d].pc = "prepared"
        /\ \E pc \in {"done", "settle"}, removed \in BOOLEAN :
             disc'[d] = [disc[d] EXCEPT !.pc = pc, !.removed = removed]
        /\ disc'[d].pc = "settle" =>
             \A r \in connection' : r.owner = OwnerOf(disc[d].who) => r.id # disc[d].snap
    <3>0. disc[d].pc = "prepared"
      BY <1>7 DEF DeletePrepared
    <3>1. /\ disc[d].removed \in BOOLEAN
          /\ \A pc : [disc[d] EXCEPT !.pc = pc] = [disc[d] EXCEPT !.pc = pc, !.removed = disc[d].removed]
      BY <1>2 DEF DisconnectRequest
    <3>2. ASSUME NEW pc, NEW removed, disc' = [disc EXCEPT ![d] = [@ EXCEPT !.pc = pc, !.removed = removed]]
          PROVE  disc'[d] = [disc[d] EXCEPT !.pc = pc, !.removed = removed] /\ disc'[d].pc = pc
      BY <1>2, <3>2 DEF DisconnectRequest
    <3>3. ASSUME NEW pc, disc' = [disc EXCEPT ![d].pc = pc]
          PROVE  disc'[d] = [disc[d] EXCEPT !.pc = pc, !.removed = disc[d].removed] /\ disc'[d].pc = pc
      BY <1>2, <3>1, <3>3 DEF DisconnectRequest
    <3>4. ASSUME NEW r \in ExactRows(d), NEW purged, DeleteRow(r, d, purged)
          PROVE  \A x \in connection' : x.owner = OwnerOf(disc[d].who) => x.id # disc[d].snap
      BY <3>4 DEF DeleteRow, ExactRows, RowsOf, RowsOK
    <3>5. ASSUME ExactRows(d) = {}, NothingDeleted
          PROVE  \A x \in connection' : x.owner = OwnerOf(disc[d].who) => x.id # disc[d].snap
      BY <3>5 DEF ExactRows, RowsOf, NothingDeleted
    <3>6. CASE disc' = [disc EXCEPT ![d].pc = "done"]
      BY <3>0, <3>1, <3>3, <3>6
    <3>7. CASE ExactRows(d) = {} /\ NothingDeleted /\ disc' = [disc EXCEPT ![d].pc = "settle"]
      BY <3>0, <3>1, <3>3, <3>5, <3>7
    <3>8. CASE /\ \E r \in ExactRows(d), purged \in {TRUE, ~Faults} : DeleteRow(r, d, purged)
               /\ disc' = [disc EXCEPT ![d] = [@ EXCEPT !.pc = "settle", !.removed = TRUE]]
      BY <3>0, <3>2, <3>4, <3>8
    <3> QED BY <1>7, <3>6, <3>7, <3>8 DEF DeletePrepared
  <2>3. /\ disc'[d].who = disc[d].who /\ disc'[d].snap = disc[d].snap
        /\ disc'[d].fenced = disc[d].fenced /\ disc'[d].at = disc[d].at
    BY <1>2, <2>2 DEF DisconnectRequest
  <2>4. disc[d].fenced => Fenced(OwnerOf(disc[d].who), Enterprises, disc[d].at)'
    <3>1. disc[d].fenced => Fenced(OwnerOf(disc[d].who), Enterprises, disc[d].at)
      BY <1>4, <2>2 DEF DisconnectOK
    <3>2. \A o : Fenced(o, Enterprises, disc[d].at) => \A t : t = disc[d].at => Fenced(o, Enterprises, t)'
      BY <1>2, FencedStable DEF Step, DataOK
    <3> QED BY <2>3, <3>1, <3>2
  <2>5. connection' \subseteq connection
    BY <1>7 DEF DeletePrepared, DeleteRow, NothingDeleted
  <2>6. DisconnectOK(d)'
    BY <1>4, <2>1, <2>2, <2>3, <2>4, <2>5 DEF DisconnectOK
  <2> QED BY <1>5, <2>1, <2>6, SealsSame DEF Parts
<1>8. ASSUME NEW upstreamOk \in BOOLEAN, SettleDisconnect(d, upstreamOk) PROVE Parts'
  <2>1. /\ disc[d].pc = "settle" /\ disc'[d].pc = "done" /\ disc'[d].snap = disc[d].snap
        /\ UNCHANGED used
    BY <1>2, <1>8 DEF SettleDisconnect, DisconnectRequest, consentVars
  <2>2. DisconnectOK(d)'
    BY <1>4, <2>1 DEF DisconnectOK
  <2>3. \A s \in sealed' \ sealed :
          /\ disc[d].fenced
          /\ s.owner = OwnerOf(disc[d].who) /\ s.ents = Enterprises /\ s.at = disc[d].at
    BY <1>8 DEF SettleDisconnect
  <2>4. disc[d].fenced => Closed(OwnerOf(disc[d].who), Enterprises, disc[d].at)
    BY <1>4, <2>1 DEF DisconnectOK, Closed, Clean
  <2>5. \A s \in sealed' : Closed(s.owner, s.ents, s.at)
    BY <2>3, <2>4 DEF Parts, SealsClosed
  <2>6. SealsClosed'
    BY <2>5, SealsKept DEF CallOK, RemovalTypeOK
  <2> QED BY <1>5, <2>2, <2>6
<1> QED BY <1>6, <1>7, <1>8

(* A break-glass command keeps what every removal has done. *)
LEMMA BreakGlassParts ==
  ASSUME DataOK, CallOK, RowsOK, Step, CallOK', Parts, BreakGlassStep, UNCHANGED <<disc, ob>>
  PROVE  Parts'
<1> PICK q \in Revokers :
      \/ \E s \in RevScopes : MarkScope(q, s)
      \/ PurgePending(q) \/ SelectRows(q) \/ RowRevoked(q) \/ EndRound(q) \/ Exit(q)
      \/ \E o \in Owners : RevokeRow(q, o)
  BY DEF BreakGlassStep
<1>1. /\ cli[q] \in Command /\ DOMAIN cli = Revokers /\ now \in Time
      /\ \A p \in Offboards \cup Sweeps : p # q /\ p \in Removers
  BY MaxTimeAssumption, RemovalAssumption
     DEF CallOK, BreakGlassTypeOK, DataOK, FencesTypeOK, Time, Removers
<1>2. \A x \in Revokers \ {q} : cli'[x] = cli[x]
  BY <1>1 DEF MarkScope, PurgePending, SelectRows, RowRevoked, EndRound, Exit, RevokeRow
<1>3. \A p \in Offboards \cup Sweeps : claim'[p] = claim[p]
  BY <1>1 DEF MarkScope, PurgePending, SelectRows, RowRevoked, EndRound, Exit, RevokeRow,
              StartClaim, removalVars, CallOK, RemovalTypeOK
<1>4. /\ \A d \in Disconnects : DisconnectOK(d)'
      /\ \A p \in Offboards \cup Sweeps : TeamOK(p)'
      /\ \A p \in Sweeps : SweepOK(p)'
      /\ \A x \in Revokers \ {q} : BreakGlassOK(x)'
  BY <1>2, <1>3, DisconnectKept, TeamKept, SweepSame, BreakGlassKept DEF Parts
<1>5. CASE \E s \in RevScopes : MarkScope(q, s)
  <2> PICK s \in RevScopes : MarkScope(q, s)
    BY <1>5
  <2>1. cli'[q].scope = s /\ cli'[q].at = now /\ UNCHANGED sealed
    BY <1>1 DEF MarkScope, Command, removalVars
  <2>2. revTomb'[s] >= now
    BY MarkRevokedStep DEF MarkScope, DataOK
  <2>3. ASSUME NEW o \in InScope(s), NEW i \in Identities, OwnerOf(i) = o
        PROVE  \E x \in OwnerProvisioningScopes(OwnerOf(i)) : revTomb'[x] >= now
    BY <2>2, <2>3 DEF InScope
  <2>4. BreakGlassOK(q)'
    BY <2>1, <2>3 DEF BreakGlassOK, InScope, Fenced, LifecycleBlocks, RevBlocks, TombstoneBlocks
  <2> QED BY <1>4, <2>1, <2>4, SealsSame DEF Parts
<1>6. CASE ~(\E s \in RevScopes : MarkScope(q, s))
  <2>1. cli[q].pc # "idle" /\ cli'[q].scope = cli[q].scope /\ cli'[q].at = cli[q].at
    <3>1. CASE PurgePending(q) \/ RowRevoked(q) \/ Exit(q)
      BY <1>1, <3>1 DEF PurgePending, RowRevoked, Exit, Command
    <3>2. CASE SelectRows(q)
      BY <1>1, <3>2 DEF SelectRows, Command
    <3>3. CASE EndRound(q)
      BY <1>1, <3>3 DEF EndRound, Command
    <3>4. ASSUME NEW o \in Owners, RevokeRow(q, o)
          PROVE  cli[q].pc # "idle" /\ cli'[q].scope = cli[q].scope /\ cli'[q].at = cli[q].at
      BY <1>1, <3>4 DEF RevokeRow, Command
    <3> QED BY <1>6, <3>1, <3>2, <3>3, <3>4
  <2>2. BreakGlassOK(q)'
    BY <2>1, BreakGlassKept DEF Parts
  <2>3. \A s \in sealed' : Closed(s.owner, s.ents, s.at)
    <3>1. CASE sealed' = sealed
      BY <3>1 DEF Parts, SealsClosed
    <3>2. CASE Exit(q) /\ SelectRevocations(q) = {}
      <4>1. ASSUME NEW o \in InScope(cli[q].scope)
            PROVE  Closed(o, Enterprises, cli[q].at)
        BY <2>1, <3>2, <4>1 DEF Parts, BreakGlassOK, Closed, Clean, SelectRevocations
      <4>2. \A s \in sealed' \ sealed :
              /\ s.owner \in InScope(cli[q].scope)
              /\ s.ents = Enterprises /\ s.at = cli[q].at
        BY <3>2 DEF Exit
      <4> QED BY <4>1, <4>2 DEF Parts, SealsClosed
    <3> QED BY <1>6, <3>1, <3>2
         DEF PurgePending, SelectRows, RowRevoked, EndRound, Exit, RevokeRow, removalVars
  <2>4. SealsClosed'
    BY <2>3, SealsKept DEF CallOK, RemovalTypeOK
  <2> QED BY <1>4, <2>2, <2>4 DEF Parts
<1> QED BY <1>5, <1>6

(* An offboarding keeps what every removal has done. *)
LEMMA OffboardParts ==
  ASSUME DataOK, CallOK, RowsOK, Step, CallOK', Parts, OffboardStep, UNCHANGED <<disc, cli>>
  PROVE  Parts'
<1> DEFINE Calls == Offboards \cup Sweeps
<1> PICK p \in Calls :
      \/ /\ p \in Sweeps
         /\ \/ \E e \in Enterprises \cup {NoEnterprise}, u \in Users : MarkEverywhere(p, e, u)
            \/ Discover(p)
            \/ EndEverywhere(p)
      \/ \E o \in Owners : MarkTeam(p, o)
      \/ PurgeConsents(p) \/ PurgeRequests(p) \/ ListConnections(p) \/ Removed(p) \/ FinishTeam(p)
  BY DEF OffboardStep
<1>1. /\ ob[p] \in Offboarding /\ DOMAIN ob = Calls /\ now \in Time
      /\ ob[p].at \in Time /\ ob[p].scopeAt \in Time /\ p \in Removers
      /\ DOMAIN claim = Removers
  BY MaxTimeAssumption DEF CallOK, OffboardTypeOK, Offboarding, DataOK, FencesTypeOK, Time,
                           Removers, RemovalTypeOK
<1>2. connection' = connection
  BY DEF MarkEverywhere, Discover, EndEverywhere, MarkTeam, PurgeConsents, PurgeRequests,
         ListConnections, Removed, FinishTeam, vaultVars
<1>3. \A x \in Calls \ {p} : ob'[x] = ob[x] /\ claim'[x] = claim[x]
  BY <1>1 DEF MarkEverywhere, Discover, EndEverywhere, MarkTeam, PurgeConsents, PurgeRequests,
              ListConnections, StartClaim, Removed, FinishTeam, removalVars, Removers
<1>4. /\ \A d \in Disconnects : DisconnectOK(d)'
      /\ \A x \in Calls \ {p} : TeamOK(x)'
      /\ \A x \in Sweeps \ {p} : SweepOK(x)'
      /\ \A q \in Revokers : BreakGlassOK(q)'
  BY <1>3, DisconnectKept, TeamKept, SweepSame, BreakGlassKept DEF Parts
<1>5. TeamOK(p) /\ (p \in Sweeps => SweepOK(p))
  BY DEF Parts
<1>6. ASSUME TeamOK(p)', p \in Sweeps => SweepOK(p)', \A s \in sealed' : Closed(s.owner, s.ents, s.at)
      PROVE  Parts'
  BY <1>4, <1>6, SealsKept DEF Parts, CallOK, RemovalTypeOK
<1>7. sealed' = sealed => \A s \in sealed' : Closed(s.owner, s.ents, s.at)
  BY DEF Parts, SealsClosed
<1>8. CASE p \in Sweeps /\ \E e \in Enterprises \cup {NoEnterprise}, u \in Users : MarkEverywhere(p, e, u)
  <2> PICK e \in Enterprises \cup {NoEnterprise}, u \in Users : MarkEverywhere(p, e, u)
    BY <1>8
  <2>1. /\ ob'[p].pc = "discover" /\ ob'[p].ent = e /\ ob'[p].user = u /\ ob'[p].scopeAt = now
        /\ sealed' = sealed /\ now' = now
    BY <1>1 DEF MarkEverywhere, Offboarding, removalVars, MarkOffboarded
  <2>2. TeamOK(p)'
    BY <2>1 DEF TeamOK, InTeam
  <2>3. ASSUME NEW i \in Identities, i.user = u, i.ent \in CoveredEnterprises(e)
        PROVE  \E s \in IdentityOffboardScopes(i) : offTomb'[s] >= now
    <3>1. PICK s \in IdentityOffboardScopes(i) : s \in EverywhereOffboardScopes(e, u)
      BY <2>3 DEF IdentityOffboardScopes, EverywhereOffboardScopes, CoveredEnterprises
    <3>2. s \in OffScopes
      BY ScopesTyped
    <3> QED BY <3>1, <3>2, MarkOffboardedStep DEF MarkEverywhere, DataOK
  <2>4. ASSUME NEW o \in Owners, o.user = u, NEW i \in Identities, OwnerOf(i) = o,
               i.ent \in CoveredEnterprises(e)
        PROVE  LifecycleBlocks(i, now)'
    <3>1. i.user = u
      BY <2>4 DEF OwnerOf
    <3> QED BY <2>1, <2>3, <2>4, <3>1 DEF LifecycleBlocks, OffBlocks, TombstoneBlocks
  <2>5. SweepOK(p)'
    BY <1>1, <2>1, <2>4, MaxTimeAssumption
       DEF SweepOK, PassedBy, Fenced, InTeam, CoveredEnterprises, Time
  <2> QED BY <1>6, <1>7, <2>1, <2>2, <2>5
<1>9. CASE p \in Sweeps /\ Discover(p)
  <2>1. /\ ob[p].pc = "discover" /\ ob'[p].pc = "next" /\ ob'[p].todo = Discovered(ob[p].ent, ob[p].user)
        /\ ob'[p].ent = ob[p].ent /\ ob'[p].user = ob[p].user /\ ob'[p].scopeAt = ob[p].scopeAt
        /\ sealed' = sealed
    BY <1>1, <1>9 DEF Discover, Offboarding, removalVars
  <2>2. ASSUME NEW o \in Owners, o.user = ob[p].user, PassedBy(p, o)'
        PROVE  Clean(o, CoveredEnterprises(ob[p].ent), ob[p].scopeAt)
    BY <2>1, <2>2 DEF PassedBy, Discovered, Clean
  <2>3. SweepOK(p)'
    BY <1>5, <1>9, <2>1, <2>2, SweepKept DEF InTeam
  <2>4. TeamOK(p)'
    BY <2>1 DEF TeamOK, InTeam
  <2> QED BY <1>6, <1>7, <2>1, <2>3, <2>4
<1>10. CASE p \in Sweeps /\ EndEverywhere(p)
  <2>1. /\ ob[p].pc = "next" /\ ob'[p].pc = "done" /\ ob'[p].todo = ob[p].todo /\ ob[p].todo = {}
        /\ ob'[p].ent = ob[p].ent /\ ob'[p].user = ob[p].user /\ ob'[p].scopeAt = ob[p].scopeAt
        /\ ob'[p].clean = ob[p].clean
    BY <1>1, <1>10 DEF EndEverywhere, Offboarding
  <2>2. ASSUME NEW o \in Owners, o.user = ob[p].user, ob[p].clean
        PROVE  Closed(o, CoveredEnterprises(ob[p].ent), ob[p].scopeAt)
    BY <1>5, <1>10, <2>1, <2>2 DEF SweepOK, PassedBy, Closed
  <2>3. SweepOK(p)'
    BY <1>5, <1>10, <2>1, <2>2, SweepKept DEF InTeam, Closed
  <2>4. TeamOK(p)'
    BY <2>1 DEF TeamOK, InTeam
  <2>5. \A s \in sealed' \ sealed : Closed(s.owner, s.ents, s.at)
    BY <1>10, <2>2 DEF EndEverywhere
  <2>6. \A s \in sealed' : Closed(s.owner, s.ents, s.at)
    BY <2>5 DEF Parts, SealsClosed
  <2> QED BY <1>6, <2>3, <2>4, <2>6
<1>11. CASE \E o \in Owners : MarkTeam(p, o)
  <2> PICK o \in Owners : MarkTeam(p, o)
    BY <1>11
  <2>1. PICK gated \in {TRUE, ~Faults} :
       /\ IF gated THEN MarkOffboarded({TeamScope(o)}) ELSE UNCHANGED fenceVars
       /\ ob' = [ob EXCEPT ![p] =
            [@ EXCEPT !.pc = "consents", !.todo = ob[p].todo \ {o}, !.owner = o, !.at = now,
                      !.gated = gated, !.failed = FALSE]]
    BY DEF MarkTeam
  <2>2. /\ ob'[p].pc = "consents" /\ ob'[p].todo = ob[p].todo \ {o} /\ ob'[p].owner = o
        /\ ob'[p].at = now /\ ob'[p].gated = gated
        /\ ob'[p].ent = ob[p].ent /\ ob'[p].user = ob[p].user /\ ob'[p].scopeAt = ob[p].scopeAt
        /\ ob'[p].clean = ob[p].clean
    BY <1>1, <2>1 DEF Offboarding
  <2>3. sealed' = sealed /\ now' = now
    BY <2>1, RemovalAssumption DEF MarkTeam, removalVars, MarkOffboarded, fenceVars
  <2>4. gated => Fenced(o, Enterprises, now)'
    <3> SUFFICES ASSUME gated, NEW i \in Identities, OwnerOf(i) = o PROVE LifecycleBlocks(i, now)'
      BY DEF Fenced
    <3>1. TeamScope(o) \in IdentityOffboardScopes(i) /\ TeamScope(o) \in OffScopes
      BY ScopesTyped DEF IdentityOffboardScopes
    <3>2. offTomb'[TeamScope(o)] >= now
      BY <2>1, <3>1, MarkOffboardedStep DEF DataOK
    <3> QED BY <2>3, <3>1, <3>2 DEF LifecycleBlocks, OffBlocks, TombstoneBlocks
  <2>5. TeamOK(p)'
    BY <2>2, <2>3, <2>4 DEF TeamOK
  <2>6. ASSUME p \in Sweeps PROVE SweepOK(p)'
    <3>1. ob[p].pc = "next" /\ ob[p].scopeAt <= now
      BY <1>5, <2>6 DEF MarkTeam, SweepOK
    <3>2. ASSUME NEW x \in Owners, x.user = ob[p].user, ob[p].clean, PassedBy(p, x)'
          PROVE  Clean(x, CoveredEnterprises(ob[p].ent), ob[p].scopeAt)
      BY <1>5, <2>2, <2>6, <3>1, <3>2 DEF SweepOK, PassedBy
    <3> QED BY <1>5, <2>2, <2>6, <3>1, <3>2, SweepKept
  <2> QED BY <1>6, <1>7, <2>3, <2>5, <2>6
<1>12. CASE PurgeConsents(p) \/ PurgeRequests(p) \/ ListConnections(p) \/ Removed(p)
  <2>1. /\ ob[p].pc \in InTeam /\ ob'[p].pc \in InTeam
        /\ ob'[p].todo = ob[p].todo /\ ob'[p].owner = ob[p].owner
        /\ ob'[p].at = ob[p].at /\ ob'[p].gated = ob[p].gated
        /\ ob'[p].ent = ob[p].ent /\ ob'[p].user = ob[p].user /\ ob'[p].scopeAt = ob[p].scopeAt
        /\ ob'[p].clean = ob[p].clean /\ sealed' = sealed
    <3>1. CASE PurgeConsents(p) \/ PurgeRequests(p)
      BY <1>1, <3>1 DEF PurgeConsents, PurgeRequests, Offboarding, InTeam, removalVars
    <3>2. CASE ListConnections(p)
      <4>1. ob[p].pc = "list" /\ sealed' = sealed
        BY <3>2 DEF ListConnections
      <4>2. CASE ob' = [ob EXCEPT ![p].pc = "finish"] \/ ob' = [ob EXCEPT ![p].pc = "removing"]
        BY <1>1, <4>1, <4>2 DEF Offboarding, InTeam
      <4>3. CASE ob' = [ob EXCEPT ![p] = [@ EXCEPT !.pc = "finish", !.failed = TRUE]]
        BY <1>1, <4>1, <4>3 DEF Offboarding, InTeam
      <4> QED BY <3>2, <4>2, <4>3 DEF ListConnections
    <3>3. CASE Removed(p)
      BY <1>1, <3>3 DEF Removed, Offboarding, InTeam, removalVars
    <3> QED BY <1>12, <3>1, <3>2, <3>3
  <2>2. ob[p].gated => Fenced(ob[p].owner, Enterprises, ob[p].at)'
    <3>1. ob[p].gated => Fenced(ob[p].owner, Enterprises, ob[p].at)
      BY <1>5, <2>1 DEF TeamOK
    <3>2. \A o : Fenced(o, Enterprises, ob[p].at) =>
            \A t : t = ob[p].at => Fenced(o, Enterprises, t)'
      BY <1>1, FencedStable DEF Step, DataOK
    <3> QED BY <2>1, <3>1, <3>2
  <2>3. ob'[p].pc = "removing" => claim'[p].pc = "fence" /\ claim'[p].owner = ob[p].owner
    <3>1. CASE PurgeConsents(p) \/ PurgeRequests(p) \/ Removed(p)
      <4>1. CASE PurgeConsents(p) \/ PurgeRequests(p)
        BY <1>1, <4>1 DEF PurgeConsents, PurgeRequests, Offboarding
      <4>2. CASE Removed(p)
        BY <1>1, <4>2 DEF Removed, Offboarding
      <4> QED BY <3>1, <4>1, <4>2
    <3>2. CASE ListConnections(p) /\ StartClaim(p, ob[p].owner)
      BY <1>1, <3>2 DEF StartClaim
    <3>3. CASE ListConnections(p) /\ UNCHANGED claim /\ ob'[p].pc = "finish"
      BY <3>3
    <3>4. ASSUME ListConnections(p)
          PROVE  StartClaim(p, ob[p].owner) \/ (UNCHANGED claim /\ ob'[p].pc = "finish")
      <4>1. CASE ob' = [ob EXCEPT ![p].pc = "finish"] /\ UNCHANGED claim
        BY <1>1, <4>1 DEF Offboarding
      <4>2. CASE ob' = [ob EXCEPT ![p] = [@ EXCEPT !.pc = "finish", !.failed = TRUE]] /\ UNCHANGED claim
        BY <1>1, <4>2 DEF Offboarding
      <4> QED BY <3>4, <4>1, <4>2 DEF ListConnections
    <3> QED BY <1>12, <3>1, <3>2, <3>3, <3>4
  <2>4. ob'[p].pc = "finish" /\ Complete(p)' => Clean(ob[p].owner, Enterprises, ob[p].at)
    <3>1. CASE PurgeConsents(p) \/ PurgeRequests(p)
      BY <1>1, <3>1 DEF PurgeConsents, PurgeRequests, Offboarding
    <3>2. CASE ListConnections(p)
      BY <1>1, <3>2 DEF ListConnections, Offboarding, RowsOf, Clean, Complete
    <3>3. CASE Removed(p)
      <4>1. ob[p].pc = "removing" /\ ob'[p].failed = (claim[p].pc = "failed")
        BY <1>1, <3>3 DEF Removed, Offboarding
      <4>2. claim[p].pc \in {"removed", "absent", "failed"}
        BY <3>3 DEF Removed, ClaimSettled
      <4> QED BY <1>5, <2>1, <4>1, <4>2 DEF TeamOK, Complete
    <3> QED BY <1>12, <3>1, <3>2, <3>3
  <2>5. TeamOK(p)'
    BY <1>2, <2>1, <2>2, <2>3, <2>4 DEF TeamOK, Clean
  <2>6. ASSUME p \in Sweeps PROVE SweepOK(p)'
    <3>1. \A x : PassedBy(p, x)' => PassedBy(p, x)
      BY <2>1 DEF PassedBy, InTeam
    <3>2. ob[p].pc # "idle"
      BY <2>1 DEF InTeam
    <3> QED BY <1>5, <2>1, <2>6, <3>1, <3>2, SweepKept DEF SweepOK
  <2> QED BY <1>6, <1>7, <2>1, <2>5, <2>6
<1>13. CASE FinishTeam(p)
  <2>1. /\ ob[p].pc = "finish" /\ ob'[p].pc \in {"next", "done"}
        /\ ob'[p].todo = ob[p].todo
        /\ ob'[p].ent = ob[p].ent /\ ob'[p].user = ob[p].user /\ ob'[p].scopeAt = ob[p].scopeAt
        /\ ob'[p].clean = (ob[p].clean /\ Complete(p))
    BY <1>1, <1>13 DEF FinishTeam, Offboarding
  <2>2. Complete(p) => Closed(ob[p].owner, Enterprises, ob[p].at)
    BY <1>5, <2>1 DEF TeamOK, Closed, Complete, InTeam
  <2>3. TeamOK(p)'
    BY <2>1 DEF TeamOK, InTeam
  <2>4. ASSUME p \in Sweeps PROVE SweepOK(p)'
    <3>1. ob[p].scopeAt <= ob[p].at
      BY <1>5, <2>1, <2>4 DEF SweepOK, InTeam
    <3>2. ASSUME NEW x \in Owners, x.user = ob[p].user, ob'[p].clean, PassedBy(p, x)'
          PROVE  Clean(x, CoveredEnterprises(ob[p].ent), ob[p].scopeAt)
      <4>1. CASE x # ob[p].owner
        BY <1>5, <2>1, <2>4, <3>2, <4>1 DEF SweepOK, PassedBy
      <4>2. CASE x = ob[p].owner
        <5>1. Clean(x, Enterprises, ob[p].at)
          BY <2>1, <2>2, <3>2, <4>2 DEF Closed
        <5>2. ASSUME NEW r \in connection, r.owner = x PROVE r.issued > ob[p].scopeAt
          <6>1. r.ent \in Enterprises /\ r.issued \in Time
            BY DEF DataOK, VaultTypeOK, Row
          <6> QED BY <1>1, <3>1, <5>1, <5>2, <6>1, MaxTimeAssumption DEF Clean, Time
        <5> QED BY <5>2 DEF Clean
      <4> QED BY <4>1, <4>2
    <3> QED BY <1>5, <2>1, <2>4, <3>2, SweepKept DEF InTeam
  <2>5. \A s \in sealed' : Closed(s.owner, s.ents, s.at)
    BY <1>13, <2>2 DEF FinishTeam, Parts, SealsClosed
  <2> QED BY <1>6, <2>3, <2>4, <2>5
<1> QED BY <1>8, <1>9, <1>10, <1>11, <1>12, <1>13

(* Nothing has been removed yet. *)
LEMMA IInvInit == Init => IInv
<1> SUFFICES ASSUME Init PROVE IInv
  OBVIOUS
<1>1. DataOK /\ CallOK
  BY InitOK
<1>2. RowsOK /\ SealsClosed
  BY DEF Init, ConsentInit, VaultInit, RemovalInit, RowsOK, SealsClosed
<1>3. \A d \in Disconnects : DisconnectOK(d)
  BY DEF Init, DisconnectInit, DisconnectOK
<1>4. \A p \in Offboards \cup Sweeps : TeamOK(p)
  BY DEF Init, OffboardInit, TeamOK, InTeam
<1>5. \A p \in Sweeps : SweepOK(p)
  BY DEF Init, OffboardInit, SweepOK
<1>6. \A q \in Revokers : BreakGlassOK(q)
  BY DEF Init, BreakGlassInit, BreakGlassOK
<1> QED BY <1>1, <1>2, <1>3, <1>4, <1>5, <1>6 DEF IInv, DataOK, CallOK, TypeOK

(* Every step of the system preserves the invariant. *)
LEMMA IInvStep == IInv /\ [Next]_vars => IInv'
<1> SUFFICES ASSUME DataOK, CallOK, RowsOK, Parts, [Next]_vars
             PROVE  DataOK' /\ CallOK' /\ RowsOK' /\ Parts'
  BY DEF IInv, DataOK, CallOK, TypeOK, Parts
<1>1. Step /\ CallOK' /\ DataOK'
  BY NextOK DEF Step
<1>2. RowsOK'
  BY <1>1, RowsKept, ClaimedStepOK
<1>3. CASE UNCHANGED <<removalVars, disc, ob, cli>>
  BY <1>1, <1>2, <1>3, QuietParts
<1>4. CASE ClaimStep /\ UNCHANGED <<disc, ob, cli>>
  BY <1>1, <1>2, <1>4, ClaimParts
<1>5. CASE DisconnectStep /\ UNCHANGED <<ob, cli>>
  BY <1>1, <1>2, <1>5, DisconnectParts
<1>6. CASE OffboardStep /\ UNCHANGED <<disc, cli>>
  BY <1>1, <1>2, <1>6, OffboardParts
<1>7. CASE BreakGlassStep /\ UNCHANGED <<disc, ob>>
  BY <1>1, <1>2, <1>7, BreakGlassParts
<1> QED BY <1>1, <1>2, <1>3, <1>4, <1>5, <1>6, <1>7 DEF Next, vars

(* Every removal has closed what it claims to have closed so far. *)
THEOREM Inductive == Spec => []IInv
BY IInvInit, IInvStep, PTL DEF Spec

(* What an offboarding, a sweep, a disconnect or a break-glass command      *)
(* reported as removed never becomes a stored credential again: for any     *)
(* number of identities, credentials and concurrent calls, any interleaving *)
(* of them, and any failures of single statements.                          *)
THEOREM RemovalFinal ==
  Spec => [](OffboardFinal /\ EverywhereFinal /\ DisconnectFinal /\ BreakGlassFinal)
<1>1. IInv => OffboardFinal /\ EverywhereFinal /\ DisconnectFinal /\ BreakGlassFinal
  BY DEF IInv, SealsClosed, Closed, OffboardFinal, EverywhereFinal, DisconnectFinal,
         BreakGlassFinal, SealHolds
<1> QED BY <1>1, Inductive, PTL

(* A step preserves ClaimedOnce, given unique generations. *)
LEMMA ClaimedOnceStep ==
  ASSUME DataOK, CallOK, RowsOK, ClaimedOnce, [Next]_vars PROVE ClaimedOnce'
<1>1. RowsStep /\ ClaimedStep
  BY NextOK, ClaimedStepOK DEF Step
<1>2. CASE claimed' = claimed
  <2>1. ASSUME NEW r \in connection', NEW a \in claimed PROVE r.id # a.id
    <3>1. a.id \in used
      BY DEF RowsOK
    <3>2. (\E q \in connection : r.id = q.id) \/ r.id \notin used
      BY <1>1, RowsCome DEF Inherits, Admits
    <3> QED BY <3>1, <3>2 DEF ClaimedOnce
  <2> QED BY <1>2, <2>1 DEF ClaimedOnce
<1>3. ASSUME NEW r \in connection, NEW x \in Disconnects \cup Removers,
             claimed' = claimed \cup {[id |-> r.id, by |-> x]}, connection' = connection \ {r}
      PROVE  ClaimedOnce'
  <2>1. \A a \in claimed : a.id # r.id
    BY DEF ClaimedOnce
  <2>2. \A q \in connection' : q.id # r.id
    BY <1>3 DEF RowsOK
  <2> QED BY <1>3, <2>1, <2>2 DEF ClaimedOnce
<1> QED BY <1>1, <1>2, <1>3 DEF ClaimedStep

(* The tokens of a credential generation leave the database for upstream   *)
(* revocation at most once, whoever races for the row and however often a  *)
(* failed purge is retried.                                                *)
THEOREM ClaimedAtMostOnce == Spec => []ClaimedOnce
<1>1. Init => ClaimedOnce
  BY DEF Init, RemovalInit, ClaimedOnce
<1>2. IInv /\ ClaimedOnce /\ [Next]_vars => ClaimedOnce'
  BY ClaimedOnceStep DEF IInv, DataOK, CallOK, TypeOK
<1> QED BY <1>1, <1>2, Inductive, PTL DEF Spec

(* The seal of each kind of removal is final on its own. *)
THEOREM EverywhereIsFinal == Spec => []EverywhereFinal
BY RemovalFinal, PTL

(* The seal of a disconnect. *)
THEOREM DisconnectIsFinal == Spec => []DisconnectFinal
BY RemovalFinal, PTL

(* The seal of a break-glass command. *)
THEOREM BreakGlassIsFinal == Spec => []BreakGlassFinal
BY RemovalFinal, PTL

----------------------------------------------------------------------------
(* One authority is spent once.                                            *)

(* Prompt n is prompt c after a step. *)
Descends(n, c) ==
  /\ n.state = c.state
  /\ n.who = c.who
  /\ c.consumed => n.consumed
  /\ n.superseded = 0 => c.superseded = 0

(* Prompts only go, or are marked. *)
LEMMA PromptsDescend ==
  ASSUME PromptsOK, used \subseteq used',
         \A n \in consents' : \E c \in consents : Descends(n, c),
         \A n1, n2 \in consents' : n1.state = n2.state => n1 = n2
  PROVE  PromptsOK'
<1>1. \A n \in consents' : n.state \in used'
  BY DEF PromptsOK, Descends
<1>2. ASSUME NEW n1 \in consents', NEW n2 \in consents',
             OwnerOf(n1.who) = OwnerOf(n2.who), n1.superseded = 0, n2.superseded = 0
      PROVE  n1 = n2
  <2>1. PICK c1 \in consents : Descends(n1, c1)
    OBVIOUS
  <2>2. PICK c2 \in consents : Descends(n2, c2)
    OBVIOUS
  <2>3. c1 = c2
    BY <1>2, <2>1, <2>2 DEF PromptsOK, OneCurrentConsent, Descends
  <2> QED BY <1>2, <2>1, <2>2, <2>3 DEF Descends
<1> QED BY <1>1, <1>2 DEF PromptsOK, OneCurrentConsent

(* A step writes no credential and makes nothing old presentable again. *)
LEMMA SourcesKept ==
  ASSUME SourcesOK, used \subseteq used', written' = written,
         \A c \in consents' : c.state \notin used \/ \E b \in consents : b.state = c.state,
         \A cb \in callbacks' : Presentable(cb.row.state),
         \A t \in tickets' : t.id \notin used \/ t \in tickets
  PROVE  SourcesOK'
<1>1. ASSUME NEW x, Presentable(x)', x \in used PROVE Presentable(x)
  BY <1>1 DEF Presentable
<1>2. SingleUse'
  BY DEF SourcesOK, SingleUse
<1> QED BY <1>1, <1>2 DEF SourcesOK

LEMMA TicketsFewer ==
  ASSUME TicketsOK, used \subseteq used', tickets' \subseteq tickets PROVE TicketsOK'
BY DEF TicketsOK

LEMMA CallbacksFewer ==
  ASSUME CallbacksOK, used \subseteq used', callbacks' \subseteq callbacks,
         \A n \in consents' : n.state \notin used \/ \E c \in consents : Descends(n, c)
  PROVE  CallbacksOK'
<1>1. ASSUME NEW cb \in callbacks', NEW n \in consents', n.state = cb.row.state PROVE n.consumed
  <2>1. n.state \in used
    BY <1>1 DEF CallbacksOK
  <2>2. PICK c \in consents : Descends(n, c)
    BY <2>1
  <2>3. c.consumed
    <3>1. cb \in callbacks /\ c.state = cb.row.state
      BY <1>1, <2>2 DEF Descends
    <3> QED BY <3>1 DEF CallbacksOK
  <2> QED BY <2>2, <2>3, Zenon DEF Descends
<1> QED BY <1>1 DEF CallbacksOK

(* The parts that are about prompts, callbacks, requests and writes. *)
Spending == PromptsOK /\ CallbacksOK /\ TicketsOK /\ SourcesOK

(* Prompts, callbacks and requests only go. *)
LEMMA SpendingQuiet ==
  ASSUME Spending, used \subseteq used', written' = written, consents' \subseteq consents,
         callbacks' \subseteq callbacks, tickets' \subseteq tickets
  PROVE  Spending'
<1>1. \A n \in consents' : Descends(n, n)
  BY DEF Descends
<1>2. PromptsOK'
  BY <1>1, PromptsDescend DEF Spending, PromptsOK
<1>3. CallbacksOK' /\ TicketsOK'
  BY <1>1, CallbacksFewer, TicketsFewer DEF Spending
<1>4. SourcesOK'
  BY SourcesKept DEF Spending, Presentable
<1> QED BY <1>2, <1>3, <1>4 DEF Spending

(* One prompt is marked. *)
LEMMA PromptMarked ==
  ASSUME Spending, NEW c \in consents, NEW n, Descends(n, c), used' = used,
         consents' = (consents \ {c}) \cup {n}
  PROVE  /\ PromptsOK'
         /\ \A m \in consents' : \E b \in consents : Descends(m, b)
<1>1. \A m \in consents' : \E b \in consents : Descends(m, b)
  BY DEF Descends
<1>2. \A m1, m2 \in consents' : m1.state = m2.state => m1 = m2
  BY DEF Spending, PromptsOK, Descends
<1> QED BY <1>1, <1>2, PromptsDescend DEF Spending

LEMMA BeginSpending ==
  ASSUME DataOK, Spending, NEW i \in Identities, NEW ch \in Channels, NEW issued \in 1..now,
         Begin(i, ch, issued), UNCHANGED vaultVars
  PROVE  Spending'
<1> DEFINE existing == CurrentConsents(OwnerOf(i))
<1>1. PICK s \in StateIds \ used :
        /\ used' = used \cup {s}
        /\ consents' = (consents \ existing)
             \cup {SupersedeRow(c) : c \in existing}
             \cup {[ state |-> s, who |-> i, chan |-> ch, created |-> issued,
                     verified |-> FALSE, consumed |-> FALSE, superseded |-> 0 ]}
  BY DEF Begin
<1> DEFINE new == [ state |-> s, who |-> i, chan |-> ch, created |-> issued,
                    verified |-> FALSE, consumed |-> FALSE, superseded |-> 0 ]
<1>2. now # 0 /\ UNCHANGED <<callbacks, tickets, written>>
  BY MaxTimeAssumption DEF DataOK, FencesTypeOK, vaultVars
<1>3. \A c \in existing : /\ c \in consents /\ Descends(SupersedeRow(c), c)
                          /\ SupersedeRow(c).superseded # 0
  BY <1>2 DEF CurrentConsents, OwnerConsents, Descends, SupersedeRow, DataOK, ConsentTypeOK,
              ConsentRow
<1>4. \A n \in consents' : n = new \/ \E c \in consents : Descends(n, c) /\ (n = c \/ n = SupersedeRow(c))
  BY <1>1, <1>3 DEF Descends
<1>5. \A c \in consents' \ {new} : c.superseded = 0 => c \in consents \ existing
  BY <1>1, <1>3
<1>6. new.state = s /\ new.who = i
  OBVIOUS
<1> HIDE DEF new
<1>7. \A n \in consents' : n = new \/ n.state \in used
  BY <1>4 DEF Spending, PromptsOK, Descends
<1>8. \A n1, n2 \in consents' : n1.state = n2.state => n1 = n2
  <2> SUFFICES ASSUME NEW n1 \in consents', NEW n2 \in consents', n1.state = n2.state
               PROVE  n1 = n2
    OBVIOUS
  <2>1. CASE n1 = new \/ n2 = new
    BY <1>1, <1>6, <1>7, <2>1
  <2>2. CASE n1 # new /\ n2 # new
    <3>1. /\ \/ n1 \in consents \ existing
             \/ \E c \in existing : n1 = SupersedeRow(c)
          /\ \/ n2 \in consents \ existing
             \/ \E c \in existing : n2 = SupersedeRow(c)
      BY <1>1, <2>2 DEF new
    <3>2. \A c \in existing : SupersedeRow(c).state = c.state
      BY <1>3 DEF Descends
    <3> QED BY <1>3, <3>1, <3>2 DEF Spending, PromptsOK
  <2> QED BY <2>1, <2>2
<1>9. PromptsOK'
  <2>1. \A n \in consents' : n.state \in used'
    BY <1>1, <1>6, <1>7
  <2>2. ASSUME NEW n1 \in consents', NEW n2 \in consents',
               OwnerOf(n1.who) = OwnerOf(n2.who), n1.superseded = 0, n2.superseded = 0
        PROVE  n1 = n2
    <3>1. n1 = new \/ n1 \in consents \ existing
      BY <1>5, <2>2
    <3>2. n2 = new \/ n2 \in consents \ existing
      BY <1>5, <2>2
    <3>3. \A c \in consents \ existing : c.superseded = 0 => OwnerOf(c.who) # OwnerOf(i)
      BY DEF CurrentConsents, OwnerConsents
    <3> QED BY <1>6, <2>2, <3>1, <3>2, <3>3 DEF Spending, PromptsOK, OneCurrentConsent
  <2> QED BY <1>8, <2>1, <2>2 DEF PromptsOK, OneCurrentConsent
<1>10. \A n \in consents' : n.state \notin used \/ \E c \in consents : Descends(n, c)
  BY <1>1, <1>4, <1>6
<1>11. CallbacksOK' /\ TicketsOK' /\ SourcesOK'
  <2>1. CallbacksOK'
    BY <1>1, <1>2, <1>10, CallbacksFewer DEF Spending
  <2>2. TicketsOK'
    BY <1>1, <1>2, TicketsFewer DEF Spending
  <2>3. SourcesOK'
    BY <1>1, <1>2, <1>10, SourcesKept DEF Spending, Presentable, Descends
  <2> QED BY <2>1, <2>2, <2>3
<1> QED BY <1>9, <1>11 DEF Spending

LEMMA ConsentSpending ==
  ASSUME DataOK, Spending, ConsentStep PROVE Spending'
<1>1. UNCHANGED <<callbacks, tickets, written>>
  BY DEF ConsentStep, vaultVars
<1>2. CASE \E i \in Identities, ch \in Channels, issued \in 1..now : Begin(i, ch, issued)
  BY <1>2, BeginSpending DEF ConsentStep
<1>3. ASSUME NEW c \in consents, MarkSlackVerified(c) PROVE Spending'
  <2> DEFINE n == [c EXCEPT !.verified = TRUE]
  <2>1. consents' = (consents \ {c}) \cup {n} /\ used' = used
    BY <1>3 DEF MarkSlackVerified
  <2>2. Descends(n, c)
    BY DEF Descends, DataOK, ConsentTypeOK, ConsentRow
  <2> HIDE DEF n
  <2>3. PromptsOK' /\ \A m \in consents' : \E b \in consents : Descends(m, b)
    BY <2>1, <2>2, PromptMarked
  <2>4. CallbacksOK' /\ TicketsOK'
    BY <1>1, <2>1, <2>3, CallbacksFewer, TicketsFewer DEF Spending
  <2>5. SourcesOK'
    BY <1>1, <2>1, <2>3, SourcesKept DEF Spending, Presentable, Descends
  <2> QED BY <2>3, <2>4, <2>5 DEF Spending
<1>4. CASE SweepStale
  BY <1>1, <1>4, SpendingQuiet DEF SweepStale
<1> QED BY <1>2, <1>3, <1>4 DEF ConsentStep

(* A state is consumed by one callback. *)
LEMMA ConsumeSpending ==
  ASSUME DataOK, Spending, NEW c \in consents, NEW synthetic \in Modes, Consume(c, synthetic)
  PROVE  Spending'
<1> DEFINE n == [c EXCEPT !.consumed = TRUE]
           x == [ pc |-> "claimed", row |-> c, expired |-> now > c.created + StateTTL,
                  synthetic |-> synthetic ]
<1>1. /\ consents' = (consents \ {c}) \cup {n} /\ callbacks' = callbacks \cup {x}
      /\ ~c.consumed /\ UNCHANGED <<used, tickets, written>>
  BY DEF Consume
<1>2. Descends(n, c) /\ n.consumed
  BY DEF Descends, DataOK, ConsentTypeOK, ConsentRow
<1>3. x.row = c
  OBVIOUS
<1> HIDE DEF n, x
<1>4. PromptsOK' /\ \A m \in consents' : \E b \in consents : Descends(m, b)
  BY <1>1, <1>2, PromptMarked
<1>5. CallbacksOK'
  <2>1. \A cb \in callbacks : cb.row.state # c.state
    BY <1>1 DEF Spending, CallbacksOK
  <2>2. \A m \in consents' : m.state = c.state => m.consumed
    BY <1>1, <1>2 DEF Spending, PromptsOK, Descends
  <2>3. \A cb \in callbacks, m \in consents' : m.state = cb.row.state => m.consumed
    BY <1>1, <1>2 DEF Spending, CallbacksOK, Descends
  <2> QED BY <1>1, <1>3, <2>1, <2>2, <2>3 DEF Spending, CallbacksOK, PromptsOK
<1>6. TicketsOK'
  BY <1>1, TicketsFewer DEF Spending
<1>7. SourcesOK'
  BY <1>1, <1>3, <1>4, SourcesKept DEF Spending, Presentable, Descends
<1> QED BY <1>4, <1>5, <1>6, <1>7 DEF Spending

LEMMA ClassifySpending ==
  ASSUME DataOK, Spending, NEW cb \in callbacks, Classify(cb) PROVE Spending'
<1> DEFINE x == [cb EXCEPT !.pc = "exchanging"]
<1>1. /\ callbacks' \subseteq (callbacks \ {cb}) \cup {x}
      /\ UNCHANGED <<consents, used, tickets, written>>
  BY DEF Classify, consentVars
<1>2. x.row = cb.row
  BY DEF DataOK, VaultTypeOK, Callback
<1> HIDE DEF x
<1>3. PromptsOK' /\ TicketsOK'
  BY <1>1, TicketsFewer DEF Spending, PromptsOK, OneCurrentConsent
<1>4. CallbacksOK'
  BY <1>1, <1>2 DEF Spending, CallbacksOK
<1>5. SourcesOK'
  BY <1>1, <1>2, SourcesKept DEF Spending, Presentable
<1> QED BY <1>3, <1>4, <1>5 DEF Spending

(* The fenced write spends the authority src, which cannot be presented     *)
(* again once it is gone from where it was kept.                            *)
LEMMA ProvisionSpending ==
  ASSUME DataOK, Spending, NEW i \in Identities, NEW issued \in Time, NEW synthetic \in BOOLEAN,
         NEW src \in StateIds \cup TicketIds \cup {Direct},
         NEW cs \in SUBSET consents, NEW ts \in SUBSET tickets,
         Provision(i, issued, synthetic, src, cs, ts),
         callbacks' \subseteq callbacks,
         src # Direct => Presentable(src),
         src # Direct /\ Verdict(i, issued, synthetic) = "current" =>
           /\ \A c \in cs : c.state # src
           /\ \A cb \in callbacks' : cb.row.state # src
           /\ \A t \in ts : t.id # src
  PROVE  Spending'
<1> DEFINE o == OwnerOf(i)
<1>1. used \subseteq used' /\ tickets' \subseteq ts
  BY DEF Provision, WithoutSatellites
<1>2. \/ consents' = cs
      \/ consents' = SupersedeThrough(o, issued, cs)
  BY DEF Provision
<1>3. \A c \in cs : Descends(c, c) /\ Descends(SupersedeRow(c), c)
  <2>1. now # 0
    BY MaxTimeAssumption DEF DataOK, FencesTypeOK
  <2> QED BY <2>1 DEF Descends, SupersedeRow, DataOK, ConsentTypeOK, ConsentRow
<1>4. \A n \in consents' : \E c \in cs : Descends(n, c)
  BY <1>2, <1>3 DEF SupersedeThrough
<1>5. \A n1, n2 \in consents' : n1.state = n2.state => n1 = n2
  <2>1. CASE consents' = cs
    BY <2>1 DEF Spending, PromptsOK
  <2>2. CASE consents' = SupersedeThrough(o, issued, cs)
    <3> DEFINE img(c) == IF OwnerOf(c.who) = o /\ c.superseded = 0 /\ ~c.consumed /\ c.created <= issued
                           THEN SupersedeRow(c) ELSE c
    <3>1. consents' = {img(c) : c \in cs}
      BY <2>2 DEF SupersedeThrough
    <3>2. \A c \in cs : img(c).state = c.state
      BY <1>3 DEF Descends
    <3> HIDE DEF img
    <3>3. \A c, d \in cs : c.state = d.state => c = d
      BY DEF Spending, PromptsOK
    <3> QED BY <3>1, <3>2, <3>3
  <2> QED BY <1>2, <2>1, <2>2
<1>6. PromptsOK' /\ CallbacksOK' /\ TicketsOK'
  BY <1>1, <1>4, <1>5, PromptsDescend, CallbacksFewer, TicketsFewer DEF Spending
<1>7. CASE written' = written
  <2>1. SourcesOK'
    BY <1>1, <1>4, <1>7, SourcesKept DEF Spending, Presentable, Descends
  <2> QED BY <1>6, <2>1 DEF Spending
<1>8. ASSUME Verdict(i, issued, synthetic) = "current", NEW g \in GenIds \ used,
             written' = written \cup {[id |-> g, src |-> src]}
      PROVE  Spending'
  <2> DEFINE w == [id |-> g, src |-> src]
  <2>1. w.src = src /\ written' = written \cup {w}
    BY <1>8
  <2> HIDE DEF w
  <2>2. ASSUME NEW x, Presentable(x)'
        PROVE  Presentable(x) /\ (src # Direct => x # src)
    BY <1>1, <1>4, <1>8, <2>2 DEF Presentable, Descends
  <2>3. src # Direct => src \in used
    BY DEF Presentable, Spending, PromptsOK, CallbacksOK, TicketsOK
  <2>4. \A v \in written : v.src # Direct => v.src # src
    BY DEF Spending, SourcesOK
  <2>5. SingleUse'
    BY <2>1, <2>4 DEF Spending, SourcesOK, SingleUse
  <2>6. ASSUME NEW v \in written', v.src # Direct PROVE v.src \in used' /\ ~Presentable(v.src)'
    BY <1>1, <2>1, <2>2, <2>3, <2>6 DEF Spending, SourcesOK
  <2>7. SourcesOK'
    BY <2>5, <2>6 DEF SourcesOK
  <2> QED BY <1>6, <2>7 DEF Spending
<1> QED BY <1>7, <1>8 DEF Provision

LEMMA FinalizeSpending ==
  ASSUME DataOK, Spending, NEW cb \in callbacks, Finalize(cb) PROVE Spending'
<1> DEFINE row == cb.row
           cs == consents \ CurrentClaim(row)
<1>1. /\ row.who \in Identities /\ row.created \in Time /\ row.state \in StateIds
      /\ cb.synthetic \in BOOLEAN
  BY DEF DataOK, VaultTypeOK, Callback, ConsentRow
<1>2. callbacks' = callbacks \ {cb}
  BY DEF Finalize
<1>3. CASE UNCHANGED <<consentVars, connection, tickets, written, fenceVars>>
  BY <1>2, <1>3, SpendingQuiet DEF consentVars
<1>4. CASE /\ CurrentClaim(row) # {} \/ LifecycleBlocks(row.who, row.created)
           /\ Provision(row.who, row.created, cb.synthetic, row.state, cs, tickets)
  <2>1. Presentable(row.state)
    BY DEF Presentable
  <2>2. \A x \in callbacks' : x.row.state # row.state
    BY <1>2 DEF Spending, CallbacksOK
  <2>3. \A t \in tickets : t.id # row.state
    BY <1>1, SourcesAssumption DEF DataOK, VaultTypeOK, Ticket
  <2>4. ASSUME Verdict(row.who, row.created, cb.synthetic) = "current"
        PROVE  \A c \in cs : c.state # row.state
    <3>1. PICK c \in CurrentClaim(row) : TRUE
      BY <1>4, <2>4 DEF Verdict, LifecycleBlocks
    <3>2. c \in consents /\ c.state = row.state
      BY DEF CurrentClaim
    <3> QED BY <3>1, <3>2 DEF Spending, PromptsOK
  <2>5. cs \in SUBSET consents /\ tickets \in SUBSET tickets /\ callbacks' \subseteq callbacks
    BY <1>2
  <2> HIDE DEF row, cs
  <2> QED BY <1>1, <1>4, <2>1, <2>2, <2>3, <2>4, <2>5, ProvisionSpending
<1> QED BY <1>3, <1>4 DEF Finalize

LEMMA VaultSpending ==
  ASSUME DataOK, Spending, VaultStep PROVE Spending'
<1>1. now \in Time /\ 1..now \subseteq Time
  BY MaxTimeAssumption DEF DataOK, FencesTypeOK, Time
<1>2. ASSUME NEW c \in consents, NEW synthetic \in Modes, Consume(c, synthetic) PROVE Spending'
  BY <1>2, ConsumeSpending
<1>3. ASSUME NEW cb \in callbacks, Classify(cb) \/ FailCallback(cb) \/ Finalize(cb) PROVE Spending'
  <2>1. CASE FailCallback(cb)
    BY <2>1, SpendingQuiet DEF FailCallback, consentVars
  <2> QED BY <1>3, <2>1, ClassifySpending, FinalizeSpending
<1>4. ASSUME NEW i \in Identities, NEW issued \in 1..now, IssueRequest(i, issued) PROVE Spending'
  <2>1. PICK n \in TicketIds \ used :
          /\ used' = used \cup {n}
          /\ tickets' = WithoutSatellites(OwnerOf(i), tickets)
               \cup {[id |-> n, owner |-> OwnerOf(i), created |-> issued]}
    BY <1>4 DEF IssueRequest
  <2>2. UNCHANGED <<consents, callbacks, written>>
    BY <1>4 DEF IssueRequest
  <2>3. \A t \in tickets' : t \in tickets \/ t = [id |-> n, owner |-> OwnerOf(i), created |-> issued]
    BY <2>1 DEF WithoutSatellites
  <2>4. TicketsOK'
    BY <2>1, <2>3 DEF Spending, TicketsOK
  <2>5. PromptsOK' /\ CallbacksOK'
    BY <2>1, <2>2 DEF Spending, PromptsOK, CallbacksOK, OneCurrentConsent
  <2>6. SourcesOK'
    BY <2>1, <2>2, <2>3, SourcesKept DEF Spending, Presentable
  <2> QED BY <2>4, <2>5, <2>6 DEF Spending
<1>5. ASSUME NEW t \in tickets, NEW i \in Identities, SubmitRequest(t, i) PROVE Spending'
  <2> DEFINE ts == tickets \ {t}
  <2>1. t.id \in TicketIds /\ t.created \in Time /\ FALSE \in BOOLEAN
    BY DEF DataOK, VaultTypeOK, Ticket
  <2>2. ts \in SUBSET tickets /\ consents \in SUBSET consents
    OBVIOUS
  <2>3. Provision(i, t.created, FALSE, t.id, consents, ts) /\ callbacks' = callbacks
    BY <1>5 DEF SubmitRequest
  <2>4. Presentable(t.id)
    BY DEF Presentable
  <2>5. /\ \A c \in consents : c.state # t.id
        /\ \A cb \in callbacks : cb.row.state # t.id
    BY <2>1, SourcesAssumption DEF DataOK, ConsentTypeOK, ConsentRow, VaultTypeOK, Callback
  <2>6. \A u \in ts : u.id # t.id
    BY DEF Spending, TicketsOK
  <2> HIDE DEF ts
  <2> QED BY <2>1, <2>2, <2>3, <2>4, <2>5, <2>6, ProvisionSpending
<1>6. ASSUME NEW i \in Identities, NEW issued \in 1..now, NEW synthetic \in Modes,
             DirectWrite(i, issued, synthetic) PROVE Spending'
  <2>1. synthetic \in BOOLEAN /\ issued \in Time
    BY <1>1, VaultAssumption
  <2>2. consents \in SUBSET consents /\ tickets \in SUBSET tickets
    OBVIOUS
  <2>3. Provision(i, issued, synthetic, Direct, consents, tickets) /\ callbacks' \subseteq callbacks
    BY <1>6 DEF DirectWrite
  <2> QED BY <2>1, <2>2, <2>3, ProvisionSpending
<1>7. CASE SweepRequests
  BY <1>7, SpendingQuiet DEF SweepRequests, consentVars
<1>8. ASSUME NEW r \in connection, GrowIdle(r) \/ GrowOld(r) \/ Touch(r) \/ UpdateTokens(r)
      PROVE Spending'
  BY <1>8, SpendingQuiet DEF GrowIdle, GrowOld, Touch, UpdateTokens, Replace, consentVars
<1>9. ASSUME NEW r \in connection, DeleteExpired(r) PROVE Spending'
  BY <1>9, SpendingQuiet DEF DeleteExpired, WithoutSatellites, consentVars
<1> QED BY <1>2, <1>3, <1>4, <1>5, <1>6, <1>7, <1>8, <1>9 DEF VaultStep

(* A removal only takes away what could still be presented. *)
LEMMA RemovalSpending ==
  ASSUME Spending, ClaimStep \/ DisconnectStep \/ OffboardStep \/ BreakGlassStep
  PROVE  Spending'
<1>1. /\ used' = used /\ written' = written /\ callbacks' = callbacks
      /\ consents' \subseteq consents /\ tickets' \subseteq tickets
  <2> USE DEF vaultVars, consentVars, DeleteRow, NothingDeleted, WithoutSatellites
  <2>1. CASE ClaimStep
    BY <2>1 DEF ClaimStep, ClaimFence, ClaimDelete, ClaimRetry
  <2>2. CASE DisconnectStep
    BY <2>2 DEF DisconnectStep, PrepareDisconnect, DeletePrepared, SettleDisconnect
  <2>3. CASE OffboardStep
    BY <2>3 DEF OffboardStep, MarkEverywhere, Discover, EndEverywhere, MarkTeam, PurgeConsents,
       PurgeRequests, ListConnections, Removed, FinishTeam, OwnerConsents, TicketsOf
  <2>4. CASE BreakGlassStep
    BY <2>4 DEF BreakGlassStep, MarkScope, PurgePending, SelectRows, RevokeRow, RowRevoked,
       EndRound, Exit, OwnerConsents
  <2> QED BY <2>1, <2>2, <2>3, <2>4
<1> QED BY <1>1, SpendingQuiet

LEMMA SpendingStep ==
  ASSUME DataOK, Spending, [Next]_vars PROVE Spending'
<1>1. CASE Clock
  BY <1>1, SpendingQuiet DEF Clock, consentVars, vaultVars
<1>2. CASE UNCHANGED vars
  BY <1>2, SpendingQuiet DEF vars, consentVars, vaultVars
<1> QED BY <1>1, <1>2, ConsentSpending, VaultSpending, RemovalSpending DEF Next

----------------------------------------------------------------------------
(* The generation a disconnect has prepared.                               *)

LEMMA PreparedKept ==
  ASSUME DataOK, CallOK, Step, NEW d \in Disconnects, disc'[d] = disc[d], DisconnectOK(d),
         PreparedOK(d)
  PROVE  PreparedOK(d)'
<1>1. RowsStep /\ DataOK'
  BY DEF Step
<1>2. ASSUME disc[d].pc = "prepared", disc[d].expected = None, NEW r \in connection',
             r.id = disc[d].snap
      PROVE  r.gen < disc[d].issued
  <2>1. disc[d].snap \in used
    BY <1>2 DEF PreparedOK, DisconnectOK
  <2>2. PICK q \in connection : Inherits(r, q)
    BY <1>1, <1>2, <2>1, RowsCome DEF Admits
  <2> QED BY <1>2, <2>2 DEF PreparedOK, Inherits
<1> QED BY <1>2 DEF PreparedOK

LEMMA PreparedStep ==
  ASSUME DataOK, CallOK, RowsOK, Step, \A d \in Disconnects : DisconnectOK(d) /\ PreparedOK(d),
         [Next]_vars
  PROVE  \A d \in Disconnects : PreparedOK(d)'
<1>1. CASE UNCHANGED disc
  BY <1>1, PreparedKept
<1>2. CASE DisconnectStep
  <2> PICK d \in Disconnects :
        \/ \E i \in Identities, issued \in 1..now, expected \in (GenIds \cap used) \cup {None} :
             PrepareDisconnect(d, i, issued, expected)
        \/ DeletePrepared(d)
        \/ \E upstreamOk \in BOOLEAN : SettleDisconnect(d, upstreamOk)
    BY <1>2 DEF DisconnectStep
  <2>1. DOMAIN disc = Disconnects /\ disc[d] \in DisconnectRequest
    BY DEF CallOK, DisconnectTypeOK
  <2>2. \A x \in Disconnects \ {d} : disc'[x] = disc[x]
    BY <2>1 DEF PrepareDisconnect, DeletePrepared, SettleDisconnect
  <2>3. \A x \in Disconnects \ {d} : PreparedOK(x)'
    BY <2>2, PreparedKept
  <2>4. CASE DeletePrepared(d) \/ \E upstreamOk \in BOOLEAN : SettleDisconnect(d, upstreamOk)
    <3>1. disc'[d].pc # "prepared"
      <4>1. CASE disc' = [disc EXCEPT ![d].pc = "done"] \/ disc' = [disc EXCEPT ![d].pc = "settle"]
        BY <2>1, <4>1 DEF DisconnectRequest
      <4>2. CASE disc' = [disc EXCEPT ![d] = [@ EXCEPT !.pc = "settle", !.removed = TRUE]]
        BY <2>1, <4>2 DEF DisconnectRequest
      <4> QED BY <2>4, <4>1, <4>2 DEF DeletePrepared, SettleDisconnect
    <3> QED BY <2>3, <3>1 DEF PreparedOK
  <2>5. ASSUME NEW i \in Identities, NEW issued \in 1..now,
               NEW expected \in (GenIds \cap used) \cup {None},
               PrepareDisconnect(d, i, issued, expected)
        PROVE  PreparedOK(d)'
    <3> DEFINE o == OwnerOf(i)
    <3>1. PICK snap \in GenIds \cup {None} :
            /\ IF RowsOf(o) = {} THEN snap = None ELSE \E r \in RowsOf(o) : r.id = snap
            /\ disc'[d].pc = (IF snap = None THEN "settle" ELSE "prepared")
            /\ disc'[d].issued = issued /\ disc'[d].expected = expected /\ disc'[d].snap = snap
      BY <2>1, <2>5 DEF PrepareDisconnect
    <3>2. /\ connection' = connection
          /\ IF expected = None THEN \A r \in RowsOf(o) : r.gen < issued
                                ELSE \E r \in RowsOf(o) : r.id = expected
      BY <2>5 DEF PrepareDisconnect, vaultVars
    <3>3. ASSUME snap # None
          PROVE  \E r \in RowsOf(o) : /\ r.id = snap /\ RowsOf(o) = {r}
                                      /\ \A q \in connection : q.id = snap => q = r
      BY <3>1, <3>3 DEF RowsOf, RowsOK
    <3>4. ASSUME snap # None
          PROVE  /\ expected # None => snap = expected
                 /\ expected = None => \A r \in connection : r.id = snap => r.gen < issued
      BY <3>2, <3>3, <3>4
    <3> QED BY <3>1, <3>2, <3>4 DEF PreparedOK
  <2> QED BY <2>3, <2>4, <2>5
<1> QED BY <1>1, <1>2 DEF Next, vars

(* Every authority that could be presented is still unspent, and a prepared *)
(* disconnect holds what it may remove.                                     *)
THEOREM SpendInductive == Spec => []SpendIInv
<1>1. Init => SpendIInv
  BY DEF Init, ConsentInit, VaultInit, DisconnectInit, SpendIInv, PromptsOK, CallbacksOK, TicketsOK,
     SourcesOK, PreparedOK, OneCurrentConsent, SingleUse
<1>2. IInv /\ SpendIInv /\ [Next]_vars => SpendIInv'
  <2> SUFFICES ASSUME IInv, SpendIInv, [Next]_vars PROVE SpendIInv'
    OBVIOUS
  <2>1. DataOK /\ CallOK /\ RowsOK /\ Spending
    BY DEF IInv, DataOK, CallOK, TypeOK, SpendIInv, Spending
  <2>2. Step
    BY <2>1, NextOK
  <2>3. \A d \in Disconnects : DisconnectOK(d) /\ PreparedOK(d)
    BY DEF IInv, SpendIInv
  <2>4. Spending' /\ \A d \in Disconnects : PreparedOK(d)'
    BY <2>1, <2>2, <2>3, SpendingStep, PreparedStep
  <2> QED BY <2>4 DEF SpendIInv, Spending
<1> QED BY <1>1, <1>2, Inductive, PTL DEF Spec

(* An owner has one prompt that is not superseded (beginAt).                *)
THEOREM OnePromptPerOwner == Spec => []OneCurrentConsent
<1>1. SpendIInv => OneCurrentConsent
  BY DEF SpendIInv, PromptsOK
<1> QED BY <1>1, SpendInductive, PTL

(* One OAuth state and one setup request yield at most one credential.      *)
THEOREM UsedOnce == Spec => []SingleUse
<1>1. SpendIInv => SingleUse
  BY DEF SpendIInv, SourcesOK
<1> QED BY <1>1, SpendInductive, PTL

----------------------------------------------------------------------------
(* What a write and a disconnect may never do.                             *)

(* The write that a step makes, and the authority it spends.                *)
LEMMA WriteStep ==
  ASSUME DataOK, Spending, [Next]_vars, NEW w \in written' \ written
  PROVE  \/ w.src \in TicketIds \cup {Direct}
         \/ \E cb \in callbacks : w.src = cb.row.state /\ CurrentClaim(cb.row) # {}
<1>1. ASSUME NEW i, NEW issued, NEW synthetic, NEW src, NEW cs, NEW ts,
             Provision(i, issued, synthetic, src, cs, ts)
      PROVE  w.src = src /\ Verdict(i, issued, synthetic) = "current"
  BY <1>1 DEF Provision
<1>2. ASSUME NEW cb \in callbacks, Finalize(cb)
      PROVE  w.src = cb.row.state /\ CurrentClaim(cb.row) # {}
  <2>1. Provision(cb.row.who, cb.row.created, cb.synthetic, cb.row.state,
                  consents \ CurrentClaim(cb.row), tickets)
    BY <1>2 DEF Finalize
  <2>2. w.src = cb.row.state /\ Verdict(cb.row.who, cb.row.created, cb.synthetic) = "current"
    BY <1>1, <2>1
  <2>3. ~LifecycleBlocks(cb.row.who, cb.row.created)
    BY <2>2 DEF Verdict, LifecycleBlocks
  <2> QED BY <1>2, <2>2, <2>3 DEF Finalize
<1>3. ASSUME NEW t \in tickets, NEW i \in Identities, SubmitRequest(t, i) PROVE w.src \in TicketIds
  BY <1>1, <1>3 DEF SubmitRequest, DataOK, VaultTypeOK, Ticket
<1>4. ASSUME NEW i \in Identities, NEW issued \in 1..now, NEW synthetic \in Modes,
             DirectWrite(i, issued, synthetic) PROVE w.src = Direct
  BY <1>1, <1>4 DEF DirectWrite
<1>5. CASE VaultStep
  BY <1>2, <1>3, <1>4, <1>5 DEF VaultStep, Consume, Classify, FailCallback, IssueRequest,
     SweepRequests, GrowIdle, GrowOld, Touch, UpdateTokens, Replace, DeleteExpired
<1>6. CASE written' = written
  BY <1>6
<1>7. CASE ClaimStep \/ DisconnectStep \/ OffboardStep \/ BreakGlassStep
  <2> USE DEF vaultVars
  <2>1. written' = written
    <3>1. CASE ClaimStep
      BY <3>1 DEF ClaimStep, ClaimFence, ClaimDelete, ClaimRetry
    <3>2. CASE DisconnectStep
      BY <3>2 DEF DisconnectStep, PrepareDisconnect, DeletePrepared, SettleDisconnect
    <3>3. CASE OffboardStep
      BY <3>3 DEF OffboardStep, MarkEverywhere, Discover, EndEverywhere, MarkTeam, PurgeConsents,
         PurgeRequests, ListConnections, Removed, FinishTeam
    <3>4. CASE BreakGlassStep
      BY <3>4 DEF BreakGlassStep, MarkScope, PurgePending, SelectRows, RevokeRow, RowRevoked,
         EndRound, Exit
    <3> QED BY <1>7, <3>1, <3>2, <3>3, <3>4
  <2> QED BY <2>1
<1> QED BY <1>5, <1>6, <1>7 DEF Next, Clock, ConsentStep, vars, vaultVars

(* A prompt superseded during its callback's token exchange never becomes a *)
(* credential (finalizeProvisioning).                                       *)
THEOREM SupersededNeverWritten == Spec => NoSupersededWrite
<1> DEFINE A == \A w \in written' \ written, c \in consents : c.state = w.src => c.superseded = 0
<1>1. ASSUME IInv, SpendIInv, [Next]_vars PROVE A
  <2>1. DataOK /\ Spending
    BY <1>1 DEF IInv, DataOK, TypeOK, SpendIInv, Spending
  <2> SUFFICES ASSUME NEW w \in written' \ written, NEW c \in consents, c.state = w.src
               PROVE  c.superseded = 0
    OBVIOUS
  <2>2. w.src \in StateIds
    BY <2>1 DEF DataOK, ConsentTypeOK, ConsentRow
  <2>3. PICK cb \in callbacks : w.src = cb.row.state /\ CurrentClaim(cb.row) # {}
    BY <1>1, <2>1, <2>2, WriteStep, SourcesAssumption
  <2>4. PICK b \in CurrentClaim(cb.row) : TRUE
    BY <2>3
  <2>5. b \in consents /\ b.state = c.state /\ b.superseded = 0
    BY <2>3 DEF CurrentClaim
  <2> QED BY <2>1, <2>5 DEF Spending, PromptsOK
<1> QED BY <1>1, Inductive, SpendInductive, PTL DEF Spec, NoSupersededWrite

(* A live real credential is replaced only under a newer issuance, and      *)
(* never by a synthetic one (withUserProvisioningFence).                    *)
THEOREM ReplacedInOrder == Spec => ReplacementOrder
<1> DEFINE A == \A r \in connection, n \in connection' :
                  r.owner = n.owner /\ r.id # n.id /\ ~r.dry =>
                    ~n.dry /\ (~Expired(r) => n.issued > r.gen)
<1>1. ASSUME IInv, [Next]_vars PROVE A
  <2>1. DataOK /\ CallOK /\ RowsOK
    BY <1>1 DEF IInv, DataOK, CallOK, TypeOK
  <2>2. RowsStep
    BY <1>1, <2>1, NextOK DEF Step
  <2> SUFFICES ASSUME NEW r \in connection, NEW n \in connection',
                      r.owner = n.owner, r.id # n.id, ~r.dry
               PROVE  ~n.dry /\ (~Expired(r) => n.issued > r.gen)
    OBVIOUS
  <2>3. ~\E q \in connection : Inherits(n, q)
    BY <2>1 DEF RowsOK, Inherits
  <2>4. PICK i \in Identities : n \in Row /\ Admits(i, n)
    BY <2>1, <2>2, <2>3, RowsCome
  <2>5. r \in RowsOf(OwnerOf(i))
    BY <2>4 DEF Admits, RowsOf
  <2> QED BY <2>4, <2>5 DEF Admits
<1> QED BY <1>1, Inductive, PTL DEF Spec, ReplacementOrder

(* A disconnect removes the generation its control named or one stored      *)
(* before it was issued: a delayed request never hits a reconnect           *)
(* (prepareUserDisconnect, deleteForRevoke).                                *)
THEOREM DisconnectsExactly == Spec => DisconnectExact
<1> DEFINE A == \A d \in Disconnects, r \in connection :
                  disc'[d].removed /\ ~disc[d].removed /\ r \notin connection' =>
                    \/ r.id = disc[d].expected
                    \/ disc[d].expected = None /\ r.gen < disc[d].issued
<1>1. ASSUME IInv, SpendIInv, [Next]_vars PROVE A
  <2> SUFFICES ASSUME NEW d \in Disconnects, NEW r \in connection,
                      disc'[d].removed, ~disc[d].removed, r \notin connection'
               PROVE  \/ r.id = disc[d].expected
                      \/ disc[d].expected = None /\ r.gen < disc[d].issued
    OBVIOUS
  <2>1. DOMAIN disc = Disconnects /\ \A x \in Disconnects : disc[x] \in DisconnectRequest
    BY <1>1 DEF IInv, TypeOK, DisconnectTypeOK
  <2>2. DeletePrepared(d)
    <3>1. DisconnectStep
      BY <1>1 DEF Next, vars
    <3>2. PICK x \in Disconnects :
            \/ connection' = connection
            \/ DeletePrepared(x)
      BY <3>1 DEF DisconnectStep, PrepareDisconnect, SettleDisconnect, vaultVars
    <3>3. \A y \in Disconnects : y # x /\ DeletePrepared(x) => disc'[y] = disc[y]
      BY <2>1 DEF DeletePrepared
    <3> QED BY <3>2, <3>3
  <2>3. PICK q \in ExactRows(d) : connection' = connection \ {q}
    BY <2>2 DEF DeletePrepared, NothingDeleted, DeleteRow
  <2>4. r = q /\ r.id = disc[d].snap
    BY <2>3 DEF ExactRows
  <2>5. disc[d].pc = "prepared"
    BY <2>2 DEF DeletePrepared
  <2> QED BY <1>1, <2>4, <2>5 DEF SpendIInv, PreparedOK
<1> QED BY <1>1, Inductive, SpendInductive, PTL DEF Spec, DisconnectExact

=============================================================================
