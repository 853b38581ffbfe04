# Vouchr in TLA+

Vouchr is a credential broker for agents that live in Slack. It keeps users' and
channels' OAuth tokens and API keys encrypted in PostgreSQL, injects them into
outbound requests of a tool (so that the agent never sees them), asks humans for
approval where a policy demands it, and removes credentials when their owner
disconnects, leaves, or an operator breaks the glass.

Several processes share one database: Bolt apps (Slack handlers in process),
HTTP brokers (`src/bin/broker-server.ts`, several replicas), and an operator
command (`src/bin/vouchr.ts`). Every interesting guarantee is therefore a
guarantee about interleaved calls, and most of the code's cleverness is in the
order in which tables are read, fenced and written. That is what these modules
are about. The cryptography, the texts, the Slack rendering and the URL checks
are pure functions of their input and are not.

How to read: sections 1 and 2 are the inventory of the system and the map from
code to modules. Section 3 describes each module, 4 the runs, 5 the fairness, 6
the proofs, 7 the disagreements found between code and comments, 8 the
abstractions everything rests on, 9 what is left and in which order it is planned.

## 1. Inventory

### 1.1 Stateful components

| component | state | operations | hard behaviour | correct means |
|---|---|---|---|---|
| Fences (`core/consent.ts`) | `offboard_tombstone`, `user_offboard_scope_tombstone`, `provisioning_revocation_tombstone`, PostgreSQL's clock | record a tombstone (team, enterprise or global, with or without provider), ask whether a write with a given issuance is refused | comparison `>=` at equal timestamps, enterprise context present on one side only, recorded before, read after, the rows it protects | a removal is final against every write authorised before it |
| Consent states (`core/consent.ts`) | `consent_request`: creation, consumption, supersession, Slack verification, delivery lease | mint or reuse (`beginFenced`), verify Slack, claim on callback (`consume`), supersede, finalize, sweep | callback and supersession race while the token exchange is in flight; retention of dead rows | one current prompt per owner and provider, a state spent once, a superseded prompt never yields a credential |
| Vault (`core/vault.ts`) | `connection`: row id, generation time, last use, token pair, synthetic flag | fenced put, delete by owner or generation, claim for revocation, list, touch, refresh-write, expiry sweep | writes that were authorised long before; a row that expires while read; a real row against a synthetic one | a live row is only replaced by newer authority; a generation leaves once |
| User requests (`core/provisioning.ts`) | `user_provisioning_request` | mint, submit (single use), sweep | a form submitted twice or after a removal | spent once, refused after a removal |
| OAuth callback (`core/oauthCallback.ts`) | none of its own | claim state, check fences, exchange, write, complete | three separate database steps round one HTTP exchange | one of its documented outcomes, whatever happens in between |
| Disconnect (`core/offboard.ts`, `vault.ts`) | tombstone, credential rows | by owner, by credential generation | delayed confirmation against a reconnect; two disconnects | only the named (or an older) generation is hit; a reported disconnect is final |
| Offboarding (`core/offboard.ts`) | tombstones, all tables of a user | one team; one enterprise; everywhere | a dozen statements that may each fail, retried; discovery of teams while others write | what it reports removed stays removed |
| Break-glass (`bin/vouchr.ts`) | the same tables | `revoke` of a user or provider; `revoke --all` | runs beside live writers; exit status is the only answer | exit status 0 means nothing old remains or comes back |
| Assertions (`adapters/http/identity.ts`, `replayStore.ts`, `broker.ts`) | `broker_jti`, three kinds of clock | mint, verify, insert once, prune, map age to the database clock | clock skew between minter, verifier, pruner and PostgreSQL; late inserts | a token is accepted once; the mapped issuance is never later than the mint |
| Token refresh (`core/injector.ts`, `tokens.ts`, `db.ts`) | single-flight map per process, advisory locks per session, the stored token pair | join or start a flight, cancel, lock, re-read, call `/token`, write, unlock | refresh tokens rotate: using one twice, or losing an answer, kills the credential; cancellation by one of several waiters | nobody uses a spent refresh token except after a loss; nobody is cancelled with a peer; no caller gets the token of another generation |
| Approval (`core/approval.ts`, `adapters/bolt.ts`) | `approval_request`, pending and granted | request, decide, consume, purge, sweep | the click is validated before the transaction that records it; credentials reconnect, tools switch and users leave in between | one decision per prompt, one spend per single-use grant, only of the approved action, by the right person |
| Worker delegation (`core/delegation.ts`) | `worker_session` | begin, bind, touch, end, sweep | idle and absolute expiry against an approval in flight | a worker acts only on a live session, under its cap, for its owner |
| Channel governance (`core/channelCredential.ts`, `tools.ts`, `channelConfig.ts`, `interaction.ts`) | `channel_config`, `channel_tool`, `channel_provisioning_request`, `channel_interaction_tombstone`, the channel's `connection` row | enable/disable a tool, share or take back a credential, act as | grants and sessions of the old setting | no grant of before a change is spent after it |
| Delivery leases (`approval.ts`, `consent.ts`, `provisioning.ts`) | lease and delivered columns | reserve, release, deliver | the Slack call fails, or answers after the lease expired | a prompt is delivered, by at most one holder of the lease |
| Advisory locks (`core/db.ts`) | PostgreSQL locks keyed by a hash | lock owner, request, approval in an order | hash collisions, lock order | no deadlock |
| Calls (`adapters/http/broker.ts`, `core/injector.ts`) | a lease and a slot per request, the deadline, the pinned generation | verify, gate, charge, consume, read, send, replay, relay | authority changes between check and send; ends of handler and response in any order; a 401 on a write | sent once, under authority that held; every slot comes back; a cut answer looks cut |
| Rate limit, in-flight admission (`core/rateLimit.ts`, `inflight.ts`) | buckets; two counters | take; acquire, release | refill rounding; release exactly once on every path | never above the limit, never leaks |
| Health and sweep (`core/health.ts`, `sweep.ts`) | `notification_state` | claim a notification, sweep all tables | two processes notify at once, each by its own clock; a send fails after another claim | once per window of claims in order; a failed message leaves the window open |
| Rekey (`core/rekey.ts`, `crypto.ts`) | ciphertexts | re-encrypt by compare and set | runs beside refreshes | no newer write is lost |

### 1.2 Components without state of their own

Authorisation and policy (`authz.ts`, `policy.ts`), egress gates of the injector,
identity parsing, Slack signatures, HTTP routing, rendering (`blocks.ts`),
upstream revocation, audit rows (appended in the transaction of the change they
record), key management, provider configuration. Their verdict enters a module
as an input or a choice where it matters; otherwise they are left out.
`PROJECT.json` lists every one with the reason.

### 1.3 How they interact

- **Shared tables.** Writers (callback, form submission, direct and synthetic
  puts, refresh) and removers (disconnect, offboard, sweep, break-glass) meet in
  `connection`, `consent_request` and `user_provisioning_request`, with the fences
  between them. The rule of the code: a remover records its fence *before* it
  deletes, a writer reads the fences *in the transaction that writes*.
- **Locks.** A write takes the advisory lock of its owner; a decision that of
  its approval; a refresh that of its credential for the whole network call.
- **Time.** Fences, states and requests carry times of PostgreSQL. Assertions
  bring the clocks of two other machines into the comparison.
- **Calls.** Injector → approval (consume) → refresh → upstream. Removal of any
  kind → purge of approvals and delegation sessions.

## 2. Modules

    Fences ──┬─ Consent ──┬─ Vault ──┬─ Removal ──┬─ Disconnect ─┐
             │            │          │            ├─ Offboard ───┼─ Lifecycle ── LifecycleInv ── LifecycleProofs
             │            │          │            └─ BreakGlass ─┘       └─ MCLifecycle ── MCProvisioning
    Assertions ──┬─ AssertionsProofs
                 └─ MCAssertions
    Rotation (abstract) ◁── Refresh ── RefreshInv ──┬─ RefreshProofs
                                                    └─ MCRefresh
    Approvals ── ApprovalsInv ──┬─ ApprovalsProofs
                                └─ MCApprovals
    Budget (abstract) ◁── RateLimit ──┐
    Delivery, Rekey, Health,          ├─ ServicesInv ──┬─ ServicesProofs
    Allowlist, Locks ─────────────────┘                └─ MCServices
    Admission ─┬─ AdmissionProofs ───────────┐
               │                             │
    Budget ────┴─ Calls ──┬─ CallsInv ── CallsProofs
                          └─ MCCalls
    Channels ──┬─ ChannelsProofs
               └─ MCChannels

| module | models | of |
|---|---|---|
| `Fences` | scopes, tombstones, revocations and their comparisons | `core/consent.ts` |
| `Consent` | OAuth states | `core/consent.ts` |
| `Vault` | credential rows, requests, callback | `core/vault.ts`, `provisioning.ts`, `oauthCallback.ts`, `consent.ts` |
| `Removal` | claims for revocation, deletes, what a purge covers | `core/vault.ts`, `offboard.ts` |
| `Disconnect`, `Offboard`, `BreakGlass` | one removal procedure each, as a control state per call | `core/offboard.ts`, `bin/vouchr.ts` |
| `Lifecycle` | all of the above interleaved | |
| `LifecycleInv`, `LifecycleProofs` | inductive invariant, theorems | |
| `Assertions`, `AssertionsProofs` | assertion tokens, replay store, clocks | `adapters/http/` |
| `Rotation` | what a refresh promises | |
| `Refresh` | single flight, locks, rotation | `core/injector.ts`, `tokens.ts`, `db.ts` |
| `RefreshInv`, `RefreshProofs` | inductive invariant of `Refresh`, theorems and the refinement | |
| `Approvals` | approvals, delegation, what governance does to them | `core/approval.ts`, `delegation.ts`, `channelCredential.ts`, … |
| `ApprovalsInv`, `ApprovalsProofs` | inductive invariant of `Approvals`, theorems | |
| `Admission`, `AdmissionProofs` | the two ceilings of a replica and their releasers | `core/inflight.ts` |
| `Budget`, `RateLimit` | an ideal budget; the buckets and sweeps that implement it | `core/rateLimit.ts` |
| `Calls` | one credential-use request from admission to the last byte, beside others | `adapters/http/broker.ts`, `core/injector.ts`, `httpBounds.ts` |
| `CallsInv`, `CallsProofs` | inductive invariant of `Calls`, theorems | |
| `Channels` | the credential a channel owns, its identity, tools and setup forms | `core/channelCredential.ts`, `channelConfig.ts`, `tools.ts`, `provisioning.ts`, `interaction.ts` |
| `ChannelsProofs` | inductive invariant of `Channels`, theorems | |
| `Allowlist` | the rows of a channel's tool list under concurrent first writers | `core/tools.ts` |
| `Delivery` | the lease under which one replica posts a prompt | `core/approval.ts`, `consent.ts`, `provisioning.ts`, `adapters/bolt.ts` |
| `Locks` | batches of advisory locks and the pool they run in | `core/db.ts` |
| `Rekey` | re-encryption beside writers | `core/rekey.ts`, `crypto.ts` |
| `Health` | the notification window | `core/health.ts`, `adapters/bolt.ts` |
| `ServicesInv`, `ServicesProofs` | inductive invariants of `RateLimit`, `Delivery`, `Rekey`, `Health`, `Allowlist` and `Locks`, theorems | |
| `MC*` | sets, symmetry, instances and the properties that are violated, for TLC | |

## 3. The modules

### 3.1 Fences, Consent, Vault, Removal, Disconnect, Offboard, BreakGlass: the life of a user's credential

**State.** `now` is PostgreSQL's clock. `offTomb` and `revTomb` are the fence
tables as functions from a scope to the newest time recorded. `consents`,
`tickets` (provisioning requests) and `connection` are the tables, keyed by
identifiers that are never used twice (`used`). `callbacks` holds the OAuth
callbacks between `consume()` and their response, with the row they were handed.
Every removal in progress has a control state, `disc`, `ob` or `cli` with the
delete it is waiting for in `claim`: what it has fenced, which kinds of row it has
purged, whether a statement failed. `written`, `claimed` and `sealed` are
history: what was stored under which authority, which generation a remover won,
and what was reported as removed.

**Actions.** One per transaction. `Begin` mints a prompt and supersedes the one
before it (a reuse changes nothing and is no step); `MarkSlackVerified` is the
browser hop. A callback is `Consume`, `Classify` and, after the exchange,
`Finalize` or `FailCallback`, because other transactions run in between. `IssueRequest`,
`SubmitRequest` and `DirectWrite` are the other ways to a credential. All writes
are `Provision`, the whole of `withUserProvisioningFence`: the fences, the conflict
rules for real and synthetic rows, the put, the supersession of prompts.
`Offboard`'s actions follow `offboardUserDetailed` statement by statement, each
with a branch in which it fails (`Faults`); a failed gate, listing or delete makes
the call incomplete, a little more strictly than the code's `ok`. A sweep
writes its wider tombstone, discovers the teams of the user in one query and runs
the team procedure in each. A retry is a new call.

Which procedure may run is a constant (`Disconnects`, `Offboards`, `Sweeps`,
`Revokers` are sets of call identifiers), so that one module serves every
question and the proofs hold for all of them at once.

**Properties.** *Final* properties (`OffboardFinal`, `EverywhereFinal`,
`DisconnectFinal`, `BreakGlassFinal`): once a call has reported success, no
stored row that its scope covers has an authority at or before the time it
fixed — neither one that was there nor one that a callback, a form or a delayed
write brings back. `ClaimedOnce`: a generation is handed to upstream revocation
once and never while stored. `DisconnectExact`: a disconnect by generation never
hits a row written under a newer one. `OneCurrentConsent`, `NoSupersededWrite`,
`SingleUse`, `ReplacementOrder`: see section 4.

### 3.2 Assertions

Minters, brokers and PostgreSQL each have a clock: real time plus a constant
offset of at most `Offset`. A minter stamps `iat`; a broker verifies against its
own clock with skew `Skew`; the insert of the `jti` reaches the database up to
`MaxLag` later, after a process may have paused; any broker prunes rows that its
clock considers dead. A broker may restart. For interactive calls the age of
the token is measured on the broker's clock and subtracted from the database's
(`issuedAt` of later writes); that subtraction is an action of its own because it
reads the two clocks at different times.

`AcceptedOnce` is the guarantee of the replay store; `IssuanceFailsClosed` says
that the mapped issuance is not later than the mint, which is what makes the fences of
3.1 meaningful for calls over HTTP.

### 3.3 Refresh implements Rotation

`Rotation` is the promise, with three variables: the stored pair, the live
refresh token of the provider, and whether an answer was lost. Its steps are a
rotation in one step, the loss of an answer, a reconnect and a removal.
`Refresh` is the code: per process a map of flights with a waiter count and an
abort signal; each flight waits for the advisory lock of the credential,
re-reads the row, calls the endpoint (which rotates when it receives the call
and answers later), writes only if the generation is unchanged, and unlocks. A
session may be dropped by PostgreSQL at any moment after which the lock is free
although the call is still on the wire; a process may crash; a caller may cancel.
`AtomicRotation` is `Rotation!Spec` under the refinement mapping in `Refresh`.

### 3.4 Approvals

`Fetch` binds what the injector read (credential generation, acting identity),
then `Consume` spends a matching grant or `Request` asks. A Slack button press
is two actions, `ClickButton` (what the handler reads and validates) and
`Decide` (the locked transaction), since everything may change in between. The
environment connects, removes, shares and takes back credentials, switches the
tool, changes the acting identity, and takes members away, each with the purge
that the code runs in it. A worker's delegation sessions live in the same
module because a grant of a worker is bound to one. What the deployment demands
(`policy`: single use or thread, decided by the requester or by another member)
is chosen in the initial state. The model ends at the spent grant; `Calls`
goes on from there.

`SpentAsDecided` collects what a spent grant owes the human who decided: it is
spent once, for the approved action and credential, by one decision, and for a
worker by the owner. `ApprovalsTable` says that no two live rows answer one key.

### 3.5 Calls: a request in one replica

One action per `await` of the request handler and of `ConnectionHandle.fetch`:
verification, authorization, the choice of the credential generation (`Pin`),
the provider ceiling (`Admit`), the egress gate, the early check, the budget,
the spend of a grant or the request for one, the exact read, the token, the late
check, the dispatch, the wire, and after a 401 the refresh and the one replay.
The relay of a stream moves chunk by chunk under a byte ceiling. `Conclude`,
`Fail` and `Report` are the `finally` blocks: the handler and the response each
report their end once, and the second gives the lease of `Admission` back.
`Expire` is the deadline. `Govern`, `Reconnect`, `RemoveCredential`, `Grant`
and `RefillBudget` are what other processes do in between.

`CurrentAtSend` is about the gap between check and use: a send needs a moment,
after the token was in hand, at which governance and the generation held
together. The history variable `sawAuthority` records that such a moment
existed; it is set by the environment, never by the check, so the check cannot
satisfy the property by running. Without the late re-check the property fails.

### 3.6 Admission, RateLimit, Budget

`Admission` has the two counters and, per unit of work, whether its two leases are
live or released. `RateLimit` is the in-memory store: a bucket is its level and
the time it was written, refilled when it is next looked at and forgotten by
a sweep when it would be full. `Budget` is what it promises: every tick adds the
refill, up to the capacity. `ImplementsBudget` is `Budget`'s specification with
`level` replaced by what the bucket would hold now. `Calls` uses `Budget` itself.

### 3.7 Channels and Allowlist

`Channels` follows a request of an administrator from its receipt, whose time is
the issuance of all it does, over the modal and the authorization to the commit
under the lock of channel and provider. Tickets, tombstones of the channel's
interaction state, of members and of the operator are fences as in 3.1.
`Unshare` has its upstream revocation and its audit row as later steps, since
each may fail after the row is gone. The break-glass command is three kinds of
step: its marker (`MarkRevoked`, written again before a delete), its tickets
(`PurgePending`) and its row (`BreakGlassDelete`). The last has two outcomes: the
row goes with its satellites, or their cleanup fails and the row goes alone, which
leaves no tombstone and no purge (`claimDelete`). A setup received between the
marker and such a delete may complete after it, so what the delete fences is what
the marker fenced, and `lastChange` says so. `ExpireRow` is the sweep, whose delete
and purge are one transaction without a fallback. `Allowlist` opens one commit up into
statements: the first writer of a channel also fills in a row for every
registered provider, in row order, with `DO NOTHING` (`FillRow`, `Filled`), then
writes its own (`UpsertRow`, `Upserted`); row locks, snapshots of a statement and
rollbacks are explicit. The rows a command has yet to do are a set, and the next
one is its least: the sort of `applyEnabled`.

### 3.8 Delivery, Health, Rekey, Locks

`Delivery` has one pending request and several turns of several replicas. Time
is what is left of the lease, of the debounce, of a turn's posting budget and of
the step it is in; a step that the runtime bounds ends when its timer does, so a
slow replica is slow only within what its clients and pools allow. The renewed
Connect link goes through the `response_url` of a click, whose post has no
bound: it is exempt from `OnePoster`, and the module says so at `Unbounded`.

`Health` has pods that stamp a claim by their own clock (`TakeStamp`), wait for the
upsert that makes it (`ClaimWindow`, `LoseWindow`), send, fail, give the claim back
or die, while reconnects clear the table. A stamp is any instant: clocks of two pods
are not related and the wait is not bounded, so stamps reach the table in any order.
A claim remembers whether it was out of order (`late`): in its lifetime of the connection a later
instant had been claimed before, or some claim had carried the very instant. The upsert
refuses such a claim while the other's row stands, but not when a failed send
has deleted it. `ToldOnce` is about the claims that are not `late`, section 7 about the others.

`Rekey` has a table of sealed versions, writers that seal
under whatever primary their replica has, and runs that page, rewrite with the
bytes they read as guard, and crash; a page holds the first `BatchSize` rows
after the cursor as they are when it is read. `Locks` has transactions that ask
for a batch of locks, take it in the order of the names, and may nest another
batch in it (`Nest`), while PostgreSQL locks the numbers of the names. A number of
`LockKeys` stands for a name by its level of nesting first: the code nests
provisioning-revocation keys inside credential keys and offboard keys inside both,
and never the reverse.

## 4. Runs

Every passing run enumerates its instance completely. Clocks run to their bound
and every other counter to the bound named in the constant; nothing else is cut.

A run may hold several *instances*: a variable (`instance`, or `protocol` in
`services`) is chosen in the initial state and never changes, and the MC module
keeps a behaviour inside its instance. A behaviour is therefore one of a single
small system, every property is checked in all of them, and the run is as large
as their sum. `MCServices` puts six protocols that share no state into one run
in the same way; the five that are not chosen rest.

| run | asks | instances |
|---|---|---|
| `provisioning` | `OneCurrentConsent`: at most one current prompt per owner and provider. `SingleUse`: a state or request yields at most one row. `NoSupersededWrite`: a prompt superseded during its exchange never becomes a row. `ReplacementOrder`: a live real row is replaced only by newer authority | *prompts*: one user in and outside an enterprise, 2 states, 2 generations, time 3, retention 2. *forms*: 1 state, 2 requests, direct and synthetic writes, idle expiry |
| `removals` | `OffboardFinal`, `DisconnectFinal`, `ClaimedOnce`, `DisconnectExact`, and the inductive invariant `IInv` | an offboarding whose statements may fail and a disconnect against 1 form and 2 generations: 408 thousand states |
| `everywhere` | `EverywhereFinal` | a sweep over two teams, one of them in an enterprise, 1 form, 2 generations |
| `breakglass` | `BreakGlassFinal` | every scope of the command against 1 prompt with its callback, 2 generations, 1 refresh: 767 thousand states |
| `assertions` | `AcceptedOnce`, `IssuanceFailsClosed` | *replays*: 3 requests, 2 tokens, 2 brokers, offsets up to half the skew, pruning within the run. *issuances*: 2 requests about one token, late inserts, and the mapping of its age |
| `refresh` | `DeadForCause`, `ServedInTurn`, `PeerUnharmed`, the refinement `AtomicRotation`, and `EveryWaiterAnswered` under fairness | 2 callers on one or two processes, 3 token pairs, no symmetry: 246 thousand states |
| `approvals` | `SpentAsDecided`, `ApprovalsTable`, `NoSpendAcrossOffboard`, `NoABA`, `WorkerLeashed` | *calls*: 2 members, 2 actions, 2 calls, 1 click. *clicks*: 1 call, 2 clicks, a member who leaves and returns, 2 changes of setting. *worker*: sessions of two members with one connected at a time, time 3 |
| `calls` | `Envelope`, `WriteOnce`, `Authorised`, `NoSilentTruncation`, `CurrentAtSend`, and `EveryCallEnds` under fairness | any request of any route alone, granted or not, under four combinations of ceilings and modes; the same write asked twice at once. 2 generations, 1 change of governance, bodies below and above the ceiling |
| `channels` | `IdentityHolds`: no credential stays behind the identity "person", one ticket per member. `SetupNotOvertaken`: a credential was asked for after the last change, or after the marker of a break-glass delete that could not clean up. `DelayedDisconnectSpares`: a late disconnect spares a newer credential | 3 requests of any kind by a member who may be offboarded, a ticket that outlives one tick, a break-glass command and the sweep, time 3: 2.2 million states |
| `services` | `RateLimitInv`, `ImplementsBudget`; `DeliveryInv`; `RekeyInv`; `HealthInv`; `AllowlistInv`; `LocksInv` | two keys with unequal refills, a cost of 3 and a sweep every tick; 3 turns, lease 3; 2 runs, 2 rows, 2 versions; 3 events with stamps 0 to 4, window 2, 1 reconnect; 3 commands, 2 providers; 4 transactions with overlapping and nested batches in a pool of 3 |
| `other_enterprise`, `dead_prompt` | violations, section 7 | |

The invariants of the second group are conjunctions of parts that one definition
names together because one run asks them together; their parts are:

- `DeliveryInv`: `OnePoster` (no two replicas post one prompt at once),
  `PostedOnce` (a prompt that stays is posted once unless somebody crashed or does not
  know), `HeldForCause` (a dead lease has a dead or unknowing holder);
- `RekeyInv`: `NeverClobbered` (no newer token is lost), `SafeToRetire` (a run that
  started after the fleet moved and reports nothing skipped leaves no blob under the old key);
- `HealthInv`: `ToldOnce` (two messages of claims in order are a window apart),
  `SilentForCause` (a closed window has a message, or a pod that died);
- `IdentityHolds`: `NoDormantCredential` and the uniqueness of a member's ticket;
- `RateLimitInv`: `WithinBudget` (over any window), `HonestHint` (the retry hint is
  neither too early nor later than needed);
- `AllowlistInv`: `LastCommandRules`, `NoRowCycle`; `LocksInv`: `NoLockCycle`;
- `Envelope`: `SlotsHeld`; `Authorised`: `SentAsApproved`, `RefusedUntouched`.

**Why the bounds are enough to be interesting.** Each bound was chosen so that the
scenario of the property needs all of it and no less: a removal, a write authorised
before it and one authorised after it (time 3, two generations); a prompt, its
successor and the callback of the first (two states); a grant, its spend and a second fetch
(two fetches); a loser of the lock that finds the winner's token (two
processes); a lease that expires under its holder and is taken by a second turn
while a third asks; three writers of two rows; a setup, a change that overtakes it and a
disconnect that was delayed past both (three requests). Every property is
checked to fail on a change of one mapped definition that a plausible mistake
would make (`mutants` in `PROJECT.json`), so none holds for want of behaviour.
The conjunctions have further operators marked *Mutant* beside the definitions
they would replace, one for each part the listed mutant does not reach:

| property | replaced | by | part that fails |
|---|---|---|---|
| `SpentAsDecided` | `ActionKey` / `Pending` / `MayDecide` | `LooseKey` / `Readable` / `AnyMember` | spend of another action / two decisions / a decision by another |
| `ApprovalsTable` | `Binding` | `MemberOnly` | a worker's row bound to nobody |
| `Authorised` | `ReplayFrom` | `ReplayCharged` | the cost of a refusal |
| `Envelope` | `AfterAnswer` | `AfterEvery401` | at most one replay |
| `IdentityHolds` | `Superseded` | `Unreplaced` | one ticket per member |
| `DeliveryInv` | `Holds` / `KnownUndelivered` | `AnyHolder` / `OnlyRejected` | one poster / held for cause |
| `RekeyInv` | `LastPage` | `LastPageAnyway` | safe to retire |
| `HealthInv` | `GiveBack` | `ForgetClaim` | silent for cause |
| `AllowlistInv` | `InOrder` | `AsListed` | no row cycle |
| `ImplementsBudget` | `Forgettable` | `IdleForgettable` | a bucket forgotten too early |

For the theorems of section 6 the bounds do not matter.

The instances use symmetry only over identifiers, users and calls that no
definition tells apart, and never together with a liveness property.
`CHECK_DEADLOCK FALSE` is set in every run because all instances end: clocks and identifiers
run out, and a caller that has its answer stops. Where standing still would be
wrong while somebody waits, a property says so (`NoLockCycle`, `NoRowCycle`,
`EveryWaiterAnswered`, `EveryCallEnds`).

## 5. Fairness

Two properties are about progress; everything else is safety and needs no fairness.

For `EveryWaiterAnswered`, `FairSpec` of `Refresh` assumes

- weak fairness of each step of a flight that has the lock: a database call returns
  or fails, and the call to `/token` has a deadline (`httpBounds.ts`), so an answer or an error follows;
- strong fairness of taking the lock: PostgreSQL queues the waiters of an
  advisory lock, so one that is free again and again is not withheld for ever;
- weak fairness of a dropped session being noticed by the driver.

For `EveryCallEnds`, `CallsFairness` assumes, for each request, weak fairness of

- the handler's own steps (`HandlerStep`): the process runs and the pool, whose
  waits and queries are bounded (`db.ts`), answers or fails;
- the deadline timer (`Expire`), which is armed for the whole call
  (`disposableDeadline`);
- `Rejects`: what waits on an aborted signal is rejected by it (`awaitWithSignal`);
- the server closing the socket of a response whose handler is over, which Node's
  idle timeout does for a client that never reads.

No fairness is assumed of callers, of cancellation, of crashes, of the
provider's answer or its choice, of a human, or of a change of governance.

## 6. Proofs

Eight modules hold proofs, checked by TLAPS to the last leaf: `LifecycleProofs`,
`AssertionsProofs`, `RefreshProofs`, `ApprovalsProofs`, `AdmissionProofs`,
`CallsProofs`, `ChannelsProofs` and `ServicesProofs`. Every safety property a
passing run checks, invariant or action property, and both refinements are proved
for any sets of users, teams, states, requests, credentials and keys, any number of
calls of each kind, any durations and any ceilings; only what the code counts (the
requests one replica has ever seen, the ids of a table, the registered providers) is
taken to be finite. Liveness is not proved.

**Assumptions.** `MaxTimeAssumption`, `ConsentAssumption`, `VaultAssumption`,
`RemovalAssumption`: bounds and durations are natural numbers, call identifiers of
different procedures are different. `AssertionsAssumption`: the same for skew,
lifetime and lag. `RateLimitAssumption`: capacities, refills and costs are natural
numbers, and the absence of a bucket is not a bucket. `AdmissionAssumption`: what
`assertInflightLimits` demands. `CallsAssumption`: the named provider is registered
and has a budget, and requests ask for a known route and method.
`SourcesAssumption`: random ids of states and of setup requests differ.
`RefreshAssumption`, `ChannelsAssumption`, `HealthAssumption`: durations, bounds and
stamps are natural numbers, a window is not empty, and absence is not a value.
`ApprovalsAssumption`: the same, workers and leavers are users, and a session's idle
limit is no longer than its lifetime (`interaction.ts:34`). `DeliveryAssumption`:
the lease is long enough for a post, its deadline and one database call, which is
how the code chooses it. `RekeyAssumption`: row ids are finitely many and ordered, a
page has at least one row, and nothing was rotated before the first run.
`AllowlistAssumption`: the registered providers are finitely many and ordered.
`LocksAssumption`: a batch is a set of names, and the pool has a connection.

Three theorems have a hypothesis of their own. About assertions it is an inequality
between clocks: `2 * Offset + MaxLag <= 2 * Skew` for single use and `2 * Offset <=
Skew` for issuance. `NoLockCycleForms` assumes `HashesApart`, no two names share a
lock number, which a 32-bit hash does not guarantee, and `NestedInOrder`, which it
takes from the three classes the code nests (credential keys,
provisioning-revocation keys, offboard keys). Section 7 says what happens where the inequality or
`HashesApart` fails. TLC evaluates `HashesApart` and `NestedInOrder` for the
instance of `services`.

**`TypeCorrect`, `Inductive`, `RemovalFinal`, `ClaimedAtMostOnce`** (Lifecycle). The
final properties are not inductive: nothing in them says why a write that is still
in flight must fail. The argument is

1. *fences only grow* and every write reads them in its own transaction, so a
   scope that is fenced at time t refuses for ever every authority at or before t;
2. a *seal* is a fence together with a table in which no row at or before t
   is left. A purge after the fence closes its table (`Closed`); by 1 no later
   step reopens it (`SealsClosed`);
3. each procedure in progress has fenced, and cleaned, as much as its control state
   implies (`DisconnectOK`, `TeamOK`, `SweepOK`, `BreakGlassOK`): this is what must
   be carried from step to step, and it is where the order "fence, then discover,
   then purge" is used. A sweep needs in addition that all teams, found or not, are
   fenced by its own, wider tombstone, and that those behind it are clean;
4. an owner has at most one row and identifiers are used once (`RowsOK`), so that
   deleting the row that was read leaves nothing behind; and the operands of a
   call in progress are set (`ControlOK`).

`IInv` is the conjunction; it is also checked as an invariant by `removals`. To keep
the proof small every action is first abstracted (`Step`): clocks and fences grow,
and rows change in one of few ways (`RowsStep`); preservation of seals is proved
once from `Step`, and only the actions of a procedure need to be looked at for its
own control state. `EverywhereIsFinal`, `DisconnectIsFinal` and `BreakGlassIsFinal`
are the parts of `RemovalFinal` the runs check one by one.

**`SpendInductive`, `OnePromptPerOwner`, `UsedOnce`, `SupersededNeverWritten`,
`ReplacedInOrder`, `DisconnectsExactly`** (Lifecycle). That a prompt or a form
yields one credential says nothing about the callback that is still on its way with
it. `SpendIInv` adds what connects the tables: a state is claimed by one callback
and its prompt stays consumed from then on (`CallbacksOK`), an identifier is in one
table only (`TicketsOK`, and `SourcesAssumption`), and the source of a stored
credential can no longer be presented by anything (`SourcesOK`), so that no second
write can name it. It is checked from step to step beside `IInv`. The promises about
steps follow from what a writer and a remover read in their own transaction: the
write that finalises a callback looks at its prompt again, a replacement at the row
it replaces, and a prepared disconnect (`PreparedOK`) carries the generation its
control named, or one stored before it was issued.

**`AssertionsTypeCorrect`, `SpentOnce`, `IssuanceNeverLate`** (Assertions). Single
use rests on `ReplayInv`: a row in the table outlives (`Retained`) the last moment
at which any broker, by its own clock and with its lag, could still insert the same
token. That needs the cutoffs of prunes in progress to lie in the past
(`CutoffsPast`) and verification times within the lag (`InTime`, `Stamped`).
Issuance rests on `IssuanceInv`: what a broker has read so far is not ahead of the
true time by more than the offset.

**`RefreshInvariant`, `RefreshServedInTurn`, `RefreshDeadForCause`,
`RefreshPeerUnharmed`, `RefreshImplementsRotation`** (Refresh). `RefreshIInv` has
the lock discipline at its centre: a flight is between its second read and its
commit exactly when it holds the lock, unless PostgreSQL has dropped its session
(`LockOK`). From it, what the flight presents is what is stored and what the
provider takes (`TokenOK`, `Agree`). A flight that lost the lock, or was left by its
waiters, may still have a request on the wire; then its grant is among the lost ones
already (`WireOK`), which is why a refusal always has a cause. `CallerOK` says that
whoever waits, waits for a running flight of its own process and generation, so what
it is served was issued for its generation. In the refinement a grant counts as
answering to the token that was presented until the commit (`CommittedLive`), so the
commit under the lock is the rotation. A crash, a dropped session or an abort with
the request on the wire is the loss of an answer, and what the provider does with a
request is a loss, if nobody will store the answer, and otherwise no step of
`Rotation` at all.

**`ApprovalsInvariant`, `ApprovalSpentAsDecided`, `ApprovalTableHolds`,
`ApprovalNotAcrossOffboard`, `ApprovalNoABA`, `ApprovalWorkerLeashed`** (Approvals).
What a spent grant owes its decision has to be carried by the row from the click to
the spend: `RowOK` says that a pending row has no decision yet, that a granted one
is granted as its one decision approved it, that a row whose single use is spent is
gone, and that every row was asked for under the governance that holds now, because
every change of governance purges. The last of these is what makes `NoABA`
inductive. A click may be decided long after it was validated; `ClickOK` keeps only
what stays true meanwhile: its row, if it is still pending, is bound to the member
exactly when the click carries the generation of a credential. A session ends by its
absolute limit because every touch is clipped to it (`SessionOK`). The three action
properties compare a spend with the row, the tombstones and the session before the
step, under the guard of `Consume`.

**`ChannelsInvariant`, `ChannelIdentityHolds`, `ChannelSetupNotOvertaken`,
`ChannelDisconnectSpares`** (Channels). The strengthening is short. No change of a
channel and provider is newer than the interaction tombstone or, where a
break-glass delete left none, than the marker of that command (`Fenced`); a setup
passes both fences or is refused, so it was asked for after the change. Nothing
is issued at time 0, which stands for an absent tombstone (`Ticketed`), and a
request has a claim only after its own commit (`RequestOK`).

**`RateLimitTypeCorrect`, `StoreImplementsBudget`, `RateLimitKept`** (RateLimit).
The store refills a bucket when it is next looked at and forgets it when it would be
full; the budget it implements is refilled by every tick. The refinement maps
`level` to what the bucket would hold now. A tick of the clock is a refill of the
budget, because one more tick adds one more refill before the cap as after it; a
take is a spend; a sweep changes nothing, because a bucket it forgets would be full
and a missing one counts as full; a refused take is a stutter. The fact that is
carried from step to step is that no bucket was written in the future.

The windows of `WithinBudget` need more: a window says nothing of what is left at
its end, and so nothing of the next tick. `PaidFor` does: what was granted since any
tick, *and the level now*, is within the capacity and the refill since that tick.
The grants are counted in a history variable (`granted`, the number up to each
tick), so a window is a difference and not a sum, and no induction over it is
needed. That the retry hint is exact rests on division alone (`RoundedUp`) and on
the denial having left its bucket as it found it (`DeniedBucket`).

**`PromptsDelivered`** (Delivery). `LeaseOutlasts` is the heart: while a turn may
still post, the lease is its own and lasts longer than its timer, so no other turn
can take it. `BudgetReserves` says that the budget of an approval prompt leaves time
for the confirmation too, and `UpForGood` that a prompt whose turn knows it is up
leaves no place from which a second one could be posted. `Holder` and
`BeforeRequest` place the turn the row names, and the turns before the first
request.

**`RekeyLosesNothing`** (Rekey). That the old key may go is a statement about the
end of a run; `LeftOverReported` says it of every moment: a row with an old-key blob
is still ahead of the run (`Pending`: after the cursor, on the page, or behind a
full page), or the report tells. `OldKeyOnlyGoes` is what makes this stable: for a
run that began after the fleet had moved, no blob is sealed under the old key again,
so what a run has read contains all that is left. The proof needs that a page is the
*first* rows after the cursor (`PageIsNext`), which is an induction over numbers by
a least counterexample (`LeastOf`, `GreatestOf`).

**`HealthMessagesHold`** (Health). `HeardCovers` says that a message that arrived or
is on its way, and whose claim was in order, keeps the window closed: the row is still
its own, or a claim of a window later has overtaken it (`Overtaken`). What could
open the window under it is a release by another claim of the same instant, and
`NoTwin` says that there is none before it is overtaken. So a claim that wins is a window
later than every such message, or it is out of order itself; `HeardApart` keeps that
for good. `RowClaimed` follows the row to its claimant, from which silence has its cause.

**`AllowlistHolds`** (Allowlist). A provider's advisory lock makes its last command
unique; what the proof must add is that the *other* rows a first writer fills in
change nothing. `WritesOwn` says that over a committed row a transaction writes only
its own changes, `FilledSoFar` that a filler has passed no row that is neither its
own nor there, and `AllOrNone` that a channel has all its rows or none. For the
absence of a circle take the writers that are stuck: if one of them is upserting, it
holds the advisory lock of its next row, which is its own or committed, so nobody
else may have written it and it waits for nothing (`UpserterGoesOn`); else all are
filling, each holds only rows before the one it waits for (`InRowOrder`), and the
one that waits for the greatest row waits for one that goes on
(`SomeCommandGoesOn`).

**`NoLockCycleForms`** (Locks). What a transaction holds comes before all it has yet
to take of its batch (`HoldsInOrder`); of the waiting ones, the one that waits for
the greatest lock waits for a transaction that does not wait.

**`AdmissionHolds`** (Admission). Each counter is the number of live leases and
within its ceiling. One lemma per counter and direction (`LeaseTaken`,
`LeaseGivenBack`, `SlotTaken`, `SlotGivenBack`) says what taking or giving back one
unit does to the cardinality; a releaser that runs again changes neither side.

**`EnvelopeHolds`, `CeilingsHold`, `WritesOnce`, `SendsAsAuthorised`,
`NothingIsCutSilently`, `SendsAreCurrent`** (Calls). `CallsIInv` says for each place
a request can be at what it holds (`HoldsItsOwn`), what it has spent and read
(`InOrderOf`, `RefusedFor`), how often it was sent (`SendsOf`), how much was relayed
(`RelaysWhole`), and that one past the late check saw its authority
(`SeesAuthority`). Most of it is in no property: that the spent grant is of the
pinned generation must be carried from the spend to the send, over the read, the
late check and the replay, and that a lease is live at every place between arrival
and end is what lets the two ends give it back once. Every action moves one request,
so a step is the same argument for each (`OneMoves`): the record of that request,
and the counters by the lemmas of `AdmissionProofs`. Requests meet only in the
counters, which is why their number does not matter. A change of governance touches
all requests at once (`GovernKeeps`); a reconnect can validate none of them, because
generations only grow (`GenerationsKeep`). `CurrentAtSend` is a property of steps:
only `Dispatch` counts a send (`SendSees`), and every other step leaves the count or
forgets it. TLC checked `CallsIInv` on the instances of `calls` before it was
proved.

**Only model-checked**: `EveryWaiterAnswered` and `EveryCallEnds`, which are
liveness under fairness (and `ENABLED` with it), out of this prover's reach. The two
properties that the code violates are found by TLC in their runs.

**What the proofs cannot use.** The library's induction theorems take an operator as
a parameter, so what a recursive definition computes cannot be proved in general,
and no module declares a recursive operator. An induction over numbers that is
needed is done by a least counterexample instead, from the well-foundedness of the
order, which the library states without such a parameter.

## 7. Where code and comments disagree

Two are runs that TLC must find violated:

- `other_enterprise`: a sweep of one enterprise finds pending setup requests by
  user id alone (`offboard.ts:718`) and offboards that id in a team of another
  enterprise; `consent.ts:77-79` says it does not deny a named identity there.
- `dead_prompt`: a write supersedes prompts up to its *issuance* (`vault.ts:800-805`),
  while the fence refuses prompts up to the *write* (`generation_at >= issuedAt`). In
  the trace a prompt is minted at 2, under its own receipt and with nothing
  stored, and then a write under issuance 1 commits at 2. The prompt stays current, is
  handed out again, and can only fail. `vault.ts:794-797` says the rows are superseded
  so that a connect cannot reuse them and that "the threshold MUST match the fence";
  `797-799` leaves a strictly newer prompt alone on purpose, as one that can still complete,
  which is true only of a prompt newer than the write. `PromptSpec` restricts the
  run to prompts minted before any write.

More follow from the same modules and are not kept as runs:

- a synthetic write that is refused because a real row exists still supersedes
  the owner's pending prompts, though nothing was committed (`vault.ts:792`);
- with minter and broker at opposite extremes of the accepted skew the mapped
  issuance is later than the mint (`broker.ts:921-930`): the hypothesis of
  `IssuanceNeverLate` is necessary;
- a caller may join a refresh that its peers have just cancelled and be rejected
  with their abort (`injector.ts:253-254`, `1047`): the exception in `PeerUnharmed`;
- two lock names with the same 32-bit hash can close a circle that the order of the names
  does not: with names A < B < C and A, C sharing a number, {A, B} and {B, C} take the two numbers
  in opposite orders. PostgreSQL then aborts one transaction; `db.ts:108-110`
  says a collision "only adds latency". The instance of `Locks` gives every name
  its own number;
- a notification claim that failed is deleted, which `health.ts:78-82` calls
  equivalent to the state before it. It is not: the row it replaced said when the owner was
  last told. Pods stamp a claim before they wait for the upsert (`bolt.ts:2258-2259`), each by
  its own clock, so after a message at 10, a claim a window later whose send failed and was
  released, a claim stamped 11 finds no row and sends inside the window of the first.
  In the same way a claim of the very instant of an earlier one, over a row that was
  released or cleared, can be given back by it. Both contradict "exactly one caller wins per window"
  (`health.ts:51-53`); they are the exception `late` of `ToldOnce`;
- a break-glass delete of a channel's credential whose satellite cleanup fails
  deletes the row alone (`vault.ts:404-428`): no channel tombstone is written and setup
  tickets received after the command's marker stay, so such a setup may be stored after the delete.
  `SetupNotOvertaken` states the marker as the bound there;
- a change of a channel's identity is fenced by the offboarding of the person
  who asked only, not by a generation, unlike the removal of the credential
  (`channelCredential.ts:117-162` against `233-244`): a delayed one may undo a newer setup.
  `NoDormantCredential` holds all the same;
- an approval that a turn created is removed when its own post was refused, even if
  another replica had an ambiguous post of the same request up before
  (`approval.ts:882-905`): that prompt is then dead.

## 8. Abstractions

- A transaction under an advisory lock is one atomic action; reads outside of
  transactions are actions of their own. `Refresh` is the exception and models the lock.
- PostgreSQL's clock is monotone. Offsets of other clocks are constant within a behaviour.
- Any call may stop after any step: a crash is a call that takes no more steps.
- One provider is registered in `Lifecycle`; an identity has an optional
  enterprise, a team and a user. Channel-owned rows are not in `Lifecycle`.
- Tokens, names, channels and texts are model values. Encryption is the identity
  on whoever has the key. PKCE and signatures are taken to be unforgeable.
- No instance of `approvals` offboards the member a worker is bound to before a spend: that half
  of `NoSpendAcrossOffboard` is proved, not exercised by TLC.
- Dry run and lockdown are not in `Refresh`; a worker serves one thread in
  `Approvals`; the reason text and link of a prompt are left out.
- Upstream revocation is a network call after the commit; whether it succeeds
  does not enter any stored state, and what a removal reports about it is not modelled.
- In `Calls` the replicas of a broker meet in the database only, so one replica
  with its neighbours' effects is enough; token refresh is one step with its
  failure, since `Refresh` has the rest; what an egress rule accepts is a choice.
- In `Delivery` a tick is a third of the lease. How far apart two ephemerals of one request
  are shown is not stated as a property.
- The `Rekey` instance has rows under the ring's keys only; envelope rows and rows
  under a lost key are in the module's types and are skipped and reported.
- Integers are not bounded: the rate limiter counts in a unit of its choice, where
  the code uses floating point.

## 9. Not modelled, and what is next

Not modelled, because there is no state to interleave: policy and authorization
(pure functions of configuration), provider configuration and validation
(`providers.ts`), Block Kit rendering (`blocks.ts`), Slack signatures, the landing page,
re-exports, the installation store (one encrypted row per workspace, last write wins).
Not modelled, because its interest is outside of what a state machine tells apart:
cryptography and the KMS. Left out of modelled components: `revoke --all`, several
providers in one offboarding, the administrative routes of the broker, the
polling wait of a worker, the table locks of a dry-run sweep, the main connection pool.

Next, in this order:

1. `revoke --all` in `BreakGlass`, and offboarding over several providers.
2. A hash with collisions in `Locks`, as a run of its own.
3. The sweep as one transaction with its table locks (dry run) beside writers.

Abstract specifications worth stating: a *register with fences* that Lifecycle implements
(write refused or newer than every removal), and a *single-use ticket* that states,
requests, grants and assertions implement.

Theorems next: those two refinements once they are stated; that a colliding hash
is the only way to a circle of locks (the converse of `NoLockCycleForms`); and the bound on how often a
request may be prompted for again, once `Delivery` states it.
