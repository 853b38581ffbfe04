------------------------------ MODULE Approvals ------------------------------
(***************************************************************************)
(* Human approval of sensitive calls, of one provider in one governed      *)
(* channel (src/core/approval.ts), with the sessions in which a member     *)
(* authorizes a worker as themselves (src/core/delegation.ts): a fetch     *)
(* binds a credential generation and spends a grant or asks for one; a     *)
(* click decides.  Everything the code does under the credential, channel  *)
(* and offboarding locks is one action.  Prompt delivery, the agent's      *)
(* reason and link, and enterprise scopes are left out.                    *)
(***************************************************************************)
EXTENDS Naturals, FiniteSets

CONSTANTS
  Users,
  Workers,     \* the users whose requests a member authorizes
  Shared,      \* the owner of the channel's own credential
  None,
  Actions,     \* the exact calls (method, origin, path and query)
  Ids,         \* bound: the request ids that can be minted
  Gens,        \* bound: the credential and session ids that can be minted
  Fetches,     \* bound: the agent's calls
  Clicks,      \* bound: the button clicks handled at once
  Policies,    \* provider.approval: what a decision covers and who decides
  PendingTTL,  \* PENDING_INTERACTION_TTL_US
  GrantTTL,    \* provider.approval.ttlMs
  IdleTTL,     \* WORKER_SESSION_IDLE_TTL_US
  MaxTTL,      \* WORKER_SESSION_MAX_TTL_US
  Leavers,     \* bound: the users who are offboarded
  MaxChanges,  \* bound: governance changes
  MaxTime      \* bound: the last reading of the clock

ASSUME ApprovalsAssumption ==
  /\ Workers \subseteq Users
  /\ Leavers \subseteq Users
  /\ Shared \notin Users
  /\ None \notin Users \cup {Shared} \cup Gens \cup Ids
  /\ Policies \subseteq [grant : {"once", "thread"}, approver : {"self", "member", "unset"}]
  /\ {PendingTTL, GrantTTL, IdleTTL, MaxTTL, MaxChanges} \subseteq Nat
  /\ IdleTTL <= MaxTTL
  /\ MaxTime \in Nat \ {0}

VARIABLES
  policy,     \* the policy the provider is registered with
  now,        \* PostgreSQL's clock
  tomb,       \* per user, offboard_tombstone
  cleaning,   \* the users whose offboarding has not come to approvals yet
  cred,       \* per owner, the live generation in table connection
  identity,   \* channel_config: who the agent acts as in the channel
  enabled,    \* channel_tool
  changes,    \* history: the number of governance changes
  approvals,  \* approval_request
  sessions,   \* worker_session
  used,       \* every random id minted so far
  fetches,
  clicks,     \* button clicks between their reads and the locked decision
  decided,    \* history: the decisions
  spent       \* history: the grants spent

lifeVars == <<tomb, cleaning, cred>>
govVars == <<identity, enabled, changes>>
histVars == <<decided, spent>>
vars == <<policy, now, lifeVars, govVars, approvals, sessions, used, fetches, clicks, histVars>>

Owners == Users \cup {Shared}
Time == 0..(MaxTime + PendingTTL + GrantTTL + IdleTTL + MaxTTL)

(* What a human decides on; asked is history: the governance it was asked under. *)
Row ==
  [ id : Ids, who : Users, owner : Owners, cred : Gens, action : Actions, delegated : BOOLEAN,
    status : {"pending", "granted", "denied"}, by : Users \cup {None}, created : Time,
    expires : Time, asked : 0..MaxChanges ]

Session ==
  [ id : Gens, member : Users \cup {None}, cred : Gens \cup {None}, bound : Time, expires : Time ]

Fetch ==
  [ pc : {"bound", "request"}, who : Users,
    issued : Time, owner : Owners, cred : Gens, delegated : BOOLEAN, action : Actions ]

Click ==
  [ by : Users, id : Ids, approve : BOOLEAN, issued : Time, bound : BOOLEAN, cred : Gens \cup {None} ]

Decision ==
  [ id : Ids, by : Users, approve : BOOLEAN, who : Users, owner : Owners, cred : Gens,
    action : Actions ]

Spend ==
  [ id : Ids, again : BOOLEAN, by : Users \cup {None}, who : Users, owner : Owners, cred : Gens,
    action : Actions, delegated : BOOLEAN ]

Idle == [pc |-> "idle"]
NoClick == [by |-> None]
NoSession == [id |-> None]

(* The type invariant; the session of a worker is bound to a member and a   *)
(* generation together or to neither.                                       *)
TypeOK ==
  /\ policy \in Policies
  /\ now \in 1..MaxTime
  /\ tomb \in [Users -> Time]
  /\ cleaning \subseteq Users
  /\ cred \in [Owners -> Gens \cup {None}]
  /\ identity \in {"person", "channel"}
  /\ enabled \in BOOLEAN
  /\ changes \in 0..MaxChanges
  /\ approvals \subseteq Row
  /\ sessions \in [Workers -> Session \cup {NoSession}]
  /\ \A w \in Workers : sessions[w] # NoSession =>
       (sessions[w].member = None) = (sessions[w].cred = None)
  /\ used \subseteq Ids \cup Gens
  /\ fetches \in [Fetches -> Fetch \cup {Idle}]
  /\ clicks \in [Clicks -> Click \cup {NoClick}]
  /\ decided \subseteq Decision
  /\ spent \subseteq Spend

Init ==
  /\ policy \in Policies
  /\ now = 1
  /\ tomb = [u \in Users |-> 0]
  /\ cleaning = {}
  /\ cred = [o \in Owners |-> None]
  /\ identity = "person"
  /\ enabled = TRUE
  /\ changes = 0
  /\ approvals = {}
  /\ sessions = [w \in Workers |-> NoSession]
  /\ used = {}
  /\ fetches = [f \in Fetches |-> Idle]
  /\ clicks = [k \in Clicks |-> NoClick]
  /\ decided = {}
  /\ spent = {}

----------------------------------------------------------------------------

Off(u, minted) == tomb[u] >= minted

(* delegationOf, of a row or a fetch. *)
Unbound(k) == k.delegated /\ k.owner = k.who
Bound(k) == k.delegated /\ k.owner # k.who

(* approvalKey: a worker's grant covers one call whatever the provider says. *)
Once(k) == policy.grant = "once" \/ k.delegated

(* Mutant: the digest of the action is left out of a single-use key. *)
LooseKey(k) == <<k.who, k.owner, k.cred>>

(* approvalActionKey *)
ActionKey(k) ==
  IF Once(k) THEN <<k.who, k.owner, k.cred, k.action>> ELSE <<k.who, k.owner, k.cred>>

(* MATCH_SQL *)
Matching(k) == {r \in approvals : ActionKey(r) = ActionKey(k) /\ r.delegated = k.delegated}
Live(r) == r.expires > now

(* Mutant: the row that was read before the locks is decided. *)
Readable(id) == {r \in approvals : r.id = id}

Pending(id) == {r \in approvals : r.id = id /\ r.status = "pending" /\ Live(r)}

SessionLive(w) == sessions[w] # NoSession /\ sessions[w].expires > now

(* resolveCredentialOwner, for a caller who is not a worker. *)
OwnerFor(u) == IF identity = "channel" THEN Shared ELSE u

(* credentialUseStateFenced: may who use this credential here, on authority *)
(* of that time.                                                            *)
UseCurrent(k, issued) ==
  /\ ~Off(k.who, issued)
  /\ enabled
  /\ \/ /\ ~k.delegated
        /\ k.owner = OwnerFor(k.who)
        /\ cred[k.owner] = k.cred
     \/ /\ Unbound(k)
        /\ identity = "person"
        /\ SessionLive(k.who)
        /\ sessions[k.who].member = None /\ sessions[k.who].id = k.cred
     \/ /\ Bound(k)
        /\ identity = "person"
        /\ SessionLive(k.who)
        /\ sessions[k.who].member = k.owner /\ sessions[k.who].cred = k.cred
        /\ ~Off(k.owner, sessions[k.who].bound)
        /\ cred[k.owner] = k.cred

Tick ==
  /\ now < MaxTime
  /\ now' = now + 1
  /\ UNCHANGED <<lifeVars, govVars, approvals, sessions, used, fetches, clicks, histVars>>

----------------------------------------------------------------------------
(* The credential's own lifecycle, as far as approvals depend on it. *)

(* clearSatellites: the channel's own credential takes every request with it. *)
PurgeOwner(o) == IF o = Shared THEN {} ELSE {r \in approvals : r.owner # o}

(* A user's credential write, under authority newer than the tombstone. *)
Connect(u) ==
  /\ ~Off(u, now)
  /\ \E g \in Gens \ used :
       /\ used' = used \cup {g}
       /\ cred' = [cred EXCEPT ![u] = g]
  /\ approvals' = PurgeOwner(u)
  /\ UNCHANGED <<now, tomb, cleaning, govVars, sessions, fetches, clicks, histVars>>

(* A delete whose satellite purge fails is retried without it. *)
Remove(o, purged) ==
  /\ cred[o] # None
  /\ cred' = [cred EXCEPT ![o] = None]
  /\ approvals' = IF purged THEN PurgeOwner(o) ELSE approvals
  /\ UNCHANGED <<now, tomb, cleaning, govVars, sessions, used, fetches, clicks, histVars>>

MarkOffboarded(u) ==
  /\ tomb[u] # now
  /\ tomb' = [tomb EXCEPT ![u] = now]
  /\ cleaning' = cleaning \cup {u}
  /\ UNCHANGED <<now, cred, govVars, approvals, sessions, used, fetches, clicks, histVars>>

(* revokeForUser, which may fail. *)
RevokeForUser(u, done) ==
  /\ u \in cleaning
  /\ cleaning' = cleaning \ {u}
  /\ approvals' = IF done THEN {r \in approvals : r.who # u} ELSE approvals
  /\ sessions' = IF done
       THEN [w \in Workers |->
               IF w = u \/ (sessions[w] # NoSession /\ sessions[w].member = u)
               THEN NoSession ELSE sessions[w]]
       ELSE sessions
  /\ UNCHANGED <<now, tomb, cred, govVars, used, fetches, clicks, histVars>>

----------------------------------------------------------------------------
(* Governance of the channel. *)

(* Mutant: a change leaves the pending and granted requests. *)
KeepRequests == UNCHANGED approvals

(* purgeChannelInteractionState *)
PurgeChannel == approvals' = {}

Changed ==
  /\ changes < MaxChanges
  /\ changes' = changes + 1
  /\ PurgeChannel

(* configureChannelToolsEnabled *)
SetTool(on) ==
  /\ enabled # on
  /\ enabled' = on
  /\ Changed
  /\ UNCHANGED <<now, lifeVars, identity, sessions, used, fetches, clicks, histVars>>

(* configureChannelCredential *)
ShareCredential ==
  /\ \E g \in Gens \ used :
       /\ used' = used \cup {g}
       /\ cred' = [cred EXCEPT ![Shared] = g]
  /\ identity' = "channel"
  /\ Changed
  /\ UNCHANGED <<now, tomb, cleaning, enabled, sessions, fetches, clicks, histVars>>

(* setChannelCredentialIdentity *)
ActAs(i) ==
  /\ identity # i
  /\ identity' = i
  /\ cred' = IF i = "person" THEN [cred EXCEPT ![Shared] = None] ELSE cred
  /\ Changed
  /\ UNCHANGED <<now, tomb, cleaning, enabled, sessions, used, fetches, clicks, histVars>>

----------------------------------------------------------------------------
(* A worker's session. *)

NewSession(id) ==
  [id |-> id, member |-> None, cred |-> None, bound |-> 0, expires |-> now + IdleTTL]

(* beginWorkerSession keeps a live session unless its member's generation   *)
(* is gone.                                                                 *)
Kept(w) ==
  SessionLive(w) /\ (sessions[w].member # None => cred[sessions[w].member] = sessions[w].cred)

(* Mutant: activity extends the session without an end. *)
Extended(s) == [s EXCEPT !.expires = now + IdleTTL]

Earlier(a, b) == IF a <= b THEN a ELSE b

(* touchWorkerSession *)
Touched(s) == [s EXCEPT !.expires = Earlier(now + IdleTTL, s.bound + MaxTTL)]

TouchSession(w) ==
  sessions' = IF SessionLive(w) THEN [sessions EXCEPT ![w] = Touched(sessions[w])] ELSE sessions

(* resolveOwner and resolveWorkerOwner: the call binds its generation. *)
Start(f, u, a) ==
  LET fetch(o, g, d) == [ pc |-> "bound", who |-> u, issued |-> now, owner |-> o, cred |-> g,
                          delegated |-> d, action |-> a ]
  IN
  /\ fetches[f] = Idle
  /\ ~Off(u, now)
  /\ enabled
  /\ \/ /\ u \notin Workers \/ identity = "channel"
        /\ cred[OwnerFor(u)] # None
        /\ fetches' = [fetches EXCEPT ![f] = fetch(OwnerFor(u), cred[OwnerFor(u)], FALSE)]
        /\ UNCHANGED <<sessions, used>>
     \/ /\ u \in Workers /\ identity = "person"
        /\ Kept(u)
        /\ fetches' = [fetches EXCEPT ![f] =
             IF sessions[u].member = None THEN fetch(u, sessions[u].id, TRUE)
                                          ELSE fetch(sessions[u].member, sessions[u].cred, TRUE)]
        /\ UNCHANGED <<sessions, used>>
     \/ /\ u \in Workers /\ identity = "person"
        /\ ~Kept(u)
        /\ \E g \in Gens \ used :
             /\ used' = used \cup {g}
             /\ sessions' = [sessions EXCEPT ![u] = NewSession(g)]
             /\ fetches' = [fetches EXCEPT ![f] = fetch(u, g, TRUE)]
  /\ UNCHANGED <<now, lifeVars, govVars, approvals, clicks, histVars>>

----------------------------------------------------------------------------
(* The call. *)

Ask(f) == fetches' = [fetches EXCEPT ![f].pc = "request"]
Return(f) == fetches' = [fetches EXCEPT ![f] = Idle]

Candidates(f) ==
  {r \in Matching(fetches[f]) : r.status = "granted" /\ Live(r)}

(* Mutant: only the call's own receipt is checked, not the grant's age. *)
AnyAge(f, r) == FALSE

(* withUserInteractionFences over the grant's creation. *)
GrantOffboarded(f, r) ==
  \/ Off(fetches[f].who, r.created)
  \/ Bound(fetches[f]) /\ Off(fetches[f].owner, r.created)

(* Mutant: a single-use grant is read and deleted later. *)
ReadGrant(r) == approvals

(* consumeIdOn *)
SpendGrant(r) == IF Once(r) THEN approvals \ {r} ELSE approvals

SpendOf(f, r) ==
  [ id |-> r.id, again |-> \E s \in spent : s.id = r.id, by |-> r.by,
    who |-> fetches[f].who, owner |-> fetches[f].owner,
    cred |-> fetches[f].cred, action |-> fetches[f].action, delegated |-> fetches[f].delegated ]

(* consumeAudited *)
Consume(f) ==
  LET k == fetches[f] IN
  /\ k.pc = "bound"
  /\ \/ /\ Unbound(k)
        /\ Ask(f)
        /\ UNCHANGED <<approvals, sessions, spent>>
     \/ /\ ~Unbound(k) /\ cred[k.owner] # k.cred
        /\ Return(f)
        /\ UNCHANGED <<approvals, sessions, spent>>
     \/ /\ ~Unbound(k) /\ cred[k.owner] = k.cred
        /\ Candidates(f) = {}
        /\ Ask(f)
        /\ UNCHANGED <<approvals, sessions, spent>>
     \/ /\ ~Unbound(k) /\ cred[k.owner] = k.cred
        /\ \E r \in Candidates(f) :
             \/ /\ GrantOffboarded(f, r)
                /\ approvals' = approvals \ {r}
                /\ Ask(f)
                /\ UNCHANGED <<sessions, spent>>
             \/ /\ ~GrantOffboarded(f, r) /\ ~UseCurrent(k, k.issued)
                /\ Return(f)
                /\ UNCHANGED <<approvals, sessions, spent>>
             \/ /\ ~GrantOffboarded(f, r) /\ UseCurrent(k, k.issued)
                /\ approvals' = SpendGrant(r)
                /\ spent' = spent \cup {SpendOf(f, r)}
                /\ IF Bound(k) THEN TouchSession(k.who) ELSE UNCHANGED sessions
                /\ Return(f)
  /\ UNCHANGED <<now, lifeVars, govVars, used, clicks, decided>>

(* requestAudited: one live row per action key; a denied or expired row is  *)
(* replaced, a live one is returned.                                        *)
Request(f) ==
  LET k == fetches[f]
      replaceable == {r \in Matching(k) : ~Live(r) \/ r.status = "denied"}
  IN
  /\ k.pc = "request"
  /\ \/ /\ ~UseCurrent(k, k.issued)
        /\ Return(f)
        /\ UNCHANGED <<approvals, used>>
     \/ /\ UseCurrent(k, k.issued)
        /\ Return(f)
        /\ \/ /\ Matching(k) \subseteq replaceable
              /\ \E id \in Ids \ used :
                   /\ used' = used \cup {id}
                   /\ approvals' = (approvals \ replaceable) \cup
                        {[ id |-> id, who |-> k.who, owner |-> k.owner, cred |-> k.cred,
                           action |-> k.action, delegated |-> k.delegated, status |-> "pending",
                           by |-> None, created |-> now, expires |-> now + PendingTTL,
                           asked |-> changes ]}
           \/ /\ ~(Matching(k) \subseteq replaceable)
              /\ UNCHANGED <<approvals, used>>
  /\ UNCHANGED <<now, lifeVars, govVars, sessions, clicks, histVars>>

----------------------------------------------------------------------------
(* A decision. *)

EffectiveApprover(o) ==
  IF policy.approver # "unset" THEN policy.approver
  ELSE IF o = Shared THEN "member" ELSE "self"

(* Mutant: a worker's request may always be decided by any member. *)
AnyMember(r, u) ==
  IF r.delegated \/ EffectiveApprover(r.owner) = "member" THEN u # r.who ELSE u = r.who

(* approvalDecider *)
MayDecide(r, u) ==
  \/ Unbound(r) /\ u # r.who
  \/ Bound(r) /\ u = r.owner
  \/ ~r.delegated /\ EffectiveApprover(r.owner) = "member" /\ u # r.who
  \/ ~r.delegated /\ EffectiveApprover(r.owner) = "self" /\ u = r.who

(* The reads before the locks. A member without a credential is sent to     *)
(* connect instead.                                                         *)
ClickButton(c, u, r, approve) ==
  /\ clicks[c] = NoClick
  /\ r \in Pending(r.id)
  /\ Unbound(r) /\ approve => u # r.who /\ cred[u] # None
  /\ clicks' = [clicks EXCEPT ![c] =
       [ by |-> u, id |-> r.id, approve |-> approve, issued |-> now, bound |-> Bound(r),
         cred |-> IF Unbound(r) /\ approve THEN cred[u] ELSE None ]]
  /\ UNCHANGED <<now, lifeVars, govVars, approvals, sessions, used, fetches, histVars>>

(* The rule the click was checked by, the provider and the owner still hold. *)
Valid(k, r) == Bound(r) = k.bound /\ UseCurrent(r, r.created)

Eligible(k, r) == MayDecide(r, k.by) /\ (k.cred # None => cred[k.by] = k.cred)

DecisionOf(k, r) ==
  [ id |-> r.id, by |-> k.by, approve |-> k.approve, who |-> r.who, owner |-> r.owner,
    cred |-> r.cred, action |-> r.action ]

(* The row as the decision binds it to the clicking member. *)
BoundTo(k, r) ==
  IF k.cred # None THEN [r EXCEPT !.owner = k.by, !.cred = k.cred] ELSE r

Granted(k, r) ==
  [BoundTo(k, r) EXCEPT !.status = "granted", !.by = k.by, !.expires = now + GrantTTL]

(* Mutant: an older grant for the same action is left. *)
KeepTwin(k, r) == {}

(* The unspent grants for the same action that the bound row supersedes. *)
Superseded(k, r) ==
  IF k.cred # None
  THEN {t \in approvals : t.id # r.id /\ ActionKey(t) = ActionKey(BoundTo(k, r))}
  ELSE {}

(* Mutant: the session is bound to the member but not to a generation. *)
MemberOnly(k, s) == [s EXCEPT !.member = k.by, !.bound = now, !.expires = now + IdleTTL]

(* bindWorkerSession *)
Binding(k, s) ==
  [s EXCEPT !.member = k.by, !.cred = k.cred, !.bound = now, !.expires = now + IdleTTL]

(* Slack is asked of the channel and its members. *)
ChannelBound(r) == r.delegated \/ r.owner = Shared \/ EffectiveApprover(r.owner) = "member"

Answers(r) == IF ChannelBound(r) THEN BOOLEAN ELSE {TRUE}

(* decideAudited, with Slack's answers of before the locks: is the channel  *)
(* still eligible, and is the clicker a member of it?                       *)
Decide(c) ==
  LET k == clicks[c]
      drop(r) == approvals' = approvals \ {r} /\ UNCHANGED <<sessions, decided>>
      nothing == UNCHANGED <<approvals, sessions, decided>>
  IN
  /\ k # NoClick
  /\ clicks' = [clicks EXCEPT ![c] = NoClick]
  /\ \/ Pending(k.id) = {} /\ nothing
     \/ Off(k.by, k.issued) /\ nothing
     \/ \E r \in Pending(k.id) : \E facts, member \in Answers(r) :
          /\ ~Off(k.by, k.issued)
          /\ \/ /\ Off(r.who, r.created) \/ ~Valid(k, r) \/ ~facts
                /\ drop(r)
             \/ /\ ~Off(r.who, r.created) /\ Valid(k, r) /\ facts
                /\ ~(Eligible(k, r) /\ member)
                /\ nothing
             \/ /\ ~Off(r.who, r.created) /\ Valid(k, r) /\ facts
                /\ Eligible(k, r) /\ member
                /\ k.approve
                /\ approvals' = (approvals \ ({r} \cup Superseded(k, r))) \cup {Granted(k, r)}
                /\ decided' = decided \cup {DecisionOf(k, BoundTo(k, r))}
                /\ IF k.cred # None
                     THEN sessions' = [sessions EXCEPT ![r.who] = Binding(k, sessions[r.who])]
                     ELSE IF Bound(r) THEN TouchSession(r.who) ELSE UNCHANGED sessions
             \/ /\ ~Off(r.who, r.created) /\ Valid(k, r) /\ facts
                /\ Eligible(k, r) /\ member
                /\ ~k.approve
                /\ approvals' = (approvals \ {r}) \cup
                     {[r EXCEPT !.status = "denied", !.by = k.by, !.expires = now + PendingTTL]}
                /\ decided' = decided \cup {DecisionOf(k, r)}
                /\ UNCHANGED sessions
  /\ UNCHANGED <<now, lifeVars, govVars, used, fetches, spent>>

(* discardPending, and a prompt that was never posted. *)
Discard(r) ==
  /\ r.status = "pending"
  /\ approvals' = approvals \ {r}
  /\ UNCHANGED <<now, lifeVars, govVars, sessions, used, fetches, clicks, histVars>>

(* sweepExpired *)
Sweep ==
  /\ \/ \E r \in approvals : r.expires < now
     \/ \E w \in Workers : sessions[w] # NoSession /\ ~SessionLive(w)
  /\ approvals' = {r \in approvals : r.expires >= now}
  /\ sessions' = [w \in Workers |-> IF SessionLive(w) THEN sessions[w] ELSE NoSession]
  /\ UNCHANGED <<now, lifeVars, govVars, used, fetches, clicks, histVars>>

Step ==
  \/ Tick
  \/ \E u \in Users :
       \/ Connect(u)
       \/ u \in Leavers /\ MarkOffboarded(u)
       \/ \E done \in BOOLEAN : RevokeForUser(u, done)
  \/ \E o \in Owners, purged \in BOOLEAN : Remove(o, purged)
  \/ \E on \in BOOLEAN : SetTool(on)
  \/ \E i \in {"person", "channel"} : ActAs(i)
  \/ ShareCredential
  \/ \E f \in Fetches :
       \/ \E u \in Users, a \in Actions : Start(f, u, a)
       \/ Consume(f)
       \/ Request(f)
  \/ \E c \in Clicks :
       \/ \E u \in Users, r \in approvals, approve \in BOOLEAN : ClickButton(c, u, r, approve)
       \/ Decide(c)
  \/ \E r \in approvals : Discard(r)
  \/ Sweep

Next == Step /\ UNCHANGED policy

Spec == Init /\ [][Next]_vars

----------------------------------------------------------------------------

(* A single-use grant is spent by one call, however many identical calls    *)
(* and replicas look it up at once (consumeIdOn).                           *)
SpentOnce ==
  \A s \in spent : Once(s) => ~s.again

(* What is spent is what a human approved: the same requester, owner,       *)
(* credential generation and, for a single-use grant, the exact action,     *)
(* whatever happened to the row between the prompt and the call.            *)
SpendApproved ==
  \A s \in spent : \E d \in decided :
    /\ d.approve
    /\ <<d.id, d.by, d.who, d.owner, d.cred>> = <<s.id, s.by, s.who, s.owner, s.cred>>
    /\ Once(s) => d.action = s.action

(* A request is decided once: the second of two clicks, of two members or   *)
(* of one, approve and deny, finds it decided (decideAudited).              *)
OneDecision ==
  \A d, e \in decided : d.id = e.id => d = e

(* The unique index is never violated: no decision or request leaves two    *)
(* rows for one action, where both could be spent (decideAudited, bind).    *)
UniqueAction ==
  \A r, t \in approvals : ActionKey(r) = ActionKey(t) => r = t

(* A worker's call spends only what the owner of the credential decided,    *)
(* never the worker itself and never another member (approvalDecider).      *)
DelegatedByOwner ==
  \A s \in spent : s.delegated => s.by = s.owner /\ s.owner # s.who

(* What a decision is worth, over every spend so far. *)
SpentAsDecided == SpentOnce /\ SpendApproved /\ OneDecision /\ DelegatedByOwner

(* The table of requests and grants. *)
ApprovalsTable == TypeOK /\ UniqueAction

NewlySpent == spent' \ spent
GrantOf(s) == {r \in approvals : r.id = s.id}

(* A grant asked for before its requester, or the member it is delegated    *)
(* by, was offboarded is never spent, not even after they come back and     *)
(* although the cleanup failed (consumeAudited).                            *)
NoSpendAcrossOffboard ==
  [][\A s \in NewlySpent : \A r \in GrantOf(s) :
       tomb[s.who] < r.created /\ (s.delegated => tomb[s.owner] < r.created)]_vars

(* A grant is spent under the governance it was asked under: disabling and  *)
(* enabling a tool again, or changing who the agent acts as and back,       *)
(* revives no old decision (purgeChannelInteractionState).                  *)
NoABA ==
  [][\A s \in NewlySpent : \A r \in GrantOf(s) : r.asked = changes]_vars

(* A worker acts for a member no longer than WORKER_SESSION_MAX_TTL after   *)
(* the member's click, however active the session is (touchWorkerSession).  *)
WorkerLeashed ==
  [][\A s \in NewlySpent : s.delegated => now < sessions[s.who].bound + MaxTTL]_vars

=============================================================================
