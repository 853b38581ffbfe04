-------------------------- MODULE ApprovalsProofs --------------------------
(***************************************************************************)
(* What TLAPS proves of Approvals, for any number of members, workers,     *)
(* calls and clicks and every policy.  The argument is in ApprovalsIInv:   *)
(* a row is what was decided on it, a key has one row, and a click knows   *)
(* whether it delegates.                                                   *)
(***************************************************************************)
EXTENDS ApprovalsInv, TLAPS

USE ApprovalsAssumption

----------------------------------------------------------------------------
(* Keys.                                                                    *)

(* A key names one requester, owner and generation; a single-use key also   *)
(* names the exact action.                                                  *)
LEMMA KeyNames ==
  ASSUME NEW k, NEW r, ActionKey(r) = ActionKey(k), r.delegated <=> k.delegated
  PROVE  /\ r.who = k.who /\ r.owner = k.owner /\ r.cred = k.cred
         /\ Once(k) => r.action = k.action
         /\ Once(k) <=> Once(r)
<1>1. Once(k) <=> Once(r)
  BY DEF Once
<1>2. CASE Once(k)
  <2>1. <<r.who, r.owner, r.cred, r.action>> = <<k.who, k.owner, k.cred, k.action>>
    BY <1>1, <1>2 DEF ActionKey
  <2> QED BY <1>1, <2>1
<1>3. CASE ~Once(k)
  <2>1. <<r.who, r.owner, r.cred>> = <<k.who, k.owner, k.cred>>
    BY <1>1, <1>3 DEF ActionKey
  <2> QED BY <1>1, <1>3, <2>1
<1> QED BY <1>2, <1>3

(* A worker's key is no one else's: the digest separates them.              *)
LEMMA KeySeparates ==
  ASSUME NEW k, NEW r, Kind(k), Kind(r), ActionKey(r) = ActionKey(k),
         k.delegated \in BOOLEAN, r.delegated \in BOOLEAN
  PROVE  r.delegated <=> k.delegated
<1>1. CASE Once(k) /\ Once(r)
  <2>1. <<r.who, r.owner, r.cred, r.action>> = <<k.who, k.owner, k.cred, k.action>>
    BY <1>1 DEF ActionKey
  <2> QED BY <2>1 DEF Kind
<1>2. CASE ~Once(k) /\ ~Once(r)
  BY <1>2 DEF Once
<1>3. CASE Once(k) /\ ~Once(r)
  <2>1. <<r.who, r.owner, r.cred>> = <<k.who, k.owner, k.cred, k.action>>
    BY <1>3 DEF ActionKey
  <2> QED BY <2>1
<1>4. CASE ~Once(k) /\ Once(r)
  <2>1. <<r.who, r.owner, r.cred, r.action>> = <<k.who, k.owner, k.cred>>
    BY <1>4 DEF ActionKey
  <2> QED BY <2>1
<1> QED BY <1>1, <1>2, <1>3, <1>4

(* Two records that agree on the key's fields have the same key.            *)
LEMMA SameKey ==
  ASSUME NEW k, NEW r, r.who = k.who, r.owner = k.owner, r.cred = k.cred, r.action = k.action,
         r.delegated = k.delegated
  PROVE  ActionKey(r) = ActionKey(k)
BY DEF ActionKey, Once

----------------------------------------------------------------------------
(* Rows only go, and no history is written.                                 *)

LEMMA FewerRows ==
  ASSUME Rows, UNCHANGED <<policy, histVars>>, used \subseteq used',
         approvals' \subseteq approvals, changes' = changes \/ approvals' = {}
  PROVE  Rows'
<1>1. UniqueAction'
  BY DEF Rows, UniqueAction, ActionKey, Once
<1>2. \A r \in approvals' : RowOK(r)'
  BY DEF Rows, RowOK, Kind, Once, ApprovedAs, histVars
<1> QED BY <1>1, <1>2 DEF Rows

LEMMA SameHistory ==
  ASSUME Histories, UNCHANGED <<policy, histVars>>, used \subseteq used'
  PROVE  Histories'
BY DEF Histories, SpentAsDecided, SpentOnce, SpendApproved, OneDecision, DelegatedByOwner, Once,
       histVars

(* Clicks are unaffected when no pending row is new to them.                *)
LEMMA SameClicks ==
  ASSUME Buttons, used \subseteq used',
         \A c \in Clicks : clicks'[c] = clicks[c] \/ clicks'[c] = NoClick,
         clicks' \in [Clicks -> Click \cup {NoClick}],
         \A r \in approvals' : r.status = "pending" => r \in approvals \/ r.id \notin used
  PROVE  Buttons'
<1> SUFFICES ASSUME NEW c \in Clicks, clicks'[c] # NoClick
             PROVE  ClickOK(clicks[c])' /\ clicks'[c] = clicks[c]
  BY DEF Buttons
<1>1. clicks'[c] = clicks[c] /\ ClickOK(clicks[c])
  BY DEF Buttons
<1> QED BY <1>1 DEF ClickOK, Unbound

LEMMA QuietStep ==
  ASSUME ApprovalsIInv, UNCHANGED <<policy, histVars, clicks>>, used \subseteq used',
         approvals' \subseteq approvals, changes' = changes \/ approvals' = {},
         World', Calls', Leashes'
  PROVE  ApprovalsIInv'
<1>1. Rows' /\ Histories'
  BY FewerRows, SameHistory DEF ApprovalsIInv
<1>2. Buttons'
  BY SameClicks DEF ApprovalsIInv, Buttons
<1> QED BY <1>1, <1>2 DEF ApprovalsIInv

LEMMA CallsSame == ASSUME Calls, UNCHANGED fetches PROVE Calls'
BY DEF Calls, Kind

LEMMA LeashesSame == ASSUME Leashes, UNCHANGED sessions PROVE Leashes'
BY DEF Leashes, SessionOK

----------------------------------------------------------------------------
(* The world around approvals.                                              *)

LEMMA TickKeeps == ASSUME ApprovalsIInv, Tick, UNCHANGED policy PROVE ApprovalsIInv'
<1>1. World'
  BY DEF ApprovalsIInv, World, Tick, lifeVars, govVars
<1> QED BY <1>1, CallsSame, LeashesSame, QuietStep DEF ApprovalsIInv, Tick, govVars

LEMMA ConnectKeeps ==
  ASSUME ApprovalsIInv, NEW u \in Users, Connect(u), UNCHANGED policy PROVE ApprovalsIInv'
<1>1. World' /\ used \subseteq used'
  BY DEF ApprovalsIInv, World, Connect, govVars, Owners
<1>2. approvals' \subseteq approvals
  BY DEF Connect, PurgeOwner
<1> QED BY <1>1, <1>2, CallsSame, LeashesSame, QuietStep DEF ApprovalsIInv, Connect, govVars

LEMMA RemoveKeeps ==
  ASSUME ApprovalsIInv, NEW o \in Owners, NEW purged \in BOOLEAN, Remove(o, purged),
         UNCHANGED policy
  PROVE  ApprovalsIInv'
<1>1. World'
  BY DEF ApprovalsIInv, World, Remove, govVars
<1>2. approvals' \subseteq approvals
  BY DEF Remove, PurgeOwner
<1> QED BY <1>1, <1>2, CallsSame, LeashesSame, QuietStep DEF ApprovalsIInv, Remove, govVars

LEMMA MarkOffboardedKeeps ==
  ASSUME ApprovalsIInv, NEW u \in Users, MarkOffboarded(u), UNCHANGED policy
  PROVE  ApprovalsIInv'
<1>1. now \in Time
  BY DEF ApprovalsIInv, World, Time
<1>2. World'
  BY <1>1 DEF ApprovalsIInv, World, MarkOffboarded, govVars
<1> QED BY <1>2, CallsSame, LeashesSame, QuietStep DEF ApprovalsIInv, MarkOffboarded, govVars

LEMMA RevokeForUserKeeps ==
  ASSUME ApprovalsIInv, NEW u \in Users, NEW done \in BOOLEAN, RevokeForUser(u, done),
         UNCHANGED policy
  PROVE  ApprovalsIInv'
<1>1. World'
  BY DEF ApprovalsIInv, World, RevokeForUser, govVars
<1>2. approvals' \subseteq approvals
  BY DEF RevokeForUser
<1>3. Leashes'
  BY DEF ApprovalsIInv, Leashes, SessionOK, RevokeForUser
<1> QED BY <1>1, <1>2, <1>3, CallsSame, QuietStep DEF ApprovalsIInv, RevokeForUser, govVars

(* A change of governance leaves no row that was asked for before it.       *)
LEMMA GovernanceKeeps ==
  ASSUME ApprovalsIInv, UNCHANGED policy,
         \/ \E on \in BOOLEAN : SetTool(on)
         \/ ShareCredential
         \/ \E i \in {"person", "channel"} : ActAs(i)
  PROVE  ApprovalsIInv'
<1>1. approvals' = {} /\ UNCHANGED <<histVars, clicks, fetches, sessions>> /\ used \subseteq used'
  BY DEF SetTool, ShareCredential, ActAs, Changed, PurgeChannel
<1>2. changes' \in 0..MaxChanges
  BY DEF ApprovalsIInv, World, SetTool, ShareCredential, ActAs, Changed
<1>3. CASE \E on \in BOOLEAN : SetTool(on)
  <2>1. World'
    BY <1>2, <1>3 DEF ApprovalsIInv, World, SetTool, lifeVars
  <2> QED BY <1>1, <2>1, CallsSame, LeashesSame, QuietStep DEF ApprovalsIInv
<1>4. CASE ShareCredential
  <2>1. World'
    BY <1>2, <1>4 DEF ApprovalsIInv, World, ShareCredential, Owners
  <2> QED BY <1>1, <2>1, CallsSame, LeashesSame, QuietStep DEF ApprovalsIInv
<1>5. CASE \E i \in {"person", "channel"} : ActAs(i)
  <2>1. World'
    BY <1>2, <1>5 DEF ApprovalsIInv, World, ActAs
  <2> QED BY <1>1, <2>1, CallsSame, LeashesSame, QuietStep DEF ApprovalsIInv
<1> QED BY <1>3, <1>4, <1>5

LEMMA DiscardKeeps ==
  ASSUME ApprovalsIInv, NEW r \in approvals, Discard(r), UNCHANGED policy PROVE ApprovalsIInv'
<1>1. World' /\ approvals' \subseteq approvals
  BY DEF ApprovalsIInv, World, Discard, lifeVars, govVars
<1> QED BY <1>1, CallsSame, LeashesSame, QuietStep DEF ApprovalsIInv, Discard, govVars

LEMMA SweepKeeps ==
  ASSUME ApprovalsIInv, Sweep, UNCHANGED policy PROVE ApprovalsIInv'
<1>1. World' /\ approvals' \subseteq approvals
  BY DEF ApprovalsIInv, World, Sweep, lifeVars, govVars
<1>2. Leashes'
  BY DEF ApprovalsIInv, Leashes, SessionOK, Sweep
<1> QED BY <1>1, <1>2, CallsSame, QuietStep DEF ApprovalsIInv, Sweep, govVars

----------------------------------------------------------------------------
(* Sessions.                                                                *)

LEMMA StampsInTime ==
  ASSUME World
  PROVE  /\ now \in Time /\ now + IdleTTL \in Time /\ now + PendingTTL \in Time
         /\ now + GrantTTL \in Time /\ Time \subseteq Nat
BY DEF World, Time

LEMMA TouchKeeps ==
  ASSUME World, Leashes, NEW w \in Workers, TouchSession(w) PROVE Leashes'
<1>1. CASE ~SessionLive(w)
  BY <1>1, LeashesSame DEF TouchSession
<1>2. CASE SessionLive(w)
  <2> DEFINE s == Touched(sessions[w])
  <2>1. sessions[w] \in Session /\ SessionOK(sessions[w]) /\ sessions[w] # NoSession
    BY <1>2 DEF Leashes, SessionLive
  <2>2. Earlier(now + IdleTTL, sessions[w].bound + MaxTTL) \in Time
        /\ Earlier(now + IdleTTL, sessions[w].bound + MaxTTL) <= sessions[w].bound + MaxTTL
    <3>1. sessions[w].bound \in Nat /\ now + IdleTTL \in Time /\ Time \subseteq Nat
      BY <2>1, StampsInTime DEF Session
    <3> QED BY <3>1 DEF Earlier, Time
  <2>3. s \in Session /\ SessionOK(s)
    BY <2>1, <2>2 DEF Touched, Session, SessionOK
  <2>4. sessions' = [sessions EXCEPT ![w] = s]
    BY <1>2 DEF TouchSession
  <2> HIDE DEF s
  <2> QED BY <2>3, <2>4 DEF Leashes
<1> QED BY <1>1, <1>2

----------------------------------------------------------------------------
(* A call.                                                                  *)

LEMMA StartKeeps ==
  ASSUME ApprovalsIInv, NEW f \in Fetches, NEW u \in Users, NEW a \in Actions, Start(f, u, a),
         UNCHANGED policy
  PROVE  ApprovalsIInv'
<1> DEFINE fetch(o, g, d) == [ pc |-> "bound", who |-> u, issued |-> now, owner |-> o, cred |-> g,
                               delegated |-> d, action |-> a ]
<1>1. World /\ Calls /\ Leashes
  BY DEF ApprovalsIInv
<1>2. ASSUME NEW o \in Owners, NEW g \in Gens, NEW d \in BOOLEAN,
             d => u \in Workers /\ o \in Users,
             ~d => o = Shared \/ (o = u /\ u \notin Workers),
             fetches' = [fetches EXCEPT ![f] = fetch(o, g, d)]
      PROVE  Calls'
  <2> DEFINE x == fetch(o, g, d)
  <2>1. x \in Fetch /\ Kind(x)
    BY <1>1, <1>2, StampsInTime DEF Fetch, Kind
  <2>2. fetches' = [fetches EXCEPT ![f] = x]
    BY <1>2
  <2> HIDE DEF x
  <2> QED BY <1>1, <2>1, <2>2 DEF Calls
<1>3. CASE /\ u \notin Workers \/ identity = "channel"
           /\ cred[OwnerFor(u)] # None
           /\ fetches' = [fetches EXCEPT ![f] = fetch(OwnerFor(u), cred[OwnerFor(u)], FALSE)]
           /\ UNCHANGED <<sessions, used>>
  <2>1. OwnerFor(u) \in Owners /\ cred[OwnerFor(u)] \in Gens
    BY <1>1, <1>3 DEF OwnerFor, Owners, World
  <2>2. OwnerFor(u) = Shared \/ (OwnerFor(u) = u /\ u \notin Workers)
    BY <1>3 DEF OwnerFor
  <2>3. Calls'
    BY <1>2, <1>3, <2>1, <2>2
  <2>4. World'
    BY <1>1, <1>3 DEF World, Start, lifeVars, govVars
  <2> QED BY <1>3, <2>3, <2>4, LeashesSame, QuietStep DEF ApprovalsIInv, Start, govVars
<1>4. CASE /\ u \in Workers /\ identity = "person"
           /\ Kept(u)
           /\ fetches' = [fetches EXCEPT ![f] =
                IF sessions[u].member = None THEN fetch(u, sessions[u].id, TRUE)
                                             ELSE fetch(sessions[u].member, sessions[u].cred, TRUE)]
           /\ UNCHANGED <<sessions, used>>
  <2>1. sessions[u] \in Session /\ SessionOK(sessions[u])
    BY <1>1, <1>4 DEF Kept, SessionLive, Leashes
  <2>2. Calls'
    <3>1. CASE sessions[u].member = None
      BY <1>2, <1>4, <2>1, <3>1 DEF Session, Owners
    <3>2. CASE sessions[u].member # None
      BY <1>2, <1>4, <2>1, <3>2 DEF Session, SessionOK, Owners
    <3> QED BY <3>1, <3>2
  <2>3. World'
    BY <1>1, <1>4 DEF World, Start, lifeVars, govVars
  <2> QED BY <1>4, <2>2, <2>3, LeashesSame, QuietStep DEF ApprovalsIInv, Start, govVars
<1>5. ASSUME u \in Workers, NEW g \in Gens \ used, used' = used \cup {g},
             sessions' = [sessions EXCEPT ![u] = NewSession(g)],
             fetches' = [fetches EXCEPT ![f] = fetch(u, g, TRUE)]
      PROVE  ApprovalsIInv'
  <2>1. Calls'
    BY <1>2, <1>5 DEF Owners
  <2> DEFINE s == NewSession(g)
  <2>2. s \in Session /\ SessionOK(s)
    BY <1>1, StampsInTime DEF NewSession, Session, SessionOK, Time
  <2>3. sessions' = [sessions EXCEPT ![u] = s]
    BY <1>5
  <2> HIDE DEF s
  <2>4. Leashes'
    BY <1>1, <2>2, <2>3 DEF Leashes
  <2>5. World'
    BY <1>1, <1>5 DEF World, Start, lifeVars, govVars
  <2> QED BY <1>5, <2>1, <2>4, <2>5, QuietStep DEF ApprovalsIInv, Start, govVars
<1> QED BY <1>3, <1>4, <1>5 DEF Start

(* A call goes on to ask, or returns.                                       *)
LEMMA CallMoves ==
  ASSUME Calls, NEW f \in Fetches, fetches[f] # Idle, Ask(f) \/ Return(f) PROVE Calls'
<1>1. fetches[f] \in Fetch /\ Kind(fetches[f])
  BY DEF Calls
<1>2. CASE Ask(f)
  <2> DEFINE x == [fetches[f] EXCEPT !.pc = "request"]
  <2>1. x \in Fetch /\ Kind(x)
    BY <1>1 DEF Fetch, Kind
  <2>2. fetches' = [fetches EXCEPT ![f] = x]
    BY <1>2 DEF Ask
  <2> HIDE DEF x
  <2> QED BY <2>1, <2>2 DEF Calls
<1>3. CASE Return(f)
  BY <1>3 DEF Return, Calls
<1> QED BY <1>2, <1>3

(* What a spend finds: the grant has the call's key, and a decision on it   *)
(* stands as it was made.                                                   *)
LEMMA SpendFinds ==
  ASSUME ApprovalsIInv, NEW f \in Fetches, fetches[f].pc = "bound", ~Unbound(fetches[f]),
         NEW r \in Candidates(f)
  PROVE  /\ fetches[f] \in Fetch /\ Kind(fetches[f])
         /\ r \in approvals /\ r \in Row /\ RowOK(r) /\ r.status = "granted" /\ Live(r)
         /\ r.who = fetches[f].who /\ r.owner = fetches[f].owner /\ r.cred = fetches[f].cred
         /\ r.delegated = fetches[f].delegated
         /\ Once(r) <=> Once(fetches[f])
         /\ Once(r) => r.action = fetches[f].action
         /\ SpendOf(f, r) \in Spend
<1>1. fetches[f] \in Fetch /\ Kind(fetches[f])
  BY DEF ApprovalsIInv, Calls, Idle
<1>2. r \in approvals /\ r \in Row /\ RowOK(r) /\ r.status = "granted" /\ Live(r)
      /\ ActionKey(r) = ActionKey(fetches[f]) /\ r.delegated = fetches[f].delegated
  BY DEF Candidates, Matching, ApprovalsIInv, Rows
<1>3. /\ r.who = fetches[f].who /\ r.owner = fetches[f].owner /\ r.cred = fetches[f].cred
      /\ Once(r) <=> Once(fetches[f])
      /\ Once(r) => r.action = fetches[f].action
  BY <1>2, KeyNames
<1>4. (\E s \in spent : s.id = r.id) \in BOOLEAN
  OBVIOUS
<1>5. SpendOf(f, r) \in Spend
  BY <1>1, <1>2, <1>4 DEF SpendOf, Spend, Fetch, Row
<1> QED BY <1>1, <1>2, <1>3, <1>5

LEMMA SpendKeeps ==
  ASSUME ApprovalsIInv, NEW f \in Fetches, fetches[f].pc = "bound", ~Unbound(fetches[f]),
         NEW r \in Candidates(f),
         approvals' = SpendGrant(r), spent' = spent \cup {SpendOf(f, r)},
         UNCHANGED <<policy, used, changes, decided>>
  PROVE  Rows' /\ Histories'
<1> DEFINE x == SpendOf(f, r)
<1>0. Rows /\ Histories
  BY DEF ApprovalsIInv
<1>1. /\ r \in approvals /\ r \in Row /\ RowOK(r) /\ r.status = "granted"
      /\ Once(r) <=> Once(fetches[f])
      /\ Once(r) => r.action = fetches[f].action
      /\ r.delegated = fetches[f].delegated
      /\ r.who = fetches[f].who /\ r.owner = fetches[f].owner /\ r.cred = fetches[f].cred
      /\ x \in Spend
  BY SpendFinds
<1>2. /\ x.id = r.id /\ x.by = r.by /\ x.who = r.who /\ x.owner = r.owner /\ x.cred = r.cred
      /\ x.action = fetches[f].action /\ x.delegated = r.delegated
      /\ x.again <=> \E s \in spent : s.id = r.id
  BY <1>1 DEF SpendOf
<1>3. spent' = spent \cup {x}
  OBVIOUS
<1> HIDE DEF x
<1>4. Once(x) <=> Once(r)
  BY <1>2 DEF Once
<1>5. Rows'
  <2>1. approvals' \subseteq approvals /\ (Once(r) => r \notin approvals')
    BY DEF SpendGrant
  <2>2. UniqueAction'
    BY <1>0, <2>1 DEF Rows, UniqueAction, ActionKey, Once
  <2>3. ASSUME NEW t \in approvals' PROVE RowOK(t)'
    <3>1. t \in approvals /\ RowOK(t)
      BY <1>0, <2>1, <2>3 DEF Rows
    <3>2. ASSUME Once(t), NEW s \in spent' PROVE s.id # t.id
      <4>1. CASE s \in spent
        BY <3>1, <3>2, <4>1 DEF RowOK
      <4>2. CASE s = x
        <5>1. SUFFICES ASSUME t.id = r.id PROVE FALSE
          BY <1>2, <4>2
        <5>2. t = r
          BY <1>0, <1>1, <3>1, <5>1 DEF Rows
        <5> QED BY <2>1, <2>3, <3>2, <5>2
      <4> QED BY <1>3, <3>2, <4>1, <4>2
    <3> QED BY <3>1, <3>2 DEF RowOK, Kind, Once, ApprovedAs
  <2> QED BY <1>0, <2>1, <2>2, <2>3 DEF Rows
<1>6. Histories'
  <2>1. spent' \subseteq Spend /\ \A s \in spent' : s.id \in used'
    BY <1>0, <1>1, <1>2, <1>3 DEF Histories, RowOK
  <2>2. SpentOnce'
    <3>1. Once(x) => ~x.again
      BY <1>1, <1>2, <1>4 DEF RowOK
    <3> QED BY <1>0, <1>3, <3>1 DEF Histories, SpentAsDecided, SpentOnce, Once
  <2>3. SpendApproved'
    <3>1. PICK d \in decided : ApprovedAs(d, r)
      BY <1>1 DEF RowOK
    <3>2. /\ d.approve /\ d.id = x.id /\ d.by = x.by /\ d.who = x.who /\ d.owner = x.owner
          /\ d.cred = x.cred /\ (Once(x) => d.action = x.action)
      BY <1>1, <1>2, <1>4, <3>1 DEF ApprovedAs
    <3> QED BY <1>0, <1>3, <3>2 DEF Histories, SpentAsDecided, SpendApproved, Once
  <2>4. DelegatedByOwner'
    <3>1. x.delegated => x.by = x.owner /\ x.owner # x.who
      BY <1>1, <1>2 DEF RowOK
    <3> QED BY <1>0, <1>3, <3>1 DEF Histories, SpentAsDecided, DelegatedByOwner
  <2>5. OneDecision'
    BY <1>0 DEF Histories, SpentAsDecided, OneDecision
  <2> QED BY <1>0, <2>1, <2>2, <2>3, <2>4, <2>5 DEF Histories, SpentAsDecided
<1> QED BY <1>5, <1>6

LEMMA ConsumeKeeps ==
  ASSUME ApprovalsIInv, NEW f \in Fetches, Consume(f), UNCHANGED policy PROVE ApprovalsIInv'
<1> DEFINE k == fetches[f]
<1>1. World /\ Calls /\ Leashes /\ Rows /\ Histories /\ Buttons
  BY DEF ApprovalsIInv
<1>2. fetches[f] # Idle /\ fetches[f] \in Fetch /\ Kind(fetches[f])
  BY <1>1 DEF Consume, Idle, Calls
<1>3. World' /\ used \subseteq used' /\ UNCHANGED <<policy, used, changes, decided, clicks>>
  BY <1>1 DEF World, Consume, lifeVars, govVars
<1>4. ASSUME approvals' \subseteq approvals, UNCHANGED <<sessions, spent>>, Ask(f) \/ Return(f)
      PROVE  ApprovalsIInv'
  <2>1. Calls' /\ Leashes'
    BY <1>1, <1>2, <1>4, CallMoves, LeashesSame
  <2> QED BY <1>3, <1>4, <2>1, QuietStep DEF histVars
<1>5. ASSUME NEW r \in Candidates(f), ~Unbound(k), UseCurrent(k, k.issued), k.pc = "bound",
             approvals' = SpendGrant(r), spent' = spent \cup {SpendOf(f, r)},
             IF Bound(k) THEN TouchSession(k.who) ELSE UNCHANGED sessions,
             Return(f)
      PROVE  ApprovalsIInv'
  <2>1. Calls'
    BY <1>1, <1>2, <1>5, CallMoves
  <2>2. Leashes'
    <3>1. CASE Bound(k)
      <4>1. k.who \in Workers
        BY <1>2, <3>1 DEF Bound, Kind
      <4> QED BY <1>1, <1>5, <3>1, <4>1, TouchKeeps
    <3>2. CASE ~Bound(k)
      BY <1>1, <1>5, <3>2, LeashesSame
    <3> QED BY <3>1, <3>2
  <2>3. Rows' /\ Histories'
    BY <1>3, <1>5, SpendKeeps
  <2>4. approvals' \subseteq approvals
    BY <1>5 DEF SpendGrant
  <2>5. Buttons'
    BY <1>1, <1>3, <2>4, SameClicks DEF Buttons
  <2> QED BY <1>3, <2>1, <2>2, <2>3, <2>5 DEF ApprovalsIInv
<1>6. Candidates(f) \subseteq approvals
  BY DEF Candidates, Matching
<1>7. CASE \E r \in Candidates(f) :
             /\ approvals' = approvals \ {r}
             /\ Ask(f)
             /\ UNCHANGED <<sessions, spent>>
  BY <1>4, <1>7
<1> QED BY <1>4, <1>5, <1>7 DEF Consume

----------------------------------------------------------------------------
(* A request.                                                               *)

(* A fresh row is the only one with its id and the only one with its key.   *)
LEMMA FreshRow ==
  ASSUME ApprovalsIInv, NEW f \in Fetches, fetches[f].pc = "request",
         NEW id \in Ids \ used, NEW R,
         R = [ id |-> id, who |-> fetches[f].who, owner |-> fetches[f].owner,
               cred |-> fetches[f].cred, action |-> fetches[f].action,
               delegated |-> fetches[f].delegated, status |-> "pending",
               by |-> None, created |-> now, expires |-> now + PendingTTL, asked |-> changes ],
         approvals' = (approvals \ Matching(fetches[f])) \cup {R},
         used' = used \cup {id}, UNCHANGED <<policy, histVars, changes, clicks>>
  PROVE  Rows' /\ Histories' /\ Buttons'
<1> DEFINE k == fetches[f]
<1>1. World /\ Calls /\ Rows /\ Histories /\ Buttons
  BY DEF ApprovalsIInv
<1>2. k \in Fetch /\ Kind(k)
  BY <1>1 DEF Calls, Idle
<1>3. /\ R \in Row /\ Kind(R) /\ R.id = id /\ R.asked = changes /\ R.status = "pending"
      /\ R.delegated = k.delegated
  BY <1>1, <1>2, StampsInTime DEF Row, Fetch, Kind, World
<1>4. ActionKey(R) = ActionKey(k)
  BY SameKey
<1>5. \A t \in approvals \ Matching(k) : t \in Row /\ RowOK(t) /\ t.id # id /\ ActionKey(t) # ActionKey(k)
  <2> SUFFICES ASSUME NEW t \in approvals, t \notin Matching(k)
               PROVE  t \in Row /\ RowOK(t) /\ t.id # id /\ ActionKey(t) # ActionKey(k)
    OBVIOUS
  <2>1. t \in Row /\ RowOK(t)
    BY <1>1 DEF Rows
  <2>2. ActionKey(t) # ActionKey(k)
    <3> SUFFICES ASSUME ActionKey(t) = ActionKey(k) PROVE FALSE
      OBVIOUS
    <3>1. t.delegated \in BOOLEAN /\ k.delegated \in BOOLEAN /\ Kind(t)
      BY <1>2, <2>1 DEF Row, Fetch, RowOK
    <3>2. t.delegated = k.delegated
      BY <1>2, <3>1, KeySeparates
    <3> QED BY <3>2 DEF Matching
  <2> QED BY <2>1, <2>2 DEF RowOK
<1>6. UniqueAction'
  <2>1. \A r, t \in approvals' : ActionKey(r) = ActionKey(t) => r = t
    BY <1>1, <1>4, <1>5 DEF Rows, UniqueAction
  <2> QED BY <2>1 DEF UniqueAction, ActionKey, Once
<1>7. RowOK(R)'
  BY <1>1, <1>3 DEF RowOK, Kind, Histories, histVars
<1>8. \A t \in approvals \ Matching(k) : RowOK(t)'
  BY <1>5 DEF RowOK, Kind, Once, ApprovedAs, histVars
<1>9. Rows'
  <2>1. \A r, t \in approvals' : r.id = t.id => r = t
    BY <1>1, <1>3, <1>5 DEF Rows
  <2> QED BY <1>1, <1>3, <1>6, <1>7, <1>8, <2>1 DEF Rows
<1>10. Buttons'
  BY <1>1, <1>3, SameClicks DEF Buttons
<1> QED BY <1>1, <1>9, <1>10, SameHistory

LEMMA RequestKeeps ==
  ASSUME ApprovalsIInv, NEW f \in Fetches, Request(f), UNCHANGED policy PROVE ApprovalsIInv'
<1> DEFINE k == fetches[f]
           replaceable == {r \in Matching(k) : ~Live(r) \/ r.status = "denied"}
<1>1. World /\ Calls /\ Leashes
  BY DEF ApprovalsIInv
<1>2. fetches[f] # Idle /\ fetches[f].pc = "request"
  BY DEF Request, Idle
<1>3. Calls' /\ Leashes'
  BY <1>1, <1>2, CallMoves, LeashesSame DEF Request
<1>4. CASE UNCHANGED <<approvals, used>>
  <2>1. World'
    BY <1>1, <1>4 DEF World, Request, lifeVars, govVars
  <2> QED BY <1>3, <1>4, <2>1, QuietStep DEF Request, govVars
<1>5. ASSUME Matching(k) \subseteq replaceable, NEW id \in Ids \ used, used' = used \cup {id},
             approvals' = (approvals \ replaceable) \cup
               {[ id |-> id, who |-> k.who, owner |-> k.owner, cred |-> k.cred,
                  action |-> k.action, delegated |-> k.delegated, status |-> "pending",
                  by |-> None, created |-> now, expires |-> now + PendingTTL,
                  asked |-> changes ]}
      PROVE  ApprovalsIInv'
  <2>1. replaceable = Matching(k)
    BY <1>5
  <2>2. UNCHANGED <<policy, histVars, changes, clicks>>
    BY DEF Request, govVars
  <2>3. Rows' /\ Histories' /\ Buttons'
    BY <1>2, <1>5, <2>1, <2>2, FreshRow
  <2>4. World'
    BY <1>1, <1>5 DEF World, Request, lifeVars, govVars
  <2> QED BY <1>3, <2>3, <2>4 DEF ApprovalsIInv
<1> QED BY <1>4, <1>5 DEF Request

----------------------------------------------------------------------------
(* A click.                                                                 *)

LEMMA ClickButtonKeeps ==
  ASSUME ApprovalsIInv, NEW c \in Clicks, NEW u \in Users, NEW r \in approvals,
         NEW approve \in BOOLEAN, ClickButton(c, u, r, approve), UNCHANGED policy
  PROVE  ApprovalsIInv'
<1> DEFINE x == [ by |-> u, id |-> r.id, approve |-> approve, issued |-> now, bound |-> Bound(r),
                  cred |-> IF Unbound(r) /\ approve THEN cred[u] ELSE None ]
<1>1. World /\ Calls /\ Leashes /\ Rows /\ Histories /\ Buttons
  BY DEF ApprovalsIInv
<1>2. r \in Row /\ RowOK(r) /\ r.status = "pending"
  BY <1>1 DEF Rows, ClickButton, Pending
<1>3. (Unbound(r) /\ approve) => cred[u] \in Gens
  BY <1>1 DEF ClickButton, World, Owners
<1>4. x.cred # None <=> Unbound(r) /\ approve
  BY <1>3
<1>5. x \in Click
  <2>1. Bound(r) \in BOOLEAN
    BY <1>2 DEF Bound, Row
  <2> QED BY <1>1, <1>2, <1>3, <2>1, StampsInTime DEF Click, Row
<1>6. clicks' = [clicks EXCEPT ![c] = x]
  BY DEF ClickButton
<1>7. x.id = r.id /\ x.approve = approve
  OBVIOUS
<1> HIDE DEF x
<1>8. ClickOK(x)
  BY <1>1, <1>2, <1>4, <1>7 DEF ClickOK, RowOK, Rows
<1>9. World' /\ UNCHANGED <<approvals, used, sessions, fetches, histVars, changes>>
  BY <1>1 DEF World, ClickButton, lifeVars, govVars
<1>10. Buttons'
  <2>1. clicks' \in [Clicks -> Click \cup {NoClick}]
    BY <1>1, <1>5, <1>6 DEF Buttons
  <2>2. ASSUME NEW e \in Clicks, clicks'[e] # NoClick PROVE ClickOK(clicks[e])'
    <3>1. ClickOK(clicks'[e])
      BY <1>1, <1>6, <1>8, <2>2 DEF Buttons
    <3> QED BY <1>9, <3>1 DEF ClickOK, Unbound
  <2> QED BY <2>1, <2>2 DEF Buttons
<1>11. Rows' /\ Histories'
  BY <1>1, <1>9, FewerRows, SameHistory
<1> QED BY <1>1, <1>9, <1>10, <1>11, CallsSame, LeashesSame DEF ApprovalsIInv

----------------------------------------------------------------------------
(* A decision.                                                              *)

(* A decided row takes the place of the pending one and of every row it     *)
(* would share its key with.                                                *)
LEMMA DecidedRow ==
  ASSUME ApprovalsIInv, NEW r \in approvals, r.status = "pending",
         NEW b \in Row, b.id = r.id, b.asked = r.asked, b.delegated = r.delegated, Kind(b),
         b.status \in {"granted", "denied"},
         NEW d \in Decision, d.id = r.id,
         b.status = "granted" =>
           ApprovedAs(d, b) /\ (b.delegated => b.by = b.owner /\ b.owner # b.who),
         NEW gone, gone \subseteq approvals, r \in gone,
         \A t \in approvals \ gone : ActionKey(t) # ActionKey(b),
         approvals' = (approvals \ gone) \cup {b},
         decided' = decided \cup {d},
         UNCHANGED <<policy, used, changes, spent>>
  PROVE  Rows' /\ Histories'
<1>1. Rows /\ Histories
  BY DEF ApprovalsIInv
<1>2. r \in Row /\ RowOK(r)
  BY <1>1 DEF Rows
<1>3. \A t \in approvals \ gone : t \in Row /\ RowOK(t) /\ t.id # r.id
  BY <1>1 DEF Rows
<1>4. RowOK(b)'
  <2>1. Once(b) <=> Once(r)
    BY DEF Once
  <2>2. b.id \in used /\ b.asked = changes /\ (Once(b) => \A s \in spent : s.id # b.id)
    BY <1>2, <2>1 DEF RowOK
  <2>3. b.status = "granted" => \E e \in decided' : ApprovedAs(e, b)
    OBVIOUS
  <2> QED BY <2>2, <2>3 DEF RowOK, Kind, Once, ApprovedAs
<1>5. \A t \in approvals \ gone : RowOK(t)'
  BY <1>3 DEF RowOK, Kind, Once, ApprovedAs
<1>6. UniqueAction'
  <2>1. \A t, u \in approvals' : ActionKey(t) = ActionKey(u) => t = u
    BY <1>1 DEF Rows, UniqueAction
  <2> QED BY <2>1 DEF UniqueAction, ActionKey, Once
<1>7. \A t, u \in approvals' : t.id = u.id => t = u
  BY <1>1, <1>3 DEF Rows
<1>8. Rows'
  BY <1>3, <1>4, <1>5, <1>6, <1>7 DEF Rows
<1>9. \A e \in decided : e.id # d.id
  BY <1>2 DEF RowOK
<1>10. OneDecision'
  BY <1>1, <1>9 DEF Histories, SpentAsDecided, OneDecision
<1>11. SpentOnce' /\ SpendApproved' /\ DelegatedByOwner'
  BY <1>1 DEF Histories, SpentAsDecided, SpentOnce, SpendApproved, DelegatedByOwner, Once
<1>12. decided' \subseteq Decision /\ \A e \in decided' : e.id \in used'
  BY <1>1, <1>2 DEF Histories, RowOK
<1>13. Histories'
  BY <1>1, <1>10, <1>11, <1>12 DEF Histories, SpentAsDecided
<1> QED BY <1>8, <1>13

(* What a click that is still good finds.                                   *)
LEMMA ClickFinds ==
  ASSUME ApprovalsIInv, NEW c \in Clicks, clicks[c] # NoClick, NEW r \in Pending(clicks[c].id)
  PROVE  /\ r \in approvals /\ r \in Row /\ RowOK(r) /\ r.id = clicks[c].id /\ r.status = "pending"
         /\ clicks[c] \in Click
         /\ clicks[c].cred # None <=> Unbound(r) /\ clicks[c].approve
         /\ clicks[c].cred # None => clicks[c].cred \in Gens
BY DEF ApprovalsIInv, Buttons, ClickOK, Rows, Pending, Click

LEMMA ApproveKeeps ==
  ASSUME ApprovalsIInv, NEW c \in Clicks, clicks[c] # NoClick, NEW r \in Pending(clicks[c].id),
         Eligible(clicks[c], r), clicks[c].approve,
         approvals' = (approvals \ ({r} \cup Superseded(clicks[c], r))) \cup {Granted(clicks[c], r)},
         decided' = decided \cup {DecisionOf(clicks[c], BoundTo(clicks[c], r))},
         UNCHANGED <<policy, used, changes, spent>>
  PROVE  Rows' /\ Histories' /\ Granted(clicks[c], r).status = "granted"
<1> DEFINE k == clicks[c]
           a == BoundTo(k, r)
           b == Granted(k, r)
           d == DecisionOf(k, a)
           gone == {r} \cup Superseded(k, r)
<1>1. /\ r \in approvals /\ r \in Row /\ RowOK(r) /\ r.id = k.id /\ r.status = "pending"
      /\ k \in Click
      /\ k.cred # None <=> Unbound(r) /\ k.approve
      /\ k.cred # None => k.cred \in Gens
  BY ClickFinds
<1>2. World /\ Rows
  BY DEF ApprovalsIInv
<1>3. /\ a \in Row /\ a.id = r.id /\ a.asked = r.asked /\ a.delegated = r.delegated
      /\ a.who = r.who /\ a.action = r.action
      /\ k.cred # None => a.owner = k.by /\ a.cred = k.cred
      /\ k.cred = None => a = r
  BY <1>1 DEF BoundTo, Row, Click, Owners
<1> HIDE DEF a
<1>4. /\ b \in Row /\ b.id = r.id /\ b.asked = r.asked /\ b.delegated = r.delegated
      /\ b.who = r.who /\ b.action = r.action /\ b.owner = a.owner /\ b.cred = a.cred
      /\ b.status = "granted" /\ b.by = k.by
  <2>1. b = [a EXCEPT !.status = "granted", !.by = k.by, !.expires = now + GrantTTL]
    BY DEF Granted, a
  <2>2. now + GrantTTL \in Time
    BY <1>2, StampsInTime
  <2> HIDE DEF b
  <2> QED BY <1>1, <1>3, <2>1, <2>2 DEF Row, Click
<1> HIDE DEF b
<1>5. b.delegated => b.by = b.owner /\ b.owner # b.who
  <2>1. CASE k.cred # None
    BY <1>1, <1>3, <1>4, <2>1 DEF Eligible, MayDecide, Unbound, Bound
  <2>2. CASE k.cred = None
    BY <1>1, <1>3, <1>4, <2>2 DEF Eligible, MayDecide, Unbound, Bound
  <2> QED BY <2>1, <2>2
<1>6. Kind(b)
  <2>1. CASE k.cred # None
    BY <1>1, <1>3, <1>4, <2>1 DEF RowOK, Kind, Unbound, Click
  <2>2. CASE k.cred = None
    BY <1>1, <1>3, <1>4, <2>2 DEF RowOK, Kind
  <2> QED BY <2>1, <2>2
<1>7. d \in Decision /\ d.id = r.id /\ ApprovedAs(d, b)
  BY <1>1, <1>3, <1>4 DEF DecisionOf, Decision, ApprovedAs, Row, Click
<1> HIDE DEF d
<1>8. \A t \in approvals \ gone : ActionKey(t) # ActionKey(b)
  <2>1. CASE k.cred # None
    <3>1. ActionKey(b) = ActionKey(BoundTo(k, r))
      BY <1>3, <1>4, SameKey DEF a
    <3> QED BY <1>1, <1>2, <2>1, <3>1 DEF Superseded, Rows
  <2>2. CASE k.cred = None
    <3>1. ActionKey(b) = ActionKey(r)
      BY <1>3, <1>4, <2>2, SameKey
    <3> QED BY <1>1, <1>2, <3>1 DEF Rows, UniqueAction
  <2> QED BY <2>1, <2>2
<1>9. gone \subseteq approvals /\ r \in gone
  BY <1>1 DEF Superseded
<1>10. approvals' = (approvals \ gone) \cup {b} /\ decided' = decided \cup {d}
  BY DEF a, b, d
<1>11. b.status = "granted" =>
         ApprovedAs(d, b) /\ (b.delegated => b.by = b.owner /\ b.owner # b.who)
  BY <1>5, <1>7
<1> HIDE DEF gone
<1>12. Rows' /\ Histories'
  BY <1>1, <1>4, <1>6, <1>7, <1>8, <1>9, <1>10, <1>11, DecidedRow
<1> QED BY <1>4, <1>12 DEF b

LEMMA DenyKeeps ==
  ASSUME ApprovalsIInv, NEW c \in Clicks, clicks[c] # NoClick, NEW r \in Pending(clicks[c].id),
         approvals' = (approvals \ {r}) \cup
           {[r EXCEPT !.status = "denied", !.by = clicks[c].by, !.expires = now + PendingTTL]},
         decided' = decided \cup {DecisionOf(clicks[c], r)},
         UNCHANGED <<policy, used, changes, spent>>
  PROVE  /\ Rows' /\ Histories'
         /\ \A t \in approvals' : t.status = "pending" => t \in approvals
<1> DEFINE k == clicks[c]
           b == [r EXCEPT !.status = "denied", !.by = k.by, !.expires = now + PendingTTL]
           d == DecisionOf(k, r)
           gone == {r}
<1>1. /\ r \in approvals /\ r \in Row /\ RowOK(r) /\ r.id = k.id /\ r.status = "pending"
      /\ k \in Click
  BY ClickFinds
<1>2. World /\ Rows
  BY DEF ApprovalsIInv
<1>3. /\ b \in Row /\ b.id = r.id /\ b.asked = r.asked /\ b.delegated = r.delegated
      /\ b.who = r.who /\ b.action = r.action /\ b.owner = r.owner /\ b.cred = r.cred
      /\ b.status = "denied"
  <2>1. now + PendingTTL \in Time
    BY <1>2, StampsInTime
  <2> QED BY <1>1, <2>1 DEF Row, Click
<1> HIDE DEF b
<1>4. Kind(b)
  BY <1>1, <1>3 DEF RowOK, Kind
<1>5. d \in Decision /\ d.id = r.id
  BY <1>1 DEF DecisionOf, Decision, Row, Click
<1> HIDE DEF d
<1>6. \A t \in approvals \ gone : ActionKey(t) # ActionKey(b)
  <2>1. ActionKey(b) = ActionKey(r)
    BY <1>3, SameKey
  <2> QED BY <1>1, <1>2, <2>1 DEF Rows, UniqueAction
<1>7. gone \subseteq approvals /\ r \in gone
  BY <1>1
<1>8. approvals' = (approvals \ gone) \cup {b} /\ decided' = decided \cup {d}
  BY DEF b, d
<1> HIDE DEF gone
<1>9. /\ b.status \in {"granted", "denied"}
      /\ b.status = "granted" =>
           ApprovedAs(d, b) /\ (b.delegated => b.by = b.owner /\ b.owner # b.who)
  BY <1>3
<1>10. Rows' /\ Histories'
  BY <1>1, <1>3, <1>4, <1>5, <1>6, <1>7, <1>8, <1>9, DecidedRow
<1> QED BY <1>3, <1>8, <1>10

(* A click binds the session to the clicking member, or touches it.         *)
LEMMA BindKeeps ==
  ASSUME World, Leashes, NEW w \in Workers, SessionLive(w), NEW k \in Click, k.cred # None,
         sessions' = [sessions EXCEPT ![w] = Binding(k, sessions[w])]
  PROVE  Leashes'
<1> DEFINE s == Binding(k, sessions[w])
<1>1. sessions[w] \in Session
  BY DEF Leashes, SessionLive
<1>2. now \in Time /\ now + IdleTTL \in Time /\ now + IdleTTL <= now + MaxTTL
  BY StampsInTime DEF World
<1>3. s \in Session /\ SessionOK(s)
  BY <1>1, <1>2 DEF Binding, Session, SessionOK, Click
<1> HIDE DEF s
<1>4. sessions' = [sessions EXCEPT ![w] = s]
  BY DEF s
<1> QED BY <1>3, <1>4 DEF Leashes

LEMMA DecideKeeps ==
  ASSUME ApprovalsIInv, NEW c \in Clicks, Decide(c), UNCHANGED policy PROVE ApprovalsIInv'
<1> DEFINE k == clicks[c]
<1>1. World /\ Calls /\ Leashes /\ Rows /\ Histories /\ Buttons
  BY DEF ApprovalsIInv
<1>2. /\ UNCHANGED <<policy, used, changes, spent, fetches>>
      /\ clicks' = [clicks EXCEPT ![c] = NoClick]
      /\ k # NoClick
      /\ World' /\ Calls'
  BY <1>1, CallsSame DEF World, Decide, lifeVars, govVars
<1>3. ASSUME \A r \in approvals' : r.status = "pending" => r \in approvals PROVE Buttons'
  <2>1. /\ clicks' \in [Clicks -> Click \cup {NoClick}]
        /\ \A e \in Clicks : clicks'[e] = clicks[e] \/ clicks'[e] = NoClick
    BY <1>1, <1>2 DEF Buttons
  <2> QED BY <1>1, <1>2, <1>3, <2>1, SameClicks
<1>4. ASSUME approvals' \subseteq approvals, UNCHANGED <<sessions, decided>> PROVE ApprovalsIInv'
  <2>1. Rows' /\ Histories'
    BY <1>1, <1>2, <1>4, FewerRows, SameHistory DEF histVars
  <2> QED BY <1>1, <1>2, <1>3, <1>4, <2>1, LeashesSame DEF ApprovalsIInv
<1>5. ASSUME NEW r \in Pending(k.id), Valid(k, r), Eligible(k, r), k.approve,
             approvals' = (approvals \ ({r} \cup Superseded(k, r))) \cup {Granted(k, r)},
             decided' = decided \cup {DecisionOf(k, BoundTo(k, r))},
             IF k.cred # None
               THEN sessions' = [sessions EXCEPT ![r.who] = Binding(k, sessions[r.who])]
               ELSE IF Bound(r) THEN TouchSession(r.who) ELSE UNCHANGED sessions
      PROVE  ApprovalsIInv'
  <2>1. /\ RowOK(r) /\ r.delegated \in BOOLEAN /\ k \in Click
        /\ k.cred # None => Unbound(r)
    BY <1>2, ClickFinds DEF Row
  <2>2. Rows' /\ Histories' /\ Granted(k, r).status = "granted"
    BY <1>2, <1>5, ApproveKeeps
  <2>3. Buttons'
    BY <1>3, <1>5, <2>2
  <2>4. Leashes'
    <3>1. CASE k.cred # None
      <4>1. r.who \in Workers /\ SessionLive(r.who)
        BY <1>5, <2>1, <3>1 DEF Valid, UseCurrent, Unbound, Bound, RowOK, Kind
      <4> QED BY <1>1, <1>5, <2>1, <3>1, <4>1, BindKeeps
    <3>2. CASE k.cred = None /\ Bound(r)
      <4>1. r.who \in Workers
        BY <2>1, <3>2 DEF Bound, RowOK, Kind
      <4> QED BY <1>1, <1>5, <3>2, <4>1, TouchKeeps
    <3>3. CASE k.cred = None /\ ~Bound(r)
      BY <1>1, <1>5, <3>3, LeashesSame
    <3> QED BY <3>1, <3>2, <3>3
  <2> QED BY <1>2, <2>2, <2>3, <2>4 DEF ApprovalsIInv
<1>6. ASSUME NEW r \in Pending(k.id),
             approvals' = (approvals \ {r}) \cup
               {[r EXCEPT !.status = "denied", !.by = k.by, !.expires = now + PendingTTL]},
             decided' = decided \cup {DecisionOf(k, r)},
             UNCHANGED sessions
      PROVE  ApprovalsIInv'
  <2>1. /\ Rows' /\ Histories'
        /\ \A t \in approvals' : t.status = "pending" => t \in approvals
    BY <1>2, <1>6, DenyKeeps
  <2>2. Buttons'
    BY <1>3, <2>1
  <2> QED BY <1>1, <1>2, <1>6, <2>1, <2>2, LeashesSame DEF ApprovalsIInv
<1>7. CASE UNCHANGED <<approvals, sessions, decided>>
  BY <1>4, <1>7
<1>8. ASSUME NEW r \in Pending(k.id), approvals' = approvals \ {r}, UNCHANGED <<sessions, decided>>
      PROVE  ApprovalsIInv'
  BY <1>4, <1>8
<1> QED BY <1>5, <1>6, <1>7, <1>8 DEF Decide

----------------------------------------------------------------------------
(* Every step.                                                              *)

LEMMA InitHolds == Init => ApprovalsIInv
<1> SUFFICES ASSUME Init PROVE ApprovalsIInv
  OBVIOUS
<1> USE DEF Init
<1>1. World
  BY DEF World, Time
<1>2. Rows /\ Histories
  BY DEF Rows, UniqueAction, Histories, SpentAsDecided, SpentOnce, SpendApproved, OneDecision,
         DelegatedByOwner
<1>3. Calls /\ Buttons /\ Leashes
  BY DEF Calls, Buttons, Leashes
<1> QED BY <1>1, <1>2, <1>3 DEF ApprovalsIInv

LEMMA StutterKeeps == ASSUME ApprovalsIInv, UNCHANGED vars PROVE ApprovalsIInv'
<1> USE DEF vars, lifeVars, govVars
<1>1. World'
  BY DEF ApprovalsIInv, World
<1> QED BY <1>1, CallsSame, LeashesSame, QuietStep DEF ApprovalsIInv

LEMMA NextKeeps == ASSUME ApprovalsIInv, Next PROVE ApprovalsIInv'
BY TickKeeps, ConnectKeeps, RemoveKeeps, MarkOffboardedKeeps, RevokeForUserKeeps, GovernanceKeeps,
   StartKeeps, ConsumeKeeps, RequestKeeps, ClickButtonKeeps, DecideKeeps, DiscardKeeps, SweepKeeps
   DEF Next, Step

(* The rows, the calls and the clicks agree with each other and with the    *)
(* history of decisions in every reachable state.                           *)
THEOREM ApprovalsInvariant == Spec => []ApprovalsIInv
<1>1. ApprovalsIInv /\ [Next]_vars => ApprovalsIInv'
  BY NextKeeps, StutterKeeps
<1> QED BY InitHolds, <1>1, PTL DEF Spec

(* A grant is spent once, as it was decided, and a worker's by the member   *)
(* whose credential it is (consumeIdOn, decideAudited, approvalDecider).    *)
THEOREM ApprovalSpentAsDecided == Spec => []SpentAsDecided
<1>1. ApprovalsIInv => SpentAsDecided
  BY DEF ApprovalsIInv, Histories
<1> QED BY <1>1, ApprovalsInvariant, PTL

(* The table has its types and its unique index is never violated           *)
(* (requestAudited, decideAudited).                                         *)
THEOREM ApprovalTableHolds == Spec => []ApprovalsTable
<1>1. ApprovalsIInv => ApprovalsTable
  BY DEF ApprovalsIInv, World, Rows, Histories, Calls, Buttons, Leashes, SessionOK, ApprovalsTable,
         TypeOK
<1> QED BY <1>1, ApprovalsInvariant, PTL

----------------------------------------------------------------------------
(* What a spend may never do.                                               *)

(* The one step that spends.                                                *)
LEMMA SpendOnly ==
  ASSUME [Next]_vars, NEW s \in NewlySpent
  PROVE  \E f \in Fetches : \E r \in Candidates(f) :
           /\ s = SpendOf(f, r)
           /\ fetches[f].pc = "bound" /\ ~Unbound(fetches[f])
           /\ ~GrantOffboarded(f, r)
           /\ UseCurrent(fetches[f], fetches[f].issued)
<1>1. s \in spent' /\ s \notin spent
  BY DEF NewlySpent
<1>2. PICK f \in Fetches : Consume(f)
  BY <1>1 DEF vars, Next, Step, histVars, Tick, Connect, MarkOffboarded, RevokeForUser, Remove,
     SetTool, ActAs, ShareCredential, Start, Request, ClickButton, Decide, Discard, Sweep
<1> QED BY <1>1, <1>2 DEF Consume

(* The row it spends.                                                       *)
LEMMA SpentRow ==
  ASSUME ApprovalsIInv, NEW f \in Fetches, NEW r \in Candidates(f), NEW t \in GrantOf(SpendOf(f, r))
  PROVE  t = r
<1>1. t \in approvals /\ r \in approvals /\ t.id = r.id
  BY DEF GrantOf, SpendOf, Candidates, Matching
<1> QED BY <1>1 DEF ApprovalsIInv, Rows

(* No spend of what was asked for before an offboarding (consumeAudited).   *)
THEOREM ApprovalNotAcrossOffboard == Spec => NoSpendAcrossOffboard
<1> DEFINE A == \A s \in NewlySpent : \A r \in GrantOf(s) :
                  tomb[s.who] < r.created /\ (s.delegated => tomb[s.owner] < r.created)
<1>1. ASSUME ApprovalsIInv, [Next]_vars PROVE A
  <2> SUFFICES ASSUME NEW s \in NewlySpent, NEW t \in GrantOf(s)
               PROVE  tomb[s.who] < t.created /\ (s.delegated => tomb[s.owner] < t.created)
    OBVIOUS
  <2>1. PICK f \in Fetches : \E r \in Candidates(f) :
          /\ s = SpendOf(f, r)
          /\ fetches[f].pc = "bound" /\ ~Unbound(fetches[f])
          /\ ~GrantOffboarded(f, r)
    BY <1>1, SpendOnly
  <2>2. PICK r \in Candidates(f) :
          /\ s = SpendOf(f, r)
          /\ fetches[f].pc = "bound" /\ ~Unbound(fetches[f])
          /\ ~GrantOffboarded(f, r)
    BY <2>1
  <2>3. t = r /\ r \in Row /\ fetches[f] \in Fetch /\ Kind(fetches[f])
    BY <1>1, <2>2, SpendFinds, SpentRow
  <2>4. /\ s.who = fetches[f].who /\ s.owner = fetches[f].owner
        /\ s.delegated = fetches[f].delegated
    BY <2>2 DEF SpendOf
  <2>5. tomb \in [Users -> Time] /\ Time \subseteq Nat /\ r.created \in Nat /\ s.who \in Users
    BY <1>1, <2>3, <2>4, StampsInTime DEF ApprovalsIInv, World, Row, Fetch
  <2>6. tomb[s.who] < r.created
    <3>1. tomb[s.who] \in Nat /\ ~(tomb[s.who] >= r.created)
      BY <2>2, <2>4, <2>5 DEF GrantOffboarded, Off
    <3> QED BY <2>5, <3>1
  <2>7. ASSUME s.delegated PROVE tomb[s.owner] < r.created
    <3>1. s.owner \in Users /\ Bound(fetches[f])
      BY <2>2, <2>3, <2>4, <2>7 DEF Kind, Bound, Unbound
    <3>2. tomb[s.owner] \in Nat /\ ~(tomb[s.owner] >= r.created)
      BY <2>2, <2>4, <2>5, <3>1 DEF GrantOffboarded, Off
    <3> QED BY <2>5, <3>2
  <2> QED BY <2>3, <2>6, <2>7
<1> QED BY <1>1, ApprovalsInvariant, PTL DEF Spec, NoSpendAcrossOffboard

(* No spend under a governance other than the one it was asked under        *)
(* (purgeChannelInteractionState).                                          *)
THEOREM ApprovalNoABA == Spec => NoABA
<1> DEFINE A == \A s \in NewlySpent : \A r \in GrantOf(s) : r.asked = changes
<1>1. ASSUME ApprovalsIInv PROVE A
  BY <1>1 DEF ApprovalsIInv, Rows, RowOK, GrantOf
<1> QED BY <1>1, ApprovalsInvariant, PTL DEF Spec, NoABA

(* No spend by a worker MaxTTL after the member's click, however active the *)
(* session is (touchWorkerSession, credentialUseStateFenced).               *)
THEOREM ApprovalWorkerLeashed == Spec => WorkerLeashed
<1> DEFINE A == \A s \in NewlySpent : s.delegated => now < sessions[s.who].bound + MaxTTL
<1>1. ASSUME ApprovalsIInv, [Next]_vars PROVE A
  <2> SUFFICES ASSUME NEW s \in NewlySpent, s.delegated
               PROVE  now < sessions[s.who].bound + MaxTTL
    OBVIOUS
  <2>1. PICK f \in Fetches : \E r \in Candidates(f) :
          /\ s = SpendOf(f, r)
          /\ fetches[f].pc = "bound" /\ ~Unbound(fetches[f])
          /\ UseCurrent(fetches[f], fetches[f].issued)
    BY <1>1, SpendOnly
  <2>2. PICK r \in Candidates(f) :
          /\ s = SpendOf(f, r)
          /\ fetches[f].pc = "bound" /\ ~Unbound(fetches[f])
          /\ UseCurrent(fetches[f], fetches[f].issued)
    BY <2>1
  <2>3. fetches[f] \in Fetch /\ Kind(fetches[f])
    BY <1>1, <2>2, SpendFinds
  <2>4. s.who = fetches[f].who /\ fetches[f].delegated
    BY <2>2 DEF SpendOf
  <2>5. /\ s.who \in Workers /\ SessionLive(s.who)
        /\ sessions[s.who].member = fetches[f].owner /\ fetches[f].owner \in Users
    BY <2>2, <2>3, <2>4 DEF UseCurrent, Kind, Bound, Unbound
  <2>6. sessions[s.who] \in Session /\ SessionOK(sessions[s.who])
    BY <1>1, <2>5 DEF ApprovalsIInv, Leashes, SessionLive
  <2>7. /\ now < sessions[s.who].expires
        /\ sessions[s.who].expires <= sessions[s.who].bound + MaxTTL
        /\ {now, sessions[s.who].expires, sessions[s.who].bound} \subseteq Nat
    BY <1>1, <2>5, <2>6, StampsInTime DEF SessionLive, SessionOK, Session, ApprovalsIInv
  <2> QED BY <2>7
<1> QED BY <1>1, ApprovalsInvariant, PTL DEF Spec, WorkerLeashed

=============================================================================
