--------------------------- MODULE ChannelsProofs ---------------------------
(***************************************************************************)
(* What TLAPS proves of Channels, for any number of members, providers and *)
(* requests.  The argument needs three facts the promises do not name:     *)
(* no change is newer than the tombstone or the break-glass marker of the  *)
(* channel, whichever is the newer one, nothing is issued before the clock *)
(* starts, and a request holds a claim only after its commit.              *)
(***************************************************************************)
EXTENDS Channels, TLAPS

USE ChannelsAssumption

(* A change of the tuple is fenced: every commit leaves a tombstone, and a *)
(* break-glass delete that leaves none is behind its command's marker.     *)
Fenced(p) == lastChange[p] <= changed[p] \/ lastChange[p] <= revoked[p]

(* The governance of the channel, its fences and the history of changes.   *)
Governed ==
  /\ clock \in Time
  /\ identity \in [Providers -> {"person", "channel"}]
  /\ cred \in [Providers -> Cred \cup {NoCred}]
  /\ tool \in [Providers -> BOOLEAN]
  /\ changed \in [Providers -> Time]
  /\ revoked \in [Providers -> Time]
  /\ offboarded \in [Members -> Time]
  /\ lastChange \in [Providers -> Time]
  /\ \A p \in Providers : Fenced(p)
  /\ NoDormantCredential
  /\ SetupNotOvertaken

(* One ticket per member and provider; nothing is issued at time 0, which  *)
(* stands for an absent tombstone.                                         *)
Ticketed ==
  /\ clock >= 1
  /\ tickets \subseteq Ticket
  /\ \A t, u \in tickets : t.member = u.member /\ t.provider = u.provider => t = u
  /\ \A t \in tickets : t.at >= 1

RequestOK(r) ==
  /\ r.pc \notin {"idle", "done"} => r.at >= 1
  /\ r.claimed # NoCred => r.pc \in {"upstream", "audit", "done"} /\ r.claimed.at < r.at
  /\ r.pc # "done" => r.outcome = "none"

Requested == req \in [Requests -> Request] /\ \A o \in Requests : RequestOK(req[o])

ChannelsIInv == Governed /\ Ticketed /\ Requested

----------------------------------------------------------------------------
(* Requests.                                                                *)

LEMMA NoRequestOK ==
  ASSUME NEW o \in Requests
  PROVE  NoRequest(o) \in Request /\ RequestOK(NoRequest(o))
<1>1. (CHOOSE m \in Members : TRUE) \in Members /\ (CHOOSE p \in Providers : TRUE) \in Providers
  OBVIOUS
<1>2. 0 \in Time
  BY DEF Time
<1> QED BY <1>1, <1>2 DEF NoRequest, Request, RequestOK, Kinds

Outcomes == {"refused", "stale", "failed", "stored", "set", "unchanged", "not-shared", "missing"}

(* A request that is answered is as good as new. *)
LEMMA DoneKeeps ==
  ASSUME Requested, NEW o \in Requests, NEW outcome \in Outcomes, Done(o, outcome)
  PROVE  Requested'
<1> DEFINE x == [NoRequest(o) EXCEPT !.pc = "done", !.outcome = outcome]
<1>1. x \in Request /\ RequestOK(x)
  BY NoRequestOK DEF Request, RequestOK, NoRequest, Outcomes
<1>2. req' = [req EXCEPT ![o] = x]
  BY DEF Done
<1> HIDE DEF x
<1> QED BY <1>1, <1>2 DEF Requested

(* A request goes on. *)
LEMMA MoveKeeps ==
  ASSUME Requested, NEW o \in Requests, NEW x \in Request, RequestOK(x),
         req' = [req EXCEPT ![o] = x]
  PROVE  Requested'
BY DEF Requested

----------------------------------------------------------------------------
(* Commits.                                                                 *)

(* The clock of a purge is newer than every other fence of the channel.     *)
LEMMA PurgeKeeps ==
  ASSUME Governed, Ticketed, NEW p \in Providers, Purge(p), Changed(p),
         UNCHANGED <<clock, revoked, offboarded>>,
         tool' \in [Providers -> BOOLEAN],
         identity' \in [Providers -> {"person", "channel"}],
         cred' \in [Providers -> Cred \cup {NoCred}],
         NoDormantCredential', SetupNotOvertaken'
  PROVE  Governed' /\ Ticketed'
<1> USE DEF Purge, Changed, WithoutTickets
<1>1. /\ changed' \in [Providers -> Time] /\ lastChange' \in [Providers -> Time]
      /\ \A q \in Providers : Fenced(q)'
  BY DEF Governed, Fenced, Time
<1>2. Ticketed'
  BY DEF Ticketed
<1> QED BY <1>1, <1>2 DEF Governed

LEMMA NoPurgeKeeps ==
  ASSUME Governed, Ticketed, UNCHANGED <<clock, govVars, fenceVars, lastChange>>, tickets' \subseteq tickets
  PROVE  Governed' /\ Ticketed'
<1> USE DEF govVars, fenceVars
<1>1. Governed'
  BY DEF Governed, Fenced, NoDormantCredential, SetupNotOvertaken
<1>2. Ticketed'
  BY DEF Ticketed
<1> QED BY <1>1, <1>2

LEMMA ConfigureKeeps ==
  ASSUME ChannelsIInv, NEW o \in Requests, Configure(o) PROVE ChannelsIInv'
<1> DEFINE m == req[o].member
           p == req[o].provider
<1>1. Governed /\ Ticketed /\ Requested
  BY DEF ChannelsIInv
<1>2. req[o] \in Request /\ RequestOK(req[o]) /\ m \in Members /\ p \in Providers /\ req[o].pc = "commit"
  BY <1>1 DEF Requested, Request, Configure, Committing
<1>3. CASE /\ tickets' = Unconsumed(o)
           /\ Done(o, "stale")
           /\ UNCHANGED <<identity, cred, changed, lastChange>>
  <2>1. tickets' \subseteq tickets /\ UNCHANGED <<clock, govVars, fenceVars, lastChange>>
    BY <1>3 DEF Unconsumed, Configure, govVars, fenceVars
  <2> QED BY <1>1, <1>3, <2>1, NoPurgeKeeps, DoneKeeps DEF ChannelsIInv, Outcomes
<1>4. ASSUME NEW i \in Issuances(o), Current(m, p, i),
             cred' = [cred EXCEPT ![p] =
               [by |-> o, at |-> clock, issued |-> i, since |-> lastChange[p]]],
             identity' = [identity EXCEPT ![p] = "channel"],
             Purge(p), Changed(p), Done(o, "stored"), UNCHANGED <<clock, tool, revoked, offboarded>>
      PROVE  ChannelsIInv'
  <2>1. i \in Time /\ i >= 1
    <3>1. CASE req[o].kind = "direct"
      BY <1>2, <1>4, <3>1 DEF Issuances, Request, RequestOK
    <3>2. CASE req[o].kind # "direct"
      BY <1>1, <1>4, <3>2 DEF Issuances, Ticketed, Ticket
    <3> QED BY <3>1, <3>2
  <2> DEFINE x == [by |-> o, at |-> clock, issued |-> i, since |-> lastChange[p]]
  <2>2. lastChange[p] \in Time /\ lastChange[p] < i
    BY <1>1, <1>2, <1>4, <2>1 DEF Governed, Fenced, Current, Blocks, Time
  <2>3. x \in Cred /\ x # NoCred /\ x.issued > x.since
    BY <1>1, <2>1, <2>2 DEF Governed, Cred, Time
  <2>4. cred' = [cred EXCEPT ![p] = x]
    BY <1>4
  <2> HIDE DEF x
  <2>5. cred' \in [Providers -> Cred \cup {NoCred}] /\ SetupNotOvertaken'
    BY <1>1, <2>3, <2>4 DEF Governed, SetupNotOvertaken
  <2>6. identity' \in [Providers -> {"person", "channel"}] /\ NoDormantCredential'
    BY <1>1, <1>4, <2>4 DEF Governed, NoDormantCredential
  <2>7. tool' \in [Providers -> BOOLEAN]
    BY <1>1, <1>4 DEF Governed
  <2>8. Requested'
    BY <1>1, <1>4, DoneKeeps DEF Outcomes
  <2> QED BY <1>1, <1>2, <1>4, <2>5, <2>6, <2>7, <2>8, PurgeKeeps DEF ChannelsIInv
<1> QED BY <1>2, <1>3, <1>4 DEF Configure

LEMMA SetIdentityKeeps ==
  ASSUME ChannelsIInv, NEW o \in Requests, SetIdentity(o) PROVE ChannelsIInv'
<1> DEFINE p == req[o].provider
           who == req[o].kind
<1>1. Governed /\ Ticketed /\ Requested
  BY DEF ChannelsIInv
<1>2. req[o] \in Request /\ p \in Providers /\ who \in {"person", "channel"}
  BY <1>1 DEF Requested, Request, SetIdentity, Committing
<1>3. UNCHANGED <<clock, tool, revoked, offboarded>> /\ Requested'
  BY <1>1, DoneKeeps DEF SetIdentity, Outcomes
<1>4. CASE NoPurge /\ UNCHANGED <<identity, cred, lastChange>>
  BY <1>1, <1>3, <1>4, NoPurgeKeeps DEF NoPurge, govVars, fenceVars, ChannelsIInv
<1>5. CASE /\ cred' = [cred EXCEPT ![p] = CredAs(p, who)]
           /\ identity' = [identity EXCEPT ![p] = who]
           /\ Purge(p) /\ Changed(p)
  <2>1. CredAs(p, who) \in {cred[p], NoCred} /\ (who = "person" => CredAs(p, who) = NoCred)
    BY DEF CredAs
  <2>2. /\ cred' \in [Providers -> Cred \cup {NoCred}]
        /\ \A q \in Providers : cred'[q] # NoCred => cred'[q] = cred[q]
    BY <1>1, <1>5, <2>1 DEF Governed
  <2>3. SetupNotOvertaken'
    BY <1>1, <2>2 DEF Governed, SetupNotOvertaken
  <2>4. identity' \in [Providers -> {"person", "channel"}] /\ NoDormantCredential'
    BY <1>1, <1>2, <1>5, <2>1 DEF Governed, NoDormantCredential
  <2>5. tool' \in [Providers -> BOOLEAN]
    BY <1>1, <1>3 DEF Governed
  <2> QED BY <1>1, <1>2, <1>3, <1>5, <2>2, <2>3, <2>4, <2>5, PurgeKeeps DEF ChannelsIInv
<1>6. CASE /\ cred' = [cred EXCEPT ![p] = CredAs(p, who)]
           /\ identity' = [identity EXCEPT ![p] = who]
           /\ identity[p] = who /\ CredAs(p, who) = cred[p]
           /\ NoPurge /\ UNCHANGED lastChange
  <2>1. cred' = cred /\ identity' = identity
    BY <1>1, <1>6 DEF Governed
  <2> QED BY <1>4, <1>6, <2>1
<1> QED BY <1>4, <1>5, <1>6 DEF SetIdentity

LEMMA SetToolKeeps ==
  ASSUME ChannelsIInv, NEW o \in Requests, SetTool(o) PROVE ChannelsIInv'
<1> DEFINE p == req[o].provider
           on == req[o].kind = "enable"
<1>1. Governed /\ Ticketed /\ Requested
  BY DEF ChannelsIInv
<1>2. req[o] \in Request /\ p \in Providers
  BY <1>1 DEF Requested, Request
<1>3. UNCHANGED <<clock, identity, cred, revoked, offboarded>> /\ Requested'
  BY <1>1, DoneKeeps DEF SetTool, Outcomes
<1>4. CASE NoPurge /\ UNCHANGED <<tool, lastChange>>
  BY <1>1, <1>3, <1>4, NoPurgeKeeps DEF NoPurge, govVars, fenceVars, ChannelsIInv
<1>5. CASE tool' = [tool EXCEPT ![p] = on] /\ Purge(p) /\ Changed(p)
  <2>1. tool' \in [Providers -> BOOLEAN]
    BY <1>1, <1>2, <1>5 DEF Governed
  <2>2. NoDormantCredential' /\ SetupNotOvertaken'
    BY <1>1, <1>3 DEF Governed, NoDormantCredential, SetupNotOvertaken
  <2>3. cred' \in [Providers -> Cred \cup {NoCred}] /\ identity' \in [Providers -> {"person", "channel"}]
    BY <1>1, <1>3 DEF Governed
  <2> QED BY <1>1, <1>2, <1>3, <1>5, <2>1, <2>2, <2>3, PurgeKeeps DEF ChannelsIInv
<1> QED BY <1>4, <1>5 DEF SetTool

LEMMA UnshareKeeps ==
  ASSUME ChannelsIInv, NEW o \in Requests, Unshare(o) PROVE ChannelsIInv'
<1> DEFINE p == req[o].provider
<1>1. Governed /\ Ticketed /\ Requested
  BY DEF ChannelsIInv
<1>2. req[o] \in Request /\ RequestOK(req[o]) /\ p \in Providers /\ req[o].pc = "commit"
  BY <1>1 DEF Requested, Request, Unshare, Committing
<1>3. UNCHANGED <<clock, tool, revoked, offboarded>>
  BY DEF Unshare
<1>4. CASE NoPurge /\ UNCHANGED <<identity, cred, lastChange>> /\ (Done(o, "stale") \/ Done(o, "not-shared"))
  BY <1>1, <1>3, <1>4, NoPurgeKeeps, DoneKeeps DEF NoPurge, govVars, fenceVars, ChannelsIInv, Outcomes
<1>5. ASSUME ReturnToPerson(p), cred' = [cred EXCEPT ![p] = NoCred] PROVE Governed' /\ Ticketed'
  <2>1. /\ cred' \in [Providers -> Cred \cup {NoCred}]
        /\ \A q \in Providers : cred'[q] # NoCred => q # p /\ cred'[q] = cred[q]
    BY <1>1, <1>5 DEF Governed
  <2>2. SetupNotOvertaken'
    BY <1>1, <2>1 DEF Governed, SetupNotOvertaken
  <2>3. identity' \in [Providers -> {"person", "channel"}] /\ NoDormantCredential'
    BY <1>1, <1>5, <2>1 DEF Governed, NoDormantCredential, ReturnToPerson
  <2>4. tool' \in [Providers -> BOOLEAN]
    BY <1>1, <1>3 DEF Governed
  <2> QED BY <1>1, <1>2, <1>3, <1>5, <2>1, <2>2, <2>3, <2>4, PurgeKeeps DEF ReturnToPerson
<1>6. CASE cred[p] = NoCred /\ ReturnToPerson(p) /\ Done(o, "missing") /\ UNCHANGED cred
  <2>1. cred' = [cred EXCEPT ![p] = NoCred]
    BY <1>1, <1>6 DEF Governed
  <2> QED BY <1>1, <1>5, <1>6, <2>1, DoneKeeps DEF ChannelsIInv, Outcomes
<1>7. CASE /\ cred[p] # NoCred /\ ~TooNew(cred[p], req[o].at)
           /\ cred' = [cred EXCEPT ![p] = NoCred]
           /\ ReturnToPerson(p)
           /\ req' = [req EXCEPT ![o].pc = "upstream", ![o].claimed = cred[p]]
  <2> DEFINE x == [req[o] EXCEPT !.pc = "upstream", !.claimed = cred[p]]
  <2>1. cred[p] \in Cred /\ cred[p].at < req[o].at
    BY <1>1, <1>2, <1>7 DEF Governed, TooNew, Cred, Request, Time
  <2>2. x \in Request /\ RequestOK(x)
    BY <1>2, <2>1 DEF Request, RequestOK
  <2>3. req' = [req EXCEPT ![o] = x]
    BY <1>1, <1>7 DEF Requested
  <2> HIDE DEF x
  <2>4. Requested'
    BY <1>1, <2>2, <2>3 DEF Requested
  <2> QED BY <1>5, <1>7, <2>4 DEF ChannelsIInv
<1> QED BY <1>4, <1>6, <1>7 DEF Unshare

----------------------------------------------------------------------------
(* Before and after the commits.                                            *)

(* Steps of a request that only move it on. *)
LEMMA RequestMoves ==
  ASSUME ChannelsIInv, NEW o \in Requests,
         \/ \E k \in Kinds, m \in Members, p \in Providers : Receive(o, k, m, p)
         \/ OpenForm(o) \/ Submit(o) \/ AuthorizeMember(o) \/ CommitFails(o)
         \/ RevokeUpstream(o) \/ AuditRemoval(o)
  PROVE  ChannelsIInv'
<1>1. Governed /\ Ticketed /\ Requested /\ req[o] \in Request /\ RequestOK(req[o])
  BY DEF ChannelsIInv, Requested
<1>2. UNCHANGED <<clock, govVars, fenceVars, tickets, lastChange>>
  BY DEF Receive, OpenForm, Submit, AuthorizeMember, CommitFails, RevokeUpstream, AuditRemoval
<1>3. Governed' /\ Ticketed'
  BY <1>1, <1>2, NoPurgeKeeps
<1>4. ASSUME NEW k \in Kinds, NEW m \in Members, NEW p \in Providers, Receive(o, k, m, p)
      PROVE  Requested'
  <2> DEFINE x == [req[o] EXCEPT !.pc = IF k = "setup" THEN "issue" ELSE "authorize",
                                 !.kind = k, !.member = m, !.provider = p, !.at = clock]
  <2>1. clock \in Time /\ clock >= 1 /\ req[o].pc = "idle"
    BY <1>1, <1>4 DEF Governed, Ticketed, Receive
  <2>2. x \in Request /\ RequestOK(x)
    BY <1>1, <2>1 DEF Request, RequestOK
  <2>3. req' = [req EXCEPT ![o] = x]
    BY <1>4 DEF Receive
  <2> HIDE DEF x
  <2> QED BY <1>1, <2>2, <2>3, MoveKeeps DEF Requested
<1>5. ASSUME NEW pc \in {"submit", "authorize", "commit"}, req' = [req EXCEPT ![o].pc = pc],
             req[o].pc \in {"open", "submit", "authorize"}
      PROVE  Requested'
  <2> DEFINE x == [req[o] EXCEPT !.pc = pc]
  <2>1. x \in Request /\ RequestOK(x)
    BY <1>1, <1>5 DEF Request, RequestOK
  <2>2. req' = [req EXCEPT ![o] = x]
    BY <1>5
  <2> HIDE DEF x
  <2> QED BY <1>1, <2>1, <2>2 DEF Requested
<1>6. CASE OpenForm(o) \/ Submit(o) \/ AuthorizeMember(o) \/ CommitFails(o)
  <2>1. CASE \E outcome \in Outcomes : Done(o, outcome)
    BY <1>1, <1>3, <2>1, DoneKeeps DEF ChannelsIInv
  <2>2. CASE /\ \E pc \in {"submit", "authorize", "commit"} : req' = [req EXCEPT ![o].pc = pc]
             /\ req[o].pc \in {"open", "submit", "authorize"}
    BY <1>3, <1>5, <2>2 DEF ChannelsIInv
  <2> QED BY <1>6, <2>1, <2>2 DEF OpenForm, Submit, AuthorizeMember, CommitFails, Outcomes
<1>7. CASE RevokeUpstream(o)
  <2> DEFINE x == [req[o] EXCEPT !.pc = "audit"]
  <2>1. x \in Request /\ RequestOK(x)
    BY <1>1, <1>7 DEF Request, RequestOK, RevokeUpstream
  <2>2. req' = [req EXCEPT ![o] = x]
    BY <1>1, <1>7 DEF Requested, RevokeUpstream
  <2> HIDE DEF x
  <2>3. req' \in [Requests -> Request] /\ req'[o] = x /\ \A q \in Requests \ {o} : req'[q] = req[q]
    BY <1>1, <2>1, <2>2 DEF Requested
  <2> QED BY <1>1, <1>3, <2>1, <2>3 DEF Requested, ChannelsIInv
<1>8. CASE AuditRemoval(o)
  <2>1. PICK outcome \in {"removed", "unaudited"} :
          req' = [req EXCEPT ![o].pc = "done", ![o].outcome = outcome]
    BY <1>8 DEF AuditRemoval
  <2> DEFINE x == [req[o] EXCEPT !.pc = "done", !.outcome = outcome]
  <2>2. x \in Request /\ RequestOK(x)
    BY <1>1, <1>8 DEF Request, RequestOK, AuditRemoval
  <2>3. req' = [req EXCEPT ![o] = x]
    BY <1>1, <2>1 DEF Requested
  <2> HIDE DEF x
  <2>4. req' \in [Requests -> Request] /\ req'[o] = x /\ \A q \in Requests \ {o} : req'[q] = req[q]
    BY <1>1, <2>2, <2>3 DEF Requested
  <2> QED BY <1>1, <1>3, <2>2, <2>4 DEF Requested, ChannelsIInv
<1> QED BY <1>3, <1>4, <1>6, <1>7, <1>8 DEF ChannelsIInv

(* A new ticket takes the place of the member's old one. *)
LEMMA IssueTicketKeeps ==
  ASSUME ChannelsIInv, NEW o \in Requests, IssueTicket(o) PROVE ChannelsIInv'
<1>1. Governed /\ Ticketed /\ Requested /\ req[o] \in Request /\ RequestOK(req[o])
  BY DEF ChannelsIInv, Requested
<1>2. UNCHANGED <<clock, govVars, fenceVars, lastChange>> /\ req[o].pc = "issue"
  BY DEF IssueTicket
<1>3. Governed'
  BY <1>1, <1>2 DEF Governed, Fenced, NoDormantCredential, SetupNotOvertaken, govVars, fenceVars
<1>4. ASSUME NEW id \in Requests, req' = [req EXCEPT ![o].pc = "open", ![o].ticket = id]
      PROVE  Requested'
  <2> DEFINE x == [req[o] EXCEPT !.pc = "open", !.ticket = id]
  <2>1. x \in Request /\ RequestOK(x)
    BY <1>1, <1>2 DEF Request, RequestOK
  <2>2. req' = [req EXCEPT ![o] = x]
    BY <1>1, <1>4 DEF Requested
  <2> HIDE DEF x
  <2> QED BY <1>1, <2>1, <2>2 DEF Requested
<1>5. CASE Done(o, "stale") /\ UNCHANGED tickets
  BY <1>1, <1>2, <1>3, <1>5, DoneKeeps DEF ChannelsIInv, Ticketed, Outcomes
<1>6. CASE (\E t \in tickets : req' = [req EXCEPT ![o].pc = "open", ![o].ticket = t.id]) /\ UNCHANGED tickets
  <2>1. \A t \in tickets : t.id \in Requests
    BY <1>1 DEF Ticketed, Ticket
  <2> QED BY <1>1, <1>2, <1>3, <1>4, <1>6, <2>1 DEF ChannelsIInv, Ticketed
<1>7. CASE /\ req' = [req EXCEPT ![o].pc = "open", ![o].ticket = o]
           /\ tickets' = (tickets \ Superseded(req[o].member, req[o].provider)) \cup
                {[id |-> o, member |-> req[o].member, provider |-> req[o].provider, at |-> req[o].at]}
  <2> DEFINE new == [id |-> o, member |-> req[o].member, provider |-> req[o].provider, at |-> req[o].at]
  <2>1. new \in Ticket /\ new.at >= 1 /\ new.member = req[o].member /\ new.provider = req[o].provider
    BY <1>1, <1>2 DEF Ticket, Request, RequestOK
  <2>2. \A t \in tickets' : t = new \/
          (t \in tickets /\ ~(t.member = new.member /\ t.provider = new.provider))
    BY <1>7 DEF Superseded, TicketsOf
  <2> HIDE DEF new
  <2>3. Ticketed'
    BY <1>1, <1>2, <2>1, <2>2 DEF Ticketed
  <2> QED BY <1>3, <1>4, <1>7, <2>3 DEF ChannelsIInv
<1>8. \A t \in TicketsOf(req[o].member, req[o].provider) : t \in tickets
  BY DEF TicketsOf
<1> QED BY <1>5, <1>6, <1>7, <1>8 DEF IssueTicket

(* The clock, the tombstones and the deletes from outside. *)
LEMMA OthersKeep ==
  ASSUME ChannelsIInv,
         \/ Tick
         \/ \E m \in Members : MarkOffboarded(m) \/ PurgeMember(m)
         \/ \E p \in Providers : \/ MarkRevoked(p) \/ PurgePending(p)
                                 \/ BreakGlassDelete(p) \/ ExpireRow(p)
  PROVE  ChannelsIInv'
<1>1. Governed /\ Ticketed /\ Requested
  BY DEF ChannelsIInv
<1>2. Requested'
  BY <1>1 DEF Requested, Tick, MarkOffboarded, PurgeMember, MarkRevoked, PurgePending,
     BreakGlassDelete, ExpireRow
<1> USE DEF govVars, fenceVars
<1>3. CASE Tick
  <2>1. clock \in Nat /\ clock' \in Time /\ clock' >= 1
    BY <1>1, <1>3 DEF Tick, Governed, Ticketed, Time
  <2>2. Ticketed'
    BY <1>1, <1>3, <2>1 DEF Tick, Ticketed
  <2>3. Governed'
    BY <1>1, <1>3, <2>1 DEF Tick, Governed, Fenced, NoDormantCredential, SetupNotOvertaken
  <2> QED BY <1>2, <2>2, <2>3 DEF ChannelsIInv
<1>4. CASE \E m \in Members : MarkOffboarded(m)
  BY <1>1, <1>2, <1>4
  DEF MarkOffboarded, Governed, Fenced, Ticketed, NoDormantCredential, SetupNotOvertaken, ChannelsIInv
<1>5. ASSUME NEW p \in Providers, MarkRevoked(p) PROVE Governed' /\ Ticketed'
  <2>1. Ticketed'
    BY <1>1, <1>5 DEF MarkRevoked, Ticketed
  <2>2. /\ revoked' \in [Providers -> Time]
        /\ \A q \in Providers : revoked[q] <= revoked'[q]
    BY <1>1, <1>5 DEF MarkRevoked, Governed, Time
  <2>3. \A q \in Providers : Fenced(q)'
    BY <1>1, <1>5, <2>2 DEF MarkRevoked, Governed, Fenced, Time
  <2> QED BY <1>1, <1>5, <2>1, <2>2, <2>3 DEF MarkRevoked, Governed, NoDormantCredential, SetupNotOvertaken
<1>6. CASE (\E m \in Members : PurgeMember(m)) \/ (\E p \in Providers : PurgePending(p))
  <2>1. tickets' \subseteq tickets /\ UNCHANGED <<clock, govVars, fenceVars, lastChange>>
    BY <1>6 DEF PurgeMember, PurgePending, WithoutTickets
  <2> QED BY <1>1, <1>2, <2>1, NoPurgeKeeps DEF ChannelsIInv
<1>7. ASSUME NEW p \in Providers, cred' = [cred EXCEPT ![p] = NoCred],
             UNCHANGED <<clock, identity, tool, revoked, offboarded>>
      PROVE  /\ cred' \in [Providers -> Cred \cup {NoCred}]
             /\ SetupNotOvertaken' /\ NoDormantCredential'
             /\ tool' \in [Providers -> BOOLEAN] /\ identity' \in [Providers -> {"person", "channel"}]
  <2>1. /\ cred' \in [Providers -> Cred \cup {NoCred}]
        /\ \A q \in Providers : cred'[q] # NoCred => q # p /\ cred'[q] = cred[q]
    BY <1>1, <1>7 DEF Governed
  <2> QED BY <1>1, <1>7, <2>1 DEF Governed, SetupNotOvertaken, NoDormantCredential
<1>8. ASSUME NEW p \in Providers, ExpireRow(p) \/ (BreakGlassDelete(p) /\ Purge(p) /\ Changed(p))
      PROVE  Governed' /\ Ticketed'
  <2>1. /\ cred' = [cred EXCEPT ![p] = NoCred]
        /\ UNCHANGED <<clock, identity, tool, revoked, offboarded>>
        /\ Purge(p) /\ Changed(p)
    BY <1>8 DEF ExpireRow, BreakGlassDelete
  <2> QED BY <1>1, <1>7, <2>1, PurgeKeeps
<1>9. ASSUME NEW p \in Providers, BreakGlassDelete(p), NoPurge,
             lastChange' = [lastChange EXCEPT ![p] = MarkedAt(p)]
      PROVE  Governed' /\ Ticketed'
  <2>1. cred' = [cred EXCEPT ![p] = NoCred] /\ UNCHANGED <<clock, identity, tool, revoked, offboarded>>
    BY <1>9 DEF BreakGlassDelete
  <2>2. MarkedAt(p) \in {revoked[p], lastChange[p]}
    BY DEF MarkedAt
  <2>3. lastChange' \in [Providers -> Time] /\ \A q \in Providers : Fenced(q)'
    BY <1>1, <1>9, <2>1, <2>2 DEF Governed, Fenced, NoPurge, Time
  <2>4. Ticketed'
    BY <1>1, <1>9, <2>1 DEF Ticketed, NoPurge
  <2>5. /\ cred' \in [Providers -> Cred \cup {NoCred}]
        /\ SetupNotOvertaken' /\ NoDormantCredential'
        /\ tool' \in [Providers -> BOOLEAN] /\ identity' \in [Providers -> {"person", "channel"}]
    BY <1>7, <2>1
  <2> QED BY <1>1, <1>9, <2>1, <2>3, <2>4, <2>5 DEF Governed, NoPurge
<1>10. CASE \E p \in Providers : BreakGlassDelete(p)
  BY <1>2, <1>8, <1>9, <1>10 DEF BreakGlassDelete, ChannelsIInv
<1> QED BY <1>2, <1>3, <1>4, <1>5, <1>6, <1>8, <1>10 DEF ChannelsIInv

(* The invariant holds in every behaviour. *)
THEOREM ChannelsInvariant == ChannelsSpec => []ChannelsIInv
<1>1. ChannelsInit => ChannelsIInv
  <2> SUFFICES ASSUME ChannelsInit PROVE ChannelsIInv
    OBVIOUS
  <2> USE DEF ChannelsInit
  <2>1. 0 \in Time /\ 1 \in Time
    BY DEF Time
  <2>2. Governed
    BY <2>1 DEF Governed, Fenced, NoDormantCredential, SetupNotOvertaken
  <2>3. Ticketed
    BY DEF Ticketed
  <2>4. Requested
    BY NoRequestOK DEF Requested
  <2> QED BY <2>2, <2>3, <2>4 DEF ChannelsIInv
<1>2. ChannelsIInv /\ [ChannelsNext]_channelVars => ChannelsIInv'
  <2> SUFFICES ASSUME ChannelsIInv, [ChannelsNext]_channelVars PROVE ChannelsIInv'
    OBVIOUS
  <2>1. CASE UNCHANGED channelVars
    BY <2>1 DEF channelVars, govVars, fenceVars, ChannelsIInv, Governed, Fenced, Ticketed, Requested,
                NoDormantCredential, SetupNotOvertaken
  <2>2. CASE ChannelsNext
    BY <2>2, RequestMoves, IssueTicketKeeps, ConfigureKeeps, SetIdentityKeeps, SetToolKeeps,
       UnshareKeeps, OthersKeep DEF ChannelsNext
  <2> QED BY <2>1, <2>2
<1> QED BY <1>1, <1>2, PTL DEF ChannelsSpec

(* setChannelCredentialIdentity and disconnectChannelShared: a channel whose *)
(* members act as themselves holds no credential, and a member has one setup *)
(* ticket per provider.                                                      *)
THEOREM ChannelIdentityHolds == ChannelsSpec => []IdentityHolds
<1>1. ChannelsIInv => IdentityHolds
  BY DEF ChannelsIInv, Governed, Ticketed, Requested, IdentityHolds, ChannelsTypeOK
<1> QED BY ChannelsInvariant, <1>1, PTL

(* configureChannelCredential: the credential in place was asked for after   *)
(* the last commit that changed credential, identity or tool, and after the  *)
(* marker of a break-glass delete that could not clean up behind itself.     *)
THEOREM ChannelSetupNotOvertaken == ChannelsSpec => []SetupNotOvertaken
<1>1. ChannelsIInv => SetupNotOvertaken
  BY DEF ChannelsIInv, Governed
<1> QED BY ChannelsInvariant, <1>1, PTL

(* disconnectChannelShared: a delayed disconnect removes no credential that  *)
(* was set up after it was asked for.                                        *)
THEOREM ChannelDisconnectSpares == ChannelsSpec => []DelayedDisconnectSpares
<1>1. ChannelsIInv => DelayedDisconnectSpares
  BY DEF ChannelsIInv, Requested, RequestOK, DelayedDisconnectSpares
<1> QED BY ChannelsInvariant, <1>1, PTL

=============================================================================
