------------------------------- MODULE Calls -------------------------------
(***************************************************************************)
(* The life of a credential-use request in one replica of the HTTP broker: *)
(* admission, the gates, the approval, the credential read, the provider   *)
(* call with its refresh and replay, and the relayed response              *)
(* (adapters/http/broker.ts: the request handler, resolveTarget,           *)
(* handleFetch, handleMcp, handleBackchannelRequest; core/injector.ts:     *)
(* ConnectionHandle).  One owner, one provider; governance, reconnects,    *)
(* human decisions, the provider, the client and the deadline interleave   *)
(* with every await of every request.                                      *)
(***************************************************************************)
EXTENDS Admission, Budget

CONSTANTS
  Loads,       \* the mixes of requests: what each may ask, and whether the
               \* stored generation was already granted the action
  TheProvider, \* the provider every request names
  MaxGen,      \* bound: the credential generations ever stored
  MaxFlips,    \* bound: how often governance changes
  BodyCap,     \* the ceiling of a relayed body, in chunks
  Sizes        \* the bodies an upstream may send, in chunks

Routes == {"fetch", "mcp", "authorization"}
Methods == {"GET", "PUT", "POST"}

ASSUME CallsAssumption ==
  /\ TheProvider \in Providers
  /\ TheProvider \in Keys
  /\ MaxGen \in Nat \ {0} /\ MaxFlips \in Nat /\ BodyCap \in Nat
  /\ Sizes \subseteq Nat
  /\ Capacity \in [Keys -> Nat] /\ Refill \in [Keys -> Nat] /\ Cost \in Nat
  /\ \A l \in Loads : l.asks \in [Work -> SUBSET [route : Routes, method : Methods]]

VARIABLES
  live,       \* the stored generation of the credential, 0 when there is none
  stored,     \* how many generations were ever stored
  governed,   \* whether policy, tools, identity and actor admit the use
  flips,      \* how often `governed` changed
  approval,   \* per generation: the approval of the one exact action
  load,       \* the mix of requests of this behaviour
  call        \* the requests

environmentVars == <<live, stored, governed, flips, approval, load>>
callVars == <<admissionVars, level, environmentVars, call>>

Gens == 1..MaxGen

(* Where a request is: the await it is in, or the step it takes next. *)
Places == {"idle", "verify", "authorize", "pin", "admit", "gate", "early", "budget", "consume",
           "ask", "read", "token", "late", "dispatch", "wire", "refresh", "book",
           "guard", "relay", "done"}

Outcomes == {"open", "locked_down", "overloaded", "unauthorized", "method", "denied",
             "not_connected", "aborted", "blocked", "changed", "limited",
             "approval_required", "recorded", "provider_full", "failed", "timed_out", "answered"}

(* What a provider may answer, 0 before it did. *)
Answers == {0, 200, 401}

Call ==
  [ at : Places,
    route : Routes, method : Methods,
    gen : 0..MaxGen,          \* the generation the handle is pinned to
    token : 0..MaxGen,        \* the generation whose secret was read
    paid : 0..MaxGen,         \* the generation the spent grant was for
    charged : BOOLEAN,        \* the rate budget was charged
    sends : 0..2,             \* how often the provider was called
    status : Answers,         \* the last answer of the provider
    sawAuthority : BOOLEAN,   \* history: authority held since the token was read
    body : Nat, relayed : Nat,
    signal : {"none", "disconnect", "deadline"},
    handlerDone : BOOLEAN,
    response : {"open", "finished", "closed"},
    outcome : Outcomes ]

Idle ==
  [at |-> "idle", route |-> "fetch", method |-> "GET", gen |-> 0, token |-> 0, paid |-> 0,
   charged |-> FALSE, sends |-> 0, status |-> 0, sawAuthority |-> FALSE, body |-> 0,
   relayed |-> 0, signal |-> "none", handlerDone |-> FALSE, response |-> "open",
   outcome |-> "open"]

CallsInit ==
  /\ AdmissionInit
  /\ BudgetInit
  /\ live = 1 /\ stored = 1
  /\ governed = TRUE /\ flips = 0
  /\ load \in Loads
  /\ approval = [g \in Gens |-> IF g = 1 /\ load.granted THEN "granted" ELSE "none"]
  /\ call = [c \in Work |-> Idle]

IsWrite(m) == m \notin {"GET", "HEAD"}

(* Mutant: every 401 is replayed once refreshed. *)
AnyMethod(m) == TRUE

(* IDEMPOTENT_METHODS, among the methods modelled. *)
Replayable(m) == m \in {"GET", "PUT"}

(* The provider declares no approval.methods: every write needs a human. *)
ApprovalNeeded(m) == IsWrite(m)

----------------------------------------------------------------------------
(* The ends of a request.                                                   *)

Settled(cl) == cl.response # "open"

(* Mutant: either is over. *)
EitherOver(cl) == cl.handlerDone \/ Settled(cl)

(* The handler and the response are both over. *)
Over(cl) == cl.handlerDone /\ Settled(cl)

(* Nothing of a request outlives it but what its client received. *)
Forgotten(cl) ==
  [Idle EXCEPT !.at = "done", !.handlerDone = TRUE, !.response = cl.response,
               !.body = cl.body, !.relayed = cl.relayed]

(* Handler and response report their end; the second gives the lease back.  *)
Report(c, cl) ==
  /\ call' = [call EXCEPT ![c] = IF cl.handlerDone /\ Settled(cl) THEN Forgotten(cl) ELSE cl]
  /\ IF Over(cl) /\ lease[c] = "live"
     THEN global' = global - 1 /\ lease' = [lease EXCEPT ![c] = "released"]
     ELSE UNCHANGED <<global, lease>>

(* The finally blocks of the handlers: the provider slot is given back and  *)
(* the handler marked done.  A response that is over gives the lease back   *)
(* in the same turn.                                                        *)
Conclude(c, cl) ==
  LET holdsSlot == slot[c][TheProvider] = "live" IN
    /\ Report(c, [cl EXCEPT !.at = "done", !.handlerDone = TRUE])
    /\ perProvider' = IF holdsSlot THEN [perProvider EXCEPT ![TheProvider] = @ - 1]
                      ELSE perProvider
    /\ slot' = IF holdsSlot THEN [slot EXCEPT ![c][TheProvider] = "released"] ELSE slot
    /\ UNCHANGED opts

(* What a thrown error is answered with: a client that is gone gets nothing *)
(* and a deadline that fired wins over the error of the work it cut.        *)
Thrown(cl, error) ==
  CASE cl.signal = "disconnect" -> "aborted"
    [] cl.signal = "deadline" -> "timed_out"
    [] OTHER -> error

Fail(c, cl, error) ==
  Conclude(c, [cl EXCEPT !.outcome = Thrown(cl, error), !.body = 0])

Go(c, cl, place) ==
  /\ call' = [call EXCEPT ![c] = [cl EXCEPT !.at = place]]
  /\ UNCHANGED admissionVars

At(c, place) == call[c].at = place

----------------------------------------------------------------------------
(* The broker: admission, identity and the resolution of the target.        *)

(* A locked-down deployment and a full process answer before any lease. *)
Refuse(c, cl, outcome) ==
  /\ call' = [call EXCEPT ![c] =
       [cl EXCEPT !.at = "done", !.handlerDone = TRUE, !.outcome = outcome]]
  /\ UNCHANGED admissionVars

Arrive(c, r) ==
  LET cl == [Idle EXCEPT !.route = r.route, !.method = r.method] IN
    /\ At(c, "idle")
    /\ \/ opts.lockdown /\ Refuse(c, cl, "locked_down")
       \/ ~opts.lockdown /\ GlobalFull /\ Refuse(c, cl, "overloaded")
       \/ /\ ~opts.lockdown
          /\ Enter(c)
          /\ call' = [call EXCEPT ![c] = [cl EXCEPT !.at = "verify"]]
    /\ UNCHANGED <<level, environmentVars>>

(* Without the write opt-in a broker is read-only. *)
Permitted(cl) == opts.writes \/ ~IsWrite(cl.method)

(* The perimeter, the request body and the method, then the assertion and   *)
(* its single use.                                                          *)
Verify(c) ==
  LET cl == call[c] IN
    /\ At(c, "verify")
    /\ \/ cl.signal # "none" /\ Fail(c, cl, "aborted")
       \/ ~Permitted(cl) /\ Fail(c, cl, "method")
       \/ Permitted(cl) /\ Fail(c, cl, "unauthorized")
       \/ Permitted(cl) /\ Go(c, cl, "authorize")
    /\ UNCHANGED <<level, environmentVars>>

(* The actor, the policy and the tools. *)
Authorize(c) ==
  /\ At(c, "authorize")
  /\ IF governed THEN Go(c, call[c], "pin") ELSE Fail(c, call[c], "denied")
  /\ UNCHANGED <<level, environmentVars>>

(* The owner, and the generation the handle is pinned to. *)
Pin(c) ==
  /\ At(c, "pin")
  /\ IF live = 0 THEN Fail(c, call[c], "not_connected")
     ELSE Go(c, [call[c] EXCEPT !.gen = live], "admit")
  /\ UNCHANGED <<level, environmentVars>>

(* The target is resolved: a client that left meanwhile is noticed, an MCP  *)
(* call to another path refused, and the call admitted to its provider.     *)
Admit(c) ==
  LET cl == call[c] IN
    /\ At(c, "admit")
    /\ \/ cl.route # "authorization" /\ cl.signal # "none" /\ Fail(c, cl, "aborted")
       \/ cl.route = "authorization" /\ Go(c, cl, "gate")
       \/ cl.signal = "none" /\ cl.route = "mcp" /\ Fail(c, cl, "blocked")
       \/ /\ cl.signal = "none" /\ cl.route # "authorization"
          /\ \/ ProviderFull(TheProvider) /\ Fail(c, cl, "provider_full")
             \/ /\ EnterProvider(c, TheProvider)
                /\ call' = [call EXCEPT ![c].at = "gate"]
    /\ UNCHANGED <<level, environmentVars>>

----------------------------------------------------------------------------
(* The injector: every gate, in order.                                      *)

(* Host, port, scheme, path, method and the provider's own validator; a     *)
(* backchannel request for an action that needs no approval ends here.      *)
EgressGate(c) ==
  LET cl == call[c] IN
    /\ At(c, "gate")
    /\ \/ Fail(c, cl, "blocked")
       \/ cl.route = "authorization" /\ ~ApprovalNeeded(cl.method) /\ Fail(c, cl, "method")
       \/ (cl.route # "authorization" \/ ApprovalNeeded(cl.method)) /\ Go(c, cl, "early")
    /\ UNCHANGED <<level, environmentVars>>

(* The complete use binding, re-resolved under the lifecycle locks. *)
UseStillValid(cl) == governed /\ live = cl.gen

(* Mutant: the check before the gates is taken for good. *)
EarlyVerdictHolds(cl) == TRUE

(* The same, for what the late check decides. *)
LateVerdict(cl) == UseStillValid(cl)

CheckEarly(c) ==
  LET cl == call[c] IN
    /\ At(c, "early")
    /\ IF UseStillValid(cl) THEN Go(c, cl, "budget") ELSE Fail(c, cl, "changed")
    /\ UNCHANGED <<level, environmentVars>>

(* Mutant: a relayed call is not asked for its approval. *)
AfterBudgetOfFetch(cl) ==
  IF cl.route = "authorization" THEN "ask"
  ELSE IF ApprovalNeeded(cl.method) /\ cl.route = "fetch" THEN "consume" ELSE "read"

(* Where a call that was charged goes: to the decision it needs, or on. *)
AfterBudget(cl) ==
  IF cl.route = "authorization" THEN "ask"
  ELSE IF ApprovalNeeded(cl.method) THEN "consume" ELSE "read"

TakeRateBudget(c) ==
  LET cl == call[c] IN
    /\ At(c, "budget")
    /\ \/ ~Affordable(TheProvider) /\ Fail(c, cl, "limited") /\ UNCHANGED level
       \/ /\ Spend(TheProvider)
          /\ Go(c, [cl EXCEPT !.charged = TRUE], AfterBudget(cl))
    /\ UNCHANGED environmentVars

(* The grants a call may spend: those of the very generation it is bound to. *)
Spendable(cl) == {g \in {cl.gen} : approval[g] = "granted"}

(* consumeAudited: the binding is valid and a grant of it is spent, in one  *)
(* transaction with its audit row; without one the call asks.               *)
ConsumeGrant(c) ==
  LET cl == call[c] IN
    /\ At(c, "consume")
    /\ \/ ~UseStillValid(cl) /\ Fail(c, cl, "changed") /\ UNCHANGED approval
       \/ UseStillValid(cl) /\ Spendable(cl) = {} /\ Go(c, cl, "ask") /\ UNCHANGED approval
       \/ \E g \in Spendable(cl) :
            /\ UseStillValid(cl)
            /\ approval' = [approval EXCEPT ![g] = "none"]
            /\ Go(c, [cl EXCEPT !.paid = g], "read")
    /\ UNCHANGED <<level, live, stored, governed, flips, load>>

(* requestAudited: the pending approval is recorded, or reused.  A fetch is *)
(* then answered approval_required, a backchannel request with its row.     *)
AskApproval(c) ==
  LET cl == call[c] IN
    /\ At(c, "ask")
    /\ IF UseStillValid(cl)
       THEN /\ approval' = [approval EXCEPT ![cl.gen] = IF @ = "none" THEN "pending" ELSE @]
            /\ Fail(c, cl, IF cl.route = "authorization" THEN "recorded" ELSE "approval_required")
       ELSE UNCHANGED approval /\ Fail(c, cl, "changed")
    /\ UNCHANGED <<level, live, stored, governed, flips, load>>

(* The row a read finds: the exact generation the handle is bound to. *)
ExactRow(cl) == IF live = cl.gen THEN live ELSE 0

(* The read of the secret; a reconnect is not a missing connection. *)
ReadCredential(c) ==
  LET cl == call[c] IN
    /\ At(c, "read")
    /\ IF ExactRow(cl) = 0
       THEN Fail(c, cl, IF live = 0 THEN "not_connected" ELSE "changed")
       ELSE Go(c, [cl EXCEPT !.token = ExactRow(cl)], "token")
    /\ UNCHANGED <<level, environmentVars>>

(* The token of the row, refreshed when it is about to expire, or resolved  *)
(* from its external reference.  The deadline cuts both.                    *)
ObtainToken(c) ==
  LET cl == call[c] IN
    /\ At(c, "token")
    /\ \/ Fail(c, cl, "failed")
       \/ /\ cl.signal = "none"
          /\ Go(c, [cl EXCEPT !.sawAuthority = UseStillValid(cl)], "late")
    /\ UNCHANGED <<level, environmentVars>>

(* The recheck at the egress boundary: a step of its own before the send. *)
CheckLate(c) ==
  LET cl == call[c] IN
    /\ At(c, "late")
    /\ IF LateVerdict(cl) THEN Go(c, cl, "dispatch") ELSE Fail(c, cl, "changed")
    /\ UNCHANGED <<level, environmentVars>>

(* fetch(): an aborted signal rejects before anything is sent. *)
Dispatch(c) ==
  LET cl == call[c] IN
    /\ At(c, "dispatch")
    /\ IF cl.signal # "none" THEN Fail(c, cl, "failed")
       ELSE Go(c, [cl EXCEPT !.sends = @ + 1], "wire")
    /\ UNCHANGED <<level, environmentVars>>

(* Mutant: so is every later one. *)
AfterEvery401(cl, status) == IF status = 401 THEN "refresh" ELSE "book"

(* A first 401 is worth a refresh. *)
AfterAnswer(cl, status) == IF status = 401 /\ cl.sends = 1 THEN "refresh" ELSE "book"

(* The provider answers, or the network fails. *)
ProviderAnswers(c, status) ==
  LET cl == call[c] IN
    /\ At(c, "wire")
    /\ cl.signal = "none"
    /\ Go(c, [cl EXCEPT !.status = status], AfterAnswer(cl, status))
    /\ UNCHANGED <<level, environmentVars>>

NetworkFails(c) ==
  /\ At(c, "wire")
  /\ Fail(c, call[c], "failed")
  /\ UNCHANGED <<level, environmentVars>>

(* Mutant: the replay is charged like a call of its own. *)
ReplayCharged == "budget"

(* The replay runs send() again, from its recheck. *)
ReplayFrom == "late"

(* The refresh after a 401: a token replays an idempotent call once, no     *)
(* token returns the 401 as it is, an error abandons it.                    *)
RefreshAfter401(c) ==
  LET cl == call[c] IN
    /\ At(c, "refresh")
    /\ \/ Fail(c, cl, "failed")
       \/ cl.signal = "none" /\ Go(c, cl, "book")
       \/ /\ cl.signal = "none" /\ Replayable(cl.method)
          /\ Go(c, [cl EXCEPT !.sawAuthority = UseStillValid(cl)], ReplayFrom)
    /\ UNCHANGED <<level, environmentVars>>

(* touch() and the audit row, best effort: never a reason to fail. *)
Book(c, size) ==
  /\ At(c, "book")
  /\ Go(c, [call[c] EXCEPT !.body = size], "guard")
  /\ UNCHANGED <<level, environmentVars>>

(* Media type and size, before the caller sees a byte: /v1/fetch is         *)
(* answered in one piece or not at all, /v1/mcp starts its relay.           *)
GuardResponse(c) ==
  LET cl == call[c] IN
    /\ At(c, "guard")
    /\ \/ Fail(c, cl, "blocked")
       \/ cl.signal # "none" /\ Fail(c, cl, "failed")
       \/ /\ cl.signal = "none" /\ cl.route = "fetch" /\ cl.body <= BodyCap
          /\ Conclude(c, [cl EXCEPT !.relayed = cl.body, !.outcome = "answered"])
       \/ cl.signal = "none" /\ cl.route = "mcp" /\ Go(c, cl, "relay")
    /\ UNCHANGED <<level, environmentVars>>

----------------------------------------------------------------------------
(* The streamed relay of /v1/mcp.                                           *)

(* Whether the next chunk passes the counting transform. *)
UnderCap(cl) == cl.relayed + 1 <= BodyCap

RelayChunk(c) ==
  LET cl == call[c] IN
    /\ At(c, "relay") /\ cl.signal = "none"
    /\ cl.relayed < cl.body /\ UnderCap(cl)
    /\ Go(c, [cl EXCEPT !.relayed = @ + 1], "relay")
    /\ UNCHANGED <<level, environmentVars>>

(* Mutant: a cut stream ends like a complete one. *)
CutCleanly == "finished"

(* What a stream that was cut looks like to the client. *)
Cut == "closed"

(* The byte ceiling, an abort or a failing upstream destroys the socket:    *)
(* the headers are long sent.                                               *)
RelayFails(c) ==
  LET cl == call[c] IN
    /\ At(c, "relay")
    /\ Conclude(c, [cl EXCEPT !.response = IF @ = "open" THEN Cut ELSE @,
                              !.signal = IF @ = "none" THEN "disconnect" ELSE @,
                              !.outcome = "aborted"])
    /\ UNCHANGED <<level, environmentVars>>

RelayEnds(c) ==
  LET cl == call[c] IN
    /\ At(c, "relay") /\ cl.signal = "none"
    /\ cl.relayed = cl.body
    /\ Conclude(c, [cl EXCEPT !.outcome = "answered"])
    /\ UNCHANGED <<level, environmentVars>>

----------------------------------------------------------------------------
(* The response, the client and the deadline.                               *)

(* The client reads the last byte of a response that was written. *)
Finish(c) ==
  /\ call[c].handlerDone /\ call[c].response = "open" /\ lease[c] = "live"
  /\ Report(c, [call[c] EXCEPT !.response = "finished"])
  /\ UNCHANGED <<opts, perProvider, slot, level, environmentVars>>

(* The socket closes before that: the client leaves, the server times it    *)
(* out, or the handler destroyed it.                                        *)
Close(c) ==
  /\ call[c].at # "idle" /\ call[c].response = "open" /\ lease[c] = "live"
  /\ Report(c, [call[c] EXCEPT !.response = "closed",
                               !.signal = IF @ = "none" THEN "disconnect" ELSE @])
  /\ UNCHANGED <<opts, perProvider, slot, level, environmentVars>>

(* Mutant: armed for the provider call only. *)
ArmedOnWire(cl) == cl.at = "wire"

(* The deadline is armed from the admission to the provider to the last     *)
(* byte of the body.                                                        *)
Armed(cl) ==
  /\ cl.route # "authorization"
  /\ cl.at \in {"gate", "early", "budget", "consume", "ask", "read", "token", "late", "dispatch",
                "wire", "refresh", "book", "guard", "relay"}

Expire(c) ==
  /\ Armed(call[c]) /\ call[c].signal = "none"
  /\ call' = [call EXCEPT ![c].signal = "deadline"]
  /\ UNCHANGED <<admissionVars, level, environmentVars>>

----------------------------------------------------------------------------
(* The world around: governance, reconnects, decisions, time.               *)

(* A change of governance may restore what a call in flight lost. *)
Witnessed(l, g) ==
  [c \in Work |->
     IF call[c].token # 0 /\ g /\ l = call[c].gen
     THEN [call[c] EXCEPT !.sawAuthority = TRUE] ELSE call[c]]

Govern ==
  /\ flips < MaxFlips
  /\ governed' = ~governed
  /\ flips' = flips + 1
  /\ call' = Witnessed(live, ~governed)
  /\ UNCHANGED <<admissionVars, level, live, stored, approval, load>>

(* A reconnect stores a new generation and purges what was asked of the old *)
(* one; a removal purges it too.                                            *)
Reconnect ==
  /\ stored < MaxGen
  /\ stored' = stored + 1
  /\ live' = stored + 1
  /\ approval' = [g \in Gens |-> "none"]
  /\ UNCHANGED <<admissionVars, level, governed, flips, load, call>>

RemoveCredential ==
  /\ live # 0
  /\ live' = 0
  /\ approval' = [g \in Gens |-> "none"]
  /\ UNCHANGED <<admissionVars, level, stored, governed, flips, load, call>>

Grant(g) ==
  /\ approval[g] = "pending"
  /\ live = g /\ governed
  /\ approval' = [approval EXCEPT ![g] = "granted"]
  /\ UNCHANGED <<admissionVars, level, live, stored, governed, flips, load, call>>

RefillBudget ==
  /\ Replenish
  /\ UNCHANGED <<admissionVars, environmentVars, call>>

(* The steps of the handler itself; what it waits for is named where the    *)
(* wait is not for the database or the process.                             *)
HandlerStep(c) ==
  \/ Verify(c) \/ Authorize(c) \/ Pin(c) \/ Admit(c)
  \/ EgressGate(c) \/ CheckEarly(c) \/ TakeRateBudget(c)
  \/ ConsumeGrant(c) \/ AskApproval(c) \/ ReadCredential(c)
  \/ CheckLate(c) \/ Dispatch(c)
  \/ \E n \in Sizes : Book(c, n)
  \/ GuardResponse(c)

(* What an aborted signal makes sure of: the pending work rejects. *)
Rejects(c) ==
  /\ call[c].signal # "none"
  /\ ObtainToken(c) \/ NetworkFails(c) \/ RefreshAfter401(c) \/ RelayFails(c)

RemoteStep(c) ==
  \/ ObtainToken(c) \/ RefreshAfter401(c) \/ NetworkFails(c)
  \/ ProviderAnswers(c, 200) \/ ProviderAnswers(c, 401)
  \/ RelayChunk(c) \/ RelayFails(c) \/ RelayEnds(c)

CallsNext ==
  \/ \E c \in Work :
       \/ \E r \in load.asks[c] : Arrive(c, r)
       \/ HandlerStep(c) \/ RemoteStep(c)
       \/ Finish(c) \/ Close(c) \/ Expire(c)
  \/ Govern \/ Reconnect \/ RemoveCredential \/ RefillBudget
  \/ \E g \in Gens : Grant(g)

CallsSpec == CallsInit /\ [][CallsNext]_callVars

(* The database answers, the timer fires, an aborted signal rejects what    *)
(* waits for it, and the server closes a socket that is idle for too long.  *)
(* Nothing is assumed of the provider, the client or the human.             *)
CallsFairness ==
  \A c \in Work :
    /\ WF_callVars(HandlerStep(c))
    /\ WF_callVars(Rejects(c))
    /\ WF_callVars(Expire(c))
    /\ WF_callVars(call[c].handlerDone /\ Close(c))

CallsFairSpec == CallsSpec /\ CallsFairness

----------------------------------------------------------------------------
(* What a call promises.                                                    *)

(* Requests, counters and leases have their types. *)
CallsTypeOK ==
  /\ AdmissionTypeOK
  /\ BudgetTypeOK
  /\ call \in [Work -> Call]
  /\ live \in 0..MaxGen /\ stored \in 0..MaxGen
  /\ approval \in [Gens -> {"none", "pending", "granted"}]

(* A request holds its lease until its handler is over and its response is  *)
(* finished or closed, and its provider slot for as long as anything is in  *)
(* flight for it: a slow reader or a hung provider stays inside the         *)
(* envelope, and when all is over nothing is held (the admission lease of   *)
(* the request handler).                                                    *)
SlotsHeld ==
  /\ CountersExact
  /\ \A c \in Work :
       LET cl == call[c] IN
         /\ lease[c] = "live" <=> /\ cl.at # "idle"
                                  /\ cl.outcome \notin {"locked_down", "overloaded"}
                                  /\ ~(cl.handlerDone /\ Settled(cl))
         /\ (cl.at \in {"wire", "refresh", "guard", "relay"} => slot[c][TheProvider] = "live")
         /\ (cl.handlerDone => slot[c][TheProvider] # "live")

(* The envelope of one replica. *)
Envelope == CallsTypeOK /\ SlotsHeld

(* A write that is not idempotent reaches the provider at most once,        *)
(* whatever it answered and whatever was refreshed meanwhile                *)
(* (ConnectionHandle.fetch, the replay after a 401).                        *)
WriteOnce == \A c \in Work : call[c].method = "POST" => call[c].sends <= 1

(* What reaches the provider carries the very credential generation that    *)
(* was resolved for the request and, for a write, that a human approved:    *)
(* a reconnect, a removal or a later grant in between never changes it      *)
(* (the pinned credentialId, approvalKey, the exact vault read).            *)
SentAsApproved ==
  \A c \in Work :
    LET cl == call[c] IN
      cl.sends > 0 => /\ cl.token = cl.gen
                      /\ ApprovalNeeded(cl.method) => cl.paid = cl.gen

(* A call is sent, and replayed, only if the complete authority held at     *)
(* some moment after its token was in hand: a change of governance or of    *)
(* the credential during the work before never reaches the provider         *)
(* (useStillValid at the egress boundary).                                  *)
CurrentAtSend ==
  [][\A c \in Work : call'[c].sends > call[c].sends => call[c].sawAuthority]_callVars

(* A refusal costs what it says and no more: a request turned away by the   *)
(* perimeter, an egress gate or a ceiling spends no budget, one over its    *)
(* rate or without a grant never touches the secret, and none of them       *)
(* reached the provider.                                                    *)
RefusedUntouched ==
  \A c \in Work :
    LET cl == call[c] IN
      /\ cl.outcome \in {"locked_down", "overloaded", "unauthorized", "method", "denied",
                        "provider_full"}
           => ~cl.charged /\ cl.token = 0 /\ cl.paid = 0
      /\ cl.outcome \in {"limited", "approval_required", "recorded"} => cl.token = 0
      /\ cl.outcome \in {"limited", "approval_required", "recorded"} => cl.sends = 0

(* What reaches the provider is what was authorised, and nothing else did. *)
Authorised == SentAsApproved /\ RefusedUntouched

(* A response that ends cleanly is complete, and nobody is sent more than   *)
(* the ceiling: a stream cut by the byte cap, the time cap, the provider or *)
(* the client never looks like a finished one (relayMcpResponse,            *)
(* readCapped).                                                             *)
NoSilentTruncation ==
  \A c \in Work :
    LET cl == call[c] IN
      /\ cl.relayed <= BodyCap
      /\ cl.response = "finished" => cl.relayed = cl.body
      /\ cl.response = "finished" => cl.at = "done"

(* Every request gives its lease back, though the provider never answers,   *)
(* the refresh hangs and the client never reads: the deadline cuts what the *)
(* handler waits for, and the server closes the socket.                     *)
EveryCallEnds ==
  \A c \in Work : lease[c] = "live" ~> lease[c] = "released"
=============================================================================
