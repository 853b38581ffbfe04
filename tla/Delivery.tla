------------------------------ MODULE Delivery ------------------------------
(***************************************************************************)
(* Prompt delivery leases: how the replicas post one private prompt for    *)
(* one pending request without holding a transaction over Slack.  The      *)
(* three tables that carry a lease (approval_request, consent_request and  *)
(* user_provisioning_request) share the protocol; the statements are in    *)
(* core/approval.ts, core/consent.ts and core/provisioning.ts, the turns   *)
(* that run it in adapters/bolt.ts, the durations in core/interaction.ts.  *)
(*                                                                         *)
(* One request, several turns of several processes.  Time is the time that *)
(* is left: a tick is a fraction of the lease and counts every running     *)
(* timer down; a step the runtime bounds (a reply of the database, a post  *)
(* through the bounded client) is over when its timer is.  The end of the  *)
(* ten minutes of a pending request is one more way it stops being live.   *)
(***************************************************************************)
EXTENDS Naturals, FiniteSets

CONSTANTS
  Turns,         \* adapter turns that may deliver this request's prompt
  Lease,         \* PROMPT_DELIVERY_LEASE_US
  Debounce,      \* PROMPT_REDELIVERY_DEBOUNCE_US
  PostDeadline,  \* APPROVAL_PROMPT_POST_DEADLINE_MS
  PostBound,     \* the timeout of the bounded Slack client
  DbBound,       \* pool wait plus query timeout of one statement
  NoTurn         \* no delivery token

(* What the constants are chosen for: the posting window reserves one post *)
(* and one confirmation inside the lease.                                  *)
ASSUME DeliveryAssumption ==
  /\ {Lease, Debounce, PostDeadline, PostBound, DbBound} \subseteq Nat
  /\ PostDeadline > 0
  /\ PostDeadline + PostBound + DbBound <= Lease
  /\ NoTurn \notin Turns

VARIABLES
  request,   \* the row, and which table and conversation it belongs to
  at,        \* per turn: where it is
  plan,      \* per turn: its prompt
  budget,    \* per turn: what is left of its local posting window
  bound,     \* per turn: what is left for the step it is in
  shown,     \* the prompts Slack accepted: whose, and for which audience
  fault,     \* turns that crashed, or that do not know what happened
  switched   \* whether a claim ever changed the audience

rowVars == <<request, switched>>
turnVars == <<at, plan, budget, bound, fault>>
deliveryVars == <<rowVars, turnVars, shown>>

Tables == {"approval", "consent", "setup"}
Approvers == {"self", "member"}
Places == {"idle", "prepare", "claim", "claimed", "posting", "confirm", "abandon", "done"}
Leased == {"claimed", "posting", "confirm", "abandon"}

(* request.lease is what is left of the lease, request.cooldown what is    *)
(* left of the debounce of a delivered prompt.                             *)
DeliveryTypeOK ==
  /\ request \in [table : Tables, inChannel : BOOLEAN,
                  status : {"none", "pending", "closed"},
                  token : Turns \union {NoTurn}, lease : 0..Lease,
                  delivered : BOOLEAN, cooldown : 0..Debounce,
                  audience : Approvers \union {"nobody"}]
  /\ at \in [Turns -> Places]
  /\ plan \in [Turns -> [approver : Approvers, new : BOOLEAN, renew : BOOLEAN]]
  /\ budget \in [Turns -> 0..PostDeadline]
  /\ bound \in [Turns -> Nat]
  /\ shown \subseteq [turn : Turns, audience : Approvers]
  /\ fault \subseteq Turns
  /\ switched \in BOOLEAN

NoPlan == [approver |-> "self", new |-> FALSE, renew |-> FALSE]

DeliveryInit ==
  /\ request = [table |-> "approval", inChannel |-> FALSE, status |-> "none",
                token |-> NoTurn, lease |-> 0, delivered |-> FALSE, cooldown |-> 0,
                audience |-> "nobody"]
  /\ at = [t \in Turns |-> "idle"]
  /\ plan = [t \in Turns |-> NoPlan]
  /\ budget = [t \in Turns |-> 0]
  /\ bound = [t \in Turns |-> 0]
  /\ shown = {}
  /\ fault = {}
  /\ switched = FALSE

Live == request.status = "pending"

(* A turn goes on to the next step, which has `b` ticks, or ends. *)
Move(t, place, b) ==
  /\ at' = [at EXCEPT ![t] = place]
  /\ bound' = [bound EXCEPT ![t] = b]

End(t) ==
  /\ Move(t, "done", 0)
  /\ plan' = [plan EXCEPT ![t] = NoPlan]
  /\ budget' = [budget EXCEPT ![t] = 0]

(* discardPending: the request goes, whoever holds its lease. *)
Discard == request' = [request EXCEPT !.status = IF @ = "pending" THEN "closed" ELSE @]

(* A turn asks: it creates the pending request, or joins the one that is   *)
(* there.  The button that renews a Connect link (renew) is one more turn. *)
Ask(t) ==
  /\ at[t] = "idle"
  /\ Move(t, "prepare", 0)
  /\ \/ /\ request.status = "none"
        /\ \E k \in Tables, c \in BOOLEAN :
             request' = [request EXCEPT !.status = "pending", !.table = k, !.inChannel = c]
        /\ plan' = [plan EXCEPT ![t].new = TRUE]
     \/ /\ Live
        /\ \E renewed \in BOOLEAN :
             /\ renewed => request.table = "consent"
             /\ plan' = [plan EXCEPT ![t].renew = renewed]
        /\ UNCHANGED request
  /\ UNCHANGED <<budget, shown, fault, switched>>

(* recoverBrokerDenial: the denial of the broker names the request.  Its   *)
(* facts are read again: a request that is no longer current is discarded. *)
(* The pass over undelivered backchannel requests relays the same way.     *)
Recover(t) ==
  /\ at[t] = "idle"
  /\ request.table = "approval"
  /\ \/ request.status = "closed" /\ End(t) /\ UNCHANGED request
     \/ Live /\ Move(t, "prepare", 0) /\ UNCHANGED <<request, plan, budget>>
     \/ Live /\ End(t) /\ Discard
  /\ UNCHANGED <<shown, fault, switched>>

(* The prompt is rendered and, for a member prompt, the channel is checked *)
(* before any lease is taken; the local budget starts before the claim.    *)
(* An approval that cannot be rendered or shown is discarded.              *)
Prepare(t) ==
  /\ at[t] = "prepare"
  /\ \/ /\ \E a \in Approvers :
             /\ a = "member" => request.table = "approval" /\ request.inChannel
             /\ plan' = [plan EXCEPT ![t].approver = a]
        /\ budget' = [budget EXCEPT ![t] = PostDeadline]
        /\ Move(t, "claim", 0)
        /\ UNCHANGED request
     \/ request.table = "approval" /\ End(t) /\ Discard
  /\ UNCHANGED <<shown, fault, switched>>

(* An ephemeral in a channel vanishes and may be posted again; a DM and a  *)
(* channel message stay.                                                   *)
Durable(a) == ~(request.inChannel /\ a = "self")

Unleased == request.token = NoTurn \/ request.lease = 0

(* Nothing is up for this audience, or it is time to show it again. *)
Wanted(a) ==
  \/ request.audience # a
  \/ ~request.delivered
  \/ ~Durable(a) /\ request.cooldown = 0

Claimable(t) == Live /\ Unleased /\ Wanted(plan[t].approver)

(* claimDelivery, one attempt.  A claim that lost a race and is attempted  *)
(* again is a claim made later; one that finds the prompt delivered, in    *)
(* flight or stale ends the turn.                                          *)
Claim(t) ==
  /\ at[t] = "claim"
  /\ \/ /\ Claimable(t)
        /\ request' = [request EXCEPT !.token = t, !.lease = Lease, !.delivered = FALSE,
                                      !.cooldown = 0, !.audience = plan[t].approver]
        /\ switched' = (switched \/ request.audience \notin {"nobody", plan[t].approver})
        /\ Move(t, "claimed", DbBound)
        /\ UNCHANGED <<plan, budget>>
     \/ ~Claimable(t) /\ End(t) /\ UNCHANGED rowVars
  /\ UNCHANGED <<shown, fault>>

(* Mutant: the posting budget is not checked. *)
Unbudgeted(t) == TRUE

(* Whether enough of the lease is left to post and to confirm; only the    *)
(* approval prompt checks it.                                              *)
InBudget(t) == request.table = "approval" => budget[t] > 0

(* The reply of the claim is here: post, or give the lease back unposted.  *)
(* The renewed link is posted through the response_url of the click, whose *)
(* request has no bound of its own.                                        *)
StartPost(t) ==
  /\ at[t] = "claimed"
  /\ IF InBudget(t) THEN Move(t, "posting", PostBound) ELSE Move(t, "abandon", DbBound)
  /\ budget' = [budget EXCEPT ![t] = 0]
  /\ UNCHANGED <<rowVars, plan, shown, fault>>

Answers == {"accepted", "platform-rejected", "rate-limited", "ambiguous"}

(* Mutant: a rate-limited post keeps its lease. *)
OnlyRejected == {"platform-rejected"}

(* classifySlackPromptDeliveryFailure: the answers that prove Slack did    *)
(* not take the prompt.                                                    *)
KnownUndelivered == {"platform-rejected", "rate-limited"}

(* Slack answers the post, or the transport fails: then nobody knows       *)
(* whether the prompt is up, and the lease is left to run out.             *)
PostAnswered(t) ==
  /\ at[t] = "posting"
  /\ \E answer \in Answers, up \in BOOLEAN :
       /\ (answer # "ambiguous") => (up <=> answer = "accepted")
       /\ shown' = IF up THEN shown \union {[turn |-> t, audience |-> plan[t].approver]}
                   ELSE shown
       /\ fault' = IF answer = "ambiguous" THEN fault \union {t} ELSE fault
       /\ \/ /\ answer = "accepted"
             /\ Move(t, "confirm", DbBound) /\ UNCHANGED <<plan, budget>>
          \/ /\ answer \in KnownUndelivered
             /\ Move(t, "abandon", DbBound) /\ UNCHANGED <<plan, budget>>
          \/ answer \notin KnownUndelivered \union {"accepted"} /\ End(t)
  /\ UNCHANGED rowVars

(* Mutant: the lease is not compared, only the request. *)
AnyHolder(t) == request.token # NoTurn

(* The lease is still this claim's. *)
Holds(t) == request.token = t

StillMine(t) ==
  Live /\ Holds(t) /\ ~request.delivered /\ request.audience = plan[t].approver

Confirmed(t) ==
  IF StillMine(t)
  THEN [request EXCEPT !.delivered = TRUE, !.cooldown = Debounce, !.token = NoTurn, !.lease = 0]
  ELSE request

(* abandonDelivery: an approval this very turn created is removed. *)
Abandoned(t) ==
  IF ~StillMine(t) THEN request
  ELSE IF request.table = "approval" /\ plan[t].new
       THEN [request EXCEPT !.status = "closed"]
       ELSE [request EXCEPT !.token = NoTurn, !.lease = 0]

(* The statement runs, or its outcome stays unknown. *)
Settle(t, place, row) ==
  /\ at[t] = place
  /\ End(t)
  /\ \/ request' = row /\ UNCHANGED fault
     \/ request' \in {request, row} /\ fault' = fault \union {t}
  /\ UNCHANGED <<shown, switched>>

Confirm(t) == Settle(t, "confirm", Confirmed(t))

Abandon(t) == Settle(t, "abandon", Abandoned(t))

(* The replica dies and leaves its lease behind. *)
Die(t) ==
  /\ at[t] \in Leased
  /\ End(t)
  /\ fault' = fault \union {t}
  /\ UNCHANGED <<rowVars, shown>>

(* The request is decided, consumed, superseded, removed, or it expires. *)
Close == Live /\ Discard /\ UNCHANGED <<turnVars, shown, switched>>

Left(n) == IF n = 0 THEN 0 ELSE n - 1

Unbounded(t) == at[t] = "posting" /\ plan[t].renew

(* Time passes, up to the bounds of the steps under way. *)
Pass ==
  /\ \A t \in Turns : at[t] \in Leased /\ ~Unbounded(t) => bound[t] > 0
  /\ request' = [request EXCEPT !.lease = Left(@), !.cooldown = Left(@)]
  /\ budget' = [t \in Turns |-> Left(budget[t])]
  /\ bound' = [t \in Turns |-> Left(bound[t])]
  /\ UNCHANGED <<at, plan, shown, fault, switched>>

DeliveryStep(t) ==
  \/ Ask(t) \/ Recover(t) \/ Prepare(t) \/ Claim(t) \/ StartPost(t)
  \/ PostAnswered(t) \/ Confirm(t) \/ Abandon(t) \/ Die(t)

DeliveryNext == Close \/ Pass \/ \E t \in Turns : DeliveryStep(t)

DeliverySpec == DeliveryInit /\ [][DeliveryNext]_deliveryVars

Posting(t) == at[t] = "posting" /\ ~plan[t].renew

(* No two replicas post the prompt of one request at the same time,        *)
(* whatever became of the turns before them: a late answer gives back no   *)
(* lease that is no longer its own (claimDelivery and abandonDelivery;     *)
(* the renewed link, whose post is unbounded, is exempt).                  *)
OnePoster == \A t, u \in Turns : Posting(t) /\ Posting(u) => t = u

(* Prompts that are up and whose turn knows it. *)
Sure == {s \in shown : s.turn \notin fault}

(* An approval prompt that stays where it was posted is posted once,       *)
(* unless a replica crashed, did not learn what happened, or the approver  *)
(* changed: the budget of the post leaves time to confirm inside the lease *)
(* (ConnectContext.deliverApprovalPrompt and postApprovalPrompt).          *)
PostedOnce ==
  request.table = "approval" /\ ~switched =>
    \A s, r \in Sure : Durable(s.audience) /\ s.audience = r.audience => s.turn = r.turn

(* A live request is held back only by a turn that is still at work, that  *)
(* died, or that does not know what happened: every prompt Slack surely    *)
(* refused, and every budget that ran out, leaves it free for the next     *)
(* turn (abandonKnownUndeliveredPrompt).                                   *)
HeldForCause ==
  Live /\ request.token # NoTurn =>
    at[request.token] # "done" \/ request.token \in fault

(* The lease protocol: one poster, one prompt, no lease left without cause. *)
DeliveryInv == DeliveryTypeOK /\ OnePoster /\ PostedOnce /\ HeldForCause
=============================================================================
