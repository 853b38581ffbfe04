------------------------------ MODULE CallsInv ------------------------------
(***************************************************************************)
(* The inductive invariant of Calls: what a request has, and has not yet   *)
(* done, at each of its awaits.  It is a predicate on the record of one    *)
(* request and on what that request holds of the two ceilings; requests    *)
(* meet only in the counters.                                              *)
(***************************************************************************)
EXTENDS Calls

(* Where a request is on its way. *)
Early == {"idle", "verify", "authorize", "pin", "admit"}
Gates == {"gate", "early", "budget", "consume", "ask"}
Using == {"read", "token", "late", "dispatch", "wire", "refresh", "book", "guard", "relay"}

Turned == {"locked_down", "overloaded"}

(* The handler runs until it is done, and only then has an outcome. *)
RunsToItsEnd(cl) ==
  /\ cl.handlerDone <=> cl.at = "done"
  /\ cl.at # "done" => cl.outcome = "open"
  /\ cl.at = "idle" => cl.response = "open"

(* The lease is held from the arrival to the end of handler and response,   *)
(* the slot from the admission to the provider to the end of the handler.   *)
HoldsItsOwn(cl, l, s) ==
  /\ cl.at = "idle" => l = "none"
  /\ cl.at \notin {"idle", "done"} => l = "live"
  /\ cl.at = "done" => (l = "live" <=> cl.outcome \notin Turned /\ ~Settled(cl))
  /\ cl.at \in Early => s = "none"
  /\ cl.at \in Gates => (s = "live" <=> cl.route # "authorization")
  /\ cl.at = "consume" => cl.route # "authorization"
  /\ cl.at \in Using => s = "live"
  /\ cl.at = "done" => s # "live"

(* The secret is read last, for the generation that was resolved and paid   *)
(* for; the budget is charged and the grant spent before.                   *)
InOrderOf(cl) ==
  /\ cl.at \in Early \cup Gates \cup {"read"} => cl.token = 0
  /\ cl.at \in Early \cup Gates => cl.paid = 0
  /\ cl.at \in Early \cup {"gate", "early", "budget"} => ~cl.charged
  /\ cl.at \in {"admit"} \cup Gates \cup Using => cl.gen # 0
  /\ cl.at \in Using /\ ApprovalNeeded(cl.method) => cl.paid = cl.gen
  /\ cl.at \in Using \ {"read"} => cl.token = cl.gen
  /\ cl.sends > 0 => cl.token = cl.gen
  /\ cl.sends > 0 /\ ApprovalNeeded(cl.method) => cl.paid = cl.gen

(* A second send is the replay of an idempotent call, and the last one. *)
SendsOf(cl) ==
  /\ cl.at \in Early \cup Gates \cup {"read", "token"} => cl.sends = 0
  /\ cl.at \in {"late", "dispatch"} => cl.sends = 0 \/ (cl.sends = 1 /\ Replayable(cl.method))
  /\ cl.at = "refresh" => cl.sends = 1
  /\ cl.sends = 2 => Replayable(cl.method)

(* Nothing is relayed before the answer was looked at, never more than the  *)
(* ceiling, and a response that may still finish is complete.               *)
RelaysWhole(cl) ==
  /\ cl.relayed <= BodyCap
  /\ cl.at \notin {"relay", "done"} => cl.relayed = 0
  /\ cl.response = "finished" => cl.at = "done"
  /\ cl.at = "done" /\ cl.response # "closed" => cl.relayed = cl.body

(* What a refusal has cost. *)
RefusedFor(cl) ==
  /\ cl.outcome \in {"locked_down", "overloaded", "unauthorized", "method", "denied",
                    "provider_full"}
       => ~cl.charged /\ cl.token = 0 /\ cl.paid = 0
  /\ cl.outcome \in {"limited", "approval_required", "recorded"} => cl.token = 0 /\ cl.sends = 0

CallOK(cl, l, s) ==
  /\ cl \in Call
  /\ RunsToItsEnd(cl)
  /\ HoldsItsOwn(cl, l, s)
  /\ InOrderOf(cl)
  /\ SendsOf(cl)
  /\ RelaysWhole(cl)
  /\ RefusedFor(cl)

(* A request that is about to be sent saw its authority hold. *)
SeesAuthority(cl) ==
  /\ cl.gen <= stored
  /\ cl.at = "late" /\ UseStillValid(cl) => cl.sawAuthority
  /\ cl.at = "dispatch" => cl.sawAuthority

EnvironmentOK ==
  /\ BudgetTypeOK
  /\ live \in 0..MaxGen /\ stored \in 0..MaxGen /\ live <= stored
  /\ governed \in BOOLEAN
  /\ load \in Loads
  /\ approval \in [Gens -> {"none", "pending", "granted"}]

CallsIInv ==
  /\ AdmissionTypeOK
  /\ CountersExact
  /\ WithinCeilings
  /\ EnvironmentOK
  /\ call \in [Work -> Call]
  /\ \A c \in Work : CallOK(call[c], lease[c], slot[c][TheProvider])
  /\ \A c \in Work : SeesAuthority(call[c])
=============================================================================
