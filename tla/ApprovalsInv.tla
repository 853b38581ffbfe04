---------------------------- MODULE ApprovalsInv ----------------------------
(***************************************************************************)
(* The inductive invariant behind the promises of Approvals: what a row,   *)
(* a call and a click that are between two locked steps still agree on.    *)
(***************************************************************************)
EXTENDS Approvals

(* Who may appear with whom: only a worker's call is delegated, and no call *)
(* of a worker uses a credential of its own.                                *)
Kind(k) ==
  /\ k.delegated => k.who \in Workers /\ k.owner \in Users
  /\ ~k.delegated => k.owner = Shared \/ (k.owner = k.who /\ k.who \notin Workers)

(* The decision d approved the row r as it stands. *)
ApprovedAs(d, r) ==
  /\ d.approve
  /\ d.id = r.id /\ d.by = r.by /\ d.who = r.who /\ d.owner = r.owner
  /\ d.cred = r.cred /\ d.action = r.action

(* A row was asked for under the governance that holds; it is pending until *)
(* its one decision; it is granted as it was approved, and single-use rows  *)
(* are gone once they are spent.                                            *)
RowOK(r) ==
  /\ r.id \in used
  /\ r.asked = changes
  /\ Kind(r)
  /\ r.status = "pending" => \A d \in decided : d.id # r.id
  /\ r.status = "granted" =>
       /\ \E d \in decided : ApprovedAs(d, r)
       /\ r.delegated => r.by = r.owner /\ r.owner # r.who
  /\ Once(r) => \A s \in spent : s.id # r.id

Rows ==
  /\ approvals \subseteq Row
  /\ \A r, t \in approvals : r.id = t.id => r = t
  /\ UniqueAction
  /\ \A r \in approvals : RowOK(r)

Histories ==
  /\ decided \subseteq Decision /\ spent \subseteq Spend
  /\ \A d \in decided : d.id \in used
  /\ \A s \in spent : s.id \in used
  /\ SpentAsDecided

Calls ==
  /\ fetches \in [Fetches -> Fetch \cup {Idle}]
  /\ \A f \in Fetches : fetches[f] # Idle => Kind(fetches[f])

(* A click carries the member's generation exactly when it would delegate. *)
ClickOK(k) ==
  /\ k.id \in used
  /\ \A r \in approvals :
       r.id = k.id /\ r.status = "pending" => (k.cred # None <=> Unbound(r) /\ k.approve)

Buttons ==
  /\ clicks \in [Clicks -> Click \cup {NoClick}]
  /\ \A c \in Clicks : clicks[c] # NoClick => ClickOK(clicks[c])

(* A session that acts for a member ends by MaxTTL after the member's click. *)
SessionOK(s) ==
  /\ s.member = None <=> s.cred = None
  /\ s.member # None => s.expires <= s.bound + MaxTTL

Leashes ==
  /\ sessions \in [Workers -> Session \cup {NoSession}]
  /\ \A w \in Workers : sessions[w] # NoSession => SessionOK(sessions[w])

World ==
  /\ policy \in Policies
  /\ now \in 1..MaxTime
  /\ tomb \in [Users -> Time]
  /\ cleaning \subseteq Users
  /\ cred \in [Owners -> Gens \cup {None}]
  /\ identity \in {"person", "channel"}
  /\ enabled \in BOOLEAN
  /\ changes \in 0..MaxChanges
  /\ used \subseteq Ids \cup Gens

ApprovalsIInv == World /\ Rows /\ Histories /\ Calls /\ Buttons /\ Leashes
=============================================================================
