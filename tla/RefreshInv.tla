----------------------------- MODULE RefreshInv -----------------------------
(***************************************************************************)
(* The inductive invariant behind the promises of Refresh.                 *)
(*                                                                         *)
(* The token a flight presents is the one stored and the one the provider  *)
(* takes, because the flight holds the lock from its second read to its    *)
(* commit.  A flight that lost the lock, or stopped waiting, may still     *)
(* have a request on the wire; then its grant is among the lost ones.      *)
(***************************************************************************)
EXTENDS Refresh

(* The places of a flight inside its locked transaction. *)
Locked == {"held", "sent", "aborting", "answered", "refused"}

Running == {f \in Callers : flights[f].pc \notin {"none", "done"}}

(* A connection bears the number of the first token pair of its grant. *)
Granted(g) == g \in 1..Len(issued) /\ issued[g] = g

(* The token pair n was issued for grant g. *)
IssuedFor(n, g) == n \in 1..Len(issued) /\ issued[n] = g

RowOK ==
  row # NoRow => Granted(row.id) /\ IssuedFor(row.at, row.id)

(* The stored refresh token is the one the provider takes, or took before  *)
(* a rotation that has yet to commit: what Rotation says of it.            *)
Agree == Abstract!Works

(* A caller waits for a flight of its pod and generation. *)
CallerOK(c) ==
  /\ callers[c].pc # "idle" => Granted(Gen(c))
  /\ callers[c].pc \in {"idle", "ask"} => flights[c].pc = "none"
  /\ callers[c].pc # "done" => callers[c].outcome = "none"
  /\ callers[c].pc = "waiting" =>
       callers[c].flight \in inflight /\ SameKey(callers[c].flight, c)
  /\ callers[c].outcome = "token" => IssuedFor(callers[c].token, Gen(c))
  /\ callers[c].outcome = "abort" => callers[c].cancelled \/ callers[c].late

(* Who holds the lock: the one flight whose transaction is open, unless    *)
(* the server has ended its session.                                       *)
LockOK(f) ==
  /\ lock = f <=> flights[f].pc \in Locked /\ ~flights[f].dropped
  /\ flights[f].dropped => flights[f].pc \in Locked

(* Nobody but those who came too late waits for a flight that was left. *)
AbortOK(f) ==
  /\ flights[f].pc = "aborting" => flights[f].aborted
  /\ flights[f].pc = "none" => ~flights[f].aborted
  /\ flights[f].aborted => \A c \in Waiters(f) : callers[c].late

(* A request on the wire whose flight would not store the answer. *)
WireOK(f) ==
  /\ flights[f].pc = "sent" => f \in wire
  /\ f \in wire => flights[f].pc \in {"sent", "aborting", "done"}
  /\ f \in wire /\ (flights[f].pc # "sent" \/ flights[f].dropped) => Gen(f) \in lost

(* What a flight has read, presented and got. *)
TokenOK(f) ==
  /\ flights[f].pc \in Locked \cup {"wait"} => flights[f].before # 0
  /\ flights[f].pc \in {"sent", "answered"} =>
       IF flights[f].dropped THEN Gen(f) \in lost
       ELSE Stored(f) /\ row.rt = flights[f].before
  /\ flights[f].pc = "answered" =>
       /\ IssuedFor(flights[f].at, Gen(f))
       /\ flights[f].rt # 0
       /\ ~flights[f].dropped =>
            /\ flights[f].at > row.at
            /\ live[Gen(f)] = flights[f].rt \/ Gen(f) \in lost
  /\ flights[f].pc = "refused" => Gen(f) \in lost

RefreshIInv ==
  /\ TypeOK
  /\ RowOK
  /\ Agree
  /\ inflight = Running
  /\ \A c \in Callers : CallerOK(c) /\ LockOK(c) /\ AbortOK(c) /\ WireOK(c) /\ TokenOK(c)
=============================================================================
