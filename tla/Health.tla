------------------------------- MODULE Health -------------------------------
(***************************************************************************)
(* The debounced health messages to the owner of a connection: the claims  *)
(* of NotificationState (core/health.ts), the notifier that takes them     *)
(* (healthNotifier of adapters/bolt.ts) and the purge of a connection's    *)
(* satellites (core/vault.ts).  One connection and one kind of event.      *)
(*                                                                         *)
(* A pod stamps a claim with its own clock and then waits for the upsert   *)
(* that makes it.  Nothing relates the clocks of two pods, and nothing     *)
(* bounds the wait, so a stamp may be any instant and the stamps reach the *)
(* table in any order.                                                     *)
(***************************************************************************)
EXTENDS Naturals, FiniteSets

CONSTANTS
  Events,      \* health events, each handled by one pod
  Window,      \* HEALTH_NOTIFY_DEBOUNCE_MS
  MaxStamp,    \* bound: the last instant a clock shows
  MaxPurges,   \* bound: reconnects and deletions
  NoClaim

ASSUME HealthAssumption ==
  {Window, MaxStamp, MaxPurges} \subseteq Nat /\ Window > 0 /\ NoClaim \notin Nat

VARIABLES
  lastNotified,  \* notification_state.last_notified_at, or NoClaim
  claimant,      \* history: the event whose claim that is
  notice,        \* per event: its handler (the claim's lifetime and order are history)
  told,          \* history: the events whose message surely arrived
  lifetime       \* history: how often the connection's satellites were purged

healthVars == <<lastNotified, claimant, notice, told, lifetime>>

(* A handler: where it is, its stamp, and of the claim it made the lifetime *)
(* of the connection and whether it was out of order.                       *)
Notice ==
  [ at : {"idle", "claiming", "passed", "sending", "releasing", "done", "lost"},
    stamp : 0..MaxStamp, of : 0..MaxPurges, late : BOOLEAN ]

HealthTypeOK ==
  /\ lastNotified \in (0..MaxStamp) \cup {NoClaim}
  /\ claimant \in Events \cup {NoClaim}
  /\ notice \in [Events -> Notice]
  /\ told \subseteq Events
  /\ lifetime \in 0..MaxPurges

HealthInit ==
  /\ lastNotified = NoClaim
  /\ claimant = NoClaim
  /\ notice = [e \in Events |-> [at |-> "idle", stamp |-> 0, of |-> 0, late |-> FALSE]]
  /\ told = {}
  /\ lifetime = 0

Reach(e, place) == notice' = [notice EXCEPT ![e].at = place]

(* The event took the window once. *)
Claimed(e) == notice[e].at \in {"sending", "releasing", "done", "lost"}

(* The event is not for a message: the connection is gone, the provider is *)
(* no longer registered, nobody configured the channel, there is no        *)
(* client.  Nothing is claimed.                                            *)
Skip(e) ==
  /\ notice[e].at = "idle"
  /\ Reach(e, "passed")
  /\ UNCHANGED <<lastNotified, claimant, told, lifetime>>

(* The pod reads its clock, before anything is awaited. *)
TakeStamp(e) ==
  /\ notice[e].at = "idle"
  /\ \E s \in 0..MaxStamp : notice' = [notice EXCEPT ![e].at = "claiming", ![e].stamp = s]
  /\ UNCHANGED <<lastNotified, claimant, told, lifetime>>

(* The conditional upsert: no row, or one a window older than the stamp. *)
WindowOpen(stamp) ==
  \/ lastNotified = NoClaim
  \/ lastNotified # NoClaim /\ lastNotified + Window <= stamp

(* A claim before carried this very instant or, in this lifetime, a later one. *)
OutOfOrder(stamp) ==
  \E f \in Events :
    /\ Claimed(f)
    /\ \/ notice[f].stamp = stamp
       \/ notice[f].of = lifetime /\ notice[f].stamp > stamp

(* claim(): the window is taken before the message is sent. *)
ClaimWindow(e) ==
  /\ notice[e].at = "claiming"
  /\ WindowOpen(notice[e].stamp)
  /\ lastNotified' = notice[e].stamp
  /\ claimant' = e
  /\ notice' = [notice EXCEPT ![e].at = "sending", ![e].of = lifetime,
                              ![e].late = OutOfOrder(notice[e].stamp)]
  /\ UNCHANGED <<told, lifetime>>

(* The upsert changed no row: somebody has told the owner, or is about to. *)
LoseWindow(e) ==
  /\ notice[e].at = "claiming"
  /\ ~WindowOpen(notice[e].stamp)
  /\ Reach(e, "passed")
  /\ UNCHANGED <<lastNotified, claimant, told, lifetime>>

(* Slack took the message. *)
Sent(e) ==
  /\ notice[e].at = "sending"
  /\ Reach(e, "done")
  /\ told' = told \cup {e}
  /\ UNCHANGED <<lastNotified, claimant, lifetime>>

(* Mutant: a failed message is only logged. *)
ForgetClaim(e) == Reach(e, "done")

(* The message failed: the claim is to be given back. *)
GiveBack(e) == Reach(e, "releasing")

SendFails(e) ==
  /\ notice[e].at = "sending"
  /\ GiveBack(e)
  /\ UNCHANGED <<lastNotified, claimant, told, lifetime>>

(* Mutant: the row is released whoever claimed it last. *)
AnyClaimStands(e) == lastNotified # NoClaim

(* The row still carries the instant of this claim. *)
OwnClaimStands(e) == lastNotified = notice[e].stamp

(* release(): only the row of the exact instant. *)
ReleaseWindow(e) ==
  /\ notice[e].at = "releasing"
  /\ lastNotified' = IF OwnClaimStands(e) THEN NoClaim ELSE lastNotified
  /\ claimant' = IF OwnClaimStands(e) THEN NoClaim ELSE claimant
  /\ Reach(e, "done")
  /\ UNCHANGED <<told, lifetime>>

(* The pod dies, or its query fails: a stamp that made no claim is nothing, *)
(* a claim stays without a message.                                         *)
PodDies(e) ==
  /\ notice[e].at \in {"claiming", "sending", "releasing"}
  /\ Reach(e, IF notice[e].at = "claiming" THEN "passed" ELSE "lost")
  /\ UNCHANGED <<lastNotified, claimant, told, lifetime>>

(* clearSatellites: the connection is written anew or deleted. *)
PurgeNotices ==
  /\ lifetime < MaxPurges
  /\ lifetime' = lifetime + 1
  /\ lastNotified' = NoClaim
  /\ claimant' = NoClaim
  /\ UNCHANGED <<notice, told>>

HealthNext ==
  \/ PurgeNotices
  \/ \E e \in Events :
       \/ Skip(e) \/ TakeStamp(e) \/ ClaimWindow(e) \/ LoseWindow(e)
       \/ Sent(e) \/ SendFails(e) \/ ReleaseWindow(e) \/ PodDies(e)

HealthSpec == HealthInit /\ [][HealthNext]_healthVars

(* The owner is never told twice about one connection within the window:    *)
(* not by two pods, and not because a slow pod that failed gives back the   *)
(* window another has claimed since.  A claim that is out of order is the   *)
(* exception: over a row that a failed later claim gave back it knows       *)
(* nothing of the message before, and its own instant may be the one an     *)
(* earlier claim gives back (NotificationState.claim and release).          *)
ToldOnce ==
  \A e, f \in told :
    LET m == notice[e]
        n == notice[f]
    IN  e # f /\ m.of = n.of /\ ~m.late /\ ~n.late =>
          m.stamp >= n.stamp + Window \/ n.stamp >= m.stamp + Window

(* The owner is kept waiting for a window only when the message of that    *)
(* window arrived or is still being sent, or its pod died or could not     *)
(* reach the database: a failed message leaves the window open             *)
(* (healthNotifier releases what it claimed).                              *)
SilentForCause ==
  lastNotified # NoClaim =>
    notice[claimant].at \in {"sending", "releasing", "lost"} \/ claimant \in told

(* The owner of a connection hears of its health once per window of claims *)
(* made in order, and does hear of it.                                     *)
HealthInv == HealthTypeOK /\ ToldOnce /\ SilentForCause
=============================================================================
