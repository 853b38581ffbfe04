------------------------------- MODULE Refresh -------------------------------
(***************************************************************************)
(* The silent refresh of one stored connection: callers of one pod share a *)
(* single flight per credential generation, flights of different pods take *)
(* turns on the advisory lock, and the provider may rotate the refresh     *)
(* token (refreshAndStore, waitForRefresh and doRefresh of                 *)
(* src/core/injector.ts, withRefreshLock and updateTokens of               *)
(* src/core/vault.ts).  A flight bears the name of the caller that started *)
(* it.  Dry runs and lockdown are not modelled: neither calls a provider.  *)
(***************************************************************************)
EXTENDS Integers, Sequences

CONSTANTS
  Pods,
  Callers,   \* bound: fetches that find their access token stale
  None,
  MaxTokens  \* bound: token pairs the provider issues

ASSUME RefreshAssumption ==
  /\ None \notin Callers
  /\ MaxTokens \in Nat

VARIABLES
  row,      \* NoRow or the stored connection
  issued,   \* the provider's token pairs: issued[n] is the grant of pair n
  live,     \* per grant, the refresh token the provider takes
  wire,     \* the flights whose /token request it has not handled
  lock,     \* the flight that holds the advisory lock
  flights,
  inflight, \* the flights in the single-flight map of their pod
  callers,
  lost      \* history: the grants an answer of which cannot be stored any more

dbVars == <<row, lock>>
providerVars == <<issued, live, wire>>
podVars == <<flights, inflight, callers>>
vars == <<dbVars, providerVars, podVars, lost>>

Tokens == 1..MaxTokens
NoRow == [id |-> 0, rt |-> 0, at |-> 0]
Fresh == Len(issued) + 1

Caller == [ pc : {"idle", "ask", "waiting", "done", "dead"}, pod : Pods \cup {None},
            gen : 0..MaxTokens, flight : Callers \cup {None},
            outcome : {"none", "token", "stale", "error", "abort"}, token : 0..MaxTokens,
            cancelled : BOOLEAN, late : BOOLEAN ]

Flight == [ pc : {"none", "start", "wait", "held", "sent", "aborting", "answered", "refused", "done"},
            before : 0..MaxTokens, rt : 0..MaxTokens, at : 0..MaxTokens,
            aborted : BOOLEAN, dropped : BOOLEAN ]

(* The type invariant; the lock never outlives its holder's transaction. *)
TypeOK ==
  /\ row \in [id : 0..MaxTokens, rt : 0..MaxTokens, at : 0..MaxTokens]
  /\ issued \in Seq(Tokens) /\ Len(issued) <= MaxTokens
  /\ live \in [Tokens -> 0..MaxTokens]
  /\ wire \subseteq Callers
  /\ lock # None =>
       lock \in Callers /\ flights[lock].pc \in {"held", "sent", "aborting", "answered", "refused"}
  /\ flights \in [Callers -> Flight]
  /\ inflight \subseteq Callers
  /\ callers \in [Callers -> Caller]
  /\ lost \subseteq Tokens

Init ==
  /\ row = NoRow
  /\ issued = <<>>
  /\ live = [g \in Tokens |-> 0]
  /\ wire = {}
  /\ lock = None
  /\ flights = [f \in Callers |-> [pc |-> "none", before |-> 0, rt |-> 0, at |-> 0,
                                   aborted |-> FALSE, dropped |-> FALSE]]
  /\ inflight = {}
  /\ callers = [c \in Callers |-> [pc |-> "idle", pod |-> None, gen |-> 0,
                                   flight |-> None, outcome |-> "none", token |-> 0,
                                   cancelled |-> FALSE, late |-> FALSE]]
  /\ lost = {}

Pod(f) == callers[f].pod
Gen(f) == callers[f].gen
Stored(f) == row # NoRow /\ row.id = Gen(f)
Waiters(f) == {c \in Callers : callers[c].pc = "waiting" /\ callers[c].flight = f}

----------------------------------------------------------------------------
(* The connection's other writers, each a transaction under the same lock. *)

Connect ==
  /\ lock = None
  /\ Fresh <= MaxTokens
  /\ \E rt \in {0, Fresh} :
       /\ row' = [id |-> Fresh, rt |-> rt, at |-> Fresh]
       /\ live' = [live EXCEPT ![Fresh] = rt]
  /\ issued' = Append(issued, Fresh)
  /\ UNCHANGED <<wire, lock, podVars, lost>>

Remove ==
  /\ lock = None
  /\ row # NoRow
  /\ row' = NoRow
  /\ UNCHANGED <<lock, providerVars, podVars, lost>>

----------------------------------------------------------------------------
(* A caller binds a generation and finds its access token stale. *)
Ask(c, p) ==
  /\ callers[c].pc = "idle"
  /\ row # NoRow
  /\ callers' = [callers EXCEPT ![c] =
       [@ EXCEPT !.pc = "ask", !.pod = p, !.gen = row.id]]
  /\ UNCHANGED <<dbVars, providerVars, flights, inflight, lost>>

(* Mutant: the flight is shared by the generations of a connection. *)
SameConnection(f, c) == Pod(f) = Pod(c)

(* refreshKey *)
SameKey(f, c) == Pod(f) = Pod(c) /\ Gen(f) = Gen(c)

Peers(c) == {f \in inflight : SameKey(f, c)}

(* refreshAndStore: join the flight of the key, or start it. *)
Join(c) ==
  /\ callers[c].pc = "ask"
  /\ \/ /\ Peers(c) = {}
        /\ flights' = [flights EXCEPT ![c].pc = "start"]
        /\ inflight' = inflight \cup {c}
        /\ callers' = [callers EXCEPT ![c] = [@ EXCEPT !.pc = "waiting", !.flight = c]]
     \/ \E f \in Peers(c) :
          /\ callers' = [callers EXCEPT ![c] =
               [@ EXCEPT !.pc = "waiting", !.flight = f, !.late = flights[f].aborted]]
          /\ UNCHANGED <<flights, inflight>>
  /\ UNCHANGED <<dbVars, providerVars, lost>>

(* Mutant: the first caller to leave takes the flight with it. *)
AnyLeaves(f, c) == TRUE

LastLeaves(f, c) == Waiters(f) = {c}

(* A caller's signal fires: only the last to leave aborts the flight, which *)
(* notices at once in the /token call and otherwise when it comes to it.    *)
Cancel(c) ==
  LET f == callers[c].flight IN
  /\ callers[c].pc = "waiting"
  /\ callers' = [callers EXCEPT ![c] =
       [@ EXCEPT !.pc = "done", !.outcome = "abort", !.cancelled = TRUE]]
  /\ \/ /\ LastLeaves(f, c)
        /\ flights' = [flights EXCEPT ![f] =
             [@ EXCEPT !.aborted = TRUE,
                       !.pc = IF flights[f].pc = "sent" THEN "aborting" ELSE flights[f].pc]]
        /\ lost' = IF flights[f].pc = "sent" THEN lost \cup {Gen(f)} ELSE lost
     \/ /\ ~LastLeaves(f, c)
        /\ UNCHANGED <<flights, lost>>
  /\ UNCHANGED <<dbVars, providerVars, inflight>>

----------------------------------------------------------------------------
(* Mutant: a failure before COMMIT leaves the transaction open. *)
KeepsLockOnError(f, outcome) == IF lock = f /\ outcome # "error" THEN None ELSE lock

(* COMMIT, ROLLBACK or the end of the session. *)
Released(f, outcome) == IF lock = f THEN None ELSE lock

Ended(flight) ==
  [flight EXCEPT !.pc = "done", !.rt = 0, !.at = 0, !.aborted = FALSE, !.dropped = FALSE]

(* The end of a flight: its transaction is over, its key is free, and every *)
(* waiter has the outcome.                                                  *)
Settle(f, outcome, token) ==
  /\ flights' = [flights EXCEPT ![f] = Ended(@)]
  /\ inflight' = inflight \ {f}
  /\ callers' = [c \in Callers |->
       IF c \in Waiters(f)
       THEN [callers[c] EXCEPT !.pc = "done", !.outcome = outcome, !.token = token]
       ELSE callers[c]]
  /\ lock' = Released(f, outcome)

(* doRefresh reads the refresh token it is about to consume. *)
ReadBefore(f) ==
  /\ flights[f].pc = "start"
  /\ \/ /\ ~Stored(f)
        /\ Settle(f, "error", 0)
     \/ /\ Stored(f) /\ row.rt = 0
        /\ Settle(f, "stale", 0)
     \/ /\ Stored(f) /\ row.rt # 0
        /\ flights' = [flights EXCEPT ![f] = [@ EXCEPT !.pc = "wait", !.before = row.rt]]
        /\ UNCHANGED <<lock, inflight, callers>>
  /\ UNCHANGED <<row, providerVars, lost>>

TakeLock(f) ==
  /\ flights[f].pc = "wait"
  /\ lock = None
  /\ lock' = f
  /\ flights' = [flights EXCEPT ![f].pc = "held"]
  /\ UNCHANGED <<row, providerVars, inflight, callers, lost>>

(* Mutant: the token read before the lock is presented as it is. *)
TrustEarlierRead(f) == FALSE

(* Another flight rotated in between. *)
Moved(f) == row.rt # flights[f].before

(* The read under the lock, and the /token request. *)
Reread(f) ==
  /\ flights[f].pc = "held"
  /\ ~flights[f].dropped
  /\ \/ /\ ~Stored(f)
        /\ Settle(f, "error", 0)
        /\ UNCHANGED wire
     \/ /\ Stored(f) /\ Moved(f)
        /\ Settle(f, "token", row.at)
        /\ UNCHANGED wire
     \/ /\ Stored(f) /\ ~Moved(f) /\ flights[f].aborted
        /\ Settle(f, "abort", 0)
        /\ UNCHANGED wire
     \/ /\ Stored(f) /\ ~Moved(f) /\ ~flights[f].aborted
        /\ flights' = [flights EXCEPT ![f].pc = "sent"]
        /\ wire' = wire \cup {f}
        /\ UNCHANGED <<lock, inflight, callers>>
  /\ UNCHANGED <<row, issued, live, lost>>

(* Mutant: the rotated refresh token is not kept. *)
AccessTokenOnly(f) == [row EXCEPT !.at = flights[f].at]

Updated(f) == [row EXCEPT !.rt = flights[f].rt, !.at = flights[f].at]

(* updateTokens and COMMIT. *)
Store(f) ==
  /\ flights[f].pc = "answered"
  /\ ~flights[f].dropped
  /\ Stored(f)
  /\ row' = Updated(f)
  /\ Settle(f, "token", flights[f].at)
  /\ UNCHANGED <<providerVars, lost>>

(* The token endpoint said no (or 5xx): the transaction rolls back. *)
Refused(f) ==
  /\ flights[f].pc = "refused"
  /\ Settle(f, "error", 0)
  /\ UNCHANGED <<row, providerVars, lost>>

RollBackAborted(f) ==
  /\ flights[f].pc = "aborting"
  /\ Settle(f, "abort", 0)
  /\ UNCHANGED <<row, providerVars, lost>>

(* The deadline of the /token call passes; the request may still arrive. *)
Timeout(f) ==
  /\ flights[f].pc = "sent"
  /\ Settle(f, "error", 0)
  /\ lost' = lost \cup {Gen(f)}
  /\ UNCHANGED <<row, providerVars>>

(* A statement of the flight fails: no connection in the pool, a broken     *)
(* session, a failed UPDATE. What the provider answered is lost with it.    *)
DatabaseFails(f) ==
  /\ flights[f].pc \in {"start", "wait", "held", "answered"}
  /\ Settle(f, "error", 0)
  /\ lost' = IF flights[f].pc = "answered" THEN lost \cup {Gen(f)} ELSE lost
  /\ UNCHANGED <<row, providerVars>>

----------------------------------------------------------------------------
(* The provider handles a request: it takes the live refresh token, and     *)
(* rotates it or lets it stand. Nobody hears of the answer when the flight  *)
(* has stopped waiting.                                                     *)
Provider(f) ==
  LET g == Gen(f)
      rotated(rt) == [flights[f] EXCEPT !.pc = "answered", !.rt = rt, !.at = Fresh]
      Hears(answer) == flights' = IF flights[f].pc = "sent"
                                  THEN [flights EXCEPT ![f] = answer] ELSE flights
  IN
  /\ f \in wire
  /\ wire' = wire \ {f}
  /\ \/ /\ live[g] = flights[f].before
        /\ Fresh <= MaxTokens
        /\ issued' = Append(issued, g)
        /\ \E rt \in {Fresh, live[g]} :
             /\ live' = [live EXCEPT ![g] = rt]
             /\ Hears(rotated(rt))
     \/ /\ live[g] # flights[f].before
        /\ Hears([flights[f] EXCEPT !.pc = "refused"])
        /\ UNCHANGED <<issued, live>>
  /\ UNCHANGED <<dbVars, inflight, callers, lost>>

(* A request fails without reaching the grant. *)
Unreachable(f) ==
  /\ f \in wire
  /\ wire' = wire \ {f}
  /\ flights[f].pc = "sent"
  /\ Settle(f, "error", 0)
  /\ UNCHANGED <<row, issued, live, lost>>

----------------------------------------------------------------------------
(* The server ends the session of the lock's holder, which has not noticed. *)
DropSession(f) ==
  /\ lock = f
  /\ lock' = None
  /\ flights' = [flights EXCEPT ![f].dropped = TRUE]
  /\ lost' = IF flights[f].pc \in {"sent", "answered"} THEN lost \cup {Gen(f)} ELSE lost
  /\ UNCHANGED <<row, providerVars, inflight, callers>>

Crash(p) ==
  LET mine == {c \in Callers : Pod(c) = p}
      open == {f \in mine : flights[f].pc \notin {"none", "done"}}
  IN
  /\ \E c \in mine : callers[c].pc \in {"ask", "waiting"}
  /\ flights' = [f \in Callers |-> IF f \in open THEN Ended(flights[f]) ELSE flights[f]]
  /\ inflight' = inflight \ mine
  /\ callers' = [c \in Callers |->
       IF c \in mine /\ callers[c].pc \in {"ask", "waiting"}
       THEN [callers[c] EXCEPT !.pc = "dead"] ELSE callers[c]]
  /\ lock' = IF lock \in open THEN None ELSE lock
  /\ lost' = lost \cup {Gen(f) : f \in {g \in open : flights[g].pc \in {"sent", "answered"}}}
  /\ UNCHANGED <<row, providerVars>>

FlightStep(f) ==
  \/ ReadBefore(f) \/ TakeLock(f) \/ Reread(f) \/ Store(f) \/ Refused(f) \/ RollBackAborted(f)
  \/ Timeout(f)

Next ==
  \/ Connect
  \/ Remove
  \/ \E c \in Callers, p \in Pods : Ask(c, p)
  \/ \E c \in Callers : Join(c) \/ Cancel(c)
  \/ \E f \in Callers : FlightStep(f) \/ DatabaseFails(f) \/ Provider(f) \/ Unreachable(f) \/ DropSession(f)
  \/ \E p \in Pods : Crash(p)

Spec == Init /\ [][Next]_vars

(* A flight's steps are database calls that return, or fail in a broken     *)
(* session, and one provider call with a deadline; the server grants an     *)
(* advisory lock in the order of the queue.  Neither the provider nor the   *)
(* database is asked to fail or to answer.                                  *)
Fairness ==
  \A f \in Callers :
    /\ SF_vars(TakeLock(f))
    /\ WF_vars(FlightStep(f))
    /\ WF_vars(flights[f].dropped /\ DatabaseFails(f))

FairSpec == Spec /\ Fairness

----------------------------------------------------------------------------

(* The provider refuses a refresh token, and refresh_dead tells the owner to *)
(* reconnect, only when an answer for that grant was lost: no two flights of *)
(* the fleet consume one refresh token (doRefresh).                          *)
DeadForCause ==
  \A f \in Callers : flights[f].pc = "refused" => Gen(f) \in lost

(* A caller is served a token of the generation it is bound to, although the *)
(* connection is replaced meanwhile (refreshKey, expectedId of get and       *)
(* updateTokens).                                                            *)
OwnGeneration ==
  \A c \in Callers : callers[c].outcome = "token" => issued[callers[c].token] = Gen(c)

(* The flights and what they were served. *)
ServedInTurn == TypeOK /\ OwnGeneration

(* A caller that did not cancel is not aborted by the cancellation of others, *)
(* unless it joined a flight that all of them had left already: that flight   *)
(* stays in the map until it ends (waitForRefresh, refreshFlights).           *)
PeerUnharmed ==
  \A c \in Callers :
    callers[c].outcome = "abort" => callers[c].cancelled \/ callers[c].late

(* Every caller that waits for a flight is answered, whatever the other      *)
(* flights, cancellations, reconnects and broken sessions (refreshAndStore). *)
EveryWaiterAnswered ==
  \A c \in Callers : callers[c].pc = "waiting" ~> callers[c].pc \in {"done", "dead"}

(* A rotation takes effect when it commits: until then the grant counts as   *)
(* answering to the token that was presented.                                *)
CommittedLive ==
  [g \in Tokens |->
     IF lock # None /\ flights[lock].pc = "answered" /\ Gen(lock) = g
     THEN flights[lock].before ELSE live[g]]

Abstract == INSTANCE Rotation WITH live <- CommittedLive

(* Refresh implements atomic rotation: the stored refresh token is the one   *)
(* the provider takes unless an answer was lost (doRefresh, updateTokens).   *)
AtomicRotation == Abstract!Spec
=============================================================================
