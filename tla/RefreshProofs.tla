---------------------------- MODULE RefreshProofs ----------------------------
(***************************************************************************)
(* What TLAPS proves of Refresh, for any number of pods, callers and token *)
(* pairs: it implements Rotation, and its invariant holds.                 *)
(***************************************************************************)
EXTENDS RefreshInv, TLAPS

USE RefreshAssumption

(* The outcomes of a flight, as its waiters see them. *)
Outcomes == {"token", "stale", "error", "abort"}

LEMMA RefreshInit == Init => RefreshIInv
<1> SUFFICES ASSUME Init PROVE RefreshIInv
  OBVIOUS
<1> USE DEF Init
<1>1. TypeOK
  BY DEF TypeOK, Tokens, NoRow, Flight, Caller
<1>2. RowOK
  BY DEF RowOK
<1>3. Agree
  BY DEF Agree, Abstract!Works, NoRow
<1>4. inflight = Running
  BY DEF Running
<1>5. ASSUME NEW c \in Callers
      PROVE  CallerOK(c) /\ LockOK(c) /\ AbortOK(c) /\ WireOK(c) /\ TokenOK(c)
  BY <1>5 DEF CallerOK, LockOK, AbortOK, WireOK, TokenOK, Locked
<1> QED BY <1>1, <1>2, <1>3, <1>4, <1>5 DEF RefreshIInv

----------------------------------------------------------------------------
(* The end of a flight.                                                     *)

(* What justifies the answer a flight ends with. *)
MayEnd(f, outcome, token) ==
  /\ outcome \in Outcomes /\ token \in 0..MaxTokens
  /\ outcome = "token" => IssuedFor(token, Gen(f))
  /\ outcome = "abort" => flights[f].aborted

(* A request that outlives its flight, and an answer that is not stored,   *)
(* cost the grant.                                                         *)
PaidFor(f) ==
  /\ UNCHANGED <<issued, live>>
  /\ wire' \subseteq wire /\ wire \ {f} \subseteq wire'
  /\ lost \subseteq lost' /\ lost' \subseteq Tokens
  /\ f \in wire' => Gen(f) \in lost'

LEMMA CallerEnds ==
  ASSUME NEW x \in Caller, NEW outcome \in Outcomes, NEW token \in 0..MaxTokens
  PROVE  [x EXCEPT !.pc = "done", !.outcome = outcome, !.token = token] \in Caller
BY DEF Caller, Outcomes

LEMMA EndedIsFlight == ASSUME NEW x \in Flight PROVE Ended(x) \in Flight
<1>1. 0 \in 0..MaxTokens
  OBVIOUS
<1> QED BY <1>1 DEF Flight, Ended

(* The flight has ended, and no other has changed. *)
LEMMA SettleFlights ==
  ASSUME RefreshIInv, NEW f \in Callers, NEW outcome, NEW token, Settle(f, outcome, token)
  PROVE  /\ flights' \in [Callers -> Flight]
         /\ \A g \in Callers \ {f} : flights'[g] = flights[g]
         /\ flights'[f].pc = "done" /\ ~flights'[f].aborted /\ ~flights'[f].dropped
<1>1. flights \in [Callers -> Flight]
  BY DEF RefreshIInv, TypeOK
<1>2. Ended(flights[f]) \in Flight
  <2>1. flights[f] \in Flight /\ 0 \in 0..MaxTokens
    BY <1>1
  <2> QED BY <2>1, EndedIsFlight
<1>3. flights' = [flights EXCEPT ![f] = Ended(flights[f])]
  BY DEF Settle
<1>4. flights'[f] = Ended(flights[f])
  BY <1>1, <1>3
<1>5. Ended(flights[f]).pc = "done" /\ ~Ended(flights[f]).aborted /\ ~Ended(flights[f]).dropped
  BY <1>1 DEF Ended, Flight
<1> QED BY <1>1, <1>2, <1>3, <1>4, <1>5

(* Who a caller is does not change, and a caller that still waits did.      *)
LEMMA SettleWaiters ==
  ASSUME RefreshIInv, NEW f \in Callers, NEW outcome, NEW token, Settle(f, outcome, token),
         NEW c \in Callers
  PROVE  /\ Gen(c)' = Gen(c) /\ Pod(c)' = Pod(c)
         /\ callers'[c].pc = "waiting" => c \notin Waiters(f)
         /\ c \notin Waiters(f) => callers'[c] = callers[c]
<1>1. callers[c] \in Caller
  BY DEF RefreshIInv, TypeOK
<1>2. CASE c \in Waiters(f)
  <2>1. callers'[c] = [callers[c] EXCEPT !.pc = "done", !.outcome = outcome, !.token = token]
    BY <1>2 DEF Settle
  <2> QED BY <1>1, <1>2, <2>1 DEF Caller, Gen, Pod
<1>3. CASE c \notin Waiters(f)
  BY <1>3 DEF Settle, Gen, Pod
<1> QED BY <1>2, <1>3

LEMMA SettleCallers ==
  ASSUME RefreshIInv, NEW f \in Callers, f \in Running, NEW outcome, NEW token,
         Settle(f, outcome, token), MayEnd(f, outcome, token), UNCHANGED issued
  PROVE  /\ callers' \in [Callers -> Caller]
         /\ \A c \in Callers : CallerOK(c)'
<1>1. ASSUME NEW c \in Callers PROVE callers[c] \in Caller /\ CallerOK(c)
  BY <1>1 DEF RefreshIInv, TypeOK
<1>2. ASSUME NEW c \in Callers, c \in Waiters(f)
      PROVE  callers'[c] = [callers[c] EXCEPT !.pc = "done", !.outcome = outcome, !.token = token]
  BY <1>2 DEF Settle
<1>3. ASSUME NEW c \in Callers, c \notin Waiters(f) PROVE callers'[c] = callers[c]
  BY <1>3 DEF Settle
<1>4. callers' \in [Callers -> Caller]
  <2>1. ASSUME NEW c \in Callers PROVE callers'[c] \in Caller
    <3>1. CASE c \in Waiters(f)
      <4>1. outcome \in Outcomes /\ token \in 0..MaxTokens /\ callers[c] \in Caller
        BY <1>1 DEF MayEnd
      <4>2. [callers[c] EXCEPT !.pc = "done", !.outcome = outcome, !.token = token] \in Caller
        BY <4>1, CallerEnds, Zenon
      <4> QED BY <1>2, <3>1, <4>2
    <3>2. CASE c \notin Waiters(f)
      BY <1>1, <1>3, <3>2
    <3> QED BY <3>1, <3>2
  <2> QED BY <2>1 DEF Settle
<1>5. ASSUME NEW c \in Callers PROVE CallerOK(c)'
  <2>1. flights'[c].pc = "none" <=> flights[c].pc = "none"
    BY SettleFlights DEF Running
  <2>2. f \in inflight /\ inflight' = inflight \ {f} /\ inflight \subseteq Callers
    BY DEF Settle, RefreshIInv, TypeOK
  <2>3. \A d \in Callers : Gen(d)' = Gen(d) /\ Pod(d)' = Pod(d)
    BY SettleWaiters
  <2>4. CASE c \notin Waiters(f)
    <3>1. callers'[c] = callers[c]
      BY <1>3, <2>4
    <3>2. callers[c].pc = "waiting" => callers[c].flight # f
      BY <2>4 DEF Waiters
    <3> QED BY <1>1, <2>1, <2>2, <2>3, <3>1, <3>2 DEF CallerOK, Granted, IssuedFor, SameKey
  <2>5. CASE c \in Waiters(f)
    <3>1. callers'[c] = [callers[c] EXCEPT !.pc = "done", !.outcome = outcome, !.token = token]
      BY <1>2, <2>5
    <3>2. callers[c].pc = "waiting" /\ callers[c].flight = f
      BY <2>5 DEF Waiters
    <3>3. Gen(c) = Gen(f) /\ Granted(Gen(c))
      BY <1>1, <3>2 DEF CallerOK, SameKey
    <3>4. outcome = "abort" => callers[c].late
      BY <2>5 DEF RefreshIInv, AbortOK, MayEnd
    <3>5. /\ callers'[c].pc = "done" /\ callers'[c].outcome = outcome
          /\ callers'[c].token = token /\ callers'[c].late = callers[c].late
      BY <1>1, <3>1 DEF Caller
    <3> QED BY <2>3, <3>3, <3>4, <3>5 DEF CallerOK, Granted, IssuedFor, MayEnd
  <2> QED BY <2>4, <2>5
<1> QED BY <1>4, <1>5

(* The stored row belongs to the transaction that holds the lock. *)
LEMMA SettleKeeps ==
  ASSUME RefreshIInv, NEW f \in Callers, f \in Running, NEW outcome, NEW token,
         Settle(f, outcome, token), MayEnd(f, outcome, token), PaidFor(f),
         row' \in [id : 0..MaxTokens, rt : 0..MaxTokens, at : 0..MaxTokens],
         row' = row \/ lock = f, RowOK', Agree'
  PROVE  RefreshIInv'
<1>1. ASSUME NEW c \in Callers
      PROVE  callers[c] \in Caller /\ CallerOK(c) /\ LockOK(c) /\ AbortOK(c) /\ WireOK(c) /\ TokenOK(c)
  BY <1>1 DEF RefreshIInv, TypeOK
<1>2. /\ flights' \in [Callers -> Flight]
      /\ \A g \in Callers \ {f} : flights'[g] = flights[g]
      /\ flights'[f].pc = "done" /\ ~flights'[f].aborted /\ ~flights'[f].dropped
  BY SettleFlights
<1>3. callers' \in [Callers -> Caller] /\ \A c \in Callers : CallerOK(c)'
  BY SettleCallers DEF PaidFor
<1>4. \A c \in Callers : Gen(c)' = Gen(c)
  BY SettleWaiters
<1>5. lock' = IF lock = f THEN None ELSE lock
  BY DEF Settle, Released
<1>6. ASSUME NEW g \in Callers PROVE LockOK(g)'
  BY <1>1, <1>2, <1>5 DEF LockOK, Locked
<1>7. TypeOK'
  <2>1. lock' # None => lock' \in Callers /\ flights'[lock'].pc \in Locked
    BY <1>2, <1>5 DEF RefreshIInv, TypeOK, Locked
  <2>2. inflight' \subseteq Callers /\ wire' \subseteq Callers
    BY DEF RefreshIInv, TypeOK, Settle, PaidFor
  <2> QED BY <1>2, <1>3, <2>1, <2>2 DEF TypeOK, RefreshIInv, PaidFor, Locked
<1>8. (inflight = Running)'
  BY <1>2 DEF RefreshIInv, Running, Settle
<1>9. ASSUME NEW g \in Callers PROVE AbortOK(g)'
  <2>1. CASE g = f
    BY <1>2, <2>1 DEF AbortOK
  <2>2. CASE g # f
    <3>1. ASSUME NEW c \in Waiters(g)' PROVE c \in Waiters(g) /\ callers'[c] = callers[c]
      BY <2>2, SettleWaiters DEF Waiters
    <3> QED BY <1>1, <1>2, <2>2, <3>1 DEF AbortOK
  <2> QED BY <2>1, <2>2
<1>10. ASSUME NEW g \in Callers PROVE WireOK(g)'
  <2>1. CASE g = f
    BY <1>2, <1>4, <2>1 DEF WireOK, PaidFor
  <2>2. CASE g # f
    BY <1>1, <1>2, <1>4, <2>2 DEF WireOK, PaidFor
  <2> QED BY <2>1, <2>2
<1>11. ASSUME NEW g \in Callers PROVE TokenOK(g)'
  <2>1. CASE g = f
    BY <1>2, <2>1 DEF TokenOK, Locked
  <2>2. CASE g # f
    <3>1. lock = g => row' = row
      BY <2>2
    <3>2. flights'[g] = flights[g] /\ TokenOK(g) /\ LockOK(g) /\ Gen(g)' = Gen(g)
      BY <1>1, <1>2, <1>4, <2>2
    <3>3. UNCHANGED <<issued, live>> /\ lost \subseteq lost'
      BY DEF PaidFor
    <3> QED BY <3>1, <3>2, <3>3 DEF TokenOK, LockOK, Locked, Stored, IssuedFor, NoRow
  <2> QED BY <2>1, <2>2
<1> QED BY <1>3, <1>6, <1>7, <1>8, <1>9, <1>10, <1>11 DEF RefreshIInv

----------------------------------------------------------------------------
(* A flight goes on.                                                        *)

(* Token pairs are only added. *)
Grows ==
  /\ Len(issued) <= Len(issued')
  /\ \A n \in 1..Len(issued) : issued'[n] = issued[n]

(* A step of flight f leaves the others, and what they rely on, alone. *)
OnlyMoves(f) ==
  /\ flights'[f].pc = flights[f].pc \/ (f \in Running /\ f \in Running')
  /\ \A g \in Callers \ {f} : flights'[g] = flights[g] /\ (lock' = g <=> lock = g)
  /\ UNCHANGED <<row, callers, inflight>>
  /\ Grows
  /\ wire \ {f} \subseteq wire' /\ wire' \subseteq wire \cup {f}
  /\ lost \subseteq lost'
  /\ \A g \in Tokens : live'[g] # live[g] => g \in lost' \/ (lock = f /\ g = Gen(f))

LEMMA FlightMoves ==
  ASSUME RefreshIInv, NEW f \in Callers, OnlyMoves(f), TypeOK', Agree',
         LockOK(f)', AbortOK(f)', WireOK(f)', TokenOK(f)'
  PROVE  RefreshIInv'
<1> USE DEF OnlyMoves
<1>1. ASSUME NEW c \in Callers
      PROVE  callers[c] \in Caller /\ CallerOK(c) /\ LockOK(c) /\ AbortOK(c) /\ WireOK(c) /\ TokenOK(c)
  BY <1>1 DEF RefreshIInv, TypeOK
<1>2. MaxTokens \in Nat /\ Len(issued) \in Nat /\ Len(issued') \in Nat
  BY DEF RefreshIInv, TypeOK
<1>3. \A n, g : IssuedFor(n, g) => IssuedFor(n, g)'
  BY <1>2 DEF IssuedFor, Grows
<1>4. \A g : Granted(g) => Granted(g)'
  BY <1>2 DEF Granted, Grows
<1>5. \A c \in Callers : Gen(c)' = Gen(c) /\ Pod(c)' = Pod(c) /\ callers'[c] = callers[c]
  BY DEF Gen, Pod
<1>6. RowOK'
  BY <1>3, <1>4 DEF RefreshIInv, RowOK
<1>7. (inflight = Running)'
  BY DEF RefreshIInv, Running
<1>8. ASSUME NEW c \in Callers PROVE CallerOK(c)'
  <2>1. flights'[c].pc = "none" <=> flights[c].pc = "none"
    BY DEF Running
  <2>2. \A n \in 1..Len(issued) : n \in 1..Len(issued') /\ issued'[n] = issued[n]
    BY <1>2 DEF Grows
  <2>3. (callers[c].pc # "idle" => Granted(Gen(c)))'
    BY <1>1, <1>5, <2>2 DEF CallerOK, Granted
  <2>4. (callers[c].outcome = "token" => IssuedFor(callers[c].token, Gen(c)))'
    BY <1>1, <1>5, <2>2 DEF CallerOK, IssuedFor
  <2>5. (callers[c].pc = "waiting" => callers[c].flight \in inflight /\ SameKey(callers[c].flight, c))'
    <3>1. inflight \subseteq Callers
      BY DEF RefreshIInv, TypeOK
    <3> QED BY <1>1, <1>5, <3>1 DEF CallerOK, SameKey
  <2> QED BY <1>1, <1>5, <2>1, <2>3, <2>4, <2>5 DEF CallerOK
<1>9. ASSUME NEW g \in Callers, g # f PROVE LockOK(g)' /\ AbortOK(g)' /\ WireOK(g)' /\ TokenOK(g)'
  <2>1. flights'[g] = flights[g] /\ (lock' = g <=> lock = g)
    BY <1>9
  <2>2. LockOK(g)'
    BY <1>1, <2>1 DEF LockOK
  <2>3. AbortOK(g)'
    BY <1>1, <1>5, <2>1 DEF AbortOK, Waiters
  <2>4. WireOK(g)'
    BY <1>1, <1>5, <1>9, <2>1 DEF WireOK
  <2>5. flights[g].pc = "answered" => Gen(g) \in Tokens
    <3>1. flights[g].pc = "answered" => callers[g].pc # "idle"
      BY <1>1 DEF CallerOK
    <3> QED BY <1>1, <1>2, <3>1 DEF CallerOK, Granted, Tokens, RefreshIInv, TypeOK
  <2>6. flights[g].pc = "answered" /\ ~flights[g].dropped =>
          live'[Gen(g)] = live[Gen(g)] \/ Gen(g) \in lost'
    BY <1>1, <1>9, <2>5 DEF LockOK, Locked
  <2>7. TokenOK(g)'
    <3>1. \A n : IssuedFor(n, Gen(g)) => IssuedFor(n, Gen(g))'
      BY <1>3, <1>5
    <3> QED BY <1>1, <1>5, <2>1, <2>6, <3>1 DEF TokenOK, Stored, NoRow
  <2> QED BY <2>2, <2>3, <2>4, <2>7
<1>10. \A g \in Callers : LockOK(g)' /\ AbortOK(g)' /\ WireOK(g)' /\ TokenOK(g)'
  BY <1>9
<1> QED BY <1>6, <1>7, <1>8, <1>10 DEF RefreshIInv

----------------------------------------------------------------------------
(* The steps of a flight, one by one.                                       *)

LEMMA GrantOfFlight ==
  ASSUME RefreshIInv, NEW f \in Callers, flights[f].pc # "none"
  PROVE  Gen(f) \in Tokens /\ Granted(Gen(f))
<1>1. callers[f].pc # "idle"
  BY DEF RefreshIInv, CallerOK
<1> QED BY <1>1 DEF RefreshIInv, CallerOK, Granted, Tokens, TypeOK

LEMMA ReadBeforeKeeps ==
  ASSUME RefreshIInv, NEW f \in Callers, ReadBefore(f), Agree' PROVE RefreshIInv'
<1> USE DEF ReadBefore, dbVars, providerVars
<1>1. flights \in [Callers -> Flight] /\ flights[f].pc = "start" /\ f \in Running
  BY DEF RefreshIInv, TypeOK, Running
<1>2. LockOK(f) /\ AbortOK(f) /\ WireOK(f) /\ TokenOK(f)
  BY DEF RefreshIInv
<1>3. PaidFor(f)
  BY <1>1, <1>2 DEF PaidFor, WireOK, RefreshIInv, TypeOK
<1>4. row' = row /\ RowOK' /\ row \in [id : 0..MaxTokens, rt : 0..MaxTokens, at : 0..MaxTokens]
  BY <1>3 DEF PaidFor, RefreshIInv, RowOK, TypeOK, Granted, IssuedFor
<1>5. MayEnd(f, "error", 0) /\ MayEnd(f, "stale", 0)
  BY DEF MayEnd, Outcomes
<1>6. CASE Settle(f, "error", 0)
  BY <1>1, <1>3, <1>4, <1>5, <1>6, SettleKeeps
<1>7. CASE Settle(f, "stale", 0)
  BY <1>1, <1>3, <1>4, <1>5, <1>7, SettleKeeps
<1>8. CASE /\ Stored(f) /\ row.rt # 0
           /\ flights' = [flights EXCEPT ![f] = [@ EXCEPT !.pc = "wait", !.before = row.rt]]
           /\ UNCHANGED <<lock, inflight, callers>>
  <2>1. /\ flights' \in [Callers -> Flight]
        /\ \A g \in Callers \ {f} : flights'[g] = flights[g]
    BY <1>1, <1>4, <1>8 DEF Flight
  <2>2. /\ flights'[f].pc = "wait" /\ flights'[f].before # 0
        /\ flights'[f].aborted = flights[f].aborted /\ flights'[f].dropped = flights[f].dropped
    BY <1>1, <1>4, <1>8 DEF Flight
  <2>3. lock # f /\ ~flights[f].dropped
    BY <1>1, <1>2 DEF LockOK, Locked
  <2>4. TypeOK'
    BY <1>8, <2>1, <2>3 DEF RefreshIInv, TypeOK
  <2>5. OnlyMoves(f)
    BY <1>1, <1>4, <1>8, <2>1, <2>2 DEF OnlyMoves, Running, Grows, RefreshIInv, TypeOK
  <2>6. LockOK(f)' /\ TokenOK(f)'
    BY <1>8, <2>2, <2>3 DEF LockOK, TokenOK, Locked
  <2>7. AbortOK(f)' /\ WireOK(f)'
    BY <1>1, <1>2, <1>8, <2>2 DEF AbortOK, WireOK, Waiters
  <2> QED BY <2>4, <2>5, <2>6, <2>7, FlightMoves
<1> QED BY <1>6, <1>7, <1>8

LEMMA TakeLockKeeps ==
  ASSUME RefreshIInv, NEW f \in Callers, TakeLock(f), Agree' PROVE RefreshIInv'
<1> USE DEF TakeLock, providerVars
<1>1. flights \in [Callers -> Flight] /\ flights[f].pc = "wait" /\ f \in Running
  BY DEF RefreshIInv, TypeOK, Running
<1>2. LockOK(f) /\ AbortOK(f) /\ WireOK(f) /\ TokenOK(f)
  BY DEF RefreshIInv
<1>3. /\ flights' \in [Callers -> Flight]
      /\ \A g \in Callers \ {f} : flights'[g] = flights[g]
  BY <1>1 DEF Flight
<1>4. /\ flights'[f].pc = "held" /\ flights'[f].before = flights[f].before
      /\ flights'[f].aborted = flights[f].aborted /\ flights'[f].dropped = flights[f].dropped
  BY <1>1 DEF Flight
<1>5. ~flights[f].dropped
  BY <1>1, <1>2 DEF LockOK, Locked
<1>6. TypeOK'
  BY <1>3, <1>4 DEF RefreshIInv, TypeOK
<1>7. OnlyMoves(f)
  BY <1>1, <1>3, <1>4 DEF OnlyMoves, Running, Grows, RefreshIInv, TypeOK
<1>8. LockOK(f)' /\ TokenOK(f)'
  BY <1>1, <1>2, <1>4, <1>5 DEF LockOK, TokenOK, Locked
<1>9. AbortOK(f)' /\ WireOK(f)'
  BY <1>1, <1>2, <1>4 DEF AbortOK, WireOK, Waiters
<1> QED BY <1>6, <1>7, <1>8, <1>9, FlightMoves

(* The token that is presented is the stored one, read under the lock.      *)
LEMMA RereadKeeps ==
  ASSUME RefreshIInv, NEW f \in Callers, Reread(f), Agree' PROVE RefreshIInv'
<1> USE DEF Reread
<1>1. flights \in [Callers -> Flight] /\ flights[f].pc = "held" /\ f \in Running
  BY DEF RefreshIInv, TypeOK, Running
<1>2. LockOK(f) /\ AbortOK(f) /\ WireOK(f) /\ TokenOK(f)
  BY DEF RefreshIInv
<1>3. row' = row /\ RowOK' /\ row \in [id : 0..MaxTokens, rt : 0..MaxTokens, at : 0..MaxTokens]
  BY DEF RefreshIInv, RowOK, TypeOK, Granted, IssuedFor
<1>4. wire' = wire => PaidFor(f)
  BY <1>1, <1>2 DEF PaidFor, WireOK, RefreshIInv, TypeOK
<1>5. CASE ~Stored(f) /\ Settle(f, "error", 0) /\ UNCHANGED wire
  BY <1>1, <1>3, <1>4, <1>5, SettleKeeps DEF MayEnd, Outcomes
<1>6. CASE Stored(f) /\ Settle(f, "token", row.at) /\ UNCHANGED wire
  <2>1. MayEnd(f, "token", row.at)
    BY <1>3, <1>6 DEF MayEnd, Outcomes, RefreshIInv, RowOK, Stored
  <2> QED BY <1>1, <1>3, <1>4, <1>6, <2>1, SettleKeeps
<1>7. CASE flights[f].aborted /\ Settle(f, "abort", 0) /\ UNCHANGED wire
  BY <1>1, <1>3, <1>4, <1>7, SettleKeeps DEF MayEnd, Outcomes
<1>8. CASE /\ Stored(f) /\ ~Moved(f) /\ ~flights[f].aborted
           /\ flights' = [flights EXCEPT ![f].pc = "sent"]
           /\ wire' = wire \cup {f}
           /\ UNCHANGED <<lock, inflight, callers>>
  <2>1. /\ flights' \in [Callers -> Flight]
        /\ \A g \in Callers \ {f} : flights'[g] = flights[g]
    BY <1>1, <1>8 DEF Flight
  <2>2. /\ flights'[f].pc = "sent" /\ flights'[f].before = flights[f].before
        /\ flights'[f].aborted = flights[f].aborted /\ flights'[f].dropped = flights[f].dropped
    BY <1>1, <1>8 DEF Flight
  <2>3. TypeOK'
    BY <1>3, <1>8, <2>1, <2>2 DEF RefreshIInv, TypeOK
  <2>4. OnlyMoves(f)
    BY <1>1, <1>3, <1>8, <2>1, <2>2 DEF OnlyMoves, Running, Grows, RefreshIInv, TypeOK
  <2>5. LockOK(f)' /\ TokenOK(f)'
    BY <1>1, <1>2, <1>3, <1>8, <2>2 DEF LockOK, TokenOK, Locked, Stored, Moved, Gen, NoRow
  <2>6. AbortOK(f)' /\ WireOK(f)'
    BY <1>1, <1>2, <1>8, <2>2 DEF AbortOK, WireOK, Waiters
  <2> QED BY <2>3, <2>4, <2>5, <2>6, FlightMoves
<1> QED BY <1>5, <1>6, <1>7, <1>8

LEMMA StoreKeeps ==
  ASSUME RefreshIInv, NEW f \in Callers, Store(f), Agree' PROVE RefreshIInv'
<1> USE DEF Store, providerVars
<1>1. flights \in [Callers -> Flight] /\ flights[f].pc = "answered" /\ f \in Running
  BY DEF RefreshIInv, TypeOK, Running
<1>2. LockOK(f) /\ WireOK(f) /\ TokenOK(f)
  BY DEF RefreshIInv
<1>3. lock = f
  BY <1>1, <1>2 DEF LockOK, Locked
<1>4. PaidFor(f)
  BY <1>1, <1>2 DEF PaidFor, WireOK, RefreshIInv, TypeOK
<1>5. row \in [id : 0..MaxTokens, rt : 0..MaxTokens, at : 0..MaxTokens]
  BY DEF RefreshIInv, TypeOK
<1>6. IssuedFor(flights[f].at, row.id)
  BY <1>1, <1>2 DEF TokenOK, Stored
<1>7. /\ row' \in [id : 0..MaxTokens, rt : 0..MaxTokens, at : 0..MaxTokens]
      /\ row'.id = row.id /\ row'.at = flights[f].at
  BY <1>1, <1>5 DEF Updated, Flight
<1>8. RowOK'
  BY <1>6, <1>7 DEF RowOK, RefreshIInv, Stored, Granted, IssuedFor
<1>9. MayEnd(f, "token", flights[f].at)
  BY <1>1, <1>2 DEF MayEnd, Outcomes, TokenOK, Flight
<1> QED BY <1>1, <1>3, <1>4, <1>7, <1>8, <1>9, SettleKeeps

LEMMA FailureKeeps ==
  ASSUME RefreshIInv, NEW f \in Callers,
         Refused(f) \/ RollBackAborted(f) \/ Timeout(f) \/ DatabaseFails(f) \/ Unreachable(f),
         Agree'
  PROVE  RefreshIInv'
<1> USE DEF Refused, RollBackAborted, Timeout, DatabaseFails, Unreachable, providerVars
<1>1. flights \in [Callers -> Flight] /\ f \in Running
  BY DEF RefreshIInv, TypeOK, Running
<1>2. LockOK(f) /\ AbortOK(f) /\ WireOK(f)
  BY DEF RefreshIInv
<1>3. row' = row /\ RowOK' /\ row \in [id : 0..MaxTokens, rt : 0..MaxTokens, at : 0..MaxTokens]
  BY DEF RefreshIInv, RowOK, TypeOK, Granted, IssuedFor
<1>4. Gen(f) \in Tokens
  BY <1>1, GrantOfFlight
<1>5. PaidFor(f)
  BY <1>1, <1>2, <1>4 DEF PaidFor, WireOK, RefreshIInv, TypeOK
<1>6. CASE Settle(f, "error", 0)
  BY <1>1, <1>3, <1>5, <1>6, SettleKeeps DEF MayEnd, Outcomes
<1>7. CASE RollBackAborted(f)
  <2>1. MayEnd(f, "abort", 0)
    BY <1>2, <1>7 DEF MayEnd, Outcomes, AbortOK
  <2> QED BY <1>1, <1>3, <1>5, <1>7, <2>1, SettleKeeps
<1> QED BY <1>6, <1>7

(* The stored token the holder of the lock presents is the live one, unless *)
(* an answer was lost.                                                      *)
LEMMA PresentsLive ==
  ASSUME RefreshIInv, NEW f \in Callers, flights[f].pc = "sent"
  PROVE  live[Gen(f)] = flights[f].before \/ Gen(f) \in lost
<1>1. LockOK(f) /\ TokenOK(f) /\ Gen(f) \in Tokens
  BY GrantOfFlight DEF RefreshIInv
<1>2. CASE flights[f].dropped
  BY <1>1, <1>2 DEF TokenOK
<1>3. CASE ~flights[f].dropped
  <2>1. lock = f /\ Stored(f) /\ row.rt = flights[f].before /\ row.rt # 0
    BY <1>1, <1>3 DEF LockOK, TokenOK, Locked
  <2>2. CommittedLive[Gen(f)] = live[Gen(f)]
    BY <1>1, <2>1 DEF CommittedLive
  <2> QED BY <2>1, <2>2 DEF RefreshIInv, Agree, Abstract!Works, Stored
<1> QED BY <1>2, <1>3

LEMMA ProviderKeeps ==
  ASSUME RefreshIInv, NEW f \in Callers, Provider(f), Agree' PROVE RefreshIInv'
<1> USE DEF Provider, dbVars
<1>1. flights \in [Callers -> Flight] /\ f \in wire
  BY DEF RefreshIInv, TypeOK
<1>2. LockOK(f) /\ AbortOK(f) /\ WireOK(f) /\ TokenOK(f)
  BY DEF RefreshIInv
<1>3. Gen(f) \in Tokens
  BY <1>1, <1>2, GrantOfFlight DEF WireOK
<1>4. MaxTokens \in Nat /\ issued \in Seq(Tokens) /\ Len(issued) \in Nat
  BY DEF RefreshIInv, TypeOK
<1>5. (flights' = flights /\ flights[f].pc # "sent") \/ flights[f].pc = "sent"
  OBVIOUS
<1>6. /\ issued' \in Seq(Tokens) /\ Len(issued') <= MaxTokens /\ Grows
      /\ live' \in [Tokens -> 0..MaxTokens]
      /\ \A g \in Tokens \ {Gen(f)} : live'[g] = live[g]
  <2>1. CASE UNCHANGED <<issued, live>>
    BY <2>1 DEF RefreshIInv, TypeOK, Grows
  <2>2. ASSUME Fresh <= MaxTokens, issued' = Append(issued, Gen(f)),
               NEW rt \in {Fresh, live[Gen(f)]}, live' = [live EXCEPT ![Gen(f)] = rt]
        PROVE  /\ issued' \in Seq(Tokens) /\ Len(issued') <= MaxTokens /\ Grows
               /\ live' \in [Tokens -> 0..MaxTokens]
               /\ \A g \in Tokens \ {Gen(f)} : live'[g] = live[g]
    <3>1. rt \in 0..MaxTokens
      BY <1>3, <1>4, <2>2 DEF RefreshIInv, TypeOK, Fresh
    <3>2. live \in [Tokens -> 0..MaxTokens]
      BY DEF RefreshIInv, TypeOK
    <3>3. issued' \in Seq(Tokens) /\ Len(issued') = Len(issued) + 1
      BY <1>3, <1>4, <2>2
    <3>4. Grows
      BY <1>3, <1>4, <2>2, <3>3 DEF Grows
    <3> QED BY <1>4, <2>2, <3>1, <3>2, <3>3, <3>4 DEF Fresh
  <2> QED BY <2>1, <2>2
<1>7. CASE flights' = flights /\ flights[f].pc # "sent"
  <2>1. Gen(f) \in lost
    BY <1>1, <1>2, <1>7 DEF WireOK
  <2>2. TypeOK'
    BY <1>6, <1>7 DEF RefreshIInv, TypeOK
  <2>3. OnlyMoves(f)
    BY <1>6, <1>7, <2>1 DEF OnlyMoves, RefreshIInv, TypeOK
  <2>4. LockOK(f)' /\ AbortOK(f)' /\ WireOK(f)'
    BY <1>2, <1>7 DEF LockOK, AbortOK, WireOK, Waiters
  <2>5. TokenOK(f)'
    BY <1>1, <1>2, <1>7 DEF TokenOK, WireOK
  <2> QED BY <2>2, <2>3, <2>4, <2>5, FlightMoves
<1>8. CASE flights[f].pc = "sent"
  <2>1. Gen(f) \in lost' \/ (lock = f /\ ~flights[f].dropped)
    BY <1>2, <1>8 DEF LockOK, TokenOK, Locked
  <2>2. ASSUME NEW x \in Flight, flights' = [flights EXCEPT ![f] = x],
               x.pc \in {"answered", "refused"}, x.before = flights[f].before,
               x.aborted = flights[f].aborted, x.dropped = flights[f].dropped, TokenOK(f)'
        PROVE  RefreshIInv'
    <3>1. /\ flights' \in [Callers -> Flight]
          /\ \A g \in Callers \ {f} : flights'[g] = flights[g]
          /\ flights'[f] = x
      BY <1>1, <2>2
    <3>2. TypeOK'
      BY <1>6, <1>8, <2>2, <3>1 DEF RefreshIInv, TypeOK
    <3>3. OnlyMoves(f)
      BY <1>6, <1>8, <2>1, <2>2, <3>1 DEF OnlyMoves, Running, RefreshIInv, TypeOK
    <3>4. LockOK(f)' /\ AbortOK(f)' /\ WireOK(f)'
      BY <1>2, <1>8, <2>2, <3>1 DEF LockOK, AbortOK, WireOK, Waiters, Locked
    <3> QED BY <2>2, <3>2, <3>3, <3>4, FlightMoves
  <2>3. CASE /\ live[Gen(f)] # flights[f].before
             /\ flights' = [flights EXCEPT ![f] = [@ EXCEPT !.pc = "refused"]]
    <3>1. Gen(f) \in lost
      BY <1>8, <2>3, PresentsLive
    <3> DEFINE x == [flights[f] EXCEPT !.pc = "refused"]
    <3>2. /\ x \in Flight /\ x.pc = "refused" /\ x.before = flights[f].before
          /\ x.aborted = flights[f].aborted /\ x.dropped = flights[f].dropped
      BY <1>1 DEF Flight
    <3>3. flights' = [flights EXCEPT ![f] = x] /\ flights'[f] = x
      BY <1>1, <2>3
    <3> HIDE DEF x
    <3>4. TokenOK(f)'
      BY <1>2, <1>8, <3>1, <3>2, <3>3 DEF TokenOK, Locked, Gen
    <3> QED BY <2>2, <3>2, <3>3, <3>4
  <2>4. ASSUME live[Gen(f)] = flights[f].before, Fresh <= MaxTokens,
               issued' = Append(issued, Gen(f)),
               NEW rt \in {Fresh, live[Gen(f)]}, live' = [live EXCEPT ![Gen(f)] = rt],
               flights' = [flights EXCEPT ![f] =
                            [flights[f] EXCEPT !.pc = "answered", !.rt = rt, !.at = Fresh]]
        PROVE  RefreshIInv'
    <3> DEFINE x == [flights[f] EXCEPT !.pc = "answered", !.rt = rt, !.at = Fresh]
    <3>1. live \in [Tokens -> 0..MaxTokens] /\ Fresh \in 1..MaxTokens /\ rt \in 0..MaxTokens
      BY <1>3, <1>4, <2>4 DEF RefreshIInv, TypeOK, Fresh
    <3>2. /\ x \in Flight /\ x.pc = "answered" /\ x.before = flights[f].before
          /\ x.aborted = flights[f].aborted /\ x.dropped = flights[f].dropped
          /\ x.rt = rt /\ x.at = Fresh
      <4>1. flights[f] \in Flight /\ Fresh \in 0..MaxTokens
        BY <1>1, <3>1
      <4> QED BY <3>1, <4>1 DEF Flight
    <3>3. flights' = [flights EXCEPT ![f] = x] /\ flights'[f] = x
      BY <1>1, <2>4
    <3> HIDE DEF x
    <3>4. Fresh \in 1..Len(issued') /\ issued'[Fresh] = Gen(f)
      BY <1>3, <1>4, <2>4 DEF Fresh
    <3>5. rt # 0
      BY <1>2, <1>8, <2>4, <3>1 DEF TokenOK, Locked
    <3>6. ~flights[f].dropped => Fresh > row.at
      BY <1>2, <1>4, <1>8 DEF TokenOK, RefreshIInv, RowOK, Stored, IssuedFor, Fresh
    <3>7. live'[Gen(f)] = rt
      BY <1>3, <2>4, <3>1
    <3>8. TokenOK(f)'
      BY <1>2, <1>8, <3>2, <3>3, <3>4, <3>5, <3>6, <3>7
      DEF TokenOK, Locked, Stored, Gen, IssuedFor, NoRow
    <3> QED BY <2>2, <3>2, <3>3, <3>8
  <2> QED BY <1>8, <2>3, <2>4
<1> QED BY <1>5, <1>7, <1>8

LEMMA DropSessionKeeps ==
  ASSUME RefreshIInv, NEW f \in Callers, DropSession(f), Agree' PROVE RefreshIInv'
<1> USE DEF DropSession, providerVars
<1>1. flights \in [Callers -> Flight] /\ flights[f].pc \in Locked /\ f \in Running
  BY DEF RefreshIInv, TypeOK, Running, LockOK, Locked
<1>2. LockOK(f) /\ AbortOK(f) /\ WireOK(f) /\ TokenOK(f)
  BY DEF RefreshIInv
<1>3. /\ flights' \in [Callers -> Flight]
      /\ \A g \in Callers \ {f} : flights'[g] = flights[g]
  BY <1>1 DEF Flight
<1>4. /\ flights'[f].pc = flights[f].pc /\ flights'[f].dropped
      /\ flights'[f].before = flights[f].before /\ flights'[f].at = flights[f].at
      /\ flights'[f].rt = flights[f].rt /\ flights'[f].aborted = flights[f].aborted
  BY <1>1 DEF Flight
<1>5. Gen(f) \in Tokens
  BY <1>1, GrantOfFlight DEF Locked
<1>6. TypeOK'
  BY <1>3, <1>5 DEF RefreshIInv, TypeOK
<1>7. OnlyMoves(f)
  BY <1>1, <1>3, <1>4 DEF OnlyMoves, Running, Grows, RefreshIInv, TypeOK
<1>8. LockOK(f)'
  BY <1>1, <1>4 DEF LockOK
<1>9. TokenOK(f)' /\ WireOK(f)'
  BY <1>1, <1>2, <1>4 DEF TokenOK, WireOK, Locked, IssuedFor, Gen
<1>10. AbortOK(f)'
  BY <1>1, <1>2, <1>4 DEF AbortOK, Waiters
<1> QED BY <1>6, <1>7, <1>8, <1>9, <1>10, FlightMoves

----------------------------------------------------------------------------
(* The callers.                                                             *)

LEMMA AskKeeps ==
  ASSUME RefreshIInv, NEW c \in Callers, NEW p \in Pods, Ask(c, p), Agree' PROVE RefreshIInv'
<1> USE DEF Ask, dbVars, providerVars
<1>1. ASSUME NEW d \in Callers
      PROVE  callers[d] \in Caller /\ CallerOK(d) /\ LockOK(d) /\ AbortOK(d) /\ WireOK(d) /\ TokenOK(d)
  BY <1>1 DEF RefreshIInv, TypeOK
<1>2. row.id \in 0..MaxTokens /\ Granted(row.id)
  BY DEF RefreshIInv, TypeOK, RowOK
<1>3. /\ callers'[c] \in Caller /\ callers'[c].pc = "ask" /\ Gen(c)' = row.id
      /\ callers'[c].outcome = "none" /\ flights[c].pc = "none"
  <2> DEFINE x == [callers[c] EXCEPT !.pc = "ask", !.pod = p, !.gen = row.id]
  <2>1. callers[c] \in Caller /\ callers[c].pc = "idle" /\ CallerOK(c)
    BY <1>1
  <2>2. /\ x \in Caller /\ x.pc = "ask" /\ x.gen = row.id /\ x.outcome = callers[c].outcome
    BY <1>2, <2>1 DEF Caller
  <2>3. callers'[c] = x
    BY DEF RefreshIInv, TypeOK
  <2> QED BY <2>1, <2>2, <2>3 DEF CallerOK, Gen
<1>4. \A d \in Callers \ {c} : callers'[d] = callers[d] /\ Gen(d)' = Gen(d) /\ Pod(d)' = Pod(d)
  BY DEF RefreshIInv, TypeOK, Gen, Pod
<1>5. \A f \in Callers : Waiters(f)' = Waiters(f) /\ c \notin Waiters(f)
  BY <1>3, <1>4 DEF Waiters
<1>6. TypeOK'
  BY <1>1, <1>3, <1>4 DEF RefreshIInv, TypeOK
<1>7. RowOK' /\ (inflight = Running)'
  BY DEF RefreshIInv, RowOK, Running, Granted, IssuedFor
<1>8. ASSUME NEW d \in Callers PROVE CallerOK(d)'
  <2>1. CASE d = c
    BY <1>2, <1>3, <2>1 DEF CallerOK, Granted
  <2>2. CASE d # c
    <3>1. callers[d].pc = "waiting" => callers[d].flight \in Callers \ {c}
      BY <1>1, <1>3 DEF CallerOK, RefreshIInv, Running
    <3> QED BY <1>1, <1>4, <2>2, <3>1 DEF CallerOK, SameKey, Granted, IssuedFor
  <2> QED BY <2>1, <2>2
<1>9. ASSUME NEW f \in Callers PROVE LockOK(f)' /\ AbortOK(f)' /\ WireOK(f)' /\ TokenOK(f)'
  <2>1. LockOK(f)'
    BY <1>1 DEF LockOK
  <2>2. AbortOK(f)'
    BY <1>1, <1>4, <1>5 DEF AbortOK, Waiters
  <2>3. WireOK(f)'
    BY <1>1, <1>3, <1>4 DEF WireOK
  <2>4. TokenOK(f)'
    BY <1>1, <1>3, <1>4 DEF TokenOK, Locked, Stored, NoRow, IssuedFor
  <2> QED BY <2>1, <2>2, <2>3, <2>4
<1> QED BY <1>6, <1>7, <1>8, <1>9 DEF RefreshIInv

(* The caller x, once it waits for flight f. *)
Waits(x, f, late) == [x EXCEPT !.pc = "waiting", !.flight = f, !.late = late]

LEMMA JoinFlightKeeps ==
  ASSUME RefreshIInv, NEW c \in Callers, callers[c].pc = "ask",
         NEW f \in Callers, f \in Peers(c),
         callers' = [callers EXCEPT ![c] = Waits(callers[c], f, flights[f].aborted)],
         UNCHANGED <<dbVars, providerVars, flights, inflight, lost>>, Agree'
  PROVE  RefreshIInv'
<1> USE DEF dbVars, providerVars
<1>1. ASSUME NEW d \in Callers
      PROVE  callers[d] \in Caller /\ CallerOK(d) /\ LockOK(d) /\ AbortOK(d) /\ WireOK(d) /\ TokenOK(d)
  BY <1>1 DEF RefreshIInv, TypeOK
<1>2. f \in Callers /\ f \in inflight /\ SameKey(f, c) /\ flights[f].aborted \in BOOLEAN
  BY DEF Peers, RefreshIInv, TypeOK, Flight
<1>3. /\ callers' \in [Callers -> Caller]
      /\ \A d \in Callers : Gen(d)' = Gen(d) /\ Pod(d)' = Pod(d)
      /\ \A d \in Callers \ {c} : callers'[d] = callers[d]
      /\ callers'[c].pc = "waiting" /\ callers'[c].flight = f
      /\ (callers'[c].late <=> flights[f].aborted)
      /\ callers'[c].outcome = "none" /\ Granted(Gen(c))
      /\ \A g \in Callers \ {f} : Waiters(g)' = Waiters(g)
      /\ Waiters(f)' = Waiters(f) \cup {c}
  <2>1. callers[c] \in Caller /\ flights[f].aborted \in BOOLEAN
    BY <1>1 DEF RefreshIInv, TypeOK, Flight
  <2>2. Waits(callers[c], f, flights[f].aborted) \in Caller
    BY <2>1 DEF Caller, Waits
  <2>3. PICK x \in Caller : x = Waits(callers[c], f, flights[f].aborted)
    BY <2>2
  <2>4. /\ x.pc = "waiting" /\ x.flight = f /\ x.outcome = callers[c].outcome
        /\ x.gen = callers[c].gen /\ x.pod = callers[c].pod
        /\ (x.late <=> flights[f].aborted)
    BY <2>1, <2>3 DEF Caller, Waits
  <2>5. callers' = [callers EXCEPT ![c] = x]
    BY <2>3
  <2>6. /\ callers' \in [Callers -> Caller] /\ callers'[c] = x
        /\ \A d \in Callers \ {c} : callers'[d] = callers[d]
    BY <2>5 DEF RefreshIInv, TypeOK
  <2>7. callers[c].outcome = "none" /\ Granted(Gen(c)) /\ flights[c].pc = "none"
    BY <1>1 DEF CallerOK
  <2> QED BY <2>4, <2>6, <2>7 DEF Gen, Pod, Waiters
<1>4. TypeOK'
  BY <1>3 DEF RefreshIInv, TypeOK
<1>5. RowOK' /\ (inflight = Running)'
  BY DEF RefreshIInv, RowOK, Running, Granted, IssuedFor
<1>6. ASSUME NEW d \in Callers PROVE CallerOK(d)'
  <2>1. CASE d = c
    BY <1>2, <1>3, <2>1 DEF CallerOK, Granted, SameKey
  <2>2. CASE d # c
    <3>1. inflight \subseteq Callers
      BY DEF RefreshIInv, TypeOK
    <3> QED BY <1>1, <1>3, <2>2, <3>1 DEF CallerOK, SameKey, Granted, IssuedFor
  <2> QED BY <2>1, <2>2
<1>7. ASSUME NEW g \in Callers PROVE LockOK(g)' /\ AbortOK(g)' /\ WireOK(g)' /\ TokenOK(g)'
  <2>1. LockOK(g)' /\ WireOK(g)' /\ TokenOK(g)'
    BY <1>1, <1>3 DEF LockOK, WireOK, TokenOK, Locked, Stored, NoRow, IssuedFor
  <2>2. AbortOK(g)'
    <3>1. ASSUME NEW d \in Waiters(g)', flights[g].aborted PROVE callers'[d].late
      <4>1. d \in Callers
        BY DEF Waiters
      <4>2. CASE d = c
        <5>1. g = f
          BY <1>3, <4>2 DEF Waiters
        <5> QED BY <1>3, <3>1, <4>2, <5>1
      <4>3. CASE d # c
        BY <1>1, <1>3, <3>1, <4>1, <4>3 DEF AbortOK, Waiters
      <4> QED BY <4>2, <4>3
    <3> QED BY <1>1, <3>1 DEF AbortOK
  <2> QED BY <2>1, <2>2
<1> QED BY <1>4, <1>5, <1>6, <1>7 DEF RefreshIInv

LEMMA StartFlightKeeps ==
  ASSUME RefreshIInv, NEW c \in Callers, callers[c].pc = "ask",
         flights' = [flights EXCEPT ![c].pc = "start"],
         inflight' = inflight \cup {c},
         callers' = [callers EXCEPT ![c] = Waits(callers[c], c, callers[c].late)],
         UNCHANGED <<dbVars, providerVars, lost>>, Agree'
  PROVE  RefreshIInv'
<1> USE DEF dbVars, providerVars
<1>1. ASSUME NEW d \in Callers
      PROVE  callers[d] \in Caller /\ CallerOK(d) /\ LockOK(d) /\ AbortOK(d) /\ WireOK(d) /\ TokenOK(d)
  BY <1>1 DEF RefreshIInv, TypeOK
<1>2. /\ callers' \in [Callers -> Caller]
      /\ \A d \in Callers : Gen(d)' = Gen(d) /\ Pod(d)' = Pod(d)
      /\ \A d \in Callers \ {c} : callers'[d] = callers[d]
      /\ callers'[c].pc = "waiting" /\ callers'[c].flight = c
      /\ callers'[c].outcome = "none" /\ Granted(Gen(c)) /\ flights[c].pc = "none"
      /\ \A g \in Callers \ {c} : Waiters(g)' = Waiters(g)
  <2>1. callers[c] \in Caller /\ flights[c].aborted \in BOOLEAN
    BY <1>1 DEF RefreshIInv, TypeOK, Flight
  <2>2. Waits(callers[c], c, callers[c].late) \in Caller
    BY <2>1 DEF Caller, Waits
  <2>3. PICK x \in Caller : x = Waits(callers[c], c, callers[c].late)
    BY <2>2
  <2>4. /\ x.pc = "waiting" /\ x.flight = c /\ x.outcome = callers[c].outcome
        /\ x.gen = callers[c].gen /\ x.pod = callers[c].pod
    BY <2>1, <2>3 DEF Caller, Waits
  <2>5. callers' = [callers EXCEPT ![c] = x]
    BY <2>3
  <2>6. /\ callers' \in [Callers -> Caller] /\ callers'[c] = x
        /\ \A d \in Callers \ {c} : callers'[d] = callers[d]
    BY <2>5 DEF RefreshIInv, TypeOK
  <2>7. callers[c].outcome = "none" /\ Granted(Gen(c)) /\ flights[c].pc = "none"
    BY <1>1 DEF CallerOK
  <2> QED BY <2>4, <2>6, <2>7 DEF Gen, Pod, Waiters
<1>3. /\ flights' \in [Callers -> Flight]
      /\ \A g \in Callers \ {c} : flights'[g] = flights[g]
      /\ flights'[c].pc = "start"
      /\ flights'[c].aborted = flights[c].aborted /\ flights'[c].dropped = flights[c].dropped
  BY DEF RefreshIInv, TypeOK, Flight
<1>4. lock # c /\ ~flights[c].aborted /\ ~flights[c].dropped /\ c \notin wire
  BY <1>1, <1>2 DEF LockOK, AbortOK, WireOK, Locked
<1>5. TypeOK'
  BY <1>2, <1>3, <1>4 DEF RefreshIInv, TypeOK
<1>6. RowOK' /\ (inflight = Running)'
  BY <1>3 DEF RefreshIInv, RowOK, Running, Granted, IssuedFor
<1>7. ASSUME NEW d \in Callers PROVE CallerOK(d)'
  <2>1. CASE d = c
    BY <1>2, <2>1 DEF CallerOK, Granted, SameKey
  <2>2. CASE d # c
    <3>1. inflight \subseteq Callers
      BY DEF RefreshIInv, TypeOK
    <3> QED BY <1>1, <1>2, <1>3, <2>2, <3>1 DEF CallerOK, SameKey, Granted, IssuedFor
  <2> QED BY <2>1, <2>2
<1>8. ASSUME NEW g \in Callers PROVE LockOK(g)' /\ AbortOK(g)' /\ WireOK(g)' /\ TokenOK(g)'
  <2>1. CASE g = c
    BY <1>3, <1>4, <2>1 DEF LockOK, AbortOK, WireOK, TokenOK, Locked
  <2>2. CASE g # c
    <3>1. LockOK(g)' /\ WireOK(g)' /\ TokenOK(g)'
      BY <1>1, <1>2, <1>3, <2>2 DEF LockOK, WireOK, TokenOK, Locked, Stored, NoRow, IssuedFor
    <3>2. ASSUME NEW d \in Waiters(g)' PROVE d \in Waiters(g) /\ callers'[d] = callers[d]
      BY <1>2, <2>2 DEF Waiters
    <3> QED BY <1>1, <1>3, <2>2, <3>1, <3>2 DEF AbortOK
  <2> QED BY <2>1, <2>2
<1> QED BY <1>5, <1>6, <1>7, <1>8 DEF RefreshIInv

LEMMA JoinKeeps ==
  ASSUME RefreshIInv, NEW c \in Callers, Join(c), Agree' PROVE RefreshIInv'
<1>1. callers[c] \in Caller
  BY DEF RefreshIInv, TypeOK
<1>2. \A f, late : Waits(callers[c], f, late) =
        [callers[c] EXCEPT !.pc = "waiting", !.flight = f, !.late = late]
  BY DEF Waits
<1>3. Waits(callers[c], c, callers[c].late) =
        [callers[c] EXCEPT !.pc = "waiting", !.flight = c]
  BY <1>1 DEF Waits, Caller
<1>4. Peers(c) \subseteq Callers
  BY DEF Peers, RefreshIInv, TypeOK
<1>5. CASE \E f \in Peers(c) :
          /\ callers' = [callers EXCEPT ![c] =
               [@ EXCEPT !.pc = "waiting", !.flight = f, !.late = flights[f].aborted]]
          /\ UNCHANGED <<flights, inflight>>
  <2>1. PICK f \in Peers(c) :
          /\ callers' = [callers EXCEPT ![c] = Waits(callers[c], f, flights[f].aborted)]
          /\ UNCHANGED <<flights, inflight>>
    BY <1>2, <1>5
  <2>2. callers[c].pc = "ask" /\ UNCHANGED <<dbVars, providerVars, lost>>
    BY DEF Join
  <2> QED BY <1>4, <2>1, <2>2, JoinFlightKeeps
<1>6. CASE /\ flights' = [flights EXCEPT ![c].pc = "start"]
           /\ inflight' = inflight \cup {c}
           /\ callers' = [callers EXCEPT ![c] = [@ EXCEPT !.pc = "waiting", !.flight = c]]
  BY <1>3, <1>6, StartFlightKeeps DEF Join
<1> QED BY <1>5, <1>6 DEF Join

(* Everybody else is as they were, and the caller has left its flight.      *)
LEMMA CallerLeaves ==
  ASSUME RefreshIInv, NEW c \in Callers, Cancel(c)
  PROVE  /\ callers' \in [Callers -> Caller]
         /\ \A d \in Callers \ {c} : callers'[d] = callers[d]
         /\ callers'[c].pc = "done" /\ callers'[c].outcome = "abort" /\ callers'[c].cancelled
         /\ callers'[c].gen = callers[c].gen /\ callers'[c].pod = callers[c].pod
         /\ callers[c].flight \in Callers /\ callers[c].flight \in Running
<1>1. callers \in [Callers -> Caller] /\ CallerOK(c) /\ callers[c].pc = "waiting"
  BY DEF RefreshIInv, TypeOK, Cancel
<1> DEFINE x == [callers[c] EXCEPT !.pc = "done", !.outcome = "abort", !.cancelled = TRUE]
<1>2. /\ x \in Caller /\ x.pc = "done" /\ x.outcome = "abort" /\ x.cancelled
      /\ x.gen = callers[c].gen /\ x.pod = callers[c].pod
  BY <1>1 DEF Caller
<1>3. callers' = [callers EXCEPT ![c] = x]
  BY DEF Cancel
<1> HIDE DEF x
<1>4. callers[c].flight \in Callers /\ callers[c].flight \in Running
  BY <1>1 DEF CallerOK, RefreshIInv, Running
<1> QED BY <1>1, <1>2, <1>3, <1>4

LEMMA CancelKeeps ==
  ASSUME RefreshIInv, NEW c \in Callers, Cancel(c), Agree' PROVE RefreshIInv'
<1> USE DEF dbVars, providerVars
<1>1. ASSUME NEW d \in Callers
      PROVE  callers[d] \in Caller /\ CallerOK(d) /\ LockOK(d) /\ AbortOK(d) /\ WireOK(d) /\ TokenOK(d)
  BY <1>1 DEF RefreshIInv, TypeOK
<1>2. PICK f \in Callers : f = callers[c].flight /\ f \in Running
  BY CallerLeaves
<1>3. /\ callers' \in [Callers -> Caller]
      /\ \A d \in Callers \ {c} : callers'[d] = callers[d]
      /\ callers'[c].pc = "done" /\ callers'[c].outcome = "abort" /\ callers'[c].cancelled
      /\ \A d \in Callers : Gen(d)' = Gen(d) /\ Pod(d)' = Pod(d)
  BY CallerLeaves DEF Gen, Pod
<1>4. /\ UNCHANGED <<row, lock, issued, live, wire, inflight>>
      /\ callers[c].pc = "waiting"
  BY DEF Cancel
<1>5. ASSUME NEW g \in Callers, NEW d \in Waiters(g)'
      PROVE  d \in Waiters(g) /\ d # c /\ callers'[d] = callers[d]
  BY <1>3, <1>5 DEF Waiters
<1>6. RowOK'
  BY <1>4 DEF RefreshIInv, RowOK, Granted, IssuedFor
<1>7. ASSUME \A d \in Callers : flights'[d].pc = "none" <=> flights[d].pc = "none",
             NEW d \in Callers
      PROVE  CallerOK(d)'
  <2>1. inflight \subseteq Callers
    BY DEF RefreshIInv, TypeOK
  <2>2. CASE d = c
    BY <1>1, <1>3, <1>4, <1>7, <2>2 DEF CallerOK, Granted
  <2>3. CASE d # c
    BY <1>1, <1>3, <1>4, <1>7, <2>1, <2>3 DEF CallerOK, SameKey, Granted, IssuedFor
  <2> QED BY <2>2, <2>3
<1>8. CASE UNCHANGED <<flights, lost>>
  <2>1. TypeOK' /\ (inflight = Running)'
    BY <1>3, <1>4, <1>8 DEF RefreshIInv, TypeOK, Running
  <2>2. ASSUME NEW g \in Callers PROVE LockOK(g)' /\ AbortOK(g)' /\ WireOK(g)' /\ TokenOK(g)'
    <3>1. LockOK(g)' /\ WireOK(g)' /\ TokenOK(g)'
      BY <1>1, <1>3, <1>4, <1>8 DEF LockOK, WireOK, TokenOK, Locked, Stored, NoRow, IssuedFor
    <3> QED BY <1>1, <1>5, <1>8, <3>1 DEF AbortOK
  <2> QED BY <1>6, <1>7, <1>8, <2>1, <2>2 DEF RefreshIInv
<1>9. CASE /\ LastLeaves(f, c)
           /\ flights' = [flights EXCEPT ![f] =
                [@ EXCEPT !.aborted = TRUE,
                          !.pc = IF flights[f].pc = "sent" THEN "aborting" ELSE flights[f].pc]]
           /\ lost' = IF flights[f].pc = "sent" THEN lost \cup {Gen(f)} ELSE lost
  <2> DEFINE x == [flights[f] EXCEPT
                    !.aborted = TRUE,
                    !.pc = IF flights[f].pc = "sent" THEN "aborting" ELSE flights[f].pc]
  <2>1. flights \in [Callers -> Flight]
    BY DEF RefreshIInv, TypeOK
  <2>2. /\ x \in Flight /\ x.aborted /\ x.dropped = flights[f].dropped
        /\ x.pc = IF flights[f].pc = "sent" THEN "aborting" ELSE flights[f].pc
        /\ x.before = flights[f].before /\ x.rt = flights[f].rt /\ x.at = flights[f].at
    BY <2>1 DEF Flight
  <2>3. /\ flights' = [flights EXCEPT ![f] = x]
        /\ lost' = IF flights[f].pc = "sent" THEN lost \cup {Gen(f)} ELSE lost
    BY <1>9
  <2> HIDE DEF x
  <2>4. /\ flights' \in [Callers -> Flight] /\ flights'[f] = x
        /\ \A g \in Callers \ {f} : flights'[g] = flights[g]
    BY <2>1, <2>2, <2>3
  <2>5. Gen(f) \in Tokens /\ flights[f].pc \notin {"none", "done"}
    BY <1>2, GrantOfFlight DEF Running
  <2>6. TypeOK'
    BY <1>3, <1>4, <2>2, <2>3, <2>4, <2>5 DEF RefreshIInv, TypeOK
  <2>7. (inflight = Running)'
    BY <1>4, <2>2, <2>4, <2>5 DEF RefreshIInv, Running
  <2>8. ASSUME NEW d \in Callers PROVE CallerOK(d)'
    BY <1>7, <2>2, <2>4, <2>5
  <2>9. Waiters(f)' = {}
    BY <1>5, <1>9 DEF LastLeaves
  <2>10. ASSUME NEW g \in Callers PROVE LockOK(g)' /\ AbortOK(g)' /\ WireOK(g)' /\ TokenOK(g)'
    <3>1. CASE g = f
      <4>1. LockOK(f)' /\ AbortOK(f)' /\ WireOK(f)'
        BY <1>1, <1>3, <1>4, <2>2, <2>3, <2>4, <2>5, <2>9 DEF LockOK, AbortOK, WireOK, Locked
      <4>2. TokenOK(f)'
        BY <1>1, <1>3, <1>4, <2>2, <2>3, <2>4 DEF TokenOK, Locked, Stored, NoRow, IssuedFor
      <4> QED BY <3>1, <4>1, <4>2
    <3>2. CASE g # f
      <4>1. LockOK(g)' /\ WireOK(g)' /\ TokenOK(g)'
        BY <1>1, <1>3, <1>4, <2>3, <2>4, <3>2 DEF LockOK, WireOK, TokenOK, Locked, Stored, NoRow, IssuedFor
      <4>2. AbortOK(g)'
        BY <1>1, <1>5, <2>4, <3>2 DEF AbortOK
      <4> QED BY <4>1, <4>2
    <3> QED BY <3>1, <3>2
  <2> QED BY <1>6, <2>6, <2>7, <2>8, <2>10 DEF RefreshIInv
<1> QED BY <1>2, <1>8, <1>9, Zenon DEF Cancel

----------------------------------------------------------------------------
(* The connection's other writers.                                          *)

(* While nobody holds the lock, a grant that a flight consumed is lost.     *)
LEMMA ConnectKeeps ==
  ASSUME RefreshIInv, Connect, Agree' PROVE RefreshIInv'
<1> USE DEF Connect, podVars
<1>1. ASSUME NEW d \in Callers
      PROVE  callers[d] \in Caller /\ CallerOK(d) /\ LockOK(d) /\ AbortOK(d) /\ WireOK(d) /\ TokenOK(d)
  BY <1>1 DEF RefreshIInv, TypeOK
<1>2. PICK rt \in {0, Fresh} : /\ row' = [id |-> Fresh, rt |-> rt, at |-> Fresh]
                              /\ live' = [live EXCEPT ![Fresh] = rt]
  OBVIOUS
<1>3. /\ issued \in Seq(Tokens) /\ Len(issued) \in Nat /\ MaxTokens \in Nat
      /\ Fresh \in 1..MaxTokens /\ Fresh = Len(issued) + 1
      /\ live \in [Tokens -> 0..MaxTokens]
  BY DEF RefreshIInv, TypeOK, Fresh
<1>4. /\ issued' \in Seq(Tokens) /\ Len(issued') = Fresh
      /\ issued'[Fresh] = Fresh
      /\ \A n \in 1..Len(issued) : issued'[n] = issued[n]
  BY <1>3 DEF Tokens
<1>5. TypeOK'
  BY <1>2, <1>3, <1>4 DEF RefreshIInv, TypeOK, Tokens
<1>6. RowOK'
  BY <1>2, <1>3, <1>4 DEF RowOK, Granted, IssuedFor
<1>7. (inflight = Running)'
  BY DEF RefreshIInv, Running
<1>8. ASSUME NEW d \in Callers PROVE CallerOK(d)'
  <2>1. \A n \in 1..Len(issued) : n \in 1..Len(issued') /\ issued'[n] = issued[n]
    BY <1>3, <1>4
  <2>2. inflight \subseteq Callers
    BY DEF RefreshIInv, TypeOK
  <2> QED BY <1>1, <2>1, <2>2 DEF CallerOK, SameKey, Granted, IssuedFor, Gen, Pod
<1>9. ASSUME NEW g \in Callers PROVE LockOK(g)' /\ AbortOK(g)' /\ WireOK(g)' /\ TokenOK(g)'
  <2>1. lock # g
    BY <1>9 DEF RefreshAssumption
  <2>2. flights[g].pc \in Locked => flights[g].dropped
    BY <1>1, <2>1 DEF LockOK
  <2>3. LockOK(g)' /\ AbortOK(g)' /\ WireOK(g)'
    BY <1>1 DEF LockOK, AbortOK, WireOK, Waiters, Gen
  <2>4. TokenOK(g)'
    <3>1. \A n \in 1..Len(issued) : n \in 1..Len(issued') /\ issued'[n] = issued[n]
      BY <1>3, <1>4
    <3> QED BY <1>1, <2>2, <3>1 DEF TokenOK, Locked, IssuedFor, Gen
  <2> QED BY <2>3, <2>4
<1> QED BY <1>5, <1>6, <1>7, <1>8, <1>9 DEF RefreshIInv

LEMMA RemoveKeeps ==
  ASSUME RefreshIInv, Remove, Agree' PROVE RefreshIInv'
<1> USE DEF Remove, podVars, providerVars
<1>1. ASSUME NEW d \in Callers
      PROVE  CallerOK(d) /\ LockOK(d) /\ AbortOK(d) /\ WireOK(d) /\ TokenOK(d)
  BY <1>1 DEF RefreshIInv
<1>2. TypeOK' /\ RowOK' /\ (inflight = Running)'
  BY DEF RefreshIInv, TypeOK, RowOK, Running, NoRow
<1>3. ASSUME NEW g \in Callers
      PROVE  CallerOK(g)' /\ LockOK(g)' /\ AbortOK(g)' /\ WireOK(g)' /\ TokenOK(g)'
  <2>1. lock # g
    BY <1>3 DEF RefreshAssumption
  <2>2. flights[g].pc \in Locked => flights[g].dropped
    BY <1>1, <2>1 DEF LockOK
  <2>3. LockOK(g)' /\ AbortOK(g)' /\ WireOK(g)'
    BY <1>1 DEF LockOK, AbortOK, WireOK, Waiters, Gen
  <2>4. TokenOK(g)'
    BY <1>1, <2>2 DEF TokenOK, Locked, IssuedFor, Gen
  <2>5. CallerOK(g)'
    BY <1>1 DEF CallerOK, SameKey, Granted, IssuedFor, Gen, Pod
  <2> QED BY <2>3, <2>4, <2>5
<1> QED BY <1>2, <1>3 DEF RefreshIInv

----------------------------------------------------------------------------
(* The end of a pod.                                                        *)

Mine(p) == {c \in Callers : Pod(c) = p}

LEMMA CrashCallers ==
  ASSUME RefreshIInv, NEW p \in Pods, Crash(p), NEW c \in Callers
  PROVE  /\ callers' \in [Callers -> Caller]
         /\ callers'[c].gen = callers[c].gen /\ callers'[c].pod = callers[c].pod
         /\ callers'[c].flight = callers[c].flight /\ callers'[c].outcome = callers[c].outcome
         /\ callers'[c].token = callers[c].token
         /\ (callers'[c].late <=> callers[c].late) /\ (callers'[c].cancelled <=> callers[c].cancelled)
         /\ callers'[c].pc = IF c \in Mine(p) /\ callers[c].pc \in {"ask", "waiting"}
                             THEN "dead" ELSE callers[c].pc
<1>1. callers \in [Callers -> Caller]
  BY DEF RefreshIInv, TypeOK
<1>2. callers' = [d \in Callers |-> IF d \in Mine(p) /\ callers[d].pc \in {"ask", "waiting"}
                                   THEN [callers[d] EXCEPT !.pc = "dead"] ELSE callers[d]]
  BY DEF Crash, Mine
<1>3. \A d \in Callers : [callers[d] EXCEPT !.pc = "dead"] \in Caller
  BY <1>1 DEF Caller
<1>4. callers' \in [Callers -> Caller]
  BY <1>1, <1>2, <1>3
<1>5. CASE c \in Mine(p) /\ callers[c].pc \in {"ask", "waiting"}
  BY <1>1, <1>2, <1>4, <1>5 DEF Caller
<1>6. CASE ~(c \in Mine(p) /\ callers[c].pc \in {"ask", "waiting"})
  BY <1>2, <1>4, <1>6
<1> QED BY <1>5, <1>6

LEMMA CrashFlights ==
  ASSUME RefreshIInv, NEW p \in Pods, Crash(p), NEW f \in Callers
  PROVE  /\ flights' \in [Callers -> Flight]
         /\ f \in Running \cap Mine(p) =>
              flights'[f].pc = "done" /\ ~flights'[f].aborted /\ ~flights'[f].dropped
         /\ f \notin Running \cap Mine(p) => flights'[f] = flights[f]
<1>1. flights \in [Callers -> Flight]
  BY DEF RefreshIInv, TypeOK
<1>2. flights' = [g \in Callers |-> IF g \in Running \cap Mine(p) THEN Ended(flights[g]) ELSE flights[g]]
  BY DEF Crash, Mine, Running
<1>3. ASSUME NEW g \in Callers PROVE Ended(flights[g]) \in Flight
  <2>1. flights[g] \in Flight /\ 0 \in 0..MaxTokens
    BY <1>1
  <2> QED BY <2>1, EndedIsFlight
<1>4. flights' \in [Callers -> Flight]
  BY <1>1, <1>2, <1>3
<1>5. Ended(flights[f]).pc = "done" /\ ~Ended(flights[f]).aborted /\ ~Ended(flights[f]).dropped
  BY <1>1 DEF Ended, Flight
<1> QED BY <1>2, <1>4, <1>5

LEMMA CrashKeeps ==
  ASSUME RefreshIInv, NEW p \in Pods, Crash(p), Agree' PROVE RefreshIInv'
<1> DEFINE open == Running \cap Mine(p)
<1>1. ASSUME NEW d \in Callers
      PROVE  callers[d] \in Caller /\ CallerOK(d) /\ LockOK(d) /\ AbortOK(d) /\ WireOK(d) /\ TokenOK(d)
  BY <1>1 DEF RefreshIInv, TypeOK
<1>2. /\ UNCHANGED <<row, issued, live, wire>>
      /\ inflight' = inflight \ Mine(p)
      /\ lock' = IF lock \in open THEN None ELSE lock
      /\ lost' = lost \cup {Gen(f) : f \in {g \in open : flights[g].pc \in {"sent", "answered"}}}
  BY DEF Crash, Mine, Running, providerVars
<1>3. /\ flights' \in [Callers -> Flight]
      /\ \A f \in open : flights'[f].pc = "done" /\ ~flights'[f].aborted /\ ~flights'[f].dropped
      /\ \A f \in Callers \ open : flights'[f] = flights[f]
  <2>1. flights' \in [Callers -> Flight]
    <3>1. PICK c \in Callers : c \in Mine(p)
      BY DEF Crash, Mine
    <3> QED BY CrashFlights
  <2> QED BY <2>1, CrashFlights DEF Running
<1>4. callers' \in [Callers -> Caller]
  <2>1. PICK c \in Callers : c \in Mine(p)
    BY DEF Crash, Mine
  <2> QED BY CrashCallers
<1>5. \A d \in Callers : Gen(d)' = Gen(d) /\ Pod(d)' = Pod(d)
  BY CrashCallers DEF Gen, Pod
<1>6. open \subseteq Callers /\ \A d \in Callers : d \in open <=> d \in Running /\ Pod(d) = p
  BY DEF Running, Mine
<1> HIDE DEF open
<1>7. lost \subseteq lost' /\ lost' \subseteq Tokens
  <2>1. ASSUME NEW f \in open PROVE Gen(f) \in Tokens
    BY <1>6, <2>1, GrantOfFlight DEF Running
  <2> QED BY <1>2, <2>1 DEF RefreshIInv, TypeOK
<1>8. TypeOK'
  BY <1>2, <1>3, <1>4, <1>6, <1>7 DEF RefreshIInv, TypeOK
<1>9. RowOK'
  BY <1>2 DEF RefreshIInv, RowOK, Granted, IssuedFor
<1>10. (inflight = Running)'
  <2>1. \A d \in Callers : d \in Mine(p) <=> Pod(d) = p
    BY DEF Mine
  <2>2. ASSUME NEW d \in Callers PROVE d \in Running' <=> d \in Running /\ Pod(d) # p
    BY <1>3, <1>6 DEF Running
  <2>3. inflight = Running /\ Running' \subseteq Callers /\ Running \subseteq Callers
    BY DEF RefreshIInv, Running
  <2> QED BY <1>2, <2>1, <2>2, <2>3
<1>11. ASSUME NEW d \in Callers PROVE CallerOK(d)'
  <2>1. /\ callers'[d].outcome = callers[d].outcome /\ callers'[d].token = callers[d].token
        /\ callers'[d].flight = callers[d].flight
        /\ (callers'[d].late <=> callers[d].late) /\ (callers'[d].cancelled <=> callers[d].cancelled)
        /\ callers'[d].pc = IF d \in Mine(p) /\ callers[d].pc \in {"ask", "waiting"}
                            THEN "dead" ELSE callers[d].pc
    BY CrashCallers
  <2>2. flights[d].pc = "none" => flights'[d].pc = "none"
    BY <1>3, <1>6 DEF Running
  <2>3. (callers[d].pc = "waiting" => callers[d].flight \in inflight /\ SameKey(callers[d].flight, d))'
    <3>1. SUFFICES ASSUME callers'[d].pc = "waiting"
                   PROVE  callers'[d].flight \in inflight' /\ SameKey(callers[d].flight, d)'
      OBVIOUS
    <3>2. callers[d].pc = "waiting" /\ Pod(d) # p
      BY <2>1, <3>1 DEF Mine
    <3>3. PICK f \in Callers : f = callers[d].flight /\ f \in inflight /\ Pod(f) = Pod(d) /\ Gen(f) = Gen(d)
      BY <1>1, <3>2 DEF CallerOK, SameKey, RefreshIInv, TypeOK
    <3>4. f \in inflight'
      BY <1>2, <3>2, <3>3 DEF Mine
    <3>5. Pod(f)' = Pod(d)' /\ Gen(f)' = Gen(d)'
      BY <1>5, <3>3
    <3>6. callers'[d].flight = f
      BY <2>1, <3>3
    <3> QED BY <3>4, <3>5, <3>6 DEF SameKey, Pod, Gen
  <2> QED BY <1>1, <1>2, <1>5, <2>1, <2>2, <2>3 DEF CallerOK, Granted, IssuedFor
<1>12. ASSUME NEW g \in Callers PROVE LockOK(g)' /\ AbortOK(g)' /\ WireOK(g)' /\ TokenOK(g)'
  <2>1. Gen(g)' = Gen(g) /\ lock # g => lock' # g
    BY <1>2, <1>5
  <2>2. CASE g \in open
    <3>1. flights'[g].pc = "done" /\ ~flights'[g].aborted /\ ~flights'[g].dropped /\ lock' # g
      BY <1>2, <1>3, <2>2
    <3>2. g \in wire => Gen(g) \in lost'
      <4>1. flights[g].pc \notin {"none", "done"}
        BY <1>6, <2>2 DEF Running
      <4>2. CASE flights[g].pc = "sent"
        BY <1>2, <2>2, <4>2
      <4>3. CASE flights[g].pc # "sent"
        BY <1>1, <1>7, <4>1, <4>3 DEF WireOK
      <4> QED BY <4>2, <4>3
    <3>3. LockOK(g)' /\ AbortOK(g)' /\ TokenOK(g)'
      BY <3>1 DEF LockOK, AbortOK, TokenOK, Locked
    <3>4. WireOK(g)'
      BY <1>2, <1>5, <3>1, <3>2 DEF WireOK
    <3> QED BY <3>3, <3>4
  <2>3. CASE g \notin open
    <3>1. flights'[g] = flights[g] /\ (lock' = g <=> lock = g)
      BY <1>2, <1>3, <2>3
    <3>2. LockOK(g)' /\ WireOK(g)' /\ TokenOK(g)'
      BY <1>1, <1>2, <1>5, <1>7, <3>1 DEF LockOK, WireOK, TokenOK, Locked, Stored, NoRow, IssuedFor
    <3>3. ASSUME NEW d \in Waiters(g)' PROVE d \in Waiters(g) /\ (callers'[d].late <=> callers[d].late)
      <4>1. d \in Callers
        BY DEF Waiters
      <4> QED BY <4>1, CrashCallers DEF Waiters
    <3> QED BY <1>1, <3>1, <3>2, <3>3 DEF AbortOK
  <2> QED BY <2>2, <2>3
<1> QED BY <1>8, <1>9, <1>10, <1>11, <1>12 DEF RefreshIInv

----------------------------------------------------------------------------
(* Every step of Refresh is a step of Rotation.                             *)

(* A step that leaves the row alone loses a grant or shows nothing: the     *)
(* holder of the lock keeps its answer, or the grant is lost with it.       *)
LEMMA LoseStep ==
  ASSUME RefreshIInv, UNCHANGED <<row, live>>, lost \subseteq lost',
         lock' \in Callers \cup {None},
         \A f \in Callers : lock' = f /\ flights'[f].pc = "answered" =>
           /\ lock = f /\ flights[f].pc = "answered"
           /\ flights'[f].before = flights[f].before /\ callers'[f].gen = callers[f].gen,
         \A f \in Callers : lock = f /\ flights[f].pc = "answered" =>
           (lock' = f /\ flights'[f].pc = "answered") \/ Gen(f) \in lost'
  PROVE  Abstract!Lose
<1>1. lock \in Callers \cup {None}
  BY DEF RefreshIInv, TypeOK
<1>2. ASSUME NEW g \in Tokens, g \notin lost' PROVE CommittedLive'[g] = CommittedLive[g]
  <2>1. CASE lock # None /\ flights[lock].pc = "answered" /\ Gen(lock) = g
    <3>1. PICK f \in Callers : lock = f
      BY <1>1, <2>1
    <3>2. lock' = f /\ flights'[f].pc = "answered"
      BY <1>2, <2>1, <3>1
    <3> QED BY <2>1, <3>1, <3>2 DEF CommittedLive, Gen, RefreshAssumption
  <2>2. CASE ~(lock # None /\ flights[lock].pc = "answered" /\ Gen(lock) = g)
    <3>1. CommittedLive[g] = live[g]
      BY <2>2 DEF CommittedLive
    <3>2. ~(lock' # None /\ flights'[lock'].pc = "answered" /\ callers'[lock'].gen = g)
      BY <2>2 DEF Gen
    <3> QED BY <3>1, <3>2 DEF CommittedLive, Gen
  <2> QED BY <2>1, <2>2
<1>3. DOMAIN CommittedLive = Tokens
  BY DEF CommittedLive
<1> QED BY <1>2, <1>3 DEF Abstract!Lose

(* The end of a flight that has not stored its answer. *)
LEMMA SettleLoses ==
  ASSUME RefreshIInv, NEW f \in Callers, NEW outcome, NEW token, Settle(f, outcome, token),
         UNCHANGED <<row, live>>, lost \subseteq lost',
         flights[f].pc = "answered" => Gen(f) \in lost'
  PROVE  Abstract!Lose
<1>1. /\ flights'[f].pc = "done"
      /\ \A g \in Callers \ {f} : flights'[g] = flights[g]
  BY SettleFlights
<1>2. ASSUME NEW g \in Callers PROVE callers'[g].gen = callers[g].gen
  BY SettleWaiters DEF Gen
<1>3. lock' = IF lock = f THEN None ELSE lock
  BY DEF Settle, Released
<1>4. lock \in Callers \cup {None}
  BY DEF RefreshIInv, TypeOK
<1> QED BY <1>1, <1>2, <1>3, <1>4, LoseStep

(* The stored token of a row works after such a step as well. *)
LEMMA AgreeKept ==
  ASSUME RefreshIInv, Abstract!Remove \/ Abstract!Rotate \/ Abstract!Lose PROVE Agree'
<1>1. CASE Abstract!Remove
  BY <1>1 DEF Abstract!Remove, Abstract!NoRow, Agree, Abstract!Works
<1>2. CASE Abstract!Rotate
  BY <1>2 DEF Abstract!Rotate, Agree, Abstract!Works
<1>3. CASE Abstract!Lose
  <2>1. row.rt # 0 => row.id \in Tokens
    BY DEF RefreshIInv, RowOK, TypeOK, NoRow, Granted, Tokens
  <2>2. DOMAIN CommittedLive = Tokens
    BY DEF CommittedLive
  <2> QED BY <1>3, <2>1, <2>2 DEF Abstract!Lose, RefreshIInv, Agree, Abstract!Works
<1> QED BY <1>1, <1>2, <1>3

LEMMA ConnectRefines ==
  ASSUME RefreshIInv, Connect PROVE Abstract!Connect /\ Agree'
<1> USE DEF Connect, podVars
<1>1. PICK rt \in {0, Fresh} : /\ row' = [id |-> Fresh, rt |-> rt, at |-> Fresh]
                              /\ live' = [live EXCEPT ![Fresh] = rt]
  OBVIOUS
<1>2. /\ Len(issued) \in Nat /\ Fresh \in Tokens /\ Fresh = Len(issued) + 1
      /\ live \in [Tokens -> 0..MaxTokens]
  BY DEF RefreshIInv, TypeOK, Fresh, Tokens
<1>3. row.id < Fresh /\ row.at < Fresh
  BY <1>2 DEF RefreshIInv, RowOK, NoRow, Granted, IssuedFor
<1>4. CommittedLive = live /\ CommittedLive' = live'
  BY <1>1, <1>2 DEF CommittedLive
<1> QED BY <1>1, <1>2, <1>3, <1>4 DEF Abstract!Connect, Agree, Abstract!Works

LEMMA RemoveRefines ==
  ASSUME RefreshIInv, Remove PROVE Abstract!Remove
<1>1. CommittedLive' = CommittedLive
  BY DEF Remove, CommittedLive, providerVars
<1> QED BY <1>1 DEF Remove, Abstract!Remove, NoRow, Abstract!NoRow

(* The transaction that stores the answer makes the rotation. *)
LEMMA StoreRefines ==
  ASSUME RefreshIInv, NEW f \in Callers, Store(f) PROVE Abstract!Rotate
<1> USE DEF Store, providerVars
<1>1. LockOK(f) /\ TokenOK(f)
  BY DEF RefreshIInv
<1>2. lock = f /\ lock # None /\ lock' = None
  BY <1>1 DEF LockOK, Locked, Settle, Released, RefreshAssumption
<1>3. /\ row \in [id : 0..MaxTokens, rt : 0..MaxTokens, at : 0..MaxTokens]
      /\ flights \in [Callers -> Flight] /\ Gen(f) \in Tokens /\ row.id = Gen(f)
  BY GrantOfFlight DEF RefreshIInv, TypeOK, Stored
<1>4. row'.id = row.id /\ row'.rt = flights[f].rt /\ row'.at = flights[f].at
  BY <1>3 DEF Updated
<1>5. row.rt # 0 /\ row'.rt # 0 /\ row'.at > row.at
  BY <1>1, <1>4 DEF TokenOK, Locked
<1>6. ASSUME NEW g \in Tokens
      PROVE  /\ CommittedLive'[g] = live[g]
             /\ g # Gen(f) => CommittedLive[g] = live[g]
  BY <1>2 DEF CommittedLive
<1>7. live[Gen(f)] = flights[f].rt \/ Gen(f) \in lost
  BY <1>1 DEF TokenOK
<1>8. DOMAIN CommittedLive = Tokens /\ Abstract!Works
  BY DEF CommittedLive, RefreshIInv, Agree
<1> QED BY <1>3, <1>4, <1>5, <1>6, <1>7, <1>8 DEF Abstract!Rotate

(* A rotation that has yet to commit, or that nobody will store, does not   *)
(* show.                                                                    *)
LEMMA ProviderRefines ==
  ASSUME RefreshIInv, NEW f \in Callers, Provider(f) PROVE Abstract!Lose
<1> USE DEF Provider, dbVars
<1>1. LockOK(f) /\ TokenOK(f) /\ WireOK(f) /\ flights \in [Callers -> Flight]
  BY DEF RefreshIInv, TypeOK
<1>2. UNCHANGED <<row, lock, callers, lost>> /\ f \in wire
  BY DEF Provider
<1>3. flights[f].pc \in {"sent", "aborting", "done"} /\ Gen(f) \in Tokens
  BY <1>1, <1>2, GrantOfFlight DEF WireOK
<1>4. Gen(f) \in lost \/ (lock = f /\ flights[f].pc = "sent")
  BY <1>1, <1>2 DEF WireOK, LockOK, Locked
<1>5. live \in [Tokens -> 0..MaxTokens] /\ lock \in Callers \cup {None}
  BY DEF RefreshIInv, TypeOK
<1>6. \A g \in Tokens : g # Gen(f) => live'[g] = live[g]
  BY <1>5
<1>7. \A g \in Callers \ {f} : flights'[g] = flights[g]
  BY <1>1
<1>8. CASE lock # f
  <2>1. ASSUME NEW g \in Tokens, g \notin lost PROVE CommittedLive'[g] = CommittedLive[g]
    <3>1. live'[g] = live[g]
      BY <1>4, <1>6, <1>8, <2>1
    <3>2. lock # None => flights'[lock] = flights[lock]
      BY <1>5, <1>7, <1>8
    <3> QED BY <1>2, <3>1, <3>2 DEF CommittedLive, Gen
  <2> QED BY <1>2, <2>1 DEF CommittedLive, Abstract!Lose
<1>9. CASE lock = f
  <2>1. flights[f].pc \in {"sent", "aborting"} /\ f # None
    BY <1>1, <1>3, <1>9 DEF LockOK, Locked, RefreshAssumption
  <2>2. \A g \in Tokens : CommittedLive[g] = live[g]
    BY <1>9, <2>1 DEF CommittedLive
  <2>3. CASE flights'[f].pc = "answered"
    <3>1. flights'[f].before = flights[f].before /\ flights[f].before = live[Gen(f)]
      BY <1>1, <2>1, <2>3 DEF Flight
    <3>2. ASSUME NEW g \in Tokens PROVE CommittedLive'[g] = live[g]
      BY <1>2, <1>6, <1>9, <2>1, <2>3, <3>1, <3>2 DEF CommittedLive, Gen
    <3> QED BY <1>2, <2>2, <3>2 DEF CommittedLive, Abstract!Lose
  <2>4. CASE flights'[f].pc # "answered"
    <3>1. ASSUME NEW g \in Tokens PROVE CommittedLive'[g] = live'[g]
      BY <1>2, <1>9, <2>4, <3>1 DEF CommittedLive
    <3>2. ASSUME NEW g \in Tokens, g \notin lost PROVE live'[g] = live[g]
      BY <1>1, <1>4, <1>6, <2>4, <3>2 DEF Flight
    <3> QED BY <1>2, <2>2, <3>1, <3>2 DEF CommittedLive, Abstract!Lose
  <2> QED BY <2>3, <2>4
<1> QED BY <1>8, <1>9

(* The steps of a flight that show nothing, and its ends without an answer. *)
LEMMA FlightLoses ==
  ASSUME RefreshIInv, NEW f \in Callers,
         \/ ReadBefore(f) \/ TakeLock(f) \/ Reread(f) \/ Refused(f) \/ RollBackAborted(f)
         \/ Timeout(f) \/ DatabaseFails(f) \/ Unreachable(f) \/ DropSession(f)
  PROVE  Abstract!Lose
<1> USE DEF providerVars
<1>1. /\ flights \in [Callers -> Flight] /\ LockOK(f)
      /\ lock \in Callers \cup {None}
  BY DEF RefreshIInv, TypeOK
<1>2. UNCHANGED <<row, live>> /\ lost \subseteq lost'
  BY DEF ReadBefore, TakeLock, Reread, Refused, RollBackAborted, Timeout, DatabaseFails,
         Unreachable, DropSession
<1>3. CASE /\ \E outcome, token : Settle(f, outcome, token)
           /\ flights[f].pc = "answered" => Gen(f) \in lost'
  BY <1>2, <1>3, SettleLoses
<1>4. CASE /\ callers' = callers
           /\ \A g \in Callers \ {f} : flights'[g] = flights[g] /\ (lock' = g <=> lock = g)
           /\ flights'[f].pc # "answered" /\ flights[f].pc # "answered"
           /\ lock' \in Callers \cup {None}
  BY <1>1, <1>2, <1>4, LoseStep
<1>5. CASE ReadBefore(f) \/ Reread(f)
  <2>1. flights[f].pc \in {"start", "held"}
    BY <1>5 DEF ReadBefore, Reread
  <2>3. CASE \E outcome, token : Settle(f, outcome, token)
    BY <1>3, <2>1, <2>3
  <2>4. CASE Stored(f) /\ flights' = [flights EXCEPT ![f].pc = "sent"] /\ UNCHANGED <<lock, callers>>
    BY <1>1, <1>4, <2>1, <2>4 DEF Flight
  <2>5. CASE /\ flights' = [flights EXCEPT ![f] = [@ EXCEPT !.pc = "wait", !.before = row.rt]]
             /\ UNCHANGED <<lock, callers>>
    BY <1>1, <1>4, <2>1, <2>5 DEF Flight
  <2> QED BY <1>5, <2>1, <2>3, <2>4, <2>5 DEF ReadBefore, Reread
<1>6. CASE TakeLock(f)
  <2>1. /\ flights' = [flights EXCEPT ![f].pc = "held"] /\ flights[f].pc = "wait"
        /\ callers' = callers /\ lock = None /\ lock' = f
    BY <1>6 DEF TakeLock
  <2> QED BY <1>1, <1>4, <2>1 DEF Flight, RefreshAssumption
<1>7. CASE Refused(f) \/ RollBackAborted(f) \/ Timeout(f) \/ DatabaseFails(f) \/ Unreachable(f)
  <2>1. Settle(f, "error", 0) \/ Settle(f, "abort", 0)
    BY <1>7 DEF Refused, RollBackAborted, Timeout, DatabaseFails, Unreachable
  <2>2. flights[f].pc = "answered" => Gen(f) \in lost'
    BY <1>7 DEF Refused, RollBackAborted, Timeout, DatabaseFails, Unreachable
  <2> QED BY <1>3, <2>1, <2>2
<1>8. CASE DropSession(f)
  <2>1. /\ lock = f /\ lock' = None /\ callers' = callers
        /\ \A g \in Callers \ {f} : flights'[g] = flights[g]
        /\ flights[f].pc = "answered" => Gen(f) \in lost'
    BY <1>1, <1>8 DEF DropSession
  <2> QED BY <1>2, <2>1, LoseStep DEF RefreshAssumption
<1> QED BY <1>5, <1>6, <1>7, <1>8

LEMMA CallerLoses ==
  ASSUME RefreshIInv, NEW c \in Callers, (\E p \in Pods : Ask(c, p)) \/ Join(c) \/ Cancel(c)
  PROVE  Abstract!Lose
<1> USE DEF dbVars, providerVars
<1>1. /\ flights \in [Callers -> Flight] /\ callers \in [Callers -> Caller] /\ CallerOK(c)
      /\ lock \in Callers \cup {None}
  BY DEF RefreshIInv, TypeOK
<1>2. UNCHANGED <<row, live, lock>> /\ lost \subseteq lost'
  BY DEF Ask, Join, Cancel
<1>3. CASE \E p \in Pods : Ask(c, p)
  <2>1. /\ flights' = flights /\ flights[c].pc = "none"
        /\ \A d \in Callers \ {c} : callers'[d] = callers[d]
    BY <1>1, <1>3 DEF Ask, CallerOK
  <2> QED BY <1>1, <1>2, <2>1, LoseStep
<1>4. CASE Join(c)
  <2>1. \A d \in Callers : callers'[d].gen = callers[d].gen
    <3>1. \E f, late : callers' = [callers EXCEPT ![c] = Waits(callers[c], f, late)]
      <4>1. Waits(callers[c], c, callers[c].late) = [callers[c] EXCEPT !.pc = "waiting", !.flight = c]
        BY <1>1 DEF Waits, Caller
      <4>2. \A f, late : Waits(callers[c], f, late) =
                [callers[c] EXCEPT !.pc = "waiting", !.flight = f, !.late = late]
        BY DEF Waits
      <4>3. CASE callers' = [callers EXCEPT ![c] = [@ EXCEPT !.pc = "waiting", !.flight = c]]
        BY <4>1, <4>3
      <4>4. ASSUME NEW f, callers' = [callers EXCEPT ![c] =
                     [@ EXCEPT !.pc = "waiting", !.flight = f, !.late = flights[f].aborted]]
            PROVE  \E late : callers' = [callers EXCEPT ![c] = Waits(callers[c], f, late)]
        BY <4>2, <4>4
      <4> QED BY <1>4, <4>3, <4>4, Zenon DEF Join
    <3>2. \A f, late : Waits(callers[c], f, late).gen = callers[c].gen
      BY <1>1 DEF Waits, Caller
    <3>3. PICK x : callers' = [callers EXCEPT ![c] = x] /\ x.gen = callers[c].gen
      BY <3>1, <3>2
    <3> QED BY <1>1, <3>3
  <2>2. flights[c].pc = "none"
    BY <1>1, <1>4 DEF Join, CallerOK
  <2>3. \A g \in Callers : flights'[g] = flights[g] \/ (g = c /\ flights'[g].pc = "start")
    <3>1. flights' = flights \/ flights' = [flights EXCEPT ![c].pc = "start"]
      BY <1>4, Zenon DEF Join
    <3> QED BY <1>1, <3>1 DEF Flight
  <2> QED BY <1>1, <1>2, <2>1, <2>2, <2>3, LoseStep
<1>5. CASE Cancel(c)
  <2>1. PICK f \in Callers : f = callers[c].flight
    BY <1>5, CallerLeaves
  <2>2. \A d \in Callers : callers'[d].gen = callers[d].gen
    BY <1>1, <1>5, CallerLeaves
  <2>3. \/ flights' = flights
        \/ flights' = [flights EXCEPT ![f] =
             [@ EXCEPT !.aborted = TRUE,
                       !.pc = IF flights[f].pc = "sent" THEN "aborting" ELSE flights[f].pc]]
    BY <1>5, <2>1, Zenon DEF Cancel
  <2>4. ASSUME NEW g \in Callers
        PROVE  /\ flights'[g].pc = "answered" <=> flights[g].pc = "answered"
               /\ flights'[g].before = flights[g].before
    <3> DEFINE x == [flights[f] EXCEPT
                      !.aborted = TRUE,
                      !.pc = IF flights[f].pc = "sent" THEN "aborting" ELSE flights[f].pc]
    <3>1. x.before = flights[f].before /\ (x.pc = "answered" <=> flights[f].pc = "answered")
      BY <1>1 DEF Flight
    <3>2. flights' = flights \/ flights' = [flights EXCEPT ![f] = x]
      BY <2>3
    <3> HIDE DEF x
    <3> QED BY <1>1, <3>1, <3>2
  <2> QED BY <1>1, <1>2, <2>2, <2>4, LoseStep
<1> QED BY <1>3, <1>4, <1>5

LEMMA CrashLoses ==
  ASSUME RefreshIInv, NEW p \in Pods, Crash(p) PROVE Abstract!Lose
<1> DEFINE open == Running \cap Mine(p)
<1>1. /\ UNCHANGED <<row, live>> /\ lock \in Callers \cup {None}
      /\ lock' = IF lock \in open THEN None ELSE lock
      /\ lost' = lost \cup {Gen(f) : f \in {g \in open : flights[g].pc \in {"sent", "answered"}}}
  BY DEF Crash, Mine, Running, providerVars, RefreshIInv, TypeOK
<1>2. ASSUME NEW f \in Callers
      PROVE  /\ f \notin open => flights'[f] = flights[f]
             /\ f \in open => flights'[f].pc = "done"
             /\ callers'[f].gen = callers[f].gen
  BY CrashFlights, CrashCallers
<1> HIDE DEF open
<1> QED BY <1>1, <1>2, LoseStep

(* Every step maps to a step, and keeps the invariant. *)
LEMMA StepRefines ==
  ASSUME RefreshIInv, Next PROVE Abstract!Next /\ RefreshIInv'
<1>1. CASE Connect
  BY <1>1, ConnectRefines, ConnectKeeps DEF Abstract!Next
<1>2. CASE Remove
  BY <1>2, RemoveRefines, AgreeKept, RemoveKeeps DEF Abstract!Next
<1>3. ASSUME NEW c \in Callers, NEW p \in Pods, Ask(c, p) PROVE Abstract!Next /\ RefreshIInv'
  BY <1>3, CallerLoses, AgreeKept, AskKeeps DEF Abstract!Next
<1>4. ASSUME NEW c \in Callers, Join(c) \/ Cancel(c) PROVE Abstract!Next /\ RefreshIInv'
  BY <1>4, CallerLoses, AgreeKept, JoinKeeps, CancelKeeps DEF Abstract!Next
<1>5. ASSUME NEW f \in Callers, Store(f) PROVE Abstract!Next /\ RefreshIInv'
  BY <1>5, StoreRefines, AgreeKept, StoreKeeps DEF Abstract!Next
<1>6. ASSUME NEW f \in Callers, Provider(f) PROVE Abstract!Next /\ RefreshIInv'
  BY <1>6, ProviderRefines, AgreeKept, ProviderKeeps DEF Abstract!Next
<1>7. ASSUME NEW f \in Callers,
             \/ ReadBefore(f) \/ TakeLock(f) \/ Reread(f) \/ Refused(f) \/ RollBackAborted(f)
             \/ Timeout(f) \/ DatabaseFails(f) \/ Unreachable(f) \/ DropSession(f)
      PROVE  Abstract!Next /\ RefreshIInv'
  <2>1. Abstract!Lose /\ Agree'
    BY <1>7, FlightLoses, AgreeKept
  <2>2. RefreshIInv'
    BY <1>7, <2>1, ReadBeforeKeeps, TakeLockKeeps, RereadKeeps, FailureKeeps, DropSessionKeeps
  <2> QED BY <2>1, <2>2 DEF Abstract!Next
<1>8. ASSUME NEW p \in Pods, Crash(p) PROVE Abstract!Next /\ RefreshIInv'
  BY <1>8, CrashLoses, AgreeKept, CrashKeeps DEF Abstract!Next
<1> QED BY <1>1, <1>2, <1>3, <1>4, <1>5, <1>6, <1>7, <1>8 DEF Next, FlightStep

LEMMA StutterRefines ==
  ASSUME RefreshIInv, UNCHANGED vars PROVE RefreshIInv' /\ UNCHANGED Abstract!vars
<1> USE DEF vars, dbVars, providerVars, podVars
<1>1. UNCHANGED Abstract!vars
  BY DEF Abstract!vars, CommittedLive, Gen
<1>2. Agree'
  BY <1>1 DEF RefreshIInv, Agree, Abstract!Works, Abstract!vars
<1>3. ASSUME NEW c \in Callers
      PROVE  CallerOK(c)' /\ LockOK(c)' /\ AbortOK(c)' /\ WireOK(c)' /\ TokenOK(c)'
  BY DEF RefreshIInv, CallerOK, LockOK, AbortOK, WireOK, TokenOK, Waiters, SameKey, Gen, Pod,
         Stored, Granted, IssuedFor
<1>4. TypeOK' /\ RowOK' /\ (inflight = Running)'
  BY DEF RefreshIInv, TypeOK, RowOK, Running, Granted, IssuedFor
<1> QED BY <1>1, <1>2, <1>3, <1>4 DEF RefreshIInv

(* The invariant holds in every behaviour (Next, with all its failures). *)
THEOREM RefreshInvariant == Spec => []RefreshIInv
<1>1. RefreshIInv /\ [Next]_vars => RefreshIInv'
  BY StepRefines, StutterRefines
<1> QED BY RefreshInit, <1>1, PTL DEF Spec

(* refreshKey and expectedId: a caller is served a token of the generation  *)
(* it is bound to, whatever replaced the connection meanwhile.              *)
THEOREM RefreshServedInTurn == Spec => []ServedInTurn
<1>1. RefreshIInv => ServedInTurn
  BY DEF RefreshIInv, ServedInTurn, OwnGeneration, CallerOK, IssuedFor
<1> QED BY RefreshInvariant, <1>1, PTL

(* doRefresh: the provider refuses a refresh token, and refresh_dead tells  *)
(* the owner to reconnect, only when an answer for that grant was lost.     *)
THEOREM RefreshDeadForCause == Spec => []DeadForCause
<1>1. RefreshIInv => DeadForCause
  BY DEF RefreshIInv, DeadForCause, TokenOK
<1> QED BY RefreshInvariant, <1>1, PTL

(* waitForRefresh: the cancellation of others aborts no caller that joined  *)
(* its flight while somebody still waited for it.                           *)
THEOREM RefreshPeerUnharmed == Spec => []PeerUnharmed
<1>1. RefreshIInv => PeerUnharmed
  BY DEF RefreshIInv, PeerUnharmed, CallerOK
<1> QED BY RefreshInvariant, <1>1, PTL

(* doRefresh and updateTokens implement atomic rotation: the vault and the  *)
(* provider move to the next refresh token together, or the grant's answer  *)
(* is lost.                                                                 *)
THEOREM RefreshImplementsRotation == Spec => AtomicRotation
<1>1. Init => Abstract!Init
  BY DEF Init, Abstract!Init, NoRow, Abstract!NoRow, CommittedLive
<1>2. RefreshIInv /\ [Next]_vars => [Abstract!Next]_(Abstract!vars)
  BY StepRefines, StutterRefines
<1> QED BY RefreshInvariant, <1>1, <1>2, PTL DEF Spec, AtomicRotation, Abstract!Spec
=============================================================================
