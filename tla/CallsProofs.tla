---------------------------- MODULE CallsProofs ----------------------------
(***************************************************************************)
(* What a request through a broker replica may rely on, for any number of  *)
(* requests, generations, ceilings and body sizes.  The invariant is       *)
(* CallsIInv of CallsInv; each action moves one request, so the proof of a *)
(* step is about one record, and the counters are left to the lemmas of    *)
(* AdmissionProofs.                                                        *)
(***************************************************************************)
EXTENDS CallsInv, AdmissionProofs

(* Nothing the verdict of a use check rests on has changed. *)
SameWorld == UNCHANGED <<live, stored, governed>>

(* The two ways to say that the counters are exact. *)
LEMMA Halves ==
  AdmissionTypeOK /\ CountersExact /\ WithinCeilings <=> AdmissionInv
BY DEF AdmissionTypeOK, CountersExact, WithinCeilings, AdmissionInv, GlobalExact, ProvidersExact

LEMMA HalvesNext ==
  ASSUME AdmissionInv'
  PROVE  (AdmissionTypeOK /\ CountersExact /\ WithinCeilings)'
BY DEF AdmissionTypeOK, CountersExact, WithinCeilings, AdmissionInv, GlobalExact, ProvidersExact

(* What is known of one request. *)
LEMMA Known ==
  ASSUME CallsIInv, NEW c \in Work
  PROVE  /\ CallOK(call[c], lease[c], slot[c][TheProvider])
         /\ SeesAuthority(call[c])
         /\ call[c] \in Call
         /\ AdmissionInv /\ EnvironmentOK
         /\ TheProvider \in Providers
         /\ lease[c] \in Releaser /\ slot[c][TheProvider] \in Releaser
<1>1. AdmissionTypeOK /\ TheProvider \in Providers
  BY CallsAssumption DEF CallsIInv
<1> QED  BY <1>1, Halves DEF CallsIInv, CallOK, AdmissionTypeOK

(* A request as others left it keeps all it had. *)
LEMMA OthersKeep ==
  ASSUME CallsIInv, SameWorld, NEW d \in Work,
         call'[d] = call[d], lease'[d] = lease[d],
         slot'[d][TheProvider] = slot[d][TheProvider]
  PROVE  CallOK(call[d], lease[d], slot[d][TheProvider])' /\ SeesAuthority(call[d])'
<1>1. CallOK(call[d], lease[d], slot[d][TheProvider]) /\ SeesAuthority(call[d])
  BY DEF CallsIInv
<1>2. CallOK(call[d], lease[d], slot[d][TheProvider])'
  BY <1>1 DEF CallOK, RunsToItsEnd, HoldsItsOwn, InOrderOf, SendsOf, RelaysWhole, RefusedFor,
              Settled, ApprovalNeeded, IsWrite, Replayable
<1>3. SeesAuthority(call[d])'
  BY <1>1 DEF SeesAuthority, SameWorld, UseStillValid
<1> QED  BY <1>2, <1>3

(* A step that moves one request keeps the invariant if the counters and    *)
(* the record of that request do.                                           *)
LEMMA OneMoves ==
  ASSUME CallsIInv, SameWorld, EnvironmentOK', AdmissionInv', NEW c \in Work, NEW new,
         call' = [call EXCEPT ![c] = new],
         \A d \in Work \ {c} : lease'[d] = lease[d] /\ slot'[d][TheProvider] = slot[d][TheProvider],
         CallOK(new, lease'[c], slot'[c][TheProvider]), SeesAuthority(new)
  PROVE  CallsIInv'
<1>1. call'[c] = new /\ call' \in [Work -> Call] /\ \A d \in Work \ {c} : call'[d] = call[d]
  BY DEF CallsIInv, CallOK
<1>2. CallOK(call[c], lease[c], slot[c][TheProvider])'
  BY <1>1 DEF CallOK, RunsToItsEnd, HoldsItsOwn, InOrderOf, SendsOf, RelaysWhole, RefusedFor,
              Settled, ApprovalNeeded, IsWrite, Replayable
<1>3. SeesAuthority(call[c])'
  BY <1>1 DEF SeesAuthority, SameWorld, UseStillValid
<1>4. \A d \in Work \ {c} :
        CallOK(call[d], lease[d], slot[d][TheProvider])' /\ SeesAuthority(call[d])'
  BY <1>1, OthersKeep
<1> QED  BY <1>1, <1>2, <1>3, <1>4, HalvesNext DEF CallsIInv

(* A request that goes on keeps the invariant if its record does. *)
LEMMA GoKeeps ==
  ASSUME CallsIInv, NEW c \in Work, NEW cl, NEW place, Go(c, cl, place),
         SameWorld, EnvironmentOK',
         CallOK([cl EXCEPT !.at = place], lease[c], slot[c][TheProvider]),
         SeesAuthority([cl EXCEPT !.at = place])
  PROVE  CallsIInv'
<1>1. /\ call' = [call EXCEPT ![c] = [cl EXCEPT !.at = place]]
      /\ UNCHANGED <<opts, global, perProvider, lease, slot>>
  BY DEF Go, admissionVars
<1>2. AdmissionInv'
  BY <1>1, Known, LeasesKept, SlotsKept DEF AdmissionInv
<1> QED  BY <1>1, <1>2, OneMoves

(* What must be true of a request whose handler is about to end. *)
MayEnd(cl) ==
  /\ cl \in Call
  /\ cl.gen <= stored
  /\ cl.outcome \notin Turned
  /\ cl.sends > 0 => cl.token = cl.gen /\ (ApprovalNeeded(cl.method) => cl.paid = cl.gen)
  /\ cl.sends = 2 => Replayable(cl.method)
  /\ cl.relayed <= BodyCap
  /\ cl.response # "closed" => cl.relayed = cl.body
  /\ RefusedFor(cl)

(* A request that has not come has its type. *)
LEMMA IdleTyped == Idle \in Call
<1>1. /\ "idle" \in Places /\ "open" \in Outcomes /\ "fetch" \in Routes /\ "GET" \in Methods
      /\ 0 \in Answers
  BY DEF Places, Outcomes, Routes, Methods, Answers
<1> QED  BY <1>1, CallsAssumption DEF Idle, Call

(* So has one whose handler is done, and one that was given up. *)
LEMMA DoneTyped ==
  ASSUME NEW cl \in Call
  PROVE  [cl EXCEPT !.at = "done", !.handlerDone = TRUE] \in Call
<1>1. "done" \in Places
  BY DEF Places
<1> QED  BY <1>1 DEF Call

LEMMA FailedTyped ==
  ASSUME NEW cl \in Call, NEW o \in Outcomes
  PROVE  [cl EXCEPT !.outcome = o, !.body = 0] \in Call
BY DEF Call

(* Once all is over, only what the client received is remembered. *)
LEMMA ForgottenOK ==
  ASSUME NEW cl \in Call, Over(cl), cl.relayed <= BodyCap,
         cl.response # "closed" => cl.relayed = cl.body, stored \in Nat,
         NEW l, l # "live", NEW s, s # "live"
  PROVE  CallOK(Forgotten(cl), l, s) /\ SeesAuthority(Forgotten(cl))
<1> DEFINE new == Forgotten(cl)
<1>1. /\ new \in Call /\ new.at = "done" /\ new.handlerDone /\ new.response = cl.response
      /\ new.body = cl.body /\ new.relayed = cl.relayed /\ new.gen = 0 /\ new.token = 0
      /\ new.paid = 0 /\ new.sends = 0 /\ new.outcome = "open" /\ ~new.charged
      /\ new.method = "GET" /\ new.route = "fetch"
  <2>1. Idle \in Call
    BY IdleTyped
  <2>2. "done" \in Places
    BY DEF Places
  <2>3. cl.body \in Nat /\ cl.relayed \in Nat /\ cl.response \in {"open", "finished", "closed"}
    BY DEF Call
  <2>4. new \in Call
    BY <2>1, <2>2, <2>3 DEF Forgotten, Call
  <2>5. /\ new.at = "done" /\ new.handlerDone = TRUE /\ new.response = cl.response
        /\ new.body = cl.body /\ new.relayed = cl.relayed
    BY <2>1 DEF Forgotten, Call
  <2>6. /\ new.gen = Idle.gen /\ new.token = Idle.token /\ new.paid = Idle.paid
        /\ new.sends = Idle.sends /\ new.outcome = Idle.outcome /\ new.charged = Idle.charged
        /\ new.method = Idle.method /\ new.route = Idle.route
    BY <2>1 DEF Forgotten, Call
  <2> QED  BY <2>4, <2>5, <2>6 DEF Idle
<1>2. RunsToItsEnd(new) /\ HoldsItsOwn(new, l, s) /\ InOrderOf(new) /\ SendsOf(new)
      /\ RelaysWhole(new) /\ RefusedFor(new)
  BY <1>1 DEF RunsToItsEnd, HoldsItsOwn, InOrderOf, SendsOf, RelaysWhole, RefusedFor, Early,
              Gates, Using, Turned, Over, Settled
<1>3. SeesAuthority(new)
  BY <1>1 DEF SeesAuthority
<1> QED  BY <1>1, <1>2, <1>3 DEF CallOK

(* The handler is done; the response may still be read. *)
LEMMA DoneOK ==
  ASSUME NEW cl \in Call, MayEnd(cl), cl.at = "done", cl.handlerDone, ~Settled(cl),
         NEW s, s # "live"
  PROVE  CallOK(cl, "live", s) /\ SeesAuthority(cl)
<1>1. RunsToItsEnd(cl) /\ HoldsItsOwn(cl, "live", s) /\ InOrderOf(cl) /\ SendsOf(cl)
      /\ RelaysWhole(cl) /\ RefusedFor(cl)
  BY DEF MayEnd, RunsToItsEnd, HoldsItsOwn, InOrderOf, SendsOf, RelaysWhole, Early, Gates,
         Using, Settled
<1>2. SeesAuthority(cl)
  BY DEF SeesAuthority, MayEnd
<1> QED  BY <1>1, <1>2 DEF CallOK

(* The finally blocks give back exactly what the request holds. *)
LEMMA ConcludeKeeps ==
  ASSUME CallsIInv, SameWorld, EnvironmentOK', NEW c \in Work,
         call[c].at \notin {"idle", "done"}, NEW cl, MayEnd(cl), Conclude(c, cl)
  PROVE  CallsIInv'
<1> DEFINE done == [cl EXCEPT !.at = "done", !.handlerDone = TRUE]
           new == IF Over(done) THEN Forgotten(done) ELSE done
<1>1. /\ done \in Call /\ done.at = "done" /\ done.handlerDone /\ MayEnd(done)
      /\ (Over(done) <=> Settled(done))
  <2>1. cl \in Call
    BY DEF MayEnd
  <2>2. done \in Call /\ done.at = "done" /\ done.handlerDone
    <3>1. done \in Call
      BY <2>1, DoneTyped
    <3>2. done.at = "done" /\ done.handlerDone = TRUE
      BY <2>1 DEF Call
    <3> QED  BY <3>1, <3>2
  <2>3. /\ done.gen = cl.gen /\ done.token = cl.token /\ done.paid = cl.paid
        /\ done.sends = cl.sends /\ done.outcome = cl.outcome /\ done.method = cl.method
        /\ done.relayed = cl.relayed /\ done.body = cl.body /\ done.response = cl.response
        /\ done.charged = cl.charged
    BY <2>1 DEF Call
  <2> HIDE DEF done
  <2> QED  BY <2>2, <2>3 DEF MayEnd, Over, Settled, RefusedFor
<1>2. lease[c] = "live" /\ call[c] \in Call /\ AdmissionInv /\ TheProvider \in Providers
  BY Known DEF CallOK, HoldsItsOwn
<1>3. call' = [call EXCEPT ![c] = new] /\ UNCHANGED opts
  BY <1>1 DEF Conclude, Report, Over, Settled
<1>4. IF Settled(done) THEN global' = global - 1 /\ lease' = [lease EXCEPT ![c] = "released"]
      ELSE UNCHANGED <<global, lease>>
  BY <1>1, <1>2 DEF Conclude, Report
<1>5. GlobalExact'
  BY <1>2, <1>3, <1>4, LeaseGivenBack, LeasesKept DEF AdmissionInv
<1>6. ProvidersExact' /\ slot'[c][TheProvider] # "live"
  <2>1. CASE slot[c][TheProvider] = "live"
    <3>1. ProvidersExact'
      BY <1>2, <1>3, <2>1, SlotGivenBack DEF Conclude
    <3>2. slot'[c][TheProvider] = "released"
      BY <1>2, <2>1 DEF Conclude, AdmissionInv, ProvidersExact
    <3> QED  BY <3>1, <3>2
  <2>2. CASE slot[c][TheProvider] # "live"
    BY <1>2, <1>3, <2>2, SlotsKept DEF Conclude, AdmissionInv
  <2> QED  BY <2>1, <2>2
<1>7. AdmissionInv'
  BY <1>2, <1>3, <1>5, <1>6 DEF AdmissionInv
<1>8. \A d \in Work \ {c} : lease'[d] = lease[d] /\ slot'[d][TheProvider] = slot[d][TheProvider]
  BY <1>2, <1>4 DEF Conclude, AdmissionInv, GlobalExact, ProvidersExact
<1>9. CallOK(new, lease'[c], slot'[c][TheProvider]) /\ SeesAuthority(new)
  <2>1. CASE Settled(done)
    <3>1. lease'[c] = "released" /\ new = Forgotten(done)
      BY <1>1, <1>2, <1>4, <2>1 DEF AdmissionInv, GlobalExact
    <3>2. stored \in Nat
      BY Known DEF EnvironmentOK
    <3> QED  BY <1>1, <1>6, <2>1, <3>1, <3>2, ForgottenOK DEF MayEnd, Over
  <2>2. CASE ~Settled(done)
    BY <1>1, <1>2, <1>4, <1>6, <2>2, DoneOK
  <2> QED  BY <2>1, <2>2
<1> QED  BY <1>3, <1>7, <1>8, <1>9, OneMoves

(* A request that is given up keeps the invariant if the refusal cost what  *)
(* it says.                                                                 *)
LEMMA FailKeeps ==
  ASSUME CallsIInv, SameWorld, EnvironmentOK', NEW c \in Work,
         call[c].at \notin {"idle", "relay", "done"}, NEW error \in Outcomes \ Turned,
         RefusedFor([call[c] EXCEPT !.outcome = error]),
         Fail(c, call[c], error)
  PROVE  CallsIInv'
<1> DEFINE cl == [call[c] EXCEPT !.outcome = Thrown(call[c], error), !.body = 0]
<1>1. /\ CallOK(call[c], lease[c], slot[c][TheProvider]) /\ SeesAuthority(call[c])
      /\ call[c] \in Call
  BY Known
<1>2. Thrown(call[c], error) \in {"aborted", "timed_out", error}
  BY DEF Thrown
<1>3. /\ cl.gen = call[c].gen /\ cl.token = call[c].token /\ cl.paid = call[c].paid
      /\ cl.sends = call[c].sends /\ cl.method = call[c].method /\ cl.charged = call[c].charged
      /\ cl.relayed = call[c].relayed /\ cl.body = 0 /\ cl.response = call[c].response
      /\ cl.outcome = Thrown(call[c], error)
  BY <1>1 DEF Call
<1>4. cl \in Call /\ cl.outcome \notin Turned
  <2>1. Thrown(call[c], error) \in Outcomes \ Turned
    BY <1>2 DEF Outcomes, Turned
  <2>2. cl \in Call
    BY <1>1, <2>1, FailedTyped
  <2> QED  BY <1>3, <2>1, <2>2
<1>5. RefusedFor(cl)
  <2>1. LET r == [call[c] EXCEPT !.outcome = error] IN
          /\ r.outcome = error /\ r.charged = call[c].charged /\ r.token = call[c].token
          /\ r.paid = call[c].paid /\ r.sends = call[c].sends
    BY <1>1 DEF Call
  <2> HIDE DEF cl
  <2> QED  BY <1>2, <1>3, <2>1 DEF RefusedFor
<1>6. call[c].relayed = 0
  BY <1>1 DEF CallOK, RelaysWhole
<1> HIDE DEF cl
<1>7. MayEnd(cl)
  BY <1>1, <1>3, <1>4, <1>5, <1>6, CallsAssumption
  DEF MayEnd, CallOK, InOrderOf, SendsOf, RelaysWhole, SeesAuthority
<1> QED  BY <1>7, ConcludeKeeps DEF Fail, cl

(* Errors that promise nothing about what the request has cost. *)
LEMMA FailFreely ==
  ASSUME CallsIInv, SameWorld, EnvironmentOK', NEW c \in Work,
         call[c].at \notin {"idle", "relay", "done"},
         NEW error \in {"aborted", "not_connected", "blocked", "changed", "failed"},
         Fail(c, call[c], error)
  PROVE  CallsIInv'
<1>1. error \in Outcomes \ Turned
  BY DEF Outcomes, Turned
<1>2. RefusedFor([call[c] EXCEPT !.outcome = error])
  <2>1. [call[c] EXCEPT !.outcome = error].outcome = error
    BY Known DEF Call
  <2> QED  BY <2>1 DEF RefusedFor
<1> QED  BY <1>1, <1>2, FailKeeps

(* Until it is charged, a request has cost nothing. *)
LEMMA FailEarly ==
  ASSUME CallsIInv, SameWorld, EnvironmentOK', NEW c \in Work,
         call[c].at \in (Early \ {"idle"}) \cup {"gate", "early", "budget"},
         NEW error \in Outcomes \ Turned,
         Fail(c, call[c], error)
  PROVE  CallsIInv'
<1> DEFINE cl == [call[c] EXCEPT !.outcome = error]
<1>1. CallOK(call[c], lease[c], slot[c][TheProvider]) /\ call[c] \in Call
  BY Known
<1>2. ~call[c].charged /\ call[c].token = 0 /\ call[c].paid = 0 /\ call[c].sends = 0
  BY <1>1 DEF CallOK, InOrderOf, SendsOf, Early, Gates
<1>3. cl.charged = call[c].charged /\ cl.token = call[c].token /\ cl.paid = call[c].paid
      /\ cl.sends = call[c].sends
  BY <1>1 DEF Call
<1>4. RefusedFor(cl)
  BY <1>2, <1>3 DEF RefusedFor
<1>5. call[c].at \notin {"idle", "relay", "done"}
  BY DEF Early
<1> QED  BY <1>4, <1>5, FailKeeps

(* The world as it was. *)
LEMMA WorldKept ==
  ASSUME CallsIInv, UNCHANGED <<level, environmentVars>>
  PROVE  SameWorld /\ EnvironmentOK'
BY DEF CallsIInv, SameWorld, EnvironmentOK, environmentVars, BudgetTypeOK

(* A move changes nothing but the place. *)
LEMMA Moved ==
  ASSUME NEW cl \in Call, NEW place \in Places
  PROVE  LET new == [cl EXCEPT !.at = place] IN
           /\ new \in Call /\ new.at = place
           /\ new.route = cl.route /\ new.method = cl.method /\ new.gen = cl.gen
           /\ new.token = cl.token /\ new.paid = cl.paid /\ new.charged = cl.charged
           /\ new.sends = cl.sends /\ new.sawAuthority = cl.sawAuthority
           /\ new.body = cl.body /\ new.relayed = cl.relayed /\ new.signal = cl.signal
           /\ new.handlerDone = cl.handlerDone /\ new.response = cl.response
           /\ new.outcome = cl.outcome
BY DEF Call

(* The moves that change nothing else. *)
MovesOn(cl, place) ==
  \/ cl.at = "verify" /\ place = "authorize"
  \/ cl.at = "authorize" /\ place = "pin"
  \/ cl.at = "admit" /\ place = "gate" /\ cl.route = "authorization"
  \/ cl.at = "gate" /\ place = "early"
  \/ cl.at = "early" /\ place = "budget"
  \/ cl.at = "consume" /\ place = "ask"
  \/ cl.at = "late" /\ place = "dispatch" /\ UseStillValid(cl)
  \/ cl.at = "refresh" /\ place = "book"
  \/ cl.at = "guard" /\ place = "relay"

LEMMA MoveKeeps ==
  ASSUME CallsIInv, SameWorld, EnvironmentOK', NEW c \in Work, NEW place,
         Go(c, call[c], place), MovesOn(call[c], place)
  PROVE  CallsIInv'
<1> DEFINE new == [call[c] EXCEPT !.at = place]
<1>1. /\ CallOK(call[c], lease[c], slot[c][TheProvider]) /\ SeesAuthority(call[c])
      /\ call[c] \in Call
  BY Known
<1> place \in Places
  BY DEF MovesOn, Places
<1>2. /\ new \in Call /\ new.at = place
      /\ new.route = call[c].route /\ new.method = call[c].method /\ new.gen = call[c].gen
      /\ new.token = call[c].token /\ new.paid = call[c].paid /\ new.charged = call[c].charged
      /\ new.sends = call[c].sends /\ new.sawAuthority = call[c].sawAuthority
      /\ new.body = call[c].body /\ new.relayed = call[c].relayed /\ new.signal = call[c].signal
      /\ new.handlerDone = call[c].handlerDone /\ new.response = call[c].response
      /\ new.outcome = call[c].outcome
  BY <1>1, Moved
<1> HIDE DEF new
<1>3. RunsToItsEnd(new)
  BY <1>1, <1>2 DEF MovesOn, CallOK, RunsToItsEnd
<1>4. HoldsItsOwn(new, lease[c], slot[c][TheProvider])
  BY <1>1, <1>2 DEF MovesOn, CallOK, HoldsItsOwn, Early, Gates, Using
<1>5. InOrderOf(new)
  BY <1>1, <1>2 DEF MovesOn, CallOK, InOrderOf, Early, Gates, Using
<1>6. SendsOf(new)
  BY <1>1, <1>2 DEF MovesOn, CallOK, SendsOf, Early, Gates
<1>7. RelaysWhole(new)
  BY <1>1, <1>2 DEF MovesOn, CallOK, RelaysWhole
<1>8. RefusedFor(new)
  BY <1>1, <1>2 DEF MovesOn, CallOK, RefusedFor
<1>9. SeesAuthority(new)
  BY <1>1, <1>2 DEF MovesOn, SeesAuthority
<1>10. CallOK(new, lease[c], slot[c][TheProvider])
  BY <1>2, <1>3, <1>4, <1>5, <1>6, <1>7, <1>8 DEF CallOK
<1> QED  BY <1>9, <1>10, GoKeeps DEF new

(* A request whose record changed where it is allowed to. *)
LEMMA StepKeeps ==
  ASSUME CallsIInv, SameWorld, EnvironmentOK', NEW c \in Work, NEW cl, NEW place,
         Go(c, cl, place),
         NEW new, new = [cl EXCEPT !.at = place], new \in Call,
         RunsToItsEnd(new), HoldsItsOwn(new, lease[c], slot[c][TheProvider]), InOrderOf(new),
         SendsOf(new), RelaysWhole(new), RefusedFor(new), SeesAuthority(new)
  PROVE  CallsIInv'
BY GoKeeps DEF CallOK

(* The owner is bound to the generation that is live. *)
LEMMA PinKeeps ==
  ASSUME CallsIInv, NEW c \in Work, Pin(c)
  PROVE  CallsIInv'
<1>1. SameWorld /\ EnvironmentOK'
  BY WorldKept DEF Pin
<1>2. call[c].at = "pin"
  BY DEF Pin, At
<1>3. CASE live = 0
  BY <1>1, <1>2, <1>3, FailFreely DEF Pin
<1>4. CASE live # 0
  <2> DEFINE new == [[call[c] EXCEPT !.gen = live] EXCEPT !.at = "admit"]
  <2>1. /\ CallOK(call[c], lease[c], slot[c][TheProvider]) /\ call[c] \in Call
        /\ live \in 0..MaxGen /\ stored \in 0..MaxGen /\ live <= stored
    BY Known DEF EnvironmentOK
  <2>2. /\ new \in Call /\ new.at = "admit" /\ new.gen = live
        /\ new.route = call[c].route /\ new.method = call[c].method
        /\ new.token = call[c].token /\ new.paid = call[c].paid /\ new.charged = call[c].charged
        /\ new.sends = call[c].sends /\ new.body = call[c].body /\ new.relayed = call[c].relayed
        /\ new.handlerDone = call[c].handlerDone /\ new.response = call[c].response
        /\ new.outcome = call[c].outcome
    <3>1. "admit" \in Places
      BY DEF Places
    <3> QED  BY <2>1, <3>1 DEF Call
  <2>3. Go(c, [call[c] EXCEPT !.gen = live], "admit")
    BY <1>4 DEF Pin
  <2> HIDE DEF new
  <2>4. RunsToItsEnd(new) /\ HoldsItsOwn(new, lease[c], slot[c][TheProvider])
    BY <1>2, <2>1, <2>2 DEF CallOK, RunsToItsEnd, HoldsItsOwn, Early, Gates, Using
  <2>5. InOrderOf(new) /\ SendsOf(new)
    BY <1>2, <1>4, <2>1, <2>2 DEF CallOK, InOrderOf, SendsOf, Early, Gates, Using
  <2>6. RelaysWhole(new) /\ RefusedFor(new) /\ SeesAuthority(new)
    BY <1>2, <2>1, <2>2 DEF CallOK, RelaysWhole, RefusedFor, SeesAuthority
  <2> QED  BY <1>1, <2>2, <2>3, <2>4, <2>5, <2>6, StepKeeps DEF new
<1> QED  BY <1>3, <1>4

(* An admitted request holds its lease; one turned away holds nothing. *)
LEMMA ArriveKeeps ==
  ASSUME CallsIInv, NEW c \in Work, NEW r \in [route : Routes, method : Methods], Arrive(c, r)
  PROVE  CallsIInv'
<1> DEFINE cl == [Idle EXCEPT !.route = r.route, !.method = r.method]
<1>1. SameWorld /\ EnvironmentOK'
  BY WorldKept DEF Arrive
<1>2. /\ CallOK(call[c], lease[c], slot[c][TheProvider]) /\ AdmissionInv /\ call[c].at = "idle"
      /\ stored \in Nat
  BY Known DEF Arrive, At, EnvironmentOK
<1>3. lease[c] = "none" /\ slot[c][TheProvider] = "none"
  BY <1>2 DEF CallOK, HoldsItsOwn, Early
<1>4. /\ cl \in Call /\ cl.route = r.route /\ cl.method = r.method
      /\ cl.gen = Idle.gen /\ cl.token = Idle.token /\ cl.paid = Idle.paid
      /\ cl.charged = Idle.charged /\ cl.sends = Idle.sends /\ cl.body = Idle.body
      /\ cl.relayed = Idle.relayed /\ cl.handlerDone = Idle.handlerDone
      /\ cl.response = Idle.response /\ cl.outcome = Idle.outcome
  BY IdleTyped DEF Call
<1>5. /\ cl.gen = 0 /\ cl.token = 0 /\ cl.paid = 0 /\ ~cl.charged /\ cl.sends = 0 /\ cl.body = 0
      /\ cl.relayed = 0 /\ ~cl.handlerDone /\ cl.response = "open" /\ cl.outcome = "open"
  BY <1>4 DEF Idle
<1> HIDE DEF cl
<1>6. ASSUME NEW out \in Turned, Refuse(c, cl, out)
      PROVE  CallsIInv'
  <2> DEFINE new == [cl EXCEPT !.at = "done", !.handlerDone = TRUE, !.outcome = out]
  <2>1. /\ new \in Call /\ new.at = "done" /\ new.handlerDone = TRUE /\ new.outcome = out
        /\ new.gen = cl.gen /\ new.token = cl.token /\ new.paid = cl.paid
        /\ new.charged = cl.charged /\ new.sends = cl.sends /\ new.body = cl.body
        /\ new.relayed = cl.relayed /\ new.response = cl.response
    <3>1. "done" \in Places /\ out \in Outcomes
      BY DEF Places, Outcomes, Turned
    <3>2. new \in Call
      BY <1>4, <3>1 DEF Call
    <3>3. new.at = "done" /\ new.handlerDone = TRUE /\ new.outcome = out
      BY <1>4 DEF Call
    <3> QED  BY <1>4, <3>2, <3>3 DEF Call
  <2>2. call' = [call EXCEPT ![c] = new] /\ UNCHANGED <<opts, global, perProvider, lease, slot>>
    BY <1>6 DEF Refuse, admissionVars
  <2> HIDE DEF new
  <2>3. CallOK(new, lease[c], slot[c][TheProvider]) /\ SeesAuthority(new)
    <3>1. RunsToItsEnd(new) /\ HoldsItsOwn(new, lease[c], slot[c][TheProvider])
      BY <1>3, <1>5, <2>1 DEF RunsToItsEnd, HoldsItsOwn, Early, Gates, Using
    <3>2. InOrderOf(new) /\ SendsOf(new)
      BY <1>5, <2>1 DEF InOrderOf, SendsOf, Early, Gates, Using
    <3>3. RelaysWhole(new) /\ RefusedFor(new) /\ SeesAuthority(new)
      BY <1>2, <1>5, <2>1, CallsAssumption DEF RelaysWhole, RefusedFor, SeesAuthority
    <3> QED  BY <2>1, <3>1, <3>2, <3>3 DEF CallOK
  <2>4. AdmissionInv'
    BY <1>2, <2>2, LeasesKept, SlotsKept DEF AdmissionInv
  <2> QED  BY <1>1, <2>2, <2>3, <2>4, OneMoves
<1>7. ASSUME Enter(c), call' = [call EXCEPT ![c] = [cl EXCEPT !.at = "verify"]]
      PROVE  CallsIInv'
  <2> DEFINE new == [cl EXCEPT !.at = "verify"]
  <2>1. /\ new \in Call /\ new.at = "verify" /\ new.handlerDone = cl.handlerDone
        /\ new.outcome = cl.outcome /\ new.gen = cl.gen /\ new.token = cl.token
        /\ new.paid = cl.paid /\ new.charged = cl.charged /\ new.sends = cl.sends
        /\ new.body = cl.body /\ new.relayed = cl.relayed /\ new.response = cl.response
    <3>1. "verify" \in Places
      BY DEF Places
    <3> QED  BY <1>4, <3>1, Moved
  <2> HIDE DEF new
  <2>2. /\ lease'[c] = "live" /\ slot' = slot
        /\ \A d \in Work \ {c} : lease'[d] = lease[d]
    BY <1>2, <1>7 DEF Enter, AdmissionInv, GlobalExact
  <2>3. CallOK(new, lease'[c], slot'[c][TheProvider]) /\ SeesAuthority(new)
    <3>1. RunsToItsEnd(new) /\ HoldsItsOwn(new, lease'[c], slot'[c][TheProvider])
      BY <1>3, <1>5, <2>1, <2>2 DEF RunsToItsEnd, HoldsItsOwn, Early, Gates, Using
    <3>2. InOrderOf(new) /\ SendsOf(new)
      BY <1>5, <2>1 DEF InOrderOf, SendsOf, Early, Gates, Using
    <3>3. RelaysWhole(new) /\ RefusedFor(new) /\ SeesAuthority(new)
      BY <1>2, <1>5, <2>1, CallsAssumption DEF RelaysWhole, RefusedFor, SeesAuthority
    <3> QED  BY <2>1, <3>1, <3>2, <3>3 DEF CallOK
  <2>4. AdmissionInv'
    BY <1>2, <1>7, EnterKeeps
  <2> QED  BY <1>1, <1>7, <2>2, <2>3, <2>4, OneMoves DEF new
<1> QED  BY <1>6, <1>7 DEF Arrive, Turned, cl

(* The slot is taken with the admission to the provider. *)
LEMMA AdmitKeeps ==
  ASSUME CallsIInv, NEW c \in Work, Admit(c)
  PROVE  CallsIInv'
<1>1. SameWorld /\ EnvironmentOK'
  BY WorldKept DEF Admit
<1>2. /\ CallOK(call[c], lease[c], slot[c][TheProvider]) /\ SeesAuthority(call[c])
      /\ call[c] \in Call /\ AdmissionInv /\ TheProvider \in Providers /\ call[c].at = "admit"
  BY Known DEF Admit, At
<1>3. ASSUME NEW error \in {"aborted", "blocked", "provider_full"}, Fail(c, call[c], error)
      PROVE  CallsIInv'
  <2>1. error \in Outcomes \ Turned
    BY DEF Outcomes, Turned
  <2> QED  BY <1>1, <1>2, <1>3, <2>1, FailEarly DEF Early
<1>4. ASSUME call[c].route = "authorization", Go(c, call[c], "gate")
      PROVE  CallsIInv'
  BY <1>1, <1>2, <1>4, MoveKeeps DEF MovesOn
<1>5. ASSUME call[c].route # "authorization", EnterProvider(c, TheProvider),
             call' = [call EXCEPT ![c].at = "gate"]
      PROVE  CallsIInv'
  <2> DEFINE new == [call[c] EXCEPT !.at = "gate"]
  <2>1. /\ new \in Call /\ new.at = "gate"
        /\ new.route = call[c].route /\ new.method = call[c].method /\ new.gen = call[c].gen
        /\ new.token = call[c].token /\ new.paid = call[c].paid /\ new.charged = call[c].charged
        /\ new.sends = call[c].sends /\ new.body = call[c].body /\ new.relayed = call[c].relayed
        /\ new.handlerDone = call[c].handlerDone /\ new.response = call[c].response
        /\ new.outcome = call[c].outcome
    <3>1. "gate" \in Places
      BY DEF Places
    <3> QED  BY <1>2, <3>1, Moved
  <2> HIDE DEF new
  <2>2. /\ slot'[c][TheProvider] = "live" /\ lease' = lease
        /\ \A d \in Work \ {c} : slot'[d][TheProvider] = slot[d][TheProvider]
    BY <1>2, <1>5 DEF EnterProvider, AdmissionInv, ProvidersExact
  <2>3. CallOK(new, lease'[c], slot'[c][TheProvider]) /\ SeesAuthority(new)
    <3>1. RunsToItsEnd(new) /\ HoldsItsOwn(new, lease'[c], slot'[c][TheProvider])
      BY <1>2, <1>5, <2>1, <2>2 DEF CallOK, RunsToItsEnd, HoldsItsOwn, Early, Gates, Using
    <3>2. InOrderOf(new) /\ SendsOf(new)
      BY <1>2, <2>1 DEF CallOK, InOrderOf, SendsOf, Early, Gates, Using
    <3>3. RelaysWhole(new) /\ RefusedFor(new) /\ SeesAuthority(new)
      BY <1>2, <2>1 DEF CallOK, RelaysWhole, RefusedFor, SeesAuthority
    <3> QED  BY <2>1, <3>1, <3>2, <3>3 DEF CallOK
  <2>4. AdmissionInv'
    BY <1>2, <1>5, EnterProviderKeeps
  <2>5. call' = [call EXCEPT ![c] = new]
    BY <1>5 DEF new
  <2> QED  BY <1>1, <2>2, <2>3, <2>4, <2>5, OneMoves
<1> QED  BY <1>3, <1>4, <1>5 DEF Admit

(* The steps that let a request pass or turn it away. *)
LEMMA GatesKeep ==
  ASSUME CallsIInv, NEW c \in Work,
         Verify(c) \/ Authorize(c) \/ EgressGate(c) \/ CheckEarly(c) \/ CheckLate(c)
  PROVE  CallsIInv'
<1>1. SameWorld /\ EnvironmentOK'
  BY WorldKept DEF Verify, Authorize, EgressGate, CheckEarly, CheckLate
<1>2. {"aborted", "method", "unauthorized", "denied", "blocked", "changed"} \subseteq Outcomes \ Turned
  BY DEF Outcomes, Turned
<1>3. CASE Verify(c)
  BY <1>1, <1>2, <1>3, FailEarly, MoveKeeps DEF Verify, At, Early, MovesOn
<1>4. CASE Authorize(c)
  BY <1>1, <1>2, <1>4, FailEarly, MoveKeeps DEF Authorize, At, Early, MovesOn
<1>5. CASE EgressGate(c)
  BY <1>1, <1>2, <1>5, FailEarly, MoveKeeps DEF EgressGate, At, MovesOn
<1>6. CASE CheckEarly(c)
  BY <1>1, <1>2, <1>6, FailEarly, MoveKeeps DEF CheckEarly, At, MovesOn
<1>7. CASE CheckLate(c)
  BY <1>1, <1>7, FailFreely, MoveKeeps DEF CheckLate, At, MovesOn, LateVerdict
<1> QED  BY <1>3, <1>4, <1>5, <1>6, <1>7

(* The budget is charged once every gate was passed. *)
LEMMA BudgetKeeps ==
  ASSUME CallsIInv, NEW c \in Work, TakeRateBudget(c)
  PROVE  CallsIInv'
<1>1. /\ CallOK(call[c], lease[c], slot[c][TheProvider]) /\ SeesAuthority(call[c])
      /\ call[c] \in Call /\ EnvironmentOK /\ call[c].at = "budget"
  BY Known DEF TakeRateBudget, At
<1>2. SameWorld
  BY DEF TakeRateBudget, SameWorld, environmentVars
<1>3. ASSUME Fail(c, call[c], "limited"), UNCHANGED level
      PROVE  CallsIInv'
  <2>1. EnvironmentOK'
    BY <1>1, <1>3 DEF TakeRateBudget, environmentVars, EnvironmentOK, BudgetTypeOK
  <2>2. "limited" \in Outcomes \ Turned
    BY DEF Outcomes, Turned
  <2> QED  BY <1>1, <1>2, <1>3, <2>1, <2>2, FailEarly
<1>4. ASSUME Spend(TheProvider), Go(c, [call[c] EXCEPT !.charged = TRUE], AfterBudget(call[c]))
      PROVE  CallsIInv'
  <2> DEFINE place == AfterBudget(call[c])
             new == [[call[c] EXCEPT !.charged = TRUE] EXCEPT !.at = place]
  <2>1. EnvironmentOK'
    <3>1. BudgetTypeOK'
      BY <1>1, <1>4, CallsAssumption
      DEF Spend, Affordable, EnvironmentOK, BudgetTypeOK
    <3> QED  BY <1>1, <3>1 DEF TakeRateBudget, environmentVars, EnvironmentOK
  <2>2. /\ place \in {"ask", "consume", "read"}
        /\ place = "read" => ~ApprovalNeeded(call[c].method) /\ call[c].route # "authorization"
        /\ place = "consume" => call[c].route # "authorization"
    <3>1. CASE call[c].route = "authorization"
      BY <3>1 DEF AfterBudget
    <3>2. CASE call[c].route # "authorization" /\ ApprovalNeeded(call[c].method)
      BY <3>2 DEF AfterBudget
    <3>3. CASE call[c].route # "authorization" /\ ~ApprovalNeeded(call[c].method)
      BY <3>3 DEF AfterBudget
    <3> QED  BY <3>1, <3>2, <3>3
  <2>3. place \in Places
    BY <2>2 DEF Places
  <2> HIDE DEF place
  <2>4. /\ new \in Call /\ new.at = place
        /\ new.route = call[c].route /\ new.method = call[c].method /\ new.gen = call[c].gen
        /\ new.token = call[c].token /\ new.paid = call[c].paid
        /\ new.sends = call[c].sends /\ new.body = call[c].body /\ new.relayed = call[c].relayed
        /\ new.handlerDone = call[c].handlerDone /\ new.response = call[c].response
        /\ new.outcome = call[c].outcome
    BY <1>1, <2>3 DEF Call
  <2> HIDE DEF new
  <2>5. RunsToItsEnd(new) /\ HoldsItsOwn(new, lease[c], slot[c][TheProvider])
    BY <1>1, <2>2, <2>4 DEF CallOK, RunsToItsEnd, HoldsItsOwn, Early, Gates, Using
  <2>6. InOrderOf(new) /\ SendsOf(new)
    BY <1>1, <2>2, <2>4 DEF CallOK, InOrderOf, SendsOf, Early, Gates, Using
  <2>7. RelaysWhole(new) /\ SeesAuthority(new)
    BY <1>1, <2>2, <2>4 DEF CallOK, RelaysWhole, SeesAuthority
  <2>8. RefusedFor(new)
    BY <1>1, <2>4 DEF CallOK, RefusedFor, RunsToItsEnd
  <2> QED  BY <1>2, <1>4, <2>1, <2>4, <2>5, <2>6, <2>7, <2>8, StepKeeps DEF new, place
<1> QED  BY <1>3, <1>4 DEF TakeRateBudget

LEMMA PaidTyped ==
  ASSUME NEW cl \in Call, NEW g \in 0..MaxGen, NEW place \in Places
  PROVE  [[cl EXCEPT !.paid = g] EXCEPT !.at = place] \in Call
BY DEF Call

(* The grant that is spent is one of the pinned generation. *)
LEMMA ConsumeKeeps ==
  ASSUME CallsIInv, NEW c \in Work, ConsumeGrant(c)
  PROVE  CallsIInv'
<1>1. /\ CallOK(call[c], lease[c], slot[c][TheProvider]) /\ SeesAuthority(call[c])
      /\ call[c] \in Call /\ EnvironmentOK /\ call[c].at = "consume"
  BY Known DEF ConsumeGrant, At
<1>2. SameWorld
  BY DEF ConsumeGrant, SameWorld
<1>3. ASSUME UNCHANGED approval
      PROVE  EnvironmentOK'
  BY <1>1, <1>3 DEF ConsumeGrant, EnvironmentOK, BudgetTypeOK
<1>4. ASSUME Fail(c, call[c], "changed"), UNCHANGED approval
      PROVE  CallsIInv'
  BY <1>1, <1>2, <1>3, <1>4, FailFreely
<1>5. ASSUME Go(c, call[c], "ask"), UNCHANGED approval
      PROVE  CallsIInv'
  BY <1>1, <1>2, <1>3, <1>5, MoveKeeps DEF MovesOn
<1>6. ASSUME NEW g \in Spendable(call[c]), approval' = [approval EXCEPT ![g] = "none"],
             Go(c, [call[c] EXCEPT !.paid = g], "read")
      PROVE  CallsIInv'
  <2> DEFINE new == [[call[c] EXCEPT !.paid = g] EXCEPT !.at = "read"]
  <2>1. EnvironmentOK'
    <3>1. approval' \in [Gens -> {"none", "pending", "granted"}]
      BY <1>1, <1>6 DEF EnvironmentOK
    <3> QED  BY <1>1, <3>1 DEF ConsumeGrant, EnvironmentOK, BudgetTypeOK
  <2>2. g = call[c].gen /\ g \in 0..MaxGen
    BY <1>1 DEF Spendable, Call
  <2>3. /\ new \in Call /\ new.at = "read" /\ new.paid = g
        /\ new.route = call[c].route /\ new.method = call[c].method /\ new.gen = call[c].gen
        /\ new.token = call[c].token /\ new.charged = call[c].charged
        /\ new.sends = call[c].sends /\ new.body = call[c].body /\ new.relayed = call[c].relayed
        /\ new.handlerDone = call[c].handlerDone /\ new.response = call[c].response
        /\ new.outcome = call[c].outcome
    <3>1. "read" \in Places
      BY DEF Places
    <3>2. new \in Call
      BY <1>1, <2>2, <3>1, PaidTyped
    <3> QED  BY <1>1, <3>2 DEF Call
  <2> HIDE DEF new
  <2>4. RunsToItsEnd(new) /\ HoldsItsOwn(new, lease[c], slot[c][TheProvider])
    BY <1>1, <2>3 DEF CallOK, RunsToItsEnd, HoldsItsOwn, Early, Gates, Using
  <2>5. InOrderOf(new) /\ SendsOf(new)
    BY <1>1, <2>2, <2>3 DEF CallOK, InOrderOf, SendsOf, Early, Gates, Using
  <2>6. RelaysWhole(new) /\ RefusedFor(new) /\ SeesAuthority(new)
    BY <1>1, <2>3 DEF CallOK, RelaysWhole, RefusedFor, SeesAuthority, RunsToItsEnd
  <2> QED  BY <1>2, <1>6, <2>1, <2>3, <2>4, <2>5, <2>6, StepKeeps DEF new
<1> QED  BY <1>4, <1>5, <1>6 DEF ConsumeGrant

(* Asking for a decision ends the request before its secret is read. *)
LEMMA AskKeeps ==
  ASSUME CallsIInv, NEW c \in Work, AskApproval(c)
  PROVE  CallsIInv'
<1>1. /\ CallOK(call[c], lease[c], slot[c][TheProvider])
      /\ call[c] \in Call /\ EnvironmentOK /\ call[c].at = "ask"
  BY Known DEF AskApproval, At
<1>2. SameWorld
  BY DEF AskApproval, SameWorld
<1>3. EnvironmentOK'
  <2>1. approval' \in [Gens -> {"none", "pending", "granted"}]
    BY <1>1 DEF AskApproval, EnvironmentOK
  <2> QED  BY <1>1, <2>1 DEF AskApproval, EnvironmentOK, BudgetTypeOK
<1>4. ASSUME NEW error \in {"recorded", "approval_required"}, Fail(c, call[c], error)
      PROVE  CallsIInv'
  <2>1. error \in Outcomes \ Turned
    BY DEF Outcomes, Turned
  <2>2. RefusedFor([call[c] EXCEPT !.outcome = error])
    <3>1. call[c].token = 0 /\ call[c].sends = 0
      BY <1>1 DEF CallOK, InOrderOf, SendsOf, Gates
    <3>2. LET r == [call[c] EXCEPT !.outcome = error] IN
            r.outcome = error /\ r.token = call[c].token /\ r.sends = call[c].sends
      BY <1>1 DEF Call
    <3> QED  BY <3>1, <3>2 DEF RefusedFor
  <2> QED  BY <1>1, <1>2, <1>3, <1>4, <2>1, <2>2, FailKeeps
<1>5. ASSUME Fail(c, call[c], "changed")
      PROVE  CallsIInv'
  BY <1>1, <1>2, <1>3, <1>5, FailFreely
<1> QED  BY <1>4, <1>5 DEF AskApproval

(* The secret that is read is the one of the pinned generation. *)
LEMMA ReadKeeps ==
  ASSUME CallsIInv, NEW c \in Work, ReadCredential(c)
  PROVE  CallsIInv'
<1>1. /\ CallOK(call[c], lease[c], slot[c][TheProvider]) /\ SeesAuthority(call[c])
      /\ call[c] \in Call /\ call[c].at = "read"
  BY Known DEF ReadCredential, At
<1>2. SameWorld /\ EnvironmentOK'
  BY WorldKept DEF ReadCredential
<1>3. CASE ExactRow(call[c]) = 0
  BY <1>1, <1>2, <1>3, FailFreely DEF ReadCredential
<1>4. CASE ExactRow(call[c]) # 0
  <2> DEFINE new == [[call[c] EXCEPT !.token = ExactRow(call[c])] EXCEPT !.at = "token"]
  <2>1. ExactRow(call[c]) = call[c].gen /\ call[c].gen \in 0..MaxGen
    BY <1>1, <1>4 DEF ExactRow, Call
  <2>2. /\ new \in Call /\ new.at = "token" /\ new.token = call[c].gen
        /\ new.route = call[c].route /\ new.method = call[c].method /\ new.gen = call[c].gen
        /\ new.paid = call[c].paid /\ new.charged = call[c].charged
        /\ new.sends = call[c].sends /\ new.body = call[c].body /\ new.relayed = call[c].relayed
        /\ new.handlerDone = call[c].handlerDone /\ new.response = call[c].response
        /\ new.outcome = call[c].outcome
    <3>1. "token" \in Places
      BY DEF Places
    <3> QED  BY <1>1, <2>1, <3>1 DEF Call
  <2>3. Go(c, [call[c] EXCEPT !.token = ExactRow(call[c])], "token")
    BY <1>4 DEF ReadCredential
  <2> HIDE DEF new
  <2>4. RunsToItsEnd(new) /\ HoldsItsOwn(new, lease[c], slot[c][TheProvider])
    BY <1>1, <2>2 DEF CallOK, RunsToItsEnd, HoldsItsOwn, Early, Gates, Using
  <2>5. InOrderOf(new) /\ SendsOf(new)
    BY <1>1, <2>2 DEF CallOK, InOrderOf, SendsOf, Early, Gates, Using
  <2>6. RelaysWhole(new) /\ RefusedFor(new) /\ SeesAuthority(new)
    BY <1>1, <2>2 DEF CallOK, RelaysWhole, RefusedFor, SeesAuthority, RunsToItsEnd
  <2> QED  BY <1>2, <2>2, <2>3, <2>4, <2>5, <2>6, StepKeeps DEF new
<1> QED  BY <1>3, <1>4

(* A request that has its secret moves between the steps around the         *)
(* provider call: the same counters, the same claims.                       *)
OnItsWay(cl, new) ==
  /\ new.route = cl.route /\ new.method = cl.method /\ new.gen = cl.gen
  /\ new.token = cl.token /\ new.paid = cl.paid /\ new.charged = cl.charged
  /\ new.handlerDone = cl.handlerDone /\ new.response = cl.response
  /\ new.outcome = cl.outcome

LEMMA UsingKeeps ==
  ASSUME CallsIInv, SameWorld, EnvironmentOK', NEW c \in Work, NEW cl, NEW place,
         Go(c, cl, place),
         NEW new, new = [cl EXCEPT !.at = place], new \in Call, OnItsWay(call[c], new),
         call[c].at \in Using \ {"read"}, new.at \in Using \ {"read"},
         SendsOf(new), RelaysWhole(new), SeesAuthority(new)
  PROVE  CallsIInv'
<1>1. CallOK(call[c], lease[c], slot[c][TheProvider]) /\ call[c] \in Call
  BY Known
<1>2. RunsToItsEnd(new) /\ HoldsItsOwn(new, lease[c], slot[c][TheProvider])
  BY <1>1 DEF CallOK, OnItsWay, RunsToItsEnd, HoldsItsOwn, Early, Gates, Using
<1>3. InOrderOf(new)
  BY <1>1 DEF CallOK, OnItsWay, InOrderOf, Early, Gates, Using
<1>4. RefusedFor(new)
  BY <1>1 DEF CallOK, OnItsWay, RefusedFor, RunsToItsEnd, Using
<1> QED  BY <1>2, <1>3, <1>4, StepKeeps

LEMMA AnsweredTyped ==
  ASSUME NEW cl \in Call, NEW status \in Answers, NEW place \in Places
  PROVE  [[cl EXCEPT !.status = status] EXCEPT !.at = place] \in Call
BY DEF Call

LEMMA AnsweredAs ==
  ASSUME NEW cl \in Call, NEW status, NEW place
  PROVE  LET new == [[cl EXCEPT !.status = status] EXCEPT !.at = place] IN
           /\ new.at = place
           /\ new.route = cl.route /\ new.method = cl.method /\ new.gen = cl.gen
           /\ new.token = cl.token /\ new.paid = cl.paid /\ new.charged = cl.charged
           /\ new.sends = cl.sends /\ new.body = cl.body /\ new.relayed = cl.relayed
           /\ new.handlerDone = cl.handlerDone /\ new.response = cl.response
           /\ new.outcome = cl.outcome
BY DEF Call

LEMMA SeenTyped ==
  ASSUME NEW cl \in Call, NEW saw \in BOOLEAN, NEW place \in Places
  PROVE  [[cl EXCEPT !.sawAuthority = saw] EXCEPT !.at = place] \in Call
BY DEF Call

(* The token is in hand, and the authority looked at since. *)
LEMMA TokenKeeps ==
  ASSUME CallsIInv, NEW c \in Work, ObtainToken(c)
  PROVE  CallsIInv'
<1>1. /\ CallOK(call[c], lease[c], slot[c][TheProvider]) /\ SeesAuthority(call[c])
      /\ call[c] \in Call /\ EnvironmentOK /\ call[c].at = "token"
  BY Known DEF ObtainToken, At
<1>2. SameWorld /\ EnvironmentOK'
  BY WorldKept DEF ObtainToken
<1>3. CASE Fail(c, call[c], "failed")
  BY <1>1, <1>2, <1>3, FailFreely
<1>4. CASE Go(c, [call[c] EXCEPT !.sawAuthority = UseStillValid(call[c])], "late")
  <2> DEFINE cl == [call[c] EXCEPT !.sawAuthority = UseStillValid(call[c])]
             new == [cl EXCEPT !.at = "late"]
  <2>1. /\ new \in Call /\ new.at = "late" /\ new.sawAuthority = UseStillValid(call[c])
        /\ OnItsWay(call[c], new) /\ new.sends = call[c].sends /\ new.body = call[c].body
        /\ new.relayed = call[c].relayed
    <3>1. "late" \in Places /\ UseStillValid(call[c]) \in BOOLEAN
      BY <1>1 DEF Places, UseStillValid, EnvironmentOK
    <3>2. new \in Call
      BY <1>1, <3>1 DEF Call
    <3> QED  BY <1>1, <3>2 DEF Call, OnItsWay
  <2> HIDE DEF new
  <2>2. SendsOf(new) /\ RelaysWhole(new)
    BY <1>1, <2>1 DEF CallOK, OnItsWay, SendsOf, RelaysWhole, Early, Gates
  <2>3. SeesAuthority(new)
    BY <1>1, <2>1 DEF SeesAuthority, OnItsWay, UseStillValid
  <2> QED  BY <1>1, <1>2, <1>4, <2>1, <2>2, <2>3, UsingKeeps DEF new, Using
<1> QED  BY <1>3, <1>4 DEF ObtainToken

(* A send follows a check of its own. *)
LEMMA DispatchKeeps ==
  ASSUME CallsIInv, NEW c \in Work, Dispatch(c)
  PROVE  CallsIInv'
<1>1. /\ CallOK(call[c], lease[c], slot[c][TheProvider]) /\ SeesAuthority(call[c])
      /\ call[c] \in Call /\ call[c].at = "dispatch"
  BY Known DEF Dispatch, At
<1>2. SameWorld /\ EnvironmentOK'
  BY WorldKept DEF Dispatch
<1>3. CASE call[c].signal # "none"
  BY <1>1, <1>2, <1>3, FailFreely DEF Dispatch
<1>4. CASE call[c].signal = "none"
  <2> DEFINE new == [[call[c] EXCEPT !.sends = @ + 1] EXCEPT !.at = "wire"]
  <2>1. call[c].sends = 0 \/ (call[c].sends = 1 /\ Replayable(call[c].method))
    BY <1>1 DEF CallOK, SendsOf
  <2>2. /\ new \in Call /\ new.at = "wire" /\ new.sends = call[c].sends + 1
        /\ OnItsWay(call[c], new) /\ new.body = call[c].body /\ new.relayed = call[c].relayed
    <3>1. "wire" \in Places /\ call[c].sends + 1 \in 0..2
      BY <2>1 DEF Places
    <3>2. new \in Call
      BY <1>1, <3>1 DEF Call
    <3> QED  BY <1>1, <3>2 DEF Call, OnItsWay
  <2>3. Go(c, [call[c] EXCEPT !.sends = @ + 1], "wire")
    BY <1>4 DEF Dispatch
  <2> HIDE DEF new
  <2>4. SendsOf(new) /\ RelaysWhole(new) /\ SeesAuthority(new)
    BY <1>1, <2>1, <2>2 DEF CallOK, OnItsWay, SendsOf, RelaysWhole, SeesAuthority, Early, Gates
  <2> QED  BY <1>1, <1>2, <2>2, <2>3, <2>4, UsingKeeps DEF new, Using
<1> QED  BY <1>3, <1>4

(* An answer is refreshed once, then booked. *)
LEMMA AnswerKeeps ==
  ASSUME CallsIInv, NEW c \in Work, NEW status \in Answers,
         ProviderAnswers(c, status)
  PROVE  CallsIInv'
<1>1. /\ CallOK(call[c], lease[c], slot[c][TheProvider]) /\ SeesAuthority(call[c])
      /\ call[c] \in Call /\ call[c].at = "wire"
  BY Known DEF ProviderAnswers, At
<1>2. SameWorld /\ EnvironmentOK'
  BY WorldKept DEF ProviderAnswers
<1>3. ASSUME NEW place \in {"refresh", "book"}, place = "refresh" => call[c].sends = 1,
             Go(c, [call[c] EXCEPT !.status = status], place)
      PROVE  CallsIInv'
  <2> DEFINE new == [[call[c] EXCEPT !.status = status] EXCEPT !.at = place]
  <2>1. place \in Places
    BY DEF Places
  <2>2. new \in Call
    BY <1>1, <2>1, AnsweredTyped
  <2>3. /\ new.at = place /\ OnItsWay(call[c], new) /\ new.sends = call[c].sends
        /\ new.body = call[c].body /\ new.relayed = call[c].relayed
    BY <1>1, <2>1, AnsweredAs DEF OnItsWay
  <2> HIDE DEF new
  <2>4. SendsOf(new) /\ RelaysWhole(new) /\ SeesAuthority(new)
    BY <1>1, <1>3, <2>2, <2>3
    DEF CallOK, OnItsWay, SendsOf, RelaysWhole, SeesAuthority, Early, Gates
  <2>5. call[c].at \in Using \ {"read"} /\ new.at \in Using \ {"read"}
    BY <1>1, <2>3 DEF Using
  <2> QED  BY <1>2, <1>3, <2>2, <2>3, <2>4, <2>5, UsingKeeps DEF new
<1> QED  BY <1>3 DEF ProviderAnswers, AfterAnswer

LEMMA NetworkKeeps ==
  ASSUME CallsIInv, NEW c \in Work, NetworkFails(c)
  PROVE  CallsIInv'
<1>1. SameWorld /\ EnvironmentOK'
  BY WorldKept DEF NetworkFails
<1> QED  BY <1>1, FailFreely DEF NetworkFails, At

(* Only an idempotent call goes back to be sent again. *)
LEMMA RefreshKeeps ==
  ASSUME CallsIInv, NEW c \in Work, RefreshAfter401(c)
  PROVE  CallsIInv'
<1>1. /\ CallOK(call[c], lease[c], slot[c][TheProvider]) /\ SeesAuthority(call[c])
      /\ call[c] \in Call /\ EnvironmentOK /\ call[c].at = "refresh"
  BY Known DEF RefreshAfter401, At
<1>2. SameWorld /\ EnvironmentOK'
  BY WorldKept DEF RefreshAfter401
<1>3. CASE Fail(c, call[c], "failed")
  BY <1>1, <1>2, <1>3, FailFreely
<1>4. CASE Go(c, call[c], "book")
  BY <1>1, <1>2, <1>4, MoveKeeps DEF MovesOn
<1>5. ASSUME Replayable(call[c].method),
             Go(c, [call[c] EXCEPT !.sawAuthority = UseStillValid(call[c])], ReplayFrom)
      PROVE  CallsIInv'
  <2> DEFINE cl == [call[c] EXCEPT !.sawAuthority = UseStillValid(call[c])]
             new == [cl EXCEPT !.at = ReplayFrom]
  <2>1. /\ new \in Call /\ new.at = "late" /\ new.sawAuthority = UseStillValid(call[c])
        /\ OnItsWay(call[c], new) /\ new.sends = call[c].sends /\ new.body = call[c].body
        /\ new.relayed = call[c].relayed
    <3>1. "late" \in Places /\ UseStillValid(call[c]) \in BOOLEAN /\ ReplayFrom = "late"
      BY <1>1 DEF Places, UseStillValid, EnvironmentOK, ReplayFrom
    <3>2. new \in Call
      BY <1>1, <3>1, SeenTyped
    <3> QED  BY <1>1, <3>1, <3>2 DEF Call, OnItsWay
  <2> HIDE DEF new
  <2>2. SendsOf(new) /\ RelaysWhole(new)
    BY <1>1, <1>5, <2>1 DEF CallOK, OnItsWay, SendsOf, RelaysWhole, Early, Gates
  <2>3. SeesAuthority(new)
    BY <1>1, <2>1 DEF SeesAuthority, OnItsWay, UseStillValid
  <2> QED  BY <1>1, <1>2, <1>5, <2>1, <2>2, <2>3, UsingKeeps DEF new, Using
<1> QED  BY <1>3, <1>4, <1>5 DEF RefreshAfter401

LEMMA BookKeeps ==
  ASSUME CallsIInv, NEW c \in Work, NEW size \in Sizes, Book(c, size)
  PROVE  CallsIInv'
<1> DEFINE new == [[call[c] EXCEPT !.body = size] EXCEPT !.at = "guard"]
<1>1. /\ CallOK(call[c], lease[c], slot[c][TheProvider]) /\ SeesAuthority(call[c])
      /\ call[c] \in Call /\ call[c].at = "book"
  BY Known DEF Book, At
<1>2. SameWorld /\ EnvironmentOK'
  BY WorldKept DEF Book
<1>3. /\ new \in Call /\ new.at = "guard" /\ OnItsWay(call[c], new) /\ new.sends = call[c].sends
      /\ new.relayed = call[c].relayed
  <2>1. "guard" \in Places /\ size \in Nat
    BY CallsAssumption DEF Places
  <2>2. new \in Call
    BY <1>1, <2>1 DEF Call
  <2> QED  BY <1>1, <2>2 DEF Call, OnItsWay
<1>4. Go(c, [call[c] EXCEPT !.body = size], "guard")
  BY DEF Book
<1> HIDE DEF new
<1>5. SendsOf(new) /\ RelaysWhole(new) /\ SeesAuthority(new)
  BY <1>1, <1>3 DEF CallOK, OnItsWay, SendsOf, RelaysWhole, SeesAuthority, Early, Gates
<1> QED  BY <1>1, <1>2, <1>3, <1>4, <1>5, UsingKeeps DEF new, Using

(* What a request may say of itself when its handler ends. *)
LEMMA EndOf ==
  ASSUME NEW cl \in Call, NEW l, NEW s, CallOK(cl, l, s), cl.gen <= stored, cl.at \in Using,
         NEW new, new \in Call,
         new.gen = cl.gen, new.token = cl.token, new.paid = cl.paid, new.sends = cl.sends,
         new.method = cl.method, new.relayed <= BodyCap,
         new.response # "closed" => new.relayed = new.body,
         new.outcome \in {"answered", "aborted"}
  PROVE  MayEnd(new)
BY DEF MayEnd, CallOK, InOrderOf, SendsOf, Turned, RefusedFor, Using

(* /v1/fetch answers in one piece; /v1/mcp starts its relay. *)
LEMMA GuardKeeps ==
  ASSUME CallsIInv, NEW c \in Work, GuardResponse(c)
  PROVE  CallsIInv'
<1>1. /\ CallOK(call[c], lease[c], slot[c][TheProvider]) /\ SeesAuthority(call[c])
      /\ call[c] \in Call /\ call[c].at = "guard"
  BY Known DEF GuardResponse, At
<1>2. SameWorld /\ EnvironmentOK'
  BY WorldKept DEF GuardResponse
<1>3. ASSUME NEW error \in {"blocked", "failed"}, Fail(c, call[c], error)
      PROVE  CallsIInv'
  BY <1>1, <1>2, <1>3, FailFreely
<1>4. ASSUME call[c].body <= BodyCap,
             Conclude(c, [call[c] EXCEPT !.relayed = call[c].body, !.outcome = "answered"])
      PROVE  CallsIInv'
  <2> DEFINE new == [call[c] EXCEPT !.relayed = call[c].body, !.outcome = "answered"]
  <2>1. "answered" \in Outcomes
    BY DEF Outcomes
  <2>2. new \in Call
    BY <1>1, <2>1 DEF Call
  <2>3. /\ new.gen = call[c].gen /\ new.token = call[c].token /\ new.paid = call[c].paid
        /\ new.sends = call[c].sends /\ new.method = call[c].method /\ new.body = call[c].body
        /\ new.relayed = call[c].body /\ new.outcome = "answered"
    BY <1>1 DEF Call
  <2> HIDE DEF new
  <2>4. call[c].gen <= stored /\ call[c].at \in Using
    BY <1>1 DEF SeesAuthority, Using
  <2>5. MayEnd(new)
    BY <1>1, <1>4, <2>2, <2>3, <2>4, EndOf
  <2> QED  BY <1>1, <1>2, <1>4, <2>5, ConcludeKeeps DEF new
<1>5. CASE Go(c, call[c], "relay")
  BY <1>1, <1>2, <1>5, MoveKeeps DEF MovesOn
<1> QED  BY <1>1, <1>3, <1>4, <1>5 DEF GuardResponse

LEMMA ChunkKeeps ==
  ASSUME CallsIInv, NEW c \in Work, RelayChunk(c)
  PROVE  CallsIInv'
<1> DEFINE new == [[call[c] EXCEPT !.relayed = @ + 1] EXCEPT !.at = "relay"]
<1>1. /\ CallOK(call[c], lease[c], slot[c][TheProvider]) /\ SeesAuthority(call[c])
      /\ call[c] \in Call /\ call[c].at = "relay"
  BY Known DEF RelayChunk, At
<1>2. SameWorld /\ EnvironmentOK'
  BY WorldKept DEF RelayChunk
<1>3. /\ new \in Call /\ new.at = "relay" /\ OnItsWay(call[c], new) /\ new.sends = call[c].sends
      /\ new.relayed = call[c].relayed + 1
  <2>1. "relay" \in Places /\ call[c].relayed + 1 \in Nat
    BY <1>1 DEF Places, Call
  <2>2. new \in Call
    BY <1>1, <2>1 DEF Call
  <2> QED  BY <1>1, <2>2 DEF Call, OnItsWay
<1>4. Go(c, [call[c] EXCEPT !.relayed = @ + 1], "relay") /\ call[c].relayed + 1 <= BodyCap
  BY DEF RelayChunk, UnderCap
<1> HIDE DEF new
<1>5. SendsOf(new) /\ RelaysWhole(new) /\ SeesAuthority(new)
  BY <1>1, <1>3, <1>4 DEF CallOK, OnItsWay, SendsOf, RelaysWhole, SeesAuthority, Early, Gates
<1> QED  BY <1>1, <1>2, <1>3, <1>4, <1>5, UsingKeeps DEF new, Using

(* A relay that is cut leaves a response nobody takes for a finished one. *)
LEMMA CutKeeps ==
  ASSUME CallsIInv, NEW c \in Work, RelayFails(c)
  PROVE  CallsIInv'
<1> DEFINE response == IF call[c].response = "open" THEN Cut ELSE call[c].response
           signal == IF call[c].signal = "none" THEN "disconnect" ELSE call[c].signal
           new == [call[c] EXCEPT !.response = IF @ = "open" THEN Cut ELSE @,
                                  !.signal = IF @ = "none" THEN "disconnect" ELSE @,
                                  !.outcome = "aborted"]
<1>1. /\ CallOK(call[c], lease[c], slot[c][TheProvider]) /\ SeesAuthority(call[c])
      /\ call[c] \in Call /\ call[c].at = "relay"
  BY Known DEF RelayFails, At
<1>2. SameWorld /\ EnvironmentOK'
  BY WorldKept DEF RelayFails
<1>3. Conclude(c, new)
  BY DEF RelayFails
<1>4. response \in {"open", "finished", "closed"} /\ response = "closed"
  BY <1>1 DEF Call, CallOK, RelaysWhole, Cut
<1>5. signal \in {"none", "disconnect", "deadline"}
  BY <1>1 DEF Call
<1>6. new = [call[c] EXCEPT !.response = response, !.signal = signal, !.outcome = "aborted"]
  BY <1>1 DEF Call
<1> HIDE DEF response, signal, new
<1>7. /\ new \in Call /\ new.gen = call[c].gen /\ new.token = call[c].token
      /\ new.paid = call[c].paid /\ new.sends = call[c].sends /\ new.method = call[c].method
      /\ new.relayed = call[c].relayed /\ new.response = "closed" /\ new.outcome = "aborted"
  <2>1. "aborted" \in Outcomes
    BY DEF Outcomes
  <2>2. new \in Call
    BY <1>1, <1>4, <1>5, <1>6, <2>1 DEF Call
  <2>3. new.response = "closed" /\ new.outcome = "aborted"
    BY <1>1, <1>4, <1>6 DEF Call
  <2> QED  BY <1>1, <1>6, <2>2, <2>3 DEF Call
<1>8. call[c].gen <= stored /\ call[c].at \in Using /\ call[c].relayed <= BodyCap
  BY <1>1 DEF SeesAuthority, Using, CallOK, RelaysWhole
<1>9. MayEnd(new)
  BY <1>1, <1>7, <1>8, EndOf
<1> QED  BY <1>1, <1>2, <1>3, <1>9, ConcludeKeeps

LEMMA RelayEndKeeps ==
  ASSUME CallsIInv, NEW c \in Work, RelayEnds(c)
  PROVE  CallsIInv'
<1> DEFINE new == [call[c] EXCEPT !.outcome = "answered"]
<1>1. /\ CallOK(call[c], lease[c], slot[c][TheProvider]) /\ SeesAuthority(call[c])
      /\ call[c] \in Call /\ call[c].at = "relay" /\ call[c].relayed = call[c].body
  BY Known DEF RelayEnds, At
<1>2. SameWorld /\ EnvironmentOK'
  BY WorldKept DEF RelayEnds
<1>3. /\ new \in Call /\ new.gen = call[c].gen /\ new.token = call[c].token
      /\ new.paid = call[c].paid /\ new.sends = call[c].sends /\ new.method = call[c].method
      /\ new.relayed = call[c].relayed /\ new.body = call[c].body /\ new.outcome = "answered"
  <2>1. "answered" \in Outcomes
    BY DEF Outcomes
  <2>2. new \in Call
    BY <1>1, <2>1 DEF Call
  <2> QED  BY <1>1, <2>2 DEF Call
<1>4. Conclude(c, new)
  BY DEF RelayEnds
<1> HIDE DEF new
<1>5. call[c].gen <= stored /\ call[c].at \in Using /\ call[c].relayed <= BodyCap
  BY <1>1 DEF SeesAuthority, Using, CallOK, RelaysWhole
<1>6. MayEnd(new)
  BY <1>1, <1>3, <1>5, EndOf
<1> QED  BY <1>1, <1>2, <1>4, <1>6, ConcludeKeeps

(* The second of handler and response to end gives the lease back. *)
LEMMA ReportEnds ==
  ASSUME CallsIInv, SameWorld, EnvironmentOK', NEW c \in Work, lease[c] = "live",
         slot[c][TheProvider] # "live",
         NEW cl \in Call, Over(cl), cl.relayed <= BodyCap,
         cl.response # "closed" => cl.relayed = cl.body,
         Report(c, cl), UNCHANGED <<opts, perProvider, slot>>
  PROVE  CallsIInv'
<1>1. AdmissionInv /\ stored \in Nat
  BY Known DEF EnvironmentOK
<1>2. /\ call' = [call EXCEPT ![c] = Forgotten(cl)]
      /\ global' = global - 1 /\ lease' = [lease EXCEPT ![c] = "released"]
  BY DEF Report, Over
<1>3. AdmissionInv'
  BY <1>1, <1>2, LeaseGivenBack, SlotsKept DEF AdmissionInv
<1>4. lease'[c] = "released" /\ \A d \in Work \ {c} : lease'[d] = lease[d]
  BY <1>1, <1>2 DEF AdmissionInv, GlobalExact
<1>5. CallOK(Forgotten(cl), lease'[c], slot'[c][TheProvider]) /\ SeesAuthority(Forgotten(cl))
  BY <1>1, <1>4, ForgottenOK
<1> QED  BY <1>2, <1>3, <1>4, <1>5, OneMoves

LEMMA FinishKeeps ==
  ASSUME CallsIInv, NEW c \in Work, Finish(c)
  PROVE  CallsIInv'
<1> DEFINE new == [call[c] EXCEPT !.response = "finished"]
<1>1. /\ CallOK(call[c], lease[c], slot[c][TheProvider]) /\ call[c] \in Call
      /\ call[c].handlerDone /\ call[c].response = "open" /\ lease[c] = "live"
  BY Known DEF Finish
<1>2. SameWorld /\ EnvironmentOK'
  BY WorldKept DEF Finish
<1>3. call[c].at = "done" /\ slot[c][TheProvider] # "live"
  BY <1>1 DEF CallOK, RunsToItsEnd, HoldsItsOwn
<1>4. call[c].relayed = call[c].body /\ call[c].relayed <= BodyCap
  BY <1>1, <1>3 DEF CallOK, RelaysWhole
<1>5. /\ new \in Call /\ new.response = "finished" /\ new.handlerDone = call[c].handlerDone
      /\ new.relayed = call[c].relayed /\ new.body = call[c].body
  BY <1>1 DEF Call
<1>6. Report(c, new)
  BY DEF Finish
<1> HIDE DEF new
<1>7. Over(new)
  BY <1>1, <1>5 DEF Over, Settled
<1> QED  BY <1>1, <1>2, <1>3, <1>4, <1>5, <1>6, <1>7, ReportEnds DEF Finish

LEMMA CloseKeeps ==
  ASSUME CallsIInv, NEW c \in Work, Close(c)
  PROVE  CallsIInv'
<1> DEFINE signal == IF call[c].signal = "none" THEN "disconnect" ELSE call[c].signal
           new == [call[c] EXCEPT !.response = "closed",
                                  !.signal = IF @ = "none" THEN "disconnect" ELSE @]
<1>1. /\ CallOK(call[c], lease[c], slot[c][TheProvider]) /\ SeesAuthority(call[c])
      /\ call[c] \in Call /\ AdmissionInv
      /\ call[c].at # "idle" /\ call[c].response = "open" /\ lease[c] = "live"
  BY Known DEF Close
<1>2. SameWorld /\ EnvironmentOK'
  BY WorldKept DEF Close
<1>3. Report(c, new)
  BY DEF Close
<1>4. signal \in {"none", "disconnect", "deadline"}
  BY <1>1 DEF Call
<1>5. new = [call[c] EXCEPT !.response = "closed", !.signal = signal]
  BY <1>1 DEF Call
<1> HIDE DEF signal, new
<1>6. /\ new \in Call /\ new.at = call[c].at /\ new.response = "closed"
      /\ new.route = call[c].route /\ new.method = call[c].method /\ new.gen = call[c].gen
      /\ new.token = call[c].token /\ new.paid = call[c].paid /\ new.charged = call[c].charged
      /\ new.sends = call[c].sends /\ new.sawAuthority = call[c].sawAuthority
      /\ new.body = call[c].body /\ new.relayed = call[c].relayed
      /\ new.handlerDone = call[c].handlerDone /\ new.outcome = call[c].outcome
  <2>1. new \in Call
    BY <1>1, <1>4, <1>5 DEF Call
  <2>2. /\ new.at = call[c].at /\ new.response = "closed"
        /\ new.route = call[c].route /\ new.method = call[c].method /\ new.gen = call[c].gen
        /\ new.token = call[c].token /\ new.paid = call[c].paid /\ new.charged = call[c].charged
        /\ new.sends = call[c].sends /\ new.sawAuthority = call[c].sawAuthority
        /\ new.body = call[c].body /\ new.relayed = call[c].relayed
        /\ new.handlerDone = call[c].handlerDone /\ new.outcome = call[c].outcome
    BY <1>1, <1>5 DEF Call
  <2> QED  BY <2>1, <2>2
<1>7. CASE call[c].at = "done"
  <2>1. call[c].handlerDone /\ slot[c][TheProvider] # "live" /\ call[c].relayed <= BodyCap
    BY <1>1, <1>7 DEF CallOK, RunsToItsEnd, HoldsItsOwn, RelaysWhole
  <2>2. Over(new)
    BY <1>6, <2>1 DEF Over, Settled
  <2> QED  BY <1>1, <1>2, <1>3, <1>6, <2>1, <2>2, ReportEnds DEF Close
<1>8. CASE call[c].at # "done"
  <2>1. ~call[c].handlerDone
    BY <1>1, <1>8 DEF CallOK, RunsToItsEnd
  <2>2. call' = [call EXCEPT ![c] = new] /\ UNCHANGED <<opts, global, perProvider, lease, slot>>
    BY <1>3, <1>6, <2>1 DEF Report, Over, Close
  <2>3. CallOK(new, lease[c], slot[c][TheProvider]) /\ SeesAuthority(new)
    <3>1. RunsToItsEnd(new) /\ HoldsItsOwn(new, lease[c], slot[c][TheProvider])
      BY <1>1, <1>6, <1>8 DEF CallOK, RunsToItsEnd, HoldsItsOwn
    <3>2. InOrderOf(new) /\ SendsOf(new)
      BY <1>1, <1>6 DEF CallOK, InOrderOf, SendsOf
    <3>3. RelaysWhole(new) /\ RefusedFor(new)
      BY <1>1, <1>6, <1>8 DEF CallOK, RelaysWhole, RefusedFor
    <3>4. SeesAuthority(new)
      BY <1>1, <1>6 DEF SeesAuthority, UseStillValid
    <3> QED  BY <1>6, <3>1, <3>2, <3>3, <3>4 DEF CallOK
  <2>4. AdmissionInv'
    BY <1>1, <2>2, LeasesKept, SlotsKept DEF AdmissionInv
  <2> QED  BY <1>2, <2>2, <2>3, <2>4, OneMoves
<1> QED  BY <1>7, <1>8

LEMMA ExpireKeeps ==
  ASSUME CallsIInv, NEW c \in Work, Expire(c)
  PROVE  CallsIInv'
<1> DEFINE new == [call[c] EXCEPT !.signal = "deadline"]
<1>1. /\ CallOK(call[c], lease[c], slot[c][TheProvider]) /\ SeesAuthority(call[c])
      /\ call[c] \in Call /\ AdmissionInv
  BY Known
<1>2. SameWorld /\ EnvironmentOK'
  BY WorldKept DEF Expire
<1>3. call' = [call EXCEPT ![c] = new] /\ UNCHANGED <<opts, global, perProvider, lease, slot>>
  BY DEF Expire, admissionVars
<1>4. /\ new \in Call /\ new.at = call[c].at /\ new.response = call[c].response
      /\ new.route = call[c].route /\ new.method = call[c].method /\ new.gen = call[c].gen
      /\ new.token = call[c].token /\ new.paid = call[c].paid /\ new.charged = call[c].charged
      /\ new.sends = call[c].sends /\ new.sawAuthority = call[c].sawAuthority
      /\ new.body = call[c].body /\ new.relayed = call[c].relayed
      /\ new.handlerDone = call[c].handlerDone /\ new.outcome = call[c].outcome
  BY <1>1 DEF Call
<1> HIDE DEF new
<1>5. CallOK(new, lease[c], slot[c][TheProvider]) /\ SeesAuthority(new)
  <2>1. RunsToItsEnd(new) /\ HoldsItsOwn(new, lease[c], slot[c][TheProvider])
    BY <1>1, <1>4 DEF CallOK, RunsToItsEnd, HoldsItsOwn, Settled
  <2>2. InOrderOf(new) /\ SendsOf(new)
    BY <1>1, <1>4 DEF CallOK, InOrderOf, SendsOf
  <2>3. RelaysWhole(new) /\ RefusedFor(new) /\ SeesAuthority(new)
    BY <1>1, <1>4 DEF CallOK, RelaysWhole, RefusedFor, SeesAuthority, UseStillValid
  <2> QED  BY <1>4, <2>1, <2>2, <2>3 DEF CallOK
<1>6. AdmissionInv'
  BY <1>1, <1>3, LeasesKept, SlotsKept DEF AdmissionInv
<1> QED  BY <1>2, <1>3, <1>5, <1>6, OneMoves

(* The world around moves no request: it may only take the authority of     *)
(* those that are about to be sent, or give it back.                        *)
LEMMA WorldKeeps ==
  ASSUME CallsIInv, UNCHANGED <<admissionVars, call>>, EnvironmentOK', stored <= stored',
         \A c \in Work : call[c].at = "late" => call[c].sawAuthority \/ ~UseStillValid(call[c])'
  PROVE  CallsIInv'
<1>1. AdmissionInv'
  BY Halves, LeasesKept, SlotsKept DEF CallsIInv, AdmissionInv, admissionVars
<1>2. ASSUME NEW c \in Work
      PROVE  CallOK(call[c], lease[c], slot[c][TheProvider])' /\ SeesAuthority(call[c])'
  <2>1. /\ CallOK(call[c], lease[c], slot[c][TheProvider]) /\ SeesAuthority(call[c])
        /\ call[c] \in Call /\ stored \in Nat
    BY Known DEF EnvironmentOK
  <2>2. call'[c] = call[c] /\ lease' = lease /\ slot' = slot
    BY DEF admissionVars
  <2>3. CallOK(call[c], lease[c], slot[c][TheProvider])'
    BY <2>1, <2>2 DEF CallOK, RunsToItsEnd, HoldsItsOwn, InOrderOf, SendsOf, RelaysWhole,
                      RefusedFor, Settled, ApprovalNeeded, IsWrite, Replayable
  <2>4. call[c].gen <= stored'
    <3>1. call[c].gen \in Nat /\ stored' \in Nat
      BY <2>1, CallsAssumption DEF Call, EnvironmentOK
    <3> QED  BY <2>1, <3>1 DEF SeesAuthority
  <2>5. SeesAuthority(call[c])'
    BY <2>1, <2>2, <2>4 DEF SeesAuthority, UseStillValid
  <2> QED  BY <2>3, <2>5
<1>3. call' \in [Work -> Call]
  BY DEF CallsIInv
<1> QED  BY <1>1, <1>2, <1>3, HalvesNext DEF CallsIInv

(* A change of governance is seen by every request that has its secret. *)
LEMMA GovernKeeps ==
  ASSUME CallsIInv, Govern
  PROVE  CallsIInv'
<1>1. AdmissionInv' /\ EnvironmentOK'
  <2>1. AdmissionInv /\ EnvironmentOK
    BY Halves DEF CallsIInv
  <2>2. AdmissionInv'
    BY <2>1, LeasesKept, SlotsKept DEF Govern, AdmissionInv, admissionVars
  <2>3. EnvironmentOK'
    BY <2>1 DEF Govern, EnvironmentOK, BudgetTypeOK
  <2> QED  BY <2>2, <2>3
<1>2. ASSUME NEW c \in Work
      PROVE  CallOK(call[c], lease[c], slot[c][TheProvider])' /\ SeesAuthority(call[c])'
  <2>1. /\ CallOK(call[c], lease[c], slot[c][TheProvider]) /\ SeesAuthority(call[c])
        /\ call[c] \in Call
    BY Known
  <2>2. /\ lease' = lease /\ slot' = slot /\ stored' = stored /\ live' = live
        /\ governed' = ~governed
        /\ call'[c] = IF call[c].token # 0 /\ ~governed /\ live = call[c].gen
                      THEN [call[c] EXCEPT !.sawAuthority = TRUE] ELSE call[c]
    BY DEF Govern, Witnessed, admissionVars
  <2>3. LET new == call'[c] IN
          /\ new \in Call /\ new.at = call[c].at /\ new.response = call[c].response
          /\ new.route = call[c].route /\ new.method = call[c].method /\ new.gen = call[c].gen
          /\ new.token = call[c].token /\ new.paid = call[c].paid
          /\ new.charged = call[c].charged /\ new.sends = call[c].sends
          /\ new.body = call[c].body /\ new.relayed = call[c].relayed
          /\ new.handlerDone = call[c].handlerDone /\ new.outcome = call[c].outcome
          /\ call[c].sawAuthority => new.sawAuthority
          /\ call[c].token # 0 /\ ~governed /\ live = call[c].gen => new.sawAuthority
    <3>1. CASE call[c].token # 0 /\ ~governed /\ live = call[c].gen
      <4>1. call'[c] = [call[c] EXCEPT !.sawAuthority = TRUE]
        BY <2>2, <3>1
      <4>2. call'[c] \in Call
        BY <2>1, <4>1 DEF Call
      <4> QED  BY <2>1, <4>1, <4>2 DEF Call
    <3>2. CASE ~(call[c].token # 0 /\ ~governed /\ live = call[c].gen)
      <4>1. call'[c] = call[c]
        BY <2>2, <3>2
      <4> QED  BY <2>1, <3>2, <4>1
    <3> QED  BY <3>1, <3>2
  <2>4. RunsToItsEnd(call[c])' /\ HoldsItsOwn(call[c], lease[c], slot[c][TheProvider])'
    BY <2>1, <2>2, <2>3 DEF CallOK, RunsToItsEnd, HoldsItsOwn, Settled
  <2>5. InOrderOf(call[c])' /\ SendsOf(call[c])'
    BY <2>1, <2>3 DEF CallOK, InOrderOf, SendsOf, ApprovalNeeded, IsWrite, Replayable
  <2>6. RelaysWhole(call[c])' /\ RefusedFor(call[c])'
    BY <2>1, <2>3 DEF CallOK, RelaysWhole, RefusedFor
  <2>7. SeesAuthority(call[c])'
    <3>1. call[c].at = "late" => call[c].token # 0
      BY <2>1 DEF CallOK, InOrderOf, Using
    <3> QED  BY <2>1, <2>2, <2>3, <3>1 DEF SeesAuthority, UseStillValid
  <2> QED  BY <2>3, <2>4, <2>5, <2>6, <2>7 DEF CallOK
<1>3. call' \in [Work -> Call]
  <2>1. \A c \in Work : call'[c] \in Call
    BY <1>2 DEF CallOK
  <2> QED  BY <2>1 DEF Govern, Witnessed
<1> QED  BY <1>1, <1>2, <1>3, HalvesNext DEF CallsIInv

(* A generation that was replaced or removed is nobody's any more. *)
LEMMA GenerationsKeep ==
  ASSUME CallsIInv, Reconnect \/ RemoveCredential
  PROVE  CallsIInv'
<1>1. EnvironmentOK /\ UNCHANGED <<admissionVars, call>>
  BY DEF CallsIInv, Reconnect, RemoveCredential
<1>2. approval' \in [Gens -> {"none", "pending", "granted"}]
  BY DEF Reconnect, RemoveCredential
<1>3. /\ live' \in 0..MaxGen /\ stored' \in 0..MaxGen /\ live' <= stored' /\ stored <= stored'
      /\ live' = 0 \/ live' > stored
  BY <1>1, CallsAssumption DEF Reconnect, RemoveCredential, EnvironmentOK
<1>4. EnvironmentOK'
  BY <1>1, <1>2, <1>3 DEF Reconnect, RemoveCredential, EnvironmentOK, BudgetTypeOK
<1>5. ASSUME NEW c \in Work, call[c].at = "late"
      PROVE  ~UseStillValid(call[c])'
  <2>1. /\ CallOK(call[c], lease[c], slot[c][TheProvider]) /\ SeesAuthority(call[c])
        /\ call[c] \in Call
    BY Known
  <2>2. call[c].gen # 0 /\ call[c].gen <= stored /\ call[c].gen \in Nat /\ stored \in Nat
        /\ live' \in Nat
    BY <1>1, <1>3, <1>5, <2>1, CallsAssumption
    DEF CallOK, InOrderOf, Using, SeesAuthority, Call, EnvironmentOK
  <2>3. live' # call[c].gen
    BY <1>3, <2>2
  <2> QED  BY <1>1, <2>3 DEF UseStillValid
<1> QED  BY <1>1, <1>3, <1>4, <1>5, WorldKeeps

(* A decision, or a tick of the budget. *)
LEMMA AroundKeeps ==
  ASSUME CallsIInv, RefillBudget \/ \E g \in Gens : Grant(g)
  PROVE  CallsIInv'
<1>1. EnvironmentOK /\ UNCHANGED <<admissionVars, call, live, stored, governed>>
  BY DEF CallsIInv, RefillBudget, Grant, environmentVars
<1>2. EnvironmentOK'
  <2>1. CASE RefillBudget
    <3>1. level' \in [Keys -> Nat]
      BY <1>1, <2>1, CallsAssumption
      DEF RefillBudget, Replenish, EnvironmentOK, BudgetTypeOK, Least
    <3> QED  BY <1>1, <2>1, <3>1 DEF RefillBudget, environmentVars, EnvironmentOK, BudgetTypeOK
  <2>2. CASE \E g \in Gens : Grant(g)
    <3>1. approval' \in [Gens -> {"none", "pending", "granted"}]
      BY <1>1, <2>2 DEF Grant, EnvironmentOK
    <3> QED  BY <1>1, <2>2, <3>1 DEF Grant, EnvironmentOK, BudgetTypeOK
  <2> QED  BY <2>1, <2>2
<1>3. stored <= stored'
  BY <1>1 DEF EnvironmentOK
<1>4. ASSUME NEW c \in Work, call[c].at = "late"
      PROVE  call[c].sawAuthority \/ ~UseStillValid(call[c])'
  BY <1>1, <1>4, Known DEF SeesAuthority, UseStillValid
<1> QED  BY <1>1, <1>2, <1>3, <1>4, WorldKeeps

(* A replica that has just started. *)
LEMMA CallsStart ==
  ASSUME CallsInit
  PROVE  CallsIInv
<1>1. AdmissionInv
  BY AdmissionStarts DEF CallsInit
<1>2. EnvironmentOK
  <2>1. level \in [Keys -> Nat]
    BY CallsAssumption DEF CallsInit, BudgetInit
  <2>2. approval \in [Gens -> {"none", "pending", "granted"}]
    BY DEF CallsInit
  <2> QED  BY <2>1, <2>2, CallsAssumption DEF CallsInit, EnvironmentOK, BudgetTypeOK
<1>3. ASSUME NEW c \in Work
      PROVE  CallOK(call[c], lease[c], slot[c][TheProvider]) /\ SeesAuthority(call[c])
  <2>1. call[c] = Idle /\ lease[c] = "none" /\ slot[c][TheProvider] = "none" /\ stored = 1
    BY CallsAssumption DEF CallsInit, AdmissionInit
  <2>2. /\ Idle.at = "idle" /\ Idle.gen = 0 /\ Idle.token = 0 /\ Idle.paid = 0 /\ ~Idle.charged
        /\ Idle.sends = 0 /\ Idle.body = 0 /\ Idle.relayed = 0 /\ ~Idle.handlerDone
        /\ Idle.response = "open" /\ Idle.outcome = "open"
    BY DEF Idle
  <2>3. RunsToItsEnd(Idle) /\ HoldsItsOwn(Idle, "none", "none")
    BY <2>2 DEF RunsToItsEnd, HoldsItsOwn, Early, Gates, Using
  <2>4. InOrderOf(Idle) /\ SendsOf(Idle)
    BY <2>2 DEF InOrderOf, SendsOf, Early, Gates, Using
  <2>5. RelaysWhole(Idle) /\ RefusedFor(Idle) /\ SeesAuthority(Idle)
    BY <2>1, <2>2, CallsAssumption DEF RelaysWhole, RefusedFor, SeesAuthority
  <2> QED  BY <2>1, <2>3, <2>4, <2>5, IdleTyped DEF CallOK
<1>4. call \in [Work -> Call]
  BY IdleTyped DEF CallsInit
<1> QED  BY <1>1, <1>2, <1>3, <1>4, Halves DEF CallsIInv

(* Every step of the replica and of the world around it. *)
LEMMA CallsStep ==
  ASSUME CallsIInv, [CallsNext]_callVars
  PROVE  CallsIInv'
<1>1. CASE UNCHANGED callVars
  <2>1. /\ UNCHANGED <<admissionVars, call, live, stored, governed, level, approval, load>>
    BY <1>1 DEF callVars, environmentVars
  <2>2. EnvironmentOK' /\ stored <= stored'
    BY <2>1 DEF CallsIInv, EnvironmentOK, BudgetTypeOK
  <2>3. ASSUME NEW c \in Work, call[c].at = "late"
        PROVE  call[c].sawAuthority \/ ~UseStillValid(call[c])'
    BY <2>1, <2>3, Known DEF SeesAuthority, UseStillValid
  <2> QED  BY <2>1, <2>2, <2>3, WorldKeeps
<1>2. ASSUME NEW c \in Work, NEW r \in load.asks[c], Arrive(c, r)
      PROVE  CallsIInv'
  <2>1. r \in [route : Routes, method : Methods]
    BY CallsAssumption DEF CallsIInv, EnvironmentOK
  <2> QED  BY <1>2, <2>1, ArriveKeeps
<1>3. ASSUME NEW c \in Work, HandlerStep(c)
      PROVE  CallsIInv'
  BY <1>3, PinKeeps, AdmitKeeps, GatesKeep, BudgetKeeps, ConsumeKeeps, AskKeeps, ReadKeeps,
     DispatchKeeps, BookKeeps, GuardKeeps DEF HandlerStep
<1>4. ASSUME NEW c \in Work, RemoteStep(c)
      PROVE  CallsIInv'
  <2>1. 200 \in Answers /\ 401 \in Answers
    BY DEF Answers
  <2> QED  BY <1>4, <2>1, TokenKeeps, RefreshKeeps, NetworkKeeps, AnswerKeeps, ChunkKeeps,
              CutKeeps, RelayEndKeeps DEF RemoteStep
<1> QED  BY <1>1, <1>2, <1>3, <1>4, FinishKeeps, CloseKeeps, ExpireKeeps, GovernKeeps,
            GenerationsKeep, AroundKeeps DEF CallsNext

(* A send is counted for one that saw its authority. *)
SentUnderAuthority == \A c \in Work : call'[c].sends > call[c].sends => call[c].sawAuthority

(* A request that goes on without sending. *)
LEMMA GoSilently ==
  ASSUME CallsIInv, NEW c \in Work, NEW cl, "sends" \in DOMAIN cl, cl.sends = call[c].sends,
         NEW place, Go(c, cl, place)
  PROVE  SentUnderAuthority
<1>1. call \in [Work -> Call] /\ call' = [call EXCEPT ![c] = [cl EXCEPT !.at = place]]
  BY DEF CallsIInv, Go
<1>2. [cl EXCEPT !.at = place].sends = call[c].sends
  OBVIOUS
<1>3. \A d \in Work : call'[d].sends = call[d].sends
  BY <1>1, <1>2
<1>4. \A d \in Work : call[d].sends \in 0..2
  BY <1>1 DEF Call
<1> QED  BY <1>3, <1>4 DEF SentUnderAuthority

LEMMA ReportSilently ==
  ASSUME CallsIInv, NEW c \in Work, NEW cl \in Call, cl.sends = call[c].sends, Report(c, cl)
  PROVE  SentUnderAuthority
<1>1. Forgotten(cl).sends = 0
  <2>1. Forgotten(cl).sends = Idle.sends
    BY IdleTyped DEF Forgotten, Call
  <2> QED  BY <2>1 DEF Idle
<1>2. call \in [Work -> Call] /\ (call'[c].sends = call[c].sends \/ call'[c].sends = 0)
      /\ \A d \in Work \ {c} : call'[d] = call[d]
  BY <1>1 DEF CallsIInv, Report
<1>3. \A d \in Work : call[d].sends \in 0..2
  BY <1>2 DEF Call
<1> QED  BY <1>2, <1>3 DEF SentUnderAuthority

LEMMA ConcludeSilently ==
  ASSUME CallsIInv, NEW c \in Work, NEW cl \in Call, cl.sends = call[c].sends, Conclude(c, cl)
  PROVE  SentUnderAuthority
<1> DEFINE done == [cl EXCEPT !.at = "done", !.handlerDone = TRUE]
<1>1. done \in Call /\ done.sends = cl.sends
  BY DoneTyped DEF Call
<1>2. Report(c, done)
  BY DEF Conclude
<1> HIDE DEF done
<1> QED  BY <1>1, <1>2, ReportSilently

LEMMA FailSilently ==
  ASSUME CallsIInv, NEW c \in Work, NEW error \in Outcomes, Fail(c, call[c], error)
  PROVE  SentUnderAuthority
<1> DEFINE cl == [call[c] EXCEPT !.outcome = Thrown(call[c], error), !.body = 0]
<1>1. Thrown(call[c], error) \in Outcomes
  BY DEF Thrown, Outcomes
<1>2. cl \in Call
  BY <1>1, Known, FailedTyped
<1>3. cl.sends = call[c].sends
  BY Known DEF Call
<1>4. Conclude(c, cl)
  BY DEF Fail
<1> HIDE DEF cl
<1> QED  BY <1>2, <1>3, <1>4, ConcludeSilently

(* Everything but the send itself: the steps of the gates, *)
LEMMA GatesSilent ==
  ASSUME CallsIInv, NEW c \in Work,
         \/ Verify(c) \/ Authorize(c) \/ Pin(c) \/ Admit(c) \/ EgressGate(c) \/ CheckEarly(c)
         \/ TakeRateBudget(c) \/ ConsumeGrant(c) \/ AskApproval(c) \/ ReadCredential(c)
         \/ CheckLate(c)
  PROVE  SentUnderAuthority
<1>1. call \in [Work -> Call] /\ call[c] \in Call /\ "sends" \in DOMAIN call[c]
  BY DEF CallsIInv, Call
<1>2. /\ {"aborted", "method", "unauthorized", "denied", "not_connected", "blocked", "changed",
          "provider_full"} \subseteq Outcomes
      /\ {"limited", "recorded", "approval_required"} \subseteq Outcomes
  BY DEF Outcomes
<1>3. CASE Verify(c) \/ Authorize(c) \/ EgressGate(c) \/ CheckEarly(c) \/ CheckLate(c)
  BY <1>1, <1>2, <1>3, GoSilently, FailSilently
  DEF Verify, Authorize, EgressGate, CheckEarly, CheckLate
<1>4. CASE Pin(c)
  <2>1. LET cl == [call[c] EXCEPT !.gen = live] IN
          "sends" \in DOMAIN cl /\ cl.sends = call[c].sends
    BY <1>1
  <2> QED  BY <1>2, <1>4, <2>1, GoSilently, FailSilently DEF Pin
<1>5. CASE Admit(c)
  <2>1. CASE call' = [call EXCEPT ![c].at = "gate"]
    <3>1. \A d \in Work : call'[d].sends = call[d].sends /\ call[d].sends \in 0..2
      BY <1>1, <2>1 DEF Call
    <3> QED  BY <3>1 DEF SentUnderAuthority
  <2> QED  BY <1>1, <1>2, <1>5, <2>1, GoSilently, FailSilently DEF Admit
<1>6. CASE TakeRateBudget(c)
  <2>1. LET cl == [call[c] EXCEPT !.charged = TRUE] IN
          "sends" \in DOMAIN cl /\ cl.sends = call[c].sends
    BY <1>1
  <2> QED  BY <1>2, <1>6, <2>1, GoSilently, FailSilently DEF TakeRateBudget
<1>7. CASE ConsumeGrant(c)
  <2>1. \A g : LET cl == [call[c] EXCEPT !.paid = g] IN
                 "sends" \in DOMAIN cl /\ cl.sends = call[c].sends
    BY <1>1
  <2> QED  BY <1>1, <1>2, <1>7, <2>1, GoSilently, FailSilently DEF ConsumeGrant
<1>8. CASE AskApproval(c)
  BY <1>2, <1>8, FailSilently DEF AskApproval
<1>9. CASE ReadCredential(c)
  <2>1. LET cl == [call[c] EXCEPT !.token = ExactRow(call[c])] IN
          "sends" \in DOMAIN cl /\ cl.sends = call[c].sends
    BY <1>1
  <2> QED  BY <1>2, <1>9, <2>1, GoSilently, FailSilently DEF ReadCredential
<1> QED  BY <1>3, <1>4, <1>5, <1>6, <1>7, <1>8, <1>9

(* those around the provider call, *)
LEMMA ProviderSilent ==
  ASSUME CallsIInv, NEW c \in Work,
         \/ ObtainToken(c) \/ NetworkFails(c) \/ RefreshAfter401(c)
         \/ \E status \in Answers : ProviderAnswers(c, status)
         \/ \E n \in Sizes : Book(c, n)
         \/ RelayChunk(c)
  PROVE  SentUnderAuthority
<1>1. call[c] \in Call /\ "sends" \in DOMAIN call[c] /\ "failed" \in Outcomes
  BY DEF CallsIInv, Call, Outcomes
<1>2. CASE ObtainToken(c) \/ RefreshAfter401(c)
  <2>1. LET cl == [call[c] EXCEPT !.sawAuthority = UseStillValid(call[c])] IN
          "sends" \in DOMAIN cl /\ cl.sends = call[c].sends
    BY <1>1
  <2> QED  BY <1>1, <1>2, <2>1, GoSilently, FailSilently DEF ObtainToken, RefreshAfter401
<1>3. CASE NetworkFails(c)
  BY <1>1, <1>3, FailSilently DEF NetworkFails
<1>4. ASSUME NEW status \in Answers, ProviderAnswers(c, status)
      PROVE  SentUnderAuthority
  <2>1. LET cl == [call[c] EXCEPT !.status = status] IN
          "sends" \in DOMAIN cl /\ cl.sends = call[c].sends
    BY <1>1
  <2> QED  BY <1>4, <2>1, GoSilently DEF ProviderAnswers
<1>5. ASSUME NEW n \in Sizes, Book(c, n)
      PROVE  SentUnderAuthority
  <2>1. LET cl == [call[c] EXCEPT !.body = n] IN
          "sends" \in DOMAIN cl /\ cl.sends = call[c].sends
    BY <1>1
  <2> QED  BY <1>5, <2>1, GoSilently DEF Book
<1>6. CASE RelayChunk(c)
  <2>1. LET cl == [call[c] EXCEPT !.relayed = @ + 1] IN
          "sends" \in DOMAIN cl /\ cl.sends = call[c].sends
    BY <1>1
  <2> QED  BY <1>6, <2>1, GoSilently DEF RelayChunk
<1> QED  BY <1>2, <1>3, <1>4, <1>5, <1>6

(* those at the end of a request, *)
LEMMA EndsSilent ==
  ASSUME CallsIInv, NEW c \in Work,
         GuardResponse(c) \/ RelayFails(c) \/ RelayEnds(c) \/ Finish(c) \/ Close(c)
  PROVE  SentUnderAuthority
<1>1. call[c] \in Call /\ "sends" \in DOMAIN call[c]
  BY DEF CallsIInv, Call
<1>2. {"blocked", "failed", "answered", "aborted"} \subseteq Outcomes
  BY DEF Outcomes
<1>3. CASE GuardResponse(c)
  <2>1. ASSUME Conclude(c, [call[c] EXCEPT !.relayed = call[c].body, !.outcome = "answered"])
        PROVE  SentUnderAuthority
    <3> DEFINE cl == [call[c] EXCEPT !.relayed = call[c].body, !.outcome = "answered"]
    <3>1. cl \in Call
      BY <1>1, <1>2 DEF Call
    <3>2. cl.sends = call[c].sends
      BY <1>1 DEF Call
    <3> HIDE DEF cl
    <3> QED  BY <2>1, <3>1, <3>2, ConcludeSilently DEF cl
  <2> QED  BY <1>1, <1>2, <1>3, <2>1, GoSilently, FailSilently DEF GuardResponse
<1>4. CASE RelayFails(c)
  <2> DEFINE response == IF call[c].response = "open" THEN Cut ELSE call[c].response
             signal == IF call[c].signal = "none" THEN "disconnect" ELSE call[c].signal
             cl == [call[c] EXCEPT !.response = IF @ = "open" THEN Cut ELSE @,
                                   !.signal = IF @ = "none" THEN "disconnect" ELSE @,
                                   !.outcome = "aborted"]
  <2>1. Conclude(c, cl)
    BY <1>4 DEF RelayFails
  <2>2. /\ response \in {"open", "finished", "closed"}
        /\ signal \in {"none", "disconnect", "deadline"}
    BY <1>1 DEF Call, Cut
  <2>3. cl = [call[c] EXCEPT !.response = response, !.signal = signal, !.outcome = "aborted"]
    BY <1>1 DEF Call
  <2> HIDE DEF response, signal, cl
  <2>4. cl \in Call
    BY <1>1, <1>2, <2>2, <2>3 DEF Call
  <2>5. cl.sends = call[c].sends
    BY <1>1, <2>3 DEF Call
  <2> QED  BY <2>1, <2>4, <2>5, ConcludeSilently
<1>5. CASE RelayEnds(c)
  <2> DEFINE cl == [call[c] EXCEPT !.outcome = "answered"]
  <2>1. cl \in Call /\ cl.sends = call[c].sends
    BY <1>1, <1>2 DEF Call
  <2>2. Conclude(c, cl)
    BY <1>5 DEF RelayEnds
  <2> HIDE DEF cl
  <2> QED  BY <2>1, <2>2, ConcludeSilently
<1>6. CASE Finish(c)
  <2> DEFINE cl == [call[c] EXCEPT !.response = "finished"]
  <2>1. cl \in Call /\ cl.sends = call[c].sends
    BY <1>1 DEF Call
  <2>2. Report(c, cl)
    BY <1>6 DEF Finish
  <2> HIDE DEF cl
  <2> QED  BY <2>1, <2>2, ReportSilently
<1>7. CASE Close(c)
  <2> DEFINE signal == IF call[c].signal = "none" THEN "disconnect" ELSE call[c].signal
             cl == [call[c] EXCEPT !.response = "closed",
                                   !.signal = IF @ = "none" THEN "disconnect" ELSE @]
  <2>1. Report(c, cl)
    BY <1>7 DEF Close
  <2>2. signal \in {"none", "disconnect", "deadline"}
    BY <1>1 DEF Call
  <2>3. cl = [call[c] EXCEPT !.response = "closed", !.signal = signal]
    BY <1>1 DEF Call
  <2> HIDE DEF signal, cl
  <2>4. cl \in Call /\ cl.sends = call[c].sends
    BY <1>1, <2>2, <2>3 DEF Call
  <2> QED  BY <2>1, <2>4, ReportSilently
<1> QED  BY <1>3, <1>4, <1>5, <1>6, <1>7

(* and those of the arrival, the deadline and the world around. *)
LEMMA AroundSilent ==
  ASSUME CallsIInv,
         \/ \E c \in Work : (\E r \in load.asks[c] : Arrive(c, r)) \/ Expire(c)
         \/ Govern \/ UNCHANGED call
  PROVE  SentUnderAuthority
<1>1. /\ call \in [Work -> Call]
      /\ \A d \in Work : call[d].sends \in 0..2 /\ "sends" \in DOMAIN call[d]
  BY DEF CallsIInv, Call
<1>2. ASSUME NEW c \in Work, NEW r \in load.asks[c], Arrive(c, r)
      PROVE  SentUnderAuthority
  <2> DEFINE cl == [Idle EXCEPT !.route = r.route, !.method = r.method]
  <2>1. cl.sends = 0 /\ "sends" \in DOMAIN cl
    BY DEF Idle
  <2>2. \A d \in Work \ {c} : call'[d] = call[d]
    BY <1>1, <1>2 DEF Arrive, Refuse
  <2>3. call'[c].sends = 0
    <3> HIDE DEF cl
    <3>1. /\ \A out : [cl EXCEPT !.at = "done", !.handlerDone = TRUE, !.outcome = out].sends = 0
          /\ [cl EXCEPT !.at = "verify"].sends = 0
      BY <2>1
    <3>2. \/ \E out : call'[c] = [cl EXCEPT !.at = "done", !.handlerDone = TRUE, !.outcome = out]
          \/ call'[c] = [cl EXCEPT !.at = "verify"]
      BY <1>1, <1>2 DEF Arrive, Refuse, cl
    <3> QED  BY <3>1, <3>2
  <2> QED  BY <1>1, <2>2, <2>3 DEF SentUnderAuthority
<1>3. ASSUME NEW c \in Work, Expire(c)
      PROVE  SentUnderAuthority
  <2>1. \A d \in Work : call'[d].sends = call[d].sends
    BY <1>1, <1>3 DEF Expire
  <2> QED  BY <1>1, <2>1 DEF SentUnderAuthority
<1>4. CASE Govern
  <2>1. \A d \in Work : call'[d].sends = call[d].sends
    BY <1>1, <1>4 DEF Govern, Witnessed
  <2> QED  BY <1>1, <2>1 DEF SentUnderAuthority
<1>5. CASE UNCHANGED call
  BY <1>1, <1>5 DEF SentUnderAuthority
<1> QED  BY <1>2, <1>3, <1>4, <1>5

(* The send is a step of its own, right after the check. *)
LEMMA SendSees ==
  ASSUME CallsIInv, NEW c \in Work, Dispatch(c)
  PROVE  SentUnderAuthority
<1>1. /\ call \in [Work -> Call]
      /\ \A d \in Work : call[d].sends \in 0..2 /\ "sends" \in DOMAIN call[d]
  BY DEF CallsIInv, Call
<1>2. "failed" \in Outcomes
  BY DEF Outcomes
<1>3. CASE Fail(c, call[c], "failed")
  BY <1>2, <1>3, FailSilently
<1>4. CASE Go(c, [call[c] EXCEPT !.sends = @ + 1], "wire")
  <2>1. call[c].sawAuthority
    BY Known DEF Dispatch, At, SeesAuthority
  <2>2. \A d \in Work \ {c} : call'[d] = call[d]
    BY <1>1, <1>4 DEF Go
  <2> QED  BY <1>1, <2>1, <2>2 DEF SentUnderAuthority
<1> QED  BY <1>3, <1>4 DEF Dispatch

LEMMA EveryStepSees ==
  ASSUME CallsIInv, [CallsNext]_callVars
  PROVE  SentUnderAuthority
<1>1. ASSUME NEW c \in Work, HandlerStep(c)
      PROVE  SentUnderAuthority
  BY <1>1, GatesSilent, SendSees, ProviderSilent, EndsSilent DEF HandlerStep
<1>2. ASSUME NEW c \in Work, RemoteStep(c)
      PROVE  SentUnderAuthority
  <2>1. 200 \in Answers /\ 401 \in Answers
    BY DEF Answers
  <2> QED  BY <1>2, <2>1, ProviderSilent, EndsSilent DEF RemoteStep
<1>3. CASE Reconnect \/ RemoveCredential \/ RefillBudget \/ UNCHANGED callVars
           \/ \E g \in Gens : Grant(g)
  <2>1. UNCHANGED call
    BY <1>3 DEF Reconnect, RemoveCredential, RefillBudget, callVars, Grant
  <2> QED  BY <2>1, AroundSilent
<1> QED  BY <1>1, <1>2, <1>3, EndsSilent, AroundSilent DEF CallsNext

----------------------------------------------------------------------------

THEOREM CallsInvariant == CallsSpec => []CallsIInv
<1>1. CallsInit => CallsIInv
  BY CallsStart
<1>2. CallsIInv /\ [CallsNext]_callVars => CallsIInv'
  BY CallsStep
<1> QED  BY <1>1, <1>2, PTL DEF CallsSpec

(* The envelope of one replica: requests, counters and leases are what the  *)
(* code takes them for, a lease is held exactly from the admission to the   *)
(* end of handler and response, a provider slot while the provider may be   *)
(* at work, and the counters never drift.                                   *)
THEOREM EnvelopeHolds == CallsSpec => []Envelope
<1>1. CallsIInv => Envelope
  <2> SUFFICES ASSUME CallsIInv
               PROVE  Envelope
    OBVIOUS
  <2>1. CallsTypeOK
    BY DEF CallsIInv, EnvironmentOK, CallsTypeOK
  <2>2. ASSUME NEW c \in Work
        PROVE  LET cl == call[c] IN
                 /\ lease[c] = "live" <=> /\ cl.at # "idle"
                                          /\ cl.outcome \notin {"locked_down", "overloaded"}
                                          /\ ~(cl.handlerDone /\ Settled(cl))
                 /\ (cl.at \in {"wire", "refresh", "guard", "relay"}
                       => slot[c][TheProvider] = "live")
                 /\ (cl.handlerDone => slot[c][TheProvider] # "live")
    <3>1. RunsToItsEnd(call[c]) /\ HoldsItsOwn(call[c], lease[c], slot[c][TheProvider])
      BY Known DEF CallOK
    <3> QED  BY <3>1 DEF RunsToItsEnd, HoldsItsOwn, Turned, Using
  <2>3. SlotsHeld
    BY <2>2 DEF SlotsHeld, CallsIInv
  <2> QED  BY <2>1, <2>3 DEF Envelope
<1> QED  BY <1>1, CallsInvariant, PTL

(* Neither ceiling is exceeded, with handlers, responses, aborts and        *)
(* deadlines in any order (InflightLimiter, as the request handler uses it). *)
THEOREM CeilingsHold == CallsSpec => []WithinCeilings
<1>1. CallsIInv => WithinCeilings
  BY DEF CallsIInv
<1> QED  BY <1>1, CallsInvariant, PTL

(* A write that is not idempotent is sent at most once                      *)
(* (ConnectionHandle.fetch).                                                *)
THEOREM WritesOnce == CallsSpec => []WriteOnce
<1>1. CallsIInv => WriteOnce
  <2> SUFFICES ASSUME CallsIInv, NEW c \in Work, call[c].method = "POST"
               PROVE  call[c].sends <= 1
    BY DEF WriteOnce
  <2>1. call[c].sends \in 0..2 /\ (call[c].sends = 2 => Replayable(call[c].method))
    BY Known DEF CallOK, SendsOf, Call
  <2>2. ~Replayable(call[c].method)
    BY DEF Replayable
  <2> QED  BY <2>1, <2>2
<1> QED  BY <1>1, CallsInvariant, PTL

(* What reached the provider is the generation that was resolved and paid   *)
(* for, and a refusal cost what it says (consumeAudited, the pinned         *)
(* credentialId, the order of the gates).                                   *)
THEOREM SendsAsAuthorised == CallsSpec => []Authorised
<1>1. CallsIInv => Authorised
  <2> SUFFICES ASSUME CallsIInv
               PROVE  SentAsApproved /\ RefusedUntouched
    BY DEF Authorised
  <2>1. \A c \in Work : InOrderOf(call[c]) /\ RefusedFor(call[c])
    BY Known DEF CallOK
  <2> QED  BY <2>1 DEF InOrderOf, RefusedFor, SentAsApproved, RefusedUntouched
<1> QED  BY <1>1, CallsInvariant, PTL

(* A response that ended cleanly is complete, and no relay passes the       *)
(* ceiling (readCapped, relayMcpResponse).                                  *)
THEOREM NothingIsCutSilently == CallsSpec => []NoSilentTruncation
<1>1. CallsIInv => NoSilentTruncation
  <2> SUFFICES ASSUME CallsIInv
               PROVE  NoSilentTruncation
    OBVIOUS
  <2>1. \A c \in Work : RelaysWhole(call[c])
    BY Known DEF CallOK
  <2> QED  BY <2>1 DEF RelaysWhole, NoSilentTruncation
<1> QED  BY <1>1, CallsInvariant, PTL

(* Every send and every replay follows a moment, after the token was in     *)
(* hand, in which governance and the very generation admitted it            *)
(* (useStillValid at the egress boundary).                                  *)
THEOREM SendsAreCurrent == CallsSpec => CurrentAtSend
<1>1. CallsIInv /\ [CallsNext]_callVars
        => [\A c \in Work : call'[c].sends > call[c].sends => call[c].sawAuthority]_callVars
  BY EveryStepSees DEF SentUnderAuthority
<1> QED  BY <1>1, CallsInvariant, PTL DEF CallsSpec, CurrentAtSend
=============================================================================
