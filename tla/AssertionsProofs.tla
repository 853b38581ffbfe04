-------------------------- MODULE AssertionsProofs --------------------------
(***************************************************************************)
(* What the two constants IDENTITY_SKEW_MS and the retention grace of      *)
(* three skews are enough for, for any number of replicas and requests.    *)
(* Both theorems bound the clock error of a machine: single use needs the  *)
(* error and the lag between verification and INSERT to fit into two       *)
(* skews together, and the mapped issuance fails closed when two machines  *)
(* differ by one skew at most.                                             *)
(***************************************************************************)
EXTENDS Assertions, TLAPS

(* Ids are random: one assertion per id. *)
UniqueJtis == \A j, k \in tokens : j.jti = k.jti => j = k

(* An assertion is stamped with the minter's clock. *)
Stamped == \A k \in tokens : k.minted <= t /\ k.minted - Offset <= k.iat

(* A request in flight was verified in time and is not late. *)
InTime ==
  \A c \in InFlight :
    /\ calls[c].at <= t
    /\ t <= calls[c].at + MaxLag
    /\ calls[c].at < calls[c].tok.exp + Skew + Offset

CutoffsPast ==
  \A c \in Calls : calls[c].pc = "prune" => calls[c].cutoff <= t + Offset - 3 * Skew

(* A spent id is in the table until no request can still bring it. *)
Retained ==
  \A c \in Spent :
    \/ [jti |-> calls[c].tok.jti, exp |-> calls[c].tok.exp] \in brokerJti
    \/ calls[c].tok.exp + 3 * Skew <= t + Offset

ReplayInv ==
  /\ TypeOK
  /\ UniqueJtis
  /\ Stamped
  /\ InTime
  /\ CutoffsPast
  /\ Retained
  /\ AcceptedOnce

(* What one step of the system can do to a request: a name for every action *)
(* of Next.                                                                 *)
LEMMA NextCases ==
  ASSUME Next
  PROVE  \/ Tick
         \/ \E m \in Minters, j \in Jtis, ttl \in 0..(MaxLifetime + 1) : Mint(m, j, ttl)
         \/ \E c \in Calls, k \in tokens, r \in Replicas : Verify(c, k, r)
         \/ \E c \in Calls : Use(c)
         \/ \E c \in Calls : Prune(c)
         \/ \E c \in Calls : Insert(c)
         \/ \E c \in Calls : ReadDatabaseClock(c)
         \/ \E c \in Calls : MapIssuance(c)
         \/ \E r \in Replicas : Restart(r)
  BY DEF Next

(* A machine's clock is an integer within Offset of the reference. *)
LEMMA ClockBounds ==
  ASSUME TypeOK, NEW m \in Machines
  PROVE  Clock(m) \in Int /\ Clock(m) <= t + Offset /\ t - Offset <= Clock(m)
  BY AssertionsAssumption DEF TypeOK, Clock

(* The parts of the type invariant that a request carries. *)
LEMMA CallTypes ==
  ASSUME TypeOK, NEW c \in Calls
  PROVE  /\ calls[c].pc \in {"verified", "prune", "insert"} => calls[c] \in Request
         /\ calls[c].pc \in {"spent", "read", "issued"} => calls[c] \in Served
  BY DEF TypeOK, Request, Served, Idle, Refused

(* Field updates of a request keep its type and its other fields. *)
LEMMA PhaseUpdate ==
  ASSUME NEW q \in Request, NEW pc \in {"prune", "insert"}
  PROVE  /\ [q EXCEPT !.pc = pc] \in Request
         /\ [q EXCEPT !.pc = pc].tok = q.tok
         /\ [q EXCEPT !.pc = pc].at = q.at
         /\ [q EXCEPT !.pc = pc].pc = pc
  BY DEF Request

LEMMA CutoffUpdate ==
  ASSUME NEW q \in Request, NEW pc \in {"prune", "insert"}, NEW x \in Int
  PROVE  /\ [q EXCEPT !.pc = pc, !.cutoff = x] \in Request
         /\ [q EXCEPT !.pc = pc, !.cutoff = x].tok = q.tok
         /\ [q EXCEPT !.pc = pc, !.cutoff = x].at = q.at
         /\ [q EXCEPT !.pc = pc, !.cutoff = x].pc = pc
         /\ [q EXCEPT !.pc = pc, !.cutoff = x].cutoff = x
  BY DEF Request

LEMMA ReadUpdate ==
  ASSUME NEW q \in Served, NEW x \in Int
  PROVE  /\ [q EXCEPT !.pc = "read", !.pg = x] \in Served
         /\ [q EXCEPT !.pc = "read", !.pg = x].tok = q.tok
         /\ [q EXCEPT !.pc = "read", !.pg = x].pc = "read"
         /\ [q EXCEPT !.pc = "read", !.pg = x].pg = x
  BY DEF Served

LEMMA IssuedUpdate ==
  ASSUME NEW q \in Served, NEW x \in Int
  PROVE  /\ [q EXCEPT !.pc = "issued", !.issued = x] \in Served
         /\ [q EXCEPT !.pc = "issued", !.issued = x].tok = q.tok
         /\ [q EXCEPT !.pc = "issued", !.issued = x].pc = "issued"
         /\ [q EXCEPT !.pc = "issued", !.issued = x].issued = x
  BY DEF Served

(* What Use leaves of a request in flight. *)
LEMMA UsePost ==
  ASSUME TypeOK, NEW c \in Calls, Use(c)
  PROVE  \E new \in Request \cup {Refused} :
           /\ calls' = [calls EXCEPT ![c] = new]
           /\ new # Refused => /\ new.pc \in {"prune", "insert"}
                               /\ new.tok = calls[c].tok
                               /\ new.at = calls[c].at
                               /\ new.pc = "prune" => new.cutoff <= t + Offset - 3 * Skew
<1> USE AssertionsAssumption
<1> DEFINE now == Clock(calls[c].replica)
           pruning == [calls[c] EXCEPT !.pc = "prune", !.cutoff = now - ReplayRetentionGrace]
           inserting == [calls[c] EXCEPT !.pc = "insert"]
<1>1. calls[c] \in Request
  BY CallTypes DEF Use
<1>2. now \in Int /\ now <= t + Offset
  BY <1>1, ClockBounds DEF Request, Machines
<1>3. now - ReplayRetentionGrace \in Int /\ "prune" \in {"prune", "insert"} /\ "insert" \in {"prune", "insert"}
  <2> HIDE DEF now
  <2> QED BY <1>2 DEF ReplayRetentionGrace
<1>4. /\ pruning \in Request /\ pruning.tok = calls[c].tok /\ pruning.at = calls[c].at
      /\ pruning.pc = "prune" /\ pruning.cutoff = now - ReplayRetentionGrace
  <2> DEFINE cutoff == now - ReplayRetentionGrace
  <2> HIDE DEF cutoff
  <2>1. cutoff \in Int
    BY <1>3 DEF cutoff
  <2>2. pruning = [calls[c] EXCEPT !.pc = "prune", !.cutoff = cutoff]
    BY Zenon DEF cutoff
  <2>3. cutoff = now - ReplayRetentionGrace
    BY DEF cutoff
  <2> DEFINE q == calls[c]
  <2>4. /\ [q EXCEPT !.pc = "prune", !.cutoff = cutoff] \in Request
        /\ [q EXCEPT !.pc = "prune", !.cutoff = cutoff].tok = q.tok
        /\ [q EXCEPT !.pc = "prune", !.cutoff = cutoff].at = q.at
        /\ [q EXCEPT !.pc = "prune", !.cutoff = cutoff].pc = "prune"
        /\ [q EXCEPT !.pc = "prune", !.cutoff = cutoff].cutoff = cutoff
    <3> HIDE DEF q
    <3> QED BY <1>1, <1>3, <2>1, CutoffUpdate, Zenon DEF q
  <2> HIDE DEF pruning, now
  <2> QED BY <2>2, <2>3, <2>4, Zenon
<1>10. /\ inserting \in Request /\ inserting.tok = calls[c].tok /\ inserting.at = calls[c].at
       /\ inserting.pc = "insert"
  BY <1>1, <1>3, PhaseUpdate, Zenon
<1>5. calls' \in {[calls EXCEPT ![c] = Refused], [calls EXCEPT ![c] = pruning],
                  [calls EXCEPT ![c] = inserting]}
  BY Zenon DEF Use
<1>6. now - ReplayRetentionGrace <= t + Offset - 3 * Skew
  <2> HIDE DEF now
  <2> QED BY <1>2 DEF ReplayRetentionGrace, TypeOK
<1> HIDE DEF pruning, inserting, now
<1>7. CASE calls' = [calls EXCEPT ![c] = Refused]
  BY <1>7, Zenon
<1>8. CASE calls' = [calls EXCEPT ![c] = pruning]
  BY <1>4, <1>6, <1>8
<1>9. CASE calls' = [calls EXCEPT ![c] = inserting]
  BY <1>9, <1>10
<1> QED
  BY <1>5, <1>7, <1>8, <1>9

(* What Prune leaves of it. *)
LEMMA PrunePost ==
  ASSUME TypeOK, NEW c \in Calls, Prune(c)
  PROVE  \E new \in Request :
           /\ calls' = [calls EXCEPT ![c] = new]
           /\ new.pc = "insert" /\ new.tok = calls[c].tok /\ new.at = calls[c].at
<1> DEFINE new == [calls[c] EXCEPT !.pc = "insert", !.cutoff = 0]
<1>1. calls[c] \in Request /\ 0 \in Int /\ "insert" \in {"prune", "insert"}
  BY CallTypes DEF Prune
<1>2. new \in Request /\ new.pc = "insert" /\ new.tok = calls[c].tok /\ new.at = calls[c].at
  BY <1>1, CutoffUpdate, Zenon
<1>3. calls' = [calls EXCEPT ![c] = new]
  BY Zenon DEF Prune
<1> HIDE DEF new
<1> QED
  BY <1>2, <1>3

(* What the two halves of userInteractionIssuedAt leave of a served request. *)
LEMMA ReadPost ==
  ASSUME TypeOK, NEW c \in Calls, ReadDatabaseClock(c)
  PROVE  \E new \in Served :
           /\ calls' = [calls EXCEPT ![c] = new]
           /\ new.pc = "read" /\ new.tok = calls[c].tok /\ new.pg = t
<1> DEFINE new == [calls[c] EXCEPT !.pc = "read", !.pg = t]
<1>1. calls[c] \in Served /\ t \in Int
  BY CallTypes DEF ReadDatabaseClock, TypeOK
<1>2. new \in Served /\ new.pc = "read" /\ new.tok = calls[c].tok /\ new.pg = t
  BY <1>1, ReadUpdate, Zenon
<1>3. calls' = [calls EXCEPT ![c] = new]
  BY Zenon DEF ReadDatabaseClock
<1> HIDE DEF new
<1> QED
  BY <1>2, <1>3

LEMMA MapPost ==
  ASSUME TypeOK, NEW c \in Calls, MapIssuance(c)
  PROVE  \E new \in Served :
           /\ calls' = [calls EXCEPT ![c] = new]
           /\ new.pc = "issued" /\ new.tok = calls[c].tok
           /\ new.issued = calls[c].pg - TokenAge(calls[c].tok, Clock(calls[c].replica))
<1> USE AssertionsAssumption
<1> DEFINE age == TokenAge(calls[c].tok, Clock(calls[c].replica))
           new == [calls[c] EXCEPT !.pc = "issued", !.issued = calls[c].pg - age]
<1>1. calls[c] \in Served
  BY CallTypes DEF MapIssuance
<1>2. Clock(calls[c].replica) \in Int /\ calls[c].tok \in Token
  BY <1>1, ClockBounds DEF Machines, Served, TypeOK
<1>3. age \in Int
  BY <1>2 DEF TokenAge, Token
<1>4. calls' = [calls EXCEPT ![c] = new]
  BY Zenon DEF MapIssuance
<1>5. /\ new \in Served /\ new.pc = "issued" /\ new.tok = calls[c].tok
      /\ new.issued = calls[c].pg - age
  <2>1. calls[c].pg - age \in Int
    BY <1>1, <1>3 DEF Served
  <2> HIDE DEF age
  <2> QED BY <1>1, <2>1, IssuedUpdate, Zenon
<1> HIDE DEF new
<1> QED
  BY <1>4, <1>5

(* Every step keeps the types of the state. *)
LEMMA TypeStep ==
  ASSUME TypeOK, [Next]_vars
  PROVE  TypeOK'
<1> USE AssertionsAssumption
<1>1. CASE UNCHANGED vars
  BY <1>1 DEF TypeOK, vars, Request, Served, Machines
<1>2. CASE Tick
  BY <1>2 DEF TypeOK, Tick, Request, Served, Machines
<1>3. ASSUME NEW m \in Minters, NEW j \in Jtis, NEW ttl \in 0..(MaxLifetime + 1), Mint(m, j, ttl)
      PROVE  TypeOK'
  <2>1. Clock(m) \in Int
    BY ClockBounds DEF Machines
  <2>2. Lifetime(ttl) \in 1..MaxLifetime
    BY DEF Lifetime
  <2>3. tokens' \subseteq Token /\ \A k \in tokens' : k.exp - k.iat \in 1..MaxLifetime
    BY <1>3, <2>1, <2>2 DEF TypeOK, Mint, Token
  <2>4. tokens \subseteq tokens'
    BY <1>3 DEF Mint
  <2>5. calls' \in [Calls -> (Request \cup Served)' \cup {Idle, Refused}]
    BY <1>3, <2>4 DEF TypeOK, Mint, Request, Served
  <2> QED
    BY <1>3, <2>3, <2>5 DEF TypeOK, Mint, Machines, Idle, Refused
<1>4. ASSUME NEW c \in Calls, NEW k \in tokens, NEW r \in Replicas, Verify(c, k, r)
      PROVE  TypeOK'
  BY <1>4 DEF TypeOK, Verify, Request, Served, Machines
<1>5. ASSUME NEW c \in Calls, Use(c)
      PROVE  TypeOK'
  <2>1. calls[c].replica \in Replicas
    BY <1>5, CallTypes DEF Use, Request
  <2>2. lastPrune' \in [Replicas -> Int]
    BY <1>5, <2>1, ClockBounds DEF Use, TypeOK, Machines
  <2>3. calls' \in [Calls -> Request \cup Served \cup {Idle, Refused}]
    BY <1>5, UsePost DEF TypeOK
  <2> QED
    BY <1>5, <2>2, <2>3 DEF TypeOK, Use, Request, Served, Machines
<1>6. ASSUME NEW c \in Calls, Prune(c)
      PROVE  TypeOK'
  <2>1. calls' \in [Calls -> Request \cup Served \cup {Idle, Refused}]
    BY <1>6, PrunePost DEF TypeOK
  <2> QED
    BY <1>6, <2>1 DEF TypeOK, Prune, Request, Served, Machines
<1>7. ASSUME NEW c \in Calls, Insert(c)
      PROVE  TypeOK'
  <2>1. calls[c] \in Request
    BY <1>7, CallTypes DEF Insert
  <2>2. calls' \in [Calls -> Request \cup Served \cup {Idle, Refused}]
    BY <1>7, <2>1 DEF Insert, TypeOK, Request, Served
  <2>3. brokerJti' \subseteq [jti : Jtis, exp : Int]
    BY <1>7, <2>1 DEF Insert, TypeOK, Request, Token
  <2> QED
    BY <1>7, <2>2, <2>3 DEF TypeOK, Insert, Request, Served, Machines
<1>8. ASSUME NEW c \in Calls, ReadDatabaseClock(c)
      PROVE  TypeOK'
  <2>1. calls' \in [Calls -> Request \cup Served \cup {Idle, Refused}]
    BY <1>8, ReadPost DEF TypeOK
  <2> QED
    BY <1>8, <2>1 DEF TypeOK, ReadDatabaseClock, Request, Served, Machines
<1>9. ASSUME NEW c \in Calls, MapIssuance(c)
      PROVE  TypeOK'
  <2>1. calls' \in [Calls -> Request \cup Served \cup {Idle, Refused}]
    BY <1>9, MapPost DEF TypeOK
  <2> QED
    BY <1>9, <2>1 DEF TypeOK, MapIssuance, Request, Served, Machines
<1>10. ASSUME NEW r \in Replicas, Restart(r)
       PROVE  TypeOK'
  BY <1>10 DEF TypeOK, Restart, Request, Served, Machines
<1> QED
  BY NextCases, <1>1, <1>2, <1>3, <1>4, <1>5, <1>6, <1>7, <1>8, <1>9, <1>10

THEOREM AssertionsTypeCorrect == Spec => []TypeOK
<1>1. Init => TypeOK
  BY AssertionsAssumption DEF Init, TypeOK, Machines, Idle
<1> QED
  BY <1>1, TypeStep, PTL DEF Spec

----------------------------------------------------------------------------
(* One request moves on with the assertion it carries: the invariant needs  *)
(* looking at again only for that request.                                  *)
LEMMA RequestMoves ==
  ASSUME ReplayInv, TypeOK', NEW c \in Calls, NEW new \in Request \cup Served \cup {Refused},
         c \in InFlight \/ c \in Spent,
         UNCHANGED <<t, offset, tokens>>,
         calls' = [calls EXCEPT ![c] = new],
         brokerJti' = brokerJti \/ \A row \in brokerJti \ brokerJti' :
                                     row.exp + 3 * Skew <= t + Offset,
         new \in Request => /\ c \in InFlight /\ new.tok = calls[c].tok /\ new.at = calls[c].at
                            /\ new.pc = "prune" => new.cutoff <= t + Offset - 3 * Skew,
         new \in Served => c \in Spent /\ new.tok = calls[c].tok
  PROVE  ReplayInv'
<1> USE AssertionsAssumption
<1>1. \A d \in Calls : calls'[d] = IF d = c THEN new ELSE calls[d]
  BY DEF ReplayInv, TypeOK
<1>2. UniqueJtis' /\ Stamped'
  BY DEF ReplayInv, UniqueJtis, Stamped
<1>3. InTime'
  <2>1. c \in InFlight' => new \in Request
    BY <1>1 DEF InFlight, Served, Refused
  <2> QED BY <1>1, <2>1 DEF ReplayInv, InTime, InFlight
<1>4. CutoffsPast'
  <2>1. new.pc = "prune" => new \in Request
    BY DEF Served, Refused
  <2> QED BY <1>1, <2>1 DEF ReplayInv, CutoffsPast
<1>5. c \in Spent' => c \in Spent /\ new.tok = calls[c].tok
  BY <1>1 DEF Spent, Request, Refused
<1>6. Retained' /\ AcceptedOnce'
  <2>1. \A d \in Spent' : d \in Spent /\ calls'[d].tok = calls[d].tok
    BY <1>1, <1>5 DEF Spent
  <2>2. AcceptedOnce'
    BY <2>1 DEF ReplayInv, AcceptedOnce
  <2>3. ASSUME NEW d \in Spent'
        PROVE  \/ [jti |-> calls'[d].tok.jti, exp |-> calls'[d].tok.exp] \in brokerJti'
               \/ calls'[d].tok.exp + 3 * Skew <= t + Offset
    <3> DEFINE row == [jti |-> calls[d].tok.jti, exp |-> calls[d].tok.exp]
    <3>1. row \in brokerJti \/ calls[d].tok.exp + 3 * Skew <= t + Offset
      BY <2>1 DEF ReplayInv, Retained
    <3>2. row \in brokerJti => row \in brokerJti' \/ row.exp + 3 * Skew <= t + Offset
      OBVIOUS
    <3> QED BY <2>1, <3>1, <3>2
  <2> QED BY <2>2, <2>3 DEF Retained
<1> QED
  BY <1>2, <1>3, <1>4, <1>6 DEF ReplayInv

(* The invariant behind single use is inductive when the clock error and    *)
(* the lag fit into the slack of the retention grace.                       *)
LEMMA ReplayStep ==
  ASSUME 2 * Offset + MaxLag <= 2 * Skew, ReplayInv, [Next]_vars
  PROVE  ReplayInv'
<1> USE AssertionsAssumption
<1>0. TypeOK /\ TypeOK'
  BY TypeStep DEF ReplayInv
<1>1. CASE UNCHANGED vars
  BY <1>0, <1>1 DEF vars, ReplayInv, UniqueJtis, Stamped, InTime, InFlight, CutoffsPast, Retained,
       Spent, AcceptedOnce
<1>2. CASE Tick
  <2>1. t' = t + 1 /\ t \in Nat
    BY <1>0, <1>2 DEF Tick, TypeOK
  <2>2. Stamped'
    BY <1>0, <1>2, <2>1 DEF Tick, ReplayInv, Stamped, TypeOK, Token
  <2>3. InTime'
    <3>1. \A c \in InFlight : calls[c].at \in Nat
      BY <1>0, CallTypes DEF InFlight, Request
    <3> QED BY <1>2, <2>1, <3>1 DEF Tick, ReplayInv, InTime, InFlight
  <2>4. CutoffsPast'
    <3>1. \A c \in Calls : calls[c].pc = "prune" => calls[c].cutoff \in Int
      BY <1>0, CallTypes DEF Request
    <3> QED BY <1>2, <2>1, <3>1 DEF Tick, ReplayInv, CutoffsPast
  <2>5. Retained'
    <3>1. \A c \in Spent : calls[c].tok.exp \in Int
      BY <1>0, CallTypes DEF Spent, Served, TypeOK, Token
    <3> QED BY <1>2, <2>1, <3>1 DEF Tick, ReplayInv, Retained, Spent
  <2> QED BY <1>0, <1>2, <2>2, <2>3, <2>4, <2>5 DEF Tick, ReplayInv, UniqueJtis, AcceptedOnce, Spent
<1>3. ASSUME NEW m \in Minters, NEW j \in Jtis, NEW ttl \in 0..(MaxLifetime + 1), Mint(m, j, ttl)
      PROVE  ReplayInv'
  <2>1. UniqueJtis'
    BY <1>3 DEF Mint, ReplayInv, UniqueJtis
  <2>2. Stamped'
    <3>1. Clock(m) \in Int /\ t - Offset <= Clock(m)
      BY <1>0, ClockBounds DEF Machines
    <3> QED BY <1>0, <1>3, <3>1 DEF Mint, ReplayInv, Stamped, TypeOK
  <2> QED BY <1>0, <1>3, <2>1, <2>2 DEF Mint, ReplayInv, InTime, InFlight, CutoffsPast, Retained,
                 Spent, AcceptedOnce
<1>4. ASSUME NEW c \in Calls, NEW k \in tokens, NEW r \in Replicas, Verify(c, k, r)
      PROVE  ReplayInv'
  <2> DEFINE new == [pc |-> "verified", tok |-> k, replica |-> r, at |-> t, cutoff |-> 0]
  <2>1. \A d \in Calls : calls'[d] = IF d = c THEN new ELSE calls[d]
    BY <1>0, <1>4 DEF Verify, TypeOK
  <2>2. t < k.exp + Skew + Offset
    <3>1. Clock(r) \in Int /\ t - Offset <= Clock(r) /\ k.exp \in Int /\ t \in Nat
      BY <1>0, ClockBounds DEF Machines, TypeOK, Token
    <3>2. k.exp > Clock(r) - Skew
      BY <1>4 DEF Verify, Acceptable
    <3> QED BY <3>1, <3>2
  <2>3. InTime'
    <3>1. t' = t /\ new.at = t /\ new.tok = k /\ t \in Nat
      BY <1>0, <1>4 DEF Verify, TypeOK
    <3>2. ASSUME NEW d \in InFlight'
          PROVE  d = c \/ (d \in InFlight /\ calls'[d] = calls[d])
      BY <2>1, <3>2 DEF InFlight
    <3> HIDE DEF new
    <3>3. ASSUME NEW d \in InFlight'
          PROVE  /\ calls'[d].at <= t'
                 /\ t' <= calls'[d].at + MaxLag
                 /\ calls'[d].at < calls'[d].tok.exp + Skew + Offset
      BY <2>1, <2>2, <3>1, <3>2, <3>3 DEF ReplayInv, InTime
    <3> QED BY <3>3 DEF InTime
  <2>4. CutoffsPast' /\ Retained' /\ AcceptedOnce'
    <3>0. c \notin Spent /\ new.pc \notin {"spent", "read", "issued"}
      BY <1>4 DEF Verify, Spent, Idle
    <3>1. Spent' = Spent /\ \A d \in Spent : calls'[d] = calls[d]
      <4> HIDE DEF new
      <4> QED BY <2>1, <3>0 DEF Spent
    <3>2. \A d \in Calls : calls'[d].pc = "prune" => calls'[d] = calls[d]
      BY <2>1
    <3> QED BY <1>4, <3>1, <3>2 DEF Verify, ReplayInv, CutoffsPast, Retained, AcceptedOnce
  <2> QED BY <1>0, <1>4, <2>3, <2>4 DEF Verify, ReplayInv, UniqueJtis, Stamped
<1>5. ASSUME NEW c \in Calls, Use(c)
      PROVE  ReplayInv'
  <2>1. PICK new \in Request \cup {Refused} :
           /\ calls' = [calls EXCEPT ![c] = new]
           /\ new # Refused => /\ new.pc \in {"prune", "insert"}
                               /\ new.tok = calls[c].tok
                               /\ new.at = calls[c].at
                               /\ new.pc = "prune" => new.cutoff <= t + Offset - 3 * Skew
    BY <1>0, <1>5, UsePost
  <2>2. new \notin Served /\ (new \in Request => new # Refused) /\ c \in InFlight
    BY <1>5, <2>1 DEF Served, Request, Refused, Use, InFlight
  <2> QED BY <1>0, <1>5, <2>1, <2>2, RequestMoves DEF Use
<1>6. ASSUME NEW c \in Calls, Prune(c)
      PROVE  ReplayInv'
  <2>1. PICK new \in Request :
           /\ calls' = [calls EXCEPT ![c] = new]
           /\ new.pc = "insert" /\ new.tok = calls[c].tok /\ new.at = calls[c].at
    BY <1>0, <1>6, PrunePost
  <2>2. new \notin Served /\ c \in InFlight
    BY <1>6, <2>1 DEF Served, Prune, InFlight
  <2>3. \A row \in brokerJti \ brokerJti' : row.exp + 3 * Skew <= t + Offset
    <3>1. calls[c].cutoff <= t + Offset - 3 * Skew /\ calls[c].cutoff \in Int
      BY <1>0, <1>6, CallTypes DEF ReplayInv, CutoffsPast, Prune, Request
    <3>2. \A row \in brokerJti : row.exp \in Int
      BY <1>0 DEF TypeOK
    <3> QED BY <1>0, <1>6, <3>1, <3>2 DEF Prune, TypeOK
  <2> QED BY <1>0, <1>6, <2>1, <2>2, <2>3, RequestMoves DEF Prune
<1>7. ASSUME NEW c \in Calls, Insert(c)
      PROVE  ReplayInv'
  <2> DEFINE k == calls[c].tok
             served == [pc |-> "spent", tok |-> k, replica |-> calls[c].replica, pg |-> 0, issued |-> 0]
  <2>1. c \in InFlight /\ calls[c] \in Request
    BY <1>0, <1>7, CallTypes DEF Insert, InFlight
  <2>2. CASE calls' = [calls EXCEPT ![c] = Refused] /\ UNCHANGED brokerJti
    <3>1. Refused \notin Request /\ Refused \notin Served
      BY DEF Refused, Request, Served
    <3> QED BY <1>0, <1>7, <2>1, <2>2, <3>1, RequestMoves DEF Insert
  <2>3. CASE /\ \A row \in brokerJti : row.jti # k.jti
             /\ brokerJti' = brokerJti \cup {[jti |-> k.jti, exp |-> k.exp]}
             /\ calls' = [calls EXCEPT ![c] = served]
    <3>1. \A d \in Calls : calls'[d] = IF d = c THEN served ELSE calls[d]
      BY <1>0, <2>3 DEF TypeOK
    <3>2. Spent' = Spent \cup {c} /\ c \notin Spent
      BY <1>7, <3>1 DEF Spent, Insert
    <3>3. ASSUME NEW d \in Spent, calls[d].tok.jti = k.jti
          PROVE  FALSE
      <4>1. calls[d].tok \in tokens /\ k \in tokens /\ k.exp \in Int
        BY <1>0, <2>1, CallTypes DEF Spent, Served, Request, TypeOK, Token
      <4>2. calls[d].tok = k
        BY <3>3, <4>1 DEF ReplayInv, UniqueJtis
      <4>3. k.exp + 3 * Skew <= t + Offset
        BY <2>3, <4>2 DEF ReplayInv, Retained
      <4>4. t <= calls[c].at + MaxLag /\ calls[c].at < k.exp + Skew + Offset /\ calls[c].at \in Nat
        BY <2>1 DEF ReplayInv, InTime, Request
      <4> QED BY <1>0, <4>1, <4>3, <4>4 DEF TypeOK
    <3>4. AcceptedOnce'
      BY <3>1, <3>2, <3>3 DEF ReplayInv, AcceptedOnce, Spent
    <3>5. Retained'
      BY <1>7, <2>3, <3>1, <3>2 DEF Insert, ReplayInv, Retained
    <3>6. InTime' /\ CutoffsPast'
      BY <1>7, <3>1 DEF Insert, ReplayInv, InTime, InFlight, CutoffsPast
    <3> QED BY <1>0, <1>7, <3>4, <3>5, <3>6 DEF Insert, ReplayInv, UniqueJtis, Stamped
  <2> QED BY <1>7, <2>2, <2>3, Zenon DEF Insert
<1>8. ASSUME NEW c \in Calls, ReadDatabaseClock(c)
      PROVE  ReplayInv'
  <2>1. PICK new \in Served :
           /\ calls' = [calls EXCEPT ![c] = new]
           /\ new.pc = "read" /\ new.tok = calls[c].tok /\ new.pg = t
    BY <1>0, <1>8, ReadPost
  <2>2. new \notin Request /\ c \in Spent
    BY <1>8, <2>1 DEF Request, ReadDatabaseClock, Spent
  <2> QED BY <1>0, <1>8, <2>1, <2>2, RequestMoves DEF ReadDatabaseClock
<1>9. ASSUME NEW c \in Calls, MapIssuance(c)
      PROVE  ReplayInv'
  <2>1. PICK new \in Served :
           /\ calls' = [calls EXCEPT ![c] = new]
           /\ new.pc = "issued" /\ new.tok = calls[c].tok
    BY <1>0, <1>9, MapPost
  <2>2. new \notin Request /\ c \in Spent
    BY <1>9, <2>1 DEF Request, MapIssuance, Spent
  <2> QED BY <1>0, <1>9, <2>1, <2>2, RequestMoves DEF MapIssuance
<1>10. ASSUME NEW r \in Replicas, Restart(r)
       PROVE  ReplayInv'
  <2>1. \A c \in Calls : calls'[c] = calls[c] \/ calls'[c].pc = "refused"
    BY <1>10 DEF Restart, Refused
  <2>2. InFlight' \subseteq InFlight /\ \A c \in InFlight' : calls'[c] = calls[c]
    BY <2>1 DEF InFlight
  <2>3. Spent' \subseteq Spent /\ \A c \in Spent' : calls'[c] = calls[c]
    BY <2>1 DEF Spent
  <2>4. InTime'
    BY <1>10, <2>2 DEF Restart, ReplayInv, InTime
  <2>5. t' = t /\ brokerJti' = brokerJti
    BY <1>10 DEF Restart
  <2>7. Retained'
    BY <2>3, <2>5 DEF ReplayInv, Retained
  <2>8. AcceptedOnce'
    BY <2>3 DEF ReplayInv, AcceptedOnce
  <2>6. CutoffsPast'
    <3> SUFFICES ASSUME NEW c \in Calls, calls'[c].pc = "prune"
                 PROVE  calls'[c].cutoff <= t' + Offset - 3 * Skew
      BY DEF CutoffsPast
    <3>1. calls'[c] = calls[c]
      BY <2>1
    <3>2. t' = t
      BY <1>10 DEF Restart
    <3> QED BY <3>1, <3>2 DEF ReplayInv, CutoffsPast
  <2> QED BY <1>0, <1>10, <2>4, <2>6, <2>7, <2>8 DEF Restart, ReplayInv, UniqueJtis, Stamped
<1> QED
  BY NextCases, <1>1, <1>2, <1>3, <1>4, <1>5, <1>6, <1>7, <1>8, <1>9, <1>10

(* One assertion admits one request in the whole fleet, for any number of   *)
(* replicas, provided that twice the clock error of a machine and the lag   *)
(* of a request together do not exceed two skews (DbReplayStore).           *)
THEOREM SpentOnce ==
  ASSUME 2 * Offset + MaxLag <= 2 * Skew
  PROVE  Spec => []AcceptedOnce
<1>1. Init => ReplayInv
  <2> SUFFICES ASSUME Init PROVE ReplayInv
    OBVIOUS
  <2>1. TypeOK
    BY AssertionsAssumption DEF Init, TypeOK, Machines, Idle
  <2> QED BY <2>1 DEF Init, ReplayInv, UniqueJtis, Stamped, InTime, InFlight, CutoffsPast, Retained,
                 Spent, AcceptedOnce, Idle
<1>2. ReplayInv /\ [Next]_vars => ReplayInv'
  BY ReplayStep
<1>3. ReplayInv => AcceptedOnce
  BY DEF ReplayInv
<1> QED
  BY <1>1, <1>2, <1>3, PTL DEF Spec

----------------------------------------------------------------------------
(* Why the mapped issuance fails closed: no assertion is stamped further    *)
(* ahead than a machine's clock is, and the database clock that was read    *)
(* lies in the past.                                                        *)
NotAhead == \A k \in tokens : k.iat <= k.minted + Offset

ReadPast == \A c \in Calls : calls[c].pc = "read" => calls[c].pg <= t

IssuanceInv ==
  /\ TypeOK
  /\ NotAhead
  /\ ReadPast
  /\ IssuanceFailsClosed

(* A step that answers no database read leaves the invariant alone. *)
LEMMA NoMapping ==
  ASSUME IssuanceInv, TypeOK', tokens' = tokens, t' = t,
         \A c \in Calls : calls'[c].pc \in {"read", "issued"} => calls'[c] = calls[c]
  PROVE  IssuanceInv'
BY DEF IssuanceInv, NotAhead, ReadPast, IssuanceFailsClosed

LEMMA IssuanceStep ==
  ASSUME 2 * Offset <= Skew, IssuanceInv, [Next]_vars
  PROVE  IssuanceInv'
<1> USE AssertionsAssumption
<1>0. TypeOK /\ TypeOK'
  BY TypeStep DEF IssuanceInv
<1>1. CASE UNCHANGED vars
  BY <1>0, <1>1, NoMapping DEF vars
<1>2. CASE Tick
  <2>1. \A c \in Calls : calls[c].pc = "read" => calls[c].pg \in Int
    BY <1>0, CallTypes DEF Served
  <2> QED BY <1>0, <1>2, <2>1 DEF Tick, TypeOK, IssuanceInv, NotAhead, ReadPast, IssuanceFailsClosed
<1>3. ASSUME NEW m \in Minters, NEW j \in Jtis, NEW ttl \in 0..(MaxLifetime + 1), Mint(m, j, ttl)
      PROVE  IssuanceInv'
  <2>1. Clock(m) \in Int /\ Clock(m) <= t + Offset
    BY <1>0, ClockBounds DEF Machines
  <2>2. NotAhead'
    BY <1>0, <1>3, <2>1 DEF Mint, IssuanceInv, NotAhead
  <2> QED BY <1>0, <1>3, <2>2 DEF Mint, IssuanceInv, ReadPast, IssuanceFailsClosed
<1>4. ASSUME NEW c \in Calls, NEW k \in tokens, NEW r \in Replicas, Verify(c, k, r)
      PROVE  IssuanceInv'
  <2>1. \A d \in Calls : calls'[d].pc \in {"read", "issued"} => calls'[d] = calls[d]
    BY <1>0, <1>4 DEF Verify, TypeOK
  <2> QED BY <1>0, <1>4, <2>1, NoMapping DEF Verify
<1>5. ASSUME NEW c \in Calls, Use(c)
      PROVE  IssuanceInv'
  <2>1. \A d \in Calls : calls'[d].pc \in {"read", "issued"} => calls'[d] = calls[d]
    <3>1. PICK new \in Request \cup {Refused} : calls' = [calls EXCEPT ![c] = new]
      BY <1>0, <1>5, UsePost
    <3>2. new.pc \notin {"read", "issued"}
      BY <3>1 DEF Request, Refused
    <3> QED BY <1>0, <3>1, <3>2 DEF TypeOK
  <2> QED BY <1>0, <1>5, <2>1, NoMapping DEF Use
<1>6. ASSUME NEW c \in Calls, Prune(c)
      PROVE  IssuanceInv'
  <2>1. \A d \in Calls : calls'[d].pc \in {"read", "issued"} => calls'[d] = calls[d]
    <3>1. PICK new \in Request : calls' = [calls EXCEPT ![c] = new]
      BY <1>0, <1>6, PrunePost
    <3>2. new.pc \notin {"read", "issued"}
      BY <3>1 DEF Request
    <3> QED BY <1>0, <3>1, <3>2 DEF TypeOK
  <2> QED BY <1>0, <1>6, <2>1, NoMapping DEF Prune
<1>7. ASSUME NEW c \in Calls, Insert(c)
      PROVE  IssuanceInv'
  <2>1. \A d \in Calls : calls'[d].pc \in {"read", "issued"} => calls'[d] = calls[d]
    BY <1>0, <1>7 DEF Insert, TypeOK, Refused
  <2> QED BY <1>0, <1>7, <2>1, NoMapping DEF Insert
<1>8. ASSUME NEW c \in Calls, ReadDatabaseClock(c)
      PROVE  IssuanceInv'
  <2>1. PICK new \in Served :
           calls' = [calls EXCEPT ![c] = new] /\ new.pc = "read" /\ new.pg = t
    BY <1>0, <1>8, ReadPost
  <2>2. \A d \in Calls : calls'[d] = IF d = c THEN new ELSE calls[d]
    BY <1>0, <2>1 DEF TypeOK
  <2>3. t' = t /\ tokens' = tokens /\ t \in Nat
    BY <1>0, <1>8 DEF ReadDatabaseClock, TypeOK
  <2>4. ReadPast' /\ IssuanceFailsClosed'
    BY <2>1, <2>2, <2>3 DEF IssuanceInv, ReadPast, IssuanceFailsClosed
  <2> QED BY <1>0, <2>3, <2>4 DEF IssuanceInv, NotAhead
<1>9. ASSUME NEW c \in Calls, MapIssuance(c)
      PROVE  IssuanceInv'
  <2> DEFINE k == calls[c].tok
             clock == Clock(calls[c].replica)
  <2>1. PICK new \in Served :
           /\ calls' = [calls EXCEPT ![c] = new]
           /\ new.pc = "issued" /\ new.tok = k
           /\ new.issued = calls[c].pg - TokenAge(k, clock)
    BY <1>0, <1>9, MapPost
  <2>2. \A d \in Calls : calls'[d] = IF d = c THEN new ELSE calls[d]
    BY <1>0, <2>1 DEF TypeOK
  <2>3. calls[c] \in Served /\ calls[c].pg <= t
    BY <1>0, <1>9, CallTypes DEF MapIssuance, IssuanceInv, ReadPast
  <2>4. clock \in Int /\ t - Offset <= clock
    BY <1>0, <2>3, ClockBounds DEF Served, Machines
  <2>5. k \in tokens /\ k.iat \in Int /\ k.minted \in Nat /\ k.iat <= k.minted + Offset
    BY <1>0, <2>3 DEF Served, TypeOK, Token, IssuanceInv, NotAhead
  <2>6. calls[c].pg - TokenAge(k, clock) <= k.minted
    <3>1. calls[c].pg \in Int /\ t \in Nat
      BY <1>0, <2>3 DEF Served, TypeOK
    <3> HIDE DEF k, clock
    <3>2. TokenAge(k, clock) \in Int /\ clock - k.iat + Skew <= TokenAge(k, clock)
      BY <2>4, <2>5 DEF TokenAge
    <3> QED BY <2>3, <2>4, <2>5, <3>1, <3>2
  <2>7. new.issued <= new.tok.minted
    BY <2>1, <2>6
  <2>8. t' = t /\ tokens' = tokens
    BY <1>9 DEF MapIssuance
  <2>9. ReadPast' /\ IssuanceFailsClosed'
    BY <2>1, <2>2, <2>7, <2>8 DEF IssuanceInv, ReadPast, IssuanceFailsClosed
  <2> QED BY <1>0, <2>8, <2>9 DEF IssuanceInv, NotAhead
<1>10. ASSUME NEW r \in Replicas, Restart(r)
       PROVE  IssuanceInv'
  <2>1. \A d \in Calls : calls'[d].pc \in {"read", "issued"} => calls'[d] = calls[d]
    BY <1>10 DEF Restart, Refused
  <2> QED BY <1>0, <1>10, <2>1, NoMapping DEF Restart
<1> QED
  BY NextCases, <1>1, <1>2, <1>3, <1>4, <1>5, <1>6, <1>7, <1>8, <1>9, <1>10

(* When two machines differ by one skew at most, a request is never ordered *)
(* after the instant its assertion was minted (userInteractionIssuedAt).    *)
THEOREM IssuanceNeverLate ==
  ASSUME 2 * Offset <= Skew
  PROVE  Spec => []IssuanceFailsClosed
<1>1. Init => IssuanceInv
  BY AssertionsAssumption
     DEF Init, TypeOK, Machines, Idle, IssuanceInv, NotAhead, ReadPast, IssuanceFailsClosed
<1>2. IssuanceInv /\ [Next]_vars => IssuanceInv'
  BY IssuanceStep
<1>3. IssuanceInv => IssuanceFailsClosed
  BY DEF IssuanceInv
<1> QED
  BY <1>1, <1>2, <1>3, PTL DEF Spec
=============================================================================
