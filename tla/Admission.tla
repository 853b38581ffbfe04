----------------------------- MODULE Admission -----------------------------
(***************************************************************************)
(* In-flight admission of the broker: the two ceilings of InflightLimiter  *)
(* and the leases of the requests that passed them (core/inflight.ts, and  *)
(* the lease of adapters/http/broker.ts).  One process, one limiter.       *)
(***************************************************************************)
EXTENDS Naturals, FiniteSets

CONSTANTS
  Work,        \* units of work: the functional requests of one replica
  Providers,   \* the registered providers
  Options      \* the construction options a broker may run with

(* What assertInflightLimits demands of the ceilings. *)
ValidLimits(o) ==
  /\ o.global \in Nat \ {0}
  /\ o.provider \in Nat \ {0}
  /\ o.provider <= o.global

ASSUME AdmissionAssumption ==
  /\ IsFiniteSet(Work)
  /\ \A o \in Options : ValidLimits(o)

VARIABLES
  opts,         \* the options this broker was constructed with
  global,       \* InflightLimiter.global
  perProvider,  \* InflightLimiter.perProvider, 0 where the map has no entry
  lease,        \* per unit of work: the releaser of enter()
  slot          \* per unit of work and provider: the releaser of enterProvider()

admissionVars == <<opts, global, perProvider, lease, slot>>

(* A releaser was not handed out, is live, or has run. *)
Releaser == {"none", "live", "released"}

AdmissionTypeOK ==
  /\ opts \in Options
  /\ global \in Nat
  /\ perProvider \in [Providers -> Nat]
  /\ lease \in [Work -> Releaser]
  /\ slot \in [Work -> [Providers -> Releaser]]

AdmissionInit ==
  /\ opts \in Options
  /\ global = 0
  /\ perProvider = [p \in Providers |-> 0]
  /\ lease = [w \in Work |-> "none"]
  /\ slot = [w \in Work |-> [p \in Providers |-> "none"]]

GlobalFull == global >= opts.global

(* enter(): one unit against the global ceiling. *)
Enter(w) ==
  /\ lease[w] = "none"
  /\ ~GlobalFull
  /\ global' = global + 1
  /\ lease' = [lease EXCEPT ![w] = "live"]
  /\ UNCHANGED <<opts, perProvider, slot>>

ProviderFull(p) == perProvider[p] >= opts.provider

(* enterProvider(p): one unit against the ceiling of one provider. *)
EnterProvider(w, p) ==
  /\ slot[w][p] = "none"
  /\ ~ProviderFull(p)
  /\ perProvider' = [perProvider EXCEPT ![p] = @ + 1]
  /\ slot' = [slot EXCEPT ![w][p] = "live"]
  /\ UNCHANGED <<opts, global, lease>>

(* The releaser of enter(): a second call is a no-op. *)
Release(w) ==
  /\ lease[w] # "none"
  /\ global' = IF lease[w] = "live" THEN global - 1 ELSE global
  /\ lease' = [lease EXCEPT ![w] = "released"]
  /\ UNCHANGED <<opts, perProvider, slot>>

(* The releaser of enterProvider(): the same, on the entry of its provider. *)
ReleaseProvider(w, p) ==
  /\ slot[w][p] # "none"
  /\ perProvider' = IF slot[w][p] = "live"
                    THEN [perProvider EXCEPT ![p] = @ - 1] ELSE perProvider
  /\ slot' = [slot EXCEPT ![w][p] = "released"]
  /\ UNCHANGED <<opts, global, lease>>

(* Any order of entries and releases, each releaser called any number of times. *)
AdmissionNext ==
  \E w \in Work :
    \/ Enter(w) \/ Release(w)
    \/ \E p \in Providers : EnterProvider(w, p) \/ ReleaseProvider(w, p)

AdmissionSpec == AdmissionInit /\ [][AdmissionNext]_admissionVars

Leased == {w \in Work : lease[w] = "live"}
InProvider(p) == {w \in Work : slot[w][p] = "live"}

(* The counters are exactly the live leases: none leaks and none is given   *)
(* back twice, however often and in whatever order an error path and a      *)
(* finally block call a releaser, so neither ceiling drifts                 *)
(* (InflightLimiter.releaser).                                              *)
CountersExact ==
  /\ global = Cardinality(Leased)
  /\ \A p \in Providers : perProvider[p] = Cardinality(InProvider(p))

(* Neither ceiling is ever exceeded (InflightLimiter.enter, enterProvider). *)
WithinCeilings ==
  /\ Cardinality(Leased) <= opts.global
  /\ \A p \in Providers : Cardinality(InProvider(p)) <= opts.provider
=============================================================================
