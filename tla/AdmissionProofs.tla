-------------------------- MODULE AdmissionProofs --------------------------
(***************************************************************************)
(* The ceilings of one broker replica, for any number of requests and      *)
(* providers: the counters count the live leases, whatever releaser is     *)
(* called how often, and neither ceiling is exceeded.                      *)
(***************************************************************************)
EXTENDS Admission, FiniteSetTheorems, TLAPS

(* The units that hold something, out of finitely many. *)
Holding(f) == {w \in Work : f[w] = "live"}

(* Handing out a releaser adds one holder. *)
LEMMA OneMore ==
  ASSUME NEW f, NEW g, NEW w \in Work, f[w] # "live", g[w] = "live",
         \A v \in Work \ {w} : g[v] = f[v]
  PROVE  Cardinality(Holding(g)) = Cardinality(Holding(f)) + 1
<1>1. IsFiniteSet(Holding(f))
  BY AdmissionAssumption, FS_Subset DEF Holding
<1>2. Holding(g) = Holding(f) \cup {w} /\ w \notin Holding(f)
  BY DEF Holding
<1> QED  BY <1>1, <1>2, FS_AddElement

(* A releaser that runs for the first time takes one away. *)
LEMMA OneLess ==
  ASSUME NEW f, NEW g, NEW w \in Work, f[w] = "live", g[w] # "live",
         \A v \in Work \ {w} : g[v] = f[v]
  PROVE  Cardinality(Holding(g)) = Cardinality(Holding(f)) - 1
<1>1. IsFiniteSet(Holding(f))
  BY AdmissionAssumption, FS_Subset DEF Holding
<1>2. Holding(g) = Holding(f) \ {w} /\ w \in Holding(f)
  BY DEF Holding
<1> QED  BY <1>1, <1>2, FS_RemoveElement

(* What is carried from step to step: each counter with its leases. *)
GlobalExact ==
  /\ global \in Nat /\ lease \in [Work -> Releaser]
  /\ global = Cardinality(Leased) /\ Cardinality(Leased) <= opts.global

ProvidersExact ==
  /\ perProvider \in [Providers -> Nat] /\ slot \in [Work -> [Providers -> Releaser]]
  /\ \A p \in Providers : /\ perProvider[p] = Cardinality(InProvider(p))
                           /\ Cardinality(InProvider(p)) <= opts.provider

AdmissionInv == opts \in Options /\ GlobalExact /\ ProvidersExact

(* The ceilings are numbers. *)
LEMMA Ceilings ==
  ASSUME opts \in Options
  PROVE  opts.global \in Nat /\ opts.provider \in Nat
BY AdmissionAssumption DEF ValidLimits

LEMMA LeaseTaken ==
  ASSUME AdmissionInv, NEW w \in Work, lease[w] # "live", ~GlobalFull, UNCHANGED opts,
         global' = global + 1, lease' = [lease EXCEPT ![w] = "live"]
  PROVE  GlobalExact'
<1>1. Cardinality(Leased') = Cardinality(Leased) + 1
  BY OneMore DEF Leased, Holding, AdmissionInv, GlobalExact
<1> QED  BY <1>1, Ceilings DEF AdmissionInv, GlobalExact, GlobalFull, Releaser

LEMMA LeaseGivenBack ==
  ASSUME AdmissionInv, NEW w \in Work, lease[w] = "live", UNCHANGED opts,
         global' = global - 1, lease' = [lease EXCEPT ![w] = "released"]
  PROVE  GlobalExact'
<1>1. Cardinality(Leased') = Cardinality(Leased) - 1
  BY OneLess DEF Leased, Holding, AdmissionInv, GlobalExact
<1>2. Cardinality(Leased) \in Nat /\ Cardinality(Leased') \in Nat
  <2>1. IsFiniteSet(Leased) /\ IsFiniteSet(Leased')
    BY AdmissionAssumption, FS_Subset DEF Leased
  <2> QED  BY <2>1, FS_CardinalityType
<1> QED  BY <1>1, <1>2, Ceilings DEF AdmissionInv, GlobalExact, Releaser

LEMMA LeasesKept ==
  ASSUME GlobalExact, UNCHANGED <<opts, global, lease>>
  PROVE  GlobalExact'
BY DEF GlobalExact, Leased

LEMMA SlotTaken ==
  ASSUME AdmissionInv, NEW w \in Work, NEW p \in Providers, slot[w][p] # "live",
         ~ProviderFull(p), UNCHANGED opts,
         perProvider' = [perProvider EXCEPT ![p] = @ + 1],
         slot' = [slot EXCEPT ![w][p] = "live"]
  PROVE  ProvidersExact'
<1> USE DEF AdmissionInv, ProvidersExact
<1>1. Cardinality(InProvider(p)') = Cardinality(InProvider(p)) + 1
  <2>1. IsFiniteSet(InProvider(p))
    BY AdmissionAssumption, FS_Subset DEF InProvider
  <2>2. InProvider(p)' = InProvider(p) \cup {w} /\ w \notin InProvider(p)
    BY DEF InProvider
  <2> QED  BY <2>1, <2>2, FS_AddElement
<1>2. \A q \in Providers \ {p} : InProvider(q)' = InProvider(q) /\ perProvider'[q] = perProvider[q]
  BY DEF InProvider
<1>3. slot' \in [Work -> [Providers -> Releaser]] /\ perProvider' \in [Providers -> Nat]
  BY DEF Releaser
<1>4. perProvider'[p] = perProvider[p] + 1 /\ perProvider[p] < opts.provider
  BY Ceilings DEF ProviderFull
<1>5. \A q \in Providers : /\ perProvider'[q] = Cardinality(InProvider(q)')
                           /\ Cardinality(InProvider(q)') <= opts.provider
  <2> SUFFICES ASSUME NEW q \in Providers
               PROVE  /\ perProvider'[q] = Cardinality(InProvider(q)')
                      /\ Cardinality(InProvider(q)') <= opts.provider
    OBVIOUS
  <2>1. CASE q = p
    BY <1>1, <1>4, <2>1, Ceilings
  <2>2. CASE q # p
    BY <1>2, <2>2
  <2> QED  BY <2>1, <2>2
<1> QED  BY <1>3, <1>5

LEMMA SlotGivenBack ==
  ASSUME AdmissionInv, NEW w \in Work, NEW p \in Providers, slot[w][p] = "live", UNCHANGED opts,
         perProvider' = [perProvider EXCEPT ![p] = @ - 1],
         slot' = [slot EXCEPT ![w][p] = "released"]
  PROVE  ProvidersExact'
<1> USE DEF AdmissionInv, ProvidersExact
<1>1. IsFiniteSet(InProvider(p)) /\ IsFiniteSet(InProvider(p)')
  BY AdmissionAssumption, FS_Subset DEF InProvider
<1>2. InProvider(p)' = InProvider(p) \ {w} /\ w \in InProvider(p)
  BY DEF InProvider
<1>3. Cardinality(InProvider(p)') = Cardinality(InProvider(p)) - 1
  BY <1>1, <1>2, FS_RemoveElement
<1>4. Cardinality(InProvider(p)') \in Nat /\ Cardinality(InProvider(p)) \in Nat
  BY <1>1, FS_CardinalityType
<1>5. \A q \in Providers \ {p} : InProvider(q)' = InProvider(q) /\ perProvider'[q] = perProvider[q]
  BY DEF InProvider
<1>6. perProvider'[p] = perProvider[p] - 1
  OBVIOUS
<1>7. /\ perProvider'[p] = Cardinality(InProvider(p)')
      /\ Cardinality(InProvider(p)') <= opts.provider
  BY <1>3, <1>4, <1>6, Ceilings
<1>8. \A q \in Providers : /\ perProvider'[q] = Cardinality(InProvider(q)')
                           /\ Cardinality(InProvider(q)') <= opts.provider
  BY <1>5, <1>7
<1>9. perProvider' \in [Providers -> Nat]
  <2>1. perProvider[p] - 1 \in Nat
    BY <1>4, <1>6, <1>7
  <2> QED  BY <2>1
<1>10. slot' \in [Work -> [Providers -> Releaser]]
  BY DEF Releaser
<1> QED  BY <1>8, <1>9, <1>10

LEMMA SlotsKept ==
  ASSUME ProvidersExact, UNCHANGED <<opts, perProvider, slot>>
  PROVE  ProvidersExact'
BY DEF ProvidersExact, InProvider

(* Giving back what is no longer held changes nothing. *)
LEMMA ReleasedAgain ==
  ASSUME AdmissionInv, NEW w \in Work, NEW p \in Providers, slot[w][p] # "live",
         UNCHANGED <<opts, perProvider>>, slot' = [slot EXCEPT ![w][p] = "released"]
  PROVE  ProvidersExact'
<1>1. \A q \in Providers : InProvider(q)' = InProvider(q)
  BY DEF InProvider, AdmissionInv, ProvidersExact
<1>2. slot' \in [Work -> [Providers -> Releaser]]
  BY DEF Releaser, AdmissionInv, ProvidersExact
<1> QED  BY <1>1, <1>2 DEF AdmissionInv, ProvidersExact

LEMMA EnterKeeps ==
  ASSUME AdmissionInv, NEW w \in Work, Enter(w)
  PROVE  AdmissionInv'
<1>1. GlobalExact'
  BY LeaseTaken DEF Enter
<1>2. ProvidersExact'
  BY SlotsKept DEF Enter, AdmissionInv
<1> QED  BY <1>1, <1>2 DEF Enter, AdmissionInv

LEMMA ReleaseKeeps ==
  ASSUME AdmissionInv, NEW w \in Work, Release(w)
  PROVE  AdmissionInv'
<1>1. ProvidersExact'
  BY SlotsKept DEF Release, AdmissionInv
<1>2. CASE lease[w] = "live"
  BY <1>1, <1>2, LeaseGivenBack DEF Release, AdmissionInv
<1>3. CASE lease[w] # "live"
  <2>1. lease' = lease /\ global' = global
    BY <1>3 DEF Release, AdmissionInv, GlobalExact, Releaser
  <2> QED  BY <1>1, <2>1, LeasesKept DEF Release, AdmissionInv
<1> QED  BY <1>2, <1>3

LEMMA EnterProviderKeeps ==
  ASSUME AdmissionInv, NEW w \in Work, NEW p \in Providers, EnterProvider(w, p)
  PROVE  AdmissionInv'
<1>1. GlobalExact'
  BY LeasesKept DEF EnterProvider, AdmissionInv
<1>2. ProvidersExact'
  BY SlotTaken DEF EnterProvider
<1> QED  BY <1>1, <1>2 DEF EnterProvider, AdmissionInv

LEMMA ReleaseProviderKeeps ==
  ASSUME AdmissionInv, NEW w \in Work, NEW p \in Providers, ReleaseProvider(w, p)
  PROVE  AdmissionInv'
<1>1. GlobalExact'
  BY LeasesKept DEF ReleaseProvider, AdmissionInv
<1>2. CASE slot[w][p] = "live"
  BY <1>1, <1>2, SlotGivenBack DEF ReleaseProvider, AdmissionInv
<1>3. CASE slot[w][p] # "live"
  BY <1>1, <1>3, ReleasedAgain DEF ReleaseProvider, AdmissionInv
<1> QED  BY <1>2, <1>3

(* A replica that admits nobody yet. *)
LEMMA AdmissionStarts ==
  ASSUME AdmissionInit
  PROVE  AdmissionInv
<1>1. Leased = {} /\ \A p \in Providers : InProvider(p) = {}
  BY DEF AdmissionInit, Leased, InProvider
<1> QED  BY <1>1, Ceilings, FS_EmptySet
  DEF AdmissionInit, AdmissionInv, GlobalExact, ProvidersExact, Releaser

(* Counters and ceilings of one replica hold in every reachable state: a    *)
(* releaser called twice, or in any order, gives back exactly what it was   *)
(* handed out for (InflightLimiter).                                        *)
THEOREM AdmissionHolds == AdmissionSpec => [](AdmissionTypeOK /\ CountersExact /\ WithinCeilings)
<1>1. AdmissionInv /\ [AdmissionNext]_admissionVars => AdmissionInv'
  <2>1. AdmissionInv /\ UNCHANGED admissionVars => AdmissionInv'
    BY LeasesKept, SlotsKept DEF admissionVars, AdmissionInv
  <2> QED  BY <2>1, EnterKeeps, ReleaseKeeps, EnterProviderKeeps, ReleaseProviderKeeps
    DEF AdmissionNext
<1>2. AdmissionInv => AdmissionTypeOK /\ CountersExact /\ WithinCeilings
  BY DEF AdmissionInv, GlobalExact, ProvidersExact, AdmissionTypeOK, CountersExact, WithinCeilings
<1> QED  BY AdmissionStarts, <1>1, <1>2, PTL DEF AdmissionSpec
=============================================================================
