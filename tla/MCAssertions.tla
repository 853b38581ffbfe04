---------------------------- MODULE MCAssertions ----------------------------
(***************************************************************************)
(* Two small instances of Assertions in one run: replays of two assertions *)
(* that are spent at once, and requests about one assertion whose spending *)
(* takes time and that go on to map its issuance.                          *)
(***************************************************************************)
EXTENDS Assertions, FiniteSets, TLC

VARIABLE instance

Replays ==
  /\ \A c \in Calls : calls[c].pc # "read"
  /\ \A c \in InFlight : calls[c].at = t

Issuances ==
  /\ Cardinality(tokens) <= 1
  /\ Cardinality({c \in Calls : calls[c] # Idle}) <= 2

AssertionsInit == Init /\ instance \in {"replays", "issuances"}

AssertionsNext ==
  /\ Next
  /\ instance = "replays" => Replays'
  /\ instance = "issuances" => Issuances'
  /\ UNCHANGED instance

AssertionsSpec == AssertionsInit /\ [][AssertionsNext]_<<vars, instance>>

Interchangeable == Permutations(Jtis) \cup Permutations(Replicas) \cup Permutations(Calls)
=============================================================================
