----------------------------- MODULE MCApprovals -----------------------------
(***************************************************************************)
(* Three small instances of Approvals in one run: two calls that race for  *)
(* the decisions about two actions; two clicks that race while governance  *)
(* changes and a member is offboarded; a worker that acts as a member.     *)
(***************************************************************************)
EXTENDS ApprovalsInv, TLC

VARIABLE instance

OnceByMember == [grant |-> "once", approver |-> "member"]
ThreadBySelf == [grant |-> "thread", approver |-> "self"]
BothPolicies == {OnceByMember, ThreadBySelf}

First(S) == CHOOSE x \in S : TRUE

OneFetch == \A f \in Fetches : fetches[f] # Idle =>
              f = First(Fetches) /\ fetches[f].action = First(Actions)
OneClick == \A c \in Clicks : clicks[c] # NoClick => c = First(Clicks)
NobodyLeaves == \A u \in Users : tomb[u] = 0

Members(people) ==
  /\ now <= 2
  /\ Cardinality(used \cap Ids) <= 1
  /\ Cardinality(used \cap Gens) <= 1
  /\ \A f \in Fetches : fetches[f] # Idle => fetches[f].who \in people
  /\ \A c \in Clicks : clicks[c].by \in people \cup {None}
  /\ \A u \in Users \ people : cred[u] = None

RacingCalls == Members(Leavers) /\ OneClick /\ NobodyLeaves /\ changes <= 1

RacingClicks ==
  /\ Members(Leavers)
  /\ OneFetch
  /\ Cardinality({u \in Users : tomb[u] # 0}) <= 1

Worker ==
  /\ OneFetch /\ OneClick /\ NobodyLeaves /\ changes = 0
  /\ Cardinality({u \in Users : cred[u] # None}) <= 1

ApprovalsInit ==
  /\ Init
  /\ instance \in {"calls", "clicks", "worker"}
  /\ policy = IF instance = "worker" THEN ThreadBySelf ELSE OnceByMember

ApprovalsNext ==
  /\ Next
  /\ instance = "calls" => RacingCalls'
  /\ instance = "clicks" => RacingClicks'
  /\ instance = "worker" => Worker'
  /\ UNCHANGED instance

ApprovalsSpec == ApprovalsInit /\ [][ApprovalsNext]_<<vars, instance>>

Interchangeable == Permutations(Leavers) \cup Permutations(Ids) \cup Permutations(Gens)
=============================================================================
