---------------------------- MODULE MCLifecycle ----------------------------
(* Small instances of Lifecycle for TLC. *)
EXTENDS LifecycleInv, TLC

Identity(e, t, u) == [ent |-> e, team |-> t, user |-> u]

(* One user of one team, outside an enterprise. *)
OneIdentity == {Identity(NoEnterprise, "T1", "U1")}

(* One credential owner that presents itself with and without enterprise. *)
TwoContexts == {Identity(NoEnterprise, "T1", "U1"), Identity("E1", "T1", "U1")}

(* The same user id in a team of E1, a team of E2 and a team outside both. *)
TwoTeams == {Identity("E1", "T1", "U1"), Identity(NoEnterprise, "T2", "U1")}
TwoEnterprises == {Identity("E1", "T1", "U1"), Identity("E2", "T2", "U1")}

(* Two users of one team. *)
TwoUsers == {Identity(NoEnterprise, "T1", "U1"), Identity(NoEnterprise, "T1", "U2")}

(* Every prompt is minted under a receipt of that very instant, before any *)
(* credential is stored.                                                    *)
MintedBeforeWrite ==
  \A c \in consents' : c.state \notin used => c.created = now /\ connection = {}

PromptSpec == Init /\ [][Next /\ MintedBeforeWrite]_vars

Interchangeable == Permutations(StateIds) \cup Permutations(TicketIds) \cup Permutations(GenIds)
=============================================================================
