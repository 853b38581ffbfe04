------------------------------ MODULE Offboard ------------------------------
(***************************************************************************)
(* Offboarding a user: offboardUserDetailed in one team, and               *)
(* offboardUserEverywhere, which fences every team, discovers the teams    *)
(* that hold something of the user and offboards each (src/core/           *)
(* offboard.ts).  The tombstone is written first, in its own transaction;  *)
(* every later statement is separate and may fail on its own.              *)
(***************************************************************************)
EXTENDS Removal

VARIABLE ob  \* the offboarding calls

(* owner, at, gated and failed belong to the team being offboarded; todo,  *)
(* scopeAt and clean to the sweep over all teams.                          *)
Offboarding ==
  [ pc : {"idle", "discover", "next", "consents", "tickets", "list", "removing", "finish", "done"},
    ent : Enterprises \cup {NoEnterprise}, user : Users \cup {None},
    todo : SUBSET Owners, scopeAt : Time, clean : BOOLEAN,
    owner : Owners \cup {None}, at : Time, gated : BOOLEAN, failed : BOOLEAN ]

OffboardTypeOK == ob \in [Offboards \cup Sweeps -> Offboarding]

OffboardInit ==
  ob = [p \in Offboards \cup Sweeps |->
    [ pc |-> "idle", ent |-> NoEnterprise, user |-> None, todo |-> {},
      scopeAt |-> 0, clean |-> TRUE, owner |-> None, at |-> 0, gated |-> FALSE,
      failed |-> FALSE ]]

(* The enterprises whose rows a sweep of enterprise e covers. *)
CoveredEnterprises(e) == IF e = NoEnterprise THEN Enterprises ELSE {e, NoEnterprise} \cap Enterprises

----------------------------------------------------------------------------
(* offboardUserEverywhere, for p in Sweeps. *)

(* markUserOffboardedEverywhere; when it fails the call throws at once. *)
MarkEverywhere(p, e, u) ==
  /\ ob[p].pc = "idle"
  /\ MarkOffboarded(EverywhereOffboardScopes(e, u))
  /\ ob' = [ob EXCEPT ![p] =
       [@ EXCEPT !.pc = "discover", !.ent = e, !.user = u, !.scopeAt = now]]
  /\ UNCHANGED <<consentVars, vaultVars, removalVars>>

(* Setup requests carry no enterprise and are matched by the user alone. *)
Discovered(e, u) ==
  {o \in Owners : o.user = u} \cap
    ( {r.owner : r \in {x \in connection : x.ent \in CoveredEnterprises(e)}}
      \cup {OwnerOf(c.who) : c \in {x \in consents : x.who.ent \in CoveredEnterprises(e)}}
      \cup {t.owner : t \in tickets} )

Discover(p) ==
  /\ ob[p].pc = "discover"
  /\ ob' = [ob EXCEPT ![p] = [@ EXCEPT !.pc = "next", !.todo = Discovered(ob[p].ent, ob[p].user)]]
  /\ UNCHANGED <<fenceVars, consentVars, vaultVars, removalVars>>

EndEverywhere(p) ==
  /\ ob[p].pc = "next" /\ ob[p].todo = {}
  /\ ob' = [ob EXCEPT ![p].pc = "done"]
  /\ sealed' = IF ob[p].clean
                 THEN sealed \cup
                   {[ kind |-> "everywhere", owner |-> o, ents |-> CoveredEnterprises(ob[p].ent),
                      at |-> ob[p].scopeAt ] : o \in {x \in Owners : x.user = ob[p].user}}
                 ELSE sealed
  /\ UNCHANGED <<fenceVars, consentVars, vaultVars, claim, claimed>>

----------------------------------------------------------------------------
(* offboardUserDetailed, called directly or for each team of a sweep. *)

(* markOffboarded: the gate comes first, and a failure to write it does    *)
(* not stop the cleanup.                                                   *)
MarkTeam(p, o) ==
  /\ IF p \in Sweeps THEN ob[p].pc = "next" /\ o \in ob[p].todo ELSE ob[p].pc = "idle"
  /\ \E gated \in {TRUE, ~Faults} :
       /\ IF gated THEN MarkOffboarded({TeamScope(o)}) ELSE UNCHANGED fenceVars
       /\ ob' = [ob EXCEPT ![p] =
            [@ EXCEPT !.pc = "consents", !.todo = ob[p].todo \ {o}, !.owner = o, !.at = now,
                      !.gated = gated, !.failed = FALSE]]
  /\ UNCHANGED <<consentVars, vaultVars, removalVars>>

(* consent.deleteForUser *)
PurgeConsents(p) ==
  /\ ob[p].pc = "consents"
  /\ ob' = [ob EXCEPT ![p].pc = "tickets"]
  /\ \/ consents' = consents \ OwnerConsents(ob[p].owner)
     \/ Faults /\ UNCHANGED consents
  /\ UNCHANGED <<fenceVars, used, vaultVars, removalVars>>

(* provisioning.revokeForUser *)
PurgeRequests(p) ==
  /\ ob[p].pc = "tickets"
  /\ ob' = [ob EXCEPT ![p].pc = "list"]
  /\ \/ tickets' = tickets \ TicketsOf(ob[p].owner)
     \/ Faults /\ UNCHANGED tickets
  /\ UNCHANGED <<fenceVars, consentVars, connection, callbacks, written, removalVars>>

(* listForUser, then removeUserConnection for the row it saw. *)
ListConnections(p) ==
  /\ ob[p].pc = "list"
  /\ \/ /\ RowsOf(ob[p].owner) = {}
        /\ ob' = [ob EXCEPT ![p].pc = "finish"]
        /\ UNCHANGED claim
     \/ /\ RowsOf(ob[p].owner) # {}
        /\ ob' = [ob EXCEPT ![p].pc = "removing"]
        /\ StartClaim(p, ob[p].owner)
     \/ /\ Faults
        /\ ob' = [ob EXCEPT ![p] = [@ EXCEPT !.pc = "finish", !.failed = TRUE]]
        /\ UNCHANGED claim
  /\ UNCHANGED <<fenceVars, consentVars, vaultVars, claimed, sealed>>

(* The upstream revoke and the audit row only change the reported debt. *)
Removed(p) ==
  /\ ob[p].pc = "removing"
  /\ ClaimSettled(p)
  /\ ob' = [ob EXCEPT ![p] = [@ EXCEPT !.pc = "finish", !.failed = claim[p].pc = "failed"]]
  /\ UNCHANGED <<fenceVars, consentVars, vaultVars, removalVars>>

(* Mutant: a gate that could not be written is forgotten. *)
GateIgnored(p) == ~ob[p].failed

(* The call returns, unless the gate or the delete failed: then it throws, *)
(* and a sweep over all teams reports this team as incomplete.             *)
Complete(p) == ob[p].gated /\ ~ob[p].failed

FinishTeam(p) ==
  /\ ob[p].pc = "finish"
  /\ ob' = [ob EXCEPT ![p] =
       [@ EXCEPT !.pc = IF p \in Sweeps THEN "next" ELSE "done",
                 !.clean = ob[p].clean /\ Complete(p)]]
  /\ sealed' = IF Complete(p)
                 THEN sealed \cup {[ kind |-> "offboard", owner |-> ob[p].owner,
                                     ents |-> Enterprises, at |-> ob[p].at ]}
                 ELSE sealed
  /\ UNCHANGED <<fenceVars, consentVars, vaultVars, claim, claimed>>
=============================================================================
