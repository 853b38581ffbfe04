----------------------------- MODULE BreakGlass -----------------------------
(***************************************************************************)
(* The operator's `vouchr revoke --provider` (bin/vouchr.ts over           *)
(* purgePendingForProvider and revokeConnection of src/core/offboard.ts):  *)
(* fence the scope, purge pending authority, then select and remove the    *)
(* matching rows twice and exit by what a last selection still finds.      *)
(* A channel scope matches no user-owned row and is not in this model.     *)
(***************************************************************************)
EXTENDS Removal

VARIABLE cli  \* the break-glass commands

Command ==
  [ pc : {"idle", "purge", "select", "rows", "removing", "done"}, scope : RevScopes \cup {None},
    at : Time, batch : SUBSET Owners, round : 0..2 ]

BreakGlassTypeOK == cli \in [Revokers -> Command]

BreakGlassInit ==
  cli = [q \in Revokers |->
    [pc |-> "idle", scope |-> None, at |-> 0, batch |-> {}, round |-> 0]]

(* The owners a filter selects. *)
InScope(s) == {o \in Owners : s \in OwnerProvisioningScopes(o)}

(* markProvisioningRevoked; the command aborts when it fails. *)
MarkScope(q, s) ==
  /\ cli[q].pc = "idle"
  /\ MarkProvisioningRevoked(s)
  /\ cli' = [cli EXCEPT ![q] = [@ EXCEPT !.pc = "purge", !.scope = s, !.at = now]]
  /\ UNCHANGED <<consentVars, vaultVars, removalVars>>

(* Consents and setup requests of the scope go in one transaction, under   *)
(* the credential locks of the owners that have a request pending.         *)
PurgePending(q) ==
  LET owners == InScope(cli[q].scope) IN
  /\ cli[q].pc = "purge"
  /\ \/ /\ consents' = {c \in consents : OwnerOf(c.who) \notin owners}
        /\ tickets' = {t \in tickets : t.owner \notin owners}
        /\ cli' = [cli EXCEPT ![q].pc = "select"]
     \/ /\ Faults
        /\ cli' = [cli EXCEPT ![q].pc = "done"]
        /\ UNCHANGED <<consents, tickets>>
  /\ UNCHANGED <<fenceVars, used, connection, callbacks, written, removalVars>>

SelectRevocations(q) == InScope(cli[q].scope) \cap {r.owner : r \in connection}

SelectRows(q) ==
  /\ cli[q].pc = "select" /\ cli[q].round < 2
  /\ cli' = [cli EXCEPT ![q] = [@ EXCEPT !.pc = "rows", !.batch = SelectRevocations(q)]]
  /\ UNCHANGED <<fenceVars, consentVars, vaultVars, removalVars>>

(* revokeConnection of one selected row. *)
RevokeRow(q, o) ==
  /\ cli[q].pc = "rows" /\ o \in cli[q].batch
  /\ cli' = [cli EXCEPT ![q] = [@ EXCEPT !.pc = "removing", !.batch = cli[q].batch \ {o}]]
  /\ StartClaim(q, o)
  /\ UNCHANGED <<fenceVars, consentVars, vaultVars, claimed, sealed>>

(* A removed row also loses its owner's pending consents, best effort. *)
RowRevoked(q) ==
  /\ cli[q].pc = "removing"
  /\ ClaimSettled(q)
  /\ cli' = [cli EXCEPT ![q].pc = "rows"]
  /\ \/ claim[q].pc = "removed" /\ consents' = consents \ OwnerConsents(claim[q].owner)
     \/ (claim[q].pc # "removed" \/ Faults) /\ UNCHANGED consents
  /\ UNCHANGED <<fenceVars, used, vaultVars, removalVars>>

EndRound(q) ==
  /\ cli[q].pc = "rows" /\ cli[q].batch = {}
  /\ cli' = [cli EXCEPT ![q] = [@ EXCEPT !.pc = "select", !.round = cli[q].round + 1]]
  /\ UNCHANGED <<fenceVars, consentVars, vaultVars, removalVars>>

(* Exit status 0 exactly when no matching row remains. *)
Exit(q) ==
  /\ cli[q].pc = "select" /\ cli[q].round = 2
  /\ cli' = [cli EXCEPT ![q].pc = "done"]
  /\ sealed' = IF SelectRevocations(q) = {}
                 THEN sealed \cup {[ kind |-> "revoke", owner |-> o, ents |-> Enterprises,
                                     at |-> cli[q].at ] : o \in InScope(cli[q].scope)}
                 ELSE sealed
  /\ UNCHANGED <<fenceVars, consentVars, vaultVars, claim, claimed>>
=============================================================================
