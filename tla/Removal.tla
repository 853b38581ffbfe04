------------------------------ MODULE Removal ------------------------------
(***************************************************************************)
(* The delete half of src/core/vault.ts that offboarding and the           *)
(* break-glass command share: claimDeleteFenced marks the owner's exact    *)
(* revocation scope, then claims the row with DELETE ... RETURNING and     *)
(* retries once when only the satellite purge failed.  Each lock is taken  *)
(* and released in its own transaction, so other processes run in between. *)
(***************************************************************************)
EXTENDS Vault

CONSTANTS
  Disconnects,  \* bound: disconnect requests
  Offboards,    \* bound: offboardings of one user in one team
  Sweeps,       \* bound: offboardings of one user everywhere
  Revokers,     \* bound: break-glass commands
  Faults,       \* whether database statements may fail
  None          \* no row, no owner, no generation

ASSUME RemovalAssumption ==
  /\ Faults \in BOOLEAN
  /\ None \notin GenIds
  /\ Offboards \cap Sweeps = {}
  /\ Revokers \cap (Offboards \cup Sweeps) = {}

VARIABLES
  claim,    \* claimDeleteFenced in progress, one per offboarding or command
  claimed,  \* history: the generations whose DELETE ... RETURNING a caller won
  sealed    \* history: the removals reported as complete

removalVars == <<claim, claimed, sealed>>

Removers == Offboards \cup Sweeps \cup Revokers

Claim ==
  [ pc : {"idle", "fence", "delete", "retry", "removed", "absent", "failed"},
    owner : Owners \cup {None}, id : GenIds \cup {None}, tok : 0..MaxRefresh ]

Claimed == [ id : GenIds, by : Disconnects \cup Removers ]

(* A removal of the owner's credentials of these enterprises that was       *)
(* reported complete, fenced at time `at`.                                  *)
Seal ==
  [ kind : {"disconnect", "offboard", "everywhere", "revoke"}, owner : Owners,
    ents : SUBSET Enterprises, at : Time ]

RemovalTypeOK ==
  /\ claim \in [Removers -> Claim]
  /\ claimed \subseteq Claimed
  /\ sealed \subseteq Seal

NoClaim == [pc |-> "idle", owner |-> None, id |-> None, tok |-> 0]

RemovalInit ==
  /\ claim = [p \in Removers |-> NoClaim]
  /\ claimed = {}
  /\ sealed = {}

(* Remove row r for caller p; the satellite purge is rolled back when it    *)
(* fails, the credential delete is not.                                     *)
DeleteRow(r, p, purged) ==
  /\ connection' = connection \ {r}
  /\ tickets' = IF purged THEN WithoutSatellites(r.owner, tickets) ELSE tickets
  /\ claimed' = claimed \cup {[id |-> r.id, by |-> p]}

NothingDeleted == UNCHANGED <<connection, tickets, claimed>>

----------------------------------------------------------------------------

StartClaim(p, o) ==
  claim' = [claim EXCEPT ![p] = [pc |-> "fence", owner |-> o, id |-> None, tok |-> 0]]

ClaimFence(p) ==
  /\ claim[p].pc = "fence"
  /\ claim' = [claim EXCEPT ![p].pc = "delete"]
  /\ \/ MarkProvisioningRevoked(ExactScope(claim[p].owner))
     \/ Faults /\ UNCHANGED fenceVars
  /\ UNCHANGED <<consentVars, vaultVars, claimed, sealed>>

(* claimDelete: whatever generation the owner's row is by now.  A failed    *)
(* satellite purge rolls the delete back and leaves a retry.                *)
ClaimDelete(p) ==
  /\ claim[p].pc = "delete"
  /\ \/ /\ RowsOf(claim[p].owner) = {}
        /\ claim' = [claim EXCEPT ![p].pc = "absent"]
        /\ NothingDeleted
     \/ \E r \in RowsOf(claim[p].owner) :
          /\ DeleteRow(r, p, TRUE)
          /\ claim' = [claim EXCEPT ![p].pc = "removed"]
     \/ \E r \in RowsOf(claim[p].owner) :
          /\ Faults
          /\ claim' = [claim EXCEPT ![p] = [@ EXCEPT !.pc = "retry", !.id = r.id, !.tok = r.tok]]
          /\ NothingDeleted
     \/ /\ Faults
        /\ claim' = [claim EXCEPT ![p].pc = "failed"]
        /\ NothingDeleted
  /\ UNCHANGED <<fenceVars, consentVars, callbacks, written, sealed>>

(* The retry takes the lock anew and removes only the row it saw before. *)
RetryMatch(p) ==
  {r \in RowsOf(claim[p].owner) : r.id = claim[p].id /\ r.tok = claim[p].tok}

(* Mutant: the retry returns the row it saw, whatever it deletes. *)
ClaimRetryRemembered(p) ==
  /\ claim[p].pc = "retry"
  /\ connection' = {r \in connection : r.id # claim[p].id}
  /\ claimed' = claimed \cup {[id |-> claim[p].id, by |-> p]}
  /\ claim' = [claim EXCEPT ![p].pc = "removed"]
  /\ UNCHANGED <<fenceVars, consentVars, tickets, callbacks, written, sealed>>

ClaimRetry(p) ==
  /\ claim[p].pc = "retry"
  /\ \/ \E r \in RetryMatch(p) :
          /\ DeleteRow(r, p, FALSE)
          /\ claim' = [claim EXCEPT ![p].pc = "removed"]
     \/ /\ RetryMatch(p) = {} \/ Faults
        /\ claim' = [claim EXCEPT ![p].pc = "failed"]
        /\ NothingDeleted
  /\ UNCHANGED <<fenceVars, consentVars, callbacks, written, sealed>>

ClaimSettled(p) == claim[p].pc \in {"removed", "absent", "failed"}
=============================================================================
