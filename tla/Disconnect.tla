----------------------------- MODULE Disconnect -----------------------------
(***************************************************************************)
(* A user's own disconnect (disconnectProviderAtGeneration of              *)
(* src/core/offboard.ts over prepareUserDisconnect and deleteForRevoke of  *)
(* src/core/vault.ts), for a registered provider.  It names the provider,  *)
(* or the exact generation a Slack control was rendered with.              *)
(***************************************************************************)
EXTENDS Removal

VARIABLE disc  \* the disconnect requests

DisconnectRequest ==
  [ pc : {"idle", "prepared", "settle", "done"}, who : Identities \cup {None}, issued : Time,
    expected : GenIds \cup {None}, snap : GenIds \cup {None}, fenced : BOOLEAN, at : Time,
    removed : BOOLEAN ]

DisconnectTypeOK == disc \in [Disconnects -> DisconnectRequest]

DisconnectInit ==
  disc = [d \in Disconnects |->
    [ pc |-> "idle", who |-> None, issued |-> 0, expected |-> None, snap |-> None,
      fenced |-> FALSE, at |-> 0, removed |-> FALSE ]]

(* prepareUserDisconnect, under the revocation and offboard locks.  A stale *)
(* or offboarded request changes nothing and is no step.                    *)
PrepareDisconnect(d, i, issued, expected) ==
  LET o == OwnerOf(i) IN
  /\ disc[d].pc = "idle"
  /\ ~OffBlocks(i, issued)
  /\ IF expected = None THEN \A r \in RowsOf(o) : r.gen < issued
                        ELSE \E r \in RowsOf(o) : r.id = expected
  /\ \E fenced \in BOOLEAN, snap \in GenIds \cup {None} :
       /\ IF RowsOf(o) = {} THEN snap = None ELSE \E r \in RowsOf(o) : r.id = snap
       /\ \/ fenced /\ MarkProvisioningRevoked(ExactScope(o))
          \/ ~fenced /\ Faults /\ UNCHANGED fenceVars
       /\ disc' = [disc EXCEPT ![d] =
            [ pc |-> IF snap = None THEN "settle" ELSE "prepared", who |-> i, issued |-> issued,
              expected |-> expected, snap |-> snap, fenced |-> fenced, at |-> now,
              removed |-> FALSE ]]
  /\ UNCHANGED <<consentVars, vaultVars, removalVars>>

(* Mutant: the credential is deleted by its key. *)
OwnerRows(d) == RowsOf(OwnerOf(disc[d].who))

ExactRows(d) == {r \in RowsOf(OwnerOf(disc[d].who)) : r.id = disc[d].snap}

(* deleteForRevoke(prepared): the actor's fence again, then the exact row.  *)
(* Its satellite fallback stays inside the transaction.                     *)
DeletePrepared(d) ==
  LET offboarded == OffBlocks(disc[d].who, disc[d].issued) IN
  /\ disc[d].pc = "prepared"
  /\ \/ /\ offboarded \/ Faults
        /\ disc' = [disc EXCEPT ![d].pc = "done"]
        /\ NothingDeleted
     \/ /\ ~offboarded /\ ExactRows(d) = {}
        /\ disc' = [disc EXCEPT ![d].pc = "settle"]
        /\ NothingDeleted
     \/ /\ ~offboarded
        /\ \E r \in ExactRows(d), purged \in {TRUE, ~Faults} : DeleteRow(r, d, purged)
        /\ disc' = [disc EXCEPT ![d] = [@ EXCEPT !.pc = "settle", !.removed = TRUE]]
  /\ UNCHANGED <<fenceVars, consentVars, callbacks, written, claim, sealed>>

(* A vanished generation is a stale outcome for a control that named it,   *)
(* and for a provider-addressed request once another row took its place.   *)
DisconnectStale(d) ==
  /\ ~disc[d].removed
  /\ disc[d].snap # None
  /\ disc[d].expected # None \/ RowsOf(OwnerOf(disc[d].who)) # {}

(* upstreamOk: no revocation debt was left at the provider. *)
SettleDisconnect(d, upstreamOk) ==
  /\ disc[d].pc = "settle"
  /\ disc' = [disc EXCEPT ![d].pc = "done"]
  /\ sealed' = IF ~DisconnectStale(d) /\ upstreamOk /\ disc[d].fenced
                 THEN sealed \cup {[ kind |-> "disconnect", owner |-> OwnerOf(disc[d].who),
                                     ents |-> Enterprises, at |-> disc[d].at ]}
                 ELSE sealed
  /\ UNCHANGED <<fenceVars, consentVars, vaultVars, claim, claimed>>
=============================================================================
