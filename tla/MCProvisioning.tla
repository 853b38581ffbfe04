--------------------------- MODULE MCProvisioning ---------------------------
(***************************************************************************)
(* Two small instances of Lifecycle in one run: prompts in and outside an  *)
(* enterprise, and one prompt beside setup forms and synthetic writes.     *)
(***************************************************************************)
EXTENDS MCLifecycle

VARIABLE instance

Plain(r) == ~r.dry /\ ~r.idle

Prompts ==
  /\ used \cap TicketIds = {}
  /\ \A r \in connection : Plain(r)
  /\ \A cb \in callbacks : ~cb.synthetic

Forms ==
  /\ Cardinality(used \cap StateIds) <= 1
  /\ \A c \in consents : c.who.ent = NoEnterprise
  /\ \A r \in connection : r.ent = NoEnterprise

ProvisioningInit == Init /\ instance \in {"prompts", "forms"}

ProvisioningNext ==
  /\ Next
  /\ instance = "prompts" => Prompts'
  /\ instance = "forms" => Forms'
  /\ UNCHANGED instance

ProvisioningSpec == ProvisioningInit /\ [][ProvisioningNext]_<<vars, instance>>
=============================================================================
