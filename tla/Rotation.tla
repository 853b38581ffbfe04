------------------------------ MODULE Rotation ------------------------------
(***************************************************************************)
(* What refresh promises of one stored connection: every rotation takes    *)
(* the stored refresh token to its successor at the provider and in the    *)
(* vault at once, so the stored token works until an answer is lost.       *)
(***************************************************************************)
EXTENDS Integers

VARIABLES
  row,   \* NoRow or the stored connection
  live,  \* per grant, the refresh token the provider takes
  lost   \* the grants an answer of which cannot be stored any more

vars == <<row, live, lost>>

NoRow == [id |-> 0, rt |-> 0, at |-> 0]

Works == row.rt = 0 \/ live[row.id] = row.rt \/ row.id \in lost

Init ==
  /\ row = NoRow
  /\ \A g \in DOMAIN live : live[g] = 0
  /\ lost = {}

(* A new grant, with or without a refresh token. *)
Connect ==
  /\ row'.id > row.id /\ row'.at > row.at
  /\ live' = [live EXCEPT ![row'.id] = row'.rt]
  /\ UNCHANGED lost

Remove ==
  /\ row' = NoRow
  /\ UNCHANGED <<live, lost>>

(* The vault and the provider move together, unless they are apart already. *)
Rotate ==
  /\ row.rt # 0 /\ Works
  /\ row'.id = row.id /\ row'.rt # 0 /\ row'.at > row.at
  /\ \A g \in DOMAIN live \ {row.id} : live'[g] = live[g]
  /\ live'[row.id] = row'.rt \/ row.id \in lost
  /\ UNCHANGED lost

(* A grant's answer is lost; the provider may or may not have rotated. *)
Lose ==
  /\ lost \subseteq lost'
  /\ \A g \in DOMAIN live : live'[g] # live[g] => g \in lost'
  /\ UNCHANGED row

Next == Connect \/ Remove \/ Rotate \/ Lose

Spec == Init /\ [][Next]_vars
=============================================================================
