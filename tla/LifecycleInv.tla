---------------------------- MODULE LifecycleInv ----------------------------
(***************************************************************************)
(* The inductive invariant behind the removal promises of Lifecycle.       *)
(*                                                                         *)
(* A finished removal is final because it is closed: no stored row has the *)
(* authority it removed, and a tombstone blocks that authority for good.   *)
(* The invariant says how far each removal in progress has come with that. *)
(***************************************************************************)
EXTENDS Lifecycle

(* A tombstone blocks the authority that owner o held at time `at`, in     *)
(* whichever of these enterprises it is presented.                         *)
Fenced(o, ents, at) ==
  \A i \in Identities : OwnerOf(i) = o /\ i.ent \in ents => LifecycleBlocks(i, at)

Closed(o, ents, at) == Fenced(o, ents, at) /\ Clean(o, ents, at)

----------------------------------------------------------------------------

(* At most one row per owner, and no generation is ever stored twice. *)
RowsOK ==
  /\ \A r1, r2 \in connection : r1.owner = r2.owner \/ r1.id = r2.id => r1 = r2
  /\ \A r \in connection : r.id \in used
  /\ \A a \in claimed : a.id \in used

(* The operands of a call in progress are set. *)
ControlOK ==
  /\ \A d \in Disconnects : disc[d].pc # "idle" => disc[d].who \in Identities
  /\ \A p \in Removers : claim[p].pc # "idle" => claim[p].owner \in Owners
  /\ \A p \in Offboards \cup Sweeps :
       ob[p].pc \notin {"idle", "discover", "next", "done"} => ob[p].owner \in Owners
  /\ \A q \in Revokers :
       /\ cli[q].pc # "idle" => cli[q].scope \in RevScopes
       /\ cli[q].pc \in {"rows", "removing"} => cli[q].round < 2

SealsClosed == \A s \in sealed : Closed(s.owner, s.ents, s.at)

DisconnectOK(d) ==
  LET o == OwnerOf(disc[d].who) IN
  /\ disc[d].snap # None => disc[d].snap \in used
  /\ disc[d].pc \in {"prepared", "settle"} /\ disc[d].fenced =>
       /\ Fenced(o, Enterprises, disc[d].at)
       /\ \A r \in connection : r.owner = o /\ r.id # disc[d].snap => r.issued > disc[d].at
  /\ disc[d].pc = "settle" => \A r \in connection : r.owner = o => r.id # disc[d].snap

InTeam == {"consents", "tickets", "list", "removing", "finish"}

(* The team being offboarded: fenced from its tombstone on, and clean once *)
(* its row was found absent or removed.                                    *)
TeamOK(p) ==
  /\ ob[p].pc \in InTeam /\ ob[p].gated => Fenced(ob[p].owner, Enterprises, ob[p].at)
  /\ ob[p].pc = "removing" =>
       /\ claim[p].pc # "idle"
       /\ claim[p].owner = ob[p].owner
       /\ ob[p].gated /\ claim[p].pc \in {"removed", "absent"} =>
            Clean(ob[p].owner, Enterprises, ob[p].at)
  /\ ob[p].pc = "finish" /\ Complete(p) => Clean(ob[p].owner, Enterprises, ob[p].at)

(* The teams a sweep has dealt with by now, or never had to. *)
PassedBy(p, o) ==
  /\ ob[p].pc # "discover"
  /\ o \notin ob[p].todo
  /\ ob[p].pc \in {"next", "done"} \/ o # ob[p].owner

(* All teams are fenced by the sweep's own tombstone; those behind it are  *)
(* clean unless the sweep has given up on being complete.                  *)
SweepOK(p) ==
  ob[p].pc # "idle" =>
    /\ ob[p].scopeAt <= now
    /\ ob[p].pc \in InTeam => ob[p].scopeAt <= ob[p].at
    /\ \A o \in Owners : o.user = ob[p].user =>
         /\ Fenced(o, CoveredEnterprises(ob[p].ent), ob[p].scopeAt)
         /\ ob[p].clean /\ PassedBy(p, o) =>
              Clean(o, CoveredEnterprises(ob[p].ent), ob[p].scopeAt)

BreakGlassOK(q) ==
  cli[q].pc # "idle" =>
    \A o \in InScope(cli[q].scope) : Fenced(o, Enterprises, cli[q].at)

(* Every removal, finished or in progress, has closed what it claims to    *)
(* have closed so far: the induction behind the four removal promises.     *)
IInv ==
  /\ TypeOK
  /\ RowsOK
  /\ ControlOK
  /\ SealsClosed
  /\ \A d \in Disconnects : DisconnectOK(d)
  /\ \A p \in Offboards \cup Sweeps : TeamOK(p)
  /\ \A p \in Sweeps : SweepOK(p)
  /\ \A q \in Revokers : BreakGlassOK(q)

----------------------------------------------------------------------------
(* What the provisioning promises rest on. *)

(* A state names one prompt, and an owner has one that is not superseded. *)
PromptsOK ==
  /\ \A c \in consents : c.state \in used
  /\ \A c1, c2 \in consents : c1.state = c2.state => c1 = c2
  /\ OneCurrentConsent

(* A state is claimed by one callback, and its prompt stays consumed. *)
CallbacksOK ==
  /\ \A cb \in callbacks : cb.row.state \in used
  /\ \A a, b \in callbacks : a.row.state = b.row.state => a = b
  /\ \A cb \in callbacks, c \in consents : c.state = cb.row.state => c.consumed

TicketsOK ==
  /\ \A t \in tickets : t.id \in used
  /\ \A t1, t2 \in tickets : t1.id = t2.id => t1 = t2

(* A prompt, a callback or a setup request could still be presented. *)
Presentable(x) ==
  \/ \E c \in consents : c.state = x
  \/ \E cb \in callbacks : cb.row.state = x
  \/ \E t \in tickets : t.id = x

(* What became a credential once cannot be presented again. *)
SourcesOK ==
  /\ \A w \in written : w.src # Direct => w.src \in used /\ ~Presentable(w.src)
  /\ SingleUse

(* A prepared disconnect holds the generation it may remove. *)
PreparedOK(d) ==
  disc[d].pc = "prepared" =>
    /\ disc[d].snap # None
    /\ disc[d].expected # None => disc[d].snap = disc[d].expected
    /\ disc[d].expected = None =>
         \A r \in connection : r.id = disc[d].snap => r.gen < disc[d].issued

(* One authority is spent once: the induction behind the promises about    *)
(* prompts, setup requests and the generation a disconnect removes.        *)
SpendIInv ==
  /\ PromptsOK
  /\ CallbacksOK
  /\ TicketsOK
  /\ SourcesOK
  /\ \A d \in Disconnects : PreparedOK(d)
=============================================================================
