----------------------------- MODULE Allowlist ------------------------------
(***************************************************************************)
(* The tool allowlist of a channel (core/tools.ts): concurrent commands of *)
(* members, each a transaction under the advisory locks of the providers   *)
(* it changes (configureChannelTools).  The first write of a channel       *)
(* materialises a row for every provider, in the order of their ids, and   *)
(* inserting a row another transaction has inserted and not yet committed  *)
(* waits for that transaction.  One channel.                               *)
(***************************************************************************)
EXTENDS Naturals, FiniteSetsExt

CONSTANTS
  Commands,       \* commands of members
  ToolProviders,  \* the registered providers, as numbers in the order of their ids
  Unset,          \* no row
  Free            \* no transaction

ASSUME AllowlistAssumption ==
  /\ ToolProviders \subseteq Nat /\ IsFiniteSet(ToolProviders)
  /\ Unset \notin BOOLEAN
  /\ Free \notin Commands

VARIABLES
  enabled,   \* per provider: its committed row
  written,   \* per provider: the row an open transaction wrote
  writer,    \* per provider: that transaction
  locked,    \* per provider: the command that holds its advisory lock
  command,   \* per command: where it is, what it wants, what it will write
  decided    \* per provider: what the last command that committed decided

allowlistVars == <<enabled, written, writer, locked, command, decided>>

(* Nothing is asked for. *)
NoChange == [p \in ToolProviders |-> Unset]

AllowlistTypeOK ==
  /\ enabled \in [ToolProviders -> BOOLEAN \union {Unset}]
  /\ written \in [ToolProviders -> BOOLEAN \union {Unset}]
  /\ writer \in [ToolProviders -> Commands \union {Free}]
  /\ locked \in [ToolProviders -> Commands \union {Free}]
  /\ command \in [Commands -> [at : {"new", "locked", "fill", "upsert", "commit", "done"},
                              changes : [ToolProviders -> BOOLEAN \union {Unset}],
                              todo : SUBSET ToolProviders]]
  /\ decided \in [ToolProviders -> BOOLEAN]

AllowlistInit ==
  /\ enabled = [p \in ToolProviders |-> Unset]
  /\ written = [p \in ToolProviders |-> Unset]
  /\ writer = [p \in ToolProviders |-> Free]
  /\ locked = [p \in ToolProviders |-> Free]
  /\ command = [c \in Commands |-> [at |-> "new", changes |-> NoChange, todo |-> {}]]
  /\ decided = [p \in ToolProviders |-> FALSE]

Changes == [ToolProviders -> BOOLEAN \union {Unset}] \ {NoChange}

(* withCredentialLocks over the providers of the command (module Locks has *)
(* the order), after the member was authorized.                            *)
LockCommand(c) ==
  /\ command[c].at = "new"
  /\ \E ch \in Changes :
       /\ \A p \in ToolProviders : ch[p] # Unset => locked[p] = Free
       /\ locked' = [p \in ToolProviders |-> IF ch[p] # Unset THEN c ELSE locked[p]]
       /\ command' = [command EXCEPT ![c].at = "locked", ![c].changes = ch]
  /\ UNCHANGED <<enabled, written, writer, decided>>

Configured == \E p \in ToolProviders : enabled[p] # Unset

(* isEnabled: only an explicit row enables. *)
IsEnabled(p) == enabled[p] = TRUE

(* Mutant: the order in which the caller listed the providers, here the    *)
(* reverse for one of them.                                                *)
AsListed(c) ==
  IF c = CHOOSE d \in Commands : TRUE THEN Max(command[c].todo) ELSE Min(command[c].todo)

(* The row order of every writer. *)
InOrder(c) == Min(command[c].todo)

Finish(c) ==
  /\ locked' = [p \in ToolProviders |-> IF locked[p] = c THEN Free ELSE locked[p]]
  /\ command' = [command EXCEPT ![c] = [at |-> "done", changes |-> NoChange, todo |-> {}]]

(* Under its locks a command drops what already is as it wants it; when    *)
(* nothing is left, or its member was offboarded, it ends.  Otherwise it   *)
(* fills the channel's rows, if the snapshot of that statement has none,   *)
(* and goes on to write its own.                                           *)
Compare(c) ==
  /\ command[c].at = "locked"
  /\ LET ch == command[c].changes
         real == {p \in ToolProviders : ch[p] # Unset /\ ch[p] # IsEnabled(p)}
     IN  \/ Finish(c)
         \/ /\ real # {}
            /\ command' = [command EXCEPT ![c] =
                 [at |-> "fill",
                  changes |-> [p \in ToolProviders |-> IF p \in real THEN ch[p] ELSE Unset],
                  todo |-> IF Configured THEN {} ELSE ToolProviders]]
            /\ UNCHANGED locked
  /\ UNCHANGED <<enabled, written, writer, decided>>

(* The row, as the statement of command c finds it, is not in the hands of *)
(* another open transaction.                                               *)
Writable(p, c) == writer[p] \in {Free, c}

RowOf(p, c) == IF writer[p] = c THEN written[p] ELSE enabled[p]

(* Mutant: ON CONFLICT DO UPDATE. *)
DoUpdate(p, c) == TRUE

(* ON CONFLICT DO NOTHING: a filler never replaces a row. *)
DoNothing(p, c) == RowOf(p, c) = Unset

Write(p, c, bit) ==
  /\ written' = [written EXCEPT ![p] = bit]
  /\ writer' = [writer EXCEPT ![p] = c]

(* The providers the command still wants to change. *)
Asked(c) == {p \in ToolProviders : command[c].changes[p] # Unset}

(* What it wants of a provider; what it does not name stays off. *)
Wish(c, p) == command[c].changes[p] = TRUE

(* The next row of the materialising INSERT, with the bit the command      *)
(* wants, or off.                                                          *)
FillRow(c) ==
  /\ command[c].at = "fill"
  /\ command[c].todo # {}
  /\ LET p == InOrder(c)
     IN  /\ Writable(p, c)
         /\ IF DoNothing(p, c) THEN Write(p, c, Wish(c, p)) ELSE UNCHANGED <<written, writer>>
         /\ command' = [command EXCEPT ![c].todo = @ \ {p}]
  /\ UNCHANGED <<enabled, locked, decided>>

(* The upsert of the command's own changes comes after the INSERT. *)
Filled(c) ==
  /\ command[c].at = "fill"
  /\ command[c].todo = {}
  /\ command' = [command EXCEPT ![c].at = "upsert", ![c].todo = Asked(c)]
  /\ UNCHANGED <<enabled, written, writer, locked, decided>>

(* The next row of the upsert. *)
UpsertRow(c) ==
  /\ command[c].at = "upsert"
  /\ command[c].todo # {}
  /\ LET p == InOrder(c)
     IN  /\ Writable(p, c)
         /\ Write(p, c, Wish(c, p))
         /\ command' = [command EXCEPT ![c].todo = @ \ {p}]
  /\ UNCHANGED <<enabled, locked, decided>>

(* The upsert is through; the purges and the audit follow. *)
Upserted(c) ==
  /\ command[c].at = "upsert"
  /\ command[c].todo = {}
  /\ command' = [command EXCEPT ![c].at = "commit"]
  /\ UNCHANGED <<enabled, written, writer, locked, decided>>

Mine(c) == {p \in ToolProviders : writer[p] = c}

CloseTxn(c) ==
  /\ written' = [p \in ToolProviders |-> IF p \in Mine(c) THEN Unset ELSE written[p]]
  /\ writer' = [p \in ToolProviders |-> IF p \in Mine(c) THEN Free ELSE writer[p]]
  /\ Finish(c)

(* The rows, the purges and the audit of the command commit together. *)
CommitCommand(c) ==
  /\ command[c].at = "commit"
  /\ enabled' = [p \in ToolProviders |-> IF p \in Mine(c) THEN written[p] ELSE enabled[p]]
  /\ decided' = [p \in ToolProviders |->
       IF p \in Asked(c) THEN Wish(c, p) ELSE decided[p]]
  /\ CloseTxn(c)

(* A statement, the purge or the audit fails: nothing of it happened. *)
RollBack(c) ==
  /\ command[c].at \in {"fill", "upsert", "commit"}
  /\ CloseTxn(c)
  /\ UNCHANGED <<enabled, decided>>

AllowlistNext ==
  \E c \in Commands :
    \/ LockCommand(c) \/ Compare(c) \/ FillRow(c) \/ Filled(c) \/ UpsertRow(c) \/ Upserted(c)
    \/ CommitCommand(c) \/ RollBack(c)

AllowlistSpec == AllowlistInit /\ [][AllowlistNext]_allowlistVars

(* A provider is usable in the channel exactly when the last command about *)
(* it that committed enabled it: no first write of another member, however *)
(* it interleaves, turns it on or off, and one that fails leaves nothing   *)
(* behind (the statements of applyEnabled).                                *)
LastCommandRules == \A p \in ToolProviders : IsEnabled(p) <=> decided[p]

Stuck(c) ==
  /\ command[c].at \in {"fill", "upsert"}
  /\ command[c].todo # {}
  /\ ~Writable(InOrder(c), c)

Active == {c \in Commands : command[c].at \notin {"new", "done"}}

(* Two first writers of one channel never wait for each other's rows       *)
(* ("every replica acquires row locks in the same provider-id order").     *)
NoRowCycle == Active # {} => \E c \in Active : ~Stuck(c)

(* The allowlist of a channel under concurrent commands. *)
AllowlistInv == AllowlistTypeOK /\ LastCommandRules /\ NoRowCycle
=============================================================================
