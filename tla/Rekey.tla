------------------------------- MODULE Rekey --------------------------------
(***************************************************************************)
(* The rotation of the master key on the direct path (core/rekey.ts, driven*)
(* by cmdRekey of bin/vouchr.ts): a run walks an encrypted table in id     *)
(* order, decrypts every blob with whichever key of the ring authenticates *)
(* it (tryDecryptDirect of core/crypto.ts) and rewrites the row under the  *)
(* primary, one guarded autocommit UPDATE per row, while replicas refresh, *)
(* replace and delete the same credentials.  The run walks its two tables  *)
(* one after the other in the same way; the module has the first.          *)
(*                                                                         *)
(* A blob is the key it is sealed under and the version of the secret in   *)
(* it.  Every seal yields its own bytes, also of a refresh token that a    *)
(* refresh kept; but a refresh always brings a new access token, so two    *)
(* rows of this model are equal exactly where their bytes are.  Of the     *)
(* counts of the report it keeps whether they are zero.                    *)
(***************************************************************************)
EXTENDS Naturals, FiniteSetsExt

CONSTANTS
  Runs,        \* runs of `vouchr rekey`, after a crash or beside each other
  Ids,         \* row ids, a set of numbers in the order of the ids
  BatchSize,   \* rows of one page
  Stored,      \* per id: the row before the first run
  MaxVersion,  \* bound: versions one secret goes through
  NoRow, NoBlob

Columns == {"access", "refresh"}

(* primary and old are in the ring, lost was in an earlier one, envelope   *)
(* is sealed by the KMS.                                                   *)
Sealers == {"primary", "old", "lost", "envelope"}
Blob == [key : Sealers, version : 0..MaxVersion]
Row == [Columns -> Blob \union {NoBlob}]

ASSUME RekeyAssumption ==
  /\ Ids \subseteq Nat \ {0} /\ IsFiniteSet(Ids)
  /\ BatchSize \in Nat \ {0} /\ MaxVersion \in Nat \ {0}
  /\ NoRow \notin Row /\ NoBlob \notin Blob
  /\ Stored \in [Ids -> [Columns -> {b \in Blob : b.version = 0} \union {NoBlob}] \union {NoRow}]

VARIABLES
  rows,      \* the table
  newest,    \* per id and column: the last version a writer stored
  migrated,  \* whether every replica seals under the new primary
  run,       \* per run: where it is, its page, its cursor and its report
  vouched    \* runs that started after the migration

rekeyVars == <<rows, newest, migrated, run, vouched>>

(* A page holds the rows that were read and are still to be looked at. *)
NoPage == [i \in Ids |-> NoRow]

OnPage(r) == {i \in Ids : run[r].page[i] # NoRow}

RekeyTypeOK ==
  /\ rows \in [Ids -> Row \union {NoRow}]
  /\ newest \in [Ids -> [Columns -> 0..MaxVersion]]
  /\ migrated \in BOOLEAN
  /\ run \in [Runs -> [at : {"ready", "fetch", "page", "done", "crashed"},
                      cursor : Ids \union {0}, page : [Ids -> Row \union {NoRow}],
                      full : BOOLEAN, dry : BOOLEAN,
                      report : [reencrypted : BOOLEAN, skipped : BOOLEAN]]]
  /\ vouched \subseteq Runs

RekeyInit ==
  /\ rows = Stored
  /\ newest = [i \in Ids |-> [c \in Columns |-> 0]]
  /\ migrated = FALSE
  /\ run = [r \in Runs |->
             [at |-> "ready", cursor |-> 0, page |-> NoPage, full |-> FALSE, dry |-> FALSE,
              report |-> [reencrypted |-> FALSE, skipped |-> FALSE]]]
  /\ vouched = {}

(* The primary the replica at hand seals under; once the fleet has moved,  *)
(* there is one.                                                           *)
Primaries == IF migrated THEN {"primary"} ELSE {"primary", "old"}

Present(i) == rows[i] # NoRow

(* updateTokens: a silent refresh seals the access token, and the refresh  *)
(* token it got or had, again.                                             *)
RefreshTokens(i) ==
  /\ Present(i)
  /\ rows[i]["refresh"] # NoBlob
  /\ newest[i]["access"] < MaxVersion
  /\ \E k \in Primaries, rotated \in BOOLEAN :
       LET moved == IF rotated THEN Columns ELSE {"access"}
           version == [c \in Columns |-> newest[i][c] + (IF c \in moved THEN 1 ELSE 0)]
       IN  /\ \A c \in Columns : version[c] <= MaxVersion
           /\ newest' = [newest EXCEPT ![i] = version]
           /\ rows' = [rows EXCEPT ![i] = [c \in Columns |->
                         [key |-> k, version |-> version[c]]]]
  /\ UNCHANGED <<migrated, run, vouched>>

(* A disconnect; a reconnect is a delete and an insert, for it takes a new *)
(* id.                                                                     *)
DropRow(i) ==
  /\ Present(i)
  /\ rows' = [rows EXCEPT ![i] = NoRow]
  /\ UNCHANGED <<newest, migrated, run, vouched>>

AddRow(i) ==
  /\ ~Present(i)
  /\ Stored[i] = NoRow
  /\ newest[i]["access"] = 0
  /\ \E k \in Primaries :
       rows' = [rows EXCEPT ![i] = [c \in Columns |-> [key |-> k, version |-> 1]]]
  /\ newest' = [newest EXCEPT ![i] = [c \in Columns |-> 1]]
  /\ UNCHANGED <<migrated, run, vouched>>

(* The last replica that sealed under the old primary is gone. *)
Migrate ==
  /\ ~migrated
  /\ migrated' = TRUE
  /\ UNCHANGED <<rows, newest, run, vouched>>

StartRun(r) ==
  /\ run[r].at = "ready"
  /\ \E d \in BOOLEAN : run' = [run EXCEPT ![r].at = "fetch", ![r].dry = d]
  /\ vouched' = IF migrated THEN vouched \union {r} ELSE vouched
  /\ UNCHANGED <<rows, newest, migrated>>

(* The next page after the cursor, as it is now: the first rows in the     *)
(* order of the ids.                                                       *)
After(cursor) == {i \in Ids : Present(i) /\ i > cursor}
NextIds(cursor) ==
  {i \in After(cursor) : Cardinality({j \in After(cursor) : j <= i}) <= BatchSize}

FetchPage(r) ==
  /\ run[r].at = "fetch"
  /\ LET ids == NextIds(run[r].cursor)
     IN  run' = [run EXCEPT ![r].page = [i \in Ids |-> IF i \in ids THEN rows[i] ELSE NoRow],
                            ![r].full = Cardinality(ids) = BatchSize,
                            ![r].at = IF ids = {} THEN "done" ELSE "page"]
  /\ UNCHANGED <<rows, newest, migrated, vouched>>

(* The row of the page at hand, and those after it. *)
Current(r) == Min(OnPage(r))
Remaining(r) == OnPage(r) \ {Current(r)}

(* Mutant: a page that brought something is taken for the last one. *)
LastPageAnyway(r) == Remaining(r) = {}

(* The page that comes up short is the last one. *)
LastPage(r) == Remaining(r) = {} /\ ~run[r].full

(* The columns tryDecryptDirect opens under another key than the primary;  *)
(* what no key opens, and what the KMS owns, is left alone.                *)
Stale(row) == {c \in Columns : row[c] # NoBlob /\ row[c].key = "old"}

(* Mutant: the row is still there, whatever it holds. *)
RowStillThere(i, read) == Present(i)

(* The guard of the UPDATE: every column about to be written holds the     *)
(* bytes that were read.                                                   *)
Unchanged(i, read) == Present(i) /\ \A c \in Stale(read) : rows[i][c] = read[c]

Rewritten(i, read) ==
  [c \in Columns |-> IF c \in Stale(read) THEN [read[c] EXCEPT !.key = "primary"]
                     ELSE rows[i][c]]

(* One row of the page: its stale columns in one guarded UPDATE, counted   *)
(* as written or as lost to a concurrent writer.                           *)
RewriteRow(r) ==
  /\ run[r].at = "page"
  /\ LET i == Current(r)
         read == run[r].page[i]
         stale == Stale(read) # {}
         won == run[r].dry \/ Unchanged(i, read)
         last == LastPage(r)
     IN  /\ rows' = IF stale /\ ~run[r].dry /\ won
                    THEN [rows EXCEPT ![i] = Rewritten(i, read)] ELSE rows
         /\ run' = [run EXCEPT
              ![r].report = [reencrypted |-> run[r].report.reencrypted \/ (stale /\ won),
                             skipped |-> run[r].report.skipped \/ (stale /\ ~won)],
              ![r].cursor = IF last THEN 0 ELSE i,
              ![r].page = [run[r].page EXCEPT ![i] = NoRow],
              ![r].full = run[r].full /\ Remaining(r) # {},
              ![r].at = IF last THEN "done"
                        ELSE IF Remaining(r) = {} THEN "fetch" ELSE "page"]
  /\ UNCHANGED <<newest, migrated, vouched>>

(* The operator interrupts the run, or its process dies. *)
CrashRun(r) ==
  /\ run[r].at \in {"fetch", "page"}
  /\ run' = [run EXCEPT ![r].at = "crashed", ![r].page = NoPage, ![r].cursor = 0,
                        ![r].full = FALSE]
  /\ UNCHANGED <<rows, newest, migrated, vouched>>

RekeyNext ==
  \/ Migrate
  \/ \E i \in Ids : RefreshTokens(i) \/ DropRow(i) \/ AddRow(i)
  \/ \E r \in Runs : StartRun(r) \/ FetchPage(r) \/ RewriteRow(r) \/ CrashRun(r)

RekeySpec == RekeyInit /\ [][RekeyNext]_rekeyVars

(* A row holds what its last writer stored, both tokens of it: no run, and *)
(* no two runs at once, put an older token back in the place of a          *)
(* refreshed one (the guard of rekey's UPDATE).                            *)
NeverClobbered ==
  \A i \in Ids : Present(i) =>
    \A c \in Columns : rows[i][c] # NoBlob => rows[i][c].version = newest[i][c]

(* The old key may be taken out of the ring: a run that began when every   *)
(* replica sealed under the new primary and that ended with nothing to     *)
(* rewrite left over - none skipped, and none that a dry run would have    *)
(* rewritten - leaves no blob that only the old key opens (the runbook's   *)
(* "zero old-key rows" check of cmdRekey).                                 *)
SafeToRetire ==
  \A r \in vouched :
    run[r].at = "done" /\ ~run[r].report.skipped
      /\ (run[r].dry => ~run[r].report.reencrypted)
    => \A i \in Ids : Present(i) => Stale(rows[i]) = {}

(* A rotation of the master key loses no token and ends in a ring that can *)
(* do without the old key.                                                 *)
RekeyInv == RekeyTypeOK /\ NeverClobbered /\ SafeToRetire
=============================================================================
