------------------------------- MODULE Tamper -------------------------------
(***************************************************************************)
(* The forensic auditor (tamper.rs) and the block files it reads           *)
(* (storage.rs).  A block is written by a flush; afterwards its Parquet    *)
(* file is edited any number of times, by the CLI's own `tamper` command   *)
(* or by other means, and the auditor must tell an edited file from the    *)
(* one that was anchored.                                                  *)
(*                                                                         *)
(* Digests and Merkle roots are those of module Merkle.  `vendor`,         *)
(* `timestamp`, `event_id` and `ocsf_json` are one column, `meta`: the     *)
(* auditor treats them alike.                                              *)
(***************************************************************************)
EXTENDS Merkle, SequencesExt

CONSTANTS
  Metas,      \* values of the columns that are not the raw log
  MaxRows,    \* bound: rows of a block as it was flushed
  MaxEdits    \* bound: edits of the file

ASSUME TamperAssumption ==
  MaxRows \in Nat \ {0} /\ MaxEdits \in Nat /\ Metas # {} /\ RawLogs # {}

VARIABLES
  file,      \* the rows of block_00000.parquet as they are now
  written,   \* the rows of blocks 0 and 1 as they were flushed
  edits,     \* how many edits were made
  cliOnly    \* were all edits made by the `tamper` command

vars == <<file, written, edits, cliOnly>>

Digest(raw) == Sha256(raw)

\* The columns of one row, by name.
Column(rows, name) == [i \in DOMAIN rows |-> rows[i][name]]

\* The rows of a block as `flush` builds them and the Arrow schema stores them.
StoredRow(b, i, raw, m) ==
  [block_id |-> b, leaf_index |-> i - 1, raw_log |-> raw, raw_hash |-> Digest(raw), meta |-> m]

FlushedRows(b, logs, m) == [i \in DOMAIN logs |-> StoredRow(b, i, logs[i], m)]

\* The ledger.jsonl of the two blocks.
LedgerEntry(b) ==
  [block_id    |-> b,
   leaf_count  |-> Len(written[b]),
   merkle_root |-> from_raw_logs(Column(written[b], "raw_log"))]

ledger == <<LedgerEntry(0), LedgerEntry(1)>>

-----------------------------------------------------------------------------
(* The auditor.                                                            *)

Anomaly(i, why) == [leaf_index |-> i, reason |-> why]

CountAnomalies(rows, e) ==
  IF Len(rows) # e.leaf_count THEN <<Anomaly(Len(rows), "CountDiscrepancy")>> ELSE <<>>

\* Mutants: the digest is not checked; rows are reported by position from 1.
RowAnomalies_NoDigest(rows, i) ==
  IF rows[i].leaf_index # i - 1 THEN <<Anomaly(rows[i].leaf_index, "IndexMismatch")>> ELSE <<>>

RowAnomalies_OneBased(rows, i) ==
  LET r == rows[i]
  IN (IF r.leaf_index # i - 1 THEN <<Anomaly(i, "IndexMismatch")>> ELSE <<>>)
     \o (IF r.raw_hash # Digest(r.raw_log) THEN <<Anomaly(i, "DigestMismatch")>> ELSE <<>>)

\* Row i (1-based): its position is checked, then its digest.
RowAnomalies(rows, i) ==
  LET r == rows[i]
  IN (IF r.leaf_index # i - 1 THEN <<Anomaly(r.leaf_index, "IndexMismatch")>> ELSE <<>>)
     \o (IF r.raw_hash # Digest(r.raw_log) THEN <<Anomaly(r.leaf_index, "DigestMismatch")>> ELSE <<>>)

\* verify_records: the report's verdict and its tampered_records.
verify_records(rows, e) ==
  LET perRow  == FlattenSeq([i \in DOMAIN rows |-> RowAnomalies(rows, i)])
      found   == CountAnomalies(rows, e) \o perRow
      matches == from_raw_logs(Column(rows, "raw_log")) = e.merkle_root
      all     == IF ~matches /\ found = <<>> THEN <<Anomaly(0, "MerkleRootMismatch")>> ELSE found
  IN [is_valid |-> matches /\ all = <<>>, tampered_records |-> all]

\* verify_block_with_ledger on block_<name>.parquet: the block id is that of the
\* first row, or the file's name if there is none; Err if the ledger has no such
\* block, which `run_verify` reports as an alarm too.
verify_block_with_ledger(rows, name) ==
  LET id    == IF rows = <<>> THEN name ELSE rows[1].block_id
      found == {e \in Range(ledger) : e.block_id = id}
  IN IF found = {} THEN [is_valid |-> FALSE, tampered_records |-> <<>>]
     ELSE verify_records(rows, CHOOSE e \in found : TRUE)

\* `run_verify` prints [PASS].
Passes == verify_block_with_ledger(file, 0).is_valid

-----------------------------------------------------------------------------
(* Edits of the file.                                                      *)

Edit(rows, byCli) ==
  /\ edits < MaxEdits
  /\ edits' = edits + 1
  /\ file' = rows
  /\ cliOnly' = (cliOnly /\ byCli)
  /\ UNCHANGED written

\* `ulpf tamper --leaf i`: the raw log changes, its stored digest does not.
run_tamper(i, raw) ==
  /\ i \in DOMAIN file
  /\ Edit([file EXCEPT ![i].raw_log = raw], TRUE)

AlterLogAndDigest(i, raw) ==
  /\ i \in DOMAIN file
  /\ Edit([file EXCEPT ![i].raw_log = raw, ![i].raw_hash = Digest(raw)], FALSE)

AlterMeta(i, m) ==
  /\ i \in DOMAIN file
  /\ Edit([file EXCEPT ![i].meta = m], FALSE)

DeleteRow(i) ==
  /\ i \in DOMAIN file
  /\ Edit(RemoveAt(file, i), FALSE)

InjectRow(i, raw, m) ==
  /\ i \in 1..(Len(file) + 1)
  /\ Edit(InsertAt(file, i, StoredRow(0, i, raw, m)), FALSE)

SwapRows(i, j) ==
  /\ i \in DOMAIN file /\ j \in DOMAIN file /\ i < j
  /\ Edit([file EXCEPT ![i] = file[j], ![j] = file[i]], FALSE)

\* The rows are renumbered from 0.
Renumber == Edit([i \in DOMAIN file |-> [file[i] EXCEPT !.leaf_index = i - 1]], FALSE)

\* The file is replaced by that of the other block.
Replace == Edit(written[1], FALSE)

Logs(n) == UNION {[1..k -> RawLogs] : k \in 1..n}

Init ==
  /\ \E logs0 \in Logs(MaxRows), logs1 \in Logs(1), m \in Metas :
       written = [b \in {0, 1} |-> FlushedRows(b, IF b = 0 THEN logs0 ELSE logs1, m)]
  /\ file = written[0]
  /\ edits = 0
  /\ cliOnly = TRUE

Next ==
  \/ \E i \in 1..(MaxRows + MaxEdits), raw \in RawLogs :
       \/ run_tamper(i, raw)
       \/ AlterLogAndDigest(i, raw)
       \/ \E m \in Metas : InjectRow(i, raw, m)
  \/ \E i \in 1..(MaxRows + MaxEdits) :
       \/ DeleteRow(i)
       \/ \E m \in Metas : AlterMeta(i, m)
       \/ \E j \in 1..(MaxRows + MaxEdits) : SwapRows(i, j)
  \/ Renumber
  \/ Replace

Spec == Init /\ [][Next]_vars

-----------------------------------------------------------------------------
(* Properties.                                                             *)

\* The columns the auditor vouches for.
Evidence(rows) ==
  [i \in DOMAIN rows |-> <<rows[i].leaf_index, rows[i].raw_log, rows[i].raw_hash>>]

\* After any sequence of edits (deleting, injecting, swapping, renumbering,
\* altering a log with or without its digest): the audit of a block against its
\* ledger entry passes exactly when the raw logs, their order and their digests
\* are those that were flushed.  When the audit looks the entry up by itself, [PASS]
\* means that they are those of one of the anchored blocks, under its own id.
AuditIsExact ==
  /\ verify_records(file, LedgerEntry(0)).is_valid <=> Evidence(file) = Evidence(written[0])
  /\ Passes => \E b \in {0, 1} : Evidence(file) = Evidence(written[b]) /\ file[1].block_id = b

\* Edits of the `tamper` command, however many and also when one undoes another,
\* are isolated to exactly the rows whose raw log differs from what was flushed.
CliTamperIsolated ==
  cliOnly =>
    {a.leaf_index : a \in Range(verify_records(file, LedgerEntry(0)).tampered_records)}
      = {i - 1 : i \in {k \in DOMAIN file : file[k].raw_log # written[0][k].raw_log}}

=============================================================================
