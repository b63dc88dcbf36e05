------------------------------ MODULE Batcher ------------------------------
(***************************************************************************)
(* The batch accumulator of the integrity plane (ulpf-integrity,           *)
(* batcher.rs): raw logs are collected in memory, and a flush turns them   *)
(* into one immutable block, a Parquet file `block_NNNNN.parquet` whose    *)
(* Merkle root is anchored by a line of the append-only `ledger.jsonl`.    *)
(*                                                                         *)
(* `flush` is one call, but it touches the disk four times (create the     *)
(* file, write and close it, write the JSON of the ledger entry, write its *)
(* newline).  Each of them can fail, and the process can die between any   *)
(* two, so each is an action here.  Nothing but the files survives.        *)
(*                                                                         *)
(* A log is its arrival number; a Merkle root is the free term over the    *)
(* leaves it commits to (RootsInjective in module Integrity_proofs: roots  *)
(* of one size are injective); timestamps, event ids and OCSF text play no *)
(* part in the flush and are left to module Tamper.                        *)
(***************************************************************************)
EXTENDS Integers, Sequences

CONSTANTS
  max_batch_size,      \* BatcherConfig::max_batch_size, the count trigger
  max_batch_duration,  \* BatcherConfig::max_batch_duration_ms, in clock ticks
  MaxLogs,             \* bound: logs pushed in one behaviour
  MaxFaults,           \* bound: crashes and I/O errors in one behaviour
  FaultKinds           \* the faults the environment may inject

ASSUME BatcherAssumption ==
  /\ max_batch_size \in Nat
  /\ max_batch_duration \in Nat
  /\ MaxLogs \in Nat
  /\ MaxFaults \in Nat
  /\ FaultKinds \subseteq {"crash", "parquet", "ledger", "torn"}

VARIABLES
  status,            \* is there a live BatchAccumulator, or did `new` fail
  buffer,            \* BatchAccumulator::buffer
  age,               \* ticks since first_item_time, NoTime for None
  current_block_id,  \* BatchAccumulator::current_block_id
  in_memory_ledger,  \* BatchAccumulator::in_memory_ledger
  step,              \* where in `flush` the thread is
  job,               \* the locals of `flush`: the block being written
  files,             \* the storage directory: block id -> Parquet file
  ledger,            \* ledger.jsonl: its lines, a line being JSON fragments
  terminated,        \* does the last line of ledger.jsonl end in a newline
  arrived,           \* how many logs `push` was given so far
  faults             \* how many faults happened so far

process == <<status, buffer, age, current_block_id, in_memory_ledger, step, job>>
disk    == <<files, ledger, terminated>>
vars    == <<process, disk, arrived, faults>>

NoTime == -1
NoJob  == [block_id |-> 0, logs |-> <<>>]

-----------------------------------------------------------------------------
(* Blocks, ledger entries and what a reader makes of them.                 *)

\* MerkleTree::from_raw_logs(..).root(): a term that names its leaves.
Root(logs) == [leaves |-> logs]

LedgerEntry(b) ==
  [block_id |-> b.block_id, leaf_count |-> Len(b.logs), merkle_root |-> Root(b.logs)]

\* verify_records on the untouched rows of a block: count and root agree.
Verifies(logs, e) == Len(logs) = e.leaf_count /\ Root(logs) = e.merkle_root

\* A Parquet file is readable once its footer is written, by close().
Partial        == [complete |-> FALSE, logs |-> <<>>]
Complete(logs) == [complete |-> TRUE, logs |-> logs]

\* A line parses when it is the JSON of exactly one entry.
Parses(line) == Len(line) = 1 /\ line[1].whole
Readable     == \A k \in DOMAIN ledger : Parses(ledger[k])

\* load_ledger_entries, for a ledger all of whose lines parse.
load_ledger_entries == [k \in DOMAIN ledger |-> ledger[k][1].entry]

\* Every entry whose JSON reached the ledger file whole.
Fragments == UNION {{ledger[k][j] : j \in DOMAIN ledger[k]} : k \in DOMAIN ledger}
Anchors   == {f.entry : f \in {g \in Fragments : g.whole}}

\* O_APPEND: the bytes go after the last byte, on the line that is open there.
AppendFragment(f) ==
  /\ ledger' = IF ledger = <<>> \/ terminated
                 THEN Append(ledger, <<f>>)
                 ELSE [ledger EXCEPT ![Len(ledger)] = Append(@, f)]
  /\ terminated' = FALSE

SetFile(id, f) ==
  files' = [b \in DOMAIN files \cup {id} |-> IF b = id THEN f ELSE files[b]]

-----------------------------------------------------------------------------
(* The accumulator.                                                        *)

Idle == status = "up" /\ step = "idle"

\* Mutant: the count trigger fires one log late.
should_flush_Late(logs, elapsed) ==
  /\ logs # <<>>
  /\ Len(logs) > max_batch_size \/ elapsed >= max_batch_duration

should_flush(logs, elapsed) ==
  /\ logs # <<>>
  /\ Len(logs) >= max_batch_size \/ elapsed >= max_batch_duration

\* Mutant: the buffer is copied, not taken.
BeginFlush_KeepsBuffer(logs) ==
  /\ buffer' = logs
  /\ age' = NoTime
  /\ job' = [block_id |-> current_block_id, logs |-> logs]
  /\ current_block_id' = current_block_id + 1
  /\ step' = "create"

\* The part of `flush` before its first system call: the buffer is taken and
\* the block id is consumed, whatever happens to the block afterwards.
BeginFlush(logs) ==
  /\ buffer' = <<>>
  /\ age' = NoTime
  /\ job' = [block_id |-> current_block_id, logs |-> logs]
  /\ current_block_id' = current_block_id + 1
  /\ step' = "create"

push ==
  LET pending == Append(buffer, arrived + 1)
      elapsed == IF buffer = <<>> THEN 0 ELSE age
  IN /\ Idle
     /\ arrived < MaxLogs
     /\ arrived' = arrived + 1
     /\ IF should_flush(pending, elapsed)
          THEN BeginFlush(pending)
          ELSE /\ buffer' = pending
               /\ age' = elapsed
               /\ UNCHANGED <<current_block_id, step, job>>
     /\ UNCHANGED <<status, in_memory_ledger, disk, faults>>

\* Mutant: the time trigger waits for the count trigger.
check_timeout_NeedsFullBatch ==
  /\ Idle
  /\ Len(buffer) >= max_batch_size
  /\ age >= max_batch_duration
  /\ BeginFlush(buffer)
  /\ UNCHANGED <<status, in_memory_ledger, disk, arrived, faults>>

check_timeout ==
  /\ Idle
  /\ buffer # <<>>
  /\ age >= max_batch_duration
  /\ BeginFlush(buffer)
  /\ UNCHANGED <<status, in_memory_ledger, disk, arrived, faults>>

flush ==
  /\ Idle
  /\ buffer # <<>>
  /\ BeginFlush(buffer)
  /\ UNCHANGED <<status, in_memory_ledger, disk, arrived, faults>>

\* File::create in write_parquet_file truncates whatever has that name.
CreateParquet ==
  /\ step = "create"
  /\ SetFile(job.block_id, Partial)
  /\ step' = "write"
  /\ UNCHANGED <<status, buffer, age, current_block_id, in_memory_ledger, job,
                 ledger, terminated, arrived, faults>>

WriteParquet ==
  /\ step = "write"
  /\ SetFile(job.block_id, Complete(job.logs))
  /\ step' = "append"
  /\ UNCHANGED <<status, buffer, age, current_block_id, in_memory_ledger, job,
                 ledger, terminated, arrived, faults>>

\* `writeln!` on an unbuffered File is two writes; this is the first.
AppendEntry ==
  /\ step = "append"
  /\ AppendFragment([whole |-> TRUE, entry |-> LedgerEntry(job)])
  /\ step' = "newline"
  /\ UNCHANGED <<status, buffer, age, current_block_id, in_memory_ledger, job,
                 files, arrived, faults>>

\* The second write, and the rest of `flush`: the in-memory ledger.
FinishFlush ==
  /\ step = "newline"
  /\ terminated' = TRUE
  /\ in_memory_ledger' = Append(in_memory_ledger, LedgerEntry(job))
  /\ step' = "idle"
  /\ job' = NoJob
  /\ UNCHANGED <<status, buffer, age, current_block_id, files, ledger, arrived, faults>>

\* Time passes; only the age of a non-empty buffer matters to the code.
Tick ==
  /\ status = "up"
  /\ age # NoTime
  /\ age < max_batch_duration
  /\ age' = age + 1
  /\ UNCHANGED <<status, buffer, current_block_id, in_memory_ledger, step, job,
                 disk, arrived, faults>>

-----------------------------------------------------------------------------
(* Failures.  `flush` returns Err: the batch it took is dropped, its block *)
(* id stays consumed, and the accumulator can be used again.               *)

Fault(kind) ==
  /\ kind \in FaultKinds
  /\ faults < MaxFaults
  /\ faults' = faults + 1

FlushFails ==
  /\ step' = "idle"
  /\ job' = NoJob
  /\ UNCHANGED <<status, buffer, age, current_block_id, in_memory_ledger, arrived>>

\* Mutant: the result of the Parquet writer is ignored.
ParquetError_Ignored ==
  /\ step \in {"create", "write"}
  /\ Fault("parquet")
  /\ step' = "append"
  /\ UNCHANGED <<status, buffer, age, current_block_id, in_memory_ledger, job, disk, arrived>>

\* write_records_to_parquet returns Err before or after the file was created.
ParquetError ==
  /\ step \in {"create", "write"}
  /\ Fault("parquet")
  /\ FlushFails
  /\ UNCHANGED disk

\* Opening the ledger, or writing the newline, fails.
LedgerError ==
  /\ step \in {"append", "newline"}
  /\ Fault("ledger")
  /\ FlushFails
  /\ UNCHANGED disk

\* The JSON of the entry is written in part (a full disk, a kill).
TornAppend ==
  /\ step = "append"
  /\ Fault("torn")
  /\ AppendFragment([whole |-> FALSE, entry |-> LedgerEntry(job)])
  /\ FlushFails
  /\ UNCHANGED files

\* The process dies: everything but the disk is gone.
Crash ==
  /\ status = "up"
  /\ Fault("crash")
  /\ status' = "down"
  /\ buffer' = <<>>
  /\ age' = NoTime
  /\ current_block_id' = 0
  /\ in_memory_ledger' = <<>>
  /\ step' = "idle"
  /\ job' = NoJob
  /\ UNCHANGED <<disk, arrived>>

\* Mutant: a restart reuses the last id.
new_ReusesLastId ==
  /\ status \in {"down", "refused"}
  /\ status' = IF Readable THEN "up" ELSE "refused"
  /\ in_memory_ledger' = IF Readable THEN load_ledger_entries ELSE <<>>
  /\ current_block_id' = IF Readable /\ ledger # <<>> THEN load_ledger_entries[Len(ledger)].block_id ELSE 0
  /\ UNCHANGED <<buffer, age, step, job, disk, arrived, faults>>

\* BatchAccumulator::new on the directory the previous process left behind.
new ==
  /\ status \in {"down", "refused"}
  /\ IF Readable
       THEN /\ status' = "up"
            /\ in_memory_ledger' = load_ledger_entries
            /\ current_block_id' =
                 IF ledger = <<>> THEN 0
                 ELSE load_ledger_entries[Len(ledger)].block_id + 1
       ELSE /\ status' = "refused"
            /\ UNCHANGED <<in_memory_ledger, current_block_id>>
  /\ UNCHANGED <<buffer, age, step, job, disk, arrived, faults>>

-----------------------------------------------------------------------------

Init ==
  /\ status = "up"
  /\ buffer = <<>>
  /\ age = NoTime
  /\ current_block_id = 0
  /\ in_memory_ledger = <<>>
  /\ step = "idle"
  /\ job = NoJob
  /\ files = [b \in {} |-> Partial]
  /\ ledger = <<>>
  /\ terminated = TRUE
  /\ arrived = 0
  /\ faults = 0

FlushStep == CreateParquet \/ WriteParquet \/ AppendEntry \/ FinishFlush
Failure   == ParquetError \/ LedgerError \/ TornAppend \/ Crash

Next ==
  \/ push
  \/ check_timeout
  \/ flush
  \/ FlushStep
  \/ Tick
  \/ Failure
  \/ new

Spec == Init /\ [][Next]_vars

\* A thread inside `flush` keeps running and the clock keeps ticking;
\* whoever owns the accumulator keeps calling `check_timeout`.
Fairness == WF_vars(FlushStep) /\ WF_vars(Tick) /\ WF_vars(check_timeout)

FairSpec == Spec /\ Fairness

-----------------------------------------------------------------------------
(* Properties.                                                             *)

Log   == Nat \ {0}
Entry == [block_id : Nat, leaf_count : Nat, merkle_root : [leaves : Seq(Log)]]

\* The variables hold values of their Rust types.
TypeOK ==
  /\ status \in {"up", "down", "refused"}
  /\ buffer \in Seq(Log)
  /\ age \in Nat \cup {NoTime}
  /\ current_block_id \in Nat
  /\ in_memory_ledger \in Seq(Entry)
  /\ step \in {"idle", "create", "write", "append", "newline"}
  /\ job \in [block_id : Nat, logs : Seq(Log)]
  /\ DOMAIN files \subseteq Nat
  /\ files \in [DOMAIN files -> [complete : BOOLEAN, logs : Seq(Log)]]
  /\ ledger \in Seq(Seq([whole : BOOLEAN, entry : Entry]))
  /\ terminated \in BOOLEAN
  /\ arrived \in Nat
  /\ faults \in Nat

\* Whatever failed and whenever the process died: a block that the ledger
\* anchors is on disk, complete, and passes verification.
Anchored ==
  \A e \in Anchors :
    /\ e.block_id \in DOMAIN files
    /\ files[e.block_id].complete
    /\ Verifies(files[e.block_id].logs, e)

\* The ledger never anchors a log twice, and anchors logs in the order in which
\* `push` received them: a block with a larger id holds only later logs.
ArrivalOrder ==
  \A e, f \in Anchors :
    e.block_id < f.block_id =>
      \A i \in DOMAIN files[e.block_id].logs, j \in DOMAIN files[f.block_id].logs :
        files[e.block_id].logs[i] < files[f.block_id].logs[j]

\* The order of lines in ledger.jsonl is the order of block ids, which is what
\* lets `new` continue after the last line.
LedgerOrdered ==
  \A k, m \in DOMAIN ledger :
    k < m => \A i \in DOMAIN ledger[k], j \in DOMAIN ledger[m] :
               ledger[k][i].entry.block_id < ledger[m][j].entry.block_id

\* No step changes the file of a block that the ledger anchors, and no entry
\* ever leaves the ledger, across crashes, failed flushes and restarts.
SealedForever ==
  [][/\ Anchors \subseteq Anchors'
     /\ \A e \in Anchors : /\ e.block_id \in DOMAIN files'
                           /\ files'[e.block_id] = files[e.block_id]]_vars

\* No block id is handed out twice by one process, nor for a block that an
\* earlier process anchored.
FreshIds ==
  status = "up" =>
    \A e \in Anchors :
      /\ e.block_id < current_block_id
      /\ step \in {"create", "write", "append"} => e.block_id < job.block_id

Blocks    == {files[e.block_id].logs : e \in Anchors}
LogsOf(s) == {s[i] : i \in DOMAIN s}

\* The blocks the ledger anchors, with the content of their files, are the
\* append-only log of module AnchorLog, across every failure and restart.
Sealed    == {[block_id |-> e.block_id, logs |-> files[e.block_id].logs] : e \in Anchors}
AnchorLog == INSTANCE AnchorLog WITH sealed <- Sealed
ImplementsAnchorLog == AnchorLog!Spec

\* Every log that was pushed is anchored in the end, if `check_timeout` is
\* called over and over and nothing fails.
EventuallyAnchored ==
  \A n \in 1..MaxLogs :
    (arrived >= n) ~> (faults > 0 \/ \E s \in Blocks : n \in LogsOf(s))

-----------------------------------------------------------------------------
(* The inductive invariant behind the safety properties.                   *)

\* The block in flight: it has logs, its id was consumed, and once the Parquet
\* writer returned, its file holds exactly its logs.
JobOK ==
  /\ status # "up" => step = "idle" /\ buffer = <<>>
  /\ step # "idle" => job.logs # <<>> /\ job.block_id < current_block_id
  /\ step = "append" => /\ job.block_id \in DOMAIN files
                        /\ files[job.block_id] = Complete(job.logs)

\* FreshIds, for every fragment of the ledger, torn ones included.
FragmentIds ==
  \A f \in Fragments :
    /\ status = "up" => f.entry.block_id < current_block_id
    /\ step \in {"create", "write", "append"} => f.entry.block_id < job.block_id

Precede(s, t)     == \A i \in DOMAIN s, j \in DOMAIN t : s[i] < t[j]
Arrived(s)        == \A i \in DOMAIN s : s[i] <= arrived
AnchoredBefore(t) == \A e \in Anchors : Precede(files[e.block_id].logs, t)

\* Anchored blocks, then the block in flight, then the buffer: each holds logs
\* that arrived after all logs of the ones before it.
LogOrder ==
  /\ \A e \in Anchors : Arrived(files[e.block_id].logs)
  /\ Arrived(job.logs)
  /\ Arrived(buffer)
  /\ step \in {"create", "write", "append"} => AnchoredBefore(job.logs)
  /\ AnchoredBefore(buffer)
  /\ Precede(job.logs, buffer)
  /\ AnchorLog!Ascending(buffer)
  /\ AnchorLog!Ascending(job.logs)

\* The inductive invariant: what `flush` owes between two of its system calls.
IInv ==
  /\ TypeOK
  /\ Anchored
  /\ ArrivalOrder
  /\ LedgerOrdered
  /\ JobOK
  /\ FragmentIds
  /\ LogOrder

-----------------------------------------------------------------------------
(* What the documentation says of the batcher.                             *)

\* batcher.rs:120 "If an existing ledger is found, initializes the
\* `current_block_id` to continue from the last block": a restart always
\* gets an accumulator.
RestartContinues == status # "refused"
=============================================================================
