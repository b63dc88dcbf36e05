------------------------------- MODULE Ingest -------------------------------
(***************************************************************************)
(* `ulpf ingest` (ulpf-cli, main.rs, run_ingest): one task per source (the *)
(* UDP socket, each TCP connection) reads lines and sends them over one    *)
(* bounded channel to the main loop, which parses each and pushes it into  *)
(* the batch accumulator.  The accumulator and its disk are those of       *)
(* module Batcher; here is who calls it, and when.                         *)
(*                                                                         *)
(* The main loop calls `push` and nothing else.  An error of `push` leaves *)
(* the loop: the receiver is dropped with what is on the channel, readers  *)
(* end at their next send, and the process exits.  Parsing, clustering and *)
(* serialising a line are local to the main loop and total                 *)
(* (parse_lossless), so that they are part of the step that takes the line *)
(* off the channel.  Sources are served while the accumulator is open.     *)
(***************************************************************************)
EXTENDS Integers, Sequences, FiniteSets

CONSTANTS
  max_batch_size, max_batch_duration, MaxLogs, MaxFaults, FaultKinds,  \* Batcher
  Sources,          \* the reader tasks
  ChannelCapacity,  \* mpsc::channel(50_000)
  MaxLines          \* bound: lines of one datagram or read

ASSUME IngestAssumption ==
  /\ IsFiniteSet(Sources)
  /\ max_batch_size \in Nat /\ max_batch_duration \in Nat
  /\ MaxLogs \in Nat /\ MaxFaults \in Nat
  /\ FaultKinds \subseteq {"crash", "parquet", "ledger", "torn"}
  /\ ChannelCapacity \in Nat \ {0} /\ MaxLines \in Nat

VARIABLES
  status, buffer, age, current_block_id, in_memory_ledger, step, job,
  files, ledger, terminated, arrived, faults,     \* Batcher
  unread,          \* lines of the datagram or stream a reader still has to send
  holding,         \* is the reader waiting to send a line it has counted
  ended,           \* the readers whose send failed, and whose task returned
  sent,            \* history: lines each source has put on the channel
  channel,         \* the mpsc channel, oldest line first
  main,            \* is the main loop running, or returning an error, or has it
                   \* returned and dropped the receiver
  total_ingested,  \* the counter the readers share
  total_blocks,    \* the counter of the main loop
  delivered,       \* history: delivered[n] is the line `push` received as log n
  base             \* history: `arrived` when this process started

batcherVars == <<status, buffer, age, current_block_id, in_memory_ledger, step, job,
                 files, ledger, terminated, arrived, faults>>
readers     == <<unread, holding, ended, sent, total_ingested>>
vars        == <<batcherVars, readers, channel, main, total_blocks, delivered, base>>

B == INSTANCE Batcher

Line(s, n) == [source |-> s, number |-> n]

-----------------------------------------------------------------------------
(* The reader tasks.                                                       *)

\* A datagram, or bytes of a stream, with k lines that are not blank; none if
\* the bytes are not UTF-8.
ReadLines(s, k) ==
  /\ status = "up"
  /\ unread[s] = 0 /\ ~holding[s] /\ s \notin ended
  /\ unread' = [unread EXCEPT ![s] = k]
  /\ UNCHANGED <<batcherVars, holding, ended, sent, total_ingested, channel, main, total_blocks,
                 delivered, base>>

\* The next line is counted, before it is sent.
CountLine(s) ==
  /\ status = "up"
  /\ unread[s] > 0 /\ ~holding[s]
  /\ unread' = [unread EXCEPT ![s] = @ - 1]
  /\ holding' = [holding EXCEPT ![s] = TRUE]
  /\ total_ingested' = total_ingested + 1
  /\ UNCHANGED <<batcherVars, ended, sent, channel, main, total_blocks, delivered, base>>

\* Mutant: a line is dropped when the channel is full.
SendLine_TrySend(s) ==
  /\ status = "up"
  /\ holding[s]
  /\ main # "returned"
  /\ channel' = IF Len(channel) < ChannelCapacity
                   THEN Append(channel, Line(s, sent[s] + 1)) ELSE channel
  /\ sent' = [sent EXCEPT ![s] = @ + 1]
  /\ holding' = [holding EXCEPT ![s] = FALSE]
  /\ UNCHANGED <<batcherVars, unread, ended, total_ingested, main, total_blocks, delivered, base>>

\* send(..).await completes when the channel has room, while there is a receiver.
SendLine(s) ==
  /\ status = "up"
  /\ holding[s]
  /\ main # "returned"
  /\ Len(channel) < ChannelCapacity
  /\ channel' = Append(channel, Line(s, sent[s] + 1))
  /\ sent' = [sent EXCEPT ![s] = @ + 1]
  /\ holding' = [holding EXCEPT ![s] = FALSE]
  /\ UNCHANGED <<batcherVars, unread, ended, total_ingested, main, total_blocks, delivered, base>>

\* send(..).await fails when the receiver is gone: the line is lost, and the task
\* returns with what it has not looked at.
SendError(s) ==
  /\ status = "up"
  /\ holding[s]
  /\ main = "returned"
  /\ holding' = [holding EXCEPT ![s] = FALSE]
  /\ unread' = [unread EXCEPT ![s] = 0]
  /\ ended' = ended \cup {s}
  /\ UNCHANGED <<batcherVars, sent, total_ingested, channel, main, total_blocks, delivered, base>>

-----------------------------------------------------------------------------
(* The main loop.                                                          *)

\* Mutant: the newest line is taken first.
RecvLine_NewestFirst ==
  /\ main = "running"
  /\ channel # <<>>
  /\ B!push
  /\ channel' = SubSeq(channel, 1, Len(channel) - 1)
  /\ delivered' = Append(delivered, channel[Len(channel)])
  /\ UNCHANGED <<readers, main, total_blocks, base>>

RecvLine ==
  /\ main = "running"
  /\ channel # <<>>
  /\ B!push
  /\ channel' = Tail(channel)
  /\ delivered' = Append(delivered, Head(channel))
  /\ UNCHANGED <<readers, main, total_blocks, base>>

\* The steps of a flush, inside `push`.
FlushStep ==
  /\ main = "running"
  /\ B!CreateParquet \/ B!WriteParquet \/ B!AppendEntry
  /\ UNCHANGED <<readers, channel, main, total_blocks, delivered, base>>

\* `push` returns Some(flush_res).
FlushDone ==
  /\ main = "running"
  /\ B!FinishFlush
  /\ total_blocks' = total_blocks + 1
  /\ UNCHANGED <<readers, channel, main, delivered, base>>

\* `push` returns Err, and `?` leaves the loop.
FlushError ==
  /\ main = "running"
  /\ B!ParquetError \/ B!LedgerError \/ B!TornAppend
  /\ main' = "returning"
  /\ UNCHANGED <<readers, channel, total_blocks, delivered, base>>

\* run_ingest returns: raw_rx is dropped, and with it the lines on the channel.
DropReceiver ==
  /\ main = "returning"
  /\ main' = "returned"
  /\ channel' = <<>>
  /\ UNCHANGED <<batcherVars, readers, total_blocks, delivered, base>>

Tick ==
  /\ B!Tick
  /\ UNCHANGED <<readers, channel, main, total_blocks, delivered, base>>

-----------------------------------------------------------------------------
(* The end of the process, by a signal or because run_ingest returned, and *)
(* the next start.                                                         *)

Exit ==
  /\ B!Crash
  /\ unread' = [s \in Sources |-> 0]
  /\ holding' = [s \in Sources |-> FALSE]
  /\ ended' = {}
  /\ channel' = <<>>
  /\ main' = "running"
  /\ total_ingested' = 0
  /\ total_blocks' = 0
  /\ base' = arrived
  /\ UNCHANGED <<sent, delivered>>

Start ==
  /\ B!new
  /\ UNCHANGED <<readers, channel, main, total_blocks, delivered, base>>

Init ==
  /\ B!Init
  /\ unread = [s \in Sources |-> 0]
  /\ holding = [s \in Sources |-> FALSE]
  /\ ended = {}
  /\ sent = [s \in Sources |-> 0]
  /\ channel = <<>>
  /\ main = "running"
  /\ total_ingested = 0
  /\ total_blocks = 0
  /\ delivered = <<>>
  /\ base = 0

\* The environment stops sending after MaxLogs lines.
Room == Cardinality({s \in Sources : holding[s]}) + Len(channel) + arrived < MaxLogs

Next ==
  \/ \E s \in Sources : \/ \E k \in 0..MaxLines : ReadLines(s, k)
                        \/ Room /\ CountLine(s)
                        \/ SendLine(s)
                        \/ SendError(s)
  \/ RecvLine
  \/ FlushStep
  \/ FlushDone
  \/ FlushError
  \/ DropReceiver
  \/ Tick
  \/ Exit
  \/ Start

Spec == Init /\ [][Next]_vars

\* The runtime polls every task that can proceed, and the clock ticks.  A reader
\* counts the next line of what it has read at once, and sends it when there is room;
\* whether more is ever read is up to the sources.
Fairness ==
  /\ \A s \in Sources : WF_vars(Room /\ CountLine(s)) /\ SF_vars(SendLine(s))
  /\ WF_vars(RecvLine)
  /\ WF_vars(FlushStep \/ FlushDone)
  /\ WF_vars(Tick)

FairSpec == Spec /\ Fairness

-----------------------------------------------------------------------------
(* Properties.                                                             *)

\* The variables hold values of their Rust types, and the channel is bounded.
TypeOK ==
  /\ B!TypeOK
  /\ unread \in [Sources -> Nat]
  /\ holding \in [Sources -> BOOLEAN]
  /\ sent \in [Sources -> Nat]
  /\ channel \in Seq([source : Sources, number : Nat \ {0}])
  /\ Len(channel) <= ChannelCapacity
  /\ ended \subseteq Sources
  /\ main \in {"running", "returning", "returned"}
  /\ total_ingested \in Nat /\ total_blocks \in Nat
  /\ delivered \in Seq([source : Sources, number : Nat \ {0}])
  /\ base \in Nat

\* However the sources interleave, and across errors, kills and restarts: lines
\* of one source lie on disk in the order in which the source sent them, block
\* after block and within a block, and none is anchored twice.
SourceOrder ==
  \A e, f \in B!Anchors :
    \A i \in DOMAIN files[e.block_id].logs, j \in DOMAIN files[f.block_id].logs :
      LET x == delivered[files[e.block_id].logs[i]]
          y == delivered[files[f.block_id].logs[j]]
      IN x.source = y.source /\ (e.block_id < f.block_id \/ (e = f /\ i < j))
           => x.number < y.number

\* As long as there is a receiver no line that was counted is dropped: each was
\* pushed, is on the channel, or is held by a reader that waits for room.
NothingDropped ==
  status = "up" /\ main # "returned" =>
    total_ingested = (arrived - base) + Len(channel)
                       + Cardinality({s \in Sources : holding[s]})

\* The count trigger: a line is anchored once the readers have seen enough lines
\* to complete its batch, although the channel may be full and the main loop may
\* be inside a flush, unless something fails.
FullBatchAnchored ==
  \A n \in 1..MaxLogs :
    (total_ingested >= n + max_batch_size - 1)
      ~> (faults > 0 \/ \E s \in B!Blocks : n \in B!LogsOf(s))

-----------------------------------------------------------------------------
(* What the documentation says of ingestion.                               *)

\* docs/ARCHITECTURE.md:77 "Chunks flush when Record Count >= 1,000 or
\* dt >= 2.0s, eliminating low-traffic stalls": every line that was pushed is
\* anchored in the end, also if no other follows.
TimeTriggerFires == B!EventuallyAnchored
=============================================================================
