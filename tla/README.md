# A verification of the Unified Log Parsing Framework

The repository is a log platform in five Rust crates. Raw firewall logs come in
over UDP and TCP, are classified, parsed and normalised to OCSF events, are
clustered into templates, and end up in *blocks*: immutable Parquet files whose
Merkle roots are anchored in an append-only ledger, against which files can be
audited later. These modules model what the platform keeps, who changes it and
when, check it with TLC on small instances, and prove the central facts for all
values of the constants.

Paths are relative to `src/` of the repository.

## 1. Inventory

### 1.1 Components, their state and operations

| component (source) | state | operations | what makes it correct |
|---|---|---|---|
| batch accumulator and ledger (`crates/ulpf-integrity/src/batcher.rs`) | buffer, time of its first log, next block id, in-memory ledger; on disk: block files and `ledger.jsonl` | `push`, `check_timeout`, `flush`, `new` (restart) | what the ledger anchors is on disk, verifies, and stays so; blocks hold logs in arrival order; ids are never reused; nothing waits for ever |
| Merkle tree (`merkle.rs`) | none (pure) | root, inclusion proof, consistency proof, their verifiers | roots are the RFC 6962 roots; honest proofs verify; forged ones do not |
| Parquet storage (`storage.rs`) | files | create (truncates), write, close, read | a file is readable only when closed |
| forensic auditor (`tamper.rs`) and `verify`/`tamper` of the CLI | none; reads file and ledger | `verify_records`, `verify_block_with_ledger`, `run_verify`, `run_tamper` | an edited block fails, an unedited one passes, altered rows are named |
| template miner (`crates/ulpf-ai/src/drain.rs`) | prefix tree, clusters with templates and counts, next cluster id | `add_log` | templates cover their logs, opposite verdicts never share a cluster, a log that comes again is recognised (with two exceptions, `FoundAgain`), a surge is reported once |
| signature cache (`crates/ulpf-core/src/parser/lru_cache.rs`) | shards (map + queue) under locks, three counters | `get`, `insert` | map and queue agree, bounded |
| classifier (`parser/classifier.rs`), signature (`lru_cache.rs`), decision engine (`crates/ulpf-ai/src/laya.rs`) | none (pure tables) | `classify`, `compute_signature_hash`, `classify_vendor` | used together they must not contradict each other |
| parser (`parser/mod.rs`) | none but its cache | `parse`, `parse_lossless`, `parse_with_format`, `parse_cached`, `parse_cached_lossless` | an event for every log; the cache saves the classification and changes nothing else |
| vendor extractors (`parser/extractors/*.rs`), OCSF schema (`schema/ocsf.rs`) | none (pure) | `extract` of six formats | what a device wrote is what the event reports: vendor, verdict, both endpoints |
| tiered pipeline (`crates/ulpf-ai/src/pipeline.rs`) | counters, the ring to the triage worker, registry | `process`, by many threads; the worker | the tiers change nothing about an event; every call counts once; one exemplar per cluster |
| ingestion (`crates/ulpf-cli/src/main.rs`, `run_ingest`) | reader tasks, one channel, counters | read, send, receive + `push` | lines are not dropped, keep the order of their source, and reach the disk |
| syslog listeners (`crates/ulpf-core/src/ingest/socket.rs`) | batches, two clocks, channels | `run_raw`, `run_parsed`, the TCP task | lines are delivered once and in order; short batches after a timeout (UDP, once datagrams stop coming) or at the end of the stream (TCP) |
| parser onboarding (`crates/ulpf-ai/src/onboarder.rs`, `run_onboard`) | exported JSON and YAML files, registry | generate, validate, export, load, register | a registered parser extracts from all its samples; both files say the same |
| evaluator (`crates/ulpf-ai/src/evaluator.rs`) | tallies of each worker, shared totals, a stop flag | warm up, work, stop, join, report, sample | the report agrees with the calls that were made, and is made |
| traffic generator (`crates/ulpf-generator`) | per worker: schedule, batch, counts, connection; a stop flag; figures | send in batches at a rate, reconnect, report, stop | logs are sent in turn and once; the rate is kept; the figures account for every log; a run ends |
| other reports of the CLI, scripts | none | audit, benchmark, evaluate, inspect | *not modelled* |

### 1.2 How they interact

    sources --UDP/TCP--> reader tasks --mpsc(50 000)--> main loop of run_ingest
                                                          |  parse_lossless, add_log
                                                          v
                                  BatchAccumulator::push --flush--> block_NNNNN.parquet
                                                          \-------> ledger.jsonl
    ulpf verify / tamper  <--------- block file + ledger ---------/

    threads --process--> signature cache --miss--> miner (mutex) --new cluster--> ring
                 ^             ^------ promotion ------/                            |
                 |                                                          triage worker
              parse_with_format                                            (laya, onboarder)

    network --> UDP run_raw --mpsc(100)--> run_parsed --\
                TCP connection tasks ---------------------> channel of the embedding program

    ulpf onboard --> JSON file, YAML file --> DynamicParserRegistry of another process

    evaluator: main thread and workers --process--> the pipeline, as above
    generator: workers --UDP or TCP--> the readers of an ingestion, or any target

The accumulator has one owner (`&mut self`), the cache is shared by threads under
one lock per shard, the miner is behind one mutex, and everything else talks
over bounded channels. Nothing but files survives a process.

### 1.3 What is hard

* *Crashes and partial failure.* A flush is four effects on disk; it takes the
  buffer and consumes the block id before the first one, and an error or a kill
  may come between any two (`Batcher`, `Ingest`). Onboarding writes two files
  one after the other (`Onboarder`).
* *Interleaving.* Lookup, clustering and promotion are three critical sections
  (`Pipeline`), lookup and insertion two (`CachedParser`); readers count a line
  before they send it (`Ingest`); workers tell their tallies in batches, and some
  never come to it (`Evaluator`).
* *Bounded channels.* Readers wait (`Ingest`, `Sockets`) or drop (`Pipeline`); a
  target that stops reading holds a sender inside `write_all` (`Generator`).
* *Text.* Fields are found by counting separators, which a header, a quote, a comma
  in a value or another version of IP displaces (`Extractors`).
* *Time.* A trigger that fires only inside a call (`Batcher`, `Ingest`), a sleep
  that restarts at every turn of a loop next to a clock that does not
  (`Sockets`), a schedule that is looked at between batches only (`Generator`).
* *Histories.* A template generalises while logs keep being compared with it
  (`Drain`); edits of a file may hide each other (`Tamper`).
* *Boundaries.* The split point of the Merkle tree, a full tree node, a full or
  zero-capacity shard, a threshold that is crossed once.

`PROJECT.json` lists each of these under "hazards", at its line, with the
properties that watch it, or with the reason why none does.

## 2. Modules and code

| module | models | uses |
|---|---|---|
| `AnchorLog` | abstract: an append-only log of blocks | |
| `Batcher` | the accumulator, a flush system call by system call, restart, faults | implements `AnchorLog` |
| `Ingest` | `run_ingest`: reader tasks, channel, main loop, exit and restart | `Batcher` (every step of it is one of the accumulator, by construction) |
| `Merkle` | tree hash, proofs and verifiers, as operators | |
| `Histories` | two growing logs, for which the proofs are made and verified | `Merkle` |
| `Tamper` | block files, their edits, the auditor | `Merkle` |
| `Drain` | the template miner | |
| `LruCache` | the signature cache under its most general client | |
| `Classifier` | pattern table, heuristics, fingerprint, vendor scores | |
| `Extractors` | the six vendor extractors and the event they fill | |
| `Parser` | `parse`, `parse_with_format`, `parse_lossless` on a collection of logs | `Classifier`, `Extractors` |
| `CachedParser` | `parse_cached_lossless` by any number of threads | `Parser`; implements `LruCache` |
| `Pipeline` | `TieredPipeline::process`, the ring, the worker | `Parser`, `LruCache` |
| `Evaluator` | the benchmark: the threads that call the pipeline | `Pipeline` |
| `Sockets` | the UDP and TCP listeners of `ulpf-core` | |
| `Onboarder` | synthesis, validation, export, load | |
| `Generator` | the tasks of the traffic generator and its target | |
| `Dataset` | its data sets, and what it makes of a row of Kaggle | `Extractors` |
| `Batcher_proofs`, `Ingest_proofs`, `Learning_proofs` (of `Drain` and `Onboarder`), `CachedParser_proofs` (with `LruCache`), `Evaluator_proofs` (with `Pipeline`), `Sockets_proofs`, `Generator_proofs`, `Integrity_proofs` (of `Merkle`, `Histories` and `Tamper`) | theorems about the modules they are named after | TLAPS |
| `MCLogs` | 24 logs of all the vendors, with what each was written to report | `Classifier`, `Dataset` |
| other `MC*` | constants for TLC | |

**Batcher.** The variables are the fields of `BatchAccumulator` under their own
names, `step` and `job` (where in `flush` the thread is, and its locals),
`files` and the `ledger` on disk, and bookkeeping (`arrived`, `faults`). `push`
appends, starts the clock at the first log and begins a flush if `should_flush`;
`check_timeout` and `flush` begin one too. A flush is `CreateParquet` (which
truncates), `WriteParquet`, `AppendEntry` (the JSON of the ledger line),
`FinishFlush` (its newline). A ledger line is a sequence of *fragments*, because
`writeln!` on an unbuffered `File` issues more than one write: after a crash
between two of them the next process appends to the open line (`AppendFragment`).
Failures are actions: an error of the Parquet writer, of the ledger, a torn write,
and a crash, after which `new` reads the ledger. A log is its arrival number and a
root the free term over its leaves.

**Ingest.** One reader per source: `ReadLines`, `CountLine` (the counter is
increased *before* the send), `SendLine` (waits for room), `SendError` (nobody receives any
more: the line is lost and the task ends). `RecvLine` takes a line
off the channel and calls `push`; parsing, clustering and serialisation are local
and total and have no step. While a flush runs the main loop is inside `push`, and
readers go on. An error leaves the loop (`FlushError`), the receiver is dropped with what is
on the channel (`DropReceiver`), and with the process (`Exit`) everything in
memory is lost; `Start` opens the accumulator on what is on disk. The module
instantiates `Batcher`, so that a step of it is literally a step of the
accumulator.

**Merkle, Histories.** Operators of the names of the Rust functions. SHA-256 is a free
constructor over its input, whose bytes include the domain prefixes, so that
removing the prefixes is visible; a raw log may spell two hashes. A recursion of the
code over slices `&leaves[lo..lo + n]` is a function of `n` (whose value is a function of
`lo`): `build_subtree(leaves)[n][lo]`. A recursion that pops a stack is a function of
how much of the stack is left: `verify_subproof_full(proof)[i][n][m]` is what
`verify_subproof_full(m, n)` answers when the first `i` hashes of the proof are there.
`Histories` lets a log grow, and a second one, that may differ, beside it. It also has a
second definition of the root, in which the nodes of each level are joined in pairs and an
odd last one moves up as it is (`ReferenceRoot`).

**Tamper.** Digests and roots are those of `Merkle`. Rows as `flush` builds them, with
every edit of them; the four columns the auditor does not look at are one. `run_tamper` and `Passes` are the CLI's
commands.

**Drain.** `tree` maps a path of keys to the `cluster_ids` of its node. `add_log`
is one action (the miner is behind a mutex) with its three outcomes: a blank
log, `Join`, `Found`. `members` is a history variable: the logs a cluster was
given. The rate of a cluster depends on time only and is an input (`fast`).

**LruCache.** A shard is a map and a queue; every operation is one action. The
client is the most general one; `CachedParser` and `Pipeline` are the real ones.

**Classifier.** A log is a sequence of words among which the markers are looked
for. The three tables are copied from the code; `classify` takes the leftmost
pattern (the comment at `parser/classifier.rs:40` says that order in the table
decides, which matters only for patterns at one position, and these are of one
vendor), `fingerprint` what `compute_signature_hash` hashes, `Confident` whether
the softmax of `classify_vendor` reaches 0.85 (in integers; no sum of the
odds falls within the rounding of the threshold).

**Extractors.** A log is a sequence of *symbols*: words, and the separators the
extractors look for, each on its own. `split_csv`, the searches for keys and
markers, the endpoint grammar of ASA messages and the tables of actions are
operators over it, under the names of the Rust functions where there is one. A
value with a comma, a quote or a colon inside is several symbols, so that what a
separator inside a value does is visible. An event is its vendor, disposition,
activity, endpoints and protocol: what a policy decision is about. An extractor
yields `<<event>>`, or `<<>>` for an error.

**Parser, CachedParser.** `Parser` puts classification and extraction together
for a collection of logs, given by the two views of each (`text`, `body`, and
`json` for what `serde_json` makes of it). In `CachedParser` threads call
`parse_cached_lossless`: `Panic` (the signature cuts the log inside a character, at byte 96 or 16 bytes behind the
marker of ASA), `Hit`, `MissUnknown`, `Miss`, and `Insert`, in which another thread may
have cached something else since the miss. Threads meet in the cache only, so that
the rest of a call belongs to its last access.

**Pipeline.** Threads with a program counter: `Call`, `LookupHit` or
`LookupMiss`, `MatchCluster` or `NewCluster`, then `Promote` or `Dispatch`. The
miner is what its callers can rely on: an old id or the next one. The worker is
`Receive` and `Triage`. Classes, signatures and events are those of `Parser`.

**Evaluator.** `benchmark_tiered_isolated`: the main thread warms the pipeline up
(`WarmUpCall`), spawns workers (`Start`), sleeps, stops them (`Stop`), joins
them and reports (`Report`), and calls the pipeline some more (`Sample`). A worker calls
`process` on its next log (`WorkerCall`, then the steps of `Pipeline`), adds to its
tally and, once in a batch, to the totals (`Count`), and tells the rest when it sees
the flag (`Exit`). A worker that panicked counts as joined. The other benchmarks of
the file have the same threads over a parser without state.

**Sockets.** A UDP worker is two tasks: `RecvDatagram`, `PushLine`, `Timeout`,
`SendRaw`, and `TakeRaw`, `ForwardParsed`; a TCP connection is `NextLine`,
`SendTcp`, `Eof`, `SendLast`. `elapsed` is the time since `last_flush`, `timer`
since the current `select!` began. The embedding program receives (`Consume`)
and may drop its receiver.

**Onboarder.** A line is a sequence of tokens with the class of regular
expression that matches them; a pattern is a sequence of parts; `captures` is the
leftmost match (`Places`, where it is). Literal parts are spelled out, because the reader
and writer of YAML are hand-written: escaping for the regex, reading it back, writing YAML
and reading it are one kind of pass over a text from the left (`Pass`), which drops
backslashes before some characters and puts them before others. `run_onboard`, `WriteJson`,
`WriteYaml` (the definition as `Exported` spells it), `Die`, and two loaders, of which the
one for YAML undoes what it can (`Imported`).

**Generator.** A worker connects, and then over and over looks at the flag and at
its schedule (`Leave`, `TakeBatch`; when it is `Ahead` it waits), sends a batch log
by log (`SendUdp`, `SendTcp`) and counts it (`Flush`). A datagram is sent, lost or refused
(`RefusedUdp`); a connection takes logs while its buffer has room, and when it is
broken the batch is abandoned (`BrokenTcp`) and the worker connects anew or fails to
(`Reconnect`, `ReconnectFails`). `Report` clears the flag when the time is up, `CtrlC`
at any time, and `Finish` is the end of `main`. `Read` and `Close` are the target's. A log is
its place in what the worker takes from the data set, which goes round.

**Dataset.** `load_dataset` and the conversion of a Kaggle row to a syslog line, as
operators: one of the logs of `MCLogs` is what the generator makes of a row, so that
its extractor is checked against its only producer in the repository.

Definitions named after another one with a suffix (`Promote_CachesUnknown` next to
`Promote`) are *mutants*: the same definition with a
plausible bug. None is reachable from a specification; each shows that a property
is able to fail.

## 3. Runs

Every run is exhaustive within its bounds. Deadlock is not checked: in each system
the environment may legitimately stop.

| run | instance | states | what it shows |
|---|---|---|---|
| `batcher` | 5 logs, batches of 2, 3 faults of any kind | 56 816 | `Anchored`: what the ledger names is on disk and verifies; `SealedForever`: no step alters an anchored file or removes an entry; `ImplementsAnchorLog`; `EventuallyAnchored`: if `check_timeout` keeps being called and nothing fails, every log is anchored |
| `merkle` | logs of up to 8 leaves; pairs of histories of up to 4, three raw logs, one spelling two hashes | 24 361 | root = pairing level by level; honest inclusion and consistency proofs verify; only leaves are accepted; two histories never share a root, and no arrangement of known hashes proves a rewritten one consistent |
| `tamper` | blocks of up to 3 rows, 3 edits | 188 854 | `AuditIsExact`: an audit passes exactly when logs, order and digests are the flushed ones; `CliTamperIsolated`: after any use of `tamper` the reported rows are exactly the altered ones |
| `drain` | 11 logs, sequences of 5, nodes that overflow after one child | 84 506 | `TemplateCovers`, `ActionInviolability`; `Filed`: each cluster lies at one leaf, once; `FoundAgain`: a log that comes again finds a cluster, unless its way is overtaken or an anchor was respelled; `SurgeOnce` |
| `parser` | 24 logs of all vendors, 2 threads, 4 calls, 2 shards of capacity 2 | 361 222 | `EventAsMeant`: a log is reported as its device meant it (vendor, endpoints, and the verdict unless the documents name it otherwise than the code); `CachedAsUncached`: the cache loses nothing but what a shared signature explains; `OrderIsMap` and `ImplementsCache`: its callers use it as `LruCache` says |
| `pipeline` | 8 logs, 6 corpora of 2 or 3, 2 workers and the main thread, a cache of one route, a ring of one task | 155 303 | `RoutesAreClasses`, `TiersAddUp`, `OneExemplarPerCluster`, `SameAsBaseline`; `ReportIsExact`: the figures of the benchmark are those of the calls made; `Reported`: it always ends in a report, however slow the triage worker |
| `ingest` | 2 sources that read one line at a time, a channel of 2, 4 logs, 2 faults of any kind | 329 177 | `SourceOrder`: lines lie on disk in the order their source sent them, across errors, kills and restarts; `NothingDropped`: none is lost while there is a receiver; `FullBatchAnchored` |
| `sockets` | 1 UDP worker, 2 TCP connections, 3 lines, batches of 2, channels of 1 | 85 062 | `DeliveredInOrder`, `TimeoutFlushes`, `UdpDelivers`, `TcpDeliversAtEof`, `DropTravels` |
| `onboarder` | 262 sample files of 3 lines in 4 families, 2 vendors with one key, 2 runs | 185 581 | `SamplesExtracted`, `ExportsAgree` |
| `generator` | 2 workers, UDP and TCP, 4 logs per second for one second, batches of 2, a socket buffer of one log, 2 faults | about 472 000 | `InTurn`: no log is sent twice or out of turn; `OnSchedule`: no worker runs ahead; `Accounted`: the figures account for every log taken; `Ends`: a run ends unless a target that reads no more holds a worker |
| `batcher_restart` | crashes only | *violation* | section 6, (1) |
| `ingest_quiet` | no faults | *violation* | section 6, (2) |

### Why these bounds

* `batcher`: two full batches and one log more, and three faults: enough for a
  failed flush, a crash, and a crash of the process after it; a torn line and
  two appends to it. A batch of two has a first and a last log.
* `merkle`: eight leaves have every shape of split (powers of two, their
  neighbours, an incomplete left or right half below a complete one). For forged
  proofs all sequences of all known hashes are tried, which limits histories to
  four leaves; the verifiers recurse with depth two there. The proofs lift both
  bounds: trees of any size, and any path or proof that may be presented.
* `tamper`: three edits can hide each other in pairs and then be disturbed by a
  third; three rows have a first, a middle and a last. The proofs lift the bound.
* `drain`: with `max_children = 1` the second prefix at a node goes to `*`; the logs
  have masked and digit tokens, both verdicts, both cases, and two short ones. Five
  logs let a template generalise twice and be compared again. Both exceptions of
  `FoundAgain` happen: without either the run fails.
* `parser`: `MCLogs` has for each extractor a log of every branch that finds its fields
  in another way (with and without a header, quoted commas, key-value pairs in another
  order, IPv4 and IPv6 rows), logs an extractor refuses, and logs of one vendor that
  carry another's marker. What a log was meant to say is a part of a report: of a Palo Alto
  drop and an ASA Deny the verdict is left out, since code and documents name it differently
  (section 6), of a VPN message the destination. A log has the words it is recognised by and the symbols its
  fields are cut from, and, where it is one a device writes, what that device meant.
  `MCHash` gives logs with one fingerprint one key. Two calls by each of two threads
  have every pair of lookup and insertion overlap, and two keys more than a shard holds.
* `pipeline`: with one route in the cache two signatures evict each other; with one slot
  the ring is full at the second dispatch. The corpora pair logs with one signature and
  different classes, a log whose call panics with one that is blank, one log per cluster
  and several. One event of warm-up, batches of two and one sample reach a remainder, a
  full batch and a worker that stops before either; `MaxEvents` bounds the calls to five.
* `ingest`: two batches out of two sources over a channel that holds as many lines as there
  are readers. Two faults, because an error and the end of the process after it are two: the
  readers' failing sends, the restart, and a kill of the next process at any point. A reader
  takes one line at a time; several lines of one read are what several reads are, and
  `ingest_quiet` has two.
* `sockets`: a full batch and a short one; both channels full; every reader blocked.
* `onboarder`: every combination of equal and different columns of three lines;
  two runs let the second overwrite the files of the first and die half-way.
* `generator`: a worker takes two batches of two, so that a batch can break at its first
  and at its second log, with a full one before or after it; the socket buffer is smaller
  than a batch, so that `write_all` can be caught in the middle; two faults break a
  connection and refuse the next one; two ticks pass the end of the run by one.

Counters are bounded in the guards of the actions (`MaxLogs`, `MaxFaults`, `MaxLines`,
`MaxBlanks`, `MaxEdits`, `MaxEvents`, `MaxCalls`, `MaxRuns`, `MaxTicks`, `MaxTaken`,
`MaxLeaves`, `MaxFork`, `MaxRows`), each named among the constants. Symmetry is used
in `parser` (threads) and `tamper` (logs, metas), whose properties are about states and
single steps.

### Fairness

* `Batcher`: weak fairness of the steps of a flush (a running thread goes on), of
  the clock, and of `check_timeout`, which is the contract of the batcher: its
  owner must call it. `EventuallyAnchored` shows the contract suffices;
  `ingest_quiet` that `ulpf ingest` does not keep it.
* `Ingest`: weak fairness of the main loop, of a flush and of the clock (the
  runtime polls what can proceed); strong fairness of each send, since tokio's
  channel serves waiting senders in order; weak fairness of counting the next line of
  what was read, up to `MaxLogs`. Nothing is assumed of the sources, of
  restarts or of faults.
* `Sockets`: the same for its tasks; the embedding program receives as long as it
  holds the receiver. Nothing is assumed of the network or of `DropReceiver`.
* `Evaluator`: weak fairness of each step of the main thread and of each worker: the
  operating system runs every thread that is not blocked. The triage worker is owed
  nothing, since `Reported` is that nobody waits for it.
* `Generator`: weak fairness of the clock, of the reporter, of `main` and of each worker.
  The target owes nothing, neither that it reads nor that it closes, and nobody has to
  press Ctrl-C: `Ends` has the case in which a worker is held for ever by its target.
* The other specifications state no fairness and have safety properties only.

## 4. Proofs

TLAPS checks every theorem for all values of the constants that satisfy the named
assumption of the module, in particular for every value of the bounds. Where a proof needs
induction over numbers, the smallest counterexample is taken, by the well-foundedness of
inclusion among finite sets (`FirstIsOne`, `LeastMember`, `SmallestSet`); `FromBelow` states
it once for a set of numbers that has every number below which it has all. A recursive
function is defined by its equation, which means something only if some function satisfies
it: where a proof unfolds one, a lemma (`TreeExists`, `FlattenExists`, `WalkExists`, ...) first
builds it from its finite beginnings.

**`Batcher_proofs`** (assumption `BatcherAssumption`: sizes are naturals, fault kinds are
known ones). `Spec => []Anchored` is not inductive: that a file matches its entry depends on
what the flush in flight has done and on which id it uses. The inductive invariant `IInv`
adds `JobOK` (the block in flight has logs, an id below the next one, and, when its ledger
line is due, a complete file with exactly its logs), `FragmentIds` (every fragment on disk,
torn ones included, has an id below the next one and below the one in flight, so that
creating a file never truncates an anchored one), `LedgerOrdered` (ids ascend along the
lines, so that *the last line* is the right one for `new` to continue from), and `LogOrder`
(anchored blocks, block in flight, buffer: each later than the one before). `StepIInv` has
one lemma per group of actions. From it follow `AnchoredAlways`, `ArrivalOrderAlways`,
`BlocksAscendAlways`, `FreshIdsAlways`, `SealedForeverAlways` and `Refinement`: every step
is a `Seal` of `AnchorLog` (the JSON of an entry became whole) or a stutter.

**`Ingest_proofs`**. Every step of ingestion is a step of the accumulator or leaves it alone
(`StepOfBatcher`). The module is written so; what it brings is that, through an instance of
`Batcher_proofs`, what is proved of the accumulator under its most general caller holds under
this one: `AccumulatorSound` says it of the blocks on disk.
`NothingDropped` needs `CountInv`: the lines counted are those pushed, those on the channel,
and one for each reader that holds one, a sum over a finite set of sources of which one
changes at a time (`OneReader`). For `SourceOrder` the queue `delivered \o channel` is
ordered per source and below what each source has sent next (`OrderInv`); that blocks are
ascending subsequences of `delivered` is what `BlocksAscendAlways` contributes
(`OrderOnDisk`).

**`Learning_proofs`**, the miner (`DrainAssumption`: the wildcard is no anchor and is not
masked, depth at least 2, a threshold of at most 1). `ActionInviolability` speaks of logs, but the code compares a log
with a template. `TemplateCovers` closes the gap: where the template is not a wildcard it is
the token of every member, and where a log has an anchor the code refuses a template that
differs from it, a wildcard included. With `TypeOK` the three are inductive.
`SurgeOnceAlways` is by cases on whether the count crosses the threshold in this step.
`FiledAlways` says of each cluster at which leaf it is, that it is there once and nowhere
else (`FiledAt`). `LeafOfTokens` follows the walk of the code down the tree, through as many
full nodes as there are, to a leaf under the length of the log and at the depth at which the
search stops; nodes hold ids that were given out (`TreeTyped`), so that the new id is new at
its leaf. A cluster that absorbs a log may change its tokens, but not their number, on which
its leaf depends. `FoundAgainAlways` needs `Known`: each cluster is at the end of a way that
exists in the tree and that all its logs may go, each token by its own key or by `*` (`OnWay`,
for insertion and search at once: `WalkOnWay`), and where its template has `<*>` no other token
is that of all its logs (`WildMeans`). A search follows such a way to the end unless it is
overtaken (`SearchFollows`); at the leaf the template covers the log, an anchor under `<*>` would
have been respelled, and a candidate that agrees at every place is enough for a match
(`FullMatch`). `MinerForPipeline` is what `Pipeline` takes the miner for: a call finds a
cluster founded before, or founds one under the next id, which nothing has yet.

**`Learning_proofs`**, onboarding (`OnboarderAssumption`: the spelling of a token determines
it). The inductive invariant `OnboarderIInv` says that every file and every entry of the
registry is of a parser that was generated, hence validated, and that the two files of a vendor
are of one parser unless a run died between them. That is the easy half; the other is that a
parser read back from its YAML file reads the same. Its literals are texts of any length that
may hold backslashes and quotes, and what a `Pass` does to a text follows, by induction on its
length (`FromBelow`), from what it does to the first one or two characters (`PassFront`,
`PassPair`). So a regular expression reads back what was escaped for it (`ReadPrefixed`), and a
text that came through YAML differs from the one that was written by backslashes before quotes
only, which a regular expression ignores (`YamlOfEscaped`). Every literal of a generated pattern
is an escaped text (`EscapedParts`), so the loaded pattern accepts the same tokens at the same
places (`SameCaptures`, `SameParse`), which is `ExportsAgreeAlways`; with the validation
(`SamplesYieldEvents`) it gives `SamplesExtractedAlways`.

**`CachedParser_proofs`** (`CacheAssumption` and those of the parser). First the cache
itself: `TypeOK`, `OrderIsMap` and `Bounded` are inductive together: that an eviction makes
room needs that the victim at the head of the queue is in the map, and once; `InsertSound`
is the lemma about one shard. Then its callers: `ClassTyped`, that the classifier yields a
format or *unknown* (the leftmost match exists, `FirstIsOne`), makes every step of a caller
a step of `LruCache` (`CallersImplementCache`), so that the first part holds of the cache
they share. `CachedAsUncached` is kept together with `Routes`: a cached route is the class
of some log with that key. `UnaliasedAsUncached` draws the conclusion for a log that shares
its key with none of another class. `EventAsMeantAlways` has a hypothesis, `ReadAsMeant`:
the uncached parser reports the given logs as they were meant. It is about the extractors
alone and holds of the logs of `MCLogs`, since in the run `parser` each of them is also the
first that is parsed. The theorem lifts it to any number of callers and any cache.

**`Evaluator_proofs`**. `PipelineImplementsCache`: a promotion inserts formats of vendors
only, so that each step of the pipeline is one of `LruCache`, and what is proved of that
module holds here (`PipelineCacheSound`, through an instance of `CachedParser_proofs`, whose
parser is shown to be the one of this module: `SameLogs`, `SameClasses`, `SameCache`).
`CachedRoutesAreClasses` and `TiersChangeNothing` go as in `CachedParser`.
`TiersAlwaysAddUp` needs to know which counters a thread in the middle of a call has already
increased: `Counts` states each counter as a sum by the label a thread is at, and a step
moves one thread between two labels (`Moves`). `OneExemplarAlways` needs that a cluster id
about to be sent is newer than all ids sent, and that two threads are never about to send
the same (`Fresh`). `BenchmarkIsACaller` shows that the benchmark takes no step the pipeline
does not allow, so that all of these hold of it (`BenchmarkSafe`). `ReportIsExactAlways` is
about sums over workers, each the number of pairs of a worker and one of its events
(`Total`). `TallyInv`: what was told and what was not (`untold`: the remainder of a worker
that has not left) add up to what was counted. `PhaseInv`: between warm-up and report the
calls past the warm-up are those counted and those under way, and the main thread reports
when nobody is under way. `Counts` turns the calls into tiers.

**`Sockets_proofs`**. `TimeoutFlushes` follows from `SleepIsYounger`: while a UDP worker is
at its `select!`, the sleep it waits for began no earlier than the last flush. For
`DeliveredInOrderAlways` the lines of a reader are put one after the other, from what was
delivered back over the channels to the batch that fills (`Way`): while somebody receives, they are
the numbers of all lines it looked at (`OnWay`). Each step moves lines from one place on the way to
the next, so that it is an instance of associativity (`PartsMove`, over the laws of
`LinesConcat`) and of what flattening does to the head and the end of a queue
(`FlattenAppend`, `FlattenConcat`). That a batch is taken to be sent only where none waits, and that
a parsing task ends only when nobody receives, is in `TypedInv` (`Settled`, `Orphans`).

**`Generator_proofs`**. `Ordered` places what was received, what lies in the buffer of the
connection, what this batch has sent, and what it has not, one after the other; `Timely`
says how far a worker at each point of its loop may be ahead. Both are kept by a step of the
worker itself (`OwnOrder`, `OwnTime`), by those of others (`OthersKeep`), and by the clock.
`AccountedAlways` is about sums over the workers. That changing one value of a function
changes its sum by the difference (`SumChanges`) is shown for the smallest set of workers
for which it would fail, by `SmallestSet`; with it the sums move with the one worker that steps
(`SumsMove`). `CountInv` adds to `Accounted` that a batch is never larger than `batch_size`,
which is how much a broken one can hide.

**`Integrity_proofs`** (`MerkleAssumption`: logs are sequences of bytes; `TamperAssumption`).
The tree first. `SplitIs`: for every n above 1 the code's expression yields a power of two k with
k < n <= 2k, so that both parts of a slice are shorter and not empty; every induction is over the
length of a slice. That the hash is a free constructor and the prefixes differ gives
`ChildrenApart`, `LeavesApart` and `LeafIsNoNode`, the only facts about hashing that the
theorems about the tree use.

* `RootIsReferenceAlways`: node i of level e is the root of the slice of 2^e leaves, or what
  there is of it, at its place (`LevelIs`). For the step from one level to the next the split of
  such a slice is at 2^e, or it is no longer than that and moves up (`SplitAt`, `NextLevelIs`).
* `RootsInjective`: equal roots of slices of one length have equal leaves (`SameTree`).
* `InclusionCompleteAlways`: an audit path is that of a part and one more sibling, which the
  fold takes last (`HonestPaths`, `OneMoreSibling`); its length follows from `PartHeights`.
* `AcceptedIsLeaf`: a climb from the hash of a raw log that ends at the hash of a subtree
  began at a leaf of it (`ClimbFromLeaf`), because no step can have made a leaf and no log is a
  node. This holds of *any* path, also one that no honest tree has;
  `InclusionSoundAlways` is what the run tries of it.
* `AcceptedIsPrefix`: whatever `verify_subproof_full` answers from *any* stack, if its two
  answers are the hashes of a slice of the older tree and of one of the newer, then the older
  slice is a prefix of the newer (`FullStepTells`, `InternalStepTells`, `AnswersTell`). It is the
  comparison with `prev_root` in the branch m > k that this rests on.
  `ConsistencySoundAlways` follows.
* `ConsistencyCompleteAlways`: on an honest proof the stack holds exactly what the recursion
  pops (`FullIsHonest`, `InternalIsHonest`); that a shorter stack is a prefix of the longer one
  is `StackPrefix`.

Then the auditor. An audit is a concatenation over the rows; `FlattenMembers` says what a
flattened sequence holds, for any number of rows. From it `Verdict` (an audit passes exactly if the
root matches, the count does, and no row is misplaced or altered) and, by `RootsInjective`,
`AuditOfBlock` (which is to say, exactly if the evidence is that of the block). `FileInv` is the
invariant: the file holds well-formed rows, the blocks are as flushed, and, as long as only
`tamper` was used, indices and digests are the flushed ones, which is why exactly the altered
rows are found (`CliTamperIsolatedAlways`).

Only model-checked: everything temporal (`EventuallyAnchored`, `FullBatchAnchored`,
`Reported`, `UdpDelivers`, `TcpDeliversAtEof`, `DropTravels`, `Ends`), since liveness
under fairness and ENABLED are beyond the prover; and `ReadAsMeant`, the hypothesis of
`EventAsMeantAlways`, which is about the given logs of `MCLogs` and what they were meant to say.
Every other property of a passing run is a theorem.

## 5. What is not modelled

* *The other benchmarks of the evaluator* run the same threads over a parser without
  state; the accuracy audit (`evaluator.rs:958-1186`) compares substrings of generated logs
  and prints percentages, as do latencies. *Audit, benchmark, evaluate and inspect* of the
  CLI and the *scripts* report on the components above.
* *Action and risk scores of `laya.rs`*, which the worker computes and drops
  (`pipeline.rs:79-80`); of the vendor scores, only whether they pass the worker's gate.
* *Characters*: masking, tokenising, matching and cutting fields are modelled on tokens
  and symbols; an address is a symbol that parses or one that does not. Times, byte and
  packet counters, interfaces and unmapped fields of an event are left out, and with them
  the rest of the *OCSF schema* and all serialisation.
* *Power loss*: nothing is fsynced (`file.flush()` on a `File` does nothing,
  `batcher.rs:307`), so that no promise could hold. The model covers the death of the process.
* *Two processes on one ledger*: no lock exists, and nothing starts two.
* *A YAML file written in part*: the loader is lenient and may read it as a parser without its
  last samples, or without all of them and the end of its pattern. `SamplesExtracted` is about
  the samples a parser has, and `ExportsAgree` excepts torn files.
* *The network of the generator*: datagrams that are duplicated or overtake each other, and a
  target that reads the rest of a broken connection after the next one. `InTurn` is about what
  the workers send.
* `reset_stats`, which nobody calls; `stats` of cache and miner, which only read;
  `generate_rust_code`, protocol, zones and action of an onboarded event; the stats printer
  of `run_ingest`; `locate_data_dir` and the figures per second of the generator.
* Below a `depth` of 2 the miner underflows (`drain.rs:345`); no caller configures it.

## 6. Where code and documentation part

Checked by a run that must find the violation:

1. `batcher_restart`. `batcher.rs:120-121`: an existing ledger is continued. A process
   that dies between the JSON and the newline of a ledger line leaves an open line;
   the next process appends its entry to it (`batcher.rs:306`), and every start after
   that fails to parse a ledger that holds only whole entries.
2. `ingest_quiet`. `docs/ARCHITECTURE.md:77` promises that the time trigger eliminates
   low-traffic stalls. The main loop never calls `check_timeout` (`main.rs:429`): the
   last logs of a quiet source stay in memory.

Seen while modelling, and modelled as the code does it unless section 5 leaves it out.

Integrity:

* `batcher.rs:7-10` lists the ledger entry before the Parquet file; `flush` writes the
  file first, which is the order `Anchored` needs.
* `lib.rs:13` of `ulpf-integrity` speaks of write-once storage; `storage.rs:175` truncates.
  `SealedForever` holds because ids are fresh, not because files are protected.
* `docs/ARCHITECTURE.md:78`: an inclusion proof is for an index. `merkle.rs:403` compares
  the claimed index with the tree size only, so that a path verifies under each.
* `main.rs:709` of the CLI prints with `[PASS]` that no records were altered, injected or
  deleted. Values of `vendor`, `timestamp`, `event_id` and `ocsf_json` are not looked at
  (`tamper.rs:229`), and the block to compare with is the one that the first row names
  (`tamper.rs:199`), so that a file replaced by another block passes. `AuditIsExact` says
  what [PASS] does mean.
* `docs/ARCHITECTURE.md:79`: the auditor isolates altered, deleted and injected rows. A
  deletion is reported as a count and through the rows that moved, not by its index
  (`tamper.rs:237`, `tamper.rs:297`).

Parsing:

* `docs/DETAILED_IMPLEMENTATION_VS_PROPOSAL.md:146-149` has one taxonomy of verdicts: Cisco
  denials become *Dropped*, Fortinet `close` and Palo Alto `drop` become *Blocked*. The
  extractors say *Blocked* (`cisco_asa.rs:188`), *Allowed* (`fortigate.rs:158`) and *Dropped*
  (`paloalto.rs:85`). `EventAsMeant` takes no side: `MCLogs` leaves the verdict of the first and
  of the third out of what they mean, and no log of it has `close` for its action. `reset-both`
  is *Blocked* for Palo Alto (`paloalto.rs:86`) and *Allowed* for the Kaggle rows
  (`kaggle.rs:184`).
* The disconnection of a VPN session is given the destination 10.0.0.1:443
  (`cisco_asa.rs:266`); an ASA endpoint that is an IPv6 address without an interface loses
  its first group to the interface (`cisco_asa.rs:364`).
* Ports of Suricata are taken modulo 2^16 (`suricata.rs:46`, `suricata.rs:59`). The search
  for `: 1,20` is never reached, since `1,20` after a space is searched for first (`paloalto.rs:161`).
* The "LRU" cache evicts in order of insertion (`lru_cache.rs:70`); `get` takes a read lock.
* `lru_cache.rs:134` slices at byte 96, `lru_cache.rs:140` 16 bytes behind the marker of ASA;
  both panic inside a character.
* `lru_cache.rs:150`: everything that starts with a brace has one signature; any two logs
  whose first three words agree have one, whatever vendor shows after byte 96. A Fortinet
  denial wrapped in JSON is given the route of the Suricata event before it, next to
  `README.md:105` of the repository, "Action Inviolability 100% PRESERVED".
  `CachedAsUncached` and `SameAsBaseline` say exactly how far this goes: only such a log may get the event of
  another class, and only if that class's extractor accepts it.

Miner, pipeline, onboarding:

* `drain.rs:25`: anchors cannot be generalised. They are compared up to case and merged by
  exact text (`drain.rs:128`): `ALLOW` and `allow` become `<*>`.
* `drain.rs:17`: `max_clusters` is never enforced (`drain.rs:270`).
* `drain.rs:66`: a new template means an unseen one. A cluster under a full node's `*`
  (`drain.rs:412`) is not searched for by a log whose own prefix exists (`drain.rs:358`): each
  repeat founds a cluster under `*` and is reported as new. A log that joined a cluster under
  `*` is not recognised either once its prefix has a node of its own, nor, at times, one whose
  anchor was merged with another spelling (`drain.rs:128`). These are the exceptions of
  `FoundAgain`, and there are no others.
* `pipeline.rs:152-154`: a full ring drops the only exemplar of a cluster for good.
* The repository's `README.md:59` promises onboarding out of band. The worker hands
  `generate_parser` one sample (`pipeline.rs:85`); it requires three (`onboarder.rs:380`):
  no cluster is ever onboarded.
* `onboarder.rs:66`, `onboarder.rs:128`: YAML loses the quotes of `sample_logs`, which
  nothing reads. `main.rs:814-815`: the two files are not written atomically.
* `onboarder.rs:685`: a column that is constant in the samples becomes a literal, and address
  columns are named by count: a constant source makes the target the source. Validation
  rejects what then lacks an address, and nothing else.

Evaluator and generator:

* `evaluator.rs:839`: the panic of a worker is ignored at its join, and with it up to a batch
  of calls that no total has. `ReportIsExact` counts what was told.
* `evaluator.rs:892`, `evaluator.rs:894`: the number of clusters and the enforcement of unique
  anchors are reported as constants.
* A TCP worker inside `write_all` (`main.rs:397` of the generator) does not see the flag, and
  `main` waits for every worker: with a target that stops reading, neither `--duration` nor
  Ctrl-C ends the program. `Ends` has this exception and no other.
* `main.rs:141`: a rate below the number of workers becomes one log per second *each*, and zero
  workers at a positive rate divide by zero.
* `main.rs:407`: a TCP batch that breaks is abandoned; what was delivered of it is not counted,
  and what was counted may be lost in the socket buffer. `Accounted` brackets the figures
  accordingly.

## 7. Plan

Done: `Batcher` with `AnchorLog`; `Merkle` with `Histories`; `Tamper`; `Drain`; `LruCache`;
`Classifier`, `Extractors` and `Parser`; `CachedParser` and `Pipeline` over them;
`Evaluator`; `Ingest` over `Batcher`; `Sockets`; `Onboarder`; `Generator` with `Dataset`;
and proofs of every invariant and of every action property that a run checks.

Left, extending the model:

1. The accuracy audit of the evaluator, on the logs of `MCLogs` and `Dataset`.
2. Action and risk of `laya.rs`, once the worker uses them.
3. An abstract specification of `Sockets` (a FIFO per reader) for `DeliveredInOrder` to refine.
4. Wider instances where they are cheap: capacity 0 and one shard for `parser`, two UDP workers.

Left, proving:

1. A refinement of a FIFO per reader by `Sockets`, from `DeliveredInOrder`.
2. What the extractors make of a log, as lemmas about the grammar of each vendor, from which
   `ReadAsMeant` would follow for every log of a format.
3. That a generated pattern matches within the line it is given (`Places`).
