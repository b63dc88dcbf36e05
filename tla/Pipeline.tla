------------------------------ MODULE Pipeline ------------------------------
(***************************************************************************)
(* The three-tier pipeline (ulpf-ai, pipeline.rs), called by any number of *)
(* threads at once: a lookup in the signature cache (module LruCache), on  *)
(* a miss the template miner behind its mutex, and for a new cluster a     *)
(* non-blocking send to the bounded ring of the triage worker, which is a  *)
(* thread of its own.  The parser it calls is parser/mod.rs.               *)
(*                                                                         *)
(* A step is what a thread does between two points where another thread    *)
(* can see or change what it works on: an operation under a lock or on the *)
(* channel, together with the relaxed counter next to it.  The miner is    *)
(* represented by what every caller can rely on (module Drain): an id it   *)
(* gave out before, or the next one.                                       *)
(***************************************************************************)
EXTENDS Parser

CONSTANTS
  Threads,       \* the callers of `process`
  Keys,          \* signature hashes
  num_shards, capacity,
  RingCapacity,  \* with_ring_buffer_capacity
  MaxEvents      \* bound: calls of `process` in one behaviour

ASSUME PipelineAssumption ==
  /\ Keys \subseteq Nat
  /\ signature \in [Raws -> Keys]
  /\ num_shards \in Nat \ {0} /\ capacity \in Nat
  /\ RingCapacity \in Nat \ {0} /\ MaxEvents \in Nat
  /\ IsFiniteSet(Threads)

VARIABLES
  shards, hits, misses, evictions,  \* the signature cache
  next_cluster_id,                  \* the miner: clusters 1 .. next_cluster_id - 1
  pc,                               \* where in `process` each thread is
  raw,                              \* the log each thread works on
  cluster,                          \* the new cluster a thread is about to dispatch
  event,                            \* what each idle thread's last call returned
  total_events, tier2_drain_hits, tier3_laya_dispatches,
  ring,                             \* the channel: tasks, oldest first
  working,                          \* the task the worker holds, if any
  triaged,                          \* history: the clusters the worker is done with
  registry                          \* DynamicParserRegistry: clusters onboarded

cache    == <<shards, hits, misses, evictions>>
worker   == <<working, triaged, registry>>
counters == <<total_events, tier2_drain_hits, tier3_laya_dispatches>>
vars == <<cache, next_cluster_id, pc, raw, cluster, event, counters, ring, worker>>

Cache == INSTANCE LruCache WITH Formats <- VendorFormat

\* How the worker judges each log.
confident == [r \in Raws |-> Confident(text[r])]

\* Logs without tokens.
Blanks == {r \in Raws : Words(text[r]) = <<>>}

-----------------------------------------------------------------------------
(* Parsing.                                                                *)

\* Mutant: the format is trusted.
parse_routed_Trusting(r, format) == Lossless(parse_with_format(r, format))

\* TieredPipeline::parse_with_format
parse_routed(r, format) ==
  LET result == parse_with_format(r, format)
  IN IF result = <<>> THEN parse_lossless(r) ELSE result[1]

-----------------------------------------------------------------------------
(* process.                                                                *)

Goto(t, label) == pc' = [pc EXCEPT ![t] = label]

\* `process` returns an event, which the extractor of a format may have read.
Return(t, activity) ==
  /\ Goto(t, "idle")
  /\ event' = [event EXCEPT ![t] = <<activity>>]

\* The call, up to the lookup; slicing the window of the signature panics when
\* its end is not a character boundary.
Call(t, r) ==
  /\ pc[t] = "idle"
  /\ total_events < MaxEvents
  /\ total_events' = total_events + 1
  /\ raw' = [raw EXCEPT ![t] = r]
  /\ event' = [event EXCEPT ![t] = <<>>]
  /\ Goto(t, IF text[r].split THEN "panicked" ELSE "lookup")
  /\ UNCHANGED <<cache, next_cluster_id, cluster, tier2_drain_hits,
                 tier3_laya_dispatches, ring, worker>>

\* Tier 1, a hit.
LookupHit(t) ==
  LET key == signature[raw[t]]
  IN /\ pc[t] = "lookup"
     /\ Cache!get_hit(key)
     /\ Return(t, parse_routed(raw[t], Cache!route(key)))
     /\ UNCHANGED <<next_cluster_id, raw, cluster, counters, ring, worker>>

\* Tier 1, a miss.
LookupMiss(t) ==
  /\ pc[t] = "lookup"
  /\ Cache!get_miss(signature[raw[t]])
  /\ Goto(t, "drain")
  /\ UNCHANGED <<next_cluster_id, raw, cluster, event, counters, ring, worker>>

\* Mutant: a log of a known cluster is dispatched too.
MatchCluster_Dispatches(t) ==
  /\ pc[t] = "drain"
  /\ next_cluster_id > 1
  /\ cluster' = [cluster EXCEPT ![t] = next_cluster_id - 1]
  /\ Goto(t, "dispatch")
  /\ UNCHANGED <<cache, next_cluster_id, raw, event, counters, ring, worker>>

\* Tier 2, under the miner's mutex: add_log finds a cluster (or no tokens).
MatchCluster(t) ==
  /\ pc[t] = "drain"
  /\ next_cluster_id > 1 \/ raw[t] \in Blanks
  /\ Goto(t, "promote")
  /\ UNCHANGED <<cache, next_cluster_id, raw, cluster, event, counters, ring, worker>>

\* Tier 2: add_log founds a cluster.
NewCluster(t) ==
  /\ pc[t] = "drain"
  /\ raw[t] \notin Blanks
  /\ cluster' = [cluster EXCEPT ![t] = next_cluster_id]
  /\ next_cluster_id' = next_cluster_id + 1
  /\ Goto(t, "dispatch")
  /\ UNCHANGED <<cache, raw, event, counters, ring, worker>>

\* Mutant: Unknown is promoted as well.
Promote_CachesUnknown(t) ==
  LET format == class[raw[t]]
  IN /\ pc[t] = "promote"
     /\ tier2_drain_hits' = tier2_drain_hits + 1
     /\ Cache!insert(signature[raw[t]], format)
     /\ Return(t, parse_routed(raw[t], format))
     /\ UNCHANGED <<next_cluster_id, raw, cluster, total_events, tier3_laya_dispatches,
                    ring, worker>>

\* The log is classified and, if its format is known, promoted to tier 1.
Promote(t) ==
  LET format == class[raw[t]]
  IN /\ pc[t] = "promote"
     /\ tier2_drain_hits' = tier2_drain_hits + 1
     /\ IF format = Unknown THEN UNCHANGED cache
                            ELSE Cache!insert(signature[raw[t]], format)
     /\ Return(t, parse_routed(raw[t], format))
     /\ UNCHANGED <<next_cluster_id, raw, cluster, total_events, tier3_laya_dispatches,
                    ring, worker>>

\* Mutants: the send waits for room; only a successful send is counted.
SendTask(t, sends, counted) ==
  /\ pc[t] = "dispatch"
  /\ ring' = IF sends THEN Append(ring, [cluster_id |-> cluster[t], sample_log |-> raw[t]])
                      ELSE ring
  /\ tier3_laya_dispatches' = tier3_laya_dispatches + counted
  /\ Return(t, parse_lossless(raw[t]))
  /\ UNCHANGED <<cache, next_cluster_id, raw, cluster, total_events, tier2_drain_hits, worker>>

HasRoom                == Len(ring) < RingCapacity
Dispatch_Waits(t)      == HasRoom /\ SendTask(t, TRUE, 1)
Dispatch_CountsSent(t) == SendTask(t, HasRoom, IF HasRoom THEN 1 ELSE 0)

\* Tier 3: try_send, whose result is ignored; the log is parsed in-band.
Dispatch(t) ==
  /\ pc[t] = "dispatch"
  /\ ring' = IF Len(ring) < RingCapacity
               THEN Append(ring, [cluster_id |-> cluster[t], sample_log |-> raw[t]])
               ELSE ring
  /\ tier3_laya_dispatches' = tier3_laya_dispatches + 1
  /\ Return(t, parse_lossless(raw[t]))
  /\ UNCHANGED <<cache, next_cluster_id, raw, cluster, total_events, tier2_drain_hits, worker>>

-----------------------------------------------------------------------------
(* The triage worker.                                                      *)

Receive ==
  /\ working = <<>>
  /\ ring # <<>>
  /\ working' = <<Head(ring)>>
  /\ ring' = Tail(ring)
  /\ UNCHANGED <<cache, next_cluster_id, pc, raw, cluster, event, counters, triaged, registry>>

\* Onboarder::generate_parser wants three samples before it synthesises a parser.
generate_parser(samples) == Len(samples) >= 3

Triage ==
  /\ working # <<>>
  /\ LET task == working[1]
     IN /\ registry' = IF confident[task.sample_log] /\ generate_parser(<<task.sample_log>>)
                         THEN registry \cup {task.cluster_id} ELSE registry
        /\ triaged' = Append(triaged, task.cluster_id)
  /\ working' = <<>>
  /\ UNCHANGED <<cache, next_cluster_id, pc, raw, cluster, event, counters, ring>>

-----------------------------------------------------------------------------

Init ==
  /\ Cache!CacheInit
  /\ next_cluster_id = 1
  /\ pc = [t \in Threads |-> "idle"]
  /\ raw = [t \in Threads |-> CHOOSE r \in Raws : TRUE]
  /\ cluster = [t \in Threads |-> 0]
  /\ event = [t \in Threads |-> <<>>]
  /\ total_events = 0
  /\ tier2_drain_hits = 0
  /\ tier3_laya_dispatches = 0
  /\ ring = <<>>
  /\ working = <<>>
  /\ triaged = <<>>
  /\ registry = {}

\* The rest of `process`, once it was called.
Step(t) ==
  \/ LookupHit(t)
  \/ LookupMiss(t)
  \/ MatchCluster(t)
  \/ NewCluster(t)
  \/ Promote(t)
  \/ Dispatch(t)

Worker == Receive \/ Triage

Next ==
  \/ \E t \in Threads : Step(t) \/ \E r \in Raws : Call(t, r)
  \/ Worker

Spec == Init /\ [][Next]_vars

-----------------------------------------------------------------------------
(* Properties.                                                             *)

\* Whatever threads race between a miss and an insertion: a cached route is how
\* some log with that signature is classified, and never Unknown.
RoutesAreClasses ==
  \A i \in DOMAIN shards : \A k \in DOMAIN shards[i].entries :
    /\ shards[i].entries[k] # Unknown
    /\ \E r \in Raws : signature[r] = k /\ class[r] = shards[i].entries[k]

InState(labels) == Cardinality({t \in Threads : pc[t] \in labels})

\* Every call is counted in exactly one tier: the counters add up to the calls
\* that have returned plus those under way.
TiersAddUp ==
  /\ total_events = hits + tier2_drain_hits + tier3_laya_dispatches
                      + InState({"lookup", "drain", "promote", "dispatch", "panicked"})
  /\ misses = tier2_drain_hits + tier3_laya_dispatches + InState({"drain", "promote", "dispatch"})

Handled == triaged \o [i \in DOMAIN working |-> working[i].cluster_id]
                   \o [i \in DOMAIN ring |-> ring[i].cluster_id]

\* "Cluster-level deduplication": no cluster is sent to the worker twice, and
\* there is one dispatch per cluster the miner founded.
OneExemplarPerCluster ==
  /\ \A i, j \in DOMAIN Handled : Handled[i] = Handled[j] => i = j
  /\ tier3_laya_dispatches + InState({"dispatch"}) = next_cluster_id - 1

\* The tiers change nothing about a log, whatever was cached, evicted or promoted
\* before: its event is the one the plain parser produces.  Only a log that
\* shares its signature with a log of another class may be given the event of
\* that class, and only if its extractor accepts the log.
SameAsBaseline ==
  \A t \in Threads : event[t] \notin {<<>>, <<parse_lossless(raw[t])>>} =>
    \E q \in Raws : LET result == parse_with_format(raw[t], class[q])
                   IN /\ signature[q] = signature[raw[t]] /\ class[q] # class[raw[t]]
                      /\ result # <<>> /\ event[t] = <<result[1]>>
=============================================================================
