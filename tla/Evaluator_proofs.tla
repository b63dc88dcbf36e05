-------------------------- MODULE Evaluator_proofs --------------------------
(***************************************************************************)
(* Proofs about the pipeline: for every collection of logs, any number of  *)
(* callers and every capacity of the cache and of the ring, the cache is   *)
(* used as its specification says, cached routes are classes, every call   *)
(* is counted in one tier, a cluster is dispatched once, and the tiers do  *)
(* not change what the parser says. The benchmark is one such caller, and  *)
(* its report is what its workers told.                                    *)
(***************************************************************************)
EXTENDS Evaluator, FiniteSetTheorems, SequenceTheorems, TLAPS

\* The theorems about the cache, for the one of this module.
Cached == INSTANCE CachedParser_proofs
       WITH Formats <- VendorFormat, MaxCalls <- MaxEvents, meant <- <<>>, calls <- total_events

Labels == {"idle", "lookup", "drain", "promote", "dispatch", "panicked"}
Task   == [cluster_id : Nat, sample_log : Raws]

\* The variables hold values of their Rust types.
Typed ==
  /\ DOMAIN shards = 0..(num_shards - 1)
  /\ hits \in Nat /\ misses \in Nat
  /\ next_cluster_id \in Nat \ {0}
  /\ pc \in [Threads -> Labels]
  /\ raw \in [Threads -> Raws]
  /\ cluster \in [Threads -> Nat]
  /\ DOMAIN event = Threads
  /\ total_events \in Nat /\ tier2_drain_hits \in Nat /\ tier3_laya_dispatches \in Nat
  /\ ring \in Seq(Task)
  /\ working \in Seq(Task) /\ Len(working) <= 1
  /\ triaged \in Seq(Nat)

LEMMA InitTyped == Init => Typed
<1> SUFFICES ASSUME Init PROVE Typed
  OBVIOUS
<1>1. (CHOOSE r \in Raws : TRUE) \in Raws
  BY ParserAssumption
<1>2. DOMAIN shards = 0..(num_shards - 1)
  BY DEF Init, Cache!CacheInit
<1> QED
  BY <1>1, <1>2 DEF Init, Typed, Labels, Cache!CacheInit

LEMMA StepTyped == Typed /\ [Next]_vars => Typed'
<1> SUFFICES ASSUME Typed, [Next]_vars PROVE Typed'
  OBVIOUS
<1> USE DEF Typed, Labels
<1>1. CASE UNCHANGED vars
  BY <1>1 DEF vars, cache, counters, worker
<1>2. ASSUME NEW t \in Threads, NEW r \in Raws, Call(t, r) PROVE Typed'
  <2>1. pc' \in [Threads -> Labels] /\ raw' \in [Threads -> Raws] /\ DOMAIN event' = Threads
    BY <1>2 DEF Call, Goto
  <2> QED
    BY <1>2, <2>1 DEF Call, cache, worker
<1>3. ASSUME NEW t \in Threads, LookupHit(t) PROVE Typed'
  <2>1. pc' \in [Threads -> Labels] /\ DOMAIN event' = Threads
    BY <1>3 DEF LookupHit, Return, Goto
  <2>2. hits' \in Nat /\ misses' \in Nat /\ shards' = shards
    BY <1>3 DEF LookupHit, Cache!get_hit
  <2> QED
    BY <1>3, <2>1, <2>2 DEF LookupHit, counters, worker
<1>4. ASSUME NEW t \in Threads, LookupMiss(t) PROVE Typed'
  BY <1>4 DEF LookupMiss, Cache!get_miss, Goto, counters, worker
<1>5. ASSUME NEW t \in Threads, MatchCluster(t) PROVE Typed'
  BY <1>5 DEF MatchCluster, Goto, cache, counters, worker
<1>6. ASSUME NEW t \in Threads, NewCluster(t) PROVE Typed'
  BY <1>6 DEF NewCluster, Goto, cache, counters, worker
<1>7. ASSUME NEW t \in Threads, Promote(t) PROVE Typed'
  <2>1. pc' \in [Threads -> Labels] /\ DOMAIN event' = Threads
    BY <1>7 DEF Promote, Return, Goto
  <2>2. hits' = hits /\ misses' = misses /\ DOMAIN shards' = DOMAIN shards
    BY <1>7 DEF Promote, cache, Cache!insert
  <2> QED
    BY <1>7, <2>1, <2>2 DEF Promote, worker
<1>8. ASSUME NEW t \in Threads, Dispatch(t) PROVE Typed'
  <2>1. [cluster_id |-> cluster[t], sample_log |-> raw[t]] \in Task
    BY DEF Task
  <2>2. ring' \in Seq(Task)
    BY <1>8, <2>1 DEF Dispatch
  <2>3. pc' \in [Threads -> Labels] /\ DOMAIN event' = Threads
    BY <1>8 DEF Dispatch, Return, Goto
  <2> QED
    BY <1>8, <2>2, <2>3 DEF Dispatch, cache, worker
<1>9. CASE Receive
  <2>1. ring' \in Seq(Task) /\ working' \in Seq(Task) /\ Len(working') = 1
    BY <1>9 DEF Receive
  <2> QED
    BY <1>9, <2>1 DEF Receive, cache, counters
<1>10. CASE Triage
  <2>1. working[1] \in Task /\ triaged' = Append(triaged, working[1].cluster_id) /\ working' = <<>>
    BY <1>10 DEF Triage
  <2>2. triaged' \in Seq(Nat)
    BY <2>1 DEF Task
  <2> QED
    BY <1>10, <2>1, <2>2 DEF Triage, cache, counters
<1> QED
  BY <1>1, <1>2, <1>3, <1>4, <1>5, <1>6, <1>7, <1>8, <1>9, <1>10 DEF Next, Step, Worker

-----------------------------------------------------------------------------
(* Routes.                                                                 *)

\* What an insertion leaves in a shard: the new route, and routes that were there.
LEMMA InsertedEntries ==
  ASSUME NEW s, NEW key, NEW format,
         NEW k \in DOMAIN Cache!ShardInsert(s, key, format).entries
  PROVE  \/ k = key /\ Cache!ShardInsert(s, key, format).entries[k] = format
         \/ /\ k \in DOMAIN s.entries
            /\ Cache!ShardInsert(s, key, format).entries[k] = s.entries[k]
<1> DEFINE t == Cache!ShardInsert(s, key, format)
<1>1. CASE key \in DOMAIN s.entries
  <2>1. t.entries = Cache!WithEntry(s.entries, key, format)
    BY <1>1 DEF Cache!ShardInsert
  <2> QED
    BY <2>1 DEF Cache!WithEntry
<1>2. CASE key \notin DOMAIN s.entries /\ Cache!Full(s)
  <2>1. t.entries = Cache!WithEntry(Cache!Without(s.entries, Head(s.order)), key, format)
    BY <1>2 DEF Cache!ShardInsert, Cache!PushBack, Cache!PopFront
  <2> QED
    BY <2>1 DEF Cache!WithEntry, Cache!Without
<1>3. CASE key \notin DOMAIN s.entries /\ ~Cache!Full(s)
  <2>1. t.entries = Cache!WithEntry(s.entries, key, format)
    BY <1>3 DEF Cache!ShardInsert, Cache!PushBack
  <2> QED
    BY <2>1 DEF Cache!WithEntry
<1> QED
  BY <1>1, <1>2, <1>3

\* The cache changes in promotions only.
LEMMA RoutesKept ==
  ASSUME Typed, RoutesAreClasses, [Next]_vars
  PROVE  RoutesAreClasses'
<1>1. ASSUME shards' = shards PROVE RoutesAreClasses'
  BY <1>1 DEF RoutesAreClasses
<1>2. ASSUME NEW t \in Threads, NEW r \in Raws, Call(t, r) PROVE RoutesAreClasses'
  BY <1>1, <1>2 DEF Call, cache
<1>3. ASSUME NEW t \in Threads, LookupHit(t) \/ LookupMiss(t) PROVE RoutesAreClasses'
  BY <1>1, <1>3 DEF LookupHit, LookupMiss, Cache!get_hit, Cache!get_miss
<1>4. ASSUME NEW t \in Threads, MatchCluster(t) \/ NewCluster(t) \/ Dispatch(t)
      PROVE  RoutesAreClasses'
  BY <1>1, <1>4 DEF MatchCluster, NewCluster, Dispatch, cache
<1>5. ASSUME NEW t \in Threads, Promote(t) PROVE RoutesAreClasses'
  <2>1. CASE class[raw[t]] = Unknown
    BY <1>1, <1>5, <2>1 DEF Promote, cache
  <2>2. CASE class[raw[t]] # Unknown
    <3> DEFINE key == signature[raw[t]]
               j   == Cache!shard_idx(key)
               new == Cache!ShardInsert(shards[j], key, class[raw[t]])
    <3>1. shards' = [shards EXCEPT ![j] = new] /\ raw[t] \in Raws
      BY <1>5, <2>2 DEF Promote, Cache!insert, Typed
    <3> SUFFICES ASSUME NEW i \in DOMAIN shards', NEW k \in DOMAIN shards'[i].entries
                 PROVE  /\ shards'[i].entries[k] # Unknown
                        /\ \E r \in Raws : signature[r] = k /\ class[r] = shards'[i].entries[k]
      BY DEF RoutesAreClasses
    <3>2. CASE i = j
      <4>1. shards'[i] = new /\ i \in DOMAIN shards
        BY <3>1, <3>2
      <4>2. \/ k = key /\ new.entries[k] = class[raw[t]]
            \/ k \in DOMAIN shards[i].entries /\ new.entries[k] = shards[i].entries[k]
        BY <3>2, <4>1, InsertedEntries
      <4> HIDE DEF new
      <4> QED
        BY <2>2, <3>1, <4>1, <4>2 DEF RoutesAreClasses
    <3>3. CASE i # j
      <4>1. shards'[i] = shards[i] /\ i \in DOMAIN shards
        BY <3>1, <3>3
      <4> QED
        BY <4>1 DEF RoutesAreClasses
    <3> QED
      BY <3>2, <3>3
  <2> QED
    BY <2>1, <2>2
<1>6. CASE UNCHANGED vars
  BY <1>1, <1>6 DEF vars, cache
<1>7. CASE Receive \/ Triage
  BY <1>1, <1>7 DEF Receive, Triage, cache
<1> QED
  BY <1>2, <1>3, <1>4, <1>5, <1>6, <1>7 DEF Next, Step, Worker

-----------------------------------------------------------------------------
(* Events.                                                                 *)

\* A log parsed by the extractor of its own class.
LEMMA RoutedByOwnClass ==
  ASSUME NEW r, NEW format, format = class[r]
  PROVE  parse_routed(r, format) = parse_lossless(r)
  BY DEF parse_routed, parse_lossless, Lossless, parse

\* The event thread t returns, given that the others keep theirs.
LEMMA Returned ==
  ASSUME Typed, SameAsBaseline, NEW t \in Threads, raw' = raw,
         NEW q \in Raws, signature[q] = signature[raw[t]],
         event' = [event EXCEPT ![t] = <<parse_routed(raw[t], class[q])>>]
  PROVE  SameAsBaseline'
<1> DEFINE result == parse_with_format(raw[t], class[q])
<1>1. event'[t] = <<parse_routed(raw[t], class[q])>>
      /\ \A u \in Threads \ {t} : event'[u] = event[u]
  BY DEF Typed
<1> SUFFICES ASSUME NEW u \in Threads, event'[u] \notin {<<>>, <<parse_lossless(raw[u])>>}
             PROVE  \E p \in Raws : /\ signature[p] = signature[raw[u]] /\ class[p] # class[raw[u]]
                                   /\ parse_with_format(raw[u], class[p]) # <<>>
                                   /\ event'[u] = <<parse_with_format(raw[u], class[p])[1]>>
  BY DEF SameAsBaseline
<1>2. CASE u # t
  BY <1>1, <1>2 DEF SameAsBaseline
<1>3. CASE u = t
  <2>1. class[q] # class[raw[t]]
    BY <1>1, <1>3, RoutedByOwnClass
  <2>2. result # <<>> /\ event'[t] = <<result[1]>>
    BY <1>1, <1>3 DEF parse_routed
  <2> QED
    BY <1>3, <2>1, <2>2
<1> QED
  BY <1>2, <1>3

LEMMA EventsKept ==
  ASSUME Typed, RoutesAreClasses, SameAsBaseline, [Next]_vars
  PROVE  SameAsBaseline'
<1>1. ASSUME raw' = raw, event' = event PROVE SameAsBaseline'
  BY <1>1 DEF SameAsBaseline
<1>2. ASSUME NEW t \in Threads, NEW r \in Raws, Call(t, r) PROVE SameAsBaseline'
  <2>1. /\ event'[t] = <<>>
        /\ \A u \in Threads \ {t} : raw'[u] = raw[u] /\ event'[u] = event[u]
    BY <1>2 DEF Call, Typed
  <2> QED
    BY <2>1 DEF SameAsBaseline
<1>3. ASSUME NEW t \in Threads, LookupHit(t) PROVE SameAsBaseline'
  <2> DEFINE key == signature[raw[t]]
  <2>1. /\ Cache!Holds(key) /\ raw' = raw /\ raw[t] \in Raws
        /\ event' = [event EXCEPT ![t] = <<parse_routed(raw[t], Cache!route(key))>>]
    BY <1>3 DEF LookupHit, Cache!get_hit, Return, Typed
  <2>2. key \in Nat /\ num_shards \in Nat \ {0}
    BY <2>1, PipelineAssumption
  <2>3. Cache!shard_idx(key) \in DOMAIN shards
    BY <2>2 DEF Cache!shard_idx, Typed
  <2>4. PICK q \in Raws : signature[q] = key /\ class[q] = Cache!route(key)
    BY <2>1, <2>3 DEF RoutesAreClasses, Cache!Holds, Cache!route
  <2> QED
    BY <2>1, <2>4, Returned
<1>4. ASSUME NEW t \in Threads, Promote(t) PROVE SameAsBaseline'
  <2>1. /\ raw' = raw /\ raw[t] \in Raws
        /\ event' = [event EXCEPT ![t] = <<parse_routed(raw[t], class[raw[t]])>>]
    BY <1>4 DEF Promote, Return, Typed
  <2> QED
    BY <2>1, Returned
<1>5. ASSUME NEW t \in Threads, Dispatch(t) PROVE SameAsBaseline'
  <2>1. /\ raw' = raw /\ raw[t] \in Raws
        /\ event' = [event EXCEPT ![t] = <<parse_lossless(raw[t])>>]
    BY <1>5 DEF Dispatch, Return, Typed
  <2> QED
    BY <2>1, Returned, RoutedByOwnClass
<1>6. ASSUME NEW t \in Threads, LookupMiss(t) \/ MatchCluster(t) \/ NewCluster(t)
      PROVE  SameAsBaseline'
  BY <1>1, <1>6 DEF LookupMiss, MatchCluster, NewCluster
<1>7. CASE UNCHANGED vars
  BY <1>1, <1>7 DEF vars
<1>8. CASE Receive \/ Triage
  BY <1>1, <1>8 DEF Receive, Triage
<1> QED
  BY <1>2, <1>3, <1>4, <1>5, <1>6, <1>7, <1>8 DEF Next, Step, Worker

\* A cached route is a class, in every behaviour of every program that calls
\* `process` and nothing else.
THEOREM CachedRoutesAreClasses == Spec => []RoutesAreClasses
<1>1. Init => Typed /\ RoutesAreClasses
  <2> SUFFICES ASSUME Init PROVE RoutesAreClasses
    BY InitTyped
  <2>1. shards = [i \in 0..(num_shards - 1) |-> Cache!EmptyShard]
    BY DEF Init, Cache!CacheInit
  <2> QED
    BY <2>1 DEF RoutesAreClasses, Cache!EmptyShard
<1>2. Typed /\ RoutesAreClasses /\ [Next]_vars => (Typed /\ RoutesAreClasses)'
  BY StepTyped, RoutesKept
<1> QED
  BY <1>1, <1>2, PTL DEF Spec

\* The tiers change no event but a log's whose signature another class shares.
THEOREM TiersChangeNothing == Spec => []SameAsBaseline
<1>1. Init => Typed /\ SameAsBaseline
  BY InitTyped DEF Init, SameAsBaseline
<1>2. Typed /\ RoutesAreClasses /\ SameAsBaseline /\ [Next]_vars => (Typed /\ SameAsBaseline)'
  BY StepTyped, EventsKept
<1> QED
  BY <1>1, <1>2, CachedRoutesAreClasses, PTL DEF Spec

-----------------------------------------------------------------------------
(* The pipeline is a client of the cache.                                  *)

\* The logs of this module are those of the theorems.
LEMMA SameLogs ==
  /\ Cached!Text = Text
  /\ \A log : Cached!fingerprint(log) = fingerprint(log)
  /\ Cached!VendorFormat = VendorFormat /\ Cached!Unknown = Unknown
  /\ \A log : Cached!classify(log) = classify(log)
<1>1. Cached!Text = Text /\ Cached!VendorFormat = VendorFormat /\ Cached!Unknown = Unknown
  BY DEF Cached!Text, Text, Cached!VendorFormat, VendorFormat, Cached!Patterns, Patterns,
         Cached!Unknown, Unknown
<1> USE DEF Cached!First, First, Cached!Words, Words, Cached!Within, Within, Cached!Markers, Markers,
            Cached!Has, Has, Cached!Opens, Opens
<1>2. \A log : Cached!fingerprint(log) = fingerprint(log)
  <2>1. \A words : Cached!AsaTag(words) = AsaTag(words)
    BY DEF Cached!AsaTag, AsaTag
  <2>2. \A words : Cached!FirstThree(words) = FirstThree(words)
    BY DEF Cached!FirstThree, FirstThree, Cached!Cardinality, Cardinality
  <2>3. /\ \A words, markers : Cached!Has(words, markers) = Has(words, markers)
        /\ \A words : Cached!Opens(words) = Opens(words)
    OBVIOUS
  <2> HIDE DEF Cached!Has, Has, Cached!Opens, Opens
  <2> QED
    BY <2>1, <2>2, <2>3 DEF Cached!fingerprint, fingerprint
<1>3. \A log : Cached!classify(log) = classify(log)
  BY DEF Cached!classify, classify, Cached!Matches, Matches, Cached!VendorFormat, VendorFormat,
         Cached!Patterns, Patterns, Cached!fallback_classify, fallback_classify,
         Cached!rules, rules, Cached!Unknown, Unknown
<1> QED
  BY <1>1, <1>2, <1>3

\* What is read off a log is what it is in the theorems, and what they assume holds.
LEMMA SameClasses ==
  /\ Cached!signature = signature /\ Cached!class = class
  /\ Cached!signature \in [Raws -> Keys] /\ VendorFormat = Cached!VendorFormat
  /\ DOMAIN <<>> \subseteq Raws
  /\ \A r \in DOMAIN <<>> : DOMAIN <<>>[r] \subseteq {"vendor", "disposition", "src", "dst"}
  /\ text \in [Raws -> Cached!Text]
  /\ hash \in [{Cached!fingerprint(text[r]) : r \in Raws} -> Nat]
<1>1. Cached!signature = signature /\ Cached!class = class
  BY SameLogs DEF Cached!signature, signature, Cached!class, class
<1>2. {Cached!fingerprint(text[r]) : r \in Raws} = {fingerprint(text[r]) : r \in Raws}
  BY SameLogs
<1>3. hash \in [{Cached!fingerprint(text[r]) : r \in Raws} -> Nat]
  BY <1>2, ParserAssumption, Zenon
<1>4. text \in [Raws -> Cached!Text] /\ Cached!signature \in [Raws -> Keys]
  BY <1>1, SameLogs, ParserAssumption, PipelineAssumption, Zenon
<1>5. DOMAIN <<>> \subseteq Raws
  OBVIOUS
<1>6. \A r \in DOMAIN <<>> : DOMAIN <<>>[r] \subseteq {"vendor", "disposition", "src", "dst"}
  OBVIOUS
<1> QED
  BY <1>1, <1>3, <1>4, <1>5, <1>6, SameLogs

\* The classifier answers with a vendor's format, or Unknown.
LEMMA ClassTyped == class \in [Raws -> VendorFormat \cup {Unknown}]
<1>1. Cached!class \in [Raws -> Cached!VendorFormat \cup {Cached!Unknown}]
  BY SameClasses, ParserAssumption, PipelineAssumption, Cached!ClassTyped, Zenon
<1> QED
  BY <1>1, SameClasses, SameLogs, Zenon

\* So is the cache.
LEMMA SameCache ==
  /\ Cache!CacheInit <=> Cached!CacheInit
  /\ [Cache!Next]_(Cache!cacheVars) <=> [Cached!Next]_(Cached!cacheVars)
  /\ Cache!OrderIsMap <=> Cached!OrderIsMap
  /\ Cache!Bounded <=> Cached!Bounded
<1>1. Cache!CacheInit <=> Cached!CacheInit
  BY DEF Cache!CacheInit, Cached!CacheInit, Cache!EmptyShard, Cached!EmptyShard
<1>2. \A S : Cache!Cardinality(S) = Cached!Cardinality(S)
  BY DEF Cache!Cardinality, Cached!Cardinality
<1>3. \A key : Cache!shard_idx(key) = Cached!shard_idx(key)
  BY DEF Cache!shard_idx, Cached!shard_idx
<1>4. \A key : /\ Cache!Holds(key) <=> Cached!Holds(key)
               /\ Cache!get_hit(key) <=> Cached!get_hit(key)
               /\ Cache!get_miss(key) <=> Cached!get_miss(key)
  BY <1>3 DEF Cache!Holds, Cached!Holds, Cache!get_hit, Cached!get_hit, Cache!get_miss, Cached!get_miss
<1>5. \A s : Cache!Full(s) <=> Cached!Full(s)
  BY <1>2 DEF Cache!Full, Cached!Full
<1>6. \A s, key, format : Cache!ShardInsert(s, key, format) = Cached!ShardInsert(s, key, format)
  BY DEF Cache!Full, Cached!Full, Cache!Cardinality, Cached!Cardinality,
              Cache!ShardInsert, Cached!ShardInsert, Cache!WithEntry, Cached!WithEntry,
              Cache!Without, Cached!Without, Cache!PushBack, Cached!PushBack,
              Cache!PopFront, Cached!PopFront
<1>7. \A key, format : Cache!insert(key, format) <=> Cached!insert(key, format)
  BY <1>3, <1>4, <1>5, <1>6 DEF Cache!insert, Cached!insert
<1>8. Cache!Next <=> Cached!Next
  BY <1>4, <1>7 DEF Cache!Next, Cached!Next
<1>9. Cache!cacheVars = Cached!cacheVars /\ (UNCHANGED Cache!cacheVars <=> UNCHANGED Cached!cacheVars)
  BY DEF Cache!cacheVars, Cached!cacheVars
<1>10. Cache!OrderIsMap <=> Cached!OrderIsMap
  BY DEF Cache!OrderIsMap, Cached!OrderIsMap, Cache!ShardOrdered, Cached!ShardOrdered
<1>11. Cache!Bounded <=> Cached!Bounded
  BY DEF Cache!Bounded, Cached!Bounded, Cache!ShardBounded, Cached!ShardBounded
<1> QED
  BY <1>1, <1>8, <1>9, <1>10, <1>11

LEMMA StepOfCache == Typed /\ [Next]_vars => [Cache!Next]_(Cache!cacheVars)
<1> SUFFICES ASSUME Typed, [Next]_vars PROVE [Cache!Next]_(Cache!cacheVars)
  OBVIOUS
<1>1. ASSUME UNCHANGED cache PROVE UNCHANGED Cache!cacheVars
  BY <1>1 DEF cache, Cache!cacheVars
<1>2. \A t \in Threads : raw[t] \in Raws /\ signature[raw[t]] \in Keys
  BY PipelineAssumption DEF Typed
<1>3. CASE UNCHANGED vars
  BY <1>1, <1>3 DEF vars
<1>4. ASSUME NEW t \in Threads, NEW r \in Raws, Call(t, r) PROVE UNCHANGED Cache!cacheVars
  BY <1>1, <1>4 DEF Call
<1>5. ASSUME NEW t \in Threads, LookupHit(t) PROVE Cache!Next
  BY <1>2, <1>5 DEF LookupHit, Cache!Next
<1>6. ASSUME NEW t \in Threads, LookupMiss(t) PROVE Cache!Next
  BY <1>2, <1>6 DEF LookupMiss, Cache!Next
<1>7. ASSUME NEW t \in Threads, MatchCluster(t) \/ NewCluster(t) \/ Dispatch(t)
      PROVE  UNCHANGED Cache!cacheVars
  BY <1>1, <1>7 DEF MatchCluster, NewCluster, Dispatch
<1>8. ASSUME NEW t \in Threads, Promote(t) PROVE [Cache!Next]_(Cache!cacheVars)
  <2>1. CASE class[raw[t]] = Unknown
    BY <1>1, <1>8, <2>1 DEF Promote
  <2>2. CASE class[raw[t]] # Unknown
    <3>1. class[raw[t]] \in VendorFormat
      BY <1>2, <2>2, ClassTyped
    <3>2. Cache!insert(signature[raw[t]], class[raw[t]])
      BY <1>8, <2>2 DEF Promote
    <3> QED
      BY <1>2, <3>1, <3>2 DEF Cache!Next
  <2> QED
    BY <2>1, <2>2
<1>9. CASE Worker
  BY <1>1, <1>9 DEF Worker, Receive, Triage
<1> QED
  BY <1>3, <1>4, <1>5, <1>6, <1>7, <1>8, <1>9 DEF Next, Step

\* The pipeline uses the cache as LruCache says, whoever calls it: it looks signatures up,
\* and inserts formats of vendors only (pipeline.rs, process).
THEOREM PipelineImplementsCache == Spec => Cache!Spec
<1>1. Init => Cache!CacheInit
  BY DEF Init
<1> QED
  BY <1>1, InitTyped, StepTyped, StepOfCache, PTL DEF Spec, Cache!Spec

\* So the queue and the map of a shard of its cache hold the same keys, each once, and no
\* shard outgrows its capacity (lru_cache.rs, Shard::insert).
THEOREM PipelineCacheSound == Spec => [](Cache!OrderIsMap /\ Cache!Bounded)
<1>1. Spec => Cached!Spec
  BY PipelineImplementsCache, SameCache, PTL DEF Cache!Spec, Cached!Spec
<1>2. (Cached!Spec => []Cached!OrderIsMap) /\ (Cached!Spec => []Cached!Bounded)
  BY SameClasses, ParserAssumption, PipelineAssumption, Cached!OrderIsMapAlways, Cached!BoundedAlways
<1> QED
  BY <1>1, <1>2, SameCache, PTL

-----------------------------------------------------------------------------
(* Counters.                                                               *)

Standing(f, labels) == {t \in Threads : f[t] \in labels}

\* One thread that moves changes the number of those at some labels by one at most.
LEMMA Moves ==
  ASSUME Typed, NEW t \in Threads, NEW label \in Labels,
         Goto(t, label), NEW labels
  PROVE  /\ InState(labels) \in Nat
         /\ InState(labels)' = InState(labels)
              + (IF label \in labels THEN 1 ELSE 0) - (IF pc[t] \in labels THEN 1 ELSE 0)
<1> DEFINE A == Standing(pc, labels)
           B == Standing(pc', labels)
<1>1. IsFiniteSet(A) /\ IsFiniteSet(B)
  <2>1. A \subseteq Threads /\ B \subseteq Threads
    BY DEF Standing
  <2> QED
    BY <2>1, PipelineAssumption, FS_Subset
<1>2. InState(labels) = Cardinality(A) /\ InState(labels)' = Cardinality(B)
  BY DEF InState, Standing
<1>3. \A u \in Threads : u # t => (u \in B <=> u \in A)
  BY DEF Standing, Goto, Typed
<1>4. (t \in A <=> pc[t] \in labels) /\ (t \in B <=> label \in labels)
  BY DEF Standing, Goto, Typed
<1>5. A \subseteq Threads /\ B \subseteq Threads
  BY DEF Standing
<1> HIDE DEF A, B
<1>6. Cardinality(A) \in Nat /\ Cardinality(B) \in Nat
  BY <1>1, FS_CardinalityType
<1>7. CASE t \in A /\ t \in B
  <2>1. A = B
    BY <1>3, <1>5, <1>7
  <2> QED
    BY <1>2, <1>4, <1>6, <1>7, <2>1
<1>8. CASE t \notin A /\ t \notin B
  <2>1. A = B
    BY <1>3, <1>5, <1>8
  <2> QED
    BY <1>2, <1>4, <1>6, <1>8, <2>1
<1>9. CASE t \notin A /\ t \in B
  <2>1. B = A \cup {t}
    BY <1>3, <1>5, <1>9
  <2>2. Cardinality(B) = Cardinality(A) + 1
    BY <1>1, <1>9, <2>1, FS_AddElement
  <2> QED
    BY <1>2, <1>4, <1>6, <1>9, <2>2
<1>10. CASE t \in A /\ t \notin B
  <2>1. B = A \ {t}
    BY <1>3, <1>5, <1>10
  <2>2. Cardinality(B) = Cardinality(A) - 1
    BY <1>1, <1>10, <2>1, FS_RemoveElement
  <2> QED
    BY <1>2, <1>4, <1>6, <1>10, <2>2
<1> QED
  BY <1>7, <1>8, <1>9, <1>10
Called == {"lookup", "drain", "promote", "dispatch", "panicked"}
Missed == {"drain", "promote", "dispatch"}
Sent   == {"dispatch"}

\* TiersAddUp, and the counter in OneExemplarPerCluster, for given counts of threads.
Sums(called, missed, sent) ==
  /\ total_events = hits + tier2_drain_hits + tier3_laya_dispatches + called
  /\ misses = tier2_drain_hits + tier3_laya_dispatches + missed
  /\ tier3_laya_dispatches + sent = next_cluster_id - 1

Counts == Sums(InState(Called), InState(Missed), InState(Sent))

LEMMA CountsKept == Typed /\ Counts /\ [Next]_vars => Counts'
<1> SUFFICES ASSUME Typed, Counts, [Next]_vars PROVE Counts'
  OBVIOUS
<1> DEFINE c == InState(Called)
           m == InState(Missed)
           d == InState(Sent)
<1>1. ASSUME pc' = pc PROVE c' = c /\ m' = m /\ d' = d
  BY <1>1 DEF InState
<1>2. ASSUME NEW t \in Threads, NEW label \in Labels, Goto(t, label)
      PROVE  /\ c \in Nat /\ m \in Nat /\ d \in Nat
             /\ c' = c + (IF label \in Called THEN 1 ELSE 0) - (IF pc[t] \in Called THEN 1 ELSE 0)
             /\ m' = m + (IF label \in Missed THEN 1 ELSE 0) - (IF pc[t] \in Missed THEN 1 ELSE 0)
             /\ d' = d + (IF label \in Sent THEN 1 ELSE 0) - (IF pc[t] \in Sent THEN 1 ELSE 0)
  BY <1>2, Moves
<1>3. Sums(c, m, d)
  BY DEF Counts
<1>4. SUFFICES Sums(c, m, d)'
  BY DEF Counts
<1> HIDE DEF c, m, d
<1> USE DEF Sums, Called, Missed, Sent, Labels
<1>5. ASSUME NEW t \in Threads, NEW r \in Raws, Call(t, r) PROVE Sums(c, m, d)'
  <2>1. pc[t] = "idle" /\ \E label \in {"lookup", "panicked"} : Goto(t, label)
    BY <1>5 DEF Call
  <2>2. c' = c + 1 /\ m' = m /\ d' = d /\ c \in Nat
    BY <1>2, <2>1
  <2> QED
    BY <1>3, <1>5, <2>2 DEF Call, cache, Typed
<1>6. ASSUME NEW t \in Threads, LookupHit(t) PROVE Sums(c, m, d)'
  <2>1. hits' = hits + 1 /\ misses' = misses
    BY <1>6 DEF LookupHit, Cache!get_hit
  <2>2. pc[t] = "lookup" /\ Goto(t, "idle")
    BY <1>6 DEF LookupHit, Return
  <2>3. c' = c - 1 /\ m' = m /\ d' = d /\ c \in Nat
    BY <1>2, <2>2
  <2> QED
    BY <1>3, <1>6, <2>1, <2>3 DEF LookupHit, counters, Typed
<1>7. ASSUME NEW t \in Threads, LookupMiss(t) PROVE Sums(c, m, d)'
  <2>1. misses' = misses + 1 /\ hits' = hits
    BY <1>7 DEF LookupMiss, Cache!get_miss
  <2>2. pc[t] = "lookup" /\ Goto(t, "drain")
    BY <1>7 DEF LookupMiss
  <2>3. c' = c /\ m' = m + 1 /\ d' = d /\ m \in Nat
    BY <1>2, <2>2
  <2> QED
    BY <1>3, <1>7, <2>1, <2>3 DEF LookupMiss, counters, Typed
<1>8. ASSUME NEW t \in Threads, MatchCluster(t) PROVE Sums(c, m, d)'
  <2>1. pc[t] = "drain" /\ Goto(t, "promote")
    BY <1>8 DEF MatchCluster
  <2>2. c' = c /\ m' = m /\ d' = d
    BY <1>2, <2>1
  <2> QED
    BY <1>3, <1>8, <2>2 DEF MatchCluster, cache, counters
<1>9. ASSUME NEW t \in Threads, NewCluster(t) PROVE Sums(c, m, d)'
  <2>1. pc[t] = "drain" /\ Goto(t, "dispatch")
    BY <1>9 DEF NewCluster
  <2>2. c' = c /\ m' = m /\ d' = d + 1 /\ d \in Nat
    BY <1>2, <2>1
  <2> QED
    BY <1>3, <1>9, <2>2 DEF NewCluster, cache, counters, Typed
<1>10. ASSUME NEW t \in Threads, Promote(t) PROVE Sums(c, m, d)'
  <2>1. hits' = hits /\ misses' = misses
    BY <1>10 DEF Promote, cache, Cache!insert
  <2>2. pc[t] = "promote" /\ Goto(t, "idle")
    BY <1>10 DEF Promote, Return
  <2>3. c' = c - 1 /\ m' = m - 1 /\ d' = d /\ c \in Nat /\ m \in Nat
    BY <1>2, <2>2
  <2> QED
    BY <1>3, <1>10, <2>1, <2>3 DEF Promote, Typed
<1>11. ASSUME NEW t \in Threads, Dispatch(t) PROVE Sums(c, m, d)'
  <2>1. pc[t] = "dispatch" /\ Goto(t, "idle")
    BY <1>11 DEF Dispatch, Return
  <2>2. c' = c - 1 /\ m' = m - 1 /\ d' = d - 1 /\ c \in Nat /\ m \in Nat /\ d \in Nat
    BY <1>2, <2>1
  <2> QED
    BY <1>3, <1>11, <2>2 DEF Dispatch, cache, Typed
<1>12. CASE UNCHANGED vars
  BY <1>1, <1>3, <1>12 DEF vars, cache, counters
<1>13. CASE Receive \/ Triage
  BY <1>1, <1>3, <1>13 DEF Receive, Triage, cache, counters
<1> QED
  BY <1>5, <1>6, <1>7, <1>8, <1>9, <1>10, <1>11, <1>12, <1>13 DEF Next, Step, Worker

LEMMA CountsAlways == Spec => [](Typed /\ Counts)
<1>1. ASSUME Init PROVE Counts
  <2>1. /\ {t \in Threads : pc[t] \in Called} = {}
        /\ {t \in Threads : pc[t] \in Missed} = {}
        /\ {t \in Threads : pc[t] \in Sent} = {}
    BY <1>1 DEF Init, Called, Missed, Sent
  <2>2. InState(Called) = 0 /\ InState(Missed) = 0 /\ InState(Sent) = 0
    BY <2>1, FS_EmptySet DEF InState
  <2> QED
    BY <1>1, <2>2 DEF Init, Cache!CacheInit, Counts, Sums
<1> QED
  BY <1>1, InitTyped, StepTyped, CountsKept, PTL DEF Spec

\* Every call is in exactly one tier or under way.
THEOREM TiersAlwaysAddUp == Spec => []TiersAddUp
<1>1. Counts => TiersAddUp
  BY DEF Counts, Sums, Called, Missed, TiersAddUp
<1> QED
  BY <1>1, CountsAlways, PTL

-----------------------------------------------------------------------------
(* Clusters.                                                               *)

Ids(tasks) == [i \in DOMAIN tasks |-> tasks[i].cluster_id]

\* The ids handed out: those the worker has or had, and those about to be sent.
Fresh ==
  /\ \A i \in DOMAIN Handled : Handled[i] < next_cluster_id
  /\ \A i, j \in DOMAIN Handled : Handled[i] = Handled[j] => i = j
  /\ \A t \in Threads : pc[t] = "dispatch" =>
       /\ cluster[t] < next_cluster_id
       /\ \A i \in DOMAIN Handled : Handled[i] # cluster[t]
       /\ \A u \in Threads : pc[u] = "dispatch" /\ cluster[u] = cluster[t] => u = t

LEMMA IdsTyped ==
  ASSUME NEW s \in Seq(Task)
  PROVE  /\ Ids(s) \in Seq(Nat) /\ Len(Ids(s)) = Len(s)
         /\ \A i \in 1..Len(s) : Ids(s)[i] = s[i].cluster_id
<1>1. Len(s) \in Nat /\ DOMAIN s = 1..Len(s) /\ \A i \in 1..Len(s) : s[i] \in Task
  BY LenProperties, ElementOfSeq
<1>2. Ids(s) = [i \in 1..Len(s) |-> s[i].cluster_id]
  BY <1>1 DEF Ids
<1>3. Ids(s) \in [1..Len(s) -> Nat]
  BY <1>1, <1>2 DEF Task
<1>4. Ids(s) \in Seq(Nat)
  BY <1>1, <1>3, SeqDef
<1>5. Len(Ids(s)) = Len(s)
  BY <1>1, <1>2, <1>4
<1> QED
  BY <1>2, <1>4, <1>5

LEMMA HandledTyped ==
  ASSUME Typed
  PROVE  Handled \in Seq(Nat) /\ Handled = triaged \o Ids(working) \o Ids(ring)
<1>1. Ids(working) \in Seq(Nat) /\ Ids(ring) \in Seq(Nat)
  BY IdsTyped DEF Typed
<1>2. Handled = triaged \o Ids(working) \o Ids(ring)
  BY DEF Handled, Ids
<1> QED
  BY <1>1, <1>2 DEF Typed

\* What the worker does moves ids along.
LEMMA HandedOn ==
  ASSUME Typed, Typed', Receive \/ Triage
  PROVE  Handled' = Handled
<1>1. Handled = triaged \o Ids(working) \o Ids(ring)
  BY HandledTyped
<1>2. Handled' = triaged' \o Ids(working') \o Ids(ring')
  BY DEF Handled, Ids
<1>3. /\ triaged \in Seq(Nat) /\ triaged' \in Seq(Nat)
      /\ Ids(working) \in Seq(Nat) /\ Ids(working') \in Seq(Nat)
      /\ Ids(ring) \in Seq(Nat) /\ Ids(ring') \in Seq(Nat)
  BY IdsTyped DEF Typed
<1>4. CASE Receive
  <2>1. /\ working = <<>> /\ ring \in Seq(Task) /\ ring # <<>>
        /\ working' = <<Head(ring)>> /\ ring' = Tail(ring) /\ triaged' = triaged
        /\ working \in Seq(Task) /\ working' \in Seq(Task)
    BY <1>4 DEF Receive, Typed
  <2>2. Ids(working) = <<>>
    BY <2>1 DEF Ids
  <2>3. ring' \in Seq(Task) /\ Len(ring) \in Nat \ {0} /\ Len(ring') = Len(ring) - 1
        /\ \A i \in 1..Len(ring') : ring'[i] = ring[i + 1]
    BY <2>1, HeadTailProperties, EmptySeq
  <2>4. Len(Ids(working')) = 1 /\ Ids(working')[1] = ring[1].cluster_id
    <3>1. Len(working') = 1 /\ working'[1] = ring[1] /\ 1 \in 1..1
      BY <2>1
    <3>2. /\ Len(Ids(working')) = Len(working')
          /\ \A i \in 1..Len(working') : Ids(working')[i] = working'[i].cluster_id
      BY <2>1, IdsTyped
    <3> QED
      BY <3>1, <3>2
  <2>5. Ids(working') \o Ids(ring') = Ids(ring)
    <3> DEFINE joined == Ids(working') \o Ids(ring')
    <3>1. /\ Len(Ids(ring)) = Len(ring) /\ Len(Ids(ring')) = Len(ring) - 1
          /\ \A i \in 1..Len(ring) : Ids(ring)[i] = ring[i].cluster_id
          /\ \A i \in 1..Len(ring') : Ids(ring')[i] = ring[i + 1].cluster_id
      BY <2>1, <2>3, IdsTyped
    <3>2. /\ joined \in Seq(Nat) /\ Len(joined) = Len(ring)
          /\ \A i \in 1..Len(ring) :
               joined[i] = IF i <= 1 THEN Ids(working')[i] ELSE Ids(ring')[i - 1]
      <4>1. Len(Ids(working')) + Len(Ids(ring')) = Len(ring)
        BY <2>3, <2>4, <3>1
      <4>2. /\ joined \in Seq(Nat)
            /\ Len(joined) = Len(Ids(working')) + Len(Ids(ring'))
            /\ \A i \in 1..Len(Ids(working')) + Len(Ids(ring')) :
                 joined[i] = IF i <= Len(Ids(working')) THEN Ids(working')[i]
                             ELSE Ids(ring')[i - Len(Ids(working'))]
        BY <1>3, ConcatProperties
      <4> HIDE DEF joined
      <4> QED
        BY <2>4, <4>1, <4>2
    <3>3. \A i \in 1..Len(ring) : joined[i] = Ids(ring)[i]
      <4> SUFFICES ASSUME NEW i \in 1..Len(ring) PROVE joined[i] = Ids(ring)[i]
        OBVIOUS
      <4>1. CASE i <= 1
        BY <2>3, <2>4, <3>1, <3>2, <4>1
      <4>2. CASE ~(i <= 1)
        <5>1. i - 1 \in 1..Len(ring') /\ (i - 1) + 1 = i
          BY <2>3, <4>2
        <5> QED
          BY <3>1, <3>2, <4>2, <5>1
      <4> QED
        BY <4>1, <4>2
    <3> QED
      BY <1>3, <3>1, <3>2, <3>3, SeqEqual
  <2> QED
    <3>1. Handled = triaged \o Ids(ring)
      BY <1>1, <1>3, <2>2, ConcatEmptySeq
    <3>2. Handled' = triaged \o (Ids(working') \o Ids(ring'))
      <4>1. Handled' = (triaged \o Ids(working')) \o Ids(ring')
        BY <1>2, <2>1
      <4>2. (triaged \o Ids(working')) \o Ids(ring') = triaged \o (Ids(working') \o Ids(ring'))
        <5> DEFINE A == triaged
                   B == Ids(working')
                   C == Ids(ring')
        <5>1. A \in Seq(Nat) /\ B \in Seq(Nat) /\ C \in Seq(Nat)
          BY <1>3
        <5> HIDE DEF A, B, C
        <5>2. (A \o B) \o C = A \o (B \o C)
          BY <5>1, ConcatAssociative
        <5> QED
          BY <5>2 DEF A, B, C
      <4> QED
        BY <4>1, <4>2
    <3> QED
      BY <2>5, <3>1, <3>2
<1>5. CASE Triage
  <2>1. /\ working # <<>> /\ working \in Seq(Task) /\ Len(working) <= 1
        /\ working' = <<>> /\ ring' = ring /\ triaged' = Append(triaged, working[1].cluster_id)
    BY <1>5 DEF Triage, Typed
  <2>2. Len(working) = 1
    <3>1. Len(working) \in Nat \ {0}
      BY <2>1, EmptySeq
    <3>2. Len(working) <= 1
      BY <2>1
    <3> DEFINE n == Len(working)
    <3> HIDE DEF n
    <3>3. n \in Nat \ {0} /\ n <= 1 => n = 1
      OBVIOUS
    <3> QED
      BY <3>1, <3>2, <3>3 DEF n
  <2>3. Len(Ids(working)) = 1 /\ Ids(working)[1] = working[1].cluster_id
    BY <2>1, <2>2, IdsTyped
  <2>4. Ids(working') = <<>>
    BY <2>1 DEF Ids
  <2>5. Ids(working) = <<working[1].cluster_id>>
    BY <1>3, <2>3
  <2>6. triaged' = triaged \o Ids(working)
    BY <1>3, <2>1, <2>3, <2>5
  <2> QED
    BY <1>1, <1>2, <1>3, <2>1, <2>4, <2>6, ConcatEmptySeq
<1> QED
  BY <1>4, <1>5

\* A send appends an id.
LEMMA HandledSent ==
  ASSUME Typed, Typed', NEW task \in Task, ring' = Append(ring, task),
         working' = working, triaged' = triaged
  PROVE  Handled' = Append(Handled, task.cluster_id)
<1> DEFINE id == task.cluster_id
           A  == triaged \o Ids(working)
           B  == Ids(ring)
<1>1. Ids(ring') = Append(B, id)
  <2>1. /\ ring \in Seq(Task) /\ ring' \in Seq(Task) /\ Len(ring) \in Nat
        /\ Len(ring') = Len(ring) + 1 /\ ring'[Len(ring) + 1] = task
        /\ \A i \in 1..Len(ring) : ring'[i] = ring[i]
    BY DEF Typed
  <2>2. /\ Ids(ring') \in Seq(Nat) /\ Len(Ids(ring')) = Len(ring) + 1
        /\ \A i \in 1..(Len(ring) + 1) : Ids(ring')[i] = ring'[i].cluster_id
    BY <2>1, IdsTyped
  <2>3. /\ B \in Seq(Nat) /\ Len(B) = Len(ring)
        /\ \A i \in 1..Len(ring) : B[i] = ring[i].cluster_id
    BY <2>1, IdsTyped
  <2>4. id \in Nat
    BY DEF Task
  <2> HIDE DEF B, id
  <2>5. /\ Append(B, id) \in Seq(Nat) /\ Len(Append(B, id)) = Len(ring) + 1
        /\ Append(B, id)[Len(ring) + 1] = id
        /\ \A i \in 1..Len(ring) : Append(B, id)[i] = B[i]
    BY <2>1, <2>3, <2>4
  <2>6. ASSUME NEW i \in 1..(Len(ring) + 1) PROVE Ids(ring')[i] = Append(B, id)[i]
    <3>1. CASE i = Len(ring) + 1
      BY <2>1, <2>2, <2>5, <3>1 DEF id
    <3>2. CASE i # Len(ring) + 1
      <4>1. i \in 1..Len(ring)
        BY <2>1, <3>2
      <4> QED
        BY <2>1, <2>2, <2>3, <2>5, <4>1
    <3> QED
      BY <3>1, <3>2
  <2> QED
    BY <2>2, <2>5, <2>6, SeqEqual
<1>2. Handled = A \o B /\ A \in Seq(Nat) /\ B \in Seq(Nat) /\ id \in Nat
  <2>1. Handled = A \o B
    BY HandledTyped
  <2>2. triaged \in Seq(Nat) /\ Ids(working) \in Seq(Nat) /\ B \in Seq(Nat)
    BY IdsTyped DEF Typed
  <2> QED
    BY <2>1, <2>2 DEF Task
<1>3. Handled' = A \o Append(B, id)
  BY <1>1 DEF Handled, Ids
<1> HIDE DEF A, B, id
<1>4. A \o Append(B, id) = Append(A \o B, id)
  BY <1>2
<1> QED
  BY <1>2, <1>3, <1>4 DEF id

\* No step but those of the worker, and a send, touches the ids handed on.
LEMMA SameHandled ==
  ASSUME ring' = ring, working' = working, triaged' = triaged
  PROVE  Handled' = Handled
BY DEF Handled

\* Fresh holds again when no id is handed out and no thread is about to send.
LEMMA FreshUnlessSending ==
  ASSUME Fresh, Handled' = Handled, next_cluster_id' = next_cluster_id, cluster' = cluster,
         \A u \in Threads : pc'[u] = "dispatch" => pc[u] = "dispatch"
  PROVE  Fresh'
BY DEF Fresh

LEMMA FreshKept == Typed /\ Typed' /\ Fresh /\ [Next]_vars => Fresh'
<1> SUFFICES ASSUME Typed, Typed', Fresh, [Next]_vars PROVE Fresh'
  OBVIOUS
<1>1. ASSUME NEW t \in Threads, NEW label, label # "dispatch", Goto(t, label)
      PROVE  \A u \in Threads : pc'[u] = "dispatch" => pc[u] = "dispatch"
  BY <1>1 DEF Goto, Typed
<1>2. ASSUME NEW t \in Threads, NEW r \in Raws, Call(t, r) PROVE Fresh'
  <2>1. Goto(t, "lookup") \/ Goto(t, "panicked")
    BY <1>2 DEF Call
  <2>2. \A u \in Threads : pc'[u] = "dispatch" => pc[u] = "dispatch"
    BY <1>1, <2>1
  <2> QED
    BY <1>2, <2>2, SameHandled, FreshUnlessSending DEF Call, worker
<1>3. ASSUME NEW t \in Threads, LookupHit(t) \/ LookupMiss(t) \/ MatchCluster(t) \/ Promote(t)
      PROVE  Fresh'
  <2>1. Goto(t, "idle") \/ Goto(t, "drain") \/ Goto(t, "promote")
    BY <1>3 DEF LookupHit, LookupMiss, MatchCluster, Promote, Return
  <2>2. \A u \in Threads : pc'[u] = "dispatch" => pc[u] = "dispatch"
    BY <1>1, <2>1
  <2> QED
    BY <1>3, <2>2, SameHandled, FreshUnlessSending
       DEF LookupHit, LookupMiss, MatchCluster, Promote, worker
<1>4. ASSUME NEW t \in Threads, NewCluster(t) PROVE Fresh'
  <2>1. /\ Handled' = Handled /\ Handled \in Seq(Nat)
        /\ next_cluster_id' = next_cluster_id + 1 /\ next_cluster_id \in Nat
    BY <1>4, SameHandled, HandledTyped DEF NewCluster, worker, Typed
  <2>2. /\ cluster \in [Threads -> Nat] /\ cluster'[t] = next_cluster_id
        /\ \A u \in Threads \ {t} : cluster'[u] = cluster[u] /\ pc'[u] = pc[u]
    BY <1>4 DEF NewCluster, Goto, Typed
  <2>3. \A i \in DOMAIN Handled : Handled[i] \in Nat /\ Handled[i] < next_cluster_id
    BY <2>1 DEF Fresh
  <2> QED
    BY <2>1, <2>2, <2>3 DEF Fresh
<1>5. ASSUME NEW t \in Threads, Dispatch(t) PROVE Fresh'
  <2>1. /\ pc[t] = "dispatch" /\ Goto(t, "idle")
        /\ next_cluster_id' = next_cluster_id /\ cluster' = cluster
        /\ working' = working /\ triaged' = triaged
    BY <1>5 DEF Dispatch, Return, worker
  <2>2. \A u \in Threads : pc'[u] = "dispatch" => pc[u] = "dispatch" /\ u # t
    BY <2>1 DEF Goto, Typed
  <2>3. CASE ring' = ring
    BY <2>1, <2>2, <2>3, SameHandled, FreshUnlessSending
  <2>4. CASE ring' # ring
    <3> DEFINE task == [cluster_id |-> cluster[t], sample_log |-> raw[t]]
    <3>1. ring' = Append(ring, task) /\ task \in Task
      BY <1>5, <2>4 DEF Dispatch, Typed, Task
    <3>2. Handled \in Seq(Nat) /\ cluster[t] \in Nat
      BY HandledTyped DEF Typed
    <3>3. Handled' = Append(Handled, cluster[t])
      BY <2>1, <3>1, HandledSent
    <3>4. /\ Len(Handled) \in Nat /\ DOMAIN Handled = 1..Len(Handled)
          /\ DOMAIN Handled' = 1..(Len(Handled) + 1)
          /\ Handled'[Len(Handled) + 1] = cluster[t]
          /\ \A i \in 1..Len(Handled) : Handled'[i] = Handled[i]
      BY <3>2, <3>3
    <3>5. \A i \in DOMAIN Handled' : i \in DOMAIN Handled \/ i = Len(Handled) + 1
      BY <3>4
    <3>6. \A i \in DOMAIN Handled' : Handled'[i] < next_cluster_id
      BY <2>1, <3>4, <3>5 DEF Fresh
    <3>7. \A i, j \in DOMAIN Handled' : Handled'[i] = Handled'[j] => i = j
      BY <2>1, <3>4, <3>5 DEF Fresh
    <3>8. \A u \in Threads : pc'[u] = "dispatch" =>
            \A i \in DOMAIN Handled' : Handled'[i] # cluster[u]
      BY <2>1, <2>2, <3>4, <3>5 DEF Fresh
    <3> QED
      BY <2>1, <2>2, <3>6, <3>7, <3>8 DEF Fresh
  <2> QED
    BY <2>3, <2>4
<1>6. CASE Receive \/ Triage
  BY <1>6, HandedOn, FreshUnlessSending DEF Receive, Triage
<1>7. CASE UNCHANGED vars
  BY <1>7, SameHandled, FreshUnlessSending DEF vars, worker
<1> QED
  BY <1>2, <1>3, <1>4, <1>5, <1>6, <1>7 DEF Next, Step, Worker

\* No cluster is sent to the worker twice, whatever callers, worker and ring do.
THEOREM OneExemplarAlways == Spec => []OneExemplarPerCluster
<1>1. ASSUME Init PROVE Fresh
  <2>1. Handled = <<>> /\ \A t \in Threads : pc[t] # "dispatch"
    BY <1>1 DEF Init, Handled
  <2> QED
    BY <2>1 DEF Fresh
<1>2. Fresh /\ Counts => OneExemplarPerCluster
  BY DEF Fresh, Counts, Sums, Sent, OneExemplarPerCluster
<1>3. Typed /\ [Next]_vars => Typed'
  BY StepTyped
<1> QED
  BY <1>1, <1>2, <1>3, InitTyped, FreshKept, CountsAlways, PTL DEF Spec

-----------------------------------------------------------------------------
(* The benchmark.                                                          *)

\* What the benchmark's calls rely on to name a log of its corpus.
BenchTyped ==
  /\ corpus \in Corpora
  /\ local_count \in [Workers -> Nat]
  /\ samples \in Nat

LEMMA LogsOfCorpus ==
  ASSUME NEW c \in Corpora
  PROVE  /\ Len(c) \in Nat \ {0}
         /\ \A i \in 1..Len(c) : c[i] \in Raws
         /\ \A n \in Nat : c[(n % Len(c)) + 1] \in Raws
<1>1. c \in Seq(Raws) /\ c # <<>>
  BY EvaluatorAssumption
<1>2. Len(c) \in Nat \ {0} /\ \A i \in 1..Len(c) : c[i] \in Raws
  BY <1>1, EmptySeq, ElementOfSeq
<1>3. ASSUME NEW n \in Nat PROVE (n % Len(c)) + 1 \in 1..Len(c)
  BY <1>2
<1> QED
  BY <1>2, <1>3

LEMMA BenchStep ==
  ASSUME Typed, BenchTyped, [EvaluatorNext]_evaluatorVars
  PROVE  [Next]_vars /\ BenchTyped'
<1>1. /\ Main \in Threads /\ Workers \subseteq Threads /\ threads \in Nat
      /\ \A w \in Workers : w \in Nat
  BY EvaluatorAssumption DEF Main, Workers
<1>2. /\ Len(corpus) \in Nat \ {0}
      /\ \A i \in 1..Len(corpus) : corpus[i] \in Raws
      /\ \A n \in Nat : corpus[(n % Len(corpus)) + 1] \in Raws
  BY LogsOfCorpus DEF BenchTyped
<1>3. ASSUME UNCHANGED vars, UNCHANGED <<local_count, corpus, samples>>
      PROVE  [Next]_vars /\ BenchTyped'
  BY <1>3 DEF BenchTyped
<1>4. CASE WarmUpCall
  <2>1. total_events + 1 \in 1..Len(corpus)
    <3>1. total_events \in Nat /\ total_events < warmup
      BY <1>4 DEF WarmUpCall, Typed
    <3>2. WarmUp \in Nat /\ Len(corpus) \in Nat \ {0}
      BY <1>2, EvaluatorAssumption
    <3>3. warmup \in Nat /\ warmup <= Len(corpus)
      BY <3>2 DEF warmup
    <3> QED
      BY <3>1, <3>2, <3>3
  <2>2. corpus[total_events + 1] \in Raws /\ Call(Main, corpus[total_events + 1])
    BY <1>2, <1>4, <2>1 DEF WarmUpCall
  <2> QED
    BY <1>1, <1>4, <2>2 DEF WarmUpCall, tallies, bench, BenchTyped, Next
<1>5. CASE Sample
  <2>1. Call(Main, corpus[(samples % Len(corpus)) + 1]) /\ samples \in Nat
    BY <1>5 DEF Sample, BenchTyped
  <2>2. corpus[(samples % Len(corpus)) + 1] \in Raws
    BY <1>2, <2>1
  <2> QED
    BY <1>1, <1>5, <2>1, <2>2 DEF Sample, tallies, BenchTyped, Next
<1>6. ASSUME NEW w \in Workers, WorkerCall(w) PROVE [Next]_vars /\ BenchTyped'
  <2> DEFINE n == w + local_count[w]
  <2>1. n \in Nat
    BY <1>1 DEF BenchTyped
  <2>2. corpus[(n % Len(corpus)) + 1] \in Raws /\ Call(w, corpus[(n % Len(corpus)) + 1])
    BY <1>2, <1>6, <2>1 DEF WorkerCall
  <2> QED
    BY <1>1, <1>6, <2>2 DEF WorkerCall, tallies, bench, BenchTyped, Next
<1>7. ASSUME NEW t \in Threads, Process(t) PROVE [Next]_vars /\ BenchTyped'
  <2>1. Step(t) /\ corpus' = corpus /\ samples' = samples
    BY <1>7 DEF Process, bench
  <2>2. local_count' = local_count
        \/ \E w \in Workers : local_count' = [local_count EXCEPT ![w] = local_count[w] + 1]
    BY <1>7 DEF Process, tallies, Count
  <2>3. local_count' \in [Workers -> Nat]
    BY <2>2 DEF BenchTyped
  <2> QED
    BY <2>1, <2>3 DEF BenchTyped, Next
<1>8. ASSUME NEW w \in Workers, Exit(w) PROVE [Next]_vars /\ BenchTyped'
  BY <1>3, <1>8 DEF Exit
<1>9. CASE Start \/ Stop \/ Report
  BY <1>3, <1>9 DEF Start, Stop, Report, tallies
<1>10. CASE Triaging
  BY <1>10 DEF Triaging, tallies, bench, BenchTyped, Next
<1>11. CASE UNCHANGED evaluatorVars
  BY <1>3, <1>11 DEF evaluatorVars, tallies, bench
<1> QED
  BY <1>4, <1>5, <1>6, <1>7, <1>8, <1>9, <1>10, <1>11 DEF EvaluatorNext

\* The benchmark only ever calls `process`: what holds of the pipeline whoever
\* calls it holds of it in the benchmark.
THEOREM BenchmarkIsACaller == EvaluatorSpec => Spec
<1>1. EvaluatorInit => Init /\ BenchTyped
  <2>1. 0 \in Nat
    OBVIOUS
  <2> QED
    BY <2>1 DEF EvaluatorInit, BenchTyped
<1>2. Typed /\ BenchTyped /\ [EvaluatorNext]_evaluatorVars => [Next]_vars /\ (Typed /\ BenchTyped)'
  BY BenchStep, StepTyped
<1> QED
  BY <1>1, <1>2, InitTyped, PTL DEF EvaluatorSpec, Spec

\* What the run checks of the benchmark, for every benchmark, and what holds of its cache.
THEOREM BenchmarkSafe ==
  EvaluatorSpec => [](/\ RoutesAreClasses /\ TiersAddUp /\ OneExemplarPerCluster /\ SameAsBaseline
                      /\ Cache!OrderIsMap /\ Cache!Bounded)
BY BenchmarkIsACaller, CachedRoutesAreClasses, TiersChangeNothing, TiersAlwaysAddUp,
   OneExemplarAlways, PipelineCacheSound, PTL

-----------------------------------------------------------------------------
(* The report.                                                             *)

\* A sum over the workers, as the number of events that it counts.
Pairs(f) == UNION {{w} \X (1..f[w]) : w \in Workers}
Total(f) == Cardinality(Pairs(f))

LEMMA PairsMembers ==
  ASSUME NEW f
  PROVE  /\ \A e \in Pairs(f) : e = <<e[1], e[2]>> /\ e[1] \in Workers /\ e[2] \in 1..f[e[1]]
         /\ \A w \in Workers : \A i \in 1..f[w] : <<w, i>> \in Pairs(f)
<1>1. ASSUME NEW e \in Pairs(f)
      PROVE  e = <<e[1], e[2]>> /\ e[1] \in Workers /\ e[2] \in 1..f[e[1]]
  <2>1. PICK w \in Workers : e \in {w} \X (1..f[w])
    BY DEF Pairs
  <2> QED
    BY <2>1
<1>2. ASSUME NEW w \in Workers, NEW i \in 1..f[w] PROVE <<w, i>> \in Pairs(f)
  <2>1. <<w, i>> \in {w} \X (1..f[w])
    OBVIOUS
  <2> QED
    BY <2>1 DEF Pairs
<1> QED
  BY <1>1, <1>2

\* Nothing is counted yet.
LEMMA TotalOfZeros ==
  ASSUME NEW f, \A w \in Workers : f[w] = 0
  PROVE  IsFiniteSet(Pairs(f)) /\ Total(f) = 0
<1>1. Pairs(f) = {}
  <2> SUFFICES ASSUME NEW e \in Pairs(f) PROVE FALSE
    OBVIOUS
  <2>1. e[1] \in Workers /\ e[2] \in 1..f[e[1]]
    BY PairsMembers
  <2> QED
    BY <2>1
<1> QED
  BY <1>1, FS_EmptySet DEF Total

\* A term of the sum grows.
LEMMA TotalGrows ==
  ASSUME NEW f \in [Workers -> Nat], NEW h \in [Workers -> Nat], NEW w \in Workers,
         IsFiniteSet(Pairs(f)), f[w] <= h[w], \A v \in Workers : v # w => h[v] = f[v]
  PROVE  IsFiniteSet(Pairs(h)) /\ Total(h) = Total(f) + (h[w] - f[w])
<1> DEFINE new == {w} \X ((f[w] + 1)..h[w])
<1>1. Pairs(h) = Pairs(f) \cup new
  <2>1. ASSUME NEW e \in Pairs(h) PROVE e \in Pairs(f) \cup new
    <3>1. e = <<e[1], e[2]>> /\ e[1] \in Workers /\ e[2] \in 1..h[e[1]]
      BY PairsMembers
    <3>2. CASE e[1] # w
      <4>1. e[2] \in 1..f[e[1]]
        BY <3>1, <3>2
      <4>2. <<e[1], e[2]>> \in Pairs(f)
        BY <3>1, <4>1, PairsMembers
      <4> QED
        BY <3>1, <4>2
    <3>3. CASE e[1] = w
      <4>1. e[2] \in 1..f[w] \/ e[2] \in (f[w] + 1)..h[w]
        BY <3>1, <3>3
      <4>2. CASE e[2] \in 1..f[w]
        <5>1. <<w, e[2]>> \in Pairs(f)
          BY <4>2, PairsMembers
        <5> QED
          BY <3>1, <3>3, <5>1
      <4>3. CASE e[2] \in (f[w] + 1)..h[w]
        BY <3>1, <3>3, <4>3
      <4> QED
        BY <4>1, <4>2, <4>3
    <3> QED
      BY <3>2, <3>3
  <2>2. ASSUME NEW e \in Pairs(f) PROVE e \in Pairs(h)
    <3>1. e = <<e[1], e[2]>> /\ e[1] \in Workers /\ e[2] \in 1..f[e[1]]
      BY PairsMembers
    <3>2. e[2] \in 1..h[e[1]]
      BY <3>1
    <3>3. <<e[1], e[2]>> \in Pairs(h)
      BY <3>1, <3>2, PairsMembers
    <3> QED
      BY <3>1, <3>3
  <2>3. ASSUME NEW e \in new PROVE e \in Pairs(h)
    <3>1. e = <<w, e[2]>> /\ e[2] \in (f[w] + 1)..h[w]
      OBVIOUS
    <3>2. e[2] \in 1..h[w]
      BY <3>1
    <3>3. <<w, e[2]>> \in Pairs(h)
      BY <3>2, PairsMembers
    <3> QED
      BY <3>1, <3>3
  <2> QED
    BY <2>1, <2>2, <2>3
<1>2. Pairs(f) \cap new = {}
  <2> SUFFICES ASSUME NEW e \in Pairs(f), e \in new PROVE FALSE
    OBVIOUS
  <2>1. e[2] \in 1..f[e[1]] /\ e[1] = w /\ e[2] \in (f[w] + 1)..h[w]
    BY PairsMembers
  <2> QED
    BY <2>1
<1>3. IsFiniteSet(new) /\ Cardinality(new) = h[w] - f[w]
  <2> DEFINE term == (f[w] + 1)..h[w]
  <2>1. IsFiniteSet(term) /\ Cardinality(term) = h[w] - f[w]
    <3>1. f[w] + 1 \in Int /\ h[w] \in Int
      OBVIOUS
    <3>2. IsFiniteSet(term) /\ Cardinality(term) = IF f[w] + 1 > h[w] THEN 0 ELSE h[w] - (f[w] + 1) + 1
      BY <3>1, FS_Interval
    <3> QED
      BY <3>2
  <2>2. IsFiniteSet({w}) /\ Cardinality({w}) = 1
    BY FS_Singleton
  <2> HIDE DEF term
  <2>3. IsFiniteSet({w} \X term) /\ Cardinality({w} \X term) = Cardinality({w}) * Cardinality(term)
    BY <2>1, <2>2, FS_Product
  <2>4. Cardinality({w}) * Cardinality(term) = Cardinality(term)
    BY <2>1, <2>2
  <2> QED
    BY <2>1, <2>3, <2>4 DEF term
<1> HIDE DEF new
<1>4. /\ IsFiniteSet(Pairs(f) \cup new)
      /\ Cardinality(Pairs(f) \cup new)
           = Cardinality(Pairs(f)) + Cardinality(new) - Cardinality(Pairs(f) \cap new)
  BY <1>3, FS_Union
<1>5. Cardinality({}) = 0 /\ Cardinality(Pairs(f)) \in Nat
  BY FS_EmptySet, FS_CardinalityType
<1> QED
  BY <1>1, <1>2, <1>3, <1>4, <1>5 DEF Total

\* A term of the sum changes.
LEMMA TotalChanges ==
  ASSUME NEW f \in [Workers -> Nat], NEW h \in [Workers -> Nat], NEW w \in Workers,
         IsFiniteSet(Pairs(f)), \A v \in Workers : v # w => h[v] = f[v]
  PROVE  IsFiniteSet(Pairs(h)) /\ Total(h) = Total(f) + (h[w] - f[w])
<1>1. CASE f[w] <= h[w]
  BY <1>1, TotalGrows
<1>2. CASE ~(f[w] <= h[w])
  <2>1. h[w] <= f[w] /\ \A v \in Workers : v # w => f[v] = h[v]
    BY <1>2
  <2>2. Pairs(h) \subseteq Pairs(f)
    <3> SUFFICES ASSUME NEW e \in Pairs(h) PROVE e \in Pairs(f)
      OBVIOUS
    <3>1. e = <<e[1], e[2]>> /\ e[1] \in Workers /\ e[2] \in 1..h[e[1]]
      BY PairsMembers
    <3>2. e[2] \in 1..f[e[1]]
      BY <2>1, <3>1
    <3>3. <<e[1], e[2]>> \in Pairs(f)
      BY <3>1, <3>2, PairsMembers
    <3> QED
      BY <3>1, <3>3
  <2>3. IsFiniteSet(Pairs(h))
    BY <2>2, FS_Subset
  <2>4. Total(f) = Total(h) + (f[w] - h[w])
    BY <2>1, <2>3, TotalGrows
  <2>5. Total(h) \in Nat
    BY <2>3, FS_CardinalityType DEF Total
  <2> QED
    BY <2>3, <2>4, <2>5
<1> QED
  BY <1>1, <1>2

\* What a worker has not told the others goes up by one, or to zero from the most
\* it can be.
LEMMA BatchFills ==
  ASSUME NEW n \in Nat
  PROVE  /\ n % Batch \in Nat /\ (n + 1) % Batch \in Nat
         /\ (n + 1) % Batch = 0 => n % Batch = Batch - 1
         /\ (n + 1) % Batch # 0 => (n + 1) % Batch = (n % Batch) + 1
<1> DEFINE b == Batch
           r == n % b
           s == (n + 1) % b
           q == n \div b
           p == (n + 1) \div b
<1>1. b \in Nat \ {0}
  BY EvaluatorAssumption
<1> HIDE DEF b
<1>2. r \in Nat /\ r < b /\ s \in Nat /\ s < b /\ q \in Int /\ p \in Int
  BY <1>1
<1>3. n = b * q + r /\ n + 1 = b * p + s
  BY <1>1
<1> HIDE DEF r, s, q, p
<1>4. b * (p - q) = r + 1 - s
  <2>1. b * p - b * q = b * (p - q)
    BY <1>1, <1>2
  <2> QED
    BY <1>1, <1>2, <1>3, <2>1
<1>5. CASE p - q >= 2
  <2>1. b * (p - q) >= b * 2
    BY <1>1, <1>2, <1>5
  <2> QED
    BY <1>1, <1>2, <1>4, <2>1
<1>6. CASE p - q = 1
  <2>1. b * (p - q) = b
    BY <1>1, <1>6
  <2>2. s = r + 1 - b
    BY <1>1, <1>2, <1>4, <2>1
  <2> QED
    BY <1>1, <1>2, <2>2 DEF b, r, s
<1>7. CASE p - q = 0
  <2>1. b * (p - q) = 0
    BY <1>1, <1>7
  <2>2. s = r + 1
    BY <1>2, <1>4, <2>1
  <2> QED
    BY <1>2, <2>2 DEF b, r, s
<1>8. CASE p - q <= -1
  <2>1. b * (p - q) <= -b
    BY <1>1, <1>2, <1>8
  <2> QED
    BY <1>1, <1>2, <1>4, <2>1
<1> QED
  BY <1>2, <1>5, <1>6, <1>7, <1>8

\* What the workers have counted but not told.
untold == [w \in Workers |-> IF w \in exited THEN 0 ELSE local_count[w] % Batch]

\* What is told and what is not add up to what was counted.
TallyInv ==
  /\ exited \subseteq Workers /\ total_count \in Nat
  /\ IsFiniteSet(Pairs(local_count)) /\ IsFiniteSet(Pairs(untold))
  /\ total_count + Total(untold) = Total(local_count)

\* Who is where in each phase; between warm-up and report, every call past the
\* warm-up is counted by a worker or under way.
PhaseInv ==
  /\ phase \in {"warmup", "sleep", "join", "report"}
  /\ \A w \in exited : pc[w] = "idle"
  /\ exited # {} => stop_signal
  /\ phase = "warmup" => \A w \in Workers : pc[w] = "idle" /\ local_count[w] = 0
  /\ phase \in {"sleep", "join"} =>
       pc[Main] = "idle" /\ total_events = warmup + Total(local_count) + InState(Called)
  /\ phase # "report" => report = <<>>
  /\ phase = "report" => exited \cup Panicked = Workers /\ ReportIsExact

BenchInv == TallyInv /\ PhaseInv

LEMMA ThreadsOfBench ==
  /\ Main \in Threads /\ Main \notin Workers /\ Workers \subseteq Threads
  /\ Threads = Workers \cup {Main}
  BY EvaluatorAssumption DEF Main, Workers

\* What a step within `process` does to the counters of the benchmark.
LEMMA StepMoves ==
  ASSUME NEW t \in Threads, Step(t)
  PROVE  /\ pc[t] \in Called \ {"panicked"} /\ total_events' = total_events
         /\ \E label \in Labels \ {"panicked"} : Goto(t, label)
<1> USE DEF Called, Labels, Return, counters
<1>1. CASE LookupHit(t)
  <2>1. pc[t] = "lookup" /\ Goto(t, "idle") /\ UNCHANGED counters
    BY <1>1 DEF LookupHit
  <2> QED
    BY <2>1
<1>2. CASE LookupMiss(t)
  BY <1>2 DEF LookupMiss
<1>3. CASE MatchCluster(t)
  BY <1>3 DEF MatchCluster
<1>4. CASE NewCluster(t)
  BY <1>4 DEF NewCluster
<1>5. CASE Promote(t)
  <2>1. pc[t] = "promote" /\ Goto(t, "idle") /\ total_events' = total_events
    BY <1>5 DEF Promote
  <2> QED
    BY <2>1
<1>6. CASE Dispatch(t)
  <2>1. pc[t] = "dispatch" /\ Goto(t, "idle") /\ total_events' = total_events
    BY <1>6 DEF Dispatch
  <2> QED
    BY <2>1
<1> QED
  BY <1>1, <1>2, <1>3, <1>4, <1>5, <1>6 DEF Step

\* A report stays true while what it is about stays.
LEMMA ReportKept ==
  ASSUME ReportIsExact, UNCHANGED <<report, local_count, corpus>>,
         \A w \in Workers : pc'[w] = pc[w]
  PROVE  ReportIsExact'
<1>1. Panicked' = Panicked
  BY DEF Panicked
<1>2. Counted' = Counted /\ Lost' = Lost /\ warmup' = warmup
  BY <1>1 DEF Counted, Lost, warmup
<1> QED
  BY <1>1, <1>2 DEF ReportIsExact

\* Steps that leave the workers and their tallies alone.
LEMMA QuietBench ==
  ASSUME BenchInv, UNCHANGED <<local_count, total_count, exited, phase, report, corpus>>,
         \A w \in Workers : pc'[w] = pc[w],
         phase \in {"sleep", "join"} => pc' = pc /\ total_events' = total_events
  PROVE  BenchInv'
<1>1. TallyInv'
  BY DEF BenchInv, TallyInv, untold
<1>2. PhaseInv'
  <2>1. /\ \A w \in exited' : pc'[w] = "idle"
        /\ exited' # {} => stop_signal'
    BY DEF BenchInv, TallyInv, PhaseInv, stop_signal
  <2>2. phase' \in {"sleep", "join"} =>
          pc'[Main] = "idle" /\ total_events' = warmup' + Total(local_count)' + InState(Called)'
    BY DEF BenchInv, PhaseInv, warmup, InState
  <2>3. phase' = "report" => exited' \cup Panicked' = Workers /\ ReportIsExact'
    <3>1. Panicked' = Panicked
      BY DEF Panicked
    <3> QED
      BY <3>1, ReportKept DEF BenchInv, PhaseInv
  <2>4. phase' = "warmup" => \A w \in Workers : pc'[w] = "idle" /\ local_count'[w] = 0
    BY DEF BenchInv, PhaseInv
  <2> QED
    BY <2>1, <2>2, <2>3, <2>4 DEF BenchInv, PhaseInv
<1> QED
  BY <1>1, <1>2 DEF BenchInv

\* A worker counts an event.
LEMMA CountTally ==
  ASSUME BenchTyped, TallyInv, NEW w \in Workers \ exited, Count(w), exited' = exited
  PROVE  TallyInv' /\ Total(local_count)' = Total(local_count) + 1
<1> DEFINE n == local_count[w]
<1>1. /\ local_count \in [Workers -> Nat] /\ n \in Nat
      /\ local_count' = [local_count EXCEPT ![w] = n + 1]
      /\ total_count' = IF (n + 1) % Batch = 0 THEN total_count + Batch ELSE total_count
  BY DEF BenchTyped, Count
<1>2. /\ local_count' \in [Workers -> Nat] /\ local_count'[w] = n + 1
      /\ \A v \in Workers : v # w => local_count'[v] = local_count[v]
  BY <1>1
<1>3. /\ n % Batch \in Nat /\ (n + 1) % Batch \in Nat
      /\ (n + 1) % Batch = 0 => n % Batch = Batch - 1
      /\ (n + 1) % Batch # 0 => (n + 1) % Batch = (n % Batch) + 1
  BY <1>1, BatchFills
<1>4. /\ untold[w] = n % Batch /\ untold'[w] = (n + 1) % Batch
      /\ \A v \in Workers : v # w => untold'[v] = untold[v]
  BY <1>2 DEF untold
<1>5. untold \in [Workers -> Nat] /\ untold' \in [Workers -> Nat]
  <2>1. \A v \in Workers : local_count[v] % Batch \in Nat /\ local_count'[v] % Batch \in Nat
    BY <1>1, <1>2, BatchFills
  <2> QED
    BY <2>1 DEF untold
<1>6. IsFiniteSet(Pairs(local_count')) /\ Total(local_count') = Total(local_count) + 1
  <2>1. IsFiniteSet(Pairs(local_count'))
        /\ Total(local_count') = Total(local_count) + (local_count'[w] - local_count[w])
    BY <1>1, <1>2, TotalChanges DEF TallyInv
  <2>2. local_count'[w] - local_count[w] = 1
    BY <1>1, <1>2
  <2> QED
    BY <2>1, <2>2
<1>7. IsFiniteSet(Pairs(untold')) /\ Total(untold') = Total(untold) + (untold'[w] - untold[w])
  BY <1>4, <1>5, TotalChanges DEF TallyInv
<1>8. Total(untold) \in Nat /\ Total(local_count) \in Nat /\ Batch \in Nat
  BY FS_CardinalityType, EvaluatorAssumption DEF TallyInv, Total
<1> DEFINE u == untold[w]
           v == untold'[w]
<1>9. total_count' + Total(untold') = Total(local_count') /\ total_count' \in Nat
  <2>1. CASE (n + 1) % Batch = 0
    <3>1. u = Batch - 1 /\ v = 0 /\ total_count' = total_count + Batch
      BY <1>1, <1>3, <1>4, <2>1
    <3> HIDE DEF u, v
    <3> QED
      BY <1>6, <1>7, <1>8, <3>1 DEF TallyInv, u, v
  <2>2. CASE (n + 1) % Batch # 0
    <3>1. v = u + 1 /\ u \in Nat /\ total_count' = total_count
      BY <1>1, <1>3, <1>4, <2>2
    <3> HIDE DEF u, v
    <3>2. Total(untold') = Total(untold) + 1
      BY <1>7, <1>8, <3>1 DEF u, v
    <3> QED
      BY <1>6, <1>8, <3>1, <3>2 DEF TallyInv
  <2> QED
    BY <2>1, <2>2
<1> QED
  BY <1>6, <1>7, <1>9 DEF TallyInv

\* A worker that stops tells the rest.
LEMMA ExitTally ==
  ASSUME BenchTyped, TallyInv, NEW w \in Workers, Exit(w)
  PROVE  TallyInv'
<1> DEFINE n == local_count[w]
<1>1. /\ local_count \in [Workers -> Nat] /\ n \in Nat /\ w \notin exited
      /\ local_count' = local_count /\ exited' = exited \cup {w}
      /\ total_count' = total_count + (n % Batch)
  BY DEF BenchTyped, Exit
<1>2. \A v \in Workers : local_count[v] % Batch \in Nat
  BY <1>1, BatchFills
<1>3. /\ untold \in [Workers -> Nat] /\ untold' \in [Workers -> Nat]
      /\ untold[w] = n % Batch /\ untold'[w] = 0
      /\ \A v \in Workers : v # w => untold'[v] = untold[v]
  BY <1>1, <1>2 DEF untold
<1>4. IsFiniteSet(Pairs(untold')) /\ Total(untold') = Total(untold) + (untold'[w] - untold[w])
  BY <1>3, TotalChanges DEF TallyInv
<1>5. Total(untold) \in Nat /\ n % Batch \in Nat
  BY <1>1, <1>2, FS_CardinalityType DEF TallyInv, Total
<1> DEFINE r == n % Batch
<1> HIDE DEF r
<1>6. untold'[w] - untold[w] = -r /\ total_count' = total_count + r /\ r \in Nat
  BY <1>1, <1>3, <1>5 DEF r
<1>7. total_count' + Total(untold') = Total(local_count') /\ total_count' \in Nat
  BY <1>1, <1>4, <1>5, <1>6 DEF TallyInv
<1> QED
  BY <1>1, <1>4, <1>7 DEF TallyInv

LEMMA InitBench == EvaluatorInit => BenchInv
<1> SUFFICES ASSUME EvaluatorInit PROVE BenchInv
  OBVIOUS
<1>1. /\ \A w \in Workers : local_count[w] = 0
      /\ \A w \in Workers : untold[w] = 0
  <2>1. \A w \in Workers : local_count[w] = 0 /\ w \notin exited
    BY DEF EvaluatorInit
  <2>2. \A w \in Workers : untold[w] = 0
    <3>1. 0 % Batch = 0
      BY EvaluatorAssumption
    <3> QED
      BY <2>1, <3>1 DEF untold
  <2> QED
    BY <2>1, <2>2
<1>2. /\ IsFiniteSet(Pairs(local_count)) /\ Total(local_count) = 0
      /\ IsFiniteSet(Pairs(untold)) /\ Total(untold) = 0
  BY <1>1, TotalOfZeros
<1>3. TallyInv
  BY <1>2 DEF EvaluatorInit, TallyInv
<1>4. PhaseInv
  BY <1>1, ThreadsOfBench DEF EvaluatorInit, Init, PhaseInv, stop_signal
<1> QED
  BY <1>3, <1>4 DEF BenchInv

\* The workers start from nothing.
LEMMA StartBench ==
  ASSUME Typed, BenchTyped, BenchInv, Start
  PROVE  BenchInv'
<1>1. /\ phase = "warmup" /\ phase' = "sleep" /\ report' = report /\ exited' = exited
      /\ UNCHANGED <<vars, tallies, corpus>> /\ total_events = warmup /\ pc[Main] = "idle"
  BY DEF Start
<1>2. \A w \in Workers : pc[w] = "idle" /\ local_count[w] = 0
  BY <1>1 DEF BenchInv, PhaseInv
<1>3. Total(local_count) = 0
  BY <1>2, TotalOfZeros
<1>4. InState(Called) = 0
  <2>1. {t \in Threads : pc[t] \in Called} = {}
    BY <1>1, <1>2, ThreadsOfBench DEF Called
  <2> QED
    BY <2>1, FS_EmptySet DEF InState
<1>5. UNCHANGED <<local_count, total_count, pc, total_events>>
  BY <1>1 DEF tallies, vars, counters
<1>6. TallyInv'
  BY <1>1, <1>5 DEF BenchInv, TallyInv, untold
<1>7. warmup' = warmup /\ InState(Called)' = 0 /\ Total(local_count)' = 0 /\ warmup \in Nat
  BY <1>1, <1>3, <1>4, <1>5 DEF warmup, InState, Typed
<1>8. exited = {} /\ report' = <<>> /\ \A w \in exited' : pc'[w] = "idle"
  BY <1>1 DEF BenchInv, PhaseInv, stop_signal
<1>9. total_events' = warmup' + Total(local_count)' + InState(Called)' /\ pc'[Main] = "idle"
  BY <1>1, <1>5, <1>7
<1> QED
  BY <1>1, <1>6, <1>8, <1>9 DEF BenchInv, PhaseInv

\* A worker calls `process`.
LEMMA WorkerCallBench ==
  ASSUME Typed, BenchTyped, BenchInv, NEW w \in Workers, WorkerCall(w)
  PROVE  BenchInv'
<1> DEFINE log == corpus[((w + local_count[w]) % Len(corpus)) + 1]
<1>1. phase = "sleep" /\ exited = {}
  BY DEF WorkerCall, BenchInv, PhaseInv, stop_signal
<1>2. PICK label \in {"lookup", "panicked"} : Goto(w, label)
  BY DEF WorkerCall, Call
<1>3. pc[w] = "idle" /\ total_events' = total_events + 1 /\ w \in Threads /\ w # Main
  BY ThreadsOfBench DEF WorkerCall, Call
<1>4. UNCHANGED <<local_count, total_count, corpus, phase, exited, report>>
  BY DEF WorkerCall, tallies, bench
<1>5. InState(Called) \in Nat /\ InState(Called)' = InState(Called) + 1
  <2>1. label \in Labels /\ label \in Called /\ pc[w] \notin Called
    BY <1>2, <1>3 DEF Labels, Called
  <2> QED
    BY <1>2, <1>3, <2>1, Moves
<1>6. TallyInv'
  BY <1>4 DEF BenchInv, TallyInv, untold
<1>7. warmup' = warmup /\ Total(local_count)' = Total(local_count) /\ pc'[Main] = pc[Main]
  BY <1>2, <1>3, <1>4, ThreadsOfBench DEF warmup, Goto, Typed
<1>8. total_events' = warmup' + Total(local_count)' + InState(Called)' /\ pc'[Main] = "idle"
  <2>1. total_events = warmup + Total(local_count) + InState(Called) /\ pc[Main] = "idle"
    BY <1>1 DEF BenchInv, PhaseInv
  <2>2. warmup \in Nat /\ Total(local_count) \in Nat
    <3>1. Len(corpus) \in Nat /\ WarmUp \in Nat
      BY LogsOfCorpus, EvaluatorAssumption DEF BenchTyped
    <3>2. IsFiniteSet(Pairs(local_count))
      BY DEF BenchInv, TallyInv
    <3> QED
      BY <3>1, <3>2, FS_CardinalityType DEF warmup, Total
  <2> QED
    BY <1>3, <1>5, <1>7, <2>1, <2>2
<1> QED
  BY <1>1, <1>4, <1>6, <1>8 DEF BenchInv, PhaseInv

\* A worker's step within `process`; the last one counts the event.
LEMMA ProcessBench ==
  ASSUME Typed, BenchTyped, BenchInv, NEW w \in Workers, Process(w)
  PROVE  BenchInv'
<1>1. /\ pc[w] \in Called \ {"panicked"} /\ total_events' = total_events
      /\ \E label \in Labels \ {"panicked"} : Goto(w, label)
  BY StepMoves, ThreadsOfBench DEF Process
<1>2. PICK label \in Labels \ {"panicked"} : Goto(w, label)
  BY <1>1
<1>3. w \in Threads /\ w # Main /\ pc'[w] = label /\ pc'[Main] = pc[Main]
      /\ \A v \in Workers : v # w => pc'[v] = pc[v]
  BY <1>2, ThreadsOfBench DEF Goto, Typed
<1>4. UNCHANGED <<corpus, phase, exited, report>>
  BY DEF Process, bench
<1>5. w \notin exited /\ pc[w] # "idle" /\ pc[w] # "panicked"
  BY <1>1 DEF Called, BenchInv, PhaseInv
<1>6. phase \in {"sleep", "join"}
  <2>1. phase # "warmup"
    BY <1>5 DEF BenchInv, PhaseInv
  <2>2. phase # "report"
    BY <1>5 DEF BenchInv, PhaseInv, Panicked
  <2> QED
    BY <2>1, <2>2 DEF BenchInv, PhaseInv
<1>7. /\ InState(Called) \in Nat
      /\ InState(Called)' = InState(Called) + (IF label \in Called THEN 1 ELSE 0) - 1
  BY <1>1, <1>2, <1>3, Moves
<1>8. /\ TallyInv'
      /\ Total(local_count)' + InState(Called)' = Total(local_count) + InState(Called)
  <2>0. Total(local_count) \in Nat
    BY FS_CardinalityType DEF BenchInv, TallyInv, Total
  <2>1. CASE label = "idle"
    <3>1. Count(w)
      BY <1>3, <2>1 DEF Process
    <3>2. TallyInv' /\ Total(local_count)' = Total(local_count) + 1
      BY <1>4, <1>5, <3>1, CountTally DEF BenchInv
    <3> QED
      BY <1>7, <2>0, <2>1, <3>2 DEF Called
  <2>2. CASE label # "idle"
    <3>1. UNCHANGED <<local_count, total_count>>
      BY <1>3, <2>2 DEF Process, tallies
    <3>2. TallyInv' /\ Total(local_count)' = Total(local_count)
      BY <1>4, <3>1 DEF BenchInv, TallyInv, untold
    <3>3. label \in Called
      BY <2>2 DEF Labels, Called
    <3> QED
      BY <1>7, <2>0, <3>2, <3>3
  <2> QED
    BY <2>1, <2>2
<1>9. total_events' = warmup' + Total(local_count)' + InState(Called)' /\ pc'[Main] = "idle"
  <2>1. total_events = warmup + Total(local_count) + InState(Called) /\ pc[Main] = "idle"
    BY <1>6 DEF BenchInv, PhaseInv
  <2>2. warmup' = warmup
    BY <1>4 DEF warmup
  <2>3. /\ warmup \in Nat /\ Total(local_count) \in Nat
        /\ Total(local_count)' \in Nat /\ InState(Called)' \in Nat
    <3>1. Len(corpus) \in Nat /\ WarmUp \in Nat
      BY LogsOfCorpus, EvaluatorAssumption DEF BenchTyped
    <3>2. IsFiniteSet(Pairs(local_count)) /\ IsFiniteSet(Pairs(local_count)')
      BY <1>8 DEF BenchInv, TallyInv
    <3>3. InState(Called)' \in Nat
      <4>1. InState(Called) >= 1
        <5>1. w \in Standing(pc, Called) /\ InState(Called) = Cardinality(Standing(pc, Called))
          BY <1>1, <1>3 DEF Standing, InState
        <5>2. IsFiniteSet(Standing(pc, Called))
          <6>1. Standing(pc, Called) \subseteq Threads
            BY DEF Standing
          <6> QED
            BY <6>1, PipelineAssumption, FS_Subset
        <5>3. Cardinality(Standing(pc, Called)) # 0
          BY <5>1, <5>2, FS_EmptySet
        <5> QED
          BY <1>7, <5>1, <5>3
      <4> QED
        BY <1>7, <4>1
    <3> QED
      BY <3>1, <3>2, <3>3, FS_CardinalityType DEF warmup, Total
  <2> QED
    BY <1>1, <1>3, <1>7, <1>8, <2>1, <2>2, <2>3
<1>10. /\ \A v \in exited' : pc'[v] = "idle"
       /\ exited' # {} => stop_signal'
  BY <1>3, <1>4, <1>5 DEF BenchInv, TallyInv, PhaseInv, stop_signal
<1> QED
  BY <1>4, <1>6, <1>8, <1>9, <1>10 DEF BenchInv, PhaseInv

LEMMA ExitBench ==
  ASSUME BenchTyped, BenchInv, NEW w \in Workers, Exit(w)
  PROVE  BenchInv'
<1>1. TallyInv'
  BY ExitTally DEF BenchInv
<1>2. /\ UNCHANGED <<vars, local_count, corpus, phase, report>>
      /\ exited' = exited \cup {w} /\ pc[w] = "idle" /\ w \notin exited /\ stop_signal
  BY DEF Exit
<1>3. UNCHANGED <<pc, total_events>>
  BY <1>2 DEF vars, counters
<1>4. phase = "join"
  <2>1. phase # "report"
    BY <1>2 DEF BenchInv, PhaseInv, Panicked
  <2> QED
    BY <1>2, <2>1 DEF stop_signal
<1>5. warmup' = warmup /\ InState(Called)' = InState(Called)
      /\ Total(local_count)' = Total(local_count)
  BY <1>2, <1>3 DEF warmup, InState
<1>6. /\ \A v \in exited' : pc'[v] = "idle"
      /\ stop_signal'
  BY <1>2, <1>3 DEF BenchInv, PhaseInv, stop_signal
<1> QED
  BY <1>1, <1>2, <1>3, <1>4, <1>5, <1>6 DEF BenchInv, PhaseInv

LEMMA StopBench ==
  ASSUME BenchInv, Stop
  PROVE  BenchInv'
<1>1. /\ phase = "sleep" /\ phase' = "join"
      /\ UNCHANGED <<vars, tallies, corpus, exited, report>>
  BY DEF Stop
<1>2. UNCHANGED <<pc, total_events, local_count, total_count>>
  BY <1>1 DEF vars, counters, tallies
<1>3. TallyInv'
  BY <1>1, <1>2 DEF BenchInv, TallyInv, untold
<1>4. warmup' = warmup /\ InState(Called)' = InState(Called)
      /\ Total(local_count)' = Total(local_count)
  BY <1>1, <1>2 DEF warmup, InState
<1> QED
  BY <1>1, <1>2, <1>3, <1>4 DEF BenchInv, PhaseInv, stop_signal

\* When every worker has stopped or panicked, what is not told is what the panics
\* took, and a call that is under way is one that panicked.
LEMMA ReportBench ==
  ASSUME Typed, BenchTyped, Counts, BenchInv, Report
  PROVE  BenchInv'
<1>1. /\ phase = "join" /\ phase' = "report" /\ exited \cup Panicked = Workers
      /\ UNCHANGED <<vars, tallies, corpus, exited>>
      /\ report' = <<[total_processed |-> total_count, total_bytes_processed |-> total_bytes,
                      total_events |-> total_events, hits |-> hits, misses |-> misses,
                      tier2_drain_hits |-> tier2_drain_hits,
                      tier3_laya_dispatches |-> tier3_laya_dispatches,
                      tier3_laya_onboarded |-> Cardinality(registry)]>>
  BY DEF Report
<1>2. UNCHANGED <<pc, local_count, total_count>>
  BY <1>1 DEF vars, tallies
<1>3. TallyInv'
  BY <1>1, <1>2 DEF BenchInv, TallyInv, untold
<1>4. /\ \A w \in exited : pc[w] = "idle"
      /\ pc[Main] = "idle" /\ total_events = warmup + Total(local_count) + InState(Called)
  BY <1>1 DEF BenchInv, PhaseInv
<1>5. Counted = Total(local_count)
  BY DEF Counted, Total, Pairs
<1>6. Lost = Total(untold)
  <2> DEFINE P == UNION {{w} \X (1..(local_count[w] % Batch)) : w \in Panicked}
  <2>1. ASSUME NEW e \in Pairs(untold) PROVE e \in P
    <3>1. e = <<e[1], e[2]>> /\ e[1] \in Workers /\ e[2] \in 1..untold[e[1]]
      BY PairsMembers
    <3>2. e[1] \notin exited
      <4>1. ASSUME e[1] \in exited PROVE FALSE
        <5>1. untold[e[1]] = 0
          BY <3>1, <4>1 DEF untold
        <5> QED
          BY <3>1, <5>1
      <4> QED
        BY <4>1
    <3>3. e[1] \in Panicked /\ e[2] \in 1..(local_count[e[1]] % Batch)
      BY <1>1, <3>1, <3>2 DEF untold
    <3>4. <<e[1], e[2]>> \in {e[1]} \X (1..(local_count[e[1]] % Batch))
      BY <3>3
    <3> QED
      BY <3>1, <3>3, <3>4
  <2>2. ASSUME NEW e \in P PROVE e \in Pairs(untold)
    <3>1. PICK w \in Panicked : e \in {w} \X (1..(local_count[w] % Batch))
      OBVIOUS
    <3>2. w \in Workers /\ w \notin exited
      BY <1>4 DEF Panicked
    <3>3. untold[w] = local_count[w] % Batch
      BY <3>2 DEF untold
    <3>4. e = <<w, e[2]>> /\ e[2] \in 1..untold[w]
      BY <3>1, <3>3
    <3> QED
      BY <3>2, <3>4, PairsMembers
  <2>3. P = Pairs(untold)
    BY <2>1, <2>2
  <2> QED
    BY <2>3 DEF Lost, Total
<1>7. InState(Called) = Cardinality(Panicked)
  <2>1. \A t \in Threads : pc[t] \in Called <=> t \in Workers /\ pc[t] = "panicked"
    BY <1>1, <1>4, ThreadsOfBench DEF Called, Panicked
  <2>2. {t \in Threads : pc[t] \in Called} = Panicked
    BY <2>1, ThreadsOfBench DEF Panicked
  <2> QED
    BY <2>2 DEF InState
<1>8. /\ warmup \in Nat /\ Counted \in Nat /\ Lost \in Nat /\ Cardinality(Panicked) \in Nat
      /\ total_count = Counted - Lost
      /\ Panicked = {} => Lost = 0 /\ Cardinality(Panicked) = 0
  <2>1. warmup \in Nat
    <3>1. Len(corpus) \in Nat /\ WarmUp \in Nat
      BY LogsOfCorpus, EvaluatorAssumption DEF BenchTyped
    <3> QED
      BY <3>1 DEF warmup
  <2>2. Counted \in Nat /\ Lost \in Nat /\ total_count = Counted - Lost
    <3>1. Total(local_count) \in Nat /\ Total(untold) \in Nat
      BY FS_CardinalityType DEF BenchInv, TallyInv, Total
    <3>2. total_count + Total(untold) = Total(local_count) /\ total_count \in Nat
      BY DEF BenchInv, TallyInv
    <3> QED
      BY <1>5, <1>6, <3>1, <3>2
  <2>3. Cardinality(Panicked) \in Nat
    <3>1. Panicked \subseteq Threads
      BY ThreadsOfBench DEF Panicked
    <3>2. IsFiniteSet(Panicked)
      BY <3>1, PipelineAssumption, FS_Subset
    <3> QED
      BY <3>2, FS_CardinalityType
  <2>4. ASSUME Panicked = {} PROVE Lost = 0 /\ Cardinality(Panicked) = 0
    <3>1. UNION {{w} \X (1..(local_count[w] % Batch)) : w \in Panicked} = {}
      BY <2>4
    <3> QED
      BY <2>4, <3>1, FS_EmptySet DEF Lost
  <2> QED
    BY <2>1, <2>2, <2>3, <2>4
<1>9. total_events = hits + tier2_drain_hits + tier3_laya_dispatches + Cardinality(Panicked)
  BY <1>7 DEF Counts, Sums
<1>10. ReportIsExact'
  <2>1. /\ warmup' = warmup /\ Counted' = Counted /\ Panicked' = Panicked
        /\ Lost' = Lost /\ DOMAIN report' = {1}
    <3>1. Panicked' = Panicked
      BY <1>2 DEF Panicked
    <3> QED
      BY <1>1, <1>2, <3>1 DEF warmup, Counted, Lost
  <2>2. total_events = warmup + Counted + Cardinality(Panicked)
    BY <1>4, <1>5, <1>7
  <2>3. report'[1].total_processed = total_count /\ report'[1].total_events = total_events
        /\ report'[1].hits = hits /\ report'[1].tier2_drain_hits = tier2_drain_hits
        /\ report'[1].tier3_laya_dispatches = tier3_laya_dispatches
    BY <1>1
  <2>4. Panicked = {} =>
          /\ total_count = total_events - warmup
          /\ total_events = hits + tier2_drain_hits + tier3_laya_dispatches
    BY <1>8, <1>9, <2>2 DEF Typed
  <2> QED
    BY <1>8, <2>1, <2>2, <2>3, <2>4 DEF ReportIsExact
<1>11. /\ exited' \cup Panicked' = Workers
       /\ \A w \in exited' : pc'[w] = "idle"
       /\ stop_signal'
  BY <1>1, <1>2, <1>4 DEF Panicked, stop_signal
<1> QED
  BY <1>1, <1>3, <1>10, <1>11 DEF BenchInv, PhaseInv

LEMMA StepBench ==
  ASSUME Typed, BenchTyped, Counts, BenchInv, [EvaluatorNext]_evaluatorVars
  PROVE  BenchInv'
<1> DEFINE quiet == UNCHANGED <<local_count, total_count, exited, phase, report, corpus>>
<1>1. ASSUME NEW r \in {corpus[i] : i \in Int}, Call(Main, r), quiet,
             phase \notin {"sleep", "join"}
      PROVE  BenchInv'
  <2>1. \A w \in Workers : pc'[w] = pc[w]
    BY <1>1, ThreadsOfBench DEF Call, Goto, Typed
  <2> QED
    BY <1>1, <2>1, QuietBench
<1>2. ASSUME UNCHANGED <<pc, total_events>>, quiet PROVE BenchInv'
  BY <1>2, QuietBench
<1>3. CASE WarmUpCall
  <2>1. Call(Main, corpus[total_events + 1]) /\ phase = "warmup" /\ total_events + 1 \in Int
    BY <1>3 DEF WarmUpCall, Typed
  <2>2. quiet
    BY <1>3 DEF WarmUpCall, tallies, bench
  <2> QED
    BY <1>1, <2>1, <2>2
<1>4. CASE Sample
  <2>1. Call(Main, corpus[(samples % Len(corpus)) + 1]) /\ phase = "report"
    BY <1>4 DEF Sample
  <2>2. (samples % Len(corpus)) + 1 \in Int
    BY LogsOfCorpus DEF BenchTyped
  <2>3. quiet
    BY <1>4 DEF Sample, tallies
  <2> QED
    BY <1>1, <2>1, <2>2, <2>3
<1>5. CASE Process(Main)
  <2>1. /\ Step(Main) /\ quiet
    BY <1>5, ThreadsOfBench DEF Process, tallies, bench
  <2>2. pc[Main] # "idle" /\ \E label \in Labels : Goto(Main, label)
    BY <2>1, StepMoves, ThreadsOfBench DEF Called
  <2>3. \A w \in Workers : pc'[w] = pc[w]
    BY <2>2, ThreadsOfBench DEF Goto, Typed
  <2>4. phase \notin {"sleep", "join"}
    BY <2>2 DEF BenchInv, PhaseInv
  <2> QED
    BY <2>1, <2>3, <2>4, QuietBench
<1>6. CASE Triaging
  BY <1>2, <1>6 DEF Triaging, Worker, Receive, Triage, counters, tallies, bench
<1>7. CASE UNCHANGED evaluatorVars
  BY <1>2, <1>7 DEF evaluatorVars, vars, counters, tallies, bench
<1>8. ASSUME NEW t \in Threads, Process(t) PROVE BenchInv'
  BY <1>5, <1>8, ProcessBench, ThreadsOfBench
<1>9. ASSUME NEW w \in Workers, WorkerCall(w) \/ Exit(w) PROVE BenchInv'
  BY <1>9, WorkerCallBench, ExitBench
<1> QED
  BY <1>3, <1>4, <1>6, <1>7, <1>8, <1>9, StartBench, StopBench, ReportBench DEF EvaluatorNext

\* What a benchmark reports agrees with the counters of the pipeline, for any number
\* of workers, any batch, and whichever of them panic when.
THEOREM ReportIsExactAlways == EvaluatorSpec => []ReportIsExact
<1>1. EvaluatorInit => BenchTyped /\ BenchInv
  <2>1. 0 \in Nat
    OBVIOUS
  <2> QED
    BY <2>1, InitBench DEF EvaluatorInit, BenchTyped
<1>2. Typed /\ Counts /\ BenchTyped /\ BenchInv /\ [EvaluatorNext]_evaluatorVars
        => (BenchTyped /\ BenchInv)'
  BY BenchStep, StepBench
<1>3. BenchInv => ReportIsExact
  BY DEF BenchInv, PhaseInv, ReportIsExact
<1> QED
  BY <1>1, <1>2, <1>3, BenchmarkIsACaller, CountsAlways, PTL DEF EvaluatorSpec
=============================================================================
