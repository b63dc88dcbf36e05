------------------------------ MODULE LruCache ------------------------------
(***************************************************************************)
(* The signature cache (ulpf-core, parser/lru_cache.rs): 64-bit signature  *)
(* hashes are routed to vendor formats, in shards that each keep a map and *)
(* a queue of its keys in the order in which they came.                    *)
(*                                                                         *)
(* Every operation runs under the lock of one shard, so it is one action;  *)
(* the client of this module is the most general one, any interleaving of  *)
(* lookups and insertions by any number of threads.  Modules CachedParser  *)
(* and Pipeline have the clients the program has.                          *)
(***************************************************************************)
EXTENDS Integers, Sequences, FiniteSets

CONSTANTS
  Keys,          \* signature hashes
  Formats,       \* vendor formats that can be cached
  num_shards,    \* a power of two in the code
  capacity       \* capacity_per_shard

ASSUME CacheAssumption ==
  /\ Keys \subseteq Nat
  /\ num_shards \in Nat \ {0}
  /\ capacity \in Nat

VARIABLES
  shards,      \* SignatureLruCache::shards
  hits,        \* the counters that `stats` reports
  misses,
  evictions

cacheVars == <<shards, hits, misses, evictions>>

-----------------------------------------------------------------------------
(* One shard.                                                              *)

EmptyShard == [entries |-> [k \in {} |-> 0], order |-> <<>>]

shard_idx(key) == key % num_shards

Holds(key) == key \in DOMAIN shards[shard_idx(key)].entries

WithEntry(entries, key, format) ==
  [k \in DOMAIN entries \cup {key} |-> IF k = key THEN format ELSE entries[k]]

Without(entries, key) == [k \in DOMAIN entries \ {key} |-> entries[k]]

Full(shard) == Cardinality(DOMAIN shard.entries) >= capacity /\ shard.order # <<>>

\* Shard::insert of a key the shard does not hold, when it has room.
PushBack(shard, key, format) ==
  [entries |-> WithEntry(shard.entries, key, format), order |-> Append(shard.order, key)]

\* Its eviction: the key that came first goes.
PopFront(shard) ==
  [entries |-> Without(shard.entries, Head(shard.order)), order |-> Tail(shard.order)]

\* Mutant: a key that is there already is queued again.
ShardInsert_QueuesTwice(shard, key, format) ==
  PushBack(IF Full(shard) THEN PopFront(shard) ELSE shard, key, format)

\* Shard::insert
ShardInsert(shard, key, format) ==
  IF key \in DOMAIN shard.entries
    THEN [shard EXCEPT !.entries = WithEntry(shard.entries, key, format)]
    ELSE PushBack(IF Full(shard) THEN PopFront(shard) ELSE shard, key, format)

-----------------------------------------------------------------------------
(* The cache.                                                              *)

\* get returns Some(route(key)).
get_hit(key) ==
  /\ Holds(key)
  /\ hits' = hits + 1
  /\ UNCHANGED <<shards, misses, evictions>>

route(key) == shards[shard_idx(key)].entries[key]

\* get returns None.
get_miss(key) ==
  /\ ~Holds(key)
  /\ misses' = misses + 1
  /\ UNCHANGED <<shards, hits, evictions>>

insert(key, format) ==
  LET s == shards[shard_idx(key)]
  IN /\ shards' = [shards EXCEPT ![shard_idx(key)] = ShardInsert(s, key, format)]
     /\ evictions' = IF ~Holds(key) /\ Full(s) THEN evictions + 1 ELSE evictions
     /\ UNCHANGED <<hits, misses>>

CacheInit ==
  /\ shards = [i \in 0..(num_shards - 1) |-> EmptyShard]
  /\ hits = 0
  /\ misses = 0
  /\ evictions = 0

Next ==
  \E key \in Keys :
    \/ get_hit(key)
    \/ get_miss(key)
    \/ \E format \in Formats : insert(key, format)

Spec == CacheInit /\ [][Next]_cacheVars

-----------------------------------------------------------------------------
(* Properties.                                                             *)

KeysOf(i) == {k \in Keys : shard_idx(k) = i}

ShardTyped(s, own) ==
  /\ s = [entries |-> s.entries, order |-> s.order]
  /\ DOMAIN s.entries \subseteq own
  /\ s.entries \in [DOMAIN s.entries -> Formats]
  /\ s.order \in Seq(own)

\* The shards hold routes for keys of their own.
TypeOK ==
  /\ DOMAIN shards = 0..(num_shards - 1)
  /\ \A i \in DOMAIN shards : ShardTyped(shards[i], KeysOf(i))
  /\ hits \in Nat /\ misses \in Nat /\ evictions \in Nat

ShardOrdered(s) ==
  /\ \A k \in DOMAIN s.entries : \E n \in DOMAIN s.order : s.order[n] = k
  /\ \A n \in DOMAIN s.order : s.order[n] \in DOMAIN s.entries
  /\ \A m, n \in DOMAIN s.order : s.order[m] = s.order[n] => m = n

\* The queue of a shard lists the keys of its map, each once: an eviction always
\* finds its victim in the map, and no key escapes eviction for ever.
OrderIsMap == \A i \in DOMAIN shards : ShardOrdered(shards[i])

ShardBounded(s) == Len(s.order) <= (IF capacity = 0 THEN 1 ELSE capacity)

\* A shard never outgrows its capacity (a shard of capacity 0 holds one key).
Bounded == \A i \in DOMAIN shards : ShardBounded(shards[i])
=============================================================================
