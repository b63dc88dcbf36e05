------------------------ MODULE CachedParser_proofs ------------------------
(***************************************************************************)
(* Proofs about parse_cached_lossless: for every collection of logs, any   *)
(* number of callers and any cache, the callers use the cache as its       *)
(* specification says, so that what is proved of the cache holds here, and *)
(* an answer from the cache is one the classifier would have given for a   *)
(* log with this signature.                                                *)
(***************************************************************************)
EXTENDS CachedParser, FiniteSetTheorems, FunctionTheorems, WellFoundedInduction, TLAPS

-----------------------------------------------------------------------------
(* The cache by itself: for every set of keys, number of shards and        *)
(* capacity, and every order of lookups and insertions.                    *)

\* A sound shard, between two operations on it.
Sound(s, own) == ShardTyped(s, own) /\ ShardOrdered(s) /\ ShardBounded(s)

\* The number of entries of a shard is the length of its queue.
LEMMA EntriesAreQueued ==
  ASSUME NEW own, NEW s, ShardTyped(s, own), ShardOrdered(s)
  PROVE  Cardinality(DOMAIN s.entries) = Len(s.order)
<1>1. s.order \in Seq(own) /\ Len(s.order) \in Nat /\ DOMAIN s.order = 1..Len(s.order)
  BY DEF ShardTyped
<1>2. s.order \in [1..Len(s.order) -> DOMAIN s.entries]
  BY <1>1 DEF ShardOrdered
<1>3. \A k \in DOMAIN s.entries : \E n \in 1..Len(s.order) : s.order[n] = k
  BY <1>1 DEF ShardOrdered
<1>4. \A m, n \in 1..Len(s.order) : s.order[m] = s.order[n] => m = n
  BY <1>1 DEF ShardOrdered
<1>5. s.order \in Bijection(1..Len(s.order), DOMAIN s.entries)
  BY <1>2, <1>3, <1>4, Fun_IsBij
<1>6. ExistsBijection(1..Len(s.order), DOMAIN s.entries)
  BY <1>5, Fun_ExistsBij
<1> QED
  BY <1>1, <1>6, FS_CountingElements

\* Evicting the first key of a queue (Shard::insert, the pop_front branch).
LEMMA PopFrontSound ==
  ASSUME NEW own, NEW s, ShardTyped(s, own), ShardOrdered(s), s.order # <<>>
  PROVE  /\ ShardTyped(PopFront(s), own)
         /\ ShardOrdered(PopFront(s))
         /\ Len(PopFront(s).order) = Len(s.order) - 1
         /\ DOMAIN PopFront(s).entries = DOMAIN s.entries \ {Head(s.order)}
<1> DEFINE t == PopFront(s)
           first == Head(s.order)
<1>1. /\ t.entries = [k \in DOMAIN s.entries \ {first} |-> s.entries[k]]
      /\ t.order = Tail(s.order)
      /\ t = [entries |-> t.entries, order |-> t.order]
  BY DEF PopFront, Without
<1>2. s.order \in Seq(own)
  BY DEF ShardTyped
<1>3. /\ Tail(s.order) \in Seq(own)
      /\ Len(Tail(s.order)) = Len(s.order) - 1
      /\ \A n \in 1..(Len(s.order) - 1) : Tail(s.order)[n] = s.order[n + 1]
      /\ first = s.order[1]
      /\ Len(s.order) \in Nat \ {0}
  BY <1>2
<1>4. /\ DOMAIN t.order = 1..(Len(s.order) - 1)
      /\ DOMAIN s.order = 1..Len(s.order)
      /\ DOMAIN t.entries = DOMAIN s.entries \ {first}
  BY <1>1, <1>2, <1>3
<1>5. ShardTyped(t, own)
  BY <1>1, <1>3, <1>4 DEF ShardTyped
<1> HIDE DEF t, first
<1>6. ASSUME NEW k \in DOMAIN t.entries PROVE \E n \in DOMAIN t.order : t.order[n] = k
  <2>1. PICK n \in 1..Len(s.order) : s.order[n] = k
    BY <1>4 DEF ShardOrdered
  <2>2. n # 1
    BY <1>3, <1>4, <2>1
  <2>3. n - 1 \in 1..(Len(s.order) - 1)
    BY <1>3, <2>2
  <2>4. Tail(s.order)[n - 1] = s.order[(n - 1) + 1]
    BY <1>3, <2>3
  <2>5. (n - 1) + 1 = n
    BY <2>3
  <2> QED
    BY <1>1, <1>4, <2>1, <2>3, <2>4, <2>5
<1>7. ASSUME NEW n \in DOMAIN t.order PROVE t.order[n] \in DOMAIN t.entries
  <2>1. n \in 1..(Len(s.order) - 1) /\ n + 1 \in 1..Len(s.order) /\ n + 1 # 1 /\ 1 \in 1..Len(s.order)
    BY <1>3, <1>4
  <2>2. s.order[n + 1] \in DOMAIN s.entries /\ s.order[n + 1] # s.order[1]
    BY <1>4, <2>1 DEF ShardOrdered
  <2> QED
    BY <1>1, <1>3, <1>4, <2>1, <2>2
<1>8. ASSUME NEW m \in DOMAIN t.order, NEW n \in DOMAIN t.order, t.order[m] = t.order[n]
      PROVE  m = n
  <2>1. /\ m \in 1..(Len(s.order) - 1) /\ m + 1 \in 1..Len(s.order)
        /\ n \in 1..(Len(s.order) - 1) /\ n + 1 \in 1..Len(s.order)
    BY <1>3, <1>4
  <2>2. s.order[m + 1] = s.order[n + 1]
    BY <1>1, <1>3, <1>8, <2>1
  <2>3. m + 1 = n + 1
    BY <1>4, <2>1, <2>2 DEF ShardOrdered
  <2> QED
    BY <2>1, <2>3
<1>9. ShardOrdered(t)
  BY <1>6, <1>7, <1>8 DEF ShardOrdered
<1> QED
  BY <1>1, <1>3, <1>4, <1>5, <1>9 DEF t, first

\* Queueing a key the shard does not hold (Shard::insert, its last lines).
LEMMA PushBackSound ==
  ASSUME NEW own, NEW s, ShardTyped(s, own), ShardOrdered(s),
         NEW key \in own, key \notin DOMAIN s.entries, NEW format \in Formats
  PROVE  /\ ShardTyped(PushBack(s, key, format), own)
         /\ ShardOrdered(PushBack(s, key, format))
         /\ Len(PushBack(s, key, format).order) = Len(s.order) + 1
<1> DEFINE t == PushBack(s, key, format)
<1>1. /\ t.entries = [k \in DOMAIN s.entries \cup {key} |-> IF k = key THEN format ELSE s.entries[k]]
      /\ t.order = Append(s.order, key)
      /\ t = [entries |-> t.entries, order |-> t.order]
  BY DEF PushBack, WithEntry
<1>2. s.order \in Seq(own) /\ Len(s.order) \in Nat /\ DOMAIN s.order = 1..Len(s.order)
  BY DEF ShardTyped
<1>3. /\ Append(s.order, key) \in Seq(own)
      /\ Len(Append(s.order, key)) = Len(s.order) + 1
      /\ \A n \in 1..Len(s.order) : Append(s.order, key)[n] = s.order[n]
      /\ Append(s.order, key)[Len(s.order) + 1] = key
  BY <1>2
<1>4. /\ DOMAIN t.order = 1..(Len(s.order) + 1)
      /\ DOMAIN t.entries = DOMAIN s.entries \cup {key}
  BY <1>1, <1>3
<1>5. ShardTyped(t, own)
  <2>1. t.entries \in [DOMAIN t.entries -> Formats]
    BY <1>1, <1>4 DEF ShardTyped
  <2> QED
    BY <1>1, <1>3, <1>4, <2>1 DEF ShardTyped
<1> HIDE DEF t
<1>6. ASSUME NEW k \in DOMAIN t.entries PROVE \E n \in DOMAIN t.order : t.order[n] = k
  <2>1. CASE k = key
    BY <1>1, <1>2, <1>3, <1>4, <2>1
  <2>2. CASE k \in DOMAIN s.entries
    <3>1. PICK n \in 1..Len(s.order) : s.order[n] = k
      BY <1>2, <2>2 DEF ShardOrdered
    <3> QED
      BY <1>1, <1>2, <1>3, <1>4, <3>1
  <2> QED
    BY <1>4, <2>1, <2>2
<1>7. ASSUME NEW n \in DOMAIN t.order PROVE t.order[n] \in DOMAIN t.entries
  <2>1. CASE n = Len(s.order) + 1
    BY <1>1, <1>3, <1>4, <2>1
  <2>2. CASE n \in 1..Len(s.order)
    BY <1>1, <1>2, <1>3, <1>4, <2>2 DEF ShardOrdered
  <2> QED
    BY <1>2, <1>4, <2>1, <2>2
<1>8. ASSUME NEW m \in DOMAIN t.order, NEW n \in DOMAIN t.order, t.order[m] = t.order[n]
      PROVE  m = n
  <2>1. \A i \in 1..Len(s.order) : t.order[i] = s.order[i] /\ t.order[i] # key
    BY <1>1, <1>2, <1>3 DEF ShardOrdered
  <2>2. t.order[Len(s.order) + 1] = key
    BY <1>1, <1>3
  <2>3. CASE m \in 1..Len(s.order) /\ n \in 1..Len(s.order)
    BY <1>2, <1>8, <2>1, <2>3 DEF ShardOrdered
  <2>4. CASE m = Len(s.order) + 1 \/ n = Len(s.order) + 1
    BY <1>2, <1>4, <1>8, <2>1, <2>2, <2>4
  <2> QED
    BY <1>2, <1>4, <2>3, <2>4
<1>9. ShardOrdered(t)
  BY <1>6, <1>7, <1>8 DEF ShardOrdered
<1> QED
  BY <1>1, <1>3, <1>5, <1>9 DEF t

\* Shard::insert keeps a shard sound, whether it replaces, queues or evicts.
LEMMA InsertSound ==
  ASSUME NEW own, NEW s, Sound(s, own), NEW key \in own, NEW format \in Formats
  PROVE  Sound(ShardInsert(s, key, format), own)
<1>1. ShardTyped(s, own) /\ ShardOrdered(s) /\ ShardBounded(s)
  BY DEF Sound
<1>2. Len(s.order) \in Nat /\ capacity \in Nat
  BY <1>1, CacheAssumption DEF ShardTyped
<1>3. CASE key \in DOMAIN s.entries
  <2> DEFINE t == ShardInsert(s, key, format)
  <2>1. /\ t.entries = [k \in DOMAIN s.entries |-> IF k = key THEN format ELSE s.entries[k]]
        /\ t.order = s.order
        /\ t = [entries |-> t.entries, order |-> t.order]
    BY <1>1, <1>3 DEF ShardInsert, WithEntry, ShardTyped
  <2> HIDE DEF t
  <2>2. DOMAIN t.entries = DOMAIN s.entries /\ t.entries \in [DOMAIN t.entries -> Formats]
    BY <1>1, <2>1 DEF ShardTyped
  <2>3. ShardTyped(t, own)
    BY <1>1, <2>1, <2>2 DEF ShardTyped
  <2>4. ShardOrdered(t)
    BY <1>1, <2>1, <2>2 DEF ShardOrdered
  <2>5. ShardBounded(t)
    BY <1>1, <2>1 DEF ShardBounded
  <2> QED
    BY <2>3, <2>4, <2>5 DEF Sound, t
<1>4. CASE key \notin DOMAIN s.entries /\ Full(s)
  <2> DEFINE u == PopFront(s)
  <2>1. s.order # <<>>
    BY <1>4 DEF Full
  <2>2. /\ ShardTyped(u, own) /\ ShardOrdered(u)
        /\ Len(u.order) = Len(s.order) - 1
        /\ key \notin DOMAIN u.entries
    BY <1>1, <1>4, <2>1, PopFrontSound
  <2> HIDE DEF u
  <2> DEFINE t == PushBack(u, key, format)
  <2>3. ShardTyped(t, own) /\ ShardOrdered(t) /\ Len(t.order) = Len(u.order) + 1
    BY <2>2, PushBackSound
  <2>4. ShardInsert(s, key, format) = t
    BY <1>4 DEF ShardInsert, u
  <2> HIDE DEF t
  <2>5. Len(t.order) = Len(s.order)
    BY <1>2, <2>2, <2>3
  <2>6. ShardBounded(t)
    BY <1>1, <2>5 DEF ShardBounded
  <2> QED
    BY <2>3, <2>4, <2>6 DEF Sound
<1>5. CASE key \notin DOMAIN s.entries /\ ~Full(s)
  <2> DEFINE t == PushBack(s, key, format)
  <2>1. ShardTyped(t, own) /\ ShardOrdered(t) /\ Len(t.order) = Len(s.order) + 1
    BY <1>1, <1>5, PushBackSound
  <2>2. ShardInsert(s, key, format) = t
    BY <1>5 DEF ShardInsert
  <2> HIDE DEF t
  <2>3. Cardinality(DOMAIN s.entries) = Len(s.order)
    BY <1>1, EntriesAreQueued
  <2>4. Len(s.order) < capacity \/ Len(s.order) = 0
    BY <1>1, <1>2, <1>5, <2>3 DEF Full, ShardTyped
  <2>5. ShardBounded(t)
    BY <1>2, <2>1, <2>4 DEF ShardBounded
  <2> QED
    BY <2>1, <2>2, <2>5 DEF Sound
<1> QED
  BY <1>3, <1>4, <1>5

\* The inductive invariant: every shard is sound.
Inv == TypeOK /\ OrderIsMap /\ Bounded

\* The shard of a key is one of the cache's shards.
LEMMA ShardExists ==
  ASSUME NEW key \in Keys
  PROVE  shard_idx(key) \in 0..(num_shards - 1) /\ key \in KeysOf(shard_idx(key))
  BY CacheAssumption DEF shard_idx, KeysOf

\* An empty cache.
LEMMA InitInv == CacheInit => Inv
<1> SUFFICES ASSUME CacheInit PROVE Inv
  OBVIOUS
<1>1. DOMAIN shards = 0..(num_shards - 1) /\ \A i \in DOMAIN shards : shards[i] = EmptyShard
  BY DEF CacheInit
<1>2. \A own : ShardTyped(EmptyShard, own) /\ ShardOrdered(EmptyShard) /\ ShardBounded(EmptyShard)
  BY CacheAssumption DEF EmptyShard, ShardTyped, ShardOrdered, ShardBounded
<1> QED
  BY <1>1, <1>2 DEF Inv, TypeOK, OrderIsMap, Bounded, CacheInit

\* An insertion, by whatever thread, preserves the invariant.
LEMMA InsertInv ==
  ASSUME Inv, NEW key \in Keys, NEW format \in Formats, insert(key, format)
  PROVE  Inv'
<1> DEFINE j == shard_idx(key)
           new == ShardInsert(shards[j], key, format)
<1>1. j \in 0..(num_shards - 1) /\ key \in KeysOf(j)
  BY ShardExists
<1>2. shards' = [shards EXCEPT ![j] = new] /\ hits' = hits /\ misses' = misses
  BY DEF insert
<1>3. evictions' \in Nat
  BY DEF insert, Inv, TypeOK
<1> HIDE DEF j
<1>4. \A i \in DOMAIN shards : Sound(shards[i], KeysOf(i))
  BY DEF Inv, TypeOK, OrderIsMap, Bounded, Sound
<1>5. DOMAIN shards = 0..(num_shards - 1)
  BY DEF Inv, TypeOK
<1>6. Sound(new, KeysOf(j))
  BY <1>1, <1>4, <1>5, InsertSound
<1> HIDE DEF new
<1>7. DOMAIN shards' = DOMAIN shards /\ \A i \in DOMAIN shards : Sound(shards'[i], KeysOf(i))
  BY <1>1, <1>2, <1>4, <1>5, <1>6
<1>8. hits' \in Nat /\ misses' \in Nat
  BY <1>2 DEF Inv, TypeOK
<1>9. TypeOK'
  BY <1>3, <1>5, <1>7, <1>8 DEF TypeOK, Sound, ShardTyped, KeysOf, shard_idx
<1> QED
  BY <1>7, <1>9 DEF Inv, OrderIsMap, Bounded, Sound, ShardOrdered, ShardBounded

\* Every step of every client preserves the invariant.
LEMMA StepInv == Inv /\ [Next]_cacheVars => Inv'
<1> SUFFICES ASSUME Inv, [Next]_cacheVars PROVE Inv'
  OBVIOUS
<1>1. ASSUME shards' = shards, hits' \in Nat, misses' \in Nat, evictions' \in Nat PROVE Inv'
  <2>1. TypeOK'
    BY <1>1 DEF Inv, TypeOK, KeysOf, shard_idx
  <2>2. OrderIsMap'
    BY <1>1 DEF Inv, OrderIsMap
  <2>3. Bounded'
    BY <1>1 DEF Inv, Bounded
  <2> QED
    BY <2>1, <2>2, <2>3 DEF Inv
<1>2. CASE UNCHANGED cacheVars
  BY <1>1, <1>2 DEF cacheVars, Inv, TypeOK
<1>3. ASSUME NEW key \in Keys, get_hit(key) PROVE Inv'
  BY <1>1, <1>3 DEF get_hit, Inv, TypeOK
<1>4. ASSUME NEW key \in Keys, get_miss(key) PROVE Inv'
  BY <1>1, <1>4 DEF get_miss, Inv, TypeOK
<1>5. ASSUME NEW key \in Keys, NEW format \in Formats, insert(key, format) PROVE Inv'
  BY <1>5, InsertInv
<1> QED
  BY <1>2, <1>3, <1>4, <1>5 DEF Next

\* Shards hold only keys of their own, with routes that were inserted.
THEOREM TypeCorrect == Spec => []TypeOK
<1>1. Inv => TypeOK
  BY DEF Inv
<1> QED
  BY <1>1, InitInv, StepInv, PTL DEF Spec

\* The queue of every shard lists its keys, each once, whatever the clients do.
THEOREM OrderIsMapAlways == Spec => []OrderIsMap
<1>1. Inv => OrderIsMap
  BY DEF Inv
<1> QED
  BY <1>1, InitInv, StepInv, PTL DEF Spec

\* No shard outgrows its capacity, whatever the clients do.
THEOREM BoundedAlways == Spec => []Bounded
<1>1. Inv => Bounded
  BY DEF Inv
<1> QED
  BY <1>1, InitInv, StepInv, PTL DEF Spec

-----------------------------------------------------------------------------
(* The classifier answers with a vendor's format, or Unknown.              *)

\* The least of some natural numbers is one of them.
LEMMA FirstIsOne ==
  ASSUME NEW S, S \subseteq Nat, S # {}
  PROVE  First(S) \in S
<1> DEFINE below == {1..n : n \in S}
<1>1. below \subseteq FiniteSubsetsOf(Nat) /\ below # {}
  <2>1. \A n \in S : n \in Int /\ IsFiniteSet(1..n)
    BY FS_Interval
  <2>2. \A n \in S : 1..n \in FiniteSubsetsOf(Nat)
    BY <2>1 DEF FiniteSubsetsOf
  <2> QED
    BY <2>2
<1>2. PICK b \in below : \A c \in below : ~(<<c, b>> \in StrictSubsetOrdering(Nat))
  BY <1>1, FS_StrictSubsetOrderingWellFounded, WFMin
<1>3. PICK p \in S : b = 1..p
  BY <1>2
<1>4. \A q \in S : p <= q
  <2> SUFFICES ASSUME NEW q \in S, q < p PROVE FALSE
    OBVIOUS
  <2>1. 1..q \in SUBSET Nat /\ 1..p \in SUBSET Nat /\ 1..q \subseteq 1..p
    OBVIOUS
  <2>2. p \in 1..p /\ p \notin 1..q
    OBVIOUS
  <2>3. <<1..q, 1..p>> \in StrictSubsetOrdering(Nat)
    BY <2>1, <2>2 DEF StrictSubsetOrdering
  <2> QED
    BY <1>2, <1>3, <2>3
<1> QED
  BY <1>4 DEF First

\* Every rule of the fallback names a format, and the last one always holds.
LEMMA FallbackTyped ==
  ASSUME NEW log PROVE fallback_classify(log) \in VendorFormat \cup {Unknown}
<1> DEFINE holding == {i \in DOMAIN rules(log) : rules(log)[i].holds}
<1>1. DOMAIN rules(log) = 1..7 /\ rules(log)[7].holds
  BY DEF rules
<1>2. \A i \in 1..7 : rules(log)[i].format \in
        {"PfSense", "Suricata", "Fortinet", "PaloAlto", "KaggleFirewall", Unknown}
  <2>1. rules(log)[1].format = "PfSense" /\ rules(log)[2].format = "Suricata"
    BY DEF rules
  <2>2. rules(log)[3].format = "Fortinet" /\ rules(log)[4].format = "Fortinet"
    BY DEF rules
  <2>3. rules(log)[5].format = "PaloAlto" /\ rules(log)[6].format = "KaggleFirewall"
    BY DEF rules
  <2>4. rules(log)[7].format = Unknown
    BY DEF rules
  <2> QED
    BY <2>1, <2>2, <2>3, <2>4
<1>3. holding \subseteq 1..7 /\ holding # {}
  BY <1>1
<1> HIDE DEF holding
<1>4. First(holding) \in 1..7
  <2>1. holding \subseteq Nat
    BY <1>3
  <2> QED
    BY <1>3, <2>1, FirstIsOne
<1>5. {"PfSense", "Suricata", "Fortinet", "PaloAlto", "KaggleFirewall"} \subseteq VendorFormat
  BY DEF VendorFormat, Patterns
<1> QED
  BY <1>2, <1>4, <1>5 DEF fallback_classify, holding

\* So does the classifier: a position it decides by is that of a pattern of some vendor.
LEMMA ClassTyped == class \in [Raws -> VendorFormat \cup {Unknown}]
<1> SUFFICES ASSUME NEW r \in Raws PROVE classify(text[r]) \in VendorFormat \cup {Unknown}
  BY DEF class
<1> DEFINE log == text[r]
<1>1. log \in Text
  BY ParserAssumption
<1> HIDE DEF log
<1>2. CASE Matches(log) = {}
  BY <1>2, FallbackTyped DEF classify, log
<1>3. CASE Matches(log) # {}
  <2>1. Words(log) \in Seq(STRING)
    BY <1>1 DEF Text, Words
  <2>2. Matches(log) \subseteq Nat
    BY <2>1 DEF Matches
  <2>3. First(Matches(log)) \in Matches(log)
    BY <1>3, <2>2, FirstIsOne
  <2>4. \E f \in VendorFormat : Words(log)[First(Matches(log))] \in Patterns[f]
    BY <2>3 DEF Matches
  <2>5. classify(log) \in VendorFormat
    BY <1>3, <2>4 DEF classify
  <2> QED
    BY <2>5 DEF log
<1> QED
  BY <1>2, <1>3

-----------------------------------------------------------------------------
(* The callers are clients of the cache.                                   *)

\* The variables hold values of their types, and a thread about to insert has a
\* format to insert.
Typed ==
  /\ pc \in [Threads -> {"idle", "insert", "panicked"}]
  /\ raw \in [Threads -> Raws]
  /\ event = [t \in Threads |-> event[t]]
  /\ \A t \in Threads : pc[t] = "insert" => class[raw[t]] # Unknown

LEMMA InitTyped == ParserInit => Typed
<1> SUFFICES ASSUME ParserInit PROVE Typed
  OBVIOUS
<1>1. (CHOOSE r \in Raws : TRUE) \in Raws
  BY ParserAssumption
<1> QED
  BY <1>1 DEF ParserInit, Typed

LEMMA StepTyped == Typed /\ [ParserNext]_vars => Typed'
<1> SUFFICES ASSUME Typed, [ParserNext]_vars PROVE Typed'
  OBVIOUS
<1> USE DEF Typed
<1>1. CASE UNCHANGED vars
  BY <1>1 DEF vars
<1>2. ASSUME NEW t \in Threads, NEW r \in Raws, Panic(t, r) PROVE Typed'
  BY <1>2 DEF Panic, Call
<1>3. ASSUME NEW t \in Threads, NEW r \in Raws, Hit(t, r) PROVE Typed'
  BY <1>3 DEF Hit, Call, Return
<1>4. ASSUME NEW t \in Threads, NEW r \in Raws, MissUnknown(t, r) PROVE Typed'
  BY <1>4 DEF MissUnknown, Call, Return
<1>5. ASSUME NEW t \in Threads, NEW r \in Raws, Miss(t, r) PROVE Typed'
  BY <1>5 DEF Miss, Call
<1>6. ASSUME NEW t \in Threads, Insert(t) PROVE Typed'
  BY <1>6 DEF Insert, Return
<1> QED
  BY <1>1, <1>2, <1>3, <1>4, <1>5, <1>6 DEF ParserNext

\* Every step of the callers is one of the cache, or leaves it alone.
LEMMA StepOfCache == Typed /\ [ParserNext]_vars => [Next]_cacheVars
<1> SUFFICES ASSUME Typed, [ParserNext]_vars PROVE [Next]_cacheVars
  OBVIOUS
<1>1. \A r \in Raws : signature[r] \in Keys
  BY CachedParserAssumption
<1>2. CASE UNCHANGED vars
  BY <1>2 DEF vars
<1>3. ASSUME NEW t \in Threads, NEW r \in Raws, Panic(t, r) PROVE UNCHANGED cacheVars
  BY <1>3 DEF Panic
<1>4. ASSUME NEW t \in Threads, NEW r \in Raws, Hit(t, r) PROVE Next
  BY <1>1, <1>4 DEF Hit, Next
<1>5. ASSUME NEW t \in Threads, NEW r \in Raws, MissUnknown(t, r) PROVE Next
  BY <1>1, <1>5 DEF MissUnknown, Next
<1>6. ASSUME NEW t \in Threads, NEW r \in Raws, Miss(t, r) PROVE Next
  BY <1>1, <1>6 DEF Miss, Next
<1>7. ASSUME NEW t \in Threads, Insert(t) PROVE Next
  <2>1. raw[t] \in Raws /\ class[raw[t]] # Unknown
    BY <1>7 DEF Insert, Typed
  <2>2. class[raw[t]] \in Formats
    BY <2>1, ClassTyped, CachedParserAssumption
  <2>3. insert(signature[raw[t]], class[raw[t]])
    BY <1>7 DEF Insert
  <2> QED
    BY <1>1, <2>1, <2>2, <2>3 DEF Next
<1> QED
  BY <1>2, <1>3, <1>4, <1>5, <1>6, <1>7 DEF ParserNext

\* parse_cached_lossless uses the cache as its specification says, whatever its
\* callers do and however they interleave.
THEOREM CallersImplementCache == ParserSpec => ImplementsCache
<1>1. ParserInit => CacheInit
  BY DEF ParserInit
<1>2. ParserInit => Typed
  BY InitTyped
<1>3. Typed /\ [ParserNext]_vars => Typed'
  BY StepTyped
<1>4. Typed /\ [ParserNext]_vars => [Next]_cacheVars
  BY StepOfCache
<1> QED
  BY <1>1, <1>2, <1>3, <1>4, PTL DEF ParserSpec, ImplementsCache, Spec

\* The shards of the parser's cache stay consistent and bounded.
THEOREM ParserCacheSound == ParserSpec => [](OrderIsMap /\ Bounded)
<1>1. ParserSpec => Spec
  BY CallersImplementCache DEF ImplementsCache
<1> QED
  BY <1>1, OrderIsMapAlways, BoundedAlways, PTL

-----------------------------------------------------------------------------
(* Answers from the cache.                                                 *)

\* A cached route is the class of some log with this signature.
Routes ==
  \A i \in DOMAIN shards : \A k \in DOMAIN shards[i].entries :
    \E q \in Raws : signature[q] = k /\ class[q] = shards[i].entries[k]

\* What an insertion leaves in a shard: the new route, and routes that were there.
LEMMA InsertedEntries ==
  ASSUME NEW s, NEW key, NEW format,
         NEW k \in DOMAIN ShardInsert(s, key, format).entries
  PROVE  \/ k = key /\ ShardInsert(s, key, format).entries[k] = format
         \/ k \in DOMAIN s.entries /\ ShardInsert(s, key, format).entries[k] = s.entries[k]
<1>1. CASE key \in DOMAIN s.entries
  <2>1. ShardInsert(s, key, format).entries = WithEntry(s.entries, key, format)
    BY <1>1 DEF ShardInsert
  <2> QED
    BY <2>1 DEF WithEntry
<1>2. CASE key \notin DOMAIN s.entries /\ Full(s)
  <2>1. ShardInsert(s, key, format).entries
          = WithEntry(Without(s.entries, Head(s.order)), key, format)
    BY <1>2 DEF ShardInsert, PushBack, PopFront
  <2> QED
    BY <2>1 DEF WithEntry, Without
<1>3. CASE key \notin DOMAIN s.entries /\ ~Full(s)
  <2>1. ShardInsert(s, key, format).entries = WithEntry(s.entries, key, format)
    BY <1>3 DEF ShardInsert, PushBack
  <2> QED
    BY <2>1 DEF WithEntry
<1> QED
  BY <1>1, <1>2, <1>3

\* The inductive invariant.
ParserInv == Typed /\ Inv /\ Routes /\ CachedAsUncached

LEMMA RoutesKept ==
  ASSUME Typed, Routes, [ParserNext]_vars
  PROVE  Routes'
<1>1. ASSUME shards' = shards PROVE Routes'
  BY <1>1 DEF Routes
<1>2. ASSUME NEW t \in Threads, Insert(t) PROVE Routes'
  <2> DEFINE key == signature[raw[t]]
             new == ShardInsert(shards[shard_idx(key)], key, class[raw[t]])
  <2>1. shards' = [shards EXCEPT ![shard_idx(key)] = new] /\ raw[t] \in Raws
    BY <1>2 DEF Insert, insert, Typed
  <2> SUFFICES ASSUME NEW i \in DOMAIN shards', NEW k \in DOMAIN shards'[i].entries
               PROVE  \E q \in Raws : signature[q] = k /\ class[q] = shards'[i].entries[k]
    BY DEF Routes
  <2>2. CASE i = shard_idx(key)
    <3>1. shards'[i] = new /\ i \in DOMAIN shards
      BY <2>1, <2>2
    <3>2. \/ k = key /\ new.entries[k] = class[raw[t]]
          \/ k \in DOMAIN shards[i].entries /\ new.entries[k] = shards[i].entries[k]
      BY <2>2, <3>1, InsertedEntries
    <3> HIDE DEF new
    <3> QED
      BY <2>1, <3>1, <3>2 DEF Routes
  <2>3. CASE i # shard_idx(key)
    <3>1. shards'[i] = shards[i] /\ i \in DOMAIN shards
      BY <2>1, <2>3
    <3> QED
      BY <3>1 DEF Routes
  <2> QED
    BY <2>2, <2>3
<1>3. CASE UNCHANGED vars
  BY <1>1, <1>3 DEF vars, cacheVars
<1>4. ASSUME NEW t \in Threads, NEW r \in Raws,
             Panic(t, r) \/ Hit(t, r) \/ MissUnknown(t, r) \/ Miss(t, r)
      PROVE  shards' = shards
  BY <1>4 DEF Panic, Hit, MissUnknown, Miss, get_hit, get_miss, cacheVars
<1> QED
  BY <1>1, <1>2, <1>3, <1>4 DEF ParserNext

\* An answer of thread t, given that of the others.
LEMMA Answered ==
  ASSUME Typed, CachedAsUncached, NEW t \in Threads, NEW r \in Raws, NEW q \in Raws,
         signature[q] = signature[r],
         raw'[t] = r, event'[t] = <<parse_as(r, class[q])>>,
         \A u \in Threads \ {t} : raw'[u] = raw[u] /\ event'[u] = event[u]
  PROVE  CachedAsUncached'
<1> SUFFICES ASSUME NEW u \in Threads, event'[u] # <<>>
             PROVE  \E p \in Raws : /\ signature[p] = signature[raw'[u]]
                                   /\ event'[u][1] = parse_as(raw'[u], class[p])
  BY DEF CachedAsUncached
<1>1. CASE u = t
  BY <1>1
<1>2. CASE u # t
  BY <1>2 DEF CachedAsUncached
<1> QED
  BY <1>1, <1>2

LEMMA AnswersKept ==
  ASSUME ParserInv, [ParserNext]_vars
  PROVE  CachedAsUncached'
<1> USE DEF ParserInv
<1>1. ASSUME NEW t \in Threads, event'[t] = <<>>,
             \A u \in Threads \ {t} : raw'[u] = raw[u] /\ event'[u] = event[u]
      PROVE  CachedAsUncached'
  BY <1>1 DEF CachedAsUncached
<1>2. CASE UNCHANGED vars
  BY <1>2 DEF vars, CachedAsUncached
<1>3. ASSUME NEW t \in Threads, NEW r \in Raws, Panic(t, r) \/ Miss(t, r) PROVE CachedAsUncached'
  BY <1>1, <1>3 DEF Panic, Miss, Call, Typed
<1>4. ASSUME NEW t \in Threads, NEW r \in Raws, Hit(t, r) PROVE CachedAsUncached'
  <2>1. /\ raw'[t] = r /\ event'[t] = <<parse_as(r, route(signature[r]))>>
        /\ \A u \in Threads \ {t} : raw'[u] = raw[u] /\ event'[u] = event[u]
    BY <1>4 DEF Hit, Call, Return, Typed
  <2>2. Holds(signature[r]) /\ signature[r] \in Keys
    BY <1>4, CachedParserAssumption DEF Hit, get_hit
  <2>3. shard_idx(signature[r]) \in DOMAIN shards
    BY <2>2, ShardExists DEF Inv, TypeOK
  <2>4. PICK q \in Raws : signature[q] = signature[r] /\ class[q] = route(signature[r])
    BY <2>2, <2>3 DEF Routes, Holds, route
  <2> QED
    BY <2>1, <2>4, Answered
<1>5. ASSUME NEW t \in Threads, NEW r \in Raws, MissUnknown(t, r) PROVE CachedAsUncached'
  <2>1. /\ raw'[t] = r /\ event'[t] = <<parse_as(r, class[r])>>
        /\ \A u \in Threads \ {t} : raw'[u] = raw[u] /\ event'[u] = event[u]
    BY <1>5 DEF MissUnknown, Call, Return, Typed
  <2> QED
    BY <2>1, Answered
<1>6. ASSUME NEW t \in Threads, Insert(t) PROVE CachedAsUncached'
  <2>1. /\ raw'[t] = raw[t] /\ event'[t] = <<parse_as(raw[t], class[raw[t]])>>
        /\ raw[t] \in Raws
        /\ \A u \in Threads \ {t} : raw'[u] = raw[u] /\ event'[u] = event[u]
    BY <1>6 DEF Insert, Return, Typed
  <2> QED
    BY <2>1, Answered
<1> QED
  BY <1>2, <1>3, <1>4, <1>5, <1>6 DEF ParserNext

\* Whatever was cached or evicted before and whichever threads race, an event is one
\* the extractor of some log's class, with this signature, finds in the log itself.
THEOREM CachedAsUncachedAlways == ParserSpec => []CachedAsUncached
<1>1. ParserInit => ParserInv
  <2>1. ParserInit => Inv
    BY InitInv DEF ParserInit
  <2>2. ParserInit => Routes
    BY DEF ParserInit, CacheInit, EmptyShard, Routes
  <2>3. ParserInit => CachedAsUncached
    BY DEF ParserInit, CachedAsUncached
  <2> QED
    BY <2>1, <2>2, <2>3, InitTyped DEF ParserInv
<1>2. ParserInv /\ [ParserNext]_vars => ParserInv'
  <2> SUFFICES ASSUME ParserInv, [ParserNext]_vars PROVE ParserInv'
    OBVIOUS
  <2>1. Typed' /\ [Next]_cacheVars
    BY StepTyped, StepOfCache DEF ParserInv
  <2>2. Inv'
    BY <2>1, StepInv DEF ParserInv
  <2>3. Routes'
    BY RoutesKept DEF ParserInv
  <2>4. CachedAsUncached'
    BY AnswersKept
  <2> QED
    BY <2>1, <2>2, <2>3, <2>4 DEF ParserInv
<1>3. ParserInv => CachedAsUncached
  BY DEF ParserInv
<1> QED
  BY <1>1, <1>2, <1>3, PTL DEF ParserSpec

\* A log whose signature no log of another class shares is parsed as without the cache.
THEOREM UnaliasedAsUncached ==
  ParserSpec =>
    [](\A t \in Threads : event[t] # <<>> /\ ~Aliased(raw[t])
                          => event[t][1] = parse_lossless(raw[t]))
<1> DEFINE Unaliased == \A t \in Threads : event[t] # <<>> /\ ~Aliased(raw[t])
                                           => event[t][1] = parse_lossless(raw[t])
<1>1. CachedAsUncached => Unaliased
  <2> SUFFICES ASSUME CachedAsUncached, NEW t \in Threads, event[t] # <<>>, ~Aliased(raw[t])
               PROVE  event[t][1] = parse_lossless(raw[t])
    OBVIOUS
  <2>1. PICK q \in Raws : /\ signature[q] = signature[raw[t]]
                         /\ event[t][1] = parse_as(raw[t], class[q])
    BY DEF CachedAsUncached
  <2>2. class[q] = class[raw[t]]
    BY <2>1 DEF Aliased
  <2> QED
    BY <2>1, <2>2 DEF parse_as, parse_lossless, parse
<1> QED
  BY <1>1, CachedAsUncachedAlways, PTL

\* A thread that inserts or has answered has looked a signature up: no window of its
\* log ends inside a character.
Whole == \A t \in Threads : event[t] # <<>> \/ pc[t] = "insert" => ~text[raw[t]].split

LEMMA WholeKept == Typed /\ Whole /\ [ParserNext]_vars => Whole'
<1> SUFFICES ASSUME Typed, Whole, [ParserNext]_vars PROVE Whole'
  OBVIOUS
<1>1. CASE UNCHANGED vars
  BY <1>1 DEF vars, Whole
<1>2. ASSUME NEW t \in Threads, NEW r \in Raws, Panic(t, r) PROVE Whole'
  BY <1>2 DEF Panic, Call, Typed, Whole
<1>3. ASSUME NEW t \in Threads, NEW r \in Raws, Hit(t, r) PROVE Whole'
  BY <1>3 DEF Hit, Call, Return, Typed, Whole
<1>4. ASSUME NEW t \in Threads, NEW r \in Raws, MissUnknown(t, r) PROVE Whole'
  BY <1>4 DEF MissUnknown, Call, Return, Typed, Whole
<1>5. ASSUME NEW t \in Threads, NEW r \in Raws, Miss(t, r) PROVE Whole'
  BY <1>5 DEF Miss, Call, Typed, Whole
<1>6. ASSUME NEW t \in Threads, Insert(t) PROVE Whole'
  BY <1>6 DEF Insert, Return, Typed, Whole
<1> QED
  BY <1>1, <1>2, <1>3, <1>4, <1>5, <1>6 DEF ParserNext

\* If the uncached parser reports each log as its device meant it, so does the cached
\* one, for any number of callers, any interleaving and any cache: the hypothesis is
\* about the extractors alone.
THEOREM EventAsMeantAlways ==
  ASSUME ReadAsMeant
  PROVE  ParserSpec => []EventAsMeant
<1> DEFINE Unaliased == \A t \in Threads : event[t] # <<>> /\ ~Aliased(raw[t])
                                           => event[t][1] = parse_lossless(raw[t])
<1>1. ParserInit => Typed /\ Whole
  BY InitTyped DEF ParserInit, Whole
<1>2. Typed /\ Whole /\ [ParserNext]_vars => Typed' /\ Whole'
  BY StepTyped, WholeKept
<1>3. ReadAsMeant /\ Whole /\ Unaliased => EventAsMeant
  BY DEF ReadAsMeant, Whole, EventAsMeant
<1>4. Whole /\ Unaliased => EventAsMeant
  BY <1>3
<1>5. ParserSpec => []Unaliased
  BY UnaliasedAsUncached
<1> QED
  BY <1>1, <1>2, <1>4, <1>5, PTL DEF ParserSpec
=============================================================================
