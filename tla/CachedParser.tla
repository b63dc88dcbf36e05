---------------------------- MODULE CachedParser ----------------------------
(***************************************************************************)
(* parse_cached_lossless (ulpf-core, parser/mod.rs), called by any number  *)
(* of threads at once on one UniversalParser: the signature cache (module  *)
(* LruCache) answers for the classifier.                                   *)
(*                                                                         *)
(* Threads meet in the cache only, so that what a thread does up to its    *)
(* next access to the cache belongs to the step of this access.            *)
(***************************************************************************)
EXTENDS Parser, LruCache

CONSTANTS
  Threads,   \* callers
  MaxCalls,  \* bound: calls in one behaviour
  meant      \* what a log was written to report: of its vendor, disposition and two
             \* endpoints, those that it states beyond dispute

ASSUME CachedParserAssumption ==
  /\ signature \in [Raws -> Keys]
  /\ Formats = VendorFormat
  /\ MaxCalls \in Nat
  /\ DOMAIN meant \subseteq Raws
  /\ \A r \in DOMAIN meant : DOMAIN meant[r] \subseteq {"vendor", "disposition", "src", "dst"}

VARIABLES
  pc,     \* "idle", "insert" after a miss, or "panicked"
  raw,    \* the log each thread works on
  event,  \* what each idle thread's last call returned, <<>> before the first
  calls

vars == <<cacheVars, pc, raw, event, calls>>

\* parse_with_format, and the generic event for its error.
parse_as(r, format) == Lossless(parse_with_format(r, format))

Return(t, r, format) ==
  /\ pc' = [pc EXCEPT ![t] = "idle"]
  /\ event' = [event EXCEPT ![t] = <<parse_as(r, format)>>]

Call(t, r) ==
  /\ pc[t] = "idle"
  /\ calls' = calls + 1
  /\ raw' = [raw EXCEPT ![t] = r]

\* The signature cuts the log inside a character.
Panic(t, r) ==
  /\ Call(t, r)
  /\ text[r].split
  /\ pc' = [pc EXCEPT ![t] = "panicked"]
  /\ event' = [event EXCEPT ![t] = <<>>]
  /\ UNCHANGED cacheVars

\* The cache knows the format.
Hit(t, r) ==
  /\ Call(t, r)
  /\ ~text[r].split
  /\ get_hit(signature[r])
  /\ Return(t, r, route(signature[r]))

\* It does not, nor does the classifier.
MissUnknown(t, r) ==
  /\ Call(t, r)
  /\ ~text[r].split
  /\ get_miss(signature[r])
  /\ class[r] = Unknown
  /\ Return(t, r, Unknown)

\* Mutant: what the classifier does not know is cached as well.
Miss_Unknown(t, r) ==
  /\ Call(t, r)
  /\ ~text[r].split
  /\ get_miss(signature[r])
  /\ pc' = [pc EXCEPT ![t] = "insert"]
  /\ event' = [event EXCEPT ![t] = <<>>]

\* It does not, and the classifier does.
Miss(t, r) ==
  /\ Call(t, r)
  /\ ~text[r].split
  /\ get_miss(signature[r])
  /\ class[r] # Unknown
  /\ pc' = [pc EXCEPT ![t] = "insert"]
  /\ event' = [event EXCEPT ![t] = <<>>]

\* Mutant: the key is the number of the shard.
Insert_ByShard(t) ==
  /\ pc[t] = "insert"
  /\ insert(shard_idx(signature[raw[t]]), class[raw[t]])
  /\ Return(t, raw[t], class[raw[t]])
  /\ UNCHANGED <<raw, calls>>

\* The format is cached, whatever other threads have cached since the miss.
Insert(t) ==
  /\ pc[t] = "insert"
  /\ insert(signature[raw[t]], class[raw[t]])
  /\ Return(t, raw[t], class[raw[t]])
  /\ UNCHANGED <<raw, calls>>

ParserInit ==
  /\ CacheInit
  /\ pc = [t \in Threads |-> "idle"]
  /\ raw = [t \in Threads |-> CHOOSE r \in Raws : TRUE]
  /\ event = [t \in Threads |-> <<>>]
  /\ calls = 0

ParserNext ==
  \E t \in Threads :
    \/ /\ calls < MaxCalls
       /\ \E r \in Raws : Panic(t, r) \/ Hit(t, r) \/ MissUnknown(t, r) \/ Miss(t, r)
    \/ Insert(t)

ParserSpec == ParserInit /\ [][ParserNext]_vars

-----------------------------------------------------------------------------
(* Properties.                                                             *)

Reports(e, said) ==
  \A field \in DOMAIN said :
    [vendor |-> e.vendor, disposition |-> e.disposition, src |-> e.src, dst |-> e.dst][field] = said[field]

\* Every log of the vendors' formats, whatever its header, the order and quoting of
\* its fields, its version of IP, whichever threads called before and whatever is
\* cached, is reported as the device meant it: its vendor, both its endpoints, and its
\* verdict where the documents do not contradict the code about the name of it.
\* A log that shares its signature with a log of another class is excepted: it may be
\* given that log's extractor.
EventAsMeant ==
  \A t \in Threads : event[t] # <<>> /\ raw[t] \in DOMAIN meant /\ ~Aliased(raw[t]) =>
    Reports(event[t][1], meant[raw[t]])

\* The uncached parser reports every log that it reads as the device meant it: what is
\* left of EventAsMeant without callers and cache.
ReadAsMeant ==
  \A r \in DOMAIN meant : ~Aliased(r) /\ ~text[r].split => Reports(parse_lossless(r), meant[r])

\* "Skipping classification completely" loses nothing: the event of a log is the one
\* an extractor finds in it that is the log's own, or the one of another log with its
\* signature; and if no log has its signature but those of its class, it is the event
\* of the uncached parser.
CachedAsUncached ==
  \A t \in Threads : event[t] # <<>> =>
    \E q \in Raws :
      /\ signature[q] = signature[raw[t]]
      /\ event[t][1] = parse_as(raw[t], class[q])

\* The threads use the cache as its specification says.
ImplementsCache == Spec
=============================================================================
