----------------------------- MODULE Onboarder -----------------------------
(***************************************************************************)
(* Parser onboarding (ulpf-ai, onboarder.rs, and `ulpf onboard`, main.rs): *)
(* a regular expression is synthesised from a few sample lines, validated  *)
(* against them, exported as JSON and as YAML, and loaded from either file *)
(* into the registry of dynamic parsers.                                   *)
(*                                                                         *)
(* A line is a sequence of tokens; a token is a record of its spelling, of *)
(* which regular expression of the synthesiser it matches, of the key it   *)
(* is the value of (`src=...`; "none" for a bare token), and of whether    *)
(* its address and port are valid.  A pattern is a sequence of parts, each *)
(* matching one token; the parts are adjacent or, after `.*?`, any number  *)
(* of tokens apart.  Only literal parts are spelled out, because only they *)
(* may hold what the YAML writer and reader treat specially.  No token is  *)
(* a proper prefix of another (a pattern ends in `.*`, so that its last    *)
(* part would match both).                                                 *)
(* Events are followed as far as their endpoints, and `sample_logs`, which *)
(* nothing reads and whose quotes YAML loses, as the samples they were.    *)
(***************************************************************************)
EXTENDS Integers, Sequences, FiniteSets, SequencesExt

CONSTANTS
  Chars,        \* what tokens are spelled with
  SampleFiles,  \* what `--sample` may name: sequences of trimmed, non-blank lines
  Vendors,      \* `--vendor`
  to_lowercase, \* str::to_lowercase on vendors
  MaxRuns       \* bound: parsers generated in one behaviour

Backslash == "\\"
Quote     == "\""

Lines      == UNION {Range(file) : file \in SampleFiles}
LineTokens == UNION {Range(line) : line \in Lines}

ASSUME OnboarderAssumption ==
  /\ {Backslash, Quote, "."} \subseteq Chars
  /\ SampleFiles \subseteq Seq(Seq(LineTokens) \ {<<>>})
  /\ \A t \in LineTokens : DOMAIN t = {"class", "field", "text", "valid"} /\ t.text \in Seq(Chars)
  /\ \A t, u \in LineTokens : t.text = u.text => t = u
  /\ Vendors \subseteq DOMAIN to_lowercase
  /\ MaxRuns \in Nat

VARIABLES
  json, yaml,  \* the exported files, by the name of the vendor in lower case
  cli,         \* where run_onboard is: "idle", "json" or "yaml" (about to write it)
  parser_def,  \* the definition it exports
  registry,    \* DynamicParserRegistry::parsers
  torn,        \* history: vendors of whose files one was written and not the other
  runs         \* parsers generated so far, for the bound

onboarding == <<json, yaml, cli, parser_def, registry, torn, runs>>

-----------------------------------------------------------------------------
(* Spelling.                                                               *)

\* One pass over a text, from the left: of a backslash and one of `drop` only the
\* second is left; else one of `add` is given a backslash.  rest[n] is what becomes
\* of the last n characters.
Pass(text, add, drop) ==
  LET char(n) == text[Len(text) + 1 - n]
      rest[n \in 0..Len(text)] ==
        IF n = 0 THEN <<>>
        ELSE IF n > 1 /\ char(n) = Backslash /\ char(n - 1) \in drop
          THEN <<char(n - 1)>> \o rest[n - 2]
        ELSE IF char(n) \in add THEN <<Backslash, char(n)>> \o rest[n - 1]
        ELSE <<char(n)>> \o rest[n - 1]
  IN rest[Len(text)]

Prefixed(text, chars)  == Pass(text, chars, {})
Collapsed(text, chars) == Pass(text, {}, chars)

\* regex::escape.
escape(text) == Prefixed(text, {Backslash, "."})

\* What a literal part of a regular expression matches.
Read(text) == Collapsed(text, Chars)

\* The value of regex_pattern in the YAML file, and what the reader makes of it.
to_yaml(text)   == Prefixed(text, {Backslash, Quote})

\* Mutant: the reader takes the value as it stands.
from_yaml_Verbatim(text) == text

from_yaml(text) == Collapsed(text, {Backslash})

-----------------------------------------------------------------------------
(* Patterns.                                                               *)

Plain(classes)         == [field |-> "none", classes |-> classes]
Valued(field, classes) == [field |-> field, classes |-> classes]
Anything               == [field |-> "any", classes |-> {}]
Is(t, kind)            == kind = Anything \/ (t.field = kind.field /\ t.class \in kind.classes)

Part(gap, kind, text, names) == [gap |-> gap, kind |-> kind, text |-> text, names |-> names]
Literal(t)                   == Part(FALSE, Anything, escape(t.text), {})
Group(gap, kind, names)      == Part(gap, kind, <<>>, names)

Accepts(part, t) == IF part.text = <<>> THEN Is(t, part.kind) ELSE t.text = Read(part.text)

Letters == {"action", "proto", "alpha"}
Source  == {"src_ip", "src_port"}
Target  == {"dst_ip", "dst_port"}

\* Regex::new refuses a pattern that names two groups alike.
Compiles(pattern) ==
  \A i, j \in DOMAIN pattern : pattern[i].names \cap pattern[j].names # {} => i = j

\* Where the parts of a pattern match, the leftmost match first, when `accepts`
\* are the places each of them accepts: <<>> when they do not.
Places(gap, accepts, len) ==
  LET n == Len(gap)
      next(k, p) == (IF gap[k] THEN (p + 1)..len ELSE {p + 1}) \cap accepts[k]
      fits[k \in 1..(n + 1), p \in 0..len] ==
        k > n \/ \E q \in next(k, p) : fits[k + 1, q]
      at[k \in 0..n] ==
        IF k = 0 THEN 0
        ELSE LET ends == {q \in next(k, at[k - 1]) : fits[k + 1, q]}
             IN CHOOSE q \in ends : \A r \in ends : q <= r
  IN IF fits[1, 0] THEN [k \in 1..n |-> at[k]] ELSE <<>>

\* The tokens of a line that the parts of a pattern match, or <<>>.
captures(pattern, line) ==
  LET at == Places([k \in DOMAIN pattern |-> pattern[k].gap],
                   [k \in DOMAIN pattern |-> {q \in DOMAIN line : Accepts(pattern[k], line[q])}],
                   Len(line))
  IN IF at = <<>> THEN <<>> ELSE [k \in DOMAIN pattern |-> line[at[k]]]

-----------------------------------------------------------------------------
(* Synthesis.                                                              *)

\* IP/PORT->IP/PORT behind the header of RT_FLOW (and before its tail) or
\* anywhere; else IP:PORT -> IP:PORT behind a device and an action.  A timestamp
\* before the device counts as part of it.
synthesize_flow_regex(first) ==
  LET flow(gap, class) == Group(gap, Plain({class}), Source \cup Target)
      any              == Group(FALSE, Anything, {})
  IN IF \A i \in DOMAIN first : first[i].class # "flow/"
       THEN <<any, Group(FALSE, Plain(Letters), {"action"}),
              flow(FALSE, "flow:")>>
     ELSE IF first[1].class = "rt"
       THEN <<Group(FALSE, Plain({"rt"}), {}), any, Group(FALSE, Plain({"session"}), {}),
              Group(FALSE, Plain(Letters), {"action_verb"}), flow(TRUE, "flow/"),
              Group(FALSE, Plain({"tail"}), {"protocol"})>>
     ELSE <<flow(TRUE, "flow/")>>

\* The fields of the first sample, in the order they appear there.
synthesize_kv_regex(first) ==
  LET accepts == [action |-> Letters, src_ip |-> {"ip"}, src_port |-> {"port"},
                  dst_ip |-> {"ip"}, dst_port |-> {"port"},
                  protocol |-> Letters \cup {"port"}]
      starts(i) == /\ first[i].field \in DOMAIN accepts
                   /\ \A j \in 1..(i - 1) : first[j].field # first[i].field
      keys == {i \in DOMAIN first : starts(i)}
  IN [k \in 1..Cardinality(keys) |->
        LET key   == CHOOSE i \in keys : Cardinality({j \in keys : j < i}) = k - 1
            field == first[key].field
        IN Group(TRUE, Valued(field, accepts[field]), {field})]

\* One part per column that all samples have: a literal where they agree, the
\* first address and the first port of the rest are the source's.
synthesize_positional_regex(samples) ==
  LET min_len == CHOOSE n \in {Len(s) : s \in Range(samples)} :
                   \A s \in Range(samples) : n <= Len(s)
      col(i)  == {s[i] : s \in Range(samples)}
      is(i, classes) == Cardinality(col(i)) > 1 /\ \A t \in col(i) : Is(t, Plain(classes))
      IpPort == {"ip:port", "ip/port"}
      ip_count(i)   == Cardinality({j \in 1..(i - 1) : is(j, IpPort) \/ is(j, {"ip"})})
      port_count(i) == Cardinality({j \in 1..(i - 1) : is(j, IpPort) \/ is(j, {"port"})})
      part(i) ==
        CASE Cardinality(col(i)) = 1 -> Literal(samples[1][i])
          [] is(i, IpPort) -> Group(FALSE, Plain({samples[1][i].class}),
                                    IF ip_count(i) = 0 THEN Source ELSE Target)
          [] is(i, {"ip"}) -> Group(FALSE, Plain({"ip"}),
                                    {IF ip_count(i) = 0 THEN "src_ip" ELSE "dst_ip"})
          [] is(i, {"port"}) -> Group(FALSE, Plain({"port"}),
                                      {IF port_count(i) = 0 THEN "src_port" ELSE "dst_port"})
          [] is(i, {"proto"}) -> Group(FALSE, Plain(Letters \cup {"port"}), {"protocol"})
          [] is(i, {"action"}) -> Group(FALSE, Plain(Letters), {"action"})
          [] is(i, {"timestamp"}) -> Group(FALSE, Anything, {"timestamp"})
          [] OTHER -> Group(FALSE, Anything, {})
  IN [i \in 1..min_len |-> part(i)]

\* The first sample decides which synthesiser is used.
synthesize_regex(samples) ==
  LET has(classes) == \E t \in Range(samples[1]) : Is(t, Plain(classes))
  IN IF has({"flow/", "flow:"}) THEN synthesize_flow_regex(samples[1])
     ELSE IF ~has({"arrow", "session"}) /\ \E t \in Range(samples[1]) : t.field = "src_ip"
       THEN synthesize_kv_regex(samples[1])
     ELSE synthesize_positional_regex(samples)

-----------------------------------------------------------------------------
(* Validation and generation.                                              *)

Carries(pattern, name) == \E k \in DOMAIN pattern : name \in pattern[k].names

\* Mutant: an address or a port need only look like one.
SampleOK_AnyAddress(pattern, line) ==
  /\ captures(pattern, line) # <<>>
  /\ Carries(pattern, "src_ip") /\ Carries(pattern, "dst_ip")

\* One turn of the loop of validate_parser, without `continue`.
SampleOK(pattern, line) ==
  /\ captures(pattern, line) # <<>>
  /\ Carries(pattern, "src_ip") /\ Carries(pattern, "dst_ip")
  /\ \A k \in DOMAIN pattern :
       pattern[k].names \cap (Source \cup Target) # {} => captures(pattern, line)[k].valid

validate_parser(pattern, samples) ==
  Compiles(pattern) /\ \A i \in DOMAIN samples : SampleOK(pattern, samples[i])

ParserDefinition(vendor, pattern, samples) ==
  [vendor |-> vendor, regex_pattern |-> pattern, sample_logs |-> samples]

\* The definitions Onboarder::generate_parser returns for a vendor and the first
\* ten lines of a file: none if it returns an error.
generate_parser ==
  [vendor \in Vendors |-> [file \in SampleFiles |->
     LET samples == SubSeq(file, 1, IF Len(file) < 10 THEN Len(file) ELSE 10)
         pattern == synthesize_regex(samples)
     IN IF Len(samples) >= 3 /\ pattern # <<>> /\ validate_parser(pattern, samples)
          THEN {ParserDefinition(vendor, pattern, samples)} ELSE {}]]

\* ParserDefinition::parse: the tokens that the source and the target of the
\* event are read from, <<>> for an error.
parse(def, line) ==
  LET caps       == captures(def.regex_pattern, line)
      from(name) == {caps[k] : k \in {j \in DOMAIN caps : name \in def.regex_pattern[j].names}}
  IN IF ~Compiles(def.regex_pattern) \/ caps = <<>> THEN <<>>
     ELSE <<from("src_ip"), from("src_port"), from("dst_ip"), from("dst_port")>>

-----------------------------------------------------------------------------
(* `ulpf onboard`, and the registry of another process.                    *)

Key(vendor)  == to_lowercase[vendor]
Put(f, k, v) == [j \in DOMAIN f \cup {k} |-> IF j = k THEN v ELSE f[j]]
Drop(f, k)   == [j \in DOMAIN f \ {k} |-> f[j]]

\* The definition as the YAML file holds it, and as it is read from there.
Spelled(part, text) == Part(part.gap, part.kind, text, part.names)

Exported(def) ==
  LET pattern == def.regex_pattern
  IN ParserDefinition(def.vendor,
       [k \in DOMAIN pattern |-> Spelled(pattern[k], to_yaml(pattern[k].text))], def.sample_logs)

Imported(def) ==
  LET pattern == def.regex_pattern
  IN ParserDefinition(def.vendor,
       [k \in DOMAIN pattern |-> Spelled(pattern[k], from_yaml(pattern[k].text))], def.sample_logs)

\* A parser is generated; an error ends the run.
run_onboard(vendor, file) ==
  /\ cli = "idle"
  /\ runs < MaxRuns
  /\ parser_def' \in generate_parser[vendor][file]
  /\ cli' = "json"
  /\ runs' = runs + 1
  /\ UNCHANGED <<json, yaml, registry, torn>>

WriteJson ==
  /\ cli = "json"
  /\ json' = Put(json, Key(parser_def.vendor), parser_def)
  /\ cli' = "yaml"
  /\ UNCHANGED <<yaml, parser_def, registry, torn, runs>>

\* The last write; what follows only reads.
WriteYaml ==
  /\ cli = "yaml"
  /\ yaml' = Put(yaml, Key(parser_def.vendor), Exported(parser_def))
  /\ torn' = torn \ {Key(parser_def.vendor)}
  /\ cli' = "idle"
  /\ UNCHANGED <<json, parser_def, registry, runs>>

\* The process dies, before it opens the next file or with that file truncated.  A file
\* written in part is not modelled: as JSON it is refused like an empty one; as YAML it
\* may be read as a parser that lacks its last samples, or all of its samples and the
\* end of its pattern.
Die ==
  LET key == Key(parser_def.vendor)
  IN /\ cli # "idle"
     /\ \/ UNCHANGED <<json, yaml>>
        \/ cli = "json" /\ json' = Drop(json, key) /\ UNCHANGED yaml
        \/ cli = "yaml" /\ yaml' = Drop(yaml, key) /\ UNCHANGED json
     /\ torn' = IF cli = "yaml" THEN torn \cup {key} ELSE torn
     /\ cli' = "idle"
     /\ UNCHANGED <<parser_def, registry, runs>>

\* register, under the vendor in lower case.
register(def) == registry' = Put(registry, Key(def.vendor), def)

load_from_json(key) ==
  /\ key \in DOMAIN json
  /\ register(json[key])
  /\ UNCHANGED <<json, yaml, cli, parser_def, torn, runs>>

load_from_yaml(key) ==
  /\ key \in DOMAIN yaml
  /\ register(Imported(yaml[key]))
  /\ UNCHANGED <<json, yaml, cli, parser_def, torn, runs>>

NoFiles == [k \in {} |-> <<>>]

OnboarderInit ==
  /\ json = NoFiles
  /\ yaml = NoFiles
  /\ cli = "idle"
  /\ parser_def = <<>>
  /\ registry = NoFiles
  /\ torn = {}
  /\ runs = 0

OnboarderNext ==
  \/ \E vendor \in Vendors, file \in SampleFiles : run_onboard(vendor, file)
  \/ WriteJson
  \/ WriteYaml
  \/ Die
  \/ \E key \in Range(to_lowercase) : load_from_json(key) \/ load_from_yaml(key)

OnboarderSpec == OnboarderInit /\ [][OnboarderNext]_onboarding

-----------------------------------------------------------------------------
(* Properties.                                                             *)

\* "Requiring 100% extraction pass rate": a parser in the registry, from whichever
\* file it was loaded, compiles and reads a source and a target with valid
\* addresses and ports from each sample it was generated from.
SamplesExtracted ==
  \A key \in DOMAIN registry : \A i \in DOMAIN registry[key].sample_logs :
    LET event == parse(registry[key], registry[key].sample_logs[i])
    IN /\ event # <<>> /\ event[1] # {} /\ event[3] # {}
       /\ \A t \in UNION Range(event) : t.valid

\* The two files of a vendor hold the same parser: loaded from either, it reads
\* the same from every line, whatever its literals are spelled with, unless the
\* last run that wrote one of them died before it wrote the other.
ExportsAgree ==
  cli = "idle" =>
    \A key \in (DOMAIN json \cap DOMAIN yaml) \ torn : \A line \in Lines :
      parse(json[key], line) = parse(Imported(yaml[key]), line)
=============================================================================
