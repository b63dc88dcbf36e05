----------------------------- MODULE Classifier -----------------------------
(***************************************************************************)
(* What the program reads off a raw log without parsing it: its vendor     *)
(* (ulpf-core, parser/classifier.rs), its signature (parser/lru_cache.rs)  *)
(* and how sure the decision engine is of its vendor (ulpf-ai, laya.rs).   *)
(* Three tables of markers, written independently of each other.           *)
(*                                                                         *)
(* A log is the sequence of words in which markers are looked for, in two  *)
(* parts, since the signature sees the first 96 bytes only.  Numbers (of   *)
(* at most 16 bits) are the word "#".  Separators leave the words of the   *)
(* fallback fingerprint whole.                                             *)
(***************************************************************************)
EXTENDS Integers, Sequences, FiniteSets

\* A log: its words, how many commas it has, and whether the signature cuts it inside
\* a character, at byte 96 or, behind "%ASA-", 16 bytes from there: the call panics.
Text == [window : Seq(STRING), rest : Seq(STRING), commas : Nat, split : BOOLEAN]

Words(log) == log.window \o log.rest

First(places) == CHOOSE p \in places : \A q \in places : p <= q

\* Markers that are substrings of other markers.
Within(w) ==
  {w} \cup CASE w \in {"filterlog[", "filterlog:"} -> {"filterlog"}
             [] w = "devname=\""          -> {"devname="}
             [] w = "{\"timestamp\":"     -> {"\"timestamp\":", "\"timestamp\""}
             [] w = "logid=\""            -> {"logid="}
             [] w = "\"event_type\":"     -> {"\"event_type\""}
             [] w = "CEF:0|Fortinet"      -> {"CEF:", "Fortinet"}
             [] w = "nat_src_port="       -> {"src_port="}
             [] w = "Trust_to_Untrust"    -> {"Trust", "Untrust"}
             [] OTHER                     -> {}

Markers(words) == UNION {Within(words[i]) : i \in DOMAIN words}

Has(words, markers) == Markers(words) \cap markers # {}

\* starts_with('{')
Opens(words) == words # <<>> /\ words[1] \in {"{", "{\"", "{\"timestamp\":"}

-----------------------------------------------------------------------------
(* The classifier.                                                         *)

Unknown == "Unknown"

\* The pattern table of the automaton.
Patterns ==
  [CiscoAsa       |-> {"%ASA-"},
   Fortinet       |-> {"CEF:0|Fortinet", "|Fortinet|", "deviceExternalId=FGT", "devname=\"",
                       "type=\"traffic\"", "logid=\"", "type=traffic", "devname="},
   PfSense        |-> {"filterlog[", "filterlog:"},
   Suricata       |-> {"{\"timestamp\":", "\"event_type\":", "\"flow\":", "\"alert\":"},
   PaloAlto       |-> {",TRAFFIC,", ",THREAT,", ",SYSTEM,", "TRAFFIC,drop", "TRAFFIC,allow",
                       "TRAFFIC,start", "TRAFFIC,end", "PAN-OS"},
   KaggleFirewall |-> {"%KAGGLE-FW-", "firewall-kaggle"}]

VendorFormat == DOMAIN Patterns

\* The words that are patterns, by position.
Matches(log) == {i \in DOMAIN Words(log) : \E f \in VendorFormat : Words(log)[i] \in Patterns[f]}

\* The heuristics for a log without any of them.
rules(log) ==
  LET has(markers) == Has(Words(log), markers)
  IN <<[format |-> "PfSense",  holds |-> has({"filterlog"})],
       [format |-> "Suricata", holds |-> /\ Opens(Words(log)) \/ has({"{\""})
                                         /\ has({"\"timestamp\"", "\"event_type\""})],
       [format |-> "Fortinet", holds |-> has({"srcip=", "dstip="}) /\ has({"proto="})],
       [format |-> "Fortinet", holds |-> has({"CEF:"}) /\ has({"Fortinet", "FortiGate"})],
       [format |-> "PaloAlto", holds |-> /\ log.commas >= 15
                                         /\ has({"TRAFFIC", "THREAT", "allow", "deny", "drop"})],
       [format |-> "KaggleFirewall", holds |-> /\ log.commas = 11
                                               /\ Words(log) # <<>>
                                               /\ Words(log)[1] \in {"Source Port", "#"}],
       [format |-> Unknown, holds |-> TRUE]>>

\* The first rule that holds.
fallback_classify(log) ==
  rules(log)[First({i \in DOMAIN rules(log) : rules(log)[i].holds})].format

\* Classifier::classify: the leftmost pattern decides, wherever it is in the table.
classify(log) ==
  IF Matches(log) = {} THEN fallback_classify(log)
  ELSE CHOOSE f \in VendorFormat : Words(log)[First(Matches(log))] \in Patterns[f]

-----------------------------------------------------------------------------
(* The signature: what the hash is computed from.                          *)

\* The tag of an ASA message: the marker and the word after it.
AsaTag(words) ==
  LET pos == First({i \in DOMAIN words : words[i] = "%ASA-"})
  IN SubSeq(words, pos, First({pos + 1, Len(words)}))

FirstThree(words) ==
  LET tokens == {i \in DOMAIN words : words[i] # "#"}
      nth(k) == CHOOSE i \in tokens : Cardinality({j \in tokens : j < i}) = k - 1
  IN [k \in 1..First({3, Cardinality(tokens)}) |-> words[nth(k)]]

\* compute_signature_hash, up to hashing.
fingerprint(log) ==
  LET w == log.window
  IN IF Has(w, {"%ASA-"}) THEN AsaTag(w)
     ELSE IF Has(w, {"devname=", "type=\"traffic\"", "logid="}) THEN <<"fortigate_traffic">>
     ELSE IF Has(w, {"filterlog[", "filterlog:"}) THEN <<"pfsense_filterlog">>
     ELSE IF Opens(w) \/ Has(w, {"\"event_type\""}) THEN <<"suricata_eve_json">>
     ELSE IF Has(w, {",TRAFFIC,", ",THREAT,"}) THEN <<"paloalto_panos_csv">>
     ELSE FirstThree(w)

-----------------------------------------------------------------------------
(* The decision engine.                                                    *)

\* vendor_token_priors
Priors ==
  [cisco_asa       |-> {"%ASA-", "Built", "Teardown", "outside:", "inside:", "connection",
                        "inbound", "outbound"},
   fortigate       |-> {"CEF:0|Fortinet", "|Fortinet|", "FortiGate", "devname=",
                        "type=\"traffic\"", "logid=", "vd=\"root\"", "subtype=\"forward\"",
                        "srcip=", "dstip="},
   paloalto        |-> {",TRAFFIC,", ",THREAT,", "Trust_to_Untrust", "pan-os", "vsys1",
                        "Trust", "Untrust"},
   suricata        |-> {"\"timestamp\":", "\"event_type\":", "\"flow_id\":", "\"alert\":",
                        "\"app_proto\":", "\"dest_port\":"},
   pfsense         |-> {"filterlog[", "filterlog:", "pass", "block", "match", "igb0", "em0"},
   kaggle_firewall |-> {"%KAGGLE-FW-", "firewall-kaggle", "src_port=", "dst_port=",
                        "nat_src_port=", "sent_bytes="},
   juniper_srx     |-> {"RT_FLOW:", "RT_FLOW_SESSION_CREATE", "session", "created",
                        "ge-0/0/0", "sample-policy"},
   checkpoint      |-> {"CheckPoint-FW", "Quantum", "rule", "accept", "drop", "reject"}]

Score(log, vendor) == Cardinality(Markers(Words(log)) \cap Priors[vendor])

\* classify_vendor: the softmax gives the first of the ranking at least 0.85.  The
\* odds against a vendor that is n markers behind it are exp(-2.5 n), in millionths.
Confident(log) ==
  LET scores == [v \in DOMAIN Priors |-> Score(log, v)]
      top    == CHOOSE v \in DOMAIN Priors : \A u \in DOMAIN Priors : scores[u] <= scores[v]
      behind(n) == Cardinality({v \in DOMAIN Priors \ {top} : scores[top] - scores[v] = n})
  IN behind(0) * 1000000 + behind(1) * 82085 + behind(2) * 6738 + behind(3) * 553
       + behind(4) * 45 + behind(5) * 4 <= 176470
=============================================================================
