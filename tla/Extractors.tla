----------------------------- MODULE Extractors -----------------------------
(***************************************************************************)
(* The vendor extractors (ulpf-core, parser/extractors): what each of them *)
(* reads off a log, whichever vendor wrote it.                             *)
(*                                                                         *)
(* A log's body is a sequence of symbols: words, and separators on their   *)
(* own.  A dotted address is one symbol, one with colons is several; so is *)
(* a value with a comma or a quote inside.  Values are sequences of        *)
(* symbols; an absent value and an empty one are both <<>>.  Of an event   *)
(* we keep what a policy decision is about, and leave out its times,       *)
(* traffic counters, interfaces and the fields an extractor cannot map.    *)
(* The result of an extractor is <<the event>>, or <<>> for an error.      *)
(***************************************************************************)
EXTENDS Integers, Sequences, FiniteSets

CONSTANTS
  number,                \* numerals, and the number each one reads as
  lowercase, uppercase,  \* to_ascii_lowercase and -uppercase, where they change a word
  Dates                  \* words that begin with "20"

-----------------------------------------------------------------------------
(* The schema (schema/ocsf.rs).                                            *)

OPEN         == "Open"
CLOSE        == "Close"
TRAFFIC_FLOW == "Traffic/Flow"
OTHER_ACTIVITY == "Other"

ALLOWED == "Allowed"
BLOCKED == "Blocked"
DROPPED == "Dropped"
UNKNOWN == "Unknown"

None == -1

Endpoint(ip, port) == [ip |-> ip, port |-> port]
Nowhere            == Endpoint(<<>>, None)
NoProtocol         == [num |-> None, name |-> <<>>]

\* NetworkActivity::new
Event(vendor, disposition, activity, src, dst, protocol) ==
  [vendor |-> vendor, disposition |-> disposition, activity |-> activity,
   src |-> src, dst |-> dst, protocol |-> protocol]

-----------------------------------------------------------------------------
(* Symbols and values.                                                     *)

Spaces      == {" "}
Quotes      == {"\""}
Brackets    == {"(", ")", "[", "]"}
Punctuation == Quotes \cup Brackets \cup {"\\", ",", ":", "/", "{", "}", "-", "."}
Separators  == Spaces \cup Punctuation \cup {"=", "|"}

\* v.parse::<u8>().ok() and v.parse::<u16>().ok()
Unsigned(v, max) ==
  IF Len(v) = 1 /\ v[1] \in DOMAIN number /\ number[v[1]] <= max THEN number[v[1]] ELSE None

u8(v)  == Unsigned(v, 255)

u16(v) == Unsigned(v, 65535)

lower(v) == [i \in DOMAIN v |-> IF v[i] \in DOMAIN lowercase THEN lowercase[v[i]] ELSE v[i]]
upper(v) == [i \in DOMAIN v |-> IF v[i] \in DOMAIN uppercase THEN uppercase[v[i]] ELSE v[i]]

\* A value as a word of a table, in lower case.
Word(v) == IF Len(v) = 1 THEN lower(v)[1] ELSE ""

Earliest(places) == CHOOSE p \in places : \A q \in places : p <= q
Latest(places)   == CHOOSE p \in places : \A q \in places : p >= q

\* The positions of a symbol, and the first one in a set of symbols from a place on.
At(s, symbol)       == {i \in DOMAIN s : s[i] = symbol}
Find(s, from, some) == Earliest({i \in from..Len(s) : s[i] \in some} \cup {Len(s) + 1})

\* The k-th of a set of places, and what s has at some of its places.
Nth(places, k)  == CHOOSE p \in places : Cardinality({q \in places : q < p}) = k - 1
Kept(s, places) == [k \in 1..Cardinality(places) |-> s[Nth(places, k)]]

\* The pieces of s between some of its places.
Cut(s, places) ==
  LET n     == Cardinality(places)
      start == [k \in 1..(n + 1) |-> IF k = 1 THEN 1 ELSE Nth(places, k - 1) + 1]
  IN [k \in 1..(n + 1) |-> SubSeq(s, start[k], IF k > n THEN Len(s) ELSE start[k + 1] - 2)]

Trim(s, junk) ==
  LET kept == {i \in DOMAIN s : s[i] \notin junk}
  IN IF kept = {} THEN <<>> ELSE SubSeq(s, Earliest(kept), Latest(kept))

split_whitespace(s) ==
  LET pieces == Cut(s, At(s, " "))
  IN Kept(pieces, {k \in DOMAIN pieces : pieces[k] # <<>>})

-----------------------------------------------------------------------------
(* extractors/mod.rs                                                       *)

Protocols == <<"ICMP", "IGMP", "TCP", "UDP", "GRE", "ESP", "AH", "ICMPv6", "OSPF", "SCTP">>
ProtocolNumbers == <<1, 2, 6, 17, 47, 50, 51, 58, 89, 132>>

protocol_num_from_name(v) ==
  LET name  == IF upper(v) \in {<<"ICMPV6">>, <<"ICMP6">>} THEN <<"ICMPv6">> ELSE upper(v)
      rows == {i \in DOMAIN Protocols : name = <<Protocols[i]>>}
  IN IF rows = {} THEN None ELSE ProtocolNumbers[Earliest(rows)]

protocol_name_from_num(n) ==
  LET rows == {i \in DOMAIN Protocols : ProtocolNumbers[i] = n}
  IN <<IF rows = {} THEN "UNKNOWN" ELSE Protocols[Earliest(rows)]>>

Protocol(name) == [num |-> protocol_num_from_name(name), name |-> upper(name)]

\* Mutant: a comma always separates.
split_csv_Plain(s) == [k \in DOMAIN Cut(s, At(s, ",")) |->
                        Trim(Trim(Cut(s, At(s, ","))[k], Quotes), Spaces)]

\* Commas inside quotes do not separate.
split_csv(s) ==
  LET quoted(i) == Cardinality({j \in 1..i : s[j] = "\""}) % 2 = 1
      fields    == Cut(s, {i \in At(s, ",") : ~quoted(i)})
  IN [k \in DOMAIN fields |-> Trim(Trim(fields[k], Quotes), Spaces)]

\* Field n of a row, from 0.
Field(fields, n) == IF n + 1 \in DOMAIN fields THEN fields[n + 1] ELSE <<>>

-----------------------------------------------------------------------------
(* Fortinet: key=value pairs (fortigate.rs).                               *)

\* The quote that closes the one at `opening`: not behind an odd run of backslashes.
Closing(s, opening) ==
  LET run(i) == Cardinality({k \in (opening + 1)..(i - 1) : \A j \in k..(i - 1) : s[j] = "\\"})
  IN Earliest({i \in (opening + 1)..Len(s) : s[i] = "\"" /\ run(i) % 2 = 0} \cup {Len(s) + 1})

\* The word before an "=": it begins after the last space or pipe.
Key(s, from, eq) ==
  LET start == Latest({from} \cup {i + 1 : i \in {j \in from..(eq - 1) : s[j] \in {" ", "|"}}})
      word  == {i \in start..(eq - 1) : s[i] \notin Punctuation}
  IN IF word = {} THEN <<>> ELSE SubSeq(s, Earliest(word), eq - 1)

\* KvTokenizer, to its end.
KvTokens(s) ==
  LET next[from \in 1..(Len(s) + 2)] ==
        LET eq     == Find(s, from, {"="})
            quoted == eq < Len(s) /\ s[eq + 1] = "\""
            end    == IF quoted THEN Closing(s, eq + 1) ELSE Find(s, eq + 1, Spaces)
            start  == IF quoted THEN eq + 2 ELSE eq + 1
        IN IF eq > Len(s) THEN <<>>
           ELSE <<[key |-> Key(s, from, eq), val |-> SubSeq(s, start, end - 1)]>> \o next[end + 1]
  IN next[1]

\* What a loop over pairs leaves in a variable: the last value given to it.
Lookup(pairs, keys) ==
  LET with == {i \in DOMAIN pairs : pairs[i].key \in {<<k>> : k \in keys}}
  IN IF with = {} THEN <<>> ELSE pairs[Latest(with)].val

FortinetActions ==
  {<<{"accept", "allow", "permitted"}, ALLOWED, TRAFFIC_FLOW>>,
   <<{"deny", "block", "blocked"}, BLOCKED, OTHER_ACTIVITY>>,
   <<{"drop", "dropped"}, DROPPED, OTHER_ACTIVITY>>,
   <<{"close", "client-rst", "server-rst", "timeout"}, ALLOWED, CLOSE>>,
   <<{"open", "start"}, ALLOWED, OPEN>>}

\* The row of an action in such a table, and what it says for any other action.
Decide(table, action) ==
  LET rows == {row \in table : Word(action) \in row[1]}
  IN IF rows = {} THEN <<{}, UNKNOWN, TRAFFIC_FLOW>> ELSE CHOOSE row \in rows : TRUE

Fortinet(s) ==
  LET get(keys) == Lookup(KvTokens(s), keys)
      row   == Decide(FortinetActions, get({"action", "act"}))
      proto == get({"proto"})
  IN <<Event("Fortinet", row[2], row[3],
             Endpoint(get({"srcip", "src"}), u16(get({"srcport", "spt"}))),
             Endpoint(get({"dstip", "dst"}), u16(get({"dstport", "dpt"}))),
             IF proto = <<>> THEN NoProtocol
             ELSE IF u8(proto) = None THEN Protocol(proto)
             ELSE [num |-> u8(proto), name |-> protocol_name_from_num(u8(proto))])>>

-----------------------------------------------------------------------------
(* The Kaggle simulator: syslog pairs, or rows without quotes (kaggle.rs). *)

KagglePairs(s) ==
  LET words == split_whitespace(s)
      pairs == Kept(words, {i \in DOMAIN words : At(words[i], "=") # {}})
      pair(w) == [key |-> SubSeq(w, 1, Earliest(At(w, "=")) - 1),
                  val |-> Trim(SubSeq(w, Earliest(At(w, "=")) + 1, Len(w)), Quotes)]
  IN [i \in DOMAIN pairs |-> pair(pairs[i])]

KaggleActions ==
  {<<{"allow", "accept", "permit"}, ALLOWED, TRAFFIC_FLOW>>,
   <<{"deny", "block"}, BLOCKED, OTHER_ACTIVITY>>,
   <<{"drop"}, DROPPED, OTHER_ACTIVITY>>,
   <<{"reset-both", "close"}, ALLOWED, CLOSE>>}

\* The address made up for a port: a network, and the port in its last two bytes.
Synthetic(network, port) ==
  <<network, IF port = None THEN "0" ELSE CHOOSE n \in DOMAIN number : number[n] = port>>

build_ocsf(src_port, dst_port, action) ==
  LET row == Decide(KaggleActions, action)
  IN <<Event("Kaggle", row[2], row[3],
             Endpoint(Synthetic("10.10", src_port), src_port),
             Endpoint(Synthetic("10.20", dst_port), dst_port),
             Protocol(IF 53 \in {src_port, dst_port} THEN <<"UDP">> ELSE <<"TCP">>))>>

Kaggle(s) ==
  LET line  == Trim(s, Spaces)
      pairs == KagglePairs(line)
      parts == [k \in DOMAIN Cut(line, At(line, ",")) |-> Trim(Cut(line, At(line, ","))[k], Spaces)]
  IN IF line # <<>> /\ line[1] \in {"Source Port", "source port"}
       THEN <<Event("Kaggle", UNKNOWN, OTHER_ACTIVITY, Nowhere, Nowhere, NoProtocol)>>
     ELSE IF At(line, "%KAGGLE-FW-") # {}
       THEN build_ocsf(u16(Lookup(pairs, {"src_port"})), u16(Lookup(pairs, {"dst_port"})),
                       Lookup(pairs, {"action"}))
     ELSE IF Len(parts) < 5 THEN <<>>
     ELSE build_ocsf(u16(Field(parts, 0)), u16(Field(parts, 1)), Field(parts, 4))

-----------------------------------------------------------------------------
(* Palo Alto: a CSV row behind a syslog header (paloalto.rs).              *)

StartsAt(s, i, phrase) ==
  i + Len(phrase) - 1 <= Len(s) /\ SubSeq(s, i, i + Len(phrase) - 1) = phrase

\* The row begins with "1,20"; if nothing does, at the last space before ",TRAFFIC,".
strip_syslog_prefix(s) ==
  LET t       == Trim(s, Spaces)
      begins(i) == StartsAt(t, i, <<"1", ",">>) /\ i + 2 <= Len(t) /\ t[i + 2] \in Dates
      rows    == {i \in DOMAIN t : begins(i) /\ (i = 1 \/ t[i - 1] = " ")}
      traffic == {i \in DOMAIN t : StartsAt(t, i, <<",", "TRAFFIC", ",">>)}
      spaces  == {i \in At(t, " ") : traffic # {} /\ i < Earliest(traffic)}
  IN IF rows # {} THEN SubSeq(t, Earliest(rows), Len(t))
     ELSE IF spaces # {} THEN SubSeq(t, Latest(spaces) + 1, Len(t))
     ELSE t

\* Where the fields of the row are, relative to the type in field 3.
base(fields) ==
  LET types == {k \in DOMAIN fields : upper(fields[k]) = <<"TRAFFIC">>}
  IN IF types = {} THEN 0 ELSE Earliest(types) - 4

PaloAltoDisposition(action) ==
  CASE action = "allow" -> ALLOWED
    [] action \in {"deny", "reset-client", "reset-server", "reset-both"} -> BLOCKED
    [] action = "drop" -> DROPPED
    [] OTHER -> UNKNOWN

PaloAltoActivity(subtype, disposition) ==
  CASE subtype = "start" -> OPEN
    [] subtype = "end" -> CLOSE
    [] subtype \notin {"start", "end", "drop", "deny"} /\ disposition = ALLOWED -> TRAFFIC_FLOW
    [] OTHER -> OTHER_ACTIVITY

PaloAlto(s) ==
  LET fields == split_csv(strip_syslog_prefix(s))
      get(n) == Field(fields, n + base(fields))
      disposition == PaloAltoDisposition(Word(get(30)))
  IN IF Len(fields) < 10 THEN <<>>
     ELSE <<Event("Palo Alto Networks", disposition,
                  PaloAltoActivity(Word(get(4)), disposition),
                  Endpoint(get(7), u16(get(24))), Endpoint(get(8), u16(get(25))),
                  Protocol(get(29)))>>

-----------------------------------------------------------------------------
(* pfSense: a CSV row behind "filterlog[pid]:" (pfsense.rs).               *)

after_filterlog(s) ==
  LET colons == {i \in At(s, ":") : \E j \in At(s, "filterlog") : j < i}
  IN Trim(IF colons = {} THEN s ELSE SubSeq(s, Earliest(colons) + 1, Len(s)), Spaces)

PfSenseDisposition(action) ==
  CASE action = "pass" -> ALLOWED
    [] action \in {"block", "reject"} -> BLOCKED
    [] action = "drop" -> DROPPED
    [] OTHER -> UNKNOWN

\* The protocol is given twice, and the source says which one counts first.
PfSenseProtocol(num, name, by_name) ==
  LET named == protocol_num_from_name(name)
      given == u8(num)
  IN [num  |-> IF by_name THEN (IF named # None THEN named ELSE given)
               ELSE (IF given # None THEN given ELSE named),
      name |-> upper(name)]

PfSense(s) ==
  LET fields == split_csv(after_filterlog(s))
      at(n)  == Field(fields, n)
      disposition == PfSenseDisposition(Word(at(6)))
      found(src, dst, protocol) ==
        <<Event("Netgate", disposition,
                IF disposition = ALLOWED THEN TRAFFIC_FLOW ELSE OTHER_ACTIVITY,
                src, dst, protocol)>>
  IN CASE Len(fields) < 9 -> <<>>
       [] Len(fields) >= 9 /\ at(8) = <<"4">> ->
            found(Endpoint(at(18), u16(at(20))), Endpoint(at(19), u16(at(21))),
                  PfSenseProtocol(at(15), at(16), FALSE))
       [] Len(fields) >= 9 /\ at(8) = <<"6">> ->
            found(Endpoint(at(15), u16(at(17))), Endpoint(at(16), u16(at(18))),
                  PfSenseProtocol(at(13), at(12), TRUE))
       [] OTHER -> found(Nowhere, Nowhere, NoProtocol)

-----------------------------------------------------------------------------
(* Suricata: a JSON object (suricata.rs).  Members of another type than    *)
(* the code asks for are absent for it.                                    *)

member(object, name, default) ==
  IF name \in DOMAIN object THEN object[name] ELSE default

\* v as u16
as_u16(n) == IF n = None THEN None ELSE n % 65536

FlowActivity(state) ==
  CASE state = "closed" -> CLOSE [] state = "new" -> OPEN [] OTHER -> TRAFFIC_FLOW

AlertDisposition(action) ==
  CASE action \in {"drop", "dropped"} -> DROPPED
    [] action \in {"allowed", "pass"} -> ALLOWED
    [] OTHER -> BLOCKED

\* The disposition and the activity: the alert has the last word on both.
SuricataVerdict(object) ==
  LET flow == IF "flow" \in DOMAIN object THEN object.flow ELSE [none |-> <<>>]
  IN IF "alert" \in DOMAIN object
       THEN <<AlertDisposition(Word(member(object.alert, "action", <<>>))), OTHER_ACTIVITY>>
       ELSE <<IF Word(member(flow, "action", <<>>)) = "drop" THEN DROPPED ELSE ALLOWED,
              FlowActivity(Word(member(flow, "state", <<>>)))>>

Suricata(json) ==
  IF json = <<>> THEN <<>>
  ELSE LET object == json[1]
           verdict == SuricataVerdict(object)
           side(ip, port) == Endpoint(member(object, ip, <<>>), as_u16(member(object, port, None)))
       IN <<Event("OISF", verdict[1], verdict[2],
                  side("src_ip", "src_port"), side("dest_ip", "dest_port"),
                  Protocol(member(object, "proto", <<>>)))>>

-----------------------------------------------------------------------------
(* Cisco ASA: phrases behind "%ASA-severity-code:" (cisco_asa.rs).  The    *)
(* elements of a phrase are literal words, or one of four classes.         *)

IsNumeral(w) == Len(w) = 1 /\ w[1] \in DOMAIN number

Fits(w, element) ==
  CASE element = "<any>"    -> TRUE
    [] element = "<name>"   -> Len(w) = 1 /\ w[1] \notin Separators
    [] element = "<number>" -> IsNumeral(w)
    [] element = "<nat>"    -> w[1] = "(" /\ w[Len(w)] = ")"
    [] OTHER                -> w = <<element>>

FitsAt(words, i, phrase) ==
  /\ i + Len(phrase) - 1 <= Len(words)
  /\ \A k \in DOMAIN phrase : Fits(words[i + k - 1], phrase[k])

BUILT ==
  {<<"Built">> \o direction \o <<"<name>", "connection", "<number>", "for", "<any>">> \o nat
               \o <<"to", "<any>">> : direction \in {<<>>, <<"inbound">>, <<"outbound">>},
                                      nat \in {<<>>, <<"<nat>">>}}
TEARDOWN ==
  {<<"Teardown", "<name>", "connection", "<number>", "for", "<any>">> \o nat \o <<"to", "<any>">> :
     nat \in {<<>>, <<"<nat>">>}}
DENY        == {<<"Deny", "<name>", "src", "<any>", "dst", "<any>">>}
DENIED_CONN == {<<"<name>", "connection", "denied", "from", "<any>", "to", "<any>">>}

\* What a phrase captures: its name, and its first and last words of any kind.
Captures(words, phrases) ==
  LET found  == {m \in (DOMAIN words) \X phrases : FitsAt(words, m[1], m[2])}
      first  == CHOOSE m \in found : \A n \in found : m[1] <= n[1]
      word(k) == words[first[1] + k - 1]
      any    == At(first[2], "<any>")
  IN IF found = {} THEN <<>>
     ELSE <<[proto |-> word(Earliest(At(first[2], "<name>"))), src |-> word(Earliest(any)),
             dst |-> word(Latest(any))]>>

\* interface:ip/port, with or without brackets around it, interface and port.
parse_endpoint_str(w) ==
  LET clean == Trim(w, Brackets)
      rest  == IF At(clean, ":") = {} THEN clean
               ELSE SubSeq(clean, Earliest(At(clean, ":")) + 1, Len(clean))
      slash == Find(rest, 1, {"/"})
  IN Endpoint(SubSeq(rest, 1, slash - 1), u16(SubSeq(rest, slash + 1, Len(rest))))

\* The parts of a VPN disconnect message between its commas, without spaces.
Parts(s) ==
  LET parts == Cut(s, At(s, ","))
  IN [k \in DOMAIN parts |-> Kept(parts[k], DOMAIN parts[k] \ At(parts[k], " "))]

Labelled(part, label) == StartsAt(part, 1, label) /\ Len(part) > Len(label)

\* The address in a VPN disconnect message.
VpnAddress(s) ==
  LET parts == Parts(s)
      starts == {k \in DOMAIN parts :
                   /\ k + 2 <= Len(parts)
                   /\ Labelled(parts[k], <<"Group", "=">>)
                   /\ Labelled(parts[k + 1], <<"Username", "=">>)
                   /\ Labelled(parts[k + 2], <<"IP", "=">>)
                   /\ \E m \in (k + 3)..(Len(parts) - 1) :
                        /\ Labelled(parts[m], <<"Bytes", "xmt", ":">>)
                        /\ Labelled(parts[m + 1], <<"Bytes", "rcv", ":">>)}
  IN IF starts = {} THEN <<>>
     ELSE <<SubSeq(parts[Earliest(starts) + 2], 3, Len(parts[Earliest(starts) + 2]))>>

AsaEvent(disposition, activity, src, dst, protocol) ==
  <<Event("Cisco", disposition, activity, src, dst, protocol)>>

\* A message without a phrase of its own: its verdict is looked for in its words.
fallback_parse(s) ==
  LET has(words) == \E i \in DOMAIN s : s[i] \in words
  IN AsaEvent(CASE has({"Built", "Teardown"}) -> ALLOWED
                [] ~has({"Built", "Teardown"}) /\ has({"Deny", "denied"}) -> BLOCKED
                [] ~has({"Built", "Teardown", "Deny", "denied"}) /\ has({"drop", "dropped"}) -> DROPPED
                [] OTHER -> UNKNOWN,
              IF has({"Built"}) THEN OPEN ELSE IF has({"Teardown"}) THEN CLOSE ELSE OTHER_ACTIVITY,
              Nowhere, Nowhere, NoProtocol)

\* The phrases of each message code, and what they mean.
AsaMessages ==
  {<<{"302013", "302015", "302020"}, BUILT, ALLOWED, OPEN>>,
   <<{"302014", "302016", "302021"}, TEARDOWN, ALLOWED, CLOSE>>,
   <<{"106023"}, DENY, BLOCKED, OTHER_ACTIVITY>>,
   <<{"106001", "106006", "106007"}, DENIED_CONN, DROPPED, OTHER_ACTIVITY>>}

CiscoAsaMessage(code, s) ==
  LET rows == {row \in AsaMessages :
                 code \in row[1] /\ Captures(split_whitespace(s), row[2]) # <<>>}
      row  == CHOOSE r \in rows : TRUE
      caps == Captures(split_whitespace(s), row[2])[1]
  IN CASE rows # {} ->
            AsaEvent(row[3], row[4], parse_endpoint_str(caps.src), parse_endpoint_str(caps.dst),
                     Protocol(caps.proto))
       [] code = "113019" /\ VpnAddress(s) # <<>> ->
            AsaEvent(ALLOWED, CLOSE, Endpoint(VpnAddress(s)[1], None),
                     Endpoint(<<"10.0.0.1">>, 443), [num |-> 6, name |-> <<"SSL">>])
       [] OTHER -> fallback_parse(s)

\* The header is "%ASA-", the severity, "-", the code and ":".
CiscoAsa(s) ==
  LET headers == {i \in At(s, "%ASA-") : /\ i + 4 <= Len(s) /\ s[i + 2] = "-" /\ s[i + 4] = ":"
                                         /\ {s[i + 1], s[i + 3]} \subseteq DOMAIN number}
  IN IF headers = {} THEN <<>>
     ELSE CiscoAsaMessage(s[Earliest(headers) + 3], SubSeq(s, Earliest(headers) + 5, Len(s)))

-----------------------------------------------------------------------------

\* The extractor of a vendor format, for a log with this body.
extract(format, symbols, json) ==
  CASE format = "CiscoAsa"       -> CiscoAsa(symbols)
    [] format = "Fortinet"       -> Fortinet(symbols)
    [] format = "PaloAlto"       -> PaloAlto(symbols)
    [] format = "Suricata"       -> Suricata(json)
    [] format = "PfSense"        -> PfSense(symbols)
    [] format = "KaggleFirewall" -> Kaggle(symbols)
    [] OTHER                     -> <<>>
=============================================================================
