------------------------------- MODULE MCLogs -------------------------------
(***************************************************************************)
(* Logs for TLC: for every vendor the forms its devices write, each with   *)
(* the report it was written to make, and some that no device means        *)
(* anything by, or that the cache confuses.                                *)
(***************************************************************************)
EXTENDS Classifier, Dataset, TLC, SequencesExt

V4 == <<"10.0.0.1">>
V6 == <<"2001", ":", "db8">>

Numerals ==
  ("0" :> 0 @@ "1" :> 1 @@ "2" :> 2 @@ "3" :> 3 @@ "4" :> 4 @@ "6" :> 6 @@ "17" :> 17
   @@ "53" :> 53 @@ "443" :> 443 @@ "57222" :> 57222 @@ "70000" :> 70000 @@ "302013" :> 302013
   @@ "302014" :> 302014 @@ "106023" :> 106023 @@ "106001" :> 106001 @@ "113019" :> 113019
   @@ "111008" :> 111008)
MCNumber == Numerals
MCLowercase == ("ACCEPT" :> "accept" @@ "DENY" :> "deny")
MCUppercase == ("tcp" :> "TCP" @@ "udp" :> "UDP")
MCDates     == {"2023/10/15"}

Report4(vendor, disposition, src, sport, dst, dport) ==
  [vendor |-> vendor, disposition |-> disposition,
   src |-> Endpoint(src, sport), dst |-> Endpoint(dst, dport)]

\* A report of which the verdict is left out.  The documents and the code give some
\* actions different names (a Palo Alto drop, an ASA Deny): no log can settle those.
Unjudged(report) == [field \in {"vendor", "src", "dst"} |-> report[field]]

Log(window, rest, commas, symbols, object, said) ==
  [text |-> [window |-> window, rest |-> rest, commas |-> commas, split |-> FALSE],
   body |-> symbols, json |-> object, meant |-> said]

Join(fields, sep) ==
  LET upto[k \in 1..Len(fields)] ==
        IF k = 1 THEN fields[1] ELSE upto[k - 1] \o sep \o fields[k]
  IN upto[Len(fields)]

Quoted(v) == <<"\"">> \o v \o <<"\"">>

-----------------------------------------------------------------------------
(* Fortinet: pairs in two orders, plain or quoted, and the CEF form.  The  *)
(* message quotes a pair, with its quotes escaped.                         *)

Message == <<"msg", "=", "\"", "saw", " ", "\\", "\"", "srcip", "=", "9.9.9.9", "\\", "\"", " ",
             "action", "=", "close", "\"">>

KvBody(action, src, last) ==
  LET head == <<<<"date", "=", "2023">>, <<"devname", "=">> \o Quoted(<<"FGT">>)>>
      pairs == <<<<"srcip", "=">> \o src, <<"srcport", "=", "57222">>, <<"dstip", "=", "8.8.8.8">>,
                 <<"dstport", "=", "443">>, <<"proto", "=", "6">>, <<"action", "=">> \o action>>
  IN Join(head \o (IF last THEN <<Message>> \o pairs ELSE Reverse(pairs) \o <<Message>>), <<" ">>)

CefBody(action) ==
  Join(<<<<"CEF", ":", "0", "|", "Fortinet", "|", "FortiGate", "|", "traffic", " ", "accept", "|", "src", "=">> \o V4,
         <<"spt", "=", "70000">>, <<"dst", "=", "8.8.8.8">>, <<"dpt", "=", "443">>,
         <<"proto", "=", "udp">>, <<"act", "=">> \o action>>, <<" ">>)

FortinetReport(disposition, src, sport) ==
  Report4("Fortinet", disposition, src, sport, <<"8.8.8.8">>, 443)

FortinetLogs ==
  <<Log(<<"date", "#", "devname=\"">>, <<"srcip=">>, 0, KvBody(<<"DENY">>, V4, TRUE), <<>>,
        FortinetReport(BLOCKED, V4, 57222)),
    Log(<<"date", "#", "devname=\"">>, <<"srcip=">>, 0, KvBody(Quoted(<<"ACCEPT">>), V6, FALSE), <<>>,
        FortinetReport(ALLOWED, V6, 57222)),
    Log(<<"CEF:0|Fortinet", "|Fortinet|">>, <<"src">>, 0, CefBody(<<"dropped">>), <<>>,
        FortinetReport(DROPPED, V4, None))>>

-----------------------------------------------------------------------------
(* Palo Alto: the row alone, behind a syslog header, or of another first   *)
(* field; the name of its rule may have a comma.                           *)

PaloAltoRow(first, subtype, src, rule, action) ==
  LET empty == <<>>
      row == <<<<first>>, <<"2023/10/15">>, <<"serial">>, <<"TRAFFIC">>, <<subtype>>, <<"0">>, <<"t">>,
               src, <<"8.8.8.8">>, empty, empty, rule, empty, empty, <<"dns">>, <<"vsys1">>, <<"z1">>,
               <<"z2">>, <<"e1">>, <<"e2">>, <<"fwd">>, empty, <<"4">>, <<"1">>, <<"57222">>, <<"53">>,
               <<"0">>, <<"0">>, <<"0x0">>, <<"udp">>, <<action>>>>
  IN Join(row, <<",">>)

Header == <<"Oct", " ", "15", " ", "10", ":", "20", " ", "fw", " ">>

PaloAltoReport(disposition, src) ==
  Report4("Palo Alto Networks", disposition, src, 57222, <<"8.8.8.8">>, 53)

PaloAltoLogs ==
  <<Log(<<"#", "2023/10/15", ",TRAFFIC,">>, <<>>, 30,
        PaloAltoRow("1", "start", V6, <<"web">>, "allow"), <<>>, PaloAltoReport(ALLOWED, V6)),
    Log(<<"Oct", "fw", ",TRAFFIC,">>, <<>>, 31,
        Header \o PaloAltoRow("1", "drop", V4, Quoted(<<"block", ",", "dns">>), "drop"), <<>>,
        Unjudged(PaloAltoReport(DROPPED, V4))),
    Log(<<"Oct", "fw", ",TRAFFIC,">>, <<>>, 30,
        Header \o PaloAltoRow("2", "end", V4, <<"web">>, "reset-both"), <<>>,
        PaloAltoReport(BLOCKED, V4))>>

-----------------------------------------------------------------------------
(* pfSense: both versions of IP, behind both forms of the program's name.  *)

PfSenseRow(version, action) ==
  LET head == <<<<"5">>, <<>>, <<>>, <<"100">>, <<"em0">>, <<"match">>, <<action>>, <<"in">>, <<version>>>>
      v4 == <<<<"0x0">>, <<>>, <<"64">>, <<"123">>, <<"0">>, <<"none">>, <<"6">>, <<"tcp">>, <<"60">>,
              V4, <<"8.8.8.8">>, <<"57222">>, <<"443">>>>
      v6 == <<<<"0x0">>, <<>>, <<"64">>, <<"tcp">>, <<"6">>, <<"60">>, V6, V6 \o <<":", "1">>,
              <<"57222">>, <<"443">>>>
      row == head \o (IF version = "4" THEN v4 ELSE v6)
  IN Join(row, <<",">>)

PfSenseLogs ==
  <<Log(<<"filterlog:">>, <<>>, 21, <<"filterlog", ":", " ">> \o PfSenseRow("4", "pass"), <<>>,
        Report4("Netgate", ALLOWED, V4, 57222, <<"8.8.8.8">>, 443)),
    Log(<<"Oct", "filterlog[">>, <<>>, 18,
        Header \o <<"filterlog", "[", "9", "]", ":", " ">> \o PfSenseRow("6", "reject"), <<>>,
        Report4("Netgate", BLOCKED, V6, 57222, V6 \o <<":", "1">>, 443))>>

-----------------------------------------------------------------------------
(* Kaggle: a row, the syslog form with its fields in another order, and    *)
(* what the generator makes of a row.                                      *)

KaggleReport(disposition, sport, dport) ==
  Report4("Kaggle", disposition, Synthetic("10.10", sport), sport, Synthetic("10.20", dport), dport)

KaggleRow == Join(<<<<"57222">>, <<"53">>, <<"1">>, <<"2">>, <<"drop">>>> \o [k \in 1..6 |-> <<"3">>],
                  <<",">>)

\* The Kaggle file of the generator: a header, a row, and a blank line.
Generated == load_dataset("kaggle", [kaggle |-> <<Join([k \in 1..11 |-> <<"Source Port">>], <<",">>),
                                                  KaggleRow, <<" ">>>>])

KaggleLogs ==
  <<Log(<<"#", "#", "#", "#", "allow">>, <<"#">>, 11,
        Join(<<<<"57222">>, <<"53">>, <<"1">>, <<"2">>, <<"allow">>, <<"3">>>>, <<",">>), <<>>,
        KaggleReport(ALLOWED, 57222, 53)),
    Log(<<"firewall-kaggle", "%KAGGLE-FW-">>, <<"src_port=">>, 0,
        <<"firewall-kaggle", " ", "%KAGGLE-FW-", "1", ":", " ", "action", "=", "\"", "DENY", "\"", " ",
          "nat_src_port", "=", "1", " ", "dst_port", "=", "443", " ", "src_port", "=", "57222">>, <<>>,
        KaggleReport(BLOCKED, 57222, 443)),
    Log(<<"firewall-kaggle", "%KAGGLE-FW-">>, <<"src_port=">>, 0, Generated[1], <<>>,
        KaggleReport(DROPPED, 57222, 53))>>

-----------------------------------------------------------------------------
(* Suricata: a flow, and an alert on a flow, behind a header.              *)

Flow(more) ==
  [src_ip |-> V6, src_port |-> 57222, dest_ip |-> <<"8.8.8.8">>, dest_port |-> 443,
   proto |-> <<"TCP">>] @@ more

SuricataLog(window, more, disposition) ==
  Log(window, <<>>, 9, <<"{", "}">>, <<Flow(more)>>,
      Report4("OISF", disposition, V6, 57222, <<"8.8.8.8">>, 443))

SuricataLogs ==
  <<SuricataLog(<<"{\"timestamp\":", "#", "\"event_type\":">>,
                [flow |-> [state |-> <<"closed">>, action |-> <<"drop">>]], DROPPED),
    SuricataLog(<<"Oct", "fw", "\"event_type\":">>,
                [flow |-> [state |-> <<"new">>], alert |-> [action |-> <<"blocked">>]], BLOCKED)>>

-----------------------------------------------------------------------------
(* Cisco ASA.                                                              *)

Asa(code, words) == <<"<", "%ASA-", "6", "-", code, ":", " ">> \o Join(words, <<" ">>)

Side(ip, port) == <<"outside", ":">> \o ip \o <<"/", port>>

AsaLog(code, words, said) ==
  Log(<<"%ASA-", code>>, <<>>, 0, Asa(code, words), <<>>, said)

AsaReport(disposition, src, dst) == Report4("Cisco", disposition, src, 57222, dst, 443)

AsaLogs ==
  <<AsaLog("302013", <<<<"Built">>, <<"inbound">>, <<"tcp">>, <<"connection">>, <<"1">>, <<"for">>,
                       Side(V6, "57222"), <<"(">> \o V4 \o <<"/", "1", ")">>, <<"to">>,
                       Side(V4, "443"), <<"(">> \o V4 \o <<"/", "1", ")">>>>,
           AsaReport(ALLOWED, V6, V4)),
    AsaLog("302014", <<<<"Teardown">>, <<"tcp">>, <<"connection">>, <<"1">>, <<"for">>,
                       V4 \o <<"/", "57222">>, <<"to">>, Side(V6, "443"), <<"bytes">>, <<"1">>>>,
           AsaReport(ALLOWED, V4, V6)),
    AsaLog("106023", <<<<"Deny">>, <<"tcp">>, <<"src">>, Side(V6, "57222"), <<"dst">>,
                       Side(V4, "443"), <<"by">>>>,
           Unjudged(AsaReport(BLOCKED, V6, V4))),
    AsaLog("106001", <<<<"Inbound">>, <<"tcp">>, <<"connection">>, <<"denied">>, <<"from">>,
                       V4 \o <<"/", "57222">>, <<"to">>, V4 \o <<"/", "443">>, <<"flags">>>>,
           AsaReport(DROPPED, V4, V4)),
    AsaLog("113019", <<<<"Group">>, <<"=">>, <<"corp", ",">>, <<"Username">>, <<"=">>, <<"me", ",">>,
                       <<"IP">>, <<"=">>, V6 \o <<",">>, <<"Session", ",">>, <<"Bytes">>,
                       <<"xmt", ":">>, <<"1", ",">>, <<"Bytes">>, <<"rcv", ":">>, <<"2">>>>,
           [vendor |-> "Cisco", src |-> Endpoint(V6, None)]),
    AsaLog("111008", <<<<"User">>, <<"dropped">>>>,
           Report4("Cisco", DROPPED, <<>>, None, <<>>, None))>>

-----------------------------------------------------------------------------
(* A log of no vendor; one that shares its signature with it but is of     *)
(* Fortinet's further on; one wrapped in JSON, which therefore shares its  *)
(* signature with Suricata's; one with the marker of ASA but no header; an *)
(* empty one; and one that the signature cuts inside a character.          *)

Nothing == Report4("Unknown", UNKNOWN, <<>>, None, <<>>, None)

Plain   == Log(<<"date", "host", "fw">>, <<"up">>, 0, <<"date", " ", "host", " ", "fw", " ", "up">>, <<>>, Nothing)
Late    == Log(<<"date", "host", "fw">>, <<"devname=", "srcip=">>, 0, KvBody(<<"DENY">>, V4, TRUE), <<>>,
               FortinetReport(BLOCKED, V4, 57222))
Wrapped == Log(<<"{", "msg", "|Fortinet|">>, <<"proto=">>, 0,
               <<"{", "msg", " ">> \o KvBody(<<"DENY">>, V4, TRUE), <<Flow([msg |-> <<"text">>])>>,
               FortinetReport(BLOCKED, V4, 57222))
Garbled == Log(<<"%ASA-", "host">>, <<>>, 0, <<"%ASA-", "host">>, <<>>, Nothing)
Blank   == Log(<<>>, <<>>, 0, <<>>, <<>>, Nothing)
Split   == [Log(<<"utf">>, <<>>, 0, <<"utf">>, <<>>, Nothing) EXCEPT !.text.split = TRUE]

OtherLogs == <<Plain, Late, Wrapped, Garbled, Split>>

AllLogs == FortinetLogs \o PaloAltoLogs \o PfSenseLogs \o KaggleLogs \o SuricataLogs \o AsaLogs \o OtherLogs

\* A hash without collisions: the first of all the logs with the fingerprint.
Fingerprints == [r \in DOMAIN AllLogs |-> fingerprint(AllLogs[r].text)]
FirstLike == [f \in Range(Fingerprints) |-> Min({r \in DOMAIN AllLogs : Fingerprints[r] = f})]
=============================================================================
