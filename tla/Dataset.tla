------------------------------ MODULE Dataset ------------------------------
(***************************************************************************)
(* The logs that the traffic generator sends (ulpf-generator, lib.rs): the *)
(* lines of the vendors' files, and the rows of the Kaggle file written as *)
(* syslog lines.  A line is a sequence of symbols (module Extractors); the *)
(* time of a converted row is left out.                                    *)
(***************************************************************************)
EXTENDS Extractors

Columns == <<"src_port", "dst_port", "nat_src_port", "nat_dst_port", "action", "bytes", "sent_bytes",
          "rcvd_bytes", "packets", "elapsed_sec", "pkts_sent", "pkts_rcvd">>

Concat(seqs) ==
  LET upto[k \in 0..Len(seqs)] == IF k = 0 THEN <<>> ELSE upto[k - 1] \o seqs[k]
  IN upto[Len(seqs)]

\* The pair of a column; one that is not there is 0.
Pair(parts, k) ==
  LET v == IF k \in DOMAIN parts THEN parts[k] ELSE <<"0">>
  IN <<Columns[k], "=">> \o (IF k = 5 THEN <<"\"">> \o v \o <<"\"">> ELSE v)

\* A row as a syslog line, action first; nothing for the header or a short row.
kaggle_row_to_syslog(row) ==
  LET parts == [k \in DOMAIN Cut(row, At(row, ",")) |-> Trim(Cut(row, At(row, ","))[k], Spaces)]
      order == <<5, 1, 2, 3, 4>> \o [k \in 1..7 |-> k + 5]
      pairs == [k \in 1..12 |-> <<" ">> \o Pair(parts, order[k])]
  IN IF Len(parts) < 10 \/ parts[1] \in {<<"Source Port">>, <<"source port">>} THEN <<>>
     ELSE <<<<"firewall-kaggle", " ", "%KAGGLE-FW-", "1", ":">> \o Concat(pairs)>>

\* The lines of a file that are not blank.
read_lines(file) ==
  LET trimmed == [k \in DOMAIN file |-> Trim(file[k], Spaces)]
  IN Kept(trimmed, {k \in DOMAIN trimmed : trimmed[k] # <<>>})

Kinds == <<"cisco", "fortigate", "paloalto", "suricata", "pfsense", "kaggle">>

\* All the lines of a dataset; <<>> for an error, be it that a file is missing or
\* that there is no line.
load_dataset(kind, files) ==
  LET kinds == IF kind = "all" THEN Kinds ELSE <<kind>>
      converted(rows) == Concat([i \in DOMAIN rows |-> kaggle_row_to_syslog(rows[i])])
      lines(k) == IF k = "kaggle" THEN converted(read_lines(files[k])) ELSE read_lines(files[k])
  IN IF \E i \in DOMAIN kinds : kinds[i] \notin DOMAIN files THEN <<>>
     ELSE Concat([i \in DOMAIN kinds |-> lines(kinds[i])])
=============================================================================
