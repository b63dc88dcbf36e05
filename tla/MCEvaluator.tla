---------------------------- MODULE MCEvaluator ----------------------------
(* Eight of the logs, and corpora of them in which one log may change what *)
(* is made of the next: by sharing its signature, its cluster or its route.*)
EXTENDS MCLogs, Evaluator

Logs == [asa |-> Garbled, json |-> SuricataLogs[1], wrapped |-> Wrapped,
         broken |-> [Wrapped EXCEPT !.json = <<>>], late |-> Late, plain |-> Plain, blank |-> Blank, split |-> Split]

MCRaws == DOMAIN Logs
MCText == [r \in MCRaws |-> Logs[r].text]
MCBody == [r \in MCRaws |-> Logs[r].body]
MCJson == [r \in MCRaws |-> Logs[r].json]

HashTable == [f \in {fingerprint(MCText[r]) : r \in MCRaws} |->
                CASE f = fingerprint(Garbled.text) -> 1
                  [] f = fingerprint(Wrapped.text) -> 2
                  [] OTHER -> 3]
MCHash == HashTable

MCThreads == 0..2
MCLength == [r \in MCRaws |-> IF r = "blank" THEN 0 ELSE 1]
MCCorpora == {<<"wrapped", "json">>, <<"plain", "late">>, <<"json", "broken">>,
              <<"asa", "blank">>, <<"blank", "asa">>, <<"plain", "late", "split">>}

ASSUME Typed ==
  /\ class \in [Raws -> VendorFormat \cup {Unknown}]
  /\ extracted \in [Raws \X VendorFormat -> Seq([vendor : STRING, disposition : STRING, activity : STRING,
       src : [ip : Seq(STRING), port : Int], dst : [ip : Seq(STRING), port : Int],
       protocol : [num : Int, name : Seq(STRING)]])]
=============================================================================
