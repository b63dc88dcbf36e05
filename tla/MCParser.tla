------------------------------ MODULE MCParser ------------------------------
(* All the logs, and two callers.                                          *)
EXTENDS MCLogs, CachedParser

MCRaws  == DOMAIN AllLogs
MCText  == [r \in MCRaws |-> AllLogs[r].text]
MCBody  == [r \in MCRaws |-> AllLogs[r].body]
MCJson  == [r \in MCRaws |-> AllLogs[r].json]
MCMeant == [r \in MCRaws |-> AllLogs[r].meant]
MCKeys  == MCRaws
MCHash  == FirstLike

\* Every extractor yields at most one event of the schema, for any vendor's log.
EndpointSet   == [ip : Seq(STRING), port : -1..65535]
Events  == [vendor : STRING, disposition : {ALLOWED, BLOCKED, DROPPED, UNKNOWN},
            activity : {OPEN, CLOSE, TRAFFIC_FLOW, OTHER_ACTIVITY},
            src : EndpointSet, dst : EndpointSet, protocol : [num : -1..255, name : Seq(STRING)]]
ASSUME ExtractorsTyped ==
  /\ class \in [Raws -> VendorFormat \cup {Unknown}]
  /\ extracted \in [Raws \X VendorFormat -> Seq(Events)]
  /\ \A r \in Raws, f \in VendorFormat : Len(extracted[r, f]) <= 1

Symmetric == Permutations(Threads)
=============================================================================
