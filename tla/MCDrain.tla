------------------------------ MODULE MCDrain ------------------------------
(* Logs for TLC.  "443" is masked, "v1" keeps its digit, "allow" is ALLOW  *)
(* in lower case.                                                          *)
EXTENDS Drain

Words == {"ALLOW", "allow", "DENY", "fw", "gw", "v1", "443", "<*>"}
Upper == [t \in Words |-> IF t = "allow" THEN "ALLOW" ELSE t]

\* Three-token logs in both verdicts and cases, under full and dynamic nodes of
\* both levels of the tree; one shorter than the prefix, and a blank one.
VerdictLogs ==
  {<<"fw", "gw", t>> : t \in {"ALLOW", "allow", "DENY", "gw", "443"}}
    \cup {<<"gw", "gw", "ALLOW">>, <<"fw", "fw", "DENY">>, <<"v1", "gw", "DENY">>,
          <<"v1", "gw", "443">>, <<"ALLOW">>, <<>>}
=============================================================================
