---------------------------- MODULE MCOnboarder ----------------------------
(* Sample files for TLC: three lines of one family each, in every order    *)
(* and with repetitions, so that columns agree or differ in any combination.*)
EXTENDS Onboarder

Lower == [v \in {"Acme", "ACME"} |-> "acme"]

T(class, text)       == [class |-> class, field |-> "none", text |-> <<text>>, valid |-> TRUE]
Bad(class, text)     == [class |-> class, field |-> "none", text |-> <<text>>, valid |-> FALSE]
KV(field, class, text) ==
  [class |-> class, field |-> field, text |-> <<field, text>>, valid |-> TRUE]

\* A bare word spelled with a backslash, a quote and a dot.
Odd  == [class |-> "word", field |-> "none", text |-> <<Backslash, Quote, ".", Quote>>, valid |-> TRUE]

Ip1 == T("ip", "ip1")
Ip2 == T("ip", "ip2")
Ip3 == Bad("ip", "ip3")
Ep1 == T("ip:port", "ep1")
Ep2 == T("ip/port", "ep2")
Ep3 == T("ip:port", "ep3")
P80 == T("port", "80")
P99 == Bad("port", "99999")
Src(x) == KV("src_ip", "ip", x)
Dst(x) == KV("dst_ip", "ip", x)

Plainly == {<<Odd, Ip1, Ip2>>, <<Odd, Ip2, Ip1>>, <<Odd, Ip3, Ip1, P80>>, <<Odd, Ip2, Ip1, P99>>}
Ported  == {<<T("action", "deny"), Ep1, Ep3, P80>>, <<T("action", "allow"), Ep3, Ep1, P80>>,
            <<T("action", "deny"), Ep2, Ep1, P99>>, <<T("action", "drop"), Ep1, Ep1>>}
Keyed   == {<<Src("a"), Dst("b")>>, <<Src("b"), Odd, Dst("a")>>, <<Dst("a"), Src("b")>>}
Flows   == {<<T("rt", "RT"), Odd, T("session", "session"), T("alpha", "created"),
              T("flow/", "f1"), T("tail", "tail")>>,
            <<Odd, T("flow/", "f1")>>, <<Odd, T("action", "deny"), T("flow:", "f2")>>,
            <<Odd, T("action", "drop"), Bad("flow:", "f3")>>}

Triples(family)  == {<<a, b, c>> : a, b, c \in family}
MCSampleFiles    == Triples(Plainly) \cup Triples(Ported) \cup Triples(Keyed) \cup Triples(Flows)
MCChars          == UNION {Range(t.text) : t \in LineTokens} \cup {Backslash, Quote, "."}
=============================================================================
