------------------------------ MODULE MCMerkle ------------------------------
(* Raw logs for TLC: plain ones, and one that spells two leaf hashes.       *)
EXTENDS Histories

a == <<[byte |-> "a"]>>
b == <<[byte |-> "b"]>>

NestedLogs  == {a, b, <<hash_leaf(a), hash_leaf(b)>>}
NestedBytes == UNION {Range(raw) : raw \in NestedLogs}
=============================================================================
