------------------------------ MODULE MCTamper ------------------------------
(* Tamper for TLC.  Raw logs and other column values are interchangeable.  *)
EXTENDS Tamper

CONSTANTS a, b

OneByteLogs == {<<a>>, <<b>>}
Symmetry    == Permutations({a, b}) \cup Permutations(Metas)
=============================================================================
