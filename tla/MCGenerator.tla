---------------------------- MODULE MCGenerator ----------------------------
(* Two workers, of which one sends more, and a run of one second.          *)
EXTENDS Generator

MCMaxTaken == <<4, 2>>
=============================================================================
