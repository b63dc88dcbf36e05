----------------------------- MODULE MCBatcher -----------------------------
(* Instances of Batcher for TLC: constants only, given in the .cfg files.  *)
EXTENDS Batcher

\* Every failure the environment can inject, and the one of batcher_restart.
AllFaults == {"crash", "parquet", "ledger", "torn"}
CrashOnly == {"crash"}
=============================================================================
