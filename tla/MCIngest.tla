------------------------------ MODULE MCIngest ------------------------------
(* Instances of Ingest for TLC: constants only, given in the .cfg files.   *)
EXTENDS Ingest

AllFaults == {"crash", "parquet", "ledger", "torn"}
NoFaults  == {}
=============================================================================
