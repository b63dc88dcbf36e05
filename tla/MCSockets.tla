----------------------------- MODULE MCSockets -----------------------------
(* Sockets for TLC: constants are given in the .cfg file.                  *)
EXTENDS Sockets
=============================================================================
