----------------------------- MODULE AnchorLog -----------------------------
(***************************************************************************)
(* What the integrity plane promises, whatever happens underneath: the     *)
(* blocks that were anchored form an append-only log.  A step may seal one *)
(* new block, with an id above every sealed one and with logs that arrived *)
(* after every sealed one; nothing sealed is ever changed or removed.      *)
(*                                                                         *)
(* The ids order the blocks, so the log is kept as a set.  Module Batcher  *)
(* implements this specification across crashes and I/O errors.            *)
(***************************************************************************)
EXTENDS Integers, Sequences

VARIABLE sealed      \* the anchored blocks: records with block_id and logs

Ascending(logs) == \A i, j \in DOMAIN logs : i < j => logs[i] < logs[j]

Follows(b, c) ==
  /\ c.block_id < b.block_id
  /\ \A i \in DOMAIN c.logs, j \in DOMAIN b.logs : c.logs[i] < b.logs[j]

Init == sealed = {}

Seal(b) ==
  /\ b.logs # <<>>
  /\ Ascending(b.logs)
  /\ \A c \in sealed : Follows(b, c)
  /\ sealed' = sealed \cup {b}

Next == \E b \in sealed' : Seal(b)

Spec == Init /\ [][Next]_sealed
=============================================================================
