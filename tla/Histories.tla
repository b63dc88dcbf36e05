----------------------------- MODULE Histories ------------------------------
(***************************************************************************)
(* A log grows leaf by leaf, and beside it a competing history (`fork`),   *)
(* so that the provers and the verifiers of module Merkle meet on every    *)
(* pair of histories.                                                      *)
(***************************************************************************)
EXTENDS Merkle, SequencesExt

CONSTANTS
  MaxLeaves,   \* bound: leaves of the log
  MaxFork      \* bound: leaves of the competing history

ASSUME HistoriesAssumption == MaxLeaves \in Nat /\ MaxFork \in Nat

VARIABLES
  log,    \* the raw logs of the tree under audit
  fork    \* the raw logs of another history, perhaps not a prefix of `log`

histories == <<log, fork>>

HistoriesInit == log = <<>> /\ fork = <<>>

\* Beyond MaxFork leaves the log grows alone.
Grow(raw) ==
  /\ Len(log) < (IF fork = <<>> THEN MaxLeaves ELSE MaxFork)
  /\ log' = Append(log, raw)
  /\ UNCHANGED fork

GrowFork(raw) ==
  /\ Len(fork) < MaxFork /\ Len(log) <= MaxFork
  /\ fork' = Append(fork, raw)
  /\ UNCHANGED log

HistoriesNext == \E raw \in RawLogs : Grow(raw) \/ GrowFork(raw)

HistoriesSpec == HistoriesInit /\ [][HistoriesNext]_histories

-----------------------------------------------------------------------------
(* A second definition of the root: the nodes of each level are joined in  *)
(* pairs, from the leaves up, and an odd last one moves up as it is.       *)

NextLevel(nodes) ==
  [i \in 1..((Len(nodes) + 1) \div 2) |->
     IF 2 * i <= Len(nodes) THEN hash_children(nodes[2 * i - 1], nodes[2 * i])
                            ELSE nodes[2 * i - 1]]

\* Levels(leaves)[e] is the level e above the leaves.
Levels(leaves) ==
  LET level[e \in 0..Len(leaves)] == IF e = 0 THEN leaves ELSE NextLevel(level[e - 1])
  IN level

ReferenceRoot(raw) ==
  IF raw = <<>> THEN empty_tree_hash ELSE Levels(LeafHashes(raw))[Len(raw)][1]

-----------------------------------------------------------------------------
(* Properties.                                                             *)

\* The recursive split at the largest power of two below n gives the tree that
\* joining level by level gives, for every size.
RootIsReference == from_raw_logs(log) = ReferenceRoot(log)

Indices == 0..(Len(log) - 1)
Path(i) == inclusion_proof(log, i).path

\* Every leaf has an audit path, at most ceil(log2 n) long, that verifies; and
\* there is none outside the tree.
InclusionComplete ==
  /\ LET root == from_raw_logs(log)
     IN \A i \in Indices :
          verify_inclusion_proof(log[i + 1], i, Len(log), Path(i), root)
  /\ \A i \in Indices :
       Len(log) > 1 => Len(Path(i)) <= TopBit(Len(log) - 1) + 1
  /\ ~inclusion_proof(log, Len(log)).ok

\* Truncations of honest paths, and honest paths with one side flipped.
Flip(step)    == <<step[1], IF step[2] = "Left" THEN "Right" ELSE "Left">>
Tampered(p)   == {p} \cup {Tail(p) : x \in {1} \cap DOMAIN p}
                     \cup {[p EXCEPT ![x] = Flip(p[x])] : x \in DOMAIN p}

\* Whatever honest path is presented, cut short, or turned round: a raw log that
\* the verifier accepts is a leaf of the tree (a raw log that spells the hashes
\* of two children is not mistaken for their parent).
InclusionSound ==
  LET root == from_raw_logs(log)
  IN \A i \in Indices : \A p \in Tampered(Path(i)) : \A j \in Indices, d \in RawLogs :
       verify_inclusion_proof(d, j, Len(log), p, root) => \E l \in Indices : log[l + 1] = d

\* The log is consistent with each of its earlier states, and says so.
ConsistencyComplete ==
  \A m \in 1..Len(log) :
    /\ consistency_proof(log, m).ok
    /\ verify_consistency_proof(m, Len(log), from_raw_logs(SubSeq(log, 1, m)),
                                from_raw_logs(log), consistency_proof(log, m).proof)

\* The hashes an auditor can be handed: honest proof hashes of both histories,
\* their roots and leaves.
ProofHashes ==
  LET hashes(raw) == UNION {Range(consistency_proof(raw, m).proof) : m \in 1..Len(raw)}
  IN hashes(log) \cup hashes(fork) \cup {from_raw_logs(log), from_raw_logs(fork)}

\* No sequence of such hashes convinces the verifier that a history that was
\* rewritten (not a prefix of the log) is an earlier state of the log, nor that one
\* of the same size is the log.
ConsistencySound ==
  (fork # <<>> /\ Len(fork) <= Len(log) /\ ~IsPrefix(fork, log)) =>
    LET len      == Len(consistency_proof(log, Len(fork)).proof)
        forkRoot == from_raw_logs(fork)
        root     == from_raw_logs(log)
    IN \A p \in [1..len -> ProofHashes] :
         ~verify_consistency_proof(Len(fork), Len(log), forkRoot, root, p)
=============================================================================
