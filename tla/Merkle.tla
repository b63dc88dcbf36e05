------------------------------- MODULE Merkle -------------------------------
(***************************************************************************)
(* The RFC 6962 Merkle tree of the integrity plane (merkle.rs): roots,     *)
(* inclusion proofs and consistency proofs, and the verifiers of both, as  *)
(* operators.                                                              *)
(*                                                                         *)
(* SHA-256 is a free constructor over its input bytes (collision free by   *)
(* construction); the domain-separation prefixes are bytes of that input,  *)
(* so that what they protect against can be expressed: a raw log may spell *)
(* the two child hashes of an inner node.  Positions are 0-based as in the *)
(* code; the TLA+ sequences that hold them are 1-based.                    *)
(*                                                                         *)
(* A recursion over slices is a function of the length n of the slice and  *)
(* of the position `lo` at which it starts; one over a stack of hashes is  *)
(* a function of how much of the stack is left.                            *)
(***************************************************************************)
EXTENDS Integers, Sequences

CONSTANTS
  Bytes,    \* what raw logs are spelled with: bytes, and perhaps whole hashes
  RawLogs   \* the raw logs

ASSUME MerkleAssumption == RawLogs \subseteq Seq(Bytes)

-----------------------------------------------------------------------------
(* Hashes.                                                                 *)

Sha256(bytes) == [sha256 |-> bytes]
LEAF_PREFIX   == <<[byte |-> "0x00"]>>
\* Mutant: leaves and inner nodes are hashed alike.
NODE_PREFIX_AsLeaf == LEAF_PREFIX
NODE_PREFIX   == <<[byte |-> "0x01"]>>

hash_leaf(data)            == Sha256(LEAF_PREFIX \o data)
hash_children(left, right) == Sha256(NODE_PREFIX \o <<left, right>>)
empty_tree_hash            == Sha256(<<>>)

\* 1 << e
Shl[e \in Nat] == IF e = 0 THEN 1 ELSE 2 * Shl[e - 1]

\* Bit length minus one of x > 0, i.e. BITS - 1 - x.leading_zeros().
TopBit(x) == CHOOSE e \in 0..x : Shl[e] <= x /\ x < Shl[e + 1]

\* Mutant: the tree is split in the middle.
largest_power_of_two_less_than_Half(n) == n \div 2

largest_power_of_two_less_than(n) == Shl[TopBit(n - 1)]

\* Where slices of n of the leaves start.
Slices(leaves, n) == 0..(Len(leaves) - n)

-----------------------------------------------------------------------------
(* Trees and inclusion proofs.                                             *)

\* The hash of an inner node over n leaves, given those of shorter slices.
Joined(leaves, n, k, left, right) ==
  [lo \in Slices(leaves, n) |-> hash_children(left[lo], right[lo + k])]

\* build_subtree(&leaves[lo..lo + n]).hash() is build_subtree(leaves)[n][lo].
build_subtree(leaves) ==
  LET hash[n \in 1..Len(leaves)] ==
        LET k == largest_power_of_two_less_than(n)
        IN IF n = 1 THEN [lo \in Slices(leaves, 1) |-> leaves[lo + 1]]
                    ELSE Joined(leaves, n, k, hash[k], hash[n - k])
  IN hash

from_leaf_hashes(leaves) ==
  IF leaves = <<>> THEN empty_tree_hash ELSE build_subtree(leaves)[Len(leaves)][0]

LeafHashes(raw)    == [i \in DOMAIN raw |-> hash_leaf(raw[i])]
from_raw_logs(raw) == from_leaf_hashes(LeafHashes(raw))

\* The path within an inner node: that of the side of the target, and the other side.
Extended(leaves, n, k, left, right) ==
  LET hash == build_subtree(leaves)
  IN [lo \in Slices(leaves, n) |-> [target_idx \in 0..(n - 1) |->
        IF target_idx < k
          THEN Append(left[lo][target_idx], <<hash[n - k][lo + k], "Right">>)
          ELSE Append(right[lo + k][target_idx - k], <<hash[k][lo], "Left">>)]]

\* collect_audit_path(leaves)[n][lo][target_idx]
collect_audit_path(leaves) ==
  LET path[n \in 1..Len(leaves)] ==
        LET k == largest_power_of_two_less_than(n)
        IN IF n = 1 THEN [lo \in Slices(leaves, 1) |-> [target_idx \in {0} |-> <<>>]]
                    ELSE Extended(leaves, n, k, path[k], path[n - k])
  IN path

\* inclusion_proof: Err(EmptyTree), Err(IndexOutOfBounds) or the audit path.
inclusion_proof(raw, index) ==
  IF index >= Len(raw) THEN [ok |-> FALSE, path |-> <<>>]
  ELSE [ok |-> TRUE, path |-> collect_audit_path(LeafHashes(raw))[Len(raw)][0][index]]

\* Mutant: the side of the sibling is ignored.
Climb_IgnoresSide(current, sibling) == hash_children(current, sibling[1])

\* One step of the verifier's fold along the audit path.
Climb(current, sibling) ==
  IF sibling[2] = "Right" THEN hash_children(current, sibling[1])
                          ELSE hash_children(sibling[1], current)

\* The fold: the hash after i siblings.
Climbed(leaf_hash, audit_path) ==
  LET current_hash[i \in 0..Len(audit_path)] ==
        IF i = 0 THEN leaf_hash ELSE Climb(current_hash[i - 1], audit_path[i])
  IN current_hash

verify_inclusion_proof_by_hash(leaf_hash, leaf_index, tree_size, audit_path, root) ==
  /\ tree_size # 0
  /\ leaf_index < tree_size
  /\ IF tree_size = 1
       THEN audit_path = <<>> /\ leaf_index = 0 /\ leaf_hash = root
       ELSE Climbed(leaf_hash, audit_path)[Len(audit_path)] = root

verify_inclusion_proof(raw_log, leaf_index, tree_size, audit_path, root) ==
  verify_inclusion_proof_by_hash(hash_leaf(raw_log), leaf_index, tree_size, audit_path, root)

-----------------------------------------------------------------------------
(* Consistency proofs.                                                     *)

\* What proves the first m leaves of a slice that has n, or all of them.
Whole(b, root) == IF b THEN <<>> ELSE <<root>>

Proven(leaves, n, k, left, right) ==
  LET hash == build_subtree(leaves)
  IN [lo \in Slices(leaves, n) |-> [m \in 1..n |-> [b \in BOOLEAN |->
        IF m = n THEN Whole(b, hash[n][lo])
        ELSE IF m <= k THEN Append(left[lo][m][b], hash[n - k][lo + k])
                       ELSE Append(right[lo + k][m - k][FALSE], hash[k][lo])]]]

\* subproof(m, &leaves[lo..lo + n], b) is subproof(leaves)[n][lo][m][b].
subproof(leaves) ==
  LET proof[n \in 1..Len(leaves)] ==
        LET k == largest_power_of_two_less_than(n)
        IN IF n = 1 THEN [lo \in Slices(leaves, 1) |-> [m \in {1} |-> [b \in BOOLEAN |->
                            Whole(b, build_subtree(leaves)[1][lo])]]]
                    ELSE Proven(leaves, n, k, proof[k], proof[n - k])
  IN proof

\* consistency_proof: Err(InvalidConsistencySize) or the proof.
consistency_proof(raw, prev_size) ==
  IF prev_size = 0 \/ prev_size > Len(raw) THEN [ok |-> FALSE, proof |-> <<>>]
  ELSE [ok    |-> TRUE,
        proof |-> IF prev_size = Len(raw) THEN <<>>
                  ELSE subproof(LeafHashes(raw))[Len(raw)][0][prev_size][TRUE]]

Sizes == Nat \ {0}

\* `proof.pop()?` of an empty stack.
None == [ok |-> FALSE]

\* verify_subproof_full(m, n) when `top` was popped and `sub` does the rest.
FullStep(top, left, sub) ==
  [n \in Sizes |-> [m \in 1..n |->
     LET k == largest_power_of_two_less_than(n)
     IN IF m = n THEN [ok |-> TRUE, m |-> top, n |-> top, rest |-> left]
        ELSE LET s == IF m <= k THEN sub[k][m] ELSE sub[n - k][m - k]
             IN IF ~s.ok THEN None
                ELSE IF m <= k
                  THEN [ok |-> TRUE, m |-> s.m, n |-> hash_children(s.n, top), rest |-> s.rest]
                  ELSE [ok |-> TRUE, m |-> hash_children(top, s.m), n |-> hash_children(top, s.n),
                        rest |-> s.rest]]]

\* verify_subproof_full(m, n) on what is left of the stack, its first i hashes, is
\* verify_subproof_full(proof)[i][n][m]: the two roots, and what it leaves.
verify_subproof_full(proof) ==
  LET full[i \in 0..Len(proof)] ==
        IF i = 0 THEN [n \in Sizes |-> [m \in 1..n |-> None]]
                 ELSE FullStep(proof[i], i - 1, full[i - 1])
  IN full

\* verify_consistency_internal(m, n) when `top` was popped.
InternalStep(top, i, full, sub, prev_root) ==
  [n \in Sizes |-> [m \in 1..n |->
     LET k == largest_power_of_two_less_than(n)
     IN IF m = n THEN [ok |-> TRUE, root |-> prev_root, rest |-> i]
        ELSE IF m <= k
          THEN LET s == sub[k][m]
               IN IF ~s.ok THEN None
                  ELSE [ok |-> TRUE, root |-> hash_children(s.root, top), rest |-> s.rest]
          ELSE LET s == full[n - k][m - k]
               IN IF ~s.ok THEN None
                  ELSE IF hash_children(top, s.m) # prev_root THEN None
                  ELSE [ok |-> TRUE, root |-> hash_children(top, s.n), rest |-> s.rest]]]

\* verify_consistency_internal(m, n), likewise: the new root, and what it leaves.
verify_consistency_internal(proof, prev_root) ==
  LET full == verify_subproof_full(proof)
      internal[i \in 0..Len(proof)] ==
        IF i = 0 THEN [n \in Sizes |-> [m \in 1..n |->
                         IF m = n THEN [ok |-> TRUE, root |-> prev_root, rest |-> 0] ELSE None]]
                 ELSE InternalStep(proof[i], i, full[i - 1], internal[i - 1], prev_root)
  IN internal

\* The stack is the whole proof, and has to be used up.
Reconstructs(prev_size, curr_size, prev_root, curr_root, proof) ==
  LET res == verify_consistency_internal(proof, prev_root)[Len(proof)][curr_size][prev_size]
  IN res.ok /\ res.rest = 0 /\ res.root = curr_root

\* Mutants: equal sizes are refused; the new root is not compared.
verify_consistency_proof_Strict(prev_size, curr_size, prev_root, curr_root, proof) ==
  /\ prev_size # 0
  /\ prev_size < curr_size
  /\ Reconstructs(prev_size, curr_size, prev_root, curr_root, proof)

verify_consistency_proof_AnyRoot(prev_size, curr_size, prev_root, curr_root, proof) ==
  /\ prev_size # 0
  /\ prev_size <= curr_size
  /\ IF prev_size = curr_size
       THEN proof = <<>> /\ prev_root = curr_root
       ELSE LET res == verify_consistency_internal(proof, prev_root)[Len(proof)][curr_size][prev_size]
            IN res.ok /\ res.rest = 0

verify_consistency_proof(prev_size, curr_size, prev_root, curr_root, proof) ==
  /\ prev_size # 0
  /\ prev_size <= curr_size
  /\ IF prev_size = curr_size
       THEN proof = <<>> /\ prev_root = curr_root
       ELSE Reconstructs(prev_size, curr_size, prev_root, curr_root, proof)
=============================================================================
