------------------------------- MODULE Drain -------------------------------
(***************************************************************************)
(* The log template miner (ulpf-ai, drain.rs).  A log is masked, split     *)
(* into tokens and sent down a prefix tree of fixed depth; at the leaf it  *)
(* joins the most similar cluster, whose template is generalised to cover  *)
(* it, or founds a cluster of its own.                                     *)
(*                                                                         *)
(* Tokens are opaque: what the code asks of one is whether the masker      *)
(* replaces it (Params), whether it holds a digit (Dynamic), and what it   *)
(* is in upper case.  A similarity is kept as its numerator, the number of *)
(* matching tokens: the two logs compared always have the same length.     *)
(* Timestamps only feed the rate of a cluster, so that "the rate is at     *)
(* least surge_multiplier" is an input of the call.                        *)
(***************************************************************************)
EXTENDS Integers, Sequences, FiniteSets

CONSTANTS
  Tokens,                \* the tokens of logs and templates
  Params,                \* the tokens LogMasker replaces by "<*>"
  Dynamic,               \* the tokens with a digit that survive masking
  to_ascii_uppercase,    \* case folding of tokens
  Wild,                  \* the token "<*>"
  Star,                  \* the tree key "*"
  unique_anchor_tokens,  \* DrainConfig: the anchors, in upper case
  depth,                 \* DrainConfig: depth of the prefix tree
  max_children,          \* DrainConfig: children before a node branches to "*"
  rare_count_threshold,  \* DrainConfig: up to this count a cluster is rare
  ThresholdNum,          \* DrainConfig::similarity_threshold is
  ThresholdDen,          \*   ThresholdNum / ThresholdDen
  Logs,                  \* the logs the environment may send
  MaxLogs                \* bound: logs sent in one behaviour

ASSUME DrainAssumption ==
  /\ Wild \in Tokens \ Params
  /\ Params \cup Dynamic \subseteq Tokens
  /\ to_ascii_uppercase \in [Tokens -> Tokens]
  /\ to_ascii_uppercase[Wild] \notin unique_anchor_tokens
  /\ depth \in Nat /\ depth >= 2
  /\ max_children \in Nat /\ rare_count_threshold \in Nat
  /\ ThresholdNum \in Nat /\ ThresholdDen \in Nat \ {0}
  /\ ThresholdNum <= ThresholdDen
  /\ Logs \subseteq Seq(Tokens)
  /\ MaxLogs \in Nat

VARIABLES
  tree,                  \* the prefix tree: path of keys -> cluster_ids
  clusters,              \* DrainMiner::clusters
  next_cluster_id,       \* DrainMiner::next_cluster_id
  total_logs_processed,  \* DrainMiner::total_logs_processed
  surges,                \* RareClusterSurge alerts raised, by cluster
  members                \* history: the masked logs each cluster was given

vars == <<tree, clusters, next_cluster_id, total_logs_processed, surges, members>>

-----------------------------------------------------------------------------
(* Tokens and similarity.                                                  *)

\* LogMasker::mask and tokenize.
mask(raw) == [i \in DOMAIN raw |-> IF raw[i] \in Params THEN Wild ELSE raw[i]]

has_digit_or_param(token) == token = Wild \/ token \in Dynamic

IsAnchor(token) == to_ascii_uppercase[token] \in unique_anchor_tokens

\* Mutant: only the anchors of the template count.
AnchorsAgree_TemplateOnly(t1, t2) ==
  IsAnchor(t1) => to_ascii_uppercase[t1] = to_ascii_uppercase[t2]

\* The anchor test of compute_similarity, for one position.
AnchorsAgree(t1, t2) ==
  IsAnchor(t1) \/ IsAnchor(t2) => to_ascii_uppercase[t1] = to_ascii_uppercase[t2]

Covers(t1, t2) == t1 = Wild \/ t1 = t2

\* compute_similarity, times the number of tokens.
compute_similarity(template, tokens) ==
  IF Len(template) # Len(tokens) \/ template = <<>> THEN 0
  ELSE IF \E i \in DOMAIN tokens : ~AnchorsAgree(template[i], tokens[i]) THEN 0
  ELSE Cardinality({i \in DOMAIN tokens : Covers(template[i], tokens[i])})

-----------------------------------------------------------------------------
(* The prefix tree.  A node is named by the keys on the way to it, the     *)
(* first of which is the number of tokens.                                 *)

Children(node) ==
  {n[Len(n)] : n \in {m \in DOMAIN tree : m # <<>> /\ SubSeq(m, 1, Len(m) - 1) = node}}

\* How many tokens lead to a leaf.
PrefixDepth(tokens) == IF depth - 2 <= Len(tokens) THEN depth - 2 ELSE Len(tokens)

SearchKey(token) == IF has_digit_or_param(token) THEN Star ELSE token

\* Mutant: the "*" child is not tried.
Descend_ExactOnly(node, token) ==
  LET exact == Append(node, SearchKey(token))
  IN IF node # <<>> /\ exact \in DOMAIN tree THEN exact ELSE <<>>

\* One step of find_best_match: the exact child, else the "*" child, else none.
\* The root, <<>>, holds no clusters and stands for "no such node".
Descend(node, token) ==
  LET exact == Append(node, SearchKey(token))
      star  == Append(node, Star)
  IN IF node = <<>> THEN <<>>
     ELSE IF exact \in DOMAIN tree THEN exact
     ELSE IF star \in DOMAIN tree THEN star
     ELSE <<>>

SearchLeaf(tokens) ==
  LET start == IF <<Len(tokens)>> \in DOMAIN tree THEN <<Len(tokens)>> ELSE <<>>
      walk[i \in 0..PrefixDepth(tokens)] ==
        IF i = 0 THEN start ELSE Descend(walk[i - 1], tokens[i])
  IN walk[PrefixDepth(tokens)]

\* One step of insert_to_tree: the key is "*" when the node is full.
InsertKey(node, token) ==
  IF has_digit_or_param(token) \/ Cardinality(Children(node)) >= max_children
    THEN Star ELSE token

InsertLeaf(tokens) ==
  LET walk[i \in 0..PrefixDepth(tokens)] ==
        IF i = 0 THEN <<Len(tokens)>>
        ELSE Append(walk[i - 1], InsertKey(walk[i - 1], tokens[i]))
  IN walk[PrefixDepth(tokens)]

ClusterIds(node) == IF node \in DOMAIN tree THEN tree[node] ELSE <<>>

\* Mutant: the cluster is filed at every node on the way.
insert_to_tree_EveryNode(id, tokens) ==
  LET leaf  == InsertLeaf(tokens)
      nodes == {SubSeq(leaf, 1, i) : i \in 1..Len(leaf)}
  IN tree' = [n \in DOMAIN tree \cup nodes |->
                IF n \in nodes THEN Append(ClusterIds(n), id) ELSE ClusterIds(n)]

insert_to_tree(id, tokens) ==
  LET leaf  == InsertLeaf(tokens)
      nodes == {SubSeq(leaf, 1, i) : i \in 1..Len(leaf)}
  IN tree' = [n \in DOMAIN tree \cup nodes |->
                IF n = leaf THEN Append(ClusterIds(n), id) ELSE ClusterIds(n)]

\* The similarity of the k-th candidate of the leaf the search ends in.
CandidateSim(tokens, ids, k) ==
  IF ids[k] \in DOMAIN clusters
    THEN compute_similarity(clusters[ids[k]].template_tokens, tokens) ELSE 0

\* find_best_match: the first of the most similar candidates, if it is similar
\* enough; 0 for None.
find_best_match(tokens) ==
  LET ids    == ClusterIds(SearchLeaf(tokens))
      sim(k) == CandidateSim(tokens, ids, k)
      best   == {k \in DOMAIN ids :
                   /\ sim(k) > 0
                   /\ sim(k) * ThresholdDen >= ThresholdNum * Len(tokens)
                   /\ \A j \in DOMAIN ids : sim(j) <= sim(k) /\ (j < k => sim(j) < sim(k))}
  IN IF best = {} THEN 0 ELSE ids[CHOOSE k \in best : TRUE]

-----------------------------------------------------------------------------
(* add_log.                                                                *)

\* LogCluster::new
NewCluster(tokens) == [template_tokens |-> tokens, count |-> 1]

\* Mutant: the template stays as it was.
Update_KeepsTemplate(cluster, tokens) == [cluster EXCEPT !.count = cluster.count + 1]

\* LogCluster::update
Update(cluster, tokens) ==
  [template_tokens |->
     [i \in DOMAIN cluster.template_tokens |->
        IF Covers(cluster.template_tokens[i], tokens[i])
          THEN cluster.template_tokens[i] ELSE Wild],
   count |-> cluster.count + 1]

\* Mutant: the count before the log is not looked at.
Surge_Repeats(prev_count, fast) ==
  /\ total_logs_processed + 1 > rare_count_threshold * 3
  /\ prev_count + 1 > rare_count_threshold
  /\ fast \/ prev_count + 1 >= rare_count_threshold + 2

\* The rare cluster alert: past the baseline, when the count passes the threshold.
Surge(prev_count, fast) ==
  /\ total_logs_processed + 1 > rare_count_threshold * 3
  /\ prev_count <= rare_count_threshold
  /\ prev_count + 1 > rare_count_threshold
  /\ fast \/ prev_count + 1 >= rare_count_threshold + 2

Extend(f, key, value) == [k \in DOMAIN f \cup {key} |-> IF k = key THEN value ELSE f[k]]

\* The branch that found a cluster.
Join(id, tokens, fast) ==
  /\ clusters' = [clusters EXCEPT ![id] = Update(clusters[id], tokens)]
  /\ members' = [members EXCEPT ![id] = members[id] \cup {tokens}]
  /\ surges' = IF Surge(clusters[id].count, fast)
                 THEN [surges EXCEPT ![id] = surges[id] + 1] ELSE surges
  /\ UNCHANGED <<tree, next_cluster_id>>

\* The branch that found none.
Found(tokens) ==
  /\ insert_to_tree(next_cluster_id, tokens)
  /\ clusters' = Extend(clusters, next_cluster_id, NewCluster(tokens))
  /\ members' = Extend(members, next_cluster_id, {tokens})
  /\ surges' = Extend(surges, next_cluster_id, 0)
  /\ next_cluster_id' = next_cluster_id + 1

\* The early return for a log without tokens.
Blank == UNCHANGED <<tree, clusters, next_cluster_id, surges, members>>

add_log(raw, fast) ==
  LET tokens == mask(raw)
      id     == find_best_match(tokens)
  IN /\ total_logs_processed < MaxLogs
     /\ total_logs_processed' = total_logs_processed + 1
     /\ \/ tokens = <<>> /\ Blank
        \/ tokens # <<>> /\ id # 0 /\ Join(id, tokens, fast)
        \/ tokens # <<>> /\ id = 0 /\ Found(tokens)

Init ==
  /\ tree = [n \in {<<>>} |-> <<>>]
  /\ clusters = [c \in {} |-> NewCluster(<<>>)]
  /\ next_cluster_id = 1
  /\ total_logs_processed = 0
  /\ surges = [c \in {} |-> 0]
  /\ members = [c \in {} |-> {}]

Next == \E raw \in Logs, fast \in BOOLEAN : add_log(raw, fast)

Spec == Init /\ [][Next]_vars

-----------------------------------------------------------------------------
(* Properties.                                                             *)

\* The variables hold values of their Rust types, and ids run from 1 without gaps.
TypeOK ==
  /\ next_cluster_id \in Nat \ {0}
  /\ total_logs_processed \in Nat
  /\ clusters \in [1..(next_cluster_id - 1) ->
                     [template_tokens : Seq(Tokens), count : Nat \ {0}]]
  /\ members \in [1..(next_cluster_id - 1) -> SUBSET Seq(Tokens)]
  /\ surges \in [1..(next_cluster_id - 1) -> Nat]

\* A template describes every log its cluster was ever given: at each position
\* the log has the template's token, or the template has "<*>".
TemplateCovers ==
  \A c \in DOMAIN clusters : \A m \in members[c] :
    LET template == clusters[c].template_tokens
    IN Len(template) = Len(m) /\ \A i \in DOMAIN m : Covers(template[i], m[i])

\* "Anchor tokens (e.g. ALLOW vs DENY) cannot be merged": logs of one cluster
\* that have anchors at the same position have the same one, up to case,
\* whatever the template generalised to in between.
ActionInviolability ==
  \A c \in DOMAIN clusters : \A m, n \in members[c] : \A i \in DOMAIN m \cap DOMAIN n :
    IsAnchor(m[i]) /\ IsAnchor(n[i]) =>
      to_ascii_uppercase[m[i]] = to_ascii_uppercase[n[i]]

\* Every cluster is filed under one leaf, once, at the depth at which a search stops
\* and under the length of its template.  Whether a search goes that way is what
\* FoundAgain is about.
Filed ==
  \A c \in DOMAIN clusters :
    \E leaf \in DOMAIN tree \ {<<>>} :
      /\ leaf[1] = Len(clusters[c].template_tokens)
      /\ Len(leaf) = 1 + PrefixDepth(clusters[c].template_tokens)
      /\ Cardinality({k \in DOMAIN tree[leaf] : tree[leaf][k] = c}) = 1
      /\ \A n \in DOMAIN tree \ {leaf} : \A k \in DOMAIN tree[n] : tree[n][k] # c

\* On the way to a leaf that goes through "*", the token has a node of its own as
\* well, which a search takes first: one that a full node had already, or one that
\* was made after the log went through "*" for want of it.
Overtaken(leaf, tokens) ==
  \E i \in 1..PrefixDepth(tokens) :
    /\ leaf[i + 1] = Star
    /\ SearchKey(tokens[i]) # Star
    /\ Append(SubSeq(leaf, 1, i), tokens[i]) \in DOMAIN tree

\* A log of the cluster has another token where this log has an anchor.  It agrees
\* up to case (ActionInviolability), and the template no longer has the anchor.
Respelled(c, tokens) ==
  \E i \in DOMAIN tokens, n \in members[c] : IsAnchor(tokens[i]) /\ n[i] # tokens[i]

\* A log the miner was ever given is recognised when it comes again, whatever was
\* filed, merged and generalised in between: it raises no second alert of an unseen
\* template.  There are two exceptions and no others: the way to its cluster is
\* overtaken, or an anchor of it was written in another case.
FoundAgain ==
  \A c \in DOMAIN clusters : \A m \in members[c] :
    \/ find_best_match(m) # 0
    \/ \E leaf \in DOMAIN tree : /\ \E k \in DOMAIN tree[leaf] : tree[leaf][k] = c
                                /\ Overtaken(leaf, m)
    \/ Respelled(c, m)

\* A cluster raises RareClusterSurge at most once in its life, and only once it
\* has stopped being rare.
SurgeOnce ==
  \A c \in DOMAIN surges :
    surges[c] <= 1 /\ (surges[c] = 1 => clusters[c].count > rare_count_threshold)

\* The inductive invariant: with TemplateCovers, a template position that is not
\* "<*>" is the token of every member, so that comparing a log with the template
\* there compares it with all of them.
IInv == TypeOK /\ TemplateCovers /\ ActionInviolability
=============================================================================
