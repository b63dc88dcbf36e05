--------------------------- MODULE Learning_proofs --------------------------
(***************************************************************************)
(* Proofs about the two components that learn from lines.                  *)
(*                                                                         *)
(* The template miner: for every token set, case folding, anchors, tree    *)
(* shape and similarity threshold, templates cover their members, no       *)
(* cluster holds logs with different anchors at one place, every cluster   *)
(* is filed once, and a log that comes again is recognised, unless its way *)
(* is overtaken or one of its anchors was written in another case.         *)
(*                                                                         *)
(* Parser onboarding: whatever the samples and their spelling, a parser    *)
(* that was exported reads the same from its JSON file and from its YAML   *)
(* file, and extracts every sample it was generated from.                  *)
(***************************************************************************)
EXTENDS Drain, Onboarder, FiniteSetTheorems, SequenceTheorems, WellFoundedInduction, TLAPS

-----------------------------------------------------------------------------
(* The template miner.                                                     *)

\* Masking keeps the length of a log and yields tokens (LogMasker::mask).
LEMMA MaskTyped ==
  ASSUME NEW raw \in Logs
  PROVE  mask(raw) \in Seq(Tokens)
<1>1. raw \in Seq(Tokens)
  BY DrainAssumption
<1>2. Wild \in Tokens
  BY DrainAssumption
<1>3. DOMAIN raw = 1..Len(raw) /\ Len(raw) \in Nat
  BY <1>1
<1>4. \A i \in DOMAIN raw : raw[i] \in Tokens
  BY <1>1
<1>5. mask(raw) \in [1..Len(raw) -> Tokens]
  BY <1>2, <1>3, <1>4 DEF mask
<1> QED
  BY <1>3, <1>5

\* What find_best_match promises: the cluster it returns exists, has as many
\* tokens as the log, and agrees with it on anchors at every position.
LEMMA BestMatch ==
  ASSUME NEW tokens \in Seq(Tokens), find_best_match(tokens) # 0
  PROVE  /\ find_best_match(tokens) \in DOMAIN clusters
         /\ \E k \in DOMAIN ClusterIds(SearchLeaf(tokens)) :
              ClusterIds(SearchLeaf(tokens))[k] = find_best_match(tokens)
         /\ Len(clusters[find_best_match(tokens)].template_tokens) = Len(tokens)
         /\ \A i \in DOMAIN tokens :
              AnchorsAgree(clusters[find_best_match(tokens)].template_tokens[i], tokens[i])
<1> DEFINE ids    == ClusterIds(SearchLeaf(tokens))
           sim(k) == CandidateSim(tokens, ids, k)
           best   == {k \in DOMAIN ids :
                        /\ sim(k) > 0
                        /\ sim(k) * ThresholdDen >= ThresholdNum * Len(tokens)
                        /\ \A j \in DOMAIN ids :
                             sim(j) <= sim(k) /\ (j < k => sim(j) < sim(k))}
<1>1. find_best_match(tokens) = IF best = {} THEN 0 ELSE ids[CHOOSE k \in best : TRUE]
  BY DEF find_best_match
<1>2. PICK k \in best : find_best_match(tokens) = ids[k]
  <2>1. best # {}
    BY <1>1
  <2> QED
    BY <1>1, <2>1
<1>3. CandidateSim(tokens, ids, k) > 0
  BY <1>2
<1>4. ids[k] \in DOMAIN clusters
  <2>1. SUFFICES ASSUME ids[k] \notin DOMAIN clusters PROVE FALSE
    OBVIOUS
  <2>2. CandidateSim(tokens, ids, k) = 0
    BY <2>1 DEF CandidateSim
  <2> QED
    BY <1>3, <2>2
<1>5. compute_similarity(clusters[ids[k]].template_tokens, tokens) > 0
  BY <1>3, <1>4 DEF CandidateSim
<1>8. \E j \in DOMAIN ClusterIds(SearchLeaf(tokens)) :
        ClusterIds(SearchLeaf(tokens))[j] = find_best_match(tokens)
  BY <1>2
<1> HIDE DEF ids, sim, best
<1> DEFINE template == clusters[ids[k]].template_tokens
<1>6. Len(template) = Len(tokens)
  <2>1. SUFFICES ASSUME Len(template) # Len(tokens) PROVE FALSE
    OBVIOUS
  <2>2. compute_similarity(template, tokens) = 0
    BY <2>1 DEF compute_similarity
  <2> QED
    BY <1>5, <2>2
<1>7. \A i \in DOMAIN tokens : AnchorsAgree(template[i], tokens[i])
  <2>1. SUFFICES ASSUME \E i \in DOMAIN tokens : ~AnchorsAgree(template[i], tokens[i])
                 PROVE  FALSE
    OBVIOUS
  <2>2. compute_similarity(template, tokens) = 0
    BY <2>1 DEF compute_similarity
  <2> QED
    BY <1>5, <2>2
<1> QED
  BY <1>2, <1>4, <1>6, <1>7, <1>8

\* The state of a new DrainMiner.
LEMMA InitIInv == Init => IInv
<1> SUFFICES ASSUME Init PROVE IInv
  OBVIOUS
<1>1. DOMAIN clusters = {} /\ DOMAIN members = {} /\ 1..(next_cluster_id - 1) = {}
  BY DEF Init
<1>2. TypeOK
  BY <1>1 DEF Init, TypeOK
<1> QED
  BY <1>1, <1>2 DEF IInv, TemplateCovers, ActionInviolability

\* LogCluster::update returns a template of the same length that covers what the
\* old one covered and the incoming log.
LEMMA UpdateCovers ==
  ASSUME NEW template \in Seq(Tokens), NEW count \in Nat,
         NEW tokens \in Seq(Tokens), Len(template) = Len(tokens)
  PROVE  LET new == Update([template_tokens |-> template, count |-> count], tokens)
         IN /\ new.template_tokens \in Seq(Tokens)
            /\ new.count = count + 1
            /\ Len(new.template_tokens) = Len(template)
            /\ \A i \in DOMAIN tokens :
                 /\ new.template_tokens[i] = Wild \/ new.template_tokens[i] = template[i]
                 /\ Covers(new.template_tokens[i], tokens[i])
                 /\ template[i] = Wild => new.template_tokens[i] = Wild
<1> DEFINE new == Update([template_tokens |-> template, count |-> count], tokens)
<1>1. new.template_tokens = [i \in DOMAIN template |->
          IF Covers(template[i], tokens[i]) THEN template[i] ELSE Wild]
  BY DEF Update
<1>2. new.count = count + 1
  BY DEF Update
<1>3. DOMAIN template = 1..Len(template) /\ DOMAIN tokens = 1..Len(template) /\ Len(template) \in Nat
  OBVIOUS
<1>4. \A i \in 1..Len(template) : template[i] \in Tokens
  OBVIOUS
<1> HIDE DEF new
<1>5. Wild \in Tokens
  BY DrainAssumption
<1>6. new.template_tokens \in [1..Len(template) -> Tokens]
  BY <1>1, <1>3, <1>4, <1>5
<1>7. new.template_tokens \in Seq(Tokens) /\ Len(new.template_tokens) = Len(template)
  BY <1>3, <1>6
<1>8. \A i \in DOMAIN tokens :
                 /\ new.template_tokens[i] = Wild \/ new.template_tokens[i] = template[i]
                 /\ Covers(new.template_tokens[i], tokens[i])
                 /\ template[i] = Wild => new.template_tokens[i] = Wild
  BY <1>1, <1>3 DEF Covers
<1> QED
  BY <1>2, <1>7, <1>8 DEF new

\* add_log on a log that joins a cluster.
LEMMA JoinIInv ==
  ASSUME IInv, NEW tokens \in Seq(Tokens), NEW fast \in BOOLEAN,
         find_best_match(tokens) # 0, Join(find_best_match(tokens), tokens, fast),
         total_logs_processed' = total_logs_processed + 1
  PROVE  IInv'
<1> DEFINE id       == find_best_match(tokens)
           template == clusters[id].template_tokens
           new      == Update(clusters[id], tokens)
<1>1. /\ id \in DOMAIN clusters
      /\ Len(template) = Len(tokens)
      /\ \A i \in DOMAIN tokens : AnchorsAgree(template[i], tokens[i])
  BY BestMatch
<1>2. /\ clusters' = [clusters EXCEPT ![id] = new]
      /\ members' = [members EXCEPT ![id] = members[id] \cup {tokens}]
      /\ surges' = surges \/ surges' = [surges EXCEPT ![id] = surges[id] + 1]
      /\ next_cluster_id' = next_cluster_id
  BY DEF Join
<1> HIDE DEF id
<1>3. TypeOK /\ TemplateCovers /\ ActionInviolability
  BY DEF IInv
<1>4. /\ DOMAIN clusters = 1..(next_cluster_id - 1)
      /\ clusters[id] \in [template_tokens : Seq(Tokens), count : Nat \ {0}]
      /\ clusters[id] = [template_tokens |-> template, count |-> clusters[id].count]
      /\ template \in Seq(Tokens) /\ clusters[id].count \in Nat
  BY <1>1, <1>3 DEF TypeOK
<1>5. /\ new.template_tokens \in Seq(Tokens)
      /\ new.count = clusters[id].count + 1
      /\ Len(new.template_tokens) = Len(template)
      /\ \A i \in DOMAIN tokens :
           /\ new.template_tokens[i] = Wild \/ new.template_tokens[i] = template[i]
           /\ Covers(new.template_tokens[i], tokens[i])
           /\ template[i] = Wild => new.template_tokens[i] = Wild
  BY <1>1, <1>4, UpdateCovers
<1>6. new \in [template_tokens : Seq(Tokens), count : Nat \ {0}]
  <2>1. new = [template_tokens |-> new.template_tokens, count |-> new.count]
    BY DEF Update
  <2>2. new.count \in Nat \ {0}
    BY <1>4, <1>5
  <2> QED
    BY <1>5, <2>1, <2>2
<1> HIDE DEF new
<1>7. TypeOK'
  <2>1. clusters' \in [1..(next_cluster_id - 1) -> [template_tokens : Seq(Tokens), count : Nat \ {0}]]
    BY <1>2, <1>3, <1>6 DEF TypeOK
  <2>2. members' \in [1..(next_cluster_id - 1) -> SUBSET Seq(Tokens)]
    BY <1>1, <1>2, <1>3, <1>4 DEF TypeOK
  <2>3. surges' \in [1..(next_cluster_id - 1) -> Nat]
    <3>1. surges \in [1..(next_cluster_id - 1) -> Nat] /\ surges[id] + 1 \in Nat
      BY <1>1, <1>3, <1>4 DEF TypeOK
    <3>2. CASE surges' = surges
      BY <3>1, <3>2
    <3>3. CASE surges' = [surges EXCEPT ![id] = surges[id] + 1]
      BY <3>1, <3>3
    <3> QED
      BY <1>2, <3>2, <3>3
  <2>4. next_cluster_id' \in Nat \ {0} /\ total_logs_processed' \in Nat
    BY <1>2, <1>3 DEF TypeOK
  <2> QED
    BY <1>2, <2>1, <2>2, <2>3, <2>4 DEF TypeOK
<1>8. \A m \in members[id] : /\ Len(template) = Len(m)
                             /\ m \in Seq(Tokens)
                             /\ \A i \in DOMAIN m : Covers(template[i], m[i])
  BY <1>1, <1>3, <1>4 DEF TypeOK, TemplateCovers
<1>9. /\ DOMAIN clusters' = DOMAIN clusters
      /\ clusters'[id] = new
      /\ members'[id] = members[id] \cup {tokens}
      /\ \A c \in DOMAIN clusters \ {id} :
           clusters'[c] = clusters[c] /\ members'[c] = members[c]
  BY <1>1, <1>2, <1>3, <1>4 DEF TypeOK
<1>10. TemplateCovers'
  <2> SUFFICES ASSUME NEW c \in DOMAIN clusters, NEW m \in members'[c]
               PROVE  /\ Len(clusters'[c].template_tokens) = Len(m)
                      /\ \A i \in DOMAIN m : Covers(clusters'[c].template_tokens[i], m[i])
    BY <1>9 DEF TemplateCovers
  <2>1. CASE c # id
    BY <1>3, <1>9, <2>1 DEF TemplateCovers
  <2>2. CASE c = id /\ m = tokens
    BY <1>1, <1>5, <1>9, <2>2
  <2>3. CASE c = id /\ m \in members[id]
    <3>1. Len(template) = Len(m) /\ DOMAIN m = DOMAIN tokens
      BY <1>1, <1>8, <2>3
    <3>2. \A i \in DOMAIN m : Covers(new.template_tokens[i], m[i])
      BY <1>5, <1>8, <2>3, <3>1 DEF Covers
    <3> QED
      BY <1>5, <1>9, <2>3, <3>1, <3>2
  <2> QED
    BY <1>9, <2>1, <2>2, <2>3
<1>11. \A m \in members[id] : \A i \in DOMAIN m :
          IsAnchor(m[i]) /\ IsAnchor(tokens[i]) =>
            to_ascii_uppercase[m[i]] = to_ascii_uppercase[tokens[i]]
  <2> SUFFICES ASSUME NEW m \in members[id], NEW i \in DOMAIN m,
                      IsAnchor(m[i]), IsAnchor(tokens[i])
               PROVE  to_ascii_uppercase[m[i]] = to_ascii_uppercase[tokens[i]]
    OBVIOUS
  <2>1. i \in DOMAIN tokens /\ Covers(template[i], m[i])
    BY <1>1, <1>8
  <2>2. to_ascii_uppercase[template[i]] = to_ascii_uppercase[tokens[i]]
    BY <1>1, <2>1 DEF AnchorsAgree
  <2>3. template[i] # Wild
    BY <2>2, DrainAssumption DEF IsAnchor
  <2> QED
    BY <2>1, <2>2, <2>3 DEF Covers
<1>12. ActionInviolability'
  <2> SUFFICES ASSUME NEW c \in DOMAIN clusters, NEW m \in members'[c], NEW n \in members'[c],
                      NEW i \in DOMAIN m \cap DOMAIN n, IsAnchor(m[i]), IsAnchor(n[i])
               PROVE  to_ascii_uppercase[m[i]] = to_ascii_uppercase[n[i]]
    BY <1>9 DEF ActionInviolability, IsAnchor
  <2>1. CASE c # id
    BY <1>3, <1>9, <2>1 DEF ActionInviolability
  <2>2. CASE c = id /\ m \in members[id] /\ n \in members[id]
    BY <1>1, <1>3, <2>2 DEF ActionInviolability
  <2>3. CASE c = id /\ m \in members[id] /\ n = tokens
    BY <1>11, <2>3
  <2>4. CASE c = id /\ m = tokens /\ n \in members[id]
    BY <1>11, <2>4
  <2>5. CASE c = id /\ m = tokens /\ n = tokens
    BY <2>5
  <2> QED
    BY <1>9, <2>1, <2>2, <2>3, <2>4, <2>5
<1> QED
  BY <1>7, <1>10, <1>12 DEF IInv

\* add_log on a log that founds a cluster.
LEMMA FoundIInv ==
  ASSUME IInv, NEW tokens \in Seq(Tokens), Found(tokens),
         total_logs_processed' = total_logs_processed + 1
  PROVE  IInv'
<1> DEFINE id == next_cluster_id
<1>1. TypeOK /\ TemplateCovers /\ ActionInviolability
  BY DEF IInv
<1>2. /\ clusters' = Extend(clusters, id, NewCluster(tokens))
      /\ members' = Extend(members, id, {tokens})
      /\ surges' = Extend(surges, id, 0)
      /\ next_cluster_id' = id + 1
  BY DEF Found
<1>3. id \in Nat \ {0} /\ 1..(next_cluster_id' - 1) = 1..(id - 1) \cup {id} /\ id \notin 1..(id - 1)
  BY <1>1, <1>2 DEF TypeOK
<1>4. NewCluster(tokens) \in [template_tokens : Seq(Tokens), count : Nat \ {0}]
  BY DEF NewCluster
<1>5. /\ DOMAIN clusters = 1..(id - 1)
      /\ DOMAIN members = 1..(id - 1)
      /\ DOMAIN surges = 1..(id - 1)
  BY <1>1 DEF TypeOK
<1>6. /\ DOMAIN clusters' = 1..(id - 1) \cup {id}
      /\ clusters'[id] = NewCluster(tokens)
      /\ members'[id] = {tokens}
      /\ \A c \in 1..(id - 1) : clusters'[c] = clusters[c] /\ members'[c] = members[c]
  BY <1>2, <1>3, <1>5 DEF Extend
<1>7. TypeOK'
  <2>1. clusters' \in [1..(next_cluster_id' - 1) -> [template_tokens : Seq(Tokens), count : Nat \ {0}]]
    BY <1>1, <1>2, <1>3, <1>4, <1>5 DEF TypeOK, Extend
  <2>2. members' \in [1..(next_cluster_id' - 1) -> SUBSET Seq(Tokens)]
    BY <1>1, <1>2, <1>3, <1>5 DEF TypeOK, Extend
  <2>3. surges' \in [1..(next_cluster_id' - 1) -> Nat]
    BY <1>1, <1>2, <1>3, <1>5 DEF TypeOK, Extend
  <2>4. next_cluster_id' \in Nat \ {0} /\ total_logs_processed' \in Nat
    BY <1>1, <1>2, <1>3 DEF TypeOK
  <2> QED
    BY <2>1, <2>2, <2>3, <2>4 DEF TypeOK
<1>8. TemplateCovers'
  <2> SUFFICES ASSUME NEW c \in 1..(id - 1) \cup {id}, NEW m \in members'[c]
               PROVE  /\ Len(clusters'[c].template_tokens) = Len(m)
                      /\ \A i \in DOMAIN m : Covers(clusters'[c].template_tokens[i], m[i])
    BY <1>6 DEF TemplateCovers
  <2>1. CASE c = id
    BY <1>6, <2>1 DEF NewCluster, Covers
  <2>2. CASE c \in 1..(id - 1)
    BY <1>1, <1>5, <1>6, <2>2 DEF TemplateCovers
  <2> QED
    BY <2>1, <2>2
<1>9. ActionInviolability'
  <2> SUFFICES ASSUME NEW c \in 1..(id - 1) \cup {id},
                      NEW m \in members'[c], NEW n \in members'[c],
                      NEW i \in DOMAIN m \cap DOMAIN n, IsAnchor(m[i]), IsAnchor(n[i])
               PROVE  to_ascii_uppercase[m[i]] = to_ascii_uppercase[n[i]]
    BY <1>6 DEF ActionInviolability, IsAnchor
  <2>1. CASE c = id
    BY <1>6, <2>1
  <2>2. CASE c \in 1..(id - 1)
    BY <1>1, <1>5, <1>6, <2>2 DEF ActionInviolability
  <2> QED
    BY <2>1, <2>2
<1> QED
  BY <1>7, <1>8, <1>9 DEF IInv

\* Every call of add_log preserves the invariant.
LEMMA StepIInv == IInv /\ [Next]_vars => IInv'
<1> SUFFICES ASSUME IInv, [Next]_vars PROVE IInv'
  OBVIOUS
<1>1. CASE UNCHANGED vars
  BY <1>1 DEF vars, IInv, TypeOK, TemplateCovers, ActionInviolability
<1>2. ASSUME NEW raw \in Logs, NEW fast \in BOOLEAN, add_log(raw, fast) PROVE IInv'
  <2> DEFINE tokens == mask(raw)
  <2>1. tokens \in Seq(Tokens)
    BY MaskTyped
  <2>2. total_logs_processed' = total_logs_processed + 1
    BY <1>2 DEF add_log
  <2>3. CASE Blank
    BY <2>2, <2>3 DEF Blank, IInv, TypeOK, TemplateCovers, ActionInviolability
  <2>4. CASE find_best_match(tokens) # 0 /\ Join(find_best_match(tokens), tokens, fast)
    <3> HIDE DEF tokens
    <3> QED
      BY <2>1, <2>2, <2>4, JoinIInv
  <2>5. CASE Found(tokens)
    <3> HIDE DEF tokens
    <3> QED
      BY <2>1, <2>2, <2>5, FoundIInv
  <2> QED
    BY <1>2, <2>3, <2>4, <2>5 DEF add_log
<1> QED
  BY <1>1, <1>2 DEF Next

\* The inductive invariant holds in every state of the miner.
THEOREM Invariance == Spec => []IInv
  BY InitIInv, StepIInv, PTL DEF Spec

\* The alert keeps the account of alerts: it is raised when the count passes the
\* threshold, which a count does once.
LEMMA JoinSurgeOnce ==
  ASSUME TypeOK, SurgeOnce, NEW id \in DOMAIN clusters, NEW tokens, NEW fast \in BOOLEAN,
         Join(id, tokens, fast)
  PROVE  SurgeOnce'
<1> DEFINE before == clusters[id].count
<1>1. /\ DOMAIN clusters = 1..(next_cluster_id - 1)
      /\ DOMAIN surges = 1..(next_cluster_id - 1)
      /\ surges[id] \in Nat /\ before \in Nat
  BY DEF TypeOK
<1>2. /\ clusters' = [clusters EXCEPT ![id] = Update(clusters[id], tokens)]
      /\ surges' = IF Surge(before, fast)
                     THEN [surges EXCEPT ![id] = surges[id] + 1] ELSE surges
  BY DEF Join
<1>3. Update(clusters[id], tokens).count = before + 1
  BY DEF Update
<1>4. /\ clusters'[id].count = before + 1
      /\ \A c \in DOMAIN surges \ {id} : clusters'[c] = clusters[c]
  BY <1>1, <1>2, <1>3
<1>5. /\ DOMAIN surges' = DOMAIN surges
      /\ \A c \in DOMAIN surges \ {id} : surges'[c] = surges[c]
      /\ surges'[id] = IF Surge(before, fast) THEN surges[id] + 1 ELSE surges[id]
  BY <1>1, <1>2
<1>6. surges[id] <= 1 /\ (surges[id] = 1 => before > rare_count_threshold)
  BY <1>1 DEF SurgeOnce
<1> HIDE DEF before
<1>7. rare_count_threshold \in Nat
  BY DrainAssumption
<1>8. surges'[id] <= 1 /\ (surges'[id] = 1 => before + 1 > rare_count_threshold)
  <2>1. CASE Surge(before, fast)
    <3>1. before <= rare_count_threshold /\ before + 1 > rare_count_threshold
      BY <2>1 DEF Surge
    <3>2. surges[id] = 0
      BY <1>1, <1>6, <1>7, <3>1
    <3> QED
      BY <1>5, <2>1, <3>1, <3>2
  <2>2. CASE ~Surge(before, fast)
    BY <1>1, <1>5, <1>6, <1>7, <2>2
  <2> QED
    BY <2>1, <2>2
<1>9. ASSUME NEW c \in DOMAIN surges \ {id}
      PROVE  surges'[c] <= 1 /\ (surges'[c] = 1 => clusters'[c].count > rare_count_threshold)
  BY <1>4, <1>5, <1>9 DEF SurgeOnce
<1> QED
  BY <1>4, <1>5, <1>8, <1>9 DEF SurgeOnce

\* A new cluster has raised nothing, and the others are left alone.
LEMMA FoundSurgeOnce ==
  ASSUME TypeOK, SurgeOnce, NEW tokens, Found(tokens)
  PROVE  SurgeOnce'
<1> DEFINE id == next_cluster_id
<1>1. id \in Nat \ {0} /\ DOMAIN clusters = 1..(id - 1) /\ DOMAIN surges = 1..(id - 1)
  BY DEF TypeOK
<1>2. /\ clusters' = Extend(clusters, id, NewCluster(tokens))
      /\ surges' = Extend(surges, id, 0)
  BY DEF Found
<1>3. /\ DOMAIN surges' = DOMAIN surges \cup {id}
      /\ surges'[id] = 0
      /\ \A c \in DOMAIN surges : surges'[c] = surges[c] /\ clusters'[c] = clusters[c]
  BY <1>1, <1>2 DEF Extend
<1> QED
  BY <1>3 DEF SurgeOnce

\* Cluster ids run from 1 without gaps and templates are token sequences.
THEOREM TypeCorrect == Spec => []TypeOK
<1>1. IInv => TypeOK
  BY DEF IInv
<1> QED
  BY <1>1, Invariance, PTL

\* What module Pipeline takes the miner for: a call finds a cluster that was founded
\* before, if the log has tokens, or it founds one under the next id.
Matched(raw) ==
  /\ raw = <<>> \/ next_cluster_id > 1
  /\ next_cluster_id' = next_cluster_id /\ DOMAIN clusters' = DOMAIN clusters

Founded(raw) ==
  /\ raw # <<>>
  /\ next_cluster_id \notin DOMAIN clusters
  /\ next_cluster_id' = next_cluster_id + 1
  /\ DOMAIN clusters' = DOMAIN clusters \cup {next_cluster_id}

\* Every call of add_log does one or the other: the pipeline's abstraction of its miner
\* leaves nothing out (pipeline.rs, process, tier 2).
THEOREM MinerForPipeline ==
  Spec => [][\A raw \in Logs, fast \in BOOLEAN :
                add_log(raw, fast) => Matched(raw) \/ Founded(raw)]_vars
<1>1. IInv => [\A raw \in Logs, fast \in BOOLEAN :
                 add_log(raw, fast) => Matched(raw) \/ Founded(raw)]_vars
  <2> SUFFICES ASSUME IInv, NEW raw \in Logs, NEW fast \in BOOLEAN, add_log(raw, fast)
               PROVE  Matched(raw) \/ Founded(raw)
    OBVIOUS
  <2>1. DOMAIN clusters = 1..(next_cluster_id - 1) /\ next_cluster_id \in Nat \ {0}
    BY DEF IInv, TypeOK
  <2>2. mask(raw) \in Seq(Tokens) /\ raw \in Seq(Tokens) /\ DOMAIN mask(raw) = DOMAIN raw
    BY MaskTyped, DrainAssumption DEF mask
  <2>3. mask(raw) = <<>> <=> raw = <<>>
    BY <2>2
  <2> DEFINE tokens == mask(raw)
             id     == find_best_match(tokens)
  <2>4. CASE tokens = <<>> /\ Blank
    BY <2>3, <2>4 DEF Blank, Matched
  <2>5. CASE tokens # <<>> /\ id # 0 /\ Join(id, tokens, fast)
    <3>1. id \in 1..(next_cluster_id - 1)
      BY <2>1, <2>2, <2>5, BestMatch
    <3>2. DOMAIN clusters' = DOMAIN clusters /\ next_cluster_id' = next_cluster_id
      BY <2>5 DEF Join
    <3> HIDE DEF id
    <3> QED
      BY <2>1, <3>1, <3>2 DEF Matched
  <2>6. CASE tokens # <<>> /\ Found(tokens)
    <3>1. raw # <<>> /\ next_cluster_id \notin DOMAIN clusters
      BY <2>1, <2>3, <2>6
    <3>2. DOMAIN clusters' = DOMAIN clusters \cup {next_cluster_id}
          /\ next_cluster_id' = next_cluster_id + 1
      BY <2>6 DEF Found, Extend
    <3> QED
      BY <3>1, <3>2 DEF Founded
  <2> QED
    BY <2>4, <2>5, <2>6 DEF add_log
<1> QED
  BY <1>1, Invariance, PTL DEF Spec

\* For every configuration of the miner: a template describes every log that
\* add_log ever put into its cluster.
THEOREM TemplateCoversAlways == Spec => []TemplateCovers
<1>1. IInv => TemplateCovers
  BY DEF IInv
<1> QED
  BY <1>1, Invariance, PTL

\* For every configuration of the miner: no cluster ever holds two logs with
\* different anchors (ALLOW and DENY) at the same position.
THEOREM ActionInviolabilityAlways == Spec => []ActionInviolability
<1>1. IInv => ActionInviolability
  BY DEF IInv
<1> QED
  BY <1>1, Invariance, PTL

\* For every configuration of the miner and every course of rates: a cluster raises
\* RareClusterSurge at most once, and not while it is rare.
THEOREM SurgeOnceAlways == Spec => []SurgeOnce
<1>1. Init => SurgeOnce
  BY DEF Init, SurgeOnce
<1>2. IInv /\ SurgeOnce /\ [Next]_vars => SurgeOnce'
  <2> SUFFICES ASSUME IInv, SurgeOnce, [Next]_vars PROVE SurgeOnce'
    OBVIOUS
  <2>1. TypeOK
    BY DEF IInv
  <2>2. CASE UNCHANGED vars
    BY <2>2 DEF vars, SurgeOnce
  <2>3. ASSUME NEW raw \in Logs, NEW fast \in BOOLEAN, add_log(raw, fast) PROVE SurgeOnce'
    <3> DEFINE tokens == mask(raw)
               id     == find_best_match(tokens)
    <3>1. tokens \in Seq(Tokens)
      BY MaskTyped
    <3>2. CASE Blank
      BY <3>2 DEF Blank, SurgeOnce
    <3>3. CASE id # 0 /\ Join(id, tokens, fast)
      <4>1. id \in DOMAIN clusters
        BY <3>1, <3>3, BestMatch
      <4> HIDE DEF id, tokens
      <4> QED
        BY <2>1, <3>3, <4>1, JoinSurgeOnce
    <3>4. CASE Found(tokens)
      <4> HIDE DEF tokens
      <4> QED
        BY <2>1, <3>4, FoundSurgeOnce
    <3> QED
      BY <2>3, <3>2, <3>3, <3>4 DEF add_log
  <2> QED
    BY <2>2, <2>3 DEF Next
<1> QED
  BY <1>1, <1>2, Invariance, PTL DEF Spec

-----------------------------------------------------------------------------
(* The prefix tree.  Claims about every level of a walk are shown for the  *)
(* least one at which they would fail.                                     *)

\* Among the numbers for which something fails there is a least one.
LEMMA LeastMember ==
  ASSUME NEW S, S \subseteq Nat, S # {}
  PROVE  \E p \in S : \A q \in S : p <= q
<1> DEFINE below == {1..n : n \in S}
<1>1. below \subseteq FiniteSubsetsOf(Nat) /\ below # {}
  <2>1. \A n \in S : n \in Int /\ IsFiniteSet(1..n)
    BY FS_Interval
  <2>2. \A n \in S : 1..n \in FiniteSubsetsOf(Nat)
    BY <2>1 DEF FiniteSubsetsOf
  <2> QED
    BY <2>2
<1>2. PICK b \in below : \A c \in below : ~(<<c, b>> \in StrictSubsetOrdering(Nat))
  BY <1>1, FS_StrictSubsetOrderingWellFounded, WFMin
<1>3. PICK p \in S : b = 1..p
  BY <1>2
<1>4. \A q \in S : p <= q
  <2> SUFFICES ASSUME NEW q \in S, q < p PROVE FALSE
    OBVIOUS
  <2>1. 1..q \in SUBSET Nat /\ 1..p \in SUBSET Nat /\ 1..q \subseteq 1..p
    OBVIOUS
  <2>2. p \in 1..p /\ p \notin 1..q
    OBVIOUS
  <2>3. <<1..q, 1..p>> \in StrictSubsetOrdering(Nat)
    BY <2>1, <2>2 DEF StrictSubsetOrdering
  <2> QED
    BY <1>2, <1>3, <2>3
<1> QED
  BY <1>4

\* One level of the walk of insert_to_tree, or of the one of find_best_match.
Step(searching, tokens, f, i) ==
  IF searching
    THEN IF i = 0 THEN IF <<Len(tokens)>> \in DOMAIN tree THEN <<Len(tokens)>> ELSE <<>>
                  ELSE Descend(f[i - 1], tokens[i])
    ELSE IF i = 0 THEN <<Len(tokens)>> ELSE Append(f[i - 1], InsertKey(f[i - 1], tokens[i]))

\* Both walks are defined at every level.
LEMMA WalkExists ==
  ASSUME NEW searching \in BOOLEAN, NEW tokens, NEW n \in Nat
  PROVE  \E f : f = [i \in 0..n |-> Step(searching, tokens, f, i)]
<1> DEFINE Works(k) == \E f : f = [i \in 0..k |-> Step(searching, tokens, f, i)]
           bad == {k \in Nat : ~Works(k)}
<1>1. Works(0)
  <2> DEFINE f == [i \in 0..0 |-> Step(searching, tokens, <<>>, 0)]
  <2>1. f = [i \in 0..0 |-> Step(searching, tokens, f, i)]
    BY DEF Step
  <2> QED
    BY <2>1
<1>2. ASSUME NEW k \in Nat \ {0}, Works(k - 1) PROVE Works(k)
  <2>1. PICK g : g = [i \in 0..(k - 1) |-> Step(searching, tokens, g, i)]
    BY <1>2
  <2> DEFINE last == Step(searching, tokens, g, k)
             f == [i \in 0..k |-> IF i = k THEN last ELSE g[i]]
  <2>2. f = [i \in 0..k |-> IF i = k THEN last ELSE g[i]]
    OBVIOUS
  <2>3. f[k] = last /\ \A i \in 0..(k - 1) : f[i] = g[i]
    OBVIOUS
  <2> HIDE DEF f
  <2>4. ASSUME NEW i \in 0..k PROVE f[i] = Step(searching, tokens, f, i)
    <3>1. CASE i = k
      <4>1. k - 1 \in 0..(k - 1) /\ i # 0
        BY <3>1
      <4> QED
        BY <2>3, <3>1, <4>1 DEF Step
    <3>2. CASE i \in 0..(k - 1)
      <4>1. g[i] = Step(searching, tokens, g, i)
        BY <2>1, <3>2
      <4>2. i # 0 => i - 1 \in 0..(k - 1)
        BY <3>2
      <4> QED
        BY <2>3, <3>2, <4>1, <4>2 DEF Step
    <3> QED
      BY <3>1, <3>2
  <2>5. f = [i \in 0..k |-> Step(searching, tokens, f, i)]
    BY <2>2, <2>4
  <2> QED
    BY <2>5
<1> HIDE DEF Works
<1>3. SUFFICES ASSUME ~Works(n) PROVE FALSE
  BY DEF Works
<1>4. PICK k \in bad : \A q \in bad : k <= q
  <2>1. bad \subseteq Nat /\ n \in bad
    BY <1>3
  <2> HIDE DEF bad
  <2> QED
    BY <2>1, LeastMember
<1>5. k \in Nat \ {0} /\ ~Works(k)
  BY <1>1
<1>6. k - 1 \in bad
  BY <1>2, <1>5
<1> HIDE DEF bad
<1> QED
  BY <1>4, <1>5, <1>6

Keys == Nat \cup Tokens \cup {Star}

\* The node is on a way that the first n of the tokens may go: each by its own key, or
\* by "*".
OnWay(node, tokens, n) ==
  /\ node \in Seq(Keys) /\ Len(node) = 1 + n /\ node[1] = Len(tokens)
  /\ \A i \in 1..n : node[i + 1] \in {Star, SearchKey(tokens[i])}

LEMMA OnWayFirst ==
  ASSUME NEW tokens \in Seq(Tokens)
  PROVE  OnWay(<<Len(tokens)>>, tokens, 0)
<1>1. Len(tokens) \in Keys
  BY DEF Keys
<1> HIDE DEF Keys
<1>2. ASSUME NEW x \in Keys PROVE <<x>> \in Seq(Keys) /\ Len(<<x>>) = 1 /\ <<x>>[1] = x
  OBVIOUS
<1> QED
  BY <1>1, <1>2 DEF OnWay

LEMMA OnWayNext ==
  ASSUME NEW tokens \in Seq(Tokens), NEW k \in 1..Len(tokens), NEW node,
         OnWay(node, tokens, k - 1), NEW key \in {Star, SearchKey(tokens[k])}
  PROVE  OnWay(Append(node, key), tokens, k)
<1>1. k \in Nat \ {0} /\ tokens[k] \in Tokens
  OBVIOUS
<1>2. key \in Keys
  BY <1>1 DEF Keys, SearchKey
<1>3. node \in Seq(Keys) /\ Len(node) = k /\ node[1] = Len(tokens)
      /\ \A i \in 1..(k - 1) : node[i + 1] \in {Star, SearchKey(tokens[i])}
  BY <1>1 DEF OnWay
<1> HIDE DEF Keys
<1>4. /\ Append(node, key) \in Seq(Keys) /\ Len(Append(node, key)) = k + 1
      /\ \A i \in 1..k : Append(node, key)[i] = node[i]
      /\ Append(node, key)[k + 1] = key
  BY <1>2, <1>3, AppendProperties
<1>5. ASSUME NEW i \in 1..k PROVE Append(node, key)[i + 1] \in {Star, SearchKey(tokens[i])}
  <2>1. CASE i = k
    BY <1>4, <2>1
  <2>2. CASE i \in 1..(k - 1)
    <3>1. i + 1 \in 1..k
      BY <1>1, <2>2
    <3> QED
      BY <1>3, <1>4, <2>2, <3>1
  <2>3. i = k \/ i \in 1..(k - 1)
    BY <1>1
  <2> QED
    BY <2>1, <2>2, <2>3
<1> QED
  BY <1>1, <1>3, <1>4, <1>5 DEF OnWay

\* Neither walk leaves the way of the tokens, but that a search may end.
LEMMA WalkOnWay ==
  ASSUME NEW tokens \in Seq(Tokens), NEW searching \in BOOLEAN, NEW walk,
         NEW n \in 0..Len(tokens), \A i \in 0..n : walk[i] = Step(searching, tokens, walk, i)
  PROVE  OnWay(walk[n], tokens, n) \/ (searching /\ walk[n] = <<>>)
<1> DEFINE Good(i) == OnWay(walk[i], tokens, i) \/ (searching /\ walk[i] = <<>>)
           bad == {i \in 0..n : ~Good(i)}
<1>1. SUFFICES ASSUME bad # {} PROVE FALSE
  BY n \in 0..n
<1>2. PICK k \in bad : \A q \in bad : k <= q
  <2>1. bad \subseteq Nat
    OBVIOUS
  <2> HIDE DEF bad
  <2> QED
    BY <1>1, <2>1, LeastMember
<1>3. k \in 0..n /\ ~Good(k) /\ walk[k] = Step(searching, tokens, walk, k)
  OBVIOUS
<1>4. k # 0
  BY <1>3, OnWayFirst DEF Step
<1>5. k - 1 \in 0..n /\ k - 1 \notin bad /\ k \in 1..Len(tokens)
  BY <1>2, <1>3, <1>4
<1>6. Good(k - 1)
  BY <1>5
<1> DEFINE up == walk[k - 1]
<1>7. CASE ~searching
  <2>1. walk[k] = Append(up, InsertKey(up, tokens[k])) /\ OnWay(up, tokens, k - 1)
    BY <1>3, <1>4, <1>6, <1>7 DEF Step
  <2>2. InsertKey(up, tokens[k]) \in {Star, SearchKey(tokens[k])}
    BY DEF InsertKey, SearchKey
  <2> QED
    BY <1>3, <1>5, <2>1, <2>2, OnWayNext
<1>8. CASE searching
  <2>1. walk[k] = Descend(up, tokens[k])
    BY <1>3, <1>4, <1>8 DEF Step
  <2>2. PICK key \in {Star, SearchKey(tokens[k])} : walk[k] = Append(up, key) /\ up # <<>>
    BY <1>3, <1>8, <2>1 DEF Descend
  <2>3. OnWay(up, tokens, k - 1)
    BY <1>6, <2>2
  <2> QED
    BY <1>3, <1>5, <2>2, <2>3, OnWayNext
<1> QED
  BY <1>7, <1>8

\* The leaf a new cluster is filed at: under the number of its tokens, at the depth
\* the search stops at.
LEMMA LeafOfTokens ==
  ASSUME NEW tokens \in Seq(Tokens)
  PROVE  OnWay(InsertLeaf(tokens), tokens, PrefixDepth(tokens))
<1> DEFINE n == PrefixDepth(tokens)
           walk == CHOOSE f : f = [i \in 0..n |->
                     IF i = 0 THEN <<Len(tokens)>>
                     ELSE Append(f[i - 1], InsertKey(f[i - 1], tokens[i]))]
<1>1. InsertLeaf(tokens) = walk[n]
  BY DEF InsertLeaf
<1>2. n \in 0..Len(tokens)
  BY DrainAssumption DEF PrefixDepth
<1>3. walk = [i \in 0..n |-> Step(FALSE, tokens, walk, i)]
  <2>1. PICK g : g = [i \in 0..n |-> Step(FALSE, tokens, g, i)]
    <3> HIDE DEF n
    <3>1. FALSE \in BOOLEAN /\ n \in Nat
      BY <1>2
    <3> QED
      BY <3>1, WalkExists
  <2> QED
    BY <2>1 DEF Step
<1> HIDE DEF n, walk
<1>4. \A i \in 0..n : walk[i] = Step(FALSE, tokens, walk, i)
  BY <1>3
<1>5. OnWay(walk[n], tokens, n)
  BY <1>2, <1>4, WalkOnWay
<1> QED
  BY <1>1, <1>5 DEF n

\* The walk of a search, and where it leads.
LEMMA SearchWalk ==
  ASSUME NEW tokens \in Seq(Tokens)
  PROVE  \E walk : /\ SearchLeaf(tokens) = walk[PrefixDepth(tokens)]
                   /\ \A i \in 0..PrefixDepth(tokens) : walk[i] = Step(TRUE, tokens, walk, i)
<1> DEFINE n == PrefixDepth(tokens)
           start == IF <<Len(tokens)>> \in DOMAIN tree THEN <<Len(tokens)>> ELSE <<>>
           walk == CHOOSE f : f = [i \in 0..n |->
                     IF i = 0 THEN start ELSE Descend(f[i - 1], tokens[i])]
<1>1. SearchLeaf(tokens) = walk[n]
  BY DEF SearchLeaf
<1>2. n \in Nat
  BY DrainAssumption DEF PrefixDepth
<1>3. walk = [i \in 0..n |-> Step(TRUE, tokens, walk, i)]
  <2>1. PICK g : g = [i \in 0..n |-> Step(TRUE, tokens, g, i)]
    <3> HIDE DEF n
    <3>1. TRUE \in BOOLEAN
      OBVIOUS
    <3> QED
      BY <1>2, <3>1, WalkExists
  <2> QED
    BY <2>1 DEF Step
<1> HIDE DEF n, walk
<1>4. \A i \in 0..n : walk[i] = Step(TRUE, tokens, walk, i)
  BY <1>3
<1> QED
  BY <1>1, <1>4 DEF n

\* What the nodes hold: ids that were given out.
TreeTyped == \A n \in DOMAIN tree : tree[n] \in Seq(1..(next_cluster_id - 1))

\* The cluster c is filed at leaf, once, and nowhere else.
FiledAt(c, leaf) ==
  /\ leaf \in DOMAIN tree \ {<<>>}
  /\ leaf[1] = Len(clusters[c].template_tokens)
  /\ Len(leaf) = 1 + PrefixDepth(clusters[c].template_tokens)
  /\ Cardinality({k \in DOMAIN tree[leaf] : tree[leaf][k] = c}) = 1
  /\ \A n \in DOMAIN tree \ {leaf} : \A k \in DOMAIN tree[n] : tree[n][k] # c

LEMMA FiledMeans ==
  /\ Filed <=> \A c \in DOMAIN clusters : \E leaf : FiledAt(c, leaf)
  /\ Filed' <=> \A c \in DOMAIN clusters' : \E leaf : FiledAt(c, leaf)'
<1>1. Filed <=> \A c \in DOMAIN clusters : \E leaf : FiledAt(c, leaf)
  BY DEF Filed, FiledAt
<1>2. Filed' <=> \A c \in DOMAIN clusters' : \E leaf : FiledAt(c, leaf)'
  BY DEF Filed, FiledAt
<1> QED
  BY <1>1, <1>2

\* A call that leaves tree and templates alone.
LEMMA SameFiled ==
  ASSUME TreeTyped, Filed, UNCHANGED <<tree, clusters, next_cluster_id>>
  PROVE  TreeTyped' /\ Filed'
<1>1. TreeTyped'
  BY DEF TreeTyped
<1>2. ASSUME NEW c, NEW l, FiledAt(c, l) PROVE FiledAt(c, l)'
  BY <1>2 DEF FiledAt, PrefixDepth
<1>3. \A c \in DOMAIN clusters : \E l : FiledAt(c, l)
  BY FiledMeans
<1>4. \A c \in DOMAIN clusters' : \E l : FiledAt(c, l)'
  BY <1>2, <1>3
<1> QED
  BY <1>1, <1>4, FiledMeans

\* A log that joins a cluster changes its template, but not how long it is.
LEMMA JoinFiled ==
  ASSUME TypeOK, Filed, NEW tokens \in Seq(Tokens), NEW fast \in BOOLEAN,
         find_best_match(tokens) # 0, Join(find_best_match(tokens), tokens, fast)
  PROVE  Filed'
<1> DEFINE id == find_best_match(tokens)
<1>1. id \in DOMAIN clusters /\ Len(clusters[id].template_tokens) = Len(tokens)
  BY BestMatch
<1>2. clusters' = [clusters EXCEPT ![id] = Update(clusters[id], tokens)] /\ tree' = tree
  BY DEF Join
<1> HIDE DEF id
<1>3. clusters[id].template_tokens \in Seq(Tokens) /\ clusters[id].count \in Nat
      /\ clusters[id] = [template_tokens |-> clusters[id].template_tokens,
                         count |-> clusters[id].count]
  BY <1>1 DEF TypeOK
<1>4. Len(Update(clusters[id], tokens).template_tokens) = Len(clusters[id].template_tokens)
  BY <1>1, <1>3, UpdateCovers
<1>5. DOMAIN clusters' = DOMAIN clusters
      /\ \A c \in DOMAIN clusters :
           Len(clusters'[c].template_tokens) = Len(clusters[c].template_tokens)
  BY <1>1, <1>2, <1>4 DEF TypeOK
<1>6. ASSUME NEW c \in DOMAIN clusters PROVE \E l : FiledAt(c, l)'
  <2>1. PICK l : FiledAt(c, l)
    BY DEF Filed, FiledAt
  <2>2. FiledAt(c, l)'
    BY <1>2, <1>5, <2>1 DEF FiledAt, PrefixDepth
  <2> QED
    BY <2>2
<1> QED
  BY <1>5, <1>6 DEF Filed, FiledAt

\* A new cluster is filed at the end of its walk, whatever was there.
LEMMA FoundFiled ==
  ASSUME TypeOK, TreeTyped, Filed, NEW tokens \in Seq(Tokens), Found(tokens)
  PROVE  TreeTyped' /\ Filed'
<1>0. PICK id, leaf : id = next_cluster_id /\ leaf = InsertLeaf(tokens)
  OBVIOUS
<1> DEFINE nodes == {SubSeq(leaf, 1, i) : i \in 1..Len(leaf)}
           Given == 1..(id - 1)
<1>1. /\ tree' = [n \in DOMAIN tree \cup nodes |->
                   IF n = leaf THEN Append(ClusterIds(n), id) ELSE ClusterIds(n)]
      /\ clusters' = Extend(clusters, id, NewCluster(tokens))
      /\ next_cluster_id' = id + 1
  BY <1>0 DEF Found, insert_to_tree
<1>2. id \in Nat \ {0} /\ DOMAIN clusters = Given
  BY <1>0 DEF TypeOK
<1>3. leaf \in Seq(Keys) /\ Len(leaf) = 1 + PrefixDepth(tokens) /\ leaf[1] = Len(tokens)
  BY <1>0, LeafOfTokens DEF OnWay
<1>4. PrefixDepth(tokens) \in Nat
  BY DrainAssumption DEF PrefixDepth
<1> HIDE DEF Keys
<1>5. leaf \in nodes /\ leaf # <<>>
  <2>1. Len(leaf) \in 1..Len(leaf) /\ leaf = SubSeq(leaf, 1, Len(leaf))
    BY <1>3, <1>4
  <2> QED
    BY <1>3, <1>4, <2>1
<1> HIDE DEF nodes
<1>6. ASSUME NEW n PROVE ClusterIds(n) \in Seq(Given)
  <2>1. CASE n \in DOMAIN tree
    BY <1>0, <2>1 DEF ClusterIds, TreeTyped
  <2>2. CASE n \notin DOMAIN tree
    BY <2>2 DEF ClusterIds
  <2> QED
    BY <2>1, <2>2
<1> DEFINE old == ClusterIds(leaf)
<1>7. old \in Seq(Given) /\ Len(old) \in Nat /\ DOMAIN old = 1..Len(old)
      /\ \A k \in 1..Len(old) : old[k] \in Given
  <2> HIDE DEF old, Given
  <2>1. old \in Seq(Given)
    BY <1>6 DEF old
  <2> QED
    BY <2>1
<1>8. /\ tree'[leaf] = Append(old, id)
      /\ DOMAIN tree' = DOMAIN tree \cup nodes /\ leaf \in DOMAIN tree'
      /\ \A n \in DOMAIN tree' \ {leaf} : tree'[n] = ClusterIds(n)
  BY <1>1, <1>5
<1> HIDE DEF old
<1>9. /\ DOMAIN tree'[leaf] = 1..(Len(old) + 1) /\ tree'[leaf][Len(old) + 1] = id
      /\ \A k \in 1..Len(old) : tree'[leaf][k] = old[k]
      /\ tree'[leaf] \in Seq(1..id)
  <2> DEFINE U == 1..id
  <2>1. \A k \in 1..Len(old) : old[k] \in U
    BY <1>2, <1>7
  <2>2. old \in Seq(U) /\ id \in U
    <3>1. old \in [1..Len(old) -> U]
      BY <1>7, <2>1
    <3> QED
      BY <1>2, <1>7, <3>1
  <2> HIDE DEF U
  <2>3. Append(old, id) \in Seq(U) /\ Len(Append(old, id)) = Len(old) + 1
        /\ Append(old, id)[Len(old) + 1] = id
        /\ \A k \in 1..Len(old) : Append(old, id)[k] = old[k]
    BY <1>7, <2>2, AppendProperties
  <2>4. DOMAIN Append(old, id) = 1..(Len(old) + 1)
    BY <2>3
  <2> QED
    BY <1>8, <2>3, <2>4 DEF U
<1>10. TreeTyped'
  <2> SUFFICES ASSUME NEW n \in DOMAIN tree' PROVE tree'[n] \in Seq(1..(next_cluster_id' - 1))
    BY DEF TreeTyped
  <2>1. next_cluster_id' - 1 = id
    BY <1>1, <1>2
  <2>2. CASE n = leaf
    BY <1>9, <2>1, <2>2
  <2>3. CASE n # leaf
    <3>1. ClusterIds(n) \in Seq(Given) /\ tree'[n] = ClusterIds(n)
      BY <1>6, <1>8, <2>3
    <3> DEFINE ids == ClusterIds(n)
               U == 1..id
    <3>2. Given \subseteq U
      BY <1>2
    <3> HIDE DEF ids, Given, U
    <3>3. ids \in Seq(Given)
      BY <3>1 DEF ids
    <3>4. ids \in Seq(U)
      <4>1. ids \in [1..Len(ids) -> U] /\ Len(ids) \in Nat
        BY <3>2, <3>3
      <4> QED
        BY <4>1
    <3> QED
      BY <2>1, <3>1, <3>4 DEF ids, U
  <2> QED
    BY <2>2, <2>3
<1>11. /\ DOMAIN clusters' = Given \cup {id} /\ id \notin Given
       /\ clusters'[id].template_tokens = tokens
       /\ \A c \in Given : clusters'[c] = clusters[c]
  BY <1>1, <1>2 DEF Extend, NewCluster
<1>12. ASSUME NEW n \in DOMAIN tree' \ {leaf}, NEW k \in DOMAIN tree'[n]
       PROVE  n \in DOMAIN tree /\ tree'[n] = tree[n] /\ tree[n][k] \in Given
  <2>1. tree'[n] = ClusterIds(n)
    BY <1>8
  <2>2. n \in DOMAIN tree
    BY <1>12, <2>1 DEF ClusterIds
  <2>3. tree'[n] = tree[n] /\ tree[n] \in Seq(Given)
    BY <1>0, <2>1, <2>2 DEF ClusterIds, TreeTyped
  <2> HIDE DEF Given
  <2> QED
    BY <1>12, <2>2, <2>3
<1>13. FiledAt(id, leaf)'
  <2>1. {k \in DOMAIN tree'[leaf] : tree'[leaf][k] = id} = {Len(old) + 1}
    <3>1. ASSUME NEW k \in DOMAIN tree'[leaf] PROVE tree'[leaf][k] = id <=> k = Len(old) + 1
      <4>1. k \in 1..Len(old) \/ k = Len(old) + 1
        BY <1>7, <1>9, <3>1
      <4>2. \A j \in 1..Len(old) : tree'[leaf][j] # id /\ j # Len(old) + 1
        BY <1>7, <1>9, <1>11
      <4> QED
        BY <1>9, <4>1, <4>2
    <3>2. Len(old) + 1 \in DOMAIN tree'[leaf]
      BY <1>7, <1>9
    <3> QED
      BY <3>1, <3>2
  <2>2. Cardinality({Len(old) + 1}) = 1
    BY FS_Singleton
  <2>3. \A n \in DOMAIN tree' \ {leaf} : \A k \in DOMAIN tree'[n] : tree'[n][k] # id
    BY <1>11, <1>12
  <2> QED
    BY <1>3, <1>5, <1>8, <1>11, <2>1, <2>2, <2>3 DEF FiledAt, PrefixDepth
<1>14. ASSUME NEW c \in Given PROVE \E l : FiledAt(c, l)'
  <2>1. PICK l \in DOMAIN tree \ {<<>>} : FiledAt(c, l)
    BY <1>2 DEF Filed, FiledAt
  <2>2. /\ l # <<>> /\ l \in DOMAIN tree' /\ c # id /\ c \in DOMAIN clusters'
        /\ clusters'[c] = clusters[c]
    BY <1>2, <1>8, <1>11, <2>1
  <2>3. Cardinality({k \in DOMAIN tree'[l] : tree'[l][k] = c}) = 1
    <3>1. CASE l = leaf
      <4>1. old = tree[l]
        BY <2>1, <3>1 DEF old, ClusterIds
      <4>2. {k \in DOMAIN tree'[l] : tree'[l][k] = c} = {k \in DOMAIN tree[l] : tree[l][k] = c}
        BY <1>7, <1>9, <2>2, <3>1, <4>1
      <4> QED
        BY <2>1, <4>2 DEF FiledAt
    <3>2. CASE l # leaf
      <4>1. tree'[l] = tree[l]
        BY <1>8, <2>1, <2>2, <3>2 DEF ClusterIds
      <4> QED
        BY <2>1, <4>1 DEF FiledAt
    <3> QED
      BY <3>1, <3>2
  <2>4. ASSUME NEW n \in DOMAIN tree' \ {l}, NEW k \in DOMAIN tree'[n] PROVE tree'[n][k] # c
    <3>1. CASE n = leaf
      <4>1. CASE leaf \in DOMAIN tree
        <5>1. old = tree[leaf] /\ \A j \in DOMAIN tree[leaf] : tree[leaf][j] # c
          BY <2>1, <2>4, <3>1, <4>1 DEF old, ClusterIds, FiledAt
        <5> QED
          BY <1>7, <1>9, <2>2, <2>4, <3>1, <5>1
      <4>2. CASE leaf \notin DOMAIN tree
        <5>1. Len(old) = 0
          BY <4>2 DEF old, ClusterIds
        <5> QED
          BY <1>9, <2>2, <2>4, <3>1, <5>1
      <4> QED
        BY <4>1, <4>2
    <3>2. CASE n # leaf
      <4>1. n \in DOMAIN tree /\ tree'[n] = tree[n]
        BY <1>12, <2>4, <3>2
      <4> QED
        BY <2>1, <2>4, <4>1 DEF FiledAt
    <3> QED
      BY <3>1, <3>2
  <2>5. FiledAt(c, l)'
    BY <2>1, <2>2, <2>3, <2>4 DEF FiledAt
  <2> QED
    BY <2>5
<1>15. ASSUME NEW c \in DOMAIN clusters' PROVE \E l : FiledAt(c, l)'
  <2>1. CASE c = id
    BY <1>13, <2>1
  <2>2. CASE c \in Given
    BY <1>14, <2>2
  <2> QED
    BY <1>11, <1>15, <2>1, <2>2
<1> QED
  BY <1>10, <1>15 DEF Filed, FiledAt

\* Every call of add_log leaves every cluster filed.
LEMMA StepFiled == IInv /\ TreeTyped /\ Filed /\ [Next]_vars => TreeTyped' /\ Filed'
<1> SUFFICES ASSUME IInv, TreeTyped, Filed, [Next]_vars PROVE TreeTyped' /\ Filed'
  OBVIOUS
<1>1. TypeOK
  BY DEF IInv
<1>2. CASE UNCHANGED vars
  BY <1>2, SameFiled DEF vars
<1>3. ASSUME NEW raw \in Logs, NEW fast \in BOOLEAN, add_log(raw, fast)
      PROVE  TreeTyped' /\ Filed'
  <2> DEFINE tokens == mask(raw)
             id     == find_best_match(tokens)
  <2>1. tokens \in Seq(Tokens)
    BY MaskTyped
  <2>2. CASE Blank
    BY <2>2, SameFiled DEF Blank
  <2>3. CASE id # 0 /\ Join(id, tokens, fast)
    <3>1. TreeTyped'
      BY <2>3 DEF Join, TreeTyped
    <3> HIDE DEF tokens
    <3>2. Filed'
      BY <1>1, <2>1, <2>3, JoinFiled
    <3> QED
      BY <3>1, <3>2
  <2>4. CASE Found(tokens)
    <3> HIDE DEF tokens
    <3> QED
      BY <1>1, <2>1, <2>4, FoundFiled
  <2> QED
    BY <1>3, <2>2, <2>3, <2>4 DEF add_log
<1> QED
  BY <1>2, <1>3 DEF Next

\* For every configuration of the miner: a cluster is filed at one leaf, once, under
\* the length of its template and at the depth a search stops at (insert_to_tree).
THEOREM FiledAlways == Spec => []Filed
<1>1. Init => TreeTyped /\ Filed
  BY DEF Init, TreeTyped, Filed
<1> QED
  BY <1>1, StepFiled, Invariance, PTL DEF Spec

-----------------------------------------------------------------------------
(* Logs that come again.                                                   *)

\* The cluster is at the end of a way that exists and that all its logs may go.
Way(c, leaf) ==
  /\ \E k \in DOMAIN tree[leaf] : tree[leaf][k] = c
  /\ \A i \in 1..Len(leaf) : SubSeq(leaf, 1, i) \in DOMAIN tree
  /\ \A m \in members[c] : m # <<>> /\ OnWay(leaf, m, PrefixDepth(m))

\* Where a template has "<*>", no other token is that of all the logs.
WildMeans(c) ==
  /\ members[c] # {}
  /\ \A i \in DOMAIN clusters[c].template_tokens : clusters[c].template_tokens[i] = Wild =>
       \A t \in Tokens \ {Wild} : \E m \in members[c] : m[i] # t

Known == \A c \in DOMAIN clusters : WildMeans(c) /\ \E leaf \in DOMAIN tree : Way(c, leaf)

\* The nodes above a leaf, one below the other.
LEMMA Above ==
  ASSUME NEW leaf \in Seq(Keys), NEW i \in 1..(Len(leaf) - 1)
  PROVE  /\ SubSeq(leaf, 1, i) # <<>>
         /\ Append(SubSeq(leaf, 1, i), leaf[i + 1]) = SubSeq(leaf, 1, i + 1)
<1> HIDE DEF Keys
<1>1. Len(leaf) \in Nat /\ i + 1 \in 1..Len(leaf) /\ 1 \in Int /\ i \in Int /\ i + 1 \in Int
  OBVIOUS
<1>2. \A j \in 1..Len(leaf) : leaf[j] \in Keys
  OBVIOUS
<1> DEFINE up == SubSeq(leaf, 1, i)
           down == SubSeq(leaf, 1, i + 1)
<1>3. up \in Seq(Keys) /\ Len(up) = i /\ \A j \in 1..i : up[j] = leaf[j]
  <2>1. \A j \in 1..i : leaf[j] \in Keys
    BY <1>1, <1>2
  <2> QED
    BY <1>1, <2>1, SubSeqProperties
<1>4. down \in Seq(Keys) /\ Len(down) = i + 1 /\ \A j \in 1..(i + 1) : down[j] = leaf[j]
  <2>1. \A j \in 1..(i + 1) : leaf[j] \in Keys
    BY <1>1, <1>2
  <2> QED
    BY <1>1, <2>1, SubSeqProperties
<1> HIDE DEF up, down
<1>5. leaf[i + 1] \in Keys
  BY <1>1, <1>2
<1>6. /\ Append(up, leaf[i + 1]) \in Seq(Keys) /\ Len(Append(up, leaf[i + 1])) = i + 1
      /\ \A j \in 1..i : Append(up, leaf[i + 1])[j] = up[j]
      /\ Append(up, leaf[i + 1])[i + 1] = leaf[i + 1]
  BY <1>3, <1>5, AppendProperties
<1>7. \A j \in 1..(i + 1) : Append(up, leaf[i + 1])[j] = down[j]
  <2> SUFFICES ASSUME NEW j \in 1..(i + 1) PROVE Append(up, leaf[i + 1])[j] = down[j]
    OBVIOUS
  <2>1. j \in 1..i \/ j = i + 1
    BY <1>1
  <2> QED
    BY <1>3, <1>4, <1>6, <2>1
<1>8. Append(up, leaf[i + 1]) = down
  BY <1>4, <1>6, <1>7
<1> QED
  BY <1>1, <1>3, <1>8 DEF up, down

\* A search follows the way of its tokens to the end, unless it is overtaken.
LEMMA SearchFollows ==
  ASSUME NEW tokens \in Seq(Tokens), NEW leaf, OnWay(leaf, tokens, PrefixDepth(tokens)),
         \A i \in 1..Len(leaf) : SubSeq(leaf, 1, i) \in DOMAIN tree,
         ~Overtaken(leaf, tokens)
  PROVE  SearchLeaf(tokens) = leaf
<1> DEFINE n == PrefixDepth(tokens)
<1>1. PICK walk : /\ SearchLeaf(tokens) = walk[n]
                  /\ \A i \in 0..n : walk[i] = Step(TRUE, tokens, walk, i)
  BY SearchWalk
<1>2. n \in 0..Len(tokens) /\ Len(tokens) \in Nat
  BY DrainAssumption DEF PrefixDepth
<1>3. /\ leaf \in Seq(Keys) /\ Len(leaf) = 1 + n /\ leaf[1] = Len(tokens)
      /\ \A i \in 1..n : leaf[i + 1] \in {Star, SearchKey(tokens[i])}
  BY DEF OnWay
<1>4. \A i \in 1..n : ~(/\ leaf[i + 1] = Star /\ SearchKey(tokens[i]) # Star
                        /\ Append(SubSeq(leaf, 1, i), tokens[i]) \in DOMAIN tree)
  BY DEF Overtaken
<1> HIDE DEF n, Keys
<1> DEFINE bad == {i \in 0..n : walk[i] # SubSeq(leaf, 1, i + 1)}
<1>5. bad = {}
  <2>1. SUFFICES ASSUME bad # {} PROVE FALSE
    OBVIOUS
  <2>2. PICK k \in bad : \A q \in bad : k <= q
    <3>1. bad \subseteq Nat
      BY <1>2
    <3> HIDE DEF bad
    <3> QED
      BY <2>1, <3>1, LeastMember
  <2>3. k \in 0..n /\ walk[k] # SubSeq(leaf, 1, k + 1) /\ walk[k] = Step(TRUE, tokens, walk, k)
    BY <1>1
  <2>4. k # 0
    <3>1. SUFFICES ASSUME k = 0 PROVE FALSE
      OBVIOUS
    <3>2. SubSeq(leaf, 1, 1) = <<leaf[1]>> /\ 1 \in 1..Len(leaf)
      <4>1. Len(leaf) \in Nat /\ Len(leaf) >= 1
        BY <1>2, <1>3
      <4>2. \A j \in 1..1 : leaf[j] \in Keys
        BY <1>3, <4>1
      <4>3. /\ SubSeq(leaf, 1, 1) \in Seq(Keys) /\ Len(SubSeq(leaf, 1, 1)) = 1
            /\ SubSeq(leaf, 1, 1)[1] = leaf[1]
        BY <4>2, SubSeqProperties
      <4>4. ASSUME NEW q \in Seq(Keys), Len(q) = 1 PROVE q = <<q[1]>>
        BY <4>4
      <4>5. SubSeq(leaf, 1, 1) = <<SubSeq(leaf, 1, 1)[1]>>
        BY <4>3, <4>4
      <4> QED
        BY <4>1, <4>3, <4>5
    <3>3. <<Len(tokens)>> \in DOMAIN tree
      <4>1. SubSeq(leaf, 1, 1) \in DOMAIN tree
        BY <3>2
      <4> QED
        BY <1>3, <3>2, <4>1
    <3>4. walk[k] = <<Len(tokens)>>
      BY <2>3, <3>1, <3>3 DEF Step
    <3> QED
      BY <1>3, <2>3, <3>1, <3>2, <3>4
  <2>5. k - 1 \in 0..n /\ k - 1 \notin bad /\ k \in 1..n /\ k \in 1..(Len(leaf) - 1)
    BY <1>2, <1>3, <2>2, <2>3, <2>4
  <2> DEFINE up == SubSeq(leaf, 1, k)
  <2>6. walk[k - 1] = up
    BY <2>5
  <2>7. up # <<>> /\ Append(up, leaf[k + 1]) = SubSeq(leaf, 1, k + 1)
    BY <1>3, <2>5, Above
  <2>8. SubSeq(leaf, 1, k + 1) \in DOMAIN tree
    BY <1>3, <2>5
  <2>9. walk[k] = Descend(up, tokens[k])
    BY <2>3, <2>4, <2>6 DEF Step
  <2> HIDE DEF up
  <2>10. CASE leaf[k + 1] = SearchKey(tokens[k])
    BY <2>3, <2>7, <2>8, <2>9, <2>10 DEF Descend
  <2>11. CASE leaf[k + 1] # SearchKey(tokens[k])
    <3>1. leaf[k + 1] = Star /\ SearchKey(tokens[k]) # Star
      BY <1>3, <2>5, <2>11
    <3>2. SearchKey(tokens[k]) = tokens[k]
      BY <3>1 DEF SearchKey
    <3>3. Append(up, tokens[k]) \notin DOMAIN tree
      BY <1>4, <2>5, <3>1 DEF up
    <3> QED
      BY <2>3, <2>7, <2>8, <2>9, <3>1, <3>2, <3>3 DEF Descend
  <2> QED
    BY <2>10, <2>11
<1>6. walk[n] = SubSeq(leaf, 1, n + 1)
  BY <1>2, <1>5
<1>7. SubSeq(leaf, 1, Len(leaf)) = leaf
  BY <1>3, SubSeqFull
<1> QED
  BY <1>1, <1>2, <1>3, <1>6, <1>7

\* A candidate that agrees with the log at every place is enough for a match.
LEMMA FullMatch ==
  ASSUME TypeOK, TreeTyped, NEW tokens \in Seq(Tokens), tokens # <<>>,
         NEW k \in DOMAIN ClusterIds(SearchLeaf(tokens)),
         NEW c \in DOMAIN clusters, ClusterIds(SearchLeaf(tokens))[k] = c,
         Len(clusters[c].template_tokens) = Len(tokens),
         \A i \in DOMAIN tokens : /\ AnchorsAgree(clusters[c].template_tokens[i], tokens[i])
                                  /\ Covers(clusters[c].template_tokens[i], tokens[i])
  PROVE  find_best_match(tokens) # 0
<1> DEFINE ids    == ClusterIds(SearchLeaf(tokens))
           sim(j) == CandidateSim(tokens, ids, j)
           n      == Len(tokens)
           Most(j) == /\ sim(j) > 0
                      /\ sim(j) * ThresholdDen >= ThresholdNum * Len(tokens)
                      /\ \A q \in DOMAIN ids : sim(q) <= sim(j) /\ (q < j => sim(q) < sim(j))
           best   == {j \in DOMAIN ids : Most(j)}
<1>1. find_best_match(tokens) = IF best = {} THEN 0 ELSE ids[CHOOSE j \in best : TRUE]
  BY DEF find_best_match
<1>2. ids \in Seq(1..(next_cluster_id - 1)) /\ next_cluster_id \in Nat
  BY DEF ClusterIds, TreeTyped, TypeOK
<1>3. n \in Nat \ {0} /\ DOMAIN tokens = 1..n
  OBVIOUS
<1>4. IsFiniteSet(1..n) /\ Cardinality(1..n) = n
  BY <1>3, FS_Interval
<1>5. ASSUME NEW j PROVE sim(j) \in Nat /\ sim(j) <= n
  <2> DEFINE template == clusters[ids[j]].template_tokens
             same == {i \in DOMAIN tokens : Covers(template[i], tokens[i])}
  <2>1. sim(j) = 0 \/ sim(j) = Cardinality(same)
    BY DEF CandidateSim, compute_similarity
  <2>2. same \in SUBSET (1..n)
    BY <1>3
  <2> HIDE DEF same, n, sim
  <2>3. IsFiniteSet(same) /\ Cardinality(same) <= n
    BY <1>4, <2>2, FS_Subset
  <2>4. Cardinality(same) \in Nat
    BY <2>3, FS_CardinalityType
  <2> QED
    BY <1>3, <2>1, <2>3, <2>4
<1>6. sim(k) = n
  <2> DEFINE template == clusters[c].template_tokens
  <2>1. {i \in DOMAIN tokens : Covers(template[i], tokens[i])} = 1..n
    BY <1>3
  <2>2. template # <<>>
    BY <1>3
  <2>3. ids[k] = c /\ ids[k] \in DOMAIN clusters
    OBVIOUS
  <2>4. sim(k) = compute_similarity(template, tokens)
    BY <2>3 DEF CandidateSim
  <2>5. compute_similarity(template, tokens)
          = Cardinality({i \in DOMAIN tokens : Covers(template[i], tokens[i])})
    BY <2>2 DEF compute_similarity
  <2> QED
    BY <1>4, <2>1, <2>4, <2>5
<1> DEFINE full == {j \in DOMAIN ids : sim(j) = n}
<1>7. DOMAIN ids \subseteq Nat
  BY <1>2
<1> HIDE DEF ids, sim, n
<1>8. PICK j \in full : \A q \in full : j <= q
  <2>1. k \in full /\ full \subseteq Nat
    BY <1>6, <1>7 DEF ids
  <2> HIDE DEF full
  <2> QED
    BY <2>1, LeastMember
<1>9. j \in DOMAIN ids /\ sim(j) = n /\ j \in Nat
  BY <1>7
<1>10. \A q \in DOMAIN ids : sim(q) <= sim(j) /\ (q < j => sim(q) < sim(j))
  <2> SUFFICES ASSUME NEW q \in DOMAIN ids PROVE sim(q) <= n /\ (q < j => sim(q) < n)
    BY <1>9
  <2>1. sim(q) \in Nat /\ sim(q) <= n /\ q \in Nat
    BY <1>5, <1>7
  <2>2. q < j => q \notin full
    BY <1>8, <1>9, <2>1
  <2> QED
    BY <1>3, <2>1, <2>2
<1>11. n * ThresholdDen >= ThresholdNum * n
  <2>1. ThresholdNum \in Nat /\ ThresholdDen \in Nat /\ ThresholdNum <= ThresholdDen
    BY DrainAssumption
  <2>2. ASSUME NEW a \in Nat, NEW b \in Nat, NEW l \in Nat, a <= b PROVE l * b >= a * l
    BY <2>2
  <2> QED
    BY <1>3, <2>1, <2>2
<1>12. j \in best
  <2>1. sim(j) > 0 /\ sim(j) * ThresholdDen >= ThresholdNum * Len(tokens)
    BY <1>3, <1>9, <1>11 DEF n
  <2> QED
    BY <1>9, <1>10, <2>1
<1>13. \E q \in DOMAIN ids : find_best_match(tokens) = ids[q]
  <2> HIDE DEF Most
  <2>1. (CHOOSE q \in best : TRUE) \in best
    BY <1>12
  <2> QED
    BY <1>1, <1>12, <2>1
<1> QED
  BY <1>2, <1>13

\* What is known of a cluster is enough to find it.
LEMMA KnownFound ==
  ASSUME IInv, TreeTyped, Known
  PROVE  FoundAgain
<1> SUFFICES ASSUME NEW c \in DOMAIN clusters, NEW m \in members[c],
                    \A leaf \in DOMAIN tree : (\E k \in DOMAIN tree[leaf] : tree[leaf][k] = c)
                                              => ~Overtaken(leaf, m),
                    ~Respelled(c, m)
             PROVE  find_best_match(m) # 0
  BY DEF FoundAgain
<1>1. PICK leaf \in DOMAIN tree : Way(c, leaf)
  BY DEF Known
<1>2. m \in Seq(Tokens) /\ m # <<>>
  BY <1>1 DEF IInv, TypeOK, Way
<1>3. SearchLeaf(m) = leaf
  BY <1>1, <1>2, SearchFollows DEF Way
<1>4. PICK k \in DOMAIN ClusterIds(SearchLeaf(m)) : ClusterIds(SearchLeaf(m))[k] = c
  BY <1>1, <1>3 DEF Way, ClusterIds
<1> DEFINE template == clusters[c].template_tokens
<1>5. Len(template) = Len(m) /\ template \in Seq(Tokens)
      /\ \A i \in DOMAIN m : Covers(template[i], m[i])
  BY DEF IInv, TypeOK, TemplateCovers
<1>6. ASSUME NEW i \in DOMAIN m PROVE AnchorsAgree(template[i], m[i])
  <2>1. m[i] \in Tokens /\ i \in DOMAIN template
    BY <1>2, <1>5, <1>6
  <2>2. CASE template[i] = m[i]
    BY <2>2 DEF AnchorsAgree
  <2>3. CASE template[i] = Wild /\ m[i] # Wild
    <3>1. PICK n \in members[c] : n[i] # m[i]
      BY <2>1, <2>3 DEF Known, WildMeans
    <3>2. ~IsAnchor(m[i])
      BY <1>6, <3>1 DEF Respelled
    <3>3. ~IsAnchor(template[i])
      BY <2>3, DrainAssumption DEF IsAnchor
    <3> QED
      BY <3>2, <3>3 DEF AnchorsAgree
  <2> QED
    BY <1>5, <1>6, <2>2, <2>3 DEF Covers
<1> QED
  BY <1>2, <1>4, <1>5, <1>6, FullMatch DEF IInv

\* A log that joins a cluster came by the cluster's way, and leaves "<*>" where it
\* is the first to differ.
LEMMA JoinKnown ==
  ASSUME IInv, Filed, Known, NEW tokens \in Seq(Tokens), tokens # <<>>, NEW fast \in BOOLEAN,
         find_best_match(tokens) # 0, Join(find_best_match(tokens), tokens, fast)
  PROVE  Known'
<1>0. PICK id : id = find_best_match(tokens)
  OBVIOUS
<1>1. /\ id \in DOMAIN clusters /\ Len(clusters[id].template_tokens) = Len(tokens)
      /\ \E k \in DOMAIN ClusterIds(SearchLeaf(tokens)) : ClusterIds(SearchLeaf(tokens))[k] = id
  BY <1>0, BestMatch
<1>2. /\ clusters' = [clusters EXCEPT ![id] = Update(clusters[id], tokens)] /\ tree' = tree
      /\ members' = [members EXCEPT ![id] = members[id] \cup {tokens}]
  BY <1>0 DEF Join
<1> DEFINE template == clusters[id].template_tokens
           new == Update(clusters[id], tokens).template_tokens
<1>3. /\ template \in Seq(Tokens) /\ clusters[id].count \in Nat
      /\ clusters[id] = [template_tokens |-> template, count |-> clusters[id].count]
      /\ DOMAIN members = DOMAIN clusters
  BY <1>1 DEF IInv, TypeOK
<1>4. /\ new = [i \in DOMAIN template |->
                  IF Covers(template[i], tokens[i]) THEN template[i] ELSE Wild]
      /\ DOMAIN template = DOMAIN tokens
  BY <1>1, <1>3 DEF Update
<1>5. /\ DOMAIN clusters' = DOMAIN clusters /\ clusters'[id].template_tokens = new
      /\ members'[id] = members[id] \cup {tokens}
      /\ \A c \in DOMAIN clusters \ {id} : clusters'[c] = clusters[c] /\ members'[c] = members[c]
  BY <1>1, <1>2, <1>3
<1> HIDE DEF new
<1>6. ASSUME NEW c \in DOMAIN clusters \ {id}
      PROVE  WildMeans(c)' /\ \E leaf \in DOMAIN tree' : Way(c, leaf)'
  <2>1. PICK leaf \in DOMAIN tree : Way(c, leaf)
    BY DEF Known
  <2>2. Way(c, leaf)'
    BY <1>2, <1>5, <2>1 DEF Way, PrefixDepth
  <2>3. WildMeans(c)'
    BY <1>5 DEF Known, WildMeans
  <2> QED
    BY <1>2, <2>2, <2>3
<1>7. WildMeans(id)'
  <2>1. members[id] # {} /\ members[id] \subseteq members'[id] /\ tokens \in members'[id]
    BY <1>1, <1>5 DEF Known, WildMeans
  <2>2. ASSUME NEW i \in DOMAIN new, new[i] = Wild, NEW t \in Tokens \ {Wild}
        PROVE  \E m \in members'[id] : m[i] # t
    <3>1. CASE template[i] = Wild
      <4>1. \E m \in members[id] : m[i] # t
        BY <1>1, <1>4, <2>2, <3>1 DEF Known, WildMeans
      <4> QED
        BY <2>1, <4>1
    <3>2. CASE template[i] # Wild
      <4>1. tokens[i] # template[i]
        BY <1>4, <2>2, <3>2 DEF Covers
      <4>2. PICK m \in members[id] : TRUE
        BY <2>1
      <4>3. i \in DOMAIN m
        <5>1. Len(template) = Len(m) /\ m \in Seq(Tokens)
          BY <1>1, <1>3, <4>2 DEF IInv, TypeOK, TemplateCovers
        <5> QED
          BY <1>3, <1>4, <2>2, <5>1
      <4>4. m[i] = template[i]
        BY <1>1, <3>2, <4>2, <4>3 DEF IInv, TemplateCovers, Covers
      <4> QED
        BY <2>1, <4>1, <4>2, <4>4
    <3> QED
      BY <3>1, <3>2
  <2> QED
    BY <1>5, <2>1, <2>2 DEF WildMeans
<1>8. \E leaf \in DOMAIN tree' : Way(id, leaf)'
  <2>1. PICK leaf \in DOMAIN tree : Way(id, leaf)
    BY <1>1 DEF Known
  <2>2. SearchLeaf(tokens) \in DOMAIN tree
        /\ \E k \in DOMAIN tree[SearchLeaf(tokens)] : tree[SearchLeaf(tokens)][k] = id
    BY <1>1 DEF ClusterIds
  <2>3. PICK l \in DOMAIN tree \ {<<>>} :
          \A n \in DOMAIN tree \ {l} : \A k \in DOMAIN tree[n] : tree[n][k] # id
    BY <1>1 DEF Filed
  <2>4. SearchLeaf(tokens) = leaf /\ leaf # <<>>
    BY <2>1, <2>2, <2>3 DEF Way
  <2>5. OnWay(leaf, tokens, PrefixDepth(tokens))
    <3>1. PICK walk : /\ SearchLeaf(tokens) = walk[PrefixDepth(tokens)]
                      /\ \A i \in 0..PrefixDepth(tokens) : walk[i] = Step(TRUE, tokens, walk, i)
      BY SearchWalk
    <3>2. PrefixDepth(tokens) \in 0..Len(tokens) /\ TRUE \in BOOLEAN
      BY DrainAssumption DEF PrefixDepth
    <3> HIDE DEF PrefixDepth
    <3>3. OnWay(walk[PrefixDepth(tokens)], tokens, PrefixDepth(tokens))
            \/ walk[PrefixDepth(tokens)] = <<>>
      BY <3>1, <3>2, WalkOnWay
    <3> QED
      BY <2>4, <3>1, <3>3
  <2>6. Way(id, leaf)'
    BY <1>2, <1>5, <2>1, <2>5 DEF Way, PrefixDepth
  <2> QED
    BY <1>2, <2>6
<1> QED
  BY <1>5, <1>6, <1>7, <1>8 DEF Known

\* A new cluster is at the end of its first log's way.
LEMMA FoundKnown ==
  ASSUME IInv, TreeTyped, Known, NEW tokens \in Seq(Tokens), tokens # <<>>, Found(tokens)
  PROVE  Known'
<1>0. PICK id, leaf : id = next_cluster_id /\ leaf = InsertLeaf(tokens)
  OBVIOUS
<1> DEFINE nodes == {SubSeq(leaf, 1, i) : i \in 1..Len(leaf)}
<1>1. /\ tree' = [n \in DOMAIN tree \cup nodes |->
                   IF n = leaf THEN Append(ClusterIds(n), id) ELSE ClusterIds(n)]
      /\ clusters' = Extend(clusters, id, NewCluster(tokens))
      /\ members' = Extend(members, id, {tokens})
  BY <1>0 DEF Found, insert_to_tree
<1>2. /\ id \in Nat \ {0} /\ DOMAIN clusters = 1..(id - 1) /\ DOMAIN members = DOMAIN clusters
  BY <1>0 DEF IInv, TypeOK
<1>3. OnWay(leaf, tokens, PrefixDepth(tokens)) /\ leaf \in Seq(Keys)
      /\ Len(leaf) = 1 + PrefixDepth(tokens)
  BY <1>0, LeafOfTokens DEF OnWay
<1>4. PrefixDepth(tokens) \in Nat
  BY DrainAssumption DEF PrefixDepth
<1> HIDE DEF Keys
<1>5. leaf \in nodes /\ \A i \in 1..Len(leaf) : SubSeq(leaf, 1, i) \in nodes
  <2>1. Len(leaf) \in 1..Len(leaf) /\ leaf = SubSeq(leaf, 1, Len(leaf))
    BY <1>3, <1>4
  <2> QED
    BY <2>1
<1> HIDE DEF nodes
<1>6. /\ DOMAIN clusters' = DOMAIN clusters \cup {id} /\ id \notin DOMAIN clusters
      /\ clusters'[id].template_tokens = tokens /\ members'[id] = {tokens}
      /\ \A c \in DOMAIN clusters : clusters'[c] = clusters[c] /\ members'[c] = members[c]
  BY <1>1, <1>2 DEF Extend, NewCluster
<1>7. DOMAIN tree' = DOMAIN tree \cup nodes
  BY <1>1
<1>8. ASSUME NEW n PROVE ClusterIds(n) \in Seq(1..id)
  <2> DEFINE U == 1..id
             Given == 1..(id - 1)
             ids == ClusterIds(n)
  <2>1. ids \in Seq(Given)
    <3>1. CASE n \in DOMAIN tree
      BY <1>0, <3>1 DEF ClusterIds, TreeTyped
    <3>2. CASE n \notin DOMAIN tree
      BY <3>2 DEF ClusterIds
    <3> QED
      BY <3>1, <3>2
  <2>2. Given \subseteq U
    BY <1>2
  <2> HIDE DEF U, Given, ids
  <2>3. ids \in [1..Len(ids) -> U] /\ Len(ids) \in Nat
    BY <2>1, <2>2
  <2>4. ids \in Seq(U)
    BY <2>3
  <2> QED
    BY <2>4 DEF U, ids
<1>9. ASSUME NEW n
      PROVE  LET ids == ClusterIds(n)
             IN /\ DOMAIN Append(ids, id) = 1..(Len(ids) + 1) /\ DOMAIN ids = 1..Len(ids)
                /\ Len(ids) \in Nat /\ Append(ids, id)[Len(ids) + 1] = id
                /\ \A k \in 1..Len(ids) : Append(ids, id)[k] = ids[k]
  <2> DEFINE U == 1..id
             ids == ClusterIds(n)
  <2>1. ids \in Seq(U) /\ id \in U
    BY <1>2, <1>8
  <2> HIDE DEF U, ids
  <2>2. /\ Append(ids, id) \in Seq(U) /\ Len(Append(ids, id)) = Len(ids) + 1
        /\ Append(ids, id)[Len(ids) + 1] = id
        /\ \A k \in 1..Len(ids) : Append(ids, id)[k] = ids[k]
    BY <2>1, AppendProperties
  <2>3. DOMAIN Append(ids, id) = 1..(Len(ids) + 1) /\ DOMAIN ids = 1..Len(ids) /\ Len(ids) \in Nat
    BY <2>1, <2>2
  <2> QED
    BY <2>2, <2>3 DEF ids
<1>10. ASSUME NEW c \in DOMAIN clusters
       PROVE  WildMeans(c)' /\ \E l \in DOMAIN tree' : Way(c, l)'
  <2>1. PICK l \in DOMAIN tree : Way(c, l)
    BY DEF Known
  <2>2. PICK k \in DOMAIN tree[l] : tree[l][k] = c
    BY <2>1 DEF Way
  <2>3. tree[l] = ClusterIds(l) /\ l \in DOMAIN tree'
    BY <1>7, <2>1 DEF ClusterIds
  <2>4. k \in DOMAIN tree'[l] /\ tree'[l][k] = c
    <3>1. CASE l = leaf
      <4>1. tree'[l] = Append(ClusterIds(l), id)
        BY <1>1, <2>3, <3>1
      <4> QED
        BY <1>9, <2>2, <2>3, <4>1
    <3>2. CASE l # leaf
      <4>1. tree'[l] = ClusterIds(l)
        BY <1>1, <2>3, <3>2
      <4> QED
        BY <2>2, <2>3, <4>1
    <3> QED
      BY <3>1, <3>2
  <2>5. Way(c, l)'
    BY <1>6, <1>7, <2>1, <2>4 DEF Way, PrefixDepth
  <2>6. WildMeans(c)'
    BY <1>6 DEF Known, WildMeans
  <2> QED
    BY <2>3, <2>5, <2>6
<1>11. WildMeans(id)'
  BY <1>6 DEF WildMeans
<1>12. Way(id, leaf)' /\ leaf \in DOMAIN tree'
  <2>1. leaf \in DOMAIN tree' /\ tree'[leaf] = Append(ClusterIds(leaf), id)
    BY <1>1, <1>5
  <2>2. \E k \in DOMAIN tree'[leaf] : tree'[leaf][k] = id
    <3>1. Len(ClusterIds(leaf)) + 1 \in 1..(Len(ClusterIds(leaf)) + 1)
      BY <1>9
    <3> QED
      BY <1>9, <2>1, <3>1
  <2>3. \A i \in 1..Len(leaf) : SubSeq(leaf, 1, i) \in DOMAIN tree'
    BY <1>5, <1>7
  <2>4. \A m \in members'[id] : m # <<>> /\ OnWay(leaf, m, PrefixDepth(m))
    BY <1>3, <1>6
  <2> QED
    BY <2>1, <2>2, <2>3, <2>4 DEF Way, PrefixDepth
<1> QED
  BY <1>6, <1>10, <1>11, <1>12 DEF Known

\* For every configuration of the miner: a log that comes again is recognised, but for
\* the two exceptions (add_log, find_best_match, insert_to_tree).
THEOREM FoundAgainAlways == Spec => []FoundAgain
<1>1. Init => TreeTyped /\ Filed /\ Known
  BY DEF Init, TreeTyped, Filed, Known
<1>2. IInv /\ TreeTyped /\ Filed /\ Known /\ [Next]_vars => TreeTyped' /\ Filed' /\ Known'
  <2> SUFFICES ASSUME IInv, TreeTyped, Filed, Known, [Next]_vars PROVE TreeTyped' /\ Filed' /\ Known'
    OBVIOUS
  <2>1. TreeTyped' /\ Filed'
    BY StepFiled
  <2>2. ASSUME UNCHANGED <<tree, clusters, members>> PROVE Known'
    BY <2>2 DEF Known, WildMeans, Way, PrefixDepth
  <2>3. ASSUME NEW raw \in Logs, NEW fast \in BOOLEAN, add_log(raw, fast)
        PROVE  Known'
    <3> DEFINE tokens == mask(raw)
               id     == find_best_match(tokens)
    <3>1. tokens \in Seq(Tokens)
      BY MaskTyped
    <3>2. CASE Blank
      BY <2>2, <3>2 DEF Blank
    <3>3. CASE tokens # <<>> /\ id # 0 /\ Join(id, tokens, fast)
      <4> HIDE DEF tokens
      <4> QED
        BY <3>1, <3>3, JoinKnown
    <3>4. CASE tokens # <<>> /\ Found(tokens)
      <4> HIDE DEF tokens
      <4> QED
        BY <3>1, <3>4, FoundKnown
    <3> QED
      BY <2>3, <3>2, <3>3, <3>4 DEF add_log
  <2> QED
    BY <2>1, <2>2, <2>3 DEF Next, vars
<1>3. IInv /\ TreeTyped /\ Known => FoundAgain
  BY KnownFound
<1> QED
  BY <1>1, <1>2, <1>3, Invariance, PTL DEF Spec

-----------------------------------------------------------------------------
(* Induction on the length of a text.                                      *)

\* What holds of a number when it holds of those below holds of all.
LEMMA FromBelow ==
  ASSUME NEW S, \A n \in Nat : (\A m \in 0..(n - 1) : m \in S) => n \in S
  PROVE  Nat \subseteq S
<1> SUFFICES ASSUME Nat \ S # {} PROVE FALSE
  OBVIOUS
<1>1. PICK p \in Nat \ S : \A q \in Nat \ S : p <= q
  <2>1. Nat \ S \subseteq Nat
    OBVIOUS
  <2> QED
    BY <2>1, LeastMember
<1>2. ASSUME NEW m \in 0..(p - 1) PROVE m \in S
  BY <1>1
<1> QED
  BY <1>1, <1>2

-----------------------------------------------------------------------------
(* What a recursive pass over a text computes.                             *)

\* The n-th character from the right.
Char(text, n) == text[Len(text) + 1 - n]

\* What becomes of the last n characters, given what becomes of fewer.
PassStep(text, add, drop, f, n) ==
  IF n = 0 THEN <<>>
  ELSE IF n > 1 /\ Char(text, n) = Backslash /\ Char(text, n - 1) \in drop
    THEN <<Char(text, n - 1)>> \o f[n - 2]
  ELSE IF Char(text, n) \in add THEN <<Backslash, Char(text, n)>> \o f[n - 1]
  ELSE <<Char(text, n)>> \o f[n - 1]

PassTo(f, text, add, drop, n) == [i \in 0..n |-> PassStep(text, add, drop, f, i)]

\* A function that meets the equation of Pass exists.
LEMMA PassExists ==
  ASSUME NEW text, NEW add, NEW drop, NEW n \in Nat
  PROVE  \E f : f = PassTo(f, text, add, drop, n)
<1> DEFINE Body(f, i) == PassStep(text, add, drop, f, i)
           S == {l \in Nat : \E f : f = [i \in 0..l |-> Body(f, i)]}
<1>1. ASSUME NEW l \in Nat, \A j \in 0..(l - 1) : j \in S PROVE l \in S
  <2>1. CASE l = 0
    <3> DEFINE f == [i \in 0..l |-> <<>>]
    <3>1. f = [i \in 0..l |-> Body(f, i)]
      BY <2>1 DEF PassStep
    <3> QED
      BY <3>1
  <2>2. CASE l # 0
    <3>1. l - 1 \in 0..(l - 1) /\ l \in 0..l /\ l \notin 0..(l - 1)
          /\ \A i \in 0..l : i = l \/ i \in 0..(l - 1)
      BY <2>2
    <3>2. PICK g : g = [i \in 0..(l - 1) |-> Body(g, i)]
      BY <1>1, <3>1
    <3> DEFINE v == Body(g, l)
    <3> HIDE DEF v
    <3> DEFINE f == [i \in 0..l |-> IF i = l THEN v ELSE g[i]]
    <3>3. f = [i \in 0..l |-> f[i]] /\ f[l] = v /\ \A i \in 0..(l - 1) : f[i] = g[i]
      BY <3>1
    <3> HIDE DEF f
    <3>4. ASSUME NEW i \in 0..l PROVE f[i] = Body(f, i)
      <4>1. (i # 0 => i - 1 \in 0..(l - 1)) /\ (i > 1 => i - 2 \in 0..(l - 1))
        OBVIOUS
      <4>2. Body(f, i) = Body(g, i)
        <5>1. (i # 0 => f[i - 1] = g[i - 1]) /\ (i > 1 => f[i - 2] = g[i - 2])
          BY <3>3, <4>1
        <5> QED
          BY <5>1 DEF PassStep
      <4>3. i = l \/ (g[i] = Body(g, i) /\ f[i] = g[i])
        BY <3>1, <3>2, <3>3
      <4> HIDE DEF Body
      <4> QED
        BY <3>3, <4>2, <4>3 DEF v
    <3>5. f = [i \in 0..l |-> Body(f, i)]
      <4> HIDE DEF Body
      <4> QED
        BY <3>3, <3>4
    <3> QED
      BY <3>5
  <2> QED
    BY <2>1, <2>2
<1>2. Nat \subseteq S
  <2> HIDE DEF S
  <2> QED
    BY <1>1, FromBelow
<1> HIDE DEF Body
<1>3. PICK f : f = [i \in 0..n |-> Body(f, i)]
  BY <1>2
<1>4. f = PassTo(f, text, add, drop, n)
  BY <1>3 DEF PassTo, Body
<1> QED
  BY <1>4

\* That function.
Rest(text, add, drop) == CHOOSE f : f = PassTo(f, text, add, drop, Len(text))

LEMMA PassSteps ==
  ASSUME NEW text, NEW add, NEW drop, Len(text) \in Nat
  PROVE  /\ Pass(text, add, drop) = Rest(text, add, drop)[Len(text)]
         /\ \A n \in 0..Len(text) :
              Rest(text, add, drop)[n] = PassStep(text, add, drop, Rest(text, add, drop), n)
<1> DEFINE f == Rest(text, add, drop)
<1>1. Pass(text, add, drop) = f[Len(text)]
  BY Zenon DEF Pass, Rest, PassTo, PassStep, Char
<1>2. f = PassTo(f, text, add, drop, Len(text))
  <2>1. \E g : g = PassTo(g, text, add, drop, Len(text))
    BY PassExists
  <2> QED
    BY <2>1 DEF Rest
<1> HIDE DEF f
<1> QED
  BY <1>1, <1>2 DEF PassTo, f

\* A text with one character more in front.
InFront(c, s) == <<c>> \o s

LEMMA InFrontIs ==
  ASSUME NEW S, NEW c \in S, NEW s \in Seq(S)
  PROVE  /\ InFront(c, s) \in Seq(S) /\ InFront(c, s) # <<>>
         /\ Len(s) \in Nat /\ Len(InFront(c, s)) = Len(s) + 1
         /\ InFront(c, s)[1] = c
         /\ \A i \in 1..Len(s) : InFront(c, s)[i + 1] = s[i]
<1>1. <<c>> \in Seq(S) /\ Len(<<c>>) = 1 /\ <<c>>[1] = c
  OBVIOUS
<1>2. InFront(c, s) \in Seq(S) /\ Len(InFront(c, s)) = 1 + Len(s) /\ Len(s) \in Nat
  BY <1>1, ConcatProperties, LenProperties DEF InFront
<1>3. \A i \in 1..(1 + Len(s)) : InFront(c, s)[i] = IF i <= 1 THEN <<c>>[i] ELSE s[i - 1]
  BY <1>1, ConcatProperties DEF InFront
<1>4. InFront(c, s)[1] = c
  BY <1>1, <1>2, <1>3
<1>5. ASSUME NEW i \in 1..Len(s) PROVE InFront(c, s)[i + 1] = s[i]
  <2>1. i + 1 \in 1..(1 + Len(s)) /\ ~(i + 1 <= 1) /\ (i + 1) - 1 = i
    BY <1>2
  <2> QED
    BY <1>3, <2>1
<1>6. InFront(c, s) # <<>>
  BY <1>2, EmptySeq
<1> QED
  BY <1>2, <1>4, <1>5, <1>6

LEMMA InFrontUnique ==
  ASSUME NEW S, NEW c \in S, NEW s \in Seq(S), NEW q \in Seq(S), Len(q) = Len(s) + 1,
         q[1] = c, \A i \in 1..Len(s) : q[i + 1] = s[i]
  PROVE  q = InFront(c, s)
<1> DEFINE p == InFront(c, s)
<1>1. p \in Seq(S) /\ Len(p) = Len(q) /\ Len(s) \in Nat
  BY InFrontIs
<1>2. p[1] = c /\ \A i \in 1..Len(s) : p[i + 1] = s[i]
  BY InFrontIs
<1> HIDE DEF p
<1>3. ASSUME NEW i \in 1..Len(q) PROVE q[i] = p[i]
  <2>1. i = 1 \/ (i - 1 \in 1..Len(s) /\ (i - 1) + 1 = i)
    BY <1>1
  <2> QED
    BY <1>2, <2>1
<1>4. q = p
  BY <1>1, <1>3, SeqEqual
<1> QED
  BY <1>4 DEF p

LEMMA InFrontOf ==
  ASSUME NEW S, NEW s \in Seq(S), s # <<>>
  PROVE  \E c \in S, t \in Seq(S) : s = InFront(c, t) /\ Len(t) \in Nat /\ Len(s) = Len(t) + 1
<1> DEFINE t == Tail(s)
<1>1. Len(s) \in Nat /\ Len(s) > 0 /\ t \in Seq(S) /\ Len(t) = Len(s) - 1
  BY EmptySeq, LenProperties, HeadTailProperties
<1>2. s[1] \in S /\ \A i \in 1..Len(t) : s[i + 1] = t[i]
  BY <1>1, ElementOfSeq, HeadTailProperties
<1> HIDE DEF t
<1>3. s = InFront(s[1], t)
  BY <1>1, <1>2, InFrontUnique
<1> QED
  BY <1>1, <1>2, <1>3

LEMMA TwoInFront ==
  ASSUME NEW S, NEW b \in S, NEW c \in S, NEW s \in Seq(S)
  PROVE  <<b, c>> \o s = InFront(b, InFront(c, s))
<1> DEFINE q == <<b, c>> \o s
           t == InFront(c, s)
<1>1. <<b, c>> \in Seq(S) /\ Len(<<b, c>>) = 2 /\ <<b, c>>[1] = b /\ <<b, c>>[2] = c
  OBVIOUS
<1>2. q \in Seq(S) /\ Len(q) = 2 + Len(s) /\ Len(s) \in Nat
  BY <1>1, ConcatProperties, LenProperties
<1>3. \A i \in 1..(2 + Len(s)) : q[i] = IF i <= 2 THEN <<b, c>>[i] ELSE s[i - 2]
  BY <1>1, ConcatProperties
<1>4. t \in Seq(S) /\ Len(t) = Len(s) + 1 /\ t[1] = c /\ \A i \in 1..Len(s) : t[i + 1] = s[i]
  BY InFrontIs
<1> HIDE DEF q, t
<1>5. q[1] = b
  BY <1>1, <1>2, <1>3
<1>6. ASSUME NEW i \in 1..Len(t) PROVE q[i + 1] = t[i]
  <2>1. i + 1 \in 1..(2 + Len(s)) /\ (i = 1 \/ (i - 1 \in 1..Len(s) /\ (i - 1) + 1 = i))
    BY <1>2, <1>4
  <2>2. CASE i = 1
    BY <1>1, <1>3, <1>4, <2>1, <2>2
  <2>3. CASE i # 1
    <3>1. ~(i + 1 <= 2) /\ (i + 1) - 2 = i - 1
      BY <1>2, <1>4, <2>3
    <3>2. q[i + 1] = s[i - 1]
      BY <1>3, <2>1, <3>1
    <3> QED
      BY <1>4, <2>1, <2>3, <3>2
  <2> QED
    BY <2>2, <2>3
<1>7. q = InFront(b, t)
  <2>1. Len(q) = Len(t) + 1
    BY <1>2, <1>4
  <2> QED
    BY <1>2, <1>4, <1>5, <1>6, <2>1, InFrontUnique
<1> QED
  BY <1>7 DEF q, t

\* The n-th character from the right does not depend on what is in front of it.
LEMMA CharOfRest ==
  ASSUME NEW S, NEW c \in S, NEW s \in Seq(S)
  PROVE  /\ Len(s) \in Nat /\ Len(InFront(c, s)) = Len(s) + 1
         /\ \A n \in 1..Len(s) : Char(InFront(c, s), n) = Char(s, n)
         /\ Char(InFront(c, s), Len(s) + 1) = c
         /\ s # <<>> => Len(s) > 0 /\ Char(s, Len(s)) = s[1]
<1> DEFINE t == InFront(c, s)
<1>1. /\ Len(s) \in Nat /\ Len(t) = Len(s) + 1
      /\ t[1] = c /\ \A i \in 1..Len(s) : t[i + 1] = s[i]
  BY InFrontIs
<1> HIDE DEF t
<1>2. ASSUME NEW n \in 1..Len(s) PROVE Char(t, n) = Char(s, n)
  <2>1. /\ Len(s) + 1 - n \in 1..Len(s)
        /\ Len(t) + 1 - n = (Len(s) + 1 - n) + 1
    BY <1>1
  <2> QED
    BY <1>1, <2>1 DEF Char
<1>3. Char(t, Len(s) + 1) = c
  <2>1. Len(t) + 1 - (Len(s) + 1) = 1
    BY <1>1
  <2> QED
    BY <1>1, <2>1 DEF Char
<1>4. s # <<>> => Len(s) > 0 /\ Char(s, Len(s)) = s[1]
  <2>1. Len(s) + 1 - Len(s) = 1
    BY <1>1
  <2> QED
    BY <1>1, <2>1, EmptySeq DEF Char
<1> QED
  BY <1>1, <1>2, <1>3, <1>4 DEF t

\* Nor does what becomes of the last n characters.
LEMMA RestOfRest ==
  ASSUME NEW S, NEW c \in S, NEW s \in Seq(S), NEW add, NEW drop
  PROVE  \A n \in 0..Len(s) : Rest(InFront(c, s), add, drop)[n] = Rest(s, add, drop)[n]
<1> DEFINE t == InFront(c, s)
           f == Rest(t, add, drop)
           g == Rest(s, add, drop)
           D == {n \in Nat : n <= Len(s) => f[n] = g[n]}
<1>1. /\ Len(s) \in Nat /\ Len(t) = Len(s) + 1
      /\ \A n \in 1..Len(s) : Char(t, n) = Char(s, n)
  BY CharOfRest
<1>2. /\ \A n \in 0..Len(t) : f[n] = PassStep(t, add, drop, f, n)
      /\ \A n \in 0..Len(s) : g[n] = PassStep(s, add, drop, g, n)
  <2>1. Len(t) \in Nat
    BY <1>1
  <2> QED
    BY <1>1, <2>1, PassSteps
<1> HIDE DEF f, g, t
<1>3. ASSUME NEW n \in Nat, \A m \in 0..(n - 1) : m \in D PROVE n \in D
  <2> SUFFICES ASSUME n <= Len(s) PROVE f[n] = g[n]
    OBVIOUS
  <2>1. n \in 0..Len(t) /\ n \in 0..Len(s)
    BY <1>1
  <2>2. /\ n # 0 => f[n - 1] = g[n - 1] /\ n \in 1..Len(s)
        /\ n > 1 => f[n - 2] = g[n - 2] /\ n - 1 \in 1..Len(s)
    BY <1>1, <1>3
  <2>3. /\ n # 0 => Char(t, n) = Char(s, n)
        /\ n > 1 => Char(t, n - 1) = Char(s, n - 1)
    BY <1>1, <2>2
  <2>4. PassStep(t, add, drop, f, n) = PassStep(s, add, drop, g, n)
    BY <2>2, <2>3 DEF PassStep
  <2> QED
    BY <1>2, <2>1, <2>4
<1>4. Nat \subseteq D
  <2> HIDE DEF D
  <2> QED
    BY <1>3, FromBelow
<1>5. \A n \in 0..Len(s) : f[n] = g[n]
  BY <1>1, <1>4
<1> QED
  BY <1>5 DEF f, g, t

LEMMA PassEmpty ==
  ASSUME NEW add, NEW drop
  PROVE  Pass(<<>>, add, drop) = <<>>
<1>1. Len(<<>>) = 0 /\ Len(<<>>) \in Nat /\ 0 \in 0..Len(<<>>)
  OBVIOUS
<1>2. Pass(<<>>, add, drop) = PassStep(<<>>, add, drop, Rest(<<>>, add, drop), 0)
  BY <1>1, PassSteps
<1> QED
  BY <1>2 DEF PassStep

\* The character in front, when it does not hide the next one.
LEMMA PassFront ==
  ASSUME NEW S, NEW c \in S, NEW s \in Seq(S), NEW add, NEW drop,
         c = Backslash => s = <<>> \/ s[1] \notin drop
  PROVE  Pass(InFront(c, s), add, drop)
           = IF c \in add THEN <<Backslash, c>> \o Pass(s, add, drop)
             ELSE InFront(c, Pass(s, add, drop))
<1> DEFINE t == InFront(c, s)
           f == Rest(t, add, drop)
           n == Len(s) + 1
<1>1. /\ Len(s) \in Nat /\ Len(t) = Len(s) + 1
      /\ \A m \in 1..Len(s) : Char(t, m) = Char(s, m)
      /\ Char(t, Len(s) + 1) = c
      /\ s # <<>> => Len(s) > 0 /\ Char(s, Len(s)) = s[1]
  BY CharOfRest
<1>2. /\ Pass(t, add, drop) = f[n] /\ f[n] = PassStep(t, add, drop, f, n)
      /\ Pass(s, add, drop) = Rest(s, add, drop)[Len(s)]
  <2>1. Len(t) \in Nat /\ n \in 0..Len(t) /\ n = Len(t)
    BY <1>1
  <2> QED
    BY <1>1, <2>1, PassSteps
<1>3. f[Len(s)] = Pass(s, add, drop)
  <2>1. Len(s) \in 0..Len(s)
    BY <1>1
  <2> QED
    BY <1>2, <2>1, RestOfRest
<1>4. n # 0 /\ n - 1 = Len(s) /\ (n > 1 => Len(s) \in 1..Len(s))
  BY <1>1
<1>5. ~(n > 1 /\ Char(t, n) = Backslash /\ Char(t, n - 1) \in drop)
  <2>1. CASE s = <<>>
    BY <2>1
  <2>2. CASE s # <<>>
    <3>1. Char(t, n - 1) = s[1]
      BY <1>1, <1>4, <2>2
    <3>2. Char(t, n) = c
      BY <1>1
    <3> HIDE DEF t, n
    <3> QED
      BY <2>2, <3>1, <3>2
  <2> QED
    BY <2>1, <2>2
<1>6. Char(t, n) = c
  BY <1>1
<1> HIDE DEF t, f, n
<1>7. Pass(t, add, drop) = IF c \in add THEN <<Backslash, c>> \o f[n - 1]
                           ELSE <<c>> \o f[n - 1]
  BY <1>2, <1>4, <1>5, <1>6 DEF PassStep
<1>8. f[n - 1] = Pass(s, add, drop)
  BY <1>3, <1>4
<1> QED
  BY <1>7, <1>8 DEF InFront, t

\* A backslash in front that hides the next character.
LEMMA PassPair ==
  ASSUME NEW S, Backslash \in S, NEW d \in S, NEW s \in Seq(S), NEW add, NEW drop, d \in drop
  PROVE  Pass(InFront(Backslash, InFront(d, s)), add, drop) = InFront(d, Pass(s, add, drop))
<1> DEFINE r == InFront(d, s)
           t == InFront(Backslash, r)
           f == Rest(t, add, drop)
           n == Len(s) + 2
<1>1. r \in Seq(S) /\ r # <<>> /\ Len(r) = Len(s) + 1 /\ Len(s) \in Nat /\ r[1] = d
  BY InFrontIs
<1>2. /\ Len(t) = Len(r) + 1
      /\ \A m \in 1..Len(r) : Char(t, m) = Char(r, m)
      /\ Char(t, Len(r) + 1) = Backslash
      /\ Char(r, Len(r)) = d
  <2> HIDE DEF r
  <2> QED
    BY <1>1, CharOfRest
<1>3. n = Len(t) /\ n - 1 = Len(r) /\ n - 2 = Len(s) /\ n \in Nat /\ n > 1 /\ n # 0
  BY <1>1, <1>2
<1>4. /\ Pass(t, add, drop) = f[n] /\ f[n] = PassStep(t, add, drop, f, n)
      /\ Pass(s, add, drop) = Rest(s, add, drop)[Len(s)]
  <2>1. Len(t) \in Nat /\ n \in 0..Len(t) /\ n = Len(t)
    BY <1>3
  <2> QED
    BY <1>1, <2>1, PassSteps
<1>5. f[n - 2] = Pass(s, add, drop)
  <2>1. Len(s) \in 0..Len(s) /\ Len(s) \in 0..Len(r)
    BY <1>1
  <2>2. f[Len(s)] = Rest(r, add, drop)[Len(s)]
    <3> HIDE DEF r
    <3> QED
      BY <1>1, <2>1, RestOfRest
  <2>3. Rest(r, add, drop)[Len(s)] = Rest(s, add, drop)[Len(s)]
    BY <1>1, <2>1, RestOfRest
  <2> QED
    BY <1>3, <1>4, <2>2, <2>3
<1>6. Char(t, n) = Backslash /\ Char(t, n - 1) = d
  <2>1. n - 1 \in 1..Len(r) /\ n = Len(r) + 1
    BY <1>1, <1>3
  <2> HIDE DEF n, t, r
  <2> QED
    BY <1>2, <1>3, <2>1
<1> HIDE DEF r, t, f, n
<1>7. Pass(t, add, drop) = <<d>> \o f[n - 2]
  BY <1>3, <1>4, <1>6 DEF PassStep
<1> QED
  BY <1>5, <1>7 DEF InFront, t, r

\* A claim about texts holds when it holds of the empty one and of each text that
\* has one character more than one it holds of.
LEMMA FromFront ==
  ASSUME NEW S, NEW D, <<>> \in D,
         \A c \in S : \A s \in Seq(S) : s \in D => InFront(c, s) \in D
  PROVE  Seq(S) \subseteq D
<1> DEFINE E == {n \in Nat : \A s \in Seq(S) : Len(s) = n => s \in D}
<1>1. ASSUME NEW n \in Nat, \A m \in 0..(n - 1) : m \in E PROVE n \in E
  <2> SUFFICES ASSUME NEW s \in Seq(S), Len(s) = n PROVE s \in D
    OBVIOUS
  <2>1. CASE s = <<>>
    BY <2>1
  <2>2. CASE s # <<>>
    <3>1. PICK c \in S, t \in Seq(S) :
            s = InFront(c, t) /\ Len(t) \in Nat /\ Len(s) = Len(t) + 1
      BY <2>2, InFrontOf
    <3>2. Len(t) \in 0..(n - 1)
      BY <3>1
    <3>3. t \in D
      BY <1>1, <3>2
    <3> QED
      BY <3>1, <3>3
  <2> QED
    BY <2>1, <2>2
<1>2. Nat \subseteq E
  <2> HIDE DEF E
  <2> QED
    BY <1>1, FromBelow
<1>3. ASSUME NEW s \in Seq(S) PROVE s \in D
  <2>1. Len(s) \in Nat
    BY LenProperties
  <2> QED
    BY <1>2, <2>1
<1> QED
  BY <1>3

\* A pass that collapses nothing.
LEMMA PrefixedFront ==
  ASSUME NEW S, Backslash \in S, NEW c \in S, NEW s \in Seq(S), NEW chars,
         Prefixed(s, chars) \in Seq(S)
  PROVE  Prefixed(InFront(c, s), chars)
           = IF c \in chars THEN InFront(Backslash, InFront(c, Prefixed(s, chars)))
             ELSE InFront(c, Prefixed(s, chars))
<1>1. Pass(InFront(c, s), chars, {})
        = IF c \in chars THEN <<Backslash, c>> \o Pass(s, chars, {})
          ELSE InFront(c, Pass(s, chars, {}))
  BY PassFront
<1>2. <<Backslash, c>> \o Prefixed(s, chars) = InFront(Backslash, InFront(c, Prefixed(s, chars)))
  BY TwoInFront
<1> QED
  BY <1>1, <1>2 DEF Prefixed

LEMMA PrefixedTyped ==
  ASSUME NEW S, Backslash \in S, NEW text \in Seq(S), NEW chars
  PROVE  Prefixed(text, chars) \in Seq(S) /\ (Prefixed(text, chars) = <<>> <=> text = <<>>)
<1> DEFINE D == {s \in Seq(S) : /\ Prefixed(s, chars) \in Seq(S)
                                /\ (Prefixed(s, chars) = <<>> <=> s = <<>>)}
<1>1. <<>> \in D
  <2>1. Prefixed(<<>>, chars) = <<>> /\ <<>> \in Seq(S)
    BY PassEmpty DEF Prefixed
  <2> QED
    BY <2>1
<1>2. ASSUME NEW c \in S, NEW s \in Seq(S), s \in D PROVE InFront(c, s) \in D
  <2> DEFINE p == Prefixed(s, chars)
             t == InFront(c, s)
  <2>1. p \in Seq(S)
    BY <1>2
  <2>2. Prefixed(t, chars) = IF c \in chars THEN InFront(Backslash, InFront(c, p)) ELSE InFront(c, p)
    BY <2>1, PrefixedFront
  <2>3. t \in Seq(S) /\ t # <<>>
    BY InFrontIs
  <2> HIDE DEF p, t
  <2>4. InFront(c, p) \in Seq(S) /\ InFront(c, p) # <<>>
    BY <2>1, InFrontIs
  <2>5. InFront(Backslash, InFront(c, p)) \in Seq(S) /\ InFront(Backslash, InFront(c, p)) # <<>>
    BY <2>4, InFrontIs
  <2>6. t \in D
    BY <2>2, <2>3, <2>4, <2>5
  <2> QED
    BY <2>6 DEF t
<1>3. Seq(S) \subseteq D
  <2> HIDE DEF D
  <2> QED
    BY <1>1, <1>2, FromFront
<1> QED
  BY <1>3

\* A pass that prefixes nothing.
LEMMA CollapsedFront ==
  ASSUME NEW S, NEW c \in S, NEW s \in Seq(S), NEW chars,
         c = Backslash => s = <<>> \/ s[1] \notin chars
  PROVE  Collapsed(InFront(c, s), chars) = InFront(c, Collapsed(s, chars))
<1> DEFINE none == {}
<1>1. c \notin none
  OBVIOUS
<1> HIDE DEF none
<1>2. Pass(InFront(c, s), none, chars)
        = IF c \in none THEN <<Backslash, c>> \o Pass(s, none, chars)
          ELSE InFront(c, Pass(s, none, chars))
  BY PassFront
<1>3. Pass(InFront(c, s), none, chars) = InFront(c, Pass(s, none, chars))
  BY <1>1, <1>2
<1> QED
  BY <1>3 DEF Collapsed, none

LEMMA CollapsedPair ==
  ASSUME NEW S, Backslash \in S, NEW d \in S, NEW s \in Seq(S), NEW chars, d \in chars
  PROVE  Collapsed(InFront(Backslash, InFront(d, s)), chars) = InFront(d, Collapsed(s, chars))
BY PassPair DEF Collapsed

\* Whatever is prefixed besides backslashes, a regular expression reads the text.
LEMMA ReadPrefixed ==
  ASSUME NEW chars, Backslash \in chars, Backslash \in Chars, NEW text \in Seq(Chars)
  PROVE  Read(Prefixed(text, chars)) = text
<1> DEFINE D == {s \in Seq(Chars) : Read(Prefixed(s, chars)) = s}
<1>1. <<>> \in D
  BY PassEmpty DEF Prefixed, Collapsed, Read
<1>2. ASSUME NEW c \in Chars, NEW s \in Seq(Chars), s \in D PROVE InFront(c, s) \in D
  <2> DEFINE p == Prefixed(s, chars)
             t == InFront(c, s)
  <2>1. p \in Seq(Chars) /\ Collapsed(p, Chars) = s
    BY <1>2, PrefixedTyped DEF Read
  <2>2. Prefixed(t, chars) = IF c \in chars THEN InFront(Backslash, InFront(c, p)) ELSE InFront(c, p)
    BY <2>1, PrefixedFront
  <2>3. t \in Seq(Chars)
    BY InFrontIs
  <2> HIDE DEF p
  <2>4. Collapsed(InFront(Backslash, InFront(c, p)), Chars) = t
    BY <2>1, CollapsedPair
  <2>5. c \notin chars => Collapsed(InFront(c, p), Chars) = t
    <3>1. c \notin chars => c # Backslash
      OBVIOUS
    <3> QED
      BY <2>1, <3>1, CollapsedFront
  <2> HIDE DEF t
  <2>6. t \in D
    BY <2>2, <2>3, <2>4, <2>5 DEF Read
  <2> QED
    BY <2>6 DEF t
<1>3. Seq(Chars) \subseteq D
  <2> HIDE DEF D
  <2> QED
    BY <1>1, <1>2, FromFront
<1> QED
  BY <1>3

\* What the YAML reader makes of what the writer wrote: quotes stay prefixed.
LEMMA YamlOfEscaped ==
  ASSUME {Backslash, Quote, "."} \subseteq Chars, NEW text \in Seq(Chars)
  PROVE  from_yaml(to_yaml(escape(text))) = Prefixed(text, {Backslash, ".", Quote})
<1> DEFINE esc(s)  == Prefixed(s, {Backslash, "."})
           yaml_(s) == Prefixed(s, {Backslash, Quote})
           back(s) == Collapsed(s, {Backslash})
           all(s)  == Prefixed(s, {Backslash, ".", Quote})
           D == {s \in Seq(Chars) : back(yaml_(esc(s))) = all(s)}
<1>1. <<>> \in D
  BY PassEmpty DEF Prefixed, Collapsed
<1>0. /\ Backslash \in Chars
      /\ \A s \in Seq(Chars) : esc(s) \in Seq(Chars) /\ yaml_(s) \in Seq(Chars) /\ all(s) \in Seq(Chars)
  BY PrefixedTyped
<1>f. \A c \in Chars : \A s \in Seq(Chars) :
        /\ InFront(c, s) \in Seq(Chars) /\ InFront(c, s)[1] = c
        /\ esc(InFront(c, s)) = IF c \in {Backslash, "."} THEN InFront(Backslash, InFront(c, esc(s)))
                                ELSE InFront(c, esc(s))
        /\ yaml_(InFront(c, s)) = IF c \in {Backslash, Quote} THEN InFront(Backslash, InFront(c, yaml_(s)))
                                 ELSE InFront(c, yaml_(s))
        /\ all(InFront(c, s)) = IF c \in {Backslash, ".", Quote} THEN InFront(Backslash, InFront(c, all(s)))
                                ELSE InFront(c, all(s))
  <2> SUFFICES ASSUME NEW c \in Chars, NEW s \in Seq(Chars)
      PROVE  /\ InFront(c, s) \in Seq(Chars) /\ InFront(c, s)[1] = c
             /\ esc(InFront(c, s)) = IF c \in {Backslash, "."} THEN InFront(Backslash, InFront(c, esc(s)))
                                     ELSE InFront(c, esc(s))
             /\ yaml_(InFront(c, s)) = IF c \in {Backslash, Quote}
                                         THEN InFront(Backslash, InFront(c, yaml_(s)))
                                       ELSE InFront(c, yaml_(s))
             /\ all(InFront(c, s)) = IF c \in {Backslash, ".", Quote}
                                       THEN InFront(Backslash, InFront(c, all(s)))
                                     ELSE InFront(c, all(s))
    OBVIOUS
  <2>1. InFront(c, s) \in Seq(Chars) /\ InFront(c, s)[1] = c
    BY InFrontIs
  <2>2. esc(InFront(c, s)) = IF c \in {Backslash, "."} THEN InFront(Backslash, InFront(c, esc(s)))
                             ELSE InFront(c, esc(s))
    <3> DEFINE chars == {Backslash, "."}
    <3> HIDE DEF chars
    <3>1. Prefixed(s, chars) \in Seq(Chars)
      BY <1>0, PrefixedTyped
    <3>2. Prefixed(InFront(c, s), chars)
            = IF c \in chars THEN InFront(Backslash, InFront(c, Prefixed(s, chars)))
              ELSE InFront(c, Prefixed(s, chars))
      BY <1>0, <3>1, PrefixedFront
    <3> QED
      BY <3>2 DEF chars
  <2>3. yaml_(InFront(c, s)) = IF c \in {Backslash, Quote} THEN InFront(Backslash, InFront(c, yaml_(s)))
                               ELSE InFront(c, yaml_(s))
    <3> DEFINE chars == {Backslash, Quote}
    <3> HIDE DEF chars
    <3>1. Prefixed(s, chars) \in Seq(Chars)
      BY <1>0, PrefixedTyped
    <3>2. Prefixed(InFront(c, s), chars)
            = IF c \in chars THEN InFront(Backslash, InFront(c, Prefixed(s, chars)))
              ELSE InFront(c, Prefixed(s, chars))
      BY <1>0, <3>1, PrefixedFront
    <3> QED
      BY <3>2 DEF chars
  <2>4. all(InFront(c, s)) = IF c \in {Backslash, ".", Quote} THEN InFront(Backslash, InFront(c, all(s)))
                             ELSE InFront(c, all(s))
    <3> DEFINE chars == {Backslash, ".", Quote}
    <3> HIDE DEF chars
    <3>1. Prefixed(s, chars) \in Seq(Chars)
      BY <1>0, PrefixedTyped
    <3>2. Prefixed(InFront(c, s), chars)
            = IF c \in chars THEN InFront(Backslash, InFront(c, Prefixed(s, chars)))
              ELSE InFront(c, Prefixed(s, chars))
      BY <1>0, <3>1, PrefixedFront
    <3> QED
      BY <3>2 DEF chars
  <2> HIDE DEF esc, yaml_, all
  <2> QED
    BY <2>1, <2>2, <2>3, <2>4
<1>b. \A s \in Seq(Chars) :
        /\ back(InFront(Backslash, InFront(Backslash, s))) = InFront(Backslash, back(s))
        /\ \A c \in Chars : c # Backslash =>
             /\ back(InFront(c, s)) = InFront(c, back(s))
             /\ back(InFront(Backslash, InFront(c, s))) = InFront(Backslash, InFront(c, back(s)))
  <2> SUFFICES ASSUME NEW s \in Seq(Chars)
      PROVE /\ back(InFront(Backslash, InFront(Backslash, s))) = InFront(Backslash, back(s))
            /\ \A c \in Chars : c # Backslash =>
                 /\ back(InFront(c, s)) = InFront(c, back(s))
                 /\ back(InFront(Backslash, InFront(c, s))) = InFront(Backslash, InFront(c, back(s)))
    OBVIOUS
  <2>1. back(InFront(Backslash, InFront(Backslash, s))) = InFront(Backslash, back(s))
    BY <1>0, CollapsedPair
  <2>2. ASSUME NEW c \in Chars, c # Backslash
        PROVE  /\ back(InFront(c, s)) = InFront(c, back(s))
               /\ back(InFront(Backslash, InFront(c, s))) = InFront(Backslash, InFront(c, back(s)))
    <3>1. back(InFront(c, s)) = InFront(c, back(s))
      BY <2>2, CollapsedFront
    <3>2. InFront(c, s) \in Seq(Chars) /\ InFront(c, s)[1] \notin {Backslash}
      BY <1>f, <2>2
    <3>3. back(InFront(Backslash, InFront(c, s))) = InFront(Backslash, back(InFront(c, s)))
      BY <1>0, <3>2, CollapsedFront
    <3> QED
      BY <3>1, <3>3
  <2> QED
    BY <2>1, <2>2
<1>2. ASSUME NEW c \in Chars, NEW s \in Seq(Chars), s \in D PROVE InFront(c, s) \in D
  <2> DEFINE e == esc(s)
             y == yaml_(e)
             t == InFront(c, s)
  <2>1. e \in Seq(Chars) /\ y \in Seq(Chars) /\ back(y) = all(s) /\ t \in Seq(Chars)
    BY <1>0, <1>2, <1>f
  <2>2. /\ esc(t) = IF c \in {Backslash, "."} THEN InFront(Backslash, InFront(c, e)) ELSE InFront(c, e)
        /\ all(t) = IF c \in {Backslash, ".", Quote} THEN InFront(Backslash, InFront(c, all(s)))
                    ELSE InFront(c, all(s))
    BY <1>f
  <2>3. \A d \in Chars : \A q \in Seq(Chars) :
          /\ InFront(d, q) \in Seq(Chars)
          /\ yaml_(InFront(d, q)) = IF d \in {Backslash, Quote} THEN InFront(Backslash, InFront(d, yaml_(q)))
                                    ELSE InFront(d, yaml_(q))
    BY <1>f
  <2> HIDE DEF esc, yaml_, back, all
  <2>4. back(yaml_(esc(t))) = all(t)
    <3>1. CASE c = Backslash
      <4>1. esc(t) = InFront(Backslash, InFront(Backslash, e))
        BY <2>2, <3>1
      <4>2. yaml_(InFront(Backslash, e)) = InFront(Backslash, InFront(Backslash, y))
        BY <1>0, <2>1, <2>3
      <4>3. yaml_(esc(t)) = InFront(Backslash, InFront(Backslash, InFront(Backslash, InFront(Backslash, y))))
        BY <1>0, <2>1, <2>3, <4>1, <4>2
      <4>4. back(yaml_(esc(t))) = InFront(Backslash, back(InFront(Backslash, InFront(Backslash, y))))
        BY <1>0, <1>b, <2>1, <2>3, <4>3
      <4>5. back(InFront(Backslash, InFront(Backslash, y))) = InFront(Backslash, back(y))
        BY <1>b, <2>1
      <4> QED
        BY <2>1, <2>2, <3>1, <4>4, <4>5
    <3>2. CASE c = "." /\ c # Backslash /\ c # Quote
      <4>1. esc(t) = InFront(Backslash, InFront(c, e))
        BY <2>2, <3>2
      <4>2. yaml_(InFront(c, e)) = InFront(c, y)
        BY <2>1, <2>3, <3>2
      <4>3. yaml_(esc(t)) = InFront(Backslash, InFront(Backslash, InFront(c, y)))
        BY <1>0, <2>1, <2>3, <4>1, <4>2
      <4>4. back(yaml_(esc(t))) = InFront(Backslash, back(InFront(c, y)))
        BY <1>b, <2>1, <2>3, <4>3
      <4>5. back(InFront(c, y)) = InFront(c, back(y))
        BY <1>b, <2>1, <3>2
      <4> QED
        BY <2>1, <2>2, <3>2, <4>4, <4>5
    <3>3. CASE c = Quote /\ c # Backslash /\ c # "."
      <4>1. esc(t) = InFront(c, e)
        BY <2>2, <3>3
      <4>2. yaml_(esc(t)) = InFront(Backslash, InFront(c, y))
        BY <2>1, <2>3, <3>3, <4>1
      <4>3. back(yaml_(esc(t))) = InFront(Backslash, InFront(c, back(y)))
        BY <1>b, <2>1, <3>3, <4>2
      <4> QED
        BY <2>1, <2>2, <3>3, <4>3
    <3>4. CASE c \notin {Backslash, ".", Quote}
      <4>1. esc(t) = InFront(c, e)
        BY <2>2, <3>4
      <4>2. yaml_(esc(t)) = InFront(c, y)
        BY <2>1, <2>3, <3>4, <4>1
      <4>3. back(yaml_(esc(t))) = InFront(c, back(y))
        BY <1>b, <2>1, <3>4, <4>2
      <4> QED
        BY <2>1, <2>2, <3>4, <4>3
    <3>5. Backslash # "." /\ Backslash # Quote /\ Quote # "."
      BY DEF Backslash, Quote
    <3> QED
      BY <3>1, <3>2, <3>3, <3>4, <3>5
  <2> HIDE DEF t
  <2>5. t \in D
    BY <2>1, <2>4
  <2> QED
    BY <2>5 DEF t
<1>3. Seq(Chars) \subseteq D
  <2> HIDE DEF D
  <2> QED
    BY <1>1, <1>2, FromFront
<1> QED
  BY <1>3 DEF from_yaml, to_yaml, escape

-----------------------------------------------------------------------------
(* What a pattern reads, before and after the YAML file.                   *)

\* Each part of a synthesised pattern has its text escaped, or has none.
Escaped(pattern) ==
  \A k \in DOMAIN pattern : \E text \in Seq(Chars) : pattern[k].text = escape(text)

LEMMA Characters == {Backslash, Quote, "."} \subseteq Chars /\ Backslash \in Chars
BY OnboarderAssumption

LEMMA EscapedText ==
  ASSUME NEW text \in Seq(Chars)
  PROVE  LET e == escape(text)
             y == from_yaml(to_yaml(e))
         IN (y = <<>> <=> e = <<>>) /\ Read(y) = Read(e)
<1> DEFINE E == {Backslash, "."}
           Y == {Backslash, ".", Quote}
<1>1. from_yaml(to_yaml(escape(text))) = Prefixed(text, Y)
  BY Characters, YamlOfEscaped
<1>2. Backslash \in E /\ Backslash \in Y /\ Backslash \in Chars
  BY Characters
<1>3. escape(text) = Prefixed(text, E)
  BY DEF escape
<1> HIDE DEF E, Y
<1>4. Read(Prefixed(text, E)) = text /\ Read(Prefixed(text, Y)) = text
  BY <1>2, ReadPrefixed
<1>5. (Prefixed(text, E) = <<>> <=> text = <<>>) /\ (Prefixed(text, Y) = <<>> <=> text = <<>>)
  BY <1>2, PrefixedTyped
<1> QED
  BY <1>1, <1>3, <1>4, <1>5

\* Two patterns that differ in the spelling of their literals only.
SameReading(p, q) ==
  /\ DOMAIN p = DOMAIN q
  /\ \A k \in DOMAIN p :
       /\ p[k].gap = q[k].gap /\ p[k].kind = q[k].kind /\ p[k].names = q[k].names
       /\ (p[k].text = <<>>) <=> (q[k].text = <<>>)
       /\ Read(p[k].text) = Read(q[k].text)

LEMMA SameCaptures ==
  ASSUME NEW p, NEW q, SameReading(p, q), NEW line
  PROVE  captures(p, line) = captures(q, line)
<1> DEFINE gap(r)    == [k \in DOMAIN r |-> r[k].gap]
           places(r) == [k \in DOMAIN r |-> {i \in DOMAIN line : Accepts(r[k], line[i])}]
           at(r)     == Places(gap(r), places(r), Len(line))
<1>1. gap(p) = gap(q)
  BY DEF SameReading
<1>2. places(p) = places(q)
  <2>1. ASSUME NEW k \in DOMAIN p, NEW t PROVE Accepts(p[k], t) <=> Accepts(q[k], t)
    <3>1. p[k].kind = q[k].kind
      BY DEF SameReading
    <3>2. (p[k].text = <<>>) <=> (q[k].text = <<>>)
      BY DEF SameReading
    <3>3. Read(p[k].text) = Read(q[k].text)
      BY DEF SameReading
    <3> QED
      BY <3>1, <3>2, <3>3 DEF Accepts
  <2>2. ASSUME NEW k \in DOMAIN p
        PROVE {i \in DOMAIN line : Accepts(p[k], line[i])} = {i \in DOMAIN line : Accepts(q[k], line[i])}
    BY <2>1
  <2>3. DOMAIN p = DOMAIN q
    BY DEF SameReading
  <2> QED
    BY <2>2, <2>3
<1>3. at(p) = at(q) /\ DOMAIN p = DOMAIN q
  BY <1>1, <1>2 DEF SameReading
<1>4. \A r : captures(r, line)
               = IF at(r) = <<>> THEN <<>> ELSE [k \in DOMAIN r |-> line[at(r)[k]]]
  BY DEF captures
<1> HIDE DEF at
<1> QED
  BY <1>3, <1>4

LEMMA SameCompiles ==
  ASSUME NEW p, NEW q, SameReading(p, q)
  PROVE  Compiles(p) <=> Compiles(q)
<1>1. DOMAIN p = DOMAIN q /\ \A k \in DOMAIN p : p[k].names = q[k].names
  BY DEF SameReading
<1> QED
  BY <1>1 DEF Compiles

LEMMA SameParse ==
  ASSUME NEW d, NEW e, SameReading(d.regex_pattern, e.regex_pattern), NEW line
  PROVE  parse(d, line) = parse(e, line)
<1> DEFINE p == d.regex_pattern
           q == e.regex_pattern
           caps == captures(p, line)
           from(r, name) == {caps[k] : k \in {j \in DOMAIN caps : name \in r[j].names}}
<1>1. caps = captures(q, line) /\ (Compiles(p) <=> Compiles(q))
  BY SameCaptures, SameCompiles
<1>2. caps # <<>> => DOMAIN caps = DOMAIN p
  BY DEF captures
<1>3. \A k \in DOMAIN p : p[k].names = q[k].names
  BY DEF SameReading
<1>4. ASSUME caps # <<>>, NEW name PROVE from(p, name) = from(q, name)
  <2> HIDE DEF p, q, caps
  <2>1. {j \in DOMAIN caps : name \in p[j].names} = {j \in DOMAIN caps : name \in q[j].names}
    BY <1>2, <1>3, <1>4
  <2> QED
    BY <2>1
<1>5. parse(d, line) = IF ~Compiles(p) \/ caps = <<>> THEN <<>>
                       ELSE <<from(p, "src_ip"), from(p, "src_port"),
                              from(p, "dst_ip"), from(p, "dst_port")>>
  BY Zenon DEF parse
<1>6. parse(e, line) = IF ~Compiles(q) \/ captures(q, line) = <<>> THEN <<>>
                       ELSE LET caps2 == captures(q, line)
                                from2(name) == {caps2[k] : k \in {j \in DOMAIN caps2 : name \in q[j].names}}
                            IN <<from2("src_ip"), from2("src_port"),
                                 from2("dst_ip"), from2("dst_port")>>
  BY Zenon DEF parse
<1>7. parse(e, line) = IF ~Compiles(q) \/ caps = <<>> THEN <<>>
                       ELSE <<from(q, "src_ip"), from(q, "src_port"),
                              from(q, "dst_ip"), from(q, "dst_port")>>
  <2> HIDE DEF caps, q, p
  <2> QED
    BY <1>1, <1>6
<1> HIDE DEF from, caps, p, q
<1> QED
  BY <1>1, <1>4, <1>5, <1>7

\* A definition that went through the YAML file.
Loaded(def) == Imported(Exported(def))

LEMMA LoadedIs ==
  ASSUME NEW def
  PROVE  /\ Loaded(def).sample_logs = def.sample_logs /\ Exported(def).vendor = def.vendor
         /\ Loaded(def).vendor = def.vendor
         /\ DOMAIN Loaded(def).regex_pattern = DOMAIN def.regex_pattern
         /\ \A k \in DOMAIN def.regex_pattern :
              Loaded(def).regex_pattern[k]
                = Spelled(def.regex_pattern[k], from_yaml(to_yaml(def.regex_pattern[k].text)))
<1> DEFINE p == def.regex_pattern
           q == [k \in DOMAIN p |-> Spelled(p[k], to_yaml(p[k].text))]
           r == [k \in DOMAIN q |-> Spelled(q[k], from_yaml(q[k].text))]
<1>1. Exported(def) = ParserDefinition(def.vendor, q, def.sample_logs)
  BY DEF Exported
<1>2. /\ Exported(def).vendor = def.vendor /\ Exported(def).regex_pattern = q
      /\ Exported(def).sample_logs = def.sample_logs
  BY <1>1 DEF ParserDefinition
<1>3. Loaded(def) = ParserDefinition(def.vendor, r, def.sample_logs)
  BY <1>2 DEF Loaded, Imported
<1>4. /\ Loaded(def).vendor = def.vendor /\ Loaded(def).regex_pattern = r
      /\ Loaded(def).sample_logs = def.sample_logs
  BY <1>3 DEF ParserDefinition
<1>5. ASSUME NEW k \in DOMAIN p PROVE r[k] = Spelled(p[k], from_yaml(to_yaml(p[k].text)))
  <2>1. q[k] = Spelled(p[k], to_yaml(p[k].text)) /\ r[k] = Spelled(q[k], from_yaml(q[k].text))
    OBVIOUS
  <2>2. /\ q[k].text = to_yaml(p[k].text) /\ q[k].gap = p[k].gap
        /\ q[k].kind = p[k].kind /\ q[k].names = p[k].names
    BY <2>1 DEF Spelled, Part
  <2> HIDE DEF q, r
  <2> QED
    BY <2>1, <2>2 DEF Spelled
<1>6. DOMAIN r = DOMAIN p
  OBVIOUS
<1> HIDE DEF r
<1> QED
  BY <1>2, <1>4, <1>5, <1>6

\* It reads from every line what the one that was exported reads.
LEMMA LoadedReads ==
  ASSUME NEW def, Escaped(def.regex_pattern)
  PROVE  \A line : parse(def, line) = parse(Loaded(def), line)
<1> DEFINE p == def.regex_pattern
           q == Loaded(def).regex_pattern
<1>1. ASSUME NEW k \in DOMAIN p
      PROVE  /\ p[k].gap = q[k].gap /\ p[k].kind = q[k].kind /\ p[k].names = q[k].names
             /\ (p[k].text = <<>>) <=> (q[k].text = <<>>)
             /\ Read(p[k].text) = Read(q[k].text)
  <2>1. q[k] = Spelled(p[k], from_yaml(to_yaml(p[k].text)))
    BY LoadedIs
  <2>2. /\ q[k].text = from_yaml(to_yaml(p[k].text)) /\ q[k].gap = p[k].gap
        /\ q[k].kind = p[k].kind /\ q[k].names = p[k].names
    BY <2>1 DEF Spelled, Part
  <2>3. PICK text \in Seq(Chars) : p[k].text = escape(text)
    BY DEF Escaped
  <2>4. /\ (p[k].text = <<>>) <=> (from_yaml(to_yaml(p[k].text)) = <<>>)
        /\ Read(p[k].text) = Read(from_yaml(to_yaml(p[k].text)))
    BY <2>3, EscapedText
  <2> HIDE DEF p, q
  <2> QED
    BY <2>2, <2>4
<1>2. SameReading(p, q)
  <2>1. DOMAIN p = DOMAIN q
    BY LoadedIs
  <2> HIDE DEF p, q
  <2> QED
    BY <1>1, <2>1 DEF SameReading
<1> QED
  BY <1>2, SameParse

-----------------------------------------------------------------------------
(* What is generated.                                                      *)

LEMMA EscapedParts ==
  /\ \A gap, kind, names : \E text \in Seq(Chars) : Group(gap, kind, names).text = escape(text)
  /\ \A t \in LineTokens : \E text \in Seq(Chars) : Literal(t).text = escape(text)
<1>1. <<>> \in Seq(Chars) /\ escape(<<>>) = <<>>
  BY PassEmpty DEF escape, Prefixed
<1>2. ASSUME NEW gap, NEW kind, NEW names PROVE Group(gap, kind, names).text = <<>>
  BY DEF Group, Part
<1>3. ASSUME NEW t \in LineTokens PROVE t.text \in Seq(Chars) /\ Literal(t).text = escape(t.text)
  <2>1. t.text \in Seq(Chars)
    BY OnboarderAssumption
  <2>2. Literal(t).text = escape(t.text)
    BY DEF Literal, Part
  <2> QED
    BY <2>1, <2>2
<1> QED
  BY <1>1, <1>2, <1>3

LEMMA FlowEscaped ==
  ASSUME NEW first
  PROVE  Escaped(synthesize_flow_regex(first))
<1> DEFINE flow(gap, class) == Group(gap, Plain({class}), Source \cup Target)
           any == Group(FALSE, Anything, {})
           word(names) == Group(FALSE, Plain(Letters), names)
           is(class, names) == Group(FALSE, Plain({class}), names)
           Good(part) == \E text \in Seq(Chars) : part.text = escape(text)
           a == <<any, word({"action"}), flow(FALSE, "flow:")>>
           b == <<is("rt", {}), any, is("session", {}), word({"action_verb"}), flow(TRUE, "flow/"),
                  is("tail", {"protocol"})>>
           c == <<flow(TRUE, "flow/")>>
<1>1. synthesize_flow_regex(first) \in {a, b, c}
  BY DEF synthesize_flow_regex
<1>0. \A gap, kind, names : Good(Group(gap, kind, names))
  BY EscapedParts
<1>2. /\ Good(any) /\ \A gap, class : Good(flow(gap, class))
      /\ \A names : Good(word(names)) /\ \A class : Good(is(class, names))
  <2> HIDE DEF Good
  <2> QED
    BY <1>0
<1> HIDE DEF flow, any, word, is, Good
<1>3. ASSUME NEW p \in {a, b, c}, NEW k \in DOMAIN p PROVE Good(p[k])
  <2>1. CASE p = a
    <3>1. k \in {1, 2, 3} /\ p[1] = any /\ p[2] = word({"action"}) /\ p[3] = flow(FALSE, "flow:")
      BY <2>1
    <3> QED
      BY <1>2, <3>1
  <2>2. CASE p = b
    <3>1. /\ k \in {1, 2, 3, 4, 5, 6} /\ p[1] = is("rt", {}) /\ p[2] = any
          /\ p[3] = is("session", {}) /\ p[4] = word({"action_verb"})
          /\ p[5] = flow(TRUE, "flow/") /\ p[6] = is("tail", {"protocol"})
      BY <2>2
    <3> QED
      BY <1>2, <3>1
  <2>3. CASE p = c
    <3>1. k = 1 /\ p[1] = flow(TRUE, "flow/")
      BY <2>3
    <3> QED
      BY <1>2, <3>1
  <2> QED
    BY <2>1, <2>2, <2>3
<1>4. ASSUME NEW p \in {a, b, c} PROVE Escaped(p)
  BY <1>3, <1>4 DEF Escaped, Good
<1> HIDE DEF a, b, c
<1> QED
  BY <1>1, <1>4

LEMMA KeyValueEscaped ==
  ASSUME NEW first
  PROVE  Escaped(synthesize_kv_regex(first))
<1> DEFINE accepts == [action |-> Letters, src_ip |-> {"ip"}, src_port |-> {"port"},
                       dst_ip |-> {"ip"}, dst_port |-> {"port"}, protocol |-> Letters \cup {"port"}]
           starts(i) == /\ first[i].field \in DOMAIN accepts
                        /\ \A j \in 1..(i - 1) : first[j].field # first[i].field
           keys == {i \in DOMAIN first : starts(i)}
           key(k) == CHOOSE i \in keys : Cardinality({j \in keys : j < i}) = k - 1
           part(field) == Group(TRUE, Valued(field, accepts[field]), {field})
           p == [k \in 1..Cardinality(keys) |-> part(first[key(k)].field)]
<1>1. synthesize_kv_regex(first) = p
  BY Zenon DEF synthesize_kv_regex
<1>2. ASSUME NEW field PROVE \E text \in Seq(Chars) : part(field).text = escape(text)
  <2> DEFINE kind == Valued(field, accepts[field])
             names == {field}
  <2> HIDE DEF kind, names
  <2>1. \E text \in Seq(Chars) : Group(TRUE, kind, names).text = escape(text)
    BY EscapedParts
  <2> QED
    BY <2>1 DEF kind, names
<1> HIDE DEF part, key, keys
<1>3. ASSUME NEW k \in DOMAIN p PROVE \E text \in Seq(Chars) : p[k].text = escape(text)
  <2>1. p[k] = part(first[key(k)].field)
    OBVIOUS
  <2> QED
    BY <1>2, <2>1
<1>4. Escaped(p)
  <2> HIDE DEF p
  <2> QED
    BY <1>3 DEF Escaped
<1> QED
  BY <1>1, <1>4

\* A column that all samples have is one of the first sample's.
LEMMA PositionalEscaped ==
  ASSUME NEW samples \in Seq(Seq(LineTokens)), samples # <<>>
  PROVE  Escaped(synthesize_positional_regex(samples))
<1> DEFINE lengths == {Len(s) : s \in Range(samples)}
           min_len == CHOOSE n \in lengths : \A s \in Range(samples) : n <= Len(s)
           p == synthesize_positional_regex(samples)
           good(part) == \E text \in Seq(Chars) : part.text = escape(text)
<1>1. samples[1] \in Range(samples) /\ samples[1] \in Seq(LineTokens)
  <2>1. Len(samples) \in Nat /\ Len(samples) # 0 /\ DOMAIN samples = 1..Len(samples)
    BY LenProperties, EmptySeq
  <2>2. 1 \in DOMAIN samples
    BY <2>1
  <2> QED
    BY <2>1, <2>2, ElementOfSeq DEF Range
<1>2. min_len \in Nat /\ min_len <= Len(samples[1])
  <2>1. \A s \in Range(samples) : Len(s) \in Nat
    <3>1. ASSUME NEW i \in DOMAIN samples PROVE Len(samples[i]) \in Nat
      <4>1. i \in 1..Len(samples)
        BY LenProperties
      <4> QED
        BY <4>1, ElementOfSeq, LenProperties
    <3> QED
      BY <3>1 DEF Range
  <2>2. lengths \subseteq Nat /\ lengths # {}
    BY <1>1, <2>1
  <2>3. \E n \in lengths : \A s \in Range(samples) : n <= Len(s)
    <3>1. PICK n \in lengths : \A m \in lengths : n <= m
      <4> HIDE DEF lengths
      <4> QED
        BY <2>2, LeastMember
    <3> QED
      BY <3>1
  <2>4. min_len \in lengths /\ \A s \in Range(samples) : min_len <= Len(s)
    <3> HIDE DEF lengths
    <3> QED
      BY <2>3
  <2> HIDE DEF min_len, lengths
  <2> QED
    BY <1>1, <2>2, <2>4
<1>3. ASSUME NEW i \in 1..min_len PROVE samples[1][i] \in LineTokens
  <2>1. Len(samples[1]) \in Nat
    BY <1>1, LenProperties
  <2>2. i \in 1..Len(samples[1])
    <3> HIDE DEF min_len
    <3> QED
      BY <1>2, <2>1
  <2> QED
    BY <1>1, <2>2, ElementOfSeq
<1> DEFINE col(i)  == {s[i] : s \in Range(samples)}
           is(i, classes) == Cardinality(col(i)) > 1 /\ \A t \in col(i) : Is(t, Plain(classes))
           IpPort == {"ip:port", "ip/port"}
           ip_count(i)   == Cardinality({j \in 1..(i - 1) : is(j, IpPort) \/ is(j, {"ip"})})
           port_count(i) == Cardinality({j \in 1..(i - 1) : is(j, IpPort) \/ is(j, {"port"})})
           part(i) ==
             CASE Cardinality(col(i)) = 1 -> Literal(samples[1][i])
               [] is(i, IpPort) -> Group(FALSE, Plain({samples[1][i].class}),
                                         IF ip_count(i) = 0 THEN Source ELSE Target)
               [] is(i, {"ip"}) -> Group(FALSE, Plain({"ip"}),
                                         {IF ip_count(i) = 0 THEN "src_ip" ELSE "dst_ip"})
               [] is(i, {"port"}) -> Group(FALSE, Plain({"port"}),
                                           {IF port_count(i) = 0 THEN "src_port" ELSE "dst_port"})
               [] is(i, {"proto"}) -> Group(FALSE, Plain(Letters \cup {"port"}), {"protocol"})
               [] is(i, {"action"}) -> Group(FALSE, Plain(Letters), {"action"})
               [] is(i, {"timestamp"}) -> Group(FALSE, Anything, {"timestamp"})
               [] OTHER -> Group(FALSE, Anything, {})
<1>4. p = [i \in 1..min_len |-> part(i)]
  BY Zenon DEF synthesize_positional_regex
<1>5. ASSUME NEW i \in 1..min_len PROVE good(part(i))
  <2>1. good(Literal(samples[1][i])) /\ \A gap, kind, names : good(Group(gap, kind, names))
    BY <1>3, EscapedParts
  <2> HIDE DEF good, is, col, ip_count, port_count, min_len, IpPort
  <2> QED
    BY <2>1
<1> HIDE DEF part, min_len, p
<1>6. ASSUME NEW k \in DOMAIN p PROVE good(p[k])
  BY <1>4, <1>5
<1>7. Escaped(p)
  BY <1>6 DEF Escaped
<1> QED
  BY <1>7 DEF p

\* The parsers that any run may generate.
Generated == UNION {generate_parser[vendor][file] : vendor \in Vendors, file \in SampleFiles}

LEMMA GeneratedIs ==
  ASSUME NEW def \in Generated
  PROVE  Escaped(def.regex_pattern) /\ validate_parser(def.regex_pattern, def.sample_logs)
<1>1. PICK vendor \in Vendors, file \in SampleFiles : def \in generate_parser[vendor][file]
  BY DEF Generated
<1> DEFINE m == IF Len(file) < 10 THEN Len(file) ELSE 10
           samples == SubSeq(file, 1, m)
           pattern == synthesize_regex(samples)
<1>2. /\ Len(samples) >= 3 /\ pattern # <<>> /\ validate_parser(pattern, samples)
      /\ def = ParserDefinition(vendor, pattern, samples)
  <2>1. generate_parser[vendor][file]
          = IF Len(samples) >= 3 /\ pattern # <<>> /\ validate_parser(pattern, samples)
              THEN {ParserDefinition(vendor, pattern, samples)} ELSE {}
    BY DEF generate_parser
  <2> HIDE DEF pattern, samples
  <2> QED
    BY <1>1, <2>1
<1>3. def.regex_pattern = pattern /\ def.sample_logs = samples
  BY <1>2 DEF ParserDefinition
<1>4. samples \in Seq(Seq(LineTokens)) /\ samples # <<>>
  <2>1. file \in Seq(Seq(LineTokens) \ {<<>>})
    BY OnboarderAssumption
  <2>2. Len(file) \in Nat
    BY <2>1, LenProperties
  <2>3. m \in Int /\ \A i \in 1..m : i \in 1..Len(file)
    BY <2>2
  <2>4. \A i \in 1..m : file[i] \in Seq(LineTokens)
    <3> HIDE DEF m
    <3> QED
      BY <2>1, <2>3, ElementOfSeq
  <2>5. samples \in Seq(Seq(LineTokens))
    <3> HIDE DEF m
    <3> QED
      BY <2>3, <2>4, SubSeqProperties
  <2>6. samples # <<>>
    <3>1. Len(<<>>) = 0
      OBVIOUS
    <3> HIDE DEF samples
    <3> QED
      BY <1>2, <3>1
  <2> QED
    BY <2>5, <2>6
<1> HIDE DEF samples
<1>5. Escaped(pattern)
  <2>1. pattern \in {synthesize_flow_regex(samples[1]), synthesize_kv_regex(samples[1]),
                     synthesize_positional_regex(samples)}
    BY DEF synthesize_regex
  <2> QED
    BY <1>4, <2>1, FlowEscaped, KeyValueEscaped, PositionalEscaped
<1> HIDE DEF pattern
<1> QED
  BY <1>2, <1>3, <1>5

\* Of the samples of a parser that is as good as a generated one, each yields an
\* event with both ends, and every token of it is valid.
LEMMA SamplesYieldEvents ==
  ASSUME NEW def, validate_parser(def.regex_pattern, def.sample_logs),
         NEW i \in DOMAIN def.sample_logs
  PROVE  LET event == parse(def, def.sample_logs[i])
         IN /\ event # <<>> /\ event[1] # {} /\ event[3] # {}
            /\ \A t \in UNION Range(event) : t.valid
<1> DEFINE p == def.regex_pattern
           line == def.sample_logs[i]
           caps == captures(p, line)
           from(name) == {caps[k] : k \in {j \in DOMAIN caps : name \in p[j].names}}
           event == <<from("src_ip"), from("src_port"), from("dst_ip"), from("dst_port")>>
<1>1. Compiles(p) /\ SampleOK(p, line)
  BY DEF validate_parser
<1>2. /\ caps # <<>> /\ Carries(p, "src_ip") /\ Carries(p, "dst_ip")
      /\ \A k \in DOMAIN p : p[k].names \cap (Source \cup Target) # {} => caps[k].valid
  BY <1>1 DEF SampleOK
<1>3. DOMAIN caps = DOMAIN p
  BY <1>2 DEF captures
<1>4. parse(def, line) = event
  <2>1. parse(def, line) = IF ~Compiles(p) \/ caps = <<>> THEN <<>> ELSE event
    BY Zenon DEF parse
  <2> HIDE DEF event, caps, p
  <2> QED
    BY <1>1, <1>2, <2>1
<1> HIDE DEF caps, line, p
<1>5. from("src_ip") # {} /\ from("dst_ip") # {}
  BY <1>2, <1>3 DEF Carries
<1>6. ASSUME NEW name \in {"src_ip", "src_port", "dst_ip", "dst_port"}, NEW t \in from(name)
      PROVE  t.valid
  <2>1. PICK k \in DOMAIN p : t = caps[k] /\ name \in p[k].names
    BY <1>3
  <2>2. name \in Source \cup Target
    BY DEF Source, Target
  <2> QED
    BY <1>2, <2>1, <2>2
<1> HIDE DEF from
<1>7. /\ event # <<>> /\ event[1] = from("src_ip") /\ event[3] = from("dst_ip")
      /\ DOMAIN event = 1..4
  OBVIOUS
<1>8. ASSUME NEW t \in UNION Range(event) PROVE t.valid
  <2>1. PICK j \in DOMAIN event : t \in event[j]
    BY DEF Range
  <2>2. j \in {1, 2, 3, 4}
    BY <1>7, <2>1
  <2>3. event[j] \in {from(name) : name \in {"src_ip", "src_port", "dst_ip", "dst_port"}}
    BY <2>2
  <2> QED
    BY <1>6, <2>1, <2>3
<1> HIDE DEF event
<1> QED
  BY <1>4, <1>5, <1>7, <1>8 DEF line

-----------------------------------------------------------------------------
(* The files and the registry.                                             *)

\* Every file and every entry of the registry is of a generated parser; between
\* the two writes the JSON file is the new one; of the vendors of whose files the
\* last run that wrote one wrote both, they are of one parser.
OnboarderIInv ==
  /\ cli \in {"idle", "json", "yaml"}
  /\ cli # "idle" => parser_def \in Generated
  /\ cli = "yaml" => /\ Key(parser_def.vendor) \in DOMAIN json
                     /\ json[Key(parser_def.vendor)] = parser_def
  /\ \A key \in DOMAIN json : json[key] \in Generated
  /\ \A key \in DOMAIN yaml : yaml[key] \in {Exported(def) : def \in Generated}
  /\ \A key \in DOMAIN registry : registry[key] \in Generated \cup {Loaded(def) : def \in Generated}
  /\ \A key \in (DOMAIN json \cap DOMAIN yaml) \ torn :
       (cli = "yaml" /\ key = Key(parser_def.vendor)) \/ yaml[key] = Exported(json[key])

LEMMA OnboarderInitIInv == OnboarderInit => OnboarderIInv
BY DEF OnboarderInit, OnboarderIInv, NoFiles

LEMMA OnboarderStepIInv == OnboarderIInv /\ [OnboarderNext]_onboarding => OnboarderIInv'
<1> SUFFICES ASSUME OnboarderIInv, [OnboarderNext]_onboarding PROVE OnboarderIInv'
  OBVIOUS
<1>1. ASSUME NEW vendor \in Vendors, NEW file \in SampleFiles, run_onboard(vendor, file)
      PROVE  OnboarderIInv'
  <2>1. parser_def' \in Generated
    BY <1>1 DEF run_onboard, Generated
  <2> QED
    BY <1>1, <2>1 DEF run_onboard, OnboarderIInv
<1>2. CASE WriteJson
  <2> DEFINE key == Key(parser_def.vendor)
  <2>1. cli = "json" /\ json' = Put(json, key, parser_def) /\ cli' = "yaml"
        /\ UNCHANGED <<yaml, parser_def, registry, torn>> /\ parser_def \in Generated
    BY <1>2 DEF WriteJson, OnboarderIInv
  <2>2. key' = key
    BY <2>1 DEF Key
  <2>3. /\ DOMAIN json' = DOMAIN json \cup {key} /\ json'[key] = parser_def
        /\ \A j \in DOMAIN json \ {key} : json'[j] = json[j]
    <3> HIDE DEF key
    <3> QED
      BY <2>1 DEF Put
  <2> HIDE DEF key
  <2>4. \A j \in DOMAIN json' : json'[j] \in Generated
    BY <2>1, <2>3 DEF OnboarderIInv
  <2>5. \A j \in (DOMAIN json' \cap DOMAIN yaml') \ torn' : j = key \/ yaml'[j] = Exported(json'[j])
    BY <2>1, <2>3 DEF OnboarderIInv
  <2> QED
    BY <2>1, <2>2, <2>3, <2>4, <2>5 DEF OnboarderIInv, key
<1>3. CASE WriteYaml
  <2> DEFINE key == Key(parser_def.vendor)
  <2>1. /\ cli = "yaml" /\ yaml' = Put(yaml, key, Exported(parser_def)) /\ cli' = "idle"
        /\ torn' = torn \ {key}
        /\ UNCHANGED <<json, parser_def, registry>> /\ parser_def \in Generated
        /\ key \in DOMAIN json /\ json[key] = parser_def
    BY <1>3 DEF WriteYaml, OnboarderIInv
  <2>2. /\ DOMAIN yaml' = DOMAIN yaml \cup {key} /\ yaml'[key] = Exported(parser_def)
        /\ \A j \in DOMAIN yaml \ {key} : yaml'[j] = yaml[j]
    <3> HIDE DEF key
    <3> QED
      BY <2>1 DEF Put
  <2> HIDE DEF key
  <2>3. \A j \in DOMAIN yaml' : yaml'[j] \in {Exported(def) : def \in Generated}
    BY <2>1, <2>2 DEF OnboarderIInv
  <2>4. \A j \in (DOMAIN json' \cap DOMAIN yaml') \ torn' : yaml'[j] = Exported(json'[j])
    BY <2>1, <2>2 DEF OnboarderIInv, key
  <2> QED
    BY <2>1, <2>3, <2>4 DEF OnboarderIInv
<1>4. CASE Die
  <2> DEFINE key == Key(parser_def.vendor)
  <2>1. /\ cli # "idle" /\ cli' = "idle" /\ torn' = IF cli = "yaml" THEN torn \cup {key} ELSE torn
        /\ UNCHANGED <<parser_def, registry>>
        /\ \/ UNCHANGED <<json, yaml>>
           \/ cli = "json" /\ json' = Drop(json, key) /\ UNCHANGED yaml
           \/ cli = "yaml" /\ yaml' = Drop(yaml, key) /\ UNCHANGED json
    BY <1>4 DEF Die
  <2>2. /\ DOMAIN json' \subseteq DOMAIN json /\ DOMAIN yaml' \subseteq DOMAIN yaml
        /\ \A j \in DOMAIN json' : json'[j] = json[j]
        /\ \A j \in DOMAIN yaml' : yaml'[j] = yaml[j]
    <3> HIDE DEF key
    <3> QED
      BY <2>1 DEF Drop
  <2> HIDE DEF key
  <2>3. \A j \in (DOMAIN json' \cap DOMAIN yaml') \ torn' : yaml'[j] = Exported(json'[j])
    BY <2>1, <2>2 DEF OnboarderIInv, key
  <2> QED
    BY <2>1, <2>2, <2>3 DEF OnboarderIInv
<1>5. ASSUME NEW key, load_from_json(key) \/ load_from_yaml(key) PROVE OnboarderIInv'
  <2>1. /\ UNCHANGED <<json, yaml, cli, parser_def, torn>>
        /\ \E def \in Generated \cup {Loaded(d) : d \in Generated} :
             registry' = Put(registry, Key(def.vendor), def)
    <3>1. CASE load_from_json(key)
      BY <3>1 DEF load_from_json, register, OnboarderIInv
    <3>2. CASE load_from_yaml(key)
      <4>1. PICK d \in Generated : yaml[key] = Exported(d)
        BY <3>2 DEF load_from_yaml, OnboarderIInv
      <4>2. registry' = Put(registry, Key(Loaded(d).vendor), Loaded(d))
        BY <3>2, <4>1 DEF load_from_yaml, register, Loaded
      <4> QED
        BY <3>2, <4>2 DEF load_from_yaml
    <3> QED
      BY <1>5, <3>1, <3>2
  <2>2. PICK def \in Generated \cup {Loaded(d) : d \in Generated} :
          registry' = Put(registry, Key(def.vendor), def)
    BY <2>1
  <2>3. \A j \in DOMAIN registry' : registry'[j] \in Generated \cup {Loaded(d) : d \in Generated}
    BY <2>2 DEF OnboarderIInv, Put
  <2> QED
    BY <2>1, <2>3 DEF OnboarderIInv, Key
<1>6. CASE UNCHANGED onboarding
  BY <1>6 DEF onboarding, OnboarderIInv, Key
<1> QED
  BY <1>1, <1>2, <1>3, <1>4, <1>5, <1>6 DEF OnboarderNext

\* The invariant holds of every state.
THEOREM OnboarderInvariance == OnboarderSpec => []OnboarderIInv
BY OnboarderInitIInv, OnboarderStepIInv, PTL DEF OnboarderSpec

\* A parser in the registry, from whichever file it was loaded, extracts every
\* sample it was generated from (validate_parser, to_yaml and from_yaml).
THEOREM SamplesExtractedAlways == OnboarderSpec => []SamplesExtracted
<1>1. OnboarderIInv => SamplesExtracted
  <2> SUFFICES ASSUME OnboarderIInv, NEW key \in DOMAIN registry,
                      NEW i \in DOMAIN registry[key].sample_logs
      PROVE  LET event == parse(registry[key], registry[key].sample_logs[i])
             IN /\ event # <<>> /\ event[1] # {} /\ event[3] # {}
                /\ \A t \in UNION Range(event) : t.valid
    BY DEF SamplesExtracted
  <2>1. PICK def \in Generated : registry[key] = def \/ registry[key] = Loaded(def)
    BY DEF OnboarderIInv
  <2>2. /\ registry[key].sample_logs = def.sample_logs
        /\ \A line : parse(registry[key], line) = parse(def, line)
    BY <2>1, GeneratedIs, LoadedIs, LoadedReads
  <2>3. LET event == parse(def, def.sample_logs[i])
        IN /\ event # <<>> /\ event[1] # {} /\ event[3] # {}
           /\ \A t \in UNION Range(event) : t.valid
    BY <2>2, GeneratedIs, SamplesYieldEvents
  <2> QED
    BY <2>2, <2>3
<1> QED
  BY <1>1, OnboarderInvariance, PTL

\* Whatever its literals are spelled with, a parser loaded from the YAML file reads
\* from every line what the one loaded from the JSON file reads.
THEOREM ExportsAgreeAlways == OnboarderSpec => []ExportsAgree
<1>1. OnboarderIInv => ExportsAgree
  <2> SUFFICES ASSUME OnboarderIInv, cli = "idle",
                      NEW key \in (DOMAIN json \cap DOMAIN yaml) \ torn, NEW line \in Lines
      PROVE  parse(json[key], line) = parse(Imported(yaml[key]), line)
    BY DEF ExportsAgree
  <2>1. json[key] \in Generated /\ yaml[key] = Exported(json[key])
    BY DEF OnboarderIInv
  <2>2. parse(json[key], line) = parse(Loaded(json[key]), line)
    BY <2>1, GeneratedIs, LoadedReads
  <2> QED
    BY <2>1, <2>2 DEF Loaded
<1> QED
  BY <1>1, OnboarderInvariance, PTL
=============================================================================
