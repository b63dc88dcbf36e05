----------------------------- MODULE Evaluator ------------------------------
(***************************************************************************)
(* The benchmark of the three tiers (ulpf-ai, evaluator.rs), the one       *)
(* caller of the pipeline in the program: one thread warms the pipeline    *)
(* up, lets workers call it until it is told to stop them, joins them,     *)
(* reports, and then calls the pipeline some more on its own.              *)
(*                                                                         *)
(* A worker's tally is its own; the totals are shared and only read when   *)
(* the workers are joined, so that a worker counts an event in the step in *)
(* which `process` returns.                                                *)
(***************************************************************************)
EXTENDS Pipeline

CONSTANTS
  threads,  \* how many workers
  Corpora,  \* the corpora a benchmark may be run on
  length,   \* the bytes of a log
  WarmUp,   \* at most this many calls to warm up (1000)
  Batch,    \* events a worker counts before it tells the others (1024)
  Samples   \* calls after the report, by the latency samples and the audit

Main    == threads
Workers == 0..(threads - 1)

ASSUME EvaluatorAssumption ==
  /\ threads \in Nat /\ Threads = Workers \cup {Main}
  /\ Corpora \subseteq Seq(Raws) \ {<<>>}
  /\ length \in [Raws -> Nat]
  /\ WarmUp \in Nat /\ Batch \in Nat \ {0} /\ Samples \in Nat

VARIABLES
  corpus,
  phase,                     \* of the main thread: "warmup", "sleep", "join", "report"
  local_count, local_bytes,  \* of each worker
  total_count, total_bytes,
  exited,                    \* the workers past their loop
  samples,                   \* calls since the report
  report                     \* what was reported, <<>> before

tallies == <<local_count, local_bytes, total_count, total_bytes>>
bench   == <<corpus, phase, exited, samples, report>>
evaluatorVars == <<vars, tallies, bench>>

stop_signal == phase \in {"join", "report"}
warmup      == IF Len(corpus) < WarmUp THEN Len(corpus) ELSE WarmUp

WarmUpCall ==
  /\ phase = "warmup"
  /\ total_events < warmup
  /\ Call(Main, corpus[total_events + 1])
  /\ UNCHANGED <<tallies, bench>>

\* The workers are spawned.
Start ==
  /\ phase = "warmup"
  /\ total_events = warmup /\ pc[Main] = "idle"
  /\ phase' = "sleep"
  /\ UNCHANGED <<vars, tallies, corpus, exited, samples, report>>

\* The head of a worker's loop: its next log.
WorkerCall(w) ==
  /\ phase # "warmup" /\ ~stop_signal
  /\ Call(w, corpus[((w + local_count[w]) % Len(corpus)) + 1])
  /\ UNCHANGED <<tallies, bench>>

\* The rest of the loop's body, when `process` has returned.
Count(w) ==
  LET count == local_count[w] + 1
      bytes == local_bytes[w] + length[raw[w]]
      full  == count % Batch = 0
  IN /\ local_count' = [local_count EXCEPT ![w] = count]
     /\ local_bytes' = [local_bytes EXCEPT ![w] = IF full THEN 0 ELSE bytes]
     /\ total_count' = IF full THEN total_count + Batch ELSE total_count
     /\ total_bytes' = IF full THEN total_bytes + bytes ELSE total_bytes

Process(t) ==
  /\ Step(t)
  /\ IF t \in Workers /\ pc'[t] = "idle" THEN Count(t) ELSE UNCHANGED tallies
  /\ UNCHANGED bench

\* Mutant: what was told already is told again.
Exit_AddsAll(w) ==
  /\ stop_signal
  /\ pc[w] = "idle" /\ w \notin exited
  /\ exited' = exited \cup {w}
  /\ total_count' = total_count + local_count[w]
  /\ total_bytes' = total_bytes + local_bytes[w]
  /\ UNCHANGED <<vars, local_count, local_bytes, corpus, phase, samples, report>>

\* A worker sees the signal, and counts what it has not yet told.
Exit(w) ==
  /\ stop_signal
  /\ pc[w] = "idle" /\ w \notin exited
  /\ exited' = exited \cup {w}
  /\ total_count' = total_count + (local_count[w] % Batch)
  /\ total_bytes' = total_bytes + local_bytes[w]
  /\ UNCHANGED <<vars, local_count, local_bytes, corpus, phase, samples, report>>

\* The main thread wakes up and stops the workers.
Stop ==
  /\ phase = "sleep"
  /\ phase' = "join"
  /\ UNCHANGED <<vars, tallies, corpus, exited, samples, report>>

Panicked == {w \in Workers : pc[w] = "panicked"}

\* It has joined them (a panic is an error that it ignores) and reports.
Report ==
  /\ phase = "join"
  /\ exited \cup Panicked = Workers
  /\ phase' = "report"
  /\ report' = <<[total_processed |-> total_count, total_bytes_processed |-> total_bytes,
                  total_events |-> total_events, hits |-> hits, misses |-> misses,
                  tier2_drain_hits |-> tier2_drain_hits,
                  tier3_laya_dispatches |-> tier3_laya_dispatches,
                  tier3_laya_onboarded |-> Cardinality(registry)]>>
  /\ UNCHANGED <<vars, tallies, corpus, exited, samples>>

\* sample_latency_distribution and audit_accuracy
Sample ==
  /\ phase = "report"
  /\ samples < Samples
  /\ samples' = samples + 1
  /\ Call(Main, corpus[(samples % Len(corpus)) + 1])
  /\ UNCHANGED <<tallies, corpus, phase, exited, report>>

EvaluatorInit ==
  /\ Init
  /\ corpus \in Corpora
  /\ phase = "warmup"
  /\ local_count = [w \in Workers |-> 0]
  /\ local_bytes = [w \in Workers |-> 0]
  /\ total_count = 0
  /\ total_bytes = 0
  /\ exited = {}
  /\ samples = 0
  /\ report = <<>>

Triaging == Worker /\ UNCHANGED <<tallies, bench>>

EvaluatorNext ==
  \/ WarmUpCall
  \/ Start
  \/ \E w \in Workers : WorkerCall(w) \/ Exit(w)
  \/ \E t \in Threads : Process(t)
  \/ Stop
  \/ Report
  \/ Sample
  \/ Triaging

\* The scheduler neglects no thread of the benchmark; the triage worker may be
\* as slow as it likes.
EvaluatorFairness ==
  /\ WF_evaluatorVars(WarmUpCall) /\ WF_evaluatorVars(Start)
  /\ WF_evaluatorVars(Stop) /\ WF_evaluatorVars(Report)
  /\ \A t \in Threads : WF_evaluatorVars(Process(t))
  /\ \A w \in Workers : WF_evaluatorVars(Exit(w))

EvaluatorSpec == EvaluatorInit /\ [][EvaluatorNext]_evaluatorVars /\ EvaluatorFairness

-----------------------------------------------------------------------------
(* Properties.                                                             *)

\* The events of each worker, by their number there.
Counted == Cardinality(UNION {{w} \X (1..local_count[w]) : w \in Workers})
Lost    == Cardinality(UNION {{w} \X (1..(local_count[w] % Batch)) : w \in Panicked})

\* The report of a run agrees with the counters of the pipeline: every call is in
\* exactly one tier, and every call but those that warmed up is in the total, except
\* for a worker that panicked, which takes its last call and what it has not told
\* with it: less than a batch.
ReportIsExact ==
  \A i \in DOMAIN report :
    LET r == report[i]
    IN /\ r.total_events = warmup + Counted + Cardinality(Panicked)
       /\ r.total_processed = Counted - Lost
       /\ Panicked = {} =>
            /\ r.total_processed = r.total_events - warmup
            /\ r.total_events = r.hits + r.tier2_drain_hits + r.tier3_laya_dispatches

\* A benchmark whose warm-up does not panic reports, however slow the triage worker
\* is and however full its ring: "process ... without blocking for Tier-3".
Reported == <>(phase = "report" \/ pc[Main] = "panicked")
=============================================================================
