--------------------------- MODULE Batcher_proofs ---------------------------
(* Proofs about Batcher, for every batch size, duration, bound and fault.  *)
EXTENDS Batcher, TLAPS

Fragment == [whole : BOOLEAN, entry : Entry]

\* What a write to ledger.jsonl does to the set of fragments, wherever it lands.
LEMMA AppendedFragment ==
  ASSUME TypeOK, NEW f \in Fragment, AppendFragment(f)
  PROVE  /\ ledger' \in Seq(Seq(Fragment))
         /\ terminated' \in BOOLEAN
         /\ Fragments' = Fragments \cup {f}
         /\ Anchors' = Anchors \cup (IF f.whole THEN {f.entry} ELSE {})
<1> USE DEF Fragment
<1>0. ledger \in Seq(Seq(Fragment))
  BY DEF TypeOK
<1>a. \A x : x \in Fragments <=> \E k \in DOMAIN ledger : \E j \in DOMAIN ledger[k] : x = ledger[k][j]
  BY DEF Fragments
<1>b. \A x : x \in Fragments' <=> \E k \in DOMAIN ledger' : \E j \in DOMAIN ledger'[k] : x = ledger'[k][j]
  BY DEF Fragments
<1> DEFINE n == Len(ledger)
<1>n. n \in Nat /\ DOMAIN ledger = 1..n
  BY <1>0
<1> HIDE DEF n
<1>1. CASE ledger = <<>> \/ terminated
  <2>1. ledger' = Append(ledger, <<f>>) /\ terminated' = FALSE
    BY <1>1 DEF AppendFragment
  <2>2. ledger' \in Seq(Seq(Fragment))
    BY <1>0, <2>1
  <2>a. /\ DOMAIN ledger' = 1..(n + 1)
        /\ \A k \in 1..n : ledger'[k] = ledger[k]
        /\ ledger'[n + 1] = <<f>>
    BY <1>0, <2>1 DEF n
  <2>3. Fragments' = Fragments \cup {f}
    <3>1. ASSUME NEW x, x \in Fragments'  PROVE x \in Fragments \cup {f}
      <4>1. PICK k \in 1..(n + 1) : \E j \in DOMAIN ledger'[k] : x = ledger'[k][j]
        BY <3>1, <1>b, <2>a
      <4>2. CASE k \in 1..n
        BY <4>1, <4>2, <1>a, <1>n, <2>a
      <4>3. CASE k = n + 1
        BY <4>1, <4>3, <2>a
      <4> QED BY <4>2, <4>3, <1>n
    <3>2. ASSUME NEW x, x \in Fragments  PROVE x \in Fragments'
      <4>1. PICK k \in 1..n : \E j \in DOMAIN ledger[k] : x = ledger[k][j]
        BY <3>2, <1>a, <1>n
      <4> QED BY <4>1, <1>b, <1>n, <2>a
    <3>3. f \in Fragments'
      <4>1. n + 1 \in DOMAIN ledger' /\ 1 \in DOMAIN ledger'[n + 1] /\ f = ledger'[n + 1][1]
        BY <2>a, <1>n
      <4> QED BY <4>1, <1>b
    <3> QED BY <3>1, <3>2, <3>3
  <2> QED BY <2>1, <2>2, <2>3 DEF Anchors
<1>2. CASE ~(ledger = <<>> \/ terminated)
  <2>1. ledger' = [ledger EXCEPT ![Len(ledger)] = Append(@, f)] /\ terminated' = FALSE
    BY <1>2 DEF AppendFragment
  <2>2. Len(ledger) \in DOMAIN ledger /\ ledger[Len(ledger)] \in Seq(Fragment)
    BY <1>0, <1>2
  <2>3. ledger' \in Seq(Seq(Fragment))
    BY <1>0, <2>1, <2>2
  <2> DEFINE line == ledger[n]
  <2>a. /\ n \in 1..n
        /\ DOMAIN ledger' = 1..n
        /\ \A k \in 1..n : k # n => ledger'[k] = ledger[k]
        /\ ledger'[n] = Append(line, f)
        /\ line \in Seq(Fragment)
    BY <1>0, <2>1, <2>2 DEF n
  <2>b. /\ DOMAIN line = 1..Len(line) /\ Len(line) \in Nat
        /\ DOMAIN Append(line, f) = 1..(Len(line) + 1)
        /\ \A j \in DOMAIN line : Append(line, f)[j] = line[j]
        /\ Append(line, f)[Len(line) + 1] = f
    BY <2>a
  <2>4. Fragments' = Fragments \cup {f}
    <3>1. ASSUME NEW x, x \in Fragments'  PROVE x \in Fragments \cup {f}
      <4>1. PICK k \in 1..n : \E j \in DOMAIN ledger'[k] : x = ledger'[k][j]
        BY <3>1, <1>b, <2>a
      <4>2. CASE k # n
        BY <4>1, <4>2, <1>a, <1>n, <2>a
      <4>3. CASE k = n
        <5>1. PICK j \in 1..(Len(line) + 1) : x = Append(line, f)[j]
          BY <4>1, <4>3, <2>a, <2>b
        <5>2. CASE j \in DOMAIN line
          BY <5>1, <5>2, <1>a, <1>n, <2>a, <2>b
        <5>3. CASE j = Len(line) + 1
          BY <5>1, <5>3, <2>b
        <5> QED BY <5>2, <5>3, <2>b
      <4> QED BY <4>2, <4>3
    <3>2. ASSUME NEW x, x \in Fragments  PROVE x \in Fragments'
      <4>1. PICK k \in 1..n : \E j \in DOMAIN ledger[k] : x = ledger[k][j]
        BY <3>2, <1>a, <1>n
      <4>2. CASE k # n
        BY <4>1, <4>2, <1>b, <2>a
      <4>3. CASE k = n
        <5>1. PICK j \in DOMAIN line : x = line[j]
          BY <4>1, <4>3
        <5>2. j \in DOMAIN ledger'[n] /\ x = ledger'[n][j]
          BY <5>1, <2>a, <2>b
        <5> QED BY <5>2, <1>b, <2>a
      <4> QED BY <4>2, <4>3
    <3>3. f \in Fragments'
      <4>1. Len(line) + 1 \in DOMAIN ledger'[n] /\ f = ledger'[n][Len(line) + 1]
        BY <2>a, <2>b
      <4> QED BY <4>1, <1>b, <2>a
    <3> QED BY <3>1, <3>2, <3>3
  <2> QED BY <2>1, <2>3, <2>4 DEF Anchors
<1> QED BY <1>1, <1>2

-----------------------------------------------------------------------------
(* Type correctness.                                                       *)

\* The entry that anchors a block is a ledger entry.
LEMMA EntryTyped ==
  ASSUME NEW b \in [block_id : Nat, logs : Seq(Log)]
  PROVE  LedgerEntry(b) \in Entry
BY DEF LedgerEntry, Root, Entry

\* Creating or rewriting one file keeps the storage directory well formed.
LEMMA SetFileTyped ==
  ASSUME TypeOK, NEW id \in Nat,
         NEW f \in [complete : BOOLEAN, logs : Seq(Log)], SetFile(id, f)
  PROVE  /\ DOMAIN files' = DOMAIN files \cup {id}
         /\ DOMAIN files' \subseteq Nat
         /\ files' \in [DOMAIN files' -> [complete : BOOLEAN, logs : Seq(Log)]]
         /\ files'[id] = f
         /\ \A b \in DOMAIN files : b # id => files'[b] = files[b]
BY DEF TypeOK, SetFile

\* A ledger all of whose lines parse is read back as a sequence of entries.
LEMMA LoadTyped ==
  ASSUME TypeOK, Readable
  PROVE  /\ load_ledger_entries \in Seq(Entry)
         /\ \A k \in DOMAIN ledger : ledger[k][1] \in Fragment /\ ledger[k][1].entry \in Entry
<1>1. ledger \in Seq(Seq(Fragment))
  BY DEF TypeOK, Fragment
<1>2. ASSUME NEW k \in DOMAIN ledger
      PROVE  ledger[k][1] \in Fragment /\ ledger[k][1].entry \in Entry
  <2>1. ledger[k] \in Seq(Fragment) /\ Len(ledger[k]) = 1
    BY <1>1 DEF Readable, Parses
  <2>2. ledger[k][1] \in Fragment
    BY <2>1
  <2> QED BY <2>2 DEF Fragment
<1>3. load_ledger_entries \in Seq(Entry)
  <2>1. Len(ledger) \in Nat /\ DOMAIN ledger = 1..Len(ledger)
    BY <1>1
  <2>2. load_ledger_entries \in [1..Len(ledger) -> Entry]
    BY <1>2, <2>1 DEF load_ledger_entries
  <2> QED BY <2>1, <2>2
<1> QED BY <1>2, <1>3

\* Logs are numbered, so the entries of a sequence of logs can be compared.
LEMMA LogsAreNumbers == \A s \in Seq(Log) : \A i \in DOMAIN s : s[i] \in Nat
BY DEF Log

\* A fresh accumulator on an empty directory is well typed.
LEMMA InitTypeOK == Init => TypeOK
BY DEF Init, TypeOK, NoTime, NoJob, Partial, Log, Entry

\* Every action of the accumulator and of its environment keeps the types.
LEMMA StepTypeOK == TypeOK /\ [Next]_vars => TypeOK'
<1> SUFFICES ASSUME TypeOK, [Next]_vars PROVE TypeOK'
  OBVIOUS
<1> USE BatcherAssumption DEF NoTime
<1>f. ASSUME NEW kind, Fault(kind) PROVE faults' \in Nat
  BY <1>f DEF Fault, TypeOK
<1>j. NoJob \in [block_id : Nat, logs : Seq(Log)]
  BY DEF NoJob
<1>1. CASE push
  <2>1. Append(buffer, arrived + 1) \in Seq(Log)
    BY DEF TypeOK, Log
  <2> DEFINE pending == Append(buffer, arrived + 1)
             elapsed == IF buffer = <<>> THEN 0 ELSE age
  <2>2. elapsed \in Nat \cup {-1}
    BY DEF TypeOK
  <2> HIDE DEF pending, elapsed
  <2>3. /\ \/ BeginFlush(pending)
           \/ buffer' = pending /\ age' = elapsed /\ UNCHANGED <<current_block_id, step, job>>
        /\ arrived' = arrived + 1
        /\ UNCHANGED <<status, in_memory_ledger, disk, faults>>
    BY <1>1 DEF push, pending, elapsed
  <2>4. pending \in Seq(Log)
    BY <2>1 DEF pending
  <2>5. arrived' \in Nat
    BY <2>3 DEF TypeOK
  <2>6. CASE BeginFlush(pending)
    <3>1. /\ job' \in [block_id : Nat, logs : Seq(Log)]
          /\ current_block_id' \in Nat
      BY <2>4, <2>6 DEF BeginFlush, TypeOK
    <3>2. buffer' \in Seq(Log) /\ age' \in Nat \cup {-1} /\ step' = "create"
      BY <2>6 DEF BeginFlush
    <3> QED BY <2>3, <2>5, <3>1, <3>2 DEF TypeOK, disk
  <2>7. CASE buffer' = pending /\ age' = elapsed /\ UNCHANGED <<current_block_id, step, job>>
    BY <2>2, <2>3, <2>4, <2>5, <2>7 DEF TypeOK, disk
  <2> QED BY <2>3, <2>6, <2>7
<1>2. CASE check_timeout
  BY <1>2 DEF check_timeout, BeginFlush, TypeOK, disk
<1>3. CASE flush
  BY <1>3 DEF flush, BeginFlush, TypeOK, disk
<1>4. CASE CreateParquet
  <2>1. job.block_id \in Nat /\ Partial \in [complete : BOOLEAN, logs : Seq(Log)]
    BY DEF TypeOK, Partial
  <2> QED BY <1>4, <2>1, SetFileTyped DEF CreateParquet, TypeOK
<1>5. CASE WriteParquet
  <2>1. job.block_id \in Nat /\ Complete(job.logs) \in [complete : BOOLEAN, logs : Seq(Log)]
    BY DEF TypeOK, Complete
  <2> QED BY <1>5, <2>1, SetFileTyped DEF WriteParquet, TypeOK
<1>6. CASE AppendEntry
  <2>1. [whole |-> TRUE, entry |-> LedgerEntry(job)] \in Fragment
    BY EntryTyped DEF Fragment, TypeOK
  <2> QED BY <1>6, <2>1, AppendedFragment DEF AppendEntry, TypeOK, Fragment
<1>7. CASE FinishFlush
  <2>1. Append(in_memory_ledger, LedgerEntry(job)) \in Seq(Entry)
    BY EntryTyped DEF TypeOK
  <2> QED BY <1>7, <1>j, <2>1 DEF FinishFlush, TypeOK
<1>8. CASE Tick
  BY <1>8 DEF Tick, TypeOK, disk
<1>9. CASE ParquetError
  BY <1>9, <1>j, <1>f DEF ParquetError, FlushFails, TypeOK, disk
<1>10. CASE LedgerError
  BY <1>10, <1>j, <1>f DEF LedgerError, FlushFails, TypeOK, disk
<1>11. CASE TornAppend
  <2>1. [whole |-> FALSE, entry |-> LedgerEntry(job)] \in Fragment
    BY EntryTyped DEF Fragment, TypeOK
  <2> QED
    BY <1>11, <1>j, <1>f, <2>1, AppendedFragment DEF TornAppend, FlushFails, TypeOK, Fragment
<1>12. CASE Crash
  BY <1>12, <1>j, <1>f DEF Crash, TypeOK, disk
<1>13. CASE new
  <2>1. CASE Readable
    <3>1. current_block_id' \in Nat
      <4>1. CASE ledger = <<>>
        BY <1>13, <2>1, <4>1 DEF new
      <4>2. CASE ledger # <<>>
        <5>1. Len(ledger) \in DOMAIN ledger
          BY <4>2 DEF TypeOK
        <5>2. load_ledger_entries[Len(ledger)].block_id \in Nat
          BY <2>1, <5>1, LoadTyped DEF load_ledger_entries, Entry
        <5> QED BY <1>13, <2>1, <4>2, <5>2 DEF new
      <4> QED BY <4>1, <4>2
    <3>2. in_memory_ledger' \in Seq(Entry)
      BY <1>13, <2>1, LoadTyped DEF new
    <3> QED BY <1>13, <2>1, <3>1, <3>2 DEF new, TypeOK, disk
  <2>2. CASE ~Readable
    BY <1>13, <2>2 DEF new, TypeOK, disk
  <2> QED BY <2>1, <2>2
<1>14. CASE UNCHANGED vars
  BY <1>14 DEF vars, process, disk, TypeOK
<1> QED
  BY <1>1, <1>2, <1>3, <1>4, <1>5, <1>6, <1>7, <1>8, <1>9, <1>10, <1>11, <1>12, <1>13, <1>14
  DEF Next, FlushStep, Failure

\* Type correctness of the accumulator and its files (batcher.rs:110-117).
THEOREM TypeCorrect == Spec => []TypeOK
BY InitTypeOK, StepTypeOK, PTL DEF Spec

-----------------------------------------------------------------------------
(* The inductive invariant.                                                *)

\* An append keeps the lines in id order when its entry has a fresh id.
LEMMA AppendKeepsOrder ==
  ASSUME TypeOK, LedgerOrdered, NEW f \in Fragment, AppendFragment(f),
         \A g \in Fragments : g.entry.block_id < f.entry.block_id
  PROVE  LedgerOrdered'
<1>0. ledger \in Seq(Seq(Fragment))
  BY DEF TypeOK, Fragment
<1> DEFINE n == Len(ledger)
<1>n. n \in Nat /\ DOMAIN ledger = 1..n
  BY <1>0
<1>g. \A k \in 1..n : \A i \in DOMAIN ledger[k] : ledger[k][i].entry.block_id < f.entry.block_id
  BY <1>n DEF Fragments
<1>1. CASE ledger = <<>> \/ terminated
  <2>1. /\ DOMAIN ledger' = 1..(n + 1)
        /\ \A k \in 1..n : ledger'[k] = ledger[k]
        /\ ledger'[n + 1] = <<f>>
    BY <1>0, <1>1 DEF AppendFragment
  <2> HIDE DEF n
  <2> SUFFICES ASSUME NEW k \in 1..(n + 1), NEW m \in 1..(n + 1), k < m,
                      NEW i \in DOMAIN ledger'[k], NEW j \in DOMAIN ledger'[m]
               PROVE  ledger'[k][i].entry.block_id < ledger'[m][j].entry.block_id
    BY <2>1 DEF LedgerOrdered
  <2>2. CASE m = n + 1
    <3>1. k \in 1..n /\ ledger'[m][j] = f
      BY <2>1, <2>2, <1>n
    <3> QED BY <3>1, <2>1, <1>g
  <2>3. CASE m \in 1..n
    <3>1. k \in 1..n
      BY <2>3, <1>n
    <3> QED BY <2>1, <2>3, <3>1, <1>n DEF LedgerOrdered
  <2> QED BY <2>2, <2>3, <1>n
<1>2. CASE ~(ledger = <<>> \/ terminated)
  <2>1. /\ n \in 1..n
        /\ DOMAIN ledger' = 1..n
        /\ \A k \in 1..n : k # n => ledger'[k] = ledger[k]
        /\ ledger'[n] = Append(ledger[n], f)
        /\ ledger[n] \in Seq(Fragment)
    BY <1>0, <1>2 DEF AppendFragment
  <2> HIDE DEF n
  <2> SUFFICES ASSUME NEW k \in 1..n, NEW m \in 1..n, k < m,
                      NEW i \in DOMAIN ledger'[k], NEW j \in DOMAIN ledger'[m]
               PROVE  ledger'[k][i].entry.block_id < ledger'[m][j].entry.block_id
    BY <2>1 DEF LedgerOrdered
  <2>2. k # n /\ ledger'[k] = ledger[k] /\ i \in DOMAIN ledger[k]
    BY <2>1, <1>n
  <2>3. CASE m # n
    BY <2>1, <2>2, <2>3, <1>n DEF LedgerOrdered
  <2>4. CASE m = n /\ j \in DOMAIN ledger[n]
    <3>1. ledger'[m][j] = ledger[m][j]
      BY <2>1, <2>4
    <3> QED BY <2>2, <2>4, <3>1, <1>n DEF LedgerOrdered
  <2>5. CASE m = n /\ j \notin DOMAIN ledger[n]
    <3>1. ledger'[m][j] = f
      BY <2>1, <2>5
    <3> QED BY <2>2, <3>1, <1>g
  <2> QED BY <2>3, <2>4, <2>5
<1> QED BY <1>1, <1>2

\* Writing the file of a block with a fresh id leaves every anchored file alone.
LEMMA FreshFile ==
  ASSUME IInv, NEW f \in [complete : BOOLEAN, logs : Seq(Log)],
         step \in {"create", "write"}, SetFile(job.block_id, f)
  PROVE  \A e \in Anchors : /\ e.block_id \in DOMAIN files
                             /\ e.block_id \in DOMAIN files'
                             /\ files'[e.block_id] = files[e.block_id]
<1> SUFFICES ASSUME NEW e \in Anchors
             PROVE  /\ e.block_id \in DOMAIN files
                    /\ e.block_id \in DOMAIN files'
                    /\ files'[e.block_id] = files[e.block_id]
  OBVIOUS
<1>1. e.block_id \in DOMAIN files
  BY DEF IInv, Anchored
<1>2. e.block_id \in Nat /\ job.block_id \in Nat
  BY <1>1 DEF IInv, TypeOK
<1>3. e.block_id < job.block_id
  BY DEF IInv, FragmentIds, Anchors
<1> QED BY <1>1, <1>2, <1>3 DEF SetFile

\* A fresh accumulator on an empty directory satisfies the inductive invariant.
LEMMA InitIInv == Init => IInv
<1> SUFFICES ASSUME Init PROVE IInv
  OBVIOUS
<1>1. Fragments = {} /\ Anchors = {}
  BY DEF Init, Fragments, Anchors
<1>2. job.logs = <<>> /\ buffer = <<>>
  BY DEF Init, NoJob
<1>3. LogOrder
  BY <1>1, <1>2 DEF LogOrder, AnchorLog!Ascending, Precede, Arrived, AnchoredBefore
<1> QED
  BY <1>1, <1>3, InitTypeOK
  DEF Init, IInv, Anchored, ArrivalOrder, LedgerOrdered, JobOK, FragmentIds

\* Block ids in the ledger are numbers.
LEMMA FragmentIdsTyped ==
  ASSUME TypeOK
  PROVE  \A f \in Fragments : f \in Fragment /\ f.entry \in Entry /\ f.entry.block_id \in Nat
<1>1. ledger \in Seq(Seq(Fragment))
  BY DEF TypeOK, Fragment
<1>2. \A k \in DOMAIN ledger : \A j \in DOMAIN ledger[k] : ledger[k][j] \in Fragment
  BY <1>1
<1> QED BY <1>2 DEF Fragments, Fragment, Entry

\* `push`, with or without the flush it triggers.
LEMMA PushIInv == IInv /\ push => IInv'
<1> SUFFICES ASSUME IInv, push PROVE IInv'
  OBVIOUS
<1> USE DEF IInv
<1>1. /\ files' = files /\ ledger' = ledger /\ Fragments' = Fragments /\ Anchors' = Anchors
      /\ status' = "up" /\ status = "up" /\ step = "idle" /\ arrived' = arrived + 1
  BY DEF push, disk, Fragments, Anchors, Idle
<1>2. TypeOK'
  BY StepTypeOK DEF Next
<1>3. Anchored' /\ ArrivalOrder' /\ LedgerOrdered'
  BY <1>1 DEF Anchored, ArrivalOrder, LedgerOrdered, Verifies
<1> DEFINE pending == Append(buffer, arrived + 1)
<1>4. \/ BeginFlush(pending)
      \/ buffer' = pending /\ UNCHANGED <<current_block_id, step, job>>
  BY DEF push
<1>t. arrived \in Nat /\ buffer \in Seq(Log) /\ job.logs \in Seq(Log) /\ Log \subseteq Nat
  BY DEF TypeOK, Log
<1>p. /\ pending # <<>>
      /\ DOMAIN pending = 1..(Len(buffer) + 1) /\ DOMAIN buffer = 1..Len(buffer) /\ Len(buffer) \in Nat
      /\ \A i \in DOMAIN buffer : pending[i] = buffer[i]
      /\ pending[Len(buffer) + 1] = arrived + 1
  BY <1>t
<1> HIDE DEF pending
<1>o. /\ Arrived(buffer) /\ Arrived(job.logs) /\ AnchorLog!Ascending(buffer)
      /\ AnchorLog!Ascending(job.logs) /\ Precede(job.logs, buffer)
      /\ AnchoredBefore(buffer) /\ \A e \in Anchors : Arrived(files[e.block_id].logs)
  BY DEF LogOrder
<1>5. (\A i \in DOMAIN pending : pending[i] <= arrived') /\ AnchorLog!Ascending(pending)
  <2>1. \A i \in DOMAIN buffer : buffer[i] \in Nat /\ buffer[i] <= arrived
    BY <1>t, <1>o, LogsAreNumbers DEF Arrived
  <2>2. \A i \in DOMAIN pending : pending[i] \in Nat /\ pending[i] <= arrived + 1
    BY <1>t, <1>p, <2>1
  <2>3. AnchorLog!Ascending(pending)
    <3> SUFFICES ASSUME NEW i \in DOMAIN pending, NEW j \in DOMAIN pending, i < j
                 PROVE  pending[i] < pending[j]
      BY DEF AnchorLog!Ascending
    <3>1. CASE j = Len(buffer) + 1
      BY <1>t, <1>p, <2>1, <3>1
    <3>2. CASE j \in DOMAIN buffer
      BY <1>p, <1>o, <3>2 DEF AnchorLog!Ascending
    <3> QED BY <1>p, <3>1, <3>2
  <2> QED BY <1>1, <2>2, <2>3
<1>6. ASSUME NEW s \in Seq(Log), Arrived(s), Precede(s, buffer)
      PROVE  Arrived(s)' /\ Precede(s, pending)
  <2>1. \A i \in DOMAIN s : s[i] \in Nat /\ s[i] <= arrived
    BY <1>t, <1>6, LogsAreNumbers DEF Arrived
  <2>2. Precede(s, pending)
    BY <1>t, <1>p, <1>6, <2>1 DEF Precede
  <2> QED BY <1>1, <1>t, <2>1, <2>2 DEF Arrived
<1>7. ASSUME NEW e \in Anchors
      PROVE  /\ files[e.block_id].logs \in Seq(Log)
             /\ Arrived(files[e.block_id].logs)'
             /\ Precede(files[e.block_id].logs, pending)
  <2>1. files[e.block_id].logs \in Seq(Log)
    BY DEF Anchored, TypeOK
  <2>2. Arrived(files[e.block_id].logs) /\ Precede(files[e.block_id].logs, buffer)
    BY <1>o DEF AnchoredBefore
  <2> QED BY <1>1, <1>6, <2>1, <2>2 DEF Arrived
<1>8. CASE BeginFlush(pending)
  <2>1. job' = [block_id |-> current_block_id, logs |-> pending]
        /\ buffer' = <<>> /\ current_block_id' = current_block_id + 1 /\ step' = "create"
    BY <1>8 DEF BeginFlush
  <2>2. JobOK'
    BY <1>1, <1>p, <2>1 DEF JobOK, TypeOK
  <2>3. FragmentIds'
    BY <1>1, <2>1, FragmentIdsTyped DEF FragmentIds, TypeOK
  <2>4. LogOrder'
    <3>1. job'.logs = pending
      BY <2>1
    <3>2. Arrived(job.logs)' /\ AnchorLog!Ascending(job.logs)'
      BY <1>5, <3>1 DEF Arrived, AnchorLog!Ascending
    <3>3. AnchoredBefore(job.logs)' /\ \A e \in Anchors' : Arrived(files[e.block_id].logs)'
      BY <1>1, <1>7, <3>1 DEF AnchoredBefore, Precede
    <3>4. /\ Arrived(buffer)' /\ AnchoredBefore(buffer)' /\ Precede(job.logs, buffer)'
          /\ AnchorLog!Ascending(buffer)'
      BY <2>1 DEF Arrived, AnchoredBefore, Precede, AnchorLog!Ascending
    <3> QED BY <3>2, <3>3, <3>4 DEF LogOrder
  <2> QED BY <1>2, <1>3, <2>2, <2>3, <2>4
<1>9. CASE buffer' = pending /\ UNCHANGED <<current_block_id, step, job>>
  <2>1. JobOK' /\ FragmentIds'
    BY <1>1, <1>9 DEF JobOK, FragmentIds
  <2>2. Arrived(buffer)' /\ AnchorLog!Ascending(buffer)'
    BY <1>5, <1>9 DEF Arrived, AnchorLog!Ascending
  <2>3. Arrived(job.logs)' /\ Precede(job.logs, buffer)' /\ AnchorLog!Ascending(job.logs)'
    BY <1>t, <1>o, <1>6, <1>9 DEF Arrived, Precede, AnchorLog!Ascending
  <2>4. AnchoredBefore(buffer)' /\ \A e \in Anchors' : Arrived(files[e.block_id].logs)'
    BY <1>1, <1>7, <1>9 DEF AnchoredBefore, Precede
  <2>5. LogOrder'
    BY <1>1, <1>9, <2>2, <2>3, <2>4 DEF LogOrder
  <2> QED BY <1>2, <1>3, <2>1, <2>5
<1> QED BY <1>4, <1>8, <1>9

\* A flush of the buffer as it stands, by `check_timeout` or by `flush`.
LEMMA BeginFlushIInv == IInv /\ (check_timeout \/ flush) => IInv'
<1> SUFFICES ASSUME IInv, check_timeout \/ flush PROVE IInv'
  OBVIOUS
<1> USE DEF IInv
<1>1. /\ files' = files /\ ledger' = ledger /\ Fragments' = Fragments /\ Anchors' = Anchors
      /\ status' = "up" /\ status = "up" /\ step = "idle" /\ arrived' = arrived
      /\ buffer # <<>> /\ BeginFlush(buffer)
  BY DEF check_timeout, flush, disk, Fragments, Anchors, Idle
<1>2. TypeOK'
  BY StepTypeOK DEF Next
<1>3. Anchored' /\ ArrivalOrder' /\ LedgerOrdered'
  BY <1>1 DEF Anchored, ArrivalOrder, LedgerOrdered, Verifies
<1>4. /\ job' = [block_id |-> current_block_id, logs |-> buffer] /\ job'.logs = buffer
      /\ buffer' = <<>> /\ current_block_id' = current_block_id + 1 /\ step' = "create"
  BY <1>1 DEF BeginFlush
<1>5. JobOK'
  BY <1>1, <1>4 DEF JobOK, TypeOK
<1>6. FragmentIds'
  BY <1>1, <1>4, FragmentIdsTyped DEF FragmentIds, TypeOK
<1>7. LogOrder'
  <2>1. /\ Arrived(buffer) /\ AnchorLog!Ascending(buffer)
        /\ AnchoredBefore(buffer) /\ \A e \in Anchors : Arrived(files[e.block_id].logs)
    BY DEF LogOrder
  <2>2. Arrived(job.logs)' /\ AnchorLog!Ascending(job.logs)'
    BY <1>1, <1>4, <2>1 DEF Arrived, AnchorLog!Ascending
  <2>3. AnchoredBefore(job.logs)' /\ \A e \in Anchors' : Arrived(files[e.block_id].logs)'
    BY <1>1, <1>4, <2>1 DEF AnchoredBefore, Precede, Arrived
  <2>4. /\ Arrived(buffer)' /\ AnchoredBefore(buffer)' /\ Precede(job.logs, buffer)'
        /\ AnchorLog!Ascending(buffer)'
    BY <1>4 DEF Arrived, AnchoredBefore, Precede, AnchorLog!Ascending
  <2> QED BY <2>2, <2>3, <2>4 DEF LogOrder
<1> QED BY <1>2, <1>3, <1>5, <1>6, <1>7

\* The Parquet writer creates, then completes, the file of a fresh block.
LEMMA ParquetIInv == IInv /\ (CreateParquet \/ WriteParquet) => IInv'
<1> SUFFICES ASSUME IInv, CreateParquet \/ WriteParquet PROVE IInv'
  OBVIOUS
<1> USE DEF IInv
<1>1. PICK f \in [complete : BOOLEAN, logs : Seq(Log)] :
        /\ step \in {"create", "write"} /\ SetFile(job.block_id, f)
        /\ step' \in {"write", "append"}
        /\ step' = "append" => f = Complete(job.logs)
        /\ UNCHANGED <<status, buffer, current_block_id, job, ledger, arrived>>
  <2>1. Partial \in [complete : BOOLEAN, logs : Seq(Log)]
    BY DEF Partial
  <2>2. Complete(job.logs) \in [complete : BOOLEAN, logs : Seq(Log)]
    BY DEF Complete, TypeOK
  <2>3. CASE CreateParquet
    BY <2>1, <2>3 DEF CreateParquet
  <2>4. CASE WriteParquet
    BY <2>2, <2>4 DEF WriteParquet
  <2> QED BY <2>3, <2>4
<1>2. TypeOK'
  BY StepTypeOK DEF Next, FlushStep
<1>3. Fragments' = Fragments /\ Anchors' = Anchors
  BY <1>1 DEF Fragments, Anchors
<1>4. \A e \in Anchors : /\ e.block_id \in DOMAIN files
                          /\ e.block_id \in DOMAIN files'
                          /\ files'[e.block_id] = files[e.block_id]
  BY <1>1, FreshFile
<1>5. Anchored'
  BY <1>3, <1>4 DEF Anchored, Verifies
<1>6. ArrivalOrder'
  BY <1>3, <1>4 DEF ArrivalOrder
<1>7. LedgerOrdered'
  BY <1>1 DEF LedgerOrdered
<1>8. JobOK'
  <2>1. job.block_id \in DOMAIN files' /\ files'[job.block_id] = f
    BY <1>1 DEF SetFile
  <2> QED BY <1>1, <2>1 DEF JobOK
<1>9. FragmentIds'
  BY <1>1, <1>3 DEF FragmentIds
<1>10. LogOrder'
  <2>1. \A e \in Anchors' : Arrived(files[e.block_id].logs)'
    BY <1>1, <1>3, <1>4 DEF LogOrder, Arrived
  <2>2. AnchoredBefore(job.logs)' /\ AnchoredBefore(buffer)'
    BY <1>1, <1>3, <1>4 DEF LogOrder, AnchoredBefore, Precede
  <2>3. Arrived(job.logs)' /\ Arrived(buffer)' /\ Precede(job.logs, buffer)'
    BY <1>1 DEF LogOrder, Arrived, Precede
  <2>4. AnchorLog!Ascending(buffer)' /\ AnchorLog!Ascending(job.logs)'
    BY <1>1 DEF LogOrder, AnchorLog!Ascending
  <2> QED BY <2>1, <2>2, <2>3, <2>4 DEF LogOrder
<1> QED BY <1>2, <1>5, <1>6, <1>7, <1>8, <1>9, <1>10

\* Anchoring the block: its entry joins the ledger when its file is complete.
LEMMA AppendIInv == IInv /\ AppendEntry => IInv'
<1> SUFFICES ASSUME IInv, AppendEntry PROVE IInv'
  OBVIOUS
<1> USE DEF IInv
<1> DEFINE f == [whole |-> TRUE, entry |-> LedgerEntry(job)]
<1>1. /\ f \in Fragment /\ f.whole /\ f.entry = LedgerEntry(job)
      /\ f.entry.block_id = job.block_id /\ job.block_id \in Nat
  BY EntryTyped DEF Fragment, TypeOK, LedgerEntry
<1>2. /\ AppendFragment(f) /\ step = "append" /\ step' = "newline" /\ status = "up"
      /\ UNCHANGED <<status, buffer, current_block_id, job, files, arrived>>
  BY DEF AppendEntry, JobOK
<1> HIDE DEF f
<1>3. TypeOK'
  BY StepTypeOK DEF Next, FlushStep
<1>4. Fragments' = Fragments \cup {f} /\ Anchors' = Anchors \cup {LedgerEntry(job)}
  BY <1>1, <1>2, AppendedFragment
<1>5. /\ job.block_id \in DOMAIN files /\ files[job.block_id] = Complete(job.logs)
      /\ job.logs # <<>> /\ job.block_id < current_block_id
  BY <1>2 DEF JobOK
<1>6. \A g \in Fragments : g.entry.block_id < job.block_id /\ g.entry.block_id < current_block_id
  BY <1>2 DEF FragmentIds
<1>7. \A e \in Anchors : e.block_id < job.block_id /\ e.block_id \in Nat
  BY <1>6, FragmentIdsTyped DEF Anchors
<1>8. Anchored'
  <2>1. Verifies(files[job.block_id].logs, LedgerEntry(job)) /\ files[job.block_id].complete
    BY <1>5 DEF Verifies, LedgerEntry, Complete
  <2>2. LedgerEntry(job).block_id = job.block_id
    BY DEF LedgerEntry
  <2> QED BY <1>2, <1>4, <1>5, <2>1, <2>2 DEF Anchored, Verifies
<1>9. ArrivalOrder'
  <2> SUFFICES ASSUME NEW e \in Anchors \cup {LedgerEntry(job)},
                      NEW g \in Anchors \cup {LedgerEntry(job)},
                      e.block_id < g.block_id
               PROVE  Precede(files[e.block_id].logs, files[g.block_id].logs)
    BY <1>2, <1>4 DEF ArrivalOrder, Precede
  <2>1. CASE e \in Anchors /\ g \in Anchors
    BY <2>1 DEF ArrivalOrder, Precede
  <2>2. CASE e \in Anchors /\ g = LedgerEntry(job)
    BY <1>2, <1>5, <2>2 DEF LogOrder, AnchoredBefore, LedgerEntry, Complete
  <2>3. CASE e = LedgerEntry(job)
    BY <1>1, <1>7, <2>3 DEF LedgerEntry
  <2> QED BY <2>1, <2>2, <2>3
<1>10. LedgerOrdered'
  BY <1>1, <1>2, <1>6, AppendKeepsOrder
<1>11. JobOK'
  BY <1>2, <1>5 DEF JobOK
<1>12. FragmentIds'
  BY <1>1, <1>2, <1>4, <1>5, <1>6 DEF FragmentIds
<1>13. LogOrder'
  <2>1. files[LedgerEntry(job).block_id].logs = job.logs
    BY <1>5 DEF LedgerEntry, Complete
  <2>2. \A e \in Anchors' : Arrived(files[e.block_id].logs)'
    BY <1>2, <1>4, <2>1 DEF LogOrder, Arrived
  <2>3. AnchoredBefore(buffer)'
    BY <1>2, <1>4, <2>1 DEF LogOrder, AnchoredBefore, Precede
  <2>4. Arrived(job.logs)' /\ Arrived(buffer)' /\ Precede(job.logs, buffer)'
    BY <1>2 DEF LogOrder, Arrived, Precede
  <2>5. AnchorLog!Ascending(buffer)' /\ AnchorLog!Ascending(job.logs)'
    BY <1>2 DEF LogOrder, AnchorLog!Ascending
  <2> QED BY <1>2, <2>2, <2>3, <2>4, <2>5 DEF LogOrder
<1> QED BY <1>3, <1>8, <1>9, <1>10, <1>11, <1>12, <1>13

\* Steps that leave the disk alone and at most forget what is in memory: the
\* end of a flush, its failures, a crash, the clock.
LEMMA QuietIInv ==
  ASSUME IInv, TypeOK',
         UNCHANGED <<files, ledger, arrived>>,
         buffer' = buffer \/ buffer' = <<>>,
         job' = job \/ job' = NoJob,
         step' = "idle" \/ UNCHANGED <<step, job, status>>,
         status' = "up" => status = "up" /\ current_block_id' = current_block_id,
         status' # "up" => step' = "idle" /\ buffer' = <<>>
  PROVE  IInv'
<1> USE DEF IInv
<1>1. Fragments' = Fragments /\ Anchors' = Anchors
  BY DEF Fragments, Anchors
<1>2. Anchored' /\ ArrivalOrder' /\ LedgerOrdered'
  BY <1>1 DEF Anchored, ArrivalOrder, LedgerOrdered, Verifies
<1>3. JobOK'
  BY DEF JobOK
<1>4. FragmentIds'
  BY <1>1 DEF FragmentIds, JobOK
<1>5. LogOrder'
  <2>1. job'.logs = job.logs \/ job'.logs = <<>>
    BY DEF NoJob
  <2>2. \A e \in Anchors' : Arrived(files[e.block_id].logs)'
    BY <1>1 DEF LogOrder, Arrived
  <2>3. Arrived(job.logs)' /\ AnchorLog!Ascending(job.logs)'
    BY <2>1 DEF LogOrder, Arrived, AnchorLog!Ascending
  <2>4. Arrived(buffer)' /\ AnchorLog!Ascending(buffer)'
    BY DEF LogOrder, Arrived, AnchorLog!Ascending
  <2>5. AnchoredBefore(buffer)'
    BY <1>1 DEF LogOrder, AnchoredBefore, Precede
  <2>6. step' \in {"create", "write", "append"} => AnchoredBefore(job.logs)'
    BY <1>1 DEF LogOrder, AnchoredBefore, Precede
  <2>7. Precede(job.logs, buffer)'
    BY <2>1 DEF LogOrder, Precede
  <2> QED BY <2>2, <2>3, <2>4, <2>5, <2>6, <2>7 DEF LogOrder
<1> QED BY <1>2, <1>3, <1>4, <1>5

\* A torn entry leaves a fragment with the id of the block that failed.
LEMMA TornIInv == IInv /\ TornAppend => IInv'
<1> SUFFICES ASSUME IInv, TornAppend PROVE IInv'
  OBVIOUS
<1> USE DEF IInv
<1> DEFINE f == [whole |-> FALSE, entry |-> LedgerEntry(job)]
<1>1. /\ f \in Fragment /\ ~f.whole /\ f.entry.block_id = job.block_id
  BY EntryTyped DEF Fragment, TypeOK, LedgerEntry
<1>2. /\ AppendFragment(f) /\ step = "append" /\ step' = "idle" /\ status = "up" /\ job' = NoJob
      /\ UNCHANGED <<status, buffer, current_block_id, files, arrived>>
  BY DEF TornAppend, FlushFails, JobOK
<1> HIDE DEF f
<1>3. TypeOK'
  BY StepTypeOK DEF Next, Failure
<1>4. Fragments' = Fragments \cup {f} /\ Anchors' = Anchors
  BY <1>1, <1>2, AppendedFragment
<1>5. /\ \A g \in Fragments : g.entry.block_id < job.block_id /\ g.entry.block_id < current_block_id
      /\ job.block_id < current_block_id
  BY <1>2 DEF FragmentIds, JobOK
<1>6. LedgerOrdered'
  BY <1>1, <1>2, <1>5, AppendKeepsOrder
<1>7. Anchored' /\ ArrivalOrder'
  BY <1>2, <1>4 DEF Anchored, ArrivalOrder, Verifies
<1>8. JobOK' /\ FragmentIds'
  BY <1>1, <1>2, <1>4, <1>5 DEF JobOK, FragmentIds
<1>9. LogOrder'
  <2>1. job'.logs = <<>>
    BY <1>2 DEF NoJob
  <2>2. \A e \in Anchors' : Arrived(files[e.block_id].logs)'
    BY <1>2, <1>4 DEF LogOrder, Arrived
  <2>3. AnchoredBefore(buffer)'
    BY <1>2, <1>4 DEF LogOrder, AnchoredBefore, Precede
  <2>4. Arrived(job.logs)' /\ AnchorLog!Ascending(job.logs)' /\ Precede(job.logs, buffer)'
    BY <2>1 DEF Arrived, AnchorLog!Ascending, Precede
  <2>5. Arrived(buffer)' /\ AnchorLog!Ascending(buffer)'
    BY <1>2 DEF LogOrder, Arrived, AnchorLog!Ascending
  <2> QED BY <1>2, <2>2, <2>3, <2>4, <2>5 DEF LogOrder
<1> QED BY <1>3, <1>6, <1>7, <1>8, <1>9

\* A restart continues above every id in the ledger, because its lines are in
\* id order and each holds one entry.
LEMMA NewIInv == IInv /\ new => IInv'
<1> SUFFICES ASSUME IInv, new PROVE IInv'
  OBVIOUS
<1> USE DEF IInv
<1>1. /\ UNCHANGED <<buffer, step, job, files, ledger, arrived>>
      /\ status # "up" /\ step = "idle" /\ buffer = <<>>
  BY DEF new, disk, JobOK
<1>2. TypeOK'
  BY StepTypeOK DEF Next
<1>3. Fragments' = Fragments /\ Anchors' = Anchors
  BY <1>1 DEF Fragments, Anchors
<1>4. Anchored' /\ ArrivalOrder' /\ LedgerOrdered'
  BY <1>1, <1>3 DEF Anchored, ArrivalOrder, LedgerOrdered, Verifies
<1>5. JobOK'
  BY <1>1 DEF JobOK
<1>6. FragmentIds'
  <2> SUFFICES ASSUME NEW f \in Fragments, status' = "up"
               PROVE  f.entry.block_id < current_block_id'
    BY <1>1, <1>3 DEF FragmentIds
  <2>1. Readable
    BY DEF new
  <2>2. PICK k \in DOMAIN ledger : \E j \in DOMAIN ledger[k] : f = ledger[k][j]
    BY DEF Fragments
  <2>3. Len(ledger) \in DOMAIN ledger /\ k \in 1..Len(ledger) /\ ledger # <<>> /\ Len(ledger) \in Nat
    BY DEF TypeOK
  <2>4. /\ Len(ledger[k]) = 1 /\ ledger[k] \in Seq(Fragment)
        /\ Len(ledger[Len(ledger)]) = 1 /\ ledger[Len(ledger)] \in Seq(Fragment)
    BY <2>1, <2>3 DEF Readable, Parses, TypeOK, Fragment
  <2>5. f = ledger[k][1] /\ 1 \in DOMAIN ledger[k] /\ 1 \in DOMAIN ledger[Len(ledger)]
    BY <2>2, <2>4
  <2>6. current_block_id' = ledger[Len(ledger)][1].entry.block_id + 1
    BY <2>1, <2>3 DEF new, load_ledger_entries
  <2>7. f.entry.block_id \in Nat /\ ledger[Len(ledger)][1].entry.block_id \in Nat
    BY <2>1, <2>3, <2>5, LoadTyped DEF Entry
  <2>8. CASE k = Len(ledger)
    BY <2>5, <2>6, <2>7, <2>8
  <2>9. CASE k < Len(ledger)
    <3>1. f.entry.block_id < ledger[Len(ledger)][1].entry.block_id
      BY <2>3, <2>5, <2>9 DEF LedgerOrdered
    <3> QED BY <2>6, <2>7, <3>1
  <2> QED BY <2>3, <2>8, <2>9
<1>7. LogOrder'
  <2>1. \A e \in Anchors' : Arrived(files[e.block_id].logs)'
    BY <1>1, <1>3 DEF LogOrder, Arrived
  <2>2. AnchoredBefore(buffer)'
    BY <1>1, <1>3 DEF LogOrder, AnchoredBefore, Precede
  <2>3. Arrived(job.logs)' /\ Arrived(buffer)' /\ Precede(job.logs, buffer)'
    BY <1>1 DEF LogOrder, Arrived, Precede
  <2>4. AnchorLog!Ascending(buffer)' /\ AnchorLog!Ascending(job.logs)'
    BY <1>1 DEF LogOrder, AnchorLog!Ascending
  <2> QED BY <1>1, <2>1, <2>2, <2>3, <2>4 DEF LogOrder
<1> QED BY <1>2, <1>4, <1>5, <1>6, <1>7

\* One step per action: the invariant survives all of them.
LEMMA StepIInv == IInv /\ [Next]_vars => IInv'
<1> SUFFICES ASSUME IInv, [Next]_vars PROVE IInv'
  OBVIOUS
<1>t. TypeOK'
  BY StepTypeOK DEF IInv
<1>1. CASE push
  BY <1>1, PushIInv
<1>2. CASE check_timeout \/ flush
  BY <1>2, BeginFlushIInv
<1>3. CASE CreateParquet \/ WriteParquet
  BY <1>3, ParquetIInv
<1>4. CASE AppendEntry
  BY <1>4, AppendIInv
<1>5. CASE FinishFlush
  BY <1>5, <1>t, QuietIInv DEF FinishFlush, IInv, JobOK
<1>6. CASE Tick
  BY <1>6, <1>t, QuietIInv DEF Tick, disk, IInv, JobOK
<1>7. CASE ParquetError \/ LedgerError
  BY <1>7, <1>t, QuietIInv DEF ParquetError, LedgerError, FlushFails, disk, IInv, JobOK
<1>8. CASE TornAppend
  BY <1>8, TornIInv
<1>9. CASE Crash
  BY <1>9, <1>t, QuietIInv DEF Crash, disk
<1>10. CASE new
  BY <1>10, NewIInv
<1>11. CASE UNCHANGED vars
  BY <1>11, <1>t, QuietIInv DEF vars, process, disk, IInv, JobOK
<1> QED
  BY <1>1, <1>2, <1>3, <1>4, <1>5, <1>6, <1>7, <1>8, <1>9, <1>10, <1>11
  DEF Next, FlushStep, Failure

\* The invariant of the flush protocol holds in every reachable state, whatever
\* crashes and I/O errors happen (batcher.rs:226-310, 122-141).
THEOREM Invariance == Spec => []IInv
BY InitIInv, StepIInv, PTL DEF Spec

\* Every anchored block is on disk, complete, and verifies: the Parquet file is
\* closed before the ledger entry is appended (batcher.rs:269-281).
THEOREM AnchoredAlways == Spec => []Anchored
<1>1. IInv => Anchored
  BY DEF IInv
<1> QED BY <1>1, Invariance, PTL

\* Blocks hold the logs in the order in which `push` received them, none twice.
THEOREM ArrivalOrderAlways == Spec => []ArrivalOrder
<1>1. IInv => ArrivalOrder
  BY DEF IInv
<1> QED BY <1>1, Invariance, PTL

\* `new` and `flush` never hand out the id of an anchored block again.
THEOREM FreshIdsAlways == Spec => []FreshIds
<1>1. IInv => FreshIds
  BY DEF IInv, FragmentIds, FreshIds, Anchors
<1> QED BY <1>1, Invariance, PTL

\* What one step may do to the anchored blocks: keep them, and perhaps seal the
\* block in flight after all of them.
LEMMA StepSeals ==
  ASSUME IInv, [Next]_vars
  PROVE  /\ \A e \in Anchors : /\ e.block_id \in DOMAIN files'
                                /\ files'[e.block_id] = files[e.block_id]
         /\ \/ Anchors' = Anchors
            \/ /\ step = "append" /\ files' = files
               /\ Anchors' = Anchors \cup {LedgerEntry(job)}
<1> USE DEF IInv
<1>1. \A e \in Anchors : e.block_id \in DOMAIN files
  BY DEF Anchored
<1>2. CASE UNCHANGED <<files, ledger>>
  BY <1>1, <1>2 DEF Anchors, Fragments
<1>3. CASE CreateParquet \/ WriteParquet
  <2>1. Anchors' = Anchors
    BY <1>3 DEF CreateParquet, WriteParquet, Anchors, Fragments
  <2>2. PICK f \in [complete : BOOLEAN, logs : Seq(Log)] :
          step \in {"create", "write"} /\ SetFile(job.block_id, f)
    <3>1. Partial \in [complete : BOOLEAN, logs : Seq(Log)]
      BY DEF Partial
    <3>2. Complete(job.logs) \in [complete : BOOLEAN, logs : Seq(Log)]
      BY DEF Complete, TypeOK
    <3> QED BY <1>3, <3>1, <3>2 DEF CreateParquet, WriteParquet
  <2> QED BY <2>1, <2>2, FreshFile
<1>4. CASE AppendEntry
  <2> DEFINE f == [whole |-> TRUE, entry |-> LedgerEntry(job)]
  <2>1. f \in Fragment /\ f.whole /\ f.entry = LedgerEntry(job)
    BY EntryTyped DEF Fragment, TypeOK
  <2>2. AppendFragment(f) /\ step = "append" /\ files' = files
    BY <1>4 DEF AppendEntry
  <2> HIDE DEF f
  <2> QED BY <1>1, <2>1, <2>2, AppendedFragment
<1>5. CASE TornAppend
  <2> DEFINE f == [whole |-> FALSE, entry |-> LedgerEntry(job)]
  <2>1. f \in Fragment /\ ~f.whole
    BY EntryTyped DEF Fragment, TypeOK
  <2>2. AppendFragment(f) /\ files' = files
    BY <1>5 DEF TornAppend
  <2> HIDE DEF f
  <2> QED BY <1>1, <2>1, <2>2, AppendedFragment
<1>6. CASE push \/ check_timeout \/ flush \/ FinishFlush \/ Tick \/ ParquetError
           \/ LedgerError \/ Crash \/ new \/ UNCHANGED vars
  <2>1. UNCHANGED <<files, ledger>>
    BY <1>6 DEF push, check_timeout, flush, FinishFlush, Tick, ParquetError, LedgerError,
                Crash, new, disk, vars
  <2> QED BY <1>2, <2>1
<1> QED BY <1>3, <1>4, <1>5, <1>6 DEF Next, FlushStep, Failure

\* No step, and no sequence of crashes, errors and restarts, changes the file of
\* an anchored block or removes an entry from the ledger.
THEOREM SealedForeverAlways == Spec => SealedForever
<1>1. IInv /\ [Next]_vars =>
        [/\ Anchors \subseteq Anchors'
         /\ \A e \in Anchors : /\ e.block_id \in DOMAIN files'
                               /\ files'[e.block_id] = files[e.block_id]]_vars
  BY StepSeals
<1> QED BY <1>1, Invariance, PTL DEF Spec, SealedForever

\* The accumulator implements the append-only log of module AnchorLog: every
\* step of `flush`, of a failure or of a restart seals one later block or none.
THEOREM Refinement == Spec => ImplementsAnchorLog
<1>1. Init => AnchorLog!Init
  BY DEF Init, AnchorLog!Init, Sealed, Anchors, Fragments
<1>2. IInv /\ [Next]_vars => [AnchorLog!Next]_Sealed
  <2> SUFFICES ASSUME IInv, [Next]_vars PROVE [AnchorLog!Next]_Sealed
    OBVIOUS
  <2>1. CASE Anchors' = Anchors
    <3>1. Sealed' = Sealed
      BY <2>1, StepSeals DEF Sealed
    <3> QED BY <3>1
  <2>2. CASE step = "append" /\ files' = files /\ Anchors' = Anchors \cup {LedgerEntry(job)}
    <3> DEFINE b == [block_id |-> job.block_id, logs |-> job.logs]
    <3>1. /\ files[LedgerEntry(job).block_id].logs = job.logs
          /\ LedgerEntry(job).block_id = job.block_id /\ job.logs # <<>>
      BY <2>2 DEF IInv, JobOK, LedgerEntry, Complete
    <3>2. Sealed' = Sealed \cup {b}
      BY <2>2, <3>1 DEF Sealed
    <3>3. AnchorLog!Ascending(b.logs)
      BY DEF IInv, LogOrder
    <3>4. ASSUME NEW c \in Sealed PROVE AnchorLog!Follows(b, c)
      <4>1. PICK e \in Anchors : c = [block_id |-> e.block_id, logs |-> files[e.block_id].logs]
        BY DEF Sealed
      <4>2. e.block_id < job.block_id
        BY <2>2 DEF IInv, FragmentIds, Anchors
      <4>3. Precede(files[e.block_id].logs, job.logs)
        BY <2>2 DEF IInv, LogOrder, AnchoredBefore
      <4> QED BY <4>1, <4>2, <4>3 DEF AnchorLog!Follows, Precede
    <3>5. b \in Sealed' /\ b.logs # <<>>
      BY <3>1, <3>2
    <3>6. AnchorLog!Seal(b)
      BY <3>2, <3>3, <3>4, <3>5 DEF AnchorLog!Seal
    <3> QED BY <3>5, <3>6 DEF AnchorLog!Next
  <2> QED BY <2>1, <2>2, StepSeals
<1> QED BY <1>1, <1>2, Invariance, PTL DEF Spec, ImplementsAnchorLog, AnchorLog!Spec

\* Within a block, too, the logs lie in the order in which `push` received them: what
\* is sealed once in order stays in order.
THEOREM BlocksAscendAlways == Spec => [](\A e \in Anchors : AnchorLog!Ascending(files[e.block_id].logs))
<1> DEFINE Ascend == \A b \in Sealed : AnchorLog!Ascending(b.logs)
<1>1. AnchorLog!Init => Ascend
  BY DEF AnchorLog!Init
<1>2. Ascend /\ [AnchorLog!Next]_Sealed => Ascend'
  BY DEF AnchorLog!Next, AnchorLog!Seal, AnchorLog!Ascending
<1>3. Ascend => \A e \in Anchors : AnchorLog!Ascending(files[e.block_id].logs)
  <2> SUFFICES ASSUME Ascend, NEW e \in Anchors PROVE AnchorLog!Ascending(files[e.block_id].logs)
    OBVIOUS
  <2>1. [block_id |-> e.block_id, logs |-> files[e.block_id].logs] \in Sealed
    BY DEF Sealed
  <2> QED BY <2>1
<1> HIDE DEF Ascend
<1> QED
  BY <1>1, <1>2, <1>3, Refinement, PTL DEF ImplementsAnchorLog, AnchorLog!Spec
=============================================================================
