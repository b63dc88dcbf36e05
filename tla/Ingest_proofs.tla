---------------------------- MODULE Ingest_proofs ----------------------------
(* Proofs about Ingest, for any number of sources, any capacity of the     *)
(* channel, and whatever the accumulator and its disk do.                  *)
EXTENDS Ingest, FiniteSetTheorems, SequenceTheorems, TLAPS

\* The theorems about the accumulator, for the one of this module.
P == INSTANCE Batcher_proofs

-----------------------------------------------------------------------------
(* Every step is a step of the accumulator, or leaves it alone.            *)

LEMMA StepOfBatcher == [Next]_vars => [B!Next]_(B!vars)
<1> SUFFICES ASSUME [Next]_vars PROVE [B!Next]_(B!vars)
  OBVIOUS
<1>1. ASSUME UNCHANGED batcherVars PROVE UNCHANGED B!vars
  BY <1>1 DEF batcherVars, B!vars, B!process, B!disk
<1>2. CASE UNCHANGED vars
  BY <1>1, <1>2 DEF vars
<1>3. CASE \E s \in Sources : \/ \E k \in 0..MaxLines : ReadLines(s, k)
                              \/ Room /\ CountLine(s)
                              \/ SendLine(s)
                              \/ SendError(s)
  BY <1>1, <1>3 DEF ReadLines, CountLine, SendLine, SendError
<1>4. CASE RecvLine
  BY <1>4 DEF RecvLine, B!Next
<1>5. CASE FlushStep \/ FlushDone
  BY <1>5 DEF FlushStep, FlushDone, B!Next, B!FlushStep
<1>6. CASE FlushError \/ Exit
  BY <1>6 DEF FlushError, Exit, B!Next, B!Failure
<1>7. CASE Tick \/ Start
  BY <1>7 DEF Tick, Start, B!Next
<1>8. CASE DropReceiver
  BY <1>1, <1>8 DEF DropReceiver
<1> QED
  BY <1>2, <1>3, <1>4, <1>5, <1>6, <1>7, <1>8 DEF Next

-----------------------------------------------------------------------------
(* Nothing is dropped.                                                     *)

Holding == {s \in Sources : holding[s]}

\* What the readers have counted is where it should be; a process that is not up has
\* counted nothing and holds nothing.
CountInv ==
  /\ arrived \in Nat /\ base \in Nat /\ total_ingested \in Nat
  /\ holding \in [Sources -> BOOLEAN]
  /\ channel \in Seq([source : Sources, number : Nat \ {0}])
  /\ sent \in [Sources -> Nat]
  /\ status # "up" => /\ total_ingested = 0 /\ base = arrived
                      /\ channel = <<>> /\ Holding = {}
  /\ NothingDropped

\* A reader that starts or stops to hold a line changes the number of those that do by one.
LEMMA OneReader ==
  ASSUME holding \in [Sources -> BOOLEAN], NEW s \in Sources, NEW b \in BOOLEAN,
         holding[s] # b, holding' = [holding EXCEPT ![s] = b]
  PROVE  /\ Cardinality(Holding) \in Nat
         /\ Cardinality(Holding') = Cardinality(Holding) + (IF b THEN 1 ELSE -1)
<1>1. IsFiniteSet(Holding) /\ Cardinality(Holding) \in Nat
  <2>1. Holding \subseteq Sources
    BY DEF Holding
  <2> QED
    BY <2>1, IngestAssumption, FS_Subset, FS_CardinalityType
<1>2. CASE b
  <2>1. s \notin Holding /\ Holding' = Holding \cup {s}
    BY <1>2 DEF Holding
  <2> QED
    BY <1>1, <1>2, <2>1, FS_AddElement
<1>3. CASE ~b
  <2>1. s \in Holding /\ Holding' = Holding \ {s}
    BY <1>3 DEF Holding
  <2> QED
    BY <1>1, <1>3, <2>1, FS_RemoveElement
<1> QED
  BY <1>2, <1>3

\* The accumulator alone: what its steps do to the pushed lines and to the process.
LEMMA Quiet ==
  /\ B!CreateParquet \/ B!WriteParquet \/ B!AppendEntry \/ B!FinishFlush
     \/ B!ParquetError \/ B!LedgerError \/ B!TornAppend \/ B!Tick
       => UNCHANGED <<status, arrived>>
  /\ B!push => status = "up" /\ arrived' = arrived + 1 /\ status' = status
  /\ B!Crash => status = "up" /\ status' = "down" /\ arrived' = arrived
  /\ B!new => status # "up" /\ arrived' = arrived
BY DEF B!CreateParquet, B!WriteParquet, B!AppendEntry, B!FinishFlush, B!ParquetError,
       B!LedgerError, B!TornAppend, B!FlushFails, B!Tick, B!push, B!Idle, B!Crash, B!new

LEMMA InitCountInv == Init => CountInv
<1> SUFFICES ASSUME Init PROVE CountInv
  OBVIOUS
<1>1. Holding = {} /\ holding \in [Sources -> BOOLEAN]
  BY DEF Init, Holding
<1>2. Cardinality({}) = 0
  BY FS_EmptySet
<1>3. Len(channel) = 0 /\ channel \in Seq([source : Sources, number : Nat \ {0}])
  BY DEF Init
<1>4. total_ingested = 0 /\ arrived = 0 /\ base = 0 /\ Len(channel) = 0
  BY <1>3 DEF Init, B!Init
<1>5. NothingDropped
  <2>1. NothingDropped <=> (status = "up" /\ main # "returned" => total_ingested = (arrived - base) + Len(channel)
                                                             + Cardinality(Holding))
    BY DEF NothingDropped, Holding
  <2> QED
    BY <1>1, <1>2, <1>4, <2>1
<1> QED
  BY <1>1, <1>3, <1>5 DEF Init, B!Init, CountInv

LEMMA StepCountInv == CountInv /\ [Next]_vars => CountInv'
<1> SUFFICES ASSUME CountInv, [Next]_vars PROVE CountInv'
  OBVIOUS
<1> USE DEF CountInv
<1>0. /\ NothingDropped <=> (status = "up" /\ main # "returned" => total_ingested = (arrived - base) + Len(channel)
                                                              + Cardinality(Holding))
      /\ NothingDropped' <=> (status' = "up" /\ main' # "returned" => total_ingested' = (arrived' - base') + Len(channel')
                                                                + Cardinality(Holding'))
  BY DEF NothingDropped, Holding
<1>1. ASSUME UNCHANGED <<status, arrived, holding, sent, total_ingested, channel, base>>,
             main' = main \/ (main = "running" /\ main' = "returning")
      PROVE CountInv'
  BY <1>1 DEF NothingDropped, Holding
<1>2. CASE UNCHANGED vars
  BY <1>1, <1>2 DEF vars, batcherVars, readers
<1>3. ASSUME NEW s \in Sources, NEW k \in 0..MaxLines, ReadLines(s, k) PROVE CountInv'
  BY <1>1, <1>3 DEF ReadLines, batcherVars
<1>4. ASSUME NEW s \in Sources, CountLine(s) PROVE CountInv'
  <2>1. Cardinality(Holding) \in Nat /\ Cardinality(Holding') = Cardinality(Holding) + 1
    BY <1>4, OneReader DEF CountLine
  <2>2. /\ UNCHANGED <<status, arrived, sent, channel, main, base>>
        /\ total_ingested' = total_ingested + 1
        /\ holding' \in [Sources -> BOOLEAN] /\ status = "up"
    BY <1>4 DEF CountLine, batcherVars
  <2>3. Len(channel) \in Nat
    BY LenProperties
  <2> HIDE DEF Holding
  <2>4. NothingDropped'
    BY <1>0, <2>1, <2>2, <2>3
  <2> QED
    BY <2>2, <2>4
<1>5. ASSUME NEW s \in Sources, SendLine(s) PROVE CountInv'
  <2>1. Cardinality(Holding) \in Nat /\ Cardinality(Holding') = Cardinality(Holding) - 1
    BY <1>5, OneReader DEF SendLine
  <2>2. Line(s, sent[s] + 1) \in [source : Sources, number : Nat \ {0}]
    BY DEF Line
  <2>3. /\ channel' \in Seq([source : Sources, number : Nat \ {0}])
        /\ Len(channel') = Len(channel) + 1
    BY <1>5, <2>2 DEF SendLine
  <2> QED
    BY <1>0, <1>5, <2>1, <2>3, LenProperties DEF SendLine, batcherVars
<1>6. CASE RecvLine
  <2>1. /\ channel' \in Seq([source : Sources, number : Nat \ {0}])
        /\ Len(channel') = Len(channel) - 1 /\ Len(channel) \in Nat
    BY <1>6, HeadTailProperties, LenProperties DEF RecvLine
  <2>2. Cardinality(Holding') = Cardinality(Holding)
    BY <1>6 DEF RecvLine, readers, Holding
  <2>3. UNCHANGED <<sent, holding, total_ingested, main, base>>
    BY <1>6 DEF RecvLine, readers
  <2>4. status = "up" /\ arrived' = arrived + 1 /\ status' = status
    BY <1>6, Quiet DEF RecvLine
  <2> HIDE DEF Holding
  <2>5. NothingDropped'
    <3>1. Cardinality(Holding) \in Nat
      <4>1. Holding \subseteq Sources
        BY DEF Holding
      <4> QED
        BY <4>1, IngestAssumption, FS_Subset, FS_CardinalityType
    <3> QED
      BY <1>0, <2>1, <2>2, <2>3, <2>4, <3>1
  <2> QED
    BY <2>1, <2>3, <2>4, <2>5
<1>7. CASE FlushStep \/ FlushDone \/ FlushError \/ Tick
  BY <1>1, <1>7, Quiet DEF FlushStep, FlushDone, FlushError, Tick, readers
<1>a. ASSUME NEW s \in Sources, SendError(s) PROVE CountInv'
  <2>1. status = "up" /\ status' = "up" /\ main' = "returned"
    BY <1>a DEF SendError, batcherVars
  <2>2. /\ holding' \in [Sources -> BOOLEAN]
        /\ UNCHANGED <<arrived, sent, total_ingested, channel, base>>
    BY <1>a DEF SendError, batcherVars
  <2> QED
    BY <1>0, <2>1, <2>2
<1>b. CASE DropReceiver
  <2>1. main' = "returned" /\ channel' = <<>>
    BY <1>b DEF DropReceiver
  <2>2. UNCHANGED <<status, arrived, holding, sent, total_ingested, base>>
    BY <1>b DEF DropReceiver, batcherVars, readers
  <2>3. Holding' = Holding
    BY <2>2 DEF Holding
  <2> QED
    BY <1>0, <2>1, <2>2, <2>3
<1>8. CASE Exit
  <2>1. Holding' = {} /\ holding' \in [Sources -> BOOLEAN]
    BY <1>8 DEF Exit, Holding
  <2>2. /\ status' = "down" /\ arrived' = arrived /\ base' = arrived /\ total_ingested' = 0
        /\ channel' = <<>> /\ sent' = sent
    BY <1>8, Quiet DEF Exit
  <2> QED
    BY <1>0, <2>1, <2>2
<1>9. CASE Start
  <2>1. status # "up" /\ UNCHANGED <<arrived, holding, sent, total_ingested, channel, base>>
    BY <1>9, Quiet DEF Start, readers
  <2>2. Holding = {} /\ Holding' = {}
    BY <2>1 DEF Holding
  <2>3. Cardinality({}) = 0
    BY FS_EmptySet
  <2>4. Len(channel') = 0
    BY <2>1
  <2> QED
    BY <1>0, <2>1, <2>2, <2>3, <2>4
<1> QED
  BY <1>2, <1>3, <1>4, <1>5, <1>6, <1>7, <1>8, <1>9, <1>a, <1>b DEF Next

\* As long as there is a receiver, every line that a reader counted was pushed, is on the
\* channel, or is held by a reader (main.rs: the counter goes up before the send).
THEOREM NothingDroppedAlways == Spec => []NothingDropped
<1>1. CountInv => NothingDropped
  BY DEF CountInv
<1> QED
  BY <1>1, InitCountInv, StepCountInv, PTL DEF Spec

-----------------------------------------------------------------------------
(* The order of the lines.                                                 *)

\* The accumulator of this module is the one of the theorems.
LEMMA SameBatcher ==
  /\ B!Init <=> P!Init
  /\ [B!Next]_(B!vars) <=> [P!Next]_(P!vars)
  /\ B!Anchors = P!Anchors
<1>1. B!Init <=> P!Init
  BY DEF B!Init, P!Init, B!NoTime, P!NoTime, B!NoJob, P!NoJob, B!Partial, P!Partial
<1>2. B!Anchors = P!Anchors
  BY DEF B!Anchors, P!Anchors, B!Fragments, P!Fragments
<1>3. /\ \A logs : B!BeginFlush(logs) <=> P!BeginFlush(logs)
      /\ B!FlushFails <=> P!FlushFails
      /\ \A kind : B!Fault(kind) <=> P!Fault(kind)
      /\ B!Readable <=> P!Readable
      /\ B!load_ledger_entries = P!load_ledger_entries
      /\ \A f : B!AppendFragment(f) <=> P!AppendFragment(f)
      /\ \A id, f : B!SetFile(id, f) <=> P!SetFile(id, f)
      /\ B!LedgerEntry(job) = P!LedgerEntry(job)
  BY DEF B!BeginFlush, P!BeginFlush, B!NoTime, P!NoTime, B!FlushFails, P!FlushFails,
         B!NoJob, P!NoJob, B!Fault, P!Fault, B!Readable, P!Readable, B!Parses, P!Parses,
         B!load_ledger_entries, P!load_ledger_entries, B!AppendFragment, P!AppendFragment,
         B!SetFile, P!SetFile, B!LedgerEntry, P!LedgerEntry, B!Root, P!Root
<1>4. (B!push <=> P!push) /\ (B!check_timeout <=> P!check_timeout) /\ (B!flush <=> P!flush)
  BY <1>3 DEF B!push, P!push, B!check_timeout, P!check_timeout, B!flush, P!flush, B!Idle, P!Idle,
              B!should_flush, P!should_flush, B!disk, P!disk
<1>5. B!FlushStep <=> P!FlushStep
  BY <1>3 DEF B!FlushStep, P!FlushStep, B!CreateParquet, P!CreateParquet, B!WriteParquet,
              P!WriteParquet, B!AppendEntry, P!AppendEntry, B!FinishFlush, P!FinishFlush,
              B!Partial, P!Partial, B!Complete, P!Complete, B!NoJob, P!NoJob
<1>6. B!Failure <=> P!Failure
  BY <1>3 DEF B!Failure, P!Failure, B!ParquetError, P!ParquetError, B!LedgerError, P!LedgerError,
              B!TornAppend, P!TornAppend, B!Crash, P!Crash, B!disk, P!disk, B!NoTime, P!NoTime,
              B!NoJob, P!NoJob
<1>7. (B!Tick <=> P!Tick) /\ (B!new <=> P!new)
  BY <1>3 DEF B!Tick, P!Tick, B!new, P!new, B!disk, P!disk, B!NoTime, P!NoTime
<1>8. B!vars = P!vars /\ (UNCHANGED B!vars <=> UNCHANGED P!vars)
  BY DEF B!vars, P!vars, B!process, P!process, B!disk, P!disk
<1> QED
  BY <1>1, <1>2, <1>4, <1>5, <1>6, <1>7, <1>8 DEF B!Next, P!Next

\* What the theorems about the accumulator say of it here.
LEMMA BatcherHolds ==
  Spec => /\ []P!IInv
          /\ [](\A e \in P!Anchors : P!AnchorLog!Ascending(files[e.block_id].logs))
<1>1. Init => P!Init
  BY SameBatcher DEF Init
<1>2. [Next]_vars => [P!Next]_(P!vars)
  BY SameBatcher, StepOfBatcher
<1>3. Spec => P!Spec
  BY <1>1, <1>2, PTL DEF Spec, P!Spec
<1>a. /\ max_batch_size \in Nat
      /\ max_batch_duration \in Nat
      /\ MaxLogs \in Nat
      /\ MaxFaults \in Nat
      /\ FaultKinds \subseteq {"crash", "parquet", "ledger", "torn"}
  BY IngestAssumption
<1>4. P!Spec => []P!IInv
  BY <1>a, P!Invariance
<1>5. P!Spec => [](\A e \in P!Anchors : P!AnchorLog!Ascending(files[e.block_id].logs))
  BY <1>a, P!BlocksAscendAlways
<1> QED
  BY <1>3, <1>4, <1>5

Lines == [source : Sources, number : Nat \ {0}]

\* All the lines in the order in which they were sent: those that were pushed, then
\* those on the channel.
Queue == delivered \o channel

InLine(q) ==
  /\ \A i, j \in 1..Len(q) :
       i < j /\ q[i].source = q[j].source => q[i].number < q[j].number
  /\ \A i \in 1..Len(q) : q[i].number <= sent[q[i].source]

OrderInv ==
  /\ delivered \in Seq(Lines) /\ channel \in Seq(Lines)
  /\ sent \in [Sources -> Nat]
  /\ arrived \in Nat /\ Len(delivered) = arrived
  /\ InLine(Queue)

LEMMA QueueElements ==
  ASSUME NEW s \in Seq(Lines), NEW t \in Seq(Lines)
  PROVE  /\ s \o t \in Seq(Lines) /\ Len(s) \in Nat /\ Len(t) \in Nat
         /\ Len(s \o t) = Len(s) + Len(t)
         /\ \A i \in 1..(Len(s) + Len(t)) :
              (s \o t)[i] = IF i <= Len(s) THEN s[i] ELSE t[i - Len(s)]
BY ConcatProperties, LenProperties

\* The main loop moves the head of the channel to the end of what it has pushed.
LEMMA RecvKeepsQueue ==
  ASSUME NEW s \in Seq(Lines), NEW t \in Seq(Lines), t # <<>>
  PROVE  /\ Append(s, Head(t)) \in Seq(Lines) /\ Tail(t) \in Seq(Lines)
         /\ Len(Append(s, Head(t))) = Len(s) + 1
         /\ Append(s, Head(t)) \o Tail(t) = s \o t
<1> DEFINE a == Append(s, Head(t))
           u == Tail(t)
           n == Len(s)
           m == Len(t)
<1>1. /\ m \in Nat \ {0} /\ n \in Nat
      /\ u \in Seq(Lines) /\ Len(u) = m - 1
      /\ \A i \in 1..(m - 1) : u[i] = t[i + 1]
      /\ Head(t) = t[1] /\ Head(t) \in Lines
  BY HeadTailProperties, LenProperties
<1>2. /\ a \in Seq(Lines) /\ Len(a) = n + 1
      /\ \A i \in 1..n : a[i] = s[i]
      /\ a[n + 1] = t[1]
  BY <1>1, AppendProperties
<1>3. /\ s \o t \in Seq(Lines) /\ Len(s \o t) = n + m
      /\ \A i \in 1..(n + m) : (s \o t)[i] = IF i <= n THEN s[i] ELSE t[i - n]
  BY QueueElements
<1> HIDE DEF a, u, n, m
<1>4. /\ a \o u \in Seq(Lines) /\ Len(a \o u) = Len(a) + Len(u)
      /\ \A i \in 1..(Len(a) + Len(u)) :
           (a \o u)[i] = IF i <= Len(a) THEN a[i] ELSE u[i - Len(a)]
  BY <1>1, <1>2, QueueElements
<1>5. /\ Len(a \o u) = n + m
      /\ \A i \in 1..(n + m) : (a \o u)[i] = IF i <= n + 1 THEN a[i] ELSE u[i - (n + 1)]
  BY <1>1, <1>2, <1>4
<1> DEFINE q == s \o t
           r == a \o u
<1> HIDE DEF q, r
<1>6. ASSUME NEW i \in 1..(n + m) PROVE r[i] = q[i]
  <2>1. /\ q[i] = IF i <= n THEN s[i] ELSE t[i - n]
        /\ r[i] = IF i <= n + 1 THEN a[i] ELSE u[i - (n + 1)]
    BY <1>3, <1>5 DEF q, r
  <2>2. CASE i <= n
    BY <1>1, <1>2, <2>1, <2>2
  <2>3. CASE i = n + 1
    <3>1. i - n = 1 /\ ~(i <= n) /\ i <= n + 1
      BY <1>1, <2>3
    <3> QED
      BY <1>2, <2>1, <2>3, <3>1
  <2>4. CASE i > n + 1
    <3>1. i - (n + 1) \in 1..(m - 1) /\ (i - (n + 1)) + 1 = i - n /\ ~(i <= n) /\ ~(i <= n + 1)
      BY <1>1, <2>4
    <3>2. u[i - (n + 1)] = t[i - n]
      BY <1>1, <3>1
    <3> QED
      BY <2>1, <3>1, <3>2
  <2> QED
    BY <1>1, <2>2, <2>3, <2>4
<1>7. r = q
  <2>1. r \in Seq(Lines) /\ q \in Seq(Lines) /\ Len(r) = n + m /\ Len(q) = n + m
    BY <1>3, <1>4, <1>5 DEF q, r
  <2> QED
    BY <1>6, <2>1, SeqEqual
<1> QED
  BY <1>1, <1>2, <1>7 DEF a, u, n, m, q, r

LEMMA InitOrderInv == Init => OrderInv
<1> SUFFICES ASSUME Init PROVE OrderInv
  OBVIOUS
<1>1. /\ delivered = <<>> /\ channel = <<>> /\ arrived = 0 /\ sent \in [Sources -> Nat]
  BY DEF Init, B!Init
<1>2. delivered \in Seq(Lines) /\ channel \in Seq(Lines) /\ Len(delivered) = 0 /\ Len(channel) = 0
  BY <1>1
<1>3. Len(Queue) = 0
  BY <1>2, QueueElements DEF Queue
<1> QED
  BY <1>1, <1>2, <1>3 DEF OrderInv, InLine

LEMMA StepOrderInv == OrderInv /\ [Next]_vars => OrderInv'
<1> SUFFICES ASSUME OrderInv, [Next]_vars PROVE OrderInv'
  OBVIOUS
<1> USE DEF OrderInv
<1>1. ASSUME UNCHANGED <<delivered, channel, sent, arrived>> PROVE OrderInv'
  BY <1>1 DEF Queue, InLine
<1>2. CASE UNCHANGED vars
  BY <1>1, <1>2 DEF vars, batcherVars, readers
<1>3. ASSUME NEW s \in Sources, NEW k \in 0..MaxLines,
             ReadLines(s, k) \/ CountLine(s) \/ SendError(s)
      PROVE OrderInv'
  BY <1>1, <1>3 DEF ReadLines, CountLine, SendError, batcherVars
<1>4. ASSUME NEW s \in Sources, SendLine(s) PROVE OrderInv'
  <2> DEFINE l == Line(s, sent[s] + 1)
             n == Len(Queue)
  <2>1. l \in Lines /\ l.source = s /\ l.number = sent[s] + 1
    BY DEF Line, Lines
  <2>2. Queue \in Seq(Lines) /\ n \in Nat
    BY QueueElements, LenProperties DEF Queue
  <2>3. channel' = Append(channel, l) /\ delivered' = delivered /\ arrived' = arrived
        /\ sent' = [sent EXCEPT ![s] = @ + 1]
    BY <1>4 DEF SendLine, batcherVars
  <2>4. channel' \in Seq(Lines) /\ sent' \in [Sources -> Nat]
    BY <2>1, <2>3
  <2>5. Queue' = Append(Queue, l)
    <3>1. Append(channel, l) = channel \o <<l>> /\ Append(Queue, l) = Queue \o <<l>>
      BY <2>1, <2>2, AppendIsConcat
    <3>2. <<l>> \in Seq(Lines)
      BY <2>1
    <3>3. delivered \o (channel \o <<l>>) = (delivered \o channel) \o <<l>>
      BY <3>2, ConcatAssociative
    <3> QED
      BY <2>3, <3>1, <3>3 DEF Queue
  <2> HIDE DEF l
  <2>6. /\ Len(Queue') = n + 1 /\ Queue'[n + 1] = l
        /\ \A i \in 1..n : Queue'[i] = Queue[i]
    BY <2>1, <2>2, <2>5, AppendProperties
  <2>7. \A i \in 1..n : Queue[i].source \in Sources /\ Queue[i].number \in Nat
    <3>1. \A i \in 1..n : Queue[i] \in Lines
      BY <2>2, ElementOfSeq
    <3> QED
      BY <3>1 DEF Lines
  <2> HIDE DEF n
  <2>8. \A i \in 1..n : Queue[i].number <= sent[Queue[i].source]
    BY DEF InLine, n
  <2>9. \A i, j \in 1..n :
          i < j /\ Queue[i].source = Queue[j].source => Queue[i].number < Queue[j].number
    BY DEF InLine, n
  <2>10. \A r \in Sources : sent[r] \in Nat /\ sent'[r] = IF r = s THEN sent[s] + 1 ELSE sent[r]
    BY <2>3
  <2>11. ASSUME NEW i \in 1..(n + 1) PROVE Queue'[i].number <= sent'[Queue'[i].source]
    <3>1. CASE i = n + 1
      BY <2>1, <2>6, <2>10, <3>1
    <3>2. CASE i \in 1..n
      <4>1. /\ Queue'[i] = Queue[i] /\ Queue[i].source \in Sources /\ Queue[i].number \in Nat
            /\ Queue[i].number <= sent[Queue[i].source]
        BY <2>6, <2>7, <2>8, <3>2
      <4> QED
        BY <2>10, <4>1
    <3> QED
      BY <2>2, <3>1, <3>2
  <2>12. ASSUME NEW i \in 1..(n + 1), NEW j \in 1..(n + 1), i < j,
                Queue'[i].source = Queue'[j].source
         PROVE  Queue'[i].number < Queue'[j].number
    <3>1. i \in 1..n
      BY <2>2, <2>12
    <3>2. Queue'[i] = Queue[i] /\ Queue[i].number \in Nat /\ Queue[i].number <= sent[Queue[i].source]
      BY <2>6, <2>7, <2>8, <3>1
    <3>3. CASE j = n + 1
      BY <2>1, <2>6, <2>10, <2>12, <3>2, <3>3
    <3>4. CASE j \in 1..n
      BY <2>6, <2>9, <2>12, <3>1, <3>2, <3>4
    <3> QED
      BY <2>2, <3>3, <3>4
  <2>13. InLine(Queue)'
    BY <2>6, <2>11, <2>12 DEF InLine
  <2> QED
    BY <2>3, <2>4, <2>13
<1>5. CASE RecvLine
  <2>1. /\ delivered' = Append(delivered, Head(channel)) /\ channel' = Tail(channel)
        /\ channel # <<>> /\ sent' = sent
    BY <1>5 DEF RecvLine, readers
  <2>2. arrived' = arrived + 1
    BY <1>5, Quiet DEF RecvLine
  <2>3. /\ delivered' \in Seq(Lines) /\ channel' \in Seq(Lines)
        /\ Len(delivered') = Len(delivered) + 1 /\ Queue' = Queue
    BY <2>1, RecvKeepsQueue DEF Queue
  <2>4. InLine(Queue)'
    BY <2>1, <2>3 DEF InLine
  <2> QED
    BY <2>1, <2>2, <2>3, <2>4
<1>6. CASE FlushStep \/ FlushDone \/ FlushError \/ Tick \/ Start
  BY <1>1, <1>6, Quiet DEF FlushStep, FlushDone, FlushError, Tick, Start, readers
<1>7. CASE Exit \/ DropReceiver
  <2>1. channel' = <<>> /\ delivered' = delivered /\ sent' = sent /\ arrived' = arrived
    BY <1>7, Quiet DEF Exit, DropReceiver, batcherVars, readers
  <2>2. /\ Len(delivered) \in Nat /\ Len(channel) \in Nat /\ Len(Queue) = Len(delivered) + Len(channel)
        /\ \A i \in 1..Len(delivered) : Queue[i] = delivered[i]
    <3>1. /\ Len(delivered) \in Nat /\ Len(channel) \in Nat
          /\ Len(Queue) = Len(delivered) + Len(channel)
          /\ \A i \in 1..(Len(delivered) + Len(channel)) :
               Queue[i] = IF i <= Len(delivered) THEN delivered[i] ELSE channel[i - Len(delivered)]
      BY QueueElements DEF Queue
    <3> DEFINE n == Len(delivered)
               m == Len(channel)
    <3> HIDE DEF n, m
    <3>2. \A i \in 1..n : Queue[i] = delivered[i]
      <4>1. /\ n \in Nat /\ m \in Nat
            /\ \A i \in 1..(n + m) : Queue[i] = IF i <= n THEN delivered[i] ELSE channel[i - n]
        BY <3>1 DEF n, m
      <4> QED
        BY <4>1
    <3> QED
      BY <3>1, <3>2 DEF n
  <2>3. Queue' = delivered
    BY <2>1, ConcatEmptySeq DEF Queue
  <2>4. InLine(Queue)'
    BY <2>1, <2>2, <2>3 DEF InLine
  <2> QED
    BY <2>1, <2>4
<1>8. CASE \E s \in Sources : \/ \E k \in 0..MaxLines : ReadLines(s, k)
                              \/ Room /\ CountLine(s)
                              \/ SendLine(s)
                              \/ SendError(s)
  <2>1. PICK s \in Sources : \/ \E k \in 0..MaxLines : ReadLines(s, k)
                             \/ CountLine(s)
                             \/ SendLine(s)
                             \/ SendError(s)
    BY <1>8
  <2>2. 0 \in 0..MaxLines
    BY IngestAssumption
  <2> QED
    BY <1>3, <1>4, <2>1, <2>2
<1> QED
  BY <1>2, <1>5, <1>6, <1>7, <1>8 DEF Next

-----------------------------------------------------------------------------
(* The order of the lines on disk.                                         *)

\* The theorems of the accumulator order the blocks by log; OrderInv orders the logs of
\* a source by line.
LEMMA OrderOnDisk ==
  ASSUME P!IInv, \A e \in P!Anchors : P!AnchorLog!Ascending(files[e.block_id].logs), OrderInv
  PROVE  SourceOrder
<1> DEFINE logs(e) == files[e.block_id].logs
<1>1. \A k \in 1..arrived : Queue[k] = delivered[k]
  <2>1. /\ Len(delivered) = arrived /\ arrived \in Nat /\ Len(channel) \in Nat
        /\ \A k \in 1..(Len(delivered) + Len(channel)) :
             Queue[k] = IF k <= Len(delivered) THEN delivered[k] ELSE channel[k - Len(delivered)]
    BY QueueElements DEF OrderInv, Queue
  <2> QED
    BY <2>1
<1>2. arrived \in Nat /\ arrived <= Len(Queue) /\ Len(Queue) \in Nat
  BY QueueElements DEF OrderInv, Queue
<1>3. ASSUME NEW e \in P!Anchors, NEW i \in DOMAIN logs(e)
      PROVE  logs(e)[i] \in 1..arrived
  <2>1. e.block_id \in DOMAIN files /\ logs(e) \in Seq(Nat \ {0})
    BY DEF P!IInv, P!TypeOK, P!Anchored, P!Log
  <2>2. logs(e)[i] <= arrived
    BY <1>3 DEF P!IInv, P!LogOrder, P!Arrived
  <2>3. logs(e)[i] \in Nat \ {0}
    BY <1>3, <2>1
  <2> QED
    BY <1>2, <2>2, <2>3
<1>4. ASSUME NEW e \in P!Anchors, NEW f \in P!Anchors,
             NEW i \in DOMAIN logs(e), NEW j \in DOMAIN logs(f),
             e.block_id < f.block_id \/ (e = f /\ i < j)
      PROVE  logs(e)[i] < logs(f)[j]
  <2>1. CASE e.block_id < f.block_id
    BY <2>1 DEF P!IInv, P!ArrivalOrder
  <2>2. CASE e = f /\ i < j
    BY <2>2 DEF P!AnchorLog!Ascending
  <2> QED
    BY <1>4, <2>1, <2>2
<1>5. ASSUME NEW a \in 1..arrived, NEW b \in 1..arrived, a < b,
             delivered[a].source = delivered[b].source
      PROVE  delivered[a].number < delivered[b].number
  <2>1. a \in 1..Len(Queue) /\ b \in 1..Len(Queue)
    BY <1>2
  <2> QED
    BY <1>1, <1>5, <2>1 DEF OrderInv, InLine
<1> QED
  BY <1>3, <1>4, <1>5, SameBatcher DEF SourceOrder

\* Lines of one source lie on disk in the order in which the source sent them, none
\* twice, across any number of sources, failures and restarts (main.rs: one channel, one
\* consumer; batcher.rs: blocks in id order).
THEOREM SourceOrderAlways == Spec => []SourceOrder
<1>1. P!IInv /\ (\A e \in P!Anchors : P!AnchorLog!Ascending(files[e.block_id].logs)) /\ OrderInv
        => SourceOrder
  BY OrderOnDisk
<1>2. Spec => []OrderInv
  BY InitOrderInv, StepOrderInv, PTL DEF Spec
<1> QED
  BY <1>1, <1>2, BatcherHolds, PTL

-----------------------------------------------------------------------------
(* What the accumulator promises, under ingestion.                         *)

\* The invariants of the accumulator are those of the theorems.
LEMMA SameInvariants ==
  /\ P!Anchored => B!Anchored
  /\ P!ArrivalOrder => B!ArrivalOrder
  /\ P!FreshIds => B!FreshIds
  /\ P!TypeOK => B!TypeOK
<1>1. P!Anchored => B!Anchored
  BY SameBatcher DEF P!Anchored, B!Anchored, P!Verifies, B!Verifies, P!Root, B!Root
<1>2. (P!ArrivalOrder => B!ArrivalOrder) /\ (P!FreshIds => B!FreshIds)
  BY SameBatcher DEF P!ArrivalOrder, B!ArrivalOrder, P!FreshIds, B!FreshIds
<1>3. P!TypeOK => B!TypeOK
  BY DEF P!TypeOK, B!TypeOK, P!Log, B!Log, P!Entry, B!Entry, P!NoTime, B!NoTime
<1> QED
  BY <1>1, <1>2, <1>3

\* Whatever the sources send and however they interleave: what the ledger anchors is on
\* disk and verifies, in the order of arrival, and no anchored id is handed out again
\* (main.rs, run_ingest: the main loop is the only caller of `push`).
THEOREM AccumulatorSound == Spec => [](B!Anchored /\ B!ArrivalOrder /\ B!FreshIds)
<1>1. P!IInv => P!Anchored /\ P!ArrivalOrder /\ P!FreshIds
  BY DEF P!IInv, P!FragmentIds, P!FreshIds, P!Anchors
<1>2. P!IInv => B!Anchored /\ B!ArrivalOrder /\ B!FreshIds
  BY <1>1, SameInvariants
<1> QED
  BY <1>2, BatcherHolds, PTL

\* The part of the type invariant that is not the accumulator's.
ReadersTyped ==
  /\ unread \in [Sources -> Nat]
  /\ holding \in [Sources -> BOOLEAN]
  /\ ended \subseteq Sources
  /\ Len(channel) <= ChannelCapacity
  /\ main \in {"running", "returning", "returned"}
  /\ total_blocks \in Nat

LEMMA InitReadersTyped == Init => ReadersTyped
BY IngestAssumption DEF Init, ReadersTyped

LEMMA StepReadersTyped == CountInv /\ ReadersTyped /\ [Next]_vars => ReadersTyped'
<1> SUFFICES ASSUME CountInv, ReadersTyped, [Next]_vars PROVE ReadersTyped'
  OBVIOUS
<1> USE DEF ReadersTyped
<1>1. CASE UNCHANGED vars
  BY <1>1 DEF vars, readers
<1>2. ASSUME NEW s \in Sources, NEW k \in 0..MaxLines, ReadLines(s, k) PROVE ReadersTyped'
  BY <1>2 DEF ReadLines
<1>3. ASSUME NEW s \in Sources, CountLine(s) PROVE ReadersTyped'
  BY <1>3 DEF CountLine
<1>4. ASSUME NEW s \in Sources, SendLine(s) PROVE ReadersTyped'
  <2>1. Len(channel') = Len(channel) + 1 /\ Len(channel) \in Nat
    BY <1>4 DEF SendLine, CountInv
  <2>2. Len(channel') <= ChannelCapacity
    BY <1>4, <2>1, IngestAssumption DEF SendLine
  <2> QED
    BY <1>4, <2>2 DEF SendLine
<1>5. CASE RecvLine
  <2>1. Len(channel') = Len(channel) - 1 /\ Len(channel) \in Nat
    BY <1>5 DEF RecvLine, CountInv
  <2>2. Len(channel') <= ChannelCapacity
    BY <2>1, IngestAssumption
  <2> QED
    BY <1>5, <2>2 DEF RecvLine, readers
<1>6. CASE FlushStep \/ Tick \/ Start
  BY <1>6 DEF FlushStep, Tick, Start, readers
<1>7. CASE FlushDone
  BY <1>7 DEF FlushDone, readers
<1>8. CASE FlushError
  BY <1>8 DEF FlushError, readers
<1>9. CASE Exit \/ DropReceiver
  <2>1. Len(channel') = 0
    BY <1>9 DEF Exit, DropReceiver
  <2>2. Len(channel') <= ChannelCapacity
    BY <2>1, IngestAssumption
  <2>3. CASE Exit
    BY <2>2, <2>3 DEF Exit
  <2>4. CASE DropReceiver
    BY <2>2, <2>4 DEF DropReceiver, readers
  <2> QED
    BY <1>9, <2>3, <2>4
<1>a. ASSUME NEW s \in Sources, SendError(s) PROVE ReadersTyped'
  BY <1>a DEF SendError
<1> QED
  BY <1>1, <1>2, <1>3, <1>4, <1>5, <1>6, <1>7, <1>8, <1>9, <1>a DEF Next

\* The variables keep their Rust types, and the channel never holds more than its
\* capacity, for any number of sources.
THEOREM TypeOKAlways == Spec => []TypeOK
<1>1. P!IInv => P!TypeOK
  BY DEF P!IInv
<1>2. P!IInv /\ CountInv /\ ReadersTyped /\ OrderInv => TypeOK
  BY <1>1, SameInvariants DEF CountInv, ReadersTyped, OrderInv, Lines, TypeOK
<1>3. Spec => [](CountInv /\ ReadersTyped)
  BY InitCountInv, StepCountInv, InitReadersTyped, StepReadersTyped, PTL DEF Spec
<1>4. Spec => []OrderInv
  BY InitOrderInv, StepOrderInv, PTL DEF Spec
<1> QED
  BY <1>2, <1>3, <1>4, BatcherHolds, PTL
=============================================================================
