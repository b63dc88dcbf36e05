--------------------------- MODULE Generator_proofs ---------------------------
(* Proofs about Generator, for any number of workers, any rate, batch size *)
(* and buffer, over both protocols: the order of what is received, the     *)
(* schedule, and the figures.                                              *)
EXTENDS Generator, FiniteSetTheorems, SequenceTheorems, WellFoundedInduction, TLAPS

-----------------------------------------------------------------------------
(* Types.                                                                  *)

Labels == {"start", "head", "send", "broken", "done", "failed"}

Typed ==
  /\ now \in Nat
  /\ pc \in [Workers -> Labels]
  /\ worker_start \in [Workers -> Nat]
  /\ taken \in [Workers -> Nat] /\ todo \in [Workers -> Nat] /\ batch_pkts \in [Workers -> Nat]
  /\ sent_count \in [Workers -> Nat]
  /\ buffer \in [Workers -> Seq(Nat)]
  /\ received \in [Workers -> Nat]
  /\ \A w \in Workers : todo[w] <= taken[w] /\ worker_start[w] <= now

\* The rate of a worker, and how much it takes for a batch.
LEMMA RateTyped == worker_rate \in Nat
<1>1. Cardinality(Workers) \in Nat /\ Cardinality(Workers) > 0
  BY GeneratorAssumption, FS_CardinalityType, FS_EmptySet
<1> QED
  BY <1>1, GeneratorAssumption DEF worker_rate

LEMMA DivisionGrows ==
  ASSUME NEW a \in Nat, NEW b \in Nat, NEW t \in Nat \ {0}, a <= b
  PROVE  a \div t \in Nat /\ a \div t <= b \div t
<1> DEFINE q == a \div t
           r == b \div t
<1>1. q \in Int /\ r \in Int
  OBVIOUS
<1>2. q * t <= a /\ a < (q + 1) * t /\ r * t <= b /\ b < (r + 1) * t
  OBVIOUS
<1> HIDE DEF q, r
<1>3. q >= 0
  BY <1>1, <1>2
<1>4. q <= r
  <2> SUFFICES ASSUME q >= r + 1 PROVE FALSE
    BY <1>1
  <2>1. (r + 1) * t <= q * t
    BY <1>1
  <2> QED
    BY <1>1, <1>2, <2>1
<1> QED
  BY <1>1, <1>3, <1>4 DEF q, r

\* The schedule is a number, and time only moves it on.
LEMMA ScheduleTyped ==
  ASSUME Typed, NEW w \in Workers
  PROVE  /\ expected_sent(w) \in Nat
         /\ to_send(w) \in Nat /\ to_send(w) <= batch_size
         /\ sent_count[w] <= expected_sent(w) + batch_size
              => sent_count[w] + to_send(w) <= expected_sent(w) + batch_size + 1
                 \/ worker_rate = 0
<1>1. now - worker_start[w] \in Nat
  BY DEF Typed
<1>2. (now - worker_start[w]) * worker_rate \in Nat
  BY <1>1, RateTyped
<1>3. expected_sent(w) \in Nat
  BY <1>2, DivisionGrows, GeneratorAssumption DEF expected_sent
<1>4. sent_count[w] \in Nat /\ batch_size \in Nat \ {0}
  BY GeneratorAssumption DEF Typed
<1> DEFINE expected == expected_sent(w)
<1>5. to_send(w) = IF worker_rate = 0 \/ (IF expected - sent_count[w] > 1 THEN expected - sent_count[w] ELSE 1) > batch_size
                     THEN batch_size
                     ELSE (IF expected - sent_count[w] > 1 THEN expected - sent_count[w] ELSE 1)
  BY DEF to_send
<1> HIDE DEF expected
<1>6. expected \in Nat
  BY <1>3 DEF expected
<1>7. /\ to_send(w) \in Nat /\ to_send(w) <= batch_size
      /\ sent_count[w] <= expected + batch_size
              => sent_count[w] + to_send(w) <= expected + batch_size + 1 \/ worker_rate = 0
  BY <1>4, <1>5, <1>6
<1> QED
  BY <1>3, <1>7 DEF expected

LEMMA ScheduleMovesOn ==
  ASSUME Typed, Tick, NEW w \in Workers
  PROVE  expected_sent(w)' \in Nat /\ expected_sent(w) <= expected_sent(w)'
<1>1. worker_start' = worker_start /\ now' = now + 1
  BY DEF Tick
<1> DEFINE a == now - worker_start[w]
           b == (now + 1) - worker_start[w]
<1>2. a \in Nat /\ b \in Nat /\ a <= b
  BY DEF Typed
<1> HIDE DEF a, b
<1>3. a * worker_rate \in Nat /\ b * worker_rate \in Nat /\ a * worker_rate <= b * worker_rate
  BY <1>2, RateTyped
<1>4. expected_sent(w) = (a * worker_rate) \div TicksPerSecond
  BY DEF expected_sent, a
<1>5. expected_sent(w)' = (b * worker_rate) \div TicksPerSecond
  <2>1. expected_sent(w)' = ((now' - worker_start'[w]) * worker_rate) \div TicksPerSecond
    BY DEF expected_sent, worker_rate
  <2>2. now' - worker_start'[w] = b
    BY <1>1 DEF b
  <2> QED
    BY <2>1, <2>2
<1>6. TicksPerSecond \in Nat \ {0}
  BY GeneratorAssumption
<1>7. /\ (a * worker_rate) \div TicksPerSecond \in Nat /\ (b * worker_rate) \div TicksPerSecond \in Nat
      /\ (a * worker_rate) \div TicksPerSecond <= (b * worker_rate) \div TicksPerSecond
  BY <1>3, <1>6, DivisionGrows
<1> QED
  BY <1>4, <1>5, <1>7

LEMMA StepTyped == Typed /\ [Next]_vars => Typed'
<1> SUFFICES ASSUME Typed, [Next]_vars PROVE Typed'
  OBVIOUS
<1> USE DEF Set, Goto, Labels
<1>1. CASE UNCHANGED vars
  BY <1>1 DEF Typed, vars, clock, batch, target
<1>2. ASSUME NEW w \in Workers,
             Connect(w) \/ ConnectFails(w) \/ Leave(w) \/ Reconnect(w) \/ ReconnectFails(w)
      PROVE  Typed'
  <2>1. CASE Connect(w)
    BY <2>1 DEF Typed, Connect, clock, batch
  <2>2. CASE ConnectFails(w) \/ Leave(w) \/ ReconnectFails(w)
    <3>1. /\ \E l \in Labels : pc' = [pc EXCEPT ![w] = l]
          /\ UNCHANGED <<now, worker_start, taken, todo, batch_pkts, sent_count, buffer, received>>
      BY <2>2 DEF ConnectFails, Leave, ReconnectFails, clock, batch, target
    <3> QED
      BY <3>1 DEF Typed
  <2>3. CASE Reconnect(w)
    BY <2>3 DEF Typed, Reconnect, clock, batch
  <2> QED
    BY <1>2, <2>1, <2>2, <2>3
<1>3. ASSUME NEW w \in Workers, TakeBatch(w) PROVE Typed'
  <2> DEFINE n == to_send(w)
  <2>1. n \in Nat
    BY ScheduleTyped
  <2>2. /\ taken' = [taken EXCEPT ![w] = taken[w] + n] /\ todo' = [todo EXCEPT ![w] = n]
        /\ batch_pkts' = [batch_pkts EXCEPT ![w] = 0] /\ pc' = [pc EXCEPT ![w] = "send"]
        /\ UNCHANGED <<now, worker_start, sent_count, buffer, received>>
    BY <1>3 DEF TakeBatch, clock, target
  <2> HIDE DEF n
  <2> QED
    BY <2>1, <2>2 DEF Typed
<1>4. ASSUME NEW w \in Workers, SendUdp(w) \/ RefusedUdp(w) PROVE Typed'
  <2>1. Sends(w) /\ todo[w] - 1 \in Nat /\ NextLog(w) \in Nat
    BY <1>4 DEF Typed, SendUdp, RefusedUdp, Sends, NextLog
  <2> QED
    <3>1. /\ todo' = [todo EXCEPT ![w] = todo[w] - 1]
          /\ batch_pkts' = [batch_pkts EXCEPT ![w] = batch_pkts[w] + 1] \/ batch_pkts' = batch_pkts
          /\ received' = [received EXCEPT ![w] = NextLog(w)] \/ received' = received
          /\ UNCHANGED <<now, pc, worker_start, taken, sent_count, buffer>>
      BY <1>4 DEF SendUdp, RefusedUdp, clock, target
    <3> HIDE DEF NextLog, Sends
    <3>2. todo' \in [Workers -> Nat] /\ batch_pkts' \in [Workers -> Nat] /\ received' \in [Workers -> Nat]
      <4>1. todo \in [Workers -> Nat] /\ batch_pkts \in [Workers -> Nat] /\ received \in [Workers -> Nat]
        BY DEF Typed
      <4>2. todo' \in [Workers -> Nat]
        BY <2>1, <3>1, <4>1
      <4>3. batch_pkts' \in [Workers -> Nat]
        BY <3>1, <4>1
      <4>4. received' \in [Workers -> Nat]
        BY <2>1, <3>1, <4>1
      <4> QED
        BY <4>2, <4>3, <4>4
    <3>3. \A v \in Workers : todo'[v] <= taken[v]
      BY <2>1, <3>1 DEF Typed
    <3> QED
      BY <3>1, <3>2, <3>3 DEF Typed
<1>5. ASSUME NEW w \in Workers, SendTcp(w) PROVE Typed'
  <2>1. todo[w] - 1 \in Nat /\ Append(buffer[w], NextLog(w)) \in Seq(Nat)
    BY <1>5 DEF Typed, SendTcp, Sends, NextLog
  <2>2. /\ todo' = [todo EXCEPT ![w] = todo[w] - 1]
        /\ batch_pkts' = [batch_pkts EXCEPT ![w] = batch_pkts[w] + 1]
        /\ buffer' = [buffer EXCEPT ![w] = Append(buffer[w], NextLog(w))]
        /\ UNCHANGED <<now, pc, worker_start, taken, sent_count, received>>
    BY <1>5 DEF SendTcp, clock
  <2> HIDE DEF NextLog
  <2>3. todo' \in [Workers -> Nat] /\ \A v \in Workers : todo'[v] <= taken[v]
    BY <2>1, <2>2 DEF Typed
  <2>4. batch_pkts' \in [Workers -> Nat] /\ buffer' \in [Workers -> Seq(Nat)]
    BY <2>1, <2>2 DEF Typed
  <2> QED
    BY <2>2, <2>3, <2>4 DEF Typed
<1>6. ASSUME NEW w \in Workers, BrokenTcp(w) \/ Flush(w) PROVE Typed'
  <2>1. CASE BrokenTcp(w)
    BY <2>1 DEF Typed, BrokenTcp, clock, target
  <2>2. CASE Flush(w)
    BY <2>2 DEF Typed, Flush, clock, target
  <2> QED
    BY <1>6, <2>1, <2>2
<1>7. ASSUME NEW w \in Workers, Read(w) PROVE Typed'
  <2>1. Head(buffer[w]) \in Nat /\ Tail(buffer[w]) \in Seq(Nat)
    BY <1>7, HeadTailProperties DEF Typed, Read
  <2> QED
    BY <1>7, <2>1 DEF Typed, Read, clock, batch
<1>8. ASSUME NEW w \in Workers, Close(w) PROVE Typed'
  BY <1>8 DEF Typed, Close, clock, batch
<1>9. CASE Tick \/ CtrlC \/ Report \/ Finish
  BY <1>9 DEF Typed, Tick, CtrlC, Report, Finish, clock, batch, target
<1> QED
  BY <1>1, <1>2, <1>3, <1>4, <1>5, <1>6, <1>7, <1>8, <1>9 DEF Next, Work

-----------------------------------------------------------------------------
(* What one worker does is its own affair.                                 *)

Keeps(v) ==
  /\ pc'[v] = pc[v] /\ worker_start'[v] = worker_start[v]
  /\ taken'[v] = taken[v] /\ todo'[v] = todo[v]
  /\ batch_pkts'[v] = batch_pkts[v] /\ sent_count'[v] = sent_count[v]
  /\ buffer'[v] = buffer[v] /\ received'[v] = received[v]

LEMMA OthersKeep ==
  ASSUME Typed, NEW w \in Workers, Work(w) \/ Read(w) \/ Close(w)
  PROVE  proto' = proto /\ now' = now /\ \A v \in Workers : v # w => Keeps(v)
<1> USE DEF Keeps, Set, Goto, Typed
<1>1. CASE Connect(w) \/ ConnectFails(w) \/ Leave(w)
  BY <1>1 DEF Connect, ConnectFails, Leave, clock, batch, target
<1>2. CASE TakeBatch(w)
  BY <1>2 DEF TakeBatch, clock, target
<1>3. CASE SendUdp(w) \/ RefusedUdp(w)
  BY <1>3 DEF SendUdp, RefusedUdp, clock, target
<1>4. CASE SendTcp(w) \/ BrokenTcp(w)
  BY <1>4 DEF SendTcp, BrokenTcp, clock, target
<1>5. CASE Flush(w)
  BY <1>5 DEF Flush, clock, target
<1>6. CASE Reconnect(w) \/ ReconnectFails(w)
  BY <1>6 DEF Reconnect, ReconnectFails, clock, batch, target
<1>7. CASE Read(w) \/ Close(w)
  BY <1>7 DEF Read, Close, clock, batch
<1> QED
  BY <1>1, <1>2, <1>3, <1>4, <1>5, <1>6, <1>7 DEF Work

LEMMA OtherTasksKeep ==
  ASSUME Typed, Tick \/ CtrlC \/ Report \/ Finish \/ UNCHANGED vars
  PROVE  proto' = proto /\ (now' = now \/ Tick) /\ \A v \in Workers : Keeps(v)
BY DEF Keeps, Tick, CtrlC, Report, Finish, vars, clock, batch, target

-----------------------------------------------------------------------------
(* The order of the logs.                                                  *)

\* What is on its way to the target comes after what it received, in order, and all of it
\* was taken and is not to be sent again.  Only inside a batch is there something to send.
Ordered(w) ==
  /\ received[w] <= taken[w] - todo[w]
  /\ \A i \in 1..Len(buffer[w]) :
       received[w] < buffer[w][i] /\ buffer[w][i] <= taken[w] - todo[w]
  /\ \A i, j \in 1..Len(buffer[w]) : i < j => buffer[w][i] < buffer[w][j]
  /\ pc[w] # "send" => todo[w] = 0
  /\ proto = "udp" => buffer[w] = <<>>

LEMMA KeepsOrder ==
  ASSUME NEW v \in Workers, Keeps(v), proto' = proto, Ordered(v)
  PROVE  Ordered(v)'
BY DEF Keeps, Ordered

\* The last log that was sent, of a worker inside a batch.
LEMMA OwnOrder ==
  ASSUME Typed, NEW w \in Workers, Work(w) \/ Read(w) \/ Close(w), Ordered(w)
  PROVE  Ordered(w)'
<1> USE DEF Set, Goto
<1> DEFINE n  == Len(buffer[w])
           up == taken[w] - todo[w]
<1>0. /\ buffer[w] \in Seq(Nat) /\ n \in Nat /\ received[w] \in Nat
      /\ taken[w] \in Nat /\ todo[w] \in Nat /\ todo[w] <= taken[w] /\ up \in Nat
      /\ \A i \in 1..n : buffer[w][i] \in Nat
  BY LenProperties, ElementOfSeq DEF Typed
<1>a. proto' = proto
  BY OthersKeep
<1>1. CASE Connect(w) \/ ConnectFails(w) \/ Leave(w) \/ ReconnectFails(w)
  <2>1. /\ UNCHANGED <<taken, todo, buffer, received>>
        /\ pc[w] # "send" /\ pc'[w] # "send"
    BY <1>1 DEF Connect, ConnectFails, Leave, ReconnectFails, batch, target, Typed
  <2> QED
    BY <1>a, <2>1 DEF Ordered
<1>2. CASE TakeBatch(w)
  <2> DEFINE k == to_send(w)
  <2>1. k \in Nat
    BY ScheduleTyped
  <2>2. /\ pc[w] = "head" /\ pc'[w] = "send"
        /\ taken'[w] = taken[w] + k /\ todo'[w] = k /\ buffer' = buffer /\ received' = received
    BY <1>2 DEF TakeBatch, target, Typed
  <2> HIDE DEF k
  <2>3. todo[w] = 0 /\ taken'[w] - todo'[w] = up
    BY <1>0, <2>1, <2>2 DEF Ordered
  <2> QED
    BY <1>a, <2>2, <2>3 DEF Ordered
<1>3. CASE SendUdp(w) \/ RefusedUdp(w)
  <2>1. /\ proto = "udp" /\ pc[w] = "send" /\ pc'[w] = "send" /\ todo[w] > 0
        /\ taken' = taken /\ todo'[w] = todo[w] - 1 /\ buffer' = buffer
        /\ received'[w] = taken[w] - todo[w] + 1 \/ received'[w] = received[w]
    BY <1>3 DEF SendUdp, RefusedUdp, Sends, NextLog, target, Typed
  <2>2. buffer[w] = <<>> /\ Len(buffer'[w]) = 0
    BY <2>1 DEF Ordered
  <2>3. received'[w] <= taken'[w] - todo'[w]
    BY <1>0, <2>1 DEF Ordered
  <2> QED
    BY <2>1, <2>2, <2>3 DEF Ordered
<1>4. CASE SendTcp(w)
  <2>1. /\ proto = "tcp" /\ pc[w] = "send" /\ pc'[w] = "send" /\ todo[w] > 0
        /\ taken' = taken /\ todo'[w] = todo[w] - 1 /\ received' = received
        /\ buffer'[w] = Append(buffer[w], up + 1)
    BY <1>4 DEF SendTcp, Sends, NextLog, Typed
  <2>2. /\ Len(buffer'[w]) = n + 1 /\ buffer'[w][n + 1] = up + 1
        /\ \A i \in 1..n : buffer'[w][i] = buffer[w][i]
    BY <1>0, <2>1, AppendProperties
  <2>3. taken'[w] - todo'[w] = up + 1
    BY <1>0, <2>1
  <2>4. /\ received[w] <= up
        /\ \A i \in 1..n : received[w] < buffer[w][i] /\ buffer[w][i] <= up
        /\ \A i, j \in 1..n : i < j => buffer[w][i] < buffer[w][j]
    BY DEF Ordered
  <2> HIDE DEF n, up
  <2>5. ASSUME NEW i \in 1..(n + 1)
        PROVE  received[w] < buffer'[w][i] /\ buffer'[w][i] <= up + 1
    BY <1>0, <2>2, <2>4
  <2>6. ASSUME NEW i \in 1..(n + 1), NEW j \in 1..(n + 1), i < j
        PROVE  buffer'[w][i] < buffer'[w][j]
    <3>1. i \in 1..n
      BY <1>0, <2>6
    <3>2. CASE j = n + 1
      <4>1. buffer[w][i] <= up /\ buffer[w][i] \in Nat
        BY <1>0, <2>4, <3>1
      <4> QED
        BY <1>0, <2>2, <3>1, <3>2, <4>1
    <3>3. CASE j \in 1..n
      BY <2>2, <2>4, <2>6, <3>1, <3>3
    <3> QED
      BY <1>0, <3>2, <3>3
  <2>7. received'[w] <= up + 1 /\ received'[w] = received[w]
    BY <1>0, <2>1, <2>4
  <2> QED
    BY <1>a, <2>1, <2>2, <2>3, <2>5, <2>6, <2>7 DEF Ordered
<1>5. CASE BrokenTcp(w)
  <2>1. /\ proto = "tcp" /\ taken' = taken /\ todo'[w] = 0 /\ buffer' = buffer /\ received' = received
    BY <1>5 DEF BrokenTcp, target, Typed
  <2>2. up <= taken'[w] - todo'[w] /\ taken'[w] - todo'[w] \in Nat
    BY <1>0, <2>1
  <2>3. /\ received'[w] <= taken'[w] - todo'[w]
        /\ \A i \in 1..n : received[w] < buffer[w][i] /\ buffer[w][i] <= taken'[w] - todo'[w]
    BY <1>0, <2>1, <2>2 DEF Ordered
  <2> QED
    BY <1>a, <2>1, <2>3 DEF Ordered
<1>6. CASE Flush(w)
  BY <1>6, <1>a DEF Flush, target, Ordered, Typed
<1>7. CASE Reconnect(w) \/ Close(w)
  <2>1. /\ UNCHANGED <<taken, todo, received>> /\ buffer'[w] = <<>> /\ Len(buffer'[w]) = 0
        /\ pc'[w] = "send" => pc[w] = "send"
    BY <1>7 DEF Reconnect, Close, batch, Typed
  <2>2. pc'[w] # "send" => todo[w] = 0
    <3>1. CASE Reconnect(w)
      BY <3>1 DEF Reconnect, Ordered
    <3>2. CASE Close(w)
      BY <3>2 DEF Close, Ordered
    <3> QED
      BY <1>7, <3>1, <3>2
  <2> QED
    BY <1>a, <2>1, <2>2 DEF Ordered
<1>8. CASE Read(w)
  <2>1. /\ UNCHANGED <<pc, taken, todo>> /\ buffer[w] # <<>>
        /\ buffer'[w] = Tail(buffer[w]) /\ received'[w] = Head(buffer[w])
    BY <1>8 DEF Read, batch, Typed
  <2>2. /\ Head(buffer[w]) = buffer[w][1] /\ n >= 1 /\ Len(buffer'[w]) = n - 1
        /\ \A i \in 1..(n - 1) : buffer'[w][i] = buffer[w][i + 1]
    BY <1>0, <2>1, HeadTailProperties, EmptySeq
  <2>3. /\ \A i \in 1..n : received[w] < buffer[w][i] /\ buffer[w][i] <= up
        /\ \A i, j \in 1..n : i < j => buffer[w][i] < buffer[w][j]
        /\ proto # "udp"
    BY <2>1 DEF Ordered
  <2> HIDE DEF n, up
  <2>4. \A i \in 1..(n - 1) : i + 1 \in 1..n /\ 1 < i + 1
    BY <1>0
  <2>5. 1 \in 1..n
    BY <1>0, <2>2
  <2>6. received'[w] <= up
    BY <2>1, <2>2, <2>3, <2>5
  <2>7. ASSUME NEW i \in 1..(n - 1)
        PROVE  received'[w] < buffer'[w][i] /\ buffer'[w][i] <= up
    BY <2>1, <2>2, <2>3, <2>4, <2>5
  <2>8. ASSUME NEW i \in 1..(n - 1), NEW j \in 1..(n - 1), i < j
        PROVE  buffer'[w][i] < buffer'[w][j]
    <3>1. i + 1 < j + 1
      BY <2>8
    <3> QED
      BY <2>2, <2>3, <2>4, <3>1
  <2>9. up' = up
    BY <2>1 DEF up
  <2> QED
    BY <1>a, <2>1, <2>2, <2>3, <2>6, <2>7, <2>8, <2>9 DEF Ordered, up
<1> QED
  BY <1>1, <1>2, <1>3, <1>4, <1>5, <1>6, <1>7, <1>8 DEF Work

\* Ordered is what InTurn says of the logs one by one.
LEMMA OrderedInTurn ==
  ASSUME Typed, \A w \in Workers : Ordered(w)
  PROVE  InTurn
<1> SUFFICES ASSUME NEW w \in Workers, NEW i \in 1..(Len(UnderWay(w)) - 1)
             PROVE  UnderWay(w)[i] < UnderWay(w)[i + 1]
  BY DEF InTurn
<1> DEFINE b == buffer[w]
           n == Len(b)
           l == IF Sends(w) THEN <<NextLog(w)>> ELSE <<>>
           m == Len(l)
           q == <<received[w]>> \o b
<1>1. /\ b \in Seq(Nat) /\ n \in Nat /\ received[w] \in Nat /\ <<received[w]>> \in Seq(Nat)
      /\ Len(<<received[w]>>) = 1 /\ <<received[w]>>[1] = received[w]
      /\ taken[w] \in Nat /\ todo[w] \in Nat /\ todo[w] <= taken[w]
  BY LenProperties DEF Typed
<1>2. /\ l \in Seq(Nat) /\ m \in 0..1
      /\ m = 1 => l[1] = taken[w] - todo[w] + 1
  <2>1. CASE Sends(w)
    BY <1>1, <2>1 DEF NextLog
  <2>2. CASE ~Sends(w)
    BY <2>2
  <2> QED
    BY <2>1, <2>2
<1>3. /\ \A k \in 1..n : received[w] < b[k] /\ b[k] <= taken[w] - todo[w]
      /\ \A j, k \in 1..n : j < k => b[j] < b[k]
      /\ received[w] <= taken[w] - todo[w]
      /\ \A k \in 1..n : b[k] \in Nat
  BY <1>1, ElementOfSeq DEF Ordered
<1> HIDE DEF b, n, l, m
<1>4. /\ q \in Seq(Nat) /\ Len(q) = 1 + n
      /\ q[1] = received[w] /\ \A k \in 2..(1 + n) : q[k] = b[k - 1]
  <2>1. /\ q \in Seq(Nat) /\ Len(q) = Len(<<received[w]>>) + Len(b)
        /\ \A k \in 1..(Len(<<received[w]>>) + Len(b)) :
             q[k] = IF k <= Len(<<received[w]>>) THEN <<received[w]>>[k] ELSE b[k - Len(<<received[w]>>)]
    BY <1>1, ConcatProperties
  <2>2. /\ Len(q) = 1 + n
        /\ \A k \in 1..(1 + n) : q[k] = IF k <= 1 THEN <<received[w]>>[k] ELSE b[k - 1]
    BY <1>1, <2>1 DEF n
  <2> QED
    BY <1>1, <2>1, <2>2
<1>5. UnderWay(w) = q \o l
  BY DEF UnderWay, b, l
<1> HIDE DEF q
<1>6. /\ Len(q \o l) = 1 + n + m
      /\ \A k \in 1..(1 + n + m) : (q \o l)[k] = IF k <= 1 + n THEN q[k] ELSE l[k - (1 + n)]
  <2>1. /\ Len(q \o l) = Len(q) + Len(l)
        /\ \A k \in 1..(Len(q) + Len(l)) :
             (q \o l)[k] = IF k <= Len(q) THEN q[k] ELSE l[k - Len(q)]
    BY <1>2, <1>4, ConcatProperties
  <2>2. Len(q) + Len(l) = 1 + n + m
    BY <1>4 DEF m
  <2> QED
    BY <1>4, <2>1, <2>2
<1>7. i \in 1..(n + m)
  BY <1>1, <1>2, <1>5, <1>6
<1> DEFINE u == q \o l
<1>8. CASE i = 1 /\ n > 0
  <2>1. u[1] = received[w] /\ u[2] = b[1]
    BY <1>1, <1>2, <1>4, <1>6, <1>8
  <2> QED
    BY <1>1, <1>3, <1>5, <1>8, <2>1
<1>9. CASE i > 1 /\ i <= n
  <2>1. u[i] = b[i - 1] /\ u[i + 1] = b[i]
    <3>1. q[i] = b[i - 1] /\ q[i + 1] = b[(i + 1) - 1]
      <4>1. i \in 2..(1 + n) /\ i + 1 \in 2..(1 + n)
        BY <1>1, <1>7, <1>9
      <4> QED
        BY <1>4, <4>1
    <3>2. u[i] = q[i] /\ u[i + 1] = q[i + 1]
      <4>1. /\ i \in 1..(1 + n + m) /\ i <= 1 + n
            /\ i + 1 \in 1..(1 + n + m) /\ i + 1 <= 1 + n
        BY <1>1, <1>2, <1>7, <1>9
      <4> QED
        BY <1>6, <4>1
    <3> QED
      BY <1>7, <3>1, <3>2
  <2>2. b[i - 1] < b[i]
    BY <1>1, <1>3, <1>9
  <2> QED
    BY <1>5, <2>1, <2>2
<1>10. CASE i = n + 1
  <2>1. m = 1 /\ u[i + 1] = l[1] /\ u[i] = q[i]
    BY <1>1, <1>2, <1>6, <1>7, <1>10
  <2>2. q[i] <= taken[w] - todo[w] /\ q[i] \in Nat
    <3>1. CASE n = 0
      BY <1>1, <1>3, <1>4, <1>10, <3>1
    <3>2. CASE n > 0
      <4>1. q[i] = b[n] /\ n \in 1..n
        BY <1>1, <1>4, <1>10, <3>2
      <4> QED
        BY <1>3, <4>1
    <3> QED
      BY <1>1, <3>1, <3>2
  <2> QED
    BY <1>1, <1>2, <1>5, <2>1, <2>2
<1> QED
  BY <1>1, <1>2, <1>7, <1>8, <1>9, <1>10

-----------------------------------------------------------------------------
(* The schedule.                                                           *)

\* What a worker has sent and what it has taken to send is within its schedule.
Timely(w) ==
  /\ worker_rate > 0 =>
       sent_count[w] + batch_pkts[w] + todo[w] <= expected_sent(w) + batch_size + 1
  /\ pc[w] # "send" => todo[w] = 0 /\ batch_pkts[w] = 0
  /\ pc[w] = "start" => sent_count[w] = 0

LEMMA KeepsTime ==
  ASSUME NEW v \in Workers, Keeps(v), now' = now, Timely(v)
  PROVE  Timely(v)'
<1>1. expected_sent(v)' = expected_sent(v)
  BY DEF Keeps, expected_sent, worker_rate
<1>2. worker_rate' = worker_rate
  BY DEF worker_rate
<1> QED
  BY <1>1, <1>2 DEF Keeps, Timely

LEMMA TickKeepsTime ==
  ASSUME Typed, Tick, NEW v \in Workers, Keeps(v), Timely(v)
  PROVE  Timely(v)'
<1>1. expected_sent(v) \in Nat /\ expected_sent(v)' \in Nat /\ expected_sent(v) <= expected_sent(v)'
  BY ScheduleTyped, ScheduleMovesOn
<1>2. worker_rate' = worker_rate
  BY DEF worker_rate
<1>3. batch_size \in Nat /\ sent_count[v] \in Nat /\ batch_pkts[v] \in Nat /\ todo[v] \in Nat
  BY GeneratorAssumption DEF Typed
<1>4. worker_rate > 0 =>
        sent_count[v] + batch_pkts[v] + todo[v] <= expected_sent(v)' + batch_size + 1
  BY <1>1, <1>3 DEF Timely
<1> QED
  BY <1>2, <1>4 DEF Keeps, Timely

LEMMA OwnTime ==
  ASSUME Typed, NEW w \in Workers, Work(w) \/ Read(w) \/ Close(w), Timely(w)
  PROVE  Timely(w)'
<1> USE DEF Set, Goto
<1> DEFINE expected == expected_sent(w)
<1>0. /\ expected \in Nat /\ batch_size \in Nat \ {0} /\ worker_rate \in Nat
      /\ sent_count[w] \in Nat /\ batch_pkts[w] \in Nat /\ todo[w] \in Nat
  BY ScheduleTyped, RateTyped, GeneratorAssumption DEF Typed
<1>a. worker_rate' = worker_rate /\ now' = now
  BY OthersKeep DEF worker_rate
<1>b. ASSUME worker_start'[w] = worker_start[w] PROVE expected_sent(w)' = expected
  BY <1>a, <1>b DEF expected_sent
<1>1. CASE Connect(w)
  <2>1. /\ UNCHANGED <<taken, todo, batch_pkts, sent_count>>
        /\ pc[w] = "start" /\ pc'[w] = "head" /\ worker_start'[w] = now
    BY <1>1 DEF Connect, batch, Typed
  <2>2. expected_sent(w)' \in Nat
    <3>1. expected_sent(w)' = ((now' - worker_start'[w]) * worker_rate) \div TicksPerSecond
      BY <1>a DEF expected_sent
    <3>2. (now' - worker_start'[w]) * worker_rate = 0
      <4>1. now' - worker_start'[w] = 0
        BY <1>a, <2>1 DEF Typed
      <4> QED
        BY <1>0, <4>1
    <3>3. 0 \div TicksPerSecond \in Nat
      BY GeneratorAssumption, DivisionGrows
    <3> QED
      BY <3>1, <3>2, <3>3
  <2> QED
    BY <1>0, <1>a, <2>1, <2>2 DEF Timely
<1>2. CASE ConnectFails(w) \/ Leave(w) \/ Reconnect(w) \/ ReconnectFails(w)
  <2>1. /\ UNCHANGED <<worker_start, taken, todo, batch_pkts, sent_count>>
        /\ pc[w] # "send" /\ pc'[w] \notin {"send", "start"}
    BY <1>2 DEF ConnectFails, Leave, Reconnect, ReconnectFails, batch, target, Typed
  <2> QED
    BY <1>a, <1>b, <2>1 DEF Timely
<1>3. CASE TakeBatch(w)
  <2> DEFINE k == to_send(w)
  <2>1. /\ worker_start' = worker_start /\ sent_count' = sent_count
        /\ todo'[w] = k /\ batch_pkts'[w] = 0 /\ pc'[w] = "send"
    BY <1>3 DEF TakeBatch, Typed
  <2>2. worker_rate > 0 => sent_count[w] <= expected + batch_size
    BY <1>0, <1>3 DEF TakeBatch, Ahead
  <2>3. k \in Nat /\ (worker_rate > 0 => sent_count[w] + k <= expected + batch_size + 1)
    BY <1>0, <2>2, ScheduleTyped
  <2> HIDE DEF k
  <2> QED
    BY <1>0, <1>a, <1>b, <2>1, <2>3 DEF Timely
<1>4. CASE SendUdp(w) \/ RefusedUdp(w) \/ SendTcp(w)
  <2>1. /\ pc[w] = "send" /\ todo[w] > 0 /\ pc' = pc /\ worker_start' = worker_start
        /\ todo'[w] = todo[w] - 1 /\ sent_count' = sent_count
    BY <1>4 DEF SendUdp, RefusedUdp, SendTcp, Sends, Typed
  <2>2. batch_pkts'[w] \in {batch_pkts[w], batch_pkts[w] + 1}
    BY <1>4 DEF SendUdp, RefusedUdp, SendTcp, Typed
  <2> QED
    BY <1>0, <1>a, <1>b, <2>1, <2>2 DEF Timely
<1>5. CASE BrokenTcp(w)
  <2>1. /\ pc'[w] = "broken" /\ worker_start' = worker_start /\ sent_count' = sent_count
        /\ todo'[w] = 0 /\ batch_pkts'[w] = 0
    BY <1>5 DEF BrokenTcp, Typed
  <2> QED
    BY <1>0, <1>a, <1>b, <2>1 DEF Timely
<1>6. CASE Flush(w)
  <2>1. /\ pc'[w] = "head" /\ worker_start' = worker_start
        /\ sent_count'[w] = sent_count[w] + batch_pkts[w]
        /\ todo[w] = 0 /\ todo' = todo /\ batch_pkts'[w] = 0
    BY <1>6 DEF Flush, Typed
  <2> QED
    BY <1>0, <1>a, <1>b, <2>1 DEF Timely
<1>7. CASE Read(w) \/ Close(w)
  <2>1. Keeps(w) \/ UNCHANGED <<pc, worker_start, todo, batch_pkts, sent_count>>
    BY <1>7 DEF Read, Close, batch
  <2> QED
    BY <1>7, <1>a, <1>b, <2>1 DEF Timely, Read, Close, batch
<1> QED
  BY <1>1, <1>2, <1>3, <1>4, <1>5, <1>6, <1>7 DEF Work

-----------------------------------------------------------------------------
(* The theorems.                                                           *)

GeneratorInv == Typed /\ \A w \in Workers : Ordered(w) /\ Timely(w)

LEMMA InitGeneratorInv == Init => GeneratorInv
<1> SUFFICES ASSUME Init PROVE GeneratorInv
  OBVIOUS
<1>1. Typed
  BY DEF Init, Typed, Labels
<1>2. ASSUME NEW w \in Workers PROVE Ordered(w) /\ Timely(w)
  <2>1. /\ received[w] = 0 /\ taken[w] = 0 /\ todo[w] = 0 /\ buffer[w] = <<>> /\ Len(buffer[w]) = 0
        /\ pc[w] = "start" /\ sent_count[w] = 0 /\ batch_pkts[w] = 0
    BY DEF Init
  <2>2. expected_sent(w) \in Nat /\ batch_size \in Nat
    BY <1>1, ScheduleTyped, GeneratorAssumption
  <2>3. Ordered(w)
    BY <2>1 DEF Ordered
  <2>4. Timely(w)
    BY <2>1, <2>2 DEF Timely
  <2> QED
    BY <2>3, <2>4
<1> QED
  BY <1>1, <1>2 DEF GeneratorInv

LEMMA StepGeneratorInv == GeneratorInv /\ [Next]_vars => GeneratorInv'
<1> SUFFICES ASSUME GeneratorInv, [Next]_vars PROVE GeneratorInv'
  OBVIOUS
<1>1. Typed'
  BY StepTyped DEF GeneratorInv
<1>2. ASSUME NEW w \in Workers, Work(w) \/ Read(w) \/ Close(w), NEW v \in Workers
      PROVE  Ordered(v)' /\ Timely(v)'
  <2>1. CASE v = w
    BY <1>2, <2>1, OwnOrder, OwnTime DEF GeneratorInv
  <2>2. CASE v # w
    <3>1. proto' = proto /\ now' = now /\ Keeps(v)
      BY <1>2, <2>2, OthersKeep DEF GeneratorInv
    <3> QED
      BY <3>1, KeepsOrder, KeepsTime DEF GeneratorInv
  <2> QED
    BY <2>1, <2>2
<1>3. ASSUME Tick \/ CtrlC \/ Report \/ Finish \/ UNCHANGED vars, NEW v \in Workers
      PROVE  Ordered(v)' /\ Timely(v)'
  <2>1. proto' = proto /\ (now' = now \/ Tick) /\ Keeps(v)
    BY <1>3, OtherTasksKeep DEF GeneratorInv
  <2> QED
    BY <2>1, KeepsOrder, KeepsTime, TickKeepsTime DEF GeneratorInv
<1> QED
  BY <1>1, <1>2, <1>3 DEF Next, GeneratorInv

LEMMA Invariance == Spec => []GeneratorInv
BY InitGeneratorInv, StepGeneratorInv, PTL DEF Spec

\* Through batches, refusals, broken connections and new ones, no log is sent twice or
\* before an earlier one (generator main.rs: idx only grows, a broken batch is skipped).
THEOREM InTurnAlways == Spec => []InTurn
<1>1. GeneratorInv => InTurn
  BY OrderedInTurn DEF GeneratorInv
<1> QED
  BY <1>1, Invariance, PTL

\* Whatever the rate, the number of workers and the batch size: no worker is ahead of its
\* schedule by more than a batch and a log (generator main.rs: the pacing of the loop).
THEOREM OnScheduleAlways == Spec => []OnSchedule
<1>1. GeneratorInv => OnSchedule
  <2> SUFFICES ASSUME GeneratorInv, worker_rate > 0, NEW w \in Workers
               PROVE  sent_count[w] + batch_pkts[w] <= expected_sent(w) + batch_size + 1
    BY DEF OnSchedule
  <2>1. /\ sent_count[w] \in Nat /\ batch_pkts[w] \in Nat /\ todo[w] \in Nat
        /\ expected_sent(w) \in Nat /\ batch_size \in Nat
    BY ScheduleTyped, GeneratorAssumption DEF GeneratorInv, Typed
  <2>2. sent_count[w] + batch_pkts[w] + todo[w] <= expected_sent(w) + batch_size + 1
    BY DEF GeneratorInv, Timely
  <2> QED
    BY <2>1, <2>2
<1> QED
  BY <1>1, Invariance, PTL

-----------------------------------------------------------------------------
(* Sums over a finite set, by the smallest set for which a claim fails.   *)

\* One step of SumFunction.
Any(s) == CHOOSE x \in s : TRUE
Part(f, g, s) == IF s = {} THEN 0 ELSE f[Any(s)] + g[s \ {Any(s)}]

\* Among the sets for which something fails there is one of which all smaller ones hold.
LEMMA SmallestSet ==
  ASSUME NEW S, IsFiniteSet(S), NEW bad, bad \subseteq SUBSET S, bad # {}
  PROVE  \E t \in bad : \A u \in bad : ~(u \subseteq t /\ u # t)
<1>1. bad \subseteq FiniteSubsetsOf(S)
  BY FS_Subset DEF FiniteSubsetsOf
<1>2. PICK t \in bad : \A u \in bad : ~(<<u, t>> \in StrictSubsetOrdering(S))
  BY <1>1, FS_StrictSubsetOrderingWellFounded, WFMin
<1> QED
  BY <1>2 DEF StrictSubsetOrdering

\* SumFunction is defined: a function that sums over every subset exists.
LEMMA SumsExist ==
  ASSUME NEW S, IsFiniteSet(S), NEW f
  PROVE  \E g : g = [s \in SUBSET S |-> Part(f, g, s)]
<1> DEFINE Closed(T) == \A t \in T : \A u \in SUBSET t : u \in T
           Upto(k) == {s \in SUBSET S : Cardinality(s) <= k}
           Works(k) == \E g : \A s \in Upto(k) : g[s] = Part(f, g, s)
<1>0. \A s \in SUBSET S : IsFiniteSet(s) /\ Cardinality(s) \in Nat
  BY FS_Subset, FS_CardinalityType
<1>1. Works(0)
  <2>1. \A s \in Upto(0) : s = {}
    BY <1>0, FS_EmptySet
  <2>2. \A s \in Upto(0) : [t \in SUBSET S |-> 0][s] = Part(f, [t \in SUBSET S |-> 0], s)
    BY <2>1 DEF Part
  <2> QED
    BY <2>2
<1>2. ASSUME NEW k \in Nat, Works(k) PROVE Works(k + 1)
  <2>1. PICK g : \A s \in Upto(k) : g[s] = Part(f, g, s)
    BY <1>2
  <2> DEFINE h == [s \in SUBSET S |-> Part(f, g, s)]
  <2>2. ASSUME NEW s \in Upto(k + 1) PROVE h[s] = Part(f, h, s)
    <3>1. CASE s = {}
      BY <3>1 DEF Part
    <3>2. CASE s # {}
      <4> DEFINE r == s \ {Any(s)}
      <4>1. Any(s) \in s
        BY <3>2 DEF Any
      <4>2. Cardinality(r) = Cardinality(s) - 1 /\ r \in SUBSET S
        BY <1>0, <4>1, FS_RemoveElement
      <4>3. r \in Upto(k)
        BY <1>0, <4>2
      <4>4. h[r] = Part(f, g, r) /\ g[r] = Part(f, g, r)
        BY <2>1, <4>2, <4>3
      <4>5. h[s] = f[Any(s)] + g[r]
        BY <3>2 DEF Part
      <4> HIDE DEF h
      <4> QED
        BY <3>2, <4>4, <4>5 DEF Part
    <3> QED
      BY <3>1, <3>2
  <2> HIDE DEF h
  <2> QED
    BY <2>2
<1>3. \A k \in Nat : Works(k)
  <2> HIDE DEF Works
  <2> SUFFICES ASSUME NEW m \in Nat, ~Works(m) PROVE FALSE
    OBVIOUS
  <2> DEFINE bad == {1..k : k \in {n \in 0..m : ~Works(n)}}
  <2>1. PICK t \in bad : \A u \in bad : ~(u \subseteq t /\ u # t)
    <3> DEFINE all == 1..m
    <3>1. IsFiniteSet(all)
      <4>1. 1 \in Int /\ m \in Int
        OBVIOUS
      <4> QED
        BY <4>1, FS_Interval
    <3>2. bad \subseteq SUBSET all
      OBVIOUS
    <3>3. 1..m \in bad
      OBVIOUS
    <3>4. bad # {}
      BY <3>3
    <3> HIDE DEF bad, all
    <3> QED
      BY <3>1, <3>2, <3>4, SmallestSet
  <2>2. PICK k \in 0..m : ~Works(k) /\ t = 1..k
    BY <2>1
  <2>3. k - 1 \in 0..m /\ ~Works(k - 1)
    BY <1>1, <1>2, <2>2
  <2>4. 1..(k - 1) \subseteq 1..k /\ 1..(k - 1) # 1..k
    <3>1. k \in 1..k /\ k \notin 1..(k - 1)
      BY <2>3
    <3> QED
      BY <2>3, <3>1
  <2> QED
    BY <2>1, <2>2, <2>3, <2>4
<1>4. PICK g : \A s \in SUBSET S : g[s] = Part(f, g, s)
  <2>1. Cardinality(S) \in Nat /\ \A s \in SUBSET S : Cardinality(s) <= Cardinality(S)
    BY FS_Subset, FS_CardinalityType
  <2> QED
    BY <1>3, <2>1
<1> DEFINE h == [s \in SUBSET S |-> g[s]]
<1>5. \A s \in SUBSET S : h[s] = Part(f, h, s)
  BY <1>4 DEF Part
<1>6. h = [s \in SUBSET S |-> Part(f, h, s)]
  <2>1. h = [s \in SUBSET S |-> h[s]]
    OBVIOUS
  <2> HIDE DEF h
  <2> QED
    BY <1>5, <2>1
<1> QED
  BY <1>6

\* The sums over the subsets of a domain.
LEMMA SumsOf ==
  ASSUME NEW S, IsFiniteSet(S)
  PROVE  \A f : DOMAIN f = S =>
           \E g : SumFunction(f) = g[S] /\ \A s \in SUBSET S : g[s] = Part(f, g, s)
<1> SUFFICES ASSUME NEW f, DOMAIN f = S
             PROVE  \E g : SumFunction(f) = g[S] /\ \A s \in SUBSET S : g[s] = Part(f, g, s)
  OBVIOUS
<1> DEFINE g == CHOOSE g : g = [s \in SUBSET S |-> Part(f, g, s)]
<1>1. SumFunction(f) = g[S]
  BY DEF SumFunction, SumFunctionOnSet, FoldFunctionOnSet, MapThenFoldSet, Part, Any
<1>2. g = [s \in SUBSET S |-> Part(f, g, s)]
  BY SumsExist
<1> HIDE DEF g
<1> QED
  BY <1>1, <1>2

LEMMA SumOfZeros ==
  ASSUME NEW S, IsFiniteSet(S)
  PROVE  SumFunction([s \in S |-> 0]) = 0
<1> DEFINE f == [s \in S |-> 0]
<1>0. DOMAIN f = S /\ \A s \in S : f[s] = 0
  OBVIOUS
<1> HIDE DEF f
<1>1. PICK g : SumFunction(f) = g[S] /\ \A s \in SUBSET S : g[s] = Part(f, g, s)
  BY <1>0, SumsOf
<1> DEFINE bad == {s \in SUBSET S : g[s] # 0}
<1>2. CASE bad # {}
  <2>1. PICK t \in bad : \A u \in bad : ~(u \subseteq t /\ u # t)
    <3>1. bad \subseteq SUBSET S
      OBVIOUS
    <3> HIDE DEF bad
    <3> QED
      BY <1>2, <3>1, SmallestSet
  <2>2. t # {} /\ Any(t) \in t
    BY <1>1 DEF Part, Any
  <2>3. g[t \ {Any(t)}] = 0
    BY <2>1, <2>2
  <2> QED
    BY <1>0, <1>1, <2>1, <2>2, <2>3 DEF Part
<1> QED
  BY <1>1, <1>2 DEF f

\* A sum of numbers is one, and changes by what one of its terms does.
LEMMA SumChanges ==
  ASSUME NEW S, IsFiniteSet(S), NEW f, DOMAIN f = S, NEW h, DOMAIN h = S, NEW w
  PROVE  /\ f \in [S -> Nat] /\ h \in [S -> Nat]
         /\ w \in S /\ \A v \in S : v # w => h[v] = f[v]
         => /\ SumFunction(f) \in Nat /\ SumFunction(h) \in Nat
            /\ SumFunction(h) = SumFunction(f) + (h[w] - f[w])
<1>1. PICK g : SumFunction(f) = g[S] /\ \A s \in SUBSET S : g[s] = Part(f, g, s)
  BY SumsOf
<1>2. PICK k : SumFunction(h) = k[S] /\ \A s \in SUBSET S : k[s] = Part(h, k, s)
  BY SumsOf
<1> HAVE /\ f \in [S -> Nat] /\ h \in [S -> Nat]
         /\ w \in S /\ \A v \in S : v # w => h[v] = f[v]
<1> DEFINE Good(s) == /\ g[s] \in Nat /\ k[s] \in Nat
                      /\ k[s] = IF w \in s THEN g[s] + (h[w] - f[w]) ELSE g[s]
           bad == {s \in SUBSET S : ~Good(s)}
<1>3. CASE bad # {}
  <2>1. PICK t \in bad : \A u \in bad : ~(u \subseteq t /\ u # t)
    <3>1. bad \subseteq SUBSET S
      OBVIOUS
    <3> HIDE DEF bad
    <3> QED
      BY <1>3, <3>1, SmallestSet
  <2>2. CASE t = {}
    <3>1. g[t] = 0 /\ k[t] = 0 /\ w \notin t
      BY <1>1, <1>2, <2>1, <2>2 DEF Part
    <3> QED
      BY <2>1, <3>1
  <2>3. CASE t # {}
    <3> DEFINE x == Any(t)
               r == t \ {x}
    <3>1. x \in t /\ x \in S /\ r \in SUBSET S /\ r \subseteq t /\ r # t /\ x \notin r
      BY <2>3 DEF Any
    <3>2. Good(r)
      BY <2>1, <3>1
    <3>3. g[t] = f[x] + g[r] /\ k[t] = h[x] + k[r]
      BY <1>1, <1>2, <2>1, <2>3 DEF Part
    <3>5. f[x] \in Nat /\ h[x] \in Nat /\ f[w] \in Nat /\ h[w] \in Nat
      BY <3>1
    <3>6. w \in t <=> w = x \/ w \in r
      BY <3>1
    <3> HIDE DEF x, r
    <3>4. Good(t)
      <4>1. CASE w = x
        BY <3>1, <3>2, <3>3, <3>5, <4>1
      <4>2. CASE w # x
        BY <3>1, <3>2, <3>3, <3>5, <3>6, <4>2
      <4> QED
        BY <4>1, <4>2
    <3> QED
      BY <2>1, <3>4
  <2> QED
    BY <2>2, <2>3
<1> QED
  BY <1>1, <1>2, <1>3

-----------------------------------------------------------------------------
(* The figures.                                                            *)

\* Accounted, and that a batch is no larger than it may be.
CountInv ==
  /\ packets_sent \in Int /\ errors \in Int
  /\ \A w \in Workers : todo[w] + batch_pkts[w] <= batch_size
  /\ Accounted

\* One worker changes each sum by what it does to its own term.
LEMMA SumsMove ==
  ASSUME Typed, Typed', NEW w \in Workers, Work(w) \/ Read(w) \/ Close(w)
  PROVE  /\ SumFunction(taken)' = SumFunction(taken) + (taken'[w] - taken[w])
         /\ SumFunction(todo)' = SumFunction(todo) + (todo'[w] - todo[w])
         /\ SumFunction(batch_pkts)' = SumFunction(batch_pkts) + (batch_pkts'[w] - batch_pkts[w])
         /\ SumFunction(sent_count)' = SumFunction(sent_count) + (sent_count'[w] - sent_count[w])
         /\ SumFunction(taken) \in Nat /\ SumFunction(todo) \in Nat
         /\ SumFunction(batch_pkts) \in Nat /\ SumFunction(sent_count) \in Nat
<1>1. \A f, h : /\ f \in [Workers -> Nat] /\ h \in [Workers -> Nat]
                /\ \A v \in Workers : v # w => h[v] = f[v]
                => SumFunction(f) \in Nat /\ SumFunction(h) = SumFunction(f) + (h[w] - f[w])
  BY SumChanges, GeneratorAssumption
<1>2. \A v \in Workers : v # w => Keeps(v)
  BY OthersKeep
<1>3. \A v \in Workers : v # w =>
        taken'[v] = taken[v] /\ todo'[v] = todo[v] /\ batch_pkts'[v] = batch_pkts[v]
          /\ sent_count'[v] = sent_count[v]
  BY <1>2 DEF Keeps
<1>4. SumFunction(taken') = SumFunction(taken) + (taken'[w] - taken[w]) /\ SumFunction(taken) \in Nat
  BY <1>1, <1>3 DEF Typed
<1>5. SumFunction(todo') = SumFunction(todo) + (todo'[w] - todo[w]) /\ SumFunction(todo) \in Nat
  BY <1>1, <1>3 DEF Typed
<1>6. /\ SumFunction(batch_pkts') = SumFunction(batch_pkts) + (batch_pkts'[w] - batch_pkts[w])
      /\ SumFunction(batch_pkts) \in Nat
  BY <1>1, <1>3 DEF Typed
<1>7. /\ SumFunction(sent_count') = SumFunction(sent_count) + (sent_count'[w] - sent_count[w])
      /\ SumFunction(sent_count) \in Nat
  BY <1>1, <1>3 DEF Typed
<1> QED
  BY <1>4, <1>5, <1>6, <1>7

\* A worker that cannot connect is the only one to fail.
LEMMA FailedMoves ==
  ASSUME Typed, Typed', NEW w \in Workers, Work(w) \/ Read(w) \/ Close(w)
  PROVE  /\ Failed \in Nat
         /\ Failed' = IF pc[w] # "failed" /\ pc'[w] = "failed" THEN Failed + 1
                      ELSE IF pc[w] = "failed" /\ pc'[w] # "failed" THEN Failed - 1 ELSE Failed
<1> DEFINE old == {v \in Workers : pc[v] = "failed"}
           new == {v \in Workers : pc'[v] = "failed"}
<1>1. \A v \in Workers : v # w => pc'[v] = pc[v]
  BY OthersKeep DEF Keeps
<1>2. IsFiniteSet(old) /\ Cardinality(old) \in Nat
  BY GeneratorAssumption, FS_Subset, FS_CardinalityType
<1>3. Failed = Cardinality(old) /\ Failed' = Cardinality(new)
  BY DEF Failed
<1>4. CASE pc[w] # "failed" /\ pc'[w] = "failed"
  <2>1. new = old \cup {w} /\ w \notin old
    BY <1>1, <1>4
  <2> HIDE DEF old, new
  <2> QED
    BY <1>2, <1>3, <1>4, <2>1, FS_AddElement
<1>5. CASE pc[w] = "failed" /\ pc'[w] # "failed"
  <2>1. new = old \ {w} /\ w \in old
    BY <1>1, <1>5
  <2> HIDE DEF old, new
  <2> QED
    BY <1>2, <1>3, <1>5, <2>1, FS_RemoveElement
<1>6. CASE pc[w] = "failed" <=> pc'[w] = "failed"
  <2>1. new = old
    BY <1>1, <1>6
  <2> QED
    BY <1>2, <1>3, <1>6, <2>1
<1> QED
  BY <1>4, <1>5, <1>6

LEMMA OwnCount ==
  ASSUME GeneratorInv, Typed', CountInv, NEW w \in Workers, Work(w) \/ Read(w) \/ Close(w)
  PROVE  CountInv'
<1> USE DEF Set, Goto
<1> DEFINE gone   == (taken'[w] - taken[w]) - (todo'[w] - todo[w]) - (batch_pkts'[w] - batch_pkts[w])
                       - (packets_sent' - packets_sent)
           counts == packets_sent' - packets_sent = sent_count'[w] - sent_count[w]
           small  == todo'[w] + batch_pkts'[w] <= batch_size
           wrong  == errors' - errors - (Failed' - Failed)
<1>0. /\ Typed /\ proto' = proto
      /\ taken[w] \in Nat /\ todo[w] \in Nat /\ batch_pkts[w] \in Nat /\ sent_count[w] \in Nat
      /\ taken'[w] \in Nat /\ todo'[w] \in Nat /\ batch_pkts'[w] \in Nat /\ sent_count'[w] \in Nat
      /\ batch_size \in Nat \ {0} /\ packets_sent \in Int /\ errors \in Int
      /\ todo[w] + batch_pkts[w] <= batch_size
  <2>1. Typed
    BY DEF GeneratorInv
  <2> QED
    BY <2>1, OthersKeep, GeneratorAssumption DEF Typed, CountInv
<1>a. /\ Failed \in Nat /\ Failed' \in Int
      /\ (pc[w] = "failed" <=> pc'[w] = "failed") => Failed' = Failed
      /\ (pc[w] # "failed" /\ pc'[w] = "failed") => Failed' = Failed + 1
  BY <1>0, FailedMoves
<1>b. /\ packets_sent' \in Int /\ errors' \in Int /\ counts /\ small
      /\ gone = wrong \/ proto = "tcp"
      /\ gone \in 0..(batch_size * wrong) \/ proto = "udp"
      /\ wrong \in Nat
  <2>1. CASE Connect(w) \/ Leave(w) \/ Reconnect(w) \/ ReconnectFails(w) \/ Read(w) \/ Close(w)
    <3>1. /\ taken'[w] = taken[w] /\ todo'[w] = todo[w] /\ batch_pkts'[w] = batch_pkts[w]
          /\ sent_count'[w] = sent_count[w] /\ packets_sent' = packets_sent /\ errors' = errors
          /\ pc[w] = "failed" <=> pc'[w] = "failed"
      BY <1>0, <2>1 DEF Connect, Leave, Reconnect, ReconnectFails, Read, Close, batch, stats, Typed
    <3>2. gone = 0 /\ wrong = 0 /\ batch_size * 0 = 0
      BY <1>0, <1>a, <3>1
    <3> HIDE DEF gone, wrong
    <3> QED
      BY <1>0, <3>1, <3>2
  <2>2. CASE ConnectFails(w)
    <3>1. /\ taken'[w] = taken[w] /\ todo'[w] = todo[w] /\ batch_pkts'[w] = batch_pkts[w]
          /\ sent_count'[w] = sent_count[w] /\ packets_sent' = packets_sent /\ errors' = errors + 1
          /\ pc[w] # "failed" /\ pc'[w] = "failed"
      BY <1>0, <2>2 DEF ConnectFails, batch, Typed
    <3>3. Failed' = Failed + 1
      BY <1>a, <3>1
    <3>2. gone = 0 /\ wrong = 0 /\ batch_size * 0 = 0
      <4>1. Failed \in Nat
        BY <1>a
      <4> QED
        BY <1>0, <3>1, <3>3, <4>1
    <3> HIDE DEF gone, wrong
    <3> QED
      BY <1>0, <3>1, <3>2
  <2>3. CASE TakeBatch(w)
    <3> DEFINE n == to_send(w)
    <3>1. n \in Nat /\ n <= batch_size
      BY <1>0, ScheduleTyped
    <3>2. /\ sent_count'[w] = sent_count[w] /\ packets_sent' = packets_sent /\ errors' = errors
          /\ taken'[w] = taken[w] + n /\ todo'[w] = n /\ batch_pkts'[w] = 0
          /\ pc[w] = "head" /\ pc'[w] = "send"
      BY <1>0, <2>3 DEF TakeBatch, stats, Typed
    <3>3. todo[w] = 0 /\ batch_pkts[w] = 0
      BY <3>2 DEF GeneratorInv, Timely
    <3> HIDE DEF n
    <3>4. gone = 0 /\ wrong = 0 /\ batch_size * 0 = 0
      BY <1>0, <1>a, <3>1, <3>2, <3>3
    <3> HIDE DEF gone, wrong
    <3> QED
      BY <1>0, <3>1, <3>2, <3>4
  <2>4. CASE SendUdp(w) \/ SendTcp(w)
    <3>1. /\ pc' = pc /\ taken'[w] = taken[w] /\ sent_count'[w] = sent_count[w]
          /\ packets_sent' = packets_sent /\ errors' = errors
          /\ todo'[w] = todo[w] - 1 /\ batch_pkts'[w] = batch_pkts[w] + 1
      BY <1>0, <2>4 DEF SendUdp, SendTcp, stats, Typed
    <3>2. gone = 0 /\ wrong = 0 /\ batch_size * 0 = 0
      BY <1>0, <1>a, <3>1
    <3> HIDE DEF gone, wrong
    <3> QED
      BY <1>0, <3>1, <3>2
  <2>5. CASE RefusedUdp(w)
    <3>1. /\ pc' = pc /\ taken'[w] = taken[w] /\ batch_pkts'[w] = batch_pkts[w]
          /\ sent_count'[w] = sent_count[w] /\ packets_sent' = packets_sent
          /\ proto = "udp" /\ todo'[w] = todo[w] - 1 /\ errors' = errors + 1
      BY <1>0, <2>5 DEF RefusedUdp, Typed
    <3>2. gone = 1 /\ wrong = 1
      BY <1>0, <1>a, <3>1
    <3> HIDE DEF gone, wrong
    <3> QED
      BY <1>0, <3>1, <3>2
  <2>6. CASE BrokenTcp(w)
    <3>1. /\ taken'[w] = taken[w] /\ sent_count'[w] = sent_count[w] /\ packets_sent' = packets_sent
          /\ proto = "tcp" /\ todo'[w] = 0 /\ batch_pkts'[w] = 0 /\ errors' = errors + 1
          /\ pc[w] = "send" /\ pc'[w] = "broken"
      BY <1>0, <2>6 DEF BrokenTcp, Sends, Typed
    <3>2. gone = todo[w] + batch_pkts[w] /\ wrong = 1 /\ batch_size * 1 = batch_size
      BY <1>0, <1>a, <3>1
    <3> HIDE DEF gone, wrong
    <3> QED
      BY <1>0, <3>1, <3>2
  <2>7. CASE Flush(w)
    <3>1. /\ taken'[w] = taken[w] /\ todo'[w] = todo[w] /\ errors' = errors
          /\ sent_count'[w] = sent_count[w] + batch_pkts[w]
          /\ packets_sent' = packets_sent + batch_pkts[w]
          /\ batch_pkts'[w] = 0 /\ pc[w] = "send" /\ pc'[w] = "head"
      BY <1>0, <2>7 DEF Flush, Typed
    <3>2. gone = 0 /\ wrong = 0 /\ batch_size * 0 = 0
      BY <1>0, <1>a, <3>1
    <3> HIDE DEF gone, wrong
    <3> QED
      BY <1>0, <3>1, <3>2
  <2> QED
    BY <2>1, <2>2, <2>3, <2>4, <2>5, <2>6, <2>7 DEF Work
<1>1. \A v \in Workers : todo'[v] + batch_pkts'[v] <= batch_size
  BY <1>0, <1>b, OthersKeep DEF Keeps, CountInv
<1>2. /\ SumFunction(taken)' = SumFunction(taken) + (taken'[w] - taken[w])
      /\ SumFunction(todo)' = SumFunction(todo) + (todo'[w] - todo[w])
      /\ SumFunction(batch_pkts)' = SumFunction(batch_pkts) + (batch_pkts'[w] - batch_pkts[w])
      /\ SumFunction(sent_count)' = SumFunction(sent_count) + (sent_count'[w] - sent_count[w])
      /\ SumFunction(taken) \in Nat /\ SumFunction(todo) \in Nat
      /\ SumFunction(batch_pkts) \in Nat /\ SumFunction(sent_count) \in Nat
  BY <1>0, SumsMove
<1>3. packets_sent' = SumFunction(sent_count)'
  BY <1>0, <1>2, <1>b DEF CountInv, Accounted
<1>4. Missed \in Int /\ Missed' = Missed + gone
  BY <1>0, <1>2, <1>b DEF Missed
<1>5. gone \in Int /\ wrong \in Nat /\ errors' - Failed' = (errors - Failed) + wrong
  <2>1. packets_sent' \in Int /\ errors' \in Int /\ Failed \in Nat /\ Failed' \in Int
    BY <1>a, <1>b
  <2>2. gone \in Int
    BY <1>0, <2>1
  <2>3. errors' - Failed' = (errors - Failed) + wrong
    BY <1>0, <2>1
  <2> QED
    BY <1>b, <2>2, <2>3
<1> HIDE DEF gone, wrong
<1>6. proto = "udp" => Missed' = errors' - Failed'
  BY <1>0, <1>a, <1>b, <1>4, <1>5 DEF CountInv, Accounted
<1>7. proto = "tcp" => Missed' \in 0..(batch_size * (errors' - Failed'))
  <2>1. SUFFICES ASSUME proto = "tcp" PROVE Missed' \in 0..(batch_size * (errors' - Failed'))
    OBVIOUS
  <2>2. Missed \in 0..(batch_size * (errors - Failed)) /\ gone \in 0..(batch_size * wrong)
    BY <1>b, <2>1 DEF CountInv, Accounted
  <2>3. batch_size * ((errors - Failed) + wrong) = batch_size * (errors - Failed) + batch_size * wrong
    BY <1>0, <1>a, <1>5
  <2>4. batch_size * (errors - Failed) \in Int /\ batch_size * wrong \in Int
    BY <1>0, <1>a, <1>5
  <2> QED
    BY <1>4, <1>5, <2>2, <2>3, <2>4
<1> QED
  BY <1>0, <1>1, <1>3, <1>6, <1>7, <1>b DEF CountInv, Accounted

LEMMA InitCountInv == Init => CountInv
<1> SUFFICES ASSUME Init PROVE CountInv
  OBVIOUS
<1>1. SumFunction([v \in Workers |-> 0]) = 0
  BY SumOfZeros, GeneratorAssumption
<1>2. /\ SumFunction(taken) = 0 /\ SumFunction(todo) = 0
      /\ SumFunction(batch_pkts) = 0 /\ SumFunction(sent_count) = 0
  BY <1>1 DEF Init
<1>3. Failed = 0
  <2>1. {v \in Workers : pc[v] = "failed"} = {}
    BY DEF Init
  <2> QED
    BY <2>1, FS_EmptySet DEF Failed
<1>4. packets_sent = 0 /\ errors = 0 /\ batch_size \in Nat \ {0} /\ batch_size * 0 = 0
  BY GeneratorAssumption DEF Init
<1>5. \A w \in Workers : todo[w] + batch_pkts[w] <= batch_size
  BY <1>4 DEF Init
<1>6. Missed = 0
  BY <1>2, <1>4 DEF Missed
<1>7. Accounted
  BY <1>2, <1>3, <1>4, <1>6 DEF Accounted
<1> QED
  BY <1>4, <1>5, <1>7 DEF CountInv

LEMMA StepCountInv == GeneratorInv /\ CountInv /\ [Next]_vars => CountInv'
<1> SUFFICES ASSUME GeneratorInv, CountInv, [Next]_vars PROVE CountInv'
  OBVIOUS
<1>1. Typed'
  BY StepTyped DEF GeneratorInv
<1>2. ASSUME NEW w \in Workers, Work(w) \/ Read(w) \/ Close(w) PROVE CountInv'
  BY <1>1, <1>2, OwnCount
<1>3. CASE Tick \/ CtrlC \/ Report \/ Finish \/ UNCHANGED vars
  <2>1. UNCHANGED <<proto, pc, taken, todo, batch_pkts, sent_count, packets_sent, errors>>
    BY <1>3 DEF Tick, CtrlC, Report, Finish, vars, batch, stats
  <2>2. Failed' = Failed /\ Missed' = Missed /\ SumFunction(sent_count)' = SumFunction(sent_count)
    BY <2>1 DEF Failed, Missed
  <2> QED
    BY <2>1, <2>2 DEF CountInv, Accounted
<1> QED
  BY <1>2, <1>3 DEF Next

\* Whatever is lost, refused or broken: the figures account for every log that was taken
\* from the data set (generator main.rs: packets_sent and errors of all workers).
THEOREM AccountedAlways == Spec => []Accounted
<1>1. CountInv => Accounted
  BY DEF CountInv
<1> QED
  BY <1>1, InitCountInv, StepCountInv, Invariance, PTL DEF Spec
=============================================================================
