--------------------------- MODULE Sockets_proofs ---------------------------
(***************************************************************************)
(* Proofs about the syslog listeners: for any numbers of workers and       *)
(* connections, any batch size, timeout and channel capacities, the        *)
(* channels are bounded, the sleep of a UDP worker never ends before its   *)
(* batch is old enough to be sent, and the lines of a reader are delivered *)
(* once and in order.                                                      *)
(***************************************************************************)
EXTENDS Sockets, SequenceTheorems, FiniteSetTheorems, WellFoundedInduction, TLAPS

Labels == {"read", "lines", "send", "last", "done"}

\* The sleep of the select! began after the last flush: a flush is followed by
\* a new turn of the loop, and a turn of the loop by a new sleep.
SleepIsYounger == \A r \in Udp : pc[r] = "read" => timer[r] <= elapsed[r]

ClocksTyped ==
  /\ pc \in [Readers -> Labels]
  /\ elapsed \in [Readers -> 0..batch_timeout]
  /\ timer \in [Readers -> 0..batch_timeout]

ClockInv == ClocksTyped /\ SleepIsYounger

\* What one reader does leaves the clocks of the others alone.
OnlyReader(r) ==
  /\ elapsed' \in [Readers -> 0..batch_timeout]
  /\ \A q \in Readers \ {r} : elapsed'[q] = elapsed[q]

\* The next turn of a reader's loop, whatever became of its own last_flush.
LEMMA GotoClocks ==
  ASSUME ClockInv, NEW r \in Readers, NEW label \in Labels, Goto(r, label), OnlyReader(r)
  PROVE  ClockInv'
<1>1. batch_timeout \in Nat
  BY SocketsAssumption
<1>2. /\ pc' = [pc EXCEPT ![r] = label]
      /\ timer' = IF label = "read" THEN [timer EXCEPT ![r] = 0] ELSE timer
  BY DEF Goto, Set
<1>3. ClocksTyped'
  <2>1. pc' \in [Readers -> Labels]
    BY <1>2 DEF ClockInv, ClocksTyped
  <2>2. timer' \in [Readers -> 0..batch_timeout]
    BY <1>1, <1>2 DEF ClockInv, ClocksTyped
  <2> QED
    BY <2>1, <2>2 DEF ClocksTyped, OnlyReader
<1>4. SleepIsYounger'
  <2> SUFFICES ASSUME NEW q \in Udp, pc'[q] = "read" PROVE timer'[q] <= elapsed'[q]
    BY DEF SleepIsYounger
  <2>1. q \in Readers
    BY DEF Readers
  <2>2. elapsed'[q] \in 0..batch_timeout
    BY <2>1 DEF OnlyReader
  <2>3. CASE q = r
    <3>1. label = "read"
      BY <1>2, <2>1, <2>3 DEF ClockInv, ClocksTyped
    <3>2. timer'[q] = 0
      BY <1>2, <2>1, <2>3, <3>1 DEF ClockInv, ClocksTyped
    <3> QED
      BY <1>1, <2>2, <3>2
  <2>4. CASE q # r
    <3>1. pc[q] = "read"
      BY <1>2, <2>1, <2>4 DEF ClockInv, ClocksTyped
    <3>2. timer'[q] = timer[q]
      BY <1>2, <2>1, <2>4 DEF ClockInv, ClocksTyped
    <3>3. elapsed'[q] = elapsed[q]
      BY <2>1, <2>4 DEF OnlyReader
    <3> QED
      BY <3>1, <3>2, <3>3 DEF ClockInv, SleepIsYounger
  <2> QED
    BY <2>3, <2>4
<1> QED
  BY <1>3, <1>4 DEF ClockInv

\* A line joins the batch, and the reader sends it or goes on.
LEMMA AddLineGoto ==
  ASSUME NEW r \in Readers, NEW line, NEW due, NEW rest, AddLine(r, line, due, rest)
  PROVE  \E label \in Labels : Goto(r, label)
  BY DEF AddLine, Resume, Labels

LEMMA ElapsedKept ==
  ASSUME ClockInv, NEW r \in Readers, UNCHANGED elapsed
  PROVE  OnlyReader(r)
  BY DEF ClockInv, ClocksTyped, OnlyReader

\* The actions of the receiving task of a UDP worker.
LEMMA UdpClocks ==
  ASSUME ClockInv, NEW r \in Udp
  PROVE  /\ \A n \in 0..MaxLines : RecvDatagram(r, n) => ClockInv'
         /\ PushLine(r) => ClockInv'
         /\ Timeout(r) => ClockInv'
         /\ SendRaw(r) => ClockInv'
<1>1. r \in Readers
  BY DEF Readers
<1>2. ASSUME NEW n \in 0..MaxLines, RecvDatagram(r, n) PROVE ClockInv'
  <2>1. PICK label \in Labels : Goto(r, label)
    BY <1>2 DEF RecvDatagram, Resume, Labels
  <2>2. UNCHANGED elapsed
    BY <1>2 DEF RecvDatagram
  <2> QED
    BY <1>1, <2>1, <2>2, GotoClocks, ElapsedKept
<1>3. ASSUME PushLine(r) PROVE ClockInv'
  <2>1. PICK label \in Labels : Goto(r, label)
    BY <1>1, <1>3, AddLineGoto DEF PushLine
  <2>2. UNCHANGED elapsed
    BY <1>3 DEF PushLine
  <2> QED
    BY <1>1, <2>1, <2>2, GotoClocks, ElapsedKept
<1>4. ASSUME Timeout(r) PROVE ClockInv'
  <2>1. PICK label \in Labels : Goto(r, label)
    BY <1>4 DEF Timeout, Labels
  <2>2. UNCHANGED elapsed
    BY <1>4 DEF Timeout
  <2> QED
    BY <1>1, <2>1, <2>2, GotoClocks, ElapsedKept
<1>5. ASSUME SendRaw(r) PROVE ClockInv'
  <2>1. PICK label \in Labels : Goto(r, label)
    BY <1>5 DEF SendRaw, Resume, Stop, Labels
  <2>2. elapsed' = elapsed \/ elapsed' = [elapsed EXCEPT ![r] = 0]
    BY <1>5 DEF SendRaw, Sent, Stop, Set
  <2>3. OnlyReader(r)
    BY <1>1, <2>2, SocketsAssumption DEF ClockInv, ClocksTyped, OnlyReader
  <2> QED
    BY <1>1, <2>1, <2>3, GotoClocks
<1> QED
  BY <1>2, <1>3, <1>4, <1>5

\* The actions of a connection task.
LEMMA TcpClocks ==
  ASSUME ClockInv, NEW r \in Tcp, NextLine(r) \/ SendTcp(r) \/ Eof(r) \/ SendLast(r)
  PROVE  ClockInv'
<1>1. r \in Readers
  BY DEF Readers
<1>2. ASSUME NextLine(r) PROVE ClockInv'
  <2>1. PICK label \in Labels : Goto(r, label)
    BY <1>1, <1>2, AddLineGoto DEF NextLine
  <2>2. UNCHANGED elapsed
    BY <1>2 DEF NextLine
  <2> QED
    BY <1>1, <2>1, <2>2, GotoClocks, ElapsedKept
<1>3. ASSUME SendTcp(r) PROVE ClockInv'
  <2>1. PICK label \in Labels : Goto(r, label)
    BY <1>3 DEF SendTcp, Stop, Labels
  <2>2. elapsed' = elapsed \/ elapsed' = [elapsed EXCEPT ![r] = 0]
    BY <1>3 DEF SendTcp, Sent, Stop, Set
  <2>3. OnlyReader(r)
    BY <1>1, <2>2, SocketsAssumption DEF ClockInv, ClocksTyped, OnlyReader
  <2> QED
    BY <1>1, <2>1, <2>3, GotoClocks
<1>4. ASSUME Eof(r) PROVE ClockInv'
  <2>1. PICK label \in Labels : Goto(r, label)
    BY <1>4 DEF Eof, Labels
  <2>2. UNCHANGED elapsed
    BY <1>4 DEF Eof
  <2> QED
    BY <1>1, <2>1, <2>2, GotoClocks, ElapsedKept
<1>5. ASSUME SendLast(r) PROVE ClockInv'
  <2>1. PICK label \in Labels : Goto(r, label)
    BY <1>5 DEF SendLast, Stop, Labels
  <2>2. UNCHANGED elapsed
    BY <1>5 DEF SendLast, Stop
  <2> QED
    BY <1>1, <2>1, <2>2, GotoClocks, ElapsedKept
<1> QED
  BY <1>2, <1>3, <1>4, <1>5

\* The clock ticks for both at once, and both stop counting at the same bound.
LEMMA TickClocks ==
  ASSUME ClockInv, Tick
  PROVE  ClockInv'
<1>1. batch_timeout \in Nat
  BY SocketsAssumption
<1>2. /\ elapsed' = [r \in Readers |-> Later(elapsed[r])]
      /\ timer' = [r \in Readers |->
                     IF r \in Udp /\ pc[r] = "read" THEN Later(timer[r]) ELSE timer[r]]
      /\ pc' = pc
  BY DEF Tick
<1>3. \A n \in 0..batch_timeout : Later(n) \in 0..batch_timeout
  BY <1>1 DEF Later
<1>4. ClocksTyped'
  BY <1>2, <1>3 DEF ClockInv, ClocksTyped
<1>5. SleepIsYounger'
  <2> SUFFICES ASSUME NEW q \in Udp, pc'[q] = "read" PROVE timer'[q] <= elapsed'[q]
    BY DEF SleepIsYounger
  <2>1. q \in Readers
    BY DEF Readers
  <2>2. timer'[q] = Later(timer[q]) /\ elapsed'[q] = Later(elapsed[q])
    BY <1>2, <2>1
  <2>3. /\ timer[q] <= elapsed[q]
        /\ timer[q] \in 0..batch_timeout
        /\ elapsed[q] \in 0..batch_timeout
    BY <1>2, <2>1 DEF ClockInv, ClocksTyped, SleepIsYounger
  <2> QED
    BY <1>1, <2>2, <2>3 DEF Later
<1> QED
  BY <1>4, <1>5 DEF ClockInv

\* Every step preserves the invariant of the clocks.
LEMMA StepClocks == ClockInv /\ [Next]_vars => ClockInv'
<1> SUFFICES ASSUME ClockInv, [Next]_vars PROVE ClockInv'
  OBVIOUS
<1>1. ASSUME UNCHANGED <<pc, elapsed, timer>> PROVE ClockInv'
  BY <1>1 DEF ClockInv, ClocksTyped, SleepIsYounger
<1>2. ASSUME NEW r \in Udp, TakeRaw(r) \/ ForwardParsed(r) PROVE ClockInv'
  BY <1>1, <1>2 DEF TakeRaw, ForwardParsed, reader
<1>3. ASSUME NEW kind \in {"udp", "tcp"}, Consume(kind) \/ DropReceiver(kind) PROVE ClockInv'
  BY <1>1, <1>3 DEF Consume, DropReceiver, reader
<1>4. CASE UNCHANGED vars
  BY <1>1, <1>4 DEF vars, reader
<1> QED
  BY <1>2, <1>3, <1>4, UdpClocks, TcpClocks, TickClocks DEF Next

\* For any workers, batch size and timeout: when the sleep of a UDP worker ends,
\* what its batch holds is old enough, so that no timeout passes without effect.
THEOREM TimeoutFlushesAlways == Spec => []TimeoutFlushes
<1>1. Init => ClockInv
  BY SocketsAssumption DEF Init, ClockInv, ClocksTyped, SleepIsYounger, Labels, Readers
<1>2. ClockInv => TimeoutFlushes
  <2> SUFFICES ASSUME ClockInv, NEW r \in Udp, pc[r] = "read", timer[r] >= batch_timeout
               PROVE  elapsed[r] >= batch_timeout
    BY DEF TimeoutFlushes
  <2>1. /\ timer[r] <= elapsed[r]
        /\ timer[r] \in 0..batch_timeout
        /\ elapsed[r] \in 0..batch_timeout
    BY DEF ClockInv, ClocksTyped, SleepIsYounger, Readers
  <2> QED
    BY <2>1, SocketsAssumption
<1> QED
  BY <1>1, <1>2, StepClocks, PTL DEF Spec
-----------------------------------------------------------------------------
(* Concatenation.  Claims about every length are shown for the least one   *)
(* at which they would fail.                                               *)

\* Among the numbers for which something fails there is a least one.
LEMMA LeastMember ==
  ASSUME NEW S, S \subseteq Nat, S # {}
  PROVE  \E p \in S : \A q \in S : p <= q
<1> DEFINE below == {1..n : n \in S}
<1>1. below \subseteq FiniteSubsetsOf(Nat) /\ below # {}
  <2>1. \A n \in S : n \in Int /\ IsFiniteSet(1..n)
    BY FS_Interval
  <2>2. \A n \in S : 1..n \in FiniteSubsetsOf(Nat)
    BY <2>1 DEF FiniteSubsetsOf
  <2> QED
    BY <2>2
<1>2. PICK b \in below : \A c \in below : ~(<<c, b>> \in StrictSubsetOrdering(Nat))
  BY <1>1, FS_StrictSubsetOrderingWellFounded, WFMin
<1>3. PICK p \in S : b = 1..p
  BY <1>2
<1>4. \A q \in S : p <= q
  <2> SUFFICES ASSUME NEW q \in S, q < p PROVE FALSE
    OBVIOUS
  <2>1. 1..q \in SUBSET Nat /\ 1..p \in SUBSET Nat /\ 1..q \subseteq 1..p
    OBVIOUS
  <2>2. p \in 1..p /\ p \notin 1..q
    OBVIOUS
  <2>3. <<1..q, 1..p>> \in StrictSubsetOrdering(Nat)
    BY <2>1, <2>2 DEF StrictSubsetOrdering
  <2> QED
    BY <1>2, <1>3, <2>3
<1> QED
  BY <1>4

\* One step of FlattenSeq.
Upto(seqs, f, i) == IF i = 1 THEN seqs[i] ELSE f[i - 1] \o seqs[i]

\* FlattenSeq is defined: a function that concatenates the first k sequences exists.
LEMMA FlattenExists ==
  ASSUME NEW seqs, NEW n \in Nat \ {0}
  PROVE  \E f : f = [i \in 1..n |-> Upto(seqs, f, i)]
<1> DEFINE Works(k) == \E f : f = [i \in 1..k |-> Upto(seqs, f, i)]
           bad == {k \in Nat \ {0} : ~Works(k)}
<1>1. Works(1)
  <2> DEFINE f == [i \in 1..1 |-> seqs[1]]
  <2>1. f = [i \in 1..1 |-> Upto(seqs, f, i)]
    BY DEF Upto
  <2> QED
    BY <2>1
<1>2. ASSUME NEW k \in Nat \ {0, 1}, Works(k - 1) PROVE Works(k)
  <2>1. PICK g : g = [i \in 1..(k - 1) |-> Upto(seqs, g, i)]
    BY <1>2
  <2> DEFINE f == [i \in 1..k |-> IF i = k THEN g[k - 1] \o seqs[k] ELSE g[i]]
  <2>3. f = [i \in 1..k |-> IF i = k THEN g[k - 1] \o seqs[k] ELSE g[i]]
    OBVIOUS
  <2> HIDE DEF f
  <2>2. f[k] = g[k - 1] \o seqs[k] /\ \A i \in 1..(k - 1) : f[i] = g[i]
    <3>1. k \in 1..k /\ \A i \in 1..(k - 1) : i \in 1..k /\ i # k
      OBVIOUS
    <3> DEFINE value(i) == IF i = k THEN g[k - 1] \o seqs[k] ELSE g[i]
    <3>2. \A i \in 1..k : f[i] = value(i)
      BY <2>3
    <3>3. f[k] = value(k) /\ \A i \in 1..(k - 1) : f[i] = value(i)
      BY <3>1, <3>2
    <3> QED
      BY <3>1, <3>3
  <2>4. ASSUME NEW i \in 1..k PROVE f[i] = Upto(seqs, f, i)
    <3>1. CASE i = k
      <4>1. k - 1 \in 1..(k - 1) /\ i # 1
        BY <3>1
      <4> QED
        BY <2>2, <3>1, <4>1 DEF Upto
    <3>2. CASE i \in 1..(k - 1)
      <4>1. g[i] = Upto(seqs, g, i)
        BY <2>1, <3>2
      <4>2. i # 1 => i - 1 \in 1..(k - 1)
        BY <3>2
      <4> QED
        BY <2>2, <3>2, <4>1, <4>2 DEF Upto
    <3> QED
      BY <3>1, <3>2
  <2>5. f = [i \in 1..k |-> Upto(seqs, f, i)]
    BY <2>3, <2>4
  <2> QED
    BY <2>5
<1> HIDE DEF Works
<1>3. SUFFICES ASSUME ~Works(n) PROVE FALSE
  BY DEF Works
<1>4. PICK k \in bad : \A q \in bad : k <= q
  <2>1. bad \subseteq Nat /\ n \in bad
    BY <1>3
  <2> HIDE DEF bad
  <2> QED
    BY <2>1, LeastMember
<1>5. k \in Nat \ {0, 1} /\ ~Works(k)
  BY <1>1
<1>6. k - 1 \in bad
  BY <1>2, <1>5
<1> HIDE DEF bad
<1> QED
  BY <1>4, <1>5, <1>6

\* FlattenSeq concatenates from the left.
LEMMA FlattenSteps ==
  ASSUME NEW S, NEW n \in Nat \ {0}, NEW seqs \in [1..n -> Seq(S)]
  PROVE  \E f : /\ \A i \in 1..n : f[i] \in Seq(S) /\ f[i] = Upto(seqs, f, i)
                /\ FlattenSeq(seqs) = f[n]
<1> DEFINE flatten == CHOOSE f : f = [i \in 1..n |-> IF i = 1 THEN seqs[i]
                                                     ELSE f[i - 1] \o seqs[i]]
<1>1. FlattenSeq(seqs) = flatten[n]
  <2>1. Len(seqs) = n /\ n # 0
    OBVIOUS
  <2> QED
    BY <2>1 DEF FlattenSeq
<1>2. flatten = [i \in 1..n |-> Upto(seqs, flatten, i)]
  <2>1. PICK g : g = [i \in 1..n |-> Upto(seqs, g, i)]
    BY FlattenExists
  <2> QED
    BY <2>1 DEF Upto
<1> HIDE DEF flatten
<1>3. \A i \in 1..n : flatten[i] = Upto(seqs, flatten, i)
  BY <1>2
<1>4. \A i \in 1..n : flatten[i] \in Seq(S)
  <2> DEFINE bad == {i \in 1..n : flatten[i] \notin Seq(S)}
  <2>1. SUFFICES ASSUME bad # {} PROVE FALSE
    OBVIOUS
  <2>2. PICK k \in bad : \A q \in bad : k <= q
    <3>1. bad \subseteq Nat
      OBVIOUS
    <3> HIDE DEF bad
    <3> QED
      BY <2>1, <3>1, LeastMember
  <2>3. k \in 1..n /\ flatten[k] = Upto(seqs, flatten, k) /\ flatten[k] \notin Seq(S)
    BY <1>3
  <2>8. seqs[k] \in Seq(S)
    BY <2>3
  <2>4. k # 1
    BY <2>3, <2>8 DEF Upto
  <2>5. k - 1 \in 1..n /\ k - 1 \notin bad
    BY <2>2, <2>3, <2>4
  <2>6. flatten[k - 1] \in Seq(S)
    BY <2>5
  <2>7. flatten[k] = flatten[k - 1] \o seqs[k]
    BY <2>3, <2>4 DEF Upto
  <2> QED
    BY <2>3, <2>6, <2>7, <2>8, ConcatProperties
<1> QED
  BY <1>1, <1>3, <1>4

\* One more sequence at the end.
LEMMA FlattenAppend ==
  ASSUME NEW S, NEW seqs \in Seq(Seq(S)), NEW x \in Seq(S)
  PROVE  /\ FlattenSeq(Append(seqs, x)) = FlattenSeq(seqs) \o x
         /\ FlattenSeq(seqs) \in Seq(S)
<1> DEFINE n == Len(seqs)
           more == Append(seqs, x)
<1>1. /\ n \in Nat /\ seqs \in [1..n -> Seq(S)] /\ n + 1 \in Nat \ {0}
      /\ more \in [1..(n + 1) -> Seq(S)]
      /\ more[n + 1] = x /\ \A i \in 1..n : more[i] = seqs[i]
  <2>1. n \in Nat /\ seqs \in [1..n -> Seq(S)]
    BY LenProperties
  <2>2. /\ more \in Seq(Seq(S)) /\ Len(more) = n + 1
        /\ more[n + 1] = x /\ \A i \in 1..n : more[i] = seqs[i]
    BY AppendProperties
  <2>3. more \in [1..(n + 1) -> Seq(S)]
    BY <2>2, LenProperties
  <2> QED
    BY <2>1, <2>2, <2>3
<1> HIDE DEF n, more
<1>2. PICK g : /\ \A i \in 1..(n + 1) : g[i] \in Seq(S) /\ g[i] = Upto(more, g, i)
               /\ FlattenSeq(more) = g[n + 1]
  BY <1>1, FlattenSteps
<1>3. CASE n = 0
  <2>1. g[1] = x
    BY <1>1, <1>2, <1>3 DEF Upto
  <2>2. seqs = <<>>
    BY <1>3 DEF n
  <2>3. FlattenSeq(seqs) = <<>>
    BY <2>2 DEF FlattenSeq
  <2>4. <<>> \o x = x /\ <<>> \in Seq(S)
    OBVIOUS
  <2> QED
    BY <1>2, <1>3, <2>1, <2>3, <2>4 DEF more
<1>4. CASE n # 0
  <2>1. PICK f : /\ \A i \in 1..n : f[i] \in Seq(S) /\ f[i] = Upto(seqs, f, i)
                 /\ FlattenSeq(seqs) = f[n]
    <3>1. n \in Nat \ {0}
      BY <1>1, <1>4
    <3>2. seqs \in [1..n -> Seq(S)]
      BY <1>1
    <3> QED
      BY <3>1, <3>2, FlattenSteps
  <2> DEFINE bad == {i \in 1..n : f[i] # g[i]}
  <2>2. bad = {}
    <3> SUFFICES ASSUME bad # {} PROVE FALSE
      OBVIOUS
    <3>1. PICK k \in bad : \A q \in bad : k <= q
      <4>1. bad \subseteq Nat
        BY <1>1
      <4> HIDE DEF bad
      <4> QED
        BY <4>1, LeastMember
    <3>2. /\ k \in 1..n /\ k \in 1..(n + 1) /\ f[k] # g[k]
          /\ f[k] = Upto(seqs, f, k) /\ g[k] = Upto(more, g, k) /\ more[k] = seqs[k]
      BY <1>1, <1>2, <2>1
    <3>3. k # 1
      BY <3>2 DEF Upto
    <3>4. k - 1 \in 1..n /\ k - 1 \notin bad
      BY <1>1, <3>1, <3>2, <3>3
    <3> QED
      BY <3>2, <3>3, <3>4 DEF Upto
  <2>3. n \in 1..n /\ n + 1 \in 1..(n + 1) /\ n + 1 # 1 /\ (n + 1) - 1 = n
    BY <1>1, <1>4
  <2>4. f[n] = g[n]
    BY <2>2, <2>3
  <2>5. g[n + 1] = g[n] \o x
    BY <1>1, <1>2, <2>3 DEF Upto
  <2> QED
    BY <1>2, <2>1, <2>3, <2>4, <2>5 DEF more
<1> QED
  BY <1>3, <1>4

\* Concatenations concatenate.
LEMMA FlattenConcat ==
  ASSUME NEW S, NEW s \in Seq(Seq(S)), NEW t \in Seq(Seq(S))
  PROVE  FlattenSeq(s \o t) = FlattenSeq(s) \o FlattenSeq(t)
<1> DEFINE L == Seq(S)
           Holds(u) == FlattenSeq(s \o u) = FlattenSeq(s) \o FlattenSeq(u)
           bad == {Len(u) : u \in {v \in Seq(L) : ~Holds(v)}}
<1>0. FlattenSeq(s) \in L
  BY FlattenAppend, EmptySeq
<1>1. Holds(<<>>)
  <2>1. s \o <<>> = s /\ FlattenSeq(<<>>) = <<>>
    BY DEF FlattenSeq
  <2> QED
    BY <1>0, <2>1, ConcatEmptySeq
<1>2. ASSUME NEW u \in Seq(L), NEW x \in L, Holds(u) PROVE Holds(Append(u, x))
  <2>1. s \o Append(u, x) = Append(s \o u, x) /\ s \o u \in Seq(L)
    <3>1. \A e \in {x} : Append(u, e) = u \o <<e>> /\ Append(s \o u, e) = (s \o u) \o <<e>>
      BY AppendIsConcat, ConcatProperties
    <3> QED
      BY <3>1, ConcatAssociative, ConcatProperties
  <2>2. FlattenSeq(Append(s \o u, x)) = FlattenSeq(s \o u) \o x
    BY <2>1, FlattenAppend
  <2>3. FlattenSeq(Append(u, x)) = FlattenSeq(u) \o x /\ FlattenSeq(u) \in L
    BY FlattenAppend
  <2>4. (FlattenSeq(s) \o FlattenSeq(u)) \o x = FlattenSeq(s) \o (FlattenSeq(u) \o x)
    BY <1>0, <2>3, ConcatAssociative
  <2> QED
    BY <1>2, <2>1, <2>2, <2>3, <2>4
<1> HIDE DEF Holds
<1>3. ASSUME ~Holds(t) PROVE FALSE
  <2>1. PICK m \in bad : \A q \in bad : m <= q
    <3>1. bad \subseteq Nat /\ Len(t) \in bad
      BY <1>3
    <3> HIDE DEF bad
    <3> QED
      BY <3>1, LeastMember
  <2>2. PICK v \in Seq(L) : m = Len(v) /\ ~Holds(v)
    OBVIOUS
  <2>3. v # <<>>
    BY <1>1, <2>2
  <2>4. PICK u \in Seq(L), x \in L : v = Append(u, x)
    BY <2>3, SequenceEmptyOrAppend
  <2>5. Len(u) \in Nat /\ Len(v) = Len(u) + 1
    BY <2>4
  <2>6. Holds(u)
    <3>1. ~Holds(u) => Len(u) \in bad
      OBVIOUS
    <3> HIDE DEF bad
    <3> QED
      BY <2>1, <2>2, <2>5, <3>1
  <2> QED
    BY <1>2, <2>2, <2>4, <2>6
<1> QED
  BY <1>3 DEF Holds

\* One sequence, and the first of several.
LEMMA FlattenFirst ==
  ASSUME NEW S, NEW x \in Seq(S)
  PROVE  /\ FlattenSeq(<<x>>) = x
         /\ \A seqs \in Seq(Seq(S)) : FlattenSeq(<<x>> \o seqs) = x \o FlattenSeq(seqs)
<1>1. FlattenSeq(<<x>>) = x
  <2>1. <<>> \in Seq(Seq(S)) /\ <<x>> = Append(<<>>, x) /\ <<>> \o x = x
    OBVIOUS
  <2>2. FlattenSeq(<<>>) = <<>>
    BY DEF FlattenSeq
  <2> QED
    BY <2>1, <2>2, FlattenAppend
<1>2. <<x>> \in Seq(Seq(S))
  OBVIOUS
<1> QED
  BY <1>1, <1>2, FlattenConcat

-----------------------------------------------------------------------------
(* Types, and where a reader may be in its loop.                           *)

ReaderTyped ==
  /\ pc \in [Readers -> Labels]
  /\ received \in [Readers -> Nat] /\ unread \in [Readers -> Nat]
  /\ batch \in [Readers -> Lines] /\ outgoing \in [Readers -> Lines]
  /\ elapsed \in [Readers -> 0..batch_timeout] /\ timer \in [Readers -> 0..batch_timeout]
  /\ blanks \in Nat

ParserTyped ==
  /\ raw \in [Udp -> Seq(Lines)] /\ parsed \in [Udp -> Lines] /\ alive \in [Udp -> BOOLEAN]
  /\ \A r \in Udp : Len(raw[r]) <= RawCapacity

SinkTyped ==
  /\ queue \in [{"udp", "tcp"} -> Seq([source : Readers, lines : Lines])]
  /\ open \in [{"udp", "tcp"} -> BOOLEAN]
  /\ delivered \in [Readers -> Lines]
  /\ \A kind \in {"udp", "tcp"} : Len(queue[kind]) <= TxCapacity

\* A datagram is read to its end before the socket is read again, and a batch is
\* taken to be sent only by a reader that has none to send.
Settled ==
  \A r \in Readers :
    /\ outgoing[r] # <<>> => pc[r] \in {"send", "last"}
    /\ pc[r] = "read" => unread[r] = 0
    /\ pc[r] = "lines" => unread[r] > 0
    /\ r \in Tcp => unread[r] = 0
    /\ unread[r] <= received[r]

\* A parsing task ends only when nobody receives.
Orphans == \A r \in Udp : ~alive[r] => ~open["udp"]

TypedInv == ReaderTyped /\ ParserTyped /\ SinkTyped /\ Settled /\ Orphans

LEMMA TypeOKParts == TypeOK <=> ReaderTyped /\ ParserTyped /\ SinkTyped
<1>1. \A q \in [{"udp", "tcp"} -> Seq([source : Readers, lines : Lines])] :
        DOMAIN q = {"udp", "tcp"}
  OBVIOUS
<1> QED
  BY <1>1 DEF TypeOK, ReaderTyped, ParserTyped, SinkTyped, Labels

\* The next turn of a reader's loop.
LEMMA GotoTyped ==
  ASSUME ReaderTyped, NEW r \in Readers, NEW label \in Labels, Goto(r, label)
  PROVE  /\ pc' \in [Readers -> Labels] /\ pc'[r] = label
         /\ \A q \in Readers \ {r} : pc'[q] = pc[q]
         /\ timer' \in [Readers -> 0..batch_timeout]
<1>1. pc' = [pc EXCEPT ![r] = label] /\ pc \in [Readers -> Labels]
  BY DEF Goto, Set, ReaderTyped
<1>2. /\ timer' = IF label = "read" THEN [timer EXCEPT ![r] = 0] ELSE timer
      /\ timer \in [Readers -> 0..batch_timeout] /\ 0 \in 0..batch_timeout
  BY SocketsAssumption DEF Goto, Set, ReaderTyped
<1> QED
  BY <1>1, <1>2

\* What a reader does with a line.
LEMMA AddLineTyped ==
  ASSUME ReaderTyped, Settled, NEW r \in Readers, pc[r] \in {"read", "lines"},
         NEW line \in Nat \ {0}, NEW due \in BOOLEAN, NEW rest \in Nat,
         AddLine(r, line, due, rest),
         received' \in [Readers -> Nat], unread' = [unread EXCEPT ![r] = rest],
         r \in Tcp => rest = 0, rest <= received'[r],
         \A q \in Readers \ {r} : received'[q] = received[q],
         UNCHANGED <<elapsed, blanks>>
  PROVE  ReaderTyped' /\ Settled'
<1>1. Append(batch[r], line) \in Lines /\ <<>> \in Lines
  BY DEF ReaderTyped, Lines
<1>2. /\ \/ pc'[r] = "send"
         \/ outgoing' = outgoing /\ pc'[r] = IF rest > 0 THEN "lines" ELSE "read"
      /\ pc' \in [Readers -> Labels]
      /\ \A q \in Readers \ {r} : pc'[q] = pc[q]
      /\ timer' \in [Readers -> 0..batch_timeout]
  <2> DEFINE label == IF rest > 0 THEN "lines" ELSE "read"
  <2>1. \/ Goto(r, "send")
        \/ Goto(r, label) /\ outgoing' = outgoing
    BY DEF AddLine, Resume
  <2>2. "send" \in Labels /\ label \in Labels
    BY DEF Labels
  <2> HIDE DEF label
  <2>3. CASE Goto(r, "send")
    BY <2>2, <2>3, GotoTyped
  <2>4. CASE Goto(r, label) /\ outgoing' = outgoing
    BY <2>2, <2>4, GotoTyped DEF label
  <2> QED
    BY <2>1, <2>3, <2>4
<1>4. /\ batch' \in [Readers -> Lines]
      /\ outgoing' \in [Readers -> Lines]
      /\ \A q \in Readers \ {r} : outgoing'[q] = outgoing[q]
  BY <1>1 DEF AddLine, Set, ReaderTyped
<1>5. unread' \in [Readers -> Nat] /\ unread'[r] = rest
      /\ \A q \in Readers \ {r} : unread'[q] = unread[q]
  BY DEF ReaderTyped
<1>6. ReaderTyped'
  BY <1>2, <1>4, <1>5 DEF ReaderTyped
<1>7. Settled'
  <2> SUFFICES ASSUME NEW q \in Readers
               PROVE  /\ outgoing'[q] # <<>> => pc'[q] \in {"send", "last"}
                      /\ pc'[q] = "read" => unread'[q] = 0
                      /\ pc'[q] = "lines" => unread'[q] > 0
                      /\ q \in Tcp => unread'[q] = 0
                      /\ unread'[q] <= received'[q]
    BY DEF Settled
  <2>1. CASE q = r
    BY <1>2, <1>5, <2>1 DEF Settled
  <2>2. CASE q # r
    BY <1>2, <1>4, <1>5, <2>2 DEF Settled
  <2> QED
    BY <2>1, <2>2
<1> QED
  BY <1>6, <1>7

\* The other steps of a reader.
LEMMA ReaderStepTyped ==
  ASSUME TypedInv, NEW r \in Readers
  PROVE  /\ r \in Udp => \A n \in 0..MaxLines : RecvDatagram(r, n) => ReaderTyped' /\ Settled'
         /\ r \in Udp /\ Timeout(r) => ReaderTyped' /\ Settled'
         /\ r \in Udp /\ SendRaw(r) => ReaderTyped' /\ Settled'
         /\ r \in Tcp /\ (SendTcp(r) \/ Eof(r) \/ SendLast(r)) => ReaderTyped' /\ Settled'
<1>0. batch_timeout \in Nat /\ MaxLines \in Nat /\ Udp \cap Tcp = {} /\ <<>> \in Lines
  BY SocketsAssumption DEF Lines
<1>1. ASSUME r \in Udp, NEW n \in 0..MaxLines, RecvDatagram(r, n) PROVE ReaderTyped' /\ Settled'
  <2>1. ReaderTyped'
    BY <1>0, <1>1 DEF TypedInv, ReaderTyped, RecvDatagram, Resume, Goto, Set, Labels
  <2>2. Settled'
    BY <1>0, <1>1 DEF TypedInv, ReaderTyped, Settled, RecvDatagram, Resume, Goto, Set
  <2> QED
    BY <2>1, <2>2
<1>2. ASSUME r \in Udp, Timeout(r) PROVE ReaderTyped' /\ Settled'
  <2>1. ReaderTyped'
    <3>1. PICK label \in Labels : Goto(r, label)
      BY <1>2 DEF Timeout, Labels
    <3>2. /\ batch' \in [Readers -> Lines] /\ outgoing' \in [Readers -> Lines]
          /\ UNCHANGED <<received, unread, elapsed, blanks>>
      BY <1>0, <1>2 DEF TypedInv, ReaderTyped, Timeout, Set
    <3> QED
      BY <3>1, <3>2, GotoTyped DEF TypedInv, ReaderTyped
  <2>2. Settled'
    BY <1>0, <1>2 DEF TypedInv, ReaderTyped, Settled, Timeout, Goto, Set
  <2> QED
    BY <2>1, <2>2
<1>7. ASSUME NEW label \in Labels, Goto(r, label),
             outgoing' = [outgoing EXCEPT ![r] = <<>>],
             elapsed' = elapsed \/ elapsed' = [elapsed EXCEPT ![r] = 0],
             UNCHANGED <<received, unread, batch, blanks>>,
             label = "read" => unread[r] = 0, label = "lines" => unread[r] > 0
      PROVE  ReaderTyped' /\ Settled'
  <2>1. /\ elapsed' \in [Readers -> 0..batch_timeout] /\ outgoing' \in [Readers -> Lines]
        /\ outgoing'[r] = <<>> /\ \A q \in Readers \ {r} : outgoing'[q] = outgoing[q]
    <3>1. /\ elapsed \in [Readers -> 0..batch_timeout] /\ outgoing \in [Readers -> Lines]
          /\ 0 \in 0..batch_timeout
      BY <1>0 DEF TypedInv, ReaderTyped
    <3>2. elapsed' \in [Readers -> 0..batch_timeout]
      BY <1>7, <3>1
    <3> QED
      BY <1>0, <1>7, <3>1, <3>2
  <2>2. /\ pc' \in [Readers -> Labels] /\ pc'[r] = label
        /\ \A q \in Readers \ {r} : pc'[q] = pc[q]
        /\ timer' \in [Readers -> 0..batch_timeout]
    BY <1>7, GotoTyped DEF TypedInv
  <2>3. ReaderTyped'
    BY <1>7, <2>1, <2>2 DEF TypedInv, ReaderTyped
  <2>4. Settled'
    BY <1>7, <2>1, <2>2 DEF TypedInv, Settled
  <2> QED
    BY <2>3, <2>4
<1>3. ASSUME r \in Udp, SendRaw(r) PROVE ReaderTyped' /\ Settled'
  <2>1. /\ outgoing' = [outgoing EXCEPT ![r] = <<>>]
        /\ elapsed' = elapsed \/ elapsed' = [elapsed EXCEPT ![r] = 0]
        /\ UNCHANGED <<received, unread, batch, blanks>>
    BY <1>3 DEF SendRaw, Sent, Stop, Set
  <2>2. \/ Goto(r, "done")
        \/ unread[r] > 0 /\ Goto(r, "lines")
        \/ ~(unread[r] > 0) /\ Goto(r, "read")
    BY <1>3 DEF SendRaw, Stop, Resume
  <2>3. ~(unread[r] > 0) => unread[r] = 0
    BY DEF TypedInv, ReaderTyped
  <2> QED
    BY <1>7, <2>1, <2>2, <2>3 DEF Labels
<1>4. ASSUME r \in Tcp, SendTcp(r) PROVE ReaderTyped' /\ Settled'
  <2>1. /\ outgoing' = [outgoing EXCEPT ![r] = <<>>]
        /\ elapsed' = elapsed \/ elapsed' = [elapsed EXCEPT ![r] = 0]
        /\ UNCHANGED <<received, unread, batch, blanks>>
    BY <1>4 DEF SendTcp, Sent, Stop, Set
  <2>2. Goto(r, "done") \/ Goto(r, "read")
    BY <1>4 DEF SendTcp, Stop
  <2>3. unread[r] = 0
    BY <1>4 DEF TypedInv, Settled
  <2> QED
    BY <1>7, <2>1, <2>2, <2>3 DEF Labels
<1>5. ASSUME r \in Tcp, Eof(r) PROVE ReaderTyped' /\ Settled'
  <2>1. ReaderTyped'
    BY <1>0, <1>5 DEF TypedInv, ReaderTyped, Eof, Goto, Set, Labels
  <2>2. Settled'
    BY <1>0, <1>5 DEF TypedInv, ReaderTyped, Settled, Eof, Goto, Set
  <2> QED
    BY <2>1, <2>2
<1>6. ASSUME r \in Tcp, SendLast(r) PROVE ReaderTyped' /\ Settled'
  <2>1. ReaderTyped'
    BY <1>0, <1>6 DEF TypedInv, ReaderTyped, SendLast, Stop, Goto, Set, Labels
  <2>2. Settled'
    BY <1>0, <1>6 DEF TypedInv, ReaderTyped, Settled, SendLast, Stop, Goto, Set
  <2> QED
    BY <2>1, <2>2
<1> QED
  BY <1>1, <1>2, <1>3, <1>4, <1>5, <1>6

\* A batch is put on a channel of the embedding program.
LEMMA EnqueueTyped ==
  ASSUME TypedInv, NEW kind \in {"udp", "tcp"}, NEW r \in Readers, NEW lines \in Lines,
         Enqueue(kind, r, lines)
  PROVE  SinkTyped' /\ open' = open
<1> DEFINE b == [source |-> r, lines |-> lines]
           Batches == [source : Readers, lines : Lines]
<1>1. b \in Batches
  OBVIOUS
<1>2. queue' = [queue EXCEPT ![kind] = Append(queue[kind], b)] /\ Len(queue[kind]) < TxCapacity
      /\ UNCHANGED <<open, delivered>>
  BY DEF Enqueue
<1>3. queue \in [{"udp", "tcp"} -> Seq(Batches)]
  BY DEF TypedInv, SinkTyped
<1> HIDE DEF b, Batches
<1>4. Append(queue[kind], b) \in Seq(Batches) /\ Len(Append(queue[kind], b)) = Len(queue[kind]) + 1
      /\ Len(queue[kind]) \in Nat
  BY <1>1, <1>3
<1>5. queue' \in [{"udp", "tcp"} -> Seq(Batches)]
  BY <1>2, <1>3, <1>4
<1>6. \A k \in {"udp", "tcp"} : Len(queue'[k]) <= TxCapacity
  BY <1>2, <1>3, <1>4, SocketsAssumption DEF TypedInv, SinkTyped
<1> QED
  BY <1>2, <1>5, <1>6 DEF TypedInv, SinkTyped, Batches

\* The channel between the tasks of a worker changes.
LEMMA RawTyped ==
  ASSUME ParserTyped, NEW r \in Udp, NEW x \in Seq(Lines), Len(x) <= RawCapacity,
         raw' = [raw EXCEPT ![r] = x]
  PROVE  raw' \in [Udp -> Seq(Lines)] /\ \A q \in Udp : Len(raw'[q]) <= RawCapacity
<1>1. raw \in [Udp -> Seq(Lines)] /\ \A q \in Udp : Len(raw[q]) <= RawCapacity
  BY DEF ParserTyped
<1> HIDE DEF Lines
<1>2. raw' \in [Udp -> Seq(Lines)]
  BY <1>1
<1>3. ASSUME NEW q \in Udp PROVE Len(raw'[q]) <= RawCapacity
  <2>1. raw'[q] = IF q = r THEN x ELSE raw[q]
    BY <1>1
  <2> QED
    BY <1>1, <2>1
<1> QED
  BY <1>2, <1>3

LEMMA InitTyped == Init => TypedInv
<1>1. <<>> \in Lines /\ <<>> \in Seq(Lines) /\ <<>> \in Seq([source : Readers, lines : Lines])
      /\ Len(<<>>) = 0
  BY DEF Lines
<1>2. Init => ReaderTyped
  BY <1>1, SocketsAssumption DEF Init, ReaderTyped, Labels
<1>3. Init => ParserTyped
  BY <1>1, SocketsAssumption DEF Init, ParserTyped
<1>4. Init => SinkTyped
  BY <1>1, SocketsAssumption DEF Init, SinkTyped
<1>5. Init => Settled /\ Orphans
  BY DEF Init, Settled, Orphans, Readers
<1> QED
  BY <1>2, <1>3, <1>4, <1>5 DEF TypedInv

LEMMA StepTyped == TypedInv /\ [Next]_vars => TypedInv'
<1> SUFFICES ASSUME TypedInv, [Next]_vars PROVE TypedInv'
  OBVIOUS
<1>0. /\ Udp \subseteq Readers /\ Tcp \subseteq Readers /\ Udp \cap Tcp = {}
      /\ batch_timeout \in Nat /\ RawCapacity \in Nat
  BY SocketsAssumption DEF Readers
<1>1. ASSUME UNCHANGED <<parser, sink>>, ReaderTyped', Settled' PROVE TypedInv'
  BY <1>1 DEF TypedInv, ParserTyped, SinkTyped, Orphans, parser, sink
<1>2. ASSUME UNCHANGED reader, ParserTyped', SinkTyped', Orphans' PROVE TypedInv'
  <2>1. ReaderTyped'
    BY <1>2 DEF TypedInv, ReaderTyped, reader
  <2>2. Settled'
    BY <1>2 DEF TypedInv, Settled, reader
  <2> QED
    BY <1>2, <2>1, <2>2 DEF TypedInv
<1>3. ASSUME NEW r \in Udp, NEW n \in 0..MaxLines, RecvDatagram(r, n) PROVE TypedInv'
  BY <1>0, <1>1, <1>3, ReaderStepTyped DEF RecvDatagram
<1>4. ASSUME NEW r \in Udp, PushLine(r) PROVE TypedInv'
  <2>1. /\ pc[r] = "lines" /\ unread[r] \in Nat /\ unread[r] > 0 /\ received[r] \in Nat
        /\ unread[r] <= received[r] /\ r \notin Tcp
    BY <1>0, <1>4 DEF TypedInv, ReaderTyped, Settled, PushLine
  <2>2. /\ AddLine(r, received[r] - unread[r] + 1, FALSE, unread[r] - 1)
        /\ unread' = [unread EXCEPT ![r] = unread[r] - 1]
        /\ UNCHANGED <<received, elapsed, blanks, parser, sink>>
    BY <1>4 DEF PushLine, Set
  <2>3. /\ received[r] - unread[r] + 1 \in Nat \ {0} /\ unread[r] - 1 \in Nat
        /\ unread[r] - 1 <= received[r]
    BY <2>1
  <2>4. ReaderTyped' /\ Settled'
    BY <1>0, <2>1, <2>2, <2>3, AddLineTyped DEF TypedInv, ReaderTyped
  <2> QED
    BY <1>1, <2>2, <2>4
<1>5. ASSUME NEW r \in Udp, Timeout(r) PROVE TypedInv'
  BY <1>0, <1>1, <1>5, ReaderStepTyped DEF Timeout
<1>6. ASSUME NEW r \in Udp, SendRaw(r) PROVE TypedInv'
  <2>1. ReaderTyped' /\ Settled'
    BY <1>0, <1>6, ReaderStepTyped
  <2>2. /\ raw' = raw \/ /\ Len(raw[r]) < RawCapacity
                         /\ raw' = [raw EXCEPT ![r] = Append(raw[r], outgoing[r])]
        /\ UNCHANGED <<parsed, alive, sink>>
    BY <1>6 DEF SendRaw, Set
  <2>3. outgoing[r] \in Lines /\ raw[r] \in Seq(Lines)
    BY <1>0 DEF TypedInv, ReaderTyped, ParserTyped
  <2>4. /\ Append(raw[r], outgoing[r]) \in Seq(Lines)
        /\ Len(Append(raw[r], outgoing[r])) = Len(raw[r]) + 1 /\ Len(raw[r]) \in Nat
    BY <2>3
  <2>7. raw' \in [Udp -> Seq(Lines)] /\ \A q \in Udp : Len(raw'[q]) <= RawCapacity
    <3>1. CASE raw' = raw
      BY <3>1 DEF TypedInv, ParserTyped
    <3>2. CASE /\ Len(raw[r]) < RawCapacity
               /\ raw' = [raw EXCEPT ![r] = Append(raw[r], outgoing[r])]
      <4>1. Len(Append(raw[r], outgoing[r])) <= RawCapacity
        BY <1>0, <2>4, <3>2
      <4> QED
        BY <2>4, <3>2, <4>1, RawTyped DEF TypedInv
    <3> QED
      BY <2>2, <3>1, <3>2
  <2>5. ParserTyped'
    BY <2>2, <2>7 DEF TypedInv, ParserTyped
  <2>6. SinkTyped' /\ Orphans'
    BY <2>2 DEF TypedInv, SinkTyped, Orphans, sink
  <2> QED
    BY <2>1, <2>5, <2>6 DEF TypedInv
<1>7. ASSUME NEW r \in Udp, TakeRaw(r) PROVE TypedInv'
  <2>1. /\ parsed' = [parsed EXCEPT ![r] = Head(raw[r])]
        /\ raw' = [raw EXCEPT ![r] = Tail(raw[r])]
        /\ raw[r] # <<>>
        /\ UNCHANGED <<alive, reader, sink>>
    BY <1>7 DEF TakeRaw, Set
  <2>2. raw[r] \in Seq(Lines) /\ Len(raw[r]) \in Nat
    BY DEF TypedInv, ParserTyped
  <2>3. /\ Head(raw[r]) \in Lines /\ Tail(raw[r]) \in Seq(Lines)
        /\ Len(Tail(raw[r])) = Len(raw[r]) - 1
    BY <2>1, <2>2, HeadTailProperties
  <2>6. raw' \in [Udp -> Seq(Lines)] /\ parsed' \in [Udp -> Lines] /\ alive' \in [Udp -> BOOLEAN]
    BY <2>1, <2>3 DEF TypedInv, ParserTyped
  <2>8. Len(Tail(raw[r])) <= RawCapacity
    BY <1>0, <2>2, <2>3 DEF TypedInv, ParserTyped
  <2>7. \A q \in Udp : Len(raw'[q]) <= RawCapacity
    BY <2>1, <2>3, <2>8, RawTyped DEF TypedInv
  <2>4. ParserTyped'
    BY <2>6, <2>7 DEF ParserTyped
  <2>5. SinkTyped' /\ Orphans'
    BY <2>1 DEF TypedInv, SinkTyped, Orphans, sink
  <2> QED
    BY <1>2, <2>1, <2>4, <2>5
<1>8. ASSUME NEW r \in Udp, ForwardParsed(r) PROVE TypedInv'
  <2>1. /\ parsed' = [parsed EXCEPT ![r] = <<>>]
        /\ \/ Enqueue("udp", r, parsed[r]) /\ UNCHANGED <<raw, alive>>
           \/ /\ ~open["udp"] /\ UNCHANGED sink
              /\ alive' = [alive EXCEPT ![r] = FALSE]
              /\ raw' = [raw EXCEPT ![r] = <<>>]
        /\ UNCHANGED reader
    BY <1>8 DEF ForwardParsed, Set
  <2>2. <<>> \in Lines /\ <<>> \in Seq(Lines) /\ Len(<<>>) = 0
    BY DEF Lines
  <2>3. ParserTyped'
    <3>1. parsed' \in [Udp -> Lines] /\ alive' \in [Udp -> BOOLEAN]
      BY <2>1, <2>2 DEF TypedInv, ParserTyped
    <3>2. CASE raw' = raw
      BY <3>1, <3>2 DEF TypedInv, ParserTyped
    <3>3. CASE raw' = [raw EXCEPT ![r] = <<>>]
      <4>1. Len(<<>>) <= RawCapacity
        BY <1>0, <2>2
      <4> QED
        BY <2>2, <3>1, <3>3, <4>1, RawTyped DEF TypedInv, ParserTyped
    <3> QED
      BY <2>1, <3>2, <3>3
  <2>4. parsed[r] \in Lines
    BY DEF TypedInv, ParserTyped
  <2>5. SinkTyped' /\ open' = open
    BY <1>0, <2>1, <2>4, EnqueueTyped DEF TypedInv, SinkTyped, sink
  <2>6. Orphans'
    BY <2>1, <2>5 DEF TypedInv, Orphans, ParserTyped
  <2> QED
    BY <1>2, <2>1, <2>3, <2>5, <2>6
<1>9. ASSUME NEW r \in Tcp, NextLine(r) PROVE TypedInv'
  <2>1. /\ pc[r] = "read" /\ received[r] \in Nat /\ unread[r] = 0
    BY <1>0, <1>9 DEF TypedInv, ReaderTyped, Settled, NextLine
  <2>2. /\ AddLine(r, received[r] + 1, elapsed[r] >= batch_timeout, 0)
        /\ received' = [received EXCEPT ![r] = received[r] + 1]
        /\ UNCHANGED <<unread, elapsed, blanks, parser, sink>>
    BY <1>9 DEF NextLine, Set
  <2>5. r \in Readers /\ unread' \in [Readers -> Nat] /\ unread'[r] = 0
    BY <1>0, <2>1, <2>2 DEF TypedInv, ReaderTyped
  <2>3. /\ received[r] + 1 \in Nat \ {0} /\ (elapsed[r] >= batch_timeout) \in BOOLEAN
        /\ received' \in [Readers -> Nat] /\ 0 <= received'[r]
        /\ \A q \in Readers \ {r} : received'[q] = received[q]
        /\ unread' = [unread EXCEPT ![r] = 0]
    BY <2>1, <2>2, <2>5 DEF TypedInv, ReaderTyped
  <2>4. ReaderTyped' /\ Settled'
    <3>1. ReaderTyped /\ Settled /\ 0 \in Nat /\ UNCHANGED <<elapsed, blanks>>
      BY <2>2 DEF TypedInv
    <3> DEFINE due == elapsed[r] >= batch_timeout
    <3>2. AddLine(r, received[r] + 1, due, 0) /\ due \in BOOLEAN
      BY <2>2
    <3> HIDE DEF due
    <3> QED
      BY <2>1, <2>3, <2>5, <3>1, <3>2, AddLineTyped
  <2> QED
    BY <1>1, <2>2, <2>4
<1>10. ASSUME NEW r \in Tcp, SendTcp(r) \/ SendLast(r) PROVE TypedInv'
  <2>1. ReaderTyped' /\ Settled'
    BY <1>0, <1>10, ReaderStepTyped
  <2>2. outgoing[r] \in Lines /\ UNCHANGED parser
    BY <1>0, <1>10 DEF TypedInv, ReaderTyped, SendTcp, SendLast
  <2>3. Enqueue("tcp", r, outgoing[r]) \/ UNCHANGED sink
    BY <1>10 DEF SendTcp, SendLast
  <2>4. SinkTyped' /\ open' = open
    BY <1>0, <2>2, <2>3, EnqueueTyped DEF TypedInv, SinkTyped, sink
  <2> QED
    BY <2>1, <2>2, <2>4 DEF TypedInv, ParserTyped, Orphans, parser
<1>11. ASSUME NEW r \in Tcp, Eof(r) PROVE TypedInv'
  BY <1>0, <1>1, <1>11, ReaderStepTyped DEF Eof
<1>12. ASSUME NEW kind \in {"udp", "tcp"}, Consume(kind) PROVE TypedInv'
  <2> DEFINE Batches == [source : Readers, lines : Lines]
             b == Head(queue[kind])
  <2>1. /\ queue' = [queue EXCEPT ![kind] = Tail(queue[kind])]
        /\ delivered' = [delivered EXCEPT ![b.source] = delivered[b.source] \o b.lines]
        /\ queue[kind] # <<>>
        /\ UNCHANGED <<open, reader, parser>>
    BY <1>12 DEF Consume, Set
  <2>2. queue \in [{"udp", "tcp"} -> Seq(Batches)] /\ delivered \in [Readers -> Lines]
    BY DEF TypedInv, SinkTyped
  <2>3. b \in Batches /\ Tail(queue[kind]) \in Seq(Batches)
        /\ Len(Tail(queue[kind])) = Len(queue[kind]) - 1 /\ Len(queue[kind]) \in Nat
    <3> HIDE DEF Batches
    <3> QED
      BY <2>1, <2>2, HeadTailProperties
  <2>4. b.source \in Readers /\ delivered[b.source] \o b.lines \in Lines
    BY <2>2, <2>3 DEF Lines
  <2> HIDE DEF b, Batches
  <2>5. delivered' \in [Readers -> Lines]
    BY <2>1, <2>2, <2>4
  <2>6. queue' \in [{"udp", "tcp"} -> Seq(Batches)]
    BY <2>1, <2>2, <2>3
  <2>7. \A k \in {"udp", "tcp"} : Len(queue'[k]) <= TxCapacity
    BY <2>1, <2>2, <2>3, SocketsAssumption DEF TypedInv, SinkTyped
  <2>8. SinkTyped'
    BY <2>1, <2>5, <2>6, <2>7 DEF TypedInv, SinkTyped, Batches
  <2>9. ParserTyped' /\ Orphans'
    BY <2>1 DEF TypedInv, ParserTyped, Orphans, parser
  <2> QED
    BY <1>2, <2>1, <2>8, <2>9
<1>13. ASSUME NEW kind \in {"udp", "tcp"}, DropReceiver(kind) PROVE TypedInv'
  <2>1. /\ open' = [open EXCEPT ![kind] = FALSE]
        /\ queue' = [queue EXCEPT ![kind] = <<>>]
        /\ UNCHANGED <<delivered, reader, parser>>
    BY <1>13 DEF DropReceiver
  <2>2. <<>> \in Seq([source : Readers, lines : Lines]) /\ Len(<<>>) = 0
    OBVIOUS
  <2>3. SinkTyped'
    BY <2>1, <2>2, SocketsAssumption DEF TypedInv, SinkTyped
  <2>4. ParserTyped' /\ Orphans'
    BY <2>1 DEF TypedInv, ParserTyped, Orphans, SinkTyped, parser
  <2> QED
    BY <1>2, <2>1, <2>3, <2>4
<1>14. CASE Tick
  <2>1. /\ elapsed' = [r \in Readers |-> Later(elapsed[r])]
        /\ timer' = [r \in Readers |->
                       IF r \in Udp /\ pc[r] = "read" THEN Later(timer[r]) ELSE timer[r]]
        /\ UNCHANGED <<pc, received, unread, batch, outgoing, blanks, parser, sink>>
    BY <1>14 DEF Tick
  <2>2. \A n \in 0..batch_timeout : Later(n) \in 0..batch_timeout
    BY <1>0 DEF Later
  <2>3. ReaderTyped'
    BY <2>1, <2>2 DEF TypedInv, ReaderTyped
  <2>4. Settled'
    BY <2>1 DEF TypedInv, Settled
  <2> QED
    BY <1>1, <2>1, <2>3, <2>4
<1>15. CASE UNCHANGED vars
  <2>1. ReaderTyped' /\ Settled'
    BY <1>15 DEF TypedInv, ReaderTyped, Settled, vars, reader
  <2> QED
    BY <1>1, <1>15, <2>1 DEF vars
<1> QED
  BY <1>3, <1>4, <1>5, <1>6, <1>7, <1>8, <1>9, <1>10, <1>11, <1>12, <1>13, <1>14, <1>15 DEF Next

\* Types hold and the channels are bounded, for any number of readers.
THEOREM TypeOKAlways == Spec => []TypeOK
<1>1. TypedInv => TypeOK
  BY TypeOKParts DEF TypedInv
<1> QED
  BY <1>1, InitTyped, StepTyped, PTL DEF Spec

-----------------------------------------------------------------------------
(* The lines on their way.                                                 *)

Kinds == {"udp", "tcp"}
Batches == [source : Readers, lines : Lines]

\* A name for \o: the proofs need its laws only (LinesConcat), not what it is.
Cat(s, t) == s \o t

\* What a channel of the embedding program holds of a reader.
Of(q, r) == [i \in DOMAIN q |-> IF q[i].source = r THEN q[i].lines ELSE <<>>]
QueueLines(r) == FlattenSeq(Of(queue[Kind(r)], r))

\* What its parsing task and the channel to it hold.
Inner(r) == IF r \in Udp THEN Cat(parsed[r], FlattenSeq(raw[r])) ELSE <<>>

\* All lines that a reader looked at, the first to be delivered first.
Way(r) == Cat(delivered[r], Cat(QueueLines(r), Cat(Inner(r), Cat(outgoing[r], batch[r]))))

Numbered(n) == [i \in 1..n |-> i]

\* A channel holds lines of its own kind of readers.
Sources == \A kind \in Kinds : \A i \in DOMAIN queue[kind] : Kind(queue[kind][i].source) = kind

OnWay(r) ==
  /\ open[Kind(r)] => Way(r) = Numbered(received[r] - unread[r])
  /\ \A i \in DOMAIN delivered[r] : delivered[r][i] = i

OrderInv == Sources /\ \A r \in Readers : OnWay(r)

\* Lines form a monoid.
LEMMA LinesConcat ==
  /\ <<>> \in Lines
  /\ \A s, t \in Lines : Cat(s, t) \in Lines
  /\ \A s \in Lines : Cat(s, <<>>) = s /\ Cat(<<>>, s) = s
  /\ \A s, t, u \in Lines : Cat(Cat(s, t), u) = Cat(s, Cat(t, u))
<1> DEFINE N == Nat \ {0}
<1>1. Lines = Seq(N)
  BY DEF Lines
<1> HIDE DEF N
<1>2. <<>> \in Seq(N)
  OBVIOUS
<1>3. \A s, t \in Seq(N) : Cat(s, t) \in Seq(N)
  BY ConcatProperties DEF Cat
<1>4. \A s \in Seq(N) : Cat(s, <<>>) = s /\ Cat(<<>>, s) = s
  BY ConcatEmptySeq DEF Cat
<1>5. \A s, t, u \in Seq(N) : Cat(Cat(s, t), u) = Cat(s, Cat(t, u))
  BY ConcatAssociative DEF Cat
<1> QED
  BY <1>1, <1>2, <1>3, <1>4, <1>5

LEMMA LinesFlatten ==
  /\ \A s \in Seq(Lines) : FlattenSeq(s) \in Lines
  /\ \A s \in Seq(Lines), x \in Lines : FlattenSeq(Append(s, x)) = Cat(FlattenSeq(s), x)
  /\ \A s, t \in Seq(Lines) : FlattenSeq(s \o t) = Cat(FlattenSeq(s), FlattenSeq(t))
  /\ \A x \in Lines : FlattenSeq(<<x>>) = x
  /\ \A s \in Seq(Lines) : s # <<>> => FlattenSeq(s) = Cat(Head(s), FlattenSeq(Tail(s)))
  /\ FlattenSeq(<<>>) = <<>>
<1> DEFINE N == Nat \ {0}
<1>1. Lines = Seq(N)
  BY DEF Lines
<1> HIDE DEF N
<1>2. \A s \in Seq(Seq(N)), x \in Seq(N) :
        FlattenSeq(Append(s, x)) = FlattenSeq(s) \o x /\ FlattenSeq(s) \in Seq(N)
  BY FlattenAppend
<1>3. \A s, t \in Seq(Seq(N)) : FlattenSeq(s \o t) = FlattenSeq(s) \o FlattenSeq(t)
  BY FlattenConcat
<1>4. \A x \in Seq(N) : FlattenSeq(<<x>>) = x
  BY FlattenFirst
<1>5. ASSUME NEW s \in Seq(Seq(N)), s # <<>>
      PROVE  FlattenSeq(s) = Head(s) \o FlattenSeq(Tail(s))
  <2> DEFINE M == Seq(N)
  <2>1. Head(s) \in Seq(N) /\ Tail(s) \in Seq(Seq(N))
    BY <1>5, HeadTailProperties
  <2>2. s = <<Head(s)>> \o Tail(s)
    <3> HIDE DEF M
    <3>1. s \in Seq(M)
      BY DEF M
    <3> QED
      BY <1>5, <3>1
  <2> QED
    BY <2>1, <2>2, FlattenFirst
<1>6. <<>> \in Seq(N) /\ FlattenSeq(<<>>) = <<>>
  BY DEF FlattenSeq
<1> QED
  BY <1>1, <1>2, <1>3, <1>4, <1>5, <1>6 DEF Cat

\* The parts of a reader's way.
LEMMA WayTyped ==
  ASSUME TypedInv, NEW r \in Readers
  PROVE  /\ Kind(r) \in Kinds /\ queue[Kind(r)] \in Seq(Batches)
         /\ Of(queue[Kind(r)], r) \in Seq(Lines)
         /\ delivered[r] \in Lines /\ QueueLines(r) \in Lines /\ Inner(r) \in Lines
         /\ outgoing[r] \in Lines /\ batch[r] \in Lines /\ Way(r) \in Lines
         /\ r \in Udp => parsed[r] \in Lines /\ raw[r] \in Seq(Lines)
<1>1. Kind(r) \in Kinds
  BY DEF Kind, Kinds
<1>2. queue[Kind(r)] \in Seq(Batches)
  BY <1>1 DEF TypedInv, SinkTyped, Kinds, Batches
<1>3. Of(queue[Kind(r)], r) \in Seq(Lines)
  <2> DEFINE q == queue[Kind(r)]
  <2>1. /\ Len(q) \in Nat /\ DOMAIN q = 1..Len(q) /\ \A i \in 1..Len(q) : q[i].lines \in Lines
    <3>1. \A b \in Batches : b.lines \in Lines
      BY DEF Batches
    <3> HIDE DEF Batches
    <3> QED
      BY <1>2, <3>1
  <2>2. Of(q, r) \in [1..Len(q) -> Lines]
    BY <2>1, LinesConcat DEF Of
  <2> QED
    BY <2>1, <2>2
<1>4. /\ delivered[r] \in Lines /\ outgoing[r] \in Lines /\ batch[r] \in Lines
      /\ r \in Udp => parsed[r] \in Lines /\ raw[r] \in Seq(Lines)
  BY DEF TypedInv, ReaderTyped, ParserTyped, SinkTyped
<1>5. QueueLines(r) \in Lines /\ Inner(r) \in Lines
  BY <1>3, <1>4, LinesFlatten, LinesConcat DEF QueueLines, Inner
<1>6. Way(r) \in Lines
  BY <1>4, <1>5, LinesConcat DEF Way
<1> QED
  BY <1>1, <1>2, <1>3, <1>4, <1>5, <1>6

\* The way is what DeliveredInOrder looks at.
LEMMA WayIsFlight ==
  ASSUME TypedInv, NEW r \in Readers
  PROVE  Way(r) = delivered[r] \o FlattenSeq(InFlight(r)) \o batch[r]
<1> DEFINE d == delivered[r]
           q == QueueLines(r)
           o == outgoing[r]
           b == batch[r]
           inside == IF r \in Udp THEN <<parsed[r]>> \o raw[r] ELSE <<>>
<1>1. /\ d \in Lines /\ q \in Lines /\ Inner(r) \in Lines /\ o \in Lines /\ b \in Lines
      /\ Of(queue[Kind(r)], r) \in Seq(Lines)
      /\ r \in Udp => parsed[r] \in Lines /\ raw[r] \in Seq(Lines)
  BY WayTyped
<1>2. /\ \A x \in Lines : <<x>> \in Seq(Lines)
      /\ \A s, t \in Seq(Lines) : s \o t \in Seq(Lines)
      /\ <<>> \in Seq(Lines)
  <2> HIDE DEF Lines
  <2> QED
    BY ConcatProperties
<1>3. inside \in Seq(Lines) /\ FlattenSeq(inside) = Inner(r)
  <2>1. CASE r \in Udp
    <3>1. FlattenSeq(<<parsed[r]>> \o raw[r]) = Cat(FlattenSeq(<<parsed[r]>>), FlattenSeq(raw[r]))
      BY <1>1, <1>2, <2>1, LinesFlatten
    <3>2. FlattenSeq(<<parsed[r]>>) = parsed[r]
      BY <1>1, <2>1, LinesFlatten
    <3> QED
      BY <1>1, <1>2, <2>1, <3>1, <3>2 DEF Inner
  <2>2. CASE r \notin Udp
    BY <1>2, <2>2, LinesFlatten DEF Inner
  <2> QED
    BY <2>1, <2>2
<1>4. Queued(r) = Of(queue[Kind(r)], r)
  BY DEF Queued, Of
<1>5. InFlight(r) = (Of(queue[Kind(r)], r) \o inside) \o <<o>>
  BY <1>4 DEF InFlight
<1> HIDE DEF inside, d, o, b, q
<1>6. FlattenSeq(InFlight(r)) = Cat(Cat(q, Inner(r)), o)
  <2>1. /\ Of(queue[Kind(r)], r) \o inside \in Seq(Lines)
        /\ FlattenSeq(Of(queue[Kind(r)], r) \o inside) = Cat(q, Inner(r))
    BY <1>1, <1>2, <1>3, LinesFlatten DEF QueueLines, q
  <2>2. FlattenSeq(<<o>>) = o /\ <<o>> \in Seq(Lines)
    BY <1>1, <1>2, LinesFlatten
  <2> QED
    BY <1>5, <2>1, <2>2, LinesFlatten
<1>7. Cat(Cat(d, Cat(Cat(q, Inner(r)), o)), b) = Cat(d, Cat(q, Cat(Inner(r), Cat(o, b))))
  BY <1>1, LinesConcat
<1>8. d \o FlattenSeq(InFlight(r)) \o b = Cat(Cat(d, FlattenSeq(InFlight(r))), b)
  BY DEF Cat
<1> QED
  BY <1>6, <1>7, <1>8 DEF Way, d, o, b, q

\* A batch at the end of a channel.
LEMMA OfAppend ==
  ASSUME NEW q \in Seq(Batches), NEW s \in Readers, NEW lines \in Lines, NEW r \in Readers
  PROVE  FlattenSeq(Of(Append(q, [source |-> s, lines |-> lines]), r))
           = IF s = r THEN Cat(FlattenSeq(Of(q, r)), lines) ELSE FlattenSeq(Of(q, r))
<1> DEFINE b == [source |-> s, lines |-> lines]
           part == IF s = r THEN lines ELSE <<>>
<1>1. b \in Batches /\ b.source = s /\ b.lines = lines
  BY DEF Batches
<1>2. \A c \in Batches : c.lines \in Lines
  BY DEF Batches
<1>3. part \in Lines
  BY LinesConcat
<1> HIDE DEF b, part, Batches
<1>4. /\ Len(q) \in Nat /\ DOMAIN q = 1..Len(q) /\ \A i \in 1..Len(q) : q[i] \in Batches
      /\ Append(q, b) \in Seq(Batches) /\ Len(Append(q, b)) = Len(q) + 1
      /\ \A i \in 1..Len(q) : Append(q, b)[i] = q[i]
      /\ Append(q, b)[Len(q) + 1] = b
  BY <1>1, AppendProperties
<1>5. Of(q, r) \in Seq(Lines) /\ Len(Of(q, r)) = Len(q)
  <2>1. Of(q, r) \in [1..Len(q) -> Lines]
    BY <1>2, <1>4, LinesConcat DEF Of
  <2> QED
    BY <1>4, <2>1
<1>6. Of(Append(q, b), r) = Append(Of(q, r), part)
  <2> DEFINE u == Of(Append(q, b), r)
             v == Append(Of(q, r), part)
             n == Len(q) + 1
  <2>1. DOMAIN Append(q, b) = 1..n
    BY <1>4
  <2>2. u = [i \in 1..n |-> IF Append(q, b)[i].source = r THEN Append(q, b)[i].lines ELSE <<>>]
    BY <2>1 DEF Of
  <2>3. v \in Seq(Lines) /\ Len(v) = n /\ v[n] = part
        /\ \A i \in 1..Len(q) : v[i] = Of(q, r)[i]
    BY <1>3, <1>5, AppendProperties
  <2>4. v = [i \in 1..n |-> v[i]]
    <3>1. v \in [1..n -> Lines]
      BY <2>3, LenProperties
    <3> QED
      BY <3>1
  <2>5. \A i \in 1..Len(q) : Of(q, r)[i] = IF q[i].source = r THEN q[i].lines ELSE <<>>
    BY <1>4 DEF Of
  <2> HIDE DEF u, v
  <2>6. ASSUME NEW i \in 1..n PROVE u[i] = v[i]
    <3>1. CASE i = n
      BY <1>1, <1>4, <2>2, <2>3, <3>1 DEF part
    <3>2. CASE i # n
      <4>1. i \in 1..Len(q)
        BY <1>4, <3>2
      <4> QED
        BY <1>4, <2>2, <2>3, <2>5, <4>1
    <3> QED
      BY <3>1, <3>2
  <2>7. u = v
    BY <2>2, <2>4, <2>6
  <2> QED
    BY <2>7 DEF u, v
<1>7. FlattenSeq(Append(Of(q, r), part)) = Cat(FlattenSeq(Of(q, r)), part)
  BY <1>3, <1>5, LinesFlatten
<1>8. FlattenSeq(Of(q, r)) \in Lines
  BY <1>5, LinesFlatten
<1> QED
  BY <1>6, <1>7, <1>8, LinesConcat DEF b, part

\* The batch at its head.
LEMMA OfHead ==
  ASSUME NEW q \in Seq(Batches), q # <<>>, NEW r \in Readers
  PROVE  FlattenSeq(Of(q, r)) = IF Head(q).source = r
           THEN Cat(Head(q).lines, FlattenSeq(Of(Tail(q), r))) ELSE FlattenSeq(Of(Tail(q), r))
<1> DEFINE part == IF Head(q).source = r THEN Head(q).lines ELSE <<>>
           n == Len(q)
<1>1. \A c \in Batches : c.lines \in Lines
  BY DEF Batches
<1> HIDE DEF Batches
<1>2. /\ n \in Nat \ {0} /\ DOMAIN q = 1..n /\ \A i \in 1..n : q[i] \in Batches
      /\ Head(q) \in Batches /\ Head(q) = q[1]
      /\ Tail(q) \in Seq(Batches) /\ Len(Tail(q)) = n - 1
      /\ \A i \in 1..(n - 1) : Tail(q)[i] = q[i + 1]
  BY HeadTailProperties
<1>3. DOMAIN Tail(q) = 1..(n - 1)
  BY <1>2
<1>4. /\ Of(q, r) = [i \in 1..n |-> IF q[i].source = r THEN q[i].lines ELSE <<>>]
      /\ Of(Tail(q), r) = [i \in 1..(n - 1) |-> IF Tail(q)[i].source = r THEN Tail(q)[i].lines ELSE <<>>]
  BY <1>2, <1>3 DEF Of
<1>5. part \in Lines
  BY <1>1, <1>2, LinesConcat
<1> HIDE DEF n
<1>6. Of(q, r) \in Seq(Lines) /\ Len(Of(q, r)) = n /\ Of(q, r)[1] = part
  <2>1. Of(q, r) \in [1..n -> Lines]
    BY <1>1, <1>2, <1>4, LinesConcat
  <2> QED
    BY <1>2, <1>4, <2>1
<1>7. Of(Tail(q), r) \in Seq(Lines) /\ Len(Of(Tail(q), r)) = n - 1
  <2>1. Of(Tail(q), r) \in [1..(n - 1) -> Lines]
    BY <1>1, <1>2, <1>4, LinesConcat
  <2> QED
    BY <1>2, <2>1
<1>8. Of(q, r) # <<>> /\ Head(Of(q, r)) = part
  BY <1>2, <1>6
<1>9. Tail(Of(q, r)) = Of(Tail(q), r)
  <2>1. /\ Tail(Of(q, r)) \in Seq(Lines) /\ Len(Tail(Of(q, r))) = n - 1
        /\ \A i \in 1..(n - 1) : Tail(Of(q, r))[i] = Of(q, r)[i + 1]
    <3> HIDE DEF Lines
    <3> QED
      BY <1>6, <1>8, HeadTailProperties
  <2>2. ASSUME NEW i \in 1..(n - 1) PROVE Tail(Of(q, r))[i] = Of(Tail(q), r)[i]
    <3>1. i + 1 \in 1..n
      BY <1>2
    <3> QED
      BY <1>2, <1>4, <2>1, <3>1
  <2> HIDE DEF Lines
  <2> QED
    BY <1>7, <2>1, <2>2, SeqEqual
<1>10. FlattenSeq(Of(q, r)) = Cat(part, FlattenSeq(Of(Tail(q), r)))
  BY <1>6, <1>8, <1>9, LinesFlatten
<1>11. FlattenSeq(Of(Tail(q), r)) \in Lines
  BY <1>7, LinesFlatten
<1> QED
  BY <1>10, <1>11, LinesConcat DEF part

\* Lines in a row, from the first.
LEMMA NumberedLines ==
  /\ \A n \in Nat : Numbered(n) \in Lines /\ Cat(Numbered(n), <<n + 1>>) = Numbered(n + 1)
  /\ \A s, t \in Lines, n \in Nat :
       Cat(s, t) = Numbered(n) => \A i \in DOMAIN s : s[i] = i
<1>1. ASSUME NEW n \in Nat
      PROVE  Numbered(n) \in Lines /\ Cat(Numbered(n), <<n + 1>>) = Numbered(n + 1)
  <2>1. Numbered(n) \in Lines /\ Len(Numbered(n)) = n /\ <<n + 1>> \in Lines
    BY DEF Numbered, Lines
  <2>2. Numbered(n + 1) \in Lines /\ Len(Numbered(n + 1)) = n + 1
    BY DEF Numbered, Lines
  <2>3. /\ Cat(Numbered(n), <<n + 1>>) \in Lines
        /\ Len(Cat(Numbered(n), <<n + 1>>)) = n + 1
        /\ \A i \in 1..(n + 1) : Cat(Numbered(n), <<n + 1>>)[i] = i
    BY <2>1 DEF Numbered, Lines, Cat
  <2>4. \A i \in 1..(n + 1) : Numbered(n + 1)[i] = i
    BY DEF Numbered
  <2> HIDE DEF Lines
  <2>5. Cat(Numbered(n), <<n + 1>>) = Numbered(n + 1)
    <3> DEFINE u == Cat(Numbered(n), <<n + 1>>)
               v == Numbered(n + 1)
    <3>1. u \in Seq(Nat \ {0}) /\ v \in Seq(Nat \ {0})
      BY <2>2, <2>3 DEF Lines
    <3> HIDE DEF u, v
    <3>2. Len(u) = Len(v) /\ \A i \in 1..Len(u) : u[i] = v[i]
      BY <2>2, <2>3, <2>4 DEF u, v
    <3>3. u = v
      BY <3>1, <3>2, SeqEqual
    <3> QED
      BY <3>3 DEF u, v
  <2> QED
    BY <2>1, <2>5
<1>2. ASSUME NEW s \in Lines, NEW t \in Lines, NEW n \in Nat, Cat(s, t) = Numbered(n),
             NEW i \in DOMAIN s
      PROVE  s[i] = i
  <2>1. i \in 1..Len(s) /\ i \in 1..Len(s \o t) /\ (s \o t)[i] = s[i]
    BY <1>2 DEF Lines
  <2>2. Len(Numbered(n)) = n /\ \A j \in 1..n : Numbered(n)[j] = j
    BY DEF Numbered
  <2> QED
    BY <1>2, <2>1, <2>2 DEF Cat
<1> QED
  BY <1>1, <1>2

\* A reader whose lines only change places.
LEMMA WayKept ==
  ASSUME NEW r \in Readers, OnWay(r), delivered'[r] = delivered[r],
         open'[Kind(r)] => /\ open[Kind(r)] /\ Way(r)' = Way(r)
                           /\ received'[r] - unread'[r] = received[r] - unread[r]
  PROVE  OnWay(r)'
  BY DEF OnWay, Kind

\* A reader that a step of another does not concern.
LEMMA OtherKept ==
  ASSUME NEW r \in Readers, OnWay(r), delivered'[r] = delivered[r],
         open'[Kind(r)] => open[Kind(r)],
         QueueLines(r)' = QueueLines(r), Inner(r)' = Inner(r),
         outgoing'[r] = outgoing[r], batch'[r] = batch[r],
         received'[r] = received[r], unread'[r] = unread[r]
  PROVE  OnWay(r)'
<1>1. Way(r)' = Way(r)
  BY DEF Way
<1> QED
  BY <1>1, WayKept

LEMMA LastOnWay ==
  ASSUME NEW d \in Lines, NEW q \in Lines, NEW n \in Lines, NEW m \in Lines, NEW x \in Lines
  PROVE  Cat(d, Cat(q, Cat(n, Cat(m, x)))) = Cat(Cat(d, Cat(q, Cat(n, m))), x)
<1>1. Cat(n, m) \in Lines /\ Cat(n, Cat(m, x)) = Cat(Cat(n, m), x)
  BY LinesConcat
<1>2. Cat(q, Cat(n, m)) \in Lines /\ Cat(q, Cat(Cat(n, m), x)) = Cat(Cat(q, Cat(n, m)), x)
  BY <1>1, LinesConcat
<1>3. Cat(d, Cat(Cat(q, Cat(n, m)), x)) = Cat(Cat(d, Cat(q, Cat(n, m))), x)
  BY <1>2, LinesConcat
<1> QED
  BY <1>1, <1>2, <1>3

\* A line joins the batch: it is the next on the way.
LEMMA AddLineWay ==
  ASSUME TypedInv, NEW r \in Readers, OnWay(r), outgoing[r] = <<>>, NEW due, NEW rest,
         AddLine(r, received[r] - unread[r] + 1, due, rest),
         received'[r] - unread'[r] = received[r] - unread[r] + 1,
         unread[r] <= received[r],
         UNCHANGED <<parser, sink>>
  PROVE  /\ OnWay(r)'
         /\ \A q \in Readers \ {r} : batch'[q] = batch[q] /\ outgoing'[q] = outgoing[q]
<1> DEFINE n == received[r] - unread[r]
           lines == Append(batch[r], n + 1)
<1>1. n \in Nat /\ batch \in [Readers -> Lines] /\ outgoing \in [Readers -> Lines]
  BY DEF TypedInv, ReaderTyped
<1>2. \/ outgoing' = [outgoing EXCEPT ![r] = lines] /\ batch' = [batch EXCEPT ![r] = <<>>]
      \/ outgoing' = outgoing /\ batch' = [batch EXCEPT ![r] = lines]
  BY DEF AddLine, Set
<1>3. lines = Cat(batch[r], <<n + 1>>) /\ <<n + 1>> \in Lines /\ lines \in Lines
  BY <1>1 DEF Cat, Lines
<1> HIDE DEF n, lines
<1>4. Cat(outgoing'[r], batch'[r]) = Cat(Cat(outgoing[r], batch[r]), <<n + 1>>)
  <2>1. batch[r] \in Lines
    BY <1>1
  <2>2. Cat(lines, <<>>) = lines /\ Cat(<<>>, lines) = lines /\ Cat(<<>>, batch[r]) = batch[r]
    BY <1>3, <2>1, LinesConcat
  <2>3. Cat(outgoing'[r], batch'[r]) = lines
    BY <1>1, <1>2, <2>2
  <2> QED
    BY <1>3, <2>2, <2>3
<1>5. QueueLines(r)' = QueueLines(r) /\ Inner(r)' = Inner(r) /\ delivered' = delivered /\ open' = open
  BY DEF QueueLines, Of, Inner, parser, sink, Kind
<1>6. Way(r)' = Cat(Way(r), <<n + 1>>)
  <2>1. Way(r)' = Cat(delivered[r], Cat(QueueLines(r), Cat(Inner(r),
                    Cat(Cat(outgoing[r], batch[r]), <<n + 1>>))))
    BY <1>4, <1>5 DEF Way
  <2>2. /\ delivered[r] \in Lines /\ QueueLines(r) \in Lines /\ Inner(r) \in Lines
        /\ outgoing[r] \in Lines /\ batch[r] \in Lines
    BY WayTyped
  <2>3. Cat(outgoing[r], batch[r]) \in Lines
    BY <2>2, LinesConcat
  <2> DEFINE x == <<n + 1>>
  <2>4. Way(r)' = Cat(delivered[r], Cat(QueueLines(r), Cat(Inner(r),
                    Cat(Cat(outgoing[r], batch[r]), x)))) /\ x \in Lines
    BY <1>3, <2>1
  <2> HIDE DEF x
  <2>5. Way(r) = Cat(delivered[r], Cat(QueueLines(r), Cat(Inner(r), Cat(outgoing[r], batch[r]))))
    BY DEF Way
  <2> DEFINE d == delivered[r]
             q == QueueLines(r)
             i == Inner(r)
             m == Cat(outgoing[r], batch[r])
  <2>6. d \in Lines /\ q \in Lines /\ i \in Lines /\ m \in Lines
    BY <2>2, <2>3
  <2> HIDE DEF d, q, i, m
  <2>7. Cat(d, Cat(q, Cat(i, Cat(m, x)))) = Cat(Cat(d, Cat(q, Cat(i, m))), x)
    BY <2>4, <2>6, LastOnWay
  <2>8. Way(r)' = Cat(Way(r), x)
    BY <2>4, <2>5, <2>7 DEF d, q, i, m
  <2> QED
    BY <2>8 DEF x
<1>7. OnWay(r)'
  BY <1>1, <1>5, <1>6, NumberedLines DEF OnWay, Kind, n
<1> QED
  BY <1>1, <1>2, <1>7

\* A batch is put on the channel of its kind of readers.
LEMMA EnqueueWay ==
  ASSUME TypedInv, Sources, NEW r \in Readers, NEW lines \in Lines,
         Enqueue(Kind(r), r, lines)
  PROVE  /\ Sources' /\ QueueLines(r)' = Cat(QueueLines(r), lines)
         /\ \A q \in Readers \ {r} : QueueLines(q)' = QueueLines(q)
         /\ UNCHANGED <<open, delivered>>
<1> DEFINE b == [source |-> r, lines |-> lines]
<1>1. /\ queue' = [queue EXCEPT ![Kind(r)] = Append(queue[Kind(r)], b)]
      /\ UNCHANGED <<open, delivered>>
  BY DEF Enqueue
<1>2. queue \in [Kinds -> Seq(Batches)] /\ Kind(r) \in Kinds
  BY DEF TypedInv, SinkTyped, Kinds, Batches, Kind
<1>3. \A q \in Readers : Kind(q) \in Kinds /\ Kind(q)' = Kind(q)
  BY DEF Kind, Kinds
<1>4. ASSUME NEW q \in Readers
      PROVE  QueueLines(q)' = IF r = q THEN Cat(QueueLines(q), lines) ELSE QueueLines(q)
  <2>1. CASE Kind(q) = Kind(r)
    <3>1. queue'[Kind(q)] = Append(queue[Kind(q)], b) /\ queue[Kind(q)] \in Seq(Batches)
      BY <1>1, <1>2, <2>1
    <3>2. QueueLines(q)' = FlattenSeq(Of(Append(queue[Kind(q)], b), q))
      BY <1>3, <3>1 DEF QueueLines, Of
    <3> QED
      BY <3>1, <3>2, OfAppend DEF QueueLines
  <2>2. CASE Kind(q) # Kind(r)
    <3>1. queue'[Kind(q)] = queue[Kind(q)]
      BY <1>1, <1>2, <1>3, <2>2
    <3> QED
      BY <1>3, <2>2, <3>1 DEF QueueLines, Of
  <2> QED
    BY <2>1, <2>2
<1>5. Sources'
  <2> SUFFICES ASSUME NEW kind \in Kinds, NEW i \in DOMAIN queue'[kind]
               PROVE  Kind(queue'[kind][i].source) = kind
    BY DEF Sources, Kind
  <2>1. CASE kind = Kind(r)
    <3> DEFINE k == Kind(r)
    <3>1. b \in Batches /\ b.source = r
      BY DEF Batches
    <3> HIDE DEF b, Batches, k
    <3>2. queue[k] \in Seq(Batches) /\ queue'[k] = Append(queue[k], b)
      BY <1>1, <1>2 DEF k
    <3>3. /\ Len(queue[k]) \in Nat /\ DOMAIN queue[k] = 1..Len(queue[k])
          /\ DOMAIN queue'[k] = 1..(Len(queue[k]) + 1)
          /\ \A j \in 1..Len(queue[k]) : queue'[k][j] = queue[k][j]
          /\ queue'[k][Len(queue[k]) + 1] = b
      BY <3>1, <3>2, AppendProperties
    <3>4. i \in DOMAIN queue[k] \/ queue'[k][i] = b
      BY <2>1, <3>3 DEF k
    <3> QED
      BY <1>2, <2>1, <3>1, <3>3, <3>4 DEF Sources, k
  <2>2. CASE kind # Kind(r)
    BY <1>1, <1>2, <2>2 DEF Sources
  <2> QED
    BY <2>1, <2>2
<1> QED
  BY <1>1, <1>4, <1>5

LEMMA InitOrder == Init => OrderInv
<1> SUFFICES ASSUME Init PROVE OrderInv
  OBVIOUS
<1>1. \A kind \in Kinds : queue[kind] = <<>>
  BY DEF Init, Kinds
<1>2. Sources
  BY <1>1 DEF Sources
<1>3. ASSUME NEW r \in Readers PROVE OnWay(r)
  <2>1. /\ delivered[r] = <<>> /\ outgoing[r] = <<>> /\ batch[r] = <<>>
        /\ received[r] = 0 /\ unread[r] = 0
        /\ r \in Udp => parsed[r] = <<>> /\ raw[r] = <<>>
    BY <1>3 DEF Init
  <2>2. QueueLines(r) = <<>>
    <3>1. queue[Kind(r)] = <<>>
      BY <1>1 DEF Kind, Kinds
    <3>2. Of(<<>>, r) = <<>>
      BY DEF Of
    <3> QED
      BY <3>1, <3>2, LinesFlatten DEF QueueLines
  <2>3. Inner(r) = <<>>
    BY <2>1, LinesFlatten, LinesConcat DEF Inner
  <2>4. Way(r) = <<>>
    BY <2>1, <2>2, <2>3, LinesConcat DEF Way
  <2>5. Numbered(received[r] - unread[r]) = <<>>
    BY <2>1 DEF Numbered
  <2> QED
    BY <2>1, <2>4, <2>5 DEF OnWay
<1> QED
  BY <1>2, <1>3 DEF OrderInv

\* A reader that has nothing to send may take its batch, and one that sends may
\* hand it on: the lines stay in their order.
LEMMA PartsMove ==
  ASSUME NEW d \in Lines, NEW q \in Lines, NEW n \in Lines, NEW o \in Lines, NEW b \in Lines
  PROVE  /\ Cat(b, <<>>) = Cat(<<>>, b)
         /\ Cat(n, Cat(o, b)) = Cat(Cat(n, o), Cat(<<>>, b))
         /\ Cat(<<>>, Cat(o, b)) = Cat(o, b)
         /\ Cat(q, Cat(n, Cat(o, b))) = Cat(Cat(q, n), Cat(o, b))
         /\ Cat(q, Cat(<<>>, Cat(o, b))) = Cat(Cat(q, o), Cat(<<>>, Cat(<<>>, b)))
         /\ Cat(d, Cat(Cat(q, n), Cat(o, b))) = Cat(Cat(d, q), Cat(n, Cat(o, b)))
<1>1. Cat(o, b) \in Lines /\ Cat(<<>>, b) = b /\ Cat(b, <<>>) = b
  BY LinesConcat
<1>2. Cat(n, Cat(o, b)) = Cat(Cat(n, o), b)
  BY LinesConcat
<1>3. Cat(<<>>, Cat(o, b)) = Cat(o, b) /\ Cat(q, Cat(o, b)) = Cat(Cat(q, o), b)
  BY <1>1, LinesConcat
<1>4. Cat(q, Cat(n, Cat(o, b))) = Cat(Cat(q, n), Cat(o, b))
  BY <1>1, LinesConcat
<1>5. Cat(d, Cat(Cat(q, n), Cat(o, b))) = Cat(Cat(d, q), Cat(n, Cat(o, b)))
  <2>1. Cat(Cat(q, n), Cat(o, b)) = Cat(q, Cat(n, Cat(o, b))) /\ Cat(n, Cat(o, b)) \in Lines
    BY <1>1, <1>4, LinesConcat
  <2>2. Cat(d, Cat(q, Cat(n, Cat(o, b)))) = Cat(Cat(d, q), Cat(n, Cat(o, b)))
    BY <2>1, LinesConcat
  <2> QED
    BY <2>1, <2>2
<1> QED
  BY <1>1, <1>2, <1>3, <1>4, <1>5

\* A reader takes its batch to send it.
LEMMA TakeBatchWay ==
  ASSUME TypedInv, NEW r \in Readers, OnWay(r), outgoing[r] = <<>>,
         outgoing' = [outgoing EXCEPT ![r] = batch[r]], batch' = [batch EXCEPT ![r] = <<>>],
         UNCHANGED <<received, unread, parser, sink>>
  PROVE  OnWay(r)'
<1>1. /\ outgoing'[r] = batch[r] /\ batch'[r] = <<>>
  BY DEF TypedInv, ReaderTyped
<1>2. /\ delivered[r] \in Lines /\ QueueLines(r) \in Lines /\ Inner(r) \in Lines
      /\ outgoing[r] \in Lines /\ batch[r] \in Lines
  BY WayTyped
<1>3. Cat(outgoing'[r], batch'[r]) = Cat(outgoing[r], batch[r])
  BY <1>1, <1>2, PartsMove
<1>4. QueueLines(r)' = QueueLines(r) /\ Inner(r)' = Inner(r) /\ delivered' = delivered /\ open' = open
  BY DEF QueueLines, Of, Inner, parser, sink, Kind
<1>5. Way(r)' = Way(r)
  BY <1>3, <1>4 DEF Way
<1> QED
  BY <1>4, <1>5, WayKept

\* A step within the readers concerns only the reader that takes it.
LEMMA ReadersApart ==
  ASSUME OrderInv, NEW r \in Readers, OnWay(r)', UNCHANGED <<parser, sink>>,
         \A q \in Readers \ {r} :
           /\ outgoing'[q] = outgoing[q] /\ batch'[q] = batch[q]
           /\ received'[q] = received[q] /\ unread'[q] = unread[q]
  PROVE  OrderInv'
<1>1. Sources'
  BY DEF OrderInv, Sources, sink, Kind
<1>2. ASSUME NEW q \in Readers PROVE OnWay(q)'
  <2>1. CASE q = r
    BY <2>1
  <2>2. CASE q # r
    <3>1. /\ QueueLines(q)' = QueueLines(q) /\ Inner(q)' = Inner(q)
          /\ delivered' = delivered /\ open' = open
      BY DEF QueueLines, Of, Inner, parser, sink, Kind
    <3> QED
      BY <2>2, <3>1, OtherKept DEF OrderInv
  <2> QED
    BY <2>1, <2>2
<1> QED
  BY <1>1, <1>2 DEF OrderInv

\* The steps that stay within a reader.
LEMMA ReadersOrder ==
  ASSUME TypedInv, OrderInv, NEW r \in Readers
  PROVE  /\ r \in Udp => \A n \in 0..MaxLines : RecvDatagram(r, n) => OrderInv'
         /\ r \in Udp /\ PushLine(r) => OrderInv'
         /\ r \in Udp /\ Timeout(r) => OrderInv'
         /\ r \in Tcp /\ NextLine(r) => OrderInv'
         /\ r \in Tcp /\ Eof(r) => OrderInv'
<1>1. /\ received \in [Readers -> Nat] /\ unread \in [Readers -> Nat] /\ OnWay(r)
      /\ unread[r] <= received[r]
      /\ pc[r] \in {"read", "lines"} => outgoing[r] = <<>>
      /\ pc[r] = "read" => unread[r] = 0
      /\ outgoing \in [Readers -> Lines] /\ batch \in [Readers -> Lines]
  BY DEF TypedInv, ReaderTyped, Settled, OrderInv
<1>2. ASSUME r \in Udp, NEW n \in 0..MaxLines, RecvDatagram(r, n) PROVE OrderInv'
  <2>1. /\ received' = [received EXCEPT ![r] = received[r] + n]
        /\ unread' = [unread EXCEPT ![r] = n] /\ unread[r] = 0
        /\ UNCHANGED <<batch, outgoing, parser, sink>>
    BY <1>1, <1>2 DEF RecvDatagram, Set
  <2>2. received'[r] - unread'[r] = received[r] - unread[r]
    <3>1. n \in Nat
      BY SocketsAssumption
    <3> QED
      BY <1>1, <2>1, <3>1
  <2>3. QueueLines(r)' = QueueLines(r) /\ Inner(r)' = Inner(r) /\ delivered' = delivered /\ open' = open
    BY <2>1 DEF QueueLines, Of, Inner, parser, sink, Kind
  <2>4. Way(r)' = Way(r)
    BY <2>1, <2>3 DEF Way
  <2>5. OnWay(r)'
    BY <1>1, <2>2, <2>3, <2>4, WayKept
  <2> QED
    BY <1>1, <2>1, <2>5, ReadersApart
<1>3. ASSUME r \in Udp, PushLine(r) PROVE OrderInv'
  <2>1. /\ AddLine(r, received[r] - unread[r] + 1, FALSE, unread[r] - 1)
        /\ unread' = [unread EXCEPT ![r] = unread[r] - 1] /\ outgoing[r] = <<>>
        /\ UNCHANGED <<received, parser, sink>>
    BY <1>1, <1>3 DEF PushLine, Set
  <2>2. received'[r] - unread'[r] = received[r] - unread[r] + 1
    BY <1>1, <2>1
  <2>3. OnWay(r)' /\ \A q \in Readers \ {r} : batch'[q] = batch[q] /\ outgoing'[q] = outgoing[q]
    BY <1>1, <2>1, <2>2, AddLineWay
  <2> QED
    BY <1>1, <2>1, <2>3, ReadersApart
<1>4. ASSUME r \in Udp, Timeout(r) PROVE OrderInv'
  <2>1. /\ \/ /\ outgoing' = [outgoing EXCEPT ![r] = batch[r]]
              /\ batch' = [batch EXCEPT ![r] = <<>>]
           \/ UNCHANGED <<batch, outgoing>>
        /\ outgoing[r] = <<>>
        /\ UNCHANGED <<received, unread, parser, sink>>
    BY <1>1, <1>4 DEF Timeout, Set
  <2>2. CASE UNCHANGED <<batch, outgoing>>
    <3>1. QueueLines(r)' = QueueLines(r) /\ Inner(r)' = Inner(r) /\ delivered' = delivered /\ open' = open
      BY <2>1 DEF QueueLines, Of, Inner, parser, sink, Kind
    <3>2. OnWay(r)'
      BY <1>1, <2>1, <2>2, <3>1, OtherKept
    <3> QED
      BY <2>1, <2>2, <3>2, ReadersApart
  <2>3. CASE outgoing' = [outgoing EXCEPT ![r] = batch[r]] /\ batch' = [batch EXCEPT ![r] = <<>>]
    <3>1. OnWay(r)'
      BY <1>1, <2>1, <2>3, TakeBatchWay
    <3> QED
      BY <1>1, <2>1, <2>3, <3>1, ReadersApart
  <2> QED
    BY <2>1, <2>2, <2>3
<1>5. ASSUME r \in Tcp, NextLine(r) PROVE OrderInv'
  <2>1. /\ AddLine(r, received[r] + 1, elapsed[r] >= batch_timeout, 0)
        /\ received' = [received EXCEPT ![r] = received[r] + 1]
        /\ unread[r] = 0 /\ outgoing[r] = <<>>
        /\ UNCHANGED <<unread, parser, sink>>
    BY <1>1, <1>5 DEF NextLine, Set
  <2>2. /\ received'[r] - unread'[r] = received[r] - unread[r] + 1
        /\ received[r] + 1 = received[r] - unread[r] + 1
    BY <1>1, <2>1
  <2>3. AddLine(r, received[r] - unread[r] + 1, elapsed[r] >= batch_timeout, 0)
    BY <2>1, <2>2
  <2> DEFINE due == elapsed[r] >= batch_timeout
  <2>5. AddLine(r, received[r] - unread[r] + 1, due, 0)
    BY <2>3
  <2> HIDE DEF due
  <2>4. OnWay(r)' /\ \A q \in Readers \ {r} : batch'[q] = batch[q] /\ outgoing'[q] = outgoing[q]
    BY <1>1, <2>1, <2>2, <2>5, AddLineWay
  <2> QED
    BY <1>1, <2>1, <2>4, ReadersApart
<1>6. ASSUME r \in Tcp, Eof(r) PROVE OrderInv'
  <2>1. /\ outgoing' = [outgoing EXCEPT ![r] = batch[r]]
        /\ batch' = [batch EXCEPT ![r] = <<>>] /\ outgoing[r] = <<>>
        /\ UNCHANGED <<received, unread, parser, sink>>
    BY <1>1, <1>6 DEF Eof, Set
  <2>2. OnWay(r)'
    BY <1>1, <2>1, TakeBatchWay
  <2> QED
    BY <1>1, <2>1, <2>2, ReadersApart
<1> QED
  BY <1>2, <1>3, <1>4, <1>5, <1>6

\* The steps within a UDP worker, between its tasks and out of it.
LEMMA WorkerOrder ==
  ASSUME TypedInv, OrderInv, NEW r \in Udp
  PROVE  /\ SendRaw(r) => OrderInv'
         /\ TakeRaw(r) => OrderInv'
         /\ ForwardParsed(r) => OrderInv'
<1>0. /\ r \in Readers /\ Kind(r) = "udp" /\ OnWay(r) /\ \A q \in Readers : OnWay(q)
      /\ outgoing \in [Readers -> Lines] /\ raw \in [Udp -> Seq(Lines)]
      /\ parsed \in [Udp -> Lines] /\ <<>> \in Lines
  BY LinesConcat DEF Readers, Kind, OrderInv, TypedInv, ReaderTyped, ParserTyped
<1>1. /\ delivered[r] \in Lines /\ QueueLines(r) \in Lines /\ Inner(r) \in Lines
      /\ outgoing[r] \in Lines /\ batch[r] \in Lines
      /\ parsed[r] \in Lines /\ raw[r] \in Seq(Lines) /\ FlattenSeq(raw[r]) \in Lines
  BY <1>0, WayTyped, LinesFlatten
<1>2. Inner(r) = Cat(parsed[r], FlattenSeq(raw[r]))
      /\ Inner(r)' = Cat(parsed'[r], FlattenSeq(raw'[r]))
  BY DEF Inner
<1>3. ASSUME SendRaw(r) PROVE OrderInv'
  <2>1. /\ outgoing' = [outgoing EXCEPT ![r] = <<>>]
        /\ UNCHANGED <<received, unread, batch, parsed, alive, sink>>
        /\ \/ raw' = [raw EXCEPT ![r] = Append(raw[r], outgoing[r])]
           \/ ~alive[r] /\ raw' = raw
    BY <1>3 DEF SendRaw, Sent, Stop, Set
  <2>2. \A q \in Readers : QueueLines(q)' = QueueLines(q) /\ delivered' = delivered /\ open' = open
    BY <2>1 DEF QueueLines, Of, sink, Kind
  <2>3. Sources'
    BY <2>1 DEF OrderInv, Sources, sink, Kind
  <2>4. OnWay(r)'
    <3>1. CASE raw' = [raw EXCEPT ![r] = Append(raw[r], outgoing[r])]
      <4>1. FlattenSeq(raw'[r]) = Cat(FlattenSeq(raw[r]), outgoing[r])
        <5>1. raw'[r] = Append(raw[r], outgoing[r])
          BY <1>0, <3>1
        <5> QED
          BY <1>1, <5>1, LinesFlatten
      <4>2. Inner(r)' = Cat(Inner(r), outgoing[r])
        <5> DEFINE p == parsed[r]
                   f == FlattenSeq(raw[r])
                   o == outgoing[r]
        <5>1. p \in Lines /\ f \in Lines /\ o \in Lines
          BY <1>1
        <5> HIDE DEF p, f, o
        <5>2. Cat(p, Cat(f, o)) = Cat(Cat(p, f), o)
          BY <5>1, LinesConcat
        <5> QED
          BY <1>2, <2>1, <4>1, <5>2 DEF p, f, o
      <4>3. Cat(Inner(r)', Cat(outgoing'[r], batch'[r])) = Cat(Inner(r), Cat(outgoing[r], batch[r]))
        <5> DEFINE n == Inner(r)
                   o == outgoing[r]
                   b == batch[r]
        <5>1. n \in Lines /\ o \in Lines /\ b \in Lines
          BY <1>1
        <5>2. outgoing'[r] = <<>> /\ batch'[r] = b
          BY <1>0, <2>1
        <5> HIDE DEF n, o, b
        <5>3. Cat(n, Cat(o, b)) = Cat(Cat(n, o), Cat(<<>>, b))
          BY <5>1, PartsMove
        <5> QED
          BY <4>2, <5>2, <5>3 DEF n, o, b
      <4>4. Way(r)' = Way(r)
        BY <2>2, <4>3, <1>0 DEF Way
      <4> QED
        BY <1>0, <2>1, <2>2, <4>4, WayKept
    <3>2. CASE ~alive[r]
      <4>1. ~open'[Kind(r)]
        BY <1>0, <2>2, <3>2 DEF TypedInv, Orphans
      <4> QED
        BY <1>0, <2>2, <4>1, WayKept
    <3> QED
      BY <2>1, <3>1, <3>2
  <2>5. ASSUME NEW q \in Readers \ {r} PROVE OnWay(q)'
    <3>1. Inner(q)' = Inner(q) /\ outgoing'[q] = outgoing[q]
      BY <1>0, <2>1 DEF Inner
    <3> QED
      BY <1>0, <2>1, <2>2, <3>1, OtherKept
  <2> QED
    BY <2>3, <2>4, <2>5 DEF OrderInv
<1>4. ASSUME TakeRaw(r) PROVE OrderInv'
  <2>1. /\ parsed' = [parsed EXCEPT ![r] = Head(raw[r])]
        /\ raw' = [raw EXCEPT ![r] = Tail(raw[r])]
        /\ parsed[r] = <<>> /\ raw[r] # <<>>
        /\ UNCHANGED <<alive, reader, sink>>
    BY <1>4 DEF TakeRaw, Set
  <2>2. \A q \in Readers : QueueLines(q)' = QueueLines(q) /\ delivered' = delivered /\ open' = open
    BY <2>1 DEF QueueLines, Of, sink, Kind
  <2>3. Sources'
    BY <2>1 DEF OrderInv, Sources, sink, Kind
  <2>4. Inner(r)' = Inner(r)
    <3>1. parsed'[r] = Head(raw[r]) /\ raw'[r] = Tail(raw[r])
      BY <1>0, <2>1
    <3>2. FlattenSeq(raw[r]) = Cat(Head(raw[r]), FlattenSeq(Tail(raw[r])))
      BY <1>1, <2>1, LinesFlatten
    <3>3. Cat(parsed[r], FlattenSeq(raw[r])) = FlattenSeq(raw[r])
      BY <1>1, <2>1, LinesConcat
    <3> QED
      BY <1>2, <3>1, <3>2, <3>3
  <2>5. ASSUME NEW q \in Readers PROVE OnWay(q)'
    <3>1. Inner(q)' = Inner(q)
      <4>1. CASE q = r
        BY <2>4, <4>1
      <4>2. CASE q # r
        BY <1>0, <2>1, <4>2 DEF Inner
      <4> QED
        BY <4>1, <4>2
    <3> QED
      BY <1>0, <2>1, <2>2, <3>1, OtherKept DEF reader
  <2> QED
    BY <2>3, <2>5 DEF OrderInv
<1>5. ASSUME ForwardParsed(r) PROVE OrderInv'
  <2>1. /\ parsed' = [parsed EXCEPT ![r] = <<>>] /\ UNCHANGED reader
        /\ \/ Enqueue("udp", r, parsed[r]) /\ UNCHANGED <<raw, alive>>
           \/ /\ ~open["udp"] /\ UNCHANGED sink
              /\ raw' = [raw EXCEPT ![r] = <<>>]
    BY <1>5 DEF ForwardParsed, Set
  <2>2. \A q \in Readers \ {r} : Inner(q)' = Inner(q)
    BY <1>0, <2>1 DEF Inner
  <2>3. CASE Enqueue("udp", r, parsed[r]) /\ UNCHANGED <<raw, alive>>
    <3>1. /\ Sources' /\ QueueLines(r)' = Cat(QueueLines(r), parsed[r])
          /\ \A q \in Readers \ {r} : QueueLines(q)' = QueueLines(q)
          /\ UNCHANGED <<open, delivered>>
      BY <1>0, <1>1, <2>3, EnqueueWay DEF OrderInv
    <3>2. Inner(r)' = FlattenSeq(raw[r])
      <4>1. parsed'[r] = <<>> /\ raw' = raw
        BY <1>0, <2>1, <2>3
      <4> QED
        BY <1>1, <1>2, <4>1, LinesConcat
    <3>3. OnWay(r)'
      <4>1. Cat(QueueLines(r)', Cat(Inner(r)', Cat(outgoing'[r], batch'[r])))
              = Cat(QueueLines(r), Cat(Inner(r), Cat(outgoing[r], batch[r])))
        <5> DEFINE rest == Cat(outgoing[r], batch[r])
                   q == QueueLines(r)
                   p == parsed[r]
                   f == FlattenSeq(raw[r])
        <5>1. rest \in Lines /\ q \in Lines /\ p \in Lines /\ f \in Lines /\ Cat(f, rest) \in Lines
          BY <1>1, LinesConcat
        <5> HIDE DEF rest, q, p, f
        <5>2. Cat(Cat(q, p), Cat(f, rest)) = Cat(q, Cat(Cat(p, f), rest))
          BY <5>1, LinesConcat
        <5> QED
          BY <1>2, <2>1, <3>1, <3>2, <5>2 DEF rest, q, p, f, reader
      <4>2. Way(r)' = Way(r)
        BY <3>1, <4>1 DEF Way
      <4> QED
        BY <1>0, <2>1, <3>1, <4>2, WayKept DEF reader
    <3>4. ASSUME NEW q \in Readers \ {r} PROVE OnWay(q)'
      BY <1>0, <2>1, <2>2, <3>1, OtherKept DEF reader
    <3> QED
      BY <3>1, <3>3, <3>4 DEF OrderInv
  <2>4. CASE ~open["udp"] /\ UNCHANGED sink
    <3>1. Sources'
      BY <2>4 DEF OrderInv, Sources, sink, Kind
    <3>2. \A q \in Readers : QueueLines(q)' = QueueLines(q) /\ delivered' = delivered /\ open' = open
      BY <2>4 DEF QueueLines, Of, sink, Kind
    <3>3. OnWay(r)'
      BY <1>0, <2>4, <3>2, WayKept
    <3>4. ASSUME NEW q \in Readers \ {r} PROVE OnWay(q)'
      BY <1>0, <2>1, <2>2, <3>2, OtherKept DEF reader
    <3> QED
      BY <3>1, <3>3, <3>4 DEF OrderInv
  <2> QED
    BY <2>1, <2>3, <2>4
<1> QED
  BY <1>3, <1>4, <1>5

\* The sends of a TCP connection.
LEMMA ConnectionOrder ==
  ASSUME TypedInv, OrderInv, NEW r \in Tcp, SendTcp(r) \/ SendLast(r)
  PROVE  OrderInv'
<1>0. /\ r \in Readers /\ Kind(r) = "tcp" /\ Inner(r) = <<>> /\ \A q \in Readers : OnWay(q)
      /\ outgoing \in [Readers -> Lines]
  BY SocketsAssumption DEF Readers, Kind, Inner, OrderInv, TypedInv, ReaderTyped
<1>1. /\ delivered[r] \in Lines /\ QueueLines(r) \in Lines
      /\ outgoing[r] \in Lines /\ batch[r] \in Lines
  BY <1>0, WayTyped
<1>2. /\ outgoing' = [outgoing EXCEPT ![r] = <<>>] /\ UNCHANGED <<received, unread, batch, parser>>
      /\ Enqueue("tcp", r, outgoing[r]) \/ (~open["tcp"] /\ UNCHANGED sink)
  BY DEF SendTcp, SendLast, Sent, Stop, Set
<1>3. \A q \in Readers : Inner(q)' = Inner(q)
  BY <1>2 DEF Inner, parser
<1>4. CASE Enqueue("tcp", r, outgoing[r])
  <2>1. /\ Sources' /\ QueueLines(r)' = Cat(QueueLines(r), outgoing[r])
        /\ \A q \in Readers \ {r} : QueueLines(q)' = QueueLines(q)
        /\ UNCHANGED <<open, delivered>>
    BY <1>0, <1>1, <1>4, EnqueueWay DEF OrderInv
  <2>2. OnWay(r)'
    <3>1. Cat(QueueLines(r)', Cat(Inner(r)', Cat(outgoing'[r], batch'[r])))
            = Cat(QueueLines(r), Cat(Inner(r), Cat(outgoing[r], batch[r])))
      <4> DEFINE q == QueueLines(r)
                 o == outgoing[r]
                 b == batch[r]
      <4>1. q \in Lines /\ o \in Lines /\ b \in Lines
        BY <1>1
      <4>2. outgoing'[r] = <<>> /\ batch'[r] = b /\ Inner(r)' = <<>>
        BY <1>0, <1>2, <1>3
      <4> HIDE DEF q, o, b
      <4>3. Cat(q, Cat(<<>>, Cat(o, b))) = Cat(Cat(q, o), Cat(<<>>, Cat(<<>>, b)))
        BY <4>1, PartsMove
      <4> QED
        BY <1>0, <2>1, <4>2, <4>3 DEF q, o, b
    <3>2. Way(r)' = Way(r)
      BY <2>1, <3>1 DEF Way
    <3> QED
      BY <1>0, <1>2, <2>1, <3>2, WayKept
  <2>3. ASSUME NEW q \in Readers \ {r} PROVE OnWay(q)'
    BY <1>0, <1>2, <1>3, <2>1, OtherKept
  <2> QED
    BY <2>1, <2>2, <2>3 DEF OrderInv
<1>5. CASE ~open["tcp"] /\ UNCHANGED sink
  <2>1. Sources'
    BY <1>5 DEF OrderInv, Sources, sink, Kind
  <2>2. \A q \in Readers : QueueLines(q)' = QueueLines(q) /\ delivered' = delivered /\ open' = open
    BY <1>5 DEF QueueLines, Of, sink, Kind
  <2>3. OnWay(r)'
    BY <1>0, <1>5, <2>2, WayKept
  <2>4. ASSUME NEW q \in Readers \ {r} PROVE OnWay(q)'
    BY <1>0, <1>2, <1>3, <2>2, OtherKept
  <2> QED
    BY <2>1, <2>3, <2>4 DEF OrderInv
<1> QED
  BY <1>2, <1>4, <1>5

\* The program receives a batch, or drops its receiver.
LEMMA SinkOrder ==
  ASSUME TypedInv, OrderInv, NEW kind \in Kinds, Consume(kind) \/ DropReceiver(kind)
  PROVE  OrderInv'
<1>0. /\ \A r \in Readers : OnWay(r) /\ Kind(r)' = Kind(r) /\ Kind(r) \in Kinds
      /\ queue \in [Kinds -> Seq(Batches)] /\ delivered \in [Readers -> Lines]
      /\ open \in [Kinds -> BOOLEAN]
  BY DEF OrderInv, Kind, Kinds, TypedInv, SinkTyped, Batches
<1>1. UNCHANGED <<reader, parser>>
  BY DEF Consume, DropReceiver
<1>2. \A r \in Readers : /\ Inner(r)' = Inner(r) /\ outgoing' = outgoing /\ batch' = batch
                          /\ received' = received /\ unread' = unread
  BY <1>1 DEF Inner, reader, parser
<1>3. CASE DropReceiver(kind)
  <2>1. /\ open' = [open EXCEPT ![kind] = FALSE] /\ queue' = [queue EXCEPT ![kind] = <<>>]
        /\ delivered' = delivered
    BY <1>3 DEF DropReceiver
  <2>2. Sources'
    <3> SUFFICES ASSUME NEW k \in Kinds, NEW i \in DOMAIN queue'[k]
                 PROVE  Kind(queue'[k][i].source) = k
      BY DEF Sources, Kind
    <3>1. k # kind
      BY <1>0, <2>1
    <3> QED
      BY <1>0, <2>1, <3>1 DEF OrderInv, Sources
  <2>3. ASSUME NEW r \in Readers PROVE OnWay(r)'
    <3>1. CASE Kind(r) = kind
      <4>1. ~open'[Kind(r)]
        BY <1>0, <2>1, <3>1
      <4> QED
        BY <1>0, <2>1, <4>1, WayKept
    <3>2. CASE Kind(r) # kind
      <4>1. queue'[Kind(r)] = queue[Kind(r)] /\ open'[Kind(r)] = open[Kind(r)]
        BY <1>0, <2>1, <3>2
      <4>2. QueueLines(r)' = QueueLines(r)
        BY <1>0, <4>1 DEF QueueLines, Of
      <4> QED
        BY <1>0, <1>2, <2>1, <4>1, <4>2, OtherKept
    <3> QED
      BY <3>1, <3>2
  <2> QED
    BY <2>2, <2>3 DEF OrderInv
<1>4. CASE Consume(kind)
  <2> DEFINE b == Head(queue[kind])
  <2>1. /\ open[kind] /\ queue[kind] # <<>> /\ open' = open
        /\ queue' = [queue EXCEPT ![kind] = Tail(queue[kind])]
        /\ delivered' = [delivered EXCEPT ![b.source] = delivered[b.source] \o b.lines]
    BY <1>4 DEF Consume, Set
  <2>2. /\ b \in Batches /\ Tail(queue[kind]) \in Seq(Batches) /\ b = queue[kind][1]
        /\ Len(queue[kind]) \in Nat \ {0} /\ DOMAIN queue[kind] = 1..Len(queue[kind])
        /\ DOMAIN Tail(queue[kind]) = 1..(Len(queue[kind]) - 1)
        /\ \A i \in DOMAIN Tail(queue[kind]) : /\ i + 1 \in DOMAIN queue[kind]
                                             /\ Tail(queue[kind])[i] = queue[kind][i + 1]
    <3> HIDE DEF Batches
    <3>1. queue[kind] \in Seq(Batches)
      BY <1>0
    <3> QED
      BY <2>1, <3>1, HeadTailProperties
  <2>3. PICK s \in Readers : s = b.source
    BY <2>2 DEF Batches
  <2>4. b.lines \in Lines /\ Kind(s) = kind
    <3>1. b.lines \in Lines
      BY <2>2 DEF Batches
    <3>2. Kind(queue[kind][1].source) = kind
      BY <2>2 DEF OrderInv, Sources
    <3> QED
      BY <2>2, <2>3, <3>1, <3>2
  <2> HIDE DEF b
  <2>5. Sources'
    <3> SUFFICES ASSUME NEW k \in Kinds, NEW i \in DOMAIN queue'[k]
                 PROVE  Kind(queue'[k][i].source) = k
      BY DEF Sources, Kind
    <3>1. CASE k = kind
      <4>1. queue'[k] = Tail(queue[kind])
        BY <1>0, <2>1, <3>1
      <4>2. i + 1 \in DOMAIN queue[kind] /\ queue'[k][i] = queue[kind][i + 1]
        BY <2>2, <4>1
      <4> QED
        BY <3>1, <4>2 DEF OrderInv, Sources
    <3>2. CASE k # kind
      <4>1. queue'[k] = queue[k]
        BY <1>0, <2>1, <3>2
      <4> QED
        BY <4>1 DEF OrderInv, Sources
    <3> QED
      BY <3>1, <3>2
  <2>6. /\ delivered'[s] = Cat(delivered[s], b.lines)
        /\ \A r \in Readers \ {s} : delivered'[r] = delivered[r]
    BY <1>0, <2>1, <2>3 DEF Cat
  <2>7. ASSUME NEW r \in Readers, Kind(r) = kind
        PROVE  QueueLines(r) = IF s = r THEN Cat(b.lines, QueueLines(r)') ELSE QueueLines(r)'
    <3>1. queue[kind] \in Seq(Batches) /\ queue'[kind] = Tail(queue[kind])
      BY <1>0, <2>1
    <3>2. FlattenSeq(Of(queue[kind], r)) = IF Head(queue[kind]).source = r
            THEN Cat(Head(queue[kind]).lines, FlattenSeq(Of(Tail(queue[kind]), r)))
            ELSE FlattenSeq(Of(Tail(queue[kind]), r))
      BY <2>1, <3>1, OfHead
    <3>3. QueueLines(r)' = FlattenSeq(Of(Tail(queue[kind]), r))
      BY <1>0, <2>7, <3>1 DEF QueueLines, Of
    <3> QED
      BY <2>7, <2>3, <3>2, <3>3 DEF QueueLines, b
  <2>8. OnWay(s)'
    <3> DEFINE d == delivered[s]
               l == b.lines
               q == QueueLines(s)'
               rest == Cat(Inner(s), Cat(outgoing[s], batch[s]))
               n == received[s] - unread[s]
    <3>1. d \in Lines /\ l \in Lines /\ q \in Lines /\ rest \in Lines /\ n \in Nat
      <4>1. /\ d \in Lines /\ l \in Lines /\ Inner(s) \in Lines
            /\ outgoing[s] \in Lines /\ batch[s] \in Lines
        BY <2>4, WayTyped
      <4>2. rest \in Lines
        BY <4>1, LinesConcat
      <4>3. n \in Nat
        BY <2>4 DEF TypedInv, ReaderTyped, Settled
      <4>4. q \in Lines
        <5>1. Of(queue'[kind], s) \in Seq(Lines)
          <6>1. queue'[kind] \in Seq(Batches)
            BY <1>0, <2>1, <2>2
          <6>2. \A c \in Batches : c.lines \in Lines
            BY DEF Batches
          <6> DEFINE t == queue'[kind]
          <6> HIDE DEF Batches, t
          <6>3. Len(t) \in Nat /\ DOMAIN t = 1..Len(t) /\ \A i \in 1..Len(t) : t[i].lines \in Lines
            BY <6>1, <6>2 DEF t
          <6>4. Of(t, s) \in [1..Len(t) -> Lines]
            BY <6>3, LinesConcat DEF Of
          <6> QED
            BY <6>3, <6>4 DEF t
        <5>2. q = FlattenSeq(Of(queue'[kind], s))
          BY <1>0, <2>4 DEF QueueLines, Of
        <5> QED
          BY <5>1, <5>2, LinesFlatten
      <4> QED
        BY <4>1, <4>2, <4>3, <4>4
    <3>2. Way(s) = Cat(d, Cat(Cat(l, q), rest)) /\ Way(s)' = Cat(Cat(d, l), Cat(q, rest))
      BY <1>2, <2>4, <2>6, <2>7 DEF Way
    <3>3. Way(s) = Numbered(n)
      BY <1>0, <2>1, <2>4 DEF OnWay
    <3> HIDE DEF d, l, q, rest, n
    <3>4. Cat(d, Cat(Cat(l, q), rest)) = Cat(Cat(d, l), Cat(q, rest))
      <4>1. Cat(Cat(l, q), rest) = Cat(l, Cat(q, rest)) /\ Cat(q, rest) \in Lines
        BY <3>1, LinesConcat
      <4>2. Cat(d, Cat(l, Cat(q, rest))) = Cat(Cat(d, l), Cat(q, rest))
        BY <3>1, <4>1, LinesConcat
      <4> QED
        BY <4>1, <4>2
    <3>5. Way(s)' = Numbered(n) /\ Cat(Cat(d, l), Cat(q, rest)) = Numbered(n)
      BY <3>2, <3>3, <3>4
    <3>6. Cat(d, l) \in Lines /\ Cat(q, rest) \in Lines
      BY <3>1, LinesConcat
    <3>7. \A i \in DOMAIN Cat(d, l) : Cat(d, l)[i] = i
      BY <3>1, <3>5, <3>6, NumberedLines
    <3> QED
      BY <1>0, <1>2, <2>4, <2>6, <3>5, <3>7 DEF OnWay, d, l, n
  <2>9. ASSUME NEW r \in Readers \ {s} PROVE OnWay(r)'
    <3>1. QueueLines(r)' = QueueLines(r)
      <4>1. CASE Kind(r) = kind
        BY <2>7, <4>1
      <4>2. CASE Kind(r) # kind
        <5>1. queue'[Kind(r)] = queue[Kind(r)]
          BY <1>0, <2>1, <4>2
        <5> QED
          BY <1>0, <5>1 DEF QueueLines, Of
      <4> QED
        BY <4>1, <4>2
    <3> QED
      BY <1>0, <1>2, <2>1, <2>6, <3>1, OtherKept
  <2> QED
    BY <2>5, <2>8, <2>9 DEF OrderInv
<1> QED
  BY <1>3, <1>4

LEMMA StepOrder == TypedInv /\ OrderInv /\ [Next]_vars => OrderInv'
<1> SUFFICES ASSUME TypedInv, OrderInv, [Next]_vars PROVE OrderInv'
  OBVIOUS
<1>0. Udp \subseteq Readers /\ Tcp \subseteq Readers
  BY DEF Readers
<1>1. ASSUME NEW r \in Udp, NEW n \in 0..MaxLines, RecvDatagram(r, n) PROVE OrderInv'
  BY <1>0, <1>1, ReadersOrder
<1>2. ASSUME NEW r \in Udp, PushLine(r) \/ Timeout(r) PROVE OrderInv'
  BY <1>0, <1>2, ReadersOrder
<1>3. ASSUME NEW r \in Udp, SendRaw(r) \/ TakeRaw(r) \/ ForwardParsed(r) PROVE OrderInv'
  BY <1>3, WorkerOrder
<1>4. ASSUME NEW r \in Tcp, NextLine(r) \/ Eof(r) PROVE OrderInv'
  BY <1>0, <1>4, ReadersOrder
<1>5. ASSUME NEW r \in Tcp, SendTcp(r) \/ SendLast(r) PROVE OrderInv'
  BY <1>5, ConnectionOrder
<1>6. ASSUME NEW kind \in Kinds, Consume(kind) \/ DropReceiver(kind) PROVE OrderInv'
  BY <1>6, SinkOrder
<1>7. CASE Tick \/ UNCHANGED vars
  <2>1. UNCHANGED <<received, unread, batch, outgoing, parser, sink>>
    BY <1>7 DEF Tick, vars, reader
  <2>2. Sources'
    BY <2>1 DEF OrderInv, Sources, sink, Kind
  <2>3. ASSUME NEW r \in Readers PROVE OnWay(r)'
    <3>1. QueueLines(r)' = QueueLines(r) /\ Inner(r)' = Inner(r) /\ delivered' = delivered /\ open' = open
      BY <2>1 DEF QueueLines, Of, Inner, parser, sink, Kind
    <3> QED
      BY <2>1, <3>1, OtherKept DEF OrderInv
  <2> QED
    BY <2>2, <2>3 DEF OrderInv
<1> QED
  BY <1>1, <1>2, <1>3, <1>4, <1>5, <1>6, <1>7 DEF Next, Kinds

\* The lines of a reader are delivered once and in order, and none is missing while
\* somebody receives, for any number of workers and connections, any batch size and
\* timeout, any capacity of the channels and any number of lines (run_raw,
\* run_parsed and the connection tasks).
THEOREM DeliveredInOrderAlways == Spec => []DeliveredInOrder
<1>1. TypedInv /\ OrderInv => DeliveredInOrder
  <2> SUFFICES ASSUME TypedInv, OrderInv, NEW r \in Readers
               PROVE  /\ \A i \in DOMAIN delivered[r] : delivered[r][i] = i
                      /\ open[Kind(r)] => delivered[r] \o FlattenSeq(InFlight(r)) \o batch[r]
                           = [i \in 1..(received[r] - unread[r]) |-> i]
    BY DEF DeliveredInOrder
  <2> QED
    BY WayIsFlight DEF OrderInv, OnWay, Numbered
<1>2. Init => TypedInv /\ OrderInv
  BY InitTyped, InitOrder
<1>3. TypedInv /\ OrderInv /\ [Next]_vars => (TypedInv /\ OrderInv)'
  BY StepTyped, StepOrder
<1> QED
  BY <1>1, <1>2, <1>3, PTL DEF Spec

=============================================================================
