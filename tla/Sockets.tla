------------------------------ MODULE Sockets ------------------------------
(***************************************************************************)
(* The syslog listeners of ulpf-core (ingest/socket.rs): the UDP workers   *)
(* of spawn_udp_worker_pool, each a receiver task (run_raw) and a parsing  *)
(* task (run_parsed) with a channel between them, and the connection tasks *)
(* of the TCP listener.  Both kinds gather lines in batches; a batch is    *)
(* sent when it is full or old.  How old is measured differently: a UDP    *)
(* worker races its socket against a sleep that starts anew with every     *)
(* turn of its loop, a TCP task looks at the clock when a line arrives.    *)
(*                                                                         *)
(* The program that embeds the listeners holds the receiving end of one    *)
(* channel for each kind, and may drop it at any time.  A line is its      *)
(* number at its reader; parsing (parse_lossless) is total and changes     *)
(* neither number nor order of the lines.                                  *)
(***************************************************************************)
EXTENDS Integers, Sequences, FiniteSets, SequencesExt, Functions

CONSTANTS
  Udp,            \* the UDP workers
  Tcp,            \* the TCP connections
  batch_size,     \* IngestConfig
  batch_timeout,  \* IngestConfig, in clock ticks
  RawCapacity,    \* of the channel inside run_parsed (100)
  TxCapacity,     \* of the channels of the embedding program
  MaxLines,       \* bound: lines that reach the readers, taken together
  MaxBlanks       \* bound: datagrams without a line, blank or not UTF-8

ASSUME SocketsAssumption ==
  /\ Udp \cap Tcp = {}
  /\ batch_size \in Nat /\ batch_timeout \in Nat
  /\ RawCapacity \in Nat \ {0} /\ TxCapacity \in Nat \ {0}
  /\ MaxLines \in Nat /\ MaxBlanks \in Nat

Readers == Udp \cup Tcp
Kind(r) == IF r \in Udp THEN "udp" ELSE "tcp"

VARIABLES
  pc,          \* where each reader is: "read", "lines", "send", "last" or "done"
  received,    \* lines a reader got from its socket
  unread,      \* of these, lines of the current datagram still to be looked at
  batch,       \* current_batch
  outgoing,    \* the batch a reader is sending
  elapsed,     \* ticks since last_flush, up to batch_timeout
  timer,       \* ticks since the select! of a UDP worker began, up to batch_timeout
  blanks,      \* datagrams without a line so far
  raw,         \* the channel between the tasks of a UDP worker
  parsed,      \* the batch its parsing task is sending
  alive,       \* is its parsing task running
  queue,       \* the channels of the embedding program, by kind
  open,        \* does that program still hold the receiver
  delivered    \* history: the lines of each reader that it has received

reader == <<pc, received, unread, batch, outgoing, elapsed, timer, blanks>>
parser == <<raw, parsed, alive>>
sink   == <<queue, open, delivered>>
vars   == <<reader, parser, sink>>

-----------------------------------------------------------------------------
(* What the readers share.                                                 *)

Set(f, r, x) == [f EXCEPT ![r] = x]

\* The network's bound.
MayReceive(n) == SumFunction(received) + n <= MaxLines

\* Mutant: one sleep for the life of the worker.
Goto_OneSleep(r, label) == pc' = Set(pc, r, label) /\ UNCHANGED timer

\* The next turn of the loop; in a UDP worker a new sleep begins.
Goto(r, label) ==
  /\ pc' = Set(pc, r, label)
  /\ timer' = IF label = "read" THEN Set(timer, r, 0) ELSE timer

\* After a line or a send: the rest of the datagram, or the socket.
Resume(r, rest) == Goto(r, IF rest > 0 THEN "lines" ELSE "read")

\* Mutant: the line that fills the batch is lost.
AddLine_LosesFilling(r, line, due, rest) ==
  IF Len(batch[r]) + 1 >= batch_size \/ due
    THEN /\ outgoing' = Set(outgoing, r, batch[r])
         /\ batch' = Set(batch, r, <<>>)
         /\ Goto(r, "send")
    ELSE /\ batch' = Set(batch, r, Append(batch[r], line))
         /\ Resume(r, rest)
         /\ UNCHANGED outgoing

\* A trimmed, non-empty line joins the batch, which is taken if it is due.
AddLine(r, line, due, rest) ==
  LET lines == Append(batch[r], line)
  IN IF Len(lines) >= batch_size \/ due
       THEN /\ outgoing' = Set(outgoing, r, lines)
            /\ batch' = Set(batch, r, <<>>)
            /\ Goto(r, "send")
       ELSE /\ batch' = Set(batch, r, lines)
            /\ Resume(r, rest)
            /\ UNCHANGED outgoing

\* send(..).await returned Ok.
Sent(r) ==
  /\ outgoing' = Set(outgoing, r, <<>>)
  /\ elapsed' = Set(elapsed, r, 0)
  /\ UNCHANGED <<received, unread, batch, blanks>>

\* send(..).await returned Err: the batch is gone, and the task returns.
Stop(r) ==
  /\ outgoing' = Set(outgoing, r, <<>>)
  /\ Goto(r, "done")
  /\ UNCHANGED <<received, unread, batch, elapsed, blanks>>

Enqueue(kind, r, lines) ==
  /\ open[kind]
  /\ Len(queue[kind]) < TxCapacity
  /\ queue' = [queue EXCEPT ![kind] = Append(@, [source |-> r, lines |-> lines])]
  /\ UNCHANGED <<open, delivered>>

-----------------------------------------------------------------------------
(* UdpSyslogListener::run_raw                                              *)

RecvDatagram(r, n) ==
  /\ pc[r] = "read"
  /\ MayReceive(n)
  /\ n = 0 => blanks < MaxBlanks
  /\ blanks' = IF n = 0 THEN blanks + 1 ELSE blanks
  /\ received' = Set(received, r, received[r] + n)
  /\ unread' = Set(unread, r, n)
  /\ Resume(r, n)
  /\ UNCHANGED <<batch, outgoing, elapsed, parser, sink>>

PushLine(r) ==
  /\ pc[r] = "lines"
  /\ unread' = Set(unread, r, unread[r] - 1)
  /\ AddLine(r, received[r] - unread[r] + 1, FALSE, unread[r] - 1)
  /\ UNCHANGED <<received, elapsed, blanks, parser, sink>>

\* Mutant: only a full batch is sent.
Timeout_Idle(r) ==
  /\ pc[r] = "read"
  /\ timer[r] >= batch_timeout
  /\ Goto(r, "read")
  /\ UNCHANGED <<received, unread, batch, outgoing, elapsed, blanks, parser, sink>>

\* The sleep of the select! ends first.
Timeout(r) ==
  /\ pc[r] = "read"
  /\ timer[r] >= batch_timeout
  /\ IF batch[r] # <<>> /\ elapsed[r] >= batch_timeout
       THEN /\ outgoing' = Set(outgoing, r, batch[r])
            /\ batch' = Set(batch, r, <<>>)
            /\ Goto(r, "send")
       ELSE /\ Goto(r, "read")
            /\ UNCHANGED <<batch, outgoing>>
  /\ UNCHANGED <<received, unread, elapsed, blanks, parser, sink>>

SendRaw(r) ==
  /\ pc[r] = "send"
  /\ \/ /\ alive[r] /\ Len(raw[r]) < RawCapacity
        /\ raw' = Set(raw, r, Append(raw[r], outgoing[r]))
        /\ Sent(r)
        /\ Resume(r, unread[r])
     \/ ~alive[r] /\ Stop(r) /\ UNCHANGED raw
  /\ UNCHANGED <<parsed, alive, sink>>

-----------------------------------------------------------------------------
(* UdpSyslogListener::run_parsed                                           *)

TakeRaw(r) ==
  /\ alive[r]
  /\ parsed[r] = <<>> /\ raw[r] # <<>>
  /\ parsed' = Set(parsed, r, Head(raw[r]))
  /\ raw' = Set(raw, r, Tail(raw[r]))
  /\ UNCHANGED <<alive, reader, sink>>

\* Mutant: the error of send is ignored.
ForwardParsed_GoesOn(r) ==
  /\ parsed[r] # <<>>
  /\ parsed' = Set(parsed, r, <<>>)
  /\ \/ Enqueue("udp", r, parsed[r])
     \/ ~open["udp"] /\ UNCHANGED sink
  /\ UNCHANGED <<raw, alive, reader>>

\* The parsed batch is sent; when nobody receives, the task ends and its end of
\* the inner channel is dropped with what was in it.
ForwardParsed(r) ==
  /\ parsed[r] # <<>>
  /\ parsed' = Set(parsed, r, <<>>)
  /\ \/ Enqueue("udp", r, parsed[r]) /\ UNCHANGED <<raw, alive>>
     \/ /\ ~open["udp"]
        /\ alive' = Set(alive, r, FALSE)
        /\ raw' = Set(raw, r, <<>>)
        /\ UNCHANGED sink
  /\ UNCHANGED reader

-----------------------------------------------------------------------------
(* The connection tasks of TcpSyslogListener::run_raw                      *)

NextLine(r) ==
  /\ pc[r] = "read"
  /\ MayReceive(1)
  /\ received' = Set(received, r, received[r] + 1)
  /\ AddLine(r, received[r] + 1, elapsed[r] >= batch_timeout, 0)
  /\ UNCHANGED <<unread, elapsed, blanks, parser, sink>>

SendTcp(r) ==
  /\ pc[r] = "send"
  /\ \/ Enqueue("tcp", r, outgoing[r]) /\ Sent(r) /\ Goto(r, "read")
     \/ ~open["tcp"] /\ Stop(r) /\ UNCHANGED sink
  /\ UNCHANGED parser

\* Mutant: a short batch is not sent at the end.
Eof_DropsRest(r) ==
  /\ pc[r] = "read"
  /\ batch' = Set(batch, r, <<>>)
  /\ Goto(r, "done")
  /\ UNCHANGED <<received, unread, outgoing, elapsed, blanks, parser, sink>>

\* The connection ends: what is left is sent, whatever became of the channel.
Eof(r) ==
  /\ pc[r] = "read"
  /\ outgoing' = Set(outgoing, r, batch[r])
  /\ batch' = Set(batch, r, <<>>)
  /\ Goto(r, IF batch[r] = <<>> THEN "done" ELSE "last")
  /\ UNCHANGED <<received, unread, elapsed, blanks, parser, sink>>

SendLast(r) ==
  /\ pc[r] = "last"
  /\ Stop(r)
  /\ Enqueue("tcp", r, outgoing[r]) \/ (~open["tcp"] /\ UNCHANGED sink)
  /\ UNCHANGED parser

-----------------------------------------------------------------------------
(* The embedding program, and time.                                        *)

Consume(kind) ==
  /\ open[kind] /\ queue[kind] # <<>>
  /\ LET b == Head(queue[kind])
     IN delivered' = Set(delivered, b.source, delivered[b.source] \o b.lines)
  /\ queue' = [queue EXCEPT ![kind] = Tail(@)]
  /\ UNCHANGED <<open, reader, parser>>

DropReceiver(kind) ==
  /\ open[kind]
  /\ open' = [open EXCEPT ![kind] = FALSE]
  /\ queue' = [queue EXCEPT ![kind] = <<>>]
  /\ UNCHANGED <<delivered, reader, parser>>

Later(n) == IF n < batch_timeout THEN n + 1 ELSE n

Tick ==
  /\ elapsed' = [r \in Readers |-> Later(elapsed[r])]
  /\ timer' = [r \in Readers |-> IF r \in Udp /\ pc[r] = "read" THEN Later(timer[r]) ELSE timer[r]]
  /\ <<elapsed, timer>>' # <<elapsed, timer>>
  /\ UNCHANGED <<pc, received, unread, batch, outgoing, blanks, parser, sink>>

Init ==
  /\ pc = [r \in Readers |-> "read"]
  /\ received = [r \in Readers |-> 0]
  /\ unread = [r \in Readers |-> 0]
  /\ batch = [r \in Readers |-> <<>>]
  /\ outgoing = [r \in Readers |-> <<>>]
  /\ elapsed = [r \in Readers |-> 0]
  /\ timer = [r \in Readers |-> 0]
  /\ blanks = 0
  /\ raw = [r \in Udp |-> <<>>]
  /\ parsed = [r \in Udp |-> <<>>]
  /\ alive = [r \in Udp |-> TRUE]
  /\ queue = [kind \in {"udp", "tcp"} |-> <<>>]
  /\ open = [kind \in {"udp", "tcp"} |-> TRUE]
  /\ delivered = [r \in Readers |-> <<>>]

Next ==
  \/ \E r \in Udp : \/ \E n \in 0..MaxLines : RecvDatagram(r, n)
                    \/ PushLine(r)
                    \/ Timeout(r)
                    \/ SendRaw(r)
                    \/ TakeRaw(r)
                    \/ ForwardParsed(r)
  \/ \E r \in Tcp : NextLine(r) \/ SendTcp(r) \/ Eof(r) \/ SendLast(r)
  \/ \E kind \in {"udp", "tcp"} : Consume(kind) \/ DropReceiver(kind)
  \/ Tick

Spec == Init /\ [][Next]_vars

\* Tasks that can proceed are polled, senders get their turn (tokio's channels
\* are first come, first served), the clock ticks, and the program receives
\* while it holds the receiver.  Nothing is assumed of the network.
Fairness ==
  /\ \A r \in Udp : /\ WF_vars(PushLine(r)) /\ WF_vars(Timeout(r)) /\ WF_vars(SendRaw(r))
                    /\ WF_vars(TakeRaw(r)) /\ SF_vars(ForwardParsed(r))
  /\ \A r \in Tcp : SF_vars(SendTcp(r)) /\ SF_vars(SendLast(r))
  /\ \A kind \in {"udp", "tcp"} : WF_vars(Consume(kind))
  /\ WF_vars(Tick)

FairSpec == Spec /\ Fairness

-----------------------------------------------------------------------------
(* Properties.                                                             *)

Lines == Seq(Nat \ {0})

\* The variables hold values of their Rust types, and the channels are bounded.
TypeOK ==
  /\ pc \in [Readers -> {"read", "lines", "send", "last", "done"}]
  /\ received \in [Readers -> Nat] /\ unread \in [Readers -> Nat]
  /\ batch \in [Readers -> Lines] /\ outgoing \in [Readers -> Lines]
  /\ elapsed \in [Readers -> 0..batch_timeout] /\ timer \in [Readers -> 0..batch_timeout]
  /\ blanks \in Nat
  /\ raw \in [Udp -> Seq(Lines)] /\ parsed \in [Udp -> Lines] /\ alive \in [Udp -> BOOLEAN]
  /\ queue \in [{"udp", "tcp"} -> Seq([source : Readers, lines : Lines])]
  /\ open \in [{"udp", "tcp"} -> BOOLEAN]
  /\ delivered \in [Readers -> Lines]
  /\ \A r \in Udp : Len(raw[r]) <= RawCapacity
  /\ \A kind \in DOMAIN queue : Len(queue[kind]) <= TxCapacity

\* The batches of a reader on their way, oldest first (empty where the queue holds
\* a batch of another).
Queued(r) == [i \in DOMAIN queue[Kind(r)] |->
                IF queue[Kind(r)][i].source = r THEN queue[Kind(r)][i].lines ELSE <<>>]
InFlight(r) == Queued(r) \o (IF r \in Udp THEN <<parsed[r]>> \o raw[r] ELSE <<>>)
                         \o <<outgoing[r]>>

\* Through two tasks and two channels, and whatever the other readers do: the
\* lines of a reader are delivered once and in order, and while somebody receives
\* none is missing between the socket and the receiver.
DeliveredInOrder ==
  \A r \in Readers :
    LET on == delivered[r] \o FlattenSeq(InFlight(r)) \o batch[r]
    IN /\ \A i \in DOMAIN delivered[r] : delivered[r][i] = i
       /\ open[Kind(r)] => on = [i \in 1..(received[r] - unread[r]) |-> i]

\* The two clocks of a UDP worker agree: when its sleep ends and there are lines,
\* they are old enough to be sent, so that no timeout passes without effect.
TimeoutFlushes ==
  \A r \in Udp : pc[r] = "read" /\ timer[r] >= batch_timeout => elapsed[r] >= batch_timeout

CaughtUp(r) == Len(delivered[r]) = received[r] \/ ~open[Kind(r)]

\* Whenever the network falls silent, all lines that reached a UDP worker are
\* delivered: none waits in a batch for the next datagram.
UdpDelivers == \A r \in Udp : []<>CaughtUp(r)

\* When a connection has ended all its lines are delivered, those of its last,
\* short batch too.
TcpDeliversAtEof ==
  []<>(\A r \in Tcp : pc[r] \in {"last", "done"} => CaughtUp(r))

\* The drop of the receiver travels upstream: a worker that has a batch to send
\* then loses its parsing task, and is not left waiting for it.
DropTravels ==
  \A r \in Udp : (~open["udp"] /\ pc[r] = "send") ~> (~alive[r] /\ pc[r] # "send")
=============================================================================
