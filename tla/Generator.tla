----------------------------- MODULE Generator -----------------------------
(***************************************************************************)
(* The traffic generator (ulpf-generator, main.rs): worker tasks that blast*)
(* a dataset at a target over UDP or TCP, batch by batch and at a given    *)
(* rate; a reporter task that ends the run when its time is up; a task that*)
(* ends it on Ctrl-C; and the main task, which waits for the reporter and  *)
(* then for every worker.                                                  *)
(*                                                                         *)
(* The target and the network are the environment: a datagram may be lost  *)
(* or refused, a connection may be refused or broken, and the target of a  *)
(* connection reads what is in its buffer when it likes, or no more.  A    *)
(* network that duplicates datagrams or delays one behind another, and a   *)
(* target that reads the rest of a broken connection after the next one,   *)
(* are left out: the model is about what the workers send.                 *)
(*                                                                         *)
(* A log is its place in what a worker takes from the dataset: the worker  *)
(* goes round and round it, and takes none back.                           *)
(***************************************************************************)
EXTENDS Integers, Sequences, FiniteSets, Functions

CONSTANTS
  Workers,         \* worker tasks
  Protocols,       \* the protocols to try
  rate,            \* --rate, logs per second; 0: as fast as possible
  duration,        \* --duration, seconds; 0: until Ctrl-C
  batch_size,      \* --batch-size
  TicksPerSecond,  \* the grain of the clock
  SocketBuffer,    \* logs a connection holds that the target has not read
  MaxTicks,        \* bound: how long the clock runs
  MaxTaken,        \* bound: logs each worker takes
  MaxFaults        \* bound: losses, refusals and breaks

ASSUME GeneratorAssumption ==
  /\ IsFiniteSet(Workers) /\ Workers # {}
  /\ Protocols \subseteq {"udp", "tcp"}
  /\ rate \in Nat /\ duration \in Nat /\ batch_size \in Nat \ {0}
  /\ TicksPerSecond \in Nat \ {0} /\ SocketBuffer \in Nat \ {0}
  /\ MaxTicks \in Nat /\ MaxTaken \in [Workers -> Nat] /\ MaxFaults \in Nat

VARIABLES
  proto,
  running,       \* the flag that every task looks at
  now,           \* ticks since the start
  second,        \* of the reporter
  reporter,      \* "waiting" or "done"
  finished,      \* has main returned
  pc,            \* of each worker: "start", "head", "send", "broken", "done", "failed"
  worker_start,  \* when it began, in ticks
  taken,         \* logs it took from the dataset
  todo,          \* of these, logs of the current batch not yet sent
  batch_pkts,    \* of these, logs of the current batch that were sent
  sent_count,
  connected,     \* is its connection whole
  buffer,        \* logs written to the connection that the target has not read
  received,      \* history: the last log of each worker that the target received
  faults,        \* losses, refusals and breaks so far
  packets_sent, errors

clock  == <<now, second, reporter, finished>>
batch  == <<taken, todo, batch_pkts>>
target == <<connected, buffer, received>>
stats  == <<packets_sent, errors>>
vars   == <<proto, running, clock, pc, worker_start, batch, sent_count, target, faults, stats>>

Set(f, w, x) == [f EXCEPT ![w] = x]
Goto(w, label) == pc' = Set(pc, w, label)

-----------------------------------------------------------------------------
(* The rate of a worker.                                                   *)

worker_rate ==
  IF rate = 0 THEN 0
  ELSE IF rate \div Cardinality(Workers) > 1 THEN rate \div Cardinality(Workers) ELSE 1

expected_sent(w) == ((now - worker_start[w]) * worker_rate) \div TicksPerSecond

\* Ahead of schedule, a worker sleeps and looks again.
Ahead(w) == worker_rate > 0 /\ sent_count[w] > expected_sent(w) + batch_size

\* Mutant: full batches whatever the schedule.
to_send_Full(w) == batch_size

\* How many logs it takes for a batch.
to_send(w) ==
  LET behind == expected_sent(w) - sent_count[w]
      due    == IF behind > 1 THEN behind ELSE 1
  IN IF worker_rate = 0 \/ due > batch_size THEN batch_size ELSE due

-----------------------------------------------------------------------------
(* The workers.                                                            *)

\* A loss, a refusal or a break, which the environment may make.
Fault == faults < MaxFaults /\ faults' = faults + 1

\* bind and connect
Connect(w) ==
  /\ pc[w] = "start"
  /\ Goto(w, "head")
  /\ worker_start' = Set(worker_start, w, now)
  /\ connected' = Set(connected, w, TRUE)
  /\ UNCHANGED <<proto, running, clock, batch, sent_count, buffer, received, faults, stats>>

ConnectFails(w) ==
  /\ pc[w] = "start"
  /\ Fault
  /\ errors' = errors + 1
  /\ Goto(w, "failed")
  /\ UNCHANGED <<proto, running, clock, worker_start, batch, sent_count, target, packets_sent>>

\* The head of the loop: the flag, the schedule, and the logs of a batch.
Leave(w) ==
  /\ pc[w] = "head"
  /\ ~running
  /\ Goto(w, "done")
  /\ UNCHANGED <<proto, running, clock, worker_start, batch, sent_count, target, faults, stats>>

TakeBatch(w) ==
  /\ pc[w] = "head"
  /\ running /\ ~Ahead(w)
  /\ taken[w] + to_send(w) <= MaxTaken[w]
  /\ taken' = Set(taken, w, taken[w] + to_send(w))
  /\ todo' = Set(todo, w, to_send(w))
  /\ batch_pkts' = Set(batch_pkts, w, 0)
  /\ Goto(w, "send")
  /\ UNCHANGED <<proto, running, clock, worker_start, sent_count, target, faults, stats>>

Sends(w) == pc[w] = "send" /\ todo[w] > 0
NextLog(w) == taken[w] - todo[w] + 1

\* A log is sent: a datagram that arrives or not, or room in the buffer of the
\* connection for the next part of write_all.
SendUdp(w) ==
  /\ proto = "udp" /\ Sends(w)
  /\ todo' = Set(todo, w, todo[w] - 1)
  /\ batch_pkts' = Set(batch_pkts, w, batch_pkts[w] + 1)
  /\ \/ received' = Set(received, w, NextLog(w)) /\ UNCHANGED faults
     \/ Fault /\ UNCHANGED received
  /\ UNCHANGED <<proto, running, clock, pc, worker_start, taken, sent_count, connected, buffer,
                 stats>>

SendTcp(w) ==
  /\ proto = "tcp" /\ Sends(w)
  /\ connected[w] /\ Len(buffer[w]) < SocketBuffer
  /\ todo' = Set(todo, w, todo[w] - 1)
  /\ batch_pkts' = Set(batch_pkts, w, batch_pkts[w] + 1)
  /\ buffer' = Set(buffer, w, Append(buffer[w], NextLog(w)))
  /\ UNCHANGED <<proto, running, clock, pc, worker_start, taken, sent_count, connected, received,
                 faults, stats>>

\* Mutant: a refused datagram is not an error.
RefusedUdp_Silent(w) ==
  /\ proto = "udp" /\ Sends(w)
  /\ Fault
  /\ todo' = Set(todo, w, todo[w] - 1)
  /\ UNCHANGED <<proto, running, clock, pc, worker_start, taken, batch_pkts, sent_count, target,
                 stats>>

\* A datagram is refused: an error, and the worker goes on with the next log.
RefusedUdp(w) ==
  /\ proto = "udp" /\ Sends(w)
  /\ Fault
  /\ errors' = errors + 1
  /\ todo' = Set(todo, w, todo[w] - 1)
  /\ UNCHANGED <<proto, running, clock, pc, worker_start, taken, batch_pkts, sent_count, target,
                 packets_sent>>

\* Mutant: the batch is taken back, to be sent again.
BrokenTcp_Resends(w) ==
  /\ proto = "tcp" /\ Sends(w)
  /\ ~connected[w]
  /\ errors' = errors + 1
  /\ taken' = Set(taken, w, taken[w] - todo[w] - batch_pkts[w])
  /\ todo' = Set(todo, w, 0)
  /\ batch_pkts' = Set(batch_pkts, w, 0)
  /\ Goto(w, "broken")
  /\ UNCHANGED <<proto, running, clock, worker_start, sent_count, target, faults, packets_sent>>

\* write_all fails: one error for the batch, of which nothing is counted.
BrokenTcp(w) ==
  /\ proto = "tcp" /\ Sends(w)
  /\ ~connected[w]
  /\ errors' = errors + 1
  /\ todo' = Set(todo, w, 0)
  /\ batch_pkts' = Set(batch_pkts, w, 0)
  /\ Goto(w, "broken")
  /\ UNCHANGED <<proto, running, clock, worker_start, taken, sent_count, target, faults,
                 packets_sent>>

\* The batch is sent, and counted.
Flush(w) ==
  /\ pc[w] = "send"
  /\ todo[w] = 0
  /\ sent_count' = Set(sent_count, w, sent_count[w] + batch_pkts[w])
  /\ packets_sent' = packets_sent + batch_pkts[w]
  /\ batch_pkts' = Set(batch_pkts, w, 0)
  /\ Goto(w, "head")
  /\ UNCHANGED <<proto, running, clock, worker_start, taken, todo, target, faults, errors>>

\* After a pause it connects anew, or goes on with the broken connection.
Reconnect(w) ==
  /\ pc[w] = "broken"
  /\ Goto(w, "head")
  /\ connected' = Set(connected, w, TRUE)
  /\ buffer' = Set(buffer, w, <<>>)
  /\ UNCHANGED <<proto, running, clock, worker_start, batch, sent_count, received, faults, stats>>

ReconnectFails(w) ==
  /\ pc[w] = "broken"
  /\ Fault
  /\ Goto(w, "head")
  /\ UNCHANGED <<proto, running, clock, worker_start, batch, sent_count, target, stats>>

Work(w) ==
  \/ Connect(w) \/ ConnectFails(w)
  \/ Leave(w) \/ TakeBatch(w)
  \/ SendUdp(w) \/ RefusedUdp(w)
  \/ SendTcp(w) \/ BrokenTcp(w)
  \/ Flush(w)
  \/ Reconnect(w) \/ ReconnectFails(w)

-----------------------------------------------------------------------------
(* The target.                                                             *)

Read(w) ==
  /\ buffer[w] # <<>>
  /\ received' = Set(received, w, Head(buffer[w]))
  /\ buffer' = Set(buffer, w, Tail(buffer[w]))
  /\ UNCHANGED <<proto, running, clock, pc, worker_start, batch, sent_count, connected, faults,
                 stats>>

\* What the target has not read is lost (it might still read it; no worker can tell),
\* and the worker will learn of the break by its next write.
Close(w) ==
  /\ proto = "tcp" /\ connected[w]
  /\ Fault
  /\ connected' = Set(connected, w, FALSE)
  /\ buffer' = Set(buffer, w, <<>>)
  /\ UNCHANGED <<proto, running, clock, pc, worker_start, batch, sent_count, received, stats>>

-----------------------------------------------------------------------------
(* The other tasks.                                                        *)

Tick ==
  /\ now < MaxTicks
  /\ now' = now + 1
  /\ UNCHANGED <<proto, running, second, reporter, finished, pc, worker_start, batch, sent_count,
                 target, faults, stats>>

\* Ctrl-C, at least a second before the clock stops.
CtrlC ==
  /\ running
  /\ now + TicksPerSecond <= MaxTicks
  /\ running' = FALSE
  /\ UNCHANGED <<proto, clock, pc, worker_start, batch, sent_count, target, faults, stats>>

\* Mutant: the reporter stops, and tells nobody.
Report_Silent ==
  /\ reporter = "waiting"
  /\ now >= (second + 1) * TicksPerSecond
  /\ second' = second + 1
  /\ reporter' = IF running /\ (duration = 0 \/ second' < duration) THEN "waiting" ELSE "done"
  /\ UNCHANGED <<proto, running, now, finished, pc, worker_start, batch, sent_count, target, faults,
                 stats>>

\* Once a second: the figures are printed, and if the time is up the flag is cleared.
Report ==
  /\ reporter = "waiting"
  /\ now >= (second + 1) * TicksPerSecond
  /\ second' = second + 1
  /\ LET up == duration > 0 /\ second' >= duration
     IN /\ running' = (running /\ ~up)
        /\ reporter' = IF running' THEN "waiting" ELSE "done"
  /\ UNCHANGED <<proto, now, finished, pc, worker_start, batch, sent_count, target, faults, stats>>

\* main has joined the reporter and then the workers.
Finish ==
  /\ reporter = "done" /\ ~finished
  /\ \A w \in Workers : pc[w] \in {"done", "failed"}
  /\ finished' = TRUE
  /\ UNCHANGED <<proto, running, now, second, reporter, pc, worker_start, batch, sent_count,
                 target, faults, stats>>

-----------------------------------------------------------------------------

Init ==
  /\ proto \in Protocols
  /\ running = TRUE
  /\ now = 0 /\ second = 0
  /\ reporter = "waiting" /\ finished = FALSE
  /\ pc = [w \in Workers |-> "start"]
  /\ worker_start = [w \in Workers |-> 0]
  /\ taken = [w \in Workers |-> 0]
  /\ todo = [w \in Workers |-> 0]
  /\ batch_pkts = [w \in Workers |-> 0]
  /\ sent_count = [w \in Workers |-> 0]
  /\ connected = [w \in Workers |-> FALSE]
  /\ buffer = [w \in Workers |-> <<>>]
  /\ received = [w \in Workers |-> 0]
  /\ faults = 0
  /\ packets_sent = 0 /\ errors = 0

Next ==
  \/ \E w \in Workers : Work(w) \/ Read(w) \/ Close(w)
  \/ Tick \/ CtrlC \/ Report \/ Finish

\* Time passes and the runtime runs every task that can run; the target owes
\* nothing, and nobody has to press Ctrl-C.
Fairness ==
  /\ WF_vars(Tick) /\ WF_vars(Report) /\ WF_vars(Finish)
  /\ \A w \in Workers : WF_vars(Work(w))

Spec == Init /\ [][Next]_vars /\ Fairness

-----------------------------------------------------------------------------
(* Properties.                                                             *)

\* No worker sends a log twice or out of turn, through broken connections and new
\* ones: what the target received of it last comes before what is on its way, and that
\* before what it sends next, in the order of the dataset.
UnderWay(w) == <<received[w]>> \o buffer[w] \o (IF Sends(w) THEN <<NextLog(w)>> ELSE <<>>)
InTurn ==
  \A w \in Workers : \A i \in 1..(Len(UnderWay(w)) - 1) : UnderWay(w)[i] < UnderWay(w)[i + 1]

\* "Adaptive rate controller": no worker is ever ahead of its schedule by more
\* than a batch and the log it sends to look again.
OnSchedule ==
  worker_rate > 0 =>
    \A w \in Workers : sent_count[w] + batch_pkts[w] <= expected_sent(w) + batch_size + 1

\* The figures of the report agree with what was taken from the dataset: over UDP a
\* log that was not sent is an error; over TCP an error stands for at most a batch.
Failed == Cardinality({w \in Workers : pc[w] = "failed"})
Missed == SumFunction(taken) - SumFunction(todo) - SumFunction(batch_pkts) - packets_sent
Accounted ==
  /\ packets_sent = SumFunction(sent_count)
  /\ proto = "udp" => Missed = errors - Failed
  /\ proto = "tcp" => Missed \in 0..(batch_size * (errors - Failed))

\* "Duration to generate traffic": a run whose time is up, or that was interrupted,
\* ends, unless a worker is for ever inside write_all with a target that reads no more.
Blocked(w) == pc[w] = "send" /\ todo[w] > 0 /\ connected[w] /\ Len(buffer[w]) = SocketBuffer
Ends ==
  (duration > 0 \/ <>(~running)) =>
    (<>finished \/ \E w \in Workers : <>[]Blocked(w))
=============================================================================
