------------------------------ MODULE PacketIo ------------------------------
(***************************************************************************)
(* The input and output loop of one fast path worker: its stock of packet  *)
(* buffers, the wait for whatever becomes ready, the batches it reads and  *)
(* writes, and the queues between it and management's tasks                *)
(* (fastpath_worker.rs, fastpath_io.rs, batch_io.rs, sys/wait.rs,          *)
(* sys/posix/notify.rs, sys/windows/notify.rs, packet_queue.rs,            *)
(* two_way_queue.rs, queues.rs, mgmt_dispatch_worker.rs).                  *)
(*                                                                         *)
(* The worker's thread, the tasks of management and the kernel interleave: *)
(* queueing an item and posting its notification are two steps, so are     *)
(* consuming a notification and taking an item, and on Windows resetting   *)
(* the event of the socket and reading from it.  Of the tasks that send to *)
(* the same packet queue one posts at a time.  What a packet is is left    *)
(* out, except whether it is marked PRIORITY; what the fast path decides   *)
(* to do with it is a choice.                                              *)
(***************************************************************************)
EXTENDS Naturals, Sequences, FiniteSets

CONSTANTS BufferCount,  \* buffer_count
          BatchSize,    \* batch_size
          Queues,       \* the packet queues considered
          QueueDepth,   \* the depth of a packet queue
          TwoWayDepth,  \* the depth of a two-way queue to management
          MaxArrivals,  \* bound: packets waiting in the kernel, for each source
          MaxPriority,  \* bound: PRIORITY packets in the worker and its queues
          MaxQueued,    \* bound: packets in the packet queues together
          MaxTasks,     \* bound: tasks of management in the middle of a step at once
          Arms          \* which implementations of Notify to consider

\* fastpath_main asserts this.
ASSUME BufferAssumption ==
    /\ {BufferCount, BatchSize, MaxArrivals, MaxPriority, MaxQueued} \subseteq Nat
    /\ BatchSize > 0
    /\ BufferCount >= 5 * BatchSize

ASSUME DepthAssumption ==
    /\ {TwoWayDepth, QueueDepth} \subseteq Nat \ {0}
    /\ Queues \subseteq {"mgmt", "requeue"}
    /\ Arms \subseteq {"pipe", "event"}
    /\ MaxTasks \in [Arms -> Nat]

VARIABLES arm,      \* the implementation of Notify
          stage,    \* where the worker is in its cycle
          step,     \* where it is in a receive: "begin", "swap", "take"
          left,     \* how many packets the batch may still take
          ready,    \* the result of the wait
          buffers,  \* how many free buffers the worker has
          egress,   \* substrate_egress_q: "normal" and "priority" packets
          actorq,   \* actor_input_q: how many packets
          queue,    \* the two packet queues
          out,      \* the two-way queues: items not received
          guards,   \* items a receiver holds under an ItemGuard
          ret,      \* the return queue
          note,     \* the notifications of the packet queues and the return queue
          posting,  \* how far whoever has queued an item is with posting it
          kernel,   \* packets waiting in the kernel
          room,     \* the socket takes another packet
          fd,       \* SocketWaitable: the event, and whether FD_READ may set it
          deaf,     \* history: the event was reset and nothing read after it
          ample     \* history: at most a batch of buffers was in use when the cycle began

cycle == <<arm, ample>>
worker == <<stage, step, left, ready>>
held == <<buffers, egress, actorq>>
lent == <<out, guards, ret>>
io == <<kernel, room, fd, deaf>>
vars == <<cycle, worker, held, queue, lent, note, posting, io>>

Inputs == {"tun", "substrate"}
Notified == Queues \cup {"returns"}

\* The two-way queues, each with its receiver: mgmt_dispatch_worker and
\* adapter_manager_worker.
Lanes == {"dispatch", "bind"}
Senders == Queues \cup Lanes
Both(f) == f["dispatch"] + f["bind"]

\* The notification a sender posts: both receivers return buffers to one queue.
Target(p) == IF p \in Lanes THEN "returns" ELSE p

Stages == <<"returns", "writable", "mgmt", "requeue", "tun", "substrate">>

TypeOK ==
    /\ arm \in Arms
    /\ stage \in {"out", "wait"} \cup {Stages[i] : i \in DOMAIN Stages}
    /\ step \in {"begin", "swap", "take"}
    /\ left \in 0 .. BatchSize
    /\ ready \subseteq Notified \cup Inputs \cup {"writable"}
    /\ {buffers, actorq, ret} \subseteq 0 .. BufferCount
    /\ out \in [Lanes -> 0 .. BufferCount] /\ guards \in [Lanes -> 0 .. 1]
    /\ egress \in Seq({"normal", "priority"})
    /\ queue \in [Queues -> Seq({"normal", "priority"})]
    /\ note \in [Notified -> [event : BOOLEAN, pending : BOOLEAN]]
    /\ posting \in [Senders -> {"idle", "queued", "flagged"}]
    /\ kernel \in [Inputs -> 0 .. MaxArrivals]
    /\ room \in BOOLEAN /\ deaf \in BOOLEAN /\ ample \in BOOLEAN
    /\ fd \in [event : BOOLEAN, enabled : BOOLEAN]

Init ==
    /\ arm \in Arms
    /\ stage = "out" /\ step = "begin" /\ left = BatchSize /\ ready = {}
    /\ buffers = BufferCount /\ egress = <<>> /\ actorq = 0
    /\ queue = [q \in Queues |-> <<>>]
    /\ out = [l \in Lanes |-> 0] /\ guards = [l \in Lanes |-> 0] /\ ret = 0
    /\ note = [n \in Notified |-> [event |-> FALSE, pending |-> FALSE]]
    /\ posting = [p \in Senders |-> "idle"]
    /\ kernel = [i \in Inputs |-> 0]
    /\ room = TRUE
    /\ fd = [event |-> FALSE, enabled |-> TRUE] /\ deaf = FALSE
    /\ ample = TRUE

-------------------------------------------------------------------------------
(* Notify: a pipe that holds a byte, or an Event beside a flag.  Both      *)
(* fields of the pipe's notification are the byte.                         *)

Posted == [event |-> TRUE, pending |-> TRUE]

\* Sender p queued an item: the next thing it does is to post.
Announce(p) ==
    /\ posting[p] = "idle"
    /\ posting' = [posting EXCEPT ![p] = "queued"]

PostPipe(p) ==
    /\ posting[p] # "idle" /\ arm = "pipe"
    /\ note' = [note EXCEPT ![Target(p)] = Posted]
    /\ posting' = [posting EXCEPT ![p] = "idle"]
    /\ UNCHANGED <<cycle, worker, held, queue, lent, io>>

\* The flag is set before the Event.
PostEvent(p) ==
    /\ posting[p] # "idle" /\ arm = "event"
    /\ IF posting[p] = "queued"
       THEN /\ note' = [note EXCEPT ![Target(p)].pending = TRUE]
            /\ posting' = [posting EXCEPT ![p] = "flagged"]
       ELSE /\ note' = [note EXCEPT ![Target(p)].event = TRUE]
            /\ posting' = [posting EXCEPT ![p] = "idle"]
    /\ UNCHANGED <<cycle, worker, held, queue, lent, io>>

\* What comes first among the stages st.
First(st) == Stages[CHOOSE i \in DOMAIN Stages :
                        /\ Stages[i] \in st
                        /\ \A j \in 1 .. i - 1 : Stages[j] \notin st]

\* On to the next thing that is ready, or to the next cycle.
Advance ==
    /\ ready' = ready \ {stage}
    /\ stage' = IF ready' = {} THEN "out" ELSE First(ready')
    /\ step' = "begin"
    /\ left' = BatchSize

\* Mutant: the batch is one packet too long.
MutAnother ==
    IF left > 0 THEN left' = left - 1 /\ step' = "begin" /\ UNCHANGED <<stage, ready>>
                ELSE Advance

\* The next packet of the batch.
Another ==
    IF left > 1 THEN left' = left - 1 /\ step' = "begin" /\ UNCHANGED <<stage, ready>>
                ELSE Advance

\* What follows a consume: without a notification there is nothing to take.
Consumed(was) ==
    IF was THEN step' = "take" /\ UNCHANGED <<stage, left, ready>> ELSE Advance

\* Everything in the pipe is read at once.
ConsumePipe(n) ==
    /\ step = "begin" /\ arm = "pipe"
    /\ note' = [note EXCEPT ![n] = [event |-> FALSE, pending |-> FALSE]]
    /\ Consumed(note[n].event)

\* The Event is reset before the flag is read and cleared.
ConsumeEvent(n) ==
    \/ /\ step = "begin" /\ arm = "event"
       /\ note' = [note EXCEPT ![n].event = FALSE]
       /\ step' = "swap"
       /\ UNCHANGED <<stage, left, ready>>
    \/ /\ step = "swap"
       /\ note' = [note EXCEPT ![n].pending = FALSE]
       /\ Consumed(note[n].pending)

-------------------------------------------------------------------------------
(* The queues between the worker and management.                           *)

Priorities(s) == Len(SelectSeq(s, LAMBDA k : k = "priority"))

\* The tasks that hold an item or have queued one and not posted it yet.
Busy == {l \in Lanes : guards[l] = 1} \cup {p \in Senders : posting[p] # "idle"}

\* Sender::try_send of a packet queue
TrySend(q, kind) ==
    /\ Len(queue[q]) < QueueDepth
    /\ queue' = [queue EXCEPT ![q] = Append(@, kind)]
    /\ Announce(q)

\* MgmtSubstrateEgress and ActorOutputRequeue; a full queue refuses the packet.
TryEnqueuePacket(q, kind) ==
    /\ kind = "priority" => q = "mgmt" /\ Priorities(egress \o queue[q]) < MaxPriority
    /\ \A o \in Queues \ {q} : Len(queue[q]) + Len(queue[o]) < MaxQueued
    /\ Cardinality(Busy) < MaxTasks[arm]
    /\ TrySend(q, kind)
    /\ UNCHANGED <<cycle, worker, held, lent, note, io>>

\* Mutant: a packet the full queue refused is dropped with its buffer.
MutDispatch(l, hold) ==
    /\ out' = [out EXCEPT ![l] = IF @ < TwoWayDepth THEN @ + 1 ELSE @]
    /\ buffers' = hold

\* try_dispatch_mgmt_packet_*, try_request_tether_id: the buffer goes to management,
\* or back to the stack when the queue is full.
Dispatch(l, hold) ==
    IF out[l] < TwoWayDepth THEN out' = [out EXCEPT ![l] = @ + 1] /\ buffers' = hold
                            ELSE out' = out /\ buffers' = hold + 1

\* mgmt_dispatch_worker, adapter_manager_worker: receive an item.
Receive(l) ==
    /\ out[l] > 0 /\ guards[l] = 0 /\ posting[l] = "idle"
    /\ Cardinality(Busy) < MaxTasks[arm]
    /\ out' = [out EXCEPT ![l] = @ - 1]
    /\ guards' = [guards EXCEPT ![l] = 1]
    /\ UNCHANGED <<cycle, worker, held, queue, ret, note, posting, io>>

\* The ItemGuard is dropped: the buffer goes into the return queue.
GuardDrops(l) ==
    /\ guards[l] = 1
    /\ Announce(l)
    /\ guards' = [guards EXCEPT ![l] = 0]
    /\ ret' = ret + 1
    /\ UNCHANGED <<cycle, worker, held, queue, out, note, io>>

-------------------------------------------------------------------------------
(* The kernel.  On Windows the socket is waited for through an event that  *)
(* FD_READ sets; then it is not set again before the socket is read.       *)

FdRead == [event |-> TRUE, enabled |-> FALSE]

Arrive(i) ==
    /\ kernel[i] < MaxArrivals
    /\ kernel' = [kernel EXCEPT ![i] = @ + 1]
    /\ fd' = IF arm = "event" /\ i = "substrate" /\ fd.enabled THEN FdRead ELSE fd
    /\ UNCHANGED <<cycle, worker, held, queue, lent, note, posting, room, deaf>>

Drain ==
    /\ ~room
    /\ room' = TRUE
    /\ UNCHANGED <<cycle, worker, held, queue, lent, note, posting, kernel, fd, deaf>>

\* A recv enables FD_READ again, which is set at once if more packets wait.
Reenabled == IF kernel["substrate"] > 1 THEN FdRead ELSE [fd EXCEPT !.enabled = TRUE]

\* SocketWaitable::reset
Reset == [fd EXCEPT !.event = FALSE]

\* Which of n packets an engine gets into a socket that has room.  The unbatched
\* engines stop at the first failure; io_uring goes on, and reports the gaps.
PosixUnbatched(n) == {1 .. k : k \in 1 .. n}
StdUdp(n) == {1 .. k : k \in 1 .. n}
IoUring(n) == {s \in SUBSET (1 .. n) : 1 \in s}

\* The engines of the platform: the configuration selects one.
Engines(n) == IF arm = "event" THEN StdUdp(n) ELSE PosixUnbatched(n) \cup IoUring(n)

\* try_send_to_from_batch
Taken ==
    IF room /\ egress # <<>> THEN Engines(Len(egress)) ELSE {{}}

-------------------------------------------------------------------------------
(* The worker's cycle.                                                     *)

\* The PRIORITY packets that were not sent are moved to the front, the others truncated.
\* Nothing but the mark tells the packets apart here, so what is left is so many of it.
Retained(sent) ==
    LET kept == {i \in DOMAIN egress : egress[i] = "priority" /\ i \notin sent}
    IN  [i \in 1 .. Cardinality(kept) |-> "priority"]

ProcessSubstrateEgressQueue(freed) ==
    /\ \E sent \in Taken :
          /\ egress' = Retained(sent)
          /\ buffers' = buffers + freed + Len(egress) - Len(egress')
          /\ room' \in IF sent = DOMAIN egress THEN {room, FALSE} ELSE {FALSE}
    /\ UNCHANGED <<kernel, fd, deaf>>

\* process_out_queues: whatever the TUN device does not take is dropped.
ProcessOutQueues ==
    /\ stage = "out"
    /\ ProcessSubstrateEgressQueue(actorq)
    /\ actorq' = 0
    /\ stage' = "wait"
    /\ ample' = (BufferCount - buffers' <= BatchSize)
    /\ UNCHANGED <<arm, step, left, ready, queue, lent, note, posting>>

RecvInterest == buffers > 0
SendInterest == egress # <<>>

\* The socket is waited for itself, or on Windows through its event, for either interest.
Readable == IF arm = "event" THEN fd.event ELSE kernel["substrate"] > 0
Writable == IF arm = "event" THEN fd.event ELSE room

Signaled ==
    {n \in Queues : RecvInterest /\ note[n].event}
        \cup {i \in {"tun"} : RecvInterest /\ kernel[i] > 0}
        \cup {i \in {"substrate"} : RecvInterest /\ Readable}
        \cup {n \in {"returns"} : note[n].event}
        \cup {w \in {"writable"} : SendInterest /\ Writable}

\* WaitSet::wait reports every handle that is ready.
Reported(signaled) == signaled

\* The results of the wait are dealt with in the order of Stages.
Wait ==
    /\ stage = "wait"
    /\ Signaled # {}
    /\ ready' = Reported(Signaled)
    /\ stage' = First(ready')
    /\ UNCHANGED <<cycle, step, left, held, queue, lent, note, posting, io>>

\* A signal interrupted the wait before anything was ready: the cycle starts again.
Interrupted ==
    /\ stage = "wait"
    /\ Signaled = {}
    /\ stage' = "out"
    /\ UNCHANGED <<cycle, step, left, ready, held, queue, lent, note, posting, io>>

\* On Windows the event of the socket is reset before the batch is read.
Resets == arm = "event" /\ stage = "substrate" /\ step = "begin" /\ left = BatchSize

\* No buffer left for this source: it has to wait for the next cycle.  The event of the
\* socket has been reset by then.
NoBuffer ==
    /\ stage \in Queues \cup Inputs
    /\ step = "begin"
    /\ buffers = 0
    /\ fd' = IF Resets THEN Reset ELSE fd
    /\ deaf' = (deaf \/ (Resets /\ ~fd.enabled))
    /\ Advance
    /\ UNCHANGED <<cycle, held, queue, lent, note, posting, kernel, room>>

BeginSocketIn ==
    /\ Resets /\ buffers > 0
    /\ fd' = Reset
    /\ step' = "take"
    /\ UNCHANGED <<cycle, stage, left, ready, held, queue, lent, note, posting, kernel, room, deaf>>

BeginReceive ==
    /\ stage \in Notified
    /\ stage \in Queues => buffers > 0
    /\ ConsumePipe(stage) \/ ConsumeEvent(stage)
    /\ UNCHANGED <<cycle, held, queue, lent, posting, io>>

\* try_recv_many_returns
TryRecvManyReturns ==
    /\ stage = "returns" /\ step = "take"
    /\ buffers' = buffers + ret
    /\ ret' = 0
    /\ Advance
    /\ UNCHANGED <<cycle, egress, actorq, queue, out, guards, note, posting, io>>

\* process_substrate_socket_out
ProcessSubstrateSocketOut ==
    /\ stage = "writable"
    /\ ProcessSubstrateEgressQueue(0)
    /\ Advance
    /\ UNCHANGED <<cycle, actorq, queue, lent, note, posting>>

\* Mutant: the notification that stood for several items is not posted again.
MutRepost(q) == UNCHANGED note

\* Receiver::try_recv: the notification may have stood for several items.
Repost(q) ==
    IF Len(queue[q]) > 1 THEN note' = [note EXCEPT ![q] = Posted] ELSE UNCHANGED note

\* drop_and_count: the buffer goes back to the stack.
DropAndCount(hold) == egress' = egress /\ buffers' = hold + 1

\* Egress, or drop: no peer, no entry, or it does not encrypt.
Egress(kind, hold) ==
    \/ egress' = Append(egress, kind) /\ buffers' = hold
    \/ DropAndCount(hold)

\* What was read is no packet: it did not fit the buffer, or it is not IP.
Unusable == DropAndCount(buffers - 1) /\ UNCHANGED <<actorq, out>>

\* batch_process_packet_queue, one packet of a batch.
TryRecv ==
    /\ stage \in Queues /\ step = "take"
    /\ IF queue[stage] = <<>>
       THEN Advance /\ UNCHANGED <<held, queue, note>>
       ELSE /\ queue' = [queue EXCEPT ![stage] = Tail(@)]
            /\ Repost(stage)
            /\ Egress(Head(queue[stage]), buffers - 1)
            /\ Another
            /\ UNCHANGED actorq
    /\ UNCHANGED <<cycle, lent, posting, io>>

\* What becomes of a packet the actor sent: its flow is bound, it is sent, or dropped.
ActorOutput ==
    \/ Dispatch("bind", buffers - 1) /\ UNCHANGED <<egress, actorq>>
    \/ Egress("normal", buffers - 1) /\ UNCHANGED <<actorq, out>>
    \/ Unusable

\* A packet from the substrate is for management, for another link, or for the actor.
SubstrateIngress ==
    \/ Dispatch("dispatch", buffers - 1) /\ UNCHANGED <<egress, actorq>>
    \/ Egress("normal", buffers - 1) /\ UNCHANGED <<actorq, out>>
    \/ actorq' = actorq + 1 /\ buffers' = buffers - 1 /\ UNCHANGED <<egress, out>>
    \/ Unusable

\* One packet of a batch is read; when there is none left the read would block, and the
\* unused buffers are put back.
TryReadBuf(i, Use) ==
    IF kernel[i] = 0
    THEN Advance /\ UNCHANGED <<held, out, kernel>>
    ELSE kernel' = [kernel EXCEPT ![i] = @ - 1] /\ Use /\ Another

ProcessActorTunIn ==
    /\ stage = "tun" /\ buffers > 0
    /\ TryReadBuf("tun", ActorOutput)
    /\ UNCHANGED <<cycle, queue, guards, ret, note, posting, room, fd, deaf>>

ProcessSubstrateSocketIn ==
    /\ stage = "substrate" /\ buffers > 0 /\ ~Resets
    /\ TryReadBuf("substrate", SubstrateIngress)
    /\ fd' = IF arm = "event" THEN Reenabled ELSE fd
    /\ UNCHANGED <<cycle, queue, guards, ret, note, posting, room, deaf>>

-------------------------------------------------------------------------------

\* fastpath_main
Worker ==
    \/ ProcessOutQueues
    \/ Wait
    \/ NoBuffer
    \/ BeginReceive
    \/ BeginSocketIn
    \/ TryRecvManyReturns
    \/ ProcessSubstrateSocketOut
    \/ TryRecv
    \/ ProcessActorTunIn
    \/ ProcessSubstrateSocketIn

Next ==
    \/ Worker
    \/ Interrupted
    \/ \E q \in Queues, kind \in {"normal", "priority"} : TryEnqueuePacket(q, kind)
    \/ \E l \in Lanes : Receive(l)
    \/ \E l \in Lanes : GuardDrops(l)
    \/ \E p \in Senders : PostPipe(p)
    \/ \E p \in Senders : PostEvent(p)
    \/ \E i \in Inputs : Arrive(i)
    \/ Drain

Spec == Init /\ [][Next]_vars

-------------------------------------------------------------------------------
(* Properties.                                                             *)

\* No buffer is lost or duplicated: every one of the buffer_count buffers is on the
\* worker's stack, queued for output, lent to management, or on its way back.
BuffersConserved ==
    buffers + Len(egress) + actorq + Both(out) + Both(guards) + ret = BufferCount

\* When the worker is about to sleep, no item waits in a queue whose notification it
\* has eaten: once its sender has posted, the wait sees it and consume reports it.  And
\* on Windows no packet waits in a socket whose event was reset, although packets come
\* between the reset and the reads, unless there was no buffer to read after the reset.
NoLostWakeup ==
    stage = "wait" =>
        /\ \A n \in Notified :
              /\ \A p \in Senders : Target(p) = n => posting[p] = "idle"
              /\ IF n = "returns" THEN ret > 0 ELSE queue[n] # <<>>
              => note[n] = Posted
        /\ arm = "event" /\ kernel["substrate"] > 0 => fd.event \/ deaf

\* The reserve of five batches does what the worker's comment on FAIRNESS promises: in
\* a cycle that begins with at most one batch of buffers in use, whatever holds them,
\* each of the four sources can fill its batch, the last one too.
BatchesReserved ==
    /\ stage \in Queues \cup Inputs /\ step = "begin" /\ left = BatchSize
    /\ ample
    => buffers >= BatchSize
===============================================================================
