---------------------------- MODULE PacketIoProofs ----------------------------
(***************************************************************************)
(* The input and output loop of a fast path worker, for any number of      *)
(* buffers, any batch size and any depth of its queues, and for both       *)
(* implementations of Notify: no buffer is lost or duplicated, the worker  *)
(* never goes to sleep on an item whose notification it has eaten, and the *)
(* reserve of five batches is enough for the sources of a cycle.           *)
(***************************************************************************)
EXTENDS PacketIo, FiniteSetTheorems, TLAPS

Kinds == {"normal", "priority"}

StageNames == {"returns", "writable", "mgmt", "requeue", "tun", "substrate"}

-------------------------------------------------------------------------------
(* The inductive invariants.                                               *)

\* BuffersConserved, with what it takes to add the buffers up.
Counted ==
    /\ buffers \in Nat /\ actorq \in Nat /\ ret \in Nat
    /\ out \in [Lanes -> Nat] /\ guards \in [Lanes -> 0 .. 1]
    /\ egress \in Seq(Kinds)
    /\ BuffersConserved

ControlTyped ==
    /\ arm \in Arms /\ ample \in BOOLEAN
    /\ stage \in {"out", "wait"} \cup StageNames
    /\ step \in {"begin", "swap", "take"}
    /\ left \in 0 .. BatchSize
    /\ ready \subseteq Notified \cup Inputs \cup {"writable"}

QueuesTyped ==
    /\ queue \in [Queues -> Seq(Kinds)]
    /\ note \in [Notified -> [event : BOOLEAN, pending : BOOLEAN]]
    /\ posting \in [Senders -> {"idle", "queued", "flagged"}]

KernelTyped ==
    /\ kernel \in [Inputs -> 0 .. MaxArrivals]
    /\ room \in BOOLEAN /\ deaf \in BOOLEAN
    /\ fd \in [event : BOOLEAN, enabled : BOOLEAN]

\* An item waits in the queue that notification n is for.
HasItem(n) == IF n = "returns" THEN ret > 0 ELSE queue[n] # <<>>

\* Somebody who queued an item for n has come so far with posting.
Posts(n, how) == \E p \in Senders : Target(p) = n /\ posting[p] = how

\* The worker holds a buffer for the packet it takes from a queue or from the socket, and
\* starts every cycle with a receive from its beginning.
WorkerShape ==
    /\ stage \in {"out", "wait"} => step = "begin"
    /\ stage \in Queues \cup {"substrate"} /\ step = "take" => buffers > 0

\* Only the Event of Windows is posted and consumed in two steps.
TwoSteps ==
    /\ step = "swap" => arm = "event"
    /\ \A p \in Senders : posting[p] = "flagged" => arm = "event"

\* Whoever waits in a queue is announced: management is about to post, the notification
\* is posted, or the worker has consumed it (all of it, or the Event of it) and will take.
ItemsAnnounced ==
    \A n \in Notified :
        HasItem(n) =>
            \/ Posts(n, "queued")
            \/ stage = n /\ step = "take"
            \/ Posts(n, "flagged") /\ note[n].pending
            \/ stage = n /\ step = "swap" /\ note[n].pending
            \/ note[n] = Posted

BufferInv == Counted /\ ControlTyped /\ QueuesTyped /\ KernelTyped /\ WorkerShape

\* On Windows a packet in the socket has disabled FD_READ, and a socket whose FD_READ is
\* disabled is signaled, about to be read, or deaf.
SocketHeard ==
    arm = "event" =>
        /\ kernel["substrate"] > 0 => ~fd.enabled
        /\ ~fd.enabled => fd.event \/ deaf \/ (stage = "substrate" /\ step = "take")

WakeupInv == TwoSteps /\ ItemsAnnounced /\ SocketHeard

-------------------------------------------------------------------------------
(* The operators.                                                          *)

LEMMA StagesAre ==
  /\ DOMAIN Stages = 1 .. 6
  /\ Stages[1] = "returns" /\ Stages[2] = "writable" /\ Stages[3] = "mgmt"
  /\ Stages[4] = "requeue" /\ Stages[5] = "tun" /\ Stages[6] = "substrate"
BY DEF Stages

LEMMA StageNamesAre == {Stages[i] : i \in DOMAIN Stages} = StageNames
BY StagesAre DEF StageNames

LEMMA ReadyAreStages == Notified \cup Inputs \cup {"writable"} \subseteq StageNames
BY DepthAssumption DEF Notified, Inputs, StageNames

\* Of the stages that are ready one comes first.
LEMMA FirstExists ==
  ASSUME NEW st, st \subseteq StageNames, st # {}
  PROVE  \E i \in 1 .. 6 : Stages[i] \in st /\ \A j \in 1 .. i - 1 : Stages[j] \notin st
<1> DEFINE P(i) == Stages[i] \in st /\ \A j \in 1 .. i - 1 : Stages[j] \notin st
<1> SUFFICES \E i \in 1 .. 6 : P(i)
  OBVIOUS
<1>1. CASE "returns" \in st
  <2>1. P(1)
    BY <1>1, StagesAre
  <2> QED BY <2>1
<1>2. CASE "returns" \notin st /\ "writable" \in st
  <2>1. P(2)
    BY <1>2, StagesAre
  <2> QED BY <2>1
<1>3. CASE "returns" \notin st /\ "writable" \notin st /\ "mgmt" \in st
  <2>1. 1 .. 3 - 1 = {1, 2}
    OBVIOUS
  <2>2. P(3)
    BY <1>3, <2>1, StagesAre
  <2> QED BY <2>2
<1>4. CASE "returns" \notin st /\ "writable" \notin st /\ "mgmt" \notin st /\ "requeue" \in st
  <2>1. 1 .. 4 - 1 = {1, 2, 3}
    OBVIOUS
  <2>2. P(4)
    BY <1>4, <2>1, StagesAre
  <2> QED BY <2>2
<1>5. CASE /\ "returns" \notin st /\ "writable" \notin st /\ "mgmt" \notin st
           /\ "requeue" \notin st /\ "tun" \in st
  <2>1. 1 .. 5 - 1 = {1, 2, 3, 4}
    OBVIOUS
  <2>2. P(5)
    BY <1>5, <2>1, StagesAre
  <2> QED BY <2>2
<1>6. CASE /\ "returns" \notin st /\ "writable" \notin st /\ "mgmt" \notin st
           /\ "requeue" \notin st /\ "tun" \notin st
  <2>1. "substrate" \in st
    BY <1>6 DEF StageNames
  <2>2. 1 .. 6 - 1 = {1, 2, 3, 4, 5}
    OBVIOUS
  <2>3. P(6)
    BY <1>6, <2>1, <2>2, StagesAre
  <2> QED BY <2>3
<1> QED BY <1>1, <1>2, <1>3, <1>4, <1>5, <1>6

LEMMA FirstIsReady ==
  ASSUME NEW st, st \subseteq StageNames, st # {}
  PROVE  First(st) \in st
<1> DEFINE P(i) == Stages[i] \in st /\ \A j \in 1 .. i - 1 : Stages[j] \notin st
<1>1. \E i \in 1 .. 6 : P(i)
  BY FirstExists
<1>2. First(st) = Stages[CHOOSE i \in 1 .. 6 : P(i)]
  BY StagesAre DEF First
<1> HIDE DEF P
<1>3. P(CHOOSE i \in 1 .. 6 : P(i))
  BY <1>1
<1> QED BY <1>2, <1>3 DEF P

\* What is retained of the egress queue is not longer than it was.
LEMMA RetainedShorter ==
  ASSUME egress \in Seq(Kinds), NEW sent
  PROVE  /\ Retained(sent) \in Seq(Kinds)
         /\ Len(Retained(sent)) \in Nat
         /\ Len(Retained(sent)) <= Len(egress)
<1> DEFINE kept == {i \in DOMAIN egress : egress[i] = "priority" /\ i \notin sent}
<1>1. DOMAIN egress = 1 .. Len(egress) /\ Len(egress) \in Nat
  OBVIOUS
<1>2. IsFiniteSet(DOMAIN egress) /\ Cardinality(DOMAIN egress) = Len(egress)
  BY <1>1, FS_Interval
<1>3. kept \subseteq DOMAIN egress
  OBVIOUS
<1>4. Retained(sent) = [i \in 1 .. Cardinality(kept) |-> "priority"]
  BY DEF Retained
<1> HIDE DEF kept
<1>5. IsFiniteSet(kept) /\ Cardinality(kept) <= Len(egress)
  BY <1>2, <1>3, FS_Subset
<1>6. Cardinality(kept) \in Nat
  BY <1>5, FS_CardinalityType
<1>7. Retained(sent) \in Seq(Kinds)
  BY <1>4, <1>6 DEF Kinds
<1>8. Len(Retained(sent)) = Cardinality(kept)
  BY <1>4, <1>6
<1> QED BY <1>5, <1>6, <1>7, <1>8

-------------------------------------------------------------------------------
(* The worker's control.                                                   *)

LEMMA AdvanceTyped ==
  ASSUME ControlTyped, Advance, UNCHANGED cycle
  PROVE  ControlTyped' /\ step' = "begin"
<1>1. ready' \subseteq Notified \cup Inputs \cup {"writable"} /\ ready' \subseteq StageNames
  BY ReadyAreStages DEF ControlTyped, Advance
<1>2. ready' # {} => First(ready') \in StageNames
  BY <1>1, FirstIsReady
<1>3. stage' \in {"out", "wait"} \cup StageNames
  BY <1>2 DEF Advance
<1>4. left' \in 0 .. BatchSize
  BY BufferAssumption DEF Advance
<1> QED BY <1>1, <1>3, <1>4 DEF ControlTyped, Advance, cycle

LEMMA AnotherTyped ==
  ASSUME ControlTyped, Another, UNCHANGED cycle
  PROVE  ControlTyped' /\ step' = "begin"
<1>1. CASE left > 1
  <2>1. left' \in 0 .. BatchSize
    BY <1>1, BufferAssumption DEF Another, ControlTyped
  <2> QED BY <1>1, <2>1 DEF Another, ControlTyped, cycle
<1>2. CASE ~(left > 1)
  BY <1>2, AdvanceTyped DEF Another
<1> QED BY <1>1, <1>2

LEMMA ConsumedTyped ==
  ASSUME ControlTyped, UNCHANGED cycle,
         Advance \/ (step' = "take" /\ UNCHANGED <<stage, left, ready>>)
  PROVE  ControlTyped' /\ (step' = "begin" \/ (step' = "take" /\ stage' = stage))
<1>1. CASE step' = "take" /\ UNCHANGED <<stage, left, ready>>
  BY <1>1 DEF ControlTyped, cycle
<1>2. CASE Advance
  BY <1>2, AdvanceTyped
<1> QED BY <1>1, <1>2

-------------------------------------------------------------------------------
(* The buffers.                                                            *)

LEMMA BothNat ==
  ASSUME Counted
  PROVE  Both(out) \in Nat /\ Both(guards) \in Nat
BY DEF Counted, Both, Lanes

\* Sending moves buffers from the queue back to the stack.
LEMMA EgressCounted ==
  ASSUME Counted, NEW freed \in {0, actorq}, ProcessSubstrateEgressQueue(freed),
         actorq' = actorq - freed, UNCHANGED lent
  PROVE  Counted' /\ room' \in {room, FALSE} /\ UNCHANGED <<kernel, fd, deaf>>
<1>1. PICK sent \in Taken :
        /\ egress' = Retained(sent)
        /\ buffers' = buffers + freed + Len(egress) - Len(egress')
        /\ room' \in IF sent = DOMAIN egress THEN {room, FALSE} ELSE {FALSE}
  BY DEF ProcessSubstrateEgressQueue
<1>2. egress' \in Seq(Kinds) /\ Len(egress') \in Nat /\ Len(egress') <= Len(egress)
  BY <1>1, RetainedShorter DEF Counted
<1>3. Len(egress) \in Nat
  BY DEF Counted
<1>4. buffers' \in Nat /\ actorq' \in Nat
  BY <1>1, <1>2, <1>3 DEF Counted
<1>5. Both(out) \in Nat /\ Both(guards) \in Nat /\ Both(out)' = Both(out)
      /\ Both(guards)' = Both(guards)
  BY BothNat DEF lent, Both
<1>6. BuffersConserved'
  BY <1>1, <1>2, <1>3, <1>4, <1>5, BufferAssumption DEF Counted, BuffersConserved, lent
<1> QED BY <1>1, <1>2, <1>4, <1>6 DEF Counted, lent, ProcessSubstrateEgressQueue

\* A packet is queued for output or its buffer goes back to the stack.
LEMMA EgressKindCounted ==
  ASSUME Counted, buffers > 0, NEW kind \in Kinds, Egress(kind, buffers - 1),
         actorq' = actorq, UNCHANGED lent
  PROVE  Counted'
<1>1. CASE egress' = Append(egress, kind) /\ buffers' = buffers - 1
  <2>1. egress' \in Seq(Kinds) /\ Len(egress') = Len(egress) + 1 /\ Len(egress) \in Nat
    BY <1>1 DEF Counted
  <2>2. Both(out) \in Nat /\ Both(guards) \in Nat /\ Both(out)' = Both(out)
        /\ Both(guards)' = Both(guards)
    BY BothNat DEF lent, Both
  <2> QED BY <1>1, <2>1, <2>2, BufferAssumption DEF Counted, BuffersConserved, lent
<1>2. CASE DropAndCount(buffers - 1)
  <2>1. egress' = egress /\ buffers' = buffers
    BY <1>2 DEF DropAndCount, Counted
  <2> QED BY <2>1 DEF Counted, BuffersConserved, lent, Both
<1> QED BY <1>1, <1>2 DEF Egress

\* A packet goes to management, or its buffer back to the stack.
LEMMA DispatchCounted ==
  ASSUME Counted, buffers > 0, NEW l \in Lanes, Dispatch(l, buffers - 1),
         UNCHANGED <<egress, actorq, guards, ret>>
  PROVE  Counted'
<1>1. Len(egress) \in Nat /\ buffers - 1 \in Nat /\ buffers - 1 + 1 = buffers
  BY DEF Counted
<1>2. \/ out' = [out EXCEPT ![l] = @ + 1] /\ buffers' = buffers - 1
      \/ out' = out /\ buffers' = buffers
  BY <1>1 DEF Dispatch
<1>3. CASE out' = [out EXCEPT ![l] = @ + 1] /\ buffers' = buffers - 1
  <2>1. out' \in [Lanes -> Nat] /\ Both(out)' = Both(out) + 1
    BY <1>3 DEF Counted, Lanes, Both
  <2>2. Both(guards)' = Both(guards) /\ Both(guards) \in Nat /\ Both(out) \in Nat
    BY BothNat DEF Both
  <2>3. buffers \in Nat /\ actorq \in Nat /\ ret \in Nat /\ BuffersConserved
    BY DEF Counted
  <2>4. BuffersConserved'
    BY <1>1, <1>3, <2>1, <2>2, <2>3, BufferAssumption DEF BuffersConserved
  <2> QED BY <1>1, <1>3, <2>1, <2>4 DEF Counted
<1>4. CASE out' = out /\ buffers' = buffers
  BY <1>4 DEF Counted, BuffersConserved, Both
<1> QED BY <1>2, <1>3, <1>4

LEMMA UnusableCounted ==
  ASSUME Counted, buffers > 0, Unusable, UNCHANGED <<guards, ret>>
  PROVE  Counted'
<1>1. egress' = egress /\ buffers' = buffers
  BY DEF Unusable, DropAndCount, Counted
<1> QED BY <1>1 DEF Unusable, Counted, BuffersConserved, Both

\* One packet read.
LEMMA ActorOutputCounted ==
  ASSUME Counted, buffers > 0, ActorOutput, UNCHANGED <<guards, ret>>
  PROVE  Counted'
<1>1. "normal" \in Kinds /\ "bind" \in Lanes /\ "dispatch" \in Lanes
  BY DEF Kinds, Lanes
<1> QED BY <1>1, DispatchCounted, EgressKindCounted, UnusableCounted DEF ActorOutput, lent

LEMMA SubstrateIngressCounted ==
  ASSUME Counted, buffers > 0, SubstrateIngress, UNCHANGED <<guards, ret>>
  PROVE  Counted'
<1>1. "normal" \in Kinds /\ "bind" \in Lanes /\ "dispatch" \in Lanes
  BY DEF Kinds, Lanes
<1>2. CASE actorq' = actorq + 1 /\ buffers' = buffers - 1 /\ UNCHANGED <<egress, out>>
  <2>1. Len(egress) \in Nat /\ buffers - 1 \in Nat
    BY DEF Counted
  <2>2. Both(out) \in Nat /\ Both(guards) \in Nat /\ Both(out)' = Both(out)
        /\ Both(guards)' = Both(guards)
    BY <1>2, BothNat DEF Both
  <2> QED BY <1>2, <2>1, <2>2, BufferAssumption DEF Counted, BuffersConserved
<1> QED BY <1>1, <1>2, DispatchCounted, EgressKindCounted, UnusableCounted
        DEF SubstrateIngress, lent

LEMMA HeldSameCounted ==
  ASSUME Counted, UNCHANGED <<held, lent>>
  PROVE  Counted'
BY DEF Counted, BuffersConserved, held, lent, Both

LEMMA BufferInit == Init => BufferInv
<1> SUFFICES ASSUME Init PROVE BufferInv
  OBVIOUS
<1>1. egress = <<>> /\ egress \in Seq(Kinds) /\ Len(egress) = 0
  BY DEF Init
<1>2. Counted
  BY <1>1, BufferAssumption DEF Init, Counted, BuffersConserved, Both, Lanes
<1>3. ControlTyped
  BY BufferAssumption DEF Init, ControlTyped
<1>4. <<>> \in Seq(Kinds)
  OBVIOUS
<1>5. QueuesTyped
  BY <1>4 DEF Init, QueuesTyped
<1>6. KernelTyped
  <2>1. kernel \in [Inputs -> 0 .. MaxArrivals]
    BY BufferAssumption DEF Init
  <2> QED BY <2>1 DEF Init, KernelTyped
<1> QED BY <1>2, <1>3, <1>5, <1>6 DEF Init, BufferInv, WorkerShape

\* A step of the worker that ends a packet, or what was ready.
LEMMA WorkerBegins ==
  ASSUME Counted', ControlTyped', QueuesTyped', KernelTyped', step' = "begin"
  PROVE  BufferInv'
BY DEF BufferInv, WorkerShape

LEMMA RepostTyped ==
  ASSUME QueuesTyped, NEW q \in Queues, Repost(q)
  PROVE  note' \in [Notified -> [event : BOOLEAN, pending : BOOLEAN]]
<1>1. Posted \in [event : BOOLEAN, pending : BOOLEAN]
  BY DEF Posted
<1> QED BY <1>1 DEF QueuesTyped, Repost, Notified

LEMMA BeginReceiveBuffers ==
  ASSUME BufferInv, BeginReceive
  PROVE  BufferInv'
<1> DEFINE NoteType == [event : BOOLEAN, pending : BOOLEAN]
<1>1. /\ Counted /\ ControlTyped /\ QueuesTyped /\ KernelTyped
      /\ stage \in Notified /\ UNCHANGED cycle /\ (stage \in Queues => buffers > 0)
      /\ UNCHANGED <<held, queue, lent, posting, io>>
  BY DEF BufferInv, BeginReceive
<1>2. Counted' /\ KernelTyped' /\ buffers' = buffers
  BY <1>1, HeldSameCounted DEF KernelTyped, held, io
<1>3. note[stage] \in NoteType /\ note[stage].event \in BOOLEAN /\ note[stage].pending \in BOOLEAN
  BY <1>1 DEF QueuesTyped
<1>4. note' \in [Notified -> NoteType]
  <2>1. \/ note' = [note EXCEPT ![stage] = [event |-> FALSE, pending |-> FALSE]]
        \/ note' = [note EXCEPT ![stage].event = FALSE]
        \/ note' = [note EXCEPT ![stage].pending = FALSE]
    BY DEF BeginReceive, ConsumePipe, ConsumeEvent
  <2>2. /\ [event |-> FALSE, pending |-> FALSE] \in NoteType
        /\ [note[stage] EXCEPT !.event = FALSE] \in NoteType
        /\ [note[stage] EXCEPT !.pending = FALSE] \in NoteType
    BY <1>3
  <2>3. \/ note' = [note EXCEPT ![stage] = [event |-> FALSE, pending |-> FALSE]]
        \/ note' = [note EXCEPT ![stage] = [note[stage] EXCEPT !.event = FALSE]]
        \/ note' = [note EXCEPT ![stage] = [note[stage] EXCEPT !.pending = FALSE]]
    BY <2>1
  <2>4. \E x \in NoteType : note' = [note EXCEPT ![stage] = x]
    BY <2>2, <2>3, Zenon
  <2> HIDE DEF NoteType
  <2>5. note \in [Notified -> NoteType]
    BY <1>1 DEF QueuesTyped, NoteType
  <2> QED BY <1>1, <2>4, <2>5
<1>5. QueuesTyped'
  BY <1>1, <1>4 DEF QueuesTyped
<1>6. /\ ControlTyped'
      /\ \/ step' = "begin"
         \/ step' \in {"swap", "take"} /\ stage' = stage
  <2>1. CASE ConsumePipe(stage)
    <3>1. Advance \/ (step' = "take" /\ UNCHANGED <<stage, left, ready>>)
      BY <1>3, <2>1 DEF ConsumePipe, Consumed
    <3> QED BY <1>1, <3>1, ConsumedTyped
  <2>2. CASE step' = "swap" /\ UNCHANGED <<stage, left, ready>>
    BY <1>1, <2>2 DEF ControlTyped, cycle
  <2>3. CASE Consumed(note[stage].pending)
    <3>1. Advance \/ (step' = "take" /\ UNCHANGED <<stage, left, ready>>)
      BY <1>3, <2>3 DEF Consumed
    <3> QED BY <1>1, <3>1, ConsumedTyped
  <2> QED BY <2>1, <2>2, <2>3 DEF BeginReceive, ConsumeEvent
<1>7. WorkerShape'
  <2>1. stage \notin {"out", "wait", "substrate"}
    BY <1>1, DepthAssumption DEF Notified
  <2> QED BY <1>1, <1>2, <1>6, <2>1 DEF WorkerShape
<1> QED BY <1>2, <1>5, <1>6, <1>7 DEF BufferInv

LEMMA TryRecvBuffers ==
  ASSUME BufferInv, TryRecv
  PROVE  BufferInv'
<1>1. /\ Counted /\ ControlTyped /\ QueuesTyped /\ KernelTyped
      /\ stage \in Queues /\ UNCHANGED cycle /\ buffers > 0
      /\ UNCHANGED <<lent, posting, io>>
  BY DEF BufferInv, TryRecv, WorkerShape
<1>2. KernelTyped'
  BY <1>1 DEF KernelTyped, io
<1>3. CASE queue[stage] = <<>>
  <2>1. Advance /\ UNCHANGED <<held, queue, note>>
    BY <1>3 DEF TryRecv
  <2>2. Counted'
    BY <1>1, <2>1, HeldSameCounted
  <2>3. QueuesTyped'
    BY <1>1, <2>1 DEF QueuesTyped
  <2> QED BY <1>1, <1>2, <2>1, <2>2, <2>3, AdvanceTyped, WorkerBegins
<1>4. CASE queue[stage] # <<>>
  <2>1. /\ queue' = [queue EXCEPT ![stage] = Tail(@)] /\ Repost(stage) /\ Another
        /\ Egress(Head(queue[stage]), buffers - 1) /\ actorq' = actorq
    BY <1>4 DEF TryRecv
  <2>2. queue[stage] \in Seq(Kinds)
    BY <1>1 DEF QueuesTyped
  <2>3. Head(queue[stage]) \in Kinds /\ Tail(queue[stage]) \in Seq(Kinds)
    BY <1>4, <2>2
  <2>4. Counted'
    BY <1>1, <2>1, <2>3, EgressKindCounted
  <2>5. queue' \in [Queues -> Seq(Kinds)]
    BY <1>1, <2>1, <2>3 DEF QueuesTyped
  <2>6. QueuesTyped'
    BY <1>1, <2>1, <2>5, RepostTyped DEF QueuesTyped
  <2> QED BY <1>1, <1>2, <2>1, <2>4, <2>6, AnotherTyped, WorkerBegins
<1> QED BY <1>3, <1>4

\* A packet is read from the kernel.
LEMMA TryReadBuffers ==
  ASSUME BufferInv, NEW i \in Inputs, stage = i, buffers > 0,
         \/ kernel[i] = 0 /\ Advance /\ UNCHANGED <<held, out, kernel>>
         \/ /\ kernel[i] # 0 /\ kernel' = [kernel EXCEPT ![i] = @ - 1]
            /\ ActorOutput \/ SubstrateIngress
            /\ Another,
         UNCHANGED <<cycle, queue, guards, ret, note, posting, room, deaf>>,
         fd' \in [event : BOOLEAN, enabled : BOOLEAN]
  PROVE  BufferInv'
<1>1. Counted /\ ControlTyped /\ QueuesTyped /\ KernelTyped
  BY DEF BufferInv
<1>2. QueuesTyped'
  BY <1>1 DEF QueuesTyped
<1>3. CASE Advance /\ UNCHANGED <<held, out, kernel>>
  <2>1. Counted' /\ KernelTyped'
    BY <1>1, <1>3, HeldSameCounted DEF lent, KernelTyped
  <2> QED BY <1>1, <1>2, <1>3, <2>1, AdvanceTyped, WorkerBegins
<1>4. CASE /\ kernel[i] # 0 /\ kernel' = [kernel EXCEPT ![i] = @ - 1]
           /\ ActorOutput \/ SubstrateIngress
           /\ Another
  <2>1. Counted'
    BY <1>1, <1>4, ActorOutputCounted, SubstrateIngressCounted
  <2>2. kernel[i] \in 0 .. MaxArrivals
    BY <1>1 DEF KernelTyped
  <2>3. kernel[i] - 1 \in 0 .. MaxArrivals
    BY <1>4, <2>2, BufferAssumption
  <2>4. KernelTyped'
    BY <1>1, <1>4, <2>3 DEF KernelTyped
  <2> QED BY <1>1, <1>2, <1>4, <2>1, <2>4, AnotherTyped, WorkerBegins
<1> QED BY <1>3, <1>4

\* Announcing and posting.
LEMMA AnnounceTyped ==
  ASSUME QueuesTyped, NEW p \in Senders, Announce(p)
  PROVE  posting' \in [Senders -> {"idle", "queued", "flagged"}]
BY DEF Announce, QueuesTyped

LEMMA TargetNotified == \A p \in Senders : Target(p) \in Notified
BY DEF Senders, Target, Notified

LEMMA PostTyped ==
  ASSUME QueuesTyped, NEW p \in Senders, PostPipe(p) \/ PostEvent(p)
  PROVE  QueuesTyped'
<1> DEFINE NoteType == [event : BOOLEAN, pending : BOOLEAN]
           n == Target(p)
<1>1. n \in Notified
  BY TargetNotified
<1>2. note \in [Notified -> NoteType] /\ note[n] \in NoteType
  BY <1>1 DEF QueuesTyped
<1>3. /\ \/ posting' = [posting EXCEPT ![p] = "idle"]
         \/ posting' = [posting EXCEPT ![p] = "flagged"]
      /\ queue' = queue
      /\ \/ note' = [note EXCEPT ![n] = Posted]
         \/ note' = [note EXCEPT ![n] = [note[n] EXCEPT !.pending = TRUE]]
         \/ note' = [note EXCEPT ![n] = [note[n] EXCEPT !.event = TRUE]]
  BY <1>1 DEF PostPipe, PostEvent
<1>4. /\ Posted \in NoteType
      /\ [note[n] EXCEPT !.event = TRUE] \in NoteType
      /\ [note[n] EXCEPT !.pending = TRUE] \in NoteType
  BY <1>2 DEF Posted
<1>5. \E x \in NoteType : note' = [note EXCEPT ![n] = x]
  BY <1>3, <1>4, Zenon
<1>6. QueuesTyped => queue \in [Queues -> Seq(Kinds)]
  BY DEF QueuesTyped
<1>7. posting' \in [Senders -> {"idle", "queued", "flagged"}]
  BY <1>3 DEF QueuesTyped
<1> HIDE DEF NoteType, n
<1>8. note' \in [Notified -> NoteType]
  BY <1>2, <1>5
<1> QED BY <1>3, <1>6, <1>7, <1>8 DEF QueuesTyped, NoteType

LEMMA BufferStep == BufferInv /\ [Next]_vars => BufferInv'
<1> SUFFICES ASSUME BufferInv, [Next]_vars PROVE BufferInv'
  OBVIOUS
<1>0. Counted /\ ControlTyped /\ QueuesTyped /\ KernelTyped /\ WorkerShape
  BY DEF BufferInv
<1>1. CASE ProcessOutQueues
  <2>1. actorq - actorq = 0 /\ actorq \in Nat
    BY <1>0 DEF Counted
  <2>2. Counted' /\ room' \in {room, FALSE} /\ UNCHANGED <<kernel, fd, deaf>>
    BY <1>0, <1>1, <2>1, EgressCounted DEF ProcessOutQueues
  <2>6. ample' = (BufferCount - buffers' <= BatchSize)
    BY <1>1 DEF ProcessOutQueues
  <2>5. ample' \in BOOLEAN
    BY ONLY <2>6, <2>2, BufferAssumption DEF Counted
  <2>3. ControlTyped' /\ QueuesTyped' /\ KernelTyped'
    BY <1>0, <1>1, <2>2, <2>5 DEF ProcessOutQueues, ControlTyped, QueuesTyped, KernelTyped
  <2>4. step' = "begin"
    BY <1>0, <1>1 DEF ProcessOutQueues, WorkerShape
  <2> QED BY <2>2, <2>3, <2>4, WorkerBegins
<1>2. CASE Wait
  <2>1. Signaled \subseteq Notified \cup Inputs \cup {"writable"} /\ Signaled # {}
    BY <1>2 DEF Wait, Signaled, Notified, Inputs
  <2>2. ready' = Signaled /\ stage' \in StageNames
    BY <1>2, <2>1, ReadyAreStages, FirstIsReady DEF Wait, Reported
  <2>3. Counted'
    BY <1>0, <1>2, HeldSameCounted DEF Wait
  <2>4. ControlTyped'
    BY <1>0, <1>2, <2>1, <2>2 DEF Wait, ControlTyped, cycle
  <2>5. QueuesTyped' /\ KernelTyped'
    BY <1>0, <1>2 DEF Wait, QueuesTyped, KernelTyped, io
  <2>6. step' = "begin"
    BY <1>0, <1>2 DEF Wait, WorkerShape
  <2> QED BY <2>3, <2>4, <2>5, <2>6, WorkerBegins
<1>3. CASE NoBuffer
  <2>1. fd' \in [event : BOOLEAN, enabled : BOOLEAN]
    BY <1>0, <1>3 DEF NoBuffer, Reset, KernelTyped
  <2>2. deaf' \in BOOLEAN
    BY <1>3, Zenon DEF NoBuffer
  <2>3. Counted' /\ QueuesTyped' /\ KernelTyped'
    BY <1>0, <1>3, <2>1, <2>2, HeldSameCounted DEF NoBuffer, QueuesTyped, KernelTyped
  <2> QED BY <1>0, <1>3, <2>3, AdvanceTyped, WorkerBegins DEF NoBuffer
<1>4. CASE BeginReceive
  BY <1>4, BeginReceiveBuffers
<1>5. CASE TryRecvManyReturns
  <2>0. Both(out) \in Nat /\ Both(guards) \in Nat /\ Both(out)' = Both(out)
        /\ Both(guards)' = Both(guards) /\ Len(egress) \in Nat
    BY <1>0, <1>5, BothNat DEF TryRecvManyReturns, Both, Counted
  <2>1. Counted'
    BY <1>0, <1>5, <2>0, BufferAssumption DEF TryRecvManyReturns, Counted, BuffersConserved
  <2>2. QueuesTyped' /\ KernelTyped'
    BY <1>0, <1>5 DEF TryRecvManyReturns, QueuesTyped, KernelTyped, io
  <2> QED BY <1>0, <1>5, <2>1, <2>2, AdvanceTyped, WorkerBegins DEF TryRecvManyReturns
<1>6. CASE ProcessSubstrateSocketOut
  <2>1. actorq - 0 = actorq
    BY <1>0 DEF Counted
  <2>2. Counted' /\ room' \in {room, FALSE} /\ UNCHANGED <<kernel, fd, deaf>>
    BY <1>0, <1>6, <2>1, EgressCounted DEF ProcessSubstrateSocketOut
  <2>3. QueuesTyped' /\ KernelTyped'
    BY <1>0, <1>6, <2>2 DEF ProcessSubstrateSocketOut, QueuesTyped, KernelTyped
  <2> QED BY <1>0, <1>6, <2>2, <2>3, AdvanceTyped, WorkerBegins DEF ProcessSubstrateSocketOut
<1>7. CASE TryRecv
  BY <1>7, TryRecvBuffers
<1>8. CASE ProcessActorTunIn
  BY <1>0, <1>8, TryReadBuffers DEF ProcessActorTunIn, TryReadBuf, Inputs, KernelTyped
<1>9. CASE ProcessSubstrateSocketIn
  <2>1. fd' \in [event : BOOLEAN, enabled : BOOLEAN]
    BY <1>0, <1>9 DEF ProcessSubstrateSocketIn, Reenabled, FdRead, KernelTyped
  <2> QED BY <1>9, <2>1, TryReadBuffers DEF ProcessSubstrateSocketIn, TryReadBuf, Inputs
<1>10. CASE Interrupted
  <2>1. Counted'
    BY <1>0, <1>10, HeldSameCounted DEF Interrupted
  <2>2. ControlTyped' /\ QueuesTyped' /\ KernelTyped'
    BY <1>0, <1>10 DEF Interrupted, ControlTyped, QueuesTyped, KernelTyped, cycle, io
  <2>3. step' = "begin"
    BY <1>0, <1>10 DEF Interrupted, WorkerShape
  <2> QED BY <2>1, <2>2, <2>3, WorkerBegins
<1>11. ASSUME Counted', QueuesTyped', KernelTyped', UNCHANGED <<cycle, worker, held>>
       PROVE  BufferInv'
  BY <1>0, <1>11 DEF BufferInv, ControlTyped, WorkerShape, cycle, worker, held
<1>12. ASSUME NEW q \in Queues, NEW kind \in {"normal", "priority"}, TryEnqueuePacket(q, kind)
       PROVE  BufferInv'
  <2>1. Counted' /\ KernelTyped'
    BY <1>0, <1>12, HeldSameCounted DEF TryEnqueuePacket, KernelTyped, io
  <2>2. queue[q] \in Seq(Kinds) /\ queue \in [Queues -> Seq(Kinds)]
    BY <1>0 DEF QueuesTyped
  <2>3. Append(queue[q], kind) \in Seq(Kinds)
    BY <2>2 DEF Kinds
  <2>4. queue' \in [Queues -> Seq(Kinds)]
    BY <1>12, <2>2, <2>3 DEF TryEnqueuePacket, TrySend
  <2>5. QueuesTyped'
    BY <1>0, <1>12, <2>4, AnnounceTyped DEF TryEnqueuePacket, TrySend, QueuesTyped, Senders
  <2> QED BY <1>11, <1>12, <2>1, <2>5 DEF TryEnqueuePacket
<1>13. ASSUME NEW l \in Lanes, Receive(l) PROVE BufferInv'
  <2>1. /\ out' \in [Lanes -> Nat] /\ guards' \in [Lanes -> 0 .. 1]
        /\ Both(out)' = Both(out) - 1 /\ Both(guards)' = Both(guards) + 1
    BY <1>0, <1>13 DEF Receive, Counted, Both, Lanes
  <2>2. Both(out) \in Nat /\ Both(guards) \in Nat /\ Len(egress) \in Nat
    BY <1>0, BothNat DEF Counted
  <2>5. /\ buffers \in Nat /\ actorq \in Nat /\ ret \in Nat /\ BuffersConserved
        /\ UNCHANGED <<buffers, egress, actorq, ret>>
    BY <1>0, <1>13 DEF Counted, Receive, held
  <2>6. BuffersConserved'
    BY <2>1, <2>2, <2>5, BufferAssumption DEF BuffersConserved
  <2>3. Counted'
    BY <1>0, <2>1, <2>5, <2>6 DEF Counted
  <2>4. QueuesTyped' /\ KernelTyped'
    BY <1>0, <1>13 DEF Receive, QueuesTyped, KernelTyped, io
  <2> QED BY <1>11, <1>13, <2>3, <2>4 DEF Receive
<1>14. ASSUME NEW l \in Lanes, GuardDrops(l) PROVE BufferInv'
  <2>1. guards' \in [Lanes -> 0 .. 1] /\ Both(guards)' = Both(guards) - 1
    BY <1>0, <1>14 DEF GuardDrops, Counted, Both, Lanes
  <2>2. /\ Both(out) \in Nat /\ Both(guards) \in Nat /\ Len(egress) \in Nat
        /\ Both(out)' = Both(out)
    BY <1>0, <1>14, BothNat DEF GuardDrops, Counted, Both
  <2>5. /\ buffers \in Nat /\ actorq \in Nat /\ ret \in Nat /\ BuffersConserved
        /\ UNCHANGED <<buffers, egress, actorq>> /\ ret' = ret + 1
    BY <1>0, <1>14 DEF Counted, GuardDrops, held
  <2>6. BuffersConserved'
    BY <2>1, <2>2, <2>5, BufferAssumption DEF BuffersConserved
  <2>3. Counted'
    BY <1>0, <1>14, <2>1, <2>5, <2>6 DEF Counted, GuardDrops
  <2>4. QueuesTyped' /\ KernelTyped'
    BY <1>0, <1>14, AnnounceTyped DEF GuardDrops, QueuesTyped, KernelTyped, io, Senders
  <2> QED BY <1>11, <1>14, <2>3, <2>4 DEF GuardDrops
<1>15. ASSUME NEW p \in Senders, PostPipe(p) \/ PostEvent(p) PROVE BufferInv'
  <2>1. UNCHANGED <<cycle, worker, held, queue, lent, io>>
    BY <1>15 DEF PostPipe, PostEvent
  <2>2. Counted' /\ KernelTyped'
    BY <1>0, <2>1, HeldSameCounted DEF KernelTyped, io
  <2> QED BY <1>0, <1>11, <1>15, <2>1, <2>2, PostTyped
<1>16. ASSUME NEW i \in Inputs, Arrive(i) PROVE BufferInv'
  <2>1. Counted' /\ QueuesTyped'
    BY <1>0, <1>16, HeldSameCounted DEF Arrive, QueuesTyped
  <2>2. kernel[i] + 1 \in 0 .. MaxArrivals
    BY <1>0, <1>16, BufferAssumption DEF Arrive, KernelTyped
  <2>3. kernel' \in [Inputs -> 0 .. MaxArrivals]
    BY <1>0, <1>16, <2>2 DEF Arrive, KernelTyped
  <2>4. fd' \in [event : BOOLEAN, enabled : BOOLEAN]
    BY <1>0, <1>16 DEF Arrive, KernelTyped, FdRead
  <2>5. KernelTyped'
    BY <1>0, <1>16, <2>3, <2>4 DEF Arrive, KernelTyped
  <2> QED BY <1>11, <1>16, <2>1, <2>5 DEF Arrive
<1>17. CASE Drain
  <2>1. Counted' /\ QueuesTyped' /\ KernelTyped'
    BY <1>0, <1>17, HeldSameCounted DEF Drain, QueuesTyped, KernelTyped
  <2> QED BY <1>11, <1>17, <2>1 DEF Drain
<1>18. CASE UNCHANGED vars
  <2>1. Counted' /\ QueuesTyped' /\ KernelTyped'
    BY <1>0, <1>18, HeldSameCounted DEF vars, QueuesTyped, KernelTyped, io
  <2> QED BY <1>11, <1>18, <2>1 DEF vars
<1>19. CASE BeginSocketIn
  <2>1. Counted' /\ QueuesTyped'
    BY <1>0, <1>19, HeldSameCounted DEF BeginSocketIn, QueuesTyped
  <2>2. ControlTyped'
    BY <1>0, <1>19 DEF BeginSocketIn, ControlTyped, cycle
  <2>3. KernelTyped'
    BY <1>0, <1>19 DEF BeginSocketIn, KernelTyped, Reset
  <2>4. WorkerShape'
    BY <1>0, <1>19 DEF BeginSocketIn, Resets, WorkerShape, held
  <2> QED BY <2>1, <2>2, <2>3, <2>4 DEF BufferInv
<1> QED
  BY <1>1, <1>2, <1>3, <1>4, <1>5, <1>6, <1>7, <1>8, <1>9, <1>10, <1>12, <1>13, <1>14, <1>15,
     <1>16, <1>17, <1>18, <1>19 DEF Next, Worker

LEMMA BuffersAlways == Spec => []BufferInv
BY BufferInit, BufferStep, PTL DEF Spec

\* The worker's state is always well formed; no count of buffers leaves 0 .. BufferCount.
THEOREM PacketIoTypeCorrect == Spec => []TypeOK
<1>1. BufferInv => TypeOK
  <2> SUFFICES ASSUME BufferInv PROVE TypeOK
    OBVIOUS
  <2>1. Counted /\ Len(egress) \in Nat
    BY DEF BufferInv, Counted
  <2>2. {buffers, actorq, Both(out), ret} \subseteq 0 .. BufferCount
    BY <2>1, BothNat, BufferAssumption DEF Counted, BuffersConserved
  <2>3. out \in [Lanes -> 0 .. BufferCount]
    BY <2>1, <2>2, BufferAssumption DEF Counted, Both, Lanes
  <2> QED
    BY <2>1, <2>2, <2>3, StageNamesAre DEF BufferInv, Counted, ControlTyped, QueuesTyped, KernelTyped,
       TypeOK, Kinds
<1> QED BY <1>1, BuffersAlways, PTL

\* Batches cut short, full queues, packets that are dropped and buffers lent to
\* management notwithstanding, every one of the buffer_count buffers is in one place.
THEOREM NoBufferLost == Spec => []BuffersConserved
<1>1. BufferInv => BuffersConserved
  BY DEF BufferInv, Counted
<1> QED BY <1>1, BuffersAlways, PTL

-------------------------------------------------------------------------------
(* The notifications.                                                      *)

\* What the worker does outside a receive eats no notification.
LEMMA OutsideReceive ==
  ASSUME ItemsAnnounced, UNCHANGED <<queue, ret, note, posting>>,
         stage \notin Notified \/ step = "begin"
  PROVE  ItemsAnnounced'
BY DEF ItemsAnnounced, HasItem, Posts

\* Nor does anybody else.
LEMMA OutsideWorker ==
  ASSUME ItemsAnnounced, UNCHANGED <<queue, ret, note, posting, stage, step>>
  PROVE  ItemsAnnounced'
BY DEF ItemsAnnounced, HasItem, Posts

\* Management queues an item and announces it.
LEMMA QueuedIsAnnounced ==
  ASSUME QueuesTyped, ItemsAnnounced, NEW p \in Senders, Announce(p),
         UNCHANGED <<note, stage, step>>,
         \A n \in Notified \ {Target(p)} : HasItem(n)' => HasItem(n)
  PROVE  ItemsAnnounced'
<1>1. Posts(Target(p), "queued")'
  BY DEF Posts, Announce, QueuesTyped
<1>2. \A n, how : Posts(n, how) /\ how # "idle" => Posts(n, how)'
  BY DEF Posts, Announce, QueuesTyped
<1>3. SUFFICES ASSUME NEW n \in Notified, HasItem(n)', n # Target(p)
               PROVE  \/ Posts(n, "queued")'
                      \/ stage = n /\ step = "take"
                      \/ Posts(n, "flagged")' /\ note[n].pending
                      \/ stage = n /\ step = "swap" /\ note[n].pending
                      \/ note[n] = Posted
  BY <1>1 DEF ItemsAnnounced
<1>4. HasItem(n)
  BY <1>3
<1> QED BY <1>2, <1>4 DEF ItemsAnnounced

LEMMA PostAnnounces ==
  ASSUME QueuesTyped, ItemsAnnounced, NEW p \in Senders, PostPipe(p) \/ PostEvent(p)
  PROVE  ItemsAnnounced'
<1> DEFINE q == Target(p)
<1>1. q \in Notified
  BY TargetNotified
<1>2. UNCHANGED <<queue, ret, stage, step>>
  BY DEF PostPipe, PostEvent, worker, lent
<1>3. note[q] \in [event : BOOLEAN, pending : BOOLEAN] /\ q \in DOMAIN note
  BY <1>1 DEF QueuesTyped
<1>4. SUFFICES ASSUME NEW n \in Notified, HasItem(n)'
               PROVE  \/ Posts(n, "queued")'
                      \/ stage = n /\ step = "take"
                      \/ Posts(n, "flagged")' /\ note'[n].pending
                      \/ stage = n /\ step = "swap" /\ note'[n].pending
                      \/ note'[n] = Posted
  BY <1>2 DEF ItemsAnnounced
<1>5. /\ HasItem(n)
      /\ \/ Posts(n, "queued")
         \/ stage = n /\ step = "take"
         \/ Posts(n, "flagged") /\ note[n].pending
         \/ stage = n /\ step = "swap" /\ note[n].pending
         \/ note[n] = Posted
  BY <1>2, <1>4 DEF HasItem, ItemsAnnounced
<1>6. CASE n # q
  <2>1. note'[n] = note[n]
    BY <1>1, <1>6 DEF PostPipe, PostEvent, QueuesTyped
  <2>2. \A how : Posts(n, how) => Posts(n, how)'
    BY <1>6 DEF Posts, PostPipe, PostEvent, QueuesTyped
  <2> QED BY <1>5, <2>1, <2>2
<1>7. CASE n = q /\ PostPipe(p)
  BY <1>1, <1>3, <1>7 DEF PostPipe
<1>8. CASE n = q /\ PostEvent(p) /\ posting[p] = "queued"
  <2>1. /\ posting' = [posting EXCEPT ![p] = "flagged"]
        /\ note' = [note EXCEPT ![q] = [note[q] EXCEPT !.pending = TRUE]]
    BY <1>8 DEF PostEvent
  <2>2. note'[n].pending
    BY <1>3, <1>8, <2>1
  <2>3. Posts(n, "flagged")'
    BY <1>8, <2>1 DEF Posts, QueuesTyped
  <2> QED BY <2>2, <2>3
<1>9. CASE n = q /\ PostEvent(p) /\ posting[p] # "queued"
  <2>1. note' = [note EXCEPT ![q] = [note[q] EXCEPT !.event = TRUE]]
    BY <1>9 DEF PostEvent
  <2>2. note'[n] = [note[n] EXCEPT !.event = TRUE]
    BY <1>3, <1>9, <2>1
  <2>3. note[n].pending => note'[n] = Posted
    BY <1>3, <1>9, <2>2 DEF Posted
  <2>4. note[n] = Posted => note[n].pending
    BY DEF Posted
  <2>5. Posts(n, "queued") => Posts(n, "queued")'
    BY <1>9 DEF Posts, PostEvent, QueuesTyped
  <2> QED BY <1>5, <2>3, <2>4, <2>5
<1> QED BY <1>6, <1>7, <1>8, <1>9

\* Consuming a notification makes the worker take, unless there is nothing to take or
\* management is about to post again.
LEMMA ConsumeAnnounces ==
  ASSUME QueuesTyped, TwoSteps, ItemsAnnounced, BeginReceive
  PROVE  ItemsAnnounced'
<1>1. stage \in Notified /\ UNCHANGED <<queue, ret, posting>>
  BY DEF BeginReceive, lent
<1>2. note[stage] \in [event : BOOLEAN, pending : BOOLEAN] /\ stage \in DOMAIN note
  BY <1>1 DEF QueuesTyped
<1>3. SUFFICES ASSUME NEW n \in Notified, HasItem(n)'
               PROVE  \/ Posts(n, "queued")
                      \/ stage' = n /\ step' = "take"
                      \/ Posts(n, "flagged") /\ note'[n].pending
                      \/ stage' = n /\ step' = "swap" /\ note'[n].pending
                      \/ note'[n] = Posted
  BY <1>1 DEF ItemsAnnounced, Posts
<1>4. \/ Posts(n, "queued")
      \/ stage = n /\ step = "take"
      \/ Posts(n, "flagged") /\ note[n].pending
      \/ stage = n /\ step = "swap" /\ note[n].pending
      \/ note[n] = Posted
  BY <1>1, <1>3 DEF HasItem, ItemsAnnounced
<1>5. note[n] = Posted => note[n].event /\ note[n].pending
  BY DEF Posted
<1>6. CASE n # stage
  <2>1. note'[n] = note[n]
    BY <1>6 DEF BeginReceive, ConsumePipe, ConsumeEvent, QueuesTyped
  <2> QED BY <1>4, <1>6, <2>1
<1>7. CASE n = stage /\ ConsumePipe(stage)
  <2>1. arm = "pipe" /\ step = "begin"
    BY <1>7 DEF ConsumePipe
  <2>2. ~Posts(n, "flagged")
    BY <2>1 DEF TwoSteps, Posts
  <2>3. note[n].event => step' = "take" /\ stage' = stage
    BY <1>7 DEF ConsumePipe, Consumed
  <2> QED BY <1>4, <1>5, <1>7, <2>1, <2>2, <2>3
<1>8. CASE /\ n = stage /\ step = "begin" /\ note' = [note EXCEPT ![n].event = FALSE]
           /\ step' = "swap" /\ stage' = stage
  <2>1. note'[n].pending = note[n].pending
    BY <1>2, <1>8
  <2> QED BY <1>4, <1>5, <1>8, <2>1
<1>9. CASE n = stage /\ step = "swap" /\ Consumed(note[n].pending)
  <2>1. note[n].pending => step' = "take" /\ stage' = stage
    BY <1>9 DEF Consumed
  <2> QED BY <1>4, <1>5, <1>9, <2>1
<1> QED BY <1>6, <1>7, <1>8, <1>9 DEF BeginReceive, ConsumeEvent

\* Taking one of several items posts again.
LEMMA TakeAnnounces ==
  ASSUME QueuesTyped, ItemsAnnounced, TryRecv
  PROVE  ItemsAnnounced'
<1>1. stage \in Queues /\ stage \in Notified /\ stage # "returns" /\ step = "take"
      /\ UNCHANGED <<ret, posting>>
  BY DepthAssumption DEF TryRecv, Notified, lent
<1>2. queue[stage] \in Seq(Kinds) /\ stage \in DOMAIN queue /\ stage \in DOMAIN note
  BY <1>1 DEF QueuesTyped
<1>3. \A n \in Notified : n # stage => (HasItem(n)' <=> HasItem(n)) /\ note'[n] = note[n]
  BY <1>1 DEF TryRecv, HasItem, Repost, Notified, QueuesTyped
<1>4. queue'[stage] # <<>> => note'[stage] = Posted
  <2>1. CASE queue[stage] = <<>>
    BY <2>1 DEF TryRecv
  <2>2. CASE queue[stage] # <<>>
    <3>1. queue'[stage] = Tail(queue[stage]) /\ Repost(stage)
      BY <1>2, <2>2 DEF TryRecv
    <3>2. Tail(queue[stage]) # <<>> => Len(queue[stage]) > 1
      BY <1>2, <2>2
    <3> QED BY <1>2, <3>1, <3>2 DEF Repost
  <2> QED BY <2>1, <2>2
<1>5. SUFFICES ASSUME NEW n \in Notified, HasItem(n)'
               PROVE  \/ Posts(n, "queued")
                      \/ Posts(n, "flagged") /\ note'[n].pending
                      \/ note'[n] = Posted
  BY <1>1 DEF ItemsAnnounced, Posts
<1>6. CASE n = stage
  BY <1>1, <1>4, <1>5, <1>6 DEF HasItem
<1>7. CASE n # stage
  BY <1>3, <1>5, <1>7 DEF ItemsAnnounced
<1> QED BY <1>6, <1>7

\* A read of the socket enables FD_READ again, or sets it if more packets wait.
LEMMA ReadHeard ==
  ASSUME KernelTyped, SocketHeard, ProcessSubstrateSocketIn
  PROVE  SocketHeard'
<1>1. "substrate" \in Inputs /\ kernel["substrate"] \in Nat
  BY DEF KernelTyped, Inputs
<1>2. fd \in [event : BOOLEAN, enabled : BOOLEAN]
  BY DEF KernelTyped
<1>3. SUFFICES ASSUME arm = "event"
               PROVE  /\ kernel'["substrate"] > 0 => ~fd'.enabled
                      /\ ~fd'.enabled => fd'.event
  BY DEF SocketHeard, ProcessSubstrateSocketIn, cycle
<1>4. fd' = Reenabled
  BY <1>3 DEF ProcessSubstrateSocketIn
<1>5. CASE kernel["substrate"] > 1
  BY <1>4, <1>5 DEF Reenabled, FdRead
<1>6. CASE ~(kernel["substrate"] > 1)
  <2>1. fd'.enabled
    BY <1>2, <1>4, <1>6 DEF Reenabled
  <2>2. kernel'["substrate"] = 0
    BY <1>1, <1>6 DEF ProcessSubstrateSocketIn, TryReadBuf, KernelTyped
  <2> QED BY <2>1, <2>2
<1> QED BY <1>5, <1>6

LEMMA ArriveHeard ==
  ASSUME KernelTyped, SocketHeard, NEW i \in Inputs, Arrive(i)
  PROVE  SocketHeard'
<1>1. fd \in [event : BOOLEAN, enabled : BOOLEAN]
  BY DEF KernelTyped
<1>2. SUFFICES ASSUME arm = "event"
               PROVE  /\ kernel'["substrate"] > 0 => ~fd'.enabled
                      /\ ~fd'.enabled => fd'.event \/ deaf \/ (stage = "substrate" /\ step = "take")
  BY DEF SocketHeard, Arrive, cycle, worker
<1>3. CASE i = "substrate" /\ fd.enabled
  BY <1>2, <1>3 DEF Arrive, FdRead
<1>4. CASE i = "substrate" /\ ~fd.enabled
  BY <1>2, <1>4 DEF Arrive, SocketHeard
<1>5. CASE i # "substrate"
  <2>1. fd' = fd /\ kernel'["substrate"] = kernel["substrate"]
    BY <1>5 DEF Arrive, KernelTyped, Inputs
  <2> QED BY <1>2, <2>1 DEF SocketHeard
<1> QED BY <1>3, <1>4, <1>5

\* The socket is left alone, and not in the middle of its batch.
LEMMA SocketAlone ==
  ASSUME SocketHeard, UNCHANGED <<arm, fd, deaf>>, kernel'["substrate"] = kernel["substrate"],
         UNCHANGED <<stage, step>> \/ stage # "substrate" \/ step # "take"
  PROVE  SocketHeard'
BY DEF SocketHeard

LEMMA WakeupInit == Init => WakeupInv
<1> SUFFICES ASSUME Init PROVE WakeupInv
  OBVIOUS
<1>1. \A n \in Notified : ~HasItem(n)
  BY DEF Init, HasItem, Notified
<1>2. SocketHeard
  BY DEF Init, SocketHeard, Inputs
<1> QED BY <1>1, <1>2 DEF Init, WakeupInv, TwoSteps, ItemsAnnounced

LEMMA WakeupStep == BufferInv /\ WakeupInv /\ [Next]_vars => WakeupInv'
<1> SUFFICES ASSUME BufferInv, WakeupInv, [Next]_vars PROVE WakeupInv'
  OBVIOUS
<1>0. QueuesTyped /\ ControlTyped /\ KernelTyped /\ WorkerShape /\ TwoSteps /\ ItemsAnnounced
      /\ SocketHeard
  BY DEF BufferInv, WakeupInv
<1>1. ASSUME ItemsAnnounced', SocketHeard', step' \in {step, "begin", "take"}, UNCHANGED arm,
             \A p \in Senders : posting'[p] = "flagged" => posting[p] = "flagged"
      PROVE  WakeupInv'
  <2>1. TwoSteps'
    BY <1>0, <1>1 DEF TwoSteps
  <2> QED BY <1>1, <2>1 DEF WakeupInv
<1>2. Advance => step' = "begin"
  BY DEF Advance
<1>3. Another => step' = "begin"
  BY <1>2 DEF Another
<1>4. {"out", "wait", "writable", "tun", "substrate"} \cap Notified = {}
  BY DepthAssumption DEF Notified
<1>a. ASSUME UNCHANGED <<arm, fd, deaf, kernel>>,
             UNCHANGED <<stage, step>> \/ stage # "substrate" \/ step # "take"
      PROVE  SocketHeard'
  BY <1>0, <1>a, SocketAlone
<1>b. ASSUME UNCHANGED <<arm, posting, queue, ret, note>>, SocketHeard',
             stage \notin Notified \/ step = "begin", step' \in {step, "begin", "take"}
      PROVE  WakeupInv'
  <2>1. ItemsAnnounced'
    BY <1>0, <1>b, OutsideReceive
  <2> QED BY <1>1, <1>b, <2>1
<1>c. ASSUME UNCHANGED <<arm, posting, queue, ret, note, stage, step>>, SocketHeard'
      PROVE  WakeupInv'
  <2>1. ItemsAnnounced'
    BY <1>0, <1>c, OutsideWorker
  <2> QED BY <1>1, <1>c, <2>1
<1>5. CASE ProcessOutQueues
  <2>1. /\ UNCHANGED <<arm, fd, deaf, kernel, posting, queue, ret, note, step>> /\ stage = "out"
    BY <1>5 DEF ProcessOutQueues, ProcessSubstrateEgressQueue, lent
  <2> QED BY <1>4, <1>a, <1>b, <2>1
<1>6. CASE Wait
  <2>1. /\ UNCHANGED <<arm, fd, deaf, kernel, posting, queue, ret, note, step>> /\ stage = "wait"
    BY <1>6 DEF Wait, lent, io, cycle
  <2> QED BY <1>4, <1>a, <1>b, <2>1
<1>7. CASE NoBuffer
  <2>1. UNCHANGED <<arm, kernel, posting, queue, ret, note>> /\ step = "begin" /\ step' = "begin"
    BY <1>2, <1>7 DEF NoBuffer, lent, cycle
  <2>2. fd \in [event : BOOLEAN, enabled : BOOLEAN] /\ deaf \in BOOLEAN
    BY <1>0 DEF KernelTyped
  <2>3. CASE Resets
    <3>1. fd' = [fd EXCEPT !.event = FALSE] /\ (deaf \/ ~fd.enabled => deaf')
      BY <1>7, <2>3 DEF NoBuffer, Reset
    <3>2. fd'.enabled <=> fd.enabled
      BY <2>2, <3>1
    <3>3. SocketHeard'
      BY <1>0, <2>1, <3>1, <3>2 DEF SocketHeard
    <3> QED BY <1>b, <2>1, <3>3
  <2>4. CASE ~Resets
    <3>1. fd' = fd /\ (deaf => deaf')
      BY <1>7, <2>4 DEF NoBuffer
    <3>2. SocketHeard'
      BY <1>0, <2>1, <3>1 DEF SocketHeard
    <3> QED BY <1>b, <2>1, <3>2
  <2> QED BY <2>3, <2>4
<1>8. CASE BeginReceive
  <2>1. ItemsAnnounced' /\ UNCHANGED <<arm, posting, fd, deaf, kernel>> /\ stage # "substrate"
    BY <1>0, <1>4, <1>8, ConsumeAnnounces DEF BeginReceive, cycle, io
  <2>2. \/ step' \in {"begin", "take"}
        \/ step' = "swap" /\ arm = "event"
    BY <1>2, <1>8 DEF BeginReceive, ConsumePipe, ConsumeEvent, Consumed
  <2>3. TwoSteps'
    BY <1>0, <2>1, <2>2 DEF TwoSteps
  <2>4. SocketHeard'
    BY <1>a, <2>1
  <2> QED BY <2>1, <2>3, <2>4 DEF WakeupInv
<1>9. CASE TryRecvManyReturns
  <2>1. \A n \in Notified : HasItem(n)' => HasItem(n) /\ n # stage
    BY <1>9 DEF TryRecvManyReturns, HasItem
  <2>2. ItemsAnnounced'
    BY <1>0, <1>9, <2>1 DEF TryRecvManyReturns, ItemsAnnounced, Posts
  <2>3. SocketHeard'
    BY <1>9, <1>a DEF TryRecvManyReturns, io, cycle
  <2> QED BY <1>1, <1>2, <1>9, <2>2, <2>3 DEF TryRecvManyReturns, cycle
<1>10. CASE ProcessSubstrateSocketOut
  <2>1. /\ UNCHANGED <<arm, fd, deaf, kernel, posting, queue, ret, note>> /\ stage = "writable"
        /\ step' = "begin"
    BY <1>2, <1>10 DEF ProcessSubstrateSocketOut, ProcessSubstrateEgressQueue, lent, cycle
  <2> QED BY <1>4, <1>a, <1>b, <2>1
<1>11. CASE TryRecv
  <2>1. step' = "begin" /\ UNCHANGED <<arm, posting, fd, deaf, kernel>> /\ stage # "substrate"
    BY <1>2, <1>3, <1>11, DepthAssumption DEF TryRecv, io, cycle
  <2>2. SocketHeard'
    BY <1>a, <2>1
  <2> QED BY <1>0, <1>1, <1>11, <2>1, <2>2, TakeAnnounces
<1>12. CASE ProcessActorTunIn
  <2>1. /\ step' = "begin" /\ UNCHANGED <<arm, queue, ret, note, posting, fd, deaf>>
        /\ stage = "tun"
    BY <1>2, <1>3, <1>12 DEF ProcessActorTunIn, TryReadBuf, cycle
  <2>2. kernel'["substrate"] = kernel["substrate"]
    BY <1>0, <1>12 DEF ProcessActorTunIn, TryReadBuf, KernelTyped, Inputs
  <2>3. SocketHeard'
    BY <1>0, <2>1, <2>2, SocketAlone
  <2> QED BY <1>4, <1>b, <2>1, <2>3
<1>13. CASE ProcessSubstrateSocketIn
  <2>1. step' = "begin" /\ UNCHANGED <<arm, queue, ret, note, posting>> /\ stage = "substrate"
    BY <1>2, <1>3, <1>13 DEF ProcessSubstrateSocketIn, TryReadBuf, cycle
  <2> QED BY <1>0, <1>4, <1>b, <1>13, <2>1, ReadHeard
<1>14. CASE Interrupted
  <2>1. /\ UNCHANGED <<arm, fd, deaf, kernel, posting, queue, ret, note, step>> /\ stage = "wait"
    BY <1>14 DEF Interrupted, lent, io, cycle
  <2> QED BY <1>4, <1>a, <1>b, <2>1
<1>15. ASSUME NEW q \in Queues, NEW kind, TryEnqueuePacket(q, kind) PROVE WakeupInv'
  <2>1. /\ q \in Senders /\ Target(q) = q /\ Announce(q)
        /\ UNCHANGED <<arm, note, stage, step, ret, fd, deaf, kernel>>
    BY <1>15, DepthAssumption
       DEF TryEnqueuePacket, TrySend, Senders, Target, Lanes, worker, lent, io, cycle
  <2>2. \A n \in Notified \ {q} : HasItem(n)' => HasItem(n)
    BY <1>0, <1>15, <2>1 DEF TryEnqueuePacket, TrySend, HasItem, Notified, QueuesTyped
  <2>3. ItemsAnnounced'
    BY <1>0, <2>1, <2>2, QueuedIsAnnounced
  <2>4. SocketHeard'
    BY <1>a, <2>1
  <2> QED BY <1>0, <1>1, <2>1, <2>3, <2>4 DEF Announce, QueuesTyped
<1>16. ASSUME NEW l \in Lanes, Receive(l) PROVE WakeupInv'
  <2>1. UNCHANGED <<arm, fd, deaf, kernel, posting, queue, ret, note, stage, step>>
    BY <1>16 DEF Receive, worker, io, cycle
  <2> QED BY <1>a, <1>c, <2>1
<1>17. ASSUME NEW l \in Lanes, GuardDrops(l) PROVE WakeupInv'
  <2>1. /\ l \in Senders /\ Target(l) = "returns" /\ Announce(l)
        /\ UNCHANGED <<arm, note, stage, step, queue, fd, deaf, kernel>>
    BY <1>17 DEF GuardDrops, Senders, Target, worker, io, cycle
  <2>2. \A n \in Notified \ {"returns"} : HasItem(n)' => HasItem(n)
    BY <2>1 DEF HasItem
  <2>3. ItemsAnnounced'
    BY <1>0, <2>1, <2>2, QueuedIsAnnounced
  <2>4. SocketHeard'
    BY <1>a, <2>1
  <2> QED BY <1>0, <1>1, <2>1, <2>3, <2>4 DEF Announce, QueuesTyped
<1>18. ASSUME NEW p \in Senders, PostPipe(p) PROVE WakeupInv'
  <2>1. /\ UNCHANGED <<arm, stage, step, fd, deaf, kernel>>
        /\ posting' = [posting EXCEPT ![p] = "idle"]
    BY <1>18 DEF PostPipe, worker, io, cycle
  <2>2. SocketHeard'
    BY <1>a, <2>1
  <2>3. \A o \in Senders : posting'[o] = "flagged" => posting[o] = "flagged"
    BY <1>0, <2>1 DEF QueuesTyped
  <2> QED BY <1>0, <1>1, <1>18, <2>1, <2>2, <2>3, PostAnnounces
<1>19. ASSUME NEW p \in Senders, PostEvent(p) PROVE WakeupInv'
  <2>1. UNCHANGED <<arm, stage, step, fd, deaf, kernel>> /\ arm = "event"
    BY <1>19 DEF PostEvent, worker, io, cycle
  <2>2. TwoSteps'
    BY <2>1 DEF TwoSteps
  <2>3. SocketHeard'
    BY <1>a, <2>1
  <2> QED BY <1>0, <1>19, <2>2, <2>3, PostAnnounces DEF WakeupInv
<1>20. ASSUME NEW i \in Inputs, Arrive(i) PROVE WakeupInv'
  <2>1. UNCHANGED <<arm, posting, queue, ret, note, stage, step>>
    BY <1>20 DEF Arrive, worker, lent, cycle
  <2> QED BY <1>0, <1>c, <1>20, <2>1, ArriveHeard
<1>21. CASE Drain
  <2>1. UNCHANGED <<arm, fd, deaf, kernel, posting, queue, ret, note, stage, step>>
    BY <1>21 DEF Drain, worker, lent, cycle
  <2> QED BY <1>a, <1>c, <2>1
<1>22. CASE UNCHANGED vars
  <2>1. UNCHANGED <<arm, fd, deaf, kernel, posting, queue, ret, note, stage, step>>
    BY <1>22 DEF vars, worker, lent, io, cycle
  <2> QED BY <1>a, <1>c, <2>1
<1>23. CASE BeginSocketIn
  <2>1. /\ UNCHANGED <<arm, posting, queue, ret, note, deaf, kernel, stage>>
        /\ stage = "substrate" /\ step' = "take" /\ fd' = [fd EXCEPT !.event = FALSE]
    BY <1>23 DEF BeginSocketIn, Resets, Reset, lent, cycle
  <2>2. fd'.enabled <=> fd.enabled
    BY <1>0, <2>1 DEF KernelTyped
  <2>3. SocketHeard'
    BY <1>0, <2>1, <2>2 DEF SocketHeard
  <2> QED BY <1>4, <1>b, <2>1, <2>3
<1> QED
  BY <1>5, <1>6, <1>7, <1>8, <1>9, <1>10, <1>11, <1>12, <1>13, <1>14, <1>15, <1>16, <1>17,
     <1>18, <1>19, <1>20, <1>21, <1>22, <1>23 DEF Next, Worker

\* Queueing and posting, consuming and taking are separate steps of two threads, a
\* notification may stand for several items, and packets arrive while the event of the
\* socket is being reset: still the worker goes to sleep only when whatever waits for it
\* has been posted or is about to be, and on a Windows socket with packets only if there
\* was no buffer to read from it after the reset.
THEOREM WakeupsArrive == Spec => []NoLostWakeup
<1>1. BufferInv /\ WakeupInv => NoLostWakeup
  <2> SUFFICES ASSUME BufferInv, WakeupInv, stage = "wait" PROVE NoLostWakeup
    BY DEF NoLostWakeup
  <2>1. ASSUME NEW n \in Notified, \A p \in Senders : Target(p) = n => posting[p] = "idle",
               HasItem(n)
        PROVE  note[n] = Posted
    <3>1. stage # n
      BY DepthAssumption DEF Notified
    <3>2. ~Posts(n, "queued") /\ ~Posts(n, "flagged")
      BY <2>1 DEF Posts
    <3> QED BY <2>1, <3>1, <3>2 DEF WakeupInv, ItemsAnnounced
  <2>2. arm = "event" /\ kernel["substrate"] > 0 => fd.event \/ deaf
    BY DEF WakeupInv, SocketHeard
  <2> QED BY <2>1, <2>2 DEF NoLostWakeup, HasItem
<1>2. Spec => []WakeupInv
  BY WakeupInit, WakeupStep, BuffersAlways, PTL DEF Spec
<1> QED BY <1>1, <1>2, BuffersAlways, PTL

-------------------------------------------------------------------------------
(* The reserve of buffers.                                                 *)

Sources == {"mgmt", "requeue", "tun", "substrate"}

\* The batches of the sources that come before s.
Budget(s) ==
    IF s = "requeue" THEN BatchSize
    ELSE IF s = "tun" THEN 2 * BatchSize
    ELSE IF s = "substrate" THEN 3 * BatchSize
    ELSE 0

\* Stages are dealt with in their order.
InOrder ==
    stage \notin {"out", "wait"} =>
        \E i \in 1 .. 6 : stage = Stages[i] /\ \A j \in 1 .. i : Stages[j] \in ready => j = i

\* Only a source has begun a batch, and nobody has used up one.
BatchBegun ==
    /\ left > 0
    /\ stage \notin Sources => left = BatchSize

\* Beside the batch that was in use when the cycle began, the sources so far have used
\* their batches at most.
WithinBudget ==
    ample /\ stage # "out" =>
        BufferCount - buffers <= BatchSize + Budget(stage) + (BatchSize - left)

ReserveInv == InOrder /\ BatchBegun /\ WithinBudget

LEMMA BudgetNat == \A s : Budget(s) \in Nat
BY BufferAssumption DEF Budget

\* A later stage has at least the budget of an earlier one, and a source's batch more.
LEMMA BudgetGrows ==
  ASSUME NEW i \in 1 .. 6, NEW k \in 1 .. 6, i < k
  PROVE  /\ Budget(Stages[i]) <= Budget(Stages[k])
         /\ Stages[i] \in Sources => Budget(Stages[i]) + BatchSize <= Budget(Stages[k])
<1>1. i \in {1, 2, 3, 4, 5, 6} /\ k \in {1, 2, 3, 4, 5, 6}
  OBVIOUS
<1>2. BatchSize \in Nat
  BY BufferAssumption
<1>3. /\ Budget(Stages[1]) = 0 /\ Budget(Stages[2]) = 0 /\ Budget(Stages[3]) = 0
      /\ Budget(Stages[4]) = BatchSize /\ Budget(Stages[5]) = 2 * BatchSize
      /\ Budget(Stages[6]) = 3 * BatchSize
  BY StagesAre DEF Budget
<1>4. Stages[1] \notin Sources /\ Stages[2] \notin Sources
  BY StagesAre DEF Sources
<1> QED BY <1>1, <1>2, <1>3, <1>4

LEMMA FirstInOrder ==
  ASSUME NEW st, st \subseteq StageNames, st # {}
  PROVE  \E i \in 1 .. 6 : First(st) = Stages[i] /\ \A j \in 1 .. i : Stages[j] \in st => j = i
<1> DEFINE P(i) == Stages[i] \in st /\ \A j \in 1 .. i - 1 : Stages[j] \notin st
           f == CHOOSE i \in 1 .. 6 : P(i)
<1>1. \E i \in 1 .. 6 : P(i)
  BY FirstExists
<1>2. First(st) = Stages[f]
  BY StagesAre DEF First
<1> HIDE DEF P
<1>3. f \in 1 .. 6 /\ P(f)
  BY <1>1
<1> HIDE DEF f
<1>4. \A j \in 1 .. f : j # f => j \in 1 .. f - 1
  BY <1>3
<1> QED BY <1>2, <1>3, <1>4 DEF P

\* On to what comes later.
LEMMA AdvanceInOrder ==
  ASSUME ControlTyped, InOrder, Advance, stage \notin {"out", "wait"}
  PROVE  /\ InOrder'
         /\ \/ stage' = "out"
            \/ \E i, k \in 1 .. 6 : i < k /\ stage = Stages[i] /\ stage' = Stages[k]
<1>1. CASE ready' = {}
  BY <1>1 DEF Advance, InOrder
<1>2. CASE ready' # {}
  <2>1. ready' \subseteq StageNames /\ ready' = ready \ {stage} /\ stage' = First(ready')
    BY <1>2, ReadyAreStages DEF Advance, ControlTyped
  <2>2. PICK k \in 1 .. 6 : stage' = Stages[k] /\ \A j \in 1 .. k : Stages[j] \in ready' => j = k
    BY <1>2, <2>1, FirstInOrder
  <2>3. PICK i \in 1 .. 6 : stage = Stages[i] /\ \A j \in 1 .. i : Stages[j] \in ready => j = i
    BY DEF InOrder
  <2>4. stage' \in ready'
    BY <1>2, <2>1, FirstIsReady
  <2>5. ~(k <= i)
    BY <2>1, <2>2, <2>3, <2>4
  <2> QED BY <2>2, <2>3, <2>5 DEF InOrder
<1> QED BY <1>1, <1>2

LEMMA AdvanceReserved ==
  ASSUME BufferInv, ReserveInv, Advance, stage \notin {"out", "wait"}, UNCHANGED ample,
         buffers' \in Nat, buffers' >= buffers \/ (stage \in Sources /\ buffers' = buffers - 1 /\ left = 1)
  PROVE  ReserveInv'
<1>1. /\ InOrder'
      /\ \/ stage' = "out"
         \/ \E i, k \in 1 .. 6 : i < k /\ stage = Stages[i] /\ stage' = Stages[k]
  BY AdvanceInOrder DEF BufferInv, ReserveInv
<1>2. BatchBegun' /\ left' = BatchSize
  BY BufferAssumption DEF Advance, BatchBegun
<1>3. /\ buffers \in Nat /\ left \in 0 .. BatchSize /\ left > 0
      /\ (stage \notin Sources => left = BatchSize)
  BY DEF BufferInv, Counted, ControlTyped, ReserveInv, BatchBegun
<1>4. WithinBudget'
  <2> SUFFICES ASSUME ample, stage' # "out"
               PROVE  BufferCount - buffers' <= BatchSize + Budget(stage') + (BatchSize - left')
    BY DEF WithinBudget
  <2>1. stage # "out" /\ BufferCount - buffers <= BatchSize + Budget(stage) + (BatchSize - left)
    BY DEF ReserveInv, WithinBudget
  <2>2. PICK i \in 1 .. 6, k \in 1 .. 6 : i < k /\ stage = Stages[i] /\ stage' = Stages[k]
    BY <1>1
  <2>3. /\ Budget(stage) <= Budget(stage')
        /\ stage \in Sources => Budget(stage) + BatchSize <= Budget(stage')
        /\ Budget(stage) \in Nat /\ Budget(stage') \in Nat
    BY <2>2, BudgetGrows, BudgetNat
  <2> DEFINE a == Budget(stage)
             b == Budget(stage')
  <2> HIDE DEF a, b
  <2>4. /\ a <= b /\ (stage \in Sources => a + BatchSize <= b) /\ a \in Nat /\ b \in Nat
        /\ BufferCount - buffers <= BatchSize + a + (BatchSize - left)
    BY <2>1, <2>3 DEF a, b
  <2>5. BufferCount - buffers' <= BatchSize + b + (BatchSize - left')
    BY <1>2, <1>3, <2>4, BufferAssumption
  <2> QED BY <2>5 DEF b
<1> QED BY <1>1, <1>2, <1>4 DEF ReserveInv

LEMMA AnotherReserved ==
  ASSUME BufferInv, ReserveInv, Another, stage \in Sources, UNCHANGED ample,
         buffers' \in Nat, buffers' \in {buffers, buffers - 1}
  PROVE  ReserveInv'
<1>1. buffers \in Nat /\ left \in 0 .. BatchSize /\ left > 0 /\ stage \notin {"out", "wait"}
  BY DEF BufferInv, Counted, ControlTyped, ReserveInv, BatchBegun, Sources
<1>2. CASE left > 1
  <2>1. left' = left - 1 /\ UNCHANGED <<stage, ready>>
    BY <1>2 DEF Another
  <2>2. InOrder'
    BY <2>1 DEF ReserveInv, InOrder
  <2>3. BatchBegun'
    BY <1>1, <1>2, <2>1, BufferAssumption DEF BatchBegun
  <2>4. WithinBudget'
    <3> DEFINE a == Budget(stage)
    <3>1. a \in Nat
      BY BudgetNat
    <3> HIDE DEF a
    <3>2. ample => BufferCount - buffers <= BatchSize + a + (BatchSize - left)
      BY <1>1 DEF ReserveInv, WithinBudget, a
    <3>3. ample => BufferCount - buffers' <= BatchSize + a + (BatchSize - left')
      BY <1>1, <2>1, <3>1, <3>2, BufferAssumption
    <3> QED BY <2>1, <3>3 DEF WithinBudget, a
  <2> QED BY <2>2, <2>3, <2>4 DEF ReserveInv
<1>3. CASE ~(left > 1)
  <2>1. Advance /\ left = 1
    BY <1>1, <1>3, BufferAssumption DEF Another
  <2> QED BY <1>1, <2>1, AdvanceReserved
<1> QED BY <1>2, <1>3

\* A step that leaves the worker where it is.
LEMMA SameReserved ==
  ASSUME ReserveInv, UNCHANGED <<ample, stage, left, ready, buffers>>
  PROVE  ReserveInv'
BY DEF ReserveInv, InOrder, BatchBegun, WithinBudget, Budget

\* A packet takes a buffer at most.
LEMMA OneBuffer ==
  ASSUME Counted, NEW kind, NEW l,
         \/ Egress(kind, buffers - 1)
         \/ Dispatch(l, buffers - 1)
         \/ Unusable
         \/ buffers' = buffers - 1
  PROVE  buffers' \in {buffers, buffers - 1}
BY DEF Counted, Egress, Dispatch, Unusable, DropAndCount

LEMMA ReserveInit == Init => ReserveInv
BY BufferAssumption DEF Init, ReserveInv, InOrder, BatchBegun, WithinBudget

LEMMA ReserveStep == BufferInv /\ BufferInv' /\ ReserveInv /\ [Next]_vars => ReserveInv'
<1> SUFFICES ASSUME BufferInv, BufferInv', ReserveInv, [Next]_vars PROVE ReserveInv'
  OBVIOUS
<1>0. Counted /\ ControlTyped /\ buffers \in Nat /\ buffers' \in Nat
  BY DEF BufferInv, Counted
<1>1. CASE ProcessOutQueues
  <2>1. stage = "out" /\ stage' = "wait" /\ left' = left
    BY <1>1 DEF ProcessOutQueues
  <2>2. left = BatchSize /\ BatchBegun'
    BY <2>1 DEF ReserveInv, BatchBegun, Sources
  <2>3. ample' => BufferCount - buffers' <= BatchSize
    BY <1>1 DEF ProcessOutQueues
  <2>4. Budget(stage') = 0
    BY <2>1 DEF Budget
  <2>5. WithinBudget'
    BY <1>0, <2>1, <2>2, <2>3, <2>4, BufferAssumption DEF WithinBudget
  <2> QED BY <2>1, <2>2, <2>5 DEF ReserveInv, InOrder
<1>2. CASE Wait
  <2>1. Signaled \subseteq Notified \cup Inputs \cup {"writable"} /\ Signaled # {}
    BY <1>2 DEF Wait, Signaled, Notified, Inputs
  <2>2. ready' = Signaled /\ stage' = First(ready') /\ ready' \subseteq StageNames /\ ready' # {}
    BY <1>2, <2>1, ReadyAreStages DEF Wait, Reported
  <2>3. InOrder'
    BY <2>2, FirstInOrder DEF InOrder
  <2>4. stage = "wait" /\ UNCHANGED <<left, buffers, ample>>
    BY <1>2 DEF Wait, held, cycle
  <2>5. left = BatchSize /\ Budget(stage) = 0
    BY <2>4 DEF ReserveInv, BatchBegun, Sources, Budget
  <2>6. BatchBegun'
    BY <2>4, <2>5, BufferAssumption DEF BatchBegun
  <2> DEFINE b == Budget(stage')
  <2>7. b \in Nat
    BY BudgetNat
  <2> HIDE DEF b
  <2>8. ample => BufferCount - buffers <= BatchSize + 0 + (BatchSize - left)
    BY <2>4, <2>5 DEF ReserveInv, WithinBudget
  <2>9. ample' => BufferCount - buffers' <= BatchSize + b + (BatchSize - left')
    BY <1>0, <2>4, <2>5, <2>7, <2>8, BufferAssumption
  <2>10. WithinBudget'
    BY <2>9 DEF WithinBudget, b
  <2> QED BY <2>3, <2>6, <2>10 DEF ReserveInv
<1>3. CASE NoBuffer
  <2>1. Advance /\ buffers' = buffers /\ ample' = ample /\ stage \notin {"out", "wait"}
    BY <1>3, DepthAssumption DEF NoBuffer, held, cycle, Inputs
  <2> QED BY <1>0, <2>1, AdvanceReserved
<1>4. CASE BeginReceive
  <2>1. UNCHANGED <<ample, buffers>> /\ stage \notin {"out", "wait"}
    BY <1>4, DepthAssumption DEF BeginReceive, held, cycle, Notified
  <2>2. Advance \/ UNCHANGED <<stage, left, ready>>
    BY <1>4 DEF BeginReceive, ConsumePipe, ConsumeEvent, Consumed
  <2> QED BY <1>0, <2>1, <2>2, AdvanceReserved, SameReserved
<1>5. CASE BeginSocketIn
  BY <1>5, SameReserved DEF BeginSocketIn, held, cycle
<1>6. CASE TryRecvManyReturns
  <2>1. /\ Advance /\ buffers' = buffers + ret /\ ret \in Nat
        /\ ample' = ample /\ stage \notin {"out", "wait"}
    BY <1>0, <1>6 DEF TryRecvManyReturns, cycle, Counted
  <2>2. buffers' >= buffers
    BY <1>0, <2>1
  <2> QED BY <1>0, <2>1, <2>2, AdvanceReserved
<1>7. CASE ProcessSubstrateSocketOut
  <2>1. Advance /\ ample' = ample /\ stage \notin {"out", "wait"}
    BY <1>7 DEF ProcessSubstrateSocketOut, cycle
  <2>2. PICK sent \in Taken :
          egress' = Retained(sent) /\ buffers' = buffers + 0 + Len(egress) - Len(egress')
    BY <1>7 DEF ProcessSubstrateSocketOut, ProcessSubstrateEgressQueue
  <2>3. Len(egress') \in Nat /\ Len(egress') <= Len(egress) /\ Len(egress) \in Nat
    BY <1>0, <2>2, RetainedShorter DEF Counted
  <2>4. buffers' >= buffers
    BY <1>0, <2>2, <2>3
  <2> QED BY <1>0, <2>1, <2>4, AdvanceReserved
<1>8. CASE TryRecv
  <2>1. ample' = ample /\ stage \in Sources /\ stage \notin {"out", "wait"}
    BY <1>8, DepthAssumption DEF TryRecv, cycle, Sources
  <2>2. CASE queue[stage] = <<>>
    BY <1>0, <1>8, <2>1, <2>2, AdvanceReserved DEF TryRecv, held
  <2>3. CASE queue[stage] # <<>>
    <3>1. Another /\ Egress(Head(queue[stage]), buffers - 1)
      BY <1>8, <2>3 DEF TryRecv
    <3> QED BY <1>0, <2>1, <3>1, OneBuffer, AnotherReserved
  <2> QED BY <2>2, <2>3
<1>9. CASE ProcessActorTunIn
  <2>1. ample' = ample /\ stage \in Sources /\ stage \notin {"out", "wait"}
    BY <1>9 DEF ProcessActorTunIn, cycle, Sources
  <2>2. CASE kernel["tun"] = 0
    BY <1>0, <1>9, <2>1, <2>2, AdvanceReserved DEF ProcessActorTunIn, TryReadBuf, held
  <2>3. CASE kernel["tun"] # 0
    <3>1. Another /\ ActorOutput
      BY <1>9, <2>3 DEF ProcessActorTunIn, TryReadBuf
    <3>2. buffers' \in {buffers, buffers - 1}
      BY <1>0, <3>1, OneBuffer DEF ActorOutput
    <3> QED BY <1>0, <2>1, <3>1, <3>2, AnotherReserved
  <2> QED BY <2>2, <2>3
<1>10. CASE ProcessSubstrateSocketIn
  <2>1. ample' = ample /\ stage \in Sources /\ stage \notin {"out", "wait"}
    BY <1>10 DEF ProcessSubstrateSocketIn, cycle, Sources
  <2>2. CASE kernel["substrate"] = 0
    BY <1>0, <1>10, <2>1, <2>2, AdvanceReserved DEF ProcessSubstrateSocketIn, TryReadBuf, held
  <2>3. CASE kernel["substrate"] # 0
    <3>1. Another /\ SubstrateIngress
      BY <1>10, <2>3 DEF ProcessSubstrateSocketIn, TryReadBuf
    <3>2. buffers' \in {buffers, buffers - 1}
      BY <1>0, <3>1, OneBuffer DEF SubstrateIngress
    <3> QED BY <1>0, <2>1, <3>1, <3>2, AnotherReserved
  <2> QED BY <2>2, <2>3
<1>11. CASE Interrupted
  <2>1. stage = "wait" /\ stage' = "out" /\ left' = left
    BY <1>11 DEF Interrupted
  <2>2. BatchBegun'
    BY <2>1 DEF ReserveInv, BatchBegun, Sources
  <2> QED BY <2>1, <2>2 DEF ReserveInv, InOrder, WithinBudget
<1>12. CASE UNCHANGED <<cycle, worker, held>>
  BY <1>12, SameReserved DEF cycle, worker, held
<1>13. ASSUME NEW q \in Queues, NEW kind, TryEnqueuePacket(q, kind) PROVE ReserveInv'
  BY <1>12, <1>13 DEF TryEnqueuePacket
<1>14. ASSUME NEW l \in Lanes, Receive(l) \/ GuardDrops(l) PROVE ReserveInv'
  BY <1>12, <1>14 DEF Receive, GuardDrops
<1>15. ASSUME NEW p \in Senders, PostPipe(p) \/ PostEvent(p) PROVE ReserveInv'
  BY <1>12, <1>15 DEF PostPipe, PostEvent
<1>16. ASSUME NEW i \in Inputs, Arrive(i) PROVE ReserveInv'
  BY <1>12, <1>16 DEF Arrive
<1>17. CASE Drain
  BY <1>12, <1>17 DEF Drain
<1>18. CASE UNCHANGED vars
  BY <1>12, <1>18 DEF vars
<1> QED
  BY <1>1, <1>2, <1>3, <1>4, <1>5, <1>6, <1>7, <1>8, <1>9, <1>10, <1>11, <1>13, <1>14, <1>15,
     <1>16, <1>17, <1>18 DEF Next, Worker

\* The factor five of fastpath_main's assertion is enough, for any batch size: in a cycle
\* that begins with no more than a batch of buffers in use, the wait's results are dealt
\* with in an order and in batches that leave the last source a batch of its own.
THEOREM SourcesReserved == Spec => []BatchesReserved
<1>1. BufferInv /\ ReserveInv => BatchesReserved
  <2> SUFFICES ASSUME BufferInv, ReserveInv, stage \in Queues \cup Inputs, left = BatchSize, ample
               PROVE  buffers >= BatchSize
    BY DEF BatchesReserved
  <2>1. stage # "out" /\ buffers \in Nat
    BY DepthAssumption DEF Inputs, BufferInv, Counted
  <2>2. BufferCount - buffers <= BatchSize + Budget(stage) + (BatchSize - left)
    BY <2>1 DEF ReserveInv, WithinBudget
  <2>3. Budget(stage) \in {0, BatchSize, 2 * BatchSize, 3 * BatchSize}
    BY DEF Budget
  <2> QED BY <2>1, <2>2, <2>3, BufferAssumption
<1>2. Spec => []ReserveInv
  BY ReserveInit, ReserveStep, BuffersAlways, PTL DEF Spec
<1> QED BY <1>1, <1>2, BuffersAlways, PTL
===============================================================================
