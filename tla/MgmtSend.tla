-------------------------------- MODULE MgmtSend --------------------------------
(***************************************************************************)
(* The futures through which callers follow a management packet they sent  *)
(* (mgmt/core.rs: Sent, Acked, AckedOrCanceled), on top of a ZDP-R session *)
(* (Zdpr), and the restart of the session they belong to                   *)
(* (peer_table.rs: reset_zdpr_session).                                    *)
(*                                                                         *)
(* There is one future per packet; it is polled by a task of its own,      *)
(* named by the packet, whenever the task has been woken.  A future may be *)
(* dropped at any time.  All management tasks run on one thread (the       *)
(* LocalSet of main.rs), so a call that does not await, the restart        *)
(* included, is one step.                                                  *)
(***************************************************************************)
EXTENDS Zdpr

CONSTANTS Api,          \* the calls callers make on futures
          MaxRestarts   \* how often the link is restarted

ASSUME MgmtSendAssumption ==
    /\ Api \subseteq {"enqueue", "acked", "limit_retries", "request_cancel", "drop"}
    /\ MaxRestarts \in Nat

VARIABLES fut,         \* the future of each packet
          generation   \* PeerState::zdpr_generation

mvars == <<send, recv, net, timer, submitted, log, handled, refused,
           fut, generation>>

\* PacketId
Queued(id) == [t |-> "Queued", n |-> id]
SentAs(sn) == IF sn = None THEN [t |-> "Acked", n |-> 0] ELSE [t |-> "Sent", n |-> sn]
CanceledId == [t |-> "Canceled", n |-> 0]

NoFuture == [kind |-> "Unsent", id |-> SentAs(None), gen |-> 0, res |-> "None"]

Futures == {"Sent", "Acked", "AckedOrCanceled"}

\* A failed assert! or an unreachable!() reached: the process is gone, or the
\* task is and the mutex is poisoned; the future is of no more use.
Panicked == {"Assertion", "Unreachable"}

MInit == Init /\ fut = [p \in Pkts |-> NoFuture] /\ generation = 0

-------------------------------------------------------------------------------
\* Mutant: a future does not notice that its session is gone.
SessionIgnoresGeneration(p) == fut[p].gen <= generation

\* Sent::peer_state(): the link's state, while the packet's session is current.
Session(p) == fut[p].gen = generation

Alive(p) == fut[p].kind \in Futures /\ fut[p].res = "None"

\* A task makes calls of its own accord only while it runs.
Running(p) == Alive(p) /\ p \in send.woken

SenderOnly == UNCHANGED <<recv, timer, submitted, log, handled, refused, generation>>

\* A future that has resolved is dropped by the `await` it resolved in.
MayDrop(p) ==
    /\ fut[p].kind \in Futures /\ fut[p].res \notin Panicked
    /\ Alive(p) => "drop" \in Api

\* The assertions of the methods that take a packet ID.
BadId(s, id) == id.t = "Queued" /\ id.n > s.last_enqueued

\* poll_send also rejects a packet that was canceled while it was queued.
BadPoll(s, id) ==
    BadId(s, id) \/ (id.n \in DOMAIN s.blocked /\ s.blocked[id.n].st = "Canceled")

Panics(p, how) ==
    /\ fut' = [fut EXCEPT ![p].res = how]
    /\ UNCHANGED <<send, net>>

\* send_mgmt_helper
SendPacket(p) ==
    /\ fut[p].kind = "Unsent"
    /\ submitted' = Append(submitted, p)
    /\ LET s == EnqueuePacket(send, p)
       IN  /\ send' = [s EXCEPT !.woken = @ \cup {p}]
           /\ net' = net \cup Egress(s, DOMAIN s.unacked \ DOMAIN send.unacked)
           /\ timer' = NotifyRetry(send, s)
           /\ fut' = [fut EXCEPT ![p].kind = "Sent", ![p].gen = generation,
                                 ![p].id = IF EnqueueIsQueued(send)
                                           THEN Queued(s.last_enqueued)
                                           ELSE SentAs(s.last_sent)]
    /\ UNCHANGED <<recv, log, handled, refused, generation>>

ToAcked(p) ==
    /\ "acked" \in Api
    /\ Running(p) /\ fut[p].kind = "Sent"
    /\ fut' = [fut EXCEPT ![p].kind = "Acked"]
    /\ UNCHANGED <<send, net>> /\ SenderOnly

LimitRetries(p, limit) ==
    /\ "limit_retries" \in Api
    /\ Running(p)
    /\ IF Session(p) /\ BadId(send, fut[p].id) THEN Panics(p, "Assertion")
       ELSE /\ send' = IF ~Session(p) THEN send
                       ELSE CASE fut[p].id.t = "Queued" ->
                                   LimitRetriesById(send, fut[p].id.n, limit)
                              [] fut[p].id.t = "Sent" ->
                                   LimitRetriesBySeqNum(send, fut[p].id.n, limit)
                              [] OTHER -> send
            /\ fut' = [fut EXCEPT ![p].kind = "AckedOrCanceled"]
            /\ UNCHANGED net
    /\ SenderOnly

\* request_cancel_internal
RequestCancelOf(p) ==
    LET id == fut[p].id
        looked == SentAs(LookupSeqNum(send, id.n))
        sentId == IF id.t = "Queued" THEN looked ELSE id
        limbo == [fut EXCEPT ![p].kind = "AckedOrCanceled"]
    IN  /\ "request_cancel" \in Api
        /\ Running(p)
        /\ CASE id.t \in {"Acked", "Canceled"} \/ ~Session(p) ->
                  fut' = limbo /\ UNCHANGED <<send, net>>
             [] Session(p) /\ BadId(send, id) -> Panics(p, "Assertion")
             [] Session(p) /\ ~BadId(send, id) /\ id.t = "Queued" /\ CanCancelQueued(send, id.n) ->
                  /\ send' = CancelQueuedPacket(send, id.n)
                  /\ fut' = [limbo EXCEPT ![p].id = CanceledId]
                  /\ UNCHANGED net
             [] Session(p) /\ ~BadId(send, id) /\ id.t = "Queued"
                /\ ~CanCancelQueued(send, id.n) /\ sentId.t # "Sent" ->
                  Panics(p, "Unreachable")
             [] OTHER ->
                  /\ send' = CancelSentPacket(send, sentId.n)
                  /\ net' = IF CanCancelSent(send, sentId.n)
                            THEN net \cup {CtlMsg("Cancel", sentId.n)} ELSE net
                  /\ fut' = [limbo EXCEPT ![p].id = sentId]
        /\ SenderOnly

-------------------------------------------------------------------------------
(* Polling.                                                                *)

\* The task goes back to sleep after the sender has stored its waker in entry
\* `i` of queue `q`.
Parks(p, q, i, id) ==
    /\ send' = [send EXCEPT ![q][i].waker = p, !.woken = @ \ {p}]
    /\ fut' = [fut EXCEPT ![p].id = id]

Ready(p, res) ==
    /\ fut' = [fut EXCEPT ![p].res = res]
    /\ UNCHANGED send

\* poll_ack, and the status AckedOrCanceled::poll then reads
PollAck(p, sn) ==
    IF sn > send.last_sent THEN Ready(p, "Assertion")
    ELSE IF sn \in DOMAIN send.unacked /\ Pending(send.unacked[sn])
    THEN Parks(p, "unacked", sn, SentAs(sn))
    ELSE /\ fut' = [fut EXCEPT ![p].id = SentAs(sn),
                    ![p].res = IF /\ fut[p].kind = "AckedOrCanceled"
                                  /\ sn \in DOMAIN send.unacked
                                  /\ send.unacked[sn].st = "CancelAcked"
                               THEN "Canceled" ELSE "Acked"]
         /\ UNCHANGED send

\* Acked::poll and AckedOrCanceled::poll
PollAnswer(p) ==
    LET id == fut[p].id
    IN  CASE id.t \in {"Acked", "Canceled"} -> Ready(p, id.t)
          [] id.t \in {"Queued", "Sent"} /\ ~Session(p) -> Ready(p, "LinkClosed")
          [] id.t = "Sent" /\ Session(p) -> PollAck(p, id.n)
          [] OTHER ->
                IF BadPoll(send, id) THEN Ready(p, "Assertion")
                ELSE IF ~IsSent(send, id.n) THEN Parks(p, "blocked", id.n, id)
                ELSE IF LookupSeqNum(send, id.n) = None THEN Ready(p, "Acked")
                ELSE PollAck(p, LookupSeqNum(send, id.n))

\* Sent::poll resolves to an Acked future once the packet has been sent.
PollSent(p) ==
    LET id == fut[p].id
        acked(newId) == /\ fut' = [fut EXCEPT ![p].kind = "Acked", ![p].id = newId]
                        /\ UNCHANGED send
    IN  IF id.t # "Queued" THEN acked(id)
        ELSE IF ~Session(p) THEN Ready(p, "LinkClosed")
        ELSE IF BadPoll(send, id) THEN Ready(p, "Assertion")
        ELSE IF ~IsSent(send, id.n) THEN Parks(p, "blocked", id.n, id)
        ELSE acked(SentAs(LookupSeqNum(send, id.n)))

Poll(p) ==
    /\ Running(p)
    /\ IF fut[p].kind = "Sent" THEN PollSent(p) ELSE PollAnswer(p)
    /\ UNCHANGED net /\ SenderOnly

-------------------------------------------------------------------------------
\* AckedOrCanceled::forget_internal
ForgetOf(p) ==
    IF fut[p].kind = "AckedOrCanceled" /\ fut[p].id.t = "Sent" /\ Session(p)
    THEN ForgetCanceledPacket(send, fut[p].id.n)
    ELSE send

\* `enqueue()`: the future goes, the packet stays.
Detach(p) ==
    /\ "enqueue" \in Api
    /\ Running(p)
    /\ send' = [ForgetOf(p) EXCEPT !.woken = @ \ {p}]
    /\ fut' = [fut EXCEPT ![p].kind = "Gone"]
    /\ UNCHANGED net /\ SenderOnly

\* Drop for AckedOrCanceled, then for Sent: a packet still in the queue is
\* canceled.
DropFuture(p) ==
    /\ MayDrop(p)
    /\ LET queued == fut[p].id.t = "Queued" /\ Session(p)
       IN  IF queued /\ BadId(send, fut[p].id) THEN Panics(p, "Assertion")
           ELSE /\ send' = [(IF queued THEN CancelQueuedPacket(send, fut[p].id.n)
                            ELSE ForgetOf(p)) EXCEPT !.woken = @ \ {p}]
                /\ fut' = [fut EXCEPT ![p].kind = "Gone"]
    /\ UNCHANGED net /\ SenderOnly

-------------------------------------------------------------------------------
\* Mutant: the restart resets the sender only.
ResetSessionSenderOnly ==
    /\ generation < MaxRestarts
    /\ send' = ResetSender(send)
    /\ generation' = generation + 1
    /\ net' = {} /\ log' = <<>> /\ handled' = 0 /\ refused' = {}
    /\ UNCHANGED <<recv, timer, submitted, fut>>

\* reset_zdpr_session.  `recv` is the peer's receiver: the peer allocates a new
\* link, and what is left on the substrate belongs to a security association
\* that is gone.
ResetSession ==
    /\ generation < MaxRestarts
    /\ send' = ResetSender(send)
    /\ recv' = NewReceiver
    /\ generation' = generation + 1
    /\ net' = {} /\ log' = <<>> /\ handled' = 0 /\ refused' = {}
    /\ UNCHANGED <<timer, submitted, fut>>

SessionStep ==
    /\ \/ ApplyWindowSize
       \/ \E m \in net : RecvData(m)
       \/ \E m \in net : RecvCancel(m)
       \/ \E m \in net : RecvAnswer(m)
       \/ \E m \in net : Lose(m)
       \/ HandleNext
       \/ RetryTick
       \/ RetryTimerReset
    /\ UNCHANGED <<fut, generation>>

FutureStep(p) ==
    \/ SendPacket(p)
    \/ ToAcked(p)
    \/ \E limit \in RetryLimits : LimitRetries(p, limit)
    \/ RequestCancelOf(p)
    \/ Poll(p)
    \/ Detach(p)
    \/ DropFuture(p)

MNext ==
    \/ SessionStep
    \/ \E p \in Pkts : FutureStep(p)
    \/ ResetSession

MSpec == MInit /\ [][MNext]_mvars

\* The retry interval keeps ticking while retry_needed(), the processor worker
\* keeps running, and the substrate does not lose every copy of a message that
\* is resent for ever.  Woken tasks get polled; a future that has resolved is
\* dropped.
MFairness ==
    /\ WF_mvars(RetryTick /\ UNCHANGED <<fut, generation>>)
    /\ WF_mvars(RetryTimerReset /\ UNCHANGED <<fut, generation>>)
    /\ WF_mvars(HandleNext /\ UNCHANGED <<fut, generation>>)
    /\ \A n \in SeqNums :
          /\ SF_mvars(\E m \in net : m.sn = n /\ RecvData(m)
                                    /\ UNCHANGED <<fut, generation>>)
          /\ SF_mvars(\E m \in net : m.sn = n /\ RecvCancel(m)
                                    /\ UNCHANGED <<fut, generation>>)
          /\ SF_mvars(\E m \in net : m.sn = n /\ RecvAnswer(m)
                                    /\ UNCHANGED <<fut, generation>>)
    /\ \A p \in Pkts : /\ WF_mvars(Poll(p))
                       /\ WF_mvars(fut[p].res # "None" /\ DropFuture(p))

MFairSpec == MSpec /\ MFairness

-------------------------------------------------------------------------------
(* Properties.                                                             *)

\* Type invariant of the futures and of the session's generation.
MTypeOK ==
    /\ TypeOK
    /\ fut \in [Pkts ->
          [kind : Futures \cup {"Unsent", "Gone"},
           id : [t : {"Queued", "Sent", "Acked", "Canceled"}, n : Nat],
           gen : 0 .. MaxRestarts,
           res : {"None", "Acked", "Canceled", "LinkClosed"} \cup Panicked]]
    /\ generation \in 0 .. MaxRestarts

\* The sequence number the packet of future p was sent with, if any.
NumberOf(p) == {m.sn : m \in {x \in net : x.type = "Data" /\ x.pkt = p}}

\* A future that resolves to "acknowledged" tells the truth: the peer accepted
\* the packet for processing.
AckedMeansAccepted ==
    \A p \in Pkts : fut[p].res = "Acked" =>
        \E i \in 1 .. Len(log) : log[i].pkt = p

\* A future that resolves to "canceled" tells the truth: the peer has not acted
\* on the packet, and has promised not to.
CanceledMeansRefused ==
    \A p \in Pkts : fut[p].res = "Canceled" =>
        /\ \A i \in 1 .. Len(log) : log[i].pkt # p
        /\ NumberOf(p) \subseteq refused

\* No call on a future trips an assertion of the sender: packets may be
\* acknowledged, canceled, forgotten or unblocked, and the session restarted,
\* between any two calls.
NeverPanics == \A p \in Pkts : fut[p].res # "Assertion"

\* No wake-up is lost: a task that sleeps on its future is registered with the
\* entry of the packet it waits for, and that entry is still to be sent or answered.
SleepersRegistered ==
    \A p \in Pkts : Alive(p) /\ p \notin send.woken =>
        \/ \E n \in DOMAIN send.unacked :
              send.unacked[n].waker = p /\ Pending(send.unacked[n])
        \/ \E i \in DOMAIN send.blocked :
              send.blocked[i].waker = p /\ send.blocked[i].st = "Blocked"

\* A restart in the middle of traffic leaves a working session: what is
\* acknowledged or refused in it was decided in it, never mistaken for a
\* duplicate of the old one, and its retries are scheduled (reset_zdpr_session).
SessionRestarts == AnswersTruthful /\ RetryScheduled

\* Nothing is stranded in the send queue: while packets wait, something is
\* outstanding whose answer will make dispatch look at the queue again, or such
\* an answer is on its way.
NoStrandedPackets ==
    HasBlockedPackets(send) =>
        RetryNeeded(send) \/ \E m \in net : m.type \in {"Ack", "Canceled"}

\* Nothing more is to be done about packet p: its future is gone and the sender
\* neither retries it nor holds it back.
Finished(p) ==
    /\ fut[p].kind = "Gone"
    /\ \A n \in DOMAIN send.unacked : send.unacked[n].pkt = p => ~Pending(send.unacked[n])
    /\ \A i \in DOMAIN send.blocked : send.blocked[i].st = "Blocked" => send.blocked[i].pkt # p

\* The code awaiting a packet makes progress: every future resolves and is gone,
\* and its packet is answered by the peer, also when the future was detached,
\* though the packet was blocked on the way, messages were lost and the
\* processor queue was full.
FuturesResolve == \A p \in Pkts : fut[p].kind \in Futures ~> Finished(p)
===============================================================================
