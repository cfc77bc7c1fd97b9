--------------------------------- MODULE Zdpr ---------------------------------
(***************************************************************************)
(* One direction of a reliable ZDP session between two packet handlers:    *)
(* the zdpr::Sender of one end, the zdpr::Receiver of the other, and the   *)
(* code that drives them:                                                  *)
(*                                                                         *)
(*   - mgmt/core.rs, through which callers send, cancel, retry-limit and   *)
(*     forget packets;                                                     *)
(*   - mgmt/dispatch.rs, which handles packets, cancels and both kinds of  *)
(*     acknowledgement as they arrive;                                     *)
(*   - zdpr_worker.rs, the retry timer;                                    *)
(*   - mgmt_processor_worker.rs, which takes accepted packets off the      *)
(*     bounded management-processor queue.                                 *)
(*                                                                         *)
(* Each action runs under the mutex of the Sender or of the Receiver.  The *)
(* substrate (UDP) may lose, duplicate and reorder: a message is a member  *)
(* of the set `net`, delivery leaves it there (a later copy), Lose removes *)
(* it.  A queue that is full on the way out is one more loss.              *)
(***************************************************************************)
EXTENDS ZdprSender, ZdprReceiver, Sequences

CONSTANTS RetryLimits,    \* the limits callers give to limit_retries
          QueueSize,      \* capacity of the management-processor queue
          Lossy           \* the types of messages Lose removes (see the README)

ASSUME ZdprAssumption == /\ RetryLimits \subseteq 0 .. U8Max
                         /\ QueueSize \in Nat \ {0}
                         /\ Lossy \subseteq {"Data", "Cancel", "Ack", "Canceled"}

VARIABLES send,       \* the Sender of this direction
          recv,       \* the Receiver of this direction
          net,        \* messages on the substrate, both ways
          submitted,  \* history: packets handed to send_mgmt_helper, in order
          log,        \* history: packets accepted for processing, in order
          handled,    \* how many of them the processor worker has handled
          timer,      \* the retry worker: is its interval armed, is a reset notified
          refused     \* history: sequence numbers the receiver agreed to cancel

vars == <<send, recv, net, timer, submitted, log, handled, refused>>

DataMsg(sn, p) == [type |-> "Data", sn |-> sn, pkt |-> p]

CtlMsg(t, sn) == [type |-> t, sn |-> sn]

CtlTypes == {"Cancel", "Ack", "Canceled"}

Accepted == {log[i].sn : i \in 1 .. Len(log)}

Init ==
    /\ send = NewSender
    /\ recv = NewReceiver
    /\ net = {}
    /\ timer = [armed |-> FALSE, notified |-> FALSE]
    /\ submitted = <<>>
    /\ log = <<>>
    /\ handled = 0
    /\ refused = {}

-------------------------------------------------------------------------------
(* Callers.                                                                *)

\* build_and_egress_packets for every sequence number in S
Egress(s, S) == {DataMsg(n, s.unacked[n].pkt) : n \in S}

\* Mutant: the retry worker is told of the packets it knows about only.
NotifyRetryKnown(old, s) ==
    IF RetryNeeded(s) /\ RetryNeeded(old) THEN [timer EXCEPT !.notified = TRUE]
    ELSE timer

\* zdpr_retry_timer_reset.notify_one() if `s` became a sender with packets to
\* retry and `old` was not one
NotifyRetry(old, s) ==
    IF RetryNeeded(s) /\ ~RetryNeeded(old) THEN [timer EXCEPT !.notified = TRUE]
    ELSE timer

SendMgmt(p) ==
    /\ \A i \in 1 .. Len(submitted) : submitted[i] # p
    /\ submitted' = Append(submitted, p)
    /\ send' = EnqueuePacket(send, p)
    /\ net' = net \cup Egress(send', DOMAIN send'.unacked \ DOMAIN send.unacked)
    /\ timer' = NotifyRetry(send, send')
    /\ UNCHANGED <<recv, log, handled, refused>>

TryCancel(id) ==
    /\ CanCancelQueued(send, id)
    /\ send' = CancelQueuedPacket(send, id)
    /\ UNCHANGED <<recv, net, timer, submitted, log, handled, refused>>

RequestCancel(sn) ==
    /\ CanCancelSent(send, sn)
    /\ send' = CancelSentPacket(send, sn)
    /\ net' = net \cup {CtlMsg("Cancel", sn)}
    /\ UNCHANGED <<recv, timer, submitted, log, handled, refused>>

LimitRetriesQueued(id, limit) ==
    /\ send' = LimitRetriesById(send, id, limit)
    /\ send' # send
    /\ UNCHANGED <<recv, net, timer, submitted, log, handled, refused>>

LimitRetriesSent(sn, limit) ==
    /\ send' = LimitRetriesBySeqNum(send, sn, limit)
    /\ send' # send
    /\ UNCHANGED <<recv, net, timer, submitted, log, handled, refused>>

Forget(sn) ==
    /\ send' = ForgetCanceledPacket(send, sn)
    /\ send' # send
    /\ UNCHANGED <<recv, net, timer, submitted, log, handled, refused>>

\* process_window_size_tlv: the peer's Hello announces its receive window.
ApplyWindowSize ==
    /\ send.window_size # RecvWindowSize
    /\ send' = AdjustWindowSize(send, RecvWindowSize)
    /\ UNCHANGED <<recv, net, timer, submitted, log, handled, refused>>

-------------------------------------------------------------------------------
(* The receiving end.                                                      *)

QueueFull == Len(log) - handled >= QueueSize

\* dispatch_mgmt_packet_with_link.  A packet that should be processed but finds
\* the processor queue full is treated as if it had never been received.
RecvData(m) ==
    /\ m.type = "Data"
    /\ LET process == ShouldProcessPacket(recv, m.sn)
           answer == Disposition(recv, m.sn, FALSE)
       IN  /\ ~(process /\ QueueFull)
           /\ recv' = ProcessPacketOrCancel(recv, m.sn, FALSE)
           /\ log' = IF process THEN Append(log, [sn |-> m.sn, pkt |-> m.pkt]) ELSE log
           /\ net' = IF answer = "Ignore" THEN net
                     ELSE net \cup {CtlMsg(answer, m.sn)}
    /\ UNCHANGED <<send, timer, submitted, handled, refused>>

\* handle_cancel
RecvCancel(m) ==
    /\ m.type = "Cancel"
    /\ LET answer == Disposition(recv, m.sn, TRUE)
       IN  /\ recv' = ProcessPacketOrCancel(recv, m.sn, TRUE)
           /\ net' = IF answer = "Ignore" THEN net
                     ELSE net \cup {CtlMsg(answer, m.sn)}
           /\ refused' = IF ShouldProcessPacket(recv, m.sn)
                         THEN refused \cup {m.sn} ELSE refused
    /\ UNCHANGED <<send, timer, submitted, log, handled>>

\* The processor worker takes the next packet off its queue.
HandleNext ==
    /\ handled < Len(log)
    /\ handled' = handled + 1
    /\ UNCHANGED <<send, recv, net, timer, submitted, log, refused>>

-------------------------------------------------------------------------------
(* The sending end.                                                        *)

\* handle_acknowledgement_canceled_common
ProcessAnswer(m) ==
    IF m.type = "Ack" THEN ProcessAck(send, m.sn) ELSE ProcessCanceled(send, m.sn)

RecvAnswer(m) ==
    /\ m.type \in {"Ack", "Canceled"}
    /\ LET answered == ProcessAnswer(m)
           unblocked == EnqueueBlockedPackets(answered)
       IN  /\ send' = unblocked
           /\ net' = net \cup Egress(unblocked,
                                     DOMAIN unblocked.unacked \ DOMAIN answered.unacked)
           /\ timer' = NotifyRetry(answered, unblocked)
    /\ UNCHANGED <<recv, submitted, log, handled, refused>>

\* The retry worker waits for a tick, but only if retry_needed() held when it
\* began to wait, and for a notification.  Both start the loop over.
RetryTick ==
    /\ timer.armed
    /\ LET aged == AgeRetries(send)
       IN  /\ send' = aged
           /\ net' = net \cup Egress(aged, RetryPackets(aged))
                         \cup {CtlMsg("Cancel", n) : n \in RetryCancels(aged)}
           /\ timer' = [timer EXCEPT !.armed = RetryNeeded(aged)]
    /\ UNCHANGED <<recv, submitted, log, handled, refused>>

RetryTimerReset ==
    /\ timer.notified
    /\ timer' = [armed |-> RetryNeeded(send), notified |-> FALSE]
    /\ UNCHANGED <<send, recv, net, submitted, log, handled, refused>>

Lose(m) ==
    /\ m.type \in Lossy
    /\ net' = net \ {m}
    /\ UNCHANGED <<send, recv, timer, submitted, log, handled, refused>>

Caller ==
    \/ \E p \in Pkts : SendMgmt(p)
    \/ \E id \in DOMAIN send.blocked : TryCancel(id)
    \/ \E sn \in DOMAIN send.unacked : RequestCancel(sn)
    \/ \E id \in 0 .. send.last_enqueued, limit \in RetryLimits :
          LimitRetriesQueued(id, limit)
    \/ \E sn \in DOMAIN send.unacked, limit \in RetryLimits :
          LimitRetriesSent(sn, limit)
    \/ \E sn \in DOMAIN send.unacked : Forget(sn)

Next ==
    \/ Caller
    \/ ApplyWindowSize
    \/ \E m \in net : RecvData(m)
    \/ \E m \in net : RecvCancel(m)
    \/ \E m \in net : RecvAnswer(m)
    \/ \E m \in net : Lose(m)
    \/ HandleNext
    \/ RetryTick
    \/ RetryTimerReset

Spec == Init /\ [][Next]_vars

Messages == [type : {"Data"}, sn : Nat, pkt : Pkts] \cup [type : CtlTypes, sn : Nat]

SeqNums == 0 .. Cardinality(Pkts) - 1

-------------------------------------------------------------------------------
(* Properties.                                                             *)

\* Type invariant of the session: sender, receiver, substrate and histories.
TypeOK ==
    /\ SenderTypeOK(send)
    /\ ReceiverTypeOK(recv)
    /\ net \subseteq Messages
    /\ timer \in [armed : BOOLEAN, notified : BOOLEAN]
    /\ submitted \in Seq(Pkts)
    /\ log \in Seq([sn : Nat, pkt : Pkts])
    /\ handled \in 0 .. Len(log)
    /\ refused \subseteq Nat

\* However the substrate duplicates and reorders, and whatever is retried or
\* canceled, dispatch hands no packet to the management processor twice.
AtMostOnce ==
    \A i, j \in 1 .. Len(log) : log[i].sn = log[j].sn => i = j

\* The receiver's answers are true and final: an acknowledgement on the wire is
\* of a packet that was accepted, a cancellation acknowledgement of one that
\* was not and never will be.
AnswersTruthful ==
    /\ Accepted \cap refused = {}
    /\ \A m \in net : /\ m.type = "Ack" => m.sn \in Accepted
                      /\ m.type = "Canceled" => m.sn \in refused

\* Within its reach the receiver's memory is exact: the bit of a sequence number
\* says whether its fate was decided, and the other whether it was canceled,
\* however often the window has been shifted since.
WindowRemembers ==
    /\ \A n \in Accepted \cup refused : n <= recv.highest_seen
    /\ \A i \in Positions : recv.highest_seen - i >= 0 =>
          /\ i \in recv.recvd <=> recv.highest_seen - i \in Accepted \cup refused
          /\ i \in recv.canceled <=> recv.highest_seen - i \in refused

\* What the sender believes is what the receiver did: a packet leaves the window
\* (or counts as acknowledged in it) only once the peer has decided its fate,
\* and one that is held as CancelAcked was not processed by the peer.
SenderBelievesTruth ==
    /\ \A n \in 0 .. send.last_sent :
          IsAcked(send, n) => n \in Accepted \cup refused
    /\ \A n \in DOMAIN send.unacked :
          send.unacked[n].st = "CancelAcked" => n \in refused \ Accepted

\* The receiver can always answer what is outstanding: a packet or cancel that
\* the sender still retries is neither too old nor too new for the receiver's
\* window, so its retries are never silently ignored.
PendingAnswerable ==
    \A n \in DOMAIN send.unacked :
        Pending(send.unacked[n]) => Classify(recv, n) \notin {"TooOld", "TooNew"}

\* Two conforming ends never see each other commit the protocol errors
\* ReceiverStat::TooNew and SenderStat::TooNewAck.
NoWindowViolation ==
    /\ "TooNew" \notin recv.stats
    /\ "TooNewAck" \notin send.stats

\* The retry worker is never asleep while something must be retried: its interval
\* is armed or a notification is waiting for it.
RetryScheduled == RetryNeeded(send) => timer.armed \/ timer.notified

\* The shape of the sender's queues that the methods rely on and that
\* clean_unacked_queue and clean_blocked_queue are there to restore: the
\* unacked window is the interval that ends at last_sent, holds no more than
\* the window size, and has no Acked entry in front; `sent` and `blocked` are
\* adjacent intervals that end at last_enqueued, with no Canceled entry in front.
SenderShape ==
    LET top(f, d) == DOMAIN f = (d - Len_(f) + 1) .. d
    IN  /\ top(send.unacked, send.last_sent)
        /\ Len_(send.unacked) <= send.window_size
        /\ \A n \in DOMAIN send.unacked :
              IsFront(send.unacked, n) => send.unacked[n].st # "Acked"
        /\ top(send.blocked, send.last_enqueued)
        /\ top(send.sent, send.last_enqueued - Len_(send.blocked))
        /\ \A i \in DOMAIN send.blocked :
              IsFront(send.blocked, i) => send.blocked[i].st = "Blocked"

\* Packets get their sequence numbers in the order in which they were submitted,
\* one each, whether they were blocked on the way or not.
FifoNumbering ==
    LET numbered == {m \in net : m.type = "Data"}
                    \cup {DataMsg(n, send.unacked[n].pkt) : n \in DOMAIN send.unacked}
        pos(p) == CHOOSE i \in 1 .. Len(submitted) : submitted[i] = p
    IN  \A m1, m2 \in numbered :
            /\ m1.sn = m2.sn <=> m1.pkt = m2.pkt
            /\ pos(m1.pkt) < pos(m2.pkt) => m1.sn < m2.sn

\* What the two ends of a session keep true between them at every step of
\* callers, dispatch and retry worker: the sender believes only what the
\* receiver did and never outruns its window, what it retries is answerable and
\* will be retried, its queues stay aligned and keep their order.
SessionInvariant ==
    /\ SenderBelievesTruth
    /\ PendingAnswerable
    /\ NoWindowViolation
    /\ SenderShape
    /\ RetryScheduled
    /\ FifoNumbering

\* The session implements the abstract channel: every step of callers,
\* dispatch, retry timer and substrate is a step of ReliableChannel or changes
\* nothing its users can see.
Channel == INSTANCE ReliableChannel WITH
    Window <- RecvWindowSize,
    issued <- send.last_sent + 1,
    accepted <- Accepted,
    refused <- refused,
    settled <- {n \in 0 .. send.last_sent : IsAcked(send, n)}

ImplementsChannel == Channel!ChannelSpec
===============================================================================
