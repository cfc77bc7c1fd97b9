------------------------------ MODULE ZdprSender ------------------------------
(***************************************************************************)
(* The sending half of a reliable ZDP session: zdpr.rs, struct Sender.     *)
(*                                                                         *)
(* A Sender is a record; each method is an operator from the old record to *)
(* the new one.  The three VecDeques are "indexed by sequence number" or   *)
(* "by packet ID" in the code, through offsets from last_sent and          *)
(* last_enqueued; here they are functions whose domain is that interval of *)
(* indices, so the length of a deque is the cardinality of its domain and  *)
(* "the front" is the least index.  Sequence numbers are u64 and start at  *)
(* SeqNum::MAX + 1 = 0; they are integers here, with -1 for SeqNum::MAX:   *)
(* the two agree for the first 2^63 packets of a session.                  *)
(***************************************************************************)
EXTENDS Integers, FiniteSets

CONSTANTS Pkts,     \* the packets callers may send
          U8Max     \* u8::MAX, where retry_count saturates

ASSUME U8MaxAssumption == U8Max \in Nat

\* Option::None for a retry limit.  No saturated count reaches it.
NoLimit == U8Max + 1

\* Option::None for an entry of `sent`: canceled before it was sent.
None == -1

\* A task is named by the packet whose future it polls; no packet has the name of
\* the waker that does nothing.
NoopWaker == "noop"

ASSUME NoopWakerAssumption == NoopWaker \notin Pkts

Tasks == Pkts \cup {NoopWaker}

UnackedStates == {"Unacked", "CancelRequested", "Acked", "CancelAcked"}

\* The statistics SenderStat::is_protocol_error blames on the peer.  They are
\* the ones kept (which of them are non-zero); the benign ones, TooOldAck and
\* DuplicateAck, change nothing else.
SenderStats == {"InvalidAck", "TooNewAck"}

UnackedEntries == [st : UnackedStates, pkt : Pkts, limit : 0 .. NoLimit,
                   count : 0 .. U8Max, forgotten : BOOLEAN, waker : Tasks]

BlockedEntries == [st : {"Blocked", "Canceled"}, pkt : Pkts,
                   limit : 0 .. NoLimit, waker : Tasks]

SenderTypeOK(s) ==
    /\ s \in [window_size : Nat \ {0}, last_sent : Nat \cup {-1}, unacked : {s.unacked},
             last_enqueued : Nat \cup {-1}, blocked : {s.blocked}, sent : {s.sent},
             stats : SUBSET SenderStats, woken : SUBSET Pkts]
    /\ s.unacked \in [DOMAIN s.unacked -> UnackedEntries]
    /\ s.blocked \in [DOMAIN s.blocked -> BlockedEntries]
    /\ s.sent \in [DOMAIN s.sent -> Nat \cup {None}]
    /\ DOMAIN s.unacked \subseteq Nat /\ IsFiniteSet(DOMAIN s.unacked)
    /\ DOMAIN s.blocked \subseteq Nat /\ IsFiniteSet(DOMAIN s.blocked)
    /\ DOMAIN s.sent \subseteq Nat

Lower(a, b) == IF a <= b THEN a ELSE b

Put(f, k, v) == [x \in DOMAIN f \cup {k} |-> IF x = k THEN v ELSE f[x]]

Keep(f, S) == [x \in S |-> f[x]]

Len_(f) == Cardinality(DOMAIN f)

IsFront(f, k) == \A x \in DOMAIN f : k <= x

Front(f) == CHOOSE k \in DOMAIN f : IsFront(f, k)

-------------------------------------------------------------------------------
\* `woken` is the set of tasks whose wakers have fired and that the executor
\* has not polled since.
NewSender ==
    [window_size |-> 1, last_sent |-> -1, unacked |-> [x \in {} |-> None],
     last_enqueued |-> -1, blocked |-> [x \in {} |-> None],
     sent |-> [x \in {} |-> None], stats |-> {}, woken |-> {}]

\* Dropping a Sender wakes every waker it still holds.
Waiters(s) ==
    ({s.unacked[n].waker : n \in DOMAIN s.unacked}
     \cup {s.blocked[i].waker : i \in DOMAIN s.blocked}) \ {NoopWaker}

ResetSender(s) == [NewSender EXCEPT !.woken = s.woken \cup Waiters(s)]

AdjustWindowSize(s, w) == [s EXCEPT !.window_size = w]

\* Mutant: the window admits one packet too many.
IsBlockedLate(s) == Len_(s.unacked) > s.window_size

IsBlocked(s) == Len_(s.unacked) >= s.window_size

HasBlockedPackets(s) == DOMAIN s.blocked # {}

UnblockNeeded(s) == ~IsBlocked(s) /\ HasBlockedPackets(s)

Pending(e) == e.st \in {"Unacked", "CancelRequested"}

RetryNeeded(s) == \E n \in DOMAIN s.unacked : Pending(s.unacked[n])

IsAcked(s, sn) ==
    /\ sn <= s.last_sent
    /\ sn \in DOMAIN s.unacked => ~Pending(s.unacked[sn])

\* Packet `id` has left the blocked queue.
IsSent(s, id) == id \notin DOMAIN s.blocked

LookupSeqNum(s, id) == IF id \in DOMAIN s.sent THEN s.sent[id] ELSE None

-------------------------------------------------------------------------------
(* Queue maintenance.                                                      *)

\* Pop Acked entries off the front; CancelAcked entries stay put.
CleanUnackedQueue(s) ==
    LET kept == {n \in DOMAIN s.unacked :
                    \E m \in DOMAIN s.unacked : m <= n /\ s.unacked[m].st # "Acked"}
    IN  [s EXCEPT !.unacked = Keep(@, kept)]

\* Move Canceled entries from the front of `blocked` to the back of `sent`.
CleanBlockedQueue(s) ==
    LET kept == {i \in DOMAIN s.blocked :
                    \E j \in DOMAIN s.blocked : j <= i /\ s.blocked[j].st = "Blocked"}
    IN  [s EXCEPT
            !.blocked = Keep(@, kept),
            !.sent = [i \in DOMAIN @ \cup (DOMAIN s.blocked \ kept) |->
                         IF i \in DOMAIN @ THEN @[i] ELSE None]]

\* Pop stale entries (canceled while queued, or answered) off the front of `sent`.
CleanSentQueue(s) ==
    LET live(i) == s.sent[i] # None /\ ~IsAcked(s, s.sent[i])
        kept == {i \in DOMAIN s.sent : \E j \in DOMAIN s.sent : j <= i /\ live(j)}
    IN  [s EXCEPT !.sent = Keep(@, kept)]

CleanAfter(s, sn) ==
    CleanSentQueue(IF IsFront(s.unacked, sn) THEN CleanUnackedQueue(s) ELSE s)

-------------------------------------------------------------------------------
(* Operations of the callers.                                              *)

UnackedEntry(p, limit) ==
    [st |-> "Unacked", pkt |-> p, limit |-> limit, count |-> 0,
     forgotten |-> FALSE, waker |-> NoopWaker]

EnqueueIsQueued(s) == IsBlocked(s) \/ HasBlockedPackets(s)

EnqueuePacket(s, p) ==
    IF EnqueueIsQueued(s)
    THEN [s EXCEPT !.last_enqueued = @ + 1,
                   !.blocked = Put(@, s.last_enqueued + 1,
                        [st |-> "Blocked", pkt |-> p, limit |-> NoLimit,
                         waker |-> NoopWaker])]
    ELSE [s EXCEPT !.last_sent = @ + 1,
                   !.unacked = Put(@, s.last_sent + 1, UnackedEntry(p, NoLimit))]

\* Mutant: an entry is overwritten without waking its waiter.
WokenNobody(e) == {}

Woken(e) == {e.waker} \ {NoopWaker}

\* Some(pkt) is returned exactly when the packet was still Blocked.
CanCancelQueued(s, id) == id \in DOMAIN s.blocked /\ s.blocked[id].st = "Blocked"

CancelQueuedPacket(s, id) ==
    LET marked == [s EXCEPT !.blocked[id] = [@ EXCEPT !.st = "Canceled",
                                                     !.limit = NoLimit,
                                                     !.waker = NoopWaker],
                            !.woken = @ \cup Woken(s.blocked[id])]
    IN  IF ~CanCancelQueued(s, id) THEN s
        ELSE IF IsFront(s.blocked, id) THEN CleanBlockedQueue(marked)
        ELSE marked

\* UnackedState::cancel: the packet body is dropped, the waiter kept.
CancelEntry(e) ==
    IF e.st = "Unacked"
    THEN [e EXCEPT !.st = "CancelRequested", !.limit = NoLimit, !.count = 0]
    ELSE e

CanCancelSent(s, sn) == sn \in DOMAIN s.unacked /\ s.unacked[sn].st = "Unacked"

CancelSentPacket(s, sn) ==
    IF CanCancelSent(s, sn) THEN [s EXCEPT !.unacked[sn] = CancelEntry(@)] ELSE s

LimitRetriesBySeqNum(s, sn, limit) ==
    IF CanCancelSent(s, sn)
    THEN [s EXCEPT !.unacked[sn].limit = Lower(limit, @)]
    ELSE s

LimitRetriesById(s, id, limit) ==
    IF IsSent(s, id)
    THEN IF LookupSeqNum(s, id) # None
         THEN LimitRetriesBySeqNum(s, LookupSeqNum(s, id), limit)
         ELSE s
    ELSE IF CanCancelQueued(s, id)
         THEN [s EXCEPT !.blocked[id].limit = Lower(limit, @)]
         ELSE s

\* The entry of an answered packet: nothing but the answer is kept.
Settled(e, st) == [e EXCEPT !.st = st, !.limit = NoLimit, !.count = 0,
                            !.forgotten = FALSE, !.waker = NoopWaker]

ForgetEntry(e) ==
    CASE e.st = "Unacked" /\ e.limit # NoLimit -> [e EXCEPT !.forgotten = TRUE]
      [] e.st = "CancelRequested" -> [e EXCEPT !.forgotten = TRUE]
      [] e.st = "CancelAcked" -> Settled(e, "Acked")
      [] OTHER -> e

ForgetCanceledPacket(s, sn) ==
    IF sn \in DOMAIN s.unacked
    THEN CleanAfter([s EXCEPT !.unacked[sn] = ForgetEntry(@)], sn)
    ELSE s

-------------------------------------------------------------------------------
(* Operations of the dispatcher, when an answer arrives.                   *)

CountStat(s, stat) == [s EXCEPT !.stats = @ \cup ({stat} \cap SenderStats)]

\* Mutant: an answer does not wake the task that awaits it.
AnswerSilently(s, sn, st) == CleanAfter([s EXCEPT !.unacked[sn] = Settled(@, st)], sn)

Answer(s, sn, st) ==
    CleanAfter([s EXCEPT !.unacked[sn] = Settled(@, st),
                         !.woken = @ \cup Woken(s.unacked[sn])], sn)

\* Mutant: an acknowledgement that crosses a cancel is taken for the cancel's.
ProcessAckAsCanceled(s, sn) ==
    IF sn > s.last_sent THEN CountStat(s, "TooNewAck")
    ELSE IF sn \notin DOMAIN s.unacked THEN CountStat(s, "TooOldAck")
    ELSE CASE s.unacked[sn].st = "CancelRequested" -> Answer(s, sn, "CancelAcked")
           [] s.unacked[sn].st = "Unacked" -> Answer(s, sn, "Acked")
           [] OTHER -> s

ProcessAck(s, sn) ==
    IF sn > s.last_sent THEN CountStat(s, "TooNewAck")
    ELSE IF sn \notin DOMAIN s.unacked THEN CountStat(s, "TooOldAck")
    ELSE CASE Pending(s.unacked[sn]) -> Answer(s, sn, "Acked")
           [] s.unacked[sn].st = "Acked" -> CountStat(s, "DuplicateAck")
           [] OTHER -> CountStat(s, "InvalidAck")

ProcessCanceled(s, sn) ==
    IF sn > s.last_sent THEN CountStat(s, "TooNewAck")
    ELSE IF sn \notin DOMAIN s.unacked THEN CountStat(s, "TooOldAck")
    ELSE CASE s.unacked[sn].st = "CancelRequested" ->
                Answer(s, sn, IF s.unacked[sn].forgotten THEN "Acked"
                                                         ELSE "CancelAcked")
           [] s.unacked[sn].st = "CancelAcked" -> CountStat(s, "DuplicateAck")
           [] OTHER -> CountStat(s, "InvalidAck")

\* The loop `while unblock_needed() { enqueue_next_blocked_packet() }` in closed
\* form: as many live packets as the window has room for are given the next
\* sequence numbers in order of packet ID, and they and the canceled packets
\* before the next live one move to `sent`.
LiveBlocked(s) == {i \in DOMAIN s.blocked : s.blocked[i].st = "Blocked"}

Rank(S, i) == Cardinality({j \in S : j <= i})

UnblockCount(s) ==
    IF UnblockNeeded(s)
    THEN Lower(s.window_size - Len_(s.unacked), Cardinality(LiveBlocked(s)))
    ELSE 0

EnqueueBlockedPackets(s) ==
    LET n == UnblockCount(s)
        live == LiveBlocked(s)
        nth(k) == CHOOSE i \in live : Rank(live, i) = k
        moved == {i \in live : Rank(live, i) <= n}
        kept == {i \in DOMAIN s.blocked : \E j \in live \ moved : j <= i}
    IN  IF n = 0 THEN s
        ELSE [s EXCEPT
            !.last_sent = @ + n,
            !.unacked = [m \in DOMAIN @ \cup (s.last_sent + 1 .. s.last_sent + n) |->
                IF m \in DOMAIN @ THEN @[m]
                ELSE LET b == s.blocked[nth(m - s.last_sent)]
                     IN  UnackedEntry(b.pkt, b.limit)],
            !.blocked = Keep(@, kept),
            !.sent = [i \in DOMAIN @ \cup (DOMAIN s.blocked \ kept) |->
                CASE i \in DOMAIN @ -> @[i]
                  [] i \in moved -> s.last_sent + Rank(live, i)
                  [] OTHER -> None],
            !.woken = @ \cup UNION {Woken(s.blocked[i]) : i \in moved}]

-------------------------------------------------------------------------------
(* The retry timer.                                                        *)

AgeEntry(e) ==
    IF e.st # "Unacked" THEN e
    ELSE IF e.count >= e.limit THEN CancelEntry(e)
    ELSE [e EXCEPT !.count = Lower(@ + 1, U8Max)]

AgeRetries(s) ==
    [s EXCEPT !.unacked = [n \in DOMAIN @ |-> AgeEntry(@[n])]]

RetryPackets(s) == {n \in DOMAIN s.unacked : s.unacked[n].st = "Unacked"}

RetryCancels(s) == {n \in DOMAIN s.unacked : s.unacked[n].st = "CancelRequested"}
===============================================================================
