------------------------------ MODULE ZdprProofs ------------------------------
(***************************************************************************)
(* Theorems about a ZDP-R session and the futures on top of it, for any    *)
(* number of packets, any word size of the receiver's bitsets, any window, *)
(* any retry limits and any loss: the receiver decides each packet once    *)
(* and tells the truth about it; what the sender believes of the receiver  *)
(* is true, it never outruns the window, and the session implements        *)
(* ReliableChannel; and a session that is restarted under its callers      *)
(* keeps its promises to them.                                             *)
(***************************************************************************)
EXTENDS MgmtSend, FiniteSetTheorems, WellFoundedInduction, SequenceTheorems, TLAPS

-------------------------------------------------------------------------------
(* The sender: each of its operators keeps a Sender well formed.           *)

\* The order in which the least element of a set is taken.
LEMMA LessThan == \A x, y \in Nat : (<<y, x>> \in OpToRel(<, Nat)) <=> y < x
<1> SUFFICES ASSUME NEW x \in Nat, NEW y \in Nat
             PROVE  (<<y, x>> \in OpToRel(<, Nat)) <=> y < x
  OBVIOUS
<1>1. OpToRel(<, Nat) = {ss \in Nat \X Nat : ss[1] < ss[2]}
  BY DEF OpToRel
<1>2. <<y, x>> \in {ss \in Nat \X Nat : ss[1] < ss[2]} <=> y < x
  OBVIOUS
<1> QED BY <1>1, <1>2, Zenon

\* A set of indices that is not empty has a front.
LEMMA LeastElement ==
  ASSUME NEW T, T \subseteq Nat, T # {}
  PROVE  \E x \in T : \A y \in T : x <= y
<1>1. \E x \in T : \A y \in T : ~(<<y, x>> \in OpToRel(<, Nat))
  BY NatLessThanWellFounded, WFMin, Zenon
<1>2. \E x \in T : \A y \in T : ~(y < x)
  BY <1>1, LessThan, Zenon
<1> QED BY <1>2

\* A finite set of indices has an upper bound.
LEMMA UpperBound ==
  ASSUME NEW S \in SUBSET Nat, IsFiniteSet(S)
  PROVE  \E b \in Nat : \A x \in S : x <= b
<1> DEFINE Unbounded(T) == ~ \E b \in Nat : \A x \in T : x <= b
           Sizes == {c \in Nat : \E T \in SUBSET Nat :
                        IsFiniteSet(T) /\ Cardinality(T) = c /\ Unbounded(T)}
<1>1. SUFFICES ASSUME Unbounded(S) PROVE FALSE
  OBVIOUS
<1>2. Cardinality(S) \in Sizes
  BY <1>1, FS_CardinalityType
<1>3. PICK c \in Sizes : \A d \in Sizes : c <= d
  BY <1>2, LeastElement
<1>4. PICK T \in SUBSET Nat : IsFiniteSet(T) /\ Cardinality(T) = c /\ Unbounded(T)
  BY <1>3
<1>5. PICK y \in T : TRUE
  BY <1>4
<1>6. IsFiniteSet(T \ {y}) /\ Cardinality(T \ {y}) = c - 1 /\ c - 1 \in Nat
  <2>1. IsFiniteSet(T \ {y}) /\ Cardinality(T \ {y}) = c - 1
    BY <1>4, <1>5, FS_RemoveElement
  <2>2. Cardinality(T \ {y}) \in Nat
    BY <2>1, FS_CardinalityType
  <2> QED BY <2>1, <2>2
<1>7. ~Unbounded(T \ {y})
  <2>1. c - 1 \notin Sizes
    BY <1>3, <1>6
  <2> QED BY <2>1, <1>6, <1>4
<1>8. PICK b \in Nat : \A x \in T \ {y} : x <= b
  BY <1>7
<1>9. b + y \in Nat /\ \A x \in T : x <= b + y
  BY <1>8, <1>4, <1>5
<1> QED BY <1>9, <1>4

\* The ranks of the members of a finite set are 1 .. Cardinality: the nth live
\* packet of the blocked queue exists.
LEMMA RankExists ==
  ASSUME NEW S \in SUBSET Nat, IsFiniteSet(S), NEW k \in 1 .. Cardinality(S)
  PROVE  \E i \in S : Rank(S, i) = k
<1> DEFINE Upto(n) == {j \in S : j <= n}
           T == {n \in Nat : Cardinality(Upto(n)) >= k}
<1> HIDE DEF Upto
<1>1. \A n : IsFiniteSet(Upto(n)) /\ Cardinality(Upto(n)) \in Nat
  <2> SUFFICES ASSUME NEW n PROVE IsFiniteSet(Upto(n)) /\ Cardinality(Upto(n)) \in Nat
    OBVIOUS
  <2>1. IsFiniteSet(Upto(n))
    BY FS_Subset DEF Upto
  <2> QED BY <2>1, FS_CardinalityType
<1>2. T # {}
  <2>1. PICK b \in Nat : \A x \in S : x <= b
    BY UpperBound
  <2>2. Upto(b) = S
    BY <2>1 DEF Upto
  <2>3. b \in T
    BY <2>2, FS_CardinalityType
  <2> QED BY <2>3
<1>3. PICK n \in T : \A m \in T : n <= m
  BY <1>2, LeastElement
<1>4. n \in S /\ Cardinality(Upto(n)) = k
  <2>1. CASE n = 0
    <3>1. CASE 0 \in S
      <4>1. \A j \in S : j <= 0 <=> j = 0
        OBVIOUS
      <4>2. Upto(0) = {0}
        BY <4>1, <3>1 DEF Upto
      <4>3. Cardinality(Upto(0)) = 1
        BY <4>2, FS_Singleton
      <4> QED BY <4>3, <3>1, <2>1, <1>3
    <3>2. CASE 0 \notin S
      <4>1. \A j \in S : ~(j <= 0)
        BY <3>2
      <4>2. Upto(0) = {}
        BY <4>1 DEF Upto
      <4>3. Cardinality(Upto(0)) = 0
        BY <4>2, FS_EmptySet
      <4> QED BY <4>3, <2>1, <1>3
    <3> QED BY <3>1, <3>2
  <2>2. CASE n # 0
    <3>0. n \in Nat
      OBVIOUS
    <3>1. n - 1 \in Nat /\ n - 1 \notin T
      <4>1. n - 1 \in Nat /\ ~(n <= n - 1)
        BY <2>2, <3>0
      <4> HIDE DEF T
      <4> QED BY <4>1, <1>3
    <3>2. Cardinality(Upto(n - 1)) < k
      BY <3>1, <1>1
    <3>3. CASE n \in S
      <4>1. Upto(n) = Upto(n - 1) \cup {n} /\ n \notin Upto(n - 1)
        <5>1. \A j \in S : j <= n <=> j <= n - 1 \/ j = n
          BY <3>0
        <5>2. ~(n <= n - 1)
          BY <3>0
        <5> QED BY <5>1, <5>2, <3>3 DEF Upto
      <4>2. Cardinality(Upto(n)) = Cardinality(Upto(n - 1)) + 1
        BY <4>1, <1>1, FS_AddElement
      <4> QED BY <4>2, <3>2, <3>3, <1>3, <1>1
    <3>4. CASE n \notin S
      <4>1. Upto(n) = Upto(n - 1)
        <5>1. \A j \in S : j <= n <=> j <= n - 1
          BY <3>0, <3>4
        <5> QED BY <5>1 DEF Upto
      <4> QED BY <4>1, <3>2, <1>3, <1>1
    <3> QED BY <3>3, <3>4
  <2> QED BY <2>1, <2>2
<1> QED BY <1>4 DEF Rank, Upto

-------------------------------------------------------------------------------
(* Every operator returns a well-formed Sender.                            *)

\* The ranges of the counters of an entry.
LEMMA Limits == /\ NoLimit \in 0 .. NoLimit
                /\ 0 \in 0 .. U8Max
                /\ \A c \in 0 .. U8Max : c \in 0 .. NoLimit
BY U8MaxAssumption DEF NoLimit

\* Keeping some of the indices of a queue keeps it a queue.
LEMMA KeepUnacked ==
  ASSUME NEW s, SenderTypeOK(s), NEW S, S \subseteq DOMAIN s.unacked
  PROVE  SenderTypeOK([s EXCEPT !.unacked = Keep(@, S)])
<1>1. IsFiniteSet(S)
  BY FS_Subset DEF SenderTypeOK
<1> QED BY <1>1 DEF SenderTypeOK, Keep

LEMMA ReplaceUnacked ==
  ASSUME NEW s, SenderTypeOK(s), NEW n \in DOMAIN s.unacked, NEW e \in UnackedEntries
  PROVE  SenderTypeOK([s EXCEPT !.unacked[n] = e])
BY DEF SenderTypeOK

LEMMA NewSenderType == SenderTypeOK(NewSender)
BY FS_EmptySet DEF NewSender, SenderTypeOK

LEMMA AdjustWindowSizeType ==
  ASSUME NEW s, SenderTypeOK(s), NEW w \in Nat \ {0}
  PROVE  SenderTypeOK(AdjustWindowSize(s, w))
BY DEF SenderTypeOK, AdjustWindowSize

LEMMA CleanUnackedQueueType ==
  ASSUME NEW s, SenderTypeOK(s)
  PROVE  SenderTypeOK(CleanUnackedQueue(s))
BY KeepUnacked DEF CleanUnackedQueue

LEMMA CleanSentQueueType ==
  ASSUME NEW s, SenderTypeOK(s)
  PROVE  SenderTypeOK(CleanSentQueue(s))
BY DEF SenderTypeOK, CleanSentQueue, Keep

LEMMA CleanAfterType ==
  ASSUME NEW s, SenderTypeOK(s), NEW sn
  PROVE  SenderTypeOK(CleanAfter(s, sn))
BY CleanUnackedQueueType, CleanSentQueueType DEF CleanAfter

LEMMA CleanBlockedQueueType ==
  ASSUME NEW s, SenderTypeOK(s)
  PROVE  SenderTypeOK(CleanBlockedQueue(s))
<1> DEFINE kept == {i \in DOMAIN s.blocked :
                       \E j \in DOMAIN s.blocked : j <= i /\ s.blocked[j].st = "Blocked"}
<1>1. kept \subseteq DOMAIN s.blocked
  OBVIOUS
<1>2. IsFiniteSet(kept)
  BY <1>1, FS_Subset DEF SenderTypeOK
<1> HIDE DEF kept
<1>3. SenderTypeOK([s EXCEPT
            !.blocked = Keep(@, kept),
            !.sent = [i \in DOMAIN @ \cup (DOMAIN s.blocked \ kept) |->
                         IF i \in DOMAIN @ THEN @[i] ELSE None]])
  BY <1>1, <1>2 DEF SenderTypeOK, Keep, None
<1> QED BY <1>3 DEF CleanBlockedQueue, kept

LEMMA EnqueuePacketType ==
  ASSUME NEW s, SenderTypeOK(s), NEW p \in Pkts
  PROVE  SenderTypeOK(EnqueuePacket(s, p))
<1>1. CASE EnqueueIsQueued(s)
  <2>1. s.last_enqueued + 1 \in Nat
    BY DEF SenderTypeOK
  <2>2. IsFiniteSet(DOMAIN s.blocked \cup {s.last_enqueued + 1})
    BY FS_AddElement DEF SenderTypeOK
  <2>3. [st |-> "Blocked", pkt |-> p, limit |-> NoLimit, waker |-> NoopWaker]
          \in BlockedEntries
    BY Limits DEF BlockedEntries, Tasks
  <2> QED BY <1>1, <2>1, <2>2, <2>3
          DEF SenderTypeOK, EnqueuePacket, Put
<1>2. CASE ~EnqueueIsQueued(s)
  <2>1. s.last_sent + 1 \in Nat
    BY DEF SenderTypeOK
  <2>2. IsFiniteSet(DOMAIN s.unacked \cup {s.last_sent + 1})
    BY FS_AddElement DEF SenderTypeOK
  <2>3. UnackedEntry(p, NoLimit) \in UnackedEntries
    BY Limits DEF UnackedEntry, UnackedEntries, UnackedStates, Tasks
  <2> QED BY <1>2, <2>1, <2>2, <2>3 DEF SenderTypeOK, EnqueuePacket, Put
<1> QED BY <1>1, <1>2

LEMMA CancelQueuedPacketType ==
  ASSUME NEW s, SenderTypeOK(s), NEW id
  PROVE  SenderTypeOK(CancelQueuedPacket(s, id))
<1> DEFINE marked == [s EXCEPT !.blocked[id] = [@ EXCEPT !.st = "Canceled",
                                                     !.limit = NoLimit,
                                                     !.waker = NoopWaker],
                               !.woken = @ \cup Woken(s.blocked[id])]
<1>1. CASE CanCancelQueued(s, id)
  <2>1. SenderTypeOK(marked)
    <3>1. s.blocked[id] \in BlockedEntries /\ id \in DOMAIN s.blocked
      BY <1>1 DEF SenderTypeOK, CanCancelQueued
    <3>2. Woken(s.blocked[id]) \subseteq Pkts
      BY <3>1 DEF Woken, BlockedEntries, Tasks
    <3>3. [s.blocked[id] EXCEPT !.st = "Canceled", !.limit = NoLimit, !.waker = NoopWaker]
            \in BlockedEntries
      BY <3>1, Limits DEF BlockedEntries, Tasks
    <3> QED BY <3>1, <3>2, <3>3 DEF SenderTypeOK
  <2> QED BY <1>1, <2>1, CleanBlockedQueueType DEF CancelQueuedPacket
<1> QED BY <1>1 DEF CancelQueuedPacket

LEMMA CancelSentPacketType ==
  ASSUME NEW s, SenderTypeOK(s), NEW sn
  PROVE  SenderTypeOK(CancelSentPacket(s, sn))
<1>1. CASE CanCancelSent(s, sn)
  <2>1. sn \in DOMAIN s.unacked /\ s.unacked[sn] \in UnackedEntries
    BY <1>1 DEF CanCancelSent, SenderTypeOK
  <2>2. CancelEntry(s.unacked[sn]) \in UnackedEntries
    BY <2>1, Limits DEF CancelEntry, UnackedEntries, UnackedStates
  <2> QED BY <1>1, <2>1, <2>2, ReplaceUnacked DEF CancelSentPacket
<1> QED BY <1>1 DEF CancelSentPacket

LEMMA LimitRetriesBySeqNumType ==
  ASSUME NEW s, SenderTypeOK(s), NEW sn, NEW limit \in 0 .. U8Max
  PROVE  SenderTypeOK(LimitRetriesBySeqNum(s, sn, limit))
<1>1. CASE CanCancelSent(s, sn)
  <2>1. sn \in DOMAIN s.unacked /\ s.unacked[sn] \in UnackedEntries
    BY <1>1 DEF CanCancelSent, SenderTypeOK
  <2>2. [s.unacked[sn] EXCEPT !.limit = Lower(limit, @)] \in UnackedEntries
    BY <2>1, U8MaxAssumption DEF UnackedEntries, Lower, NoLimit
  <2> QED BY <1>1, <2>1, <2>2 DEF LimitRetriesBySeqNum, SenderTypeOK
<1> QED BY <1>1 DEF LimitRetriesBySeqNum

LEMMA LimitRetriesByIdType ==
  ASSUME NEW s, SenderTypeOK(s), NEW id, NEW limit \in 0 .. U8Max
  PROVE  SenderTypeOK(LimitRetriesById(s, id, limit))
<1>1. CASE ~IsSent(s, id) /\ CanCancelQueued(s, id)
  <2>1. id \in DOMAIN s.blocked /\ s.blocked[id] \in BlockedEntries
    BY <1>1 DEF CanCancelQueued, SenderTypeOK
  <2>2. [s.blocked[id] EXCEPT !.limit = Lower(limit, @)] \in BlockedEntries
    BY <2>1, U8MaxAssumption DEF BlockedEntries, Lower, NoLimit
  <2> QED BY <1>1, <2>1, <2>2 DEF LimitRetriesById, SenderTypeOK
<1> QED BY <1>1, LimitRetriesBySeqNumType DEF LimitRetriesById

LEMMA ForgetCanceledPacketType ==
  ASSUME NEW s, SenderTypeOK(s), NEW sn
  PROVE  SenderTypeOK(ForgetCanceledPacket(s, sn))
<1>1. CASE sn \in DOMAIN s.unacked
  <2>1. s.unacked[sn] \in UnackedEntries
    BY <1>1 DEF SenderTypeOK
  <2>2. ForgetEntry(s.unacked[sn]) \in UnackedEntries
    BY <2>1, Limits DEF ForgetEntry, Settled, UnackedEntries, UnackedStates, Tasks
  <2> QED BY <1>1, <2>2, ReplaceUnacked, CleanAfterType DEF ForgetCanceledPacket
<1> QED BY <1>1 DEF ForgetCanceledPacket

LEMMA CountStatType ==
  ASSUME NEW s, SenderTypeOK(s), NEW stat
  PROVE  SenderTypeOK(CountStat(s, stat))
BY DEF SenderTypeOK, CountStat

LEMMA AnswerType ==
  ASSUME NEW s, SenderTypeOK(s), NEW sn \in DOMAIN s.unacked, NEW st \in UnackedStates
  PROVE  SenderTypeOK(Answer(s, sn, st))
<1>1. s.unacked[sn] \in UnackedEntries
  BY DEF SenderTypeOK
<1>2. Settled(s.unacked[sn], st) \in UnackedEntries
  BY <1>1, Limits DEF Settled, UnackedEntries, Tasks
<1>3. Woken(s.unacked[sn]) \subseteq Pkts
  BY <1>1 DEF Woken, UnackedEntries, Tasks
<1>4. SenderTypeOK([s EXCEPT !.unacked[sn] = Settled(@, st),
                             !.woken = @ \cup Woken(s.unacked[sn])])
  BY <1>2, <1>3 DEF SenderTypeOK
<1> QED BY <1>4, CleanAfterType DEF Answer

LEMMA ProcessAckType ==
  ASSUME NEW s, SenderTypeOK(s), NEW sn
  PROVE  SenderTypeOK(ProcessAck(s, sn))
BY AnswerType, CountStatType DEF ProcessAck, UnackedStates

LEMMA ProcessCanceledType ==
  ASSUME NEW s, SenderTypeOK(s), NEW sn
  PROVE  SenderTypeOK(ProcessCanceled(s, sn))
BY AnswerType, CountStatType DEF ProcessCanceled, UnackedStates

LEMMA AgeRetriesType ==
  ASSUME NEW s, SenderTypeOK(s)
  PROVE  SenderTypeOK(AgeRetries(s))
<1>1. \A e \in UnackedEntries : AgeEntry(e) \in UnackedEntries
  <2> SUFFICES ASSUME NEW e \in UnackedEntries PROVE AgeEntry(e) \in UnackedEntries
    OBVIOUS
  <2>1. e.count \in 0 .. U8Max
    BY DEF UnackedEntries
  <2>2. Lower(e.count + 1, U8Max) \in 0 .. U8Max
    BY <2>1, U8MaxAssumption DEF Lower
  <2> QED BY <2>2, Limits DEF AgeEntry, CancelEntry, UnackedEntries, UnackedStates
<1> QED BY <1>1 DEF AgeRetries, SenderTypeOK

\* How many packets leave the blocked queue: a number, and no more than it holds.
LEMMA UnblockCountType ==
  ASSUME NEW s, SenderTypeOK(s)
  PROVE  /\ UnblockCount(s) \in Nat
         /\ IsFiniteSet(LiveBlocked(s))
         /\ UnblockCount(s) <= Cardinality(LiveBlocked(s))
<1>1. IsFiniteSet(LiveBlocked(s)) /\ Cardinality(LiveBlocked(s)) \in Nat
  <2>1. IsFiniteSet(LiveBlocked(s))
    BY FS_Subset DEF SenderTypeOK, LiveBlocked
  <2> QED BY <2>1, FS_CardinalityType
<1>2. Len_(s.unacked) \in Nat
  BY FS_CardinalityType DEF SenderTypeOK, Len_
<1>3. s.window_size \in Nat
  BY DEF SenderTypeOK
<1> QED BY <1>1, <1>2, <1>3 DEF UnblockCount, UnblockNeeded, IsBlocked, Lower

LEMMA EnqueueBlockedPacketsType ==
  ASSUME NEW s, SenderTypeOK(s)
  PROVE  SenderTypeOK(EnqueueBlockedPackets(s))
<1> DEFINE n == UnblockCount(s)
           live == LiveBlocked(s)
           nth(k) == CHOOSE i \in live : Rank(live, i) = k
           moved == {i \in live : Rank(live, i) <= n}
           kept == {i \in DOMAIN s.blocked : \E j \in live \ moved : j <= i}
           new == s.last_sent + 1 .. s.last_sent + n
           unacked == [m \in DOMAIN s.unacked \cup new |->
                IF m \in DOMAIN s.unacked THEN s.unacked[m]
                ELSE LET b == s.blocked[nth(m - s.last_sent)]
                     IN  UnackedEntry(b.pkt, b.limit)]
           sent == [i \in DOMAIN s.sent \cup (DOMAIN s.blocked \ kept) |->
                CASE i \in DOMAIN s.sent -> s.sent[i]
                  [] i \in moved -> s.last_sent + Rank(live, i)
                  [] OTHER -> None]
           woken == s.woken \cup UNION {Woken(s.blocked[i]) : i \in moved}
<1>1. n \in Nat /\ live \subseteq DOMAIN s.blocked /\ live \in SUBSET Nat
      /\ IsFiniteSet(live) /\ n <= Cardinality(live) /\ Cardinality(live) \in Nat
  BY UnblockCountType, FS_CardinalityType DEF LiveBlocked, SenderTypeOK
<1>2. \A k \in 1 .. n : nth(k) \in live
  <2> SUFFICES ASSUME NEW k \in 1 .. n PROVE nth(k) \in live
    OBVIOUS
  <2>1. k \in 1 .. Cardinality(live)
    BY <1>1
  <2>2. \E i \in live : Rank(live, i) = k
    BY <2>1, <1>1, RankExists
  <2> QED BY <2>2
<1>3. unacked \in [DOMAIN unacked -> UnackedEntries]
  <2> SUFFICES ASSUME NEW m \in DOMAIN s.unacked \cup new, m \notin DOMAIN s.unacked
               PROVE  UnackedEntry(s.blocked[nth(m - s.last_sent)].pkt,
                                   s.blocked[nth(m - s.last_sent)].limit) \in UnackedEntries
    BY DEF SenderTypeOK
  <2>1. s.last_sent \in Int
    BY DEF SenderTypeOK
  <2>2. m - s.last_sent \in 1 .. n
    BY <1>1, <2>1
  <2>3. s.blocked[nth(m - s.last_sent)] \in BlockedEntries
    BY <2>2, <1>1, <1>2 DEF SenderTypeOK
  <2> QED BY <2>3, U8MaxAssumption
          DEF UnackedEntry, UnackedEntries, UnackedStates, BlockedEntries, Tasks
<1>4. DOMAIN unacked \subseteq Nat /\ IsFiniteSet(DOMAIN unacked)
  <2>1. s.last_sent \in Nat \cup {-1}
    BY DEF SenderTypeOK
  <2>2. new \subseteq Nat
    BY <1>1, <2>1
  <2>3. IsFiniteSet(new)
    <3>1. s.last_sent + 1 \in Int /\ s.last_sent + n \in Int
      BY <1>1, <2>1
    <3> QED BY <3>1, FS_Interval
  <2> QED BY <2>2, <2>3, FS_Union DEF SenderTypeOK
<1>5. kept \subseteq DOMAIN s.blocked /\ IsFiniteSet(kept)
  BY FS_Subset DEF SenderTypeOK
<1>6. sent \in [DOMAIN sent -> Nat \cup {None}] /\ DOMAIN sent \subseteq Nat
  <2>1. \A i : IsFiniteSet({j \in live : j <= i})
    BY <1>1, FS_Subset
  <2>2. \A i \in live : Rank(live, i) \in Nat /\ Rank(live, i) # 0
    <3> SUFFICES ASSUME NEW i \in live PROVE Rank(live, i) \in Nat /\ Rank(live, i) # 0
      OBVIOUS
    <3>1. i \in {j \in live : j <= i}
      BY <1>1
    <3> QED BY <3>1, <2>1, FS_CardinalityType, FS_EmptySet DEF Rank
  <2>3. \A i \in moved : s.last_sent + Rank(live, i) \in Nat
    BY <2>2 DEF SenderTypeOK
  <2> HIDE DEF moved, kept
  <2> QED BY <2>3, <1>5 DEF SenderTypeOK
<1>7. woken \subseteq Pkts
  <2>1. \A i \in moved : Woken(s.blocked[i]) \subseteq Pkts
    BY <1>1 DEF SenderTypeOK, Woken, BlockedEntries, Tasks
  <2> QED BY <2>1 DEF SenderTypeOK
<1>8. s.last_sent + n \in Nat \cup {-1}
  BY <1>1 DEF SenderTypeOK
<1>9. CASE n # 0
  <2>1. EnqueueBlockedPackets(s) =
          [s EXCEPT !.last_sent = s.last_sent + n, !.unacked = unacked,
                    !.blocked = Keep(s.blocked, kept), !.sent = sent, !.woken = woken]
    BY <1>9 DEF EnqueueBlockedPackets, SenderTypeOK
  <2> HIDE DEF n, kept, unacked, sent, woken
  <2>2. SenderTypeOK([s EXCEPT !.last_sent = s.last_sent + n, !.unacked = unacked,
                    !.blocked = Keep(s.blocked, kept), !.sent = sent, !.woken = woken])
    BY <1>3, <1>4, <1>5, <1>6, <1>7, <1>8 DEF SenderTypeOK, Keep
  <2> QED BY <2>1, <2>2
<1> QED BY <1>9 DEF EnqueueBlockedPackets

-------------------------------------------------------------------------------
(* The receiver.                                                           *)

LEMMA ReceiverType ==
  ASSUME NEW r, ReceiverTypeOK(r), NEW sn \in Nat, NEW c \in BOOLEAN
  PROVE  ReceiverTypeOK(ProcessPacketOrCancel(r, sn, c))
<1>1. \A b, k : ShiftLeft(b, k) \subseteq Positions
  BY DEF ShiftLeft
<1>2. 0 \in Positions
  BY WindowAssumption DEF Positions
<1>3. CASE Classify(r, sn) = "New"
  BY <1>1, <1>2, <1>3 DEF ReceiverTypeOK, ProcessPacketOrCancel
<1>4. CASE Classify(r, sn) = "OutOfOrder"
  <2>1. r.window_size = RecvWindowSize /\ r.highest_seen \in Int
    BY DEF ReceiverTypeOK
  <2>2. -(sn - r.highest_seen) \in Positions
    BY <1>4, <2>1, WindowAssumption DEF Classify, Positions
  <2> QED BY <1>4, <2>2 DEF ReceiverTypeOK, ProcessPacketOrCancel
<1>5. CASE Classify(r, sn) \notin {"New", "OutOfOrder"}
  BY <1>5 DEF ReceiverTypeOK, ProcessPacketOrCancel
<1> QED BY <1>3, <1>4, <1>5

LEMMA NewReceiverType == ReceiverTypeOK(NewReceiver)
BY DEF ReceiverTypeOK, NewReceiver

LEMMA DispositionType ==
  ASSUME NEW r, NEW sn, NEW c
  PROVE  Disposition(r, sn, c) \in {"Ignore", "Ack", "Canceled"}
BY DEF Disposition

-------------------------------------------------------------------------------
(* Type correctness.                                                       *)

LEMMA DataMsgType ==
  ASSUME NEW s, SenderTypeOK(s), NEW S, S \subseteq DOMAIN s.unacked
  PROVE  Egress(s, S) \subseteq Messages
<1> SUFFICES ASSUME NEW n \in S PROVE DataMsg(n, s.unacked[n].pkt) \in Messages
  BY DEF Egress
<1>1. n \in Nat /\ s.unacked[n] \in UnackedEntries
  BY DEF SenderTypeOK
<1> QED BY <1>1 DEF DataMsg, Messages, UnackedEntries

LEMMA CtlMsgFields == \A t, n : CtlMsg(t, n).type = t /\ CtlMsg(t, n).sn = n
BY DEF CtlMsg

LEMMA CtlMsgType ==
  ASSUME NEW t \in CtlTypes, NEW n \in Nat
  PROVE  CtlMsg(t, n) \in Messages
BY DEF CtlMsg, Messages

LEMMA NotifyRetryType ==
  ASSUME NEW old, NEW s, timer \in [armed : BOOLEAN, notified : BOOLEAN]
  PROVE  NotifyRetry(old, s) \in [armed : BOOLEAN, notified : BOOLEAN]
BY DEF NotifyRetry

LEMMA InitType == Init => TypeOK
BY NewSenderType, NewReceiverType DEF Init, TypeOK

LEMMA StepType == TypeOK /\ [Next]_vars => TypeOK'
<1> SUFFICES ASSUME TypeOK, [Next]_vars PROVE TypeOK'
  OBVIOUS
<1> USE DEF TypeOK
<1>1. ASSUME NEW p \in Pkts, SendMgmt(p) PROVE TypeOK'
  <2>1. SenderTypeOK(send')
    BY <1>1, EnqueuePacketType DEF SendMgmt
  <2>2. net' \subseteq Messages
    BY <1>1, <2>1, DataMsgType DEF SendMgmt
  <2>3. timer' \in [armed : BOOLEAN, notified : BOOLEAN]
    BY <1>1, NotifyRetryType DEF SendMgmt
  <2>4. submitted' \in Seq(Pkts)
    BY <1>1 DEF SendMgmt
  <2> QED BY <1>1, <2>1, <2>2, <2>3, <2>4 DEF SendMgmt
<1>2. ASSUME NEW id, TryCancel(id) PROVE TypeOK'
  BY <1>2, CancelQueuedPacketType DEF TryCancel
<1>3. ASSUME NEW sn, RequestCancel(sn) PROVE TypeOK'
  <2>1. SenderTypeOK(send')
    BY <1>3, CancelSentPacketType DEF RequestCancel
  <2>2. sn \in Nat
    BY <1>3 DEF RequestCancel, CanCancelSent, SenderTypeOK
  <2>3. CtlMsg("Cancel", sn) \in Messages
    BY <2>2, CtlMsgType DEF CtlTypes
  <2> QED BY <1>3, <2>1, <2>3 DEF RequestCancel
<1>4. ASSUME NEW id, NEW limit \in RetryLimits, LimitRetriesQueued(id, limit) PROVE TypeOK'
  BY <1>4, LimitRetriesByIdType, ZdprAssumption DEF LimitRetriesQueued
<1>5. ASSUME NEW sn, NEW limit \in RetryLimits, LimitRetriesSent(sn, limit) PROVE TypeOK'
  BY <1>5, LimitRetriesBySeqNumType, ZdprAssumption DEF LimitRetriesSent
<1>6. ASSUME NEW sn, Forget(sn) PROVE TypeOK'
  BY <1>6, ForgetCanceledPacketType DEF Forget
<1>7. CASE ApplyWindowSize
  <2>1. RecvWindowSize \in Nat \ {0}
    BY WindowAssumption
  <2> QED BY <1>7, <2>1, AdjustWindowSizeType DEF ApplyWindowSize
<1>8. ASSUME NEW m \in net, RecvData(m) PROVE TypeOK'
  <2>1. m.sn \in Nat /\ m.pkt \in Pkts
    BY <1>8 DEF RecvData, Messages, CtlTypes
  <2>2. ReceiverTypeOK(recv')
    BY <1>8, <2>1, ReceiverType DEF RecvData
  <2>3. net' \subseteq Messages
    <3>1. \/ net' = net
          \/ net' = net \cup {CtlMsg("Ack", m.sn)}
          \/ net' = net \cup {CtlMsg("Canceled", m.sn)}
      BY <1>8, DispositionType DEF RecvData
    <3>2. CtlMsg("Ack", m.sn) \in Messages /\ CtlMsg("Canceled", m.sn) \in Messages
      BY <2>1, CtlMsgType DEF CtlTypes
    <3> QED BY <3>1, <3>2
  <2>4. log' = log \/ log' = Append(log, [sn |-> m.sn, pkt |-> m.pkt])
    BY <1>8 DEF RecvData
  <2>5. log' \in Seq([sn : Nat, pkt : Pkts]) /\ handled \in 0 .. Len(log')
    <3>1. [sn |-> m.sn, pkt |-> m.pkt] \in [sn : Nat, pkt : Pkts]
      BY <2>1
    <3>2. CASE log' = Append(log, [sn |-> m.sn, pkt |-> m.pkt])
      <4>1. log' \in Seq([sn : Nat, pkt : Pkts]) /\ Len(log') = Len(log) + 1
        BY <3>1, <3>2
      <4> QED BY <4>1
    <3> QED BY <2>4, <3>2
  <2> QED BY <1>8, <2>2, <2>3, <2>5 DEF RecvData
<1>9. ASSUME NEW m \in net, RecvCancel(m) PROVE TypeOK'
  <2>1. m.sn \in Nat
    BY <1>9 DEF Messages
  <2>2. ReceiverTypeOK(recv')
    BY <1>9, <2>1, ReceiverType DEF RecvCancel
  <2>3. net' \subseteq Messages
    <3>1. \/ net' = net
          \/ net' = net \cup {CtlMsg("Ack", m.sn)}
          \/ net' = net \cup {CtlMsg("Canceled", m.sn)}
      BY <1>9, DispositionType DEF RecvCancel
    <3>2. CtlMsg("Ack", m.sn) \in Messages /\ CtlMsg("Canceled", m.sn) \in Messages
      BY <2>1, CtlMsgType DEF CtlTypes
    <3> QED BY <3>1, <3>2
  <2> QED BY <1>9, <2>1, <2>2, <2>3 DEF RecvCancel
<1>10. ASSUME NEW m \in net, RecvAnswer(m) PROVE TypeOK'
  <2>1. SenderTypeOK(ProcessAnswer(m))
    BY ProcessAckType, ProcessCanceledType DEF ProcessAnswer
  <2>2. SenderTypeOK(send')
    BY <1>10, <2>1, EnqueueBlockedPacketsType DEF RecvAnswer
  <2>3. net' \subseteq Messages
    BY <1>10, <2>2, DataMsgType DEF RecvAnswer
  <2>4. timer' \in [armed : BOOLEAN, notified : BOOLEAN]
    BY <1>10, NotifyRetryType DEF RecvAnswer
  <2> QED BY <1>10, <2>2, <2>3, <2>4 DEF RecvAnswer
<1>11. CASE RetryTick
  <2>1. SenderTypeOK(send')
    BY <1>11, AgeRetriesType DEF RetryTick
  <2>2. RetryPackets(send') \subseteq DOMAIN send'.unacked
    BY DEF RetryPackets
  <2>3. \A n \in RetryCancels(send') : CtlMsg("Cancel", n) \in Messages
    BY <2>1, CtlMsgType DEF RetryCancels, SenderTypeOK, CtlTypes
  <2>4. net' \subseteq Messages
    BY <1>11, <2>1, <2>2, <2>3, DataMsgType DEF RetryTick
  <2> QED BY <1>11, <2>1, <2>4 DEF RetryTick, RetryNeeded
<1>12. CASE RetryTimerReset
  BY <1>12 DEF RetryTimerReset, RetryNeeded
<1>13. ASSUME NEW m \in net, Lose(m) PROVE TypeOK'
  BY <1>13 DEF Lose
<1>14. CASE HandleNext
  BY <1>14 DEF HandleNext
<1>15. CASE UNCHANGED vars
  BY <1>15 DEF vars
<1> QED
  BY <1>1, <1>2, <1>3, <1>4, <1>5, <1>6, <1>7, <1>8, <1>9, <1>10, <1>11, <1>12,
     <1>13, <1>14, <1>15 DEF Next, Caller

\* The session is well formed whatever the callers, the substrate and the timers do.
THEOREM TypeCorrect == Spec => []TypeOK
BY InitType, StepType, PTL DEF Spec

-------------------------------------------------------------------------------
(* The receiver decides every sequence number once, and tells the truth.   *)

\* Shifts stay within the word.  Receiver::new also admits a window of BITS,
\* for which the largest shift overflows: AnswersTruthful fails then.
ShiftInRange == RecvWindowSize < BITS

\* Shifting keeps the bits that stay within the word.
LEMMA ShiftExact ==
  ASSUME NEW b \in SUBSET Positions, NEW k \in 1 .. BITS - 1, NEW i \in Positions
  PROVE  i \in ShiftLeft(b, k) <=> i - k \in b
<1>1. k % BITS = k
  BY WindowAssumption
<1> QED BY <1>1 DEF ShiftLeft

\* How far ahead of highest_seen a packet can be and still be accepted.
LEMMA NewOffset ==
  ASSUME NEW r, ReceiverTypeOK(r), NEW sn \in Nat, Classify(r, sn) = "New", ShiftInRange
  PROVE  sn - r.highest_seen \in 1 .. BITS - 1
<1> DEFINE ones == {i \in Positions : i .. (BITS - 1) \subseteq r.recvd}
<1>1. IsFiniteSet(Positions) /\ Cardinality(Positions) = BITS
  BY WindowAssumption, FS_Interval DEF Positions
<1>2. Cardinality(ones) \in Nat /\ Cardinality(ones) <= BITS
  <2>1. ones \in SUBSET Positions
    OBVIOUS
  <2> HIDE DEF ones
  <2> QED BY <1>1, <2>1, FS_Subset, FS_CardinalityType
<1>3. OldestUnrecvdOffset(r) = Cardinality(ones) + 1 - BITS
  BY DEF OldestUnrecvdOffset, LeadingOnes
<1> HIDE DEF ones
<1>4. r.highest_seen \in Int /\ r.window_size = RecvWindowSize
  BY DEF ReceiverTypeOK
<1>5. /\ ~(sn - r.highest_seen >= OldestUnrecvdOffset(r) + r.window_size)
      /\ sn - r.highest_seen > 0
  BY DEF Classify
<1> QED BY <1>2, <1>3, <1>4, <1>5, WindowAssumption DEF ShiftInRange

\* A sequence number that fills a hole has its bit in the word.
LEMMA InWordOffset ==
  ASSUME NEW r, ReceiverTypeOK(r), NEW sn \in Nat,
         Classify(r, sn) \in {"OutOfOrder", "Duplicate"}
  PROVE  /\ r.highest_seen - sn \in Positions
         /\ -(sn - r.highest_seen) = r.highest_seen - sn
         /\ Classify(r, sn) = "OutOfOrder" <=> r.highest_seen - sn \notin r.recvd
<1>1. r.highest_seen \in Int /\ r.window_size = RecvWindowSize
  BY DEF ReceiverTypeOK
<1>2. -(sn - r.highest_seen) = r.highest_seen - sn
  BY <1>1
<1>3. ~(sn - r.highest_seen <= -r.window_size) /\ ~(sn - r.highest_seen > 0)
  BY DEF Classify
<1>4. r.highest_seen - sn \in Positions
  BY <1>1, <1>3, WindowAssumption DEF Positions
<1>5. Classify(r, sn) = "OutOfOrder" <=> r.highest_seen - sn \notin r.recvd
  BY <1>2 DEF Classify
<1> QED BY <1>2, <1>4, <1>5

\* What the bitsets of receiver `r` say of the sets of accepted and refused numbers.
Remembers(r, acc, ref) ==
  /\ \A n \in acc \cup ref : n <= r.highest_seen
  /\ \A i \in Positions : r.highest_seen - i >= 0 =>
        /\ i \in r.recvd <=> r.highest_seen - i \in acc \cup ref
        /\ i \in r.canceled <=> r.highest_seen - i \in ref

\* process_packet_or_cancel records what it decides, and only that.
LEMMA RecordsDecision ==
  ASSUME NEW r, ReceiverTypeOK(r), NEW acc \in SUBSET Nat, NEW ref \in SUBSET Nat,
         Remembers(r, acc, ref), NEW sn \in Nat, NEW c \in BOOLEAN,
         ShouldProcessPacket(r, sn), ShiftInRange
  PROVE  /\ sn \notin acc \cup ref
         /\ Remembers(ProcessPacketOrCancel(r, sn, c),
                      IF c THEN acc ELSE acc \cup {sn}, IF c THEN ref \cup {sn} ELSE ref)
<1> DEFINE q == ProcessPacketOrCancel(r, sn, c)
           acc1 == IF c THEN acc ELSE acc \cup {sn}
           ref1 == IF c THEN ref \cup {sn} ELSE ref
<1>1. r.highest_seen \in Nat \cup {-1} /\ r.recvd \in SUBSET Positions
      /\ r.canceled \in SUBSET Positions
  BY DEF ReceiverTypeOK
<1>2. CASE Classify(r, sn) = "New"
  <2> DEFINE k == sn - r.highest_seen
  <2>1. k \in 1 .. BITS - 1
    BY <1>2, NewOffset
  <2>2. q.highest_seen = sn /\ q.recvd = ShiftLeft(r.recvd, k) \cup {0}
        /\ q.canceled = ShiftLeft(r.canceled, k) \cup (IF c THEN {0} ELSE {})
    BY <1>2 DEF ProcessPacketOrCancel, ReceiverTypeOK
  <2>3. sn \notin acc \cup ref
    BY <1>1, <2>1 DEF Remembers
  <2>4. \A n \in acc1 \cup ref1 : n <= sn
    BY <1>1, <2>1 DEF Remembers
  <2>5. ASSUME NEW i \in Positions, sn - i >= 0
        PROVE  /\ i \in q.recvd <=> sn - i \in acc1 \cup ref1
               /\ i \in q.canceled <=> sn - i \in ref1
    <3>1. i \in Nat
      BY DEF Positions
    <3>2. i \in ShiftLeft(r.recvd, k) <=> i - k \in r.recvd
      BY <1>1, <2>1, ShiftExact
    <3>3. i \in ShiftLeft(r.canceled, k) <=> i - k \in r.canceled
      BY <1>1, <2>1, ShiftExact
    <3>4. CASE i = 0
      <4>1. i - k \notin Positions
        BY <3>4, <2>1 DEF Positions
      <4>2. sn - i = sn
        BY <3>4
      <4> QED BY <4>1, <4>2, <3>2, <3>3, <3>4, <2>2, <2>3, <1>1
    <3>5. CASE i # 0 /\ i < k
      <4>1. i - k \notin Positions
        BY <3>5, <3>1, <2>1 DEF Positions
      <4>2. sn - i > r.highest_seen /\ sn - i # sn
        BY <3>5, <3>1, <1>1
      <4>3. sn - i \notin acc \cup ref
        BY <4>2, <1>1, <3>1 DEF Remembers
      <4> QED BY <4>1, <4>2, <4>3, <3>2, <3>3, <3>5, <2>2, <1>1
    <3>6. CASE i >= k
      <4>1. i - k \in Positions
        <5> HIDE DEF k
        <5> QED BY <3>6, <2>1, WindowAssumption DEF Positions
      <4>2. r.highest_seen - (i - k) = sn - i /\ sn - i # sn /\ i # 0
        BY <3>6, <3>1, <2>1, <1>1
      <4>3. /\ i - k \in r.recvd <=> sn - i \in acc \cup ref
            /\ i - k \in r.canceled <=> sn - i \in ref
        BY <4>1, <4>2, <2>5 DEF Remembers
      <4> QED BY <4>2, <4>3, <3>2, <3>3, <2>2
    <3> QED BY <3>1, <3>4, <3>5, <3>6, <2>1
  <2> QED BY <2>2, <2>3, <2>4, <2>5 DEF Remembers
<1>3. CASE Classify(r, sn) = "OutOfOrder"
  <2> DEFINE i0 == r.highest_seen - sn
  <2>1. i0 \in Positions /\ -(sn - r.highest_seen) = i0 /\ i0 \notin r.recvd
    BY <1>3, InWordOffset
  <2>2. q.highest_seen = r.highest_seen /\ q.recvd = r.recvd \cup {i0}
        /\ q.canceled = r.canceled \cup (IF c THEN {i0} ELSE {})
    BY <1>3, <2>1 DEF ProcessPacketOrCancel, ReceiverTypeOK
  <2>3. r.highest_seen - i0 = sn
    BY <1>1
  <2>4. sn \notin acc \cup ref
    BY <2>1, <2>3 DEF Remembers
  <2>5. sn <= r.highest_seen
    BY <1>1, <2>1 DEF Positions
  <2>6. ASSUME NEW i \in Positions, r.highest_seen - i >= 0
        PROVE  /\ i \in q.recvd <=> r.highest_seen - i \in acc1 \cup ref1
               /\ i \in q.canceled <=> r.highest_seen - i \in ref1
    <3>1. i \in Int /\ (i = i0 <=> r.highest_seen - i = sn)
      BY <1>1 DEF Positions
    <3>2. /\ i \in r.recvd <=> r.highest_seen - i \in acc \cup ref
          /\ i \in r.canceled <=> r.highest_seen - i \in ref
      BY <2>6 DEF Remembers
    <3> HIDE DEF i0
    <3> QED BY <3>1, <3>2, <2>2
  <2>7. \A n \in acc1 \cup ref1 : n <= r.highest_seen
    BY <2>5 DEF Remembers
  <2> QED BY <2>2, <2>4, <2>6, <2>7 DEF Remembers
<1> QED BY <1>2, <1>3 DEF ShouldProcessPacket

LEMMA RecordsAccept ==
  ASSUME NEW r, ReceiverTypeOK(r), NEW acc \in SUBSET Nat, NEW ref \in SUBSET Nat,
         Remembers(r, acc, ref), NEW sn \in Nat, ShouldProcessPacket(r, sn), ShiftInRange
  PROVE  /\ sn \notin acc \cup ref
         /\ Remembers(ProcessPacketOrCancel(r, sn, FALSE), acc \cup {sn}, ref)
BY RecordsDecision

LEMMA RecordsRefuse ==
  ASSUME NEW r, ReceiverTypeOK(r), NEW acc \in SUBSET Nat, NEW ref \in SUBSET Nat,
         Remembers(r, acc, ref), NEW sn \in Nat, ShouldProcessPacket(r, sn), ShiftInRange
  PROVE  /\ sn \notin acc \cup ref
         /\ Remembers(ProcessPacketOrCancel(r, sn, TRUE), acc, ref \cup {sn})
BY RecordsDecision

\* How the answer follows from what is remembered.
LEMMA AnswersRemembered ==
  ASSUME NEW r, ReceiverTypeOK(r), NEW acc \in SUBSET Nat, NEW ref \in SUBSET Nat,
         Remembers(r, acc, ref), NEW sn \in Nat, NEW c \in BOOLEAN,
         ~ShouldProcessPacket(r, sn)
  PROVE  /\ Disposition(r, sn, c) = "Ack" => sn \in acc \cup ref /\ sn \notin ref
         /\ Disposition(r, sn, c) = "Canceled" => sn \in ref
         /\ Remembers(ProcessPacketOrCancel(r, sn, c), acc, ref)
<1>1. Remembers(ProcessPacketOrCancel(r, sn, c), acc, ref)
  <2>1. Classify(r, sn) # "New" /\ Classify(r, sn) # "OutOfOrder"
    BY DEF ShouldProcessPacket
  <2>2. /\ ProcessPacketOrCancel(r, sn, c).highest_seen = r.highest_seen
        /\ ProcessPacketOrCancel(r, sn, c).recvd = r.recvd
        /\ ProcessPacketOrCancel(r, sn, c).canceled = r.canceled
    BY <2>1 DEF ProcessPacketOrCancel, ReceiverTypeOK
  <2> QED BY <2>2 DEF Remembers
<1>2. CASE Classify(r, sn) = "Duplicate"
  <2>1. r.highest_seen - sn \in Positions /\ r.highest_seen - sn \in r.recvd
    BY <1>2, InWordOffset
  <2>2. r.highest_seen - (r.highest_seen - sn) = sn
    BY DEF ReceiverTypeOK
  <2>3. sn \in acc \cup ref /\ (r.highest_seen - sn \in r.canceled <=> sn \in ref)
    BY <2>1, <2>2 DEF Remembers
  <2> QED BY <1>1, <1>2, <2>3 DEF Disposition
<1>3. CASE Classify(r, sn) \in {"TooOld", "TooNew"}
  BY <1>1, <1>3 DEF Disposition
<1> QED BY <1>2, <1>3 DEF ShouldProcessPacket, Classify

LEMMA AcceptedType == TypeOK => Accepted \subseteq Nat
<1> SUFFICES ASSUME TypeOK, NEW i \in 1 .. Len(log) PROVE log[i].sn \in Nat
  BY DEF Accepted
<1>1. log \in Seq([sn : Nat, pkt : Pkts])
  BY DEF TypeOK
<1>2. log[i] \in [sn : Nat, pkt : Pkts]
  BY <1>1, ElementOfSeq
<1> QED BY <1>2

LEMMA AcceptedAppend ==
  ASSUME TypeOK, NEW e \in [sn : Nat, pkt : Pkts], log' = Append(log, e)
  PROVE  /\ Accepted' = Accepted \cup {e.sn}
         /\ AtMostOnce /\ e.sn \notin Accepted => AtMostOnce'
<1>1. /\ Len(log) \in Nat /\ Len(log') = Len(log) + 1
      /\ \A i \in 1 .. Len(log) : log'[i] = log[i]
      /\ log'[Len(log) + 1] = e
  BY DEF TypeOK
<1>2. 1 .. Len(log') = (1 .. Len(log)) \cup {Len(log) + 1}
  BY <1>1
<1>3. Accepted' = Accepted \cup {e.sn}
  <2>1. Accepted' = {log'[i].sn : i \in 1 .. Len(log')}
    BY DEF Accepted
  <2>2. {log'[i].sn : i \in 1 .. Len(log')}
          = {log'[i].sn : i \in 1 .. Len(log)} \cup {log'[Len(log) + 1].sn}
    BY <1>2
  <2>3. {log'[i].sn : i \in 1 .. Len(log)} = {log[i].sn : i \in 1 .. Len(log)}
    BY <1>1
  <2> QED BY <2>1, <2>2, <2>3, <1>1 DEF Accepted
<1>4. ASSUME AtMostOnce, e.sn \notin Accepted PROVE AtMostOnce'
  <2> SUFFICES ASSUME NEW i \in 1 .. Len(log'), NEW j \in 1 .. Len(log'),
                      log'[i].sn = log'[j].sn
               PROVE  i = j
    BY DEF AtMostOnce
  <2>1. \A k \in 1 .. Len(log) : log[k].sn # e.sn
    BY <1>4 DEF Accepted
  <2> QED BY <1>1, <1>2, <1>4, <2>1 DEF AtMostOnce
<1> QED BY <1>3, <1>4

\* The inductive invariant: the histories agree with the receiver's memory, so
\* that no number is decided twice, and the answers with the histories.
DecidesOnce == WindowRemembers /\ AtMostOnce /\ AnswersTruthful

LEMMA WindowRemembersDef == WindowRemembers <=> Remembers(recv, Accepted, refused)
BY DEF WindowRemembers, Remembers

LEMMA InitDecides == Init => DecidesOnce
<1> SUFFICES ASSUME Init PROVE DecidesOnce
  OBVIOUS
<1>1. Len(log) = 0 /\ Accepted = {} /\ refused = {} /\ net = {}
  BY DEF Init, Accepted
<1>2. recv.highest_seen = -1 /\ \A i \in Positions : ~(-1 - i >= 0)
  BY DEF Init, NewReceiver, Positions
<1> QED BY <1>1, <1>2 DEF DecidesOnce, WindowRemembers, AtMostOnce, AnswersTruthful

\* Steps of the sending end and of the substrate leave the decisions alone and
\* add no answers.
LEMMA OtherStepDecides ==
  ASSUME TypeOK, DecidesOnce, UNCHANGED <<recv, log, refused>>,
         \A m \in net' : m \in net \/ m.type \in {"Data", "Cancel"}
  PROVE  DecidesOnce'
<1>1. Accepted' = Accepted
  BY DEF Accepted
<1>2. AtMostOnce'
  BY DEF AtMostOnce, DecidesOnce
<1>3. WindowRemembers'
  BY <1>1 DEF WindowRemembers, DecidesOnce
<1>4. AnswersTruthful'
  BY <1>1 DEF AnswersTruthful, DecidesOnce
<1> QED BY <1>2, <1>3, <1>4 DEF DecidesOnce

LEMMA RecvDataDecides ==
  ASSUME TypeOK, DecidesOnce, ShiftInRange, NEW m \in net, RecvData(m)
  PROVE  DecidesOnce'
<1>1. PICK sn \in Nat, p \in Pkts : sn = m.sn /\ p = m.pkt
  BY DEF TypeOK, RecvData, Messages, CtlTypes
<1>2. ReceiverTypeOK(recv) /\ refused \in SUBSET Nat /\ Accepted \in SUBSET Nat
  BY AcceptedType DEF TypeOK
<1>3. Remembers(recv, Accepted, refused) /\ AtMostOnce /\ AnswersTruthful
  BY WindowRemembersDef DEF DecidesOnce
<1>4. recv' = ProcessPacketOrCancel(recv, sn, FALSE) /\ refused' = refused
  BY <1>1 DEF RecvData
<1>5. \A x \in net' : x \in net \/ x = CtlMsg(Disposition(recv, sn, FALSE), sn)
  BY <1>1 DEF RecvData
<1>6. CASE ShouldProcessPacket(recv, sn)
  <2> DEFINE e == [sn |-> sn, pkt |-> p]
  <2>1. log' = Append(log, e) /\ e \in [sn : Nat, pkt : Pkts] /\ e.sn = sn
    BY <1>1, <1>6 DEF RecvData
  <2>2. /\ sn \notin Accepted \cup refused
        /\ Remembers(recv', Accepted \cup {sn}, refused)
    BY <1>2, <1>3, <1>4, <1>6, RecordsAccept
  <2>3. Accepted' = Accepted \cup {sn} /\ AtMostOnce'
    BY <2>1, <2>2, <1>3, AcceptedAppend
  <2>4. WindowRemembers'
    BY <2>2, <2>3, <1>4 DEF WindowRemembers, Remembers
  <2>5. AnswersTruthful'
    <3>1. Disposition(recv, sn, FALSE) = "Ack"
      BY <1>6 DEF ShouldProcessPacket, Disposition
    <3>2. \A x \in net' : x \in net \/ (x.type = "Ack" /\ x.sn = sn)
      BY <1>5, <3>1, CtlMsgFields
    <3>3. Accepted' \cap refused' = {}
      BY <2>2, <2>3, <1>3, <1>4 DEF AnswersTruthful
    <3> QED BY <2>3, <3>2, <3>3, <1>3, <1>4 DEF AnswersTruthful
  <2> QED BY <2>3, <2>4, <2>5 DEF DecidesOnce
<1>7. CASE ~ShouldProcessPacket(recv, sn)
  <2>1. log' = log /\ Accepted' = Accepted
    BY <1>1, <1>7 DEF RecvData, Accepted
  <2>2. /\ Disposition(recv, sn, FALSE) = "Ack" => sn \in Accepted
        /\ Disposition(recv, sn, FALSE) = "Canceled" => sn \in refused
        /\ Remembers(recv', Accepted, refused)
    <3>1. /\ Disposition(recv, sn, FALSE) = "Ack" => sn \in Accepted \cup refused
                                                        /\ sn \notin refused
          /\ Disposition(recv, sn, FALSE) = "Canceled" => sn \in refused
          /\ Remembers(ProcessPacketOrCancel(recv, sn, FALSE), Accepted, refused)
      BY <1>2, <1>3, <1>7, AnswersRemembered
    <3> QED BY <3>1, <1>4
  <2>3. WindowRemembers'
    BY <2>1, <2>2, <1>4 DEF WindowRemembers, Remembers
  <2>4. AnswersTruthful'
    <3>1. \A x \in net' : x \in net \/ ( /\ x.sn = sn
                                        /\ x.type = Disposition(recv, sn, FALSE))
      BY <1>5, CtlMsgFields
    <3> QED BY <2>1, <2>2, <3>1, <1>3, <1>4 DEF AnswersTruthful
  <2>5. AtMostOnce'
    BY <2>1, <1>3 DEF AtMostOnce
  <2> QED BY <2>3, <2>4, <2>5 DEF DecidesOnce
<1> QED BY <1>6, <1>7

LEMMA RecvCancelDecides ==
  ASSUME TypeOK, DecidesOnce, ShiftInRange, NEW m \in net, RecvCancel(m)
  PROVE  DecidesOnce'
<1>1. PICK sn \in Nat : sn = m.sn
  BY DEF TypeOK, Messages
<1>2. ReceiverTypeOK(recv) /\ refused \in SUBSET Nat /\ Accepted \in SUBSET Nat
  BY AcceptedType DEF TypeOK
<1>3. Remembers(recv, Accepted, refused) /\ AtMostOnce /\ AnswersTruthful
  BY WindowRemembersDef DEF DecidesOnce
<1>4. recv' = ProcessPacketOrCancel(recv, sn, TRUE) /\ log' = log
  BY <1>1 DEF RecvCancel
<1>5. \A x \in net' : x \in net \/ x = CtlMsg(Disposition(recv, sn, TRUE), sn)
  BY <1>1 DEF RecvCancel
<1>6. Accepted' = Accepted /\ AtMostOnce'
  BY <1>3, <1>4 DEF Accepted, AtMostOnce
<1>7. CASE ShouldProcessPacket(recv, sn)
  <2>1. refused' = refused \cup {sn}
    BY <1>1, <1>7 DEF RecvCancel
  <2>2. /\ sn \notin Accepted \cup refused
        /\ Remembers(recv', Accepted, refused \cup {sn})
    BY <1>2, <1>3, <1>4, <1>7, RecordsRefuse
  <2>3. WindowRemembers'
    BY <2>1, <2>2, <1>6 DEF WindowRemembers, Remembers
  <2>4. AnswersTruthful'
    <3>1. Disposition(recv, sn, TRUE) = "Canceled"
      BY <1>7 DEF ShouldProcessPacket, Disposition
    <3>2. \A x \in net' : x \in net \/ (x.type = "Canceled" /\ x.sn = sn)
      BY <1>5, <3>1, CtlMsgFields
    <3>3. Accepted' \cap refused' = {}
      BY <2>1, <2>2, <1>3, <1>6 DEF AnswersTruthful
    <3> QED BY <2>1, <3>2, <3>3, <1>3, <1>6 DEF AnswersTruthful
  <2> QED BY <2>3, <2>4, <1>6 DEF DecidesOnce
<1>8. CASE ~ShouldProcessPacket(recv, sn)
  <2>1. refused' = refused
    BY <1>1, <1>8 DEF RecvCancel
  <2>2. /\ Disposition(recv, sn, TRUE) = "Ack" => sn \in Accepted
        /\ Disposition(recv, sn, TRUE) = "Canceled" => sn \in refused
        /\ Remembers(recv', Accepted, refused)
    <3>1. /\ Disposition(recv, sn, TRUE) = "Ack" => sn \in Accepted \cup refused
                                                        /\ sn \notin refused
          /\ Disposition(recv, sn, TRUE) = "Canceled" => sn \in refused
          /\ Remembers(ProcessPacketOrCancel(recv, sn, TRUE), Accepted, refused)
      BY <1>2, <1>3, <1>8, AnswersRemembered
    <3> QED BY <3>1, <1>4
  <2>3. WindowRemembers'
    BY <2>1, <2>2, <1>6 DEF WindowRemembers, Remembers
  <2>4. AnswersTruthful'
    <3>1. \A x \in net' : x \in net \/ ( /\ x.sn = sn
                                        /\ x.type = Disposition(recv, sn, TRUE))
      BY <1>5, CtlMsgFields
    <3> QED BY <2>1, <2>2, <3>1, <1>3, <1>6 DEF AnswersTruthful
  <2> QED BY <2>3, <2>4, <1>6 DEF DecidesOnce
<1> QED BY <1>7, <1>8

LEMMA StepDecides == ShiftInRange /\ TypeOK /\ DecidesOnce /\ [Next]_vars => DecidesOnce'
<1> SUFFICES ASSUME ShiftInRange, TypeOK, DecidesOnce, [Next]_vars PROVE DecidesOnce'
  OBVIOUS
<1>1. \A s, S : \A x \in Egress(s, S) : x.type = "Data"
  BY DEF Egress, DataMsg
<1>2. \A n : CtlMsg("Cancel", n).type = "Cancel"
  BY DEF CtlMsg
<1>3. ASSUME NEW p \in Pkts, SendMgmt(p) PROVE DecidesOnce'
  BY <1>1, <1>3, OtherStepDecides DEF SendMgmt
<1>4. ASSUME NEW id, TryCancel(id) PROVE DecidesOnce'
  BY <1>4, OtherStepDecides DEF TryCancel
<1>5. ASSUME NEW sn, RequestCancel(sn) PROVE DecidesOnce'
  BY <1>2, <1>5, OtherStepDecides DEF RequestCancel
<1>6. ASSUME NEW id, NEW limit, LimitRetriesQueued(id, limit) PROVE DecidesOnce'
  BY <1>6, OtherStepDecides DEF LimitRetriesQueued
<1>7. ASSUME NEW sn, NEW limit, LimitRetriesSent(sn, limit) PROVE DecidesOnce'
  BY <1>7, OtherStepDecides DEF LimitRetriesSent
<1>8. ASSUME NEW sn, Forget(sn) PROVE DecidesOnce'
  BY <1>8, OtherStepDecides DEF Forget
<1>9. CASE ApplyWindowSize
  BY <1>9, OtherStepDecides DEF ApplyWindowSize
<1>10. ASSUME NEW m \in net, RecvAnswer(m) PROVE DecidesOnce'
  BY <1>1, <1>10, OtherStepDecides DEF RecvAnswer
<1>11. CASE RetryTick
  BY <1>1, <1>2, <1>11, OtherStepDecides DEF RetryTick
<1>12. CASE RetryTimerReset
  BY <1>12, OtherStepDecides DEF RetryTimerReset
<1>13. ASSUME NEW m \in net, Lose(m) PROVE DecidesOnce'
  BY <1>13, OtherStepDecides DEF Lose
<1>14. CASE HandleNext
  BY <1>14, OtherStepDecides DEF HandleNext
<1>15. CASE UNCHANGED vars
  BY <1>15, OtherStepDecides DEF vars
<1> QED
  BY <1>3, <1>4, <1>5, <1>6, <1>7, <1>8, <1>9, <1>10, <1>11, <1>12, <1>13, <1>14,
     <1>15, RecvDataDecides, RecvCancelDecides DEF Next, Caller

LEMMA AlwaysDecidesOnce == ShiftInRange => (Spec => []DecidesOnce)
<1> SUFFICES ASSUME ShiftInRange PROVE Spec => []DecidesOnce
  OBVIOUS
<1>1. TypeOK /\ DecidesOnce /\ [Next]_vars => DecidesOnce'
  BY StepDecides
<1> QED BY <1>1, InitDecides, TypeCorrect, PTL DEF Spec

\* Duplicates, reordering, retries, cancels and back-pressure notwithstanding,
\* dispatch hands no packet to the management processor twice.
THEOREM ProcessedAtMostOnce == ShiftInRange => (Spec => []AtMostOnce)
<1>1. DecidesOnce => AtMostOnce
  BY DEF DecidesOnce
<1> QED BY <1>1, AlwaysDecidesOnce, PTL

\* No acknowledgement is sent for a packet that was not accepted, none for the
\* cancellation of a packet that is or will be.
THEOREM ReceiverTellsTheTruth == ShiftInRange => (Spec => []AnswersTruthful)
<1>1. DecidesOnce => AnswersTruthful
  BY DEF DecidesOnce
<1> QED BY <1>1, AlwaysDecidesOnce, PTL

\* The shifted bitsets never forget or invent a decision within their reach.
THEOREM MemoryIsExact == ShiftInRange => (Spec => []WindowRemembers)
<1>1. DecidesOnce => WindowRemembers
  BY DEF DecidesOnce
<1> QED BY <1>1, AlwaysDecidesOnce, PTL

-------------------------------------------------------------------------------
(* Queues are intervals of indices.                                        *)

\* T is what is left of queue S after some of its front was popped.
Suffix(T, S) == /\ T \subseteq S
                /\ \A n \in T, m \in S : n <= m => m \in T

LEMMA SuffixInterval ==
  ASSUME NEW lo \in Nat, NEW hi \in Nat \cup {-1}, lo <= hi + 1,
         NEW T, Suffix(T, lo .. hi)
  PROVE  \E a \in Nat : lo <= a /\ a <= hi + 1 /\ T = a .. hi
<1>1. CASE T = {}
  <2>1. hi + 1 \in Nat /\ (hi + 1) .. hi = {}
    OBVIOUS
  <2> QED BY <1>1, <2>1
<1>2. CASE T # {}
  <2>1. T \subseteq Nat /\ T \subseteq lo .. hi
    BY DEF Suffix
  <2>2. PICK a \in T : \A y \in T : a <= y
    BY <1>2, <2>1, LeastElement
  <2>3. a \in Nat /\ lo <= a /\ a <= hi
    BY <2>1, <2>2
  <2>4. ASSUME NEW x \in T PROVE x \in a .. hi
    BY <2>1, <2>2, <2>3
  <2>5. ASSUME NEW x \in a .. hi PROVE x \in T
    <3>1. x \in lo .. hi /\ a <= x
      BY <2>3
    <3> QED BY <3>1, <2>2 DEF Suffix
  <2>6. T = a .. hi
    BY <2>4, <2>5
  <2> QED BY <2>3, <2>6
<1> QED BY <1>1, <1>2

LEMMA IntervalSize ==
  ASSUME NEW lo \in Nat, NEW hi \in Nat \cup {-1}, lo <= hi + 1
  PROVE  IsFiniteSet(lo .. hi) /\ Cardinality(lo .. hi) = hi + 1 - lo
<1>1. lo \in Int /\ hi \in Int
  OBVIOUS
<1>2. IsFiniteSet(lo .. hi) /\ Cardinality(lo .. hi) = IF lo > hi THEN 0 ELSE hi - lo + 1
  BY <1>1, FS_Interval
<1> QED BY <1>1, <1>2

\* The part of SenderShape about each queue, without cardinalities.
UnackedInterval(s) ==
    \E lo \in Nat : /\ lo <= s.last_sent + 1
                    /\ DOMAIN s.unacked = lo .. s.last_sent
                    /\ s.last_sent + 1 - lo <= s.window_size

FrontOpen(s) ==
    \A n \in DOMAIN s.unacked : IsFront(s.unacked, n) => s.unacked[n].st # "Acked"

QueueIntervals(s) ==
    \E a, b \in Nat : /\ a <= b /\ b <= s.last_enqueued + 1
                      /\ DOMAIN s.blocked = b .. s.last_enqueued
                      /\ DOMAIN s.sent = a .. (b - 1)

FrontBlocked(s) ==
    \A i \in DOMAIN s.blocked : IsFront(s.blocked, i) => s.blocked[i].st = "Blocked"

-------------------------------------------------------------------------------
(* What each operator of the Sender does to its queues.                    *)

\* `t` is `s` after the answers in A were recorded, those in C as cancellations:
\* nothing else leaves the window, nothing else stops being retried.
Edits(s, t, A, C) ==
    /\ t.last_sent = s.last_sent
    /\ t.window_size = s.window_size
    /\ "TooNewAck" \in t.stats => "TooNewAck" \in s.stats
    /\ Suffix(DOMAIN t.unacked, DOMAIN s.unacked)
    /\ \A n \in DOMAIN t.unacked :
          /\ t.unacked[n].pkt = s.unacked[n].pkt
          /\ Pending(t.unacked[n]) <=> Pending(s.unacked[n]) /\ n \notin A
          /\ t.unacked[n].st = "CancelAcked" => s.unacked[n].st = "CancelAcked" \/ n \in C
    /\ \A n \in DOMAIN s.unacked \ DOMAIN t.unacked : Pending(s.unacked[n]) => n \in A
    /\ FrontOpen(s) => FrontOpen(t)

\* `t` is `s` after the front of the blocked queue, and then of `sent`, moved on.
Requeues(s, t) ==
    /\ t.last_enqueued = s.last_enqueued
    /\ Suffix(DOMAIN t.blocked, DOMAIN s.blocked)
    /\ \A i \in DOMAIN t.blocked : t.blocked[i].pkt = s.blocked[i].pkt
    /\ Suffix(DOMAIN t.sent, DOMAIN s.sent \cup (DOMAIN s.blocked \ DOMAIN t.blocked))
    /\ FrontBlocked(s) => FrontBlocked(t)

LEMMA SuffixItself == \A S : Suffix(S, S)
BY DEF Suffix

\* An operator that leaves a group of queues alone.
LEMMA SameUnacked ==
  ASSUME NEW s, NEW t, t.last_sent = s.last_sent, t.window_size = s.window_size,
         t.stats = s.stats, t.unacked = s.unacked
  PROVE  Edits(s, t, {}, {})
<1>1. FrontOpen(s) => FrontOpen(t)
  BY DEF FrontOpen
<1> QED BY <1>1, SuffixItself DEF Edits

LEMMA SameQueues ==
  ASSUME NEW s, NEW t, t.last_enqueued = s.last_enqueued, t.blocked = s.blocked,
         Suffix(DOMAIN t.sent, DOMAIN s.sent)
  PROVE  Requeues(s, t)
<1>1. FrontBlocked(s) => FrontBlocked(t)
  BY DEF FrontBlocked
<1>2. DOMAIN s.sent \cup (DOMAIN s.blocked \ DOMAIN t.blocked) = DOMAIN s.sent
  OBVIOUS
<1> QED BY <1>1, <1>2, SuffixItself DEF Requeues

\* An operator that rewrites entries of the window without settling any.
LEMMA RewrittenUnacked ==
  ASSUME NEW s, NEW t, t.last_sent = s.last_sent, t.window_size = s.window_size,
         t.stats = s.stats, DOMAIN t.unacked = DOMAIN s.unacked,
         \A n \in DOMAIN s.unacked :
            /\ t.unacked[n].pkt = s.unacked[n].pkt
            /\ Pending(t.unacked[n]) <=> Pending(s.unacked[n])
            /\ ~Pending(s.unacked[n]) => t.unacked[n].st = s.unacked[n].st
  PROVE  Edits(s, t, {}, {})
<1>1. FrontOpen(s) => FrontOpen(t)
  <2> SUFFICES ASSUME FrontOpen(s), NEW n \in DOMAIN t.unacked, IsFront(t.unacked, n)
               PROVE  t.unacked[n].st # "Acked"
    BY DEF FrontOpen
  <2>1. IsFront(s.unacked, n)
    BY DEF IsFront
  <2>2. s.unacked[n].st # "Acked"
    BY <2>1 DEF FrontOpen
  <2> QED BY <2>2 DEF Pending
<1>2. \A n \in DOMAIN t.unacked : t.unacked[n].st = "CancelAcked" => s.unacked[n].st = "CancelAcked"
  BY DEF Pending
<1> QED BY <1>1, <1>2, SuffixItself DEF Edits

\* clean_unacked_queue pops answered packets off the front, and stops at the
\* first one that is not.
LEMMA CleanUnackedQueueEffect ==
  ASSUME NEW s, SenderTypeOK(s), NEW t, t = CleanUnackedQueue(s)
  PROVE  /\ t.last_sent = s.last_sent /\ t.window_size = s.window_size /\ t.stats = s.stats
         /\ t.last_enqueued = s.last_enqueued /\ t.blocked = s.blocked /\ t.sent = s.sent
         /\ Suffix(DOMAIN t.unacked, DOMAIN s.unacked)
         /\ \A n \in DOMAIN t.unacked : t.unacked[n] = s.unacked[n]
         /\ \A n \in DOMAIN s.unacked \ DOMAIN t.unacked : s.unacked[n].st = "Acked"
         /\ FrontOpen(t)
<1> DEFINE kept == {n \in DOMAIN s.unacked :
                       \E m \in DOMAIN s.unacked : m <= n /\ s.unacked[m].st # "Acked"}
<1>1. t = [s EXCEPT !.unacked = Keep(@, kept)]
  BY DEF CleanUnackedQueue
<1>2. DOMAIN s.unacked \subseteq Nat
  BY DEF SenderTypeOK
<1>3. Suffix(kept, DOMAIN s.unacked)
  BY <1>2 DEF Suffix
<1>4. \A n \in DOMAIN s.unacked \ kept : s.unacked[n].st = "Acked"
  BY <1>2
<1>5. \A n \in kept : (\A x \in kept : n <= x) => s.unacked[n].st # "Acked"
  <2> SUFFICES ASSUME NEW n \in kept, \A x \in kept : n <= x
               PROVE  s.unacked[n].st # "Acked"
    OBVIOUS
  <2>1. PICK m \in DOMAIN s.unacked : m <= n /\ s.unacked[m].st # "Acked"
    OBVIOUS
  <2>2. m \in kept
    BY <1>2, <2>1
  <2>3. m = n
    BY <1>2, <2>1, <2>2
  <2> QED BY <2>1, <2>3
<1> HIDE DEF kept
<1>6. /\ t.last_sent = s.last_sent /\ t.window_size = s.window_size /\ t.stats = s.stats
      /\ t.last_enqueued = s.last_enqueued /\ t.blocked = s.blocked /\ t.sent = s.sent
      /\ t.unacked = [x \in kept |-> s.unacked[x]]
  BY <1>1 DEF Keep, SenderTypeOK
<1>7. FrontOpen(t)
  BY <1>5, <1>6 DEF FrontOpen, IsFront
<1> QED BY <1>3, <1>4, <1>6, <1>7

LEMMA CleanSentQueueEffect ==
  ASSUME NEW s, SenderTypeOK(s), NEW t, t = CleanSentQueue(s)
  PROVE  /\ t.last_sent = s.last_sent /\ t.window_size = s.window_size /\ t.stats = s.stats
         /\ t.last_enqueued = s.last_enqueued /\ t.blocked = s.blocked
         /\ t.unacked = s.unacked
         /\ Suffix(DOMAIN t.sent, DOMAIN s.sent)
<1> DEFINE live(i) == s.sent[i] # None /\ ~IsAcked(s, s.sent[i])
           kept == {i \in DOMAIN s.sent : \E j \in DOMAIN s.sent : j <= i /\ live(j)}
<1>1. t = [s EXCEPT !.sent = Keep(@, kept)]
  BY DEF CleanSentQueue
<1>2. DOMAIN s.sent \subseteq Nat
  BY DEF SenderTypeOK
<1>3. Suffix(kept, DOMAIN s.sent)
  <2> HIDE DEF live
  <2> QED BY <1>2 DEF Suffix
<1> HIDE DEF kept
<1> QED BY <1>1, <1>3 DEF Keep, SenderTypeOK

\* The cleaning that follows a change to the entry of `sn`.
LEMMA CleanAfterEffect ==
  ASSUME NEW s, SenderTypeOK(s), NEW sn \in DOMAIN s.unacked, NEW t, t = CleanAfter(s, sn),
         \A n \in DOMAIN s.unacked \ {sn} :
            IsFront(s.unacked, n) => s.unacked[n].st # "Acked"
  PROVE  /\ t.last_sent = s.last_sent /\ t.window_size = s.window_size /\ t.stats = s.stats
         /\ Suffix(DOMAIN t.unacked, DOMAIN s.unacked)
         /\ \A n \in DOMAIN t.unacked : t.unacked[n] = s.unacked[n]
         /\ \A n \in DOMAIN s.unacked \ DOMAIN t.unacked : s.unacked[n].st = "Acked"
         /\ FrontOpen(t)
         /\ Requeues(s, t)
<1>1. CASE IsFront(s.unacked, sn)
  <2> DEFINE u == CleanUnackedQueue(s)
  <2>1. SenderTypeOK(u) /\ t = CleanSentQueue(u)
    BY <1>1, CleanUnackedQueueType DEF CleanAfter
  <2>2. /\ u.last_sent = s.last_sent /\ u.window_size = s.window_size /\ u.stats = s.stats
        /\ u.last_enqueued = s.last_enqueued /\ u.blocked = s.blocked /\ u.sent = s.sent
        /\ Suffix(DOMAIN u.unacked, DOMAIN s.unacked)
        /\ \A n \in DOMAIN u.unacked : u.unacked[n] = s.unacked[n]
        /\ \A n \in DOMAIN s.unacked \ DOMAIN u.unacked : s.unacked[n].st = "Acked"
        /\ FrontOpen(u)
    BY CleanUnackedQueueEffect
  <2> HIDE DEF u
  <2>3. /\ t.last_sent = u.last_sent /\ t.window_size = u.window_size /\ t.stats = u.stats
        /\ t.last_enqueued = u.last_enqueued /\ t.blocked = u.blocked
        /\ t.unacked = u.unacked
        /\ Suffix(DOMAIN t.sent, DOMAIN u.sent)
    BY <2>1, CleanSentQueueEffect
  <2>4. FrontOpen(t)
    BY <2>2, <2>3 DEF FrontOpen
  <2>5. Requeues(s, t)
    BY <2>2, <2>3, SameQueues
  <2> QED BY <2>2, <2>3, <2>4, <2>5
<1>2. CASE ~IsFront(s.unacked, sn)
  <2>1. t = CleanSentQueue(s)
    BY <1>2 DEF CleanAfter
  <2>2. /\ t.last_sent = s.last_sent /\ t.window_size = s.window_size /\ t.stats = s.stats
        /\ t.last_enqueued = s.last_enqueued /\ t.blocked = s.blocked
        /\ t.unacked = s.unacked
        /\ Suffix(DOMAIN t.sent, DOMAIN s.sent)
    BY <2>1, CleanSentQueueEffect
  <2>3. FrontOpen(t)
    BY <1>2, <2>2 DEF FrontOpen
  <2>4. Requeues(s, t)
    BY <2>2, SameQueues
  <2> QED BY <2>2, <2>3, <2>4, SuffixItself
<1> QED BY <1>1, <1>2

\* Requests to cancel and limits of retries keep the packet retried.
LEMMA CancelSentPacketEdits ==
  ASSUME NEW s, SenderTypeOK(s), NEW sn, NEW t, t = CancelSentPacket(s, sn)
  PROVE  Edits(s, t, {}, {}) /\ Requeues(s, t)
<1>1. CASE CanCancelSent(s, sn)
  <2>1. sn \in DOMAIN s.unacked /\ s.unacked[sn] \in UnackedEntries
        /\ s.unacked[sn].st = "Unacked"
    BY <1>1 DEF CanCancelSent, SenderTypeOK
  <2>2. t = [s EXCEPT !.unacked[sn] = CancelEntry(@)]
    BY <1>1 DEF CancelSentPacket
  <2>3. /\ t.last_sent = s.last_sent /\ t.window_size = s.window_size /\ t.stats = s.stats
        /\ t.last_enqueued = s.last_enqueued /\ t.blocked = s.blocked /\ t.sent = s.sent
        /\ t.unacked = [s.unacked EXCEPT ![sn] = CancelEntry(s.unacked[sn])]
    BY <2>2 DEF SenderTypeOK
  <2>4. /\ CancelEntry(s.unacked[sn]).pkt = s.unacked[sn].pkt
        /\ CancelEntry(s.unacked[sn]).st = "CancelRequested"
    BY <2>1 DEF CancelEntry, UnackedEntries
  <2>5. Edits(s, t, {}, {})
    BY <2>1, <2>3, <2>4, RewrittenUnacked DEF Pending
  <2> QED BY <2>3, <2>5, SameQueues, SuffixItself
<1>2. CASE ~CanCancelSent(s, sn)
  BY <1>2, SameUnacked, SameQueues, SuffixItself DEF CancelSentPacket
<1> QED BY <1>1, <1>2

LEMMA LimitRetriesBySeqNumEdits ==
  ASSUME NEW s, SenderTypeOK(s), NEW sn, NEW limit, NEW t,
         t = LimitRetriesBySeqNum(s, sn, limit)
  PROVE  Edits(s, t, {}, {}) /\ Requeues(s, t)
<1>1. CASE CanCancelSent(s, sn)
  <2> DEFINE e == [s.unacked[sn] EXCEPT !.limit = Lower(limit, @)]
  <2>1. sn \in DOMAIN s.unacked /\ s.unacked[sn] \in UnackedEntries
    BY <1>1 DEF CanCancelSent, SenderTypeOK
  <2>2. e.pkt = s.unacked[sn].pkt /\ e.st = s.unacked[sn].st
    BY <2>1 DEF UnackedEntries
  <2>3. t = [s EXCEPT !.unacked[sn] = e]
    BY <1>1 DEF LimitRetriesBySeqNum
  <2> HIDE DEF e
  <2>4. /\ t.last_sent = s.last_sent /\ t.window_size = s.window_size /\ t.stats = s.stats
        /\ t.last_enqueued = s.last_enqueued /\ t.blocked = s.blocked /\ t.sent = s.sent
        /\ t.unacked = [s.unacked EXCEPT ![sn] = e]
    BY <2>3 DEF SenderTypeOK
  <2>5. Edits(s, t, {}, {})
    BY <2>1, <2>2, <2>4, RewrittenUnacked DEF Pending
  <2> QED BY <2>4, <2>5, SameQueues, SuffixItself
<1>2. CASE ~CanCancelSent(s, sn)
  BY <1>2, SameUnacked, SameQueues, SuffixItself DEF LimitRetriesBySeqNum
<1> QED BY <1>1, <1>2

LEMMA LimitRetriesByIdEdits ==
  ASSUME NEW s, SenderTypeOK(s), NEW id, NEW limit, NEW t,
         t = LimitRetriesById(s, id, limit)
  PROVE  Edits(s, t, {}, {}) /\ Requeues(s, t)
<1>1. CASE ~IsSent(s, id) /\ CanCancelQueued(s, id)
  <2> DEFINE e == [s.blocked[id] EXCEPT !.limit = Lower(limit, @)]
  <2>1. id \in DOMAIN s.blocked /\ s.blocked[id] \in BlockedEntries
    BY <1>1 DEF CanCancelQueued, SenderTypeOK
  <2>2. e.pkt = s.blocked[id].pkt /\ e.st = s.blocked[id].st
    BY <2>1 DEF BlockedEntries
  <2>3. t = [s EXCEPT !.blocked[id] = e]
    BY <1>1 DEF LimitRetriesById
  <2> HIDE DEF e
  <2>4. /\ t.last_sent = s.last_sent /\ t.window_size = s.window_size /\ t.stats = s.stats
        /\ t.unacked = s.unacked
        /\ t.last_enqueued = s.last_enqueued /\ t.sent = s.sent
        /\ t.blocked = [s.blocked EXCEPT ![id] = e]
    BY <2>3 DEF SenderTypeOK
  <2>5. FrontBlocked(s) => FrontBlocked(t)
    BY <2>1, <2>2, <2>4 DEF FrontBlocked, IsFront
  <2>6. DOMAIN t.blocked = DOMAIN s.blocked
        /\ DOMAIN s.sent \cup (DOMAIN s.blocked \ DOMAIN t.blocked) = DOMAIN t.sent
    BY <2>4
  <2>7. Requeues(s, t)
    BY <2>1, <2>2, <2>4, <2>5, <2>6, SuffixItself DEF Requeues
  <2> QED BY <2>4, <2>7, SameUnacked
<1>2. CASE ~(~IsSent(s, id) /\ CanCancelQueued(s, id))
  <2>1. t = s \/ t = LimitRetriesBySeqNum(s, LookupSeqNum(s, id), limit)
    BY <1>2 DEF LimitRetriesById
  <2> QED BY <2>1, SameUnacked, SameQueues, SuffixItself, LimitRetriesBySeqNumEdits
<1> QED BY <1>1, <1>2

\* A packet canceled while it is queued goes when it reaches the front.
LEMMA CleanBlockedQueueEffect ==
  ASSUME NEW s, SenderTypeOK(s), NEW t, t = CleanBlockedQueue(s)
  PROVE  /\ t.last_sent = s.last_sent /\ t.window_size = s.window_size /\ t.stats = s.stats
         /\ t.unacked = s.unacked
         /\ t.last_enqueued = s.last_enqueued
         /\ Suffix(DOMAIN t.blocked, DOMAIN s.blocked)
         /\ \A i \in DOMAIN t.blocked : t.blocked[i] = s.blocked[i]
         /\ DOMAIN t.sent = DOMAIN s.sent \cup (DOMAIN s.blocked \ DOMAIN t.blocked)
         /\ FrontBlocked(t)
<1> DEFINE kept == {i \in DOMAIN s.blocked :
                       \E j \in DOMAIN s.blocked : j <= i /\ s.blocked[j].st = "Blocked"}
           newsent == [i \in DOMAIN s.sent \cup (DOMAIN s.blocked \ kept) |->
                         IF i \in DOMAIN s.sent THEN s.sent[i] ELSE None]
<1>1. t = [s EXCEPT !.blocked = Keep(s.blocked, kept), !.sent = newsent]
  BY DEF CleanBlockedQueue, SenderTypeOK
<1>2. DOMAIN s.blocked \subseteq Nat
  BY DEF SenderTypeOK
<1>3. Suffix(kept, DOMAIN s.blocked)
  BY <1>2 DEF Suffix
<1>4. \A n \in kept : (\A x \in kept : n <= x) => s.blocked[n].st = "Blocked"
  <2> SUFFICES ASSUME NEW n \in kept, \A x \in kept : n <= x
               PROVE  s.blocked[n].st = "Blocked"
    OBVIOUS
  <2>1. PICK m \in DOMAIN s.blocked : m <= n /\ s.blocked[m].st = "Blocked"
    OBVIOUS
  <2>2. m \in kept
    BY <1>2, <2>1
  <2>3. m = n
    BY <1>2, <2>1, <2>2
  <2> QED BY <2>1, <2>3
<1>5. DOMAIN newsent = DOMAIN s.sent \cup (DOMAIN s.blocked \ kept)
  OBVIOUS
<1> HIDE DEF kept, newsent
<1>6. /\ t.last_sent = s.last_sent /\ t.window_size = s.window_size /\ t.stats = s.stats
      /\ t.unacked = s.unacked /\ t.last_enqueued = s.last_enqueued
      /\ t.blocked = [x \in kept |-> s.blocked[x]] /\ t.sent = newsent
  BY <1>1 DEF Keep, SenderTypeOK
<1>7. FrontBlocked(t)
  BY <1>4, <1>6 DEF FrontBlocked, IsFront
<1> QED BY <1>3, <1>5, <1>6, <1>7

LEMMA CancelQueuedPacketEdits ==
  ASSUME NEW s, SenderTypeOK(s), NEW id, NEW t, t = CancelQueuedPacket(s, id)
  PROVE  Edits(s, t, {}, {}) /\ Requeues(s, t)
<1> DEFINE e == [s.blocked[id] EXCEPT !.st = "Canceled", !.limit = NoLimit,
                                      !.waker = NoopWaker]
           w == s.woken \cup Woken(s.blocked[id])
           marked == [s EXCEPT !.blocked[id] = e, !.woken = w]
<1>1. CASE CanCancelQueued(s, id)
  <2>1. id \in DOMAIN s.blocked /\ s.blocked[id] \in BlockedEntries
    BY <1>1 DEF CanCancelQueued, SenderTypeOK
  <2>2. e.pkt = s.blocked[id].pkt /\ e \in BlockedEntries
    BY <2>1, Limits DEF BlockedEntries, Tasks
  <2>3. w \subseteq Pkts
    BY <2>1 DEF Woken, BlockedEntries, Tasks, SenderTypeOK
  <2>4. t = IF IsFront(s.blocked, id) THEN CleanBlockedQueue(marked) ELSE marked
    BY <1>1 DEF CancelQueuedPacket, SenderTypeOK
  <2> HIDE DEF e, w
  <2>5. /\ marked.last_sent = s.last_sent /\ marked.window_size = s.window_size
        /\ marked.stats = s.stats /\ marked.unacked = s.unacked
        /\ marked.last_enqueued = s.last_enqueued /\ marked.sent = s.sent
        /\ marked.blocked = [s.blocked EXCEPT ![id] = e]
    BY DEF SenderTypeOK
  <2>6. SenderTypeOK(marked)
    BY <2>1, <2>2, <2>3 DEF SenderTypeOK
  <2> HIDE DEF marked
  <2>7. DOMAIN marked.blocked = DOMAIN s.blocked
        /\ \A i \in DOMAIN s.blocked : marked.blocked[i].pkt = s.blocked[i].pkt
    BY <2>1, <2>2, <2>5
  <2>8. CASE IsFront(s.blocked, id)
    <3>1. t = CleanBlockedQueue(marked)
      BY <2>4, <2>8
    <3>2. /\ t.last_sent = marked.last_sent /\ t.window_size = marked.window_size
          /\ t.stats = marked.stats /\ t.unacked = marked.unacked
          /\ t.last_enqueued = marked.last_enqueued
          /\ Suffix(DOMAIN t.blocked, DOMAIN marked.blocked)
          /\ \A i \in DOMAIN t.blocked : t.blocked[i] = marked.blocked[i]
          /\ DOMAIN t.sent
                = DOMAIN marked.sent \cup (DOMAIN marked.blocked \ DOMAIN t.blocked)
          /\ FrontBlocked(t)
      BY <2>6, <3>1, CleanBlockedQueueEffect
    <3>3. Edits(s, t, {}, {})
      BY <3>2, <2>5, SameUnacked
    <3>4. \A i \in DOMAIN t.blocked : t.blocked[i].pkt = s.blocked[i].pkt
      BY <3>2, <2>7 DEF Suffix
    <3> QED BY <3>2, <3>3, <3>4, <2>5, <2>7, SuffixItself DEF Requeues
  <2>9. CASE ~IsFront(s.blocked, id)
    <3>1. t = marked
      BY <2>4, <2>9
    <3>2. FrontBlocked(s) => FrontBlocked(t)
      BY <3>1, <2>1, <2>5, <2>9 DEF FrontBlocked, IsFront
    <3>3. Edits(s, t, {}, {})
      BY <3>1, <2>5, SameUnacked
    <3>4. DOMAIN s.sent \cup (DOMAIN s.blocked \ DOMAIN t.blocked) = DOMAIN t.sent
      BY <3>1, <2>5
    <3> QED BY <3>1, <3>2, <3>3, <3>4, <2>5, <2>7, SuffixItself DEF Requeues
  <2> QED BY <2>8, <2>9
<1>2. CASE ~CanCancelQueued(s, id)
  BY <1>2, SameUnacked, SameQueues, SuffixItself DEF CancelQueuedPacket
<1> QED BY <1>1, <1>2

\* The retry timer ages packets; it settles none.
LEMMA AgeRetriesEdits ==
  ASSUME NEW s, SenderTypeOK(s), NEW t, t = AgeRetries(s)
  PROVE  Edits(s, t, {}, {}) /\ Requeues(s, t)
<1>1. /\ t.last_sent = s.last_sent /\ t.window_size = s.window_size /\ t.stats = s.stats
      /\ t.last_enqueued = s.last_enqueued /\ t.blocked = s.blocked /\ t.sent = s.sent
      /\ t.unacked = [n \in DOMAIN s.unacked |-> AgeEntry(s.unacked[n])]
  BY DEF AgeRetries, SenderTypeOK
<1>2. \A e \in UnackedEntries : /\ AgeEntry(e).pkt = e.pkt
                                /\ Pending(AgeEntry(e)) <=> Pending(e)
                                /\ ~Pending(e) => AgeEntry(e).st = e.st
  BY DEF AgeEntry, CancelEntry, UnackedEntries, Pending
<1>3. \A n \in DOMAIN s.unacked : s.unacked[n] \in UnackedEntries
  BY DEF SenderTypeOK
<1>4. Edits(s, t, {}, {})
  BY <1>1, <1>2, <1>3, RewrittenUnacked
<1> QED BY <1>1, <1>4, SameQueues, SuffixItself

\* An operator that rewrites the entry of `sn` and then cleans the queues.
LEMMA RewriteThenClean ==
  ASSUME NEW s, SenderTypeOK(s), FrontOpen(s), NEW sn \in DOMAIN s.unacked,
         NEW e \in UnackedEntries, NEW u, SenderTypeOK(u),
         u.last_sent = s.last_sent, u.window_size = s.window_size, u.stats = s.stats,
         u.last_enqueued = s.last_enqueued, u.blocked = s.blocked, u.sent = s.sent,
         u.unacked = [s.unacked EXCEPT ![sn] = e],
         e.pkt = s.unacked[sn].pkt,
         NEW A, NEW C, A \subseteq {sn}, C \subseteq {sn},
         Pending(e) <=> Pending(s.unacked[sn]) /\ sn \notin A,
         e.st = "CancelAcked" => s.unacked[sn].st = "CancelAcked" \/ sn \in C,
         NEW t, t = CleanAfter(u, sn)
  PROVE  Edits(s, t, A, C) /\ Requeues(s, t)
<1>1. DOMAIN u.unacked = DOMAIN s.unacked /\ u.unacked[sn] = e
      /\ \A n \in DOMAIN s.unacked \ {sn} : u.unacked[n] = s.unacked[n]
  OBVIOUS
<1>2. \A n \in DOMAIN u.unacked \ {sn} : IsFront(u.unacked, n) => u.unacked[n].st # "Acked"
  BY <1>1 DEF FrontOpen, IsFront
<1>3. /\ t.last_sent = u.last_sent /\ t.window_size = u.window_size /\ t.stats = u.stats
      /\ Suffix(DOMAIN t.unacked, DOMAIN u.unacked)
      /\ \A n \in DOMAIN t.unacked : t.unacked[n] = u.unacked[n]
      /\ \A n \in DOMAIN u.unacked \ DOMAIN t.unacked : u.unacked[n].st = "Acked"
      /\ FrontOpen(t)
      /\ Requeues(u, t)
  <2>1. SenderTypeOK(u) /\ sn \in DOMAIN u.unacked /\ t = CleanAfter(u, sn)
    BY <1>1
  <2> QED BY ONLY <2>1, <1>2, CleanAfterEffect
<1>4. Requeues(s, t)
  BY <1>3 DEF Requeues, FrontBlocked
<1>5. DOMAIN t.unacked \subseteq DOMAIN s.unacked
  BY <1>1, <1>3 DEF Suffix
<1>6. ASSUME NEW n \in DOMAIN t.unacked
      PROVE  /\ t.unacked[n].pkt = s.unacked[n].pkt
             /\ Pending(t.unacked[n]) <=> Pending(s.unacked[n]) /\ n \notin A
             /\ t.unacked[n].st = "CancelAcked" => s.unacked[n].st = "CancelAcked" \/ n \in C
  <2>1. CASE n = sn
    BY <1>1, <1>3, <2>1
  <2>2. CASE n # sn
    BY <1>1, <1>3, <1>5, <2>2
  <2> QED BY <2>1, <2>2
<1>7. ASSUME NEW n \in DOMAIN s.unacked \ DOMAIN t.unacked
      PROVE  Pending(s.unacked[n]) => n \in A
  <2>1. u.unacked[n].st = "Acked"
    BY <1>1, <1>3
  <2>2. ~Pending(u.unacked[n])
    BY <2>1 DEF Pending
  <2> QED BY <1>1, <2>2
<1> QED BY <1>1, <1>3, <1>4, <1>6, <1>7 DEF Edits

\* Forgetting a canceled packet settles no other packet.
LEMMA ForgetCanceledPacketEdits ==
  ASSUME NEW s, SenderTypeOK(s), FrontOpen(s), NEW sn, NEW t,
         t = ForgetCanceledPacket(s, sn)
  PROVE  Edits(s, t, {}, {}) /\ Requeues(s, t)
<1>1. CASE sn \in DOMAIN s.unacked
  <2> DEFINE e == ForgetEntry(s.unacked[sn])
             u == [s EXCEPT !.unacked[sn] = e]
  <2>1. s.unacked[sn] \in UnackedEntries
    BY <1>1 DEF SenderTypeOK
  <2>2. /\ e \in UnackedEntries /\ e.pkt = s.unacked[sn].pkt
        /\ Pending(e) <=> Pending(s.unacked[sn])
        /\ e.st = "CancelAcked" => s.unacked[sn].st = "CancelAcked"
    BY <2>1, Limits
       DEF ForgetEntry, Settled, UnackedEntries, UnackedStates, Tasks, Pending
  <2>3. t = CleanAfter(u, sn)
    BY <1>1 DEF ForgetCanceledPacket
  <2> HIDE DEF e
  <2>4. /\ u.last_sent = s.last_sent /\ u.window_size = s.window_size /\ u.stats = s.stats
        /\ u.last_enqueued = s.last_enqueued /\ u.blocked = s.blocked /\ u.sent = s.sent
        /\ u.unacked = [s.unacked EXCEPT ![sn] = e]
    BY DEF SenderTypeOK
  <2>5. SenderTypeOK(u)
    BY <1>1, <2>2, ReplaceUnacked
  <2> HIDE DEF u
  <2> QED BY <1>1, <2>2, <2>3, <2>4, <2>5, RewriteThenClean
<1>2. CASE sn \notin DOMAIN s.unacked
  BY <1>2, SameUnacked, SameQueues, SuffixItself DEF ForgetCanceledPacket
<1> QED BY <1>1, <1>2

LEMMA AnswerEdits ==
  ASSUME NEW s, SenderTypeOK(s), FrontOpen(s), NEW sn \in DOMAIN s.unacked,
         NEW st \in {"Acked", "CancelAcked"},
         NEW C, C \subseteq {sn}, st = "CancelAcked" => sn \in C,
         NEW t, t = Answer(s, sn, st)
  PROVE  Edits(s, t, {sn}, C) /\ Requeues(s, t)
<1> DEFINE e == Settled(s.unacked[sn], st)
           w == s.woken \cup Woken(s.unacked[sn])
           u == [s EXCEPT !.unacked[sn] = e, !.woken = w]
<1>1. s.unacked[sn] \in UnackedEntries
  BY DEF SenderTypeOK
<1>2. e \in UnackedEntries /\ e.pkt = s.unacked[sn].pkt /\ e.st = st
  BY <1>1, Limits DEF Settled, UnackedEntries, UnackedStates, Tasks
<1>3. w \subseteq Pkts
  BY <1>1 DEF Woken, UnackedEntries, Tasks, SenderTypeOK
<1>4. t = CleanAfter(u, sn)
  BY DEF Answer, SenderTypeOK
<1> HIDE DEF e, w
<1>5. /\ u.last_sent = s.last_sent /\ u.window_size = s.window_size /\ u.stats = s.stats
      /\ u.last_enqueued = s.last_enqueued /\ u.blocked = s.blocked /\ u.sent = s.sent
      /\ u.unacked = [s.unacked EXCEPT ![sn] = e]
  BY DEF SenderTypeOK
<1>6. SenderTypeOK(u)
  BY <1>2, <1>3 DEF SenderTypeOK
<1>7. ~Pending(e) /\ (e.st = "CancelAcked" => sn \in C)
  BY <1>2 DEF Pending
<1> HIDE DEF u
<1>8. sn \in {sn} /\ {sn} \subseteq {sn}
  OBVIOUS
<1> QED BY <1>2, <1>4, <1>5, <1>6, <1>7, <1>8, RewriteThenClean

LEMMA CountStatEdits ==
  ASSUME NEW s, SenderTypeOK(s), NEW stat, stat # "TooNewAck", NEW t,
         t = CountStat(s, stat)
  PROVE  Edits(s, t, {}, {}) /\ Requeues(s, t)
<1>1. /\ t.last_sent = s.last_sent /\ t.window_size = s.window_size
      /\ t.unacked = s.unacked
      /\ t.last_enqueued = s.last_enqueued /\ t.blocked = s.blocked /\ t.sent = s.sent
      /\ t.stats = s.stats \cup ({stat} \cap SenderStats)
  BY DEF CountStat, SenderTypeOK
<1>2. "TooNewAck" \in t.stats => "TooNewAck" \in s.stats
  BY <1>1
<1>3. FrontOpen(s) => FrontOpen(t)
  BY <1>1 DEF FrontOpen
<1>4. Edits(s, t, {}, {})
  BY <1>1, <1>2, <1>3, SuffixItself DEF Edits
<1> QED BY <1>1, <1>4, SameQueues, SuffixItself

\* An acknowledgement settles the packet it is of, if that is still outstanding.
LEMMA ProcessAckEdits ==
  ASSUME NEW s, SenderTypeOK(s), FrontOpen(s), NEW sn \in Nat, sn <= s.last_sent,
         NEW t, t = ProcessAck(s, sn)
  PROVE  /\ Edits(s, t, {sn}, {}) \/ Edits(s, t, {}, {})
         /\ Requeues(s, t)
<1>0. s.last_sent \in Int
  BY DEF SenderTypeOK
<1>1. \/ sn \in DOMAIN s.unacked /\ t = Answer(s, sn, "Acked")
      \/ \E stat \in {"TooOldAck", "DuplicateAck", "InvalidAck"} : t = CountStat(s, stat)
  BY <1>0 DEF ProcessAck
<1> QED BY <1>1, AnswerEdits, CountStatEdits

\* So does the acknowledgement of a cancel, for a packet whose cancel was requested.
LEMMA ProcessCanceledEdits ==
  ASSUME NEW s, SenderTypeOK(s), FrontOpen(s), NEW sn \in Nat, sn <= s.last_sent,
         NEW t, t = ProcessCanceled(s, sn)
  PROVE  /\ Edits(s, t, {sn}, {sn}) \/ Edits(s, t, {}, {})
         /\ Requeues(s, t)
<1>0. s.last_sent \in Int
  BY DEF SenderTypeOK
<1>1. \/ /\ sn \in DOMAIN s.unacked
         /\ \/ t = Answer(s, sn, "Acked")
            \/ t = Answer(s, sn, "CancelAcked")
      \/ \E stat \in {"TooOldAck", "DuplicateAck", "InvalidAck"} : t = CountStat(s, stat)
  BY <1>0 DEF ProcessCanceled
<1> QED BY <1>1, AnswerEdits, CountStatEdits

-------------------------------------------------------------------------------
(* New sequence numbers.                                                   *)

\* `t` is `s` after packets were given the next sequence numbers, in the room
\* that the window has left.
Issues(s, t) ==
    /\ t.window_size = s.window_size
    /\ t.stats = s.stats
    /\ t.last_sent \in Int /\ s.last_sent <= t.last_sent
    /\ DOMAIN t.unacked = DOMAIN s.unacked \cup (s.last_sent + 1 .. t.last_sent)
    /\ \A n \in DOMAIN s.unacked : t.unacked[n] = s.unacked[n]
    /\ \A n \in DOMAIN t.unacked \ DOMAIN s.unacked : t.unacked[n].st = "Unacked"
    /\ t.last_sent # s.last_sent =>
          Len_(s.unacked) + (t.last_sent - s.last_sent) <= s.window_size

LEMMA EnqueuePacketQueued ==
  ASSUME NEW s, SenderTypeOK(s), NEW p, EnqueueIsQueued(s), NEW t, t = EnqueuePacket(s, p)
  PROVE  /\ t.last_sent = s.last_sent /\ t.window_size = s.window_size /\ t.stats = s.stats
         /\ t.unacked = s.unacked /\ t.sent = s.sent
         /\ t.last_enqueued = s.last_enqueued + 1
         /\ DOMAIN t.blocked = DOMAIN s.blocked \cup {s.last_enqueued + 1}
         /\ \A i \in DOMAIN s.blocked :
               i # s.last_enqueued + 1 => t.blocked[i] = s.blocked[i]
         /\ t.blocked[s.last_enqueued + 1].pkt = p
         /\ t.blocked[s.last_enqueued + 1].st = "Blocked"
<1> DEFINE e == [st |-> "Blocked", pkt |-> p, limit |-> NoLimit, waker |-> NoopWaker]
<1>1. t = [s EXCEPT !.last_enqueued = @ + 1, !.blocked = Put(@, s.last_enqueued + 1, e)]
  BY DEF EnqueuePacket
<1>2. e.pkt = p /\ e.st = "Blocked"
  OBVIOUS
<1> HIDE DEF e
<1> QED BY <1>1, <1>2 DEF Put, SenderTypeOK

LEMMA EnqueuePacketSent ==
  ASSUME NEW s, SenderTypeOK(s), UnackedInterval(s), NEW p, ~EnqueueIsQueued(s),
         NEW t, t = EnqueuePacket(s, p)
  PROVE  /\ Issues(s, t)
         /\ t.last_sent = s.last_sent + 1 /\ t.unacked[t.last_sent].pkt = p
         /\ t.last_enqueued = s.last_enqueued /\ t.blocked = s.blocked /\ t.sent = s.sent
         /\ DOMAIN s.blocked = {}
<1> DEFINE e == UnackedEntry(p, NoLimit)
<1>1. t = [s EXCEPT !.last_sent = @ + 1, !.unacked = Put(@, s.last_sent + 1, e)]
  BY DEF EnqueuePacket
<1>2. e.pkt = p /\ e.st = "Unacked"
  BY DEF UnackedEntry
<1> HIDE DEF e
<1>3. s.last_sent \in Nat \cup {-1} /\ s.window_size \in Nat
  BY DEF SenderTypeOK
<1>4. s.last_sent + 1 \notin DOMAIN s.unacked
  BY <1>3 DEF UnackedInterval
<1>5. /\ t.window_size = s.window_size /\ t.stats = s.stats
      /\ t.last_sent = s.last_sent + 1
      /\ t.unacked = [x \in DOMAIN s.unacked \cup {s.last_sent + 1} |->
                         IF x = s.last_sent + 1 THEN e ELSE s.unacked[x]]
      /\ t.last_enqueued = s.last_enqueued /\ t.blocked = s.blocked /\ t.sent = s.sent
  BY <1>1 DEF Put, SenderTypeOK
<1>6. s.last_sent + 1 .. t.last_sent = {s.last_sent + 1}
  BY <1>3, <1>5
<1>7. Len_(s.unacked) \in Nat
  BY FS_CardinalityType DEF SenderTypeOK, Len_
<1>8. DOMAIN s.blocked = {} /\ Len_(s.unacked) + 1 <= s.window_size
  BY <1>3, <1>7 DEF EnqueueIsQueued, HasBlockedPackets, IsBlocked
<1>9. t.last_sent - s.last_sent = 1 /\ t.last_sent \in Int /\ s.last_sent <= t.last_sent
  BY <1>3, <1>5
<1>10. /\ \A n \in DOMAIN s.unacked : t.unacked[n] = s.unacked[n]
       /\ t.unacked[s.last_sent + 1] = e
       /\ DOMAIN t.unacked = DOMAIN s.unacked \cup {s.last_sent + 1}
  BY <1>4, <1>5
<1>11. \A n \in DOMAIN t.unacked \ DOMAIN s.unacked : t.unacked[n].st = "Unacked"
  BY <1>2, <1>10
<1>12. Issues(s, t)
  BY <1>5, <1>6, <1>8, <1>9, <1>10, <1>11 DEF Issues
<1> QED BY <1>2, <1>5, <1>8, <1>10, <1>12

\* Ranks grow with the indices.
LEMMA RankMonotone ==
  ASSUME NEW S \in SUBSET Nat, IsFiniteSet(S), NEW i \in S, NEW j \in S, i <= j
  PROVE  Rank(S, i) \in Nat /\ Rank(S, j) \in Nat /\ Rank(S, i) <= Rank(S, j)
<1> DEFINE P == {x \in S : x <= i}
           Q == {x \in S : x <= j}
<1>1. P \in SUBSET Q /\ Q \in SUBSET S
  <2>1. \A x \in S : x <= i => x <= j
    OBVIOUS
  <2> QED BY <2>1
<1>2. Rank(S, i) = Cardinality(P) /\ Rank(S, j) = Cardinality(Q)
  BY DEF Rank
<1> HIDE DEF P, Q
<1>3. IsFiniteSet(Q)
  BY <1>1, FS_Subset
<1>4. IsFiniteSet(P) /\ Cardinality(P) <= Cardinality(Q)
  BY <1>1, <1>3, FS_Subset
<1> QED BY <1>2, <1>3, <1>4, FS_CardinalityType

\* The window is refilled from the front of the blocked queue, in its order: the
\* function `g` says which blocked packet got which sequence number.
LEMMA EnqueueBlockedPacketsEffect ==
  ASSUME NEW s, SenderTypeOK(s), UnackedInterval(s), NEW t, t = EnqueueBlockedPackets(s)
  PROVE  /\ Issues(s, t)
         /\ Requeues(s, t)
         /\ \E g \in [s.last_sent + 1 .. t.last_sent ->
                         DOMAIN s.blocked \ DOMAIN t.blocked] :
               /\ \A m \in s.last_sent + 1 .. t.last_sent :
                     t.unacked[m].pkt = s.blocked[g[m]].pkt
               /\ \A m1, m2 \in s.last_sent + 1 .. t.last_sent : m1 < m2 => g[m1] < g[m2]
<1> DEFINE n == UnblockCount(s)
           live == LiveBlocked(s)
           nth(k) == CHOOSE i \in live : Rank(live, i) = k
           moved == {i \in live : Rank(live, i) <= n}
           kept == {i \in DOMAIN s.blocked : \E j \in live \ moved : j <= i}
           new == s.last_sent + 1 .. s.last_sent + n
           unacked == [m \in DOMAIN s.unacked \cup new |->
                IF m \in DOMAIN s.unacked THEN s.unacked[m]
                ELSE LET b == s.blocked[nth(m - s.last_sent)]
                     IN  UnackedEntry(b.pkt, b.limit)]
           sent == [i \in DOMAIN s.sent \cup (DOMAIN s.blocked \ kept) |->
                CASE i \in DOMAIN s.sent -> s.sent[i]
                  [] i \in moved -> s.last_sent + Rank(live, i)
                  [] OTHER -> None]
           woken == s.woken \cup UNION {Woken(s.blocked[i]) : i \in moved}
<1>1. n \in Nat /\ live \subseteq DOMAIN s.blocked /\ live \in SUBSET Nat
      /\ IsFiniteSet(live) /\ n <= Cardinality(live) /\ Cardinality(live) \in Nat
  BY UnblockCountType, FS_CardinalityType DEF LiveBlocked, SenderTypeOK
<1>2. s.last_sent \in Nat \cup {-1} /\ s.window_size \in Nat /\ Len_(s.unacked) \in Nat
      /\ DOMAIN s.blocked \subseteq Nat
  BY FS_CardinalityType DEF SenderTypeOK, Len_
<1>3. n # 0 => Len_(s.unacked) + n <= s.window_size
  BY <1>1, <1>2 DEF UnblockCount, UnblockNeeded, IsBlocked, Lower
<1>4. \A i \in live : s.blocked[i].st = "Blocked"
  BY DEF LiveBlocked
<1> HIDE DEF n, live
<1>5. \A k \in 1 .. n : nth(k) \in live /\ Rank(live, nth(k)) = k
  <2> SUFFICES ASSUME NEW k \in 1 .. n PROVE nth(k) \in live /\ Rank(live, nth(k)) = k
    OBVIOUS
  <2>1. k \in 1 .. Cardinality(live)
    BY <1>1
  <2>2. \E i \in live : Rank(live, i) = k
    BY <2>1, <1>1, RankExists
  <2> QED BY <2>2
<1> HIDE DEF nth
<1>6. \A k \in 1 .. n : nth(k) \in DOMAIN s.blocked \ kept
  <2> SUFFICES ASSUME NEW k \in 1 .. n, NEW j \in live \ moved, j <= nth(k) PROVE FALSE
    BY <1>1, <1>5
  <2>1. Rank(live, j) \in Nat /\ Rank(live, j) <= Rank(live, nth(k))
    BY <1>1, <1>5, RankMonotone
  <2>2. Rank(live, j) <= n
    BY <2>1, <1>1, <1>5
  <2> QED BY <2>2
<1>7. \A k1, k2 \in 1 .. n : k1 < k2 => nth(k1) < nth(k2)
  <2> SUFFICES ASSUME NEW k1 \in 1 .. n, NEW k2 \in 1 .. n, k1 < k2, nth(k2) <= nth(k1)
               PROVE  FALSE
    BY <1>1, <1>5
  <2>1. Rank(live, nth(k2)) <= Rank(live, nth(k1))
    BY <1>1, <1>5, RankMonotone
  <2>2. k2 <= k1
    BY <2>1, <1>5
  <2> QED BY <2>2, <1>1
<1>8. Suffix(kept, DOMAIN s.blocked)
  BY <1>1, <1>2 DEF Suffix
<1>9. \A i \in kept : (\A x \in kept : i <= x) => s.blocked[i].st = "Blocked"
  <2> SUFFICES ASSUME NEW i \in kept, \A x \in kept : i <= x
               PROVE  s.blocked[i].st = "Blocked"
    OBVIOUS
  <2>1. PICK j \in live \ moved : j <= i
    OBVIOUS
  <2>2. j \in kept
    BY <1>1, <2>1
  <2>3. j = i
    BY <1>1, <1>2, <2>1, <2>2
  <2> QED BY <2>1, <2>3, <1>4
<1>10. DOMAIN sent = DOMAIN s.sent \cup (DOMAIN s.blocked \ kept)
  OBVIOUS
<1>11. new \cap DOMAIN s.unacked = {}
  BY <1>1, <1>2 DEF UnackedInterval
<1>12. \A m \in new : m - s.last_sent \in 1 .. n
  BY <1>1, <1>2
<1>13. \A m \in new : /\ unacked[m].st = "Unacked"
                      /\ unacked[m].pkt = s.blocked[nth(m - s.last_sent)].pkt
  BY <1>11 DEF UnackedEntry
<1>14. DOMAIN unacked = DOMAIN s.unacked \cup new
       /\ \A m \in DOMAIN s.unacked : unacked[m] = s.unacked[m]
  OBVIOUS
<1>15. CASE n # 0
  <2>1. t = [s EXCEPT !.last_sent = s.last_sent + n, !.unacked = unacked,
                    !.blocked = Keep(s.blocked, kept), !.sent = sent, !.woken = woken]
    BY <1>15 DEF EnqueueBlockedPackets, SenderTypeOK, n, live, nth
  <2> HIDE DEF kept, unacked, sent, woken, moved
  <2>2. /\ t.last_sent = s.last_sent + n /\ t.unacked = unacked /\ t.sent = sent
        /\ t.window_size = s.window_size /\ t.stats = s.stats
        /\ t.last_enqueued = s.last_enqueued
        /\ t.blocked = [x \in kept |-> s.blocked[x]]
    BY <2>1 DEF Keep, SenderTypeOK
  <2>3. new = s.last_sent + 1 .. t.last_sent
    BY <2>2
  <2>4. Issues(s, t)
    <3>1. t.last_sent \in Int /\ s.last_sent <= t.last_sent /\ t.last_sent - s.last_sent = n
      BY <1>1, <1>2, <2>2
    <3>2. DOMAIN t.unacked = DOMAIN s.unacked \cup (s.last_sent + 1 .. t.last_sent)
      BY <2>2, <2>3, <1>14
    <3>3. \A m \in DOMAIN s.unacked : t.unacked[m] = s.unacked[m]
      BY <2>2, <1>14
    <3>4. \A m \in DOMAIN t.unacked \ DOMAIN s.unacked : t.unacked[m].st = "Unacked"
      BY <2>2, <1>13, <1>14
    <3> HIDE DEF new
    <3> QED BY <3>1, <3>2, <3>3, <3>4, <2>2, <1>3, <1>15 DEF Issues
  <2>5. Requeues(s, t)
    <3>1. DOMAIN t.blocked = kept /\ \A i \in kept : t.blocked[i] = s.blocked[i]
      BY <2>2
    <3>2. FrontBlocked(t)
      BY <3>1, <1>9 DEF FrontBlocked, IsFront
    <3> QED BY <3>1, <3>2, <2>2, <1>8, <1>10, SuffixItself DEF Requeues
  <2> DEFINE g == [m \in new |-> nth(m - s.last_sent)]
  <2>6. g \in [new -> DOMAIN s.blocked \ DOMAIN t.blocked]
    BY <1>6, <1>12, <2>2
  <2>7. \A m \in new : t.unacked[m].pkt = s.blocked[g[m]].pkt
    BY <1>13, <2>2
  <2>8. \A m1, m2 \in new : m1 < m2 => g[m1] < g[m2]
    <3> SUFFICES ASSUME NEW m1 \in new, NEW m2 \in new, m1 < m2
                 PROVE  nth(m1 - s.last_sent) < nth(m2 - s.last_sent)
      OBVIOUS
    <3>1. /\ m1 - s.last_sent \in 1 .. n /\ m2 - s.last_sent \in 1 .. n
          /\ m1 - s.last_sent < m2 - s.last_sent
      BY <1>1, <1>2, <1>12
    <3> QED BY <3>1, <1>7
  <2> HIDE DEF g, new
  <2> QED BY <2>3, <2>4, <2>5, <2>6, <2>7, <2>8
<1>16. CASE n = 0
  <2>1. t = s
    BY <1>16 DEF EnqueueBlockedPackets, n
  <2>2. s.last_sent + 1 .. t.last_sent = {}
    BY <2>1, <1>2
  <2>3. Issues(s, t)
    BY <2>1, <2>2, <1>2 DEF Issues
  <2>4. Requeues(s, t)
    BY <2>1, SameQueues, SuffixItself
  <2> DEFINE g == [m \in {} |-> m]
  <2>5. g \in [{} -> DOMAIN s.blocked \ DOMAIN t.blocked]
    OBVIOUS
  <2> HIDE DEF g
  <2> QED BY <2>2, <2>3, <2>4, <2>5
<1> QED BY <1>15, <1>16

-------------------------------------------------------------------------------
(* What edits and new sequence numbers keep.                               *)

LEMMA EditsShape ==
  ASSUME NEW s, SenderTypeOK(s), NEW t, NEW A, NEW C, Edits(s, t, A, C),
         UnackedInterval(s), FrontOpen(s)
  PROVE  UnackedInterval(t) /\ FrontOpen(t)
<1>1. s.last_sent \in Nat \cup {-1} /\ s.window_size \in Nat
  BY DEF SenderTypeOK
<1>2. PICK lo \in Nat : /\ lo <= s.last_sent + 1
                        /\ DOMAIN s.unacked = lo .. s.last_sent
                        /\ s.last_sent + 1 - lo <= s.window_size
  BY DEF UnackedInterval
<1>3. Suffix(DOMAIN t.unacked, lo .. s.last_sent)
  BY <1>2 DEF Edits
<1>4. PICK a \in Nat : lo <= a /\ a <= s.last_sent + 1 /\ DOMAIN t.unacked = a .. s.last_sent
  BY <1>1, <1>2, <1>3, SuffixInterval
<1>5. t.last_sent = s.last_sent /\ t.window_size = s.window_size
  BY DEF Edits
<1>6. s.last_sent + 1 - a <= s.window_size
  BY <1>1, <1>2, <1>4
<1> QED BY <1>4, <1>5, <1>6 DEF UnackedInterval, Edits

LEMMA IssuesShape ==
  ASSUME NEW s, SenderTypeOK(s), NEW t, Issues(s, t), UnackedInterval(s), FrontOpen(s)
  PROVE  UnackedInterval(t) /\ FrontOpen(t)
<1>1. s.last_sent \in Nat \cup {-1} /\ s.window_size \in Nat
  BY DEF SenderTypeOK
<1>2. PICK lo \in Nat : /\ lo <= s.last_sent + 1
                        /\ DOMAIN s.unacked = lo .. s.last_sent
                        /\ s.last_sent + 1 - lo <= s.window_size
  BY DEF UnackedInterval
<1>3. t.last_sent \in Int /\ s.last_sent <= t.last_sent /\ t.window_size = s.window_size
  BY DEF Issues
<1>4. DOMAIN t.unacked = lo .. t.last_sent
  <2>1. (lo .. s.last_sent) \cup (s.last_sent + 1 .. t.last_sent) = lo .. t.last_sent
    BY <1>1, <1>2, <1>3
  <2> QED BY <1>2, <2>1 DEF Issues
<1>5. Len_(s.unacked) = s.last_sent + 1 - lo
  BY <1>1, <1>2, IntervalSize DEF Len_
<1>6. t.last_sent + 1 - lo <= t.window_size
  <2>1. CASE t.last_sent = s.last_sent
    BY <2>1, <1>2, <1>3
  <2>2. CASE t.last_sent # s.last_sent
    <3>1. Len_(s.unacked) + (t.last_sent - s.last_sent) <= s.window_size
      BY <2>2 DEF Issues
    <3> QED BY <3>1, <1>1, <1>3, <1>5
  <2> QED BY <2>1, <2>2
<1>7. UnackedInterval(t)
  BY <1>1, <1>2, <1>3, <1>4, <1>6 DEF UnackedInterval
<1>8. FrontOpen(t)
  <2> SUFFICES ASSUME NEW n \in DOMAIN t.unacked, IsFront(t.unacked, n)
               PROVE  t.unacked[n].st # "Acked"
    BY DEF FrontOpen
  <2>1. CASE n \in DOMAIN s.unacked
    <3>1. DOMAIN s.unacked \subseteq DOMAIN t.unacked
      BY DEF Issues
    <3>2. IsFront(s.unacked, n)
      BY <3>1 DEF IsFront
    <3>3. s.unacked[n].st # "Acked" /\ t.unacked[n] = s.unacked[n]
      BY <2>1, <3>2 DEF FrontOpen, Issues
    <3> QED BY <3>3
  <2>2. CASE n \notin DOMAIN s.unacked
    <3>1. t.unacked[n].st = "Unacked"
      BY <2>2 DEF Issues
    <3> QED BY <3>1
  <2> QED BY <2>1, <2>2
<1> QED BY <1>7, <1>8

LEMMA RequeuesShape ==
  ASSUME NEW s, SenderTypeOK(s), NEW t, Requeues(s, t), QueueIntervals(s), FrontBlocked(s)
  PROVE  QueueIntervals(t) /\ FrontBlocked(t)
<1>1. s.last_enqueued \in Nat \cup {-1}
  BY DEF SenderTypeOK
<1>2. PICK a, b \in Nat : /\ a <= b /\ b <= s.last_enqueued + 1
                          /\ DOMAIN s.blocked = b .. s.last_enqueued
                          /\ DOMAIN s.sent = a .. (b - 1)
  BY DEF QueueIntervals
<1>3. Suffix(DOMAIN t.blocked, b .. s.last_enqueued)
  BY <1>2 DEF Requeues
<1>4. PICK b1 \in Nat : /\ b <= b1 /\ b1 <= s.last_enqueued + 1
                        /\ DOMAIN t.blocked = b1 .. s.last_enqueued
  BY <1>1, <1>2, <1>3, SuffixInterval
<1>5. (a .. (b - 1)) \cup ((b .. s.last_enqueued) \ (b1 .. s.last_enqueued)) = a .. (b1 - 1)
  BY <1>1, <1>2, <1>4
<1>6. Suffix(DOMAIN t.sent, a .. (b1 - 1))
  BY <1>2, <1>4, <1>5 DEF Requeues
<1>7. b1 - 1 \in Nat \cup {-1} /\ a <= b1 - 1 + 1 /\ b1 - 1 + 1 = b1
  BY <1>2, <1>4
<1>8. PICK a1 \in Nat : a <= a1 /\ a1 <= b1 - 1 + 1 /\ DOMAIN t.sent = a1 .. (b1 - 1)
  BY <1>6, <1>7, SuffixInterval
<1>9. t.last_enqueued = s.last_enqueued
  BY DEF Requeues
<1>10. a1 <= b1 /\ b1 <= t.last_enqueued + 1
       /\ DOMAIN t.blocked = b1 .. t.last_enqueued /\ DOMAIN t.sent = a1 .. (b1 - 1)
  BY <1>4, <1>7, <1>8, <1>9
<1> QED BY <1>10 DEF QueueIntervals, Requeues

\* The numbers the sender holds for answered, the channel's `settled`.
SettledNumbers(s) == {n \in 0 .. s.last_sent : IsAcked(s, n)}

LEMMA EditsSettled ==
  ASSUME NEW s, SenderTypeOK(s), NEW t, NEW A, NEW C, Edits(s, t, A, C),
         A \subseteq 0 .. s.last_sent
  PROVE  SettledNumbers(t) = SettledNumbers(s) \cup A
<1>1. t.last_sent = s.last_sent /\ DOMAIN t.unacked \subseteq DOMAIN s.unacked
  BY DEF Edits, Suffix
<1>2. ASSUME NEW n \in 0 .. s.last_sent
      PROVE  IsAcked(t, n) <=> IsAcked(s, n) \/ n \in A
  <2>1. n <= s.last_sent
    BY DEF SenderTypeOK
  <2>2. CASE n \in DOMAIN t.unacked
    BY <1>1, <2>1, <2>2 DEF Edits, IsAcked
  <2>3. CASE n \in DOMAIN s.unacked /\ n \notin DOMAIN t.unacked
    BY <1>1, <2>1, <2>3 DEF Edits, IsAcked
  <2>4. CASE n \notin DOMAIN s.unacked
    BY <1>1, <2>1, <2>4 DEF IsAcked
  <2> QED BY <2>2, <2>3, <2>4
<1> QED BY <1>1, <1>2 DEF SettledNumbers

LEMMA IssuesSettled ==
  ASSUME NEW s, SenderTypeOK(s), NEW t, Issues(s, t), UnackedInterval(s)
  PROVE  SettledNumbers(t) = SettledNumbers(s)
<1>1. s.last_sent \in Nat \cup {-1}
  BY DEF SenderTypeOK
<1>2. t.last_sent \in Int /\ s.last_sent <= t.last_sent
  BY DEF Issues
<1>3. \A n \in DOMAIN s.unacked : n <= s.last_sent
  BY <1>1 DEF UnackedInterval
<1>4. ASSUME NEW n \in 0 .. t.last_sent
      PROVE  n \in SettledNumbers(t) <=> n \in SettledNumbers(s)
  <2>1. CASE n <= s.last_sent
    <3>1. n \in 0 .. s.last_sent /\ n <= t.last_sent /\ n \notin s.last_sent + 1 .. t.last_sent
      BY <1>1, <1>2, <2>1
    <3>2. n \in DOMAIN t.unacked <=> n \in DOMAIN s.unacked
      BY <3>1 DEF Issues
    <3>3. n \in DOMAIN s.unacked => t.unacked[n] = s.unacked[n]
      BY DEF Issues
    <3>4. IsAcked(t, n) <=> IsAcked(s, n)
      BY <2>1, <3>1, <3>2, <3>3 DEF IsAcked
    <3> QED BY <3>1, <3>4 DEF SettledNumbers
  <2>2. CASE ~(n <= s.last_sent)
    <3>1. n \in s.last_sent + 1 .. t.last_sent /\ n \notin DOMAIN s.unacked
      BY <1>1, <1>2, <1>3, <2>2
    <3>2. n \in DOMAIN t.unacked /\ Pending(t.unacked[n])
      BY <3>1 DEF Issues, Pending
    <3> QED BY <3>2, <2>2 DEF SettledNumbers, IsAcked
  <2> QED BY <2>1, <2>2
<1>5. SettledNumbers(t) \subseteq 0 .. t.last_sent /\ SettledNumbers(s) \subseteq 0 .. t.last_sent
  BY <1>1, <1>2 DEF SettledNumbers
<1> HIDE DEF SettledNumbers
<1> QED BY <1>4, <1>5

\* Nothing that an edit leaves to retry was not to be retried before.
LEMMA EditsRetry ==
  ASSUME NEW s, NEW t, NEW A, NEW C, Edits(s, t, A, C), RetryNeeded(t)
  PROVE  RetryNeeded(s)
BY DEF Edits, Suffix, RetryNeeded

-------------------------------------------------------------------------------
(* The receiver's window.                                                  *)

\* The numbers before the first one count as received.
PastReceived(r) == \A i \in Positions : r.highest_seen - i < 0 => i \in r.recvd

\* leading_ones finds the highest position that is not set.
LEMMA LeadingOnesStop ==
  ASSUME NEW b \in SUBSET Positions
  PROVE  /\ LeadingOnes(b) \in 0 .. BITS
         /\ LeadingOnes(b) < BITS => BITS - 1 - LeadingOnes(b) \notin b
<1> DEFINE ones == {i \in Positions : i .. (BITS - 1) \subseteq b}
<1>1. BITS \in Nat \ {0} /\ BITS - 1 \in Nat
  BY WindowAssumption
<1>2. Suffix(ones, 0 .. (BITS - 1))
  <2>1. \A n \in ones, m \in Positions : n <= m => m .. (BITS - 1) \subseteq n .. (BITS - 1)
    BY <1>1 DEF Positions
  <2> QED BY <2>1 DEF Suffix, Positions
<1>3. PICK a \in Nat : a <= BITS - 1 + 1 /\ ones = a .. (BITS - 1)
  <2> HIDE DEF ones
  <2> QED BY <1>1, <1>2, SuffixInterval
<1>4. LeadingOnes(b) = BITS - a
  <2>1. LeadingOnes(b) = Cardinality(a .. (BITS - 1))
    BY <1>3 DEF LeadingOnes
  <2> QED BY <1>1, <1>3, <2>1, IntervalSize
<1>5. a \in 0 .. BITS
  BY <1>1, <1>3
<1>6. ASSUME a > 0, a - 1 \in b PROVE FALSE
  <2>1. a .. (BITS - 1) \subseteq b
    <3>1. CASE a = BITS
      BY <3>1, <1>1
    <3>2. CASE a # BITS
      <4>1. a \in a .. (BITS - 1)
        BY <3>2, <1>1, <1>5
      <4>2. a \in ones
        BY <4>1, <1>3
      <4> QED BY <4>2
    <3> QED BY <3>1, <3>2
  <2>2. (a - 1) .. (BITS - 1) = {a - 1} \cup (a .. (BITS - 1))
    BY <1>6, <1>1, <1>5
  <2>3. a - 1 \in Positions
    BY <1>6, <1>1, <1>5 DEF Positions
  <2>4. a - 1 \in ones
    BY <1>6, <2>1, <2>2, <2>3
  <2>5. a - 1 \notin a .. (BITS - 1)
    BY <1>5, <1>1
  <2> HIDE DEF ones
  <2> QED BY <2>4, <2>5, <1>3
<1>7. BITS - 1 - LeadingOnes(b) = a - 1
  BY <1>1, <1>4, <1>5
<1> QED BY <1>1, <1>4, <1>5, <1>6, <1>7

\* oldest_unrecvd_offset points at a number that is still undecided.
LEMMA OldestUndecided ==
  ASSUME NEW r, ReceiverTypeOK(r), NEW acc \in SUBSET Nat, NEW ref \in SUBSET Nat,
         Remembers(r, acc, ref), PastReceived(r)
  PROVE  /\ OldestUnrecvdOffset(r) \in Int
         /\ r.highest_seen + OldestUnrecvdOffset(r) \in Nat
         /\ r.highest_seen + OldestUnrecvdOffset(r) \notin acc \cup ref
<1> DEFINE ell == LeadingOnes(r.recvd)
<1>1. r.highest_seen \in Nat \cup {-1} /\ r.recvd \in SUBSET Positions
  BY DEF ReceiverTypeOK
<1>2. ell \in 0 .. BITS /\ (ell < BITS => BITS - 1 - ell \notin r.recvd)
  BY <1>1, LeadingOnesStop
<1>3. OldestUnrecvdOffset(r) = ell + 1 - BITS
  BY DEF OldestUnrecvdOffset
<1>4. BITS \in Nat
  BY WindowAssumption
<1> HIDE DEF ell
<1>5. CASE ell = BITS
  <2>1. OldestUnrecvdOffset(r) = 1
    BY <1>3, <1>4, <1>5
  <2>2. r.highest_seen + 1 \notin acc \cup ref
    BY <1>1 DEF Remembers
  <2> QED BY <1>1, <2>1, <2>2
<1>6. CASE ell # BITS
  <2> DEFINE p == BITS - 1 - ell
  <2>1. p \in Positions /\ p \notin r.recvd
    BY <1>2, <1>4, <1>6 DEF Positions
  <2>2. r.highest_seen + OldestUnrecvdOffset(r) = r.highest_seen - p /\ p \in Int
        /\ OldestUnrecvdOffset(r) \in Int
    BY <1>1, <1>2, <1>3, <1>4
  <2> HIDE DEF p
  <2>3. r.highest_seen - p >= 0
    BY <2>1, <2>2, <1>1 DEF PastReceived
  <2>4. r.highest_seen - p \notin acc \cup ref
    BY <2>1, <2>3 DEF Remembers
  <2> QED BY <1>1, <2>2, <2>3, <2>4
<1> QED BY <1>5, <1>6

LEMMA PastStays ==
  ASSUME NEW r, ReceiverTypeOK(r), PastReceived(r), NEW sn \in Nat, NEW c \in BOOLEAN,
         ShiftInRange
  PROVE  PastReceived(ProcessPacketOrCancel(r, sn, c))
<1> DEFINE q == ProcessPacketOrCancel(r, sn, c)
<1>1. r.highest_seen \in Nat \cup {-1} /\ r.recvd \in SUBSET Positions
  BY DEF ReceiverTypeOK
<1>2. CASE Classify(r, sn) = "New"
  <2> DEFINE k == sn - r.highest_seen
  <2>1. k \in 1 .. BITS - 1
    BY <1>2, NewOffset
  <2>2. q.highest_seen = sn /\ q.recvd = ShiftLeft(r.recvd, k) \cup {0}
    BY <1>2 DEF ProcessPacketOrCancel, ReceiverTypeOK
  <2>3. ASSUME NEW i \in Positions, sn - i < 0 PROVE i \in ShiftLeft(r.recvd, k)
    <3>1. i \in Int /\ i - k = r.highest_seen + i - sn
      BY <1>1 DEF Positions
    <3>2. i - k \in Positions
      BY <1>1, <2>1, <2>3, <3>1, WindowAssumption DEF Positions
    <3>3. r.highest_seen - (i - k) < 0
      BY <1>1, <2>3, <3>1
    <3>4. i - k \in r.recvd
      BY <3>2, <3>3 DEF PastReceived
    <3> QED BY <3>4, <1>1, <2>1, ShiftExact
  <2> QED BY <2>2, <2>3 DEF PastReceived
<1>3. CASE Classify(r, sn) # "New"
  <2>1. q.highest_seen = r.highest_seen /\ r.recvd \subseteq q.recvd
    BY <1>3 DEF ProcessPacketOrCancel, ReceiverTypeOK
  <2> QED BY <2>1 DEF PastReceived
<1> QED BY <1>2, <1>3

-------------------------------------------------------------------------------
(* The two ends agree.                                                     *)

\* Only numbers that were issued are on the wire, decided or seen.
IssuedFirst ==
    /\ \A m \in net : m.sn <= send.last_sent
    /\ Accepted \cup refused \subseteq 0 .. send.last_sent
    /\ recv.highest_seen <= send.last_sent

\* The inductive invariant, apart from the order of the packets.
Agreement ==
    /\ UnackedInterval(send) /\ FrontOpen(send)
    /\ QueueIntervals(send) /\ FrontBlocked(send)
    /\ send.window_size <= RecvWindowSize
    /\ IssuedFirst
    /\ PastReceived(recv)
    /\ SenderBelievesTruth
    /\ NoWindowViolation
    /\ RetryScheduled

LEMMA InitAgrees == Init => Agreement
<1> SUFFICES ASSUME Init PROVE Agreement
  OBVIOUS
<1>1. /\ send.window_size = 1 /\ send.last_sent = -1 /\ send.last_enqueued = -1
      /\ DOMAIN send.unacked = {} /\ DOMAIN send.blocked = {} /\ DOMAIN send.sent = {}
      /\ send.stats = {}
  BY DEF Init, NewSender
<1>2. recv.highest_seen = -1 /\ recv.recvd = Positions /\ recv.stats = {}
  BY DEF Init, NewReceiver
<1>3. Len(log) = 0 /\ Accepted = {} /\ refused = {} /\ net = {}
  BY DEF Init, Accepted
<1>4. 0 .. -1 = {} /\ 0 - 1 = -1 /\ -1 + 1 = 0 /\ -1 + 1 - 0 = 0
  OBVIOUS
<1>5. UnackedInterval(send)
  <2>1. /\ 0 <= send.last_sent + 1 /\ DOMAIN send.unacked = 0 .. send.last_sent
        /\ send.last_sent + 1 - 0 <= send.window_size
    BY <1>1, <1>4
  <2>2. 0 \in Nat
    OBVIOUS
  <2> QED BY <2>1, <2>2 DEF UnackedInterval
<1>6. QueueIntervals(send)
  BY <1>1, <1>4 DEF QueueIntervals
<1>7. send.window_size <= RecvWindowSize
  BY <1>1, WindowAssumption
<1>8. SenderBelievesTruth
  BY <1>1, <1>4 DEF SenderBelievesTruth
<1> QED BY <1>1, <1>2, <1>3, <1>5, <1>6, <1>7, <1>8
        DEF Agreement, FrontOpen, FrontBlocked, IssuedFirst, PastReceived,
            NoWindowViolation, RetryScheduled, RetryNeeded

LEMMA BelievesDef ==
  SenderBelievesTruth <=>
      /\ SettledNumbers(send) \subseteq Accepted \cup refused
      /\ \A n \in DOMAIN send.unacked :
            send.unacked[n].st = "CancelAcked" => n \in refused \ Accepted
BY DEF SenderBelievesTruth, SettledNumbers

LEMMA IssuesNothing ==
  ASSUME NEW s, SenderTypeOK(s)
  PROVE  Issues(s, s)
<1>1. s.last_sent \in Int
  BY DEF SenderTypeOK
<1>2. s.last_sent + 1 .. s.last_sent = {}
  BY <1>1
<1> QED BY <1>1, <1>2 DEF Issues

\* What the channel sees of a step of the sending end.
Learns(A) == /\ send.last_sent <= send'.last_sent
             /\ SettledNumbers(send') = SettledNumbers(send) \cup A

\* A step of the sending end: the answers in A are recorded, new numbers issued.
LEMMA SenderStepAgrees ==
  ASSUME TypeOK, Agreement, UNCHANGED <<recv, log, refused>>,
         NEW u, SenderTypeOK(u), NEW A, NEW C, Edits(send, u, A, C),
         A \subseteq Accepted \cup refused, C \subseteq refused \ Accepted,
         Issues(u, send'), QueueIntervals(send'), FrontBlocked(send'),
         \A m \in net' : m \in net \/ m.sn <= send'.last_sent,
         RetryScheduled'
  PROVE  Agreement' /\ Learns(A)
<1>1. SenderTypeOK(send) /\ send.last_sent \in Int
  BY DEF TypeOK, SenderTypeOK
<1>2. UnackedInterval(u) /\ FrontOpen(u)
  BY <1>1, EditsShape DEF Agreement
<1>3. UnackedInterval(send') /\ FrontOpen(send')
  BY <1>2, IssuesShape
<1>4. /\ u.last_sent = send.last_sent /\ u.window_size = send.window_size
      /\ send'.window_size = send.window_size
      /\ send.last_sent <= send'.last_sent /\ send'.last_sent \in Int
  BY DEF Edits, Issues
<1>5. Accepted' = Accepted
  BY DEF Accepted
<1>6. net \subseteq Messages /\ \A m \in net : m.sn \in Nat
  BY DEF TypeOK, Messages
<1>7. IssuedFirst'
  <2>1. \A m \in net' : m.sn <= send'.last_sent
    BY <1>1, <1>4, <1>6 DEF Agreement, IssuedFirst
  <2>2. 0 .. send.last_sent \subseteq 0 .. send'.last_sent
    BY <1>1, <1>4
  <2>3. recv.highest_seen \in Int
    BY DEF TypeOK, ReceiverTypeOK
  <2>4. recv.highest_seen <= send'.last_sent
    BY <1>1, <1>4, <2>3 DEF Agreement, IssuedFirst
  <2> QED BY <1>5, <2>1, <2>2, <2>4 DEF Agreement, IssuedFirst
<1>8. SettledNumbers(send') = SettledNumbers(send) \cup A
  <2>1. A \subseteq 0 .. send.last_sent
    BY DEF Agreement, IssuedFirst
  <2>2. SettledNumbers(u) = SettledNumbers(send) \cup A
    BY <1>1, <2>1, EditsSettled
  <2>3. SettledNumbers(send') = SettledNumbers(u)
    BY <1>2, IssuesSettled
  <2> QED BY <2>2, <2>3
<1>9. \A n \in DOMAIN send'.unacked :
         send'.unacked[n].st = "CancelAcked" => n \in refused \ Accepted
  <2> SUFFICES ASSUME NEW n \in DOMAIN send'.unacked, send'.unacked[n].st = "CancelAcked"
               PROVE  n \in refused \ Accepted
    OBVIOUS
  <2>1. n \in DOMAIN u.unacked /\ u.unacked[n].st = "CancelAcked"
    BY DEF Issues
  <2>2. n \in DOMAIN send.unacked /\ (send.unacked[n].st = "CancelAcked" \/ n \in C)
    BY <2>1 DEF Edits, Suffix
  <2> QED BY <2>2 DEF Agreement, SenderBelievesTruth
<1>10. SenderBelievesTruth'
  <2>1. SettledNumbers(send) \subseteq Accepted \cup refused
    BY BelievesDef DEF Agreement
  <2>2. SettledNumbers(send') \subseteq Accepted' \cup refused'
    BY <2>1, <1>5, <1>8
  <2> QED BY <2>2, <1>5, <1>9 DEF SenderBelievesTruth, SettledNumbers
<1>11. NoWindowViolation'
  BY DEF Agreement, NoWindowViolation, Edits, Issues
<1>12. PastReceived(recv')
  BY DEF Agreement
<1>13. send'.window_size <= RecvWindowSize
  BY <1>4 DEF Agreement
<1> QED BY <1>3, <1>4, <1>7, <1>8, <1>10, <1>11, <1>12, <1>13 DEF Agreement, Learns

LEMMA EgressIssued ==
  ASSUME NEW s, NEW S, S \subseteq DOMAIN s.unacked, UnackedInterval(s), SenderTypeOK(s)
  PROVE  \A m \in Egress(s, S) : m.sn <= s.last_sent
<1>1. s.last_sent \in Int
  BY DEF SenderTypeOK
<1>2. \A n \in DOMAIN s.unacked : n <= s.last_sent
  BY <1>1 DEF UnackedInterval
<1> QED BY <1>2 DEF Egress, DataMsg

\* A caller that only edits entries: nobody new to retry, nothing settled.
LEMMA CallerEditAgrees ==
  ASSUME TypeOK, TypeOK', Agreement, UNCHANGED <<recv, log, refused, timer>>,
         Edits(send, send', {}, {}), Requeues(send, send'),
         \A m \in net' : m \in net \/ m.sn <= send.last_sent
  PROVE  Agreement' /\ Learns({})
<1>1. SenderTypeOK(send) /\ SenderTypeOK(send')
  BY DEF TypeOK
<1>2. Issues(send', send') /\ send'.last_sent = send.last_sent
  BY <1>1, IssuesNothing DEF Edits
<1>3. QueueIntervals(send') /\ FrontBlocked(send')
  BY <1>1, RequeuesShape DEF Agreement
<1>4. RetryScheduled'
  BY EditsRetry DEF Agreement, RetryScheduled
<1>5. Agreement' /\ Learns({})
  <2>1. {} \subseteq Accepted \cup refused /\ {} \subseteq refused \ Accepted
    OBVIOUS
  <2> QED BY <1>1, <1>2, <1>3, <1>4, <2>1, SenderStepAgrees
<1> QED BY <1>5

LEMMA SendMgmtAgrees ==
  ASSUME TypeOK, TypeOK', Agreement, NEW p \in Pkts, SendMgmt(p)
  PROVE  Agreement' /\ Learns({})
<1>1. SenderTypeOK(send) /\ SenderTypeOK(send') /\ UnackedInterval(send)
  BY DEF TypeOK, Agreement
<1>2. send' = EnqueuePacket(send, p) /\ UNCHANGED <<recv, log, refused>>
      /\ timer' = NotifyRetry(send, send')
      /\ net' = net \cup Egress(send', DOMAIN send'.unacked \ DOMAIN send.unacked)
  BY DEF SendMgmt
<1>3. RetryScheduled'
  <2>1. timer \in [armed : BOOLEAN, notified : BOOLEAN]
    BY DEF TypeOK
  <2>2. RetryNeeded(send) => timer.armed \/ timer.notified
    BY DEF Agreement, RetryScheduled
  <2>3. RetryNeeded(send') => timer'.armed \/ timer'.notified
    BY <1>2, <2>1, <2>2 DEF NotifyRetry
  <2> QED BY <2>3 DEF RetryScheduled
<1>4. Edits(send, send, {}, {})
  BY SameUnacked
<1>5. Issues(send, send') /\ QueueIntervals(send') /\ FrontBlocked(send')
  <2>1. CASE EnqueueIsQueued(send)
    <3> DEFINE id == send.last_enqueued + 1
    <3>1. /\ send'.last_sent = send.last_sent /\ send'.window_size = send.window_size
          /\ send'.stats = send.stats
          /\ send'.unacked = send.unacked /\ send'.sent = send.sent
          /\ send'.last_enqueued = id
          /\ DOMAIN send'.blocked = DOMAIN send.blocked \cup {id}
          /\ \A i \in DOMAIN send.blocked : i # id => send'.blocked[i] = send.blocked[i]
          /\ send'.blocked[id].st = "Blocked"
      BY <1>1, <1>2, <2>1, EnqueuePacketQueued
    <3>2. Issues(send, send')
      <4>1. Issues(send, send)
        BY <1>1, IssuesNothing
      <4> QED BY <3>1, <4>1 DEF Issues
    <3>3. send.last_enqueued \in Nat \cup {-1}
      BY <1>1 DEF SenderTypeOK
    <3>4. PICK a, b \in Nat : /\ a <= b /\ b <= send.last_enqueued + 1
                              /\ DOMAIN send.blocked = b .. send.last_enqueued
                              /\ DOMAIN send.sent = a .. (b - 1)
      BY DEF Agreement, QueueIntervals
    <3>5. DOMAIN send'.blocked = b .. send'.last_enqueued /\ b <= send'.last_enqueued + 1
      BY <3>1, <3>3, <3>4
    <3>6. QueueIntervals(send')
      BY <3>1, <3>4, <3>5 DEF QueueIntervals
    <3>7. FrontBlocked(send')
      <4> SUFFICES ASSUME NEW i \in DOMAIN send'.blocked, IsFront(send'.blocked, i), i # id
                   PROVE  send'.blocked[i].st = "Blocked"
        BY <3>1 DEF FrontBlocked
      <4>1. i \in DOMAIN send.blocked /\ send'.blocked[i] = send.blocked[i]
        BY <3>1
      <4>2. IsFront(send.blocked, i)
        BY <3>1 DEF IsFront
      <4> QED BY <4>1, <4>2 DEF Agreement, FrontBlocked
    <3> QED BY <3>2, <3>6, <3>7
  <2>2. CASE ~EnqueueIsQueued(send)
    <3>1. /\ Issues(send, send')
          /\ send'.last_enqueued = send.last_enqueued /\ send'.blocked = send.blocked
          /\ send'.sent = send.sent
      BY <1>1, <1>2, <2>2, EnqueuePacketSent
    <3> QED BY <3>1 DEF Agreement, QueueIntervals, FrontBlocked
  <2> QED BY <2>1, <2>2
<1>6. UnackedInterval(send')
  BY <1>1, <1>5, IssuesShape DEF Agreement
<1>7. \A m \in net' : m \in net \/ m.sn <= send'.last_sent
  BY <1>1, <1>2, <1>6, EgressIssued
<1>8. Agreement' /\ Learns({})
  <2>1. {} \subseteq Accepted \cup refused /\ {} \subseteq refused \ Accepted
    OBVIOUS
  <2>2. TypeOK /\ Agreement /\ UNCHANGED <<recv, log, refused>> /\ SenderTypeOK(send)
    BY <1>1, <1>2
  <2> QED BY ONLY <2>1, <2>2, <1>3, <1>4, <1>5, <1>7, SenderStepAgrees
<1> QED BY <1>8

LEMMA RecvAnswerAgrees ==
  ASSUME TypeOK, TypeOK', DecidesOnce, Agreement, NEW m \in net, RecvAnswer(m)
  PROVE  /\ Agreement'
         /\ m.sn \in Accepted \cup refused
         /\ Learns({}) \/ Learns({m.sn})
<1> DEFINE u == ProcessAnswer(m)
<1>1. SenderTypeOK(send) /\ SenderTypeOK(send') /\ SenderTypeOK(u)
  BY ProcessAckType, ProcessCanceledType DEF TypeOK, ProcessAnswer
<1>2. /\ send' = EnqueueBlockedPackets(u) /\ UNCHANGED <<recv, log, refused>>
      /\ timer' = NotifyRetry(u, send')
      /\ net' = net \cup Egress(send', DOMAIN send'.unacked \ DOMAIN u.unacked)
      /\ m.type \in {"Ack", "Canceled"}
  BY DEF RecvAnswer
<1>3. m.sn \in Nat /\ m.sn <= send.last_sent
  BY DEF TypeOK, Messages, Agreement, IssuedFirst
<1>4. /\ m.type = "Ack" => m.sn \in Accepted
      /\ m.type = "Canceled" => m.sn \in refused \ Accepted
  BY DEF DecidesOnce, AnswersTruthful
<1>5. PICK A \in {{}, {m.sn}}, C \in {{}, {m.sn}} :
         Edits(send, u, A, C) /\ C \subseteq refused \ Accepted
  <2>1. FrontOpen(send)
    BY DEF Agreement
  <2>2. CASE m.type = "Ack"
    <3>1. u = ProcessAck(send, m.sn)
      BY <2>2 DEF ProcessAnswer
    <3>2. Edits(send, u, {m.sn}, {}) \/ Edits(send, u, {}, {})
      BY <1>1, <1>3, <2>1, <3>1, ProcessAckEdits
    <3> HIDE DEF u
    <3> QED BY <3>2
  <2>3. CASE m.type # "Ack"
    <3>1. u = ProcessCanceled(send, m.sn) /\ m.type = "Canceled"
      BY <2>3, <1>2 DEF ProcessAnswer
    <3>2. Edits(send, u, {m.sn}, {m.sn}) \/ Edits(send, u, {}, {})
      BY <1>1, <1>3, <2>1, <3>1, ProcessCanceledEdits
    <3>3. {m.sn} \subseteq refused \ Accepted
      BY <3>1, <1>4
    <3> HIDE DEF u
    <3> QED BY <3>2, <3>3
  <2> QED BY <2>2, <2>3
<1>6. Requeues(send, u)
  BY <1>1, <1>2, <1>3, ProcessAckEdits, ProcessCanceledEdits DEF ProcessAnswer, Agreement
<1>7. UnackedInterval(u) /\ FrontOpen(u)
  BY <1>1, <1>5, EditsShape DEF Agreement
<1>8. Issues(u, send') /\ Requeues(u, send')
  BY <1>1, <1>2, <1>7, EnqueueBlockedPacketsEffect
<1> HIDE DEF u
<1>9. QueueIntervals(u) /\ FrontBlocked(u)
  BY <1>1, <1>6, RequeuesShape DEF Agreement
<1>10. QueueIntervals(send') /\ FrontBlocked(send')
  BY <1>1, <1>8, <1>9, RequeuesShape
<1>11. RetryScheduled'
  <2>1. timer \in [armed : BOOLEAN, notified : BOOLEAN]
    BY DEF TypeOK
  <2>2. RetryNeeded(u) => timer.armed \/ timer.notified
    BY <1>5, EditsRetry DEF Agreement, RetryScheduled
  <2>3. RetryNeeded(send') => timer'.armed \/ timer'.notified
    BY <1>2, <2>1, <2>2 DEF NotifyRetry
  <2> QED BY <2>3 DEF RetryScheduled
<1>12. UnackedInterval(send')
  BY <1>1, <1>7, <1>8, IssuesShape
<1>13. \A x \in net' : x \in net \/ x.sn <= send'.last_sent
  BY <1>1, <1>2, <1>12, EgressIssued
<1>14. m.sn \in Accepted \cup refused
  BY <1>2, <1>4
<1>15. A \subseteq Accepted \cup refused
  BY <1>5, <1>14
<1>16. Agreement' /\ Learns(A)
  BY ONLY TypeOK, Agreement, <1>1, <1>2, <1>5, <1>8, <1>10, <1>11, <1>13, <1>15,
          SenderStepAgrees
<1> QED BY <1>5, <1>14, <1>16

LEMMA RetryTickAgrees ==
  ASSUME TypeOK, TypeOK', Agreement, RetryTick
  PROVE  Agreement' /\ Learns({})
<1>1. SenderTypeOK(send) /\ SenderTypeOK(send')
  BY DEF TypeOK
<1>2. /\ send' = AgeRetries(send) /\ UNCHANGED <<recv, log, refused>>
      /\ timer' = [timer EXCEPT !.armed = RetryNeeded(send')]
      /\ net' = net \cup Egress(send', RetryPackets(send'))
                    \cup {CtlMsg("Cancel", n) : n \in RetryCancels(send')}
  BY DEF RetryTick
<1>3. Edits(send, send', {}, {}) /\ Requeues(send, send')
  BY <1>1, <1>2, AgeRetriesEdits
<1>4. Issues(send', send')
  BY <1>1, IssuesNothing
<1>5. QueueIntervals(send') /\ FrontBlocked(send')
  BY <1>1, <1>3, RequeuesShape DEF Agreement
<1>6. RetryScheduled'
  <2>1. timer \in [armed : BOOLEAN, notified : BOOLEAN]
    BY DEF TypeOK
  <2>2. timer'.armed = RetryNeeded(send')
    BY <1>2, <2>1
  <2> QED BY <2>2 DEF RetryScheduled
<1>7. UnackedInterval(send')
  BY <1>1, <1>3, EditsShape DEF Agreement
<1>8. \A x \in net' : x \in net \/ x.sn <= send'.last_sent
  <2>1. RetryPackets(send') \subseteq DOMAIN send'.unacked
        /\ RetryCancels(send') \subseteq DOMAIN send'.unacked
    BY DEF RetryPackets, RetryCancels
  <2>2. \A x \in Egress(send', RetryPackets(send')) : x.sn <= send'.last_sent
    BY <1>1, <1>7, <2>1, EgressIssued
  <2>3. \A n \in RetryCancels(send') : n <= send'.last_sent
    <3>1. send'.last_sent \in Int
      BY <1>1 DEF SenderTypeOK
    <3> QED BY <1>7, <2>1, <3>1 DEF UnackedInterval
  <2> QED BY <1>2, <2>2, <2>3, CtlMsgFields
<1>9. Agreement' /\ Learns({})
  <2>1. {} \subseteq Accepted \cup refused /\ {} \subseteq refused \ Accepted
    OBVIOUS
  <2> QED BY ONLY TypeOK, Agreement, <1>1, <1>2, <1>3, <1>4, <1>5, <1>6, <1>8, <2>1,
                  SenderStepAgrees
<1> QED BY <1>9

\* Callers: each of them edits entries, with at most a Cancel to send.
LEMMA CallerAgrees ==
  ASSUME TypeOK, TypeOK', Agreement,
         \/ \E id : TryCancel(id)
         \/ \E sn : RequestCancel(sn)
         \/ \E id, limit : LimitRetriesQueued(id, limit)
         \/ \E sn, limit : LimitRetriesSent(sn, limit)
         \/ \E sn : Forget(sn)
  PROVE  Agreement' /\ Learns({})
<1>1. SenderTypeOK(send) /\ FrontOpen(send) /\ UnackedInterval(send)
  BY DEF TypeOK, Agreement
<1>2. UNCHANGED <<recv, log, refused, timer>>
  BY DEF TryCancel, RequestCancel, LimitRetriesQueued, LimitRetriesSent, Forget
<1>3. Edits(send, send', {}, {}) /\ Requeues(send, send')
  <2>1. ASSUME NEW id, TryCancel(id) PROVE Edits(send, send', {}, {}) /\ Requeues(send, send')
    BY <1>1, <2>1, CancelQueuedPacketEdits DEF TryCancel
  <2>2. ASSUME NEW sn, RequestCancel(sn) PROVE Edits(send, send', {}, {}) /\ Requeues(send, send')
    BY <1>1, <2>2, CancelSentPacketEdits DEF RequestCancel
  <2>3. ASSUME NEW id, NEW limit, LimitRetriesQueued(id, limit)
        PROVE  Edits(send, send', {}, {}) /\ Requeues(send, send')
    BY <1>1, <2>3, LimitRetriesByIdEdits DEF LimitRetriesQueued
  <2>4. ASSUME NEW sn, NEW limit, LimitRetriesSent(sn, limit)
        PROVE  Edits(send, send', {}, {}) /\ Requeues(send, send')
    BY <1>1, <2>4, LimitRetriesBySeqNumEdits DEF LimitRetriesSent
  <2>5. ASSUME NEW sn, Forget(sn) PROVE Edits(send, send', {}, {}) /\ Requeues(send, send')
    BY <1>1, <2>5, ForgetCanceledPacketEdits DEF Forget
  <2> QED BY <2>1, <2>2, <2>3, <2>4, <2>5
<1>4. \A m \in net' : m \in net \/ m.sn <= send.last_sent
  <2>1. ASSUME NEW sn, RequestCancel(sn) PROVE \A m \in net' : m \in net \/ m.sn <= send.last_sent
    <3>1. sn \in DOMAIN send.unacked /\ net' = net \cup {CtlMsg("Cancel", sn)}
      BY <2>1 DEF RequestCancel, CanCancelSent
    <3>2. send.last_sent \in Int
      BY <1>1 DEF SenderTypeOK
    <3>3. sn <= send.last_sent
      BY <1>1, <3>1, <3>2 DEF UnackedInterval
    <3> QED BY <3>1, <3>3, CtlMsgFields
  <2>2. CASE net' = net
    BY <2>2
  <2> QED BY <2>1, <2>2 DEF TryCancel, RequestCancel, LimitRetriesQueued, LimitRetriesSent, Forget
<1> QED BY ONLY TypeOK, TypeOK', Agreement, <1>2, <1>3, <1>4, CallerEditAgrees

LEMMA ApplyWindowSizeAgrees ==
  ASSUME TypeOK, TypeOK', Agreement, ApplyWindowSize
  PROVE  Agreement' /\ Learns({})
<1>1. /\ send'.window_size = RecvWindowSize
      /\ send'.last_sent = send.last_sent /\ send'.unacked = send.unacked
      /\ send'.last_enqueued = send.last_enqueued /\ send'.blocked = send.blocked
      /\ send'.sent = send.sent /\ send'.stats = send.stats
  BY DEF ApplyWindowSize, AdjustWindowSize, TypeOK, SenderTypeOK
<1>2. UNCHANGED <<recv, net, log, refused, timer>> /\ Accepted' = Accepted
  BY DEF ApplyWindowSize, Accepted
<1>3. send.last_sent \in Int /\ send.window_size \in Int /\ RecvWindowSize \in Int
      /\ send.window_size <= RecvWindowSize
  BY WindowAssumption DEF TypeOK, SenderTypeOK, Agreement
<1>4. UnackedInterval(send')
  <2>1. PICK lo \in Nat : /\ lo <= send.last_sent + 1
                          /\ DOMAIN send.unacked = lo .. send.last_sent
                          /\ send.last_sent + 1 - lo <= send.window_size
    BY DEF Agreement, UnackedInterval
  <2>2. send.last_sent + 1 - lo <= RecvWindowSize
    BY <1>3, <2>1
  <2> QED BY <1>1, <2>1, <2>2 DEF UnackedInterval
<1>5. FrontOpen(send') /\ QueueIntervals(send') /\ FrontBlocked(send')
  BY <1>1 DEF Agreement, FrontOpen, QueueIntervals, FrontBlocked
<1>6. \A n : IsAcked(send', n) <=> IsAcked(send, n)
  BY <1>1 DEF IsAcked
<1>7. SettledNumbers(send') = SettledNumbers(send)
  BY <1>1, <1>6 DEF SettledNumbers
<1>8. SenderBelievesTruth'
  BY <1>1, <1>2, <1>6 DEF Agreement, SenderBelievesTruth
<1>9. RetryScheduled'
  BY <1>1, <1>2 DEF Agreement, RetryScheduled, RetryNeeded
<1>10. IssuedFirst'
  BY <1>1, <1>2 DEF Agreement, IssuedFirst
<1>11. NoWindowViolation' /\ PastReceived(recv') /\ send'.window_size <= RecvWindowSize
  BY <1>1, <1>2, <1>3 DEF Agreement, NoWindowViolation
<1>12. Learns({})
  BY <1>1, <1>3, <1>7 DEF Learns
<1> QED BY <1>4, <1>5, <1>8, <1>9, <1>10, <1>11, <1>12 DEF Agreement

\* No number that was issued lies beyond the receiver's window: the oldest
\* undecided number is still in the sender's.
LEMMA NeverTooNew ==
  ASSUME TypeOK, WindowRemembers, Agreement, NEW n \in Nat, n <= send.last_sent
  PROVE  Classify(recv, n) # "TooNew"
<1> DEFINE old == recv.highest_seen + OldestUnrecvdOffset(recv)
<1>1. /\ ReceiverTypeOK(recv) /\ recv.highest_seen \in Int
      /\ recv.window_size = RecvWindowSize /\ RecvWindowSize \in Nat \ {0}
      /\ refused \in SUBSET Nat /\ Accepted \in SUBSET Nat
  BY AcceptedType, WindowAssumption DEF TypeOK, ReceiverTypeOK
<1>2. send.last_sent \in Nat \cup {-1} /\ send.window_size \in Nat
  BY DEF TypeOK, SenderTypeOK
<1>3. OldestUnrecvdOffset(recv) \in Int /\ old \in Nat /\ old \notin Accepted \cup refused
  BY <1>1, OldestUndecided, WindowRemembersDef DEF Agreement
<1>4. n < old + RecvWindowSize
  <2>1. CASE old <= send.last_sent
    <3>1. ~IsAcked(send, old)
      BY <1>2, <1>3, <2>1 DEF Agreement, SenderBelievesTruth
    <3>2. old \in DOMAIN send.unacked
      BY <2>1, <3>1 DEF IsAcked
    <3>3. PICK lo \in Nat : /\ DOMAIN send.unacked = lo .. send.last_sent
                            /\ send.last_sent + 1 - lo <= send.window_size
      BY DEF Agreement, UnackedInterval
    <3>4. send.window_size <= RecvWindowSize /\ lo <= old
      BY <3>2, <3>3 DEF Agreement
    <3> HIDE DEF old
    <3> QED BY <1>1, <1>2, <1>3, <3>3, <3>4
  <2>2. CASE ~(old <= send.last_sent)
    <3> HIDE DEF old
    <3> QED BY <2>2, <1>1, <1>2, <1>3
  <2> QED BY <2>1, <2>2
<1>5. ~(n - recv.highest_seen >= OldestUnrecvdOffset(recv) + recv.window_size)
  BY <1>1, <1>3, <1>4
<1> QED BY <1>5 DEF Classify

\* A step of the receiving end.
LEMMA ReceiverStepAgrees ==
  ASSUME TypeOK, TypeOK', WindowRemembers, AnswersTruthful', Agreement, ShiftInRange,
         UNCHANGED <<send, timer>>,
         NEW sn \in Nat, sn <= send.last_sent, NEW c \in BOOLEAN,
         recv' = ProcessPacketOrCancel(recv, sn, c),
         Accepted \subseteq Accepted', refused \subseteq refused',
         Accepted' \cup refused' \subseteq Accepted \cup refused \cup {sn},
         \A m \in net' : m \in net \/ m.sn = sn
  PROVE  Agreement'
<1>1. ReceiverTypeOK(recv) /\ PastReceived(recv)
  BY DEF TypeOK, Agreement
<1>2. PastReceived(recv')
  BY <1>1, PastStays
<1>3. recv'.highest_seen \in {recv.highest_seen, sn}
      /\ recv'.stats \subseteq recv.stats \cup {Classify(recv, sn)}
  BY <1>1 DEF ProcessPacketOrCancel, ReceiverTypeOK
<1>4. sn \in 0 .. send.last_sent
  BY DEF TypeOK, SenderTypeOK
<1>5. IssuedFirst'
  BY <1>3, <1>4 DEF Agreement, IssuedFirst
<1>6. NoWindowViolation'
  <2>1. Classify(recv, sn) # "TooNew"
    BY NeverTooNew
  <2> QED BY <1>3, <2>1 DEF Agreement, NoWindowViolation
<1>7. SenderBelievesTruth'
  <2>1. ASSUME NEW n \in DOMAIN send.unacked, send.unacked[n].st = "CancelAcked"
        PROVE  n \in refused' \ Accepted'
    <3>1. n \in refused'
      BY <2>1 DEF Agreement, SenderBelievesTruth
    <3> QED BY <3>1 DEF AnswersTruthful
  <2>2. \A n \in 0 .. send.last_sent : IsAcked(send, n) => n \in Accepted' \cup refused'
    BY DEF Agreement, SenderBelievesTruth
  <2> QED BY <2>1, <2>2 DEF SenderBelievesTruth
<1>8. RetryScheduled'
  BY DEF Agreement, RetryScheduled
<1> QED BY <1>2, <1>5, <1>6, <1>7, <1>8 DEF Agreement

LEMMA RecvDataAgrees ==
  ASSUME TypeOK, TypeOK', DecidesOnce, DecidesOnce', Agreement, ShiftInRange,
         NEW m \in net, RecvData(m)
  PROVE  Agreement'
<1>1. PICK sn \in Nat, p \in Pkts : sn = m.sn /\ p = m.pkt
  BY DEF TypeOK, RecvData, Messages, CtlTypes
<1>2. sn <= send.last_sent
  BY <1>1 DEF Agreement, IssuedFirst
<1>3. recv' = ProcessPacketOrCancel(recv, sn, FALSE) /\ UNCHANGED <<send, timer, refused>>
  BY <1>1 DEF RecvData
<1>4. \A x \in net' : x \in net \/ x.sn = sn
  <2>1. \A x \in net' : x \in net \/ x = CtlMsg(Disposition(recv, sn, FALSE), sn)
    BY <1>1 DEF RecvData
  <2> QED BY <2>1, CtlMsgFields
<1>5. Accepted' = Accepted \/ Accepted' = Accepted \cup {sn}
  <2> DEFINE e == [sn |-> sn, pkt |-> p]
  <2>1. log' = log \/ log' = Append(log, e)
    BY <1>1 DEF RecvData
  <2>2. e \in [sn : Nat, pkt : Pkts] /\ e.sn = sn
    OBVIOUS
  <2>3. CASE log' = log
    BY <2>3 DEF Accepted
  <2>4. CASE log' = Append(log, e)
    <3> HIDE DEF e
    <3> QED BY <2>2, <2>4, AcceptedAppend
  <2> QED BY <2>1, <2>3, <2>4
<1>6. /\ Accepted \subseteq Accepted' /\ refused \subseteq refused'
      /\ Accepted' \cup refused' \subseteq Accepted \cup refused \cup {sn}
  BY <1>3, <1>5
<1>7. WindowRemembers /\ AnswersTruthful'
  BY DEF DecidesOnce
<1> QED BY ONLY TypeOK, TypeOK', Agreement, ShiftInRange, sn \in Nat, <1>2, <1>3, <1>4,
                <1>6, <1>7, ReceiverStepAgrees

LEMMA RecvCancelAgrees ==
  ASSUME TypeOK, TypeOK', DecidesOnce, DecidesOnce', Agreement, ShiftInRange,
         NEW m \in net, RecvCancel(m)
  PROVE  Agreement'
<1>1. PICK sn \in Nat : sn = m.sn
  BY DEF TypeOK, Messages
<1>2. sn <= send.last_sent
  BY <1>1 DEF Agreement, IssuedFirst
<1>3. recv' = ProcessPacketOrCancel(recv, sn, TRUE) /\ UNCHANGED <<send, timer, log>>
  BY <1>1 DEF RecvCancel
<1>4. \A x \in net' : x \in net \/ x.sn = sn
  <2>1. \A x \in net' : x \in net \/ x = CtlMsg(Disposition(recv, sn, TRUE), sn)
    BY <1>1 DEF RecvCancel
  <2> QED BY <2>1, CtlMsgFields
<1>5. Accepted' = Accepted /\ (refused' = refused \/ refused' = refused \cup {sn})
  BY <1>1 DEF RecvCancel, Accepted
<1>6. /\ Accepted \subseteq Accepted' /\ refused \subseteq refused'
      /\ Accepted' \cup refused' \subseteq Accepted \cup refused \cup {sn}
  BY <1>5
<1>7. WindowRemembers /\ AnswersTruthful'
  BY DEF DecidesOnce
<1> QED BY ONLY TypeOK, TypeOK', Agreement, ShiftInRange, sn \in Nat, <1>2, <1>3, <1>4,
                <1>6, <1>7, ReceiverStepAgrees

\* Steps that leave both ends alone.
LEMMA IdleStepAgrees ==
  ASSUME TypeOK, Agreement, UNCHANGED <<send, recv, log, refused>>, net' \subseteq net,
         RetryScheduled'
  PROVE  Agreement'
<1>1. Accepted' = Accepted
  BY DEF Accepted
<1>2. SenderBelievesTruth' /\ IssuedFirst' /\ NoWindowViolation'
  BY <1>1 DEF Agreement, SenderBelievesTruth, IssuedFirst, NoWindowViolation
<1> QED BY <1>2 DEF Agreement

LEMMA IdleAgrees ==
  ASSUME TypeOK, Agreement,
         RetryTimerReset \/ (\E m \in net : Lose(m)) \/ HandleNext \/ UNCHANGED vars
  PROVE  Agreement' /\ UNCHANGED <<send, log, refused>>
<1>1. CASE RetryTimerReset
  <2>1. RetryScheduled'
    BY <1>1 DEF RetryTimerReset, RetryScheduled
  <2> QED BY <1>1, <2>1, IdleStepAgrees DEF RetryTimerReset
<1>2. CASE (\E m \in net : Lose(m)) \/ HandleNext \/ UNCHANGED vars
  <2>1. UNCHANGED <<send, recv, log, refused, timer>> /\ net' \subseteq net
    BY <1>2 DEF Lose, HandleNext, vars
  <2>2. RetryScheduled'
    BY <2>1 DEF Agreement, RetryScheduled
  <2> QED BY <2>1, <2>2, IdleStepAgrees
<1> QED BY <1>1, <1>2

LEMMA StepAgrees ==
  ASSUME TypeOK, TypeOK', DecidesOnce, DecidesOnce', Agreement, ShiftInRange, [Next]_vars
  PROVE  Agreement'
<1>1. ASSUME NEW p \in Pkts, SendMgmt(p) PROVE Agreement'
  BY <1>1, SendMgmtAgrees
<1>2. CASE \/ \E id : TryCancel(id)
           \/ \E sn : RequestCancel(sn)
           \/ \E id, limit : LimitRetriesQueued(id, limit)
           \/ \E sn, limit : LimitRetriesSent(sn, limit)
           \/ \E sn : Forget(sn)
  BY <1>2, CallerAgrees
<1>3. CASE Caller
  BY <1>1, <1>2, <1>3 DEF Caller
<1>4. CASE ApplyWindowSize
  BY <1>4, ApplyWindowSizeAgrees
<1>5. ASSUME NEW m \in net, RecvData(m) PROVE Agreement'
  BY <1>5, RecvDataAgrees
<1>6. ASSUME NEW m \in net, RecvCancel(m) PROVE Agreement'
  BY <1>6, RecvCancelAgrees
<1>7. ASSUME NEW m \in net, RecvAnswer(m) PROVE Agreement'
  BY <1>7, RecvAnswerAgrees
<1>8. CASE RetryTick
  BY <1>8, RetryTickAgrees
<1>9. CASE RetryTimerReset \/ (\E m \in net : Lose(m)) \/ HandleNext \/ UNCHANGED vars
  BY <1>9, IdleAgrees
<1> QED BY <1>3, <1>4, <1>5, <1>6, <1>7, <1>8, <1>9 DEF Next

LEMMA AlwaysAgrees == ShiftInRange => (Spec => [](TypeOK /\ DecidesOnce /\ Agreement))
<1> SUFFICES ASSUME ShiftInRange PROVE Spec => [](TypeOK /\ DecidesOnce /\ Agreement)
  OBVIOUS
<1>1. Init => TypeOK /\ DecidesOnce /\ Agreement
  BY InitType, InitDecides, InitAgrees
<1>2. TypeOK /\ DecidesOnce /\ Agreement /\ [Next]_vars
        => (TypeOK /\ DecidesOnce /\ Agreement)'
  <2> SUFFICES ASSUME TypeOK, DecidesOnce, Agreement, [Next]_vars
               PROVE  TypeOK' /\ DecidesOnce' /\ Agreement'
    OBVIOUS
  <2>1. TypeOK' /\ DecidesOnce'
    BY StepType, StepDecides
  <2> QED BY <2>1, StepAgrees
<1> QED BY <1>1, <1>2, PTL DEF Spec

-------------------------------------------------------------------------------
(* Packets keep their order.                                               *)

\* The packets that sender `s` or the messages of M say have a sequence number.
Numbered(s, M) == {m \in M : m.type = "Data"}
                  \cup {DataMsg(n, s.unacked[n].pkt) : n \in DOMAIN s.unacked}

\* The place in `submitted` of the packet with ID i: the packets of the blocked
\* queue are the last ones submitted.
Place(s, i) == Len(submitted) - (s.last_enqueued - i)

\* The numbered packets N precede the blocked ones, and are in order.
Ordered(s, N) ==
    /\ \A j, k \in 1 .. Len(submitted) : submitted[j] = submitted[k] => j = k
    /\ \A i \in DOMAIN s.blocked : /\ Place(s, i) \in 1 .. Len(submitted)
                                   /\ submitted[Place(s, i)] = s.blocked[i].pkt
    /\ \A m \in N : \E k \in 1 .. Len(submitted) :
          /\ submitted[k] = m.pkt
          /\ \A i \in DOMAIN s.blocked : k < Place(s, i)
    /\ \A m1, m2 \in N : \A k1, k2 \in 1 .. Len(submitted) :
          submitted[k1] = m1.pkt /\ submitted[k2] = m2.pkt => (m1.sn < m2.sn <=> k1 < k2)

InOrder == Ordered(send, Numbered(send, net))

LEMMA DataMsgFields ==
  \A n, p : DataMsg(n, p).type = "Data" /\ DataMsg(n, p).sn = n /\ DataMsg(n, p).pkt = p
BY DEF DataMsg

LEMMA InitOrdered == Init => InOrder
<1> SUFFICES ASSUME Init PROVE InOrder
  OBVIOUS
<1>1. DOMAIN send.unacked = {} /\ DOMAIN send.blocked = {} /\ net = {} /\ Len(submitted) = 0
  BY DEF Init, NewSender
<1>2. Numbered(send, net) = {}
  BY <1>1 DEF Numbered
<1> QED BY <1>1, <1>2 DEF InOrder, Ordered

\* What is sent again is numbered already.
LEMMA NumberedKnown ==
  ASSUME NEW s, NEW M, NEW N,
         \A m \in M : m.type = "Data" =>
             m \in N \/ \E n \in DOMAIN s.unacked : m = DataMsg(n, s.unacked[n].pkt)
  PROVE  Numbered(s, M) \subseteq Numbered(s, N)
BY DEF Numbered

LEMMA NumberedEdits ==
  ASSUME NEW s, NEW t, NEW A, NEW C, Edits(s, t, A, C), NEW M
  PROVE  Numbered(t, M) \subseteq Numbered(s, M)
<1>1. \A n \in DOMAIN t.unacked : /\ n \in DOMAIN s.unacked
                                  /\ t.unacked[n].pkt = s.unacked[n].pkt
  BY DEF Edits, Suffix
<1> QED BY <1>1 DEF Numbered

LEMMA OrderedRequeues ==
  ASSUME NEW s, NEW t, NEW N, NEW P, Ordered(s, N), Requeues(s, t), P \subseteq N
  PROVE  Ordered(t, P)
<1>1. t.last_enqueued = s.last_enqueued /\ DOMAIN t.blocked \subseteq DOMAIN s.blocked
      /\ \A i \in DOMAIN t.blocked : t.blocked[i].pkt = s.blocked[i].pkt
  BY DEF Requeues, Suffix
<1>2. \A i : Place(t, i) = Place(s, i)
  BY <1>1 DEF Place
<1>3. \A i \in DOMAIN t.blocked : /\ Place(t, i) \in 1 .. Len(submitted)
                                  /\ submitted[Place(t, i)] = t.blocked[i].pkt
  BY <1>1, <1>2 DEF Ordered
<1>4. \A m \in P : \E k \in 1 .. Len(submitted) :
          /\ submitted[k] = m.pkt
          /\ \A i \in DOMAIN t.blocked : k < Place(t, i)
  BY <1>1, <1>2 DEF Ordered
<1> HIDE DEF Place
<1> QED BY <1>3, <1>4 DEF Ordered

\* Unblocked packets come after the numbered ones and before the blocked ones.
LEMMA OrderedUnblocks ==
  ASSUME NEW s, SenderTypeOK(s), UnackedInterval(s), NEW t, SenderTypeOK(t),
         t = EnqueueBlockedPackets(s), submitted \in Seq(Pkts),
         NEW M, \A m \in Numbered(s, M) : m.sn \in Nat /\ m.sn <= s.last_sent,
         Ordered(s, Numbered(s, M))
  PROVE  Ordered(t, Numbered(t, M))
<1> DEFINE new == s.last_sent + 1 .. t.last_sent
           fresh == {DataMsg(n, t.unacked[n].pkt) : n \in new}
           old == Numbered(s, M)
<1>1. Issues(s, t) /\ Requeues(s, t)
  BY EnqueueBlockedPacketsEffect
<1>2. PICK g \in [new -> DOMAIN s.blocked \ DOMAIN t.blocked] :
               /\ \A m \in new : t.unacked[m].pkt = s.blocked[g[m]].pkt
               /\ \A m1, m2 \in new : m1 < m2 => g[m1] < g[m2]
  BY EnqueueBlockedPacketsEffect
<1>3. s.last_sent \in Int /\ t.last_sent \in Int /\ new \subseteq Int
      /\ DOMAIN s.blocked \subseteq Nat /\ s.last_enqueued \in Int /\ Len(submitted) \in Nat
  BY DEF SenderTypeOK
<1>4. Numbered(t, M) \subseteq old \cup fresh
  <2>1. \A n \in DOMAIN t.unacked : \/ n \in DOMAIN s.unacked /\ t.unacked[n] = s.unacked[n]
                                    \/ n \in new
    BY <1>1 DEF Issues
  <2> QED BY <2>1 DEF Numbered
<1>5. Ordered(t, old)
  BY <1>1, OrderedRequeues
<1>6. \A n \in new : /\ g[n] \in DOMAIN s.blocked /\ g[n] \in Nat
                     /\ Place(s, g[n]) \in 1 .. Len(submitted)
                     /\ submitted[Place(s, g[n])] = t.unacked[n].pkt
  BY <1>2, <1>3 DEF Ordered
<1>7. \A i : Place(t, i) = Place(s, i)
  BY <1>1 DEF Requeues, Place
<1>8. \A n \in new : \A i \in DOMAIN t.blocked : Place(s, g[n]) < Place(t, i)
  <2> SUFFICES ASSUME NEW n \in new, NEW i \in DOMAIN t.blocked
               PROVE  Place(s, g[n]) < Place(s, i)
    BY <1>7
  <2>1. i \in DOMAIN s.blocked /\ ~(i <= g[n])
    BY <1>1, <1>2, <1>6 DEF Requeues, Suffix
  <2>2. g[n] < i /\ i \in Nat
    BY <1>3, <1>6, <2>1
  <2> QED BY <1>3, <1>6, <2>2 DEF Place
<1>9. \A n1, n2 \in new : n1 < n2 => Place(s, g[n1]) < Place(s, g[n2])
  BY <1>2, <1>3, <1>6 DEF Place
<1>10. \A m \in old : \A n \in new : \A k \in 1 .. Len(submitted) :
          submitted[k] = m.pkt => k < Place(s, g[n])
  <2> SUFFICES ASSUME NEW m \in old, NEW n \in new, NEW k \in 1 .. Len(submitted),
                      submitted[k] = m.pkt
               PROVE  k < Place(s, g[n])
    OBVIOUS
  <2>1. PICK k1 \in 1 .. Len(submitted) : /\ submitted[k1] = m.pkt
                                          /\ \A i \in DOMAIN s.blocked : k1 < Place(s, i)
    BY DEF Ordered
  <2>2. k1 = k
    BY <2>1 DEF Ordered
  <2> QED BY <2>1, <2>2, <1>6
<1> HIDE DEF Place, new, old
<1>11. \A j, k \in 1 .. Len(submitted) : submitted[j] = submitted[k] => j = k
  BY DEF Ordered
<1>12. \A m \in fresh : \E n \in new :
          m.sn = n /\ n \in Int /\ submitted[Place(s, g[n])] = m.pkt
          /\ Place(s, g[n]) \in 1 .. Len(submitted)
  BY <1>3, <1>6, DataMsgFields
<1>13. \A m \in old \cup fresh : \E k \in 1 .. Len(submitted) :
          /\ submitted[k] = m.pkt
          /\ \A i \in DOMAIN t.blocked : k < Place(t, i)
  <2>1. ASSUME NEW m \in fresh
        PROVE  \E k \in 1 .. Len(submitted) : /\ submitted[k] = m.pkt
                                              /\ \A i \in DOMAIN t.blocked : k < Place(t, i)
    BY <1>8, <1>12
  <2>2. ASSUME NEW m \in old
        PROVE  \E k \in 1 .. Len(submitted) : /\ submitted[k] = m.pkt
                                              /\ \A i \in DOMAIN t.blocked : k < Place(t, i)
    BY <1>5 DEF Ordered
  <2> QED BY <2>1, <2>2
<1>14. \A n \in new, x \in Nat : x <= s.last_sent => x < n
  BY <1>3 DEF new
<1>15. ASSUME NEW m1 \in old \cup fresh, NEW m2 \in old \cup fresh,
              NEW k1 \in 1 .. Len(submitted), NEW k2 \in 1 .. Len(submitted),
              submitted[k1] = m1.pkt, submitted[k2] = m2.pkt
       PROVE  m1.sn < m2.sn <=> k1 < k2
  <2>1. CASE m1 \in old /\ m2 \in old
    BY <1>5, <1>15, <2>1 DEF Ordered
  <2>2. CASE m1 \in old /\ m2 \in fresh
    <3>1. PICK n \in new : m2.sn = n /\ submitted[Place(s, g[n])] = m2.pkt
                           /\ Place(s, g[n]) \in 1 .. Len(submitted)
      BY <1>12, <2>2
    <3>2. k2 = Place(s, g[n])
      BY <1>11, <1>15, <3>1
    <3>3. k1 < k2
      BY <1>10, <1>15, <2>2, <3>2
    <3>4. m1.sn < m2.sn
      BY <1>14, <2>2, <3>1 DEF old
    <3> QED BY <3>3, <3>4
  <2>3. CASE m1 \in fresh /\ m2 \in old
    <3>1. PICK n \in new : m1.sn = n /\ n \in Int /\ submitted[Place(s, g[n])] = m1.pkt
                           /\ Place(s, g[n]) \in 1 .. Len(submitted)
      BY <1>12, <2>3
    <3>2. k1 = Place(s, g[n])
      BY <1>11, <1>15, <3>1
    <3>3. k2 < k1
      BY <1>10, <1>15, <2>3, <3>2
    <3>4. m2.sn < m1.sn /\ m2.sn \in Nat
      BY <1>14, <2>3, <3>1 DEF old
    <3> QED BY <3>1, <3>3, <3>4, <1>3
  <2>4. CASE m1 \in fresh /\ m2 \in fresh
    <3>1. PICK n1 \in new : m1.sn = n1 /\ n1 \in Int /\ submitted[Place(s, g[n1])] = m1.pkt
                           /\ Place(s, g[n1]) \in 1 .. Len(submitted)
      BY <1>12, <2>4
    <3>2. PICK n2 \in new : m2.sn = n2 /\ n2 \in Int /\ submitted[Place(s, g[n2])] = m2.pkt
                           /\ Place(s, g[n2]) \in 1 .. Len(submitted)
      BY <1>12, <2>4
    <3>3. k1 = Place(s, g[n1]) /\ k2 = Place(s, g[n2])
      BY <1>11, <1>15, <3>1, <3>2
    <3>4. n1 < n2 => k1 < k2
      BY <1>9, <3>3
    <3>5. n2 < n1 => k2 < k1
      BY <1>9, <3>3
    <3>6. n1 = n2 => k1 = k2
      BY <3>3
    <3> QED BY <3>1, <3>2, <3>4, <3>5, <3>6, <1>3
  <2> QED BY <2>1, <2>2, <2>3, <2>4
<1>16. Ordered(t, old \cup fresh)
  BY <1>5, <1>11, <1>13, <1>15 DEF Ordered
<1>17. Requeues(t, t)
  BY SameQueues, SuffixItself
<1> QED BY <1>4, <1>16, <1>17, OrderedRequeues

\* Everything numbered was issued.
LEMMA NumberedIssued ==
  ASSUME NEW s, SenderTypeOK(s), UnackedInterval(s), NEW M, M \subseteq Messages,
         \A m \in M : m.sn <= s.last_sent
  PROVE  \A m \in Numbered(s, M) : m.sn \in Nat /\ m.sn <= s.last_sent
<1>1. \A m \in M : m.sn \in Nat
  BY DEF Messages
<1>2. s.last_sent \in Int
  BY DEF SenderTypeOK
<1>3. \A n \in DOMAIN s.unacked : n \in Nat /\ n <= s.last_sent
  BY <1>2 DEF UnackedInterval
<1> QED BY <1>1, <1>3, DataMsgFields DEF Numbered

\* A step that numbers no packet.
LEMMA EditKeepsOrder ==
  ASSUME InOrder, UNCHANGED submitted, Requeues(send, send'),
         NEW A, NEW C, Edits(send, send', A, C),
         \A m \in net' : m.type = "Data" =>
             m \in net \/ \E n \in DOMAIN send'.unacked : m = DataMsg(n, send'.unacked[n].pkt)
  PROVE  InOrder'
<1>1. Numbered(send', net') \subseteq Numbered(send', net)
  BY NumberedKnown
<1>2. Numbered(send', net) \subseteq Numbered(send, net)
  BY NumberedEdits
<1>3. Ordered(send', Numbered(send', net'))
  BY <1>1, <1>2, OrderedRequeues DEF InOrder
<1> QED BY <1>3 DEF InOrder, Ordered, Place

LEMMA RecvAnswerKeepsOrder ==
  ASSUME TypeOK, TypeOK', Agreement, InOrder, NEW m \in net, RecvAnswer(m)
  PROVE  InOrder'
<1> DEFINE u == ProcessAnswer(m)
<1>1. SenderTypeOK(send) /\ SenderTypeOK(send') /\ SenderTypeOK(u)
      /\ submitted \in Seq(Pkts) /\ net \subseteq Messages
  BY ProcessAckType, ProcessCanceledType DEF TypeOK, ProcessAnswer
<1>2. /\ send' = EnqueueBlockedPackets(u) /\ UNCHANGED submitted
      /\ net' = net \cup Egress(send', DOMAIN send'.unacked \ DOMAIN u.unacked)
      /\ m.type \in {"Ack", "Canceled"}
  BY DEF RecvAnswer
<1>3. m.sn \in Nat /\ m.sn <= send.last_sent /\ FrontOpen(send) /\ UnackedInterval(send)
  BY DEF TypeOK, Messages, Agreement, IssuedFirst
<1>4. Requeues(send, u) /\ \E A, C : Edits(send, u, A, C)
  BY <1>1, <1>2, <1>3, ProcessAckEdits, ProcessCanceledEdits DEF ProcessAnswer
<1> HIDE DEF u
<1>5. PICK A, C : Edits(send, u, A, C)
  BY <1>4
<1>6. UnackedInterval(u) /\ u.last_sent = send.last_sent
  BY <1>1, <1>3, <1>5, EditsShape DEF Edits
<1>7. Ordered(u, Numbered(u, net))
  <2>1. Numbered(u, net) \subseteq Numbered(send, net)
    BY <1>5, NumberedEdits
  <2> QED BY <2>1, <1>4, OrderedRequeues DEF InOrder
<1>8. \A x \in Numbered(u, net) : x.sn \in Nat /\ x.sn <= u.last_sent
  BY <1>1, <1>6, NumberedIssued DEF Agreement, IssuedFirst
<1>9. Ordered(send', Numbered(send', net))
  BY ONLY <1>1, <1>2, <1>6, <1>7, <1>8, OrderedUnblocks
<1>10. Numbered(send', net') \subseteq Numbered(send', net)
  <2>1. \A x \in net' : x \in net
           \/ \E n \in DOMAIN send'.unacked : x = DataMsg(n, send'.unacked[n].pkt)
    BY <1>2 DEF Egress
  <2> QED BY <2>1, NumberedKnown
<1>11. Ordered(send', Numbered(send', net'))
  BY <1>9, <1>10, OrderedRequeues, SameQueues, SuffixItself
<1>12. submitted' = submitted
  BY <1>2
<1> QED BY ONLY <1>11, <1>12 DEF InOrder, Ordered, Place

LEMMA SendMgmtKeepsOrder ==
  ASSUME TypeOK, TypeOK', Agreement, InOrder, NEW p \in Pkts, SendMgmt(p)
  PROVE  InOrder'
<1> DEFINE L == Len(submitted)
           num == Numbered(send, net)
           num1 == Numbered(send', net')
<1>1. /\ SenderTypeOK(send) /\ SenderTypeOK(send') /\ submitted \in Seq(Pkts)
      /\ net \subseteq Messages /\ UnackedInterval(send)
      /\ \A m \in net : m.sn <= send.last_sent
  BY DEF TypeOK, Agreement, IssuedFirst
<1>2. /\ send' = EnqueuePacket(send, p) /\ submitted' = Append(submitted, p)
      /\ net' = net \cup Egress(send', DOMAIN send'.unacked \ DOMAIN send.unacked)
      /\ \A i \in 1 .. L : submitted[i] # p
  BY DEF SendMgmt
<1>3. /\ L \in Nat /\ Len(submitted') = L + 1
      /\ \A i \in 1 .. L : submitted'[i] = submitted[i]
      /\ submitted'[L + 1] = p
  BY <1>1, <1>2
<1>4. 1 .. L + 1 = (1 .. L) \cup {L + 1}
  BY <1>3
<1>5. \A j, k \in 1 .. L + 1 : submitted'[j] = submitted'[k] => j = k
  BY <1>2, <1>3, <1>4 DEF InOrder, Ordered
<1>6. \A m \in num : m.sn \in Nat /\ m.sn <= send.last_sent
  BY <1>1, NumberedIssued
<1>7. num1 \subseteq Numbered(send', net)
  <2>1. \A x \in net' : x \in net
           \/ \E n \in DOMAIN send'.unacked : x = DataMsg(n, send'.unacked[n].pkt)
    BY <1>2 DEF Egress
  <2> QED BY <2>1, NumberedKnown
<1>8. send.last_enqueued \in Int /\ send.last_sent \in Int /\ DOMAIN send.blocked \subseteq Nat
  BY <1>1 DEF SenderTypeOK
<1>9. \A m \in num : \A k \in 1 .. L + 1 : submitted'[k] = m.pkt => k \in 1 .. L
  <2> SUFFICES ASSUME NEW m \in num, submitted'[L + 1] = m.pkt PROVE FALSE
    BY <1>4
  <2>1. \E k \in 1 .. L : submitted[k] = m.pkt
    BY DEF InOrder, Ordered
  <2> QED BY <2>1, <1>2, <1>3
<1>10. CASE EnqueueIsQueued(send)
  <2> DEFINE id == send.last_enqueued + 1
  <2>1. /\ send'.unacked = send.unacked /\ send'.last_enqueued = id
        /\ DOMAIN send'.blocked = DOMAIN send.blocked \cup {id}
        /\ \A i \in DOMAIN send.blocked : i # id => send'.blocked[i] = send.blocked[i]
        /\ send'.blocked[id].pkt = p
    BY <1>1, <1>2, <1>10, EnqueuePacketQueued
  <2>2. num1 \subseteq num
    BY <1>7, <2>1 DEF Numbered
  <2>3. \A i \in DOMAIN send.blocked : i # id
    BY <1>8 DEF Agreement, QueueIntervals
  <2> DEFINE place(i) == Len(submitted') - (send'.last_enqueued - i)
  <2>4. place(id) = L + 1 /\ \A i \in DOMAIN send.blocked : place(i) = Place(send, i)
    <3>1. \A i \in Int : place(i) = L + 1 - (send.last_enqueued + 1 - i)
      BY <1>3, <1>8, <2>1
    <3>2. \A i \in DOMAIN send.blocked : i \in Nat
      BY <1>8
    <3>3. \A i \in Int : L + 1 - (send.last_enqueued + 1 - i) = L - (send.last_enqueued - i)
      <4>1. L \in Int
        BY <1>3
      <4> HIDE DEF L
      <4> QED BY ONLY <4>1, <1>8
    <3>4. id \in Int /\ L - (send.last_enqueued - id) = L + 1
      BY <1>3, <1>8
    <3>5. \A i \in DOMAIN send.blocked : Place(send, i) = L - (send.last_enqueued - i)
      BY DEF Place
    <3> HIDE DEF place, L, id
    <3>6. place(id) = L + 1
      BY <3>1, <3>3, <3>4
    <3> QED BY <3>1, <3>2, <3>3, <3>5, <3>6
  <2>5. \A i \in DOMAIN send'.blocked : /\ place(i) \in 1 .. L + 1
                                        /\ submitted'[place(i)] = send'.blocked[i].pkt
    <3>1. ASSUME NEW i \in DOMAIN send.blocked
          PROVE  /\ place(i) \in 1 .. L + 1
                 /\ submitted'[place(i)] = send'.blocked[i].pkt
      <4>1. Place(send, i) \in 1 .. L /\ submitted[Place(send, i)] = send.blocked[i].pkt
        BY DEF InOrder, Ordered
      <4> HIDE DEF place
      <4> QED BY <4>1, <1>3, <1>4, <2>1, <2>3, <2>4
    <3>2. /\ place(id) \in 1 .. L + 1
          /\ submitted'[place(id)] = send'.blocked[id].pkt
      BY <1>3, <1>4, <2>1, <2>4
    <3> HIDE DEF place, id
    <3> QED BY <3>1, <3>2, <2>1
  <2> HIDE DEF place
  <2>6. \A m \in num1 : \E k \in 1 .. L + 1 :
           /\ submitted'[k] = m.pkt
           /\ \A i \in DOMAIN send'.blocked : k < place(i)
    <3> SUFFICES ASSUME NEW m \in num
                 PROVE  \E k \in 1 .. L + 1 : /\ submitted'[k] = m.pkt
                                              /\ \A i \in DOMAIN send'.blocked : k < place(i)
      BY <2>2
    <3>1. PICK k \in 1 .. L : /\ submitted[k] = m.pkt
                              /\ \A i \in DOMAIN send.blocked : k < Place(send, i)
      BY DEF InOrder, Ordered
    <3>2. k < L + 1
      BY <1>3
    <3> HIDE DEF id
    <3> QED BY <3>1, <3>2, <1>3, <1>4, <2>1, <2>4
  <2>7. \A m1, m2 \in num1 : \A k1, k2 \in 1 .. L + 1 :
           submitted'[k1] = m1.pkt /\ submitted'[k2] = m2.pkt => (m1.sn < m2.sn <=> k1 < k2)
    BY <1>3, <1>9, <2>2 DEF InOrder, Ordered
  <2>8. InOrder' <=>
           /\ \A j, k \in 1 .. Len(submitted') : submitted'[j] = submitted'[k] => j = k
           /\ \A i \in DOMAIN send'.blocked :
                 /\ Len(submitted') - (send'.last_enqueued - i) \in 1 .. Len(submitted')
                 /\ submitted'[Len(submitted') - (send'.last_enqueued - i)]
                        = send'.blocked[i].pkt
           /\ \A m \in num1 : \E k \in 1 .. Len(submitted') :
                 /\ submitted'[k] = m.pkt
                 /\ \A i \in DOMAIN send'.blocked :
                       k < Len(submitted') - (send'.last_enqueued - i)
           /\ \A m1, m2 \in num1 : \A k1, k2 \in 1 .. Len(submitted') :
                 submitted'[k1] = m1.pkt /\ submitted'[k2] = m2.pkt
                    => (m1.sn < m2.sn <=> k1 < k2)
    BY DEF InOrder, Ordered, Place
  <2>9. \A i : Len(submitted') - (send'.last_enqueued - i) = place(i)
    BY DEF place
  <2> HIDE DEF num1, id
  <2> QED BY <1>3, <1>5, <2>5, <2>6, <2>7, <2>8, <2>9
<1>11. CASE ~EnqueueIsQueued(send)
  <2> DEFINE sn == send.last_sent + 1
             fresh == DataMsg(sn, p)
  <2>1. /\ Issues(send, send') /\ send'.last_sent = sn /\ send'.unacked[sn].pkt = p
        /\ DOMAIN send'.blocked = {}
    <3>1. /\ Issues(send, send')
          /\ send'.last_sent = send.last_sent + 1 /\ send'.unacked[send'.last_sent].pkt = p
          /\ send'.blocked = send.blocked /\ DOMAIN send.blocked = {}
      BY <1>1, <1>2, <1>11, EnqueuePacketSent
    <3> QED BY <3>1
  <2>2. num1 \subseteq num \cup {fresh}
    <3>1. send.last_sent + 1 .. send'.last_sent = {sn}
      BY <1>8, <2>1
    <3>2. \A n \in DOMAIN send'.unacked :
             \/ n \in DOMAIN send.unacked /\ send'.unacked[n] = send.unacked[n]
             \/ n = sn
      BY <2>1, <3>1 DEF Issues
    <3>3. Numbered(send', net) \subseteq num \cup {fresh}
      <4> HIDE DEF sn
      <4> QED BY <3>2, <2>1 DEF Numbered
    <3> QED BY <3>3, <1>7
  <2>3. fresh.sn = sn /\ fresh.pkt = p /\ sn \in Int
    BY <1>8, DataMsgFields
  <2>4. \A m \in num : m.sn < sn
    BY <1>6, <1>8
  <2> HIDE DEF fresh, sn
  <2>5. \A m \in num \cup {fresh} : \E k \in 1 .. L + 1 : submitted'[k] = m.pkt
    <3>1. \A m \in num : \E k \in 1 .. L : submitted[k] = m.pkt
      BY DEF InOrder, Ordered
    <3> QED BY <3>1, <1>3, <1>4, <2>3
  <2>6. \A k \in 1 .. L + 1 : submitted'[k] = fresh.pkt => k = L + 1
    BY <1>2, <1>3, <1>4, <2>3
  <2>7. ASSUME NEW m1 \in num \cup {fresh}, NEW m2 \in num \cup {fresh},
               NEW k1 \in 1 .. L + 1, NEW k2 \in 1 .. L + 1,
               submitted'[k1] = m1.pkt, submitted'[k2] = m2.pkt
        PROVE  m1.sn < m2.sn <=> k1 < k2
    <3>1. CASE m1 \in num /\ m2 \in num
      <4>1. k1 \in 1 .. L /\ k2 \in 1 .. L
        BY <1>9, <2>7, <3>1
      <4> QED BY <1>3, <2>7, <3>1, <4>1 DEF InOrder, Ordered
    <3>2. CASE m1 \in num /\ m2 = fresh
      <4>1. k1 \in 1 .. L /\ k2 = L + 1 /\ m1.sn < m2.sn
        BY <1>9, <2>3, <2>4, <2>6, <2>7, <3>2
      <4> QED BY <4>1, <1>3
    <3>3. CASE m1 = fresh /\ m2 \in num
      <4>1. k2 \in 1 .. L /\ k1 = L + 1 /\ m2.sn < m1.sn /\ m2.sn \in Nat /\ m1.sn \in Int
        BY <1>6, <1>9, <2>3, <2>4, <2>6, <2>7, <3>3
      <4> QED BY <4>1, <1>3
    <3>4. CASE m1 = fresh /\ m2 = fresh
      <4>1. k1 = k2 /\ m1.sn = m2.sn /\ m1.sn \in Int
        BY <2>3, <2>6, <2>7, <3>4
      <4> QED BY <4>1, <1>3
    <3> QED BY <3>1, <3>2, <3>3, <3>4
  <2> HIDE DEF num, num1
  <2>8. InOrder' <=>
           /\ \A j, k \in 1 .. Len(submitted') : submitted'[j] = submitted'[k] => j = k
           /\ \A m \in num1 : \E k \in 1 .. Len(submitted') : submitted'[k] = m.pkt
           /\ \A m1, m2 \in num1 : \A k1, k2 \in 1 .. Len(submitted') :
                 submitted'[k1] = m1.pkt /\ submitted'[k2] = m2.pkt
                    => (m1.sn < m2.sn <=> k1 < k2)
    BY <2>1 DEF InOrder, Ordered, num1
  <2>9. \A m1, m2 \in num1 : \A k1, k2 \in 1 .. L + 1 :
                 submitted'[k1] = m1.pkt /\ submitted'[k2] = m2.pkt
                    => (m1.sn < m2.sn <=> k1 < k2)
    BY <2>2, <2>7
  <2> QED BY <1>3, <1>5, <2>2, <2>5, <2>8, <2>9
<1> QED BY <1>10, <1>11

LEMMA StepKeepsOrder ==
  ASSUME TypeOK, TypeOK', Agreement, InOrder, [Next]_vars
  PROVE  InOrder'
<1>0. SenderTypeOK(send) /\ FrontOpen(send)
  BY DEF TypeOK, Agreement
<1>1. \A t, n : t # "Data" => CtlMsg(t, n).type # "Data"
  BY CtlMsgFields
<1>2. \A s, S : S \subseteq DOMAIN s.unacked => \A m \in Egress(s, S) :
         \E n \in DOMAIN s.unacked : m = DataMsg(n, s.unacked[n].pkt)
  BY DEF Egress
<1>3. ASSUME UNCHANGED <<send, submitted>>, \A m \in net' : m \in net \/ m.type # "Data"
      PROVE  InOrder'
  <2>1. Edits(send, send', {}, {}) /\ Requeues(send, send')
    BY <1>3, SameUnacked, SameQueues, SuffixItself
  <2> QED BY <1>3, <2>1, EditKeepsOrder
<1>4. ASSUME NEW p \in Pkts, SendMgmt(p) PROVE InOrder'
  BY <1>4, SendMgmtKeepsOrder
<1>5. ASSUME NEW id, TryCancel(id) PROVE InOrder'
  BY <1>0, <1>5, CancelQueuedPacketEdits, EditKeepsOrder DEF TryCancel
<1>6. ASSUME NEW sn, RequestCancel(sn) PROVE InOrder'
  BY <1>0, <1>1, <1>6, CancelSentPacketEdits, EditKeepsOrder DEF RequestCancel
<1>7. ASSUME NEW id, NEW limit, LimitRetriesQueued(id, limit) PROVE InOrder'
  BY <1>0, <1>7, LimitRetriesByIdEdits, EditKeepsOrder DEF LimitRetriesQueued
<1>8. ASSUME NEW sn, NEW limit, LimitRetriesSent(sn, limit) PROVE InOrder'
  BY <1>0, <1>8, LimitRetriesBySeqNumEdits, EditKeepsOrder DEF LimitRetriesSent
<1>9. ASSUME NEW sn, Forget(sn) PROVE InOrder'
  BY <1>0, <1>9, ForgetCanceledPacketEdits, EditKeepsOrder DEF Forget
<1>10. CASE ApplyWindowSize
  <2>1. /\ send'.unacked = send.unacked /\ send'.blocked = send.blocked
        /\ send'.last_enqueued = send.last_enqueued
        /\ submitted' = submitted /\ net' = net
    BY <1>0, <1>10 DEF ApplyWindowSize, AdjustWindowSize, SenderTypeOK
  <2>2. Numbered(send', net') = Numbered(send, net)
    BY <2>1 DEF Numbered
  <2> QED BY ONLY InOrder, <2>1, <2>2 DEF InOrder, Ordered, Place
<1>11. ASSUME NEW m \in net, RecvData(m) PROVE InOrder'
  <2>1. UNCHANGED <<send, submitted>>
    BY <1>11 DEF RecvData
  <2>2. net' \subseteq net \cup {CtlMsg("Ack", m.sn), CtlMsg("Canceled", m.sn)}
    BY <1>11, DispositionType DEF RecvData
  <2>3. \A x \in net' : x \in net \/ x.type # "Data"
    BY <1>1, <2>2
  <2> QED BY <1>3, <2>1, <2>3
<1>12. ASSUME NEW m \in net, RecvCancel(m) PROVE InOrder'
  <2>1. UNCHANGED <<send, submitted>>
    BY <1>12 DEF RecvCancel
  <2>2. net' \subseteq net \cup {CtlMsg("Ack", m.sn), CtlMsg("Canceled", m.sn)}
    BY <1>12, DispositionType DEF RecvCancel
  <2>3. \A x \in net' : x \in net \/ x.type # "Data"
    BY <1>1, <2>2
  <2> QED BY <1>3, <2>1, <2>3
<1>13. ASSUME NEW m \in net, RecvAnswer(m) PROVE InOrder'
  BY <1>13, RecvAnswerKeepsOrder
<1>14. CASE RetryTick
  <2>1. /\ send' = AgeRetries(send) /\ submitted' = submitted
        /\ net' = net \cup Egress(send', RetryPackets(send'))
                      \cup {CtlMsg("Cancel", n) : n \in RetryCancels(send')}
    BY <1>14 DEF RetryTick
  <2>2. RetryPackets(send') \subseteq DOMAIN send'.unacked
    BY DEF RetryPackets
  <2>3. \A m \in net' : m.type = "Data" =>
           m \in net \/ \E n \in DOMAIN send'.unacked : m = DataMsg(n, send'.unacked[n].pkt)
    BY <1>1, <1>2, <2>1, <2>2
  <2>4. Edits(send, send', {}, {}) /\ Requeues(send, send')
    BY <1>0, <2>1, AgeRetriesEdits
  <2> QED BY <2>1, <2>3, <2>4, EditKeepsOrder
<1>15. CASE RetryTimerReset \/ (\E m \in net : Lose(m)) \/ HandleNext \/ UNCHANGED vars
  BY <1>3, <1>15 DEF RetryTimerReset, Lose, HandleNext, vars
<1> QED BY <1>4, <1>5, <1>6, <1>7, <1>8, <1>9, <1>10, <1>11, <1>12, <1>13, <1>14, <1>15
        DEF Next, Caller

-------------------------------------------------------------------------------
(* The properties follow from the invariants.                              *)

LEMMA AgreementAnswerable ==
  ASSUME TypeOK, WindowRemembers, Agreement
  PROVE  PendingAnswerable
<1> SUFFICES ASSUME NEW n \in DOMAIN send.unacked
             PROVE  Classify(recv, n) \notin {"TooOld", "TooNew"}
  BY DEF PendingAnswerable
<1>1. /\ recv.highest_seen \in Int /\ recv.window_size = RecvWindowSize
      /\ RecvWindowSize \in Nat
      /\ send.last_sent \in Int /\ send.window_size \in Int
  BY WindowAssumption DEF TypeOK, ReceiverTypeOK, SenderTypeOK
<1>2. PICK lo \in Nat : /\ DOMAIN send.unacked = lo .. send.last_sent
                        /\ send.last_sent + 1 - lo <= send.window_size
  BY DEF Agreement, UnackedInterval
<1>3. n \in Nat /\ lo <= n /\ n <= send.last_sent
  BY <1>1, <1>2
<1>4. Classify(recv, n) # "TooNew"
  BY <1>3, NeverTooNew
<1>5. send.window_size <= RecvWindowSize /\ recv.highest_seen <= send.last_sent
  BY DEF Agreement, IssuedFirst
<1>6. ~(n - recv.highest_seen <= -recv.window_size)
  BY <1>1, <1>2, <1>3, <1>5
<1>7. Classify(recv, n) # "TooOld"
  BY <1>6 DEF Classify
<1> QED BY <1>4, <1>7

LEMMA AgreementShape ==
  ASSUME TypeOK, Agreement
  PROVE  SenderShape
<1>1. send.last_sent \in Nat \cup {-1} /\ send.last_enqueued \in Nat \cup {-1}
  BY DEF TypeOK, SenderTypeOK
<1>2. PICK lo \in Nat : /\ lo <= send.last_sent + 1
                        /\ DOMAIN send.unacked = lo .. send.last_sent
                        /\ send.last_sent + 1 - lo <= send.window_size
  BY DEF Agreement, UnackedInterval
<1>3. PICK a, b \in Nat : /\ a <= b /\ b <= send.last_enqueued + 1
                          /\ DOMAIN send.blocked = b .. send.last_enqueued
                          /\ DOMAIN send.sent = a .. (b - 1)
  BY DEF Agreement, QueueIntervals
<1>4. Len_(send.unacked) = send.last_sent + 1 - lo
  BY <1>1, <1>2, IntervalSize DEF Len_
<1>5. Len_(send.blocked) = send.last_enqueued + 1 - b
  BY <1>1, <1>3, IntervalSize DEF Len_
<1>6. b - 1 \in Nat \cup {-1} /\ a <= b - 1 + 1
  BY <1>3
<1>7. Len_(send.sent) = b - 1 + 1 - a
  BY <1>3, <1>6, IntervalSize DEF Len_
<1>8. send.last_sent - Len_(send.unacked) + 1 = lo
  BY <1>1, <1>4
<1>9. send.last_enqueued - Len_(send.blocked) + 1 = b
      /\ send.last_enqueued - Len_(send.blocked) = b - 1
  BY <1>1, <1>5
<1>10. (b - 1) - Len_(send.sent) + 1 = a
  BY <1>7
<1> HIDE DEF Len_
<1> QED BY <1>2, <1>3, <1>4, <1>8, <1>9, <1>10
        DEF SenderShape, Agreement, FrontOpen, FrontBlocked

LEMMA OrderNumbers ==
  ASSUME TypeOK, Agreement, InOrder
  PROVE  FifoNumbering
<1> DEFINE num == Numbered(send, net)
           pos(p) == CHOOSE i \in 1 .. Len(submitted) : submitted[i] = p
<1>1. \A m \in num : m.sn \in Nat
  BY NumberedIssued DEF TypeOK, Agreement, IssuedFirst
<1>2. Len(submitted) \in Nat
  BY DEF TypeOK
<1>3. \A m \in num : pos(m.pkt) \in 1 .. Len(submitted) /\ submitted[pos(m.pkt)] = m.pkt
  <2> SUFFICES ASSUME NEW m \in num
               PROVE  pos(m.pkt) \in 1 .. Len(submitted) /\ submitted[pos(m.pkt)] = m.pkt
    OBVIOUS
  <2>1. \E k \in 1 .. Len(submitted) : submitted[k] = m.pkt
    BY DEF InOrder, Ordered
  <2> HIDE DEF num
  <2> QED BY <2>1
<1>4. FifoNumbering <=> \A m1, m2 \in num :
            /\ m1.sn = m2.sn <=> m1.pkt = m2.pkt
            /\ pos(m1.pkt) < pos(m2.pkt) => m1.sn < m2.sn
  BY DEF FifoNumbering, Numbered
<1> HIDE DEF pos
<1>5. ASSUME NEW m1 \in num, NEW m2 \in num
      PROVE  /\ m1.sn = m2.sn <=> m1.pkt = m2.pkt
             /\ pos(m1.pkt) < pos(m2.pkt) => m1.sn < m2.sn
  <2> DEFINE k1 == pos(m1.pkt)
             k2 == pos(m2.pkt)
  <2>1. /\ k1 \in 1 .. Len(submitted) /\ submitted[k1] = m1.pkt
        /\ k2 \in 1 .. Len(submitted) /\ submitted[k2] = m2.pkt
    BY <1>3
  <2>2. (m1.sn < m2.sn <=> k1 < k2) /\ (m2.sn < m1.sn <=> k2 < k1)
    BY <2>1 DEF InOrder, Ordered
  <2>3. k1 = k2 <=> m1.pkt = m2.pkt
    BY <2>1 DEF InOrder, Ordered
  <2>4. m1.sn \in Nat /\ m2.sn \in Nat /\ k1 \in Nat /\ k2 \in Nat
    BY <1>1, <1>2, <2>1
  <2> HIDE DEF k1, k2, num
  <2>5. m1.sn = m2.sn <=> k1 = k2
    BY <2>2, <2>4
  <2> QED BY <2>2, <2>3, <2>5 DEF k1, k2
<1> HIDE DEF num
<1> QED BY <1>4, <1>5

\* At every step of callers, dispatch and retry worker the sender believes only
\* what the receiver did, never outruns the receiver's window, retries only what
\* the receiver will answer, and all of that; its queues stay aligned and the
\* packets in their order.
THEOREM SessionAgrees == ShiftInRange => (Spec => []SessionInvariant)
<1> SUFFICES ASSUME ShiftInRange PROVE Spec => []SessionInvariant
  OBVIOUS
<1>1. TypeOK /\ DecidesOnce /\ Agreement /\ InOrder => SessionInvariant
  <2> SUFFICES ASSUME TypeOK, DecidesOnce, Agreement, InOrder PROVE SessionInvariant
    OBVIOUS
  <2>1. PendingAnswerable
    BY AgreementAnswerable DEF DecidesOnce
  <2>2. SenderShape /\ FifoNumbering
    BY AgreementShape, OrderNumbers
  <2> QED BY <2>1, <2>2 DEF SessionInvariant, Agreement
<1>2. TypeOK /\ TypeOK' /\ Agreement /\ InOrder /\ [Next]_vars => InOrder'
  BY StepKeepsOrder
<1> QED BY <1>1, <1>2, InitOrdered, AlwaysAgrees, PTL DEF Spec

-------------------------------------------------------------------------------
(* The session implements the abstract channel.                            *)

\* What is not settled is in the window, and the window is no larger than the
\* one the channel promises.
LEMMA WindowKept ==
  ASSUME NEW s, SenderTypeOK(s), UnackedInterval(s), s.window_size <= RecvWindowSize
  PROVE  \A n \in 0 .. s.last_sent :
            n \notin SettledNumbers(s) => s.last_sent + 1 - n <= RecvWindowSize
<1> SUFFICES ASSUME NEW n \in 0 .. s.last_sent, n \notin SettledNumbers(s)
             PROVE  s.last_sent + 1 - n <= RecvWindowSize
  OBVIOUS
<1>1. s.last_sent \in Int /\ s.window_size \in Int /\ RecvWindowSize \in Int
  BY WindowAssumption DEF SenderTypeOK
<1>2. n \in DOMAIN s.unacked
  <2>1. n <= s.last_sent
    BY <1>1
  <2> QED BY <2>1 DEF SettledNumbers, IsAcked
<1>3. PICK lo \in Nat : /\ DOMAIN s.unacked = lo .. s.last_sent
                        /\ s.last_sent + 1 - lo <= s.window_size
  BY DEF UnackedInterval
<1>4. lo <= n
  BY <1>2, <1>3
<1> QED BY <1>1, <1>3, <1>4

LEMMA InWindowIntro ==
  ASSUME NEW c \in Int, NEW D, \A n \in 0 .. c : n \notin D => c + 1 - n <= RecvWindowSize
  PROVE  Channel!InWindow(c + 1, D)
<1>1. \A n \in 0 .. (c + 1) - 1 : n \in 0 .. c
  OBVIOUS
<1>2. \A n \in 0 .. (c + 1) - 1 : n \notin D => c + 1 - n <= RecvWindowSize
  BY <1>1
<1> QED BY <1>2 DEF Channel!InWindow

\* A step of the sending end is a step of the channel.
LEMMA SenderStepAdvances ==
  ASSUME TypeOK, TypeOK', Agreement, Agreement', UNCHANGED <<log, refused>>,
         Learns({}) \/ \E n \in Accepted \cup refused : Learns({n})
  PROVE  Channel!Advance
<1> USE DEF Learns
<1>1. Accepted' = Accepted /\ refused' = refused
  BY DEF Accepted
<1>2. send.last_sent \in Int /\ send'.last_sent \in Int
  BY DEF TypeOK, SenderTypeOK
<1>3. \A n \in 0 .. send'.last_sent :
          n \notin SettledNumbers(send') => send'.last_sent + 1 - n <= RecvWindowSize
  <2>1. SenderTypeOK(send') /\ UnackedInterval(send') /\ send'.window_size <= RecvWindowSize
    BY DEF TypeOK, Agreement
  <2> QED BY <2>1, WindowKept
<1>4. send'.last_sent + 1 >= send.last_sent + 1
      /\ send'.last_sent + 1 - 1 = send'.last_sent
  BY <1>2
<1>5. Channel!InWindow(send'.last_sent + 1, SettledNumbers(send'))
  BY <1>2, <1>3, InWindowIntro
<1>6. Channel!Advance <=>
        /\ send'.last_sent + 1 >= send.last_sent + 1
        /\ \/ SettledNumbers(send') = SettledNumbers(send)
           \/ \E n \in Accepted \cup refused :
                 SettledNumbers(send') = SettledNumbers(send) \cup {n}
        /\ Channel!InWindow(send'.last_sent + 1, SettledNumbers(send'))
        /\ Accepted' = Accepted /\ refused' = refused
  BY DEF Channel!Advance, SettledNumbers
<1> QED BY <1>1, <1>4, <1>5, <1>6

\* A step of the receiving end decides the fate of an undecided number.
LEMMA ReceiverStepDecides ==
  ASSUME TypeOK, Agreement, UNCHANGED send,
         \/ UNCHANGED <<Accepted, refused>>
         \/ \E n \in 0 .. send.last_sent :
               /\ n \notin Accepted \cup refused
               /\ \/ Accepted' = Accepted \cup {n} /\ refused' = refused
                  \/ refused' = refused \cup {n} /\ Accepted' = Accepted
  PROVE  [Channel!ChannelNext]_(Channel!cvars)
<1>1. send.last_sent \in Int
  BY DEF TypeOK, SenderTypeOK
<1>2. 0 .. (send.last_sent + 1) - 1 = 0 .. send.last_sent
  BY <1>1
<1>3. Channel!Undecided = (0 .. send.last_sent) \ (Accepted \cup refused)
  BY <1>2 DEF Channel!Undecided
<1>4. SettledNumbers(send') = SettledNumbers(send)
  OBVIOUS
<1>5. CASE UNCHANGED <<Accepted, refused>>
  BY <1>4, <1>5 DEF Channel!cvars, SettledNumbers
<1>6. ASSUME NEW n \in 0 .. send.last_sent, n \notin Accepted \cup refused,
             Accepted' = Accepted \cup {n}, refused' = refused
      PROVE  Channel!Accept
  BY <1>3, <1>4, <1>6 DEF Channel!Accept, SettledNumbers
<1>7. ASSUME NEW n \in 0 .. send.last_sent, n \notin Accepted \cup refused,
             refused' = refused \cup {n}, Accepted' = Accepted
      PROVE  Channel!Refuse
  BY <1>3, <1>4, <1>7 DEF Channel!Refuse, SettledNumbers
<1> QED BY <1>5, <1>6, <1>7 DEF Channel!ChannelNext

LEMMA RecvDataDecidesOne ==
  ASSUME TypeOK, DecidesOnce, Agreement, ShiftInRange, NEW m \in net, RecvData(m)
  PROVE  [Channel!ChannelNext]_(Channel!cvars)
<1>1. PICK sn \in Nat, p \in Pkts : sn = m.sn /\ p = m.pkt
  BY DEF TypeOK, RecvData, Messages, CtlTypes
<1>2. sn \in 0 .. send.last_sent
  BY <1>1 DEF Agreement, IssuedFirst, TypeOK, SenderTypeOK
<1>3. UNCHANGED <<send, refused>>
  BY DEF RecvData
<1>4. CASE ShouldProcessPacket(recv, sn)
  <2> DEFINE e == [sn |-> sn, pkt |-> p]
  <2>1. log' = Append(log, e) /\ e \in [sn : Nat, pkt : Pkts] /\ e.sn = sn
    BY <1>1, <1>4 DEF RecvData
  <2>2. sn \notin Accepted \cup refused
    <3>1. ReceiverTypeOK(recv) /\ refused \in SUBSET Nat /\ Accepted \in SUBSET Nat
          /\ Remembers(recv, Accepted, refused)
      BY AcceptedType, WindowRemembersDef DEF TypeOK, DecidesOnce
    <3> QED BY <3>1, <1>4, RecordsAccept
  <2> HIDE DEF e
  <2>3. Accepted' = Accepted \cup {sn}
    BY <2>1, AcceptedAppend
  <2> QED BY <1>2, <1>3, <2>2, <2>3, ReceiverStepDecides
<1>5. CASE ~ShouldProcessPacket(recv, sn)
  <2>1. Accepted' = Accepted
    BY <1>1, <1>5 DEF RecvData, Accepted
  <2> QED BY <1>3, <2>1, ReceiverStepDecides
<1> QED BY <1>4, <1>5

LEMMA RecvCancelDecidesOne ==
  ASSUME TypeOK, DecidesOnce, Agreement, ShiftInRange, NEW m \in net, RecvCancel(m)
  PROVE  [Channel!ChannelNext]_(Channel!cvars)
<1>1. PICK sn \in Nat : sn = m.sn
  BY DEF TypeOK, Messages
<1>2. sn \in 0 .. send.last_sent
  BY <1>1 DEF Agreement, IssuedFirst, TypeOK, SenderTypeOK
<1>3. UNCHANGED send /\ Accepted' = Accepted
  BY DEF RecvCancel, Accepted
<1>4. CASE ShouldProcessPacket(recv, sn)
  <2>1. refused' = refused \cup {sn}
    BY <1>1, <1>4 DEF RecvCancel
  <2>2. sn \notin Accepted \cup refused
    <3>1. ReceiverTypeOK(recv) /\ refused \in SUBSET Nat /\ Accepted \in SUBSET Nat
          /\ Remembers(recv, Accepted, refused)
      BY AcceptedType, WindowRemembersDef DEF TypeOK, DecidesOnce
    <3> QED BY <3>1, <1>4, RecordsRefuse
  <2> QED BY <1>2, <1>3, <2>1, <2>2, ReceiverStepDecides
<1>5. CASE ~ShouldProcessPacket(recv, sn)
  <2>1. refused' = refused
    BY <1>1, <1>5 DEF RecvCancel
  <2> QED BY <1>3, <2>1, ReceiverStepDecides
<1> QED BY <1>4, <1>5

LEMMA StepImplements ==
  ASSUME TypeOK, TypeOK', DecidesOnce, Agreement, Agreement', ShiftInRange, [Next]_vars
  PROVE  [Channel!ChannelNext]_(Channel!cvars)
<1>1. ASSUME UNCHANGED <<log, refused>>, Learns({})
      PROVE  [Channel!ChannelNext]_(Channel!cvars)
  BY <1>1, SenderStepAdvances DEF Channel!ChannelNext
<1>2. ASSUME NEW p \in Pkts, SendMgmt(p) PROVE [Channel!ChannelNext]_(Channel!cvars)
  <2>1. Learns({})
    BY <1>2, SendMgmtAgrees
  <2> QED BY <1>1, <1>2, <2>1 DEF SendMgmt
<1>3. CASE \/ \E id : TryCancel(id)
           \/ \E sn : RequestCancel(sn)
           \/ \E id, limit : LimitRetriesQueued(id, limit)
           \/ \E sn, limit : LimitRetriesSent(sn, limit)
           \/ \E sn : Forget(sn)
  <2>1. Learns({})
    BY <1>3, CallerAgrees
  <2>2. UNCHANGED <<log, refused>>
    BY <1>3 DEF TryCancel, RequestCancel, LimitRetriesQueued, LimitRetriesSent, Forget
  <2> QED BY <1>1, <2>1, <2>2
<1>4. CASE Caller
  BY <1>2, <1>3, <1>4 DEF Caller
<1>5. CASE ApplyWindowSize
  <2>1. Learns({})
    BY <1>5, ApplyWindowSizeAgrees
  <2> QED BY <1>1, <1>5, <2>1 DEF ApplyWindowSize
<1>6. ASSUME NEW m \in net, RecvAnswer(m) PROVE [Channel!ChannelNext]_(Channel!cvars)
  <2>1. m.sn \in Accepted \cup refused /\ (Learns({}) \/ Learns({m.sn}))
    BY <1>6, RecvAnswerAgrees
  <2>2. UNCHANGED <<log, refused>>
    BY <1>6 DEF RecvAnswer
  <2> QED BY <2>1, <2>2, SenderStepAdvances DEF Channel!ChannelNext
<1>7. CASE RetryTick
  <2>1. Learns({})
    BY <1>7, RetryTickAgrees
  <2> QED BY <1>1, <1>7, <2>1 DEF RetryTick
<1>8. CASE RetryTimerReset \/ (\E m \in net : Lose(m)) \/ HandleNext \/ UNCHANGED vars
  <2>1. UNCHANGED <<send, log, refused>>
    BY <1>8, IdleAgrees
  <2>2. Accepted' = Accepted
    BY <2>1 DEF Accepted
  <2> QED BY <2>1, <2>2, ReceiverStepDecides
<1> QED BY <1>4, <1>5, <1>6, <1>7, <1>8, RecvDataDecidesOne, RecvCancelDecidesOne DEF Next

LEMMA InitImplements == Init => Channel!ChannelInit
<1> SUFFICES ASSUME Init PROVE Channel!ChannelInit
  OBVIOUS
<1>1. send.last_sent = -1 /\ refused = {} /\ Len(log) = 0
  BY DEF Init, NewSender
<1>2. Accepted = {} /\ 0 .. -1 = {} /\ -1 + 1 = 0
  BY <1>1 DEF Accepted
<1> QED BY <1>1, <1>2 DEF Channel!ChannelInit

\* The session implements the abstract channel: each sequence number is decided
\* once, the sender holds for settled only what the peer decided, and never runs
\* further ahead than the window; window bitsets, retries, cancels, duplicates
\* and losses are invisible at that level.
THEOREM SessionImplementsChannel == ShiftInRange => (Spec => ImplementsChannel)
<1> SUFFICES ASSUME ShiftInRange PROVE Spec => ImplementsChannel
  OBVIOUS
<1>1. TypeOK /\ TypeOK' /\ DecidesOnce /\ Agreement /\ Agreement' /\ [Next]_vars
        => [Channel!ChannelNext]_(Channel!cvars)
  BY StepImplements
<1> QED BY <1>1, InitImplements, AlwaysAgrees, PTL
        DEF Spec, ImplementsChannel, Channel!ChannelSpec

-------------------------------------------------------------------------------
(* The futures: which packet has which number, and who waits for it.       *)

\* The sequence numbers packets have been given, as far as anybody remembers:
\* in the window, on the substrate, or accepted.
WindowNumbers(s) == {[sn |-> n, pkt |-> s.unacked[n].pkt] : n \in DOMAIN s.unacked}

Carried(s, M, L) ==
    WindowNumbers(s)
    \cup {[sn |-> m.sn, pkt |-> m.pkt] : m \in {x \in M : x.type = "Data"}}
    \cup {L[i] : i \in 1 .. Len(L)}

\* Packet p waits in the queue.
Waits(s, p) == \E i \in LiveBlocked(s) : s.blocked[i].pkt = p

\* A packet has one number and a number one packet; a packet in the queue has
\* none yet and is there once.
NumberedOnce(s, N) ==
    /\ \A x, y \in N : x.sn = y.sn <=> x.pkt = y.pkt
    /\ \A x \in N : ~Waits(s, x.pkt)
    /\ \A i, j \in LiveBlocked(s) : s.blocked[i].pkt = s.blocked[j].pkt => i = j

\* Packet p was not sent under any number but the refused ones, and will not be.
OnlyRefused(s, N, R, p) ==
    /\ ~Waits(s, p)
    /\ \A x \in N : x.pkt = p => x.sn \in R

\* The packet ID a future of the current session holds names its packet: in the
\* queue, where it is not canceled, in the window, or answered since.
Names(s, id, p) ==
    /\ id.t = "Queued" =>
          /\ id.n <= s.last_enqueued
          /\ id.n \in DOMAIN s.blocked =>
                s.blocked[id.n].pkt = p /\ s.blocked[id.n].st = "Blocked"
          /\ id.n \in DOMAIN s.sent =>
                /\ s.sent[id.n] \in 0 .. s.last_sent
                /\ s.sent[id.n] \in DOMAIN s.unacked => s.unacked[s.sent[id.n]].pkt = p
    /\ id.t = "Sent" =>
          /\ id.n <= s.last_sent
          /\ id.n \in DOMAIN s.unacked => s.unacked[id.n].pkt = p

\* The waker of an entry is that of its own packet's task.
OwnWakers(s) ==
    /\ \A n \in DOMAIN s.unacked : s.unacked[n].waker \in {NoopWaker, s.unacked[n].pkt}
    /\ \A i \in DOMAIN s.blocked : s.blocked[i].waker \in {NoopWaker, s.blocked[i].pkt}

\* Task p will be woken by what it waits for.
Registered(s, p) ==
    \/ \E n \in DOMAIN s.unacked : s.unacked[n].waker = p /\ Pending(s.unacked[n])
    \/ \E i \in DOMAIN s.blocked : s.blocked[i].waker = p /\ s.blocked[i].st = "Blocked"

\* What holds of each future.
FutureOK(s, N, R, f, g, p) ==
    /\ f.gen <= g
    /\ f.kind = "Unsent" => ~Waits(s, p) /\ \A x \in N : x.pkt # p
    /\ f.kind \in Futures /\ f.gen = g => Names(s, f.id, p)
    /\ f.id.t = "Canceled" \/ f.res = "Canceled" => f.kind # "Unsent" /\ OnlyRefused(s, N, R, p)
    /\ f.res # "Assertion"
    /\ f.kind \in Futures /\ f.res = "None" /\ p \notin s.woken => Registered(s, p)

\* The inductive invariant of the futures, on top of that of the session.
FuturesOK ==
    /\ NumberedOnce(send, Carried(send, net, log))
    /\ OwnWakers(send)
    /\ \A p \in Pkts : FutureOK(send, Carried(send, net, log), refused, fut[p], generation, p)

\* What a step of the sender means for the packets and tasks it holds.  Entries
\* keep their packet and, while they are open, their waker; what is no longer
\* open has woken its task; a number beyond the old ones belongs to a live packet
\* that has left the queue and is found under its ID.  X: the IDs canceled.
Moves(s, t, X) ==
    /\ t.last_enqueued = s.last_enqueued /\ s.last_sent <= t.last_sent
    /\ s.woken \subseteq t.woken
    /\ \A n \in DOMAIN s.unacked : Pending(s.unacked[n]) =>
          \/ /\ n \in DOMAIN t.unacked /\ Pending(t.unacked[n])
             /\ t.unacked[n].waker = s.unacked[n].waker
          \/ Woken(s.unacked[n]) \subseteq t.woken
    /\ \A n \in DOMAIN t.unacked :
          \/ /\ n \in DOMAIN s.unacked /\ t.unacked[n].pkt = s.unacked[n].pkt
             /\ t.unacked[n].waker \in {NoopWaker, s.unacked[n].waker}
          \/ /\ n > s.last_sent /\ t.unacked[n].waker = NoopWaker
             /\ \E i \in LiveBlocked(s) : /\ i \in DOMAIN t.sent /\ i \notin DOMAIN t.blocked
                                          /\ t.sent[i] = n
                                          /\ t.unacked[n].pkt = s.blocked[i].pkt
    /\ \A i \in DOMAIN t.blocked :
          /\ i \in DOMAIN s.blocked /\ t.blocked[i].pkt = s.blocked[i].pkt
          /\ t.blocked[i].waker \in {NoopWaker, s.blocked[i].waker}
          /\ t.blocked[i].st = "Blocked" => s.blocked[i].st = "Blocked"
    /\ \A i \in LiveBlocked(s) :
          \/ /\ i \in DOMAIN t.blocked /\ t.blocked[i].st = "Blocked"
             /\ t.blocked[i].waker = s.blocked[i].waker
          \/ /\ Woken(s.blocked[i]) \subseteq t.woken
             /\ i \in DOMAIN t.blocked => i \in X
    /\ \A i \in DOMAIN t.sent :
          \/ i \in DOMAIN s.sent /\ t.sent[i] = s.sent[i]
          \/ /\ i \in DOMAIN s.blocked /\ i \notin DOMAIN t.blocked
             /\ i \in LiveBlocked(s) \ X =>
                   /\ t.sent[i] \in s.last_sent + 1 .. t.last_sent
                   /\ t.sent[i] \in DOMAIN t.unacked
                   /\ t.unacked[t.sent[i]].pkt = s.blocked[i].pkt

\* An operator that rewrites entries of the window and pops the front of it and
\* of `sent`.
LEMMA WindowMoves ==
  ASSUME NEW s, SenderTypeOK(s), NEW t, t.last_sent = s.last_sent,
         t.last_enqueued = s.last_enqueued, t.blocked = s.blocked,
         s.woken \subseteq t.woken,
         DOMAIN t.unacked \subseteq DOMAIN s.unacked,
         \A n \in DOMAIN t.unacked :
            /\ t.unacked[n].pkt = s.unacked[n].pkt
            /\ t.unacked[n].waker \in {NoopWaker, s.unacked[n].waker},
         \A n \in DOMAIN s.unacked : Pending(s.unacked[n]) =>
            \/ /\ n \in DOMAIN t.unacked /\ Pending(t.unacked[n])
               /\ t.unacked[n].waker = s.unacked[n].waker
            \/ Woken(s.unacked[n]) \subseteq t.woken,
         \A i \in DOMAIN t.sent : i \in DOMAIN s.sent /\ t.sent[i] = s.sent[i]
  PROVE  Moves(s, t, {})
<1>1. s.last_sent <= t.last_sent BY DEF SenderTypeOK
<1>2. \A i \in LiveBlocked(s) : i \in DOMAIN t.blocked /\ t.blocked[i].st = "Blocked"
                                /\ t.blocked[i].waker = s.blocked[i].waker
  BY DEF LiveBlocked
<1> QED BY <1>1, <1>2 DEF Moves

LEMMA SameMoves ==
  ASSUME NEW s, SenderTypeOK(s), NEW t, t.last_sent = s.last_sent, t.unacked = s.unacked,
         t.last_enqueued = s.last_enqueued, t.blocked = s.blocked, t.sent = s.sent,
         t.woken = s.woken
  PROVE  Moves(s, t, {})
BY WindowMoves

\* The entries of the window after a rewrite of that of `sn`.
LEMMA EntryRewritten ==
  ASSUME NEW f, NEW sn \in DOMAIN f, NEW e, NEW g, g = [f EXCEPT ![sn] = e]
  PROVE  DOMAIN g = DOMAIN f /\ g[sn] = e /\ \A n \in DOMAIN f \ {sn} : g[n] = f[n]
OBVIOUS

LEMMA CancelSentPacketMoves ==
  ASSUME NEW s, SenderTypeOK(s), NEW sn, NEW t, t = CancelSentPacket(s, sn)
  PROVE  Moves(s, t, {})
<1>1. CASE CanCancelSent(s, sn)
  <2> DEFINE e == CancelEntry(s.unacked[sn])
  <2>1. sn \in DOMAIN s.unacked /\ s.unacked[sn] \in UnackedEntries
        /\ s.unacked[sn].st = "Unacked"
    BY <1>1 DEF CanCancelSent, SenderTypeOK
  <2>2. e.pkt = s.unacked[sn].pkt /\ Pending(e) /\ e.waker = s.unacked[sn].waker
    BY <2>1 DEF CancelEntry, UnackedEntries, Pending
  <2> HIDE DEF e
  <2>3. /\ t.last_sent = s.last_sent /\ t.last_enqueued = s.last_enqueued
        /\ t.blocked = s.blocked /\ t.sent = s.sent /\ t.woken = s.woken
        /\ t.unacked = [s.unacked EXCEPT ![sn] = e]
    BY <1>1 DEF CancelSentPacket, SenderTypeOK, e
  <2>4. DOMAIN t.unacked = DOMAIN s.unacked /\ t.unacked[sn] = e
        /\ \A n \in DOMAIN s.unacked \ {sn} : t.unacked[n] = s.unacked[n]
    BY <2>1, <2>3, EntryRewritten
  <2>5. \A n \in DOMAIN s.unacked : /\ t.unacked[n].pkt = s.unacked[n].pkt
                                    /\ t.unacked[n].waker = s.unacked[n].waker
                                    /\ Pending(s.unacked[n]) => Pending(t.unacked[n])
    BY <2>2, <2>4
  <2> QED BY <2>3, <2>4, <2>5, WindowMoves
<1>2. CASE ~CanCancelSent(s, sn)
  BY <1>2, SameMoves DEF CancelSentPacket
<1> QED BY <1>1, <1>2

LEMMA LimitRetriesBySeqNumMoves ==
  ASSUME NEW s, SenderTypeOK(s), NEW sn, NEW limit, NEW t,
         t = LimitRetriesBySeqNum(s, sn, limit)
  PROVE  Moves(s, t, {})
<1>1. CASE CanCancelSent(s, sn)
  <2> DEFINE e == [s.unacked[sn] EXCEPT !.limit = Lower(limit, @)]
  <2>1. sn \in DOMAIN s.unacked /\ s.unacked[sn] \in UnackedEntries
    BY <1>1 DEF CanCancelSent, SenderTypeOK
  <2>2. e.pkt = s.unacked[sn].pkt /\ e.st = s.unacked[sn].st /\ e.waker = s.unacked[sn].waker
    BY <2>1 DEF UnackedEntries
  <2>3. t = [s EXCEPT !.unacked[sn] = e]
    BY <1>1 DEF LimitRetriesBySeqNum
  <2> HIDE DEF e
  <2>4. /\ t.last_sent = s.last_sent /\ t.last_enqueued = s.last_enqueued
        /\ t.blocked = s.blocked /\ t.sent = s.sent /\ t.woken = s.woken
        /\ t.unacked = [s.unacked EXCEPT ![sn] = e]
    BY <2>3 DEF SenderTypeOK
  <2>5. DOMAIN t.unacked = DOMAIN s.unacked /\ t.unacked[sn] = e
        /\ \A n \in DOMAIN s.unacked \ {sn} : t.unacked[n] = s.unacked[n]
    BY <2>1, <2>4, EntryRewritten
  <2>6. \A n \in DOMAIN s.unacked : /\ t.unacked[n].pkt = s.unacked[n].pkt
                                    /\ t.unacked[n].waker = s.unacked[n].waker
                                    /\ Pending(s.unacked[n]) => Pending(t.unacked[n])
    BY <2>2, <2>5 DEF Pending
  <2> QED BY <2>4, <2>5, <2>6, WindowMoves
<1>2. CASE ~CanCancelSent(s, sn)
  BY <1>2, SameMoves DEF LimitRetriesBySeqNum
<1> QED BY <1>1, <1>2

LEMMA LimitRetriesByIdMoves ==
  ASSUME NEW s, SenderTypeOK(s), NEW id, NEW limit, NEW t,
         t = LimitRetriesById(s, id, limit)
  PROVE  Moves(s, t, {})
<1>1. CASE ~IsSent(s, id) /\ CanCancelQueued(s, id)
  <2> DEFINE e == [s.blocked[id] EXCEPT !.limit = Lower(limit, @)]
  <2>1. id \in DOMAIN s.blocked /\ s.blocked[id] \in BlockedEntries
    BY <1>1 DEF CanCancelQueued, SenderTypeOK
  <2>2. e.pkt = s.blocked[id].pkt /\ e.st = s.blocked[id].st /\ e.waker = s.blocked[id].waker
    BY <2>1 DEF BlockedEntries
  <2>3. t = [s EXCEPT !.blocked[id] = e]
    BY <1>1 DEF LimitRetriesById
  <2> HIDE DEF e
  <2>4. /\ t.last_sent = s.last_sent /\ t.last_enqueued = s.last_enqueued
        /\ t.unacked = s.unacked /\ t.sent = s.sent /\ t.woken = s.woken
        /\ t.blocked = [s.blocked EXCEPT ![id] = e]
    BY <2>3 DEF SenderTypeOK
  <2>5. DOMAIN t.blocked = DOMAIN s.blocked /\ t.blocked[id] = e
        /\ \A n \in DOMAIN s.blocked \ {id} : t.blocked[n] = s.blocked[n]
    BY <2>1, <2>4, EntryRewritten
  <2>6. \A i \in DOMAIN s.blocked : /\ t.blocked[i].pkt = s.blocked[i].pkt
                                    /\ t.blocked[i].waker = s.blocked[i].waker
                                    /\ t.blocked[i].st = s.blocked[i].st
    BY <2>2, <2>5
  <2>7. s.last_sent <= t.last_sent BY <2>4 DEF SenderTypeOK
  <2> QED BY <2>4, <2>5, <2>6, <2>7 DEF Moves, LiveBlocked
<1>2. CASE ~(~IsSent(s, id) /\ CanCancelQueued(s, id))
  <2>1. t = s \/ t = LimitRetriesBySeqNum(s, LookupSeqNum(s, id), limit)
    BY <1>2 DEF LimitRetriesById
  <2> QED BY <2>1, SameMoves, LimitRetriesBySeqNumMoves
<1> QED BY <1>1, <1>2

LEMMA AgeRetriesMoves ==
  ASSUME NEW s, SenderTypeOK(s), NEW t, t = AgeRetries(s)
  PROVE  Moves(s, t, {})
<1>1. /\ t.last_sent = s.last_sent /\ t.last_enqueued = s.last_enqueued
      /\ t.blocked = s.blocked /\ t.sent = s.sent /\ t.woken = s.woken
      /\ t.unacked = [n \in DOMAIN s.unacked |-> AgeEntry(s.unacked[n])]
  BY DEF AgeRetries, SenderTypeOK
<1>2. \A e \in UnackedEntries : /\ AgeEntry(e).pkt = e.pkt /\ AgeEntry(e).waker = e.waker
                                /\ Pending(AgeEntry(e)) <=> Pending(e)
  BY DEF AgeEntry, CancelEntry, UnackedEntries, Pending
<1>3. \A n \in DOMAIN s.unacked : s.unacked[n] \in UnackedEntries
  BY DEF SenderTypeOK
<1>4. DOMAIN t.unacked = DOMAIN s.unacked
      /\ \A n \in DOMAIN s.unacked : /\ t.unacked[n].pkt = s.unacked[n].pkt
                                     /\ t.unacked[n].waker = s.unacked[n].waker
                                     /\ Pending(s.unacked[n]) => Pending(t.unacked[n])
  BY <1>1, <1>2, <1>3
<1> QED BY <1>1, <1>4, WindowMoves

\* Cleaning pops answered packets; nobody waits for those any more.
LEMMA CleanAfterKeeps ==
  ASSUME NEW s, SenderTypeOK(s), NEW sn, NEW t, t = CleanAfter(s, sn)
  PROVE  /\ t.last_sent = s.last_sent /\ t.last_enqueued = s.last_enqueued
         /\ t.blocked = s.blocked /\ t.woken = s.woken
         /\ DOMAIN t.unacked \subseteq DOMAIN s.unacked
         /\ \A n \in DOMAIN t.unacked : t.unacked[n] = s.unacked[n]
         /\ \A n \in DOMAIN s.unacked \ DOMAIN t.unacked : s.unacked[n].st = "Acked"
         /\ \A i \in DOMAIN t.sent : i \in DOMAIN s.sent /\ t.sent[i] = s.sent[i]
<1>1. ASSUME NEW x, SenderTypeOK(x)
      PROVE  \E S \in SUBSET DOMAIN x.sent : CleanSentQueue(x) = [x EXCEPT !.sent = Keep(@, S)]
  BY DEF CleanSentQueue
<1>2. ASSUME NEW x, SenderTypeOK(x), NEW y, y = CleanSentQueue(x)
      PROVE  /\ y.last_sent = x.last_sent /\ y.last_enqueued = x.last_enqueued
             /\ y.blocked = x.blocked /\ y.woken = x.woken /\ y.unacked = x.unacked
             /\ \A i \in DOMAIN y.sent : i \in DOMAIN x.sent /\ y.sent[i] = x.sent[i]
  <2>1. PICK S \in SUBSET DOMAIN x.sent : y = [x EXCEPT !.sent = Keep(@, S)] BY <1>1, <1>2
  <2> QED BY <1>2, <2>1 DEF Keep, SenderTypeOK
<1> DEFINE u == IF IsFront(s.unacked, sn) THEN CleanUnackedQueue(s) ELSE s
<1>3. SenderTypeOK(u) /\ t = CleanSentQueue(u)
  BY CleanUnackedQueueType DEF CleanAfter
<1>4. /\ u.last_sent = s.last_sent /\ u.last_enqueued = s.last_enqueued
      /\ u.blocked = s.blocked /\ u.sent = s.sent /\ u.woken = s.woken
      /\ DOMAIN u.unacked \subseteq DOMAIN s.unacked
      /\ \A n \in DOMAIN u.unacked : u.unacked[n] = s.unacked[n]
      /\ \A n \in DOMAIN s.unacked \ DOMAIN u.unacked : s.unacked[n].st = "Acked"
  <2>1. CASE u = s BY <2>1
  <2>2. CASE u = CleanUnackedQueue(s)
    <3>1. u.woken = s.woken BY <2>2 DEF CleanUnackedQueue, SenderTypeOK
    <3> HIDE DEF u
    <3> QED BY <2>2, <3>1, CleanUnackedQueueEffect DEF Suffix
  <2> QED BY <2>1, <2>2
<1> HIDE DEF u
<1> QED BY <1>2, <1>3, <1>4

LEMMA RewriteThenCleanMoves ==
  ASSUME NEW s, SenderTypeOK(s), NEW sn \in DOMAIN s.unacked, NEW e, NEW u, SenderTypeOK(u),
         u.last_sent = s.last_sent, u.last_enqueued = s.last_enqueued,
         u.blocked = s.blocked, u.sent = s.sent, s.woken \subseteq u.woken,
         u.unacked = [s.unacked EXCEPT ![sn] = e],
         e.pkt = s.unacked[sn].pkt, e.waker \in {NoopWaker, s.unacked[sn].waker},
         Pending(s.unacked[sn]) => \/ Pending(e) /\ e.waker = s.unacked[sn].waker
                                   \/ Woken(s.unacked[sn]) \subseteq u.woken,
         NEW t, t = CleanAfter(u, sn)
  PROVE  Moves(s, t, {}) /\ t.blocked = s.blocked /\ t.last_sent = s.last_sent
<1>1. DOMAIN u.unacked = DOMAIN s.unacked /\ u.unacked[sn] = e
      /\ \A n \in DOMAIN s.unacked \ {sn} : u.unacked[n] = s.unacked[n]
  OBVIOUS
<1>2. /\ t.last_sent = u.last_sent /\ t.last_enqueued = u.last_enqueued
      /\ t.blocked = u.blocked /\ t.woken = u.woken
      /\ DOMAIN t.unacked \subseteq DOMAIN u.unacked
      /\ \A n \in DOMAIN t.unacked : t.unacked[n] = u.unacked[n]
      /\ \A n \in DOMAIN u.unacked \ DOMAIN t.unacked : u.unacked[n].st = "Acked"
      /\ \A i \in DOMAIN t.sent : i \in DOMAIN u.sent /\ t.sent[i] = u.sent[i]
  BY CleanAfterKeeps
<1>3. \A n \in DOMAIN t.unacked : /\ t.unacked[n].pkt = s.unacked[n].pkt
                                  /\ t.unacked[n].waker \in {NoopWaker, s.unacked[n].waker}
  BY <1>1, <1>2
<1>4. ASSUME NEW n \in DOMAIN s.unacked, Pending(s.unacked[n])
      PROVE  \/ /\ n \in DOMAIN t.unacked /\ Pending(t.unacked[n])
                /\ t.unacked[n].waker = s.unacked[n].waker
             \/ Woken(s.unacked[n]) \subseteq t.woken
  <2>1. CASE n = sn /\ Woken(s.unacked[sn]) \subseteq u.woken BY <2>1, <1>2
  <2>2. CASE Pending(u.unacked[n]) /\ u.unacked[n].waker = s.unacked[n].waker
    <3>1. u.unacked[n].st # "Acked" BY <2>2 DEF Pending
    <3> QED BY <1>1, <1>2, <2>2, <3>1
  <2> QED BY <1>1, <1>4, <2>1, <2>2
<1> QED BY <1>1, <1>2, <1>3, <1>4, WindowMoves

LEMMA ForgetCanceledPacketMoves ==
  ASSUME NEW s, SenderTypeOK(s), NEW sn, NEW t, t = ForgetCanceledPacket(s, sn)
  PROVE  Moves(s, t, {})
<1>1. CASE sn \in DOMAIN s.unacked
  <2> DEFINE e == ForgetEntry(s.unacked[sn])
             u == [s EXCEPT !.unacked[sn] = e]
  <2>1. s.unacked[sn] \in UnackedEntries
    BY <1>1 DEF SenderTypeOK
  <2>2. /\ e \in UnackedEntries /\ e.pkt = s.unacked[sn].pkt
        /\ e.waker \in {NoopWaker, s.unacked[sn].waker}
        /\ Pending(s.unacked[sn]) => Pending(e) /\ e.waker = s.unacked[sn].waker
    BY <2>1, Limits
       DEF ForgetEntry, Settled, UnackedEntries, UnackedStates, Tasks, Pending
  <2>3. t = CleanAfter(u, sn)
    BY <1>1 DEF ForgetCanceledPacket
  <2> HIDE DEF e
  <2>4. /\ u.last_sent = s.last_sent /\ u.last_enqueued = s.last_enqueued
        /\ u.blocked = s.blocked /\ u.sent = s.sent /\ u.woken = s.woken
        /\ u.unacked = [s.unacked EXCEPT ![sn] = e]
    BY DEF SenderTypeOK
  <2>5. SenderTypeOK(u)
    BY <1>1, <2>2, ReplaceUnacked
  <2> HIDE DEF u
  <2> QED BY <1>1, <2>2, <2>3, <2>4, <2>5, RewriteThenCleanMoves
<1>2. CASE sn \notin DOMAIN s.unacked
  BY <1>2, SameMoves DEF ForgetCanceledPacket
<1> QED BY <1>1, <1>2

\* An answer wakes the task that awaits it.
LEMMA AnswerMoves ==
  ASSUME NEW s, SenderTypeOK(s), NEW sn \in DOMAIN s.unacked,
         NEW st \in {"Acked", "CancelAcked"}, NEW t, t = Answer(s, sn, st)
  PROVE  Moves(s, t, {}) /\ t.blocked = s.blocked /\ t.last_sent = s.last_sent
<1> DEFINE e == Settled(s.unacked[sn], st)
           w == s.woken \cup Woken(s.unacked[sn])
           u == [s EXCEPT !.unacked[sn] = e, !.woken = w]
<1>1. s.unacked[sn] \in UnackedEntries
  BY DEF SenderTypeOK
<1>2. e \in UnackedEntries /\ e.pkt = s.unacked[sn].pkt /\ e.waker = NoopWaker
  BY <1>1, Limits DEF Settled, UnackedEntries, UnackedStates, Tasks
<1>3. w \subseteq Pkts
  BY <1>1 DEF Woken, UnackedEntries, Tasks, SenderTypeOK
<1>4. t = CleanAfter(u, sn)
  BY DEF Answer, SenderTypeOK
<1> HIDE DEF e
<1>5. /\ u.last_sent = s.last_sent /\ u.last_enqueued = s.last_enqueued
      /\ u.blocked = s.blocked /\ u.sent = s.sent /\ u.woken = w
      /\ u.unacked = [s.unacked EXCEPT ![sn] = e]
  BY DEF SenderTypeOK
<1>6. SenderTypeOK(u)
  <2> HIDE DEF w
  <2> QED BY <1>2, <1>3 DEF SenderTypeOK
<1>7. s.woken \subseteq u.woken /\ Woken(s.unacked[sn]) \subseteq u.woken BY <1>5
<1> HIDE DEF u, w
<1> QED BY <1>2, <1>4, <1>5, <1>6, <1>7, RewriteThenCleanMoves

LEMMA ProcessAnswerMoves ==
  ASSUME NEW m, SenderTypeOK(send), NEW t, t = ProcessAnswer(m)
  PROVE  Moves(send, t, {}) /\ t.blocked = send.blocked /\ t.last_sent = send.last_sent
<1>1. \/ m.sn \in DOMAIN send.unacked /\ \E st \in {"Acked", "CancelAcked"} : t = Answer(send, m.sn, st)
      \/ \E stat : t = CountStat(send, stat)
  BY DEF ProcessAnswer, ProcessAck, ProcessCanceled
<1>2. ASSUME NEW stat, t = CountStat(send, stat)
      PROVE  Moves(send, t, {}) /\ t.blocked = send.blocked /\ t.last_sent = send.last_sent
  <2>1. /\ t.last_sent = send.last_sent /\ t.unacked = send.unacked
        /\ t.last_enqueued = send.last_enqueued /\ t.blocked = send.blocked
        /\ t.sent = send.sent /\ t.woken = send.woken
    BY <1>2 DEF CountStat, SenderTypeOK
  <2> QED BY <2>1, SameMoves
<1> QED BY <1>1, <1>2, AnswerMoves

\* A packet canceled in the queue loses its number to be; nothing else happens.
LEMMA CancelQueuedPacketMoves ==
  ASSUME NEW s, SenderTypeOK(s), NEW id, NEW t, t = CancelQueuedPacket(s, id)
  PROVE  /\ Moves(s, t, {id}) /\ t.unacked = s.unacked /\ t.last_sent = s.last_sent
         /\ id \in DOMAIN t.blocked => t.blocked[id].st # "Blocked"
<1> DEFINE e == [s.blocked[id] EXCEPT !.st = "Canceled", !.limit = NoLimit,
                                      !.waker = NoopWaker]
           w == s.woken \cup Woken(s.blocked[id])
           marked == [s EXCEPT !.blocked[id] = e, !.woken = w]
<1>1. CASE CanCancelQueued(s, id)
  <2>1. id \in DOMAIN s.blocked /\ s.blocked[id] \in BlockedEntries
    BY <1>1 DEF CanCancelQueued, SenderTypeOK
  <2>2. e.pkt = s.blocked[id].pkt /\ e.st = "Canceled" /\ e.waker = NoopWaker /\ e \in BlockedEntries
    BY <2>1, Limits DEF BlockedEntries, Tasks
  <2>3. w \subseteq Pkts /\ s.woken \subseteq w /\ Woken(s.blocked[id]) \subseteq w
    BY <2>1 DEF Woken, BlockedEntries, Tasks, SenderTypeOK
  <2>4. t = IF IsFront(s.blocked, id) THEN CleanBlockedQueue(marked) ELSE marked
    BY <1>1 DEF CancelQueuedPacket, SenderTypeOK
  <2> HIDE DEF e, w
  <2>5. /\ marked.last_sent = s.last_sent /\ marked.last_enqueued = s.last_enqueued
        /\ marked.unacked = s.unacked /\ marked.sent = s.sent /\ marked.woken = w
        /\ marked.blocked = [s.blocked EXCEPT ![id] = e]
    BY DEF SenderTypeOK
  <2>6. SenderTypeOK(marked)
    BY <2>1, <2>2, <2>3 DEF SenderTypeOK
  <2> HIDE DEF marked
  <2>7. DOMAIN marked.blocked = DOMAIN s.blocked /\ marked.blocked[id] = e
        /\ \A i \in DOMAIN s.blocked \ {id} : marked.blocked[i] = s.blocked[i]
    BY <2>1, <2>5, EntryRewritten
  <2>8. /\ t.last_sent = s.last_sent /\ t.last_enqueued = s.last_enqueued
        /\ t.unacked = s.unacked /\ t.woken = w
        /\ DOMAIN t.blocked \subseteq DOMAIN s.blocked
        /\ \A i \in DOMAIN t.blocked : t.blocked[i] = marked.blocked[i]
        /\ \A i \in DOMAIN s.blocked \ DOMAIN t.blocked : marked.blocked[i].st # "Blocked"
        /\ \A i \in DOMAIN t.sent : \/ i \in DOMAIN s.sent /\ t.sent[i] = s.sent[i]
                                    \/ i \in DOMAIN s.blocked \ DOMAIN t.blocked
    <3>1. CASE t = marked BY <2>5, <2>7, <3>1
    <3>2. CASE t = CleanBlockedQueue(marked)
      <4> DEFINE kept == {i \in DOMAIN marked.blocked :
                       \E j \in DOMAIN marked.blocked : j <= i /\ marked.blocked[j].st = "Blocked"}
                 newsent == [i \in DOMAIN marked.sent \cup (DOMAIN marked.blocked \ kept) |->
                         IF i \in DOMAIN marked.sent THEN marked.sent[i] ELSE None]
      <4>1. t = [marked EXCEPT !.blocked = Keep(marked.blocked, kept), !.sent = newsent]
        BY <2>6, <3>2 DEF CleanBlockedQueue, SenderTypeOK
      <4>2. \A i \in DOMAIN marked.blocked \ kept : marked.blocked[i].st # "Blocked"
        <5>1. \A i \in DOMAIN marked.blocked : i <= i BY <2>6 DEF SenderTypeOK
        <5> QED BY <5>1
      <4>3. kept \subseteq DOMAIN marked.blocked OBVIOUS
      <4>4. \A i \in DOMAIN newsent : \/ i \in DOMAIN marked.sent /\ newsent[i] = marked.sent[i]
                                      \/ i \in DOMAIN marked.blocked \ kept
        OBVIOUS
      <4> HIDE DEF kept, newsent
      <4>5. /\ t.last_sent = marked.last_sent /\ t.last_enqueued = marked.last_enqueued
            /\ t.unacked = marked.unacked /\ t.woken = marked.woken /\ t.sent = newsent
            /\ t.blocked = [x \in kept |-> marked.blocked[x]]
        BY <2>6, <4>1 DEF Keep, SenderTypeOK
      <4>6. DOMAIN t.blocked = kept /\ \A i \in kept : t.blocked[i] = marked.blocked[i]
        BY <4>5
      <4> QED BY <2>5, <2>7, <4>2, <4>3, <4>4, <4>5, <4>6
    <3> QED BY <2>4, <3>1, <3>2
  <2>9. s.last_sent <= t.last_sent BY <2>8 DEF SenderTypeOK
  <2>10. \A i \in DOMAIN t.blocked :
          /\ i \in DOMAIN s.blocked /\ t.blocked[i].pkt = s.blocked[i].pkt
          /\ t.blocked[i].waker \in {NoopWaker, s.blocked[i].waker}
          /\ t.blocked[i].st = "Blocked" => s.blocked[i].st = "Blocked" /\ i # id
    BY <2>2, <2>7, <2>8
  <2>11. \A i \in LiveBlocked(s) \ {id} :
            i \in DOMAIN t.blocked /\ t.blocked[i] = s.blocked[i]
    BY <2>7, <2>8 DEF LiveBlocked
  <2>12. \A i \in LiveBlocked(s) :
          \/ /\ i \in DOMAIN t.blocked /\ t.blocked[i].st = "Blocked"
             /\ t.blocked[i].waker = s.blocked[i].waker
          \/ /\ Woken(s.blocked[i]) \subseteq t.woken
             /\ i \in DOMAIN t.blocked => i \in {id}
    BY <2>3, <2>8, <2>11 DEF LiveBlocked
  <2>13. \A i \in DOMAIN t.sent :
          \/ i \in DOMAIN s.sent /\ t.sent[i] = s.sent[i]
          \/ /\ i \in DOMAIN s.blocked /\ i \notin DOMAIN t.blocked
             /\ i \notin LiveBlocked(s) \ {id}
    BY <2>8, <2>11
  <2> QED BY <2>3, <2>8, <2>9, <2>10, <2>12, <2>13 DEF Moves
<1>2. CASE ~CanCancelQueued(s, id)
  <2>1. t = s BY <1>2 DEF CancelQueuedPacket
  <2>2. Moves(s, t, {}) BY <2>1, SameMoves
  <2> QED BY <1>2, <2>1, <2>2 DEF CanCancelQueued, Moves
<1> QED BY <1>1, <1>2

\* Ranks start at one and tell the members of a set apart.
LEMMA RankPositive ==
  ASSUME NEW L \in SUBSET Nat, IsFiniteSet(L), NEW i \in L
  PROVE  Rank(L, i) \in Nat \ {0}
<1> DEFINE S == {j \in L : j <= i}
<1>1. i \in S /\ S \in SUBSET L OBVIOUS
<1>2. Rank(L, i) = Cardinality(S) BY DEF Rank
<1> HIDE DEF S
<1>3. IsFiniteSet(S) BY <1>1, FS_Subset
<1>4. Cardinality(S) \in Nat /\ (Cardinality(S) = 0 <=> S = {})
  BY <1>3, FS_CardinalityType, FS_EmptySet
<1> QED BY <1>1, <1>2, <1>4

LEMMA RankGrows ==
  ASSUME NEW L \in SUBSET Nat, IsFiniteSet(L), NEW i \in L, NEW j \in L, i < j
  PROVE  Rank(L, i) # Rank(L, j)
<1> DEFINE S == {x \in L : x <= i}
           T == {x \in L : x <= j}
<1>0. i \in Nat /\ j \in Nat /\ \A x \in L : x \in Nat /\ (x <= i => x <= j) OBVIOUS
<1>1. S \subseteq T /\ j \in T /\ j \notin S /\ T \in SUBSET L
  <2>1. S \subseteq T BY <1>0
  <2>2. j <= j /\ ~(j <= i) BY <1>0
  <2> QED BY <2>1, <2>2
<1>2. Rank(L, i) = Cardinality(S) /\ Rank(L, j) = Cardinality(T) BY DEF Rank
<1> HIDE DEF S, T
<1>3. IsFiniteSet(T) /\ S \in SUBSET T /\ S \cup {j} \in SUBSET T BY <1>1, FS_Subset
<1>4. IsFiniteSet(S) BY <1>3, FS_Subset
<1>5. Cardinality(S) \in Nat /\ Cardinality(T) \in Nat BY <1>3, <1>4, FS_CardinalityType
<1>6. Cardinality(S \cup {j}) = Cardinality(S) + 1 BY <1>1, <1>4, FS_AddElement
<1>7. Cardinality(S \cup {j}) <= Cardinality(T) BY <1>3, FS_Subset
<1> QED BY <1>2, <1>5, <1>6, <1>7

LEMMA RankInjective ==
  ASSUME NEW L \in SUBSET Nat, IsFiniteSet(L), NEW i \in L, NEW j \in L,
         Rank(L, i) = Rank(L, j)
  PROVE  i = j
<1>1. i < j \/ j < i \/ i = j OBVIOUS
<1> QED BY <1>1, RankGrows

\* The window is refilled from the queue: every packet that leaves it alive has a
\* number, and its task is woken.
LEMMA EnqueueBlockedPacketsMoves ==
  ASSUME NEW s, SenderTypeOK(s), UnackedInterval(s), DOMAIN s.sent \cap DOMAIN s.blocked = {},
         NEW t, t = EnqueueBlockedPackets(s)
  PROVE  Moves(s, t, {})
<1> DEFINE n == UnblockCount(s)
           live == LiveBlocked(s)
           nth(k) == CHOOSE i \in live : Rank(live, i) = k
           moved == {i \in live : Rank(live, i) <= n}
           kept == {i \in DOMAIN s.blocked : \E j \in live \ moved : j <= i}
           new == s.last_sent + 1 .. s.last_sent + n
           unacked == [m \in DOMAIN s.unacked \cup new |->
                IF m \in DOMAIN s.unacked THEN s.unacked[m]
                ELSE LET b == s.blocked[nth(m - s.last_sent)]
                     IN  UnackedEntry(b.pkt, b.limit)]
           sent == [i \in DOMAIN s.sent \cup (DOMAIN s.blocked \ kept) |->
                CASE i \in DOMAIN s.sent -> s.sent[i]
                  [] i \in moved -> s.last_sent + Rank(live, i)
                  [] OTHER -> None]
           woken == s.woken \cup UNION {Woken(s.blocked[i]) : i \in moved}
<1>1. n \in Nat /\ live \subseteq DOMAIN s.blocked /\ live \in SUBSET Nat
      /\ IsFiniteSet(live) /\ n <= Cardinality(live) /\ Cardinality(live) \in Nat
  BY UnblockCountType, FS_CardinalityType DEF LiveBlocked, SenderTypeOK
<1>2. s.last_sent \in Nat \cup {-1} /\ DOMAIN s.blocked \subseteq Nat
  BY DEF SenderTypeOK
<1>3. \A i \in DOMAIN s.blocked : i \in live <=> s.blocked[i].st = "Blocked"
  BY DEF LiveBlocked
<1> HIDE DEF n, live
<1>4. \A k \in 1 .. n : nth(k) \in live /\ Rank(live, nth(k)) = k
  <2> SUFFICES ASSUME NEW k \in 1 .. n PROVE nth(k) \in live /\ Rank(live, nth(k)) = k
    OBVIOUS
  <2>1. k \in 1 .. Cardinality(live)
    BY <1>1
  <2>2. \E i \in live : Rank(live, i) = k
    BY <2>1, <1>1, RankExists
  <2> QED BY <2>2
<1> HIDE DEF nth
<1>5. \A i \in live : Rank(live, i) \in Nat \ {0} BY <1>1, RankPositive
<1>6. \A i, j \in live : Rank(live, i) = Rank(live, j) => i = j BY <1>1, RankInjective
<1>7. \A i \in moved : i \in DOMAIN s.blocked \ kept
  <2> SUFFICES ASSUME NEW i \in moved, NEW j \in live \ moved, j <= i PROVE FALSE
    BY <1>1
  <2>1. Rank(live, j) \in Nat /\ Rank(live, i) \in Nat /\ Rank(live, j) <= Rank(live, i)
    BY <1>1, RankMonotone
  <2>2. Rank(live, j) <= n
    BY <2>1, <1>1
  <2> QED BY <2>2
<1>8. \A i \in live : i \in moved \/ i \in kept
  BY <1>1, <1>2
<1>9. \A m \in new : /\ m - s.last_sent \in 1 .. n /\ m > s.last_sent
                     /\ s.last_sent + (m - s.last_sent) = m /\ m \notin DOMAIN s.unacked
  BY <1>1, <1>2 DEF UnackedInterval
<1>10. \A i \in moved : /\ s.last_sent + Rank(live, i) \in new
                        /\ s.last_sent + Rank(live, i) - s.last_sent = Rank(live, i)
                        /\ nth(Rank(live, i)) = i
  <2> SUFFICES ASSUME NEW i \in moved
               PROVE  /\ s.last_sent + Rank(live, i) \in new
                      /\ s.last_sent + Rank(live, i) - s.last_sent = Rank(live, i)
                      /\ nth(Rank(live, i)) = i
    OBVIOUS
  <2>1. Rank(live, i) \in 1 .. n BY <1>1, <1>5
  <2>2. nth(Rank(live, i)) = i BY <1>4, <1>6, <2>1
  <2> QED BY <1>1, <1>2, <2>1, <2>2
<1>11. CASE n = 0
  BY <1>11, SameMoves DEF EnqueueBlockedPackets, n
<1>12. CASE n # 0
  <2>1. t = [s EXCEPT !.last_sent = s.last_sent + n, !.unacked = unacked,
                    !.blocked = Keep(s.blocked, kept), !.sent = sent, !.woken = woken]
    BY <1>12 DEF EnqueueBlockedPackets, SenderTypeOK, n, live, nth
  <2>2. DOMAIN unacked = DOMAIN s.unacked \cup new
        /\ \A m \in DOMAIN s.unacked : unacked[m] = s.unacked[m]
    OBVIOUS
  <2>3. \A m \in new : /\ unacked[m].waker = NoopWaker
                       /\ unacked[m].pkt = s.blocked[nth(m - s.last_sent)].pkt
    BY <1>9 DEF UnackedEntry
  <2>4. /\ \A i \in DOMAIN s.sent : sent[i] = s.sent[i]
        /\ \A i \in moved \ DOMAIN s.sent : sent[i] = s.last_sent + Rank(live, i)
        /\ DOMAIN sent = DOMAIN s.sent \cup (DOMAIN s.blocked \ kept)
    BY <1>7
  <2>5. s.woken \subseteq woken /\ \A i \in moved : Woken(s.blocked[i]) \subseteq woken
    OBVIOUS
  <2> HIDE DEF kept, unacked, sent, woken, moved, new
  <2>6. /\ t.last_sent = s.last_sent + n /\ t.unacked = unacked /\ t.sent = sent
        /\ t.last_enqueued = s.last_enqueued /\ t.woken = woken
        /\ t.blocked = [x \in kept |-> s.blocked[x]]
    BY <2>1 DEF Keep, SenderTypeOK
  <2>7. s.last_sent <= t.last_sent /\ new = s.last_sent + 1 .. t.last_sent
    BY <1>1, <1>2, <2>6 DEF new
  <2>8. DOMAIN t.blocked = kept /\ \A i \in kept : t.blocked[i] = s.blocked[i] BY <2>6
  <2>9. \A m \in new : /\ nth(m - s.last_sent) \in live /\ nth(m - s.last_sent) \in moved
                       /\ s.last_sent + Rank(live, nth(m - s.last_sent)) = m
    BY <1>1, <1>4, <1>9 DEF moved
  <2>10. \A i \in moved : i \in live /\ i \in DOMAIN t.sent /\ i \notin DOMAIN t.blocked
                          /\ t.sent[i] = s.last_sent + Rank(live, i)
    BY <1>1, <1>7, <2>4, <2>6, <2>8 DEF moved
  <2>11. ASSUME NEW m \in DOMAIN t.unacked
         PROVE  \/ /\ m \in DOMAIN s.unacked /\ t.unacked[m].pkt = s.unacked[m].pkt
                   /\ t.unacked[m].waker \in {NoopWaker, s.unacked[m].waker}
                \/ /\ m > s.last_sent /\ t.unacked[m].waker = NoopWaker
                   /\ \E i \in live : /\ i \in DOMAIN t.sent /\ i \notin DOMAIN t.blocked
                                      /\ t.sent[i] = m
                                      /\ t.unacked[m].pkt = s.blocked[i].pkt
    <3>1. CASE m \in DOMAIN s.unacked BY <2>2, <2>6, <3>1
    <3>2. CASE m \in new
      BY <1>9, <2>3, <2>6, <2>9, <2>10, <3>2
    <3> QED BY <2>2, <2>6, <3>1, <3>2
  <2>12. ASSUME NEW i \in DOMAIN t.sent
         PROVE  \/ i \in DOMAIN s.sent /\ t.sent[i] = s.sent[i]
                \/ /\ i \in DOMAIN s.blocked /\ i \notin DOMAIN t.blocked
                   /\ i \in live =>
                         /\ t.sent[i] \in s.last_sent + 1 .. t.last_sent
                         /\ t.sent[i] \in DOMAIN t.unacked
                         /\ t.unacked[t.sent[i]].pkt = s.blocked[i].pkt
    <3>1. CASE i \in DOMAIN s.sent BY <2>4, <2>6, <3>1
    <3>2. CASE i \in DOMAIN s.blocked \ kept
      <4>1. i \in live => i \in moved BY <1>8, <3>2
      <4>2. ASSUME i \in moved
            PROVE  /\ t.sent[i] \in new /\ t.unacked[t.sent[i]].pkt = s.blocked[i].pkt
        <5> DEFINE m == s.last_sent + Rank(live, i)
        <5>1. t.sent[i] = m BY <2>10, <4>2
        <5>2. m \in new BY <1>10, <4>2
        <5>3. nth(m - s.last_sent) = i
          <6>1. m - s.last_sent = Rank(live, i) BY <1>2, <1>5, <2>10, <4>2
          <6>2. nth(Rank(live, i)) = i BY <1>10, <4>2
          <6> HIDE DEF m
          <6> QED BY <6>1, <6>2, Zenon
        <5> HIDE DEF m
        <5>4. unacked[m].pkt = s.blocked[i].pkt BY <2>3, <5>2, <5>3
        <5> QED BY <2>6, <5>1, <5>2, <5>4
      <4> QED BY <2>2, <2>6, <2>7, <2>8, <3>2, <4>1, <4>2
    <3> QED BY <2>4, <2>6, <3>1, <3>2
  <2>13. \A i \in live :
          \/ /\ i \in DOMAIN t.blocked /\ t.blocked[i].st = "Blocked"
             /\ t.blocked[i].waker = s.blocked[i].waker
          \/ Woken(s.blocked[i]) \subseteq t.woken /\ i \notin DOMAIN t.blocked
    BY <1>1, <1>3, <1>8, <2>5, <2>6, <2>8, <2>10
  <2>14. \A m \in DOMAIN s.unacked : m \in DOMAIN t.unacked /\ t.unacked[m] = s.unacked[m]
    BY <2>2, <2>6
  <2>15. kept \subseteq DOMAIN s.blocked BY DEF kept
  <2> QED BY <2>5, <2>6, <2>7, <2>8, <2>11, <2>12, <2>13, <2>14, <2>15 DEF Moves, live
<1> QED BY <1>11, <1>12

\* An answer, then the window refilled.
LEMMA AnswerThenUnblock ==
  ASSUME NEW s, SenderTypeOK(s), NEW u, Moves(s, u, {}), u.blocked = s.blocked,
         u.last_sent = s.last_sent, NEW t, Moves(u, t, {})
  PROVE  Moves(s, t, {})
<1>1. LiveBlocked(u) = LiveBlocked(s) BY DEF LiveBlocked
<1>2. t.last_enqueued = s.last_enqueued /\ s.last_sent <= t.last_sent /\ s.woken \subseteq t.woken
  <2>1. t.last_enqueued = u.last_enqueued /\ u.last_sent <= t.last_sent /\ u.woken \subseteq t.woken
    BY DEF Moves
  <2>2. u.last_enqueued = s.last_enqueued /\ s.woken \subseteq u.woken BY DEF Moves
  <2> QED BY <2>1, <2>2
<1>3. \A n \in DOMAIN u.unacked : n \in DOMAIN s.unacked /\ u.unacked[n].pkt = s.unacked[n].pkt
                                  /\ u.unacked[n].waker \in {NoopWaker, s.unacked[n].waker}
  <2> SUFFICES ASSUME NEW n \in DOMAIN u.unacked, n > s.last_sent,
                      \E i \in LiveBlocked(s) : i \notin DOMAIN u.blocked
               PROVE  FALSE
    BY DEF Moves
  <2> QED BY DEF LiveBlocked
<1>4. \A i \in DOMAIN u.sent : \/ i \in DOMAIN s.sent /\ u.sent[i] = s.sent[i]
                               \/ i \in DOMAIN s.blocked /\ i \notin DOMAIN u.blocked
  BY ONLY Moves(s, u, {}) DEF Moves
<1>5. ASSUME NEW n \in DOMAIN s.unacked, Pending(s.unacked[n])
      PROVE  \/ /\ n \in DOMAIN t.unacked /\ Pending(t.unacked[n])
                /\ t.unacked[n].waker = s.unacked[n].waker
             \/ Woken(s.unacked[n]) \subseteq t.woken
  <2>1. CASE Woken(s.unacked[n]) \subseteq u.woken BY <2>1 DEF Moves
  <2>2. CASE /\ n \in DOMAIN u.unacked /\ Pending(u.unacked[n])
             /\ u.unacked[n].waker = s.unacked[n].waker
    <3>1. \/ /\ n \in DOMAIN t.unacked /\ Pending(t.unacked[n])
             /\ t.unacked[n].waker = u.unacked[n].waker
          \/ Woken(u.unacked[n]) \subseteq t.woken
      BY <2>2 DEF Moves
    <3> QED BY <2>2, <3>1 DEF Woken
  <2> QED BY <1>5, <2>1, <2>2 DEF Moves
<1>6. ASSUME NEW n \in DOMAIN t.unacked
      PROVE  \/ /\ n \in DOMAIN s.unacked /\ t.unacked[n].pkt = s.unacked[n].pkt
                /\ t.unacked[n].waker \in {NoopWaker, s.unacked[n].waker}
             \/ /\ n > s.last_sent /\ t.unacked[n].waker = NoopWaker
                /\ \E i \in LiveBlocked(s) : /\ i \in DOMAIN t.sent /\ i \notin DOMAIN t.blocked
                                             /\ t.sent[i] = n
                                             /\ t.unacked[n].pkt = s.blocked[i].pkt
  <2>1. \/ /\ n \in DOMAIN u.unacked /\ t.unacked[n].pkt = u.unacked[n].pkt
           /\ t.unacked[n].waker \in {NoopWaker, u.unacked[n].waker}
        \/ /\ n > u.last_sent /\ t.unacked[n].waker = NoopWaker
           /\ \E i \in LiveBlocked(u) : /\ i \in DOMAIN t.sent /\ i \notin DOMAIN t.blocked
                                        /\ t.sent[i] = n
                                        /\ t.unacked[n].pkt = u.blocked[i].pkt
    BY DEF Moves
  <2> QED BY <1>1, <1>3, <2>1
<1>7. \A i \in DOMAIN t.blocked :
          /\ i \in DOMAIN s.blocked /\ t.blocked[i].pkt = s.blocked[i].pkt
          /\ t.blocked[i].waker \in {NoopWaker, s.blocked[i].waker}
          /\ t.blocked[i].st = "Blocked" => s.blocked[i].st = "Blocked"
  BY DEF Moves
<1>8. \A i \in LiveBlocked(s) :
          \/ /\ i \in DOMAIN t.blocked /\ t.blocked[i].st = "Blocked"
             /\ t.blocked[i].waker = s.blocked[i].waker
          \/ /\ Woken(s.blocked[i]) \subseteq t.woken
             /\ i \in DOMAIN t.blocked => i \in {}
  BY <1>1 DEF Moves
<1>9. \A i \in DOMAIN t.sent :
          \/ i \in DOMAIN s.sent /\ t.sent[i] = s.sent[i]
          \/ /\ i \in DOMAIN s.blocked /\ i \notin DOMAIN t.blocked
             /\ i \in LiveBlocked(s) \ {} =>
                   /\ t.sent[i] \in s.last_sent + 1 .. t.last_sent
                   /\ t.sent[i] \in DOMAIN t.unacked
                   /\ t.unacked[t.sent[i]].pkt = s.blocked[i].pkt
  <2> SUFFICES ASSUME NEW i \in DOMAIN t.sent
               PROVE  \/ i \in DOMAIN s.sent /\ t.sent[i] = s.sent[i]
                      \/ /\ i \in DOMAIN s.blocked /\ i \notin DOMAIN t.blocked
                         /\ i \in LiveBlocked(s) =>
                               /\ t.sent[i] \in s.last_sent + 1 .. t.last_sent
                               /\ t.sent[i] \in DOMAIN t.unacked
                               /\ t.unacked[t.sent[i]].pkt = s.blocked[i].pkt
    OBVIOUS
  <2>1. \/ i \in DOMAIN u.sent /\ t.sent[i] = u.sent[i]
        \/ /\ i \in DOMAIN u.blocked /\ i \notin DOMAIN t.blocked
           /\ i \in LiveBlocked(u) =>
                 /\ t.sent[i] \in u.last_sent + 1 .. t.last_sent
                 /\ t.sent[i] \in DOMAIN t.unacked
                 /\ t.unacked[t.sent[i]].pkt = u.blocked[i].pkt
    BY DEF Moves
  <2> QED BY <1>1, <1>4, <2>1
<1> QED BY <1>2, <1>5, <1>6, <1>7, <1>8, <1>9 DEF Moves

-------------------------------------------------------------------------------
(* What the moves of the sender keep of the packets, the futures and the   *)
(* tasks.                                                                  *)

\* A number that the step from s to t gave out.
FreshNumber(s, t, x) ==
    /\ x.sn > s.last_sent /\ x.sn \in DOMAIN t.unacked /\ x.pkt = t.unacked[x.sn].pkt
    /\ \E i \in LiveBlocked(s) : /\ i \notin DOMAIN t.blocked
                                 /\ i \in DOMAIN t.sent /\ t.sent[i] = x.sn
                                 /\ x.pkt = s.blocked[i].pkt

LEMMA MovesNumbers ==
  ASSUME NEW s, NEW t, NEW X, Moves(s, t, X), NEW N, WindowNumbers(s) \subseteq N,
         NEW x \in WindowNumbers(t)
  PROVE  x \in N \/ FreshNumber(s, t, x)
<1>1. PICK n \in DOMAIN t.unacked : x = [sn |-> n, pkt |-> t.unacked[n].pkt]
  BY DEF WindowNumbers
<1>2. x.sn = n /\ x.pkt = t.unacked[n].pkt BY <1>1
<1>3. \/ n \in DOMAIN s.unacked /\ t.unacked[n].pkt = s.unacked[n].pkt
      \/ /\ n > s.last_sent
         /\ \E i \in LiveBlocked(s) : /\ i \in DOMAIN t.sent /\ i \notin DOMAIN t.blocked
                                      /\ t.sent[i] = n
                                      /\ t.unacked[n].pkt = s.blocked[i].pkt
  BY DEF Moves
<1>4. CASE n \in DOMAIN s.unacked /\ t.unacked[n].pkt = s.unacked[n].pkt
  <2>1. x = [sn |-> n, pkt |-> s.unacked[n].pkt] BY <1>1, <1>4
  <2>2. x \in WindowNumbers(s) BY <1>4, <2>1 DEF WindowNumbers
  <2> QED BY <2>2
<1>5. CASE /\ n > s.last_sent
           /\ \E i \in LiveBlocked(s) : /\ i \in DOMAIN t.sent /\ i \notin DOMAIN t.blocked
                                        /\ t.sent[i] = n
                                        /\ t.unacked[n].pkt = s.blocked[i].pkt
  BY <1>1, <1>2, <1>5 DEF FreshNumber
<1> QED BY <1>3, <1>4, <1>5

LEMMA MovesLive ==
  ASSUME NEW s, NEW t, NEW X, Moves(s, t, X), NEW i \in LiveBlocked(t)
  PROVE  i \in LiveBlocked(s) /\ t.blocked[i].pkt = s.blocked[i].pkt
BY DEF Moves, LiveBlocked

LEMMA MovesWaits ==
  ASSUME NEW s, NEW t, NEW X, Moves(s, t, X), NEW p, Waits(t, p)
  PROVE  Waits(s, p)
BY MovesLive DEF Waits

LEMMA MovesNumberedOnce ==
  ASSUME NEW s, SenderTypeOK(s), NEW t, NEW X, Moves(s, t, X),
         NEW N, NumberedOnce(s, N), WindowNumbers(s) \subseteq N,
         \A x \in N : x.sn \in Int /\ x.sn <= s.last_sent,
         NEW N2, N2 \subseteq N \cup WindowNumbers(t)
  PROVE  NumberedOnce(t, N2)
<1>0. s.last_sent \in Int BY DEF SenderTypeOK
<1>1. \A x \in N2 : x \in N \/ FreshNumber(s, t, x) BY MovesNumbers
<1>2. \A x \in N : ~(x.sn > s.last_sent) BY <1>0
<1>3. \A x : FreshNumber(s, t, x) => Waits(s, x.pkt) BY DEF FreshNumber, Waits
<1>4. \A x \in N : ~Waits(s, x.pkt) BY DEF NumberedOnce
<1>5. ASSUME NEW x, NEW y, FreshNumber(s, t, x), FreshNumber(s, t, y)
      PROVE  x.sn = y.sn <=> x.pkt = y.pkt
  <2>1. x.sn = y.sn => x.pkt = y.pkt BY <1>5 DEF FreshNumber
  <2>2. ASSUME x.pkt = y.pkt PROVE x.sn = y.sn
    <3>1. PICK i \in LiveBlocked(s) : t.sent[i] = x.sn /\ x.pkt = s.blocked[i].pkt
      BY <1>5 DEF FreshNumber
    <3>2. PICK j \in LiveBlocked(s) : t.sent[j] = y.sn /\ y.pkt = s.blocked[j].pkt
      BY <1>5 DEF FreshNumber
    <3>3. i = j BY <2>2, <3>1, <3>2 DEF NumberedOnce
    <3> QED BY <3>1, <3>2, <3>3
  <2> QED BY <2>1, <2>2
<1>6. ASSUME NEW x \in N, NEW y, FreshNumber(s, t, y)
      PROVE  x.sn # y.sn /\ x.pkt # y.pkt
  <2>1. y.sn > s.last_sent BY <1>6 DEF FreshNumber
  <2> QED BY <1>2, <1>3, <1>4, <1>6, <2>1
<1>7. \A x, y \in N2 : x.sn = y.sn <=> x.pkt = y.pkt
  <2> SUFFICES ASSUME NEW x \in N2, NEW y \in N2 PROVE x.sn = y.sn <=> x.pkt = y.pkt
    OBVIOUS
  <2>1. CASE x \in N /\ y \in N BY <2>1 DEF NumberedOnce
  <2>2. CASE x \in N /\ FreshNumber(s, t, y) BY <1>6, <2>2
  <2>3. CASE y \in N /\ FreshNumber(s, t, x) BY <1>6, <2>3
  <2>4. CASE FreshNumber(s, t, x) /\ FreshNumber(s, t, y) BY <1>5, <2>4
  <2> QED BY <1>1, <2>1, <2>2, <2>3, <2>4
<1>8. \A x \in N2 : ~Waits(t, x.pkt)
  <2> SUFFICES ASSUME NEW x \in N2, Waits(t, x.pkt) PROVE FALSE OBVIOUS
  <2>1. x \notin N BY <1>4, MovesWaits
  <2>2. PICK i \in LiveBlocked(s) : i \notin DOMAIN t.blocked /\ x.pkt = s.blocked[i].pkt
    BY <1>1, <2>1 DEF FreshNumber
  <2>3. PICK j \in LiveBlocked(t) : t.blocked[j].pkt = x.pkt BY DEF Waits
  <2>4. j \in LiveBlocked(s) /\ s.blocked[j].pkt = x.pkt BY <2>3, MovesLive
  <2>5. i = j BY <2>2, <2>4 DEF NumberedOnce
  <2>6. j \in DOMAIN t.blocked BY <2>3 DEF LiveBlocked
  <2> QED BY <2>2, <2>5, <2>6
<1>9. \A i, j \in LiveBlocked(t) : t.blocked[i].pkt = t.blocked[j].pkt => i = j
  <2> SUFFICES ASSUME NEW i \in LiveBlocked(t), NEW j \in LiveBlocked(t),
                      t.blocked[i].pkt = t.blocked[j].pkt
               PROVE  i = j
    OBVIOUS
  <2>1. i \in LiveBlocked(s) /\ t.blocked[i].pkt = s.blocked[i].pkt BY MovesLive
  <2>2. j \in LiveBlocked(s) /\ t.blocked[j].pkt = s.blocked[j].pkt BY MovesLive
  <2> QED BY <2>1, <2>2 DEF NumberedOnce
<1> QED BY <1>7, <1>8, <1>9 DEF NumberedOnce

LEMMA MovesOwnWakers ==
  ASSUME NEW s, NEW t, NEW X, Moves(s, t, X), OwnWakers(s)
  PROVE  OwnWakers(t)
<1>1. ASSUME NEW n \in DOMAIN t.unacked
      PROVE  t.unacked[n].waker \in {NoopWaker, t.unacked[n].pkt}
  BY DEF Moves, OwnWakers
<1>2. ASSUME NEW i \in DOMAIN t.blocked
      PROVE  t.blocked[i].waker \in {NoopWaker, t.blocked[i].pkt}
  BY DEF Moves, OwnWakers
<1> QED BY <1>1, <1>2 DEF OwnWakers

LEMMA MovesNames ==
  ASSUME NEW s, SenderTypeOK(s), NEW t, SenderTypeOK(t), NEW X, Moves(s, t, X),
         UnackedInterval(s), NEW id, id.n \in Nat, NEW p, Names(s, id, p),
         id.t = "Queued" => id.n \notin X
  PROVE  Names(t, id, p)
<1>1. s.last_sent \in Int /\ t.last_sent \in Int /\ s.last_sent <= t.last_sent
      /\ t.last_enqueued = s.last_enqueued
  BY DEF SenderTypeOK, Moves
<1>2. ASSUME NEW n \in DOMAIN t.unacked, n \in Int, n <= s.last_sent
      PROVE  n \in DOMAIN s.unacked /\ t.unacked[n].pkt = s.unacked[n].pkt
  <2>1. ~(n > s.last_sent) BY <1>1, <1>2
  <2> QED BY <2>1 DEF Moves
<1>3. ASSUME id.t = "Sent"
      PROVE  id.n <= t.last_sent /\ (id.n \in DOMAIN t.unacked => t.unacked[id.n].pkt = p)
  <2>1. id.n <= s.last_sent /\ (id.n \in DOMAIN s.unacked => s.unacked[id.n].pkt = p)
    BY <1>3 DEF Names
  <2> QED BY <1>1, <1>2, <2>1
<1>4. ASSUME id.t = "Queued"
      PROVE  /\ id.n <= t.last_enqueued
             /\ id.n \in DOMAIN t.blocked =>
                   t.blocked[id.n].pkt = p /\ t.blocked[id.n].st = "Blocked"
             /\ id.n \in DOMAIN t.sent =>
                   /\ t.sent[id.n] \in 0 .. t.last_sent
                   /\ t.sent[id.n] \in DOMAIN t.unacked => t.unacked[t.sent[id.n]].pkt = p
  <2> DEFINE i == id.n
  <2>1. /\ i <= s.last_enqueued /\ i \notin X
        /\ i \in DOMAIN s.blocked => s.blocked[i].pkt = p /\ i \in LiveBlocked(s)
        /\ i \in DOMAIN s.sent =>
              /\ s.sent[i] \in 0 .. s.last_sent
              /\ s.sent[i] \in DOMAIN s.unacked => s.unacked[s.sent[i]].pkt = p
    BY <1>4 DEF Names, LiveBlocked
  <2> HIDE DEF i
  <2>2. ASSUME i \in DOMAIN t.blocked PROVE t.blocked[i].pkt = p /\ t.blocked[i].st = "Blocked"
    <3>1. i \in DOMAIN s.blocked /\ t.blocked[i].pkt = s.blocked[i].pkt BY <2>2 DEF Moves
    <3> QED BY <2>1, <2>2, <3>1 DEF Moves
  <2>3. ASSUME i \in DOMAIN t.sent
        PROVE  /\ t.sent[i] \in 0 .. t.last_sent
               /\ t.sent[i] \in DOMAIN t.unacked => t.unacked[t.sent[i]].pkt = p
    <3>1. CASE i \in DOMAIN s.sent /\ t.sent[i] = s.sent[i]
      <4>1. s.sent[i] \in Int /\ 0 <= s.sent[i] /\ s.sent[i] <= s.last_sent
            /\ s.sent[i] \in 0 .. t.last_sent
        BY <1>1, <2>1, <3>1
      <4> QED BY <1>2, <2>1, <3>1, <4>1
    <3>2. CASE /\ i \in DOMAIN s.blocked
               /\ i \in LiveBlocked(s) \ X =>
                     /\ t.sent[i] \in s.last_sent + 1 .. t.last_sent
                     /\ t.sent[i] \in DOMAIN t.unacked
                     /\ t.unacked[t.sent[i]].pkt = s.blocked[i].pkt
      <4>1. t.sent[i] \in s.last_sent + 1 .. t.last_sent /\ t.unacked[t.sent[i]].pkt = p
        BY <2>1, <3>2
      <4>2. s.last_sent + 1 >= 0 BY DEF SenderTypeOK
      <4> QED BY <1>1, <4>1, <4>2
    <3> QED BY <2>3, <3>1, <3>2 DEF Moves
  <2> QED BY <1>1, <2>1, <2>2, <2>3 DEF i
<1> QED BY <1>3, <1>4 DEF Names

LEMMA MovesRegistered ==
  ASSUME NEW s, NEW t, NEW X, Moves(s, t, X), NEW p \in Pkts, Registered(s, p)
  PROVE  Registered(t, p) \/ p \in t.woken
<1>0. \A e : e.waker = p => p \in Woken(e) BY NoopWakerAssumption DEF Woken
<1>1. ASSUME NEW n \in DOMAIN s.unacked, s.unacked[n].waker = p, Pending(s.unacked[n])
      PROVE  Registered(t, p) \/ p \in t.woken
  <2>1. CASE /\ n \in DOMAIN t.unacked /\ Pending(t.unacked[n])
             /\ t.unacked[n].waker = s.unacked[n].waker
    BY <1>1, <2>1 DEF Registered
  <2>2. CASE Woken(s.unacked[n]) \subseteq t.woken BY <1>0, <1>1, <2>2
  <2> QED BY <1>1, <2>1, <2>2 DEF Moves
<1>2. ASSUME NEW i \in DOMAIN s.blocked, s.blocked[i].waker = p, s.blocked[i].st = "Blocked"
      PROVE  Registered(t, p) \/ p \in t.woken
  <2>0. i \in LiveBlocked(s) BY <1>2 DEF LiveBlocked
  <2>1. CASE /\ i \in DOMAIN t.blocked /\ t.blocked[i].st = "Blocked"
             /\ t.blocked[i].waker = s.blocked[i].waker
    BY <1>2, <2>1 DEF Registered
  <2>2. CASE Woken(s.blocked[i]) \subseteq t.woken BY <1>0, <1>2, <2>2
  <2> QED BY <2>0, <2>1, <2>2 DEF Moves
<1> QED BY <1>1, <1>2 DEF Registered

\* A future that the step is not about.
LEMMA MovesFuture ==
  ASSUME NEW s, SenderTypeOK(s), NEW t, SenderTypeOK(t), NEW X, Moves(s, t, X),
         UnackedInterval(s), NEW N, WindowNumbers(s) \subseteq N,
         NEW N2, N2 \subseteq N \cup WindowNumbers(t), NEW R, NEW R2, R \subseteq R2,
         NEW f, NEW g, NEW p \in Pkts, FutureOK(s, N, R, f, g, p), f.id.n \in Nat,
         f.kind \in Futures /\ f.gen = g /\ f.id.t = "Queued" => f.id.n \notin X
  PROVE  FutureOK(t, N2, R2, f, g, p)
<1>1. \A x \in N2 : x \in N \/ FreshNumber(s, t, x) BY MovesNumbers
<1>2. \A x : FreshNumber(s, t, x) => Waits(s, x.pkt) BY DEF FreshNumber, Waits
<1>3. Waits(t, p) => Waits(s, p) BY MovesWaits
<1>4. f.kind = "Unsent" => ~Waits(t, p) /\ \A x \in N2 : x.pkt # p
  BY <1>1, <1>2, <1>3 DEF FutureOK
<1>5. f.kind \in Futures /\ f.gen = g => Names(t, f.id, p)
  BY MovesNames DEF FutureOK
<1>6. OnlyRefused(s, N, R, p) => OnlyRefused(t, N2, R2, p)
  BY <1>1, <1>2, <1>3 DEF OnlyRefused
<1>7. Registered(s, p) => Registered(t, p) \/ p \in t.woken BY MovesRegistered
<1>8. s.woken \subseteq t.woken BY DEF Moves
<1> QED BY <1>4, <1>5, <1>6, <1>7, <1>8 DEF FutureOK

-------------------------------------------------------------------------------
(* Steps of the session and of a future.                                   *)

\* The two differ at most in the tasks that are awake.
SameButWoken(t, u) ==
    /\ u.window_size = t.window_size /\ u.stats = t.stats
    /\ u.last_sent = t.last_sent /\ u.unacked = t.unacked
    /\ u.last_enqueued = t.last_enqueued /\ u.blocked = t.blocked /\ u.sent = t.sent

LEMMA WokenAside ==
  ASSUME NEW t, SenderTypeOK(t), NEW W \in SUBSET Pkts, NEW u, u = [t EXCEPT !.woken = W]
  PROVE  SameButWoken(t, u) /\ SenderTypeOK(u) /\ u.woken = W
BY DEF SameButWoken, SenderTypeOK

LEMMA WokenFuture ==
  ASSUME NEW t, NEW u, SameButWoken(t, u), NEW N, NEW R, NEW f, NEW g, NEW p,
         p \in t.woken => p \in u.woken, FutureOK(t, N, R, f, g, p)
  PROVE  FutureOK(u, N, R, f, g, p)
<1>1. LiveBlocked(u) = LiveBlocked(t) BY DEF SameButWoken, LiveBlocked
<1>2. Waits(u, p) <=> Waits(t, p) BY <1>1 DEF Waits, SameButWoken
<1>3. Names(t, f.id, p) => Names(u, f.id, p) BY DEF Names, SameButWoken
<1>4. Registered(t, p) => Registered(u, p) BY DEF Registered, SameButWoken
<1>5. OnlyRefused(t, N, R, p) => OnlyRefused(u, N, R, p) BY <1>2 DEF OnlyRefused
<1> QED BY <1>2, <1>3, <1>4, <1>5 DEF FutureOK

LEMMA WokenNumbers ==
  ASSUME NEW t, NEW u, SameButWoken(t, u)
  PROVE  /\ WindowNumbers(u) = WindowNumbers(t)
         /\ \A N : NumberedOnce(t, N) => NumberedOnce(u, N)
         /\ OwnWakers(t) => OwnWakers(u)
<1>1. LiveBlocked(u) = LiveBlocked(t) /\ u.blocked = t.blocked /\ u.unacked = t.unacked
  BY DEF SameButWoken, LiveBlocked
<1>2. \A p : Waits(u, p) <=> Waits(t, p) BY <1>1 DEF Waits
<1> QED BY <1>1, <1>2 DEF WindowNumbers, NumberedOnce, OwnWakers

\* No number is known but from the window, the substrate or the log.
LEMMA CarriedBound ==
  ASSUME TypeOK, Agreement, NEW x \in Carried(send, net, log)
  PROVE  x.sn \in Int /\ x.sn <= send.last_sent
<1>0. send.last_sent \in Int /\ DOMAIN send.unacked \subseteq Nat BY DEF TypeOK, SenderTypeOK
<1>1. CASE x \in WindowNumbers(send)
  <2>1. PICK n \in DOMAIN send.unacked : x = [sn |-> n, pkt |-> send.unacked[n].pkt]
    BY <1>1 DEF WindowNumbers
  <2>2. x.sn = n BY <2>1
  <2>3. n <= send.last_sent BY <1>0 DEF Agreement, UnackedInterval
  <2> QED BY <1>0, <2>2, <2>3
<1>2. ASSUME NEW m \in net, x = [sn |-> m.sn, pkt |-> m.pkt]
      PROVE  x.sn \in Int /\ x.sn <= send.last_sent
  <2>1. m.sn \in Nat /\ m.sn <= send.last_sent BY DEF TypeOK, Messages, Agreement, IssuedFirst
  <2> QED BY <1>2, <2>1
<1>3. ASSUME NEW i \in 1 .. Len(log), x = log[i]
      PROVE  x.sn \in Int /\ x.sn <= send.last_sent
  <2>1. x.sn \in Accepted BY <1>3 DEF Accepted
  <2>2. x.sn \in 0 .. send.last_sent BY <2>1 DEF Agreement, IssuedFirst
  <2> QED BY <1>0, <2>2
<1> QED BY <1>1, <1>2, <1>3 DEF Carried

LEMMA CarriedStep ==
  ASSUME NEW s, NEW M, NEW L, NEW t, NEW M2, NEW L2,
         \A m \in M2 : m.type = "Data" =>
            m \in M \/ [sn |-> m.sn, pkt |-> m.pkt] \in WindowNumbers(t),
         \A i \in 1 .. Len(L2) : L2[i] \in Carried(s, M, L)
  PROVE  Carried(t, M2, L2) \subseteq Carried(s, M, L) \cup WindowNumbers(t)
<1> SUFFICES ASSUME NEW x \in Carried(t, M2, L2), x \notin WindowNumbers(t)
             PROVE  x \in Carried(s, M, L)
  OBVIOUS
<1>1. ASSUME NEW m \in M2, m.type = "Data", x = [sn |-> m.sn, pkt |-> m.pkt]
      PROVE  x \in Carried(s, M, L)
  <2>1. m \in M BY <1>1
  <2> QED BY <1>1, <2>1 DEF Carried
<1> QED BY <1>1 DEF Carried

LEMMA LogCarried ==
  ASSUME NEW s, NEW M, NEW L
  PROVE  \A i \in 1 .. Len(L) : L[i] \in Carried(s, M, L)
BY DEF Carried

LEMMA EgressNumbers ==
  ASSUME NEW s, NEW S, S \subseteq DOMAIN s.unacked, NEW m \in Egress(s, S)
  PROVE  [sn |-> m.sn, pkt |-> m.pkt] \in WindowNumbers(s)
<1>1. PICK n \in S : m = DataMsg(n, s.unacked[n].pkt) BY DEF Egress
<1>2. m.sn = n /\ m.pkt = s.unacked[n].pkt BY <1>1 DEF DataMsg
<1> QED BY <1>2 DEF WindowNumbers

\* A step of the sender that moves its entries: all futures but those in Q are
\* left alone.
LEMMA StepFutures ==
  ASSUME MTypeOK, Agreement, FuturesOK,
         NEW t, SenderTypeOK(t), NEW X, Moves(send, t, X), SameButWoken(t, send'),
         Carried(send', net', log') \subseteq Carried(send, net, log) \cup WindowNumbers(send'),
         refused \subseteq refused', generation' = generation,
         NEW Q,
         \A p \in Pkts \ Q :
            /\ fut'[p] = fut[p] /\ (p \in t.woken => p \in send'.woken)
            /\ fut[p].kind \in Futures /\ fut[p].gen = generation /\ fut[p].id.t = "Queued"
                  => fut[p].id.n \notin X,
         \A p \in Pkts \cap Q :
            FutureOK(send', Carried(send', net', log'), refused', fut'[p], generation, p)
  PROVE  FuturesOK'
<1> DEFINE N == Carried(send, net, log)
           N2 == Carried(send', net', log')
<1>1. TypeOK /\ SenderTypeOK(send) /\ UnackedInterval(send) BY DEF MTypeOK, TypeOK, Agreement
<1>2. WindowNumbers(send) \subseteq N BY DEF Carried
<1>3. \A x \in N : x.sn \in Int /\ x.sn <= send.last_sent BY <1>1, CarriedBound
<1>4. NumberedOnce(send, N) /\ OwnWakers(send)
      /\ \A p \in Pkts : FutureOK(send, N, refused, fut[p], generation, p)
  BY DEF FuturesOK
<1>5. N2 \subseteq N \cup WindowNumbers(t) BY WokenNumbers
<1>6. \A p \in Pkts : fut[p].id.n \in Nat BY DEF MTypeOK
<1> HIDE DEF N, N2
<1>7. NumberedOnce(t, N2) BY <1>1, <1>2, <1>3, <1>4, <1>5, MovesNumberedOnce
<1>8. OwnWakers(t) BY <1>4, MovesOwnWakers
<1>9. ASSUME NEW p \in Pkts \ Q PROVE FutureOK(send', N2, refused', fut'[p], generation, p)
  <2>1. FutureOK(t, N2, refused', fut[p], generation, p)
    BY <1>1, <1>2, <1>4, <1>5, <1>6, MovesFuture
  <2>2. FutureOK(send', N2, refused', fut[p], generation, p) BY <2>1, WokenFuture
  <2> QED BY <2>2
<1>10. \A p \in Pkts : FutureOK(send', N2, refused', fut'[p], generation, p) BY <1>9 DEF N2
<1>11. NumberedOnce(send', N2) /\ OwnWakers(send') BY <1>7, <1>8, WokenNumbers
<1> QED BY <1>10, <1>11 DEF FuturesOK, N2

\* A step that leaves the sender alone but for the future of q.
LEMMA QuietFutures ==
  ASSUME MTypeOK, Agreement, FuturesOK, UNCHANGED <<send, generation>>,
         refused \subseteq refused',
         Carried(send, net', log') \subseteq Carried(send, net, log) \cup WindowNumbers(send),
         NEW Q, \A p \in Pkts \ Q : fut'[p] = fut[p],
         \A p \in Pkts \cap Q :
            FutureOK(send, Carried(send, net', log'), refused', fut'[p], generation, p)
  PROVE  FuturesOK'
<1>1. SenderTypeOK(send) BY DEF MTypeOK, TypeOK
<1>2. Moves(send, send, {}) BY <1>1, SameMoves
<1>3. SameButWoken(send, send') BY DEF SameButWoken
<1>4. Carried(send', net', log') = Carried(send, net', log') /\ WindowNumbers(send') = WindowNumbers(send)
      /\ send'.woken = send.woken
  OBVIOUS
<1> QED BY <1>1, <1>2, <1>3, <1>4, StepFutures

\* A task that goes to sleep leaves its waker with the entry of its own packet.
LEMMA ParkedFutures ==
  ASSUME MTypeOK, FuturesOK, NEW q \in Pkts,
         send'.last_sent = send.last_sent, send'.last_enqueued = send.last_enqueued,
         send'.sent = send.sent, send'.woken = send.woken \ {q},
         DOMAIN send'.unacked = DOMAIN send.unacked,
         DOMAIN send'.blocked = DOMAIN send.blocked,
         \A n \in DOMAIN send.unacked :
            /\ send'.unacked[n].pkt = send.unacked[n].pkt
            /\ send'.unacked[n].st = send.unacked[n].st
            /\ \/ send'.unacked[n].waker = send.unacked[n].waker
               \/ send'.unacked[n].waker = q /\ send.unacked[n].pkt = q,
         \A i \in DOMAIN send.blocked :
            /\ send'.blocked[i].pkt = send.blocked[i].pkt
            /\ send'.blocked[i].st = send.blocked[i].st
            /\ \/ send'.blocked[i].waker = send.blocked[i].waker
               \/ send'.blocked[i].waker = q /\ send.blocked[i].pkt = q,
         Registered(send', q), Names(send', fut'[q].id, q),
         fut'[q].gen = fut[q].gen, fut'[q].kind = fut[q].kind, fut[q].kind \in Futures,
         fut'[q].res = "None", fut'[q].id.t # "Canceled",
         \A p \in Pkts \ {q} : fut'[p] = fut[p],
         UNCHANGED <<net, log, refused, generation>>
  PROVE  FuturesOK'
<1> DEFINE N == Carried(send, net, log)
<1>1. LiveBlocked(send') = LiveBlocked(send) BY DEF LiveBlocked
<1>2. \A p : Waits(send', p) <=> Waits(send, p)
  <2>1. \A i \in LiveBlocked(send) : send'.blocked[i].pkt = send.blocked[i].pkt BY DEF LiveBlocked
  <2> QED BY <1>1, <2>1 DEF Waits
<1>3. WindowNumbers(send') = WindowNumbers(send) BY DEF WindowNumbers
<1>4. Carried(send', net', log') = N BY <1>3 DEF Carried
<1>5. NumberedOnce(send, N) /\ OwnWakers(send)
      /\ \A p \in Pkts : FutureOK(send, N, refused, fut[p], generation, p)
  BY DEF FuturesOK
<1> HIDE DEF N
<1>6. NumberedOnce(send', N)
  <2>1. \A i \in LiveBlocked(send) : send'.blocked[i].pkt = send.blocked[i].pkt BY DEF LiveBlocked
  <2> QED BY <1>1, <1>2, <1>5, <2>1 DEF NumberedOnce
<1>7. OwnWakers(send') BY <1>5 DEF OwnWakers
<1>8. ASSUME NEW p \in Pkts \ {q} PROVE FutureOK(send', N, refused', fut'[p], generation', p)
  <2>1. FutureOK(send, N, refused, fut[p], generation, p) BY <1>5
  <2>2. Names(send, fut[p].id, p) => Names(send', fut[p].id, p)
    <3>1. \A n \in DOMAIN send.unacked : send'.unacked[n].pkt = send.unacked[n].pkt OBVIOUS
    <3>2. \A i \in DOMAIN send.blocked : /\ send'.blocked[i].pkt = send.blocked[i].pkt
                                         /\ send'.blocked[i].st = send.blocked[i].st
      OBVIOUS
    <3> QED BY <3>1, <3>2 DEF Names
  <2>3. Registered(send, p) => Registered(send', p)
    <3>1. ASSUME NEW n \in DOMAIN send.unacked, send.unacked[n].waker = p, Pending(send.unacked[n])
          PROVE  Registered(send', p)
      <4>1. send.unacked[n].pkt = p BY <1>5, <3>1, NoopWakerAssumption DEF OwnWakers
      <4>2. send'.unacked[n].waker = p /\ Pending(send'.unacked[n]) BY <3>1, <4>1 DEF Pending
      <4> QED BY <4>2 DEF Registered
    <3>2. ASSUME NEW i \in DOMAIN send.blocked, send.blocked[i].waker = p,
                 send.blocked[i].st = "Blocked"
          PROVE  Registered(send', p)
      <4>1. send.blocked[i].pkt = p BY <1>5, <3>2, NoopWakerAssumption DEF OwnWakers
      <4>2. send'.blocked[i].waker = p /\ send'.blocked[i].st = "Blocked" BY <3>2, <4>1
      <4> QED BY <4>2 DEF Registered
    <3> QED BY <3>1, <3>2 DEF Registered
  <2>4. OnlyRefused(send, N, refused, p) => OnlyRefused(send', N, refused, p)
    BY <1>2 DEF OnlyRefused
  <2>5. p \in send.woken => p \in send'.woken OBVIOUS
  <2>6. fut'[p] = fut[p] /\ refused' = refused /\ generation' = generation OBVIOUS
  <2> QED BY ONLY <1>2, <2>1, <2>2, <2>3, <2>4, <2>5, <2>6 DEF FutureOK
<1>9. FutureOK(send', N, refused', fut'[q], generation', q)
  <2>1. fut[q].gen <= generation BY <1>5 DEF FutureOK
  <2>2. fut'[q].kind # "Unsent" BY DEF Futures
  <2> QED BY <2>1, <2>2 DEF FutureOK
<1>10. \A p \in Pkts : FutureOK(send', N, refused', fut'[p], generation', p) BY <1>8, <1>9
<1> QED BY <1>4, <1>6, <1>7, <1>10 DEF FuturesOK

-------------------------------------------------------------------------------
(* The session under the futures.                                          *)

SessionOK == TypeOK /\ DecidesOnce /\ Agreement

LEMMA SessionStepKeeps ==
  ASSUME ShiftInRange, SessionOK, SessionStep
  PROVE  SessionOK'
<1>1. Next BY DEF SessionStep, Next
<1>2. [Next]_vars BY <1>1
<1>3. TypeOK /\ DecidesOnce /\ Agreement BY DEF SessionOK
<1>4. TypeOK' BY <1>2, <1>3, StepType
<1>5. DecidesOnce' BY <1>2, <1>3, StepDecides
<1>6. Agreement' BY <1>2, <1>3, <1>4, <1>5, StepAgrees
<1> QED BY <1>4, <1>5, <1>6 DEF SessionOK

\* A future edits entries of the queues, and asks for a cancellation at most.
LEMMA EditKeepsSession ==
  ASSUME SessionOK, UNCHANGED <<recv, timer, submitted, log, handled, refused>>,
         NEW t, Edits(send, t, {}, {}), Requeues(send, t),
         SameButWoken(t, send'), SenderTypeOK(send'),
         net' = net \/ \E sn \in DOMAIN send.unacked : net' = net \cup {CtlMsg("Cancel", sn)}
  PROVE  SessionOK'
<1>1. TypeOK /\ DecidesOnce /\ Agreement BY DEF SessionOK
<1>2. SenderTypeOK(send) /\ UnackedInterval(send) BY <1>1 DEF TypeOK, Agreement
<1>3. \A m \in net' : m \in net \/ \E sn \in DOMAIN send.unacked : m = CtlMsg("Cancel", sn)
  OBVIOUS
<1>4. \A sn \in DOMAIN send.unacked : sn \in Nat /\ sn <= send.last_sent
  BY <1>2 DEF SenderTypeOK, UnackedInterval
<1>5. net' \subseteq Messages
  <2>1. \A sn \in DOMAIN send.unacked : CtlMsg("Cancel", sn) \in Messages
    BY <1>4, CtlMsgType DEF CtlTypes
  <2> QED BY <1>1, <1>3, <2>1 DEF TypeOK
<1>6. TypeOK' BY <1>1, <1>5 DEF TypeOK
<1>7. \A m \in net' : m \in net \/ m.type \in {"Data", "Cancel"} BY <1>3, CtlMsgFields
<1>8. DecidesOnce' BY <1>1, <1>7, OtherStepDecides
<1>9. \A m \in net' : m \in net \/ m.sn <= send.last_sent BY <1>3, <1>4, CtlMsgFields
<1>10. Edits(send, send', {}, {}) /\ Requeues(send, send')
  <2>1. FrontOpen(t) => FrontOpen(send') BY DEF FrontOpen, SameButWoken
  <2>2. FrontBlocked(t) => FrontBlocked(send') BY DEF FrontBlocked, SameButWoken
  <2>3. Edits(send, send', {}, {}) BY <2>1 DEF Edits, SameButWoken
  <2>4. Requeues(send, send') BY <2>2 DEF Requeues, SameButWoken
  <2> QED BY <2>3, <2>4
<1>11. Agreement' BY <1>1, <1>6, <1>9, <1>10, CallerEditAgrees
<1> QED BY <1>6, <1>8, <1>11 DEF SessionOK

LEMMA QuietKeepsSession ==
  ASSUME SessionOK, UNCHANGED <<send, recv, net, timer, submitted, log, handled, refused>>
  PROVE  SessionOK'
<1>1. UNCHANGED vars BY DEF vars
<1>2. SenderTypeOK(send) BY DEF SessionOK, TypeOK
<1>3. Edits(send, send, {}, {}) BY SameUnacked
<1>4. Suffix(DOMAIN send.sent, DOMAIN send.sent) BY SuffixItself
<1>5. Requeues(send, send) BY <1>4, SameQueues
<1>6. SameButWoken(send, send') BY DEF SameButWoken
<1> QED BY <1>2, <1>3, <1>5, <1>6, EditKeepsSession

LEMMA SendPacketKeepsSession ==
  ASSUME SessionOK, NEW p \in Pkts, SendPacket(p)
  PROVE  SessionOK'
<1> DEFINE t == EnqueuePacket(send, p)
<1>1. TypeOK /\ DecidesOnce /\ Agreement BY DEF SessionOK
<1>2. SenderTypeOK(send) /\ UnackedInterval(send) BY <1>1 DEF TypeOK, Agreement
<1>3. SenderTypeOK(t) BY <1>2, EnqueuePacketType
<1>4. send' = [t EXCEPT !.woken = t.woken \cup {p}]
      /\ net' = net \cup Egress(t, DOMAIN t.unacked \ DOMAIN send.unacked)
      /\ timer' = NotifyRetry(send, t)
      /\ submitted' = Append(submitted, p)
      /\ UNCHANGED <<recv, log, handled, refused>>
  BY DEF SendPacket
<1>5. t.woken \cup {p} \in SUBSET Pkts BY <1>3 DEF SenderTypeOK
<1>6. SameButWoken(t, send') /\ SenderTypeOK(send') BY <1>3, <1>4, <1>5, WokenAside
<1>7. TypeOK'
  <2>1. net' \subseteq Messages BY <1>1, <1>3, <1>4, DataMsgType DEF TypeOK
  <2>2. timer' \in [armed : BOOLEAN, notified : BOOLEAN] BY <1>1, <1>4, NotifyRetryType DEF TypeOK
  <2>3. submitted' \in Seq(Pkts) BY <1>1, <1>4 DEF TypeOK
  <2> QED BY <1>1, <1>4, <1>6, <2>1, <2>2, <2>3 DEF TypeOK
<1>8. DecidesOnce'
  <2>1. \A m \in net' : m \in net \/ m.type \in {"Data", "Cancel"}
    BY <1>4, DataMsgFields DEF Egress
  <2> QED BY <1>1, <1>4, <2>1, OtherStepDecides
<1>9. RetryScheduled'
  <2>1. timer \in [armed : BOOLEAN, notified : BOOLEAN] BY <1>1 DEF TypeOK
  <2>2. RetryNeeded(send) => timer.armed \/ timer.notified BY <1>1 DEF Agreement, RetryScheduled
  <2>3. RetryNeeded(t) => timer'.armed \/ timer'.notified
    BY <1>4, <2>1, <2>2 DEF NotifyRetry
  <2>4. RetryNeeded(send') <=> RetryNeeded(t) BY <1>6 DEF RetryNeeded, SameButWoken
  <2> QED BY <2>3, <2>4 DEF RetryScheduled
<1>10. Edits(send, send, {}, {}) BY SameUnacked
<1>11. Issues(send, t) /\ QueueIntervals(t) /\ FrontBlocked(t)
  <2> HIDE DEF t
  <2>0. t = EnqueuePacket(send, p) BY DEF t
  <2>1. CASE EnqueueIsQueued(send)
    <3> DEFINE id == send.last_enqueued + 1
    <3>1. /\ t.last_sent = send.last_sent /\ t.window_size = send.window_size
          /\ t.stats = send.stats
          /\ t.unacked = send.unacked /\ t.sent = send.sent
          /\ t.last_enqueued = id
          /\ DOMAIN t.blocked = DOMAIN send.blocked \cup {id}
          /\ \A i \in DOMAIN send.blocked : i # id => t.blocked[i] = send.blocked[i]
          /\ t.blocked[id].st = "Blocked"
      BY <1>2, <2>0, <2>1, EnqueuePacketQueued
    <3>2. Issues(send, t)
      <4>1. Issues(send, send) BY <1>2, IssuesNothing
      <4> QED BY <3>1, <4>1 DEF Issues
    <3>3. send.last_enqueued \in Nat \cup {-1} BY <1>2 DEF SenderTypeOK
    <3>4. PICK a, b \in Nat : /\ a <= b /\ b <= send.last_enqueued + 1
                              /\ DOMAIN send.blocked = b .. send.last_enqueued
                              /\ DOMAIN send.sent = a .. (b - 1)
      BY <1>1 DEF Agreement, QueueIntervals
    <3>5. DOMAIN t.blocked = b .. t.last_enqueued /\ b <= t.last_enqueued + 1
      BY <3>1, <3>3, <3>4
    <3>6. QueueIntervals(t) BY <3>1, <3>4, <3>5 DEF QueueIntervals
    <3>7. FrontBlocked(t)
      <4> SUFFICES ASSUME NEW i \in DOMAIN t.blocked, IsFront(t.blocked, i), i # id
                   PROVE  t.blocked[i].st = "Blocked"
        BY <3>1 DEF FrontBlocked
      <4>1. i \in DOMAIN send.blocked /\ t.blocked[i] = send.blocked[i] BY <3>1
      <4>2. IsFront(send.blocked, i) BY <3>1 DEF IsFront
      <4> QED BY <1>1, <4>1, <4>2 DEF Agreement, FrontBlocked
    <3> QED BY <3>2, <3>6, <3>7
  <2>2. CASE ~EnqueueIsQueued(send)
    <3>1. /\ Issues(send, t)
          /\ t.last_enqueued = send.last_enqueued /\ t.blocked = send.blocked
          /\ t.sent = send.sent
      BY <1>2, <2>0, <2>2, EnqueuePacketSent
    <3> QED BY <1>1, <3>1 DEF Agreement, QueueIntervals, FrontBlocked
  <2> QED BY <2>1, <2>2
<1> HIDE DEF t
<1>12. UnackedInterval(t) BY <1>1, <1>2, <1>11, IssuesShape DEF Agreement
<1>13. \A m \in net' : m \in net \/ m.sn <= send'.last_sent
  BY <1>3, <1>4, <1>6, <1>12, EgressIssued DEF SameButWoken
<1>14. Issues(send, send') /\ QueueIntervals(send') /\ FrontBlocked(send')
  BY <1>6, <1>11 DEF SameButWoken, Issues, QueueIntervals, FrontBlocked
<1>15. Agreement'
  <2>1. {} \subseteq Accepted \cup refused /\ {} \subseteq refused \ Accepted
    OBVIOUS
  <2>2. UNCHANGED <<recv, log, refused>> BY <1>4
  <2> QED BY ONLY <1>1, <1>2, <2>1, <2>2, <1>9, <1>10, <1>13, <1>14, SenderStepAgrees
<1> QED BY <1>7, <1>8, <1>15 DEF SessionOK

\* The restart: a new session, and the tasks that waited in the old one are awake.
LEMMA ResetShape ==
  ASSUME SenderTypeOK(send), send' = ResetSender(send)
  PROVE  /\ SenderTypeOK(send')
         /\ send'.window_size = 1 /\ send'.last_sent = -1 /\ send'.last_enqueued = -1
         /\ DOMAIN send'.unacked = {} /\ DOMAIN send'.blocked = {} /\ DOMAIN send'.sent = {}
         /\ send'.stats = {} /\ send'.woken = send.woken \cup Waiters(send)
<1> DEFINE W == send.woken \cup Waiters(send)
<1>1. W \in SUBSET Pkts
  <2>1. \A n \in DOMAIN send.unacked : send.unacked[n].waker \in Tasks
    BY DEF SenderTypeOK, UnackedEntries
  <2>2. \A i \in DOMAIN send.blocked : send.blocked[i].waker \in Tasks
    BY DEF SenderTypeOK, BlockedEntries
  <2>3. Waiters(send) \subseteq Pkts BY <2>1, <2>2 DEF Waiters, Tasks
  <2> QED BY <2>3 DEF SenderTypeOK
<1>2. send' = [NewSender EXCEPT !.woken = W] BY DEF ResetSender
<1> HIDE DEF W
<1>3. SenderTypeOK(NewSender) BY NewSenderType
<1>4. SameButWoken(NewSender, send') /\ SenderTypeOK(send') /\ send'.woken = W
  BY <1>1, <1>2, <1>3, WokenAside
<1>5. /\ NewSender.window_size = 1 /\ NewSender.last_sent = -1 /\ NewSender.last_enqueued = -1
      /\ DOMAIN NewSender.unacked = {} /\ DOMAIN NewSender.blocked = {}
      /\ DOMAIN NewSender.sent = {} /\ NewSender.stats = {}
  BY DEF NewSender
<1> QED BY <1>4, <1>5 DEF SameButWoken, W

LEMMA ResetKeepsSession ==
  ASSUME SessionOK, ResetSession
  PROVE  SessionOK'
<1>0. SenderTypeOK(send) /\ TypeOK BY DEF SessionOK, TypeOK
<1>1. /\ SenderTypeOK(send')
      /\ send'.window_size = 1 /\ send'.last_sent = -1 /\ send'.last_enqueued = -1
      /\ DOMAIN send'.unacked = {} /\ DOMAIN send'.blocked = {} /\ DOMAIN send'.sent = {}
      /\ send'.stats = {}
  BY <1>0, ResetShape DEF ResetSession
<1>2. recv'.highest_seen = -1 /\ recv'.recvd = Positions /\ recv'.stats = {}
      /\ ReceiverTypeOK(recv')
  BY NewReceiverType DEF ResetSession, NewReceiver
<1>3. log' = <<>> /\ Len(log') = 0 /\ refused' = {} /\ net' = {} /\ handled' = 0
      /\ UNCHANGED <<timer, submitted>>
  BY DEF ResetSession
<1>4. Accepted' = {} BY <1>3 DEF Accepted
<1>5. TypeOK' BY <1>0, <1>1, <1>2, <1>3 DEF TypeOK
<1>6. DecidesOnce'
  <2>1. \A i \in Positions : ~(-1 - i >= 0) BY WindowAssumption DEF Positions
  <2> QED BY <1>2, <1>3, <1>4, <2>1 DEF DecidesOnce, WindowRemembers, AtMostOnce, AnswersTruthful
<1>7. 0 .. -1 = {} /\ 0 - 1 = -1 /\ -1 + 1 = 0 /\ -1 + 1 - 0 = 0 OBVIOUS
<1>8. UnackedInterval(send')
  <2>1. /\ 0 <= send'.last_sent + 1 /\ DOMAIN send'.unacked = 0 .. send'.last_sent
        /\ send'.last_sent + 1 - 0 <= send'.window_size
    BY <1>1, <1>7
  <2>2. 0 \in Nat OBVIOUS
  <2> QED BY <2>1, <2>2 DEF UnackedInterval
<1>9. QueueIntervals(send') BY <1>1, <1>7 DEF QueueIntervals
<1>10. send'.window_size <= RecvWindowSize BY <1>1, WindowAssumption
<1>11. SenderBelievesTruth' BY <1>1, <1>7 DEF SenderBelievesTruth
<1>12. RetryScheduled' BY <1>1 DEF RetryScheduled, RetryNeeded
<1>13. NoWindowViolation' /\ IssuedFirst' /\ PastReceived(recv')
  BY <1>1, <1>2, <1>3, <1>4 DEF NoWindowViolation, IssuedFirst, PastReceived
<1>14. FrontOpen(send') /\ FrontBlocked(send') BY <1>1 DEF FrontOpen, FrontBlocked
<1>15. Agreement' BY <1>8, <1>9, <1>10, <1>11, <1>12, <1>13, <1>14 DEF Agreement
<1> QED BY <1>5, <1>6, <1>15 DEF SessionOK

-------------------------------------------------------------------------------
(* The futures under the steps of the session.                             *)

LEMMA SameAsItself == \A s : SameButWoken(s, s)
BY DEF SameButWoken

\* The step is about no future: t is the new sender.
LEMMA SessionMoves ==
  ASSUME MTypeOK, Agreement, FuturesOK, SenderTypeOK(send'), Moves(send, send', {}),
         \A m \in net' : m.type = "Data" =>
            m \in net \/ [sn |-> m.sn, pkt |-> m.pkt] \in WindowNumbers(send'),
         UNCHANGED <<log, refused, fut, generation>>
  PROVE  FuturesOK'
<1>1. SameButWoken(send', send') BY SameAsItself
<1>2. \A i \in 1 .. Len(log') : log'[i] \in Carried(send, net, log) BY LogCarried
<1>3. Carried(send', net', log') \subseteq Carried(send, net, log) \cup WindowNumbers(send')
  BY <1>2, CarriedStep
<1>4. \A p \in Pkts \ {} :
         /\ fut'[p] = fut[p] /\ (p \in send'.woken => p \in send'.woken)
         /\ fut[p].kind \in Futures /\ fut[p].gen = generation /\ fut[p].id.t = "Queued"
               => fut[p].id.n \notin {}
  OBVIOUS
<1>5. \A p \in Pkts \cap {} :
         FutureOK(send', Carried(send', net', log'), refused', fut'[p], generation, p)
  OBVIOUS
<1>6. refused \subseteq refused' /\ generation' = generation OBVIOUS
<1> QED BY <1>1, <1>3, <1>4, <1>5, <1>6, StepFutures

\* The sender is left alone too.
LEMMA QuietSession ==
  ASSUME MTypeOK, Agreement, FuturesOK, UNCHANGED <<send, fut, generation>>,
         refused \subseteq refused',
         \A m \in net' : m.type = "Data" => m \in net,
         \A i \in 1 .. Len(log') : log'[i] \in Carried(send, net, log)
  PROVE  FuturesOK'
<1>1. Carried(send, net', log') \subseteq Carried(send, net, log) \cup WindowNumbers(send)
  BY CarriedStep
<1>2. \A p \in Pkts \ {} : fut'[p] = fut[p] OBVIOUS
<1>3. \A p \in Pkts \cap {} :
         FutureOK(send, Carried(send, net', log'), refused', fut'[p], generation, p)
  OBVIOUS
<1> QED BY <1>1, <1>2, <1>3, QuietFutures

LEMMA RecvDataFutures ==
  ASSUME MTypeOK, Agreement, FuturesOK, NEW m \in net, RecvData(m), UNCHANGED <<fut, generation>>
  PROVE  FuturesOK'
<1> DEFINE N == Carried(send, net, log)
<1>1. m.type = "Data" /\ UNCHANGED <<send, refused>>
      /\ (net' = net \/ \E t \in {"Ignore", "Ack", "Canceled"} : net' = net \cup {CtlMsg(t, m.sn)})
      /\ (log' = log \/ log' = Append(log, [sn |-> m.sn, pkt |-> m.pkt]))
  BY DispositionType DEF RecvData
<1>2. \A x \in net' : x.type = "Data" => x \in net
  BY <1>1, CtlMsgFields
<1>3. [sn |-> m.sn, pkt |-> m.pkt] \in N BY <1>1 DEF Carried
<1>4. \A i \in 1 .. Len(log) : log[i] \in N BY LogCarried
<1> HIDE DEF N
<1>5. \A i \in 1 .. Len(log') : log'[i] \in N
  <2>1. CASE log' = log BY <1>4, <2>1
  <2>2. CASE log' = Append(log, [sn |-> m.sn, pkt |-> m.pkt])
    <3>1. log \in Seq([sn : Nat, pkt : Pkts]) BY DEF MTypeOK, TypeOK
    <3>2. Len(log') = Len(log) + 1 /\ Len(log) \in Nat
          /\ \A i \in 1 .. Len(log') :
                log'[i] = IF i = Len(log) + 1 THEN [sn |-> m.sn, pkt |-> m.pkt] ELSE log[i]
      BY <2>2, <3>1
    <3> QED BY <1>3, <1>4, <3>2
  <2> QED BY <1>1, <2>1, <2>2
<1>6. refused \subseteq refused' BY <1>1
<1> QED BY <1>1, <1>2, <1>5, <1>6, QuietSession DEF N

LEMMA RecvCancelFutures ==
  ASSUME MTypeOK, Agreement, FuturesOK, NEW m \in net, RecvCancel(m), UNCHANGED <<fut, generation>>
  PROVE  FuturesOK'
<1>1. UNCHANGED <<send, log>> /\ refused \subseteq refused'
      /\ (net' = net \/ \E t \in {"Ignore", "Ack", "Canceled"} : net' = net \cup {CtlMsg(t, m.sn)})
  BY DispositionType DEF RecvCancel
<1>2. \A x \in net' : x.type = "Data" => x \in net BY <1>1, CtlMsgFields
<1>3. \A i \in 1 .. Len(log') : log'[i] \in Carried(send, net, log) BY <1>1, LogCarried
<1> QED BY <1>1, <1>2, <1>3, QuietSession

LEMMA RecvAnswerFutures ==
  ASSUME MTypeOK, TypeOK', Agreement, FuturesOK, NEW m \in net, RecvAnswer(m),
         UNCHANGED <<fut, generation>>
  PROVE  FuturesOK'
<1> DEFINE u == ProcessAnswer(m)
<1>1. SenderTypeOK(send) /\ SenderTypeOK(send') /\ TypeOK BY DEF MTypeOK, TypeOK
<1>2. SenderTypeOK(u) BY <1>1, ProcessAckType, ProcessCanceledType DEF ProcessAnswer
<1>3. /\ send' = EnqueueBlockedPackets(u) /\ UNCHANGED <<log, refused>>
      /\ net' = net \cup Egress(send', DOMAIN send'.unacked \ DOMAIN u.unacked)
      /\ m.type \in {"Ack", "Canceled"}
  BY DEF RecvAnswer
<1>4. m.sn \in Nat /\ m.sn <= send.last_sent BY <1>1 DEF TypeOK, Messages, Agreement, IssuedFirst
<1>5. FrontOpen(send) /\ UnackedInterval(send) /\ QueueIntervals(send) /\ FrontBlocked(send)
  BY DEF Agreement
<1>6. Requeues(send, u) /\ \E A, C : Edits(send, u, A, C)
  BY <1>1, <1>3, <1>4, <1>5, ProcessAckEdits, ProcessCanceledEdits DEF ProcessAnswer
<1>7. Moves(send, u, {}) /\ u.blocked = send.blocked /\ u.last_sent = send.last_sent
  BY <1>1, ProcessAnswerMoves
<1> HIDE DEF u
<1>8. UnackedInterval(u) BY <1>1, <1>5, <1>6, EditsShape
<1>9. QueueIntervals(u) BY <1>1, <1>5, <1>6, RequeuesShape
<1>10. DOMAIN u.sent \cap DOMAIN u.blocked = {}
  <2>1. PICK a, b \in Nat : /\ DOMAIN u.blocked = b .. u.last_enqueued
                            /\ DOMAIN u.sent = a .. (b - 1)
    BY <1>9 DEF QueueIntervals
  <2>2. u.last_enqueued \in Int BY <1>2 DEF SenderTypeOK
  <2> QED BY <2>1, <2>2
<1>11. Moves(u, send', {}) BY <1>2, <1>3, <1>8, <1>10, EnqueueBlockedPacketsMoves
<1>12. Moves(send, send', {}) BY <1>1, <1>7, <1>11, AnswerThenUnblock
<1>13. \A x \in net' : x \in net \/ [sn |-> x.sn, pkt |-> x.pkt] \in WindowNumbers(send')
  BY <1>3, EgressNumbers
<1> QED BY <1>1, <1>3, <1>12, <1>13, SessionMoves

LEMMA RetryTickFutures ==
  ASSUME MTypeOK, TypeOK', Agreement, FuturesOK, RetryTick, UNCHANGED <<fut, generation>>
  PROVE  FuturesOK'
<1>1. SenderTypeOK(send) /\ SenderTypeOK(send') BY DEF MTypeOK, TypeOK
<1>2. /\ send' = AgeRetries(send) /\ UNCHANGED <<log, refused>>
      /\ net' = net \cup Egress(send', RetryPackets(send'))
                    \cup {CtlMsg("Cancel", n) : n \in RetryCancels(send')}
  BY DEF RetryTick
<1>3. Moves(send, send', {}) BY <1>1, <1>2, AgeRetriesMoves
<1>4. RetryPackets(send') \subseteq DOMAIN send'.unacked BY DEF RetryPackets
<1>5. \A x \in Egress(send', RetryPackets(send')) :
         [sn |-> x.sn, pkt |-> x.pkt] \in WindowNumbers(send')
  BY <1>4, EgressNumbers
<1>6. \A x \in net' : x.type = "Data" =>
         x \in net \/ [sn |-> x.sn, pkt |-> x.pkt] \in WindowNumbers(send')
  <2>1. ASSUME NEW x \in net', x.type = "Data", x \notin net
        PROVE  x \in Egress(send', RetryPackets(send'))
    BY <1>2, <2>1, CtlMsgFields
  <2> QED BY <1>5, <2>1
<1> QED BY <1>1, <1>2, <1>3, <1>6, SessionMoves

LEMMA SessionStepFutures ==
  ASSUME MTypeOK, TypeOK', Agreement, FuturesOK, SessionStep
  PROVE  FuturesOK'
<1>0. UNCHANGED <<fut, generation>> BY DEF SessionStep
<1>1. CASE ApplyWindowSize
  <2>1. SenderTypeOK(send) /\ SenderTypeOK(send') BY DEF MTypeOK, TypeOK
  <2>2. send' = [send EXCEPT !.window_size = RecvWindowSize] /\ UNCHANGED <<net, log, refused>>
    BY <1>1 DEF ApplyWindowSize, AdjustWindowSize
  <2>3. /\ send'.last_sent = send.last_sent /\ send'.unacked = send.unacked
        /\ send'.last_enqueued = send.last_enqueued /\ send'.blocked = send.blocked
        /\ send'.sent = send.sent /\ send'.woken = send.woken
    BY <2>1, <2>2 DEF SenderTypeOK
  <2>4. Moves(send, send', {}) BY <2>1, <2>3, SameMoves
  <2> QED BY <1>0, <2>1, <2>2, <2>4, SessionMoves
<1>2. ASSUME NEW m \in net, RecvData(m) PROVE FuturesOK' BY <1>0, <1>2, RecvDataFutures
<1>3. ASSUME NEW m \in net, RecvCancel(m) PROVE FuturesOK' BY <1>0, <1>3, RecvCancelFutures
<1>4. ASSUME NEW m \in net, RecvAnswer(m) PROVE FuturesOK' BY <1>0, <1>4, RecvAnswerFutures
<1>5. CASE RetryTick BY <1>0, <1>5, RetryTickFutures
<1>6. CASE UNCHANGED <<send, log, refused>> /\ net' \subseteq net
  <2>1. \A i \in 1 .. Len(log') : log'[i] \in Carried(send, net, log) BY <1>6, LogCarried
  <2>2. \A m \in net' : m.type = "Data" => m \in net BY <1>6
  <2>3. refused \subseteq refused' BY <1>6
  <2> QED BY <1>0, <1>6, <2>1, <2>2, <2>3, QuietSession
<1>7. (\E m \in net : Lose(m)) \/ HandleNext \/ RetryTimerReset
        => UNCHANGED <<send, log, refused>> /\ net' \subseteq net
  BY DEF Lose, HandleNext, RetryTimerReset
<1> QED BY <1>1, <1>2, <1>3, <1>4, <1>5, <1>6, <1>7 DEF SessionStep

-------------------------------------------------------------------------------
(* The futures under their own steps.                                      *)

FutureRecs == [kind : Futures \cup {"Unsent", "Gone"},
               id : [t : {"Queued", "Sent", "Acked", "Canceled"}, n : Nat],
               gen : 0 .. MaxRestarts,
               res : {"None", "Acked", "Canceled", "LinkClosed"} \cup Panicked]

\* The future of p, and no other, becomes this.
Becomes(p, kind, id, gen, res) ==
    /\ fut' \in [Pkts -> FutureRecs]
    /\ fut'[p].kind = kind /\ fut'[p].id = id /\ fut'[p].gen = gen /\ fut'[p].res = res
    /\ \A q \in Pkts \ {p} : fut'[q] = fut[q]

LEMMA FutureType == MTypeOK <=> /\ TypeOK /\ fut \in [Pkts -> FutureRecs]
                                /\ generation \in 0 .. MaxRestarts
BY DEF MTypeOK, FutureRecs

LEMMA IdTypes ==
  /\ \A n \in Nat : Queued(n) \in [t : {"Queued", "Sent", "Acked", "Canceled"}, n : Nat]
  /\ \A n \in Nat \cup {None} : SentAs(n) \in [t : {"Queued", "Sent", "Acked", "Canceled"}, n : Nat]
  /\ CanceledId \in [t : {"Queued", "Sent", "Acked", "Canceled"}, n : Nat]
BY DEF Queued, SentAs, CanceledId, None

LEMMA BecomesThis ==
  ASSUME fut \in [Pkts -> FutureRecs], NEW p \in Pkts, NEW f \in FutureRecs,
         fut' = [fut EXCEPT ![p] = f]
  PROVE  Becomes(p, f.kind, f.id, f.gen, f.res)
BY DEF Becomes

LEMMA KindBecomes ==
  ASSUME fut \in [Pkts -> FutureRecs], NEW p \in Pkts,
         NEW k \in Futures \cup {"Unsent", "Gone"}, fut' = [fut EXCEPT ![p].kind = k]
  PROVE  Becomes(p, k, fut[p].id, fut[p].gen, fut[p].res)
BY DEF Becomes, FutureRecs

LEMMA ResBecomes ==
  ASSUME fut \in [Pkts -> FutureRecs], NEW p \in Pkts,
         NEW r \in {"None", "Acked", "Canceled", "LinkClosed"} \cup Panicked,
         fut' = [fut EXCEPT ![p].res = r]
  PROVE  Becomes(p, fut[p].kind, fut[p].id, fut[p].gen, r)
BY DEF Becomes, FutureRecs

LEMMA IdBecomes ==
  ASSUME fut \in [Pkts -> FutureRecs], NEW p \in Pkts,
         NEW i \in [t : {"Queued", "Sent", "Acked", "Canceled"}, n : Nat],
         fut' = [fut EXCEPT ![p].id = i]
  PROVE  Becomes(p, fut[p].kind, i, fut[p].gen, fut[p].res)
BY DEF Becomes, FutureRecs

LEMMA KindIdBecomes ==
  ASSUME fut \in [Pkts -> FutureRecs], NEW p \in Pkts,
         NEW k \in Futures \cup {"Unsent", "Gone"},
         NEW i \in [t : {"Queued", "Sent", "Acked", "Canceled"}, n : Nat],
         fut' = [fut EXCEPT ![p].kind = k, ![p].id = i]
  PROVE  Becomes(p, k, i, fut[p].gen, fut[p].res)
<1>1. fut' = [fut EXCEPT ![p] = [[fut[p] EXCEPT !.kind = k] EXCEPT !.id = i]] OBVIOUS
<1>2. [[fut[p] EXCEPT !.kind = k] EXCEPT !.id = i] \in FutureRecs BY DEF FutureRecs
<1> QED BY <1>1, <1>2 DEF Becomes, FutureRecs

LEMMA IdResBecomes ==
  ASSUME fut \in [Pkts -> FutureRecs], NEW p \in Pkts,
         NEW i \in [t : {"Queued", "Sent", "Acked", "Canceled"}, n : Nat],
         NEW r \in {"None", "Acked", "Canceled", "LinkClosed"} \cup Panicked,
         fut' = [fut EXCEPT ![p].id = i, ![p].res = r]
  PROVE  Becomes(p, fut[p].kind, i, fut[p].gen, r)
BY DEF Becomes, FutureRecs

LEMMA SentBecomes ==
  ASSUME fut \in [Pkts -> FutureRecs], NEW p \in Pkts,
         NEW k \in Futures \cup {"Unsent", "Gone"}, NEW g \in 0 .. MaxRestarts,
         NEW i \in [t : {"Queued", "Sent", "Acked", "Canceled"}, n : Nat],
         fut' = [fut EXCEPT ![p].kind = k, ![p].gen = g, ![p].id = i]
  PROVE  Becomes(p, k, i, g, fut[p].res)
BY DEF Becomes, FutureRecs

\* A packet is added to the window or to the queue; the rest stays.
Adds(s, t, p) ==
    /\ t.sent = s.sent
    /\ s.last_sent <= t.last_sent /\ s.last_enqueued <= t.last_enqueued
    /\ \A n \in DOMAIN s.unacked : n \in DOMAIN t.unacked /\ t.unacked[n] = s.unacked[n]
    /\ \A n \in DOMAIN t.unacked \ DOMAIN s.unacked :
          n = s.last_sent + 1 /\ t.unacked[n].pkt = p /\ t.unacked[n].waker = NoopWaker
    /\ \A i \in DOMAIN s.blocked : i \in DOMAIN t.blocked /\ t.blocked[i] = s.blocked[i]
    /\ \A i \in DOMAIN t.blocked \ DOMAIN s.blocked :
          i = s.last_enqueued + 1 /\ t.blocked[i].pkt = p /\ t.blocked[i].waker = NoopWaker
    /\ DOMAIN t.unacked = DOMAIN s.unacked \/ DOMAIN t.blocked = DOMAIN s.blocked

\* The future the sender of packet p is given.
GivenId(s, t) == IF EnqueueIsQueued(s) THEN Queued(t.last_enqueued) ELSE SentAs(t.last_sent)

LEMMA EnqueuePacketAdds ==
  ASSUME NEW s, SenderTypeOK(s), UnackedInterval(s), QueueIntervals(s),
         NEW p \in Pkts, NEW t, t = EnqueuePacket(s, p)
  PROVE  /\ Adds(s, t, p)
         /\ Names(t, GivenId(s, t), p)
         /\ GivenId(s, t) \in [t : {"Queued", "Sent", "Acked", "Canceled"}, n : Nat]
         /\ GivenId(s, t).t # "Canceled"
<1>0. s.last_sent \in Nat \cup {-1} /\ s.last_enqueued \in Nat \cup {-1} BY DEF SenderTypeOK
<1>1. PICK a, b \in Nat : /\ a <= b /\ b <= s.last_enqueued + 1
                          /\ DOMAIN s.blocked = b .. s.last_enqueued
                          /\ DOMAIN s.sent = a .. (b - 1)
  BY DEF QueueIntervals
<1>2. CASE EnqueueIsQueued(s)
  <2> DEFINE id == s.last_enqueued + 1
             e == [st |-> "Blocked", pkt |-> p, limit |-> NoLimit, waker |-> NoopWaker]
  <2>0. id \in Nat BY <1>0
  <2>1. t = [s EXCEPT !.last_enqueued = id, !.blocked = Put(s.blocked, id, e)]
    BY <1>2 DEF EnqueuePacket
  <2>2. /\ t.last_sent = s.last_sent /\ t.unacked = s.unacked /\ t.sent = s.sent
        /\ t.last_enqueued = id /\ t.blocked = Put(s.blocked, id, e)
    BY <2>1 DEF SenderTypeOK
  <2>3. id \notin DOMAIN s.blocked /\ id \notin DOMAIN s.sent BY <1>0, <1>1
  <2>4. e.pkt = p /\ e.waker = NoopWaker /\ e.st = "Blocked" OBVIOUS
  <2> HIDE DEF e, id
  <2>5. DOMAIN t.blocked = DOMAIN s.blocked \cup {id} /\ t.blocked[id] = e
        /\ \A i \in DOMAIN s.blocked : t.blocked[i] = s.blocked[i]
    BY <2>2, <2>3 DEF Put
  <2>6. s.last_enqueued <= t.last_enqueued /\ s.last_sent <= t.last_sent BY <1>0, <2>2 DEF id
  <2>7. Adds(s, t, p) BY <2>2, <2>4, <2>5, <2>6 DEF Adds, id
  <2>8. GivenId(s, t) = [t |-> "Queued", n |-> id] BY <1>2, <2>2 DEF GivenId, Queued
  <2>9. GivenId(s, t).t = "Queued" /\ GivenId(s, t).n = id BY <2>8
  <2>10. Names(t, GivenId(s, t), p)
    BY <2>0, <2>2, <2>3, <2>4, <2>5, <2>9 DEF Names
  <2> QED BY <2>0, <2>7, <2>8, <2>9, <2>10
<1>3. CASE ~EnqueueIsQueued(s)
  <2> DEFINE sn == s.last_sent + 1
             e == UnackedEntry(p, NoLimit)
  <2>0. sn \in Nat BY <1>0
  <2>1. t = [s EXCEPT !.last_sent = sn, !.unacked = Put(s.unacked, sn, e)]
    BY <1>3 DEF EnqueuePacket
  <2>2. /\ t.last_sent = sn /\ t.unacked = Put(s.unacked, sn, e) /\ t.sent = s.sent
        /\ t.last_enqueued = s.last_enqueued /\ t.blocked = s.blocked
    BY <2>1 DEF SenderTypeOK
  <2>3. sn \notin DOMAIN s.unacked BY <1>0 DEF UnackedInterval
  <2>4. e.pkt = p /\ e.waker = NoopWaker BY DEF UnackedEntry
  <2> HIDE DEF e, sn
  <2>5. DOMAIN t.unacked = DOMAIN s.unacked \cup {sn} /\ t.unacked[sn] = e
        /\ \A n \in DOMAIN s.unacked : t.unacked[n] = s.unacked[n]
    BY <2>2, <2>3 DEF Put
  <2>6. s.last_enqueued <= t.last_enqueued /\ s.last_sent <= t.last_sent BY <1>0, <2>2 DEF sn
  <2>7. Adds(s, t, p) BY <2>2, <2>4, <2>5, <2>6 DEF Adds, sn
  <2>8. GivenId(s, t) = [t |-> "Sent", n |-> sn]
    BY <1>3, <2>0, <2>2 DEF GivenId, SentAs, None
  <2>9. GivenId(s, t).t = "Sent" /\ GivenId(s, t).n = sn BY <2>8
  <2>10. Names(t, GivenId(s, t), p) BY <2>0, <2>2, <2>4, <2>5, <2>9 DEF Names
  <2> QED BY <2>0, <2>7, <2>8, <2>9, <2>10
<1> QED BY <1>2, <1>3

LEMMA AddsFutures ==
  ASSUME MTypeOK, Agreement, FuturesOK, NEW q \in Pkts, fut[q].kind = "Unsent",
         SenderTypeOK(send'), Adds(send, send', q), send'.woken = send.woken \cup {q},
         Carried(send', net', log') \subseteq Carried(send, net, log) \cup WindowNumbers(send'),
         UNCHANGED <<refused, generation>>,
         NEW id, Becomes(q, "Sent", id, generation, fut[q].res),
         Names(send', id, q), id.t # "Canceled"
  PROVE  FuturesOK'
<1> DEFINE N == Carried(send, net, log)
           N2 == Carried(send', net', log')
           new == [sn |-> send.last_sent + 1, pkt |-> q]
<1>0. TypeOK /\ SenderTypeOK(send) /\ send.last_sent \in Int
  <2>1. TypeOK BY DEF MTypeOK
  <2>2. SenderTypeOK(send) BY <2>1 DEF TypeOK
  <2> QED BY <2>1, <2>2 DEF SenderTypeOK
<1>1. NumberedOnce(send, N) /\ OwnWakers(send)
      /\ \A p \in Pkts : FutureOK(send, N, refused, fut[p], generation, p)
  BY DEF FuturesOK
<1>2. \A x \in N : x.sn \in Int /\ x.sn <= send.last_sent BY <1>0, CarriedBound
<1>3. ~Waits(send, q) /\ (\A x \in N : x.pkt # q) /\ fut[q].res \notin {"Canceled", "Assertion"}
  BY <1>1 DEF FutureOK
<1>4. WindowNumbers(send') \subseteq WindowNumbers(send) \cup {new}
  <2> SUFFICES ASSUME NEW n \in DOMAIN send'.unacked
               PROVE  [sn |-> n, pkt |-> send'.unacked[n].pkt] \in WindowNumbers(send) \cup {new}
    BY DEF WindowNumbers
  <2>1. CASE n \in DOMAIN send.unacked BY <2>1 DEF Adds, WindowNumbers
  <2>2. CASE n \notin DOMAIN send.unacked BY <2>2 DEF Adds
  <2> QED BY <2>1, <2>2
<1>5. N2 \subseteq N \cup {new} BY <1>4 DEF Carried
<1>6. new.sn = send.last_sent + 1 /\ new.pkt = q OBVIOUS
<1>7. \A p : Waits(send', p) => Waits(send, p) \/ p = q
  <2> SUFFICES ASSUME NEW p, NEW i \in LiveBlocked(send'), send'.blocked[i].pkt = p, p # q
               PROVE  Waits(send, p)
    BY DEF Waits
  <2>1. i \in DOMAIN send.blocked /\ send'.blocked[i] = send.blocked[i] BY DEF Adds, LiveBlocked
  <2>2. i \in LiveBlocked(send) /\ send.blocked[i].pkt = p BY <2>1 DEF LiveBlocked
  <2> QED BY <2>2 DEF Waits
<1>8. new \in N2 => ~Waits(send', q)
  <2>1. ASSUME new \in N2 PROVE DOMAIN send'.unacked # DOMAIN send.unacked
    <3>1. new \notin N BY <1>3, <1>6
    <3>2. new \in WindowNumbers(send') BY <2>1, <3>1
    <3>3. PICK n \in DOMAIN send'.unacked : new = [sn |-> n, pkt |-> send'.unacked[n].pkt]
      BY <3>2 DEF WindowNumbers
    <3>4. n = send.last_sent + 1 BY <3>3
    <3>5. n \notin DOMAIN send.unacked BY <1>0, <3>4 DEF Agreement, UnackedInterval
    <3> QED BY <3>5
  <2>2. ASSUME new \in N2, NEW i \in LiveBlocked(send'), send'.blocked[i].pkt = q PROVE FALSE
    <3>1. DOMAIN send'.blocked = DOMAIN send.blocked BY <2>1, <2>2 DEF Adds
    <3>2. i \in DOMAIN send.blocked /\ send'.blocked[i] = send.blocked[i]
      BY <2>2, <3>1 DEF Adds, LiveBlocked
    <3>3. Waits(send, q) BY <2>2, <3>2 DEF Waits, LiveBlocked
    <3> QED BY <1>3, <3>3
  <2> QED BY <2>2 DEF Waits
<1> HIDE DEF N, N2, new
<1>9. NumberedOnce(send', N2)
  <2>1. \A x, y \in N2 : x.sn = y.sn <=> x.pkt = y.pkt
    <3>1. \A x, y \in N : x.sn = y.sn <=> x.pkt = y.pkt BY <1>1 DEF NumberedOnce
    <3>2. \A x \in N : x.sn # new.sn /\ x.pkt # new.pkt BY <1>0, <1>2, <1>3, <1>6
    <3> QED BY <1>5, <3>1, <3>2
  <2>2. \A x \in N2 : ~Waits(send', x.pkt)
    <3> SUFFICES ASSUME NEW x \in N2, Waits(send', x.pkt) PROVE FALSE OBVIOUS
    <3>1. CASE x \in N
      <4>1. ~Waits(send, x.pkt) BY <1>1, <3>1 DEF NumberedOnce
      <4>2. x.pkt # q BY <1>3, <3>1
      <4> QED BY <1>7, <4>1, <4>2
    <3>2. CASE x = new BY <1>6, <1>8, <3>2
    <3> QED BY <1>5, <3>1, <3>2
  <2>3. \A i, j \in LiveBlocked(send') : send'.blocked[i].pkt = send'.blocked[j].pkt => i = j
    <3>1. ASSUME NEW i \in LiveBlocked(send'), i \in DOMAIN send.blocked
          PROVE  i \in LiveBlocked(send) /\ send.blocked[i].pkt = send'.blocked[i].pkt
                 /\ send.blocked[i].pkt # q
      <4>1. i \in LiveBlocked(send) /\ send.blocked[i].pkt = send'.blocked[i].pkt
        BY <3>1 DEF Adds, LiveBlocked
      <4> QED BY <1>3, <4>1 DEF Waits
    <3>2. ASSUME NEW i \in LiveBlocked(send'), i \notin DOMAIN send.blocked
          PROVE  i = send.last_enqueued + 1 /\ send'.blocked[i].pkt = q
      BY <3>2 DEF Adds, LiveBlocked
    <3>3. \A i, j \in LiveBlocked(send) : send.blocked[i].pkt = send.blocked[j].pkt => i = j
      BY <1>1 DEF NumberedOnce
    <3> QED BY <3>1, <3>2, <3>3
  <2> QED BY <2>1, <2>2, <2>3 DEF NumberedOnce
<1>10. OwnWakers(send')
  <2>1. ASSUME NEW n \in DOMAIN send'.unacked
        PROVE  send'.unacked[n].waker \in {NoopWaker, send'.unacked[n].pkt}
    BY <1>1 DEF OwnWakers, Adds
  <2>2. ASSUME NEW i \in DOMAIN send'.blocked
        PROVE  send'.blocked[i].waker \in {NoopWaker, send'.blocked[i].pkt}
    BY <1>1 DEF OwnWakers, Adds
  <2> QED BY <2>1, <2>2 DEF OwnWakers
<1>11. ASSUME NEW p \in Pkts \ {q} PROVE FutureOK(send', N2, refused', fut'[p], generation', p)
  <2>1. FutureOK(send, N, refused, fut[p], generation, p) BY <1>1
  <2>2. ~Waits(send, p) => ~Waits(send', p) BY <1>7
  <2>3. \A x \in N2 : x.pkt = p => x \in N BY <1>5, <1>6
  <2>4. Names(send, fut[p].id, p) => Names(send', fut[p].id, p)
    <3> DEFINE i == fut[p].id.n
    <3>0. i \in Nat BY DEF MTypeOK
    <3> HIDE DEF i
    <3>1. \A n \in Int : n <= send.last_sent /\ n \in DOMAIN send'.unacked =>
             n \in DOMAIN send.unacked /\ send'.unacked[n] = send.unacked[n]
      <4>1. \A n \in Int : n <= send.last_sent => n # send.last_sent + 1 BY <1>0
      <4> QED BY <4>1 DEF Adds
    <3>2. i <= send.last_enqueued /\ i \in DOMAIN send'.blocked =>
             i \in DOMAIN send.blocked /\ send'.blocked[i] = send.blocked[i]
      <4>1. send.last_enqueued \in Int BY <1>0 DEF SenderTypeOK
      <4>2. i <= send.last_enqueued => i # send.last_enqueued + 1 BY <3>0, <4>1
      <4> QED BY <4>2 DEF Adds
    <3>3. ASSUME fut[p].id.t = "Sent", i <= send.last_sent,
                 i \in DOMAIN send.unacked => send.unacked[i].pkt = p
          PROVE  i <= send'.last_sent /\ (i \in DOMAIN send'.unacked => send'.unacked[i].pkt = p)
      <4>1. send'.last_sent \in Int BY DEF SenderTypeOK
      <4>2. i <= send'.last_sent BY <1>0, <3>0, <3>3, <4>1 DEF Adds
      <4> QED BY <3>0, <3>1, <3>3, <4>2
    <3>4. ASSUME i <= send.last_enqueued,
                 i \in DOMAIN send.blocked =>
                    send.blocked[i].pkt = p /\ send.blocked[i].st = "Blocked",
                 i \in DOMAIN send.sent =>
                    /\ send.sent[i] \in 0 .. send.last_sent
                    /\ send.sent[i] \in DOMAIN send.unacked => send.unacked[send.sent[i]].pkt = p
          PROVE  /\ i <= send'.last_enqueued
                 /\ i \in DOMAIN send'.blocked =>
                    send'.blocked[i].pkt = p /\ send'.blocked[i].st = "Blocked"
                 /\ i \in DOMAIN send'.sent =>
                    /\ send'.sent[i] \in 0 .. send'.last_sent
                    /\ send'.sent[i] \in DOMAIN send'.unacked => send'.unacked[send'.sent[i]].pkt = p
      <4>1. send'.last_sent \in Int /\ send'.last_enqueued \in Int /\ send.last_enqueued \in Int
        BY <1>0 DEF SenderTypeOK
      <4>2. i <= send'.last_enqueued BY <3>0, <3>4, <4>1 DEF Adds
      <4>3. i \in DOMAIN send'.blocked =>
               send'.blocked[i].pkt = p /\ send'.blocked[i].st = "Blocked"
        BY <3>2, <3>4
      <4>4. ASSUME i \in DOMAIN send'.sent
            PROVE  /\ send'.sent[i] \in 0 .. send'.last_sent
                   /\ send'.sent[i] \in DOMAIN send'.unacked => send'.unacked[send'.sent[i]].pkt = p
        <5>1. send'.sent = send.sent /\ send.last_sent <= send'.last_sent BY DEF Adds
        <5>2. send.sent[i] \in 0 .. send.last_sent BY <3>4, <4>4, <5>1
        <5>3. send.sent[i] \in Int /\ send.sent[i] <= send.last_sent
              /\ send.sent[i] \in 0 .. send'.last_sent
          BY <1>0, <4>1, <5>1, <5>2
        <5> QED BY <3>1, <3>4, <4>4, <5>1, <5>3
      <4> QED BY <4>2, <4>3, <4>4
    <3> QED BY <3>3, <3>4 DEF Names, i
  <2>5. Registered(send, p) => Registered(send', p) BY DEF Registered, Adds
  <2>6. OnlyRefused(send, N, refused, p) => OnlyRefused(send', N2, refused, p)
    BY <2>2, <2>3 DEF OnlyRefused
  <2>7. p \in send.woken => p \in send'.woken OBVIOUS
  <2>8. fut'[p] = fut[p] /\ refused' = refused /\ generation' = generation BY DEF Becomes
  <2> QED BY ONLY <2>1, <2>2, <2>3, <2>4, <2>5, <2>6, <2>7, <2>8 DEF FutureOK
<1>12. FutureOK(send', N2, refused', fut'[q], generation', q)
  <2>1. fut'[q].kind = "Sent" /\ fut'[q].id = id /\ fut'[q].gen = generation
        /\ fut'[q].res = fut[q].res
    BY DEF Becomes
  <2>2. generation <= generation BY DEF MTypeOK
  <2>3. q \in send'.woken OBVIOUS
  <2>4. generation' = generation OBVIOUS
  <2> QED BY ONLY <1>3, <2>1, <2>2, <2>3, <2>4, Names(send', id, q), id.t # "Canceled" DEF FutureOK
<1>13. \A p \in Pkts : FutureOK(send', N2, refused', fut'[p], generation', p) BY <1>11, <1>12
<1> QED BY <1>9, <1>10, <1>13 DEF FuturesOK, N2

LEMMA SendPacketFutures ==
  ASSUME MTypeOK, Agreement, FuturesOK, NEW q \in Pkts, SendPacket(q)
  PROVE  FuturesOK' /\ fut' \in [Pkts -> FutureRecs]
<1> DEFINE t == EnqueuePacket(send, q)
<1>1. SenderTypeOK(send) /\ UnackedInterval(send) /\ QueueIntervals(send)
      /\ fut \in [Pkts -> FutureRecs] /\ generation \in 0 .. MaxRestarts
  BY FutureType DEF MTypeOK, TypeOK, Agreement
<1>2. SenderTypeOK(t) BY <1>1, EnqueuePacketType
<1>3. /\ Adds(send, t, q) /\ Names(t, GivenId(send, t), q)
      /\ GivenId(send, t) \in [t : {"Queued", "Sent", "Acked", "Canceled"}, n : Nat]
      /\ GivenId(send, t).t # "Canceled"
  BY <1>1, EnqueuePacketAdds
<1>4. /\ fut[q].kind = "Unsent"
      /\ send' = [t EXCEPT !.woken = t.woken \cup {q}]
      /\ net' = net \cup Egress(t, DOMAIN t.unacked \ DOMAIN send.unacked)
      /\ fut' = [fut EXCEPT ![q].kind = "Sent", ![q].gen = generation, ![q].id = GivenId(send, t)]
      /\ UNCHANGED <<log, refused, generation>>
  BY DEF SendPacket, GivenId
<1>5. t.woken = send.woken BY <1>1 DEF EnqueuePacket, SenderTypeOK
<1> HIDE DEF t
<1>6. t.woken \cup {q} \in SUBSET Pkts BY <1>2 DEF SenderTypeOK
<1>7. SameButWoken(t, send') /\ SenderTypeOK(send') /\ send'.woken = send.woken \cup {q}
  <2>1. send' = [t EXCEPT !.woken = t.woken \cup {q}] BY <1>4
  <2>2. SameButWoken(t, send') /\ SenderTypeOK(send') /\ send'.woken = t.woken \cup {q}
    BY ONLY <1>2, <1>6, <2>1, WokenAside
  <2> QED BY <1>5, <2>2
<1>8. Adds(send, send', q) BY <1>3, <1>7 DEF Adds, SameButWoken
<1>9. Names(send', GivenId(send, t), q) BY <1>3, <1>7 DEF Names, SameButWoken
<1>10. Becomes(q, "Sent", GivenId(send, t), generation, fut[q].res)
  <2>1. "Sent" \in Futures \cup {"Unsent", "Gone"} BY DEF Futures
  <2> QED BY <1>1, <1>3, <1>4, <2>1, SentBecomes
<1>11. \A m \in net' : m.type = "Data" =>
          m \in net \/ [sn |-> m.sn, pkt |-> m.pkt] \in WindowNumbers(send')
  <2>1. WindowNumbers(send') = WindowNumbers(t) BY <1>7, WokenNumbers
  <2> QED BY <1>4, <2>1, EgressNumbers
<1>12. \A i \in 1 .. Len(log') : log'[i] \in Carried(send, net, log) BY <1>4, LogCarried
<1>13. Carried(send', net', log') \subseteq Carried(send, net, log) \cup WindowNumbers(send')
  BY <1>11, <1>12, CarriedStep
<1>14. FuturesOK' BY <1>3, <1>4, <1>7, <1>8, <1>9, <1>10, <1>13, AddsFutures
<1> QED BY <1>10, <1>14 DEF Becomes

LEMMA MovesOnlyRefused ==
  ASSUME NEW s, NEW t, NEW X, Moves(s, t, X), NEW N, WindowNumbers(s) \subseteq N,
         NEW N2, N2 \subseteq N \cup WindowNumbers(t), NEW R, NEW p, OnlyRefused(s, N, R, p)
  PROVE  OnlyRefused(t, N2, R, p)
<1>1. \A x \in N2 : x \in N \/ FreshNumber(s, t, x) BY MovesNumbers
<1>2. \A x : FreshNumber(s, t, x) => Waits(s, x.pkt) BY DEF FreshNumber, Waits
<1>3. Waits(t, p) => Waits(s, p) BY MovesWaits
<1> QED BY <1>1, <1>2, <1>3 DEF OnlyRefused

\* The future of q acts on its own packet, and becomes what is given.
LEMMA OwnStepFutures ==
  ASSUME MTypeOK, Agreement, FuturesOK, NEW q \in Pkts, fut[q].kind \in Futures,
         NEW t, SenderTypeOK(t), NEW X, Moves(send, t, X), SameButWoken(t, send'),
         \A i \in X : i \in DOMAIN send.blocked /\ send.blocked[i].pkt = q,
         \A p \in t.woken \ {q} : p \in send'.woken,
         \A m \in net' : m.type = "Data" => m \in net,
         UNCHANGED <<log, refused, generation>>,
         NEW k \in Futures \cup {"Gone"}, NEW id, NEW r,
         Becomes(q, k, id, fut[q].gen, r),
         k \in Futures /\ fut[q].gen = generation => Names(send', id, q),
         id.t = "Canceled" \/ r = "Canceled" =>
            \/ OnlyRefused(send, Carried(send, net, log), refused, q)
            \/ OnlyRefused(send', Carried(send', net', log'), refused', q),
         r # "Assertion",
         k \in Futures /\ r = "None" => q \in send'.woken
  PROVE  FuturesOK'
<1> DEFINE N == Carried(send, net, log)
           N2 == Carried(send', net', log')
<1>1. \A p \in Pkts : FutureOK(send, N, refused, fut[p], generation, p) BY DEF FuturesOK
<1>2. \A i \in 1 .. Len(log') : log'[i] \in N BY LogCarried
<1>3. N2 \subseteq N \cup WindowNumbers(send') BY <1>2, CarriedStep
<1>4. WindowNumbers(send) \subseteq N BY DEF Carried
<1> HIDE DEF N, N2
<1>5. ASSUME NEW p \in Pkts \ {q}
      PROVE  /\ fut'[p] = fut[p] /\ (p \in t.woken => p \in send'.woken)
             /\ fut[p].kind \in Futures /\ fut[p].gen = generation /\ fut[p].id.t = "Queued"
                   => fut[p].id.n \notin X
  <2>1. fut'[p] = fut[p] BY DEF Becomes
  <2>2. ASSUME fut[p].kind \in Futures, fut[p].gen = generation, fut[p].id.t = "Queued",
               fut[p].id.n \in X
        PROVE  FALSE
    <3>1. Names(send, fut[p].id, p) BY <1>1, <2>2 DEF FutureOK
    <3>2. send.blocked[fut[p].id.n].pkt = p BY <2>2, <3>1 DEF Names
    <3> QED BY <2>2, <3>2
  <2> QED BY <2>1, <2>2
<1>6. FutureOK(send', N2, refused', fut'[q], generation, q)
  <2>1. fut'[q].kind = k /\ fut'[q].id = id /\ fut'[q].gen = fut[q].gen /\ fut'[q].res = r
    BY DEF Becomes
  <2>2. fut[q].gen <= generation BY <1>1 DEF FutureOK
  <2>3. k # "Unsent" BY DEF Futures
  <2>4. OnlyRefused(send, N, refused, q) => OnlyRefused(send', N2, refused', q)
    <3>1. N2 \subseteq N \cup WindowNumbers(t) BY <1>3, WokenNumbers
    <3>2. OnlyRefused(send, N, refused, q) => OnlyRefused(t, N2, refused, q)
      BY <1>4, <3>1, MovesOnlyRefused
    <3>3. Waits(send', q) <=> Waits(t, q) BY DEF SameButWoken, Waits, LiveBlocked
    <3> QED BY <3>2, <3>3 DEF OnlyRefused
  <2>5. id.t = "Canceled" \/ r = "Canceled" => OnlyRefused(send', N2, refused', q)
    BY <2>4 DEF N, N2
  <2> QED BY ONLY <2>1, <2>2, <2>3, <2>5, r # "Assertion",
                  k \in Futures /\ r = "None" => q \in send'.woken,
                  k \in Futures /\ fut[q].gen = generation => Names(send', id, q)
          DEF FutureOK
<1>7. \A p \in Pkts \cap {q} : FutureOK(send', N2, refused', fut'[p], generation, p) BY <1>6
<1>8. refused \subseteq refused' /\ generation' = generation OBVIOUS
<1> DEFINE Q == {q}
<1> HIDE DEF Q
<1>9. \A p \in Pkts \ Q :
         /\ fut'[p] = fut[p] /\ (p \in t.woken => p \in send'.woken)
         /\ fut[p].kind \in Futures /\ fut[p].gen = generation /\ fut[p].id.t = "Queued"
               => fut[p].id.n \notin X
  BY <1>5 DEF Q
<1>10. Carried(send', net', log') \subseteq Carried(send, net, log) \cup WindowNumbers(send')
  BY <1>3 DEF N, N2
<1>11. \A p \in Pkts \cap Q :
          FutureOK(send', Carried(send', net', log'), refused', fut'[p], generation, p)
  BY <1>7 DEF N2, Q
<1> QED BY ONLY MTypeOK, Agreement, FuturesOK, SenderTypeOK(t), Moves(send, t, X),
                SameButWoken(t, send'), <1>8, <1>9, <1>10, <1>11, StepFutures

\* The same, for a step that leaves the sender alone.
LEMMA OwnQuietFutures ==
  ASSUME MTypeOK, Agreement, FuturesOK, NEW q \in Pkts, fut[q].kind \in Futures,
         UNCHANGED <<send, net, log, refused, generation>>,
         NEW k \in Futures \cup {"Gone"}, NEW id, NEW r,
         Becomes(q, k, id, fut[q].gen, r),
         fut[q].gen = generation => Names(send, id, q),
         id.t = "Canceled" \/ r = "Canceled" =>
            OnlyRefused(send, Carried(send, net, log), refused, q),
         r # "Assertion",
         k \in Futures /\ r = "None" => q \in send.woken
  PROVE  FuturesOK'
<1>1. SenderTypeOK(send) BY DEF MTypeOK, TypeOK
<1> DEFINE X == {}
<1>2. Moves(send, send, X) BY <1>1, SameMoves
<1>3. SameButWoken(send, send') BY SameAsItself
<1>4. \A i \in X : i \in DOMAIN send.blocked /\ send.blocked[i].pkt = q OBVIOUS
<1> HIDE DEF X
<1>5. \A p \in send.woken \ {q} : p \in send'.woken OBVIOUS
<1>6. \A m \in net' : m.type = "Data" => m \in net OBVIOUS
<1>7. k \in Futures /\ fut[q].gen = generation => Names(send', id, q) OBVIOUS
<1>8. id.t = "Canceled" \/ r = "Canceled" =>
         \/ OnlyRefused(send, Carried(send, net, log), refused, q)
         \/ OnlyRefused(send', Carried(send', net', log'), refused', q)
  OBVIOUS
<1>9. k \in Futures /\ r = "None" => q \in send'.woken OBVIOUS
<1>10. UNCHANGED <<log, refused, generation>> OBVIOUS
<1> QED BY ONLY MTypeOK, Agreement, FuturesOK, q \in Pkts, fut[q].kind \in Futures,
                k \in Futures \cup {"Gone"}, Becomes(q, k, id, fut[q].gen, r), r # "Assertion",
                <1>1, <1>2, <1>3, <1>4, <1>5, <1>6, <1>7, <1>8, <1>9, <1>10, OwnStepFutures

\* The number a queued packet was sent with names it too.
LEMMA NamesLookup ==
  ASSUME NEW s, SenderTypeOK(s), NEW id, NEW p, Names(s, id, p), id.t = "Queued",
         NEW sn, sn = LookupSeqNum(s, id.n)
  PROVE  /\ sn = None => SentAs(sn).t = "Acked"
         /\ sn # None => /\ sn \in Nat /\ SentAs(sn).t = "Sent" /\ SentAs(sn).n = sn
         /\ Names(s, SentAs(sn), p)
         /\ SentAs(sn) \in [t : {"Queued", "Sent", "Acked", "Canceled"}, n : Nat]
         /\ SentAs(sn).t # "Canceled"
<1>0. s.last_sent \in Int BY DEF SenderTypeOK
<1>1. CASE sn = None
  <2>1. SentAs(sn) = [t |-> "Acked", n |-> 0] BY <1>1 DEF SentAs
  <2>2. SentAs(sn).t = "Acked" BY <2>1
  <2> QED BY <1>1, <2>1, <2>2 DEF Names
<1>2. CASE sn # None
  <2>1. id.n \in DOMAIN s.sent /\ sn = s.sent[id.n] BY <1>2 DEF LookupSeqNum
  <2>2. sn \in 0 .. s.last_sent /\ (sn \in DOMAIN s.unacked => s.unacked[sn].pkt = p)
    BY <2>1 DEF Names
  <2>3. sn \in Nat /\ sn <= s.last_sent BY <1>0, <2>2
  <2>4. SentAs(sn) = [t |-> "Sent", n |-> sn] BY <1>2 DEF SentAs
  <2>5. SentAs(sn).t = "Sent" /\ SentAs(sn).n = sn BY <2>4
  <2>6. Names(s, SentAs(sn), p) BY <2>2, <2>3, <2>5 DEF Names
  <2> QED BY <1>2, <2>3, <2>4, <2>5, <2>6
<1> QED BY <1>1, <1>2

\* What the invariant says of a future that is about to act.
LEMMA ActingFuture ==
  ASSUME MTypeOK, FuturesOK, NEW q \in Pkts, fut[q].kind \in Futures
  PROVE  /\ fut \in [Pkts -> FutureRecs] /\ fut[q] \in FutureRecs
         /\ fut[q].id \in [t : {"Queued", "Sent", "Acked", "Canceled"}, n : Nat]
         /\ fut[q].id.n \in Nat
         /\ fut[q].gen = generation => Names(send, fut[q].id, q)
         /\ fut[q].id.t = "Canceled" \/ fut[q].res = "Canceled" =>
               OnlyRefused(send, Carried(send, net, log), refused, q)
         /\ fut[q].res # "Assertion"
         /\ fut[q].gen = generation => ~BadId(send, fut[q].id) /\ ~(fut[q].id.t = "Queued" /\ BadPoll(send, fut[q].id))
<1>1. fut \in [Pkts -> FutureRecs] /\ fut[q] \in FutureRecs BY FutureType
<1>2. FutureOK(send, Carried(send, net, log), refused, fut[q], generation, q) BY DEF FuturesOK
<1>3. fut[q].gen = generation => Names(send, fut[q].id, q) BY <1>2 DEF FutureOK
<1>4. fut[q].id \in [t : {"Queued", "Sent", "Acked", "Canceled"}, n : Nat]
      /\ fut[q].id.n \in Nat
  BY <1>1 DEF FutureRecs
<1>5. send.last_enqueued \in Int BY DEF MTypeOK, TypeOK, SenderTypeOK
<1>6. fut[q].gen = generation => ~BadId(send, fut[q].id)
  BY <1>3, <1>4, <1>5 DEF Names, BadId
<1>7. fut[q].gen = generation => ~(fut[q].id.t = "Queued" /\ BadPoll(send, fut[q].id))
  BY <1>3, <1>6 DEF Names, BadPoll
<1>8. fut[q].res # "Assertion" BY <1>2 DEF FutureOK
<1>9. fut[q].id.t = "Canceled" \/ fut[q].res = "Canceled" =>
               OnlyRefused(send, Carried(send, net, log), refused, q)
  BY <1>2 DEF FutureOK
<1> QED BY <1>1, <1>3, <1>4, <1>6, <1>7, <1>8, <1>9

-------------------------------------------------------------------------------
(* The inductive invariant of the sessions with their futures.             *)

MInv == MTypeOK /\ DecidesOnce /\ Agreement /\ FuturesOK

LEMMA MInvParts == MInv <=> /\ SessionOK /\ fut \in [Pkts -> FutureRecs]
                            /\ generation \in 0 .. MaxRestarts /\ FuturesOK
BY FutureType DEF MInv, SessionOK

LEMMA MInvNext ==
  ASSUME SessionOK', fut' \in [Pkts -> FutureRecs], generation' \in 0 .. MaxRestarts, FuturesOK'
  PROVE  MInv'
<1>1. MTypeOK' BY DEF MTypeOK, FutureRecs, SessionOK
<1> QED BY <1>1 DEF MInv, SessionOK

LEMMA OwnStep ==
  ASSUME MInv, NEW q \in Pkts, fut[q].kind \in Futures, SenderOnly,
         NEW t, SenderTypeOK(t), Edits(send, t, {}, {}), Requeues(send, t),
         NEW X, Moves(send, t, X), SameButWoken(t, send'), SenderTypeOK(send'),
         \A i \in X : i \in DOMAIN send.blocked /\ send.blocked[i].pkt = q,
         \A p \in t.woken \ {q} : p \in send'.woken,
         net' = net \/ \E sn \in DOMAIN send.unacked : net' = net \cup {CtlMsg("Cancel", sn)},
         NEW k \in Futures \cup {"Gone"}, NEW id, NEW r,
         Becomes(q, k, id, fut[q].gen, r),
         k \in Futures /\ fut[q].gen = generation => Names(send', id, q),
         id.t = "Canceled" \/ r = "Canceled" =>
            \/ OnlyRefused(send, Carried(send, net, log), refused, q)
            \/ OnlyRefused(send', Carried(send', net', log'), refused', q),
         r # "Assertion",
         k \in Futures /\ r = "None" => q \in send'.woken
  PROVE  MInv'
<1>1. UNCHANGED <<recv, timer, submitted, log, handled, refused>> /\ generation' = generation
  BY DEF SenderOnly
<1>2. MTypeOK /\ Agreement /\ FuturesOK BY DEF MInv
<1>3. SessionOK /\ generation \in 0 .. MaxRestarts BY MInvParts
<1>4. SessionOK' BY <1>1, <1>3, EditKeepsSession
<1>5. \A m \in net' : m.type = "Data" => m \in net BY CtlMsgFields
<1>6. UNCHANGED <<log, refused, generation>> BY <1>1
<1>7. FuturesOK'
  BY ONLY <1>2, q \in Pkts, fut[q].kind \in Futures, SenderTypeOK(t), Moves(send, t, X),
          SameButWoken(t, send'),
          \A i \in X : i \in DOMAIN send.blocked /\ send.blocked[i].pkt = q,
          \A p \in t.woken \ {q} : p \in send'.woken, <1>5, <1>6,
          k \in Futures \cup {"Gone"}, Becomes(q, k, id, fut[q].gen, r),
          k \in Futures /\ fut[q].gen = generation => Names(send', id, q),
          id.t = "Canceled" \/ r = "Canceled" =>
             \/ OnlyRefused(send, Carried(send, net, log), refused, q)
             \/ OnlyRefused(send', Carried(send', net', log'), refused', q),
          r # "Assertion", k \in Futures /\ r = "None" => q \in send'.woken,
          OwnStepFutures
<1>8. fut' \in [Pkts -> FutureRecs] BY DEF Becomes
<1>9. generation' \in 0 .. MaxRestarts BY <1>1, <1>3
<1> QED BY <1>4, <1>7, <1>8, <1>9, MInvNext

LEMMA OwnQuiet ==
  ASSUME MInv, NEW q \in Pkts, fut[q].kind \in Futures, SenderOnly, UNCHANGED <<send, net>>,
         NEW k \in Futures \cup {"Gone"}, NEW id, NEW r,
         Becomes(q, k, id, fut[q].gen, r),
         fut[q].gen = generation => Names(send, id, q),
         id.t = "Canceled" \/ r = "Canceled" =>
            OnlyRefused(send, Carried(send, net, log), refused, q),
         r # "Assertion",
         k \in Futures /\ r = "None" => q \in send.woken
  PROVE  MInv'
<1>1. UNCHANGED <<send, recv, net, timer, submitted, log, handled, refused>>
      /\ generation' = generation
  BY DEF SenderOnly
<1>2. MTypeOK /\ Agreement /\ FuturesOK BY DEF MInv
<1>3. SessionOK /\ generation \in 0 .. MaxRestarts BY MInvParts
<1>4. SessionOK' BY <1>1, <1>3, QuietKeepsSession
<1>5. UNCHANGED <<send, net, log, refused, generation>> BY <1>1
<1>6. FuturesOK' BY <1>2, <1>5, OwnQuietFutures
<1>7. fut' \in [Pkts -> FutureRecs] BY DEF Becomes
<1>8. generation' \in 0 .. MaxRestarts BY <1>1, <1>3
<1> QED BY <1>4, <1>6, <1>7, <1>8, MInvNext

LEMMA ToAckedKeeps ==
  ASSUME MInv, NEW q \in Pkts, ToAcked(q)
  PROVE  MInv'
<1>1. MTypeOK /\ FuturesOK BY DEF MInv
<1>2. fut[q].kind \in Futures /\ fut[q].res = "None" /\ q \in send.woken
      /\ fut' = [fut EXCEPT ![q].kind = "Acked"] /\ UNCHANGED <<send, net>> /\ SenderOnly
  BY DEF ToAcked, Running, Alive
<1>3. "Acked" \in Futures BY DEF Futures
<1>4. Becomes(q, "Acked", fut[q].id, fut[q].gen, fut[q].res)
  BY <1>1, <1>2, <1>3, ActingFuture, KindBecomes
<1>5. /\ fut[q].gen = generation => Names(send, fut[q].id, q)
      /\ fut[q].id.t = "Canceled" \/ fut[q].res = "Canceled" =>
            OnlyRefused(send, Carried(send, net, log), refused, q)
      /\ fut[q].res # "Assertion"
  BY <1>1, <1>2, ActingFuture
<1> QED BY <1>2, <1>3, <1>4, <1>5, OwnQuiet

LEMMA LimitRetriesKeeps ==
  ASSUME MInv, NEW q \in Pkts, NEW limit \in RetryLimits, LimitRetries(q, limit)
  PROVE  MInv'
<1> DEFINE id == fut[q].id
<1>1. MTypeOK /\ FuturesOK /\ Agreement BY DEF MInv
<1>2. fut[q].kind \in Futures /\ fut[q].res = "None" /\ q \in send.woken /\ SenderOnly
  BY DEF LimitRetries, Running, Alive
<1>3. /\ fut \in [Pkts -> FutureRecs] /\ id.n \in Nat
      /\ fut[q].gen = generation => Names(send, id, q)
      /\ id.t = "Canceled" \/ fut[q].res = "Canceled" =>
            OnlyRefused(send, Carried(send, net, log), refused, q)
      /\ fut[q].gen = generation => ~BadId(send, id)
  BY <1>1, <1>2, ActingFuture
<1> HIDE DEF id
<1>4. /\ \/ send' = send
         \/ fut[q].gen = generation /\ send' = LimitRetriesById(send, id.n, limit)
         \/ fut[q].gen = generation /\ send' = LimitRetriesBySeqNum(send, id.n, limit)
      /\ fut' = [fut EXCEPT ![q].kind = "AckedOrCanceled"] /\ net' = net
  <2>1. ~(Session(q) /\ BadId(send, id)) BY <1>3 DEF Session
  <2> QED BY <2>1 DEF LimitRetries, Session, id
<1>5. SenderTypeOK(send) BY <1>1 DEF MTypeOK, TypeOK
<1>6. "AckedOrCanceled" \in Futures BY DEF Futures
<1>7. Becomes(q, "AckedOrCanceled", id, fut[q].gen, fut[q].res)
  BY <1>3, <1>4, <1>6, KindBecomes DEF id
<1>8. limit \in 0 .. U8Max BY ZdprAssumption
<1>9. CASE send' = send
  <2>1. UNCHANGED <<send, net>> BY <1>4, <1>9
  <2> QED BY <1>2, <1>3, <1>6, <1>7, <2>1, OwnQuiet
<1>10. ASSUME Moves(send, send', {}), Edits(send, send', {}, {}), Requeues(send, send'),
              SenderTypeOK(send')
       PROVE  MInv'
  <2> DEFINE X == {}
  <2>1. Moves(send, send', X) /\ \A i \in X : i \in DOMAIN send.blocked /\ send.blocked[i].pkt = q
    BY <1>10
  <2>2. id.t = "Queued" => id.n \notin X OBVIOUS
  <2> HIDE DEF X
  <2>3. SameButWoken(send', send') BY SameAsItself
  <2>4. fut[q].gen = generation => Names(send', id, q)
    BY <1>1, <1>3, <1>5, <1>10, <2>1, <2>2, MovesNames DEF Agreement
  <2>5. send.woken \subseteq send'.woken BY <1>10 DEF Moves
  <2> QED BY <1>2, <1>3, <1>4, <1>6, <1>7, <1>10, <2>1, <2>3, <2>4, <2>5, OwnStep
<1>11. CASE send' = LimitRetriesById(send, id.n, limit)
  BY <1>5, <1>8, <1>10, <1>11, LimitRetriesByIdMoves, LimitRetriesByIdEdits, LimitRetriesByIdType
<1>12. CASE send' = LimitRetriesBySeqNum(send, id.n, limit)
  BY <1>5, <1>8, <1>10, <1>12, LimitRetriesBySeqNumMoves, LimitRetriesBySeqNumEdits,
     LimitRetriesBySeqNumType
<1> QED BY <1>4, <1>9, <1>11, <1>12

LEMMA ForgetOfFacts ==
  ASSUME MInv, NEW q \in Pkts, NEW t, t = ForgetOf(q)
  PROVE  SenderTypeOK(t) /\ Edits(send, t, {}, {}) /\ Requeues(send, t) /\ Moves(send, t, {})
<1>1. SenderTypeOK(send) /\ FrontOpen(send) BY DEF MInv, MTypeOK, TypeOK, Agreement
<1>2. CASE t = send
  <2>1. Edits(send, t, {}, {}) BY <1>2, SameUnacked
  <2>2. Suffix(DOMAIN t.sent, DOMAIN send.sent) BY <1>2, SuffixItself
  <2>3. Requeues(send, t) BY <1>2, <2>2, SameQueues
  <2>4. Moves(send, t, {}) BY <1>1, <1>2, SameMoves
  <2> QED BY <1>1, <1>2, <2>1, <2>3, <2>4
<1>3. CASE t = ForgetCanceledPacket(send, fut[q].id.n)
  BY <1>1, <1>3, ForgetCanceledPacketMoves, ForgetCanceledPacketEdits, ForgetCanceledPacketType
<1> QED BY <1>2, <1>3 DEF ForgetOf

\* The future of q goes, and q sleeps no more.
LEMMA GoneKeeps ==
  ASSUME MInv, NEW q \in Pkts, fut[q].kind \in Futures, SenderOnly, net' = net,
         NEW t, SenderTypeOK(t), Edits(send, t, {}, {}), Requeues(send, t),
         NEW X, Moves(send, t, X),
         \A i \in X : i \in DOMAIN send.blocked /\ send.blocked[i].pkt = q,
         send' = [t EXCEPT !.woken = t.woken \ {q}], fut' = [fut EXCEPT ![q].kind = "Gone"]
  PROVE  MInv'
<1>1. MTypeOK /\ FuturesOK BY DEF MInv
<1>2. /\ fut \in [Pkts -> FutureRecs]
      /\ fut[q].id.t = "Canceled" \/ fut[q].res = "Canceled" =>
            OnlyRefused(send, Carried(send, net, log), refused, q)
      /\ fut[q].res # "Assertion"
  BY <1>1, ActingFuture
<1>3. Becomes(q, "Gone", fut[q].id, fut[q].gen, fut[q].res) BY <1>2, KindBecomes
<1>4. t.woken \ {q} \in SUBSET Pkts BY DEF SenderTypeOK
<1>5. SameButWoken(t, send') /\ SenderTypeOK(send') /\ send'.woken = t.woken \ {q}
  BY <1>4, WokenAside
<1>6. "Gone" \in Futures \cup {"Gone"} /\ "Gone" \notin Futures BY DEF Futures
<1>7. \A p \in t.woken \ {q} : p \in send'.woken BY <1>5
<1> QED BY <1>2, <1>3, <1>5, <1>6, <1>7, OwnStep

LEMMA DetachKeeps ==
  ASSUME MInv, NEW q \in Pkts, Detach(q)
  PROVE  MInv'
<1> DEFINE t == ForgetOf(q)
           X == {}
<1>1. fut[q].kind \in Futures /\ SenderOnly /\ net' = net
      /\ send' = [t EXCEPT !.woken = t.woken \ {q}] /\ fut' = [fut EXCEPT ![q].kind = "Gone"]
  BY DEF Detach, Running, Alive
<1>2. SenderTypeOK(t) /\ Edits(send, t, {}, {}) /\ Requeues(send, t) /\ Moves(send, t, X)
  BY ForgetOfFacts
<1>3. \A i \in X : i \in DOMAIN send.blocked /\ send.blocked[i].pkt = q OBVIOUS
<1> HIDE DEF t, X
<1> QED BY <1>1, <1>2, <1>3, GoneKeeps

LEMMA DropFutureKeeps ==
  ASSUME MInv, NEW q \in Pkts, DropFuture(q)
  PROVE  MInv'
<1> DEFINE id == fut[q].id
<1>1. MTypeOK /\ FuturesOK BY DEF MInv
<1>2. fut[q].kind \in Futures /\ SenderOnly /\ net' = net BY DEF DropFuture, MayDrop
<1>3. fut[q].gen = generation => Names(send, id, q) /\ ~BadId(send, id)
  BY <1>1, <1>2, ActingFuture
<1>4. SenderTypeOK(send) BY <1>1 DEF MTypeOK, TypeOK
<1>5. CASE id.t = "Queued" /\ Session(q)
  <2> DEFINE t == CancelQueuedPacket(send, id.n)
             X == {id.n} \cap DOMAIN send.blocked
  <2>1. send' = [t EXCEPT !.woken = t.woken \ {q}] /\ fut' = [fut EXCEPT ![q].kind = "Gone"]
    <3>1. ~BadId(send, fut[q].id) BY <1>3, <1>5 DEF Session
    <3> QED BY <1>5, <3>1 DEF DropFuture
  <2>2. SenderTypeOK(t) /\ Edits(send, t, {}, {}) /\ Requeues(send, t)
    BY <1>4, CancelQueuedPacketEdits, CancelQueuedPacketType
  <2>3. Moves(send, t, X)
    <3>1. CASE id.n \in DOMAIN send.blocked
      <4>1. X = {id.n} BY <3>1
      <4>2. Moves(send, t, {id.n}) BY <1>4, CancelQueuedPacketMoves
      <4> HIDE DEF t, X
      <4> QED BY <4>1, <4>2
    <3>2. CASE id.n \notin DOMAIN send.blocked
      <4>1. X = {} BY <3>2
      <4>2. t = send BY <3>2 DEF CancelQueuedPacket, CanCancelQueued
      <4>3. Moves(send, send, {}) BY <1>4, SameMoves
      <4> HIDE DEF t, X
      <4> QED BY <4>1, <4>2, <4>3
    <3> QED BY <3>1, <3>2
  <2>4. \A i \in X : i \in DOMAIN send.blocked /\ send.blocked[i].pkt = q
    BY <1>3, <1>5 DEF Names, Session
  <2> HIDE DEF t, X
  <2> QED BY <1>2, <2>1, <2>2, <2>3, <2>4, GoneKeeps
<1>6. CASE ~(id.t = "Queued" /\ Session(q))
  <2> DEFINE t == ForgetOf(q)
             X == {}
  <2>1. send' = [t EXCEPT !.woken = t.woken \ {q}] /\ fut' = [fut EXCEPT ![q].kind = "Gone"]
    BY <1>6 DEF DropFuture
  <2>2. SenderTypeOK(t) /\ Edits(send, t, {}, {}) /\ Requeues(send, t) /\ Moves(send, t, X)
    BY ForgetOfFacts
  <2>3. \A i \in X : i \in DOMAIN send.blocked /\ send.blocked[i].pkt = q OBVIOUS
  <2> HIDE DEF t, X
  <2> QED BY <1>2, <2>1, <2>2, <2>3, GoneKeeps
<1> QED BY <1>5, <1>6

\* A task goes to sleep on an entry of the window, or of the queue.
LEMMA ParkedUnacked ==
  ASSUME SenderTypeOK(send), NEW q \in Pkts, NEW n \in DOMAIN send.unacked, NEW id,
         Parks(q, "unacked", n, id)
  PROVE  /\ send'.window_size = send.window_size /\ send'.stats = send.stats
         /\ send'.last_sent = send.last_sent /\ send'.last_enqueued = send.last_enqueued
         /\ send'.sent = send.sent /\ send'.blocked = send.blocked
         /\ send'.woken = send.woken \ {q}
         /\ send'.unacked = [send.unacked EXCEPT ![n] = [send.unacked[n] EXCEPT !.waker = q]]
         /\ SenderTypeOK(send')
<1> DEFINE e == [send.unacked[n] EXCEPT !.waker = q]
           t == [send EXCEPT !.unacked[n] = e]
<1>1. send' = [t EXCEPT !.woken = send.woken \ {q}] BY DEF Parks
<1>2. e \in UnackedEntries BY DEF SenderTypeOK, UnackedEntries, Tasks
<1>3. SenderTypeOK(t) BY <1>2, ReplaceUnacked
<1>4. /\ t.window_size = send.window_size /\ t.stats = send.stats
      /\ t.last_sent = send.last_sent /\ t.last_enqueued = send.last_enqueued
      /\ t.sent = send.sent /\ t.blocked = send.blocked
      /\ t.unacked = [send.unacked EXCEPT ![n] = e]
  BY DEF SenderTypeOK
<1>5. send.woken \ {q} \in SUBSET Pkts BY DEF SenderTypeOK
<1> HIDE DEF t, e
<1>6. SameButWoken(t, send') /\ SenderTypeOK(send') /\ send'.woken = send.woken \ {q}
  BY <1>1, <1>3, <1>5, WokenAside
<1> QED BY <1>4, <1>6 DEF SameButWoken, e

LEMMA ParkedBlocked ==
  ASSUME SenderTypeOK(send), NEW q \in Pkts, NEW i \in DOMAIN send.blocked, NEW id,
         Parks(q, "blocked", i, id)
  PROVE  /\ send'.window_size = send.window_size /\ send'.stats = send.stats
         /\ send'.last_sent = send.last_sent /\ send'.last_enqueued = send.last_enqueued
         /\ send'.sent = send.sent /\ send'.unacked = send.unacked
         /\ send'.woken = send.woken \ {q}
         /\ send'.blocked = [send.blocked EXCEPT ![i] = [send.blocked[i] EXCEPT !.waker = q]]
         /\ SenderTypeOK(send')
<1> DEFINE e == [send.blocked[i] EXCEPT !.waker = q]
           t == [send EXCEPT !.blocked[i] = e]
<1>1. send' = [t EXCEPT !.woken = send.woken \ {q}] BY DEF Parks
<1>2. e \in BlockedEntries BY DEF SenderTypeOK, BlockedEntries, Tasks
<1>4. /\ t.window_size = send.window_size /\ t.stats = send.stats
      /\ t.last_sent = send.last_sent /\ t.last_enqueued = send.last_enqueued
      /\ t.sent = send.sent /\ t.unacked = send.unacked
      /\ t.blocked = [send.blocked EXCEPT ![i] = e]
  BY DEF SenderTypeOK
<1>3. SenderTypeOK(t)
  <2>1. DOMAIN t.blocked = DOMAIN send.blocked BY <1>4
  <2>2. t.blocked \in [DOMAIN t.blocked -> BlockedEntries] BY <1>2, <1>4, <2>1 DEF SenderTypeOK
  <2>3. t \in [window_size : Nat \ {0}, last_sent : Nat \cup {-1}, unacked : {t.unacked},
               last_enqueued : Nat \cup {-1}, blocked : {t.blocked}, sent : {t.sent},
               stats : SUBSET SenderStats, woken : SUBSET Pkts]
    BY DEF SenderTypeOK
  <2> QED BY <1>4, <2>1, <2>2, <2>3 DEF SenderTypeOK
<1>5. send.woken \ {q} \in SUBSET Pkts BY DEF SenderTypeOK
<1> HIDE DEF t, e
<1>6. SameButWoken(t, send') /\ SenderTypeOK(send') /\ send'.woken = send.woken \ {q}
  BY <1>1, <1>3, <1>5, WokenAside
<1> QED BY <1>4, <1>6 DEF SameButWoken, e

\* What both have in common keeps the invariant.
LEMMA ParksKeeps ==
  ASSUME MInv, NEW q \in Pkts, fut[q].kind \in Futures, fut[q].res = "None",
         SenderOnly, net' = net, SenderTypeOK(send'),
         send'.window_size = send.window_size, send'.stats = send.stats,
         send'.last_sent = send.last_sent, send'.last_enqueued = send.last_enqueued,
         send'.sent = send.sent, send'.woken = send.woken \ {q},
         DOMAIN send'.unacked = DOMAIN send.unacked,
         DOMAIN send'.blocked = DOMAIN send.blocked,
         \A n \in DOMAIN send.unacked :
            /\ send'.unacked[n].pkt = send.unacked[n].pkt
            /\ send'.unacked[n].st = send.unacked[n].st
            /\ \/ send'.unacked[n].waker = send.unacked[n].waker
               \/ send'.unacked[n].waker = q /\ send.unacked[n].pkt = q,
         \A i \in DOMAIN send.blocked :
            /\ send'.blocked[i].pkt = send.blocked[i].pkt
            /\ send'.blocked[i].st = send.blocked[i].st
            /\ \/ send'.blocked[i].waker = send.blocked[i].waker
               \/ send'.blocked[i].waker = q /\ send.blocked[i].pkt = q,
         Registered(send', q),
         NEW id \in [t : {"Queued", "Sent", "Acked", "Canceled"}, n : Nat],
         Names(send, id, q), id.t # "Canceled", fut' = [fut EXCEPT ![q].id = id]
  PROVE  MInv'
<1>1. MTypeOK /\ FuturesOK /\ Agreement BY DEF MInv
<1>2. UNCHANGED <<recv, timer, submitted, log, handled, refused>> /\ generation' = generation
  BY DEF SenderOnly
<1>3. fut \in [Pkts -> FutureRecs] BY <1>1, FutureType
<1>4. Becomes(q, fut[q].kind, id, fut[q].gen, fut[q].res) BY <1>3, IdBecomes
<1>5. Names(send', id, q) BY DEF Names
<1>6. FuturesOK'
  <2>1. /\ fut'[q].gen = fut[q].gen /\ fut'[q].kind = fut[q].kind /\ fut'[q].res = "None"
        /\ fut'[q].id = id /\ \A p \in Pkts \ {q} : fut'[p] = fut[p]
    BY <1>4 DEF Becomes
  <2>2. UNCHANGED <<net, log, refused, generation>> BY <1>2
  <2> QED BY <1>1, <1>5, <2>1, <2>2, ParkedFutures
<1>7. Edits(send, send', {}, {})
  <2>1. \A n \in DOMAIN send.unacked :
            /\ send'.unacked[n].pkt = send.unacked[n].pkt
            /\ Pending(send'.unacked[n]) <=> Pending(send.unacked[n])
            /\ ~Pending(send.unacked[n]) => send'.unacked[n].st = send.unacked[n].st
    BY DEF Pending
  <2> QED BY <2>1, RewrittenUnacked
<1>8. Requeues(send, send')
  <2>1. Suffix(DOMAIN send.blocked, DOMAIN send.blocked) /\ Suffix(DOMAIN send.sent, DOMAIN send.sent)
    BY SuffixItself
  <2>2. DOMAIN send.sent \cup (DOMAIN send.blocked \ DOMAIN send'.blocked) = DOMAIN send.sent
    OBVIOUS
  <2>3. FrontBlocked(send) => FrontBlocked(send') BY DEF FrontBlocked, IsFront
  <2>4. \A i \in DOMAIN send'.blocked : send'.blocked[i].pkt = send.blocked[i].pkt OBVIOUS
  <2>5. Suffix(DOMAIN send'.blocked, DOMAIN send.blocked)
        /\ Suffix(DOMAIN send'.sent, DOMAIN send.sent \cup (DOMAIN send.blocked \ DOMAIN send'.blocked))
    BY <2>1, <2>2
  <2> QED BY <2>3, <2>4, <2>5 DEF Requeues
<1>9. SameButWoken(send', send') BY SameAsItself
<1>10. SessionOK /\ generation \in 0 .. MaxRestarts BY MInvParts
<1>11. SessionOK' BY <1>2, <1>7, <1>8, <1>9, <1>10, EditKeepsSession
<1>12. fut' \in [Pkts -> FutureRecs] BY <1>4 DEF Becomes
<1>13. generation' \in 0 .. MaxRestarts BY <1>2, <1>10
<1> QED BY <1>6, <1>11, <1>12, <1>13, MInvNext

LEMMA ParksUnackedKeeps ==
  ASSUME MInv, NEW q \in Pkts, fut[q].kind \in Futures, fut[q].res = "None",
         SenderOnly, net' = net, NEW n \in DOMAIN send.unacked, Pending(send.unacked[n]),
         n \in Nat, Names(send, SentAs(n), q), Parks(q, "unacked", n, SentAs(n))
  PROVE  MInv'
<1> DEFINE e == [send.unacked[n] EXCEPT !.waker = q]
<1>1. SenderTypeOK(send) BY DEF MInv, MTypeOK, TypeOK
<1>2. /\ send'.window_size = send.window_size /\ send'.stats = send.stats
      /\ send'.last_sent = send.last_sent /\ send'.last_enqueued = send.last_enqueued
      /\ send'.sent = send.sent /\ send'.blocked = send.blocked
      /\ send'.woken = send.woken \ {q}
      /\ send'.unacked = [send.unacked EXCEPT ![n] = e]
      /\ SenderTypeOK(send')
  BY <1>1, ParkedUnacked
<1>3. SentAs(n) = [t |-> "Sent", n |-> n] BY DEF SentAs, None
<1>4. send.unacked[n].pkt = q BY <1>3 DEF Names
<1>5. e.waker = q /\ e.pkt = q /\ e.st = send.unacked[n].st /\ Pending(e)
  BY <1>1, <1>4 DEF SenderTypeOK, UnackedEntries, Pending
<1> HIDE DEF e
<1>6. DOMAIN send'.unacked = DOMAIN send.unacked /\ send'.unacked[n] = e
      /\ \A m \in DOMAIN send.unacked \ {n} : send'.unacked[m] = send.unacked[m]
  BY <1>2
<1>7. \A m \in DOMAIN send.unacked :
         /\ send'.unacked[m].pkt = send.unacked[m].pkt
         /\ send'.unacked[m].st = send.unacked[m].st
         /\ \/ send'.unacked[m].waker = send.unacked[m].waker
            \/ send'.unacked[m].waker = q /\ send.unacked[m].pkt = q
  BY <1>4, <1>5, <1>6
<1>8. \A i \in DOMAIN send.blocked :
         /\ send'.blocked[i].pkt = send.blocked[i].pkt
         /\ send'.blocked[i].st = send.blocked[i].st
         /\ \/ send'.blocked[i].waker = send.blocked[i].waker
            \/ send'.blocked[i].waker = q /\ send.blocked[i].pkt = q
  BY <1>2
<1>9. Registered(send', q) BY <1>5, <1>6 DEF Registered
<1>10. SentAs(n) \in [t : {"Queued", "Sent", "Acked", "Canceled"}, n : Nat] /\ SentAs(n).t # "Canceled"
  BY <1>3
<1>11. fut' = [fut EXCEPT ![q].id = SentAs(n)] BY DEF Parks
<1>12. DOMAIN send'.blocked = DOMAIN send.blocked BY <1>2
<1> QED BY <1>2, <1>6, <1>7, <1>8, <1>9, <1>10, <1>11, <1>12, ParksKeeps

LEMMA ParksBlockedKeeps ==
  ASSUME MInv, NEW q \in Pkts, fut[q].kind \in Futures, fut[q].res = "None",
         SenderOnly, net' = net, NEW id \in [t : {"Queued", "Sent", "Acked", "Canceled"}, n : Nat],
         id.t = "Queued", id.n \in DOMAIN send.blocked, Names(send, id, q),
         Parks(q, "blocked", id.n, id)
  PROVE  MInv'
<1> DEFINE j == id.n
           e == [send.blocked[j] EXCEPT !.waker = q]
<1>1. SenderTypeOK(send) BY DEF MInv, MTypeOK, TypeOK
<1>2. /\ send'.window_size = send.window_size /\ send'.stats = send.stats
      /\ send'.last_sent = send.last_sent /\ send'.last_enqueued = send.last_enqueued
      /\ send'.sent = send.sent /\ send'.unacked = send.unacked
      /\ send'.woken = send.woken \ {q}
      /\ send'.blocked = [send.blocked EXCEPT ![j] = e]
      /\ SenderTypeOK(send')
  BY <1>1, ParkedBlocked
<1>4. j \in DOMAIN send.blocked /\ send.blocked[j].pkt = q /\ send.blocked[j].st = "Blocked"
  BY DEF Names
<1> HIDE DEF j
<1>5. e.waker = q /\ e.pkt = q /\ e.st = "Blocked"
  BY <1>1, <1>4 DEF SenderTypeOK, BlockedEntries
<1> HIDE DEF e
<1>6. DOMAIN send'.blocked = DOMAIN send.blocked /\ send'.blocked[j] = e
      /\ \A m \in DOMAIN send.blocked \ {j} : send'.blocked[m] = send.blocked[m]
  BY <1>2, <1>4
<1>7. \A m \in DOMAIN send.blocked :
         /\ send'.blocked[m].pkt = send.blocked[m].pkt
         /\ send'.blocked[m].st = send.blocked[m].st
         /\ \/ send'.blocked[m].waker = send.blocked[m].waker
            \/ send'.blocked[m].waker = q /\ send.blocked[m].pkt = q
  BY <1>4, <1>5, <1>6
<1>8. \A n \in DOMAIN send.unacked :
         /\ send'.unacked[n].pkt = send.unacked[n].pkt
         /\ send'.unacked[n].st = send.unacked[n].st
         /\ \/ send'.unacked[n].waker = send.unacked[n].waker
            \/ send'.unacked[n].waker = q /\ send.unacked[n].pkt = q
  BY <1>2
<1>9. Registered(send', q) BY <1>4, <1>5, <1>6 DEF Registered
<1>11. fut' = [fut EXCEPT ![q].id = id] BY DEF Parks
<1>12. DOMAIN send'.unacked = DOMAIN send.unacked /\ id.t # "Canceled" BY <1>2
<1> QED BY <1>2, <1>6, <1>7, <1>8, <1>9, <1>11, <1>12, ParksKeeps

\* The future resolves, and keeps its packet ID.
LEMMA ReadyKeeps ==
  ASSUME MInv, NEW q \in Pkts, fut[q].kind \in Futures, SenderOnly, net' = net,
         NEW r \in {"Acked", "Canceled", "LinkClosed", "Unreachable"},
         r = "Canceled" => fut[q].id.t = "Canceled",
         fut' = [fut EXCEPT ![q].res = r], send' = send
  PROVE  MInv'
<1>1. MTypeOK /\ FuturesOK BY DEF MInv
<1>2. /\ fut \in [Pkts -> FutureRecs]
      /\ fut[q].gen = generation => Names(send, fut[q].id, q)
      /\ fut[q].id.t = "Canceled" \/ fut[q].res = "Canceled" =>
            OnlyRefused(send, Carried(send, net, log), refused, q)
  BY <1>1, ActingFuture
<1>3. r \in {"None", "Acked", "Canceled", "LinkClosed"} \cup Panicked /\ r # "Assertion" /\ r # "None"
  BY DEF Panicked
<1>4. Becomes(q, fut[q].kind, fut[q].id, fut[q].gen, r) BY <1>2, <1>3, ResBecomes
<1>5. fut[q].kind \in Futures \cup {"Gone"} /\ UNCHANGED <<send, net>> OBVIOUS
<1> QED BY <1>2, <1>3, <1>4, <1>5, OwnQuiet

LEMMA PollAckKeeps ==
  ASSUME MInv, NEW q \in Pkts, fut[q].kind \in Futures, fut[q].res = "None", q \in send.woken,
         SenderOnly, net' = net, NEW sn \in Nat, Names(send, SentAs(sn), q), PollAck(q, sn)
  PROVE  MInv'
<1>1. MTypeOK /\ FuturesOK /\ Agreement BY DEF MInv
<1>2. fut \in [Pkts -> FutureRecs] BY <1>1, FutureType
<1>3. SentAs(sn) = [t |-> "Sent", n |-> sn] BY DEF SentAs, None
<1>4. /\ SentAs(sn).t = "Sent" /\ SentAs(sn).n = sn
      /\ SentAs(sn) \in [t : {"Queued", "Sent", "Acked", "Canceled"}, n : Nat]
  BY <1>3
<1>5. sn <= send.last_sent /\ (sn \in DOMAIN send.unacked => send.unacked[sn].pkt = q)
  BY <1>4 DEF Names
<1>6. ~(sn > send.last_sent)
  <2>1. send.last_sent \in Int BY <1>1 DEF MTypeOK, TypeOK, SenderTypeOK
  <2> QED BY <1>5, <2>1
<1>7. CASE sn \in DOMAIN send.unacked /\ Pending(send.unacked[sn])
  <2>1. Parks(q, "unacked", sn, SentAs(sn)) BY <1>6, <1>7 DEF PollAck
  <2> QED BY <1>7, <2>1, ParksUnackedKeeps
<1>8. CASE ~(sn \in DOMAIN send.unacked /\ Pending(send.unacked[sn]))
  <2> DEFINE canceled == /\ fut[q].kind = "AckedOrCanceled"
                         /\ sn \in DOMAIN send.unacked
                         /\ send.unacked[sn].st = "CancelAcked"
             r == IF canceled THEN "Canceled" ELSE "Acked"
  <2>1. fut' = [fut EXCEPT ![q].id = SentAs(sn), ![q].res = r] /\ send' = send
    BY <1>6, <1>8 DEF PollAck
  <2>2. r \in {"None", "Acked", "Canceled", "LinkClosed"} \cup Panicked
        /\ r # "Assertion" /\ r # "None" /\ (r = "Canceled" => canceled)
    OBVIOUS
  <2>3. ASSUME canceled PROVE OnlyRefused(send, Carried(send, net, log), refused, q)
    <3> DEFINE N == Carried(send, net, log)
               x == [sn |-> sn, pkt |-> send.unacked[sn].pkt]
    <3>1. sn \in refused BY <1>1, <2>3 DEF Agreement, SenderBelievesTruth
    <3>2. x \in N BY <2>3 DEF Carried, WindowNumbers
    <3>3. x.sn = sn /\ x.pkt = q BY <1>5, <2>3
    <3>4. NumberedOnce(send, N) BY <1>1 DEF FuturesOK
    <3> HIDE DEF N, x
    <3>5. \A y \in N : y.pkt = q => y.sn = sn BY <3>2, <3>3, <3>4 DEF NumberedOnce
    <3>6. ~Waits(send, q) BY <3>2, <3>3, <3>4 DEF NumberedOnce
    <3> QED BY <3>1, <3>5, <3>6 DEF OnlyRefused, N
  <2> HIDE DEF r, canceled
  <2>4. Becomes(q, fut[q].kind, SentAs(sn), fut[q].gen, r) BY <1>2, <1>4, <2>1, <2>2, IdResBecomes
  <2>5. SentAs(sn).t = "Canceled" \/ r = "Canceled" =>
           OnlyRefused(send, Carried(send, net, log), refused, q)
    BY <1>4, <2>2, <2>3
  <2>6. UNCHANGED <<send, net>> BY <2>1
  <2> QED BY <2>2, <2>4, <2>5, <2>6, OwnQuiet
<1> QED BY <1>7, <1>8

LEMMA PollAnswerKeeps ==
  ASSUME MInv, NEW q \in Pkts, fut[q].kind \in Futures, fut[q].res = "None", q \in send.woken,
         SenderOnly, net' = net, PollAnswer(q)
  PROVE  MInv'
<1> DEFINE id == fut[q].id
<1>1. MTypeOK /\ FuturesOK BY DEF MInv
<1>2. /\ id \in [t : {"Queued", "Sent", "Acked", "Canceled"}, n : Nat] /\ id.n \in Nat
      /\ fut[q].gen = generation => Names(send, id, q)
      /\ fut[q].gen = generation => ~(id.t = "Queued" /\ BadPoll(send, id))
  BY <1>1, ActingFuture
<1>3. SenderTypeOK(send) BY <1>1 DEF MTypeOK, TypeOK
<1>4. CASE id.t \in {"Acked", "Canceled"}
  <2>1. Ready(q, id.t) BY <1>4 DEF PollAnswer
  <2>2. fut' = [fut EXCEPT ![q].res = id.t] /\ send' = send BY <2>1 DEF Ready
  <2>3. id.t \in {"Acked", "Canceled", "LinkClosed", "Unreachable"} BY <1>4
  <2> QED BY <2>2, <2>3, ReadyKeeps
<1>5. CASE id.t \in {"Queued", "Sent"} /\ ~Session(q)
  <2>1. Ready(q, "LinkClosed") BY <1>5 DEF PollAnswer
  <2>2. fut' = [fut EXCEPT ![q].res = "LinkClosed"] /\ send' = send BY <2>1 DEF Ready
  <2> QED BY <2>2, ReadyKeeps
<1>6. CASE id.t = "Sent" /\ Session(q)
  <2>1. PollAck(q, id.n) BY <1>6 DEF PollAnswer
  <2>2. SentAs(id.n) = [t |-> "Sent", n |-> id.n] BY <1>2 DEF SentAs, None
  <2>3. SentAs(id.n).t = "Sent" /\ SentAs(id.n).n = id.n BY <2>2
  <2>4. Names(send, SentAs(id.n), q)
    <3>1. Names(send, id, q) BY <1>2, <1>6 DEF Session
    <3> QED BY <1>6, <2>3, <3>1 DEF Names
  <2> QED BY <1>2, <2>1, <2>4, PollAckKeeps
<1>7. CASE id.t = "Queued" /\ Session(q)
  <2>0. Names(send, id, q) /\ ~BadPoll(send, id) BY <1>2, <1>7 DEF Session
  <2>1. IF ~IsSent(send, id.n) THEN Parks(q, "blocked", id.n, id)
        ELSE IF LookupSeqNum(send, id.n) = None THEN Ready(q, "Acked")
        ELSE PollAck(q, LookupSeqNum(send, id.n))
    BY <1>7, <2>0 DEF PollAnswer
  <2> HIDE DEF id
  <2>2. CASE ~IsSent(send, id.n)
    <3>1. id.n \in DOMAIN send.blocked BY <2>2 DEF IsSent
    <3> QED BY <1>2, <1>7, <2>0, <2>1, <2>2, <3>1, ParksBlockedKeeps
  <2>3. CASE IsSent(send, id.n) /\ LookupSeqNum(send, id.n) = None
    <3>1. fut' = [fut EXCEPT ![q].res = "Acked"] /\ send' = send BY <2>1, <2>3 DEF Ready
    <3> QED BY <3>1, ReadyKeeps
  <2>4. CASE IsSent(send, id.n) /\ LookupSeqNum(send, id.n) # None
    <3> DEFINE sn == LookupSeqNum(send, id.n)
    <3>1. PollAck(q, sn) BY <2>1, <2>4
    <3>2. sn \in Nat /\ Names(send, SentAs(sn), q) BY <1>3, <1>7, <2>0, <2>4, NamesLookup
    <3> HIDE DEF sn
    <3> QED BY <3>1, <3>2, PollAckKeeps
  <2> QED BY <2>2, <2>3, <2>4
<1>8. id.t \in {"Queued", "Sent", "Acked", "Canceled"} BY <1>2
<1> QED BY <1>4, <1>5, <1>6, <1>7, <1>8

LEMMA PollSentKeeps ==
  ASSUME MInv, NEW q \in Pkts, fut[q].kind \in Futures, fut[q].res = "None", q \in send.woken,
         SenderOnly, net' = net, PollSent(q)
  PROVE  MInv'
<1> DEFINE id == fut[q].id
<1>1. MTypeOK /\ FuturesOK BY DEF MInv
<1>2. /\ fut \in [Pkts -> FutureRecs]
      /\ id \in [t : {"Queued", "Sent", "Acked", "Canceled"}, n : Nat] /\ id.n \in Nat
      /\ fut[q].gen = generation => Names(send, id, q)
      /\ fut[q].gen = generation => ~(id.t = "Queued" /\ BadPoll(send, id))
      /\ id.t = "Canceled" \/ fut[q].res = "Canceled" =>
            OnlyRefused(send, Carried(send, net, log), refused, q)
  BY <1>1, ActingFuture
<1>3. SenderTypeOK(send) BY <1>1 DEF MTypeOK, TypeOK
<1>4. "Acked" \in Futures BY DEF Futures
<1>5. ASSUME NEW j \in [t : {"Queued", "Sent", "Acked", "Canceled"}, n : Nat],
             fut[q].gen = generation => Names(send, j, q),
             j.t = "Canceled" => OnlyRefused(send, Carried(send, net, log), refused, q),
             fut' = [fut EXCEPT ![q].kind = "Acked", ![q].id = j], send' = send
      PROVE  MInv'
  <2>1. Becomes(q, "Acked", j, fut[q].gen, fut[q].res) BY <1>2, <1>4, <1>5, KindIdBecomes
  <2>2. UNCHANGED <<send, net>> BY <1>5
  <2>3. j.t = "Canceled" \/ fut[q].res = "Canceled" =>
           OnlyRefused(send, Carried(send, net, log), refused, q)
    BY <1>5
  <2> QED BY <1>4, <1>5, <2>1, <2>2, <2>3, OwnQuiet
<1>6. CASE id.t # "Queued"
  <2>1. fut' = [fut EXCEPT ![q].kind = "Acked", ![q].id = id] /\ send' = send
    BY <1>6 DEF PollSent
  <2> HIDE DEF id
  <2> QED BY <1>2, <1>5, <2>1
<1>7. CASE id.t = "Queued" /\ ~Session(q)
  <2>1. Ready(q, "LinkClosed") BY <1>7 DEF PollSent
  <2>2. fut' = [fut EXCEPT ![q].res = "LinkClosed"] /\ send' = send BY <2>1 DEF Ready
  <2> QED BY <2>2, ReadyKeeps
<1>8. CASE id.t = "Queued" /\ Session(q)
  <2> DEFINE j == SentAs(LookupSeqNum(send, id.n))
  <2>0. Names(send, id, q) /\ ~BadPoll(send, id) BY <1>2, <1>8 DEF Session
  <2>1. CASE ~IsSent(send, id.n)
    <3>1. Parks(q, "blocked", id.n, id) BY <1>8, <2>0, <2>1 DEF PollSent
    <3>2. id.n \in DOMAIN send.blocked BY <2>1 DEF IsSent
    <3> HIDE DEF id
    <3> QED BY <1>2, <1>8, <2>0, <3>1, <3>2, ParksBlockedKeeps
  <2>2. CASE IsSent(send, id.n)
    <3>1. fut' = [fut EXCEPT ![q].kind = "Acked", ![q].id = j] /\ send' = send
      BY <1>8, <2>0, <2>2 DEF PollSent
    <3>2. /\ Names(send, j, q) /\ j.t # "Canceled"
          /\ j \in [t : {"Queued", "Sent", "Acked", "Canceled"}, n : Nat]
      BY <1>3, <1>8, <2>0, NamesLookup
    <3> HIDE DEF j
    <3> QED BY <1>5, <3>1, <3>2
  <2> QED BY <2>1, <2>2
<1> QED BY <1>6, <1>7, <1>8

LEMMA PollKeeps ==
  ASSUME MInv, NEW q \in Pkts, Poll(q)
  PROVE  MInv'
<1>1. fut[q].kind \in Futures /\ fut[q].res = "None" /\ q \in send.woken /\ SenderOnly /\ net' = net
  BY DEF Poll, Running, Alive
<1>2. PollSent(q) \/ PollAnswer(q) BY DEF Poll
<1> QED BY <1>1, <1>2, PollSentKeeps, PollAnswerKeeps

\* A packet canceled in the queue is never given a number.
LEMMA CancelQueuedKeeps ==
  ASSUME MInv, NEW q \in Pkts, fut[q].kind \in Futures, fut[q].res = "None", q \in send.woken,
         SenderOnly, net' = net, fut[q].id.t = "Queued", fut[q].gen = generation,
         CanCancelQueued(send, fut[q].id.n),
         send' = CancelQueuedPacket(send, fut[q].id.n),
         fut' = [fut EXCEPT ![q].kind = "AckedOrCanceled", ![q].id = CanceledId]
  PROVE  MInv'
<1> DEFINE i == fut[q].id.n
           X == {i}
           N == Carried(send, net, log)
<1>1. MTypeOK /\ FuturesOK /\ Agreement BY DEF MInv
<1>2. fut \in [Pkts -> FutureRecs] /\ Names(send, fut[q].id, q) BY <1>1, ActingFuture
<1>3. SenderTypeOK(send) BY <1>1 DEF MTypeOK, TypeOK
<1>4. "AckedOrCanceled" \in Futures BY DEF Futures
<1>5. Becomes(q, "AckedOrCanceled", CanceledId, fut[q].gen, fut[q].res)
  BY <1>2, <1>4, IdTypes, KindIdBecomes
<1>6. i \in LiveBlocked(send) /\ send.blocked[i].pkt = q
  BY <1>2 DEF CanCancelQueued, LiveBlocked, Names
<1>7. SenderTypeOK(send') /\ Edits(send, send', {}, {}) /\ Requeues(send, send')
  BY <1>3, CancelQueuedPacketEdits, CancelQueuedPacketType
<1>8. /\ Moves(send, send', X) /\ send'.unacked = send.unacked
      /\ i \in DOMAIN send'.blocked => send'.blocked[i].st # "Blocked"
  <2>1. send' = CancelQueuedPacket(send, i) OBVIOUS
  <2> HIDE DEF i
  <2>2. /\ Moves(send, send', {i}) /\ send'.unacked = send.unacked
        /\ i \in DOMAIN send'.blocked => send'.blocked[i].st # "Blocked"
    BY ONLY <1>3, <2>1, CancelQueuedPacketMoves
  <2> QED BY <2>2
<1>9. NumberedOnce(send, N) BY <1>1 DEF FuturesOK
<1>10. CanceledId.t = "Canceled" BY DEF CanceledId
<1>11. Names(send', CanceledId, q) BY <1>10 DEF Names
<1>12. SameButWoken(send', send') BY SameAsItself
<1>13. Carried(send', net', log') = N
  <2>1. log' = log BY DEF SenderOnly
  <2>2. WindowNumbers(send') = WindowNumbers(send) BY <1>8 DEF WindowNumbers
  <2> QED BY <2>1, <2>2 DEF Carried
<1> HIDE DEF i, X, N
<1>14. \A j \in X : j \in DOMAIN send.blocked /\ send.blocked[j].pkt = q
  BY <1>6 DEF X, LiveBlocked
<1>15. Waits(send, q) BY <1>6 DEF Waits
<1>16. ~Waits(send', q)
  <2> SUFFICES ASSUME NEW j \in LiveBlocked(send'), send'.blocked[j].pkt = q PROVE FALSE
    BY DEF Waits
  <2>1. j \in LiveBlocked(send) /\ send.blocked[j].pkt = q BY <1>8, MovesLive
  <2>2. j = i BY <1>6, <1>9, <2>1 DEF NumberedOnce
  <2> QED BY <1>8, <2>2 DEF LiveBlocked
<1>17. \A x \in N : x.pkt # q BY <1>9, <1>15 DEF NumberedOnce
<1>18. OnlyRefused(send', Carried(send', net', log'), refused', q)
  BY <1>13, <1>16, <1>17 DEF OnlyRefused
<1>19. q \in send'.woken BY <1>8 DEF Moves
<1> QED BY <1>4, <1>5, <1>7, <1>8, <1>11, <1>12, <1>14, <1>18, <1>19, OwnStep

\* The cancellation of a packet in the window is asked for.
LEMMA CancelSentKeeps ==
  ASSUME MInv, NEW q \in Pkts, fut[q].kind \in Futures, fut[q].res = "None", q \in send.woken,
         SenderOnly, NEW id \in [t : {"Queued", "Sent", "Acked", "Canceled"}, n : Nat],
         id.t # "Canceled", id.t # "Queued", fut[q].gen = generation => Names(send, id, q),
         send' = CancelSentPacket(send, id.n),
         net' = IF CanCancelSent(send, id.n) THEN net \cup {CtlMsg("Cancel", id.n)} ELSE net,
         fut' = [fut EXCEPT ![q].kind = "AckedOrCanceled", ![q].id = id]
  PROVE  MInv'
<1> DEFINE X == {}
<1>1. MTypeOK /\ FuturesOK /\ Agreement BY DEF MInv
<1>2. fut \in [Pkts -> FutureRecs] BY <1>1, FutureType
<1>3. SenderTypeOK(send) /\ UnackedInterval(send) BY <1>1 DEF MTypeOK, TypeOK, Agreement
<1>4. "AckedOrCanceled" \in Futures BY DEF Futures
<1>5. Becomes(q, "AckedOrCanceled", id, fut[q].gen, fut[q].res) BY <1>2, <1>4, KindIdBecomes
<1>6. SenderTypeOK(send') /\ Edits(send, send', {}, {}) /\ Requeues(send, send')
  BY <1>3, CancelSentPacketEdits, CancelSentPacketType
<1>7. Moves(send, send', X) BY <1>3, CancelSentPacketMoves
<1>8. SameButWoken(send', send') BY SameAsItself
<1>9. \A j \in X : j \in DOMAIN send.blocked /\ send.blocked[j].pkt = q OBVIOUS
<1> HIDE DEF X
<1>10. fut[q].gen = generation => Names(send', id, q)
  BY <1>3, <1>6, <1>7, MovesNames
<1>11. net' = net \/ \E sn \in DOMAIN send.unacked : net' = net \cup {CtlMsg("Cancel", sn)}
  BY DEF CanCancelSent
<1>12. q \in send'.woken BY <1>7 DEF Moves
<1> QED BY <1>4, <1>5, <1>6, <1>7, <1>8, <1>9, <1>10, <1>11, <1>12, OwnStep

LEMMA RequestCancelKeeps ==
  ASSUME MInv, NEW q \in Pkts, RequestCancelOf(q)
  PROVE  MInv'
<1> DEFINE id == fut[q].id
           looked == SentAs(LookupSeqNum(send, id.n))
<1>1. MTypeOK /\ FuturesOK BY DEF MInv
<1>2. fut[q].kind \in Futures /\ fut[q].res = "None" /\ q \in send.woken /\ SenderOnly
  BY DEF RequestCancelOf, Running, Alive
<1>3. /\ fut \in [Pkts -> FutureRecs]
      /\ id \in [t : {"Queued", "Sent", "Acked", "Canceled"}, n : Nat] /\ id.n \in Nat
      /\ fut[q].gen = generation => Names(send, id, q)
      /\ id.t = "Canceled" \/ fut[q].res = "Canceled" =>
            OnlyRefused(send, Carried(send, net, log), refused, q)
      /\ fut[q].gen = generation => ~BadId(send, id)
  BY <1>1, <1>2, ActingFuture
<1>4. SenderTypeOK(send) BY <1>1 DEF MTypeOK, TypeOK
<1>5. "AckedOrCanceled" \in Futures BY DEF Futures
<1>6. CASE id.t \in {"Acked", "Canceled"} \/ ~Session(q)
  <2>1. fut' = [fut EXCEPT ![q].kind = "AckedOrCanceled"] /\ UNCHANGED <<send, net>>
    BY <1>6 DEF RequestCancelOf, BadId
  <2>2. Becomes(q, "AckedOrCanceled", id, fut[q].gen, fut[q].res)
    BY <1>3, <1>5, <2>1, KindBecomes
  <2> HIDE DEF id
  <2> QED BY <1>2, <1>3, <1>5, <2>1, <2>2, OwnQuiet
<1>7. CASE id.t = "Queued" /\ Session(q)
  <2>0. Names(send, id, q) /\ ~BadId(send, id) /\ fut[q].gen = generation
    BY <1>3, <1>7 DEF Session
  <2>1. CASE CanCancelQueued(send, id.n)
    <3>1. /\ send' = CancelQueuedPacket(send, id.n) /\ net' = net
          /\ fut' = [fut EXCEPT ![q].kind = "AckedOrCanceled", ![q].id = CanceledId]
      BY <1>7, <2>0, <2>1 DEF RequestCancelOf
    <3> QED BY <1>2, <1>7, <2>0, <2>1, <3>1, CancelQueuedKeeps
  <2>2. CASE ~CanCancelQueued(send, id.n) /\ looked.t # "Sent"
    <3>1. Panics(q, "Unreachable") BY <1>7, <2>0, <2>2 DEF RequestCancelOf
    <3>2. fut' = [fut EXCEPT ![q].res = "Unreachable"] /\ send' = send /\ net' = net
      BY <3>1 DEF Panics
    <3> QED BY <1>2, <3>2, ReadyKeeps
  <2>3. CASE ~CanCancelQueued(send, id.n) /\ looked.t = "Sent"
    <3>1. /\ send' = CancelSentPacket(send, looked.n)
          /\ net' = IF CanCancelSent(send, looked.n)
                    THEN net \cup {CtlMsg("Cancel", looked.n)} ELSE net
          /\ fut' = [fut EXCEPT ![q].kind = "AckedOrCanceled", ![q].id = looked]
      BY <1>7, <2>0, <2>3 DEF RequestCancelOf
    <3>2. /\ Names(send, looked, q) /\ looked.t # "Canceled"
          /\ looked \in [t : {"Queued", "Sent", "Acked", "Canceled"}, n : Nat]
      BY <1>4, <1>7, <2>0, NamesLookup
    <3> HIDE DEF looked
    <3> QED BY <1>2, <2>3, <3>1, <3>2, CancelSentKeeps
  <2> QED BY <2>1, <2>2, <2>3
<1>8. CASE id.t = "Sent" /\ Session(q)
  <2>0. Names(send, id, q) /\ ~BadId(send, id) BY <1>3, <1>8 DEF Session
  <2>1. /\ send' = CancelSentPacket(send, id.n)
        /\ net' = IF CanCancelSent(send, id.n) THEN net \cup {CtlMsg("Cancel", id.n)} ELSE net
        /\ fut' = [fut EXCEPT ![q].kind = "AckedOrCanceled", ![q].id = id]
    BY <1>8, <2>0 DEF RequestCancelOf
  <2> HIDE DEF id
  <2> QED BY <1>2, <1>3, <1>8, <2>0, <2>1, CancelSentKeeps
<1>9. id.t \in {"Queued", "Sent", "Acked", "Canceled"} BY <1>3
<1> QED BY <1>6, <1>7, <1>8, <1>9

LEMMA ResetFutures ==
  ASSUME MInv, ResetSession
  PROVE  FuturesOK'
<1>1. MTypeOK /\ FuturesOK BY DEF MInv
<1>2. SenderTypeOK(send) BY <1>1 DEF MTypeOK, TypeOK
<1>3. generation' = generation + 1 /\ generation \in Int /\ fut' = fut /\ net' = {}
      /\ log' = <<>>
  BY <1>1 DEF ResetSession, MTypeOK
<1>4. /\ DOMAIN send'.unacked = {} /\ DOMAIN send'.blocked = {}
      /\ send'.woken = send.woken \cup Waiters(send)
  BY <1>2, ResetShape DEF ResetSession
<1>5. LiveBlocked(send') = {} BY <1>4 DEF LiveBlocked
<1>6. \A p : ~Waits(send', p) BY <1>5 DEF Waits
<1>7. Carried(send', net', log') = {}
  <2>1. WindowNumbers(send') = {} BY <1>4 DEF WindowNumbers
  <2>2. Len(log') = 0 /\ 1 .. 0 = {} BY <1>3
  <2> QED BY <1>3, <2>1, <2>2 DEF Carried
<1>8. NumberedOnce(send', {}) BY <1>5 DEF NumberedOnce
<1>9. OwnWakers(send') BY <1>4 DEF OwnWakers
<1>10. ASSUME NEW p \in Pkts PROVE FutureOK(send', {}, refused', fut'[p], generation', p)
  <2>1. FutureOK(send, Carried(send, net, log), refused, fut[p], generation, p)
    BY <1>1 DEF FuturesOK
  <2>2. fut[p].gen \in Int /\ fut[p].gen <= generation BY <1>1, <2>1 DEF MTypeOK, FutureOK
  <2>3. fut[p].gen <= generation' /\ fut[p].gen # generation' BY <1>3, <2>2
  <2>4. OnlyRefused(send', {}, refused', p) BY <1>6 DEF OnlyRefused
  <2>5. Registered(send, p) => p \in Waiters(send)
    <3>1. p # NoopWaker BY NoopWakerAssumption
    <3> QED BY <3>1 DEF Registered, Waiters
  <2>6. fut'[p] = fut[p] BY <1>3
  <2>7. p \in send.woken \/ p \in Waiters(send) => p \in send'.woken BY <1>4
  <2>8. ~Waits(send', p) BY <1>6
  <2> QED BY ONLY <2>1, <2>3, <2>4, <2>5, <2>6, <2>7, <2>8 DEF FutureOK
<1> QED BY <1>7, <1>8, <1>9, <1>10 DEF FuturesOK

LEMMA FutureStepKeeps ==
  ASSUME MInv, NEW q \in Pkts, FutureStep(q)
  PROVE  MInv'
<1>1. CASE SendPacket(q)
  <2>1. SessionOK /\ MTypeOK /\ Agreement /\ FuturesOK /\ generation \in 0 .. MaxRestarts
    BY MInvParts DEF MInv
  <2>2. SessionOK' BY <1>1, <2>1, SendPacketKeepsSession
  <2>3. FuturesOK' /\ fut' \in [Pkts -> FutureRecs] BY <1>1, <2>1, SendPacketFutures
  <2>4. generation' \in 0 .. MaxRestarts BY <1>1, <2>1 DEF SendPacket
  <2> QED BY <2>2, <2>3, <2>4, MInvNext
<1>2. CASE ToAcked(q) BY <1>2, ToAckedKeeps
<1>3. ASSUME NEW limit \in RetryLimits, LimitRetries(q, limit) PROVE MInv'
  BY <1>3, LimitRetriesKeeps
<1>4. CASE RequestCancelOf(q) BY <1>4, RequestCancelKeeps
<1>5. CASE Poll(q) BY <1>5, PollKeeps
<1>6. CASE Detach(q) BY <1>6, DetachKeeps
<1>7. CASE DropFuture(q) BY <1>7, DropFutureKeeps
<1> QED BY <1>1, <1>2, <1>3, <1>4, <1>5, <1>6, <1>7 DEF FutureStep

LEMMA MNextKeeps == ShiftInRange /\ MInv /\ [MNext]_mvars => MInv'
<1> SUFFICES ASSUME ShiftInRange, MInv, [MNext]_mvars PROVE MInv' OBVIOUS
<1>0. /\ SessionOK /\ MTypeOK /\ Agreement /\ FuturesOK
      /\ fut \in [Pkts -> FutureRecs] /\ generation \in 0 .. MaxRestarts
  BY MInvParts DEF MInv
<1>1. CASE SessionStep
  <2>1. SessionOK' BY <1>0, <1>1, SessionStepKeeps
  <2>2. TypeOK' BY <2>1 DEF SessionOK
  <2>3. FuturesOK' BY <1>0, <1>1, <2>2, SessionStepFutures
  <2>4. UNCHANGED <<fut, generation>> BY <1>1 DEF SessionStep
  <2>5. fut' \in [Pkts -> FutureRecs] /\ generation' \in 0 .. MaxRestarts BY <1>0, <2>4
  <2> QED BY <2>1, <2>3, <2>5, MInvNext
<1>2. ASSUME NEW p \in Pkts, FutureStep(p) PROVE MInv' BY <1>2, FutureStepKeeps
<1>3. CASE ResetSession
  <2>1. SessionOK' BY <1>0, <1>3, ResetKeepsSession
  <2>2. FuturesOK' BY <1>3, ResetFutures
  <2>3. fut' = fut /\ generation < MaxRestarts /\ generation' = generation + 1
    BY <1>3 DEF ResetSession
  <2>4. generation' \in 0 .. MaxRestarts BY <1>0, <2>3, MgmtSendAssumption
  <2>5. fut' \in [Pkts -> FutureRecs] BY <1>0, <2>3
  <2> QED BY <2>1, <2>2, <2>4, <2>5, MInvNext
<1>4. CASE UNCHANGED mvars
  <2>1. UNCHANGED <<send, recv, net, timer, submitted, log, handled, refused>>
        /\ UNCHANGED <<fut, generation>>
    BY <1>4 DEF mvars
  <2>2. SessionOK' BY <1>0, <2>1, QuietKeepsSession
  <2>3. FuturesOK'
    <3>1. \A m \in net' : m.type = "Data" => m \in net BY <2>1
    <3>2. \A i \in 1 .. Len(log') : log'[i] \in Carried(send, net, log) BY <2>1, LogCarried
    <3>3. UNCHANGED <<send, fut, generation>> /\ refused \subseteq refused' BY <2>1
    <3> QED BY <1>0, <3>1, <3>2, <3>3, QuietSession
  <2>4. fut' \in [Pkts -> FutureRecs] /\ generation' \in 0 .. MaxRestarts BY <1>0, <2>1
  <2> QED BY <2>2, <2>3, <2>4, MInvNext
<1> QED BY <1>1, <1>2, <1>3, <1>4 DEF MNext

LEMMA MInitHolds == MInit => MInv
<1> SUFFICES ASSUME MInit PROVE MInv OBVIOUS
<1>1. Init /\ fut = [p \in Pkts |-> NoFuture] /\ generation = 0 BY DEF MInit
<1>2. SessionOK BY <1>1, InitType, InitDecides, InitAgrees DEF SessionOK
<1>3. NoFuture \in FutureRecs /\ NoFuture.kind = "Unsent" /\ NoFuture.gen = 0
      /\ NoFuture.res = "None" /\ NoFuture.id.t = "Acked"
  BY MgmtSendAssumption DEF NoFuture, FutureRecs, SentAs, None
<1>4. fut \in [Pkts -> FutureRecs] /\ generation \in 0 .. MaxRestarts
  BY <1>1, <1>3, MgmtSendAssumption
<1>5. DOMAIN send.unacked = {} /\ DOMAIN send.blocked = {} /\ net = {} /\ log = <<>>
  BY <1>1 DEF Init, NewSender
<1>6. LiveBlocked(send) = {} BY <1>5 DEF LiveBlocked
<1>7. \A p : ~Waits(send, p) BY <1>6 DEF Waits
<1>8. Carried(send, net, log) = {}
  <2>1. WindowNumbers(send) = {} BY <1>5 DEF WindowNumbers
  <2>2. Len(log) = 0 /\ 1 .. 0 = {} BY <1>5
  <2> QED BY <1>5, <2>1, <2>2 DEF Carried
<1>9. NumberedOnce(send, {}) BY <1>6 DEF NumberedOnce
<1>10. OwnWakers(send) BY <1>5 DEF OwnWakers
<1>11. ASSUME NEW p \in Pkts PROVE FutureOK(send, {}, refused, fut[p], generation, p)
  <2>1. fut[p] = NoFuture /\ ~Waits(send, p) /\ NoFuture.kind \notin Futures BY <1>1, <1>3, <1>7 DEF Futures
  <2>2. 0 <= generation BY <1>1
  <2> QED BY ONLY <1>3, <2>1, <2>2 DEF FutureOK
<1>12. FuturesOK BY <1>8, <1>9, <1>10, <1>11 DEF FuturesOK
<1> QED BY <1>2, <1>4, <1>12, MInvParts

LEMMA MAlways == ShiftInRange => (MSpec => []MInv)
<1>1. ShiftInRange /\ MInv /\ [MNext]_mvars => MInv'
  BY MNextKeeps
<1>2. MInit => MInv
  BY MInitHolds
<1>3. ASSUME ShiftInRange PROVE MSpec => []MInv
  <2>1. MInv /\ [MNext]_mvars => MInv' BY <1>1, <1>3
  <2> QED BY <1>2, <2>1, PTL DEF MSpec
<1> QED BY <1>3

\* The futures and the session under them keep their types, over restarts too.
THEOREM FuturesTypeCorrect == ShiftInRange => (MSpec => []MTypeOK)
<1>1. MInv => MTypeOK BY DEF MInv
<1> QED BY <1>1, MAlways, PTL

\* Whoever is told that a packet was canceled can rely on it: the peer has not
\* processed the packet, and every number it was sent with has been refused for
\* good (AckedOrCanceled::poll and request_cancel_internal), however answers,
\* retries, restarts and other futures interleave.
THEOREM CanceledTellsTheTruth == ShiftInRange => (MSpec => []CanceledMeansRefused)
<1>1. MInv => CanceledMeansRefused
  <2> SUFFICES ASSUME MInv, NEW p \in Pkts, fut[p].res = "Canceled"
               PROVE  /\ \A i \in 1 .. Len(log) : log[i].pkt # p
                      /\ NumberOf(p) \subseteq refused
    BY DEF CanceledMeansRefused
  <2> DEFINE N == Carried(send, net, log)
  <2>1. OnlyRefused(send, N, refused, p) BY DEF MInv, FuturesOK, FutureOK
  <2>2. Accepted \cap refused = {} BY DEF MInv, DecidesOnce, AnswersTruthful
  <2>3. ASSUME NEW i \in 1 .. Len(log) PROVE log[i].pkt # p
    <3>1. log[i] \in N BY LogCarried
    <3>2. log[i].sn \in Accepted BY DEF Accepted
    <3> QED BY <2>1, <2>2, <3>1, <3>2 DEF OnlyRefused
  <2>4. ASSUME NEW m \in net, m.type = "Data", m.pkt = p PROVE m.sn \in refused
    <3> DEFINE x == [sn |-> m.sn, pkt |-> m.pkt]
    <3>1. x \in N BY <2>4 DEF Carried
    <3>2. x.sn = m.sn /\ x.pkt = p BY <2>4
    <3> HIDE DEF x, N
    <3> QED BY <2>1, <3>1, <3>2 DEF OnlyRefused
  <2> QED BY <2>3, <2>4 DEF NumberOf
<1> QED BY <1>1, MAlways, PTL

\* The assertions of lookup_seq_num, limit_retries_by_id, cancel_queued_packet,
\* poll_send and poll_ack never fail: a packet ID held by a future of the current
\* session is one its sender gave out.
THEOREM AssertionsHold == ShiftInRange => (MSpec => []NeverPanics)
<1>1. MInv => NeverPanics BY DEF MInv, FuturesOK, FutureOK, NeverPanics
<1> QED BY <1>1, MAlways, PTL

\* No wake-up is lost: whatever happens to the entry a task sleeps on (answered,
\* unblocked, canceled, dropped with its session), the task is woken, and until
\* then its waker is in the entry.
THEOREM SleepersStayRegistered == ShiftInRange => (MSpec => []SleepersRegistered)
<1>1. MInv => SleepersRegistered
  <2> SUFFICES ASSUME MInv, NEW p \in Pkts, Alive(p), p \notin send.woken
               PROVE  Registered(send, p)
    BY DEF SleepersRegistered, Registered
  <2> QED BY DEF MInv, FuturesOK, FutureOK, Alive
<1> QED BY <1>1, MAlways, PTL

\* A restarted session is as good as a new one: its answers are about its own
\* packets, and what must be retried will be (reset_zdpr_session).
THEOREM RestartsAreClean == ShiftInRange => (MSpec => []SessionRestarts)
<1>1. MInv => SessionRestarts BY DEF MInv, DecidesOnce, Agreement, SessionRestarts
<1> QED BY <1>1, MAlways, PTL
===============================================================================
