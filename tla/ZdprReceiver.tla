----------------------------- MODULE ZdprReceiver -----------------------------
(***************************************************************************)
(* The receiving half of a reliable ZDP session: zdpr.rs, struct Receiver. *)
(* The two u64 bitsets are sets of the positions of their one bits:        *)
(* position i stands for sequence number highest_seen - i.                 *)
(***************************************************************************)
EXTENDS Integers, FiniteSets

CONSTANTS BITS,             \* WindowBitset::BITS, also Receiver::MAX_WINDOW_SIZE
          RecvWindowSize    \* the window size the receiver is configured with

\* Receiver::new asserts 1 <= window_size <= MAX_WINDOW_SIZE.
ASSUME WindowAssumption == /\ BITS \in Nat \ {0}
                           /\ RecvWindowSize \in 1 .. BITS

Positions == 0 .. BITS - 1

\* The statistics ReceiverStat::is_protocol_error blames on the peer; the
\* benign ones (TooOld, Duplicate, OutOfOrder) are not kept.
ReceiverStats == {"TooNew"}

ReceiverTypeOK(r) ==
    r \in [window_size : {RecvWindowSize}, highest_seen : Nat \cup {-1},
          recvd : SUBSET Positions, canceled : SUBSET Positions,
          stats : SUBSET ReceiverStats]

\* Mutant: the window slides one position too few.
ShiftLeftShort(b, k) == {i \in Positions : i - ((k - 1) % BITS) \in b}

\* `b << k` on a word of BITS bits.  A shift by BITS or more overflows: the
\* release build masks the shift amount.
ShiftLeft(b, k) == {i \in Positions : i - (k % BITS) \in b}

\* u64::leading_ones
LeadingOnes(b) == Cardinality({i \in Positions : i .. (BITS - 1) \subseteq b})

NewReceiver ==
    [window_size |-> RecvWindowSize, highest_seen |-> -1,
     recvd |-> Positions, canceled |-> Positions, stats |-> {}]

OldestUnrecvdOffset(r) == LeadingOnes(r.recvd) + 1 - BITS

\* How process_packet_or_cancel and should_process_packet sort a sequence number.
Classify(r, sn) ==
    LET offset == sn - r.highest_seen
    IN  IF offset <= -r.window_size THEN "TooOld"
        ELSE IF offset >= OldestUnrecvdOffset(r) + r.window_size THEN "TooNew"
        ELSE IF offset > 0 THEN "New"
        ELSE IF -offset \notin r.recvd THEN "OutOfOrder"
        ELSE "Duplicate"

ShouldProcessPacket(r, sn) == Classify(r, sn) \in {"New", "OutOfOrder"}

\* Mutant: a packet that fills a hole is not recorded.
ProcessPacketOrCancelForgets(r, sn, is_cancel) ==
    LET offset == sn - r.highest_seen
    IN  IF Classify(r, sn) = "New"
        THEN [r EXCEPT !.highest_seen = sn,
                       !.recvd = ShiftLeft(@, offset) \cup {0},
                       !.canceled = ShiftLeft(@, offset)
                                    \cup (IF is_cancel THEN {0} ELSE {})]
        ELSE r

ProcessPacketOrCancel(r, sn, is_cancel) ==
    LET offset == sn - r.highest_seen
        class == Classify(r, sn)
        counted == r.stats \cup ({class} \cap ReceiverStats)
    IN  CASE class = "New" ->
               [r EXCEPT
                  !.highest_seen = sn,
                  !.recvd = ShiftLeft(@, offset) \cup {0},
                  !.canceled = ShiftLeft(@, offset)
                               \cup (IF is_cancel THEN {0} ELSE {})]
          [] class = "OutOfOrder" ->
               [r EXCEPT
                  !.recvd = @ \cup {-offset},
                  !.canceled = @ \cup (IF is_cancel THEN {-offset} ELSE {}),
                  !.stats = counted]
          [] OTHER -> [r EXCEPT !.stats = counted]

\* Mutant: a duplicate is answered by what it asks for, not by what was decided.
DispositionForgetsCancel(r, sn, is_cancel) ==
    IF Classify(r, sn) \in {"TooOld", "TooNew"} THEN "Ignore"
    ELSE IF is_cancel THEN "Canceled" ELSE "Ack"

\* The answer sent for a packet or a cancel: "Ack", "Canceled" or, for
\* Disposition::Ignore, "Ignore".
Disposition(r, sn, is_cancel) ==
    LET class == Classify(r, sn)
        wasCanceled == r.highest_seen - sn \in r.canceled
    IN  CASE class \in {"TooOld", "TooNew"} -> "Ignore"
          [] class = "Duplicate" -> IF wasCanceled THEN "Canceled" ELSE "Ack"
          [] OTHER -> IF is_cancel THEN "Canceled" ELSE "Ack"
===============================================================================
