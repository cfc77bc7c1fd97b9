---------------------------- MODULE ReliableChannel ----------------------------
(***************************************************************************)
(* What one direction of a ZDP-R session promises its users, with no       *)
(* window bitsets, queues, retries or substrate: sequence numbers are      *)
(* issued in order, the peer decides each of them once (accepts the packet *)
(* for processing, or refuses it), and the sender may consider a packet    *)
(* settled only after the peer has decided.  No more than Window packets   *)
(* run ahead of the oldest one that is not settled.                        *)
(***************************************************************************)
EXTENDS Integers

CONSTANT Window

VARIABLES issued, accepted, refused, settled

cvars == <<issued, accepted, refused, settled>>

ChannelInit == issued = 0 /\ accepted = {} /\ refused = {} /\ settled = {}

InWindow(count, done) == \A n \in 0 .. count - 1 : n \notin done => count - n <= Window

Undecided == (0 .. issued - 1) \ (accepted \cup refused)

\* The sender issues sequence numbers, having possibly learnt one more outcome.
Advance ==
    /\ issued' >= issued
    /\ \/ settled' = settled
       \/ \E n \in (accepted \cup refused) : settled' = settled \cup {n}
    /\ InWindow(issued', settled')
    /\ UNCHANGED <<accepted, refused>>

Accept == /\ \E n \in Undecided : accepted' = accepted \cup {n}
          /\ UNCHANGED <<issued, refused, settled>>

Refuse == /\ \E n \in Undecided : refused' = refused \cup {n}
          /\ UNCHANGED <<issued, accepted, settled>>

ChannelNext == Advance \/ Accept \/ Refuse

ChannelSpec == ChannelInit /\ [][ChannelNext]_cvars
===============================================================================
