------------------------------- MODULE Keying -------------------------------
(***************************************************************************)
(* Key management of the link between an adapter and its node: the key     *)
(* manager tasks of both ends (km.rs, km_noise.rs), the multiplexor that   *)
(* takes their signals (km_multiplexor.rs) and the security association    *)
(* and key manager of the peer table entry (peer_table.rs).                *)
(*                                                                         *)
(* A key manager runs on a thread of its own; the signal worker and the    *)
(* link state machine share another.  One turn of a key manager's loop is  *)
(* two steps: the message or tick, under its lock, and the signals that a  *)
(* change of state calls for.  Signals name the slot of the peer table,    *)
(* not the key manager.                                                    *)
(*                                                                         *)
(* The Noise XX handshake is three messages.  A message carries the        *)
(* ephemeral keys it was made from, and only an end whose own transcript   *)
(* agrees can read it, except the first, which any responder can.          *)
(***************************************************************************)
EXTENDS Integers, Sequences

CONSTANTS Authority,   \* the adapter is configured with an authority certificate
          MaxStarts,   \* how many key managers may be started
          MaxFaults    \* handshakes that may fail

ASSUME KeyingAssumption == Authority \in BOOLEAN /\ MaxStarts \in Nat /\ MaxFaults \in Nat

VARIABLES
    link,     \* per end: in the peer table, association, being dropped
    km,       \* per end: the key manager task
    sigq,     \* per end: the queue of signals
    errs,     \* per end: ErrorStatus of the link
    net,      \* key management messages in flight
    eph,      \* ephemeral keys generated so far
    starts, faults   \* bounds

kmVars == <<link, km, sigq, errs, net, eph, starts, faults>>

End == {"a", "n"}
Other(e) == IF e = "a" THEN "n" ELSE "a"

None == <<>>      \* no association; one is the transcript it was made from

Sig(s, sa) == [sig |-> s, sa |-> sa]
Msg(to, nr, t) == [to |-> to, nr |-> nr, t |-> t]

\* KmState.  `set` is whether the peer table still holds the handle, `prev` the
\* state at the top of the loop, `mid` between the two halves of a turn.
NoKm == [run |-> FALSE, set |-> FALSE, cancel |-> FALSE, st |-> "Configuring",
         prev |-> "Configuring", mid |-> FALSE, nr |-> 0, t |-> <<>>, timed |-> FALSE,
         restart |-> FALSE, signaled |-> FALSE]

NoErrs == [count |-> 0, fresh |-> FALSE]

KmInit ==
    /\ link = [e \in End |-> [up |-> e = "a", sa |-> None, drop |-> FALSE]]
    /\ km = [e \in End |-> NoKm]
    /\ sigq = [e \in End |-> <<>>]
    /\ errs = [e \in End |-> NoErrs]
    /\ net = {} /\ eph = 0 /\ starts = 0 /\ faults = 0

-------------------------------------------------------------------------------
(* KmNoise: the state machine.                                             *)

\* add_adapter_link and add_node_link: the adapter makes the first move.
Initiates(e) == e = "a"

\* requires_verification, asked of the initiator only.
Verifies(e) == e = "a" /\ Authority

\* reset: fresh keys; the initiator has sent its first message and waits.
Reset(e, k) == [k EXCEPT !.st = "Configuring", !.nr = IF Initiates(e) THEN 1 ELSE 0,
                         !.t = <<eph + 1>>, !.timed = Initiates(e)]

ResetMsgs(e) == IF Initiates(e) THEN {Msg(Other(e), 0, <<eph + 1>>)} ELSE {}

\* KmNoise::new and set_km_handle: the peer table knows the new key manager.
NewKm(e) == Reset(e, [NoKm EXCEPT !.run = TRUE, !.set = TRUE])

Fail(k) == [k EXCEPT !.st = "Error", !.timed = FALSE]

\* What a responder takes for a first message: it is not encrypted, so the bytes
\* of any other message also parse, as a key nobody holds.
FirstKey(m) == IF m.nr = 0 THEN m.t[1] ELSE 0

First(k, m) == [k EXCEPT !.nr = 2, !.t = <<FirstKey(m), k.t[1]>>, !.timed = TRUE]

\* handle_message: the message an end waits for, read with its own transcript.
ReadsSecond(e, m) == e = "a" /\ m.nr = 1 /\ m.t[1] = km[e].t[1]
ReadsThird(e, m) == e = "n" /\ km[e].nr = 2 /\ m.nr = 2 /\ m.t = km[e].t
ReadsFirst(e, m) == e = "n" /\ km[e].nr = 0

\* What the peer's payload may carry after its keys: no certificate, one that
\* does not parse, one for another key, one the authority did not sign, or one it
\* did.
Certs == {"none", "malformed", "mismatch", "unverified", "verified"}

\* pki::verify with the authority's key; without one nothing is verified.
Verify(e, c) == Verifies(e) /\ c = "verified"

\* KmCertExchange::process_payload
ProcessPayload(e, c) == IF c = "verified" /\ ~Verify(e, c) THEN "unverified" ELSE c

\* parse_km_payload, and the demand of an end that verifies.
CertAccepted(e, c) ==
    /\ ProcessPayload(e, c) \notin {"malformed", "mismatch"}
    /\ Verifies(e) => ProcessPayload(e, c) = "verified"

\* The handshake is complete: both directions have their keys.
ToTransport(k, t) == [k EXCEPT !.st = "Transport", !.t = t]

-------------------------------------------------------------------------------
(* KeyManager::start and its loop.                                         *)

\* The adapter's link enters Keying.
AStart ==
    /\ ~km["a"].run /\ ~link["a"].drop /\ starts < MaxStarts
    /\ km' = [km EXCEPT !["a"] = NewKm("a")]
    /\ eph' = eph + 1
    /\ net' = net \cup ResetMsgs("a") /\ starts' = starts + 1
    /\ UNCHANGED <<link, sigq, errs, faults>>

\* A key management message from an address without a link: the node makes one,
\* whose key manager reads the message first.
NCreate(m) ==
    /\ ~link["n"].up /\ m.to = "n" /\ starts < MaxStarts
    /\ km' = [km EXCEPT !["n"] = First(NewKm("n"), m)]
    /\ link' = [link EXCEPT !["n"] = [up |-> TRUE, sa |-> None, drop |-> FALSE]]
    /\ net' = (net \ {m}) \cup {Msg("a", 1, km'["n"].t)} /\ eph' = eph + 1
    /\ starts' = starts + 1
    /\ UNCHANGED <<sigq, errs, faults>>

\* The first half of a turn; a change of state calls for the second.
Turn(e, k) == km' = [km EXCEPT ![e] = [k EXCEPT !.mid = k.st # k.prev]]

AtTop(e) == km[e].run /\ ~km[e].mid

\* handle_inbound_km_msg: a link without a key manager refuses the message.
Inbound(e) == {m \in net : m.to = e /\ km[e].set}

\* launch_message_worker: what a key manager puts out in answer to m.
Answer(m, out) == net' = (net \ {m}) \cup out

\* dispatch_km_message.  Out of Configuring the message is refused.  `c` is
\* the peer's certificate in the messages that carry one.
KmReceive(e, m, c) ==
    /\ AtTop(e) /\ m \in Inbound(e)
    /\ LET k == [km[e] EXCEPT !.timed = FALSE]
           fails == faults < MaxFaults /\ faults' = faults + 1 /\ Turn(e, Fail(k)) /\ Answer(m, {})
       IN IF k.st # "Configuring"
            THEN km' = km /\ Answer(m, {}) /\ UNCHANGED faults
            ELSE \/ /\ ReadsFirst(e, m)
                    /\ Turn(e, First(k, m)) /\ Answer(m, {Msg("a", 1, First(k, m).t)})
                    /\ UNCHANGED faults
                 \/ /\ ReadsSecond(e, m) \/ ReadsThird(e, m)
                    /\ \/ ~CertAccepted(e, c) /\ fails
                       \/ /\ CertAccepted(e, c)
                          /\ Turn(e, ToTransport(k, m.t))
                          /\ Answer(m, IF Initiates(e) THEN {Msg(Other(e), 2, m.t)} ELSE {})
                          /\ UNCHANGED faults
                 \/ /\ ~ReadsFirst(e, m) /\ ~ReadsSecond(e, m) /\ ~ReadsThird(e, m) /\ fails
    /\ UNCHANGED <<link, sigq, errs, eph, starts>>

\* tick_statemachine: in Error, a requested restart resets the machine.
KmRestart(e) ==
    /\ AtTop(e) /\ km[e].st = "Error" /\ km[e].restart
    /\ Turn(e, Reset(e, [km[e] EXCEPT !.restart = FALSE]))
    /\ net' = net \cup ResetMsgs(e) /\ eph' = eph + 1
    /\ UNCHANGED <<link, sigq, errs, starts, faults>>

\* tick: the peer has kept silent for HANDSHAKE_TIMEOUT.
KmTimeout(e) ==
    /\ AtTop(e) /\ km[e].st = "Configuring" /\ km[e].timed /\ faults < MaxFaults
    /\ Turn(e, Fail(km[e])) /\ faults' = faults + 1
    /\ UNCHANGED <<link, sigq, errs, net, eph, starts>>

\* handle_state_transition: leaving Error clears its flags; entering Transport
\* or Error is signaled.
KmTransition(e) ==
    /\ km[e].run /\ km[e].mid
    /\ LET k == IF km[e].prev = "Error" /\ km[e].st # "Error"
                  THEN [km[e] EXCEPT !.signaled = FALSE, !.restart = FALSE] ELSE km[e]
           signals == CASE k.st = k.prev -> <<>>
                        [] k.st # k.prev /\ k.st = "Transport" -> <<Sig("SaEstablished", k.t)>>
                        [] k.st # k.prev /\ k.st = "Error" /\ ~k.signaled -> <<Sig("Error", None)>>
                        [] OTHER -> <<>>
       IN /\ sigq' = [sigq EXCEPT ![e] = @ \o signals]
          /\ km' = [km EXCEPT ![e] = [k EXCEPT !.mid = FALSE, !.prev = k.st,
                       !.signaled = @ \/ k.st = "Error"]]
    /\ UNCHANGED <<link, errs, net, eph, starts, faults>>

\* The token is cancelled: the task says so and ends.
KmStop(e) ==
    /\ AtTop(e) /\ km[e].cancel
    /\ km' = [km EXCEPT ![e].run = FALSE]
    /\ sigq' = [sigq EXCEPT ![e] = Append(@, Sig("Termination", None))]
    /\ UNCHANGED <<link, errs, net, eph, starts, faults>>

-------------------------------------------------------------------------------
(* The multiplexor.                                                        *)

\* launch_signal_worker takes a signal.  SaIdChange, which removes the error
\* record, and SaEstablished come in a pair and are one; Reset does nothing.
\* Mutant: an error while one is on record is not recorded again.
MutOnSignalOnce(e, s) ==
    [sa |-> IF s.sig = "SaEstablished" /\ link[e].up THEN s.sa ELSE link[e].sa,
     errs |-> CASE s.sig = "Error" -> [errs[e] EXCEPT !.count = 1, !.fresh = @ \/ errs[e].count = 0]
                [] s.sig \in {"Termination", "SaEstablished"} -> NoErrs
                [] OTHER -> errs[e]]

\* Mutant: an association that is already there is kept.
MutOnSignalKeep(e, s) ==
    [sa |-> IF s.sig = "SaEstablished" /\ link[e].up /\ link[e].sa = None THEN s.sa ELSE link[e].sa,
     errs |-> CASE s.sig = "Error" -> [count |-> 1, fresh |-> TRUE]
                [] s.sig \in {"Termination", "SaEstablished"} -> NoErrs
                [] OTHER -> errs[e]]

OnSignal(e, s) ==
    [sa |-> IF s.sig = "SaEstablished" /\ link[e].up THEN s.sa ELSE link[e].sa,
     errs |-> CASE s.sig = "Error" -> [count |-> 1, fresh |-> TRUE]
                [] s.sig \in {"Termination", "SaEstablished"} -> NoErrs
                [] OTHER -> errs[e]]

SigWorker(e) ==
    /\ sigq[e] # <<>>
    /\ LET r == OnSignal(e, Head(sigq[e]))
       IN link' = [link EXCEPT ![e].sa = r.sa] /\ errs' = [errs EXCEPT ![e] = r.errs]
    /\ sigq' = [sigq EXCEPT ![e] = Tail(@)]
    /\ UNCHANGED <<km, net, eph, starts, faults>>

\* KeyManager::restart is refused unless the machine is in Error.
CanRestart(k) == k.set /\ k.st = "Error"

RequestRestart(k) == [k EXCEPT !.restart = TRUE]

\* Its interval timer, once the wait for the number of errors is over; a restart
\* that is refused makes it wait longer.
RestartTick(e) ==
    /\ errs[e].count > 0 /\ errs[e].fresh
    /\ link[e].up /\ CanRestart(km[e])
    /\ km' = [km EXCEPT ![e] = RequestRestart(@)]
    /\ errs' = [errs EXCEPT ![e].fresh = FALSE]
    /\ UNCHANGED <<link, sigq, net, eph, starts, faults>>

\* clear_security_association
ClearedAssociation(l) == [l EXCEPT !.sa = None]

\* drop_link: invalidate the association, take the handle out, cancel the task.
DropLink(e) ==
    /\ link[e].up /\ ~link[e].drop /\ km[e].set
    /\ link' = [link EXCEPT ![e] = [ClearedAssociation(@) EXCEPT !.drop = TRUE]]
    /\ km' = [km EXCEPT ![e].set = FALSE, ![e].cancel = TRUE]
    /\ UNCHANGED <<sigq, errs, net, eph, starts, faults>>

\* The task has been joined: the close is done.  The node frees the slot, the
\* adapter keeps its link.
DropDone(e) ==
    /\ link[e].drop /\ ~km[e].run
    /\ link' = [link EXCEPT ![e].drop = FALSE, ![e].up = e = "a",
                            ![e].sa = IF e = "a" THEN @ ELSE None]
    /\ UNCHANGED <<km, sigq, errs, net, eph, starts, faults>>

-------------------------------------------------------------------------------
KmNext ==
    \/ AStart \/ \E m \in net : NCreate(m)
    \/ \E e \in End, m \in net, c \in Certs : KmReceive(e, m, c)
    \/ \E e \in End : KmRestart(e)
    \/ \E e \in End : KmTimeout(e)
    \/ \E e \in End : KmTransition(e)
    \/ \E e \in End : KmStop(e)
    \/ \E e \in End : SigWorker(e)
    \/ \E e \in End : RestartTick(e)
    \/ \E e \in End : DropLink(e)
    \/ \E e \in End : DropDone(e)

KmSpec == KmInit /\ [][KmNext]_kmVars

\* The tasks run: a key manager's loop and its interval, the signal worker and
\* its interval.  Nothing is assumed of the network, nor that links close.
KmFairSpec ==
    /\ KmSpec
    /\ \A e \in End : /\ WF_kmVars(KmRestart(e)) /\ WF_kmVars(KmTransition(e))
                      /\ WF_kmVars(KmStop(e)) /\ WF_kmVars(SigWorker(e))
                      /\ WF_kmVars(RestartTick(e))

-------------------------------------------------------------------------------
(* Properties.                                                             *)

Queued(e, s) == \E i \in DOMAIN sigq[e] : sigq[e][i].sig = s

\* The keys of the link's present key manager win: once the signals it sent have
\* been taken, the link holds its association, whatever signals of earlier key
\* managers of the slot were still queued when it started.
LatestKeysWin ==
    \A e \in End :
        /\ link[e].up /\ km[e].run /\ km[e].set /\ km[e].st = "Transport"
        /\ ~km[e].mid /\ ~Queued(e, "SaEstablished")
        => link[e].sa = km[e].t

\* A handshake that failed is tried again, for as long as the link is not dropped.
KmRecovers == \A e \in End : (km[e].run /\ km[e].set /\ km[e].st = "Error")
                             ~> ~(km[e].run /\ km[e].set /\ km[e].st = "Error")

\* drop_link: "Remove all state for this link, invalidating the SA and stopping
\* the Key Manager": a link whose drop has finished holds no association.
DropInvalidates ==
    \A e \in End : ~km[e].run /\ ~link[e].drop => link[e].sa = None
=============================================================================
