---------------------------- MODULE AdapterFlows ----------------------------
(***************************************************************************)
(* A flow from one adapter, through its node, to another adapter: the      *)
(* endpoint lookup table of the source (ELT), the forwarding table the     *)
(* node keeps for the source's link (PFT), the dock lookup table of the    *)
(* destination (DLT), the requests and answers that fill them, and the     *)
(* packets that use them (adapter_tables.rs, mgmt/adapter.rs,              *)
(* adapter_manager_worker.rs, fastpath.rs, mgmt/handlers.rs).              *)
(*                                                                         *)
(* A packet that misses the ELT makes the adapter manager open a           *)
(* transaction, enter the flow as Pending and send a bind request from a   *)
(* task.  The node asks the destination for a tether, enters a route and   *)
(* answers.  Meanwhile visas are revoked, streams are withdrawn, and the   *)
(* link of the source goes down at either end and comes up again.          *)
(*                                                                         *)
(* Management messages arrive once and in any order (Zdpr); one whose      *)
(* retries run out is canceled and never arrives (MgmtSend).  Packets are  *)
(* lost, duplicated and reordered.  Neither survives the session of its    *)
(* link, whose keys go with it.  What the node does is abstracted from     *)
(* NodeBind: the visa service is asked and answers in one step, and the    *)
(* destination's link goes down and comes up in one.                       *)
(***************************************************************************)
EXTENDS TxnMgr, FiniteSets, Bags

CONSTANTS Flows,        \* five-tuples
          Streams,      \* stream ids of the forwarding table
          Tethers,      \* tether ids of the dock lookup table
          VisaFor,      \* the flows the visa service may answer a request with
          MaxBinds,     \* bound on bind requests
          MaxPkts,      \* bound on packets in flight
          MaxSessions,  \* bound on sessions; the last one stays up
          MaxRevokes    \* bound on revocations, unbindings and losses of the destination

ASSUME FlowsAssumption ==
    /\ VisaFor \in [Flows -> SUBSET Flows]
    /\ MaxBinds \in Nat /\ MaxPkts \in Nat /\ MaxSessions \in Nat /\ MaxRevokes \in Nat

VARIABLES
    elt,       \* EndpointLookupTable.table
    pending,   \* EndpointLookupTable.pending: transaction -> flow
    txn_mgr,   \* the transactions of the source's dock link
    tasks,     \* the tasks that await the status of a bind request
    net,       \* management messages in flight
    pkts,      \* packets in flight
    node,      \* the node's end: link up, forwarding table, visas
    dlt,       \* the destination's DockLookupTable
    up,        \* the source's end of the link is Active
    ses,       \* docking sessions so far
    orphans,   \* history: requests lost without a word to the task that sent them
    permitted, \* history: the flows for which the visa service has issued a visa
    revokes,   \* revocations, unbindings and losses of the destination so far
    binds      \* bind requests so far

vars == <<elt, pending, txn_mgr, tasks, net, pkts, node, dlt,
          up, ses, orphans, permitted, revokes, binds>>

tables == <<elt, pending, txn_mgr>>
history == <<orphans, permitted, revokes, binds>>

Put(f, k, v) == [x \in DOMAIN f \cup {k} |-> IF x = k THEN v ELSE f[x]]
Without(f, S) == [x \in DOMAIN f \ S |-> f[x]]
Empty == [x \in {} |-> 0]

Pending(t) == [st |-> "Pending", txn |-> t]
Active(id) == [st |-> "Active", id |-> id]

Init ==
    /\ elt = Empty /\ pending = Empty /\ txn_mgr = NewTxnMgr
    /\ tasks = {}
    /\ net = EmptyBag /\ pkts = {}
    /\ node = [up |-> FALSE, pft |-> Empty, visas |-> {}]
    /\ dlt = Empty /\ up = FALSE /\ ses = 0
    /\ orphans = {} /\ permitted = {} /\ revokes = 0 /\ binds = 0

Sent(m) == net (+) SetToBag({m})
Received(m) == net (-) SetToBag({m})
Reply(m, r) == Received(m) (+) SetToBag({r})

\* The messages of M are lost.
Gone(M) == [m \in {x \in DOMAIN net : x \notin M} |-> net[m]]

\* The messages: between the source and the node ...
BindRequest(t, f) == [kind |-> "bind", txn |-> t, flow |-> f]
BindSuccess(t, id, f) == [kind |-> "grant", txn |-> t, id |-> id, flow |-> f]
BindError(t) == [kind |-> "deny", txn |-> t]
StreamIdWithdrawal(id) == [kind |-> "withdraw", id |-> id]

\* ... and between the node and the destination, with the request they are for.
EgressRequest(t, f, s) == [kind |-> "egress", txn |-> t, flow |-> f, ses |-> s]
EgressSuccess(m, id) == [kind |-> "tether", txn |-> m.txn, flow |-> m.flow, ses |-> m.ses, id |-> id]
UnbindIndication(id) == [kind |-> "unbind", id |-> id]
EgressError(m) == [kind |-> "full", txn |-> m.txn, flow |-> m.flow, ses |-> m.ses]

-------------------------------------------------------------------------------
(* The endpoint lookup table.  Its entry and its index each hold a handle. *)

\* Mutant: the index keeps the transaction.
RemoveKeepIndex(f) ==
    /\ elt' = Without(elt, {f})
    /\ IF elt[f].st = "Pending"
       THEN txn_mgr' = DerefTxn(txn_mgr, elt[f].txn) /\ UNCHANGED pending
       ELSE UNCHANGED <<pending, txn_mgr>>

\* remove: a pending entry takes its transaction along.
Remove(f) ==
    /\ elt' = Without(elt, {f})
    /\ IF elt[f].st = "Pending"
       THEN /\ pending' = Without(pending, {elt[f].txn})
            /\ txn_mgr' = DerefTxn(DerefTxn(txn_mgr, elt[f].txn), elt[f].txn)
       ELSE UNCHANGED <<pending, txn_mgr>>

\* set_active: the entry leaves the index and its transaction.
SetActive(f, t, id) ==
    /\ elt' = Put(elt, f, Active(id))
    /\ pending' = Without(pending, {t})
    /\ txn_mgr' = DerefTxn(DerefTxn(txn_mgr, t), t)

\* remove_by_tether_id: an active entry with the id, any of several.
RemoveByTetherId(id) ==
    LET S == {f \in DOMAIN elt : elt[f] = Active(id)}
    IN IF S = {} THEN UNCHANGED tables ELSE \E f \in S : Remove(f)

\* clear: every entry is removed when the dock link goes down.
ClearElt ==
    /\ elt' = Empty
    /\ pending' = Empty
    /\ txn_mgr' = [txn_mgr EXCEPT !.open =
          LET held == {i \in DOMAIN @ : \E k \in tasks : k.txn = i}
          IN [i \in held |-> 0]]

\* The transaction of m is pending; get() and lookup_pending().
Known(t) == t \in DOMAIN txn_mgr.open /\ t \in DOMAIN pending

-------------------------------------------------------------------------------
(* The source's fast path.                                                 *)

Seal(f, id) == [to |-> "node", ses |-> ses, id |-> id, flow |-> f]

\* actor_output_post_classify for a packet the classifier accepts and whose flow has
\* a tether, or for one that install_tether has re-injected (actor_output_requeue).
\* While the bind is pending the packet is dropped; without an entry a real packet
\* goes to the adapter manager's queue, and a re-injected one is dropped.
ActorOutput(f) ==
    /\ f \in DOMAIN elt /\ elt[f].st = "Active"
    /\ up /\ Cardinality(pkts) < MaxPkts
    /\ pkts' = pkts \cup {Seal(f, elt[f].id)}
    /\ UNCHANGED <<tables, tasks, net, node, dlt, up, ses, history>>

-------------------------------------------------------------------------------
(* Requests for a tether.                                                  *)

\* insert_pending: an entry, active or pending, makes the request a duplicate.
Vacant(f) == f \notin DOMAIN elt

\* do_request_tether_id for a packet of flow f that missed the table when it was
\* queued, which need not be so any more.  A link that is not ready, no transaction
\* and an entry that is there by now all drop the packet; in the last case the
\* transaction has been opened and is closed again.
DoRequestTetherId(f) ==
    /\ up /\ CanOpen(txn_mgr)
    /\ LET t == txn_mgr.next_free
       IN IF Vacant(f)
          THEN /\ binds < MaxBinds /\ binds' = binds + 1
               /\ elt' = Put(elt, f, Pending(t))
               /\ pending' = Put(pending, t, f)
               /\ txn_mgr' = RefTxn(RefTxn(TryOpenRaw(txn_mgr), t), t)
               /\ tasks' = tasks \cup {[txn |-> t, st |-> "wait"]}
               /\ net' = Sent(BindRequest(t, f))
               /\ orphans' = orphans \ {t}
          ELSE /\ txn_mgr' = DerefTxn(TryOpenRaw(txn_mgr), t)
               /\ UNCHANGED <<elt, pending, tasks, net, orphans, binds>>
    /\ UNCHANGED <<pkts, node, dlt, up, ses, permitted, revokes>>

Resolved(t, st) == (tasks \ {[txn |-> t, st |-> "wait"]}) \cup {[txn |-> t, st |-> st]}

\* limit_retries: the request is withdrawn before the node has accepted it.  One that
\* was queued first, and is canceled and forgotten by the sender before the task asks
\* for it again, is reported as Acked (AckedOrCanceled::poll).
GiveUp(m) ==
    /\ up
    /\ m \in BagToSet(net) /\ m.kind = "bind"
    /\ net' = Received(m)
    /\ \/ tasks' = Resolved(m.txn, "canceled") /\ UNCHANGED orphans
       \/ tasks' = Resolved(m.txn, "acked") /\ orphans' = orphans \cup {m.txn}
    /\ UNCHANGED <<tables, pkts, node, dlt, up, ses, permitted, revokes, binds>>

\* The task learns the status of its request and ends, dropping its handle.  After
\* Canceled it denies the tether, unless the entry has gone with the link.
TaskEnds(k) ==
    /\ k.st # "wait"
    /\ tasks' = tasks \ {k}
    /\ LET dropped == DerefTxn(txn_mgr, k.txn)
       IN IF k.st = "canceled" /\ Known(k.txn)
          THEN LET f == pending[k.txn]
               IN /\ elt' = Without(elt, {f})
                  /\ pending' = Without(pending, {k.txn})
                  /\ txn_mgr' = DerefTxn(DerefTxn(dropped, k.txn), k.txn)
          ELSE txn_mgr' = dropped /\ UNCHANGED <<elt, pending>>
    /\ UNCHANGED <<net, pkts, node, dlt, up, ses, history>>

-------------------------------------------------------------------------------
(* The node: NodeBind in fewer steps.                                      *)

\* bind_actor_address and visa_request_task: the visa service denies the flow, or
\* allows it, or answers with a visa for another flow.
BindActorAddress(m) ==
    /\ node.up
    /\ m \in BagToSet(net) /\ m.kind = "bind"
    /\ tasks' = IF up THEN Resolved(m.txn, "acked") ELSE tasks
    /\ \/ /\ net' = Reply(m, BindError(m.txn))
          /\ UNCHANGED <<node, permitted>>
       \/ \E v \in VisaFor[m.flow] :
             /\ node' = [node EXCEPT !.visas = @ \cup {v}]
             /\ permitted' = permitted \cup {v}
             /\ net' = Reply(m, EgressRequest(m.txn, v, ses))
    /\ UNCHANGED <<tables, pkts, dlt, up, ses, orphans, revokes, binds>>

\* requested_tether_granted and requested_tether_denied.  The link that asked may be
\* gone, the visa too, and the table may be full.
RequestedTetherGranted(m) ==
    /\ m \in BagToSet(net) /\ m.kind \in {"tether", "full"}
    /\ LET room == Streams \ DOMAIN node.pft
       IN \/ /\ ~node.up \/ m.ses # ses
             /\ net' = Received(m) /\ UNCHANGED node
          \/ /\ node.up /\ m.ses = ses
             /\ m.kind = "full" \/ m.flow \notin node.visas \/ room = {}
             /\ net' = Reply(m, BindError(m.txn))
             /\ UNCHANGED node
          \/ /\ node.up /\ m.ses = ses
             /\ m.kind = "tether" /\ m.flow \in node.visas
             /\ room # {}
             /\ LET s == CHOOSE x \in room : TRUE
                IN /\ node' = [node EXCEPT !.pft = Put(@, s, [flow |-> m.flow, next_hop |-> m.id])]
                   /\ net' = Reply(m, BindSuccess(m.txn, s, m.flow))
    /\ UNCHANGED <<tables, tasks, pkts, dlt, up, ses, history>>

\* handle_revocation: the routes of the visa are removed and withdrawn from the
\* source.  The destination is not told.
Revoke(f) ==
    /\ revokes < MaxRevokes
    /\ revokes' = revokes + 1
    /\ f \in node.visas
    /\ LET S == {s \in DOMAIN node.pft : node.pft[s].flow = f}
       IN /\ node' = [node EXCEPT !.visas = @ \ {f}, !.pft = Without(@, S)]
          /\ net' = net (+) SetToBag({StreamIdWithdrawal(s) : s \in S})
    /\ UNCHANGED <<tables, tasks, pkts, dlt, up, ses, orphans, permitted, binds>>

\* unbind_stream: the route of stream s goes, the visa stays, and the next hop is
\* told, with the id of the ingress stream.
UnbindStream(s) ==
    /\ node' = [node EXCEPT !.pft = Without(@, {s})]
    /\ net' = Sent(UnbindIndication(s))

\* handle_unbind_indication on the node.  External: no adapter of this repository
\* sends one; it may come for any stream.
HandleUnbindIndication(s) ==
    /\ revokes < MaxRevokes
    /\ revokes' = revokes + 1
    /\ node.up /\ s \in DOMAIN node.pft
    /\ UnbindStream(s)
    /\ UNCHANGED <<tables, tasks, pkts, dlt, up, ses, orphans, permitted, binds>>

\* forward, on the node: the route of the stream, if it has one.
Forward(p) ==
    /\ p.to = "node"
    /\ pkts' = (pkts \ {p}) \cup
               (IF node.up /\ p.ses = ses /\ p.id \in DOMAIN node.pft
                THEN {[to |-> "dest", id |-> node.pft[p.id].next_hop, flow |-> p.flow]} ELSE {})
    /\ UNCHANGED <<tables, tasks, net, node, dlt, up, ses, history>>

-------------------------------------------------------------------------------
(* The destination.                                                        *)

\* insert, into a slot of the slab.
DltInsert(id, f) == dlt' = Put(dlt, id, f)

\* remove: an id without an entry is ignored.
DltRemove(id) == dlt' = Without(dlt, {id})

\* handle_unbind_indication on the destination.
UnbindEgressStream(m) ==
    /\ m \in BagToSet(net) /\ m.kind = "unbind"
    /\ net' = Received(m)
    /\ DltRemove(m.id)
    /\ UNCHANGED <<tables, tasks, pkts, node, up, ses, history>>

\* handle_bind_egress_stream_request
EgressRequests == {m \in BagToSet(net) : m.kind = "egress"}

\* bind_egress_stream: the tether gets a slot of the table, which may be full.
BindEgressStream(m) ==
    /\ m \in EgressRequests
    /\ LET room == Tethers \ DOMAIN dlt
           id == CHOOSE x \in room : TRUE
       IN IF room = {}
          THEN net' = Reply(m, EgressError(m)) /\ UNCHANGED dlt
          ELSE net' = Reply(m, EgressSuccess(m, id)) /\ DltInsert(id, m.flow)
    /\ UNCHANGED <<tables, tasks, pkts, node, up, ses, history>>

\* actor_input: the packet is expanded with the flow of its tether; without one, or
\* with another integrity check value than the packet that was sent, it is dropped.
ActorInput(p) ==
    /\ p.to = "dest"
    /\ pkts' = pkts \ {p}
    /\ UNCHANGED <<tables, tasks, net, node, dlt, up, ses, history>>

\* The link of the destination goes down at both ends and comes up again.  drop_peer
\* revokes the visas with a route to it and withdraws their streams; what was asked
\* of the destination is not answered, and nobody is told.
DestinationLost ==
    /\ revokes < MaxRevokes
    /\ revokes' = revokes + 1
    /\ LET asked == {m \in BagToSet(net) : m.kind \in {"egress", "tether", "full"}}
           told == {m \in BagToSet(net) : m.kind = "unbind"}
       IN /\ net' = Gone(asked \cup told)
                    (+) SetToBag({StreamIdWithdrawal(s) : s \in DOMAIN node.pft})
          /\ orphans' = orphans \cup {m.txn : m \in {x \in asked : x.ses = ses}}
    /\ node' = [node EXCEPT !.pft = Empty,
                            !.visas = @ \ {node.pft[s].flow : s \in DOMAIN node.pft}]
    /\ dlt' = Empty
    /\ pkts' = {p \in pkts : p.to = "node"}
    /\ UNCHANGED <<tables, tasks, up, ses, permitted, binds>>

-------------------------------------------------------------------------------
(* Answers at the source.  One whose transaction is unknown is an error, on *)
(* which mgmt_processor_worker takes the link down, as SourceDown may do at *)
(* any time; AnswersExpected says that there are none.                      *)

\* Mutant: an answer of another flow leaves the entry pending.
InstallMismatch(f) == UNCHANGED tables

\* install_tether: the classifier of the answer must cover the flow that asked.
MismatchRemoved(f) == Remove(f)

\* Mutant: the answer is taken for the flow that asked.
InstallAnyTether(f, m) == SetActive(f, m.txn, m.id)

InstallTether(f, m) ==
    IF m.flow # f THEN MismatchRemoved(f)
    ELSE SetActive(f, m.txn, m.id)

DenyTether(f) == Remove(f)

HandleBindActorAddressResponse(m) ==
    /\ up
    /\ m \in BagToSet(net) /\ m.kind \in {"grant", "deny"}
    /\ net' = Received(m)
    /\ CASE ~Known(m.txn)                      -> UNCHANGED tables
         [] Known(m.txn) /\ m.kind = "grant"   -> InstallTether(pending[m.txn], m)
         [] Known(m.txn) /\ m.kind = "deny"    -> DenyTether(pending[m.txn])
    /\ UNCHANGED <<tasks, pkts, node, dlt, up, ses, history>>

\* handle_stream_id_withdrawal: the active entry that sends with the stream goes,
\* if there is one.
HandleStreamIdWithdrawal(m) ==
    /\ up
    /\ m \in BagToSet(net) /\ m.kind = "withdraw"
    /\ net' = Received(m)
    /\ RemoveByTetherId(m.id)
    /\ UNCHANGED <<tasks, pkts, node, dlt, up, ses, history>>

-------------------------------------------------------------------------------
(* The link of the source.                                                 *)

SourceMsg(m) == m.kind \in {"bind", "grant", "deny", "withdraw"}

\* Mutant: the tables survive the session.
KeepElt == UNCHANGED tables

\* clean_up_link_state of the adapter, for the endpoint table.
FlushElt == ClearElt

\* The link closes at the source: requests in flight are LinkClosed.
SourceDown ==
    /\ up /\ ses < MaxSessions
    /\ up' = FALSE
    /\ tasks' = {IF k.st = "wait" THEN [k EXCEPT !.st = "closed"] ELSE k : k \in tasks}
    /\ FlushElt
    /\ net' = Gone({m \in BagToSet(net) : m.kind \in {"grant", "deny", "withdraw"}})
    /\ orphans' = {}
    /\ UNCHANGED <<pkts, node, dlt, ses, permitted, revokes, binds>>

\* drop_peer at the node: the visas with a route from this link go with it.
NodeDown ==
    /\ node.up /\ ses < MaxSessions
    /\ node' = [up |-> FALSE, pft |-> Empty,
                visas |-> node.visas \ {node.pft[s].flow : s \in DOMAIN node.pft}]
    /\ UNCHANGED <<tables, tasks, net, pkts, dlt, up, ses, history>>

\* A new session: what is left of the old one cannot be decrypted any more.
LinkUp ==
    /\ ~up /\ ~node.up
    /\ ses' = ses + 1 /\ up' = TRUE
    /\ node' = [node EXCEPT !.up = TRUE]
    /\ net' = Gone({m \in BagToSet(net) : SourceMsg(m)})
    /\ pkts' = {p \in pkts : p.to = "dest"}
    /\ UNCHANGED <<tables, tasks, dlt, history>>

-------------------------------------------------------------------------------
Next ==
    \/ \E f \in Flows : ActorOutput(f)
    \/ \E f \in Flows : DoRequestTetherId(f)
    \/ \E m \in BagToSet(net) : GiveUp(m)
    \/ \E k \in tasks : TaskEnds(k)
    \/ \E m \in BagToSet(net) : BindActorAddress(m)
    \/ \E m \in BagToSet(net) : RequestedTetherGranted(m)
    \/ \E f \in Flows : Revoke(f)
    \/ \E s \in Streams : HandleUnbindIndication(s)
    \/ \E m \in BagToSet(net) : UnbindEgressStream(m)
    \/ \E p \in pkts : Forward(p)
    \/ \E m \in BagToSet(net) : BindEgressStream(m)
    \/ \E p \in pkts : ActorInput(p)
    \/ \E m \in BagToSet(net) : HandleBindActorAddressResponse(m)
    \/ \E m \in BagToSet(net) : HandleStreamIdWithdrawal(m)
    \/ DestinationLost
    \/ SourceDown
    \/ NodeDown
    \/ LinkUp

Spec == Init /\ [][Next]_vars

\* Management messages are retried until they arrive or the link closes (Zdpr), and
\* keepalives close a link whose other end is gone.
FairSpec ==
    /\ Spec
    /\ WF_vars(\E m \in BagToSet(net) :
                  GiveUp(m) \/ BindActorAddress(m) \/ RequestedTetherGranted(m) \/ BindEgressStream(m))
    /\ WF_vars(\E m \in BagToSet(net) : HandleBindActorAddressResponse(m))
    /\ WF_vars(\E k \in tasks : TaskEnds(k))
    /\ WF_vars(~node.up /\ SourceDown)

-------------------------------------------------------------------------------
(* Properties.                                                             *)

\* The tables of the source agree: the index holds exactly the transactions of the
\* pending entries, so neither "ELT consistency error" nor "duplicate transaction"
\* can occur, and a transaction is open exactly while an entry, the index or a task
\* holds it.
TablesConsistent ==
    /\ \A f \in DOMAIN elt : elt[f].st = "Pending" =>
          elt[f].txn \in DOMAIN pending /\ pending[elt[f].txn] = f
    /\ \A t \in DOMAIN pending :
          pending[t] \in DOMAIN elt /\ elt[pending[t]] = Pending(t)
    /\ \A t \in TxnId :
          LET handles == Cardinality({k \in tasks : k.txn = t})
                         + (IF t \in DOMAIN pending THEN 2 ELSE 0)
          IN IF t \in DOMAIN txn_mgr.open THEN txn_mgr.open[t] + 1 = handles
             ELSE handles = 0

\* The messages that will settle, or are the answer to, transaction t.
About(t) == {m \in BagToSet(net) :
                /\ m.kind \in {"bind", "egress", "tether", "full", "grant", "deny"}
                /\ m.txn = t
                /\ m.kind \in {"egress", "tether", "full"} => m.ses = ses}

\* While both ends of the link are up, every pending entry awaits exactly one
\* message, unless there will be none: its task has been told so, or the request was
\* lost in one of the two ways that the code tells nobody of (a cancellation reported
\* as Acked, a destination that left before it answered).  And no answer comes for a
\* transaction that is not pending, on which the source would take down its link
\* (UnknownTransaction).
AnswersExpected ==
    up /\ node.up =>
        \A t \in TxnId :
            LET gone == [txn |-> t, st |-> "canceled"] \in tasks \/ t \in orphans
            IN IF t \in DOMAIN pending
               THEN (About(t) = {} /\ gone) \/ (Cardinality(About(t)) = 1 /\ ~gone)
               ELSE About(t) = {}

\* A packet is under way, and the destination expands one, only for a flow that the
\* visa service has permitted: an answer for another flow than the one that asked
\* installs nothing (install_tether), although transactions and streams are reused.
OnlyPermitted ==
    /\ \A p \in pkts : p.flow \in permitted
    /\ \A id \in DOMAIN dlt : dlt[id] \in permitted

\* A pending entry is answered, denied or flushed, unless its request was lost without
\* a word (AnswersExpected): no other cancellation, refusal, mismatch or loss of the
\* source's link leaves the packets of a flow dropped as awaiting a bind for ever.
BindsSettle ==
    \A f \in Flows :
        [](f \in DOMAIN elt /\ elt[f].st = "Pending"
           => <>(\/ f \notin DOMAIN elt \/ elt[f].st # "Pending"
                 \/ elt[f].txn \in orphans))
===============================================================================
