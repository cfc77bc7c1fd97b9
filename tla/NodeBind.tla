------------------------------- MODULE NodeBind -------------------------------
(***************************************************************************)
(* A node between its adapters and the visa service: bind requests and the *)
(* forwarding state they create (mgmt/node.rs), the visa table             *)
(* (visa_table.rs, visa_mgmt.rs), the peer table with its link ids         *)
(* (peer_table.rs, assembly.rs) and the transactions of each link (TxnMgr).*)
(*                                                                         *)
(* An adapter asks to bind a flow.  The node finds a visa for it or asks   *)
(* the visa service, asks the adapter at the other end for a tether, and   *)
(* then enters a route into the forwarding table of the link the request   *)
(* came from.  In between, visas are revoked and links come and go.        *)
(*                                                                         *)
(* All of this runs on one thread, so an action is a handler, or the part  *)
(* of a task up to its next await.  Management messages are delivered once *)
(* (Zdpr) and in any order: what a peer may send next is what it has been  *)
(* asked, not what it was asked last.  Every peer is an adapter: links     *)
(* between nodes cannot be established yet (link_state.rs), so             *)
(* request_stream, which only serves them, is left out.                    *)
(***************************************************************************)
EXTENDS TxnMgr, Sequences, FiniteSets, TLC

CONSTANTS Links,      \* link ids: keys of the peer slab
          Actors,     \* adapters, each with one ZPR address
          Visas,      \* visa ids
          Route,      \* the source and destination a visa allows
          Reserved,   \* the visas below MIN_VISA_ID
          Streams,    \* stream ids: keys of a forwarding table
          PeerTxns,   \* transaction ids adapters use for their requests
          MaxConns,   \* how many times an adapter docks
          MaxEntries, \* bound on the entries of a visa when a stream is unbound
          None        \* no link, actor or visa

ASSUME NodeAssumption ==
    /\ Route \in [Visas -> Actors \X Actors]
    /\ Reserved \subseteq Visas
    /\ MaxConns \in Nat /\ MaxEntries \in Nat
    /\ None \notin Links \cup Actors \cup Visas

VARIABLES
    peers,      \* peer_table: the state of each live link
    visas,      \* visa_table: the forwarding entries of each visa held
    tasks,      \* the visa_request_tasks awaiting the visa service
    conns,      \* how many adapters have docked so far
    used,       \* link ids that have been given out
    panicked,   \* a panic aborts the process (profile.release of Cargo.toml)
    reissued,   \* history: an id was given out while a request still named it
    lost        \* history: streams whose entry was taken from their visa

ghosts == <<reissued, lost>>
vars == <<peers, visas, tasks, conns, used, panicked, reissued, lost>>

Put(f, k, v) == [x \in DOMAIN f \cup {k} |-> IF x = k THEN v ELSE f[x]]
Without(f, S) == [x \in DOMAIN f \ S |-> f[x]]
Empty == [x \in {} |-> 0]

(***************************************************************************)
(* PeerState.  `binds` is bind_request_state, `next_hop` is                *)
(* awaiting_next_hop_bind_table.  `conn` tells the links that have had the *)
(* same id apart, as the address of its TxnMgr does.  The last four fields *)
(* are what the adapter knows: the flows it awaits an answer for, the      *)
(* tether requests it has not answered, the streams it was lent and has    *)
(* not been told to drop, and whether it was ever answered out of turn.    *)
(***************************************************************************)
NodePeerState == [binds |-> Empty, next_hop |-> Empty]

PeerForwardingTable == Empty

NewPeer(a, c) ==
    [actor |-> a, conn |-> c, txn_mgr |-> NewTxnMgr, pft |-> PeerForwardingTable,
     binds |-> NodePeerState.binds, next_hop |-> NodePeerState.next_hop,
     asked |-> Empty, todo |-> {}, lent |-> {}, stray |-> FALSE]

\* A visa fresh from the visa service has no forwarding entries.
NewVisa == <<>>

\* The visas a node makes for itself, to reach the visa service and be reached.
NewWithVsVisas == [v \in Reserved |-> NewVisa]

NewPeerTable == Empty

Init ==
    /\ peers = NewPeerTable /\ visas = NewWithVsVisas /\ tasks = {}
    /\ conns = 0 /\ used = {} /\ panicked = FALSE
    /\ reissued = FALSE /\ lost = {}

-------------------------------------------------------------------------------
(* Transaction handles on egress links.                                    *)

Handle(P, e) == TxnHandle(e, P[e].conn, P[e].txn_mgr.next_free)

\* The handle to transaction id of link e that the peer's answer names.
GetTxn(P, e, id) == TxnHandle(e, P[e].conn, id)

\* The handle's Weak<TxnMgr> upgrades: its link is still there.
Upgrades(P, h) == h.link \in DOMAIN P /\ P[h.link].conn = h.conn

\* Mutant: handles are not counted.
CloneHandleUncounted(P, h) == P

CloneHandle(P, h) == [P EXCEPT ![h.link].txn_mgr = RefTxn(@, h.id)]

\* A handle whose transaction is closed would panic; see HandlesCounted.
DropHandle(P, h) ==
    IF Upgrades(P, h) /\ h.id \in DOMAIN P[h.link].txn_mgr.open
    THEN [P EXCEPT ![h.link].txn_mgr = DerefTxn(@, h.id)]
    ELSE P

\* The bind requests of link l that await a next hop, and so hold a handle.
Awaiting(P, l) == {t \in DOMAIN P[l].binds : P[l].binds[t].st = "AwaitingNextHopBind"}

\* Replace or remove the state of request t of link l, dropping its handle.
ForgetBind(P, l, t) ==
    LET Q == [P EXCEPT ![l].binds = Without(@, {t})]
    IN IF t \in Awaiting(P, l) THEN DropHandle(Q, P[l].binds[t].txn) ELSE Q

SetBind(P, l, t, st) == [ForgetBind(P, l, t) EXCEPT ![l].binds = Put(@, t, st)]

-------------------------------------------------------------------------------
(* The bind request state machine.                                         *)

\* An answer to request t of link l, about a visa or an error.
Answered(P, l, t, v) ==
    [P EXCEPT ![l].asked = Without(@, {t}),
              ![l].stray = @ \/ t \notin DOMAIN P[l].asked
                             \/ (v # None /\ Route[v] # P[l].asked[t])]

BindReject(P, l, t) ==
    IF l \in DOMAIN P THEN Answered(ForgetBind(P, l, t), l, t, None) ELSE P

\* It is not called while the next hop still has to answer: it asserts that.
RejectPanics(P, l, t) ==
    /\ l \in DOMAIN P /\ t \in Awaiting(P, l)
    /\ LET h == P[l].binds[t].txn
       IN Upgrades(P, h) /\ h.id \in DOMAIN P[h.link].next_hop

RequestedVisaDenied(P, l, t) == BindReject(P, l, t)

\* No visa here goes by way of another node: its next hop is its destination.
NextHopAddr(v) == Route[v][2]

\* The first peer that has the address.
FindEgressLink(P, a) ==
    LET S == {l \in DOMAIN P : P[l].actor = a}
    IN IF S = {} THEN None ELSE CHOOSE l \in S : TRUE

EgressLinkForVisa(P, v) == FindEgressLink(P, NextHopAddr(v))

\* The next hop is asked for a tether, and knows in which transaction.
BindEgressStreamRequest(P, e, id) == [P EXCEPT ![e].todo = @ \cup {id}]

\* requested_visa_granted: ask the next hop for a tether.  The transaction is
\* opened before the requestor is looked up, and closed again if it is gone.
RequestedVisaGranted(P, l, t, v) ==
    LET e == EgressLinkForVisa(P, v)
        h == Handle(P, e)
        Q == [P EXCEPT ![e].txn_mgr = TryOpenRaw(@)]
    IN CASE e = None                       -> RequestedVisaDenied(P, l, t)
         [] e # None /\ l \notin DOMAIN P -> DropHandle(Q, h)
         [] OTHER ->
              LET R == SetBind(CloneHandle(Q, h), l, t,
                               [st |-> "AwaitingNextHopBind", visa |-> v, txn |-> h])
              IN BindEgressStreamRequest([R EXCEPT ![e].next_hop = Put(@, h.id, <<l, t>>)],
                                         e, h.id)

\* try_open().expect("bind backpressure"), or the assertion of bind_reject.
GrantPanics(P, l, t, v) ==
    LET e == EgressLinkForVisa(P, v)
    IN IF e = None THEN RejectPanics(P, l, t) ELSE ~CanOpen(P[e].txn_mgr)

\* The traffic classifier of a visa, which has no wildcards here.
MatchTraffic(v, r) == Route[v] = r

\* match_traffic of the table, with any of the visas that match.
Matching(r) == {v \in DOMAIN visas : MatchTraffic(v, r)}

\* bind_actor_address: adapter l asks, in a transaction t of its own that has no
\* request outstanding, to bind a flow of route r.  A flow that is not from its own
\* address is denied, as is one that cannot be classified.
BindActorAddress(l, t, r) ==
    /\ ~panicked
    /\ l \in DOMAIN peers /\ t \notin DOMAIN peers[l].asked
    /\ LET P == [peers EXCEPT ![l].asked = Put(@, t, r)]
       IN \/ /\ r[1] # P[l].actor
             /\ panicked' = RejectPanics(P, l, t)
             /\ peers' = IF panicked' THEN P ELSE BindReject(P, l, t)
             /\ UNCHANGED tasks
          \/ /\ r[1] = P[l].actor
             /\ \E v \in Matching(r) :
                   /\ panicked' = GrantPanics(P, l, t, v)
                   /\ peers' = IF panicked' THEN P ELSE RequestedVisaGranted(P, l, t, v)
             /\ UNCHANGED tasks
          \/ /\ r[1] = P[l].actor /\ Matching(r) = {}
             /\ peers' = SetBind(P, l, t, [st |-> "AwaitingVisaResponse"])
             /\ tasks' = tasks \cup {[link |-> l, txn |-> t, route |-> r, conn |-> P[l].conn]}
             /\ UNCHANGED panicked
    /\ UNCHANGED <<visas, conns, used, ghosts>>

\* visa_request_task: the visa service denies, or cannot be reached in time.
VisaDenied(k) ==
    /\ ~panicked
    /\ tasks' = tasks \ {k}
    /\ panicked' = RejectPanics(peers, k.link, k.txn)
    /\ peers' = IF panicked' THEN peers ELSE RequestedVisaDenied(peers, k.link, k.txn)
    /\ UNCHANGED <<visas, conns, used, ghosts>>

\* The forwarding entries of the visas in S.
Entries(S) == UNION {{visas[v][i] : i \in 1 .. Len(visas[v])} : v \in S}

\* The pairs of link and stream that carry a route.
RoutesOf(P) == UNION {{l} \X DOMAIN P[l].pft : l \in DOMAIN P}

\* insert_visa of the table: a visa with the same id is replaced, by one without
\* entries.
TableInsert(V, v) == Put(V, v, NewVisa)

\* insert_visa: a visa whose next hop has no link yet is stored all the same, and
\* one the node still has is stored again.
InsertVisa(v) ==
    /\ visas' = TableInsert(visas, v)
    /\ lost' = lost \cup (Entries({v} \cap DOMAIN visas) \cap RoutesOf(peers))

\* do_visa_request: the visas it can return, those for the packet described.
VisaDecisions(k) == {v \in Visas : MatchTraffic(v, k.route)}

VisaGranted(k) ==
    \E v \in VisaDecisions(k) :
        /\ ~panicked
        /\ tasks' = tasks \ {k}
        /\ InsertVisa(v)
        /\ panicked' = GrantPanics(peers, k.link, k.txn, v)
        /\ peers' = IF panicked' THEN peers
                    ELSE RequestedVisaGranted(peers, k.link, k.txn, v)
        /\ UNCHANGED <<conns, used, reissued>>

-------------------------------------------------------------------------------
(* Answers of the next hop.                                                *)

\* The state of the request that transaction id of link e was opened for is not
\* the one that opened it: "dock state consistency error".
ConsistencyError(P, e, id) ==
    LET l == P[e].next_hop[id][1]
        t == P[e].next_hop[id][2]
    IN l \in DOMAIN P /\ ~ (/\ t \in Awaiting(P, l)
                            /\ P[l].binds[t].txn = GetTxn(P, e, id))

\* Mutant: the backlink to the originator stays.
ResolveNextHopKeep(P, e, id) ==
    DropHandle([P EXCEPT ![e].todo = @ \ {id}],
               GetTxn(P, e, id))

\* resolve_next_hop_bind_originator, after its checks: the backlink is removed.
ResolveNextHop(P, e, id) ==
    DropHandle([P EXCEPT ![e].next_hop = Without(@, {id}), ![e].todo = @ \ {id}],
               GetTxn(P, e, id))

Vacant(P, l) == Streams \ DOMAIN P[l].pft

\* Mutant: a request whose visa has gone is dropped without an answer.
TetherDeniedSilently(P, l, t) == IF l \in DOMAIN P THEN ForgetBind(P, l, t) ELSE P

\* requested_tether_granted when the table is full or the visa is gone.
TetherDenied(P, l, t) == BindReject(P, l, t)

ForwardingEntry(l, s) == <<l, s>>

\* Mutant: the route is not recorded with its visa.
LinkEntryNot(v, l, s) == visas

LinkEntry(v, l, s) == [visas EXCEPT ![v] = Append(@, ForwardingEntry(l, s))]

\* A route: where to send what arrives on a stream, and under which visa.
PftPep(e, tether, v) == [next_hop |-> ForwardingEntry(e, tether), visa |-> v]

\* Fill the vacant entry: its key is the stream lent to the adapter.
InsertRoute(P, l, s, pep) ==
    [P EXCEPT ![l].pft = Put(@, s, pep), ![l].lent = @ \cup {s}]

\* requested_tether_granted: the request becomes a route.
RequestedTetherGranted(P, e, l, t, tether) ==
    \/ /\ l \notin DOMAIN P
       /\ peers' = P /\ UNCHANGED <<visas, lost>>
    \/ /\ l \in DOMAIN P
       /\ LET v == P[l].binds[t].visa
              Q == ForgetBind(P, l, t)
          IN \/ /\ Vacant(P, l) = {} \/ v \notin DOMAIN visas
                /\ peers' = TetherDenied(Q, l, t)
                /\ UNCHANGED <<visas, lost>>
             \/ /\ v \in DOMAIN visas
                /\ \E s \in Vacant(P, l) :
                      /\ visas' = LinkEntry(v, l, s)
                      /\ lost' = lost \ {<<l, s>>}
                      /\ peers' = InsertRoute(Answered(Q, l, t, v), l, s, PftPep(e, tether, v))

\* The answer of the adapter at e to a request it was sent, and so one whose
\* transaction is open.
EgressStreamResponse(e, id) ==
    /\ ~panicked
    /\ e \in DOMAIN peers /\ id \in peers[e].todo

InstallTether(e, id, tether) ==
    /\ EgressStreamResponse(e, id)
    /\ panicked' = ConsistencyError(peers, e, id)
    /\ IF panicked' THEN UNCHANGED <<peers, visas, lost>>
       ELSE LET o == peers[e].next_hop[id]
            IN RequestedTetherGranted(ResolveNextHop(peers, e, id), e, o[1], o[2], tether)
    /\ UNCHANGED <<tasks, conns, used, reissued>>

\* deny_tether: the adapter has no room for the tether.
DenyTether(e, id) ==
    /\ EgressStreamResponse(e, id)
    /\ panicked' = ConsistencyError(peers, e, id)
    /\ LET o == peers[e].next_hop[id]
       IN peers' = IF panicked' THEN peers
                   ELSE BindReject(ResolveNextHop(peers, e, id), o[1], o[2])
    /\ UNCHANGED <<visas, tasks, conns, used, ghosts>>

-------------------------------------------------------------------------------
(* Withdrawal of routes.                                                   *)

\* Removing the routes of the visas in S from the tables of live links hits an
\* empty slot, on which the slab panics.
RemovalPanics(S) ==
    \/ \E x \in Entries(S) : x[1] \in DOMAIN peers /\ x[2] \notin DOMAIN peers[x[1]].pft
    \/ \E v, w \in S : \E i \in 1 .. Len(visas[v]), j \in 1 .. Len(visas[w]) :
          /\ <<v, i>> # <<w, j>> /\ visas[v][i] = visas[w][j]
          /\ visas[v][i][1] \in DOMAIN peers

\* Mutant: the peers are not told.
WithdrawStreamsNot(P, E, excluded) == P

\* withdraw_streams: every peer but the one that goes is told.
WithdrawStreams(P, E, excluded) ==
    [l \in DOMAIN P |->
        IF l = excluded THEN P[l]
        ELSE [P[l] EXCEPT !.lent = @ \ {s \in Streams : <<l, s>> \in E}]]

\* remove_forwarding_entries
RemoveRoutes(P, E) ==
    [l \in DOMAIN P |-> [P[l] EXCEPT !.pft = Without(@, {s \in Streams : <<l, s>> \in E})]]

\* Several visas leave the table at once.
RevokeNoRebuild(S) == Without(visas, S)

\* handle_revocation: the visa service revokes a visa.
HandleRevocation(v) ==
    /\ ~panicked
    /\ v \in DOMAIN visas
    /\ panicked' = RemovalPanics({v})
    /\ visas' = IF panicked' THEN visas ELSE RevokeNoRebuild({v})
    /\ peers' = IF panicked' THEN peers
                ELSE WithdrawStreams(RemoveRoutes(peers, Entries({v})), Entries({v}), None)
    /\ lost' = lost \cap RoutesOf(peers')
    /\ UNCHANGED <<tasks, conns, used, reissued>>

\* process_visaop, Grant: the visa service pushes a visa, perhaps once more.
PushVisa(v) ==
    /\ ~panicked
    /\ InsertVisa(v)
    /\ UNCHANGED <<peers, tasks, conns, used, panicked, reissued>>

\* unlink_forwarding_entry: the last entry takes the place of the first match.
Unlink(entries, x) ==
    LET S == {i \in 1 .. Len(entries) : entries[i] = x}
        k == CHOOSE i \in S : \A j \in S : i <= j
    IN IF S = {} THEN entries
       ELSE SubSeq([entries EXCEPT ![k] = entries[Len(entries)]], 1, Len(entries) - 1)

\* The visa may have gone with its entries.
UnlinkFrom(v, x) ==
    IF v \in DOMAIN visas THEN [visas EXCEPT ![v] = Unlink(@, x)] ELSE visas

\* unbind_stream: the adapter at l gives up stream s.  What is unlinked from the
\* visa is the next hop of the route, not the entry <<l, s>>.
UnbindStream(l, s) ==
    /\ ~panicked
    /\ l \in DOMAIN peers /\ s \in peers[l].lent
    /\ LET P == [peers EXCEPT ![l].lent = @ \ {s}]
       IN \/ /\ s \notin DOMAIN peers[l].pft
             /\ peers' = P /\ UNCHANGED <<visas, lost>>
          \/ /\ s \in DOMAIN peers[l].pft
             /\ peers[l].pft[s].visa \in DOMAIN visas
                   => Len(visas[peers[l].pft[s].visa]) <= MaxEntries
             /\ peers' = [P EXCEPT ![l].pft = Without(@, {s})]
             /\ visas' = UnlinkFrom(peers[l].pft[s].visa, peers[l].pft[s].next_hop)
             /\ lost' = (lost \cup {peers[l].pft[s].next_hop}) \cap RoutesOf(peers')
    /\ UNCHANGED <<tasks, conns, used, panicked, reissued>>

-------------------------------------------------------------------------------
(* Links.                                                                  *)

\* The id of a new link: a slot that was freed, or else the next one.
VacantKey(l) ==
    /\ l \notin DOMAIN peers
    /\ \/ l \in used
       \/ used \subseteq DOMAIN peers /\ l = CHOOSE k \in Links : k \notin used

\* A task, or a next hop that was asked, will look its requestor up by this id.
NamedByRequest(l) ==
    \/ \E k \in tasks : k.link = l
    \/ \E e \in DOMAIN peers : \E id \in DOMAIN peers[e].next_hop :
          peers[e].next_hop[id][1] = l

InsertPeer(l, ps) == Put(peers, l, ps)

\* add_peer, and the address assigned when the link becomes active; before that
\* the link can neither be bound from nor to.
Dock(a, l) ==
    /\ ~panicked
    /\ conns < MaxConns
    /\ VacantKey(l)
    /\ \A k \in DOMAIN peers : peers[k].actor # a
    /\ peers' = InsertPeer(l, NewPeer(a, conns))
    /\ conns' = conns + 1
    /\ used' = used \cup {l}
    /\ reissued' = (reissued \/ NamedByRequest(l))
    /\ UNCHANGED <<visas, tasks, panicked, lost>>

\* clean_up_link_state: the address goes first, the peer follows when key
\* management has been shut down.
DeregisterActorAddresses(l) ==
    /\ ~panicked
    /\ l \in DOMAIN peers /\ peers[l].actor # None
    /\ peers' = [peers EXCEPT ![l].actor = None]
    /\ UNCHANGED <<visas, tasks, conns, used, panicked, ghosts>>

\* revoke_for_link: the visas with an entry on the link.
RevokedFor(l) == {v \in DOMAIN visas \ Reserved : \E x \in Entries({v}) : x[1] = l}

\* Dropping a PeerState drops the handles its requests hold on other links.
DropHandles(P, l) ==
    LET H == {P[l].binds[t].txn : t \in Awaiting(P, l)}
        Held(k) == {h \in H : h.link = k /\ h.conn = P[k].conn}
        Left(m, i, k) == m.open[i] + 1 - Cardinality({h \in Held(k) : h.id = i})
    IN [k \in DOMAIN P \ {l} |->
          [P[k] EXCEPT !.txn_mgr.open =
              [i \in {j \in DOMAIN @ : Left(P[k].txn_mgr, j, k) > 0} |->
                  Left(P[k].txn_mgr, i, k) - 1]]]

\* drop_peer
DropPeer(l) ==
    /\ ~panicked
    /\ l \in DOMAIN peers /\ peers[l].actor = None
    /\ panicked' = RemovalPanics(RevokedFor(l))
    /\ visas' = IF panicked' THEN visas ELSE RevokeNoRebuild(RevokedFor(l))
    /\ LET E == Entries(RevokedFor(l))
       IN peers' = IF panicked' THEN peers
                   ELSE DropHandles(WithdrawStreams(RemoveRoutes(peers, E), E, l), l)
    /\ lost' = lost \cap RoutesOf(peers')
    /\ UNCHANGED <<tasks, conns, used, reissued>>

-------------------------------------------------------------------------------
Routes == {Route[v] : v \in Visas}

Next ==
    \/ \E a \in Actors, l \in Links : Dock(a, l)
    \/ \E l \in Links : DeregisterActorAddresses(l)
    \/ \E l \in Links : DropPeer(l)
    \/ \E l \in Links, t \in PeerTxns, r \in Routes : BindActorAddress(l, t, r)
    \/ \E k \in tasks : VisaDenied(k)
    \/ \E k \in tasks : VisaGranted(k)
    \/ \E e \in Links, id \in TxnId, s \in Streams : InstallTether(e, id, s)
    \/ \E e \in Links, id \in TxnId : DenyTether(e, id)
    \/ \E v \in Visas : HandleRevocation(v)
    \/ \E v \in Visas : PushVisa(v)
    \/ \E l \in Links, s \in Streams : UnbindStream(l, s)

Spec == Init /\ [][Next]_vars

-------------------------------------------------------------------------------
(* Properties.                                                             *)

BindStates ==
    [st : {"AwaitingVisaResponse"}]
      \cup [st : {"AwaitingNextHopBind"}, visa : Visas,
            txn : [link : Links, conn : 0 .. MaxConns, id : TxnId]]

\* Type invariant of the tables.
NodeTypeOK ==
    /\ DOMAIN peers \subseteq Links
    /\ \A l \in DOMAIN peers :
          /\ peers[l].actor \in Actors \cup {None}
          /\ \A t \in DOMAIN peers[l].binds :
                t \in PeerTxns /\ peers[l].binds[t] \in BindStates
          /\ DOMAIN peers[l].next_hop \subseteq TxnId
          /\ TxnMgrTypeOK(peers[l].txn_mgr)
          /\ \A s \in DOMAIN peers[l].pft :
                /\ s \in Streams
                /\ peers[l].pft[s] \in [next_hop : Links \X Streams, visa : Visas]
    /\ DOMAIN visas \subseteq Visas
    /\ \A v \in DOMAIN visas : visas[v] \in Seq(Links \X Streams)

\* Traffic is forwarded only under a visa the node holds, and revoking the visa
\* would find the route: every route is among the entries of its visa.  A route
\* loses that protection in two ways only: its visa is sent again, which replaces
\* the entries by none, or a stream is unbound whose next hop is the same pair of
\* link and stream.  Until the pair carries another route it is in `lost`.
RoutesHaveVisas ==
    \A l \in DOMAIN peers : \A s \in DOMAIN peers[l].pft :
        LET v == peers[l].pft[s].visa
        IN <<l, s>> \in lost \/ (v \in DOMAIN visas /\ <<l, s>> \in Entries({v}))

\* A route leads somewhere: the link of its next hop is still there.
RoutesLeadSomewhere ==
    \A l \in DOMAIN peers : \A s \in DOMAIN peers[l].pft :
        peers[l].pft[s].next_hop[1] \in DOMAIN peers

\* What the code calls impossible, and panics on, is an answer of a next hop for a
\* request that does not await it.  It takes a link id given out again while a
\* request of its last owner was outstanding; without that, a next-hop request
\* whose requestor is still there belongs to a bind request that awaits it.
OriginatorsConsistent ==
    \A e \in DOMAIN peers : \A id \in DOMAIN peers[e].next_hop :
        ConsistencyError(peers, e, id) => reissued

\* Every handle is counted: an id is in use exactly while the table of next-hop
\* requests or a bind request refers to it, and its count is the number of these
\* references minus one, so it is neither leaked nor closed too early, even when
\* link ids are given out again: a handle names the connection, too.
Refs(e, id) ==
    Cardinality({x \in {e} : id \in DOMAIN peers[e].next_hop})
    + Cardinality({x \in Links \X PeerTxns :
                      /\ x[1] \in DOMAIN peers /\ x[2] \in Awaiting(peers, x[1])
                      /\ peers[x[1]].binds[x[2]].txn
                            = GetTxn(peers, e, id)})

HandlesCounted ==
    \A e \in DOMAIN peers : \A id \in TxnId :
        Refs(e, id) = IF id \in DOMAIN peers[e].txn_mgr.open
                      THEN peers[e].txn_mgr.open[id] + 1 ELSE 0

\* The streams a node has told an adapter it may use, and not yet withdrawn, are
\* exactly those it has routes for, through revocations and departures.  This is
\* about what is sent; the adapter may read the withdrawal before the answer.
PeersInformed == \A l \in DOMAIN peers : peers[l].lent = DOMAIN peers[l].pft

\* Every answer goes to an adapter that asked, for a flow it asked about, once.
NoStrayAnswers == \A l \in DOMAIN peers : ~peers[l].stray

\* The next hop of a bind request is gone, and with it the record of whom to
\* answer.
Orphaned(l, t) ==
    /\ t \in Awaiting(peers, l)
    /\ ~Upgrades(peers, peers[l].binds[t].txn)

\* Every bind request an adapter still awaits an answer for is being pursued, by
\* a task that has called the visa service or by the next hop, which knows whom
\* the answer is for; or its next hop has left, and nobody will answer it.
BindsPursued ==
    \A l \in DOMAIN peers : \A t \in DOMAIN peers[l].asked :
        \/ panicked
        \/ Orphaned(l, t)
        \/ /\ t \in DOMAIN peers[l].binds /\ t \notin Awaiting(peers, l)
           /\ \E k \in tasks : k.link = l /\ k.txn = t
        \/ /\ t \in Awaiting(peers, l)
           /\ LET h == peers[l].binds[t].txn
              IN /\ h.id \in peers[h.link].todo \cap DOMAIN peers[h.link].next_hop
                 /\ peers[h.link].next_hop[h.id] = <<l, t>>

\* As long as no link id is given out while a request names it, no answer comes
\* unasked, for another flow or a second time, and an adapter that waits is owed the
\* next step by the visa service or by its next hop, unless that has left.
AnswersOwed == reissued \/ (NoStrayAnswers /\ BindsPursued)
===============================================================================
