# Verification of the ZPR packet handler

TLA+ models of `adapter/ph`, the packet handler of ZPR: the process that runs as an adapter (one
dock) or as a node (many links), speaks ZDP to its peers over UDP, and forwards traffic only where a
visa allows it. The modules here model its protocol logic, TLC checks them on small instances, and
TLAPS proves the central safety properties for every value of the parameters.

## 1. The system

| Component | Source (`adapter/ph/src/`) | State | Operations | What is hard | What makes it correct |
|---|---|---|---|---|---|
| ZDP-R sender | `zdpr.rs` | window of unacknowledged packets, queue of blocked packets, map from queue ids to sequence numbers | enqueue, cancel (queued / sent), limit retries, forget, process ack / canceled, unblock, age, retry | acknowledgements lost, late, duplicated; ids are positions in three deques | never outruns the receiver's window; order kept; believes only what the peer did |
| ZDP-R receiver | `zdpr.rs` | highest sequence number seen, two bit windows | process packet, process cancel | duplicates, reordering, a cancel overtaking its packet, shift width | each packet is decided once, and every answer is true and final |
| Dispatch and retry timer | `mgmt/dispatch.rs`, `zdpr_worker.rs`, `mgmt_processor_worker.rs` | processor queue, interval, notification | one handler per message type, tick, reset | back-pressure after classification; `retry_needed` sampled before waiting | everything outstanding is retried and in the end answered |
| Send futures | `mgmt/core.rs`, `peer_table.rs` | packet id, generation, wakers | poll, `acked`, `limit_retries`, `request_cancel`, `enqueue`, drop; session restart | polls, drops and restarts between any two awaits of other tasks | resolves once, truthfully; no lost wake-up; no assertion fires |
| Transaction manager | `mgmt/txn_mgr.rs` | next id, reference counts | open, try_open, clone, drop, get | the next id in use while others are free | an id is never shared by two open transactions; waiters wake |
| Adapter tables | `adapter_tables.rs`, `mgmt/adapter.rs`, `adapter_manager_worker.rs` | pending and active endpoints, index by transaction, tethers | insert pending, set active, remove by flow / tether / all | requests, answers, withdrawals and closes cross | table and index agree; only permitted flows are sent and expanded |
| Node binds | `mgmt/node.rs`, `mgmt/requests.rs`, `mgmt/handlers.rs` | bind requests by transaction, next-hop originators | bind, visa granted / denied, tether granted, reject, unbind | several peers and the visa service interleave, link ids are reused | every request is pursued, nobody is answered unasked; no forwarding entry outlives its visa |
| Visa table | `visa_table.rs`, `visa_mgmt.rs`, `forwarding_tables.rs` | visas, timeouts, forwarding entries | insert, revoke, revoke for link, expire, link and unlink entries | re-insertion, stale timeouts | a visa is used until, and only until, its expiry or revocation |
| Link state: docking | `link_state.rs`, `peer_table.rs`, `address_pool.rs` | per link: state, timer, challenge, addresses, carrier, tethers, last failure | start, keyed, hello, init auth, acquire, grant, keep-alive, time-out, terminate, close, reset, restart, shutdown | timers and late answers of agent, visa service and peer; restart in the same slot | the present challenge is answered; both ends agree; nothing outlives the session |
| Link state: renewal | `link_state.rs`, `admin_worker.rs` | deadline, `renewal_in_flight`, stashed challenge, agents | tick, request, challenge, answer, agent call, reauthorize | two paths and four ways to end an attempt; slot reuse | one thing ends an attempt, and something does |
| Authentication agent | `adapter/cli/src/oidc.rs` | refresh tokens by issuer | login, refresh | logins without a link, replaced agents, abandoned calls | a link is renewed as the user who logged in for it |
| Key management | `km.rs`, `km_noise.rs`, `km_multiplexor.rs`, `km_cert_exchange.rs` | handshake, association, signals, error status | start, receive, time out, transition, signal, restart, drop | two threads; signals name the slot | the present key manager's keys win; failures are retried |
| Visa service connection | `vs_worker.rs`, `vss_worker.rs`, `visa_mgmt.rs`, `libnode2/src/vsconn.rs`, `libnode2/src/vss.rs` | channel of commands, connection, registration, docked actors | dial, run, serve, ping, redial; connect, register, restart; authorize, disconnect; shutdown | connection and link of the visa service fail separately; events are read late | registered again with the actors known; every call answered; shutdown ends |
| Fast path: packets | `fastpath.rs`, `classifier.rs`, `compress.rs`, `tc.rs`, `packet.rs` | none between packets | classify, compress, seal, open, expand, verify | fields that are recomputed | what arrives is what was sent |
| Fast path: input and output | `fastpath_worker.rs`, `fastpath_io.rs`, `batch_io.rs`, `sys/wait.rs`, `queues.rs`, `packet_queue.rs`, `two_way_queue.rs` | buffers, queues, notifications | wait, read, process, write, return | two threads and the kernel; notifications consumed early | no buffer and no wake-up is lost; every source finds a batch |
| Authentication, PKI, configuration, capture, OS layer, the rest of `adapter/cli`, `adapter/admin-api` | the other files | none of the protocol's | cryptography, start-up, I/O | | not modelled, see below |

How they interact. All management tasks share an `Assembly` and run on one thread (`main.rs` spawns
them on a single `LocalSet`): a task gives way to another only where it awaits, so a call without an
await is one step, whatever locks it takes. The fast-path threads run beside it; of the tables they only
read. The fast path hands management packets to *dispatch*, which runs ZDP-R under the
peer's sender or receiver mutex and puts accepted packets on the link's bounded processor queue. The
*processor worker* of the link runs the handlers one packet at a time; they send answers through
`mgmt::core`, whose futures other tasks await. One *retry worker* per link resends. The link state
machine starts and stops links and restarts their ZDP-R sessions.

The hazards these interactions expose the code to are listed, with the line where each bites, under
`hazards` in `PROJECT.json`.

## 2. Modules

| Module | Models | Uses |
|---|---|---|
| `ZdprSender` | `zdpr::Sender`: a record, one operator per method | |
| `ZdprReceiver` | `zdpr::Receiver`: a record, one operator per method | |
| `Zdpr` | one direction of a session: sender, receiver, dispatch, retry worker, substrate | both |
| `ReliableChannel` | what a session promises its users, without windows, retries and messages | |
| `MgmtSend` | the futures of `mgmt/core.rs` and the session restart of `peer_table.rs` | `Zdpr` |
| `TxnMgr` | `txn_mgr.rs`: a record, one operator per method | |
| `NodeBind` | a node: bind requests, visa table, forwarding tables, link ids | `TxnMgr` |
| `Docking` | both ends of a docking session, the visa service's answers, the agent, the address pool | |
| `OidcAgent` | one call to the authentication agent: its results, the token kept, the answer as it is read | |
| `Renewal` | silent re-authentication of a docked adapter | `OidcAgent` |
| `Keying` | key managers and multiplexor of both ends | |
| `VisaService` | connection manager, worker, callbacks, shutdown | |
| `AdapterFlows` | endpoint table, node route, dock table, and packets | `TxnMgr` |
| `PacketBuffer` | `packet.rs`: the extent of a packet in its buffer, one operator per method | |
| `PacketPath` | one packet from actor to actor, or one management message over a link | `PacketBuffer` |
| `PacketIo` | the loop of a fast-path worker and its queues | |
| `MC...` | symmetry and constants for TLC, one for each of the above | |
| `ZdprProofs` | what each sender operator preserves; a session decides once, its two ends agree, it refines `ReliableChannel`; its futures | `MgmtSend` |
| `NodeBindProofs` | theorems about a node's binds, streams, transactions and routes | `NodeBind` |
| `DockingProofs` | theorems about a docking session: credentials, addresses, clean-up, restarts | `Docking` |
| `RenewalProofs` | theorems about renewal attempts and the agent | `Renewal` |
| `SealingProofs` | a packet stays within its buffer, arrives intact and, if plain, arrives; the present key manager's keys win | `PacketPath`, `Keying` |
| `AdapterFlowsProofs` | the source's tables agree, answers are awaited, only permitted flows are sent | `AdapterFlows` |
| `VisaServiceProofs` | the channel of commands; docked actors are known to the visa service | `VisaService` |
| `PacketIoProofs` | buffers and wake-ups are not lost, batches are reserved | `PacketIo` |

### ZdprSender and ZdprReceiver

A sender is a record with the fields of the struct. The three deques are functions on intervals of
integers, indexed by what indexes them in the code: `unacked` by sequence number, `blocked` and `sent`
by queue id. The position arithmetic of the methods becomes a membership test, and the alignment of
the deques, on which that arithmetic relies, is stated and checked (`SenderShape`). An entry keeps
its packet, retry limit, retry count, the `forgotten` flag and the task whose waker it holds. The
`clean_*` methods are part of every operator whose method calls them. `woken` collects the tasks a
call has woken. `EnqueueBlockedPackets` is the whole `while unblock_needed()` loop of dispatch, which
runs under one lock, in closed form: the number of packets it sends is the room in the window or the
number of live packets in the queue, whichever is less.

A receiver keeps `highest_seen` and the two bit windows, each as the set of the positions that are 1
(`BITS` of them). `ShiftLeft` drops what leaves the window and reduces the distance modulo `BITS`, as
a release build does. Sequence numbers are naturals; `SeqNum::MAX`, the receiver's initial
`highest_seen` and the sender's initial `last_sent`, is -1. That 2^64 packets are sent on one session
is not considered.

Of the statistics only those that accuse the peer (`is_protocol_error`) are kept, as flags.

### Zdpr

One action per caller operation, per message handler and per wake-up of the retry worker; each executes
under one mutex in the code. `net` is the set of messages on the wire: delivery leaves the message there,
so it can arrive any number of times and in any order; `Lose` removes it. With all four types in `Lossy`
every message may be lost. A message that is not is still delayed without bound, duplicated and reordered,
and one that is never delivered behaves, for safety, as a lost one, so the safety runs let `Lose` remove
acknowledgements only, or nothing. A packet that finds the processor queue full is not received
(`RecvData` is disabled, the message stays on the wire): this is what dispatch does.

`timer` is the retry worker: it waits for a tick only if `retry_needed()` held when it began to wait,
and for a notification. `submitted`, `log` and `refused` are histories for the properties.

### ReliableChannel

The abstract channel has four parts: how many packets were issued, which of them the peer accepted,
which it refused, and which the sender considers settled. Acceptance and refusal are final and
exclude each other, a packet is settled only after the peer has decided, and the unsettled packets
span no more than a window. `Zdpr!ImplementsChannel` is the refinement.

### MgmtSend

Every packet has one future, polled by a task of its own when that task has been woken, and converted,
detached or dropped at any time. `Poll` is the whole `poll` of the current kind of future, the waker it
stores included. None of the calls awaits while it works on the sender, and all tasks run on one thread,
so each is one step, and so is `reset_zdpr_session`, which replaces sender and receiver and bumps the
generation: a future never sees half of a restart, but a future of the old session may be polled,
converted, detached or dropped at any time after it. The receiver that is reset with the sender is the one
at the other end: the code comment says that the peer allocates a new link for every attempt; messages of
the old session are undecryptable and vanish.

### TxnMgr and NodeBind

`NodeBind` is a node with the adapters docked on it. `peers` is the peer table: per link the bind
requests it has made (`bind_request_state`), the next-hop requests made of it
(`awaiting_next_hop_bind_table`), its transaction manager and its forwarding table; `visas` is the
visa table, each visa with the forwarding entries recorded under it; `tasks` are the visa requests in
flight. An action is a whole handler, or a task from one await to the next:

| Action | Code |
|---|---|
| `BindActorAddress` | `bind_actor_address`, with the immediate grant when a visa matches |
| `VisaGranted`, `VisaDenied` | the rest of `visa_request_task` |
| `InstallTether`, `DenyTether` | `handle_bind_egress_stream_response` and what it calls in `node.rs` |
| `PushVisa`, `HandleRevocation` | `process_visaop` |
| `UnbindStream` | `handle_unbind_indication` on the node |
| `Dock` | `add_peer`, and the registration of the adapter's address |
| `DeregisterActorAddresses`, `DropPeer` | the two halves of closing a link, with an await between them |

A panic ends the process (`panic = "abort"`), so it sets `panicked` and nothing follows. The panics of
the modelled code are all there: the two consistency checks, the assertion of `bind_reject`, the
`expect` of `try_open`, and the slab's when an empty slot is removed.

A transaction handle is the link it was opened on, its id, and the number of the connection, which
stands for the address of the manager a `Weak` points to: a handle does nothing once that manager is
gone, also if another link has taken the same id. Messages to adapters take effect as what the adapter
has been told: `asked` (requests without an answer), `todo` (next-hop requests it owes an answer to)
and `lent` (streams it may send on). Answers of adapters come in any order.

Abstracted: a flow is its source and destination, a visa allows one such pair (`Route`), and an
adapter has one address. Assumed: an adapter does not reuse the transaction id of a request it still
awaits (it takes ids from the same transaction manager). A freed link id is given out again, as the slab
does, and the visa service may send a visa the node still has, as a retried push amounts to. Two
histories mark what goes wrong then (observation 5): `reissued`, once a link id has been given out while
a request of its last owner still names it, and `lost`, the pairs of link and stream whose routes are no
longer among the entries of their visa. `Reserved` are the visas of the node itself, which the
table holds from the start. A pushed batch of visa operations is taken one operation at a time, which
allows more interleavings than the loop of the code does.

### Docking, Renewal

`Docking` has the adapter's link `a`, which lives as long as its process, and the node's link `n`, a
slot of the peer table filled anew for every attempt. Every handler of the two state machines is an
action (`A...` at the adapter, `N...` at the node); the conditions that the code matches on, pairs of
link type and state, are guards, and the arms that only log are steps that change nothing. Messages
carry the security association they were sent under and are readable only while the receiver holds
it. `Configs` gives the configurations: auto-connect, bootstrap and identity providers, a demanded
address, the visa service's own adapter. `ops` counts what the operator and fate do (stops, closes,
resets, a crash of the node), `sess` the sessions. The clean-up of a close is a task that waits for
the key manager and then sends CloseDone to whatever link is in the slot; `old` counts the tasks of
earlier closes and `cut` records that one of them completed a later close (observation 6).

`Renewal` takes a docked link and models what comes after: the deadline, the request of the visa
service, the challenge, the adapter's answer with one credential for each namespace, or the agent
registered at the node, and the one `reauthorize` call. `tasks` are the spawned tasks (timer, agent
call, submission, call), each with the `uid` of its link, by which the code tells a link from the next
in its slot. A credential is what it proves: namespace, challenge, issuer, and whether it verifies.
An `authorize` task is the call of the docking that has not returned: its answer names the slot only and
clears the flag of the link it finds (`RecordAuthExpires`), which `cut` records. `NDockCutShort` is a link
that closes before its authorization comes.
Deadlines are time: whether one has passed at a tick is left open. The adapter's agent (`OidcAgent`) keeps
a refresh token per issuer, which is known by the login it came from; `NDock` is a login and the link
that came of it, `ALogin` a login without. A request handed to the bridge of an agent that has since been
replaced is still served from that agent's tokens (`Disown`). `MaxAgents` bounds how often an agent
registers.

### Keying

`km` are the key managers, `link` the association and handle in the peer table, `sigq` the queue of
signals, `errs` the multiplexor's record of errors. A message of the Noise handshake carries the
ephemeral keys its sender has seen; that is all the cryptography there is. A key manager's turn is two
steps, its work under the lock and the signals after it, since the signal worker is another thread.

### VisaService

`mgr` is the connection manager and its phase, `cmds` its channel, `call` the outstanding call of every
caller, `wrk` the worker with its program counter, `life` the lifecycle events it has not read, `vs` the
visa service, `actor` the docked adapters. A remote call is one step that serves, refuses or loses it.
The path may be lost and the visa service may crash at any time, also during the TLS handshake, which has
no time-out (`HandshakeHangs`), and before the node has connected, which nobody notices (`Unnoticed`;
observation 8). What a late authorization does to the renewal flag is in `Renewal`.

### AdapterFlows

The three tables a flow passes through, the messages that fill them, packets that use them. It extends
`TxnMgr`; of the node it keeps the forwarding table and the visas, abstracting `NodeBind` to one step per
request. Messages arrive once, in any order (`Zdpr` shows that ZDP-R gives no more and no less), or are
canceled; the cancellation may be reported as an acknowledgement (observation 2). The destination may
leave (`DestinationLost`), and a request it has not answered is then never answered. The history `orphans`
keeps the requests lost in these two ways. `VisaFor` lets the visa service answer with a visa for another
flow than the one asked about. An unbind indication may come for any stream; none of the repository's
peers sends one.

### PacketPath, PacketBuffer, PacketIo

`PacketPath` follows one packet through classification, compression, sealing, expansion and the
integrity check. The bytes after the fixed header are units named for the fields the code takes apart,
and the code cuts by position, so the model does too. A checksum or hash is what it covers. Beside the
contents goes the extent of the packet in its buffer (`PacketBuffer`: offset, length and capacity in
bytes), moved by every header pushed, pulled, grown or cut, and `Overrun` once an assertion of
`packet.rs` would fire.

`PacketIo` is the loop of one worker: each iteration outputs what is queued, waits, and then serves
returns, writable socket, management queue, requeue, TUN and substrate in that order. Queueing an item
and posting its notification are two steps, consuming and taking are two steps; `arm` chooses between
the pipe of POSIX and the event of Windows. There are two two-way queues to the management thread, each
with a receiver that holds a guard (`Lanes`). On Windows the substrate socket has an event of its own
(`fd`): a packet sets it while FD_READ is enabled, the worker resets it before it reads, a read enables
FD_READ again, and the event stands for readable and for writable; `deaf` records a reset with no buffer
to read into. `ample` marks a cycle that began with at most one batch of buffers in use. `MaxArrivals`,
`MaxPriority`, `MaxQueued` and `MaxTasks` bound what the kernel holds, how many packets are marked, how
many items the queues hold together, and how many buffers management holds or returns at once.

## 3. What is checked

| Run | Instance | States | Shows |
|---|---|---|---|
| `zdpr_safety` | 3 packets, window 2, 4 bits, retry count up to 1, queue of 1, acknowledgements lost | 60 000 | `AtMostOnce`, `AnswersTruthful`, `WindowRemembers`, `SessionInvariant`, `ImplementsChannel` |
| `futures_safety` | 2 packets, window 2, every call, one restart | 117 000 | `CanceledMeansRefused`, `NeverPanics`, `SleepersRegistered`, `SessionRestarts` |
| `futures_liveness` | 2 packets, window 1, losses | 39 000 | `FuturesResolve` |
| `node_binds` | 2 adapters, 2 link ids, 3 connections, a visa for each direction, 2 transaction ids, 1 stream per link, 2 stale entries | 2 406 000 | `RoutesHaveVisas`, `OriginatorsConsistent`, `HandlesCounted`, `PeersInformed`, `AnswersOwed` |
| `docking` | 8 configurations, 2 addresses, 1 AAA address, up to 2 node links | 6 281 000 | `AnswersCurrentAttempt`, `ActiveAgreement`, `CleanUpComplete`, `HardStop` |
| `renewal` | 1 issuer and a foreign one, 2 links in the slot, 2 challenges, 2 agents | 1 023 000 | `InFlightHonest`, `SubmittedProven`, `OneAgentCall`, `RenewsOwnLogin`, `InFlightSettles` |
| `keying` | 3 key managers, 2 failures | 233 000 | `LatestKeysWin`, `KmRecovers` |
| `visa_service` | 1 actor, 1 fault, 1 request | 180 000 | `SyncedActors`, `CallsAnswered`, `Reregisters`, `ShutdownCompletes` |
| `flows` | 2 flows, 1 stream, 2 tethers, 2 transaction ids, 3 binds, 2 sessions, 1 revocation, unbinding or loss of the destination | 819 000 | `TablesConsistent`, `AnswersExpected`, `OnlyPermitted`, `BindsSettle` |
| `packet_path` | every combination of a few values of each field, 11 lengths, all visas, associations | 230 000 | `ArrivesIntact`, `PlainPacketsArrive`, `WithinBuffer` |
| `packet_io` | 5 buffers, batches of 1, both queues with 2 items together, two two-way queues of 1 | 11 518 000 | `BuffersConserved`, `NoLostWakeup`, `BatchesReserved` |
| `packet_round_trip` | plain IPv4 packets with valid checksums | | the finding below |

Bounds. Three packets and a window of two make packets wait in the queue, be unblocked two at a time,
arrive out of order at both ends of the window and fall out of it; four bits are two more than the window,
as 64 bits are more than the default window. The retry counter saturates at `U8Max` = 1 so that a limit
can be set below, at and above the count. A processor queue of one is full after one packet. Two packets
and a window of one make one future's packet wait for the other's; so do two packets and a window of two
as long as the peer's Hello has not announced it, since a sender starts with a window of one. One restart
is enough for a future of the old session to meet the new one. Packets are interchangeable, which makes
the symmetry of the safety runs sound; liveness runs use none. Deadlock is not checked: once all packets
of the instance are settled nothing is left to do.

Three connections let an adapter leave in the middle of a bind, as requestor and as next hop, and
come back while the other end stays, on the other link or on the one of an adapter whose requests are
still outstanding. With a visa for each direction every link is
requestor and next hop at once. Two transaction ids wrap around and run out, one stream per link fills
a forwarding table. `MaxEntries` keeps the stale entries unbinding leaves behind (below) from growing
for ever. Deadlock is not checked: once the connections are used up and the adapters have left, the
node rests.

`AnswersOwed` is the safety half of "every bind request is answered": whenever an adapter waits,
somebody who knows about it owes the next step, the visa service (calls have a timeout) or an adapter,
and nobody is answered who does not wait. It excepts what the code does not give: a request whose next
hop has left is never answered, and once `reissued` holds answers reach other adapters.

Two links in a slot let every late answer, timer and task of the first meet the second. In `docking` one
AAA address runs out when it leaks, two ZPR addresses are enough to disagree, and each configuration
bounds its own sessions, node links (`cfg.links`) and interventions so that a restart meets a failure, a
stop or a crash at every point, and so that a clean-up task that is late meets the close of the next link.
Two agents are one and its successor. Two challenges make an answer of an earlier attempt meet the next.
Three key managers are two at one end, one after the other, and one at the other, with a failure at each.
One fault in `visa_service` is one crash, link failure, lost or refused call at any point, also between a
connect and its registration, during the handshake and before the connect. In `flows` one stream and two
flows make an id be reused by the other flow, two transaction ids wrap. In `packet_io` five buffers are
the least the assertion of `fastpath_main` admits, both queues, the TUN device and the substrate compete
for them, and two receivers hold or return buffers at once on POSIX, one on Windows, where each
notification takes two steps more; there deadlock is checked, since the worker never stops. In
`packet_path` the lengths are the shortest packet of each protocol, a usual one, the longest that leaves
room for the integrity values, one more, and the longest that fits the buffer.

Fairness. The retry worker, the processor worker and woken tasks run on a scheduler that does not
starve them: weak fairness of `RetryTick`, `RetryTimerReset`, `HandleNext`, `Poll`. A message that is
sent again and again is not lost for ever: strong fairness of the receipt of each sequence number's
packet, cancel and answer. That is an assumption about the network, without which no retry protocol
makes progress. Callers are under no obligation to do anything, except that a resolved future is
dropped, as the `await` it resolved in does. The same holds of the other liveness properties: timers
fire, spawned tasks run, a remote call ends by its timeout. `renewal` and `keying` assume nothing of
the network or the peer; `visa_service` assumes that its adapter docks again, and strong fairness of
the branches of a `select!`, which chooses at random among those that are ready. A dial ends by its
time-out; a TLS handshake is assumed to end only as long as its path is there, since nothing in the code
ends it, and the properties say so. `flows` assumes that management messages arrive or are canceled and
that keep-alives close a link whose other end is gone.

### Finding

`decrement_ttl` does not update the header checksum of an IPv4 packet. The integrity value is computed
over the body with the stale checksum, the destination computes the checksum anew when it expands the
packet, the values differ and the packet is dropped. The trace of `packet_round_trip` is a TCP packet of 40
bytes with a time to live of 2 and valid checksums. The round-trip test of `compress.rs` covers packets
whose time to live was not counted down. Beyond that run, IPv4 options, IPv6 extension headers and the
other representation of a zero checksum are accepted by the classifier and lost in the same way
(`RoundTrip` with `MCInputs`).

### Observations

Made while modelling; a definition in parentheses states what fails, and adding it to the module's
configuration shows a behaviour in which it does.

ZDP-R and its futures:

1. `Receiver::new` accepts a window of `MAX_WINDOW_SIZE` = 64, and then a shift by 64 is possible,
   which a release build masks to a shift by 0: packets that never arrived are acknowledged
   (`AnswersTruthful` with `BITS` = `RecvWindowSize` = 2). The proofs make the boundary precise: one
   less is safe.
2. A packet that was queued, sent and then canceled by its retry limit is reported to its sender as
   acknowledged, because `clean_sent_queue` also drops cancel-acknowledged packets and
   `AckedOrCanceled::poll` takes an id that no longer resolves for an acknowledgement
   (`AckedMeansAccepted`, window 1). For the same reason the future does not know which sequence number
   to forget when it is dropped, and the slot of the window stays occupied until the session ends.
3. `forget_canceled_packet` may open the window, and nobody then sends what is blocked
   (`NoStrandedPackets`, window 1, losses). `cancel_queued_packet` leaves a canceled placeholder in
   front of `sent`, which its documentation excludes; a duplicated cancel-acknowledgement of a
   forgotten packet is counted as `InvalidAck`, "a peer error"; and `request_cancel` (unused today) runs
   into `unreachable!()` when the packet has already been acknowledged.

Node and flows:

4. `revoke_for_link` finds the visas by the ingress entries recorded under them. When the adapter at
   the *far* end of a flow leaves, its visas stay, the route to its link stays, and the near end is
   not told (`RoutesLeadSomewhere`), although that is what the withdrawal is for.
5. Link ids are slab keys and are given out again, and the table of next-hop requests remembers its
   requestors by link id. If a requestor leaves and another adapter takes its id before the next hop
   answers, the node panics or answers the wrong adapter (`reissued`, which `OriginatorsConsistent` and
   `AnswersOwed` except). `insert_visa` replaces a visa the node already has by one without entries, so a
   visa that is sent again leaves routes its revocation does not find. `unbind_stream` unlinks the
   *next hop* of the route from the visa, where the recorded entry names the ingress side: the entry
   stays, and the revocation of the visa removes an empty slot, which panics, or another visa's route
   (both in `lost`, which `RoutesHaveVisas` excepts). No peer in this repository sends an unbind
   indication to a node. A bind whose next hop leaves is never answered (`Orphaned`, which `AnswersOwed`
   excepts; `orphans`, which `AnswersExpected` and `BindsSettle` except), and the packets of its flow are
   dropped until the link closes. `handle_expirations` has no caller outside tests. `try_open` fails when
   the *next* id is in use, its documentation says when there are no free ones.
   `PeerForwardingTable::clear` does nothing. A withdrawal can overtake the answer that lends the
   stream: the source then keeps an active entry for a stream that is gone or belongs to another flow,
   and the packets are dropped at the destination. The destination is not told of a
   revocation and keeps its tether until its link goes down. `unbind_stream` of the node tells the next
   hop the *ingress* stream id, not the id of the stream it lent: the destination may drop the tether of
   another flow and keep the one that was meant.

Links:

6. A node sets a timer while it waits for the adapter's credential, and `process_timeout` has no arm for
   that state: it waits until the link is ended from elsewhere (`AuthenticationBounded`, with `FairSpec`).
   `initiate_close` says every failure path records its reason first; termination by the peer and an error
   response do not (`FailureRecorded`). `stowed_init_auth` is not cleared by a restart: the next session
   answers the old challenge (`AcquireFresh`). An authorization that is outstanding at the close leaves
   its actor registered; answered late, it is recorded on whatever link has the slot and clears
   `renewal_in_flight` under an attempt, beside which a second one may then start (`n.cut` in `Renewal`).
   CloseDone names only the slot, too: the task of an earlier close that still waits for its cancelled key
   manager can complete the close of a later link, whose own clean-up then never runs, so that address,
   actor or tethers stay (`cut` in `Docking`, which `CleanUpComplete` excepts). An operator's stop of an
   auto-connect link schedules a restart. The renewal task of an adapter is not aborted at the close of
   its link: it answers under the next session, which the node discards, and the next authentication
   queues behind it. An abandoned refresh is cancelled although the provider may have rotated the token:
   the agent then presents the old one, is told `invalid_grant` and drops it, and the link cannot be
   renewed silently any more. An agent that registers at the *node* is asked for silent renewals only, so
   the repository's own, whose token store is filled by interactive logins alone, always fails there.
7. `drop_link` clears the association before the key manager has stopped, and a signal around the
   cancellation installs it again (`DropInvalidates`). The fast path drops unencrypted key-management
   messages once it holds an association, so an adapter that restarts on the same substrate address
   waits for the node's link to close.
8. A connection that is lost before the node has connected is not noticed, since pings are skipped until
   then (`Unnoticed`, which `Reregisters` excepts). The TLS handshake has no time-out and the channel of
   commands is not read during it: when the path is lost then, calls and the shutdown wait for ever
   (`HandshakeHangs`, which `CallsAnswered`, `Reregisters` and `ShutdownCompletes` except). A stop whose
   notification times out ends in a redial. A deferred connect of the visa service's adapter that fails
   panics the node. Actors that dock between the connect and a first registration that fails stay docked
   unknown to the visa service. A configuration push replaces the address pool by an empty one.
9. The comment on FAIRNESS in `fastpath_worker.rs` counts one batch of outstanding packets and one for each
   source. Buffers lent to management are outstanding as well, in two two-way queues, under their guards and
   on the way back; with more than a batch of them at the start of a cycle the substrate can find no buffer
   (TLC: 19 states). The defaults, 512 buffers, batches of 64 and two queues of 128, allow it. On Windows the
   event of the substrate socket is reset before a buffer is looked for: if there is none, nothing is
   received, FD_READ is not enabled again and the socket stays deaf, also when buffers come back (`deaf`,
   which `NoLostWakeup` excepts; 25 states). An actor's packet of more than 11 936 bytes leaves too little
   room for the two integrity values and runs into an assertion of `packet.rs` (`LongestSafe`, which
   `WithinBuffer` and `PlainPacketsArrive` except); only the MTU of the TUN device keeps such packets away.

## 4. What is proved

Of ZDP-R, for any set of packets, any widths, windows, limits and queue sizes within the named assumptions
(`SenderAssumption`, `ReceiverAssumption`, `ZdprAssumption`):

- `TypeCorrect`: `Spec => []TypeOK`. Finiteness of the deques is part of `TypeOK`, since the
  operators find the front of a deque and count it.
- `ProcessedAtMostOnce`, `ReceiverTellsTheTruth`, `MemoryIsExact`: if the window is smaller than the
  bitset (`ShiftInRange`), then `Spec => []AtMostOnce`, `Spec => []AnswersTruthful` and
  `Spec => []WindowRemembers`. The hypothesis cannot be dropped (observation 1).

None of the three invariants is inductive by itself. That a packet is not processed twice rests on its
bit being set; that the bit is set for every decided packet within reach is `WindowRemembers`, which in
turn needs the decided packets to be disjoint from the refused ones to speak about the second bitset.
Packets that have left the reach of the bits are covered by the window check: what is older than the
window is ignored, and the window is narrower than the bitset, so the bits never forget a sequence
number the receiver would still consider. The inductive invariant is the conjunction `DecidesOnce`,
and only the two receiving actions can disturb it; every other action leaves the receiver and the
histories alone and adds to the wire nothing but packets and cancels.

- `SessionAgrees`: under the same hypothesis `Spec => []SessionInvariant`. The invariants of the two ends
  need each other. That unacknowledged packets span at most the window rests on the front of the deque
  being unanswered, which `clean_unacked_queue` restores after every answer; that an answer is believed
  only where the peer gave it rests on `AnswersTruthful`; that a packet the sender still retries can be
  answered rests on its number not having left the receiver's window, which is the span again, now as a
  bound on `highest_seen`. Deques are intervals of indices from which fronts are popped (`Suffix`), and
  the lemmas about each sender operator say which interval it leaves.
- `SessionImplementsChannel`: `Spec => ImplementsChannel`, the refinement. Each action is shown to be an
  action of `ReliableChannel` or a stutter under the mapping: receiving a packet accepts it or leaves it,
  receiving a cancel refuses or leaves, cleaning the deque settles what the peer has decided, and retries
  and losses stutter.

`ZdprProofs` begins with one lemma per sender operator (it maps well-typed senders to well-typed
senders), and the facts about least elements and ranks in finite sets of integers that the cleaning and
unblocking of queues need.

Of the futures on top of a session, under the same hypothesis and `NoopWakerAssumption` (the waker of
`enqueue` is no task's): `FuturesTypeCorrect`, `CanceledTellsTheTruth` (`CanceledMeansRefused`),
`AssertionsHold` (`NeverPanics`), `SleepersStayRegistered` (`SleepersRegistered`) and `RestartsAreClean`
(`SessionRestarts`). The specification is `MSpec`, whose steps are those of the session, the calls on
futures, and the restart. The inductive `MInv` keeps `DecidesOnce` and the `Agreement` of the two ends,
which a restart establishes anew, and adds `FuturesOK`: a packet has one number and one place
(`NumberedOnce`), an entry holds the waker of its own packet's task or none (`OwnWakers`), and of each
future what its packet id can mean (`FutureOK`). In the present generation a queue id names an entry of
the queue, of the window or of the past, and that entry is the future's own packet; a sequence number was
given out. In every generation a packet that counts as canceled has only numbers
the peer has refused, and a task that sleeps has its waker in an open entry. The last is what a step of
the session disturbs, since it moves entries from the queue to the window, settles and cleans them:
`Moves(s, t, X)` is what every such step does to the entries (they keep their packet and waker, or the
task is woken), and one lemma shows that a future survives it. A restart wakes every waiter, and a future
of an earlier generation touches no sender.
`AckedMeansAccepted` and the `unreachable!()` of `request_cancel` are not among the theorems: the
code does not have the first (observation 2) and can reach the second.

Of the tables of an adapter, for any flows, streams, tethers, transaction ids, sessions and packets:
`FlowsTypeCorrect`, `TablesAgree` (`TablesConsistent`), `AnswersAwaited` (`AnswersExpected`) and
`OnlyPermittedFlows` (`OnlyPermitted`). The inductive `FlowInv` has seven parts: types; `IndexExact`, the
index is the inverse of the pending entries; `HandlesHeld`, whose handles a transaction's count counts;
`BindsWait`, a bind request in flight is the only one of its transaction and has a waiting task;
`AllExpected`, every pending entry awaits one message, was told, or is an orphan; `SessionsOld`, what is
under way of earlier sessions cannot be taken for something of this one; and `DownIsEmpty`, a link that is
down has no entries. That an answer is awaited rests on the transaction still being
held, that it is held on the answer not having come: neither holds without the other. `PermInv` adds to
`OnlyPermitted` the answers in flight and the active entries, since a packet is sent by an active entry
and that is installed by an answer, which may be for another flow than the request.

Of a node, for any adapters, links, flows, visas, streams and transaction ids (`NodeAssumption`,
`TxnAssumption`):

- `NodeTypeCorrect`: `Spec => []TypeOK`.
- `StreamsWithdrawn`: `Spec => []PeersInformed`, although revocations and closes remove routes of many
  links in one step.
- `NeverInconsistent`: `Spec => []OriginatorsConsistent`; `RequestsAnsweredOnce`: `Spec => []AnswersOwed`;
  `TransactionsCounted`: `Spec => [](reissued \/ HandlesCounted)`. Link ids are reused; what the first two
  except is the moment an id is given out while a request of its last owner still names it, which the code
  does not survive (observation 5). For `HandlesCounted` TLC needs no such exception. The inductive
  `NodeInv` says that a bind request and the next-hop request it waits for name each other, both
  ways, across two links (`BackLinked`, `ForwardLinked`), that a transaction is open exactly while its
  next hop owes an answer and how many handles it then has (`Counted`), that a bind request is about the
  flow its adapter asked for and has a task exactly while it awaits the visa service (`OwnedBinds`), that
  handles are of connections that have begun (`ConnsOld`), and that every request is pursued
  until the node has panicked (`Pursued`). No part is inductive without the others: a close removes one
  side of the pairs, and that the other side is not mistaken for one of a later link follows from the id
  not having been given out again, or from the connection the handle names.
- `ForwardedUnderVisa`: `Spec => []RoutesHaveVisas`, with link ids reused, visas sent again and visas of
  an adapter to itself. The history `lost` is exact: a route gets into it only when its visa is stored again
  or when `unbind_stream` unlinks the pair of another stream's next hop, and leaves it when the pair carries
  another route.

Of docking, for any addresses, configurations, numbers of attempts and links, and order of messages
(`DockingAssumption`): `DockingTypeCorrect`, and from the inductive `DockInv`

- `AnswersCurrent` (`AnswersCurrentAttempt`): a completion that carries the present logical clock is about
  the present challenge (`Attempt`), since every change of state moves the clock on;
- `EndsAgree` (`ActiveAgreement`): the property speaks of two active links, the invariant of the grants
  before that. A link instance is granted one address, once: whoever holds a grant, on the wire or already
  in use by the adapter, has the address of that instance if it is still active (`GrantedTo`). It needs
  that instances are numbered (`PairInv`) and that an association belongs to one (`NKeys`);
- `CleanedUp` (`CleanUpComplete`): clean-up tasks name the slot, not the link, so they may meet a later
  link. `NCleaning` and `ACleaning` tell the tasks of the present close from those of earlier ones: while
  one of the present close is under way the link has already given up what it held; one of an earlier close
  that has yet to drop the key manager meets only a link that is keying or ending. Once such a task has
  completed a later close (`cut`) nothing more is claimed. Commands to the visa service are
  followed through its queue (`VsInv`);
- `StopIsHard` (`Spec => HardStop`, about steps): an activation failure is one of a link that has been
  started (`Unstarted`), so neither the automatic start nor a scheduled restart applies.

Of renewal, for any number of links, attempts, logins and agents: `RenewalTypeCorrect`;
`AttemptsHaveOneEnd` (`InFlightHonest`) and `OnlyProofsSubmitted` (`SubmittedProven`), from the inductive
`AttemptInv`: challenges and link instances are never used twice (`TasksOld`), the stashed challenge still
has its timer and only one (`TimerKept`), and, until a late authorization has cleared the flag under an
attempt, exactly one task is there that will clear it (`OneEnd`); `CallsSuperseded` (`OneAgentCall`) and
`LoginsDoNotMix` (`RenewsOwnLogin`), from `AgentInv`, which follows a refresh token from the login it came
from (`SessionOwn`) through the agent's calls (`CallsOwn`) to the answers under way, also of an agent that
has been replaced.

Of key management, for any number of key managers and failures: `KeyingTypeCorrect` and `LatestKeysHold`
(`KmSpec => []LatestKeysWin`). The property speaks of an empty queue; the inductive `KeysInv` says what the
link *will* hold: either no association is queued and the link holds the present key manager's, or the
last one queued is the present key manager's. Signals of earlier key managers may stand before it, never
after it, because a key manager's signals are sent before the slot can get another one.

Of a fast-path worker, for any number of buffers and any queue sizes: `PacketIoTypeCorrect`;
`NoBufferLost` (`BuffersConserved`) from `BufferInv`, which adds that the worker has a buffer whenever it
takes a packet from a queue or the socket; `WakeupsArrive` (`NoLostWakeup`) from `WakeupInv`, which says of
every queue with an item in it that somebody is about to post, the notification is posted, or the worker
has consumed it and will take the item, on Windows also in the middle of the two steps there are of each
(`ItemsAnnounced`), and of the socket on Windows that with FD_READ disabled it is signaled, about to be read,
or deaf (`SocketHeard`); and `SourcesReserved` (`BatchesReserved`) from `ReserveInv`: beside the batch in use
at the start of a cycle the sources so far have used at most a batch each (`WithinBudget`), since they are
served in order (`InOrder`) and each stops after its batch (`BatchBegun`). It needs the assertion of
`fastpath_main`, five batches of buffers (`BufferAssumption`).

Of the packet path, `PacketsWithinBuffer`: `Spec => []WithinBuffer`, for every buffer size, packet length
and message length that satisfies `BufferAssumption` and `LengthAssumption`: no header that is pushed, and
no tag that is appended, runs out of room, and none is pulled from a packet too short for it. A packet has
any length from the headers the classifier has found in it to the size of the buffer it is read into; for
those longer than `LongestSafe` nothing is claimed (observation 9). The inductive invariant `BufferInv` says,
for each stage of the path, how much room is left before and after
the packet and how long it is at least: what later stages take must have been reserved by the stage that
allocates, which `WithinBuffer` alone does not say. A management body fits the buffer it is written to.
`clone_prefix_into_with_headroom`, which nothing calls, would panic for a
packet shorter than the prefix.

`PacketsArriveIntact`: `Spec => []ArrivesIntact`, for every packet, classifier and set of associations.
The inductive `IntactInv` follows the integrity value from where it is computed to where it is compared,
and the association a packet was sealed under to the end that opens it.

`PlainPacketsSurvive`: `Spec => []PlainPacketsArrive`, that such a packet is not dropped. It rests on
`PlainRoundTrip`: expansion is the inverse of compression on every IPv6 packet without extension headers
that the classifier accepts, under every classifier of its flow (with its ports, with one of them or with
none), since what is left out is what the classifier restores and the checksum and length are computed as
they were checked. `PlainInv` carries the packet, its classifier and its compressed form from stage to
stage. `FormatAssumption` states the format of the records that stand for packets: an IPv6 packet has no
header checksum, and the segments of TCP and UDP begin with their named fields. The same for IPv4 is
false (`RoundTrip`, the violation run).

Of the visa service connection, for any finite set of actors and any number of faults and requests, at any
time (`VisaServiceAssumption`): `OneOwnerPerCall` and `ActorsStaySynced`
(`Spec => []SyncedActors`). The property compares the visa service's record with the node's links, which
are joined only by commands that wait in a channel, are served with their answer lost, or are abandoned
by a worker that has read an event first. The inductive `SyncInv` follows them:

- `QueueInv` and `TaskInv`: a command belongs to the one call its task awaits; only a connect may be
  nobody's. A connect becomes nobody's when it is abandoned and may still be served, later;
- `ClaimInv`: a connect that makes the visa service forget the node is never served after the worker
  claims state again. While the worker registers, every connect in the channel stands before the
  registration, so the answer to the registration proves that none is left;
- `KnownInv`: an actor that counts is admitted only while the worker claims state, and is known to the
  visa service for as long as that has the node's state. Out-of-sync answers take away the claim and the
  actors in one step;
- `RegInv`: a registered node has its state at the visa service. What could break it is the notice that
  follows a failed registration, which makes the visa service forget a node that is still connected: until
  the run loop has been recycled, a restart stands in the channel before every registration.

TLC checked `SyncInv` on the instance of the run before it was proved.

Only model-checked: the liveness properties (`FuturesResolve`, `InFlightSettles`, `KmRecovers`,
`CallsAnswered`, `Reregisters`, `ShutdownCompletes`, `BindsSettle`), since fairness is
out of the prover's reach. Every other property of a passing run is stated by a theorem.

## 5. Not modelled, and what is left

Not modelled: certificates, signatures and nonces (`auth.rs`, `pki.rs`: computation, not state); the
command line but for its authentication agent (`adapter/cli`: commands, the polling of `connect` and
printing); configuration, start-up and the wiring of workers; administration handlers
that only read or call; counters, capture and sampling; TUN devices, routes and sockets. Links between
nodes are refused by the code. Byte-level encodings are modelled by what they convey, except for the
checksums and fields of `PacketPath`.

Left to do, in this order:

1. `Docking` composed with `Keying`, so that associations come about while messages of the old ones are
   still under way.
2. Several fast-path workers with packet steering.
