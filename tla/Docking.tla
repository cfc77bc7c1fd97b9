------------------------------- MODULE Docking -------------------------------
(***************************************************************************)
(* The docking of one adapter with its node: the link state machines of    *)
(* both ends (link_state.rs), the messages between them, the calls to the  *)
(* visa service, the out-of-band authentication agent, the pool of AAA     *)
(* addresses, and the tasks a close spawns.                                *)
(*                                                                         *)
(* `a` is the adapter's link: it is kept for the life of the process and   *)
(* restarted.  `n` is the node's link to that adapter: a slot of the peer  *)
(* table that is filled anew for every attempt.  Every handler runs on one *)
(* thread and is one action.  Messages are delivered at most once, in any  *)
(* order, and only while the receiver holds the security association they  *)
(* were sent under (Keying shows how associations come about).             *)
(*                                                                         *)
(* A timer that is cancelled never fires: both happen on that one thread.  *)
(***************************************************************************)
EXTENDS Integers, Sequences

CONSTANTS Addrs,        \* ZPR addresses the visa service assigns
          AaaAddrs,     \* addresses of the AAA pool
          None,
          MaxMisses,    \* KEEP_ALIVE_MAX_MISSES
          Configs       \* the configurations explored

ASSUME DockingAssumption ==
    /\ MaxMisses \in Nat \ {0}
    /\ Configs \subseteq [auto : BOOLEAN, boot : BOOLEAN, idp : BOOLEAN,
                          demand : Addrs \cup {None}, many : BOOLEAN, vs : BOOLEAN,
                          codes : SUBSET {"Success", "Other"},
                          sess : Nat, links : Nat, ops : Nat]
    /\ None \notin Addrs \cup AaaAddrs /\ None \notin Nat \X Nat

VARIABLES
    cfg,      \* auto_connect, a bootstrap key, an IdP advertised by the node, the
              \* configured address, whether there are more of them, whether the
              \* adapter fronts the visa service, the codes a hello is answered
              \* with (this repository's nodes answer Success);
              \* bounds: starts of the adapter's link, links of the node, and
              \* operator's acts and crashes
    a,        \* the adapter's link
    n,        \* the node's link, in its slot
    nTasks,   \* clean-up tasks of the node: they name the slot, not the link
    net,      \* management messages in flight
    vs,       \* the visa service: the commands to it, in order, and its actors
    pool,     \* AddressPool::active
    ops, uids    \* bounds

vars == <<cfg, a, n, nTasks, net, vs, pool, ops, uids>>

States == {"Inactive", "Keying", "Helloing", "WaitForInitAuth", "WaitForUserAuth",
           "WaitForAcquire", "RegisterAA", "Active", "Error", "Disconnecting",
           "Closing", "Resetting"}

-------------------------------------------------------------------------------
(* LinkStateMachine: what both ends share.                                 *)

\* Every state change cancels the timer and moves the logical clock on.
SetState(l, s) == [l EXCEPT !.st = s, !.timer = FALSE, !.req.cur = FALSE]

SetTimeout(l) == [l EXCEPT !.timer = TRUE, !.req.cur = FALSE]

CancelTimeout(l) == [l EXCEPT !.timer = FALSE, !.req.cur = FALSE]

RunActive(l) == SetTimeout([SetState(l, "Active") EXCEPT !.echo = FALSE, !.misses = 0])

\* continue_close: the message it sends is Term.
ContinueClose(l) == SetTimeout(SetState(l, "Closing"))

NoReq == [chal |-> None, cur |-> FALSE, open |-> FALSE]

NewAdapterLink(local) ==
    [live |-> TRUE, st |-> "Inactive", timer |-> FALSE, sa |-> None, km |-> FALSE,
     sess |-> 0, stowed |-> None, idp |-> FALSE, chal |-> None, sent |-> None,
     req |-> NoReq, late |-> {}, agent |-> FALSE, failure |-> "none", shut |-> FALSE,
     byop |-> FALSE, echo |-> FALSE, misses |-> 0, local |-> local, aaa |-> None,
     carrier |-> FALSE, tethers |-> FALSE, drops |-> 0, dones |-> 0, old |-> 0,
     cut |-> FALSE, restarts |-> 0, fatal |-> FALSE]

NewNodeLink(u) ==
    [live |-> TRUE, uid |-> u, st |-> "Keying", timer |-> TRUE, sa |-> None, km |-> TRUE,
     req |-> NoReq, addr |-> None, aaa |-> None, initauth |-> "none",
     echo |-> FALSE, misses |-> 0]

\* `q` is the command channel of VSConn, whose run loop takes one command after
\* the other; `kept` are the addresses links of the node were given.
NewVs == [q |-> <<>>, actors |-> {}, kept |-> {}]

\* The tasks a close spawns: `drops` have not run yet, `dones` await the end of a key
\* manager.  History: how many are of an earlier link, or of an earlier attempt of the
\* adapter (`old`), and whether one of those has closed a later one (`cut`).
NoTasks == [drops |-> 0, dones |-> 0, old |-> 0, cut |-> FALSE]

NoLink == [NewNodeLink(0) EXCEPT !.live = FALSE, !.st = "Inactive", !.timer = FALSE]

(* AddressPool: the identifiers in use.                                    *)

EmptyPool == {}

\* get_aaa_address: any address not in use.  Without a pool (the visa service
\* has not configured one yet) there is none.
FreeAddresses(p) == IF AaaAddrs = {} THEN {None} ELSE AaaAddrs \ p

Allocated(p, x) == (p \cup {x}) \ {None}

\* Releasing an address that is not in use is no error.
ReleaseAddress(p, x) == p \ {x}

Init ==
    /\ cfg \in Configs
    /\ a = NewAdapterLink(cfg.demand)
    /\ n = NoLink /\ nTasks = NoTasks
    /\ net = {} /\ vs = NewVs
    /\ pool = EmptyPool /\ ops = 0 /\ uids = 0

\* A message the other end cannot read any more is not worth keeping.
Send(M) == {m \in M : IF m.to = "a" THEN m.key = a.sa ELSE n.live /\ m.key[2] = n.uid}

Msg(to, type, key, v) == [to |-> to, type |-> type, key |-> key, v |-> v]

\* What a receiver that has given an association up can no longer read.
Readable(M, to, key) == {m \in M : m.to # to \/ m.key = key}

-------------------------------------------------------------------------------
(* The messages (requests.rs).  `key` is the association they travel under. *)

HelloRequest(key) == Msg("n", "hello", key, None)

\* The AAA address, if there is one, and whether an identity provider is
\* advertised (get_available_oidc_idps).
HelloResponse(key, aaa, idp) == Msg("a", "helloresp", key, <<aaa, idp>>)

AvailableIdps == cfg.idp

InitAuthenticationRequest(key, chal) == Msg("a", "initauth", key, chal)

AcquireZprAddressRequest(key, blobs, addr) == Msg("n", "acquire", key, <<blobs, addr>>)

GrantZprAddressRequest(key, addr) == Msg("a", "grant", key, addr)

\* A grant with a failure code carries no address.
GrantFailure(key) == Msg("a", "refusal", key, None)

\* A challenge is a keyed hash: it is known by the association it was made
\* for, since every link of the node has a key of its own.
NewChallenge(key) == key

\* Credentials.  Each proves that it was made for one challenge: the device's
\* by its signature, the user's by the nonce of the identity token.
SelfSignedBlob(chal) == [type |-> "ss", chal |-> chal]

OidcBlob(chal) == [type |-> "oidc", chal |-> chal]

-------------------------------------------------------------------------------
(* Closing a link, either end.                                             *)

\* record_auth_failure: what the operator is told of the attempt.
RecordFailure(l, why) == [l EXCEPT !.failure = why]

\* initiate_close of the adapter.  With auto-connect off a failure that parked
\* the machine in Error leaves a reason behind.
AInitiateClose(l) ==
    LET fails == ~cfg.auto /\ l.st = "Error" /\ l.failure = "none"
    IN ContinueClose(IF fails THEN RecordFailure(l, "link") ELSE l)

TermTo(to, key) == IF key = None THEN {} ELSE Send({Msg(to, "term", key, None)})

\* The adapter fails: it records why, parks in Error and closes.
AFail(l, why) ==
    /\ LET e == SetState(l, "Error")
       IN a' = AInitiateClose(IF why = "none" THEN e ELSE RecordFailure(e, why))
    /\ net' = net \cup TermTo("n", l.sa)

\* maybe_disconnect_visa_service_client and continue_close of the node: the
\* link of the visa service adapter is told to stop first when shutting down.
NInitiateClose(l, reason) ==
    IF cfg.vs /\ reason = "shutdown" THEN SetState(l, "Disconnecting") ELSE ContinueClose(l)

NClosing(l, reason, M) ==
    LET c == NInitiateClose(l, reason)
    IN /\ n' = c
       /\ net' = M \cup (IF c.st = "Closing" THEN TermTo("a", l.sa) ELSE {})

Bye(x) == <<"bye", x>>

\* Mutant: actor_addresses is not drained on the way out.
MutNoDeregister(l) ==
    /\ n' = [l EXCEPT !.aaa = None, !.addr = None] /\ pool' = ReleaseAddress(pool, l.aaa)
    /\ vs' = vs
    /\ nTasks' = [nTasks EXCEPT !.drops = @ + 1]
\* clean_up_link_state of the node, in Closing or Resetting.
NCleanUp(l) ==
    /\ n' = [l EXCEPT !.aaa = None, !.addr = IF cfg.vs THEN @ ELSE None]
    /\ pool' = ReleaseAddress(pool, l.aaa)
    /\ vs' = IF cfg.vs \/ l.addr = None THEN vs ELSE [vs EXCEPT !.q = Append(@, Bye(l.addr))]
    /\ nTasks' = [nTasks EXCEPT !.drops = @ + 1]

\* clean_up_link_state of the adapter.
ACleanUp(l) ==
    [l EXCEPT !.aaa = None, !.carrier = FALSE, !.tethers = FALSE, !.drops = @ + 1]

-------------------------------------------------------------------------------
(* Starting and keying.                                                    *)

\* process_start of the adapter: a new attempt, a new key manager.
ProcessStart(l) ==
    [SetState(l, "Keying") EXCEPT !.failure = "none", !.km = TRUE, !.sess = @ + 1,
        !.chal = None, !.sent = None, !.old = l.drops + l.dones]

\* The operator: startLink, with or without an agent to log the user in.
AStart ==
    /\ ops < cfg.ops /\ a.live /\ a.st = "Inactive" /\ a.sess < cfg.sess
    /\ \E g \in BOOLEAN :
         a' = [ProcessStart(a) EXCEPT !.agent = g, !.byop = FALSE]
    /\ ops' = ops + 1
    /\ UNCHANGED <<cfg, n, nTasks, net, vs, pool, uids>>

\* start_tether with auto_start: the first start after the process began.
AAutoStart ==
    /\ cfg.auto /\ a.live /\ a.st = "Inactive" /\ a.sess = 0
    /\ a' = ProcessStart(a)
    /\ UNCHANGED <<cfg, n, nTasks, net, vs, pool, ops, uids>>

\* Mutant: the holddown timer starts the link whatever happened meanwhile.
MutStaleRestart ==
    /\ a.live /\ a.restarts > 0
    /\ LET l == [a EXCEPT !.restarts = @ - 1]
       IN \/ a.st # "Inactive" /\ a' = l
          \/ a.st = "Inactive" /\ a.sess < cfg.sess /\ a' = ProcessStart(l)
    /\ UNCHANGED <<cfg, n, nTasks, net, vs, pool, ops, uids>>
\* setup_restart after DEFAULT_LINK_RESTART_HOLDDOWN.
ARestart ==
    /\ a.live /\ a.restarts > 0
    /\ LET l == [a EXCEPT !.restarts = @ - 1]
       IN \/ (a.failure = "activation" \/ a.st # "Inactive") /\ a' = l
          \/ /\ a.failure # "activation" /\ a.st = "Inactive" /\ a.sess < cfg.sess
             /\ a' = ProcessStart(l)
    /\ UNCHANGED <<cfg, n, nTasks, net, vs, pool, ops, uids>>

\* vacant_entry: the slot of a link that was removed is filled again.
VacantEntry == ~n.live /\ uids < cfg.links

\* LinkStateWrapper::new: an instance number no other link of the process has.
NextUid == uids + 1

\* The first handshake message makes the node fill the slot (start_tether) and
\* process_start arm NODE_KEYING_TIMEOUT.
NDock ==
    /\ a.km /\ a.st = "Keying" /\ VacantEntry
    /\ n' = NewNodeLink(NextUid) /\ uids' = NextUid
    /\ nTasks' = [nTasks EXCEPT !.old = nTasks.drops + nTasks.dones]
    /\ UNCHANGED <<cfg, a, net, vs, pool, ops>>

\* process_keying_done of the adapter, the initiator: it holds the association
\* once it has sent the last handshake message, and says hello.  A node whose
\* link is past Keying does not answer a new handshake.  A task that was spawned
\* before the handshake is polled before its last message: the local set that runs
\* both is a queue.
AKeyed ==
    /\ a.km /\ a.st = "Keying" /\ n.live /\ n.km /\ n.st = "Keying" /\ a.drops = 0
    /\ LET key == <<a.sess, n.uid>>
       IN /\ a' = SetTimeout(SetState([a EXCEPT !.sa = key], "Helloing"))
          /\ net' = Readable(net, "a", key)
                      \cup Send({Msg("n", "m2", key, None), HelloRequest(key)})
    /\ UNCHANGED <<cfg, n, nTasks, vs, pool, ops, uids>>

\* process_keying_done of the node.
NKeyed ==
    \E m \in net :
      /\ m.to = "n" /\ m.type = "m2" /\ n.live /\ n.km /\ n.st = "Keying"
      /\ m.key[2] = n.uid /\ nTasks.drops = 0
      /\ n' = SetState([n EXCEPT !.sa = m.key], "Helloing")
      /\ net' = Readable(net \ {m}, "n", m.key)
      /\ UNCHANGED <<cfg, a, nTasks, vs, pool, ops, uids>>

-------------------------------------------------------------------------------
(* Hello and authentication.                                               *)

To(end, type) == {m \in net : m.to = end /\ m.type = type
                                /\ m.key = IF end = "a" THEN a.sa ELSE n.sa}

\* What the handlers of handlers.rs pass on to the link state machine.
HelloRequests == To("n", "hello")
HelloResponses == To("a", "helloresp")
InitAuthenticationRequests == To("a", "initauth")
AcquireRequests == To("n", "acquire")
Grants == To("a", "grant")
GrantFailures == To("a", "refusal")

\* parse_hello_response
AaaAddress(m) == m.v[1]
OidcIdps(m) == m.v[2]

\* parse_acquire_zpr_address_request and decode_blobs.
Blobs(m) == m.v[1]
RequestedAddress(m) == m.v[2]

\* parse_grant_zpr_address_request
GrantedAddress(m) == m.v

\* send_init_authentication_request
InitAuth(key) == InitAuthenticationRequest(key, NewChallenge(key))

\* process_assigned_aaa
AssignedAaa(l, x) == [l EXCEPT !.aaa = x]

\* process_hello_request: an AAA address, the response, the challenge.
NHello ==
    \E m \in HelloRequests :
      /\ n.live
      /\ IF n.st = "Helloing"
         THEN \E x \in FreeAddresses(pool) :
                /\ pool' = Allocated(pool, x)
                /\ n' = [SetState(AssignedAaa(n, x), "WaitForAcquire")
                            EXCEPT !.initauth = "sent"]
                /\ net' = (net \ {m})
                     \cup Send({HelloResponse(m.key, x, AvailableIdps), InitAuth(m.key)})
         ELSE net' = net \ {m} /\ UNCHANGED <<n, pool>>
      /\ UNCHANGED <<cfg, a, nTasks, vs, ops, uids>>

\* send_acquire_zpr_address_request: the credentials for a challenge, and the
\* address the adapter has, configured or granted before.
Acquire(l, blobs) == AcquireZprAddressRequest(l.sa, blobs, l.local)

\* authenticate_blob: a device key, when one is configured, signs alongside.
DeviceBlobs(chal) == IF cfg.boot THEN {SelfSignedBlob(chal)} ELSE {}

\* process_init_auth in WaitForInitAuth: the agent when an IdP is advertised and
\* an agent is there, else the device key, else the link fails.  M is what is
\* left of the network.
TakeChallenge(l, chal, M) ==
    \/ /\ l.idp /\ l.agent
       /\ LET w == SetTimeout(SetState([l EXCEPT !.chal = chal], "WaitForUserAuth"))
          IN a' = [w EXCEPT !.req = [chal |-> chal, cur |-> TRUE, open |-> TRUE],
                            !.late = IF l.req.open THEN @ \cup {l.req.chal} ELSE @]
       /\ net' = M
    \/ /\ ~(l.idp /\ l.agent) /\ cfg.boot
       /\ a' = SetTimeout(SetState([l EXCEPT !.chal = chal, !.sent = chal], "RegisterAA"))
       /\ net' = M \cup Send({Acquire(l, DeviceBlobs(chal))})
    \/ /\ ~(l.idp /\ l.agent) /\ ~cfg.boot
       /\ a' = AInitiateClose(RecordFailure(SetState(l, "Error"), "auth"))
       /\ net' = M \cup TermTo("n", l.sa)

\* process_hello_response, and the challenge that overtook it.  A response with the
\* code Other closes the link whatever its state is (process_error_response).
AHelloResponse ==
    \E m \in HelloResponses, code \in cfg.codes :
      /\ a.live
      /\ \/ /\ code = "Other"
            /\ a' = AInitiateClose(a) /\ net' = (net \ {m}) \cup TermTo("n", a.sa)
         \/ /\ code = "Success" /\ a.st = "Helloing"
            /\ LET l == [SetState([a EXCEPT !.idp = OidcIdps(m), !.aaa = AaaAddress(m)],
                                  "WaitForInitAuth") EXCEPT !.stowed = None]
               IN IF a.stowed = None
                  THEN a' = l /\ net' = net \ {m}
                  ELSE TakeChallenge(l, a.stowed, net \ {m})
         \/ code = "Success" /\ a.st # "Helloing" /\ a' = a /\ net' = net \ {m}
      /\ UNCHANGED <<cfg, n, nTasks, vs, pool, ops, uids>>

\* process_init_auth; the node's ZDP-R learns that it was received.
AInitAuth ==
    \E m \in InitAuthenticationRequests :
      /\ a.live
      /\ LET M == (net \ {m}) \cup Send({Msg("n", "initack", m.key, None)})
         IN \/ a.st = "WaitForInitAuth" /\ TakeChallenge(a, m.v, M)
            \/ a.st = "Helloing" /\ a' = [a EXCEPT !.stowed = m.v] /\ net' = M
            \/ a.st \notin {"WaitForInitAuth", "Helloing"} /\ a' = a /\ net' = M
      /\ UNCHANGED <<cfg, n, nTasks, vs, pool, ops, uids>>

\* process_init_auth_ack: the node gives the user ACTOR_AUTHENTICATION_TIMEOUT.
NInitAuthAck ==
    \E m \in To("n", "initack") :
      /\ n.live
      /\ n' = IF n.st = "WaitForAcquire"
              THEN SetTimeout([n EXCEPT !.initauth = "acked"]) ELSE n
      /\ net' = net \ {m}
      /\ UNCHANGED <<cfg, a, nTasks, vs, pool, ops, uids>>

\* process_init_auth_timeout: the retries ran out with no acknowledgement.
NInitAuthTimeout ==
    /\ n.live /\ n.st = "WaitForAcquire" /\ n.initauth = "sent"
    /\ NClosing(SetState([n EXCEPT !.initauth = "none"], "Error"), "timeout", net)
    /\ UNCHANGED <<cfg, a, nTasks, vs, pool, ops, uids>>

\* Mutant: a completion is taken whatever attempt it belongs to.
MutStaleReply(l, chal) == l.st \in {"RegisterAA", "WaitForUserAuth"}
\* do_oidc_authenticate and process_authentication_success: the completion must
\* carry the current logical clock.
ReplyCurrent(l, chal) ==
    l.req.open /\ l.req.chal = chal /\ l.req.cur /\ l.st \in {"RegisterAA", "WaitForUserAuth"}

\* process_authentication_success
AuthenticationSuccess(l, chal) ==
    SetTimeout(SetState([l EXCEPT !.sent = chal], "RegisterAA"))

\* The agent answers the request made for a challenge, perhaps long after.
AAgentReply ==
    /\ a.live
    /\ \E chal \in a.late \cup (IF a.req.open THEN {a.req.chal} ELSE {}) :
         LET l == [a EXCEPT !.late = @ \ {chal},
                            !.req = IF @.chal = chal THEN NoReq ELSE @]
         IN IF ReplyCurrent(a, chal)
            THEN \/ a' = AuthenticationSuccess(l, chal) /\ net' = net \cup Send({Acquire(l, DeviceBlobs(chal) \cup {OidcBlob(chal)})})
                 \/ AFail(l, "auth")
            ELSE a' = l /\ net' = net
    /\ UNCHANGED <<cfg, n, nTasks, vs, pool, ops, uids>>

\* The agent leaves, or another one registers (set_auth_agent, clear_auth_agent_if).
AAgentChange ==
    /\ ops < cfg.ops /\ a.live /\ cfg.idp
    /\ a' = [a EXCEPT !.agent = ~@] /\ ops' = ops + 1
    /\ UNCHANGED <<cfg, n, nTasks, net, vs, pool, uids>>

-------------------------------------------------------------------------------
(* Authorization.                                                          *)

\* verify_challenge_bytes: the challenge is one this link made, with its own
\* key.  The age it also bounds covers the time the user is given.
VerifyChallenge(l, chal) == chal = NewChallenge(l.sa)

\* verify_blob_challenge of a credential.  The name in the certificate of the
\* link, which it compares too, is the same for every attempt.
VerifyBlob(l, b) == VerifyChallenge(l, b.chal)

\* check_self_signed_blob and check_oidc_blob: every credential must do.
CheckBlobs(l, blobs) == blobs # {} /\ \A b \in blobs : VerifyBlob(l, b)

\* build_connect_request: the call names the link it is made for.
ConnectRequest(l) == <<"authorize", l.uid>>

Granted(l, addr) == RunActive([l EXCEPT !.addr = addr])

\* send_grant_zpr_address_request
SendGrant(l, addr) == Send({GrantZprAddressRequest(l.sa, addr)})

\* An adapter asks for all the addresses it is configured with; the node takes one.
Acceptable(l, m) == ~cfg.many /\ CheckBlobs(l, Blobs(m))

\* process_acquire_zpr_address_request.  The link of the visa service adapter
\* authorizes itself; any other asks the visa service.
NAcquire ==
    \E m \in AcquireRequests :
      /\ n.live
      /\ \/ /\ n.st # "WaitForAcquire" /\ n' = n /\ net' = net \ {m} /\ vs' = vs
         \/ /\ n.st = "WaitForAcquire" /\ ~Acceptable(n, m)
            /\ NClosing(n, "other", net \ {m}) /\ vs' = vs
         \/ /\ n.st = "WaitForAcquire" /\ Acceptable(n, m) /\ ~cfg.vs
            /\ n' = SetState(n, "RegisterAA") /\ net' = net \ {m}
            /\ vs' = [vs EXCEPT !.q = Append(@, ConnectRequest(n))]
         \/ /\ n.st = "WaitForAcquire" /\ Acceptable(n, m) /\ cfg.vs
            /\ n' = Granted(SetState(n, "RegisterAA"), RequestedAddress(m)) /\ vs' = vs
            /\ net' = (net \ {m}) \cup SendGrant(n, RequestedAddress(m))
      /\ UNCHANGED <<cfg, a, nTasks, pool, ops, uids>>

\* Mutant: an answer that comes when the link is already active is applied.
MutAuthorizeAnytime(l) == l.live /\ l.st \in {"RegisterAA", "Active"}
\* process_authorize_response and process_authorize_failure take an answer in
\* RegisterAA only; they know the link by its id, not by the call.
AwaitsAuthorize(l) == l.live /\ l.st = "RegisterAA"

\* The visa service admits the actor and says so.
NAuthorized ==
    \E x \in Addrs :
      /\ vs.q # <<>> /\ Head(vs.q)[1] = "authorize"
      /\ LET V == [vs EXCEPT !.q = Tail(@), !.actors = @ \cup {x}]
         IN IF AwaitsAuthorize(n)
            THEN /\ n' = Granted(n, x)
                 /\ net' = net \cup SendGrant(n, x)
                 /\ vs' = [V EXCEPT !.kept = @ \cup {x}]
            ELSE n' = n /\ net' = net /\ vs' = V
      /\ UNCHANGED <<cfg, a, nTasks, pool, ops, uids>>

\* The visa service refuses, with a code (the adapter is told before the close)
\* or because the call failed (process_error_response).
NRefused ==
    \E coded \in BOOLEAN :
      /\ vs.q # <<>> /\ Head(vs.q)[1] = "authorize"
      /\ vs' = [vs EXCEPT !.q = Tail(@)]
      /\ \/ ~AwaitsAuthorize(n) /\ (coded \/ ~n.live) /\ n' = n /\ net' = net
         \/ /\ AwaitsAuthorize(n) /\ coded
            /\ NClosing(SetState(n, "Error"), "other",
                        net \cup Send({GrantFailure(n.sa)}))
         \/ n.live /\ ~coded /\ NClosing(n, "other", net)
      /\ UNCHANGED <<cfg, a, nTasks, pool, ops, uids>>

\* Outcomes of configuring the TUN device for a granted address: clear_address,
\* add_address, route_owner_conflict, add_route, set_carrier and the second
\* route_owner_conflict.  With a configured address only add_address is fatal.
TunOutcomes == {"ok", "no_address", "conflict", "no_route", "late_conflict"}

SetLocalZprAddrs(l, x) == [l EXCEPT !.local = x]

\* The address is in place: it becomes the adapter's own, and traffic may flow.
Configured(l, x) == RunActive([SetLocalZprAddrs(l, x) EXCEPT !.carrier = TRUE])

\* signal_fatal_error: main stops the process.
SignalFatalError(l) == [l EXCEPT !.fatal = TRUE]

\* The configured address is a demand: the adapter runs on no other.
Mismatch(m) == cfg.demand # None /\ GrantedAddress(m) # cfg.demand

\* process_grant_zpr_address_request with addresses.
AGrant ==
    \E m \in Grants, tun \in TunOutcomes :
      /\ a.live
      /\ \/ a.st # "RegisterAA" /\ tun = "ok" /\ a' = a /\ net' = net \ {m}
         \/ /\ a.st = "RegisterAA" /\ Mismatch(m) /\ tun = "ok"
            /\ a' = SignalFatalError(
                        AInitiateClose(RecordFailure(SetState(a, "Error"), "mismatch")))
            /\ net' = (net \ {m}) \cup TermTo("n", a.sa)
         \/ /\ a.st = "RegisterAA" /\ ~Mismatch(m)
            /\ IF tun = "ok" \/ (cfg.demand # None /\ tun # "no_address")
               THEN /\ a' = Configured(a, GrantedAddress(m))
                    /\ net' = net \ {m}
               ELSE /\ LET l == IF tun = "late_conflict"
                                THEN SetLocalZprAddrs(a, GrantedAddress(m)) ELSE a
                       IN a' = AInitiateClose(RecordFailure(SetState(l, "Error"), "activation"))
                    /\ net' = (net \ {m}) \cup TermTo("n", a.sa)
      /\ UNCHANGED <<cfg, n, nTasks, vs, pool, ops, uids>>

\* process_grant_zpr_address_request with a failure code.
ARefusal ==
    \E m \in GrantFailures :
      /\ a.live
      /\ IF a.st = "RegisterAA"
         THEN /\ a' = AInitiateClose(RecordFailure(SetState(a, "Error"), "auth"))
              /\ net' = (net \ {m}) \cup TermTo("n", a.sa)
         ELSE a' = a /\ net' = net \ {m}
      /\ UNCHANGED <<cfg, n, nTasks, vs, pool, ops, uids>>

\* An active adapter sets up tethers with the node (adapter_tables.rs).
ATether ==
    /\ a.live /\ a.st = "Active" /\ ~a.tethers /\ a' = [a EXCEPT !.tethers = TRUE]
    /\ UNCHANGED <<cfg, n, nTasks, net, vs, pool, ops, uids>>

-------------------------------------------------------------------------------
(* Keep-alive, timeouts, and the end of a link.                            *)

\* process_timeout in Active, either end: the next echo, or one miss more.
EchoTimeout(l) ==
    IF l.echo
    THEN SetTimeout([l EXCEPT !.misses = @ + 1])
    ELSE SetTimeout([l EXCEPT !.echo = TRUE])

LastMiss(l) == l.echo /\ l.misses + 1 >= MaxMisses

\* process_keep_alive_response, either end, while the other end can answer.
EchoAnswered(l) == SetTimeout([l EXCEPT !.echo = FALSE, !.misses = 0])

Reachable == a.live /\ n.live /\ a.sa # None /\ a.sa = n.sa

AKeepAlive ==
    /\ Reachable /\ a.st = "Active" /\ a.echo /\ a' = EchoAnswered(a)
    /\ UNCHANGED <<cfg, n, nTasks, net, vs, pool, ops, uids>>

NKeepAlive ==
    /\ Reachable /\ n.st = "Active" /\ n.echo /\ n' = EchoAnswered(n)
    /\ UNCHANGED <<cfg, a, nTasks, net, vs, pool, ops, uids>>

\* process_timeout of the adapter.
ATimeout ==
    /\ a.live /\ a.timer
    /\ LET l == [a EXCEPT !.timer = FALSE]
       IN \/ a.st = "WaitForUserAuth" /\ AFail(l, "auth")
          \/ a.st \in {"RegisterAA", "Helloing"} /\ AFail(l, "none")
          \/ a.st = "Active" /\ LastMiss(a) /\ AFail([l EXCEPT !.echo = FALSE], "none")
          \/ a.st = "Active" /\ ~LastMiss(a) /\ a' = EchoTimeout(l) /\ net' = net
          \/ a.st = "Closing" /\ a' = ACleanUp(l) /\ net' = net
    /\ UNCHANGED <<cfg, n, nTasks, vs, pool, ops, uids>>

\* process_timeout of the node.  WaitForAcquire is not among its cases: the
\* timer process_init_auth_ack arms is reported and forgotten.
NTimeout ==
    /\ n.live /\ n.timer
    /\ LET l == [n EXCEPT !.timer = FALSE]
       IN \/ n.st = "Keying" /\ NClosing(SetState(l, "Error"), "timeout", net)
             /\ UNCHANGED <<vs, pool, nTasks>>
          \/ n.st = "Active" /\ LastMiss(n) /\ UNCHANGED <<vs, pool, nTasks>>
             /\ NClosing(SetState([l EXCEPT !.echo = FALSE], "Error"), "timeout", net)
          \/ n.st = "Active" /\ ~LastMiss(n) /\ n' = EchoTimeout(l) /\ net' = net
             /\ UNCHANGED <<vs, pool, nTasks>>
          \/ n.st = "Closing" /\ NCleanUp(l) /\ net' = net
          \/ n.st = "WaitForAcquire" /\ n' = l /\ net' = net
             /\ UNCHANGED <<vs, pool, nTasks>>
    /\ UNCHANGED <<cfg, a, ops, uids>>

\* process_terminate_link: from any state, with no reason kept.
ATerminated ==
    \E m \in To("a", "term") :
      /\ a.live /\ a' = ACleanUp(SetState(a, "Closing"))
      /\ net' = (net \ {m}) \cup Send({Msg("n", "termack", m.key, None)})
      /\ UNCHANGED <<cfg, n, nTasks, vs, pool, ops, uids>>

NTerminated ==
    \E m \in To("n", "term") :
      /\ n.live /\ NCleanUp(SetState(n, "Closing"))
      /\ net' = (net \ {m}) \cup Send({Msg("a", "termack", m.key, None)})
      /\ UNCHANGED <<cfg, a, ops, uids>>

\* process_terminate_ack
ATerminateAck ==
    \E m \in To("a", "termack") :
      /\ a.live /\ net' = net \ {m}
      /\ a' = IF a.st = "Closing" THEN ACleanUp(CancelTimeout(a)) ELSE a
      /\ UNCHANGED <<cfg, n, nTasks, vs, pool, ops, uids>>

NTerminateAck ==
    \E m \in To("n", "termack") :
      /\ n.live /\ net' = net \ {m}
      /\ IF n.st = "Closing" THEN NCleanUp(CancelTimeout(n))
         ELSE UNCHANGED <<n, pool, vs, nTasks>>
      /\ UNCHANGED <<cfg, a, ops, uids>>

\* remove_km_state: the association and the key manager's handle.
RemoveKmState(l) == [l EXCEPT !.sa = None, !.km = FALSE]

\* complete_close of the adapter.
CompleteClose(l) ==
    LET i == SetState(l, "Inactive")
    IN IF ~l.live \/ l.st \notin {"Closing", "Resetting"} THEN l
       ELSE IF l.st = "Resetting" THEN [l EXCEPT !.live = FALSE]
       ELSE IF l.shut THEN [i EXCEPT !.live = FALSE]
       ELSE IF ~cfg.auto \/ l.failure = "activation" THEN i
       ELSE [i EXCEPT !.restarts = @ + 1]

\* A task of l, or of T, has ended: an earlier one if `stale`, which `closes` a later
\* link.
TaskEnded(T, stale, closes) ==
    [T EXCEPT !.old = IF stale THEN @ - 1 ELSE @, !.cut = @ \/ (stale /\ closes)]

\* Which of the tasks ends next: those of earlier links are not told apart.
MayEnd(T, stale) == IF stale THEN T.old > 0 ELSE T.drops + T.dones > T.old

\* LinkEvent::CloseDone names the link by its slot.
ADone(l) ==
    \E stale \in BOOLEAN :
      /\ MayEnd(a, stale)
      /\ a' = CompleteClose(TaskEnded(l, stale, l.live /\ l.st \in {"Closing", "Resetting"}))

\* The task of clean_up_link_state: km_multiplexor::drop_link, which awaits the end of
\* the key manager if there is one, then CloseDone.
ADropLink ==
    /\ a.drops > 0
    /\ LET l == [RemoveKmState(a) EXCEPT !.drops = @ - 1]
       IN \/ a.km /\ a' = [l EXCEPT !.dones = @ + 1]
          \/ ~a.km /\ ADone(l)
    /\ net' = Readable(net, "a", None)
    /\ UNCHANGED <<cfg, n, nTasks, vs, pool, ops, uids>>

ACloseDone ==
    /\ a.dones > 0 /\ ADone([a EXCEPT !.dones = @ - 1])
    /\ UNCHANGED <<cfg, n, nTasks, net, vs, pool, ops, uids>>

\* complete_close of the node: drop_peer frees the slot.
NDone(l, T) ==
    LET closes == l.live /\ l.st \in {"Closing", "Resetting"}
    IN \E stale \in BOOLEAN :
         /\ MayEnd(nTasks, stale)
         /\ nTasks' = TaskEnded(T, stale, closes)
         /\ n' = IF closes THEN NoLink ELSE l

NDropLink ==
    /\ nTasks.drops > 0
    /\ LET T == [nTasks EXCEPT !.drops = @ - 1]
       IN \/ n.live /\ n.km /\ n' = RemoveKmState(n) /\ nTasks' = [T EXCEPT !.dones = @ + 1]
          \/ ~(n.live /\ n.km) /\ NDone(RemoveKmState(n), T)
    /\ net' = Readable(net, "n", None)
    /\ UNCHANGED <<cfg, a, vs, pool, ops, uids>>

NCloseDone ==
    /\ nTasks.dones > 0 /\ NDone(n, [nTasks EXCEPT !.dones = @ - 1])
    /\ UNCHANGED <<cfg, a, net, vs, pool, ops, uids>>

\* The operator stops the link.
AStop ==
    /\ ops < cfg.ops /\ a.live /\ ~a.fatal /\ ~a.shut /\ ops' = ops + 1
    /\ a' = AInitiateClose([a EXCEPT !.byop = TRUE])
    /\ net' = net \cup TermTo("n", a.sa)
    /\ UNCHANGED <<cfg, n, nTasks, vs, pool, uids>>

\* shutdown_adapter, by the operator or after a fatal error: the link is
\* closed, and leaves the peer table when that is done.
AShutdown ==
    /\ a.live /\ (ops < cfg.ops \/ a.fatal) /\ ~a.shut
    /\ a' = AInitiateClose([a EXCEPT !.shut = TRUE, !.byop = TRUE])
    /\ net' = net \cup TermTo("n", a.sa)
    /\ ops' = IF a.fatal THEN ops ELSE ops + 1
    /\ UNCHANGED <<cfg, n, nTasks, vs, pool, uids>>

NClose ==
    /\ ops < cfg.ops /\ n.live /\ ops' = ops + 1
    /\ \E r \in {"shutdown", "other"} : NClosing(n, r, net)
    /\ UNCHANGED <<cfg, a, nTasks, vs, pool, uids>>

\* process_disconnect_ack: the visa service connection has stopped.
NDisconnectAck ==
    /\ n.live /\ n.st = "Disconnecting"
    /\ n' = ContinueClose(n) /\ net' = net \cup TermTo("a", n.sa)
    /\ UNCHANGED <<cfg, a, nTasks, vs, pool, ops, uids>>

\* reset: shutdown_node and disconnect_adapters.
NReset ==
    /\ ops < cfg.ops /\ n.live /\ ops' = ops + 1
    /\ NCleanUp(SetState(n, "Resetting"))
    /\ net' = net \cup TermTo("a", n.sa)
    /\ UNCHANGED <<cfg, a, uids>>

\* visa_mgmt::actor_disconnect; a call that fails is only logged.
VsActorGone ==
    /\ vs.q # <<>> /\ Head(vs.q)[1] = "bye"
    /\ \E A \in {vs.actors, vs.actors \ {Head(vs.q)[2]}} :
         vs' = [q |-> Tail(vs.q), actors |-> A, kept |-> vs.kept \ {Head(vs.q)[2]}]
    /\ UNCHANGED <<cfg, a, n, nTasks, net, pool, ops, uids>>

\* The node restarts: no link, no pool, no calls; the visa service forgets it.
NCrash ==
    /\ ops < cfg.ops /\ ops' = ops + 1
    /\ n' = NoLink /\ nTasks' = NoTasks /\ pool' = EmptyPool
    /\ net' = Readable(net, "n", None)
    /\ vs' = NewVs
    /\ UNCHANGED <<cfg, a, uids>>

Next ==
    \/ AStart \/ AAutoStart \/ ARestart \/ NDock \/ AKeyed \/ NKeyed
    \/ NHello \/ AHelloResponse \/ AInitAuth \/ NInitAuthAck \/ NInitAuthTimeout
    \/ AAgentReply \/ AAgentChange \/ NAcquire \/ NAuthorized \/ NRefused
    \/ AGrant \/ ARefusal \/ ATether \/ AKeepAlive \/ NKeepAlive
    \/ ATimeout \/ NTimeout \/ ATerminated \/ NTerminated
    \/ ATerminateAck \/ NTerminateAck \/ ADropLink \/ NDropLink
    \/ ACloseDone \/ NCloseDone \/ AStop \/ AShutdown \/ NClose \/ NDisconnectAck \/ NReset
    \/ VsActorGone \/ NCrash

Spec == Init /\ [][Next]_vars

-------------------------------------------------------------------------------
(* Properties.                                                             *)

\* Every field of the two links, the tasks and the visa service has its type.
DockingTypeOK ==
    /\ a.st \in States /\ n.st \in States
    /\ a.restarts \in Nat /\ a.misses \in 0..MaxMisses - 1
    /\ n.misses \in 0..MaxMisses - 1
    /\ a.timer \in BOOLEAN /\ n.timer \in BOOLEAN
    /\ pool \subseteq AaaAddrs /\ vs.actors \subseteq Addrs
    /\ {m.to : m \in net} \subseteq {"a", "n"}

\* The credential an adapter sends answers the challenge it took up last, never one
\* that the user completed late (auth_attempt_is_current, do_oidc_authenticate).  That
\* challenge may itself be one of an earlier attempt that was stowed and kept.
AnswersCurrentAttempt == a.st \in {"RegisterAA", "Active"} => a.sent = a.chal

\* When both ends of one docking session are active they agree on the address
\* (process_authorize_response, process_grant_zpr_address_request).
ActiveAgreement ==
    (a.live /\ n.live /\ a.st = "Active" /\ n.st = "Active" /\ a.sa = n.sa)
        => a.local = n.addr

\* An AAA address is in use exactly while a link of the node holds it, however
\* the link came to its end (clean_up_link_state, AddressPool::release_address).
AaaAccounted == pool = IF n.live THEN {n.aaa} \ {None} ELSE {}

\* Every address the node was given for an actor is held by its link, or the
\* visa service is being told that the actor has gone (deregister_actor_addresses).
ActorsAccounted ==
    \A x \in vs.kept : (n.live /\ n.addr = x)
                          \/ \E i \in 1..Len(vs.q) : vs.q[i] = Bye(x)

\* No carrier and no tether outlives the docking session it was set up in
\* (clean_up_link_state).
NoStaleTethers ==
    a.st \in {"Inactive", "Keying", "Helloing", "WaitForInitAuth", "WaitForUserAuth"}
        => ~a.carrier /\ ~a.tethers

\* Whatever ends a docking session, a timer, a refusal, the peer, the operator or a
\* reset, its address, its actor and its tethers go with it.  The exception is a close
\* that the task of an earlier one completes: CloseDone names only the slot, and then
\* what the link holds is lost.  An authorization the visa service has not answered
\* when the link closes is not among what is cleaned up.
CleanUpComplete ==
    /\ nTasks.cut \/ (AaaAccounted /\ ActorsAccounted)
    /\ a.cut \/ NoStaleTethers

\* After a local activation failure only the operator starts the link again,
\* also when a restart was already scheduled (complete_close, setup_restart).
HardStop ==
    [][(a.live /\ a.st = "Inactive" /\ a.failure = "activation" /\ a'.st = "Keying")
          => ops' = ops + 1]_vars

\* With auto-connect off an adapter link that went down other than by its
\* operator says why (initiate_close).
FailureRecorded ==
    (~cfg.auto /\ a.live /\ a.st = "Inactive" /\ a.sess > 0 /\ ~a.byop)
        => a.failure # "none"

\* A credential answers the challenge of the docking session it is sent in.
AcquireFresh ==
    \A m \in net : m.type = "acquire" => \A b \in Blobs(m) : b.chal = NewChallenge(m.key)

\* What the node's scheduler does for sure: timers fire, tasks run, and the
\* retries of a message come to an end.
FairSpec ==
    /\ Spec
    /\ WF_vars(NTimeout) /\ WF_vars(NDropLink) /\ WF_vars(NCloseDone)
    /\ WF_vars(NInitAuthTimeout)
    /\ WF_vars(ATimeout) /\ WF_vars(ADropLink) /\ WF_vars(ACloseDone)

\* A node does not wait for the adapter's credential for ever.
AuthenticationBounded ==
    (n.live /\ n.st = "WaitForAcquire") ~> (~n.live \/ n.st # "WaitForAcquire")
===============================================================================
