----------------------------- MODULE VisaService -----------------------------
(***************************************************************************)
(* The node's side of the visa service: the connection manager of          *)
(* libnode2/src/vsconn.rs, the worker of vs_worker.rs that keeps the node  *)
(* connected and registered, the callbacks of libnode2/src/vss.rs and      *)
(* vss_worker.rs, and the clean shutdown of assembly.rs.                   *)
(*                                                                         *)
(* The manager owns a channel of commands.  It dials, runs the TLS         *)
(* handshake, and then serves the commands one at a time, each a remote    *)
(* call that may be refused or time out; between two run loops every       *)
(* command is dropped, which the caller sees as ConnClosed.  The worker    *)
(* follows the manager through lifecycle events that it may read late.     *)
(* The path to the visa service runs through the visa service's own        *)
(* adapter, so that its link and the connection fail separately.           *)
(*                                                                         *)
(* A call is kept with its caller: its operation, and "idle", "wait", or   *)
(* the answer.  All tasks share one thread: a stretch without an await is  *)
(* one step.  The channel takes every command: a full one only delays the  *)
(* sender.  Commands that ph never sends (Open, Ping, the visa id queries) *)
(* and the overflow of the 64 places of the broadcast channel are left     *)
(* out.                                                                    *)
(***************************************************************************)
EXTENDS Naturals, Sequences, FiniteSets, SequencesExt

CONSTANTS
    Actors,        \* adapters that dock and leave
    MaxFaults,     \* crashes, link failures, lost and refused calls
    MaxRequests    \* dockings and requests to re-authenticate

ASSUME VisaServiceAssumption ==
    /\ MaxFaults \in Nat
    /\ MaxRequests \in Nat
    /\ IsFiniteSet(Actors)
    /\ Actors \cap {"worker", "self", "nobody"} = {}

VARIABLES
    mgr,        \* run_with_reconnect: its phase, and the run loop's handle
    cmds,       \* cmd_rx
    cur,        \* the command handle_command is serving
    life,       \* lifecycle events the worker has not read
    wrk,        \* vs_worker: where it is, and whether it claims state
    call,       \* the call each task awaits
    actor,      \* an adapter's link: out, authorizing, in or leaving
    vs,         \* the visa service and the connection to it
    vsLink,     \* the link to the visa service's adapter
    deferred,   \* asm.deferred_vs_connect
    inFlight,   \* asm.self_reauth_in_flight
    exit,       \* how far do_clean_shutdown has got
    count       \* faults and requests so far

conn == <<mgr, cmds, cur, life>>
node == <<wrk, actor, deferred, inFlight, exit>>
vars == <<mgr, cmds, cur, life, wrk, call, actor, vs, vsLink, deferred,
          inFlight, exit, count>>

Callers == {"worker", "self"} \cup Actors

NoCall == [op |-> "none", st |-> "idle"]
Answers == {"ok", "outofsync", "refused", "closed"}
Answered(w) == call[w].st \in Answers

\* What the callers in who are told, if they still wait.
Tell(c, who, answer) ==
    [w \in Callers |-> IF w \in who THEN [c[w] EXCEPT !.st = answer] ELSE c[w]]

NewVSConn == [phase |-> "dialing", handle |-> FALSE, pings |-> 0]

Init ==
    /\ mgr = NewVSConn
    /\ cmds = <<>>
    /\ cur = NoCall
    /\ life = <<>>
    /\ wrk = [pc |-> "gate", state |-> FALSE]
    /\ call = [w \in Callers |-> NoCall]
    /\ actor = [a \in Actors |-> [st |-> "out", early |-> FALSE]]
    /\ vs = [conn |-> FALSE, state |-> FALSE, known |-> {}, registered |-> FALSE]
    /\ vsLink = "down"
    /\ deferred = FALSE
    /\ inFlight = FALSE
    /\ exit = "no"
    /\ count = [faults |-> 0, requests |-> 0]

\* The process runs: it has neither exited nor panicked.
Alive == exit # "done" /\ wrk.pc # "panicked"

Fault ==
    /\ count.faults < MaxFaults
    /\ count' = [count EXCEPT !.faults = @ + 1]

----------------------------------------------------------------------------
(* The command channel.                                                    *)

\* A node without state asks the visa service to forget what it knew of it.
ConnectType(c) == IF c.state THEN "Reconnect" ELSE "Reset"

\* VSConnHandle::send_command.  A connect or reauthenticate carries the
\* node's claim to have state with the visa service.
Command(op, w) == [op |-> op, who |-> w, state |-> w = "self" \/ wrk.state]

\* Every task in who makes a call; the receiver is gone once
\* run_with_reconnect has returned.  c holds the other tasks' calls.
MakeCalls(c, op, who) ==
    LET up == mgr.phase # "stopped" IN
    /\ cmds' = IF up THEN cmds \o [i \in 1..Cardinality(who) |->
                                        Command(op, SetToSeq(who)[i])]
               ELSE cmds
    /\ call' = [w \in Callers |->
                   IF w \in who THEN [op |-> op, st |-> IF up THEN "wait" ELSE "closed"]
                   ELSE c[w]]

\* VSConnHandle::restart and stop: nobody waits for an answer.
Send(op) ==
    cmds' = IF mgr.phase = "stopped" THEN cmds ELSE Append(cmds, Command(op, "nobody"))

\* Mutant: the response channels of discarded commands are kept open.
MutDiscard(cs) == UNCHANGED call

\* Dropping a command closes its response channel.
Discard(cs) ==
    call' = Tell(call, {cs[i].who : i \in DOMAIN cs}, "closed")

----------------------------------------------------------------------------
(* run_with_reconnect and run.                                             *)

SendLifecycleEvent(e) == life' = Append(life, e)

Running == mgr.phase = "running"

\* A remote call can be answered: the path is up and the connection lives.
Talks == vsLink = "up" /\ vs.conn

\* The connection is lost or given up; with it goes the registration.
Unconnected == [vs EXCEPT !.conn = FALSE, !.registered = FALSE]

Dial ==
    /\ Alive
    /\ mgr.phase = "dialing"
    /\ vsLink = "up"
    /\ mgr' = [mgr EXCEPT !.phase = "tls"]
    /\ vs' = [vs EXCEPT !.conn = TRUE]
    /\ UNCHANGED <<cmds, cur, life, node, call, vsLink, count>>

\* An error before the run loop has started sends no lifecycle event.  Only
\* the TCP connect is bound to end: the handshake has no timeout.
DialFails ==
    /\ Alive
    /\ mgr.phase \in {"dialing", "tls"}
    /\ ~Talks
    /\ mgr.phase = "dialing" => vsLink = "down"
    /\ mgr' = [mgr EXCEPT !.phase = "delay"]
    /\ vs' = Unconnected
    /\ UNCHANGED <<cmds, cur, life, node, call, vsLink, count>>

\* tls_connect: the visa service's certificate is not verified, so that no
\* handshake is refused.
CertificateAccepted == TRUE

\* The handshake ends; while it lasts no command is taken.
TlsConnected == mgr.phase = "tls" /\ Talks /\ CertificateAccepted

RunLoopStarts ==
    /\ Alive
    /\ TlsConnected
    /\ mgr' = [NewVSConn EXCEPT !.phase = "running"]
    /\ SendLifecycleEvent("starts")
    /\ UNCHANGED <<cmds, cur, node, call, vs, vsLink, count>>

\* Commands that arrive while dialing or during the delay are dropped, except
\* that Stop ends the manager and with it the channel.
DropCommand ==
    /\ Alive
    /\ mgr.phase \in {"dialing", "delay"}
    /\ cmds # <<>>
    /\ IF Head(cmds).op = "stop"
       THEN /\ mgr' = [mgr EXCEPT !.phase = "stopped"]
            /\ life' = IF mgr.phase = "dialing" THEN Append(life, "exits") ELSE life
            /\ Discard(cmds)
            /\ cmds' = <<>>
       ELSE /\ Discard(<<Head(cmds)>>)
            /\ cmds' = Tail(cmds)
            /\ UNCHANGED <<mgr, life>>
    /\ UNCHANGED <<cur, node, vs, vsLink, count>>

Redial ==
    /\ Alive
    /\ mgr.phase = "delay"
    /\ mgr' = [mgr EXCEPT !.phase = "dialing"]
    /\ UNCHANGED <<cmds, cur, life, node, call, vs, vsLink, count>>

\* The run loop returns an error: its handle is gone, the manager will dial.
LeaveWithError ==
    /\ mgr' = [NewVSConn EXCEPT !.phase = "delay"]
    /\ vs' = Unconnected
    /\ SendLifecycleEvent("exits")

Restart == LeaveWithError

\* Stop: the run loop ends and so does the manager.
Stop(state) ==
    /\ mgr' = [mgr EXCEPT !.phase = "stopped", !.handle = FALSE]
    /\ vs' = state
    /\ SendLifecycleEvent("exits")
    /\ Discard(Tail(cmds))
    /\ cmds' = <<>>

\* handle_command: what needs no remote call is done and answered at once.
NeedsNoCall(c) ==
    CASE c.op = "connect" -> mgr.handle
      [] c.op = "restart" -> TRUE
      [] OTHER -> ~mgr.handle

TakeCommand ==
    /\ Alive
    /\ Running
    /\ cur = NoCall
    /\ cmds # <<>>
    /\ LET c == Head(cmds) IN
       \/ /\ ~NeedsNoCall(c)
          /\ cur' = c
          /\ cmds' = Tail(cmds)
          /\ UNCHANGED <<mgr, life, call, vs>>
       \/ /\ c.op = "restart"
          /\ Restart
          /\ cmds' = Tail(cmds)
          /\ UNCHANGED <<cur, call>>
       \/ /\ c.op = "stop"
          /\ NeedsNoCall(c)
          /\ Stop(Unconnected)
          /\ UNCHANGED cur
       \/ /\ c.op \notin {"restart", "stop"}
          /\ NeedsNoCall(c)
          /\ call' = Tell(call, {c.who}, "refused")
          /\ cmds' = Tail(cmds)
          /\ UNCHANGED <<mgr, cur, life, vs>>
    /\ UNCHANGED <<node, vsLink, count>>

\* External: what a request does to the visa service's record of this node.
Served(c) ==
    CASE c.op = "connect" ->
           [vs EXCEPT !.state = TRUE, !.known = IF ConnectType(c) = "Reset" THEN {} ELSE @]
      [] c.op = "register" -> [vs EXCEPT !.registered = TRUE]
      [] c.op = "authorize" -> [vs EXCEPT !.known = @ \cup ({c.who} \cap Actors)]
      [] c.op = "disconnect" /\ c.who \in Actors -> [vs EXCEPT !.known = @ \ {c.who}]
      [] c.op = "reauthenticate" -> vs
      [] OTHER -> [vs EXCEPT !.state = FALSE, !.known = {}, !.registered = FALSE]

\* External: a claim to state the visa service does not have is refused.
OutOfSync(c) ==
    c.op \in {"connect", "reauthenticate"} /\ ConnectType(c) = "Reconnect" /\ ~vs.state

\* do_connect, do_register_vss, do_authorize_connect and the others: the
\* visa service serves the request.
CallServed ==
    /\ Alive
    /\ cur # NoCall
    /\ Talks
    /\ ~OutOfSync(cur)
    /\ IF cur.op = "stop"
       THEN /\ mgr' = [mgr EXCEPT !.phase = "stopped", !.handle = FALSE]
            /\ vs' = [Served(cur) EXCEPT !.conn = FALSE, !.registered = FALSE]
            /\ SendLifecycleEvent("exits")
            /\ Discard(cmds)
            /\ cmds' = <<>>
       ELSE /\ vs' = Served(cur)
            /\ mgr' = IF cur.op = "connect" THEN [mgr EXCEPT !.handle = TRUE] ELSE mgr
            /\ life' = IF cur.op = "connect" THEN Append(life, "connected") ELSE life
            /\ call' = Tell(call, {cur.who}, "ok")
            /\ UNCHANGED cmds
    /\ cur' = NoCall
    /\ UNCHANGED <<node, vsLink, count>>

\* The visa service answers with an error.
CallRefused ==
    /\ Alive
    /\ cur # NoCall
    /\ cur.op # "stop"
    /\ Talks
    /\ IF OutOfSync(cur) THEN UNCHANGED count ELSE Fault
    /\ call' = Tell(call, {cur.who}, IF OutOfSync(cur) THEN "outofsync" ELSE "refused")
    /\ cur' = NoCall
    /\ UNCHANGED <<mgr, cmds, life, node, vs, vsLink>>

\* rpc_with_timeout gives up, or the connection is found broken; the request
\* may have been served.  Stop then leaves the run loop with an error.
CallLost ==
    /\ Alive
    /\ cur # NoCall
    /\ IF Talks THEN Fault ELSE UNCHANGED count
    /\ \E served \in {vs} \cup (IF Talks /\ ~OutOfSync(cur) THEN {Served(cur)} ELSE {}) :
         IF cur.op = "stop"
         THEN /\ mgr' = [NewVSConn EXCEPT !.phase = "delay"]
              /\ vs' = [served EXCEPT !.conn = FALSE, !.registered = FALSE]
              /\ SendLifecycleEvent("exits")
              /\ UNCHANGED call
         ELSE /\ vs' = served
              /\ call' = Tell(call, {cur.who}, "refused")
              /\ UNCHANGED <<mgr, life>>
    /\ cur' = NoCall
    /\ UNCHANGED <<cmds, node, vsLink>>

\* The ping timer, which only counts once the node is connected: two
\* failures in a row end the run loop.
Ping ==
    /\ Alive
    /\ Running
    /\ cur = NoCall
    /\ mgr.handle
    /\ \/ /\ Talks
          /\ mgr' = [mgr EXCEPT !.pings = 0]
          /\ UNCHANGED <<vs, life>>
       \/ /\ ~Talks
          /\ mgr.pings = 0
          /\ mgr' = [mgr EXCEPT !.pings = 1]
          /\ UNCHANGED <<vs, life>>
       \/ /\ ~Talks
          /\ mgr.pings = 1
          /\ LeaveWithError
    /\ UNCHANGED <<cmds, cur, node, call, vsLink, count>>

----------------------------------------------------------------------------
(* vs_worker::launch.                                                      *)

WorkerAt(pc) == Alive /\ wrk.pc = pc

WorkerGoes(pc) == wrk' = [wrk EXCEPT !.pc = pc]

WorkerCalls(op) == MakeCalls(call, op, {"worker"})

WorkerDone == call' = [call EXCEPT !["worker"] = NoCall] /\ UNCHANGED cmds

\* wait_for_runloop_start.
WaitForRunloopStart ==
    /\ WorkerAt("gate")
    /\ life # <<>>
    /\ life' = Tail(life)
    /\ WorkerGoes(IF Head(life) = "starts" THEN "retry" ELSE "gate")
    /\ UNCHANGED <<mgr, cmds, cur, call, actor, deferred, inFlight, exit, vs, vsLink, count>>

\* The gate is open, or VSCONN_RETRY_WAIT is over: connect is called.
CallConnect ==
    /\ WorkerAt("retry")
    /\ WorkerGoes("connecting")
    /\ WorkerCalls("connect")
    /\ UNCHANGED <<mgr, cur, life, actor, deferred, inFlight, exit, vs, vsLink, count>>

\* The links of adapters are reset: each docked actor is deregistered.
ResetActors(c) ==
    /\ actor' = [a \in Actors |->
                    [actor[a] EXCEPT !.st = IF @ \in {"in", "leaving"} THEN "leaving" ELSE "out"]]
    /\ MakeCalls(c, "disconnect", {a \in Actors : actor[a].st = "in"})

\* Mutant: an out-of-sync answer is handled like any other refusal.
MutDisconnectAdapters ==
    wrk' = [pc |-> "retry", state |-> FALSE] /\ WorkerDone /\ UNCHANGED actor

\* Assembly::disconnect_adapters, which the worker waits for.
DisconnectAdapters ==
    /\ ResetActors([call EXCEPT !["worker"] = NoCall])
    /\ wrk' = [pc |-> "disconnecting", state |-> FALSE]

\* The connect call is answered before a lifecycle event is read.
ConnectAnswered ==
    /\ WorkerAt("connecting")
    /\ Answered("worker")
    /\ \/ /\ call["worker"].st = "ok"
          /\ WorkerGoes("registering")
          /\ WorkerCalls("register")
          /\ UNCHANGED actor
       \/ /\ call["worker"].st = "outofsync"
          /\ DisconnectAdapters
       \/ /\ call["worker"].st \in {"refused", "closed"}
          /\ WorkerGoes("retry")
          /\ WorkerDone
          /\ UNCHANGED actor
    /\ UNCHANGED <<mgr, cur, life, deferred, inFlight, exit, vs, vsLink, count>>

AdaptersDisconnected ==
    /\ WorkerAt("disconnecting")
    /\ \A a \in Actors : actor[a].st # "leaving"
    /\ WorkerGoes("retry")
    /\ UNCHANGED <<conn, call, actor, deferred, inFlight, exit, vs, vsLink, count>>

\* A lifecycle event is read first: the connect call is abandoned where it
\* stands, or was not made at all.
Abandon(c) == IF "who" \in DOMAIN c /\ c.who = "worker" THEN [c EXCEPT !.who = "nobody"] ELSE c

LifecycleEvent ==
    /\ WorkerAt("connecting") \/ WorkerAt("retry")
    /\ life # <<>>
    /\ life' = Tail(life)
    /\ LET rest == [i \in DOMAIN cmds |-> Abandon(cmds[i])]
           idle == [call EXCEPT !["worker"] = NoCall] IN
       IF Head(life) = "connected"
       THEN /\ WorkerGoes("registering")
            /\ cmds' = IF mgr.phase = "stopped" THEN rest
                       ELSE Append(rest, Command("register", "worker"))
            /\ call' = [call EXCEPT !["worker"] =
                          [op |-> "register",
                           st |-> IF mgr.phase = "stopped" THEN "closed" ELSE "wait"]]
       ELSE /\ WorkerGoes(IF Head(life) = "exits" THEN "gate" ELSE "retry")
            /\ cmds' = rest
            /\ call' = idle
    /\ cur' = Abandon(cur)
    /\ UNCHANGED <<mgr, actor, deferred, inFlight, exit, vs, vsLink, count>>

\* A failed registration: tell the visa service, then recycle the run loop.
RegisterFailed == WorkerGoes("notifying") /\ WorkerCalls("disconnect")

RegisterAnswered ==
    /\ WorkerAt("registering")
    /\ Answered("worker")
    /\ \/ /\ call["worker"].st = "ok"
          /\ deferred
          /\ WorkerGoes("deferring")
          /\ WorkerCalls("authorize")
       \/ /\ call["worker"].st = "ok"
          /\ ~deferred
          /\ wrk' = [pc |-> "gate", state |-> TRUE]
          /\ WorkerDone
       \/ /\ call["worker"].st # "ok"
          /\ RegisterFailed
    /\ deferred' = (deferred /\ call["worker"].st # "ok")
    /\ UNCHANGED <<mgr, cur, life, actor, inFlight, exit, vs, vsLink, count>>

\* send_deferred_vs_connect: any failure is a panic.
DeferredAnswered ==
    /\ WorkerAt("deferring")
    /\ Answered("worker")
    /\ wrk' = IF call["worker"].st = "ok" THEN [pc |-> "gate", state |-> TRUE]
              ELSE [wrk EXCEPT !.pc = "panicked"]
    /\ WorkerDone
    /\ UNCHANGED <<mgr, cur, life, actor, deferred, inFlight, exit, vs, vsLink, count>>

\* Whatever became of the notice, the run loop is recycled.
RestartAfterFailedRegister ==
    /\ WorkerAt("notifying")
    /\ Answered("worker")
    /\ WorkerGoes("gate")
    /\ call' = [call EXCEPT !["worker"] = NoCall]
    /\ Send("restart")
    /\ UNCHANGED <<mgr, cur, life, actor, deferred, inFlight, exit, vs, vsLink, count>>

----------------------------------------------------------------------------
(* Adapters docked at this node, seen from the visa service.               *)

Request == count.requests < MaxRequests /\ count' = [count EXCEPT !.requests = @ + 1]

\* visa_mgmt::authorize_connect of a link in RegisterAA.
AuthorizeConnect(a) ==
    /\ Alive
    /\ exit = "no"
    /\ Request
    /\ actor[a].st = "out"
    /\ call[a] = NoCall
    /\ actor' = [actor EXCEPT ![a] = [st |-> "authorizing", early |-> ~wrk.state]]
    /\ MakeCalls(call, "authorize", {a})
    /\ UNCHANGED <<mgr, cur, life, wrk, deferred, inFlight, exit, vs, vsLink>>

\* The link may have been reset meanwhile; then the answer is dropped.
AuthorizeAnswered(a) ==
    /\ Alive
    /\ call[a].op = "authorize"
    /\ Answered(a)
    /\ actor' = [actor EXCEPT ![a].st =
                    IF @ # "authorizing" THEN @ ELSE IF call[a].st = "ok" THEN "in" ELSE "out"]
    /\ call' = [call EXCEPT ![a] = NoCall]
    /\ UNCHANGED <<conn, wrk, deferred, inFlight, exit, vs, vsLink, count>>

\* The link of a docked actor closes: deregister_actor_addresses.
ActorDisconnect(a) ==
    /\ Alive
    /\ actor[a].st = "in"
    /\ actor' = [actor EXCEPT ![a].st = "leaving"]
    /\ MakeCalls(call, "disconnect", {a})
    /\ UNCHANGED <<mgr, cur, life, wrk, deferred, inFlight, exit, vs, vsLink, count>>

DisconnectAnswered(a) ==
    /\ Alive
    /\ call[a].op = "disconnect"
    /\ Answered(a)
    /\ actor' = [actor EXCEPT ![a].st = "out"]
    /\ call' = [call EXCEPT ![a] = NoCall]
    /\ UNCHANGED <<conn, wrk, deferred, inFlight, exit, vs, vsLink, count>>

----------------------------------------------------------------------------
(* Calls of the visa service to the VSS.                                   *)

\* launch_vss: the visa service connects to the registered address.
VssReached == vs.registered /\ vsLink = "up"

\* The handle the visa service calls: its messages go to the worker.
VssCall(Handler) == VssReached /\ Handler

\* process_revoke_auth terminates the link of a docked actor; an address that
\* is not docked here changes nothing.
ProcessRevokeAuth(a) == ActorDisconnect(a)

RevokeAuthentication(a) == VssCall(ProcessRevokeAuth(a))

\* process_request_authentication for the node's own address: a request made
\* while an attempt is under way changes nothing.
ProcessRequestAuthentication ==
    /\ Alive
    /\ Request
    /\ ~inFlight
    /\ inFlight' = TRUE
    /\ MakeCalls(call, "reauthenticate", {"self"})
    /\ UNCHANGED <<mgr, cur, life, wrk, actor, deferred, exit, vs, vsLink>>

RequestAuthentication == VssCall(ProcessRequestAuthentication)

\* spawn_self_reauth: the attempt is over, however it ended.
SelfReauthDone ==
    /\ Alive
    /\ Answered("self")
    /\ inFlight' = FALSE
    /\ call' = [call EXCEPT !["self"] = NoCall]
    /\ UNCHANGED <<conn, wrk, actor, deferred, exit, vs, vsLink, count>>

----------------------------------------------------------------------------
(* The link to the visa service's adapter, and the visa service itself.    *)

\* The adapter docks; its own authorization has to wait for the connection.
VsLinkUp ==
    /\ Alive
    /\ exit = "no"
    /\ vsLink = "down"
    /\ vsLink' = "up"
    /\ deferred' = TRUE
    /\ UNCHANGED <<conn, wrk, call, actor, inFlight, exit, vs, count>>

\* Mutant: a failed link leaves the connection manager alone.
MutVsLinkCloses(shutdown) == IF shutdown THEN Send("stop") ELSE UNCHANGED cmds

\* maybe_disconnect_visa_service_client.
VsLinkCloses(shutdown) == Send(IF shutdown THEN "stop" ELSE "restart")

\* The link fails or is shut down; TCP survives until it is back, or breaks.
VsLinkDown ==
    /\ Alive
    /\ Fault
    /\ vsLink = "up"
    /\ vsLink' = "down"
    /\ \E shutdown \in BOOLEAN : VsLinkCloses(shutdown)
    /\ vs' \in {vs, Unconnected}
    /\ UNCHANGED <<mgr, cur, life, node, call>>

\* External: the visa service restarts without its state.
VsCrash ==
    /\ Alive
    /\ Fault
    /\ vs.state \/ vs.conn
    /\ vs' = [conn |-> FALSE, state |-> FALSE, known |-> {}, registered |-> FALSE]
    /\ UNCHANGED <<conn, node, call, vsLink>>

----------------------------------------------------------------------------
(* Clean shutdown of a node.                                               *)

\* signal_worker, shutdown_node: every link but the visa service's is reset.
Shutdown ==
    /\ Alive
    /\ exit = "no"
    /\ exit' = "peers"
    /\ ResetActors(call)
    /\ UNCHANGED <<mgr, cur, life, wrk, deferred, inFlight, vs, vsLink, count>>

\* A second interrupt exits at once.
ForcedExit ==
    /\ Alive
    /\ exit # "no"
    /\ exit' = "done"
    /\ UNCHANGED <<conn, wrk, call, actor, deferred, inFlight, vs, vsLink, count>>

\* The deregistrations are answered: reset_peer of the visa service's
\* adapter stops the connection manager and deregisters the node.
ShutdownVsPeer ==
    /\ Alive
    /\ exit = "peers"
    /\ \A a \in Actors : actor[a].st # "leaving"
    /\ IF vsLink = "up" THEN Send("stop") ELSE UNCHANGED cmds
    /\ exit' = "vs"
    /\ UNCHANGED <<mgr, cur, life, wrk, call, actor, deferred, inFlight, vs, vsLink, count>>

ShutdownDone ==
    /\ Alive
    /\ exit = "vs"
    /\ exit' = "done"
    /\ UNCHANGED <<conn, wrk, call, actor, deferred, inFlight, vs, vsLink, count>>

----------------------------------------------------------------------------
ActorAnswered(a) == AuthorizeAnswered(a) \/ DisconnectAnswered(a)

Next ==
    \/ Dial \/ DialFails \/ RunLoopStarts \/ DropCommand \/ Redial
    \/ TakeCommand \/ CallServed \/ CallRefused \/ CallLost \/ Ping
    \/ WaitForRunloopStart \/ CallConnect \/ ConnectAnswered \/ LifecycleEvent
    \/ AdaptersDisconnected \/ RegisterAnswered
    \/ DeferredAnswered \/ RestartAfterFailedRegister
    \/ \E a \in Actors :
         AuthorizeConnect(a) \/ AuthorizeAnswered(a)
         \/ ActorDisconnect(a) \/ RevokeAuthentication(a) \/ DisconnectAnswered(a)
    \/ RequestAuthentication \/ SelfReauthDone
    \/ VsLinkUp \/ VsLinkDown \/ VsCrash
    \/ Shutdown \/ ForcedExit \/ ShutdownVsPeer \/ ShutdownDone

Spec == Init /\ [][Next]_vars

Worker ==
    \/ WaitForRunloopStart \/ CallConnect \/ ConnectAnswered \/ LifecycleEvent
    \/ AdaptersDisconnected \/ RegisterAnswered
    \/ DeferredAnswered \/ RestartAfterFailedRegister

(***************************************************************************)
(* Every task that can run is run, timers fire, a remote call ends at the  *)
(* latest by its timeout, and the visa service's adapter docks again.  A   *)
(* TCP connect ends; a TLS handshake only over a live connection, since    *)
(* connector.connect has no timeout and takes no commands.                 *)
(* select! chooses at random among its ready branches: a branch that is    *)
(* ready again and again is taken.                                         *)
(***************************************************************************)
Fairness ==
    /\ WF_vars(Dial) /\ WF_vars(mgr.phase = "dialing" /\ DialFails)
    /\ WF_vars(RunLoopStarts) /\ WF_vars(Redial)
    /\ SF_vars(DropCommand)
    /\ SF_vars(TakeCommand)
    /\ SF_vars(Ping)
    /\ WF_vars(CallServed \/ CallRefused \/ CallLost)
    /\ WF_vars(Worker) /\ SF_vars(LifecycleEvent)
    /\ \A a \in Actors : WF_vars(ActorAnswered(a))
    /\ WF_vars(SelfReauthDone)
    /\ WF_vars(VsLinkUp)
    /\ WF_vars(ShutdownVsPeer)
    /\ WF_vars(ShutdownDone)

FairSpec == Spec /\ Fairness

----------------------------------------------------------------------------
(* Properties.                                                             *)

\* The path is lost during the TLS handshake, which nothing then ends.
HandshakeHangs == mgr.phase = "tls" /\ ~Talks

\* The connection is lost before the node is connected: the ping timer only
\* looks at a connected node.
Unnoticed == Running /\ ~mgr.handle /\ ~vs.conn

(***************************************************************************)
(* While the node is registered, the visa service knows every actor docked *)
(* at it, whatever state the visa service lost and however late the worker *)
(* learned of it.  Actors that began to dock while the worker claimed no   *)
(* state (before a registration had completed, first or after an out of    *)
(* sync answer) are excepted: when that registration fails the worker      *)
(* starts over with NoState and does not disconnect them.                  *)
(***************************************************************************)
SyncedActors ==
    vs.registered =>
        {a \in Actors : actor[a].st = "in" /\ ~actor[a].early} \subseteq vs.known

(***************************************************************************)
(* Every call of a VSConnHandle is answered, whether it was served, sent   *)
(* between two run loops or left in the channel of a stopped manager:      *)
(* again and again nobody waits, unless the path was lost during a TLS     *)
(* handshake, behind which commands wait for ever.                         *)
(***************************************************************************)
CallsAnswered ==
    []<>(~Alive \/ HandshakeHangs \/ \A w \in Callers : call[w].st = "idle")

(***************************************************************************)
(* vs_worker and run_with_reconnect: the node ends up registered over a    *)
(* live connection, with the authorization of the visa service's adapter   *)
(* sent, however the visa service and its link fail, but for the two       *)
(* failures the code does not notice: a path lost during the handshake and *)
(* a connection lost before the node is connected.                         *)
(***************************************************************************)
Reregisters ==
    <>[](\/ ~Alive
         \/ mgr.phase = "stopped"
         \/ HandshakeHangs
         \/ Unnoticed
         \/ vs.registered /\ wrk.pc = "gate" /\ ~deferred)

(***************************************************************************)
(* do_clean_shutdown ends although it waits for the deregistration of each *)
(* actor, which waits for a connection that may be down; a hanging TLS     *)
(* handshake is the one thing that holds it up.                            *)
(***************************************************************************)
ShutdownCompletes == (exit # "no") ~> (~Alive \/ HandshakeHangs)

=============================================================================
