------------------------------- MODULE Renewal -------------------------------
(***************************************************************************)
(* Silent re-authentication of a docked adapter (link_state.rs), with the  *)
(* bridge to the out-of-band authentication agent (admin_worker.rs) and    *)
(* the refresh tokens that agent keeps (module OidcAgent).                 *)
(*                                                                         *)
(* `n` is the node's link, in a slot of the peer table that a later link   *)
(* may reuse; `a` is the adapter's link, which outlives its sessions.  The *)
(* node starts an attempt when its deadline has passed or when the visa    *)
(* service asks for one.  The attempt runs either over ZDP (a challenge is *)
(* sent to the adapter, which answers with one credential per namespace)   *)
(* or directly at an agent registered on the node; both end in one         *)
(* `reauthorize` call to the visa service.                                 *)
(*                                                                         *)
(* Messages are delivered at most once, in any order, or never, and only   *)
(* while the receiver holds the session they were sent under.  Docking is  *)
(* module Docking: here it is one step.                                    *)
(***************************************************************************)
EXTENDS Integers, Sequences, FiniteSets, OidcAgent

CONSTANTS Issuers,      \* identity providers the node advertises
          Foreign,      \* one it does not
          None,
          MaxLinks,     \* how many links may use the slot
          MaxAttempts,  \* how many challenges the node may mint
          MaxAgents     \* how many agents may register, at either end

ASSUME RenewalAssumption == 
    {MaxLinks, MaxAttempts, MaxAgents} \subseteq Nat /\ None \notin Issuers \cup {Foreign}

VARIABLES n,       \* the node's link
          a,       \* the adapter's link, with the queue of its agent bridge
          tasks,   \* tasks the node spawned: they name the slot and the link's uid
          net,     \* renewal messages in flight
          minted,  \* challenges minted so far
          agents   \* agents registered so far

vars == <<n, a, tasks, net, minted, agents>>

Namespaces == {"Device", "User"}

\* AuthBlob: what proves a namespace, bound to a challenge.  `ok` is the outcome
\* of check_self_signed_blob or check_oidc_blob; `login` is the login whose user
\* the id_token names, which only the visa service can tell.
Blob(ns, iss, c, ok) == [ns |-> ns, iss |-> iss, chal |-> c, ok |-> ok, login |-> 0]

\* `cut` is history: a late authorization has cleared the flag of an attempt.
NoLink == [live |-> FALSE, uid |-> 0, st |-> "Active", ns |-> {}, ident |-> None,
           inflight |-> FALSE, chal |-> 0, agent |-> FALSE, cut |-> FALSE]

\* What the node records of an authenticated link: set_authenticated_namespaces and
\* set_renewal_identity.
NewLink(uid, ns, ident) ==
    [NoLink EXCEPT !.live = TRUE, !.uid = uid, !.ns = ns, !.ident = ident]

\* CliAuthAgent::new: an agent starts with an empty token store.
NoTokens == [i \in Issuers |-> NoToken]

\* The user of a login that no link came of.
StrayLogin == MaxLinks + 1

Init ==
    /\ n = NoLink
    /\ a = [sess |-> 0, ns |-> {}, idp |-> None, agent |-> FALSE,
            store |-> NoTokens, queue |-> <<>>]
    /\ tasks = {} /\ net = {} /\ minted = 0 /\ agents = 0

-------------------------------------------------------------------------------
(* The link around the renewal.                                            *)

\* The agent is free to serve a login: its bridge has nothing ahead of it.
AgentFree == a.agent /\ \A i \in DOMAIN a.queue : ~a.queue[i].own

\* The refresh tokens after a login, which is known by the link it was for.
AfterLoginFor(iss, res, login) ==
    [a.store EXCEPT ![iss] = AfterLogin(@, res, login)]

\* visa_mgmt::authorize_connect: the task that has asked the visa service to
\* authorize the actor of link uid, which it knows by its slot only.  The one of
\* send_deferred_vs_connect, for the visa service's own adapter, is like it.
Authorization(uid) == [kind |-> "authorize", uid |-> uid, chal |-> 0, blobs |-> {}]

\* A link that has docked: both ends recorded the namespaces it authenticated
\* with, the node the issuer if it still advertises it (stash_renewal_identity).
\* The user's namespace was proved by a login through the adapter's agent.
NDock(ns, iss, known, res) ==
    /\ ~n.live /\ n.uid < MaxLinks
    /\ "User" \notin ns => ~known
    /\ res.ok /\ ("User" \notin ns => ~res.refresh)
    /\ "User" \in ns => AgentFree
    /\ n' = NewLink(n.uid + 1, ns, IF known THEN iss ELSE None)
    /\ a' = [a EXCEPT !.sess = n.uid + 1, !.ns = ns, !.idp = IF "User" \in ns THEN iss ELSE None,
                      !.store = IF "User" \in ns THEN AfterLoginFor(iss, res, n.uid + 1) ELSE @]
    /\ net' = {}
    /\ UNCHANGED <<tasks, minted, agents>>

\* A link that closes while its authorization is outstanding, and frees the slot.
NDockCutShort ==
    /\ ~n.live /\ n.uid + 1 < MaxLinks
    /\ n' = [n EXCEPT !.uid = @ + 1]
    /\ tasks' = tasks \cup {Authorization(n.uid + 1)}
    /\ UNCHANGED <<a, net, minted, agents>>

\* A login whose link does not come up, or that fails itself.
ALogin(iss, res) ==
    /\ a.sess = 0 /\ AgentFree
    /\ a' = [a EXCEPT !.store = AfterLoginFor(iss, res, StrayLogin)]
    /\ UNCHANGED <<n, tasks, net, minted, agents>>

\* The node's end closes, and its slot is freed.  What tasks remember survives.
NClose ==
    /\ n.live
    /\ \/ n.st = "Active" /\ n' = [n EXCEPT !.st = "Closing"]
          /\ UNCHANGED net
       \/ n' = [NoLink EXCEPT !.uid = n.uid] /\ net' = {m \in net : m.to # "n"}
    /\ UNCHANGED <<a, tasks, minted, agents>>

\* The adapter's end closes: its renewal task is not aborted.  What it recorded of
\* the session is set anew by the next.
AClose ==
    /\ a.sess # 0
    /\ a' = [a EXCEPT !.sess = 0, !.ns = {}, !.idp = None]
    /\ net' = {m \in net : m.to # "a"}
    /\ UNCHANGED <<n, tasks, minted, agents>>

-------------------------------------------------------------------------------
(* Node: starting an attempt.                                              *)

RenewRequest(c) == [to |-> "a", key |-> n.uid, chal |-> c, code |-> "Request", blobs |-> <<>>]

\* The task that ends an attempt after renewal_attempt_timeout.
AttemptTimer(c) == [kind |-> "timer", uid |-> n.uid, chal |-> c, blobs |-> {}]

\* send_renewal_credential_request: a fresh challenge, stashed and sent, and a
\* task that fails the attempt when its time is up.
SendCredentialRequest ==
    /\ minted < MaxAttempts
    /\ minted' = minted + 1
    /\ n' = [n EXCEPT !.inflight = TRUE, !.chal = minted + 1]
    /\ tasks' = tasks \cup {AttemptTimer(minted + 1)}
    /\ net' = net \cup {RenewRequest(minted + 1)}
    /\ UNCHANGED <<a, agents>>

\* maybe_renew_auth: with no identity to renew it only warns.  Whether the deadline
\* of the authentication window has passed is a matter of time: at any tick it may.
RenewalDue == n.live /\ n.st = "Active" /\ ~n.inflight /\ n.ident # None

\* maybe_renew_auth with an agent on the node's own side.  A request that finds
\* the bridge gone clears the registration and ends the attempt.
AskNodeAgent ==
    /\ n.agent
    /\ \/ /\ n' = [n EXCEPT !.inflight = TRUE]
          /\ tasks' = tasks \cup {[kind |-> "direct", uid |-> n.uid, chal |-> 0,
                                   blobs |-> {Blob("User", n.ident, 0, TRUE)}]}
       \/ /\ n' = [n EXCEPT !.agent = FALSE]
          /\ UNCHANGED tasks
    /\ UNCHANGED <<a, net, minted, agents>>

\* The renewal part of a keep-alive tick.
NKeepAlive ==
    /\ RenewalDue
    /\ \/ ~n.agent /\ SendCredentialRequest
       \/ AskNodeAgent

\* request_renewal_now: the visa service asks.  On a link that is not Active, or
\* with an attempt in flight, nothing changes (Ignored, Coalesced).
NRequestRenewal ==
    /\ n.live /\ n.st = "Active" /\ ~n.inflight
    /\ SendCredentialRequest

\* An agent registers on the node's side.
NAgentChange ==
    /\ n.live /\ ~n.agent /\ agents < MaxAgents
    /\ n' = [n EXCEPT !.agent = TRUE] /\ agents' = agents + 1
    /\ UNCHANGED <<a, tasks, net, minted>>

-------------------------------------------------------------------------------
(* Node: settling an attempt.                                              *)

\* finish_renewal_failure.  The reason it records for showLink is left out.
\* Mutant: the flag stays set.
MutFailed(l) == l

Failed(l) == [l EXCEPT !.inflight = FALSE]

\* set_auth_expires: the deadline it moves is time.
Renewed(l) == [l EXCEPT !.inflight = FALSE]

\* Mutant: the flag is set anew with the expiry.
MutAuthExpires(l) == [l EXCEPT !.inflight = TRUE]

\* record_auth_expires on whatever link is in the slot, perhaps not the one that
\* was authorized, and perhaps with an attempt under way.
RecordAuthExpires(l) == [Renewed(l) EXCEPT !.cut = @ \/ l.inflight]

\* An authorization is answered.
NAuthorized(t, ok) ==
    /\ t.kind = "authorize"
    /\ tasks' = tasks \ {t}
    /\ n' = IF ok /\ n.live THEN RecordAuthExpires(n) ELSE n
    /\ UNCHANGED <<a, net, minted, agents>>

\* The link in the slot is the one the task was spawned for.
\* Mutant: the slot is trusted.
MutSameLink(t) == n.live

SameLink(t) == n.live /\ n.uid = t.uid

\* The attempt's time is up.  take_renewal_challenge_if: a completed or newer
\* attempt is left alone.
NTimer(t) ==
    /\ t.kind = "timer"
    /\ tasks' = tasks \ {t}
    /\ IF SameLink(t) /\ n.chal = t.chal
         THEN n' = [Failed(n) EXCEPT !.chal = 0]
         ELSE UNCHANGED n
    /\ UNCHANGED <<a, net, minted, agents>>

\* handle_renewal_reply: the node's own agent answered, dropped the request or
\* ran out of time.
NDirectReply(t, ok) ==
    /\ t.kind = "direct"
    /\ IF ok /\ SameLink(t)
         THEN n' = n /\ tasks' = (tasks \ {t}) \cup {[t EXCEPT !.kind = "reauth"]}
         ELSE /\ n' = IF SameLink(t) THEN Failed(n) ELSE n
              /\ tasks' = tasks \ {t}
    /\ UNCHANGED <<a, net, minted, agents>>

\* submit_renewal_reauthorize up to its call.  A node has a visa service
\* connection and an authenticated link an actor address.
NSubmit(t) ==
    /\ t.kind = "submit"
    /\ tasks' = (tasks \ {t}) \cup IF SameLink(t) THEN {[t EXCEPT !.kind = "reauth"]} ELSE {}
    /\ UNCHANGED <<n, a, net, minted, agents>>

\* The visa service answers, or the call fails.  The task still holds the link
\* it asked for, which may have left its slot.
NReauthorized(t, ok) ==
    /\ t.kind = "reauth"
    /\ tasks' = tasks \ {t}
    /\ IF SameLink(t)
         THEN n' = (IF ok THEN Renewed(n) ELSE Failed(n))
         ELSE UNCHANGED n
    /\ UNCHANGED <<a, net, minted, agents>>

\* vst_blobs_for_renewal: every leg goes to the visa service.
Legs(m) == {m.blobs[i] : i \in DOMAIN m.blobs}

\* What a response must carry: one credential per authenticated namespace, each
\* verified and bound to the attempt's challenge, the user's from the issuer the
\* actor authenticated with.
\* Mutant: duplicates are not looked for.
MutAcceptable(m) ==
    LET blobs == Legs(m)
    IN /\ {b.ns : b \in blobs} = n.ns
       /\ \A b \in blobs : b.ok /\ b.chal = m.chal
       /\ \A i \in DOMAIN m.blobs :
            m.blobs[i].ns = "User" /\ (\A j \in 1..(i - 1) : m.blobs[j].ns # "User")
                => n.ident # None /\ m.blobs[i].iss = n.ident

Acceptable(m) ==
    LET blobs == Legs(m)
    IN /\ Cardinality({b.ns : b \in blobs}) = Len(m.blobs)
       /\ {b.ns : b \in blobs} = n.ns
       /\ \A b \in blobs : b.ok /\ b.chal = m.chal
       /\ \A b \in blobs : b.ns = "User" => n.ident # None /\ b.iss = n.ident

\* process_renew_auth_response.  Only an answer to the outstanding challenge
\* takes it; what fails afterwards fails the attempt.
NResponse(m) ==
    /\ n.live /\ n.st = "Active"
    /\ n.chal # 0 /\ m.chal = n.chal
    /\ LET cleared == [n EXCEPT !.chal = 0]
       IN \/ /\ m.code = "Success" => ~Acceptable(m)
             /\ n' = Failed(cleared) /\ UNCHANGED tasks
          \/ /\ m.code = "Success" /\ Acceptable(m)
             /\ n' = cleared
             /\ tasks' = tasks \cup {[kind |-> "submit", uid |-> n.uid, chal |-> m.chal,
                                      blobs |-> Legs(m)]}
    /\ UNCHANGED <<a, minted, agents>>

NReceive(m) ==
    /\ m.to = "n" /\ m.key = n.uid
    /\ net' = net \ {m}
    /\ IF n.live /\ n.st = "Active" /\ n.chal # 0 /\ m.chal = n.chal
         THEN NResponse(m)
         ELSE UNCHANGED <<n, a, tasks, minted, agents>>

\* An adapter of another make answers the outstanding request with anything: a
\* good leg of either namespace, or one with one thing wrong.
AnyBlobs ==
    LET B == {Blob("User", iss, n.chal, TRUE) : iss \in Issuers \cup {Foreign}}
             \cup {Blob(ns, None, n.chal, ok) : ns \in Namespaces, ok \in BOOLEAN}
             \cup {Blob(ns, None, n.chal - 1, TRUE) : ns \in Namespaces}
    IN {<<>>} \cup {<<b>> : b \in B} \cup {<<b, c>> : b \in B, c \in B}

NForeignResponse ==
    /\ n.chal # 0
    /\ \/ NResponse([chal |-> n.chal, code |-> "Other", blobs |-> <<>>])
       \/ \E bs \in AnyBlobs : NResponse([chal |-> n.chal, code |-> "Success", blobs |-> bs])
    /\ UNCHANGED net

-------------------------------------------------------------------------------
(* Adapter.                                                                *)

Answer(c, code, blobs) ==
    IF a.sess = 0 THEN {} ELSE {[to |-> "n", key |-> a.sess, chal |-> c,
                                 code |-> code, blobs |-> blobs]}

\* Aborting the wait task drops its reply receiver: the bridge sees the request
\* closed.
\* Mutant: the outstanding call is not cancelled.
MutAbortWait(q) == q

AbortWait(q) == [i \in DOMAIN q |-> [q[i] EXCEPT !.open = FALSE]]

\* The agent of the slot is replaced or gone: its bridge still serves what it was
\* handed, from the tokens that agent holds (none, if its connection died).
Disown(q, tokens) ==
    [i \in DOMAIN q |-> IF q[i].own THEN [q[i] EXCEPT !.own = FALSE, !.token = tokens[q[i].iss]]
                                     ELSE q[i]]

NewAgent(l, q, registered, tokens) ==
    [l EXCEPT !.agent = registered, !.store = NoTokens, !.queue = Disown(q, tokens)]

\* The refresh token a request is served from, and the user's leg it yields.
TokenFor(r) == IF r.own THEN a.store[r.iss] ELSE r.token

UserLeg(r) == [Blob("User", r.iss, r.chal, TRUE) EXCEPT !.login = TokenFor(r)]

\* The self-signed leg, if the namespaces need one.
DeviceLeg(c) == IF "Device" \in a.ns THEN <<Blob("Device", None, c, TRUE)>> ELSE <<>>

\* OidcCredentialRequest, not interactive, with the legs that will go along with the
\* user's.
CredentialRequest(c) ==
    [chal |-> c, open |-> TRUE, legs |-> DeviceLeg(c), iss |-> a.idp, own |-> TRUE,
     token |-> NoToken]

\* Renewal runs on an Active link.
AcceptsRenewal == a.sess # 0

\* A challenge that arrives on the link's present session.
Renews(m) == m.to = "a" /\ m.key = a.sess

\* process_renew_auth_request: supersede the outstanding call, then answer at
\* once or hand the user's leg to the agent.  `signed` is whether the bootstrap
\* key signs the challenge.
ARequest(m, signed) ==
    /\ AcceptsRenewal /\ Renews(m)
    /\ LET q == AbortWait(a.queue)
           answered(code, blobs) == /\ a' = [a EXCEPT !.queue = q]
                                    /\ net' = (net \ {m}) \cup Answer(m.chal, code, blobs)
       IN \/ "Device" \in a.ns /\ ~signed /\ answered("AuthUnavailable", <<>>)
          \/ /\ "Device" \in a.ns => signed
             /\ \/ "User" \notin a.ns /\ answered("Success", DeviceLeg(m.chal))
                \/ /\ "User" \in a.ns /\ (~a.agent \/ a.idp = None)
                   /\ answered("AuthUnavailable", <<>>)
                \/ /\ "User" \in a.ns /\ a.agent /\ a.idp # None   \* the bridge is gone
                   /\ a' = NewAgent(a, q, FALSE, NoTokens)
                   /\ net' = (net \ {m}) \cup Answer(m.chal, "AuthUnavailable", <<>>)
                \/ /\ "User" \in a.ns /\ a.agent /\ a.idp # None
                   /\ a' = [a EXCEPT !.queue = Append(q, CredentialRequest(m.chal))]
                   /\ net' = net \ {m}
    /\ UNCHANGED <<n, tasks, minted, agents>>

\* spawn_auth_agent_bridge serves one request after the other.  A request whose
\* requester went away is passed over.
ABridgeSkip ==
    /\ a.queue # <<>> /\ ~Head(a.queue).open
    /\ a' = [a EXCEPT !.queue = Tail(@)]
    /\ UNCHANGED <<n, tasks, net, minted, agents>>

\* What the agent's answer does to its tokens.
AnswerStore(r, res) ==
    IF r.own THEN [a.store EXCEPT ![r.iss] = AfterRefresh(@, res)] ELSE a.store

\* The agent answers from its refresh token, fails, or exceeds the interaction
\* time; the waiting task sends what it got to the session the link has by then.
ABridgeReply ==
    /\ a.queue # <<>> /\ Head(a.queue).open
    /\ LET r == Head(a.queue)
       IN \E res \in RefreshCredential(TokenFor(r)) \cup {Err("Timeout")} :
            /\ net' = net \cup IF AgentResponse(res) = "Ok"
                               THEN Answer(r.chal, "Success", Append(r.legs, UserLeg(r)))
                               ELSE Answer(r.chal, "AuthUnavailable", <<>>)
            /\ a' = [a EXCEPT !.queue = Tail(@), !.store = AnswerStore(r, res)]
    /\ UNCHANGED <<n, tasks, minted, agents>>

\* startLink registers an agent, perhaps in place of one that lives on, or the
\* agent's connection dies and the clean-up empties the slot.
AAgentChange ==
    /\ \/ /\ agents < MaxAgents /\ agents' = agents + 1
          /\ a' = NewAgent(a, a.queue, TRUE, a.store)
       \/ a.agent /\ a' = NewAgent(a, a.queue, FALSE, NoTokens) /\ UNCHANGED agents
    /\ UNCHANGED <<n, tasks, net, minted>>

-------------------------------------------------------------------------------
Next ==
    \/ \E ns \in (SUBSET Namespaces) \ {{}}, iss \in Issuers, known \in BOOLEAN,
          res \in LoginFlow : NDock(ns, iss, known, res)
    \/ NDockCutShort
    \/ \E iss \in Issuers, res \in LoginFlow : ALogin(iss, res)
    \/ NClose \/ AClose
    \/ NKeepAlive \/ NRequestRenewal \/ NAgentChange
    \/ \E t \in tasks : NTimer(t) \/ NSubmit(t)
    \/ \E t \in tasks, ok \in BOOLEAN :
          NDirectReply(t, ok) \/ NReauthorized(t, ok) \/ NAuthorized(t, ok)
    \/ \E m \in net : NReceive(m)
    \/ NForeignResponse
    \/ \E m \in net, signed \in BOOLEAN : ARequest(m, signed)
    \/ ABridgeSkip \/ ABridgeReply
    \/ AAgentChange

Spec == Init /\ [][Next]_vars

\* Timers fire, spawned tasks run, an agent call is bounded by the attempt's
\* timeout and a visa service call by rpc_with_timeout.  Nothing is assumed of
\* the network or of the adapter.
FairSpec ==
    /\ Spec
    /\ WF_vars(\E t \in tasks : NTimer(t))
    /\ WF_vars(\E t \in tasks : NSubmit(t))
    /\ WF_vars(\E t \in tasks, ok \in BOOLEAN : NDirectReply(t, ok))
    /\ WF_vars(\E t \in tasks, ok \in BOOLEAN : NReauthorized(t, ok))

-------------------------------------------------------------------------------
(* Properties.                                                             *)

\* What will end an attempt of the link in the slot: the stashed challenge with
\* its timer, or a task that holds its credential.
Outstanding ==
    {t \in tasks : /\ t.uid = n.uid /\ t.kind # "authorize"
                   /\ t.kind = "timer" => t.chal = n.chal}

\* renewal_in_flight is never left set with nothing to clear it, whatever the
\* interleaving of ticks, requests of the visa service, late answers, time-outs and
\* reuse of the slot.  And it is set exactly when one thing, and only one, will end
\* the attempt, until a late authorization has cleared it under an attempt: from
\* then on a second attempt may run beside the first on that link.
InFlightHonest ==
    n.live =>
        /\ n.inflight => Outstanding # {}
        /\ ~n.cut => Cardinality(Outstanding) = IF n.inflight THEN 1 ELSE 0

\* What is submitted for a link over ZDP proves each namespace it authenticated
\* with, once, and the user's with the issuer the actor authenticated with,
\* whatever the answering adapter sent.
SubmittedProven ==
    \A t \in tasks :
        n.live /\ t.uid = n.uid /\ t.chal # 0 /\ t.kind # "timer" =>
            /\ {b.ns : b \in t.blobs} = n.ns
            /\ Cardinality(t.blobs) = Cardinality(n.ns)
            /\ \A b \in t.blobs :
                 b.ok /\ b.chal = t.chal /\ (b.ns = "User" => b.iss = n.ident)

\* The agent of the adapter never has two calls whose answer somebody waits for:
\* a new request cancels the outstanding one, also across a reconnect.
OneAgentCall == Cardinality({i \in DOMAIN a.queue : a.queue[i].open}) <= 1

\* An adapter renews a link with the identity of the user who logged in for that
\* link: no interleaving of logins (also those that no link came of), reconnects,
\* replaced agents and abandoned calls answers the node's challenge from the
\* refresh token of another login.
RenewsOwnLogin ==
    \A m \in net :
        n.live /\ m.to = "n" /\ m.key = n.uid /\ m.chal = n.chal =>
            \A b \in Legs(m) : b.ns = "User" => b.login = n.uid

\* Every attempt ends, however long the adapter, its agent or the network keep
\* silent: renewal_in_flight does not stay set.
InFlightSettles == (n.live /\ n.inflight) ~> (~n.live \/ ~n.inflight)
=============================================================================
