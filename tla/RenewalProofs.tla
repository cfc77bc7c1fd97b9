---------------------------- MODULE RenewalProofs ----------------------------
(***************************************************************************)
(* Renewal, for any number of links, attempts, agents and issuers: an      *)
(* attempt in flight has something that will end it, and exactly one thing *)
(* unless a late authorization cut in on the link; what is submitted for a *)
(* link proves its namespaces; the adapter's agent has one call that       *)
(* somebody waits for; and a link is renewed with the identity of its own  *)
(* login.                                                                  *)
(***************************************************************************)
EXTENDS Renewal, FiniteSetTheorems, TLAPS

-------------------------------------------------------------------------------
(* Types.                                                                  *)

Providers == Issuers \cup {Foreign, None}

BlobType == [ns : Namespaces, iss : Providers, chal : Nat, ok : BOOLEAN, login : Nat]

LinkType == [live : BOOLEAN, uid : Nat, st : {"Active", "Closing"}, ns : SUBSET Namespaces,
             ident : Issuers \cup {None}, inflight : BOOLEAN, chal : Nat, agent : BOOLEAN,
             cut : BOOLEAN]

RequestType == [chal : Nat, open : BOOLEAN, legs : Seq(BlobType), iss : Issuers,
                own : BOOLEAN, token : Nat]

AdapterType == [sess : Nat, ns : SUBSET Namespaces, idp : Issuers \cup {None},
                agent : BOOLEAN, store : [Issuers -> Nat], queue : Seq(RequestType)]

TaskType == [kind : {"timer", "direct", "submit", "reauth", "authorize"}, uid : Nat,
             chal : Nat, blobs : SUBSET BlobType]

MessageType == [to : {"a", "n"}, key : Nat, chal : Nat,
                code : {"Request", "Success", "AuthUnavailable"}, blobs : Seq(BlobType)]

\* The type invariant of renewal: what the two links, the tasks and the messages hold.
TypeOK ==
    /\ n \in LinkType
    /\ a \in AdapterType
    /\ tasks \subseteq TaskType
    /\ net \subseteq MessageType
    /\ minted \in Nat
    /\ agents \in Nat

-------------------------------------------------------------------------------
(* The inductive invariant.                                                *)

\* A challenge is never minted twice and a link's uid never used again: whatever names
\* one of them was made after it.
TasksOld ==
    /\ n.chal <= minted
    /\ \A t \in tasks : t.chal <= minted /\ t.uid <= n.uid

MessagesOld ==
    /\ \A m \in net : 1 <= m.chal /\ m.chal <= minted
    /\ \A i \in DOMAIN a.queue : 1 <= a.queue[i].chal /\ a.queue[i].chal <= minted

\* A challenge has one timer, and the stashed one still has it.
TimerKept ==
    /\ \A t \in tasks : t.kind = "timer" => t.chal # 0
    /\ \A t, u \in tasks : t.kind = "timer" /\ u.kind = "timer" /\ t.chal = u.chal => t = u
    /\ n.chal # 0 => /\ n.live /\ (~n.cut => n.inflight)
                     /\ \E t \in tasks : t.kind = "timer" /\ t.uid = n.uid /\ t.chal = n.chal

\* InFlightHonest without counting.
OneEnd ==
    n.live =>
        /\ n.inflight => \E t \in tasks : t \in Outstanding
        /\ ~n.cut => IF n.inflight THEN \E t \in tasks : Outstanding = {t}
                                   ELSE Outstanding = {}

\* Of the agent's calls only one has somebody waiting.
OneOpen ==
    \A i, j \in DOMAIN a.queue : a.queue[i].open /\ a.queue[j].open => i = j

\* While the node has the link, the token the adapter's agent holds for the link's
\* issuer is of that link's login.
SessionOwn ==
    n.live /\ a.sess # 0 /\ a.idp # None => a.store[a.idp] \in {NoToken, n.uid}

\* So is the token that a call about the outstanding challenge is served from, whether
\* or not its agent has been replaced, and the legs made without an agent are not the
\* user's.
CallsOwn ==
    \A i \in DOMAIN a.queue :
        /\ \A b \in DOMAIN a.queue[i].legs : a.queue[i].legs[b].ns = "Device"
        /\ n.live /\ a.sess # 0 /\ a.queue[i].chal = n.chal =>
             /\ ~a.queue[i].own => a.queue[i].token \in {NoToken, n.uid}
             /\ a.queue[i].own => a.idp # None /\ a.queue[i].iss = a.idp

\* The node's end: its attempts and the tasks that will end them.
AttemptInv == TasksOld /\ TimerKept /\ OneEnd /\ SubmittedProven

\* The adapter's end: the calls of its agent and the answers that come of them.
AgentInv == MessagesOld /\ OneOpen /\ SessionOwn /\ CallsOwn /\ RenewsOwnLogin

-------------------------------------------------------------------------------
(* The operators.                                                          *)

\* Aborting the waits closes every request and changes nothing else of it.
LEMMA AbortWaitKeeps ==
  ASSUME NEW q \in Seq(RequestType)
  PROVE  /\ AbortWait(q) \in Seq(RequestType)
         /\ DOMAIN AbortWait(q) = DOMAIN q
         /\ \A i \in DOMAIN q : AbortWait(q)[i] = [q[i] EXCEPT !.open = FALSE]
<1>1. \A i \in DOMAIN q : q[i] \in RequestType
  OBVIOUS
<1>2. \A i \in DOMAIN q : [q[i] EXCEPT !.open = FALSE] \in RequestType
  BY <1>1 DEF RequestType
<1> QED BY <1>2 DEF AbortWait

\* A replaced agent's requests keep their challenge and their requester; they are
\* served from the tokens that agent has.
LEMMA DisownKeeps ==
  ASSUME NEW q \in Seq(RequestType), NEW tokens \in [Issuers -> Nat]
  PROVE  /\ Disown(q, tokens) \in Seq(RequestType)
         /\ DOMAIN Disown(q, tokens) = DOMAIN q
         /\ \A i \in DOMAIN q :
              Disown(q, tokens)[i] = IF q[i].own THEN [q[i] EXCEPT !.own = FALSE,
                                                           !.token = tokens[q[i].iss]]
                                                 ELSE q[i]
<1> DEFINE disowned(r) == IF r.own THEN [r EXCEPT !.own = FALSE, !.token = tokens[r.iss]]
                                   ELSE r
<1>1. \A r \in RequestType : disowned(r) \in RequestType
  BY DEF RequestType
<1>2. Disown(q, tokens) = [i \in DOMAIN q |-> disowned(q[i])]
  BY DEF Disown
<1>3. \A i \in DOMAIN q : q[i] \in RequestType
  OBVIOUS
<1> HIDE DEF disowned
<1>4. \A i \in DOMAIN q : disowned(q[i]) \in RequestType
  BY <1>1, <1>3
<1>5. \A i \in DOMAIN q : Disown(q, tokens)[i] = disowned(q[i])
  BY <1>2
<1>6. Disown(q, tokens) \in Seq(RequestType) /\ DOMAIN Disown(q, tokens) = DOMAIN q
  BY <1>2, <1>4
<1> QED BY <1>5, <1>6 DEF disowned

\* The legs of a response are blobs.
LEMMA LegsTyped ==
  ASSUME NEW m, m.blobs \in Seq(BlobType)
  PROVE  Legs(m) \subseteq BlobType
BY DEF Legs

\* Whatever an adapter of another make answers is a sequence of blobs.
LEMMA AnyBlobsTyped ==
  ASSUME TypeOK, n.chal # 0
  PROVE  AnyBlobs \subseteq Seq(BlobType)
<1> DEFINE good == {Blob("User", iss, n.chal, TRUE) : iss \in Issuers \cup {Foreign}}
           other == {Blob(ns, None, n.chal, ok) : ns \in Namespaces, ok \in BOOLEAN}
           stale == {Blob(ns, None, n.chal - 1, TRUE) : ns \in Namespaces}
           B == good \cup other \cup stale
<1>0. AnyBlobs = {<<>>} \cup {<<b>> : b \in B} \cup {<<b, c>> : b \in B, c \in B}
  BY DEF AnyBlobs
<1> HIDE DEF B
<1>1. n.chal \in Nat /\ n.chal - 1 \in Nat
  BY DEF TypeOK, LinkType
<1>2. B \subseteq BlobType
  <2>1. \A iss \in Issuers \cup {Foreign} : Blob("User", iss, n.chal, TRUE) \in BlobType
    BY <1>1 DEF Blob, BlobType, Providers, Namespaces
  <2>2. \A ns \in Namespaces, c \in {n.chal, n.chal - 1}, ok \in BOOLEAN :
          Blob(ns, None, c, ok) \in BlobType
    BY <1>1 DEF Blob, BlobType, Providers
  <2>3. good \subseteq BlobType
    BY <2>1
  <2>4. other \subseteq BlobType
    BY <2>2
  <2>5. stale \subseteq BlobType
    BY <2>2
  <2> HIDE DEF good, other, stale
  <2> QED BY <2>3, <2>4, <2>5 DEF B
<1>4. \A b \in B : <<b>> \in Seq(BlobType)
  BY <1>2
<1>5. \A b, c \in B : <<b, c>> \in Seq(BlobType)
  BY <1>2
<1>6. <<>> \in Seq(BlobType)
  OBVIOUS
<1> SUFFICES ASSUME NEW x \in AnyBlobs PROVE x \in Seq(BlobType)
  OBVIOUS
<1>7. \/ x = <<>>
      \/ \E b \in B : x = <<b>>
      \/ \E b \in B : \E c \in B : x = <<b, c>>
  BY <1>0
<1> QED BY <1>7, <1>4, <1>5, <1>6, Zenon

\* The refresh token left by a login or a refresh is the old one, the new one or none.
LEMMA StoreTyped ==
  ASSUME TypeOK, NEW iss \in Issuers, NEW res, NEW login \in Nat
  PROVE  /\ AfterLoginFor(iss, res, login) \in [Issuers -> Nat]
         /\ AfterLoginFor(iss, res, login)[iss] = AfterLogin(a.store[iss], res, login)
BY DEF AfterLoginFor, AfterLogin, NoToken, TypeOK, AdapterType

\* A request is served from a token; what the answer leaves is a token store.
LEMMA RequestTyped ==
  ASSUME TypeOK, NEW r \in RequestType, NEW res
  PROVE  /\ TokenFor(r) \in Nat
         /\ UserLeg(r) \in BlobType /\ UserLeg(r).ns = "User" /\ UserLeg(r).login = TokenFor(r)
         /\ Append(r.legs, UserLeg(r)) \in Seq(BlobType)
         /\ AnswerStore(r, res) \in [Issuers -> Nat]
         /\ \A i \in Issuers : AnswerStore(r, res)[i] \in {NoToken, a.store[i]}
<1>1. a.store \in [Issuers -> Nat] /\ r.iss \in Issuers /\ r.token \in Nat /\ r.chal \in Nat
      /\ r.legs \in Seq(BlobType)
  BY DEF TypeOK, AdapterType, RequestType
<1>2. TokenFor(r) \in Nat
  BY <1>1 DEF TokenFor
<1>3. UserLeg(r) \in BlobType /\ UserLeg(r).ns = "User" /\ UserLeg(r).login = TokenFor(r)
  BY <1>1, <1>2 DEF UserLeg, Blob, BlobType, Providers, Namespaces
<1>4. Append(r.legs, UserLeg(r)) \in Seq(BlobType)
  BY <1>1, <1>3
<1>5. AnswerStore(r, res) \in [Issuers -> Nat]
      /\ \A i \in Issuers : AnswerStore(r, res)[i] \in {NoToken, a.store[i]}
  BY <1>1 DEF AnswerStore, AfterRefresh, NoToken
<1> QED BY <1>2, <1>3, <1>4, <1>5

\* The device's leg, and the request that takes it along.
LEMMA CredentialRequestTyped ==
  ASSUME TypeOK, NEW c \in Nat
  PROVE  /\ DeviceLeg(c) \in Seq(BlobType)
         /\ \A b \in DOMAIN DeviceLeg(c) : DeviceLeg(c)[b].ns = "Device"
         /\ a.idp # None => CredentialRequest(c) \in RequestType
<1>1. Blob("Device", None, c, TRUE) \in BlobType /\ Blob("Device", None, c, TRUE).ns = "Device"
  BY DEF Blob, BlobType, Providers, Namespaces
<1>2. DeviceLeg(c) \in Seq(BlobType)
      /\ \A b \in DOMAIN DeviceLeg(c) : DeviceLeg(c)[b].ns = "Device"
  <2> DEFINE D == Blob("Device", None, c, TRUE)
  <2> HIDE DEF D
  <2>1. D \in BlobType /\ D.ns = "Device"
    BY <1>1 DEF D
  <2>2. <<D>> \in Seq(BlobType) /\ DOMAIN <<D>> = 1 .. 1 /\ <<D>>[1] = D
    BY <2>1
  <2>3. <<>> \in Seq(BlobType) /\ DOMAIN <<>> = {}
    OBVIOUS
  <2>4. DeviceLeg(c) = IF "Device" \in a.ns THEN <<D>> ELSE <<>>
    BY DEF DeviceLeg, D
  <2> QED BY <2>1, <2>2, <2>3, <2>4
<1>3. a.idp # None => a.idp \in Issuers
  BY DEF TypeOK, AdapterType
<1> HIDE DEF DeviceLeg
<1> QED BY <1>2, <1>3 DEF CredentialRequest, RequestType, NoToken

-------------------------------------------------------------------------------
(* Type correctness.                                                       *)

LEMMA NodeStepTyped ==
  ASSUME TypeOK,
         n' \in LinkType, tasks' \subseteq TaskType, net' \subseteq MessageType,
         minted' \in Nat, agents' \in Nat, a' = a
  PROVE  TypeOK'
BY DEF TypeOK

\* What an attempt's end changes of the link.
LEMMA FailedKeeps ==
  ASSUME NEW l \in LinkType
  PROVE  /\ Failed(l) \in LinkType /\ ~Failed(l).inflight /\ Failed(l).chal = l.chal
         /\ Failed(l).live = l.live /\ Failed(l).uid = l.uid
         /\ Failed(l).ns = l.ns /\ Failed(l).ident = l.ident /\ Failed(l).cut = l.cut
BY DEF Failed, LinkType

LEMMA ClearedKeeps ==
  ASSUME NEW l \in LinkType
  PROVE  /\ [l EXCEPT !.chal = 0] \in LinkType /\ [l EXCEPT !.chal = 0].chal = 0
         /\ [l EXCEPT !.chal = 0].inflight = l.inflight
         /\ [l EXCEPT !.chal = 0].cut = l.cut
         /\ [l EXCEPT !.chal = 0].live = l.live /\ [l EXCEPT !.chal = 0].uid = l.uid
         /\ [l EXCEPT !.chal = 0].ns = l.ns /\ [l EXCEPT !.chal = 0].ident = l.ident
BY DEF LinkType

\* What an authorization that is answered changes of the link in the slot.
LEMMA RecordKeeps ==
  ASSUME NEW l \in LinkType
  PROVE  /\ RecordAuthExpires(l) \in LinkType /\ ~RecordAuthExpires(l).inflight
         /\ RecordAuthExpires(l).cut = (l.cut \/ l.inflight)
         /\ RecordAuthExpires(l).chal = l.chal
         /\ RecordAuthExpires(l).live = l.live /\ RecordAuthExpires(l).uid = l.uid
         /\ RecordAuthExpires(l).ns = l.ns /\ RecordAuthExpires(l).ident = l.ident
BY DEF RecordAuthExpires, Renewed, LinkType

LEMMA SendCredentialRequestTyped ==
  ASSUME TypeOK, SendCredentialRequest
  PROVE  TypeOK'
<1>1. minted + 1 \in Nat /\ n.uid \in Nat
  BY DEF TypeOK, LinkType
<1>2. n' \in LinkType
  BY <1>1 DEF TypeOK, LinkType, SendCredentialRequest
<1>3. AttemptTimer(minted + 1) \in TaskType
  BY <1>1 DEF AttemptTimer, TaskType
<1>4. RenewRequest(minted + 1) \in MessageType
  BY <1>1 DEF RenewRequest, MessageType
<1>5. tasks' \subseteq TaskType
  BY <1>3 DEF TypeOK, SendCredentialRequest
<1>6. net' \subseteq MessageType
  BY <1>4 DEF TypeOK, SendCredentialRequest
<1> QED BY <1>1, <1>2, <1>5, <1>6 DEF TypeOK, SendCredentialRequest

LEMMA AskNodeAgentTyped ==
  ASSUME TypeOK, n.ident # None, AskNodeAgent
  PROVE  TypeOK'
<1>1. Blob("User", n.ident, 0, TRUE) \in BlobType
  BY DEF TypeOK, LinkType, Blob, BlobType, Providers, Namespaces
<1>2. [kind |-> "direct", uid |-> n.uid, chal |-> 0,
       blobs |-> {Blob("User", n.ident, 0, TRUE)}] \in TaskType
  BY <1>1 DEF TypeOK, LinkType, TaskType
<1>3. n' \in LinkType
  BY DEF TypeOK, LinkType, AskNodeAgent
<1>4. tasks' \subseteq TaskType
  BY <1>2 DEF TypeOK, AskNodeAgent
<1> QED BY <1>3, <1>4 DEF TypeOK, AskNodeAgent

LEMMA ResponseTyped ==
  ASSUME TypeOK, NEW m, m.blobs \in Seq(BlobType), m.chal \in Nat, NResponse(m),
         net' \subseteq MessageType
  PROVE  TypeOK'
<1>1. Legs(m) \subseteq BlobType
  BY LegsTyped
<1>2. n' \in LinkType
  <2>1. n' = Failed([n EXCEPT !.chal = 0]) \/ n' = [n EXCEPT !.chal = 0]
    BY DEF NResponse
  <2>2. [n EXCEPT !.chal = 0] \in LinkType
    BY ClearedKeeps DEF TypeOK
  <2> QED BY <2>1, <2>2, FailedKeeps
<1>3. [kind |-> "submit", uid |-> n.uid, chal |-> m.chal, blobs |-> Legs(m)] \in TaskType
  BY <1>1 DEF TypeOK, LinkType, TaskType
<1>4. tasks' \subseteq TaskType
  BY <1>3 DEF TypeOK, NResponse
<1> QED BY <1>2, <1>4 DEF TypeOK, NResponse

LEMMA AnswerTyped ==
  ASSUME TypeOK, NEW c \in Nat, NEW code \in {"Success", "AuthUnavailable"},
         NEW blobs \in Seq(BlobType)
  PROVE  Answer(c, code, blobs) \subseteq MessageType
BY DEF TypeOK, AdapterType, Answer, MessageType

LEMMA NewAgentTyped ==
  ASSUME TypeOK, NEW q \in Seq(RequestType), NEW registered \in BOOLEAN,
         NEW tokens \in [Issuers -> Nat]
  PROVE  /\ NewAgent(a, q, registered, tokens) \in AdapterType
         /\ NewAgent(a, q, registered, tokens).sess = a.sess
         /\ NewAgent(a, q, registered, tokens).idp = a.idp
         /\ NewAgent(a, q, registered, tokens).store = NoTokens
         /\ NewAgent(a, q, registered, tokens).queue = Disown(q, tokens)
<1>1. Disown(q, tokens) \in Seq(RequestType)
  BY DisownKeeps
<1>2. NoTokens \in [Issuers -> Nat]
  BY DEF NoTokens, NoToken
<1> QED BY <1>1, <1>2 DEF NewAgent, TypeOK, AdapterType

LEMMA NoTokensTyped == NoTokens \in [Issuers -> Nat]
BY DEF NoTokens, NoToken

LEMMA RequestStepTyped ==
  ASSUME TypeOK, NEW m \in net, NEW signed, ARequest(m, signed)
  PROVE  TypeOK'
<1> DEFINE q == AbortWait(a.queue)
<1>1. q \in Seq(RequestType)
  BY AbortWaitKeeps DEF TypeOK, AdapterType
<1>2. m \in MessageType /\ m.chal \in Nat
  BY DEF TypeOK, MessageType
<1> HIDE DEF q
<1>3. [a EXCEPT !.queue = q] \in AdapterType
  BY <1>1 DEF TypeOK, AdapterType
<1>4. Answer(m.chal, "AuthUnavailable", <<>>) \subseteq MessageType
  <2>1. <<>> \in Seq(BlobType)
    OBVIOUS
  <2> QED BY <1>2, <2>1, AnswerTyped
<1>5. Answer(m.chal, "Success", DeviceLeg(m.chal)) \subseteq MessageType
  BY <1>2, AnswerTyped, CredentialRequestTyped
<1>6. NewAgent(a, q, FALSE, NoTokens) \in AdapterType
  BY <1>1, NewAgentTyped, NoTokensTyped
<1>7. a.idp # None => [a EXCEPT !.queue = Append(q, CredentialRequest(m.chal))] \in AdapterType
  <2>1. a.idp # None => CredentialRequest(m.chal) \in RequestType
    BY <1>2, CredentialRequestTyped
  <2>2. a.idp # None => Append(q, CredentialRequest(m.chal)) \in Seq(RequestType)
    BY <1>1, <2>1
  <2> QED BY <2>2 DEF TypeOK, AdapterType
<1>8. net \ {m} \subseteq MessageType
  BY DEF TypeOK
<1>9. a' \in AdapterType /\ net' \subseteq MessageType
  BY <1>3, <1>4, <1>5, <1>6, <1>7, <1>8 DEF ARequest, q
<1> QED BY <1>9 DEF TypeOK, ARequest

LEMMA BridgeReplyTyped ==
  ASSUME TypeOK, ABridgeReply
  PROVE  TypeOK'
<1> DEFINE r == Head(a.queue)
<1>1. a.queue \in Seq(RequestType) /\ a.queue # <<>>
  BY DEF TypeOK, AdapterType, ABridgeReply
<1>2. r \in RequestType /\ Tail(a.queue) \in Seq(RequestType)
  BY <1>1
<1>3. r.chal \in Nat
  BY <1>2 DEF RequestType
<1> HIDE DEF r
<1>4. PICK res \in RefreshCredential(TokenFor(r)) \cup {Err("Timeout")} :
        /\ net' = net \cup IF AgentResponse(res) = "Ok"
                           THEN Answer(r.chal, "Success", Append(r.legs, UserLeg(r)))
                           ELSE Answer(r.chal, "AuthUnavailable", <<>>)
        /\ a' = [a EXCEPT !.queue = Tail(@), !.store = AnswerStore(r, res)]
  BY DEF ABridgeReply, r
<1>5. Append(r.legs, UserLeg(r)) \in Seq(BlobType) /\ AnswerStore(r, res) \in [Issuers -> Nat]
  BY <1>2, RequestTyped
<1>6. Answer(r.chal, "Success", Append(r.legs, UserLeg(r))) \subseteq MessageType
  BY <1>3, <1>5, AnswerTyped
<1>7. Answer(r.chal, "AuthUnavailable", <<>>) \subseteq MessageType
  <2>1. <<>> \in Seq(BlobType)
    OBVIOUS
  <2> QED BY <1>3, <2>1, AnswerTyped
<1>8. net' \subseteq MessageType
  BY <1>4, <1>6, <1>7 DEF TypeOK
<1>9. a' \in AdapterType
  BY <1>2, <1>4, <1>5 DEF TypeOK, AdapterType
<1> QED BY <1>8, <1>9 DEF TypeOK, ABridgeReply

LEMMA TypeInit == Init => TypeOK
<1> SUFFICES ASSUME Init PROVE TypeOK
  OBVIOUS
<1>1. n \in LinkType
  BY DEF Init, NoLink, LinkType
<1>2. <<>> \in Seq(RequestType)
  OBVIOUS
<1>3. a \in AdapterType
  BY <1>2, NoTokensTyped DEF Init, AdapterType
<1> QED BY <1>1, <1>3 DEF Init, TypeOK

LEMMA TypeStep == TypeOK /\ [Next]_vars => TypeOK'
<1> SUFFICES ASSUME TypeOK, [Next]_vars PROVE TypeOK'
  OBVIOUS
<1>1. ASSUME NEW ns \in (SUBSET Namespaces) \ {{}}, NEW iss \in Issuers, NEW known \in BOOLEAN,
             NEW res \in LoginFlow, NDock(ns, iss, known, res)
      PROVE  TypeOK'
  <2>1. n.uid + 1 \in Nat
    BY DEF TypeOK, LinkType
  <2>2. n' \in LinkType
    BY <1>1, <2>1 DEF NDock, NewLink, NoLink, LinkType
  <2>3. AfterLoginFor(iss, res, n.uid + 1) \in [Issuers -> Nat]
    BY <2>1, StoreTyped
  <2>4. a' \in AdapterType
    BY <1>1, <2>1, <2>3 DEF NDock, TypeOK, AdapterType
  <2> QED BY <1>1, <2>2, <2>4 DEF NDock, TypeOK
<1>2. ASSUME NEW iss \in Issuers, NEW res \in LoginFlow, ALogin(iss, res) PROVE TypeOK'
  <2>1. StrayLogin \in Nat
    BY RenewalAssumption DEF StrayLogin
  <2>2. AfterLoginFor(iss, res, StrayLogin) \in [Issuers -> Nat]
    BY <2>1, StoreTyped
  <2>3. a' \in AdapterType
    BY <1>2, <2>2 DEF ALogin, TypeOK, AdapterType
  <2> QED BY <1>2, <2>3 DEF ALogin, TypeOK
<1>3. CASE NClose
  <2>1. n' \in LinkType
    <3>1. n' = [n EXCEPT !.st = "Closing"] \/ n' = [NoLink EXCEPT !.uid = n.uid]
      BY <1>3 DEF NClose
    <3>2. [n EXCEPT !.st = "Closing"] \in LinkType
      BY DEF TypeOK, LinkType
    <3>3. [NoLink EXCEPT !.uid = n.uid] \in LinkType
      BY DEF TypeOK, LinkType, NoLink
    <3> QED BY <3>1, <3>2, <3>3
  <2>2. net' \subseteq MessageType
    BY <1>3 DEF NClose, TypeOK
  <2> QED BY <1>3, <2>1, <2>2 DEF NClose, TypeOK
<1>4. CASE AClose
  <2>1. a' \in AdapterType
    BY <1>4 DEF AClose, TypeOK, AdapterType
  <2>2. net' \subseteq MessageType
    BY <1>4 DEF AClose, TypeOK
  <2> QED BY <1>4, <2>1, <2>2 DEF AClose, TypeOK
<1>5. CASE NKeepAlive
  BY <1>5, SendCredentialRequestTyped, AskNodeAgentTyped DEF NKeepAlive, RenewalDue
<1>6. CASE NRequestRenewal
  BY <1>6, SendCredentialRequestTyped DEF NRequestRenewal
<1>7. CASE NAgentChange
  <2>1. n' \in LinkType
    BY <1>7 DEF NAgentChange, TypeOK, LinkType
  <2> QED BY <1>7, <2>1 DEF NAgentChange, TypeOK
<1>8. ASSUME NEW t \in tasks, NTimer(t) PROVE TypeOK'
  <2>1. n' \in LinkType
    <3>1. n' = [Failed(n) EXCEPT !.chal = 0] \/ n' = n
      BY <1>8 DEF NTimer
    <3>2. Failed(n) \in LinkType
      BY FailedKeeps DEF TypeOK
    <3> QED BY <3>1, <3>2, ClearedKeeps DEF TypeOK
  <2> QED BY <1>8, <2>1 DEF NTimer, TypeOK
<1>9. ASSUME NEW t \in tasks, NSubmit(t) PROVE TypeOK'
  <2>1. [t EXCEPT !.kind = "reauth"] \in TaskType
    BY DEF TypeOK, TaskType
  <2>2. tasks' \subseteq TaskType
    BY <1>9, <2>1 DEF NSubmit, TypeOK
  <2> QED BY <1>9, <2>2 DEF NSubmit, TypeOK
<1>10. ASSUME NEW t \in tasks, NEW ok \in BOOLEAN, NDirectReply(t, ok) PROVE TypeOK'
  <2>1. [t EXCEPT !.kind = "reauth"] \in TaskType
    BY DEF TypeOK, TaskType
  <2>2. tasks' \subseteq TaskType
    BY <1>10, <2>1 DEF NDirectReply, TypeOK
  <2>3. n' \in LinkType
    BY <1>10 DEF NDirectReply, Failed, TypeOK, LinkType
  <2> QED BY <1>10, <2>2, <2>3 DEF NDirectReply, TypeOK
<1>11. ASSUME NEW t \in tasks, NEW ok \in BOOLEAN, NReauthorized(t, ok) PROVE TypeOK'
  <2>1. n' \in LinkType
    BY <1>11 DEF NReauthorized, Failed, Renewed, TypeOK, LinkType
  <2> QED BY <1>11, <2>1 DEF NReauthorized, TypeOK
<1>12. ASSUME NEW m \in net, NReceive(m) PROVE TypeOK'
  <2>1. m.blobs \in Seq(BlobType) /\ m.chal \in Nat
    BY DEF TypeOK, MessageType
  <2>2. net' \subseteq MessageType
    BY <1>12 DEF NReceive, TypeOK
  <2>3. CASE NResponse(m)
    BY <2>1, <2>2, <2>3, ResponseTyped
  <2>4. CASE UNCHANGED <<n, a, tasks, minted, agents>>
    BY <2>2, <2>4 DEF TypeOK
  <2> QED BY <1>12, <2>3, <2>4 DEF NReceive
<1>13. CASE NForeignResponse
  <2>1. n.chal \in Nat /\ n.chal # 0 /\ net' \subseteq MessageType
    BY <1>13 DEF NForeignResponse, TypeOK, LinkType
  <2>2. CASE NResponse([chal |-> n.chal, code |-> "Other", blobs |-> <<>>])
    <3> DEFINE m == [chal |-> n.chal, code |-> "Other", blobs |-> <<>>]
    <3>1. m.chal \in Nat /\ m.blobs \in Seq(BlobType) /\ NResponse(m)
      BY <2>1, <2>2
    <3> HIDE DEF m
    <3> QED BY <3>1, <2>1, ResponseTyped
  <2>3. ASSUME NEW bs \in AnyBlobs,
               NResponse([chal |-> n.chal, code |-> "Success", blobs |-> bs])
        PROVE  TypeOK'
    <3> DEFINE m == [chal |-> n.chal, code |-> "Success", blobs |-> bs]
    <3>1. m.chal \in Nat /\ m.blobs \in Seq(BlobType) /\ NResponse(m)
      BY <2>1, <2>3, AnyBlobsTyped
    <3> HIDE DEF m
    <3> QED BY <3>1, <2>1, ResponseTyped
  <2> QED BY <1>13, <2>2, <2>3 DEF NForeignResponse
<1>14. ASSUME NEW m \in net, NEW signed \in BOOLEAN, ARequest(m, signed) PROVE TypeOK'
  BY <1>14, RequestStepTyped
<1>15. CASE ABridgeSkip
  <2>1. Tail(a.queue) \in Seq(RequestType)
    BY <1>15 DEF ABridgeSkip, TypeOK, AdapterType
  <2>2. a' \in AdapterType
    BY <1>15, <2>1 DEF ABridgeSkip, TypeOK, AdapterType
  <2> QED BY <1>15, <2>2 DEF ABridgeSkip, TypeOK
<1>16. CASE ABridgeReply
  BY <1>16, BridgeReplyTyped
<1>17. CASE AAgentChange
  <2>1. a.queue \in Seq(RequestType) /\ a.store \in [Issuers -> Nat]
    BY DEF TypeOK, AdapterType
  <2>2. a' \in AdapterType
    BY <1>17, <2>1, NewAgentTyped, NoTokensTyped DEF AAgentChange
  <2>3. agents' \in Nat /\ UNCHANGED <<n, tasks, net, minted>>
    <3>1. (agents' = agents + 1 \/ agents' = agents) /\ UNCHANGED <<n, tasks, net, minted>>
      BY <1>17, Zenon DEF AAgentChange
    <3> QED BY <3>1 DEF TypeOK
  <2> QED BY <2>2, <2>3 DEF TypeOK
<1>18. CASE UNCHANGED vars
  BY <1>18 DEF vars, TypeOK
<1>19. CASE NDockCutShort
  <2>1. n' \in LinkType
    BY <1>19 DEF NDockCutShort, TypeOK, LinkType
  <2>2. Authorization(n.uid + 1) \in TaskType
    BY DEF Authorization, TypeOK, LinkType, TaskType
  <2> QED BY <1>19, <2>1, <2>2 DEF NDockCutShort, TypeOK
<1>20. ASSUME NEW t \in tasks, NEW ok \in BOOLEAN, NAuthorized(t, ok) PROVE TypeOK'
  <2>1. n' \in LinkType
    BY <1>20, RecordKeeps DEF NAuthorized, TypeOK
  <2> QED BY <1>20, <2>1 DEF NAuthorized, TypeOK
<1> QED
  BY <1>1, <1>2, <1>3, <1>4, <1>5, <1>6, <1>7, <1>8, <1>9, <1>10, <1>11, <1>12, <1>13, <1>14,
     <1>15, <1>16, <1>17, <1>18, <1>19, <1>20 DEF Next

\* The links, the tasks and the messages of a renewal are always well formed.
THEOREM RenewalTypeCorrect == Spec => []TypeOK
BY TypeInit, TypeStep, PTL DEF Spec

-------------------------------------------------------------------------------
(* The node's end.                                                         *)

\* What a link that goes on keeps.
SameAttempt ==
    /\ n'.live = n.live /\ n'.uid = n.uid /\ n'.ns = n.ns /\ n'.ident = n.ident
    /\ n'.inflight = n.inflight /\ n'.chal = n.chal /\ n'.cut = n.cut

LEMMA QuietKeepsAttempts ==
  ASSUME AttemptInv, SameAttempt, tasks' = tasks, minted' = minted
  PROVE  AttemptInv'
<1>1. TasksOld'
  BY DEF AttemptInv, SameAttempt, TasksOld
<1>2. TimerKept'
  BY DEF AttemptInv, SameAttempt, TimerKept
<1>3. Outstanding' = Outstanding
  BY DEF SameAttempt, Outstanding
<1>4. OneEnd'
  BY <1>3 DEF AttemptInv, SameAttempt, OneEnd
<1>5. SubmittedProven'
  BY DEF AttemptInv, SameAttempt, SubmittedProven
<1> QED BY <1>1, <1>2, <1>4, <1>5 DEF AttemptInv

\* The credentials a task holds stay what the link needs: tasks are added without any,
\* or go on with those they had.
LEMMA SubmittedKept ==
  ASSUME SubmittedProven,
         n'.live => n.live, n'.uid = n.uid, n'.ns = n.ns, n'.ident = n.ident,
         \A t \in tasks' : \/ t \in tasks
                           \/ t.chal = 0 \/ t.kind = "timer"
                           \/ \E u \in tasks : /\ u.kind # "timer" /\ t.uid = u.uid
                                               /\ t.chal = u.chal /\ t.blobs = u.blobs
  PROVE  SubmittedProven'
<1> SUFFICES ASSUME NEW t \in tasks', n'.live, t.uid = n'.uid, t.chal # 0, t.kind # "timer"
             PROVE  /\ {b.ns : b \in t.blobs} = n'.ns
                    /\ Cardinality(t.blobs) = Cardinality(n'.ns)
                    /\ \A b \in t.blobs :
                         b.ok /\ b.chal = t.chal /\ (b.ns = "User" => b.iss = n'.ident)
  BY DEF SubmittedProven
<1>1. PICK u \in tasks : u.kind # "timer" /\ t.uid = u.uid /\ t.chal = u.chal
                         /\ t.blobs = u.blobs
  OBVIOUS
<1>2. /\ {b.ns : b \in u.blobs} = n.ns
      /\ Cardinality(u.blobs) = Cardinality(n.ns)
      /\ \A b \in u.blobs : b.ok /\ b.chal = u.chal /\ (b.ns = "User" => b.iss = n.ident)
  BY <1>1 DEF SubmittedProven
<1> QED BY <1>1, <1>2

\* A link that has just come up is not named by any task.
LEMMA DockKeepsAttempts ==
  ASSUME TypeOK, AttemptInv, NEW ns, NEW ident,
         n' = NewLink(n.uid + 1, ns, ident), tasks' = tasks, minted' = minted
  PROVE  AttemptInv'
<1>1. n'.live /\ n'.uid = n.uid + 1 /\ ~n'.inflight /\ n'.chal = 0
  BY DEF NewLink, NoLink
<1>2. n.uid \in Nat /\ minted \in Nat
  BY DEF TypeOK, LinkType
<1>3. \A t \in tasks : t.uid \in Nat /\ t.chal \in Nat
  BY DEF TypeOK, TaskType
<1>4. \A t \in tasks : t.uid < n'.uid /\ t.uid # n'.uid
  BY <1>1, <1>2, <1>3 DEF AttemptInv, TasksOld
<1>5. TasksOld'
  BY <1>1, <1>2, <1>3, <1>4 DEF AttemptInv, TasksOld
<1>6. TimerKept'
  BY <1>1 DEF AttemptInv, TimerKept
<1>7. Outstanding' = {}
  BY <1>4 DEF Outstanding
<1>8. OneEnd'
  BY <1>1, <1>7 DEF OneEnd
<1>9. SubmittedProven'
  BY <1>4 DEF SubmittedProven
<1> QED BY <1>5, <1>6, <1>8, <1>9 DEF AttemptInv

\* A freed slot has no attempt.
LEMMA CloseKeepsAttempts ==
  ASSUME TypeOK, AttemptInv, NClose
  PROVE  AttemptInv'
<1>1. CASE n' = [n EXCEPT !.st = "Closing"]
  <2>1. SameAttempt
    BY <1>1 DEF TypeOK, LinkType, SameAttempt
  <2> QED BY <2>1, QuietKeepsAttempts DEF NClose
<1>2. CASE n' = [NoLink EXCEPT !.uid = n.uid]
  <2>1. ~n'.live /\ n'.uid = n.uid /\ n'.chal = 0
    BY <1>2 DEF NoLink
  <2>2. minted' = minted /\ tasks' = tasks /\ minted \in Nat
    BY DEF NClose, TypeOK
  <2>3. TasksOld'
    BY <2>1, <2>2 DEF AttemptInv, TasksOld
  <2>4. TimerKept'
    BY <2>1, <2>2 DEF AttemptInv, TimerKept
  <2> QED BY <2>1, <2>3, <2>4 DEF AttemptInv, OneEnd, SubmittedProven
<1> QED BY <1>1, <1>2 DEF NClose

\* A link that never came up leaves a task, and the slot without an attempt.
LEMMA CutShortKeepsAttempts ==
  ASSUME TypeOK, AttemptInv, NDockCutShort
  PROVE  AttemptInv'
<1> DEFINE T == Authorization(n.uid + 1)
<1>1. /\ T.kind = "authorize" /\ T.uid = n.uid + 1 /\ T.chal = 0 /\ tasks' = tasks \cup {T}
      /\ minted' = minted /\ ~n.live
  BY DEF Authorization, NDockCutShort
<1> HIDE DEF T
<1>2. ~n'.live /\ n'.uid = n.uid + 1 /\ n'.chal = n.chal
  BY DEF TypeOK, LinkType, NDockCutShort
<1>3. n.chal = 0
  BY <1>1 DEF AttemptInv, TimerKept
<1>4. minted \in Nat /\ n.uid \in Nat /\ \A t \in tasks : t.uid \in Nat
  BY DEF TypeOK, LinkType, TaskType
<1>5. TasksOld'
  BY <1>1, <1>2, <1>4 DEF AttemptInv, TasksOld
<1>6. TimerKept'
  BY <1>1, <1>2, <1>3 DEF AttemptInv, TimerKept
<1> QED BY <1>2, <1>5, <1>6 DEF AttemptInv, OneEnd, SubmittedProven

\* An authorization that is answered ends no attempt: it clears the flag of the link in
\* the slot, and says so when there was one.
LEMMA AuthorizedKeepsAttempts ==
  ASSUME TypeOK, AttemptInv, NEW t \in tasks, NEW ok, NAuthorized(t, ok)
  PROVE  AttemptInv'
<1>1. t.kind = "authorize" /\ tasks' = tasks \ {t} /\ minted' = minted
  BY DEF NAuthorized
<1>2. /\ n'.live = n.live /\ n'.uid = n.uid /\ n'.chal = n.chal
      /\ n'.ns = n.ns /\ n'.ident = n.ident
      /\ \/ ~n'.inflight /\ n'.cut = (n.cut \/ n.inflight)
         \/ n'.inflight = n.inflight /\ n'.cut = n.cut
  BY RecordKeeps DEF TypeOK, NAuthorized
<1>3. TasksOld'
  BY <1>1, <1>2 DEF AttemptInv, TasksOld
<1>4. TimerKept'
  <2>1. ~n'.cut => ~n.cut /\ (n.inflight => n'.inflight)
    BY <1>2, Zenon
  <2> QED BY <1>1, <1>2, <2>1 DEF AttemptInv, TimerKept
<1>5. Outstanding' = Outstanding /\ t \notin Outstanding
  BY <1>1, <1>2 DEF Outstanding
<1>6. OneEnd'
  <2>1. \A x \in Outstanding : x \in tasks'
    BY <1>1, <1>5 DEF Outstanding
  <2> QED BY <1>2, <1>5, <2>1 DEF AttemptInv, OneEnd, TypeOK, LinkType
<1>7. SubmittedProven'
  BY <1>1, <1>2, SubmittedKept DEF AttemptInv
<1> QED BY <1>3, <1>4, <1>6, <1>7 DEF AttemptInv

\* A fresh challenge is answered by its own timer alone.
LEMMA SendKeepsAttempts ==
  ASSUME TypeOK, AttemptInv, n.live, ~n.inflight, SendCredentialRequest
  PROVE  AttemptInv'
<1> DEFINE T == AttemptTimer(minted + 1)
<1>1. /\ T.kind = "timer" /\ T.uid = n.uid /\ T.chal = minted + 1 /\ tasks' = tasks \cup {T}
      /\ minted' = minted + 1
  BY DEF AttemptTimer, SendCredentialRequest
<1> HIDE DEF T
<1>2. /\ n'.live /\ n'.inflight /\ n'.chal = minted + 1 /\ n'.uid = n.uid
      /\ n'.ns = n.ns /\ n'.ident = n.ident /\ n'.cut = n.cut
  BY DEF TypeOK, LinkType, SendCredentialRequest
<1>3. minted \in Nat /\ n.uid \in Nat /\ \A t \in tasks : t.chal \in Nat /\ t.uid \in Nat
  BY DEF TypeOK, LinkType, TaskType
<1>4. \A t \in tasks : t.chal <= minted /\ t.chal # minted + 1
  BY <1>3 DEF AttemptInv, TasksOld
<1>5. TasksOld'
  BY <1>1, <1>2, <1>3, <1>4 DEF AttemptInv, TasksOld
<1>6. TimerKept'
  BY <1>1, <1>2, <1>3, <1>4 DEF AttemptInv, TimerKept
<1>7. ~n.cut => Outstanding = {} /\ n.chal = 0
  BY DEF AttemptInv, OneEnd, TimerKept
<1>8. ~n.cut => \A t \in tasks : t.uid = n.uid => t.kind \in {"timer", "authorize"}
  BY <1>7 DEF Outstanding
<1>9. T \in Outstanding' /\ (~n.cut => Outstanding' = {T})
  <2>1. T \in Outstanding'
    BY <1>1, <1>2 DEF Outstanding
  <2>2. ~n.cut => \A t \in Outstanding' : t = T
    BY <1>1, <1>2, <1>4, <1>8 DEF Outstanding
  <2> QED BY <2>1, <2>2
<1>10. OneEnd'
  BY <1>1, <1>2, <1>9 DEF OneEnd
<1>11. SubmittedProven'
  BY <1>1, <1>2, SubmittedKept DEF AttemptInv
<1> QED BY <1>5, <1>6, <1>10, <1>11 DEF AttemptInv

\* The node's own agent is asked by one task.
LEMMA AskKeepsAttempts ==
  ASSUME TypeOK, AttemptInv, n.live, ~n.inflight, AskNodeAgent
  PROVE  AttemptInv'
<1>1. CASE n' = [n EXCEPT !.agent = FALSE] /\ tasks' = tasks
  <2>1. SameAttempt
    BY <1>1 DEF TypeOK, LinkType, SameAttempt
  <2> QED BY <1>1, <2>1, QuietKeepsAttempts DEF AskNodeAgent
<1>2. CASE /\ n' = [n EXCEPT !.inflight = TRUE]
           /\ tasks' = tasks \cup {[kind |-> "direct", uid |-> n.uid, chal |-> 0,
                                    blobs |-> {Blob("User", n.ident, 0, TRUE)}]}
  <2> DEFINE T == [kind |-> "direct", uid |-> n.uid, chal |-> 0,
                   blobs |-> {Blob("User", n.ident, 0, TRUE)}]
  <2>1. T.kind = "direct" /\ T.uid = n.uid /\ T.chal = 0 /\ tasks' = tasks \cup {T}
    BY <1>2
  <2> HIDE DEF T
  <2>2. /\ n'.live /\ n'.inflight /\ n'.chal = n.chal /\ n'.uid = n.uid
        /\ n'.ns = n.ns /\ n'.ident = n.ident /\ n'.cut = n.cut
    BY <1>2 DEF TypeOK, LinkType
  <2>3. minted' = minted /\ minted \in Nat /\ n.uid \in Nat
    BY DEF TypeOK, LinkType, AskNodeAgent
  <2>4. TasksOld'
    BY <2>1, <2>2, <2>3 DEF AttemptInv, TasksOld
  <2>5. ~n.cut => Outstanding = {} /\ n.chal = 0
    BY DEF AttemptInv, OneEnd, TimerKept
  <2>6. TimerKept'
    BY <2>1, <2>2 DEF AttemptInv, TimerKept
  <2>7. T \in Outstanding' /\ (~n.cut => Outstanding' = {T})
    <3>1. Outstanding' = Outstanding \cup {T}
      BY <2>1, <2>2 DEF Outstanding
    <3> QED BY <2>5, <3>1
  <2>8. OneEnd'
    BY <2>1, <2>2, <2>7 DEF OneEnd
  <2>9. SubmittedProven'
    BY <2>1, <2>2, SubmittedKept DEF AttemptInv
  <2> QED BY <2>4, <2>6, <2>8, <2>9 DEF AttemptInv
<1> QED BY <1>1, <1>2 DEF AskNodeAgent

\* A task that holds a credential for the present link will end its attempt, and is the
\* only thing left of it unless the link was cut in on.
LEMMA HolderAlone ==
  ASSUME AttemptInv, NEW t \in tasks, t.kind \notin {"timer", "authorize"}, SameLink(t)
  PROVE  /\ n.live /\ n.uid = t.uid /\ t \in Outstanding
         /\ ~n.cut => n.inflight /\ n.chal = 0 /\ Outstanding = {t}
<1>1. n.live /\ n.uid = t.uid /\ t \in Outstanding
  BY DEF SameLink, Outstanding
<1>2. ~n.cut => n.inflight /\ Outstanding = {t}
  BY <1>1 DEF AttemptInv, OneEnd
<1>3. ASSUME ~n.cut, n.chal # 0 PROVE FALSE
  <2>1. PICK u \in tasks : u.kind = "timer" /\ u.uid = n.uid /\ u.chal = n.chal
    BY <1>3 DEF AttemptInv, TimerKept
  <2>2. u \in Outstanding
    BY <2>1 DEF Outstanding
  <2> QED BY <1>2, <1>3, <2>1, <2>2
<1> QED BY <1>1, <1>2, <1>3

\* Such a task ends, and with it the attempt; one of a link that is gone just ends.
LEMMA TaskEnds ==
  ASSUME TypeOK, AttemptInv, NEW t \in tasks, t.kind \notin {"timer", "authorize"},
         tasks' = tasks \ {t}, minted' = minted,
         n' = IF SameLink(t) THEN Failed(n) ELSE n
  PROVE  AttemptInv'
<1>1. /\ n'.live = n.live /\ n'.uid = n.uid /\ n'.chal = n.chal
      /\ n'.ns = n.ns /\ n'.ident = n.ident /\ n'.cut = n.cut
  BY FailedKeeps DEF TypeOK
<1>2. TasksOld'
  BY <1>1 DEF AttemptInv, TasksOld
<1>3. SubmittedProven'
  BY <1>1, SubmittedKept DEF AttemptInv
<1>4. Outstanding' = Outstanding \ {t}
  BY <1>1 DEF Outstanding
<1>5. CASE SameLink(t)
  <2>1. (~n.cut => n.chal = 0 /\ Outstanding = {t}) /\ ~n'.inflight
    BY <1>5, HolderAlone, FailedKeeps DEF TypeOK
  <2>2. TimerKept'
    BY <1>1, <2>1 DEF AttemptInv, TimerKept
  <2>3. OneEnd'
    BY <1>1, <1>4, <2>1 DEF OneEnd
  <2> QED BY <1>2, <1>3, <2>2, <2>3 DEF AttemptInv
<1>6. CASE ~SameLink(t)
  <2>1. n' = n
    BY <1>6
  <2>2. TimerKept'
    BY <2>1 DEF AttemptInv, TimerKept
  <2>3. n.live => t \notin Outstanding
    BY <1>6 DEF SameLink, Outstanding
  <2>4. OneEnd'
    BY <1>4, <2>1, <2>3 DEF AttemptInv, OneEnd
  <2> QED BY <1>2, <1>3, <2>2, <2>4 DEF AttemptInv
<1> QED BY <1>5, <1>6

\* Such a task goes on to its call of the visa service.
LEMMA TaskGoesOn ==
  ASSUME TypeOK, AttemptInv, NEW t \in tasks, t.kind \notin {"timer", "authorize"},
         SameLink(t), tasks' = (tasks \ {t}) \cup {[t EXCEPT !.kind = "reauth"]},
         minted' = minted, n' = n
  PROVE  AttemptInv'
<1> DEFINE u == [t EXCEPT !.kind = "reauth"]
<1>1. u.kind = "reauth" /\ u.uid = t.uid /\ u.chal = t.chal /\ u.blobs = t.blobs
  BY DEF TypeOK, TaskType
<1>2. tasks' = (tasks \ {t}) \cup {u}
  OBVIOUS
<1> HIDE DEF u
<1>3. /\ n.live /\ n.uid = t.uid
      /\ ~n.cut => n.inflight /\ n.chal = 0 /\ Outstanding = {t}
  BY HolderAlone
<1>4. TasksOld'
  BY <1>1, <1>2 DEF AttemptInv, TasksOld
<1>5. TimerKept'
  BY <1>1, <1>2 DEF AttemptInv, TimerKept
<1>6. u \in Outstanding' /\ (~n.cut => Outstanding' = {u})
  <2>1. Outstanding' = (Outstanding \ {t}) \cup {u}
    BY <1>1, <1>2, <1>3 DEF Outstanding
  <2> QED BY <1>3, <2>1
<1>7. OneEnd'
  BY <1>2, <1>3, <1>6 DEF OneEnd
<1>8. SubmittedProven'
  BY <1>1, <1>2, SubmittedKept DEF AttemptInv
<1> QED BY <1>4, <1>5, <1>7, <1>8 DEF AttemptInv

\* While a challenge is stashed its timer is there to end the attempt, and nothing else
\* will unless the link was cut in on.
LEMMA TimerAlone ==
  ASSUME AttemptInv, n.chal # 0
  PROVE  \E u \in tasks : /\ u.kind = "timer" /\ u.uid = n.uid /\ u.chal = n.chal /\ n.live
                          /\ ~n.cut => Outstanding = {u} /\ n.inflight
<1>1. PICK u \in tasks : u.kind = "timer" /\ u.uid = n.uid /\ u.chal = n.chal
  BY DEF AttemptInv, TimerKept
<1>2. n.live /\ (~n.cut => n.inflight)
  BY DEF AttemptInv, TimerKept
<1>3. u \in Outstanding
  BY <1>1 DEF Outstanding
<1>4. ~n.cut => Outstanding = {u}
  BY <1>2, <1>3 DEF AttemptInv, OneEnd
<1> QED BY <1>1, <1>2, <1>4

\* When the time is up, the attempt ends if it is the stashed challenge's; any other
\* timer has nothing to end.
LEMMA TimerKeepsAttempts ==
  ASSUME TypeOK, AttemptInv, NEW t \in tasks, NTimer(t)
  PROVE  AttemptInv'
<1>0. t.kind = "timer" /\ t.chal # 0 /\ tasks' = tasks \ {t} /\ minted' = minted
  BY DEF NTimer, AttemptInv, TimerKept
<1>1. CASE SameLink(t) /\ n.chal = t.chal
  <2>1. n' = [Failed(n) EXCEPT !.chal = 0]
    BY <1>1 DEF NTimer
  <2>2. /\ n'.live = n.live /\ n'.uid = n.uid /\ n'.chal = 0 /\ ~n'.inflight
        /\ n'.ns = n.ns /\ n'.ident = n.ident /\ n'.cut = n.cut
    BY <2>1, FailedKeeps, ClearedKeeps DEF TypeOK
  <2>3. PICK u \in tasks : /\ u.kind = "timer" /\ u.uid = n.uid /\ u.chal = n.chal /\ n.live
                           /\ ~n.cut => Outstanding = {u} /\ n.inflight
    BY <1>0, <1>1, TimerAlone
  <2>4. u = t
    BY <1>0, <1>1, <2>3 DEF AttemptInv, TimerKept
  <2>5. TasksOld'
    BY <1>0, <2>2 DEF TypeOK, AttemptInv, TasksOld
  <2>6. TimerKept'
    BY <1>0, <2>2 DEF AttemptInv, TimerKept
  <2>7. ~n.cut => \A x \in tasks \ {t} :
          x.uid = n.uid => x.kind = "authorize" \/ (x.kind = "timer" /\ x.chal # 0)
    BY <2>3, <2>4 DEF Outstanding, AttemptInv, TimerKept
  <2>8. ~n.cut => Outstanding' = {}
    BY <1>0, <2>2, <2>7 DEF Outstanding
  <2>9. OneEnd'
    BY <2>2, <2>8 DEF OneEnd
  <2>10. SubmittedProven'
    BY <1>0, <2>2, SubmittedKept DEF AttemptInv
  <2> QED BY <2>5, <2>6, <2>9, <2>10 DEF AttemptInv
<1>2. CASE ~(SameLink(t) /\ n.chal = t.chal)
  <2>1. n' = n
    BY <1>2 DEF NTimer
  <2>2. TasksOld'
    BY <1>0, <2>1 DEF AttemptInv, TasksOld
  <2>3. TimerKept'
    BY <1>0, <1>2, <2>1 DEF AttemptInv, TimerKept, SameLink
  <2>4. n.live => t \notin Outstanding
    BY <1>0, <1>2 DEF Outstanding, SameLink
  <2>5. Outstanding' = Outstanding \ {t}
    BY <1>0, <2>1 DEF Outstanding
  <2>6. OneEnd'
    <3>1. n.live => Outstanding' = Outstanding
      BY <2>4, <2>5
    <3>2. n.live => \A x \in Outstanding : x \in tasks'
      BY <1>0, <2>4 DEF Outstanding
    <3> QED BY <2>1, <3>1, <3>2 DEF AttemptInv, OneEnd
  <2>7. SubmittedProven'
    BY <1>0, <2>1, SubmittedKept DEF AttemptInv
  <2> QED BY <2>2, <2>3, <2>6, <2>7 DEF AttemptInv
<1> QED BY <1>1, <1>2

\* A response that is acceptable proves each namespace of the link once.
LEMMA AcceptableProves ==
  ASSUME NEW m, m.blobs \in Seq(BlobType), Acceptable(m)
  PROVE  /\ {b.ns : b \in Legs(m)} = n.ns
         /\ Cardinality(Legs(m)) = Cardinality(n.ns)
         /\ \A b \in Legs(m) : b.ok /\ b.chal = m.chal /\ (b.ns = "User" => b.iss = n.ident)
<1> DEFINE L == Legs(m)
           f == [b \in L |-> b.ns]
<1>1. /\ {b.ns : b \in L} = n.ns /\ Cardinality(n.ns) = Len(m.blobs)
      /\ \A b \in L : b.ok /\ b.chal = m.chal /\ (b.ns = "User" => b.iss = n.ident)
  BY DEF Acceptable
<1>2. m.blobs \in Surjection(DOMAIN m.blobs, L)
  BY DEF Surjection, Legs
<1>3. DOMAIN m.blobs = 1 .. Len(m.blobs) /\ Len(m.blobs) \in Nat
  OBVIOUS
<1>4. IsFiniteSet(DOMAIN m.blobs) /\ Cardinality(DOMAIN m.blobs) = Len(m.blobs)
  BY <1>3, FS_Interval
<1>5. IsFiniteSet(L) /\ Cardinality(L) <= Len(m.blobs)
  BY <1>2, <1>4, FS_Surjection
<1> HIDE DEF L
<1>6. f \in Surjection(L, n.ns)
  BY <1>1 DEF Surjection
<1>7. IsFiniteSet(n.ns) /\ Cardinality(n.ns) <= Cardinality(L)
  BY <1>5, <1>6, FS_Surjection
<1>8. Cardinality(L) \in Nat /\ Cardinality(n.ns) \in Nat
  BY <1>5, <1>7, FS_CardinalityType
<1>9. Cardinality(L) = Cardinality(n.ns)
  BY <1>1, <1>3, <1>5, <1>7, <1>8
<1> QED BY <1>1, <1>9 DEF L

\* An answer takes the stashed challenge: from there the attempt ends with the task that
\* submits its credentials, or at once.
LEMMA ResponseKeepsAttempts ==
  ASSUME TypeOK, AttemptInv, NEW m, m.blobs \in Seq(BlobType), NResponse(m)
  PROVE  AttemptInv'
<1>1. n.chal # 0 /\ m.chal = n.chal /\ minted' = minted
  BY DEF NResponse
<1>2. PICK u \in tasks : /\ u.kind = "timer" /\ u.uid = n.uid /\ u.chal = n.chal /\ n.live
                         /\ ~n.cut => Outstanding = {u} /\ n.inflight
  BY <1>1, TimerAlone
<1>3. ~n.cut => \A x \in tasks :
        x.uid = n.uid => x.kind = "authorize" \/ (x.kind = "timer" /\ x.chal # 0)
  BY <1>2 DEF Outstanding, AttemptInv, TimerKept
<1>4. CASE n' = Failed([n EXCEPT !.chal = 0]) /\ tasks' = tasks
  <2>1. [n EXCEPT !.chal = 0] \in LinkType
    BY ClearedKeeps DEF TypeOK
  <2>2. /\ n'.live = n.live /\ n'.uid = n.uid /\ n'.chal = 0 /\ ~n'.inflight
        /\ n'.ns = n.ns /\ n'.ident = n.ident /\ n'.cut = n.cut
    BY <1>4, <2>1, FailedKeeps, ClearedKeeps DEF TypeOK
  <2>3. TasksOld'
    BY <1>1, <1>4, <2>2 DEF TypeOK, AttemptInv, TasksOld
  <2>4. TimerKept'
    BY <1>4, <2>2 DEF AttemptInv, TimerKept
  <2>5. ~n.cut => Outstanding' = {}
    BY <1>3, <1>4, <2>2 DEF Outstanding
  <2>6. OneEnd'
    BY <2>2, <2>5 DEF OneEnd
  <2>7. SubmittedProven'
    BY <1>4, <2>2, SubmittedKept DEF AttemptInv
  <2> QED BY <2>3, <2>4, <2>6, <2>7 DEF AttemptInv
<1>5. CASE /\ Acceptable(m) /\ n' = [n EXCEPT !.chal = 0]
           /\ tasks' = tasks \cup {[kind |-> "submit", uid |-> n.uid, chal |-> m.chal,
                                    blobs |-> Legs(m)]}
  <2> DEFINE T == [kind |-> "submit", uid |-> n.uid, chal |-> m.chal, blobs |-> Legs(m)]
  <2>1. /\ T.kind = "submit" /\ T.uid = n.uid /\ T.chal = n.chal /\ T.blobs = Legs(m)
        /\ tasks' = tasks \cup {T}
    BY <1>1, <1>5
  <2> HIDE DEF T
  <2>2. /\ n'.live /\ n'.uid = n.uid /\ n'.chal = 0 /\ n'.inflight = n.inflight
        /\ n'.ns = n.ns /\ n'.ident = n.ident /\ n'.cut = n.cut
    BY <1>2, <1>5, ClearedKeeps DEF TypeOK
  <2>3. TasksOld'
    BY <1>1, <2>1, <2>2 DEF TypeOK, LinkType, AttemptInv, TasksOld
  <2>4. TimerKept'
    BY <2>1, <2>2 DEF AttemptInv, TimerKept
  <2>5. T \in Outstanding' /\ (~n.cut => Outstanding' = {T})
    <3>1. T \in Outstanding'
      BY <2>1, <2>2 DEF Outstanding
    <3>2. ~n.cut => \A x \in Outstanding' : x = T
      BY <1>3, <2>1, <2>2 DEF Outstanding
    <3> QED BY <3>1, <3>2
  <2>6. OneEnd'
    BY <1>2, <2>1, <2>2, <2>5 DEF OneEnd
  <2>7. SubmittedProven'
    <3> SUFFICES ASSUME NEW t \in tasks', t.uid = n.uid, t.chal # 0, t.kind # "timer"
                 PROVE  /\ {b.ns : b \in t.blobs} = n.ns
                        /\ Cardinality(t.blobs) = Cardinality(n.ns)
                        /\ \A b \in t.blobs :
                             b.ok /\ b.chal = t.chal /\ (b.ns = "User" => b.iss = n.ident)
      BY <2>2 DEF SubmittedProven
    <3>1. CASE t = T
      BY <1>1, <1>5, <2>1, <3>1, AcceptableProves
    <3>2. CASE t \in tasks
      BY <1>2, <3>2 DEF AttemptInv, SubmittedProven
    <3> QED BY <2>1, <3>1, <3>2
  <2> QED BY <2>3, <2>4, <2>6, <2>7 DEF AttemptInv
<1> QED BY <1>4, <1>5 DEF NResponse

LEMMA AttemptInit == Init => AttemptInv
<1> SUFFICES ASSUME Init PROVE AttemptInv
  OBVIOUS
<1> QED BY DEF Init, NoLink, AttemptInv, TasksOld, TimerKept, OneEnd, SubmittedProven

LEMMA AttemptStep == TypeOK /\ AttemptInv /\ [Next]_vars => AttemptInv'
<1> SUFFICES ASSUME TypeOK, AttemptInv, [Next]_vars PROVE AttemptInv'
  OBVIOUS
<1>0. ASSUME UNCHANGED <<n, tasks, minted>> PROVE AttemptInv'
  BY <1>0, QuietKeepsAttempts DEF SameAttempt
<1>1. ASSUME NEW ns, NEW iss, NEW known, NEW res, NDock(ns, iss, known, res) PROVE AttemptInv'
  BY <1>1, DockKeepsAttempts DEF NDock
<1>2. ASSUME NEW iss, NEW res, ALogin(iss, res) PROVE AttemptInv'
  BY <1>0, <1>2 DEF ALogin
<1>3. CASE NClose
  BY <1>3, CloseKeepsAttempts
<1>4. CASE AClose
  BY <1>0, <1>4 DEF AClose
<1>5. CASE NKeepAlive
  BY <1>5, SendKeepsAttempts, AskKeepsAttempts DEF NKeepAlive, RenewalDue
<1>6. CASE NRequestRenewal
  BY <1>6, SendKeepsAttempts DEF NRequestRenewal
<1>7. CASE NAgentChange
  <2>1. SameAttempt
    BY <1>7 DEF NAgentChange, SameAttempt, TypeOK, LinkType
  <2> QED BY <1>7, <2>1, QuietKeepsAttempts DEF NAgentChange
<1>8. ASSUME NEW t \in tasks, NTimer(t) PROVE AttemptInv'
  BY <1>8, TimerKeepsAttempts
<1>9. ASSUME NEW t \in tasks, NSubmit(t) PROVE AttemptInv'
  <2>1. CASE SameLink(t)
    BY <1>9, <2>1, TaskGoesOn DEF NSubmit
  <2>2. CASE ~SameLink(t)
    <3>1. tasks' = tasks \ {t} /\ t.kind \notin {"timer", "authorize"} /\ minted' = minted /\ n' = n
      BY <1>9, <2>2 DEF NSubmit
    <3> QED BY <2>2, <3>1, TaskEnds
  <2> QED BY <2>1, <2>2
<1>10. ASSUME NEW t \in tasks, NEW ok \in BOOLEAN, NDirectReply(t, ok) PROVE AttemptInv'
  <2>1. CASE ok /\ SameLink(t)
    BY <1>10, <2>1, TaskGoesOn DEF NDirectReply
  <2>2. CASE ~(ok /\ SameLink(t))
    <3>1. /\ tasks' = tasks \ {t} /\ t.kind \notin {"timer", "authorize"} /\ minted' = minted
          /\ n' = IF SameLink(t) THEN Failed(n) ELSE n
      BY <1>10, <2>2 DEF NDirectReply
    <3> QED BY <3>1, TaskEnds
  <2> QED BY <2>1, <2>2
<1>11. ASSUME NEW t \in tasks, NEW ok \in BOOLEAN, NReauthorized(t, ok) PROVE AttemptInv'
  <2>1. /\ tasks' = tasks \ {t} /\ t.kind \notin {"timer", "authorize"} /\ minted' = minted
        /\ n' = IF SameLink(t) THEN Failed(n) ELSE n
    BY <1>11 DEF NReauthorized, Failed, Renewed
  <2> QED BY <2>1, TaskEnds
<1>12. ASSUME NEW m \in net, NReceive(m) PROVE AttemptInv'
  <2>1. m.blobs \in Seq(BlobType)
    BY DEF TypeOK, MessageType
  <2>2. CASE NResponse(m)
    BY <2>1, <2>2, ResponseKeepsAttempts
  <2> QED BY <1>0, <1>12, <2>2 DEF NReceive
<1>13. CASE NForeignResponse
  <2>1. CASE NResponse([chal |-> n.chal, code |-> "Other", blobs |-> <<>>])
    <3> DEFINE m == [chal |-> n.chal, code |-> "Other", blobs |-> <<>>]
    <3>1. m.blobs \in Seq(BlobType) /\ NResponse(m)
      BY <2>1
    <3> HIDE DEF m
    <3> QED BY <3>1, ResponseKeepsAttempts
  <2>2. ASSUME NEW bs \in AnyBlobs,
               NResponse([chal |-> n.chal, code |-> "Success", blobs |-> bs])
        PROVE  AttemptInv'
    <3> DEFINE m == [chal |-> n.chal, code |-> "Success", blobs |-> bs]
    <3>0. n.chal # 0
      BY <1>13 DEF NForeignResponse
    <3>1. m.blobs \in Seq(BlobType) /\ NResponse(m)
      BY <2>2, <3>0, AnyBlobsTyped
    <3> HIDE DEF m
    <3> QED BY <3>1, ResponseKeepsAttempts
  <2> QED BY <1>13, <2>1, <2>2 DEF NForeignResponse
<1>14. ASSUME NEW m, NEW signed, ARequest(m, signed) PROVE AttemptInv'
  BY <1>0, <1>14 DEF ARequest
<1>15. CASE ABridgeSkip
  BY <1>0, <1>15 DEF ABridgeSkip
<1>16. CASE ABridgeReply
  BY <1>0, <1>16 DEF ABridgeReply
<1>17. CASE AAgentChange
  BY <1>0, <1>17 DEF AAgentChange
<1>18. CASE UNCHANGED vars
  BY <1>0, <1>18 DEF vars
<1>19. CASE NDockCutShort
  BY <1>19, CutShortKeepsAttempts
<1>20. ASSUME NEW t \in tasks, NEW ok \in BOOLEAN, NAuthorized(t, ok) PROVE AttemptInv'
  BY <1>20, AuthorizedKeepsAttempts
<1> QED
  BY <1>1, <1>2, <1>3, <1>4, <1>5, <1>6, <1>7, <1>8, <1>9, <1>10, <1>11, <1>12, <1>13, <1>14,
     <1>15, <1>16, <1>17, <1>18, <1>19, <1>20 DEF Next

LEMMA AttemptsAlways == Spec => []AttemptInv
BY AttemptInit, AttemptStep, RenewalTypeCorrect, PTL DEF Spec

\* However ticks, requests of the visa service, late answers, time-outs and the reuse of
\* the slot interleave, renewal_in_flight is never left set with nothing to clear it; and
\* on a link that no late authorization has cut in on it is set exactly while one thing
\* is left that will clear it.
THEOREM AttemptsHaveOneEnd == Spec => []InFlightHonest
<1>1. AttemptInv => InFlightHonest
  <2> SUFFICES ASSUME AttemptInv, n.live
               PROVE  /\ n.inflight => Outstanding # {}
                      /\ ~n.cut => Cardinality(Outstanding) = IF n.inflight THEN 1 ELSE 0
    BY DEF InFlightHonest
  <2>1. n.inflight => Outstanding # {}
    BY DEF AttemptInv, OneEnd
  <2>2. ASSUME ~n.cut, n.inflight PROVE Cardinality(Outstanding) = 1
    <3>1. PICK t \in tasks : Outstanding = {t}
      BY <2>2 DEF AttemptInv, OneEnd
    <3> QED BY <3>1, FS_Singleton
  <2>3. ASSUME ~n.cut, ~n.inflight PROVE Cardinality(Outstanding) = 0
    BY <2>3, FS_EmptySet DEF AttemptInv, OneEnd
  <2> QED BY <2>1, <2>2, <2>3
<1> QED BY <1>1, AttemptsAlways, PTL

\* Whatever an adapter answers, what the node submits for a link proves each namespace
\* the link authenticated with, once, against the attempt's challenge.
THEOREM OnlyProofsSubmitted == Spec => []SubmittedProven
<1>1. AttemptInv => SubmittedProven
  BY DEF AttemptInv
<1> QED BY <1>1, AttemptsAlways, PTL

-------------------------------------------------------------------------------
(* The adapter's end.                                                      *)

LEMMA QueueTyped ==
  ASSUME TypeOK
  PROVE  /\ a.queue \in Seq(RequestType)
         /\ \A i \in DOMAIN a.queue : a.queue[i] \in RequestType /\ a.queue[i].chal \in Nat
<1>1. a.queue \in Seq(RequestType)
  BY DEF TypeOK, AdapterType
<1>2. \A i \in DOMAIN a.queue : a.queue[i] \in RequestType
  BY <1>1
<1> QED BY <1>1, <1>2 DEF RequestType

\* A step of the node that mints nothing: the outstanding challenge stays or goes.
LEMMA NodeKeepsAgents ==
  ASSUME TypeOK, AgentInv, a' = a, net' \subseteq net, minted' = minted,
         n'.uid = n.uid, n'.live => n.live, n'.chal \in {0, n.chal}
  PROVE  AgentInv'
<1>1. \A m \in net : m.chal # 0
  BY DEF AgentInv, MessagesOld, TypeOK, MessageType
<1>2. \A i \in DOMAIN a.queue : a.queue[i].chal # 0
  BY QueueTyped DEF AgentInv, MessagesOld
<1>3. MessagesOld'
  BY DEF AgentInv, MessagesOld
<1>4. OneOpen'
  BY DEF AgentInv, OneOpen
<1>5. SessionOwn'
  BY DEF AgentInv, SessionOwn
<1>6. CallsOwn'
  BY <1>2 DEF AgentInv, CallsOwn
<1>7. RenewsOwnLogin'
  BY <1>1 DEF AgentInv, RenewsOwnLogin, Legs
<1> QED BY <1>3, <1>4, <1>5, <1>6, <1>7 DEF AgentInv

\* Nothing names a fresh challenge but the request that carries it.
LEMMA SendKeepsAgents ==
  ASSUME TypeOK, AgentInv, SendCredentialRequest
  PROVE  AgentInv'
<1> DEFINE R == RenewRequest(minted + 1)
<1>1. R.to = "a" /\ R.chal = minted + 1 /\ net' = net \cup {R} /\ a' = a /\ minted' = minted + 1
  BY DEF RenewRequest, SendCredentialRequest
<1> HIDE DEF R
<1>2. n'.uid = n.uid /\ n'.chal = minted + 1 /\ n'.live = n.live
  BY DEF TypeOK, LinkType, SendCredentialRequest
<1>3. /\ minted \in Nat /\ \A m \in net : m.chal \in Nat
      /\ \A i \in DOMAIN a.queue : a.queue[i].chal \in Nat
  BY QueueTyped DEF TypeOK, MessageType
<1>4. \A m \in net : m.chal # minted + 1
  BY <1>3 DEF AgentInv, MessagesOld
<1>5. \A i \in DOMAIN a.queue : a.queue[i].chal # minted + 1
  BY <1>3 DEF AgentInv, MessagesOld
<1>6. MessagesOld'
  BY <1>1, <1>3 DEF AgentInv, MessagesOld
<1>7. OneOpen'
  BY <1>1 DEF AgentInv, OneOpen
<1>8. SessionOwn'
  BY <1>1, <1>2 DEF AgentInv, SessionOwn
<1>9. CallsOwn'
  BY <1>1, <1>2, <1>5 DEF AgentInv, CallsOwn
<1>10. RenewsOwnLogin'
  <2> SUFFICES ASSUME NEW m \in net', m.to = "n", m.chal = n'.chal PROVE FALSE
    BY DEF RenewsOwnLogin
  <2> QED BY <1>1, <1>2, <1>4
<1> QED BY <1>6, <1>7, <1>8, <1>9, <1>10 DEF AgentInv

\* A login for the link supersedes what the agent held for its issuer.
LEMMA DockKeepsAgents ==
  ASSUME TypeOK, AgentInv, NEW ns, NEW iss \in Issuers, NEW known, NEW res,
         NDock(ns, iss, known, res)
  PROVE  AgentInv'
<1>1. n'.uid = n.uid + 1 /\ n'.chal = 0 /\ net' = {} /\ minted' = minted /\ n.uid + 1 \in Nat
  BY DEF NDock, NewLink, NoLink, TypeOK, LinkType
<1>2. /\ a'.queue = a.queue /\ a'.sess = n.uid + 1
      /\ a'.idp = (IF "User" \in ns THEN iss ELSE None)
      /\ a'.store = IF "User" \in ns THEN AfterLoginFor(iss, res, n.uid + 1) ELSE a.store
  BY DEF NDock, TypeOK, AdapterType
<1>3. AfterLoginFor(iss, res, n.uid + 1)[iss] \in {NoToken, n.uid + 1}
  BY <1>1, StoreTyped DEF NDock, AfterLogin
<1>4. \A i \in DOMAIN a.queue : a.queue[i].chal # 0
  BY QueueTyped DEF AgentInv, MessagesOld
<1>5. MessagesOld'
  BY <1>1, <1>2 DEF AgentInv, MessagesOld
<1>6. OneOpen'
  BY <1>2 DEF AgentInv, OneOpen
<1>7. SessionOwn'
  BY <1>1, <1>2, <1>3 DEF SessionOwn
<1>8. CallsOwn'
  BY <1>1, <1>2, <1>4 DEF AgentInv, CallsOwn
<1>9. RenewsOwnLogin'
  BY <1>1 DEF RenewsOwnLogin
<1> QED BY <1>5, <1>6, <1>7, <1>8, <1>9 DEF AgentInv

\* Without a session nothing is asked of the agent and nothing answered.
LEMMA IdleKeepsAgents ==
  ASSUME TypeOK, AgentInv, n' = n, minted' = minted, net' \subseteq net,
         a'.sess = 0, a'.queue = a.queue
  PROVE  AgentInv'
<1>1. MessagesOld'
  BY DEF AgentInv, MessagesOld
<1>2. OneOpen'
  BY DEF AgentInv, OneOpen
<1>3. SessionOwn'
  BY DEF SessionOwn
<1>4. CallsOwn'
  BY DEF AgentInv, CallsOwn
<1>5. RenewsOwnLogin'
  BY DEF AgentInv, RenewsOwnLogin, Legs
<1> QED BY <1>1, <1>2, <1>3, <1>4, <1>5 DEF AgentInv

\* The calls after a step of the adapter within its session: each is an old one, perhaps
\* with its wait aborted or moved up, an old one disowned, or a new one.
OldCall(r, s) ==
    /\ r.chal = s.chal /\ r.legs = s.legs /\ r.iss = s.iss /\ (r.open => s.open)
    /\ \/ r.own = s.own /\ r.token = s.token
       \/ s.own /\ ~r.own /\ r.token \in {NoToken, a.store[s.iss]}

NewCall(r) ==
    /\ 1 <= r.chal /\ r.chal <= minted /\ r.own /\ a.idp # None /\ r.iss = a.idp
    /\ \A b \in DOMAIN r.legs : r.legs[b].ns = "Device"

\* An answer of the adapter under its session.
OwnAnswer(m) ==
    /\ 1 <= m.chal /\ m.chal <= minted
    /\ n.live /\ m.chal = n.chal => \A b \in Legs(m) : b.ns = "User" => b.login = n.uid

LEMMA AdapterKeepsAgents ==
  ASSUME TypeOK, TypeOK', AgentInv, n' = n, minted' = minted,
         a'.sess = a.sess, a'.idp = a.idp,
         \A i \in Issuers : a'.store[i] \in {NoToken, a.store[i]},
         \A i \in DOMAIN a'.queue :
             \/ NewCall(a'.queue[i])
             \/ \E j \in DOMAIN a.queue : OldCall(a'.queue[i], a.queue[j]),
         \A m \in net' : m \in net \/ OwnAnswer(m),
         OneOpen'
  PROVE  AgentInv'
<1>1. MessagesOld'
  <2>1. ASSUME NEW m \in net' PROVE 1 <= m.chal /\ m.chal <= minted
    BY <2>1 DEF AgentInv, MessagesOld, OwnAnswer
  <2>2. ASSUME NEW i \in DOMAIN a'.queue
        PROVE  1 <= a'.queue[i].chal /\ a'.queue[i].chal <= minted
    BY <2>2 DEF AgentInv, MessagesOld, OldCall, NewCall
  <2> QED BY <2>1, <2>2 DEF MessagesOld
<1>2. SessionOwn'
  <2>1. a.idp # None => a.idp \in Issuers
    BY DEF TypeOK, AdapterType
  <2> QED BY <2>1 DEF AgentInv, SessionOwn
<1>3. CallsOwn'
  <2> SUFFICES ASSUME NEW i \in DOMAIN a'.queue
               PROVE  /\ \A b \in DOMAIN a'.queue[i].legs : a'.queue[i].legs[b].ns = "Device"
                      /\ n.live /\ a'.sess # 0 /\ a'.queue[i].chal = n.chal =>
                           /\ ~a'.queue[i].own => a'.queue[i].token \in {NoToken, n.uid}
                           /\ a'.queue[i].own => a'.idp # None /\ a'.queue[i].iss = a'.idp
    BY DEF CallsOwn
  <2> DEFINE r == a'.queue[i]
  <2>1. CASE NewCall(r)
    BY <2>1 DEF NewCall
  <2>2. ASSUME NEW j \in DOMAIN a.queue, OldCall(r, a.queue[j])
        PROVE  /\ \A b \in DOMAIN r.legs : r.legs[b].ns = "Device"
               /\ n.live /\ a.sess # 0 /\ r.chal = n.chal =>
                    /\ ~r.own => r.token \in {NoToken, n.uid}
                    /\ r.own => a.idp # None /\ r.iss = a.idp
    <3> DEFINE s == a.queue[j]
    <3>1. /\ \A b \in DOMAIN s.legs : s.legs[b].ns = "Device"
          /\ n.live /\ a.sess # 0 /\ s.chal = n.chal =>
               /\ ~s.own => s.token \in {NoToken, n.uid}
               /\ s.own => a.idp # None /\ s.iss = a.idp
      BY DEF AgentInv, CallsOwn
    <3>2. n.live /\ a.sess # 0 /\ a.idp # None => a.store[a.idp] \in {NoToken, n.uid}
      BY DEF AgentInv, SessionOwn
    <3>3. OldCall(r, s)
      BY <2>2
    <3> HIDE DEF r, s
    <3> QED BY <3>1, <3>2, <3>3 DEF OldCall
  <2> HIDE DEF r
  <2>3. /\ \A b \in DOMAIN r.legs : r.legs[b].ns = "Device"
        /\ n.live /\ a.sess # 0 /\ r.chal = n.chal =>
             /\ ~r.own => r.token \in {NoToken, n.uid}
             /\ r.own => a.idp # None /\ r.iss = a.idp
    <3>1. NewCall(r) \/ \E j \in DOMAIN a.queue : OldCall(r, a.queue[j])
      BY DEF r
    <3>2. CASE NewCall(r)
      BY <3>2 DEF NewCall
    <3> QED BY <2>2, <3>1, <3>2
  <2> QED BY <2>3 DEF r
<1>4. RenewsOwnLogin'
  <2> SUFFICES ASSUME NEW m \in net', n.live, m.to = "n", m.key = n.uid, m.chal = n.chal
               PROVE  \A b \in Legs(m) : b.ns = "User" => b.login = n.uid
    BY DEF RenewsOwnLogin, Legs
  <2> QED BY DEF AgentInv, RenewsOwnLogin, OwnAnswer
<1> QED BY <1>1, <1>2, <1>3, <1>4 DEF AgentInv

\* Only a refresh token makes the agent answer with a credential.
LEMMA CredentialNeedsToken ==
  ASSUME NEW token, NEW res \in RefreshCredential(token) \cup {Err("Timeout")},
         AgentResponse(res) = "Ok"
  PROVE  token # NoToken
<1>1. res.ok
  BY DEF AgentResponse, FailureReason
<1> QED BY <1>1 DEF RefreshCredential, Err

LEMMA AnswerOwn ==
  ASSUME TypeOK, NEW c, 1 <= c, c <= minted, NEW code, NEW blobs \in Seq(BlobType),
         \A b \in DOMAIN blobs : n.live /\ a.sess # 0 /\ c = n.chal /\ blobs[b].ns = "User"
                                   => blobs[b].login = n.uid,
         NEW m \in Answer(c, code, blobs)
  PROVE  OwnAnswer(m)
<1>1. a.sess # 0 /\ m.chal = c /\ m.blobs = blobs
  BY DEF Answer
<1> QED BY <1>1 DEF OwnAnswer, Legs

\* A new request aborts the waiting call, then is answered or handed to the agent.
LEMMA RequestKeepsAgents ==
  ASSUME TypeOK, TypeOK', AgentInv, NEW m \in net, NEW signed, ARequest(m, signed)
  PROVE  AgentInv'
<1> DEFINE q == AbortWait(a.queue)
<1>1. /\ q \in Seq(RequestType) /\ DOMAIN q = DOMAIN a.queue
      /\ \A i \in DOMAIN q : q[i] = [a.queue[i] EXCEPT !.open = FALSE]
  BY AbortWaitKeeps, QueueTyped
<1> HIDE DEF q
<1>2. \A i \in DOMAIN q : ~q[i].open /\ OldCall(q[i], a.queue[i]) /\ q[i] \in RequestType
  <2> SUFFICES ASSUME NEW i \in DOMAIN q
               PROVE  ~q[i].open /\ OldCall(q[i], a.queue[i]) /\ q[i] \in RequestType
    OBVIOUS
  <2>1. a.queue[i] \in RequestType /\ q[i] = [a.queue[i] EXCEPT !.open = FALSE]
        /\ q[i] \in RequestType
    BY <1>1, QueueTyped
  <2> QED BY <2>1 DEF OldCall, RequestType
<1>3. 1 <= m.chal /\ m.chal <= minted /\ m.chal \in Nat
  BY DEF AgentInv, MessagesOld, TypeOK, MessageType
<1>4. n' = n /\ minted' = minted
  BY DEF ARequest
<1>5. \A x \in Answer(m.chal, "AuthUnavailable", <<>>) : OwnAnswer(x)
  <2>1. <<>> \in Seq(BlobType) /\ DOMAIN <<>> = {}
    OBVIOUS
  <2> QED BY <1>3, <2>1, AnswerOwn
<1>6. \A x \in Answer(m.chal, "Success", DeviceLeg(m.chal)) : OwnAnswer(x)
  <2>1. /\ DeviceLeg(m.chal) \in Seq(BlobType)
        /\ \A b \in DOMAIN DeviceLeg(m.chal) : DeviceLeg(m.chal)[b].ns # "User"
    BY <1>3, CredentialRequestTyped
  <2> QED BY <1>3, <2>1, AnswerOwn
<1>7. CASE /\ a' = [a EXCEPT !.queue = q]
           /\ \A x \in net' : x \in net \/ OwnAnswer(x)
  <2>1. a'.queue = q /\ a'.sess = a.sess /\ a'.idp = a.idp /\ a'.store = a.store
    BY <1>7 DEF TypeOK, AdapterType
  <2>2. OneOpen'
    BY <1>2, <2>1 DEF OneOpen
  <2> QED BY <1>1, <1>2, <1>4, <1>7, <2>1, <2>2, AdapterKeepsAgents
<1>8. CASE /\ a' = NewAgent(a, q, FALSE, NoTokens)
           /\ \A x \in net' : x \in net \/ OwnAnswer(x)
  <2>1. /\ a'.queue = Disown(q, NoTokens) /\ a'.sess = a.sess /\ a'.idp = a.idp
        /\ a'.store = NoTokens
    BY <1>1, <1>8, NewAgentTyped, NoTokensTyped
  <2>2. \A i \in Issuers : a'.store[i] = NoToken
    BY <2>1 DEF NoTokens
  <2>3. DOMAIN a'.queue = DOMAIN a.queue
    BY <1>1, <2>1, DisownKeeps, NoTokensTyped
  <2>4. \A i \in DOMAIN a.queue : ~a'.queue[i].open /\ OldCall(a'.queue[i], a.queue[i])
    <3> SUFFICES ASSUME NEW i \in DOMAIN a.queue
                 PROVE  ~a'.queue[i].open /\ OldCall(a'.queue[i], a.queue[i])
      OBVIOUS
    <3>1. ~q[i].open /\ OldCall(q[i], a.queue[i]) /\ q[i] \in RequestType
      BY <1>1, <1>2
    <3>2. NoTokens[q[i].iss] = NoToken
      BY <3>1 DEF RequestType, NoTokens
    <3>3. a'.queue[i] = IF q[i].own THEN [q[i] EXCEPT !.own = FALSE, !.token = NoToken]
                                    ELSE q[i]
      <4>1. Disown(q, NoTokens)[i] = IF q[i].own THEN [q[i] EXCEPT !.own = FALSE,
                                                          !.token = NoTokens[q[i].iss]]
                                                ELSE q[i]
        BY <1>1, DisownKeeps, NoTokensTyped, Zenon
      <4> QED BY <2>1, <3>2, <4>1, Zenon
    <3>4. CASE ~q[i].own
      BY <3>1, <3>3, <3>4
    <3>5. CASE q[i].own
      <4> DEFINE r == q[i]
      <4>1. a'.queue[i] = [r EXCEPT !.own = FALSE, !.token = NoToken] /\ r \in RequestType
            /\ ~r.open /\ r.own /\ OldCall(r, a.queue[i])
        BY <3>1, <3>3, <3>5
      <4> HIDE DEF r
      <4>2. /\ a'.queue[i].chal = r.chal /\ a'.queue[i].legs = r.legs /\ a'.queue[i].iss = r.iss
            /\ a'.queue[i].open = r.open /\ ~a'.queue[i].own /\ a'.queue[i].token = NoToken
        BY <4>1 DEF RequestType
      <4> QED BY <4>1, <4>2 DEF OldCall
    <3> QED BY <3>4, <3>5
  <2>5. OneOpen'
    BY <2>3, <2>4 DEF OneOpen
  <2> QED BY <1>4, <1>8, <2>1, <2>2, <2>3, <2>4, <2>5, AdapterKeepsAgents
<1>9. CASE /\ a.idp # None /\ net' = net \ {m}
           /\ a' = [a EXCEPT !.queue = Append(q, CredentialRequest(m.chal))]
  <2> DEFINE r == CredentialRequest(m.chal)
  <2>1. r \in RequestType /\ NewCall(r)
    BY <1>3, <1>9, CredentialRequestTyped DEF CredentialRequest, NewCall
  <2> HIDE DEF r
  <2>2. a'.queue = Append(q, r) /\ a'.sess = a.sess /\ a'.idp = a.idp /\ a'.store = a.store
    BY <1>9 DEF TypeOK, AdapterType, r
  <2>3. /\ DOMAIN a'.queue = DOMAIN q \cup {Len(q) + 1}
        /\ \A i \in DOMAIN a'.queue : a'.queue[i] = IF i \in DOMAIN q THEN q[i] ELSE r
    BY <1>1, <2>1, <2>2
  <2>4. \A i \in DOMAIN a'.queue : i \in DOMAIN a.queue \/ i = Len(q) + 1
    BY <1>1, <2>3
  <2>5. \A i \in DOMAIN a'.queue :
           NewCall(a'.queue[i]) \/ \E j \in DOMAIN a.queue : OldCall(a'.queue[i], a.queue[j])
    BY <1>1, <1>2, <2>1, <2>3
  <2>6. OneOpen'
    BY <1>1, <1>2, <2>3, <2>4 DEF OneOpen
  <2> QED BY <1>4, <1>9, <2>2, <2>5, <2>6, AdapterKeepsAgents
<1> QED BY <1>5, <1>6, <1>7, <1>8, <1>9 DEF ARequest, q

\* The bridge takes the first call off its queue: the others move up.
LEMMA TailKeepsAgents ==
  ASSUME TypeOK, TypeOK', AgentInv, n' = n, minted' = minted,
         a'.sess = a.sess, a'.idp = a.idp, a.queue # <<>>, a'.queue = Tail(a.queue),
         \A i \in Issuers : a'.store[i] \in {NoToken, a.store[i]},
         \A m \in net' : m \in net \/ OwnAnswer(m)
  PROVE  AgentInv'
<1>1. /\ a.queue \in Seq(RequestType) /\ Len(a.queue) \in Nat
      /\ DOMAIN a.queue = 1 .. Len(a.queue)
  BY QueueTyped
<1>2. /\ DOMAIN a'.queue = 1 .. (Len(a.queue) - 1)
      /\ \A i \in DOMAIN a'.queue : i + 1 \in DOMAIN a.queue /\ a'.queue[i] = a.queue[i + 1]
  BY <1>1
<1>3. \A r : OldCall(r, r)
  BY DEF OldCall
<1>4. \A i \in DOMAIN a'.queue : \E j \in DOMAIN a.queue : OldCall(a'.queue[i], a.queue[j])
  BY <1>2, <1>3
<1>5. OneOpen'
  <2> SUFFICES ASSUME NEW i \in DOMAIN a'.queue, NEW j \in DOMAIN a'.queue,
                      a'.queue[i].open, a'.queue[j].open
               PROVE  i = j
    BY DEF OneOpen
  <2>1. i + 1 = j + 1
    BY <1>2 DEF AgentInv, OneOpen
  <2> QED BY <1>1, <1>2, <2>1
<1> QED BY <1>4, <1>5, AdapterKeepsAgents

LEMMA BridgeReplyKeepsAgents ==
  ASSUME TypeOK, TypeOK', AgentInv, ABridgeReply
  PROVE  AgentInv'
<1> DEFINE r == Head(a.queue)
<1>1. a.queue \in Seq(RequestType) /\ a.queue # <<>>
  BY QueueTyped DEF ABridgeReply
<1>2. 1 \in DOMAIN a.queue /\ r = a.queue[1] /\ r \in RequestType
  BY <1>1
<1>3. /\ 1 <= r.chal /\ r.chal <= minted /\ r.chal \in Nat
      /\ \A b \in DOMAIN r.legs : r.legs[b].ns = "Device"
      /\ n.live /\ a.sess # 0 /\ r.chal = n.chal =>
           /\ ~r.own => r.token \in {NoToken, n.uid}
           /\ r.own => a.idp # None /\ r.iss = a.idp
  BY <1>2, QueueTyped DEF AgentInv, MessagesOld, CallsOwn
<1>4. n.live /\ a.sess # 0 /\ a.idp # None => a.store[a.idp] \in {NoToken, n.uid}
  BY DEF AgentInv, SessionOwn
<1> HIDE DEF r
<1>5. PICK res \in RefreshCredential(TokenFor(r)) \cup {Err("Timeout")} :
        /\ net' = net \cup IF AgentResponse(res) = "Ok"
                           THEN Answer(r.chal, "Success", Append(r.legs, UserLeg(r)))
                           ELSE Answer(r.chal, "AuthUnavailable", <<>>)
        /\ a' = [a EXCEPT !.queue = Tail(@), !.store = AnswerStore(r, res)]
  BY DEF ABridgeReply, r
<1>6. n.live /\ a.sess # 0 /\ r.chal = n.chal => TokenFor(r) \in {NoToken, n.uid}
  BY <1>3, <1>4 DEF TokenFor
<1>7. /\ a'.sess = a.sess /\ a'.idp = a.idp /\ a'.queue = Tail(a.queue)
      /\ a'.store = AnswerStore(r, res)
  BY <1>5 DEF TypeOK, AdapterType
<1>8. \A i \in Issuers : a'.store[i] \in {NoToken, a.store[i]}
  BY <1>2, <1>7, RequestTyped
<1>9. \A m \in Answer(r.chal, "AuthUnavailable", <<>>) : OwnAnswer(m)
  <2>1. <<>> \in Seq(BlobType) /\ DOMAIN <<>> = {}
    OBVIOUS
  <2> QED BY <1>3, <2>1, AnswerOwn
<1>10. AgentResponse(res) = "Ok" =>
         \A m \in Answer(r.chal, "Success", Append(r.legs, UserLeg(r))) : OwnAnswer(m)
  <2> SUFFICES ASSUME AgentResponse(res) = "Ok"
               PROVE  \A m \in Answer(r.chal, "Success", Append(r.legs, UserLeg(r))) : OwnAnswer(m)
    OBVIOUS
  <2> DEFINE blobs == Append(r.legs, UserLeg(r))
  <2>1. TokenFor(r) # NoToken
    BY CredentialNeedsToken
  <2>2. n.live /\ a.sess # 0 /\ r.chal = n.chal => UserLeg(r).login = n.uid
    BY <1>2, <1>6, <2>1, RequestTyped
  <2>3. r.legs \in Seq(BlobType) /\ UserLeg(r) \in BlobType
    BY <1>2, RequestTyped DEF RequestType
  <2>4. \A b \in DOMAIN blobs : blobs[b] = UserLeg(r) \/ blobs[b].ns = "Device"
    BY <1>3, <2>3
  <2>5. blobs \in Seq(BlobType)
    BY <2>3
  <2> HIDE DEF blobs
  <2>6. \A b \in DOMAIN blobs : n.live /\ a.sess # 0 /\ r.chal = n.chal /\ blobs[b].ns = "User"
                                  => blobs[b].login = n.uid
    BY <2>2, <2>4
  <2>7. \A m \in Answer(r.chal, "Success", blobs) : OwnAnswer(m)
    BY <1>3, <2>5, <2>6, AnswerOwn
  <2> QED BY <2>7 DEF blobs
<1>11. \A m \in net' : m \in net \/ OwnAnswer(m)
  BY <1>5, <1>9, <1>10
<1>12. n' = n /\ minted' = minted
  BY DEF ABridgeReply
<1> QED BY <1>1, <1>7, <1>8, <1>11, <1>12, TailKeepsAgents

\* The agent is replaced or its connection dies: what it was handed is served from the
\* tokens it has, or from none.
LEMMA AgentChangeKeepsAgents ==
  ASSUME TypeOK, TypeOK', AgentInv, NEW registered \in BOOLEAN,
         NEW tokens \in {a.store, NoTokens}, a' = NewAgent(a, a.queue, registered, tokens),
         UNCHANGED <<n, tasks, net, minted>>
  PROVE  AgentInv'
<1>0. tokens \in [Issuers -> Nat]
  BY NoTokensTyped DEF TypeOK, AdapterType
<1>1. a.queue \in Seq(RequestType) /\ \A i \in DOMAIN a.queue : a.queue[i] \in RequestType
  BY QueueTyped
<1>2. /\ a'.queue = Disown(a.queue, tokens) /\ a'.sess = a.sess /\ a'.idp = a.idp
      /\ a'.store = NoTokens
  BY <1>0, <1>1, NewAgentTyped
<1>3. \A i \in Issuers : a'.store[i] = NoToken
  BY <1>2 DEF NoTokens
<1>4. DOMAIN a'.queue = DOMAIN a.queue
  BY <1>0, <1>1, <1>2, DisownKeeps
<1>5. \A i \in DOMAIN a.queue : OldCall(a'.queue[i], a.queue[i])
  <2> SUFFICES ASSUME NEW i \in DOMAIN a.queue PROVE OldCall(a'.queue[i], a.queue[i])
    OBVIOUS
  <2> DEFINE s == a.queue[i]
  <2>1. a'.queue[i] = IF s.own THEN [s EXCEPT !.own = FALSE, !.token = tokens[s.iss]] ELSE s
    <3>1. Disown(a.queue, tokens)[i] = IF s.own THEN [s EXCEPT !.own = FALSE,
                                                               !.token = tokens[s.iss]]
                                                ELSE s
      BY <1>0, <1>1, DisownKeeps, Zenon
    <3> QED BY <1>2, <3>1, Zenon
  <2>2. s \in RequestType
    BY <1>1
  <2> HIDE DEF s
  <2>3. tokens[s.iss] \in {NoToken, a.store[s.iss]}
    BY <2>2 DEF RequestType, NoTokens
  <2>4. CASE ~s.own
    BY <2>1, <2>4 DEF OldCall, s
  <2>5. CASE s.own
    <3>1. /\ a'.queue[i].chal = s.chal /\ a'.queue[i].legs = s.legs /\ a'.queue[i].iss = s.iss
          /\ a'.queue[i].open = s.open /\ ~a'.queue[i].own
          /\ a'.queue[i].token = tokens[s.iss]
      BY <2>1, <2>2, <2>5 DEF RequestType
    <3>2. OldCall(a'.queue[i], s)
      BY <2>3, <2>5, <3>1 DEF OldCall
    <3> QED BY <3>2 DEF s
  <2> QED BY <2>4, <2>5
<1>6. OneOpen'
  BY <1>4, <1>5 DEF AgentInv, OneOpen, OldCall
<1> QED BY <1>2, <1>3, <1>4, <1>5, <1>6, AdapterKeepsAgents

\* A link that never came up: nothing is asked of the agent by it.
LEMMA CutShortKeepsAgents ==
  ASSUME TypeOK, AgentInv, NDockCutShort
  PROVE  AgentInv'
<1>1. ~n'.live
  BY DEF NDockCutShort, TypeOK, LinkType
<1>2. a' = a /\ net' = net /\ minted' = minted
  BY DEF NDockCutShort
<1>3. MessagesOld' /\ OneOpen'
  BY <1>2 DEF AgentInv, MessagesOld, OneOpen
<1>4. SessionOwn' /\ RenewsOwnLogin'
  BY <1>1 DEF SessionOwn, RenewsOwnLogin
<1>5. CallsOwn'
  BY <1>1, <1>2 DEF AgentInv, CallsOwn
<1> QED BY <1>3, <1>4, <1>5 DEF AgentInv

LEMMA AgentInit == Init => AgentInv
<1> SUFFICES ASSUME Init PROVE AgentInv
  OBVIOUS
<1>1. a.sess = 0 /\ a.queue = <<>> /\ DOMAIN a.queue = {} /\ net = {}
  BY DEF Init
<1> QED
  BY <1>1 DEF AgentInv, MessagesOld, OneOpen, SessionOwn, CallsOwn, RenewsOwnLogin

LEMMA AgentStep == TypeOK /\ TypeOK' /\ AgentInv /\ [Next]_vars => AgentInv'
<1> SUFFICES ASSUME TypeOK, TypeOK', AgentInv, [Next]_vars PROVE AgentInv'
  OBVIOUS
<1>0. n \in LinkType
  BY DEF TypeOK
<1>1. ASSUME NEW ns, NEW iss \in Issuers, NEW known, NEW res, NDock(ns, iss, known, res)
      PROVE  AgentInv'
  BY <1>1, DockKeepsAgents
<1>2. ASSUME NEW iss, NEW res, ALogin(iss, res) PROVE AgentInv'
  <2>1. a'.sess = 0 /\ a'.queue = a.queue
    BY <1>2 DEF ALogin, TypeOK, AdapterType
  <2> QED BY <1>2, <2>1, IdleKeepsAgents DEF ALogin
<1>3. CASE NClose
  <2>1. n'.uid = n.uid /\ (n'.live => n.live) /\ n'.chal \in {0, n.chal}
    BY <1>0, <1>3 DEF NClose, NoLink, LinkType
  <2>2. net' \subseteq net
    BY <1>3 DEF NClose
  <2> QED BY <1>3, <2>1, <2>2, NodeKeepsAgents DEF NClose
<1>4. CASE AClose
  <2>1. a'.sess = 0 /\ a'.queue = a.queue /\ net' \subseteq net
    BY <1>4 DEF AClose, TypeOK, AdapterType
  <2> QED BY <1>4, <2>1, IdleKeepsAgents DEF AClose
<1>5. CASE NKeepAlive
  <2>1. CASE SendCredentialRequest
    BY <2>1, SendKeepsAgents
  <2>2. CASE AskNodeAgent
    <3>1. n'.uid = n.uid /\ n'.live = n.live /\ n'.chal = n.chal
      BY <1>0, <2>2 DEF AskNodeAgent, LinkType
    <3> QED BY <2>2, <3>1, NodeKeepsAgents DEF AskNodeAgent
  <2> QED BY <1>5, <2>1, <2>2 DEF NKeepAlive
<1>6. CASE NRequestRenewal
  BY <1>6, SendKeepsAgents DEF NRequestRenewal
<1>7. CASE NAgentChange
  <2>1. n'.uid = n.uid /\ n'.live = n.live /\ n'.chal = n.chal
    BY <1>0, <1>7 DEF NAgentChange, LinkType
  <2> QED BY <1>7, <2>1, NodeKeepsAgents DEF NAgentChange
<1>8. ASSUME NEW t \in tasks, NTimer(t) PROVE AgentInv'
  <2>1. n' = n \/ n' = [Failed(n) EXCEPT !.chal = 0]
    BY <1>8 DEF NTimer
  <2>2. n'.uid = n.uid /\ n'.live = n.live /\ n'.chal \in {0, n.chal}
    <3>1. Failed(n) \in LinkType
      BY <1>0, FailedKeeps
    <3>2. CASE n' = [Failed(n) EXCEPT !.chal = 0]
      BY <1>0, <3>1, <3>2, FailedKeeps, ClearedKeeps
    <3> QED BY <2>1, <3>2
  <2> QED BY <1>8, <2>2, NodeKeepsAgents DEF NTimer
<1>9. ASSUME NEW t \in tasks, NSubmit(t) PROVE AgentInv'
  BY <1>9, NodeKeepsAgents DEF NSubmit
<1>10. ASSUME NEW t \in tasks, NEW ok \in BOOLEAN, NDirectReply(t, ok) PROVE AgentInv'
  <2>1. n' = n \/ n' = Failed(n)
    BY <1>10 DEF NDirectReply
  <2>2. n'.uid = n.uid /\ n'.live = n.live /\ n'.chal = n.chal
    BY <1>0, <2>1, FailedKeeps
  <2> QED BY <1>10, <2>2, NodeKeepsAgents DEF NDirectReply
<1>11. ASSUME NEW t \in tasks, NEW ok \in BOOLEAN, NReauthorized(t, ok) PROVE AgentInv'
  <2>1. n' = n \/ n' = Failed(n)
    BY <1>11 DEF NReauthorized, Failed, Renewed
  <2>2. n'.uid = n.uid /\ n'.live = n.live /\ n'.chal = n.chal
    BY <1>0, <2>1, FailedKeeps
  <2> QED BY <1>11, <2>2, NodeKeepsAgents DEF NReauthorized
<1>12. ASSUME NEW m, NResponse(m), net' \subseteq net PROVE AgentInv'
  <2>1. n' = Failed([n EXCEPT !.chal = 0]) \/ n' = [n EXCEPT !.chal = 0]
    BY <1>12 DEF NResponse
  <2>2. [n EXCEPT !.chal = 0] \in LinkType
    BY <1>0, ClearedKeeps
  <2>3. n'.uid = n.uid /\ n'.live = n.live /\ n'.chal = 0
    <3> DEFINE c == [n EXCEPT !.chal = 0]
    <3>1. c \in LinkType /\ c.uid = n.uid /\ c.live = n.live /\ c.chal = 0
      BY <1>0, <2>2, ClearedKeeps
    <3>2. n' = Failed(c) \/ n' = c
      BY <2>1
    <3> HIDE DEF c
    <3> QED BY <3>1, <3>2, FailedKeeps
  <2> QED BY <1>12, <2>3, NodeKeepsAgents DEF NResponse
<1>13. ASSUME NEW m \in net, NReceive(m) PROVE AgentInv'
  <2>1. net' \subseteq net
    BY <1>13 DEF NReceive
  <2>2. CASE NResponse(m)
    BY <1>12, <2>1, <2>2
  <2>3. CASE UNCHANGED <<n, a, tasks, minted, agents>>
    BY <2>1, <2>3, NodeKeepsAgents
  <2> QED BY <1>13, <2>2, <2>3 DEF NReceive
<1>14. CASE NForeignResponse
  BY <1>12, <1>14 DEF NForeignResponse
<1>15. ASSUME NEW m \in net, NEW signed, ARequest(m, signed) PROVE AgentInv'
  BY <1>15, RequestKeepsAgents
<1>16. CASE ABridgeSkip
  <2>1. /\ a.queue # <<>> /\ a'.queue = Tail(a.queue) /\ a'.sess = a.sess /\ a'.idp = a.idp
        /\ a'.store = a.store
    BY <1>16 DEF ABridgeSkip, TypeOK, AdapterType
  <2> QED BY <1>16, <2>1, TailKeepsAgents DEF ABridgeSkip
<1>17. CASE ABridgeReply
  BY <1>17, BridgeReplyKeepsAgents
<1>18. CASE AAgentChange
  <2>1. \/ a' = NewAgent(a, a.queue, TRUE, a.store)
        \/ a' = NewAgent(a, a.queue, FALSE, NoTokens)
    BY <1>18, Zenon DEF AAgentChange
  <2>2. UNCHANGED <<n, tasks, net, minted>>
    BY <1>18, Zenon DEF AAgentChange
  <2> QED BY <2>1, <2>2, AgentChangeKeepsAgents
<1>19. CASE UNCHANGED vars
  BY <1>19, NodeKeepsAgents DEF vars
<1>20. CASE NDockCutShort
  BY <1>20, CutShortKeepsAgents
<1>21. ASSUME NEW t \in tasks, NEW ok \in BOOLEAN, NAuthorized(t, ok) PROVE AgentInv'
  <2>1. n' = n \/ n' = RecordAuthExpires(n)
    BY <1>21 DEF NAuthorized
  <2>2. n'.uid = n.uid /\ n'.live = n.live /\ n'.chal = n.chal
    BY <1>0, <2>1, RecordKeeps
  <2> QED BY <1>21, <2>2, NodeKeepsAgents DEF NAuthorized
<1> QED
  BY <1>1, <1>2, <1>3, <1>4, <1>5, <1>6, <1>7, <1>8, <1>9, <1>10, <1>11, <1>13, <1>14, <1>15,
     <1>16, <1>17, <1>18, <1>19, <1>20, <1>21 DEF Next

LEMMA AgentsAlways == Spec => []AgentInv
BY AgentInit, AgentStep, RenewalTypeCorrect, PTL DEF Spec

\* However requests, reconnects, time-outs and replaced agents interleave, the adapter's
\* agent never has two calls whose answer somebody waits for.
THEOREM CallsSuperseded == Spec => []OneAgentCall
<1>1. TypeOK /\ AgentInv => OneAgentCall
  <2> SUFFICES ASSUME TypeOK, AgentInv PROVE OneAgentCall
    OBVIOUS
  <2> DEFINE S == {i \in DOMAIN a.queue : a.queue[i].open}
  <2>1. \A i, j \in S : i = j
    BY DEF AgentInv, OneOpen
  <2> HIDE DEF S
  <2>2. S = {} \/ \E i : S = {i}
    BY <2>1
  <2>3. Cardinality(S) <= 1
    <3>1. CASE S = {}
      BY <3>1, FS_EmptySet
    <3>2. ASSUME NEW i, S = {i} PROVE Cardinality(S) <= 1
      <4>1. Cardinality(S) = 1
        BY <3>2, FS_Singleton
      <4> QED BY <4>1
    <3> QED BY <2>2, <3>1, <3>2
  <2> QED BY <2>3 DEF OneAgentCall, S
<1> QED BY <1>1, AgentsAlways, RenewalTypeCorrect, PTL

\* A link is renewed with the identity of the user who logged in for it: logins that no
\* link came of, reconnects, replaced agents and abandoned calls notwithstanding.
THEOREM LoginsDoNotMix == Spec => []RenewsOwnLogin
<1>1. AgentInv => RenewsOwnLogin
  BY DEF AgentInv
<1> QED BY <1>1, AgentsAlways, PTL
==============================================================================
