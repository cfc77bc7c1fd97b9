---------------------------- MODULE DockingProofs ----------------------------
(***************************************************************************)
(* Theorems about Docking, for any addresses, configurations, sessions and *)
(* interventions: what an adapter sends is about its present attempt, the  *)
(* two ends agree on the address, whatever ends a session cleans up after  *)
(* it, and an activation failure stops the link for good.                  *)
(*                                                                         *)
(* DockInv, the inductive invariant, has a part for the adapter's link, one*)
(* for the node's link and the clean-up tasks that may outlive it, one for *)
(* the visa service, and one that relates the two ends.                    *)
(***************************************************************************)
EXTENDS Docking, TLAPS

Keys == Nat \X Nat
KeyOrNone == Keys \cup {None}
AddrOrNone == Addrs \cup {None}
AaaOrNone == AaaAddrs \cup {None}
Reasons == {"none", "link", "auth", "mismatch", "activation"}
Requests == [chal : KeyOrNone, cur : BOOLEAN, open : BOOLEAN]

ALinks ==
    [live : BOOLEAN, st : States, timer : BOOLEAN, sa : KeyOrNone, km : BOOLEAN,
     sess : Nat, stowed : KeyOrNone, idp : BOOLEAN, chal : KeyOrNone, sent : KeyOrNone,
     req : Requests, late : SUBSET KeyOrNone, agent : BOOLEAN, failure : Reasons,
     shut : BOOLEAN, byop : BOOLEAN, echo : BOOLEAN, misses : Nat, local : AddrOrNone,
     aaa : AaaOrNone, carrier : BOOLEAN, tethers : BOOLEAN, drops : Nat, dones : Nat,
     old : Nat, cut : BOOLEAN, restarts : Nat, fatal : BOOLEAN]

NLinks ==
    [live : BOOLEAN, uid : Nat, st : States, timer : BOOLEAN, sa : KeyOrNone, km : BOOLEAN,
     req : Requests, addr : AddrOrNone, aaa : AaaOrNone, initauth : {"none", "sent", "acked"},
     echo : BOOLEAN, misses : Nat]

Tasks == [drops : Nat, dones : Nat, old : Nat, cut : BOOLEAN]

BlobSet == [type : {"ss", "oidc"}, chal : KeyOrNone]

\* A message travels under an association, and carries what its type says.
MsgOK(m) ==
    /\ m.key \in Keys
    /\ m.type = "helloresp" => m.v \in AaaOrNone \X BOOLEAN
    /\ m.type = "initauth" => m.v \in Keys
    /\ m.type = "grant" => m.v \in AddrOrNone
    /\ m.type = "acquire" => m.v \in (SUBSET BlobSet) \X AddrOrNone

Commands == ({"authorize"} \X Nat) \cup ({"bye"} \X Addrs)

\* Type invariant.
TypeOK ==
    /\ cfg \in Configs /\ a \in ALinks /\ n \in NLinks
    /\ nTasks \in Tasks
    /\ \A m \in net : MsgOK(m)
    /\ vs \in [q : Seq(Commands), actors : SUBSET Addrs, kept : SUBSET Addrs]
    /\ pool \subseteq AaaAddrs /\ ops \in Nat /\ uids \in Nat

-------------------------------------------------------------------------------
(* The inductive invariant.                                                *)

InSession == {"Helloing", "WaitForInitAuth", "WaitForUserAuth", "WaitForAcquire",
              "RegisterAA", "Active"}
Ending == {"Closing", "Disconnecting", "Resetting"}

\* A completion that carries the present logical clock is about the present challenge.
Attempt(l) ==
    /\ l.st \in {"RegisterAA", "Active"} => l.sent = l.chal
    /\ l.req.cur => l.req.chal = l.chal

\* The adapter's link fails to activate only after it was started.
Unstarted(l) ==
    l.sess = 0 => l.st \in {"Inactive", "Closing"} /\ l.failure # "activation"

Tethered(l) == l.carrier \/ l.tethers => l.cut \/ l.st \in {"Active", "Closing"}

\* While a clean-up task of the present attempt is under way nothing is there that it
\* would be too early for; one of an earlier attempt drops no association of this one.
ACleaning(l) ==
    /\ l.old <= l.drops + l.dones
    /\ l.drops > 0 => l.st \in {"Inactive", "Keying", "Closing"}
    /\ l.drops + l.dones > l.old =>
          ~l.carrier /\ ~l.tethers /\ l.st \in {"Inactive", "Closing"}

AKeys(l) == l.st \in InSession => l.sa \in Keys

ALinkInv(l) == Attempt(l) /\ Unstarted(l) /\ Tethered(l) /\ ACleaning(l) /\ AKeys(l)

\* The node's link, and its clean-up tasks T, which may be those of an earlier link.
NKeys(l) ==
    /\ l.live /\ l.st \in InSession => l.sa \in Keys
    /\ l.sa # None => l.sa[2] = l.uid

Early(l) ==
    /\ l.live /\ l.st \in {"Keying", "Helloing"} => l.aaa = None
    /\ l.live /\ l.st \notin Ending \cup {"Active"} => l.addr = None

NCleaning(l, T) ==
    /\ T.old <= T.drops + T.dones
    /\ l.live /\ T.drops > 0 => l.st \in Ending \cup {"Keying"}
    /\ l.live /\ T.drops + T.dones > T.old =>
          l.aaa = None /\ (cfg.vs \/ l.addr = None) /\ l.st \in Ending

NLinkInv(l, T) == NKeys(l) /\ Early(l) /\ NCleaning(l, T)

\* The visa service; the link of its own adapter is not registered with it.
VsInv == /\ cfg.vs => vs.q = <<>> /\ vs.kept = {}
         /\ nTasks.cut \/ ActorsAccounted

\* Unless a close was cut short.
AaaKept == nTasks.cut \/ AaaAccounted

\* Link instance u was granted address x, once.
GrantedTo(u, x) ==
    n.live /\ n.uid = u => n.st \in Ending \cup {"Active"} /\ (n.st = "Active" => n.addr = x)

\* The two ends: the grants under way, and the one the adapter runs on.
PairInv ==
    /\ n.uid <= uids
    /\ a.sa # None => a.sa[2] <= uids
    /\ \A m \in net : m.key[2] <= uids
    /\ \A m \in net : m.type = "grant" => GrantedTo(m.key[2], m.v)
    /\ a.st = "Active" => GrantedTo(a.sa[2], a.local)

DockInv == ALinkInv(a) /\ NLinkInv(n, nTasks) /\ AaaKept /\ VsInv /\ PairInv

-------------------------------------------------------------------------------
(* The operators on the adapter's link.                                    *)

\* What most of them leave alone.
KeptBut(l, k) ==
    /\ k.live = l.live /\ k.sa = l.sa /\ k.sess = l.sess /\ k.chal = l.chal
    /\ k.sent = l.sent /\ k.local = l.local /\ k.carrier = l.carrier
    /\ k.tethers = l.tethers /\ k.drops = l.drops /\ k.dones = l.dones
    /\ k.old = l.old /\ k.cut = l.cut /\ k.req.chal = l.req.chal

Moved(l, k, s) ==
    k \in ALinks /\ KeptBut(l, k) /\ k.failure = l.failure /\ k.st = s /\ ~k.req.cur

LEMMA MovedMoved ==
    ASSUME NEW l, NEW k, NEW j, NEW s, NEW t, Moved(l, k, s), Moved(k, j, t)
    PROVE  Moved(l, j, t)
BY DEF Moved, KeptBut

LEMMA RequestIs ==
    ASSUME NEW l, l.req \in Requests
    PROVE  /\ [l.req EXCEPT !.cur = FALSE] \in Requests
           /\ [l.req EXCEPT !.cur = FALSE].chal = l.req.chal
           /\ ~[l.req EXCEPT !.cur = FALSE].cur
BY DEF Requests

LEMMA SetStateMoves ==
    ASSUME NEW l \in ALinks, NEW s \in States PROVE Moved(l, SetState(l, s), s)
<1> DEFINE r == [l.req EXCEPT !.cur = FALSE]
<1>1. r \in Requests /\ r.chal = l.req.chal /\ ~r.cur
  BY RequestIs DEF ALinks
<1> DEFINE k == SetState(l, s)
<1>2. k = [l EXCEPT !.st = s, !.timer = FALSE, !.req = r]
  BY DEF SetState, ALinks
<1> HIDE DEF r, k
<1>3. k \in ALinks BY <1>1, <1>2 DEF ALinks
<1>4. k.req = r /\ k.st = s /\ k.failure = l.failure BY <1>2 DEF ALinks
<1>5. KeptBut(l, k) BY <1>1, <1>2, <1>4 DEF KeptBut, ALinks
<1>6. Moved(l, k, s) BY <1>1, <1>3, <1>4, <1>5 DEF Moved
<1> QED BY <1>6 DEF k

LEMMA SetTimeoutMoves ==
    ASSUME NEW l \in ALinks PROVE Moved(l, SetTimeout(l), l.st)
<1> DEFINE r == [l.req EXCEPT !.cur = FALSE]
<1>1. r \in Requests /\ r.chal = l.req.chal /\ ~r.cur
  BY RequestIs DEF ALinks
<1> DEFINE k == SetTimeout(l)
<1>2. k = [l EXCEPT !.timer = TRUE, !.req = r]
  BY DEF SetTimeout, ALinks
<1> HIDE DEF r, k
<1>3. k \in ALinks BY <1>1, <1>2 DEF ALinks
<1>4. k.req = r /\ k.st = l.st /\ k.failure = l.failure BY <1>2 DEF ALinks
<1>5. KeptBut(l, k) BY <1>1, <1>2, <1>4 DEF KeptBut, ALinks
<1>6. Moved(l, k, l.st) BY <1>1, <1>3, <1>4, <1>5 DEF Moved
<1> QED BY <1>6 DEF k

LEMMA CancelTimeoutMoves ==
    ASSUME NEW l \in ALinks PROVE Moved(l, CancelTimeout(l), l.st)
<1> DEFINE r == [l.req EXCEPT !.cur = FALSE]
<1>1. r \in Requests /\ r.chal = l.req.chal /\ ~r.cur
  BY RequestIs DEF ALinks
<1> DEFINE k == CancelTimeout(l)
<1>2. k = [l EXCEPT !.timer = FALSE, !.req = r]
  BY DEF CancelTimeout, ALinks
<1> HIDE DEF r, k
<1>3. k \in ALinks BY <1>1, <1>2 DEF ALinks
<1>4. k.req = r /\ k.st = l.st /\ k.failure = l.failure BY <1>2 DEF ALinks
<1>5. KeptBut(l, k) BY <1>1, <1>2, <1>4 DEF KeptBut, ALinks
<1>6. Moved(l, k, l.st) BY <1>1, <1>3, <1>4, <1>5 DEF Moved
<1> QED BY <1>6 DEF k

\* The same, whatever becomes of the state and the logical clock.
Like(l, k) == k \in ALinks /\ KeptBut(l, k) /\ k.failure = l.failure

\* The link is being closed, for a reason it has, or that is recorded now.
Ended(l, k, why) ==
    /\ k \in ALinks /\ KeptBut(l, k) /\ k.st = "Closing" /\ ~k.req.cur
    /\ k.failure \in {l.failure, "link", why}

LEMMA LikeMoved ==
    ASSUME NEW l, NEW k, NEW s, Moved(l, k, s) PROVE Like(l, k)
BY DEF Moved, Like

LEMMA LikeLike ==
    ASSUME NEW l, NEW k, NEW j, Like(l, k), Like(k, j) PROVE Like(l, j)
BY DEF Like, KeptBut

LEMMA LikeEnded ==
    ASSUME NEW l, NEW k, NEW j, NEW why, Like(l, k), Ended(k, j, why) PROVE Ended(l, j, why)
BY DEF Like, KeptBut, Ended

LEMMA ContinueCloseMoves ==
    ASSUME NEW l \in ALinks PROVE Moved(l, ContinueClose(l), "Closing")
<1> DEFINE c == SetState(l, "Closing")
<1>1. Moved(l, c, "Closing") BY SetStateMoves DEF States
<1> HIDE DEF c
<1>2. c \in ALinks /\ c.st = "Closing" BY <1>1 DEF Moved
<1>3. Moved(c, SetTimeout(c), "Closing") BY <1>2, SetTimeoutMoves
<1>4. Moved(l, SetTimeout(c), "Closing") BY <1>1, <1>3, MovedMoved
<1> QED BY <1>4 DEF ContinueClose, c

LEMMA RecordFailureIs ==
    ASSUME NEW l \in ALinks, NEW why \in Reasons
    PROVE  /\ RecordFailure(l, why) \in ALinks /\ KeptBut(l, RecordFailure(l, why))
           /\ RecordFailure(l, why).failure = why
BY DEF RecordFailure, KeptBut, ALinks

LEMMA AInitiateCloseEnds ==
    ASSUME NEW l \in ALinks PROVE Ended(l, AInitiateClose(l), l.failure)
<1> DEFINE fails == ~cfg.auto /\ l.st = "Error" /\ l.failure = "none"
           r == IF fails THEN RecordFailure(l, "link") ELSE l
<1>1. /\ r \in ALinks /\ KeptBut(l, r) /\ r.failure \in {l.failure, "link"}
  <2>1. CASE fails
    <3>1. r = RecordFailure(l, "link") BY <2>1
    <3>2. "link" \in Reasons BY DEF Reasons
    <3> HIDE DEF r, fails
    <3>3. r \in ALinks /\ KeptBut(l, r) /\ r.failure = "link"
      BY <3>1, <3>2, RecordFailureIs
    <3> QED BY <3>3
  <2>2. CASE ~fails
    <3>1. r = l BY <2>2
    <3> HIDE DEF r, fails
    <3> QED BY <3>1 DEF KeptBut
  <2> QED BY <2>1, <2>2
<1>2. AInitiateClose(l) = ContinueClose(r) BY DEF AInitiateClose
<1> HIDE DEF r, fails
<1>3. Moved(r, ContinueClose(r), "Closing") BY <1>1, ContinueCloseMoves
<1> QED BY <1>1, <1>2, <1>3 DEF Moved, Ended, KeptBut

\* A failure with its reason.
LEMMA AFailureEnds ==
    ASSUME NEW l \in ALinks, NEW why \in Reasons
    PROVE  Ended(l, AInitiateClose(RecordFailure(SetState(l, "Error"), why)), why)
<1> DEFINE e == SetState(l, "Error")
           r == RecordFailure(e, why)
<1>1. Moved(l, e, "Error") BY SetStateMoves DEF States
<1> HIDE DEF e
<1>2. e \in ALinks BY <1>1 DEF Moved
<1>3. r \in ALinks /\ KeptBut(e, r) /\ r.failure = why BY <1>2, RecordFailureIs
<1> HIDE DEF r
<1>4. Ended(r, AInitiateClose(r), r.failure) BY <1>3, AInitiateCloseEnds
<1>5. Ended(l, AInitiateClose(r), why) BY <1>1, <1>3, <1>4 DEF Moved, Ended, KeptBut
<1> QED BY <1>5 DEF r, e

LEMMA AFailEnds ==
    ASSUME NEW l \in ALinks, NEW why \in Reasons, AFail(l, why)
    PROVE  Ended(l, a', why) /\ net' = net \cup TermTo("n", l.sa)
<1> DEFINE e == SetState(l, "Error")
<1>1. Moved(l, e, "Error") BY SetStateMoves DEF States
<1>2. net' = net \cup TermTo("n", l.sa) BY DEF AFail
<1>3. CASE why = "none"
  <2>1. a' = AInitiateClose(e) BY <1>3 DEF AFail
  <2> HIDE DEF e
  <2>2. e \in ALinks BY <1>1 DEF Moved
  <2>3. Ended(e, AInitiateClose(e), e.failure) BY <2>2, AInitiateCloseEnds
  <2>4. Like(l, e) BY <1>1, LikeMoved
  <2> QED BY <1>2, <2>1, <2>3, <2>4, LikeEnded DEF Ended, Like
<1>4. CASE why # "none"
  <2>1. a' = AInitiateClose(RecordFailure(e, why)) BY <1>4 DEF AFail
  <2> QED BY <1>2, <2>1, AFailureEnds
<1> QED BY <1>3, <1>4

\* Past keying, the tasks that are left are those of earlier attempts, and wait.
LEMMA ASpent ==
    ASSUME NEW l \in ALinks, ALinkInv(l), l.st \notin {"Inactive", "Keying", "Closing"}
    PROVE  l.drops = 0 /\ l.dones = l.old
BY DEF ALinks, ALinkInv, ACleaning

LEMMA SpentCleaning ==
    ASSUME NEW l, l.drops = 0, l.dones = l.old, l.dones \in Nat PROVE ACleaning(l)
BY DEF ACleaning

\* A link that is being closed is as it should be.
LEMMA EndedInv ==
    ASSUME NEW l, NEW k, NEW why, ALinkInv(l), Ended(l, k, why),
           why = "activation" => l.sess # 0
    PROVE  ALinkInv(k)
<1> USE DEF Ended, KeptBut, ALinkInv
<1>1. Attempt(k) BY DEF Attempt
<1>2. Unstarted(k) BY DEF Unstarted
<1>3. Tethered(k) BY DEF Tethered
<1>4. ACleaning(k) BY DEF ACleaning
<1>5. AKeys(k) BY DEF AKeys, InSession
<1> QED BY <1>1, <1>2, <1>3, <1>4, <1>5

LEMMA ACleanUpInv ==
    ASSUME NEW l \in ALinks, ALinkInv(l), l.st = "Closing"
    PROVE  /\ ACleanUp(l) \in ALinks /\ ALinkInv(ACleanUp(l))
           /\ ACleanUp(l).st = "Closing" /\ ACleanUp(l).sa = l.sa
<1> DEFINE k == ACleanUp(l)
<1>1. /\ k \in ALinks /\ k.st = "Closing" /\ k.sa = l.sa /\ k.sess = l.sess
      /\ k.failure = l.failure /\ k.chal = l.chal /\ k.req = l.req
      /\ ~k.carrier /\ ~k.tethers /\ k.drops = l.drops + 1 /\ k.dones = l.dones
      /\ k.old = l.old
  <2> DEFINE d == l.drops + 1
  <2>1. d \in Nat BY DEF ALinks
  <2>2. k = [l EXCEPT !.aaa = None, !.carrier = FALSE, !.tethers = FALSE, !.drops = d]
    BY DEF ACleanUp, ALinks
  <2> HIDE DEF d, k
  <2>3. /\ k \in ALinks /\ k.st = l.st /\ k.sa = l.sa /\ k.sess = l.sess
        /\ k.failure = l.failure /\ k.chal = l.chal /\ k.req = l.req
        /\ ~k.carrier /\ ~k.tethers /\ k.drops = d /\ k.dones = l.dones /\ k.old = l.old
    BY <2>1, <2>2 DEF ALinks, AaaOrNone
  <2> QED BY <2>3 DEF d
<1> HIDE DEF k
<1>2. ALinkInv(k)
  <2>1. k.old <= k.drops + k.dones BY <1>1 DEF ALinkInv, ACleaning, ALinks
  <2> QED BY <1>1, <2>1
        DEF ALinkInv, Attempt, Unstarted, Tethered, ACleaning, AKeys, InSession
<1> QED BY <1>1, <1>2 DEF k

LEMMA ProcessStartInv ==
    ASSUME NEW l \in ALinks, ALinkInv(l), l.st = "Inactive"
    PROVE  /\ ProcessStart(l) \in ALinks /\ ALinkInv(ProcessStart(l))
           /\ ProcessStart(l).st = "Keying" /\ ProcessStart(l).sa = l.sa
<1> DEFINE c == SetState(l, "Keying")
           k == ProcessStart(l)
<1>1. Moved(l, c, "Keying") BY SetStateMoves DEF States
<1>2. k = [c EXCEPT !.failure = "none", !.km = TRUE, !.sess = @ + 1,
                    !.chal = None, !.sent = None, !.old = l.drops + l.dones]
  BY DEF ProcessStart
<1> HIDE DEF c, k
<1>3. /\ k \in ALinks /\ k.st = "Keying" /\ k.sa = l.sa /\ k.sess = l.sess + 1
      /\ k.req = c.req /\ k.carrier = l.carrier /\ k.tethers = l.tethers
      /\ k.drops = l.drops /\ k.dones = l.dones /\ k.cut = l.cut
      /\ k.old = l.drops + l.dones
  <2> DEFINE d == c.sess + 1
  <2>1. d \in Nat /\ c \in ALinks /\ d = l.sess + 1 BY <1>1 DEF Moved, KeptBut, ALinks
  <2> DEFINE b == [c EXCEPT !.failure = "none", !.km = TRUE, !.sess = d]
             o == l.drops + l.dones
  <2>2. k = [b EXCEPT !.chal = None, !.sent = None, !.old = o] BY <1>2
  <2>5. o \in Nat /\ o = c.drops + c.dones BY <1>1 DEF Moved, KeptBut, ALinks
  <2> HIDE DEF d, o
  <2>4. /\ b \in ALinks /\ b.st = c.st /\ b.sa = c.sa /\ b.sess = d
        /\ b.req = c.req /\ b.carrier = c.carrier /\ b.tethers = c.tethers
        /\ b.drops = c.drops /\ b.dones = c.dones /\ b.old = c.old /\ b.cut = c.cut
    BY <2>1 DEF ALinks, Reasons
  <2> HIDE DEF b
  <2>3. /\ k \in ALinks /\ k.st = c.st /\ k.sa = c.sa /\ k.sess = d
        /\ k.req = c.req /\ k.carrier = c.carrier /\ k.tethers = c.tethers
        /\ k.drops = c.drops /\ k.dones = c.dones /\ k.old = o /\ k.cut = c.cut
    BY <2>2, <2>4, <2>5 DEF ALinks, KeyOrNone
  <2> QED BY <1>1, <2>1, <2>3 DEF Moved, KeptBut, o
<1>4. ALinkInv(k)
  <2>1. k.carrier \/ k.tethers => k.cut BY <1>3 DEF ALinkInv, Tethered
  <2>3. ~(k.drops + k.dones > k.old) /\ k.old <= k.drops + k.dones BY <1>3 DEF ALinks
  <2>2. l.sess \in Nat /\ k.sess # 0 BY <1>3 DEF ALinks
  <2> QED BY <1>1, <1>3, <2>1, <2>2, <2>3
        DEF Moved, ALinkInv, Attempt, Unstarted, Tethered, ACleaning, AKeys, InSession
<1> QED BY <1>3, <1>4 DEF k

-------------------------------------------------------------------------------
(* What a step of the adapter must show.                                   *)

\* A message that grants nothing, under an association that exists.
Harmless(m) == MsgOK(m) /\ m.type # "grant" /\ m.key[2] <= uids

\* The network gains such messages only.
NetStep(M) == \A m \in net' : m \in M \/ Harmless(m)

AStep(k) ==
    /\ k \in ALinks /\ ALinkInv(k) /\ (k.sa # None => k.sa[2] <= uids)
    /\ k.st = "Active" => GrantedTo(k.sa[2], k.local)

AQuiet(k) ==
    /\ k \in ALinks /\ ALinkInv(k) /\ k.sa \in {a.sa, None}
    /\ k.st = "Active" => a.st = "Active" /\ k.sa = a.sa /\ k.local = a.local

LEMMA QuietStep ==
    ASSUME DockInv, NEW k, AQuiet(k) PROVE AStep(k)
BY DEF DockInv, PairInv, AQuiet, AStep

LEMMA AStepDone ==
    ASSUME TypeOK, DockInv, AStep(a'), NetStep(net), ops' \in Nat,
           UNCHANGED <<cfg, n, nTasks, vs, pool, uids>>
    PROVE  TypeOK' /\ DockInv'
<1>1. TypeOK'
  BY DEF TypeOK, AStep, NetStep, Harmless, MsgOK
<1>2. ALinkInv(a)' BY DEF AStep
<1>3. NLinkInv(n, nTasks)' /\ AaaKept' /\ VsInv'
  BY DEF DockInv, NLinkInv, NKeys, Early, NCleaning, AaaKept, AaaAccounted, VsInv,
         ActorsAccounted
<1>4. PairInv'
  <2>1. (n.uid <= uids)' BY DEF DockInv, PairInv
  <2>2. (a.sa # None => a.sa[2] <= uids)' BY DEF AStep
  <2>3. (\A m \in net : m.key[2] <= uids)' BY DEF DockInv, PairInv, NetStep, Harmless
  <2>4. (\A m \in net : m.type = "grant" => GrantedTo(m.key[2], m.v))'
    BY DEF DockInv, PairInv, NetStep, Harmless, GrantedTo
  <2>5. (a.st = "Active" => GrantedTo(a.sa[2], a.local))' BY DEF AStep, GrantedTo
  <2> QED BY <2>1, <2>2, <2>3, <2>4, <2>5 DEF PairInv
<1> QED BY <1>1, <1>2, <1>3, <1>4 DEF DockInv

LEMMA EndedQuiet ==
    ASSUME NEW l, NEW k, NEW why, ALinkInv(l), Ended(l, k, why), l.sa = a.sa,
           why = "activation" => l.sess # 0
    PROVE  AQuiet(k)
<1>1. ALinkInv(k) BY EndedInv
<1> QED BY <1>1 DEF Ended, KeptBut, AQuiet

-------------------------------------------------------------------------------
(* The messages an end sends.                                              *)

LEMMA SendSub == ASSUME NEW M PROVE Send(M) \subseteq M
BY DEF Send

LEMMA KeyNotNone == ASSUME NEW k \in Keys PROVE k # None
BY DockingAssumption DEF Keys

LEMMA KeyParts ==
    ASSUME NEW u \in Nat, NEW v \in Nat PROVE <<u, v>> \in Keys /\ <<u, v>>[2] = v
BY DEF Keys

\* A plain message, one with no contents that matter.
LEMMA PlainHarmless ==
    ASSUME NEW to, NEW type \in {"term", "termack", "hello", "m2", "initack", "refusal"},
           NEW key \in Keys, NEW v, key[2] <= uids
    PROVE  Harmless(Msg(to, type, key, v))
BY DEF Harmless, MsgOK, Msg

LEMMA TermHarmless ==
    ASSUME NEW to, NEW key \in KeyOrNone, key # None => key[2] <= uids
    PROVE  \A m \in TermTo(to, key) : Harmless(m)
<1>1. CASE key = None BY <1>1 DEF TermTo
<1>2. CASE key # None
  <2>1. Harmless(Msg(to, "term", key, None)) BY <1>2, PlainHarmless DEF KeyOrNone
  <2>2. TermTo(to, key) \subseteq {Msg(to, "term", key, None)}
    BY <1>2, SendSub DEF TermTo
  <2> QED BY <2>1, <2>2
<1> QED BY <1>1, <1>2

LEMMA NetTerm ==
    ASSUME NEW to, NEW key \in KeyOrNone, key # None => key[2] <= uids, NEW M, NEW N,
           net' \subseteq M \cup TermTo(to, key), M \subseteq N
    PROVE  NetStep(N)
BY TermHarmless DEF NetStep

LEMMA NetSame ==
    ASSUME NEW M, net' \subseteq M PROVE NetStep(M)
BY DEF NetStep

LEMMA NetOne ==
    ASSUME NEW m, Harmless(m), NEW M, NEW N, net' \subseteq M \cup Send({m}), M \subseteq N
    PROVE  NetStep(N)
BY SendSub DEF NetStep

-------------------------------------------------------------------------------
(* The steps of the adapter.                                               *)

LEMMA AFacts ==
    ASSUME TypeOK, DockInv
    PROVE  /\ a \in ALinks /\ ALinkInv(a) /\ a.sa \in KeyOrNone
           /\ (a.sa # None => a.sa[2] <= uids) /\ ops \in Nat /\ ops + 1 \in Nat
           /\ a.st \in InSession => a.sa \in Keys
BY DEF TypeOK, DockInv, PairInv, ALinks, ALinkInv, AKeys

\* The state is kept, and all that counts.
Alike(l, k) == Like(l, k) /\ k.st = l.st /\ (k.req.cur => l.req.cur)

LEMMA AlikeInv ==
    ASSUME NEW l, NEW k, ALinkInv(l), Alike(l, k) PROVE ALinkInv(k)
BY DEF ALinkInv, Attempt, Unstarted, Tethered, ACleaning, AKeys, Alike, Like, KeptBut

LEMMA AlikeQuiet ==
    ASSUME NEW k, ALinkInv(a), Alike(a, k) PROVE AQuiet(k)
<1>1. ALinkInv(k) BY AlikeInv
<1> QED BY <1>1 DEF Alike, Like, KeptBut, AQuiet

LEMMA AStartKeeps ==
    ASSUME TypeOK, DockInv, AStart PROVE TypeOK' /\ DockInv'
<1> DEFINE p == ProcessStart(a)
<1>1. PICK g \in BOOLEAN : a' = [p EXCEPT !.agent = g, !.byop = FALSE] BY DEF AStart
<1>2. /\ a.st = "Inactive" /\ ops' = ops + 1
      /\ UNCHANGED <<cfg, n, nTasks, net, vs, pool, uids>>
  BY DEF AStart
<1>3. p \in ALinks /\ ALinkInv(p) /\ p.st = "Keying" /\ p.sa = a.sa
  BY <1>2, AFacts, ProcessStartInv
<1> HIDE DEF p
<1>4. Alike(p, a') /\ a'.st = "Keying" /\ a'.sa = a.sa
  BY <1>1, <1>3 DEF Alike, Like, KeptBut, ALinks
<1>5. ALinkInv(a') BY <1>3, <1>4, AlikeInv
<1>6. AQuiet(a') BY <1>4, <1>5 DEF AQuiet, Alike, Like
<1>7. AStep(a') BY <1>6, QuietStep
<1>8. NetStep(net) BY <1>2, NetSame
<1> QED BY <1>2, <1>7, <1>8, AFacts, AStepDone

LEMMA StartedQuiet ==
    ASSUME NEW l, Alike(a, l), ALinkInv(a), a.st = "Inactive" PROVE AQuiet(ProcessStart(l))
<1>1. l \in ALinks /\ ALinkInv(l) /\ l.st = "Inactive" /\ l.sa = a.sa
  BY AlikeInv DEF Alike, Like, KeptBut
<1> DEFINE p == ProcessStart(l)
<1>2. p \in ALinks /\ ALinkInv(p) /\ p.st = "Keying" /\ p.sa = l.sa BY <1>1, ProcessStartInv
<1> HIDE DEF p
<1>3. AQuiet(p) BY <1>1, <1>2 DEF AQuiet
<1> QED BY <1>3 DEF p

LEMMA AAutoStartKeeps ==
    ASSUME TypeOK, DockInv, AAutoStart PROVE TypeOK' /\ DockInv'
<1>1. /\ a.st = "Inactive" /\ a' = ProcessStart(a)
      /\ UNCHANGED <<cfg, n, nTasks, net, vs, pool, ops, uids>>
  BY DEF AAutoStart
<1>2. Alike(a, a) BY AFacts DEF Alike, Like, KeptBut
<1>3. AQuiet(a') BY <1>1, <1>2, AFacts, StartedQuiet
<1>4. AStep(a') BY <1>3, QuietStep
<1>5. NetStep(net) BY <1>1, NetSame
<1> QED BY <1>1, <1>4, <1>5, AFacts, AStepDone

LEMMA ARestartKeeps ==
    ASSUME TypeOK, DockInv, ARestart PROVE TypeOK' /\ DockInv'
<1> DEFINE l == [a EXCEPT !.restarts = @ - 1]
<1>1. /\ a.restarts > 0 /\ UNCHANGED <<cfg, n, nTasks, net, vs, pool, ops, uids>>
      /\ a' = l \/ (a.st = "Inactive" /\ a' = ProcessStart(l))
  BY DEF ARestart
<1>2. Alike(a, l)
  <2> DEFINE d == a.restarts - 1
  <2>1. d \in Nat BY <1>1, AFacts DEF ALinks
  <2>2. l = [a EXCEPT !.restarts = d] OBVIOUS
  <2> HIDE DEF d, l
  <2> QED BY <2>1, <2>2, AFacts DEF Alike, Like, KeptBut, ALinks
<1> HIDE DEF l
<1>3. AQuiet(a') BY <1>1, <1>2, AFacts, StartedQuiet, AlikeQuiet
<1>4. AStep(a') BY <1>3, QuietStep
<1>5. NetStep(net) BY <1>1, NetSame
<1> QED BY <1>1, <1>4, <1>5, AFacts, AStepDone

LEMMA AAgentChangeKeeps ==
    ASSUME TypeOK, DockInv, AAgentChange PROVE TypeOK' /\ DockInv'
<1>1. /\ a' = [a EXCEPT !.agent = ~@] /\ ops' = ops + 1
      /\ UNCHANGED <<cfg, n, nTasks, net, vs, pool, uids>>
  BY DEF AAgentChange
<1>2. Alike(a, a')
  BY <1>1, AFacts DEF Alike, Like, KeptBut, ALinks
<1>3. AQuiet(a') BY <1>2, AFacts, AlikeQuiet
<1>4. AStep(a') BY <1>3, QuietStep
<1>5. NetStep(net) BY <1>1, NetSame
<1> QED BY <1>1, <1>4, <1>5, AFacts, AStepDone

LEMMA ATetherKeeps ==
    ASSUME TypeOK, DockInv, ATether PROVE TypeOK' /\ DockInv'
<1>1. /\ a.st = "Active" /\ a' = [a EXCEPT !.tethers = TRUE]
      /\ UNCHANGED <<cfg, n, nTasks, net, vs, pool, ops, uids>>
  BY DEF ATether
<1>2. /\ a' \in ALinks /\ a'.st = "Active" /\ a'.sa = a.sa /\ a'.local = a.local
      /\ a'.sent = a.sent /\ a'.chal = a.chal /\ a'.req = a.req /\ a'.sess = a.sess
      /\ a'.drops = a.drops /\ a'.dones = a.dones /\ a'.old = a.old /\ a'.cut = a.cut
  BY <1>1, AFacts DEF ALinks
<1>3. ALinkInv(a')
  BY <1>1, <1>2, AFacts
     DEF ALinkInv, Attempt, Unstarted, Tethered, ACleaning, AKeys, InSession
<1>4. AQuiet(a') BY <1>1, <1>2, <1>3 DEF AQuiet
<1>5. AStep(a') BY <1>4, QuietStep
<1>6. NetStep(net) BY <1>1, NetSame
<1> QED BY <1>1, <1>5, <1>6, AFacts, AStepDone

LEMMA MovedAlike ==
    ASSUME NEW l, NEW k, Moved(l, k, l.st) PROVE Alike(l, k)
BY DEF Moved, Alike, Like

LEMMA AlikeAlike ==
    ASSUME NEW l, NEW k, NEW j, Alike(l, k), Alike(k, j) PROVE Alike(l, j)
BY DEF Alike, Like, KeptBut

LEMMA AKeepAliveKeeps ==
    ASSUME TypeOK, DockInv, AKeepAlive PROVE TypeOK' /\ DockInv'
<1> DEFINE l == [a EXCEPT !.echo = FALSE, !.misses = 0]
<1>1. a' = SetTimeout(l) /\ UNCHANGED <<cfg, n, nTasks, net, vs, pool, ops, uids>>
  BY DEF AKeepAlive, EchoAnswered
<1>2. Alike(a, l) BY AFacts DEF Alike, Like, KeptBut, ALinks
<1> HIDE DEF l
<1>3. l \in ALinks BY <1>2 DEF Alike, Like
<1>4. Alike(l, a') BY <1>1, <1>3, SetTimeoutMoves, MovedAlike
<1>5. Alike(a, a') BY <1>2, <1>4, AlikeAlike
<1>6. AQuiet(a') BY <1>5, AFacts, AlikeQuiet
<1>7. AStep(a') BY <1>6, QuietStep
<1>8. NetStep(net) BY <1>1, NetSame
<1> QED BY <1>1, <1>7, <1>8, AFacts, AStepDone

LEMMA EndedStep ==
    ASSUME TypeOK, DockInv, NEW l, NEW why, Ended(l, a', why), Like(a, l),
           why = "activation" => a.sess # 0
    PROVE  AStep(a')
<1>1. Ended(a, a', why) BY LikeEnded
<1>2. AQuiet(a') BY <1>1, AFacts, EndedQuiet
<1> QED BY <1>2, QuietStep

LEMMA AStopKeeps ==
    ASSUME TypeOK, DockInv, AStop PROVE TypeOK' /\ DockInv'
<1> DEFINE l == [a EXCEPT !.byop = TRUE]
<1>1. /\ a' = AInitiateClose(l) /\ ops' = ops + 1 /\ net' = net \cup TermTo("n", a.sa)
      /\ UNCHANGED <<cfg, n, nTasks, vs, pool, uids>>
  BY DEF AStop
<1>2. Like(a, l) BY AFacts DEF Like, KeptBut, ALinks
<1> HIDE DEF l
<1>3. l \in ALinks /\ l.failure = a.failure /\ l.sess = a.sess BY <1>2 DEF Like, KeptBut
<1>4. Ended(l, a', l.failure) BY <1>1, <1>3, AInitiateCloseEnds
<1>5. a.failure = "activation" => a.sess # 0 BY AFacts DEF ALinkInv, Unstarted
<1>6. AStep(a') BY <1>2, <1>3, <1>4, <1>5, EndedStep
<1>7. NetStep(net) BY <1>1, AFacts, NetTerm
<1> QED BY <1>1, <1>6, <1>7, AFacts, AStepDone

LEMMA AShutdownKeeps ==
    ASSUME TypeOK, DockInv, AShutdown PROVE TypeOK' /\ DockInv'
<1> DEFINE l == [a EXCEPT !.shut = TRUE, !.byop = TRUE]
<1>1. /\ a' = AInitiateClose(l) /\ ops' \in {ops, ops + 1}
      /\ net' = net \cup TermTo("n", a.sa) /\ UNCHANGED <<cfg, n, nTasks, vs, pool, uids>>
  BY DEF AShutdown
<1>2. Like(a, l) BY AFacts DEF Like, KeptBut, ALinks
<1> HIDE DEF l
<1>3. l \in ALinks /\ l.failure = a.failure /\ l.sess = a.sess BY <1>2 DEF Like, KeptBut
<1>4. Ended(l, a', l.failure) BY <1>1, <1>3, AInitiateCloseEnds
<1>5. a.failure = "activation" => a.sess # 0 BY AFacts DEF ALinkInv, Unstarted
<1>6. AStep(a') BY <1>2, <1>3, <1>4, <1>5, EndedStep
<1>7. NetStep(net) BY <1>1, AFacts, NetTerm
<1>8. ops' \in Nat BY <1>1, AFacts
<1> QED BY <1>1, <1>6, <1>7, <1>8, AStepDone

LEMMA AKeyedKeeps ==
    ASSUME TypeOK, DockInv, AKeyed PROVE TypeOK' /\ DockInv'
<1> DEFINE key == <<a.sess, n.uid>>
           l == [a EXCEPT !.sa = key]
           h == SetState(l, "Helloing")
<1>1. /\ a.st = "Keying" /\ a.drops = 0 /\ a' = SetTimeout(h)
      /\ net' = Readable(net, "a", key)
                  \cup Send({Msg("n", "m2", key, None), HelloRequest(key)})
      /\ UNCHANGED <<cfg, n, nTasks, vs, pool, ops, uids>>
  BY DEF AKeyed
<1>2. key \in Keys /\ key[2] <= uids
  <2>1. a.sess \in Nat /\ n.uid \in Nat BY DEF TypeOK, ALinks, NLinks
  <2>2. n.uid <= uids BY DEF DockInv, PairInv
  <2> QED BY <2>1, <2>2, KeyParts
<1> HIDE DEF key
<1>3. NetStep(net)
  <2>1. Harmless(Msg("n", "m2", key, None)) /\ Harmless(HelloRequest(key))
    BY <1>2, PlainHarmless DEF HelloRequest
  <2> QED BY <1>1, <2>1, SendSub DEF NetStep, Readable
<1>4. /\ l \in ALinks /\ l.sa = key /\ l.sess = a.sess /\ l.drops = a.drops
      /\ l.dones = a.dones /\ l.old = a.old /\ l.cut = a.cut /\ l.carrier = a.carrier /\ l.tethers = a.tethers
  BY <1>2, AFacts DEF ALinks, KeyOrNone
<1> HIDE DEF l
<1>5. Moved(l, h, "Helloing") BY <1>4, SetStateMoves DEF States
<1> HIDE DEF h
<1>6. h \in ALinks /\ h.st = "Helloing" BY <1>5 DEF Moved
<1>7. Moved(h, a', "Helloing") BY <1>1, <1>6, SetTimeoutMoves
<1>8. Moved(l, a', "Helloing") BY <1>5, <1>7, MovedMoved
<1>9. a.drops = 0 /\ a.dones = a.old
  BY <1>1, AFacts DEF ALinks, ALinkInv, ACleaning
<1>10. (a.carrier \/ a.tethers => a.cut) /\ a.sess # 0
  BY <1>1, AFacts DEF ALinkInv, Tethered, Unstarted
<1>11. /\ a' \in ALinks /\ a'.st = "Helloing" /\ ~a'.req.cur /\ (a'.carrier \/ a'.tethers => a'.cut)
       /\ a'.sess # 0 /\ a'.drops = 0 /\ a'.dones = a'.old /\ a'.sa = key
  BY <1>4, <1>8, <1>9, <1>10 DEF Moved, KeptBut
<1>14. a'.dones \in Nat BY <1>11 DEF ALinks
<1>12. ALinkInv(a')
  BY <1>2, <1>11, <1>14, SpentCleaning DEF ALinkInv, Attempt, Unstarted, Tethered, AKeys
<1>13. AStep(a') BY <1>2, <1>11, <1>12 DEF AStep
<1> QED BY <1>1, <1>3, <1>13, AFacts, AStepDone

\* What becomes of a challenge: the agent is asked, the device answers, or the link fails.
LEMMA TakeChallengeDoes ==
    ASSUME TypeOK, DockInv, NEW l \in ALinks, ALinkInv(l), l.st = "WaitForInitAuth",
           l.sa = a.sa, NEW chal \in Keys, NEW M, TakeChallenge(l, chal, M)
    PROVE  AStep(a') /\ NetStep(M)
<1>0. /\ l.sess # 0 /\ (l.carrier \/ l.tethers => l.cut) /\ l.drops = 0 /\ l.dones = l.old
      /\ l.sa \in Keys /\ l.sa[2] <= uids
  <2>1. l.drops \in Nat /\ l.dones \in Nat /\ l.old \in Nat BY DEF ALinks
  <2>2. l.sa \in Keys BY DEF ALinkInv, AKeys, InSession
  <2>3. l.sa # None BY <2>2, KeyNotNone
  <2> QED BY <2>1, <2>2, <2>3, AFacts DEF ALinkInv, Unstarted, Tethered, ACleaning
<1>00. chal \in KeyOrNone BY DEF KeyOrNone
<1>1. CASE l.idp /\ l.agent
  <2> DEFINE c == [l EXCEPT !.chal = chal]
             u == SetState(c, "WaitForUserAuth")
             w == SetTimeout(u)
             r == [chal |-> chal, cur |-> TRUE, open |-> TRUE]
             L == IF l.req.open THEN w.late \cup {l.req.chal} ELSE w.late
  <2>1. a' = [w EXCEPT !.req = r, !.late = L] /\ net' = M
    BY <1>1 DEF TakeChallenge
  <2>2. /\ c \in ALinks /\ c.chal = chal /\ c.sa = l.sa /\ c.sess = l.sess
        /\ c.carrier = l.carrier /\ c.tethers = l.tethers
        /\ c.drops = l.drops /\ c.dones = l.dones /\ c.old = l.old /\ c.cut = l.cut
    BY <1>00 DEF ALinks
  <2> HIDE DEF c
  <2>3. Moved(c, u, "WaitForUserAuth") BY <2>2, SetStateMoves DEF States
  <2> HIDE DEF u
  <2>4. u \in ALinks /\ u.st = "WaitForUserAuth" BY <2>3 DEF Moved
  <2>5. Moved(u, w, "WaitForUserAuth") BY <2>4, SetTimeoutMoves
  <2> HIDE DEF w
  <2>6. Moved(c, w, "WaitForUserAuth") BY <2>3, <2>5, MovedMoved
  <2>7. r \in Requests /\ r.chal = chal BY <1>00 DEF Requests
  <2> HIDE DEF r
  <2>8. L \in SUBSET KeyOrNone /\ w \in ALinks
    <3>1. w \in ALinks BY <2>6 DEF Moved
    <3>2. w.late \in SUBSET KeyOrNone BY <3>1 DEF ALinks
    <3>3. l.req.chal \in KeyOrNone BY DEF ALinks, Requests
    <3> QED BY <3>1, <3>2, <3>3
  <2> HIDE DEF L
  <2>9. /\ a' \in ALinks /\ a'.st = w.st /\ a'.req = r /\ a'.chal = w.chal /\ a'.sa = w.sa
        /\ a'.sess = w.sess /\ a'.carrier = w.carrier /\ a'.tethers = w.tethers
        /\ a'.drops = w.drops /\ a'.dones = w.dones /\ a'.old = w.old /\ a'.cut = w.cut
    BY <2>1, <2>7, <2>8 DEF ALinks
  <2>10. /\ a' \in ALinks /\ a'.st = "WaitForUserAuth" /\ a'.req.chal = chal /\ a'.chal = chal
         /\ a'.sa = l.sa /\ a'.sess # 0 /\ (a'.carrier \/ a'.tethers => a'.cut)
         /\ a'.drops = 0 /\ a'.dones = a'.old
    BY <1>0, <2>2, <2>6, <2>7, <2>9 DEF Moved, KeptBut
  <2>15. a'.dones \in Nat BY <2>10 DEF ALinks
  <2>11. ALinkInv(a')
    BY <1>0, <2>10, <2>15, SpentCleaning DEF ALinkInv, Attempt, Unstarted, Tethered, AKeys
  <2>12. AStep(a') BY <1>0, <2>10, <2>11 DEF AStep
  <2> QED BY <2>1, <2>12, NetSame
<1>2. CASE ~(l.idp /\ l.agent) /\ cfg.boot
  <2> DEFINE c == [l EXCEPT !.chal = chal, !.sent = chal]
             u == SetState(c, "RegisterAA")
  <2>1. a' = SetTimeout(u) /\ net' = M \cup Send({Acquire(l, DeviceBlobs(chal))})
    BY <1>2 DEF TakeChallenge
  <2>2. /\ c \in ALinks /\ c.chal = chal /\ c.sent = chal /\ c.sa = l.sa /\ c.sess = l.sess
        /\ c.carrier = l.carrier /\ c.tethers = l.tethers
        /\ c.drops = l.drops /\ c.dones = l.dones /\ c.old = l.old /\ c.cut = l.cut
    BY <1>00 DEF ALinks
  <2> HIDE DEF c
  <2>3. Moved(c, u, "RegisterAA") BY <2>2, SetStateMoves DEF States
  <2> HIDE DEF u
  <2>4. u \in ALinks /\ u.st = "RegisterAA" BY <2>3 DEF Moved
  <2>5. Moved(u, a', "RegisterAA") BY <2>1, <2>4, SetTimeoutMoves
  <2>6. Moved(c, a', "RegisterAA") BY <2>3, <2>5, MovedMoved
  <2>10. /\ a' \in ALinks /\ a'.st = "RegisterAA" /\ ~a'.req.cur /\ a'.chal = chal
         /\ a'.sent = chal /\ a'.sa = l.sa /\ a'.sess # 0 /\ (a'.carrier \/ a'.tethers => a'.cut)
         /\ a'.drops = 0 /\ a'.dones = a'.old
    BY <1>0, <2>2, <2>6 DEF Moved, KeptBut
  <2>15. a'.dones \in Nat BY <2>10 DEF ALinks
  <2>11. ALinkInv(a')
    BY <1>0, <2>10, <2>15, SpentCleaning DEF ALinkInv, Attempt, Unstarted, Tethered, AKeys
  <2>12. AStep(a') BY <1>0, <2>10, <2>11 DEF AStep
  <2>13. Harmless(Acquire(l, DeviceBlobs(chal)))
    <3>1. DeviceBlobs(chal) \in SUBSET BlobSet
      BY <1>00 DEF DeviceBlobs, SelfSignedBlob, BlobSet
    <3>2. l.local \in AddrOrNone BY DEF ALinks
    <3> QED BY <1>0, <3>1, <3>2
          DEF Harmless, MsgOK, Acquire, AcquireZprAddressRequest, Msg
  <2>14. NetStep(M) BY <2>1, <2>13, NetOne
  <2> QED BY <2>12, <2>14
<1>3. CASE ~(l.idp /\ l.agent) /\ ~cfg.boot
  <2>1. /\ a' = AInitiateClose(RecordFailure(SetState(l, "Error"), "auth"))
        /\ net' = M \cup TermTo("n", l.sa)
    BY <1>3 DEF TakeChallenge
  <2>2. Ended(l, a', "auth") BY <2>1, AFailureEnds DEF Reasons
  <2>3. AQuiet(a') BY <2>2, EndedQuiet
  <2>4. NetStep(M) BY <2>1, <1>0, NetTerm DEF KeyOrNone
  <2> QED BY <2>3, <2>4, QuietStep
<1> QED BY <1>1, <1>2, <1>3

LEMMA NetWeaker ==
    ASSUME NEW M, NEW N, NetStep(M), \A m \in M : m \in N \/ Harmless(m) PROVE NetStep(N)
BY DEF NetStep

LEMMA SelfQuiet ==
    ASSUME TypeOK, DockInv, a' = a PROVE AStep(a')
BY AFacts DEF DockInv, PairInv, AStep

LEMMA AHelloResponseKeeps ==
    ASSUME TypeOK, DockInv, AHelloResponse PROVE TypeOK' /\ DockInv'
<1> DEFINE Answered(m) ==
             LET l == [SetState([a EXCEPT !.idp = OidcIdps(m), !.aaa = AaaAddress(m)],
                                "WaitForInitAuth") EXCEPT !.stowed = None]
             IN IF a.stowed = None
                THEN a' = l /\ net' = net \ {m}
                ELSE TakeChallenge(l, a.stowed, net \ {m})
<1> PICK m \in HelloResponses :
      /\ \/ a' = AInitiateClose(a) /\ net' = (net \ {m}) \cup TermTo("n", a.sa)
         \/ a.st = "Helloing" /\ Answered(m)
         \/ a' = a /\ net' = net \ {m}
      /\ UNCHANGED <<cfg, n, nTasks, vs, pool, ops, uids>>
  BY DEF AHelloResponse
<1>1. CASE a' = a /\ net' = net \ {m}
  BY <1>1, SelfQuiet, NetSame, AStepDone, AFacts
<1>3. CASE a' = AInitiateClose(a) /\ net' = (net \ {m}) \cup TermTo("n", a.sa)
  <2>1. Ended(a, a', a.failure) BY <1>3, AFacts, AInitiateCloseEnds
  <2>2. a.failure = "activation" => a.sess # 0 BY AFacts DEF ALinkInv, Unstarted
  <2>3. AQuiet(a') BY <2>1, <2>2, AFacts, EndedQuiet
  <2>4. NetStep(net) BY <1>3, AFacts, NetTerm
  <2> QED BY <2>3, <2>4, QuietStep, AStepDone, AFacts
<1>2. CASE a.st = "Helloing" /\ Answered(m)
  <2> DEFINE b == [a EXCEPT !.idp = OidcIdps(m), !.aaa = AaaAddress(m)]
             c == SetState(b, "WaitForInitAuth")
             l == [c EXCEPT !.stowed = None]
  <2>1. OidcIdps(m) \in BOOLEAN /\ AaaAddress(m) \in AaaOrNone
    <3>1. m \in net /\ m.type = "helloresp" BY DEF HelloResponses, To
    <3>2. m.v \in AaaOrNone \X BOOLEAN BY <3>1 DEF TypeOK, MsgOK
    <3> QED BY <3>2 DEF OidcIdps, AaaAddress
  <2>2. Like(a, b) BY <2>1, AFacts DEF Like, KeptBut, ALinks
  <2>3. IF a.stowed = None THEN a' = l /\ net' = net \ {m}
        ELSE TakeChallenge(l, a.stowed, net \ {m})
    BY <1>2
  <2> HIDE DEF b
  <2>4. b \in ALinks BY <2>2 DEF Like
  <2>5. Moved(b, c, "WaitForInitAuth") BY <2>4, SetStateMoves DEF States
  <2> HIDE DEF c
  <2>6. c \in ALinks BY <2>5 DEF Moved
  <2>7. Alike(c, l) BY <2>6 DEF Alike, Like, KeptBut, ALinks, KeyOrNone
  <2> HIDE DEF l
  <2>8. Moved(a, c, "WaitForInitAuth") BY <2>2, <2>5 DEF Moved, Like, KeptBut
  <2>9. ALinkInv(c)
    <3>1. /\ (a.carrier \/ a.tethers => a.cut) /\ a.sess # 0 /\ a.sa \in Keys /\ a.drops = 0 /\ a.dones = a.old
      BY <1>2, AFacts DEF ALinks, ALinkInv, Tethered, Unstarted, AKeys, ACleaning, InSession
    <3>2. a.dones \in Nat BY AFacts DEF ALinks
    <3> QED BY <3>1, <3>2, <2>8
          DEF Moved, KeptBut, ALinkInv, Attempt, Unstarted, Tethered, ACleaning, AKeys
  <2>10. ALinkInv(l) BY <2>7, <2>9, AlikeInv
  <2>11. l \in ALinks /\ l.st = "WaitForInitAuth" /\ l.sa = a.sa
    BY <2>7, <2>8 DEF Alike, Like, KeptBut, Moved
  <2>12. CASE a.stowed = None
    <3>1. a' = l /\ net' = net \ {m} BY <2>3, <2>12
    <3>2. AQuiet(a') BY <3>1, <2>10, <2>11 DEF AQuiet
    <3>3. NetStep(net) BY <3>1, NetSame
    <3> QED BY <3>2, <3>3, QuietStep, AStepDone, AFacts
  <2>13. CASE a.stowed # None
    <3>1. a.stowed \in Keys BY <2>13, AFacts DEF ALinks, KeyOrNone
    <3>2. TakeChallenge(l, a.stowed, net \ {m}) BY <2>3, <2>13
    <3>3. AStep(a') /\ NetStep(net \ {m})
      BY <3>1, <3>2, <2>10, <2>11, TakeChallengeDoes
    <3>4. NetStep(net) BY <3>3, NetWeaker
    <3> QED BY <3>3, <3>4, AStepDone, AFacts
  <2> QED BY <2>12, <2>13
<1> QED BY <1>1, <1>2, <1>3

LEMMA AInitAuthKeeps ==
    ASSUME TypeOK, DockInv, AInitAuth PROVE TypeOK' /\ DockInv'
<1> DEFINE N(m) == (net \ {m}) \cup Send({Msg("n", "initack", m.key, None)})
<1> PICK m \in InitAuthenticationRequests :
      /\ a.live
      /\ \/ a.st = "WaitForInitAuth" /\ TakeChallenge(a, m.v, N(m))
         \/ a.st = "Helloing" /\ a' = [a EXCEPT !.stowed = m.v] /\ net' = N(m)
         \/ a.st \notin {"WaitForInitAuth", "Helloing"} /\ a' = a /\ net' = N(m)
      /\ UNCHANGED <<cfg, n, nTasks, vs, pool, ops, uids>>
  BY DEF AInitAuth
<1>1. m \in net /\ MsgOK(m) /\ m.v \in Keys /\ m.key \in Keys /\ m.key[2] <= uids
  <2>1. m \in net /\ m.type = "initauth" BY DEF InitAuthenticationRequests, To
  <2>2. MsgOK(m) BY <2>1 DEF TypeOK
  <2> QED BY <2>1, <2>2 DEF MsgOK, DockInv, PairInv
<1>2. \A z \in N(m) : z \in net \/ Harmless(z)
  <2>1. Harmless(Msg("n", "initack", m.key, None)) BY <1>1, PlainHarmless
  <2> QED BY <2>1, SendSub
<1> HIDE DEF N
<1>3. CASE a.st = "WaitForInitAuth" /\ TakeChallenge(a, m.v, N(m))
  <2>1. AStep(a') /\ NetStep(N(m)) BY <1>1, <1>3, AFacts, TakeChallengeDoes
  <2>2. NetStep(net) BY <1>2, <2>1, NetWeaker
  <2> QED BY <2>1, <2>2, AStepDone, AFacts
<1>4. (NetStep(N(m)) /\ NetStep(net)) \/ net' # N(m) BY <1>2, NetSame, NetWeaker
<1>5. CASE a.st = "Helloing" /\ a' = [a EXCEPT !.stowed = m.v] /\ net' = N(m)
  <2>1. Alike(a, a') BY <1>1, <1>5, AFacts DEF Alike, Like, KeptBut, ALinks, KeyOrNone
  <2>2. AQuiet(a') BY <2>1, AFacts, AlikeQuiet
  <2> QED BY <1>4, <1>5, <2>2, QuietStep, AStepDone, AFacts
<1>6. CASE a' = a /\ net' = N(m)
  BY <1>4, <1>6, SelfQuiet, AStepDone, AFacts
<1> QED BY <1>3, <1>5, <1>6

LEMMA AAgentReplyKeeps ==
    ASSUME TypeOK, DockInv, AAgentReply PROVE TypeOK' /\ DockInv'
<1> DEFINE L(chal) == [a EXCEPT !.late = @ \ {chal},
                                !.req = IF @.chal = chal THEN NoReq ELSE @]
<1> PICK chal \in a.late \cup (IF a.req.open THEN {a.req.chal} ELSE {}) :
      IF ReplyCurrent(a, chal)
      THEN \/ /\ a' = AuthenticationSuccess(L(chal), chal)
              /\ net' = net \cup Send({Acquire(L(chal), DeviceBlobs(chal) \cup {OidcBlob(chal)})})
           \/ AFail(L(chal), "auth")
      ELSE a' = L(chal) /\ net' = net
  BY DEF AAgentReply
<1>0. UNCHANGED <<cfg, n, nTasks, vs, pool, ops, uids>> BY DEF AAgentReply
<1> DEFINE r == IF a.req.chal = chal THEN NoReq ELSE a.req
           K == a.late \ {chal}
           l == L(chal)
<1>1. l = [a EXCEPT !.late = K, !.req = r] OBVIOUS
<1>2. /\ r \in Requests /\ (r.cur => r = a.req) /\ (a.req.chal = chal => r = NoReq)
      /\ K \in SUBSET KeyOrNone /\ chal \in KeyOrNone
  <2>1. a.req \in Requests /\ a.late \in SUBSET KeyOrNone BY AFacts DEF ALinks
  <2>2. NoReq \in Requests /\ ~NoReq.cur BY DEF NoReq, Requests, KeyOrNone
  <2>3. a.req.chal \in KeyOrNone BY <2>1 DEF Requests
  <2> QED BY <2>1, <2>2, <2>3
<1> HIDE DEF r, K
<1>3. /\ l \in ALinks /\ l.req = r /\ l.st = a.st /\ l.sa = a.sa /\ l.sess = a.sess
      /\ l.chal = a.chal /\ l.sent = a.sent /\ l.failure = a.failure /\ l.local = a.local
      /\ l.carrier = a.carrier /\ l.tethers = a.tethers /\ l.drops = a.drops
      /\ l.dones = a.dones /\ l.old = a.old /\ l.cut = a.cut
  <2> HIDE DEF l
  <2> QED BY <1>1, <1>2, AFacts DEF ALinks
<1>4. IF ReplyCurrent(a, chal)
      THEN \/ /\ a' = AuthenticationSuccess(l, chal)
              /\ net' = net \cup Send({Acquire(l, DeviceBlobs(chal) \cup {OidcBlob(chal)})})
           \/ AFail(l, "auth")
      ELSE a' = l /\ net' = net
  OBVIOUS
<1> HIDE DEF L, l
<1>5. ALinkInv(l)
  BY <1>2, <1>3, AFacts
     DEF ALinkInv, Attempt, Unstarted, Tethered, ACleaning, AKeys, InSession
<1>6. CASE ~ReplyCurrent(a, chal)
  <2>1. a' = l /\ net' = net BY <1>4, <1>6
  <2>2. AQuiet(a') BY <2>1, <1>3, <1>5 DEF AQuiet
  <2> QED BY <1>0, <2>1, <2>2, NetSame, QuietStep, AStepDone, AFacts
<1>7. CASE ReplyCurrent(a, chal) /\ AFail(l, "auth")
  <2>1. Ended(l, a', "auth") /\ net' = net \cup TermTo("n", l.sa)
    BY <1>3, <1>7, AFailEnds DEF Reasons
  <2>2. AQuiet(a') BY <1>3, <1>5, <2>1, EndedQuiet
  <2>3. NetStep(net) BY <1>3, <2>1, AFacts, NetTerm
  <2> QED BY <1>0, <2>2, <2>3, QuietStep, AStepDone, AFacts
<1>8. CASE /\ ReplyCurrent(a, chal) /\ a' = AuthenticationSuccess(l, chal)
           /\ net' = net \cup Send({Acquire(l, DeviceBlobs(chal) \cup {OidcBlob(chal)})})
  <2> DEFINE c == [l EXCEPT !.sent = chal]
             u == SetState(c, "RegisterAA")
  <2>0. /\ chal = a.chal /\ a.sess # 0 /\ (a.carrier \/ a.tethers => a.cut)
        /\ a.drops = 0 /\ a.dones = a.old /\ a.sa \in Keys /\ a.sa[2] <= uids
    <3>1. /\ a.st \in {"RegisterAA", "WaitForUserAuth"} /\ a.req.chal = chal /\ a.req.cur
      BY <1>8 DEF ReplyCurrent
    <3>2. a.sa \in Keys BY <3>1, AFacts DEF InSession
    <3>3. a.drops = 0 /\ a.dones = a.old BY <3>1, AFacts, ASpent
    <3> QED BY <3>1, <3>2, <3>3, AFacts, KeyNotNone
          DEF ALinkInv, Attempt, Tethered, Unstarted
  <2>1. a' = SetTimeout(u) BY <1>8 DEF AuthenticationSuccess
  <2>2. /\ c \in ALinks /\ c.chal = l.chal /\ c.sent = chal /\ c.sa = l.sa
        /\ c.sess = l.sess /\ c.carrier = l.carrier /\ c.tethers = l.tethers
        /\ c.drops = l.drops /\ c.dones = l.dones /\ c.old = l.old /\ c.cut = l.cut
    BY <1>2, <1>3 DEF ALinks
  <2> HIDE DEF c
  <2>3. Moved(c, u, "RegisterAA") BY <2>2, SetStateMoves DEF States
  <2> HIDE DEF u
  <2>4. u \in ALinks /\ u.st = "RegisterAA" BY <2>3 DEF Moved
  <2>5. Moved(u, a', "RegisterAA") BY <2>1, <2>4, SetTimeoutMoves
  <2>6. Moved(c, a', "RegisterAA") BY <2>3, <2>5, MovedMoved
  <2>7. /\ a' \in ALinks /\ a'.st = "RegisterAA" /\ ~a'.req.cur /\ a'.chal = chal
        /\ a'.sent = chal /\ a'.sa = a.sa /\ a'.sess # 0 /\ (a'.carrier \/ a'.tethers => a'.cut)
        /\ a'.drops = 0 /\ a'.dones = a'.old
    BY <1>3, <2>0, <2>2, <2>6 DEF Moved, KeptBut
  <2>14. a'.dones \in Nat BY <2>7 DEF ALinks
  <2>8. ALinkInv(a')
    BY <2>0, <2>7, <2>14, SpentCleaning DEF ALinkInv, Attempt, Unstarted, Tethered, AKeys
  <2>9. AQuiet(a') BY <2>7, <2>8 DEF AQuiet
  <2> DEFINE B == DeviceBlobs(chal) \cup {OidcBlob(chal)}
  <2>10. B \in SUBSET BlobSet
    BY <1>2 DEF DeviceBlobs, SelfSignedBlob, OidcBlob, BlobSet
  <2>11. net' = net \cup Send({Acquire(l, B)}) BY <1>8
  <2> HIDE DEF B
  <2>12. Harmless(Acquire(l, B))
    <3>1. l.local \in AddrOrNone BY <1>3 DEF ALinks
    <3> QED BY <1>3, <2>0, <2>10, <3>1
          DEF Harmless, MsgOK, Acquire, AcquireZprAddressRequest, Msg
  <2>13. NetStep(net) BY <2>11, <2>12, NetOne
  <2> QED BY <1>0, <2>9, <2>13, QuietStep, AStepDone, AFacts
<1> QED BY <1>4, <1>6, <1>7, <1>8

LEMMA ConfiguredIs ==
    ASSUME NEW l \in ALinks, NEW x \in AddrOrNone
    PROVE  LET k == Configured(l, x)
           IN /\ k \in ALinks /\ k.st = "Active" /\ k.local = x /\ ~k.req.cur
              /\ k.sa = l.sa /\ k.sess = l.sess /\ k.chal = l.chal /\ k.sent = l.sent
              /\ k.drops = l.drops /\ k.dones = l.dones /\ k.old = l.old /\ k.cut = l.cut
<1> DEFINE b == SetLocalZprAddrs(l, x)
           c == [b EXCEPT !.carrier = TRUE]
           s == SetState(c, "Active")
           t == [s EXCEPT !.echo = FALSE, !.misses = 0]
           k == SetTimeout(t)
<1>1. Configured(l, x) = k BY DEF Configured, RunActive
<1>2. /\ c \in ALinks /\ c.local = x
      /\ c.sa = l.sa /\ c.sess = l.sess /\ c.chal = l.chal /\ c.sent = l.sent
      /\ c.drops = l.drops /\ c.dones = l.dones /\ c.old = l.old /\ c.cut = l.cut
  BY DEF SetLocalZprAddrs, ALinks
<1> HIDE DEF c
<1>3. Moved(c, s, "Active") BY <1>2, SetStateMoves DEF States
<1> HIDE DEF s
<1>4. s \in ALinks /\ s.st = "Active" BY <1>3 DEF Moved
<1>5. Alike(s, t) BY <1>4 DEF Alike, Like, KeptBut, ALinks
<1> HIDE DEF t
<1>6. t \in ALinks /\ t.st = "Active" BY <1>4, <1>5 DEF Alike, Like
<1>7. Moved(t, k, "Active") BY <1>6, SetTimeoutMoves
<1> HIDE DEF k
<1>8. Moved(c, k, "Active") BY <1>3, <1>5, <1>7 DEF Moved, Alike, Like, KeptBut
<1> QED BY <1>1, <1>2, <1>8 DEF Moved, KeptBut

LEMMA SignalQuiet ==
    ASSUME NEW k, AQuiet(k) PROVE AQuiet(SignalFatalError(k))
<1> DEFINE j == SignalFatalError(k)
<1>1. Alike(k, j) BY DEF AQuiet, SignalFatalError, Alike, Like, KeptBut, ALinks
<1>2. j \in ALinks /\ j.sa = k.sa /\ j.st = k.st /\ j.local = k.local
  BY <1>1 DEF Alike, Like, KeptBut
<1>3. ALinkInv(j) BY <1>1, AlikeInv DEF AQuiet
<1> HIDE DEF j
<1>4. AQuiet(j) BY <1>2, <1>3 DEF AQuiet
<1> QED BY <1>4 DEF j

LEMMA AGrantKeeps ==
    ASSUME TypeOK, DockInv, AGrant PROVE TypeOK' /\ DockInv'
<1> DEFINE x(m) == GrantedAddress(m)
           l(m, tun) == IF tun = "late_conflict" THEN SetLocalZprAddrs(a, x(m)) ELSE a
<1> PICK m \in Grants, tun \in TunOutcomes :
      \/ a.st # "RegisterAA" /\ tun = "ok" /\ a' = a /\ net' = net \ {m}
      \/ /\ a.st = "RegisterAA"
         /\ a' = SignalFatalError(
                     AInitiateClose(RecordFailure(SetState(a, "Error"), "mismatch")))
         /\ net' = (net \ {m}) \cup TermTo("n", a.sa)
      \/ a.st = "RegisterAA" /\ a' = Configured(a, x(m)) /\ net' = net \ {m}
      \/ /\ a.st = "RegisterAA"
         /\ a' = AInitiateClose(RecordFailure(SetState(l(m, tun), "Error"), "activation"))
         /\ net' = (net \ {m}) \cup TermTo("n", a.sa)
  BY DEF AGrant
<1>0. UNCHANGED <<cfg, n, nTasks, vs, pool, ops, uids>> BY DEF AGrant
<1>1. /\ m \in net /\ m.key = a.sa /\ x(m) \in AddrOrNone /\ GrantedTo(a.sa[2], x(m))
  <2>1. m \in net /\ m.type = "grant" /\ m.key = a.sa BY DEF Grants, To
  <2>2. m.v \in AddrOrNone BY <2>1 DEF TypeOK, MsgOK
  <2>3. GrantedTo(m.key[2], m.v) BY <2>1 DEF DockInv, PairInv
  <2> QED BY <2>1, <2>2, <2>3 DEF GrantedAddress
<1> DEFINE k == l(m, tun)
<1>2. k \in ALinks /\ ALinkInv(k) /\ k.sa = a.sa /\ k.sess = a.sess
  <2>1. CASE tun # "late_conflict" BY <2>1, AFacts
  <2>2. CASE tun = "late_conflict"
    <3>1. k = [a EXCEPT !.local = x(m)] BY <2>2 DEF SetLocalZprAddrs
    <3> HIDE DEF k, x
    <3>2. /\ k \in ALinks /\ k.st = a.st /\ k.sa = a.sa /\ k.sess = a.sess /\ k.req = a.req
          /\ k.chal = a.chal /\ k.sent = a.sent /\ k.failure = a.failure
          /\ k.carrier = a.carrier /\ k.tethers = a.tethers /\ k.drops = a.drops
          /\ k.dones = a.dones /\ k.old = a.old /\ k.cut = a.cut
      BY <1>1, <3>1, AFacts DEF ALinks
    <3>3. ALinkInv(k)
      BY <3>2, AFacts DEF ALinkInv, Attempt, Unstarted, Tethered, ACleaning, AKeys
    <3> QED BY <3>2, <3>3
  <2> QED BY <2>1, <2>2
<1>3. a.st = "RegisterAA" => a.sess # 0 BY AFacts DEF ALinkInv, Unstarted
<1>4. \/ a' = a /\ net' = net \ {m}
      \/ /\ a' = SignalFatalError(
                     AInitiateClose(RecordFailure(SetState(a, "Error"), "mismatch")))
         /\ net' = (net \ {m}) \cup TermTo("n", a.sa)
      \/ a.st = "RegisterAA" /\ a' = Configured(a, x(m)) /\ net' = net \ {m}
      \/ /\ a.st = "RegisterAA"
         /\ a' = AInitiateClose(RecordFailure(SetState(k, "Error"), "activation"))
         /\ net' = (net \ {m}) \cup TermTo("n", a.sa)
  OBVIOUS
<1> HIDE DEF k, x, l
<1>5. NetStep(net) BY <1>4, AFacts, NetTerm, NetSame
<1>6. CASE a' = a BY <1>0, <1>5, <1>6, SelfQuiet, AStepDone, AFacts
<1>7. CASE a' = SignalFatalError(AInitiateClose(RecordFailure(SetState(a, "Error"), "mismatch")))
  <2> DEFINE e == AInitiateClose(RecordFailure(SetState(a, "Error"), "mismatch"))
  <2>1. Ended(a, e, "mismatch") BY AFacts, AFailureEnds DEF Reasons
  <2>2. a' = SignalFatalError(e) BY <1>7
  <2> HIDE DEF e
  <2>3. AQuiet(e) BY <2>1, AFacts, EndedQuiet
  <2>4. AQuiet(a') BY <2>2, <2>3, SignalQuiet
  <2> QED BY <1>0, <1>5, <2>4, QuietStep, AStepDone, AFacts
<1>8. CASE /\ a.st = "RegisterAA"
           /\ a' = AInitiateClose(RecordFailure(SetState(k, "Error"), "activation"))
  <2>1. Ended(k, a', "activation") BY <1>2, <1>8, AFailureEnds DEF Reasons
  <2>2. AQuiet(a') BY <1>2, <1>3, <1>8, <2>1, EndedQuiet
  <2> QED BY <1>0, <1>5, <2>2, QuietStep, AStepDone, AFacts
<1>9. CASE a.st = "RegisterAA" /\ a' = Configured(a, x(m))
  <2>1. /\ a' \in ALinks /\ a'.st = "Active" /\ a'.local = x(m) /\ ~a'.req.cur
        /\ a'.sa = a.sa /\ a'.sess = a.sess /\ a'.chal = a.chal /\ a'.sent = a.sent
        /\ a'.drops = a.drops /\ a'.dones = a.dones /\ a'.old = a.old /\ a'.cut = a.cut
    BY <1>1, <1>9, AFacts, ConfiguredIs
  <2>2. /\ a.sent = a.chal /\ a.sess # 0 /\ a.drops = 0 /\ a.dones = a.old /\ a.sa \in Keys
    BY <1>9, AFacts, ASpent DEF ALinkInv, Attempt, Unstarted, InSession
  <2>5. a'.dones \in Nat BY <2>1 DEF ALinks
  <2>3. ALinkInv(a')
    BY <2>1, <2>2, <2>5, SpentCleaning DEF ALinkInv, Attempt, Unstarted, Tethered, AKeys
  <2>4. AStep(a') BY <1>1, <2>1, <2>3, AFacts DEF AStep
  <2> QED BY <1>0, <1>5, <2>4, AStepDone, AFacts
<1> QED BY <1>4, <1>6, <1>7, <1>8, <1>9

LEMMA ARefusalKeeps ==
    ASSUME TypeOK, DockInv, ARefusal PROVE TypeOK' /\ DockInv'
<1>1. PICK m \in GrantFailures :
      /\ IF a.st = "RegisterAA"
         THEN /\ a' = AInitiateClose(RecordFailure(SetState(a, "Error"), "auth"))
              /\ net' = (net \ {m}) \cup TermTo("n", a.sa)
         ELSE a' = a /\ net' = net \ {m}
      /\ UNCHANGED <<cfg, n, nTasks, vs, pool, ops, uids>>
  BY DEF ARefusal
<1>2. CASE a.st = "RegisterAA"
  <2>1. Ended(a, a', "auth") BY <1>1, <1>2, AFacts, AFailureEnds DEF Reasons
  <2>2. AQuiet(a') BY <2>1, AFacts, EndedQuiet
  <2>3. net' = (net \ {m}) \cup TermTo("n", a.sa) BY <1>1, <1>2
  <2>4. NetStep(net) BY <2>3, AFacts, NetTerm
  <2> QED BY <1>1, <2>2, <2>4, QuietStep, AStepDone, AFacts
<1>3. CASE a.st # "RegisterAA" BY <1>1, <1>3, SelfQuiet, NetSame, AStepDone, AFacts
<1> QED BY <1>2, <1>3

LEMMA MovedEnded ==
    ASSUME NEW l, NEW k, Moved(l, k, "Closing") PROVE Ended(l, k, "none")
BY DEF Moved, Ended

LEMMA CleanedQuiet ==
    ASSUME NEW l \in ALinks, ALinkInv(l), l.st = "Closing", l.sa = a.sa
    PROVE  AQuiet(ACleanUp(l))
<1> DEFINE k == ACleanUp(l)
<1>1. k \in ALinks /\ ALinkInv(k) /\ k.st = "Closing" /\ k.sa = l.sa BY ACleanUpInv
<1> HIDE DEF k
<1>2. AQuiet(k) BY <1>1 DEF AQuiet
<1> QED BY <1>2 DEF k

LEMMA EchoTimeoutAlike ==
    ASSUME NEW l \in ALinks PROVE Alike(l, EchoTimeout(l))
<1> DEFINE p == [l EXCEPT !.misses = @ + 1]
           q == [l EXCEPT !.echo = TRUE]
           k == IF l.echo THEN p ELSE q
<1>1. EchoTimeout(l) = SetTimeout(k) BY DEF EchoTimeout
<1>2. Alike(l, p)
  <2> DEFINE d == l.misses + 1
  <2>1. d \in Nat BY DEF ALinks
  <2>2. p = [l EXCEPT !.misses = d] OBVIOUS
  <2> HIDE DEF d, p
  <2> QED BY <2>1, <2>2 DEF Alike, Like, KeptBut, ALinks
<1>3. Alike(l, q) BY DEF Alike, Like, KeptBut, ALinks
<1> HIDE DEF p, q
<1>4. Alike(l, k) BY <1>2, <1>3
<1> HIDE DEF k
<1>5. k \in ALinks BY <1>4 DEF Alike, Like
<1>6. Alike(k, SetTimeout(k)) BY <1>5, SetTimeoutMoves, MovedAlike
<1> QED BY <1>1, <1>4, <1>6, AlikeAlike

LEMMA ATimeoutKeeps ==
    ASSUME TypeOK, DockInv, ATimeout PROVE TypeOK' /\ DockInv'
<1> DEFINE l == [a EXCEPT !.timer = FALSE]
           j == [l EXCEPT !.echo = FALSE]
<1>1. /\ \/ AFail(l, "auth") \/ AFail(l, "none") \/ AFail(j, "none")
         \/ a' = EchoTimeout(l) /\ net' = net
         \/ a.st = "Closing" /\ a' = ACleanUp(l) /\ net' = net
      /\ UNCHANGED <<cfg, n, nTasks, vs, pool, ops, uids>>
  BY DEF ATimeout
<1>2. Alike(a, l) BY AFacts DEF Alike, Like, KeptBut, ALinks
<1> HIDE DEF l
<1>3. l \in ALinks BY <1>2 DEF Alike, Like
<1>4. Alike(l, j) BY <1>3 DEF Alike, Like, KeptBut, ALinks
<1> HIDE DEF j
<1>5. Alike(a, j) /\ j \in ALinks BY <1>2, <1>4, AlikeAlike DEF Alike, Like
<1>6. CASE AFail(l, "auth") \/ AFail(l, "none")
  <2>1. PICK why \in {"auth", "none"} : AFail(l, why) BY <1>6
  <2>2. Ended(l, a', why) /\ net' = net \cup TermTo("n", l.sa)
    BY <1>3, <2>1, AFailEnds DEF Reasons
  <2>3. Like(a, l) /\ l.sa = a.sa BY <1>2 DEF Alike, Like, KeptBut
  <2>4. AStep(a') BY <2>2, <2>3, EndedStep
  <2>5. NetStep(net) BY <2>2, <2>3, AFacts, NetTerm
  <2> QED BY <1>1, <2>4, <2>5, AStepDone, AFacts
<1>7. CASE AFail(j, "none")
  <2>2. Ended(j, a', "none") /\ net' = net \cup TermTo("n", j.sa)
    BY <1>5, <1>7, AFailEnds DEF Reasons
  <2>3. Like(a, j) /\ j.sa = a.sa BY <1>5 DEF Alike, Like, KeptBut
  <2>4. AStep(a') BY <2>2, <2>3, EndedStep
  <2>5. NetStep(net) BY <2>2, <2>3, AFacts, NetTerm
  <2> QED BY <1>1, <2>4, <2>5, AStepDone, AFacts
<1>8. CASE a' = EchoTimeout(l) /\ net' = net
  <2>1. Alike(l, a') BY <1>3, <1>8, EchoTimeoutAlike
  <2>2. Alike(a, a') BY <1>2, <2>1, AlikeAlike
  <2>3. AQuiet(a') BY <2>2, AFacts, AlikeQuiet
  <2> QED BY <1>1, <1>8, <2>3, NetSame, QuietStep, AStepDone, AFacts
<1>9. CASE a.st = "Closing" /\ a' = ACleanUp(l) /\ net' = net
  <2>1. ALinkInv(l) /\ l.st = "Closing" /\ l.sa = a.sa
    BY <1>2, <1>9, AFacts, AlikeInv DEF Alike, Like, KeptBut
  <2>2. AQuiet(a') BY <1>3, <1>9, <2>1, CleanedQuiet
  <2> QED BY <1>1, <1>9, <2>2, NetSame, QuietStep, AStepDone, AFacts
<1> QED BY <1>1, <1>6, <1>7, <1>8, <1>9

LEMMA ATerminatedKeeps ==
    ASSUME TypeOK, DockInv, ATerminated PROVE TypeOK' /\ DockInv'
<1> DEFINE c == SetState(a, "Closing")
<1>1. PICK m \in To("a", "term") :
        /\ a' = ACleanUp(c)
        /\ net' = (net \ {m}) \cup Send({Msg("n", "termack", m.key, None)})
        /\ UNCHANGED <<cfg, n, nTasks, vs, pool, ops, uids>>
  BY DEF ATerminated
<1>2. Moved(a, c, "Closing") BY AFacts, SetStateMoves DEF States
<1> HIDE DEF c
<1>3. ALinkInv(c) BY <1>2, AFacts, MovedEnded, EndedInv
<1>4. c \in ALinks /\ c.st = "Closing" /\ c.sa = a.sa BY <1>2 DEF Moved, KeptBut
<1>5. AQuiet(a') BY <1>1, <1>3, <1>4, CleanedQuiet
<1>6. m \in net /\ m.key \in Keys /\ m.key[2] <= uids
  BY DEF To, TypeOK, MsgOK, DockInv, PairInv
<1>7. Harmless(Msg("n", "termack", m.key, None)) BY <1>6, PlainHarmless
<1>8. NetStep(net) BY <1>1, <1>7, NetOne
<1> QED BY <1>1, <1>5, <1>8, QuietStep, AStepDone, AFacts

LEMMA ATerminateAckKeeps ==
    ASSUME TypeOK, DockInv, ATerminateAck PROVE TypeOK' /\ DockInv'
<1> DEFINE c == CancelTimeout(a)
<1>1. PICK m \in To("a", "termack") :
        /\ net' = net \ {m} /\ a' = IF a.st = "Closing" THEN ACleanUp(c) ELSE a
        /\ UNCHANGED <<cfg, n, nTasks, vs, pool, ops, uids>>
  BY DEF ATerminateAck
<1>2. Alike(a, c) BY AFacts, CancelTimeoutMoves, MovedAlike
<1> HIDE DEF c
<1>3. CASE a.st = "Closing"
  <2>1. c \in ALinks /\ ALinkInv(c) /\ c.st = "Closing" /\ c.sa = a.sa
    BY <1>2, <1>3, AFacts, AlikeInv DEF Alike, Like, KeptBut
  <2>2. AQuiet(a') BY <1>1, <1>3, <2>1, CleanedQuiet
  <2> QED BY <1>1, <2>2, NetSame, QuietStep, AStepDone, AFacts
<1>4. CASE a.st # "Closing" BY <1>1, <1>4, SelfQuiet, NetSame, AStepDone, AFacts
<1> QED BY <1>3, <1>4

\* complete_close ends the close, or leaves the link alone.
Settled(l, k) ==
    /\ k \in ALinks /\ k.sa = l.sa /\ k.sess = l.sess /\ k.chal = l.chal
    /\ k.sent = l.sent /\ k.local = l.local /\ k.failure = l.failure
    /\ k.carrier = l.carrier /\ k.tethers = l.tethers
    /\ k.drops = l.drops /\ k.dones = l.dones /\ k.old = l.old /\ k.cut = l.cut
    /\ k.req.chal = l.req.chal /\ (k.req.cur => l.req.cur)
    /\ k.st = l.st \/ (k.st = "Inactive" /\ l.live /\ l.st = "Closing")

LEMMA CompleteCloseSettles ==
    ASSUME NEW l \in ALinks PROVE Settled(l, CompleteClose(l))
<1> DEFINE i == SetState(l, "Inactive")
           s == [l EXCEPT !.live = FALSE]
           q == [i EXCEPT !.live = FALSE]
           t == [i EXCEPT !.restarts = @ + 1]
           d == i.restarts + 1
<1>1. Moved(l, i, "Inactive") BY SetStateMoves DEF States
<1>2. \/ CompleteClose(l) \in {l, s}
      \/ l.live /\ l.st = "Closing" /\ CompleteClose(l) \in {i, q, t}
  BY DEF CompleteClose
<1>3. Settled(l, l) /\ Settled(l, s) BY DEF Settled, ALinks
<1> HIDE DEF i
<1>4. i \in ALinks BY <1>1 DEF Moved
<1>5. d \in Nat BY <1>4 DEF ALinks
<1>6. t = [i EXCEPT !.restarts = d] OBVIOUS
<1> HIDE DEF d, s, t
<1>7. Like(i, t) /\ t.st = i.st /\ t.req = i.req
  BY <1>4, <1>5, <1>6 DEF Like, KeptBut, ALinks
<1>8. l.live /\ l.st = "Closing" => Settled(l, i) /\ Settled(l, t)
  BY <1>1, <1>7 DEF Moved, Like, KeptBut, Settled
<1>9. Settled(l, i) => Settled(l, q) BY <1>4 DEF Settled, ALinks
<1> QED BY <1>2, <1>3, <1>8, <1>9

\* A task of the adapter ends, one of the present attempt or an earlier one.
LEMMA ADoneQuiet ==
    ASSUME TypeOK, DockInv, NEW l \in ALinks, ADone(l),
           l.live = a.live, l.st = a.st, l.sess = a.sess, l.chal = a.chal, l.sent = a.sent,
           l.local = a.local, l.failure = a.failure, l.req = a.req, l.carrier = a.carrier,
           l.tethers = a.tethers, l.old = a.old, l.cut = a.cut, l.sa \in {a.sa, None},
           a.st \in InSession => l.sa = a.sa, l.drops <= a.drops,
           l.drops + l.dones = a.drops + a.dones - 1
    PROVE  AQuiet(a')
<1> DEFINE closes == l.live /\ l.st \in {"Closing", "Resetting"}
<1>1. PICK stale \in BOOLEAN :
        /\ MayEnd(a, stale) /\ a' = CompleteClose(TaskEnded(l, stale, closes))
  BY DEF ADone
<1> DEFINE o == IF stale THEN l.old - 1 ELSE l.old
           c == l.cut \/ (stale /\ closes)
           t == TaskEnded(l, stale, closes)
<1>2. /\ o \in Nat /\ o <= l.drops + l.dones
      /\ l.drops + l.dones > o => a.drops + a.dones > a.old
      /\ ~stale => a.drops + a.dones > a.old
  <2>1. a.drops \in Nat /\ a.dones \in Nat /\ a.old \in Nat BY AFacts DEF ALinks
  <2>2. a.old <= a.drops + a.dones BY AFacts DEF ALinkInv, ACleaning
  <2>3. CASE stale
    <3>1. a.old > 0 BY <1>1, <2>3 DEF MayEnd
    <3>2. o = a.old - 1 BY <2>3
    <3> QED BY <2>1, <2>2, <2>3, <3>1, <3>2
  <2>4. CASE ~stale
    <3>1. a.drops + a.dones > a.old BY <1>1, <2>4 DEF MayEnd
    <3>2. o = a.old BY <2>4
    <3> QED BY <2>1, <2>2, <2>4, <3>1, <3>2
  <2> QED BY <2>3, <2>4
<1>3. t = [l EXCEPT !.old = o, !.cut = c] BY DEF TaskEnded, ALinks
<1>4. c \in BOOLEAN /\ (stale /\ closes => c) /\ (l.cut => c) BY DEF ALinks
<1>5. a' = CompleteClose(t) BY <1>1
<1>6. closes <=> (a.live /\ a.st \in {"Closing", "Resetting"}) OBVIOUS
<1> HIDE DEF o, c, t, closes
<1>7. /\ t \in ALinks /\ t.sa = l.sa /\ t.sess = l.sess /\ t.chal = l.chal /\ t.sent = l.sent
      /\ t.local = l.local /\ t.failure = l.failure /\ t.req = l.req /\ t.st = l.st
      /\ t.carrier = l.carrier /\ t.tethers = l.tethers /\ t.live = l.live
      /\ t.drops = l.drops /\ t.dones = l.dones /\ t.old = o /\ t.cut = c
  BY <1>2, <1>3, <1>4 DEF ALinks
<1>8. Settled(t, a') BY <1>5, <1>7, CompleteCloseSettles
<1>9. /\ a' \in ALinks /\ a'.sa = l.sa /\ a'.sess = a.sess /\ a'.chal = a.chal
      /\ a'.sent = a.sent /\ a'.local = a.local /\ a'.failure = a.failure
      /\ a'.carrier = a.carrier /\ a'.tethers = a.tethers
      /\ a'.req.chal = a.req.chal /\ (a'.req.cur => a.req.cur)
      /\ a'.drops = l.drops /\ a'.dones = l.dones /\ a'.old = o /\ a'.cut = c
      /\ a'.st = a.st \/ (a'.st = "Inactive" /\ a.live /\ a.st = "Closing")
  BY <1>7, <1>8 DEF Settled
<1>10. Attempt(a') BY <1>9, AFacts DEF ALinkInv, Attempt
<1>11. Unstarted(a') BY <1>9, AFacts DEF ALinkInv, Unstarted
<1>12. Tethered(a')
  BY <1>2, <1>4, <1>6, <1>9, AFacts DEF ALinkInv, Tethered, ACleaning
<1>13. ACleaning(a')
  <2>1. a'.drops > 0 => a.drops > 0 BY <1>9, AFacts DEF ALinks
  <2> QED BY <1>2, <1>9, <2>1, AFacts DEF ALinkInv, ACleaning
<1>14. AKeys(a') BY <1>9, AFacts DEF ALinkInv, AKeys, InSession
<1> QED BY <1>9, <1>10, <1>11, <1>12, <1>13, <1>14 DEF ALinkInv, AQuiet, InSession

LEMMA ADropLinkKeeps ==
    ASSUME TypeOK, DockInv, ADropLink PROVE TypeOK' /\ DockInv'
<1> DEFINE d == a.drops - 1
           r == RemoveKmState(a)
           l == [r EXCEPT !.drops = @ - 1]
           e == l.dones + 1
<1>1. /\ a.drops > 0 /\ net' \subseteq net
      /\ UNCHANGED <<cfg, n, nTasks, vs, pool, ops, uids>>
      /\ a' = [l EXCEPT !.dones = e] \/ ADone(l)
  BY DEF ADropLink, Readable
<1>2. d \in Nat /\ d <= a.drops /\ d + a.dones = a.drops + a.dones - 1
  BY <1>1, AFacts DEF ALinks
<1>3. /\ r \in ALinks /\ r.live = a.live /\ r.st = a.st /\ r.sa = None /\ r.sess = a.sess
      /\ r.req = a.req /\ r.chal = a.chal /\ r.sent = a.sent /\ r.failure = a.failure
      /\ r.local = a.local /\ r.carrier = a.carrier /\ r.tethers = a.tethers
      /\ r.drops = a.drops /\ r.dones = a.dones /\ r.old = a.old /\ r.cut = a.cut
  BY AFacts DEF RemoveKmState, ALinks, KeyOrNone
<1> HIDE DEF r
<1>4. l = [r EXCEPT !.drops = d] BY <1>3
<1> HIDE DEF d, l
<1>5. /\ l \in ALinks /\ l.live = a.live /\ l.st = a.st /\ l.sa = None /\ l.sess = a.sess
      /\ l.req = a.req /\ l.chal = a.chal /\ l.sent = a.sent /\ l.failure = a.failure
      /\ l.local = a.local /\ l.carrier = a.carrier /\ l.tethers = a.tethers
      /\ l.drops = d /\ l.dones = a.dones /\ l.old = a.old /\ l.cut = a.cut
  BY <1>2, <1>3, <1>4 DEF ALinks
<1>6. a.st \in {"Inactive", "Keying", "Closing"} BY <1>1, AFacts DEF ALinkInv, ACleaning
<1>7. CASE ADone(l)
  <2>1. a.st \notin InSession BY <1>6 DEF InSession
  <2>2. AQuiet(a') BY <1>2, <1>5, <1>7, <2>1, ADoneQuiet
  <2> QED BY <1>1, <2>2, NetSame, QuietStep, AStepDone, AFacts
<1>8. CASE a' = [l EXCEPT !.dones = e]
  <2>1. e \in Nat /\ d + e = a.drops + a.dones BY <1>2, <1>5, AFacts DEF ALinks
  <2> HIDE DEF e
  <2>2. /\ a' \in ALinks /\ a'.st = l.st /\ a'.sa = l.sa /\ a'.sess = l.sess /\ a'.req = l.req
        /\ a'.chal = l.chal /\ a'.sent = l.sent /\ a'.failure = l.failure
        /\ a'.carrier = l.carrier /\ a'.tethers = l.tethers
        /\ a'.drops = d /\ a'.dones = e /\ a'.old = l.old /\ a'.cut = l.cut
    BY <1>5, <1>8, <2>1 DEF ALinks
  <2>3. ALinkInv(a')
    BY <1>5, <1>6, <2>1, <2>2, AFacts
       DEF ALinkInv, Attempt, Unstarted, Tethered, ACleaning, AKeys, InSession
  <2>4. AQuiet(a') BY <1>5, <1>6, <2>2, <2>3 DEF AQuiet
  <2> QED BY <1>1, <2>4, NetSame, QuietStep, AStepDone, AFacts
<1> QED BY <1>1, <1>7, <1>8

LEMMA ACloseDoneKeeps ==
    ASSUME TypeOK, DockInv, ACloseDone PROVE TypeOK' /\ DockInv'
<1> DEFINE d == a.dones - 1
           l == [a EXCEPT !.dones = @ - 1]
<1>1. /\ a.dones > 0 /\ ADone(l) /\ UNCHANGED <<cfg, n, nTasks, net, vs, pool, ops, uids>>
  BY DEF ACloseDone
<1>2. /\ d \in Nat /\ a.drops + d = a.drops + a.dones - 1 /\ a.drops <= a.drops
      /\ l = [a EXCEPT !.dones = d]
  BY <1>1, AFacts DEF ALinks
<1> HIDE DEF d, l
<1>3. /\ l \in ALinks /\ l.live = a.live /\ l.st = a.st /\ l.sa = a.sa /\ l.sess = a.sess
      /\ l.req = a.req /\ l.chal = a.chal /\ l.sent = a.sent /\ l.failure = a.failure
      /\ l.local = a.local /\ l.carrier = a.carrier /\ l.tethers = a.tethers
      /\ l.drops = a.drops /\ l.dones = d /\ l.old = a.old /\ l.cut = a.cut
  BY <1>2, AFacts DEF ALinks
<1>4. AQuiet(a') BY <1>1, <1>2, <1>3, ADoneQuiet
<1> QED BY <1>1, <1>4, NetSame, QuietStep, AStepDone, AFacts

-------------------------------------------------------------------------------
(* The operators on the node's link.                                       *)

\* The same link, in state s.
NMoved(l, k, s) ==
    /\ k \in NLinks /\ k.live = l.live /\ k.uid = l.uid /\ k.sa = l.sa
    /\ k.addr = l.addr /\ k.aaa = l.aaa /\ k.st = s

LEMMA NMovedMoved ==
    ASSUME NEW l, NEW k, NEW j, NEW s, NEW t, NMoved(l, k, s), NMoved(k, j, t)
    PROVE  NMoved(l, j, t)
BY DEF NMoved

LEMMA NSetStateMoves ==
    ASSUME NEW l \in NLinks, NEW s \in States PROVE NMoved(l, SetState(l, s), s)
<1> DEFINE r == [l.req EXCEPT !.cur = FALSE]
<1>1. r \in Requests BY RequestIs DEF NLinks
<1>2. SetState(l, s) = [l EXCEPT !.st = s, !.timer = FALSE, !.req = r]
  BY DEF SetState, NLinks
<1> HIDE DEF r
<1> QED BY <1>1, <1>2 DEF NMoved, NLinks

LEMMA NSetTimeoutMoves ==
    ASSUME NEW l \in NLinks PROVE NMoved(l, SetTimeout(l), l.st)
<1> DEFINE r == [l.req EXCEPT !.cur = FALSE]
<1>1. r \in Requests BY RequestIs DEF NLinks
<1>2. SetTimeout(l) = [l EXCEPT !.timer = TRUE, !.req = r]
  BY DEF SetTimeout, NLinks
<1> HIDE DEF r
<1> QED BY <1>1, <1>2 DEF NMoved, NLinks

LEMMA NCancelTimeoutMoves ==
    ASSUME NEW l \in NLinks PROVE NMoved(l, CancelTimeout(l), l.st)
<1> DEFINE r == [l.req EXCEPT !.cur = FALSE]
<1>1. r \in Requests BY RequestIs DEF NLinks
<1>2. CancelTimeout(l) = [l EXCEPT !.timer = FALSE, !.req = r]
  BY DEF CancelTimeout, NLinks
<1> HIDE DEF r
<1> QED BY <1>1, <1>2 DEF NMoved, NLinks

LEMMA NContinueCloseMoves ==
    ASSUME NEW l \in NLinks PROVE NMoved(l, ContinueClose(l), "Closing")
<1> DEFINE c == SetState(l, "Closing")
<1>1. NMoved(l, c, "Closing") BY NSetStateMoves DEF States
<1> HIDE DEF c
<1>2. c \in NLinks /\ c.st = "Closing" BY <1>1 DEF NMoved
<1>3. NMoved(c, SetTimeout(c), "Closing") BY <1>2, NSetTimeoutMoves
<1>4. NMoved(l, SetTimeout(c), "Closing") BY <1>1, <1>3, NMovedMoved
<1> QED BY <1>4 DEF ContinueClose, c

\* A close, of whichever kind.
LEMMA NClosingEnds ==
    ASSUME NEW l \in NLinks, NEW reason, NEW M, NClosing(l, reason, M)
    PROVE  /\ \E s \in Ending : NMoved(l, n', s)
           /\ net' \subseteq M \cup TermTo("a", l.sa)
<1>1. \E s \in Ending : NMoved(l, NInitiateClose(l, reason), s)
  <2>1. CASE cfg.vs /\ reason = "shutdown"
    BY <2>1, NSetStateMoves DEF NInitiateClose, States, Ending
  <2>2. CASE ~(cfg.vs /\ reason = "shutdown")
    BY <2>2, NContinueCloseMoves DEF NInitiateClose, Ending
  <2> QED BY <2>1, <2>2
<1>2. n' = NInitiateClose(l, reason) BY DEF NClosing
<1>3. net' \subseteq M \cup TermTo("a", l.sa) BY DEF NClosing
<1> QED BY <1>1, <1>2, <1>3

-------------------------------------------------------------------------------
(* What a step of the node must show.                                      *)

Past == Ending \cup {"Active"}

\* No grant made before is overtaken.
NKept ==
    n'.live => \/ n'.uid > uids
               \/ /\ n.live /\ n'.uid = n.uid
                  /\ n.st \in Past =>
                       /\ n'.st \in Past
                       /\ n'.st = "Active" => n.st = "Active" /\ n'.addr = n.addr

\* A new message is harmless, or the grant of the address the link now has.
NNetStep ==
    \A m \in net' : m \in net \/ Harmless(m)
                       \/ (MsgOK(m) /\ m.key[2] <= uids /\ GrantedTo(m.key[2], m.v)')

NStep ==
    /\ n' \in NLinks /\ nTasks' \in Tasks
    /\ NLinkInv(n, nTasks)' /\ NKept /\ n'.uid <= uids'
    /\ uids' \in Nat /\ uids <= uids' /\ ops' \in Nat

VsStep ==
    /\ vs' \in [q : Seq(Commands), actors : SUBSET Addrs, kept : SUBSET Addrs]
    /\ VsInv' /\ pool' \subseteq AaaAddrs /\ AaaKept'

LEMMA GrantKept ==
    ASSUME NKept, NEW u \in Nat, uids \in Nat, u <= uids, NEW x, GrantedTo(u, x)
    PROVE  GrantedTo(u, x)'
<1> SUFFICES ASSUME n'.live, n'.uid = u
             PROVE  n'.st \in Past /\ (n'.st = "Active" => n'.addr = x)
  BY DEF GrantedTo, Past
<1>1. ~(n'.uid > uids) OBVIOUS
<1>2. /\ n.live /\ n.uid = u
      /\ n.st \in Past => n'.st \in Past /\ (n'.st = "Active" => n.st = "Active" /\ n'.addr = n.addr)
  BY <1>1 DEF NKept
<1>3. n.st \in Past /\ (n.st = "Active" => n.addr = x) BY <1>2 DEF GrantedTo, Past
<1> QED BY <1>2, <1>3

LEMMA NStepDone ==
    ASSUME TypeOK, DockInv, NStep, VsStep, NNetStep, cfg' = cfg, a' = a
    PROVE  TypeOK' /\ DockInv'
<1>0. uids \in Nat /\ uids' \in Nat /\ uids <= uids' BY DEF TypeOK, NStep
<1>1. \A m \in net' : MsgOK(m) BY DEF TypeOK, NNetStep, Harmless
<1>2. TypeOK'
  BY <1>1 DEF TypeOK, NStep, VsStep, MsgOK
<1>3. ALinkInv(a)' BY DEF DockInv
<1>4. PairInv'
  <2>1. (n.uid <= uids)' BY DEF NStep
  <2>2. (a.sa # None => a.sa[2] <= uids)'
    <3>1. a.sa # None => a.sa[2] \in Nat BY DEF TypeOK, ALinks, KeyOrNone, Keys
    <3>2. a.sa # None => a.sa[2] <= uids BY DEF DockInv, PairInv
    <3> QED BY <1>0, <3>1, <3>2
  <2>3. \A m \in net' : m.key[2] \in Nat /\ m.key[2] <= uids
    <3>1. \A m \in net' : m.key[2] \in Nat BY <1>1 DEF MsgOK, Keys
    <3> QED BY <3>1 DEF DockInv, PairInv, NNetStep, Harmless
  <2>4. (\A m \in net : m.key[2] <= uids)' BY <1>0, <2>3
  <2>5. ASSUME NEW m \in net', m.type = "grant" PROVE GrantedTo(m.key[2], m.v)'
    <3>1. CASE m \in net
      <4>1. GrantedTo(m.key[2], m.v) BY <2>5, <3>1 DEF DockInv, PairInv
      <4> QED BY <4>1, <2>3, <1>0, GrantKept DEF NStep
    <3>2. CASE m \notin net BY <2>5, <3>2 DEF NNetStep, Harmless
    <3> QED BY <3>1, <3>2
  <2>6. ASSUME a.st = "Active" PROVE GrantedTo(a.sa[2], a.local)'
    <3>1. GrantedTo(a.sa[2], a.local) BY <2>6 DEF DockInv, PairInv
    <3>2. a.sa \in Keys BY <2>6, AFacts DEF InSession
    <3>3. a.sa[2] \in Nat /\ a.sa[2] <= uids BY <3>2, AFacts, KeyNotNone DEF Keys
    <3>4. \A x : GrantedTo(a.sa[2], x) => GrantedTo(a.sa[2], x)'
      <4> DEFINE u == a.sa[2]
      <4> SUFFICES ASSUME NEW x, GrantedTo(u, x)
                   PROVE  n'.live /\ n'.uid = u =>
                            n'.st \in Past /\ (n'.st = "Active" => n'.addr = x)
        BY DEF GrantedTo, Past
      <4>1. u \in Nat /\ u <= uids BY <3>3
      <4> HIDE DEF u
      <4> QED BY <4>1, <1>0 DEF NStep, NKept, GrantedTo, Past
    <3> QED BY <3>1, <3>4 DEF GrantedTo
  <2> QED BY <2>1, <2>2, <2>4, <2>5, <2>6 DEF PairInv
<1> QED BY <1>2, <1>3, <1>4 DEF DockInv, NStep, VsStep

-------------------------------------------------------------------------------
(* The steps of the node.                                                  *)

LEMMA NFacts ==
    ASSUME TypeOK, DockInv
    PROVE  /\ n \in NLinks /\ NLinkInv(n, nTasks) /\ n.sa \in KeyOrNone
           /\ nTasks \in Tasks /\ n.uid \in Nat /\ n.uid <= uids
           /\ uids \in Nat /\ ops \in Nat /\ ops + 1 \in Nat
           /\ NMoved(n, n, n.st) /\ (n.sa # None => n.sa[2] <= uids)
BY DEF TypeOK, DockInv, PairInv, NLinks, NMoved, NLinkInv, NKeys

\* While it is in session, the tasks that are left are those of earlier links, and wait.
LEMMA NSpent ==
    ASSUME TypeOK, DockInv, n.live, n.st \notin Ending \cup {"Keying"}
    PROVE  nTasks.drops = 0 /\ nTasks.dones = nTasks.old
BY NFacts DEF Tasks, NLinkInv, NCleaning

\* A link keeps its state and all that counts.
LEMMA NSameStep ==
    ASSUME TypeOK, DockInv, NMoved(n, n', n.st), ops' \in Nat, UNCHANGED <<cfg, nTasks, uids>>
    PROVE  NStep
<1>1. NLinkInv(n, nTasks)'
  BY NFacts DEF NMoved, NLinkInv, NKeys, Early, NCleaning
<1>2. NKept BY DEF NMoved, NKept
<1> QED BY <1>1, <1>2, NFacts DEF NMoved, NStep

\* A link is closed or reset.
LEMMA NEndStep ==
    ASSUME TypeOK, DockInv, NEW s \in Ending, NMoved(n, n', s), ops' \in Nat,
           UNCHANGED <<cfg, nTasks, uids>>
    PROVE  NStep
<1>1. NLinkInv(n, nTasks)'
  <2>1. NKeys(n') BY NFacts DEF NMoved, NLinkInv, NKeys, InSession, Ending
  <2>2. Early(n') BY DEF NMoved, Early, Ending
  <2>3. NCleaning(n, nTasks)' BY NFacts DEF NMoved, NLinkInv, NCleaning
  <2> QED BY <2>1, <2>2, <2>3 DEF NLinkInv
<1>2. NKept BY DEF NMoved, NKept, Past, Ending
<1> QED BY <1>1, <1>2, NFacts DEF NMoved, NStep

LEMMA VsSame ==
    ASSUME TypeOK, DockInv, UNCHANGED <<cfg, vs, pool>>, nTasks.cut => nTasks'.cut,
           n'.live = n.live, n'.addr = n.addr, n'.aaa = n.aaa
    PROVE  VsStep
<1>1. VsInv' BY DEF DockInv, VsInv, ActorsAccounted
<1>2. AaaKept' BY DEF DockInv, AaaKept, AaaAccounted
<1> QED BY <1>1, <1>2 DEF TypeOK, VsStep

LEMMA NNetTerm ==
    ASSUME TypeOK, DockInv, NEW key \in KeyOrNone, key # None => key[2] <= uids,
           net' \subseteq net \cup TermTo("a", key)
    PROVE  NNetStep
BY TermHarmless DEF NNetStep

LEMMA NNetSame == ASSUME net' \subseteq net PROVE NNetStep
BY DEF NNetStep

LEMMA NClosedStep ==
    ASSUME TypeOK, DockInv, NEW l, NEW s \in States, NMoved(n, l, s),
           NEW reason, NEW M, M \subseteq net, NClosing(l, reason, M), ops' \in Nat,
           UNCHANGED <<cfg, a, nTasks, vs, pool, uids>>
    PROVE  TypeOK' /\ DockInv'
<1>1. l \in NLinks BY DEF NMoved
<1>2. PICK t \in Ending : NMoved(l, n', t) BY <1>1, NClosingEnds
<1>3. net' \subseteq M \cup TermTo("a", l.sa) BY <1>1, NClosingEnds
<1>4. NMoved(n, n', t) BY <1>2, NMovedMoved
<1>5. NStep BY <1>4, NEndStep
<1>6. VsStep BY <1>4, VsSame DEF NMoved
<1>7. l.sa = n.sa BY DEF NMoved
<1>8. NNetStep BY <1>3, <1>7, NFacts, NNetTerm
<1> QED BY <1>5, <1>6, <1>8, NStepDone

LEMMA NDockKeeps ==
    ASSUME TypeOK, DockInv, NDock PROVE TypeOK' /\ DockInv'
<1>1. /\ ~n.live /\ n' = NewNodeLink(uids + 1) /\ uids' = uids + 1
      /\ nTasks' = [nTasks EXCEPT !.old = nTasks.drops + nTasks.dones]
      /\ UNCHANGED <<cfg, a, net, vs, pool, ops>>
  BY DEF NDock, VacantEntry, NextUid
<1>2. /\ n' \in NLinks /\ n'.live /\ n'.uid = uids + 1 /\ n'.st = "Keying" /\ n'.sa = None
      /\ n'.addr = None /\ n'.aaa = None
  <2>1. uids + 1 \in Nat BY NFacts
  <2> QED BY <1>1, <2>1
        DEF NewNodeLink, NLinks, States, NoReq, Requests, KeyOrNone, AddrOrNone, AaaOrNone
<1>7. /\ nTasks' \in Tasks /\ nTasks'.cut = nTasks.cut
      /\ nTasks'.old = nTasks'.drops + nTasks'.dones
  <2> DEFINE o == nTasks.drops + nTasks.dones
  <2>1. o \in Nat BY NFacts DEF Tasks
  <2>2. nTasks' = [nTasks EXCEPT !.old = o] BY <1>1
  <2> HIDE DEF o
  <2>3. /\ nTasks' \in Tasks /\ nTasks'.cut = nTasks.cut /\ nTasks'.old = o
        /\ nTasks'.drops = nTasks.drops /\ nTasks'.dones = nTasks.dones
    BY <2>1, <2>2, NFacts DEF Tasks
  <2> QED BY <2>3 DEF o
<1>3. NLinkInv(n, nTasks)'
  <2>1. NCleaning(n, nTasks)' BY <1>2, <1>7 DEF NCleaning, Tasks
  <2> QED BY <1>2, <2>1 DEF NLinkInv, NKeys, Early, InSession
<1>4. NKept BY <1>2, NFacts DEF NKept
<1>5. NStep BY <1>1, <1>2, <1>3, <1>4, <1>7, NFacts DEF NStep
<1>6. VsStep
  <2>1. VsInv' BY <1>1, <1>7 DEF DockInv, VsInv, ActorsAccounted
  <2>2. AaaKept' BY <1>1, <1>2, <1>7 DEF DockInv, AaaKept, AaaAccounted
  <2> QED BY <1>1, <2>1, <2>2 DEF TypeOK, VsStep
<1> QED BY <1>1, <1>5, <1>6, NNetSame, NStepDone

LEMMA NKeyedKeeps ==
    ASSUME TypeOK, DockInv, NKeyed PROVE TypeOK' /\ DockInv'
<1>1. PICK m \in net :
        /\ n.live /\ n.st = "Keying" /\ m.key[2] = n.uid /\ nTasks.drops = 0
        /\ n' = SetState([n EXCEPT !.sa = m.key], "Helloing")
        /\ net' = Readable(net \ {m}, "n", m.key)
        /\ UNCHANGED <<cfg, a, nTasks, vs, pool, ops, uids>>
  BY DEF NKeyed
<1> DEFINE l == [n EXCEPT !.sa = m.key]
<1>2. m.key \in Keys BY DEF TypeOK, MsgOK
<1>3. /\ l \in NLinks /\ l.sa = m.key /\ l.live = n.live /\ l.uid = n.uid
      /\ l.addr = n.addr /\ l.aaa = n.aaa
  BY <1>2, NFacts DEF NLinks, KeyOrNone
<1>4. n' = SetState(l, "Helloing") BY <1>1
<1> HIDE DEF l
<1>5. NMoved(l, n', "Helloing") BY <1>3, <1>4, NSetStateMoves DEF States
<1>6. /\ n' \in NLinks /\ n'.live /\ n'.uid = n.uid /\ n'.sa = m.key /\ n'.addr = n.addr
      /\ n'.aaa = n.aaa /\ n'.st = "Helloing"
  BY <1>1, <1>3, <1>5 DEF NMoved
<1>7. n.aaa = None /\ n.addr = None BY <1>1, NFacts DEF NLinkInv, Early, Ending
<1>8. NLinkInv(n, nTasks)'
  <2>1. nTasks.drops = 0 /\ nTasks.dones = nTasks.old
    BY <1>1, NFacts DEF Tasks, NLinkInv, NCleaning, Ending
  <2>2. NCleaning(n, nTasks)' BY <1>1, <2>1, NFacts DEF Tasks, NCleaning
  <2> QED BY <1>1, <1>2, <1>6, <1>7, <2>2 DEF NLinkInv, NKeys, Early
<1>9. NKept BY <1>1, <1>6 DEF NKept, Past, Ending
<1>10. NStep BY <1>1, <1>6, <1>8, <1>9, NFacts DEF NStep
<1>11. VsStep BY <1>1, <1>6, VsSame
<1>12. NNetStep BY <1>1, NNetSame DEF Readable
<1> QED BY <1>1, <1>10, <1>11, <1>12, NStepDone

LEMMA NHelloKeeps ==
    ASSUME TypeOK, DockInv, NHello PROVE TypeOK' /\ DockInv'
<1>1. PICK m \in HelloRequests :
      /\ n.live
      /\ IF n.st = "Helloing"
         THEN \E x \in FreeAddresses(pool) :
                /\ pool' = Allocated(pool, x)
                /\ n' = [SetState(AssignedAaa(n, x), "WaitForAcquire")
                            EXCEPT !.initauth = "sent"]
                /\ net' = (net \ {m})
                     \cup Send({HelloResponse(m.key, x, AvailableIdps), InitAuth(m.key)})
         ELSE net' = net \ {m} /\ UNCHANGED <<n, pool>>
      /\ UNCHANGED <<cfg, a, nTasks, vs, ops, uids>>
  BY DEF NHello
<1>2. CASE n.st # "Helloing"
  <2>1. net' = net \ {m} /\ UNCHANGED <<n, pool>> BY <1>1, <1>2
  <2>2. NMoved(n, n', n.st) BY <2>1, NFacts
  <2>3. NStep BY <1>1, <2>2, NFacts, NSameStep
  <2>4. VsStep BY <1>1, <2>1, VsSame
  <2> QED BY <1>1, <2>1, <2>3, <2>4, NNetSame, NStepDone
<1>3. CASE n.st = "Helloing"
  <2>1. PICK x \in FreeAddresses(pool) :
          /\ pool' = Allocated(pool, x)
          /\ n' = [SetState(AssignedAaa(n, x), "WaitForAcquire") EXCEPT !.initauth = "sent"]
          /\ net' = (net \ {m})
               \cup Send({HelloResponse(m.key, x, AvailableIdps), InitAuth(m.key)})
    BY <1>1, <1>3
  <2>2. x \in AaaOrNone BY DEF FreeAddresses, AaaOrNone
  <2>3. n.aaa = None /\ n.addr = None /\ n.sa \in Keys
    BY <1>1, <1>3, NFacts DEF NLinkInv, Early, NKeys, InSession, Ending
  <2> DEFINE l == AssignedAaa(n, x)
             s == SetState(l, "WaitForAcquire")
  <2>4. /\ l \in NLinks /\ l.aaa = x /\ l.live = n.live /\ l.uid = n.uid /\ l.sa = n.sa
        /\ l.addr = n.addr
    BY <2>2, NFacts DEF AssignedAaa, NLinks
  <2>5. n' = [s EXCEPT !.initauth = "sent"] BY <2>1
  <2> HIDE DEF l
  <2>6. NMoved(l, s, "WaitForAcquire") BY <2>4, NSetStateMoves DEF States
  <2> HIDE DEF s
  <2>7. s \in NLinks BY <2>6 DEF NMoved
  <2>8. NMoved(s, n', s.st) BY <2>5, <2>7 DEF NMoved, NLinks
  <2>9. /\ n' \in NLinks /\ n'.live /\ n'.uid = n.uid /\ n'.sa = n.sa /\ n'.addr = None
        /\ n'.aaa = x /\ n'.st = "WaitForAcquire"
    BY <1>1, <2>3, <2>4, <2>6, <2>8 DEF NMoved
  <2>10. NLinkInv(n, nTasks)'
    <3>1. NKeys(n') BY <2>3, <2>9, NFacts DEF NLinkInv, NKeys
    <3>2. Early(n') BY <2>9 DEF Early
    <3>3. nTasks.drops = 0 /\ nTasks.dones = nTasks.old
      BY <1>1, <1>3, NFacts DEF Tasks, NLinkInv, NCleaning, Ending
    <3>4. NCleaning(n, nTasks)' BY <1>1, <3>3, NFacts DEF Tasks, NCleaning
    <3> QED BY <3>1, <3>2, <3>4 DEF NLinkInv
  <2>11. NKept BY <1>1, <1>3, <2>9 DEF NKept, Past, Ending
  <2>12. NStep BY <1>1, <2>9, <2>10, <2>11, NFacts DEF NStep
  <2>13. VsStep
    <3>1. VsInv'
      BY <1>1, <2>3, <2>9 DEF DockInv, VsInv, ActorsAccounted
    <3>2. nTasks.cut \/ pool = {} BY <1>1, <2>3 DEF DockInv, AaaKept, AaaAccounted
    <3>3. pool' = (pool \cup {x}) \ {None} BY <2>1 DEF Allocated
    <3>4. AaaKept' BY <1>1, <2>9, <3>2, <3>3 DEF AaaKept, AaaAccounted
    <3>5. pool' \subseteq AaaAddrs BY <2>2, <3>3 DEF TypeOK, AaaOrNone
    <3> QED BY <1>1, <3>1, <3>4, <3>5 DEF TypeOK, VsStep
  <2>14. NNetStep
    <3>1. m.key \in Keys /\ m.key[2] <= uids
      BY DEF HelloRequests, To, TypeOK, MsgOK, DockInv, PairInv
    <3>2. AvailableIdps \in BOOLEAN
      BY DockingAssumption DEF TypeOK, AvailableIdps
    <3>3. Harmless(HelloResponse(m.key, x, AvailableIdps))
      BY <2>2, <3>1, <3>2 DEF Harmless, MsgOK, HelloResponse, Msg
    <3>4. Harmless(InitAuth(m.key))
      BY <3>1 DEF Harmless, MsgOK, InitAuth, InitAuthenticationRequest, NewChallenge, Msg
    <3> QED BY <2>1, <3>3, <3>4, SendSub DEF NNetStep
  <2> QED BY <1>1, <2>12, <2>13, <2>14, NStepDone
<1> QED BY <1>2, <1>3

LEMMA NInitAuthAckKeeps ==
    ASSUME TypeOK, DockInv, NInitAuthAck PROVE TypeOK' /\ DockInv'
<1> DEFINE l == [n EXCEPT !.initauth = "acked"]
<1>1. /\ n' = IF n.st = "WaitForAcquire" THEN SetTimeout(l) ELSE n
      /\ net' \subseteq net /\ UNCHANGED <<cfg, a, nTasks, vs, pool, ops, uids>>
  BY DEF NInitAuthAck
<1>2. NMoved(n, l, n.st) BY NFacts DEF NMoved, NLinks
<1> HIDE DEF l
<1>3. l \in NLinks /\ l.st = n.st BY <1>2 DEF NMoved
<1>4. NMoved(l, SetTimeout(l), n.st) BY <1>3, NSetTimeoutMoves
<1>5. NMoved(n, SetTimeout(l), n.st) BY <1>2, <1>4, NMovedMoved
<1>6. NMoved(n, n', n.st) BY <1>1, <1>5, NFacts
<1>7. NStep BY <1>1, <1>6, NFacts, NSameStep
<1>8. VsStep BY <1>1, <1>6, VsSame DEF NMoved
<1> QED BY <1>1, <1>7, <1>8, NNetSame, NStepDone

LEMMA NKeepAliveKeeps ==
    ASSUME TypeOK, DockInv, NKeepAlive PROVE TypeOK' /\ DockInv'
<1> DEFINE l == [n EXCEPT !.echo = FALSE, !.misses = 0]
<1>1. n' = SetTimeout(l) /\ UNCHANGED <<cfg, a, nTasks, net, vs, pool, ops, uids>>
  BY DEF NKeepAlive, EchoAnswered
<1>2. NMoved(n, l, n.st) BY NFacts DEF NMoved, NLinks
<1> HIDE DEF l
<1>3. l \in NLinks /\ l.st = n.st BY <1>2 DEF NMoved
<1>4. NMoved(l, n', n.st) BY <1>1, <1>3, NSetTimeoutMoves
<1>5. NMoved(n, n', n.st) BY <1>2, <1>4, NMovedMoved
<1>6. NStep BY <1>1, <1>5, NFacts, NSameStep
<1>7. VsStep BY <1>1, <1>5, VsSame DEF NMoved
<1> QED BY <1>1, <1>6, <1>7, NNetSame, NStepDone

LEMMA NInitAuthTimeoutKeeps ==
    ASSUME TypeOK, DockInv, NInitAuthTimeout PROVE TypeOK' /\ DockInv'
<1> DEFINE b == [n EXCEPT !.initauth = "none"]
           l == SetState(b, "Error")
<1>1. NClosing(l, "timeout", net) /\ UNCHANGED <<cfg, a, nTasks, vs, pool, ops, uids>>
  BY DEF NInitAuthTimeout
<1>2. NMoved(n, b, n.st) BY NFacts DEF NMoved, NLinks
<1> HIDE DEF b
<1>3. b \in NLinks BY <1>2 DEF NMoved
<1>4. "Error" \in States BY DEF States
<1>5. NMoved(b, l, "Error") BY <1>3, <1>4, NSetStateMoves
<1> HIDE DEF l
<1>6. NMoved(n, l, "Error") BY <1>2, <1>5, NMovedMoved
<1> QED BY <1>1, <1>4, <1>6, NFacts, NClosedStep

LEMMA NCloseKeeps ==
    ASSUME TypeOK, DockInv, NClose PROVE TypeOK' /\ DockInv'
<1>1. PICK r \in {"shutdown", "other"} : NClosing(n, r, net) BY DEF NClose
<1>2. ops' = ops + 1 /\ UNCHANGED <<cfg, a, nTasks, vs, pool, uids>> BY DEF NClose
<1>3. n.st \in States BY NFacts DEF NLinks
<1> QED BY <1>1, <1>2, <1>3, NFacts, NClosedStep

LEMMA NDisconnectAckKeeps ==
    ASSUME TypeOK, DockInv, NDisconnectAck PROVE TypeOK' /\ DockInv'
<1>1. /\ n' = ContinueClose(n) /\ net' = net \cup TermTo("a", n.sa)
      /\ UNCHANGED <<cfg, a, nTasks, vs, pool, ops, uids>>
  BY DEF NDisconnectAck
<1>2. NMoved(n, n', "Closing") BY <1>1, NFacts, NContinueCloseMoves
<1>3. "Closing" \in Ending BY DEF Ending
<1>4. NStep BY <1>1, <1>2, <1>3, NFacts, NEndStep
<1>5. VsStep BY <1>1, <1>2, VsSame DEF NMoved
<1>6. NNetStep BY <1>1, NFacts, NNetTerm
<1> QED BY <1>1, <1>4, <1>5, <1>6, NStepDone

-------------------------------------------------------------------------------
(* The visa service's queue of commands.                                   *)

HasBye(q, x) == \E i \in 1..Len(q) : q[i] = Bye(x)

LEMMA ByeAppend ==
    ASSUME NEW q \in Seq(Commands), NEW e \in Commands
    PROVE  /\ Append(q, e) \in Seq(Commands)
           /\ \A x : HasBye(q, x) \/ e = Bye(x) => HasBye(Append(q, e), x)
<1>1. Append(q, e) \in Seq(Commands) OBVIOUS
<1>2. Len(Append(q, e)) = Len(q) + 1 /\ Append(q, e)[Len(q) + 1] = e /\ Len(q) \in Nat
  OBVIOUS
<1>3. \A i \in 1..Len(q) : Append(q, e)[i] = q[i] /\ i \in 1..Len(q) + 1
  BY <1>2
<1> DEFINE p == Append(q, e)
<1>4. ASSUME NEW x, HasBye(q, x) PROVE HasBye(p, x)
  <2>1. PICK i \in 1..Len(q) : q[i] = Bye(x) BY <1>4 DEF HasBye
  <2> QED BY <1>2, <1>3, <2>1 DEF HasBye
<1>5. ASSUME NEW x, e = Bye(x) PROVE HasBye(p, x)
  <2>1. Len(q) + 1 \in 1..Len(p) BY <1>2
  <2> QED BY <1>2, <1>5, <2>1 DEF HasBye
<1> QED BY <1>1, <1>4, <1>5

LEMMA ByeTail ==
    ASSUME NEW q \in Seq(Commands), q # <<>>
    PROVE  /\ Tail(q) \in Seq(Commands) /\ Head(q) \in Commands
           /\ \A x : HasBye(q, x) /\ Head(q) # Bye(x) => HasBye(Tail(q), x)
<1>1. Tail(q) \in Seq(Commands) /\ Head(q) \in Commands OBVIOUS
<1>2. ASSUME NEW x, HasBye(q, x), Head(q) # Bye(x) PROVE HasBye(Tail(q), x)
  <2>1. PICK i \in 1..Len(q) : q[i] = Bye(x) BY <1>2 DEF HasBye
  <2>2. i # 1 BY <1>2, <2>1
  <2>3. i - 1 \in 1..Len(Tail(q)) /\ Tail(q)[i - 1] = q[i] BY <2>2
  <2> QED BY <2>1, <2>3 DEF HasBye
<1> QED BY <1>1, <1>2

LEMMA ByeCommand ==
    /\ \A x : Bye(x)[1] = "bye" /\ Bye(x)[2] = x
    /\ \A x \in Addrs : Bye(x) \in Commands
    /\ \A u \in Nat : <<"authorize", u>> \in Commands /\ <<"authorize", u>>[1] = "authorize"
BY DEF Bye, Commands

LEMMA VsFacts ==
    ASSUME TypeOK, DockInv
    PROVE  /\ vs \in [q : Seq(Commands), actors : SUBSET Addrs, kept : SUBSET Addrs]
           /\ vs.q \in Seq(Commands) /\ vs.actors \subseteq Addrs /\ vs.kept \subseteq Addrs
           /\ (cfg.vs => vs.q = <<>> /\ vs.kept = {})
           /\ nTasks.cut \/ \A x \in vs.kept : (n.live /\ n.addr = x) \/ HasBye(vs.q, x)
BY DEF TypeOK, DockInv, VsInv, ActorsAccounted, HasBye

LEMMA VsDone ==
    ASSUME vs' \in [q : Seq(Commands), actors : SUBSET Addrs, kept : SUBSET Addrs],
           (cfg.vs => vs.q = <<>> /\ vs.kept = {})',
           nTasks'.cut \/ \A x \in vs'.kept : (n'.live /\ n'.addr = x) \/ HasBye(vs'.q, x),
           AaaKept', pool' \subseteq AaaAddrs
    PROVE  VsStep
BY DEF VsStep, VsInv, ActorsAccounted, HasBye

-------------------------------------------------------------------------------
(* The node cleans up.                                                     *)

LEMMA NCleanUpStep ==
    ASSUME TypeOK, DockInv, NEW l, NEW s \in {"Closing", "Resetting"}, NMoved(n, l, s),
           NCleanUp(l), n.live, ops' \in Nat, UNCHANGED <<cfg, a, uids>>, NNetStep
    PROVE  TypeOK' /\ DockInv'
<1> DEFINE y == IF cfg.vs THEN l.addr ELSE None
           d == nTasks.drops + 1
<1>1. /\ l \in NLinks /\ l.live /\ l.uid = n.uid /\ l.sa = n.sa /\ l.addr = n.addr
      /\ l.aaa = n.aaa /\ l.st = s
  BY DEF NMoved
<1>2. /\ n' = [l EXCEPT !.aaa = None, !.addr = y] /\ pool' = ReleaseAddress(pool, l.aaa)
      /\ vs' = IF cfg.vs \/ l.addr = None THEN vs ELSE [vs EXCEPT !.q = Append(@, Bye(l.addr))]
      /\ nTasks' = [nTasks EXCEPT !.drops = d]
  BY DEF NCleanUp
<1>3. y \in AddrOrNone /\ (cfg.vs \/ y = None) BY <1>1 DEF NLinks, AddrOrNone
<1>4. /\ nTasks' \in Tasks /\ nTasks'.cut = nTasks.cut
      /\ nTasks'.old <= nTasks'.drops + nTasks'.dones
  <2>1. d \in Nat BY NFacts DEF Tasks
  <2> HIDE DEF d
  <2>2. /\ nTasks' \in Tasks /\ nTasks'.cut = nTasks.cut /\ nTasks'.drops = d
        /\ nTasks'.dones = nTasks.dones /\ nTasks'.old = nTasks.old
    BY <1>2, <2>1, NFacts DEF Tasks
  <2> QED BY <2>2, NFacts DEF d, Tasks, NLinkInv, NCleaning
<1> HIDE DEF y, d
<1>5. /\ n' \in NLinks /\ n'.live /\ n'.uid = n.uid /\ n'.sa = n.sa /\ n'.addr = y
      /\ n'.aaa = None /\ n'.st = s
  BY <1>1, <1>2, <1>3 DEF NLinks, AaaOrNone
<1>6. NLinkInv(n, nTasks)'
  <2>1. NKeys(n') BY <1>5, NFacts DEF NLinkInv, NKeys, InSession
  <2>2. Early(n') BY <1>5 DEF Early, Ending
  <2>3. NCleaning(n, nTasks)' BY <1>3, <1>4, <1>5 DEF NCleaning, Ending
  <2> QED BY <2>1, <2>2, <2>3 DEF NLinkInv
<1>7. NKept BY <1>5 DEF NKept, Past, Ending
<1>8. NStep BY <1>4, <1>5, <1>6, <1>7, NFacts DEF NStep
<1>9. AaaKept' /\ pool' \subseteq AaaAddrs
  <2>1. nTasks.cut \/ pool' = {}
    BY <1>1, <1>2 DEF DockInv, AaaKept, AaaAccounted, ReleaseAddress
  <2>2. pool' \subseteq AaaAddrs BY <1>2 DEF TypeOK, ReleaseAddress
  <2> QED BY <1>4, <1>5, <2>1, <2>2 DEF AaaKept, AaaAccounted
<1>10. VsStep
  <2>1. CASE cfg.vs
    <3>1. vs' = vs BY <1>2, <2>1
    <3> QED BY <1>4, <1>9, <2>1, <3>1, VsFacts, VsDone
  <2>2. CASE ~cfg.vs /\ n.addr = None
    <3>1. vs' = vs BY <1>1, <1>2, <2>2
    <3>2. None \notin Addrs BY DockingAssumption
    <3>3. nTasks.cut \/ \A x \in vs.kept : HasBye(vs.q, x) BY <2>2, <3>2, VsFacts
    <3> QED BY <1>4, <1>9, <2>2, <3>1, <3>3, VsFacts, VsDone
  <2>3. CASE ~cfg.vs /\ n.addr # None
    <3> DEFINE e == Bye(n.addr)
               p == Append(vs.q, e)
    <3>1. vs' = [vs EXCEPT !.q = p] BY <1>1, <1>2, <2>3
    <3>2. e \in Commands BY <1>1, <2>3, ByeCommand DEF NLinks, AddrOrNone
    <3>3. p \in Seq(Commands) /\ \A x : HasBye(vs.q, x) \/ x = n.addr => HasBye(p, x)
      BY <3>2, ByeAppend, VsFacts
    <3> HIDE DEF p, e
    <3>4. /\ vs' \in [q : Seq(Commands), actors : SUBSET Addrs, kept : SUBSET Addrs]
          /\ vs'.q = p /\ vs'.kept = vs.kept
      BY <3>1, <3>3, VsFacts
    <3>5. nTasks'.cut \/ \A x \in vs'.kept : HasBye(vs'.q, x)
      BY <1>4, <3>3, <3>4, VsFacts
    <3> QED BY <1>9, <2>3, <3>4, <3>5, VsDone
  <2> QED BY <2>1, <2>2, <2>3
<1> QED BY <1>8, <1>10, NStepDone

LEMMA NTerminatedKeeps ==
    ASSUME TypeOK, DockInv, NTerminated PROVE TypeOK' /\ DockInv'
<1> DEFINE l == SetState(n, "Closing")
<1>1. PICK m \in To("n", "term") :
        /\ n.live /\ NCleanUp(l)
        /\ net' = (net \ {m}) \cup Send({Msg("a", "termack", m.key, None)})
        /\ UNCHANGED <<cfg, a, ops, uids>>
  BY DEF NTerminated
<1>2. NMoved(n, l, "Closing") BY NFacts, NSetStateMoves DEF States
<1> HIDE DEF l
<1>3. m \in net /\ m.key \in Keys /\ m.key[2] <= uids
  BY DEF To, TypeOK, MsgOK, DockInv, PairInv
<1>4. Harmless(Msg("a", "termack", m.key, None)) BY <1>3, PlainHarmless
<1>5. NNetStep BY <1>1, <1>4, SendSub DEF NNetStep
<1> QED BY <1>1, <1>2, <1>5, NFacts, NCleanUpStep

LEMMA NTerminateAckKeeps ==
    ASSUME TypeOK, DockInv, NTerminateAck PROVE TypeOK' /\ DockInv'
<1> DEFINE l == CancelTimeout(n)
<1>1. /\ n.live /\ net' \subseteq net /\ UNCHANGED <<cfg, a, ops, uids>>
      /\ IF n.st = "Closing" THEN NCleanUp(l) ELSE UNCHANGED <<n, pool, vs, nTasks>>
  BY DEF NTerminateAck
<1>2. NMoved(n, l, n.st) BY NFacts, NCancelTimeoutMoves
<1> HIDE DEF l
<1>3. CASE n.st = "Closing" BY <1>1, <1>2, <1>3, NNetSame, NFacts, NCleanUpStep
<1>4. CASE n.st # "Closing"
  <2>1. UNCHANGED <<n, pool, vs, nTasks>> BY <1>1, <1>4
  <2>2. NStep BY <1>1, <2>1, NFacts, NSameStep
  <2>3. VsStep BY <1>1, <2>1, VsSame
  <2> QED BY <1>1, <2>2, <2>3, NNetSame, NStepDone
<1> QED BY <1>3, <1>4

LEMMA NResetKeeps ==
    ASSUME TypeOK, DockInv, NReset PROVE TypeOK' /\ DockInv'
<1> DEFINE l == SetState(n, "Resetting")
<1>1. /\ n.live /\ ops' = ops + 1 /\ NCleanUp(l) /\ net' = net \cup TermTo("a", n.sa)
      /\ UNCHANGED <<cfg, a, uids>>
  BY DEF NReset
<1>2. NMoved(n, l, "Resetting") BY NFacts, NSetStateMoves DEF States
<1> HIDE DEF l
<1>3. NNetStep BY <1>1, NFacts, NNetTerm
<1> QED BY <1>1, <1>2, <1>3, NFacts, NCleanUpStep

LEMMA NEchoTimeoutMoves ==
    ASSUME NEW l \in NLinks PROVE NMoved(l, EchoTimeout(l), l.st)
<1> DEFINE p == [l EXCEPT !.misses = @ + 1]
           q == [l EXCEPT !.echo = TRUE]
           k == IF l.echo THEN p ELSE q
<1>1. EchoTimeout(l) = SetTimeout(k) BY DEF EchoTimeout
<1>2. NMoved(l, p, l.st)
  <2> DEFINE d == l.misses + 1
  <2>1. d \in Nat BY DEF NLinks
  <2>2. p = [l EXCEPT !.misses = d] OBVIOUS
  <2> HIDE DEF d, p
  <2> QED BY <2>1, <2>2 DEF NMoved, NLinks
<1>3. NMoved(l, q, l.st) BY DEF NMoved, NLinks
<1> HIDE DEF p, q
<1>4. NMoved(l, k, l.st) BY <1>2, <1>3
<1> HIDE DEF k
<1>5. k \in NLinks /\ k.st = l.st BY <1>4 DEF NMoved
<1>6. NMoved(k, SetTimeout(k), l.st) BY <1>5, NSetTimeoutMoves
<1> QED BY <1>1, <1>4, <1>6, NMovedMoved

LEMMA NTimeoutKeeps ==
    ASSUME TypeOK, DockInv, NTimeout PROVE TypeOK' /\ DockInv'
<1> DEFINE l == [n EXCEPT !.timer = FALSE]
           j == [l EXCEPT !.echo = FALSE]
<1>1. /\ n.live /\ UNCHANGED <<cfg, a, ops, uids>>
      /\ \/ NClosing(SetState(l, "Error"), "timeout", net) /\ UNCHANGED <<vs, pool, nTasks>>
         \/ NClosing(SetState(j, "Error"), "timeout", net) /\ UNCHANGED <<vs, pool, nTasks>>
         \/ n' = EchoTimeout(l) /\ net' = net /\ UNCHANGED <<vs, pool, nTasks>>
         \/ n.st = "Closing" /\ NCleanUp(l) /\ net' = net
         \/ n' = l /\ net' = net /\ UNCHANGED <<vs, pool, nTasks>>
  BY DEF NTimeout
<1>2. NMoved(n, l, n.st) BY NFacts DEF NMoved, NLinks
<1> HIDE DEF l
<1>3. l \in NLinks /\ l.st = n.st BY <1>2 DEF NMoved
<1>4. NMoved(l, j, n.st) BY <1>3 DEF NMoved, NLinks
<1> HIDE DEF j
<1>5. NMoved(n, j, n.st) /\ j \in NLinks BY <1>2, <1>4, NMovedMoved DEF NMoved
<1>0. "Error" \in States BY DEF States
<1>6. CASE NClosing(SetState(l, "Error"), "timeout", net) /\ UNCHANGED <<vs, pool, nTasks>>
  <2>1. NMoved(l, SetState(l, "Error"), "Error") BY <1>0, <1>3, NSetStateMoves
  <2>2. NMoved(n, SetState(l, "Error"), "Error") BY <1>2, <2>1, NMovedMoved
  <2> QED BY <1>0, <1>1, <1>6, <2>2, NFacts, NClosedStep
<1>7. CASE NClosing(SetState(j, "Error"), "timeout", net) /\ UNCHANGED <<vs, pool, nTasks>>
  <2>1. NMoved(j, SetState(j, "Error"), "Error") BY <1>0, <1>5, NSetStateMoves
  <2>2. NMoved(n, SetState(j, "Error"), "Error") BY <1>5, <2>1, NMovedMoved
  <2> QED BY <1>0, <1>1, <1>7, <2>2, NFacts, NClosedStep
<1>8. CASE n' \in {l, EchoTimeout(l)} /\ net' = net /\ UNCHANGED <<vs, pool, nTasks>>
  <2>1. NMoved(l, EchoTimeout(l), n.st) BY <1>3, NEchoTimeoutMoves
  <2>2. NMoved(n, n', n.st) BY <1>2, <1>8, <2>1, NMovedMoved
  <2>3. NStep BY <1>1, <1>8, <2>2, NFacts, NSameStep
  <2>4. VsStep BY <1>1, <1>8, <2>2, VsSame DEF NMoved
  <2> QED BY <1>1, <1>8, <2>3, <2>4, NNetSame, NStepDone
<1>9. CASE n.st = "Closing" /\ NCleanUp(l) /\ net' = net
  BY <1>1, <1>2, <1>9, NNetSame, NFacts, NCleanUpStep
<1> QED BY <1>1, <1>6, <1>7, <1>8, <1>9

-------------------------------------------------------------------------------
(* Authorization.                                                          *)

LEMMA GrantedIs ==
    ASSUME NEW l \in NLinks, NEW x \in AddrOrNone
    PROVE  LET k == Granted(l, x)
           IN /\ k \in NLinks /\ k.live = l.live /\ k.uid = l.uid /\ k.sa = l.sa
              /\ k.aaa = l.aaa /\ k.addr = x /\ k.st = "Active"
<1> DEFINE c == [l EXCEPT !.addr = x]
           s == SetState(c, "Active")
           t == [s EXCEPT !.echo = FALSE, !.misses = 0]
           k == SetTimeout(t)
<1>1. Granted(l, x) = k BY DEF Granted, RunActive
<1>2. /\ c \in NLinks /\ c.live = l.live /\ c.uid = l.uid /\ c.sa = l.sa
      /\ c.aaa = l.aaa /\ c.addr = x
  BY DEF NLinks
<1> HIDE DEF c
<1>3. NMoved(c, s, "Active") BY <1>2, NSetStateMoves DEF States
<1> HIDE DEF s
<1>4. s \in NLinks /\ s.st = "Active" BY <1>3 DEF NMoved
<1>5. NMoved(s, t, "Active") BY <1>4 DEF NMoved, NLinks
<1> HIDE DEF t
<1>6. t \in NLinks /\ t.st = "Active" BY <1>5 DEF NMoved
<1>7. NMoved(t, k, "Active") BY <1>6, NSetTimeoutMoves
<1> HIDE DEF k
<1>8. NMoved(c, k, "Active") BY <1>3, <1>5, <1>7, NMovedMoved
<1> QED BY <1>1, <1>2, <1>8 DEF NMoved

\* A link that waits to be authorized becomes active.
LEMMA NGrantStep ==
    ASSUME TypeOK, DockInv, n.live, n.st \in {"WaitForAcquire", "RegisterAA"}, NEW x,
           n' \in NLinks, n'.live, n'.uid = n.uid, n'.sa = n.sa, n'.aaa = n.aaa,
           n'.addr = x, n'.st = "Active", UNCHANGED <<cfg, nTasks, ops, uids>>,
           NEW M, M \subseteq net, net' = M \cup SendGrant(n, x)
    PROVE  NStep /\ NNetStep
<1>1. n.sa \in Keys /\ n.sa[2] = n.uid
  BY NFacts, KeyNotNone DEF NLinkInv, NKeys, InSession
<1>2. NLinkInv(n, nTasks)'
  <2>1. nTasks.drops = 0 /\ nTasks.dones = nTasks.old BY NSpent DEF Ending
  <2>2. NCleaning(n, nTasks)' BY <2>1, NFacts DEF Tasks, NCleaning
  <2> QED BY <1>1, <2>2, NFacts DEF NLinkInv, NKeys, Early
<1>3. NKept BY DEF NKept, Past, Ending
<1>4. NStep BY <1>2, <1>3, NFacts DEF NStep
<1> DEFINE g == GrantZprAddressRequest(n.sa, x)
<1>5. /\ MsgOK(g) /\ g.key[2] <= uids /\ g.key[2] = n'.uid /\ g.v = x
  <2>1. x \in AddrOrNone BY DEF NLinks
  <2> QED BY <1>1, <2>1, NFacts DEF GrantZprAddressRequest, Msg, MsgOK
<1>6. SendGrant(n, x) \subseteq {g} BY SendSub DEF SendGrant
<1> HIDE DEF g
<1>7. NNetStep
  <2>1. \A m \in net' : m \in net \/ m = g BY <1>6
  <2> QED BY <1>5, <2>1 DEF NNetStep, GrantedTo, Ending
<1> QED BY <1>4, <1>7

LEMMA NAcquireKeeps ==
    ASSUME TypeOK, DockInv, NAcquire PROVE TypeOK' /\ DockInv'
<1> DEFINE x(m) == RequestedAddress(m)
<1> PICK m \in AcquireRequests :
      /\ n.live
      /\ \/ n' = n /\ net' = net \ {m} /\ vs' = vs
         \/ NClosing(n, "other", net \ {m}) /\ vs' = vs
         \/ /\ n.st = "WaitForAcquire" /\ ~cfg.vs
            /\ n' = SetState(n, "RegisterAA") /\ net' = net \ {m}
            /\ vs' = [vs EXCEPT !.q = Append(@, ConnectRequest(n))]
         \/ /\ n.st = "WaitForAcquire" /\ cfg.vs
            /\ n' = Granted(SetState(n, "RegisterAA"), x(m)) /\ vs' = vs
            /\ net' = (net \ {m}) \cup SendGrant(n, x(m))
      /\ UNCHANGED <<cfg, a, nTasks, pool, ops, uids>>
  BY DEF NAcquire
<1>1. x(m) \in AddrOrNone
  <2>1. m \in net /\ m.type = "acquire" BY DEF AcquireRequests, To
  <2>2. m.v \in (SUBSET BlobSet) \X AddrOrNone BY <2>1 DEF TypeOK, MsgOK
  <2> QED BY <2>2 DEF RequestedAddress
<1> HIDE DEF x
<1> DEFINE r == SetState(n, "RegisterAA")
<1>2. NMoved(n, r, "RegisterAA") BY NFacts, NSetStateMoves DEF States
<1>3. CASE n' = n /\ net' = net \ {m} /\ vs' = vs
  <2>1. NStep BY <1>3, NFacts, NSameStep
  <2>2. VsStep BY <1>3, VsSame
  <2> QED BY <1>3, <2>1, <2>2, NNetSame, NStepDone
<1>4. CASE NClosing(n, "other", net \ {m}) /\ vs' = vs
  <2>1. n.st \in States BY NFacts DEF NLinks
  <2> QED BY <1>4, <2>1, NFacts, NClosedStep
<1>5. CASE /\ n.st = "WaitForAcquire" /\ ~cfg.vs /\ n' = r /\ net' = net \ {m}
           /\ vs' = [vs EXCEPT !.q = Append(@, ConnectRequest(n))]
  <2> HIDE DEF r
  <2>1. /\ n' \in NLinks /\ n'.live /\ n'.uid = n.uid /\ n'.sa = n.sa /\ n'.addr = n.addr
        /\ n'.aaa = n.aaa /\ n'.st = "RegisterAA"
    BY <1>2, <1>5 DEF NMoved
  <2>2. NLinkInv(n, nTasks)'
    <3>1. n.sa \in Keys /\ n.addr = None
      BY <1>5, NFacts DEF NLinkInv, NKeys, Early, InSession, Ending
    <3>2. nTasks.drops = 0 /\ nTasks.dones = nTasks.old BY <1>5, NSpent DEF Ending
    <3>3. NCleaning(n, nTasks)' BY <3>2, NFacts DEF Tasks, NCleaning
    <3> QED BY <2>1, <3>1, <3>3, NFacts DEF NLinkInv, NKeys, Early
  <2>3. NKept BY <1>5, <2>1 DEF NKept, Past, Ending
  <2>4. NStep BY <2>1, <2>2, <2>3, NFacts DEF NStep
  <2>5. VsStep
    <3> DEFINE e == ConnectRequest(n)
               p == Append(vs.q, e)
    <3>1. vs' = [vs EXCEPT !.q = p] BY <1>5
    <3>2. e \in Commands BY NFacts, ByeCommand DEF ConnectRequest
    <3> HIDE DEF e
    <3>3. p \in Seq(Commands) /\ \A z : HasBye(vs.q, z) => HasBye(p, z)
      BY <3>2, ByeAppend, VsFacts
    <3> HIDE DEF p
    <3>4. /\ vs' \in [q : Seq(Commands), actors : SUBSET Addrs, kept : SUBSET Addrs]
          /\ vs'.q = p /\ vs'.kept = vs.kept
      BY <3>1, <3>3, VsFacts
    <3>5. nTasks'.cut \/ \A z \in vs'.kept : (n'.live /\ n'.addr = z) \/ HasBye(vs'.q, z)
      BY <2>1, <3>3, <3>4, VsFacts
    <3>6. AaaKept' /\ pool' \subseteq AaaAddrs
      BY <2>1 DEF TypeOK, DockInv, AaaKept, AaaAccounted
    <3> QED BY <1>5, <3>4, <3>5, <3>6, VsDone
  <2> QED BY <1>5, <2>4, <2>5, NNetSame, NStepDone
<1>6. CASE /\ n.st = "WaitForAcquire" /\ cfg.vs /\ n' = Granted(r, x(m)) /\ vs' = vs
           /\ net' = (net \ {m}) \cup SendGrant(n, x(m))
  <2> HIDE DEF r
  <2>1. r \in NLinks BY <1>2 DEF NMoved
  <2>2. /\ n' \in NLinks /\ n'.live = r.live /\ n'.uid = r.uid /\ n'.sa = r.sa
        /\ n'.aaa = r.aaa /\ n'.addr = x(m) /\ n'.st = "Active"
    BY <1>1, <1>6, <2>1, GrantedIs
  <2>3. n'.live /\ n'.uid = n.uid /\ n'.sa = n.sa /\ n'.aaa = n.aaa
    BY <1>2, <2>2 DEF NMoved
  <2>4. NStep /\ NNetStep BY <1>6, <2>2, <2>3, NGrantStep
  <2>5. VsStep
    <3>1. AaaKept' /\ pool' \subseteq AaaAddrs
      BY <2>3 DEF TypeOK, DockInv, AaaKept, AaaAccounted
    <3> QED BY <1>6, <3>1, VsFacts, VsDone
  <2> QED BY <2>4, <2>5, NStepDone
<1> QED BY <1>3, <1>4, <1>5, <1>6

LEMMA NAuthorizedKeeps ==
    ASSUME TypeOK, DockInv, NAuthorized PROVE TypeOK' /\ DockInv'
<1> DEFINE V(x) == [vs EXCEPT !.q = Tail(@), !.actors = @ \cup {x}]
<1>1. PICK x \in Addrs :
        /\ vs.q # <<>> /\ Head(vs.q)[1] = "authorize"
        /\ IF AwaitsAuthorize(n)
           THEN /\ n' = Granted(n, x) /\ net' = net \cup SendGrant(n, x)
                /\ vs' = [V(x) EXCEPT !.kept = @ \cup {x}]
           ELSE n' = n /\ net' = net /\ vs' = V(x)
        /\ UNCHANGED <<cfg, a, nTasks, pool, ops, uids>>
  BY DEF NAuthorized
<1> DEFINE p == Tail(vs.q)
           A == vs.actors \cup {x}
           w == V(x)
<1>2. w = [vs EXCEPT !.q = p, !.actors = A] OBVIOUS
<1>3. p \in Seq(Commands) /\ A \in SUBSET Addrs BY <1>1, ByeTail, VsFacts
<1>4. \A z : HasBye(vs.q, z) => HasBye(p, z) BY <1>1, ByeTail, ByeCommand, VsFacts
<1>5. ~cfg.vs BY <1>1, VsFacts
<1> HIDE DEF p, A
<1>6. /\ w \in [q : Seq(Commands), actors : SUBSET Addrs, kept : SUBSET Addrs]
      /\ w.q = p /\ w.kept = vs.kept
  <2> HIDE DEF w
  <2> QED BY <1>2, <1>3, VsFacts
<1>7. CASE ~AwaitsAuthorize(n)
  <2>1. n' = n /\ net' = net /\ vs' = w BY <1>1, <1>7
  <2> HIDE DEF w, V
  <2>2. NStep BY <1>1, <2>1, NFacts, NSameStep
  <2>3. AaaKept' /\ pool' \subseteq AaaAddrs
    BY <1>1, <2>1 DEF TypeOK, DockInv, AaaKept, AaaAccounted
  <2>4. nTasks'.cut \/ \A z \in vs'.kept : (n'.live /\ n'.addr = z) \/ HasBye(vs'.q, z)
    BY <1>1, <1>4, <1>6, <2>1, VsFacts
  <2>5. VsStep BY <1>1, <1>5, <1>6, <2>1, <2>3, <2>4, VsDone
  <2> QED BY <1>1, <2>1, <2>2, <2>5, NNetSame, NStepDone
<1>8. CASE AwaitsAuthorize(n)
  <2>1. /\ n.live /\ n.st = "RegisterAA" /\ n' = Granted(n, x)
        /\ net' = net \cup SendGrant(n, x) /\ vs' = [w EXCEPT !.kept = @ \cup {x}]
    BY <1>1, <1>8 DEF AwaitsAuthorize
  <2> HIDE DEF w, V
  <2>2. x \in AddrOrNone BY DEF AddrOrNone
  <2>3. /\ n' \in NLinks /\ n'.live = n.live /\ n'.uid = n.uid /\ n'.sa = n.sa
        /\ n'.aaa = n.aaa /\ n'.addr = x /\ n'.st = "Active"
    BY <2>1, <2>2, NFacts, GrantedIs
  <2>4. NStep /\ NNetStep BY <1>1, <2>1, <2>3, NGrantStep
  <2>5. AaaKept' /\ pool' \subseteq AaaAddrs
    BY <1>1, <2>1, <2>3 DEF TypeOK, DockInv, AaaKept, AaaAccounted
  <2>6. /\ vs' \in [q : Seq(Commands), actors : SUBSET Addrs, kept : SUBSET Addrs]
        /\ vs'.q = p /\ vs'.kept = vs.kept \cup {x}
    <3>1. w.kept \cup {x} \in SUBSET Addrs BY <1>6, VsFacts
    <3> QED BY <1>6, <2>1, <3>1
  <2>7. n.addr = None BY <2>1, NFacts DEF NLinkInv, Early, Ending
  <2>8. None \notin Addrs BY DockingAssumption
  <2>9. nTasks'.cut \/ \A z \in vs'.kept : (n'.live /\ n'.addr = z) \/ HasBye(vs'.q, z)
    BY <1>1, <1>4, <2>1, <2>3, <2>6, <2>7, <2>8, VsFacts
  <2>10. VsStep BY <1>1, <1>5, <2>5, <2>6, <2>9, VsDone
  <2> QED BY <1>1, <2>4, <2>10, NStepDone
<1> QED BY <1>7, <1>8

LEMMA NRefusedKeeps ==
    ASSUME TypeOK, DockInv, NRefused PROVE TypeOK' /\ DockInv'
<1> DEFINE e == SetState(n, "Error")
           M == net \cup Send({GrantFailure(n.sa)})
           p == Tail(vs.q)
<1>1. /\ vs.q # <<>> /\ Head(vs.q)[1] = "authorize" /\ vs' = [vs EXCEPT !.q = p]
      /\ \/ n' = n /\ net' = net
         \/ AwaitsAuthorize(n) /\ NClosing(e, "other", M)
         \/ NClosing(n, "other", net)
      /\ UNCHANGED <<cfg, a, nTasks, pool, ops, uids>>
  BY DEF NRefused
<1>2. p \in Seq(Commands) BY <1>1, ByeTail, VsFacts
<1>3. \A z : HasBye(vs.q, z) => HasBye(p, z) BY <1>1, ByeTail, ByeCommand, VsFacts
<1>4. ~cfg.vs BY <1>1, VsFacts
<1> HIDE DEF p
<1>5. /\ vs' \in [q : Seq(Commands), actors : SUBSET Addrs, kept : SUBSET Addrs]
      /\ vs'.q = p /\ vs'.kept = vs.kept
  BY <1>1, <1>2, VsFacts
<1>6. ASSUME n'.live = n.live, n'.addr = n.addr, n'.aaa = n.aaa PROVE VsStep
  <2>1. AaaKept' /\ pool' \subseteq AaaAddrs
    BY <1>1, <1>6 DEF TypeOK, DockInv, AaaKept, AaaAccounted
  <2>2. nTasks'.cut \/ \A z \in vs'.kept : (n'.live /\ n'.addr = z) \/ HasBye(vs'.q, z)
    BY <1>1, <1>3, <1>5, <1>6, VsFacts
  <2> QED BY <1>1, <1>4, <1>5, <2>1, <2>2, VsDone
<1>7. CASE n' = n /\ net' = net
  BY <1>1, <1>6, <1>7, NFacts, NSameStep, NNetSame, NStepDone
<1>8. ASSUME NEW l, NEW s \in States, NMoved(n, l, s), NEW N, NClosing(l, "other", N),
             \A m \in N : m \in net \/ Harmless(m)
      PROVE  TypeOK' /\ DockInv'
  <2>1. l \in NLinks BY <1>8 DEF NMoved
  <2>2. PICK t \in Ending : NMoved(l, n', t) BY <1>8, <2>1, NClosingEnds
  <2>3. net' \subseteq N \cup TermTo("a", l.sa) BY <1>8, <2>1, NClosingEnds
  <2>4. NMoved(n, n', t) BY <1>8, <2>2, NMovedMoved
  <2>5. NStep BY <1>1, <2>4, NFacts, NEndStep
  <2>6. VsStep BY <1>6, <2>4 DEF NMoved
  <2>7. l.sa = n.sa BY <1>8 DEF NMoved
  <2>8. \A m \in TermTo("a", l.sa) : Harmless(m) BY <2>7, NFacts, TermHarmless
  <2>9. NNetStep BY <1>8, <2>3, <2>8 DEF NNetStep
  <2> QED BY <1>1, <2>5, <2>6, <2>9, NStepDone
<1>9. CASE AwaitsAuthorize(n) /\ NClosing(e, "other", M)
  <2>0. "Error" \in States BY DEF States
  <2>1. NMoved(n, e, "Error") BY <2>0, NFacts, NSetStateMoves
  <2>2. n.sa \in Keys /\ n.sa[2] <= uids
    BY <1>9, NFacts, KeyNotNone DEF AwaitsAuthorize, NLinkInv, NKeys, InSession
  <2>3. Harmless(GrantFailure(n.sa)) BY <2>2, PlainHarmless DEF GrantFailure
  <2>4. \A m \in M : m \in net \/ Harmless(m) BY <2>3, SendSub
  <2> HIDE DEF e, M
  <2> QED BY <1>8, <1>9, <2>0, <2>1, <2>4
<1>10. CASE NClosing(n, "other", net)
  <2>1. n.st \in States BY NFacts DEF NLinks
  <2> QED BY <1>8, <1>10, <2>1, NFacts
<1> QED BY <1>1, <1>7, <1>9, <1>10

-------------------------------------------------------------------------------
(* Tasks, the visa service and crashes.                                    *)

LEMMA NoLinkIs ==
    /\ NoLink \in NLinks /\ ~NoLink.live /\ NoLink.uid = 0 /\ NoLink.sa = None
<1> DEFINE l == NewNodeLink(0)
<1>1. l \in NLinks /\ l.uid = 0 /\ l.sa = None
  BY DEF NewNodeLink, NLinks, States, NoReq, Requests, KeyOrNone, AddrOrNone, AaaOrNone
<1>2. NoLink = [l EXCEPT !.live = FALSE, !.st = "Inactive", !.timer = FALSE] BY DEF NoLink
<1> HIDE DEF l
<1>3. "Inactive" \in States BY DEF States
<1> QED BY <1>1, <1>2, <1>3 DEF NLinks

\* The slot is empty.
LEMMA NGoneStep ==
    ASSUME TypeOK, DockInv, n' = NoLink, nTasks' \in Tasks,
           nTasks'.old <= nTasks'.drops + nTasks'.dones, ops' \in Nat, UNCHANGED <<cfg, uids>>
    PROVE  NStep
<1>1. NLinkInv(n, nTasks)' BY NoLinkIs DEF NLinkInv, NKeys, Early, NCleaning
<1>2. NKept BY NoLinkIs DEF NKept
<1> QED BY <1>1, <1>2, NoLinkIs, NFacts DEF NStep

\* A task of the node ends, one of the present link or of an earlier one.
LEMMA NDoneKeeps ==
    ASSUME TypeOK, DockInv, NEW l \in NLinks, NEW T \in Tasks, NDone(l, T),
           l.live = n.live, l.uid = n.uid, l.st = n.st, l.addr = n.addr, l.aaa = n.aaa,
           l.sa \in {n.sa, None}, n.live /\ n.st \in InSession => l.sa = n.sa,
           T.old = nTasks.old, T.cut = nTasks.cut, T.drops <= nTasks.drops,
           T.drops + T.dones = nTasks.drops + nTasks.dones - 1,
           net' \subseteq net, UNCHANGED <<cfg, a, vs, pool, ops, uids>>
    PROVE  TypeOK' /\ DockInv'
<1> DEFINE closes == l.live /\ l.st \in {"Closing", "Resetting"}
<1>1. PICK stale \in BOOLEAN :
        /\ MayEnd(nTasks, stale) /\ nTasks' = TaskEnded(T, stale, closes)
        /\ n' = IF closes THEN NoLink ELSE l
  BY DEF NDone
<1> DEFINE o == IF stale THEN T.old - 1 ELSE T.old
           c == T.cut \/ (stale /\ closes)
           news == nTasks.drops + nTasks.dones > nTasks.old
<1>2. /\ o \in Nat /\ o <= T.drops + T.dones /\ (T.drops + T.dones > o => news)
      /\ (~stale => news)
  <2>1. nTasks.drops \in Nat /\ nTasks.dones \in Nat /\ nTasks.old \in Nat
    BY NFacts DEF Tasks
  <2>2. nTasks.old <= nTasks.drops + nTasks.dones BY NFacts DEF NLinkInv, NCleaning
  <2>3. CASE stale
    <3>1. nTasks.old > 0 BY <1>1, <2>3 DEF MayEnd
    <3>2. o = nTasks.old - 1 BY <2>3
    <3> QED BY <2>1, <2>2, <2>3, <3>1, <3>2
  <2>4. CASE ~stale
    <3>1. nTasks.drops + nTasks.dones > nTasks.old BY <1>1, <2>4 DEF MayEnd
    <3>2. o = nTasks.old BY <2>4
    <3> QED BY <2>1, <2>2, <2>4, <3>1, <3>2
  <2> QED BY <2>3, <2>4
<1>3. nTasks' = [T EXCEPT !.old = o, !.cut = c] BY <1>1 DEF TaskEnded, Tasks
<1>4. c \in BOOLEAN /\ (stale /\ closes => c) /\ (T.cut => c) BY DEF Tasks
<1>5. n.live /\ news => n.aaa = None /\ (cfg.vs \/ n.addr = None) /\ n.st \in Ending
  BY NFacts DEF NLinkInv, NCleaning
<1> HIDE DEF o, c, news
<1>6. /\ nTasks' \in Tasks /\ nTasks'.drops = T.drops /\ nTasks'.dones = T.dones
      /\ nTasks'.old = o /\ nTasks'.cut = c
  BY <1>2, <1>3, <1>4 DEF Tasks
<1>7. nTasks.cut => nTasks'.cut BY <1>4, <1>6
<1>8. nTasks'.drops > 0 => nTasks.drops > 0 BY <1>6, NFacts DEF Tasks
<1>9. nTasks'.old <= nTasks'.drops + nTasks'.dones BY <1>2, <1>6
<1>10. CASE closes
  <2>1. n' = NoLink BY <1>1, <1>10
  <2>2. NStep BY <1>6, <1>9, <2>1, NFacts, NGoneStep
  <2>3. nTasks'.cut \/ news BY <1>2, <1>4, <1>6, <1>10
  <2>4. AaaKept' /\ pool' \subseteq AaaAddrs
    BY <1>5, <1>7, <1>10, <2>1, <2>3, NoLinkIs DEF TypeOK, DockInv, AaaKept, AaaAccounted
  <2>5. None \notin Addrs BY DockingAssumption
  <2>6. nTasks'.cut \/ \A x \in vs.kept : HasBye(vs.q, x)
    BY <1>5, <1>7, <1>10, <2>3, <2>5, VsFacts
  <2>7. VsStep BY <2>4, <2>6, VsFacts, VsDone
  <2> QED BY <2>2, <2>7, NNetSame, NStepDone
<1>11. CASE ~closes
  <2>1. n' = l BY <1>1, <1>11
  <2>2. NKeys(n') BY <2>1, NFacts DEF NLinkInv, NKeys
  <2>3. Early(n') BY <2>1, NFacts DEF NLinkInv, Early
  <2>4. NCleaning(n, nTasks)'
    BY <1>2, <1>5, <1>6, <1>8, <1>9, <2>1, NFacts DEF NLinkInv, NCleaning
  <2>5. NKept BY <2>1 DEF NKept
  <2>6. NStep BY <1>6, <2>1, <2>2, <2>3, <2>4, <2>5, NFacts DEF NStep, NLinkInv
  <2>7. VsStep BY <1>7, <2>1, VsSame
  <2> QED BY <2>6, <2>7, NNetSame, NStepDone
<1> QED BY <1>10, <1>11

LEMMA NDropLinkKeeps ==
    ASSUME TypeOK, DockInv, NDropLink PROVE TypeOK' /\ DockInv'
<1> DEFINE l == RemoveKmState(n)
           d == nTasks.drops - 1
           T == [nTasks EXCEPT !.drops = d]
           e == T.dones + 1
<1>1. /\ nTasks.drops > 0 /\ net' \subseteq net /\ UNCHANGED <<cfg, a, vs, pool, ops, uids>>
      /\ (n' = l /\ nTasks' = [T EXCEPT !.dones = e]) \/ NDone(l, T)
  BY DEF NDropLink, Readable
<1>2. d \in Nat /\ d <= nTasks.drops /\ d + nTasks.dones = nTasks.drops + nTasks.dones - 1
  BY <1>1, NFacts DEF Tasks
<1> HIDE DEF d
<1>3. /\ T \in Tasks /\ T.drops = d /\ T.dones = nTasks.dones /\ T.old = nTasks.old
      /\ T.cut = nTasks.cut
  BY <1>2, NFacts DEF Tasks
<1>4. /\ l \in NLinks /\ l.live = n.live /\ l.uid = n.uid /\ l.sa = None
      /\ l.addr = n.addr /\ l.aaa = n.aaa /\ l.st = n.st
  BY NFacts DEF RemoveKmState, NLinks, KeyOrNone
<1>5. n.live => n.st \in Ending \cup {"Keying"} BY <1>1, NFacts DEF NLinkInv, NCleaning
<1>6. ~(n.live /\ n.st \in InSession) BY <1>5 DEF InSession, Ending
<1> HIDE DEF T, l
<1>7. CASE NDone(l, T) BY <1>1, <1>2, <1>3, <1>4, <1>6, <1>7, NDoneKeeps
<1>8. CASE n' = l /\ nTasks' = [T EXCEPT !.dones = e]
  <2>1. e \in Nat /\ d + e = nTasks.drops + nTasks.dones BY <1>2, <1>3, NFacts DEF Tasks
  <2> HIDE DEF e
  <2>2. /\ nTasks' \in Tasks /\ nTasks'.drops = d /\ nTasks'.dones = e
        /\ nTasks'.old = nTasks.old /\ nTasks'.cut = nTasks.cut
    BY <1>3, <1>8, <2>1 DEF Tasks
  <2>3. NLinkInv(n, nTasks)'
    <3>1. NKeys(n') BY <1>4, <1>6, <1>8 DEF NKeys
    <3>2. Early(n') BY <1>4, <1>8, NFacts DEF NLinkInv, Early
    <3>3. NCleaning(n, nTasks)'
      BY <1>1, <1>4, <1>5, <1>8, <2>1, <2>2, NFacts DEF NLinkInv, NCleaning
    <3> QED BY <3>1, <3>2, <3>3 DEF NLinkInv
  <2>4. NKept BY <1>4, <1>8 DEF NKept
  <2>5. NStep BY <1>1, <1>4, <1>8, <2>2, <2>3, <2>4, NFacts DEF NStep
  <2>6. VsStep BY <1>1, <1>4, <1>8, <2>2, VsSame
  <2> QED BY <1>1, <2>5, <2>6, NNetSame, NStepDone
<1> QED BY <1>1, <1>7, <1>8

LEMMA NCloseDoneKeeps ==
    ASSUME TypeOK, DockInv, NCloseDone PROVE TypeOK' /\ DockInv'
<1> DEFINE d == nTasks.dones - 1
           T == [nTasks EXCEPT !.dones = d]
<1>1. /\ nTasks.dones > 0 /\ NDone(n, T) /\ UNCHANGED <<cfg, a, net, vs, pool, ops, uids>>
  BY DEF NCloseDone
<1>2. /\ d \in Nat /\ nTasks.drops <= nTasks.drops
      /\ nTasks.drops + d = nTasks.drops + nTasks.dones - 1
  BY <1>1, NFacts DEF Tasks
<1> HIDE DEF d
<1>3. /\ T \in Tasks /\ T.drops = nTasks.drops /\ T.dones = d /\ T.old = nTasks.old
      /\ T.cut = nTasks.cut
  BY <1>2, NFacts DEF Tasks
<1> HIDE DEF T
<1> QED BY <1>1, <1>2, <1>3, NFacts, NDoneKeeps

LEMMA VsActorGoneKeeps ==
    ASSUME TypeOK, DockInv, VsActorGone PROVE TypeOK' /\ DockInv'
<1> DEFINE y == Head(vs.q)[2]
           p == Tail(vs.q)
<1>1. /\ vs.q # <<>> /\ Head(vs.q)[1] = "bye"
      /\ \E A \in {vs.actors, vs.actors \ {y}} :
           vs' = [q |-> p, actors |-> A, kept |-> vs.kept \ {y}]
      /\ UNCHANGED <<cfg, a, n, nTasks, net, pool, ops, uids>>
  BY DEF VsActorGone
<1>2. p \in Seq(Commands) BY <1>1, ByeTail, VsFacts
<1>3. \A z : HasBye(vs.q, z) /\ z # y => HasBye(p, z)
  <2>1. \A z : Bye(z)[2] = z BY ByeCommand
  <2> QED BY <1>1, <2>1, ByeTail, VsFacts
<1>4. ~cfg.vs BY <1>1, VsFacts
<1> HIDE DEF p, y
<1>5. /\ vs' \in [q : Seq(Commands), actors : SUBSET Addrs, kept : SUBSET Addrs]
      /\ vs'.q = p /\ vs'.kept = vs.kept \ {y}
  BY <1>1, <1>2, VsFacts
<1>6. nTasks'.cut \/ \A z \in vs'.kept : (n'.live /\ n'.addr = z) \/ HasBye(vs'.q, z)
  BY <1>1, <1>3, <1>5, VsFacts
<1>7. AaaKept' /\ pool' \subseteq AaaAddrs
  BY <1>1 DEF TypeOK, DockInv, AaaKept, AaaAccounted
<1>8. VsStep BY <1>1, <1>4, <1>5, <1>6, <1>7, VsDone
<1>9. NStep BY <1>1, NFacts, NSameStep
<1> QED BY <1>1, <1>8, <1>9, NNetSame, NStepDone

LEMMA NewVsIs ==
    /\ NewVs \in [q : Seq(Commands), actors : SUBSET Addrs, kept : SUBSET Addrs]
    /\ NewVs.q = <<>> /\ NewVs.kept = {}
BY DEF NewVs

LEMMA NCrashKeeps ==
    ASSUME TypeOK, DockInv, NCrash PROVE TypeOK' /\ DockInv'
<1>1. /\ ops' = ops + 1 /\ n' = NoLink /\ nTasks' = NoTasks
      /\ pool' = EmptyPool /\ net' \subseteq net /\ vs' = NewVs /\ UNCHANGED <<cfg, a, uids>>
  BY DEF NCrash, Readable
<1>2. nTasks' \in Tasks /\ nTasks'.old <= nTasks'.drops + nTasks'.dones
  BY <1>1 DEF NoTasks, Tasks
<1>3. NStep BY <1>1, <1>2, NFacts, NGoneStep
<1>4. AaaKept' /\ pool' \subseteq AaaAddrs
  BY <1>1, NoLinkIs DEF AaaKept, AaaAccounted, EmptyPool
<1>5. VsStep BY <1>1, <1>4, NewVsIs, VsDone
<1> QED BY <1>1, <1>3, <1>5, NNetSame, NStepDone

-------------------------------------------------------------------------------
(* The theorems.                                                           *)

LEMMA DockingInit == Init => TypeOK /\ DockInv
<1> SUFFICES ASSUME Init PROVE TypeOK /\ DockInv
  OBVIOUS
<1>1. /\ cfg \in Configs /\ a = NewAdapterLink(cfg.demand) /\ n = NoLink
      /\ nTasks = NoTasks /\ net = {} /\ vs = NewVs
      /\ pool = {} /\ ops = 0 /\ uids = 0
  BY DEF Init, EmptyPool
<1>2. cfg.demand \in AddrOrNone BY <1>1, DockingAssumption DEF AddrOrNone
<1>3. /\ a \in ALinks /\ a.st = "Inactive" /\ a.sa = None /\ a.failure = "none"
      /\ ~a.carrier /\ ~a.tethers /\ ~a.req.cur /\ a.drops = 0 /\ a.dones = 0 /\ a.old = 0
  BY <1>1, <1>2
     DEF NewAdapterLink, ALinks, States, NoReq, Requests, KeyOrNone, AaaOrNone, Reasons
<1>4. TypeOK BY <1>1, <1>3, NoLinkIs, NewVsIs DEF TypeOK, NoTasks, Tasks
<1>5. ALinkInv(a)
  BY <1>3 DEF ALinkInv, Attempt, Unstarted, Tethered, ACleaning, AKeys, InSession
<1>6. NLinkInv(n, nTasks) BY <1>1, NoLinkIs DEF NoTasks, NLinkInv, NKeys, Early, NCleaning
<1>7. AaaKept BY <1>1, NoLinkIs DEF AaaKept, AaaAccounted
<1>8. VsInv BY <1>1, NewVsIs DEF VsInv, ActorsAccounted
<1>9. PairInv BY <1>1, <1>3, NoLinkIs DEF PairInv
<1> QED BY <1>4, <1>5, <1>6, <1>7, <1>8, <1>9 DEF DockInv

LEMMA DockingStutters ==
    ASSUME TypeOK, DockInv, UNCHANGED vars PROVE TypeOK' /\ DockInv'
<1>1. UNCHANGED <<cfg, a, n, nTasks, net, vs, pool, ops, uids>> BY DEF vars
<1>2. NStep BY <1>1, NFacts, NSameStep
<1>3. VsStep BY <1>1, VsSame
<1> QED BY <1>1, <1>2, <1>3, NNetSame, NStepDone

LEMMA DockingNext == TypeOK /\ DockInv /\ [Next]_vars => TypeOK' /\ DockInv'
<1> SUFFICES ASSUME TypeOK, DockInv, [Next]_vars PROVE TypeOK' /\ DockInv'
  OBVIOUS
<1>1. CASE UNCHANGED vars BY <1>1, DockingStutters
<1>2. CASE AStart BY <1>2, AStartKeeps
<1>3. CASE AAutoStart BY <1>3, AAutoStartKeeps
<1>4. CASE ARestart BY <1>4, ARestartKeeps
<1>5. CASE NDock BY <1>5, NDockKeeps
<1>6. CASE AKeyed BY <1>6, AKeyedKeeps
<1>7. CASE NKeyed BY <1>7, NKeyedKeeps
<1>8. CASE NHello BY <1>8, NHelloKeeps
<1>9. CASE AHelloResponse BY <1>9, AHelloResponseKeeps
<1>10. CASE AInitAuth BY <1>10, AInitAuthKeeps
<1>11. CASE NInitAuthAck BY <1>11, NInitAuthAckKeeps
<1>12. CASE NInitAuthTimeout BY <1>12, NInitAuthTimeoutKeeps
<1>13. CASE AAgentReply BY <1>13, AAgentReplyKeeps
<1>14. CASE AAgentChange BY <1>14, AAgentChangeKeeps
<1>15. CASE NAcquire BY <1>15, NAcquireKeeps
<1>16. CASE NAuthorized BY <1>16, NAuthorizedKeeps
<1>17. CASE NRefused BY <1>17, NRefusedKeeps
<1>18. CASE AGrant BY <1>18, AGrantKeeps
<1>19. CASE ARefusal BY <1>19, ARefusalKeeps
<1>20. CASE ATether BY <1>20, ATetherKeeps
<1>21. CASE AKeepAlive BY <1>21, AKeepAliveKeeps
<1>22. CASE NKeepAlive BY <1>22, NKeepAliveKeeps
<1>23. CASE ATimeout BY <1>23, ATimeoutKeeps
<1>24. CASE NTimeout BY <1>24, NTimeoutKeeps
<1>25. CASE ATerminated BY <1>25, ATerminatedKeeps
<1>26. CASE NTerminated BY <1>26, NTerminatedKeeps
<1>27. CASE ATerminateAck BY <1>27, ATerminateAckKeeps
<1>28. CASE NTerminateAck BY <1>28, NTerminateAckKeeps
<1>29. CASE ADropLink BY <1>29, ADropLinkKeeps
<1>30. CASE NDropLink BY <1>30, NDropLinkKeeps
<1>31. CASE ACloseDone BY <1>31, ACloseDoneKeeps
<1>32. CASE NCloseDone BY <1>32, NCloseDoneKeeps
<1>33. CASE AStop BY <1>33, AStopKeeps
<1>34. CASE AShutdown BY <1>34, AShutdownKeeps
<1>35. CASE NClose BY <1>35, NCloseKeeps
<1>36. CASE NDisconnectAck BY <1>36, NDisconnectAckKeeps
<1>37. CASE NReset BY <1>37, NResetKeeps
<1>38. CASE VsActorGone BY <1>38, VsActorGoneKeeps
<1>39. CASE NCrash BY <1>39, NCrashKeeps
<1> QED
  BY <1>1, <1>2, <1>3, <1>4, <1>5, <1>6, <1>7, <1>8, <1>9, <1>10, <1>11, <1>12, <1>13,
     <1>14, <1>15, <1>16, <1>17, <1>18, <1>19, <1>20, <1>21, <1>22, <1>23, <1>24, <1>25,
     <1>26, <1>27, <1>28, <1>29, <1>30, <1>31, <1>32, <1>33, <1>34, <1>35, <1>36, <1>37,
     <1>38, <1>39
     DEF Next

LEMMA DockingInvariant == Spec => [](TypeOK /\ DockInv)
<1>1. Init => TypeOK /\ DockInv BY DockingInit
<1>2. (TypeOK /\ DockInv) /\ [Next]_vars => (TypeOK /\ DockInv)' BY DockingNext
<1> QED BY <1>1, <1>2, PTL DEF Spec

\* Both links, the messages, the visa service's commands and the pool keep their
\* types, whatever the two ends do and in whatever order messages arrive.
THEOREM DockingTypeCorrect == Spec => []TypeOK
BY DockingInvariant, PTL

\* The credential an adapter is waiting on, or runs on, answers the challenge of
\* the present attempt: a completion the user gives late is never sent
\* (auth_attempt_is_current, do_oidc_authenticate).
THEOREM AnswersCurrent == Spec => []AnswersCurrentAttempt
<1>1. TypeOK /\ DockInv => AnswersCurrentAttempt
  BY DEF DockInv, ALinkInv, Attempt, AnswersCurrentAttempt
<1> QED BY <1>1, DockingInvariant, PTL

\* When both ends of a docking session are active they run on the same address,
\* although the grant may be overtaken by a close, a reset or a crash of the
\* node (process_authorize_response, process_grant_zpr_address_request).
THEOREM EndsAgree == Spec => []ActiveAgreement
<1>1. TypeOK /\ DockInv => ActiveAgreement
  <2> SUFFICES ASSUME TypeOK, DockInv, n.live, a.st = "Active", n.st = "Active", a.sa = n.sa
               PROVE  a.local = n.addr
    BY DEF ActiveAgreement
  <2>1. n.sa \in Keys /\ n.sa[2] = n.uid
    BY NFacts, KeyNotNone DEF NLinkInv, NKeys, InSession
  <2>2. GrantedTo(a.sa[2], a.local) BY DEF DockInv, PairInv
  <2> QED BY <2>1, <2>2 DEF GrantedTo
<1> QED BY <1>1, DockingInvariant, PTL

\* Whatever ends a docking session, its AAA address goes back to the pool, the
\* visa service is told of the actor, and no carrier or tether outlives it, unless the
\* task of an earlier close completed this one in its place
\* (clean_up_link_state, deregister_actor_addresses, AddressPool::release_address).
THEOREM CleanedUp == Spec => []CleanUpComplete
<1>1. TypeOK /\ DockInv => CleanUpComplete
  <2> SUFFICES ASSUME TypeOK, DockInv PROVE CleanUpComplete
    OBVIOUS
  <2>1. a.cut \/ NoStaleTethers BY DEF DockInv, ALinkInv, Tethered, NoStaleTethers
  <2> QED BY <2>1 DEF DockInv, AaaKept, VsInv, CleanUpComplete
<1> QED BY <1>1, DockingInvariant, PTL

\* An idle link whose last attempt failed to activate starts on the operator's word.
LEMMA HardStep ==
    ASSUME TypeOK, DockInv, [Next]_vars, a.live, a.st = "Inactive",
           a.failure = "activation", a'.st = "Keying"
    PROVE  ops' = ops + 1
<1>0. a \in ALinks /\ a.sess # 0 BY AFacts DEF ALinkInv, Unstarted
<1>1. a' # a OBVIOUS
<1>2. CASE AStart BY <1>2 DEF AStart
<1>3. CASE AAutoStart BY <1>0, <1>3 DEF AAutoStart
<1>4. CASE ARestart
  <2> DEFINE l == [a EXCEPT !.restarts = @ - 1]
  <2>1. a' = l BY <1>4 DEF ARestart
  <2>2. l.st = a.st BY <1>0 DEF ALinks
  <2> QED BY <2>1, <2>2
<1>5. CASE \/ AKeyed \/ ATether \/ AKeepAlive \/ ATimeout
  BY <1>5 DEF AKeyed, ATether, AKeepAlive, ATimeout
<1>16. CASE AHelloResponse
  <2>1. a' = AInitiateClose(a) BY <1>1, <1>16 DEF AHelloResponse
  <2> QED BY <1>0, <2>1, AInitiateCloseEnds DEF Ended
<1>6. CASE \/ AInitAuth \/ AGrant \/ ARefusal \/ ATerminateAck
  BY <1>1, <1>6 DEF AInitAuth, AGrant, ARefusal, ATerminateAck
<1>7. CASE AAgentReply
  <2>1. \A chal : ~ReplyCurrent(a, chal) BY DEF ReplyCurrent
  <2>2. \E chal : a' = [a EXCEPT !.late = @ \ {chal},
                                 !.req = IF @.chal = chal THEN NoReq ELSE @]
    BY <1>7, <2>1 DEF AAgentReply
  <2> QED BY <1>0, <2>2 DEF ALinks
<1>8. CASE AAgentChange BY <1>8 DEF AAgentChange
<1>9. CASE ATerminated
  <2> DEFINE c == SetState(a, "Closing")
  <2>1. a' = ACleanUp(c) BY <1>9 DEF ATerminated
  <2>2. Moved(a, c, "Closing") BY <1>0, SetStateMoves DEF States
  <2> HIDE DEF c
  <2>3. c \in ALinks /\ c.st = "Closing" BY <2>2 DEF Moved
  <2>4. ALinkInv(c) BY <2>2, AFacts, MovedEnded, EndedInv
  <2> QED BY <2>1, <2>3, <2>4, ACleanUpInv
<1>15. ASSUME NEW l \in ALinks, l.st = a.st, ADone(l) PROVE a'.st = a.st
  <2> DEFINE closes == l.live /\ l.st \in {"Closing", "Resetting"}
  <2>1. PICK stale \in BOOLEAN : a' = CompleteClose(TaskEnded(l, stale, closes))
    BY <1>15 DEF ADone
  <2>2. TaskEnded(l, stale, closes).st = l.st BY DEF TaskEnded, ALinks
  <2> QED BY <1>15, <2>1, <2>2 DEF CompleteClose
<1>10. CASE ADropLink
  <2> DEFINE r == RemoveKmState(a)
             d == a.drops - 1
             l == [r EXCEPT !.drops = @ - 1]
  <2>1. r \in ALinks /\ r.st = a.st /\ r.drops = a.drops
    BY <1>0 DEF RemoveKmState, ALinks, KeyOrNone
  <2>2. d \in Nat BY <1>0, <1>10 DEF ADropLink, ALinks
  <2>3. a' = [l EXCEPT !.dones = @ + 1] \/ ADone(l) BY <1>10 DEF ADropLink
  <2> HIDE DEF r
  <2>4. l = [r EXCEPT !.drops = d] BY <2>1
  <2> HIDE DEF l, d
  <2>5. l \in ALinks /\ l.st = a.st BY <2>1, <2>2, <2>4 DEF ALinks
  <2>6. [l EXCEPT !.dones = @ + 1].st = a.st BY <2>5 DEF ALinks
  <2> QED BY <1>15, <2>3, <2>5, <2>6
<1>11. CASE ACloseDone
  <2> DEFINE d == a.dones - 1
             l == [a EXCEPT !.dones = @ - 1]
  <2>1. ADone(l) BY <1>11 DEF ACloseDone
  <2>2. d \in Nat /\ l = [a EXCEPT !.dones = d] BY <1>0, <1>11 DEF ACloseDone, ALinks
  <2> HIDE DEF l, d
  <2>3. l \in ALinks /\ l.st = a.st BY <1>0, <2>2 DEF ALinks
  <2> QED BY <1>15, <2>1, <2>3
<1>12. CASE AStop BY <1>12 DEF AStop
<1>13. CASE AShutdown
  <2> DEFINE l == [a EXCEPT !.shut = TRUE, !.byop = TRUE]
  <2>1. a' = AInitiateClose(l) BY <1>13 DEF AShutdown
  <2>2. l \in ALinks BY <1>0 DEF ALinks
  <2> HIDE DEF l
  <2> QED BY <2>1, <2>2, AInitiateCloseEnds DEF Ended
<1>14. CASE \/ NDock \/ NKeyed \/ NHello \/ NInitAuthAck \/ NInitAuthTimeout \/ NAcquire
            \/ NAuthorized \/ NRefused \/ NKeepAlive \/ NTimeout \/ NTerminated
            \/ NTerminateAck \/ NDropLink \/ NCloseDone \/ NClose \/ NDisconnectAck
            \/ NReset \/ VsActorGone \/ NCrash \/ UNCHANGED vars
  BY <1>1, <1>14 DEF NDock, NKeyed, NHello, NInitAuthAck, NInitAuthTimeout, NAcquire,
       NAuthorized, NRefused, NKeepAlive, NTimeout, NTerminated, NTerminateAck, NDropLink,
       NCloseDone, NClose, NDisconnectAck, NReset, VsActorGone, NCrash, vars
<1> QED
  BY <1>2, <1>3, <1>4, <1>5, <1>6, <1>7, <1>8, <1>9, <1>10, <1>11, <1>12, <1>13, <1>14,
     <1>16
     DEF Next

\* After a local activation failure only the operator starts the link again,
\* also when a restart was already scheduled (complete_close, setup_restart).
THEOREM StopIsHard == Spec => HardStop
<1>1. TypeOK /\ DockInv /\ [Next]_vars =>
        [(a.live /\ a.st = "Inactive" /\ a.failure = "activation" /\ a'.st = "Keying")
            => ops' = ops + 1]_vars
  BY HardStep
<1> QED BY <1>1, DockingInvariant, PTL DEF Spec, HardStop
==============================================================================
