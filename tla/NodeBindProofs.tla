---------------------------- MODULE NodeBindProofs ----------------------------
(***************************************************************************)
(* Theorems about NodeBind, for any number of links, adapters, visas,      *)
(* streams and transaction ids.                                            *)
(*                                                                         *)
(* The first part is about the routes and the streams lent: it needs no    *)
(* more than the types.  The second is the inductive invariant of the bind *)
(* requests and their transactions; it holds until a link id is given out  *)
(* while a request of its last owner is outstanding (reissued), after      *)
(* which the code has no way to tell the two owners apart.                 *)
(***************************************************************************)
EXTENDS NodeBind, FiniteSetTheorems, WellFoundedInduction, TLAPS

-------------------------------------------------------------------------------
(* Partial functions, the tables of the node.                              *)

\* The functions from a part of S to T.
Partial(S, T) == UNION {[X -> T] : X \in SUBSET S}

\* What it takes to be a table, and what a table is.
LEMMA PartialIs ==
    ASSUME NEW S, NEW T, NEW f
    PROVE  f \in Partial(S, T) <=>
              /\ f = [x \in DOMAIN f |-> f[x]]
              /\ DOMAIN f \subseteq S
              /\ \A x \in DOMAIN f : f[x] \in T
<1>1. ASSUME f \in Partial(S, T)
      PROVE  f = [x \in DOMAIN f |-> f[x]] /\ DOMAIN f \subseteq S /\ \A x \in DOMAIN f : f[x] \in T
  <2>1. PICK X \in SUBSET S : f \in [X -> T]
    BY <1>1 DEF Partial
  <2> QED BY <2>1
<1>2. ASSUME f = [x \in DOMAIN f |-> f[x]], DOMAIN f \subseteq S, \A x \in DOMAIN f : f[x] \in T
      PROVE  f \in Partial(S, T)
  <2>1. DOMAIN f \in SUBSET S /\ f \in [DOMAIN f -> T]
    BY <1>2
  <2> QED BY <2>1 DEF Partial
<1> QED BY <1>1, <1>2

\* The empty table.
LEMMA EmptyPartial ==
    ASSUME NEW S, NEW T PROVE Empty \in Partial(S, T) /\ DOMAIN Empty = {}
<1>1. DOMAIN Empty = {} /\ Empty = [x \in DOMAIN Empty |-> Empty[x]]
  BY DEF Empty
<1> HIDE DEF Empty
<1> QED BY <1>1, PartialIs

\* Entering a key.
LEMMA PutIs ==
    ASSUME NEW f, NEW k, NEW v
    PROVE  /\ DOMAIN Put(f, k, v) = DOMAIN f \cup {k}
           /\ Put(f, k, v)[k] = v
           /\ \A x \in DOMAIN f : x # k => Put(f, k, v)[x] = f[x]
BY DEF Put

LEMMA PutPartial ==
    ASSUME NEW S, NEW T, NEW f \in Partial(S, T), NEW k \in S, NEW v \in T
    PROVE  Put(f, k, v) \in Partial(S, T)
<1>1. DOMAIN f \subseteq S /\ \A x \in DOMAIN f : f[x] \in T
  BY PartialIs
<1>2. Put(f, k, v) = [x \in DOMAIN Put(f, k, v) |-> Put(f, k, v)[x]]
  BY DEF Put
<1>3. /\ DOMAIN Put(f, k, v) = DOMAIN f \cup {k}
      /\ Put(f, k, v)[k] = v
      /\ \A x \in DOMAIN f : x # k => Put(f, k, v)[x] = f[x]
  BY DEF Put
<1>4. DOMAIN Put(f, k, v) \subseteq S
  BY <1>1, <1>3
<1>5. \A x \in DOMAIN Put(f, k, v) : Put(f, k, v)[x] \in T
  BY <1>1, <1>3
<1> QED BY <1>2, <1>4, <1>5, PartialIs

\* Removing keys.
LEMMA WithoutIs ==
    ASSUME NEW f, NEW X
    PROVE  /\ DOMAIN Without(f, X) = DOMAIN f \ X
           /\ \A x \in DOMAIN f \ X : Without(f, X)[x] = f[x]
BY DEF Without

LEMMA WithoutPartial ==
    ASSUME NEW S, NEW T, NEW f \in Partial(S, T), NEW X
    PROVE  Without(f, X) \in Partial(S, T)
<1>1. DOMAIN f \subseteq S /\ \A x \in DOMAIN f : f[x] \in T
  BY PartialIs
<1>2. Without(f, X) = [x \in DOMAIN Without(f, X) |-> Without(f, X)[x]]
  BY DEF Without
<1>3. /\ DOMAIN Without(f, X) = DOMAIN f \ X
      /\ \A x \in DOMAIN f \ X : Without(f, X)[x] = f[x]
  BY WithoutIs
<1>4. DOMAIN Without(f, X) \subseteq S /\ \A x \in DOMAIN Without(f, X) : Without(f, X)[x] \in T
  BY <1>1, <1>3
<1> QED BY <1>2, <1>4, PartialIs

\* A table updated at a key it has.
LEMMA ExceptPartial ==
    ASSUME NEW S, NEW T, NEW f \in Partial(S, T), NEW k \in DOMAIN f, NEW v \in T
    PROVE  /\ [f EXCEPT ![k] = v] \in Partial(S, T)
           /\ DOMAIN [f EXCEPT ![k] = v] = DOMAIN f
           /\ [f EXCEPT ![k] = v][k] = v
           /\ \A x \in DOMAIN f : x # k => [f EXCEPT ![k] = v][x] = f[x]
<1> DEFINE g == [f EXCEPT ![k] = v]
<1>1. /\ f = [x \in DOMAIN f |-> f[x]] /\ DOMAIN f \subseteq S
      /\ \A x \in DOMAIN f : f[x] \in T
  BY PartialIs
<1>2. /\ DOMAIN g = DOMAIN f /\ g[k] = v /\ \A x \in DOMAIN f : x # k => g[x] = f[x]
  BY <1>1
<1>3. g = [x \in DOMAIN g |-> g[x]]
  BY <1>1
<1> HIDE DEF g
<1>4. g \in Partial(S, T)
  BY <1>1, <1>2, <1>3, PartialIs
<1> QED BY <1>2, <1>4 DEF g

-------------------------------------------------------------------------------
(* The type invariant.                                                     *)

TxnMgrs == [next_free : TxnId, open : Partial(TxnId, Nat)]

\* The numbers of connections.
Conns == 0 .. MaxConns

Handles == [link : Links, conn : Conns, id : TxnId]

AwaitingVisa == [st : {"AwaitingVisaResponse"}]

AwaitingHop == [st : {"AwaitingNextHopBind"}, visa : Visas, txn : Handles]

Pairs == Actors \X Actors

Entry == Links \X Streams

\* The state of a link.
PeerStates ==
    [actor : Actors \cup {None}, conn : Conns, txn_mgr : TxnMgrs,
     pft : Partial(Streams, [next_hop : Entry, visa : Visas]),
     binds : Partial(PeerTxns, AwaitingVisa \cup AwaitingHop),
     next_hop : Partial(TxnId, Links \X PeerTxns),
     asked : Partial(PeerTxns, Pairs),
     todo : SUBSET TxnId, lent : SUBSET Streams, stray : BOOLEAN]

PeerTables == Partial(Links, PeerStates)

VisaTables == Partial(Visas, Seq(Entry))

Tasks == [link : Links, txn : PeerTxns, route : Pairs, conn : Conns]

TypeOK ==
    /\ peers \in PeerTables
    /\ visas \in VisaTables
    /\ tasks \subseteq Tasks
    /\ conns \in Conns
    /\ used \subseteq Links
    /\ panicked \in BOOLEAN
    /\ reissued \in BOOLEAN

-------------------------------------------------------------------------------
(* What the operators of the transaction manager do to the handle counts.  *)

\* A new id has one handle.
LEMMA TryOpenRawIs ==
    ASSUME NEW m \in TxnMgrs
    PROVE  /\ TryOpenRaw(m) \in TxnMgrs
           /\ DOMAIN TryOpenRaw(m).open = DOMAIN m.open \cup {m.next_free}
           /\ TryOpenRaw(m).open[m.next_free] = 0
           /\ \A i \in DOMAIN m.open : i # m.next_free => TryOpenRaw(m).open[i] = m.open[i]
<1>1. m.next_free \in TxnId /\ m.open \in Partial(TxnId, Nat)
  BY DEF TxnMgrs
<1>2. (m.next_free + 1) % TxnIds \in TxnId
  BY <1>1, TxnAssumption DEF TxnId
<1>3. TryOpenRaw(m).open = Put(m.open, m.next_free, 0)
  BY DEF TryOpenRaw, Put
<1>4. Put(m.open, m.next_free, 0) \in Partial(TxnId, Nat)
  BY <1>1, PutPartial
<1>5. TryOpenRaw(m) \in TxnMgrs
  BY <1>2, <1>3, <1>4 DEF TxnMgrs, TryOpenRaw
<1>6. /\ DOMAIN Put(m.open, m.next_free, 0) = DOMAIN m.open \cup {m.next_free}
      /\ Put(m.open, m.next_free, 0)[m.next_free] = 0
      /\ \A i \in DOMAIN m.open : i # m.next_free => Put(m.open, m.next_free, 0)[i] = m.open[i]
  BY DEF Put
<1> QED BY <1>3, <1>5, <1>6

\* A clone is one handle more.
LEMMA RefTxnIs ==
    ASSUME NEW m \in TxnMgrs, NEW id \in DOMAIN m.open
    PROVE  /\ RefTxn(m, id) \in TxnMgrs
           /\ DOMAIN RefTxn(m, id).open = DOMAIN m.open
           /\ RefTxn(m, id).open[id] = m.open[id] + 1
           /\ \A i \in DOMAIN m.open : i # id => RefTxn(m, id).open[i] = m.open[i]
<1>1. m.next_free \in TxnId /\ m.open \in Partial(TxnId, Nat)
  BY DEF TxnMgrs
<1>2. m.open[id] + 1 \in Nat
  BY <1>1, PartialIs
<1>3. RefTxn(m, id).open = [m.open EXCEPT ![id] = m.open[id] + 1] /\ RefTxn(m, id).next_free = m.next_free
  BY DEF RefTxn, TxnMgrs
<1>4. /\ [m.open EXCEPT ![id] = m.open[id] + 1] \in Partial(TxnId, Nat)
      /\ DOMAIN [m.open EXCEPT ![id] = m.open[id] + 1] = DOMAIN m.open
      /\ [m.open EXCEPT ![id] = m.open[id] + 1][id] = m.open[id] + 1
      /\ \A i \in DOMAIN m.open : i # id => [m.open EXCEPT ![id] = m.open[id] + 1][i] = m.open[i]
  BY <1>1, <1>2, ExceptPartial
<1>5. RefTxn(m, id) = [next_free |-> m.next_free, open |-> [m.open EXCEPT ![id] = m.open[id] + 1]]
  BY DEF RefTxn, TxnMgrs
<1>6. RefTxn(m, id) \in TxnMgrs
  BY <1>1, <1>4, <1>5 DEF TxnMgrs
<1> QED BY <1>3, <1>4, <1>6

\* Dropping the last handle closes the id; dropping another one counts down.
LEMMA DerefTxnIs ==
    ASSUME NEW m \in TxnMgrs, NEW id \in DOMAIN m.open
    PROVE  /\ DerefTxn(m, id) \in TxnMgrs
           /\ m.open[id] = 0 => DerefTxn(m, id).open = Without(m.open, {id})
           /\ m.open[id] > 0 =>
                 /\ DOMAIN DerefTxn(m, id).open = DOMAIN m.open
                 /\ DerefTxn(m, id).open[id] = m.open[id] - 1
                 /\ \A i \in DOMAIN m.open : i # id => DerefTxn(m, id).open[i] = m.open[i]
<1>1. m.next_free \in TxnId /\ m.open \in Partial(TxnId, Nat)
  BY DEF TxnMgrs
<1>2. m.open[id] \in Nat
  BY <1>1, PartialIs
<1>3. CASE m.open[id] = 0
  <2>1. DerefTxn(m, id) = [next_free |-> m.next_free, open |-> Without(m.open, {id})]
    BY <1>3 DEF DerefTxn, TxnMgrs, Without
  <2>2. Without(m.open, {id}) \in Partial(TxnId, Nat)
    BY <1>1, WithoutPartial
  <2>3. DerefTxn(m, id) \in TxnMgrs
    BY <1>1, <2>1, <2>2 DEF TxnMgrs
  <2> QED BY <1>3, <2>1, <2>3
<1>4. CASE m.open[id] > 0
  <2>1. m.open[id] - 1 \in Nat
    BY <1>2, <1>4
  <2>2. /\ [m.open EXCEPT ![id] = m.open[id] - 1] \in Partial(TxnId, Nat)
        /\ DOMAIN [m.open EXCEPT ![id] = m.open[id] - 1] = DOMAIN m.open
        /\ [m.open EXCEPT ![id] = m.open[id] - 1][id] = m.open[id] - 1
        /\ \A i \in DOMAIN m.open : i # id => [m.open EXCEPT ![id] = m.open[id] - 1][i] = m.open[i]
    BY <1>1, <2>1, ExceptPartial
  <2>3. DerefTxn(m, id) = [next_free |-> m.next_free, open |-> [m.open EXCEPT ![id] = m.open[id] - 1]]
    BY <1>4 DEF DerefTxn, TxnMgrs
  <2>4. DerefTxn(m, id) \in TxnMgrs
    BY <1>1, <2>2, <2>3 DEF TxnMgrs
  <2> QED BY <1>4, <2>2, <2>3, <2>4
<1> QED BY <1>2, <1>3, <1>4

-------------------------------------------------------------------------------
(* Updates of one link.                                                    *)

KeptLink(p, q) == q.actor = p.actor /\ q.conn = p.conn

KeptRoutes(p, q) == q.pft = p.pft /\ q.lent = p.lent

KeptBinds(p, q) == q.binds = p.binds

KeptAsked(p, q) == q.asked = p.asked /\ q.stray = p.stray

KeptHops(p, q) == q.next_hop = p.next_hop /\ q.todo = p.todo

KeptTxns(p, q) == q.txn_mgr = p.txn_mgr

\* Q has the links of P, and all of them but l are as they were.
SameLinks(P, Q, l) ==
    /\ Q \in PeerTables /\ DOMAIN Q = DOMAIN P
    /\ \A k \in DOMAIN P : k # l => Q[k] = P[k]

\* At link l, only one part of the state is new.
OnlyTxns(P, Q, l, m) ==
    /\ SameLinks(P, Q, l)
    /\ Q[l].txn_mgr = m
    /\ \A k \in DOMAIN P : /\ KeptLink(P[k], Q[k]) /\ KeptRoutes(P[k], Q[k]) /\ KeptBinds(P[k], Q[k])
                           /\ KeptAsked(P[k], Q[k]) /\ KeptHops(P[k], Q[k])

OnlyBinds(P, Q, l, b) ==
    /\ SameLinks(P, Q, l)
    /\ Q[l].binds = b
    /\ \A k \in DOMAIN P : /\ KeptLink(P[k], Q[k]) /\ KeptRoutes(P[k], Q[k]) /\ KeptAsked(P[k], Q[k])
                           /\ KeptHops(P[k], Q[k]) /\ KeptTxns(P[k], Q[k])

OnlyAsked(P, Q, l, x) ==
    /\ SameLinks(P, Q, l)
    /\ Q[l].asked = x /\ Q[l].stray = P[l].stray
    /\ \A k \in DOMAIN P : /\ KeptLink(P[k], Q[k]) /\ KeptRoutes(P[k], Q[k]) /\ KeptBinds(P[k], Q[k])
                           /\ KeptHops(P[k], Q[k]) /\ KeptTxns(P[k], Q[k])

OnlyHops(P, Q, l, x, y) ==
    /\ SameLinks(P, Q, l)
    /\ Q[l].next_hop = x /\ Q[l].todo = y
    /\ \A k \in DOMAIN P : /\ KeptLink(P[k], Q[k]) /\ KeptRoutes(P[k], Q[k]) /\ KeptBinds(P[k], Q[k])
                           /\ KeptAsked(P[k], Q[k]) /\ KeptTxns(P[k], Q[k])

OnlyRoutes(P, Q, l, x, y) ==
    /\ SameLinks(P, Q, l)
    /\ Q[l].pft = x /\ Q[l].lent = y
    /\ \A k \in DOMAIN P : /\ KeptLink(P[k], Q[k]) /\ KeptBinds(P[k], Q[k]) /\ KeptAsked(P[k], Q[k])
                           /\ KeptHops(P[k], Q[k]) /\ KeptTxns(P[k], Q[k])

\* The state of a link is typed.
LEMMA PeerTyped ==
    ASSUME NEW P \in PeerTables, NEW l \in DOMAIN P
    PROVE  /\ l \in Links /\ P[l] \in PeerStates
           /\ P[l].actor \in Actors \cup {None} /\ P[l].conn \in Conns
           /\ P[l].txn_mgr \in TxnMgrs
           /\ P[l].pft \in Partial(Streams, [next_hop : Entry, visa : Visas])
           /\ P[l].binds \in Partial(PeerTxns, AwaitingVisa \cup AwaitingHop)
           /\ P[l].next_hop \in Partial(TxnId, Links \X PeerTxns)
           /\ P[l].asked \in Partial(PeerTxns, Pairs)
           /\ P[l].todo \in SUBSET TxnId /\ P[l].lent \in SUBSET Streams
           /\ P[l].stray \in BOOLEAN
<1>1. l \in Links /\ P[l] \in PeerStates
  BY PartialIs DEF PeerTables
<1> QED BY <1>1 DEF PeerStates

\* The state of a link is replaced.
LEMMA ReplacePeer ==
    ASSUME NEW P \in PeerTables, NEW l \in DOMAIN P, NEW q \in PeerStates,
           NEW Q, Q = [P EXCEPT ![l] = q]
    PROVE  SameLinks(P, Q, l) /\ Q[l] = q
<1>1. /\ [P EXCEPT ![l] = q] \in PeerTables /\ DOMAIN [P EXCEPT ![l] = q] = DOMAIN P
      /\ [P EXCEPT ![l] = q][l] = q
      /\ \A k \in DOMAIN P : k # l => [P EXCEPT ![l] = q][k] = P[k]
  BY ExceptPartial DEF PeerTables
<1> QED BY <1>1 DEF SameLinks

\* Only its transaction manager changes.
LEMMA SetTxns ==
    ASSUME NEW P \in PeerTables, NEW l \in DOMAIN P, NEW m \in TxnMgrs,
           NEW Q, Q = [P EXCEPT ![l] = [P[l] EXCEPT !.txn_mgr = m]]
    PROVE  OnlyTxns(P, Q, l, m)
<1> DEFINE q == [P[l] EXCEPT !.txn_mgr = m]
<1>1. P[l] \in PeerStates /\ P[l].stray \in BOOLEAN
  BY PeerTyped
<1>2. q \in PeerStates
  BY <1>1 DEF PeerStates
<1>3. /\ q.txn_mgr = m
      /\ KeptLink(P[l], q) /\ KeptRoutes(P[l], q)
      /\ KeptBinds(P[l], q) /\ KeptAsked(P[l], q) /\ KeptHops(P[l], q)
  BY <1>1 DEF PeerStates, KeptLink, KeptRoutes, KeptBinds, KeptAsked, KeptHops
<1>4. Q = [P EXCEPT ![l] = q]
  OBVIOUS
<1> HIDE DEF q
<1>5. SameLinks(P, Q, l) /\ Q[l] = q
  BY <1>2, <1>4, ReplacePeer
<1> QED BY <1>3, <1>5 DEF OnlyTxns, SameLinks, KeptLink, KeptRoutes, KeptBinds, KeptAsked, KeptHops

\* Only its table of bind requests changes.
LEMMA SetBinds ==
    ASSUME NEW P \in PeerTables, NEW l \in DOMAIN P, NEW b \in Partial(PeerTxns, AwaitingVisa \cup AwaitingHop),
           NEW Q, Q = [P EXCEPT ![l] = [P[l] EXCEPT !.binds = b]]
    PROVE  OnlyBinds(P, Q, l, b)
<1> DEFINE q == [P[l] EXCEPT !.binds = b]
<1>1. P[l] \in PeerStates /\ P[l].stray \in BOOLEAN
  BY PeerTyped
<1>2. q \in PeerStates
  BY <1>1 DEF PeerStates
<1>3. /\ q.binds = b
      /\ KeptLink(P[l], q) /\ KeptRoutes(P[l], q)
      /\ KeptAsked(P[l], q) /\ KeptHops(P[l], q) /\ KeptTxns(P[l], q)
  BY <1>1 DEF PeerStates, KeptLink, KeptRoutes, KeptAsked, KeptHops, KeptTxns
<1>4. Q = [P EXCEPT ![l] = q]
  OBVIOUS
<1> HIDE DEF q
<1>5. SameLinks(P, Q, l) /\ Q[l] = q
  BY <1>2, <1>4, ReplacePeer
<1> QED BY <1>3, <1>5 DEF OnlyBinds, SameLinks, KeptLink, KeptRoutes, KeptAsked, KeptHops, KeptTxns

\* Only what its adapter awaits changes.
LEMMA SetAsked ==
    ASSUME NEW P \in PeerTables, NEW l \in DOMAIN P, NEW x \in Partial(PeerTxns, Pairs),
           NEW Q, Q = [P EXCEPT ![l] = [P[l] EXCEPT !.asked = x, !.stray = P[l].stray]]
    PROVE  OnlyAsked(P, Q, l, x)
<1> DEFINE q == [P[l] EXCEPT !.asked = x, !.stray = P[l].stray]
<1>1. P[l] \in PeerStates /\ P[l].stray \in BOOLEAN
  BY PeerTyped
<1>2. q \in PeerStates
  BY <1>1 DEF PeerStates
<1>3. /\ q.asked = x /\ q.stray = P[l].stray
      /\ KeptLink(P[l], q) /\ KeptRoutes(P[l], q)
      /\ KeptBinds(P[l], q) /\ KeptHops(P[l], q) /\ KeptTxns(P[l], q)
  BY <1>1 DEF PeerStates, KeptLink, KeptRoutes, KeptBinds, KeptHops, KeptTxns
<1>4. Q = [P EXCEPT ![l] = q]
  OBVIOUS
<1> HIDE DEF q
<1>5. SameLinks(P, Q, l) /\ Q[l] = q
  BY <1>2, <1>4, ReplacePeer
<1> QED BY <1>3, <1>5 DEF OnlyAsked, SameLinks, KeptLink, KeptRoutes, KeptBinds, KeptHops, KeptTxns

\* Only what it is asked as a next hop changes.
LEMMA SetHops ==
    ASSUME NEW P \in PeerTables, NEW l \in DOMAIN P, NEW x \in Partial(TxnId, Links \X PeerTxns), NEW y \in SUBSET TxnId,
           NEW Q, Q = [P EXCEPT ![l] = [P[l] EXCEPT !.next_hop = x, !.todo = y]]
    PROVE  OnlyHops(P, Q, l, x, y)
<1> DEFINE q == [P[l] EXCEPT !.next_hop = x, !.todo = y]
<1>1. P[l] \in PeerStates /\ P[l].stray \in BOOLEAN
  BY PeerTyped
<1>2. q \in PeerStates
  BY <1>1 DEF PeerStates
<1>3. /\ q.next_hop = x /\ q.todo = y
      /\ KeptLink(P[l], q) /\ KeptRoutes(P[l], q)
      /\ KeptBinds(P[l], q) /\ KeptAsked(P[l], q) /\ KeptTxns(P[l], q)
  BY <1>1 DEF PeerStates, KeptLink, KeptRoutes, KeptBinds, KeptAsked, KeptTxns
<1>4. Q = [P EXCEPT ![l] = q]
  OBVIOUS
<1> HIDE DEF q
<1>5. SameLinks(P, Q, l) /\ Q[l] = q
  BY <1>2, <1>4, ReplacePeer
<1> QED BY <1>3, <1>5 DEF OnlyHops, SameLinks, KeptLink, KeptRoutes, KeptBinds, KeptAsked, KeptTxns

\* Only its table of routes changes.
LEMMA SetRoutes ==
    ASSUME NEW P \in PeerTables, NEW l \in DOMAIN P, NEW x \in Partial(Streams, [next_hop : Entry, visa : Visas]),
           NEW y \in SUBSET Streams,
           NEW Q, Q = [P EXCEPT ![l] = [P[l] EXCEPT !.pft = x, !.lent = y]]
    PROVE  OnlyRoutes(P, Q, l, x, y)
<1> DEFINE q == [P[l] EXCEPT !.pft = x, !.lent = y]
<1>1. P[l] \in PeerStates /\ P[l].stray \in BOOLEAN
  BY PeerTyped
<1>2. q \in PeerStates
  BY <1>1 DEF PeerStates
<1>3. /\ q.pft = x /\ q.lent = y
      /\ KeptLink(P[l], q) /\ KeptBinds(P[l], q)
      /\ KeptAsked(P[l], q) /\ KeptHops(P[l], q) /\ KeptTxns(P[l], q)
  BY <1>1 DEF PeerStates, KeptLink, KeptBinds, KeptAsked, KeptHops, KeptTxns
<1>4. Q = [P EXCEPT ![l] = q]
  OBVIOUS
<1> HIDE DEF q
<1>5. SameLinks(P, Q, l) /\ Q[l] = q
  BY <1>2, <1>4, ReplacePeer
<1> QED BY <1>3, <1>5 DEF OnlyRoutes, SameLinks, KeptLink, KeptBinds, KeptAsked, KeptHops, KeptTxns

-------------------------------------------------------------------------------
(* What the operators do to the tables of the links.                       *)

\* A request that awaits its next hop knows a visa and a handle.
LEMMA AwaitingTyped ==
    ASSUME NEW P \in PeerTables, NEW l \in DOMAIN P, NEW t \in Awaiting(P, l)
    PROVE  /\ t \in PeerTxns /\ t \in DOMAIN P[l].binds
           /\ P[l].binds[t].st = "AwaitingNextHopBind"
           /\ P[l].binds[t].visa \in Visas
           /\ P[l].binds[t].txn \in Handles
<1>1. t \in DOMAIN P[l].binds /\ P[l].binds[t].st = "AwaitingNextHopBind"
  BY DEF Awaiting
<1>2. P[l].binds \in Partial(PeerTxns, AwaitingVisa \cup AwaitingHop)
  BY PeerTyped
<1>3. t \in PeerTxns /\ P[l].binds[t] \in AwaitingVisa \cup AwaitingHop
  BY <1>1, <1>2, PartialIs
<1>4. P[l].binds[t] \in AwaitingHop
  BY <1>1, <1>3 DEF AwaitingVisa
<1> QED BY <1>1, <1>3, <1>4 DEF AwaitingHop

\* An id that is handed out.
LEMMA OpenedIs ==
    ASSUME NEW P \in PeerTables, NEW e \in DOMAIN P, NEW Q,
           Q = [P EXCEPT ![e].txn_mgr = TryOpenRaw(@)]
    PROVE  OnlyTxns(P, Q, e, TryOpenRaw(P[e].txn_mgr))
<1> DEFINE m == TryOpenRaw(P[e].txn_mgr)
<1>1. P[e].txn_mgr \in TxnMgrs
  BY PeerTyped
<1>2. m \in TxnMgrs
  BY <1>1, TryOpenRawIs
<1>3. Q = [P EXCEPT ![e] = [P[e] EXCEPT !.txn_mgr = m]]
  OBVIOUS
<1> HIDE DEF m
<1>4. OnlyTxns(P, Q, e, m)
  BY <1>2, <1>3, SetTxns
<1> QED BY <1>4 DEF m

\* A handle that is cloned.
LEMMA CloneHandleIs ==
    ASSUME NEW P \in PeerTables, NEW h \in Handles, h.link \in DOMAIN P,
           h.id \in DOMAIN P[h.link].txn_mgr.open, NEW Q, Q = CloneHandle(P, h)
    PROVE  OnlyTxns(P, Q, h.link, RefTxn(P[h.link].txn_mgr, h.id))
<1> DEFINE m == RefTxn(P[h.link].txn_mgr, h.id)
<1>1. P[h.link].txn_mgr \in TxnMgrs
  BY PeerTyped
<1>2. m \in TxnMgrs
  BY <1>1, RefTxnIs
<1>3. Q = [P EXCEPT ![h.link] = [P[h.link] EXCEPT !.txn_mgr = m]]
  BY DEF CloneHandle
<1> HIDE DEF m
<1>4. OnlyTxns(P, Q, h.link, m)
  BY <1>2, <1>3, SetTxns
<1> QED BY <1>4 DEF m

\* A handle that is dropped.
LEMMA DropHandleIs ==
    ASSUME NEW P \in PeerTables, NEW h \in Handles, h.link \in DOMAIN P, P[h.link].conn = h.conn,
           h.id \in DOMAIN P[h.link].txn_mgr.open, NEW Q, Q = DropHandle(P, h)
    PROVE  OnlyTxns(P, Q, h.link, DerefTxn(P[h.link].txn_mgr, h.id))
<1> DEFINE m == DerefTxn(P[h.link].txn_mgr, h.id)
<1>1. P[h.link].txn_mgr \in TxnMgrs
  BY PeerTyped
<1>2. m \in TxnMgrs
  BY <1>1, DerefTxnIs
<1>3. Q = [P EXCEPT ![h.link] = [P[h.link] EXCEPT !.txn_mgr = m]]
  BY DEF DropHandle, Upgrades
<1> HIDE DEF m
<1>4. OnlyTxns(P, Q, h.link, m)
  BY <1>2, <1>3, SetTxns
<1> QED BY <1>4 DEF m

\* A request that holds no handle is forgotten.
LEMMA ForgetPlain ==
    ASSUME NEW P \in PeerTables, NEW l \in DOMAIN P, NEW t, t \notin Awaiting(P, l),
           NEW Q, Q = ForgetBind(P, l, t)
    PROVE  OnlyBinds(P, Q, l, Without(P[l].binds, {t}))
<1> DEFINE m == Without(P[l].binds, {t})
<1>1. P[l].binds \in Partial(PeerTxns, AwaitingVisa \cup AwaitingHop)
  BY PeerTyped
<1>2. m \in Partial(PeerTxns, AwaitingVisa \cup AwaitingHop)
  BY <1>1, WithoutPartial
<1>3. Q = [P EXCEPT ![l] = [P[l] EXCEPT !.binds = m]]
  BY DEF ForgetBind
<1> HIDE DEF m
<1>4. OnlyBinds(P, Q, l, m)
  BY <1>2, <1>3, SetBinds
<1> QED BY <1>4 DEF m

\* A request is forgotten with a handle to its transaction.
LEMMA ForgetHolding ==
    ASSUME NEW P \in PeerTables, NEW l \in DOMAIN P, NEW t \in Awaiting(P, l),
           NEW h, h = P[l].binds[t].txn,
           h.link \in DOMAIN P, P[h.link].conn = h.conn,
           h.id \in DOMAIN P[h.link].txn_mgr.open,
           NEW Q, Q = ForgetBind(P, l, t)
    PROVE  \E R : /\ OnlyBinds(P, R, l, Without(P[l].binds, {t}))
                  /\ OnlyTxns(R, Q, h.link, DerefTxn(P[h.link].txn_mgr, h.id))
<1> DEFINE m == Without(P[l].binds, {t})
           R == [P EXCEPT ![l] = [P[l] EXCEPT !.binds = m]]
<1>1. P[l].binds \in Partial(PeerTxns, AwaitingVisa \cup AwaitingHop)
  BY PeerTyped
<1>2. m \in Partial(PeerTxns, AwaitingVisa \cup AwaitingHop)
  BY <1>1, WithoutPartial
<1>3. Q = DropHandle(R, h)
  BY DEF ForgetBind
<1> HIDE DEF m
<1>4. OnlyBinds(P, R, l, m)
  BY <1>2, SetBinds
<1> HIDE DEF R
<1>5. h \in Handles
  BY AwaitingTyped
<1>6. /\ R \in PeerTables /\ h.link \in DOMAIN R /\ R[h.link].conn = h.conn
      /\ R[h.link].txn_mgr = P[h.link].txn_mgr /\ h.id \in DOMAIN R[h.link].txn_mgr.open
  BY <1>4 DEF OnlyBinds, SameLinks, KeptLink, KeptTxns
<1>7. OnlyTxns(R, Q, h.link, DerefTxn(R[h.link].txn_mgr, h.id))
  BY <1>3, <1>5, <1>6, DropHandleIs
<1> QED BY <1>4, <1>6, <1>7 DEF m

\* An answer that is awaited, for a flow that was asked about.
LEMMA AnsweredIs ==
    ASSUME NEW P \in PeerTables, NEW l \in DOMAIN P, NEW t \in DOMAIN P[l].asked,
           NEW v, v = None \/ Route[v] = P[l].asked[t],
           NEW Q, Q = Answered(P, l, t, v)
    PROVE  OnlyAsked(P, Q, l, Without(P[l].asked, {t}))
<1> DEFINE x == Without(P[l].asked, {t})
<1>1. P[l].asked \in Partial(PeerTxns, Pairs) /\ P[l].stray \in BOOLEAN
  BY PeerTyped
<1>2. x \in Partial(PeerTxns, Pairs)
  BY <1>1, WithoutPartial
<1>3. (P[l].stray \/ t \notin DOMAIN P[l].asked \/ (v # None /\ Route[v] # P[l].asked[t]))
        = P[l].stray
  BY <1>1
<1>4. Q = [P EXCEPT ![l] = [P[l] EXCEPT !.asked = x, !.stray = P[l].stray]]
  BY <1>3 DEF Answered
<1> HIDE DEF x
<1>5. OnlyAsked(P, Q, l, x)
  BY <1>2, <1>4, SetAsked
<1> QED BY <1>5 DEF x

\* A next hop is asked, and knows for whom.
LEMMA HopAskedIs ==
    ASSUME NEW P \in PeerTables, NEW e \in DOMAIN P, NEW id \in TxnId, NEW o \in Links \X PeerTxns,
           NEW Q, Q = BindEgressStreamRequest([P EXCEPT ![e].next_hop = Put(@, id, o)], e, id)
    PROVE  OnlyHops(P, Q, e, Put(P[e].next_hop, id, o), P[e].todo \cup {id})
<1> DEFINE x == Put(P[e].next_hop, id, o)
           y == P[e].todo \cup {id}
<1>1. P[e] \in PeerStates /\ P[e].next_hop \in Partial(TxnId, Links \X PeerTxns)
      /\ P[e].todo \in SUBSET TxnId
  BY PeerTyped
<1>2. x \in Partial(TxnId, Links \X PeerTxns) /\ y \in SUBSET TxnId
  BY <1>1, PutPartial
<1>3. Q = [P EXCEPT ![e] = [P[e] EXCEPT !.next_hop = x, !.todo = y]]
  BY <1>1 DEF BindEgressStreamRequest, PeerStates
<1> HIDE DEF x, y
<1>4. OnlyHops(P, Q, e, x, y)
  BY <1>2, <1>3, SetHops
<1> QED BY <1>4 DEF x, y

\* A next hop has answered: its record of the request goes, with a handle.
LEMMA ResolveNextHopIs ==
    ASSUME NEW P \in PeerTables, NEW e \in DOMAIN P, NEW id \in TxnId,
           id \in DOMAIN P[e].txn_mgr.open, NEW Q, Q = ResolveNextHop(P, e, id)
    PROVE  \E R : /\ OnlyHops(P, R, e, Without(P[e].next_hop, {id}), P[e].todo \ {id})
                  /\ OnlyTxns(R, Q, e, DerefTxn(P[e].txn_mgr, id))
<1> DEFINE x == Without(P[e].next_hop, {id})
           y == P[e].todo \ {id}
           R == [P EXCEPT ![e] = [P[e] EXCEPT !.next_hop = x, !.todo = y]]
           h == TxnHandle(e, P[e].conn, id)
<1>1. P[e] \in PeerStates /\ P[e].next_hop \in Partial(TxnId, Links \X PeerTxns)
      /\ P[e].todo \in SUBSET TxnId /\ e \in Links /\ P[e].conn \in Conns
  BY PeerTyped
<1>2. x \in Partial(TxnId, Links \X PeerTxns) /\ y \in SUBSET TxnId
  BY <1>1, WithoutPartial
<1>3. h \in Handles /\ h.link = e /\ h.conn = P[e].conn /\ h.id = id
  BY <1>1 DEF Handles, TxnHandle
<1>4. Q = DropHandle(R, h)
  <2>1. R = [P EXCEPT ![e].next_hop = Without(@, {id}), ![e].todo = @ \ {id}]
    BY <1>1 DEF PeerStates
  <2> QED BY <2>1 DEF ResolveNextHop, GetTxn
<1> HIDE DEF x, y, h
<1>5. OnlyHops(P, R, e, x, y)
  BY <1>2, SetHops
<1> HIDE DEF R
<1>6. /\ R \in PeerTables /\ h.link \in DOMAIN R /\ R[h.link].conn = h.conn
      /\ R[h.link].txn_mgr = P[e].txn_mgr /\ h.id \in DOMAIN R[h.link].txn_mgr.open
  BY <1>3, <1>5 DEF OnlyHops, SameLinks, KeptLink, KeptTxns
<1>7. OnlyTxns(R, Q, h.link, DerefTxn(R[h.link].txn_mgr, h.id))
  BY <1>3, <1>4, <1>6, DropHandleIs
<1> QED BY <1>3, <1>5, <1>6, <1>7 DEF x, y

\* A route is entered and its stream lent.
LEMMA InsertRouteIs ==
    ASSUME NEW P \in PeerTables, NEW l \in DOMAIN P, NEW s \in Streams,
           NEW pep \in [next_hop : Entry, visa : Visas], NEW Q, Q = InsertRoute(P, l, s, pep)
    PROVE  OnlyRoutes(P, Q, l, Put(P[l].pft, s, pep), P[l].lent \cup {s})
<1> DEFINE x == Put(P[l].pft, s, pep)
           y == P[l].lent \cup {s}
<1>1. P[l] \in PeerStates /\ P[l].pft \in Partial(Streams, [next_hop : Entry, visa : Visas])
      /\ P[l].lent \in SUBSET Streams
  BY PeerTyped
<1>2. x \in Partial(Streams, [next_hop : Entry, visa : Visas]) /\ y \in SUBSET Streams
  BY <1>1, PutPartial
<1>3. Q = [P EXCEPT ![l] = [P[l] EXCEPT !.pft = x, !.lent = y]]
  BY <1>1 DEF InsertRoute, PeerStates
<1> HIDE DEF x, y
<1>4. OnlyRoutes(P, Q, l, x, y)
  BY <1>2, <1>3, SetRoutes
<1> QED BY <1>4 DEF x, y

-------------------------------------------------------------------------------
(* What the steps of a bind request do.                                    *)

\* A request that holds no handle is answered with an error.
Denied(P, Q, l, t) ==
    /\ Q \in PeerTables /\ DOMAIN Q = DOMAIN P
    /\ \A k \in DOMAIN P : k # l => Q[k] = P[k]
    /\ KeptLink(P[l], Q[l]) /\ KeptRoutes(P[l], Q[l])
    /\ KeptHops(P[l], Q[l]) /\ KeptTxns(P[l], Q[l])
    /\ Q[l].binds = Without(P[l].binds, {t})
    /\ Q[l].asked = Without(P[l].asked, {t}) /\ Q[l].stray = P[l].stray

LEMMA DeniedIs ==
    ASSUME NEW P \in PeerTables, NEW l \in DOMAIN P, NEW t \in DOMAIN P[l].asked,
           t \notin Awaiting(P, l), NEW Q, Q = BindReject(P, l, t)
    PROVE  Denied(P, Q, l, t)
<1> DEFINE R == ForgetBind(P, l, t)
<1>1. OnlyBinds(P, R, l, Without(P[l].binds, {t}))
  BY ForgetPlain
<1>2. Q = Answered(R, l, t, None)
  BY DEF BindReject
<1> HIDE DEF R
<1>3. R \in PeerTables /\ l \in DOMAIN R /\ t \in DOMAIN R[l].asked
  BY <1>1 DEF OnlyBinds, SameLinks, KeptAsked
<1>4. OnlyAsked(R, Q, l, Without(R[l].asked, {t}))
  BY <1>2, <1>3, AnsweredIs
<1>5. R[l].asked = P[l].asked /\ R[l].stray = P[l].stray
  BY <1>1 DEF OnlyBinds, KeptAsked
<1> QED BY <1>1, <1>4, <1>5
        DEF Denied, OnlyBinds, OnlyAsked, SameLinks, KeptLink, KeptRoutes, KeptBinds, KeptHops,
            KeptTxns

\* The egress link of a visa has the address the visa leads to.
LEMMA EgressIs ==
    ASSUME NEW P, NEW v, NEW e, e = EgressLinkForVisa(P, v), e # None
    PROVE  e \in DOMAIN P /\ P[e].actor = Route[v][2]
<1> DEFINE S == {l \in DOMAIN P : P[l].actor = Route[v][2]}
<1>1. S # {} /\ e = CHOOSE l \in S : TRUE
  BY DEF EgressLinkForVisa, FindEgressLink, NextHopAddr
<1>2. e \in S
  BY <1>1
<1> QED BY <1>2

\* The request that a visa was granted for awaits the answer of its next hop, and
\* each of the two holds a handle to the transaction.
Granted(P, Q, l, t, v, e, id) ==
    /\ Q \in PeerTables /\ DOMAIN Q = DOMAIN P
    /\ \A k \in DOMAIN P : /\ KeptLink(P[k], Q[k]) /\ KeptRoutes(P[k], Q[k])
                           /\ KeptAsked(P[k], Q[k])
                           /\ (k # l => KeptBinds(P[k], Q[k]))
                           /\ (k # e => KeptHops(P[k], Q[k]) /\ KeptTxns(P[k], Q[k]))
    /\ DOMAIN Q[l].binds = DOMAIN P[l].binds \cup {t}
    /\ Q[l].binds[t] = [st |-> "AwaitingNextHopBind", visa |-> v,
                        txn |-> TxnHandle(e, P[e].conn, id)]
    /\ \A u \in DOMAIN P[l].binds : u # t => Q[l].binds[u] = P[l].binds[u]
    /\ Q[e].next_hop = Put(P[e].next_hop, id, <<l, t>>)
    /\ Q[e].todo = P[e].todo \cup {id}
    /\ DOMAIN Q[e].txn_mgr.open = DOMAIN P[e].txn_mgr.open \cup {id}
    /\ Q[e].txn_mgr.open[id] = 1
    /\ \A i \in DOMAIN P[e].txn_mgr.open : i # id =>
          Q[e].txn_mgr.open[i] = P[e].txn_mgr.open[i]

LEMMA GrantedIs ==
    ASSUME NEW P \in PeerTables, NEW l \in DOMAIN P, NEW t \in PeerTxns, t \notin Awaiting(P, l),
           NEW v \in Visas, NEW e, e = EgressLinkForVisa(P, v), e # None,
           CanOpen(P[e].txn_mgr), NEW Q, Q = RequestedVisaGranted(P, l, t, v),
           NEW id, id = P[e].txn_mgr.next_free
    PROVE  Granted(P, Q, l, t, v, e, id)
<1> DEFINE h  == TxnHandle(e, P[e].conn, id)
           st == [st |-> "AwaitingNextHopBind", visa |-> v, txn |-> h]
           A  == [P EXCEPT ![e].txn_mgr = TryOpenRaw(@)]
           B  == CloneHandle(A, h)
           C  == ForgetBind(B, l, t)
           b  == Put(C[l].binds, t, st)
           D  == [C EXCEPT ![l] = [C[l] EXCEPT !.binds = b]]
<1>1. e \in DOMAIN P
  BY EgressIs
<1>2. e \in Links /\ P[e].conn \in Conns /\ P[e].txn_mgr \in TxnMgrs /\ l \in Links
  BY <1>1, PeerTyped
<1>3. id \in TxnId
  BY <1>2 DEF TxnMgrs
<1>4. h \in Handles /\ h.link = e /\ h.id = id
  BY <1>2, <1>3 DEF Handles, TxnHandle
<1>5. st \in AwaitingHop
  BY <1>4 DEF AwaitingHop
<1>6. Q = BindEgressStreamRequest([D EXCEPT ![e].next_hop = Put(@, id, <<l, t>>)], e, id)
  BY <1>4 DEF RequestedVisaGranted, SetBind, Handle
<1>7. OnlyTxns(P, A, e, TryOpenRaw(P[e].txn_mgr))
  BY <1>1, OpenedIs
<1> HIDE DEF h, st, A
<1>8. /\ DOMAIN A[e].txn_mgr.open = DOMAIN P[e].txn_mgr.open \cup {id}
      /\ A[e].txn_mgr.open[id] = 0
      /\ \A i \in DOMAIN P[e].txn_mgr.open : i # id =>
            A[e].txn_mgr.open[i] = P[e].txn_mgr.open[i]
  <2>1. /\ DOMAIN TryOpenRaw(P[e].txn_mgr).open = DOMAIN P[e].txn_mgr.open \cup {id}
        /\ TryOpenRaw(P[e].txn_mgr).open[id] = 0
        /\ \A i \in DOMAIN P[e].txn_mgr.open : i # id =>
              TryOpenRaw(P[e].txn_mgr).open[i] = P[e].txn_mgr.open[i]
    BY <1>2, TryOpenRawIs
  <2> QED BY <1>7, <2>1 DEF OnlyTxns
<1>9. OnlyTxns(A, B, h.link, RefTxn(A[h.link].txn_mgr, h.id))
  <2>1. A \in PeerTables /\ h.link \in DOMAIN A /\ h.id \in DOMAIN A[h.link].txn_mgr.open
    BY <1>1, <1>4, <1>7, <1>8 DEF OnlyTxns, SameLinks
  <2> QED BY <1>4, <2>1, CloneHandleIs
<1> HIDE DEF B
<1>10. /\ DOMAIN B[e].txn_mgr.open = DOMAIN P[e].txn_mgr.open \cup {id}
       /\ B[e].txn_mgr.open[id] = 1
       /\ \A i \in DOMAIN P[e].txn_mgr.open : i # id =>
             B[e].txn_mgr.open[i] = P[e].txn_mgr.open[i]
  <2>1. A[e].txn_mgr \in TxnMgrs /\ id \in DOMAIN A[e].txn_mgr.open
    BY <1>1, <1>7, <1>8, PeerTyped DEF OnlyTxns, SameLinks
  <2> DEFINE m == A[e].txn_mgr
  <2>2. /\ DOMAIN RefTxn(m, id).open = DOMAIN m.open
        /\ RefTxn(m, id).open[id] = m.open[id] + 1
        /\ \A i \in DOMAIN m.open : i # id => RefTxn(m, id).open[i] = m.open[i]
    BY ONLY <2>1, RefTxnIs
  <2> QED BY <1>4, <1>8, <1>9, <2>2 DEF OnlyTxns
<1>11. OnlyBinds(B, C, l, Without(B[l].binds, {t}))
  <2>1. B \in PeerTables /\ l \in DOMAIN B /\ B[l].binds = P[l].binds
    BY <1>7, <1>9 DEF OnlyTxns, SameLinks, KeptBinds
  <2>2. t \notin Awaiting(B, l)
    BY <2>1 DEF Awaiting
  <2> QED BY <2>1, <2>2, ForgetPlain
<1> HIDE DEF C
<1>12. OnlyBinds(C, D, l, b)
  <2>1. C \in PeerTables /\ l \in DOMAIN C
    BY <1>7, <1>9, <1>11 DEF OnlyTxns, OnlyBinds, SameLinks
  <2>2. C[l].binds \in Partial(PeerTxns, AwaitingVisa \cup AwaitingHop)
    BY <2>1, PeerTyped
  <2>3. st \in AwaitingVisa \cup AwaitingHop
    BY <1>5
  <2>4. b \in Partial(PeerTxns, AwaitingVisa \cup AwaitingHop)
    BY <2>2, <2>3, PutPartial
  <2> HIDE DEF b
  <2> QED BY <2>1, <2>4, SetBinds
<1>13. /\ DOMAIN b = DOMAIN P[l].binds \cup {t} /\ b[t] = st
       /\ \A u \in DOMAIN P[l].binds : u # t => b[u] = P[l].binds[u]
  <2>1. B[l].binds = P[l].binds
    BY <1>7, <1>9 DEF OnlyTxns, SameLinks, KeptBinds
  <2>2. C[l].binds = Without(B[l].binds, {t})
    BY <1>11 DEF OnlyBinds
  <2> QED BY <2>1, <2>2 DEF Put, Without
<1> HIDE DEF D, b
<1>14. OnlyHops(D, Q, e, Put(D[e].next_hop, id, <<l, t>>), D[e].todo \cup {id})
  <2>1. D \in PeerTables /\ e \in DOMAIN D
    BY <1>1, <1>7, <1>9, <1>11, <1>12 DEF OnlyTxns, OnlyBinds, SameLinks
  <2>2. <<l, t>> \in Links \X PeerTxns
    BY <1>2
  <2> QED BY <1>3, <1>6, <2>1, <2>2, HopAskedIs
<1>15. Q \in PeerTables /\ DOMAIN Q = DOMAIN P
  BY <1>7, <1>9, <1>11, <1>12, <1>14 DEF OnlyTxns, OnlyBinds, OnlyHops, SameLinks
<1>16. ASSUME NEW k \in DOMAIN P
       PROVE  /\ KeptLink(P[k], Q[k]) /\ KeptRoutes(P[k], Q[k])
              /\ KeptAsked(P[k], Q[k])
              /\ (k # l => KeptBinds(P[k], Q[k]))
              /\ (k # e => KeptHops(P[k], Q[k]) /\ KeptTxns(P[k], Q[k]))
  <2>1. k \in DOMAIN A /\ k \in DOMAIN B /\ k \in DOMAIN C /\ k \in DOMAIN D
    BY <1>7, <1>9, <1>11, <1>12 DEF OnlyTxns, OnlyBinds, SameLinks
  <2>2. KeptLink(P[k], Q[k]) /\ KeptRoutes(P[k], Q[k]) /\ KeptAsked(P[k], Q[k])
    BY <2>1, <1>7, <1>9, <1>11, <1>12, <1>14
       DEF OnlyTxns, OnlyBinds, OnlyHops, KeptLink, KeptRoutes, KeptAsked
  <2>3. k # l => KeptBinds(P[k], Q[k])
    BY <2>1, <1>7, <1>9, <1>11, <1>12, <1>14
       DEF OnlyTxns, OnlyBinds, OnlyHops, SameLinks, KeptBinds
  <2>4. k # e => KeptHops(P[k], Q[k]) /\ KeptTxns(P[k], Q[k])
    BY <2>1, <1>4, <1>7, <1>9, <1>11, <1>12, <1>14
       DEF OnlyTxns, OnlyBinds, OnlyHops, SameLinks, KeptHops, KeptTxns
  <2> QED BY <2>2, <2>3, <2>4
<1>17. Q[l].binds = b
  <2>1. l \in DOMAIN D /\ D[l].binds = b
    BY <1>7, <1>9, <1>11, <1>12 DEF OnlyTxns, OnlyBinds, SameLinks
  <2> QED BY <2>1, <1>14 DEF OnlyHops, KeptBinds
<1>18. Q[e].next_hop = Put(P[e].next_hop, id, <<l, t>>) /\ Q[e].todo = P[e].todo \cup {id}
       /\ Q[e].txn_mgr = B[e].txn_mgr
  <2>1. e \in DOMAIN A /\ e \in DOMAIN B /\ e \in DOMAIN C /\ e \in DOMAIN D
    BY <1>1, <1>7, <1>9, <1>11, <1>12 DEF OnlyTxns, OnlyBinds, SameLinks
  <2>2. D[e].next_hop = P[e].next_hop /\ D[e].todo = P[e].todo
    BY <1>1, <2>1, <1>7, <1>9, <1>11, <1>12 DEF OnlyTxns, OnlyBinds, KeptHops
  <2>3. Q[e].txn_mgr = B[e].txn_mgr
    BY <2>1, <1>11, <1>12, <1>14 DEF OnlyBinds, OnlyHops, KeptTxns
  <2> QED BY <2>2, <2>3, <1>14 DEF OnlyHops
<1> QED BY <1>10, <1>13, <1>15, <1>16, <1>17, <1>18 DEF Granted, st, h

\* A key that is entered and removed again leaves no trace.
LEMMA PutWithout ==
    ASSUME NEW S, NEW T, NEW f \in Partial(S, T), NEW k, k \notin DOMAIN f, NEW v
    PROVE  Without(Put(f, k, v), {k}) = f
<1>1. f = [x \in DOMAIN f |-> f[x]]
  BY PartialIs
<1>2. Without(Put(f, k, v), {k}) = [x \in DOMAIN f |-> f[x]]
  BY DEF Without, Put
<1> QED BY <1>1, <1>2

\* The tables are as they were, but for the ids the managers hand out next.
SameTables(P, Q) ==
    /\ Q \in PeerTables /\ DOMAIN Q = DOMAIN P
    /\ \A k \in DOMAIN P : /\ KeptLink(P[k], Q[k]) /\ KeptRoutes(P[k], Q[k])
                           /\ KeptBinds(P[k], Q[k]) /\ KeptAsked(P[k], Q[k])
                           /\ KeptHops(P[k], Q[k])
                           /\ Q[k].txn_mgr.open = P[k].txn_mgr.open

\* A visa is granted to a link that is gone: the transaction is closed again.
LEMMA GrantedGone ==
    ASSUME NEW P \in PeerTables, NEW l, l \notin DOMAIN P, NEW t, NEW v,
           NEW e, e = EgressLinkForVisa(P, v), e # None,
           CanOpen(P[e].txn_mgr), NEW Q, Q = RequestedVisaGranted(P, l, t, v)
    PROVE  SameTables(P, Q)
<1> DEFINE id == P[e].txn_mgr.next_free
           h  == TxnHandle(e, P[e].conn, id)
           m  == P[e].txn_mgr
           A  == [P EXCEPT ![e].txn_mgr = TryOpenRaw(@)]
<1>1. e \in DOMAIN P
  BY EgressIs
<1>2. e \in Links /\ P[e].conn \in Conns /\ m \in TxnMgrs
  BY <1>1, PeerTyped
<1>3. id \in TxnId /\ m.open \in Partial(TxnId, Nat) /\ id \notin DOMAIN m.open
  BY <1>2 DEF TxnMgrs, CanOpen
<1>4. h \in Handles /\ h.link = e /\ h.id = id /\ h.conn = P[e].conn
  BY <1>2, <1>3 DEF Handles, TxnHandle
<1>5. Q = DropHandle(A, h)
  BY DEF RequestedVisaGranted, Handle
<1>6. OnlyTxns(P, A, e, TryOpenRaw(m))
  BY <1>1, OpenedIs
<1>7. TryOpenRaw(m).open = Put(m.open, id, 0)
  BY DEF TryOpenRaw, Put
<1>8. TryOpenRaw(m) \in TxnMgrs /\ id \in DOMAIN TryOpenRaw(m).open /\ TryOpenRaw(m).open[id] = 0
  BY <1>2, TryOpenRawIs
<1>9. DerefTxn(TryOpenRaw(m), id).open = Without(TryOpenRaw(m).open, {id})
  BY <1>8, DerefTxnIs
<1>10. DerefTxn(TryOpenRaw(m), id).open = m.open
  BY <1>3, <1>7, <1>9, PutWithout
<1> HIDE DEF A, h, m, id
<1>11. /\ A \in PeerTables /\ h.link \in DOMAIN A /\ A[h.link].conn = h.conn
       /\ A[h.link].txn_mgr = TryOpenRaw(m) /\ h.id \in DOMAIN A[h.link].txn_mgr.open
  BY <1>1, <1>4, <1>6, <1>8 DEF OnlyTxns, SameLinks, KeptLink
<1>12. OnlyTxns(A, Q, h.link, DerefTxn(A[h.link].txn_mgr, h.id))
  BY <1>4, <1>5, <1>11, DropHandleIs
<1>13. Q[e].txn_mgr.open = m.open
  BY <1>4, <1>10, <1>11, <1>12 DEF OnlyTxns
<1>14. Q \in PeerTables /\ DOMAIN Q = DOMAIN P
  BY <1>6, <1>12 DEF OnlyTxns, SameLinks
<1>15. ASSUME NEW k \in DOMAIN P
       PROVE  /\ KeptLink(P[k], Q[k]) /\ KeptRoutes(P[k], Q[k])
              /\ KeptBinds(P[k], Q[k]) /\ KeptAsked(P[k], Q[k])
              /\ KeptHops(P[k], Q[k])
              /\ Q[k].txn_mgr.open = P[k].txn_mgr.open
  <2>1. k \in DOMAIN A
    BY <1>6 DEF OnlyTxns, SameLinks
  <2>2. /\ KeptLink(P[k], Q[k]) /\ KeptRoutes(P[k], Q[k])
        /\ KeptBinds(P[k], Q[k]) /\ KeptAsked(P[k], Q[k])
        /\ KeptHops(P[k], Q[k])
    BY <2>1, <1>6, <1>12 DEF OnlyTxns, KeptLink, KeptRoutes, KeptBinds, KeptAsked, KeptHops
  <2>3. k # e => Q[k] = P[k]
    BY <2>1, <1>4, <1>6, <1>12 DEF OnlyTxns, SameLinks
  <2> QED BY <2>2, <2>3, <1>13 DEF m
<1> QED BY <1>14, <1>15 DEF SameTables

\* The next hop e has answered in transaction id, for a link that is gone.
Resolved(P, Q, e, id) ==
    /\ Q \in PeerTables /\ DOMAIN Q = DOMAIN P
    /\ \A k \in DOMAIN P : /\ KeptLink(P[k], Q[k]) /\ KeptRoutes(P[k], Q[k])
                           /\ KeptBinds(P[k], Q[k]) /\ KeptAsked(P[k], Q[k])
                           /\ (k # e => KeptHops(P[k], Q[k]) /\ KeptTxns(P[k], Q[k]))
    /\ Q[e].next_hop = Without(P[e].next_hop, {id}) /\ Q[e].todo = P[e].todo \ {id}
    /\ Q[e].txn_mgr.open = Without(P[e].txn_mgr.open, {id})

LEMMA ResolvedIs ==
    ASSUME NEW P \in PeerTables, NEW e \in DOMAIN P, NEW id \in TxnId,
           id \in DOMAIN P[e].txn_mgr.open, P[e].txn_mgr.open[id] = 0,
           NEW Q, Q = ResolveNextHop(P, e, id)
    PROVE  Resolved(P, Q, e, id)
<1>1. PICK R : /\ OnlyHops(P, R, e, Without(P[e].next_hop, {id}), P[e].todo \ {id})
               /\ OnlyTxns(R, Q, e, DerefTxn(P[e].txn_mgr, id))
  BY ResolveNextHopIs
<1>2. P[e].txn_mgr \in TxnMgrs
  BY PeerTyped
<1>3. DerefTxn(P[e].txn_mgr, id).open = Without(P[e].txn_mgr.open, {id})
  BY <1>2, DerefTxnIs
<1>4. Q \in PeerTables /\ DOMAIN Q = DOMAIN P /\ DOMAIN R = DOMAIN P
  BY <1>1 DEF OnlyHops, OnlyTxns, SameLinks
<1>5. ASSUME NEW k \in DOMAIN P
      PROVE  /\ KeptLink(P[k], Q[k]) /\ KeptRoutes(P[k], Q[k])
             /\ KeptBinds(P[k], Q[k]) /\ KeptAsked(P[k], Q[k])
             /\ (k # e => KeptHops(P[k], Q[k]) /\ KeptTxns(P[k], Q[k]))
  BY <1>1, <1>4 DEF OnlyHops, OnlyTxns, SameLinks, KeptLink, KeptRoutes, KeptBinds, KeptAsked,
                    KeptHops, KeptTxns
<1>6. Q[e].next_hop = Without(P[e].next_hop, {id}) /\ Q[e].todo = P[e].todo \ {id}
  BY <1>1, <1>4 DEF OnlyHops, OnlyTxns, KeptHops
<1>7. Q[e].txn_mgr.open = Without(P[e].txn_mgr.open, {id})
  BY <1>1, <1>3 DEF OnlyTxns
<1> QED BY <1>4, <1>5, <1>6, <1>7 DEF Resolved

\* The next hop e has answered in transaction id, for request t of link l: both
\* handles are dropped, which closes the transaction.
Forgotten(P, Q, e, id, l, t) ==
    /\ Q \in PeerTables /\ DOMAIN Q = DOMAIN P
    /\ \A k \in DOMAIN P : /\ KeptLink(P[k], Q[k]) /\ KeptRoutes(P[k], Q[k])
                           /\ KeptAsked(P[k], Q[k])
                           /\ (k # l => KeptBinds(P[k], Q[k]))
                           /\ (k # e => KeptHops(P[k], Q[k]) /\ KeptTxns(P[k], Q[k]))
    /\ Q[l].binds = Without(P[l].binds, {t})
    /\ Q[e].next_hop = Without(P[e].next_hop, {id}) /\ Q[e].todo = P[e].todo \ {id}
    /\ Q[e].txn_mgr.open = Without(P[e].txn_mgr.open, {id})

LEMMA ForgottenIs ==
    ASSUME NEW P \in PeerTables, NEW e \in DOMAIN P, NEW id \in TxnId,
           id \in DOMAIN P[e].txn_mgr.open, P[e].txn_mgr.open[id] = 1,
           NEW l \in DOMAIN P, NEW t \in Awaiting(P, l), P[l].binds[t].txn = GetTxn(P, e, id),
           NEW Q, Q = ForgetBind(ResolveNextHop(P, e, id), l, t)
    PROVE  Forgotten(P, Q, e, id, l, t)
<1> DEFINE B == ResolveNextHop(P, e, id)
           h == GetTxn(P, e, id)
<1>1. PICK A : /\ OnlyHops(P, A, e, Without(P[e].next_hop, {id}), P[e].todo \ {id})
               /\ OnlyTxns(A, B, e, DerefTxn(P[e].txn_mgr, id))
  BY ResolveNextHopIs
<1>2. Q = ForgetBind(B, l, t) /\ h.link = e /\ h.conn = P[e].conn /\ h.id = id
  BY DEF GetTxn, TxnHandle
<1> HIDE DEF B, h
<1>3. P[e].txn_mgr \in TxnMgrs
  BY PeerTyped
<1> DEFINE m == DerefTxn(P[e].txn_mgr, id)
<1>4. /\ m \in TxnMgrs /\ DOMAIN m.open = DOMAIN P[e].txn_mgr.open /\ m.open[id] = 0
      /\ \A i \in DOMAIN P[e].txn_mgr.open : i # id => m.open[i] = P[e].txn_mgr.open[i]
  <2> DEFINE p == P[e].txn_mgr
  <2>1. p \in TxnMgrs /\ id \in DOMAIN p.open /\ p.open[id] > 0
    BY <1>3
  <2> HIDE DEF p
  <2>2. /\ DerefTxn(p, id) \in TxnMgrs
        /\ DOMAIN DerefTxn(p, id).open = DOMAIN p.open
        /\ DerefTxn(p, id).open[id] = p.open[id] - 1
        /\ \A i \in DOMAIN p.open : i # id => DerefTxn(p, id).open[i] = p.open[i]
    BY <2>1, DerefTxnIs
  <2> QED BY <2>2 DEF p
<1> HIDE DEF m
<1>5. /\ B \in PeerTables /\ DOMAIN A = DOMAIN P /\ DOMAIN B = DOMAIN P
      /\ B[l].binds = P[l].binds /\ B[e].conn = P[e].conn /\ B[e].txn_mgr = m
  BY <1>1 DEF OnlyHops, OnlyTxns, SameLinks, KeptBinds, KeptLink, m
<1>6. t \in Awaiting(B, l) /\ h = B[l].binds[t].txn
  BY <1>5 DEF Awaiting, h
<1>7. id \in DOMAIN m.open
  BY <1>4
<1>8. PICK C : /\ OnlyBinds(B, C, l, Without(B[l].binds, {t}))
               /\ OnlyTxns(C, Q, h.link, DerefTxn(B[h.link].txn_mgr, h.id))
  <2>1. /\ h.link \in DOMAIN B /\ B[h.link].conn = h.conn /\ l \in DOMAIN B
        /\ h.id \in DOMAIN B[h.link].txn_mgr.open
    BY <1>2, <1>5, <1>7
  <2> QED BY <1>2, <1>5, <1>6, <2>1, ForgetHolding
<1>9. DerefTxn(m, id).open = Without(m.open, {id})
  BY <1>4, <1>7, DerefTxnIs
<1>10. Without(m.open, {id}) = Without(P[e].txn_mgr.open, {id})
  BY <1>4 DEF Without
<1>11. Q[e].txn_mgr.open = Without(P[e].txn_mgr.open, {id})
  BY <1>2, <1>5, <1>8, <1>9, <1>10 DEF OnlyTxns
<1>12. Q \in PeerTables /\ DOMAIN Q = DOMAIN P /\ DOMAIN C = DOMAIN P
  BY <1>5, <1>8 DEF OnlyBinds, OnlyTxns, SameLinks
<1>13. Q[l].binds = Without(P[l].binds, {t})
  BY <1>5, <1>8, <1>12 DEF OnlyBinds, OnlyTxns, KeptBinds
<1>14. Q[e].next_hop = Without(P[e].next_hop, {id}) /\ Q[e].todo = P[e].todo \ {id}
  BY <1>1, <1>5, <1>8, <1>12 DEF OnlyHops, OnlyTxns, OnlyBinds, KeptHops
<1>15. ASSUME NEW k \in DOMAIN P
       PROVE  /\ KeptLink(P[k], Q[k]) /\ KeptRoutes(P[k], Q[k])
              /\ KeptAsked(P[k], Q[k])
              /\ (k # l => KeptBinds(P[k], Q[k]))
              /\ (k # e => KeptHops(P[k], Q[k]) /\ KeptTxns(P[k], Q[k]))
  <2>1. KeptLink(P[k], Q[k]) /\ KeptRoutes(P[k], Q[k]) /\ KeptAsked(P[k], Q[k])
    BY <1>1, <1>5, <1>8, <1>12
       DEF OnlyHops, OnlyTxns, OnlyBinds, KeptLink, KeptRoutes, KeptAsked
  <2>2. k # l => KeptBinds(P[k], Q[k])
    BY <1>1, <1>5, <1>8, <1>12 DEF OnlyHops, OnlyTxns, OnlyBinds, SameLinks, KeptBinds
  <2>3. k # e => KeptHops(P[k], Q[k]) /\ KeptTxns(P[k], Q[k])
    BY <1>1, <1>2, <1>5, <1>8, <1>12
       DEF OnlyHops, OnlyTxns, OnlyBinds, SameLinks, KeptHops, KeptTxns
  <2> QED BY <2>1, <2>2, <2>3
<1> QED BY <1>11, <1>12, <1>13, <1>14, <1>15 DEF Forgotten

-------------------------------------------------------------------------------
(* The inductive invariant of bind requests, for tables P, tasks K and C   *)
(* connections begun so far.                                               *)

\* Every bind request has been asked for, what it awaits is about the flow that was
\* asked for, and a task pursues it exactly while it awaits the visa service.
OwnedBinds(P, K) ==
    /\ \A l \in DOMAIN P : DOMAIN P[l].binds \subseteq DOMAIN P[l].asked
    /\ \A l \in DOMAIN P : \A t \in Awaiting(P, l) :
          Route[P[l].binds[t].visa] = P[l].asked[t]
    /\ \A k \in K : k.link \in DOMAIN P =>
          /\ k.txn \in DOMAIN P[k.link].binds /\ k.txn \notin Awaiting(P, k.link)
          /\ k.route = P[k.link].asked[k.txn]
    /\ \A j, k \in K : k.link \in DOMAIN P /\ j.link = k.link /\ j.txn = k.txn => j = k

\* Links and handles are of connections that have begun.
ConnsOld(P, C) ==
    /\ \A e \in DOMAIN P : P[e].conn < C
    /\ \A l \in DOMAIN P : \A t \in Awaiting(P, l) : P[l].binds[t].txn.conn < C

\* A transaction is open exactly while the next hop owes an answer, and has two
\* handles while the link that asked is there, one when it is gone.
Counted(P) ==
    \A e \in DOMAIN P :
        /\ DOMAIN P[e].txn_mgr.open = DOMAIN P[e].next_hop
        /\ P[e].todo = DOMAIN P[e].next_hop
        /\ \A i \in DOMAIN P[e].next_hop :
              P[e].txn_mgr.open[i] = IF P[e].next_hop[i][1] \in DOMAIN P THEN 1 ELSE 0

\* The next hop of a request, if it is there, knows whom the answer is for.
HopKnows(P, h, l, t) ==
    /\ h.conn = P[h.link].conn
    /\ h.id \in DOMAIN P[h.link].next_hop
    /\ P[h.link].next_hop[h.id] = <<l, t>>

BackLinked(P) ==
    \A l \in DOMAIN P : \A t \in Awaiting(P, l) :
        Upgrades(P, P[l].binds[t].txn) => HopKnows(P, P[l].binds[t].txn, l, t)

\* The request that a next hop is asked for, if its link is there, awaits it.
ForwardLinked(P) ==
    \A e \in DOMAIN P : \A i \in DOMAIN P[e].next_hop :
        P[e].next_hop[i][1] \in DOMAIN P =>
            LET l == P[e].next_hop[i][1]
                t == P[e].next_hop[i][2]
            IN /\ t \in Awaiting(P, l)
               /\ P[l].binds[t].txn = GetTxn(P, e, i)

NoneStray(P) == \A l \in DOMAIN P : ~P[l].stray

BindInv(P, K, C) ==
    /\ OwnedBinds(P, K)
    /\ ConnsOld(P, C)
    /\ Counted(P)
    /\ BackLinked(P)
    /\ ForwardLinked(P)
    /\ NoneStray(P)

\* Every request an adapter awaits an answer for, but those in X, has a state, and
\* a task if it awaits the visa service.
Pursued(P, K, X) ==
    \A l \in DOMAIN P : \A t \in DOMAIN P[l].asked :
        <<l, t>> \notin X =>
            /\ t \in DOMAIN P[l].binds
            /\ t \notin Awaiting(P, l) => \E k \in K : k.link = l /\ k.txn = t

\* The invariant is about bind requests, transactions and connections.
SameBinds(P, Q) ==
    /\ DOMAIN Q = DOMAIN P
    /\ \A k \in DOMAIN P : /\ Q[k].conn = P[k].conn
                           /\ KeptBinds(P[k], Q[k]) /\ KeptAsked(P[k], Q[k])
                           /\ KeptHops(P[k], Q[k])
                           /\ Q[k].txn_mgr.open = P[k].txn_mgr.open

\* A step that leaves these alone preserves it; tasks of links that are gone may end.
LEMMA SameBindsInv ==
    ASSUME NEW P, NEW Q, NEW K, NEW C, NEW J, NEW X, BindInv(P, K, C), SameBinds(P, Q),
           J \subseteq K, \A k \in K : k.link \in DOMAIN P => k \in J
    PROVE  BindInv(Q, J, C) /\ (Pursued(P, K, X) => Pursued(Q, J, X))
<1>1. DOMAIN Q = DOMAIN P /\ \A l \in DOMAIN P : Awaiting(Q, l) = Awaiting(P, l)
  BY DEF SameBinds, KeptBinds, Awaiting
<1>2. OwnedBinds(Q, J)
  BY <1>1 DEF BindInv, OwnedBinds, SameBinds, KeptBinds, KeptAsked
<1>3. ConnsOld(Q, C)
  BY <1>1 DEF BindInv, ConnsOld, SameBinds, KeptBinds, KeptHops
<1>4. Counted(Q)
  BY <1>1 DEF BindInv, Counted, SameBinds, KeptHops
<1>5. BackLinked(Q)
  <2> SUFFICES ASSUME NEW l \in DOMAIN Q, NEW t \in Awaiting(Q, l),
                      Upgrades(Q, Q[l].binds[t].txn)
               PROVE  HopKnows(Q, Q[l].binds[t].txn, l, t)
    BY DEF BackLinked
  <2> DEFINE h == Q[l].binds[t].txn
  <2>1. h = P[l].binds[t].txn /\ l \in DOMAIN P /\ t \in Awaiting(P, l) /\ h.link \in DOMAIN P /\ Upgrades(P, h)
    BY <1>1 DEF SameBinds, KeptBinds, Upgrades
  <2>2. HopKnows(P, h, l, t)
    BY <2>1 DEF BindInv, BackLinked
  <2> HIDE DEF h
  <2>3. HopKnows(Q, h, l, t)
    BY <2>1, <2>2 DEF SameBinds, KeptHops, HopKnows
  <2> QED BY <2>3 DEF h
<1>6. ForwardLinked(Q)
  BY <1>1 DEF BindInv, ForwardLinked, SameBinds, KeptBinds, KeptHops, GetTxn
<1>7. NoneStray(Q)
  BY <1>1 DEF BindInv, NoneStray, SameBinds, KeptAsked
<1>8. Pursued(P, K, X) => Pursued(Q, J, X)
  BY <1>1 DEF Pursued, SameBinds, KeptBinds, KeptAsked
<1> QED BY <1>2, <1>3, <1>4, <1>5, <1>6, <1>7, <1>8 DEF BindInv

\* J are the tasks K but those for request t of link l.
TasksBut(K, J, l, t) ==
    /\ J \subseteq K
    /\ \A k \in J : ~(k.link = l /\ k.txn = t)
    /\ \A k \in K : ~(k.link = l /\ k.txn = t) => k \in J

\* A request that holds no handle is answered, and with it its task ends.
LEMMA DeniedInv ==
    ASSUME NEW P, NEW Q, NEW K, NEW C, NEW J, NEW l \in DOMAIN P, NEW t, t \notin Awaiting(P, l),
           BindInv(P, K, C), Denied(P, Q, l, t), TasksBut(K, J, l, t)
    PROVE  BindInv(Q, J, C) /\ (Pursued(P, K, {<<l, t>>}) => Pursued(Q, J, {}))
<1>1. DOMAIN Q = DOMAIN P /\ \A k \in DOMAIN P : Awaiting(Q, k) = Awaiting(P, k)
  <2>1. Awaiting(Q, l) = Awaiting(P, l)
    BY DEF Denied, Without, Awaiting
  <2> QED BY <2>1 DEF Denied, Awaiting
<1>2. /\ DOMAIN Q[l].binds = DOMAIN P[l].binds \ {t} /\ DOMAIN Q[l].asked = DOMAIN P[l].asked \ {t}
      /\ \A u \in DOMAIN P[l].binds : u # t => Q[l].binds[u] = P[l].binds[u]
      /\ \A u \in DOMAIN P[l].asked : u # t => Q[l].asked[u] = P[l].asked[u]
  BY DEF Denied, Without
<1>3. \A k \in DOMAIN P : \A u \in Awaiting(P, k) : Q[k].binds[u] = P[k].binds[u]
  BY <1>2 DEF Denied, Awaiting
<1>4. \A k \in DOMAIN P : /\ Q[k].conn = P[k].conn /\ KeptHops(P[k], Q[k]) /\ KeptTxns(P[k], Q[k])
                          /\ Q[k].stray = P[k].stray
  BY DEF Denied, KeptLink, KeptHops, KeptTxns
<1>5. \A k \in DOMAIN P : k # l => Q[k] = P[k]
  BY DEF Denied
<1>6. OwnedBinds(Q, J)
  BY <1>1, <1>2, <1>3, <1>5 DEF BindInv, OwnedBinds, TasksBut, Awaiting
<1>7. ConnsOld(Q, C)
  BY <1>1, <1>3, <1>4 DEF BindInv, ConnsOld, TasksBut, KeptHops
<1>8. Counted(Q)
  BY <1>1, <1>4 DEF BindInv, Counted, KeptHops, KeptTxns
<1>9. BackLinked(Q)
  <2> SUFFICES ASSUME NEW k \in DOMAIN Q, NEW u \in Awaiting(Q, k),
                      Upgrades(Q, Q[k].binds[u].txn)
               PROVE  HopKnows(Q, Q[k].binds[u].txn, k, u)
    BY DEF BackLinked
  <2> DEFINE h == Q[k].binds[u].txn
  <2>1. h = P[k].binds[u].txn /\ k \in DOMAIN P /\ u \in Awaiting(P, k) /\ h.link \in DOMAIN P /\ Upgrades(P, h)
    BY <1>1, <1>3, <1>4 DEF Upgrades
  <2>2. HopKnows(P, h, k, u)
    BY <2>1 DEF BindInv, BackLinked
  <2> HIDE DEF h
  <2>3. HopKnows(Q, h, k, u)
    BY <1>4, <2>1, <2>2 DEF KeptHops, HopKnows
  <2> QED BY <2>3 DEF h
<1>10. ForwardLinked(Q)
  BY <1>1, <1>3, <1>4 DEF BindInv, ForwardLinked, KeptHops, GetTxn
<1>11. NoneStray(Q)
  BY <1>1, <1>4 DEF BindInv, NoneStray
<1>12. ASSUME Pursued(P, K, {<<l, t>>}) PROVE Pursued(Q, J, {})
  <2> SUFFICES ASSUME NEW k \in DOMAIN P, NEW u \in DOMAIN Q[k].asked
               PROVE  /\ u \in DOMAIN Q[k].binds
                      /\ u \notin Awaiting(Q, k) => \E j \in J : j.link = k /\ j.txn = u
    BY <1>1 DEF Pursued
  <2>1. u \in DOMAIN P[k].asked /\ ~(k = l /\ u = t)
    BY <1>2, <1>5
  <2>2. <<k, u>> \notin {<<l, t>>}
    BY <2>1
  <2>3. /\ u \in DOMAIN P[k].binds
        /\ u \notin Awaiting(P, k) => \E j \in K : j.link = k /\ j.txn = u
    BY <1>12, <2>1, <2>2 DEF Pursued
  <2> QED BY <1>1, <1>2, <1>5, <2>1, <2>3 DEF TasksBut
<1> QED BY <1>6, <1>7, <1>8, <1>9, <1>10, <1>11, <1>12 DEF BindInv

\* A visa is granted: the request goes from its task to its next hop.
LEMMA GrantedInv ==
    ASSUME NEW P \in PeerTables, NEW Q, NEW K, NEW C, NEW J, NEW l \in DOMAIN P, NEW t,
           NEW v, NEW e \in DOMAIN P, NEW id,
           BindInv(P, K, C), Granted(P, Q, l, t, v, e, id), TasksBut(K, J, l, t),
           t \notin Awaiting(P, l), t \in DOMAIN P[l].asked, P[l].asked[t] = Route[v],
           id \notin DOMAIN P[e].txn_mgr.open
    PROVE  BindInv(Q, J, C) /\ (Pursued(P, K, {<<l, t>>}) => Pursued(Q, J, {}))
<1> DEFINE hh == TxnHandle(e, P[e].conn, id)
<1>1. hh.link = e /\ hh.conn = P[e].conn /\ hh.id = id
  BY DEF TxnHandle
<1>2. DOMAIN Q = DOMAIN P
  BY DEF Granted
<1>3. /\ Q[l].binds[t].st = "AwaitingNextHopBind" /\ Q[l].binds[t].visa = v
      /\ Q[l].binds[t].txn = hh /\ t \in DOMAIN Q[l].binds
  BY DEF Granted
<1> HIDE DEF hh
<1>4. /\ \A k \in DOMAIN P : k # l => Awaiting(Q, k) = Awaiting(P, k)
      /\ Awaiting(Q, l) = Awaiting(P, l) \cup {t}
  <2>1. \A k \in DOMAIN P : k # l => Awaiting(Q, k) = Awaiting(P, k)
    BY DEF Granted, KeptBinds, Awaiting
  <2>2. \A u \in DOMAIN P[l].binds : u # t => Q[l].binds[u] = P[l].binds[u]
    BY DEF Granted
  <2>3. DOMAIN Q[l].binds = DOMAIN P[l].binds \cup {t}
    BY DEF Granted
  <2> QED BY <1>3, <2>1, <2>2, <2>3 DEF Awaiting
<1>5. \A k \in DOMAIN P : \A u \in Awaiting(P, k) : Q[k].binds[u] = P[k].binds[u]
  BY DEF Granted, KeptBinds, Awaiting
<1>6. \A k \in DOMAIN P : /\ Q[k].conn = P[k].conn /\ Q[k].asked = P[k].asked
                          /\ Q[k].stray = P[k].stray
                          /\ (k # e => KeptHops(P[k], Q[k]) /\ KeptTxns(P[k], Q[k]))
  BY DEF Granted, KeptLink, KeptAsked
<1>7. id \notin DOMAIN P[e].next_hop
  BY DEF BindInv, Counted
<1>8. /\ DOMAIN Q[e].next_hop = DOMAIN P[e].next_hop \cup {id}
      /\ Q[e].next_hop[id] = <<l, t>>
      /\ \A i \in DOMAIN P[e].next_hop : Q[e].next_hop[i] = P[e].next_hop[i]
  BY <1>7 DEF Granted, Put
<1>9. \A k \in DOMAIN P : \A i \in DOMAIN P[k].next_hop :
         i \in DOMAIN Q[k].next_hop /\ Q[k].next_hop[i] = P[k].next_hop[i]
  BY <1>6, <1>8 DEF KeptHops
<1>10. \A k \in DOMAIN P : \A i \in DOMAIN Q[k].next_hop :
          (k = e /\ i = id) \/ i \in DOMAIN P[k].next_hop
  BY <1>6, <1>8 DEF KeptHops
<1>11. \A k \in DOMAIN P : \A u \in Awaiting(Q, k) : (k = l /\ u = t) \/ u \in Awaiting(P, k)
  BY <1>4
<1>12. OwnedBinds(Q, J)
  <2>1. \A k \in DOMAIN Q : DOMAIN Q[k].binds \subseteq DOMAIN Q[k].asked
    BY <1>2, <1>6 DEF BindInv, OwnedBinds, Granted, KeptBinds
  <2>2. \A k \in DOMAIN Q : \A u \in Awaiting(Q, k) : Route[Q[k].binds[u].visa] = Q[k].asked[u]
    BY <1>2, <1>3, <1>5, <1>6, <1>11 DEF BindInv, OwnedBinds
  <2>3. ASSUME NEW k \in J, k.link \in DOMAIN Q
        PROVE  /\ k.txn \in DOMAIN Q[k.link].binds /\ k.txn \notin Awaiting(Q, k.link)
               /\ k.route = Q[k.link].asked[k.txn]
    <3>1. k \in K /\ ~(k.link = l /\ k.txn = t) /\ k.link \in DOMAIN P
      BY <1>2, <2>3 DEF TasksBut
    <3>2. /\ k.txn \in DOMAIN P[k.link].binds /\ k.txn \notin Awaiting(P, k.link)
          /\ k.route = P[k.link].asked[k.txn]
      BY <3>1 DEF BindInv, OwnedBinds
    <3>3. DOMAIN P[k.link].binds \subseteq DOMAIN Q[k.link].binds
      BY <3>1 DEF Granted, KeptBinds
    <3> QED BY <1>6, <1>11, <3>1, <3>2, <3>3
  <2>4. \A j, k \in J : k.link \in DOMAIN Q /\ j.link = k.link /\ j.txn = k.txn => j = k
    BY <1>2 DEF BindInv, OwnedBinds, TasksBut
  <2> QED BY <2>1, <2>2, <2>3, <2>4 DEF OwnedBinds
<1>13. ConnsOld(Q, C)
  <2>1. \A k \in DOMAIN Q : Q[k].conn < C
    BY <1>2, <1>6 DEF BindInv, ConnsOld
  <2>2. P[e].conn < C
    BY DEF BindInv, ConnsOld
  <2>3. \A k \in DOMAIN Q : \A u \in Awaiting(Q, k) : Q[k].binds[u].txn.conn < C
    BY <1>1, <1>2, <1>3, <1>5, <1>11, <2>2 DEF BindInv, ConnsOld
  <2> QED BY <2>1, <2>3 DEF ConnsOld
<1>14. Counted(Q)
  <2>1. ASSUME NEW k \in DOMAIN Q, k # e
        PROVE  /\ DOMAIN Q[k].txn_mgr.open = DOMAIN Q[k].next_hop
               /\ Q[k].todo = DOMAIN Q[k].next_hop
               /\ \A i \in DOMAIN Q[k].next_hop :
                     Q[k].txn_mgr.open[i] = IF Q[k].next_hop[i][1] \in DOMAIN Q THEN 1 ELSE 0
    BY <1>2, <1>6, <2>1 DEF BindInv, Counted, KeptHops, KeptTxns
  <2>2. DOMAIN Q[e].txn_mgr.open = DOMAIN Q[e].next_hop /\ Q[e].todo = DOMAIN Q[e].next_hop
    BY <1>8 DEF BindInv, Counted, Granted
  <2>3. ASSUME NEW i \in DOMAIN Q[e].next_hop
        PROVE  Q[e].txn_mgr.open[i] = IF Q[e].next_hop[i][1] \in DOMAIN Q THEN 1 ELSE 0
    <3>1. CASE i = id
      BY <1>2, <1>8, <3>1 DEF Granted
    <3>2. CASE i # id
      <4>1. i \in DOMAIN P[e].next_hop /\ i \in DOMAIN P[e].txn_mgr.open
        BY <1>10, <3>2 DEF BindInv, Counted
      <4>2. Q[e].txn_mgr.open[i] = P[e].txn_mgr.open[i]
        BY <3>2, <4>1 DEF Granted
      <4>3. P[e].txn_mgr.open[i] = IF P[e].next_hop[i][1] \in DOMAIN P THEN 1 ELSE 0
        BY <4>1 DEF BindInv, Counted
      <4> QED BY <1>2, <1>9, <4>1, <4>2, <4>3
    <3> QED BY <3>1, <3>2
  <2> QED BY <2>1, <2>2, <2>3 DEF Counted
<1>15. BackLinked(Q)
  <2> SUFFICES ASSUME NEW k \in DOMAIN Q, NEW u \in Awaiting(Q, k),
                      Upgrades(Q, Q[k].binds[u].txn)
               PROVE  HopKnows(Q, Q[k].binds[u].txn, k, u)
    BY DEF BackLinked
  <2>1. CASE k = l /\ u = t
    <3>1. HopKnows(Q, hh, l, t)
      BY <1>1, <1>6, <1>8 DEF HopKnows
    <3> QED BY <1>3, <2>1, <3>1
  <2>2. CASE ~(k = l /\ u = t)
    <3> DEFINE h == Q[k].binds[u].txn
    <3>1. h = P[k].binds[u].txn /\ k \in DOMAIN P /\ u \in Awaiting(P, k) /\ h.link \in DOMAIN P /\ Upgrades(P, h)
      BY <1>2, <1>5, <1>6, <1>11, <2>2 DEF Upgrades
    <3>2. HopKnows(P, h, k, u)
      BY <3>1 DEF BindInv, BackLinked
    <3> HIDE DEF h
    <3>3. HopKnows(Q, h, k, u)
      BY <1>6, <1>9, <3>1, <3>2 DEF HopKnows
    <3> QED BY <3>3 DEF h
  <2> QED BY <2>1, <2>2
<1>16. ForwardLinked(Q)
  <2> SUFFICES ASSUME NEW k \in DOMAIN Q, NEW i \in DOMAIN Q[k].next_hop,
                      Q[k].next_hop[i][1] \in DOMAIN Q
               PROVE  /\ Q[k].next_hop[i][2] \in Awaiting(Q, Q[k].next_hop[i][1])
                      /\ Q[Q[k].next_hop[i][1]].binds[Q[k].next_hop[i][2]].txn = GetTxn(Q, k, i)
    BY DEF ForwardLinked
  <2>1. CASE k = e /\ i = id
    <3>1. Q[k].next_hop[i][1] = l /\ Q[k].next_hop[i][2] = t
      BY <1>8, <2>1
    <3>2. GetTxn(Q, k, i) = hh
      BY <1>6, <2>1 DEF GetTxn, hh
    <3> QED BY <1>3, <1>4, <3>1, <3>2
  <2>2. CASE ~(k = e /\ i = id)
    <3> DEFINE m == P[k].next_hop[i][1]
               u == P[k].next_hop[i][2]
    <3>1. k \in DOMAIN P /\ i \in DOMAIN P[k].next_hop /\ Q[k].next_hop[i] = P[k].next_hop[i]
      BY <1>2, <1>9, <1>10, <2>2
    <3>2. m \in DOMAIN P /\ u \in Awaiting(P, m) /\ P[m].binds[u].txn = GetTxn(P, k, i)
      BY <1>2, <3>1 DEF BindInv, ForwardLinked
    <3>3. GetTxn(Q, k, i) = GetTxn(P, k, i)
      BY <1>6, <3>1 DEF GetTxn
    <3> HIDE DEF m, u
    <3>4. u \in Awaiting(Q, m) /\ Q[m].binds[u].txn = GetTxn(Q, k, i)
      BY <1>4, <1>5, <3>2, <3>3
    <3> QED BY <3>1, <3>4 DEF m, u
  <2> QED BY <2>1, <2>2
<1>17. NoneStray(Q)
  BY <1>2, <1>6 DEF BindInv, NoneStray
<1>18. ASSUME Pursued(P, K, {<<l, t>>}) PROVE Pursued(Q, J, {})
  <2> SUFFICES ASSUME NEW k \in DOMAIN P, NEW u \in DOMAIN P[k].asked
               PROVE  /\ u \in DOMAIN Q[k].binds
                      /\ u \notin Awaiting(Q, k) => \E j \in J : j.link = k /\ j.txn = u
    BY <1>2, <1>6 DEF Pursued
  <2>1. CASE k = l /\ u = t
    BY <1>3, <1>4, <2>1
  <2>2. CASE ~(k = l /\ u = t)
    <3>1. <<k, u>> \notin {<<l, t>>}
      BY <2>2
    <3>2. /\ u \in DOMAIN P[k].binds
          /\ u \notin Awaiting(P, k) => \E j \in K : j.link = k /\ j.txn = u
      BY <1>18, <3>1 DEF Pursued
    <3>3. u \in DOMAIN Q[k].binds
      BY <3>2 DEF Granted, KeptBinds
    <3> QED BY <1>4, <2>2, <3>2, <3>3 DEF TasksBut
  <2> QED BY <2>1, <2>2
<1> QED BY <1>12, <1>13, <1>14, <1>15, <1>16, <1>17, <1>18 DEF BindInv

\* Request t of link l is yet to be answered or pursued, and has no state.
Pending(P, K, C, l, t) ==
    /\ BindInv(P, K, C)
    /\ TasksBut(K, K, l, t)
    /\ t \notin DOMAIN P[l].binds /\ t \notin Awaiting(P, l)

\* The next hop has answered: the request and both handles are gone, and the answer
\* is still to be sent.
LEMMA ForgottenInv ==
    ASSUME NEW P \in PeerTables, NEW Q, NEW K, NEW C, NEW l \in DOMAIN P, NEW t,
           NEW e \in DOMAIN P, NEW id \in DOMAIN P[e].next_hop,
           BindInv(P, K, C), Forgotten(P, Q, e, id, l, t),
           t \in Awaiting(P, l), P[l].binds[t].txn = GetTxn(P, e, id),
           P[e].next_hop[id] = <<l, t>>
    PROVE  Pending(Q, K, C, l, t) /\ (Pursued(P, K, {}) => Pursued(Q, K, {<<l, t>>}))
<1>1. DOMAIN Q = DOMAIN P
  BY DEF Forgotten
<1>2. /\ DOMAIN Q[l].binds = DOMAIN P[l].binds \ {t}
      /\ \A u \in DOMAIN P[l].binds : u # t => Q[l].binds[u] = P[l].binds[u]
  BY DEF Forgotten, Without
<1>3. /\ \A k \in DOMAIN P : k # l => Awaiting(Q, k) = Awaiting(P, k)
      /\ Awaiting(Q, l) = Awaiting(P, l) \ {t}
  <2>1. \A k \in DOMAIN P : k # l => Awaiting(Q, k) = Awaiting(P, k)
    BY DEF Forgotten, KeptBinds, Awaiting
  <2> QED BY <1>2, <2>1 DEF Awaiting
<1>4. \A k \in DOMAIN P : \A u \in Awaiting(Q, k) :
         u \in Awaiting(P, k) /\ ~(k = l /\ u = t) /\ Q[k].binds[u] = P[k].binds[u]
  BY <1>2, <1>3 DEF Forgotten, KeptBinds, Awaiting
<1>5. \A k \in DOMAIN P : \A u \in Awaiting(P, k) :
         ~(k = l /\ u = t) => u \in Awaiting(Q, k) /\ Q[k].binds[u] = P[k].binds[u]
  BY <1>2, <1>3 DEF Forgotten, KeptBinds, Awaiting
<1>6. \A k \in DOMAIN P : /\ Q[k].conn = P[k].conn /\ Q[k].asked = P[k].asked
                          /\ Q[k].stray = P[k].stray
                          /\ (k # l => Q[k].binds = P[k].binds)
                          /\ (k # e => KeptHops(P[k], Q[k]) /\ KeptTxns(P[k], Q[k]))
  BY DEF Forgotten, KeptLink, KeptAsked, KeptBinds
<1>7. /\ DOMAIN Q[e].next_hop = DOMAIN P[e].next_hop \ {id}
      /\ \A i \in DOMAIN P[e].next_hop : i # id => Q[e].next_hop[i] = P[e].next_hop[i]
  BY DEF Forgotten, Without
<1>8. \A k \in DOMAIN P : \A i \in DOMAIN Q[k].next_hop :
         ~(k = e /\ i = id) /\ i \in DOMAIN P[k].next_hop /\ Q[k].next_hop[i] = P[k].next_hop[i]
  BY <1>6, <1>7 DEF KeptHops
<1>9. \A k \in DOMAIN P : \A i \in DOMAIN P[k].next_hop :
         ~(k = e /\ i = id) => i \in DOMAIN Q[k].next_hop /\ Q[k].next_hop[i] = P[k].next_hop[i]
  BY <1>6, <1>7 DEF KeptHops
<1>10. \A k \in K : ~(k.link = l /\ k.txn = t)
  BY DEF BindInv, OwnedBinds
<1>11. OwnedBinds(Q, K)
  <2>1. \A k \in DOMAIN Q : DOMAIN Q[k].binds \subseteq DOMAIN Q[k].asked
    BY <1>1, <1>2, <1>6 DEF BindInv, OwnedBinds
  <2>2. \A k \in DOMAIN Q : \A u \in Awaiting(Q, k) : Route[Q[k].binds[u].visa] = Q[k].asked[u]
    BY <1>1, <1>4, <1>6 DEF BindInv, OwnedBinds
  <2>3. ASSUME NEW k \in K, k.link \in DOMAIN Q
        PROVE  /\ k.txn \in DOMAIN Q[k.link].binds /\ k.txn \notin Awaiting(Q, k.link)
               /\ k.route = Q[k.link].asked[k.txn]
    <3>1. /\ k.txn \in DOMAIN P[k.link].binds /\ k.txn \notin Awaiting(P, k.link)
          /\ k.route = P[k.link].asked[k.txn] /\ k.link \in DOMAIN P
      BY <1>1, <2>3 DEF BindInv, OwnedBinds
    <3> QED BY <1>2, <1>4, <1>6, <1>10, <3>1
  <2>4. \A j, k \in K : k.link \in DOMAIN Q /\ j.link = k.link /\ j.txn = k.txn => j = k
    BY <1>1 DEF BindInv, OwnedBinds
  <2> QED BY <2>1, <2>2, <2>3, <2>4 DEF OwnedBinds
<1>12. ConnsOld(Q, C)
  BY <1>1, <1>4, <1>6 DEF BindInv, ConnsOld
<1>13. Counted(Q)
  <2>1. ASSUME NEW k \in DOMAIN Q, k # e
        PROVE  /\ DOMAIN Q[k].txn_mgr.open = DOMAIN Q[k].next_hop
               /\ Q[k].todo = DOMAIN Q[k].next_hop
               /\ \A i \in DOMAIN Q[k].next_hop :
                     Q[k].txn_mgr.open[i] = IF Q[k].next_hop[i][1] \in DOMAIN Q THEN 1 ELSE 0
    BY <1>1, <1>6, <2>1 DEF BindInv, Counted, KeptHops, KeptTxns
  <2>2. /\ DOMAIN Q[e].txn_mgr.open = DOMAIN P[e].txn_mgr.open \ {id}
        /\ \A i \in DOMAIN P[e].txn_mgr.open : i # id => Q[e].txn_mgr.open[i] = P[e].txn_mgr.open[i]
        /\ Q[e].todo = P[e].todo \ {id}
    BY DEF Forgotten, Without
  <2>3. /\ DOMAIN P[e].txn_mgr.open = DOMAIN P[e].next_hop
        /\ P[e].todo = DOMAIN P[e].next_hop
        /\ \A i \in DOMAIN P[e].next_hop :
              P[e].txn_mgr.open[i] = IF P[e].next_hop[i][1] \in DOMAIN P THEN 1 ELSE 0
    BY DEF BindInv, Counted
  <2>4. DOMAIN Q[e].txn_mgr.open = DOMAIN Q[e].next_hop /\ Q[e].todo = DOMAIN Q[e].next_hop
    BY <1>7, <2>2, <2>3
  <2>5. \A i \in DOMAIN Q[e].next_hop :
           Q[e].txn_mgr.open[i] = IF Q[e].next_hop[i][1] \in DOMAIN Q THEN 1 ELSE 0
    BY <1>1, <1>7, <2>2, <2>3
  <2> QED BY <2>1, <2>4, <2>5 DEF Counted
<1>14. BackLinked(Q)
  <2> SUFFICES ASSUME NEW k \in DOMAIN Q, NEW u \in Awaiting(Q, k),
                      Upgrades(Q, Q[k].binds[u].txn)
               PROVE  HopKnows(Q, Q[k].binds[u].txn, k, u)
    BY DEF BackLinked
  <2> DEFINE h == Q[k].binds[u].txn
  <2>1. /\ h = P[k].binds[u].txn /\ k \in DOMAIN P /\ u \in Awaiting(P, k) /\ h.link \in DOMAIN P /\ Upgrades(P, h)
        /\ ~(k = l /\ u = t)
    BY <1>1, <1>4, <1>6 DEF Upgrades
  <2>2. HopKnows(P, h, k, u)
    BY <2>1 DEF BindInv, BackLinked
  <2> HIDE DEF h
  <2>3. ~(h.link = e /\ h.id = id)
    BY <2>1, <2>2 DEF HopKnows
  <2>4. HopKnows(Q, h, k, u)
    BY <1>6, <1>9, <2>1, <2>2, <2>3 DEF HopKnows
  <2> QED BY <2>4 DEF h
<1>15. ForwardLinked(Q)
  <2> SUFFICES ASSUME NEW k \in DOMAIN Q, NEW i \in DOMAIN Q[k].next_hop,
                      Q[k].next_hop[i][1] \in DOMAIN Q
               PROVE  /\ Q[k].next_hop[i][2] \in Awaiting(Q, Q[k].next_hop[i][1])
                      /\ Q[Q[k].next_hop[i][1]].binds[Q[k].next_hop[i][2]].txn = GetTxn(Q, k, i)
    BY DEF ForwardLinked
  <2> DEFINE m == P[k].next_hop[i][1]
             u == P[k].next_hop[i][2]
  <2>1. /\ k \in DOMAIN P /\ i \in DOMAIN P[k].next_hop /\ Q[k].next_hop[i] = P[k].next_hop[i]
        /\ ~(k = e /\ i = id)
    BY <1>1, <1>8
  <2>2. m \in DOMAIN P /\ u \in Awaiting(P, m) /\ P[m].binds[u].txn = GetTxn(P, k, i)
    BY <1>1, <2>1 DEF BindInv, ForwardLinked
  <2>3. GetTxn(Q, k, i) = GetTxn(P, k, i)
    BY <1>6, <2>1 DEF GetTxn
  <2> HIDE DEF m, u
  <2>4. GetTxn(P, k, i) # GetTxn(P, e, id)
    BY <2>1 DEF GetTxn, TxnHandle
  <2>5. ~(m = l /\ u = t)
    BY <2>2, <2>4
  <2>6. u \in Awaiting(Q, m) /\ Q[m].binds[u].txn = GetTxn(Q, k, i)
    BY <1>5, <2>2, <2>3, <2>5
  <2> QED BY <2>1, <2>6 DEF m, u
<1>16. NoneStray(Q)
  BY <1>1, <1>6 DEF BindInv, NoneStray
<1>17. ASSUME Pursued(P, K, {}) PROVE Pursued(Q, K, {<<l, t>>})
  <2> SUFFICES ASSUME NEW k \in DOMAIN P, NEW u \in DOMAIN P[k].asked, ~(k = l /\ u = t)
               PROVE  /\ u \in DOMAIN Q[k].binds
                      /\ u \notin Awaiting(Q, k) => \E j \in K : j.link = k /\ j.txn = u
    BY <1>1, <1>6 DEF Pursued
  <2>1. /\ u \in DOMAIN P[k].binds
        /\ u \notin Awaiting(P, k) => \E j \in K : j.link = k /\ j.txn = u
    BY <1>17 DEF Pursued
  <2>2. u \in DOMAIN Q[k].binds
    BY <1>2, <1>6, <2>1
  <2> QED BY <1>5, <2>1, <2>2
<1>18. TasksBut(K, K, l, t) /\ t \notin DOMAIN Q[l].binds /\ t \notin Awaiting(Q, l)
  BY <1>2, <1>3, <1>10 DEF TasksBut
<1> QED BY <1>11, <1>12, <1>13, <1>14, <1>15, <1>16, <1>17, <1>18 DEF BindInv, Pending

\* The same when the link that asked is gone.
LEMMA ResolvedInv ==
    ASSUME NEW P \in PeerTables, NEW Q, NEW K, NEW C, NEW X,
           NEW e \in DOMAIN P, NEW id \in DOMAIN P[e].next_hop,
           BindInv(P, K, C), Resolved(P, Q, e, id), P[e].next_hop[id][1] \notin DOMAIN P
    PROVE  BindInv(Q, K, C) /\ (Pursued(P, K, X) => Pursued(Q, K, X))
<1>1. DOMAIN Q = DOMAIN P
  BY DEF Resolved
<1>2. \A k \in DOMAIN P : /\ Q[k].conn = P[k].conn /\ Q[k].asked = P[k].asked
                          /\ Q[k].stray = P[k].stray /\ Q[k].binds = P[k].binds
                          /\ (k # e => KeptHops(P[k], Q[k]) /\ KeptTxns(P[k], Q[k]))
  BY DEF Resolved, KeptLink, KeptAsked, KeptBinds
<1>3. \A k \in DOMAIN P : Awaiting(Q, k) = Awaiting(P, k)
  BY <1>2 DEF Awaiting
<1>7. /\ DOMAIN Q[e].next_hop = DOMAIN P[e].next_hop \ {id}
      /\ \A i \in DOMAIN P[e].next_hop : i # id => Q[e].next_hop[i] = P[e].next_hop[i]
  BY DEF Resolved, Without
<1>8. \A k \in DOMAIN P : \A i \in DOMAIN Q[k].next_hop :
         ~(k = e /\ i = id) /\ i \in DOMAIN P[k].next_hop /\ Q[k].next_hop[i] = P[k].next_hop[i]
  BY <1>2, <1>7 DEF KeptHops
<1>9. \A k \in DOMAIN P : \A i \in DOMAIN P[k].next_hop :
         ~(k = e /\ i = id) => i \in DOMAIN Q[k].next_hop /\ Q[k].next_hop[i] = P[k].next_hop[i]
  BY <1>2, <1>7 DEF KeptHops
<1>11. OwnedBinds(Q, K)
  BY <1>1, <1>2, <1>3 DEF BindInv, OwnedBinds
<1>12. ConnsOld(Q, C)
  BY <1>1, <1>2, <1>3, <1>8 DEF BindInv, ConnsOld
<1>13. Counted(Q)
  <2>1. ASSUME NEW k \in DOMAIN Q, k # e
        PROVE  /\ DOMAIN Q[k].txn_mgr.open = DOMAIN Q[k].next_hop
               /\ Q[k].todo = DOMAIN Q[k].next_hop
               /\ \A i \in DOMAIN Q[k].next_hop :
                     Q[k].txn_mgr.open[i] = IF Q[k].next_hop[i][1] \in DOMAIN Q THEN 1 ELSE 0
    BY <1>1, <1>2, <2>1 DEF BindInv, Counted, KeptHops, KeptTxns
  <2>2. /\ DOMAIN Q[e].txn_mgr.open = DOMAIN P[e].txn_mgr.open \ {id}
        /\ \A i \in DOMAIN P[e].txn_mgr.open : i # id => Q[e].txn_mgr.open[i] = P[e].txn_mgr.open[i]
        /\ Q[e].todo = P[e].todo \ {id}
    BY DEF Resolved, Without
  <2>3. /\ DOMAIN P[e].txn_mgr.open = DOMAIN P[e].next_hop
        /\ P[e].todo = DOMAIN P[e].next_hop
        /\ \A i \in DOMAIN P[e].next_hop :
              P[e].txn_mgr.open[i] = IF P[e].next_hop[i][1] \in DOMAIN P THEN 1 ELSE 0
    BY DEF BindInv, Counted
  <2>4. DOMAIN Q[e].txn_mgr.open = DOMAIN Q[e].next_hop /\ Q[e].todo = DOMAIN Q[e].next_hop
    BY <1>7, <2>2, <2>3
  <2>5. \A i \in DOMAIN Q[e].next_hop :
           Q[e].txn_mgr.open[i] = IF Q[e].next_hop[i][1] \in DOMAIN Q THEN 1 ELSE 0
    BY <1>1, <1>7, <2>2, <2>3
  <2> QED BY <2>1, <2>4, <2>5 DEF Counted
<1>14. BackLinked(Q)
  <2> SUFFICES ASSUME NEW k \in DOMAIN Q, NEW u \in Awaiting(Q, k),
                      Upgrades(Q, Q[k].binds[u].txn)
               PROVE  HopKnows(Q, Q[k].binds[u].txn, k, u)
    BY DEF BackLinked
  <2> DEFINE h == Q[k].binds[u].txn
  <2>1. h = P[k].binds[u].txn /\ k \in DOMAIN P /\ u \in Awaiting(P, k) /\ h.link \in DOMAIN P /\ Upgrades(P, h)
    BY <1>1, <1>2, <1>3 DEF Upgrades
  <2>2. HopKnows(P, h, k, u)
    BY <2>1 DEF BindInv, BackLinked
  <2> HIDE DEF h
  <2>3. ~(h.link = e /\ h.id = id)
    BY <2>1, <2>2 DEF HopKnows
  <2>4. HopKnows(Q, h, k, u)
    BY <1>2, <1>9, <2>1, <2>2, <2>3 DEF HopKnows
  <2> QED BY <2>4 DEF h
<1>15. ForwardLinked(Q)
  <2> SUFFICES ASSUME NEW k \in DOMAIN Q, NEW i \in DOMAIN Q[k].next_hop,
                      Q[k].next_hop[i][1] \in DOMAIN Q
               PROVE  /\ Q[k].next_hop[i][2] \in Awaiting(Q, Q[k].next_hop[i][1])
                      /\ Q[Q[k].next_hop[i][1]].binds[Q[k].next_hop[i][2]].txn = GetTxn(Q, k, i)
    BY DEF ForwardLinked
  <2> DEFINE m == P[k].next_hop[i][1]
             u == P[k].next_hop[i][2]
  <2>1. k \in DOMAIN P /\ i \in DOMAIN P[k].next_hop /\ Q[k].next_hop[i] = P[k].next_hop[i]
    BY <1>1, <1>8
  <2>2. m \in DOMAIN P /\ u \in Awaiting(P, m) /\ P[m].binds[u].txn = GetTxn(P, k, i)
    BY <1>1, <2>1 DEF BindInv, ForwardLinked
  <2>3. GetTxn(Q, k, i) = GetTxn(P, k, i)
    BY <1>2, <2>1 DEF GetTxn
  <2> HIDE DEF m, u
  <2>4. u \in Awaiting(Q, m) /\ Q[m].binds[u].txn = GetTxn(Q, k, i)
    BY <1>2, <1>3, <2>2, <2>3
  <2> QED BY <2>1, <2>4 DEF m, u
<1>16. NoneStray(Q)
  BY <1>1, <1>2 DEF BindInv, NoneStray
<1>17. Pursued(P, K, X) => Pursued(Q, K, X)
  BY <1>1, <1>2, <1>3 DEF Pursued
<1> QED BY <1>11, <1>12, <1>13, <1>14, <1>15, <1>16, <1>17 DEF BindInv

\* An adapter asks, in a transaction that has no request outstanding.
LEMMA AskIs ==
    ASSUME NEW P \in PeerTables, NEW l \in DOMAIN P, NEW t \in PeerTxns, NEW r \in Pairs,
           NEW Q, Q = [P EXCEPT ![l].asked = Put(@, t, r)]
    PROVE  OnlyAsked(P, Q, l, Put(P[l].asked, t, r))
<1> DEFINE x == Put(P[l].asked, t, r)
<1>1. P[l] \in PeerStates /\ P[l].asked \in Partial(PeerTxns, Pairs)
  BY PeerTyped
<1>2. x \in Partial(PeerTxns, Pairs)
  BY <1>1, PutPartial
<1>3. Q = [P EXCEPT ![l] = [P[l] EXCEPT !.asked = x, !.stray = P[l].stray]]
  BY <1>1 DEF PeerStates
<1> HIDE DEF x
<1>4. OnlyAsked(P, Q, l, x)
  BY <1>2, <1>3, SetAsked
<1> QED BY <1>4 DEF x

LEMMA AskInv ==
    ASSUME NEW P, NEW Q, NEW K, NEW C, NEW l \in DOMAIN P, NEW t, NEW r,
           BindInv(P, K, C), OnlyAsked(P, Q, l, Put(P[l].asked, t, r)), t \notin DOMAIN P[l].asked
    PROVE  Pending(Q, K, C, l, t) /\ (Pursued(P, K, {}) => Pursued(Q, K, {<<l, t>>}))
<1>1. DOMAIN Q = DOMAIN P /\ \A k \in DOMAIN P : k # l => Q[k] = P[k]
  BY DEF OnlyAsked, SameLinks
<1>2. \A k \in DOMAIN P : /\ Q[k].conn = P[k].conn /\ Q[k].binds = P[k].binds
                          /\ KeptHops(P[k], Q[k]) /\ KeptTxns(P[k], Q[k])
                          /\ Q[k].stray = P[k].stray
  BY <1>1 DEF OnlyAsked, KeptLink, KeptBinds
<1>3. \A k \in DOMAIN P : Awaiting(Q, k) = Awaiting(P, k)
  BY <1>2 DEF Awaiting
<1>4. /\ DOMAIN Q[l].asked = DOMAIN P[l].asked \cup {t} /\ Q[l].asked[t] = r
      /\ \A u \in DOMAIN P[l].asked : Q[l].asked[u] = P[l].asked[u]
  BY DEF OnlyAsked, Put
<1>5. \A k \in DOMAIN P : \A u \in DOMAIN P[k].asked :
         u \in DOMAIN Q[k].asked /\ Q[k].asked[u] = P[k].asked[u]
  BY <1>1, <1>4
<1>6. \A k \in DOMAIN P : Awaiting(P, k) \subseteq DOMAIN P[k].asked
  BY DEF BindInv, OwnedBinds, Awaiting
<1>7. OwnedBinds(Q, K)
  <2>1. \A k \in DOMAIN Q : DOMAIN Q[k].binds \subseteq DOMAIN Q[k].asked
    BY <1>1, <1>2, <1>5 DEF BindInv, OwnedBinds
  <2>2. \A k \in DOMAIN Q : \A u \in Awaiting(Q, k) : Route[Q[k].binds[u].visa] = Q[k].asked[u]
    BY <1>1, <1>2, <1>3, <1>5, <1>6 DEF BindInv, OwnedBinds
  <2>3. ASSUME NEW k \in K, k.link \in DOMAIN Q
        PROVE  /\ k.txn \in DOMAIN Q[k.link].binds /\ k.txn \notin Awaiting(Q, k.link)
               /\ k.route = Q[k.link].asked[k.txn]
    <3>1. /\ k.txn \in DOMAIN P[k.link].binds /\ k.txn \notin Awaiting(P, k.link)
          /\ k.route = P[k.link].asked[k.txn] /\ k.link \in DOMAIN P
          /\ k.txn \in DOMAIN P[k.link].asked
      BY <1>1, <2>3 DEF BindInv, OwnedBinds
    <3> QED BY <1>2, <1>3, <1>5, <3>1
  <2>4. \A j, k \in K : k.link \in DOMAIN Q /\ j.link = k.link /\ j.txn = k.txn => j = k
    BY <1>1 DEF BindInv, OwnedBinds
  <2> QED BY <2>1, <2>2, <2>3, <2>4 DEF OwnedBinds
<1>8. ConnsOld(Q, C)
  BY <1>1, <1>2, <1>3 DEF BindInv, ConnsOld, KeptHops
<1>9. Counted(Q)
  BY <1>1, <1>2 DEF BindInv, Counted, KeptHops, KeptTxns
<1>10. BackLinked(Q)
  <2> SUFFICES ASSUME NEW k \in DOMAIN Q, NEW u \in Awaiting(Q, k),
                      Upgrades(Q, Q[k].binds[u].txn)
               PROVE  HopKnows(Q, Q[k].binds[u].txn, k, u)
    BY DEF BackLinked
  <2> DEFINE h == Q[k].binds[u].txn
  <2>1. h = P[k].binds[u].txn /\ k \in DOMAIN P /\ u \in Awaiting(P, k) /\ h.link \in DOMAIN P /\ Upgrades(P, h)
    BY <1>1, <1>2, <1>3 DEF Upgrades
  <2>2. HopKnows(P, h, k, u)
    BY <2>1 DEF BindInv, BackLinked
  <2> HIDE DEF h
  <2>3. HopKnows(Q, h, k, u)
    BY <1>2, <2>1, <2>2 DEF KeptHops, HopKnows
  <2> QED BY <2>3 DEF h
<1>11. ForwardLinked(Q)
  BY <1>1, <1>2, <1>3 DEF BindInv, ForwardLinked, KeptHops, GetTxn
<1>12. NoneStray(Q)
  BY <1>1, <1>2 DEF BindInv, NoneStray
<1>13. ASSUME Pursued(P, K, {}) PROVE Pursued(Q, K, {<<l, t>>})
  <2> SUFFICES ASSUME NEW k \in DOMAIN P, NEW u \in DOMAIN Q[k].asked, ~(k = l /\ u = t)
               PROVE  /\ u \in DOMAIN Q[k].binds
                      /\ u \notin Awaiting(Q, k) => \E j \in K : j.link = k /\ j.txn = u
    BY <1>1 DEF Pursued
  <2>1. u \in DOMAIN P[k].asked
    BY <1>1, <1>4
  <2> QED BY <1>2, <1>3, <1>13, <2>1 DEF Pursued
<1>14. t \notin DOMAIN P[l].binds
  BY DEF BindInv, OwnedBinds
<1>15. t \notin DOMAIN Q[l].binds /\ t \notin Awaiting(Q, l)
  BY <1>2, <1>14 DEF Awaiting
<1>16. TasksBut(K, K, l, t)
  BY <1>14 DEF TasksBut, BindInv, OwnedBinds
<1> QED BY <1>7, <1>8, <1>9, <1>10, <1>11, <1>12, <1>13, <1>15, <1>16 DEF BindInv, Pending

\* A request awaits the visa service.
Awaited(P, Q, l, t) ==
    /\ Q \in PeerTables /\ DOMAIN Q = DOMAIN P
    /\ \A k \in DOMAIN P : /\ KeptLink(P[k], Q[k]) /\ KeptRoutes(P[k], Q[k])
                           /\ KeptAsked(P[k], Q[k]) /\ KeptHops(P[k], Q[k])
                           /\ KeptTxns(P[k], Q[k])
                           /\ (k # l => KeptBinds(P[k], Q[k]))
    /\ DOMAIN Q[l].binds = DOMAIN P[l].binds \cup {t}
    /\ Q[l].binds[t] = [st |-> "AwaitingVisaResponse"]
    /\ \A u \in DOMAIN P[l].binds : u # t => Q[l].binds[u] = P[l].binds[u]

LEMMA AwaitedIs ==
    ASSUME NEW P \in PeerTables, NEW l \in DOMAIN P, NEW t \in PeerTxns, t \notin Awaiting(P, l),
           NEW Q, Q = SetBind(P, l, t, [st |-> "AwaitingVisaResponse"])
    PROVE  Awaited(P, Q, l, t)
<1> DEFINE st == [st |-> "AwaitingVisaResponse"]
           C  == ForgetBind(P, l, t)
           b  == Put(C[l].binds, t, st)
<1>1. OnlyBinds(P, C, l, Without(P[l].binds, {t}))
  BY ForgetPlain
<1>2. Q = [C EXCEPT ![l] = [C[l] EXCEPT !.binds = b]]
  BY DEF SetBind
<1>3. st \in AwaitingVisa \cup AwaitingHop
  BY DEF AwaitingVisa
<1> HIDE DEF C, st
<1>4. C \in PeerTables /\ l \in DOMAIN C /\ C[l].binds = Without(P[l].binds, {t})
  BY <1>1 DEF OnlyBinds, SameLinks
<1>5. C[l].binds \in Partial(PeerTxns, AwaitingVisa \cup AwaitingHop)
  BY <1>4, PeerTyped
<1>6. b \in Partial(PeerTxns, AwaitingVisa \cup AwaitingHop)
  BY <1>3, <1>5, PutPartial
<1>7. /\ DOMAIN b = DOMAIN P[l].binds \cup {t} /\ b[t] = st
      /\ \A u \in DOMAIN P[l].binds : u # t => b[u] = P[l].binds[u]
  BY <1>4 DEF Put, Without
<1> HIDE DEF b
<1>8. OnlyBinds(C, Q, l, b)
  BY <1>2, <1>4, <1>6, SetBinds
<1>9. Q \in PeerTables /\ DOMAIN Q = DOMAIN P /\ DOMAIN C = DOMAIN P /\ Q[l].binds = b
  BY <1>1, <1>8 DEF OnlyBinds, SameLinks
<1>10. ASSUME NEW k \in DOMAIN P
       PROVE  /\ KeptLink(P[k], Q[k]) /\ KeptRoutes(P[k], Q[k])
              /\ KeptAsked(P[k], Q[k]) /\ KeptHops(P[k], Q[k])
              /\ KeptTxns(P[k], Q[k])
              /\ (k # l => KeptBinds(P[k], Q[k]))
  BY <1>1, <1>8, <1>9
     DEF OnlyBinds, SameLinks, KeptLink, KeptRoutes, KeptAsked, KeptHops, KeptTxns, KeptBinds
<1> QED BY <1>7, <1>9, <1>10 DEF Awaited, st

LEMMA AwaitedInv ==
    ASSUME NEW P, NEW Q, NEW K, NEW C, NEW l \in DOMAIN P, NEW t, NEW x,
           BindInv(P, K, C), Awaited(P, Q, l, t), TasksBut(K, K, l, t),
           t \notin DOMAIN P[l].binds, t \in DOMAIN P[l].asked,
           x.link = l, x.txn = t, x.route = P[l].asked[t]
    PROVE  /\ BindInv(Q, K \cup {x}, C)
           /\ Pursued(P, K, {<<l, t>>}) => Pursued(Q, K \cup {x}, {})
<1>1. DOMAIN Q = DOMAIN P
  BY DEF Awaited
<1>2. \A k \in DOMAIN P : /\ Q[k].conn = P[k].conn /\ Q[k].asked = P[k].asked
                          /\ KeptHops(P[k], Q[k]) /\ KeptTxns(P[k], Q[k])
                          /\ Q[k].stray = P[k].stray
                          /\ (k # l => Q[k].binds = P[k].binds)
  BY DEF Awaited, KeptLink, KeptAsked, KeptBinds
<1>3. /\ DOMAIN Q[l].binds = DOMAIN P[l].binds \cup {t}
      /\ Q[l].binds[t].st # "AwaitingNextHopBind"
      /\ \A u \in DOMAIN P[l].binds : Q[l].binds[u] = P[l].binds[u]
  BY DEF Awaited
<1>4. \A k \in DOMAIN P : Awaiting(Q, k) = Awaiting(P, k)
  <2>1. Awaiting(Q, l) = Awaiting(P, l)
    BY <1>3 DEF Awaiting
  <2> QED BY <1>2, <2>1 DEF Awaiting
<1>5. \A k \in DOMAIN P : \A u \in DOMAIN P[k].binds :
         u \in DOMAIN Q[k].binds /\ Q[k].binds[u] = P[k].binds[u]
  BY <1>2, <1>3
<1>6. \A k \in DOMAIN P : \A u \in Awaiting(P, k) :
         u \in Awaiting(Q, k) /\ Q[k].binds[u] = P[k].binds[u]
  BY <1>4, <1>5 DEF Awaiting
<1>7. \A k \in K : ~(k.link = l /\ k.txn = t)
  BY DEF TasksBut
<1>8. t \notin Awaiting(Q, l)
  BY <1>3 DEF Awaiting
<1>9. OwnedBinds(Q, K \cup {x})
  <2>1. \A k \in DOMAIN Q : DOMAIN Q[k].binds \subseteq DOMAIN Q[k].asked
    BY <1>1, <1>2, <1>3 DEF BindInv, OwnedBinds
  <2>2. \A k \in DOMAIN Q : \A u \in Awaiting(Q, k) : Route[Q[k].binds[u].visa] = Q[k].asked[u]
    BY <1>1, <1>2, <1>4, <1>6 DEF BindInv, OwnedBinds
  <2>3. ASSUME NEW k \in K, k.link \in DOMAIN Q
        PROVE  /\ k.txn \in DOMAIN Q[k.link].binds /\ k.txn \notin Awaiting(Q, k.link)
               /\ k.route = Q[k.link].asked[k.txn]
    <3>1. /\ k.txn \in DOMAIN P[k.link].binds /\ k.txn \notin Awaiting(P, k.link)
          /\ k.route = P[k.link].asked[k.txn] /\ k.link \in DOMAIN P
      BY <1>1, <2>3 DEF BindInv, OwnedBinds
    <3> QED BY <1>2, <1>4, <1>5, <3>1
  <2>4. /\ x.txn \in DOMAIN Q[x.link].binds /\ x.txn \notin Awaiting(Q, x.link)
        /\ x.route = Q[x.link].asked[x.txn]
    BY <1>2, <1>3, <1>8
  <2>5. \A j, k \in K \cup {x} : k.link \in DOMAIN Q /\ j.link = k.link /\ j.txn = k.txn => j = k
    BY <1>1, <1>7 DEF BindInv, OwnedBinds
  <2> QED BY <2>1, <2>2, <2>3, <2>4, <2>5 DEF OwnedBinds
<1>10. ConnsOld(Q, C)
  BY <1>1, <1>2, <1>4, <1>6 DEF BindInv, ConnsOld, KeptHops
<1>11. Counted(Q)
  BY <1>1, <1>2 DEF BindInv, Counted, KeptHops, KeptTxns
<1>12. BackLinked(Q)
  <2> SUFFICES ASSUME NEW k \in DOMAIN Q, NEW u \in Awaiting(Q, k),
                      Upgrades(Q, Q[k].binds[u].txn)
               PROVE  HopKnows(Q, Q[k].binds[u].txn, k, u)
    BY DEF BackLinked
  <2> DEFINE h == Q[k].binds[u].txn
  <2>1. h = P[k].binds[u].txn /\ k \in DOMAIN P /\ u \in Awaiting(P, k) /\ h.link \in DOMAIN P /\ Upgrades(P, h)
    BY <1>1, <1>2, <1>4, <1>6 DEF Upgrades
  <2>2. HopKnows(P, h, k, u)
    BY <2>1 DEF BindInv, BackLinked
  <2> HIDE DEF h
  <2>3. HopKnows(Q, h, k, u)
    BY <1>2, <2>1, <2>2 DEF KeptHops, HopKnows
  <2> QED BY <2>3 DEF h
<1>13. ForwardLinked(Q)
  BY <1>1, <1>2, <1>6 DEF BindInv, ForwardLinked, KeptHops, GetTxn
<1>14. NoneStray(Q)
  BY <1>1, <1>2 DEF BindInv, NoneStray
<1>15. ASSUME Pursued(P, K, {<<l, t>>}) PROVE Pursued(Q, K \cup {x}, {})
  <2> SUFFICES ASSUME NEW k \in DOMAIN P, NEW u \in DOMAIN P[k].asked
               PROVE  /\ u \in DOMAIN Q[k].binds
                      /\ u \notin Awaiting(Q, k) => \E j \in K \cup {x} : j.link = k /\ j.txn = u
    BY <1>1, <1>2 DEF Pursued
  <2>1. CASE k = l /\ u = t
    BY <1>3, <2>1
  <2>2. CASE ~(k = l /\ u = t)
    <3>1. <<k, u>> \notin {<<l, t>>}
      BY <2>2
    <3>2. /\ u \in DOMAIN P[k].binds
          /\ u \notin Awaiting(P, k) => \E j \in K : j.link = k /\ j.txn = u
      BY <1>15, <3>1 DEF Pursued
    <3> QED BY <1>4, <1>5, <3>2
  <2> QED BY <2>1, <2>2
<1> QED BY <1>9, <1>10, <1>11, <1>12, <1>13, <1>14, <1>15 DEF BindInv

-------------------------------------------------------------------------------
(* Links that come and go.                                                 *)

\* A new link has no requests and no routes.
Fresh(p, a, c) ==
    /\ p \in PeerStates
    /\ p.actor = a /\ p.conn = c /\ ~p.stray
    /\ DOMAIN p.binds = {} /\ DOMAIN p.asked = {}
    /\ DOMAIN p.next_hop = {} /\ p.todo = {} /\ DOMAIN p.txn_mgr.open = {}
    /\ DOMAIN p.pft = {} /\ p.lent = {}

LEMMA NewPeerIs ==
    ASSUME NEW a \in Actors, NEW c \in Conns
    PROVE  Fresh(NewPeer(a, c), a, c)
<1>1. DOMAIN Empty = {} /\ Empty = [i \in {} |-> 0]
  BY DEF Empty
<1>2. /\ Empty \in Partial(TxnId, Nat)
      /\ Empty \in Partial(Streams, [next_hop : Entry, visa : Visas])
      /\ Empty \in Partial(PeerTxns, AwaitingVisa \cup AwaitingHop)
      /\ Empty \in Partial(TxnId, Links \X PeerTxns)
      /\ Empty \in Partial(PeerTxns, Pairs)
  BY EmptyPartial
<1> HIDE DEF Empty
<1>3. NewTxnMgr = [next_free |-> 0, open |-> Empty]
  BY <1>1 DEF NewTxnMgr
<1>4. 0 \in TxnId
  BY TxnAssumption DEF TxnId
<1>5. NewTxnMgr \in TxnMgrs /\ NewTxnMgr.open = Empty
  BY <1>2, <1>3, <1>4 DEF TxnMgrs
<1>6. NewPeer(a, c) = [actor |-> a, conn |-> c, txn_mgr |-> NewTxnMgr, pft |-> Empty,
                       binds |-> Empty, next_hop |-> Empty,
                       asked |-> Empty, todo |-> {}, lent |-> {}, stray |-> FALSE]
  BY DEF NewPeer, NodePeerState, PeerForwardingTable
<1> HIDE DEF NewTxnMgr, NewPeer
<1>7. NewPeer(a, c) \in PeerStates
  BY <1>2, <1>5, <1>6 DEF PeerStates
<1> QED BY <1>1, <1>5, <1>6, <1>7 DEF Fresh

Docked(P, Q, l, p) ==
    /\ Q \in PeerTables /\ DOMAIN Q = DOMAIN P \cup {l}
    /\ Q[l] = p
    /\ \A k \in DOMAIN P : k # l => Q[k] = P[k]

LEMMA DockedIs ==
    ASSUME NEW P \in PeerTables, NEW l \in Links, NEW p \in PeerStates, NEW Q, Q = Put(P, l, p)
    PROVE  Docked(P, Q, l, p)
<1>1. Put(P, l, p) \in PeerTables
  BY PutPartial DEF PeerTables
<1>2. /\ DOMAIN Put(P, l, p) = DOMAIN P \cup {l}
      /\ Put(P, l, p)[l] = p
      /\ \A k \in DOMAIN P : k # l => Put(P, l, p)[k] = P[k]
  BY DEF Put
<1> QED BY <1>1, <1>2 DEF Docked

\* The id may have been in use before, but no request names it any longer: a handle
\* that still does is of an earlier connection.
LEMMA DockedInv ==
    ASSUME NEW P \in PeerTables, NEW Q, NEW K, NEW C \in Nat, NEW l, l \notin DOMAIN P, NEW a, NEW p,
           BindInv(P, K, C), Fresh(p, a, C), Docked(P, Q, l, p),
           \A k \in K : k.link # l,
           \A e \in DOMAIN P : \A i \in DOMAIN P[e].next_hop : P[e].next_hop[i][1] # l
    PROVE  BindInv(Q, K, C + 1) /\ (Pursued(P, K, {}) => Pursued(Q, K, {}))
<1>1. DOMAIN Q = DOMAIN P \cup {l} /\ l \notin DOMAIN P /\ \A k \in DOMAIN P : Q[k] = P[k]
  BY DEF Docked
<1>2. /\ DOMAIN Q[l].binds = {} /\ DOMAIN Q[l].asked = {} /\ DOMAIN Q[l].next_hop = {}
      /\ Q[l].todo = {} /\ DOMAIN Q[l].txn_mgr.open = {} /\ ~Q[l].stray /\ Q[l].conn = C
  BY DEF Docked, Fresh
<1>3. Awaiting(Q, l) = {} /\ \A k \in DOMAIN P : Awaiting(Q, k) = Awaiting(P, k)
  BY <1>1, <1>2 DEF Awaiting
<1>5. \A e \in DOMAIN P : \A i \in DOMAIN P[e].next_hop : P[e].next_hop[i][1] # l
  OBVIOUS
<1>6. \A k \in DOMAIN P : \A t \in Awaiting(P, k) :
         P[k].binds[t].txn.conn < C /\ P[k].binds[t].txn.conn \in Conns
  BY AwaitingTyped DEF BindInv, ConnsOld, Handles
<1>7. OwnedBinds(Q, K)
  BY <1>1, <1>2, <1>3 DEF BindInv, OwnedBinds
<1>8. ConnsOld(Q, C + 1)
  <2>1. \A k \in DOMAIN P : P[k].conn \in Conns /\ P[k].conn < C
    BY PeerTyped DEF BindInv, ConnsOld
  <2>2. \A k \in DOMAIN Q : Q[k].conn < C + 1
    BY <1>1, <1>2, <2>1 DEF Conns
  <2>3. \A k \in DOMAIN Q : \A t \in Awaiting(Q, k) : Q[k].binds[t].txn.conn < C + 1
    BY <1>1, <1>3, <1>6 DEF Conns
  <2> QED BY <2>2, <2>3 DEF ConnsOld
<1>9. Counted(Q)
  <2> SUFFICES ASSUME NEW k \in DOMAIN Q
               PROVE  /\ DOMAIN Q[k].txn_mgr.open = DOMAIN Q[k].next_hop
                      /\ Q[k].todo = DOMAIN Q[k].next_hop
                      /\ \A i \in DOMAIN Q[k].next_hop :
                            Q[k].txn_mgr.open[i] = IF Q[k].next_hop[i][1] \in DOMAIN Q THEN 1 ELSE 0
    BY DEF Counted
  <2>1. CASE k = l
    BY <1>2, <2>1
  <2>2. CASE k \in DOMAIN P
    <3>1. /\ DOMAIN P[k].txn_mgr.open = DOMAIN P[k].next_hop
          /\ P[k].todo = DOMAIN P[k].next_hop
          /\ \A i \in DOMAIN P[k].next_hop :
                P[k].txn_mgr.open[i] = IF P[k].next_hop[i][1] \in DOMAIN P THEN 1 ELSE 0
      BY <2>2 DEF BindInv, Counted
    <3>2. Q[k] = P[k]
      BY <1>1, <2>2
    <3> QED BY <1>1, <1>5, <2>2, <3>1, <3>2
  <2> QED BY <1>1, <2>1, <2>2
<1>10. BackLinked(Q)
  <2> SUFFICES ASSUME NEW k \in DOMAIN Q, NEW u \in Awaiting(Q, k),
                      Upgrades(Q, Q[k].binds[u].txn)
               PROVE  HopKnows(Q, Q[k].binds[u].txn, k, u)
    BY DEF BackLinked
  <2> DEFINE h == Q[k].binds[u].txn
  <2>0. h = P[k].binds[u].txn /\ k \in DOMAIN P /\ u \in Awaiting(P, k) /\ Upgrades(Q, h)
    BY <1>1, <1>3
  <2>1. h = P[k].binds[u].txn /\ k \in DOMAIN P /\ u \in Awaiting(P, k) /\ h.link \in DOMAIN P /\ Upgrades(P, h)
    <3>1. h.conn < C /\ h.conn \in Conns
      BY <1>6, <2>0
    <3>2. h.link # l
      BY <1>2, <2>0, <3>1 DEF Upgrades, Conns
    <3> QED BY <1>1, <2>0, <3>2 DEF Upgrades
  <2>2. HopKnows(P, h, k, u)
    BY <2>1 DEF BindInv, BackLinked
  <2> HIDE DEF h
  <2>3. HopKnows(Q, h, k, u)
    BY <1>1, <2>1, <2>2 DEF HopKnows
  <2> QED BY <2>3 DEF h
<1>11. ForwardLinked(Q)
  BY <1>1, <1>2, <1>3, <1>5 DEF BindInv, ForwardLinked, GetTxn
<1>12. NoneStray(Q)
  BY <1>1, <1>2 DEF BindInv, NoneStray
<1>13. Pursued(P, K, {}) => Pursued(Q, K, {})
  BY <1>1, <1>2, <1>3 DEF Pursued
<1> QED BY <1>7, <1>8, <1>9, <1>10, <1>11, <1>12, <1>13 DEF BindInv

\* A link goes, and with it the handles its requests hold.
Dropped(P, Q, l) ==
    /\ Q \in PeerTables /\ DOMAIN Q = DOMAIN P \ {l}
    /\ \A k \in DOMAIN Q :
          /\ KeptLink(P[k], Q[k]) /\ KeptRoutes(P[k], Q[k]) /\ KeptBinds(P[k], Q[k])
          /\ KeptAsked(P[k], Q[k]) /\ KeptHops(P[k], Q[k])
          /\ DOMAIN Q[k].txn_mgr.open = DOMAIN P[k].txn_mgr.open
          /\ \A i \in DOMAIN P[k].txn_mgr.open :
                Q[k].txn_mgr.open[i] = IF P[k].next_hop[i][1] = l THEN 0
                                       ELSE P[k].txn_mgr.open[i]

LEMMA DroppedInv ==
    ASSUME NEW P, NEW Q, NEW K, NEW C, NEW l \in DOMAIN P,
           BindInv(P, K, C), Dropped(P, Q, l)
    PROVE  BindInv(Q, K, C) /\ (Pursued(P, K, {}) => Pursued(Q, K, {}))
<1>1. DOMAIN Q = DOMAIN P \ {l}
  BY DEF Dropped
<1>2. \A k \in DOMAIN Q : /\ Q[k].conn = P[k].conn /\ Q[k].binds = P[k].binds
                          /\ Q[k].asked = P[k].asked /\ Q[k].stray = P[k].stray
                          /\ KeptHops(P[k], Q[k])
  BY DEF Dropped, KeptLink, KeptBinds, KeptAsked
<1>3. \A k \in DOMAIN Q : Awaiting(Q, k) = Awaiting(P, k)
  BY <1>2 DEF Awaiting
<1>4. OwnedBinds(Q, K)
  BY <1>1, <1>2, <1>3 DEF BindInv, OwnedBinds
<1>5. ConnsOld(Q, C)
  BY <1>1, <1>2, <1>3 DEF BindInv, ConnsOld, KeptHops
<1>6. Counted(Q)
  <2> SUFFICES ASSUME NEW k \in DOMAIN Q
               PROVE  /\ DOMAIN Q[k].txn_mgr.open = DOMAIN Q[k].next_hop
                      /\ Q[k].todo = DOMAIN Q[k].next_hop
                      /\ \A i \in DOMAIN Q[k].next_hop :
                            Q[k].txn_mgr.open[i] = IF Q[k].next_hop[i][1] \in DOMAIN Q THEN 1 ELSE 0
    BY DEF Counted
  <2>1. /\ DOMAIN P[k].txn_mgr.open = DOMAIN P[k].next_hop
        /\ P[k].todo = DOMAIN P[k].next_hop
        /\ \A i \in DOMAIN P[k].next_hop :
              P[k].txn_mgr.open[i] = IF P[k].next_hop[i][1] \in DOMAIN P THEN 1 ELSE 0
    BY <1>1 DEF BindInv, Counted
  <2>2. /\ DOMAIN Q[k].txn_mgr.open = DOMAIN P[k].txn_mgr.open
        /\ \A i \in DOMAIN P[k].txn_mgr.open :
              Q[k].txn_mgr.open[i] = IF P[k].next_hop[i][1] = l THEN 0
                                     ELSE P[k].txn_mgr.open[i]
    BY DEF Dropped
  <2>3. Q[k].next_hop = P[k].next_hop /\ Q[k].todo = P[k].todo
    BY <1>2 DEF KeptHops
  <2> QED BY <1>1, <2>1, <2>2, <2>3
<1>7. BackLinked(Q)
  <2> SUFFICES ASSUME NEW k \in DOMAIN Q, NEW u \in Awaiting(Q, k),
                      Upgrades(Q, Q[k].binds[u].txn)
               PROVE  HopKnows(Q, Q[k].binds[u].txn, k, u)
    BY DEF BackLinked
  <2> DEFINE h == Q[k].binds[u].txn
  <2>1. /\ h = P[k].binds[u].txn /\ k \in DOMAIN P /\ u \in Awaiting(P, k) /\ h.link \in DOMAIN P /\ Upgrades(P, h)
        /\ h.link \in DOMAIN Q
    BY <1>1, <1>2, <1>3 DEF Upgrades
  <2>2. HopKnows(P, h, k, u)
    BY <2>1 DEF BindInv, BackLinked
  <2> HIDE DEF h
  <2>3. HopKnows(Q, h, k, u)
    BY <1>2, <2>1, <2>2 DEF KeptHops, HopKnows
  <2> QED BY <2>3 DEF h
<1>8. ForwardLinked(Q)
  BY <1>1, <1>2, <1>3 DEF BindInv, ForwardLinked, KeptHops, GetTxn
<1>9. NoneStray(Q)
  BY <1>1, <1>2 DEF BindInv, NoneStray
<1>10. Pursued(P, K, {}) => Pursued(Q, K, {})
  BY <1>1, <1>2, <1>3 DEF Pursued
<1> QED BY <1>4, <1>5, <1>6, <1>7, <1>8, <1>9, <1>10 DEF BindInv

\* The handles that the requests of l hold to transaction i of link k: one, if the
\* next hop k is asked for a request of l in it, and otherwise none.
LEMMA HeldIs ==
    ASSUME NEW P \in PeerTables, NEW K, NEW C, BindInv(P, K, C), NEW l \in DOMAIN P,
           NEW k \in DOMAIN P, NEW i \in DOMAIN P[k].next_hop,
           NEW S, S = {h \in {h \in {P[l].binds[t].txn : t \in Awaiting(P, l)} :
                                h.link = k /\ h.conn = P[k].conn} : h.id = i}
    PROVE  Cardinality(S) = IF P[k].next_hop[i][1] = l THEN 1 ELSE 0
<1>1. \A h \in S : \E t \in Awaiting(P, l) :
         h = P[l].binds[t].txn /\ h.link = k /\ h.conn = P[k].conn /\ h.id = i
  OBVIOUS
<1>2. CASE P[k].next_hop[i][1] = l
  <2> DEFINE g == GetTxn(P, k, i)
             t == P[k].next_hop[i][2]
  <2>1. t \in Awaiting(P, l) /\ P[l].binds[t].txn = g
    BY <1>2 DEF BindInv, ForwardLinked
  <2>2. g.link = k /\ g.conn = P[k].conn /\ g.id = i
    BY DEF GetTxn, TxnHandle
  <2>3. g \in S
    BY <2>1, <2>2
  <2>4. ASSUME NEW h \in S PROVE h = g
    <3>1. PICK u \in Awaiting(P, l) :
             h = P[l].binds[u].txn /\ h.link = k /\ h.conn = P[k].conn /\ h.id = i
      BY <1>1, <2>4
    <3>2. h \in Handles
      BY <3>1, AwaitingTyped
    <3> QED BY <3>1, <3>2 DEF Handles, GetTxn, TxnHandle
  <2> HIDE DEF g
  <2>5. S = {g}
    BY <2>3, <2>4
  <2>6. Cardinality({g}) = 1
    BY FS_Singleton
  <2> QED BY <1>2, <2>5, <2>6
<1>3. CASE P[k].next_hop[i][1] # l
  <2>1. ASSUME NEW h \in S PROVE FALSE
    <3>1. PICK u \in Awaiting(P, l) :
             h = P[l].binds[u].txn /\ h.link = k /\ h.conn = P[k].conn /\ h.id = i
      BY <1>1, <2>1
    <3>2. HopKnows(P, P[l].binds[u].txn, l, u)
      BY <3>1 DEF BindInv, BackLinked, Upgrades
    <3>3. P[k].next_hop[i] = <<l, u>>
      BY <3>1, <3>2 DEF HopKnows
    <3> QED BY <1>3, <3>3
  <2>2. S = {}
    BY <2>1
  <2> QED BY <1>3, <2>2, FS_EmptySet
<1> QED BY <1>2, <1>3

\* The handles of the requests of l to transaction i of link k, and the handles
\* to the transactions of k that are left without them.
HeldBy(P, l, k, i) ==
    {h \in {h \in {P[l].binds[t].txn : t \in Awaiting(P, l)} :
               h.link = k /\ h.conn = P[k].conn} : h.id = i}

LeftOf(P, l, k, i) == P[k].txn_mgr.open[i] + 1 - Cardinality(HeldBy(P, l, k, i))

OpenLeft(P, l, k) ==
    [i \in {j \in DOMAIN P[k].txn_mgr.open : LeftOf(P, l, k, j) > 0} |-> LeftOf(P, l, k, i) - 1]

\* There is at most one handle.
LEMMA HeldAtMostOne ==
    ASSUME NEW P \in PeerTables, NEW l \in DOMAIN P, NEW k, NEW i
    PROVE  Cardinality(HeldBy(P, l, k, i)) \in {0, 1}
<1> DEFINE S == HeldBy(P, l, k, i)
           g == GetTxn(P, k, i)
<1>1. ASSUME NEW h \in S PROVE h = g
  <2>1. PICK u \in Awaiting(P, l) :
           h = P[l].binds[u].txn /\ h.link = k /\ h.conn = P[k].conn /\ h.id = i
    BY <1>1 DEF HeldBy
  <2>2. h \in Handles
    BY <2>1, AwaitingTyped
  <2> QED BY <2>1, <2>2 DEF Handles, GetTxn, TxnHandle
<1> HIDE DEF g, S
<1>2. S = {} \/ S = {g}
  BY <1>1
<1>3. Cardinality(S) = 0 \/ Cardinality(S) = 1
  BY <1>2, FS_EmptySet, FS_Singleton
<1> QED BY <1>3 DEF S

\* Nothing but the counts changes.
Uncounted(P, Q, l) ==
    /\ Q \in PeerTables /\ DOMAIN Q = DOMAIN P \ {l}
    /\ \A k \in DOMAIN Q :
          /\ KeptLink(P[k], Q[k]) /\ KeptRoutes(P[k], Q[k]) /\ KeptBinds(P[k], Q[k])
          /\ KeptAsked(P[k], Q[k]) /\ KeptHops(P[k], Q[k])
          /\ Q[k].txn_mgr.open = OpenLeft(P, l, k)

LEMMA DropHandlesIs ==
    ASSUME NEW P \in PeerTables, NEW l \in DOMAIN P, NEW Q, Q = DropHandles(P, l)
    PROVE  Uncounted(P, Q, l)
<1> DEFINE o(k) == OpenLeft(P, l, k)
<1>1. Q = [k \in DOMAIN P \ {l} |-> [P[k] EXCEPT !.txn_mgr.open = o(k)]]
  BY DEF DropHandles, OpenLeft, LeftOf, HeldBy
<1>2. \A k \in DOMAIN P : P[k].txn_mgr.open \in Partial(TxnId, Nat)
  BY PeerTyped DEF TxnMgrs
<1>3. \A k \in DOMAIN P : /\ DOMAIN P[k].txn_mgr.open \subseteq TxnId
                          /\ \A i \in DOMAIN P[k].txn_mgr.open : P[k].txn_mgr.open[i] \in Nat
  BY <1>2, PartialIs
<1>4. ASSUME NEW k \in DOMAIN P PROVE o(k) \in Partial(TxnId, Nat)
  <2>1. o(k) = [i \in DOMAIN o(k) |-> o(k)[i]]
    BY DEF OpenLeft
  <2>2. \A i \in DOMAIN o(k) : /\ i \in DOMAIN P[k].txn_mgr.open
                               /\ LeftOf(P, l, k, i) > 0
                               /\ o(k)[i] = LeftOf(P, l, k, i) - 1
    BY DEF OpenLeft
  <2>3. ASSUME NEW i \in DOMAIN P[k].txn_mgr.open PROVE LeftOf(P, l, k, i) \in Int
    <3>1. Cardinality(HeldBy(P, l, k, i)) \in {0, 1}
      BY HeldAtMostOne
    <3> QED BY <1>3, <3>1 DEF LeftOf
  <2> HIDE DEF o
  <2>4. DOMAIN o(k) \subseteq TxnId
    BY <1>3, <2>2
  <2>5. \A i \in DOMAIN o(k) : o(k)[i] \in Nat
    BY <2>2, <2>3
  <2> QED BY <2>1, <2>4, <2>5, PartialIs
<1> HIDE DEF o
<1>5. ASSUME NEW k \in DOMAIN P
      PROVE  LET q == [P[k] EXCEPT !.txn_mgr.open = o(k)]
             IN /\ q \in PeerStates /\ q.txn_mgr.open = o(k)
                /\ KeptLink(P[k], q) /\ KeptRoutes(P[k], q) /\ KeptBinds(P[k], q)
                /\ KeptAsked(P[k], q) /\ KeptHops(P[k], q)
  <2> DEFINE m == [P[k].txn_mgr EXCEPT !.open = o(k)]
             q == [P[k] EXCEPT !.txn_mgr = m]
  <2>1. P[k] \in PeerStates /\ P[k].txn_mgr \in TxnMgrs /\ P[k].stray \in BOOLEAN
    BY PeerTyped
  <2>2. m \in TxnMgrs /\ m.open = o(k)
    BY <1>4, <2>1 DEF TxnMgrs
  <2>3. [P[k] EXCEPT !.txn_mgr.open = o(k)] = q
    OBVIOUS
  <2> HIDE DEF m
  <2>4. q \in PeerStates /\ q.txn_mgr = m
    BY <2>1, <2>2 DEF PeerStates
  <2>5. /\ KeptLink(P[k], q) /\ KeptRoutes(P[k], q) /\ KeptBinds(P[k], q)
        /\ KeptAsked(P[k], q) /\ KeptHops(P[k], q)
    BY <2>1 DEF PeerStates, KeptLink, KeptRoutes, KeptBinds, KeptAsked, KeptHops
  <2> HIDE DEF q
  <2> QED BY <2>2, <2>3, <2>4, <2>5
<1>6. DOMAIN Q = DOMAIN P \ {l} /\ \A k \in DOMAIN Q : Q[k] = [P[k] EXCEPT !.txn_mgr.open = o(k)]
  BY <1>1
<1>7. Q \in PeerTables
  <2>1. Q = [k \in DOMAIN Q |-> Q[k]]
    BY <1>1
  <2>2. DOMAIN Q \subseteq Links
    BY <1>6, PeerTyped
  <2>3. \A k \in DOMAIN Q : Q[k] \in PeerStates
    BY <1>5, <1>6
  <2> QED BY <2>1, <2>2, <2>3, PartialIs DEF PeerTables
<1>8. ASSUME NEW k \in DOMAIN Q
      PROVE  /\ KeptLink(P[k], Q[k]) /\ KeptRoutes(P[k], Q[k]) /\ KeptBinds(P[k], Q[k])
             /\ KeptAsked(P[k], Q[k]) /\ KeptHops(P[k], Q[k])
             /\ Q[k].txn_mgr.open = o(k)
  <2>1. k \in DOMAIN P
    BY <1>6
  <2> QED BY <1>5, <1>6, <2>1
<1> QED BY <1>6, <1>7, <1>8 DEF Uncounted, o

\* By the invariant, no transaction is closed.
LEMMA UncountedDropped ==
    ASSUME NEW P \in PeerTables, NEW K, NEW C, BindInv(P, K, C), NEW l \in DOMAIN P,
           NEW Q, Uncounted(P, Q, l)
    PROVE  Dropped(P, Q, l)
<1>1. ASSUME NEW k \in DOMAIN P, NEW i \in DOMAIN P[k].txn_mgr.open
      PROVE  LeftOf(P, l, k, i)
                = IF P[k].next_hop[i][1] = l THEN 1 ELSE P[k].txn_mgr.open[i] + 1
  <2>1. i \in DOMAIN P[k].next_hop
        /\ P[k].txn_mgr.open[i] = IF P[k].next_hop[i][1] \in DOMAIN P THEN 1 ELSE 0
    BY <1>1 DEF BindInv, Counted
  <2>2. Cardinality(HeldBy(P, l, k, i)) = IF P[k].next_hop[i][1] = l THEN 1 ELSE 0
    BY <2>1, HeldIs DEF HeldBy
  <2> QED BY <2>1, <2>2 DEF LeftOf
<1>2. \A k \in DOMAIN P : P[k].txn_mgr.open \in Partial(TxnId, Nat)
  BY PeerTyped DEF TxnMgrs
<1>3. \A k \in DOMAIN P : \A i \in DOMAIN P[k].txn_mgr.open : P[k].txn_mgr.open[i] \in Nat
  BY <1>2, PartialIs
<1>4. ASSUME NEW k \in DOMAIN P
      PROVE  /\ DOMAIN OpenLeft(P, l, k) = DOMAIN P[k].txn_mgr.open
             /\ \A i \in DOMAIN P[k].txn_mgr.open :
                   OpenLeft(P, l, k)[i] = IF P[k].next_hop[i][1] = l THEN 0
                                          ELSE P[k].txn_mgr.open[i]
  BY <1>1, <1>3 DEF OpenLeft
<1> QED BY <1>4 DEF Uncounted, Dropped

-------------------------------------------------------------------------------
(* Bind requests leave the routes alone until they are granted.  This does *)
(* not depend on the invariant.                                            *)

\* The tables of routes, and the adapters at the links, are as they were.
SameRoutes(P, Q) ==
    /\ Q \in PeerTables /\ DOMAIN Q = DOMAIN P
    /\ \A k \in DOMAIN P : KeptLink(P[k], Q[k]) /\ KeptRoutes(P[k], Q[k])

LEMMA SameRoutesTrans ==
    ASSUME NEW P, NEW Q, NEW R, SameRoutes(P, Q), SameRoutes(Q, R)
    PROVE  SameRoutes(P, R)
BY DEF SameRoutes, KeptLink, KeptRoutes

LEMMA OnlySameRoutes ==
    ASSUME NEW P, NEW Q, NEW l, NEW x, NEW y,
           \/ OnlyTxns(P, Q, l, x) \/ OnlyBinds(P, Q, l, x)
           \/ OnlyAsked(P, Q, l, x) \/ OnlyHops(P, Q, l, x, y)
    PROVE  SameRoutes(P, Q)
BY DEF OnlyTxns, OnlyBinds, OnlyAsked, OnlyHops, SameLinks, SameRoutes

\* Dropping a handle changes at most the count of its transaction.
LEMMA DropHandleRoutes ==
    ASSUME NEW P \in PeerTables, NEW h \in Handles, NEW Q, Q = DropHandle(P, h)
    PROVE  SameRoutes(P, Q) /\ \A k \in DOMAIN P : KeptBinds(P[k], Q[k])
<1>1. CASE Upgrades(P, h) /\ h.id \in DOMAIN P[h.link].txn_mgr.open
  <2>1. OnlyTxns(P, Q, h.link, DerefTxn(P[h.link].txn_mgr, h.id))
    BY <1>1, DropHandleIs DEF Upgrades
  <2>2. \A k \in DOMAIN P : KeptBinds(P[k], Q[k])
    BY <2>1 DEF OnlyTxns
  <2> QED BY <2>1, <2>2, OnlySameRoutes
<1>2. CASE ~(Upgrades(P, h) /\ h.id \in DOMAIN P[h.link].txn_mgr.open)
  <2>1. Q = P
    BY <1>2 DEF DropHandle
  <2> QED BY <2>1 DEF SameRoutes, KeptLink, KeptRoutes, KeptBinds
<1> QED BY <1>1, <1>2

LEMMA ForgetBindRoutes ==
    ASSUME NEW P \in PeerTables, NEW l \in DOMAIN P, NEW t, NEW Q, Q = ForgetBind(P, l, t)
    PROVE  SameRoutes(P, Q) /\ Q \in PeerTables /\ l \in DOMAIN Q
<1>1. CASE t \notin Awaiting(P, l)
  <2>1. OnlyBinds(P, Q, l, Without(P[l].binds, {t}))
    BY <1>1, ForgetPlain
  <2>2. SameRoutes(P, Q)
    BY <2>1, OnlySameRoutes
  <2> QED BY <2>2 DEF SameRoutes
<1>2. CASE t \in Awaiting(P, l)
  <2> DEFINE m == Without(P[l].binds, {t})
             R == [P EXCEPT ![l] = [P[l] EXCEPT !.binds = m]]
             h == P[l].binds[t].txn
  <2>1. P[l].binds \in Partial(PeerTxns, AwaitingVisa \cup AwaitingHop)
    BY PeerTyped
  <2>2. m \in Partial(PeerTxns, AwaitingVisa \cup AwaitingHop)
    BY <2>1, WithoutPartial
  <2>3. h \in Handles
    BY <1>2, AwaitingTyped
  <2>4. Q = DropHandle(R, h)
    BY <1>2 DEF ForgetBind
  <2> HIDE DEF m, h
  <2>5. OnlyBinds(P, R, l, m)
    BY <2>2, SetBinds
  <2> HIDE DEF R
  <2>6. SameRoutes(P, R) /\ R \in PeerTables
    BY <2>5, OnlySameRoutes DEF SameRoutes
  <2>7. SameRoutes(R, Q)
    BY <2>3, <2>4, <2>6, DropHandleRoutes
  <2>8. SameRoutes(P, Q)
    BY <2>6, <2>7, SameRoutesTrans
  <2> QED BY <2>8 DEF SameRoutes
<1> QED BY <1>1, <1>2

LEMMA SetBindRoutes ==
    ASSUME NEW P \in PeerTables, NEW l \in DOMAIN P, NEW t \in PeerTxns,
           NEW st \in AwaitingVisa \cup AwaitingHop, NEW Q, Q = SetBind(P, l, t, st)
    PROVE  SameRoutes(P, Q) /\ Q \in PeerTables /\ l \in DOMAIN Q
<1> DEFINE C == ForgetBind(P, l, t)
           b == Put(C[l].binds, t, st)
<1>1. SameRoutes(P, C) /\ C \in PeerTables /\ l \in DOMAIN C
  BY ForgetBindRoutes
<1>2. Q = [C EXCEPT ![l] = [C[l] EXCEPT !.binds = b]]
  BY DEF SetBind
<1> HIDE DEF C
<1>3. C[l].binds \in Partial(PeerTxns, AwaitingVisa \cup AwaitingHop)
  BY <1>1, PeerTyped
<1>4. b \in Partial(PeerTxns, AwaitingVisa \cup AwaitingHop)
  BY <1>3, PutPartial
<1> HIDE DEF b
<1>5. OnlyBinds(C, Q, l, b)
  BY <1>1, <1>2, <1>4, SetBinds
<1>6. SameRoutes(C, Q)
  BY <1>5, OnlySameRoutes
<1>7. SameRoutes(P, Q)
  BY <1>1, <1>6, SameRoutesTrans
<1> QED BY <1>7 DEF SameRoutes

LEMMA AnsweredRoutes ==
    ASSUME NEW P \in PeerTables, NEW l \in DOMAIN P, NEW t, NEW v, NEW Q, Q = Answered(P, l, t, v)
    PROVE  SameRoutes(P, Q) /\ Q \in PeerTables /\ l \in DOMAIN Q
<1> DEFINE x == Without(P[l].asked, {t})
           y == P[l].stray \/ t \notin DOMAIN P[l].asked \/ (v # None /\ Route[v] # P[l].asked[t])
           q == [P[l] EXCEPT !.asked = x, !.stray = y]
<1>1. P[l] \in PeerStates /\ P[l].asked \in Partial(PeerTxns, Pairs) /\ P[l].stray \in BOOLEAN
  BY PeerTyped
<1>2. x \in Partial(PeerTxns, Pairs)
  BY <1>1, WithoutPartial
<1>3. y \in BOOLEAN
  BY <1>1
<1>4. Q = [P EXCEPT ![l] = q]
  BY DEF Answered
<1> HIDE DEF x, y
<1>5. q \in PeerStates
  BY <1>1, <1>2, <1>3 DEF PeerStates
<1>6. KeptLink(P[l], q) /\ KeptRoutes(P[l], q)
  BY <1>1 DEF PeerStates, KeptLink, KeptRoutes
<1> HIDE DEF q
<1>7. SameLinks(P, Q, l) /\ Q[l] = q
  BY <1>4, <1>5, ReplacePeer
<1> QED BY <1>6, <1>7 DEF SameLinks, SameRoutes, KeptLink, KeptRoutes

LEMMA BindRejectRoutes ==
    ASSUME NEW P \in PeerTables, NEW l, NEW t, NEW Q, Q = BindReject(P, l, t)
    PROVE  SameRoutes(P, Q)
<1>1. CASE l \in DOMAIN P
  <2> DEFINE R == ForgetBind(P, l, t)
  <2>1. Q = Answered(R, l, t, None)
    BY <1>1 DEF BindReject
  <2>2. SameRoutes(P, R) /\ R \in PeerTables /\ l \in DOMAIN R
    BY <1>1, ForgetBindRoutes
  <2> HIDE DEF R
  <2>3. SameRoutes(R, Q)
    BY <2>1, <2>2, AnsweredRoutes
  <2> QED BY <2>2, <2>3, SameRoutesTrans
<1>2. CASE l \notin DOMAIN P
  <2>1. Q = P
    BY <1>2 DEF BindReject
  <2> QED BY <2>1 DEF SameRoutes, KeptLink, KeptRoutes
<1> QED BY <1>1, <1>2

LEMMA RequestedVisaGrantedRoutes ==
    ASSUME NEW P \in PeerTables, NEW l, NEW t \in PeerTxns, NEW v \in Visas,
           NEW Q, Q = RequestedVisaGranted(P, l, t, v),
           EgressLinkForVisa(P, v) # None => CanOpen(P[EgressLinkForVisa(P, v)].txn_mgr)
    PROVE  SameRoutes(P, Q)
<1> DEFINE e == EgressLinkForVisa(P, v)
<1>1. CASE e = None
  <2>1. Q = BindReject(P, l, t)
    BY <1>1 DEF RequestedVisaGranted, RequestedVisaDenied
  <2> QED BY <2>1, BindRejectRoutes
<1>2. CASE e # None /\ l \notin DOMAIN P
  <2>1. SameTables(P, Q)
    BY <1>2, GrantedGone
  <2> QED BY <2>1 DEF SameTables, SameRoutes
<1>3. CASE e # None /\ l \in DOMAIN P
  <2> DEFINE id == P[e].txn_mgr.next_free
             h  == TxnHandle(e, P[e].conn, id)
             st == [st |-> "AwaitingNextHopBind", visa |-> v, txn |-> h]
             A  == [P EXCEPT ![e].txn_mgr = TryOpenRaw(@)]
             B  == CloneHandle(A, h)
             D  == SetBind(B, l, t, st)
  <2>1. e \in DOMAIN P
    BY <1>3, EgressIs
  <2>2. e \in Links /\ P[e].conn \in Conns /\ P[e].txn_mgr \in TxnMgrs /\ l \in Links
    BY <1>3, <2>1, PeerTyped
  <2>3. id \in TxnId
    BY <2>2 DEF TxnMgrs
  <2>4. h \in Handles /\ h.link = e /\ h.id = id
    BY <2>2, <2>3 DEF Handles, TxnHandle
  <2>5. st \in AwaitingVisa \cup AwaitingHop
    BY <2>4 DEF AwaitingHop
  <2>6. Q = BindEgressStreamRequest([D EXCEPT ![e].next_hop = Put(@, id, <<l, t>>)], e, id)
    BY <1>3, <2>4 DEF RequestedVisaGranted, Handle
  <2>7. OnlyTxns(P, A, e, TryOpenRaw(P[e].txn_mgr))
    BY <2>1, OpenedIs
  <2>8. id \in DOMAIN TryOpenRaw(P[e].txn_mgr).open
    BY <2>2, TryOpenRawIs
  <2> HIDE DEF h, st, A, id, e
  <2>9. SameRoutes(P, A) /\ A \in PeerTables /\ DOMAIN A = DOMAIN P /\ id \in DOMAIN A[e].txn_mgr.open
    BY <2>7, <2>8, OnlySameRoutes DEF SameRoutes, OnlyTxns
  <2>10. OnlyTxns(A, B, h.link, RefTxn(A[h.link].txn_mgr, h.id))
    BY <2>1, <2>4, <2>9, CloneHandleIs
  <2> HIDE DEF B
  <2>11. SameRoutes(A, B) /\ B \in PeerTables /\ DOMAIN B = DOMAIN P
    BY <2>9, <2>10, OnlySameRoutes DEF SameRoutes
  <2>12. SameRoutes(B, D)
    BY <1>3, <2>5, <2>11, SetBindRoutes
  <2> HIDE DEF D
  <2>13. D \in PeerTables /\ e \in DOMAIN D
    BY <2>1, <2>11, <2>12 DEF SameRoutes
  <2>14. <<l, t>> \in Links \X PeerTxns
    BY <2>2
  <2>15. OnlyHops(D, Q, e, Put(D[e].next_hop, id, <<l, t>>), D[e].todo \cup {id})
    BY <2>3, <2>6, <2>13, <2>14, HopAskedIs
  <2>16. SameRoutes(D, Q)
    BY <2>15, OnlySameRoutes
  <2> QED BY <2>9, <2>11, <2>12, <2>16, SameRoutesTrans
<1> QED BY <1>1, <1>2, <1>3

LEMMA ResolveNextHopRoutes ==
    ASSUME NEW P \in PeerTables, NEW e \in DOMAIN P, NEW id \in TxnId,
           NEW Q, Q = ResolveNextHop(P, e, id)
    PROVE  SameRoutes(P, Q) /\ \A k \in DOMAIN P : KeptBinds(P[k], Q[k])
<1> DEFINE x == Without(P[e].next_hop, {id})
           y == P[e].todo \ {id}
           R == [P EXCEPT ![e] = [P[e] EXCEPT !.next_hop = x, !.todo = y]]
           h == TxnHandle(e, P[e].conn, id)
<1>1. P[e] \in PeerStates /\ P[e].next_hop \in Partial(TxnId, Links \X PeerTxns)
      /\ P[e].todo \in SUBSET TxnId /\ e \in Links /\ P[e].conn \in Conns
  BY PeerTyped
<1>2. x \in Partial(TxnId, Links \X PeerTxns) /\ y \in SUBSET TxnId
  BY <1>1, WithoutPartial
<1>3. h \in Handles
  BY <1>1 DEF Handles, TxnHandle
<1>4. Q = DropHandle(R, h)
  <2>1. R = [P EXCEPT ![e].next_hop = Without(@, {id}), ![e].todo = @ \ {id}]
    BY <1>1 DEF PeerStates
  <2> QED BY <2>1 DEF ResolveNextHop, GetTxn
<1> HIDE DEF x, y, h
<1>5. OnlyHops(P, R, e, x, y)
  BY <1>2, SetHops
<1> HIDE DEF R
<1>6. SameRoutes(P, R) /\ R \in PeerTables /\ DOMAIN R = DOMAIN P
      /\ \A k \in DOMAIN P : KeptBinds(P[k], R[k])
  BY <1>5, OnlySameRoutes DEF SameRoutes, OnlyHops
<1>7. SameRoutes(R, Q) /\ \A k \in DOMAIN R : KeptBinds(R[k], Q[k])
  BY <1>3, <1>4, <1>6, DropHandleRoutes
<1>8. SameRoutes(P, Q)
  BY <1>6, <1>7, SameRoutesTrans
<1>9. \A k \in DOMAIN P : KeptBinds(P[k], Q[k])
  BY <1>6, <1>7 DEF KeptBinds
<1> QED BY <1>8, <1>9

\* Routes are withdrawn, and every adapter but that of link x is told.
Withdrawn(P, Q, E, x) ==
    /\ Q \in PeerTables /\ DOMAIN Q = DOMAIN P
    /\ \A k \in DOMAIN P :
          /\ KeptLink(P[k], Q[k]) /\ KeptBinds(P[k], Q[k]) /\ KeptAsked(P[k], Q[k])
          /\ KeptHops(P[k], Q[k]) /\ KeptTxns(P[k], Q[k])
          /\ Q[k].pft = Without(P[k].pft, {s \in Streams : <<k, s>> \in E})
          /\ k # x => Q[k].lent = P[k].lent \ {s \in Streams : <<k, s>> \in E}

LEMMA WithdrawnIs ==
    ASSUME NEW P \in PeerTables, NEW E, NEW x, NEW Q, Q = WithdrawStreams(RemoveRoutes(P, E), E, x)
    PROVE  Withdrawn(P, Q, E, x)
<1> DEFINE S(k) == {s \in Streams : <<k, s>> \in E}
           f(k) == Without(P[k].pft, S(k))
           g(k) == IF k = x THEN P[k].lent ELSE P[k].lent \ S(k)
           q(k) == [P[k] EXCEPT !.pft = f(k), !.lent = g(k)]
<1>1. \A k \in DOMAIN P : /\ P[k] \in PeerStates /\ P[k].lent \in SUBSET Streams
                          /\ P[k].pft \in Partial(Streams, [next_hop : Entry, visa : Visas])
                          /\ k \in Links /\ P[k].stray \in BOOLEAN
  BY PeerTyped
<1>2. Q = [k \in DOMAIN P |-> q(k)]
  BY <1>1 DEF WithdrawStreams, RemoveRoutes, PeerStates
<1>3. ASSUME NEW k \in DOMAIN P
      PROVE  /\ f(k) \in Partial(Streams, [next_hop : Entry, visa : Visas])
             /\ g(k) \in SUBSET Streams
  BY <1>1, <1>3, WithoutPartial
<1>4. \A k \in DOMAIN P : k # x => g(k) = P[k].lent \ S(k)
  OBVIOUS
<1> HIDE DEF f, g
<1>5. ASSUME NEW k \in DOMAIN P
      PROVE  /\ q(k) \in PeerStates /\ q(k).pft = f(k) /\ q(k).lent = g(k)
             /\ KeptLink(P[k], q(k)) /\ KeptBinds(P[k], q(k)) /\ KeptAsked(P[k], q(k))
             /\ KeptHops(P[k], q(k)) /\ KeptTxns(P[k], q(k))
  <2>1. q(k) \in PeerStates
    BY <1>1, <1>3, <1>5 DEF PeerStates
  <2> QED BY <1>1, <1>5, <2>1 DEF PeerStates, KeptLink, KeptBinds, KeptAsked, KeptHops, KeptTxns
<1>6. DOMAIN Q = DOMAIN P /\ \A k \in DOMAIN P : Q[k] = q(k)
  BY <1>2
<1>7. Q = [k \in DOMAIN Q |-> Q[k]]
  BY <1>2
<1> HIDE DEF q
<1>8. Q \in PeerTables
  BY <1>1, <1>5, <1>6, <1>7, PartialIs DEF PeerTables
<1> QED BY <1>4, <1>5, <1>6, <1>8 DEF Withdrawn, f

LEMMA WithdrawnSame ==
    ASSUME NEW P, NEW Q, NEW E, NEW x, Withdrawn(P, Q, E, x) PROVE SameBinds(P, Q)
BY DEF Withdrawn, SameBinds, KeptLink, KeptTxns

-------------------------------------------------------------------------------
(* The entries of a visa.                                                  *)

\* A set of positions that is not empty has a first.
LEMMA FirstPosition ==
    ASSUME NEW T, T \subseteq Nat, T # {}
    PROVE  \E x \in T : \A y \in T : x <= y
<1>1. \E x \in T : \A y \in T : ~(<<y, x>> \in OpToRel(<, Nat))
  BY NatLessThanWellFounded, WFMin, Zenon
<1>2. ASSUME NEW x \in Nat, NEW y \in Nat
      PROVE  (<<y, x>> \in OpToRel(<, Nat)) <=> y < x
  <2>1. OpToRel(<, Nat) = {ss \in Nat \X Nat : ss[1] < ss[2]}
    BY DEF OpToRel
  <2>2. <<y, x>> \in {ss \in Nat \X Nat : ss[1] < ss[2]} <=> y < x
    OBVIOUS
  <2> QED BY <2>1, <2>2, Zenon
<1>3. \E x \in T : \A y \in T : ~(y < x)
  BY <1>1, <1>2, Zenon
<1> QED BY <1>3

\* Unlinking an entry keeps every other one.
LEMMA UnlinkIs ==
    ASSUME NEW T, NEW q \in Seq(T), NEW x
    PROVE  /\ Unlink(q, x) \in Seq(T)
           /\ \A i \in 1 .. Len(q) : q[i] # x =>
                 \E j \in 1 .. Len(Unlink(q, x)) : Unlink(q, x)[j] = q[i]
<1> DEFINE S == {i \in 1 .. Len(q) : q[i] = x}
           k == CHOOSE i \in S : \A j \in S : i <= j
           n == Len(q)
           u == [q EXCEPT ![k] = q[n]]
<1>1. CASE S = {}
  <2>1. Unlink(q, x) = q
    BY <1>1 DEF Unlink
  <2> QED BY <2>1
<1>2. CASE S # {}
  <2>1. k \in 1 .. n /\ q[k] = x
    <3>1. S \in SUBSET Nat
      OBVIOUS
    <3>2. \E i \in S : \A j \in S : i <= j
      BY <1>2, <3>1, FirstPosition
    <3>3. k \in S
      BY <3>2
    <3> QED BY <3>3
  <2>2. n \in Nat /\ n >= 1
    BY <2>1
  <2>3. Unlink(q, x) = SubSeq(u, 1, n - 1)
    BY <1>2 DEF Unlink
  <2> HIDE DEF k
  <2>4. u \in Seq(T) /\ Len(u) = n /\ u[k] = q[n] /\ \A i \in 1 .. n : i # k => u[i] = q[i]
    BY <2>1, <2>2
  <2> HIDE DEF u
  <2>5. /\ SubSeq(u, 1, n - 1) \in Seq(T) /\ Len(SubSeq(u, 1, n - 1)) = n - 1
        /\ \A i \in 1 .. (n - 1) : SubSeq(u, 1, n - 1)[i] = u[i]
    BY <2>2, <2>4
  <2>6. ASSUME NEW i \in 1 .. n, q[i] # x
        PROVE  \E j \in 1 .. (n - 1) : u[j] = q[i]
    <3>1. i # k
      BY <2>1, <2>6
    <3>2. CASE i < n
      BY <2>2, <2>4, <3>1, <3>2
    <3>3. CASE i = n
      <4>1. k \in 1 .. (n - 1) /\ u[k] = q[i]
        BY <2>1, <2>2, <2>4, <3>1, <3>3
      <4> QED BY <4>1
    <3> QED BY <2>2, <3>2, <3>3
  <2> QED BY <2>3, <2>5, <2>6
<1> QED BY <1>1, <1>2

-------------------------------------------------------------------------------
(* Types, and what adapters have been lent.                                *)

\* The address of a link goes.
Deregistered(P, Q, l) ==
    /\ Q \in PeerTables /\ DOMAIN Q = DOMAIN P
    /\ \A k \in DOMAIN P : /\ Q[k].actor \in {None, P[k].actor} /\ Q[k].conn = P[k].conn
                           /\ KeptRoutes(P[k], Q[k]) /\ KeptBinds(P[k], Q[k])
                           /\ KeptAsked(P[k], Q[k]) /\ KeptHops(P[k], Q[k])
                           /\ KeptTxns(P[k], Q[k])

LEMMA DeregisteredIs ==
    ASSUME NEW P \in PeerTables, NEW l \in DOMAIN P, NEW Q, Q = [P EXCEPT ![l].actor = None]
    PROVE  Deregistered(P, Q, l)
<1> DEFINE q == [P[l] EXCEPT !.actor = None]
<1>1. P[l] \in PeerStates /\ P[l].stray \in BOOLEAN
  BY PeerTyped
<1>2. q \in PeerStates /\ q.actor = None /\ q.conn = P[l].conn
  BY <1>1 DEF PeerStates
<1>3. /\ KeptRoutes(P[l], q) /\ KeptBinds(P[l], q)
      /\ KeptAsked(P[l], q) /\ KeptHops(P[l], q) /\ KeptTxns(P[l], q)
  BY <1>1 DEF PeerStates, KeptRoutes, KeptBinds, KeptAsked, KeptHops, KeptTxns
<1>4. Q = [P EXCEPT ![l] = q]
  OBVIOUS
<1> HIDE DEF q
<1>5. SameLinks(P, Q, l) /\ Q[l] = q
  BY <1>2, <1>4, ReplacePeer
<1> QED BY <1>2, <1>3, <1>5
        DEF Deregistered, SameLinks, KeptRoutes, KeptBinds, KeptAsked, KeptHops, KeptTxns

\* The adapter at l gives up stream s.
LEMMA GivenUpIs ==
    ASSUME NEW P \in PeerTables, NEW l \in DOMAIN P, NEW s,
           NEW Q, Q = [[P EXCEPT ![l].lent = @ \ {s}] EXCEPT ![l].pft = Without(@, {s})]
    PROVE  OnlyRoutes(P, Q, l, Without(P[l].pft, {s}), P[l].lent \ {s})
<1> DEFINE x == Without(P[l].pft, {s})
           y == P[l].lent \ {s}
<1>1. P[l] \in PeerStates /\ P[l].pft \in Partial(Streams, [next_hop : Entry, visa : Visas])
      /\ P[l].lent \in SUBSET Streams
  BY PeerTyped
<1>2. x \in Partial(Streams, [next_hop : Entry, visa : Visas]) /\ y \in SUBSET Streams
  BY <1>1, WithoutPartial
<1>3. Q = [P EXCEPT ![l] = [P[l] EXCEPT !.pft = x, !.lent = y]]
  BY <1>1 DEF PeerStates
<1> HIDE DEF x, y
<1>4. OnlyRoutes(P, Q, l, x, y)
  BY <1>2, <1>3, SetRoutes
<1> QED BY <1>4 DEF x, y

\* PeersInformed, for any tables.
Informed(P) == \A l \in DOMAIN P : P[l].lent = DOMAIN P[l].pft

LEMMA SameRoutesInformed ==
    ASSUME NEW P, NEW Q, SameRoutes(P, Q), Informed(P) PROVE Informed(Q)
BY DEF SameRoutes, KeptRoutes, Informed

LEMMA VisaPut ==
    ASSUME NEW V \in VisaTables, NEW v \in Visas
    PROVE  TableInsert(V, v) \in VisaTables
<1>1. NewVisa \in Seq(Entry)
  BY DEF NewVisa
<1> QED BY <1>1, PutPartial DEF TableInsert, VisaTables

LEMMA RoutesTyped ==
    ASSUME NEW r \in Routes PROVE r \in Pairs
BY NodeAssumption DEF Routes, Pairs

LEMMA BindTyped ==
    ASSUME TypeOK, NEW l \in Links, NEW t \in PeerTxns, NEW r \in Routes,
           BindActorAddress(l, t, r)
    PROVE  TypeOK' /\ SameRoutes(peers, peers')
<1> DEFINE P == [peers EXCEPT ![l].asked = Put(@, t, r)]
<1>1. r \in Pairs /\ l \in DOMAIN peers /\ peers \in PeerTables /\ peers[l].conn \in Conns
  BY RoutesTyped, PeerTyped DEF BindActorAddress, TypeOK
<1>2. OnlyAsked(peers, P, l, Put(peers[l].asked, t, r))
  BY <1>1, AskIs
<1>3. /\ ~panicked
      /\ \/ /\ panicked' = RejectPanics(P, l, t)
            /\ peers' = IF panicked' THEN P ELSE BindReject(P, l, t)
            /\ UNCHANGED tasks
         \/ /\ \E v \in Matching(r) :
                  /\ panicked' = GrantPanics(P, l, t, v)
                  /\ peers' = IF panicked' THEN P ELSE RequestedVisaGranted(P, l, t, v)
            /\ UNCHANGED tasks
         \/ /\ peers' = SetBind(P, l, t, [st |-> "AwaitingVisaResponse"])
            /\ tasks' = tasks \cup {[link |-> l, txn |-> t, route |-> r, conn |-> P[l].conn]}
            /\ UNCHANGED panicked
      /\ UNCHANGED <<visas, conns, used, reissued>>
  BY DEF BindActorAddress, ghosts
<1> HIDE DEF P
<1>4. SameRoutes(peers, P) /\ P \in PeerTables /\ l \in DOMAIN P /\ P[l].conn \in Conns
  BY <1>1, <1>2, OnlySameRoutes DEF SameRoutes, KeptLink
<1>5. CASE /\ panicked' = RejectPanics(P, l, t)
           /\ peers' = IF panicked' THEN P ELSE BindReject(P, l, t)
           /\ UNCHANGED tasks
  <2>1. panicked' \in BOOLEAN
    BY <1>5 DEF RejectPanics
  <2>2. SameRoutes(P, BindReject(P, l, t))
    BY <1>4, BindRejectRoutes
  <2>3. SameRoutes(peers, peers')
    BY <1>4, <1>5, <2>1, <2>2, SameRoutesTrans
  <2> QED BY <1>3, <1>5, <2>1, <2>3 DEF TypeOK, SameRoutes
<1>6. CASE /\ \E v \in Matching(r) :
                 /\ panicked' = GrantPanics(P, l, t, v)
                 /\ peers' = IF panicked' THEN P ELSE RequestedVisaGranted(P, l, t, v)
           /\ UNCHANGED tasks
  <2>1. PICK v \in Matching(r) :
           /\ panicked' = GrantPanics(P, l, t, v)
           /\ peers' = IF panicked' THEN P ELSE RequestedVisaGranted(P, l, t, v)
    BY <1>6
  <2>2. panicked' \in BOOLEAN
    BY <2>1 DEF GrantPanics, RejectPanics, CanOpen
  <2>3. v \in Visas
    BY PartialIs DEF Matching, TypeOK, VisaTables
  <2>4. CASE panicked'
    BY <1>3, <1>4, <1>6, <2>1, <2>2, <2>4 DEF TypeOK, SameRoutes
  <2>5. CASE ~panicked'
    <3>1. peers' = RequestedVisaGranted(P, l, t, v)
      BY <2>1, <2>5
    <3>2. EgressLinkForVisa(P, v) # None => CanOpen(P[EgressLinkForVisa(P, v)].txn_mgr)
      BY <2>1, <2>5 DEF GrantPanics
    <3>3. SameRoutes(P, peers')
      BY <1>4, <2>3, <3>1, <3>2, RequestedVisaGrantedRoutes
    <3>4. SameRoutes(peers, peers')
      BY <1>4, <3>3, SameRoutesTrans
    <3> QED BY <1>3, <1>6, <2>2, <3>4 DEF TypeOK, SameRoutes
  <2> QED BY <2>2, <2>4, <2>5
<1>7. CASE /\ peers' = SetBind(P, l, t, [st |-> "AwaitingVisaResponse"])
           /\ tasks' = tasks \cup {[link |-> l, txn |-> t, route |-> r, conn |-> P[l].conn]}
           /\ UNCHANGED panicked
  <2>1. [st |-> "AwaitingVisaResponse"] \in AwaitingVisa \cup AwaitingHop
    BY DEF AwaitingVisa
  <2>2. SameRoutes(P, peers')
    BY <1>4, <1>7, <2>1, SetBindRoutes
  <2>3. SameRoutes(peers, peers')
    BY <1>4, <2>2, SameRoutesTrans
  <2>4. tasks' \subseteq Tasks
    BY <1>1, <1>4, <1>7 DEF TypeOK, Tasks
  <2> QED BY <1>3, <1>7, <2>3, <2>4 DEF TypeOK, SameRoutes
<1> QED BY <1>3, <1>5, <1>6, <1>7

LEMMA VisaDeniedTyped ==
    ASSUME TypeOK, NEW k \in tasks, VisaDenied(k)
    PROVE  TypeOK' /\ SameRoutes(peers, peers')
<1>1. peers \in PeerTables
  BY DEF TypeOK
<1>2. panicked' \in BOOLEAN
  BY DEF VisaDenied, RejectPanics
<1>3. SameRoutes(peers, BindReject(peers, k.link, k.txn)) /\ SameRoutes(peers, peers)
  BY <1>1, BindRejectRoutes DEF SameRoutes, KeptLink, KeptRoutes
<1>4. SameRoutes(peers, peers')
  BY <1>3 DEF VisaDenied, RequestedVisaDenied
<1>5. tasks' \subseteq Tasks
  BY DEF VisaDenied, TypeOK
<1> QED BY <1>2, <1>4, <1>5 DEF VisaDenied, TypeOK, SameRoutes, ghosts

LEMMA VisaGrantedTyped ==
    ASSUME TypeOK, NEW k \in tasks, VisaGranted(k)
    PROVE  TypeOK' /\ SameRoutes(peers, peers')
<1>1. peers \in PeerTables /\ k.txn \in PeerTxns
  BY DEF TypeOK, Tasks
<1>2. PICK v \in Visas : /\ visas' = TableInsert(visas, v)
                         /\ panicked' = GrantPanics(peers, k.link, k.txn, v)
                         /\ peers' = IF panicked' THEN peers
                                     ELSE RequestedVisaGranted(peers, k.link, k.txn, v)
  BY DEF VisaGranted, VisaDecisions, InsertVisa
<1>3. panicked' \in BOOLEAN
  BY <1>2 DEF GrantPanics, RejectPanics, CanOpen
<1>4. tasks' \subseteq Tasks /\ UNCHANGED <<conns, used, reissued>>
  BY DEF VisaGranted, TypeOK
<1>5. visas' \in VisaTables
  BY <1>2, VisaPut DEF TypeOK
<1>6. CASE panicked'
  <2>1. SameRoutes(peers, peers')
    BY <1>1, <1>2, <1>6 DEF SameRoutes, KeptLink, KeptRoutes
  <2> QED BY <1>3, <1>4, <1>5, <2>1 DEF TypeOK, SameRoutes
<1>7. CASE ~panicked'
  <2>1. peers' = RequestedVisaGranted(peers, k.link, k.txn, v)
    BY <1>2, <1>7
  <2>2. EgressLinkForVisa(peers, v) # None => CanOpen(peers[EgressLinkForVisa(peers, v)].txn_mgr)
    BY <1>2, <1>7 DEF GrantPanics
  <2>3. SameRoutes(peers, peers')
    BY <1>1, <2>1, <2>2, RequestedVisaGrantedRoutes
  <2> QED BY <1>3, <1>4, <1>5, <2>3 DEF TypeOK, SameRoutes
<1> QED BY <1>3, <1>6, <1>7

LEMMA DenyTetherTyped ==
    ASSUME TypeOK, NEW e \in Links, NEW id \in TxnId, DenyTether(e, id)
    PROVE  TypeOK' /\ SameRoutes(peers, peers')
<1> DEFINE R == ResolveNextHop(peers, e, id)
           l == peers[e].next_hop[id][1]
           t == peers[e].next_hop[id][2]
<1>1. peers \in PeerTables /\ e \in DOMAIN peers
  BY DEF TypeOK, DenyTether, EgressStreamResponse
<1>2. panicked' \in BOOLEAN
  BY DEF DenyTether, ConsistencyError
<1>3. peers' = IF panicked' THEN peers ELSE BindReject(R, l, t)
  BY DEF DenyTether
<1>4. SameRoutes(peers, peers)
  BY <1>1 DEF SameRoutes, KeptLink, KeptRoutes
<1>5. SameRoutes(peers, R)
  BY <1>1, ResolveNextHopRoutes
<1> HIDE DEF R, l, t
<1>6. SameRoutes(R, BindReject(R, l, t))
  BY <1>5, BindRejectRoutes DEF SameRoutes
<1>7. SameRoutes(peers, BindReject(R, l, t))
  BY <1>5, <1>6, SameRoutesTrans
<1>8. SameRoutes(peers, peers')
  BY <1>3, <1>4, <1>7
<1> QED BY <1>2, <1>8 DEF DenyTether, TypeOK, SameRoutes, ghosts

\* A tether is granted: at most one route is new, for the visa of a request that
\* awaited it, on a stream that was free.
Routed(P, Q, V, W, e, l, s, tether, v) ==
    /\ Q \in PeerTables /\ DOMAIN Q = DOMAIN P
    /\ \A k \in DOMAIN P : KeptLink(P[k], Q[k]) /\ (k # l => KeptRoutes(P[k], Q[k]))
    /\ l \in DOMAIN P /\ s \in Streams /\ s \notin DOMAIN P[l].pft
    /\ v \in Visas /\ v \in DOMAIN V
    /\ Q[l].pft = Put(P[l].pft, s, PftPep(e, tether, v)) /\ Q[l].lent = P[l].lent \cup {s}
    /\ W = [V EXCEPT ![v] = Append(@, <<l, s>>)]

LEMMA RoutedTyped ==
    ASSUME NEW P \in PeerTables, NEW Q, NEW V \in VisaTables, NEW W,
           NEW e, NEW l, NEW s, NEW tether, NEW v, Routed(P, Q, V, W, e, l, s, tether, v)
    PROVE  W \in VisaTables /\ (Informed(P) => Informed(Q))
<1>1. v \in DOMAIN V /\ V[v] \in Seq(Entry) /\ l \in Links /\ s \in Streams
  BY PartialIs DEF Routed, VisaTables, PeerTables
<1>2. Append(V[v], <<l, s>>) \in Seq(Entry)
  BY <1>1 DEF Entry
<1>3. W = [V EXCEPT ![v] = Append(V[v], <<l, s>>)]
  BY DEF Routed
<1>4. W \in VisaTables
  BY <1>1, <1>2, <1>3, ExceptPartial DEF VisaTables
<1>5. DOMAIN Q[l].pft = DOMAIN P[l].pft \cup {s} /\ Q[l].lent = P[l].lent \cup {s}
  BY DEF Routed, Put
<1>6. Informed(P) => Informed(Q)
  BY <1>5 DEF Routed, KeptRoutes, Informed
<1> QED BY <1>4, <1>6

\* What a tether that is granted does.
LEMMA InstallTetherIs ==
    ASSUME TypeOK, NEW e \in Links, NEW id \in TxnId, NEW tether \in Streams,
           InstallTether(e, id, tether), NEW l, NEW t, NEW R, NEW F,
           l = peers[e].next_hop[id][1], t = peers[e].next_hop[id][2],
           R = ResolveNextHop(peers, e, id), F = ForgetBind(R, l, t)
    PROVE  \/ panicked' /\ UNCHANGED <<peers, visas, lost>>
           \/ ~panicked' /\ l \notin DOMAIN R /\ peers' = R /\ UNCHANGED <<visas, lost>>
           \/ /\ ~panicked' /\ l \in DOMAIN R
              /\ peers' = BindReject(F, l, t) /\ UNCHANGED <<visas, lost>>
           \/ /\ ~panicked' /\ l \in DOMAIN R
              /\ R[l].binds[t].visa \in DOMAIN visas
              /\ \E s \in Vacant(R, l) :
                    /\ visas' = LinkEntry(R[l].binds[t].visa, l, s)
                    /\ lost' = lost \ {<<l, s>>}
                    /\ peers' = InsertRoute(Answered(F, l, t, R[l].binds[t].visa), l, s,
                                            PftPep(e, tether, R[l].binds[t].visa))
<1>1. panicked' \in BOOLEAN
  BY DEF InstallTether, ConsistencyError
<1>2. CASE panicked'
  BY <1>2 DEF InstallTether
<1>3. CASE ~panicked'
  <2>1. RequestedTetherGranted(R, e, l, t, tether)
    BY <1>3 DEF InstallTether
  <2> QED BY <1>3, <2>1 DEF RequestedTetherGranted, TetherDenied
<1> QED BY <1>1, <1>2, <1>3

LEMMA InstallTetherTyped ==
    ASSUME TypeOK, NEW e \in Links, NEW id \in TxnId, NEW tether \in Streams,
           InstallTether(e, id, tether)
    PROVE  /\ TypeOK'
           /\ \/ SameRoutes(peers, peers') /\ UNCHANGED <<visas, lost>>
              \/ \E s, v : /\ Routed(peers, peers', visas, visas', e, peers[e].next_hop[id][1], s, tether, v)
                           /\ lost' = lost \ {<<peers[e].next_hop[id][1], s>>}
<1> DEFINE R == ResolveNextHop(peers, e, id)
           l == peers[e].next_hop[id][1]
           t == peers[e].next_hop[id][2]
           v == R[l].binds[t].visa
           F == ForgetBind(R, l, t)
           A == Answered(F, l, t, v)
<1>1. peers \in PeerTables /\ e \in DOMAIN peers /\ visas \in VisaTables
  BY DEF TypeOK, InstallTether, EgressStreamResponse
<1>2. panicked' \in BOOLEAN /\ UNCHANGED <<tasks, conns, used, reissued>>
  BY DEF InstallTether, ConsistencyError
<1>3. \/ panicked' /\ UNCHANGED <<peers, visas, lost>>
      \/ ~panicked' /\ l \notin DOMAIN R /\ peers' = R /\ UNCHANGED <<visas, lost>>
      \/ ~panicked' /\ l \in DOMAIN R /\ peers' = BindReject(F, l, t) /\ UNCHANGED <<visas, lost>>
      \/ /\ ~panicked' /\ l \in DOMAIN R
         /\ v \in DOMAIN visas
         /\ \E s \in Vacant(R, l) :
               /\ visas' = LinkEntry(v, l, s)
               /\ lost' = lost \ {<<l, s>>}
               /\ peers' = InsertRoute(A, l, s, PftPep(e, tether, v))
  <2> DEFINE r == R
             f == F
             m == l
             u == t
  <2>1. /\ m = peers[e].next_hop[id][1] /\ u = peers[e].next_hop[id][2]
        /\ r = ResolveNextHop(peers, e, id) /\ f = ForgetBind(r, m, u)
    OBVIOUS
  <2> HIDE DEF r, f, m, u
  <2>2. \/ panicked' /\ UNCHANGED <<peers, visas, lost>>
        \/ ~panicked' /\ m \notin DOMAIN r /\ peers' = r /\ UNCHANGED <<visas, lost>>
        \/ ~panicked' /\ m \in DOMAIN r /\ peers' = BindReject(f, m, u) /\ UNCHANGED <<visas, lost>>
        \/ /\ ~panicked' /\ m \in DOMAIN r
           /\ r[m].binds[u].visa \in DOMAIN visas
           /\ \E s \in Vacant(r, m) :
                 /\ visas' = LinkEntry(r[m].binds[u].visa, m, s)
                 /\ lost' = lost \ {<<m, s>>}
                 /\ peers' = InsertRoute(Answered(f, m, u, r[m].binds[u].visa), m, s,
                                         PftPep(e, tether, r[m].binds[u].visa))
    <3>1. panicked' \in BOOLEAN
      BY <1>2
    <3>2. CASE panicked'
      BY <3>2 DEF InstallTether
    <3>3. CASE ~panicked'
      <4>1. RequestedTetherGranted(r, e, m, u, tether)
        BY <2>1, <3>3 DEF InstallTether
      <4> QED BY <2>1, <3>3, <4>1 DEF RequestedTetherGranted, TetherDenied
    <3> QED BY <3>1, <3>2, <3>3
  <2> QED BY <2>2 DEF r, f, m, u
<1>4. SameRoutes(peers, R) /\ R \in PeerTables /\ DOMAIN R = DOMAIN peers
      /\ \A k \in DOMAIN peers : KeptBinds(peers[k], R[k])
  BY <1>1, ResolveNextHopRoutes DEF SameRoutes
<1> HIDE DEF R, l, t
<1>5. CASE panicked' /\ UNCHANGED <<peers, visas, lost>>
  <2>1. SameRoutes(peers, peers')
    BY <1>1, <1>5 DEF SameRoutes, KeptLink, KeptRoutes
  <2> QED BY <1>2, <1>5, <2>1 DEF TypeOK
<1>6. CASE peers' = R /\ UNCHANGED <<visas, lost>>
  BY <1>2, <1>4, <1>6 DEF TypeOK
<1>7. CASE l \in DOMAIN R /\ peers' = BindReject(F, l, t) /\ UNCHANGED <<visas, lost>>
  <2>1. SameRoutes(R, F) /\ F \in PeerTables
    BY <1>4, <1>7, ForgetBindRoutes
  <2> HIDE DEF F
  <2>2. SameRoutes(F, peers')
    BY <1>7, <2>1, BindRejectRoutes
  <2>3. SameRoutes(peers, peers')
    BY <1>4, <2>1, <2>2, SameRoutesTrans
  <2> QED BY <1>2, <1>7, <2>3 DEF TypeOK, SameRoutes
<1>8. CASE /\ ~panicked' /\ l \in DOMAIN R
           /\ v \in DOMAIN visas
           /\ \E s \in Vacant(R, l) :
                 /\ visas' = LinkEntry(v, l, s)
                 /\ lost' = lost \ {<<l, s>>}
                 /\ peers' = InsertRoute(A, l, s, PftPep(e, tether, v))
  <2>1. PICK s \in Vacant(R, l) :
           /\ visas' = LinkEntry(v, l, s)
           /\ lost' = lost \ {<<l, s>>}
           /\ peers' = InsertRoute(A, l, s, PftPep(e, tether, v))
    BY <1>8
  <2>2. SameRoutes(R, F) /\ F \in PeerTables /\ l \in DOMAIN F
    BY <1>4, <1>8, ForgetBindRoutes
  <2> HIDE DEF F
  <2>3. v \in Visas
    BY <1>1, <1>8, PartialIs DEF VisaTables
  <2> HIDE DEF v
  <2>4. SameRoutes(F, A) /\ A \in PeerTables /\ l \in DOMAIN A
    BY <2>2, AnsweredRoutes
  <2> HIDE DEF A
  <2>5. SameRoutes(peers, A)
    BY <1>4, <2>2, <2>4, SameRoutesTrans
  <2>6. s \in Streams /\ s \notin DOMAIN peers[l].pft /\ l \in DOMAIN peers
    BY <1>4, <1>8 DEF Vacant, SameRoutes, KeptRoutes
  <2>7. PftPep(e, tether, v) \in [next_hop : Entry, visa : Visas]
    BY <2>3 DEF PftPep, ForwardingEntry, Entry
  <2>8. OnlyRoutes(A, peers', l, Put(A[l].pft, s, PftPep(e, tether, v)), A[l].lent \cup {s})
    BY <2>1, <2>4, <2>6, <2>7, InsertRouteIs
  <2>9. visas' = [visas EXCEPT ![v] = Append(@, <<l, s>>)]
    BY <2>1 DEF LinkEntry, ForwardingEntry
  <2>10. Routed(peers, peers', visas, visas', e, l, s, tether, v)
    <3>1. peers' \in PeerTables /\ DOMAIN peers' = DOMAIN peers
      BY <2>5, <2>8 DEF SameRoutes, OnlyRoutes, SameLinks
    <3>2. \A k \in DOMAIN peers : KeptLink(peers[k], peers'[k])
                                  /\ (k # l => KeptRoutes(peers[k], peers'[k]))
      BY <2>5, <2>8 DEF SameRoutes, OnlyRoutes, SameLinks, KeptLink, KeptRoutes
    <3>3. /\ peers'[l].pft = Put(peers[l].pft, s, PftPep(e, tether, v))
          /\ peers'[l].lent = peers[l].lent \cup {s}
      BY <2>5, <2>6, <2>8 DEF SameRoutes, OnlyRoutes, KeptRoutes
    <3> QED BY <1>8, <2>3, <2>6, <2>9, <3>1, <3>2, <3>3 DEF Routed, v
  <2>11. visas' \in VisaTables /\ peers' \in PeerTables
    <3>1. visas' \in VisaTables
      BY <1>1, <2>10, RoutedTyped
    <3> QED BY <2>10, <3>1 DEF Routed
  <2>12. TypeOK'
    BY <1>2, <2>11 DEF TypeOK
  <2> QED BY <2>1, <2>10, <2>12 DEF l
<1> QED BY <1>3, <1>5, <1>6, <1>7, <1>8

LEMMA HandleRevocationTyped ==
    ASSUME TypeOK, NEW v \in Visas, HandleRevocation(v)
    PROVE  /\ TypeOK'
           /\ \/ UNCHANGED <<peers, visas>>
              \/ /\ Withdrawn(peers, peers', Entries({v}), None)
                 /\ visas' = Without(visas, {v})
<1>1. peers \in PeerTables /\ visas \in VisaTables
  BY DEF TypeOK
<1>2. panicked' \in BOOLEAN
  BY DEF HandleRevocation, RemovalPanics
<1>3. CASE panicked'
  BY <1>2, <1>3 DEF HandleRevocation, TypeOK
<1>4. CASE ~panicked'
  <2>1. visas' = Without(visas, {v})
        /\ peers' = WithdrawStreams(RemoveRoutes(peers, Entries({v})), Entries({v}), None)
    BY <1>4 DEF HandleRevocation, RevokeNoRebuild
  <2>2. Withdrawn(peers, peers', Entries({v}), None)
    BY <1>1, <2>1, WithdrawnIs
  <2>3. visas' \in VisaTables
    BY <1>1, <2>1, WithoutPartial DEF VisaTables
  <2>4. peers' \in PeerTables
    BY <2>2 DEF Withdrawn
  <2>5. TypeOK'
    BY <1>2, <2>3, <2>4 DEF HandleRevocation, TypeOK
  <2> QED BY <2>1, <2>2, <2>5
<1> QED BY <1>2, <1>3, <1>4

LEMMA PushVisaTyped ==
    ASSUME TypeOK, NEW v \in Visas, PushVisa(v)
    PROVE  TypeOK'
<1>1. visas' \in VisaTables
  BY VisaPut DEF PushVisa, InsertVisa, TypeOK
<1> QED BY <1>1 DEF PushVisa, TypeOK

\* The adapter at l has given up stream s.
GivenUp(P, Q, l, s) ==
    /\ Q \in PeerTables /\ DOMAIN Q = DOMAIN P
    /\ \A k \in DOMAIN P : /\ KeptLink(P[k], Q[k]) /\ KeptBinds(P[k], Q[k])
                           /\ KeptAsked(P[k], Q[k]) /\ KeptHops(P[k], Q[k])
                           /\ KeptTxns(P[k], Q[k])
                           /\ (k # l => KeptRoutes(P[k], Q[k]))
    /\ Q[l].pft = Without(P[l].pft, {s}) /\ Q[l].lent = P[l].lent \ {s}

\* An adapter gives up a stream that is in the node's table.
LEMMA UnbindStreamTyped ==
    ASSUME TypeOK, PeersInformed, NEW l \in Links, NEW s \in Streams, UnbindStream(l, s)
    PROVE  /\ TypeOK'
           /\ l \in DOMAIN peers /\ s \in DOMAIN peers[l].pft
           /\ GivenUp(peers, peers', l, s)
           /\ visas' = UnlinkFrom(peers[l].pft[s].visa, peers[l].pft[s].next_hop)
<1>1. peers \in PeerTables /\ visas \in VisaTables /\ l \in DOMAIN peers /\ s \in peers[l].lent
  BY DEF UnbindStream, TypeOK
<1>2. s \in DOMAIN peers[l].pft
  BY <1>1 DEF PeersInformed
<1>3. /\ peers' = [[peers EXCEPT ![l].lent = @ \ {s}] EXCEPT ![l].pft = Without(@, {s})]
      /\ visas' = UnlinkFrom(peers[l].pft[s].visa, peers[l].pft[s].next_hop)
      /\ UNCHANGED <<tasks, conns, used, panicked, reissued>>
  BY <1>2 DEF UnbindStream
<1>4. OnlyRoutes(peers, peers', l, Without(peers[l].pft, {s}), peers[l].lent \ {s})
  BY <1>1, <1>3, GivenUpIs
<1>5. GivenUp(peers, peers', l, s)
  BY <1>4 DEF OnlyRoutes, SameLinks, GivenUp, KeptRoutes
<1> DEFINE v == peers[l].pft[s].visa
           x == peers[l].pft[s].next_hop
<1>6. visas' = IF v \in DOMAIN visas THEN [visas EXCEPT ![v] = Unlink(visas[v], x)] ELSE visas
  BY <1>3 DEF UnlinkFrom
<1> HIDE DEF v, x
<1>7. visas' \in VisaTables
  <2>1. CASE v \in DOMAIN visas
    <3>1. visas[v] \in Seq(Entry)
      BY <1>1, <2>1, PartialIs DEF VisaTables
    <3>2. Unlink(visas[v], x) \in Seq(Entry)
      BY <3>1, UnlinkIs
    <3> QED BY <1>1, <1>6, <2>1, <3>2, ExceptPartial DEF VisaTables
  <2>2. CASE v \notin DOMAIN visas
    BY <1>1, <1>6, <2>2
  <2> QED BY <2>1, <2>2
<1>8. TypeOK'
  BY <1>3, <1>5, <1>7 DEF TypeOK, GivenUp
<1> QED BY <1>1, <1>2, <1>3, <1>5, <1>8

LEMMA DockTyped ==
    ASSUME TypeOK, NEW a \in Actors, NEW l \in Links, Dock(a, l)
    PROVE  /\ TypeOK'
           /\ \E p : Fresh(p, a, conns) /\ Docked(peers, peers', l, p) /\ l \notin DOMAIN peers
<1> DEFINE p == NewPeer(a, conns)
<1>1. peers \in PeerTables /\ conns \in Conns
  BY DEF TypeOK
<1>2. Fresh(p, a, conns)
  BY <1>1, NewPeerIs
<1>3. peers' = Put(peers, l, p) /\ conns' = conns + 1 /\ used' = used \cup {l}
      /\ UNCHANGED <<visas, tasks, panicked>> /\ l \notin DOMAIN peers
  BY DEF Dock, InsertPeer, VacantKey
<1> HIDE DEF p
<1>4. p \in PeerStates
  BY <1>2 DEF Fresh
<1>5. Docked(peers, peers', l, p)
  BY <1>1, <1>3, <1>4, DockedIs
<1>6. conns' \in Conns
  BY <1>1, <1>3, NodeAssumption DEF Conns, Dock
<1>7. reissued' \in BOOLEAN
  BY DEF Dock, NamedByRequest
<1>8. TypeOK'
  BY <1>3, <1>5, <1>6, <1>7 DEF TypeOK, Docked
<1> QED BY <1>2, <1>3, <1>5, <1>8

LEMMA DeregisterTyped ==
    ASSUME TypeOK, NEW l \in Links, DeregisterActorAddresses(l)
    PROVE  TypeOK' /\ Deregistered(peers, peers', l)
<1>1. Deregistered(peers, peers', l)
  BY DeregisteredIs DEF DeregisterActorAddresses, TypeOK
<1> QED BY <1>1 DEF DeregisterActorAddresses, TypeOK, Deregistered, ghosts

LEMMA DropPeerTyped ==
    ASSUME TypeOK, NEW l \in Links, DropPeer(l)
    PROVE  /\ TypeOK'
           /\ l \in DOMAIN peers
           /\ \/ panicked' /\ UNCHANGED <<peers, visas>>
              \/ /\ ~panicked'
                 /\ \E W : /\ Withdrawn(peers, W, Entries(RevokedFor(l)), l)
                           /\ Uncounted(W, peers', l)
                 /\ visas' = Without(visas, RevokedFor(l))
<1> DEFINE E == Entries(RevokedFor(l))
           W == WithdrawStreams(RemoveRoutes(peers, E), E, l)
<1>1. peers \in PeerTables /\ visas \in VisaTables /\ l \in DOMAIN peers
  BY DEF TypeOK, DropPeer
<1>2. panicked' \in BOOLEAN
  BY DEF DropPeer, RemovalPanics
<1>3. CASE panicked'
  BY <1>1, <1>2, <1>3 DEF DropPeer, TypeOK
<1>4. CASE ~panicked'
  <2>1. visas' = Without(visas, RevokedFor(l)) /\ peers' = DropHandles(W, l)
    BY <1>4 DEF DropPeer, RevokeNoRebuild
  <2>2. Withdrawn(peers, W, E, l)
    BY <1>1, WithdrawnIs
  <2> HIDE DEF W, E
  <2>3. W \in PeerTables /\ l \in DOMAIN W
    BY <1>1, <2>2 DEF Withdrawn
  <2>4. Uncounted(W, peers', l)
    BY <2>1, <2>3, DropHandlesIs
  <2>5. visas' \in VisaTables
    BY <1>1, <2>1, WithoutPartial DEF VisaTables
  <2>6. TypeOK'
    BY <1>2, <2>4, <2>5 DEF DropPeer, TypeOK, Uncounted
  <2> QED BY <1>1, <1>4, <2>1, <2>2, <2>4, <2>6 DEF E
<1> QED BY <1>2, <1>3, <1>4

LEMMA WithdrawnInformed ==
    ASSUME NEW P \in PeerTables, NEW Q, NEW E, NEW x, Withdrawn(P, Q, E, x), Informed(P)
    PROVE  \A k \in DOMAIN Q : k # x => Q[k].lent = DOMAIN Q[k].pft
BY DEF Withdrawn, Informed, Without

LEMMA TypeInit == Init => TypeOK /\ PeersInformed
<1> SUFFICES ASSUME Init PROVE TypeOK /\ PeersInformed
  OBVIOUS
<1>1. peers \in PeerTables /\ DOMAIN peers = {}
  BY EmptyPartial DEF Init, NewPeerTable, PeerTables
<1>2. visas \in VisaTables
  <2>1. visas = [v \in Reserved |-> NewVisa]
    BY DEF Init, NewWithVsVisas
  <2>2. NewVisa \in Seq(Entry) /\ Reserved \subseteq Visas
    BY NodeAssumption DEF NewVisa
  <2>3. visas = [x \in DOMAIN visas |-> visas[x]] /\ DOMAIN visas \subseteq Visas
        /\ \A x \in DOMAIN visas : visas[x] \in Seq(Entry)
    BY <2>1, <2>2
  <2> QED BY <2>3, PartialIs DEF VisaTables
<1>3. tasks = {} /\ conns = 0 /\ used = {} /\ panicked = FALSE /\ reissued = FALSE /\ 0 \in Conns
  BY NodeAssumption DEF Init, Conns
<1> QED BY <1>1, <1>2, <1>3 DEF TypeOK, PeersInformed

LEMMA TypeStep == TypeOK /\ PeersInformed /\ [Next]_vars => TypeOK' /\ PeersInformed'
<1> SUFFICES ASSUME TypeOK, PeersInformed, [Next]_vars PROVE TypeOK' /\ PeersInformed'
  OBVIOUS
<1>1. Informed(peers) /\ peers \in PeerTables /\ DOMAIN peers \subseteq Links
  BY PartialIs DEF PeersInformed, Informed, TypeOK, PeerTables
<1>2. SUFFICES TypeOK' /\ Informed(peers')
  BY DEF PeersInformed, Informed
<1>3. ASSUME NEW a \in Actors, NEW l \in Links, Dock(a, l) PROVE TypeOK' /\ Informed(peers')
  <2>1. TypeOK' /\ \E p : Fresh(p, a, conns) /\ Docked(peers, peers', l, p) /\ l \notin DOMAIN peers
    BY <1>3, DockTyped
  <2> QED BY <1>1, <2>1 DEF Fresh, Docked, Informed
<1>4. ASSUME NEW l \in Links, DeregisterActorAddresses(l) PROVE TypeOK' /\ Informed(peers')
  <2>1. TypeOK' /\ Deregistered(peers, peers', l)
    BY <1>4, DeregisterTyped
  <2> QED BY <1>1, <2>1 DEF Deregistered, KeptRoutes, Informed
<1>5. ASSUME NEW l \in Links, DropPeer(l) PROVE TypeOK' /\ Informed(peers')
  <2>1. /\ TypeOK'
        /\ \/ panicked' /\ UNCHANGED <<peers, visas>>
           \/ /\ ~panicked'
              /\ \E W : /\ Withdrawn(peers, W, Entries(RevokedFor(l)), l)
                        /\ Uncounted(W, peers', l)
              /\ visas' = Without(visas, RevokedFor(l))
    BY <1>5, DropPeerTyped
  <2>2. CASE UNCHANGED <<peers, visas>>
    BY <1>1, <2>1, <2>2
  <2>3. CASE \E W : /\ Withdrawn(peers, W, Entries(RevokedFor(l)), l)
                    /\ Uncounted(W, peers', l)
    <3>1. PICK W : /\ Withdrawn(peers, W, Entries(RevokedFor(l)), l)
                   /\ Uncounted(W, peers', l)
      BY <2>3
    <3>2. \A k \in DOMAIN W : k # l => W[k].lent = DOMAIN W[k].pft
      BY <1>1, <3>1, WithdrawnInformed
    <3> QED BY <2>1, <3>1, <3>2 DEF Uncounted, KeptRoutes, Informed
  <2> QED BY <2>1, <2>2, <2>3
<1>6. ASSUME NEW l \in Links, NEW t \in PeerTxns, NEW r \in Routes, BindActorAddress(l, t, r)
      PROVE  TypeOK' /\ Informed(peers')
  BY <1>1, <1>6, BindTyped, SameRoutesInformed
<1>7. ASSUME NEW k \in tasks, VisaDenied(k) PROVE TypeOK' /\ Informed(peers')
  BY <1>1, <1>7, VisaDeniedTyped, SameRoutesInformed
<1>8. ASSUME NEW k \in tasks, VisaGranted(k) PROVE TypeOK' /\ Informed(peers')
  BY <1>1, <1>8, VisaGrantedTyped, SameRoutesInformed
<1>9. ASSUME NEW e \in Links, NEW id \in TxnId, NEW s \in Streams, InstallTether(e, id, s)
      PROVE  TypeOK' /\ Informed(peers')
  <2>1. /\ TypeOK'
        /\ \/ SameRoutes(peers, peers')
           \/ \E x, v : Routed(peers, peers', visas, visas', e, peers[e].next_hop[id][1], x, s, v)
    BY <1>9, InstallTetherTyped
  <2>2. CASE SameRoutes(peers, peers')
    BY <1>1, <2>1, <2>2, SameRoutesInformed
  <2>3. CASE \E x, v : Routed(peers, peers', visas, visas', e, peers[e].next_hop[id][1], x, s, v)
    <3>1. PICK x, v : Routed(peers, peers', visas, visas', e, peers[e].next_hop[id][1], x, s, v)
      BY <2>3
    <3>2. Informed(peers) => Informed(peers')
      BY <1>1, <3>1, RoutedTyped DEF TypeOK
    <3> QED BY <1>1, <2>1, <3>2
  <2> QED BY <2>1, <2>2, <2>3
<1>10. ASSUME NEW e \in Links, NEW id \in TxnId, DenyTether(e, id)
       PROVE  TypeOK' /\ Informed(peers')
  BY <1>1, <1>10, DenyTetherTyped, SameRoutesInformed
<1>11. ASSUME NEW v \in Visas, HandleRevocation(v) PROVE TypeOK' /\ Informed(peers')
  <2>1. /\ TypeOK'
        /\ \/ UNCHANGED <<peers, visas>>
           \/ Withdrawn(peers, peers', Entries({v}), None)
    BY <1>11, HandleRevocationTyped
  <2>2. CASE UNCHANGED <<peers, visas>>
    BY <1>1, <2>1, <2>2
  <2>3. CASE Withdrawn(peers, peers', Entries({v}), None)
    <3>1. \A k \in DOMAIN peers' : k # None => peers'[k].lent = DOMAIN peers'[k].pft
      BY <1>1, <2>3, WithdrawnInformed
    <3>2. \A k \in DOMAIN peers' : k # None
      BY <1>1, <2>3, NodeAssumption DEF Withdrawn
    <3> QED BY <2>1, <3>1, <3>2 DEF Informed
  <2> QED BY <2>1, <2>2, <2>3
<1>12. ASSUME NEW v \in Visas, PushVisa(v) PROVE TypeOK' /\ Informed(peers')
  <2>1. TypeOK'
    BY <1>12, PushVisaTyped
  <2> QED BY <1>1, <1>12, <2>1 DEF PushVisa
<1>13. ASSUME NEW l \in Links, NEW s \in Streams, UnbindStream(l, s) PROVE TypeOK' /\ Informed(peers')
  <2>1. TypeOK' /\ l \in DOMAIN peers /\ GivenUp(peers, peers', l, s)
    BY <1>13, UnbindStreamTyped
  <2>2. DOMAIN peers'[l].pft = DOMAIN peers[l].pft \ {s} /\ peers'[l].lent = peers[l].lent \ {s}
    BY <2>1 DEF GivenUp, Without
  <2> QED BY <1>1, <2>1, <2>2 DEF GivenUp, KeptRoutes, Informed
<1>14. CASE UNCHANGED vars
  BY <1>1, <1>14 DEF vars, TypeOK
<1> QED BY <1>3, <1>4, <1>5, <1>6, <1>7, <1>8, <1>9, <1>10, <1>11, <1>12, <1>13, <1>14 DEF Next

\* The tables of the node are well formed whatever the order of requests, answers,
\* revocations and departures, even if link ids are given out again.
THEOREM NodeTypeCorrect == Spec => []TypeOK
<1>1. Init => TypeOK /\ PeersInformed
  BY TypeInit
<1>2. TypeOK /\ PeersInformed /\ [Next]_vars => TypeOK' /\ PeersInformed'
  BY TypeStep
<1> QED BY <1>1, <1>2, PTL DEF Spec

\* An adapter has been lent exactly the streams the node has routes for: the
\* removal of a route (remove_forwarding_entries, unbind_stream) and the withdrawal
\* sent for it (withdraw_streams) always go together.
THEOREM StreamsWithdrawn == Spec => []PeersInformed
<1>1. Init => TypeOK /\ PeersInformed
  BY TypeInit
<1>2. TypeOK /\ PeersInformed /\ [Next]_vars => TypeOK' /\ PeersInformed'
  BY TypeStep
<1> QED BY <1>1, <1>2, PTL DEF Spec

-------------------------------------------------------------------------------
(* Bind requests, until a link id is given out while a request names it.   *)

NodeInv ==
    /\ BindInv(peers, tasks, conns)
    /\ ~panicked => Pursued(peers, tasks, {})

LEMMA PursuedMore ==
    ASSUME NEW P, NEW K, NEW X, Pursued(P, K, {}) PROVE Pursued(P, K, X)
BY DEF Pursued

\* Tasks may end without an answer if the process does.
LEMMA FewerTasks ==
    ASSUME NEW P, NEW K, NEW C, NEW J, BindInv(P, K, C), J \subseteq K PROVE BindInv(P, J, C)
BY DEF BindInv, OwnedBinds, ConnsOld

\* A request has no state any more when it is answered.
LEMMA AnsweredDenied ==
    ASSUME NEW P \in PeerTables, NEW l \in DOMAIN P, NEW t \in DOMAIN P[l].asked,
           t \notin DOMAIN P[l].binds, NEW v, v = None \/ Route[v] = P[l].asked[t],
           NEW Q, Q = Answered(P, l, t, v)
    PROVE  Denied(P, Q, l, t)
<1>1. OnlyAsked(P, Q, l, Without(P[l].asked, {t}))
  BY AnsweredIs
<1>2. P[l].binds \in Partial(PeerTxns, AwaitingVisa \cup AwaitingHop)
  BY PeerTyped
<1>3. P[l].binds = [x \in DOMAIN P[l].binds |-> P[l].binds[x]]
  BY <1>2, PartialIs
<1>4. Without(P[l].binds, {t}) = P[l].binds
  BY <1>3 DEF Without
<1> QED BY <1>1, <1>4 DEF OnlyAsked, SameLinks, Denied, KeptBinds

LEMMA OnlyRoutesSame ==
    ASSUME NEW P, NEW Q, NEW l, NEW x, NEW y, OnlyRoutes(P, Q, l, x, y) PROVE SameBinds(P, Q)
BY DEF OnlyRoutes, SameLinks, SameBinds, KeptLink, KeptTxns

\* A visa is found for a request that holds no handle.
LEMMA GrantInv ==
    ASSUME NEW P \in PeerTables, NEW K, NEW C, NEW J, NEW l \in DOMAIN P, NEW t \in PeerTxns,
           NEW v \in Visas, BindInv(P, K, C), TasksBut(K, J, l, t),
           t \notin Awaiting(P, l), t \in DOMAIN P[l].asked, P[l].asked[t] = Route[v],
           ~GrantPanics(P, l, t, v), NEW Q, Q = RequestedVisaGranted(P, l, t, v)
    PROVE  BindInv(Q, J, C) /\ (Pursued(P, K, {<<l, t>>}) => Pursued(Q, J, {}))
<1> DEFINE e == EgressLinkForVisa(P, v)
<1>1. CASE e = None
  <2>1. Q = BindReject(P, l, t)
    BY <1>1 DEF RequestedVisaGranted, RequestedVisaDenied
  <2>2. Denied(P, Q, l, t)
    BY <2>1, DeniedIs
  <2>4. BindInv(Q, J, C) /\ (Pursued(P, K, {<<l, t>>}) => Pursued(Q, J, {}))
    BY <2>2, DeniedInv
  <2> QED BY <2>4
<1>2. CASE e # None
  <2> DEFINE id == P[e].txn_mgr.next_free
  <2>1. CanOpen(P[e].txn_mgr)
    BY <1>2 DEF GrantPanics
  <2>2. e \in DOMAIN P /\ P[e].actor = Route[v][2]
    BY <1>2, EgressIs
  <2>3. id \notin DOMAIN P[e].txn_mgr.open
    BY <2>1 DEF CanOpen
  <2>4. Granted(P, Q, l, t, v, e, id)
    BY <1>2, <2>1, GrantedIs
  <2> HIDE DEF e, id
  <2>6. BindInv(Q, J, C) /\ (Pursued(P, K, {<<l, t>>}) => Pursued(Q, J, {}))
    BY <2>2, <2>3, <2>4, GrantedInv
  <2> QED BY <2>6
<1> QED BY <1>1, <1>2

LEMMA BindActorAddressInv ==
    ASSUME TypeOK, NodeInv, NEW l \in Links, NEW t \in PeerTxns, NEW r \in Routes,
           BindActorAddress(l, t, r)
    PROVE  NodeInv'
<1> DEFINE P == [peers EXCEPT ![l].asked = Put(@, t, r)]
<1>1. r \in Pairs /\ l \in DOMAIN peers /\ peers \in PeerTables /\ t \notin DOMAIN peers[l].asked
  BY RoutesTyped DEF BindActorAddress, TypeOK
<1>2. OnlyAsked(peers, P, l, Put(peers[l].asked, t, r))
  BY <1>1, AskIs
<1>3. /\ ~panicked
      /\ \/ /\ panicked' = RejectPanics(P, l, t)
            /\ peers' = IF panicked' THEN P ELSE BindReject(P, l, t)
            /\ UNCHANGED tasks
         \/ /\ r[1] = P[l].actor
            /\ \E v \in Matching(r) :
                  /\ panicked' = GrantPanics(P, l, t, v)
                  /\ peers' = IF panicked' THEN P ELSE RequestedVisaGranted(P, l, t, v)
            /\ UNCHANGED tasks
         \/ /\ r[1] = P[l].actor
            /\ peers' = SetBind(P, l, t, [st |-> "AwaitingVisaResponse"])
            /\ tasks' = tasks \cup {[link |-> l, txn |-> t, route |-> r, conn |-> P[l].conn]}
            /\ UNCHANGED panicked
      /\ UNCHANGED <<visas, conns, used, reissued>>
  BY DEF BindActorAddress, ghosts
<1> HIDE DEF P
<1>4. P \in PeerTables /\ l \in DOMAIN P
  BY <1>1, <1>2 DEF OnlyAsked, SameLinks
<1>5. /\ BindInv(P, tasks, conns)
      /\ Pursued(P, tasks, {<<l, t>>})
      /\ t \in DOMAIN P[l].asked /\ P[l].asked[t] = r
      /\ t \notin DOMAIN P[l].binds /\ t \notin Awaiting(P, l)
      /\ TasksBut(tasks, tasks, l, t)
  <2>1. BindInv(peers, tasks, conns) /\ Pursued(peers, tasks, {})
    BY <1>3 DEF NodeInv
  <2>2. t \in DOMAIN P[l].asked /\ P[l].asked[t] = r
    BY <1>2 DEF OnlyAsked, Put
  <2>3. Pending(P, tasks, conns, l, t) /\ Pursued(P, tasks, {<<l, t>>})
    BY <1>1, <1>2, <2>1, AskInv
  <2> QED BY <2>2, <2>3 DEF Pending
<1>6. CASE /\ panicked' = RejectPanics(P, l, t)
           /\ peers' = IF panicked' THEN P ELSE BindReject(P, l, t)
           /\ UNCHANGED tasks
  <2>1. ~RejectPanics(P, l, t)
    BY <1>5 DEF RejectPanics
  <2>2. peers' = BindReject(P, l, t)
    BY <1>6, <2>1
  <2>3. Denied(P, peers', l, t)
    BY <1>4, <1>5, <2>2, DeniedIs
  <2>4. BindInv(peers', tasks, conns) /\ Pursued(peers', tasks, {})
    BY <1>4, <1>5, <2>3, DeniedInv
  <2> QED BY <1>3, <1>6, <2>4 DEF NodeInv
<1>7. CASE /\ r[1] = P[l].actor
           /\ \E v \in Matching(r) :
                 /\ panicked' = GrantPanics(P, l, t, v)
                 /\ peers' = IF panicked' THEN P ELSE RequestedVisaGranted(P, l, t, v)
           /\ UNCHANGED tasks
  <2>1. PICK v \in Matching(r) :
           /\ panicked' = GrantPanics(P, l, t, v)
           /\ peers' = IF panicked' THEN P ELSE RequestedVisaGranted(P, l, t, v)
    BY <1>7
  <2>2. v \in Visas /\ Route[v] = r
    BY PartialIs DEF Matching, MatchTraffic, TypeOK, VisaTables
  <2>3. CASE GrantPanics(P, l, t, v)
    <3>1. panicked' /\ peers' = P
      BY <2>1, <2>3
    <3> QED BY <1>3, <1>5, <1>7, <3>1 DEF NodeInv
  <2>4. CASE ~GrantPanics(P, l, t, v)
    <3>1. ~panicked' /\ peers' = RequestedVisaGranted(P, l, t, v)
      BY <2>1, <2>4
    <3>2. BindInv(peers', tasks, conns) /\ Pursued(peers', tasks, {})
      BY <1>4, <1>5, <2>2, <2>4, <3>1, GrantInv
    <3> QED BY <1>3, <1>7, <3>2 DEF NodeInv
  <2> QED BY <2>3, <2>4
<1>8. CASE /\ r[1] = P[l].actor
           /\ peers' = SetBind(P, l, t, [st |-> "AwaitingVisaResponse"])
           /\ tasks' = tasks \cup {[link |-> l, txn |-> t, route |-> r, conn |-> P[l].conn]}
           /\ UNCHANGED panicked
  <2> DEFINE x == [link |-> l, txn |-> t, route |-> r, conn |-> P[l].conn]
  <2>1. x.link = l /\ x.txn = t /\ x.route = P[l].asked[t]
    BY <1>5
  <2>2. Awaited(P, peers', l, t)
    BY <1>4, <1>5, <1>8, AwaitedIs
  <2>3. tasks' = tasks \cup {x}
    BY <1>8
  <2> HIDE DEF x
  <2>4. BindInv(peers', tasks \cup {x}, conns) /\ Pursued(peers', tasks \cup {x}, {})
    BY <1>4, <1>5, <2>1, <2>2, AwaitedInv
  <2> QED BY <1>3, <2>3, <2>4 DEF NodeInv
<1> QED BY <1>3, <1>6, <1>7, <1>8

\* The task k is the only one for its request.
LEMMA TaskOwned ==
    ASSUME NEW P \in PeerTables, NEW K, NEW C, BindInv(P, K, C), NEW k \in K, k.link \in DOMAIN P
    PROVE  /\ k.txn \in DOMAIN P[k.link].asked /\ k.txn \notin Awaiting(P, k.link)
           /\ P[k.link].asked[k.txn] = k.route
           /\ TasksBut(K, K \ {k}, k.link, k.txn)
<1>1. /\ k.txn \in DOMAIN P[k.link].asked /\ k.txn \notin Awaiting(P, k.link)
      /\ P[k.link].asked[k.txn] = k.route
  BY DEF BindInv, OwnedBinds
<1>2. \A j \in K : j.link = k.link /\ j.txn = k.txn => j = k
  BY DEF BindInv, OwnedBinds
<1>3. TasksBut(K, K \ {k}, k.link, k.txn)
  BY <1>2 DEF TasksBut
<1> QED BY <1>1, <1>3

LEMMA VisaDeniedInv ==
    ASSUME TypeOK, NodeInv, NEW k \in tasks, VisaDenied(k) 
    PROVE  NodeInv'
<1> DEFINE l == k.link
           t == k.txn
<1>1. /\ peers \in PeerTables /\ BindInv(peers, tasks, conns) /\ Pursued(peers, tasks, {})
      /\ tasks' = tasks \ {k} /\ UNCHANGED conns
      /\ panicked' = RejectPanics(peers, l, t)
      /\ peers' = IF panicked' THEN peers ELSE BindReject(peers, l, t)
  BY DEF TypeOK, NodeInv, VisaDenied, RequestedVisaDenied
<1>2. CASE l \in DOMAIN peers
  <2>1. /\ t \in DOMAIN peers[l].asked /\ t \notin Awaiting(peers, l)
        /\ TasksBut(tasks, tasks \ {k}, l, t)
    BY <1>1, <1>2, TaskOwned
  <2>2. peers' = BindReject(peers, l, t)
    BY <1>1, <2>1 DEF RejectPanics
  <2> HIDE DEF l, t
  <2>3. Denied(peers, peers', l, t)
    BY <1>1, <1>2, <2>1, <2>2, DeniedIs
  <2>4. Pursued(peers, tasks, {<<l, t>>})
    BY <1>1, PursuedMore
  <2>5. BindInv(peers', tasks \ {k}, conns) /\ Pursued(peers', tasks \ {k}, {})
    BY <1>1, <1>2, <2>1, <2>3, <2>4, DeniedInv
  <2> QED BY <1>1, <2>5 DEF NodeInv
<1>3. CASE l \notin DOMAIN peers
  <2>1. peers' = peers
    BY <1>1, <1>3 DEF BindReject
  <2>2. BindInv(peers, tasks \ {k}, conns)
    BY <1>1, FewerTasks
  <2>3. Pursued(peers, tasks \ {k}, {})
    BY <1>1, <1>3 DEF Pursued
  <2> QED BY <1>1, <2>1, <2>2, <2>3 DEF NodeInv
<1> QED BY <1>2, <1>3

LEMMA VisaGrantedInv ==
    ASSUME TypeOK, NodeInv, NEW k \in tasks, VisaGranted(k) 
    PROVE  NodeInv'
<1> DEFINE l == k.link
           t == k.txn
<1>1. /\ peers \in PeerTables /\ BindInv(peers, tasks, conns) /\ Pursued(peers, tasks, {})
      /\ tasks' = tasks \ {k} /\ UNCHANGED conns /\ t \in PeerTxns
  BY DEF TypeOK, NodeInv, VisaGranted, Tasks
<1>2. PICK v \in Visas : /\ Route[v] = k.route
                         /\ panicked' = GrantPanics(peers, l, t, v)
                         /\ peers' = IF panicked' THEN peers
                                     ELSE RequestedVisaGranted(peers, l, t, v)
  BY DEF VisaGranted, VisaDecisions, MatchTraffic
<1>3. BindInv(peers, tasks \ {k}, conns)
  BY <1>1, FewerTasks
<1>4. CASE GrantPanics(peers, l, t, v)
  <2>1. peers' = peers
    BY <1>2, <1>4
  <2> QED BY <1>1, <1>2, <1>3, <1>4, <2>1 DEF NodeInv
<1>5. CASE ~GrantPanics(peers, l, t, v) /\ l \in DOMAIN peers
  <2>1. /\ t \in DOMAIN peers[l].asked /\ t \notin Awaiting(peers, l)
        /\ peers[l].asked[t] = k.route
        /\ TasksBut(tasks, tasks \ {k}, l, t)
    BY <1>1, <1>5, TaskOwned
  <2>2. peers' = RequestedVisaGranted(peers, l, t, v)
    BY <1>2, <1>5
  <2> HIDE DEF l, t
  <2>3. Pursued(peers, tasks, {<<l, t>>})
    BY <1>1, PursuedMore
  <2>4. BindInv(peers', tasks \ {k}, conns) /\ Pursued(peers', tasks \ {k}, {})
    BY <1>1, <1>2, <1>5, <2>1, <2>2, <2>3, GrantInv
  <2> QED BY <1>1, <1>2, <2>4 DEF NodeInv, l
<1>6. CASE ~GrantPanics(peers, l, t, v) /\ l \notin DOMAIN peers
  <2> DEFINE e == EgressLinkForVisa(peers, v)
  <2>1. peers' = RequestedVisaGranted(peers, l, t, v)
    BY <1>2, <1>6
  <2>2. Pursued(peers, tasks \ {k}, {})
    BY <1>1, <1>6 DEF Pursued
  <2>3. CASE e = None
    <3>1. peers' = peers
      BY <1>6, <2>1, <2>3 DEF RequestedVisaGranted, RequestedVisaDenied, BindReject
    <3> QED BY <1>1, <1>3, <2>2, <3>1 DEF NodeInv
  <2>4. CASE e # None
    <3>1. CanOpen(peers[e].txn_mgr)
      BY <1>6, <2>4 DEF GrantPanics
    <3>2. SameTables(peers, peers')
      BY <1>1, <1>6, <2>1, <2>4, <3>1, GrantedGone
    <3>3. SameBinds(peers, peers')
      BY <3>2 DEF SameTables, SameBinds, KeptLink
    <3>4. BindInv(peers', tasks \ {k}, conns) /\ Pursued(peers', tasks \ {k}, {})
      BY <1>3, <2>2, <3>3, SameBindsInv
    <3> QED BY <1>1, <3>4 DEF NodeInv
  <2> QED BY <2>3, <2>4
<1> QED BY <1>4, <1>5, <1>6

\* A next hop that answers is one that was asked, and the request it was asked for
\* awaits it, if its link is still there.
LEMMA AnswerExpected ==
    ASSUME TypeOK, NodeInv, NEW e \in Links, NEW id \in TxnId, EgressStreamResponse(e, id),
           NEW l, NEW t, l = peers[e].next_hop[id][1], t = peers[e].next_hop[id][2]
    PROVE  /\ e \in DOMAIN peers /\ id \in DOMAIN peers[e].next_hop
           /\ peers[e].next_hop[id] = <<l, t>> /\ t \in PeerTxns
           /\ id \in DOMAIN peers[e].txn_mgr.open
           /\ peers[e].txn_mgr.open[id] = IF l \in DOMAIN peers THEN 1 ELSE 0
           /\ ~ConsistencyError(peers, e, id)
           /\ l \in DOMAIN peers =>
                 /\ t \in Awaiting(peers, l) /\ peers[l].binds[t].txn = GetTxn(peers, e, id)
                 /\ t \in DOMAIN peers[l].asked
                 /\ Route[peers[l].binds[t].visa] = peers[l].asked[t]
<1>1. e \in DOMAIN peers /\ id \in peers[e].todo /\ peers \in PeerTables
  BY DEF EgressStreamResponse, TypeOK
<1>2. /\ id \in DOMAIN peers[e].next_hop /\ id \in DOMAIN peers[e].txn_mgr.open
      /\ peers[e].txn_mgr.open[id] = IF l \in DOMAIN peers THEN 1 ELSE 0
  BY <1>1 DEF NodeInv, BindInv, Counted
<1>3. peers[e].next_hop \in Partial(TxnId, Links \X PeerTxns)
  BY <1>1, PeerTyped
<1>4. peers[e].next_hop[id] \in Links \X PeerTxns
  BY <1>2, <1>3, PartialIs
<1>5. peers[e].next_hop[id] = <<l, t>> /\ t \in PeerTxns
  BY <1>4
<1>6. l \in DOMAIN peers =>
         t \in Awaiting(peers, l) /\ peers[l].binds[t].txn = GetTxn(peers, e, id)
  BY <1>1, <1>2 DEF NodeInv, BindInv, ForwardLinked
<1>7. ~ConsistencyError(peers, e, id)
  BY <1>6 DEF ConsistencyError
<1>8. l \in DOMAIN peers =>
         t \in DOMAIN peers[l].asked /\ Route[peers[l].binds[t].visa] = peers[l].asked[t]
  BY <1>6 DEF NodeInv, BindInv, OwnedBinds, Awaiting
<1> QED BY <1>1, <1>2, <1>5, <1>6, <1>7, <1>8

\* The state after the answer of a next hop, before the adapter is answered.
LEMMA AnswerForgets ==
    ASSUME TypeOK, NodeInv, ~panicked, NEW e \in Links, NEW id \in TxnId,
           EgressStreamResponse(e, id), NEW l, NEW t,
           l = peers[e].next_hop[id][1], t = peers[e].next_hop[id][2], l \in DOMAIN peers,
           NEW F, F = ForgetBind(ResolveNextHop(peers, e, id), l, t)
    PROVE  /\ F \in PeerTables /\ l \in DOMAIN F /\ Forgotten(peers, F, e, id, l, t)
           /\ Pending(F, tasks, conns, l, t) /\ Pursued(F, tasks, {<<l, t>>})
           /\ F[l].asked = peers[l].asked
<1>1. /\ e \in DOMAIN peers /\ id \in DOMAIN peers[e].next_hop
      /\ peers[e].next_hop[id] = <<l, t>> /\ id \in DOMAIN peers[e].txn_mgr.open
      /\ peers[e].txn_mgr.open[id] = 1
      /\ t \in Awaiting(peers, l) /\ peers[l].binds[t].txn = GetTxn(peers, e, id)
  BY AnswerExpected
<1>2. peers \in PeerTables /\ BindInv(peers, tasks, conns) /\ Pursued(peers, tasks, {})
  BY DEF TypeOK, NodeInv
<1>3. Forgotten(peers, F, e, id, l, t)
  BY <1>1, <1>2, ForgottenIs
<1>4. Pending(F, tasks, conns, l, t) /\ Pursued(F, tasks, {<<l, t>>})
  BY <1>1, <1>2, <1>3, ForgottenInv
<1> QED BY <1>3, <1>4 DEF Forgotten, KeptAsked

LEMMA AnswerGone ==
    ASSUME TypeOK, NodeInv, ~panicked, NEW e \in Links, NEW id \in TxnId,
           EgressStreamResponse(e, id), peers[e].next_hop[id][1] \notin DOMAIN peers,
           NEW R, R = ResolveNextHop(peers, e, id)
    PROVE  BindInv(R, tasks, conns) /\ Pursued(R, tasks, {}) /\ Resolved(peers, R, e, id)
<1>1. /\ e \in DOMAIN peers /\ id \in DOMAIN peers[e].next_hop
      /\ id \in DOMAIN peers[e].txn_mgr.open /\ peers[e].txn_mgr.open[id] = 0
  BY AnswerExpected
<1>2. peers \in PeerTables /\ BindInv(peers, tasks, conns) /\ Pursued(peers, tasks, {})
  BY DEF TypeOK, NodeInv
<1>3. Resolved(peers, R, e, id)
  BY <1>1, <1>2, ResolvedIs
<1> QED BY <1>1, <1>2, <1>3, ResolvedInv

LEMMA DenyTetherInv ==
    ASSUME TypeOK, NodeInv, NEW e \in Links, NEW id \in TxnId, DenyTether(e, id)
    PROVE  NodeInv'
<1> DEFINE R == ResolveNextHop(peers, e, id)
           l == peers[e].next_hop[id][1]
           t == peers[e].next_hop[id][2]
           F == ForgetBind(R, l, t)
<1>1. EgressStreamResponse(e, id) /\ ~panicked /\ UNCHANGED <<tasks, conns>>
  BY DEF DenyTether, EgressStreamResponse
<1>2. ~ConsistencyError(peers, e, id) /\ (l \in DOMAIN peers => t \in DOMAIN peers[l].asked)
  BY <1>1, AnswerExpected
<1>3. peers' = BindReject(R, l, t)
  BY <1>2 DEF DenyTether
<1>4. DOMAIN R = DOMAIN peers
  <2>1. e \in DOMAIN peers /\ peers \in PeerTables
    BY <1>1 DEF EgressStreamResponse, TypeOK
  <2>2. SameRoutes(peers, R)
    BY <2>1, ResolveNextHopRoutes
  <2> QED BY <2>2 DEF SameRoutes
<1>5. CASE l \notin DOMAIN peers
  <2>1. peers' = R
    BY <1>3, <1>4, <1>5 DEF BindReject
  <2>2. BindInv(R, tasks, conns) /\ Pursued(R, tasks, {}) /\ Resolved(peers, R, e, id)
    BY <1>1, <1>5, AnswerGone
  <2> QED BY <1>1, <2>1, <2>2 DEF NodeInv
<1>6. CASE l \in DOMAIN peers
  <2>1. peers' = Answered(F, l, t, None)
    BY <1>3, <1>4, <1>6 DEF BindReject
  <2>2. /\ F \in PeerTables /\ l \in DOMAIN F
        /\ Pending(F, tasks, conns, l, t) /\ Pursued(F, tasks, {<<l, t>>})
        /\ F[l].asked = peers[l].asked /\ Forgotten(peers, F, e, id, l, t)
    BY <1>1, <1>6, AnswerForgets
  <2> HIDE DEF R, l, t, F
  <2>3. Denied(F, peers', l, t)
    BY <1>2, <1>6, <2>1, <2>2, AnsweredDenied DEF Pending
  <2>4. BindInv(peers', tasks, conns) /\ Pursued(peers', tasks, {})
    BY <2>2, <2>3, DeniedInv DEF Pending
  <2> QED BY <1>1, <2>4 DEF NodeInv
<1> QED BY <1>5, <1>6

LEMMA InstallTetherInv ==
    ASSUME TypeOK, NodeInv, NEW e \in Links, NEW id \in TxnId, NEW tether \in Streams,
           InstallTether(e, id, tether)
    PROVE  NodeInv'
<1> DEFINE R == ResolveNextHop(peers, e, id)
           l == peers[e].next_hop[id][1]
           t == peers[e].next_hop[id][2]
           F == ForgetBind(R, l, t)
           v == R[l].binds[t].visa
           A == Answered(F, l, t, v)
<1>1. EgressStreamResponse(e, id) /\ ~panicked /\ UNCHANGED <<tasks, conns>>
  BY DEF InstallTether, EgressStreamResponse
<1>2. /\ ~ConsistencyError(peers, e, id)
      /\ l \in DOMAIN peers => /\ t \in DOMAIN peers[l].asked
                               /\ Route[peers[l].binds[t].visa] = peers[l].asked[t]
  <2>1. ~ConsistencyError(peers, e, id) /\ (l \in DOMAIN peers => t \in DOMAIN peers[l].asked)
    BY <1>1, AnswerExpected
  <2>2. l \in DOMAIN peers => Route[peers[l].binds[t].visa] = peers[l].asked[t]
    <3>1. l = peers[e].next_hop[id][1] /\ t = peers[e].next_hop[id][2]
      OBVIOUS
    <3> HIDE DEF R, l, t, F, v, A
    <3> QED BY <1>1, <3>1, AnswerExpected
  <2> QED BY <2>1, <2>2
<1>3. ~panicked'
  BY <1>2 DEF InstallTether
<1>4. \/ l \notin DOMAIN R /\ peers' = R
      \/ l \in DOMAIN R /\ peers' = BindReject(F, l, t)
      \/ /\ l \in DOMAIN R /\ v \in DOMAIN visas
         /\ \E s \in Vacant(R, l) : peers' = InsertRoute(A, l, s, PftPep(e, tether, v))
  BY <1>3, InstallTetherIs
<1>5. peers \in PeerTables /\ e \in DOMAIN peers
  BY <1>1 DEF EgressStreamResponse, TypeOK
<1>6. DOMAIN R = DOMAIN peers /\ \A k \in DOMAIN peers : R[k].binds = peers[k].binds
  BY <1>5, ResolveNextHopRoutes DEF SameRoutes, KeptBinds
<1>7. CASE l \notin DOMAIN R /\ peers' = R
  <2>1. BindInv(R, tasks, conns) /\ Pursued(R, tasks, {}) /\ Resolved(peers, R, e, id)
    BY <1>1, <1>6, <1>7, AnswerGone
  <2> QED BY <1>1, <1>7, <2>1 DEF NodeInv
<1>8. ASSUME l \in DOMAIN R
      PROVE  /\ F \in PeerTables /\ l \in DOMAIN F
             /\ Pending(F, tasks, conns, l, t) /\ Pursued(F, tasks, {<<l, t>>})
             /\ t \in DOMAIN F[l].asked /\ Route[v] = F[l].asked[t]
  <2>1. /\ F \in PeerTables /\ l \in DOMAIN F
        /\ Pending(F, tasks, conns, l, t) /\ Pursued(F, tasks, {<<l, t>>})
        /\ F[l].asked = peers[l].asked /\ Forgotten(peers, F, e, id, l, t)
    BY <1>1, <1>6, <1>8, AnswerForgets
  <2> HIDE DEF R, l, t, F
  <2> QED BY <1>2, <1>6, <1>8, <2>1
<1> HIDE DEF R, l, t, F, v
<1>9. CASE l \in DOMAIN R /\ peers' = BindReject(F, l, t)
  <2>1. Denied(F, peers', l, t)
    BY <1>8, <1>9, DeniedIs DEF Pending
  <2>2. BindInv(peers', tasks, conns) /\ Pursued(peers', tasks, {})
    BY <1>8, <1>9, <2>1, DeniedInv DEF Pending
  <2> QED BY <1>1, <2>2 DEF NodeInv
<1>10. CASE /\ l \in DOMAIN R /\ v \in DOMAIN visas
            /\ \E s \in Vacant(R, l) : peers' = InsertRoute(A, l, s, PftPep(e, tether, v))
  <2>1. PICK s \in Vacant(R, l) : peers' = InsertRoute(A, l, s, PftPep(e, tether, v))
    BY <1>10
  <2>2. Denied(F, A, l, t)
    BY <1>8, <1>10, AnsweredDenied DEF Pending
  <2> HIDE DEF A
  <2>3. BindInv(A, tasks, conns) /\ Pursued(A, tasks, {}) /\ A \in PeerTables /\ l \in DOMAIN A
    <3>1. BindInv(A, tasks, conns) /\ Pursued(A, tasks, {})
      BY <1>8, <1>10, <2>2, DeniedInv DEF Pending
    <3> QED BY <1>8, <1>10, <2>2, <3>1 DEF Denied
  <2>4. s \in Streams /\ PftPep(e, tether, v) \in [next_hop : Entry, visa : Visas]
    BY <1>10, PartialIs DEF Vacant, PftPep, ForwardingEntry, Entry, TypeOK, VisaTables
  <2>5. OnlyRoutes(A, peers', l, Put(A[l].pft, s, PftPep(e, tether, v)), A[l].lent \cup {s})
    BY <2>1, <2>3, <2>4, InsertRouteIs
  <2>6. SameBinds(A, peers')
    BY <2>5, OnlyRoutesSame
  <2>7. BindInv(peers', tasks, conns) /\ Pursued(peers', tasks, {})
    BY <2>3, <2>6, SameBindsInv
  <2> QED BY <1>1, <2>7 DEF NodeInv
<1> QED BY <1>4, <1>7, <1>9, <1>10

\* Steps that leave the bind requests alone.
LEMMA SameNodeInv ==
    ASSUME NodeInv, SameBinds(peers, peers'), UNCHANGED <<tasks, conns>>, panicked' = panicked
    PROVE  NodeInv'
<1>1. BindInv(peers, tasks, conns)
  BY DEF NodeInv
<1>2. BindInv(peers', tasks, conns) /\ (Pursued(peers, tasks, {}) => Pursued(peers', tasks, {}))
  BY <1>1, SameBindsInv
<1> QED BY <1>2 DEF NodeInv

\* An id that no request names may be given out, whoever had it before.
LEMMA DockInv ==
    ASSUME TypeOK, NodeInv, NEW a \in Actors, NEW l \in Links, Dock(a, l), ~reissued'
    PROVE  NodeInv'
<1>1. /\ conns' = conns + 1 /\ UNCHANGED <<tasks, panicked>>
      /\ BindInv(peers, tasks, conns) /\ conns \in Nat /\ peers \in PeerTables
  BY DEF Dock, NodeInv, TypeOK, Conns
<1>2. PICK p : Fresh(p, a, conns) /\ Docked(peers, peers', l, p) /\ l \notin DOMAIN peers
  BY DockTyped
<1>3. ~NamedByRequest(l)
  BY DEF Dock
<1>4. /\ \A k \in tasks : k.link # l
      /\ \A e \in DOMAIN peers : \A i \in DOMAIN peers[e].next_hop : peers[e].next_hop[i][1] # l
  BY <1>3 DEF NamedByRequest
<1>5. /\ BindInv(peers', tasks, conns + 1)
      /\ (Pursued(peers, tasks, {}) => Pursued(peers', tasks, {}))
  BY <1>1, <1>2, <1>4, DockedInv
<1> QED BY <1>1, <1>5 DEF NodeInv

LEMMA DropPeerInv ==
    ASSUME TypeOK, NodeInv, NEW l \in Links, DropPeer(l) PROVE NodeInv'
<1>1. /\ l \in DOMAIN peers
      /\ \/ panicked' /\ UNCHANGED <<peers, visas>>
         \/ /\ ~panicked'
            /\ \E W : /\ Withdrawn(peers, W, Entries(RevokedFor(l)), l)
                      /\ Uncounted(W, peers', l)
  BY DropPeerTyped
<1>2. UNCHANGED <<tasks, conns>> /\ BindInv(peers, tasks, conns) /\ Pursued(peers, tasks, {})
  BY DEF DropPeer, NodeInv
<1>3. CASE panicked' /\ UNCHANGED <<peers, visas>>
  BY <1>2, <1>3 DEF NodeInv
<1>4. CASE \E W : /\ Withdrawn(peers, W, Entries(RevokedFor(l)), l)
                  /\ Uncounted(W, peers', l)
  <2>1. PICK W : /\ Withdrawn(peers, W, Entries(RevokedFor(l)), l)
                 /\ Uncounted(W, peers', l)
    BY <1>4
  <2>2. SameBinds(peers, W) /\ W \in PeerTables /\ l \in DOMAIN W
    <3>1. SameBinds(peers, W)
      BY <2>1, WithdrawnSame
    <3> QED BY <1>1, <2>1, <3>1 DEF Withdrawn
  <2>3. BindInv(W, tasks, conns) /\ Pursued(W, tasks, {})
    BY <1>2, <2>2, SameBindsInv
  <2>4. Dropped(W, peers', l)
    BY <2>1, <2>2, <2>3, UncountedDropped
  <2>5. BindInv(peers', tasks, conns) /\ Pursued(peers', tasks, {})
    BY <2>2, <2>3, <2>4, DroppedInv
  <2> QED BY <1>2, <2>5 DEF NodeInv
<1> QED BY <1>1, <1>3, <1>4

LEMMA HandleRevocationInv ==
    ASSUME TypeOK, NodeInv, NEW v \in Visas, HandleRevocation(v) PROVE NodeInv'
<1>1. SameBinds(peers, peers')
  <2>1. \/ UNCHANGED <<peers, visas>>
        \/ Withdrawn(peers, peers', Entries({v}), None)
    BY HandleRevocationTyped
  <2>2. CASE UNCHANGED <<peers, visas>>
    BY <2>2 DEF SameBinds, KeptBinds, KeptAsked, KeptHops
  <2>3. CASE Withdrawn(peers, peers', Entries({v}), None)
    BY <2>3, WithdrawnSame
  <2> QED BY <2>1, <2>2, <2>3
<1>2. BindInv(peers, tasks, conns) /\ Pursued(peers, tasks, {}) /\ UNCHANGED <<tasks, conns>>
  BY DEF HandleRevocation, NodeInv
<1>3. BindInv(peers', tasks, conns) /\ Pursued(peers', tasks, {})
  BY <1>1, <1>2, SameBindsInv
<1> QED BY <1>2, <1>3 DEF NodeInv

LEMMA NodeInvInit == Init => NodeInv
BY DEF Init, NewPeerTable, Empty, NodeInv, BindInv, OwnedBinds, ConnsOld, Counted, BackLinked,
       ForwardLinked, NoneStray, Pursued

\* Only Dock changes `reissued`, and never back.
LEMMA ReissuedStays ==
    ASSUME [Next]_vars, ~reissued' PROVE ~reissued
<1>1. ASSUME NEW a \in Actors, NEW l \in Links, Dock(a, l) PROVE ~reissued
  BY <1>1 DEF Dock
<1>2. ASSUME NEW l \in Links, DeregisterActorAddresses(l) \/ DropPeer(l) PROVE ~reissued
  BY <1>2 DEF DeregisterActorAddresses, DropPeer, ghosts
<1>3. ASSUME NEW l \in Links, NEW t \in PeerTxns, NEW r \in Routes, BindActorAddress(l, t, r)
      PROVE  ~reissued
  BY <1>3 DEF BindActorAddress, ghosts
<1>4. ASSUME NEW k \in tasks, VisaDenied(k) \/ VisaGranted(k) PROVE ~reissued
  BY <1>4 DEF VisaDenied, VisaGranted, ghosts
<1>5. ASSUME NEW e \in Links, NEW id \in TxnId, NEW s \in Streams, InstallTether(e, id, s)
      PROVE  ~reissued
  BY <1>5 DEF InstallTether
<1>6. ASSUME NEW e \in Links, NEW id \in TxnId, DenyTether(e, id) PROVE ~reissued
  BY <1>6 DEF DenyTether, ghosts
<1>7. ASSUME NEW v \in Visas, HandleRevocation(v) \/ PushVisa(v) PROVE ~reissued
  BY <1>7 DEF HandleRevocation, PushVisa
<1>8. ASSUME NEW l \in Links, NEW s \in Streams, UnbindStream(l, s) PROVE ~reissued
  BY <1>8 DEF UnbindStream
<1>9. CASE UNCHANGED vars
  BY <1>9 DEF vars
<1> QED BY <1>1, <1>2, <1>3, <1>4, <1>5, <1>6, <1>7, <1>8, <1>9 DEF Next

LEMMA NodeInvStep ==
    ASSUME TypeOK, PeersInformed, NodeInv, [Next]_vars, ~reissued' PROVE NodeInv'
<1>1. ASSUME NEW a \in Actors, NEW l \in Links, Dock(a, l) PROVE NodeInv'
  BY <1>1, DockInv
<1>2. ASSUME NEW l \in Links, DeregisterActorAddresses(l) PROVE NodeInv'
  <2>1. Deregistered(peers, peers', l)
    BY <1>2, DeregisterTyped
  <2>2. SameBinds(peers, peers')
    BY <2>1 DEF Deregistered, SameBinds, KeptTxns
  <2> QED BY <1>2, <2>2, SameNodeInv DEF DeregisterActorAddresses
<1>3. ASSUME NEW l \in Links, DropPeer(l) PROVE NodeInv'
  BY <1>3, DropPeerInv
<1>4. ASSUME NEW l \in Links, NEW t \in PeerTxns, NEW r \in Routes, BindActorAddress(l, t, r)
      PROVE  NodeInv'
  BY <1>4, BindActorAddressInv
<1>5. ASSUME NEW k \in tasks, VisaDenied(k) PROVE NodeInv'
  BY <1>5, VisaDeniedInv
<1>6. ASSUME NEW k \in tasks, VisaGranted(k) PROVE NodeInv'
  BY <1>6, VisaGrantedInv
<1>7. ASSUME NEW e \in Links, NEW id \in TxnId, NEW s \in Streams, InstallTether(e, id, s)
      PROVE  NodeInv'
  BY <1>7, InstallTetherInv
<1>8. ASSUME NEW e \in Links, NEW id \in TxnId, DenyTether(e, id) PROVE NodeInv'
  BY <1>8, DenyTetherInv
<1>9. ASSUME NEW v \in Visas, HandleRevocation(v) PROVE NodeInv'
  BY <1>9, HandleRevocationInv
<1>10. ASSUME NEW v \in Visas, PushVisa(v) PROVE NodeInv'
  BY <1>10 DEF PushVisa, NodeInv
<1>11. ASSUME NEW l \in Links, NEW s \in Streams, UnbindStream(l, s) PROVE NodeInv'
  <2>1. GivenUp(peers, peers', l, s)
    BY <1>11, UnbindStreamTyped
  <2>2. SameBinds(peers, peers')
    BY <2>1 DEF GivenUp, SameBinds, KeptTxns, KeptLink
  <2> QED BY <1>11, <2>2, SameNodeInv DEF UnbindStream
<1>12. CASE UNCHANGED vars
  BY <1>12 DEF vars, NodeInv
<1> QED BY <1>1, <1>2, <1>3, <1>4, <1>5, <1>6, <1>7, <1>8, <1>9, <1>10, <1>11, <1>12 DEF Next

\* The invariant holds until an id is given out while a request names it.
LEMMA NodeInvHolds == Spec => [](TypeOK /\ PeersInformed /\ (reissued \/ NodeInv))
<1> DEFINE I == TypeOK /\ PeersInformed /\ (reissued \/ NodeInv)
<1>1. Init => I
  BY TypeInit, NodeInvInit
<1>2. I /\ [Next]_vars => I'
  <2> SUFFICES ASSUME I, [Next]_vars PROVE I'
    OBVIOUS
  <2>1. TypeOK' /\ PeersInformed'
    BY TypeStep
  <2>2. ASSUME ~reissued' PROVE NodeInv'
    BY <2>2, ReissuedStays, NodeInvStep
  <2> QED BY <2>1, <2>2
<1> QED BY <1>1, <1>2, PTL DEF Spec

\* The error that install_tether and deny_tether call a "dock state consistency error"
\* has a single cause, a link id that the slab gives out while a request of its last
\* owner is outstanding: until that happens, whoever a next hop was asked for either
\* is gone or still awaits exactly that answer.  That it does happen is observation 5
\* of the README.
THEOREM NeverInconsistent == Spec => []OriginatorsConsistent
<1>1. reissued \/ NodeInv => OriginatorsConsistent
  BY DEF NodeInv, BindInv, ForwardLinked, OriginatorsConsistent, ConsistencyError
<1> QED BY <1>1, NodeInvHolds, PTL

\* The handles on a transaction that a request and the next hop hold.
LEMMA RefsIs ==
    ASSUME TypeOK, NodeInv, NEW e \in DOMAIN peers, NEW id \in TxnId
    PROVE  Refs(e, id) = IF id \in DOMAIN peers[e].txn_mgr.open
                         THEN peers[e].txn_mgr.open[id] + 1 ELSE 0
<1> DEFINE A == {x \in {e} : id \in DOMAIN peers[e].next_hop}
           B == {x \in Links \X PeerTxns :
                      /\ x[1] \in DOMAIN peers /\ x[2] \in Awaiting(peers, x[1])
                      /\ peers[x[1]].binds[x[2]].txn = GetTxn(peers, e, id)}
           n == peers[e].next_hop[id]
<1>1. Refs(e, id) = Cardinality(A) + Cardinality(B)
  BY DEF Refs
<1>2. /\ DOMAIN peers[e].txn_mgr.open = DOMAIN peers[e].next_hop
      /\ id \in DOMAIN peers[e].next_hop =>
            peers[e].txn_mgr.open[id] = IF n[1] \in DOMAIN peers THEN 1 ELSE 0
  BY DEF NodeInv, BindInv, Counted
<1>3. \A x \in B : id \in DOMAIN peers[e].next_hop /\ n = x
  <2> SUFFICES ASSUME NEW x \in B PROVE id \in DOMAIN peers[e].next_hop /\ n = x
    OBVIOUS
  <2>1. /\ x[1] \in DOMAIN peers /\ x[2] \in Awaiting(peers, x[1]) /\ x = <<x[1], x[2]>>
        /\ peers[x[1]].binds[x[2]].txn = GetTxn(peers, e, id)
    OBVIOUS
  <2>2. /\ GetTxn(peers, e, id).link = e /\ GetTxn(peers, e, id).id = id
        /\ Upgrades(peers, GetTxn(peers, e, id))
    BY DEF GetTxn, TxnHandle, Upgrades
  <2>3. HopKnows(peers, GetTxn(peers, e, id), x[1], x[2])
    BY <2>1, <2>2 DEF NodeInv, BindInv, BackLinked
  <2> QED BY <2>1, <2>2, <2>3 DEF HopKnows
<1>4. CASE id \notin DOMAIN peers[e].next_hop
  <2>1. A = {} /\ B = {}
    BY <1>3, <1>4
  <2> HIDE DEF A, B
  <2>2. Cardinality(A) = 0 /\ Cardinality(B) = 0
    BY <2>1, FS_EmptySet
  <2> QED BY <1>1, <1>2, <1>4, <2>2
<1>5. CASE id \in DOMAIN peers[e].next_hop
  <2>1. n \in Links \X PeerTxns
    <3>1. peers[e].next_hop \in Partial(TxnId, Links \X PeerTxns)
      BY PeerTyped DEF TypeOK
    <3> QED BY <1>5, <3>1, PartialIs
  <2>2. n[1] \in DOMAIN peers =>
           n[2] \in Awaiting(peers, n[1]) /\ peers[n[1]].binds[n[2]].txn = GetTxn(peers, e, id)
    BY <1>5 DEF NodeInv, BindInv, ForwardLinked
  <2>3. A = {e}
    BY <1>5
  <2>4. B = IF n[1] \in DOMAIN peers THEN {n} ELSE {}
    BY <1>3, <2>1, <2>2
  <2>5. peers[e].txn_mgr.open[id] = IF n[1] \in DOMAIN peers THEN 1 ELSE 0
    BY <1>2, <1>5
  <2> HIDE DEF A, B, n
  <2>6. Cardinality(A) = 1 /\ Cardinality(B) = IF n[1] \in DOMAIN peers THEN 1 ELSE 0
    BY <2>3, <2>4, FS_EmptySet, FS_Singleton
  <2>7. id \in DOMAIN peers[e].txn_mgr.open
    BY <1>2, <1>5
  <2>8. peers[e].txn_mgr.open[id] + 1 = Cardinality(A) + Cardinality(B)
    BY <2>5, <2>6
  <2> QED BY <1>1, <2>7, <2>8
<1> QED BY <1>4, <1>5

\* Transaction ids are neither leaked nor closed too early: the count the TxnMgr of a
\* link keeps of an id is the number of handles that bind requests and the table of
\* next-hop requests hold, whichever of the two links leaves first, and whoever is
\* given their ids afterwards, as long as no request names them any longer.
THEOREM TransactionsCounted == Spec => [](reissued \/ HandlesCounted)
<1>1. TypeOK /\ (reissued \/ NodeInv) => reissued \/ HandlesCounted
  BY RefsIs DEF HandlesCounted
<1> QED BY <1>1, NodeInvHolds, PTL

LEMMA PursuedIs ==
    ASSUME TypeOK, NodeInv, ~panicked PROVE BindsPursued
<1>1. Pursued(peers, tasks, {}) /\ Counted(peers) /\ BackLinked(peers) /\ peers \in PeerTables
  BY DEF TypeOK, NodeInv, BindInv
<1> SUFFICES ASSUME NEW l \in DOMAIN peers, NEW t \in DOMAIN peers[l].asked,
                    ~Orphaned(l, t)
             PROVE  \/ /\ t \in DOMAIN peers[l].binds /\ t \notin Awaiting(peers, l)
                       /\ \E k \in tasks : k.link = l /\ k.txn = t
                    \/ /\ t \in Awaiting(peers, l)
                       /\ LET h == peers[l].binds[t].txn
                          IN /\ h.id \in peers[h.link].todo \cap DOMAIN peers[h.link].next_hop
                             /\ peers[h.link].next_hop[h.id] = <<l, t>>
  BY DEF BindsPursued
<1>2. CASE t \notin Awaiting(peers, l)
  BY <1>1, <1>2 DEF Pursued
<1>3. CASE t \in Awaiting(peers, l)
  <2> DEFINE h == peers[l].binds[t].txn
  <2>1. h.link \in DOMAIN peers /\ Upgrades(peers, h)
    BY <1>3 DEF Orphaned, Upgrades
  <2>2. HopKnows(peers, h, l, t)
    BY <1>1, <1>3, <2>1 DEF BackLinked
  <2>3. peers[h.link].todo = DOMAIN peers[h.link].next_hop
    BY <1>1, <2>1 DEF Counted
  <2> QED BY <1>3, <2>2, <2>3 DEF HopKnows
<1> QED BY <1>2, <1>3

\* As long as no link id is given out while a request names it, no bind request of an
\* adapter is answered twice, unasked or with a visa for another flow, and none is
\* forgotten: until it is answered, a task or its next hop owes it the next step,
\* unless the next hop has left, in which case nobody will (observation 5).
THEOREM RequestsAnsweredOnce == Spec => []AnswersOwed
<1>1. TypeOK /\ (reissued \/ NodeInv) => AnswersOwed
  <2> SUFFICES ASSUME TypeOK, NodeInv PROVE NoStrayAnswers /\ BindsPursued
    BY DEF AnswersOwed
  <2>1. NoStrayAnswers
    BY DEF NodeInv, BindInv, NoneStray, NoStrayAnswers
  <2>2. CASE panicked
    BY <2>1, <2>2 DEF BindsPursued
  <2> QED BY <2>1, <2>2, PursuedIs
<1> QED BY <1>1, NodeInvHolds, PTL

-------------------------------------------------------------------------------
(* Routes and visas.  This does not depend on the invariant either: ids    *)
(* may be given out again, and visas sent again.                           *)

\* Routes may go, and addresses.
FewerRoutes(P, Q) ==
    \A k \in DOMAIN Q :
        /\ k \in DOMAIN P /\ Q[k].actor \in {None, P[k].actor}
        /\ \A s \in DOMAIN Q[k].pft : s \in DOMAIN P[k].pft /\ Q[k].pft[s] = P[k].pft[s]

LEMMA SameFewerRoutes ==
    ASSUME NEW P, NEW Q, SameRoutes(P, Q) PROVE FewerRoutes(P, Q)
BY DEF SameRoutes, KeptLink, KeptRoutes, FewerRoutes

LEMMA WithdrawnFewer ==
    ASSUME NEW P, NEW Q, NEW E, NEW x, Withdrawn(P, Q, E, x)
    PROVE  FewerRoutes(P, Q)
<1>1. ASSUME NEW k \in DOMAIN Q, NEW s \in DOMAIN Q[k].pft
      PROVE  s \in DOMAIN P[k].pft /\ Q[k].pft[s] = P[k].pft[s]
  <2>1. Q[k].pft = Without(P[k].pft, {y \in Streams : <<k, y>> \in E})
    BY DEF Withdrawn
  <2> QED BY <2>1 DEF Without
<1>2. \A k \in DOMAIN Q : k \in DOMAIN P /\ Q[k].actor = P[k].actor
  BY DEF Withdrawn, KeptLink
<1> QED BY <1>1, <1>2 DEF FewerRoutes

LEMMA UncountedFewer ==
    ASSUME NEW P, NEW Q, NEW l, Uncounted(P, Q, l)
    PROVE  FewerRoutes(P, Q)
BY DEF Uncounted, KeptLink, KeptRoutes, FewerRoutes

\* Every route is among the entries of its visa, but those in X.
HasEntry(V, v, x) == \E i \in 1 .. Len(V[v]) : V[v][i] = x

RouteHeld(V, l, s, v) == v \in DOMAIN V /\ HasEntry(V, v, <<l, s>>)

RoutesHeld(P, V, X) ==
    \A l \in DOMAIN P : \A s \in DOMAIN P[l].pft :
        <<l, s>> \in X \/ RouteHeld(V, l, s, P[l].pft[s].visa)

LEMMA EntriesHas ==
    ASSUME NEW S, NEW v \in S, NEW x, HasEntry(visas, v, x) PROVE x \in Entries(S)
BY DEF HasEntry, Entries

LEMMA HeldIffHas == RoutesHeld(peers, visas, lost) <=> RoutesHaveVisas
<1>1. ASSUME NEW v, NEW x PROVE x \in Entries({v}) <=> HasEntry(visas, v, x)
  BY DEF Entries, HasEntry
<1> QED BY <1>1 DEF RoutesHeld, RouteHeld, RoutesHaveVisas

LEMMA RoutesOfHas ==
    ASSUME NEW P, NEW l \in DOMAIN P, NEW s \in DOMAIN P[l].pft PROVE <<l, s>> \in RoutesOf(P)
<1>1. <<l, s>> \in {l} \X DOMAIN P[l].pft
  OBVIOUS
<1> QED BY <1>1 DEF RoutesOf

LEMMA FewerHeld ==
    ASSUME NEW P, NEW Q, NEW V, NEW X, NEW Y, RoutesHeld(P, V, X), FewerRoutes(P, Q),
           X \cap RoutesOf(Q) \subseteq Y
    PROVE  RoutesHeld(Q, V, Y)
<1> SUFFICES ASSUME NEW l \in DOMAIN Q, NEW s \in DOMAIN Q[l].pft, <<l, s>> \notin Y
             PROVE  RouteHeld(V, l, s, Q[l].pft[s].visa)
  BY DEF RoutesHeld
<1>1. l \in DOMAIN P /\ s \in DOMAIN P[l].pft /\ Q[l].pft[s] = P[l].pft[s]
  BY DEF FewerRoutes
<1>2. <<l, s>> \notin X
  BY RoutesOfHas
<1> QED BY <1>1, <1>2 DEF RoutesHeld

\* Revoking visas removes their routes.
LEMMA WithdrawnHeld ==
    ASSUME TypeOK, RoutesHeld(peers, visas, lost), NEW S, NEW Q, NEW x,
           Withdrawn(peers, Q, Entries(S), x)
    PROVE  RoutesHeld(Q, Without(visas, S), lost)
<1> SUFFICES ASSUME NEW l \in DOMAIN Q, NEW s \in DOMAIN Q[l].pft, <<l, s>> \notin lost
             PROVE  RouteHeld(Without(visas, S), l, s, Q[l].pft[s].visa)
  BY DEF RoutesHeld
<1> DEFINE v == Q[l].pft[s].visa
<1>1. l \in DOMAIN peers /\ Q[l].pft = Without(peers[l].pft, {y \in Streams : <<l, y>> \in Entries(S)})
  BY DEF Withdrawn
<1>2. /\ s \in DOMAIN peers[l].pft /\ Q[l].pft[s] = peers[l].pft[s]
      /\ s \notin {y \in Streams : <<l, y>> \in Entries(S)}
  BY <1>1 DEF Without
<1>3. RouteHeld(visas, l, s, v)
  BY <1>1, <1>2 DEF RoutesHeld
<1>4. s \in Streams
  <2>1. peers[l].pft \in Partial(Streams, [next_hop : Entry, visa : Visas])
    BY <1>1, PeerTyped DEF TypeOK
  <2> QED BY <1>2, <2>1, PartialIs
<1>5. v \notin S
  BY <1>2, <1>3, <1>4, EntriesHas DEF RouteHeld
<1> HIDE DEF v
<1>6. v \in DOMAIN Without(visas, S) /\ Without(visas, S)[v] = visas[v]
  BY <1>3, <1>5 DEF RouteHeld, Without
<1>7. RouteHeld(Without(visas, S), l, s, v)
  BY <1>3, <1>6 DEF RouteHeld, HasEntry
<1> QED BY <1>7 DEF v

\* Only the routes of a visa that is stored again lose their entries.
LEMMA InsertedHeld ==
    ASSUME NEW v, RoutesHeld(peers, visas, lost), InsertVisa(v)
    PROVE  RoutesHeld(peers, visas', lost')
<1>1. \A w \in DOMAIN visas : w \in DOMAIN visas' /\ (w # v => visas'[w] = visas[w])
  BY DEF InsertVisa, TableInsert, Put
<1> SUFFICES ASSUME NEW l \in DOMAIN peers, NEW s \in DOMAIN peers[l].pft, <<l, s>> \notin lost'
             PROVE  RouteHeld(visas', l, s, peers[l].pft[s].visa)
  BY DEF RoutesHeld
<1> DEFINE w == peers[l].pft[s].visa
           x == <<l, s>>
<1>2. x \in RoutesOf(peers) /\ x \notin lost'
  BY RoutesOfHas
<1>3. x \notin lost /\ RouteHeld(visas, l, s, w)
  BY <1>2 DEF InsertVisa, RoutesHeld
<1> HIDE DEF w
<1>4. w # v
  <2> SUFFICES ASSUME w = v PROVE FALSE
    OBVIOUS
  <2>1. v \in {v} \cap DOMAIN visas /\ HasEntry(visas, v, x)
    BY <1>3 DEF RouteHeld
  <2>2. x \in Entries({v} \cap DOMAIN visas)
    BY <2>1, EntriesHas
  <2> QED BY <1>2, <2>2 DEF InsertVisa
<1>5. RouteHeld(visas', l, s, w)
  BY <1>1, <1>3, <1>4 DEF RouteHeld, HasEntry
<1> QED BY <1>5 DEF w

\* A new route is entered with its visa.
LEMMA RoutedHeld ==
    ASSUME NEW P, NEW Q, NEW V \in VisaTables, NEW W, NEW e, NEW l \in Links, NEW s, NEW tether,
           NEW v, NEW X, Routed(P, Q, V, W, e, l, s, tether, v), RoutesHeld(P, V, X)
    PROVE  RoutesHeld(Q, W, X \ {<<l, s>>})
<1>1. v \in DOMAIN V /\ W = [V EXCEPT ![v] = Append(V[v], <<l, s>>)] /\ s \in Streams
  BY DEF Routed
<1>2. V[v] \in Seq(Entry) /\ <<l, s>> \in Entry /\ V = [x \in DOMAIN V |-> V[x]]
  BY <1>1, PartialIs DEF VisaTables, Entry
<1>3. /\ DOMAIN W = DOMAIN V /\ W[v] = Append(V[v], <<l, s>>)
      /\ \A w \in DOMAIN V : w # v => W[w] = V[w]
  BY <1>1, <1>2
<1>4. HasEntry(W, v, <<l, s>>)
  <2> DEFINE q == V[v]
             x == <<l, s>>
  <2> HIDE DEF q, x
  <2>1. q \in Seq(Entry) /\ x \in Entry
    BY <1>2 DEF q, x
  <2>2. Len(Append(q, x)) = Len(q) + 1 /\ Append(q, x)[Len(q) + 1] = x /\ Len(q) + 1 \in 1 .. Len(q) + 1
    BY <2>1
  <2> QED BY <1>3, <2>2 DEF HasEntry, q, x
<1>5. ASSUME NEW x, HasEntry(V, v, x) PROVE HasEntry(W, v, x)
  <2> DEFINE q == V[v]
             y == <<l, s>>
  <2>1. PICK i \in 1 .. Len(q) : q[i] = x
    BY <1>5 DEF HasEntry
  <2> HIDE DEF q, y
  <2>2. q \in Seq(Entry) /\ y \in Entry
    BY <1>2 DEF q, y
  <2>3. i \in 1 .. Len(Append(q, y)) /\ Append(q, y)[i] = q[i]
    BY <2>2
  <2> QED BY <1>3, <2>1, <2>3 DEF HasEntry, q, y
<1>6. ASSUME NEW k, NEW u, NEW w, RouteHeld(V, k, u, w) PROVE RouteHeld(W, k, u, w)
  <2>1. w \in DOMAIN W /\ HasEntry(V, w, <<k, u>>)
    BY <1>3, <1>6 DEF RouteHeld
  <2>2. CASE w = v
    BY <1>5, <2>1, <2>2 DEF RouteHeld
  <2>3. CASE w # v
    BY <1>3, <1>6, <2>1, <2>3 DEF RouteHeld, HasEntry
  <2> QED BY <2>2, <2>3
<1>7. ASSUME NEW k \in DOMAIN Q, NEW u \in DOMAIN Q[k].pft, <<k, u>> \notin X \ {<<l, s>>}
      PROVE  RouteHeld(W, k, u, Q[k].pft[u].visa)
  <2>1. k \in DOMAIN P
    BY DEF Routed
  <2>2. CASE k = l /\ u = s
    <3>1. Q[k].pft[u] = PftPep(e, tether, v)
      BY <2>2 DEF Routed, Put
    <3>2. Q[k].pft[u].visa = v
      BY <3>1 DEF PftPep
    <3> QED BY <1>1, <1>3, <1>4, <2>2, <3>2 DEF RouteHeld
  <2>3. CASE ~(k = l /\ u = s)
    <3>1. u \in DOMAIN P[k].pft /\ Q[k].pft[u] = P[k].pft[u]
      <4>1. CASE k = l
        BY <2>3, <4>1 DEF Routed, Put
      <4>2. CASE k # l
        BY <2>1, <4>2 DEF Routed, KeptRoutes
      <4> QED BY <4>1, <4>2
    <3>2. <<k, u>> \notin X
      BY <1>7, <2>3
    <3> QED BY <1>6, <2>1, <3>1, <3>2 DEF RoutesHeld
  <2> QED BY <2>2, <2>3
<1> QED BY <1>7 DEF RoutesHeld

\* unbind_stream unlinks the next hop of the route: no other entry is lost.
LEMMA UnboundHeld ==
    ASSUME TypeOK, RoutesHeld(peers, visas, lost), NEW l \in DOMAIN peers,
           NEW s \in DOMAIN peers[l].pft,
           NEW W, W = UnlinkFrom(peers[l].pft[s].visa, peers[l].pft[s].next_hop)
    PROVE  RoutesHeld(peers, W, lost \cup {peers[l].pft[s].next_hop})
<1> DEFINE v == peers[l].pft[s].visa
           x == peers[l].pft[s].next_hop
<1>1. W = IF v \in DOMAIN visas THEN [visas EXCEPT ![v] = Unlink(visas[v], x)] ELSE visas
  BY DEF UnlinkFrom
<1> HIDE DEF v, x
<1>2. CASE v \notin DOMAIN visas
  BY <1>1, <1>2 DEF RoutesHeld
<1>3. CASE v \in DOMAIN visas
  <2>1. visas[v] \in Seq(Entry) /\ visas = [w \in DOMAIN visas |-> visas[w]]
    <3>1. visas \in Partial(Visas, Seq(Entry))
      BY DEF TypeOK, VisaTables
    <3> QED BY <1>3, <3>1, PartialIs
  <2>2. DOMAIN W = DOMAIN visas /\ W[v] = Unlink(visas[v], x)
        /\ \A w \in DOMAIN visas : w # v => W[w] = visas[w]
    BY <1>1, <1>3, <2>1
  <2>3. ASSUME NEW y, HasEntry(visas, v, y), y # x PROVE HasEntry(W, v, y)
    <3>1. PICK i \in 1 .. Len(visas[v]) : visas[v][i] = y
      BY <2>3 DEF HasEntry
    <3>2. \E j \in 1 .. Len(Unlink(visas[v], x)) : Unlink(visas[v], x)[j] = visas[v][i]
      BY <2>1, <2>3, <3>1, UnlinkIs
    <3> QED BY <2>2, <3>1, <3>2 DEF HasEntry
  <2>4. ASSUME NEW k \in DOMAIN peers, NEW u \in DOMAIN peers[k].pft, <<k, u>> \notin lost \cup {x}
        PROVE  RouteHeld(W, k, u, peers[k].pft[u].visa)
    <3> DEFINE w == peers[k].pft[u].visa
    <3>1. w \in DOMAIN visas /\ HasEntry(visas, w, <<k, u>>) /\ <<k, u>> # x
      BY <2>4 DEF RoutesHeld, RouteHeld
    <3> HIDE DEF w
    <3>2. CASE w # v
      BY <2>2, <3>1, <3>2 DEF RouteHeld, HasEntry, w
    <3>3. CASE w = v
      BY <2>2, <2>3, <3>1, <3>3 DEF RouteHeld, w
    <3> QED BY <3>2, <3>3
  <2> QED BY <2>4 DEF RoutesHeld, x
<1> QED BY <1>2, <1>3

LEMMA HeldStep ==
    ASSUME TypeOK, PeersInformed, RoutesHeld(peers, visas, lost), [Next]_vars
    PROVE  RoutesHeld(peers', visas', lost')
<1>1. ASSUME NEW a \in Actors, NEW l \in Links, Dock(a, l) PROVE RoutesHeld(peers', visas', lost')
  <2>1. PICK p : Fresh(p, a, conns) /\ Docked(peers, peers', l, p)
    BY <1>1, DockTyped
  <2>2. visas' = visas /\ lost' = lost
    BY <1>1 DEF Dock
  <2> QED BY <2>1, <2>2 DEF Fresh, Docked, RoutesHeld
<1>2. ASSUME NEW l \in Links, DeregisterActorAddresses(l) PROVE RoutesHeld(peers', visas', lost')
  <2>1. Deregistered(peers, peers', l) /\ visas' = visas /\ lost' = lost
    BY <1>2, DeregisterTyped DEF DeregisterActorAddresses, ghosts
  <2> QED BY <2>1 DEF Deregistered, KeptRoutes, RoutesHeld
<1>4. ASSUME UNCHANGED <<peers, visas>>, lost \cap RoutesOf(peers') \subseteq lost'
      PROVE  RoutesHeld(peers', visas', lost')
  <2>1. FewerRoutes(peers, peers')
    BY <1>4 DEF FewerRoutes
  <2> QED BY <1>4, <2>1, FewerHeld
<1>3. ASSUME NEW l \in Links, DropPeer(l) PROVE RoutesHeld(peers', visas', lost')
  <2>0. lost \cap RoutesOf(peers') \subseteq lost'
    BY <1>3 DEF DropPeer
  <2>1. \/ UNCHANGED <<peers, visas>>
        \/ /\ \E W : /\ Withdrawn(peers, W, Entries(RevokedFor(l)), l)
                     /\ Uncounted(W, peers', l)
           /\ visas' = Without(visas, RevokedFor(l))
    BY <1>3, DropPeerTyped
  <2>2. CASE UNCHANGED <<peers, visas>>
    BY <2>0, <2>2, <1>4
  <2>3. CASE /\ \E W : /\ Withdrawn(peers, W, Entries(RevokedFor(l)), l)
                       /\ Uncounted(W, peers', l)
             /\ visas' = Without(visas, RevokedFor(l))
    <3>1. PICK W : /\ Withdrawn(peers, W, Entries(RevokedFor(l)), l)
                   /\ Uncounted(W, peers', l)
      BY <2>3
    <3>2. RoutesHeld(W, visas', lost)
      BY <2>3, <3>1, WithdrawnHeld
    <3> QED BY <2>0, <3>1, <3>2, UncountedFewer, FewerHeld
  <2> QED BY <2>1, <2>2, <2>3
<1>5. ASSUME NEW l \in Links, NEW t \in PeerTxns, NEW r \in Routes, BindActorAddress(l, t, r)
      PROVE  RoutesHeld(peers', visas', lost')
  <2>1. SameRoutes(peers, peers') /\ UNCHANGED <<visas, lost>>
    BY <1>5, BindTyped DEF BindActorAddress, ghosts
  <2> QED BY <2>1, SameFewerRoutes, FewerHeld
<1>6. ASSUME NEW k \in tasks, VisaDenied(k) PROVE RoutesHeld(peers', visas', lost')
  <2>1. SameRoutes(peers, peers') /\ UNCHANGED <<visas, lost>>
    BY <1>6, VisaDeniedTyped DEF VisaDenied, ghosts
  <2> QED BY <2>1, SameFewerRoutes, FewerHeld
<1>7. ASSUME NEW k \in tasks, VisaGranted(k) PROVE RoutesHeld(peers', visas', lost')
  <2>1. PICK v \in Visas : InsertVisa(v)
    BY <1>7 DEF VisaGranted, VisaDecisions
  <2>2. SameRoutes(peers, peers')
    BY <1>7, VisaGrantedTyped
  <2>3. RoutesHeld(peers, visas', lost')
    BY <2>1, InsertedHeld
  <2>4. lost' \cap RoutesOf(peers') \subseteq lost'
    OBVIOUS
  <2> QED BY <2>2, <2>3, <2>4, SameFewerRoutes, FewerHeld
<1>8. ASSUME NEW e \in Links, NEW id \in TxnId, NEW s \in Streams, InstallTether(e, id, s)
      PROVE  RoutesHeld(peers', visas', lost')
  <2> DEFINE l == peers[e].next_hop[id][1]
  <2>1. \/ SameRoutes(peers, peers') /\ UNCHANGED <<visas, lost>>
        \/ \E x, v : /\ Routed(peers, peers', visas, visas', e, l, x, s, v)
                     /\ lost' = lost \ {<<l, x>>}
    BY <1>8, InstallTetherTyped
  <2> HIDE DEF l
  <2>2. CASE SameRoutes(peers, peers') /\ UNCHANGED <<visas, lost>>
    BY <2>2, SameFewerRoutes, FewerHeld
  <2>3. CASE \E x, v : /\ Routed(peers, peers', visas, visas', e, l, x, s, v)
                       /\ lost' = lost \ {<<l, x>>}
    <3>1. PICK x, v : /\ Routed(peers, peers', visas, visas', e, l, x, s, v)
                      /\ lost' = lost \ {<<l, x>>}
      BY <2>3
    <3>2. l \in Links
      BY <3>1, PartialIs DEF Routed, TypeOK, PeerTables
    <3>3. visas \in VisaTables
      BY DEF TypeOK
    <3>4. RoutesHeld(peers', visas', lost \ {<<l, x>>})
      BY <3>1, <3>2, <3>3, RoutedHeld
    <3> QED BY <3>1, <3>4
  <2> QED BY <2>1, <2>2, <2>3
<1>9. ASSUME NEW e \in Links, NEW id \in TxnId, DenyTether(e, id)
      PROVE  RoutesHeld(peers', visas', lost')
  <2>1. SameRoutes(peers, peers') /\ UNCHANGED <<visas, lost>>
    BY <1>9, DenyTetherTyped DEF DenyTether, ghosts
  <2> QED BY <2>1, SameFewerRoutes, FewerHeld
<1>10. ASSUME NEW v \in Visas, HandleRevocation(v) PROVE RoutesHeld(peers', visas', lost')
  <2>0. lost \cap RoutesOf(peers') \subseteq lost'
    BY <1>10 DEF HandleRevocation
  <2>1. \/ UNCHANGED <<peers, visas>>
        \/ /\ Withdrawn(peers, peers', Entries({v}), None)
           /\ visas' = Without(visas, {v})
    BY <1>10, HandleRevocationTyped
  <2>2. CASE UNCHANGED <<peers, visas>>
    BY <2>0, <2>2, <1>4
  <2>3. CASE /\ Withdrawn(peers, peers', Entries({v}), None)
             /\ visas' = Without(visas, {v})
    <3>1. RoutesHeld(peers', visas', lost)
      BY <2>3, WithdrawnHeld
    <3>2. FewerRoutes(peers', peers')
      BY DEF FewerRoutes
    <3> QED BY <2>0, <3>1, <3>2, FewerHeld
  <2> QED BY <2>1, <2>2, <2>3
<1>11. ASSUME NEW v \in Visas, PushVisa(v) PROVE RoutesHeld(peers', visas', lost')
  <2>1. InsertVisa(v) /\ peers' = peers
    BY <1>11 DEF PushVisa
  <2> QED BY <2>1, InsertedHeld
<1>12. ASSUME NEW l \in Links, NEW s \in Streams, UnbindStream(l, s) PROVE RoutesHeld(peers', visas', lost')
  <2>1. /\ l \in DOMAIN peers /\ s \in DOMAIN peers[l].pft
        /\ GivenUp(peers, peers', l, s)
        /\ visas' = UnlinkFrom(peers[l].pft[s].visa, peers[l].pft[s].next_hop)
    BY <1>12, UnbindStreamTyped
  <2>2. FewerRoutes(peers, peers')
    BY <2>1 DEF GivenUp, KeptLink, KeptRoutes, FewerRoutes, Without
  <2> DEFINE X == lost \cup {peers[l].pft[s].next_hop}
  <2>3. RoutesHeld(peers, visas', X)
    BY <2>1, UnboundHeld
  <2>4. X \cap RoutesOf(peers') \subseteq lost'
    BY <1>12, <2>1 DEF UnbindStream
  <2> HIDE DEF X
  <2> QED BY <2>2, <2>3, <2>4, FewerHeld
<1>13. CASE UNCHANGED vars
  BY <1>13 DEF vars
<1> QED BY <1>1, <1>2, <1>3, <1>5, <1>6, <1>7, <1>8, <1>9, <1>10, <1>11, <1>12, <1>13 DEF Next

\* Traffic is forwarded only under a visa the node holds, and the revocation of a visa
\* finds every route that was made under it, through links that come and go with the
\* same ids and visas that are sent again, but for the routes in `lost`: those of a visa
\* that was stored again while they were in use, and those that unbind_stream, which
\* unlinks the next hop of the stream, takes from the visa by mistake.
THEOREM ForwardedUnderVisa == Spec => []RoutesHaveVisas
<1> DEFINE I == TypeOK /\ PeersInformed /\ RoutesHeld(peers, visas, lost)
<1>1. Init => I
  <2>1. Init => RoutesHeld(peers, visas, lost)
    BY DEF Init, NewPeerTable, Empty, RoutesHeld
  <2> QED BY <2>1, TypeInit
<1>2. I /\ [Next]_vars => I'
  BY TypeStep, HeldStep
<1>3. I => RoutesHaveVisas
  BY HeldIffHas
<1> QED BY <1>1, <1>2, <1>3, PTL DEF Spec
===============================================================================
