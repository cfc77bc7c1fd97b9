--------------------------- MODULE AdapterFlowsProofs ---------------------------
(***************************************************************************)
(* AdapterFlows, for any number of flows, streams, tethers, transaction    *)
(* ids, sessions and packets: the tables of the source agree with each     *)
(* other and with its transactions, every pending entry awaits exactly one *)
(* message while the link is up at both ends unless it was lost in a way   *)
(* the code tells nobody of, no answer comes unexpected, and only packets  *)
(* of permitted flows are under way.                                       *)
(*                                                                         *)
(* TablesConsistent counts handles.  The invariant behind it (HandlesHeld) *)
(* says what is counted: a transaction has at most one task, and the index *)
(* holds two more handles.  That needs the bind requests in flight: each   *)
(* is the only one of its transaction and has a task that waits for it     *)
(* (BindsWait).  AnswersExpected needs in addition that messages of        *)
(* earlier sessions cannot be taken for those of this one (SessionsOld)    *)
(* and that the tables are empty while the link is down (DownIsEmpty).     *)
(* OnlyPermitted needs the same of the answers in flight and of the active *)
(* entries (PermInv).                                                      *)
(***************************************************************************)
EXTENDS AdapterFlows, FiniteSetTheorems, TLAPS

-------------------------------------------------------------------------------
(* Types.                                                                  *)

Entries == [st : {"Pending"}, txn : TxnId] \cup [st : {"Active"}, id : Streams]

Tasks == [txn : TxnId, st : {"wait", "acked", "canceled", "closed"}]

Messages ==
    [kind : {"bind"}, txn : TxnId, flow : Flows]
    \cup [kind : {"grant"}, txn : TxnId, id : Streams, flow : Flows]
    \cup [kind : {"deny"}, txn : TxnId]
    \cup [kind : {"withdraw", "unbind"}, id : Streams]
    \cup [kind : {"egress", "full"}, txn : TxnId, flow : Flows, ses : Nat]
    \cup [kind : {"tether"}, txn : TxnId, flow : Flows, ses : Nat, id : Tethers]

Packets ==
    [to : {"node"}, ses : Nat, id : Streams, flow : Flows]
    \cup [to : {"dest"}, id : Tethers, flow : Flows]

Routes == [flow : Flows, next_hop : Tethers]

MgrOK(M) == /\ M \in [next_free : TxnId, open : {M.open}]
            /\ M.open \in [DOMAIN M.open -> Nat]
            /\ DOMAIN M.open \subseteq TxnId

EltOK == (\A x \in DOMAIN elt : elt[x] \in Entries) /\ DOMAIN elt \subseteq Flows
PendingOK == (\A x \in DOMAIN pending : pending[x] \in Flows) /\ DOMAIN pending \subseteq TxnId
TxnOK == MgrOK(txn_mgr)
NetOK == IsABag(net) /\ DOMAIN net \subseteq Messages
NodeOK == /\ node \in [up : BOOLEAN, pft : {node.pft}, visas : SUBSET Flows]
          /\ (\A x \in DOMAIN node.pft : node.pft[x] \in Routes) /\ DOMAIN node.pft \subseteq Streams
DltOK == (\A x \in DOMAIN dlt : dlt[x] \in Flows) /\ DOMAIN dlt \subseteq Tethers

\* The type invariant of a flow: the tables of the source, the node and the
\* destination, their messages and packets.
TypeOK ==
    /\ EltOK /\ PendingOK /\ TxnOK
    /\ tasks \subseteq Tasks
    /\ NetOK /\ pkts \subseteq Packets
    /\ NodeOK /\ DltOK
    /\ up \in BOOLEAN /\ ses \in Nat
    /\ orphans \subseteq TxnId /\ permitted \subseteq Flows
    /\ revokes \in Nat /\ binds \in Nat

-------------------------------------------------------------------------------
(* The inductive invariant.                                                *)

Waiting(t) == [txn |-> t, st |-> "wait"]
Canceled(t) == [txn |-> t, st |-> "canceled"]

\* The endpoint table and its index are inverse to each other.
IndexExact ==
    /\ \A f \in DOMAIN elt : elt[f].st = "Pending" =>
          elt[f].txn \in DOMAIN pending /\ pending[elt[f].txn] = f
    /\ \A t \in DOMAIN pending :
          pending[t] \in DOMAIN elt /\ elt[pending[t]] = Pending(t)

\* A transaction has at most one task.
OneTask(T) == \A k, l \in T : k.txn = l.txn => k = l

\* Its handles: one of the task, one of the entry and one of the index.
Handles(M, P, T) ==
    \A t \in TxnId :
        IF \E k \in T : k.txn = t
        THEN t \in DOMAIN M.open /\ M.open[t] = IF t \in DOMAIN P THEN 2 ELSE 0
        ELSE IF t \in DOMAIN P THEN t \in DOMAIN M.open /\ M.open[t] = 1
        ELSE t \notin DOMAIN M.open

HandlesHeld == OneTask(tasks) /\ Handles(txn_mgr, pending, tasks)

\* While the source is up, a bind request in flight is the only one of its
\* transaction, whose task waits for its status.
BindsWaitFor(N, T) ==
    /\ \A m \in DOMAIN N : m.kind = "bind" => N[m] = 1 /\ Waiting(m.txn) \in T
    /\ \A m, n \in DOMAIN N :
          m.kind = "bind" /\ n.kind = "bind" /\ m.txn = n.txn => m = n

BindsWait == up => BindsWaitFor(net, tasks)

\* A message that will settle, or answers, a transaction of session s.
Concerns(m, s) ==
    /\ m.kind \in {"bind", "egress", "tether", "full", "grant", "deny"}
    /\ m.kind \in {"egress", "tether", "full"} => m.ses = s

\* AnswersExpected without counting, for the copies of each message too.
Expected(N, P, T, s) ==
    /\ \A m \in DOMAIN N : Concerns(m, s) =>
          N[m] = 1 /\ m.txn \in DOMAIN P /\ Canceled(m.txn) \notin T
    /\ \A m, n \in DOMAIN N : Concerns(m, s) /\ Concerns(n, s) /\ m.txn = n.txn => m = n
    /\ \A t \in DOMAIN P :
          Canceled(t) \in T \/ \E m \in DOMAIN N : Concerns(m, s) /\ m.txn = t

\* What tasks know of cancellations, and the requests lost without a word.
ToldOf(T, O) == T \cup {Canceled(t) : t \in O}

AllExpected == up /\ node.up => Expected(net, pending, ToldOf(tasks, orphans), ses)

SessionsOld ==
    \A m \in DOMAIN net : m.kind \in {"egress", "tether", "full"} => m.ses <= ses

DownIsEmpty == ~up => DOMAIN elt = {} /\ DOMAIN pending = {}

FlowInv ==
    /\ TypeOK
    /\ IndexExact /\ HandlesHeld
    /\ BindsWait /\ AllExpected
    /\ SessionsOld /\ DownIsEmpty

-------------------------------------------------------------------------------
(* Tables.                                                                 *)

\* A table without some of its keys.
LEMMA WithoutFacts ==
  ASSUME NEW h, NEW S
  PROVE  /\ DOMAIN Without(h, S) = DOMAIN h \ S
         /\ \A x \in DOMAIN h \ S : Without(h, S)[x] = h[x]
BY DEF Without

\* A table with one more entry.
LEMMA PutFacts ==
  ASSUME NEW h, NEW k, NEW v
  PROVE  /\ DOMAIN Put(h, k, v) = DOMAIN h \cup {k}
         /\ Put(h, k, v)[k] = v
         /\ \A x \in DOMAIN h : x # k => Put(h, k, v)[x] = h[x]
BY DEF Put

-------------------------------------------------------------------------------
(* Bags of messages.                                                       *)

\* One more copy of a message.
LEMMA AddOne ==
  ASSUME NEW N, IsABag(N), NEW m
  PROVE  /\ IsABag(N (+) SetToBag({m}))
         /\ DOMAIN (N (+) SetToBag({m})) = DOMAIN N \cup {m}
         /\ \A x \in DOMAIN N : x # m => (N (+) SetToBag({m}))[x] = N[x]
         /\ m \notin DOMAIN N => (N (+) SetToBag({m}))[m] = 1
<1> DEFINE B == N (+) SetToBag({m})
<1>1. B = [e \in DOMAIN N \cup {m} |-> (IF e \in DOMAIN N THEN N[e] ELSE 0)
                                       + (IF e \in {m} THEN 1 ELSE 0)]
  BY DEF SetToBag, (+)
<1>2. \A x \in DOMAIN N : N[x] \in Nat /\ N[x] > 0 BY DEF IsABag
<1>3. \A x \in DOMAIN N \cup {m} : B[x] \in Nat /\ B[x] > 0 BY <1>1, <1>2
<1>4. DOMAIN B = DOMAIN N \cup {m} BY <1>1
<1>5. IsABag(B) BY <1>1, <1>3 DEF IsABag
<1>6. \A x \in DOMAIN N : x # m => B[x] = N[x] BY <1>1, <1>2
<1>7. m \notin DOMAIN N => B[m] = 1 BY <1>1
<1> QED BY <1>4, <1>5, <1>6, <1>7

\* More messages, whatever they are.
LEMMA AddMany ==
  ASSUME NEW N, IsABag(N), NEW S
  PROVE  /\ IsABag(N (+) SetToBag(S))
         /\ DOMAIN (N (+) SetToBag(S)) = DOMAIN N \cup S
         /\ \A x \in DOMAIN N : x \notin S => (N (+) SetToBag(S))[x] = N[x]
<1> DEFINE B == N (+) SetToBag(S)
<1>1. B = [e \in DOMAIN N \cup S |-> (IF e \in DOMAIN N THEN N[e] ELSE 0)
                                     + (IF e \in S THEN 1 ELSE 0)]
  BY DEF SetToBag, (+)
<1>2. \A x \in DOMAIN N : N[x] \in Nat /\ N[x] > 0 BY DEF IsABag
<1>3. \A x \in DOMAIN N \cup S : B[x] \in Nat /\ B[x] > 0 BY <1>1, <1>2
<1> QED BY <1>1, <1>2, <1>3 DEF IsABag

\* One copy less.
LEMMA TakeOne ==
  ASSUME NEW N, IsABag(N), NEW m \in DOMAIN N
  PROVE  /\ IsABag(N (-) SetToBag({m}))
         /\ DOMAIN (N (-) SetToBag({m})) \subseteq DOMAIN N
         /\ \A x \in DOMAIN N : x # m => x \in DOMAIN (N (-) SetToBag({m}))
                                         /\ (N (-) SetToBag({m}))[x] = N[x]
         /\ N[m] = 1 => m \notin DOMAIN (N (-) SetToBag({m}))
<1> DEFINE A == [e \in DOMAIN N |-> IF e \in {m} THEN N[e] - 1 ELSE N[e]]
           B == N (-) SetToBag({m})
<1>1. B = [e \in {d \in DOMAIN N : A[d] > 0} |-> A[e]]
  BY DEF SetToBag, (-)
<1>2. \A x \in DOMAIN N : N[x] \in Nat /\ N[x] > 0 BY DEF IsABag
<1>3. \A x \in DOMAIN N : A[x] \in Nat BY <1>2
<1>4. \A x \in DOMAIN B : B[x] \in Nat /\ B[x] > 0 BY <1>1, <1>3
<1>5. IsABag(B) BY <1>1, <1>4 DEF IsABag
<1>6. DOMAIN B = {d \in DOMAIN N : A[d] > 0} BY <1>1
<1>7. \A x \in DOMAIN N : x # m => x \in DOMAIN B /\ B[x] = N[x] BY <1>1, <1>2, <1>6
<1>8. N[m] = 1 => m \notin DOMAIN B
  <2>1. N[m] = 1 => A[m] = 0 OBVIOUS
  <2> HIDE DEF A, B
  <2>2. N[m] = 1 => ~(A[m] > 0) BY <2>1
  <2> QED BY <2>2, <1>6
<1> QED BY <1>5, <1>6, <1>7, <1>8

\* The only copy goes.
LEMMA TakeOnly ==
  ASSUME NEW N, IsABag(N), NEW m \in DOMAIN N, N[m] = 1
  PROVE  /\ IsABag(N (-) SetToBag({m}))
         /\ DOMAIN (N (-) SetToBag({m})) = DOMAIN N \ {m}
         /\ \A x \in DOMAIN N \ {m} : (N (-) SetToBag({m}))[x] = N[x]
<1> DEFINE A == N (-) SetToBag({m})
<1>1. /\ IsABag(A) /\ DOMAIN A \subseteq DOMAIN N /\ m \notin DOMAIN A
      /\ \A x \in DOMAIN N : x # m => x \in DOMAIN A /\ A[x] = N[x]
  BY TakeOne, Zenon
<1> HIDE DEF A
<1>2. DOMAIN A = DOMAIN N \ {m} /\ \A x \in DOMAIN N \ {m} : A[x] = N[x] BY <1>1
<1> QED BY <1>1, <1>2 DEF A

\* The first copy comes.
LEMMA AddFresh ==
  ASSUME NEW N, IsABag(N), NEW m, m \notin DOMAIN N
  PROVE  /\ IsABag(N (+) SetToBag({m}))
         /\ DOMAIN (N (+) SetToBag({m})) = DOMAIN N \cup {m}
         /\ (N (+) SetToBag({m}))[m] = 1
         /\ \A x \in DOMAIN N : (N (+) SetToBag({m}))[x] = N[x]
<1> DEFINE A == N (+) SetToBag({m})
<1>1. /\ IsABag(A) /\ DOMAIN A = DOMAIN N \cup {m} /\ A[m] = 1
      /\ \A x \in DOMAIN N : x # m => A[x] = N[x]
  BY AddOne, Zenon
<1> HIDE DEF A
<1>2. \A x \in DOMAIN N : A[x] = N[x] BY <1>1
<1> QED BY <1>1, <1>2 DEF A

\* A bag without the messages of a set.
LEMMA GoneKeeps ==
  ASSUME IsABag(net), NEW M
  PROVE  /\ IsABag(Gone(M))
         /\ DOMAIN Gone(M) = DOMAIN net \ M
         /\ \A x \in DOMAIN Gone(M) : Gone(M)[x] = net[x]
<1>1. \A x \in DOMAIN net : net[x] \in Nat /\ net[x] > 0 BY DEF IsABag
<1> QED BY <1>1 DEF IsABag, Gone
-------------------------------------------------------------------------------
(* Transactions.                                                           *)

\* Dropping one handle.
LEMMA DerefOnce ==
  ASSUME NEW M, MgrOK(M), NEW t \in DOMAIN M.open
  PROVE  LET D == DerefTxn(M, t) IN
         /\ MgrOK(D)
         /\ DOMAIN D.open = IF M.open[t] = 0 THEN DOMAIN M.open \ {t} ELSE DOMAIN M.open
         /\ \A i \in DOMAIN D.open : D.open[i] = IF i = t THEN M.open[i] - 1 ELSE M.open[i]
<1> DEFINE D == DerefTxn(M, t)
<1>1. M.open[t] \in Nat BY DEF MgrOK
<1>2. CASE M.open[t] > 0
  <2>1. D = [M EXCEPT !.open[t] = @ - 1] BY <1>2 DEF DerefTxn
  <2>2. D.open = [M.open EXCEPT ![t] = @ - 1] /\ D.next_free = M.next_free
        /\ D \in [next_free : TxnId, open : {D.open}]
    BY <2>1 DEF MgrOK
  <2>3. M.open[t] - 1 \in Nat BY <1>1, <1>2
  <2> HIDE DEF D
  <2>4. MgrOK(D) BY <2>2, <2>3 DEF MgrOK
  <2>5. \A i \in DOMAIN D.open : D.open[i] = IF i = t THEN M.open[i] - 1 ELSE M.open[i]
    BY <2>2 DEF MgrOK
  <2>6. DOMAIN D.open = DOMAIN M.open BY <2>2 DEF MgrOK
  <2> QED BY <1>2, <2>4, <2>5, <2>6 DEF D
<1>3. CASE M.open[t] = 0
  <2>1. D = [M EXCEPT !.open = [i \in DOMAIN M.open \ {t} |-> M.open[i]]] BY <1>3 DEF DerefTxn
  <2>2. D.open = [i \in DOMAIN M.open \ {t} |-> M.open[i]] /\ D.next_free = M.next_free
        /\ D \in [next_free : TxnId, open : {D.open}]
    BY <2>1 DEF MgrOK
  <2> HIDE DEF D
  <2>4. MgrOK(D) BY <2>2 DEF MgrOK
  <2> QED BY <1>3, <2>2, <2>4 DEF D
<1> QED BY <1>1, <1>2, <1>3

\* Dropping the handles of an entry and of its index.
LEMMA DerefTwice ==
  ASSUME NEW M, MgrOK(M), NEW t \in DOMAIN M.open, M.open[t] > 0
  PROVE  LET D == DerefTxn(DerefTxn(M, t), t) IN
         /\ MgrOK(D)
         /\ DOMAIN D.open = IF M.open[t] = 1 THEN DOMAIN M.open \ {t} ELSE DOMAIN M.open
         /\ \A i \in DOMAIN D.open : D.open[i] = IF i = t THEN M.open[i] - 2 ELSE M.open[i]
<1> DEFINE C == DerefTxn(M, t)
           D == DerefTxn(C, t)
<1>1. M.open[t] \in Nat BY DEF MgrOK
<1>2. /\ MgrOK(C)
      /\ DOMAIN C.open = DOMAIN M.open
      /\ \A i \in DOMAIN C.open : C.open[i] = IF i = t THEN M.open[i] - 1 ELSE M.open[i]
  <2>1. M.open[t] # 0 BY <1>1
  <2> QED BY <2>1, DerefOnce
<1> HIDE DEF C
<1>3. /\ MgrOK(D)
      /\ DOMAIN D.open = IF C.open[t] = 0 THEN DOMAIN C.open \ {t} ELSE DOMAIN C.open
      /\ \A i \in DOMAIN D.open : D.open[i] = IF i = t THEN C.open[i] - 1 ELSE C.open[i]
  BY <1>2, DerefOnce
<1> HIDE DEF D
<1>4. C.open[t] = M.open[t] - 1 BY <1>2
<1>5. \A i \in DOMAIN D.open : D.open[i] = IF i = t THEN M.open[i] - 2 ELSE M.open[i]
  BY <1>1, <1>2, <1>3, <1>4
<1>6. DOMAIN D.open = IF M.open[t] = 1 THEN DOMAIN M.open \ {t} ELSE DOMAIN M.open
  BY <1>1, <1>2, <1>3, <1>4
<1> QED BY <1>3, <1>5, <1>6 DEF C, D

\* A new transaction with one handle, and with the handles of an entry, its index and
\* a task.
LEMMA OpenNew ==
  ASSUME NEW M, MgrOK(M), CanOpen(M)
  PROVE  LET t == M.next_free
             O == TryOpenRaw(M)
             R == RefTxn(RefTxn(O, t), t) IN
         /\ t \in TxnId \ DOMAIN M.open
         /\ MgrOK(O) /\ DOMAIN O.open = DOMAIN M.open \cup {t} /\ O.open[t] = 0
         /\ \A i \in DOMAIN M.open : O.open[i] = M.open[i]
         /\ MgrOK(R) /\ DOMAIN R.open = DOMAIN M.open \cup {t} /\ R.open[t] = 2
         /\ \A i \in DOMAIN M.open : R.open[i] = M.open[i]
<1> DEFINE t == M.next_free
           O == TryOpenRaw(M)
           Q == RefTxn(O, t)
           R == RefTxn(Q, t)
<1>1. t \in TxnId \ DOMAIN M.open BY DEF MgrOK, CanOpen
<1>2. /\ O.open = [i \in DOMAIN M.open \cup {t} |-> IF i = t THEN 0 ELSE M.open[i]]
      /\ O \in [next_free : TxnId, open : {O.open}]
  <2>1. (t + 1) % TxnIds \in TxnId BY <1>1, TxnAssumption DEF TxnId
  <2> QED BY <2>1 DEF TryOpenRaw
<1> HIDE DEF O
<1>3. /\ MgrOK(O) /\ DOMAIN O.open = DOMAIN M.open \cup {t} /\ O.open[t] = 0
      /\ \A i \in DOMAIN M.open : O.open[i] = M.open[i]
  BY <1>1, <1>2 DEF MgrOK
<1>4. Q.open = [O.open EXCEPT ![t] = @ + 1] /\ Q \in [next_free : TxnId, open : {Q.open}]
  BY <1>3 DEF RefTxn, MgrOK
<1> HIDE DEF Q
<1>5. R.open = [Q.open EXCEPT ![t] = @ + 1] /\ R \in [next_free : TxnId, open : {R.open}]
  BY <1>4 DEF RefTxn
<1> HIDE DEF R
<1>6. Q.open \in [DOMAIN O.open -> Nat] /\ Q.open[t] = 1 /\ DOMAIN Q.open = DOMAIN O.open
      /\ \A i \in DOMAIN M.open : Q.open[i] = M.open[i]
  BY <1>1, <1>3, <1>4 DEF MgrOK
<1>7. R.open \in [DOMAIN O.open -> Nat] /\ R.open[t] = 2 /\ DOMAIN R.open = DOMAIN O.open
      /\ \A i \in DOMAIN M.open : R.open[i] = M.open[i]
  BY <1>1, <1>3, <1>5, <1>6
<1>8. MgrOK(R) BY <1>3, <1>5, <1>7 DEF MgrOK
<1> QED BY <1>1, <1>3, <1>7, <1>8 DEF O, Q, R

\* The handles of an entry go with it.
LEMMA EntryDropped ==
  ASSUME NEW M, MgrOK(M), NEW P, NEW T, DOMAIN P \subseteq TxnId, Handles(M, P, T),
         NEW t \in DOMAIN P
  PROVE  LET D == DerefTxn(DerefTxn(M, t), t) IN
         MgrOK(D) /\ Handles(D, Without(P, {t}), T)
<1> DEFINE D == DerefTxn(DerefTxn(M, t), t)
           Q == Without(P, {t})
<1>1. t \in TxnId /\ t \in DOMAIN M.open /\ M.open[t] \in {1, 2}
      /\ (M.open[t] = 2 <=> \E k \in T : k.txn = t)
  BY DEF Handles
<1>2. /\ MgrOK(D)
      /\ DOMAIN D.open = IF M.open[t] = 1 THEN DOMAIN M.open \ {t} ELSE DOMAIN M.open
      /\ \A i \in DOMAIN D.open : D.open[i] = IF i = t THEN M.open[i] - 2 ELSE M.open[i]
  BY <1>1, DerefTwice
<1>3. DOMAIN Q = DOMAIN P \ {t} BY DEF Without
<1> HIDE DEF D, Q
<1>4. Handles(D, Q, T) BY <1>1, <1>2, <1>3 DEF Handles
<1> QED BY <1>2, <1>4 DEF D, Q

\* The handle of a task goes with it.
LEMMA TaskDropped ==
  ASSUME NEW M, MgrOK(M), NEW P, NEW T, OneTask(T), Handles(M, P, T),
         NEW k \in T, k.txn \in TxnId
  PROVE  MgrOK(DerefTxn(M, k.txn)) /\ Handles(DerefTxn(M, k.txn), P, T \ {k})
<1> DEFINE D == DerefTxn(M, k.txn)
           t == k.txn
<1>1. t \in TxnId /\ t \in DOMAIN M.open /\ M.open[t] = IF t \in DOMAIN P THEN 2 ELSE 0
  BY DEF Handles
<1>2. /\ MgrOK(D)
      /\ DOMAIN D.open = IF M.open[t] = 0 THEN DOMAIN M.open \ {t} ELSE DOMAIN M.open
      /\ \A i \in DOMAIN D.open : D.open[i] = IF i = t THEN M.open[i] - 1 ELSE M.open[i]
  BY <1>1, DerefOnce
<1>3. \A l \in T \ {k} : l.txn # t BY DEF OneTask
<1> HIDE DEF D
<1>4. ASSUME NEW i \in TxnId, i # t
      PROVE (\E l \in T : l.txn = i) <=> (\E l \in T \ {k} : l.txn = i)
  BY <1>4
<1>5. Handles(D, P, T \ {k}) BY <1>1, <1>2, <1>3, <1>4 DEF Handles
<1> QED BY <1>2, <1>5 DEF D

\* A task that learns the status of its request stays the only one of its transaction.
LEMMA TaskResolved ==
  ASSUME OneTask(tasks), tasks \subseteq Tasks, NEW t \in TxnId, Waiting(t) \in tasks,
         NEW st \in {"acked", "canceled"}
  PROVE  /\ Resolved(t, st) \subseteq Tasks
         /\ OneTask(Resolved(t, st))
         /\ \A i \in TxnId : (\E k \in tasks : k.txn = i) <=> (\E k \in Resolved(t, st) : k.txn = i)
         /\ \A k : k \in Tasks /\ k.txn # t => (k \in tasks <=> k \in Resolved(t, st))
         /\ \A i \in TxnId : i # t =>
              /\ Waiting(i) \in tasks <=> Waiting(i) \in Resolved(t, st)
              /\ Canceled(i) \in tasks <=> Canceled(i) \in Resolved(t, st)
         /\ st = "acked" => Canceled(t) \notin Resolved(t, st)
         /\ st = "canceled" => Canceled(t) \in Resolved(t, st)
<1> DEFINE new == [txn |-> t, st |-> st]
<1>1. Resolved(t, st) = (tasks \ {Waiting(t)}) \cup {new} BY DEF Resolved, Waiting
<1>2. new \in Tasks /\ new.txn = t /\ Waiting(t).txn = t BY DEF Tasks, Waiting
<1>3. \A k \in tasks : k.txn = t => k = Waiting(t) BY <1>2 DEF OneTask
<1>4. Canceled(t) # Waiting(t) /\ (st = "acked" => Canceled(t) # new)
      /\ (st = "canceled" => Canceled(t) = new)
  BY DEF Canceled, Waiting
<1>5. \A i : Canceled(i).txn = i /\ Waiting(i).txn = i BY DEF Canceled, Waiting
<1> HIDE DEF new
<1> QED BY <1>1, <1>2, <1>3, <1>4, <1>5 DEF OneTask

\* A task or a request that is not there is not waited for.
LEMMA HandlesResolved ==
  ASSUME NEW M, NEW P, NEW T, NEW U, Handles(M, P, T),
         \A i \in TxnId : (\E k \in T : k.txn = i) <=> (\E k \in U : k.txn = i)
  PROVE  Handles(M, P, U)
BY DEF Handles

\* remove: the index and the transactions follow.
LEMMA RemoveKeeps ==
  ASSUME EltOK, PendingOK, TxnOK, IndexExact, Handles(txn_mgr, pending, tasks),
         NEW f \in DOMAIN elt, Remove(f)
  PROVE  /\ EltOK' /\ PendingOK' /\ TxnOK' /\ IndexExact'
         /\ Handles(txn_mgr', pending', tasks)
         /\ DOMAIN elt' = DOMAIN elt \ {f}
         /\ DOMAIN pending' = DOMAIN pending \ (IF elt[f].st = "Pending" THEN {elt[f].txn} ELSE {})
<1>1. DOMAIN elt' = DOMAIN elt \ {f} /\ \A g \in DOMAIN elt' : elt'[g] = elt[g]
  <2>1. elt' = Without(elt, {f}) BY DEF Remove
  <2>2. DOMAIN elt' = DOMAIN elt \ {f} BY <2>1, WithoutFacts
  <2> QED BY <2>1, <2>2, WithoutFacts, Zenon
<1>0. \A i : Pending(i).st = "Pending" /\ Pending(i).txn = i BY DEF Pending
<1>2. EltOK' BY <1>1 DEF EltOK
<1>3. CASE elt[f].st = "Pending"
  <2> DEFINE t == elt[f].txn
  <2>1. t \in DOMAIN pending /\ pending[t] = f BY <1>3 DEF IndexExact
  <2>2. pending' = Without(pending, {t}) /\ txn_mgr' = DerefTxn(DerefTxn(txn_mgr, t), t)
    BY <1>3 DEF Remove
  <2>3. DOMAIN pending \subseteq TxnId BY DEF PendingOK
  <2>4. TxnOK' /\ Handles(txn_mgr', pending', tasks)
    BY <2>1, <2>2, <2>3, EntryDropped DEF TxnOK
  <2>5. /\ DOMAIN pending' = DOMAIN pending \ {t}
        /\ \A i \in DOMAIN pending' : pending'[i] = pending[i]
    <3>1. DOMAIN pending' = DOMAIN pending \ {t} BY <2>2, WithoutFacts
    <3> QED BY <2>2, <3>1, WithoutFacts, Zenon
  <2> HIDE DEF t
  <2>6. PendingOK' BY <2>5 DEF PendingOK
  <2>7. \A i \in DOMAIN pending : pending[i] = f => i = t
    BY <1>0, <2>1 DEF IndexExact, t
  <2>8. IndexExact'
    <3>1. \A g \in DOMAIN elt' : elt'[g].st = "Pending" =>
              elt'[g].txn \in DOMAIN pending' /\ pending'[elt'[g].txn] = g
      BY <1>1, <2>1, <2>5 DEF IndexExact
    <3>2. \A i \in DOMAIN pending' : pending'[i] \in DOMAIN elt' /\ elt'[pending'[i]] = Pending(i)
      BY <1>1, <2>5, <2>7 DEF IndexExact
    <3> QED BY <3>1, <3>2 DEF IndexExact
  <2> QED BY <1>1, <1>2, <1>3, <2>4, <2>5, <2>6, <2>8 DEF t
<1>4. CASE elt[f].st # "Pending"
  <2>1. pending' = pending /\ txn_mgr' = txn_mgr BY <1>4 DEF Remove
  <2>2. \A i \in DOMAIN pending : pending[i] # f BY <1>0, <1>4 DEF IndexExact
  <2>3. IndexExact' BY <1>1, <2>1, <2>2 DEF IndexExact
  <2> QED BY <1>1, <1>2, <1>4, <2>1, <2>3 DEF PendingOK, TxnOK
<1> QED BY <1>3, <1>4

-------------------------------------------------------------------------------
(* What is expected, as messages come and go.                              *)

\* Nothing that concerns a transaction of the session comes or goes.
LEMMA ExpectedQuiet ==
  ASSUME NEW N, NEW P, NEW T, NEW s, Expected(N, P, T, s), NEW B,
         \A x \in DOMAIN B : Concerns(x, s) => x \in DOMAIN N /\ B[x] = N[x],
         \A x \in DOMAIN N : Concerns(x, s) => x \in DOMAIN B
  PROVE  Expected(B, P, T, s)
BY DEF Expected

\* Who is told of a cancellation, or should have been.
LEMMA ToldIs ==
  ASSUME NEW T, NEW O
  PROVE  \A i : Canceled(i) \in ToldOf(T, O) <=> (Canceled(i) \in T \/ i \in O)
<1>1. \A i, j : Canceled(i) = Canceled(j) => i = j BY DEF Canceled
<1> QED BY <1>1 DEF ToldOf

\* Only what tasks know of cancellations matters.
LEMMA ExpectedTasks ==
  ASSUME NEW N, NEW P, NEW T, NEW s, Expected(N, P, T, s), NEW U,
         \A t \in DOMAIN P : Canceled(t) \in T <=> Canceled(t) \in U
  PROVE  Expected(N, P, U, s)
BY DEF Expected

\* A message is answered by the next one of its transaction.
LEMMA ExpectedReply ==
  ASSUME NEW N, NEW P, NEW T, NEW s, Expected(N, P, T, s), IsABag(N),
         NEW m \in DOMAIN N, Concerns(m, s), NEW r, Concerns(r, s), r.txn = m.txn, r # m
  PROVE  Expected((N (-) SetToBag({m})) (+) SetToBag({r}), P, T, s)
<1> DEFINE A == N (-) SetToBag({m})
           B == A (+) SetToBag({r})
<1>1. N[m] = 1 /\ m.txn \in DOMAIN P /\ Canceled(m.txn) \notin T BY DEF Expected
<1>2. r \notin DOMAIN N BY DEF Expected
<1>3. IsABag(A) /\ DOMAIN A = DOMAIN N \ {m} /\ \A x \in DOMAIN N \ {m} : A[x] = N[x]
  BY <1>1, TakeOnly, Zenon
<1> HIDE DEF A
<1>4. DOMAIN B = DOMAIN A \cup {r} /\ B[r] = 1 /\ \A x \in DOMAIN A : B[x] = A[x]
  <2>1. r \notin DOMAIN A BY <1>2, <1>3
  <2> QED BY <1>3, <2>1, AddFresh, Zenon
<1> HIDE DEF B
<1>5. \A x \in DOMAIN B : Concerns(x, s) =>
          B[x] = 1 /\ x.txn \in DOMAIN P /\ Canceled(x.txn) \notin T
  BY <1>1, <1>3, <1>4 DEF Expected
<1>6. \A x \in DOMAIN A : Concerns(x, s) => x.txn # m.txn BY <1>3 DEF Expected
<1>7. \A x, y \in DOMAIN B : Concerns(x, s) /\ Concerns(y, s) /\ x.txn = y.txn => x = y
  <2>1. \A x, y \in DOMAIN A : Concerns(x, s) /\ Concerns(y, s) /\ x.txn = y.txn => x = y
    BY <1>3 DEF Expected
  <2> QED BY <1>4, <1>6, <2>1
<1>8. \A t \in DOMAIN P : Canceled(t) \in T \/ \E x \in DOMAIN B : Concerns(x, s) /\ x.txn = t
  BY <1>3, <1>4 DEF Expected
<1> QED BY <1>5, <1>7, <1>8 DEF Expected, A, B

\* The answer has come: the transaction is not pending any more.
LEMMA ExpectedTaken ==
  ASSUME NEW N, NEW P, NEW T, NEW s, Expected(N, P, T, s), IsABag(N),
         NEW m \in DOMAIN N, Concerns(m, s), NEW Q, DOMAIN Q = DOMAIN P \ {m.txn}
  PROVE  Expected(N (-) SetToBag({m}), Q, T, s)
<1> DEFINE A == N (-) SetToBag({m})
<1>1. N[m] = 1 BY DEF Expected
<1>2. DOMAIN A = DOMAIN N \ {m} /\ \A x \in DOMAIN N \ {m} : A[x] = N[x]
  BY <1>1, TakeOnly, Zenon
<1> HIDE DEF A
<1>3. Expected(A, Q, T, s) BY <1>2 DEF Expected
<1> QED BY <1>3 DEF A

\* A request is withdrawn and its task knows.
LEMMA ExpectedCanceled ==
  ASSUME NEW N, NEW P, NEW T, NEW s, Expected(N, P, T, s), IsABag(N),
         NEW m \in DOMAIN N, Concerns(m, s), NEW U, Canceled(m.txn) \in U,
         \A t \in DOMAIN P : t # m.txn => (Canceled(t) \in T <=> Canceled(t) \in U)
  PROVE  Expected(N (-) SetToBag({m}), P, U, s)
<1> DEFINE A == N (-) SetToBag({m})
<1>1. N[m] = 1 BY DEF Expected
<1>2. DOMAIN A = DOMAIN N \ {m} /\ \A x \in DOMAIN N \ {m} : A[x] = N[x]
  BY <1>1, TakeOnly, Zenon
<1> HIDE DEF A
<1>3. Expected(A, P, U, s) BY <1>2 DEF Expected
<1> QED BY <1>3 DEF A

\* A request is made.
LEMMA ExpectedAsked ==
  ASSUME NEW N, NEW P, NEW T, NEW s, Expected(N, P, T, s), IsABag(N),
         NEW m, Concerns(m, s), NEW Q, m.txn \notin DOMAIN P,
         DOMAIN Q = DOMAIN P \cup {m.txn},
         NEW U, \A t \in DOMAIN P : Canceled(t) \in T <=> Canceled(t) \in U,
         Canceled(m.txn) \notin U
  PROVE  Expected(N (+) SetToBag({m}), Q, U, s)
<1> DEFINE A == N (+) SetToBag({m})
<1>1. m \notin DOMAIN N BY DEF Expected
<1>2. DOMAIN A = DOMAIN N \cup {m} /\ A[m] = 1 /\ \A x \in DOMAIN N : A[x] = N[x]
  BY <1>1, AddFresh, Zenon
<1>3. \A x \in DOMAIN N : Concerns(x, s) => x.txn # m.txn BY DEF Expected
<1> HIDE DEF A
<1>4. Expected(A, Q, U, s) BY <1>1, <1>2, <1>3 DEF Expected
<1> QED BY <1>4 DEF A

\* Requests in flight, and the tasks that wait for them.
LEMMA BindsQuiet ==
  ASSUME NEW N, NEW T, BindsWaitFor(N, T), NEW B, NEW U,
         \A x \in DOMAIN B : x.kind = "bind" =>
            x \in DOMAIN N /\ B[x] = N[x] /\ (Waiting(x.txn) \in T => Waiting(x.txn) \in U)
  PROVE  BindsWaitFor(B, U)
BY DEF BindsWaitFor

-------------------------------------------------------------------------------
(* Messages.                                                               *)

\* What the fields of a message are.
LEMMA MessageFields ==
  ASSUME NEW m \in Messages
  PROVE  /\ m.kind \in {"bind", "grant", "deny", "withdraw", "unbind", "egress", "full", "tether"}
         /\ m.kind \in {"bind", "grant", "deny", "egress", "full", "tether"} => m.txn \in TxnId
         /\ m.kind \in {"bind", "grant", "egress", "full", "tether"} => m.flow \in Flows
         /\ m.kind \in {"egress", "full", "tether"} => m.ses \in Nat
         /\ m.kind \in {"grant", "withdraw", "unbind"} => m.id \in Streams
         /\ m.kind = "tether" => m.id \in Tethers
BY DEF Messages

\* The messages that are made.
LEMMA MessagesMade ==
  ASSUME NEW t \in TxnId, NEW f \in Flows, NEW i \in Streams, NEW h \in Tethers, NEW s \in Nat,
         NEW m, m.txn \in TxnId, m.flow \in Flows, m.ses \in Nat
  PROVE  /\ BindRequest(t, f) \in Messages /\ BindSuccess(t, i, f) \in Messages
         /\ BindError(t) \in Messages /\ StreamIdWithdrawal(i) \in Messages
         /\ UnbindIndication(i) \in Messages /\ EgressRequest(t, f, s) \in Messages
         /\ EgressSuccess(m, h) \in Messages /\ EgressError(m) \in Messages
BY DEF Messages, BindRequest, BindSuccess, BindError, StreamIdWithdrawal, UnbindIndication,
       EgressRequest, EgressSuccess, EgressError

\* Those that need no more than one of these.
LEMMA ErrorMade == \A t \in TxnId : BindError(t) \in Messages
BY DEF Messages, BindError

LEMMA WithdrawalMade ==
  \A i \in Streams : StreamIdWithdrawal(i) \in Messages /\ UnbindIndication(i) \in Messages
BY DEF Messages, StreamIdWithdrawal, UnbindIndication

\* A received message.
LEMMA ReceivedFacts ==
  ASSUME NetOK, NEW m \in DOMAIN net
  PROVE  /\ IsABag(Received(m)) /\ DOMAIN Received(m) \subseteq Messages
         /\ DOMAIN Received(m) \subseteq DOMAIN net
         /\ \A x \in DOMAIN net : x # m => x \in DOMAIN Received(m) /\ Received(m)[x] = net[x]
         /\ net[m] = 1 => m \notin DOMAIN Received(m)
<1>1. /\ IsABag(Received(m)) /\ DOMAIN Received(m) \subseteq DOMAIN net
      /\ \A x \in DOMAIN net : x # m => x \in DOMAIN Received(m) /\ Received(m)[x] = net[x]
      /\ net[m] = 1 => m \notin DOMAIN Received(m)
  BY TakeOne, Zenon DEF NetOK, Received
<1> QED BY <1>1 DEF NetOK

\* A message and the one that answers it.
LEMMA ReplyFacts ==
  ASSUME NetOK, NEW m \in DOMAIN net, NEW r \in Messages
  PROVE  /\ IsABag(Reply(m, r)) /\ DOMAIN Reply(m, r) \subseteq Messages
         /\ DOMAIN Reply(m, r) \subseteq DOMAIN net \cup {r}
         /\ \A x \in DOMAIN net : x \notin {m, r} =>
               x \in DOMAIN Reply(m, r) /\ Reply(m, r)[x] = net[x]
         /\ net[m] = 1 /\ r # m => m \notin DOMAIN Reply(m, r)
<1>1. /\ IsABag(Received(m)) /\ DOMAIN Received(m) \subseteq DOMAIN net
      /\ \A x \in DOMAIN net : x # m => x \in DOMAIN Received(m) /\ Received(m)[x] = net[x]
      /\ net[m] = 1 => m \notin DOMAIN Received(m)
  BY ReceivedFacts
<1>2. /\ IsABag(Reply(m, r))
      /\ DOMAIN Reply(m, r) = DOMAIN Received(m) \cup {r}
      /\ \A x \in DOMAIN Received(m) : x # r => Reply(m, r)[x] = Received(m)[x]
  <2> DEFINE N == Received(m)
  <2>1. IsABag(N) BY <1>1
  <2>2. Reply(m, r) = N (+) SetToBag({r}) BY DEF Reply
  <2> HIDE DEF N
  <2>3. /\ IsABag(N (+) SetToBag({r}))
        /\ DOMAIN (N (+) SetToBag({r})) = DOMAIN N \cup {r}
        /\ \A x \in DOMAIN N : x # r => (N (+) SetToBag({r}))[x] = N[x]
    BY <2>1, AddOne, Zenon
  <2> QED BY <2>2, <2>3, Zenon DEF N
<1> QED BY <1>1, <1>2 DEF NetOK

\* A message sent.
LEMMA SentFacts ==
  ASSUME NetOK, NEW m \in Messages
  PROVE  /\ IsABag(Sent(m)) /\ DOMAIN Sent(m) \subseteq Messages
         /\ DOMAIN Sent(m) = DOMAIN net \cup {m}
         /\ \A x \in DOMAIN net : x # m => Sent(m)[x] = net[x]
<1>1. /\ IsABag(Sent(m))
      /\ DOMAIN Sent(m) = DOMAIN net \cup {m}
      /\ \A x \in DOMAIN net : x # m => Sent(m)[x] = net[x]
  BY AddOne, Zenon DEF Sent, NetOK
<1> QED BY <1>1 DEF NetOK

\* A step that neither changes the tables and tasks nor any message of a transaction
\* of the session keeps what is expected.
LEMMA QuietNet ==
  ASSUME FlowInv, UNCHANGED <<tables, tasks, orphans, up, ses>>, node'.up => node.up,
         \A x \in DOMAIN net' :
            x.kind \notin {"withdraw", "unbind"} => x \in DOMAIN net /\ net'[x] = net[x],
         up /\ node.up => \A x \in DOMAIN net : Concerns(x, ses) => x \in DOMAIN net'
  PROVE  /\ EltOK' /\ PendingOK' /\ TxnOK' /\ tasks' \subseteq Tasks
         /\ IndexExact' /\ HandlesHeld' /\ BindsWait' /\ AllExpected'
         /\ SessionsOld' /\ DownIsEmpty'
<1> USE DEF tables
<1>1. EltOK' /\ PendingOK' /\ TxnOK' /\ tasks' \subseteq Tasks
  BY DEF FlowInv, TypeOK, EltOK, PendingOK, TxnOK
<1>2. IndexExact' /\ HandlesHeld' /\ DownIsEmpty'
  BY DEF FlowInv, IndexExact, HandlesHeld, DownIsEmpty
<1>3. BindsWait'
  <2>1. \A x \in DOMAIN net' : x.kind = "bind" => x \in DOMAIN net /\ net'[x] = net[x]
    OBVIOUS
  <2>2. up => BindsWaitFor(net', tasks) BY <2>1, BindsQuiet DEF FlowInv, BindsWait
  <2> QED BY <2>2 DEF BindsWait
<1>4. AllExpected'
  <2>1. \A x \in DOMAIN net' : Concerns(x, ses) => x \in DOMAIN net /\ net'[x] = net[x]
    BY DEF Concerns
  <2>2. up /\ node.up => Expected(net', pending, ToldOf(tasks, orphans), ses)
    BY <2>1, ExpectedQuiet DEF FlowInv, AllExpected
  <2> QED BY <2>2 DEF AllExpected
<1>5. SessionsOld' BY DEF FlowInv, SessionsOld
<1> QED BY <1>1, <1>2, <1>3, <1>4, <1>5

-------------------------------------------------------------------------------
(* The steps.                                                              *)

LEMMA InitFlowInv == Init => FlowInv
<1> SUFFICES ASSUME Init PROVE FlowInv OBVIOUS
<1>1. DOMAIN elt = {} /\ DOMAIN pending = {} /\ DOMAIN dlt = {} /\ DOMAIN node.pft = {}
      /\ node.up = FALSE /\ node \in [up : BOOLEAN, pft : {node.pft}, visas : SUBSET Flows]
  BY DEF Init, Empty
<1>2. DOMAIN net = {} /\ IsABag(net) BY DEF Init, EmptyBag, SetToBag, IsABag
<1>3. MgrOK(txn_mgr) /\ DOMAIN txn_mgr.open = {}
  <2>1. 0 \in TxnId BY TxnAssumption DEF TxnId
  <2> QED BY <2>1 DEF Init, NewTxnMgr, MgrOK
<1>4. TypeOK
  BY <1>1, <1>2, <1>3 DEF Init, TypeOK, EltOK, PendingOK, TxnOK, NetOK, NodeOK, DltOK
<1>5. HandlesHeld
  <2>1. tasks = {} BY DEF Init
  <2> QED BY <1>1, <1>3, <2>1 DEF HandlesHeld, Handles, OneTask
<1>6. ~up BY DEF Init
<1> QED BY <1>1, <1>2, <1>4, <1>5, <1>6
        DEF FlowInv, IndexExact, BindsWait, AllExpected, SessionsOld, DownIsEmpty

\* A packet that is sealed, forwarded or delivered changes no table.
LEMMA ActorOutputKeeps ==
  ASSUME FlowInv, NEW f \in Flows, ActorOutput(f) PROVE FlowInv'
<1>1. UNCHANGED <<tables, tasks, net, node, dlt, up, ses, history>> BY DEF ActorOutput
<1>2. pkts' \subseteq Packets
  <2>1. elt[f] \in Entries /\ elt[f].st = "Active" /\ pkts \subseteq Packets /\ ses \in Nat
    BY DEF ActorOutput, FlowInv, TypeOK, EltOK
  <2>2. elt[f].id \in Streams BY <2>1 DEF Entries
  <2>3. Seal(f, elt[f].id) \in Packets BY <2>1, <2>2 DEF Seal, Packets
  <2> QED BY <2>1, <2>3 DEF ActorOutput
<1>3. TypeOK' BY <1>1, <1>2 DEF FlowInv, TypeOK, EltOK, PendingOK, TxnOK, NetOK, NodeOK, DltOK, tables, history
<1>4. IndexExact' /\ HandlesHeld' /\ BindsWait' /\ AllExpected' /\ SessionsOld' /\ DownIsEmpty'
  BY <1>1, QuietNet DEF history
<1> QED BY <1>1, <1>3, <1>4 DEF FlowInv, history

LEMMA ForwardKeeps ==
  ASSUME FlowInv, NEW p \in pkts, Forward(p) PROVE FlowInv'
<1>1. UNCHANGED <<tables, tasks, net, node, dlt, up, ses, history>> BY DEF Forward
<1>2. pkts' \subseteq Packets
  <2>1. pkts \subseteq Packets /\ p.to = "node" BY DEF FlowInv, TypeOK, Forward
  <2>2. p.flow \in Flows BY <2>1 DEF Packets
  <2>3. ASSUME p.id \in DOMAIN node.pft
        PROVE  [to |-> "dest", id |-> node.pft[p.id].next_hop, flow |-> p.flow] \in Packets
    <3>1. node.pft[p.id] \in Routes BY <2>3 DEF FlowInv, TypeOK, NodeOK
    <3> QED BY <2>2, <3>1 DEF Routes, Packets
  <2> QED BY <2>1, <2>3 DEF Forward
<1>3. TypeOK' BY <1>1, <1>2 DEF FlowInv, TypeOK, EltOK, PendingOK, TxnOK, NetOK, NodeOK, DltOK, tables, history
<1>4. IndexExact' /\ HandlesHeld' /\ BindsWait' /\ AllExpected' /\ SessionsOld' /\ DownIsEmpty'
  BY <1>1, QuietNet DEF history
<1> QED BY <1>1, <1>3, <1>4 DEF FlowInv, history

LEMMA ActorInputKeeps ==
  ASSUME FlowInv, NEW p \in pkts, ActorInput(p) PROVE FlowInv'
<1>1. UNCHANGED <<tables, tasks, net, node, dlt, up, ses, history>> BY DEF ActorInput
<1>2. pkts' \subseteq Packets BY DEF FlowInv, TypeOK, ActorInput
<1>3. TypeOK' BY <1>1, <1>2 DEF FlowInv, TypeOK, EltOK, PendingOK, TxnOK, NetOK, NodeOK, DltOK, tables, history
<1>4. IndexExact' /\ HandlesHeld' /\ BindsWait' /\ AllExpected' /\ SessionsOld' /\ DownIsEmpty'
  BY <1>1, QuietNet DEF history
<1> QED BY <1>3, <1>4 DEF FlowInv

\* The node's end of the link goes down.
LEMMA NodeDownKeeps ==
  ASSUME FlowInv, NodeDown PROVE FlowInv'
<1>1. UNCHANGED <<tables, tasks, net, pkts, dlt, up, ses, history>> BY DEF NodeDown
<1>2. NodeOK' /\ node'.up = FALSE
  <2>1. node' = [up |-> FALSE, pft |-> Empty,
                 visas |-> node.visas \ {node.pft[s].flow : s \in DOMAIN node.pft}]
    BY DEF NodeDown
  <2>2. DOMAIN node'.pft = {} BY <2>1 DEF Empty
  <2> QED BY <2>1, <2>2 DEF FlowInv, TypeOK, NodeOK
<1>3. TypeOK' BY <1>1, <1>2 DEF FlowInv, TypeOK, EltOK, PendingOK, TxnOK, NetOK, DltOK, tables, history
<1>4. IndexExact' /\ HandlesHeld' /\ BindsWait' /\ AllExpected' /\ SessionsOld' /\ DownIsEmpty'
  BY <1>1, <1>2, QuietNet DEF history
<1> QED BY <1>1, <1>3, <1>4 DEF FlowInv, history

\* A node without some of its routes.
LEMMA RoutesGone ==
  ASSUME NodeOK, NEW S, NEW V \in SUBSET Flows,
         node' = [node EXCEPT !.visas = V, !.pft = Without(node.pft, S)]
  PROVE  NodeOK' /\ node'.up = node.up
<1>1. node'.pft = Without(node.pft, S) /\ node'.up = node.up
      /\ node' \in [up : BOOLEAN, pft : {node'.pft}, visas : SUBSET Flows]
  BY DEF NodeOK
<1>2. DOMAIN node'.pft = DOMAIN node.pft \ S BY <1>1, WithoutFacts
<1>3. \A x \in DOMAIN node'.pft : node'.pft[x] = node.pft[x]
  <2>1. node'.pft = Without(node.pft, S) BY <1>1
  <2>2. \A x \in DOMAIN node.pft \ S : Without(node.pft, S)[x] = node.pft[x] BY WithoutFacts, Zenon
  <2> QED BY <1>2, <2>1, <2>2, Zenon
<1> QED BY <1>1, <1>2, <1>3 DEF NodeOK

\* A visa is revoked.
LEMMA RevokeKeeps ==
  ASSUME FlowInv, NEW f \in Flows, Revoke(f) PROVE FlowInv'
<1> DEFINE S == {s \in DOMAIN node.pft : node.pft[s].flow = f}
           W == {StreamIdWithdrawal(s) : s \in S}
<1>1. UNCHANGED <<tables, tasks, pkts, dlt, up, ses, orphans, permitted, binds>> /\ revokes' = revokes + 1
  BY DEF Revoke
<1>2. net' = net (+) SetToBag(W)
      /\ node' = [node EXCEPT !.visas = node.visas \ {f}, !.pft = Without(node.pft, S)]
  BY DEF Revoke
<1>3. W \subseteq Messages /\ \A m \in W : m.kind = "withdraw"
  BY WithdrawalMade DEF FlowInv, TypeOK, NodeOK, StreamIdWithdrawal
<1> HIDE DEF S, W
<1>4. NetOK /\ NodeOK BY DEF FlowInv, TypeOK
<1>5. NodeOK' /\ node'.up = node.up
  <2>1. node.visas \ {f} \in SUBSET Flows BY <1>4 DEF NodeOK
  <2> QED BY <1>2, <1>4, <2>1, RoutesGone
<1>6. IsABag(net') /\ DOMAIN net' = DOMAIN net \cup W
      /\ \A x \in DOMAIN net : x \notin W => net'[x] = net[x]
  <2>1. IsABag(net) BY <1>4 DEF NetOK
  <2> QED BY <1>2, <2>1, AddMany, Zenon
<1>7. TypeOK'
  BY <1>1, <1>3, <1>4, <1>5, <1>6 DEF FlowInv, TypeOK, EltOK, PendingOK, TxnOK, NetOK, DltOK, tables
<1>8. IndexExact' /\ HandlesHeld' /\ BindsWait' /\ AllExpected' /\ SessionsOld' /\ DownIsEmpty'
  BY <1>1, <1>3, <1>5, <1>6, QuietNet
<1> QED BY <1>1, <1>7, <1>8 DEF FlowInv

\* A route is unbound.
LEMMA HandleUnbindIndicationKeeps ==
  ASSUME FlowInv, NEW s \in Streams, HandleUnbindIndication(s) PROVE FlowInv'
<1> DEFINE m == UnbindIndication(s)
<1>1. UNCHANGED <<tables, tasks, pkts, dlt, up, ses, orphans, permitted, binds>> /\ revokes' = revokes + 1
  BY DEF HandleUnbindIndication
<1>2. net' = Sent(m) /\ node' = [node EXCEPT !.pft = Without(node.pft, {s})]
  BY DEF HandleUnbindIndication, UnbindStream
<1>3. m \in Messages /\ m.kind = "unbind" BY WithdrawalMade DEF UnbindIndication
<1> HIDE DEF m
<1>4. NetOK /\ NodeOK BY DEF FlowInv, TypeOK
<1>5. NodeOK' /\ node'.up = node.up
  <2>1. node' = [node EXCEPT !.visas = node.visas, !.pft = Without(node.pft, {s})]
        /\ node.visas \in SUBSET Flows
    BY <1>2, <1>4 DEF NodeOK
  <2> QED BY <1>4, <2>1, RoutesGone
<1>6. IsABag(net') /\ DOMAIN net' = DOMAIN net \cup {m} /\ DOMAIN net' \subseteq Messages
      /\ \A x \in DOMAIN net : x # m => net'[x] = net[x]
  BY <1>2, <1>3, <1>4, SentFacts
<1>7. TypeOK'
  BY <1>1, <1>5, <1>6 DEF FlowInv, TypeOK, EltOK, PendingOK, TxnOK, NetOK, DltOK, tables
<1>8. IndexExact' /\ HandlesHeld' /\ BindsWait' /\ AllExpected' /\ SessionsOld' /\ DownIsEmpty'
  BY <1>1, <1>3, <1>5, <1>6, QuietNet
<1> QED BY <1>1, <1>7, <1>8 DEF FlowInv

\* A tether is unbound.
LEMMA UnbindEgressStreamKeeps ==
  ASSUME FlowInv, NEW m \in BagToSet(net), UnbindEgressStream(m) PROVE FlowInv'
<1>1. UNCHANGED <<tables, tasks, pkts, node, up, ses, history>> /\ net' = Received(m)
      /\ m.kind = "unbind" /\ m \in DOMAIN net /\ dlt' = Without(dlt, {m.id})
  BY DEF UnbindEgressStream, BagToSet, DltRemove
<1>2. IsABag(net') /\ DOMAIN net' \subseteq Messages /\ DOMAIN net' \subseteq DOMAIN net
      /\ \A x \in DOMAIN net : x # m => x \in DOMAIN net' /\ net'[x] = net[x]
  BY <1>1, ReceivedFacts DEF FlowInv, TypeOK
<1>3. DltOK'
  <2>1. DOMAIN dlt' = DOMAIN dlt \ {m.id} BY <1>1, WithoutFacts
  <2>2. \A x \in DOMAIN dlt' : dlt'[x] = dlt[x] BY <1>1, <2>1, WithoutFacts, Zenon
  <2> QED BY <2>1, <2>2 DEF FlowInv, TypeOK, DltOK
<1>4. TypeOK'
  BY <1>1, <1>2, <1>3 DEF FlowInv, TypeOK, EltOK, PendingOK, TxnOK, NetOK, NodeOK, tables, history
<1>5. ~Concerns(m, ses) BY <1>1 DEF Concerns
<1>6. IndexExact' /\ HandlesHeld' /\ BindsWait' /\ AllExpected' /\ SessionsOld' /\ DownIsEmpty'
  BY <1>1, <1>2, <1>5, QuietNet DEF history
<1> QED BY <1>1, <1>4, <1>6 DEF FlowInv, history

\* What was asked in the session is answered.
LEMMA ReplyKeeps ==
  ASSUME FlowInv, NEW m \in DOMAIN net, NEW r \in Messages, net' = Reply(m, r),
         UNCHANGED <<tables, orphans, up, ses>>, node'.up = node.up,
         tasks' \subseteq Tasks, OneTask(tasks'),
         \A i \in TxnId : (\E k \in tasks : k.txn = i) <=> (\E k \in tasks' : k.txn = i),
         \A i \in TxnId : Canceled(i) \in tasks <=> Canceled(i) \in tasks',
         \A i \in TxnId : Waiting(i) \in tasks =>
            Waiting(i) \in tasks' \/ (m.kind = "bind" /\ m.txn = i),
         r # m, r.txn = m.txn, r.kind \notin {"bind", "withdraw", "unbind"},
         r.kind \in {"egress", "tether", "full"} => r.ses <= ses,
         up /\ node.up => (Concerns(m, ses) <=> Concerns(r, ses))
  PROVE  /\ EltOK' /\ PendingOK' /\ TxnOK' /\ NetOK'
         /\ IndexExact' /\ HandlesHeld' /\ BindsWait' /\ AllExpected'
         /\ SessionsOld' /\ DownIsEmpty'
<1> USE DEF tables
<1>1. EltOK' /\ PendingOK' /\ TxnOK' BY DEF FlowInv, TypeOK, EltOK, PendingOK, TxnOK
<1>2. IndexExact' /\ DownIsEmpty' BY DEF FlowInv, IndexExact, DownIsEmpty
<1>3. HandlesHeld'
  <2>1. Handles(txn_mgr, pending, tasks) BY DEF FlowInv, HandlesHeld
  <2>2. Handles(txn_mgr, pending, tasks') BY <2>1, HandlesResolved
  <2> QED BY <2>2 DEF HandlesHeld
<1>4. NetOK BY DEF FlowInv, TypeOK
<1>5. /\ IsABag(net') /\ DOMAIN net' \subseteq Messages
      /\ DOMAIN net' \subseteq DOMAIN net \cup {r}
      /\ \A x \in DOMAIN net : x \notin {m, r} => x \in DOMAIN net' /\ net'[x] = net[x]
      /\ net[m] = 1 => m \notin DOMAIN net'
  BY <1>4, ReplyFacts
<1>6. NetOK' BY <1>5 DEF NetOK
<1>7. BindsWait'
  <2> SUFFICES ASSUME up PROVE BindsWaitFor(net', tasks') BY DEF BindsWait
  <2>1. BindsWaitFor(net, tasks) BY DEF FlowInv, BindsWait
  <2>2. ASSUME NEW x \in DOMAIN net', x.kind = "bind"
        PROVE  x \in DOMAIN net /\ net'[x] = net[x] /\ Waiting(x.txn) \in tasks'
    <3>1. x \in DOMAIN net /\ x # r BY <1>5, <2>2
    <3>2. Waiting(x.txn) \in tasks /\ net[x] = 1 BY <2>1, <2>2, <3>1 DEF BindsWaitFor
    <3>3. x # m BY <1>5, <2>2, <3>2
    <3>4. x.txn \in TxnId BY <1>5, <2>2, MessageFields
    <3>5. m.kind = "bind" => x.txn # m.txn BY <2>1, <2>2, <3>1, <3>3 DEF BindsWaitFor
    <3> QED BY <1>5, <3>1, <3>2, <3>3, <3>4, <3>5
  <2> QED BY <2>1, <2>2, BindsQuiet
<1>8. AllExpected'
  <2> SUFFICES ASSUME up, node.up PROVE Expected(net', pending, ToldOf(tasks', orphans), ses)
    BY DEF AllExpected
  <2>1. Expected(net, pending, ToldOf(tasks, orphans), ses) BY DEF FlowInv, AllExpected
  <2>2. Expected(net', pending, ToldOf(tasks, orphans), ses)
    <3>1. CASE Concerns(m, ses)
      <4>1. Concerns(r, ses) /\ IsABag(net) BY <1>4, <3>1 DEF NetOK
      <4>2. net' = (net (-) SetToBag({m})) (+) SetToBag({r}) BY DEF Reply, Received
      <4>3. Expected((net (-) SetToBag({m})) (+) SetToBag({r}), pending, ToldOf(tasks, orphans), ses)
        BY <2>1, <3>1, <4>1, ExpectedReply
      <4> QED BY <4>2, <4>3
    <3>2. CASE ~Concerns(m, ses)
      BY <1>5, <2>1, <3>2, ExpectedQuiet
    <3> QED BY <3>1, <3>2
  <2>3. DOMAIN pending \subseteq TxnId BY DEF FlowInv, TypeOK, PendingOK
  <2>4. \A i \in DOMAIN pending : Canceled(i) \in ToldOf(tasks, orphans)
                                  <=> Canceled(i) \in ToldOf(tasks', orphans)
    BY <2>3, ToldIs
  <2> QED BY <2>2, <2>4, ExpectedTasks
<1>9. SessionsOld' BY <1>5 DEF FlowInv, SessionsOld
<1> QED BY <1>1, <1>2, <1>3, <1>6, <1>7, <1>8, <1>9

\* The node takes a bind request: it denies it, or asks the destination.
LEMMA BindActorAddressKeeps ==
  ASSUME FlowInv, NEW m \in BagToSet(net), BindActorAddress(m) PROVE FlowInv'
<1>1. UNCHANGED <<tables, pkts, dlt, up, ses, orphans, revokes, binds>> /\ m.kind = "bind"
      /\ m \in DOMAIN net /\ node.up /\ tasks' = IF up THEN Resolved(m.txn, "acked") ELSE tasks
  BY DEF BindActorAddress, BagToSet
<1>2. m \in Messages /\ m.txn \in TxnId /\ m.flow \in Flows /\ NetOK /\ NodeOK /\ ses \in Nat
  BY <1>1, MessageFields DEF FlowInv, TypeOK, NetOK
<1>3. /\ tasks' \subseteq Tasks /\ OneTask(tasks')
      /\ \A i \in TxnId : (\E k \in tasks : k.txn = i) <=> (\E k \in tasks' : k.txn = i)
      /\ \A i \in TxnId : Canceled(i) \in tasks <=> Canceled(i) \in tasks'
      /\ \A i \in TxnId : Waiting(i) \in tasks => Waiting(i) \in tasks' \/ m.txn = i
  <2>1. OneTask(tasks) /\ tasks \subseteq Tasks BY DEF FlowInv, TypeOK, HandlesHeld
  <2>2. CASE up
    <3>1. Waiting(m.txn) \in tasks BY <1>1, <2>2 DEF FlowInv, BindsWait, BindsWaitFor
    <3>2. Canceled(m.txn) \notin tasks
      <4>1. Canceled(m.txn) # Waiting(m.txn) /\ Canceled(m.txn).txn = Waiting(m.txn).txn
        BY DEF Canceled, Waiting
      <4> QED BY <2>1, <3>1, <4>1 DEF OneTask
    <3> QED BY <1>1, <1>2, <2>1, <2>2, <3>1, <3>2, TaskResolved
  <2>3. CASE ~up BY <1>1, <2>1, <2>3
  <2> QED BY <2>2, <2>3
<1> DEFINE Answer(r) ==
         /\ net' = Reply(m, r) /\ r # m /\ r.txn = m.txn /\ r.kind \in {"deny", "egress"}
         /\ r.kind = "egress" => r.ses = ses
         /\ NodeOK' /\ node'.up = node.up /\ permitted' \subseteq Flows
<1>4. \E r \in Messages : Answer(r)
  <2>0. permitted \subseteq Flows BY DEF FlowInv, TypeOK
  <2>1. CASE net' = Reply(m, BindError(m.txn)) /\ UNCHANGED <<node, permitted>>
    <3>1. BindError(m.txn) \in Messages BY <1>2, ErrorMade
    <3>2. BindError(m.txn).kind = "deny" /\ BindError(m.txn).txn = m.txn BY DEF BindError
    <3> QED BY <1>1, <1>2, <2>0, <2>1, <3>1, <3>2 DEF NodeOK
  <2>2. ASSUME NEW v \in VisaFor[m.flow],
               node' = [node EXCEPT !.visas = @ \cup {v}],
               permitted' = permitted \cup {v},
               net' = Reply(m, EgressRequest(m.txn, v, ses))
        PROVE  \E r \in Messages : Answer(r)
    <3> DEFINE q == EgressRequest(m.txn, v, ses)
    <3>1. v \in Flows BY <1>2, FlowsAssumption
    <3>2. q.kind = "egress" /\ q.txn = m.txn /\ q.ses = ses BY DEF EgressRequest
    <3>3. q \in Messages BY <1>2, <3>1 DEF EgressRequest, Messages
    <3>4. NodeOK' /\ node'.up = node.up /\ permitted' \subseteq Flows
      BY <1>2, <2>0, <2>2, <3>1 DEF NodeOK
    <3> HIDE DEF q
    <3>5. q # m BY <1>1, <3>2
    <3>6. net' = Reply(m, q) BY <2>2 DEF q
    <3>7. Answer(q) BY <3>2, <3>3, <3>4, <3>5, <3>6
    <3> QED BY <3>3, <3>7
  <2> HIDE DEF Answer
  <2>3. \/ net' = Reply(m, BindError(m.txn)) /\ UNCHANGED <<node, permitted>>
        \/ \E v \in VisaFor[m.flow] :
             /\ node' = [node EXCEPT !.visas = @ \cup {v}]
             /\ permitted' = permitted \cup {v}
             /\ net' = Reply(m, EgressRequest(m.txn, v, ses))
    BY DEF BindActorAddress
  <2> QED BY <2>1, <2>2, <2>3
<1>5. PICK r \in Messages : Answer(r) BY <1>4
<1>6. Concerns(m, ses) /\ Concerns(r, ses) BY <1>1, <1>5 DEF Concerns
<1>7. /\ EltOK' /\ PendingOK' /\ TxnOK' /\ NetOK'
      /\ IndexExact' /\ HandlesHeld' /\ BindsWait' /\ AllExpected'
      /\ SessionsOld' /\ DownIsEmpty'
  <2>1. r.kind \in {"egress", "tether", "full"} => r.ses <= ses BY <1>2, <1>5
  <2> QED BY <1>1, <1>2, <1>3, <1>5, <1>6, <2>1, ReplyKeeps
<1>8. TypeOK' BY <1>1, <1>3, <1>5, <1>7 DEF FlowInv, TypeOK, DltOK
<1> QED BY <1>1, <1>7, <1>8 DEF FlowInv

\* Tasks that do not change.
LEMMA SameTasks ==
  ASSUME FlowInv, tasks' = tasks
  PROVE  /\ tasks' \subseteq Tasks /\ OneTask(tasks')
         /\ \A i \in TxnId : (\E k \in tasks : k.txn = i) <=> (\E k \in tasks' : k.txn = i)
         /\ \A i \in TxnId : Canceled(i) \in tasks <=> Canceled(i) \in tasks'
         /\ \A i \in TxnId : Waiting(i) \in tasks => Waiting(i) \in tasks'
BY DEF FlowInv, TypeOK, HandlesHeld

\* The destination's answer reaches the node.
LEMMA RequestedTetherGrantedKeeps ==
  ASSUME FlowInv, NEW m \in BagToSet(net), RequestedTetherGranted(m) PROVE FlowInv'
<1> DEFINE room == Streams \ DOMAIN node.pft
           s == CHOOSE x \in room : TRUE
<1>1. UNCHANGED <<tables, tasks, pkts, dlt, up, ses, history>> /\ m.kind \in {"tether", "full"}
      /\ m \in DOMAIN net
  BY DEF RequestedTetherGranted, BagToSet
<1>2. m \in Messages /\ m.txn \in TxnId /\ m.flow \in Flows /\ m.ses \in Nat /\ NetOK /\ NodeOK
      /\ ses \in Nat /\ (m.kind = "tether" => m.id \in Tethers)
  BY <1>1, MessageFields DEF FlowInv, TypeOK, NetOK
<1>3. CASE (~node.up \/ m.ses # ses) /\ net' = Received(m) /\ UNCHANGED node
  <2>1. IsABag(net') /\ DOMAIN net' \subseteq Messages /\ DOMAIN net' \subseteq DOMAIN net
        /\ \A x \in DOMAIN net : x # m => x \in DOMAIN net' /\ net'[x] = net[x]
    BY <1>1, <1>2, <1>3, ReceivedFacts
  <2>2. TypeOK'
    BY <1>1, <1>3, <2>1 DEF FlowInv, TypeOK, EltOK, PendingOK, TxnOK, NetOK, NodeOK, DltOK, tables, history
  <2>3. BindsWait'
    <3>1. \A x \in DOMAIN net' : x.kind = "bind" => x \in DOMAIN net /\ net'[x] = net[x]
      BY <1>1, <2>1
    <3>2. up => BindsWaitFor(net', tasks) BY <3>1, BindsQuiet DEF FlowInv, BindsWait
    <3> QED BY <1>1, <3>2 DEF BindsWait
  <2>4. AllExpected'
    <3> SUFFICES ASSUME up, node.up PROVE Expected(net', pending, ToldOf(tasks, orphans), ses)
      BY <1>1, <1>3 DEF AllExpected, tables, history
    <3>1. ~Concerns(m, ses) BY <1>1, <1>3 DEF Concerns
    <3>2. Expected(net, pending, ToldOf(tasks, orphans), ses) BY DEF FlowInv, AllExpected
    <3> QED BY <2>1, <3>1, <3>2, ExpectedQuiet
  <2>5. IndexExact' /\ HandlesHeld' /\ DownIsEmpty' /\ SessionsOld'
    BY <1>1, <2>1 DEF FlowInv, IndexExact, HandlesHeld, DownIsEmpty, SessionsOld,
                      tables, history
  <2> QED BY <2>2, <2>3, <2>4, <2>5 DEF FlowInv
<1> DEFINE Answer(r) ==
         /\ net' = Reply(m, r) /\ r # m /\ r.txn = m.txn /\ r.kind \in {"deny", "grant"}
         /\ NodeOK' /\ node'.up = node.up
<1>4. ASSUME m.ses = ses, NEW r \in Messages, Answer(r) PROVE FlowInv'
  <2>1. Concerns(m, ses) /\ Concerns(r, ses) BY <1>1, <1>4 DEF Concerns
  <2>2. /\ tasks' \subseteq Tasks /\ OneTask(tasks')
        /\ \A i \in TxnId : (\E k \in tasks : k.txn = i) <=> (\E k \in tasks' : k.txn = i)
        /\ \A i \in TxnId : Canceled(i) \in tasks <=> Canceled(i) \in tasks'
        /\ \A i \in TxnId : Waiting(i) \in tasks => Waiting(i) \in tasks'
    BY <1>1, SameTasks
  <2>3. /\ EltOK' /\ PendingOK' /\ TxnOK' /\ NetOK'
        /\ IndexExact' /\ HandlesHeld' /\ BindsWait' /\ AllExpected'
        /\ SessionsOld' /\ DownIsEmpty'
    BY <1>1, <1>2, <1>4, <2>1, <2>2, ReplyKeeps DEF history
  <2>4. TypeOK' BY <1>1, <1>4, <2>2, <2>3 DEF FlowInv, TypeOK, DltOK, history
  <2> QED BY <1>1, <2>3, <2>4 DEF FlowInv, history
<1>5. CASE m.ses = ses /\ net' = Reply(m, BindError(m.txn)) /\ UNCHANGED node
  <2>1. BindError(m.txn) \in Messages /\ BindError(m.txn).kind = "deny"
        /\ BindError(m.txn).txn = m.txn
    BY <1>2, ErrorMade DEF BindError
  <2>2. Answer(BindError(m.txn)) BY <1>1, <1>2, <1>5, <2>1 DEF NodeOK
  <2> QED BY <1>4, <1>5, <2>1, <2>2
<1>6. CASE /\ m.ses = ses /\ m.kind = "tether" /\ room # {}
           /\ node' = [node EXCEPT !.pft = Put(@, s, [flow |-> m.flow, next_hop |-> m.id])]
           /\ net' = Reply(m, BindSuccess(m.txn, s, m.flow))
  <2> DEFINE g == BindSuccess(m.txn, s, m.flow)
             e == [flow |-> m.flow, next_hop |-> m.id]
  <2>1. s \in Streams BY <1>6
  <2> HIDE DEF s
  <2>2. g \in Messages /\ g.kind = "grant" /\ g.txn = m.txn
    BY <1>2, <2>1 DEF BindSuccess, Messages
  <2>3. NodeOK' /\ node'.up = node.up
    <3>1. node'.pft = Put(node.pft, s, e) /\ node'.up = node.up
          /\ node' \in [up : BOOLEAN, pft : {node'.pft}, visas : SUBSET Flows]
      BY <1>2, <1>6 DEF NodeOK
    <3>2. e \in Routes BY <1>2, <1>6 DEF Routes
    <3> HIDE DEF e
    <3>3. DOMAIN node'.pft = DOMAIN node.pft \cup {s} BY <3>1 DEF Put
    <3>4. node'.pft = Put(node.pft, s, e) BY <3>1
    <3>5. /\ Put(node.pft, s, e)[s] = e
          /\ \A x \in DOMAIN node.pft : x # s => Put(node.pft, s, e)[x] = node.pft[x]
      BY DEF Put
    <3>6. \A x \in DOMAIN node'.pft : node'.pft[x] = e \/ (x \in DOMAIN node.pft /\ node'.pft[x] = node.pft[x])
      BY <3>3, <3>4, <3>5, Zenon
    <3> QED BY <1>2, <2>1, <3>1, <3>2, <3>3, <3>6 DEF NodeOK
  <2>4. Answer(g) BY <1>1, <1>6, <2>2, <2>3
  <2> QED BY <1>4, <1>6, <2>2, <2>4
<1> QED BY <1>3, <1>5, <1>6 DEF RequestedTetherGranted

\* The destination binds a tether, or has no room for one.
LEMMA BindEgressStreamKeeps ==
  ASSUME FlowInv, NEW m \in BagToSet(net), BindEgressStream(m) PROVE FlowInv'
<1> DEFINE room == Tethers \ DOMAIN dlt
           id == CHOOSE x \in room : TRUE
<1>1. UNCHANGED <<tables, tasks, pkts, node, up, ses, history>> /\ m.kind = "egress"
      /\ m \in DOMAIN net
  BY DEF BindEgressStream, EgressRequests, BagToSet
<1>2. m \in Messages /\ m.txn \in TxnId /\ m.flow \in Flows /\ m.ses \in Nat /\ NetOK /\ DltOK
      /\ ses \in Nat /\ m.ses <= ses
  BY <1>1, MessageFields DEF FlowInv, TypeOK, NetOK, SessionsOld
<1> DEFINE Answer(r) ==
         /\ net' = Reply(m, r) /\ r.txn = m.txn /\ r.kind \in {"tether", "full"}
         /\ r.ses = m.ses /\ DltOK'
<1>3. ASSUME NEW r \in Messages, Answer(r) PROVE FlowInv'
  <2>1. Concerns(m, ses) <=> Concerns(r, ses) BY <1>1, <1>3 DEF Concerns
  <2>2. /\ tasks' \subseteq Tasks /\ OneTask(tasks')
        /\ \A i \in TxnId : (\E k \in tasks : k.txn = i) <=> (\E k \in tasks' : k.txn = i)
        /\ \A i \in TxnId : Canceled(i) \in tasks <=> Canceled(i) \in tasks'
        /\ \A i \in TxnId : Waiting(i) \in tasks => Waiting(i) \in tasks'
    BY <1>1, SameTasks
  <2>3. /\ EltOK' /\ PendingOK' /\ TxnOK' /\ NetOK'
        /\ IndexExact' /\ HandlesHeld' /\ BindsWait' /\ AllExpected'
        /\ SessionsOld' /\ DownIsEmpty'
    <3>1. r # m BY <1>1, <1>3
    <3> QED BY <1>1, <1>2, <1>3, <2>1, <2>2, <3>1, ReplyKeeps DEF history
  <2>4. TypeOK' BY <1>1, <1>3, <2>2, <2>3 DEF FlowInv, TypeOK, NodeOK, history
  <2> QED BY <1>1, <2>3, <2>4 DEF FlowInv, history
<1>4. CASE room = {}
  <2>1. net' = Reply(m, EgressError(m)) /\ dlt' = dlt BY <1>4 DEF BindEgressStream
  <2>2. EgressError(m) \in Messages /\ EgressError(m).kind = "full"
        /\ EgressError(m).txn = m.txn /\ EgressError(m).ses = m.ses
    BY <1>2 DEF EgressError, Messages
  <2>3. Answer(EgressError(m)) BY <1>2, <2>1, <2>2 DEF DltOK
  <2> QED BY <1>3, <2>2, <2>3
<1>5. CASE room # {}
  <2> DEFINE g == EgressSuccess(m, id)
  <2>1. net' = Reply(m, g) /\ dlt' = Put(dlt, id, m.flow)
    BY <1>5 DEF BindEgressStream, DltInsert
  <2>2. id \in Tethers BY <1>5
  <2> HIDE DEF id
  <2>3. g \in Messages /\ g.kind = "tether" /\ g.txn = m.txn /\ g.ses = m.ses
    BY <1>2, <2>2 DEF EgressSuccess, Messages
  <2>4. DltOK'
    <3>1. DOMAIN dlt' = DOMAIN dlt \cup {id} BY <2>1, PutFacts
    <3>2. \A x \in DOMAIN dlt' : dlt'[x] = m.flow \/ (x \in DOMAIN dlt /\ dlt'[x] = dlt[x])
      <4>1. dlt' = Put(dlt, id, m.flow) BY <2>1
      <4>2. /\ Put(dlt, id, m.flow)[id] = m.flow
            /\ \A x \in DOMAIN dlt : x # id => Put(dlt, id, m.flow)[x] = dlt[x]
        BY DEF Put
      <4> QED BY <3>1, <4>1, <4>2, Zenon
    <3> QED BY <1>2, <2>2, <3>1, <3>2 DEF DltOK
  <2>5. Answer(g) BY <2>1, <2>3, <2>4
  <2> QED BY <1>3, <2>3, <2>5
<1> QED BY <1>4, <1>5

\* limit_retries withdraws a request; its task learns of it.
LEMMA GiveUpKeeps ==
  ASSUME FlowInv, NEW m \in BagToSet(net), GiveUp(m) PROVE FlowInv'
<1>1. UNCHANGED <<tables, pkts, node, dlt, up, ses, permitted, revokes, binds>> /\ up
      /\ m.kind = "bind" /\ m \in DOMAIN net /\ net' = Received(m)
  BY DEF GiveUp, BagToSet
<1>0. PICK st \in {"acked", "canceled"} :
        /\ tasks' = Resolved(m.txn, st)
        /\ orphans' = IF st = "acked" THEN orphans \cup {m.txn} ELSE orphans
  BY DEF GiveUp
<1>2. m.txn \in TxnId /\ NetOK BY <1>1, MessageFields DEF FlowInv, TypeOK, NetOK
<1>3. BindsWaitFor(net, tasks) BY <1>1 DEF FlowInv, BindsWait
<1>4. net[m] = 1 /\ Waiting(m.txn) \in tasks BY <1>1, <1>3 DEF BindsWaitFor
<1>5. IsABag(net') /\ DOMAIN net' \subseteq Messages /\ DOMAIN net' = DOMAIN net \ {m}
      /\ \A x \in DOMAIN net' : net'[x] = net[x]
  BY <1>1, <1>2, <1>4, ReceivedFacts
<1>6. /\ tasks' \subseteq Tasks /\ OneTask(tasks')
      /\ Canceled(m.txn) \in tasks' \/ m.txn \in orphans'
      /\ \A i \in TxnId : (\E k \in tasks : k.txn = i) <=> (\E k \in tasks' : k.txn = i)
      /\ \A i \in TxnId : i # m.txn => /\ Waiting(i) \in tasks <=> Waiting(i) \in tasks'
                                       /\ Canceled(i) \in tasks <=> Canceled(i) \in tasks'
  <2>1. OneTask(tasks) /\ tasks \subseteq Tasks BY DEF FlowInv, TypeOK, HandlesHeld
  <2> QED BY <1>0, <1>2, <1>4, <2>1, TaskResolved
<1>7. TypeOK'
  BY <1>0, <1>1, <1>2, <1>5, <1>6 DEF FlowInv, TypeOK, EltOK, PendingOK, TxnOK, NetOK, NodeOK, DltOK, tables, history
<1>8. HandlesHeld'
  <2>1. Handles(txn_mgr, pending, tasks) BY DEF FlowInv, HandlesHeld
  <2>2. Handles(txn_mgr, pending, tasks') BY <1>6, <2>1, HandlesResolved
  <2> QED BY <1>1, <1>6, <2>2 DEF HandlesHeld, tables
<1>9. BindsWait'
  <2>1. ASSUME NEW x \in DOMAIN net', x.kind = "bind"
        PROVE  x \in DOMAIN net /\ net'[x] = net[x] /\ Waiting(x.txn) \in tasks'
    <3>1. x \in DOMAIN net /\ x # m /\ net'[x] = net[x] BY <1>5, <2>1
    <3>2. x.txn # m.txn /\ Waiting(x.txn) \in tasks BY <1>1, <1>3, <2>1, <3>1 DEF BindsWaitFor
    <3>3. x.txn \in TxnId BY <1>5, <2>1, MessageFields
    <3> QED BY <1>6, <3>1, <3>2, <3>3
  <2>2. BindsWaitFor(net', tasks') BY <1>3, <2>1, BindsQuiet
  <2> QED BY <2>2 DEF BindsWait
<1>10. AllExpected'
  <2> DEFINE U == ToldOf(tasks', orphans')
  <2> SUFFICES ASSUME node.up PROVE Expected(net', pending, U, ses)
    BY <1>1 DEF AllExpected, tables
  <2>1. Expected(net, pending, ToldOf(tasks, orphans), ses) BY <1>1 DEF FlowInv, AllExpected
  <2>2. Concerns(m, ses) BY <1>1 DEF Concerns
  <2>3. \A t \in DOMAIN pending : t # m.txn =>
           (Canceled(t) \in ToldOf(tasks, orphans) <=> Canceled(t) \in U)
    BY <1>0, <1>6, ToldIs DEF FlowInv, TypeOK, PendingOK
  <2>4. IsABag(net) /\ Canceled(m.txn) \in U BY <1>2, <1>6, ToldIs DEF NetOK
  <2> HIDE DEF U
  <2>5. Expected(net (-) SetToBag({m}), pending, U, ses)
    BY <1>1, <2>1, <2>2, <2>3, <2>4, ExpectedCanceled
  <2> QED BY <1>1, <2>5 DEF Received
<1>11. IndexExact' /\ DownIsEmpty' /\ SessionsOld'
  BY <1>1, <1>5 DEF FlowInv, IndexExact, DownIsEmpty, SessionsOld, tables, history
<1> QED BY <1>7, <1>8, <1>9, <1>10, <1>11 DEF FlowInv

\* The adapter manager asks for a tether, or finds that the flow has an entry by now.
LEMMA DoRequestTetherIdKeeps ==
  ASSUME FlowInv, NEW f \in Flows, DoRequestTetherId(f) PROVE FlowInv'
<1> DEFINE t == txn_mgr.next_free
           O == TryOpenRaw(txn_mgr)
           R == RefTxn(RefTxn(O, t), t)
<1>1. UNCHANGED <<pkts, node, dlt, up, ses, permitted, revokes>> /\ up /\ CanOpen(txn_mgr)
  BY DEF DoRequestTetherId
<1>2. MgrOK(txn_mgr) /\ NetOK BY DEF FlowInv, TypeOK, TxnOK
<1>3. /\ t \in TxnId \ DOMAIN txn_mgr.open
      /\ MgrOK(O) /\ DOMAIN O.open = DOMAIN txn_mgr.open \cup {t} /\ O.open[t] = 0
      /\ \A i \in DOMAIN txn_mgr.open : O.open[i] = txn_mgr.open[i]
      /\ MgrOK(R) /\ DOMAIN R.open = DOMAIN txn_mgr.open \cup {t} /\ R.open[t] = 2
      /\ \A i \in DOMAIN txn_mgr.open : R.open[i] = txn_mgr.open[i]
  BY <1>1, <1>2, OpenNew
<1>4. Handles(txn_mgr, pending, tasks) /\ OneTask(tasks) /\ tasks \subseteq Tasks
  BY DEF FlowInv, HandlesHeld, TypeOK
<1>5. t \notin DOMAIN pending /\ \A k \in tasks : k.txn # t BY <1>3, <1>4 DEF Handles
<1>6. CASE ~Vacant(f)
  <2>1. txn_mgr' = DerefTxn(O, t) /\ UNCHANGED <<elt, pending, tasks, net, orphans, binds>>
    BY <1>6 DEF DoRequestTetherId
  <2> HIDE DEF O, R
  <2>2. /\ MgrOK(txn_mgr') /\ DOMAIN txn_mgr'.open = DOMAIN O.open \ {t}
        /\ \A i \in DOMAIN txn_mgr'.open : txn_mgr'.open[i] = IF i = t THEN O.open[i] - 1 ELSE O.open[i]
    <3>1. t \in DOMAIN O.open /\ O.open[t] = 0 BY <1>3
    <3>2. MgrOK(O) BY <1>3
    <3> HIDE DEF t
    <3>3. /\ MgrOK(DerefTxn(O, t)) /\ DOMAIN DerefTxn(O, t).open = DOMAIN O.open \ {t}
          /\ \A i \in DOMAIN DerefTxn(O, t).open :
                DerefTxn(O, t).open[i] = IF i = t THEN O.open[i] - 1 ELSE O.open[i]
      BY <3>1, <3>2, DerefOnce
    <3> QED BY <2>1, <3>3
  <2> HIDE DEF t
  <2>3. DOMAIN txn_mgr'.open = DOMAIN txn_mgr.open
        /\ \A i \in DOMAIN txn_mgr.open : txn_mgr'.open[i] = txn_mgr.open[i]
    BY <1>3, <2>2
  <2>4. HandlesHeld' BY <1>4, <2>1, <2>3 DEF HandlesHeld, Handles
  <2>5. TypeOK'
    BY <1>1, <2>1, <2>2 DEF FlowInv, TypeOK, EltOK, PendingOK, TxnOK, NetOK, NodeOK, DltOK
  <2>6. IndexExact' /\ BindsWait' /\ AllExpected' /\ SessionsOld' /\ DownIsEmpty'
    BY <1>1, <2>1 DEF FlowInv, IndexExact, BindsWait, AllExpected, SessionsOld, DownIsEmpty
  <2> QED BY <2>4, <2>5, <2>6 DEF FlowInv
<1>7. CASE Vacant(f)
  <2> DEFINE m == BindRequest(t, f)
  <2>1. /\ binds' = binds + 1 /\ txn_mgr' = R
        /\ elt' = Put(elt, f, Pending(t)) /\ pending' = Put(pending, t, f)
        /\ tasks' = tasks \cup {Waiting(t)} /\ net' = Sent(m) /\ f \notin DOMAIN elt
        /\ orphans' = orphans \ {t}
    BY <1>7 DEF DoRequestTetherId, Waiting, Vacant
  <2>2. m \in Messages /\ m.kind = "bind" /\ m.txn = t BY <1>3 DEF BindRequest, Messages
  <2>3. Waiting(t) \in Tasks /\ Waiting(t).txn = t /\ \A i : Canceled(i) # Waiting(t)
    BY <1>3 DEF Waiting, Tasks, Canceled
  <2>4. Pending(t) \in Entries /\ Pending(t).st = "Pending" /\ Pending(t).txn = t
    BY <1>3 DEF Pending, Entries
  <2> HIDE DEF m, t, O, R
  <2>5. /\ DOMAIN elt' = DOMAIN elt \cup {f} /\ elt'[f] = Pending(t)
        /\ \A x \in DOMAIN elt : x # f => elt'[x] = elt[x]
    BY <2>1 DEF Put
  <2>6. /\ DOMAIN pending' = DOMAIN pending \cup {t} /\ pending'[t] = f
        /\ \A x \in DOMAIN pending : x # t => pending'[x] = pending[x]
    BY <2>1 DEF Put
  <2>7. IsABag(net') /\ DOMAIN net' \subseteq Messages /\ DOMAIN net' = DOMAIN net \cup {m}
        /\ \A x \in DOMAIN net : x # m => net'[x] = net[x]
    BY <1>2, <2>1, <2>2, SentFacts
  <2>8. TypeOK'
    <3>1. EltOK' BY <2>4, <2>5 DEF FlowInv, TypeOK, EltOK
    <3>2. PendingOK' BY <1>3, <2>6 DEF FlowInv, TypeOK, PendingOK
    <3>3. TxnOK' /\ NetOK' /\ tasks' \subseteq Tasks BY <1>3, <1>4, <2>1, <2>3, <2>7 DEF TxnOK, NetOK
    <3> QED BY <1>1, <2>1, <3>1, <3>2, <3>3 DEF FlowInv, TypeOK, NodeOK, DltOK
  <2>9. IndexExact'
    <3>1. \A g \in DOMAIN elt' : elt'[g].st = "Pending" =>
              elt'[g].txn \in DOMAIN pending' /\ pending'[elt'[g].txn] = g
      BY <1>5, <2>1, <2>4, <2>5, <2>6 DEF FlowInv, IndexExact
    <3>2. \A i \in DOMAIN pending' : pending'[i] \in DOMAIN elt' /\ elt'[pending'[i]] = Pending(i)
      BY <1>5, <2>1, <2>5, <2>6 DEF FlowInv, IndexExact
    <3> QED BY <3>1, <3>2 DEF IndexExact
  <2>10. HandlesHeld'
    <3>1. OneTask(tasks') BY <1>4, <1>5, <2>1, <2>3 DEF OneTask
    <3>2. \A i \in TxnId : i # t => ((\E k \in tasks : k.txn = i) <=> (\E k \in tasks' : k.txn = i))
      BY <2>1, <2>3
    <3>3. \E k \in tasks' : k.txn = t BY <2>1, <2>3
    <3>4. Handles(R, pending', tasks') BY <1>3, <1>4, <2>6, <3>2, <3>3 DEF Handles
    <3> QED BY <2>1, <3>1, <3>4 DEF HandlesHeld
  <2>11. BindsWait'
    <3>1. BindsWaitFor(net, tasks) BY <1>1 DEF FlowInv, BindsWait
    <3>2. \A x \in DOMAIN net : x.kind = "bind" => x.txn # t
      <4>1. \A x \in DOMAIN net : x.kind = "bind" => Waiting(x.txn) \in tasks
        BY <3>1 DEF BindsWaitFor
      <4>2. \A i : Waiting(i).txn = i BY DEF Waiting
      <4> QED BY <1>5, <4>1, <4>2
    <3>3. m \notin DOMAIN net BY <2>2, <3>2
    <3>4. net'[m] = 1 /\ \A x \in DOMAIN net : net'[x] = net[x]
      <4>1. IsABag(net) BY <1>2 DEF NetOK
      <4>2. net' = net (+) SetToBag({m}) BY <2>1 DEF Sent
      <4>3. (net (+) SetToBag({m}))[m] = 1 BY <3>3, <4>1, AddFresh, Zenon
      <4> QED BY <2>7, <3>3, <4>2, <4>3
    <3>5. BindsWaitFor(net', tasks') BY <2>1, <2>2, <2>7, <3>1, <3>2, <3>4 DEF BindsWaitFor
    <3> QED BY <3>5 DEF BindsWait
  <2>12. AllExpected'
    <3> DEFINE U == ToldOf(tasks', orphans')
    <3> SUFFICES ASSUME node.up PROVE Expected(net', pending', U, ses)
      BY <1>1 DEF AllExpected
    <3>1. Expected(net, pending, ToldOf(tasks, orphans), ses) BY <1>1 DEF FlowInv, AllExpected
    <3>2. Concerns(m, ses) BY <2>2 DEF Concerns
    <3>3. m.txn \notin DOMAIN pending /\ DOMAIN pending' = DOMAIN pending \cup {m.txn}
      BY <1>5, <2>2, <2>6
    <3>4. \A i \in DOMAIN pending : Canceled(i) \in ToldOf(tasks, orphans) <=> Canceled(i) \in U
      <4>1. \A i : Canceled(i) \in tasks <=> Canceled(i) \in tasks' BY <2>1, <2>3
      <4> QED BY <1>5, <2>1, <4>1, ToldIs
    <3>5. Canceled(m.txn) \notin U
      <4>1. Canceled(t).txn = t BY DEF Canceled
      <4>2. Canceled(t) \notin tasks' BY <1>5, <2>1, <2>3, <4>1
      <4> QED BY <2>1, <2>2, <4>2, ToldIs
    <3> HIDE DEF U
    <3>6. IsABag(net) BY <1>2 DEF NetOK
    <3>7. Expected(net (+) SetToBag({m}), pending', U, ses)
      BY <3>1, <3>2, <3>3, <3>4, <3>5, <3>6, ExpectedAsked
    <3> QED BY <2>1, <3>7 DEF Sent
  <2>13. SessionsOld' /\ DownIsEmpty'
    BY <1>1, <2>2, <2>7 DEF FlowInv, SessionsOld, DownIsEmpty
  <2> QED BY <2>8, <2>9, <2>10, <2>11, <2>12, <2>13 DEF FlowInv
<1> QED BY <1>6, <1>7

\* A task that knows the status of its request ends.
LEMMA TaskEndsKeeps ==
  ASSUME FlowInv, NEW k \in tasks, TaskEnds(k) PROVE FlowInv'
<1> DEFINE t == k.txn
           D == DerefTxn(txn_mgr, t)
<1>1. UNCHANGED <<net, pkts, node, dlt, up, ses, history>> /\ k.st # "wait" /\ tasks' = tasks \ {k}
  BY DEF TaskEnds
<1>2. MgrOK(txn_mgr) /\ Handles(txn_mgr, pending, tasks) /\ OneTask(tasks) /\ tasks \subseteq Tasks
      /\ DOMAIN pending \subseteq TxnId
  BY DEF FlowInv, HandlesHeld, TypeOK, TxnOK, PendingOK
<1>3. t \in TxnId /\ k \in Tasks BY <1>2 DEF Tasks
<1>4. MgrOK(D) /\ Handles(D, pending, tasks') BY <1>1, <1>2, <1>3, TaskDropped
<1>5. OneTask(tasks') /\ tasks' \subseteq Tasks BY <1>1, <1>2 DEF OneTask
<1>6. \A i : Waiting(i) \in tasks => Waiting(i) \in tasks'
  <2>1. \A i : Waiting(i).st = "wait" BY DEF Waiting
  <2> QED BY <1>1, <2>1
<1>7. BindsWait'
  <2>1. up => BindsWaitFor(net, tasks) BY DEF FlowInv, BindsWait
  <2>2. up => BindsWaitFor(net, tasks') BY <1>6, <2>1, BindsQuiet
  <2> QED BY <1>1, <2>2 DEF BindsWait
<1>8. SessionsOld'
  BY <1>1 DEF FlowInv, SessionsOld, history
<1>9. CASE k.st = "canceled" /\ Known(t)
  <2> DEFINE f == pending[t]
  <2>1. /\ elt' = Without(elt, {f}) /\ pending' = Without(pending, {t})
        /\ txn_mgr' = DerefTxn(DerefTxn(D, t), t)
    BY <1>9 DEF TaskEnds
  <2>2. t \in DOMAIN pending BY <1>9 DEF Known
  <2>3. f \in DOMAIN elt /\ elt[f] = Pending(t) BY <2>2 DEF FlowInv, IndexExact
  <2> HIDE DEF D
  <2>4. TxnOK' /\ Handles(txn_mgr', pending', tasks')
    BY <1>2, <1>4, <2>1, <2>2, EntryDropped DEF TxnOK
  <2> HIDE DEF f
  <2>5. DOMAIN elt' = DOMAIN elt \ {f} BY <2>1, WithoutFacts
  <2>6. \A g \in DOMAIN elt' : elt'[g] = elt[g]
    <3>1. elt' = Without(elt, {f}) BY <2>1
    <3> QED BY <2>5, <3>1, WithoutFacts, Zenon
  <2>7. DOMAIN pending' = DOMAIN pending \ {t} BY <2>1, WithoutFacts
  <2>8. \A i \in DOMAIN pending' : pending'[i] = pending[i]
    <3>1. pending' = Without(pending, {t}) BY <2>1
    <3> HIDE DEF t
    <3> QED BY <2>7, <3>1, WithoutFacts, Zenon
  <2>9. TypeOK'
    <3>1. EltOK' BY <2>5, <2>6 DEF FlowInv, TypeOK, EltOK
    <3>2. PendingOK' BY <2>7, <2>8 DEF FlowInv, TypeOK, PendingOK
    <3> QED BY <1>1, <1>5, <2>4, <3>1, <3>2 DEF FlowInv, TypeOK, NetOK, NodeOK, DltOK, history
  <2>10. IndexExact'
    <3>0. Pending(t).txn = t /\ Pending(t).st = "Pending" BY DEF Pending
    <3>1. \A g \in DOMAIN elt' : elt'[g].st = "Pending" =>
              elt'[g].txn \in DOMAIN pending' /\ pending'[elt'[g].txn] = g
      <4>1. pending[t] = f BY DEF f
      <4> QED BY <2>5, <2>6, <2>7, <2>8, <4>1 DEF FlowInv, IndexExact
    <3>2. \A i \in DOMAIN pending : i # t => pending[i] # f
      <4>1. \A i : Pending(i).txn = i BY DEF Pending
      <4>2. \A i \in DOMAIN pending : elt[pending[i]] = Pending(i) BY DEF FlowInv, IndexExact
      <4>3. \A i \in DOMAIN pending : pending[i] = f => Pending(i) = Pending(t) BY <2>3, <4>2
      <4> QED BY <4>1, <4>3
    <3>3. \A i \in DOMAIN pending' : pending'[i] \in DOMAIN elt' /\ elt'[pending'[i]] = Pending(i)
      BY <2>5, <2>6, <2>7, <2>8, <3>2 DEF FlowInv, IndexExact
    <3> QED BY <3>1, <3>3 DEF IndexExact
  <2>11. AllExpected'
    <3> DEFINE U == ToldOf(tasks', orphans)
               T == ToldOf(tasks, orphans)
    <3> SUFFICES ASSUME up, node.up PROVE Expected(net, pending', U, ses)
      BY <1>1 DEF AllExpected, history
    <3>1. Expected(net, pending, ToldOf(tasks, orphans), ses) BY DEF FlowInv, AllExpected
    <3>2. k = Canceled(t) BY <1>3, <1>9 DEF Tasks, Canceled
    <3>3. \A m \in DOMAIN net : Concerns(m, ses) => m.txn # t
      <4>1. Canceled(t) \in T BY <3>2, ToldIs
      <4> QED BY <3>1, <4>1 DEF Expected
    <3>4. \A i : i # t => Canceled(i) # k
      <4>1. \A i : Canceled(i).txn = i BY DEF Canceled
      <4> QED BY <3>2, <4>1
    <3>5. \A i : i # t => (Canceled(i) \in T <=> Canceled(i) \in U) BY <1>1, <3>4, ToldIs
    <3>6. Expected(net, pending, T, ses) BY <3>1
    <3> HIDE DEF t, T, U
    <3> QED BY <1>1, <2>7, <3>3, <3>5, <3>6 DEF Expected
  <2>12. DownIsEmpty' BY <1>1, <2>5, <2>7 DEF FlowInv, DownIsEmpty
  <2> QED BY <1>5, <1>7, <1>8, <2>4, <2>9, <2>10, <2>11, <2>12 DEF FlowInv, HandlesHeld
<1>10. CASE ~(k.st = "canceled" /\ Known(t))
  <2>1. txn_mgr' = D /\ UNCHANGED <<elt, pending>> BY <1>10 DEF TaskEnds
  <2>2. TypeOK'
    BY <1>1, <1>4, <1>5, <2>1 DEF FlowInv, TypeOK, EltOK, PendingOK, TxnOK, NetOK, NodeOK, DltOK, history
  <2>3. IndexExact' /\ DownIsEmpty' /\ HandlesHeld'
    BY <1>1, <1>4, <1>5, <2>1 DEF FlowInv, IndexExact, DownIsEmpty, HandlesHeld
  <2>4. AllExpected'
    <3> DEFINE T == ToldOf(tasks, orphans)
               U == ToldOf(tasks', orphans)
    <3> SUFFICES ASSUME up, node.up PROVE Expected(net, pending, U, ses)
      BY <1>1, <2>1 DEF AllExpected, history
    <3>1. Expected(net, pending, ToldOf(tasks, orphans), ses) BY DEF FlowInv, AllExpected
    <3>3. \A i \in DOMAIN pending : Canceled(i) \in tasks <=> Canceled(i) \in tasks'
      <4> SUFFICES ASSUME NEW i \in DOMAIN pending, Canceled(i) = k PROVE FALSE
        BY <1>1
      <4>1. i = t /\ k.st = "canceled" BY DEF Canceled
      <4>2. i \in TxnId BY <1>2
      <4>3. i \in DOMAIN txn_mgr.open BY <1>2, <4>2 DEF Handles
      <4> QED BY <1>10, <4>1, <4>3 DEF Known
    <3>4. \A i \in DOMAIN pending : Canceled(i) \in T <=> Canceled(i) \in U BY <3>3, ToldIs
    <3> HIDE DEF T, U
    <3> QED BY <3>1, <3>4, ExpectedTasks DEF T
  <2> QED BY <1>7, <1>8, <2>2, <2>3, <2>4 DEF FlowInv
<1> QED BY <1>9, <1>10

\* set_active: the entry of a pending transaction stays, its transaction goes.
LEMMA SetActiveKeeps ==
  ASSUME EltOK, PendingOK, TxnOK, IndexExact, Handles(txn_mgr, pending, tasks),
         NEW t \in DOMAIN pending, NEW id \in Streams, SetActive(pending[t], t, id)
  PROVE  /\ EltOK' /\ PendingOK' /\ TxnOK' /\ IndexExact'
         /\ Handles(txn_mgr', pending', tasks)
         /\ DOMAIN elt' = DOMAIN elt
         /\ DOMAIN pending' = DOMAIN pending \ {t}
<1> DEFINE f == pending[t]
<1>1. f \in DOMAIN elt /\ elt[f] = Pending(t) BY DEF IndexExact
<1>2. pending' = Without(pending, {t}) /\ txn_mgr' = DerefTxn(DerefTxn(txn_mgr, t), t)
      /\ elt' = Put(elt, f, Active(id))
  BY DEF SetActive
<1>3. \A i : Pending(i).txn = i /\ Pending(i).st = "Pending" BY DEF Pending
<1>4. Active(id) \in Entries /\ Active(id).st = "Active" BY DEF Active, Entries
<1>5. f \in Flows /\ pending[t] = f BY DEF PendingOK
<1> HIDE DEF f
<1>6. DOMAIN pending \subseteq TxnId BY DEF PendingOK
<1>7. TxnOK' /\ Handles(txn_mgr', pending', tasks)
  BY <1>2, <1>6, EntryDropped DEF TxnOK
<1>8. /\ DOMAIN elt' = DOMAIN elt /\ elt'[f] = Active(id)
      /\ \A x \in DOMAIN elt : x # f => elt'[x] = elt[x]
  BY <1>1, <1>2 DEF Put
<1>9. DOMAIN pending' = DOMAIN pending \ {t} BY <1>2, WithoutFacts
<1>10. \A i \in DOMAIN pending' : pending'[i] = pending[i]
  <2>1. pending' = Without(pending, {t}) BY <1>2
  <2> QED BY <1>9, <2>1, WithoutFacts, Zenon
<1>11. EltOK' BY <1>4, <1>8 DEF EltOK
<1>12. PendingOK' BY <1>9, <1>10 DEF PendingOK
<1>13. \A i \in DOMAIN pending : i # t => pending[i] # f
  <2>1. \A i \in DOMAIN pending : elt[pending[i]] = Pending(i) BY DEF IndexExact
  <2>2. \A i \in DOMAIN pending : pending[i] = f => Pending(i) = Pending(t) BY <1>1, <2>1
  <2> QED BY <1>3, <2>2
<1>14. IndexExact'
  <2>1. \A g \in DOMAIN elt' : elt'[g].st = "Pending" =>
            elt'[g].txn \in DOMAIN pending' /\ pending'[elt'[g].txn] = g
    BY <1>4, <1>5, <1>8, <1>9, <1>10 DEF IndexExact
  <2>2. \A i \in DOMAIN pending' : pending'[i] \in DOMAIN elt' /\ elt'[pending'[i]] = Pending(i)
    BY <1>8, <1>9, <1>10, <1>13 DEF IndexExact
  <2> QED BY <2>1, <2>2 DEF IndexExact
<1> QED BY <1>7, <1>8, <1>9, <1>11, <1>12, <1>14

\* A grant or a denial reaches the source.
LEMMA HandleBindActorAddressResponseKeeps ==
  ASSUME FlowInv, NEW m \in BagToSet(net), HandleBindActorAddressResponse(m) PROVE FlowInv'
<1> DEFINE t == m.txn
<1>1. UNCHANGED <<tasks, pkts, node, dlt, up, ses, history>> /\ up /\ m.kind \in {"grant", "deny"}
      /\ m \in DOMAIN net /\ net' = Received(m)
  BY DEF HandleBindActorAddressResponse, BagToSet
<1>2. t \in TxnId /\ NetOK /\ (m.kind = "grant" => m.id \in Streams)
  BY <1>1, MessageFields DEF FlowInv, TypeOK, NetOK
<1>3. IsABag(net') /\ DOMAIN net' \subseteq Messages /\ DOMAIN net' \subseteq DOMAIN net
      /\ \A x \in DOMAIN net : x # m => x \in DOMAIN net' /\ net'[x] = net[x]
  BY <1>1, <1>2, ReceivedFacts
<1>4. EltOK /\ PendingOK /\ TxnOK /\ IndexExact /\ Handles(txn_mgr, pending, tasks)
  BY DEF FlowInv, TypeOK, HandlesHeld
<1>5. /\ EltOK' /\ PendingOK' /\ TxnOK' /\ IndexExact' /\ Handles(txn_mgr', pending', tasks)
      /\ DOMAIN elt' \subseteq DOMAIN elt
      /\ DOMAIN pending' = DOMAIN pending \ {t}
  <2>1. CASE ~Known(t)
    <3>1. UNCHANGED tables BY <2>1 DEF HandleBindActorAddressResponse
    <3>2. t \notin DOMAIN pending
      BY <1>2, <1>4, <2>1 DEF Known, Handles
    <3> QED BY <1>4, <3>1, <3>2 DEF EltOK, PendingOK, TxnOK, IndexExact, tables
  <2>2. CASE Known(t)
    <3> DEFINE f == pending[t]
    <3>1. t \in DOMAIN pending BY <2>2 DEF Known
    <3>2. f \in DOMAIN elt /\ elt[f] = Pending(t) BY <1>4, <3>1 DEF IndexExact
    <3>3. elt[f].st = "Pending" /\ elt[f].txn = t BY <3>2 DEF Pending
    <3>4. CASE Remove(f)
      <4> HIDE DEF f
      <4> QED BY <1>4, <3>2, <3>3, <3>4, RemoveKeeps
    <3>5. CASE SetActive(f, t, m.id) /\ m.kind = "grant"
      BY <1>2, <1>4, <3>1, <3>5, SetActiveKeeps
    <3>6. Remove(f) \/ (SetActive(f, t, m.id) /\ m.kind = "grant")
      <4>1. IF m.kind = "grant" THEN InstallTether(f, m) ELSE DenyTether(f)
        BY <1>1, <2>2 DEF HandleBindActorAddressResponse
      <4> QED BY <4>1 DEF InstallTether, MismatchRemoved, DenyTether
    <3> QED BY <3>4, <3>5, <3>6
  <2> QED BY <2>1, <2>2
<1>6. TypeOK' BY <1>1, <1>3, <1>5 DEF FlowInv, TypeOK, NetOK, NodeOK, DltOK, history
<1>7. HandlesHeld' BY <1>1, <1>5 DEF FlowInv, HandlesHeld
<1>8. BindsWait'
  <2>1. BindsWaitFor(net, tasks) BY <1>1 DEF FlowInv, BindsWait
  <2>2. \A x \in DOMAIN net' : x.kind = "bind" => x \in DOMAIN net /\ net'[x] = net[x]
    BY <1>1, <1>3
  <2>3. BindsWaitFor(net', tasks) BY <2>1, <2>2, BindsQuiet
  <2> QED BY <1>1, <2>3 DEF BindsWait
<1>9. AllExpected'
  <2> SUFFICES ASSUME node.up PROVE Expected(net', pending', ToldOf(tasks, orphans), ses)
    BY <1>1 DEF AllExpected, history
  <2>1. Expected(net, pending, ToldOf(tasks, orphans), ses) BY <1>1 DEF FlowInv, AllExpected
  <2>2. Concerns(m, ses) /\ IsABag(net) BY <1>1, <1>2 DEF Concerns, NetOK
  <2>3. Expected(net (-) SetToBag({m}), pending', ToldOf(tasks, orphans), ses)
    BY <1>1, <1>5, <2>1, <2>2, ExpectedTaken
  <2> QED BY <1>1, <2>3 DEF Received
<1>10. SessionsOld' /\ DownIsEmpty'
  BY <1>1, <1>3 DEF FlowInv, SessionsOld, DownIsEmpty, history
<1> QED BY <1>5, <1>6, <1>7, <1>8, <1>9, <1>10 DEF FlowInv

\* A stream is withdrawn from the source.
LEMMA HandleStreamIdWithdrawalKeeps ==
  ASSUME FlowInv, NEW m \in BagToSet(net), HandleStreamIdWithdrawal(m) PROVE FlowInv'
<1>1. UNCHANGED <<tasks, pkts, node, dlt, up, ses, history>> /\ up /\ m.kind = "withdraw"
      /\ m \in DOMAIN net /\ net' = Received(m) /\ RemoveByTetherId(m.id)
  BY DEF HandleStreamIdWithdrawal, BagToSet
<1>2. IsABag(net') /\ DOMAIN net' \subseteq Messages /\ DOMAIN net' \subseteq DOMAIN net
      /\ \A x \in DOMAIN net : x # m => x \in DOMAIN net' /\ net'[x] = net[x]
  BY <1>1, ReceivedFacts DEF FlowInv, TypeOK
<1>3. EltOK /\ PendingOK /\ TxnOK /\ IndexExact /\ Handles(txn_mgr, pending, tasks)
  BY DEF FlowInv, TypeOK, HandlesHeld
<1>4. /\ EltOK' /\ PendingOK' /\ TxnOK' /\ IndexExact' /\ Handles(txn_mgr', pending', tasks)
      /\ DOMAIN elt' \subseteq DOMAIN elt
      /\ DOMAIN pending' = DOMAIN pending
  <2>1. CASE UNCHANGED tables
    BY <1>3, <2>1 DEF EltOK, PendingOK, TxnOK, IndexExact, tables
  <2>2. ASSUME NEW f \in DOMAIN elt, elt[f] = Active(m.id), Remove(f) PROVE <1>4
    <3>1. elt[f].st # "Pending" BY <2>2 DEF Active
    <3> QED BY <1>3, <2>2, <3>1, RemoveKeeps
  <2> QED BY <1>1, <2>1, <2>2 DEF RemoveByTetherId
<1>5. TypeOK' BY <1>1, <1>2, <1>4 DEF FlowInv, TypeOK, NetOK, NodeOK, DltOK, history
<1>6. HandlesHeld' BY <1>1, <1>4 DEF FlowInv, HandlesHeld
<1>7. BindsWait'
  <2>1. BindsWaitFor(net, tasks) BY <1>1 DEF FlowInv, BindsWait
  <2>2. \A x \in DOMAIN net' : x.kind = "bind" => x \in DOMAIN net /\ net'[x] = net[x]
    BY <1>1, <1>2
  <2>3. BindsWaitFor(net', tasks) BY <2>1, <2>2, BindsQuiet
  <2> QED BY <1>1, <2>3 DEF BindsWait
<1>8. AllExpected'
  <2> SUFFICES ASSUME node.up PROVE Expected(net', pending', ToldOf(tasks, orphans), ses)
    BY <1>1 DEF AllExpected, history
  <2>1. Expected(net, pending, ToldOf(tasks, orphans), ses) BY <1>1 DEF FlowInv, AllExpected
  <2>2. ~Concerns(m, ses) BY <1>1 DEF Concerns
  <2>3. Expected(net', pending, ToldOf(tasks, orphans), ses)
    <3>1. \A x \in DOMAIN net' : Concerns(x, ses) => x \in DOMAIN net /\ net'[x] = net[x]
      BY <1>2, <2>2
    <3>2. \A x \in DOMAIN net : Concerns(x, ses) => x \in DOMAIN net' BY <1>2, <2>2
    <3> QED BY <2>1, <3>1, <3>2, ExpectedQuiet
  <2> QED BY <1>4, <2>3 DEF Expected
<1>9. SessionsOld' /\ DownIsEmpty'
  BY <1>1, <1>2 DEF FlowInv, SessionsOld, DownIsEmpty, history
<1> QED BY <1>4, <1>5, <1>6, <1>7, <1>8, <1>9 DEF FlowInv

\* The link closes at the source: the tables are flushed and every request is over.
LEMMA SourceDownKeeps ==
  ASSUME FlowInv, SourceDown PROVE FlowInv'
<1> DEFINE held == {i \in DOMAIN txn_mgr.open : \E k \in tasks : k.txn = i}
           closed(k) == IF k.st = "wait" THEN [k EXCEPT !.st = "closed"] ELSE k
           G == {m \in BagToSet(net) : m.kind \in {"grant", "deny", "withdraw"}}
<1>1. /\ UNCHANGED <<pkts, node, dlt, ses, permitted, revokes, binds>> /\ up' = FALSE
      /\ orphans' = {}
      /\ tasks' = {closed(k) : k \in tasks} /\ net' = Gone(G)
      /\ elt' = Empty /\ pending' = Empty
      /\ txn_mgr' = [txn_mgr EXCEPT !.open = [i \in held |-> 0]]
  BY DEF SourceDown, FlushElt, ClearElt
<1>2. MgrOK(txn_mgr) /\ Handles(txn_mgr, pending, tasks) /\ OneTask(tasks) /\ tasks \subseteq Tasks
      /\ NetOK
  BY DEF FlowInv, HandlesHeld, TypeOK, TxnOK
<1>3. \A k \in tasks : closed(k) \in Tasks /\ closed(k).txn = k.txn BY <1>2 DEF Tasks
<1> HIDE DEF closed
<1>4. tasks' \subseteq Tasks /\ OneTask(tasks') BY <1>1, <1>2, <1>3 DEF OneTask
<1>5. \A i : (\E k \in tasks : k.txn = i) <=> (\E k \in tasks' : k.txn = i) BY <1>1, <1>3
<1>6. DOMAIN elt' = {} /\ DOMAIN pending' = {} BY <1>1 DEF Empty
<1>7. txn_mgr'.open = [i \in held |-> 0] /\ txn_mgr' \in [next_free : TxnId, open : {txn_mgr'.open}]
  BY <1>1, <1>2 DEF MgrOK
<1>8. MgrOK(txn_mgr') BY <1>2, <1>7 DEF MgrOK
<1>9. \A i \in TxnId : i \in held <=> \E k \in tasks : k.txn = i BY <1>2 DEF Handles
<1>10. Handles(txn_mgr', pending', tasks')
  <2>1. DOMAIN txn_mgr'.open = held /\ \A i \in held : txn_mgr'.open[i] = 0 BY <1>7
  <2> HIDE DEF held
  <2> QED BY <1>5, <1>6, <1>9, <2>1 DEF Handles
<1>11. IsABag(net') /\ DOMAIN net' \subseteq DOMAIN net
  <2>1. IsABag(net) BY <1>2 DEF NetOK
  <2> QED BY <1>1, <2>1, GoneKeeps
<1>12. TypeOK'
  BY <1>1, <1>2, <1>4, <1>6, <1>8, <1>11
     DEF FlowInv, TypeOK, EltOK, PendingOK, TxnOK, NetOK, NodeOK, DltOK, history
<1>13. IndexExact' /\ DownIsEmpty' BY <1>6 DEF IndexExact, DownIsEmpty
<1>14. SessionsOld' BY <1>1, <1>11 DEF FlowInv, SessionsOld, history
<1> QED BY <1>1, <1>4, <1>10, <1>12, <1>13, <1>14 DEF FlowInv, HandlesHeld, BindsWait, AllExpected

\* A new session starts with empty tables and without messages of the old one.
LEMMA LinkUpKeeps ==
  ASSUME FlowInv, LinkUp PROVE FlowInv'
<1> DEFINE G == {m \in BagToSet(net) : SourceMsg(m)}
<1>1. /\ UNCHANGED <<tables, tasks, dlt, history>> /\ ses' = ses + 1 /\ up' = TRUE /\ ~up
      /\ node' = [node EXCEPT !.up = TRUE] /\ net' = Gone(G)
      /\ pkts' = {p \in pkts : p.to = "dest"}
  BY DEF LinkUp
<1>2. NetOK /\ NodeOK /\ ses \in Nat BY DEF FlowInv, TypeOK
<1>3. IsABag(net') /\ DOMAIN net' = DOMAIN net \ G
  <2>1. IsABag(net) BY <1>2 DEF NetOK
  <2> QED BY <1>1, <2>1, GoneKeeps
<1>4. NodeOK' BY <1>1, <1>2 DEF NodeOK
<1>0. pkts' \subseteq Packets BY <1>1 DEF FlowInv, TypeOK
<1>5. TypeOK'
  <2>1. EltOK' /\ PendingOK' /\ TxnOK' /\ DltOK'
    BY <1>1 DEF FlowInv, TypeOK, EltOK, PendingOK, TxnOK, DltOK, tables
  <2>2. NetOK' BY <1>2, <1>3 DEF NetOK
  <2>3. ses' \in Nat /\ up' \in BOOLEAN /\ tasks' \subseteq Tasks BY <1>1, <1>2 DEF FlowInv, TypeOK
  <2> QED BY <1>0, <1>1, <1>4, <2>1, <2>2, <2>3 DEF FlowInv, TypeOK, history
<1>6. \A m \in DOMAIN net' : m.kind \notin {"bind", "grant", "deny", "withdraw"}
  BY <1>3 DEF SourceMsg, BagToSet
<1>7. \A m \in DOMAIN net' : m.kind \in {"egress", "tether", "full"} => m.ses <= ses /\ m.ses \in Nat
  BY <1>2, <1>3, MessageFields DEF FlowInv, SessionsOld, NetOK
<1>8. \A m \in DOMAIN net' : ~Concerns(m, ses') BY <1>1, <1>2, <1>6, <1>7 DEF Concerns
<1>9. DOMAIN pending' = {} BY <1>1 DEF FlowInv, DownIsEmpty, tables
<1>10. AllExpected' BY <1>8, <1>9 DEF AllExpected, Expected
<1>11. BindsWait' BY <1>6 DEF BindsWait, BindsWaitFor
<1>12. SessionsOld' BY <1>1, <1>2, <1>7 DEF SessionsOld
<1>13. IndexExact' /\ HandlesHeld' /\ DownIsEmpty'
  BY <1>1 DEF FlowInv, IndexExact, HandlesHeld, DownIsEmpty, tables, history
<1> QED BY <1>5, <1>10, <1>11, <1>12, <1>13 DEF FlowInv

\* The destination is lost: what it was asked is not answered.
LEMMA DestinationLostKeeps ==
  ASSUME FlowInv, DestinationLost PROVE FlowInv'
<1> DEFINE asked == {m \in BagToSet(net) : m.kind \in {"egress", "tether", "full"}}
           told == {m \in BagToSet(net) : m.kind = "unbind"}
           W == {StreamIdWithdrawal(s) : s \in DOMAIN node.pft}
           N == Gone(asked \cup told)
           lostTxns == {m.txn : m \in {x \in asked : x.ses = ses}}
<1>1. /\ UNCHANGED <<tables, tasks, up, ses, permitted, binds>> /\ revokes' = revokes + 1
      /\ net' = N (+) SetToBag(W) /\ orphans' = orphans \cup lostTxns
      /\ dlt' = Empty /\ pkts' = {p \in pkts : p.to = "node"}
      /\ node' = [node EXCEPT !.pft = Empty,
                              !.visas = @ \ {node.pft[s].flow : s \in DOMAIN node.pft}]
  BY DEF DestinationLost
<1>2. NetOK /\ NodeOK /\ IsABag(net) BY DEF FlowInv, TypeOK, NetOK
<1>3. W \subseteq Messages /\ \A m \in W : m.kind = "withdraw"
  BY <1>2, WithdrawalMade DEF NodeOK, StreamIdWithdrawal
<1>4. /\ \A m \in asked : m \in DOMAIN net /\ m.kind \in {"egress", "tether", "full"}
      /\ \A m \in told : m \in DOMAIN net /\ m.kind = "unbind"
      /\ \A m \in DOMAIN net : m.kind \in {"egress", "tether", "full"} => m \in asked
  BY DEF BagToSet
<1>5. \A t : t \in lostTxns <=> \E m \in asked : m.ses = ses /\ m.txn = t
  OBVIOUS
<1>6. IsABag(N) /\ DOMAIN N = DOMAIN net \ (asked \cup told) /\ \A x \in DOMAIN N : N[x] = net[x]
  BY <1>2, GoneKeeps
<1> HIDE DEF asked, told, W, N, lostTxns
<1>7. IsABag(net') /\ DOMAIN net' = DOMAIN N \cup W
      /\ \A x \in DOMAIN N : x \notin W => net'[x] = N[x]
  <2>1. /\ IsABag(N (+) SetToBag(W)) /\ DOMAIN (N (+) SetToBag(W)) = DOMAIN N \cup W
        /\ \A x \in DOMAIN N : x \notin W => (N (+) SetToBag(W))[x] = N[x]
    BY <1>6, AddMany, Zenon
  <2> QED BY <1>1, <2>1
<1>8. \A x \in DOMAIN net' : x.kind # "withdraw" => x \in DOMAIN net /\ net'[x] = net[x] /\ x \notin asked
  BY <1>3, <1>6, <1>7
<1>9. \A x \in DOMAIN net : x.kind \in {"bind", "grant", "deny"} => x \in DOMAIN net'
  BY <1>4, <1>6, <1>7
<1>10. NodeOK' /\ node'.up = node.up
  <2>1. node'.pft = Empty /\ node'.up = node.up
        /\ node' \in [up : BOOLEAN, pft : {node'.pft}, visas : SUBSET Flows]
    BY <1>1, <1>2 DEF NodeOK
  <2>2. DOMAIN node'.pft = {} BY <2>1 DEF Empty
  <2> QED BY <2>1, <2>2 DEF NodeOK
<1>11. TypeOK'
  <2>1. DltOK' BY <1>1 DEF DltOK, Empty
  <2>2. NetOK' BY <1>2, <1>3, <1>6, <1>7 DEF NetOK
  <2>3. orphans' \subseteq TxnId
    <3>1. \A m \in asked : m.txn \in TxnId BY <1>2, <1>4, MessageFields DEF NetOK
    <3> QED BY <1>1, <1>5, <3>1 DEF FlowInv, TypeOK
  <2>4. pkts' \subseteq Packets BY <1>1 DEF FlowInv, TypeOK
  <2> QED BY <1>1, <1>10, <2>1, <2>2, <2>3, <2>4
          DEF FlowInv, TypeOK, EltOK, PendingOK, TxnOK, tables
<1>12. BindsWait'
  <2>1. \A x \in DOMAIN net' : x.kind = "bind" => x \in DOMAIN net /\ net'[x] = net[x]
    BY <1>8
  <2>2. up => BindsWaitFor(net', tasks) BY <2>1, BindsQuiet DEF FlowInv, BindsWait
  <2> QED BY <1>1, <2>2 DEF BindsWait
<1>13. AllExpected'
  <2> DEFINE T == ToldOf(tasks, orphans)
             U == ToldOf(tasks, orphans')
  <2> SUFFICES ASSUME up, node.up PROVE Expected(net', pending, U, ses)
    BY <1>1, <1>10 DEF AllExpected, tables
  <2>1. Expected(net, pending, T, ses) BY DEF FlowInv, AllExpected
  <2>2. \A i : Canceled(i) \in U <=> Canceled(i) \in T \/ i \in lostTxns BY <1>1, ToldIs
  <2> HIDE DEF T, U
  <2>3. \A x \in DOMAIN net' : Concerns(x, ses) => x \in DOMAIN net /\ net'[x] = net[x] /\ x \notin asked
    BY <1>8 DEF Concerns
  <2>4. \A m \in asked : m.ses = ses => Concerns(m, ses) /\ m \in DOMAIN net BY <1>4 DEF Concerns
  <2>5. \A x \in DOMAIN net' : Concerns(x, ses) => x.txn \notin lostTxns
    BY <1>5, <2>1, <2>3, <2>4 DEF Expected
  <2>6. ASSUME NEW t \in DOMAIN pending, Canceled(t) \notin U
        PROVE  \E m \in DOMAIN net' : Concerns(m, ses) /\ m.txn = t
    <3>1. PICK m \in DOMAIN net : Concerns(m, ses) /\ m.txn = t BY <2>1, <2>2, <2>6 DEF Expected
    <3>2. m \notin asked BY <1>4, <1>5, <2>2, <2>6, <3>1 DEF Concerns
    <3>3. m.kind \in {"bind", "grant", "deny"} BY <1>4, <3>1, <3>2 DEF Concerns
    <3> QED BY <1>9, <3>1, <3>3
  <2> QED BY <2>1, <2>2, <2>3, <2>5, <2>6 DEF Expected
<1>14. SessionsOld' BY <1>1, <1>8 DEF FlowInv, SessionsOld
<1>15. IndexExact' /\ HandlesHeld' /\ DownIsEmpty'
  BY <1>1 DEF FlowInv, IndexExact, HandlesHeld, DownIsEmpty, tables
<1> QED BY <1>11, <1>12, <1>13, <1>14, <1>15 DEF FlowInv

-------------------------------------------------------------------------------
(* The theorems.                                                           *)

LEMMA NextFlowInv == FlowInv /\ [Next]_vars => FlowInv'
<1> SUFFICES ASSUME FlowInv, [Next]_vars PROVE FlowInv' OBVIOUS
<1>1. CASE UNCHANGED vars
  BY <1>1 DEF vars, FlowInv, TypeOK, EltOK, PendingOK, TxnOK, NetOK, NodeOK, DltOK, IndexExact,
              HandlesHeld, BindsWait, AllExpected, SessionsOld, DownIsEmpty
<1>2. CASE Next
  <2>1. ASSUME NEW f \in Flows, ActorOutput(f) \/ DoRequestTetherId(f) \/ Revoke(f)
        PROVE  FlowInv'
    BY <2>1, ActorOutputKeeps, DoRequestTetherIdKeeps, RevokeKeeps
  <2>2. ASSUME NEW k \in tasks, TaskEnds(k) PROVE FlowInv'
    BY <2>2, TaskEndsKeeps
  <2>3. ASSUME NEW s \in Streams, HandleUnbindIndication(s) PROVE FlowInv'
    BY <2>3, HandleUnbindIndicationKeeps
  <2>4. ASSUME NEW p \in pkts, Forward(p) \/ ActorInput(p) PROVE FlowInv'
    BY <2>4, ForwardKeeps, ActorInputKeeps
  <2>5. ASSUME NEW m \in BagToSet(net),
               GiveUp(m) \/ BindActorAddress(m) \/ RequestedTetherGranted(m)
               \/ UnbindEgressStream(m) \/ BindEgressStream(m)
        PROVE  FlowInv'
    BY <2>5, GiveUpKeeps, BindActorAddressKeeps, RequestedTetherGrantedKeeps,
       UnbindEgressStreamKeeps, BindEgressStreamKeeps
  <2>6. ASSUME NEW m \in BagToSet(net),
               HandleBindActorAddressResponse(m) \/ HandleStreamIdWithdrawal(m)
        PROVE  FlowInv'
    BY <2>6, HandleBindActorAddressResponseKeeps, HandleStreamIdWithdrawalKeeps
  <2>7. CASE SourceDown \/ NodeDown \/ LinkUp \/ DestinationLost
    BY <2>7, SourceDownKeeps, NodeDownKeeps, LinkUpKeeps, DestinationLostKeeps
  <2> QED BY <1>2, <2>1, <2>2, <2>3, <2>4, <2>5, <2>6, <2>7 DEF Next
<1> QED BY <1>1, <1>2

LEMMA FlowInvHolds == Spec => []FlowInv
<1> QED BY InitFlowInv, NextFlowInv, PTL DEF Spec

\* Whatever is bound, revoked, lost or restarted (adapter_tables.rs, mgmt/adapter.rs,
\* fastpath.rs), the tables, messages and packets of a flow are of their types.
THEOREM FlowsTypeCorrect == Spec => []TypeOK
<1>1. FlowInv => TypeOK BY DEF FlowInv
<1> QED BY <1>1, FlowInvHolds, PTL

\* The endpoint lookup table, its index of pending transactions and the transaction
\* manager never disagree: EndpointLookupTable::remove, set_active and clear find
\* what they rely on, and no transaction is leaked or closed early.
THEOREM TablesAgree == Spec => []TablesConsistent
<1>1. FlowInv => TablesConsistent
  <2> SUFFICES ASSUME FlowInv PROVE TablesConsistent OBVIOUS
  <2>1. ASSUME NEW t \in TxnId
        PROVE  LET handles == Cardinality({k \in tasks : k.txn = t})
                              + (IF t \in DOMAIN pending THEN 2 ELSE 0)
               IN IF t \in DOMAIN txn_mgr.open THEN txn_mgr.open[t] + 1 = handles
                  ELSE handles = 0
    <3> DEFINE T == {k \in tasks : k.txn = t}
    <3>1. OneTask(tasks) /\ Handles(txn_mgr, pending, tasks) BY DEF FlowInv, HandlesHeld
    <3>2. CASE T = {}
      <4>1. Cardinality(T) = 0 BY <3>2, FS_EmptySet
      <4>2. ~\E k \in tasks : k.txn = t BY <3>2
      <4> HIDE DEF T
      <4>3. IF t \in DOMAIN pending THEN t \in DOMAIN txn_mgr.open /\ txn_mgr.open[t] = 1
            ELSE t \notin DOMAIN txn_mgr.open
        BY <3>1, <4>2 DEF Handles
      <4> QED BY <4>1, <4>3 DEF T
    <3>3. CASE T # {}
      <4>1. PICK k \in T : TRUE BY <3>3
      <4>2. T = {k} BY <3>1, <4>1 DEF OneTask
      <4>3. Cardinality(T) = 1 BY <4>2, FS_Singleton
      <4>4. t \in DOMAIN txn_mgr.open /\ txn_mgr.open[t] = IF t \in DOMAIN pending THEN 2 ELSE 0
        BY <3>1, <4>1 DEF Handles
      <4> QED BY <4>3, <4>4
    <3> QED BY <3>2, <3>3
  <2>2. IndexExact BY DEF FlowInv
  <2> QED BY <2>1, <2>2 DEF TablesConsistent, IndexExact
<1> QED BY <1>1, FlowInvHolds, PTL

\* A pending entry is settled by exactly one message or by its canceled task, unless the
\* request was lost without a word (a cancellation reported as Acked, a destination that
\* left); nothing else leaves an entry without a message.  And the source never gets an answer it does not know (handle_bind_actor_address_response),
\* on which it would take its link down.
THEOREM AnswersAwaited == Spec => []AnswersExpected
<1>1. FlowInv => AnswersExpected
  <2> SUFFICES ASSUME FlowInv, up, node.up, NEW t \in TxnId
               PROVE  LET gone == [txn |-> t, st |-> "canceled"] \in tasks \/ t \in orphans
                      IN IF t \in DOMAIN pending
                         THEN (About(t) = {} /\ gone) \/ (Cardinality(About(t)) = 1 /\ ~gone)
                         ELSE About(t) = {}
    BY DEF AnswersExpected
  <2>1. Expected(net, pending, ToldOf(tasks, orphans), ses) BY DEF FlowInv, AllExpected
  <2>2. About(t) = {m \in DOMAIN net : Concerns(m, ses) /\ m.txn = t}
    BY DEF About, Concerns, BagToSet
  <2>3. [txn |-> t, st |-> "canceled"] = Canceled(t) BY DEF Canceled
  <2>4. CASE About(t) = {}
    <3>1. t \in DOMAIN pending => Canceled(t) \in tasks \/ t \in orphans
      BY <2>1, <2>2, <2>4, ToldIs DEF Expected
    <3> QED BY <2>3, <2>4, <3>1
  <2>5. CASE About(t) # {}
    <3>1. PICK m \in About(t) : TRUE BY <2>5
    <3>2. m \in DOMAIN net /\ Concerns(m, ses) /\ m.txn = t BY <2>2, <3>1
    <3>3. t \in DOMAIN pending /\ Canceled(t) \notin tasks /\ t \notin orphans
      BY <2>1, <3>2, ToldIs DEF Expected
    <3>4. About(t) = {m} BY <2>1, <2>2, <3>2 DEF Expected
    <3>5. Cardinality(About(t)) = 1 BY <3>4, FS_Singleton
    <3> QED BY <2>3, <3>3, <3>5
  <2> QED BY <2>4, <2>5
<1> QED BY <1>1, FlowInvHolds, PTL

-------------------------------------------------------------------------------
(* Permitted flows.                                                        *)

Carries == {"egress", "tether", "full", "grant"}

NetPermitted(N, S) == \A m \in DOMAIN N : m.kind \in Carries => m.flow \in S
EltPermitted(E, S) == \A f \in DOMAIN E : E[f].st = "Active" => f \in S

\* OnlyPermitted, with the answers in flight and the active entries.
PermInv ==
    /\ OnlyPermitted
    /\ NetPermitted(net, permitted)
    /\ EltPermitted(elt, permitted)

\* A message less, one in its place, and messages without a flow.
LEMMA PermittedReply ==
  ASSUME NEW N, IsABag(N), NEW m \in DOMAIN N, NEW S, NEW S2, NetPermitted(N, S), S \subseteq S2
  PROVE  /\ NetPermitted(N (-) SetToBag({m}), S2)
         /\ \A r : (r.kind \in Carries => r.flow \in S2)
                   => NetPermitted((N (-) SetToBag({m})) (+) SetToBag({r}), S2)
<1> DEFINE A == N (-) SetToBag({m})
<1>1. IsABag(A) /\ DOMAIN A \subseteq DOMAIN N BY TakeOne, Zenon
<1> HIDE DEF A
<1>2. NetPermitted(A, S2) BY <1>1 DEF NetPermitted
<1>3. ASSUME NEW r, r.kind \in Carries => r.flow \in S2
      PROVE  NetPermitted(A (+) SetToBag({r}), S2)
  <2> DEFINE B == A (+) SetToBag({r})
  <2>1. DOMAIN B = DOMAIN A \cup {r} BY <1>1, AddOne, Zenon
  <2> HIDE DEF B
  <2> QED BY <1>2, <1>3, <2>1 DEF NetPermitted, B
<1> QED BY <1>2, <1>3 DEF A

LEMMA PermittedAdded ==
  ASSUME NEW N, IsABag(N), NEW S, NetPermitted(N, S), NEW R, \A r \in R : r.kind \notin Carries
  PROVE  NetPermitted(N (+) SetToBag(R), S)
<1> DEFINE B == N (+) SetToBag(R)
<1>1. DOMAIN B = DOMAIN N \cup R BY AddMany, Zenon
<1> HIDE DEF B
<1> QED BY <1>1 DEF NetPermitted, B

LEMMA PermittedGone ==
  ASSUME IsABag(net), NEW M, NEW S, NetPermitted(net, S)
  PROVE  NetPermitted(Gone(M), S)
BY GoneKeeps DEF NetPermitted

\* An entry removed, and one entered.
LEMMA PermittedWithout ==
  ASSUME NEW E, NEW f, NEW S, EltPermitted(E, S)
  PROVE  EltPermitted(Without(E, {f}), S)
<1> DEFINE W == Without(E, {f})
<1>1. DOMAIN W = DOMAIN E \ {f} /\ \A x \in DOMAIN E \ {f} : W[x] = E[x] BY WithoutFacts, Zenon
<1> HIDE DEF W
<1> QED BY <1>1 DEF EltPermitted, W

LEMMA PermittedPut ==
  ASSUME NEW E, NEW f, NEW v, NEW S, EltPermitted(E, S), v.st = "Active" => f \in S
  PROVE  EltPermitted(Put(E, f, v), S)
<1> DEFINE W == Put(E, f, v)
<1>1. DOMAIN W = DOMAIN E \cup {f} /\ W[f] = v /\ \A x \in DOMAIN E : x # f => W[x] = E[x]
  BY DEF Put
<1> HIDE DEF W
<1> QED BY <1>1 DEF EltPermitted, W

\* The source's fast path, and the packets on their way.
LEMMA ActorOutputPermitted ==
  ASSUME PermInv, NEW f \in Flows, ActorOutput(f) PROVE PermInv'
<1>1. /\ f \in DOMAIN elt /\ elt[f].st = "Active"
      /\ pkts' = pkts \cup {Seal(f, elt[f].id)}
      /\ UNCHANGED <<elt, net, dlt, permitted>>
  BY DEF ActorOutput, tables, history
<1>2. Seal(f, elt[f].id).flow = f BY DEF Seal
<1> QED BY <1>1, <1>2 DEF PermInv, OnlyPermitted, EltPermitted

LEMMA ForwardPermitted ==
  ASSUME PermInv, NEW p \in pkts, Forward(p) \/ ActorInput(p) PROVE PermInv'
<1>1. UNCHANGED <<elt, net, dlt, permitted>> BY DEF Forward, ActorInput, tables, history
<1>2. \A q \in pkts' : q \in pkts \/ q.flow = p.flow BY DEF Forward, ActorInput
<1> QED BY <1>1, <1>2 DEF PermInv, OnlyPermitted

\* A request begins with a pending entry, and its task ends.
LEMMA RequestPermitted ==
  ASSUME FlowInv, PermInv, NEW f \in Flows, DoRequestTetherId(f) PROVE PermInv'
<1> DEFINE t == txn_mgr.next_free
<1>1. UNCHANGED <<pkts, dlt, permitted>> BY DEF DoRequestTetherId
<1>2. \/ UNCHANGED <<elt, net>>
      \/ elt' = Put(elt, f, Pending(t)) /\ net' = Sent(BindRequest(t, f))
  BY DEF DoRequestTetherId
<1> HIDE DEF t
<1>3. CASE UNCHANGED <<elt, net>> BY <1>1, <1>3 DEF PermInv, OnlyPermitted
<1>4. CASE elt' = Put(elt, f, Pending(t)) /\ net' = Sent(BindRequest(t, f))
  <2>0. Pending(t).st # "Active" BY DEF Pending
  <2>1. EltPermitted(elt', permitted)
    <3> DEFINE v == Pending(t)
    <3>1. v.st = "Active" => f \in permitted BY <2>0
    <3> HIDE DEF v
    <3>2. EltPermitted(Put(elt, f, v), permitted) BY <3>1, PermittedPut DEF PermInv
    <3> QED BY <1>4, <3>2 DEF v
  <2>2. BindRequest(t, f).kind \notin Carries BY DEF BindRequest, Carries
  <2>3. IsABag(net) /\ NetPermitted(net, permitted) BY DEF FlowInv, TypeOK, NetOK, PermInv
  <2> DEFINE r == BindRequest(t, f)
  <2> HIDE DEF r
  <2>4. \A x \in {r} : x.kind \notin Carries BY <2>2 DEF r
  <2>5. NetPermitted(net (+) SetToBag({r}), permitted) BY <2>3, <2>4, PermittedAdded
  <2> QED BY <1>1, <1>4, <2>1, <2>5 DEF PermInv, OnlyPermitted, Sent, r
<1> QED BY <1>2, <1>3, <1>4

LEMMA TaskEndsPermitted ==
  ASSUME PermInv, NEW k \in tasks, TaskEnds(k) PROVE PermInv'
<1>1. UNCHANGED <<pkts, dlt, net, permitted>> BY DEF TaskEnds, history
<1>2. elt' = elt \/ \E f : elt' = Without(elt, {f}) BY DEF TaskEnds
<1>3. EltPermitted(elt', permitted) BY <1>2, PermittedWithout DEF PermInv
<1> QED BY <1>1, <1>3 DEF PermInv, OnlyPermitted

\* The node permits a flow before anything speaks of it, and answers for that flow.
LEMMA BindPermitted ==
  ASSUME FlowInv, PermInv, NEW m \in BagToSet(net), BindActorAddress(m) PROVE PermInv'
<1>1. UNCHANGED <<pkts, dlt, elt>> BY DEF BindActorAddress, tables
<1>2. permitted \subseteq permitted' BY DEF BindActorAddress
<1>3. \E r : (r.kind \in Carries => r.flow \in permitted') /\ net' = Reply(m, r)
  <2>1. CASE net' = Reply(m, BindError(m.txn))
    <3>1. BindError(m.txn).kind \notin Carries BY DEF BindError, Carries
    <3> QED BY <2>1, <3>1
  <2>2. CASE \E v \in VisaFor[m.flow] : permitted' = permitted \cup {v}
                                        /\ net' = Reply(m, EgressRequest(m.txn, v, ses))
    <3>1. PICK v \in VisaFor[m.flow] : permitted' = permitted \cup {v}
                                       /\ net' = Reply(m, EgressRequest(m.txn, v, ses))
      BY <2>2
    <3>2. EgressRequest(m.txn, v, ses).flow = v BY DEF EgressRequest
    <3> QED BY <3>1, <3>2
  <2> QED BY <2>1, <2>2 DEF BindActorAddress
<1>4. NetPermitted(net', permitted')
  <2>1. IsABag(net) /\ NetPermitted(net, permitted) /\ m \in DOMAIN net
    BY DEF FlowInv, TypeOK, NetOK, PermInv, BagToSet
  <2>2. PICK r : (r.kind \in Carries => r.flow \in permitted') /\ net' = Reply(m, r) BY <1>3
  <2>3. NetPermitted((net (-) SetToBag({m})) (+) SetToBag({r}), permitted')
    BY <1>2, <2>1, <2>2, PermittedReply
  <2> QED BY <2>2, <2>3 DEF Reply, Received
<1> QED BY <1>1, <1>2, <1>4 DEF PermInv, OnlyPermitted, EltPermitted

\* Every other message is received, without an answer or with one of the same flow.
LEMMA AnswerPermitted ==
  ASSUME FlowInv, PermInv, NEW m \in BagToSet(net), permitted' = permitted,
         \/ net' = Received(m)
         \/ \E r : (r.kind \in Carries => r.flow \in permitted) /\ net' = Reply(m, r)
  PROVE  NetPermitted(net', permitted')
<1>1. IsABag(net) /\ NetPermitted(net, permitted) /\ m \in DOMAIN net
  BY DEF FlowInv, TypeOK, NetOK, PermInv, BagToSet
<1>2. NetPermitted(net (-) SetToBag({m}), permitted) BY <1>1, PermittedReply
<1>3. ASSUME NEW r, r.kind \in Carries => r.flow \in permitted
      PROVE  NetPermitted((net (-) SetToBag({m})) (+) SetToBag({r}), permitted)
  BY <1>1, <1>3, PermittedReply
<1> QED BY <1>2, <1>3 DEF Received, Reply

LEMMA GrantPermitted ==
  ASSUME FlowInv, PermInv, NEW m \in BagToSet(net), RequestedTetherGranted(m) PROVE PermInv'
<1>1. UNCHANGED <<pkts, dlt, elt, permitted>> BY DEF RequestedTetherGranted, tables, history
<1>2. m.flow \in permitted
  BY DEF RequestedTetherGranted, PermInv, NetPermitted, Carries, BagToSet
<1>3. \/ net' = Received(m) \/ net' = Reply(m, BindError(m.txn))
      \/ \E s : net' = Reply(m, BindSuccess(m.txn, s, m.flow))
  BY DEF RequestedTetherGranted
<1>4. BindError(m.txn).kind \notin Carries /\ \A s : BindSuccess(m.txn, s, m.flow).flow = m.flow
  BY DEF BindError, BindSuccess, Carries
<1>5. \/ net' = Received(m)
      \/ \E r : (r.kind \in Carries => r.flow \in permitted) /\ net' = Reply(m, r)
  BY <1>2, <1>3, <1>4
<1>6. NetPermitted(net', permitted') BY <1>1, <1>5, AnswerPermitted
<1> QED BY <1>1, <1>6 DEF PermInv, OnlyPermitted

LEMMA EgressPermitted ==
  ASSUME FlowInv, PermInv, NEW m \in BagToSet(net), BindEgressStream(m) PROVE PermInv'
<1>1. UNCHANGED <<pkts, elt, permitted>> BY DEF BindEgressStream, tables, history
<1>2. m.flow \in permitted
  BY DEF BindEgressStream, EgressRequests, PermInv, NetPermitted, Carries, BagToSet
<1>3. \/ net' = Reply(m, EgressError(m)) /\ dlt' = dlt
      \/ \E id : net' = Reply(m, EgressSuccess(m, id)) /\ dlt' = Put(dlt, id, m.flow)
  BY DEF BindEgressStream, DltInsert
<1>4. EgressError(m).flow = m.flow /\ \A id : EgressSuccess(m, id).flow = m.flow
  BY DEF EgressError, EgressSuccess
<1>5. \E r : (r.kind \in Carries => r.flow \in permitted) /\ net' = Reply(m, r)
  BY <1>2, <1>3, <1>4
<1>6. NetPermitted(net', permitted') BY <1>1, <1>5, AnswerPermitted
<1>7. \A id \in DOMAIN dlt' : dlt'[id] \in permitted
  <2>1. ASSUME NEW id PROVE \A x \in DOMAIN Put(dlt, id, m.flow) : Put(dlt, id, m.flow)[x] \in permitted
    <3> DEFINE f == m.flow
               W == Put(dlt, id, f)
    <3>1. f \in permitted BY <1>2
    <3> HIDE DEF f
    <3>2. DOMAIN W = DOMAIN dlt \cup {id} /\ W[id] = f /\ \A x \in DOMAIN dlt : x # id => W[x] = dlt[x]
      BY DEF Put
    <3> HIDE DEF W
    <3>3. \A x \in DOMAIN W : W[x] \in permitted BY <3>1, <3>2 DEF PermInv, OnlyPermitted
    <3> QED BY <3>3 DEF f, W
  <2> QED BY <1>3, <2>1 DEF PermInv, OnlyPermitted
<1> QED BY <1>1, <1>6, <1>7 DEF PermInv, OnlyPermitted

LEMMA UnbindPermitted ==
  ASSUME FlowInv, PermInv, NEW m \in BagToSet(net), UnbindEgressStream(m) PROVE PermInv'
<1>1. UNCHANGED <<pkts, elt, permitted>> /\ net' = Received(m) /\ dlt' = Without(dlt, {m.id})
  BY DEF UnbindEgressStream, DltRemove, tables, history
<1>2. NetPermitted(net', permitted') BY <1>1, AnswerPermitted
<1>3. \A id \in DOMAIN dlt' : dlt'[id] \in permitted
  <2> DEFINE W == Without(dlt, {m.id})
  <2>1. DOMAIN W = DOMAIN dlt \ {m.id} /\ \A x \in DOMAIN dlt \ {m.id} : W[x] = dlt[x]
    BY WithoutFacts, Zenon
  <2>2. dlt' = W BY <1>1
  <2> HIDE DEF W
  <2> QED BY <2>1, <2>2 DEF PermInv, OnlyPermitted
<1> QED BY <1>1, <1>2, <1>3 DEF PermInv, OnlyPermitted

\* Answers at the source: only one for the flow that asked makes an entry active.
LEMMA ResponsePermitted ==
  ASSUME FlowInv, PermInv, NEW m \in BagToSet(net),
         HandleBindActorAddressResponse(m) \/ HandleStreamIdWithdrawal(m) \/ GiveUp(m)
  PROVE  PermInv'
<1>1. UNCHANGED <<pkts, dlt, permitted>> /\ net' = Received(m)
  BY DEF HandleBindActorAddressResponse, HandleStreamIdWithdrawal, GiveUp, history
<1>2. NetPermitted(net', permitted') BY <1>1, AnswerPermitted
<1>3. \/ elt' = elt \/ (\E f : Remove(f))
      \/ m.kind = "grant" /\ \E id : elt' = Put(elt, m.flow, Active(id))
  <2>1. CASE GiveUp(m) BY <2>1 DEF GiveUp, tables
  <2>2. CASE HandleStreamIdWithdrawal(m)
    BY <2>2 DEF HandleStreamIdWithdrawal, RemoveByTetherId, tables
  <2>3. CASE HandleBindActorAddressResponse(m)
    <3>1. \/ UNCHANGED tables
          \/ m.kind = "grant" /\ InstallTether(pending[m.txn], m)
          \/ DenyTether(pending[m.txn])
      BY <2>3 DEF HandleBindActorAddressResponse
    <3>2. CASE m.kind = "grant" /\ InstallTether(pending[m.txn], m)
      <4> DEFINE f == pending[m.txn]
      <4> HIDE DEF f
      <4>1. InstallTether(f, m) BY <3>2 DEF f
      <4>2. CASE m.flow # f BY <4>1, <4>2 DEF InstallTether, MismatchRemoved
      <4>3. CASE m.flow = f BY <4>1, <4>3, <3>2 DEF InstallTether, SetActive
      <4> QED BY <4>2, <4>3
    <3>3. CASE DenyTether(pending[m.txn])
      <4> DEFINE f == pending[m.txn]
      <4> HIDE DEF f
      <4>1. Remove(f) BY <3>3 DEF DenyTether, f
      <4> QED BY <4>1
    <3> QED BY <3>1, <3>2, <3>3 DEF tables
  <2> QED BY <2>1, <2>2, <2>3
<1>4. m.kind = "grant" => m.flow \in permitted
  BY DEF PermInv, NetPermitted, Carries, BagToSet
<1>5. EltPermitted(elt, permitted) BY DEF PermInv
<1>6. EltPermitted(elt', permitted)
  <2>1. CASE elt' = elt BY <1>5, <2>1
  <2>2. CASE \E f : Remove(f)
    <3>1. PICK f : Remove(f) BY <2>2
    <3>2. elt' = Without(elt, {f}) BY <3>1 DEF Remove
    <3> QED BY <1>5, <3>2, PermittedWithout
  <2>3. CASE m.kind = "grant" /\ \E id : elt' = Put(elt, m.flow, Active(id))
    <3>1. PICK id : elt' = Put(elt, m.flow, Active(id)) BY <2>3
    <3> DEFINE f == m.flow
               v == Active(id)
    <3>2. f \in permitted /\ elt' = Put(elt, f, v) BY <1>4, <2>3, <3>1
    <3> HIDE DEF f, v
    <3> QED BY <1>5, <3>2, PermittedPut
  <2> QED BY <1>3, <2>1, <2>2, <2>3
<1> QED BY <1>1, <1>2, <1>6 DEF PermInv, OnlyPermitted

\* Withdrawals and losses permit nothing new.
LEMMA LossPermitted ==
  ASSUME FlowInv, PermInv,
         \/ \E f \in Flows : Revoke(f)
         \/ \E s \in Streams : HandleUnbindIndication(s)
         \/ DestinationLost \/ SourceDown \/ NodeDown \/ LinkUp
  PROVE  PermInv'
<1>1. pkts' \subseteq pkts /\ permitted' = permitted /\ (dlt' = dlt \/ dlt' = Empty)
      /\ (elt' = elt \/ elt' = Empty)
  BY DEF Revoke, HandleUnbindIndication, DestinationLost, SourceDown, NodeDown, LinkUp,
         tables, history, FlushElt, ClearElt
<1>2. IsABag(net) /\ NetPermitted(net, permitted) BY DEF FlowInv, TypeOK, NetOK, PermInv
<1> DEFINE Plain(R) == \A r \in R : r.kind \notin Carries
<1>3. \/ net' = net \/ (\E M : net' = Gone(M)) \/ (\E R : Plain(R) /\ net' = net (+) SetToBag(R))
      \/ \E M, R : Plain(R) /\ net' = Gone(M) (+) SetToBag(R)
  <2>1. CASE \E f \in Flows : Revoke(f)
    <3>1. PICK f \in Flows : Revoke(f) BY <2>1
    <3> DEFINE S == {s \in DOMAIN node.pft : node.pft[s].flow = f}
               R == {StreamIdWithdrawal(s) : s \in S}
    <3>2. net' = net (+) SetToBag(R) BY <3>1 DEF Revoke
    <3>3. Plain(R) BY DEF StreamIdWithdrawal, Carries
    <3> HIDE DEF R, Plain
    <3> QED BY <3>2, <3>3
  <2>2. CASE \E s \in Streams : HandleUnbindIndication(s)
    <3>1. PICK s \in Streams : HandleUnbindIndication(s) BY <2>2
    <3> DEFINE R == {UnbindIndication(s)}
    <3>2. net' = net (+) SetToBag(R) BY <3>1 DEF HandleUnbindIndication, UnbindStream, Sent
    <3>3. Plain(R) BY DEF UnbindIndication, Carries
    <3> HIDE DEF R, Plain
    <3> QED BY <3>2, <3>3
  <2>3. CASE DestinationLost
    <3> DEFINE R == {StreamIdWithdrawal(s) : s \in DOMAIN node.pft}
    <3>1. \E M : net' = Gone(M) (+) SetToBag(R) BY <2>3 DEF DestinationLost
    <3>2. Plain(R) BY DEF StreamIdWithdrawal, Carries
    <3> HIDE DEF R, Plain
    <3> QED BY <3>1, <3>2
  <2>4. CASE SourceDown \/ NodeDown \/ LinkUp BY <2>4 DEF SourceDown, NodeDown, LinkUp
  <2> QED BY <2>1, <2>2, <2>3, <2>4
<1>4. NetPermitted(net', permitted)
  <2>1. CASE \E M : net' = Gone(M) BY <1>2, <2>1, PermittedGone
  <2>2. CASE \E R : Plain(R) /\ net' = net (+) SetToBag(R)
    <3>1. PICK R : Plain(R) /\ net' = net (+) SetToBag(R) BY <2>2
    <3>2. NetPermitted(net (+) SetToBag(R), permitted) BY <1>2, <3>1, PermittedAdded
    <3> QED BY <3>1, <3>2
  <2>3. CASE \E M, R : Plain(R) /\ net' = Gone(M) (+) SetToBag(R)
    <3>1. PICK M, R : Plain(R) /\ net' = Gone(M) (+) SetToBag(R) BY <2>3
    <3> DEFINE N == Gone(M)
    <3>2. IsABag(N) /\ NetPermitted(N, permitted) BY <1>2, GoneKeeps, PermittedGone
    <3> HIDE DEF N
    <3>3. NetPermitted(N (+) SetToBag(R), permitted) BY <3>1, <3>2, PermittedAdded
    <3> QED BY <3>1, <3>3 DEF N
  <2> QED BY <1>2, <1>3, <2>1, <2>2, <2>3
<1>5. DOMAIN Empty = {} BY DEF Empty
<1> QED BY <1>1, <1>4, <1>5 DEF PermInv, OnlyPermitted, EltPermitted

\* Only packets of flows the visa service has permitted are under way, and only such
\* flows have a tether at the destination (install_tether, handle_bind_egress_stream_request),
\* whatever is answered, withdrawn, lost or reused.
THEOREM OnlyPermittedFlows == Spec => []OnlyPermitted
<1>1. Init => PermInv
  <2> SUFFICES ASSUME Init PROVE PermInv OBVIOUS
  <2>1. DOMAIN net = {} BY DEF Init, EmptyBag, SetToBag
  <2>2. DOMAIN elt = {} /\ DOMAIN dlt = {} /\ pkts = {} BY DEF Init, Empty
  <2> QED BY <2>1, <2>2 DEF PermInv, OnlyPermitted, NetPermitted, EltPermitted
<1>2. FlowInv /\ PermInv /\ [Next]_vars => PermInv'
  <2> SUFFICES ASSUME FlowInv, PermInv, [Next]_vars PROVE PermInv' OBVIOUS
  <2>1. CASE UNCHANGED vars BY <2>1 DEF vars, PermInv, OnlyPermitted
  <2>2. CASE Next
    <3>1. ASSUME NEW f \in Flows, ActorOutput(f) \/ DoRequestTetherId(f) PROVE PermInv'
      BY <3>1, ActorOutputPermitted, RequestPermitted
    <3>2. ASSUME NEW k \in tasks, TaskEnds(k) PROVE PermInv' BY <3>2, TaskEndsPermitted
    <3>3. ASSUME NEW p \in pkts, Forward(p) \/ ActorInput(p) PROVE PermInv'
      BY <3>3, ForwardPermitted
    <3>4. ASSUME NEW m \in BagToSet(net),
                 BindActorAddress(m) \/ RequestedTetherGranted(m) \/ BindEgressStream(m)
                 \/ UnbindEgressStream(m)
          PROVE  PermInv'
      BY <3>4, BindPermitted, GrantPermitted, EgressPermitted, UnbindPermitted
    <3>5. ASSUME NEW m \in BagToSet(net),
                 HandleBindActorAddressResponse(m) \/ HandleStreamIdWithdrawal(m) \/ GiveUp(m)
          PROVE  PermInv'
      BY <3>5, ResponsePermitted
    <3>6. CASE \/ \E f \in Flows : Revoke(f)
               \/ \E s \in Streams : HandleUnbindIndication(s)
               \/ DestinationLost \/ SourceDown \/ NodeDown \/ LinkUp
      BY <3>6, LossPermitted
    <3> QED BY <2>2, <3>1, <3>2, <3>3, <3>4, <3>5, <3>6 DEF Next
  <2> QED BY <2>1, <2>2
<1>3. PermInv => OnlyPermitted BY DEF PermInv
<1> QED BY <1>1, <1>2, <1>3, FlowInvHolds, PTL DEF Spec
===============================================================================
