-------------------------- MODULE VisaServiceProofs --------------------------
(***************************************************************************)
(* While the node is registered the visa service knows the actors docked   *)
(* at it (SyncedActors), for every set of actors and however many faults   *)
(* and requests there are.                                                 *)
(*                                                                         *)
(* The inductive invariant, SyncInv, follows the channel of commands: each *)
(* command belongs to the call its task awaits (QueueInv, TaskInv), no     *)
(* connect that makes the visa service forget the node survives the        *)
(* registration behind it (ClaimInv), and a node that told the visa        *)
(* service to forget it restarts the run loop before it registers again    *)
(* (RegInv).                                                               *)
(***************************************************************************)
EXTENDS VisaService, FiniteSetTheorems, TLAPS

Ops == {"connect", "register", "authorize", "disconnect", "reauthenticate", "restart", "stop"}

Cmds == [op : Ops, who : Callers \cup {"nobody"}, state : BOOLEAN]

Calls == [op : (Ops \ {"restart", "stop"}) \cup {"none"}, st : Answers \cup {"idle", "wait"}]

TypeOK ==
    /\ mgr \in [phase : {"dialing", "tls", "running", "delay", "stopped"}, handle : BOOLEAN,
                pings : {0, 1}]
    /\ cmds \in Seq(Cmds)
    /\ cur \in Cmds \cup {NoCall}
    /\ life \in Seq({"starts", "exits", "connected"})
    /\ wrk \in [pc : {"gate", "retry", "connecting", "registering", "deferring", "notifying",
                      "disconnecting", "panicked"}, state : BOOLEAN]
    /\ call \in [Callers -> Calls]
    /\ actor \in [Actors -> [st : {"out", "authorizing", "in", "leaving"}, early : BOOLEAN]]
    /\ vs \in [conn : BOOLEAN, state : BOOLEAN, known : SUBSET Actors, registered : BOOLEAN]
    /\ vsLink \in {"up", "down"}
    /\ deferred \in BOOLEAN
    /\ inFlight \in BOOLEAN
    /\ exit \in {"no", "peers", "vs", "done"}
    /\ count \in [faults : Nat, requests : Nat]

\* The run loop serves and is connected only while it runs, nothing but a connect is served
\* before it is connected, and the channel of a stopped manager is empty.
MgrInv ==
    /\ mgr.handle => mgr.phase = "running"
    /\ mgr.phase = "stopped" => cmds = <<>>
    /\ cur # NoCall =>
          /\ mgr.phase = "running"
          /\ cur.op # "restart"
          /\ mgr.handle <=> cur.op # "connect"

\* A command in the channel or in service belongs to the call its task awaits, or to nobody;
\* no task has two.
Pending(c) ==
    /\ c.who \in Callers => call[c.who] = [op |-> c.op, st |-> "wait"]
    /\ c.who \notin Callers => c.op \in {"connect", "restart", "stop"}

QueueInv ==
    /\ \A i \in 1 .. Len(cmds) : Pending(cmds[i])
    /\ \A i, j \in 1 .. Len(cmds) : i # j /\ cmds[i].who \in Callers => cmds[i].who # cmds[j].who
    /\ cur # NoCall =>
          /\ Pending(cur)
          /\ cur.who \in Callers => \A i \in 1 .. Len(cmds) : cmds[i].who # cur.who

WorkerOp ==
    CASE wrk.pc = "connecting"  -> "connect"
      [] wrk.pc = "registering" -> "register"
      [] wrk.pc = "deferring"   -> "authorize"
      [] wrk.pc = "notifying"   -> "disconnect"
      [] OTHER                  -> "none"

\* What each task awaits follows from where it is.
TaskInv ==
    /\ \A w \in Callers : call[w].op = "none" <=> call[w].st = "idle"
    /\ call["worker"].op = WorkerOp
    /\ call["self"].op = IF inFlight THEN "reauthenticate" ELSE "none"
    /\ \A a \in Actors :
          call[a].op \in CASE actor[a].st = "in"          -> {"none"}
                           [] actor[a].st = "leaving"     -> {"disconnect"}
                           [] actor[a].st = "authorizing" -> {"authorize"}
                           [] actor[a].st = "out"         -> {"none", "authorize"}

IsReset(c) == c.op = "connect" /\ ~c.state
IsConnect(c) == c.op = "connect"

\* No command that makes the visa service forget the node is left once the worker claims
\* state: a registration is behind every connect.
ClaimInv ==
    /\ wrk.state => (\A i \in 1 .. Len(cmds) : ~IsReset(cmds[i])) /\ (cur # NoCall => ~IsReset(cur))
    /\ wrk.pc = "deferring" =>
          (\A i \in 1 .. Len(cmds) : ~IsConnect(cmds[i])) /\ (cur # NoCall => ~IsConnect(cur))
    /\ wrk.pc = "registering" =>
          /\ \A i \in 1 .. Len(cmds) : IsConnect(cmds[i]) =>
                \E j \in 1 .. Len(cmds) : j > i /\ cmds[j].who = "worker"
          /\ cur # NoCall /\ IsConnect(cur) => \E j \in 1 .. Len(cmds) : cmds[j].who = "worker"

\* An actor that is docked, or is about to be.
Admitted(a) ==
    /\ ~actor[a].early
    /\ actor[a].st = "in" \/ (actor[a].st = "authorizing" /\ call[a].st = "ok")

\* Only a worker that claims state admits actors that count, and as long as the visa service
\* has the node's state it knows them.
KnownInv ==
    /\ \A a \in Actors : actor[a].st \in {"authorizing", "in"} /\ ~actor[a].early => wrk.state
    /\ vs.state => \A a \in Actors : Admitted(a) => a \in vs.known

\* A node is registered only over the connection on which the visa service took its state;
\* one that told the visa service to forget it recycles the run loop before it registers.
RestartFirst ==
    \E i \in 1 .. Len(cmds) :
        /\ cmds[i].op = "restart"
        /\ \A j \in 1 .. Len(cmds) : cmds[j].op = "register" => j > i

RegInv ==
    /\ vs.registered => mgr.handle /\ vs.state
    /\ vs.conn /\ mgr.handle /\ ~vs.state =>
          /\ cur # NoCall => cur.op # "register"
          /\ (wrk.pc = "notifying" /\ call["worker"].st # "wait") \/ RestartFirst

SyncInv == TypeOK /\ MgrInv /\ QueueInv /\ TaskInv /\ ClaimInv /\ KnownInv /\ RegInv

-------------------------------------------------------------------------------
(* The channel.                                                            *)

LEMMA SetToSeqResult ==
    ASSUME NEW S, IsFiniteSet(S)
    PROVE  /\ Cardinality(S) \in Nat
           /\ SetToSeq(S) \in [1 .. Cardinality(S) -> S]
           /\ \A i, j \in 1 .. Cardinality(S) : i # j => SetToSeq(S)[i] # SetToSeq(S)[j]
<1> DEFINE n == Cardinality(S)
<1>1. n \in Nat /\ ExistsBijection(1 .. n, S)
  BY FS_CardinalityType
<1>2. PICK f \in [1 .. n -> S] : IsInjective(f)
  <2>1. \E f \in Bijection(1 .. n, S) : TRUE
    BY <1>1 DEF ExistsBijection
  <2>2. PICK f \in Bijection(1 .. n, S) : TRUE
    BY <2>1
  <2>3. f \in Injection(1 .. n, S)
    BY <2>2 DEF Bijection
  <2> QED BY <2>3 DEF Injection
<1>3. SetToSeq(S) \in [1 .. n -> S] /\ IsInjective(SetToSeq(S))
  BY <1>2 DEF SetToSeq
<1> QED BY <1>1, <1>3 DEF IsInjective

\* Commands of the tasks in who are added to the channel, unless it is closed.
Grows(op, who) ==
    /\ cmds' \in Seq(Cmds)
    /\ Len(cmds') >= Len(cmds)
    /\ \A i \in 1 .. Len(cmds) : cmds'[i] = cmds[i]
    /\ \A i \in 1 .. Len(cmds') : i > Len(cmds) =>
          /\ cmds'[i].op = op /\ cmds'[i].who \in who
          /\ cmds'[i].state = (cmds'[i].who = "self" \/ wrk.state)
    /\ \A i, j \in 1 .. Len(cmds') : i > Len(cmds) /\ j > Len(cmds) /\ i # j =>
          cmds'[i].who # cmds'[j].who
    /\ mgr.phase = "stopped" => Len(cmds') = Len(cmds)

LEMMA MakeCallsGrows ==
    ASSUME TypeOK, NEW op \in Ops, NEW who \in SUBSET Callers, IsFiniteSet(who), NEW c,
           MakeCalls(c, op, who)
    PROVE  /\ Grows(op, who)
           /\ mgr.phase # "stopped" => Len(cmds') = Len(cmds) + Cardinality(who)
<1> DEFINE n == Cardinality(who)
           f == SetToSeq(who)
           ext == [i \in 1 .. n |-> Command(op, f[i])]
<1>1. /\ n \in Nat /\ f \in [1 .. n -> who]
      /\ \A i, j \in 1 .. n : i # j => f[i] # f[j]
  BY SetToSeqResult
<1>2. cmds \in Seq(Cmds) /\ wrk.state \in BOOLEAN /\ Len(cmds) \in Nat
  BY DEF TypeOK
<1>3. CASE mgr.phase = "stopped"
  <2>1. cmds' = cmds
    BY <1>3 DEF MakeCalls
  <2> QED BY <1>2, <1>3, <2>1 DEF Grows
<1>4. CASE mgr.phase # "stopped"
  <2>1. cmds' = cmds \o ext
    BY <1>4 DEF MakeCalls
  <2> HIDE DEF n, f
  <2>2. \A i \in 1 .. n :
           /\ ext[i] \in Cmds /\ ext[i].op = op /\ ext[i].who = f[i]
           /\ ext[i].state = (f[i] = "self" \/ wrk.state)
    BY <1>1, <1>2 DEF Command, Cmds
  <2>3. ext \in Seq(Cmds) /\ Len(ext) = n
    BY <1>1, <2>2
  <2> HIDE DEF ext
  <2>4. /\ cmds' \in Seq(Cmds) /\ Len(cmds') = Len(cmds) + n
        /\ \A i \in 1 .. Len(cmds) : cmds'[i] = cmds[i]
        /\ \A i \in 1 .. Len(ext) : cmds'[Len(cmds) + i] = ext[i]
    <3>1. cmds \in Seq(Cmds) /\ ext \in Seq(Cmds)
      BY <1>2, <2>3
    <3>2. /\ cmds \o ext \in Seq(Cmds) /\ Len(cmds \o ext) = Len(cmds) + Len(ext)
          /\ \A i \in 1 .. Len(cmds) : (cmds \o ext)[i] = cmds[i]
          /\ \A i \in 1 .. Len(ext) : (cmds \o ext)[Len(cmds) + i] = ext[i]
      BY ONLY <3>1
    <3> QED BY <2>1, <2>3, <3>2
  <2>5. ASSUME NEW i \in 1 .. Len(cmds'), i > Len(cmds)
        PROVE  i - Len(cmds) \in 1 .. n /\ cmds'[i] = ext[i - Len(cmds)]
    <3>1. i - Len(cmds) \in 1 .. n /\ Len(cmds) + (i - Len(cmds)) = i
      BY <1>1, <1>2, <2>4, <2>5
    <3> QED BY <2>3, <2>4, <3>1
  <2>6. \A i \in 1 .. Len(cmds') : i > Len(cmds) =>
          /\ cmds'[i].op = op /\ cmds'[i].who \in who
          /\ cmds'[i].state = (cmds'[i].who = "self" \/ wrk.state)
    BY <1>1, <2>2, <2>5
  <2>7. ASSUME NEW i \in 1 .. Len(cmds'), NEW j \in 1 .. Len(cmds'),
               i > Len(cmds), j > Len(cmds), i # j
        PROVE  cmds'[i].who # cmds'[j].who
    <3>1. i - Len(cmds) # j - Len(cmds)
      BY <1>2, <2>4, <2>7, <1>1
    <3> QED BY <1>1, <2>2, <2>5, <2>7, <3>1
  <2>8. Len(cmds') >= Len(cmds)
    BY <1>1, <1>2, <2>4
  <2> QED BY <1>4, <2>4, <2>6, <2>7, <2>8 DEF Grows, n
<1> QED BY <1>3, <1>4

LEMMA SendGrows ==
    ASSUME TypeOK, NEW op \in {"restart", "stop"}, Send(op)
    PROVE  /\ Grows(op, {"nobody"})
           /\ mgr.phase # "stopped" => Len(cmds') = Len(cmds) + 1
<1>1. cmds \in Seq(Cmds) /\ wrk.state \in BOOLEAN /\ Len(cmds) \in Nat
  BY DEF TypeOK
<1> DEFINE c == Command(op, "nobody")
<1>2. c \in Cmds /\ c.op = op /\ c.who = "nobody" /\ c.state = (c.who = "self" \/ wrk.state)
  BY <1>1 DEF Command, Cmds, Ops
<1>3. CASE mgr.phase = "stopped"
  <2>1. cmds' = cmds
    BY <1>3 DEF Send
  <2> QED BY <1>1, <1>3, <2>1 DEF Grows
<1>4. CASE mgr.phase # "stopped"
  <2>1. cmds' = Append(cmds, c)
    BY <1>4 DEF Send
  <2> HIDE DEF c
  <2>2. /\ cmds' \in Seq(Cmds) /\ Len(cmds') = Len(cmds) + 1
        /\ \A i \in 1 .. Len(cmds) : cmds'[i] = cmds[i]
        /\ cmds'[Len(cmds) + 1] = c
    BY <1>1, <1>2, <2>1
  <2>3. \A i \in 1 .. Len(cmds') : i > Len(cmds) => i = Len(cmds) + 1
    BY <1>1, <2>2
  <2> QED BY <1>1, <1>2, <1>4, <2>2, <2>3 DEF Grows
<1> QED BY <1>3, <1>4

\* The first command leaves the channel.
Shifts ==
    /\ Len(cmds) \in Nat \ {0}
    /\ cmds' \in Seq(Cmds) /\ Len(cmds') = Len(cmds) - 1
    /\ \A i \in 1 .. Len(cmds') : cmds'[i] = cmds[i + 1]
    /\ cmds[1] \in Cmds /\ Head(cmds) = cmds[1]

LEMMA TailShifts ==
    ASSUME TypeOK, cmds # <<>>, cmds' = Tail(cmds)
    PROVE  Shifts
<1>1. cmds \in Seq(Cmds) /\ Len(cmds) \in Nat
  BY DEF TypeOK
<1>2. Len(cmds) \in Nat \ {0} /\ cmds[1] \in Cmds /\ Head(cmds) = cmds[1]
  BY <1>1
<1>3. /\ Tail(cmds) \in Seq(Cmds) /\ Len(Tail(cmds)) = Len(cmds) - 1
      /\ \A i \in 1 .. Len(cmds) - 1 : Tail(cmds)[i] = cmds[i + 1]
  BY <1>1, <1>2
<1> QED BY <1>2, <1>3 DEF Shifts

LEMMA CmdAt ==
    ASSUME TypeOK
    PROVE  /\ Len(cmds) \in Nat
           /\ \A i \in 1 .. Len(cmds) : cmds[i] \in Cmds
           /\ cur # NoCall => cur \in Cmds
  BY DEF TypeOK

LEMMA NoCallNoCmd == NoCall \notin Cmds /\ NoCall.op = "none" /\ NoCall.st = "idle"
<1>1. NoCall.op = "none" /\ NoCall.st = "idle"
  BY DEF NoCall
<1>2. \A c \in Cmds : c.op # "none"
  BY DEF Cmds, Ops
<1> QED BY <1>1, <1>2

-------------------------------------------------------------------------------
(* Who owns a command.                                                     *)

\* Tasks whose call the step leaves, or that do not wait, have nothing to lose.
LEMMA QueueGrow ==
    ASSUME TypeOK, MgrInv, QueueInv, NEW op, NEW who, Grows(op, who), cur' = cur,
           \A w \in Callers :
              IF w \in who
              THEN /\ call[w].st # "wait"
                   /\ mgr.phase # "stopped" => call'[w] = [op |-> op, st |-> "wait"]
              ELSE call'[w] = call[w] \/ call[w].st # "wait",
           who \subseteq Callers \/ op \in {"connect", "restart", "stop"}
    PROVE  QueueInv'
<1>1. /\ Len(cmds) \in Nat /\ Len(cmds') \in Nat /\ Len(cmds') >= Len(cmds)
      /\ \A i \in 1 .. Len(cmds) : cmds'[i] = cmds[i] /\ i \in 1 .. Len(cmds')
      /\ \A i \in 1 .. Len(cmds') : i \in 1 .. Len(cmds) \/ i > Len(cmds)
  BY DEF TypeOK, Grows
<1>2. \A c : Pending(c) /\ c.who \in Callers => c.who \notin who /\ call'[c.who] = call[c.who]
  BY DEF Pending
<1>3. ASSUME NEW c, Pending(c)
      PROVE  Pending(c)'
  BY <1>2, <1>3 DEF Pending
<1>4. ASSUME NEW i \in 1 .. Len(cmds'), i > Len(cmds)
      PROVE  Pending(cmds[i])' /\ cmds'[i].who \in who
  <2>1. mgr.phase # "stopped"
    BY <1>1, <1>4 DEF Grows
  <2>2. cmds'[i].op = op /\ cmds'[i].who \in who
    BY <1>4 DEF Grows
  <2> QED BY <2>1, <2>2 DEF Pending
<1>5. \A i \in 1 .. Len(cmds) : Pending(cmds[i])
  BY DEF QueueInv
<1>6. \A i \in 1 .. Len(cmds) : Pending(cmds[i])'
  BY <1>1, <1>3, <1>5
<1>7. \A i \in 1 .. Len(cmds') : Pending(cmds[i])'
  BY <1>1, <1>4, <1>6
<1>8. ASSUME NEW i \in 1 .. Len(cmds'), NEW j \in 1 .. Len(cmds'), i # j, cmds'[i].who \in Callers
      PROVE  cmds'[i].who # cmds'[j].who
  <2>1. CASE i \in 1 .. Len(cmds) /\ j \in 1 .. Len(cmds)
    BY <1>1, <1>8, <2>1 DEF QueueInv
  <2>2. CASE i \in 1 .. Len(cmds) /\ j > Len(cmds)
    <3>1. cmds'[i].who \notin who
      BY <1>1, <1>2, <1>5, <1>8, <2>2
    <3> QED BY <1>4, <2>2, <3>1
  <2>3. CASE i > Len(cmds) /\ j \in 1 .. Len(cmds)
    <3>1. cmds'[j].who \in Callers => cmds'[j].who \notin who
      BY <1>1, <1>2, <1>5, <2>3
    <3> QED BY <1>4, <1>8, <2>3, <3>1
  <2>4. CASE i > Len(cmds) /\ j > Len(cmds)
    BY <1>8, <2>4 DEF Grows
  <2> QED BY <1>1, <2>1, <2>2, <2>3, <2>4
<1>9. ASSUME cur' # NoCall
      PROVE  /\ Pending(cur)'
             /\ cur'.who \in Callers => \A i \in 1 .. Len(cmds') : cmds'[i].who # cur'.who
  <2>1. Pending(cur) /\ (cur.who \in Callers => \A i \in 1 .. Len(cmds) : cmds[i].who # cur.who)
    BY <1>9 DEF QueueInv
  <2>2. cur.who \in Callers => cur.who \notin who
    BY <1>2, <2>1
  <2>3. Pending(cur)'
    BY <2>1, <2>2 DEF Pending
  <2> QED BY <1>1, <1>4, <2>1, <2>2, <2>3
<1> QED BY <1>7, <1>8, <1>9 DEF QueueInv

LEMMA QueueFrame ==
    ASSUME TypeOK, QueueInv, cmds' = cmds, cur' = cur,
           \A w \in Callers : call'[w] = call[w] \/ call[w].st # "wait"
    PROVE  QueueInv'
<1>1. \A i \in 1 .. Len(cmds) : Pending(cmds[i])'
  BY DEF QueueInv, Pending
<1>2. cur # NoCall => Pending(cur)'
  BY DEF QueueInv, Pending
<1> QED BY <1>1, <1>2 DEF QueueInv

\* The first command is answered or dropped.
LEMMA QueueAnswerHead ==
    ASSUME TypeOK, QueueInv, Shifts, cur = NoCall, cur' = NoCall,
           \A w \in Callers : w # cmds[1].who => call'[w] = call[w]
    PROVE  QueueInv'
<1>1. \A i \in 1 .. Len(cmds') : i + 1 \in 1 .. Len(cmds) /\ i + 1 # 1 /\ cmds'[i] = cmds[i + 1]
  BY DEF Shifts
<1>2. \A i \in 1 .. Len(cmds') : cmds[i + 1].who \in Callers => cmds[i + 1].who # cmds[1].who
  <2>1. 1 \in 1 .. Len(cmds)
    BY DEF Shifts
  <2> QED BY <1>1, <2>1 DEF QueueInv
<1>3. \A i \in 1 .. Len(cmds') : Pending(cmds[i])'
  BY <1>1, <1>2 DEF QueueInv, Pending
<1>4. \A i, j \in 1 .. Len(cmds') : i # j => i + 1 # j + 1
  BY DEF Shifts
<1>5. ASSUME NEW i \in 1 .. Len(cmds'), NEW j \in 1 .. Len(cmds'), i # j, cmds'[i].who \in Callers
      PROVE  cmds'[i].who # cmds'[j].who
  <2>1. i + 1 \in 1 .. Len(cmds) /\ j + 1 \in 1 .. Len(cmds) /\ i + 1 # j + 1
    BY <1>1, <1>4, <1>5
  <2>2. cmds'[i] = cmds[i + 1] /\ cmds'[j] = cmds[j + 1]
    BY <1>1
  <2>3. cmds[i + 1].who # cmds[j + 1].who
    BY <1>5, <2>1, <2>2 DEF QueueInv
  <2> QED BY <2>2, <2>3
<1> QED BY <1>3, <1>5 DEF QueueInv

LEMMA QueueTake ==
    ASSUME TypeOK, QueueInv, Shifts, cur = NoCall, cur' = cmds[1], call' = call
    PROVE  QueueInv'
<1>1. \A i \in 1 .. Len(cmds') : i + 1 \in 1 .. Len(cmds) /\ i + 1 # 1 /\ cmds'[i] = cmds[i + 1]
  BY DEF Shifts
<1>0. 1 \in 1 .. Len(cmds)
  BY DEF Shifts
<1>2. cmds[1].who \in Callers => \A i \in 1 .. Len(cmds') : cmds'[i].who # cmds[1].who
  BY <1>0, <1>1 DEF QueueInv
<1>3. \A i \in 1 .. Len(cmds') : Pending(cmds[i])'
  BY <1>1 DEF QueueInv, Pending
<1>4. \A i, j \in 1 .. Len(cmds') : i # j => i + 1 # j + 1
  BY DEF Shifts
<1>5. ASSUME NEW i \in 1 .. Len(cmds'), NEW j \in 1 .. Len(cmds'), i # j, cmds'[i].who \in Callers
      PROVE  cmds'[i].who # cmds'[j].who
  <2>1. i + 1 \in 1 .. Len(cmds) /\ j + 1 \in 1 .. Len(cmds) /\ i + 1 # j + 1
    BY <1>1, <1>4, <1>5
  <2>2. cmds'[i] = cmds[i + 1] /\ cmds'[j] = cmds[j + 1]
    BY <1>1
  <2>3. cmds[i + 1].who # cmds[j + 1].who
    BY <1>5, <2>1, <2>2 DEF QueueInv
  <2> QED BY <2>2, <2>3
<1>6. Pending(cur)'
  BY <1>0 DEF QueueInv, Pending
<1> QED BY <1>2, <1>3, <1>5, <1>6 DEF QueueInv

\* The command in service is answered.
LEMMA QueueAnswerCur ==
    ASSUME TypeOK, QueueInv, cmds' = cmds, cur # NoCall, cur' = NoCall,
           \A w \in Callers : w # cur.who => call'[w] = call[w]
    PROVE  QueueInv'
<1>1. \A i \in 1 .. Len(cmds) : cmds[i].who \in Callers => call'[cmds[i].who] = call[cmds[i].who]
  BY DEF QueueInv
<1>2. \A i \in 1 .. Len(cmds) : Pending(cmds[i])'
  BY <1>1 DEF QueueInv, Pending
<1> QED BY <1>2 DEF QueueInv

LEMMA QueueEmpty == cmds' = <<>> /\ cur' = NoCall => QueueInv'
  BY DEF QueueInv

-------------------------------------------------------------------------------
(* Connects and registrations.                                             *)

LEMMA ClaimFrame ==
    ASSUME ClaimInv, cmds' = cmds, cur' \in {cur, NoCall}, wrk'.state => wrk.state,
           wrk'.pc = wrk.pc \/ wrk'.pc \notin {"deferring", "registering"}
    PROVE  ClaimInv'
<1>1. cur' # NoCall => cur # NoCall /\ cur' = cur
  OBVIOUS
<1> QED BY <1>1 DEF ClaimInv, IsReset, IsConnect

LEMMA ClaimEmpty == cmds' = <<>> /\ cur' = NoCall => ClaimInv'
  BY DEF ClaimInv

LEMMA ClaimShift ==
    ASSUME ClaimInv, Shifts, cur = NoCall, cur' \in {NoCall, cmds[1]}, wrk' = wrk
    PROVE  ClaimInv'
<1>0. 1 \in 1 .. Len(cmds) /\ Len(cmds') \in Nat
  BY DEF Shifts
<1>1. \A i \in 1 .. Len(cmds') : i + 1 \in 1 .. Len(cmds) /\ cmds'[i] = cmds[i + 1]
  BY DEF Shifts
<1>2. wrk.state => (\A i \in 1 .. Len(cmds') : ~IsReset(cmds'[i])) /\ (cur' # NoCall => ~IsReset(cur'))
  BY <1>0, <1>1 DEF ClaimInv
<1>3. wrk.pc = "deferring" =>
         (\A i \in 1 .. Len(cmds') : ~IsConnect(cmds'[i])) /\ (cur' # NoCall => ~IsConnect(cur'))
  BY <1>0, <1>1 DEF ClaimInv
<1>4. ASSUME wrk.pc = "registering", NEW i \in 1 .. Len(cmds), IsConnect(cmds[i])
      PROVE  \E j \in 1 .. Len(cmds') : j + 1 > i /\ cmds'[j].who = "worker"
  <2>1. PICK j \in 1 .. Len(cmds) : j > i /\ cmds[j].who = "worker"
    BY <1>4 DEF ClaimInv
  <2>2. j - 1 \in 1 .. Len(cmds') /\ (j - 1) + 1 = j
    BY <1>0, <2>1 DEF Shifts
  <2>3. cmds'[j - 1] = cmds[(j - 1) + 1]
    BY <1>1, <2>2
  <2> QED BY <2>1, <2>2, <2>3
<1>5. ASSUME wrk.pc = "registering", NEW i \in 1 .. Len(cmds'), IsConnect(cmds'[i])
      PROVE  \E j \in 1 .. Len(cmds') : j > i /\ cmds'[j].who = "worker"
  <2>1. i + 1 \in 1 .. Len(cmds) /\ IsConnect(cmds[i + 1])
    BY <1>1, <1>5
  <2>2. PICK j \in 1 .. Len(cmds') : j + 1 > i + 1 /\ cmds'[j].who = "worker"
    BY <1>4, <1>5, <2>1
  <2> QED BY <1>0, <2>2
<1>6. ASSUME wrk.pc = "registering", cur' # NoCall, IsConnect(cur')
      PROVE  \E j \in 1 .. Len(cmds') : cmds'[j].who = "worker"
  BY <1>0, <1>4, <1>6
<1> QED BY <1>2, <1>3, <1>5, <1>6 DEF ClaimInv, IsReset, IsConnect

LEMMA GrowAt ==
    ASSUME TypeOK, NEW op, NEW who, Grows(op, who)
    PROVE  /\ Len(cmds) \in Nat /\ Len(cmds') \in Nat /\ Len(cmds') >= Len(cmds)
           /\ \A i \in 1 .. Len(cmds) : cmds'[i] = cmds[i] /\ i \in 1 .. Len(cmds')
           /\ \A i \in 1 .. Len(cmds') :
                 i \in 1 .. Len(cmds) \/ (i > Len(cmds) /\ cmds'[i].op = op)
  BY DEF TypeOK, Grows

LEMMA ClaimGrow ==
    ASSUME TypeOK, ClaimInv, NEW op, NEW who, Grows(op, who), cur' = cur,
           wrk'.state => wrk.state,
           wrk'.pc = wrk.pc \/ wrk'.pc \notin {"deferring", "registering"},
           op # "connect" \/ wrk'.pc = "connecting"
    PROVE  ClaimInv'
<1>1. /\ Len(cmds) \in Nat /\ Len(cmds') \in Nat /\ Len(cmds') >= Len(cmds)
      /\ \A i \in 1 .. Len(cmds) : cmds'[i] = cmds[i] /\ i \in 1 .. Len(cmds')
      /\ \A i \in 1 .. Len(cmds') :
            i \in 1 .. Len(cmds) \/ (i > Len(cmds) /\ cmds'[i].op = op)
  BY GrowAt
<1>2. ASSUME wrk'.state, NEW i \in 1 .. Len(cmds') PROVE ~IsReset(cmds'[i])
  <2>1. CASE i \in 1 .. Len(cmds)
    BY <1>1, <1>2, <2>1 DEF ClaimInv
  <2>2. CASE i > Len(cmds)
    BY <1>2, <2>2 DEF Grows, IsReset
  <2> QED BY <1>1, <2>1, <2>2
<1>3. ASSUME wrk'.pc = "deferring", NEW i \in 1 .. Len(cmds') PROVE ~IsConnect(cmds'[i])
  BY <1>1, <1>3 DEF ClaimInv, IsConnect
<1>4. ASSUME wrk'.pc = "registering", NEW i \in 1 .. Len(cmds'), IsConnect(cmds'[i])
      PROVE  \E j \in 1 .. Len(cmds') : j > i /\ cmds'[j].who = "worker"
  <2>1. i \in 1 .. Len(cmds) /\ wrk.pc = "registering" /\ IsConnect(cmds[i])
    BY <1>1, <1>4 DEF IsConnect
  <2>2. PICK j \in 1 .. Len(cmds) : j > i /\ cmds[j].who = "worker"
    BY <2>1 DEF ClaimInv
  <2> QED BY <1>1, <2>2
<1>5. ASSUME wrk'.pc = "registering", cur' # NoCall, IsConnect(cur')
      PROVE  \E j \in 1 .. Len(cmds') : cmds'[j].who = "worker"
  <2>1. PICK j \in 1 .. Len(cmds) : cmds[j].who = "worker"
    BY <1>5 DEF ClaimInv
  <2> QED BY <1>1, <2>1
<1>6. /\ wrk'.state /\ cur' # NoCall => ~IsReset(cur')
      /\ wrk'.pc = "deferring" /\ cur' # NoCall => ~IsConnect(cur')
  BY DEF ClaimInv
<1> QED BY <1>2, <1>3, <1>4, <1>5, <1>6 DEF ClaimInv, IsReset, IsConnect

\* A registration goes behind every connect.
LEMMA ClaimRegister ==
    ASSUME TypeOK, MgrInv, ClaimInv, Grows("register", {"worker"}), cur' = cur,
           wrk'.state = wrk.state, wrk'.pc = "registering",
           mgr.phase # "stopped" => Len(cmds') = Len(cmds) + 1
    PROVE  ClaimInv'
<1> DEFINE op == "register"
           who == {"worker"}
<1>0. Grows(op, who) /\ op # "connect" /\ who = {"worker"}
  OBVIOUS
<1> HIDE DEF op, who
<1>1. /\ Len(cmds) \in Nat /\ Len(cmds') \in Nat /\ Len(cmds') >= Len(cmds)
      /\ \A i \in 1 .. Len(cmds) : cmds'[i] = cmds[i] /\ i \in 1 .. Len(cmds')
      /\ \A i \in 1 .. Len(cmds') :
            i \in 1 .. Len(cmds) \/ (i > Len(cmds) /\ cmds'[i].op = op)
  BY <1>0, GrowAt
<1>2. ASSUME wrk'.state, NEW i \in 1 .. Len(cmds') PROVE ~IsReset(cmds'[i])
  BY <1>0, <1>1, <1>2 DEF ClaimInv, IsReset
<1>3. CASE mgr.phase = "stopped"
  <2>1. Len(cmds') = 0 /\ cur = NoCall
    BY <1>0, <1>3 DEF MgrInv, Grows
  <2> QED BY <1>2, <2>1 DEF ClaimInv
<1>4. CASE mgr.phase # "stopped"
  <2> DEFINE n == Len(cmds) + 1
  <2>1. n \in 1 .. Len(cmds') /\ n > Len(cmds)
    BY <1>1, <1>4
  <2>2. cmds'[n].who = "worker"
    BY <1>0, <2>1 DEF Grows
  <2> HIDE DEF n
  <2>3. ASSUME NEW i \in 1 .. Len(cmds'), IsConnect(cmds'[i])
        PROVE  \E j \in 1 .. Len(cmds') : j > i /\ cmds'[j].who = "worker"
    <3>1. i \in 1 .. Len(cmds)
      BY <1>0, <1>1, <2>3 DEF IsConnect
    <3> QED BY <1>1, <2>1, <2>2, <3>1
  <2>4. wrk'.state /\ cur' # NoCall => ~IsReset(cur')
    BY DEF ClaimInv
  <2> QED BY <1>2, <2>1, <2>2, <2>3, <2>4 DEF ClaimInv, IsReset, IsConnect
<1> QED BY <1>3, <1>4

\* Once a registration is answered every earlier connect has been too.
LEMMA NoConnects ==
    ASSUME QueueInv, ClaimInv, wrk.pc = "registering", call["worker"].st # "wait"
    PROVE  /\ \A i \in 1 .. Len(cmds) : ~IsConnect(cmds[i])
           /\ cur # NoCall => ~IsConnect(cur)
<1>1. ASSUME NEW j \in 1 .. Len(cmds), cmds[j].who = "worker" PROVE FALSE
  <2>1. Pending(cmds[j])
    BY DEF QueueInv
  <2>2. "worker" \in Callers
    BY DEF Callers
  <2>3. call["worker"] = [op |-> cmds[j].op, st |-> "wait"]
    BY <1>1, <2>1, <2>2 DEF Pending
  <2> QED BY <2>3
<1> QED BY <1>1 DEF ClaimInv

-------------------------------------------------------------------------------
(* The restart after a failed registration.                                *)

LEMMA RestartShift ==
    ASSUME Shifts, RestartFirst, cmds[1].op # "restart"
    PROVE  RestartFirst' /\ cmds[1].op # "register"
<1>1. PICK i \in 1 .. Len(cmds) :
         /\ cmds[i].op = "restart"
         /\ \A j \in 1 .. Len(cmds) : cmds[j].op = "register" => j > i
  BY DEF RestartFirst
<1>2. 1 \in 1 .. Len(cmds) /\ Len(cmds') \in Nat /\ Len(cmds) \in Nat
  BY DEF Shifts
<1>3. i # 1 /\ i - 1 \in 1 .. Len(cmds') /\ (i - 1) + 1 = i
  BY <1>1, <1>2 DEF Shifts
<1>4. cmds'[i - 1].op = "restart"
  BY <1>1, <1>3 DEF Shifts
<1>5. ASSUME NEW j \in 1 .. Len(cmds'), cmds'[j].op = "register" PROVE j > i - 1
  <2>1. j + 1 \in 1 .. Len(cmds) /\ cmds'[j] = cmds[j + 1]
    BY DEF Shifts
  <2>2. j + 1 > i
    BY <1>1, <1>5, <2>1
  <2> QED BY <1>2, <1>3, <2>2
<1>6. cmds[1].op # "register"
  BY <1>1, <1>2
<1> QED BY <1>3, <1>4, <1>5, <1>6 DEF RestartFirst

LEMMA RestartGrow ==
    ASSUME TypeOK, NEW op, NEW who, Grows(op, who), RestartFirst
    PROVE  RestartFirst'
<1>1. /\ Len(cmds) \in Nat /\ Len(cmds') \in Nat /\ Len(cmds') >= Len(cmds)
      /\ \A i \in 1 .. Len(cmds) : cmds'[i] = cmds[i] /\ i \in 1 .. Len(cmds')
      /\ \A i \in 1 .. Len(cmds') :
            i \in 1 .. Len(cmds) \/ (i > Len(cmds) /\ cmds'[i].op = op)
  BY GrowAt
<1>2. PICK i \in 1 .. Len(cmds) :
         /\ cmds[i].op = "restart"
         /\ \A j \in 1 .. Len(cmds) : cmds[j].op = "register" => j > i
  BY DEF RestartFirst
<1>3. ASSUME NEW j \in 1 .. Len(cmds'), cmds'[j].op = "register" PROVE j > i
  BY <1>1, <1>2, <1>3
<1> QED BY <1>1, <1>2, <1>3 DEF RestartFirst

-------------------------------------------------------------------------------
(* Calls and answers.                                                      *)

LEMMA CallerFacts ==
    /\ "worker" \in Callers /\ "self" \in Callers /\ Actors \subseteq Callers
    /\ "nobody" \notin Callers
    /\ \A a \in Actors : a # "worker" /\ a # "self" /\ a # "nobody"
    /\ \A w \in Callers : w = "worker" \/ w = "self" \/ w \in Actors
  BY VisaServiceAssumption DEF Callers

LEMMA TellResult ==
    ASSUME TypeOK, NEW W, NEW ans \in Answers, call' = Tell(call, W, ans)
    PROVE  /\ call' \in [Callers -> Calls]
           /\ \A w \in Callers :
                 /\ call'[w].op = call[w].op
                 /\ call'[w].st = IF w \in W THEN ans ELSE call[w].st
                 /\ w \notin W => call'[w] = call[w]
<1>1. call \in [Callers -> Calls]
  BY DEF TypeOK
<1>2. \A w \in Callers : /\ [call[w] EXCEPT !.st = ans] \in Calls
                         /\ [call[w] EXCEPT !.st = ans].op = call[w].op
                         /\ [call[w] EXCEPT !.st = ans].st = ans
  BY <1>1 DEF Calls
<1>3. \A w \in Callers : call'[w] = IF w \in W THEN [call[w] EXCEPT !.st = ans] ELSE call[w]
  BY DEF Tell
<1>4. call' \in [Callers -> Calls]
  BY <1>1, <1>2 DEF Tell
<1> QED BY <1>2, <1>3, <1>4

LEMMA MakeCallsResult ==
    ASSUME NEW op \in Ops \ {"restart", "stop"}, NEW who \in SUBSET Callers,
           NEW c \in [Callers -> Calls], MakeCalls(c, op, who)
    PROVE  /\ call' \in [Callers -> Calls]
           /\ \A w \in Callers :
                 /\ w \in who => /\ call'[w].op = op /\ call'[w].st \in {"wait", "closed"}
                                 /\ mgr.phase # "stopped" => call'[w] = [op |-> op, st |-> "wait"]
                 /\ w \notin who => call'[w] = c[w]
<1> DEFINE r == [op |-> op, st |-> IF mgr.phase # "stopped" THEN "wait" ELSE "closed"]
<1>1. r \in Calls /\ r.op = op /\ r.st \in {"wait", "closed"}
  BY DEF Calls, Answers
<1>2. mgr.phase # "stopped" => r = [op |-> op, st |-> "wait"]
  OBVIOUS
<1>3. call' = [w \in Callers |-> IF w \in who THEN r ELSE c[w]]
  BY DEF MakeCalls
<1> HIDE DEF r
<1> QED BY <1>1, <1>2, <1>3

LEMMA TaskTell ==
    ASSUME TypeOK, TaskInv, NEW W, NEW ans \in Answers, call' = Tell(call, W, ans),
           \A w \in Callers : w \in W => call[w].st = "wait",
           wrk' = wrk, actor' = actor, inFlight' = inFlight
    PROVE  TaskInv'
<1>1. \A w \in Callers :
         /\ call'[w].op = call[w].op
         /\ call'[w].st = IF w \in W THEN ans ELSE call[w].st
  BY TellResult
<1>2. ans # "idle" /\ "wait" # "idle"
  BY DEF Answers
<1>3. \A w \in Callers : call'[w].op = "none" <=> call'[w].st = "idle"
  BY <1>1, <1>2 DEF TaskInv
<1>4. call'["worker"].op = WorkerOp'
  BY <1>1, CallerFacts DEF TaskInv, WorkerOp
<1>5. call'["self"].op = IF inFlight' THEN "reauthenticate" ELSE "none"
  BY <1>1, CallerFacts DEF TaskInv
<1>6. \A a \in Actors : call'[a].op = call[a].op
  BY <1>1, CallerFacts
<1> QED BY <1>3, <1>4, <1>5, <1>6 DEF TaskInv

\* A command's task waits.
LEMMA OwnersWait ==
    ASSUME QueueInv
    PROVE  /\ \A i \in 1 .. Len(cmds) : cmds[i].who \in Callers =>
                 call[cmds[i].who].op = cmds[i].op /\ call[cmds[i].who].st = "wait"
           /\ cur # NoCall /\ cur.who \in Callers =>
                 call[cur.who].op = cur.op /\ call[cur.who].st = "wait"
<1>1. ASSUME NEW c, Pending(c), c.who \in Callers
      PROVE  call[c.who].op = c.op /\ call[c.who].st = "wait"
  <2>1. call[c.who] = [op |-> c.op, st |-> "wait"]
    BY <1>1 DEF Pending
  <2> QED BY <2>1
<1>2. \A i \in 1 .. Len(cmds) : Pending(cmds[i])
  BY DEF QueueInv
<1>3. cur # NoCall => Pending(cur)
  BY DEF QueueInv
<1> QED BY <1>1, <1>2, <1>3

LEMMA TaskFrame ==
    ASSUME TaskInv, call' = call, WorkerOp' = WorkerOp, actor' = actor, inFlight' = inFlight
    PROVE  TaskInv'
  BY DEF TaskInv

LEMMA KnownFrame ==
    ASSUME KnownInv, actor' = actor, wrk.state => wrk'.state,
           \A a \in Actors : call'[a].st = "ok" => call[a].st = "ok",
           vs'.state => vs.state /\ vs.known \subseteq vs'.known
    PROVE  KnownInv'
  BY DEF KnownInv, Admitted

-------------------------------------------------------------------------------
(* Steps of the connection itself, the links and the process.              *)

LEMMA SyncParts == SyncInv => /\ TypeOK /\ MgrInv /\ QueueInv /\ TaskInv
                              /\ ClaimInv /\ KnownInv /\ RegInv
  BY DEF SyncInv

\* Nothing of the channel and the tasks changes.
LEMMA Quiet ==
    ASSUME SyncInv, UNCHANGED <<cmds, cur, call, wrk, actor, inFlight>>,
           TypeOK', MgrInv', RegInv',
           vs'.state => vs.state /\ vs.known \subseteq vs'.known
    PROVE  SyncInv'
<1>1. QueueInv'
  BY SyncParts, QueueFrame
<1>2. TaskInv'
  <2>1. WorkerOp' = WorkerOp
    BY DEF WorkerOp
  <2> QED BY <2>1, SyncParts, TaskFrame
<1>3. ClaimInv'
  BY SyncParts, ClaimFrame
<1>4. KnownInv'
  BY SyncParts, KnownFrame
<1> QED BY <1>1, <1>2, <1>3, <1>4 DEF SyncInv

LEMMA VsUnconnected ==
    ASSUME TypeOK
    PROVE  /\ Unconnected \in [conn : BOOLEAN, state : BOOLEAN, known : SUBSET Actors,
                               registered : BOOLEAN]
           /\ Unconnected.state = vs.state /\ Unconnected.known = vs.known
           /\ ~Unconnected.registered /\ ~Unconnected.conn
  BY DEF TypeOK, Unconnected

LEMMA RegFrame ==
    ASSUME RegInv, UNCHANGED <<cmds, cur, call, wrk>>,
           mgr'.handle = mgr.handle, vs'.conn => vs.conn \/ ~mgr.handle,
           vs'.state = vs.state, vs'.registered => vs.registered
    PROVE  RegInv'
<1>1. RestartFirst' = RestartFirst
  BY DEF RestartFirst
<1> QED BY <1>1 DEF RegInv

LEMMA DialKeeps == SyncInv /\ (Dial \/ DialFails \/ Redial \/ RunLoopStarts) => SyncInv'
<1> SUFFICES ASSUME SyncInv, Dial \/ DialFails \/ Redial \/ RunLoopStarts PROVE SyncInv'
  OBVIOUS
<1>1. UNCHANGED <<cmds, cur, call, wrk, actor, inFlight, deferred, exit, vsLink, count>>
  BY DEF Dial, DialFails, Redial, RunLoopStarts, node
<1>2. mgr.phase \in {"dialing", "tls", "delay"} /\ mgr'.phase \in {"dialing", "tls", "delay", "running"}
      /\ ~mgr'.handle /\ mgr' \in [phase : {"dialing", "tls", "running", "delay", "stopped"},
                                   handle : BOOLEAN, pings : {0, 1}]
  BY DEF Dial, DialFails, Redial, RunLoopStarts, NewVSConn, SyncInv, TypeOK, MgrInv, TlsConnected
<1>3. ~mgr.handle /\ cur = NoCall /\ ~vs.registered
  BY <1>2 DEF SyncInv, MgrInv, RegInv
<1>4. /\ vs' \in [conn : BOOLEAN, state : BOOLEAN, known : SUBSET Actors, registered : BOOLEAN]
      /\ vs'.state = vs.state /\ vs'.known = vs.known /\ ~vs'.registered
  BY <1>3, VsUnconnected DEF Dial, DialFails, Redial, RunLoopStarts, SyncInv, TypeOK
<1>5. life' \in Seq({"starts", "exits", "connected"})
  <2>1. life' = life \/ life' = Append(life, "starts")
    BY DEF Dial, DialFails, Redial, RunLoopStarts, SendLifecycleEvent
  <2>2. life \in Seq({"starts", "exits", "connected"})
    BY DEF SyncInv, TypeOK
  <2> QED BY <2>1, <2>2
<1>6. TypeOK'
  BY <1>1, <1>2, <1>4, <1>5 DEF SyncInv, TypeOK
<1>7. MgrInv'
  BY <1>1, <1>2, <1>3 DEF MgrInv
<1>8. RegInv'
  BY <1>2, <1>4 DEF RegInv
<1> QED BY <1>1, <1>4, <1>6, <1>7, <1>8, Quiet

LEMMA PingKeeps == SyncInv /\ Ping => SyncInv'
<1> SUFFICES ASSUME SyncInv, Ping PROVE SyncInv'
  OBVIOUS
<1>1. UNCHANGED <<cmds, cur, call, wrk, actor, inFlight, deferred, exit, vsLink, count>>
  BY DEF Ping, node
<1>2. mgr.phase = "running" /\ cur = NoCall /\ mgr.handle
  BY DEF Ping, Running
<1>3. CASE mgr'.handle
  <2>1. UNCHANGED <<vs, life>>
    BY <1>3 DEF Ping, LeaveWithError, NewVSConn
  <2>2. /\ mgr' \in [phase : {"dialing", "tls", "running", "delay", "stopped"},
                     handle : BOOLEAN, pings : {0, 1}]
        /\ mgr'.phase = "running"
    BY <1>2, <1>3 DEF Ping, LeaveWithError, NewVSConn, SyncInv, TypeOK
  <2>3. TypeOK'
    BY <1>1, <2>1, <2>2 DEF SyncInv, TypeOK
  <2>4. MgrInv'
    BY <1>1, <1>2, <2>2 DEF MgrInv
  <2>5. RegInv'
    BY <1>1, <1>2, <1>3, <2>1, RegFrame, SyncParts DEF SyncInv, TypeOK
  <2> QED BY <1>1, <2>1, <2>3, <2>4, <2>5, Quiet
<1>4. CASE ~mgr'.handle
  <2>1. LeaveWithError
    BY <1>2, <1>4 DEF Ping, SyncInv, TypeOK
  <2>2. /\ mgr' \in [phase : {"dialing", "tls", "running", "delay", "stopped"},
                     handle : BOOLEAN, pings : {0, 1}]
        /\ mgr'.phase = "delay"
    BY <2>1 DEF LeaveWithError, NewVSConn
  <2>3. /\ vs' \in [conn : BOOLEAN, state : BOOLEAN, known : SUBSET Actors, registered : BOOLEAN]
        /\ vs'.state = vs.state /\ vs'.known = vs.known /\ ~vs'.registered
    BY <2>1, VsUnconnected DEF LeaveWithError, SyncInv
  <2>4. life' \in Seq({"starts", "exits", "connected"})
    BY <2>1 DEF LeaveWithError, SendLifecycleEvent, SyncInv, TypeOK
  <2>5. TypeOK'
    BY <1>1, <2>2, <2>3, <2>4 DEF SyncInv, TypeOK
  <2>6. MgrInv'
    BY <1>1, <1>2, <1>4, <2>2 DEF MgrInv
  <2>7. RegInv'
    BY <1>4, <2>3 DEF RegInv
  <2> QED BY <1>1, <2>3, <2>5, <2>6, <2>7, Quiet
<1> QED BY <1>3, <1>4

LEMMA OutsideKeeps ==
    SyncInv /\ (VsLinkUp \/ VsCrash \/ ForcedExit \/ ShutdownDone) => SyncInv'
<1> SUFFICES ASSUME SyncInv, VsLinkUp \/ VsCrash \/ ForcedExit \/ ShutdownDone PROVE SyncInv'
  OBVIOUS
<1>1. UNCHANGED <<mgr, cmds, cur, call, wrk, actor, inFlight, life>>
  BY DEF VsLinkUp, VsCrash, ForcedExit, ShutdownDone, conn, node
<1>2. CASE VsCrash
  <2>1. vs' = [conn |-> FALSE, state |-> FALSE, known |-> {}, registered |-> FALSE]
        /\ UNCHANGED <<deferred, exit, vsLink>>
        /\ count' \in [faults : Nat, requests : Nat]
    BY <1>2 DEF VsCrash, Fault, node, SyncInv, TypeOK
  <2>2. /\ vs' \in [conn : BOOLEAN, state : BOOLEAN, known : SUBSET Actors, registered : BOOLEAN]
        /\ ~vs'.state /\ ~vs'.conn /\ ~vs'.registered
    BY <2>1
  <2>3. TypeOK'
    BY <1>1, <2>1, <2>2 DEF SyncInv, TypeOK
  <2>4. MgrInv'
    BY <1>1 DEF SyncInv, MgrInv
  <2>5. RegInv'
    BY <2>2 DEF RegInv
  <2> QED BY <1>1, <2>2, <2>3, <2>4, <2>5, Quiet
<1>3. CASE VsLinkUp \/ ForcedExit \/ ShutdownDone
  <2>1. /\ UNCHANGED <<vs, count>> /\ deferred' \in BOOLEAN /\ vsLink' \in {"up", "down"}
        /\ exit' \in {"no", "peers", "vs", "done"}
    BY <1>3 DEF VsLinkUp, ForcedExit, ShutdownDone, SyncInv, TypeOK
  <2>2. TypeOK'
    BY <1>1, <2>1 DEF SyncInv, TypeOK
  <2>3. MgrInv'
    BY <1>1 DEF SyncInv, MgrInv
  <2>4. RegInv'
    BY <1>1, <2>1, RegFrame, SyncParts
  <2> QED BY <1>1, <2>1, <2>2, <2>3, <2>4, Quiet
<1> QED BY <1>2, <1>3

-------------------------------------------------------------------------------
(* Commands dropped, taken and served.                                     *)

Mgrs == [phase : {"dialing", "tls", "running", "delay", "stopped"}, handle : BOOLEAN,
         pings : {0, 1}]
Vss == [conn : BOOLEAN, state : BOOLEAN, known : SUBSET Actors, registered : BOOLEAN]
Lifes == Seq({"starts", "exits", "connected"})

LEMMA TypeFrame ==
    ASSUME TypeOK, mgr' \in Mgrs, cmds' \in Seq(Cmds), cur' \in Cmds \cup {NoCall},
           life' \in Lifes, call' \in [Callers -> Calls], vs' \in Vss,
           count' \in [faults : Nat, requests : Nat],
           UNCHANGED <<wrk, actor, deferred, inFlight, exit, vsLink>>
    PROVE  TypeOK'
  BY DEF TypeOK, Mgrs, Vss, Lifes

LEMMA LifeGrows ==
    ASSUME TypeOK, NEW e \in {"starts", "exits", "connected"}
    PROVE  life \in Lifes /\ Append(life, e) \in Lifes
  BY DEF TypeOK, Lifes

\* A refusal or a closed channel admits nobody.
LEMMA Refusing ==
    ASSUME SyncInv, NEW W, NEW ans \in Answers \ {"ok"}, call' = Tell(call, W, ans),
           \A w \in Callers : w \in W => call[w].st = "wait",
           wrk' = wrk, actor' = actor, inFlight' = inFlight,
           vs'.state => vs.state /\ vs.known \subseteq vs'.known
    PROVE  call' \in [Callers -> Calls] /\ TaskInv' /\ KnownInv'
<1>1. /\ call' \in [Callers -> Calls]
      /\ \A w \in Callers : call'[w].st = IF w \in W THEN ans ELSE call[w].st
  BY SyncParts, TellResult
<1>2. TaskInv'
  BY SyncParts, TaskTell
<1>3. \A a \in Actors : call'[a].st = "ok" => call[a].st = "ok"
  BY <1>1, CallerFacts
<1>4. KnownInv'
  BY <1>3, SyncParts, KnownFrame
<1> QED BY <1>1, <1>2, <1>4

\* The manager ends: what is left in its channel is dropped.
LEMMA Stopping ==
    ASSUME SyncInv, NEW W, call' = Tell(call, W, "closed"),
           \A w \in Callers : w \in W => call[w].st = "wait",
           cmds' = <<>>, cur' = NoCall, mgr' \in Mgrs, mgr'.phase = "stopped", ~mgr'.handle,
           life' \in Lifes, vs' \in Vss, ~vs'.registered,
           vs'.state => vs.state /\ vs.known \subseteq vs'.known,
           UNCHANGED <<wrk, actor, deferred, inFlight, exit, vsLink, count>>
    PROVE  SyncInv'
<1>1. call' \in [Callers -> Calls] /\ TaskInv' /\ KnownInv'
  <2> DEFINE ans == "closed"
  <2>1. ans \in Answers \ {"ok"} /\ call' = Tell(call, W, ans)
    BY DEF Answers
  <2> HIDE DEF ans
  <2> QED BY <2>1, Refusing
<1>2. TypeOK'
  <2>1. cmds' \in Seq(Cmds) /\ count \in [faults : Nat, requests : Nat]
    BY DEF SyncInv, TypeOK
  <2> QED BY <1>1, <2>1, SyncParts, TypeFrame
<1>3. MgrInv'
  BY DEF MgrInv
<1>4. RegInv'
  BY DEF RegInv
<1>5. QueueInv' /\ ClaimInv'
  BY QueueEmpty, ClaimEmpty
<1> QED BY <1>1, <1>2, <1>3, <1>4, <1>5 DEF SyncInv

\* Everyone whose command is in the channel waits.
LEMMA ChannelWaits ==
    ASSUME QueueInv
    PROVE  \A w \in Callers : w \in {cmds[i].who : i \in 1 .. Len(cmds)} => call[w].st = "wait"
  BY OwnersWait

LEMMA DropCommandKeeps == SyncInv /\ DropCommand => SyncInv'
<1> SUFFICES ASSUME SyncInv, DropCommand PROVE SyncInv'
  OBVIOUS
<1>0. TypeOK /\ MgrInv /\ QueueInv /\ TaskInv /\ ClaimInv /\ KnownInv /\ RegInv
  BY SyncParts
<1>1. /\ mgr.phase \in {"dialing", "delay"} /\ cmds # <<>> /\ mgr \in Mgrs /\ vs \in Vss
      /\ UNCHANGED <<cur, wrk, actor, deferred, inFlight, exit, vs, vsLink, count>>
  BY <1>0 DEF DropCommand, node, TypeOK, Mgrs, Vss
<1>2. cur = NoCall /\ ~mgr.handle /\ ~vs.registered
  BY <1>0, <1>1 DEF MgrInv, RegInv
<1>3. DOMAIN cmds = 1 .. Len(cmds) /\ Head(cmds) = cmds[1] /\ 1 \in 1 .. Len(cmds)
  BY <1>0, <1>1 DEF TypeOK
<1>4. CASE Head(cmds).op = "stop"
  <2> DEFINE W == {cmds[i].who : i \in 1 .. Len(cmds)}
  <2>1. /\ mgr' = [mgr EXCEPT !.phase = "stopped"] /\ cmds' = <<>>
        /\ life' = IF mgr.phase = "dialing" THEN Append(life, "exits") ELSE life
        /\ call' = Tell(call, W, "closed")
    BY <1>3, <1>4 DEF DropCommand, Discard
  <2>2. mgr' \in Mgrs /\ mgr'.phase = "stopped" /\ ~mgr'.handle
    BY <1>1, <1>2, <2>1 DEF Mgrs
  <2>3. life' \in Lifes
    BY <1>0, <2>1, LifeGrows
  <2>4. \A w \in Callers : w \in W => call[w].st = "wait"
    BY <1>0, ChannelWaits
  <2> HIDE DEF W
  <2> QED BY <1>1, <1>2, <2>1, <2>2, <2>3, <2>4, Stopping
<1>5. CASE Head(cmds).op # "stop"
  <2> DEFINE h == cmds[1]
             W == {h.who}
             ans == "closed"
  <2>1. UNCHANGED <<mgr, life>> /\ cmds' = Tail(cmds) /\ Discard(<<h>>)
    BY <1>3, <1>5 DEF DropCommand
  <2>2. call' = Tell(call, W, ans)
    <3>1. {<<h>>[i].who : i \in DOMAIN <<h>>} = {h.who}
      <4>1. DOMAIN <<h>> = {1} /\ <<h>>[1] = h
        OBVIOUS
      <4> HIDE DEF h
      <4> QED BY <4>1
    <3> QED BY <2>1, <3>1 DEF Discard
  <2>3. Shifts
    BY <1>0, <1>1, <2>1, TailShifts
  <2>4. h.who \in Callers => call[h.who].st = "wait"
    BY <1>0, <1>3, OwnersWait
  <2>5. \A w \in Callers : w \in W => call[w].st = "wait"
    BY <2>4
  <2>6. ans \in Answers \ {"ok"} /\ ans \in Answers
    BY DEF Answers
  <2>7. \A w \in Callers : w # h.who => w \notin W
    OBVIOUS
  <2> HIDE DEF W, ans
  <2>8. call' \in [Callers -> Calls] /\ TaskInv' /\ KnownInv'
    BY <1>1, <2>2, <2>5, <2>6, Refusing
  <2>9. QueueInv'
    <3>1. \A w \in Callers : w \notin W => call'[w] = call[w]
      BY <1>0, <2>2, <2>6, TellResult
    <3>2. \A w \in Callers : w # cmds[1].who => call'[w] = call[w]
      BY <2>7, <3>1
    <3> QED BY <1>0, <1>1, <1>2, <2>3, <3>2, QueueAnswerHead
  <2>10. ClaimInv'
    BY <1>0, <1>1, <1>2, <2>3, ClaimShift
  <2>11. MgrInv' /\ RegInv'
    BY <1>1, <1>2, <2>1 DEF MgrInv, RegInv
  <2>12. TypeOK'
    <3>1. life \in Lifes /\ count \in [faults : Nat, requests : Nat] /\ cmds' \in Seq(Cmds)
      BY <1>0, <2>3 DEF TypeOK, Lifes, Shifts
    <3> QED BY <1>0, <1>1, <1>2, <2>1, <2>8, <3>1, TypeFrame
  <2> QED BY <2>8, <2>9, <2>10, <2>11, <2>12 DEF SyncInv
<1> QED BY <1>4, <1>5

\* Only the worker registers, and it waits for the answer.
LEMMA RegisterOwner ==
    ASSUME TypeOK, TaskInv, NEW c, Pending(c), c.op = "register"
    PROVE  c.who = "worker" /\ wrk.pc = "registering" /\ call["worker"].st = "wait"
<1>1. c.who \in Callers /\ call[c.who] = [op |-> "register", st |-> "wait"]
  BY DEF Pending
<1>2. call[c.who].op = "register" /\ call[c.who].st = "wait"
  BY <1>1
<1>3. \A a \in Actors : call[a].op \in {"none", "disconnect", "authorize"}
  BY DEF TaskInv, TypeOK
<1>4. call["self"].op # "register"
  BY DEF TaskInv
<1>5. c.who = "worker"
  BY <1>1, <1>2, <1>3, <1>4, CallerFacts
<1>6. WorkerOp = "register"
  BY <1>2, <1>5 DEF TaskInv
<1> QED BY <1>2, <1>5, <1>6 DEF WorkerOp

LEMMA TakeCommandKeeps == SyncInv /\ TakeCommand => SyncInv'
<1> SUFFICES ASSUME SyncInv, TakeCommand PROVE SyncInv'
  OBVIOUS
<1> DEFINE h == cmds[1]
<1>0. TypeOK /\ MgrInv /\ QueueInv /\ TaskInv /\ ClaimInv /\ KnownInv /\ RegInv
  BY SyncParts
<1>1. /\ mgr.phase = "running" /\ cmds # <<>> /\ cur = NoCall
      /\ mgr \in Mgrs /\ vs \in Vss /\ life \in Lifes /\ call \in [Callers -> Calls]
      /\ count \in [faults : Nat, requests : Nat]
      /\ UNCHANGED <<wrk, actor, deferred, inFlight, exit, vsLink, count>>
  BY <1>0 DEF TakeCommand, Running, node, TypeOK, Mgrs, Vss, Lifes
<1>2. /\ DOMAIN cmds = 1 .. Len(cmds) /\ Head(cmds) = h /\ 1 \in 1 .. Len(cmds)
      /\ h \in Cmds /\ Pending(h)
  BY <1>0, <1>1 DEF TypeOK, QueueInv
<1>3. h # NoCall
  BY <1>2, NoCallNoCmd
<1>4. CASE /\ ~NeedsNoCall(h) /\ cur' = h /\ cmds' = Tail(cmds)
           /\ UNCHANGED <<mgr, life, call, vs>>
  <2>1. Shifts
    BY <1>0, <1>1, <1>4, TailShifts
  <2>2. QueueInv'
    BY <1>0, <1>1, <1>4, <2>1, QueueTake
  <2>3. ClaimInv'
    BY <1>0, <1>1, <1>4, <2>1, ClaimShift
  <2>4. TaskInv' /\ KnownInv'
    <3>1. WorkerOp' = WorkerOp
      BY <1>1 DEF WorkerOp
    <3> QED BY <1>0, <1>1, <1>4, <3>1, TaskFrame, KnownFrame
  <2>5. h.op # "restart" /\ (mgr.handle <=> h.op # "connect")
    BY <1>1, <1>4 DEF NeedsNoCall, Mgrs
  <2>6. MgrInv'
    BY <1>0, <1>1, <1>4, <2>5 DEF MgrInv
  <2>7. TypeOK'
    BY <1>0, <1>1, <1>2, <1>4, <2>1, TypeFrame DEF Shifts
  <2>8. RegInv'
    <3>1. ASSUME vs.conn, mgr.handle, ~vs.state
          PROVE  /\ h.op # "register"
                 /\ (wrk.pc = "notifying" /\ call["worker"].st # "wait") \/ RestartFirst'
      <4>1. CASE wrk.pc = "notifying" /\ call["worker"].st # "wait"
        BY <1>0, <1>2, <4>1, RegisterOwner
      <4>2. CASE RestartFirst
        BY <2>1, <2>5, <4>2, RestartShift
      <4> QED BY <1>0, <3>1, <4>1, <4>2 DEF RegInv
    <3> QED BY <1>0, <1>1, <1>4, <3>1 DEF RegInv
  <2> QED BY <2>2, <2>3, <2>4, <2>6, <2>7, <2>8 DEF SyncInv
<1>5. CASE h.op = "restart" /\ Restart /\ cmds' = Tail(cmds) /\ UNCHANGED <<cur, call>>
  <2>1. Shifts
    BY <1>0, <1>1, <1>5, TailShifts
  <2>2. QueueInv'
    BY <1>0, <1>1, <1>5, <2>1, QueueAnswerHead
  <2>3. ClaimInv'
    BY <1>0, <1>1, <1>5, <2>1, ClaimShift
  <2>4. vs' \in Vss /\ vs'.state = vs.state /\ vs'.known = vs.known /\ ~vs'.registered
    BY <1>0, <1>5, VsUnconnected DEF Restart, LeaveWithError, Vss
  <2>5. mgr' \in Mgrs /\ mgr'.phase = "delay" /\ ~mgr'.handle
    BY <1>5 DEF Restart, LeaveWithError, NewVSConn, Mgrs
  <2>6. life' \in Lifes
    BY <1>0, <1>5, LifeGrows DEF Restart, LeaveWithError, SendLifecycleEvent
  <2>7. TaskInv' /\ KnownInv'
    <3>1. WorkerOp' = WorkerOp
      BY <1>1 DEF WorkerOp
    <3> QED BY <1>0, <1>1, <1>5, <2>4, <3>1, TaskFrame, KnownFrame
  <2>8. MgrInv' /\ RegInv'
    BY <1>1, <1>5, <2>4, <2>5 DEF MgrInv, RegInv
  <2>9. TypeOK'
    BY <1>0, <1>1, <1>5, <2>1, <2>4, <2>5, <2>6, TypeFrame DEF Shifts
  <2> QED BY <2>2, <2>3, <2>7, <2>8, <2>9 DEF SyncInv
<1>6. CASE h.op = "stop" /\ Stop(Unconnected) /\ UNCHANGED cur
  <2> DEFINE W == {Tail(cmds)[i].who : i \in DOMAIN Tail(cmds)}
  <2>1. call' = Tell(call, W, "closed") /\ cmds' = <<>> /\ life' = Append(life, "exits")
        /\ mgr' = [mgr EXCEPT !.phase = "stopped", !.handle = FALSE] /\ vs' = Unconnected
    BY <1>6 DEF Stop, Discard, SendLifecycleEvent
  <2>2. ASSUME NEW w \in Callers, w \in W PROVE call[w].st = "wait"
    <3>1. PICK i \in DOMAIN Tail(cmds) : w = Tail(cmds)[i].who
      BY <2>2
    <3>2. i + 1 \in 1 .. Len(cmds) /\ Tail(cmds)[i] = cmds[i + 1]
      BY <1>0, <1>1, <3>1 DEF TypeOK
    <3> QED BY <1>0, <3>1, <3>2, OwnersWait
  <2>3. vs' \in Vss /\ vs'.state = vs.state /\ vs'.known = vs.known /\ ~vs'.registered
    BY <1>0, <2>1, VsUnconnected DEF Vss
  <2>4. mgr' \in Mgrs /\ mgr'.phase = "stopped" /\ ~mgr'.handle
    BY <1>1, <2>1 DEF Mgrs
  <2>5. life' \in Lifes
    BY <1>0, <2>1, LifeGrows
  <2> HIDE DEF W
  <2> QED BY <1>1, <1>6, <2>1, <2>2, <2>3, <2>4, <2>5, Stopping
<1>7. CASE /\ h.op \notin {"restart", "stop"} /\ call' = Tell(call, {h.who}, "refused")
           /\ cmds' = Tail(cmds) /\ UNCHANGED <<mgr, cur, life, vs>>
  <2> DEFINE W == {h.who}
             ans == "refused"
  <2>1. Shifts
    BY <1>0, <1>1, <1>7, TailShifts
  <2>2. call' = Tell(call, W, ans)
    BY <1>7
  <2>3. h.who \in Callers => call[h.who].st = "wait"
    BY <1>0, <1>2, OwnersWait
  <2>4. \A w \in Callers : w \in W => call[w].st = "wait"
    BY <2>3
  <2>5. ans \in Answers \ {"ok"} /\ ans \in Answers /\ ans # "wait"
    BY DEF Answers
  <2>6. \A w \in Callers : w # h.who => w \notin W
    OBVIOUS
  <2> HIDE DEF W, ans
  <2>7. call' \in [Callers -> Calls] /\ TaskInv' /\ KnownInv'
    BY <1>1, <1>7, <2>2, <2>4, <2>5, Refusing
  <2>8. \A w \in Callers : /\ w \notin W => call'[w] = call[w]
                           /\ call'[w].st = IF w \in W THEN ans ELSE call[w].st
    BY <1>0, <2>2, <2>5, TellResult
  <2>9. QueueInv'
    <3>2. \A w \in Callers : w # cmds[1].who => call'[w] = call[w]
      BY <2>6, <2>8
    <3> QED BY <1>0, <1>1, <1>7, <2>1, <3>2, QueueAnswerHead
  <2>10. ClaimInv'
    BY <1>0, <1>1, <1>7, <2>1, ClaimShift
  <2>11. MgrInv'
    BY <1>0, <1>1, <1>7 DEF MgrInv
  <2>12. RegInv'
    <3>1. ASSUME vs.conn, mgr.handle, ~vs.state
          PROVE  (wrk.pc = "notifying" /\ call'["worker"].st # "wait") \/ RestartFirst'
      <4>1. CASE wrk.pc = "notifying" /\ call["worker"].st # "wait"
        BY <2>5, <2>8, <4>1, CallerFacts
      <4>2. CASE RestartFirst
        BY <1>7, <2>1, <4>2, RestartShift
      <4> QED BY <1>0, <3>1, <4>1, <4>2 DEF RegInv
    <3> QED BY <1>0, <1>1, <1>7, <3>1 DEF RegInv
  <2>13. TypeOK'
    BY <1>0, <1>1, <1>7, <2>1, <2>7, TypeFrame DEF Shifts
  <2> QED BY <2>7, <2>9, <2>10, <2>11, <2>12, <2>13 DEF SyncInv
<1> QED BY <1>2, <1>4, <1>5, <1>6, <1>7 DEF TakeCommand

LEMMA ServedResult ==
    ASSUME vs \in Vss, cur \in Cmds, cur.op \notin {"restart", "stop"}, NEW v, v = Served(cur)
    PROVE  /\ v \in Vss /\ v.conn = vs.conn
           /\ cur.op = "connect" => /\ v.state /\ v.registered = vs.registered
                                    /\ cur.state => v.known = vs.known
           /\ cur.op = "register" => v.state = vs.state /\ v.known = vs.known
           /\ cur.op = "authorize" => /\ v.state = vs.state /\ v.registered = vs.registered
                                      /\ v.known = vs.known \cup ({cur.who} \cap Actors)
           /\ cur.op = "reauthenticate" => v = vs
           /\ cur.op = "disconnect" /\ cur.who \in Actors =>
                 /\ v.state = vs.state /\ v.registered = vs.registered
                 /\ v.known = vs.known \ {cur.who}
           /\ cur.op = "disconnect" /\ cur.who \notin Actors => ~v.state /\ ~v.registered
<1>0. cur.op \in Ops \ {"restart", "stop"} /\ cur.state \in BOOLEAN
  BY DEF Cmds
<1>1. CASE cur.op = "connect"
  <2>1. v = [vs EXCEPT !.state = TRUE, !.known = IF ConnectType(cur) = "Reset" THEN {} ELSE vs.known]
    BY <1>1 DEF Served
  <2>2. cur.state => ConnectType(cur) # "Reset"
    BY DEF ConnectType
  <2> QED BY <1>1, <2>1, <2>2 DEF Vss
<1>2. CASE cur.op = "register"
  <2>1. v = [vs EXCEPT !.registered = TRUE]
    BY <1>2 DEF Served
  <2> QED BY <1>2, <2>1 DEF Vss
<1>3. CASE cur.op = "authorize"
  <2>1. v = [vs EXCEPT !.known = vs.known \cup ({cur.who} \cap Actors)]
    BY <1>3 DEF Served
  <2> QED BY <1>3, <2>1 DEF Vss
<1>4. CASE cur.op = "disconnect" /\ cur.who \in Actors
  <2>1. v = [vs EXCEPT !.known = vs.known \ {cur.who}]
    BY <1>4 DEF Served
  <2> QED BY <1>4, <2>1 DEF Vss
<1>5. CASE cur.op = "reauthenticate"
  <2>1. v = vs
    BY <1>5 DEF Served
  <2> QED BY <1>5, <2>1 DEF Vss
<1>6. CASE cur.op = "disconnect" /\ cur.who \notin Actors
  <2>1. v = [vs EXCEPT !.state = FALSE, !.known = {}, !.registered = FALSE]
    BY <1>6 DEF Served
  <2> QED BY <1>6, <2>1 DEF Vss
<1> QED BY <1>0, <1>1, <1>2, <1>3, <1>4, <1>5, <1>6 DEF Ops

\* Whose calls the command in service can be.
LEMMA CurOwner ==
    ASSUME TypeOK, QueueInv, TaskInv, cur # NoCall
    PROVE  /\ cur \in Cmds
           /\ \A a \in Actors : cur.who = a =>
                 /\ cur.op \in {"authorize", "disconnect"} /\ ~Admitted(a)
                 /\ cur.op = "disconnect" => actor[a].st = "leaving"
           /\ cur.op = "disconnect" /\ cur.who \notin Actors =>
                 cur.who = "worker" /\ wrk.pc = "notifying"
<1>1. cur \in Cmds
  BY DEF TypeOK
<1>2. cur.who \in Callers => call[cur.who].op = cur.op /\ call[cur.who].st = "wait"
  BY OwnersWait
<1>3. ASSUME NEW a \in Actors, cur.who = a
      PROVE  /\ cur.op \in {"authorize", "disconnect"} /\ ~Admitted(a)
             /\ cur.op = "disconnect" => actor[a].st = "leaving"
  <2>1. call[a].op = cur.op /\ call[a].st = "wait"
    BY <1>2, <1>3, CallerFacts
  <2>2. call[a].op # "none"
    BY <2>1, CallerFacts DEF TaskInv
  <2>3. actor[a].st \in {"out", "authorizing", "in", "leaving"}
    BY DEF TypeOK
  <2>4. call[a].op \in CASE actor[a].st = "in"          -> {"none"}
                           [] actor[a].st = "leaving"     -> {"disconnect"}
                           [] actor[a].st = "authorizing" -> {"authorize"}
                           [] actor[a].st = "out"         -> {"none", "authorize"}
    BY DEF TaskInv
  <2>5. cur.op \in {"authorize", "disconnect"} /\ actor[a].st # "in"
        /\ (cur.op = "disconnect" => actor[a].st = "leaving")
    BY <2>1, <2>2, <2>3, <2>4
  <2> QED BY <2>1, <2>5 DEF Admitted
<1>4. ASSUME cur.op = "disconnect", cur.who \notin Actors
      PROVE  cur.who = "worker" /\ wrk.pc = "notifying"
  <2>1. Pending(cur)
    BY DEF QueueInv
  <2>2. cur.who \in Callers
    BY <1>4, <2>1 DEF Pending
  <2>3. call["self"].op # "disconnect"
    BY DEF TaskInv
  <2>4. cur.who = "worker"
    BY <1>2, <1>4, <2>2, <2>3, CallerFacts
  <2>5. WorkerOp = "disconnect"
    BY <1>2, <1>4, <2>4, CallerFacts DEF TaskInv
  <2> QED BY <2>4, <2>5 DEF WorkerOp
<1> QED BY <1>1, <1>3, <1>4

\* The command in service is answered, and the visa service has served it.
LEMMA Serving ==
    ASSUME SyncInv, Talks, cur # NoCall, cur.op # "stop", ~OutOfSync(cur),
           NEW ans \in Answers, call' = Tell(call, {cur.who}, ans),
           vs' = Served(cur), cur' = NoCall, cmds' = cmds, mgr' \in Mgrs,
           mgr'.phase = mgr.phase,
           mgr'.handle = mgr.handle \/ (cur.op = "connect" /\ mgr'.handle),
           life' \in Lifes, count' \in [faults : Nat, requests : Nat],
           UNCHANGED <<wrk, actor, deferred, inFlight, exit, vsLink>>
    PROVE  SyncInv'
<1> DEFINE W == {cur.who}
<1>0. TypeOK /\ MgrInv /\ QueueInv /\ TaskInv /\ ClaimInv /\ KnownInv /\ RegInv
  BY SyncParts
<1>1. /\ mgr.phase = "running" /\ cur.op # "restart" /\ (mgr.handle <=> cur.op # "connect")
      /\ cur \in Cmds /\ vs \in Vss /\ vs.conn /\ cmds \in Seq(Cmds)
      /\ cur.op \in Ops /\ mgr.handle \in BOOLEAN /\ ans # "wait"
  <2>1. cur \in Cmds /\ vs \in Vss /\ cmds \in Seq(Cmds) /\ mgr.handle \in BOOLEAN
    BY <1>0 DEF TypeOK, Vss
  <2>2. cur.op \in Ops
    BY <2>1 DEF Cmds
  <2> QED BY <1>0, <2>1, <2>2 DEF MgrInv, Talks, Answers
<1>2. /\ vs' \in Vss /\ vs'.conn = vs.conn
      /\ cur.op = "connect" => /\ vs'.state /\ vs'.registered = vs.registered
                               /\ cur.state => vs'.known = vs.known
      /\ cur.op = "register" => vs'.state = vs.state /\ vs'.known = vs.known
      /\ cur.op = "authorize" => /\ vs'.state = vs.state /\ vs'.registered = vs.registered
                                 /\ vs'.known = vs.known \cup ({cur.who} \cap Actors)
      /\ cur.op = "reauthenticate" => vs' = vs
      /\ cur.op = "disconnect" /\ cur.who \in Actors =>
            /\ vs'.state = vs.state /\ vs'.registered = vs.registered
            /\ vs'.known = vs.known \ {cur.who}
      /\ cur.op = "disconnect" /\ cur.who \notin Actors => ~vs'.state /\ ~vs'.registered
  BY <1>1, ServedResult
<1>3. /\ \A a \in Actors : cur.who = a =>
            /\ cur.op \in {"authorize", "disconnect"} /\ ~Admitted(a)
            /\ cur.op = "disconnect" => actor[a].st = "leaving"
      /\ cur.op = "disconnect" /\ cur.who \notin Actors =>
            cur.who = "worker" /\ wrk.pc = "notifying"
  BY <1>0, CurOwner
<1>4. call' = Tell(call, W, ans) /\ \A w \in Callers : w \in W <=> w = cur.who
  OBVIOUS
<1>5. \A w \in Callers : w \in W => call[w].st = "wait"
  <2>1. cur.who \in Callers => call[cur.who].st = "wait"
    BY <1>0, OwnersWait
  <2> QED BY <2>1
<1> HIDE DEF W
<1>6. /\ call' \in [Callers -> Calls]
      /\ \A w \in Callers : /\ call'[w].st = IF w \in W THEN ans ELSE call[w].st
                            /\ w \notin W => call'[w] = call[w]
  <2>1. TypeOK /\ call' = Tell(call, W, ans)
    BY <1>0, <1>4
  <2> QED BY ONLY <2>1, ans \in Answers, TellResult
<1>7. TaskInv'
  BY <1>0, <1>4, <1>5, TaskTell
<1>8. QueueInv'
  BY <1>0, <1>4, <1>6, QueueAnswerCur
<1>9. ClaimInv'
  BY <1>0, ClaimFrame
<1>10. TypeOK'
  BY <1>0, <1>1, <1>2, <1>6, TypeFrame
<1>11. MgrInv'
  BY <1>0, <1>1 DEF MgrInv
<1>12. KnownInv'
  <2>1. \A a \in Actors : actor[a].st \in {"authorizing", "in"} /\ ~actor[a].early => wrk.state
    BY <1>0 DEF KnownInv
  <2>2. ASSUME vs'.state, NEW a \in Actors, Admitted(a)' PROVE a \in vs'.known
    <3>1. ~actor[a].early /\ (actor[a].st = "in" \/ (actor[a].st = "authorizing" /\ call'[a].st = "ok"))
      BY <2>2 DEF Admitted
    <3>2. wrk.state
      BY <2>1, <3>1
    <3>3. CASE cur.who = a
      <4>1. cur.op = "authorize"
        BY <1>3, <3>1, <3>3
      <4> QED BY <1>2, <3>3, <4>1
    <3>4. CASE cur.who # a
      <4>1. call'[a] = call[a]
        BY <1>4, <1>6, <3>4, CallerFacts
      <4>2. Admitted(a)
        BY <3>1, <4>1 DEF Admitted
      <4>3. vs.state => a \in vs.known
        BY <1>0, <4>2 DEF KnownInv
      <4>4. CASE cur.op = "connect"
        <5>1. cur.state
          BY <1>0, <3>2, <4>4 DEF ClaimInv, IsReset
        <5>2. vs.state
          BY <4>4, <5>1 DEF OutOfSync, ConnectType
        <5> QED BY <1>2, <4>3, <4>4, <5>1, <5>2
      <4>5. CASE cur.op # "connect"
        BY <1>1, <1>2, <2>2, <3>4, <4>3, <4>5 DEF Ops
      <4> QED BY <4>4, <4>5
    <3> QED BY <3>3, <3>4
  <2> QED BY <2>1, <2>2 DEF KnownInv
<1>13. RegInv'
  <2>1. RestartFirst' = RestartFirst
    BY DEF RestartFirst
  <2>2. call["worker"].st # "wait" => call'["worker"].st # "wait"
    BY <1>1, <1>6, CallerFacts
  <2>3. CASE cur.op = "connect"
    BY <1>0, <1>1, <1>2, <2>3 DEF RegInv
  <2>4. CASE cur.op = "register"
    BY <1>0, <1>1, <1>2, <2>1, <2>2, <2>4 DEF RegInv
  <2>5. CASE cur.op \in {"authorize", "reauthenticate"} \/ (cur.op = "disconnect" /\ cur.who \in Actors)
    <3>1. vs'.state = vs.state /\ vs'.registered = vs.registered /\ mgr'.handle = mgr.handle
      BY <1>1, <1>2, <2>5
    <3> QED BY <1>0, <1>1, <1>2, <2>1, <2>2, <3>1 DEF RegInv
  <2>6. CASE cur.op = "disconnect" /\ cur.who \notin Actors
    <3>1. wrk.pc = "notifying" /\ call'["worker"].st = ans
      BY <1>3, <1>4, <1>6, <2>6, CallerFacts
    <3> QED BY <1>1, <1>2, <2>6, <3>1 DEF RegInv
  <2> QED BY <1>1, <2>3, <2>4, <2>5, <2>6 DEF Ops
<1> QED BY <1>7, <1>8, <1>9, <1>10, <1>11, <1>12, <1>13 DEF SyncInv

\* The command in service is answered with an error; the visa service has not served it.
LEMMA Answering ==
    ASSUME SyncInv, cur # NoCall, NEW ans \in Answers \ {"ok"},
           call' = Tell(call, {cur.who}, ans), cur' = NoCall,
           count' \in [faults : Nat, requests : Nat],
           UNCHANGED <<mgr, cmds, life, vs, wrk, actor, deferred, inFlight, exit, vsLink>>
    PROVE  SyncInv'
<1> DEFINE W == {cur.who}
<1>0. TypeOK /\ MgrInv /\ QueueInv /\ TaskInv /\ ClaimInv /\ KnownInv /\ RegInv
  BY SyncParts
<1>1. /\ mgr \in Mgrs /\ vs \in Vss /\ life \in Lifes /\ cmds \in Seq(Cmds) /\ ans # "wait"
      /\ ans \in Answers
  BY <1>0 DEF TypeOK, Mgrs, Vss, Lifes, Answers
<1>4. call' = Tell(call, W, ans) /\ \A w \in Callers : w \in W <=> w = cur.who
  OBVIOUS
<1>5. \A w \in Callers : w \in W => call[w].st = "wait"
  <2>1. cur.who \in Callers => call[cur.who].st = "wait"
    BY <1>0, OwnersWait
  <2> QED BY <2>1
<1> HIDE DEF W
<1>6. \A w \in Callers : /\ call'[w].st = IF w \in W THEN ans ELSE call[w].st
                         /\ w \notin W => call'[w] = call[w]
  <2>1. TypeOK /\ call' = Tell(call, W, ans) /\ ans \in Answers
    BY <1>0, <1>1, <1>4
  <2> QED BY ONLY <2>1, TellResult
<1>7. call' \in [Callers -> Calls] /\ TaskInv' /\ KnownInv'
  BY <1>4, <1>5, Refusing
<1>8. QueueInv'
  BY <1>0, <1>4, <1>6, QueueAnswerCur
<1>9. ClaimInv'
  BY <1>0, ClaimFrame
<1>10. TypeOK'
  BY <1>0, <1>1, <1>7, TypeFrame
<1>11. MgrInv'
  BY <1>0 DEF MgrInv
<1>12. RegInv'
  <2>1. RestartFirst' = RestartFirst
    BY DEF RestartFirst
  <2>2. call["worker"].st # "wait" => call'["worker"].st # "wait"
    BY <1>1, <1>6, CallerFacts
  <2> QED BY <1>0, <2>1, <2>2 DEF RegInv
<1> QED BY <1>7, <1>8, <1>9, <1>10, <1>11, <1>12 DEF SyncInv

\* What Stop makes the visa service do.
LEMMA ServedStop ==
    ASSUME vs \in Vss, cur.op = "stop", NEW v \in {vs, Served(cur)}, NEW u,
           u = [v EXCEPT !.conn = FALSE, !.registered = FALSE]
    PROVE  /\ u \in Vss /\ ~u.conn /\ ~u.registered
           /\ u.state => vs.state /\ vs.known \subseteq u.known
<1>1. CASE v = vs
  BY <1>1 DEF Vss
<1>2. CASE v = Served(cur)
  <2>1. v = [vs EXCEPT !.state = FALSE, !.known = {}, !.registered = FALSE]
    BY <1>2 DEF Served
  <2> QED BY <2>1 DEF Vss
<1> QED BY <1>1, <1>2

LEMMA CallServedKeeps == SyncInv /\ CallServed => SyncInv'
<1> SUFFICES ASSUME SyncInv, CallServed PROVE SyncInv'
  OBVIOUS
<1>0. TypeOK /\ MgrInv /\ QueueInv /\ TaskInv /\ ClaimInv /\ KnownInv /\ RegInv
  BY SyncParts
<1>1. /\ mgr \in Mgrs /\ vs \in Vss /\ cmds \in Seq(Cmds) /\ cur # NoCall /\ cur' = NoCall
      /\ count' \in [faults : Nat, requests : Nat] /\ Talks /\ ~OutOfSync(cur)
      /\ UNCHANGED <<wrk, actor, deferred, inFlight, exit, vsLink, count>>
  BY <1>0 DEF TypeOK, Mgrs, Vss, CallServed, node
<1>2. CASE cur.op = "stop"
  <2> DEFINE W == {cmds[i].who : i \in 1 .. Len(cmds)}
             v == Served(cur)
  <2>1. /\ mgr' = [mgr EXCEPT !.phase = "stopped", !.handle = FALSE] /\ cmds' = <<>>
        /\ life' = Append(life, "exits") /\ call' = Tell(call, W, "closed")
        /\ vs' = [v EXCEPT !.conn = FALSE, !.registered = FALSE]
    <3>1. DOMAIN cmds = 1 .. Len(cmds)
      BY <1>1
    <3> QED BY <1>2, <3>1 DEF CallServed, Discard, SendLifecycleEvent
  <2>2. mgr' \in Mgrs /\ mgr'.phase = "stopped" /\ ~mgr'.handle
    BY <1>1, <2>1 DEF Mgrs
  <2>3. life' \in Lifes
    BY <1>0, <2>1, LifeGrows
  <2>4. \A w \in Callers : w \in W => call[w].st = "wait"
    BY <1>0, ChannelWaits
  <2>5. v \in {vs, Served(cur)}
    OBVIOUS
  <2> HIDE DEF W, v
  <2>6. vs' \in Vss /\ ~vs'.registered /\ (vs'.state => vs.state /\ vs.known \subseteq vs'.known)
    BY <1>1, <1>2, <2>1, <2>5, ServedStop
  <2> QED BY <1>1, <2>1, <2>2, <2>3, <2>4, <2>6, Stopping
<1>3. CASE cur.op # "stop"
  <2> DEFINE ans == "ok"
  <2>1. /\ mgr' = IF cur.op = "connect" THEN [mgr EXCEPT !.handle = TRUE] ELSE mgr
        /\ life' = IF cur.op = "connect" THEN Append(life, "connected") ELSE life
        /\ call' = Tell(call, {cur.who}, ans) /\ vs' = Served(cur) /\ cmds' = cmds
    BY <1>3 DEF CallServed
  <2>2. /\ mgr' \in Mgrs /\ mgr'.phase = mgr.phase
        /\ mgr'.handle = mgr.handle \/ (cur.op = "connect" /\ mgr'.handle)
    BY <1>1, <2>1 DEF Mgrs
  <2>3. life' \in Lifes
    BY <1>0, <2>1, LifeGrows
  <2>4. ans \in Answers
    BY DEF Answers
  <2> HIDE DEF ans
  <2> QED BY <1>1, <1>3, <2>1, <2>2, <2>3, <2>4, Serving
<1> QED BY <1>2, <1>3

LEMMA FaultCount == TypeOK /\ (Fault \/ UNCHANGED count) => count' \in [faults : Nat, requests : Nat]
  BY DEF TypeOK, Fault

LEMMA CallRefusedKeeps == SyncInv /\ CallRefused => SyncInv'
<1> SUFFICES ASSUME SyncInv, CallRefused PROVE SyncInv'
  OBVIOUS
<1> DEFINE ans == IF OutOfSync(cur) THEN "outofsync" ELSE "refused"
<1>1. /\ cur # NoCall /\ cur' = NoCall /\ call' = Tell(call, {cur.who}, ans)
      /\ UNCHANGED <<mgr, cmds, life, vs, wrk, actor, deferred, inFlight, exit, vsLink>>
      /\ Fault \/ UNCHANGED count
  BY DEF CallRefused, node
<1>2. ans \in Answers \ {"ok"}
  BY DEF Answers
<1>3. count' \in [faults : Nat, requests : Nat]
  BY <1>1, FaultCount, SyncParts
<1> HIDE DEF ans
<1> QED BY <1>1, <1>2, <1>3, Answering

LEMMA CallLostKeeps == SyncInv /\ CallLost => SyncInv'
<1> SUFFICES ASSUME SyncInv, CallLost PROVE SyncInv'
  OBVIOUS
<1>0. TypeOK /\ MgrInv /\ QueueInv /\ TaskInv /\ ClaimInv /\ KnownInv /\ RegInv
  BY SyncParts
<1>1. /\ mgr \in Mgrs /\ vs \in Vss /\ life \in Lifes /\ call \in [Callers -> Calls]
      /\ cmds \in Seq(Cmds)
  BY <1>0 DEF TypeOK, Mgrs, Vss, Lifes
<1>2. /\ cur # NoCall /\ cur' = NoCall
      /\ UNCHANGED <<cmds, wrk, actor, deferred, inFlight, exit, vsLink>>
      /\ Fault \/ UNCHANGED count
  BY DEF CallLost, node
<1>3. count' \in [faults : Nat, requests : Nat]
  BY <1>0, <1>2, FaultCount
<1>4. PICK served \in {vs} \cup (IF Talks /\ ~OutOfSync(cur) THEN {Served(cur)} ELSE {}) :
         IF cur.op = "stop"
         THEN /\ mgr' = [NewVSConn EXCEPT !.phase = "delay"]
              /\ vs' = [served EXCEPT !.conn = FALSE, !.registered = FALSE]
              /\ SendLifecycleEvent("exits")
              /\ UNCHANGED call
         ELSE /\ vs' = served
              /\ call' = Tell(call, {cur.who}, "refused")
              /\ UNCHANGED <<mgr, life>>
  BY DEF CallLost
<1>5. served = vs \/ (served = Served(cur) /\ Talks /\ ~OutOfSync(cur))
  OBVIOUS
<1>6. CASE cur.op = "stop"
  <2>1. served \in {vs, Served(cur)} /\ vs' = [served EXCEPT !.conn = FALSE, !.registered = FALSE]
    BY <1>4, <1>5, <1>6
  <2>2. vs' \in Vss /\ ~vs'.registered /\ (vs'.state => vs.state /\ vs.known \subseteq vs'.known)
    BY <1>1, <1>6, <2>1, ServedStop
  <2>3. mgr' = [NewVSConn EXCEPT !.phase = "delay"] /\ life' = Append(life, "exits") /\ call' = call
    BY <1>4, <1>6 DEF SendLifecycleEvent
  <2>4. mgr' \in Mgrs /\ mgr'.phase = "delay" /\ ~mgr'.handle
    BY <2>3 DEF NewVSConn, Mgrs
  <2>5. life' \in Lifes
    BY <1>0, <2>3, LifeGrows
  <2>6. TypeOK'
    BY <1>0, <1>1, <1>2, <1>3, <2>2, <2>3, <2>4, <2>5, TypeFrame
  <2>7. QueueInv'
    BY <1>0, <1>2, <2>3, QueueAnswerCur
  <2>8. ClaimInv'
    BY <1>0, <1>2, ClaimFrame
  <2>9. TaskInv' /\ KnownInv'
    <3>1. WorkerOp' = WorkerOp
      BY <1>2 DEF WorkerOp
    <3> QED BY <1>0, <1>2, <2>2, <2>3, <3>1, TaskFrame, KnownFrame
  <2>10. MgrInv' /\ RegInv'
    BY <1>2, <2>2, <2>4 DEF MgrInv, RegInv
  <2> QED BY <2>6, <2>7, <2>8, <2>9, <2>10 DEF SyncInv
<1>7. CASE cur.op # "stop"
  <2> DEFINE ans == "refused"
  <2>1. vs' = served /\ call' = Tell(call, {cur.who}, ans) /\ UNCHANGED <<mgr, life>>
    BY <1>4, <1>7
  <2>2. ans \in Answers \ {"ok"} /\ ans \in Answers
    BY DEF Answers
  <2> HIDE DEF ans
  <2>3. CASE served = vs
    BY <1>2, <1>3, <2>1, <2>2, <2>3, Answering
  <2>4. CASE served = Served(cur) /\ Talks /\ ~OutOfSync(cur)
    <3>1. /\ mgr' \in Mgrs /\ mgr'.phase = mgr.phase /\ mgr'.handle = mgr.handle
          /\ life' \in Lifes /\ vs' = Served(cur)
      BY <1>1, <2>1, <2>4
    <3> QED BY <1>2, <1>3, <1>7, <2>1, <2>2, <2>4, <3>1, Serving
  <2> QED BY <1>5, <2>3, <2>4
<1> QED BY <1>6, <1>7

-------------------------------------------------------------------------------
(* Steps that add commands, or leave the channel alone.                    *)

LEMMA GrowsNone ==
    ASSUME TypeOK, cmds' = cmds, NEW op, NEW who
    PROVE  Grows(op, who)
<1>1. cmds \in Seq(Cmds) /\ Len(cmds) \in Nat
  BY DEF TypeOK
<1> QED BY <1>1 DEF Grows

LEMMA GrowStep ==
    ASSUME SyncInv, NEW op, NEW who, Grows(op, who), UNCHANGED <<mgr, cur>>,
           vs'.state = vs.state, vs'.conn => vs.conn, vs'.registered => vs.registered,
           \A w \in Callers :
              IF w \in who
              THEN /\ call[w].st # "wait"
                   /\ mgr.phase # "stopped" => call'[w] = [op |-> op, st |-> "wait"]
              ELSE call'[w] = call[w] \/ call[w].st # "wait",
           who \subseteq Callers \/ op \in {"connect", "restart", "stop"},
           mgr.handle /\ wrk.pc = "notifying" /\ call["worker"].st # "wait" =>
              (wrk'.pc = "notifying" /\ call'["worker"].st # "wait") \/ RestartFirst',
           TypeOK', TaskInv', ClaimInv', KnownInv'
    PROVE  SyncInv'
<1>0. TypeOK /\ MgrInv /\ QueueInv /\ RegInv
  BY SyncParts
<1>1. QueueInv'
  BY <1>0, QueueGrow
<1>2. MgrInv'
  <2>1. ASSUME mgr.phase = "stopped" PROVE cmds' = <<>>
    <3>1. cmds' \in Seq(Cmds) /\ Len(cmds') = 0
      BY <1>0, <2>1 DEF Grows, MgrInv
    <3> QED BY <3>1
  <2> QED BY <1>0, <2>1 DEF MgrInv
<1>3. RegInv'
  <2>1. RestartFirst => RestartFirst'
    BY <1>0, RestartGrow
  <2> QED BY <1>0, <2>1 DEF RegInv
<1> QED BY <1>1, <1>2, <1>3 DEF SyncInv

LEMMA WorkerTask ==
    ASSUME TaskInv, actor' = actor, inFlight' = inFlight,
           \A w \in Callers : w # "worker" => call'[w] = call[w],
           call'["worker"].op = WorkerOp',
           call'["worker"].op = "none" <=> call'["worker"].st = "idle"
    PROVE  TaskInv'
<1>1. \A w \in Callers : call'[w].op = "none" <=> call'[w].st = "idle"
  BY CallerFacts DEF TaskInv
<1>2. call'["self"].op = IF inFlight' THEN "reauthenticate" ELSE "none"
  BY CallerFacts DEF TaskInv
<1>3. \A a \in Actors : call'[a] = call[a]
  BY CallerFacts
<1> QED BY <1>1, <1>2, <1>3 DEF TaskInv

Wrks == [pc : {"gate", "retry", "connecting", "registering", "deferring", "notifying",
               "disconnecting", "panicked"}, state : BOOLEAN]

\* The worker moves on, with or without a new call.
LEMMA WorkerStep ==
    ASSUME SyncInv, NEW op, NEW who \in SUBSET {"worker", "nobody"}, Grows(op, who),
           UNCHANGED <<mgr, cur, vs, vsLink, actor, inFlight, exit, count>>,
           call["worker"].st # "wait",
           life' \in Lifes, deferred' \in BOOLEAN, wrk' \in Wrks, call' \in [Callers -> Calls],
           \A w \in Callers : w # "worker" => call'[w] = call[w],
           "worker" \in who /\ mgr.phase # "stopped" => call'["worker"] = [op |-> op, st |-> "wait"],
           who \subseteq Callers \/ op \in {"connect", "restart", "stop"},
           call'["worker"].op = WorkerOp',
           call'["worker"].op = "none" <=> call'["worker"].st = "idle",
           wrk.state => wrk'.state,
           mgr.handle /\ wrk.pc = "notifying" => RestartFirst',
           ClaimInv'
    PROVE  SyncInv'
<1>0. TypeOK /\ TaskInv /\ KnownInv
  BY SyncParts
<1>1. TypeOK'
  BY <1>0 DEF TypeOK, Lifes, Wrks, Grows
<1>2. TaskInv'
  BY <1>0, WorkerTask
<1>3. KnownInv'
  BY <1>0, CallerFacts, KnownFrame
<1>4. \A w \in Callers :
         IF w \in who
         THEN /\ call[w].st # "wait"
              /\ mgr.phase # "stopped" => call'[w] = [op |-> op, st |-> "wait"]
         ELSE call'[w] = call[w] \/ call[w].st # "wait"
  BY CallerFacts
<1> QED BY <1>1, <1>2, <1>3, <1>4, GrowStep

\* Where the worker makes no call it awaits none.
LEMMA WorkerIdle ==
    ASSUME SyncInv
    PROVE  /\ wrk.pc \notin {"connecting", "registering", "deferring", "notifying"} =>
                 call["worker"].op = "none" /\ call["worker"].st = "idle"
           /\ Answered("worker") => call["worker"].st # "wait"
<1>1. call["worker"].op = WorkerOp /\ (call["worker"].op = "none" <=> call["worker"].st = "idle")
  BY SyncParts, CallerFacts DEF TaskInv
<1> QED BY <1>1 DEF WorkerOp, Answered, Answers

LEMMA WorkerTypes ==
    ASSUME SyncInv
    PROVE  /\ life \in Lifes /\ (life # <<>> => Tail(life) \in Lifes)
           /\ deferred \in BOOLEAN /\ wrk \in Wrks /\ call \in [Callers -> Calls]
           /\ NoCall \in Calls
  BY SyncParts DEF TypeOK, Lifes, Wrks, Calls, NoCall

LEMMA PcMoves ==
    ASSUME SyncInv, NEW pc \in {"gate", "retry", "connecting", "registering", "deferring",
                                "notifying", "disconnecting", "panicked"},
           wrk' = [wrk EXCEPT !.pc = pc]
    PROVE  wrk' \in Wrks /\ wrk'.pc = pc /\ wrk'.state = wrk.state
  BY WorkerTypes DEF Wrks

\* The worker reads an event or finds the adapters gone, and makes no call.
LEMMA WorkerWaits ==
    SyncInv /\ (WaitForRunloopStart \/ AdaptersDisconnected) => SyncInv'
<1> SUFFICES ASSUME SyncInv, WaitForRunloopStart \/ AdaptersDisconnected PROVE SyncInv'
  OBVIOUS
<1> DEFINE op == "stop"
           who == {}
           pc == IF WaitForRunloopStart /\ Head(life) # "starts" THEN "gate" ELSE "retry"
<1>1. /\ UNCHANGED <<mgr, cur, vs, vsLink, actor, inFlight, exit, count, cmds, call, deferred>>
      /\ life' = life \/ (life # <<>> /\ life' = Tail(life))
      /\ wrk.pc \in {"gate", "disconnecting"}
  BY DEF WaitForRunloopStart, AdaptersDisconnected, conn, WorkerAt
<1>2. wrk' = [wrk EXCEPT !.pc = pc]
  BY DEF WaitForRunloopStart, AdaptersDisconnected, WorkerGoes, WorkerAt
<1>3. pc \in {"gate", "retry"} /\ op = "stop" /\ who = {}
  OBVIOUS
<1> HIDE DEF op, who, pc
<1>4. wrk' \in Wrks /\ wrk'.pc = pc /\ wrk'.state = wrk.state
  BY <1>2, <1>3, PcMoves
<1>5. call["worker"].op = "none" /\ call["worker"].st = "idle"
  BY <1>1, WorkerIdle
<1>6. Grows(op, who)
  BY <1>1, SyncParts, GrowsNone
<1>7. ClaimInv'
  BY <1>1, <1>3, <1>4, SyncParts, ClaimFrame
<1>8. call'["worker"].op = WorkerOp'
  BY <1>1, <1>3, <1>4, <1>5 DEF WorkerOp
<1>9. life' \in Lifes /\ deferred' \in BOOLEAN /\ call' \in [Callers -> Calls]
  BY <1>1, WorkerTypes
<1>10. /\ who \in SUBSET {"worker", "nobody"} /\ who \subseteq Callers /\ "worker" \notin who
       /\ wrk.pc # "notifying" /\ call["worker"].st # "wait"
       /\ call'["worker"].op = "none" <=> call'["worker"].st = "idle"
  BY <1>1, <1>3, <1>5
<1> QED BY <1>1, <1>4, <1>6, <1>7, <1>8, <1>9, <1>10, WorkerStep

\* The worker makes a call.
LEMMA WorkerCalling ==
    ASSUME SyncInv, NEW op \in {"connect", "register", "authorize", "disconnect"},
           NEW pc, wrk' = [wrk EXCEPT !.pc = pc], WorkerCalls(op),
           \/ pc = "connecting" /\ op = "connect"
           \/ pc = "registering" /\ op = "register"
           \/ pc = "deferring" /\ op = "authorize"
           \/ pc = "notifying" /\ op = "disconnect",
           UNCHANGED <<mgr, cur, vs, vsLink, actor, inFlight, exit, count>>,
           call["worker"].st # "wait", wrk.pc # "notifying",
           life' \in Lifes, deferred' \in BOOLEAN,
           wrk.pc = "registering" \/ pc # "deferring"
    PROVE  SyncInv'
<1> DEFINE who == {"worker"}
<1>0. TypeOK /\ MgrInv /\ QueueInv /\ ClaimInv
  BY SyncParts
<1>1. /\ who \in SUBSET Callers /\ who \in SUBSET {"worker", "nobody"} /\ MakeCalls(call, op, who)
      /\ "worker" \in who /\ \A w \in Callers : w # "worker" => w \notin who
  BY CallerFacts DEF WorkerCalls
<1>2. Cardinality(who) = 1 /\ IsFiniteSet(who)
  BY FS_Singleton
<1>3. op \in Ops /\ op \in Ops \ {"restart", "stop"}
  BY DEF Ops
<1>w. who = {"worker"}
  OBVIOUS
<1> HIDE DEF who
<1>4. Grows(op, who) /\ (mgr.phase # "stopped" => Len(cmds') = Len(cmds) + Cardinality(who))
  BY <1>0, <1>1, <1>2, <1>3, MakeCallsGrows
<1>5. call \in [Callers -> Calls]
  BY WorkerTypes
<1>6. /\ call' \in [Callers -> Calls]
      /\ \A w \in Callers :
            /\ w \in who => /\ call'[w].op = op /\ call'[w].st \in {"wait", "closed"}
                            /\ mgr.phase # "stopped" => call'[w] = [op |-> op, st |-> "wait"]
            /\ w \notin who => call'[w] = call[w]
  BY <1>1, <1>3, <1>5, MakeCallsResult
<1>7. /\ call'["worker"].op = op /\ call'["worker"].st \in {"wait", "closed"}
      /\ mgr.phase # "stopped" => call'["worker"] = [op |-> op, st |-> "wait"]
      /\ \A w \in Callers : w # "worker" => call'[w] = call[w]
  BY <1>1, <1>6, CallerFacts
<1>8. wrk' \in Wrks /\ wrk'.pc = pc /\ wrk'.state = wrk.state
  BY PcMoves
<1>9. call'["worker"].op = WorkerOp' /\ (call'["worker"].op = "none" <=> call'["worker"].st = "idle")
  BY <1>7, <1>8 DEF WorkerOp
<1>10. ClaimInv'
  <2>1. CASE pc = "registering"
    <3>1. op = "register"
      BY <2>1
    <3> QED BY <1>0, <1>2, <1>4, <1>8, <1>w, <2>1, <3>1, ClaimRegister
  <2>2. CASE pc = "deferring"
    <3>0. op # "connect"
      BY <2>2
    <3>1. /\ \A i \in 1 .. Len(cmds) : ~IsConnect(cmds[i])
          /\ cur # NoCall => ~IsConnect(cur)
      BY <1>0, <2>2, NoConnects
    <3>2. /\ \A i \in 1 .. Len(cmds) : cmds'[i] = cmds[i]
          /\ \A i \in 1 .. Len(cmds') :
                i \in 1 .. Len(cmds) \/ (i > Len(cmds) /\ cmds'[i].op = op)
      BY <1>0, <1>4, GrowAt
    <3>3. \A i \in 1 .. Len(cmds') : cmds'[i].op # "connect"
      BY <3>0, <3>1, <3>2 DEF IsConnect
    <3> QED BY <3>1, <3>3 DEF ClaimInv, IsConnect, IsReset
  <2>3. CASE pc \in {"connecting", "notifying"}
    <3>1. op # "connect" \/ pc = "connecting"
      BY <2>3
    <3> QED BY <1>0, <1>4, <1>8, <2>3, <3>1, ClaimGrow
  <2> QED BY <2>1, <2>2, <2>3
<1>11. who \subseteq Callers
  BY <1>1
<1> QED BY <1>1, <1>4, <1>6, <1>7, <1>8, <1>9, <1>10, <1>11, WorkerStep

\* The worker has its answer and makes no other call.
LEMMA WorkerResting ==
    ASSUME SyncInv, wrk' \in Wrks, WorkerDone,
           wrk'.pc \in {"gate", "retry", "panicked"}, wrk.state => wrk'.state,
           UNCHANGED <<mgr, cur, vs, vsLink, actor, inFlight, exit, count>>,
           call["worker"].st # "wait", wrk.pc # "notifying",
           life' \in Lifes, deferred' \in BOOLEAN,
           wrk.pc \in {"registering", "deferring"} \/ wrk'.state = wrk.state
    PROVE  SyncInv'
<1> DEFINE op == "stop"
           who == {}
<1>0. TypeOK /\ MgrInv /\ QueueInv /\ ClaimInv
  BY SyncParts
<1>1. call' = [call EXCEPT !["worker"] = NoCall] /\ cmds' = cmds
  BY DEF WorkerDone
<1>2. /\ who \in SUBSET {"worker", "nobody"} /\ who \subseteq Callers /\ "worker" \notin who
  OBVIOUS
<1> HIDE DEF op, who
<1>3. Grows(op, who)
  BY <1>0, <1>1, GrowsNone
<1>4. /\ call' \in [Callers -> Calls]
      /\ \A w \in Callers : w # "worker" => call'[w] = call[w]
      /\ call'["worker"] = NoCall
  BY <1>1, WorkerTypes, CallerFacts
<1>5. call'["worker"].op = "none" /\ call'["worker"].st = "idle"
  BY <1>4 DEF NoCall
<1>6. call'["worker"].op = WorkerOp'
  BY <1>5 DEF WorkerOp
<1>7. ClaimInv'
  <2>1. CASE wrk.pc \in {"registering", "deferring"}
    <3>1. /\ \A i \in 1 .. Len(cmds) : ~IsConnect(cmds[i])
          /\ cur # NoCall => ~IsConnect(cur)
      BY <1>0, <2>1, NoConnects DEF ClaimInv
    <3> QED BY <1>1, <3>1 DEF ClaimInv, IsConnect, IsReset
  <2>2. CASE wrk'.state = wrk.state
    BY <1>0, <1>1, <2>2, ClaimFrame
  <2> QED BY <2>1, <2>2
<1> QED BY <1>2, <1>3, <1>4, <1>5, <1>6, <1>7, WorkerStep

LEMMA CallConnectKeeps == SyncInv /\ CallConnect => SyncInv'
<1> SUFFICES ASSUME SyncInv, CallConnect PROVE SyncInv'
  OBVIOUS
<1> DEFINE op == "connect"
           pc == "connecting"
<1>1. /\ wrk' = [wrk EXCEPT !.pc = pc] /\ WorkerCalls(op) /\ wrk.pc = "retry"
      /\ UNCHANGED <<mgr, cur, life, actor, deferred, inFlight, exit, vs, vsLink, count>>
  BY DEF CallConnect, WorkerGoes, WorkerAt
<1>2. op = "connect" /\ pc = "connecting"
  OBVIOUS
<1> HIDE DEF op, pc
<1>3. call["worker"].st # "wait" /\ life' \in Lifes /\ deferred' \in BOOLEAN
  BY <1>1, WorkerIdle, WorkerTypes
<1>4. op \in {"connect", "register", "authorize", "disconnect"}
  BY <1>2
<1> QED BY <1>1, <1>2, <1>3, <1>4, WorkerCalling

LEMMA RegisterAnsweredKeeps == SyncInv /\ RegisterAnswered => SyncInv'
<1> SUFFICES ASSUME SyncInv, RegisterAnswered PROVE SyncInv'
  OBVIOUS
<1>1. /\ wrk.pc = "registering" /\ deferred' \in BOOLEAN /\ life' \in Lifes
      /\ UNCHANGED <<mgr, cur, vs, vsLink, actor, inFlight, exit, count>>
  BY WorkerTypes DEF RegisterAnswered, WorkerAt
<1>2. call["worker"].st # "wait"
  BY WorkerIdle DEF RegisterAnswered
<1>3. CASE WorkerGoes("deferring") /\ WorkerCalls("authorize")
  <2> DEFINE op == "authorize"
             pc == "deferring"
  <2>1. wrk' = [wrk EXCEPT !.pc = pc] /\ WorkerCalls(op) /\ op = "authorize" /\ pc = "deferring"
    BY <1>3 DEF WorkerGoes
  <2> HIDE DEF op, pc
  <2>2. op \in {"connect", "register", "authorize", "disconnect"}
    BY <2>1
  <2> QED BY <1>1, <1>2, <2>1, <2>2, WorkerCalling
<1>4. CASE wrk' = [pc |-> "gate", state |-> TRUE] /\ WorkerDone
  <2>1. wrk' \in Wrks /\ wrk'.pc = "gate" /\ wrk'.state
    BY <1>4 DEF Wrks
  <2> QED BY <1>1, <1>2, <1>4, <2>1, WorkerResting
<1>5. CASE RegisterFailed
  <2> DEFINE op == "disconnect"
             pc == "notifying"
  <2>1. wrk' = [wrk EXCEPT !.pc = pc] /\ WorkerCalls(op) /\ op = "disconnect" /\ pc = "notifying"
    BY <1>5 DEF WorkerGoes, RegisterFailed
  <2> HIDE DEF op, pc
  <2>2. op \in {"connect", "register", "authorize", "disconnect"}
    BY <2>1
  <2> QED BY <1>1, <1>2, <2>1, <2>2, WorkerCalling
<1> QED BY <1>3, <1>4, <1>5 DEF RegisterAnswered

LEMMA DeferredAnsweredKeeps == SyncInv /\ DeferredAnswered => SyncInv'
<1> SUFFICES ASSUME SyncInv, DeferredAnswered PROVE SyncInv'
  OBVIOUS
<1>1. /\ wrk.pc = "deferring" /\ deferred' \in BOOLEAN /\ life' \in Lifes /\ WorkerDone
      /\ UNCHANGED <<mgr, cur, vs, vsLink, actor, inFlight, exit, count>>
  BY WorkerTypes DEF DeferredAnswered, WorkerAt
<1>2. call["worker"].st # "wait"
  BY WorkerIdle DEF DeferredAnswered
<1>3. wrk' \in Wrks /\ wrk'.pc \in {"gate", "panicked"} /\ (wrk.state => wrk'.state)
  BY WorkerTypes DEF DeferredAnswered, Wrks
<1> QED BY <1>1, <1>2, <1>3, WorkerResting

LEMMA RestartKeeps == SyncInv /\ RestartAfterFailedRegister => SyncInv'
<1> SUFFICES ASSUME SyncInv, RestartAfterFailedRegister PROVE SyncInv'
  OBVIOUS
<1> DEFINE op == "restart"
           who == {"nobody"}
           pc == "gate"
<1>0. TypeOK /\ MgrInv /\ QueueInv /\ TaskInv /\ ClaimInv
  BY SyncParts
<1>1. /\ wrk.pc = "notifying" /\ call' = [call EXCEPT !["worker"] = NoCall] /\ Send(op)
      /\ wrk' = [wrk EXCEPT !.pc = pc] /\ deferred' \in BOOLEAN /\ life' \in Lifes
      /\ UNCHANGED <<mgr, cur, vs, vsLink, actor, inFlight, exit, count>>
  BY WorkerTypes DEF RestartAfterFailedRegister, WorkerAt, WorkerGoes
<1>2. call["worker"].st # "wait"
  BY WorkerIdle DEF RestartAfterFailedRegister
<1>3. /\ op \in {"restart", "stop"} /\ op \in {"connect", "restart", "stop"} /\ op = "restart"
      /\ who = {"nobody"} /\ pc = "gate" /\ who \in SUBSET {"worker", "nobody"} /\ "worker" \notin who
  OBVIOUS
<1> HIDE DEF op, who, pc
<1>4. Grows(op, who) /\ (mgr.phase # "stopped" => Len(cmds') = Len(cmds) + 1)
  BY <1>0, <1>1, <1>3, SendGrows
<1>5. wrk' \in Wrks /\ wrk'.pc = pc /\ wrk'.state = wrk.state
  BY <1>1, <1>3, PcMoves
<1>6. /\ call' \in [Callers -> Calls]
      /\ \A w \in Callers : w # "worker" => call'[w] = call[w]
      /\ call'["worker"] = NoCall
  BY <1>1, WorkerTypes, CallerFacts
<1>7. call'["worker"].op = "none" /\ call'["worker"].st = "idle"
  BY <1>6 DEF NoCall
<1>8. call'["worker"].op = WorkerOp'
  BY <1>3, <1>5, <1>7 DEF WorkerOp
<1>9. ClaimInv'
  BY <1>0, <1>1, <1>3, <1>4, <1>5, ClaimGrow
<1>10. ASSUME mgr.handle PROVE RestartFirst'
  <2> DEFINE n == Len(cmds) + 1
  <2>1. mgr.phase # "stopped"
    BY <1>0, <1>10 DEF MgrInv
  <2>2. /\ Len(cmds) \in Nat /\ Len(cmds') = n
        /\ \A i \in 1 .. Len(cmds) : cmds'[i] = cmds[i]
    BY <1>0, <1>4, <2>1, GrowAt
  <2>3. n \in 1 .. Len(cmds') /\ n > Len(cmds)
    BY <2>2
  <2>4. cmds'[n].op = "restart"
    BY <1>3, <1>4, <2>3 DEF Grows
  <2>5. ASSUME NEW j \in 1 .. Len(cmds'), cmds'[j].op = "register" PROVE FALSE
    <3>1. CASE j \in 1 .. Len(cmds)
      <4>1. Pending(cmds[j]) /\ cmds[j].op = "register"
        BY <1>0, <2>2, <2>5, <3>1 DEF QueueInv
      <4>2. wrk.pc = "registering"
        BY <1>0, <4>1, RegisterOwner
      <4> QED BY <1>1, <4>2
    <3>2. CASE j = n
      BY <2>4, <2>5, <3>2
    <3> QED BY <2>2, <3>1, <3>2
  <2> HIDE DEF n
  <2> QED BY <2>3, <2>4, <2>5 DEF RestartFirst
<1> QED BY <1>1, <1>2, <1>3, <1>4, <1>5, <1>6, <1>7, <1>8, <1>9, <1>10, WorkerStep

-------------------------------------------------------------------------------
(* Actors.                                                                 *)

Actrs == [st : {"out", "authorizing", "in", "leaving"}, early : BOOLEAN]

\* What a task of an actor in this state awaits.
ActorOps(st) ==
    CASE st = "in"          -> {"none"}
      [] st = "leaving"     -> {"disconnect"}
      [] st = "authorizing" -> {"authorize"}
      [] st = "out"         -> {"none", "authorize"}

LEMMA ActorTask ==
    ASSUME TaskInv
    PROVE  \A a \in Actors : /\ call[a].op \in ActorOps(actor[a].st)
                             /\ call[a].op = "none" <=> call[a].st = "idle"
  BY CallerFacts DEF TaskInv, ActorOps

\* Every actor's link is reset, and those that are docked are deregistered.
LEMMA Resetting ==
    ASSUME SyncInv, NEW c \in [Callers -> Calls], ResetActors(c),
           \A w \in Callers : w # "worker" => c[w] = call[w],
           c["worker"] = call["worker"] \/ call["worker"].st # "wait",
           c["worker"].op = WorkerOp', c["worker"].op = "none" <=> c["worker"].st = "idle",
           UNCHANGED <<mgr, cur, life, vs, vsLink, inFlight, deferred, count>>,
           wrk' \in Wrks, exit' \in {"no", "peers", "vs", "done"},
           wrk'.state => wrk.state,
           wrk'.pc = wrk.pc \/ wrk'.pc \notin {"deferring", "registering"},
           wrk.pc = "notifying" => wrk'.pc = "notifying" /\ c["worker"] = call["worker"]
    PROVE  SyncInv'
<1> DEFINE op == "disconnect"
           who == {a \in Actors : actor[a].st = "in"}
<1>0. TypeOK /\ TaskInv /\ ClaimInv /\ KnownInv
  BY SyncParts
<1>1. /\ MakeCalls(c, op, who) /\ op = "disconnect" /\ op \in Ops /\ op \in Ops \ {"restart", "stop"}
      /\ \A a \in Actors : a \in who <=> actor[a].st = "in"
      /\ who \subseteq Actors
  BY DEF ResetActors, Ops
<1>2. IsFiniteSet(who)
  BY <1>1, FS_Subset, VisaServiceAssumption
<1>3. actor' = [a \in Actors |->
                    [actor[a] EXCEPT !.st = IF actor[a].st \in {"in", "leaving"} THEN "leaving" ELSE "out"]]
  BY DEF ResetActors
<1> HIDE DEF op, who
<1>4. who \in SUBSET Callers /\ "worker" \notin who /\ "self" \notin who
  BY <1>1, CallerFacts
<1>5. Grows(op, who)
  BY <1>0, <1>1, <1>2, <1>4, MakeCallsGrows
<1>6. /\ call' \in [Callers -> Calls]
      /\ \A w \in Callers :
            /\ w \in who => /\ call'[w].op = op /\ call'[w].st \in {"wait", "closed"}
                            /\ mgr.phase # "stopped" => call'[w] = [op |-> op, st |-> "wait"]
            /\ w \notin who => call'[w] = c[w]
  BY <1>1, <1>4, MakeCallsResult
<1>7. actor \in [Actors -> Actrs]
  BY <1>0 DEF TypeOK, Actrs
<1>8. actor' \in [Actors -> Actrs] /\ \A a \in Actors :
         actor'[a].st = IF actor[a].st \in {"in", "leaving"} THEN "leaving" ELSE "out"
  BY <1>3, <1>7 DEF Actrs
<1>9. TypeOK'
  BY <1>0, <1>5, <1>6, <1>8 DEF TypeOK, Actrs, Wrks, Grows
<1>10. call'["worker"] = c["worker"] /\ call'["self"] = call["self"]
  BY <1>4, <1>6, CallerFacts
<1>11. TaskInv'
  <2>1. \A w \in Callers : call'[w].op = "none" <=> call'[w].st = "idle"
    <3>1. \A w \in Callers : c[w].op = "none" <=> c[w].st = "idle"
      BY <1>0 DEF TaskInv
    <3> QED BY <1>1, <1>6, <3>1
  <2>2. \A a \in Actors : call'[a].op \in ActorOps(actor'[a].st)
    <3>1. \A a \in Actors : call[a].op \in ActorOps(actor[a].st)
      BY <1>0, ActorTask
    <3>2. ASSUME NEW a \in Actors PROVE call'[a].op \in ActorOps(actor'[a].st)
      <4>0. a \in Callers /\ a # "worker" /\ actor[a].st \in {"out", "authorizing", "in", "leaving"}
        BY <1>7, CallerFacts DEF Actrs
      <4>1. CASE actor[a].st = "in"
        BY <1>1, <1>6, <1>8, <4>0, <4>1 DEF ActorOps
      <4>2. CASE actor[a].st # "in"
        <5>1. call'[a] = call[a]
          BY <1>1, <1>6, <4>0, <4>2
        <5>2. CASE actor[a].st = "leaving"
          BY <1>8, <3>1, <5>1, <5>2 DEF ActorOps
        <5>3. CASE actor[a].st \in {"out", "authorizing"}
          BY <1>8, <3>1, <5>1, <5>3 DEF ActorOps
        <5> QED BY <4>0, <4>2, <5>2, <5>3
      <4> QED BY <4>1, <4>2
    <3> QED BY <3>2
  <2>3. call'["self"].op = IF inFlight' THEN "reauthenticate" ELSE "none"
    BY <1>0, <1>10 DEF TaskInv
  <2> QED BY <1>10, <2>1, <2>2, <2>3 DEF TaskInv, ActorOps
<1>12. KnownInv'
  BY <1>8 DEF KnownInv, Admitted
<1>13. ClaimInv'
  BY <1>0, <1>1, <1>5, ClaimGrow
<1>14. \A w \in Callers :
         IF w \in who
         THEN /\ call[w].st # "wait"
              /\ mgr.phase # "stopped" => call'[w] = [op |-> op, st |-> "wait"]
         ELSE call'[w] = call[w] \/ call[w].st # "wait"
  <2>1. \A a \in Actors : actor[a].st = "in" => call[a].op = "none" /\ call[a].st = "idle"
    BY <1>0, ActorTask DEF ActorOps
  <2> QED BY <1>1, <1>6, <2>1
<1> QED BY <1>4, <1>5, <1>9, <1>10, <1>11, <1>12, <1>13, <1>14, GrowStep

LEMMA ShutdownKeeps == SyncInv /\ Shutdown => SyncInv'
<1> SUFFICES ASSUME SyncInv, Shutdown PROVE SyncInv'
  OBVIOUS
<1>1. /\ ResetActors(call) /\ exit' = "peers"
      /\ UNCHANGED <<mgr, cur, life, wrk, deferred, inFlight, vs, vsLink, count>>
  BY DEF Shutdown
<1>2. call \in [Callers -> Calls] /\ wrk' \in Wrks
  BY <1>1, WorkerTypes
<1>3. call["worker"].op = WorkerOp' /\ (call["worker"].op = "none" <=> call["worker"].st = "idle")
  BY <1>1, SyncParts, CallerFacts DEF TaskInv, WorkerOp
<1> QED BY <1>1, <1>2, <1>3, Resetting

LEMMA ConnectAnsweredKeeps == SyncInv /\ ConnectAnswered => SyncInv'
<1> SUFFICES ASSUME SyncInv, ConnectAnswered PROVE SyncInv'
  OBVIOUS
<1>1. /\ wrk.pc = "connecting" /\ deferred' \in BOOLEAN /\ life' \in Lifes
      /\ UNCHANGED <<mgr, cur, life, deferred, inFlight, exit, vs, vsLink, count>>
  BY WorkerTypes DEF ConnectAnswered, WorkerAt
<1>2. call["worker"].st # "wait"
  BY WorkerIdle DEF ConnectAnswered
<1>3. CASE WorkerGoes("registering") /\ WorkerCalls("register") /\ UNCHANGED actor
  <2> DEFINE op == "register"
             pc == "registering"
  <2>1. wrk' = [wrk EXCEPT !.pc = pc] /\ WorkerCalls(op) /\ op = "register" /\ pc = "registering"
    BY <1>3 DEF WorkerGoes
  <2> HIDE DEF op, pc
  <2>2. op \in {"connect", "register", "authorize", "disconnect"}
    BY <2>1
  <2> QED BY <1>1, <1>2, <1>3, <2>1, <2>2, WorkerCalling
<1>4. CASE WorkerGoes("retry") /\ WorkerDone /\ UNCHANGED actor
  <2>1. wrk' \in Wrks /\ wrk'.pc = "retry" /\ wrk'.state = wrk.state
    BY <1>4, WorkerTypes DEF WorkerGoes, Wrks
  <2> QED BY <1>1, <1>2, <1>4, <2>1, WorkerResting
<1>5. CASE DisconnectAdapters
  <2> DEFINE c == [call EXCEPT !["worker"] = NoCall]
  <2>1. ResetActors(c) /\ wrk' = [pc |-> "disconnecting", state |-> FALSE]
    BY <1>5 DEF DisconnectAdapters
  <2>2. /\ c \in [Callers -> Calls] /\ c["worker"] = NoCall
        /\ \A w \in Callers : w # "worker" => c[w] = call[w]
    BY WorkerTypes, CallerFacts
  <2> HIDE DEF c
  <2>3. wrk' \in Wrks /\ wrk'.pc = "disconnecting" /\ ~wrk'.state
    BY <2>1 DEF Wrks
  <2>4. c["worker"].op = "none" /\ c["worker"].st = "idle"
    BY <2>2 DEF NoCall
  <2>5. c["worker"].op = WorkerOp'
    BY <2>3, <2>4 DEF WorkerOp
  <2>6. exit' \in {"no", "peers", "vs", "done"}
    BY <1>1, SyncParts DEF TypeOK
  <2> QED BY <1>1, <1>2, <2>1, <2>2, <2>3, <2>4, <2>5, <2>6, Resetting
<1> QED BY <1>3, <1>4, <1>5 DEF ConnectAnswered

\* A task that is not the worker makes a call.
LEMMA Calling ==
    ASSUME SyncInv, NEW q \in Callers, q # "worker",
           NEW op \in {"authorize", "disconnect", "reauthenticate"},
           MakeCalls(call, op, {q}), call[q].st # "wait",
           UNCHANGED <<mgr, cur, life, vs, vsLink, wrk, exit, deferred>>,
           actor' \in [Actors -> Actrs], inFlight' \in BOOLEAN,
           count' \in [faults : Nat, requests : Nat],
           \A a \in Actors : a # q => actor'[a] = actor[a],
           IF q = "self" THEN inFlight' /\ op = "reauthenticate" ELSE inFlight' = inFlight,
           q \in Actors => op \in ActorOps(actor'[q].st) /\ actor'[q].st # "in",
           q \in Actors /\ actor'[q].st = "authorizing" /\ ~actor'[q].early => wrk.state
    PROVE  SyncInv'
<1> DEFINE who == {q}
<1>0. TypeOK /\ TaskInv /\ ClaimInv /\ KnownInv
  BY SyncParts
<1>1. /\ who \in SUBSET Callers /\ MakeCalls(call, op, who)
      /\ \A w \in Callers : w \in who <=> w = q
  OBVIOUS
<1>2. IsFiniteSet(who)
  BY FS_Singleton
<1>3. op \in Ops /\ op \in Ops \ {"restart", "stop"} /\ op # "connect" /\ op # "none"
  BY DEF Ops
<1> HIDE DEF who
<1>4. Grows(op, who)
  BY <1>0, <1>1, <1>2, <1>3, MakeCallsGrows
<1>5. call \in [Callers -> Calls]
  BY WorkerTypes
<1>6. /\ call' \in [Callers -> Calls]
      /\ \A w \in Callers :
            /\ w \in who => /\ call'[w].op = op /\ call'[w].st \in {"wait", "closed"}
                            /\ mgr.phase # "stopped" => call'[w] = [op |-> op, st |-> "wait"]
            /\ w \notin who => call'[w] = call[w]
  BY <1>1, <1>3, <1>5, MakeCallsResult
<1>7. /\ call'[q].op = op /\ call'[q].st \in {"wait", "closed"}
      /\ mgr.phase # "stopped" => call'[q] = [op |-> op, st |-> "wait"]
      /\ \A w \in Callers : w # q => call'[w] = call[w]
  BY <1>1, <1>6
<1>8. TypeOK'
  BY <1>0, <1>4, <1>6 DEF TypeOK, Actrs, Grows
<1>9. TaskInv'
  <2>1. \A w \in Callers : call'[w].op = "none" <=> call'[w].st = "idle"
    BY <1>0, <1>3, <1>7 DEF TaskInv
  <2>2. call'["worker"].op = WorkerOp'
    BY <1>0, <1>7, CallerFacts DEF TaskInv, WorkerOp
  <2>3. call'["self"].op = IF inFlight' THEN "reauthenticate" ELSE "none"
    BY <1>0, <1>7, CallerFacts DEF TaskInv
  <2>4. \A a \in Actors : call'[a].op \in ActorOps(actor'[a].st)
    BY <1>0, <1>7, CallerFacts, ActorTask
  <2> QED BY <2>1, <2>2, <2>3, <2>4 DEF TaskInv, ActorOps
<1>10. KnownInv'
  BY <1>0, <1>7, CallerFacts DEF KnownInv, Admitted
<1>11. ClaimInv'
  BY <1>0, <1>3, <1>4, ClaimGrow
<1>12. \A w \in Callers :
         IF w \in who
         THEN /\ call[w].st # "wait"
              /\ mgr.phase # "stopped" => call'[w] = [op |-> op, st |-> "wait"]
         ELSE call'[w] = call[w] \/ call[w].st # "wait"
  BY <1>1, <1>6
<1>13. call'["worker"] = call["worker"]
  BY <1>7, CallerFacts
<1> QED BY <1>1, <1>4, <1>8, <1>9, <1>10, <1>11, <1>12, <1>13, GrowStep

\* A task that is not the worker has its answer.
LEMMA Resting ==
    ASSUME SyncInv, NEW q \in Callers, q # "worker", Answered(q),
           call' = [call EXCEPT ![q] = NoCall],
           UNCHANGED <<mgr, cmds, cur, life, vs, vsLink, wrk, exit, deferred, count>>,
           actor' \in [Actors -> Actrs], inFlight' \in BOOLEAN,
           \A a \in Actors : a # q => actor'[a] = actor[a],
           IF q = "self" THEN ~inFlight' ELSE inFlight' = inFlight,
           q \in Actors => /\ actor'[q].st \in {"in", "out"} /\ actor'[q].early = actor[q].early
                           /\ actor'[q].st = "in" =>
                                 actor[q].st = "authorizing" /\ call[q].st = "ok"
    PROVE  SyncInv'
<1> DEFINE op == "stop"
           who == {}
<1>0. TypeOK /\ TaskInv /\ ClaimInv /\ KnownInv
  BY SyncParts
<1>1. who \subseteq Callers /\ \A w \in Callers : w \notin who
  OBVIOUS
<1> HIDE DEF op, who
<1>2. Grows(op, who)
  BY <1>0, GrowsNone
<1>3. /\ call' \in [Callers -> Calls] /\ call'[q] = NoCall
      /\ \A w \in Callers : w # q => call'[w] = call[w]
  BY WorkerTypes
<1>4. call'[q].op = "none" /\ call'[q].st = "idle"
  BY <1>3 DEF NoCall
<1>5. call[q].st # "wait"
  BY DEF Answered, Answers
<1>6. TypeOK'
  BY <1>0, <1>3 DEF TypeOK, Actrs
<1>7. TaskInv'
  <2>1. \A w \in Callers : call'[w].op = "none" <=> call'[w].st = "idle"
    BY <1>0, <1>3, <1>4 DEF TaskInv
  <2>2. call'["worker"].op = WorkerOp'
    BY <1>0, <1>3, CallerFacts DEF TaskInv, WorkerOp
  <2>3. call'["self"].op = IF inFlight' THEN "reauthenticate" ELSE "none"
    BY <1>0, <1>3, <1>4, CallerFacts DEF TaskInv
  <2>4. \A a \in Actors : call'[a].op \in ActorOps(actor'[a].st)
    <3>1. \A a \in Actors : a # q => call'[a].op \in ActorOps(actor'[a].st)
      BY <1>0, <1>3, CallerFacts, ActorTask
    <3>2. q \in Actors => call'[q].op \in ActorOps(actor'[q].st)
      BY <1>4 DEF ActorOps
    <3> QED BY <3>1, <3>2
  <2> QED BY <2>1, <2>2, <2>3, <2>4 DEF TaskInv, ActorOps
<1>8. KnownInv'
  BY <1>0, <1>3, CallerFacts DEF KnownInv, Admitted
<1>9. ClaimInv'
  BY <1>0, ClaimFrame
<1>10. \A w \in Callers :
         IF w \in who
         THEN /\ call[w].st # "wait"
              /\ mgr.phase # "stopped" => call'[w] = [op |-> op, st |-> "wait"]
         ELSE call'[w] = call[w] \/ call[w].st # "wait"
  BY <1>1, <1>3, <1>5
<1>11. call'["worker"] = call["worker"]
  BY <1>3, CallerFacts
<1> QED BY <1>1, <1>2, <1>6, <1>7, <1>8, <1>9, <1>10, <1>11, GrowStep

LEMMA ActorTypes ==
    ASSUME SyncInv
    PROVE  /\ actor \in [Actors -> Actrs] /\ inFlight \in BOOLEAN
           /\ count \in [faults : Nat, requests : Nat]
           /\ Request => count' \in [faults : Nat, requests : Nat]
           /\ wrk.state \in BOOLEAN
  BY SyncParts DEF TypeOK, Actrs, Request

LEMMA ActorCallKeeps ==
    ASSUME SyncInv, NEW a \in Actors, AuthorizeConnect(a) \/ ActorDisconnect(a)
    PROVE  SyncInv'
<1> DEFINE op == IF AuthorizeConnect(a) THEN "authorize" ELSE "disconnect"
<1>1. /\ UNCHANGED <<mgr, cur, life, vs, vsLink, wrk, exit, deferred, inFlight>>
      /\ MakeCalls(call, op, {a}) /\ op \in {"authorize", "disconnect", "reauthenticate"}
      /\ Request \/ count' = count
  BY DEF AuthorizeConnect, ActorDisconnect
<1>2. a \in Callers /\ a # "worker" /\ a # "self"
  BY CallerFacts
<1>3. call[a].st # "wait"
  <2>1. CASE AuthorizeConnect(a)
    BY <2>1, NoCallNoCmd DEF AuthorizeConnect
  <2>2. CASE ActorDisconnect(a)
    <3>1. call[a].op = "none"
      BY <2>2, SyncParts, ActorTask DEF ActorDisconnect, ActorOps
    <3> QED BY <3>1, SyncParts, ActorTask
  <2> QED BY <2>1, <2>2
<1>4. /\ actor' \in [Actors -> Actrs] /\ \A b \in Actors : b # a => actor'[b] = actor[b]
      /\ op \in ActorOps(actor'[a].st) /\ actor'[a].st # "in"
      /\ actor'[a].st = "authorizing" /\ ~actor'[a].early => wrk.state
  <2>1. CASE AuthorizeConnect(a)
    <3>1. actor' = [actor EXCEPT ![a] = [st |-> "authorizing", early |-> ~wrk.state]]
      BY <2>1 DEF AuthorizeConnect
    <3>2. [st |-> "authorizing", early |-> ~wrk.state] \in Actrs
      BY ActorTypes DEF Actrs
    <3>3. actor' \in [Actors -> Actrs] /\ (\A b \in Actors : b # a => actor'[b] = actor[b])
          /\ actor'[a] = [st |-> "authorizing", early |-> ~wrk.state]
      BY <3>1, <3>2, ActorTypes
    <3>4. actor'[a].st = "authorizing" /\ actor'[a].early = ~wrk.state
      BY <3>3
    <3>5. op \in ActorOps("authorizing")
      BY <2>1 DEF ActorOps
    <3> QED BY <3>3, <3>4, <3>5
  <2>2. CASE ActorDisconnect(a) /\ ~AuthorizeConnect(a)
    <3>1. actor' = [actor EXCEPT ![a].st = "leaving"]
      BY <2>2 DEF ActorDisconnect
    <3>2. actor' \in [Actors -> Actrs] /\ (\A b \in Actors : b # a => actor'[b] = actor[b])
          /\ actor'[a].st = "leaving"
      BY <3>1, ActorTypes DEF Actrs
    <3>3. op \in ActorOps("leaving")
      BY <2>2 DEF ActorOps
    <3> QED BY <3>2, <3>3
  <2> QED BY <2>1, <2>2
<1> HIDE DEF op
<1>5. inFlight' \in BOOLEAN /\ count' \in [faults : Nat, requests : Nat]
  BY <1>1, ActorTypes
<1> QED BY <1>1, <1>2, <1>3, <1>4, <1>5, Calling

LEMMA ActorAnswerKeeps ==
    ASSUME SyncInv, NEW a \in Actors, AuthorizeAnswered(a) \/ DisconnectAnswered(a)
    PROVE  SyncInv'
<1>1. /\ UNCHANGED <<mgr, cmds, cur, life, vs, vsLink, wrk, exit, deferred, count, inFlight>>
      /\ Answered(a) /\ call' = [call EXCEPT ![a] = NoCall]
  BY DEF AuthorizeAnswered, DisconnectAnswered, conn
<1>2. a \in Callers /\ a # "worker" /\ a # "self"
  BY CallerFacts
<1> DEFINE st == IF DisconnectAnswered(a) THEN "out"
                 ELSE IF actor[a].st # "authorizing" THEN actor[a].st
                 ELSE IF call[a].st = "ok" THEN "in" ELSE "out"
<1>3. actor' = [actor EXCEPT ![a].st = st]
  BY DEF AuthorizeAnswered, DisconnectAnswered
<1>4. st \in {"in", "out"} /\ (st = "in" => actor[a].st = "authorizing" /\ call[a].st = "ok")
  <2>1. CASE DisconnectAnswered(a)
    BY <2>1
  <2>2. CASE AuthorizeAnswered(a)
    <3>1. call[a].op = "authorize" /\ actor[a].st \in {"out", "authorizing", "in", "leaving"}
      BY <2>2, ActorTypes DEF AuthorizeAnswered, Actrs
    <3>2. actor[a].st \in {"out", "authorizing"}
      BY <3>1, SyncParts, ActorTask DEF ActorOps
    <3> QED BY <3>2
  <2> QED BY <2>1, <2>2
<1> HIDE DEF st
<1>5. /\ actor' \in [Actors -> Actrs] /\ \A b \in Actors : b # a => actor'[b] = actor[b]
      /\ actor'[a].st = st /\ actor'[a].early = actor[a].early
  BY <1>3, <1>4, ActorTypes DEF Actrs
<1>6. inFlight' \in BOOLEAN
  BY <1>1, ActorTypes
<1> QED BY <1>1, <1>2, <1>4, <1>5, <1>6, Resting

LEMMA SelfKeeps == SyncInv /\ (RequestAuthentication \/ SelfReauthDone) => SyncInv'
<1> SUFFICES ASSUME SyncInv, RequestAuthentication \/ SelfReauthDone PROVE SyncInv'
  OBVIOUS
<1> DEFINE q == "self"
           op == "reauthenticate"
<1>1. q \in Callers /\ q # "worker" /\ q \notin Actors /\ q = "self" /\ op = "reauthenticate"
  BY CallerFacts
<1>2. CASE RequestAuthentication
  <2>1. /\ UNCHANGED <<mgr, cur, life, vs, vsLink, wrk, exit, deferred, actor>>
        /\ MakeCalls(call, op, {q}) /\ Request /\ inFlight' = TRUE /\ ~inFlight
    BY <1>2 DEF RequestAuthentication, VssCall, ProcessRequestAuthentication
  <2> HIDE DEF q, op
  <2>2. call[q].st # "wait"
    BY <1>1, <2>1, SyncParts, CallerFacts DEF TaskInv
  <2>3. /\ actor' \in [Actors -> Actrs] /\ inFlight' \in BOOLEAN
        /\ count' \in [faults : Nat, requests : Nat]
        /\ op \in {"authorize", "disconnect", "reauthenticate"}
    BY <1>1, <2>1, ActorTypes
  <2> QED BY <1>1, <2>1, <2>2, <2>3, Calling
<1>3. CASE SelfReauthDone
  <2>1. /\ UNCHANGED <<mgr, cmds, cur, life, vs, vsLink, wrk, exit, deferred, count, actor>>
        /\ Answered(q) /\ call' = [call EXCEPT ![q] = NoCall] /\ inFlight' = FALSE
    BY <1>3 DEF SelfReauthDone, conn
  <2> HIDE DEF q, op
  <2>2. actor' \in [Actors -> Actrs] /\ inFlight' \in BOOLEAN
    BY <2>1, ActorTypes
  <2> QED BY <1>1, <2>1, <2>2, Resting
<1> QED BY <1>2, <1>3

\* A restart or a stop that nobody waits for.
LEMMA Sending ==
    ASSUME SyncInv, NEW op \in {"restart", "stop"}, Send(op) \/ cmds' = cmds,
           UNCHANGED <<mgr, cur, life, wrk, call, actor, deferred, inFlight>>,
           vs' \in {vs, Unconnected}, vsLink' \in {"up", "down"}, exit' \in {"no", "peers", "vs", "done"},
           count' \in [faults : Nat, requests : Nat]
    PROVE  SyncInv'
<1> DEFINE who == {"nobody"}
<1>0. TypeOK /\ TaskInv /\ ClaimInv /\ KnownInv
  BY SyncParts
<1>1. \A w \in Callers : w \notin who
  BY CallerFacts
<1>2. Grows(op, who)
  BY <1>0, SendGrows, GrowsNone
<1> HIDE DEF who
<1>v. /\ vs' \in [conn : BOOLEAN, state : BOOLEAN, known : SUBSET Actors, registered : BOOLEAN]
      /\ vs'.state = vs.state /\ vs'.known = vs.known
      /\ vs'.conn => vs.conn
      /\ vs'.registered => vs.registered
  <2>1. CASE vs' = vs
    BY <1>0, <2>1 DEF TypeOK
  <2>2. CASE vs' = Unconnected
    BY <1>0, <2>2, VsUnconnected
  <2> QED BY <2>1, <2>2
<1>3. TypeOK'
  BY <1>0, <1>2, <1>v DEF TypeOK, Grows
<1>4. TaskInv' /\ KnownInv'
  <2>1. WorkerOp' = WorkerOp
    BY DEF WorkerOp
  <2> QED BY <1>0, <1>v, <2>1, TaskFrame, KnownFrame
<1>5. ClaimInv'
  BY <1>0, <1>2, ClaimGrow
<1>6. \A w \in Callers :
         IF w \in who
         THEN /\ call[w].st # "wait"
              /\ mgr.phase # "stopped" => call'[w] = [op |-> op, st |-> "wait"]
         ELSE call'[w] = call[w] \/ call[w].st # "wait"
  BY <1>1
<1>7. op \in {"connect", "restart", "stop"}
  OBVIOUS
<1> QED BY <1>v, <1>2, <1>3, <1>4, <1>5, <1>6, <1>7, GrowStep

LEMMA SendingKeeps == SyncInv /\ (VsLinkDown \/ ShutdownVsPeer) => SyncInv'
<1> SUFFICES ASSUME SyncInv, VsLinkDown \/ ShutdownVsPeer PROVE SyncInv'
  OBVIOUS
<1>1. /\ UNCHANGED <<mgr, cur, life, wrk, call, actor, deferred, inFlight>>
      /\ vs' \in {vs, Unconnected}
  BY DEF VsLinkDown, ShutdownVsPeer, node
<1>2. /\ vsLink' \in {"up", "down"} /\ exit' \in {"no", "peers", "vs", "done"}
      /\ count' \in [faults : Nat, requests : Nat]
  <2>1. Fault => count' \in [faults : Nat, requests : Nat]
    BY SyncParts, FaultCount
  <2>2. TypeOK
    BY SyncParts
  <2> QED BY <2>1, <2>2 DEF VsLinkDown, ShutdownVsPeer, node, TypeOK
<1>3. \E op \in {"restart", "stop"} : Send(op) \/ cmds' = cmds
  BY DEF VsLinkDown, ShutdownVsPeer, VsLinkCloses
<1> QED BY <1>1, <1>2, <1>3, Sending

-------------------------------------------------------------------------------
(* An event read before the answer: the connect is abandoned.              *)

LEMMA AbandonResult ==
    /\ Abandon(NoCall) = NoCall
    /\ \A c \in Cmds : /\ Abandon(c) \in Cmds /\ Abandon(c).op = c.op /\ Abandon(c).state = c.state
                       /\ Abandon(c).who = IF c.who = "worker" THEN "nobody" ELSE c.who
<1>1. Abandon(NoCall) = NoCall
  BY DEF Abandon, NoCall
<1>2. ASSUME NEW c \in Cmds
      PROVE  /\ Abandon(c) \in Cmds /\ Abandon(c).op = c.op /\ Abandon(c).state = c.state
             /\ Abandon(c).who = IF c.who = "worker" THEN "nobody" ELSE c.who
  <2>1. "who" \in DOMAIN c
    BY DEF Cmds
  <2>2. CASE c.who = "worker"
    <3>1. Abandon(c) = [c EXCEPT !.who = "nobody"]
      BY <2>1, <2>2 DEF Abandon
    <3> QED BY <2>2, <3>1 DEF Cmds
  <2>3. CASE c.who # "worker"
    BY <2>3 DEF Abandon
  <2> QED BY <2>2, <2>3
<1> QED BY <1>1, <1>2

\* The channel after the event: the worker's connect is nobody's, and a registration may be
\* added.
Abandons ==
    /\ cmds' \in Seq(Cmds) /\ Len(cmds) \in Nat /\ Len(cmds') \in {Len(cmds), Len(cmds) + 1}
    /\ \A i \in 1 .. Len(cmds) :
          /\ cmds'[i].op = cmds[i].op /\ cmds'[i].state = cmds[i].state
          /\ cmds'[i].who = IF cmds[i].who = "worker" THEN "nobody" ELSE cmds[i].who
    /\ Len(cmds') = Len(cmds) + 1 =>
          /\ wrk'.pc = "registering" /\ call'["worker"] = [op |-> "register", st |-> "wait"]
          /\ cmds'[Len(cmds) + 1].op = "register" /\ cmds'[Len(cmds) + 1].who = "worker"
    /\ mgr.phase = "stopped" => Len(cmds') = Len(cmds)
    /\ wrk'.pc = "registering" /\ mgr.phase # "stopped" => Len(cmds') = Len(cmds) + 1

LEMMA LifecycleAbandons ==
    ASSUME SyncInv, LifecycleEvent
    PROVE  /\ Abandons
           /\ wrk' \in Wrks /\ wrk'.pc \in {"gate", "retry", "registering"} /\ wrk'.state = wrk.state
           /\ call' \in [Callers -> Calls]
           /\ \A w \in Callers : w # "worker" => call'[w] = call[w]
           /\ call'["worker"].op = WorkerOp'
           /\ call'["worker"].op = "none" <=> call'["worker"].st = "idle"
<1> DEFINE rest == [i \in DOMAIN cmds |-> Abandon(cmds[i])]
           reg == Command("register", "worker")
<1>0. TypeOK /\ cmds \in Seq(Cmds) /\ Len(cmds) \in Nat /\ wrk.state \in BOOLEAN
      /\ DOMAIN cmds = 1 .. Len(cmds) /\ \A i \in 1 .. Len(cmds) : cmds[i] \in Cmds
  BY SyncParts DEF TypeOK
<1>1. /\ rest \in Seq(Cmds) /\ Len(rest) = Len(cmds)
      /\ \A i \in 1 .. Len(cmds) :
            /\ rest[i].op = cmds[i].op /\ rest[i].state = cmds[i].state
            /\ rest[i].who = IF cmds[i].who = "worker" THEN "nobody" ELSE cmds[i].who
  <2>1. rest = [i \in 1 .. Len(cmds) |-> Abandon(cmds[i])]
    BY <1>0
  <2>2. \A i \in 1 .. Len(cmds) : Abandon(cmds[i]) \in Cmds
    BY <1>0, AbandonResult
  <2> HIDE DEF rest
  <2>3. rest \in Seq(Cmds) /\ Len(rest) = Len(cmds)
    BY <1>0, <2>1, <2>2
  <2>4. \A i \in 1 .. Len(cmds) : rest[i] = Abandon(cmds[i])
    BY <2>1
  <2> QED BY <1>0, <2>3, <2>4, AbandonResult
<1>n. Len(cmds) # Len(cmds) + 1
  <2>1. Len(cmds) \in Nat
    BY <1>0
  <2>2. \A k \in Nat : k # k + 1
    OBVIOUS
  <2> QED BY ONLY <2>1, <2>2
<1>2. reg \in Cmds /\ reg.op = "register" /\ reg.who = "worker"
  BY <1>0, CallerFacts DEF Command, Cmds, Ops
<1>3. CASE Head(life) = "connected"
  <2> DEFINE r == [op |-> "register", st |-> IF mgr.phase = "stopped" THEN "closed" ELSE "wait"]
  <2>1. /\ wrk' = [wrk EXCEPT !.pc = "registering"]
        /\ cmds' = IF mgr.phase = "stopped" THEN rest ELSE Append(rest, reg)
        /\ call' = [call EXCEPT !["worker"] = r]
    BY <1>3 DEF LifecycleEvent, WorkerGoes
  <2>2. /\ r \in Calls /\ r.op = "register" /\ r.st # "idle"
        /\ mgr.phase # "stopped" => r = [op |-> "register", st |-> "wait"]
    BY DEF Calls, Ops, Answers
  <2> HIDE DEF rest, reg, r
  <2>3. /\ call' \in [Callers -> Calls] /\ call'["worker"] = r
        /\ \A w \in Callers : w # "worker" => call'[w] = call[w]
    BY <2>1, <2>2, WorkerTypes, CallerFacts
  <2>4. wrk' \in Wrks /\ wrk'.pc = "registering" /\ wrk'.state = wrk.state
    BY <2>1, WorkerTypes DEF Wrks
  <2>5. call'["worker"].op = WorkerOp'
    BY <2>2, <2>3, <2>4 DEF WorkerOp
  <2>6. Abandons
    <3>1. CASE mgr.phase = "stopped"
      <4>1. cmds' = rest
        BY <2>1, <3>1
      <4> QED BY <1>0, <1>1, <1>n, <3>1, <4>1 DEF Abandons
    <3>2. CASE mgr.phase # "stopped"
      <4>1. cmds' = Append(rest, reg)
        BY <2>1, <3>2
      <4>2. /\ cmds' \in Seq(Cmds) /\ Len(cmds') = Len(cmds) + 1
            /\ \A i \in 1 .. Len(cmds) : cmds'[i] = rest[i]
            /\ cmds'[Len(cmds) + 1] = reg
        BY <1>0, <1>1, <1>2, <4>1
      <4> QED BY <1>0, <1>1, <1>2, <2>2, <2>3, <2>4, <3>2, <4>2 DEF Abandons
    <3> QED BY <3>1, <3>2
  <2> QED BY <2>2, <2>3, <2>4, <2>5, <2>6
<1>4. CASE Head(life) # "connected"
  <2> DEFINE pc == IF Head(life) = "exits" THEN "gate" ELSE "retry"
  <2>1. /\ wrk' = [wrk EXCEPT !.pc = pc] /\ cmds' = rest
        /\ call' = [call EXCEPT !["worker"] = NoCall]
    BY <1>4 DEF LifecycleEvent, WorkerGoes
  <2>2. pc \in {"gate", "retry"}
    OBVIOUS
  <2> HIDE DEF rest, reg, pc
  <2>3. /\ call' \in [Callers -> Calls] /\ call'["worker"] = NoCall
        /\ \A w \in Callers : w # "worker" => call'[w] = call[w]
    BY <2>1, WorkerTypes, CallerFacts
  <2>4. wrk' \in Wrks /\ wrk'.pc \in {"gate", "retry"} /\ wrk'.state = wrk.state
    BY <2>1, <2>2, WorkerTypes DEF Wrks
  <2>5. call'["worker"].op = "none" /\ call'["worker"].st = "idle"
    BY <2>3 DEF NoCall
  <2>6. call'["worker"].op = WorkerOp'
    BY <2>4, <2>5 DEF WorkerOp
  <2>7. Abandons
    BY <1>0, <1>1, <1>n, <2>1, <2>4 DEF Abandons
  <2> QED BY <2>3, <2>4, <2>5, <2>6, <2>7
<1> QED BY <1>3, <1>4

LEMMA LifecycleEventKeeps == SyncInv /\ LifecycleEvent => SyncInv'
<1> SUFFICES ASSUME SyncInv, LifecycleEvent PROVE SyncInv'
  OBVIOUS
<1>0. TypeOK /\ MgrInv /\ QueueInv /\ TaskInv /\ ClaimInv /\ KnownInv /\ RegInv
  BY SyncParts
<1>1. /\ wrk.pc \in {"connecting", "retry"} /\ life # <<>> /\ life' = Tail(life)
      /\ cur' = Abandon(cur)
      /\ UNCHANGED <<mgr, actor, deferred, inFlight, exit, vs, vsLink, count>>
  BY DEF LifecycleEvent, WorkerAt
<1>2. /\ Abandons
      /\ wrk' \in Wrks /\ wrk'.pc \in {"gate", "retry", "registering"} /\ wrk'.state = wrk.state
      /\ call' \in [Callers -> Calls]
      /\ \A w \in Callers : w # "worker" => call'[w] = call[w]
      /\ call'["worker"].op = WorkerOp'
      /\ call'["worker"].op = "none" <=> call'["worker"].st = "idle"
  BY LifecycleAbandons
<1> DEFINE n == Len(cmds) + 1
<1>3. /\ Len(cmds) \in Nat /\ \A i \in 1 .. Len(cmds) : cmds[i] \in Cmds
      /\ cur # NoCall => cur \in Cmds
  BY <1>0, CmdAt
<1>4. /\ cmds' \in Seq(Cmds) /\ Len(cmds') \in {Len(cmds), n}
      /\ \A i \in 1 .. Len(cmds) :
            /\ cmds'[i].op = cmds[i].op /\ cmds'[i].state = cmds[i].state
            /\ cmds'[i].who = IF cmds[i].who = "worker" THEN "nobody" ELSE cmds[i].who
      /\ Len(cmds') = n =>
            /\ wrk'.pc = "registering" /\ call'["worker"] = [op |-> "register", st |-> "wait"]
            /\ cmds'[n].op = "register" /\ cmds'[n].who = "worker"
      /\ mgr.phase = "stopped" => Len(cmds') = Len(cmds)
      /\ wrk'.pc = "registering" /\ mgr.phase # "stopped" => Len(cmds') = n
  BY <1>2 DEF Abandons
<1>5. /\ \A i \in 1 .. Len(cmds) : i \in 1 .. Len(cmds') /\ n > i
      /\ \A i \in 1 .. Len(cmds') : i \in 1 .. Len(cmds) \/ (i = n /\ Len(cmds') = n)
      /\ Len(cmds') = n => n \in 1 .. Len(cmds')
  BY <1>3, <1>4
<1> HIDE DEF n
<1>6. /\ cur' # NoCall <=> cur # NoCall
      /\ cur' \in Cmds \cup {NoCall}
      /\ cur # NoCall => /\ cur'.op = cur.op /\ cur'.state = cur.state
                         /\ cur'.who = IF cur.who = "worker" THEN "nobody" ELSE cur.who
  BY <1>1, <1>3, AbandonResult, NoCallNoCmd
<1>7. ASSUME NEW c \in Cmds, NEW d, Pending(c), d.op = c.op,
             d.who = IF c.who = "worker" THEN "nobody" ELSE c.who
      PROVE  Pending(d)'
  <2>1. CASE c.who = "worker"
    <3>1. call["worker"] = [op |-> c.op, st |-> "wait"]
      BY <1>7, <2>1, CallerFacts DEF Pending
    <3>2. call["worker"].op = c.op /\ c.op # "none"
      BY <3>1 DEF Cmds, Ops
    <3>3. c.op = "connect"
      BY <1>0, <1>1, <3>2 DEF TaskInv, WorkerOp
    <3> QED BY <1>7, <2>1, <3>3, CallerFacts DEF Pending
  <2>2. CASE c.who # "worker"
    BY <1>2, <1>7, <2>2 DEF Pending
  <2> QED BY <2>1, <2>2
<1>8. QueueInv'
  <2>1. ASSUME NEW i \in 1 .. Len(cmds') PROVE Pending(cmds[i])'
    <3>1. CASE i \in 1 .. Len(cmds)
      <4>1. Pending(cmds[i]) /\ cmds[i] \in Cmds
        BY <1>0, <1>3, <3>1 DEF QueueInv
      <4>2. cmds'[i].op = cmds[i].op
            /\ cmds'[i].who = IF cmds[i].who = "worker" THEN "nobody" ELSE cmds[i].who
        BY <1>4, <3>1
      <4> QED BY <1>7, <4>1, <4>2 DEF Pending
    <3>2. CASE i = n /\ Len(cmds') = n
      BY <1>4, <3>2, CallerFacts DEF Pending
    <3> QED BY <1>5, <3>1, <3>2
  <2>2. \A i \in 1 .. Len(cmds) : cmds'[i].who # "worker"
                                  /\ (cmds'[i].who \in Callers => cmds'[i].who = cmds[i].who)
    BY <1>4, CallerFacts
  <2>3. ASSUME NEW i \in 1 .. Len(cmds'), NEW j \in 1 .. Len(cmds'), i # j,
               cmds'[i].who \in Callers
        PROVE  cmds'[i].who # cmds'[j].who
    <3>1. CASE i \in 1 .. Len(cmds) /\ j \in 1 .. Len(cmds)
      <4>1. cmds'[i].who = cmds[i].who /\ cmds[i].who # cmds[j].who
        BY <1>0, <2>2, <2>3, <3>1 DEF QueueInv
      <4> QED BY <1>4, <2>3, <3>1, <4>1, CallerFacts
    <3>2. CASE i = n /\ Len(cmds') = n
      BY <1>4, <1>5, <2>2, <2>3, <3>2
    <3>3. CASE j = n /\ Len(cmds') = n
      BY <1>4, <1>5, <2>2, <2>3, <3>3
    <3> QED BY <1>5, <3>1, <3>2, <3>3
  <2>4. ASSUME cur' # NoCall
        PROVE  /\ Pending(cur)'
               /\ cur'.who \in Callers => \A i \in 1 .. Len(cmds') : cmds'[i].who # cur'.who
    <3>1. /\ cur # NoCall /\ cur \in Cmds /\ Pending(cur) /\ cur'.op = cur.op
          /\ cur'.who = IF cur.who = "worker" THEN "nobody" ELSE cur.who
      BY <1>0, <1>3, <1>6, <2>4 DEF QueueInv
    <3>2. Pending(cur)'
      BY <1>7, <3>1 DEF Pending
    <3>3. ASSUME cur'.who \in Callers, NEW i \in 1 .. Len(cmds') PROVE cmds'[i].who # cur'.who
      <4>1. cur'.who = cur.who /\ cur.who # "worker"
        BY <3>1, <3>3, CallerFacts
      <4>2. CASE i \in 1 .. Len(cmds)
        <5>1. cmds[i].who # cur.who
          BY <1>0, <3>1, <3>3, <4>1, <4>2 DEF QueueInv
        <5> QED BY <2>2, <3>3, <4>1, <4>2, <5>1
      <4>3. CASE i = n /\ Len(cmds') = n
        BY <1>4, <4>1, <4>3
      <4> QED BY <1>5, <4>2, <4>3
    <3> QED BY <3>2, <3>3
  <2> QED BY <2>1, <2>3, <2>4 DEF QueueInv
<1>9. TypeOK'
  <2>1. life' \in Lifes
    BY <1>1, WorkerTypes
  <2> QED BY <1>0, <1>1, <1>2, <1>4, <1>6, <2>1 DEF TypeOK, Lifes, Wrks
<1>10. MgrInv'
  <2>1. ASSUME mgr.phase = "stopped" PROVE cmds' = <<>>
    <3>1. cmds' \in Seq(Cmds) /\ Len(cmds') = 0
      BY <1>0, <1>4, <2>1 DEF MgrInv
    <3> QED BY <3>1
  <2> QED BY <1>0, <1>1, <1>6, <2>1 DEF MgrInv
<1>11. TaskInv'
  BY <1>0, <1>1, <1>2, WorkerTask
<1>12. KnownInv'
  BY <1>0, <1>1, <1>2, CallerFacts, KnownFrame
<1>13. ClaimInv'
  <2>1. ASSUME wrk'.state
        PROVE  (\A i \in 1 .. Len(cmds') : ~IsReset(cmds'[i])) /\ (cur' # NoCall => ~IsReset(cur'))
    <3>1. \A i \in 1 .. Len(cmds) : ~IsReset(cmds[i])
      BY <1>0, <1>2, <2>1 DEF ClaimInv
    <3>2. cur # NoCall => ~IsReset(cur)
      BY <1>0, <1>2, <2>1 DEF ClaimInv
    <3>3. \A i \in 1 .. Len(cmds') : ~IsReset(cmds'[i])
      BY <1>4, <1>5, <3>1 DEF IsReset
    <3> QED BY <1>6, <3>2, <3>3 DEF IsReset
  <2>2. ASSUME wrk'.pc = "registering"
        PROVE  /\ \A i \in 1 .. Len(cmds') : IsConnect(cmds'[i]) =>
                     \E j \in 1 .. Len(cmds') : j > i /\ cmds'[j].who = "worker"
               /\ cur' # NoCall /\ IsConnect(cur') =>
                     \E j \in 1 .. Len(cmds') : cmds'[j].who = "worker"
    <3>1. CASE mgr.phase = "stopped"
      <4>1. Len(cmds') = 0 /\ cur' = NoCall
        BY <1>0, <1>1, <1>4, <1>6, <3>1 DEF MgrInv
      <4> QED BY <4>1
    <3>2. CASE mgr.phase # "stopped"
      <4>1. n \in 1 .. Len(cmds') /\ cmds'[n].who = "worker" /\ cmds'[n].op = "register"
        BY <1>4, <1>5, <2>2, <3>2
      <4>2. \A i \in 1 .. Len(cmds') : IsConnect(cmds'[i]) => n > i
        BY <1>5, <4>1 DEF IsConnect
      <4> QED BY <4>1, <4>2
    <3> QED BY <3>1, <3>2
  <2>3. wrk'.pc # "deferring"
    BY <1>2
  <2> QED BY <2>1, <2>2, <2>3 DEF ClaimInv, IsReset, IsConnect
<1>14. RegInv'
  <2>1. ASSUME RestartFirst PROVE RestartFirst'
    <3>1. PICK i \in 1 .. Len(cmds) :
             /\ cmds[i].op = "restart"
             /\ \A j \in 1 .. Len(cmds) : cmds[j].op = "register" => j > i
      BY <2>1 DEF RestartFirst
    <3>2. i \in 1 .. Len(cmds') /\ cmds'[i].op = "restart"
      BY <1>4, <1>5, <3>1
    <3>3. \A j \in 1 .. Len(cmds') : cmds'[j].op = "register" => j > i
      BY <1>4, <1>5, <3>1
    <3> QED BY <3>2, <3>3 DEF RestartFirst
  <2>2. wrk.pc # "notifying"
    BY <1>1
  <2> QED BY <1>0, <1>1, <1>6, <2>1, <2>2 DEF RegInv
<1> QED BY <1>8, <1>9, <1>10, <1>11, <1>12, <1>13, <1>14 DEF SyncInv

-------------------------------------------------------------------------------
(* The theorem.                                                            *)

LEMMA SyncInit == Init => SyncInv
<1> SUFFICES ASSUME Init PROVE SyncInv
  OBVIOUS
<1>1. TypeOK
  <2>1. NoCall \in Calls
    BY DEF NoCall, Calls
  <2>2. /\ mgr \in Mgrs /\ wrk \in Wrks /\ vs \in Vss /\ count \in [faults : Nat, requests : Nat]
        /\ vsLink \in {"up", "down"} /\ deferred \in BOOLEAN /\ inFlight \in BOOLEAN
        /\ exit \in {"no", "peers", "vs", "done"}
    BY DEF Init, NewVSConn, Mgrs, Wrks, Vss
  <2>3. cmds \in Seq(Cmds) /\ cur \in Cmds \cup {NoCall} /\ life \in Lifes
    BY DEF Init, Lifes
  <2>4. call \in [Callers -> Calls]
    BY <2>1 DEF Init
  <2>5. actor \in [Actors -> Actrs]
    BY DEF Init, Actrs
  <2> QED BY <2>2, <2>3, <2>4, <2>5 DEF TypeOK, Mgrs, Wrks, Vss, Lifes, Actrs
<1>2. MgrInv /\ QueueInv
  BY DEF Init, MgrInv, QueueInv, NewVSConn
<1>3. TaskInv
  <2>1. \A w \in Callers : call[w] = NoCall
    BY DEF Init
  <2>2. wrk.pc = "gate" /\ ~inFlight /\ \A a \in Actors : actor[a].st = "out"
    BY DEF Init
  <2> QED BY <2>1, <2>2, NoCallNoCmd, CallerFacts DEF TaskInv, WorkerOp
<1>4. ClaimInv /\ KnownInv /\ RegInv
  BY DEF Init, ClaimInv, KnownInv, RegInv
<1> QED BY <1>1, <1>2, <1>3, <1>4 DEF SyncInv

LEMMA SyncNext == SyncInv /\ [Next]_vars => SyncInv'
<1> SUFFICES ASSUME SyncInv, [Next]_vars PROVE SyncInv'
  OBVIOUS
<1>1. CASE UNCHANGED vars
  BY <1>1 DEF vars, SyncInv, TypeOK, MgrInv, QueueInv, Pending, TaskInv, WorkerOp, ClaimInv,
              IsReset, IsConnect, KnownInv, Admitted, RegInv, RestartFirst
<1>2. CASE Dial \/ DialFails \/ RunLoopStarts \/ Redial
  BY <1>2, DialKeeps
<1>3. CASE DropCommand \/ TakeCommand \/ CallServed \/ CallRefused \/ CallLost \/ Ping
  BY <1>3, DropCommandKeeps, TakeCommandKeeps, CallServedKeeps, CallRefusedKeeps, CallLostKeeps,
     PingKeeps
<1>4. CASE WaitForRunloopStart \/ AdaptersDisconnected \/ CallConnect \/ ConnectAnswered
           \/ LifecycleEvent
  BY <1>4, WorkerWaits, CallConnectKeeps, ConnectAnsweredKeeps, LifecycleEventKeeps
<1>5. CASE RegisterAnswered \/ DeferredAnswered \/ RestartAfterFailedRegister
  BY <1>5, RegisterAnsweredKeeps, DeferredAnsweredKeeps, RestartKeeps
<1>6. ASSUME NEW a \in Actors,
             AuthorizeConnect(a) \/ AuthorizeAnswered(a)
             \/ ActorDisconnect(a) \/ RevokeAuthentication(a) \/ DisconnectAnswered(a)
      PROVE  SyncInv'
  BY <1>6, ActorCallKeeps, ActorAnswerKeeps DEF RevokeAuthentication, VssCall, ProcessRevokeAuth
<1>7. CASE RequestAuthentication \/ SelfReauthDone
  BY <1>7, SelfKeeps
<1>8. CASE VsLinkUp \/ VsCrash \/ ForcedExit \/ ShutdownDone
  BY <1>8, OutsideKeeps
<1>9. CASE VsLinkDown \/ ShutdownVsPeer \/ Shutdown
  BY <1>9, SendingKeeps, ShutdownKeeps
<1> QED BY <1>1, <1>2, <1>3, <1>4, <1>5, <1>6, <1>7, <1>8, <1>9 DEF Next

LEMMA SyncAlways == Spec => []SyncInv
  BY SyncInit, SyncNext, PTL DEF Spec

(***************************************************************************)
(* A call of a VSConnHandle has one owner: a command in the channel or in  *)
(* service is awaited by exactly the task that sent it, each task awaits   *)
(* the call of its state, and the channel of a stopped manager is empty,   *)
(* so that no answer reaches another task.                                 *)
(***************************************************************************)
THEOREM OneOwnerPerCall == Spec => [](TypeOK /\ MgrInv /\ QueueInv /\ TaskInv)
<1>1. SyncInv => TypeOK /\ MgrInv /\ QueueInv /\ TaskInv
  BY SyncParts
<1> QED BY <1>1, SyncAlways, PTL

(***************************************************************************)
(* While the node is registered (vs_worker has registered over the present *)
(* connection), the visa service knows every actor that began to dock      *)
(* while the worker claimed state, whatever state the visa service lost,   *)
(* whichever calls were served without an answer and however late the      *)
(* worker read the events of run_with_reconnect.                           *)
(***************************************************************************)
THEOREM ActorsStaySynced == Spec => []SyncedActors
<1>1. SyncInv => SyncedActors
  <2> SUFFICES ASSUME SyncInv, vs.registered,
                      NEW a \in Actors, actor[a].st = "in", ~actor[a].early
               PROVE  a \in vs.known
    BY DEF SyncedActors
  <2>1. vs.state
    BY SyncParts DEF RegInv
  <2> QED BY <2>1, SyncParts DEF KnownInv, Admitted
<1> QED BY <1>1, SyncAlways, PTL
===============================================================================
