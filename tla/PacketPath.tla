----------------------------- MODULE PacketPath -----------------------------
(***************************************************************************)
(* What happens to one packet between two actors: the source's fast path   *)
(* classifies it, counts down its time to live, computes the adapter to    *)
(* adapter integrity value (MICV) and compresses it; every link seals and  *)
(* opens it; the destination expands it and compares the MICV              *)
(* (fastpath.rs, classifier.rs, compress.rs, tc.rs).                       *)
(*                                                                         *)
(* The bytes after the fixed IP header are a sequence of units, tuples     *)
(* <<name, value>>, one for each field that the code takes apart; what it  *)
(* cuts out of the sequence it cuts out by position.  A checksum is the    *)
(* content it covers, a hash is the whole packet: neither collides.  An    *)
(* "alias" is the other representation of zero in one's complement, which  *)
(* the classifier accepts as well.                                         *)
(*                                                                         *)
(* A management message takes the same links: the management thread makes  *)
(* it in a buffer of its own and hands it to the fast path in a queue.     *)
(* What the steps do to the packet's extent in its buffer is followed byte *)
(* by byte (PacketBuffer).                                                 *)
(***************************************************************************)
EXTENDS Naturals, Sequences, PacketBuffer

CONSTANTS Inputs,     \* the packets actors send
          Links,      \* what the two ends of the first link hold: 0 is no association
          Lengths,    \* lengths of actors' packets
          Bodies,     \* lengths of management messages
          Headers,    \* lengths of the headers of their types
          Padlen      \* what the codec adds: nonce and tag of Noise, nothing without keys

\* An actor's packet fits the buffer it is read into.  Management messages fit the buffer
\* they are made in, and what sealing adds fits that of the fast path.
ASSUME LengthAssumption ==
    /\ Lengths \subseteq 0 .. PacketBufferSize - MetadataSize - DefaultMessageHeadroom
    /\ Bodies \subseteq {n \in Nat : n <= SmallPacketBufferSize - MetadataSize
                                          - DefaultMessageHeadroom}
    /\ Headers \subseteq 0 .. 64
    /\ Padlen \in Nat /\ SmallPacketBufferSize + Padlen + 8 <= PacketBufferSize
    /\ \A p \in Inputs : p.l3 = "zdp" => p.type \in {"ack", "km", "mgmt"}

\* A time to live is unsigned.
ASSUME InputAssumption == \A p \in Inputs : p.l3 # "zdp" => p.ttl \in Nat

Named(u, name) == u = <<name, u[2]>>

\* The header of IPv6 has no checksum; the units of a segment are the fields of its
\* protocol, in order.
ASSUME FormatAssumption ==
    \A p \in Inputs : p.l3 = "v6" =>
        /\ p = [l3 |-> "v6", hl |-> p.hl, len |-> p.len, flags |-> p.flags, frag |-> p.frag,
                ttl |-> p.ttl, proto |-> p.proto, src |-> p.src, dst |-> p.dst,
                csum |-> <<"none">>, payload |-> p.payload]
        /\ p.payload \in Seq({p.payload[i] : i \in DOMAIN p.payload})
        /\ p.proto \in {"tcp", "udp"} /\ Len(p.payload) >= 4 =>
              /\ Named(p.payload[1], "port") /\ Named(p.payload[2], "port")
              /\ Named(p.payload[4], "csum")
              /\ p.proto = "udp" => Named(p.payload[3], "len")

VARIABLES stage,      \* where the packet is
          orig,       \* the packet as the actor sent it
          ft,         \* the five-tuple in its metadata
          tc,         \* the traffic classifier of its visa
          body,       \* the packet, compressed or not
          micv,       \* the integrity value that travels with it
          zpi,        \* how it is sealed on the wire
          links,      \* the associations at both ends of the links it crosses
          buf,        \* the extent of the packet in its buffer
          read        \* history: the length it was read or made with

vars == <<stage, orig, read, ft, tc, body, micv, zpi, links, buf>>

From(s, n) == SubSeq(s, n, Len(s))

-------------------------------------------------------------------------------
(* Checksums.                                                              *)

Sum(x) == <<"sum", x>>
ValidSum(c, x) == c = Sum(x) \/ c = <<"alias", x>>

\* How many units options or extension headers take; the first of them names the
\* protocol that follows.
OptionUnits == 4

Options(p) == IF p.hl THEN SubSeq(p.payload, 1, OptionUnits) ELSE <<>>

\* What the header checksum of IPv4 covers.
HeaderOf(p) == <<p.hl, p.len, p.flags, p.ttl, p.proto, p.src, p.dst, Options(p)>>

\* Where the checksum of a protocol is.
CsumAt(proto) == IF proto = "icmp" THEN 3 ELSE 4

\* inet_l4_checksum: with the addresses and the protocol, and itself as zero.
L4Of(src, dst, proto, s) ==
    <<src, dst, proto,
      [i \in 1 .. Len(s) |-> IF i = CsumAt(proto) THEN <<"csum", 0>> ELSE s[i]]>>

-------------------------------------------------------------------------------
(* classifier.rs                                                           *)

Err == [class |-> "Err"]

\* classify_tcp, classify_udp, classify_icmp(v6), classify_unclassified.
ClassifyL4(l3, src, dst, proto, s) ==
    LET t == [class |-> "OK", l3 |-> l3, src |-> src, dst |-> dst, proto |-> proto,
              sport |-> 0, dport |-> 0]
        csum == s[CsumAt(proto)][2]
        good == ValidSum(csum, L4Of(src, dst, proto, s))
    IN CASE proto = "tcp" ->
              IF Len(s) < 5 \/ ~good THEN Err
              ELSE [t EXCEPT !.sport = s[1][2], !.dport = s[2][2]]
         [] proto = "udp" ->
              IF Len(s) < 4 \/ (csum # <<"zero">> /\ ~good) \/ s[3][2] # Len(s) THEN Err
              ELSE [t EXCEPT !.sport = s[1][2], !.dport = s[2][2]]
         [] proto = "icmp" ->
              IF ~good THEN Err ELSE [t EXCEPT !.sport = s[1][2], !.dport = s[2][2]]
         [] OTHER -> [t EXCEPT !.class = "UnclassifiedL4"]

\* skip_v6_option, skip_auth_header: the protocol is the one after the headers.
NextHeader(l3, src, dst, proto, s) ==
    IF proto = "opt"
    THEN IF Len(s) < OptionUnits THEN Err
         ELSE ClassifyL4(l3, src, dst, s[1][2], From(s, OptionUnits + 1))
    ELSE ClassifyL4(l3, src, dst, proto, s)

ClassifyIpv4(p) ==
    IF ~ValidSum(p.csum, HeaderOf(p)) THEN Err
    ELSE IF p.frag = "later" THEN [class |-> "SubsequentFragment"]
    ELSE IF p.len # Len(p.payload) THEN Err
    ELSE IF p.frag = "first" THEN [class |-> "FirstFragment"]
    ELSE NextHeader("v4", p.src, p.dst, p.proto, From(p.payload, Len(Options(p)) + 1))

\* classify_ipv6 and classify_frag.
ClassifyIpv6(p) ==
    IF \/ "mapped" \in {p.src, p.dst}
       \/ p.len = 0 /\ p.proto = "opt"    \* a jumbogram
       \/ p.len # Len(p.payload)
    THEN Err
    ELSE IF p.frag # "none"
    THEN [class |-> IF p.frag = "first" THEN "FirstFragment" ELSE "SubsequentFragment"]
    ELSE NextHeader("v6", p.src, p.dst, p.proto, p.payload)

Classify(p) ==
    CASE p.l3 = "v4" -> ClassifyIpv4(p)
      [] p.l3 = "v6" -> ClassifyIpv6(p)
      [] OTHER       -> [class |-> "NonIP"]

Accepted(p) == Classify(p).class \in {"OK", "UnclassifiedL4"}

-------------------------------------------------------------------------------
(* tc.rs: a classifier is a five-tuple in which port 0 matches every port. *)

Matches(c, t) ==
    /\ c.l3 = t.l3 /\ c.src = t.src /\ c.dst = t.dst /\ c.proto = t.proto
    /\ c.sport \in {0, t.sport} /\ c.dport \in {0, t.dport}

\* The classifiers a visa for the flow t may have.
Classifiers(t) == {[t EXCEPT !.sport = a, !.dport = b] : a \in {0, t.sport}, b \in {0, t.dport}}

\* compression_mode: the ports the classifier has, which the packet need not carry.
CompressionMode(c) == [sport |-> c.sport # 0, dport |-> c.dport # 0]

\* serialize: a port is written only if its flag says so.
Serialize(c) ==
    [flags |-> CompressionMode(c), l3 |-> c.l3, proto |-> c.proto, addrs |-> <<c.src, c.dst>>,
     ports |-> (IF c.sport # 0 THEN <<c.sport>> ELSE <<>>)
               \o (IF c.dport # 0 THEN <<c.dport>> ELSE <<>>)]

\* Mutant: the flag of the source port is not looked at.
DeserializeFirst(w) ==
    [class |-> "OK", l3 |-> w.l3, proto |-> w.proto, src |-> w.addrs[1], dst |-> w.addrs[2],
     sport |-> IF w.ports # <<>> THEN w.ports[1] ELSE 0,
     dport |-> IF Len(w.ports) = 2 THEN w.ports[2] ELSE 0]

Deserialize(w) ==
    [class |-> "OK", l3 |-> w.l3, proto |-> w.proto, src |-> w.addrs[1], dst |-> w.addrs[2],
     sport |-> IF w.flags.sport THEN w.ports[1] ELSE 0,
     dport |-> IF w.flags.dport THEN w.ports[Len(w.ports)] ELSE 0]

-------------------------------------------------------------------------------
(* compress.rs                                                             *)

\* compress_tcp and compress_udp: the ports go unless the classifier lacks them, and
\* so do the checksum of TCP, at position 4, and the length of UDP, at position 3.
CompressL4(mode, proto, s) ==
    LET cut == IF proto = "tcp" THEN 4 ELSE 3
    IN IF proto \in {"tcp", "udp"}
       THEN (IF mode.sport THEN <<>> ELSE <<s[1]>>) \o (IF mode.dport THEN <<>> ELSE <<s[2]>>)
            \o SubSeq(s, 3, cut - 1) \o From(s, cut + 1)
       ELSE s

\* expand_tcp and expand_udp
ExpandL4(mode, c, s) ==
    LET n == (IF mode.sport THEN 0 ELSE 1) + (IF mode.dport THEN 0 ELSE 1)
        sport == IF mode.sport THEN <<"port", c.sport>> ELSE s[1]
        dport == IF mode.dport THEN <<"port", c.dport>> ELSE s[n]
        r == From(s, n + 1)
        tcp == <<sport, dport, r[1], <<"csum", 0>>>> \o From(r, 2)
    IN CASE c.proto = "tcp" ->
              [tcp EXCEPT ![4] = <<"csum", Sum(L4Of(c.src, c.dst, c.proto, tcp))>>]
         [] c.proto = "udp" ->
              <<sport, dport, <<"len", Len(r) + 3>>>> \o r
         [] OTHER -> s

\* compress_ipv4 and compress_ipv6: of the header what the classifier cannot supply.
Compress(mode, t, p) ==
    [hl |-> p.hl, flags |-> p.flags, ttl |-> p.ttl, rest |-> CompressL4(mode, t.proto, p.payload)]

\* expand_ipv4 and expand_ipv6: lengths and the header checksum are computed anew, and
\* the protocol is that of the classifier.
Expand(mode, c, q) ==
    LET s == ExpandL4(mode, c, q.rest)
        p == [l3 |-> c.l3, hl |-> q.hl, len |-> Len(s), flags |-> q.flags, frag |-> "none",
              ttl |-> q.ttl, proto |-> c.proto, src |-> c.src, dst |-> c.dst,
              csum |-> <<"none">>, payload |-> s]
    IN IF c.l3 = "v4" THEN [p EXCEPT !.csum = Sum(HeaderOf(p))] ELSE p

-------------------------------------------------------------------------------
(* The bytes that compression takes from the front and expansion puts back. *)

IPv4HeaderSize == 20
IPv6HeaderSize == 40
IPHeaderSize(l3) == IF l3 = "v4" THEN IPv4HeaderSize ELSE IPv6HeaderSize

\* What compress_ipv4 pushes without fragmentation, and CompressedIPv6Header.
CompressedSize == 5

PortBytes(mode) == (IF mode.sport THEN 0 ELSE 2) + (IF mode.dport THEN 0 ELSE 2)

\* compress: off come the ports and the checksum of TCP or the length of UDP.
CompressBytes(mode, l3, proto, b) ==
    LET c == Advance(b, IPHeaderSize(l3))
        d == IF proto \in {"tcp", "udp"}
             THEN AllocHeadroom(Advance(Advance(c, 4), 2), PortBytes(mode)) ELSE c
    IN AllocHeadroom(d, CompressedSize)

\* expand
ExpandBytes(mode, l3, proto, b) ==
    LET c == Advance(b, CompressedSize)
        d == IF proto \in {"tcp", "udp"}
             THEN AllocHeadroom(AllocHeadroom(Advance(c, PortBytes(mode)), 2), 4) ELSE c
    IN AllocHeadroom(d, IPHeaderSize(l3))

-------------------------------------------------------------------------------
(* Sealing on a link.  An association is a number, that of its keys.       *)

ZpiHeaderSize == 1
BaseHeaderSize == 2
PerFlowHeaderSize == 4
A2aHeaderSize == 1
MacSize == 8           \* ZDP_A2A_MAC_SIZE and ZDP_PACKET_MAC_SIZE
ChecksumSize == 2

\* substrate_egress_common: packets in transit are authenticated, not encrypted, and
\* messages are encrypted; key management, and without an association everything, goes
\* under ZPI 0, with a checksum only.
Seal(type, sa) ==
    IF sa = 0 \/ type = "km" THEN <<"zpi0", 0>>
    ELSE <<IF type = "transit" THEN "hmac" ELSE "encr", sa>>

\* decrypt and decrypt_with_sa: with an association only its ZPIs are known and the
\* authentication must hold; without one only ZPI 0 is.
Decrypts(z, sa) == IF sa = 0 THEN z = <<"zpi0", 0>> ELSE z \in {<<"hmac", sa>>, <<"encr", sa>>}

\* substrate_ingress: ZPI 0 is for key management.
Opens(type, z, sa) == Decrypts(z, sa) /\ (z[1] = "zpi0" => type = "km")

\* maybe_capture_batch, with a capture program installed: a link header is pushed and
\* popped again.
Capture(b) == Advance(AllocHeadroom(b, 1), 1)

\* encap_zpi
EncapZpi(b) == AllocHeadroom(b, ZpiHeaderSize)

\* encrypt_full: into the tail room if the ciphertext fits there, else through a
\* scratch buffer.  The ZPI stays.
EncryptFull(b) ==
    LET n == b.len - ZpiHeaderSize
    IN IF TailroomAvailable(b) >= n + Padlen THEN AdoptTailroom(b, ZpiHeaderSize, n + Padlen)
       ELSE Put(ShrinkBy(b, n), n + Padlen)

\* decrypt_full: the packet is not shorter than what the codec added.
DecryptFull(b) ==
    LET n == b.len - ZpiHeaderSize
    IN IF TailroomAvailable(b) >= n THEN AdoptTailroom(b, ZpiHeaderSize, n - Padlen)
       ELSE Put(ShrinkBy(b, n), n - Padlen)

\* encrypt_null, encrypt_hmac or encrypt_full
SealBytes(z, b) ==
    LET c == Capture(EncapZpi(b))
    IN CASE z[1] = "zpi0" -> Put(c, ChecksumSize)
         [] z[1] = "hmac" -> Put(c, MacSize)
         [] OTHER         -> EncryptFull(c)

\* get_fresh_packets and the receive call; a longer packet is cut off and dropped.
Receive(b) == Put(NewPacket(PacketBufferSize, DefaultMessageHeadroom), b.len)
Truncated(b) == b.len > PacketBufferSize - MetadataSize - DefaultMessageHeadroom

\* decrypt_null, decrypt_hmac or decrypt_full, and the ZPI.
OpenBytes(z, b) ==
    LET c == CASE z[1] = "zpi0" -> ShrinkBy(b, ChecksumSize)
               [] z[1] = "hmac" -> ShrinkBy(b, MacSize)
               [] OTHER         -> DecryptFull(b)
    IN Advance(Capture(c), ZpiHeaderSize)

-------------------------------------------------------------------------------
(* The stages.                                                             *)

\* The buffer a packet starts in: get_fresh_packets for one of the actor,
\* new_heap_packet and new_tiny_heap_packet for one of management.
Fresh(p) ==
    IF p.l3 # "zdp" THEN NewPacket(PacketBufferSize, DefaultMessageHeadroom)
    ELSE IF p.type = "ack" THEN NewPacket(TinyPacketBufferSize, TinyMessageHeadroom)
    ELSE NewPacket(SmallPacketBufferSize, DefaultMessageHeadroom)

L4HeaderSize(proto) ==
    CASE proto = "tcp" -> 20 [] proto = "udp" -> 8 [] proto = "icmp" -> 4 [] OTHER -> 0

\* The bytes of the headers that the classifier has found in a packet it accepts.
HeaderBytes(p) ==
    IF Classify(p).class = "OK" THEN IPHeaderSize(p.l3) + L4HeaderSize(Classify(p).proto) ELSE 0

\* A control message of ZDP-R has no body.
LengthsOf(p) ==
    IF p.l3 # "zdp" THEN {n \in Lengths : n >= HeaderBytes(p)}
    ELSE IF p.type = "ack" THEN {0} ELSE Bodies

Init ==
    /\ orig \in Inputs /\ body = orig
    /\ stage = IF orig.l3 = "zdp" THEN "mgmt" ELSE "actor"
    /\ ft = Err /\ tc = Err /\ micv = <<>> /\ zpi = <<"none">>
    /\ links \in Links
    /\ read \in LengthsOf(orig)
    /\ buf = Put(Fresh(orig), read)

\* The packet is at stage s: an assertion of packet.rs that failed has ended the process.
At(s) == stage = s /\ MetadataIsValid(buf)

Drop == /\ stage' = "dropped"
        /\ UNCHANGED <<orig, read, ft, tc, body, micv, zpi, links, buf>>

\* decrement_ttl: the checksum of the header stays as it was.
DecrementTtl(p) == IF p.ttl > 0 THEN [p EXCEPT !.ttl = @ - 1] ELSE p

\* actor_output
ActorOutput ==
    /\ At("actor")
    /\ LET p == DecrementTtl(body)
       IN IF ~Accepted(body) \/ p.ttl = 0 THEN Drop
          ELSE /\ stage' = "classified"
               /\ ft' = Classify(body)
               /\ body' = p
               /\ UNCHANGED <<orig, read, tc, micv, zpi, links, buf>>

\* The flow is bound to a visa, whose classifier travels to both adapters in the bind
\* messages and must cover the flow (install_tether).  The node denies flows of a
\* protocol it cannot classify (bind_actor_address).  The packet comes back from the
\* management thread in a queue.
Bound ==
    /\ At("classified")
    /\ IF ft.class # "OK" THEN Drop
       ELSE /\ \E c \in Classifiers(ft) :
                  /\ tc' = Deserialize(Serialize(c))
                  /\ stage' = IF Matches(tc', ft) THEN "bound" ELSE "dropped"
            /\ buf' = DeserializeInto(SerializePacket(buf))
            /\ UNCHANGED <<orig, read, ft, body, micv, zpi, links>>

\* forward: the headers of a packet in transit.
PushHeaders(b) == AllocHeadroom(AllocHeadroom(b, PerFlowHeaderSize), BaseHeaderSize)
PopHeaders(b) == Advance(Advance(b, BaseHeaderSize), PerFlowHeaderSize)

\* actor_output_post_classify and substrate_egress.
Encapsulate ==
    /\ At("bound")
    /\ micv' = body
    /\ body' = Compress(CompressionMode(tc), ft, body)
    /\ zpi' = Seal("transit", links[1])
    /\ stage' = "wire"
    /\ buf' = LET c == CompressBytes(CompressionMode(tc), ft.l3, ft.proto, buf)
              IN SealBytes(zpi', PushHeaders(AllocHeadroom(Put(c, MacSize), A2aHeaderSize)))
    /\ UNCHANGED <<orig, read, ft, tc, links>>

\* substrate_ingress and forward, on the node: the packet goes on as it came.
Forward ==
    /\ At("wire")
    /\ IF Truncated(buf) \/ ~Opens("transit", zpi, links[2]) THEN Drop
       ELSE /\ zpi' = Seal("transit", links[3])
            /\ stage' = "wire2"
            /\ buf' = SealBytes(zpi', PushHeaders(PopHeaders(OpenBytes(zpi, Receive(buf)))))
            /\ UNCHANGED <<orig, read, ft, tc, body, micv, links>>

\* Mutant: the integrity value is not compared.
MicvAlways(p) == TRUE

MicvOk(p) == micv = p

\* substrate_ingress and actor_input, at the destination.
ActorInput ==
    /\ At("wire2")
    /\ LET p == Expand(CompressionMode(tc), tc, body)
           b == Advance(PopHeaders(OpenBytes(zpi, Receive(buf))), A2aHeaderSize)
       IN IF Truncated(buf) \/ ~Opens("transit", zpi, links[4]) \/ ~MicvOk(p) THEN Drop
          ELSE /\ stage' = "delivered"
               /\ body' = p
               /\ buf' = ExpandBytes(CompressionMode(tc), tc.l3, tc.proto, ShrinkBy(b, MacSize))
               /\ UNCHANGED <<orig, read, ft, tc, micv, zpi, links>>

-------------------------------------------------------------------------------
(* Management messages.                                                    *)

MgmtHeaderSize == 8
TransactionHeaderSize == 2
KmHeaderSize == 4

\* The functions of requests.rs, send_mgmt_helper, send_zdpr_common and
\* send_key_management: the header of the type, and those of the protocol.
MessageHeaders(type, h) ==
    CASE type = "ack" -> MgmtHeaderSize
      [] type = "km"  -> KmHeaderSize
      [] OTHER        -> h + TransactionHeaderSize + PerFlowHeaderSize + MgmtHeaderSize

\* try_enqueue_packet
MgmtOutput ==
    /\ At("mgmt")
    /\ stage' = "queued"
    /\ \E h \in Headers :
          buf' = SerializePacket(AllocHeadroom(AllocHeadroom(buf, MessageHeaders(orig.type, h)),
                                               BaseHeaderSize))
    /\ UNCHANGED <<orig, read, ft, tc, body, micv, zpi, links>>

\* Mutant: the fast path takes the message over in the buffer it was made in.
InPlace(b) == b

\* try_recv
TakeOver(b) == DeserializeInto(b)

\* process_mgmt_substrate_in and substrate_egress
MgmtEgress ==
    /\ At("queued")
    /\ zpi' = Seal(orig.type, links[1])
    /\ stage' = "mgmt_wire"
    /\ buf' = SealBytes(zpi', TakeOver(buf))
    /\ UNCHANGED <<orig, read, ft, tc, body, micv, links>>

\* substrate_ingress: the header is read and put back for the management thread.
MgmtIngress ==
    /\ At("mgmt_wire")
    /\ IF Truncated(buf) \/ ~Opens(orig.type, zpi, links[2]) THEN Drop
       ELSE /\ stage' = "dispatched"
            /\ buf' = AllocHeadroom(Advance(OpenBytes(zpi, Receive(buf)), BaseHeaderSize),
                                    BaseHeaderSize)
            /\ UNCHANGED <<orig, read, ft, tc, body, micv, zpi, links>>

Next ==
    \/ ActorOutput \/ Bound \/ Encapsulate \/ Forward \/ ActorInput
    \/ MgmtOutput \/ MgmtEgress \/ MgmtIngress

Spec == Init /\ [][Next]_vars

-------------------------------------------------------------------------------
(* Properties.                                                             *)

Associated == links[1] = links[2] /\ links[3] = links[4] /\ links[1] # 0 /\ links[3] # 0

\* What reaches the actor is what the other actor sent, one hop older, and it has
\* crossed no link whose ends do not share an association.  A management message that
\* is dispatched has crossed such a link, or none if it is key management.
ArrivesIntact ==
    /\ stage = "delivered" => body = [orig EXCEPT !.ttl = @ - 1] /\ Associated
    /\ stage = "dispatched" =>
          IF orig.type = "km" THEN links[2] = 0 ELSE links[1] = links[2] /\ links[1] # 0

\* A packet of this length leaves room in its buffer for the integrity values of the
\* adapters and of the link.  Only the MTU of the TUN device keeps actors to it.
LongestSafe == PacketBufferSize - MetadataSize - DefaultMessageHeadroom - 2 * MacSize

\* No packet leaves its buffer: none of the assertions of packet.rs fails, whatever
\* is pushed, popped, compressed, sealed in the tail room, captured or queued, down to
\* the shortest packet of each protocol that the classifier accepts.  The exception are
\* packets of actors so long that they leave no room for the two integrity values.
WithinBuffer == orig.l3 = "zdp" \/ read <= LongestSafe => MetadataIsValid(buf)

\* An IPv6 packet without extension headers that the classifier accepts, and that leaves
\* room for the integrity values, is not lost, whichever ports its visa names:
\* compression and expansion are inverse.
PlainPacketsArrive ==
    /\ read <= LongestSafe
    /\ orig.l3 = "v6" /\ orig.proto # "opt" /\ orig.ttl > 1 /\ Associated
    /\ Classify(orig).class = "OK"
    /\ \A i \in 1 .. Len(orig.payload) :
          orig.payload[i][1] = "csum" => orig.payload[i][2][1] # "alias"
    => stage # "dropped"

\* Every packet the classifier accepts comes out of compress() and expand() as it went
\* in (test_round_trip in compress.rs), so that none is lost on its way.
RoundTrip ==
    orig.l3 # "zdp" /\ orig.ttl > 1 /\ Classify(orig).class = "OK" /\ Associated
    => stage # "dropped"
===============================================================================
