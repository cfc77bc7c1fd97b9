---------------------------- MODULE SealingProofs ----------------------------
(***************************************************************************)
(* Theorems about what is sealed and with which keys: the packet path      *)
(* (PacketPath), and the key management that gives a link its security     *)
(* association (Keying).                                                   *)
(*                                                                         *)
(* No packet leaves its buffer on its way (WithinBuffer), for every buffer *)
(* size, head room, packet length and cipher, but for packets so long that *)
(* they leave no room for their integrity values.                          *)
(*                                                                         *)
(* The invariant that is inductive, BufferInv, says of each stage how much *)
(* room the packet has at both ends and how long it is at least.           *)
(*                                                                         *)
(* What arrives is what was sent (ArrivesIntact), for every packet and set *)
(* of associations; IntactInv follows the integrity value and the          *)
(* association from where a packet is sealed to where it is opened.        *)
(*                                                                         *)
(* A plain IPv6 packet is not lost (PlainPacketsArrive): expansion is the  *)
(* inverse of compression under every classifier of the packet's flow, and *)
(* PlainInv follows such a packet, its classifier and what travels of it.  *)
(*                                                                         *)
(* A link holds the association of its present key manager (LatestKeysWin),*)
(* for any number of key managers and of failed handshakes; KeysInv        *)
(* follows the signals still queued.                                       *)
(***************************************************************************)
EXTENDS PacketPath, Keying, TLAPS

Extents == [size : Nat, offset : Nat, len : Nat]

\* The packet leaves room for the integrity values.
Short == orig.l3 = "zdp" \/ read <= LongestSafe

\* The packet of an actor, in the buffer it was read into.
AsRead(b) ==
    /\ orig.l3 # "zdp" /\ read \in Nat
    /\ b.size = PacketBufferSize
    /\ b.offset = MetadataSize + DefaultMessageHeadroom
    /\ b.len = read

\* The least that is left of a packet after compression.
Need(m, proto) == 5 + (IF proto \in {"tcp", "udp"} THEN PortBytes(m) ELSE 0)

\* A message in the buffer it is made in.
AsMade(b) ==
    \/ /\ b.size = TinyPacketBufferSize /\ orig.type = "ack"
       /\ b.offset = MetadataSize + TinyMessageHeadroom /\ b.len = 0
    \/ /\ b.size = SmallPacketBufferSize /\ orig.type \in {"km", "mgmt"}
       /\ b.offset = MetadataSize + DefaultMessageHeadroom /\ b.len \in Bodies

BufferInv ==
    /\ buf \in Extents /\ MetadataIsValid(buf)
    /\ stage \in {"actor", "classified", "bound"} => AsRead(buf)
    /\ stage = "actor" => body = orig /\ read >= HeaderBytes(orig)
    /\ stage \in {"classified", "bound"} /\ ft.class = "OK" =>
          read >= IPHeaderSize(ft.l3) + L4HeaderSize(ft.proto)
    /\ stage = "bound" => ft.class = "OK" /\ tc.proto = ft.proto
    /\ stage \in {"wire", "wire2"} =>
          /\ zpi[1] \in {"zpi0", "hmac"}
          /\ zpi[1] = "hmac" => buf.len >= Need(CompressionMode(tc), tc.proto) + 24
          /\ ~Truncated(buf)
    /\ stage = "mgmt" => AsMade(buf)
    /\ stage = "queued" => /\ buf.len >= 2 /\ buf.offset >= MetadataSize + 2
                           /\ buf.offset + buf.len <= SmallPacketBufferSize
                           /\ orig.type # "transit"
    /\ stage = "mgmt_wire" => \/ zpi[1] = "zpi0" /\ buf.len >= 5
                              \/ zpi[1] = "encr" /\ buf.len >= Padlen + 3

-------------------------------------------------------------------------------
(* What each operation on an extent yields when its assertion holds.       *)

LEMMA AllocResult ==
    ASSUME NEW b \in Extents, MetadataIsValid(b), NEW n \in Nat, n <= b.offset - MetadataSize
    PROVE  /\ AllocHeadroom(b, n) \in Extents /\ MetadataIsValid(AllocHeadroom(b, n))
           /\ AllocHeadroom(b, n).size = b.size
           /\ AllocHeadroom(b, n).offset = b.offset - n
           /\ AllocHeadroom(b, n).len = b.len + n
<1>1. b.size \in Nat /\ b.offset \in Nat /\ b.len \in Nat
  BY DEF Extents
<1>2. b.offset >= MetadataSize /\ b.offset + b.len <= b.size
  BY DEF MetadataIsValid
<1>3. b = [size |-> b.size, offset |-> b.offset, len |-> b.len]
  BY DEF Extents
<1>4. AllocHeadroom(b, n) = [size |-> b.size, offset |-> b.offset - n, len |-> b.len + n]
  BY <1>1, <1>3 DEF AllocHeadroom, HeadroomAvailable
<1>. QED
  BY <1>1, <1>2, <1>4, BufferAssumption DEF Extents, MetadataIsValid

LEMMA AdvanceResult ==
    ASSUME NEW b \in Extents, MetadataIsValid(b), NEW n \in Nat, n <= b.len
    PROVE  /\ Advance(b, n) \in Extents /\ MetadataIsValid(Advance(b, n))
           /\ Advance(b, n).size = b.size
           /\ Advance(b, n).offset = b.offset + n
           /\ Advance(b, n).len = b.len - n
<1>1. b.size \in Nat /\ b.offset \in Nat /\ b.len \in Nat
  BY DEF Extents
<1>2. b.offset >= MetadataSize /\ b.offset + b.len <= b.size
  BY DEF MetadataIsValid
<1>3. b = [size |-> b.size, offset |-> b.offset, len |-> b.len]
  BY DEF Extents
<1>4. Advance(b, n) = [size |-> b.size, offset |-> b.offset + n, len |-> b.len - n]
  BY <1>1, <1>3 DEF Advance, HeadroomAvailable
<1>. QED
  BY <1>1, <1>2, <1>4, BufferAssumption DEF Extents, MetadataIsValid

LEMMA ShrinkResult ==
    ASSUME NEW b \in Extents, MetadataIsValid(b), NEW n \in Nat, n <= b.len
    PROVE  /\ ShrinkBy(b, n) \in Extents /\ MetadataIsValid(ShrinkBy(b, n))
           /\ ShrinkBy(b, n).size = b.size
           /\ ShrinkBy(b, n).offset = b.offset
           /\ ShrinkBy(b, n).len = b.len - n
  BY BufferAssumption DEF Extents, MetadataIsValid, ShrinkBy

LEMMA PutResult ==
    ASSUME NEW b \in Extents, MetadataIsValid(b), NEW n \in Nat,
           n <= b.size - (b.offset + b.len)
    PROVE  /\ Put(b, n) \in Extents /\ MetadataIsValid(Put(b, n))
           /\ Put(b, n).size = b.size
           /\ Put(b, n).offset = b.offset
           /\ Put(b, n).len = b.len + n
  BY BufferAssumption DEF Extents, MetadataIsValid, Put, TailroomAvailable

LEMMA ExtentResult ==
    ASSUME NEW s \in Nat, NEW o \in Nat, NEW n \in Nat, o >= MetadataSize, o + n <= s
    PROVE  /\ Extent(s, o, n) \in Extents /\ MetadataIsValid(Extent(s, o, n))
           /\ Extent(s, o, n).size = s
           /\ Extent(s, o, n).offset = o
           /\ Extent(s, o, n).len = n
  BY BufferAssumption DEF Extents, MetadataIsValid, Extent

LEMMA AdoptResult ==
    ASSUME NEW b \in Extents, MetadataIsValid(b), NEW h \in Nat, NEW w \in Nat,
           h <= b.len, w <= b.size - (b.offset + b.len)
    PROVE  /\ AdoptTailroom(b, h, w) \in Extents /\ MetadataIsValid(AdoptTailroom(b, h, w))
           /\ AdoptTailroom(b, h, w).size = b.size
           /\ AdoptTailroom(b, h, w).offset = b.offset + b.len - h
           /\ AdoptTailroom(b, h, w).len = h + w
<1>1. b.size \in Nat /\ b.offset \in Nat /\ b.len \in Nat
  BY DEF Extents
<1>2. b.offset >= MetadataSize /\ b.offset + b.len <= b.size
  BY DEF MetadataIsValid
<1>3. AdoptTailroom(b, h, w) = Extent(b.size, b.offset + b.len - h, h + w)
  BY <1>1 DEF AdoptTailroom, TailroomAvailable
<1>4. /\ b.offset + b.len - h \in Nat /\ h + w \in Nat
      /\ b.offset + b.len - h >= MetadataSize
      /\ (b.offset + b.len - h) + (h + w) <= b.size
  BY <1>1, <1>2, BufferAssumption
<1>. QED
  BY <1>1, <1>3, <1>4, ExtentResult

-------------------------------------------------------------------------------
(* Sealing and opening.                                                    *)

LEMMA CaptureResult ==
    ASSUME NEW b \in Extents, MetadataIsValid(b), b.offset >= MetadataSize + 1
    PROVE  /\ Capture(b) \in Extents /\ MetadataIsValid(Capture(b))
           /\ Capture(b).size = b.size /\ Capture(b).offset = b.offset
           /\ Capture(b).len = b.len
<1> DEFINE c == AllocHeadroom(b, 1)
<1>1. b.size \in Nat /\ b.offset \in Nat /\ b.len \in Nat
  BY DEF Extents
<1>2. /\ c \in Extents /\ MetadataIsValid(c)
      /\ c.size = b.size /\ c.offset = b.offset - 1 /\ c.len = b.len + 1
  BY <1>1, AllocResult, BufferAssumption
<1>3. 1 <= c.len
  BY <1>1, <1>2
<1> HIDE DEF c
<1>4. /\ Advance(c, 1) \in Extents /\ MetadataIsValid(Advance(c, 1))
      /\ Advance(c, 1).size = c.size /\ Advance(c, 1).offset = c.offset + 1
      /\ Advance(c, 1).len = c.len - 1
  BY <1>2, <1>3, AdvanceResult
<1>. QED
  BY <1>1, <1>2, <1>4 DEF Capture, c

\* encap_zpi and the capture that follows it.
LEMMA EncapResult ==
    ASSUME NEW b \in Extents, MetadataIsValid(b), b.offset >= MetadataSize + 2
    PROVE  /\ Capture(EncapZpi(b)) \in Extents /\ MetadataIsValid(Capture(EncapZpi(b)))
           /\ Capture(EncapZpi(b)).size = b.size
           /\ Capture(EncapZpi(b)).offset = b.offset - 1
           /\ Capture(EncapZpi(b)).len = b.len + 1
<1> DEFINE c == EncapZpi(b)
<1>1. b.size \in Nat /\ b.offset \in Nat /\ b.len \in Nat
  BY DEF Extents
<1>2. /\ c \in Extents /\ MetadataIsValid(c)
      /\ c.size = b.size /\ c.offset = b.offset - 1 /\ c.len = b.len + 1
  BY <1>1, AllocResult, BufferAssumption DEF EncapZpi, ZpiHeaderSize
<1> HIDE DEF c
<1>3. c.offset >= MetadataSize + 1
  BY <1>1, <1>2, BufferAssumption
<1>. QED
  BY <1>2, <1>3, CaptureResult DEF c

\* With a checksum or an integrity value.
LEMMA SealShortResult ==
    ASSUME NEW b \in Extents, MetadataIsValid(b), NEW z, z[1] \in {"zpi0", "hmac"},
           b.offset >= MetadataSize + 2, b.offset + b.len + 8 <= b.size
    PROVE  /\ SealBytes(z, b) \in Extents /\ MetadataIsValid(SealBytes(z, b))
           /\ z[1] = "zpi0" => SealBytes(z, b).len = b.len + 3
           /\ z[1] = "hmac" => SealBytes(z, b).len = b.len + 9
<1> DEFINE c == Capture(EncapZpi(b))
<1>1. b.size \in Nat /\ b.offset \in Nat /\ b.len \in Nat
  BY DEF Extents
<1>2. /\ c \in Extents /\ MetadataIsValid(c)
      /\ c.size = b.size /\ c.offset = b.offset - 1 /\ c.len = b.len + 1
  BY EncapResult
<1>3. SealBytes(z, b) = IF z[1] = "zpi0" THEN Put(c, 2) ELSE Put(c, 8)
  BY DEF SealBytes, ChecksumSize, MacSize
<1> HIDE DEF c
<1>4. 8 <= c.size - (c.offset + c.len) /\ 2 <= c.size - (c.offset + c.len)
  BY <1>1, <1>2
<1>5. /\ Put(c, 2) \in Extents /\ MetadataIsValid(Put(c, 2)) /\ Put(c, 2).len = c.len + 2
      /\ Put(c, 8) \in Extents /\ MetadataIsValid(Put(c, 8)) /\ Put(c, 8).len = c.len + 8
  BY <1>2, <1>4, PutResult
<1>. QED
  BY <1>1, <1>2, <1>3, <1>5

\* Encrypted, in the tail room or through the scratch buffer.
LEMMA SealFullResult ==
    ASSUME NEW b \in Extents, MetadataIsValid(b), NEW z, z[1] = "encr",
           b.offset >= MetadataSize + 2, b.offset + b.len + Padlen <= b.size
    PROVE  /\ SealBytes(z, b) \in Extents /\ MetadataIsValid(SealBytes(z, b))
           /\ SealBytes(z, b).len = b.len + 1 + Padlen
<1> DEFINE c == Capture(EncapZpi(b))
           n == c.len - 1
<1>1. /\ b.size \in Nat /\ b.offset \in Nat /\ b.len \in Nat /\ Padlen \in Nat
  BY LengthAssumption DEF Extents
<1>2. /\ c \in Extents /\ MetadataIsValid(c)
      /\ c.size = b.size /\ c.offset = b.offset - 1 /\ c.len = b.len + 1
  BY EncapResult
<1>3. SealBytes(z, b) = EncryptFull(c)
  BY DEF SealBytes
<1> HIDE DEF c
<1>4. /\ n \in Nat /\ n = b.len /\ n + Padlen \in Nat /\ n <= c.len /\ 1 <= c.len
      /\ c.size \in Nat /\ c.offset \in Nat /\ c.len \in Nat
  BY <1>1, <1>2 DEF Extents
<1>5. CASE TailroomAvailable(c) >= n + Padlen
  <2>1. EncryptFull(c) = AdoptTailroom(c, 1, n + Padlen)
    BY <1>5 DEF EncryptFull, ZpiHeaderSize
  <2>2. n + Padlen <= c.size - (c.offset + c.len)
    BY <1>5, <1>4, <1>1 DEF TailroomAvailable
  <2>3. /\ AdoptTailroom(c, 1, n + Padlen) \in Extents
        /\ MetadataIsValid(AdoptTailroom(c, 1, n + Padlen))
        /\ AdoptTailroom(c, 1, n + Padlen).len = 1 + (n + Padlen)
    BY <1>2, <1>4, <2>2, AdoptResult
  <2>. QED
    BY <1>1, <1>3, <1>4, <2>1, <2>3
<1>6. CASE ~(TailroomAvailable(c) >= n + Padlen)
  <2> DEFINE d == ShrinkBy(c, n)
  <2>1. EncryptFull(c) = Put(d, n + Padlen)
    BY <1>6 DEF EncryptFull, ZpiHeaderSize
  <2>2. /\ d \in Extents /\ MetadataIsValid(d)
        /\ d.size = c.size /\ d.offset = c.offset /\ d.len = c.len - n
    BY <1>2, <1>4, ShrinkResult
  <2> HIDE DEF d
  <2>3. d.size = b.size /\ d.offset = b.offset - 1 /\ d.len = 1
    BY <1>1, <1>2, <2>2
  <2>5. n + Padlen <= d.size - (d.offset + d.len)
    BY <1>1, <1>4, <2>3
  <2>4. /\ Put(d, n + Padlen) \in Extents /\ MetadataIsValid(Put(d, n + Padlen))
        /\ Put(d, n + Padlen).len = d.len + (n + Padlen)
    BY <1>4, <2>2, <2>5, PutResult
  <2>. QED
    BY <1>1, <1>2, <1>3, <1>4, <2>1, <2>2, <2>4
<1>. QED
  BY <1>5, <1>6

LEMMA ReceiveResult ==
    ASSUME NEW b \in Extents, ~Truncated(b)
    PROVE  /\ Receive(b) \in Extents /\ MetadataIsValid(Receive(b))
           /\ Receive(b).size = PacketBufferSize
           /\ Receive(b).offset = MetadataSize + DefaultMessageHeadroom
           /\ Receive(b).len = b.len
<1> DEFINE c == NewPacket(PacketBufferSize, DefaultMessageHeadroom)
<1>1. b.len \in Nat
  BY DEF Extents
<1>2. /\ c \in Extents /\ MetadataIsValid(c) /\ c.size = PacketBufferSize
      /\ c.offset = MetadataSize + DefaultMessageHeadroom /\ c.len = 0
  BY ExtentResult, BufferAssumption DEF NewPacket
<1> HIDE DEF c
<1>3. b.len <= c.size - (c.offset + c.len)
  BY <1>1, <1>2, BufferAssumption DEF Truncated
<1>4. /\ Put(c, b.len) \in Extents /\ MetadataIsValid(Put(c, b.len))
      /\ Put(c, b.len).size = c.size /\ Put(c, b.len).offset = c.offset
      /\ Put(c, b.len).len = c.len + b.len
  BY <1>1, <1>2, <1>3, PutResult
<1>. QED
  BY <1>1, <1>2, <1>4 DEF Receive, c

LEMMA OpenShortResult ==
    ASSUME NEW b \in Extents, MetadataIsValid(b), NEW z, NEW n \in {2, 8},
           z[1] = IF n = 2 THEN "zpi0" ELSE "hmac",
           b.offset >= MetadataSize + 1, b.len >= n + 1
    PROVE  /\ OpenBytes(z, b) \in Extents /\ MetadataIsValid(OpenBytes(z, b))
           /\ OpenBytes(z, b).size = b.size
           /\ OpenBytes(z, b).offset = b.offset + 1
           /\ OpenBytes(z, b).len = b.len - n - 1
<1> DEFINE c == ShrinkBy(b, n)
           d == Capture(c)
<1>1. b.size \in Nat /\ b.offset \in Nat /\ b.len \in Nat /\ n \in Nat
  BY DEF Extents
<1>2. /\ c \in Extents /\ MetadataIsValid(c)
      /\ c.size = b.size /\ c.offset = b.offset /\ c.len = b.len - n
  BY <1>1, ShrinkResult
<1>3. OpenBytes(z, b) = Advance(d, 1)
  BY DEF OpenBytes, ChecksumSize, MacSize, ZpiHeaderSize
<1> HIDE DEF c
<1>4. /\ d \in Extents /\ MetadataIsValid(d)
      /\ d.size = b.size /\ d.offset = b.offset /\ d.len = b.len - n
  BY <1>2, CaptureResult
<1> HIDE DEF d
<1>5. 1 <= d.len
  BY <1>1, <1>4
<1>6. /\ Advance(d, 1) \in Extents /\ MetadataIsValid(Advance(d, 1))
      /\ Advance(d, 1).size = d.size /\ Advance(d, 1).offset = d.offset + 1
      /\ Advance(d, 1).len = d.len - 1
  BY <1>4, <1>5, AdvanceResult
<1>. QED
  BY <1>1, <1>3, <1>4, <1>6

LEMMA DecryptResult ==
    ASSUME NEW b \in Extents, MetadataIsValid(b), b.len >= Padlen + 1
    PROVE  /\ DecryptFull(b) \in Extents /\ MetadataIsValid(DecryptFull(b))
           /\ DecryptFull(b).offset >= b.offset
           /\ DecryptFull(b).len = b.len - Padlen
<1> DEFINE n == b.len - 1
<1>1. b.size \in Nat /\ b.offset \in Nat /\ b.len \in Nat /\ Padlen \in Nat
  BY LengthAssumption DEF Extents
<1>2. n \in Nat /\ n - Padlen \in Nat /\ n <= b.len /\ 1 <= b.len
  BY <1>1
<1>3. b.offset + b.len <= b.size
  BY DEF MetadataIsValid
<1>4. CASE TailroomAvailable(b) >= n
  <2>1. DecryptFull(b) = AdoptTailroom(b, 1, n - Padlen)
    BY <1>4 DEF DecryptFull, ZpiHeaderSize
  <2>2. n - Padlen <= b.size - (b.offset + b.len)
    BY <1>1, <1>2, <1>4 DEF TailroomAvailable
  <2>3. /\ AdoptTailroom(b, 1, n - Padlen) \in Extents
        /\ MetadataIsValid(AdoptTailroom(b, 1, n - Padlen))
        /\ AdoptTailroom(b, 1, n - Padlen).offset = b.offset + b.len - 1
        /\ AdoptTailroom(b, 1, n - Padlen).len = 1 + (n - Padlen)
    BY <1>2, <2>2, AdoptResult
  <2>. QED
    BY <1>1, <1>2, <2>1, <2>3
<1>5. CASE ~(TailroomAvailable(b) >= n)
  <2> DEFINE d == ShrinkBy(b, n)
  <2>1. DecryptFull(b) = Put(d, n - Padlen)
    BY <1>5 DEF DecryptFull, ZpiHeaderSize
  <2>2. /\ d \in Extents /\ MetadataIsValid(d)
        /\ d.size = b.size /\ d.offset = b.offset /\ d.len = 1
    BY <1>1, <1>2, ShrinkResult
  <2> HIDE DEF d
  <2>3. n - Padlen <= d.size - (d.offset + d.len)
    BY <1>1, <1>2, <1>3, <2>2
  <2>4. /\ Put(d, n - Padlen) \in Extents /\ MetadataIsValid(Put(d, n - Padlen))
        /\ Put(d, n - Padlen).offset = d.offset
        /\ Put(d, n - Padlen).len = d.len + (n - Padlen)
    BY <1>2, <2>2, <2>3, PutResult
  <2>. QED
    BY <1>1, <1>2, <2>1, <2>2, <2>4
<1>. QED
  BY <1>4, <1>5

LEMMA OpenFullResult ==
    ASSUME NEW b \in Extents, MetadataIsValid(b), NEW z, z[1] = "encr",
           b.offset >= MetadataSize + 1, b.len >= Padlen + 1
    PROVE  /\ OpenBytes(z, b) \in Extents /\ MetadataIsValid(OpenBytes(z, b))
           /\ OpenBytes(z, b).len = b.len - Padlen - 1
<1> DEFINE c == DecryptFull(b)
           d == Capture(c)
<1>1. b.size \in Nat /\ b.offset \in Nat /\ b.len \in Nat /\ Padlen \in Nat
  BY LengthAssumption DEF Extents
<1>2. c \in Extents /\ MetadataIsValid(c) /\ c.offset >= b.offset /\ c.len = b.len - Padlen
  BY DecryptResult
<1>3. OpenBytes(z, b) = Advance(d, 1)
  BY DEF OpenBytes, ZpiHeaderSize
<1> HIDE DEF c
<1>4. c.offset >= MetadataSize + 1
  BY <1>1, <1>2, BufferAssumption DEF Extents
<1>5. d \in Extents /\ MetadataIsValid(d) /\ d.len = b.len - Padlen
  BY <1>2, <1>4, CaptureResult
<1> HIDE DEF d
<1>6. 1 <= d.len
  BY <1>1, <1>5
<1>7. /\ Advance(d, 1) \in Extents /\ MetadataIsValid(Advance(d, 1))
      /\ Advance(d, 1).len = d.len - 1
  BY <1>5, <1>6, AdvanceResult
<1>. QED
  BY <1>1, <1>3, <1>5, <1>7

-------------------------------------------------------------------------------
(* Headers and compression.                                                *)

LEMMA PushHeadersResult ==
    ASSUME NEW b \in Extents, MetadataIsValid(b), b.offset >= MetadataSize + 6
    PROVE  /\ PushHeaders(b) \in Extents /\ MetadataIsValid(PushHeaders(b))
           /\ PushHeaders(b).size = b.size
           /\ PushHeaders(b).offset = b.offset - 6
           /\ PushHeaders(b).len = b.len + 6
<1> DEFINE c == AllocHeadroom(b, 4)
<1>1. b.size \in Nat /\ b.offset \in Nat /\ b.len \in Nat
  BY DEF Extents
<1>2. /\ c \in Extents /\ MetadataIsValid(c)
      /\ c.size = b.size /\ c.offset = b.offset - 4 /\ c.len = b.len + 4
  BY <1>1, AllocResult, BufferAssumption
<1>3. PushHeaders(b) = AllocHeadroom(c, 2)
  BY DEF PushHeaders, PerFlowHeaderSize, BaseHeaderSize
<1> HIDE DEF c
<1>4. 2 <= c.offset - MetadataSize
  BY <1>1, <1>2, BufferAssumption
<1>5. /\ AllocHeadroom(c, 2) \in Extents /\ MetadataIsValid(AllocHeadroom(c, 2))
      /\ AllocHeadroom(c, 2).size = c.size /\ AllocHeadroom(c, 2).offset = c.offset - 2
      /\ AllocHeadroom(c, 2).len = c.len + 2
  BY <1>2, <1>4, AllocResult
<1>. QED
  BY <1>1, <1>2, <1>3, <1>5

LEMMA PopHeadersResult ==
    ASSUME NEW b \in Extents, MetadataIsValid(b), b.len >= 6
    PROVE  /\ PopHeaders(b) \in Extents /\ MetadataIsValid(PopHeaders(b))
           /\ PopHeaders(b).size = b.size
           /\ PopHeaders(b).offset = b.offset + 6
           /\ PopHeaders(b).len = b.len - 6
<1> DEFINE c == Advance(b, 2)
<1>1. b.size \in Nat /\ b.offset \in Nat /\ b.len \in Nat
  BY DEF Extents
<1>2. /\ c \in Extents /\ MetadataIsValid(c)
      /\ c.size = b.size /\ c.offset = b.offset + 2 /\ c.len = b.len - 2
  BY <1>1, AdvanceResult
<1>3. PopHeaders(b) = Advance(c, 4)
  BY DEF PopHeaders, PerFlowHeaderSize, BaseHeaderSize
<1> HIDE DEF c
<1>4. 4 <= c.len
  BY <1>1, <1>2
<1>5. /\ Advance(c, 4) \in Extents /\ MetadataIsValid(Advance(c, 4))
      /\ Advance(c, 4).size = c.size /\ Advance(c, 4).offset = c.offset + 4
      /\ Advance(c, 4).len = c.len - 4
  BY <1>2, <1>4, AdvanceResult
<1>. QED
  BY <1>1, <1>2, <1>3, <1>5

LEMMA PortBytesRange == ASSUME NEW m PROVE PortBytes(m) \in 0 .. 4
  BY DEF PortBytes

LEMMA HeaderSizes ==
    /\ \A l3 : IPHeaderSize(l3) \in {20, 40}
    /\ \A proto : L4HeaderSize(proto) \in {0, 4, 8, 20}
    /\ \A proto \in {"tcp", "udp"} : L4HeaderSize(proto) >= 8
  BY DEF IPHeaderSize, IPv4HeaderSize, IPv6HeaderSize, L4HeaderSize

\* Compression only takes from the front of the packet, at most the IP header, the ports
\* and a field of two bytes.
LEMMA CompressResult ==
    ASSUME NEW b \in Extents, MetadataIsValid(b), NEW m, NEW l3, NEW proto,
           b.len >= IPHeaderSize(l3) + L4HeaderSize(proto)
    PROVE  LET r == CompressBytes(m, l3, proto, b)
           IN /\ r \in Extents /\ MetadataIsValid(r) /\ r.size = b.size
              /\ r.offset >= b.offset /\ r.offset + r.len = b.offset + b.len
              /\ r.len >= Need(m, proto) /\ r.len <= b.len - 15
<1> DEFINE k == IPHeaderSize(l3)
           p == PortBytes(m)
           c == Advance(b, k)
           c1 == Advance(c, 4)
           c2 == Advance(c1, 2)
           d1 == AllocHeadroom(c2, p)
           d == IF proto \in {"tcp", "udp"} THEN d1 ELSE c
<1>1. b.size \in Nat /\ b.offset \in Nat /\ b.len \in Nat
  BY DEF Extents
<1>2. /\ k \in {20, 40} /\ p \in 0 .. 4 /\ b.offset >= MetadataSize
      /\ b.len >= k /\ (proto \in {"tcp", "udp"} => b.len >= k + 8)
  BY <1>1, PortBytesRange, HeaderSizes DEF MetadataIsValid
<1>3. CompressBytes(m, l3, proto, b) = AllocHeadroom(d, 5)
  BY DEF CompressBytes, CompressedSize
<1>11. Need(m, proto) = 5 + (IF proto \in {"tcp", "udp"} THEN p ELSE 0)
  BY DEF Need
<1> HIDE DEF k, p
<1>4. /\ c \in Extents /\ MetadataIsValid(c)
      /\ c.size = b.size /\ c.offset = b.offset + k /\ c.len = b.len - k
  BY <1>1, <1>2, AdvanceResult
<1> HIDE DEF c
<1>8. /\ d \in Extents /\ MetadataIsValid(d) /\ d.size = b.size
      /\ d.offset >= b.offset + k /\ d.offset + d.len = b.offset + b.len
      /\ d.len = b.len - k - (IF proto \in {"tcp", "udp"} THEN 6 - p ELSE 0)
  <2>1. CASE proto \in {"tcp", "udp"}
    <3>1. /\ c1 \in Extents /\ MetadataIsValid(c1)
          /\ c1.size = b.size /\ c1.offset = b.offset + k + 4 /\ c1.len = b.len - k - 4
      BY <1>1, <1>2, <1>4, <2>1, AdvanceResult
    <3> HIDE DEF c1
    <3>2. /\ c2 \in Extents /\ MetadataIsValid(c2)
          /\ c2.size = b.size /\ c2.offset = b.offset + k + 6 /\ c2.len = b.len - k - 6
      BY <1>1, <1>2, <2>1, <3>1, AdvanceResult
    <3> HIDE DEF c2
    <3>3. p \in Nat /\ p <= c2.offset - MetadataSize
      BY <1>1, <1>2, <3>2, BufferAssumption
    <3>4. /\ d1 \in Extents /\ MetadataIsValid(d1)
          /\ d1.size = c2.size /\ d1.offset = c2.offset - p /\ d1.len = c2.len + p
      BY <3>2, <3>3, AllocResult
    <3> HIDE DEF d1
    <3>5. d = d1
      BY <2>1
    <3>. QED
      BY <1>1, <1>2, <2>1, <3>2, <3>4, <3>5
  <2>2. CASE proto \notin {"tcp", "udp"}
    <3>1. d = c
      BY <2>2
    <3>. QED
      BY <1>1, <1>2, <1>4, <2>2, <3>1
  <2>. QED
    BY <2>1, <2>2
<1> HIDE DEF d
<1>9. 5 <= d.offset - MetadataSize /\ d.offset \in Nat /\ d.len \in Nat
  BY <1>1, <1>2, <1>8, BufferAssumption DEF Extents
<1>10. /\ AllocHeadroom(d, 5) \in Extents /\ MetadataIsValid(AllocHeadroom(d, 5))
       /\ AllocHeadroom(d, 5).size = d.size /\ AllocHeadroom(d, 5).offset = d.offset - 5
       /\ AllocHeadroom(d, 5).len = d.len + 5
  BY <1>8, <1>9, AllocResult
<1>12. b.len - k - (IF proto \in {"tcp", "udp"} THEN 6 - p ELSE 0)
         >= (IF proto \in {"tcp", "udp"} THEN p ELSE 0)
  BY <1>1, <1>2
<1>. QED
  BY <1>1, <1>2, <1>3, <1>8, <1>9, <1>10, <1>11, <1>12

\* Expansion needs the head room that the headers have left.
LEMMA ExpandResult ==
    ASSUME NEW b \in Extents, MetadataIsValid(b), NEW m, NEW l3, NEW proto,
           b.len >= Need(m, proto), b.offset >= MetadataSize + 64
    PROVE  LET r == ExpandBytes(m, l3, proto, b) IN r \in Extents /\ MetadataIsValid(r)
<1> DEFINE k == IPHeaderSize(l3)
           p == PortBytes(m)
           c == Advance(b, 5)
           c1 == Advance(c, p)
           c2 == AllocHeadroom(c1, 2)
           d1 == AllocHeadroom(c2, 4)
           d == IF proto \in {"tcp", "udp"} THEN d1 ELSE c
<1>1. b.size \in Nat /\ b.offset \in Nat /\ b.len \in Nat
  BY DEF Extents
<1>2. /\ k \in {20, 40} /\ p \in 0 .. 4
      /\ b.len >= 5 /\ (proto \in {"tcp", "udp"} => b.len >= 5 + p)
  BY <1>1, PortBytesRange, HeaderSizes DEF Need
<1>3. ExpandBytes(m, l3, proto, b) = AllocHeadroom(d, k)
  BY DEF ExpandBytes, CompressedSize
<1> HIDE DEF k, p
<1>4. /\ c \in Extents /\ MetadataIsValid(c)
      /\ c.size = b.size /\ c.offset = b.offset + 5 /\ c.len = b.len - 5
  BY <1>1, <1>2, AdvanceResult
<1> HIDE DEF c
<1>8. d \in Extents /\ MetadataIsValid(d) /\ d.offset >= b.offset - 1
  <2>1. CASE proto \in {"tcp", "udp"}
    <3>1. /\ c1 \in Extents /\ MetadataIsValid(c1)
          /\ c1.size = b.size /\ c1.offset = b.offset + 5 + p /\ c1.len = b.len - 5 - p
      BY <1>1, <1>2, <1>4, <2>1, AdvanceResult
    <3> HIDE DEF c1
    <3>2. /\ c2 \in Extents /\ MetadataIsValid(c2)
          /\ c2.size = b.size /\ c2.offset = b.offset + 3 + p /\ c2.len = b.len - 3 - p
      BY <1>1, <1>2, <3>1, AllocResult, BufferAssumption
    <3> HIDE DEF c2
    <3>3. d1 \in Extents /\ MetadataIsValid(d1) /\ d1.offset = b.offset - 1 + p
      BY <1>1, <1>2, <3>2, AllocResult, BufferAssumption
    <3> HIDE DEF d1
    <3>4. d = d1
      BY <2>1
    <3>. QED
      BY <1>1, <1>2, <3>3, <3>4
  <2>2. CASE proto \notin {"tcp", "udp"}
    <3>1. d = c
      BY <2>2
    <3>. QED
      BY <1>1, <1>4, <3>1
  <2>. QED
    BY <2>1, <2>2
<1> HIDE DEF d
<1>9. k \in Nat /\ k <= d.offset - MetadataSize
  BY <1>1, <1>2, <1>8, BufferAssumption DEF Extents
<1>. QED
  BY <1>3, <1>8, <1>9, AllocResult

-------------------------------------------------------------------------------
(* The stages.                                                             *)

LEMMA BufferInvInit == Init => BufferInv
<1> SUFFICES ASSUME Init PROVE BufferInv
  OBVIOUS
<1> DEFINE f == Fresh(orig)
<1> DEFINE n == read
<1>1. n \in LengthsOf(orig) /\ buf = Put(f, n) /\ body = orig
  BY DEF Init
<1>2. orig \in Inputs /\ stage = IF orig.l3 = "zdp" THEN "mgmt" ELSE "actor"
  BY DEF Init
<1>3. CASE orig.l3 # "zdp"
  <2>1. f = Extent(PacketBufferSize, MetadataSize + DefaultMessageHeadroom, 0)
    BY <1>3 DEF Fresh, NewPacket
  <2>2. n \in Lengths /\ n >= HeaderBytes(orig)
    BY <1>1, <1>3 DEF LengthsOf
  <2>3. /\ f \in Extents /\ MetadataIsValid(f) /\ f.size = PacketBufferSize
        /\ f.offset = MetadataSize + DefaultMessageHeadroom /\ f.len = 0
    BY <2>1, ExtentResult, BufferAssumption
  <2> HIDE DEF f
  <2>4. n \in Nat /\ n <= f.size - (f.offset + f.len)
    BY <2>2, <2>3, BufferAssumption, LengthAssumption
  <2>5. buf \in Extents /\ MetadataIsValid(buf) /\ AsRead(buf)
    BY <1>1, <1>3, <2>2, <2>3, <2>4, PutResult DEF AsRead
  <2>. QED
    BY <1>1, <1>2, <1>3, <2>2, <2>5 DEF BufferInv
<1>4. CASE orig.l3 = "zdp" /\ orig.type = "ack"
  <2>1. f = Extent(TinyPacketBufferSize, MetadataSize + TinyMessageHeadroom, 0) /\ n = 0
    BY <1>1, <1>4 DEF Fresh, NewPacket, LengthsOf
  <2>2. /\ f \in Extents /\ MetadataIsValid(f) /\ f.size = TinyPacketBufferSize
        /\ f.offset = MetadataSize + TinyMessageHeadroom /\ f.len = 0
    BY <2>1, ExtentResult, BufferAssumption
  <2> HIDE DEF f
  <2>3. n \in Nat /\ n <= f.size - (f.offset + f.len)
    BY <2>1, <2>2, BufferAssumption
  <2>4. buf \in Extents /\ MetadataIsValid(buf) /\ AsMade(buf)
    BY <1>1, <1>4, <2>1, <2>2, <2>3, PutResult DEF AsMade
  <2>. QED
    BY <1>2, <1>4, <2>4 DEF BufferInv
<1>5. CASE orig.l3 = "zdp" /\ orig.type # "ack"
  <2>1. f = Extent(SmallPacketBufferSize, MetadataSize + DefaultMessageHeadroom, 0)
    BY <1>5 DEF Fresh, NewPacket
  <2>2. n \in Bodies /\ orig.type \in {"km", "mgmt"}
    BY <1>1, <1>2, <1>5, LengthAssumption DEF LengthsOf
  <2>3. /\ f \in Extents /\ MetadataIsValid(f) /\ f.size = SmallPacketBufferSize
        /\ f.offset = MetadataSize + DefaultMessageHeadroom /\ f.len = 0
    BY <2>1, ExtentResult, BufferAssumption
  <2> HIDE DEF f
  <2>4. n \in Nat /\ n <= f.size - (f.offset + f.len)
    BY <2>2, <2>3, BufferAssumption, LengthAssumption
  <2>5. buf \in Extents /\ MetadataIsValid(buf) /\ AsMade(buf)
    BY <1>1, <2>2, <2>3, <2>4, PutResult DEF AsMade
  <2>. QED
    BY <1>2, <1>5, <2>5 DEF BufferInv
<1>. QED
  BY <1>3, <1>4, <1>5

LEMMA DropKeeps == BufferInv /\ Drop => BufferInv'
  BY DEF BufferInv, Drop, MetadataIsValid

LEMMA EncapsulateKeeps == Short /\ BufferInv /\ Encapsulate => BufferInv'
<1> SUFFICES ASSUME Short, BufferInv, Encapsulate PROVE BufferInv'
  OBVIOUS
<1> DEFINE c == CompressBytes(CompressionMode(tc), ft.l3, ft.proto, buf)
           d == Put(c, 8)
           e == AllocHeadroom(d, 1)
           g == PushHeaders(e)
<1>1. /\ buf \in Extents /\ MetadataIsValid(buf) /\ AsRead(buf)
      /\ buf.size \in Nat /\ buf.offset \in Nat /\ buf.len \in Nat
  BY DEF BufferInv, Encapsulate, At, Extents
<1>2. /\ buf.offset >= MetadataSize + 128
      /\ buf.offset + buf.len + 16 <= buf.size
  BY <1>1, BufferAssumption DEF AsRead, Short, LongestSafe, MacSize
<1>16. buf.len >= IPHeaderSize(ft.l3) + L4HeaderSize(ft.proto) /\ tc.proto = ft.proto
  BY <1>1 DEF BufferInv, Encapsulate, At, AsRead
<1>17. Need(CompressionMode(tc), ft.proto) \in Nat
  BY PortBytesRange DEF Need
<1> DEFINE need == Need(CompressionMode(tc), ft.proto)
<1>3. buf' = SealBytes(zpi', g) /\ stage' = "wire" /\ zpi' = Seal("transit", links[1]) /\ tc' = tc
  BY DEF Encapsulate, MacSize, A2aHeaderSize
<1>4. /\ c \in Extents /\ MetadataIsValid(c) /\ c.size = buf.size
      /\ c.offset >= buf.offset /\ c.offset + c.len = buf.offset + buf.len
      /\ c.len >= need /\ c.len <= buf.len - 15
      /\ c.offset \in Nat /\ c.len \in Nat
  BY <1>1, <1>2, <1>16, CompressResult DEF Extents
<1> HIDE DEF c, need
<1>5. /\ d \in Extents /\ MetadataIsValid(d) /\ d.size = buf.size
      /\ d.offset = c.offset /\ d.len = c.len + 8
  BY <1>1, <1>2, <1>4, PutResult
<1> HIDE DEF d
<1>6. 1 <= d.offset - MetadataSize
  BY <1>1, <1>2, <1>4, <1>5, BufferAssumption
<1>7. /\ e \in Extents /\ MetadataIsValid(e) /\ e.size = buf.size
      /\ e.offset = c.offset - 1 /\ e.len = c.len + 9
  BY <1>4, <1>5, <1>6, AllocResult
<1> HIDE DEF e
<1>8. e.offset >= MetadataSize + 6
  BY <1>1, <1>2, <1>4, <1>7, BufferAssumption
<1>9. /\ g \in Extents /\ MetadataIsValid(g) /\ g.size = buf.size
      /\ g.offset = c.offset - 7 /\ g.len = c.len + 15
  BY <1>4, <1>7, <1>8, PushHeadersResult
<1> HIDE DEF g
<1>10. zpi'[1] \in {"zpi0", "hmac"}
  BY <1>3 DEF Seal
<1>11. g.offset >= MetadataSize + 2 /\ g.offset + g.len + 8 <= g.size
  BY <1>1, <1>2, <1>4, <1>9, BufferAssumption
<1>12. /\ SealBytes(zpi', g) \in Extents /\ MetadataIsValid(SealBytes(zpi', g))
       /\ zpi'[1] = "zpi0" => SealBytes(zpi', g).len = g.len + 3
       /\ zpi'[1] = "hmac" => SealBytes(zpi', g).len = g.len + 9
  BY <1>9, <1>10, <1>11, SealShortResult
<1>18. need \in Nat /\ need = Need(CompressionMode(tc), tc.proto)'
  BY <1>3, <1>16, <1>17 DEF need
<1>13. (zpi'[1] = "hmac" => buf'.len >= need + 24) /\ buf'.len <= buf.len + 9
  BY <1>1, <1>3, <1>4, <1>9, <1>10, <1>11, <1>12, <1>18
<1>14. buf'.len \in Nat
  BY <1>3, <1>12 DEF Extents
<1>15. ~(buf'.len > PacketBufferSize - MetadataSize - DefaultMessageHeadroom)
  BY <1>1, <1>2, <1>13, <1>14, BufferAssumption DEF AsRead
<1>. QED
  BY <1>3, <1>10, <1>12, <1>13, <1>15, <1>18 DEF BufferInv, MetadataIsValid, Truncated

\* A transit packet that opens has the integrity value of the link.
LEMMA TransitOpens ==
    ASSUME NEW z, NEW sa, z[1] \in {"zpi0", "hmac"}, Opens("transit", z, sa)
    PROVE  z[1] = "hmac"
  BY DEF Opens

LEMMA ForwardKeeps == BufferInv /\ Forward => BufferInv'
<1> SUFFICES ASSUME BufferInv, Forward PROVE BufferInv'
  OBVIOUS
<1>1. CASE Truncated(buf) \/ ~Opens("transit", zpi, links[2])
  BY <1>1, DropKeeps DEF Forward
<1>2. CASE ~Truncated(buf) /\ Opens("transit", zpi, links[2])
  <2> DEFINE r == Receive(buf)
             o == OpenBytes(zpi, r)
             p == PopHeaders(o)
             g == PushHeaders(p)
  <2> DEFINE need == Need(CompressionMode(tc), tc.proto)
  <2>0. need \in Nat
    BY PortBytesRange DEF Need
  <2>1. /\ buf \in Extents /\ buf.len \in Nat /\ buf.len >= need + 24 /\ zpi[1] = "hmac"
    BY <1>2, TransitOpens DEF BufferInv, Forward, At, Extents
  <2>2. /\ buf' = SealBytes(zpi', g) /\ stage' = "wire2" /\ zpi' = Seal("transit", links[3])
        /\ need' = need
    BY <1>2 DEF Forward
  <2> HIDE DEF need
  <2>3. /\ r \in Extents /\ MetadataIsValid(r) /\ r.size = PacketBufferSize
        /\ r.offset = MetadataSize + DefaultMessageHeadroom /\ r.len = buf.len
    BY <1>2, <2>1, ReceiveResult
  <2> HIDE DEF r
  <2>4. r.offset >= MetadataSize + 128 /\ r.len >= 9 /\ r.offset + r.len <= r.size
    BY <2>0, <2>1, <2>3, BufferAssumption DEF MetadataIsValid
  <2>5. /\ o \in Extents /\ MetadataIsValid(o) /\ o.size = r.size
        /\ o.offset = r.offset + 1 /\ o.len = r.len - 8 - 1
    <3>1. r.offset >= MetadataSize + 1
      BY <2>3, BufferAssumption
    <3>. QED
      BY <2>1, <2>3, <2>4, <3>1, OpenShortResult
  <2> HIDE DEF o
  <2>6. o.len >= 6
    BY <2>0, <2>1, <2>3, <2>5
  <2>7. /\ p \in Extents /\ MetadataIsValid(p) /\ p.size = r.size
        /\ p.offset = o.offset + 6 /\ p.len = o.len - 6
    BY <2>5, <2>6, PopHeadersResult
  <2> HIDE DEF p
  <2>8. p.offset = r.offset + 7 /\ p.len = r.len - 15 /\ r.offset \in Nat /\ r.len \in Nat
    BY <2>3, <2>5, <2>7 DEF Extents
  <2>9. p.offset >= MetadataSize + 6
    BY <2>4, <2>8, BufferAssumption
  <2>10. /\ g \in Extents /\ MetadataIsValid(g) /\ g.size = r.size
         /\ g.offset = p.offset - 6 /\ g.len = p.len + 6
    BY <2>7, <2>9, PushHeadersResult
  <2> HIDE DEF g
  <2>11. zpi'[1] \in {"zpi0", "hmac"}
    BY <2>2 DEF Seal
  <2>12. g.offset = r.offset + 1 /\ g.len = r.len - 9
    BY <2>8, <2>10
  <2>13. g.offset >= MetadataSize + 2 /\ g.offset + g.len + 8 <= g.size /\ g.len >= need + 15
    BY <2>0, <2>1, <2>3, <2>4, <2>8, <2>10, <2>12, BufferAssumption
  <2>14. /\ SealBytes(zpi', g) \in Extents /\ MetadataIsValid(SealBytes(zpi', g))
         /\ zpi'[1] = "zpi0" => SealBytes(zpi', g).len = g.len + 3
         /\ zpi'[1] = "hmac" => SealBytes(zpi', g).len = g.len + 9
    BY <2>10, <2>11, <2>13, SealShortResult
  <2>15. (zpi'[1] = "hmac" => buf'.len >= need + 24) /\ buf'.len <= buf.len
    BY <2>0, <2>2, <2>3, <2>8, <2>11, <2>12, <2>13, <2>14
  <2>16. buf'.len \in Nat
    BY <2>2, <2>14 DEF Extents
  <2>17. ~(buf'.len > PacketBufferSize - MetadataSize - DefaultMessageHeadroom)
    BY <1>2, <2>1, <2>15, <2>16, BufferAssumption DEF Truncated
  <2>. QED
    BY <2>2, <2>11, <2>14, <2>15, <2>17 DEF BufferInv, MetadataIsValid, Truncated, need
<1>. QED
  BY <1>1, <1>2

LEMMA ActorInputKeeps == BufferInv /\ ActorInput => BufferInv'
<1> SUFFICES ASSUME BufferInv, ActorInput PROVE BufferInv'
  OBVIOUS
<1>1. CASE Drop
  BY <1>1, DropKeeps
<1>2. CASE ~Drop
  <2> DEFINE r == Receive(buf)
             o == OpenBytes(zpi, r)
             p == PopHeaders(o)
             e == Advance(p, 1)
             g == ShrinkBy(e, 8)
  <2>1. ~Truncated(buf) /\ Opens("transit", zpi, links[4]) /\ stage' = "delivered"
    BY <1>2 DEF ActorInput
  <2>2. buf' = ExpandBytes(CompressionMode(tc), tc.l3, tc.proto, g)
    BY <1>2 DEF ActorInput, MacSize, A2aHeaderSize
  <2> DEFINE need == Need(CompressionMode(tc), tc.proto)
  <2>0. need \in Nat
    BY PortBytesRange DEF Need
  <2>3. /\ buf \in Extents /\ buf.len \in Nat /\ buf.len >= need + 24 /\ zpi[1] = "hmac"
    BY <2>1, TransitOpens DEF BufferInv, ActorInput, At, Extents
  <2> HIDE DEF need
  <2>4. /\ r \in Extents /\ MetadataIsValid(r) /\ r.size = PacketBufferSize
        /\ r.offset = MetadataSize + DefaultMessageHeadroom /\ r.len = buf.len
    BY <2>1, <2>3, ReceiveResult
  <2> HIDE DEF r
  <2>5. r.offset >= MetadataSize + 128 /\ r.offset >= MetadataSize + 1 /\ r.len >= 9
    BY <2>0, <2>3, <2>4, BufferAssumption
  <2>6. /\ o \in Extents /\ MetadataIsValid(o) /\ o.offset = r.offset + 1 /\ o.len = r.len - 8 - 1
    BY <2>3, <2>4, <2>5, OpenShortResult
  <2> HIDE DEF o
  <2>7. o.len >= 6 /\ r.offset \in Nat /\ r.len \in Nat
    BY <2>0, <2>3, <2>4, <2>6 DEF Extents
  <2>8. /\ p \in Extents /\ MetadataIsValid(p) /\ p.offset = o.offset + 6 /\ p.len = o.len - 6
    BY <2>6, <2>7, PopHeadersResult
  <2> HIDE DEF p
  <2>9. p.len = r.len - 15 /\ p.offset = r.offset + 7 /\ 1 <= p.len
    BY <2>0, <2>3, <2>4, <2>6, <2>7, <2>8
  <2>10. /\ e \in Extents /\ MetadataIsValid(e) /\ e.offset = p.offset + 1 /\ e.len = p.len - 1
    BY <2>8, <2>9, AdvanceResult
  <2> HIDE DEF e
  <2>11. 8 <= e.len
    BY <2>0, <2>3, <2>4, <2>7, <2>9, <2>10
  <2>12. /\ g \in Extents /\ MetadataIsValid(g) /\ g.offset = e.offset /\ g.len = e.len - 8
    BY <2>10, <2>11, ShrinkResult
  <2> HIDE DEF g
  <2>13. g.len >= need /\ g.offset >= MetadataSize + 64
    BY <2>0, <2>3, <2>4, <2>5, <2>7, <2>9, <2>10, <2>12, BufferAssumption
  <2>14. buf' \in Extents /\ MetadataIsValid(buf')
    BY <2>2, <2>12, <2>13, ExpandResult DEF need
  <2>. QED
    BY <2>1, <2>14 DEF BufferInv, MetadataIsValid
<1>. QED
  BY <1>1, <1>2

\* The queue of the management thread gives a packet back as it was.
LEMMA BoundKeeps == BufferInv /\ Bound => BufferInv'
<1> SUFFICES ASSUME BufferInv, Bound PROVE BufferInv'
  OBVIOUS
<1>1. CASE ft.class # "OK"
  BY <1>1, DropKeeps DEF Bound
<1>2. CASE ft.class = "OK"
  <2>1. /\ buf \in Extents /\ MetadataIsValid(buf) /\ AsRead(buf)
        /\ buf.size \in Nat /\ buf.offset \in Nat /\ buf.len \in Nat
    BY DEF BufferInv, Bound, At, Extents
  <2>2. /\ buf' = DeserializeInto(SerializePacket(buf)) /\ stage' \in {"bound", "dropped"}
        /\ UNCHANGED <<orig, read, ft>> /\ (stage' = "bound" => tc'.proto = ft.proto)
    BY <1>2 DEF Bound, Matches
  <2>7. read >= IPHeaderSize(ft.l3) + L4HeaderSize(ft.proto)
    BY <1>2 DEF BufferInv, Bound, At
  <2>3. MetadataSize + buf.len <= PacketBufferSize
    BY <2>1, BufferAssumption DEF AsRead, MetadataIsValid
  <2>4. buf' = Extent(PacketBufferSize, buf.offset, buf.len)
    BY <2>2, <2>3 DEF DeserializeInto, SerializePacket
  <2>5. buf.offset >= MetadataSize /\ buf.offset + buf.len <= PacketBufferSize
    BY <2>1 DEF AsRead, MetadataIsValid
  <2>6. /\ buf' \in Extents /\ MetadataIsValid(buf') /\ buf'.size = PacketBufferSize
        /\ buf'.offset = buf.offset /\ buf'.len = buf.len
    BY <2>1, <2>4, <2>5, ExtentResult, BufferAssumption
  <2>. QED
    BY <1>2, <2>1, <2>2, <2>6, <2>7 DEF BufferInv, MetadataIsValid, AsRead
<1>. QED
  BY <1>1, <1>2

LEMMA ClassifyKeepsL3 ==
    ASSUME NEW q, Classify(q).class = "OK"
    PROVE  Classify(q).l3 = q.l3
<1>1. \A l3, src, dst, proto, t :
         ClassifyL4(l3, src, dst, proto, t).class = "OK" =>
            ClassifyL4(l3, src, dst, proto, t).l3 = l3
  BY DEF ClassifyL4, Err
<1>2. \A l3, src, dst, proto, t :
         NextHeader(l3, src, dst, proto, t).class = "OK" =>
            NextHeader(l3, src, dst, proto, t).l3 = l3
  BY <1>1 DEF NextHeader, Err
<1>3. CASE q.l3 = "v4"
  BY <1>2, <1>3 DEF Classify, ClassifyIpv4, Err
<1>4. CASE q.l3 = "v6"
  BY <1>2, <1>4 DEF Classify, ClassifyIpv6, Err
<1>5. CASE q.l3 \notin {"v4", "v6"}
  BY <1>5 DEF Classify
<1> QED BY <1>3, <1>4, <1>5

LEMMA ActorOutputKeeps == BufferInv /\ ActorOutput => BufferInv'
<1> SUFFICES ASSUME BufferInv, ActorOutput PROVE BufferInv'
  OBVIOUS
<1>1. CASE Drop
  BY <1>1, DropKeeps
<1>2. CASE ~Drop
  <2>1. /\ stage = "actor" /\ stage' = "classified" /\ buf' = buf
        /\ ft' = Classify(body) /\ UNCHANGED <<orig, read>>
    BY <1>2 DEF ActorOutput, At
  <2>2. body = orig /\ read >= HeaderBytes(orig)
    BY <2>1 DEF BufferInv
  <2>3. ft'.class = "OK" => read >= IPHeaderSize(ft'.l3) + L4HeaderSize(ft'.proto)
    BY <2>1, <2>2, ClassifyKeepsL3 DEF HeaderBytes
  <2>. QED
    BY <2>1, <2>3 DEF BufferInv, MetadataIsValid, AsRead
<1>. QED
  BY <1>1, <1>2

LEMMA MgmtOutputKeeps == BufferInv /\ MgmtOutput => BufferInv'
<1> SUFFICES ASSUME BufferInv, MgmtOutput PROVE BufferInv'
  OBVIOUS
<1>1. PICK h \in Headers :
         buf' = SerializePacket(AllocHeadroom(AllocHeadroom(buf, MessageHeaders(orig.type, h)), 2))
  BY DEF MgmtOutput, BaseHeaderSize
<1> DEFINE n == MessageHeaders(orig.type, h)
           c == AllocHeadroom(buf, n)
           d == AllocHeadroom(c, 2)
<1>2. /\ buf \in Extents /\ MetadataIsValid(buf) /\ AsMade(buf) /\ stage' = "queued"
      /\ buf.size \in Nat /\ buf.offset \in Nat /\ buf.len \in Nat
  BY DEF BufferInv, MgmtOutput, At, Extents
<1>3. h \in 0 .. 64
  BY LengthAssumption
<1>4. /\ n \in Nat /\ n + 4 <= buf.offset - MetadataSize /\ buf.size <= SmallPacketBufferSize
      /\ SmallPacketBufferSize \in Nat /\ SmallPacketBufferSize <= PacketBufferSize
  <2>1. CASE orig.type = "ack"
    BY <1>2, <2>1, BufferAssumption DEF AsMade, MessageHeaders, MgmtHeaderSize
  <2>2. CASE orig.type = "km"
    BY <1>2, <2>2, BufferAssumption DEF AsMade, MessageHeaders, KmHeaderSize
  <2>3. CASE orig.type = "mgmt"
    BY <1>2, <1>3, <2>3, BufferAssumption
       DEF AsMade, MessageHeaders, MgmtHeaderSize, TransactionHeaderSize, PerFlowHeaderSize
  <2>. QED
    BY <1>2, <2>1, <2>2, <2>3 DEF AsMade
<1> HIDE DEF n
<1>5. /\ c \in Extents /\ MetadataIsValid(c) /\ c.size = buf.size
      /\ c.offset = buf.offset - n /\ c.len = buf.len + n
  BY <1>2, <1>4, AllocResult, BufferAssumption
<1>6. buf' = SerializePacket(d)
  BY <1>1 DEF n
<1> HIDE DEF c
<1>7. 2 <= c.offset - MetadataSize
  BY <1>2, <1>4, <1>5, BufferAssumption
<1>8. /\ d \in Extents /\ MetadataIsValid(d) /\ d.size = buf.size
      /\ d.offset = c.offset - 2 /\ d.len = c.len + 2
  BY <1>5, <1>7, AllocResult
<1> HIDE DEF d
<1>9. /\ d.len >= 2 /\ d.offset >= MetadataSize + 2
      /\ d.offset + d.len <= SmallPacketBufferSize
      /\ MetadataSize + d.len <= PacketBufferSize
  BY <1>2, <1>4, <1>5, <1>8, BufferAssumption DEF MetadataIsValid
<1>10. buf' = d
  BY <1>6, <1>9 DEF SerializePacket
<1>11. orig' = orig /\ orig.type # "transit"
  BY <1>2 DEF MgmtOutput, AsMade
<1>. QED
  BY <1>2, <1>8, <1>9, <1>10, <1>11 DEF BufferInv, MetadataIsValid

LEMMA MgmtEgressKeeps == BufferInv /\ MgmtEgress => BufferInv'
<1> SUFFICES ASSUME BufferInv, MgmtEgress PROVE BufferInv'
  OBVIOUS
<1> DEFINE c == TakeOver(buf)
<1>1. /\ buf \in Extents /\ buf.offset \in Nat /\ buf.len \in Nat
      /\ buf.len >= 2 /\ buf.offset >= MetadataSize + 2
      /\ buf.offset + buf.len <= SmallPacketBufferSize
  BY DEF BufferInv, MgmtEgress, At, Extents
<1>2. /\ stage' = "mgmt_wire" /\ buf' = SealBytes(zpi', c)
      /\ zpi' = Seal(orig.type, links[1])
  BY DEF MgmtEgress
<1>3. /\ c \in Extents /\ MetadataIsValid(c) /\ c.size = PacketBufferSize
      /\ c.offset = buf.offset /\ c.len = buf.len
  <2>1. buf.offset >= MetadataSize /\ buf.offset + buf.len <= PacketBufferSize
    BY <1>1, BufferAssumption
  <2>. QED
    BY <1>1, <2>1, ExtentResult, BufferAssumption DEF TakeOver, DeserializeInto
<1>4. orig.type # "transit"
  BY DEF BufferInv, MgmtEgress, At
<1> HIDE DEF c
<1>5. c.offset >= MetadataSize + 2 /\ c.offset + c.len + 8 <= c.size
      /\ c.offset + c.len + Padlen <= c.size
  BY <1>1, <1>3, BufferAssumption, LengthAssumption
<1>6. CASE zpi'[1] = "zpi0"
  <2>1. /\ SealBytes(zpi', c) \in Extents /\ MetadataIsValid(SealBytes(zpi', c))
        /\ SealBytes(zpi', c).len = c.len + 3
    BY <1>3, <1>5, <1>6, SealShortResult
  <2>2. buf'.len >= 5
    BY <1>1, <1>2, <1>3, <2>1
  <2>. QED
    BY <1>2, <1>6, <2>1, <2>2 DEF BufferInv, MetadataIsValid
<1>7. CASE zpi'[1] = "encr"
  <2>1. /\ SealBytes(zpi', c) \in Extents /\ MetadataIsValid(SealBytes(zpi', c))
        /\ SealBytes(zpi', c).len = c.len + 1 + Padlen
    BY <1>3, <1>5, <1>7, SealFullResult
  <2>2. buf'.len >= Padlen + 3
    BY <1>1, <1>2, <1>3, <2>1, LengthAssumption
  <2>. QED
    BY <1>2, <1>7, <2>1, <2>2 DEF BufferInv, MetadataIsValid
<1>. QED
  BY <1>2, <1>4, <1>6, <1>7 DEF Seal

LEMMA MgmtIngressKeeps == BufferInv /\ MgmtIngress => BufferInv'
<1> SUFFICES ASSUME BufferInv, MgmtIngress PROVE BufferInv'
  OBVIOUS
<1>1. CASE Drop
  BY <1>1, DropKeeps
<1>2. CASE ~Drop
  <2> DEFINE r == Receive(buf)
             o == OpenBytes(zpi, r)
             e == Advance(o, 2)
  <2>1. ~Truncated(buf) /\ stage' = "dispatched" /\ buf' = AllocHeadroom(e, 2)
    BY <1>2 DEF MgmtIngress, BaseHeaderSize
  <2>2. /\ buf \in Extents /\ buf.len \in Nat /\ Padlen \in Nat
        /\ \/ zpi[1] = "zpi0" /\ buf.len >= 5
           \/ zpi[1] = "encr" /\ buf.len >= Padlen + 3
    BY LengthAssumption DEF BufferInv, MgmtIngress, At, Extents
  <2>3. /\ r \in Extents /\ MetadataIsValid(r)
        /\ r.offset = MetadataSize + DefaultMessageHeadroom /\ r.len = buf.len
    BY <2>1, <2>2, ReceiveResult
  <2> HIDE DEF r
  <2>4. r.offset >= MetadataSize + 1
    BY <2>3, BufferAssumption
  <2>5. /\ o \in Extents /\ MetadataIsValid(o) /\ 2 <= o.len
    <3>1. CASE zpi[1] = "zpi0" /\ buf.len >= 5
      <4>1. r.len >= 2 + 1
        BY <2>2, <2>3, <3>1
      <4>2. o \in Extents /\ MetadataIsValid(o) /\ o.len = r.len - 2 - 1
        BY <2>3, <2>4, <3>1, <4>1, OpenShortResult
      <4>. QED
        BY <2>2, <2>3, <3>1, <4>2
    <3>2. CASE zpi[1] = "encr" /\ buf.len >= Padlen + 3
      <4>1. r.len >= Padlen + 1
        BY <2>2, <2>3, <3>2
      <4>2. o \in Extents /\ MetadataIsValid(o) /\ o.len = r.len - Padlen - 1
        BY <2>3, <2>4, <3>2, <4>1, OpenFullResult
      <4>. QED
        BY <2>2, <2>3, <3>2, <4>2
    <3>. QED
      BY <2>2, <3>1, <3>2
  <2> HIDE DEF o
  <2>6. /\ e \in Extents /\ MetadataIsValid(e) /\ e.offset = o.offset + 2
        /\ o.offset \in Nat /\ o.offset >= MetadataSize
    BY <2>5, AdvanceResult DEF Extents, MetadataIsValid
  <2> HIDE DEF e
  <2>7. 2 <= e.offset - MetadataSize
    BY <2>6, BufferAssumption
  <2>8. AllocHeadroom(e, 2) \in Extents /\ MetadataIsValid(AllocHeadroom(e, 2))
    BY <2>6, <2>7, AllocResult
  <2>. QED
    BY <2>1, <2>8 DEF BufferInv, MetadataIsValid
<1>. QED
  BY <1>1, <1>2

LEMMA BufferInvNext == Short /\ BufferInv /\ [Next]_vars => BufferInv'
<1>1. BufferInv /\ UNCHANGED vars => BufferInv'
  BY DEF vars, BufferInv, MetadataIsValid, AsRead, AsMade
<1>. QED
  BY <1>1, ActorOutputKeeps, BoundKeeps, EncapsulateKeeps, ForwardKeeps, ActorInputKeeps,
     MgmtOutputKeeps, MgmtEgressKeeps, MgmtIngressKeeps DEF Next

LEMMA ShortStays == [Next]_vars => UNCHANGED Short
  BY DEF Next, vars, Short, ActorOutput, Bound, Encapsulate, Forward, ActorInput, MgmtOutput,
     MgmtEgress, MgmtIngress, Drop

\* Every packet stays within its buffer at every stage of its way, whatever the sizes
\* of the buffers, the lengths of packets and headers and the cipher: no assertion of
\* packet.rs fails on the paths of the fast path, but for packets of actors longer than
\* LongestSafe.
THEOREM PacketsWithinBuffer == Spec => []WithinBuffer
<1> DEFINE Inv == Short => BufferInv
<1>1. Inv => WithinBuffer
  BY DEF BufferInv, WithinBuffer, Short
<1>2. Init => Inv
  BY BufferInvInit
<1>3. Inv /\ [Next]_vars => Inv'
  BY BufferInvNext, ShortStays
<1>. QED
  BY <1>1, <1>2, <1>3, PTL DEF Spec

-------------------------------------------------------------------------------
(* What arrives.                                                           *)

OneHopOlder == [orig EXCEPT !.ttl = @ - 1]

\* A link whose ends share an association.
SharedLink(i, j) == links[i] = links[j] /\ links[i] # 0

\* Inductive: the integrity value is that of the packet one hop older from where it is
\* computed to where it is compared, and whatever has been opened was sealed under the
\* association of the end that opened it.
IntactInv ==
    /\ stage = "actor" => body = orig /\ orig \in Inputs /\ orig.l3 # "zdp"
    /\ stage \in {"classified", "bound"} => body = OneHopOlder
    /\ stage \in {"wire", "wire2"} => micv = OneHopOlder
    /\ stage = "wire" => zpi = Seal("transit", links[1])
    /\ stage = "wire2" => SharedLink(1, 2) /\ zpi = Seal("transit", links[3])
    /\ stage = "delivered" => body = OneHopOlder /\ SharedLink(1, 2) /\ SharedLink(3, 4)
    /\ stage = "mgmt_wire" => zpi = Seal(orig.type, links[1])
    /\ stage = "dispatched" =>
          IF orig.type = "km" THEN links[2] = 0 ELSE SharedLink(1, 2)

\* What opens at one end of a link was sealed at the other under the same keys, except
\* for key management, which opens only where there are none.
LEMMA SealedOpens ==
    ASSUME NEW type, NEW sa, NEW sb, Opens(type, Seal(type, sa), sb)
    PROVE  IF type = "km" THEN sb = 0 ELSE sa = sb /\ sa # 0
<1>1. CASE type = "km" \/ sa = 0
  <2>1. Seal(type, sa) = <<"zpi0", 0>>
    BY <1>1 DEF Seal
  <2>2. <<"zpi0", 0>>[1] = "zpi0"
    OBVIOUS
  <2>3. type = "km"
    BY <2>1, <2>2 DEF Opens
  <2>4. <<"zpi0", 0>> # <<"hmac", sb>> /\ <<"zpi0", 0>> # <<"encr", sb>>
    OBVIOUS
  <2> QED BY <2>1, <2>3, <2>4 DEF Opens, Decrypts
<1>2. CASE type # "km" /\ sa # 0
  <2> DEFINE how == IF type = "transit" THEN "hmac" ELSE "encr"
  <2>1. Seal(type, sa) = <<how, sa>> /\ how \in {"hmac", "encr"}
    BY <1>2 DEF Seal
  <2>2. sb # 0 /\ <<how, sa>> \in {<<"hmac", sb>>, <<"encr", sb>>}
    BY <2>1 DEF Opens, Decrypts
  <2> HIDE DEF how
  <2>3. sa = sb
    BY <2>2
  <2> QED BY <1>2, <2>3
<1> QED BY <1>1, <1>2

LEMMA IntactInit == Init => IntactInv
BY DEF Init, IntactInv

LEMMA IntactNext == IntactInv /\ [Next]_vars => IntactInv'
<1> SUFFICES ASSUME IntactInv, [Next]_vars PROVE IntactInv'
  OBVIOUS
<1>1. CASE Drop
  BY <1>1 DEF Drop, IntactInv
<1>2. CASE ActorOutput /\ ~Drop
  <2> DEFINE p == DecrementTtl(body)
  <2>1. /\ stage = "actor" /\ p.ttl # 0 /\ stage' = "classified" /\ body' = p
        /\ UNCHANGED <<orig, tc, micv, zpi, links>>
    BY <1>2 DEF At, ActorOutput
  <2>2. body = orig /\ orig.ttl \in Nat
    BY <2>1, InputAssumption DEF IntactInv
  <2>3. p = OneHopOlder
    BY <2>1, <2>2 DEF DecrementTtl, OneHopOlder
  <2>4. body' = OneHopOlder'
    BY <2>1, <2>3 DEF OneHopOlder
  <2> QED BY <2>1, <2>4 DEF IntactInv
<1>3. CASE Bound /\ ~Drop
  <2>1. /\ stage = "classified" /\ stage' \in {"bound", "dropped"}
        /\ UNCHANGED <<orig, body, micv, zpi, links>>
    BY <1>3 DEF At, Bound
  <2> QED BY <2>1 DEF IntactInv, OneHopOlder
<1>4. CASE Encapsulate
  <2>1. /\ stage = "bound" /\ micv' = body /\ stage' = "wire" /\ zpi' = Seal("transit", links[1])
        /\ UNCHANGED <<orig, links>>
    BY <1>4 DEF At, Encapsulate
  <2>2. zpi' = Seal("transit", links'[1]) /\ micv' = OneHopOlder'
    BY <2>1 DEF IntactInv, OneHopOlder
  <2> QED BY <2>1, <2>2 DEF IntactInv
<1>5. CASE Forward /\ ~Drop
  <2>1. /\ stage = "wire" /\ Opens("transit", zpi, links[2]) /\ stage' = "wire2"
        /\ zpi' = Seal("transit", links[3]) /\ UNCHANGED <<orig, micv, links>>
    BY <1>5 DEF At, Forward
  <2>2. zpi = Seal("transit", links[1]) /\ micv = OneHopOlder
    BY <2>1 DEF IntactInv
  <2>3. SharedLink(1, 2)
    BY <2>1, <2>2, SealedOpens DEF SharedLink
  <2>4. SharedLink(1, 2)' /\ zpi' = Seal("transit", links'[3]) /\ micv' = OneHopOlder'
    BY <2>1, <2>2, <2>3 DEF SharedLink, OneHopOlder
  <2> QED BY <2>1, <2>4 DEF IntactInv
<1>6. CASE ActorInput /\ ~Drop
  <2>1. /\ stage = "wire2" /\ Opens("transit", zpi, links[4]) /\ stage' = "delivered"
        /\ body' = micv /\ UNCHANGED <<orig, micv, links>>
    BY <1>6 DEF At, ActorInput, MicvOk
  <2>2. zpi = Seal("transit", links[3]) /\ micv = OneHopOlder /\ SharedLink(1, 2)
    BY <2>1 DEF IntactInv
  <2>3. SharedLink(3, 4)
    BY <2>1, <2>2, SealedOpens DEF SharedLink
  <2>4. SharedLink(1, 2)' /\ SharedLink(3, 4)' /\ body' = OneHopOlder'
    BY <2>1, <2>2, <2>3 DEF SharedLink, OneHopOlder
  <2> QED BY <2>1, <2>4 DEF IntactInv
<1>7. CASE MgmtOutput
  BY <1>7 DEF At, MgmtOutput, IntactInv
<1>8. CASE MgmtEgress
  <2>1. stage' = "mgmt_wire" /\ zpi' = Seal(orig.type, links[1]) /\ UNCHANGED <<orig, links>>
    BY <1>8 DEF At, MgmtEgress
  <2>2. zpi' = Seal(orig'.type, links'[1])
    BY <2>1
  <2> QED BY <2>1, <2>2 DEF IntactInv
<1>9. CASE MgmtIngress /\ ~Drop
  <2>1. /\ stage = "mgmt_wire" /\ Opens(orig.type, zpi, links[2]) /\ stage' = "dispatched"
        /\ UNCHANGED <<orig, links>>
    BY <1>9 DEF At, MgmtIngress
  <2>2. zpi = Seal(orig.type, links[1])
    BY <2>1 DEF IntactInv
  <2>3. IF orig.type = "km" THEN links[2] = 0 ELSE SharedLink(1, 2)
    BY <2>1, <2>2, SealedOpens DEF SharedLink
  <2>4. IF orig'.type = "km" THEN links'[2] = 0 ELSE SharedLink(1, 2)'
    BY <2>1, <2>3 DEF SharedLink
  <2> QED BY <2>1, <2>4 DEF IntactInv
<1>10. CASE UNCHANGED vars
  BY <1>10 DEF vars, IntactInv, OneHopOlder, SharedLink
<1> QED
  BY <1>1, <1>2, <1>3, <1>4, <1>5, <1>6, <1>7, <1>8, <1>9, <1>10
     DEF Next

\* What reaches the actor is what the other actor sent, one hop older, over links whose
\* ends share an association, and a message that is dispatched has crossed such a link or
\* is key management at an end without one, for every packet, classifier, compression and
\* set of associations.
THEOREM PacketsArriveIntact == Spec => []ArrivesIntact
<1>1. IntactInv => ArrivesIntact
  BY DEF IntactInv, ArrivesIntact, OneHopOlder, SharedLink, Associated
<1> QED
  BY <1>1, IntactInit, IntactNext, PTL DEF Spec
-------------------------------------------------------------------------------
(* Compression and expansion are inverse.                                  *)

\* What the front of a sequence held is dropped with it.
LEMMA FromConcat ==
    ASSUME NEW U, NEW x \in Seq(U), NEW y \in Seq(U)
    PROVE  From(x \o y, Len(x) + 1) = y
<1>1. x \o y \in Seq(U) /\ Len(x \o y) = Len(x) + Len(y) /\ Len(x) \in Nat /\ Len(y) \in Nat
  OBVIOUS
<1>2. \A i \in 1 .. Len(y) : (x \o y)[Len(x) + i] = y[i]
  OBVIOUS
<1> DEFINE z == SubSeq(x \o y, Len(x) + 1, Len(x \o y))
<1>3. z \in Seq(U) /\ Len(z) = Len(y)
  BY <1>1
<1>4. \A i \in 1 .. Len(y) : z[i] = (x \o y)[Len(x) + i]
  BY <1>1
<1> HIDE DEF z
<1>5. z = y
  BY <1>2, <1>3, <1>4
<1> QED BY <1>5 DEF From, z

LEMMA FromResult ==
    ASSUME NEW U, NEW s \in Seq(U), NEW n \in Nat, n >= 1, n <= Len(s) + 1
    PROVE  /\ From(s, n) \in Seq(U) /\ Len(From(s, n)) = Len(s) - n + 1
           /\ \A i \in 1 .. Len(s) - n + 1 : From(s, n)[i] = s[i + n - 1]
<1>1. Len(s) \in Nat
  OBVIOUS
<1>2. CASE n <= Len(s)
  BY <1>1, <1>2 DEF From
<1>3. CASE n = Len(s) + 1
  BY <1>1, <1>3 DEF From
<1> QED BY <1>1, <1>2, <1>3

Modes == [sport : BOOLEAN, dport : BOOLEAN]

\* The ports that travel with a packet, and where they end.
PortsKept(m, s) == (IF m.sport THEN <<>> ELSE <<s[1]>>) \o (IF m.dport THEN <<>> ELSE <<s[2]>>)
KeptCount(m) == (IF m.sport THEN 0 ELSE 1) + (IF m.dport THEN 0 ELSE 1)

LEMMA PortsKeptResult ==
    ASSUME NEW U, NEW s \in Seq(U), Len(s) >= 2, NEW m \in Modes
    PROVE  /\ PortsKept(m, s) \in Seq(U) /\ Len(PortsKept(m, s)) = KeptCount(m)
           /\ ~m.sport => PortsKept(m, s)[1] = s[1]
           /\ ~m.dport => PortsKept(m, s)[KeptCount(m)] = s[2]
<1>1. s[1] \in U /\ s[2] \in U
  OBVIOUS
<1>2. <<s[1]>> \in Seq(U) /\ <<s[2]>> \in Seq(U) /\ <<>> \in Seq(U)
  BY <1>1
<1>3. CASE m.sport /\ m.dport
  BY <1>3 DEF PortsKept, KeptCount
<1>4. CASE m.sport /\ ~m.dport
  BY <1>1, <1>4 DEF PortsKept, KeptCount
<1>5. CASE ~m.sport /\ m.dport
  BY <1>1, <1>5 DEF PortsKept, KeptCount
<1>6. CASE ~m.sport /\ ~m.dport
  <2>1. PortsKept(m, s) = <<s[1]>> \o <<s[2]>> /\ KeptCount(m) = 2
    BY <1>6 DEF PortsKept, KeptCount
  <2>2. /\ <<s[1]>> \o <<s[2]>> \in Seq(U) /\ Len(<<s[1]>> \o <<s[2]>>) = 2
        /\ (<<s[1]>> \o <<s[2]>>)[1] = s[1] /\ (<<s[1]>> \o <<s[2]>>)[2] = s[2]
    BY <1>1
  <2> QED BY <1>6, <2>1, <2>2
<1> QED BY <1>3, <1>4, <1>5, <1>6

IsRest(proto, s, r) ==
    /\ Len(r) = Len(s) - 3
    /\ proto = "tcp" => r[1] = s[3] /\ \A i \in 2 .. Len(r) : r[i] = s[i + 3]
    /\ proto = "udp" => \A i \in 1 .. Len(r) : r[i] = s[i + 3]

\* A compressed segment: the ports kept, then what was neither cut nor in the classifier.
LEMMA CompressedSegment ==
    ASSUME NEW U, NEW s \in Seq(U), Len(s) >= 4, NEW m \in Modes,
           NEW proto \in {"tcp", "udp"}
    PROVE  \E r \in Seq(U) :
              CompressL4(m, proto, s) = PortsKept(m, s) \o r /\ IsRest(proto, s, r)
<1>1. Len(s) \in Nat /\ PortsKept(m, s) \in Seq(U)
  BY PortsKeptResult
<1>2. CASE proto = "tcp"
  <2> DEFINE a == SubSeq(s, 3, 3)
             b == From(s, 5)
             k == PortsKept(m, s)
  <2>1. CompressL4(m, proto, s) = (k \o a) \o b
    BY <1>2 DEF CompressL4, PortsKept
  <2>2. a \in Seq(U) /\ Len(a) = 1 /\ a[1] = s[3]
    BY <1>1
  <2>3. b \in Seq(U) /\ Len(b) = Len(s) - 4 /\ \A i \in 1 .. Len(s) - 4 : b[i] = s[i + 4]
    <3> DEFINE n == 5
    <3>1. n \in Nat /\ n >= 1 /\ n <= Len(s) + 1
      BY <1>1
    <3>2. Len(s) - n + 1 = Len(s) - 4 /\ \A i \in 1 .. Len(s) - 4 : i + n - 1 = i + 4
      BY <1>1
    <3>3. b = From(s, n)
      OBVIOUS
    <3> HIDE DEF b, n
    <3>4. /\ From(s, n) \in Seq(U) /\ Len(From(s, n)) = Len(s) - n + 1
          /\ \A i \in 1 .. Len(s) - n + 1 : From(s, n)[i] = s[i + n - 1]
      BY <3>1, FromResult
    <3> QED BY <1>1, <3>2, <3>3, <3>4
  <2>4. k \in Seq(U)
    BY <1>1
  <2> HIDE DEF a, b, k
  <2>5. (k \o a) \o b = k \o (a \o b)
    BY <2>2, <2>3, <2>4
  <2>8. /\ a \o b \in Seq(U) /\ Len(a \o b) = Len(a) + Len(b)
        /\ \A i \in 1 .. Len(a) : (a \o b)[i] = a[i]
        /\ \A i \in 1 .. Len(b) : (a \o b)[Len(a) + i] = b[i]
    <3>1. a \in Seq(U) /\ b \in Seq(U)
      BY <2>2, <2>3
    <3> QED BY ONLY <3>1
  <2>6. a \o b \in Seq(U) /\ Len(a \o b) = Len(s) - 3 /\ (a \o b)[1] = s[3]
    BY <1>1, <2>2, <2>3, <2>8
  <2>7. \A i \in 2 .. Len(s) - 3 : (a \o b)[i] = s[i + 3]
    <3> SUFFICES ASSUME NEW i \in 2 .. Len(s) - 3 PROVE (a \o b)[i] = s[i + 3]
      OBVIOUS
    <3>1. i - 1 \in 1 .. Len(b) /\ Len(a) + (i - 1) = i
      BY <1>1, <2>2, <2>3
    <3>2. (a \o b)[Len(a) + (i - 1)] = b[i - 1]
      BY <2>8, <3>1
    <3>3. b[i - 1] = s[i + 3]
      BY <1>1, <2>3, <3>1
    <3> QED BY <3>1, <3>2, <3>3
  <2> QED BY <1>2, <2>1, <2>5, <2>6, <2>7 DEF k, IsRest
<1>3. CASE proto = "udp"
  <2> DEFINE a == SubSeq(s, 3, 2)
             b == From(s, 4)
             k == PortsKept(m, s)
  <2>1. CompressL4(m, proto, s) = (k \o a) \o b
    BY <1>3 DEF CompressL4, PortsKept
  <2>2. a = <<>>
    BY <1>1
  <2>3. b \in Seq(U) /\ Len(b) = Len(s) - 3 /\ \A i \in 1 .. Len(s) - 3 : b[i] = s[i + 3]
    BY <1>1 DEF From
  <2>4. k \in Seq(U)
    BY <1>1
  <2> HIDE DEF a, b, k
  <2>5. (k \o a) \o b = k \o b
    BY <2>2, <2>3, <2>4
  <2> QED BY <1>3, <2>1, <2>3, <2>5 DEF k, IsRest
<1> QED BY <1>2, <1>3

\* A checksum covers what surrounds it, not itself.
LEMMA ChecksumCovers ==
    ASSUME NEW src, NEW dst, NEW x, NEW y, Len(x) = Len(y),
           \A i \in 1 .. Len(x) : i # 4 => x[i] = y[i]
    PROVE  L4Of(src, dst, "tcp", x) = L4Of(src, dst, "tcp", y)
<1>1. CsumAt("tcp") = 4
  BY DEF CsumAt
<1> DEFINE f(z) == [i \in 1 .. Len(z) |-> IF i = 4 THEN <<"csum", 0>> ELSE z[i]]
<1>2. f(x) = f(y)
  OBVIOUS
<1>3. L4Of(src, dst, "tcp", x) = <<src, dst, "tcp", f(x)>>
  BY <1>1 DEF L4Of
<1>4. L4Of(src, dst, "tcp", y) = <<src, dst, "tcp", f(y)>>
  BY <1>1 DEF L4Of
<1> HIDE DEF f
<1> QED BY <1>2, <1>3, <1>4

\* expand_tcp and expand_udp put back what compress_tcp and compress_udp left out.
LEMMA SegmentRoundTrip ==
    ASSUME NEW U, NEW s \in Seq(U), Len(s) >= 4, NEW m \in Modes,
           NEW c, c.proto \in {"tcp", "udp"},
           m.sport => s[1] = <<"port", c.sport>>,
           m.dport => s[2] = <<"port", c.dport>>,
           c.proto = "tcp" => s[4] = <<"csum", Sum(L4Of(c.src, c.dst, c.proto, s))>>,
           c.proto = "udp" => s[3] = <<"len", Len(s)>>
    PROVE  ExpandL4(m, c, CompressL4(m, c.proto, s)) = s
<1> DEFINE q == CompressL4(m, c.proto, s)
           k == PortsKept(m, s)
           n == KeptCount(m)
           sport == IF m.sport THEN <<"port", c.sport>> ELSE q[1]
           dport == IF m.dport THEN <<"port", c.dport>> ELSE q[n]
<1>1. PICK r \in Seq(U) :
         q = k \o r /\ IsRest(c.proto, s, r)
  BY CompressedSegment
<1>0. /\ Len(r) = Len(s) - 3
      /\ c.proto = "tcp" => r[1] = s[3] /\ \A i \in 2 .. Len(r) : r[i] = s[i + 3]
      /\ c.proto = "udp" => \A i \in 1 .. Len(r) : r[i] = s[i + 3]
  BY <1>1 DEF IsRest
<1>2. /\ k \in Seq(U) /\ Len(k) = n /\ n \in 0 .. 2
      /\ ~m.sport => k[1] = s[1] /\ n >= 1
      /\ ~m.dport => k[n] = s[2] /\ n >= 1
  BY PortsKeptResult DEF KeptCount
<1>3. Len(s) \in Nat /\ Len(r) \in Nat
  BY <1>1
<1>4. ExpandL4(m, c, q) =
        LET rr == From(q, n + 1)
            tcp == <<sport, dport, rr[1], <<"csum", 0>>>> \o From(rr, 2)
        IN CASE c.proto = "tcp" ->
                  [tcp EXCEPT ![4] = <<"csum", Sum(L4Of(c.src, c.dst, c.proto, tcp))>>]
             [] c.proto = "udp" -> <<sport, dport, <<"len", Len(rr) + 3>>>> \o rr
             [] OTHER -> q
  BY DEF ExpandL4, KeptCount
<1> HIDE DEF q, k, n
<1>5. From(q, n + 1) = r
  <2>1. From(k \o r, Len(k) + 1) = r
    BY <1>0, <1>1, <1>2, FromConcat
  <2> QED BY <1>0, <1>1, <1>2, <2>1
<1>6. \A i \in 1 .. n : q[i] = k[i]
  BY <1>0, <1>1, <1>2
<1>7. sport = s[1] /\ dport = s[2]
  <2>1. ~m.sport => q[1] = k[1]
    BY <1>2, <1>6
  <2>2. ~m.dport => q[n] = k[n]
    BY <1>2, <1>6
  <2> QED BY <1>2, <2>1, <2>2
<1>8. CASE c.proto = "tcp"
  <2> DEFINE V == U \cup {<<"csum", 0>>}
             h == <<s[1], s[2], s[3], <<"csum", 0>>>>
             t == From(r, 2)
             tcp == h \o t
             sum == <<"csum", Sum(L4Of(c.src, c.dst, c.proto, tcp))>>
  <2>1. ExpandL4(m, c, q) = [tcp EXCEPT ![4] = sum]
    BY <1>0, <1>1, <1>4, <1>5, <1>7, <1>8
  <2>2. s[1] \in U /\ s[2] \in U /\ s[3] \in U
    BY <1>3
  <2>3. h \in Seq(V) /\ Len(h) = 4
    BY <2>2
  <2>4. t \in Seq(U) /\ Len(t) = Len(s) - 4 /\ \A i \in 1 .. Len(s) - 4 : t[i] = r[i + 1]
    <3> DEFINE e == 2
    <3>1. e \in Nat /\ e >= 1 /\ e <= Len(r) + 1
      BY <1>0, <1>1, <1>3
    <3>2. /\ Len(r) - e + 1 = Len(s) - 4
          /\ \A i \in 1 .. Len(s) - 4 : i + e - 1 = i + 1
          /\ t = From(r, e)
      BY <1>0, <1>1, <1>3
    <3> HIDE DEF e, t
    <3>3. /\ From(r, e) \in Seq(U) /\ Len(From(r, e)) = Len(r) - e + 1
          /\ \A i \in 1 .. Len(r) - e + 1 : From(r, e)[i] = r[i + e - 1]
      BY <1>0, <1>1, <3>1, FromResult
    <3> QED BY <1>3, <3>2, <3>3
  <2>5. t \in Seq(V)
    BY <2>4
  <2>6. h[1] = s[1] /\ h[2] = s[2] /\ h[3] = s[3]
    OBVIOUS
  <2>7. \A i \in 1 .. Len(s) - 4 : t[i] = s[i + 4]
    <3> SUFFICES ASSUME NEW i \in 1 .. Len(s) - 4 PROVE t[i] = s[i + 4]
      OBVIOUS
    <3>1. i + 1 \in 2 .. Len(r) /\ (i + 1) + 3 = i + 4
      BY <1>0, <1>1, <1>3
    <3>2. r[i + 1] = s[(i + 1) + 3]
      BY <1>0, <1>1, <1>8, <3>1
    <3> QED BY <2>4, <3>1, <3>2
  <2> HIDE DEF V, h, t
  <2>8. /\ tcp \in Seq(V) /\ Len(tcp) = Len(h) + Len(t)
        /\ \A i \in 1 .. Len(h) : tcp[i] = h[i]
        /\ \A i \in 1 .. Len(t) : tcp[Len(h) + i] = t[i]
    <3>1. h \in Seq(V) /\ t \in Seq(V)
      BY <2>3, <2>5
    <3> QED BY ONLY <3>1
  <2> HIDE DEF tcp
  <2>9. Len(tcp) = Len(s) /\ tcp \in [1 .. Len(s) -> V]
    <3>1. Len(tcp) = Len(s)
      BY <1>3, <2>3, <2>4, <2>8
    <3> QED BY <2>8, <3>1
  <2>10. ASSUME NEW i \in 1 .. Len(s), i # 4 PROVE tcp[i] = s[i]
    <3>1. CASE i \in 1 .. 3
      BY <2>3, <2>6, <2>8, <3>1
    <3>2. CASE i > 4
      <4>1. i - 4 \in 1 .. Len(t) /\ Len(h) + (i - 4) = i /\ i - 4 \in 1 .. Len(s) - 4
        BY <1>3, <2>3, <2>4, <3>2
      <4>2. tcp[Len(h) + (i - 4)] = t[i - 4]
        BY <2>8, <4>1
      <4>3. t[i - 4] = s[(i - 4) + 4]
        BY <2>7, <4>1
      <4> QED BY <1>3, <4>1, <4>2, <4>3
    <3> QED BY <1>3, <2>10, <3>1, <3>2
  <2>11. L4Of(c.src, c.dst, c.proto, tcp) = L4Of(c.src, c.dst, c.proto, s)
    BY <1>8, <2>9, <2>10, ChecksumCovers
  <2>12. sum = s[4]
    BY <1>8, <2>11
  <2> HIDE DEF sum
  <2>13. [tcp EXCEPT ![4] = sum] = [i \in 1 .. Len(s) |-> s[i]]
    <3>1. [tcp EXCEPT ![4] = sum] = [i \in 1 .. Len(s) |-> IF i = 4 THEN sum ELSE tcp[i]]
      BY <2>9
    <3>2. \A i \in 1 .. Len(s) : (IF i = 4 THEN sum ELSE tcp[i]) = s[i]
      BY <2>10, <2>12
    <3> QED BY <3>1, <3>2
  <2>14. s = [i \in 1 .. Len(s) |-> s[i]]
    OBVIOUS
  <2> QED BY <2>1, <2>13, <2>14 DEF q
<1>9. CASE c.proto = "udp"
  <2> DEFINE h == <<s[1], s[2], s[3]>>
  <2>1. Len(r) + 3 = Len(s)
    BY <1>0, <1>1, <1>3
  <2>2. ExpandL4(m, c, q) = <<sport, dport, <<"len", Len(r) + 3>>>> \o r
    BY <1>4, <1>5, <1>9
  <2>3. ExpandL4(m, c, q) = h \o r
    BY <1>7, <1>9, <2>1, <2>2
  <2>4. s[1] \in U /\ s[2] \in U /\ s[3] \in U
    BY <1>3
  <2>5. h \in Seq(U) /\ Len(h) = 3 /\ h[1] = s[1] /\ h[2] = s[2] /\ h[3] = s[3]
    BY <2>4
  <2> HIDE DEF h
  <2>6. r \in Seq(U)
    BY <1>1
  <2> DEFINE z == h \o r
  <2>7. /\ z \in Seq(U) /\ Len(z) = Len(h) + Len(r)
        /\ \A i \in 1 .. Len(h) : z[i] = h[i]
        /\ \A i \in 1 .. Len(r) : z[Len(h) + i] = r[i]
    <3>1. h \in Seq(U) /\ r \in Seq(U)
      BY <2>5, <2>6
    <3> QED BY ONLY <3>1
  <2> HIDE DEF z
  <2>8. ASSUME NEW i \in 1 .. Len(s) PROVE z[i] = s[i]
    <3>1. CASE i \in 1 .. 3
      BY <2>5, <2>7, <3>1
    <3>2. CASE i > 3
      <4>1. i - 3 \in 1 .. Len(r) /\ Len(h) + (i - 3) = i
        BY <1>3, <2>1, <2>5, <3>2
      <4>2. z[Len(h) + (i - 3)] = r[i - 3]
        BY <2>7, <4>1
      <4>3. r[i - 3] = s[(i - 3) + 3]
        BY <1>0, <1>1, <1>9, <4>1
      <4> QED BY <1>3, <4>1, <4>2, <4>3
    <3> QED BY <1>3, <2>8, <3>1, <3>2
  <2>9. z = s
    <3>1. Len(z) = Len(s)
      BY <1>3, <2>1, <2>5, <2>7
    <3> QED BY <2>7, <2>8, <3>1
  <2> QED BY <2>3, <2>9 DEF q, z
<1> QED BY <1>8, <1>9

-------------------------------------------------------------------------------
(* Packets that compression may not lose.                                  *)

PlainPacket(p) ==
    /\ p.l3 = "v6" /\ p.proto # "opt" /\ p.ttl > 1
    /\ Classify(p).class = "OK"
    /\ \A i \in 1 .. Len(p.payload) :
          p.payload[i][1] = "csum" => p.payload[i][2][1] # "alias"

FlowOf(p) ==
    [class |-> "OK", l3 |-> "v6", src |-> p.src, dst |-> p.dst, proto |-> p.proto,
     sport |-> p.payload[1][2], dport |-> p.payload[2][2]]

\* What the classifier has seen of such a packet.
LEMMA PlainClassified ==
    ASSUME NEW p \in Inputs, PlainPacket(p)
    PROVE  /\ Classify(p) = FlowOf(p)
           /\ p.frag = "none" /\ p.len = Len(p.payload)
           /\ p.proto \in {"tcp", "udp", "icmp"}
           /\ p.proto \in {"tcp", "udp"} => Len(p.payload) >= 4
           /\ p.proto = "tcp" =>
                 p.payload[4] = <<"csum", Sum(L4Of(p.src, p.dst, p.proto, p.payload))>>
           /\ p.proto = "udp" => p.payload[3] = <<"len", Len(p.payload)>>
<1> DEFINE s == p.payload
           sum == L4Of(p.src, p.dst, p.proto, s)
           t == [class |-> "OK", l3 |-> "v6", src |-> p.src, dst |-> p.dst, proto |-> p.proto,
                 sport |-> 0, dport |-> 0]
           d == ClassifyL4("v6", p.src, p.dst, p.proto, s)
           csum == s[CsumAt(p.proto)][2]
           good == ValidSum(csum, sum)
<1>1. p.l3 = "v6" /\ p.proto # "opt" /\ Classify(p).class = "OK"
  BY DEF PlainPacket
<1>2. Classify(p) = ClassifyIpv6(p)
  BY <1>1 DEF Classify
<1>3. ~(\/ "mapped" \in {p.src, p.dst}
        \/ p.len = 0 /\ p.proto = "opt"
        \/ p.len # Len(s))
  BY <1>1, <1>2 DEF ClassifyIpv6, Err
<1>4. p.frag = "none"
  BY <1>1, <1>2, <1>3 DEF ClassifyIpv6
<1>5. Classify(p) = d
  BY <1>1, <1>2, <1>3, <1>4 DEF ClassifyIpv6, NextHeader
<1>6. d = CASE p.proto = "tcp" ->
                 IF Len(s) < 5 \/ ~good THEN Err
                 ELSE [t EXCEPT !.sport = s[1][2], !.dport = s[2][2]]
            [] p.proto = "udp" ->
                 IF Len(s) < 4 \/ (csum # <<"zero">> /\ ~good) \/ s[3][2] # Len(s) THEN Err
                 ELSE [t EXCEPT !.sport = s[1][2], !.dport = s[2][2]]
            [] p.proto = "icmp" ->
                 IF ~good THEN Err ELSE [t EXCEPT !.sport = s[1][2], !.dport = s[2][2]]
            [] OTHER -> [t EXCEPT !.class = "UnclassifiedL4"]
  BY DEF ClassifyL4
<1>7. [t EXCEPT !.sport = s[1][2], !.dport = s[2][2]] = FlowOf(p)
  <2>1. ASSUME NEW x, NEW y
        PROVE  [t EXCEPT !.sport = x, !.dport = y] =
                  [class |-> "OK", l3 |-> "v6", src |-> p.src, dst |-> p.dst,
                   proto |-> p.proto, sport |-> x, dport |-> y]
    <3> DEFINE u == [t EXCEPT !.sport = x]
    <3>1. u = [class |-> "OK", l3 |-> "v6", src |-> p.src, dst |-> p.dst,
               proto |-> p.proto, sport |-> x, dport |-> 0]
      OBVIOUS
    <3> HIDE DEF u
    <3>2. [u EXCEPT !.dport = y] = [class |-> "OK", l3 |-> "v6", src |-> p.src, dst |-> p.dst,
                                    proto |-> p.proto, sport |-> x, dport |-> y]
      BY <3>1
    <3> QED BY <3>2 DEF u
  <2> QED BY <2>1 DEF FlowOf
<1>8. Err.class # "OK" /\ [t EXCEPT !.class = "UnclassifiedL4"].class # "OK"
  BY DEF Err
<1>9. Len(s) \in Nat
  BY <1>1, FormatAssumption
<1> HIDE DEF d, good, csum, sum, t, s
<1>10. CASE p.proto = "tcp"
  <2>1. ~(Len(s) < 5 \/ ~good)
    BY <1>1, <1>5, <1>6, <1>8, <1>10
  <2>2. Classify(p) = FlowOf(p)
    BY <1>5, <1>6, <1>7, <1>10, <2>1
  <2>3. Len(s) >= 5 /\ good
    BY <1>9, <2>1
  <2>4. Named(s[4], "csum")
    <3>1. Len(p.payload) >= 4
      BY <1>9, <2>3 DEF s
    <3> QED BY <1>1, <1>10, <3>1, FormatAssumption, Zenon DEF s
  <2>5. s[4] = <<"csum", csum>>
    BY <1>10, <2>4 DEF Named, csum, CsumAt
  <2>6. csum[1] # "alias"
    <3>1. 4 \in 1 .. Len(s) /\ s[4][1] = "csum" /\ s[4][2] = csum
      BY <1>9, <2>3, <2>5
    <3> QED BY <3>1 DEF PlainPacket, s
  <2>7. csum = Sum(sum)
    <3>1. <<"alias", sum>>[1] = "alias"
      OBVIOUS
    <3> QED BY <2>3, <2>6, <3>1 DEF good, ValidSum
  <2> QED BY <1>3, <1>4, <1>9, <1>10, <2>2, <2>3, <2>5, <2>7 DEF s, sum
<1>11. CASE p.proto = "udp"
  <2>1. ~(Len(s) < 4 \/ (csum # <<"zero">> /\ ~good) \/ s[3][2] # Len(s))
    BY <1>1, <1>5, <1>6, <1>8, <1>11
  <2>2. Classify(p) = FlowOf(p)
    BY <1>5, <1>6, <1>7, <1>11, <2>1
  <2>3. Len(s) >= 4 /\ s[3][2] = Len(s)
    BY <1>9, <2>1
  <2>4. Named(s[3], "len")
    BY <1>1, <1>9, <1>11, <2>3, FormatAssumption DEF s
  <2>5. s[3] = <<"len", Len(s)>>
    BY <2>3, <2>4 DEF Named
  <2> QED BY <1>3, <1>4, <1>9, <1>11, <2>2, <2>3, <2>5 DEF s
<1>12. CASE p.proto = "icmp"
  <2>1. good
    BY <1>1, <1>5, <1>6, <1>8, <1>12
  <2> QED BY <1>3, <1>4, <1>5, <1>6, <1>7, <1>12, <2>1 DEF s
<1>13. CASE p.proto \notin {"tcp", "udp", "icmp"}
  BY <1>1, <1>5, <1>6, <1>8, <1>13
<1> QED BY <1>10, <1>11, <1>12, <1>13

\* A classifier comes out of the bind message as it went in.
LEMMA ClassifierRoundTrip ==
    ASSUME NEW p, NEW c \in Classifiers(FlowOf(p))
    PROVE  /\ Deserialize(Serialize(c)) = c
           /\ c = [FlowOf(p) EXCEPT !.sport = c.sport, !.dport = c.dport]
           /\ c.sport \in {0, p.payload[1][2]} /\ c.dport \in {0, p.payload[2][2]}
<1> DEFINE x == p.payload[1][2]
           y == p.payload[2][2]
<1>1. PICK a \in {0, x}, b \in {0, y} : c = [FlowOf(p) EXCEPT !.sport = a, !.dport = b]
  BY DEF Classifiers, FlowOf
<1>2. c = [class |-> "OK", l3 |-> "v6", src |-> p.src, dst |-> p.dst, proto |-> p.proto,
           sport |-> a, dport |-> b]
  BY <1>1 DEF FlowOf
<1> HIDE DEF x, y
<1> DEFINE w == Serialize(c)
           ports == (IF a # 0 THEN <<a>> ELSE <<>>) \o (IF b # 0 THEN <<b>> ELSE <<>>)
<1>3. w = [flags |-> [sport |-> a # 0, dport |-> b # 0], l3 |-> "v6", proto |-> p.proto,
           addrs |-> <<p.src, p.dst>>, ports |-> ports]
  BY <1>2 DEF Serialize, CompressionMode
<1>4. (a # 0 => ports[1] = a) /\ (b # 0 => ports[Len(ports)] = b)
  <2>1. CASE a # 0 /\ b # 0
    <3>1. ports = <<a>> \o <<b>>
      BY <2>1
    <3> DEFINE v == <<a>> \o <<b>>
    <3>2. <<a>> \in Seq({a, b}) /\ <<b>> \in Seq({a, b})
      OBVIOUS
    <3>3. Len(v) = 2 /\ v[1] = a /\ v[2] = b
      BY <3>2
    <3> QED BY <3>1, <3>3
  <2>2. CASE a # 0 /\ b = 0
    <3>1. ports = <<a>> \o <<>>
      BY <2>2
    <3>2. <<a>> \o <<>> = <<a>>
      OBVIOUS
    <3> QED BY <2>2, <3>1, <3>2
  <2>3. CASE a = 0 /\ b # 0
    <3>1. ports = <<>> \o <<b>>
      BY <2>3
    <3>2. <<>> \o <<b>> = <<b>>
      OBVIOUS
    <3> QED BY <2>3, <3>1, <3>2
  <2> QED BY <2>1, <2>2, <2>3
<1> HIDE DEF ports, w
<1>5. Deserialize(w) = [class |-> "OK", l3 |-> "v6", proto |-> p.proto, src |-> p.src,
                        dst |-> p.dst, sport |-> IF a # 0 THEN ports[1] ELSE 0,
                        dport |-> IF b # 0 THEN ports[Len(ports)] ELSE 0]
  BY <1>3 DEF Deserialize
<1>6. Deserialize(w) = c
  BY <1>2, <1>4, <1>5
<1>7. c.sport = a /\ c.dport = b
  BY <1>2
<1> QED BY <1>1, <1>6, <1>7 DEF w, x, y

\* The ports a mode leaves out are those of the classifier.
LEMMA ModeOf ==
    ASSUME NEW c
    PROVE  /\ CompressionMode(c) \in Modes
           /\ CompressionMode(c).sport <=> c.sport # 0
           /\ CompressionMode(c).dport <=> c.dport # 0
  BY DEF CompressionMode, Modes

\* The segment of such a packet comes back as it was, under every classifier of its flow.
LEMMA PlainSegment ==
    ASSUME NEW p \in Inputs, PlainPacket(p), NEW c \in Classifiers(FlowOf(p))
    PROVE  ExpandL4(CompressionMode(c), c, CompressL4(CompressionMode(c), p.proto, p.payload))
             = p.payload
<1> DEFINE s == p.payload
           m == CompressionMode(c)
           U == {s[i] : i \in DOMAIN s}
<1>1. /\ c = [FlowOf(p) EXCEPT !.sport = c.sport, !.dport = c.dport]
      /\ c.sport \in {0, s[1][2]} /\ c.dport \in {0, s[2][2]}
  BY ClassifierRoundTrip
<1>2. c.src = p.src /\ c.dst = p.dst /\ c.proto = p.proto
  BY <1>1 DEF FlowOf
<1>3. /\ m \in Modes /\ (m.sport <=> c.sport # 0) /\ (m.dport <=> c.dport # 0)
  BY ModeOf
<1>4. /\ p.proto \in {"tcp", "udp", "icmp"}
      /\ p.proto \in {"tcp", "udp"} => Len(s) >= 4
      /\ p.proto = "tcp" => s[4] = <<"csum", Sum(L4Of(p.src, p.dst, p.proto, s))>>
      /\ p.proto = "udp" => s[3] = <<"len", Len(s)>>
  BY PlainClassified
<1>5. p.l3 = "v6"
  BY DEF PlainPacket
<1>6. s \in Seq(U)
  BY <1>5, FormatAssumption
<1>7. p.proto \in {"tcp", "udp"} => Named(s[1], "port") /\ Named(s[2], "port")
  BY <1>4, <1>5, FormatAssumption, Zenon
<1> HIDE DEF s, m, U
<1>8. CASE p.proto = "icmp"
  BY <1>2, <1>8 DEF ExpandL4, CompressL4, s
<1>9. CASE p.proto \in {"tcp", "udp"}
  <2>1. m.sport => s[1] = <<"port", c.sport>>
    BY <1>1, <1>3, <1>7, <1>9 DEF Named
  <2>2. m.dport => s[2] = <<"port", c.dport>>
    BY <1>1, <1>3, <1>7, <1>9 DEF Named
  <2>3. c.proto = "tcp" => s[4] = <<"csum", Sum(L4Of(c.src, c.dst, c.proto, s))>>
    BY <1>2, <1>4
  <2>4. c.proto = "udp" => s[3] = <<"len", Len(s)>>
    BY <1>2, <1>4
  <2>5. c.proto \in {"tcp", "udp"} /\ Len(s) >= 4
    BY <1>2, <1>4, <1>9
  <2>6. ExpandL4(m, c, CompressL4(m, c.proto, s)) = s
    BY ONLY <1>3, <1>6, <2>1, <2>2, <2>3, <2>4, <2>5, SegmentRoundTrip
  <2> QED BY <1>2, <2>6 DEF m, s
<1> QED BY <1>4, <1>8, <1>9

Older(p) == [p EXCEPT !.ttl = @ - 1]

\* compress() and expand() are inverse on such a packet, whichever ports its visa names.
LEMMA PlainRoundTrip ==
    ASSUME NEW p \in Inputs, PlainPacket(p), NEW c \in Classifiers(FlowOf(p))
    PROVE  Expand(CompressionMode(c), c, Compress(CompressionMode(c), FlowOf(p), Older(p)))
             = Older(p)
<1> DEFINE m == CompressionMode(c)
           q == Compress(m, FlowOf(p), Older(p))
           s == p.payload
<1>1. p.l3 = "v6"
  BY DEF PlainPacket
<1>2. p = [l3 |-> "v6", hl |-> p.hl, len |-> p.len, flags |-> p.flags, frag |-> p.frag,
           ttl |-> p.ttl, proto |-> p.proto, src |-> p.src, dst |-> p.dst,
           csum |-> <<"none">>, payload |-> p.payload]
  BY <1>1, FormatAssumption, Zenon
<1>3. Older(p) = [l3 |-> "v6", hl |-> p.hl, len |-> p.len, flags |-> p.flags, frag |-> p.frag,
                  ttl |-> p.ttl - 1, proto |-> p.proto, src |-> p.src, dst |-> p.dst,
                  csum |-> <<"none">>, payload |-> p.payload]
  <2>1. ASSUME NEW hl, NEW len, NEW flags, NEW frag, NEW ttl, NEW proto, NEW src, NEW dst,
               NEW csum, NEW payload,
               p = [l3 |-> "v6", hl |-> hl, len |-> len, flags |-> flags, frag |-> frag,
                    ttl |-> ttl, proto |-> proto, src |-> src, dst |-> dst,
                    csum |-> csum, payload |-> payload]
        PROVE  Older(p) = [l3 |-> "v6", hl |-> hl, len |-> len, flags |-> flags, frag |-> frag,
                           ttl |-> ttl - 1, proto |-> proto, src |-> src, dst |-> dst,
                           csum |-> csum, payload |-> payload]
    BY ONLY <2>1 DEF Older
  <2> QED BY <1>2, <2>1
<1>4. FlowOf(p).proto = p.proto
  BY DEF FlowOf
<1>5. q = [hl |-> p.hl, flags |-> p.flags, ttl |-> p.ttl - 1, rest |-> CompressL4(m, p.proto, s)]
  BY <1>3, <1>4 DEF Compress
<1>6. ExpandL4(m, c, CompressL4(m, p.proto, s)) = s
  BY PlainSegment
<1>7. /\ c.l3 = "v6" /\ c.proto = p.proto /\ c.src = p.src /\ c.dst = p.dst
  <2>1. c = [FlowOf(p) EXCEPT !.sport = c.sport, !.dport = c.dport]
    BY ClassifierRoundTrip
  <2> QED BY <2>1 DEF FlowOf
<1>8. p.frag = "none" /\ p.len = Len(s)
  BY PlainClassified
<1> HIDE DEF m, q, s
<1>9. ExpandL4(m, c, q.rest) = s /\ q.hl = p.hl /\ q.flags = p.flags /\ q.ttl = p.ttl - 1
  BY <1>5, <1>6
<1>10. Expand(m, c, q) =
          [l3 |-> c.l3, hl |-> q.hl, len |-> Len(s), flags |-> q.flags, frag |-> "none",
           ttl |-> q.ttl, proto |-> c.proto, src |-> c.src, dst |-> c.dst,
           csum |-> <<"none">>, payload |-> s]
  <2>1. c.l3 # "v4"
    BY <1>7
  <2> QED BY <1>9, <2>1 DEF Expand
<1>11. Expand(m, c, q) = Older(p)
  BY <1>3, <1>7, <1>8, <1>9, <1>10 DEF s
<1> QED BY <1>11 DEF m, q

\* Inductive, with BufferInv and IntactInv: where such a packet is, what its metadata and
\* its visa say of it, and what travels.
PlainInv ==
    /\ orig \in Inputs
    /\ PlainPacket(orig) /\ Associated /\ Short =>
          /\ stage \in {"actor", "classified", "bound", "wire", "wire2", "delivered"}
          /\ stage \in {"classified", "bound", "wire", "wire2"} => ft = FlowOf(orig)
          /\ stage \in {"bound", "wire", "wire2"} => tc \in Classifiers(FlowOf(orig))
          /\ stage \in {"wire", "wire2"} =>
                body = Compress(CompressionMode(tc), FlowOf(orig), Older(orig))

LEMMA TransitPasses ==
    ASSUME NEW sa, sa # 0
    PROVE  Opens("transit", Seal("transit", sa), sa)
<1>1. Seal("transit", sa) = <<"hmac", sa>>
  BY DEF Seal
<1>2. <<"hmac", sa>>[1] = "hmac"
  OBVIOUS
<1> QED BY <1>1, <1>2 DEF Opens, Decrypts

LEMMA PlainInit == Init => PlainInv
  BY DEF Init, PlainInv, PlainPacket

LEMMA PlainNext == (Short => BufferInv) /\ IntactInv /\ PlainInv /\ [Next]_vars => PlainInv'
<1> SUFFICES ASSUME Short => BufferInv, IntactInv, PlainInv, [Next]_vars PROVE PlainInv'
  OBVIOUS
<1>0. orig' = orig /\ links' = links
  BY DEF Next, vars, ActorOutput, Bound, Encapsulate, Forward, ActorInput, MgmtOutput,
         MgmtEgress, MgmtIngress, Drop
<1>1. orig \in Inputs /\ orig' \in Inputs
  BY <1>0 DEF PlainInv
<1>2. CASE ~(PlainPacket(orig) /\ Associated /\ Short)
  <2>1. ~(PlainPacket(orig') /\ Associated' /\ Short')
    BY <1>0, <1>2, ShortStays DEF Associated
  <2> QED BY <1>1, <2>1 DEF PlainInv
<1>3. CASE PlainPacket(orig) /\ Associated /\ Short
  <2>1. /\ stage \in {"actor", "classified", "bound", "wire", "wire2", "delivered"}
        /\ stage \in {"classified", "bound", "wire", "wire2"} => ft = FlowOf(orig)
        /\ stage \in {"bound", "wire", "wire2"} => tc \in Classifiers(FlowOf(orig))
        /\ stage \in {"wire", "wire2"} =>
              body = Compress(CompressionMode(tc), FlowOf(orig), Older(orig))
    BY <1>3 DEF PlainInv
  <2>2. orig.ttl \in Nat /\ orig.ttl > 1 /\ Classify(orig).class = "OK" /\ orig.l3 = "v6"
    BY <1>1, <1>3, InputAssumption DEF PlainPacket
  <2>3. Classify(orig) = FlowOf(orig) /\ FlowOf(orig).class = "OK"
    BY <1>1, <1>3, PlainClassified DEF FlowOf
  <2> DEFINE P(st, f, t, b) ==
               /\ st \in {"actor", "classified", "bound", "wire", "wire2", "delivered"}
               /\ st \in {"classified", "bound", "wire", "wire2"} => f = FlowOf(orig)
               /\ st \in {"bound", "wire", "wire2"} => t \in Classifiers(FlowOf(orig))
               /\ st \in {"wire", "wire2"} =>
                     b = Compress(CompressionMode(t), FlowOf(orig), Older(orig))
  <2> SUFFICES P(stage', ft', tc', body')
    BY <1>0, <1>1 DEF PlainInv
  <2>4. CASE ActorOutput
    <3>1. stage = "actor" /\ body = orig
      BY <2>4 DEF At, ActorOutput, IntactInv
    <3> DEFINE p == DecrementTtl(body)
    <3>2. p.ttl = orig.ttl - 1
      <4>1. p = Older(orig)
        BY <2>2, <3>1 DEF DecrementTtl, Older
      <4>2. orig = [l3 |-> "v6", hl |-> orig.hl, len |-> orig.len, flags |-> orig.flags,
                    frag |-> orig.frag, ttl |-> orig.ttl, proto |-> orig.proto,
                    src |-> orig.src, dst |-> orig.dst, csum |-> <<"none">>,
                    payload |-> orig.payload]
        BY <1>1, <2>2, FormatAssumption, Zenon
      <4>3. "ttl" \in DOMAIN orig
        BY <4>2
      <4> QED BY <4>1, <4>3 DEF Older
    <3>3. p.ttl # 0
      BY <2>2, <3>2
    <3>4. Accepted(body)
      BY <2>2, <3>1 DEF Accepted
    <3>5. stage' = "classified" /\ ft' = Classify(body)
      BY <2>4, <3>3, <3>4 DEF At, ActorOutput
    <3> QED BY <2>3, <3>1, <3>5
  <2>5. CASE Bound
    <3>1. stage = "classified" /\ ft = FlowOf(orig)
      BY <2>1, <2>5 DEF At, Bound
    <3>2. PICK c \in Classifiers(ft) :
             /\ tc' = Deserialize(Serialize(c))
             /\ stage' = IF Matches(tc', ft) THEN "bound" ELSE "dropped"
      BY <2>3, <2>5, <3>1 DEF At, Bound
    <3>3. ft' = ft
      BY <2>3, <2>5, <3>1 DEF At, Bound
    <3>4. c \in Classifiers(FlowOf(orig))
      BY <3>1, <3>2
    <3>5. /\ Deserialize(Serialize(c)) = c
          /\ c = [FlowOf(orig) EXCEPT !.sport = c.sport, !.dport = c.dport]
          /\ c.sport \in {0, orig.payload[1][2]} /\ c.dport \in {0, orig.payload[2][2]}
      BY <3>4, ClassifierRoundTrip
    <3>6. Matches(c, FlowOf(orig))
      <4>1. /\ c.l3 = FlowOf(orig).l3 /\ c.src = FlowOf(orig).src /\ c.dst = FlowOf(orig).dst
            /\ c.proto = FlowOf(orig).proto
        BY <3>5 DEF FlowOf
      <4>2. /\ FlowOf(orig).sport = orig.payload[1][2]
            /\ FlowOf(orig).dport = orig.payload[2][2]
        BY DEF FlowOf
      <4> QED BY <3>5, <4>1, <4>2 DEF Matches
    <3>7. stage' = "bound" /\ tc' = c
      BY <3>1, <3>2, <3>5, <3>6
    <3> QED BY <3>1, <3>3, <3>4, <3>7
  <2>6. CASE Encapsulate
    <3>1. stage = "bound" /\ body = OneHopOlder
      BY <2>6 DEF At, Encapsulate, IntactInv
    <3>2. /\ stage' = "wire" /\ ft' = ft /\ tc' = tc
          /\ body' = Compress(CompressionMode(tc), ft, body)
      BY <2>6 DEF At, Encapsulate
    <3>3. OneHopOlder = Older(orig)
      BY DEF OneHopOlder, Older
    <3> QED BY <2>1, <3>1, <3>2, <3>3
  <2>7. CASE Forward
    <3>1. stage = "wire" /\ ~Truncated(buf) /\ zpi = Seal("transit", links[1])
      BY <1>3, <2>7 DEF At, Forward, BufferInv, IntactInv
    <3>2. links[2] = links[1] /\ links[1] # 0
      BY <1>3 DEF Associated
    <3>3. Opens("transit", zpi, links[2])
      BY <3>1, <3>2, TransitPasses
    <3>4. stage' = "wire2" /\ UNCHANGED <<ft, tc, body>>
      BY <2>7, <3>1, <3>3 DEF At, Forward
    <3> QED BY <2>1, <3>1, <3>4
  <2>8. CASE ActorInput
    <3>1. stage = "wire2" /\ ~Truncated(buf) /\ zpi = Seal("transit", links[3]) /\ micv = OneHopOlder
      BY <1>3, <2>8 DEF At, ActorInput, BufferInv, IntactInv
    <3>2. links[4] = links[3] /\ links[3] # 0
      BY <1>3 DEF Associated
    <3>3. Opens("transit", zpi, links[4])
      BY <3>1, <3>2, TransitPasses
    <3> DEFINE p == Expand(CompressionMode(tc), tc, body)
    <3>4. p = Older(orig)
      BY <1>1, <1>3, <2>1, <3>1, PlainRoundTrip
    <3>5. MicvOk(p)
      BY <3>1, <3>4 DEF MicvOk, OneHopOlder, Older
    <3>6. stage' = "delivered"
      BY <2>8, <3>1, <3>3, <3>5 DEF At, ActorInput
    <3> QED BY <3>6
  <2>9. CASE MgmtOutput \/ MgmtEgress \/ MgmtIngress
    BY <2>1, <2>9 DEF At, MgmtOutput, MgmtEgress, MgmtIngress
  <2>10. CASE UNCHANGED vars
    BY <2>1, <2>10 DEF vars
  <2> HIDE DEF P
  <2> QED BY <2>4, <2>5, <2>6, <2>7, <2>8, <2>9, <2>10 DEF Next
<1> QED BY <1>2, <1>3

\* An IPv6 packet without extension headers that the classifier accepts, and that leaves
\* room in its buffer for the integrity values, is not lost between
\* adapters that share associations with the node: the classifier of its visa survives the
\* bind messages, expansion undoes compression, the integrity value agrees, and no link cuts
\* the packet off; for every such packet, whatever it carries and whichever ports its visa
\* names.
THEOREM PlainPacketsSurvive == Spec => []PlainPacketsArrive
<1>1. PlainInv => PlainPacketsArrive
  BY DEF PlainInv, PlainPacketsArrive, PlainPacket, Short
<1> DEFINE Inv == (Short => BufferInv) /\ IntactInv /\ PlainInv
<1>2. Init => Inv
  BY BufferInvInit, IntactInit, PlainInit
<1>3. Inv /\ [Next]_vars => Inv'
  BY BufferInvNext, ShortStays, IntactNext, PlainNext
<1>4. Inv => PlainInv
  OBVIOUS
<1> HIDE DEF Inv
<1> QED
  BY <1>1, <1>2, <1>3, <1>4, PTL DEF Spec

-------------------------------------------------------------------------------
(* Key management.                                                         *)

KmStates == {"Configuring", "Transport", "Error"}

Keys == Seq(Nat)

Kms == [run : BOOLEAN, set : BOOLEAN, cancel : BOOLEAN, st : KmStates, prev : KmStates,
        mid : BOOLEAN, nr : 0 .. 2, t : Keys, timed : BOOLEAN, restart : BOOLEAN,
        signaled : BOOLEAN]

Signals == [sig : {"SaEstablished", "Error", "Termination"}, sa : Keys]

Msgs == [to : End, nr : 0 .. 2, t : Keys \ {<<>>}]

\* What a key manager keeps to: a change of state is what calls for the second half
\* of a turn, and a running one has keys.
KmSound(k) ==
    /\ k \in Kms
    /\ k.mid = (k.st # k.prev)
    /\ k.run => k.t # <<>>

\* Type invariant.
KmTypeOK ==
    /\ link \in [End -> [up : BOOLEAN, sa : Keys, drop : BOOLEAN]]
    /\ km \in [End -> Kms] /\ \A e \in End : KmSound(km[e])
    /\ sigq \in [End -> Seq(Signals)]
    /\ errs \in [End -> [count : 0 .. 1, fresh : BOOLEAN]]
    /\ net \subseteq Msgs
    /\ eph \in Nat /\ starts \in Nat /\ faults \in Nat

-------------------------------------------------------------------------------
(* The steps of a key manager.                                             *)

LEMMA EndIs == /\ "a" \in End /\ "n" \in End
               /\ \A e \in End : Other(e) \in End
BY DEF End, Other

LEMMA ResetIs ==
    ASSUME NEW e \in End, NEW k \in Kms, eph \in Nat
    PROVE  /\ Reset(e, k) \in Kms /\ Reset(e, k).st = "Configuring" /\ Reset(e, k).t # <<>>
           /\ Reset(e, k).prev = k.prev /\ Reset(e, k).mid = k.mid /\ Reset(e, k).run = k.run
           /\ ResetMsgs(e) \subseteq Msgs
<1>1. <<eph + 1>> \in Keys /\ <<eph + 1>> # <<>>
  BY DEF Keys
<1>2. Initiates(e) \in BOOLEAN /\ "Configuring" \in KmStates
  BY DEF Initiates, KmStates
<1>3. Other(e) \in End
  BY EndIs
<1>4. ResetMsgs(e) \subseteq Msgs
  BY <1>1, <1>3 DEF ResetMsgs, Msg, Msgs
<1>5. (IF Initiates(e) THEN 1 ELSE 0) \in 0 .. 2
  OBVIOUS
<1> DEFINE n == IF Initiates(e) THEN 1 ELSE 0
           w == <<eph + 1>>
           i == Initiates(e)
<1> HIDE DEF n, w, i
<1>6. Reset(e, k) = [k EXCEPT !.st = "Configuring", !.nr = n, !.t = w, !.timed = i]
  BY DEF Reset, n, w, i
<1>7. n \in 0 .. 2 /\ w \in Keys /\ w # <<>> /\ i \in BOOLEAN
  BY <1>1, <1>2, <1>5 DEF n, w, i
<1> QED BY <1>2, <1>4, <1>6, <1>7 DEF Kms

LEMMA NewKmIs ==
    ASSUME NEW e \in End, eph \in Nat
    PROVE  /\ KmSound(NewKm(e)) /\ NewKm(e).st = "Configuring" /\ NewKm(e).t # <<>>
           /\ NewKm(e).prev = "Configuring" /\ ~NewKm(e).mid
           /\ ResetMsgs(e) \subseteq Msgs
<1> DEFINE k == [NoKm EXCEPT !.run = TRUE, !.set = TRUE]
<1>1. k \in Kms /\ k.prev = "Configuring" /\ ~k.mid /\ k.run
  <2>1. "Configuring" \in KmStates /\ <<>> \in Keys
    BY DEF KmStates, Keys
  <2>2. NoKm \in Kms /\ NoKm.prev = "Configuring" /\ ~NoKm.mid
    BY <2>1 DEF NoKm, Kms
  <2> QED BY <2>2 DEF Kms
<1>2. NewKm(e) = Reset(e, k)
  BY DEF NewKm
<1> HIDE DEF k
<1>3. /\ NewKm(e) \in Kms /\ NewKm(e).st = "Configuring" /\ NewKm(e).t # <<>>
      /\ NewKm(e).prev = "Configuring" /\ ~NewKm(e).mid
      /\ ResetMsgs(e) \subseteq Msgs
  BY <1>1, <1>2, ResetIs
<1>4. NewKm(e).mid = (NewKm(e).st # NewKm(e).prev)
  BY <1>3 DEF Kms
<1> QED BY <1>3, <1>4 DEF KmSound

LEMMA FailIs ==
    ASSUME NEW k \in Kms
    PROVE  /\ Fail(k) \in Kms /\ Fail(k).st = "Error" /\ Fail(k).t = k.t
           /\ Fail(k).prev = k.prev /\ Fail(k).run = k.run
BY DEF Fail, Kms, KmStates

LEMMA FirstIs ==
    ASSUME NEW k \in Kms, k.t # <<>>, NEW m \in Msgs
    PROVE  /\ First(k, m) \in Kms /\ First(k, m).st = k.st /\ First(k, m).t # <<>>
           /\ First(k, m).prev = k.prev /\ First(k, m).run = k.run /\ First(k, m).mid = k.mid
           /\ Msg("a", 1, First(k, m).t) \in Msgs
<1> DEFINE w == <<FirstKey(m), k.t[1]>>
<1>1. k.t[1] \in Nat /\ m.t[1] \in Nat
  BY DEF Kms, Msgs, Keys
<1>2. w \in Keys /\ w # <<>>
  BY <1>1 DEF FirstKey, Keys
<1>3. First(k, m) = [k EXCEPT !.nr = 2, !.t = w, !.timed = TRUE]
  BY DEF First
<1> HIDE DEF w
<1>4. /\ First(k, m) \in Kms /\ First(k, m).st = k.st /\ First(k, m).t = w
      /\ First(k, m).prev = k.prev /\ First(k, m).run = k.run /\ First(k, m).mid = k.mid
  <2>1. 2 \in 0 .. 2
    OBVIOUS
  <2>2. [k EXCEPT !.nr = 2] \in Kms
    BY <2>1 DEF Kms
  <2> QED BY <1>2, <1>3, <2>1, <2>2 DEF Kms
<1> QED BY <1>2, <1>4 DEF Msg, Msgs, End

LEMMA ToTransportIs ==
    ASSUME NEW k \in Kms, NEW w \in Keys
    PROVE  /\ ToTransport(k, w) \in Kms /\ ToTransport(k, w).st = "Transport"
           /\ ToTransport(k, w).t = w
           /\ ToTransport(k, w).prev = k.prev /\ ToTransport(k, w).run = k.run
BY DEF ToTransport, Kms, KmStates

\* A turn leaves a key manager in order, and in transport only if the signals are
\* still to be sent or nothing changed.
LEMMA TurnIs ==
    ASSUME KmTypeOK, NEW e \in End, NEW k \in Kms, k.run => k.t # <<>>, Turn(e, k)
    PROVE  /\ km' \in [End -> Kms] /\ \A x \in End : KmSound(km'[x])
           /\ km'[e].st = k.st /\ km'[e].mid = (k.st # k.prev)
           /\ \A x \in End : x # e => km'[x] = km[x]
<1> DEFINE q == [k EXCEPT !.mid = k.st # k.prev]
<1>1. /\ q \in Kms /\ q.st = k.st /\ q.mid = (k.st # k.prev) /\ q.prev = k.prev
      /\ q.run = k.run /\ q.t = k.t
  <2>1. (k.st # k.prev) \in BOOLEAN
    OBVIOUS
  <2> QED BY <2>1 DEF Kms
<1>2. km' = [km EXCEPT ![e] = q]
  BY DEF Turn
<1>3. KmSound(q)
  BY <1>1 DEF KmSound
<1> HIDE DEF q
<1>4. km' \in [End -> Kms] /\ km'[e] = q /\ \A x \in End : x # e => km'[x] = km[x]
  BY <1>1, <1>2 DEF KmTypeOK
<1> QED BY <1>1, <1>3, <1>4 DEF KmTypeOK

-------------------------------------------------------------------------------
(* Whose keys the link will hold.                                          *)

\* The key manager of a link that is up has made its keys, and has said so.
Keyed(l, k) == l.up /\ k.run /\ k.set /\ k.st = "Transport" /\ ~k.mid

\* No association is on its way; the last one on its way is made of keys t.
NoneComing(q) == \A i \in 1 .. Len(q) : q[i].sig # "SaEstablished"

LastComing(q, t) ==
    \E i \in 1 .. Len(q) :
        /\ q[i].sig = "SaEstablished" /\ q[i].sa = t
        /\ \A j \in 1 .. Len(q) : j > i => q[j].sig # "SaEstablished"

WillHold(q, sa, t) == (NoneComing(q) /\ sa = t) \/ LastComing(q, t)

\* Inductive: the last association the signal worker will have set is the one of
\* the present key manager.
KeysInv == \A e \in End : Keyed(link[e], km[e]) => WillHold(sigq[e], link[e].sa, km[e].t)

LEMMA LastAppended ==
    ASSUME NEW q \in Seq(Signals), NEW t, NEW s \in Signals, s.sig = "SaEstablished", s.sa = t
    PROVE  LastComing(Append(q, s), t)
<1>1. Len(Append(q, s)) = Len(q) + 1 /\ Append(q, s)[Len(q) + 1] = s /\ Len(q) \in Nat
  OBVIOUS
<1>2. Len(q) + 1 \in 1 .. Len(Append(q, s))
  BY <1>1
<1>3. \A j \in 1 .. Len(Append(q, s)) : ~(j > Len(q) + 1)
  BY <1>1
<1> QED BY <1>1, <1>2, <1>3 DEF LastComing

\* The signal worker takes the first signal.
LEMMA TakenKeeps ==
    ASSUME NEW q \in Seq(Signals), q # <<>>, NEW sa, NEW t, WillHold(q, sa, t), NEW new,
           new = IF Head(q).sig = "SaEstablished" THEN Head(q).sa ELSE sa
    PROVE  WillHold(Tail(q), new, t)
<1>1. /\ Len(q) \in Nat /\ Len(q) > 0 /\ Len(Tail(q)) = Len(q) - 1 /\ Head(q) = q[1]
      /\ \A i \in 1 .. Len(q) - 1 : Tail(q)[i] = q[i + 1]
  OBVIOUS
<1>2. CASE NoneComing(q) /\ sa = t
  <2>1. q[1].sig # "SaEstablished"
    BY <1>1, <1>2 DEF NoneComing
  <2>2. NoneComing(Tail(q))
    BY <1>1, <1>2 DEF NoneComing
  <2> QED BY <1>1, <1>2, <2>1, <2>2 DEF WillHold
<1>3. CASE LastComing(q, t)
  <2>1. PICK i \in 1 .. Len(q) :
           /\ q[i].sig = "SaEstablished" /\ q[i].sa = t
           /\ \A j \in 1 .. Len(q) : j > i => q[j].sig # "SaEstablished"
    BY <1>3 DEF LastComing
  <2>2. CASE i = 1
    <3>1. new = t
      BY <1>1, <2>1, <2>2
    <3>2. NoneComing(Tail(q))
      BY <1>1, <2>1, <2>2 DEF NoneComing
    <3> QED BY <3>1, <3>2 DEF WillHold
  <2>3. CASE i # 1
    <3>1. i - 1 \in 1 .. Len(Tail(q)) /\ Tail(q)[i - 1] = q[i]
      BY <1>1, <2>3
    <3>2. \A j \in 1 .. Len(Tail(q)) : j > i - 1 => Tail(q)[j].sig # "SaEstablished"
      BY <1>1, <2>1
    <3>3. LastComing(Tail(q), t)
      BY <2>1, <3>1, <3>2 DEF LastComing
    <3> QED BY <3>3 DEF WillHold
  <2> QED BY <2>2, <2>3
<1> QED BY <1>2, <1>3 DEF WillHold

\* Steps of one end after which it is not keyed, and which leave the other alone.
LEMMA OtherKeyed ==
    ASSUME KeysInv, NEW e \in End, ~Keyed(link'[e], km'[e]),
           \A x \in End : x # e => /\ km'[x] = km[x] /\ link'[x] = link[x]
                                   /\ sigq'[x] = sigq[x]
    PROVE  KeysInv'
BY DEF KeysInv

LEMMA AStartStep ==
    ASSUME KmTypeOK, KeysInv, AStart PROVE KmTypeOK' /\ KeysInv'
<1>1. "a" \in End /\ eph \in Nat /\ starts \in Nat
  BY EndIs DEF KmTypeOK
<1>2. KmSound(NewKm("a")) /\ NewKm("a").st = "Configuring" /\ ResetMsgs("a") \subseteq Msgs
  BY <1>1, NewKmIs
<1>3. /\ km' = [km EXCEPT !["a"] = NewKm("a")] /\ eph' = eph + 1
      /\ net' = net \cup ResetMsgs("a") /\ starts' = starts + 1
      /\ UNCHANGED <<link, sigq, errs, faults>>
  BY DEF AStart
<1>4. NewKm("a") \in Kms
  BY <1>2 DEF KmSound
<1>5. /\ km' \in [End -> Kms] /\ km'["a"] = NewKm("a")
      /\ \A x \in End : x # "a" => km'[x] = km[x]
  BY <1>1, <1>3, <1>4 DEF KmTypeOK
<1>6. \A x \in End : KmSound(km'[x])
  BY <1>2, <1>5 DEF KmTypeOK
<1>7. KmTypeOK'
  BY <1>1, <1>2, <1>3, <1>5, <1>6 DEF KmTypeOK
<1>8. ~Keyed(link'["a"], km'["a"])
  BY <1>2, <1>5 DEF Keyed
<1> QED BY <1>1, <1>3, <1>5, <1>7, <1>8, OtherKeyed

LEMMA NCreateStep ==
    ASSUME KmTypeOK, KeysInv, NEW m \in net, NCreate(m) PROVE KmTypeOK' /\ KeysInv'
<1>1. "n" \in End /\ eph \in Nat /\ starts \in Nat /\ m \in Msgs
  BY EndIs DEF KmTypeOK
<1> DEFINE k == NewKm("n")
           q == First(k, m)
<1>2. KmSound(k) /\ k.st = "Configuring" /\ k.t # <<>> /\ k.prev = "Configuring"
  BY <1>1, NewKmIs
<1>3. k \in Kms
  BY <1>2 DEF KmSound
<1> HIDE DEF k
<1>4. /\ q \in Kms /\ q.st = "Configuring" /\ q.t # <<>> /\ q.prev = "Configuring"
      /\ q.mid = k.mid /\ Msg("a", 1, q.t) \in Msgs
  BY <1>1, <1>2, <1>3, FirstIs
<1>5. /\ km' = [km EXCEPT !["n"] = q]
      /\ link' = [link EXCEPT !["n"] = [up |-> TRUE, sa |-> None, drop |-> FALSE]]
      /\ net' = (net \ {m}) \cup {Msg("a", 1, km'["n"].t)} /\ eph' = eph + 1
      /\ starts' = starts + 1
      /\ UNCHANGED <<sigq, errs, faults>>
  BY DEF NCreate, k
<1> HIDE DEF q
<1>6. /\ km' \in [End -> Kms] /\ km'["n"] = q
      /\ \A x \in End : x # "n" => km'[x] = km[x]
  BY <1>1, <1>4, <1>5 DEF KmTypeOK
<1>7. KmSound(q)
  BY <1>2, <1>4 DEF KmSound
<1>8. \A x \in End : KmSound(km'[x])
  BY <1>6, <1>7 DEF KmTypeOK
<1>9. /\ link' \in [End -> [up : BOOLEAN, sa : Keys, drop : BOOLEAN]]
      /\ \A x \in End : x # "n" => link'[x] = link[x]
  BY <1>1, <1>5 DEF KmTypeOK, None, Keys
<1>10. net' \subseteq Msgs
  BY <1>4, <1>5, <1>6 DEF KmTypeOK
<1>11. KmTypeOK'
  BY <1>1, <1>5, <1>6, <1>8, <1>9, <1>10 DEF KmTypeOK
<1>12. ~Keyed(link'["n"], km'["n"])
  BY <1>4, <1>6 DEF Keyed
<1> QED BY <1>1, <1>5, <1>6, <1>9, <1>11, <1>12, OtherKeyed

\* A step that only turns a key manager, from the top of its loop.
LEMMA TurnStep ==
    ASSUME KmTypeOK, KeysInv, NEW e \in End, NEW k \in Kms, k.t # <<>>, Turn(e, k),
           k.st # "Transport" \/ k.prev # "Transport",
           UNCHANGED <<link, sigq, errs>>, net' \subseteq Msgs, eph' \in Nat, starts' \in Nat,
           faults' \in Nat
    PROVE  KmTypeOK' /\ KeysInv'
<1>1. /\ km' \in [End -> Kms] /\ \A x \in End : KmSound(km'[x])
      /\ km'[e].st = k.st /\ km'[e].mid = (k.st # k.prev)
      /\ \A x \in End : x # e => km'[x] = km[x]
  BY TurnIs
<1>2. KmTypeOK'
  BY <1>1 DEF KmTypeOK
<1>3. ~Keyed(link'[e], km'[e])
  BY <1>1 DEF Keyed
<1> QED BY <1>1, <1>2, <1>3, OtherKeyed

\* The top of the loop: what a key manager that runs has there.
LEMMA TopIs ==
    ASSUME KmTypeOK, NEW e \in End, AtTop(e)
    PROVE  /\ km[e] \in Kms /\ km[e].run /\ km[e].t # <<>> /\ km[e].st = km[e].prev
           /\ [km[e] EXCEPT !.timed = FALSE] \in Kms
<1>1. km[e] \in Kms /\ KmSound(km[e])
  BY DEF KmTypeOK
<1> QED BY <1>1 DEF AtTop, KmSound, Kms

LEMMA KmReceiveStep ==
    ASSUME KmTypeOK, KeysInv, NEW e \in End, NEW m \in net, NEW c \in Certs, KmReceive(e, m, c)
    PROVE  KmTypeOK' /\ KeysInv'
<1> DEFINE k == [km[e] EXCEPT !.timed = FALSE]
           fails == faults < MaxFaults /\ faults' = faults + 1 /\ Turn(e, Fail(k)) /\ Answer(m, {})
<1>1. m \in Msgs /\ net \subseteq Msgs /\ faults \in Nat /\ eph \in Nat /\ starts \in Nat
  BY DEF KmTypeOK
<1>2. UNCHANGED <<link, sigq, errs, eph, starts>> /\ AtTop(e)
  BY DEF KmReceive
<1>3. /\ k \in Kms /\ k.run /\ k.t # <<>> /\ k.st = k.prev
  BY <1>2, TopIs DEF Kms
<1>4. IF k.st # "Configuring"
        THEN km' = km /\ Answer(m, {}) /\ UNCHANGED faults
        ELSE \/ /\ Turn(e, First(k, m)) /\ Answer(m, {Msg("a", 1, First(k, m).t)})
                /\ UNCHANGED faults
             \/ fails
             \/ /\ Turn(e, ToTransport(k, m.t))
                /\ Answer(m, IF Initiates(e) THEN {Msg(Other(e), 2, m.t)} ELSE {})
                /\ UNCHANGED faults
  BY DEF KmReceive
<1> HIDE DEF k
<1>5. CASE k.st # "Configuring"
  <2>1. km' = km /\ net' \subseteq Msgs /\ UNCHANGED faults
    BY <1>1, <1>4, <1>5 DEF Answer
  <2> QED BY <1>2, <2>1 DEF KmTypeOK, KeysInv
<1>6. CASE /\ k.st = "Configuring"
           /\ Turn(e, First(k, m)) /\ Answer(m, {Msg("a", 1, First(k, m).t)})
           /\ UNCHANGED faults
  <2> DEFINE q == First(k, m)
  <2>1. q \in Kms /\ q.st = "Configuring" /\ q.t # <<>> /\ Msg("a", 1, q.t) \in Msgs
    BY <1>1, <1>3, <1>6, FirstIs
  <2>2. Turn(e, q) /\ Answer(m, {Msg("a", 1, q.t)})
    BY <1>6
  <2> HIDE DEF q
  <2>3. net' \subseteq Msgs /\ faults' \in Nat
    BY <1>1, <1>6, <2>1, <2>2 DEF Answer
  <2> QED BY <1>1, <1>2, <2>1, <2>2, <2>3, TurnStep
<1>7. CASE k.st = "Configuring" /\ fails
  <2> DEFINE q == Fail(k)
  <2>1. q \in Kms /\ q.st = "Error" /\ q.t # <<>>
    BY <1>3, FailIs
  <2>2. Turn(e, q)
    BY <1>7
  <2>3. net' \subseteq Msgs /\ faults' \in Nat
    BY <1>1, <1>7 DEF Answer
  <2> HIDE DEF q
  <2> QED BY <1>1, <1>2, <2>1, <2>2, <2>3, TurnStep
<1>8. CASE /\ k.st = "Configuring"
           /\ Turn(e, ToTransport(k, m.t))
           /\ Answer(m, IF Initiates(e) THEN {Msg(Other(e), 2, m.t)} ELSE {})
           /\ UNCHANGED faults
  <2> DEFINE q == ToTransport(k, m.t)
  <2>1. m.t \in Keys /\ m.t # <<>>
    BY <1>1 DEF Msgs
  <2>2. q \in Kms /\ q.prev = "Configuring" /\ q.t # <<>>
    BY <1>3, <1>8, <2>1, ToTransportIs
  <2>3. Turn(e, q)
    BY <1>8
  <2> HIDE DEF q
  <2>4. Msg(Other(e), 2, m.t) \in Msgs
    <3>1. Other(e) \in End /\ 2 \in 0 .. 2
      BY EndIs
    <3> QED BY <2>1, <3>1 DEF Msg, Msgs
  <2>5. net' \subseteq Msgs /\ faults' \in Nat
    BY <1>1, <1>8, <2>4 DEF Answer
  <2> QED BY <1>1, <1>2, <2>2, <2>3, <2>5, TurnStep
<1> QED BY <1>4, <1>5, <1>6, <1>7, <1>8

LEMMA KmRestartStep ==
    ASSUME KmTypeOK, KeysInv, NEW e \in End, KmRestart(e) PROVE KmTypeOK' /\ KeysInv'
<1> DEFINE k == [km[e] EXCEPT !.restart = FALSE]
           q == Reset(e, k)
<1>1. AtTop(e) /\ net \subseteq Msgs /\ eph \in Nat /\ starts \in Nat /\ faults \in Nat
  BY DEF KmTypeOK, KmRestart
<1>2. k \in Kms
  BY <1>1, TopIs DEF Kms
<1>3. /\ Turn(e, q) /\ net' = net \cup ResetMsgs(e) /\ eph' = eph + 1
      /\ UNCHANGED <<link, sigq, errs, starts, faults>>
  BY DEF KmRestart
<1> HIDE DEF k
<1>4. q \in Kms /\ q.st = "Configuring" /\ q.t # <<>> /\ ResetMsgs(e) \subseteq Msgs
  BY <1>1, <1>2, ResetIs
<1> HIDE DEF q
<1>5. net' \subseteq Msgs /\ eph' \in Nat
  BY <1>1, <1>3, <1>4
<1> QED BY <1>1, <1>3, <1>4, <1>5, TurnStep

LEMMA KmTimeoutStep ==
    ASSUME KmTypeOK, KeysInv, NEW e \in End, KmTimeout(e) PROVE KmTypeOK' /\ KeysInv'
<1> DEFINE q == Fail(km[e])
<1>1. AtTop(e) /\ net \subseteq Msgs /\ eph \in Nat /\ starts \in Nat /\ faults \in Nat
  BY DEF KmTypeOK, KmTimeout
<1>2. /\ Turn(e, q) /\ faults' = faults + 1
      /\ UNCHANGED <<link, sigq, errs, net, eph, starts>>
  BY DEF KmTimeout
<1>3. q \in Kms /\ q.st = "Error" /\ q.t # <<>>
  BY <1>1, TopIs, FailIs
<1> HIDE DEF q
<1>4. faults' \in Nat
  BY <1>1, <1>2
<1> QED BY <1>1, <1>2, <1>3, <1>4, TurnStep

\* What the second half of a turn signals.
LEMMA SignalsAre ==
    ASSUME NEW k \in Kms,
           NEW out,
           out = CASE k.st = k.prev -> <<>>
                   [] k.st # k.prev /\ k.st = "Transport" -> <<Sig("SaEstablished", k.t)>>
                   [] k.st # k.prev /\ k.st = "Error" /\ ~k.signaled -> <<Sig("Error", None)>>
                   [] OTHER -> <<>>
    PROVE  /\ out \in Seq(Signals)
           /\ k.st # k.prev /\ k.st = "Transport" => out = <<Sig("SaEstablished", k.t)>>
<1>1. Sig("SaEstablished", k.t) \in Signals
  BY DEF Sig, Signals, Kms
<1>2. Sig("Error", None) \in Signals
  <2>1. None \in Keys
    BY DEF None, Keys
  <2> QED BY <2>1 DEF Sig, Signals
<1> DEFINE sa == Sig("SaEstablished", k.t)
           er == Sig("Error", None)
<1>3. sa \in Signals /\ er \in Signals
  BY <1>1, <1>2
<1> HIDE DEF sa, er
<1>4. <<sa>> \in Seq(Signals) /\ <<er>> \in Seq(Signals) /\ <<>> \in Seq(Signals)
  BY <1>3
<1>5. CASE k.st = k.prev
  BY <1>4, <1>5
<1>6. CASE k.st # k.prev /\ k.st = "Transport"
  BY <1>4, <1>6 DEF sa
<1>7. CASE k.st # k.prev /\ k.st = "Error" /\ ~k.signaled
  BY <1>4, <1>7 DEF er
<1>8. CASE k.st # k.prev /\ k.st # "Transport" /\ ~(k.st = "Error" /\ ~k.signaled)
  BY <1>4, <1>8
<1> QED BY <1>5, <1>6, <1>7, <1>8

LEMMA KmTransitionStep ==
    ASSUME KmTypeOK, KeysInv, NEW e \in End, KmTransition(e) PROVE KmTypeOK' /\ KeysInv'
<1> DEFINE k == IF km[e].prev = "Error" /\ km[e].st # "Error"
                  THEN [km[e] EXCEPT !.signaled = FALSE, !.restart = FALSE] ELSE km[e]
           out == CASE k.st = k.prev -> <<>>
                    [] k.st # k.prev /\ k.st = "Transport" -> <<Sig("SaEstablished", k.t)>>
                    [] k.st # k.prev /\ k.st = "Error" /\ ~k.signaled -> <<Sig("Error", None)>>
                    [] OTHER -> <<>>
           q == [k EXCEPT !.mid = FALSE, !.prev = k.st, !.signaled = @ \/ k.st = "Error"]
<1>1. km[e] \in Kms /\ KmSound(km[e]) /\ km[e].run /\ km[e].mid
  BY DEF KmTypeOK, KmTransition
<1>2. /\ k \in Kms /\ k.run /\ k.mid /\ k.st = km[e].st /\ k.prev = km[e].prev /\ k.t = km[e].t
      /\ k.set = km[e].set
  BY <1>1 DEF Kms
<1>3. k.st # k.prev /\ k.t # <<>>
  BY <1>1, <1>2 DEF KmSound
<1>4. /\ sigq' = [sigq EXCEPT ![e] = @ \o out] /\ km' = [km EXCEPT ![e] = q]
      /\ UNCHANGED <<link, errs, net, eph, starts, faults>>
  BY DEF KmTransition
<1> HIDE DEF k
<1>5. out \in Seq(Signals) /\ (k.st = "Transport" => out = <<Sig("SaEstablished", k.t)>>)
  BY <1>2, <1>3, SignalsAre
<1> HIDE DEF out
<1>6. q \in Kms /\ q.st = k.st /\ q.prev = k.st /\ ~q.mid /\ q.t = k.t /\ q.set = k.set /\ q.run
  <2>1. (k.signaled \/ k.st = "Error") \in BOOLEAN /\ k.st \in KmStates
    BY <1>2 DEF Kms
  <2> QED BY <1>2, <2>1 DEF Kms
<1> HIDE DEF q
<1>7. KmSound(q)
  <2>1. q.mid = (q.st # q.prev)
    BY <1>6 DEF Kms
  <2> QED BY <1>3, <1>6, <2>1 DEF KmSound
<1>8. km' \in [End -> Kms] /\ km'[e] = q /\ \A x \in End : x # e => km'[x] = km[x]
  BY <1>4, <1>6 DEF KmTypeOK
<1>9. \A x \in End : KmSound(km'[x])
  BY <1>7, <1>8 DEF KmTypeOK
<1>10. sigq[e] \in Seq(Signals) /\ sigq \in [End -> Seq(Signals)]
  BY DEF KmTypeOK
<1>11. sigq[e] \o out \in Seq(Signals)
  BY <1>5, <1>10
<1>12. /\ sigq' \in [End -> Seq(Signals)] /\ sigq'[e] = sigq[e] \o out
       /\ \A x \in End : x # e => sigq'[x] = sigq[x]
  BY <1>4, <1>10, <1>11
<1>13. KmTypeOK'
  BY <1>4, <1>8, <1>9, <1>12 DEF KmTypeOK
<1>14. CASE k.st # "Transport"
  <2>1. ~Keyed(link'[e], km'[e])
    BY <1>6, <1>8, <1>14 DEF Keyed
  <2> QED BY <1>4, <1>8, <1>12, <1>13, <2>1, OtherKeyed
<1>15. CASE k.st = "Transport"
  <2> DEFINE s == Sig("SaEstablished", k.t)
  <2>1. s \in Signals /\ s.sig = "SaEstablished" /\ s.sa = k.t
    BY <1>2 DEF Sig, Signals, Kms
  <2>2. out = <<s>>
    BY <1>5, <1>15
  <2> HIDE DEF s
  <2>3. sigq'[e] = Append(sigq[e], s)
    BY <1>10, <1>12, <2>1, <2>2
  <2>4. LastComing(sigq'[e], k.t)
    BY <1>10, <2>1, <2>3, LastAppended
  <2>5. WillHold(sigq'[e], link'[e].sa, km'[e].t)
    BY <1>6, <1>8, <2>4 DEF WillHold
  <2>6. KeysInv'
    BY <1>4, <1>8, <1>12, <2>5 DEF KeysInv
  <2> QED BY <1>13, <2>6
<1> QED BY <1>14, <1>15

LEMMA KmStopStep ==
    ASSUME KmTypeOK, KeysInv, NEW e \in End, KmStop(e) PROVE KmTypeOK' /\ KeysInv'
<1> DEFINE q == [km[e] EXCEPT !.run = FALSE]
           s == Sig("Termination", None)
<1>1. km[e] \in Kms /\ KmSound(km[e])
  BY DEF KmTypeOK
<1>2. /\ km' = [km EXCEPT ![e] = q] /\ sigq' = [sigq EXCEPT ![e] = Append(@, s)]
      /\ UNCHANGED <<link, errs, net, eph, starts, faults>>
  BY DEF KmStop
<1>3. q \in Kms /\ ~q.run /\ q.mid = km[e].mid /\ q.st = km[e].st /\ q.prev = km[e].prev
  BY <1>1 DEF Kms
<1>4. s \in Signals
  <2>1. None \in Keys
    BY DEF None, Keys
  <2> QED BY <2>1 DEF Sig, Signals
<1> HIDE DEF q, s
<1>5. KmSound(q)
  BY <1>1, <1>3 DEF KmSound
<1>6. km' \in [End -> Kms] /\ km'[e] = q /\ \A x \in End : x # e => km'[x] = km[x]
  BY <1>2, <1>3 DEF KmTypeOK
<1>7. \A x \in End : KmSound(km'[x])
  BY <1>5, <1>6 DEF KmTypeOK
<1>8. sigq' \in [End -> Seq(Signals)] /\ \A x \in End : x # e => sigq'[x] = sigq[x]
  BY <1>2, <1>4 DEF KmTypeOK
<1>9. KmTypeOK'
  BY <1>2, <1>6, <1>7, <1>8 DEF KmTypeOK
<1>10. ~Keyed(link'[e], km'[e])
  BY <1>3, <1>6 DEF Keyed
<1> QED BY <1>2, <1>6, <1>8, <1>9, <1>10, OtherKeyed

\* The association and the error record after a signal.
LEMMA OnSignalIs ==
    ASSUME NEW e \in End, NEW s \in Signals, link[e].sa \in Keys,
           errs[e] \in [count : 0 .. 1, fresh : BOOLEAN]
    PROVE  /\ OnSignal(e, s).sa \in Keys
           /\ OnSignal(e, s).errs \in [count : 0 .. 1, fresh : BOOLEAN]
           /\ link[e].up => OnSignal(e, s).sa = IF s.sig = "SaEstablished" THEN s.sa ELSE link[e].sa
<1>1. s.sa \in Keys /\ s.sig \in {"SaEstablished", "Error", "Termination"}
  BY DEF Signals
<1>2. /\ [count |-> 1, fresh |-> TRUE] \in [count : 0 .. 1, fresh : BOOLEAN]
      /\ NoErrs \in [count : 0 .. 1, fresh : BOOLEAN]
  BY DEF NoErrs
<1>3. OnSignal(e, s).sa = IF s.sig = "SaEstablished" /\ link[e].up THEN s.sa ELSE link[e].sa
  BY DEF OnSignal
<1> DEFINE r == CASE s.sig = "Error" -> [count |-> 1, fresh |-> TRUE]
                  [] s.sig \in {"Termination", "SaEstablished"} -> NoErrs
                  [] OTHER -> errs[e]
<1>4. OnSignal(e, s).errs = r
  BY DEF OnSignal
<1>5. r \in [count : 0 .. 1, fresh : BOOLEAN]
  <2>1. CASE s.sig = "Error"
    BY <1>2, <2>1
  <2>2. CASE s.sig \in {"Termination", "SaEstablished"}
    BY <1>2, <2>2
  <2> QED BY <1>1, <2>1, <2>2
<1> QED BY <1>1, <1>3, <1>4, <1>5

LEMMA SigWorkerStep ==
    ASSUME KmTypeOK, KeysInv, NEW e \in End, SigWorker(e) PROVE KmTypeOK' /\ KeysInv'
<1> DEFINE q == sigq[e]
           s == Head(q)
           r == OnSignal(e, s)
           l == [link[e] EXCEPT !.sa = r.sa]
<1>1. /\ link[e] \in [up : BOOLEAN, sa : Keys, drop : BOOLEAN] /\ q \in Seq(Signals)
      /\ errs[e] \in [count : 0 .. 1, fresh : BOOLEAN]
  BY DEF KmTypeOK
<1>2. /\ q # <<>> /\ link' = [link EXCEPT ![e] = l] /\ errs' = [errs EXCEPT ![e] = r.errs]
      /\ sigq' = [sigq EXCEPT ![e] = Tail(q)]
      /\ UNCHANGED <<km, net, eph, starts, faults>>
  BY DEF SigWorker
<1>3. s \in Signals /\ Tail(q) \in Seq(Signals)
  BY <1>1, <1>2
<1> HIDE DEF s, q
<1>4. /\ r.sa \in Keys /\ r.errs \in [count : 0 .. 1, fresh : BOOLEAN]
      /\ link[e].up => r.sa = IF s.sig = "SaEstablished" THEN s.sa ELSE link[e].sa
  BY <1>1, <1>3, OnSignalIs
<1> HIDE DEF r
<1>5. l \in [up : BOOLEAN, sa : Keys, drop : BOOLEAN] /\ l.up = link[e].up /\ l.sa = r.sa
  BY <1>1, <1>4
<1> HIDE DEF l
<1>6. /\ link' \in [End -> [up : BOOLEAN, sa : Keys, drop : BOOLEAN]] /\ link'[e] = l
      /\ \A x \in End : x # e => link'[x] = link[x]
  BY <1>2, <1>5 DEF KmTypeOK
<1>7. errs' \in [End -> [count : 0 .. 1, fresh : BOOLEAN]]
  BY <1>2, <1>4 DEF KmTypeOK
<1>8. /\ sigq' \in [End -> Seq(Signals)] /\ sigq'[e] = Tail(q)
      /\ \A x \in End : x # e => sigq'[x] = sigq[x]
  BY <1>2, <1>3 DEF KmTypeOK
<1>9. KmTypeOK'
  BY <1>2, <1>6, <1>7, <1>8 DEF KmTypeOK
<1>10. ASSUME Keyed(link'[e], km'[e]) PROVE WillHold(sigq'[e], link'[e].sa, km'[e].t)
  <2>1. link[e].up /\ Keyed(link[e], km[e]) /\ km'[e] = km[e]
    BY <1>2, <1>5, <1>6, <1>10 DEF Keyed
  <2>2. WillHold(q, link[e].sa, km[e].t)
    BY <2>1 DEF KeysInv, q
  <2>3. r.sa = IF Head(q).sig = "SaEstablished" THEN Head(q).sa ELSE link[e].sa
    BY <1>4, <2>1 DEF s
  <2>4. WillHold(Tail(q), r.sa, km[e].t)
    BY <1>1, <1>2, <2>2, <2>3, TakenKeeps
  <2> QED BY <1>5, <1>6, <1>8, <2>1, <2>4
<1>11. KeysInv'
  BY <1>2, <1>6, <1>8, <1>10 DEF KeysInv
<1> QED BY <1>9, <1>11

LEMMA RestartTickStep ==
    ASSUME KmTypeOK, KeysInv, NEW e \in End, RestartTick(e) PROVE KmTypeOK' /\ KeysInv'
<1> DEFINE q == RequestRestart(km[e])
           r == [errs[e] EXCEPT !.fresh = FALSE]
<1>1. km[e] \in Kms /\ KmSound(km[e]) /\ errs[e] \in [count : 0 .. 1, fresh : BOOLEAN]
  BY DEF KmTypeOK
<1>2. /\ km[e].st = "Error" /\ km' = [km EXCEPT ![e] = q] /\ errs' = [errs EXCEPT ![e] = r]
      /\ UNCHANGED <<link, sigq, net, eph, starts, faults>>
  BY DEF RestartTick, CanRestart
<1>3. /\ q \in Kms /\ q.mid = km[e].mid /\ q.st = km[e].st /\ q.prev = km[e].prev
      /\ q.t = km[e].t /\ q.run = km[e].run
  BY <1>1 DEF Kms, RequestRestart
<1>4. r \in [count : 0 .. 1, fresh : BOOLEAN]
  BY <1>1
<1> HIDE DEF q, r
<1>5. KmSound(q)
  BY <1>1, <1>3 DEF KmSound
<1>6. km' \in [End -> Kms] /\ km'[e] = q /\ \A x \in End : x # e => km'[x] = km[x]
  BY <1>2, <1>3 DEF KmTypeOK
<1>7. \A x \in End : KmSound(km'[x])
  BY <1>5, <1>6 DEF KmTypeOK
<1>8. errs' \in [End -> [count : 0 .. 1, fresh : BOOLEAN]]
  BY <1>2, <1>4 DEF KmTypeOK
<1>9. KmTypeOK'
  BY <1>2, <1>6, <1>7, <1>8 DEF KmTypeOK
<1>10. ~Keyed(link'[e], km'[e])
  BY <1>2, <1>3, <1>6 DEF Keyed
<1> QED BY <1>2, <1>6, <1>9, <1>10, OtherKeyed

LEMMA DropLinkStep ==
    ASSUME KmTypeOK, KeysInv, NEW e \in End, DropLink(e) PROVE KmTypeOK' /\ KeysInv'
<1> DEFINE q == [km[e] EXCEPT !.set = FALSE, !.cancel = TRUE]
           l == [ClearedAssociation(link[e]) EXCEPT !.drop = TRUE]
<1>1. km[e] \in Kms /\ KmSound(km[e]) /\ link[e] \in [up : BOOLEAN, sa : Keys, drop : BOOLEAN]
  BY DEF KmTypeOK
<1>2. /\ km' = [km EXCEPT ![e].set = FALSE, ![e].cancel = TRUE]
      /\ link' = [link EXCEPT ![e] = l]
      /\ UNCHANGED <<sigq, errs, net, eph, starts, faults>>
  BY DEF DropLink
<1>3. km' = [km EXCEPT ![e] = q]
  BY <1>1, <1>2 DEF KmTypeOK, Kms
<1>4. /\ q \in Kms /\ q.mid = km[e].mid /\ q.st = km[e].st /\ q.prev = km[e].prev
      /\ q.t = km[e].t /\ q.run = km[e].run /\ ~q.set
  BY <1>1 DEF Kms
<1>5. l \in [up : BOOLEAN, sa : Keys, drop : BOOLEAN]
  <2>1. None \in Keys
    BY DEF None, Keys
  <2>2. ClearedAssociation(link[e]) \in [up : BOOLEAN, sa : Keys, drop : BOOLEAN]
    BY <1>1, <2>1 DEF ClearedAssociation
  <2> QED BY <2>2
<1> HIDE DEF q, l
<1>6. KmSound(q)
  BY <1>1, <1>4 DEF KmSound
<1>7. km' \in [End -> Kms] /\ km'[e] = q /\ \A x \in End : x # e => km'[x] = km[x]
  BY <1>3, <1>4 DEF KmTypeOK
<1>8. \A x \in End : KmSound(km'[x])
  BY <1>6, <1>7 DEF KmTypeOK
<1>9. /\ link' \in [End -> [up : BOOLEAN, sa : Keys, drop : BOOLEAN]]
      /\ \A x \in End : x # e => link'[x] = link[x]
  BY <1>2, <1>5 DEF KmTypeOK
<1>10. KmTypeOK'
  BY <1>2, <1>7, <1>8, <1>9 DEF KmTypeOK
<1>11. ~Keyed(link'[e], km'[e])
  BY <1>4, <1>7 DEF Keyed
<1> QED BY <1>2, <1>7, <1>9, <1>10, <1>11, OtherKeyed

LEMMA DropDoneStep ==
    ASSUME KmTypeOK, KeysInv, NEW e \in End, DropDone(e) PROVE KmTypeOK' /\ KeysInv'
<1> DEFINE sa == IF e = "a" THEN link[e].sa ELSE None
           l == [link[e] EXCEPT !.drop = FALSE, !.up = (e = "a"), !.sa = sa]
<1>1. /\ ~km[e].run /\ link[e] \in [up : BOOLEAN, sa : Keys, drop : BOOLEAN]
      /\ UNCHANGED <<km, sigq, errs, net, eph, starts, faults>>
  BY DEF KmTypeOK, DropDone
<1>2. link' = [link EXCEPT ![e].drop = FALSE, ![e].up = (e = "a"),
                           ![e].sa = IF e = "a" THEN @ ELSE None]
  BY DEF DropDone
<1>3. link' = [link EXCEPT ![e] = l]
  BY <1>1, <1>2 DEF KmTypeOK
<1>4. sa \in Keys
  BY <1>1 DEF None, Keys
<1> HIDE DEF sa
<1>5. l \in [up : BOOLEAN, sa : Keys, drop : BOOLEAN]
  <2>1. (e = "a") \in BOOLEAN
    OBVIOUS
  <2> QED BY <1>1, <1>4, <2>1
<1> HIDE DEF l
<1>6. /\ link' \in [End -> [up : BOOLEAN, sa : Keys, drop : BOOLEAN]]
      /\ \A x \in End : x # e => link'[x] = link[x]
  BY <1>3, <1>5 DEF KmTypeOK
<1>7. KmTypeOK'
  BY <1>1, <1>6 DEF KmTypeOK
<1>8. ~Keyed(link'[e], km'[e])
  BY <1>1 DEF Keyed
<1> QED BY <1>1, <1>6, <1>7, <1>8, OtherKeyed

-------------------------------------------------------------------------------
(* The theorems.                                                           *)

LEMMA KeysInitially == KmInit => KmTypeOK /\ KeysInv
<1> SUFFICES ASSUME KmInit PROVE KmTypeOK /\ KeysInv
  OBVIOUS
<1>1. NoKm \in Kms /\ KmSound(NoKm) /\ ~NoKm.run
  <2>1. "Configuring" \in KmStates /\ <<>> \in Keys
    BY DEF KmStates, Keys
  <2>2. NoKm \in Kms /\ ~NoKm.mid /\ NoKm.st = NoKm.prev /\ ~NoKm.run
    BY <2>1 DEF NoKm, Kms
  <2> QED BY <2>2 DEF KmSound, Kms
<1>2. link \in [End -> [up : BOOLEAN, sa : Keys, drop : BOOLEAN]]
  <2>1. None \in Keys
    BY DEF None, Keys
  <2>2. \A e \in End : (e = "a") \in BOOLEAN
    OBVIOUS
  <2> QED BY <2>1, <2>2 DEF KmInit
<1>3. km \in [End -> Kms] /\ \A e \in End : KmSound(km[e]) /\ ~km[e].run
  BY <1>1 DEF KmInit
<1>4. sigq \in [End -> Seq(Signals)] /\ errs \in [End -> [count : 0 .. 1, fresh : BOOLEAN]]
  BY DEF KmInit, NoErrs
<1>5. KmTypeOK
  BY <1>2, <1>3, <1>4 DEF KmInit, KmTypeOK
<1>6. KeysInv
  BY <1>3 DEF KeysInv, Keyed
<1> QED BY <1>5, <1>6

LEMMA KeysStep == KmTypeOK /\ KeysInv /\ [KmNext]_kmVars => KmTypeOK' /\ KeysInv'
<1> SUFFICES ASSUME KmTypeOK, KeysInv, [KmNext]_kmVars PROVE KmTypeOK' /\ KeysInv'
  OBVIOUS
<1>1. CASE AStart
  BY <1>1, AStartStep
<1>2. CASE \E m \in net : NCreate(m)
  BY <1>2, NCreateStep
<1>3. CASE \E e \in End, m \in net, c \in Certs : KmReceive(e, m, c)
  BY <1>3, KmReceiveStep
<1>4. CASE \E e \in End : KmRestart(e)
  BY <1>4, KmRestartStep
<1>5. CASE \E e \in End : KmTimeout(e)
  BY <1>5, KmTimeoutStep
<1>6. CASE \E e \in End : KmTransition(e)
  BY <1>6, KmTransitionStep
<1>7. CASE \E e \in End : KmStop(e)
  BY <1>7, KmStopStep
<1>8. CASE \E e \in End : SigWorker(e)
  BY <1>8, SigWorkerStep
<1>9. CASE \E e \in End : RestartTick(e)
  BY <1>9, RestartTickStep
<1>10. CASE \E e \in End : DropLink(e)
  BY <1>10, DropLinkStep
<1>11. CASE \E e \in End : DropDone(e)
  BY <1>11, DropDoneStep
<1>12. CASE UNCHANGED kmVars
  BY <1>12 DEF kmVars, KmTypeOK, KeysInv
<1> QED BY <1>1, <1>2, <1>3, <1>4, <1>5, <1>6, <1>7, <1>8, <1>9, <1>10, <1>11, <1>12 DEF KmNext

\* Once the signal worker has taken every association, the last one it set is the
\* one that will hold.
LEMMA KeysWin == KmTypeOK /\ KeysInv => LatestKeysWin
<1> SUFFICES ASSUME KmTypeOK, KeysInv, NEW e \in End, Keyed(link[e], km[e]),
                    ~Queued(e, "SaEstablished")
             PROVE  link[e].sa = km[e].t
  BY DEF LatestKeysWin, Keyed
<1>1. WillHold(sigq[e], link[e].sa, km[e].t)
  BY DEF KeysInv
<1>2. DOMAIN sigq[e] = 1 .. Len(sigq[e])
  BY DEF KmTypeOK
<1>3. NoneComing(sigq[e])
  BY <1>2 DEF Queued, NoneComing
<1>4. ~LastComing(sigq[e], km[e].t)
  BY <1>3 DEF NoneComing, LastComing
<1> QED BY <1>1, <1>4 DEF WillHold

\* The state of the key managers, their signals and the messages in flight keeps its
\* type, a key manager is between the two halves of a turn exactly when its state has
\* changed since the top of the loop, and one that runs has keys.
THEOREM KeyingTypeCorrect == KmSpec => []KmTypeOK
<1>1. KmSpec => [](KmTypeOK /\ KeysInv)
  BY KeysInitially, KeysStep, PTL DEF KmSpec
<1> QED BY <1>1, PTL

\* Once its signals have been taken, the link holds the association of its present
\* key manager, whatever signals of earlier key managers of the slot were still in
\* the queue when it started, for any number of restarts, drops and failures.
THEOREM LatestKeysHold == KmSpec => []LatestKeysWin
<1>1. KmSpec => [](KmTypeOK /\ KeysInv)
  BY KeysInitially, KeysStep, PTL DEF KmSpec
<1> QED BY <1>1, KeysWin, PTL
===============================================================================
