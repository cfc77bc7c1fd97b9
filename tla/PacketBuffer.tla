----------------------------- MODULE PacketBuffer -----------------------------
(***************************************************************************)
(* The extent of a packet within its buffer (packet.rs).  A buffer holds   *)
(* the metadata, free space at the start (head room), the packet and free  *)
(* space at the end (tail room); headers are pushed into the head room and *)
(* popped from the packet, trailers are put into the tail room, and a      *)
(* cipher writes its output behind its input.  Every operation asserts     *)
(* that the packet stays within the buffer: one that does not is Overrun,  *)
(* on which the program panics.  Lengths are in bytes.                     *)
(***************************************************************************)
EXTENDS Integers

CONSTANTS MetadataSize,           \* size_of::<PacketMetadata>(), MIN_BODY_OFFSET
          PacketBufferSize,       \* a buffer of the fast path and a slot of a packet queue
          SmallPacketBufferSize,  \* the buffer of a management message
          TinyPacketBufferSize,   \* the buffer of a ZDP-R control message
          DefaultMessageHeadroom,
          TinyMessageHeadroom

\* Every buffer holds its metadata and head room; the head room of a message holds the
\* longest run of headers, and what a queue hands over is made in a smaller buffer.
ASSUME BufferAssumption ==
    /\ {MetadataSize, PacketBufferSize, SmallPacketBufferSize, TinyPacketBufferSize} \subseteq Nat
    /\ DefaultMessageHeadroom \in Nat /\ DefaultMessageHeadroom >= 128
    /\ TinyMessageHeadroom \in Nat /\ TinyMessageHeadroom >= 16
    /\ MetadataSize + DefaultMessageHeadroom <= SmallPacketBufferSize
    /\ MetadataSize + TinyMessageHeadroom <= TinyPacketBufferSize
    /\ TinyPacketBufferSize <= SmallPacketBufferSize
    /\ SmallPacketBufferSize <= PacketBufferSize

Overrun == [size |-> 0, offset |-> 0, len |-> 0]

HeadroomAvailable(b) == b.offset - MetadataSize
TailroomAvailable(b) == b.size - (b.offset + b.len)

MetadataIsValid(b) == b.offset >= MetadataSize /\ b.offset + b.len <= b.size

\* new_with_existing_data, set_body_extent
Extent(size, offset, len) ==
    LET b == [size |-> size, offset |-> offset, len |-> len]
    IN IF MetadataIsValid(b) THEN b ELSE Overrun

NewPacket(size, headroom) == Extent(size, MetadataSize + headroom, 0)

\* alloc_zeroed_headroom, alloc_zeroed_header, push_header, push_u8 to push_u64
AllocHeadroom(b, cnt) ==
    IF cnt <= HeadroomAvailable(b) THEN [b EXCEPT !.offset = @ - cnt, !.len = @ + cnt] ELSE Overrun

\* Buf::advance, and with it every read from the front
Advance(b, cnt) ==
    IF cnt <= b.len THEN [b EXCEPT !.offset = @ + cnt, !.len = @ - cnt] ELSE Overrun

ShrinkBy(b, cnt) == IF cnt <= b.len THEN [b EXCEPT !.len = @ - cnt] ELSE Overrun

\* BufMut::advance_mut, and with it every put
Put(b, cnt) == IF cnt <= TailroomAvailable(b) THEN [b EXCEPT !.len = @ + cnt] ELSE Overrun

\* adopt_tailroom_with_header: the output behind the packet becomes the packet, with
\* the old header moved in front of it.
AdoptTailroom(b, header, written) ==
    IF header <= b.len /\ written <= TailroomAvailable(b)
    THEN Extent(b.size, b.offset + b.len - header, header + written)
    ELSE Overrun

\* serialize into a slot of a packet queue: metadata and packet, without the rooms.
\* "Oversize" is an unrecoverable error to the senders.
SerializePacket(b) == IF MetadataSize + b.len <= PacketBufferSize THEN b ELSE Overrun

\* deserialize_into a buffer of the fast path: the offset is that of the metadata.
DeserializeInto(b) == Extent(PacketBufferSize, b.offset, b.len)
===============================================================================
