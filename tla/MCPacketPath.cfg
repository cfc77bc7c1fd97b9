SPECIFICATION Spec
CONSTANTS
    Inputs <- MCInputs
    Links <- MCLinks
    Lengths <- MCLengths
    Bodies <- MCBodies
    Headers <- MCHeaders
    Padlen = 24
    MetadataSize = 80
    PacketBufferSize = 12288
    SmallPacketBufferSize = 4096
    TinyPacketBufferSize = 256
    DefaultMessageHeadroom = 256
    TinyMessageHeadroom = 64
CHECK_DEADLOCK FALSE
INVARIANTS WithinBuffer ArrivesIntact PlainPacketsArrive
