SPECIFICATION Spec
CONSTANTS
    Client = Client
    Server = Server
    NET_MAX_SEQUENCE = 4
    BufferChunks = 1
    ChunksPerPacket = 1
    Lifetime = 3
    PreMsgs = 0
    NetCapacity = 2
    ClientSends = 0
    ServerSends = 5
    LegacyClientSends = 2
    LegacyServerSends = 1
    MaxSent <- MCMaxSent
CHECK_DEADLOCK FALSE
INVARIANTS InOrder CopyKept
