SPECIFICATION Spec
CONSTANTS
    Client = Client
    Server = Server
    NET_MAX_SEQUENCE = 8
    BufferChunks = 2
    ChunksPerPacket = 2
    Lifetime = 5
    PreMsgs = 1
    NetCapacity = 1
    ClientSends = 0
    ServerSends = 3
    LegacyClientSends = 2
    LegacyServerSends = 2
    MaxSent <- MCMaxSent
CHECK_DEADLOCK FALSE
INVARIANT PeerAckMatchesBuffer
PROPERTY StreamSpec
