SPECIFICATION FairSpec
CONSTANTS
    Client = Client
    Server = Server
    NET_MAX_SEQUENCE = 8
    BufferChunks = 2
    ChunksPerPacket = 1
    Lifetime = 5
    PreMsgs = 1
    NetCapacity = 1
    ClientSends = 0
    ServerSends = 8
    LegacyClientSends = 3
    LegacyServerSends = 1
    MaxSent <- MCMaxSent
CONSTRAINT Unbroken
PROPERTY Delivered
