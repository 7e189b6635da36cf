CONSTANTS
    NumSlots = 2
    MaxClientsPerIp = 1
    a1 = a1
    a2 = a2
    b1 = b1
    Addrs <- Three
    IpOf <- HomeOf
    TokenAddrs <- Three
    LegacyAddrs <- Three
    SevenAddrs <- Pair
    RconAddrs <- Pair
    AntiSpoof = TRUE
    Codes = {c1}
    NoCode = NoCode
    NoPlayer = NoPlayer
    NoAddr = NoAddr
SPECIFICATION FairSpec
INVARIANTS SlotsAgree OneSlotPerAddress RconStaysWithLogin SixupAgrees ReachedBeforeAccepted IpLimit
PROPERTIES SeatSpec LostSlotsReturn
