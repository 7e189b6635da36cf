-------------------------- MODULE NetServer_proofs --------------------------
(***************************************************************************)
(* The slots, the clients and the players of the server agree, no address  *)
(* has two online slots and no computer more than its share, for any number*)
(* of slots and addresses.                                                 *)
(***************************************************************************)
EXTENDS NetServer, FiniteSetTheorems, TLAPS

\* What is known of one slot.  A slot that is offline is as Reset left it and
\* its client is empty; the address of any other slot is known.
SlotInv(s) ==
    /\ conn[s].state = "OFFLINE" <=> client[s].state = "EMPTY"
    /\ conn[s].state = "OFFLINE" => conn[s] = NoConn /\ ~client[s].sixup
    /\ conn[s].state # "OFFLINE" =>
          /\ conn[s].addr \in Addrs
          /\ client[s].sixup = conn[s].sixup
          /\ client[s].rcon \in {NoAddr, conn[s].addr}
          /\ AntiSpoof => IpOf[conn[s].addr] \in told
    /\ HasPlayer(s) <=> player[s] # NoPlayer

\* The packet that is worked off came from the address that has its slot, or
\* the slot was reset since.
PacketInv ==
    ~Idle => /\ unpacker.slot \in Slots
             /\ unpacker.addr \in Addrs
             /\ \/ conn[unpacker.slot].state = "OFFLINE"
                \/ /\ Online(unpacker.slot)
                   /\ conn[unpacker.slot].addr = unpacker.addr

IInv == /\ TypeOK
        /\ \A s \in Slots : SlotInv(s)
        /\ OneSlotPerAddress
        /\ PacketInv

\* The strengthening says what the invariants of the runs say.
LEMMA IInvImplies ==
    IInv => /\ SlotsAgree
            /\ RconStaysWithLogin
            /\ SixupAgrees
            /\ ReachedBeforeAccepted
<1>1. SUFFICES ASSUME IInv
               PROVE  /\ SlotsAgree
                      /\ RconStaysWithLogin
                      /\ SixupAgrees
                      /\ ReachedBeforeAccepted
  OBVIOUS
<1>2. \A s \in Slots : SlotInv(s)
  BY <1>1 DEF IInv
<1>3. SlotsAgree
  BY <1>2 DEF SlotsAgree, SlotInv
<1>4. RconStaysWithLogin
  BY <1>2 DEF RconStaysWithLogin, SlotInv
<1>5. SixupAgrees
  BY <1>2 DEF SixupAgrees, SlotInv
<1>6. ReachedBeforeAccepted
  BY <1>2 DEF ReachedBeforeAccepted, SlotInv
<1> QED
  BY <1>3, <1>4, <1>5, <1>6

LEMMA InitInv == Init => IInv
<1> SUFFICES ASSUME Init
             PROVE  IInv
  OBVIOUS
<1> USE SlotsAssumption, AddrAssumption, CodeAssumption DEF Init, NoConn, NoClient, NoPacket
<1>1. TypeOK
  BY DEF TypeOK, Connection, Client, Slots
<1>2. \A s \in Slots : SlotInv(s)
  BY DEF SlotInv, HasPlayer
<1>3. OneSlotPerAddress
  BY DEF OneSlotPerAddress, Online
<1>4. PacketInv
  BY DEF PacketInv, Idle
<1> QED
  BY <1>1, <1>2, <1>3, <1>4 DEF IInv

\* A handler that leaves the connections alone and keeps the state of every
\* client in its place needs to be looked at slot by slot only.
LEMMA ClientStep ==
    ASSUME IInv, NEW s \in Slots, NEW c \in Client, NEW p \in Codes \cup {NoCode, NoPlayer},
           conn' = conn, told' = told, unpacker' = unpacker,
           client' = [client EXCEPT ![s] = c],
           player' = [player EXCEPT ![s] = p],
           c.state = "EMPTY" <=> client[s].state = "EMPTY",
           c.sixup = client[s].sixup,
           conn[s].state # "OFFLINE" => c.rcon \in {NoAddr, conn[s].addr},
           c.state \in {"READY", "INGAME"} <=> p # NoPlayer
    PROVE  IInv'
<1>1. TypeOK'
  BY DEF IInv, TypeOK
<1>2. ASSUME NEW t \in Slots
      PROVE  SlotInv(t)'
  <2>0. SlotInv(t) /\ client' \in [Slots -> Client]
    BY <1>1 DEF IInv, TypeOK
  <2>1. CASE t = s
    <3>1. client'[t] = c /\ player'[t] = p
      BY <2>1 DEF IInv, TypeOK
    <3> QED
      BY <2>0, <2>1, <3>1 DEF SlotInv, HasPlayer
  <2>2. CASE t # s
    <3>1. client'[t] = client[t] /\ player'[t] = player[t]
      BY <2>2 DEF IInv, TypeOK
    <3> QED
      BY <2>0, <3>1 DEF SlotInv, HasPlayer
  <2> QED
    BY <2>1, <2>2
<1>3. OneSlotPerAddress'
  BY DEF IInv, OneSlotPerAddress, Online
<1>4. PacketInv'
  BY DEF IInv, PacketInv, Online, Idle, NoPacket
<1> QED
  BY <1>1, <1>2, <1>3, <1>4 DEF IInv

\* Dropping a set of slots, from connections c that have gone from online to
\* error at most.
LEMMA DroppedStep ==
    ASSUME IInv, NEW c \in [Slots -> Connection], NEW D \in SUBSET Slots,
           Dropped(c, D), told' = told, unpacker' = unpacker,
           \A s \in Slots : /\ c[s].addr = conn[s].addr
                            /\ c[s].sixup = conn[s].sixup
                            /\ c[s].state = "OFFLINE" <=> conn[s].state = "OFFLINE"
                            /\ c[s].state = "OFFLINE" => c[s] = conn[s]
                            /\ c[s].state = "ONLINE" => Online(s),
           Idle \/ c = conn
    PROVE  IInv'
<1>0. NoConn \in Connection /\ NoClient \in Client
  BY DEF NoConn, NoClient, Connection, Client
<1>1. TypeOK'
  BY <1>0 DEF IInv, TypeOK, Dropped
<1>2. ASSUME NEW s \in Slots
      PROVE  SlotInv(s)'
  <2>1. SlotInv(s)
    BY DEF IInv
  <2>2. CASE s \in D
    <3>1. conn'[s] = NoConn /\ client'[s] = NoClient
      BY <2>2 DEF Dropped
    <3>2. player'[s] = IF HasPlayer(s) THEN NoPlayer ELSE player[s]
      BY <2>2 DEF Dropped
    <3>3. player'[s] = NoPlayer
      BY <2>1, <3>2 DEF SlotInv
    <3> QED
      BY <3>1, <3>3 DEF SlotInv, HasPlayer, NoConn, NoClient
  <2>3. CASE s \notin D
    <3>1. conn'[s] = c[s] /\ client'[s] = client[s] /\ player'[s] = player[s]
      BY <2>3 DEF Dropped
    <3> QED
      BY <2>1, <3>1 DEF SlotInv, HasPlayer
  <2> QED
    BY <2>2, <2>3
<1>3. ASSUME NEW s \in Slots, Online(s)'
      PROVE  Online(s) /\ conn'[s].addr = conn[s].addr
  BY <1>3 DEF Dropped, Online, NoConn
<1>4. OneSlotPerAddress'
  BY <1>3 DEF IInv, OneSlotPerAddress
<1>5. PacketInv'
  <2>1. CASE Idle
    BY <2>1 DEF PacketInv, Idle, NoPacket
  <2>2. CASE ~Idle
    BY <2>2 DEF IInv, PacketInv, Idle, NoPacket, Dropped, Online, NoConn
  <2> QED
    BY <2>1, <2>2
<1> QED
  BY <1>1, <1>2, <1>4, <1>5 DEF IInv

\* Accepting a client: the address has no online slot and its computer was sent the token.
LEMMA AcceptStep ==
    ASSUME IInv, NEW s \in Slots, NEW a \in Addrs, NEW six \in BOOLEAN, NEW c \in Client,
           Idle, ~ClientExists(a), AntiSpoof => IpOf[a] \in told,
           c.state \notin {"EMPTY", "READY", "INGAME"}, c.rcon = NoAddr,
           conn[s].state = "OFFLINE" => c.sixup = six,
           TryAcceptClient(s, a, six, c)
    PROVE  IInv'
<1> DEFINE new == [NoConn EXCEPT !.state = "ONLINE", !.addr = a, !.sixup = six]
<1>1. /\ new \in Connection
      /\ new.state = "ONLINE" /\ new.addr = a /\ new.sixup = six
  BY DEF NoConn, Connection
<1>2. /\ conn[s].state = "OFFLINE"
      /\ conn' = [conn EXCEPT ![s] = new]
      /\ client' = [client EXCEPT ![s] = c]
      /\ player' = player /\ told' = told /\ unpacker' = unpacker
  BY DEF TryAcceptClient
<1> HIDE DEF new
<1>3. TypeOK'
  BY <1>1, <1>2 DEF IInv, TypeOK
<1>4. /\ conn'[s] = new /\ client'[s] = c
      /\ \A t \in Slots \ {s} : conn'[t] = conn[t] /\ client'[t] = client[t]
  BY <1>2 DEF IInv, TypeOK
<1>5. ASSUME NEW t \in Slots
      PROVE  SlotInv(t)'
  <2>1. SlotInv(t)
    BY DEF IInv
  <2>2. CASE t = s
    BY <1>1, <1>2, <1>4, <2>1, <2>2 DEF SlotInv, HasPlayer
  <2>3. CASE t # s
    BY <1>2, <1>4, <2>1, <2>3 DEF SlotInv, HasPlayer
  <2> QED
    BY <2>2, <2>3
<1>6. OneSlotPerAddress'
  BY <1>1, <1>4 DEF IInv, OneSlotPerAddress, Online, ClientExists
<1>7. PacketInv'
  BY <1>2 DEF PacketInv, Idle, NoPacket
<1> QED
  BY <1>3, <1>5, <1>6, <1>7 DEF IInv

\* A takeover: slot t goes on with the address of slot s, slot s is empty.
LEMMA TakeoverStep ==
    ASSUME IInv, NEW s \in Slots, NEW t \in Slots \ {s},
           Online(s), conn[t].state = "ERROR",
           SetTimedOut(t, s), told' = told, unpacker' = unpacker,
           unpacker.slot = s
    PROVE  IInv'
<1> DEFINE ct == [conn[t] EXCEPT !.state = "ONLINE", !.addr = conn[s].addr,
                                 !.sixup = conn[s].sixup]
           kt == [client[t] EXCEPT !.sixup = client[s].sixup, !.rcon = NoAddr]
<1>0. /\ NoConn \in Connection /\ NoClient \in Client
      /\ conn[s] \in Connection /\ conn[t] \in Connection
      /\ client[s] \in Client /\ client[t] \in Client
  BY DEF NoConn, NoClient, Connection, Client, IInv, TypeOK
<1>1. /\ ct \in Connection /\ kt \in Client
      /\ ct.state = "ONLINE" /\ ct.addr = conn[s].addr /\ ct.sixup = conn[s].sixup
      /\ kt.state = client[t].state /\ kt.sixup = client[s].sixup /\ kt.rcon = NoAddr
  BY <1>0 DEF Connection, Client
<1>2. /\ conn' = [conn EXCEPT ![t] = ct, ![s] = NoConn]
      /\ client' = [client EXCEPT ![t] = kt, ![s] = NoClient]
  BY DEF SetTimedOut, IInv, TypeOK
<1> HIDE DEF ct, kt
<1>3. /\ conn' \in [Slots -> Connection] /\ client' \in [Slots -> Client]
      /\ conn'[t] = ct /\ conn'[s] = NoConn
      /\ client'[t] = kt /\ client'[s] = NoClient
      /\ \A u \in Slots \ {s, t} : conn'[u] = conn[u] /\ client'[u] = client[u]
  BY <1>0, <1>1, <1>2 DEF IInv, TypeOK
<1>4. /\ player' \in [Slots -> Codes \cup {NoCode, NoPlayer}]
      /\ player'[s] = NoPlayer
      /\ \A u \in Slots \ {s} : player'[u] = player[u]
  BY DEF SetTimedOut, IInv, TypeOK, SlotInv
<1>5. TypeOK'
  BY <1>3, <1>4 DEF IInv, TypeOK
<1>6. SlotInv(s) /\ SlotInv(t)
  BY DEF IInv
<1>7. ASSUME NEW u \in Slots
      PROVE  SlotInv(u)'
  <2>1. CASE u = s
    BY <1>3, <1>4, <2>1 DEF SlotInv, HasPlayer, NoConn, NoClient
  <2>2. CASE u = t
    BY <1>1, <1>3, <1>4, <1>6, <2>2 DEF SlotInv, HasPlayer, Online
  <2>3. CASE u \notin {s, t}
    <3>1. SlotInv(u)
      BY DEF IInv
    <3> QED
      BY <1>3, <1>4, <2>3, <3>1 DEF SlotInv, HasPlayer
  <2> QED
    BY <2>1, <2>2, <2>3
<1>8. OneSlotPerAddress'
  BY <1>1, <1>3 DEF IInv, OneSlotPerAddress, Online, NoConn
<1>9. PacketInv'
  BY <1>3 DEF IInv, PacketInv, Idle, NoConn
<1> QED
  BY <1>5, <1>7, <1>8, <1>9 DEF IInv

\* What Update makes of a connection before it drops has the same address and
\* version, is offline as before, and is online only if it was.
LEMMA UpdateStep ==
    ASSUME IInv, NEW silent \in SUBSET {s \in Slots : Online(s)},
           NEW over \in SUBSET {s \in Slots : KeptIn(conn[s])},
           Idle, UpdateWith(silent, over), told' = told, unpacker' = unpacker
    PROVE  IInv'
<1> DEFINE c == [s \in Slots |-> UpdateConn(conn[s], s \in silent, s \in over)]
           D == {s \in Slots : c[s].state = "ERROR" /\ ~KeptIn(c[s])}
<1>1. ASSUME NEW s \in Slots
      PROVE  /\ c[s] \in Connection
             /\ c[s].addr = conn[s].addr /\ c[s].sixup = conn[s].sixup
             /\ c[s].state = "OFFLINE" <=> conn[s].state = "OFFLINE"
             /\ c[s].state = "OFFLINE" => c[s] = conn[s]
             /\ c[s].state = "ONLINE" => Online(s)
  <2>1. conn[s] \in Connection
    BY DEF IInv, TypeOK
  <2>2. conn[s].state = "OFFLINE" => s \notin over
    BY DEF KeptIn
  <2>3. c[s] = UpdateConn(conn[s], s \in silent, s \in over)
    OBVIOUS
  <2> HIDE DEF c
  <2> QED
    BY <2>1, <2>2, <2>3 DEF UpdateConn, Connection, Online
<1>2. Dropped(c, D)
  BY DEF UpdateWith
<1>3. c \in [Slots -> Connection] /\ D \in SUBSET Slots
  BY <1>1
<1> HIDE DEF c, D
<1> QED
  BY <1>1, <1>2, <1>3, DroppedStep

\* A player sets a code: only a flag of the connection changes.
LEMMA ProtectStep ==
    ASSUME IInv, NEW s \in Slots, NEW code \in Codes \cup {NoCode},
           conn[s].state # "OFFLINE", player[s] # NoPlayer,
           SetTimeoutProtected(s, code), told' = told, unpacker' = unpacker
    PROVE  IInv'
<1> DEFINE c == [conn[s] EXCEPT !.protected = TRUE]
<1>0. TypeOK /\ conn[s] \in Connection
  BY DEF IInv, TypeOK
<1>1. /\ c \in Connection /\ c.addr = conn[s].addr
      /\ c.state = conn[s].state /\ c.sixup = conn[s].sixup
  BY <1>0 DEF Connection
<1>2. conn' = [conn EXCEPT ![s] = c]
  BY <1>0 DEF SetTimeoutProtected, TypeOK
<1>3. player' = [player EXCEPT ![s] = code] /\ client' = client
  BY DEF SetTimeoutProtected
<1> HIDE DEF c
<1>4. TypeOK'
  BY <1>0, <1>1, <1>2, <1>3 DEF TypeOK
<1>5. ASSUME NEW t \in Slots
      PROVE  /\ conn'[t].addr = conn[t].addr
             /\ conn'[t].state = conn[t].state
             /\ conn'[t].sixup = conn[t].sixup
             /\ conn'[t].state = "OFFLINE" => conn'[t] = conn[t]
  BY <1>0, <1>1, <1>2 DEF TypeOK
<1>6. ASSUME NEW t \in Slots
      PROVE  player'[t] # NoPlayer <=> player[t] # NoPlayer
  BY <1>0, <1>3, CodeAssumption DEF TypeOK
<1>7. ASSUME NEW t \in Slots
      PROVE  SlotInv(t)'
  <2>1. SlotInv(t)
    BY DEF IInv
  <2> QED
    BY <1>3, <1>5, <1>6, <2>1 DEF SlotInv, HasPlayer
<1>8. OneSlotPerAddress'
  BY <1>5 DEF IInv, OneSlotPerAddress, Online
<1>9. PacketInv'
  BY <1>5 DEF IInv, PacketInv, Idle, NoPacket, Online
<1> QED
  BY <1>4, <1>7, <1>8, <1>9 DEF IInv

\* Every message that the packet worked off may carry
LEMMA MessageStep ==
    ASSUME IInv, NEW s \in Slots, unpacker.slot = s, Message(s)
    PROVE  IInv'
<1> USE CodeAssumption
<1>0. /\ TypeOK /\ SlotInv(s)
      /\ client[s] \in Client
      /\ player[s] \in Codes \cup {NoCode, NoPlayer}
      /\ player = [player EXCEPT ![s] = player[s]]
  BY DEF IInv, TypeOK
<1>1. ASSUME NEW st \in {"PREAUTH", "AUTH", "CONNECTING", "READY", "INGAME"},
             NEW p \in Codes \cup {NoCode, NoPlayer},
             client[s].state # "EMPTY",
             client' = [client EXCEPT ![s].state = st],
             player' = [player EXCEPT ![s] = p],
             UNCHANGED <<conn, told, unpacker>>,
             st \in {"READY", "INGAME"} <=> p # NoPlayer
      PROVE  IInv'
  <2> DEFINE c == [client[s] EXCEPT !.state = st]
  <2>1. c \in Client /\ c.state = st /\ c.sixup = client[s].sixup /\ c.rcon = client[s].rcon
    BY <1>0 DEF Client
  <2>2. client' = [client EXCEPT ![s] = c]
    BY <1>0, <1>1 DEF TypeOK
  <2> HIDE DEF c
  <2> QED
    BY <1>0, <1>1, <2>1, <2>2, ClientStep DEF SlotInv
<1>2. ASSUME NEW r \in Addrs \cup {NoAddr},
             client' = [client EXCEPT ![s].rcon = r],
             UNCHANGED <<conn, player, told, unpacker>>,
             conn[s].state # "OFFLINE" => r \in {NoAddr, conn[s].addr}
      PROVE  IInv'
  <2> DEFINE c == [client[s] EXCEPT !.rcon = r]
  <2>1. c \in Client /\ c.state = client[s].state /\ c.sixup = client[s].sixup /\ c.rcon = r
    BY <1>0 DEF Client
  <2>2. client' = [client EXCEPT ![s] = c]
    BY <1>0, <1>2 DEF TypeOK
  <2> HIDE DEF c
  <2> QED
    <3>1. /\ player' = [player EXCEPT ![s] = player[s]]
          /\ conn' = conn /\ told' = told /\ unpacker' = unpacker
      BY <1>0, <1>2
    <3>3. conn[s].state # "OFFLINE" => c.rcon \in {NoAddr, conn[s].addr}
      BY <1>2, <2>1
    <3>4. c.state = "EMPTY" <=> client[s].state = "EMPTY"
      BY <2>1
    <3>2. c.state \in {"READY", "INGAME"} <=> player[s] # NoPlayer
      BY <1>0, <2>1 DEF SlotInv, HasPlayer
    <3> QED
      BY <1>0, <2>1, <2>2, <3>1, <3>2, <3>3, <3>4, ClientStep
<1>3. CASE ClientVer(s)
  BY <1>0, <1>1, <1>3 DEF ClientVer, SlotInv, HasPlayer
<1>4. CASE Info(s)
  BY <1>0, <1>1, <1>4 DEF Info, SlotInv, HasPlayer
<1>5. CASE Ready(s)
  BY <1>1, <1>5 DEF Ready
<1>6. CASE EnterGame(s)
  BY <1>0, <1>1, <1>6 DEF EnterGame
<1>7. CASE RconAuth(s)
  <2>1. unpacker.addr \in Addrs
    BY <1>7, AddrAssumption DEF RconAuth
  <2>2. ~Idle
    BY <2>1, AddrAssumption DEF Idle, NoPacket
  <2>3. conn[s].state # "OFFLINE" => unpacker.addr = conn[s].addr
    BY <2>2 DEF IInv, PacketInv
  <2> QED
    BY <1>2, <1>7, <2>1, <2>3 DEF RconAuth
<1>8. CASE RconLogout(s)
  BY <1>2, <1>8 DEF RconLogout
<1>9. ASSUME NEW wanted, NEW given \in Codes \cup {NoCode}, wanted # NoPlayer,
             ConTimeout(s, wanted, given)
      PROVE  IInv'
  <2>1. client[s].state = "INGAME" /\ player[s] # NoPlayer /\ told' = told /\ unpacker' = unpacker
    BY <1>9 DEF ConTimeout
  <2>2. CASE SetTimeoutProtected(s, given)
    <3>1. conn[s].state # "OFFLINE"
      BY <1>0, <2>1 DEF SlotInv
    <3>2. given \in Codes \cup {NoCode}
      BY <1>9
    <3> QED
      BY <2>1, <2>2, <3>1, <3>2, ProtectStep
  <2>3. CASE ~SetTimeoutProtected(s, given)
    <3>1. PICK t \in Slots \ {s} : conn[t].state = "ERROR" /\ SetTimedOut(t, s)
      BY <1>9, <2>3 DEF ConTimeout
    <3>2. unpacker # NoPacket
      BY SlotsAssumption DEF NoPacket, Slots
    <3>3. Online(s)
      BY <1>0, <2>1, <3>2 DEF IInv, PacketInv, Idle, SlotInv
    <3> QED
      BY <2>1, <3>1, <3>3, TakeoverStep
  <2> QED
    BY <2>2, <2>3
<1>10. CASE \E code \in Codes : ConTimeout(s, code, code)
  BY <1>9, <1>10
<1>11. CASE ConTimeout(s, player[s], NoCode)
  <2>1. player[s] # NoPlayer
    BY <1>11 DEF ConTimeout
  <2> QED
    BY <1>9, <1>11, <2>1
<1> QED
  BY <1>3, <1>4, <1>5, <1>6, <1>7, <1>8, <1>10, <1>11 DEF Message

\* A close packet: the online slot of the address goes into error.
LEMMA CloseStep ==
    ASSUME IInv, NEW s \in Slots, NEW a \in Addrs, RecvClose(s, a)
    PROVE  IInv'
<1> DEFINE c == [conn[s] EXCEPT !.state = "ERROR"]
<1>0. TypeOK /\ conn[s] \in Connection /\ Idle /\ Online(s)
  BY DEF IInv, TypeOK, RecvClose, GetClientSlot
<1>1. c \in Connection /\ c.addr = conn[s].addr /\ c.state = "ERROR" /\ c.sixup = conn[s].sixup
  BY <1>0 DEF Connection
<1>2. conn' = [conn EXCEPT ![s] = c]
  BY <1>0 DEF RecvClose, TypeOK
<1>3. client' = client /\ player' = player /\ told' = told /\ unpacker' = unpacker
  BY DEF RecvClose
<1> HIDE DEF c
<1>4. TypeOK'
  BY <1>0, <1>1, <1>2, <1>3 DEF TypeOK
<1>5. ASSUME NEW t \in Slots
      PROVE  /\ conn'[t].addr = conn[t].addr
             /\ conn'[t].sixup = conn[t].sixup
             /\ conn'[t].state = "OFFLINE" <=> conn[t].state = "OFFLINE"
             /\ conn'[t].state = "OFFLINE" => conn'[t] = conn[t]
             /\ conn'[t].state = "ONLINE" => Online(t)
  BY <1>0, <1>1, <1>2 DEF TypeOK, Online
<1>6. ASSUME NEW t \in Slots
      PROVE  SlotInv(t)'
  <2>1. SlotInv(t)
    BY DEF IInv
  <2> QED
    BY <1>3, <1>5, <2>1 DEF SlotInv, HasPlayer
<1>7. OneSlotPerAddress'
  BY <1>5 DEF IInv, OneSlotPerAddress, Online
<1>8. PacketInv'
  BY <1>0, <1>3 DEF PacketInv, Idle, NoPacket
<1> QED
  BY <1>4, <1>6, <1>7, <1>8 DEF IInv

\* A change of the map: no player is left, and no client is further than
\* CONNECTING.
LEMMA MapReloadStep ==
    ASSUME IInv, MapReload
    PROVE  IInv'
<1>0. TypeOK
  BY DEF IInv
<1>1. conn' = conn /\ told' = told /\ unpacker' = unpacker /\ Idle
  BY DEF MapReload
<1>2. ASSUME NEW s \in Slots
      PROVE  /\ client'[s] \in Client
             /\ client'[s].sixup = client[s].sixup /\ client'[s].rcon = client[s].rcon
             /\ client'[s].state = "EMPTY" <=> client[s].state = "EMPTY"
             /\ ~HasPlayer(s)'
  <2>1. client[s] \in Client
    BY <1>0 DEF TypeOK
  <2>2. client'[s] = IF HasPlayer(s) \/ client[s].state = "CONNECTING"
                     THEN [client[s] EXCEPT !.state = "CONNECTING"] ELSE client[s]
    BY DEF MapReload
  <2>3. CASE HasPlayer(s) \/ client[s].state = "CONNECTING"
    BY <2>1, <2>2, <2>3 DEF Client, HasPlayer
  <2>4. CASE ~(HasPlayer(s) \/ client[s].state = "CONNECTING")
    BY <2>1, <2>2, <2>4 DEF HasPlayer
  <2> QED
    BY <2>3, <2>4
<1>3. client' = [s \in Slots |-> client'[s]] /\ player' = [s \in Slots |-> NoPlayer]
  BY DEF MapReload
<1>4. TypeOK'
  BY <1>0, <1>1, <1>2, <1>3 DEF TypeOK
<1>5. ASSUME NEW s \in Slots
      PROVE  SlotInv(s)'
  <2>1. SlotInv(s) /\ player'[s] = NoPlayer
    BY <1>3 DEF IInv
  <2> QED
    BY <1>1, <1>2, <2>1 DEF SlotInv
<1>6. OneSlotPerAddress'
  BY <1>1 DEF IInv, OneSlotPerAddress, Online
<1>7. PacketInv'
  BY <1>1 DEF PacketInv, Idle, NoPacket
<1> QED
  BY <1>4, <1>5, <1>6, <1>7 DEF IInv

\* The handlers that change no more than the login, the told computers or the
\* packet that is worked off
LEMMA SmallStep ==
    ASSUME IInv, conn' = conn, client' = client, player' = player,
           told \subseteq told', told' \subseteq {IpOf[a] : a \in Addrs},
           unpacker' \in [slot : 0 .. NumSlots, addr : Addrs \cup {NoAddr}],
           \/ unpacker' \in {unpacker, NoPacket}
           \/ unpacker'.slot \in Slots /\ Online(unpacker'.slot)
              /\ unpacker'.addr \in Addrs /\ conn[unpacker'.slot].addr = unpacker'.addr
    PROVE  IInv'
<1>1. TypeOK'
  BY DEF IInv, TypeOK
<1>2. ASSUME NEW s \in Slots
      PROVE  SlotInv(s)'
  <2>1. SlotInv(s)
    BY DEF IInv
  <2> QED
    BY <2>1 DEF SlotInv, HasPlayer
<1>3. OneSlotPerAddress'
  BY DEF IInv, OneSlotPerAddress, Online
<1>4. PacketInv'
  BY DEF IInv, PacketInv, Idle, NoPacket, Online
<1> QED
  BY <1>1, <1>2, <1>3, <1>4 DEF IInv

\* The three ways to be accepted, and the drops by the server itself
LEMMA AcceptsStep ==
    ASSUME IInv, NEW s \in Slots, NEW a \in Addrs,
           AcceptToken(s, a) \/ AcceptLegacy(s, a) \/ AcceptSeven(s, a)
    PROVE  IInv'
<1>0. TypeOK /\ SlotInv(s) /\ client[s] \in Client
  BY DEF IInv, TypeOK
<1>1. ASSUME NEW six \in BOOLEAN
      PROVE  /\ NewClient(s, six) \in Client
             /\ NewClient(s, six).state = "PREAUTH" /\ NewClient(s, six).rcon = NoAddr
             /\ NewClient(s, six).sixup = six
  BY DEF NewClient, Client
<1>2. /\ NewClientNoAuth(s) \in Client
      /\ NewClientNoAuth(s).state = "CONNECTING" /\ NewClientNoAuth(s).rcon = NoAddr
      /\ NewClientNoAuth(s).sixup = client[s].sixup
  BY <1>0 DEF NewClientNoAuth, Client
<1>3. conn[s].state = "OFFLINE" => client[s].sixup = FALSE
  BY <1>0 DEF SlotInv, Client
<1>4. Idle /\ ~ClientExists(a)
  BY DEF AcceptToken, AcceptLegacy, AcceptSeven
<1>5. CASE IpOf[a] \in told /\ TryAcceptClient(s, a, FALSE, NewClient(s, FALSE))
  BY <1>1, <1>4, <1>5, AcceptStep
<1>6. CASE IpOf[a] \in told /\ TryAcceptClient(s, a, TRUE, NewClient(s, TRUE))
  BY <1>1, <1>4, <1>6, AcceptStep
<1>7. CASE IpOf[a] \in told /\ TryAcceptClient(s, a, FALSE, NewClientNoAuth(s))
  BY <1>2, <1>3, <1>4, <1>7, AcceptStep
<1>8. CASE ~AntiSpoof /\ TryAcceptClient(s, a, FALSE, NewClient(s, FALSE))
  BY <1>1, <1>4, <1>8, AcceptStep
<1> QED
  BY <1>5, <1>6, <1>7, <1>8 DEF AcceptToken, AcceptLegacy, AcceptSeven

LEMMA DropsStep ==
    ASSUME IInv,
           Update \/ (\E s \in Slots : Kick(s)) \/ (\E a \in Addrs : Ban(IpOf[a]))
    PROVE  IInv'
<1>1. CASE Update
  BY <1>1, UpdateStep DEF Update
<1>2. ASSUME NEW D \in SUBSET Slots, Dropped(conn, D), UNCHANGED <<told, unpacker>>
      PROVE  IInv'
  <2>1. conn \in [Slots -> Connection]
    BY DEF IInv, TypeOK
  <2> QED
    BY <1>2, <2>1, DroppedStep DEF Online
<1>3. CASE \E s \in Slots : Kick(s)
  BY <1>2, <1>3 DEF Kick
<1>4. CASE \E a \in Addrs : Ban(IpOf[a])
  BY <1>2, <1>4 DEF Ban
<1> QED
  BY <1>1, <1>3, <1>4

LEMMA NextInv == IInv /\ [Next]_vars => IInv'
<1> SUFFICES ASSUME IInv, [Next]_vars
             PROVE  IInv'
  OBVIOUS
<1>0. TypeOK
  BY DEF IInv
<1>1. ASSUME NEW a \in Addrs, OnConnect(a)
      PROVE  IInv'
  BY <1>0, <1>1, SmallStep DEF OnConnect, TypeOK
<1>2. ASSUME NEW s \in Slots, NEW a \in Addrs, Rejoin(s, a)
      PROVE  IInv'
  <2> DEFINE c == [client[s] EXCEPT !.rcon = NoAddr]
  <2>1. client[s] \in Client /\ player[s] \in Codes \cup {NoCode, NoPlayer} /\ SlotInv(s)
    BY DEF IInv, TypeOK
  <2>2. c \in Client /\ c.state = client[s].state /\ c.sixup = client[s].sixup /\ c.rcon = NoAddr
    BY <2>1 DEF Client
  <2>3. /\ client' = [client EXCEPT ![s] = c]
        /\ player' = [player EXCEPT ![s] = player[s]]
        /\ conn' = conn /\ told' = told /\ unpacker' = unpacker
    BY <1>0, <1>2 DEF Rejoin, TypeOK
  <2>4. c.state \in {"READY", "INGAME"} <=> player[s] # NoPlayer
    BY <2>1, <2>2 DEF SlotInv, HasPlayer
  <2> HIDE DEF c
  <2> QED
    BY <2>1, <2>2, <2>3, <2>4, ClientStep
<1>3. ASSUME NEW s \in Slots, NEW a \in Addrs, RecvPacket(s, a)
      PROVE  IInv'
  <2>1. /\ unpacker' = [slot |-> s, addr |-> a] /\ s \in 0 .. NumSlots
        /\ Online(s) /\ conn[s].addr = a
    BY <1>3, SlotsAssumption DEF RecvPacket, GetClientSlot, Slots
  <2> QED
    BY <1>0, <1>3, <2>1, SmallStep DEF RecvPacket, TypeOK
<1>4. CASE PacketDone
  <2>1. NoPacket \in [slot : 0 .. NumSlots, addr : Addrs \cup {NoAddr}]
    BY SlotsAssumption DEF NoPacket
  <2> QED
    BY <1>0, <1>4, <2>1, SmallStep DEF PacketDone, TypeOK
<1>5. CASE UNCHANGED vars
  BY <1>0, <1>5, SmallStep DEF vars, TypeOK
<1> QED
  BY <1>1, <1>2, <1>3, <1>4, <1>5, AcceptsStep, CloseStep, MessageStep, DropsStep, MapReloadStep
     DEF Next

LEMMA Invariance == Spec => []IInv
<1>1. Init => IInv
  BY InitInv
<1>2. IInv /\ [Next]_vars => IInv'
  BY NextInv
<1> QED
  BY <1>1, <1>2, PTL DEF Spec

\* TypeOK: no handler leaves the ranges of the fields it writes, among them the
\* slot of m_RecvUnpacker, the address of a login and the code of a player.
THEOREM TypeCorrect == Spec => []TypeOK
<1>1. IInv => TypeOK
  BY DEF IInv
<1> QED
  BY <1>1, Invariance, PTL

\* The slots of CNetServer, the clients of CServer and the players of
\* CGameContext agree after every handler, so no handler that is reached for a
\* READY or INGAME client finds a null m_apPlayers, and no client is left
\* without a connection.
THEOREM SlotsStayTogether == Spec => []SlotsAgree
<1>1. IInv => SlotsAgree
  BY IInvImplies
<1> QED
  BY <1>1, Invariance, PTL

\* GetClientSlot is never faced with two online slots of one address.
THEOREM OneSlot == Spec => []OneSlotPerAddress
<1>1. IInv => OneSlotPerAddress
  BY DEF IInv
<1> QED
  BY <1>1, Invariance, PTL

\* No client, new or come by a takeover, has a login at the remote console that
\* was not made from the address its slot has.
THEOREM LoginStays == Spec => []RconStaysWithLogin
<1>1. IInv => RconStaysWithLogin
  BY IInvImplies
<1> QED
  BY <1>1, Invariance, PTL

\* CServer and CNetConnection take the client of a slot for the same version.
THEOREM VersionsAgree == Spec => []SixupAgrees
<1>1. IInv => SixupAgrees
  BY IInvImplies
<1> QED
  BY <1>1, Invariance, PTL

\* With the anti spoof setting every slot belongs to a computer that was reached.
THEOREM Reached == Spec => []ReachedBeforeAccepted
<1>1. IInv => ReachedBeforeAccepted
  BY IInvImplies
<1> QED
  BY <1>1, Invariance, PTL

---------------------------------------------------------------------------
(* The limit of sv_max_clients_per_ip: the slots of a computer grow in     *)
(* number when a client is accepted, and by no other handler.              *)

\* What counts for the limit: a client that plays, or one whose slot is kept.
Counted(s) == Online(s) \/ KeptIn(conn[s])

LEMMA IpLimitDef ==
    IpLimit <=> \A a \in Addrs : Cardinality(SlotsWithIp(IpOf[a])) <= MaxClientsPerIp
BY DEF IpLimit, SlotsWithIp

LEMMA SlotsFinite ==
    ASSUME NEW S \in SUBSET Slots
    PROVE  IsFiniteSet(S) /\ Cardinality(S) \in Nat
<1>1. IsFiniteSet(Slots)
  BY SlotsAssumption, FS_Interval DEF Slots
<1> QED
  BY <1>1, FS_Subset, FS_CardinalityType

\* A handler after which no slot counts that did not, or that counted for
\* another computer.
LEMMA NoMoreSlots ==
    ASSUME IpLimit,
           \A s \in Slots : Counted(s)' => Counted(s) /\ conn'[s].addr = conn[s].addr
    PROVE  IpLimit'
<1>1. ASSUME NEW a \in Addrs
      PROVE  Cardinality(SlotsWithIp(IpOf[a]))' <= MaxClientsPerIp
  <2> DEFINE S == SlotsWithIp(IpOf[a])
             T == {s \in Slots : Counted(s)' /\ IpOf[conn'[s].addr] = IpOf[a]}
  <2>1. T = S' /\ T \in SUBSET S /\ S \in SUBSET Slots
    BY DEF SlotsWithIp, Counted
  <2>2. Cardinality(S) <= MaxClientsPerIp
    BY IpLimitDef
  <2> HIDE DEF S, T
  <2>3. Cardinality(T) <= Cardinality(S) /\ Cardinality(T) \in Nat /\ Cardinality(S) \in Nat
    BY <2>1, SlotsFinite, FS_Subset
  <2>4. Cardinality(T) <= MaxClientsPerIp
    BY <2>2, <2>3, SlotsAssumption
  <2> QED
    BY <2>1, <2>4 DEF S
<1> QED
  BY <1>1 DEF IpLimit, SlotsWithIp

\* Accepting adds one slot to those of one computer, which had less than the
\* limit.
LEMMA AcceptLimit ==
    ASSUME IInv, IpLimit, NEW s \in Slots, NEW a \in Addrs, NEW six, NEW c,
           TryAcceptClient(s, a, six, c)
    PROVE  IpLimit'
<1> DEFINE new == [NoConn EXCEPT !.state = "ONLINE", !.addr = a, !.sixup = six]
<1>1. /\ conn'[s].addr = a /\ Counted(s)'
      /\ \A t \in Slots \ {s} : conn'[t] = conn[t]
      /\ ~Counted(s)
  <2>1. new.state = "ONLINE" /\ new.addr = a
    BY DEF NoConn
  <2>2. conn' = [conn EXCEPT ![s] = new] /\ conn[s].state = "OFFLINE"
    BY DEF TryAcceptClient
  <2> HIDE DEF new
  <2>3. conn \in [Slots -> Connection]
    BY DEF IInv, TypeOK
  <2> QED
    BY <2>1, <2>2, <2>3 DEF Counted, Online, KeptIn
<1>2. ASSUME NEW b \in Addrs
      PROVE  Cardinality(SlotsWithIp(IpOf[b]))' <= MaxClientsPerIp
  <2> DEFINE S == SlotsWithIp(IpOf[b])
             T == {t \in Slots : Counted(t)' /\ IpOf[conn'[t].addr] = IpOf[b]}
  <2>1. T = S' /\ S \in SUBSET Slots
    BY DEF SlotsWithIp, Counted
  <2>2. Cardinality(S) <= MaxClientsPerIp
    BY IpLimitDef
  <2>3. T = IF IpOf[a] = IpOf[b] THEN S \cup {s} ELSE S
    BY <1>1 DEF SlotsWithIp, Counted, Online
  <2>4. IpOf[a] = IpOf[b] => Cardinality(S) + 1 <= MaxClientsPerIp
    BY DEF TryAcceptClient
  <2>5. s \notin S
    BY <1>1 DEF SlotsWithIp, Counted
  <2> HIDE DEF S, T
  <2>6. IsFiniteSet(S) /\ Cardinality(S) \in Nat
    BY <2>1, SlotsFinite
  <2>7. Cardinality(S \cup {s}) = Cardinality(S) + 1
    BY <2>5, <2>6, FS_AddElement
  <2>8. Cardinality(T) <= MaxClientsPerIp
    BY <2>2, <2>3, <2>4, <2>7
  <2> QED
    BY <2>1, <2>8 DEF S
<1> QED
  BY <1>2 DEF IpLimit, SlotsWithIp

\* A takeover: slot t counts for the computer of slot s, which counts no more.
LEMMA TakeoverLimit ==
    ASSUME IInv, IpLimit, NEW s \in Slots, NEW t \in Slots \ {s}, Online(s), SetTimedOut(t, s)
    PROVE  IpLimit'
<1>1. conn \in [Slots -> Connection]
  BY DEF IInv, TypeOK
<1>2. /\ conn'[s] = NoConn
      /\ \A u \in Slots \ {s, t} : conn'[u] = conn[u]
  BY <1>1 DEF SetTimedOut
<1>3. conn'[t].state = "ONLINE" /\ conn'[t].addr = conn[s].addr
  BY <1>1 DEF SetTimedOut, Connection
<1>4. ~Counted(s)'
  BY <1>2 DEF Counted, Online, KeptIn, NoConn
<1>5. ASSUME NEW a \in Addrs
      PROVE  Cardinality(SlotsWithIp(IpOf[a]))' <= MaxClientsPerIp
  <2> DEFINE S == SlotsWithIp(IpOf[a])
             T == {u \in Slots : Counted(u)' /\ IpOf[conn'[u].addr] = IpOf[a]}
  <2>1. T = S' /\ T \in SUBSET Slots /\ S \in SUBSET Slots
    BY DEF SlotsWithIp, Counted
  <2>2. Cardinality(S) <= MaxClientsPerIp
    BY IpLimitDef
  <2>3. T \in SUBSET S \/ (s \in S /\ T \in SUBSET ((S \ {s}) \cup {t}))
    <3>1. s \in S <=> IpOf[conn[s].addr] = IpOf[a]
      BY DEF SlotsWithIp
    <3>2. t \in T <=> IpOf[conn[s].addr] = IpOf[a]
      BY <1>3 DEF Counted, Online
    <3>3. T \ {t} \subseteq S \ {s}
      BY <1>2, <1>4 DEF SlotsWithIp, Counted, Online
    <3> HIDE DEF S, T
    <3> QED
      BY <3>1, <3>2, <3>3
  <2> HIDE DEF S, T
  <2>4. IsFiniteSet(S) /\ Cardinality(S) \in Nat /\ Cardinality(T) \in Nat
    BY <2>1, SlotsFinite
  <2>5. Cardinality(T) <= Cardinality(S)
    <3>1. CASE T \in SUBSET S
      BY <2>4, <3>1, FS_Subset
    <3>2. CASE s \in S /\ T \in SUBSET ((S \ {s}) \cup {t})
      <4> DEFINE R == S \ {s}
      <4>1. IsFiniteSet(R) /\ Cardinality(R) = Cardinality(S) - 1
        BY <2>4, <3>2, FS_RemoveElement
      <4>2. Cardinality(R) \in Nat
        BY <4>1, FS_CardinalityType
      <4>3. T \in SUBSET (R \cup {t})
        BY <3>2
      <4> HIDE DEF R
      <4>4. IsFiniteSet(R \cup {t}) /\ Cardinality(R \cup {t}) <= Cardinality(R) + 1
        <5>1. /\ IsFiniteSet(R \cup {t})
              /\ Cardinality(R \cup {t}) = IF t \in R THEN Cardinality(R) ELSE Cardinality(R) + 1
          BY <4>1, FS_AddElement
        <5> QED
          BY <4>2, <5>1
      <4>5. Cardinality(R \cup {t}) \in Nat
        BY <4>4, FS_CardinalityType
      <4>6. Cardinality(T) <= Cardinality(R \cup {t})
        BY <4>3, <4>4, FS_Subset
      <4> QED
        BY <2>4, <4>1, <4>2, <4>4, <4>5, <4>6
    <3> QED
      BY <2>3, <3>1, <3>2
  <2>6. Cardinality(T) <= MaxClientsPerIp
    BY <2>2, <2>4, <2>5, SlotsAssumption
  <2> QED
    BY <2>1, <2>6 DEF S
<1> QED
  BY <1>5 DEF IpLimit, SlotsWithIp

LEMMA MessageLimit ==
    ASSUME IInv, IpLimit, NEW s \in Slots, unpacker.slot = s, Message(s)
    PROVE  IpLimit'
<1>1. CASE conn' = conn
  BY <1>1, NoMoreSlots DEF Counted, Online, KeptIn
<1>2. ASSUME NEW wanted, NEW given, ConTimeout(s, wanted, given)
      PROVE  IpLimit'
  <2>1. Online(s)
    <3>1. unpacker # NoPacket
      BY SlotsAssumption DEF NoPacket, Slots
    <3>2. client[s].state = "INGAME" /\ SlotInv(s)
      BY <1>2 DEF ConTimeout, IInv
    <3> QED
      BY <3>1, <3>2 DEF IInv, PacketInv, Idle, SlotInv
  <2>2. CASE SetTimeoutProtected(s, given)
    <3>0. conn \in [Slots -> Connection]
      BY DEF IInv, TypeOK
    <3>1. ASSUME NEW t \in Slots
          PROVE  /\ conn'[t].addr = conn[t].addr
                 /\ t # s => conn'[t] = conn[t]
      BY <2>2, <3>0 DEF SetTimeoutProtected, Connection
    <3> QED
      BY <2>1, <3>1, NoMoreSlots DEF Counted, Online, KeptIn
  <2>3. CASE ~SetTimeoutProtected(s, given)
    <3>1. PICK t \in Slots \ {s} : SetTimedOut(t, s)
      BY <1>2, <2>3 DEF ConTimeout
    <3> QED
      BY <2>1, <3>1, TakeoverLimit
  <2> QED
    BY <2>2, <2>3
<1> QED
  BY <1>1, <1>2
     DEF Message, ClientVer, Info, Ready, EnterGame, RconAuth, RconLogout

\* A drop frees slots; Update keeps none that nobody has, and lets none go on
\* that was in error.
LEMMA DropLimit ==
    ASSUME IpLimit, NEW c \in [Slots -> Connection], NEW D \in SUBSET Slots, Dropped(c, D),
           \A s \in Slots \ D : Online(s)' \/ KeptIn(c[s])
                                => Counted(s) /\ c[s].addr = conn[s].addr
    PROVE  IpLimit'
<1>1. ASSUME NEW s \in Slots, Counted(s)'
      PROVE  Counted(s) /\ conn'[s].addr = conn[s].addr
  <2>1. s \notin D
    BY <1>1 DEF Dropped, Counted, Online, KeptIn, NoConn
  <2>2. conn'[s] = c[s]
    BY <2>1 DEF Dropped
  <2> QED
    BY <1>1, <2>1, <2>2 DEF Counted
<1> QED
  BY <1>1, NoMoreSlots

LEMMA UpdateLimit ==
    ASSUME IInv, IpLimit, Update
    PROVE  IpLimit'
<1>1. PICK silent \in SUBSET {s \in Slots : Online(s)},
           over \in SUBSET {s \in Slots : KeptIn(conn[s])} : UpdateWith(silent, over)
  BY DEF Update
<1> DEFINE c == [s \in Slots |-> UpdateConn(conn[s], s \in silent, s \in over)]
           D == {s \in Slots : c[s].state = "ERROR" /\ ~KeptIn(c[s])}
<1>2. ASSUME NEW s \in Slots
      PROVE  /\ c[s] \in Connection /\ c[s].addr = conn[s].addr
             /\ c[s].state = "ONLINE" \/ KeptIn(c[s]) => Counted(s)
  <2>1. conn[s] \in Connection
    BY DEF IInv, TypeOK
  <2>2. c[s] = UpdateConn(conn[s], s \in silent, s \in over)
    OBVIOUS
  <2> HIDE DEF c
  <2> QED
    BY <2>1, <2>2 DEF UpdateConn, Connection, Counted, Online, KeptIn
<1>3. Dropped(c, D)
  BY <1>1 DEF UpdateWith
<1>4. c \in [Slots -> Connection] /\ D \in SUBSET Slots
  BY <1>2
<1> HIDE DEF c, D
<1>5. ASSUME NEW s \in Slots \ D, Online(s)' \/ KeptIn(c[s])
      PROVE  Counted(s) /\ c[s].addr = conn[s].addr
  BY <1>2, <1>3, <1>5 DEF Dropped, Online
<1> QED
  BY <1>3, <1>4, <1>5, DropLimit

LEMMA LimitStep == IInv /\ IpLimit /\ [Next]_vars => IpLimit'
<1> SUFFICES ASSUME IInv, IpLimit, [Next]_vars
             PROVE  IpLimit'
  OBVIOUS
<1>0. conn \in [Slots -> Connection]
  BY DEF IInv, TypeOK
<1>1. CASE conn' = conn
  BY <1>1, NoMoreSlots DEF Counted, Online, KeptIn
<1>2. ASSUME NEW s \in Slots, NEW a \in Addrs,
             AcceptToken(s, a) \/ AcceptLegacy(s, a) \/ AcceptSeven(s, a)
      PROVE  IpLimit'
  BY <1>2, AcceptLimit DEF AcceptToken, AcceptLegacy, AcceptSeven
<1>3. ASSUME NEW s \in Slots, NEW a \in Addrs, RecvClose(s, a)
      PROVE  IpLimit'
  <2>1. Online(s) /\ conn' = [conn EXCEPT ![s].state = "ERROR"]
    BY <1>3 DEF RecvClose, GetClientSlot
  <2>2. ASSUME NEW t \in Slots
        PROVE  conn'[t].addr = conn[t].addr /\ (t # s => conn'[t] = conn[t])
    BY <1>0, <2>1 DEF Connection
  <2> QED
    BY <2>1, <2>2, NoMoreSlots DEF Counted, Online, KeptIn
<1>4. ASSUME NEW D \in SUBSET Slots, Dropped(conn, D)
      PROVE  IpLimit'
  <2>1. ASSUME NEW s \in Slots \ D, Online(s)' \/ KeptIn(conn[s])
        PROVE  Counted(s) /\ conn[s].addr = conn[s].addr
    BY <1>4, <2>1 DEF Dropped, Online, Counted
  <2> QED
    BY <1>0, <1>4, <2>1, DropLimit
<1>5. CASE \E s \in Slots : Kick(s)
  BY <1>4, <1>5 DEF Kick
<1>6. CASE \E a \in Addrs : Ban(IpOf[a])
  BY <1>4, <1>6 DEF Ban
<1>7. CASE conn' # conn /\ Next
  BY <1>2, <1>3, <1>5, <1>6, <1>7, UpdateLimit, MessageLimit
     DEF Next, OnConnect, Rejoin, RecvPacket, PacketDone, MapReload
<1> QED
  BY <1>1, <1>7 DEF vars

\* No computer ever has more than sv_max_clients_per_ip slots, counting those
\* that are kept for it: neither a code that brings back a lost slot nor a
\* player who takes over a slot from another computer goes past TryAcceptClient.
THEOREM LimitHolds == Spec => []IpLimit
<1>1. Init => IpLimit
  <2> SUFFICES ASSUME Init
               PROVE  IpLimit
    OBVIOUS
  <2>1. ASSUME NEW a \in Addrs
        PROVE  SlotsWithIp(IpOf[a]) = {}
    BY DEF Init, NoConn, SlotsWithIp, Online, KeptIn
  <2>2. Cardinality({}) = 0
    BY FS_EmptySet
  <2> QED
    BY <2>1, <2>2, IpLimitDef, SlotsAssumption
<1>2. IInv /\ IpLimit /\ [Next]_vars => IpLimit'
  BY LimitStep
<1> QED
  BY <1>1, <1>2, Invariance, PTL DEF Spec

---------------------------------------------------------------------------
(* Every handler is a step of SeatTable or leaves the seats alone.         *)

\* A slot is free exactly if its connection is offline, and held exactly if it
\* is online.
LEMMA SeatStates ==
    ASSUME IInv
    PROVE  /\ Seats!Free = {s \in Slots : conn[s].state = "OFFLINE"}
           /\ Seats!Held = {s \in Slots : Online(s)}
<1>1. ASSUME NEW s \in Slots
      PROVE  /\ conn[s].addr = NoAddr <=> conn[s].state = "OFFLINE"
             /\ conn[s].state \in {"OFFLINE", "ONLINE", "ERROR"}
  BY AddrAssumption DEF IInv, SlotInv, NoConn, TypeOK, Connection
<1>2. Seats!Free = {s \in Slots : conn[s].state = "OFFLINE"}
  BY <1>1 DEF Seats!Free
<1>3. Seats!Held = {s \in Slots : Online(s)}
  BY <1>1, <1>2 DEF Seats!Held, Online
<1> QED
  BY <1>2, <1>3

LEMMA SeatsTake ==
    ASSUME IInv, NEW s \in Slots, NEW a \in Addrs,
           AcceptToken(s, a) \/ AcceptLegacy(s, a) \/ AcceptSeven(s, a)
    PROVE  Seats!Next
<1> DEFINE new(six) == [NoConn EXCEPT !.state = "ONLINE", !.addr = a, !.sixup = six]
<1>1. PICK six : conn' = [conn EXCEPT ![s] = new(six)] /\ conn[s].state = "OFFLINE"
  BY DEF AcceptToken, AcceptLegacy, AcceptSeven, TryAcceptClient
<1>2. new(six).state = "ONLINE" /\ new(six).addr = a
  BY DEF NoConn
<1>3. ~ClientExists(a)
  BY DEF AcceptToken, AcceptLegacy, AcceptSeven
<1> HIDE DEF new
<1>4. ASSUME NEW t \in Slots
      PROVE  /\ conn'[t].addr = IF t = s THEN a ELSE conn[t].addr
             /\ conn'[t].state = "ERROR" <=> conn[t].state = "ERROR"
  BY <1>1, <1>2 DEF IInv, TypeOK
<1>5. Seats!Take(s, a)
  BY <1>1, <1>3, <1>4, SeatStates DEF Seats!Take, ClientExists
<1> QED
  BY <1>5 DEF Seats!Next

LEMMA SeatsLeave ==
    ASSUME IInv, NEW c \in [Slots -> Connection], NEW D \in SUBSET Slots,
           Dropped(c, D),
           \A s \in Slots : /\ c[s].addr = conn[s].addr
                            /\ conn[s].state = "ERROR" => c[s].state = "ERROR"
                            /\ conn[s].state = "OFFLINE" => c[s].state = "OFFLINE"
    PROVE  Seats!Next
<1> DEFINE gone == {s \in Slots : Online(s) /\ c[s].state = "ERROR"}
           freed == {s \in D : conn[s].state # "OFFLINE"}
<1>0. ASSUME NEW s \in Slots
      PROVE  /\ conn[s].state \in {"OFFLINE", "ONLINE", "ERROR"}
             /\ conn[s].state = "OFFLINE" <=> conn[s].addr = NoAddr
  BY AddrAssumption DEF IInv, TypeOK, Connection, SlotInv, NoConn
<1>1. ASSUME NEW s \in Slots
      PROVE  /\ conn'[s].addr = IF s \in freed THEN NoAddr ELSE conn[s].addr
             /\ conn'[s].state = "ERROR" <=>
                   (conn[s].state = "ERROR" \/ s \in gone) /\ s \notin freed
  <2>1. conn'[s] = IF s \in D THEN NoConn ELSE c[s]
    BY DEF Dropped
  <2> QED
    BY <1>0, <2>1 DEF NoConn, Online
<1>2. gone \subseteq Seats!Held
  BY SeatStates
<1>3. freed \subseteq Seats!Held \cup {s \in Slots : conn[s].state = "ERROR"}
  BY <1>0, SeatStates DEF Online
<1>4. gone \in SUBSET Slots /\ freed \in SUBSET Slots
  OBVIOUS
<1> HIDE DEF gone, freed
<1>5. /\ [s \in Slots |-> conn'[s].addr] =
            [s \in Slots |-> IF s \in freed THEN NoAddr ELSE [u \in Slots |-> conn[u].addr][s]]
      /\ {s \in Slots : conn'[s].state = "ERROR"} =
            ({s \in Slots : conn[s].state = "ERROR"} \cup gone) \ freed
  BY <1>1, <1>4
<1>6. PICK g, f \in SUBSET Slots : g = gone /\ f = freed
  BY <1>4
<1>7. Seats!Leave(g, f)
  BY <1>2, <1>3, <1>5, <1>6 DEF Seats!Leave
<1> QED
  BY <1>7 DEF Seats!Next

LEMMA SeatsReclaim ==
    ASSUME IInv, NEW s \in Slots, NEW t \in Slots \ {s},
           Online(s), conn[t].state = "ERROR", SetTimedOut(t, s)
    PROVE  Seats!Next
<1>0. TypeOK
  BY DEF IInv
<1>1. ASSUME NEW u \in Slots
      PROVE  /\ conn'[u].addr = IF u = t THEN conn[s].addr
                                ELSE IF u = s THEN NoAddr ELSE conn[u].addr
             /\ conn'[u].state = "ERROR" <=> conn[u].state = "ERROR" /\ u # t
  <2>1. /\ conn'[u] = IF u = s THEN NoConn
                      ELSE IF u = t
                      THEN [conn[t] EXCEPT !.state = "ONLINE", !.addr = conn[s].addr,
                                           !.sixup = conn[s].sixup]
                      ELSE conn[u]
        /\ conn[t] \in Connection
    BY <1>0 DEF SetTimedOut, TypeOK
  <2>2. CASE u = s
    BY <2>1, <2>2 DEF NoConn, Online
  <2>3. CASE u = t
    BY <2>1, <2>3 DEF Connection
  <2>4. CASE u \notin {s, t}
    BY <2>1, <2>4
  <2> QED
    BY <2>2, <2>3, <2>4
<1>2. Seats!Reclaim(t, s)
  BY <1>1, SeatStates DEF Seats!Reclaim
<1> QED
  BY <1>2 DEF Seats!Next

\* The messages: a takeover is a Reclaim, all others leave the seats alone.
LEMMA SeatsMessage ==
    ASSUME IInv, NEW s \in Slots, unpacker.slot = s, Message(s)
    PROVE  Seats!Next \/ UNCHANGED Seats!seats
<1>1. CASE conn' = conn
  BY <1>1 DEF Seats!seats
<1>2. ASSUME NEW wanted, NEW given, ConTimeout(s, wanted, given)
      PROVE  Seats!Next \/ UNCHANGED Seats!seats
  <2>1. CASE SetTimeoutProtected(s, given)
    <3>0. TypeOK /\ conn[s] \in Connection
      BY DEF IInv, TypeOK
    <3>1. ASSUME NEW t \in Slots
          PROVE  conn'[t].addr = conn[t].addr /\ conn'[t].state = conn[t].state
      BY <2>1, <3>0 DEF SetTimeoutProtected, TypeOK, Connection
    <3> QED
      BY <3>1 DEF Seats!seats
  <2>2. CASE ~SetTimeoutProtected(s, given)
    <3>1. PICK t \in Slots \ {s} : conn[t].state = "ERROR" /\ SetTimedOut(t, s)
      BY <1>2, <2>2 DEF ConTimeout
    <3>2. unpacker # NoPacket
      BY SlotsAssumption DEF NoPacket, Slots
    <3>3. client[s].state = "INGAME" /\ SlotInv(s)
      BY <1>2 DEF ConTimeout, IInv
    <3>4. Online(s)
      BY <3>2, <3>3 DEF IInv, PacketInv, Idle, SlotInv
    <3> QED
      BY <3>1, <3>4, SeatsReclaim
  <2> QED
    BY <2>1, <2>2
<1> QED
  BY <1>1, <1>2
     DEF Message, ClientVer, Info, Ready, EnterGame, RconAuth, RconLogout

LEMMA SeatsStep == IInv /\ [Next]_vars => [Seats!Next]_(Seats!seats)
<1> SUFFICES ASSUME IInv, [Next]_vars
             PROVE  Seats!Next \/ UNCHANGED Seats!seats
  OBVIOUS
<1>0. conn \in [Slots -> Connection]
  BY DEF IInv, TypeOK
<1>1. CASE conn' = conn
  BY <1>1 DEF Seats!seats
<1>2. ASSUME NEW s \in Slots, NEW a \in Addrs, RecvClose(s, a)
      PROVE  Seats!Next
  <2>1. ASSUME NEW t \in Slots
        PROVE  /\ conn'[t].addr = conn[t].addr
               /\ conn'[t].state = "ERROR" <=> conn[t].state = "ERROR" \/ t = s
    <3>1. conn'[t] = IF t = s THEN [conn[t] EXCEPT !.state = "ERROR"] ELSE conn[t]
      BY <1>0, <1>2 DEF RecvClose
    <3>2. conn[t] \in Connection
      BY <1>0
    <3> QED
      BY <3>1, <3>2 DEF Connection
  <2>2. s \in Seats!Held
    BY <1>2, SeatStates DEF RecvClose, GetClientSlot
  <2>3. Seats!Leave({s}, {})
    BY <2>1, <2>2 DEF Seats!Leave
  <2> QED
    BY <2>3 DEF Seats!Next
<1>3. CASE Update
  <2>1. PICK silent \in SUBSET {s \in Slots : Online(s)},
             over \in SUBSET {s \in Slots : KeptIn(conn[s])} : UpdateWith(silent, over)
    BY <1>3 DEF Update
  <2> DEFINE c == [s \in Slots |-> UpdateConn(conn[s], s \in silent, s \in over)]
             D == {s \in Slots : c[s].state = "ERROR" /\ ~KeptIn(c[s])}
  <2>2. Dropped(c, D)
    BY <2>1 DEF UpdateWith
  <2>3. ASSUME NEW s \in Slots
        PROVE  /\ c[s] \in Connection
               /\ c[s].addr = conn[s].addr
               /\ conn[s].state = "ERROR" => c[s].state = "ERROR"
               /\ conn[s].state = "OFFLINE" => c[s].state = "OFFLINE"
    <3>1. conn[s] \in Connection
      BY <1>0
    <3>2. c[s] = UpdateConn(conn[s], s \in silent, s \in over)
      OBVIOUS
    <3>3. c[s] \in {conn[s], [conn[s] EXCEPT !.situation = FALSE]}
             \/ (/\ conn[s].state = "ONLINE"
                 /\ c[s] = [conn[s] EXCEPT !.state = "ERROR", !.situation = TRUE])
      BY <3>2 DEF UpdateConn
    <3> HIDE DEF c
    <3> QED
      BY <3>1, <3>3 DEF Connection
  <2>4. c \in [Slots -> Connection] /\ D \in SUBSET Slots
    BY <2>3
  <2> HIDE DEF c, D
  <2> QED
    BY <2>2, <2>3, <2>4, SeatsLeave
<1>4. ASSUME NEW D \in SUBSET Slots, Dropped(conn, D)
      PROVE  Seats!Next
  BY <1>0, <1>4, SeatsLeave
<1>5. CASE \E s \in Slots : Kick(s)
  BY <1>4, <1>5 DEF Kick
<1>6. CASE \E a \in Addrs : Ban(IpOf[a])
  BY <1>4, <1>6 DEF Ban
<1>7. CASE conn' # conn /\ Next
  BY <1>2, <1>3, <1>5, <1>6, <1>7, SeatsTake, SeatsMessage
     DEF Next, OnConnect, Rejoin, RecvPacket, PacketDone, MapReload
<1> QED
  BY <1>1, <1>7 DEF vars

\* CNetServer implements SeatTable: whatever packets, messages, commands and
\* timers come in whatever order, an address gets a slot only if it holds none,
\* and a slot whose client is gone changes hands only for the slot of the one
\* who takes it over.
THEOREM ImplementsSeatTable == Spec => SeatSpec
<1>1. Init => Seats!Init
  <2> SUFFICES ASSUME Init
               PROVE  Seats!Init
    OBVIOUS
  <2>1. \A s \in Slots : conn[s].addr = NoAddr /\ conn[s].state # "ERROR"
    BY DEF Init, NoConn
  <2> QED
    BY <2>1 DEF Seats!Init
<1>2. IInv /\ [Next]_vars => [Seats!Next]_(Seats!seats)
  BY SeatsStep
<1> QED
  BY <1>1, <1>2, Invariance, PTL DEF Spec, SeatSpec, Seats!Spec

==============================================================================
