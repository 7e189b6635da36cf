----------------------------- MODULE NetServer -----------------------------
(***************************************************************************)
(* The slots of the server: CNetServer with the connection of every slot,  *)
(* the callbacks by which CServer follows it with a client state, and the  *)
(* player that CGameContext keeps for a client that is ready.              *)
(*                                                                         *)
(* One thread runs all of it, so every handler is one action.  What        *)
(* interleaves is the handlers: packets of several addresses in any order, *)
(* the messages of one packet, the timers of Update, commands of the       *)
(* console and changes of the map.  The sequence numbers of a connection   *)
(* are the subject of NetConnection and left out here; so a message that   *)
(* is worked off after its slot was reset may still reach its handler, as  *)
(* it does in the code when the number fits by a wrap.                     *)
(***************************************************************************)
EXTENDS Naturals, FiniteSets

CONSTANTS
    NumSlots,        \* MaxClients()
    MaxClientsPerIp, \* m_MaxClientsPerIp, while SetMaxClientsPerIp leaves it
    Addrs,           \* addresses with their ports
    IpOf,            \* the address without its port
    TokenAddrs,      \* where DDNet clients connect from (OnTokenCtrlMsg),
    LegacyAddrs,     \* old clients (OnPreConnMsg),
    SevenAddrs,      \* and clients of version 0.7 (OnSixupCtrlMsg)
    RconAddrs,       \* who knows the password of the remote console
    AntiSpoof,       \* sv_vanilla_antispoof, and no password is set
    Codes,           \* codes of the chat command /timeout
    NoCode,          \* the code of a player who set none
    NoPlayer,        \* m_apPlayers[s] is null
    NoAddr

ASSUME SlotsAssumption == NumSlots \in Nat \ {0} /\ MaxClientsPerIp \in Nat \ {0}
ASSUME AddrAssumption ==
    /\ NoAddr \notin Addrs
    /\ TokenAddrs \cup LegacyAddrs \cup SevenAddrs \cup RconAddrs \subseteq Addrs
    /\ AntiSpoof \in BOOLEAN
ASSUME CodeAssumption ==
    NoCode \notin Codes /\ NoPlayer \notin Codes /\ NoCode # NoPlayer

VARIABLES
    conn,      \* slot -> m_aSlots[s].m_Connection
    client,    \* slot -> m_aClients[s]
    player,    \* slot -> m_aTimeoutCode of m_apPlayers[s], or NoPlayer
    told,      \* the computers that were sent their token (GetToken omits the port)
    unpacker   \* m_RecvUnpacker: slot and address of the packet worked off

vars == <<conn, client, player, told, unpacker>>

Slots == 0 .. NumSlots - 1

NoConn == [state |-> "OFFLINE", addr |-> NoAddr, protected |-> FALSE,
           situation |-> FALSE, sixup |-> FALSE]

\* rcon: the address that logged in, NoAddr for AUTHED_NO
NoClient == [state |-> "EMPTY", sixup |-> FALSE, rcon |-> NoAddr]

NoPacket == [slot |-> NumSlots, addr |-> NoAddr]

Init == /\ conn = [s \in Slots |-> NoConn]
        /\ client = [s \in Slots |-> NoClient]
        /\ player = [s \in Slots |-> NoPlayer]
        /\ told = {}
        /\ unpacker = NoPacket

Online(s)   == conn[s].state = "ONLINE"
HasPlayer(s) == client[s].state \in {"READY", "INGAME"}  \* m_State >= STATE_READY
Idle == unpacker = NoPacket

\* the slot kept by the timeout protection, which neither Update drops nor
\* NumClientsWithAddr passes over
KeptIn(c) == c.state = "ERROR" /\ c.protected /\ c.situation

ClientExists(a) == \E s \in Slots : Online(s) /\ conn[s].addr = a

GetClientSlot(s, a) ==
    /\ Online(s) /\ conn[s].addr = a
    /\ \A t \in Slots : t > s => ~(Online(t) /\ conn[t].addr = a)

\* Bug: only the slots that somebody plays on are counted.
SlotsWithIpOnline(ip) == {s \in Slots : Online(s) /\ IpOf[conn[s].addr] = ip}

SlotsWithIp(ip) ==
    {s \in Slots : (Online(s) \/ KeptIn(conn[s])) /\ IpOf[conn[s].addr] = ip}

---------------------------------------------------------------------------
(* Packets from addresses without a slot, and control messages.            *)

\* A connection attempt is answered with the token of its computer; in a live
\* session only if it is of the kind that has tokens.
OnConnect(a) ==
    /\ Idle
    /\ IF ClientExists(a) THEN a \in TokenAddrs
       ELSE a \in TokenAddrs \cup SevenAddrs \/ (a \in LegacyAddrs /\ AntiSpoof)
    /\ told' = told \cup {IpOf[a]}
    /\ UNCHANGED <<conn, client, player, unpacker>>

\* NewClientCallback and NewClientNoAuthCallback
NewClient(s, six) == [state |-> "PREAUTH", sixup |-> six, rcon |-> NoAddr]

NewClientNoAuth(s) == [client[s] EXCEPT !.state = "CONNECTING", !.rcon = NoAddr]

\* The accepting half of TryAcceptClient; a refusal changes nothing here.
TryAcceptClient(s, a, six, new) ==
    /\ Cardinality(SlotsWithIp(IpOf[a])) + 1 <= MaxClientsPerIp
    /\ conn[s].state = "OFFLINE"
    /\ \A t \in Slots : t < s => conn[t].state # "OFFLINE"
    /\ conn' = [conn EXCEPT ![s] =
                   [NoConn EXCEPT !.state = "ONLINE", !.addr = a, !.sixup = six]]
    /\ client' = [client EXCEPT ![s] = new]
    /\ UNCHANGED <<player, told, unpacker>>

\* Bug: the token is not compared.
AcceptTokenUnchecked(s, a) ==
    /\ Idle /\ ~ClientExists(a)
    /\ a \in TokenAddrs
    /\ TryAcceptClient(s, a, FALSE, NewClient(s, FALSE))

AcceptToken(s, a) ==
    /\ Idle /\ ~ClientExists(a)
    /\ a \in TokenAddrs /\ IpOf[a] \in told
    /\ TryAcceptClient(s, a, FALSE, NewClient(s, FALSE))

\* An old client returns the token in its first input, or is accepted at once.
AcceptLegacy(s, a) ==
    /\ Idle /\ ~ClientExists(a)
    /\ a \in LegacyAddrs
    /\ \/ AntiSpoof /\ IpOf[a] \in told /\ TryAcceptClient(s, a, FALSE, NewClientNoAuth(s))
       \/ ~AntiSpoof /\ TryAcceptClient(s, a, FALSE, NewClient(s, FALSE))

AcceptSeven(s, a) ==
    /\ Idle /\ ~ClientExists(a)
    /\ a \in SevenAddrs /\ IpOf[a] \in told
    /\ TryAcceptClient(s, a, TRUE, NewClient(s, TRUE))

\* The accept packet of the handshake in a live session: Reset(true) keeps the
\* state and the flags of the connection, ClientRejoinCallback ends the login.
Rejoin(s, a) ==
    /\ Idle
    /\ GetClientSlot(s, a)
    /\ a \in TokenAddrs /\ IpOf[a] \in told
    /\ client' = [client EXCEPT ![s].rcon = NoAddr]
    /\ UNCHANGED <<conn, player, told, unpacker>>

\* Feed of a close packet
RecvClose(s, a) ==
    /\ Idle
    /\ GetClientSlot(s, a)
    /\ conn' = [conn EXCEPT ![s].state = "ERROR"]
    /\ UNCHANGED <<client, player, told, unpacker>>

\* Feed of a packet with chunks, which Recv then hands out one by one
RecvPacket(s, a) ==
    /\ Idle
    /\ GetClientSlot(s, a)
    /\ unpacker' = [slot |-> s, addr |-> a]
    /\ UNCHANGED <<conn, client, player, told>>

PacketDone ==
    /\ ~Idle
    /\ unpacker' = NoPacket
    /\ UNCHANGED <<conn, client, player, told>>

---------------------------------------------------------------------------
(* Dropping: DelClientCallback and Disconnect of every slot of a set.      *)

Dropped(c, D) ==
    /\ conn' = [s \in Slots |-> IF s \in D THEN NoConn ELSE c[s]]
    /\ client' = [s \in Slots |-> IF s \in D THEN NoClient ELSE client[s]]
    /\ player' = [s \in Slots |->
                     IF s \in D /\ HasPlayer(s) THEN NoPlayer ELSE player[s]]

\* Bug: the situation ends only when the client is heard of again.
UpdateConnKeeps(c, silent, over) ==
    IF c.state = "ONLINE"
    THEN IF silent THEN [c EXCEPT !.state = "ERROR", !.situation = TRUE]
                   ELSE [c EXCEPT !.situation = FALSE]
    ELSE c

\* Update of every slot: the slots of silent have not been heard of, or have
\* not acknowledged, for too long; the protection of the slots over is over.
UpdateConn(c, silent, over) ==
    IF c.state = "ONLINE"
    THEN IF silent THEN [c EXCEPT !.state = "ERROR", !.situation = TRUE]
                   ELSE [c EXCEPT !.situation = FALSE]
    ELSE IF over THEN [c EXCEPT !.situation = FALSE] ELSE c

UpdateWith(silent, over) ==
    LET c == [s \in Slots |-> UpdateConn(conn[s], s \in silent, s \in over)]
    IN Dropped(c, {s \in Slots : c[s].state = "ERROR" /\ ~KeptIn(c[s])})

Update ==
    /\ Idle
    /\ \E silent \in SUBSET {s \in Slots : Online(s)},
          over \in SUBSET {s \in Slots : KeptIn(conn[s])} :
          UpdateWith(silent, over)
    /\ UNCHANGED <<told, unpacker>>

\* Kick, and all the reasons for which a handler of messages drops its client
Kick(s) ==
    /\ client[s].state # "EMPTY"
    /\ Dropped(conn, {s})
    /\ UNCHANGED <<told, unpacker>>

\* BanExt drops whoever has the address.
Ban(ip) ==
    LET D == {s \in Slots : client[s].state # "EMPTY" /\ IpOf[conn[s].addr] = ip}
    IN /\ D # {}
       /\ Dropped(conn, D)
       /\ UNCHANGED <<told, unpacker>>

---------------------------------------------------------------------------
(* Messages of the packet that is worked off: ProcessClientPacket.         *)

ClientVer(s) ==
    /\ client[s].state = "PREAUTH"
    /\ client' = [client EXCEPT ![s].state = "AUTH"]
    /\ UNCHANGED <<conn, player, told, unpacker>>

Info(s) ==
    /\ client[s].state \in {"PREAUTH", "AUTH"}
    /\ client' = [client EXCEPT ![s].state = "CONNECTING"]
    /\ UNCHANGED <<conn, player, told, unpacker>>

Ready(s) ==
    /\ client[s].state = "CONNECTING"
    /\ client' = [client EXCEPT ![s].state = "READY"]
    /\ player' = [player EXCEPT ![s] = NoCode]
    /\ UNCHANGED <<conn, told, unpacker>>

EnterGame(s) ==
    /\ client[s].state = "READY" /\ player[s] # NoPlayer
    /\ client' = [client EXCEPT ![s].state = "INGAME"]
    /\ UNCHANGED <<conn, player, told, unpacker>>

RconAuth(s) ==
    /\ unpacker.addr \in RconAddrs
    /\ client' = [client EXCEPT ![s].rcon = unpacker.addr]
    /\ UNCHANGED <<conn, player, told, unpacker>>

RconLogout(s) ==
    /\ client[s].rcon # NoAddr
    /\ client[s].state # "EMPTY"
    /\ client' = [client EXCEPT ![s].rcon = NoAddr]
    /\ UNCHANGED <<conn, player, told, unpacker>>

\* Bugs of SetTimedOut: slot s is not reset; its client stays; the login of the
\* last holder of slot t stays; m_Sixup of the client of slot t stays.
SetTimedOutNoReset(t, s) ==
    /\ conn' = [conn EXCEPT ![t].state = "ONLINE", ![t].addr = conn[s].addr,
                            ![t].sixup = conn[s].sixup]
    /\ client' = [client EXCEPT ![t].sixup = client[s].sixup, ![t].rcon = NoAddr,
                                ![s] = NoClient]
    /\ player' = [player EXCEPT ![s] = NoPlayer]

SetTimedOutNoDel(t, s) ==
    /\ conn' = [conn EXCEPT ![t].state = "ONLINE", ![t].addr = conn[s].addr,
                            ![t].sixup = conn[s].sixup, ![s] = NoConn]
    /\ client' = [client EXCEPT ![t].sixup = client[s].sixup, ![t].rcon = NoAddr]
    /\ UNCHANGED player

SetTimedOutLoggedIn(t, s) ==
    /\ conn' = [conn EXCEPT ![t].state = "ONLINE", ![t].addr = conn[s].addr,
                            ![t].sixup = conn[s].sixup, ![s] = NoConn]
    /\ client' = [client EXCEPT ![t].sixup = client[s].sixup, ![s] = NoClient]
    /\ player' = [player EXCEPT ![s] = NoPlayer]

SetTimedOutOldSixup(t, s) ==
    /\ conn' = [conn EXCEPT ![t].state = "ONLINE", ![t].addr = conn[s].addr,
                            ![t].sixup = conn[s].sixup, ![s] = NoConn]
    /\ client' = [client EXCEPT ![t].rcon = NoAddr, ![s] = NoClient]
    /\ player' = [player EXCEPT ![s] = NoPlayer]

\* SetTimedOut: slot t goes on with the connection of slot s, which is freed.
SetTimedOut(t, s) ==
    /\ conn' = [conn EXCEPT ![t].state = "ONLINE", ![t].addr = conn[s].addr,
                            ![t].sixup = conn[s].sixup, ![s] = NoConn]
    /\ client' = [client EXCEPT ![t].sixup = client[s].sixup, ![t].rcon = NoAddr,
                                ![s] = NoClient]
    /\ player' = IF HasPlayer(s) THEN [player EXCEPT ![s] = NoPlayer] ELSE player

SetTimeoutProtected(s, code) ==
    /\ conn' = [conn EXCEPT ![s].protected = TRUE]
    /\ player' = [player EXCEPT ![s] = code]
    /\ UNCHANGED client

\* The chat command /timeout looks for the code it is given, or for the code of
\* its player if it is given none; then it stores what it was given.
ConTimeout(s, wanted, given) ==
    LET others == {t \in Slots \ {s} : player[t] = wanted /\ conn[t].state = "ERROR"}
    IN /\ client[s].state = "INGAME" /\ player[s] # NoPlayer
       /\ \/ /\ ~client[s].sixup
             /\ \E t \in others : (\A u \in others : t <= u) /\ SetTimedOut(t, s)
          \/ /\ client[s].sixup \/ others = {}
             /\ SetTimeoutProtected(s, given)
       /\ UNCHANGED <<told, unpacker>>

Message(s) ==
    \/ ClientVer(s) \/ Info(s) \/ Ready(s) \/ EnterGame(s)
    \/ RconAuth(s) \/ RconLogout(s)
    \/ \E code \in Codes : ConTimeout(s, code, code)
    \/ ConTimeout(s, player[s], NoCode)

\* A change of the map sends every client beyond the login back to loading it,
\* and OnShutdown of the old game deletes all players.
MapReload ==
    /\ Idle
    /\ client' = [s \in Slots |->
                    IF HasPlayer(s) \/ client[s].state = "CONNECTING"
                    THEN [client[s] EXCEPT !.state = "CONNECTING"] ELSE client[s]]
    /\ player' = [s \in Slots |-> NoPlayer]
    /\ UNCHANGED <<conn, told, unpacker>>

Next ==
    \/ \E a \in Addrs : OnConnect(a)
    \/ \E s \in Slots, a \in Addrs :
          \/ AcceptToken(s, a) \/ AcceptLegacy(s, a) \/ AcceptSeven(s, a)
          \/ Rejoin(s, a) \/ RecvClose(s, a) \/ RecvPacket(s, a)
    \/ \E s \in Slots : unpacker.slot = s /\ Message(s)
    \/ PacketDone
    \/ Update
    \/ \E s \in Slots : Kick(s)
    \/ \E a \in Addrs : Ban(IpOf[a])
    \/ MapReload

Spec == Init /\ [][Next]_vars

---------------------------------------------------------------------------
(* Properties.                                                             *)

Connection == [state : {"OFFLINE", "ONLINE", "ERROR"}, addr : Addrs \cup {NoAddr},
               protected : BOOLEAN, situation : BOOLEAN, sixup : BOOLEAN]

Client == [state : {"EMPTY", "PREAUTH", "AUTH", "CONNECTING", "READY", "INGAME"},
           sixup : BOOLEAN, rcon : Addrs \cup {NoAddr}]

TypeOK ==
    /\ conn \in [Slots -> Connection]
    /\ client \in [Slots -> Client]
    /\ player \in [Slots -> Codes \cup {NoCode, NoPlayer}]
    /\ told \subseteq {IpOf[a] : a \in Addrs}
    /\ unpacker \in [slot : 0 .. NumSlots, addr : Addrs \cup {NoAddr}]

\* The three views of a slot agree: OnMessage and the handlers behind it use
\* m_apPlayers without a test when the client is READY or INGAME, ClientAddr
\* asserts that the slot of a connection has a client, and a client without a
\* connection would never be dropped.
SlotsAgree ==
    \A s \in Slots :
       /\ conn[s].state = "OFFLINE" <=> client[s].state = "EMPTY"
       /\ HasPlayer(s) <=> player[s] # NoPlayer

\* GetClientSlot finds the slot of an address by searching them all; with two
\* online slots of one address one of them would never hear of its client.
OneSlotPerAddress ==
    \A s, t \in Slots :
       Online(s) /\ Online(t) /\ conn[s].addr = conn[t].addr => s = t

\* sv_max_clients_per_ip holds through takeovers: a slot kept for an address
\* counts for it, and a slot that changes hands counts for the new address.
IpLimit ==
    \A a \in Addrs :
       Cardinality({s \in Slots : /\ Online(s) \/ KeptIn(conn[s])
                                  /\ IpOf[conn[s].addr] = IpOf[a]}) <= MaxClientsPerIp

\* A login at the remote console never outlives the connection it was made
\* on: neither a new client of the slot nor one that took it over has it.
RconStaysWithLogin ==
    \A s \in Slots : client[s].state # "EMPTY" /\ client[s].rcon # NoAddr
                     => client[s].rcon = conn[s].addr

\* CServer and CNetConnection each have an m_Sixup, one for the meaning of
\* messages and one for the layout of packets; they change at different places.
SixupAgrees ==
    \A s \in Slots : client[s].state # "EMPTY" => client[s].sixup = conn[s].sixup

\* With the anti spoof setting a slot is only used for a computer that was
\* reached: it returned the token that was sent to it.
ReachedBeforeAccepted ==
    AntiSpoof => \A s \in Slots : conn[s].state # "OFFLINE" => IpOf[conn[s].addr] \in told

Seats == INSTANCE SeatTable WITH
            holder <- [s \in Slots |-> conn[s].addr],
            kept   <- {s \in Slots : conn[s].state = "ERROR"}

\* The slots are handed out, kept, reclaimed and freed as SeatTable says.
SeatSpec == Seats!Spec

\* An Update that finds slot s in error and, if it is kept, its protection over
UpdateAfter(s) ==
    /\ Idle
    /\ conn[s].state = "ERROR"
    /\ \E silent \in SUBSET {t \in Slots : Online(t)},
          over \in SUBSET {t \in Slots : KeptIn(conn[t])} :
          (KeptIn(conn[s]) => s \in over) /\ UpdateWith(silent, over)
    /\ UNCHANGED <<told, unpacker>>

\* Fairness: a packet is worked off to its end, and Update runs in every turn
\* of the main loop.  Nothing is received for a slot in error, so the time of
\* its last packet stands still and the protection is over at every Update
\* from some moment on.
FairSpec == /\ Spec
            /\ WF_vars(PacketDone)
            /\ \A s \in Slots : SF_vars(UpdateAfter(s))

\* A slot whose client is gone is freed or taken over in the end, whatever its
\* flags say and however often its code is asked for.
LostSlotsReturn ==
    \A s \in Slots : conn[s].state = "ERROR" ~> conn[s].state # "ERROR"
============================================================================
