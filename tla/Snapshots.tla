----------------------------- MODULE Snapshots -----------------------------
(***************************************************************************)
(* How the server's snapshots reach one client: CServer::DoSnapshot, the   *)
(* acknowledgement in NETMSG_INPUT, the CSnapshotStorage of both sides and *)
(* the client's handler of NETMSG_SNAP, SNAPSINGLE and SNAPEMPTY, over a   *)
(* network that loses, repeats, delays and reorders them, and across the   *)
(* reload of a map.                                                        *)
(*                                                                         *)
(* A snapshot's content is the moment it was built at, <<map, tick>>.  The *)
(* delta between two contents unpacks to the second only against the       *)
(* first.  The packets of the map exchange are vital and arrive in order   *)
(* (NetConnection); "join" is the one of them that is on its way.          *)
(***************************************************************************)
EXTENDS Integers, Sequences, FiniteSets

CONSTANTS
    MaxMaps,        \* bound: maps the server plays
    MaxTick,        \* bound: ticks of each of them (at most MAX_TICK)
    FullParts,      \* bound: packets a snapshot takes (at most MAX_PARTS)
    DeltaParts,     \* bound: packets the delta against another one takes
    KeepTicks,      \* TickSpeed() * 3, what the server keeps
    InitEvery,      \* 10, ticks between snapshots at SNAPRATE_INIT
    RecoverEvery,   \* TickSpeed(), ticks between them at SNAPRATE_RECOVER
    MaxDown, MaxUp, \* bounds: packets in flight to the client, to the server
    Repeated,       \* bound: the ticks whose packets the network repeats
    NoMap, Garbage  \* contents: the empty snapshot, a delta unpacked wrongly

ASSUME SnapshotAssumption ==
    /\ {MaxMaps, FullParts, DeltaParts} \subseteq Nat \ {0}
    /\ {InitEvery, RecoverEvery} \subseteq Nat \ {0}
    /\ {KeepTicks, MaxDown, MaxUp} \subseteq Nat
    /\ MaxTick \in [1 .. MaxMaps -> Nat]
    /\ NoMap \notin Nat /\ Garbage \notin Nat

MIN_TICK == 0
Null == -1          \* no tick, and a pointer that is nullptr
Maps == 1 .. MaxMaps
Ticks == Nat \ {MIN_TICK}

VARIABLES
    map, tick,      \* the map the server plays, m_CurrentGameTick
    join,           \* "change", "loading", "entering" or "playing"
    sStore,         \* CClient::m_Snapshots of the server
    lastAcked,      \* m_LastAckedSnapshot
    rate,           \* m_SnapRate
    cStore,         \* m_aSnapshotStorage of the client
    prev, cur,      \* m_aapSnapshots, by tick
    ackTick,        \* m_aAckGameTick
    recvTick,       \* m_aCurrentRecvTick
    parts,          \* m_aSnapshotParts
    received,       \* m_aReceivedSnapshots, counted up to three
    online,         \* State() == STATE_ONLINE
    predicted,      \* m_aPredTick > 0
    down,           \* snapshot packets on their way to the client
    up,             \* inputs on their way to the server, oldest first
    late,           \* ghost: what is wrong with the input lastAcked is from
    round, calm     \* ghosts, see Recovers

serverVars == <<map, tick, sStore, lastAcked, rate>>
clientVars == <<cStore, prev, cur, ackTick, recvTick, parts, received,
                online, predicted>>
vars == <<serverVars, join, clientVars, down, up, late, round, calm>>

Init ==
    /\ map = 1 /\ tick = MIN_TICK /\ join = "change"
    /\ sStore = <<>> /\ lastAcked = Null /\ rate = "INIT"
    /\ cStore = <<>> /\ prev = Null /\ cur = Null
    /\ ackTick = Null /\ recvTick = 0 /\ parts = {} /\ received = 0
    /\ online = FALSE /\ predicted = FALSE
    /\ down = {} /\ up = <<>>
    /\ late = "no" /\ round = "off" /\ calm = 0

-----------------------------------------------------------------------------
(* CSnapshotStorage: a list of holders, the order is that of Add. *)

StoredTicks(s) == {s[i].tick : i \in 1 .. Len(s)}
HolderOf(s, t) == CHOOSE h \in {s[i] : i \in 1 .. Len(s)} : h.tick = t

\* Bug: the snapshot that is just old enough to be kept goes too.
PurgeUpTo(s, t) ==
    LET old == {i \in 1 .. Len(s) : \A j \in 1 .. i : s[j].tick <= t}
    IN  SubSeq(s, Cardinality(old) + 1, Len(s))

\* The list stops to be purged at the first holder that is recent enough.
PurgeUntil(s, t) ==
    LET old == {i \in 1 .. Len(s) : \A j \in 1 .. i : s[j].tick < t}
    IN  SubSeq(s, Cardinality(old) + 1, Len(s))

Add(s, t, content) == Append(s, [tick |-> t, snap |-> content])

-----------------------------------------------------------------------------
(* The ghosts of the recovery property.                                    *)

Undisturbed == UNCHANGED <<round, calm>>
Disturbed == round' = "off" /\ calm' = 0

-----------------------------------------------------------------------------
(* The server.                                                             *)

\* DoSnapshot leaves out the clients that recover or begin, most of the time.
SnapshotDue(t) ==
    /\ join = "playing"
    /\ rate = "RECOVER" => t % RecoverEvery = 0
    /\ rate = "INIT" => t % InitEvery = 0

DeltaTick(store) == IF lastAcked \in StoredTicks(store) THEN lastAcked ELSE Null

SnapPackets(store, t, n) ==
    LET base == DeltaTick(store)
        from == IF base = Null THEN NoMap ELSE HolderOf(store, base).snap
    IN  [tick : {t}, base : {base}, from : {from}, snap : {map},
         part : 0 .. (n - 1), parts : {n}, late : {late}]

DoSnapshot(t) ==
    LET store == Add(PurgeUntil(sStore, t - KeepTicks), t, map)
        most == IF DeltaTick(store) = Null THEN FullParts ELSE DeltaParts
    IN  \E n \in 1 .. most :
        /\ SnapshotDue(t)
        /\ Cardinality(down) + n <= MaxDown
        /\ sStore' = store
        /\ rate' = IF DeltaTick(store) = Null /\ rate = "FULL"
                   THEN "RECOVER" ELSE rate
        /\ down' = down \cup SnapPackets(store, t, n)
        /\ IF down = {} /\ up = <<>> /\ round = "off"
           THEN round' = "down" /\ UNCHANGED calm
           ELSE Disturbed

\* One tick of the main loop.  Without sv_high_bandwidth, and when several
\* ticks are made up for at once, there are ticks without a snapshot.
Tick ==
    /\ tick < MaxTick[map]
    /\ tick' = tick + 1
    /\ \/ DoSnapshot(tick')
       \/ UNCHANGED <<sStore, rate, down, round, calm>>
    /\ UNCHANGED <<map, lastAcked, join, clientVars, up, late>>

\* Bug: the snapshots of the map that ended are still there.
ReloadMapUnpurged ==
    /\ map < MaxMaps
    /\ map' = map + 1
    /\ tick' = MIN_TICK
    /\ join' = "change"
    /\ lastAcked' = Null /\ rate' = "INIT"
    /\ late' = "no"
    /\ Disturbed
    /\ UNCHANGED <<clientVars, sStore, down, up>>

\* The map is loaded again: SendMap and CClient::Reset for the client.
ReloadMap ==
    /\ map < MaxMaps
    /\ map' = map + 1
    /\ tick' = MIN_TICK
    /\ join' = "change"
    /\ sStore' = <<>> /\ lastAcked' = Null /\ rate' = "INIT"
    /\ late' = "no"
    /\ Disturbed
    /\ UNCHANGED <<clientVars, down, up>>

\* NETMSG_ENTERGAME
ClientEnters ==
    /\ join = "entering"
    /\ join' = "playing"
    /\ UNCHANGED <<serverVars, clientVars, down, up, late, round, calm>>

\* What is left in flight of the inputs when input i is received.  Those sent
\* before it are late from now on.
InputsAfter(i, again) ==
    LET rest == [j \in 1 .. Len(up) |->
                   IF j < i THEN [up[j] EXCEPT !.overtaken = TRUE] ELSE up[j]]
    IN  IF again /\ up[i].ack \in Repeated THEN rest
        ELSE SubSeq(rest, 1, i - 1) \o SubSeq(rest, i + 1, Len(up))

RoundAfter == IF round = "up" /\ Len(up') = 0
              THEN round' = "off" /\ calm' = IF calm = 2 THEN 2 ELSE calm + 1
              ELSE Undisturbed

\* Bug: an acknowledgement older than the one known is taken for a late one.
ReceiveInputNewest(i) ==
    /\ lastAcked' = IF up[i].ack > lastAcked THEN up[i].ack ELSE lastAcked
    /\ rate' = IF up[i].ack > 0 THEN "FULL" ELSE rate
    /\ late' = IF late = "foreign" \/ up[i].map # map THEN "foreign"
               ELSE IF up[i].overtaken THEN "overtaken" ELSE "no"
    /\ \E again \in BOOLEAN : up' = InputsAfter(i, again)
    /\ RoundAfter
    /\ UNCHANGED <<map, tick, join, sStore, clientVars, down>>

\* NETMSG_INPUT
ReceiveInput(i) ==
    /\ lastAcked' = up[i].ack
    /\ rate' = IF up[i].ack > 0 THEN "FULL" ELSE rate
    /\ late' = IF late = "foreign" \/ up[i].map # map THEN "foreign"
               ELSE IF up[i].overtaken THEN "overtaken" ELSE "no"
    /\ \E again \in BOOLEAN : up' = InputsAfter(i, again)
    /\ RoundAfter
    /\ UNCHANGED <<map, tick, join, sStore, clientVars, down>>

-----------------------------------------------------------------------------
(* The client.                                                             *)

\* The map the client plays: an earlier one until EnterGame.
Entered == join \in {"entering", "playing"}
ClientMap == IF Entered THEN map ELSE 0

\* An input that finds no room in flight is one more the network lost.
Send(ack) ==
    up' = IF Len(up) < MaxUp
          THEN Append(up, [ack |-> ack, map |-> ClientMap, overtaken |-> FALSE])
          ELSE up

\* CClient::Update predicts the next tick and sends the input for it.
SendInput ==
    /\ online /\ prev # Null
    /\ predicted' = TRUE
    /\ Send(ackTick)
    /\ IF round = "down" /\ down = {} /\ up = <<>>
       THEN round' = "up" /\ UNCHANGED calm
       ELSE Undisturbed
    /\ UNCHANGED <<serverVars, join, cStore, prev, cur, ackTick, recvTick,
                   parts, received, online, down, late>>

\* Bug: the client jumps to the two latest snapshots.
SwitchToLatest ==
    /\ online /\ cur # Null /\ Len(cStore) > 2
    /\ prev' = cStore[Len(cStore) - 1].tick
    /\ cur' = cStore[Len(cStore)].tick
    /\ UNCHANGED <<serverVars, join, cStore, ackTick, recvTick, parts,
                   received, online, predicted, down, up, late, round, calm>>

\* CClient::Update moves on to the next snapshot when its time has come.
SwitchSnapshot ==
    /\ online /\ cur # Null
    /\ \E i \in 1 .. Len(cStore) - 1 :
         /\ cStore[i].tick = cur
         /\ prev' = cur
         /\ cur' = cStore[i + 1].tick
    /\ UNCHANGED <<serverVars, join, cStore, ackTick, recvTick, parts,
                   received, online, predicted, down, up, late, round, calm>>

\* NETMSG_MAP_CHANGE, handled in the stream's order: the map is loaded.
LoadMap ==
    /\ join = "change"
    /\ join' = "loading"
    /\ online' = FALSE
    /\ UNCHANGED <<serverVars, cStore, prev, cur, ackTick, recvTick, parts,
                   received, predicted, down, up, late, round, calm>>

\* EnterGame and OnEnterGame.  The snapshots sent before the exchange of the
\* map began are assumed to be gone by now (README, assumptions).
EnterGame ==
    /\ join = "loading"
    /\ join' = "entering"
    /\ cStore' = <<>> /\ prev' = Null /\ cur' = Null
    /\ ackTick' = Null /\ recvTick' = 0 /\ parts' = {} /\ received' = 0
    /\ predicted' = FALSE
    /\ down' = {}
    /\ Disturbed
    /\ UNCHANGED <<serverVars, online, up, late>>

\* Bug: only the snapshots the client has already are turned down.
AcceptableUnlessHad(m) == m.tick > ackTick

\* A packet of a snapshot that is older than the one being put together, or
\* that the client has already.
Acceptable(m) == m.tick >= recvTick /\ m.tick > ackTick

PartsWith(m) == (IF m.tick = recvTick THEN parts ELSE {}) \cup {m.part}

Discard(m) == ~Acceptable(m) /\ UNCHANGED <<clientVars, up>>

Collect(m) ==
    /\ Acceptable(m)
    /\ Cardinality(PartsWith(m)) < m.parts
    /\ parts' = PartsWith(m)
    /\ recvTick' = m.tick
    /\ UNCHANGED <<cStore, prev, cur, ackTick, received, online, predicted, up>>

Complete(m) ==
    /\ Acceptable(m)
    /\ Cardinality(PartsWith(m)) = m.parts
    /\ parts' = {}
    /\ recvTick' = m.tick

\* The snapshot the server made the delta against is not there.
MissBase(m) ==
    /\ Complete(m)
    /\ m.base # Null /\ m.base \notin StoredTicks(cStore)
    /\ ackTick' = Null
    /\ IF predicted THEN Send(Null) ELSE UNCHANGED up
    /\ UNCHANGED <<cStore, prev, cur, received, online, predicted>>

Unpacked(m) ==
    IF m.base # Null /\ HolderOf(cStore, m.base).snap # m.from
    THEN Garbage ELSE m.snap

\* Bug: the comparisons are the wrong way round.
PurgeTickLatest(m) ==
    LET used == {m.base} \cup ({prev, cur} \ {Null})
    IN  CHOOSE t \in used : \A u \in used : t >= u

\* Nothing that is shown, and nothing later than the base, is purged.
PurgeTick(m) ==
    LET used == {m.base} \cup ({prev, cur} \ {Null})
    IN  CHOOSE t \in used : \A u \in used : t <= u

Unpack(m) ==
    /\ Complete(m)
    /\ m.base = Null \/ m.base \in StoredTicks(cStore)
    /\ cStore' = Add(PurgeUntil(cStore, PurgeTick(m)), m.tick, Unpacked(m))
    /\ received' = IF received = 3 THEN 3 ELSE received + 1
    /\ IF received = 1
       THEN /\ prev' = cStore'[1].tick
            /\ cur' = cStore'[Len(cStore')].tick
            /\ online' = TRUE
       ELSE UNCHANGED <<prev, cur, online>>
    /\ ackTick' = m.tick
    /\ UNCHANGED <<predicted, up>>

ReceiveSnap(m) ==
    /\ Discard(m) \/ Collect(m) \/ MissBase(m) \/ Unpack(m)
    /\ \E again \in BOOLEAN :
         down' = IF again /\ m.tick \in Repeated THEN down ELSE down \ {m}
    /\ UNCHANGED <<serverVars, join, late, round, calm>>

-----------------------------------------------------------------------------
(* The network loses what it likes; ReceiveSnap and ReceiveInput repeat    *)
(* and reorder.                                                            *)
LoseSnap(m) ==
    /\ down' = down \ {m}
    /\ Disturbed
    /\ UNCHANGED <<serverVars, join, clientVars, up, late>>

LoseInput(i) ==
    /\ up' = SubSeq(up, 1, i - 1) \o SubSeq(up, i + 1, Len(up))
    /\ Disturbed
    /\ UNCHANGED <<serverVars, join, clientVars, down, late>>

Next ==
    \/ Tick \/ ReloadMap \/ ClientEnters
    \/ SendInput \/ SwitchSnapshot \/ LoadMap \/ EnterGame
    \/ \E m \in down : ReceiveSnap(m) \/ LoseSnap(m)
    \/ \E i \in 1 .. Len(up) : ReceiveInput(i) \/ LoseInput(i)

Spec == Init /\ [][Next]_vars

-----------------------------------------------------------------------------
(* Properties.                                                             *)

Content == Maps \cup {Garbage}
Store == Seq([tick : Ticks, snap : Content])
SnapPacket == [tick : Ticks, base : Ticks \cup {Null},
               from : Content \cup {NoMap}, snap : Maps, part : Nat,
               parts : Nat, late : {"no", "overtaken", "foreign"}]
Input == [ack : Ticks \cup {Null}, map : Maps \cup {0}, overtaken : BOOLEAN]

\* The state of both sides and what is in flight stay well-formed.
TypeOK ==
    /\ map \in Maps /\ tick \in Nat
    /\ join \in {"change", "loading", "entering", "playing"}
    /\ sStore \in Store /\ lastAcked \in Ticks \cup {Null}
    /\ rate \in {"INIT", "FULL", "RECOVER"}
    /\ cStore \in Store
    /\ {prev, cur, ackTick} \subseteq Ticks \cup {Null}
    /\ recvTick \in Nat
    /\ parts \subseteq Nat /\ received \in 0 .. 3
    /\ online \in BOOLEAN /\ predicted \in BOOLEAN
    /\ down \subseteq SnapPacket /\ up \in Seq(Input)
    /\ late \in {"no", "overtaken", "foreign"}
    /\ round \in {"off", "down", "up"} /\ calm \in 0 .. 2

\* m_aapSnapshots points into the storage for as long as it is used, whatever
\* was purged, and the two snapshots interpolated between differ in time: the
\* list is in the order of time, CURRENT is after PREV.
PointersValid ==
    /\ \A i, j \in 1 .. Len(cStore) : i < j => cStore[i].tick < cStore[j].tick
    /\ (prev = Null) = (cur = Null)
    /\ prev # Null => prev < cur /\ {prev, cur} \subseteq StoredTicks(cStore)

\* What the client stores under a tick is what the server built at that tick
\* of the map played: a delta is only ever unpacked against its own base, so
\* that the checksum of the snapshot has nothing to find.
StoredRight ==
    \A i \in 1 .. Len(cStore) :
        cStore[i].snap \in (IF Entered THEN {map} ELSE 1 .. (map - 1))

\* The client still has the base of every snapshot it can accept, unless the
\* server took an input that was overtaken or was meant for another map.
BaseKept ==
    \A m \in down :
        Acceptable(m) /\ m.late = "no" /\ m.base # Null
            => m.base \in StoredTicks(cStore)

\* Two rounds in which a snapshot, and then the input that answers it, come
\* through alone are enough to bring the two sides back together, whatever
\* was lost, overtaken and purged before.
Recovers ==
    calm = 2 /\ round = "off" /\ join = "playing" =>
        /\ ackTick = sStore[Len(sStore)].tick
        /\ ackTick = cStore[Len(cStore)].tick

\* The server falls back to a snapshot per second only when the client has not
\* acknowledged one for as long as snapshots are kept, unless it took an input
\* meant for another map: whatever the client still acknowledges in time was made
\* by the server on this map, and is there to make a delta against.
DeltaWhileKept ==
    [][rate = "FULL" /\ rate' = "RECOVER" =>
          \/ lastAcked = Null \/ lastAcked < tick' - KeepTicks
          \/ late = "foreign"]_vars

\* The pictures the client moves through are those of the server, in order.
Shown(t) == [map |-> HolderOf(cStore, t).snap, tick |-> t]
View == INSTANCE SnapshotView WITH
    world <- [map |-> map, tick |-> tick],
    view <- IF prev = Null THEN <<>> ELSE <<Shown(prev), Shown(cur)>>
ViewSpec == View!Spec
=============================================================================
