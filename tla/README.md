# A formal model of FeX-V2-Client

FeX is a fork of DDNet: a game client, a game server, and the engine both are
built from. Its own core logic is the engine: connections with reliable
messages over UDP, a server with slots and a snapshot stream, threads for jobs,
HTTP and the database, and a handful of retry protocols. This directory models
parts of it in TLA+, checks the models with TLC and proves theorems about them
with TLAPS. All paths below are relative to `src/src/`.

1. [Inventory](#inventory): the components, what each keeps and does, what is hard
2. [Plan](#plan): the modules, in their order, and what is still open
3. [What is modelled](#what-is-modelled): modules, and how they correspond to the code
4. [What the runs check](#what-the-runs-check): properties, bounds, fairness
5. [What is proved](#what-is-proved)
6. [Disagreements found](#disagreements-found)
7. [What is only checked, and what is not modelled](#what-is-only-checked-and-what-is-not-modelled)

## Inventory

### Connections and sockets

**Connection** (`engine/shared/network_conn.cpp`, `network.cpp`, `network.h`).
One `CNetConnection` per slot of the server and one in the client. State:
`m_State` (OFFLINE, WANT_TOKEN, CONNECT, PENDING, ONLINE, ERROR), the number of
the latest vital chunk queued (`m_Sequence`) and received (`m_Ack`), the latest
acknowledgement of the peer (`m_PeerAck`), whether the first vital chunk is
taken whatever its number (`m_UnknownSeq`), the packet being filled
(`m_Construct`), copies of the unacknowledged vital chunks (`m_Buffer`), three
time stamps and the tokens. Operations: `QueueChunk`, `Flush`, `Resend`,
`Feed`, `Update`, `Connect`, `Disconnect`, `Reset`, `SetTimedOut`; and
`CNetRecvUnpacker::FetchChunk`, which takes a received packet apart. *Hard:*
the network loses, repeats and reorders packets; the sequence numbers wrap at
1024; acknowledgements travel with other packets and may be stale; the resend
buffer is bounded and may refuse a copy; the server makes a legacy client's
connection in the middle of the stream. *Correct when* the application is
handed exactly the vital chunks the peer queued, in order, and every one of
them in the end; of a legacy client, from the first one that arrived on.

**Ring buffer** (`ringbuffer.cpp`). The allocator behind `m_Buffer`, the
console backlog and the demo browser: one block of memory with entries that are
allocated at one end, popped at the other, split and merged. *Correct when* the
entries partition the memory, come out in order, and `Allocate` only recycles
entries when the owner asked for it.

**Server sockets and slots** (`network_server.cpp`). `m_aSlots` with a
connection each, `m_aSpamConns` for the rate limit, two seeds for tokens, the
shared `m_RecvUnpacker`. `Recv` dispatches packets: of a slot's peer to its
connection, of a stranger to the handshake, either with a token the server
need not remember or, for old clients, with a faked map change that provokes an
answer with the token. `SetTimedOut` lets a client that comes back with a
timeout code take over its former slot, while chunks of the packet that carried
the code may still be in the unpacker. It calls the server's callbacks
`NewClient`, `DelClient`, `ClientRejoin`. *Hard:* handshakes from one
address that interleave, repeated packets, a connection that outlives the address
it was made with. *Correct when* an address has at most one online slot, the
limits per address hold, the callbacks and the slots agree on who is
connected, and a takeover continues the stream of the slot.

**Client socket** (`network_client.cpp`). One connection, fed from one
socket; answers of STUN servers are sorted out first.

**Packet formats** (`packer.cpp`, `compression.cpp`, `huffman.cpp`,
`protocol_ex.cpp`, `protocolglue.cpp`, `translation_context.cpp`). Pure
conversions. *Hard:* widths and boundaries of variable-length integers; the
8 bits that hold the number of chunks of a packet.

**STUN** (`stun.cpp`, `network_stun.cpp`). One protocol machine per address
family: a request with a random id, retries with a delay that doubles, an
answer that may be to an older request. *Correct when* an answer is believed
only if it matches the request under way, and the retries go on.

**Bans** (`netban.cpp`, `server/name_ban.cpp`). `CBanPool`: an array of bans
that is at once a hash table, a list sorted by expiry and a free list.
*Correct when* the three views agree, the list stays sorted when a ban is
updated, and an expired ban goes away. Name bans are a plain list.

**External console** (`econ.cpp`, `network_console.cpp`,
`network_console_conn.cpp`). TCP connections in slots; password, tries, ban,
timeout to authenticate. **Fifo console** (`fifo.cpp`): a named pipe.

**Websockets** (`websockets.cpp`): an adapter to libwebsockets.

### The server

**Main loop** (`engine/server/server.cpp`). `m_aClients` with a state each
(EMPTY, REDIRECTED, PREAUTH, AUTH, CONNECTING, READY, INGAME), rates of
snapshots, map download position, rcon level, redirects. Driven by
the callbacks of the slots and by messages of the clients. *Hard:* messages in
states they were not written for (a rejoin in game, a timeout takeover, a
reload of the map in the middle of a download). *Correct when* the state is
EMPTY exactly for a slot that is offline and the game is told of each client
entering and dropping exactly once.

**Snapshots** (`snapshot.cpp`, both `server.cpp` and `client.cpp`).
Every second tick the server sends each client the difference between the
world and the last snapshot the client acknowledged. Both ends keep past
snapshots (`CSnapshotStorage`) and purge them; the client keeps raw pointers to
the two it shows. *Hard:* the base of a difference must still be there at both
ends, acknowledgements are late, overtaken, lost or meant for the map played
before, a snapshot travels in several packets. *Correct when* a difference is
unpacked against the snapshot it was made from, the pointers stay valid, and
the two sides find each other again after any loss. **Snapshot ids** (`snap_id_pool.cpp`):
ids are reused only five seconds after they were freed, so that a client
never takes a new object for an old one.

**Database pool** (`server/databases/connection_pool.cpp`). A ring of
512 queries, filled by the main thread; a backup thread that copies writes into
an sqlite file before anything else happens to them; a worker thread that
executes queries on one of several connections, with a fail mode in which it
does not wait for servers that are down. Two semaphores, two atomics. *Hard:*
three threads on one ring without a lock; crashes and failures between
statements on two databases; the end of both threads. *Correct when* no write
is lost or stored twice, every query gets its result, and shutting down comes
to an end. **SQL back ends** (`connection.cpp`, `mysql.cpp`, `sqlite.cpp`):
bindings. **Score** (`game/server/score.cpp`, `scoreworker.cpp`): what is
queried; the four forms of `SaveScore`'s statements are part of the model of
the pool.

**Registration** (`server/register.cpp`, and `mastersrv/src/main.rs` at the
other end). One machine per protocol; each registers over HTTP, is challenged
over UDP and answers with the token it received. Several requests may be under
way, each run by a job. The information goes along only when the game server
does not know that the master server has it. *Hard:* answers out of order,
requests that end without an answer, restarts and new seeds of the master
server, a new game server at the address of an old one. *Correct when* the
master server lists, in the end, what is enabled with the latest information
and nothing else.

**Rcon authentication** (`authmanager.cpp`), **Antibot** (`antibot.cpp`),
**UPnP** (`upnp.cpp`): sequential or calls to libraries.

### Engine services

**Job pool** (`shared/jobs.cpp`). Worker threads, a linked list of jobs under
a lock, a semaphore, the set of running jobs under another lock, one atomic
state per job. *Hard:* `Add`, `Abort`, `Shutdown` and the threads interleave
freely. *Correct when* a job runs once, is done or aborted at the end, no job
is left behind asleep threads and `Shutdown` returns.

**HTTP client** (`shared/http.cpp`). A thread around `curl_multi`, requests
that are handed over under a lock, a wake-up for the thread, a state per request
other threads wait for. *Hard:* adding a request while the thread shuts down,
failures of curl between taking requests and starting them. *Correct when*
each request is completed once, `Wait` returns, the last requests of a
program that stops get the time they were promised, and the thread ends.

**Host lookup and engine** (`engine.cpp`, `host_lookup.cpp`, `kernel.cpp`),
**Storage and files** (`storage.cpp`, `datafile.cpp`, ...), **Console and
configuration** (`console.cpp`, `config.cpp`), **Memory helpers**
(`memheap.cpp`, `uuid_manager.cpp`, ...), **Base library and logs**
(`base/system.cpp`, `base/log.cpp`, ...): sequential code, file formats
and the interface of the operating system.

**Demo** (`demo.cpp`): records snapshots as keyframes and differences, plays
and seeks. *Correct when* seeking shows what playing shows.

### Game and client

**Game context** (`game/server/gamecontext.cpp`, `ddracechat.cpp`,
`mutes.cpp`, ...): messages, votes, mutes. **Teams and saves** (`teams.cpp`,
`save.cpp`): team states, locks, swaps, and saves whose result comes from
the database much later, while the team may have changed. **World and
entities** (`gameworld.cpp`, `entity.cpp`, `gamecore.cpp`, ...): physics tick by
tick. **Teehistorian** (`teehistorian.cpp`): a log of all of it.

**Client engine** (`engine/client/client.cpp`, `smooth_time.cpp`): connection
states, assembly of snapshots, prediction time. **Server browser**,
**updater**, **input**, **threaded graphics and sound**, **client game and
FeX features**, **editor**: user interface, with one concurrent part, the
command buffers handed to the render thread (`graphics_threaded.cpp`,
`backend_sdl.cpp`).

**Master server and tools** (`mastersrv/`, `tools/`): a separate service in
Rust and command line tools. `crapnet.cpp`, a proxy that drops, delays and reorders
packets, is the network the model of the connection assumes.

### How the components interact

    game context, teams --ExecuteWrite/Execute--> database pool --results--> teams
          |  SendMsg, snapshots
    server main loop <--NewClient, DelClient, ClientRejoin-- server slots
          |  Send/Recv                                          |
          +------------------> connection <----- UDP -----> connection (client)
    register, updater, server browser --> HTTP client       client engine --> game client
    host lookup, skins, sounds, ... --> job pool

The main thread calls everything; the threads of the job pool, the HTTP client,
the database pool and the renderer only touch what is handed to them through
queues, and the main thread polls for their results.

## Plan

| # | module | models | composes | properties worth stating | theorems |
|---|---|---|---|---|---|
| 1 | `VitalStream`, `NetConnection` | online connection, both ends | implements `VitalStream` | order, copies kept, delivery | type, order, copies, refinement — *done* |
| 2 | `JobPool` | `CJobPool`, `IJob::Abort` | | one owner, signals, completion | all its safety properties — *done* |
| 3 | `DbConnectionPool` | ring, two threads, tables | | no write lost or doubled, all results, shutdown | all its safety properties — *done* |
| 4 | `SeatTable`, `NetServer` | slots, the three handshakes, timeout protection, the callbacks and client states of `server.cpp`, the players | implements `SeatTable` | one online slot per address, the three views of a slot agree, limit per address, logins stay, lost slots return | all its safety properties, refinement — *done* |
| 5 | `SnapshotView`, `Snapshots` | `CSnapshotStorage` at both ends, `DoSnapshot`, the acknowledgements, the client's handler and its switch of snapshots, a change of the map | implements `SnapshotView` | deltas and their bases, pointers, recovery | all its safety properties, refinement — *done* |
| 6 | `MasterServer`, `Register` | `CRegister` with its jobs, the master server, restarts of both | `Register` extends `MasterServer` | tables agree, no false success, listed in the end | its safety properties — *done* |
| 7 | `Http` | `CHttp`, its thread, the states of a request | | one place, nothing left, the delay, completion | its safety properties — *done* |
| 8 | `Takeover` | the numbers, copies and half-built packet of a connection across `SetTimedOut` and `Reset(true)`, the client's connecting states | a connection as in 1, moved between slots as in 4 | a takeover continues the stream, a rejoin happens only when the client reconnected | |
| 9 | `TeamSave` | `/save` and `/load` with their queries, teams whose members leave meanwhile, two servers on one database | over the promise of 3 | a saved game is in one place | |
| 10 | `NetBan`, `RingBuffer`, `SnapIdPool` | array with three views; allocator; lists of ids | abstract: a map from address to expiry, a queue, a set | implement them | views agree, entries partition the memory |
| 11 | `Stun`, `Econ`, `RenderQueue` | retries; slots of the console; the command buffers | | answers match requests | |

The first seven are done, the others open; what keeps each of them from being
covered by a module above is said in `PROJECT.json` at the component and the
hazard.

Modules that are proved about keep to a style: parameters are CONSTANTS with a
named assumption, each operation is an action of its own, invariants are
conjunctions of named parts, and nothing is recursive.

## What is modelled

### VitalStream

The abstract specification of a connection: each end numbers what it queues,
the other end is handed 1, 2, 3, ... (`HandOver`). The server's stream from a
legacy client begins with whichever chunk arrives first after the accept (`Begin`);
the earlier ones are never handed over. A direction is `lossy` after
its sender queued a chunk without keeping a copy, which the code says it does
when the buffer is full ("hope nobody will ask for resend"); nothing is promised for it then.

### NetConnection

Two ends, `Client` and `Server`, over a network of UDP packets. There are two
starts. With a token, or of a legacy client that is accepted at once, both ends are
ONLINE with all numbers 0 (`DirectInit`). A legacy client under
`sv_vanilla_antispoof` (`legacy`) is ONLINE first: the server answers each of its
CONNECTs with `SendMsgs`, six messages numbered from 1 in a packet of no
connection, the last of which carry a token. An input that returns the token proves
that the client has handled them; on it `TryAcceptClient` makes a connection with
`SetSequence(6)` and `SetUnknownSeq()`, in the middle of the client's stream.

| TLA+ | code |
|---|---|
| `state`, `sequence`, `ack`, `peerAck` | `m_State`, `m_Sequence`, `m_Ack`, `m_PeerAck` |
| `unknownSeq` | `m_UnknownSeq` |
| `buffer`, `construct` | `m_Buffer`, `m_Construct` |
| `unpacker` | the rest of the packet in `CNetRecvUnpacker` |
| `net[e]` | packets in flight towards `e` |
| `legacy`, `sent`, `first`, `received`, `latest`, `lossy` | ghosts, the state of `VitalStream` |
| `SendMsgs`, `Accept` | `OnPreConnMsg` of a CONNECT, and of the input with the token, with `TryAcceptClient` |
| `PreMsgs`, `FirstSequence` | the number of messages in `OnPreConnMsg`, and the 6 of `SetSequence` |
| `QueueVital`, `QueueInError`, `SendPlain` | `QueueChunk`/`QueueChunkEx`: vital, in state ERROR, not vital |
| `Flush` | `Flush` called by the application |
| `Feed` | `Feed` with `Resend` and `AckChunks` inside |
| `FetchChunk` | one iteration of the loop in `FetchChunk` |
| `TimeOut`, `Update` | the timeouts in `Update`; its resend, flush and keepalive |
| `AckIsValid`, `IsSeqInBackroom`, `AckChunks` | the comparisons modulo `NET_MAX_SEQUENCE` |

A chunk's payload is its position in the order it was queued, so that the model can
say *which* chunk is handed over while the code only sees its number. Chunks that
are not vital carry no number; of the packets with them only the acknowledgement is
modelled. Filling a packet is exact: a chunk that does not fit flushes the
packet and with it the request to resend, which `Flushed` and `Filling` keep
track of for a whole resend at once. `net` is a set of packets that `Feed` does
not remove, so any packet may arrive again, late, and in any order; `Lose` and
`Transmit` may drop any. Time is abstracted: any timer may be found expired at
any `Update`. `UpTo(e)` is the number of the chunk handed to `e` last, what `m_Ack`
is without a wrap. `QueueVital` may fail to find room for a copy with the buffer not
full, because chunks have different sizes.

*Assumptions* (`ConnectionAssumption`). `PreMsgs + BufferChunks < NET_MAX_SEQUENCE / 2`:
the smallest entry of the 32 KiB buffer takes 72 bytes, so at most 455 fit,
and 6 + 455 is less than half of 1024. `Lifetime < NET_MAX_SEQUENCE`: a packet that was
overtaken by a whole lap of sequence numbers no longer arrives. The code has no
protection against one that does, as no protocol with wrapping numbers has, so
this is stated of the network (`Fresh`), for chunks and for acknowledgements.

### JobPool

The main thread calls `Init`, `Add` and `Shutdown`; any thread calls `Abort`.
A step is a critical section, a semaphore operation or an operation on an
atomic.

| TLA+ | code |
|---|---|
| `shutdown`, `queue`, `running`, `semaphore`, `jobState` | `m_Shutdown`, the list from `m_pFirstJob`, `m_RunningJobs`, `m_Semaphore`, `IJob::m_State` |
| `worker`, `taken` | where a thread is in `RunLoop`, its `pJob` |
| `main`, `position` | where the main thread is, the entry the loop in `Shutdown` looks at |
| `Add`, `AddSignal`, `AddRejected` | `Add` under the lock, after it, and while the pool is down |
| `Shutdown`, `AbortQueuedBegin`, `AbortQueued`, `AbortQueuedEnd`, `AbortRunning`, `SignalAll`, `Join` | `Shutdown` in its order |
| `Wake`, `Fetch`, `Check`, `Start`, `Enlist`, `Delist`, `Finish` | one iteration of `RunLoop` |

### DbConnectionPool

The main thread, the backup thread and the worker thread on the ring, and three
tables: `record_race` on the MySQL server (`race`), the same table in the sqlite
file (`saved`) and `record_race_backup` there (`tmp`).

| TLA+ | code |
|---|---|
| `queries`, `insertIdx`, `shutdown`, `numBackup`, `numWorker` | `m_aQueries`, `m_InsertIdx`, `m_Shutdown`, the two semaphores |
| `backup`, `backupNum`, `backupQuery`, `backupOpen` | `CBackup::ProcessQueries` and its locals |
| `worker`, `workerNum`, `workerQuery`, `servers`, `failMode`, `success` | `CWorker::ProcessQueries` and its locals |
| `result` | `m_Completed` and `m_Success` of a query |
| `Insert` in `Execute`, `ExecuteWrite`, `PrintServers`, `Register...` | the operations of the main thread; `SignalBackup` is their second step |
| `OnShutdown`, `SignalShutdown`, `ShutdownDone`, `Join` | `OnShutdown` and the destructor |
| `BackupWait` ... `BackupSignal` | the backup thread; `BackupCopy` is `SaveScore` with `BACKUP_FIRST` |
| `WorkerTop` ... `Complete` | the worker thread; `ExecuteNormal` is `SaveScore` with `NORMAL`, `Settle` and `SettleDelete` with `NORMAL_SUCCEEDED` and `NORMAL_FAILED` |

Every SQL statement may fail; `ExecuteNormal` may also be executed and its answer
lost. The tables are what survives a crash, and since their invariants hold in
every state, they hold after a crash at any step. Writes other than
`SaveScore` follow the same four forms and are abstracted to it. How many
attempts a statement takes, which of several READ servers answers, and the SQL
texts are left out.

### SeatTable and NetServer

`SeatTable` is what the server promises about its slots, told without packets:
a slot is free, held by an address or kept for one that is gone; `Take`,
`Leave`, `Reclaim`. `NetServer` is the main thread, the only one that touches
`CNetServer`, `CServer::m_aClients` and `m_apPlayers`. Each handler is one
action; what interleaves is the handlers.

| TLA+ | code |
|---|---|
| `conn[s]` | `m_State`, `m_PeerAddr`, `m_TimeoutProtected`, `m_TimeoutSituation`, `m_Sixup` of `m_aSlots[s].m_Connection`; CONNECT and PENDING do not occur at the server |
| `client[s]` | `m_State`, `m_Sixup`, and in `rcon` who made the login that `m_Authed` stands for |
| `player[s]` | `m_apPlayers[s]`: null, or its `m_aTimeoutCode` |
| `told` | which computers know their token; `GetToken` hashes the address without its port |
| `unpacker` | `m_RecvUnpacker`: slot and address of the packet that is worked off |
| `OnConnect` | the answers with a token in `OnTokenCtrlMsg`, `OnPreConnMsg`, `OnSixupCtrlMsg` and `OnConnCtrlMsg` |
| `AcceptToken`, `AcceptLegacy`, `AcceptSeven` | the three ways to `TryAcceptClient` and its callbacks |
| `Rejoin` | an accept packet in a live session, `ClientRejoinCallback` |
| `RecvClose`, `RecvPacket`, `PacketDone` | `Recv` and `Feed`: a close packet, a packet with chunks, the end of `FetchChunk` |
| `ClientVer` ... `RconLogout`, `ConTimeout` | the messages in `ProcessClientPacket` and the chat command `/timeout`; other messages change none of these variables or drop the client |
| `Kick`, `Ban` | `CServer::Kick` and every other drop by a handler; `BanExt` |
| `Update` | `CNetServer::Update` over all slots |
| `MapReload` | the change of the map in `CServer::Run` |

The sequence numbers are left out. A message of the current packet may
therefore reach its handler after its slot was reset, which in the code needs a
number that happens to fit; the model allows more than the code. Refusals
(`Connlimit`, a full server, a banned address, a wrong password before the
login) change nothing and are steps not taken, or a `Kick`. Persistent data of
players over a change of the map, websocket addresses, debug dummies and
`STATE_REDIRECTED`, which nothing in the repository sets, are left out.
`MaxClientsPerIp` is a constant: `SetMaxClientsPerIp` may lower the limit while the
server runs, and computers that had more slots then keep them, which `IpLimit`
does not speak of. `IpOf`
is the address without its port; `AntiSpoof` stands for the setting of that
name with no password set, which does not change while clients connect.

### SnapshotView and Snapshots

`SnapshotView` is what a player sees: nothing while a map is entered, then a
pair of moments of one map that happened on the server, each pair going on from
the one before. `Snapshots` is one client of the server.

| TLA+ | code |
|---|---|
| `map`, `tick` | the map played, `m_CurrentGameTick` |
| `join` | where the client is between the map change and the game: `NETMSG_MAP_CHANGE` on its way, the map being loaded, `NETMSG_ENTERGAME` on its way, in the game |
| `sStore`, `lastAcked`, `rate` | `m_Snapshots`, `m_LastAckedSnapshot`, `m_SnapRate` of the server's `CClient` |
| `cStore`, `prev`, `cur` | the client's `m_aSnapshotStorage`, and `m_aapSnapshots` by tick |
| `ackTick`, `recvTick`, `parts`, `received`, `online`, `predicted` | `m_aAckGameTick`, `m_aCurrentRecvTick`, `m_aSnapshotParts`, `m_aReceivedSnapshots`, `State() == STATE_ONLINE`, `m_aPredTick > 0` |
| `down`, `up` | snapshot packets and inputs in flight |
| `Tick` with `DoSnapshot` | a tick in `CServer::Run` and `DoSnapshot` for the client |
| `ReloadMap`, `ClientEnters`, `ReceiveInput` | the change of the map in `Run`; `NETMSG_ENTERGAME`; `NETMSG_INPUT` |
| `LoadMap`, `EnterGame` | `NETMSG_MAP_CHANGE`; `EnterGame` with `OnEnterGame` |
| `SendInput`, `SwitchSnapshot` | `CClient::Update`: prediction and input; the switch to the next snapshot |
| `ReceiveSnap`: `Discard`, `Collect`, `MissBase`, `Unpack` | the ways through the handler of `NETMSG_SNAP`, `SNAPSINGLE` and `SNAPEMPTY` |
| `PurgeUntil`, `Add` | `CSnapshotStorage::PurgeUntil`, `Add` |

The content of a snapshot is the moment it was built at. The delta between two
contents unpacks to the second one only against the first; against another it
gives `Garbage`, which the checksum finds in the code most of the time and in
the model never, so that the model does not lean on it. Without
`sv_high_bandwidth`, and when ticks are made up for, there are ticks without a
snapshot; the model has both at any tick. The builder, the encoding, the
second snapshot storage of the dummy and the smoothing of time are left out.

*Assumption.* A snapshot packet sent before a change of the map does not arrive
after the client entered the new one: `EnterGame` empties `down`. The code has
no protection against one that does, since ticks begin at zero again; the
exchange of the map, about one round trip between the last snapshot of the old
map and `EnterGame`, is all there is. Until then such packets do
arrive, and may bring the client to ONLINE with snapshots of the old map.

### MasterServer and Register

`MasterServer` is the table of `main.rs`: which secret holds an address, and
what is known of the secret's server. `Register` adds the game server, the
requests, the challenges and the faults.

| TLA+ | code |
|---|---|
| `addresses`, `servers`, `seed` | `Servers::addresses`, `Servers::servers`, `Challenger` |
| `HandleRegister`, `HandleDelete`, `Prune` | `handle_register` and `Servers::add`; `handle_delete` and `Servers::remove`; `Servers::prune_before` |
| `Reseed`, `RestartMaster` | the hourly reseed; the start of `main` with or without a dump |
| `process` | the secrets of the game server's process |
| `enabled`, `infoSerial`, `latest` | `m_aProtocolEnabled`, `CGlobal::m_InfoSerial`, `m_LatestSuccessfulInfoSerial` |
| `status`, `answered`, `token`, `newToken`, `next` | `CShared` and the members of `CProtocol` |
| `jobs` | the `CJob`s not done: `"sent"`, `"reply"` (answered but not read), `"settle"` (between the two locks of `CJob::Run`) |
| `Update`, `OnToken`, `OnNewInfo`, `OnConfigChange` | the functions of these names, with `SendRegister` inside |
| `Request`, `TakeAnswer`, `Settle`, `Fail` | `CJob::Run`: the request at the master server, the answer under the first lock, the serial under the second; a request without an answer |
| `RestartServer`, `strays`, `deletes` | `OnShutdown` or a crash and a new process; requests that outlive their process; delete requests |

Two details matter. `OnToken` does not look at `m_aProtocolEnabled`: a protocol
that was switched off registers once more when a late token arrives, and leaves the
list only by expiry. A delete may be overtaken by a request that was sent before
it. Both are in the model and show why `ListedInTheEnd` needs the expiry. The
clock is abstracted to "due": the next registration falls due when no request of the
protocol is in flight, because `HttpPost` ends after 15 seconds and so does the period.
The dump read at a restart is taken for the present tables (it is at most a second
old). Bans, exemptions, the dumps of other master servers, extra headers and the
parsing are left out. A game server that is told NEEDCHALLENGE when it stops
sends no delete; it stays listed until it expires.

### Http

| TLA+ | code |
|---|---|
| `pc`, `taken` | where `CHttp::RunLoop` is, `NewRequests` |
| `state`, `shutdown`, `deadline` | `m_State`, `m_Shutdown`, `m_ShutdownTime` |
| `pending`, `running` | `m_PendingRequests`, `m_RunningRequests` |
| `wake`, `over` | curl: a wake-up not yet consumed, transfers with a result |
| `request`, `abort` | `CHttpRequest::m_State`, `m_Abort` |
| `Run`, `Abort`, `Shutdown` | the callers |
| `Poll` ... `Added` | one round of the loop; each is a stretch of the code between two points where another thread can be noticed |
| `CurlFails`, `StartFails` | `curl_multi_poll` or `curl_multi_perform` failed; `error_init` and `error_configure` |
| `Leave`, `CleanUp`, `End` | the clean-up under the lock |

Callers start after `Init` returned, as both programs do; `Run` before that would
wait for a thread that may fail to start. `m_PendingRequests` and
`m_RunningRequests` are not cleared in the clean-up of the code; nothing reads
them afterwards, and the model takes the requests out as they are completed. The
order of requests, what a request writes to files, headers and progress are left
out. A plain `HttpGet` has no time limit, and `HttpGetFile` only one on the speed, which
a transfer that goes on never meets: it may run until the shutdown.

### Proof modules

`Modular` has lemmas on `%` that two other proof modules use.
`NetConnection_proofs`, `JobPool_proofs`, `DbConnectionPool_proofs`,
`NetServer_proofs`, `Snapshots_proofs`, `Register_proofs` and `Http_proofs` extend
the module they are about. The `MC` modules give constants that are functions or sets their
values for TLC: `MaxSent`, the addresses and `IpOf`, the ticks of each map, the
secrets.

## What the runs check

States are distinct states TLC finds.

| run | checks | instance | states |
|---|---|---|---|
| `NetConnection_reorder` | `InOrder`, `CopyKept` | numbers modulo 4, one copy, one chunk per packet, two packets in flight each way, the server sends 5 chunks; a legacy client 2 and its server 1 | 1 584 479 |
| `NetConnection_gaps` | `PeerAckMatchesBuffer`, `StreamSpec` | modulo 8, two copies, two chunks per packet, one packet in flight, 3 chunks; a legacy client 2, and its server one message without a connection and one with | 1 425 272 |
| `NetConnection_live` | `Delivered` | modulo 8, two copies, 8 chunks; a legacy client 3, and its server one without a connection | 5 733 |
| `JobPool_run` | `OneOwner`, `JobStateValid`, `EnoughSignals`, `CompleteAtShutdown`, `AbortedStays`, `ShutdownReturns`, `JobsFinish` | 3 jobs, two of them abortable, 2 threads | 27 832 |
| `JobPool_abort` | `AbortsAllAbortable` (violated) | as `JobPool_run` | |
| `DbPool_run` | `CopiedStays`, `ReportedStored`, `NotTwice`, `AllJobsBeforeExit`, `QueriesComplete`, `ShutdownReturns` | ring of 3, at most 2 pending, 3 queries | 71 044 |
| `DbPool_full` | `AllJobsBeforeExit` (violated) | ring of 2, up to 3 pending | |
| `DbPool_servers` | `ServersAsAsked` (violated) | ring of 3, 3 queries | |
| `NetServer_run` | `SlotsAgree`, `OneSlotPerAddress`, `RconStaysWithLogin`, `SixupAgrees`, `ReachedBeforeAccepted`, `IpLimit`, `SeatSpec`, `LostSlotsReturn` | 2 slots, 3 addresses of 2 computers, one slot per computer, all handshakes, anti spoof, one code | 77 608 |
| `Snapshots_run` | `PointersValid`, `StoredRight`, `BaseKept`, `Recovers`, `DeltaWhileKept`, `ViewSpec` | 2 ticks of a first map and 6 of a second, 3 ticks kept, snapshots of 2 packets, 2 packets in flight each way | 2 008 025 |
| `Register_run` | `TablesAgree`, `NoFalseSuccess`, `ListedInTheEnd` | one address, 2 events, 2 requests in flight | 73 405 |
| `Http_run` | `OnePlace`, `NothingLeft`, `Grace`, `ShutdownEnds`, `RequestsEnd` | 3 requests, two of them with a time limit | 87 925 |

Every module has a type invariant, `TypeOK`. It is proved for all values of the
constants (`TypeCorrect`, `SnapshotsTypeOK`, `RegisterTypeOK`, `HttpTypeOK`), and the
runs do not check it again.

### Properties

* **InOrder** — what `FetchChunk` hands over is exactly the sender's
  sequence; a legacy client's begins at a chunk that was still in its resend
  buffer. **CopyKept** — `AckChunks` never drops the copy of a chunk the peer
  still waits for. **PeerAckMatchesBuffer** — the value `Feed` rejects stale
  acknowledgements with agrees with the copies left, and the 6 of `SetSequence` with
  the messages sent before. **StreamSpec** — the connection implements
  `VitalStream`. **Delivered** — every chunk arrives and its copy is
  acknowledged, unless an end gives up or runs out of buffer, or the chunk of a
  legacy client is one of those that the first one taken has overtaken.
* **OneOwner** — a job is in the queue once or held by one thread.
  **JobStateValid** — the assertions in `RunLoop`. **EnoughSignals** — no
  job in the queue without a signal. **CompleteAtShutdown** — the promise of
  `jobs.h` on jobs that are not abortable, and that the others are at rest.
  **AbortedStays** — nobody overwrites ABORTED. **ShutdownReturns**,
  **JobsFinish** — progress.
* **CopiedStays** — once the backup thread stored a write, one of the tables
  has it at every moment. **ReportedStored** — a stored write that is reported as
  successful is where it belongs, not only in the temporary table.
  **NotTwice** — only a write whose answer was lost can be kept by both databases.
  **AllJobsBeforeExit** — the worker thread ends with no query unanswered.
  **QueriesComplete**, **ShutdownReturns** — progress.

* **SlotsAgree** — a connection is OFFLINE exactly if its client is EMPTY, a
  client READY or INGAME exactly if it has a player; the handlers use all
  three without testing the others. **OneSlotPerAddress** — `GetClientSlot` is
  never ambiguous. **IpLimit** — `sv_max_clients_per_ip` counts kept and
  taken-over slots. **RconStaysWithLogin** — a login never outlives the
  connection it was made on. **SixupAgrees** — client and connection agree on
  the version. **ReachedBeforeAccepted** — the anti spoof setting does what it is
  for. **SeatSpec** — the slots implement `SeatTable`. **LostSlotsReturn** — a
  slot in error does not stay in error.

* **PointersValid** — `PREV` and `CURRENT` are in the storage whatever is purged,
  and in the order of time. **StoredRight** — no delta is unpacked against another
  snapshot than its base, on this map or the one before. **BaseKept** — the client has
  the base of every snapshot it can accept, unless the server took an input
  that was overtaken or meant for another map: the only way to a missing
  base. **Recovers** — two rounds in which one snapshot and the input that answers it
  come through alone bring the sides back together: the first may only tell the
  server that the base is missing. **DeltaWhileKept** — the server turns to
  `SNAPRATE_RECOVER` only for a client whose acknowledgement is missing or older than
  what `PurgeUntil` leaves, or came with an input for another map. **ViewSpec** — the
  client shows what `SnapshotView` promises.
* **TablesAgree** — an address leaves the server it belonged to when another takes
  it, and a server without addresses goes. **NoFalseSuccess** — `latest` never
  runs ahead of what the master server took, although answers arrive in any order
  and NEEDINFO takes it back. **ListedInTheEnd** — what is enabled is listed with
  the latest information, and nothing else, once faults and changes end.
* **OnePlace** — a request is queued, taken or running, and in none of them when it
  is completed. **NothingLeft** — none outlives the thread. **Grace** — none is
  given up before the delay unless curl fails. **ShutdownEnds**, **RequestsEnd** —
  progress.

### Why the bounds are enough

Five chunks modulo 4 go past a wrap, so that a chunk and an acknowledgement of
one lap can be mistaken for one of the next; two packets in flight are what a
reordering needs, one on its way while another overtakes it. A gap needs a packet
with more than one chunk and a second copy in the buffer. For a legacy client to be
misunderstood, its first chunk must be overtaken by the second one: two chunks,
queued before the accept, and an input. In the liveness run
the 8 chunks go through all numbers once and begin again. For the job pool, two
threads and a third job give each thread a job while one waits in the queue, in
front of, between or behind abortable ones, and two `Init`/`Shutdown` rounds occur. For
the ring, three queries fill three slots, so that the slot after the last one, where
the threads look for the next query or the end, is past the wrap; two pending
make the one-slot margin of `NeverFull` tight. For the server, a takeover needs
two slots and two addresses, and a third address contends for the slot it
frees; the limit needs a slot beyond it, so that a server that is not full refuses:
limit 1 of 2 slots, where a kept slot of one address keeps out the other
address of its computer, and a takeover moves the slot from one computer to another. One
timeout code besides the empty one lets codes match and differ.

For snapshots, six ticks with three kept let the server purge a base that an
acknowledgement names, and meet one that is exactly as old as what it keeps; with two inputs in flight one overtakes the other, and with two
snapshots one does while the other is still incomplete. The packets of one tick
(`Repeated`) may be received again. A first map of two ticks is enough for a
client that is ONLINE when the second begins. Rates that differ (`InitEvery` 1,
`RecoverEvery` 2) make both sides of the tests occur. For the registration, two
faults or changes of any kind combine (a restart of the one during a change of the
other, a loss during a reseed); a second address shares with the first only the serial
numbers and multiplies the states beyond what TLC can check for liveness in
minutes, and the safety properties are proved for any number. For HTTP, three
requests can be queued, taken and running at once. The proofs below cover
all values.

`CHECK_DEADLOCK FALSE` stands where the system really stops: connections after
both ends gave up with the bound on chunks used up, the database pool and the
HTTP client after the destructor returned, the snapshots at the end of the ticks.
The job pool can always be started again, and slots and registration go on.

`NetConnection_live` has the constraint `Unbroken`: no exploration beyond a
state in which an end is in ERROR or lossy. Neither is ever left again, and
`Delivered` holds from there on by its last disjunct, so no violation is
hidden; its `Prompt` lets `Recv` finish a packet before the next step, and only
reduces interleavings, which the runs of `Spec` explore.

### Fairness

* Connections: `Update` runs every tick (`CNetServer::Update`,
  `CNetClient::Update`), so the resend timer and the timers of flushes and
  keepalives fire unless something was sent, and a request to resend that
  arrives is served: `ResendOldest`. The network loses packets but, of those
  sent over and over again, lets some through: `OldestArrives`, `AckArrives`,
  and they are received: `FeedNext`, `FeedAck`. These are strong fairness,
  because packets come and go. `Recv` works a packet off: weak fairness of
  `FetchChunk`. The applications may stop sending at any time, and nothing is
  assumed of the handshake of a legacy client, which may never end.
* Job pool: the operating system schedules all threads, and `Run` returns. The calls
  of `Add`, `Shutdown`, `Init` and `Abort` are not fair; what follows in a call
  is.
* Database pool: the three threads are scheduled and SQL statements end,
  successfully or not. Nobody has to queue a query or shut down.
* Server: `CServer::Run` pumps the network in every turn, so a packet is worked
  off (weak fairness of `PacketDone`) and `Update` runs. `m_LastRecvTime` of a
  slot in error stands still, because `GetClientSlot` passes over it, so from
  some moment on each `Update` finds its protection over: strong fairness of
  `UpdateAfter(s)`, strong because `Update` runs only between packets. A
  takeover by another client may come first, and ends the error too.

* Registration: the main loop goes on (`Update`), tokens that are not lost are
  received (`OnToken`); both are strong because the bound `MaxJobs` disables them while
  requests are in flight, and nothing else does. The oldest request of a
  protocol ends, time passes (`TimeUp`), the master server cleans up every second
  (`Expire`), and what is left in flight arrives. Losses and undue expiries are
  events, which are bounded: "once they end" is "after the last one".
* HTTP: the thread runs, `curl_multi_poll` returns when there is something to do,
  the delay passes and transfers with a time limit end. Nobody has to call
  anything, and transfers without a limit may go on for ever.

## What is proved

All theorems hold for every value of the constants that satisfies the named
assumption of the module.

**NetConnection** (`ConnectionAssumption`): `TypeCorrect`, `ChunksInOrder`,
`CopiesKept`, `PeerAckMatches`, and `ImplementsStream`, the refinement of
`VitalStream` step by step. The inductive invariant is `IInv`. The three properties
support each other: an acknowledgement is harmless only if its number cannot
stand for a later chunk, that is so because the buffer covers less than half of
the circle, and the buffer covers what is missing because acknowledgements
were harmless so far. What must be added ties numbers to ghosts: `AllNumbered`
(each chunk anywhere has the number of its position), `Counted` (each acknowledgement
stands for a count of chunks really received) and `Recent` (what the unpacker holds is
less than a lap behind the next chunk expected). `Accepted` says what a legacy server has
before it makes its connection, and when its sequence is unknown. `AckWindow` and `AckChunksExact` are the
two lemmas that carry it: `Feed`'s test admits exactly the counts between what the
peer acknowledged last and what was sent, and `AckChunks` then drops exactly the
copies up to that count. An acknowledgement of only some of the messages without a
copy is let through by the test and drops nothing (`AckChunksNone`): this is what
`PreMsgs` in the assumption is for. `NextIsNext` says that a chunk with the expected number is the
expected chunk. `FirstTaken` says that nothing was acknowledged to a legacy client before its
first chunk is taken, so all its chunks are still in `m_Buffer` and fewer than its
capacity are passed over.

**JobPool** (`JobPoolAssumption`: a finite, non-empty set of threads):
`TypeCorrect`, `JobsHaveOneOwner`, `AssertionsHold`, `NoLostWakeup`,
`ShutdownCompletes`, `AbortedJobsStay`, from `PInv`. `NoLostWakeup` alone does
not explain why the queue is empty at the end: `ExactSignals` says that before
`Shutdown` signals and queued jobs are equally many, so a thread that finds no
job was woken by `Shutdown` (`Drained`), and the last one to end leaves nothing
behind. `Accounted` says where every accepted job is.

**DbConnectionPool** (`PoolAssumption`): `TypeCorrect` for every use of the
ring; under `NeverFull` (`Backlog < QueueSize`, fewer queries pending than slots) also
`CopiedWritesStay`, `ReportedWritesStored`, `WritesNotTwice` and
`JobsBeforeExit`, from `DInv`. `InStep` says that the two semaphores count the
distance between the threads, `InRing` that the slots from the worker's
position to the inserting one hold the queries with these numbers and the
others nothing, `OwnQueries` that each thread works on the query with its own number, `Ends`
that a thread ends only at the end of the queue, `Copied` and `Tables` what the
tables hold of queries ahead of, at and behind the threads. That `NeverFull` is needed is shown
by `DbPool_full`.

**NetServer** (`SlotsAssumption`, `AddrAssumption`, `CodeAssumption`):
`TypeCorrect`, `SlotsStayTogether`, `OneSlot`, `LoginStays`, `VersionsAgree`,
`Reached`, `LimitHolds` and `ImplementsSeatTable`, the refinement of `SeatTable`, from `IInv`.
Two things must be added to the properties. `SlotInv` says that a slot that is
offline is exactly as `Reset` leaves it and its client is of version 0.6:
`NewClientNoAuthCallback` does not set `m_Sixup`, so a legacy client relies on
what the last drop of the slot left there. `PacketInv` says that while a packet is worked off its slot is
either still online for the address it came from or was reset since: without it a
message could log in, or take over a slot, in the name of another. Lemmas
treat the classes of steps (`ClientStep`, `AcceptStep`, `DroppedStep`,
`TakeoverStep`, `ProtectStep`, ...), and each action is shown to be of a class.
`LimitHolds` is by counting: only `TryAcceptClient` adds a slot to those of a computer
(`AcceptLimit`, by its guard); a takeover exchanges one for another (`TakeoverLimit`), and
whatever else counts after a step counted before it for the same address
(`NoMoreSlots`). For the refinement, `SeatStates` says that `SeatTable`'s free and held slots are
the offline and online ones; accepting is a `Take`, all drops, timeouts and
close packets are a `Leave`, a takeover is a `Reclaim`.

**Snapshots** (`SnapshotAssumption`): `SnapshotsTypeOK`, `PointersStayValid`,
`StoredRightAlways`, `BasesStay`, `TwoRoundsRecover`, `DeltasWhileKept` and
`ImplementsView`, the refinement of `SnapshotView`, for any number of maps, ticks,
packets, inputs in flight and repetitions, from `IInv`. Its parts:

* `Contents` — all the client stores and all on its way to it is of one map (`OneMap`), the
  one it plays exactly from `EnterGame` on. From it follow `StoredRight` and, in
  the refinement, that the pictures shown stay the same when the storage is renewed.
* `Clock` — `ackTick` is the tick stored last or none, and then what is being put
  together is later (`MissBase` comes of a later packet). So what is accepted is later
  than all that is stored (`AcceptedIsLater`), and the storage stays in order.
* `Pointers` — `prev` and `cur` are set from the second snapshot on. `PurgeTick`
  is the earliest of them and the base (`PurgeTickLeast`), so neither is purged.
* `BaseKept`, `BasesGrow` and `Acked` support each other. A snapshot that is unpacked
  purges what is older than its base; a base or an acknowledgement that others rely on
  survives if it is *safe*: stored, and no older than any base in flight. `Acked` says
  that the acknowledgement the server took is safe unless it was overtaken, and that those on their way
  follow in order; `BasesGrow` that a later snapshot has no older base. Both fail once
  an input for another map was taken (`late` is "foreign"), which is why the
  properties except it.
* `Served` — what the client stores, or acknowledges for this map, the server made on this
  map and still has, or purged for its age.
* `Rounds` — in the first half of a round the packets of one snapshot are
  all in flight or put together, unless it was unpacked or its base is missing
  (`Arriving`); in the second half every input in flight carries the client's
  acknowledgement. In the second round the base cannot be missing any more.

`PurgedAndAdded` says what a purge and an `Add` leave of a storage (`Renewed`), `InputsLeft`,
`InputsLost` and `InputSent` what a step leaves of the inputs in flight (`Left`); every step
is treated by what it changes (`StorageChanges`, `ClockChanges`, `UpChanges`, `AckChanges`,
`PhaseChanges`). For the refinement a tick and a change of the map are `Proceed`, a switch
is `Advance`, the second snapshot unpacked is `Open`, `EnterGame` is `Leave`, and all
else leaves the view alone. TLC checked all parts of `IInv`
as invariants of the instance of `Snapshots_run`.

**Register** (`MasterAssumption`, `RegisterAssumption`): `RegisterTypeOK`,
`MasterTablesAgree`, `NoFalseSuccessEver`, for any number of addresses, events and
requests in flight, from `RegInv`. The tables agree by themselves (`MasterInv`;
`ReleasedAgrees` is the step that takes an address away from its server). That
`latest <= stored` is kept needs the answers on their way: `HonestJobs` says that a
job whose answer is OK carries a serial the master server took at that time, and
`latest` only ever takes such a serial, or one less than itself.

**Http** (`HttpAssumption`): `HttpTypeOK`, `RequestInOnePlace`, `NoRequestLeft`,
`RequestsGetGrace`, from `HttpInv`. `Places` and `Stopping` tie the points of the
loop to the queues and flags. `Drained` is the reason for `Grace`: from the
second look at `m_Shutdown` on the queue is empty, since `Run` turned requests down
before the thread took the last ones, so a thread that leaves because nothing
runs leaves nothing behind. A thread that left at its first look would; that is
the mutant of `Grace`.

## Disagreements found

* `JobPool_abort`: `jobs.h` says of `Shutdown` that it aborts all abortable jobs. A
  job that a worker thread took out of the queue and has not yet put into
  `m_RunningJobs` is in neither place `Shutdown` looks at, and runs to its end.
* `DbPool_full`: with 512 queries pending the next one overwrites the oldest, and
  both threads then take the slot that was emptied early for the end of the
  queue.
* `DbPool_servers`: `add_sqlserver r` registers a server to write to, and `w`
  one to read from.

Two observations without a run: the comment at `connection_pool.h:67` says
"Returns false on success" of a function whose callers take `true` for success;
and with exactly 512 queries pending when the server shuts down, the backup thread
looks for an empty slot and finds the oldest query again, which it passes on a
second time, and then waits for a signal that does not come. That, too, is outside
`NeverFull`.

## What is only checked, and what is not modelled

Liveness (`Delivered`, `ShutdownReturns`, `JobsFinish`, `QueriesComplete`,
`LostSlotsReturn`, `ListedInTheEnd`, `ShutdownEnds`, `RequestsEnd`) is checked by TLC
on the instances above and cannot be proved with the provers at hand.
Every safety property, action property and refinement the runs check is proved.

Of the connection, the client's phases before ONLINE are not in the model.
`NetServer` has the states of a server's connection across `Disconnect` and
`SetTimedOut`, and `NetConnection` the numbers of one that stays; what a
takeover does to the numbers is open (plan, 8). Reading it for the plan showed what
that model has to find out: the slot keeps its own `m_PeerAck`, so that packets
whose acknowledgement is older are turned down until resends have brought it up;
and its half-built packet, whose chunks have numbers of another stream. The byte layout of packets, compression and tokens
are not modelled. Of the database pool the SQL texts and the library bindings are
not.

Ring buffer, bans, snapshot ids, STUN, the external console and saved teams are
sequential or small machines that the plan lists and no module covers yet. The other
components are listed in `PROJECT.json` with the reason: I/O and bindings, parsing,
user interface, or physics in floating point that TLC cannot usefully enumerate.
They are most of the repository's lines; the model covers the part in which
threads, processes and messages meet.

To check: `tlc -config <run>.cfg <module>` for each run and `tlapm <module>.tla` for
`Modular` and for the seven `_proofs` modules.
