--------------------------- MODULE NetConnection ---------------------------
(***************************************************************************)
(* The vital chunks of one connection: CNetConnection (network_conn.cpp)   *)
(* and CNetRecvUnpacker (network.cpp) at both ends, over a network that    *)
(* loses, repeats, delays and reorders UDP packets.  It begins when both   *)
(* are NET_CONNSTATE_ONLINE, with all numbers 0, or, with a legacy client  *)
(* (CNetServer::OnPreConnMsg), when the client is: the server then answers *)
(* without a connection and accepts in the middle of the client's stream.  *)
(*                                                                         *)
(* A vital chunk's payload is its number in the order its sender queued    *)
(* it, so "data" is a ghost; the code sees "seq", the number modulo        *)
(* NET_MAX_SEQUENCE.  Chunks without NET_CHUNKFLAG_VITAL carry no sequence *)
(* number and change no state of either end: of the packets that carry     *)
(* them (snapshots, inputs) only the acknowledgement is modelled.          *)
(* time_get() is abstracted: a timer may be found expired at any Update.   *)
(***************************************************************************)
EXTENDS Integers, Sequences, FiniteSets

CONSTANTS
    Client, Server,     \* the two ends of the connection
    NET_MAX_SEQUENCE,   \* sequence numbers are taken modulo this (1024)
    BufferChunks,       \* chunks that fit m_Buffer (NET_CONN_BUFFERSIZE)
    ChunksPerPacket,    \* vital chunks that fit m_Construct (NET_MAX_PAYLOAD)
    Lifetime,           \* a packet overtaken by this many chunks is gone
    PreMsgs,            \* vital chunks SendMsgs sends a legacy client (6)
    NetCapacity,        \* bound: packets in flight towards one end
    MaxSent             \* bound: vital chunks an end may queue, per start

Ends == {Client, Server}
Peer(e) == IF e = Client THEN Server ELSE Client

(***************************************************************************)
(* The smallest entry of the 32 KiB resend buffer takes 72 bytes, so at    *)
(* most 455 fit, and 6 + 455 < 1024 / 2.  Lifetime is the assumption on    *)
(* the network every protocol with wrapping sequence numbers needs.        *)
(***************************************************************************)
ASSUME ConnectionAssumption ==
    /\ Client # Server
    /\ NET_MAX_SEQUENCE \in Nat /\ NET_MAX_SEQUENCE > 1
    /\ BufferChunks \in Nat /\ PreMsgs \in Nat
    /\ PreMsgs + BufferChunks < NET_MAX_SEQUENCE \div 2
    /\ ChunksPerPacket \in Nat \ {0}
    /\ Lifetime \in Nat /\ Lifetime < NET_MAX_SEQUENCE
    /\ NetCapacity \in Nat
    /\ MaxSent \in [BOOLEAN -> [Ends -> Nat]]

SeqNumber == 0 .. (NET_MAX_SEQUENCE - 1)
Chunk == [seq : SeqNumber, data : Nat]
Construct == [chunks : Seq(Chunk), resend : BOOLEAN]
\* count is a ghost: the number of chunks whose receipt ack stands for.
Packet == [ack : SeqNumber, count : Nat, resend : BOOLEAN, chunks : Seq(Chunk)]

VARIABLES
    state,      \* m_State: "ONLINE" or "ERROR"; no connection yet: "OFFLINE"
    sequence,   \* m_Sequence, number of the latest vital chunk queued
    ack,        \* m_Ack, number of the latest vital chunk received in order
    unknownSeq, \* m_UnknownSeq, the next vital chunk is taken whatever its number
    peerAck,    \* m_PeerAck, latest acknowledgement accepted from the peer
    buffer,     \* m_Buffer, copies of the chunks not yet acknowledged
    construct,  \* m_Construct, the packet being filled
    unpacker,   \* CNetRecvUnpacker: chunks of the packet not yet looked at
    net,        \* net[e]: packets in flight towards end e
    legacy, sent, first, received, latest, lossy    \* ghosts, see VitalStream

connVars == <<state, sequence, ack, unknownSeq, peerAck, buffer, construct>>
ghostVars == <<legacy, sent, first, received, latest, lossy>>
vars == <<connVars, unpacker, net, ghostVars>>

EmptyConstruct == [chunks |-> <<>>, resend |-> FALSE]

\* The number of the chunk handed to e last, 0 for none; m_Ack without a wrap.
UpTo(e) == first[e] + received[e] - 1

Init ==
    /\ legacy \in BOOLEAN
    /\ state = [e \in Ends |-> IF legacy /\ e = Server THEN "OFFLINE" ELSE "ONLINE"]
    /\ sequence = [e \in Ends |-> 0]
    /\ ack = [e \in Ends |-> 0]
    /\ unknownSeq = [e \in Ends |-> FALSE]
    /\ peerAck = [e \in Ends |-> 0]
    /\ buffer = [e \in Ends |-> <<>>]
    /\ construct = [e \in Ends |-> EmptyConstruct]
    /\ unpacker = [e \in Ends |-> <<>>]
    /\ net = [e \in Ends |-> {}]
    /\ sent = [e \in Ends |-> IF legacy /\ e = Server THEN PreMsgs ELSE 0]
    /\ first = [e \in Ends |-> 1]
    /\ received = [e \in Ends |-> 0]
    /\ latest = [e \in Ends |-> 0]
    /\ lossy = [e \in Ends |-> FALSE]

-----------------------------------------------------------------------------
(* Sequence arithmetic *)

NextSeq(seq) == (seq + 1) % NET_MAX_SEQUENCE

\* CNetBase::IsSeqInBackroom: seq lies in the half circle that ends at upTo.
IsSeqInBackroom(seq, upTo) ==
    LET bottom == upTo - NET_MAX_SEQUENCE \div 2
    IN IF bottom < 0
         THEN seq <= upTo \/ seq >= bottom + NET_MAX_SEQUENCE
         ELSE seq <= upTo /\ seq >= bottom

\* FetchChunk hands over the chunk numbered next, and only that one, or, on
\* a legacy connection to begin with, any.
\* Bug: only the chunk handed over last is recognised as a repetition.
IsNextNotLatest(e, seq) == seq # ack[e] \/ unknownSeq[e]

IsNext(e, seq) == seq = NextSeq(ack[e]) \/ unknownSeq[e]

\* A chunk that was handed over makes the sequence known.  Bug: it does not.
UnknownAsBefore(e) == unknownSeq[e]

UnknownOnceTaken(e) == FALSE

\* Bugs: no test at all; no case for a sequence that wrapped.
AckIsValidAlways(e, a) == TRUE
AckIsValidUnwrapped(e, a) == a >= peerAck[e] /\ a <= sequence[e]

\* Feed accepts an acknowledgement only from "own sequence..latest peer ack".
AckIsValid(e, a) ==
    IF sequence[e] >= peerAck[e]
      THEN a >= peerAck[e] /\ a <= sequence[e]
      ELSE a >= peerAck[e] \/ a <= sequence[e]

\* AckChunks: pop copies from the front while they are in the ack's backroom.
AckChunks(copies, a) ==
    LET acked == {i \in 1 .. Len(copies) :
                     \A j \in 1 .. i : IsSeqInBackroom(copies[j].seq, a)}
    IN SubSeq(copies, Cardinality(acked) + 1, Len(copies))

-----------------------------------------------------------------------------
(* Packing chunks into packets *)

\* Flush: the packet that m_Construct becomes, stamped with the current ack.
PacketOf(e, filled) ==
    [ack |-> ack[e], count |-> UpTo(e),
     resend |-> filled.resend, chunks |-> filled.chunks]

(***************************************************************************)
(* QueueChunkEx for each of the chunks in turn: a chunk that does not fit  *)
(* any more flushes the packet first, and the flush clears m_Construct     *)
(* with its flags.  Full is the number of packets flushed on the way.      *)
(***************************************************************************)
Full(filled, chunks) ==
    IF Len(filled.chunks) + Len(chunks) = 0
      THEN 0
      ELSE (Len(filled.chunks) + Len(chunks) - 1) \div ChunksPerPacket

Flushed(filled, chunks) ==
    LET all == filled.chunks \o chunks
    IN {[chunks |-> SubSeq(all, i * ChunksPerPacket + 1, (i + 1) * ChunksPerPacket),
         resend |-> i = 0 /\ filled.resend] : i \in 0 .. (Full(filled, chunks) - 1)}

Filling(filled, chunks) ==
    LET all == filled.chunks \o chunks
    IN [chunks |-> SubSeq(all, Full(filled, chunks) * ChunksPerPacket + 1, Len(all)),
        resend |-> Full(filled, chunks) = 0 /\ filled.resend]

\* Of the packets in flight towards an end and those a step sends there, the
\* network keeps some, no more than the bound.
Transmit(e, packets) ==
    \E kept \in SUBSET (net[Peer(e)] \union packets) :
        /\ Cardinality(kept) <= NetCapacity
        /\ net' = [net EXCEPT ![Peer(e)] = kept]

-----------------------------------------------------------------------------
(* The handshake of a legacy client *)

\* OnPreConnMsg answers CONNECT without a connection: with a packet that
\* SendMsgs numbers from 1, in which the last messages carry a token.
SendMsgs ==
    /\ state[Server] = "OFFLINE"
    /\ LET msgs == [i \in 1 .. PreMsgs |-> [seq |-> i, data |-> i]]
       IN Transmit(Server, {[ack |-> 0, count |-> 0, resend |-> FALSE, chunks |-> msgs]})
    /\ UNCHANGED <<connVars, unpacker, ghostVars>>

\* The sequence number the server's connection goes on from.
\* Bug: m_Sequence stays as DirectInit left it.
FirstSequenceReset == 0

FirstSequence == PreMsgs

(***************************************************************************)
(* OnPreConnMsg of an input that returns the token: the client has handled *)
(* all of SendMsgs.  TryAcceptClient makes a connection that goes on from  *)
(* these messages and does not know how many the client sent meanwhile.    *)
(* The input is the first chunk of its packet, which is not fed.           *)
(***************************************************************************)
Accept(p) ==
    /\ state[Server] = "OFFLINE"
    /\ p.chunks = <<>> /\ p.count >= PreMsgs
    /\ state' = [state EXCEPT ![Server] = "ONLINE"]
    /\ unknownSeq' = [unknownSeq EXCEPT ![Server] = TRUE]
    /\ sequence' = [sequence EXCEPT ![Server] = FirstSequence]
    /\ UNCHANGED <<ack, peerAck, buffer, construct, unpacker, net, ghostVars>>

-----------------------------------------------------------------------------
(* The application sends *)

(***************************************************************************)
(* QueueChunk of a vital chunk.  m_Sequence advances before the state is   *)
(* looked at.  m_Buffer.Allocate finds room for a copy or not: chunks have *)
(* different sizes, so it may fail with fewer than BufferChunks copies     *)
(* kept, and the chunk is then sent without a copy.                        *)
(***************************************************************************)
QueueVital(e) ==
    LET chunk == [seq |-> NextSeq(sequence[e]), data |-> sent[e] + 1]
    IN /\ state[e] = "ONLINE"
       /\ sent[e] < MaxSent[legacy][e]
       /\ sequence' = [sequence EXCEPT ![e] = chunk.seq]
       /\ sent' = [sent EXCEPT ![e] = @ + 1]
       /\ construct' = [construct EXCEPT ![e] = Filling(construct[e], <<chunk>>)]
       /\ Transmit(e, {PacketOf(e, f) : f \in Flushed(construct[e], <<chunk>>)})
       /\ \/ /\ Len(buffer[e]) < BufferChunks
             /\ buffer' = [buffer EXCEPT ![e] = Append(@, chunk)]
             /\ UNCHANGED lossy
          \/ /\ buffer[e] # <<>>
             /\ lossy' = [lossy EXCEPT ![e] = TRUE]
             /\ UNCHANGED buffer
       /\ UNCHANGED <<state, ack, unknownSeq, peerAck, unpacker>>
       /\ UNCHANGED <<legacy, first, received, latest>>

\* QueueChunk in state ERROR: QueueChunkEx returns -1, the number is used up.
\* Bound: one such call, which nothing in this module reacts to.
QueueInError(e) ==
    /\ state[e] = "ERROR"
    /\ sequence[e] = sent[e] % NET_MAX_SEQUENCE
    /\ sequence' = [sequence EXCEPT ![e] = (@ + 1) % NET_MAX_SEQUENCE]
    /\ UNCHANGED <<state, ack, unknownSeq, peerAck, buffer, construct, unpacker, net, ghostVars>>

\* A chunk without the vital flag queued with NETSENDFLAG_FLUSH (snapshots,
\* inputs): it goes out with what m_Construct holds, or after that.
SendPlain(e) ==
    /\ state[e] = "ONLINE"
    /\ \E after \in BOOLEAN :
        /\ after => construct[e].chunks # <<>>
        /\ Transmit(e, {PacketOf(e, construct[e])}
                        \union IF after THEN {PacketOf(e, EmptyConstruct)} ELSE {})
    /\ construct' = [construct EXCEPT ![e] = EmptyConstruct]
    /\ UNCHANGED <<state, sequence, ack, unknownSeq, peerAck, buffer, unpacker, ghostVars>>

\* Flush, called by the application after a chunk with NETSENDFLAG_FLUSH.
Flush(e) ==
    /\ construct[e] # EmptyConstruct
    /\ Transmit(e, {PacketOf(e, construct[e])})
    /\ construct' = [construct EXCEPT ![e] = EmptyConstruct]
    /\ UNCHANGED <<state, sequence, ack, unknownSeq, peerAck, buffer, unpacker, ghostVars>>

-----------------------------------------------------------------------------
(* The network *)

Lose(e) ==
    \E p \in net[e] :
        /\ net' = [net EXCEPT ![e] = @ \ {p}]
        /\ UNCHANGED <<connVars, unpacker, ghostVars>>

\* A packet still in flight although its peers went on is too old to arrive.
Fresh(e, p) ==
    /\ \A i \in 1 .. Len(p.chunks) : sent[Peer(e)] - p.chunks[i].data < Lifetime
    /\ sent[e] - p.count <= Lifetime

-----------------------------------------------------------------------------
(* The application receives *)

(***************************************************************************)
(* Feed of a packet that is not a control message, or of a keepalive (no   *)
(* chunks); Recv feeds a packet only when the unpacker is drained and the  *)
(* state is neither OFFLINE nor ERROR.  The packet may arrive again.       *)
(* Resend runs before AckChunks, on the buffer as it was.                  *)
(***************************************************************************)
Feed(e, p) ==
    /\ state[e] = "ONLINE"
    /\ unpacker[e] = <<>>
    /\ p \in net[e]
    /\ Fresh(e, p)
    /\ IF ~AckIsValid(e, p.ack)
         THEN UNCHANGED <<connVars, unpacker, net, ghostVars>>
         ELSE /\ peerAck' = [peerAck EXCEPT ![e] = p.ack]
              /\ IF p.resend
                   THEN /\ construct' = [construct EXCEPT ![e] = Filling(@, buffer[e])]
                        /\ Transmit(e, {PacketOf(e, f) : f \in Flushed(construct[e], buffer[e])})
                   ELSE UNCHANGED <<construct, net>>
              /\ buffer' = [buffer EXCEPT ![e] = AckChunks(@, p.ack)]
              /\ unpacker' = [unpacker EXCEPT ![e] = p.chunks]
              /\ UNCHANGED <<state, sequence, ack, unknownSeq, ghostVars>>

(***************************************************************************)
(* One iteration of FetchChunk: the next chunk is handed over when it is   *)
(* the next in sequence, or the first one of an unknown sequence, ignored  *)
(* when it is old, and answered with a request to resend otherwise.  The   *)
(* application may send in between.                                        *)
(***************************************************************************)
FetchChunk(e) ==
    /\ unpacker[e] # <<>>
    /\ unpacker' = [unpacker EXCEPT ![e] = Tail(@)]
    /\ LET chunk == Head(unpacker[e])
       IN IF IsNext(e, chunk.seq)
            THEN /\ unknownSeq' = [unknownSeq EXCEPT ![e] = UnknownOnceTaken(e)]
                 /\ ack' = [ack EXCEPT ![e] = chunk.seq]
                 /\ first' = [first EXCEPT ![e] = IF unknownSeq[e] THEN chunk.data ELSE @]
                 /\ received' = [received EXCEPT ![e] = @ + 1]
                 /\ latest' = [latest EXCEPT ![e] = chunk.data]
                 /\ UNCHANGED construct
            ELSE /\ construct' = [construct EXCEPT ![e].resend =
                                    @ \/ ~IsSeqInBackroom(chunk.seq, ack[e])]
                 /\ UNCHANGED <<ack, unknownSeq, first, received, latest>>
    /\ UNCHANGED <<state, sequence, peerAck, buffer, net, legacy, sent, lossy>>

-----------------------------------------------------------------------------
(* Update, once per tick *)

(***************************************************************************)
(* Nothing was received, or the oldest copy was not acknowledged, for      *)
(* conn_timeout seconds.                                                   *)
(***************************************************************************)
TimeOut(e) ==
    /\ state[e] = "ONLINE"
    /\ unpacker[e] = <<>>
    /\ state' = [state EXCEPT ![e] = "ERROR"]
    /\ UNCHANGED <<sequence, ack, unknownSeq, peerAck, buffer, construct, unpacker, net, ghostVars>>

(***************************************************************************)
(* No timeout: the oldest copy is queued again when it is older than a     *)
(* second (resendDue), then the packet is flushed when nothing was sent    *)
(* for half a second (flushDue); a keepalive goes out when, after that,    *)
(* nothing was sent for a second (idle).  The flags say which timers the   *)
(* call finds expired; sending anything resets the two send timers.        *)
(***************************************************************************)
UpdateWith(e, resendDue, flushDue, idle) ==
    LET again == IF resendDue /\ buffer[e] # <<>> THEN <<Head(buffer[e])>> ELSE <<>>
        early == Flushed(construct[e], again)
        rest == Filling(construct[e], again)
        late == IF flushDue /\ rest # EmptyConstruct THEN {rest} ELSE {}
        alive == IF idle THEN {EmptyConstruct} ELSE {}
    IN /\ state[e] = "ONLINE"
       /\ unpacker[e] = <<>>
       /\ idle => flushDue /\ late = {}
       /\ flushDue => early = {}
       /\ construct' = [construct EXCEPT ![e] = IF late = {} THEN rest ELSE EmptyConstruct]
       /\ Transmit(e, {PacketOf(e, f) : f \in early \union late \union alive})
       /\ UNCHANGED <<state, sequence, ack, unknownSeq, peerAck, buffer, unpacker, ghostVars>>

Update(e) ==
    \E resendDue, flushDue, idle \in BOOLEAN : UpdateWith(e, resendDue, flushDue, idle)

-----------------------------------------------------------------------------
Next ==
    \/ SendMsgs
    \/ \E p \in net[Server] : Accept(p)
    \/ \E e \in Ends :
        \/ QueueVital(e)
        \/ QueueInError(e)
        \/ SendPlain(e)
        \/ Flush(e)
        \/ Lose(e)
        \/ \E p \in net[e] : Feed(e, p)
        \/ FetchChunk(e)
        \/ TimeOut(e)
        \/ Update(e)

Spec == Init /\ [][Next]_vars

-----------------------------------------------------------------------------
(* Properties *)

\* The values the variables take: every chunk and packet is well formed, and
\* the resend buffer never holds more than its capacity.
TypeOK ==
    /\ state \in [Ends -> {"OFFLINE", "ONLINE", "ERROR"}]
    /\ sequence \in [Ends -> SeqNumber]
    /\ ack \in [Ends -> SeqNumber]
    /\ unknownSeq \in [Ends -> BOOLEAN]
    /\ peerAck \in [Ends -> SeqNumber]
    /\ buffer \in [Ends -> Seq(Chunk)]
    /\ construct \in [Ends -> Construct]
    /\ unpacker \in [Ends -> Seq(Chunk)]
    /\ net \in [Ends -> SUBSET Packet]
    /\ legacy \in BOOLEAN
    /\ sent \in [Ends -> Nat]
    /\ first \in [Ends -> Nat \ {0}]
    /\ received \in [Ends -> Nat]
    /\ latest \in [Ends -> Nat]
    /\ lossy \in [Ends -> BOOLEAN]
    /\ \A e \in Ends : Len(buffer[e]) <= BufferChunks

\* Chunks of e that its peer was handed, or that precede the first of these.
Settled(e) == UpTo(Peer(e))

\* Chunks of e that have no copy in m_Buffer any more.
Dropped(e) == sent[e] - Len(buffer[e])

(***************************************************************************)
(* FetchChunk hands over the peer's vital chunks in the order QueueChunk   *)
(* numbered them, each once, none skipped, whatever the network does and   *)
(* although the numbers on the wire wrap at NET_MAX_SEQUENCE.  It begins   *)
(* with the first one, except for a server that accepted a legacy client   *)
(* by its input: there any chunk the client had queued by then may be the  *)
(* first, as the earlier ones count as old, and fewer than fit m_Buffer    *)
(* are passed over.                                                        *)
(***************************************************************************)
InOrder ==
    \A e \in Ends : ~lossy[Peer(e)] =>
        /\ latest[e] = UpTo(e)
        /\ UpTo(e) <= sent[Peer(e)]
        /\ first[e] = 1 \/ (legacy /\ e = Server /\ first[e] <= BufferChunks)

(***************************************************************************)
(* AckChunks, driven by acknowledgements that arrive late, twice or out of *)
(* order, never drops the copy of a chunk the peer still waits for:        *)
(* m_Buffer is the run of the latest chunks queued, and it begins no later *)
(* than the first one after those the peer was handed.  A legacy client's  *)
(* chunks before the first one handed over are not waited for; for the     *)
(* server's messages sent without a connection there is no m_Buffer, and   *)
(* they have all been received when there is one.                          *)
(***************************************************************************)
CopyKept ==
    \A e \in Ends : ~lossy[e] /\ state[e] # "OFFLINE" =>
        /\ \A i \in 1 .. Len(buffer[e]) : buffer[e][i].data = Dropped(e) + i
        /\ Dropped(e) <= Settled(e)

(***************************************************************************)
(* m_PeerAck is the acknowledgement of exactly the chunks that left        *)
(* m_Buffer: the test in Feed that rejects stale acknowledgements and the  *)
(* copies kept agree on what the peer has.  A server that accepted a       *)
(* legacy client has m_PeerAck 0 and m_Sequence PreMsgs, and until it is   *)
(* told of more than these, m_PeerAck may stand for fewer.                 *)
(***************************************************************************)
PeerAckMatchesBuffer ==
    \A e \in Ends : ~lossy[e] /\ state[e] # "OFFLINE" =>
        \/ peerAck[e] = Dropped(e) % NET_MAX_SEQUENCE
        \/ legacy /\ e = Server /\ peerAck[e] < PreMsgs /\ Dropped(e) = PreMsgs

(***************************************************************************)
(* Why the properties above are preserved.  A number on the wire stands    *)
(* for exactly one chunk: AllNumbered and Counted tie the numbers of       *)
(* chunks and acknowledgements to the ghosts they are the residues of, and *)
(* Recent says that the chunks Recv is working on are less than a whole    *)
(* circle behind the next one expected.  Accepted says what a legacy       *)
(* server has before and just after it makes the connection.               *)
(***************************************************************************)
Numbered(e) == {[seq |-> n % NET_MAX_SEQUENCE, data |-> n] : n \in 1 .. sent[e]}

AllNumbered ==
    \A e \in Ends :
        /\ state[e] = "ONLINE" => sequence[e] = sent[e] % NET_MAX_SEQUENCE
        /\ buffer[e] \in Seq(Numbered(e))
        /\ construct[e].chunks \in Seq(Numbered(e))
        /\ unpacker[Peer(e)] \in Seq(Numbered(e))
        /\ \A p \in net[Peer(e)] : p.chunks \in Seq(Numbered(e))

Counted ==
    \A e \in Ends :
        /\ ack[e] = UpTo(e) % NET_MAX_SEQUENCE
        /\ \A p \in net[Peer(e)] :
              p.ack = p.count % NET_MAX_SEQUENCE /\ p.count <= UpTo(e)

Recent ==
    \A e \in Ends :
        /\ ~lossy[Peer(e)] =>
              \A i \in 1 .. Len(unpacker[e]) : UpTo(e) - unpacker[e][i].data < Lifetime
        /\ \A i, j \in 1 .. Len(unpacker[e]) :
              unpacker[e][i].data - unpacker[e][j].data < Lifetime

Accepted ==
    \A e \in Ends :
        /\ state[e] = "OFFLINE" =>
              /\ legacy /\ e = Server /\ ~lossy[e] /\ sent[e] = PreMsgs
              /\ peerAck[e] = 0 /\ buffer[e] = <<>> /\ unpacker[e] = <<>>
              /\ received[e] = 0
        /\ received[e] = 0 => first[e] = 1
        /\ unknownSeq[e] <=> legacy /\ e = Server /\ state[e] # "OFFLINE" /\ received[e] = 0

IInv ==
    /\ TypeOK /\ AllNumbered /\ Counted /\ Recent /\ Accepted
    /\ InOrder /\ CopyKept /\ PeerAckMatchesBuffer

Stream == INSTANCE VitalStream

\* The connection implements the abstract stream of vital chunks.
StreamSpec == Stream!Spec

-----------------------------------------------------------------------------
(* Progress *)

InFlight(e) == UNION {{p.chunks[i].data : i \in 1 .. Len(p.chunks)} : p \in net[e]}

\* Recv works a packet off before the other end does anything; a step of the
\* other end in between is explored by the runs of Spec.
Prompt == (\E e \in Ends : unpacker[e] # <<>>) => (\E e \in Ends : FetchChunk(e))

\* The oldest copy is sent again, by its timer or on the peer's request.
ResendOldest(e) ==
    \/ buffer[e] # <<>> /\ UpdateWith(e, TRUE, FALSE, FALSE)
    \/ \E p \in net[e] : p.resend /\ Feed(e, p)

\* The steps that send, and what of it gets through.
Sending(e) == SendPlain(e) \/ Flush(e) \/ Update(e) \/ \E p \in net[e] : Feed(e, p)
OldestArrives(e) ==
    /\ buffer[e] # <<>>
    /\ Sending(e)
    /\ Head(buffer[e]).data \in InFlight(Peer(e))'
AckArrives(e) == Sending(e) /\ \E p \in net'[Peer(e)] : p.count = UpTo(e)

\* A packet is in flight towards e that carries the chunk e waits for, or
\* that acknowledges all that e's peer has received.
FeedNext(e) == \E p \in net[e] :
    /\ \E i \in 1 .. Len(p.chunks) : p.chunks[i].data = UpTo(e) + 1
    /\ Feed(e, p)
FeedAck(e) == \E p \in net[e] : p.count = Settled(e) /\ Feed(e, p)

(***************************************************************************)
(* Update runs every tick, so the timers of resends and keepalives expire  *)
(* unless something was sent; of the packets sent over and over again the  *)
(* network lets some through.  Nothing is assumed of the application, nor  *)
(* that the handshake of a legacy client ever ends.                        *)
(***************************************************************************)
Fairness ==
    \A e \in Ends :
        /\ WF_vars(FetchChunk(e))
        /\ SF_vars(ResendOldest(e))
        /\ SF_vars(OldestArrives(e)) /\ SF_vars(AckArrives(e))
        /\ SF_vars(FeedNext(e)) /\ SF_vars(FeedAck(e))

FairSpec == Init /\ [][Next /\ Prompt]_vars /\ Fairness

Broken == \E e \in Ends : lossy[e] \/ state[e] = "ERROR"

(***************************************************************************)
(* Every vital chunk queued is handed over and its copy acknowledged in    *)
(* the end, unless an end gives the connection up or runs out of resend    *)
(* buffer: no acknowledgement that Feed rejects, no chunk that FetchChunk  *)
(* ignores and no request to resend that is never sent stops the stream.   *)
(* Of a legacy client the same holds from its accept on, where "handed     *)
(* over" includes the chunks that the first one taken has overtaken.       *)
(***************************************************************************)
Delivered ==
    \A e \in Ends, l \in BOOLEAN : \A n \in 1 .. MaxSent[l][e] :
        legacy = l /\ sent[e] = n
                    ~> \/ Settled(e) = n /\ buffer[e] = <<>>
                       \/ sent[e] > n
                       \/ state[Server] = "OFFLINE"
                       \/ Broken
=============================================================================
