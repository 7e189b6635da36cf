------------------------ MODULE NetConnection_proofs ------------------------
(***************************************************************************)
(* Proofs about NetConnection for every size of the sequence space, the    *)
(* resend buffer and the packets that ConnectionAssumption allows: IInv is *)
(* an invariant, and the connection implements VitalStream.                *)
(***************************************************************************)
EXTENDS NetConnection, Modular, FiniteSetTheorems, SequenceTheorems, TLAPS

-----------------------------------------------------------------------------
(* Numbers modulo m: what a sequence number says about the chunk it is of *)

\* QueueChunk and FetchChunk step through the residues.
LEMMA NextSeqMod ==
    ASSUME ConnectionAssumption, NEW a \in Nat
    PROVE  NextSeq(a % NET_MAX_SEQUENCE) = (a + 1) % NET_MAX_SEQUENCE
<1> DEFINE m == NET_MAX_SEQUENCE
<1>1. m \in Nat /\ m > 1
  BY DEF ConnectionAssumption
<1> HIDE DEF m
<1>2. a % m \in 0 .. (m - 1) /\ (a + 1) % m \in 0 .. (m - 1)
  BY <1>1, DivMod
<1>3. a % m = ((a + 1) % m) - 1 \/ a % m = ((a + 1) % m) - 1 + m
  <2> DEFINE b == a + 1
  <2>1. b \in Nat /\ a <= b /\ b - a < m /\ b - a = 1 /\ m > 0
    BY <1>1
  <2> HIDE DEF b
  <2>2. a % m = (b % m) - (b - a) \/ a % m = (b % m) - (b - a) + m
    BY <1>1, <2>1, Behind
  <2>3. b % m \in Int
    BY <1>1, <2>1, DivMod
  <2>4. a % m = (b % m) - 1 \/ a % m = (b % m) - 1 + m
    BY <2>1, <2>2
  <2> QED BY <2>4 DEF b
<1>4. ((a % m) + 1) % m = (a + 1) % m
  <2>1. CASE a % m = ((a + 1) % m) - 1
    <3>1. (a % m) + 1 = (a + 1) % m /\ (a % m) + 1 \in 0 .. (m - 1)
      BY <1>2, <2>1
    <3>2. ((a % m) + 1) % m = (a % m) + 1
      BY <1>1, <3>1
    <3> QED BY <3>1, <3>2
  <2>2. CASE a % m = ((a + 1) % m) - 1 + m
    <3>1. (a % m) + 1 = m /\ (a + 1) % m = 0
      BY <1>1, <1>2, <2>2
    <3>2. m % m = 0
      BY <1>1
    <3> QED BY <3>1, <3>2
  <2> QED BY <1>3, <2>1, <2>2
<1> QED BY <1>4 DEF NextSeq, m

\* Between numbers less than half a circle apart, the backroom test compares.
LEMMA Backroom ==
    ASSUME ConnectionAssumption, NEW u \in Nat, NEW v \in Nat,
           u - v < NET_MAX_SEQUENCE \div 2, v - u < NET_MAX_SEQUENCE \div 2
    PROVE  IsSeqInBackroom(u % NET_MAX_SEQUENCE, v % NET_MAX_SEQUENCE) <=> u <= v
<1> DEFINE m == NET_MAX_SEQUENCE
           h == NET_MAX_SEQUENCE \div 2
<1>1. m \in Nat /\ m > 1 /\ h \in Nat /\ h + h <= m
  BY DEF ConnectionAssumption
<1>2. u - v < h /\ v - u < h
  OBVIOUS
<1> HIDE DEF m, h
<1>3. u % m \in 0 .. (m - 1) /\ v % m \in 0 .. (m - 1)
  BY <1>1, DivMod
<1>4. CASE u <= v
  <2>1. v - u < m /\ m > 0
    BY <1>1, <1>2
  <2>2. u % m = (v % m) - (v - u) \/ u % m = (v % m) - (v - u) + m
    BY <1>1, <1>4, <2>1, Behind
  <2> QED BY <1>1, <1>2, <1>3, <1>4, <2>2 DEF IsSeqInBackroom, m, h
<1>5. CASE v < u
  <2>1. v <= u /\ u - v < m /\ m > 0
    BY <1>1, <1>2, <1>5
  <2>2. v % m = (u % m) - (u - v) \/ v % m = (u % m) - (u - v) + m
    BY <1>1, <2>1, Behind
  <2> QED BY <1>1, <1>2, <1>3, <1>5, <2>2 DEF IsSeqInBackroom, m, h
<1> QED BY <1>4, <1>5

\* The test of Feed: of the numbers less than a circle behind m_Sequence, it
\* accepts those that m_PeerAck is not ahead of.
LEMMA AckWindow ==
    ASSUME ConnectionAssumption, NEW e \in Ends,
           NEW s \in Nat, NEW l \in Nat, NEW c \in Nat,
           l <= s, s - l < NET_MAX_SEQUENCE, c <= s, s - c < NET_MAX_SEQUENCE,
           sequence[e] = s % NET_MAX_SEQUENCE, peerAck[e] = l % NET_MAX_SEQUENCE,
           AckIsValid(e, c % NET_MAX_SEQUENCE)
    PROVE  l <= c
<1> DEFINE m == NET_MAX_SEQUENCE
<1>1. m \in Nat /\ m > 0
  BY DEF ConnectionAssumption
<1>2. /\ s - l < m /\ s - c < m /\ sequence[e] = s % m /\ peerAck[e] = l % m
      /\ AckIsValid(e, c % m)
  OBVIOUS
<1> HIDE DEF m
<1>3. /\ s % m \in 0 .. (m - 1) /\ l % m \in 0 .. (m - 1) /\ c % m \in 0 .. (m - 1)
  BY <1>1, DivMod
<1>4. l % m = (s % m) - (s - l) \/ l % m = (s % m) - (s - l) + m
  BY <1>1, <1>2, Behind
<1>5. c % m = (s % m) - (s - c) \/ c % m = (s % m) - (s - c) + m
  BY <1>1, <1>2, Behind
<1> QED BY <1>1, <1>2, <1>3, <1>4, <1>5 DEF AckIsValid

-----------------------------------------------------------------------------
(* Packing chunks into packets, unlinking copies from the resend buffer *)

\* A part of a sequence over a set is a sequence over it.
LEMMA Part ==
    ASSUME NEW S, NEW s \in Seq(S), NEW a \in Nat \ {0}, NEW b \in Nat, b <= Len(s), a <= b + 1
    PROVE  SubSeq(s, a, b) \in Seq(S) /\ Len(SubSeq(s, a, b)) = b - a + 1
<1>1. \A i \in a .. b : s[i] \in S
  BY SMT
<1> QED BY <1>1, SubSeqProperties, SMT

\* The packets that become full hold only chunks that were queued, ...
LEMMA FullParts ==
    ASSUME ConnectionAssumption, NEW S, NEW filled, filled.chunks \in Seq(S), NEW chunks \in Seq(S)
    PROVE  /\ filled.chunks \o chunks \in Seq(S)
           /\ Full(filled, chunks) \in Nat
           /\ Full(filled, chunks) * ChunksPerPacket <= Len(filled.chunks \o chunks)
<1> DEFINE m == ChunksPerPacket
           n == Len(filled.chunks) + Len(chunks)
<1>1. m \in Nat /\ m > 0 /\ n \in Nat
  BY DEF ConnectionAssumption
<1>2. filled.chunks \o chunks \in Seq(S) /\ Len(filled.chunks \o chunks) = n
  BY ConcatProperties
<1>3. Full(filled, chunks) = IF n = 0 THEN 0 ELSE (n - 1) \div m
  BY DEF Full
<1> HIDE DEF m, n
<1>4. CASE n = 0
  BY <1>1, <1>2, <1>3, <1>4 DEF m
<1>5. CASE n # 0
  <2> DEFINE k == n - 1
  <2>1. k \in Nat
    BY <1>1, <1>5
  <2> HIDE DEF k
  <2>2. k = m * (k \div m) + (k % m) /\ k \div m \in Nat /\ k % m \in 0 .. (m - 1)
    BY <1>1, <2>1, DivMod
  <2>3. (k \div m) * m = m * (k \div m)
    BY <1>1, <2>2
  <2>4. (k \div m) * m <= k
    BY <1>1, <2>1, <2>2, <2>3
  <2>5. Full(filled, chunks) = k \div m
    BY <1>3, <1>5 DEF k
  <2>6. k <= n
    BY <1>1 DEF k
  <2> QED BY <1>1, <1>2, <2>1, <2>2, <2>4, <2>5, <2>6 DEF m
<1> QED BY <1>4, <1>5

\* A packet that was flushed is one of these parts.
LEMMA FlushedParts ==
    ASSUME ConnectionAssumption, NEW S \in SUBSET Chunk,
           NEW filled \in Construct, filled.chunks \in Seq(S), NEW chunks \in Seq(S)
    PROVE  \A f \in Flushed(filled, chunks) : f \in Construct /\ f.chunks \in Seq(S)
<1> DEFINE m == ChunksPerPacket
           k == Full(filled, chunks)
           all == filled.chunks \o chunks
<1>1. m \in Nat /\ m > 0
  BY DEF ConnectionAssumption
<1>2. all \in Seq(S) /\ k \in Nat /\ k * m <= Len(all) /\ Len(all) \in Nat
  <2>1. all \in Seq(S) /\ k \in Nat /\ k * m <= Len(all)
    BY FullParts, Zenon
  <2> HIDE DEF all
  <2>2. Len(all) \in Nat
    BY <2>1, LenProperties, Zenon
  <2> QED BY <2>1, <2>2
<1>3. filled.resend \in BOOLEAN
  BY DEF Construct
<1>4. Flushed(filled, chunks) =
        {[chunks |-> SubSeq(all, i * m + 1, (i + 1) * m),
          resend |-> i = 0 /\ filled.resend] : i \in 0 .. (k - 1)}
  BY DEF Flushed
<1> HIDE DEF m, k, all
<1> DEFINE packet(i) == [chunks |-> SubSeq(all, i * m + 1, (i + 1) * m),
                         resend |-> i = 0 /\ filled.resend]
<1>5. ASSUME NEW i \in 0 .. (k - 1)
      PROVE  packet(i) \in Construct /\ packet(i).chunks \in Seq(S)
  <2>1. /\ i * m \in Nat /\ (i + 1) * m = i * m + m
        /\ (i + 1) * m <= Len(all)
    <3>1. i * m \in Nat /\ (i + 1) * m = i * m + m
      BY <1>1, <1>2
    <3>2. m * i = i * m /\ m * k = k * m
      BY <1>1, <1>2
    <3>3. m * i + m <= m * k
      <4>1. i \in Int /\ k \in Int /\ i < k
        BY <1>2
      <4> QED BY <1>1, <4>1, Laps
    <3> DEFINE x == i * m
               y == k * m
    <3>4. x \in Nat /\ (i + 1) * m = x + m /\ x + m <= y /\ y <= Len(all)
      <4>1. x + m <= y
        BY <3>2, <3>3
      <4> QED BY <1>2, <3>1, <4>1
    <3> HIDE DEF y
    <3>5. y \in Int
      BY <1>1, <1>2 DEF y
    <3> QED BY <1>1, <1>2, <3>1, <3>4, <3>5
  <2>2. SubSeq(all, i * m + 1, (i + 1) * m) \in Seq(S)
    <3> DEFINE a == i * m + 1
               b == (i + 1) * m
    <3> DEFINE x == i * m
    <3>0. x \in Nat /\ a = x + 1 /\ b = x + m /\ b <= Len(all)
      BY <2>1
    <3> HIDE DEF a, b, x
    <3>1. a \in Nat \ {0} /\ b \in Nat /\ b <= Len(all) /\ a <= b + 1
      BY <1>1, <3>0
    <3>2. SubSeq(all, a, b) \in Seq(S)
      BY <1>2, <3>1, Part
    <3> QED BY <3>2 DEF a, b
  <2>3. SubSeq(all, i * m + 1, (i + 1) * m) \in Seq(Chunk)
    BY <2>2, SeqMonotonic
  <2> QED BY <1>3, <2>2, <2>3 DEF Construct
<1> HIDE DEF packet
<1>6. Flushed(filled, chunks) = {packet(i) : i \in 0 .. (k - 1)}
  BY <1>4 DEF packet
<1> QED BY <1>5, <1>6

\* ... and so does the packet that is filled next.
LEMMA FillingParts ==
    ASSUME ConnectionAssumption, NEW S \in SUBSET Chunk,
           NEW filled \in Construct, filled.chunks \in Seq(S), NEW chunks \in Seq(S)
    PROVE  Filling(filled, chunks) \in Construct /\ Filling(filled, chunks).chunks \in Seq(S)
<1> DEFINE a == Full(filled, chunks) * ChunksPerPacket + 1
           all == filled.chunks \o chunks
<1>1. /\ all \in Seq(S) /\ Len(all) \in Nat
      /\ a \in Nat \ {0} /\ a <= Len(all) + 1
  <2>1. /\ ChunksPerPacket \in Nat
        /\ Full(filled, chunks) \in Nat
        /\ Full(filled, chunks) * ChunksPerPacket <= Len(all)
        /\ all \in Seq(S)
    BY FullParts DEF ConnectionAssumption
  <2>2. Full(filled, chunks) * ChunksPerPacket \in Nat
    BY <2>1
  <2> QED BY <2>1, <2>2
<1>2. Filling(filled, chunks) = [chunks |-> SubSeq(all, a, Len(all)),
                                 resend |-> Full(filled, chunks) = 0 /\ filled.resend]
  BY DEF Filling
<1>3. filled.resend \in BOOLEAN
  BY DEF Construct
<1> HIDE DEF a, all
<1>4. SubSeq(all, a, Len(all)) \in Seq(S)
  BY <1>1, Part
<1>5. SubSeq(all, a, Len(all)) \in Seq(Chunk)
  BY <1>4, SeqMonotonic
<1> QED BY <1>2, <1>3, <1>4, <1>5 DEF Construct

\* AckChunks keeps a part of the buffer, whatever the acknowledgement.
LEMMA AckChunksPart ==
    ASSUME NEW S, NEW copies \in Seq(S), NEW a
    PROVE  /\ AckChunks(copies, a) \in Seq(S)
           /\ Len(AckChunks(copies, a)) <= Len(copies)
<1> DEFINE acked == {i \in 1 .. Len(copies) :
                       \A j \in 1 .. i : IsSeqInBackroom(copies[j].seq, a)}
           n == Cardinality(acked) + 1
<1>1. Len(copies) \in Nat
  OBVIOUS
<1>2. IsFiniteSet(1 .. Len(copies)) /\ Cardinality(1 .. Len(copies)) = Len(copies)
  BY <1>1, FS_Interval
<1>3. acked \subseteq 1 .. Len(copies)
  OBVIOUS
<1> HIDE DEF acked
<1>4. Cardinality(acked) \in Nat /\ Cardinality(acked) <= Len(copies)
  BY <1>2, <1>3, FS_Subset, FS_CardinalityType
<1>5. n \in Nat \ {0} /\ n <= Len(copies) + 1
  BY <1>1, <1>4
<1>6. AckChunks(copies, a) = SubSeq(copies, n, Len(copies))
  BY DEF AckChunks, acked
<1> HIDE DEF n
<1>7. /\ SubSeq(copies, n, Len(copies)) \in Seq(S)
      /\ Len(SubSeq(copies, n, Len(copies))) = Len(copies) - n + 1
  BY <1>1, <1>5, Part
<1> QED BY <1>1, <1>5, <1>6, <1>7

\* A number on the wire is that of a chunk, or of a number of chunks.
StandsFor(number, n) == number = n % NET_MAX_SEQUENCE

\* The copies are those of the latest chunks, of which s were queued.
CopiesUpTo(copies, s) ==
    \A i \in 1 .. Len(copies) :
        /\ copies[i].data = s - Len(copies) + i
        /\ StandsFor(copies[i].seq, copies[i].data)

\* When the copies are the latest chunks up to number s and c of the chunks
\* are acknowledged, the copies kept are those of the chunks after c.
LEMMA AckChunksExact ==
    ASSUME ConnectionAssumption,
           NEW S, NEW copies \in Seq(S), Len(copies) <= BufferChunks,
           NEW s \in Nat, NEW c \in Nat, Len(copies) <= s, c <= s, s - Len(copies) <= c,
           CopiesUpTo(copies, s), NEW a, StandsFor(a, c)
    PROVE  /\ Len(AckChunks(copies, a)) = s - c
           /\ \A i \in 1 .. Len(AckChunks(copies, a)) : AckChunks(copies, a)[i].data = c + i
<1> DEFINE n == Len(copies)
           d == s - n
           acked == {i \in 1 .. n : \A j \in 1 .. i : IsSeqInBackroom(copies[j].seq, a)}
<1>1. /\ n \in Nat /\ d \in Nat /\ d <= c /\ c - d <= n /\ c - d \in Nat
      /\ n < NET_MAX_SEQUENCE \div 2 /\ NET_MAX_SEQUENCE \div 2 \in Nat
  BY DEF ConnectionAssumption
<1>2. \A j \in 1 .. n : IsSeqInBackroom(copies[j].seq, a) <=> j <= c - d
  <2> SUFFICES ASSUME NEW j \in 1 .. n
               PROVE  IsSeqInBackroom(copies[j].seq, a) <=> j <= c - d
    OBVIOUS
  <2> DEFINE u == d + j
  <2>1. u \in Nat /\ StandsFor(copies[j].seq, u)
    BY <1>1 DEF CopiesUpTo
  <2>2. u - c < NET_MAX_SEQUENCE \div 2 /\ c - u < NET_MAX_SEQUENCE \div 2
    BY <1>1
  <2>3. u <= c <=> j <= c - d
    BY <1>1
  <2> HIDE DEF u
  <2>4. IsSeqInBackroom(copies[j].seq, a) <=> u <= c
    BY <2>1, <2>2, Backroom DEF StandsFor
  <2> QED BY <2>1, <2>3, <2>4
<1> HIDE DEF n, d
<1>3. acked = 1 .. (c - d)
  <2>1. ASSUME NEW i \in 1 .. n
        PROVE  i \in acked <=> i <= c - d
    <3>1. ASSUME i \in acked PROVE i <= c - d
      <4>1. i \in 1 .. i /\ i \in 1 .. n
        BY <1>1
      <4>2. IsSeqInBackroom(copies[i].seq, a)
        BY <3>1, <4>1
      <4> QED BY <1>2, <4>1, <4>2
    <3>2. ASSUME i <= c - d PROVE i \in acked
      <4>1. \A j \in 1 .. i : j \in 1 .. n /\ j <= c - d
        BY <1>1, <3>2
      <4> QED BY <1>2, <4>1
    <3> QED BY <3>1, <3>2
  <2>2. acked \subseteq 1 .. n
    OBVIOUS
  <2>3. 1 .. (c - d) \subseteq 1 .. n
    BY <1>1
  <2> HIDE DEF acked
  <2>4. ASSUME NEW i \in acked PROVE i \in 1 .. (c - d)
    <3>1. i \in 1 .. n /\ i <= c - d
      BY <2>1, <2>2
    <3> QED BY <1>1, <3>1
  <2>5. ASSUME NEW i \in 1 .. (c - d) PROVE i \in acked
    <3>1. i \in 1 .. n /\ i <= c - d
      BY <1>1, <2>3
    <3> QED BY <2>1, <3>1
  <2> QED BY <2>4, <2>5
<1>4. Cardinality(acked) = c - d
  <2> DEFINE k == c - d
  <2>1. k \in Nat
    BY <1>1
  <2> HIDE DEF k
  <2>2. Cardinality(1 .. k) = k
    BY <2>1, FS_Interval
  <2> QED BY <1>3, <2>2 DEF k
<1>5. AckChunks(copies, a) = SubSeq(copies, c - d + 1, n)
  BY <1>4 DEF AckChunks, n
<1>6. /\ Len(SubSeq(copies, c - d + 1, n)) = n - (c - d)
      /\ \A i \in 1 .. n - (c - d) : SubSeq(copies, c - d + 1, n)[i] = copies[c - d + i]
  <2> DEFINE b == c - d + 1
  <2>1. b \in Nat \ {0} /\ b <= n + 1
    BY <1>1
  <2> HIDE DEF b
  <2>2. \A i \in b .. n : copies[i] \in S
    BY <1>1, <2>1 DEF n
  <2>3. /\ Len(SubSeq(copies, b, n)) = n - b + 1
        /\ \A i \in 1 .. n - b + 1 : SubSeq(copies, b, n)[i] = copies[b + i - 1]
    <3>1. b \in Int /\ n \in Int
      BY <1>1, <2>1
    <3>2. /\ Len(SubSeq(copies, b, n)) = IF b <= n THEN n - b + 1 ELSE 0
          /\ \A i \in 1 .. n - b + 1 : SubSeq(copies, b, n)[i] = copies[b + i - 1]
      BY <2>2, <3>1, SubSeqProperties
    <3> DEFINE part == SubSeq(copies, b, n)
    <3>3. /\ Len(part) = IF b <= n THEN n - b + 1 ELSE 0
          /\ \A i \in 1 .. n - b + 1 : part[i] = copies[b + i - 1]
      BY <3>2
    <3> HIDE DEF part
    <3>4. Len(part) = n - b + 1
      BY <1>1, <2>1, <3>3
    <3> QED BY <3>3, <3>4 DEF part
  <2>4. n - b + 1 = n - (c - d) /\ \A i \in 1 .. n - (c - d) : b + i - 1 = c - d + i
    BY <1>1 DEF b
  <2>5. /\ Len(SubSeq(copies, b, n)) = n - (c - d)
        /\ \A i \in 1 .. n - (c - d) : SubSeq(copies, b, n)[i] = copies[c - d + i]
    <3> DEFINE part == SubSeq(copies, b, n)
    <3>1. Len(part) = n - b + 1 /\ \A i \in 1 .. n - b + 1 : part[i] = copies[b + i - 1]
      BY <2>3
    <3> HIDE DEF part
    <3>2. Len(part) = n - (c - d) /\ \A i \in 1 .. n - (c - d) : part[i] = copies[c - d + i]
      BY <2>4, <3>1
    <3> QED BY <3>2 DEF part
  <2> QED BY <2>5 DEF b
<1>7. s = d + n /\ \A i \in 1 .. n : copies[i].data = d + i
  BY <1>1 DEF d, n, CopiesUpTo
<1>8. s - c = n - (c - d)
  BY <1>1, <1>7
<1>9. ASSUME NEW i \in 1 .. n - (c - d)
      PROVE  c - d + i \in 1 .. n /\ d + (c - d + i) = c + i
  BY <1>1
<1> DEFINE kept == AckChunks(copies, a)
<1>10. Len(kept) = n - (c - d)
  BY <1>5, <1>6
<1>11. ASSUME NEW i \in 1 .. n - (c - d) PROVE kept[i].data = c + i
  <2>1. kept[i] = copies[c - d + i]
    BY <1>5, <1>6
  <2> QED BY <1>7, <1>9, <2>1
<1> HIDE DEF kept
<1>12. Len(kept) = s - c /\ \A i \in 1 .. Len(kept) : kept[i].data = c + i
  BY <1>8, <1>10, <1>11
<1> QED BY <1>12 DEF kept

\* An acknowledgement that does not reach the oldest copy drops none.
LEMMA AckChunksNone ==
    ASSUME NEW S, NEW copies \in Seq(S), NEW a,
           copies # <<>> => ~IsSeqInBackroom(copies[1].seq, a)
    PROVE  AckChunks(copies, a) = copies
<1> DEFINE acked == {i \in 1 .. Len(copies) :
                       \A j \in 1 .. i : IsSeqInBackroom(copies[j].seq, a)}
<1>1. Len(copies) \in Nat
  BY LenProperties
<1>2. ASSUME NEW i \in 1 .. Len(copies) PROVE i \notin acked
  <2>1. copies # <<>> /\ 1 \in 1 .. i
    BY <1>1
  <2> QED BY <2>1
<1>3. acked = {}
  BY <1>2
<1> HIDE DEF acked
<1>4. Cardinality(acked) + 1 = 1
  BY <1>3, FS_EmptySet
<1>5. AckChunks(copies, a) = SubSeq(copies, Cardinality(acked) + 1, Len(copies))
  BY DEF AckChunks, acked
<1> QED BY <1>4, <1>5, SubSeqFull

-----------------------------------------------------------------------------
(* The two ends, and what they send each other *)

\* There are two ends.
LEMMA PeerOf ==
    ASSUME ConnectionAssumption, NEW e \in Ends
    PROVE  /\ Peer(e) \in Ends /\ Peer(e) # e /\ Peer(Peer(e)) = e
           /\ \A d \in Ends : d = e \/ d = Peer(e)
BY DEF ConnectionAssumption, Ends, Peer

\* The numbered chunks are chunks, each with the residue of its number.
LEMMA NumberedChunks ==
    ASSUME ConnectionAssumption, NEW e \in Ends, sent[e] \in Nat
    PROVE  /\ Numbered(e) \subseteq Chunk
           /\ \A c \in Numbered(e) : /\ c.seq = c.data % NET_MAX_SEQUENCE
                                     /\ c.data \in 1 .. sent[e]
<1> SUFFICES ASSUME NEW n \in 1 .. sent[e]
             PROVE  n % NET_MAX_SEQUENCE \in SeqNumber
  BY DEF Numbered, Chunk
<1>1. NET_MAX_SEQUENCE \in Nat /\ NET_MAX_SEQUENCE > 0
  BY DEF ConnectionAssumption
<1> QED BY <1>1, DivMod DEF SeqNumber

\* Queueing a chunk numbers one more.
LEMMA NumberedGrows ==
    ASSUME NEW e \in Ends, sent[e] \in Nat, sent'[e] \in Nat, sent[e] <= sent'[e]
    PROVE  Numbered(e) \subseteq Numbered(e)'
BY DEF Numbered

\* The chunks an end has been handed are counted from the first one on.
LEMMA UpToType == ASSUME TypeOK, NEW e \in Ends PROVE UpTo(e) \in Nat
BY DEF TypeOK, UpTo

\* What the network holds after a step of e that sends packets.
LEMMA Sent ==
    ASSUME ConnectionAssumption, TypeOK, AllNumbered, Counted,
           NEW e \in Ends, NEW N, Numbered(e) \subseteq N, NEW packets,
           \A p \in packets : \E f \in Construct : f.chunks \in Seq(N) /\ p = PacketOf(e, f),
           Transmit(e, packets)
    PROVE  /\ net' \in [Ends -> SUBSET Packet]
           /\ net'[e] = net[e]
           /\ \A p \in net'[Peer(e)] : /\ p.chunks \in Seq(N)
                                       /\ p.ack = p.count % NET_MAX_SEQUENCE
                                       /\ p.count <= UpTo(e)
<1>1. Peer(e) \in Ends /\ Peer(e) # e
  BY PeerOf
<1>2. PICK kept \in SUBSET (net[Peer(e)] \union packets) :
        net' = [net EXCEPT ![Peer(e)] = kept]
  BY DEF Transmit
<1>3. ASSUME NEW p \in packets
      PROVE  /\ p \in Packet /\ p.chunks \in Seq(N)
             /\ p.ack = p.count % NET_MAX_SEQUENCE /\ p.count <= UpTo(e)
  <2>1. PICK f \in Construct : f.chunks \in Seq(N) /\ p = PacketOf(e, f)
    BY <1>3
  <2>2. /\ ack[e] \in SeqNumber /\ UpTo(e) \in Nat
        /\ ack[e] = UpTo(e) % NET_MAX_SEQUENCE
    BY UpToType DEF TypeOK, Counted
  <2> QED BY <2>1, <2>2 DEF PacketOf, Packet, Construct
<1>4. ASSUME NEW p \in net[Peer(e)]
      PROVE  /\ p \in Packet /\ p.chunks \in Seq(N)
             /\ p.ack = p.count % NET_MAX_SEQUENCE /\ p.count <= UpTo(e)
  <2>1. p.chunks \in Seq(Numbered(e))
    BY DEF AllNumbered
  <2>2. p.chunks \in Seq(N)
    BY <2>1, SeqMonotonic
  <2>3. p \in Packet
    BY <1>1 DEF TypeOK
  <2> QED BY <2>2, <2>3 DEF Counted
<1>5. kept \in SUBSET Packet /\ net'[Peer(e)] = kept /\ net'[e] = net[e]
  BY <1>1, <1>2, <1>3, <1>4 DEF TypeOK
<1>6. net' \in [Ends -> SUBSET Packet]
  BY <1>1, <1>2, <1>5 DEF TypeOK
<1> QED BY <1>2, <1>3, <1>4, <1>5, <1>6

-----------------------------------------------------------------------------
(* The invariant *)

\* Both ends just after they went online, or a client the server has no
\* connection for.
LEMMA InitIInv == Init => IInv
<1> SUFFICES ASSUME Init PROVE IInv
  OBVIOUS
<1>1. /\ NET_MAX_SEQUENCE \in Nat /\ NET_MAX_SEQUENCE > 0
      /\ 0 % NET_MAX_SEQUENCE = 0 /\ BufferChunks \in Nat /\ PreMsgs \in Nat
  BY ConnectionAssumption DEF ConnectionAssumption
<1>2. TypeOK
  BY <1>1 DEF Init, EmptyConstruct, TypeOK, Construct, SeqNumber
<1>3. \A e \in Ends : UpTo(e) = 0 /\ Peer(e) \in Ends
  BY PeerOf, ConnectionAssumption DEF Init, UpTo
<1>4. AllNumbered /\ Counted
  <2> DEFINE none == <<>>
  <2>1. \A e \in Ends : none \in Seq(Numbered(e))
    OBVIOUS
  <2>2. \A e \in Ends : /\ buffer[e] = none /\ construct[e].chunks = none
                        /\ unpacker[e] = none /\ net[e] = {}
    BY DEF Init, EmptyConstruct
  <2>3. \A e \in Ends : /\ ack[e] = 0 /\ sequence[e] = 0
                        /\ state[e] = "ONLINE" => sent[e] = 0
    BY DEF Init
  <2> QED BY <1>1, <1>3, <2>1, <2>2, <2>3 DEF AllNumbered, Counted
<1>5. Recent /\ Accepted
  BY <1>3 DEF Init, Recent, Accepted
<1>6. InOrder
  <2>1. \A e \in Ends : latest[e] = 0 /\ first[e] = 1
    BY DEF Init
  <2>2. \A e \in Ends : sent[e] \in Nat
    BY <1>2 DEF TypeOK
  <2> QED BY <1>3, <2>1, <2>2 DEF InOrder
<1>7. CopyKept /\ PeerAckMatchesBuffer
  <2>1. \A e \in Ends : state[e] # "OFFLINE" => sent[e] = 0
    BY DEF Init
  <2>2. \A e \in Ends : Len(buffer[e]) = 0 /\ peerAck[e] = 0
    BY DEF Init
  <2> QED BY <1>1, <1>3, <2>1, <2>2 DEF CopyKept, PeerAckMatchesBuffer, Dropped, Settled
<1> QED BY <1>2, <1>4, <1>5, <1>6, <1>7 DEF IInv

\* A step that changes nothing, such as a packet Feed rejects.
LEMMA UnchangedIInv == ASSUME IInv, UNCHANGED vars PROVE IInv'
<1> USE DEF vars, connVars, ghostVars
<1>1. TypeOK'
  BY DEF IInv, TypeOK
<1>2. AllNumbered' /\ Counted'
  BY DEF IInv, AllNumbered, Numbered, Counted, UpTo
<1>3. Recent' /\ Accepted' /\ InOrder' /\ CopyKept' /\ PeerAckMatchesBuffer'
  BY DEF IInv, Recent, Accepted, InOrder, CopyKept, PeerAckMatchesBuffer, UpTo, Dropped, Settled
<1> QED BY <1>1, <1>2, <1>3 DEF IInv

\* A step that only sends: SendPlain, Flush and Update.
LEMMA SendingIInv ==
    ASSUME IInv, NEW e \in Ends,
           NEW filled \in Construct, filled.chunks \in Seq(Numbered(e)),
           construct' = [construct EXCEPT ![e] = filled],
           NEW packets,
           \A p \in packets :
              \E f \in Construct : f.chunks \in Seq(Numbered(e)) /\ p = PacketOf(e, f),
           Transmit(e, packets),
           UNCHANGED <<state, sequence, ack, unknownSeq, peerAck, buffer, unpacker, ghostVars>>
    PROVE  IInv'
<1>1. Peer(e) \in Ends /\ Peer(e) # e /\ Peer(Peer(e)) = e /\ \A d \in Ends : d = e \/ d = Peer(e)
  BY PeerOf, ConnectionAssumption
<1>2. /\ net' \in [Ends -> SUBSET Packet]
      /\ net'[e] = net[e]
      /\ \A p \in net'[Peer(e)] : /\ p.chunks \in Seq(Numbered(e))
                                  /\ p.ack = p.count % NET_MAX_SEQUENCE
                                  /\ p.count <= UpTo(e)
  BY Sent, ConnectionAssumption DEF IInv
<1> USE DEF ghostVars
<1>3. TypeOK'
  BY <1>2 DEF IInv, TypeOK
<1>4. AllNumbered'
  <2>1. \A d \in Ends : Numbered(d)' = Numbered(d)
    BY DEF Numbered
  <2> QED BY <1>1, <1>2, <2>1 DEF IInv, TypeOK, AllNumbered
<1>5. Counted'
  BY <1>1, <1>2 DEF IInv, Counted, UpTo
<1>6. Recent' /\ Accepted' /\ InOrder' /\ CopyKept' /\ PeerAckMatchesBuffer'
  BY DEF IInv, Recent, Accepted, InOrder, CopyKept, PeerAckMatchesBuffer, UpTo, Dropped, Settled
<1> QED BY <1>3, <1>4, <1>5, <1>6 DEF IInv

\* What Flush leaves in m_Construct.
LEMMA EmptyConstructType == EmptyConstruct \in Construct /\ EmptyConstruct.chunks = <<>>
BY DEF EmptyConstruct, Construct

\* What m_Construct and m_Buffer hold are chunks e has numbered.
LEMMA OwnChunks ==
    ASSUME IInv, NEW e \in Ends
    PROVE  /\ Numbered(e) \in SUBSET Chunk
           /\ construct[e] \in Construct /\ construct[e].chunks \in Seq(Numbered(e))
           /\ buffer[e] \in Seq(Numbered(e))
           /\ EmptyConstruct \in Construct /\ EmptyConstruct.chunks \in Seq(Numbered(e))
<1>1. sent[e] \in Nat /\ construct[e] \in Construct
  BY DEF IInv, TypeOK
<1>2. Numbered(e) \in SUBSET Chunk
  BY <1>1, NumberedChunks, ConnectionAssumption
<1> QED BY <1>1, <1>2, EmptyConstructType DEF IInv, AllNumbered

\* A plain chunk takes the vital chunks of m_Construct along.
LEMMA SendPlainIInv == ASSUME IInv, NEW e \in Ends, SendPlain(e) PROVE IInv'
<1>1. PICK after \in BOOLEAN :
        Transmit(e, {PacketOf(e, construct[e])}
                      \union IF after THEN {PacketOf(e, EmptyConstruct)} ELSE {})
  BY DEF SendPlain
<1> DEFINE packets == {PacketOf(e, construct[e])}
                        \union IF after THEN {PacketOf(e, EmptyConstruct)} ELSE {}
<1>2. \A p \in packets :
         \E f \in Construct : f.chunks \in Seq(Numbered(e)) /\ p = PacketOf(e, f)
  BY OwnChunks
<1>3. /\ construct' = [construct EXCEPT ![e] = EmptyConstruct]
      /\ UNCHANGED <<state, sequence, ack, unknownSeq, peerAck, buffer, unpacker, ghostVars>>
  BY DEF SendPlain
<1>4. Transmit(e, packets)
  BY <1>1
<1> HIDE DEF packets
<1> QED BY <1>2, <1>3, <1>4, OwnChunks, SendingIInv

\* Flush sends m_Construct.
LEMMA FlushIInv == ASSUME IInv, NEW e \in Ends, Flush(e) PROVE IInv'
<1> DEFINE packets == {PacketOf(e, construct[e])}
<1>1. \A p \in packets :
         \E f \in Construct : f.chunks \in Seq(Numbered(e)) /\ p = PacketOf(e, f)
  BY OwnChunks
<1>2. /\ construct' = [construct EXCEPT ![e] = EmptyConstruct]
      /\ Transmit(e, packets)
      /\ UNCHANGED <<state, sequence, ack, unknownSeq, peerAck, buffer, unpacker, ghostVars>>
  BY DEF Flush
<1> HIDE DEF packets
<1> QED BY <1>1, <1>2, OwnChunks, SendingIInv

\* Update may send the oldest copy, m_Construct and a keepalive.
LEMMA UpdateIInv == ASSUME IInv, NEW e \in Ends, Update(e) PROVE IInv'
<1> PICK resendDue \in BOOLEAN, flushDue \in BOOLEAN, idle \in BOOLEAN :
      UpdateWith(e, resendDue, flushDue, idle)
  BY DEF Update
<1> DEFINE N == Numbered(e)
           again == IF resendDue /\ buffer[e] # <<>> THEN <<Head(buffer[e])>> ELSE <<>>
           early == Flushed(construct[e], again)
           rest == Filling(construct[e], again)
           late == IF flushDue /\ rest # EmptyConstruct THEN {rest} ELSE {}
           alive == IF idle THEN {EmptyConstruct} ELSE {}
           packets == {PacketOf(e, f) : f \in early \union late \union alive}
           filled == IF late = {} THEN rest ELSE EmptyConstruct
<1>1. again \in Seq(N)
  BY OwnChunks
<1>2. /\ construct' = [construct EXCEPT ![e] = filled]
      /\ Transmit(e, packets)
      /\ UNCHANGED <<state, sequence, ack, unknownSeq, peerAck, buffer, unpacker, ghostVars>>
  BY DEF UpdateWith
<1> HIDE DEF again
<1>3. /\ rest \in Construct /\ rest.chunks \in Seq(N)
      /\ \A f \in early : f \in Construct /\ f.chunks \in Seq(N)
  <2>1. /\ N \in SUBSET Chunk
        /\ construct[e] \in Construct /\ construct[e].chunks \in Seq(N)
    BY OwnChunks
  <2> HIDE DEF N
  <2> QED BY <1>1, <2>1, FillingParts, FlushedParts, ConnectionAssumption
<1>4. EmptyConstruct \in Construct /\ EmptyConstruct.chunks \in Seq(N)
  BY OwnChunks
<1> HIDE DEF N, early, rest
<1>5. \A p \in packets : \E f \in Construct : f.chunks \in Seq(N) /\ p = PacketOf(e, f)
  BY <1>3, <1>4
<1>6. filled \in Construct /\ filled.chunks \in Seq(N)
  BY <1>3, <1>4
<1> HIDE DEF packets, filled
<1> QED BY <1>2, <1>5, <1>6, SendingIInv DEF N

\* Steps after which less is in flight, or an end has given up.
LEMMA LoseIInv == ASSUME IInv, NEW e \in Ends, Lose(e) PROVE IInv'
<1>1. Peer(e) \in Ends
  BY PeerOf, ConnectionAssumption
<1>2. /\ net' \in [Ends -> SUBSET Packet]
      /\ \A d \in Ends : net'[d] \subseteq net[d]
      /\ UNCHANGED <<connVars, unpacker, ghostVars>>
  BY DEF Lose, IInv, TypeOK
<1> USE DEF connVars, ghostVars
<1>3. TypeOK'
  BY <1>2 DEF IInv, TypeOK
<1>4. AllNumbered' /\ Counted'
  <2>1. \A d \in Ends : Numbered(d)' = Numbered(d) /\ Peer(d) \in Ends
    BY <1>2, PeerOf, ConnectionAssumption DEF Numbered
  <2> QED BY <1>2, <2>1 DEF IInv, AllNumbered, Counted, UpTo
<1>5. Recent' /\ Accepted' /\ InOrder' /\ CopyKept' /\ PeerAckMatchesBuffer'
  BY <1>2 DEF IInv, Recent, Accepted, InOrder, CopyKept, PeerAckMatchesBuffer, UpTo, Dropped, Settled
<1> QED BY <1>3, <1>4, <1>5 DEF IInv

\* In ERROR nothing is asserted of m_Sequence any more.
LEMMA GivenUpIInv ==
    ASSUME IInv, NEW e \in Ends, TimeOut(e) \/ QueueInError(e)
    PROVE  IInv'
<1> USE DEF ghostVars
<1>1. /\ state' \in [Ends -> {"OFFLINE", "ONLINE", "ERROR"}]
      /\ sequence' \in [Ends -> SeqNumber]
      /\ \A d \in Ends : state'[d] = "ONLINE" => state[d] = "ONLINE" /\ sequence'[d] = sequence[d]
      /\ \A d \in Ends : state'[d] = "OFFLINE" <=> state[d] = "OFFLINE"
      /\ UNCHANGED <<ack, unknownSeq, peerAck, buffer, construct, unpacker, net, ghostVars>>
  <2>1. CASE TimeOut(e)
    BY <2>1 DEF TimeOut, IInv, TypeOK
  <2>2. CASE QueueInError(e)
    <3>1. (sequence[e] + 1) % NET_MAX_SEQUENCE \in SeqNumber
      <4>1. NET_MAX_SEQUENCE \in Nat /\ NET_MAX_SEQUENCE > 0 /\ sequence[e] + 1 \in Nat
        BY ConnectionAssumption DEF ConnectionAssumption, IInv, TypeOK, SeqNumber
      <4> QED BY <4>1, DivMod DEF SeqNumber
    <3> QED BY <2>2, <3>1 DEF QueueInError, IInv, TypeOK
  <2> QED BY <2>1, <2>2
<1>2. TypeOK'
  BY <1>1 DEF IInv, TypeOK
<1>3. AllNumbered' /\ Counted'
  <2>1. \A d \in Ends : Numbered(d)' = Numbered(d)
    BY <1>1 DEF Numbered
  <2> QED BY <1>1, <2>1 DEF IInv, AllNumbered, Counted, UpTo
<1>4. Recent' /\ Accepted' /\ InOrder' /\ CopyKept' /\ PeerAckMatchesBuffer'
  BY <1>1 DEF IInv, Recent, Accepted, InOrder, CopyKept, PeerAckMatchesBuffer, UpTo, Dropped, Settled
<1> QED BY <1>2, <1>3, <1>4 DEF IInv

(***************************************************************************)
(* QueueChunk: the new chunk is numbered one higher than the latest, in    *)
(* m_Sequence, in m_Construct and, unless the buffer is full, as the last  *)
(* of the copies.                                                          *)
(***************************************************************************)
LEMMA QueueVitalIInv == ASSUME IInv, NEW e \in Ends, QueueVital(e) PROVE IInv'
<1> DEFINE n == sent[e] + 1
           chunk == [seq |-> NextSeq(sequence[e]), data |-> n]
           N == Numbered(e)'
           packets == {PacketOf(e, f) : f \in Flushed(construct[e], <<chunk>>)}
           filled == Filling(construct[e], <<chunk>>)
<1>1. /\ state[e] = "ONLINE" /\ sent[e] \in Nat
      /\ sequence' = [sequence EXCEPT ![e] = chunk.seq]
      /\ sent' = [sent EXCEPT ![e] = n] /\ sent'[e] = n
      /\ construct' = [construct EXCEPT ![e] = filled]
      /\ Transmit(e, packets)
      /\ UNCHANGED <<state, ack, unknownSeq, peerAck, unpacker>>
      /\ UNCHANGED <<legacy, first, received, latest>>
      /\ \A x \in Ends : UpTo(x)' = UpTo(x)
  BY DEF QueueVital, IInv, TypeOK, UpTo
<1>2. /\ Peer(e) \in Ends /\ Peer(e) # e /\ Peer(Peer(e)) = e
      /\ \A d \in Ends : d = e \/ d = Peer(e)
  BY PeerOf, ConnectionAssumption
<1>3. chunk.seq = n % NET_MAX_SEQUENCE /\ chunk.seq \in SeqNumber
  <2>1. sequence[e] = sent[e] % NET_MAX_SEQUENCE
    BY <1>1 DEF IInv, AllNumbered
  <2>2. chunk.seq = n % NET_MAX_SEQUENCE
    BY <1>1, <2>1, NextSeqMod, ConnectionAssumption
  <2>3. NET_MAX_SEQUENCE \in Nat /\ NET_MAX_SEQUENCE > 0 /\ n \in Nat
    BY <1>1, ConnectionAssumption DEF ConnectionAssumption
  <2> QED BY <2>2, <2>3, DivMod DEF SeqNumber
<1>4. /\ N \in SUBSET Chunk /\ Numbered(e) \subseteq N /\ chunk \in N
      /\ Numbered(Peer(e))' = Numbered(Peer(e))
  <2>1. Numbered(e) \subseteq N /\ Numbered(Peer(e))' = Numbered(Peer(e))
    BY <1>1, <1>2, NumberedGrows DEF Numbered, IInv, TypeOK
  <2>2. chunk \in N
    BY <1>1, <1>3 DEF Numbered
  <2>3. N \subseteq Chunk
    <3> SUFFICES ASSUME NEW k \in 1 .. n
                 PROVE  k % NET_MAX_SEQUENCE \in SeqNumber
      BY <1>1 DEF Numbered, Chunk
    <3>1. NET_MAX_SEQUENCE \in Nat /\ NET_MAX_SEQUENCE > 0 /\ k \in Nat
      BY <1>1, ConnectionAssumption DEF ConnectionAssumption
    <3> QED BY <3>1, DivMod DEF SeqNumber
  <2> QED BY <2>1, <2>2, <2>3
<1>5. \/ /\ Len(buffer[e]) < BufferChunks
         /\ buffer' = [buffer EXCEPT ![e] = Append(buffer[e], chunk)]
         /\ lossy' = lossy
      \/ /\ lossy' = [lossy EXCEPT ![e] = TRUE]
         /\ buffer' = buffer
  BY DEF QueueVital
<1>6. chunk.data = n
  OBVIOUS
<1> HIDE DEF chunk, N, packets, filled
<1>7. /\ filled \in Construct /\ filled.chunks \in Seq(N)
      /\ \A f \in Flushed(construct[e], <<chunk>>) : f \in Construct /\ f.chunks \in Seq(N)
  <2>1. /\ construct[e] \in Construct /\ construct[e].chunks \in Seq(N)
        /\ <<chunk>> \in Seq(N)
    BY <1>4, OwnChunks, SeqMonotonic
  <2> QED BY <1>4, <2>1, FillingParts, FlushedParts, ConnectionAssumption DEF filled
<1>8. /\ net' \in [Ends -> SUBSET Packet]
      /\ net'[e] = net[e]
      /\ \A p \in net'[Peer(e)] : /\ p.chunks \in Seq(N)
                                  /\ p.ack = p.count % NET_MAX_SEQUENCE
                                  /\ p.count <= UpTo(e)
  <2>1. \A p \in packets : \E f \in Construct : f.chunks \in Seq(N) /\ p = PacketOf(e, f)
    BY <1>7 DEF packets
  <2> QED BY <1>1, <1>4, <2>1, Sent, ConnectionAssumption DEF IInv
<1>9. /\ buffer[e] \in Seq(N) /\ buffer[e] \in Seq(Chunk) /\ Len(buffer[e]) \in Nat
      /\ Len(buffer[e]) <= BufferChunks
  BY <1>4, OwnChunks, SeqMonotonic DEF IInv, TypeOK
<1>10. /\ Append(buffer[e], chunk) \in Seq(N) /\ Append(buffer[e], chunk) \in Seq(Chunk)
       /\ Len(Append(buffer[e], chunk)) = Len(buffer[e]) + 1
       /\ \A i \in 1 .. Len(buffer[e]) : Append(buffer[e], chunk)[i] = buffer[e][i]
       /\ Append(buffer[e], chunk)[Len(buffer[e]) + 1] = chunk
  BY <1>4, <1>9, AppendProperties
<1>11. /\ buffer' \in [Ends -> Seq(Chunk)] /\ buffer'[e] \in Seq(N)
       /\ Len(buffer'[e]) <= BufferChunks
       /\ buffer'[Peer(e)] = buffer[Peer(e)]
       /\ lossy' \in [Ends -> BOOLEAN] /\ lossy'[Peer(e)] = lossy[Peer(e)]
       /\ lossy[e] => lossy'[e]
       /\ ~lossy'[e] => buffer'[e] = Append(buffer[e], chunk)
  <2>1. BufferChunks \in Nat /\ buffer \in [Ends -> Seq(Chunk)] /\ lossy \in [Ends -> BOOLEAN]
    BY ConnectionAssumption DEF ConnectionAssumption, IInv, TypeOK
  <2>2. CASE /\ Len(buffer[e]) < BufferChunks
             /\ buffer' = [buffer EXCEPT ![e] = Append(buffer[e], chunk)]
             /\ lossy' = lossy
    BY <1>2, <1>9, <1>10, <2>1, <2>2
  <2>3. CASE /\ lossy' = [lossy EXCEPT ![e] = TRUE]
             /\ buffer' = buffer
    BY <1>2, <1>9, <2>1, <2>3
  <2> QED BY <1>5, <2>2, <2>3
<1>12. TypeOK'
  <2>1. /\ sequence' \in [Ends -> SeqNumber] /\ sent' \in [Ends -> Nat]
        /\ construct' \in [Ends -> Construct]
    BY <1>1, <1>3, <1>7 DEF IInv, TypeOK
  <2>2. \A d \in Ends : Len(buffer'[d]) <= BufferChunks
    BY <1>2, <1>11 DEF IInv, TypeOK
  <2> QED BY <1>1, <1>8, <1>11, <2>1, <2>2 DEF IInv, TypeOK
<1>13. AllNumbered'
  <2> DEFINE d == Peer(e)
  <2>1. /\ sequence'[e] = sent'[e] % NET_MAX_SEQUENCE
        /\ buffer'[e] \in Seq(N) /\ construct'[e].chunks \in Seq(N)
        /\ unpacker'[d] \in Seq(N)
        /\ \A p \in net'[d] : p.chunks \in Seq(N)
    <3>1. unpacker[d] \in Seq(Numbered(e))
      BY DEF IInv, AllNumbered
    <3>2. unpacker[d] \in Seq(N)
      BY <1>4, <3>1, SeqMonotonic
    <3>3. sequence'[e] = chunk.seq /\ construct'[e] = filled
      BY <1>1 DEF IInv, TypeOK
    <3> QED BY <1>1, <1>3, <1>7, <1>8, <1>11, <3>2, <3>3
  <2>2. /\ state'[d] = state[d] /\ sequence'[d] = sequence[d] /\ sent'[d] = sent[d]
        /\ buffer'[d] = buffer[d] /\ construct'[d] = construct[d]
        /\ unpacker'[e] = unpacker[e] /\ net'[e] = net[e]
    BY <1>1, <1>2, <1>8, <1>11 DEF IInv, TypeOK
  <2>3. /\ state[d] = "ONLINE" => sequence[d] = sent[d] % NET_MAX_SEQUENCE
        /\ buffer[d] \in Seq(Numbered(d)) /\ construct[d].chunks \in Seq(Numbered(d))
        /\ unpacker[e] \in Seq(Numbered(d))
        /\ \A p \in net[e] : p.chunks \in Seq(Numbered(d))
    BY <1>2 DEF IInv, AllNumbered
  <2> QED BY <1>2, <1>4, <2>1, <2>2, <2>3 DEF AllNumbered, N
<1>14. Counted'
  BY <1>1, <1>2, <1>8 DEF IInv, Counted
<1>15. Recent'
  BY <1>1, <1>2, <1>11 DEF IInv, Recent
<1>16. InOrder'
  <2>1. \A d \in Ends : sent[d] \in Nat /\ sent'[d] \in Nat /\ sent[d] <= sent'[d]
    BY <1>1 DEF IInv, TypeOK
  <2>2. \A d \in Ends : ~lossy'[d] => ~lossy[d]
    BY <1>2, <1>11
  <2> SUFFICES ASSUME NEW d \in Ends, ~lossy'[Peer(d)]
               PROVE  /\ latest[d] = UpTo(d) /\ UpTo(d) <= sent'[Peer(d)]
                      /\ first[d] = 1 \/ (legacy /\ d = Server /\ first[d] <= BufferChunks)
    BY <1>1 DEF InOrder
  <2>3. Peer(d) \in Ends /\ ~lossy[Peer(d)]
    BY <2>2, PeerOf, ConnectionAssumption
  <2>4. /\ latest[d] = UpTo(d) /\ UpTo(d) <= sent[Peer(d)]
        /\ first[d] = 1 \/ (legacy /\ d = Server /\ first[d] <= BufferChunks)
    BY <2>3 DEF IInv, InOrder
  <2>5. UpTo(d) <= sent'[Peer(d)]
    <3>1. UpTo(d) \in Nat
      BY UpToType DEF IInv
    <3> HIDE DEF n
    <3> QED BY <2>1, <2>3, <2>4, <3>1
  <2> QED BY <2>4, <2>5
<1>17. ASSUME ~lossy'[e] PROVE Dropped(e)' = Dropped(e) /\ ~lossy[e]
  <2>1. sent'[e] - Len(buffer'[e]) = sent[e] - Len(buffer[e])
    BY <1>1, <1>9, <1>10, <1>11, <1>17
  <2> QED BY <1>11, <1>17, <2>1 DEF Dropped, IInv, TypeOK
<1>18. Dropped(Peer(e))' = Dropped(Peer(e)) /\ \A x \in Ends : Settled(x)' = Settled(x)
  <2>1. sent'[Peer(e)] = sent[Peer(e)] /\ buffer'[Peer(e)] = buffer[Peer(e)]
    BY <1>1, <1>2, <1>11 DEF IInv, TypeOK
  <2>2. \A x \in Ends : Peer(x) \in Ends
    BY PeerOf, ConnectionAssumption
  <2> QED BY <1>1, <2>1, <2>2 DEF Dropped, Settled
<1>19. CopyKept'
  <2>1. ASSUME ~lossy'[e]
        PROVE  /\ \A i \in 1 .. Len(buffer'[e]) : buffer'[e][i].data = Dropped(e)' + i
               /\ Dropped(e)' <= Settled(e)'
    <3>1. ~lossy[e] /\ buffer'[e] = Append(buffer[e], chunk) /\ Dropped(e)' = Dropped(e)
      BY <1>11, <1>17, <2>1
    <3>2. /\ \A i \in 1 .. Len(buffer[e]) : buffer[e][i].data = Dropped(e) + i
          /\ Dropped(e) <= Settled(e)
      BY <1>1, <3>1 DEF IInv, CopyKept
    <3>3. /\ Dropped(e) \in Int /\ Len(buffer[e]) \in Int
          /\ Dropped(e) + (Len(buffer[e]) + 1) = n
      BY <1>1, <1>9 DEF Dropped
    <3>4. \A i \in 1 .. Len(buffer'[e]) : buffer'[e][i].data = Dropped(e) + i
      <4> TAKE i \in 1 .. Len(buffer'[e])
      <4>1. CASE i <= Len(buffer[e])
        BY <1>9, <1>10, <3>1, <3>2, <4>1
      <4>2. CASE i = Len(buffer[e]) + 1
        <5>1. buffer'[e][i].data = n
          BY <1>6, <1>10, <3>1, <4>2
        <5>2. Dropped(e) + i = n
          BY <3>3, <4>2
        <5> QED BY <5>1, <5>2
      <4> QED BY <1>9, <1>10, <3>1, <4>1, <4>2
    <3> QED BY <1>18, <3>1, <3>2, <3>4
  <2>2. ASSUME ~lossy'[Peer(e)], state[Peer(e)] # "OFFLINE"
        PROVE  LET d == Peer(e)
               IN /\ \A i \in 1 .. Len(buffer'[d]) : buffer'[d][i].data = Dropped(d)' + i
                  /\ Dropped(d)' <= Settled(d)'
    <3>1. ~lossy[Peer(e)] /\ buffer'[Peer(e)] = buffer[Peer(e)]
      BY <1>11, <2>2
    <3> QED BY <1>2, <1>18, <2>2, <3>1 DEF IInv, CopyKept
  <2> QED BY <1>1, <1>2, <2>1, <2>2 DEF CopyKept
<1>20. PeerAckMatchesBuffer'
  <2>1. PeerAckMatchesBuffer
    BY DEF IInv
  <2>2. \A x \in Ends : ~lossy'[x] => Dropped(x)' = Dropped(x) /\ ~lossy[x]
    BY <1>2, <1>11, <1>17, <1>18
  <2> QED BY <1>1, <2>1, <2>2 DEF PeerAckMatchesBuffer
<1>21. Accepted'
  <2>1. Accepted
    BY DEF IInv
  <2>2. \A x \in Ends : state[x] = "OFFLINE" => /\ sent'[x] = sent[x] /\ buffer'[x] = buffer[x]
                                                /\ lossy'[x] = lossy[x]
    BY <1>1, <1>2, <1>11 DEF IInv, TypeOK
  <2> QED BY <1>1, <2>1, <2>2 DEF Accepted
<1> QED BY <1>12, <1>13, <1>14, <1>15, <1>16, <1>19, <1>20, <1>21 DEF IInv

\* The chunk that FetchChunk looks at is one its peer has numbered.
LEMMA HeadNumbered ==
    ASSUME IInv, NEW e \in Ends, unpacker[e] # <<>>
    PROVE  LET c == Head(unpacker[e])
           IN /\ c \in Numbered(Peer(e))
              /\ c = unpacker[e][1] /\ 1 \in 1 .. Len(unpacker[e])
              /\ c.seq = c.data % NET_MAX_SEQUENCE /\ c.seq \in SeqNumber
              /\ c.data \in 1 .. sent[Peer(e)] /\ sent[Peer(e)] \in Nat
<1> DEFINE d == Peer(e)
           c == Head(unpacker[e])
<1>1. d \in Ends /\ Peer(d) = e
  BY PeerOf, ConnectionAssumption
<1>2. unpacker[e] \in Seq(Numbered(d))
  BY <1>1 DEF IInv, AllNumbered
<1>3. c \in Numbered(d) /\ c = unpacker[e][1] /\ 1 \in 1 .. Len(unpacker[e])
  BY <1>2, HeadTailProperties, SMT
<1>4. sent[d] \in Nat
  BY <1>1 DEF IInv, TypeOK
<1>5. /\ c.seq = c.data % NET_MAX_SEQUENCE /\ c.data \in 1 .. sent[d]
      /\ Numbered(d) \subseteq Chunk
  BY <1>1, <1>3, <1>4, NumberedChunks, ConnectionAssumption
<1>6. c.seq \in SeqNumber
  BY <1>3, <1>5 DEF Chunk
<1> QED BY <1>3, <1>4, <1>5, <1>6

(***************************************************************************)
(* FetchChunk of a known sequence: a chunk less than a circle away from    *)
(* the next one expected that carries its number is the next one.          *)
(***************************************************************************)
LEMMA NextIsNext ==
    ASSUME IInv, NEW e \in Ends, unpacker[e] # <<>>, IsNext(e, Head(unpacker[e]).seq),
           ~unknownSeq[e]
    PROVE  LET c == Head(unpacker[e])
           IN /\ c.seq = (UpTo(e) + 1) % NET_MAX_SEQUENCE
              /\ ~lossy[Peer(e)] => c.data = UpTo(e) + 1
<1> DEFINE d == Peer(e)
           c == Head(unpacker[e])
           r == UpTo(e) + 1
<1>1. d \in Ends /\ Peer(d) = e
  BY PeerOf, ConnectionAssumption
<1>2. /\ c = unpacker[e][1] /\ 1 \in 1 .. Len(unpacker[e])
      /\ c.seq = c.data % NET_MAX_SEQUENCE /\ c.data \in 1 .. sent[d] /\ sent[d] \in Nat
  BY HeadNumbered
<1>3. UpTo(e) \in Nat
  BY UpToType DEF IInv
<1>4. c.seq = r % NET_MAX_SEQUENCE
  <2>1. c.seq = NextSeq(UpTo(e) % NET_MAX_SEQUENCE)
    BY DEF IsNext, IInv, Counted
  <2> QED BY <1>3, <2>1, NextSeqMod, ConnectionAssumption
<1>5. ASSUME ~lossy[d] PROVE c.data = r
  <2>1. UpTo(e) - c.data < Lifetime
    BY <1>2, <1>5 DEF IInv, Recent
  <2>2. /\ NET_MAX_SEQUENCE \in Nat /\ NET_MAX_SEQUENCE > 0
        /\ Lifetime \in Nat /\ Lifetime < NET_MAX_SEQUENCE
        /\ PreMsgs \in Nat /\ PreMsgs < NET_MAX_SEQUENCE
        /\ Len(buffer[d]) \in Nat /\ Len(buffer[d]) < NET_MAX_SEQUENCE
    <3>1. /\ NET_MAX_SEQUENCE \in Nat /\ NET_MAX_SEQUENCE > 0
          /\ Lifetime \in Nat /\ Lifetime < NET_MAX_SEQUENCE
          /\ PreMsgs \in Nat /\ BufferChunks \in Nat
          /\ PreMsgs + BufferChunks < NET_MAX_SEQUENCE \div 2
      BY ConnectionAssumption DEF ConnectionAssumption
    <3>2. Len(buffer[d]) \in Nat /\ Len(buffer[d]) <= BufferChunks
      BY <1>1 DEF IInv, TypeOK
    <3>3. NET_MAX_SEQUENCE \div 2 \in Nat /\ NET_MAX_SEQUENCE \div 2 <= NET_MAX_SEQUENCE
      BY <3>1
    <3> QED BY <3>1, <3>2, <3>3
  <2>3. sent[d] - UpTo(e) < NET_MAX_SEQUENCE
    <3>1. CASE state[d] = "OFFLINE"
      <4>1. sent[d] = PreMsgs
        BY <1>1, <3>1 DEF IInv, Accepted
      <4> QED BY <1>3, <2>2, <4>1
    <3>2. CASE state[d] # "OFFLINE"
      <4>1. sent[d] - Len(buffer[d]) <= UpTo(e)
        BY <1>1, <1>5, <3>2 DEF IInv, CopyKept, Dropped, Settled
      <4> QED BY <1>2, <1>3, <2>2, <4>1
    <3> QED BY <3>1, <3>2
  <2> DEFINE x == c.data
  <2>4. x \in Nat /\ r \in Nat /\ x % NET_MAX_SEQUENCE = r % NET_MAX_SEQUENCE
    BY <1>2, <1>3, <1>4
  <2>5. x - r < NET_MAX_SEQUENCE /\ r - x < NET_MAX_SEQUENCE
    BY <1>2, <1>3, <2>1, <2>2, <2>3
  <2> HIDE DEF x, r
  <2>6. x = r
    BY <2>2, <2>4, <2>5, ModUnique
  <2> QED BY <2>6 DEF x
<1> QED BY <1>4, <1>5

\* The chunks handed to e's application begin where VitalStream allows it.
BeginsAt(e, n) == n = 1 \/ (legacy /\ e = Server /\ n <= BufferChunks)

\* FetchChunk hands over the first chunk of an unknown sequence.  When its
\* sender has kept all copies, all its chunks are still in m_Buffer.
LEMMA FirstTaken ==
    ASSUME IInv, NEW e \in Ends, FetchChunk(e), unknownSeq[e]
    PROVE  LET c == Head(unpacker[e])
           IN /\ legacy /\ e = Server /\ received[e] = 0 /\ UpTo(e) = 0
              /\ unknownSeq' = [unknownSeq EXCEPT ![e] = FALSE]
              /\ ack' = [ack EXCEPT ![e] = c.seq]
              /\ first' = [first EXCEPT ![e] = c.data]
              /\ received' = [received EXCEPT ![e] = 1]
              /\ latest' = [latest EXCEPT ![e] = c.data]
              /\ ~lossy[Peer(e)] => c.data <= BufferChunks
<1> DEFINE d == Peer(e)
           c == Head(unpacker[e])
<1>1. d \in Ends /\ Peer(d) = e /\ d # e
  BY PeerOf, ConnectionAssumption
<1>2. legacy /\ e = Server /\ received[e] = 0 /\ first[e] = 1
  BY DEF IInv, Accepted
<1>3. UpTo(e) = 0
  BY <1>2 DEF UpTo
<1>4. /\ unknownSeq' = [unknownSeq EXCEPT ![e] = FALSE]
      /\ ack' = [ack EXCEPT ![e] = c.seq]
      /\ first' = [first EXCEPT ![e] = c.data]
      /\ received' = [received EXCEPT ![e] = received[e] + 1]
      /\ latest' = [latest EXCEPT ![e] = c.data]
  BY DEF FetchChunk, IsNext, UnknownOnceTaken
<1>5. received' = [received EXCEPT ![e] = 1]
  BY <1>2, <1>4
<1>6. ASSUME ~lossy[d] PROVE c.data <= BufferChunks
  <2>1. state[d] # "OFFLINE"
    BY <1>1, <1>2 DEF IInv, Accepted
  <2>2. sent[d] - Len(buffer[d]) <= 0
    BY <1>1, <1>3, <1>6, <2>1 DEF IInv, CopyKept, Dropped, Settled
  <2>3. Len(buffer[d]) <= BufferChunks /\ Len(buffer[d]) \in Nat /\ BufferChunks \in Nat
    BY <1>1, ConnectionAssumption DEF ConnectionAssumption, IInv, TypeOK
  <2>4. c.data \in 1 .. sent[d] /\ sent[d] \in Nat
    BY HeadNumbered DEF FetchChunk
  <2> QED BY <2>2, <2>3, <2>4
<1> QED BY <1>2, <1>3, <1>4, <1>5, <1>6

\* FetchChunk hands over the next chunk of a known sequence.
LEMMA NextTaken ==
    ASSUME IInv, NEW e \in Ends, FetchChunk(e), ~unknownSeq[e],
           IsNext(e, Head(unpacker[e]).seq)
    PROVE  LET c == Head(unpacker[e])
           IN /\ legacy /\ e = Server => received[e] > 0
              /\ unknownSeq' = unknownSeq /\ first' = first
              /\ ack' = [ack EXCEPT ![e] = c.seq]
              /\ received' = [received EXCEPT ![e] = received[e] + 1]
              /\ latest' = [latest EXCEPT ![e] = c.data]
              /\ c.seq = (UpTo(e) + 1) % NET_MAX_SEQUENCE
              /\ ~lossy[Peer(e)] => c.data = UpTo(e) + 1
<1>1. unpacker[e] # <<>>
  BY DEF FetchChunk
<1>2. state[e] # "OFFLINE"
  BY <1>1 DEF IInv, Accepted
<1>3. received[e] \in Nat /\ first \in [Ends -> Nat \ {0}] /\ unknownSeq \in [Ends -> BOOLEAN]
  BY DEF IInv, TypeOK
<1>4. legacy /\ e = Server => received[e] > 0
  BY <1>2, <1>3 DEF IInv, Accepted
<1>5. /\ unknownSeq' = [unknownSeq EXCEPT ![e] = FALSE]
      /\ ack' = [ack EXCEPT ![e] = Head(unpacker[e]).seq]
      /\ first' = [first EXCEPT ![e] = first[e]]
      /\ received' = [received EXCEPT ![e] = received[e] + 1]
      /\ latest' = [latest EXCEPT ![e] = Head(unpacker[e]).data]
  BY DEF FetchChunk, UnknownOnceTaken
<1>6. unknownSeq' = unknownSeq /\ first' = first
  BY <1>3, <1>5
<1> QED BY <1>1, <1>4, <1>5, <1>6, NextIsNext

\* The chunk handed over is the next one, or the first; an ignored one changes
\* m_Construct's flags only.
LEMMA FetchChunkIInv == ASSUME IInv, NEW e \in Ends, FetchChunk(e) PROVE IInv'
<1> DEFINE d == Peer(e)
           c == Head(unpacker[e])
           rest == Tail(unpacker[e])
<1>1. /\ d \in Ends /\ d # e /\ Peer(d) = e
      /\ \A x \in Ends : x = e \/ x = d
  BY PeerOf, ConnectionAssumption
<1>2. /\ unpacker[e] # <<>> /\ unpacker' = [unpacker EXCEPT ![e] = rest]
      /\ UNCHANGED <<state, sequence, peerAck, buffer, net, legacy, sent, lossy>>
  BY DEF FetchChunk
<1>3. unpacker[e] \in Seq(Numbered(d)) /\ unpacker[e] \in Seq(Chunk)
  BY <1>1 DEF IInv, AllNumbered, TypeOK
<1>4. /\ rest \in Seq(Numbered(d)) /\ rest \in Seq(Chunk) /\ Len(rest) \in Nat
      /\ Len(unpacker[e]) = Len(rest) + 1
      /\ c = unpacker[e][1]
      /\ \A i \in 1 .. Len(rest) : rest[i] = unpacker[e][i + 1]
  BY <1>2, <1>3, HeadTailProperties, SMT
<1>5. \A x \in Ends : Numbered(x)' = Numbered(x)
  BY <1>2 DEF Numbered
<1>6. /\ construct' \in [Ends -> Construct]
      /\ \A x \in Ends : construct'[x].chunks = construct[x].chunks
  <2>1. CASE construct' = construct
    BY <2>1 DEF IInv, TypeOK
  <2>2. CASE construct' # construct
    <3>1. PICK b \in BOOLEAN : construct' = [construct EXCEPT ![e].resend = b]
      <4>1. construct' = [construct EXCEPT ![e].resend =
                             construct[e].resend \/ ~IsSeqInBackroom(c.seq, ack[e])]
        BY <2>2 DEF FetchChunk
      <4> QED BY <4>1
    <3>2. construct \in [Ends -> Construct]
      BY DEF IInv, TypeOK
    <3> QED BY <3>1, <3>2 DEF Construct
  <2> QED BY <2>1, <2>2
<1>7. /\ c.seq = c.data % NET_MAX_SEQUENCE /\ c.seq \in SeqNumber
      /\ c.data \in 1 .. sent[d] /\ sent[d] \in Nat
  BY <1>2, HeadNumbered
<1>8. UpTo(e) \in Nat /\ received[e] \in Nat /\ first[e] \in Nat \ {0} /\ UpTo(e) = first[e] + received[e] - 1
  BY UpToType DEF IInv, TypeOK, UpTo
<1>9. ~lossy[d] => BeginsAt(e, first[e])
  BY <1>1 DEF IInv, InOrder, BeginsAt
<1> DEFINE upTo == first'[e] + received'[e] - 1
<1>10. /\ ack' \in [Ends -> SeqNumber] /\ ack'[d] = ack[d]
       /\ unknownSeq' \in [Ends -> BOOLEAN] /\ unknownSeq'[d] = unknownSeq[d]
       /\ first' \in [Ends -> Nat \ {0}] /\ first'[d] = first[d]
       /\ received' \in [Ends -> Nat] /\ received'[d] = received[d]
       /\ latest' \in [Ends -> Nat] /\ latest'[d] = latest[d]
       /\ ack'[e] = upTo % NET_MAX_SEQUENCE
       /\ UpTo(e) <= upTo
       /\ received'[e] = 0 => first'[e] = 1
       /\ unknownSeq'[e] <=> legacy /\ e = Server /\ state[e] # "OFFLINE" /\ received'[e] = 0
       /\ ~lossy[d] => /\ BeginsAt(e, first'[e])
                       /\ \/ upTo = UpTo(e) /\ latest'[e] = latest[e]
                          \/ upTo = c.data /\ latest'[e] = c.data
  <2> HIDE DEF c, d
  <2>1. CASE unknownSeq[e]
    <3>1. /\ legacy /\ e = Server /\ received[e] = 0 /\ UpTo(e) = 0
          /\ unknownSeq' = [unknownSeq EXCEPT ![e] = FALSE]
          /\ ack' = [ack EXCEPT ![e] = c.seq]
          /\ first' = [first EXCEPT ![e] = c.data]
          /\ received' = [received EXCEPT ![e] = 1]
          /\ latest' = [latest EXCEPT ![e] = c.data]
          /\ ~lossy[d] => c.data <= BufferChunks
      BY <2>1, FirstTaken DEF c, d
    <3>2. c.data \in Nat \ {0}
      BY <1>7
    <3>3. upTo = c.data /\ received'[e] = 1 /\ ~unknownSeq'[e] /\ latest'[e] = c.data /\ first'[e] = c.data
      BY <3>1, <3>2 DEF IInv, TypeOK
    <3>4. /\ ack' \in [Ends -> SeqNumber] /\ ack'[d] = ack[d] /\ ack'[e] = c.seq
          /\ unknownSeq' \in [Ends -> BOOLEAN] /\ unknownSeq'[d] = unknownSeq[d]
          /\ first' \in [Ends -> Nat \ {0}] /\ first'[d] = first[d]
          /\ received' \in [Ends -> Nat] /\ received'[d] = received[d]
          /\ latest' \in [Ends -> Nat] /\ latest'[d] = latest[d]
      BY <1>1, <1>7, <3>1, <3>2 DEF IInv, TypeOK
    <3> HIDE DEF upTo
    <3>5. /\ ack'[e] = upTo % NET_MAX_SEQUENCE /\ UpTo(e) <= upTo
          /\ received'[e] # 0
      BY <1>7, <3>1, <3>2, <3>3, <3>4
    <3>6. unknownSeq'[e] <=> legacy /\ e = Server /\ state[e] # "OFFLINE" /\ received'[e] = 0
      BY <3>3, <3>5
    <3>7. ~lossy[d] => BeginsAt(e, first'[e]) /\ upTo = c.data /\ latest'[e] = c.data
      BY <3>1, <3>3 DEF BeginsAt
    <3> QED BY <3>4, <3>5, <3>6, <3>7
  <2>2. CASE ~unknownSeq[e] /\ IsNext(e, c.seq)
    <3>1. /\ legacy /\ e = Server => received[e] > 0
          /\ unknownSeq' = unknownSeq /\ first' = first
          /\ ack' = [ack EXCEPT ![e] = c.seq]
          /\ received' = [received EXCEPT ![e] = received[e] + 1]
          /\ latest' = [latest EXCEPT ![e] = c.data]
          /\ c.seq = (UpTo(e) + 1) % NET_MAX_SEQUENCE
          /\ ~lossy[d] => c.data = UpTo(e) + 1
      BY <2>2, NextTaken DEF c, d
    <3>2. c.data \in Nat /\ received[e] + 1 \in Nat
      BY <1>7, <1>8
    <3>3. /\ received'[e] = received[e] + 1 /\ received'[e] # 0
          /\ first'[e] = first[e] /\ upTo = UpTo(e) + 1
      <4>1. first'[e] = first[e] /\ received'[e] = received[e] + 1
        BY <3>1 DEF IInv, TypeOK
      <4> QED BY <1>8, <4>1
    <3> HIDE DEF upTo
    <3>4. /\ ack' \in [Ends -> SeqNumber] /\ ack'[d] = ack[d] /\ ack'[e] = c.seq
          /\ received' \in [Ends -> Nat] /\ received'[d] = received[d]
          /\ latest' \in [Ends -> Nat] /\ latest'[d] = latest[d] /\ latest'[e] = c.data
      <4> DEFINE more == received[e] + 1
      <4>1. more \in Nat /\ received' = [received EXCEPT ![e] = more]
        BY <3>1, <3>2
      <4> HIDE DEF more
      <4> QED BY <1>1, <1>7, <3>1, <3>2, <4>1 DEF IInv, TypeOK
    <3>6. /\ unknownSeq' \in [Ends -> BOOLEAN] /\ unknownSeq'[d] = unknownSeq[d]
          /\ first' \in [Ends -> Nat \ {0}] /\ first'[d] = first[d]
      BY <3>1 DEF IInv, TypeOK
    <3>5. UpTo(e) <= upTo
      BY <1>8, <3>3
    <3>7. unknownSeq'[e] <=> legacy /\ e = Server /\ state[e] # "OFFLINE" /\ received'[e] = 0
      BY <2>2, <3>1, <3>3
    <3>8. /\ ack'[e] = upTo % NET_MAX_SEQUENCE
          /\ ~lossy[d] => BeginsAt(e, first'[e]) /\ upTo = c.data /\ latest'[e] = c.data
      BY <1>9, <3>1, <3>3, <3>4
    <3> QED BY <3>3, <3>4, <3>5, <3>6, <3>7, <3>8
  <2>3. CASE ~IsNext(e, c.seq)
    <3>1. UNCHANGED <<ack, unknownSeq, first, received, latest>>
      BY <2>3 DEF FetchChunk, c
    <3>2. upTo = UpTo(e)
      BY <1>8, <3>1
    <3>3. ack[e] = UpTo(e) % NET_MAX_SEQUENCE
      BY DEF IInv, Counted
    <3>4. /\ received[e] = 0 => first[e] = 1
          /\ unknownSeq[e] <=> legacy /\ e = Server /\ state[e] # "OFFLINE" /\ received[e] = 0
      BY DEF IInv, Accepted
    <3> HIDE DEF upTo
    <3>5. /\ ack \in [Ends -> SeqNumber] /\ unknownSeq \in [Ends -> BOOLEAN]
          /\ first \in [Ends -> Nat \ {0}] /\ received \in [Ends -> Nat]
          /\ latest \in [Ends -> Nat]
      BY DEF IInv, TypeOK
    <3>6. unknownSeq'[e] <=> legacy /\ e = Server /\ state[e] # "OFFLINE" /\ received'[e] = 0
      BY <3>1, <3>4, Zenon
    <3>7. /\ UpTo(e) <= upTo /\ ack'[e] = upTo % NET_MAX_SEQUENCE
          /\ received'[e] = 0 => first'[e] = 1
          /\ ~lossy[d] => BeginsAt(e, first'[e]) /\ latest'[e] = latest[e]
      BY <1>8, <1>9, <3>1, <3>2, <3>3, <3>4
    <3> QED BY <3>1, <3>2, <3>5, <3>6, <3>7
  <2> QED BY <2>1, <2>2, <2>3 DEF IsNext
<1>11. UpTo(e)' = upTo /\ UpTo(d)' = UpTo(d) /\ upTo \in Nat
  BY <1>1, <1>8, <1>10 DEF UpTo
<1> HIDE DEF c, rest, upTo
<1>12. TypeOK'
  BY <1>2, <1>4, <1>6, <1>10 DEF IInv, TypeOK
<1>13. AllNumbered'
  <2>1. unpacker'[e] = rest /\ unpacker'[d] = unpacker[d]
    BY <1>1, <1>2 DEF IInv, TypeOK
  <2>2. AllNumbered
    BY DEF IInv
  <2> HIDE DEF d
  <2>3. /\ \A x \in Ends : unpacker'[Peer(x)] \in Seq(Numbered(x))
    BY <1>1, <1>4, <2>1, <2>2 DEF AllNumbered, d
  <2> QED BY <1>2, <1>5, <1>6, <2>2, <2>3 DEF AllNumbered
<1>14. Counted'
  <2>1. \A p \in net[Peer(e)] : p.ack = p.count % NET_MAX_SEQUENCE /\ p.count <= upTo
    <3> TAKE p \in net[Peer(e)]
    <3>1. p.ack = p.count % NET_MAX_SEQUENCE /\ p.count \in Nat /\ p.count <= UpTo(e)
      BY <1>1 DEF IInv, TypeOK, Counted, Packet
    <3> QED BY <1>8, <1>10, <1>11, <3>1
  <2>2. /\ ack[d] = UpTo(d) % NET_MAX_SEQUENCE
        /\ \A p \in net[e] : p.ack = p.count % NET_MAX_SEQUENCE /\ p.count <= UpTo(d)
    BY <1>1 DEF IInv, Counted
  <2> QED BY <1>1, <1>2, <1>10, <1>11, <2>1, <2>2 DEF Counted
<1>15. Recent'
  <2>1. unpacker'[e] = rest /\ unpacker'[d] = unpacker[d]
    BY <1>1, <1>2 DEF IInv, TypeOK
  <2>2. \A i, j \in 1 .. Len(rest) : rest[i].data - rest[j].data < Lifetime
    <3> TAKE i, j \in 1 .. Len(rest)
    <3>1. i + 1 \in 1 .. Len(unpacker[e]) /\ j + 1 \in 1 .. Len(unpacker[e])
      BY <1>4
    <3>2. unpacker[e][i + 1].data - unpacker[e][j + 1].data < Lifetime
      BY <3>1 DEF IInv, Recent
    <3> QED BY <1>4, <3>2
  <2>3. ASSUME ~lossy[d], NEW i \in 1 .. Len(rest)
        PROVE  upTo - rest[i].data < Lifetime
    <3>1. /\ rest[i] = unpacker[e][i + 1]
          /\ i + 1 \in 1 .. Len(unpacker[e]) /\ 1 \in 1 .. Len(unpacker[e])
      BY <1>4
    <3>2. UpTo(e) - rest[i].data < Lifetime /\ c.data - rest[i].data < Lifetime
      BY <1>4, <2>3, <3>1 DEF IInv, Recent
    <3> QED BY <1>10, <2>3, <3>2
  <2>4. /\ ~lossy[Peer(d)] =>
              \A i \in 1 .. Len(unpacker[d]) : UpTo(d) - unpacker[d][i].data < Lifetime
        /\ \A i, j \in 1 .. Len(unpacker[d]) :
              unpacker[d][i].data - unpacker[d][j].data < Lifetime
    BY <1>1 DEF IInv, Recent
  <2> QED BY <1>1, <1>2, <1>11, <2>1, <2>2, <2>3, <2>4 DEF Recent
<1>16. InOrder'
  <2>1. ~lossy[d] => latest'[e] = upTo /\ upTo <= sent[d] /\ BeginsAt(e, first'[e])
    <3>1. ~lossy[d] => latest[e] = UpTo(e) /\ UpTo(e) <= sent[d]
      BY <1>1 DEF IInv, InOrder
    <3> QED BY <1>7, <1>10, <3>1
  <2>2. ~lossy[e] => latest'[d] = UpTo(d) /\ UpTo(d) <= sent[e] /\ BeginsAt(d, first'[d])
    BY <1>1, <1>10 DEF IInv, InOrder, BeginsAt
  <2> QED BY <1>1, <1>2, <1>11, <2>1, <2>2 DEF InOrder, BeginsAt
<1>17. CopyKept'
  <2>1. \A x \in Ends : Dropped(x)' = Dropped(x) /\ Dropped(x) \in Int
    BY <1>2 DEF Dropped, IInv, TypeOK
  <2>2. \A x \in Ends : Settled(x) <= Settled(x)' /\ Settled(x) \in Int /\ Settled(x)' \in Int
    <3>1. \A x \in Ends : UpTo(x) <= UpTo(x)' /\ UpTo(x) \in Int /\ UpTo(x)' \in Int /\ Peer(x) \in Ends
      <4>1. \A x \in Ends : UpTo(x) \in Nat
        BY UpToType DEF IInv
      <4> QED BY <1>1, <1>10, <1>11, <4>1, PeerOf, ConnectionAssumption
    <3> QED BY <3>1 DEF Settled
  <2> SUFFICES ASSUME NEW x \in Ends, ~lossy[x], state[x] # "OFFLINE"
               PROVE  /\ \A i \in 1 .. Len(buffer[x]) : buffer[x][i].data = Dropped(x) + i
                      /\ Dropped(x) <= Settled(x)'
    BY <1>2, <2>1 DEF CopyKept
  <2>3. /\ \A i \in 1 .. Len(buffer[x]) : buffer[x][i].data = Dropped(x) + i
        /\ Dropped(x) <= Settled(x)
    BY DEF IInv, CopyKept
  <2> QED BY <2>1, <2>2, <2>3
<1>18. PeerAckMatchesBuffer'
  BY <1>2 DEF IInv, PeerAckMatchesBuffer, Dropped
<1>19. Accepted'
  <2>1. state[e] # "OFFLINE"
    BY <1>2 DEF IInv, Accepted
  <2>2. unpacker'[d] = unpacker[d]
    BY <1>1, <1>2 DEF IInv, TypeOK
  <2>3. Accepted
    BY DEF IInv
  <2> QED BY <1>1, <1>2, <1>10, <2>1, <2>2, <2>3 DEF Accepted
<1> QED BY <1>12, <1>13, <1>14, <1>15, <1>16, <1>17, <1>18, <1>19 DEF IInv

(***************************************************************************)
(* Feed.  The acknowledgement stands for c chunks, which the peer has; the *)
(* window test puts c at or after those acknowledged before, so AckChunks  *)
(* drops the copies up to c and no others.  Of the messages sent before a  *)
(* legacy server had a connection there are no copies: acknowledgements of *)
(* only these drop nothing.  The chunks unpacked are fresh.                *)
(***************************************************************************)
OnlyPreMsgs(e, a) == legacy /\ e = Server /\ a < PreMsgs /\ Dropped(e) = PreMsgs

LEMMA AckedCopies ==
    ASSUME IInv, NEW e \in Ends, NEW p \in net[e], Feed(e, p), AckIsValid(e, p.ack),
           ~lossy[e]
    PROVE  LET kept == AckChunks(buffer[e], p.ack)
           IN /\ p.count \in Nat /\ p.count <= UpTo(Peer(e))
              /\ p.ack = p.count % NET_MAX_SEQUENCE
              /\ \/ /\ Len(kept) = sent[e] - p.count
                    /\ \A i \in 1 .. Len(kept) : kept[i].data = p.count + i
                 \/ kept = buffer[e] /\ OnlyPreMsgs(e, p.ack)
<1> DEFINE d == Peer(e)
           s == sent[e]
           c == p.count
           n == Len(buffer[e])
<1>1. d \in Ends /\ Peer(d) = e /\ UpTo(d) \in Nat
  BY PeerOf, UpToType, ConnectionAssumption DEF IInv
<1>2. /\ s \in Nat /\ c \in Nat /\ c <= UpTo(d)
      /\ p.ack = c % NET_MAX_SEQUENCE
  BY <1>1 DEF IInv, TypeOK, Counted, Packet
<1>3. UpTo(d) <= s
  BY <1>1 DEF IInv, InOrder
<1>4. /\ n \in Nat /\ n <= BufferChunks /\ buffer[e] \in Seq(Numbered(e))
      /\ \A i \in 1 .. n : buffer[e][i].data = s - n + i
      /\ state[e] = "ONLINE"
  <2>1. state[e] = "ONLINE"
    BY DEF Feed
  <2>2. \A i \in 1 .. n : buffer[e][i].data = s - n + i
    BY <2>1 DEF IInv, CopyKept, Dropped
  <2>3. n \in Nat /\ n <= BufferChunks /\ buffer[e] \in Seq(Numbered(e))
    BY DEF IInv, TypeOK, AllNumbered
  <2> QED BY <2>1, <2>2, <2>3
<1>5. /\ NET_MAX_SEQUENCE \in Nat /\ BufferChunks < NET_MAX_SEQUENCE \div 2
      /\ NET_MAX_SEQUENCE \div 2 <= NET_MAX_SEQUENCE /\ BufferChunks \in Nat
      /\ NET_MAX_SEQUENCE \div 2 \in Nat
      /\ Lifetime \in Nat /\ Lifetime < NET_MAX_SEQUENCE
      /\ PreMsgs \in Nat /\ PreMsgs + BufferChunks < NET_MAX_SEQUENCE \div 2
  BY ConnectionAssumption DEF ConnectionAssumption
<1>6. s - c <= Lifetime
  BY DEF Feed, Fresh
<1>7. n <= s
  <2>1. CASE n = 0
    BY <1>2, <2>1
  <2>2. CASE n > 0
    <3>1. buffer[e][1] \in Numbered(e) /\ buffer[e][1].data = s - n + 1
      BY <1>4, <2>2
    <3>2. buffer[e][1].data \in 1 .. s
      BY <1>2, <3>1, NumberedChunks, ConnectionAssumption
    <3> QED BY <1>2, <1>4, <3>1, <3>2
  <2> QED BY <1>4, <2>1, <2>2
<1>8. /\ sequence[e] = s % NET_MAX_SEQUENCE
      /\ \/ peerAck[e] = (s - n) % NET_MAX_SEQUENCE
         \/ legacy /\ e = Server /\ s - n = PreMsgs
  BY <1>4 DEF IInv, AllNumbered, PeerAckMatchesBuffer, Dropped
<1>9. \A i \in 1 .. n : /\ buffer[e][i].data = s - n + i
                        /\ StandsFor(buffer[e][i].seq, buffer[e][i].data)
  <2> TAKE i \in 1 .. n
  <2>1. buffer[e][i] \in Numbered(e)
    BY <1>4
  <2> QED BY <1>2, <1>4, <2>1, NumberedChunks, ConnectionAssumption DEF StandsFor
<1>10. c <= s
  BY <1>1, <1>2, <1>3
<1> DEFINE kept == AckChunks(buffer[e], p.ack)
<1>11. CASE s - n <= c
  <2> DEFINE copies == buffer[e]
             S == Numbered(e)
  <2>1. /\ copies \in Seq(S) /\ Len(copies) <= BufferChunks
        /\ s \in Nat /\ c \in Nat /\ Len(copies) <= s /\ c <= s /\ s - Len(copies) <= c
    BY <1>2, <1>4, <1>7, <1>10, <1>11
  <2>2. CopiesUpTo(copies, s)
    BY <1>9 DEF CopiesUpTo
  <2> DEFINE a == p.ack
  <2>3. StandsFor(a, c)
    BY <1>2 DEF StandsFor
  <2>4. kept = AckChunks(copies, a)
    OBVIOUS
  <2> HIDE DEF s, c, copies, S, a
  <2>5. /\ Len(AckChunks(copies, a)) = s - c
        /\ \A i \in 1 .. Len(AckChunks(copies, a)) : AckChunks(copies, a)[i].data = c + i
    BY <2>1, <2>2, <2>3, AckChunksExact, ConnectionAssumption
  <2>6. Len(kept) = s - c /\ \A i \in 1 .. Len(kept) : kept[i].data = c + i
    BY <2>4, <2>5
  <2> HIDE DEF kept
  <2> QED BY <1>2, <2>6 DEF kept, s, c
<1>12. CASE peerAck[e] = (s - n) % NET_MAX_SEQUENCE
  <2> DEFINE l == s - n
  <2>1. /\ l \in Nat /\ l <= s /\ s - l < NET_MAX_SEQUENCE
        /\ c <= s /\ s - c < NET_MAX_SEQUENCE
    BY <1>2, <1>4, <1>5, <1>6, <1>7, <1>10
  <2>2. sequence[e] = s % NET_MAX_SEQUENCE /\ peerAck[e] = l % NET_MAX_SEQUENCE
    BY <1>8, <1>12
  <2>3. AckIsValid(e, c % NET_MAX_SEQUENCE)
    BY <1>2
  <2> HIDE DEF l, s, c
  <2>4. l <= c
    BY <1>2, <2>1, <2>2, <2>3, AckWindow, ConnectionAssumption
  <2> QED BY <1>11, <2>4 DEF l
<1>13. CASE legacy /\ e = Server /\ s - n = PreMsgs /\ c < PreMsgs
  <2>1. c % NET_MAX_SEQUENCE = c
    <3> DEFINE m == NET_MAX_SEQUENCE
    <3>1. m \in Nat /\ c \in 0 .. (m - 1)
      BY <1>2, <1>5, <1>13
    <3> HIDE DEF m, c
    <3>2. c % m = c
      BY <3>1
    <3> QED BY <3>2 DEF m
  <2>2. OnlyPreMsgs(e, p.ack)
    BY <1>2, <1>13, <2>1 DEF OnlyPreMsgs, Dropped
  <2>3. ASSUME buffer[e] # <<>> PROVE ~IsSeqInBackroom(buffer[e][1].seq, p.ack)
    <3> DEFINE u == PreMsgs + 1
    <3>1. 1 \in 1 .. n
      BY <1>4, <2>3
    <3>2. buffer[e][1].seq = u % NET_MAX_SEQUENCE
      BY <1>2, <1>4, <1>9, <1>13, <3>1 DEF StandsFor
    <3>3. u \in Nat /\ ~(u <= c) /\ u - c < NET_MAX_SEQUENCE \div 2 /\ c - u < NET_MAX_SEQUENCE \div 2
      BY <1>2, <1>4, <1>5, <1>13, <3>1
    <3> HIDE DEF u, c
    <3> QED BY <1>2, <3>2, <3>3, Backroom, ConnectionAssumption
  <2>4. kept = buffer[e]
    BY <1>4, <2>3, AckChunksNone
  <2> QED BY <1>2, <2>2, <2>4
<1>14. \/ s - n <= c \/ peerAck[e] = (s - n) % NET_MAX_SEQUENCE
       \/ legacy /\ e = Server /\ s - n = PreMsgs /\ c < PreMsgs
  <2> HIDE DEF s, n, c
  <2>1. s - n <= c \/ c < s - n
    BY <1>2, <1>4
  <2> QED BY <1>8, <2>1
<1> HIDE DEF s, n, c, kept
<1> QED BY <1>11, <1>12, <1>13, <1>14 DEF kept, s, c

\* Feed with its answer to a request to resend, its acknowledgement and the
\* chunks it unpacks, or a packet it rejects.
LEMMA FeedIInv == ASSUME IInv, NEW e \in Ends, NEW p \in net[e], Feed(e, p) PROVE IInv'
<1> DEFINE d == Peer(e)
           kept == AckChunks(buffer[e], p.ack)
           resent == {PacketOf(e, f) : f \in Flushed(construct[e], buffer[e])}
<1>1. /\ d \in Ends /\ d # e /\ Peer(d) = e
      /\ \A x \in Ends : x = e \/ x = d
  BY PeerOf, ConnectionAssumption
<1>2. CASE ~AckIsValid(e, p.ack)
  <2>1. UNCHANGED vars
    BY <1>2 DEF Feed, vars
  <2> QED BY <2>1, UnchangedIInv
<1>3. CASE AckIsValid(e, p.ack)
  <2>1. /\ state[e] = "ONLINE" /\ Fresh(e, p)
        /\ peerAck' = [peerAck EXCEPT ![e] = p.ack]
        /\ \/ /\ construct' = [construct EXCEPT ![e] = Filling(construct[e], buffer[e])]
              /\ Transmit(e, resent)
           \/ UNCHANGED <<construct, net>>
        /\ buffer' = [buffer EXCEPT ![e] = kept]
        /\ unpacker' = [unpacker EXCEPT ![e] = p.chunks]
        /\ UNCHANGED <<state, sequence, ack, unknownSeq>>
        /\ UNCHANGED <<legacy, sent, first, received, latest, lossy>>
        /\ \A x \in Ends : UpTo(x)' = UpTo(x)
    BY <1>3 DEF Feed, ghostVars, UpTo
  <2>2. /\ p \in Packet /\ p.ack \in SeqNumber
        /\ p.chunks \in Seq(Numbered(d)) /\ p.chunks \in Seq(Chunk)
    BY <1>1 DEF IInv, TypeOK, AllNumbered, Packet
  <2>3. /\ kept \in Seq(Numbered(e)) /\ kept \in Seq(Chunk) /\ Len(kept) <= BufferChunks
    <3>1. /\ buffer[e] \in Seq(Numbered(e)) /\ Numbered(e) \in SUBSET Chunk
          /\ Len(buffer[e]) <= BufferChunks /\ BufferChunks \in Nat /\ Len(buffer[e]) \in Nat
      BY OwnChunks, ConnectionAssumption DEF ConnectionAssumption, IInv, TypeOK
    <3>2. kept \in Seq(Numbered(e)) /\ Len(kept) <= Len(buffer[e])
      BY <3>1, AckChunksPart
    <3>3. kept \in Seq(Chunk) /\ Len(kept) \in Nat
      BY <3>1, <3>2, SeqMonotonic
    <3> QED BY <3>1, <3>2, <3>3
  <2>4. /\ construct' \in [Ends -> Construct]
        /\ construct'[e].chunks \in Seq(Numbered(e)) /\ construct'[d] = construct[d]
        /\ net' \in [Ends -> SUBSET Packet] /\ net'[e] = net[e]
        /\ \A q \in net'[d] : /\ q.chunks \in Seq(Numbered(e))
                              /\ q.ack = q.count % NET_MAX_SEQUENCE
                              /\ q.count <= UpTo(e)
    <3>1. CASE /\ construct' = [construct EXCEPT ![e] = Filling(construct[e], buffer[e])]
               /\ Transmit(e, resent)
      <4>1. /\ Filling(construct[e], buffer[e]) \in Construct
            /\ Filling(construct[e], buffer[e]).chunks \in Seq(Numbered(e))
            /\ \A f \in Flushed(construct[e], buffer[e]) :
                  f \in Construct /\ f.chunks \in Seq(Numbered(e))
        BY OwnChunks, FillingParts, FlushedParts, ConnectionAssumption
      <4>2. \A q \in resent : \E f \in Construct : f.chunks \in Seq(Numbered(e)) /\ q = PacketOf(e, f)
        BY <4>1
      <4> HIDE DEF resent
      <4>3. /\ net' \in [Ends -> SUBSET Packet] /\ net'[e] = net[e]
            /\ \A q \in net'[d] : /\ q.chunks \in Seq(Numbered(e))
                                  /\ q.ack = q.count % NET_MAX_SEQUENCE
                                  /\ q.count <= UpTo(e)
        BY <3>1, <4>2, Sent, ConnectionAssumption DEF IInv
      <4> QED BY <1>1, <3>1, <4>1, <4>3 DEF IInv, TypeOK
    <3>2. CASE UNCHANGED <<construct, net>>
      BY <1>1, <3>2 DEF IInv, TypeOK, AllNumbered, Counted
    <3> QED BY <2>1, <3>1, <3>2
  <2>5. \A x \in Ends : Numbered(x)' = Numbered(x)
    BY <2>1 DEF Numbered
  <2>6. ~lossy[e] =>
           /\ p.count \in Nat /\ p.count <= UpTo(d)
           /\ p.ack = p.count % NET_MAX_SEQUENCE
           /\ \/ /\ Len(kept) = sent[e] - p.count
                 /\ \A i \in 1 .. Len(kept) : kept[i].data = p.count + i
              \/ kept = buffer[e] /\ OnlyPreMsgs(e, p.ack)
    BY <1>3, AckedCopies
  <2> HIDE DEF kept, resent
  <2>7. /\ buffer'[e] = kept /\ buffer'[d] = buffer[d]
        /\ unpacker'[e] = p.chunks /\ unpacker'[d] = unpacker[d]
        /\ peerAck'[e] = p.ack /\ peerAck'[d] = peerAck[d]
    BY <1>1, <2>1 DEF IInv, TypeOK
  <2>8. TypeOK'
    <3>1. \A x \in Ends : Len(buffer'[x]) <= BufferChunks
      BY <1>1, <2>3, <2>7 DEF IInv, TypeOK
    <3> QED BY <2>1, <2>2, <2>3, <2>4, <3>1 DEF IInv, TypeOK
  <2>9. AllNumbered'
    <3>1. /\ state[d] = "ONLINE" => sequence[d] = sent[d] % NET_MAX_SEQUENCE
          /\ state[e] = "ONLINE" => sequence[e] = sent[e] % NET_MAX_SEQUENCE
          /\ buffer[d] \in Seq(Numbered(d)) /\ construct[d].chunks \in Seq(Numbered(d))
          /\ unpacker[d] \in Seq(Numbered(e))
          /\ \A q \in net[e] : q.chunks \in Seq(Numbered(d))
      BY <1>1 DEF IInv, AllNumbered
    <3> QED BY <1>1, <2>1, <2>2, <2>3, <2>4, <2>5, <2>7, <3>1 DEF AllNumbered
  <2>10. Counted'
    BY <1>1, <2>1, <2>4 DEF IInv, Counted
  <2>11. Recent'
    <3>1. \A i \in 1 .. Len(p.chunks) : /\ p.chunks[i].data \in Nat
                                        /\ p.chunks[i].data <= sent[d]
                                        /\ sent[d] - p.chunks[i].data < Lifetime
      <4> TAKE i \in 1 .. Len(p.chunks)
      <4>1. p.chunks[i] \in Numbered(d) /\ sent[d] \in Nat
        BY <1>1, <2>2 DEF IInv, TypeOK
      <4>2. p.chunks[i].data \in 1 .. sent[d]
        BY <1>1, <4>1, NumberedChunks, ConnectionAssumption
      <4> QED BY <2>1, <4>1, <4>2 DEF Fresh
    <3>2. sent[d] \in Nat /\ UpTo(e) \in Nat /\ Lifetime \in Nat
      BY <1>1, UpToType, ConnectionAssumption DEF ConnectionAssumption, IInv, TypeOK
    <3>3. \A i, j \in 1 .. Len(p.chunks) : p.chunks[i].data - p.chunks[j].data < Lifetime
      BY <3>1, <3>2
    <3>4. ~lossy[d] => \A i \in 1 .. Len(p.chunks) : UpTo(e) - p.chunks[i].data < Lifetime
      <4>1. ~lossy[d] => UpTo(e) <= sent[d]
        BY DEF IInv, InOrder
      <4> QED BY <3>1, <3>2, <4>1
    <3>5. /\ ~lossy[Peer(d)] =>
                \A i \in 1 .. Len(unpacker[d]) : UpTo(d) - unpacker[d][i].data < Lifetime
          /\ \A i, j \in 1 .. Len(unpacker[d]) :
                unpacker[d][i].data - unpacker[d][j].data < Lifetime
      BY <1>1 DEF IInv, Recent
    <3> HIDE DEF d
    <3>6. d = Peer(e)
      BY DEF d
    <3> QED BY <1>1, <2>1, <2>7, <3>3, <3>4, <3>5, <3>6 DEF Recent
  <2>12. InOrder'
    BY <2>1 DEF IInv, InOrder
  <2>13. /\ Dropped(d)' = Dropped(d) /\ Dropped(e)' = sent[e] - Len(kept)
         /\ \A x \in Ends : Settled(x)' = Settled(x)
    <3>1. \A x \in Ends : Peer(x) \in Ends
      BY PeerOf, ConnectionAssumption
    <3> QED BY <1>1, <2>1, <2>7, <3>1 DEF Dropped, Settled
  <2>14. CopyKept'
    <3>1. ASSUME ~lossy[e]
          PROVE  /\ \A i \in 1 .. Len(kept) : kept[i].data = Dropped(e)' + i
                 /\ Dropped(e)' <= Settled(e)'
      <4>1. CASE /\ Len(kept) = sent[e] - p.count
                 /\ \A i \in 1 .. Len(kept) : kept[i].data = p.count + i
        <5>1. sent[e] \in Nat /\ p.count \in Nat
          BY <2>2 DEF IInv, TypeOK, Packet
        <5>2. Dropped(e)' = p.count
          BY <2>13, <4>1, <5>1
        <5>3. p.count <= Settled(e)'
          BY <2>6, <2>13, <3>1 DEF Settled
        <5> QED BY <4>1, <5>2, <5>3
      <4>2. CASE kept = buffer[e]
        <5>1. Dropped(e)' = Dropped(e)
          BY <2>13, <4>2 DEF Dropped
        <5>2. /\ \A i \in 1 .. Len(buffer[e]) : buffer[e][i].data = Dropped(e) + i
              /\ Dropped(e) <= Settled(e)
          BY <2>1, <3>1 DEF IInv, CopyKept
        <5> QED BY <2>13, <4>2, <5>1, <5>2
      <4> QED BY <2>6, <3>1, <4>1, <4>2
    <3>2. ~lossy[d] /\ state[d] # "OFFLINE" =>
            /\ \A i \in 1 .. Len(buffer[d]) : buffer[d][i].data = Dropped(d)' + i
            /\ Dropped(d)' <= Settled(d)'
      BY <1>1, <2>13 DEF IInv, CopyKept
    <3> QED BY <1>1, <2>1, <2>7, <3>1, <3>2 DEF CopyKept
  <2>15. PeerAckMatchesBuffer'
    <3>1. ~lossy[e] => \/ p.ack = Dropped(e)' % NET_MAX_SEQUENCE
                       \/ legacy /\ e = Server /\ p.ack < PreMsgs /\ Dropped(e)' = PreMsgs
      <4>1. CASE Len(kept) = sent[e] - p.count
        <5>1. sent[e] \in Nat /\ p.count \in Nat
          BY <2>2 DEF IInv, TypeOK, Packet
        <5>2. Dropped(e)' = p.count
          BY <2>13, <4>1, <5>1
        <5> QED BY <2>6, <5>2
      <4>2. CASE kept = buffer[e] /\ OnlyPreMsgs(e, p.ack)
        <5>1. Dropped(e)' = Dropped(e)
          BY <2>13, <4>2 DEF Dropped
        <5> QED BY <4>2, <5>1 DEF OnlyPreMsgs
      <4> QED BY <2>6, <4>1, <4>2
    <3>2. ~lossy[d] /\ state[d] # "OFFLINE" =>
             \/ peerAck[d] = Dropped(d)' % NET_MAX_SEQUENCE
             \/ legacy /\ d = Server /\ peerAck[d] < PreMsgs /\ Dropped(d)' = PreMsgs
      BY <1>1, <2>13 DEF IInv, PeerAckMatchesBuffer
    <3> QED BY <1>1, <2>1, <2>7, <3>1, <3>2 DEF PeerAckMatchesBuffer
  <2>16. Accepted'
    <3>1. Accepted
      BY DEF IInv
    <3> QED BY <1>1, <2>1, <2>7, <3>1 DEF Accepted
  <2> QED BY <2>8, <2>9, <2>10, <2>11, <2>12, <2>14, <2>15, <2>16 DEF IInv
<1> QED BY <1>2, <1>3

(***************************************************************************)
(* The handshake of a legacy client: SendMsgs numbers its messages like a  *)
(* connection would that had just sent them.                               *)
(***************************************************************************)
LEMMA SendMsgsIInv == ASSUME IInv, SendMsgs PROVE IInv'
<1> DEFINE msgs == [i \in 1 .. PreMsgs |-> [seq |-> i, data |-> i]]
           filled == [chunks |-> msgs, resend |-> FALSE]
           packet == [ack |-> 0, count |-> 0, resend |-> FALSE, chunks |-> msgs]
           N == Numbered(Server)
<1>1. /\ Server \in Ends /\ state[Server] = "OFFLINE" /\ Transmit(Server, {packet})
      /\ UNCHANGED <<connVars, unpacker, ghostVars>>
  BY DEF SendMsgs, Ends
<1>2. /\ sent[Server] = PreMsgs /\ received[Server] = 0 /\ first[Server] = 1
      /\ ack[Server] = UpTo(Server) % NET_MAX_SEQUENCE
  BY <1>1 DEF IInv, Accepted, Counted
<1>3. /\ NET_MAX_SEQUENCE \in Nat /\ PreMsgs \in Nat /\ PreMsgs < NET_MAX_SEQUENCE
      /\ NET_MAX_SEQUENCE > 0
  <2>1. /\ NET_MAX_SEQUENCE \in Nat /\ PreMsgs \in Nat /\ BufferChunks \in Nat
        /\ PreMsgs + BufferChunks < NET_MAX_SEQUENCE \div 2 /\ NET_MAX_SEQUENCE > 1
    BY ConnectionAssumption DEF ConnectionAssumption
  <2>2. NET_MAX_SEQUENCE \div 2 \in Nat /\ NET_MAX_SEQUENCE \div 2 <= NET_MAX_SEQUENCE
    BY <2>1
  <2> QED BY <2>1, <2>2
<1>4. ack[Server] = 0 /\ UpTo(Server) = 0
  BY <1>2, <1>3 DEF UpTo
<1>5. ASSUME NEW i \in 1 .. PreMsgs PROVE msgs[i] \in N
  <2> DEFINE m == NET_MAX_SEQUENCE
  <2>1. m \in Nat /\ i \in 0 .. (m - 1)
    BY <1>3
  <2> HIDE DEF m
  <2>2. i % m = i
    BY <2>1
  <2>3. [seq |-> i % NET_MAX_SEQUENCE, data |-> i] \in N
    BY <1>2 DEF Numbered
  <2> QED BY <2>2, <2>3 DEF m
<1>6. msgs \in Seq(N)
  BY <1>3, <1>5
<1>7. N \in SUBSET Chunk
  BY <1>1, OwnChunks
<1> HIDE DEF msgs, N
<1>8. filled \in Construct /\ filled.chunks \in Seq(N)
  <2>1. msgs \in Seq(Chunk)
    BY <1>6, <1>7, SeqMonotonic
  <2> QED BY <1>6, <2>1 DEF Construct
<1>9. packet = PacketOf(Server, filled)
  BY <1>4 DEF PacketOf
<1>10. construct' = [construct EXCEPT ![Server] = construct[Server]]
  BY <1>1 DEF connVars, IInv, TypeOK
<1>11. /\ construct[Server] \in Construct /\ construct[Server].chunks \in Seq(N)
  BY <1>1, OwnChunks DEF N
<1> DEFINE packets == {packet}
<1>12. /\ Transmit(Server, packets)
       /\ \A p \in packets : \E f \in Construct : f.chunks \in Seq(N) /\ p = PacketOf(Server, f)
  BY <1>1, <1>8, <1>9
<1>13. UNCHANGED <<state, sequence, ack, unknownSeq, peerAck, buffer, unpacker, ghostVars>>
  BY <1>1 DEF connVars
<1> HIDE DEF packets
<1> QED BY <1>1, <1>10, <1>11, <1>12, <1>13, SendingIInv DEF N

\* The connection that TryAcceptClient makes goes on from these messages: the
\* client that returns the token has all of them.
LEMMA AcceptIInv == ASSUME IInv, NEW p \in net[Server], Accept(p) PROVE IInv'
<1>1. /\ state[Server] = "OFFLINE" /\ p.count >= PreMsgs
      /\ state' = [state EXCEPT ![Server] = "ONLINE"]
      /\ unknownSeq' = [unknownSeq EXCEPT ![Server] = TRUE]
      /\ sequence' = [sequence EXCEPT ![Server] = PreMsgs]
      /\ UNCHANGED <<ack, peerAck, buffer, construct, unpacker, net, ghostVars>>
  BY DEF Accept, FirstSequence
<1> USE DEF ghostVars
<1>2. /\ Server \in Ends /\ Client \in Ends /\ Client # Server
      /\ Peer(Client) = Server /\ Peer(Server) = Client
      /\ \A x \in Ends : x = Client \/ x = Server
  BY ConnectionAssumption DEF ConnectionAssumption, Ends, Peer
<1>3. /\ legacy /\ sent[Server] = PreMsgs /\ peerAck[Server] = 0
      /\ buffer[Server] = <<>> /\ received[Server] = 0 /\ unpacker[Server] = <<>>
  BY <1>1, <1>2 DEF IInv, Accepted
<1>4. PreMsgs \in SeqNumber /\ PreMsgs % NET_MAX_SEQUENCE = PreMsgs /\ PreMsgs \in Nat
  <2> DEFINE m == NET_MAX_SEQUENCE
             n == PreMsgs
  <2>1. /\ m \in Nat /\ n \in Nat /\ BufferChunks \in Nat /\ n + BufferChunks < m \div 2 /\ m > 1
    BY ConnectionAssumption DEF ConnectionAssumption
  <2>2. m \div 2 \in Nat /\ m \div 2 <= m
    BY <2>1
  <2>3. n \in 0 .. (m - 1)
    BY <2>1, <2>2
  <2> HIDE DEF m, n
  <2>4. n % m = n
    BY <2>1, <2>3
  <2> QED BY <2>1, <2>3, <2>4 DEF m, n, SeqNumber
<1>5. /\ state' \in [Ends -> {"OFFLINE", "ONLINE", "ERROR"}]
      /\ state'[Server] = "ONLINE" /\ state'[Client] = state[Client]
      /\ unknownSeq' \in [Ends -> BOOLEAN]
      /\ unknownSeq'[Server] = TRUE /\ unknownSeq'[Client] = unknownSeq[Client]
      /\ sequence' \in [Ends -> SeqNumber]
      /\ sequence'[Server] = PreMsgs /\ sequence'[Client] = sequence[Client]
  BY <1>1, <1>2, <1>4 DEF IInv, TypeOK
<1>6. TypeOK'
  BY <1>1, <1>5 DEF IInv, TypeOK
<1>7. AllNumbered'
  <2>1. \A x \in Ends : Numbered(x)' = Numbered(x)
    BY <1>1 DEF Numbered
  <2>2. AllNumbered
    BY DEF IInv
  <2>3. \A x \in Ends : state'[x] = "ONLINE" => sequence'[x] = sent[x] % NET_MAX_SEQUENCE
    BY <1>2, <1>3, <1>4, <1>5, <2>2 DEF AllNumbered
  <2> QED BY <1>1, <2>1, <2>2, <2>3 DEF AllNumbered
<1>8. \A x \in Ends : UpTo(x)' = UpTo(x) /\ Settled(x)' = Settled(x) /\ Dropped(x)' = Dropped(x)
  BY <1>1 DEF UpTo, Settled, Dropped
<1>9. Counted' /\ Recent' /\ InOrder'
  BY <1>1, <1>8 DEF IInv, Counted, Recent, InOrder
<1>10. Dropped(Server) = PreMsgs /\ Dropped(Server) <= Settled(Server)
  <2>1. Dropped(Server) = PreMsgs
    BY <1>3, <1>4 DEF Dropped
  <2>2. p.count <= UpTo(Client) /\ p.count \in Nat
    BY <1>2 DEF IInv, Counted, TypeOK, Packet
  <2>3. UpTo(Client) \in Nat
    BY <1>2, UpToType DEF IInv
  <2> QED BY <1>1, <1>2, <1>4, <2>1, <2>2, <2>3 DEF Settled
<1>11. CopyKept'
  <2>1. CopyKept
    BY DEF IInv
  <2> QED BY <1>1, <1>2, <1>3, <1>5, <1>8, <1>10, <2>1 DEF CopyKept
<1>12. PeerAckMatchesBuffer'
  <2>1. PeerAckMatchesBuffer
    BY DEF IInv
  <2>2. peerAck[Server] = Dropped(Server) % NET_MAX_SEQUENCE \/ peerAck[Server] < PreMsgs
    BY <1>3, <1>4, <1>10
  <2> QED BY <1>1, <1>2, <1>3, <1>5, <1>8, <1>10, <2>1, <2>2 DEF PeerAckMatchesBuffer
<1>13. Accepted'
  <2>1. Accepted
    BY DEF IInv
  <2> QED BY <1>1, <1>2, <1>3, <1>5, <2>1 DEF Accepted
<1> QED BY <1>6, <1>7, <1>9, <1>11, <1>12, <1>13 DEF IInv

-----------------------------------------------------------------------------
(* The theorems *)

\* Every step of either end, of the handshake and of the network keeps the
\* invariant.
THEOREM NextIInv == IInv /\ [Next]_vars => IInv'
<1> SUFFICES ASSUME IInv, [Next]_vars PROVE IInv'
  OBVIOUS
<1>1. CASE UNCHANGED vars
  BY <1>1, UnchangedIInv
<1>2. CASE Next
  <2>1. CASE SendMsgs
    BY <2>1, SendMsgsIInv
  <2>2. CASE \E p \in net[Server] : Accept(p)
    BY <2>2, AcceptIInv
  <2>3. ASSUME NEW e \in Ends, QueueVital(e) PROVE IInv'
    BY <2>3, QueueVitalIInv
  <2>4. ASSUME NEW e \in Ends, QueueInError(e) \/ TimeOut(e) PROVE IInv'
    BY <2>4, GivenUpIInv
  <2>5. ASSUME NEW e \in Ends, SendPlain(e) \/ Flush(e) \/ Update(e) PROVE IInv'
    BY <2>5, SendPlainIInv, FlushIInv, UpdateIInv
  <2>6. ASSUME NEW e \in Ends, Lose(e) PROVE IInv'
    BY <2>6, LoseIInv
  <2>7. ASSUME NEW e \in Ends, \E p \in net[e] : Feed(e, p) PROVE IInv'
    BY <2>7, FeedIInv
  <2>8. ASSUME NEW e \in Ends, FetchChunk(e) PROVE IInv'
    BY <2>8, FetchChunkIInv
  <2> QED BY <1>2, <2>1, <2>2, <2>3, <2>4, <2>5, <2>6, <2>7, <2>8 DEF Next
<1> QED BY <1>1, <1>2

\* The strengthening of the safety properties holds in every reachable state.
THEOREM Invariance == Spec => []IInv
BY InitIInv, NextIInv, PTL DEF Spec

\* Every variable keeps its type, and m_Buffer never exceeds its capacity.
THEOREM TypeCorrect == Spec => []TypeOK
<1>1. IInv => TypeOK
  BY DEF IInv
<1> QED BY <1>1, Invariance, PTL

\* Vital chunks are handed over in the order they were queued, each once,
\* although the numbers on the wire wrap: what Recv works on is less than a
\* circle away from the chunk it expects.  They begin with the first one, or,
\* from a legacy client, with one that m_Buffer still held when it arrived.
THEOREM ChunksInOrder == Spec => []InOrder
<1>1. IInv => InOrder
  BY DEF IInv
<1> QED BY <1>1, Invariance, PTL

\* No acknowledgement, however late or often it arrives, makes AckChunks drop
\* the copy of a chunk that the peer still waits for; a legacy server's
\* messages without a copy had all arrived when it made its connection.
THEOREM CopiesKept == Spec => []CopyKept
<1>1. IInv => CopyKept
  BY DEF IInv
<1> QED BY <1>1, Invariance, PTL

\* m_PeerAck stands for exactly the chunks that have left m_Buffer, except for
\* a legacy server that has not been told of all it sent without a connection.
THEOREM PeerAckMatches == Spec => []PeerAckMatchesBuffer
<1>1. IInv => PeerAckMatchesBuffer
  BY DEF IInv
<1> QED BY <1>1, Invariance, PTL

-----------------------------------------------------------------------------
(* The connection implements the stream of vital chunks *)

\* The stream begins with nothing sent but a legacy server's first messages.
LEMMA InitStream == Init => Stream!Init
<1> SUFFICES ASSUME Init PROVE Stream!Init
  OBVIOUS
<1>1. PreMsgs \in Nat /\ Client # Server
  BY ConnectionAssumption DEF ConnectionAssumption
<1>2. sent \in [Ends -> Nat] /\ sent[Client] = 0 /\ (legacy \/ sent[Server] = 0)
  BY <1>1 DEF Init, Ends
<1> QED BY <1>2 DEF Init, Stream!Init, Ends, Stream!Ends

\* QueueVital queues, FetchChunk begins, hands over or ignores, the rest is
\* hidden.
LEMMA NextStream ==
    ASSUME IInv, [Next]_vars
    PROVE  [Stream!Next]_<<legacy, sent, first, received, latest, lossy>>
<1> DEFINE streamVars == <<legacy, sent, first, received, latest, lossy>>
<1> USE DEF Stream!Ends, Ends, Stream!Peer, Peer
<1>1. CASE UNCHANGED vars
  BY <1>1 DEF vars, ghostVars
<1>2. ASSUME NEW e \in Ends, QueueVital(e) PROVE Stream!Next
  <2>1. Stream!Queue(e)
    <3>1. /\ sent' = [sent EXCEPT ![e] = sent[e] + 1]
          /\ UNCHANGED <<legacy, first, received, latest>>
          /\ lossy' = lossy \/ lossy' = [lossy EXCEPT ![e] = TRUE]
      BY <1>2 DEF QueueVital
    <3> QED BY <3>1 DEF Stream!Queue
  <2> QED BY <2>1 DEF Stream!Next
<1>3. ASSUME NEW e \in Ends, FetchChunk(e) PROVE Stream!Next \/ UNCHANGED streamVars
  <2> DEFINE c == Head(unpacker[e])
  <2>1. c.data \in 1 .. sent[Peer(e)] /\ UNCHANGED <<legacy, sent, lossy>>
    BY <1>3, HeadNumbered DEF FetchChunk
  <2>2. CASE unknownSeq[e]
    <3>1. /\ legacy /\ e = Server /\ received[e] = 0
          /\ first' = [first EXCEPT ![e] = c.data]
          /\ received' = [received EXCEPT ![e] = 1]
          /\ latest' = [latest EXCEPT ![e] = c.data]
      BY <1>3, <2>2, FirstTaken
    <3> HIDE DEF c
    <3>2. Stream!Begin(e)
      BY <2>1, <3>1 DEF Stream!Begin
    <3> QED BY <3>2 DEF Stream!Next
  <2>3. CASE ~unknownSeq[e] /\ IsNext(e, c.seq)
    <3>1. /\ legacy /\ e = Server => received[e] > 0
          /\ first' = first
          /\ received' = [received EXCEPT ![e] = received[e] + 1]
          /\ latest' = [latest EXCEPT ![e] = c.data]
          /\ ~lossy[Peer(e)] => c.data = UpTo(e) + 1
      BY <1>3, <2>3, NextTaken
    <3>2. UpTo(e) + 1 = first[e] + received[e]
      BY DEF IInv, TypeOK, UpTo
    <3> HIDE DEF c
    <3>3. Stream!HandOver(e)
      BY <2>1, <3>1, <3>2 DEF Stream!HandOver
    <3> QED BY <3>3 DEF Stream!Next
  <2>4. CASE ~IsNext(e, c.seq)
    BY <1>3, <2>1, <2>4 DEF FetchChunk
  <2> QED BY <2>2, <2>3, <2>4
<1>4. ASSUME NEW e \in Ends, NEW p \in net[e], Feed(e, p) PROVE UNCHANGED streamVars
  BY <1>4 DEF Feed, ghostVars
<1>5. ASSUME NEW e \in Ends,
             QueueInError(e) \/ SendPlain(e) \/ Flush(e) \/ Lose(e) \/ TimeOut(e) \/ Update(e)
      PROVE  UNCHANGED streamVars
  BY <1>5 DEF QueueInError, SendPlain, Flush, Lose, TimeOut, Update, UpdateWith, ghostVars
<1>6. ASSUME SendMsgs \/ \E p \in net[Server] : Accept(p) PROVE UNCHANGED streamVars
  BY <1>6 DEF SendMsgs, Accept, ghostVars
<1> QED BY <1>1, <1>2, <1>3, <1>4, <1>5, <1>6 DEF Next

\* From a sender that never ran out of resend buffer, the application gets
\* the stream VitalStream describes, also when the server accepts a legacy
\* client in the middle of it: the refinement adds nothing and hides
\* the packets, the numbers on the wire and the copies.
THEOREM ImplementsStream == Spec => StreamSpec
<1>1. Init => Stream!Init
  BY InitStream
<1>2. IInv /\ [Next]_vars => [Stream!Next]_(Stream!streamVars)
  BY NextStream DEF Stream!streamVars
<1> QED BY <1>1, <1>2, Invariance, PTL DEF Spec, StreamSpec, Stream!Spec
=============================================================================
