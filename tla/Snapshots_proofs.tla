-------------------------- MODULE Snapshots_proofs --------------------------
(***************************************************************************)
(* What the client stores, shows and can unpack is right, two undisturbed  *)
(* rounds bring it back in step with the server, and Snapshots implements  *)
(* SnapshotView: for any number of maps, ticks, packets and repetitions.   *)
(***************************************************************************)
EXTENDS Snapshots, SequenceTheorems, FiniteSetTheorems, TLAPS

\* The tick of the snapshot a side stored last
LastTick(s) == IF s = <<>> THEN Null ELSE s[Len(s)].tick

\* All the client holds, and all on its way to it, is of one map k: the one it
\* plays, or an earlier one.
OneMap(k) ==
    /\ k <= map /\ (k = map <=> Entered)
    /\ \A i \in 1 .. Len(cStore) : cStore[i].snap = k
    /\ \A m \in down : m.snap = k /\ (m.base # Null => m.from = k)

Contents ==
    /\ \E k \in Nat : OneMap(k)
    /\ \A i \in 1 .. Len(sStore) : sStore[i].snap = map

\* The client knows what it stored last from the acknowledgement, or the packet
\* that misses its base is later.
Clock ==
    /\ ackTick \in {Null, LastTick(cStore)}
    /\ LastTick(cStore) <= recvTick
    /\ ackTick = Null => LastTick(cStore) < recvTick
    /\ Entered => recvTick <= tick /\ \A m \in down : m.tick <= tick

Pointers ==
    /\ PointersValid
    /\ prev = Null <=> received <= 1
    /\ received >= 1 => cStore # <<>>

\* Inputs are received by their map, and the overtaken ones are the oldest.
Inputs ==
    /\ \A i \in 1 .. Len(up) : up[i].map <= map /\ (up[i].map = map => Entered)
    /\ \A i, j \in 1 .. Len(up) : i < j /\ up[j].overtaken => up[i].overtaken
    /\ ~Entered => lastAcked = Null \/ late = "foreign"

\* Of two snapshots in flight the later one does not have the older base.
BasesGrow ==
    \A m, n \in down :
        m.tick < n.tick /\ n.late = "no" /\ n.base # Null => m.base <= n.base

\* A tick that stays in the client's storage whatever in flight is unpacked
Safe(t) == t \in StoredTicks(cStore) /\ \A m \in down : m.base <= t

\* The acknowledgements on their way to the server, those of the map played
Own(i) == up[i].map = map
AcksInFlight ==
    /\ \A i \in 1 .. Len(up) : Own(i) => up[i].ack <= LastTick(cStore)
    /\ \A i \in 1 .. Len(up) :
          Own(i) /\ ~up[i].overtaken /\ up[i].ack # Null
              => Safe(up[i].ack) /\ lastAcked <= up[i].ack
    /\ \A i, j \in 1 .. Len(up) :
          i < j /\ Own(i) /\ Own(j) /\ up[j].ack # Null => up[i].ack <= up[j].ack

\* Those the server took or will take, unless one was meant for another map
Acked ==
    Entered /\ late # "foreign" =>
        /\ late = "no" /\ lastAcked # Null => Safe(lastAcked)
        /\ lastAcked <= LastTick(cStore)
        /\ \A m \in down : m.base <= LastTick(cStore)
        /\ AcksInFlight

\* The server has the snapshot of tick t, or purged it for its age.
Kept(s, t) == t \in StoredTicks(s) \/ t < LastTick(s) - KeepTicks

\* All the client stores, or acknowledges, the server made on this map.
Served ==
    /\ LastTick(sStore) <= tick
    /\ Entered =>
        /\ \A t \in StoredTicks(cStore) : Kept(sStore, t)
        /\ \A m \in down : Kept(sStore, m.tick)
        /\ late # "foreign" /\ lastAcked # Null => Kept(sStore, lastAcked)
        /\ \A i \in 1 .. Len(up) : Own(i) /\ up[i].ack # Null => Kept(sStore, up[i].ack)

\* The snapshot of a round: its packets are in flight or put together, unless
\* it was unpacked, or its base is missing.
Got == IF recvTick = LastTick(sStore) THEN parts ELSE {}
Arriving(n, b) ==
    /\ recvTick <= LastTick(sStore)
    /\ \A m \in down : m.tick = LastTick(sStore) /\ m.parts = n /\ m.base = b /\ m.part < n
    /\ calm > 0 => b = Null \/ b \in StoredTicks(cStore)
    /\ \/ ackTick = LastTick(sStore)
       \/ ackTick = Null /\ b # Null /\ b \notin StoredTicks(cStore)
       \/ /\ ackTick < LastTick(sStore)
          /\ Got \subseteq 0 .. n - 1 /\ Got # 0 .. n - 1
          /\ \A p \in 0 .. n - 1 : p \in Got \/ \E m \in down : m.part = p

Rounds ==
    /\ join # "playing" => round = "off" /\ calm = 0
    /\ round # "off" \/ calm = 2 => sStore # <<>>
    /\ round = "down" => \E n \in Nat \ {0}, b \in Ticks \cup {Null} : Arriving(n, b)
    /\ round = "up" \/ (round = "off" /\ calm > 0) =>
          down = {} /\ \A i \in 1 .. Len(up) : up[i].ack = ackTick
    /\ round = "up" /\ calm > 0 => ackTick = LastTick(sStore)
    /\ round = "off" /\ calm > 0 => lastAcked = ackTick
    /\ round = "off" /\ calm = 2 => ackTick = LastTick(sStore)

IInv == /\ TypeOK
        /\ Contents
        /\ Clock
        /\ Pointers
        /\ Inputs
        /\ BaseKept
        /\ BasesGrow
        /\ Acked
        /\ Served
        /\ Rounds

Holder == [tick : Ticks, snap : Content]

---------------------------------------------------------------------------
(* The storage.                                                            *)

\* PurgeUntil drops a prefix of the list, the longest of older holders.
LEMMA Purged ==
    ASSUME NEW s \in Seq(Holder), NEW t \in Int
    PROVE  \E k \in 0 .. Len(s) :
              /\ PurgeUntil(s, t) \in Seq(Holder)
              /\ Len(PurgeUntil(s, t)) = Len(s) - k
              /\ \A i \in 1 .. Len(s) - k : PurgeUntil(s, t)[i] = s[i + k]
              /\ \A i \in 1 .. k : s[i].tick < t
<1> DEFINE old == {i \in 1 .. Len(s) : \A j \in 1 .. i : s[j].tick < t}
           k == Cardinality(old)
<1>0. Len(s) \in Nat
  BY LenProperties
<1>1. IsFiniteSet(1 .. Len(s)) /\ Cardinality(1 .. Len(s)) = Len(s)
  BY <1>0, FS_Interval
<1>2. old \in SUBSET (1 .. Len(s))
  OBVIOUS
<1>3. IsFiniteSet(old) /\ k \in Nat /\ k <= Len(s)
  BY <1>0, <1>1, <1>2, FS_Subset, FS_CardinalityType
<1>4. ASSUME NEW i \in old
      PROVE  i <= k
  <2>1. 1 .. i \in SUBSET old
    OBVIOUS
  <2>2. i \in Nat /\ Cardinality(1 .. i) = i
    BY <1>0, <1>2, FS_Interval
  <2> HIDE DEF old
  <2>3. Cardinality(1 .. i) <= Cardinality(old)
    BY <1>3, <2>1, FS_Subset
  <2> QED
    BY <2>2, <2>3
<1>5. old = 1 .. k
  <2>1. IsFiniteSet(1 .. k) /\ Cardinality(1 .. k) = k
    BY <1>3, FS_Interval
  <2>2. old \in SUBSET (1 .. k)
    BY <1>0, <1>2, <1>3, <1>4
  <2> HIDE DEF old
  <2> QED
    BY <2>1, <2>2, FS_Subset
<1>6. \A i \in 1 .. k : s[i].tick < t
  BY <1>5
<1>7. PurgeUntil(s, t) = SubSeq(s, k + 1, Len(s))
  BY DEF PurgeUntil
<1> HIDE DEF old, k
<1>8. \A i \in k + 1 .. Len(s) : s[i] \in Holder
  BY <1>3
<1> DEFINE p == SubSeq(s, k + 1, Len(s))
<1>9. /\ p \in Seq(Holder)
      /\ Len(p) = Len(s) - k
      /\ \A i \in 1 .. Len(s) - k : p[i] = s[i + k]
  <2>1. k + 1 \in Int /\ Len(s) \in Int /\ Len(s) - (k + 1) + 1 = Len(s) - k
    BY <1>0, <1>3
  <2>2. /\ p \in Seq(Holder)
        /\ Len(p) = IF k + 1 <= Len(s) THEN Len(s) - (k + 1) + 1 ELSE 0
        /\ \A i \in 1 .. Len(s) - (k + 1) + 1 : p[i] = s[(k + 1) + i - 1]
    BY <1>8, <2>1, SubSeqProperties
  <2> HIDE DEF p
  <2>4. Len(p) = Len(s) - k
    BY <1>0, <1>3, <2>2
  <2>3. \A i \in 1 .. Len(s) - k : (k + 1) + i - 1 = i + k
    BY <1>0, <1>3
  <2> QED
    BY <2>1, <2>2, <2>3, <2>4
<1>10. PurgeUntil(s, t) = p
  BY <1>7
<1>11. k \in 0 .. Len(s)
  BY <1>0, <1>3
<1> HIDE DEF p
<1> QED
  BY <1>6, <1>9, <1>10, <1>11

\* What a storage holds after it was purged and a snapshot was added.
Renewed(r, s, t, x, c) ==
    /\ r \in Seq(Holder) /\ r # <<>> /\ Len(r) \in Nat \ {0} /\ LastTick(r) = x
    /\ r[Len(r)].tick = x /\ r[Len(r)].snap = c
    /\ \E k \in 0 .. Len(s) :
          /\ Len(r) = Len(s) - k + 1
          /\ \A i \in 1 .. Len(r) - 1 : i + k \in 1 .. Len(s) /\ r[i] = s[i + k]
          /\ \A i \in 1 .. k : s[i].tick < t
    /\ x \in StoredTicks(r)
    /\ \A u \in StoredTicks(s) : t <= u => u \in StoredTicks(r)
    /\ \A u \in StoredTicks(r) : u = x \/ u \in StoredTicks(s)

LEMMA PurgedAndAdded ==
    ASSUME NEW s \in Seq(Holder), NEW t \in Int, NEW x \in Ticks, NEW c \in Content
    PROVE  Renewed(Add(PurgeUntil(s, t), x, c), s, t, x, c)
<1> DEFINE p == PurgeUntil(s, t)
           r == Add(p, x, c)
           h == [tick |-> x, snap |-> c]
<1>1. PICK k \in 0 .. Len(s) :
         /\ p \in Seq(Holder)
         /\ Len(p) = Len(s) - k
         /\ \A i \in 1 .. Len(s) - k : p[i] = s[i + k]
         /\ \A i \in 1 .. k : s[i].tick < t
  BY Purged
<1>2. h \in Holder /\ h.tick = x /\ h.snap = c
  BY DEF Holder
<1>3. r = Append(p, h)
  BY DEF Add
<1> HIDE DEF p, h, r
<1>4. /\ r \in Seq(Holder) /\ r # <<>> /\ Len(r) = Len(p) + 1
      /\ \A i \in 1 .. Len(p) : r[i] = p[i]
      /\ r[Len(p) + 1] = h
  <2>1. /\ Append(p, h) \in Seq(Holder) /\ Append(p, h) # <<>>
        /\ Len(Append(p, h)) = Len(p) + 1
        /\ \A i \in 1 .. Len(p) : Append(p, h)[i] = p[i]
        /\ Append(p, h)[Len(p) + 1] = h
    BY <1>1, <1>2, AppendProperties
  <2> QED
    BY <1>3, <2>1
<1>5. Len(s) \in Nat /\ k \in Nat /\ Len(p) \in Nat /\ Len(r) \in Nat \ {0} /\ Len(r) - 1 = Len(s) - k
  BY <1>1, <1>4
<1>6. \A i \in 1 .. Len(r) - 1 : i + k \in 1 .. Len(s) /\ r[i] = s[i + k]
  BY <1>1, <1>4, <1>5
<1>7. x \in StoredTicks(r)
  BY <1>2, <1>4, <1>5 DEF StoredTicks
<1>8. ASSUME NEW u \in StoredTicks(s), t <= u
      PROVE  u \in StoredTicks(r)
  <2>1. PICK i \in 1 .. Len(s) : u = s[i].tick
    BY DEF StoredTicks
  <2>2. s[i] \in Holder
    BY <2>1, ElementOfSeq
  <2>5. u \in Int
    BY <2>1, <2>2 DEF Holder, Ticks
  <2>3. i > k
    BY <1>1, <1>5, <1>8, <2>1, <2>5
  <2>4. i - k \in 1 .. Len(r) - 1 /\ (i - k) + k = i
    BY <1>5, <2>1, <2>3
  <2>6. r[i - k] = s[i] /\ i - k \in 1 .. Len(r)
    BY <1>5, <1>6, <2>4
  <2> QED
    BY <2>1, <2>6 DEF StoredTicks
<1>9. ASSUME NEW u \in StoredTicks(r)
      PROVE  u = x \/ u \in StoredTicks(s)
  <2>1. PICK i \in 1 .. Len(r) : u = r[i].tick
    BY DEF StoredTicks
  <2>2. CASE i = Len(r)
    BY <1>2, <1>4, <1>5, <2>1, <2>2
  <2>3. CASE i # Len(r)
    <3>1. i \in 1 .. Len(r) - 1 /\ i + k \in 1 .. Len(s)
      BY <1>5, <2>1, <2>3
    <3> QED
      BY <1>6, <2>1, <3>1 DEF StoredTicks
  <2> QED
    BY <2>2, <2>3
<1>10. r[Len(r)].tick = x /\ r[Len(r)].snap = c /\ LastTick(r) = x
  BY <1>2, <1>4, <1>5 DEF LastTick
<1>11. Len(r) = Len(s) - k + 1
  BY <1>5
<1>12. Renewed(r, s, t, x, c)
  BY <1>1, <1>4, <1>5, <1>6, <1>7, <1>8, <1>9, <1>10, <1>11 DEF Renewed
<1> QED
  BY <1>12 DEF r, p

LEMMA HolderFound ==
    ASSUME NEW s, NEW t \in StoredTicks(s)
    PROVE  /\ \E i \in 1 .. Len(s) : HolderOf(s, t) = s[i]
           /\ HolderOf(s, t).tick = t
<1>1. \E h \in {s[i] : i \in 1 .. Len(s)} : h.tick = t
  BY DEF StoredTicks
<1> QED
  BY <1>1 DEF HolderOf

\* The tick stored last is one of those stored, and the latest if the list is in
\* the order of time.
LEMMA LastTickStored ==
    ASSUME NEW s \in Seq(Holder)
    PROVE  /\ LastTick(s) \in Ticks \cup {Null}
           /\ LastTick(s) = Null <=> s = <<>>
           /\ s # <<>> => Len(s) \in 1 .. Len(s) /\ LastTick(s) = s[Len(s)].tick
           /\ LastTick(s) # Null => LastTick(s) \in StoredTicks(s)
           /\ StoredTicks(s) \in SUBSET Ticks
<1>1. s # <<>> => Len(s) \in 1 .. Len(s) /\ s[Len(s)] \in Holder
  BY EmptySeq
<1>2. \A i \in 1 .. Len(s) : s[i] \in Holder
  OBVIOUS
<1>3. \A h \in Holder : h.tick \in Ticks /\ h.tick # Null
  BY DEF Holder, Ticks, Null, MIN_TICK
<1> QED
  BY <1>1, <1>2, <1>3 DEF LastTick, StoredTicks

\* The list of inputs without one of them
LEMMA RemovedAt ==
    ASSUME NEW S, NEW u \in Seq(S), NEW i \in 1 .. Len(u)
    PROVE  LET q == SubSeq(u, 1, i - 1) \o SubSeq(u, i + 1, Len(u))
           IN  /\ q \in Seq(S)
               /\ Len(q) = Len(u) - 1
               /\ \A j \in 1 .. Len(q) : q[j] = IF j < i THEN u[j] ELSE u[j + 1]
<1> DEFINE a == SubSeq(u, 1, i - 1)
           b == SubSeq(u, i + 1, Len(u))
           q == a \o b
<1>0. Len(u) \in Nat /\ i \in Nat /\ i >= 1 /\ i <= Len(u)
  OBVIOUS
<1>1. /\ a \in Seq(S) /\ Len(a) = i - 1
      /\ \A j \in 1 .. i - 1 : a[j] = u[j]
  <2>1. \A j \in 1 .. i - 1 : u[j] \in S
    BY <1>0
  <2>2. /\ a \in Seq(S)
        /\ Len(a) = IF 1 <= i - 1 THEN (i - 1) - 1 + 1 ELSE 0
        /\ \A j \in 1 .. (i - 1) - 1 + 1 : a[j] = u[1 + j - 1]
    BY <1>0, <2>1, SubSeqProperties
  <2> HIDE DEF a
  <2> QED
    BY <1>0, <2>2
<1>2. /\ b \in Seq(S) /\ Len(b) = Len(u) - i
      /\ \A j \in 1 .. Len(u) - i : b[j] = u[i + j]
  <2>1. \A j \in i + 1 .. Len(u) : u[j] \in S
    BY <1>0
  <2>2. /\ b \in Seq(S)
        /\ Len(b) = IF i + 1 <= Len(u) THEN Len(u) - (i + 1) + 1 ELSE 0
        /\ \A j \in 1 .. Len(u) - (i + 1) + 1 : b[j] = u[(i + 1) + j - 1]
    BY <1>0, <2>1, SubSeqProperties
  <2> HIDE DEF b
  <2> QED
    BY <1>0, <2>2
<1> HIDE DEF a, b
<1>4. /\ q \in Seq(S) /\ Len(q) = Len(a) + Len(b)
      /\ \A j \in 1 .. Len(a) + Len(b) : q[j] = IF j <= Len(a) THEN a[j] ELSE b[j - Len(a)]
  BY <1>1, <1>2, ConcatProperties
<1> HIDE DEF q
<1>5. Len(q) = Len(u) - 1
  BY <1>0, <1>1, <1>2, <1>4
<1>6. ASSUME NEW j \in 1 .. Len(q)
      PROVE  q[j] = IF j < i THEN u[j] ELSE u[j + 1]
  <2>1. q[j] = IF j <= Len(a) THEN a[j] ELSE b[j - Len(a)]
    BY <1>4
  <2>2. CASE j < i
    BY <1>0, <1>1, <1>5, <2>1, <2>2
  <2>3. CASE ~(j < i)
    <3>1. j - Len(a) \in 1 .. Len(u) - i /\ i + (j - Len(a)) = j + 1 /\ ~(j <= Len(a))
      BY <1>0, <1>1, <1>5, <2>3
    <3> QED
      BY <1>2, <2>1, <2>3, <3>1
  <2> QED
    BY <2>2, <2>3
<1> QED
  BY <1>4, <1>5, <1>6 DEF q, a, b

\* What is left in flight of the inputs: f says which of them each one was, and
\* those before input i are overtaken.
Left(u, f, i) ==
    /\ f \in [1 .. Len(u) -> 1 .. Len(up)]
    /\ \A j, l \in 1 .. Len(u) : j < l => f[j] < f[l]
    /\ \A j \in 1 .. Len(u) :
          /\ u[j].ack = up[f[j]].ack /\ u[j].map = up[f[j]].map
          /\ u[j].overtaken = (up[f[j]].overtaken \/ f[j] < i)

LEMMA InputsLost ==
    ASSUME up \in Seq(Input), NEW i \in 1 .. Len(up)
    PROVE  LET u == SubSeq(up, 1, i - 1) \o SubSeq(up, i + 1, Len(up))
           IN  u \in Seq(Input) /\ \E f : Left(u, f, 1)
<1> DEFINE u == SubSeq(up, 1, i - 1) \o SubSeq(up, i + 1, Len(up))
           f == [j \in 1 .. Len(u) |-> IF j < i THEN j ELSE j + 1]
<1>1. /\ u \in Seq(Input) /\ Len(u) = Len(up) - 1
      /\ \A j \in 1 .. Len(u) : u[j] = IF j < i THEN up[j] ELSE up[j + 1]
  BY RemovedAt
<1> HIDE DEF u
<1>2. Len(up) \in Nat
  OBVIOUS
<1>3. f \in [1 .. Len(u) -> 1 .. Len(up)]
  BY <1>1, <1>2
<1>4. \A j, l \in 1 .. Len(u) : j < l => f[j] < f[l]
  BY <1>1, <1>2
<1>5. ASSUME NEW j \in 1 .. Len(u)
      PROVE  /\ u[j] = up[f[j]] /\ f[j] \in 1 .. Len(up)
             /\ up[f[j]].overtaken \in BOOLEAN
  <2>1. u[j] = up[f[j]] /\ f[j] \in 1 .. Len(up)
    BY <1>1, <1>3
  <2>2. up[f[j]] \in Input
    BY <2>1, ElementOfSeq
  <2> QED
    BY <2>1, <2>2 DEF Input
<1> HIDE DEF f
<1>6. Left(u, f, 1)
  BY <1>3, <1>4, <1>5 DEF Left
<1> QED
  BY <1>1, <1>6 DEF u

LEMMA InputsLeft ==
    ASSUME up \in Seq(Input), NEW i \in 1 .. Len(up), NEW again \in BOOLEAN
    PROVE  LET u == InputsAfter(i, again)
           IN  u \in Seq(Input) /\ \E f : Left(u, f, i)
<1> DEFINE rest == [j \in 1 .. Len(up) |->
                      IF j < i THEN [up[j] EXCEPT !.overtaken = TRUE] ELSE up[j]]
           gone == SubSeq(rest, 1, i - 1) \o SubSeq(rest, i + 1, Len(up))
<1>1. Len(up) \in Nat /\ \A j \in 1 .. Len(up) : up[j] \in Input
  BY LenProperties, ElementOfSeq
<1>2. ASSUME NEW j \in 1 .. Len(up)
      PROVE  /\ rest[j] \in Input
             /\ rest[j].ack = up[j].ack /\ rest[j].map = up[j].map
             /\ rest[j].overtaken = (up[j].overtaken \/ j < i)
  <2>1. up[j] \in Input
    BY <1>1
  <2>2. rest[j] = IF j < i THEN [up[j] EXCEPT !.overtaken = TRUE] ELSE up[j]
    OBVIOUS
  <2> HIDE DEF rest
  <2>3. CASE j < i
    BY <2>1, <2>2, <2>3 DEF Input
  <2>4. CASE ~(j < i)
    BY <2>1, <2>2, <2>4 DEF Input
  <2> QED
    BY <2>3, <2>4
<1>3. rest \in Seq(Input) /\ Len(rest) = Len(up)
  <2>1. rest \in [1 .. Len(up) -> Input]
    BY <1>2
  <2> HIDE DEF rest
  <2> QED
    BY <1>1, <2>1, SeqDef, LenProperties
<1> HIDE DEF rest
<1>4. CASE InputsAfter(i, again) = rest
  <2> DEFINE f == [j \in 1 .. Len(up) |-> j]
  <2>1. Left(rest, f, i)
    BY <1>2, <1>3 DEF Left
  <2> QED
    BY <1>3, <1>4, <2>1
<1>5. CASE InputsAfter(i, again) = gone
  <2> DEFINE f == [j \in 1 .. Len(gone) |-> IF j < i THEN j ELSE j + 1]
  <2>1. /\ gone \in Seq(Input) /\ Len(gone) = Len(up) - 1
        /\ \A j \in 1 .. Len(gone) : gone[j] = IF j < i THEN rest[j] ELSE rest[j + 1]
    <3>1. gone = SubSeq(rest, 1, i - 1) \o SubSeq(rest, i + 1, Len(rest)) /\ i \in 1 .. Len(rest)
      BY <1>3
    <3> HIDE DEF gone
    <3> QED
      BY <1>3, <3>1, RemovedAt
  <2> HIDE DEF gone
  <2>2. f \in [1 .. Len(gone) -> 1 .. Len(up)]
    BY <1>1, <2>1
  <2>3. \A j, l \in 1 .. Len(gone) : j < l => f[j] < f[l]
    BY <1>1, <2>1
  <2>4. \A j \in 1 .. Len(gone) : gone[j] = rest[f[j]] /\ f[j] \in 1 .. Len(up)
    BY <1>1, <2>1, <2>2
  <2> HIDE DEF f
  <2>6. ASSUME NEW j \in 1 .. Len(gone)
        PROVE  /\ gone[j].ack = up[f[j]].ack /\ gone[j].map = up[f[j]].map
               /\ gone[j].overtaken = (up[f[j]].overtaken \/ f[j] < i)
    BY <1>2, <2>4
  <2>5. Left(gone, f, i)
    BY <2>2, <2>3, <2>6 DEF Left
  <2> QED
    BY <1>5, <2>1, <2>5
<1>6. InputsAfter(i, again) \in {rest, gone}
  BY DEF InputsAfter, rest
<1> QED
  BY <1>4, <1>5, <1>6

\* The input of the client: the last in flight, or lost for want of room.
LEMMA InputSent ==
    ASSUME up \in Seq(Input), NEW ack \in Ticks \cup {Null}, map \in Maps, Send(ack)
    PROVE  /\ up' \in Seq(Input)
           /\ \A j \in 1 .. Len(up) : j \in 1 .. Len(up') /\ up'[j] = up[j]
           /\ \A j \in 1 .. Len(up') :
                 \/ j \in 1 .. Len(up) /\ up'[j] = up[j]
                 \/ /\ j = Len(up') /\ Len(up') = Len(up) + 1
                    /\ up'[j].ack = ack /\ up'[j].map = ClientMap /\ ~up'[j].overtaken
<1> DEFINE x == [ack |-> ack, map |-> ClientMap, overtaken |-> FALSE]
<1>1. /\ x \in Input
      /\ x.ack = ack /\ x.map = ClientMap /\ ~x.overtaken
  BY DEF Input, ClientMap
<1>2. Len(up) \in Nat
  OBVIOUS
<1>3. CASE up' = Append(up, x)
  <2> HIDE DEF x
  <2>1. /\ Append(up, x) \in Seq(Input)
        /\ Len(Append(up, x)) = Len(up) + 1
        /\ \A i \in 1 .. Len(up) : Append(up, x)[i] = up[i]
        /\ Append(up, x)[Len(up) + 1] = x
    BY <1>1, AppendProperties
  <2> QED
    BY <1>1, <1>2, <1>3, <2>1
<1>4. CASE up' = up
  BY <1>4
<1> QED
  BY <1>3, <1>4 DEF Send

\* The packets of one snapshot
Packets(t, b, f, n) ==
    [tick : {t}, base : {b}, from : {f}, snap : {map},
     part : 0 .. (n - 1), parts : {n}, late : {late}]

LEMMA PacketFields ==
    ASSUME NEW t, NEW b, NEW f, NEW n, NEW m \in Packets(t, b, f, n)
    PROVE  /\ m.tick = t /\ m.base = b /\ m.from = f /\ m.snap = map
           /\ m.part \in 0 .. (n - 1) /\ m.parts = n /\ m.late = late
BY DEF Packets

\* A snapshot is stored and sent in one packet or more; its base is what the
\* client acknowledged, if it is still stored, and its delta starts from there.
LEMMA SnapshotMade ==
    ASSUME TypeOK, NEW t \in Ticks, DoSnapshot(t)
    PROVE  /\ join = "playing"
           /\ sStore' \in Store /\ sStore' # <<>> /\ LastTick(sStore') = t
           /\ \A i \in 1 .. Len(sStore') :
                 \/ sStore'[i].snap = map
                 \/ \E j \in 1 .. Len(sStore) : sStore'[i].snap = sStore[j].snap
           /\ rate' \in {"INIT", "FULL", "RECOVER"}
           /\ \E n \in Nat \ {0}, b \in {Null, lastAcked}, f \in Content \cup {NoMap} :
                 /\ b # Null => \E j \in 1 .. Len(sStore') : f = sStore'[j].snap
                 /\ down' = down \cup Packets(t, b, f, n)
<1> DEFINE store == Add(PurgeUntil(sStore, t - KeepTicks), t, map)
           b == DeltaTick(store)
           f == IF b = Null THEN NoMap ELSE HolderOf(store, b).snap
<1>0. /\ sStore \in Seq(Holder) /\ map \in Content /\ t - KeepTicks \in Int
      /\ rate \in {"INIT", "FULL", "RECOVER"}
  BY SnapshotAssumption DEF TypeOK, Store, Holder, Content, Ticks
<1>1. Renewed(store, sStore, t - KeepTicks, t, map)
  BY <1>0, PurgedAndAdded
<1>2. PICK n \in 1 .. (IF b = Null THEN FullParts ELSE DeltaParts) :
         /\ join = "playing"
         /\ sStore' = store
         /\ rate' \in {rate, "RECOVER"}
         /\ down' = down \cup SnapPackets(store, t, n)
  BY DEF DoSnapshot, SnapshotDue
<1>3. n \in Nat \ {0}
  BY SnapshotAssumption
<1>4. b \in {Null, lastAcked} /\ (b # Null => b \in StoredTicks(store))
  BY DEF DeltaTick
<1>5. SnapPackets(store, t, n) = Packets(t, b, f, n)
  BY DEF SnapPackets, Packets
<1>6. b # Null => \E j \in 1 .. Len(store) : f = store[j].snap
  BY <1>4, HolderFound
<1> HIDE DEF store
<1>7. f \in Content \cup {NoMap}
  <2>1. ASSUME NEW j \in 1 .. Len(store)
        PROVE  store[j].snap \in Content
    <3>1. store[j] \in Holder
      BY <1>1, ElementOfSeq DEF Renewed
    <3> QED
      BY <3>1 DEF Holder
  <2> QED
    BY <1>6, <2>1
<1> HIDE DEF b, f
<1>9. ASSUME NEW i \in 1 .. Len(store)
      PROVE  \/ store[i].snap = map
             \/ \E j \in 1 .. Len(sStore) : store[i].snap = sStore[j].snap
  <2>1. CASE i = Len(store)
    BY <1>1, <2>1 DEF Renewed
  <2>2. CASE i # Len(store)
    <3>1. i \in 1 .. Len(store) - 1
      BY <1>1, <2>2 DEF Renewed
    <3> QED
      BY <1>1, <3>1 DEF Renewed
  <2> QED
    BY <2>1, <2>2
<1>10. store \in Store /\ store # <<>> /\ LastTick(store) = t
  BY <1>1 DEF Renewed, Store, Holder
<1> QED
  BY <1>0, <1>2, <1>3, <1>4, <1>5, <1>6, <1>7, <1>9, <1>10

\* The earliest of the base and of what is shown
LEMMA PurgeTickLeast ==
    ASSUME TypeOK, Pointers, NEW m \in SnapPacket
    PROVE  /\ PurgeTick(m) \in Ticks \cup {Null}
           /\ PurgeTick(m) <= m.base
           /\ prev # Null => PurgeTick(m) <= prev /\ PurgeTick(m) <= cur
           /\ prev = Null => PurgeTick(m) = m.base
<1> DEFINE used == {m.base} \cup ({prev, cur} \ {Null})
           least == IF prev # Null /\ prev < m.base THEN prev ELSE m.base
<1>1. /\ m.base \in Ticks \cup {Null}
      /\ prev \in Ticks \cup {Null} /\ cur \in Ticks \cup {Null}
      /\ prev = Null <=> cur = Null
      /\ prev # Null => prev < cur
  BY DEF TypeOK, SnapPacket, Pointers, PointersValid
<1>2. Ticks \cup {Null} \subseteq Int
  BY DEF Ticks, Null
<1>3. least \in used /\ \A u \in used : least <= u
  BY <1>1, <1>2
<1>4. PurgeTick(m) \in used /\ \A u \in used : PurgeTick(m) <= u
  <2>1. PurgeTick(m) = CHOOSE t \in used : \A u \in used : t <= u
    BY DEF PurgeTick
  <2> HIDE DEF used, least
  <2> QED
    BY <1>3, <2>1
<1> QED
  BY <1>1, <1>4

\* A snapshot that is unpacked: it is stored, what is older than the base and
\* than what is shown is not any more.
LEMMA SnapshotStored ==
    ASSUME TypeOK, Pointers, NEW m \in SnapPacket, Unpack(m)
    PROVE  Renewed(cStore', cStore, PurgeTick(m), m.tick, Unpacked(m))
<1>1. /\ cStore \in Seq(Holder) /\ m.tick \in Ticks
      /\ Unpacked(m) \in Content /\ PurgeTick(m) \in Int
  BY PurgeTickLeast
     DEF TypeOK, Store, Holder, SnapPacket, Unpacked, Content, Ticks, Null
<1>2. cStore' = Add(PurgeUntil(cStore, PurgeTick(m)), m.tick, Unpacked(m))
  BY DEF Unpack
<1> QED
  BY <1>1, <1>2, PurgedAndAdded

---------------------------------------------------------------------------
(* Types.                                                                  *)

LEMMA TickTyped ==
    ASSUME TypeOK, Tick
    PROVE  TypeOK'
<1>1. tick' \in Ticks /\ tick' = tick + 1
  BY DEF TypeOK, Tick, Ticks, MIN_TICK
<1>2. CASE UNCHANGED <<sStore, rate, down, round, calm>>
  BY <1>1, <1>2 DEF TypeOK, Tick, clientVars, Ticks
<1>3. CASE DoSnapshot(tick')
  <2>1. /\ sStore' \in Store
        /\ rate' \in {"INIT", "FULL", "RECOVER"}
        /\ \E n \in Nat \ {0}, b \in {Null, lastAcked}, f \in Content \cup {NoMap} :
              down' = down \cup Packets(tick', b, f, n)
    BY <1>1, <1>3, SnapshotMade
  <2>2. ASSUME NEW n \in Nat \ {0}, NEW b \in {Null, lastAcked}, NEW f \in Content \cup {NoMap},
               NEW m \in Packets(tick', b, f, n)
        PROVE  m \in SnapPacket
    BY <1>1 DEF TypeOK, Packets, SnapPacket
  <2>3. down' \subseteq SnapPacket
    BY <2>1, <2>2 DEF TypeOK
  <2>4. round' \in {"off", "down"} /\ calm' \in 0 .. 2
    BY <1>3 DEF TypeOK, DoSnapshot, Disturbed
  <2> QED
    BY <1>1, <2>1, <2>3, <2>4 DEF TypeOK, Tick, clientVars, Ticks
<1> QED
  BY <1>2, <1>3 DEF Tick

LEMMA InputTyped ==
    ASSUME TypeOK, NEW i \in 1 .. Len(up), ReceiveInput(i) \/ LoseInput(i)
    PROVE  TypeOK'
<1>1. up \in Seq(Input) /\ up[i] \in Input
  BY ElementOfSeq DEF TypeOK
<1>2. CASE ReceiveInput(i)
  <2>1. up' \in Seq(Input)
    BY <1>1, <1>2, InputsLeft DEF ReceiveInput
  <2>2. lastAcked' \in Ticks \cup {Null} /\ rate' \in {"INIT", "FULL", "RECOVER"}
    BY <1>1, <1>2 DEF ReceiveInput, Input, TypeOK
  <2>3. late' \in {"no", "overtaken", "foreign"}
    BY <1>2 DEF ReceiveInput
  <2>4. round' \in {"off", "down", "up"} /\ calm' \in 0 .. 2
    BY <1>2 DEF ReceiveInput, RoundAfter, Undisturbed, TypeOK
  <2> QED
    BY <1>2, <2>1, <2>2, <2>3, <2>4 DEF ReceiveInput, TypeOK, clientVars
<1>3. CASE LoseInput(i)
  <2>1. up' \in Seq(Input)
    BY <1>1, <1>3, InputsLost DEF LoseInput
  <2> QED
    BY <1>3, <2>1 DEF LoseInput, TypeOK, clientVars, serverVars, Disturbed
<1> QED
  BY <1>2, <1>3

LEMMA SnapTyped ==
    ASSUME TypeOK, Pointers, NEW m \in down, ReceiveSnap(m) \/ LoseSnap(m)
    PROVE  TypeOK'
<1>0. m \in SnapPacket /\ m.tick \in Ticks /\ m.tick \in Nat /\ m.part \in Nat
  BY DEF TypeOK, SnapPacket, Ticks
<1>1. down' \subseteq down
  BY DEF ReceiveSnap, LoseSnap
<1>2. ASSUME Unpack(m)
      PROVE  /\ cStore' \in Store
             /\ {prev', cur'} \subseteq Ticks \cup {Null}
             /\ received' \in 0 .. 3 /\ online' \in BOOLEAN
  <2>1. Renewed(cStore', cStore, PurgeTick(m), m.tick, Unpacked(m))
    BY <1>0, <1>2, SnapshotStored
  <2>2. cStore' \in Seq(Holder) /\ Len(cStore') \in Nat \ {0}
    BY <2>1 DEF Renewed
  <2>3. cStore'[1] \in Holder /\ cStore'[Len(cStore')] \in Holder
    BY <2>2, ElementOfSeq
  <2>4. cStore'[1].tick \in Ticks /\ cStore'[Len(cStore')].tick \in Ticks
    BY <2>3 DEF Holder
  <2>5. \/ prev' = prev /\ cur' = cur /\ online' = online
        \/ /\ prev' = cStore'[1].tick /\ cur' = cStore'[Len(cStore')].tick
           /\ online' = TRUE
    BY <1>2 DEF Unpack
  <2>6. {prev', cur'} \subseteq Ticks \cup {Null} /\ online' \in BOOLEAN
    BY <2>4, <2>5 DEF TypeOK
  <2>7. received' \in 0 .. 3
    BY <1>2 DEF Unpack, TypeOK
  <2> QED
    BY <2>2, <2>6, <2>7 DEF Store, Holder
<1>3. CASE ReceiveSnap(m)
  <2>1. UNCHANGED <<serverVars, join, late, round, calm>>
    BY <1>3 DEF ReceiveSnap
  <2>2. CASE Discard(m)
    BY <1>1, <2>1, <2>2 DEF Discard, TypeOK, clientVars, serverVars
  <2>3. CASE Collect(m)
    BY <1>0, <1>1, <2>1, <2>3 DEF Collect, PartsWith, TypeOK, serverVars
  <2>4. CASE MissBase(m)
    <3>1. up' \in Seq(Input)
      BY <2>4, InputSent DEF MissBase, TypeOK
    <3> QED
      BY <1>0, <1>1, <2>1, <2>4, <3>1 DEF MissBase, Complete, TypeOK, serverVars
  <2>5. CASE Unpack(m)
    BY <1>0, <1>1, <1>2, <2>1, <2>5 DEF Unpack, Complete, TypeOK, serverVars
  <2> QED
    BY <1>3, <2>2, <2>3, <2>4, <2>5 DEF ReceiveSnap
<1>4. CASE LoseSnap(m)
  BY <1>1, <1>4 DEF LoseSnap, TypeOK, clientVars, serverVars, Disturbed
<1> QED
  BY <1>3, <1>4

LEMMA TypeStep ==
    ASSUME TypeOK, Pointers, [Next]_vars
    PROVE  TypeOK'
<1>1. CASE UNCHANGED vars
  BY <1>1 DEF TypeOK, vars, serverVars, clientVars
<1>2. CASE ReloadMap
  <2>1. map' \in Maps /\ <<>> \in Store /\ 0 \in Nat
    BY <1>2, SnapshotAssumption, EmptySeq DEF ReloadMap, TypeOK, Maps, Store
  <2> QED
    BY <1>2, <2>1 DEF ReloadMap, TypeOK, clientVars, Disturbed, MIN_TICK, Content
<1>3. CASE ClientEnters
  BY <1>3 DEF ClientEnters, TypeOK, clientVars, serverVars
<1>4. CASE SendInput
  <2>1. up' \in Seq(Input)
    BY <1>4, InputSent DEF SendInput, TypeOK
  <2>2. round' \in {"off", "down", "up"} /\ calm' = calm
    BY <1>4 DEF SendInput, Undisturbed, TypeOK
  <2> QED
    BY <1>4, <2>1, <2>2 DEF SendInput, TypeOK, serverVars
<1>5. CASE SwitchSnapshot
  <2>1. PICK i \in 1 .. Len(cStore) - 1 : prev' = cur /\ cur' = cStore[i + 1].tick
    BY <1>5 DEF SwitchSnapshot
  <2>2. cStore[i + 1] \in Holder
    <3>1. cStore \in Seq(Holder) /\ Len(cStore) \in Nat
      BY LenProperties DEF TypeOK, Store, Holder
    <3>2. i + 1 \in 1 .. Len(cStore)
      BY <2>1, <3>1
    <3> QED
      BY <3>1, <3>2, ElementOfSeq
  <2>3. {prev', cur'} \subseteq Ticks \cup {Null}
    BY <2>1, <2>2 DEF TypeOK, Holder
  <2> QED
    BY <1>5, <2>3 DEF SwitchSnapshot, TypeOK, serverVars
<1>6. CASE LoadMap
  BY <1>6 DEF LoadMap, TypeOK, serverVars
<1>7. CASE EnterGame
  <2>1. <<>> \in Store
    BY EmptySeq DEF Store
  <2>4. cStore' \in Store
    BY <1>7, <2>1 DEF EnterGame
  <2>2. recvTick' \in Nat /\ received' \in 0 .. 3 /\ calm' \in 0 .. 2
    BY <1>7 DEF EnterGame, Disturbed
  <2>5. {prev', cur', ackTick'} \subseteq Ticks \cup {Null}
    BY <1>7 DEF EnterGame
  <2>6. parts' \subseteq Nat /\ down' \subseteq SnapPacket
    BY <1>7 DEF EnterGame
  <2>7. /\ predicted' \in BOOLEAN /\ round' \in {"off", "down", "up"}
        /\ join' \in {"change", "loading", "entering", "playing"}
    BY <1>7 DEF EnterGame, Disturbed
  <2>3. UNCHANGED <<serverVars, online, up, late>>
    BY <1>7 DEF EnterGame
  <2> QED
    BY <2>2, <2>3, <2>4, <2>5, <2>6, <2>7 DEF TypeOK, serverVars
<1> QED
  BY <1>1, <1>2, <1>3, <1>4, <1>5, <1>6, <1>7, TickTyped, InputTyped, SnapTyped DEF Next

---------------------------------------------------------------------------
(* Contents, times and pointers.                                           *)

\* What is in flight to the client changes by the server's packets alone.
LEMMA DownShrinks ==
    ASSUME [Next]_vars, ~(Tick /\ DoSnapshot(tick'))
    PROVE  down' \subseteq down
BY DEF Next, vars, serverVars, clientVars, Tick, ReloadMap, ClientEnters, SendInput,
       SwitchSnapshot, LoadMap, EnterGame, ReceiveSnap, LoseSnap, ReceiveInput, LoseInput

\* The client's storage changes when a map is entered or a snapshot unpacked.
LEMMA StorageChanges ==
    ASSUME [Next]_vars
    PROVE  \/ UNCHANGED cStore
           \/ EnterGame
           \/ \E m \in down : Unpack(m) /\ ReceiveSnap(m)
BY DEF Next, vars, serverVars, clientVars, Tick, ReloadMap, ClientEnters, SendInput,
       SwitchSnapshot, LoadMap, ReceiveSnap, LoseSnap, ReceiveInput, LoseInput,
       Discard, Collect, MissBase

\* The map and the client's place in the exchange of maps
LEMMA PhaseChanges ==
    ASSUME [Next]_vars
    PROVE  \/ ReloadMap
           \/ EnterGame
           \/ map' = map /\ Entered' = Entered
<1>1. CASE ClientEnters \/ LoadMap
  BY <1>1 DEF ClientEnters, LoadMap, serverVars, Entered
<1>2. CASE map' = map /\ join' = join
  BY <1>2 DEF Entered
<1> QED
  BY <1>1, <1>2
     DEF Next, vars, serverVars, clientVars, Tick, SendInput, SwitchSnapshot,
         ReceiveSnap, LoseSnap, ReceiveInput, LoseInput

\* A delta is unpacked against its own base.
LEMMA UnpackedRight ==
    ASSUME TypeOK, NEW k \in Nat, OneMap(k), NEW m \in down, Unpack(m)
    PROVE  Unpacked(m) = k
<1>1. m.snap = k /\ (m.base # Null => m.from = k)
  BY DEF OneMap
<1>2. CASE m.base = Null
  BY <1>1, <1>2 DEF Unpacked
<1>3. CASE m.base # Null
  <2>1. m.base \in StoredTicks(cStore)
    BY <1>3 DEF Unpack
  <2>2. HolderOf(cStore, m.base).snap = k
    BY <2>1, HolderFound DEF OneMap
  <2> QED
    BY <1>1, <1>3, <2>2 DEF Unpacked
<1> QED
  BY <1>2, <1>3

LEMMA UnpackedAll ==
    ASSUME IInv, NEW k \in Nat, OneMap(k), NEW m \in down, Unpack(m)
    PROVE  \A i \in 1 .. Len(cStore') : cStore'[i].snap = k
<1>1. Renewed(cStore', cStore, PurgeTick(m), m.tick, Unpacked(m))
  BY SnapshotStored DEF IInv, TypeOK
<1>2. Unpacked(m) = k
  BY UnpackedRight DEF IInv
<1>3. ASSUME NEW i \in 1 .. Len(cStore')
      PROVE  cStore'[i].snap = k
  <2>1. CASE i = Len(cStore')
    BY <1>1, <1>2, <2>1 DEF Renewed
  <2>2. CASE i # Len(cStore')
    <3>1. Len(cStore') \in Nat
      BY <1>1 DEF Renewed
    <3>2. i \in 1 .. Len(cStore') - 1
      BY <2>2, <3>1
    <3>3. \E j \in 1 .. Len(cStore) : cStore'[i] = cStore[j]
      BY <1>1, <3>2 DEF Renewed
    <3> QED
      BY <3>3 DEF OneMap
  <2> QED
    BY <2>1, <2>2
<1> QED
  BY <1>3

LEMMA ServerContents ==
    ASSUME IInv, [Next]_vars
    PROVE  \A i \in 1 .. Len(sStore') : sStore'[i].snap = map'
<1>1. \A i \in 1 .. Len(sStore) : sStore[i].snap = map
  BY DEF IInv, Contents
<1>2. CASE ReloadMap
  <2>1. Len(sStore') = 0
    BY <1>2, EmptySeq DEF ReloadMap
  <2> QED
    BY <2>1
<1>3. CASE Tick /\ DoSnapshot(tick')
  <2>1. tick' \in Ticks /\ map' = map
    BY <1>3 DEF IInv, TypeOK, Tick, Ticks, MIN_TICK
  <2>2. \A i \in 1 .. Len(sStore') :
           \/ sStore'[i].snap = map
           \/ \E j \in 1 .. Len(sStore) : sStore'[i].snap = sStore[j].snap
    BY <1>3, <2>1, SnapshotMade DEF IInv
  <2> QED
    BY <1>1, <2>1, <2>2
<1>4. CASE sStore' = sStore /\ map' = map
  BY <1>1, <1>4
<1> QED
  BY <1>2, <1>3, <1>4
     DEF Next, vars, serverVars, clientVars, Tick, ClientEnters, SendInput, SwitchSnapshot,
         LoadMap, EnterGame, ReceiveSnap, LoseSnap, ReceiveInput, LoseInput

LEMMA ContentsStep ==
    ASSUME IInv, [Next]_vars
    PROVE  Contents'
<1>1. PICK k \in Nat : OneMap(k)
  BY DEF IInv, Contents
<1>0. map \in Nat /\ \A i \in 1 .. Len(sStore') : sStore'[i].snap = map'
  BY ServerContents DEF IInv, TypeOK, Maps
<1>2. CASE ReloadMap
  <2>1. map' = map + 1 /\ ~Entered' /\ cStore' = cStore /\ down' = down
    BY <1>2 DEF ReloadMap, Entered, clientVars
  <2>2. OneMap(k)'
    BY <1>0, <1>1, <2>1 DEF OneMap
  <2> QED
    BY <1>0, <2>2 DEF Contents
<1>3. CASE EnterGame
  <2>1. map' = map /\ Entered' /\ Len(cStore') = 0 /\ down' = {}
    BY <1>3, EmptySeq DEF EnterGame, Entered, serverVars
  <2>2. OneMap(map)'
    BY <1>0, <2>1 DEF OneMap
  <2> QED
    BY <1>0, <2>1, <2>2 DEF Contents
<1>4. CASE map' = map /\ Entered' = Entered /\ ~EnterGame
  <2>1. \A i \in 1 .. Len(cStore') : cStore'[i].snap = k
    <3>1. CASE cStore' = cStore
      BY <1>1, <3>1 DEF OneMap
    <3>2. CASE \E m \in down : Unpack(m) /\ ReceiveSnap(m)
      BY <1>1, <3>2, UnpackedAll
    <3> QED
      BY <1>4, <3>1, <3>2, StorageChanges
  <2>2. \A m \in down' : m.snap = k /\ (m.base # Null => m.from = k)
    <3>1. CASE ~(Tick /\ DoSnapshot(tick'))
      BY <1>1, <3>1, DownShrinks DEF OneMap
    <3>2. CASE Tick /\ DoSnapshot(tick')
      <4>1. tick' \in Ticks
        BY <3>2 DEF IInv, TypeOK, Tick, Ticks, MIN_TICK
      <4>2. join = "playing"
        BY <3>2, <4>1, SnapshotMade DEF IInv
      <4>3. k = map
        BY <1>1, <4>2 DEF OneMap, Entered
      <4>4. PICK n \in Nat \ {0}, b \in {Null, lastAcked}, f \in Content \cup {NoMap} :
               /\ b # Null => \E j \in 1 .. Len(sStore') : f = sStore'[j].snap
               /\ down' = down \cup Packets(tick', b, f, n)
        BY <3>2, <4>1, SnapshotMade DEF IInv
      <4>5. b # Null => f = map
        BY <1>0, <1>4, <4>4
      <4> QED
        BY <1>1, <4>3, <4>4, <4>5, PacketFields DEF OneMap
    <3> QED
      BY <3>1, <3>2
  <2>3. OneMap(k)'
    BY <1>1, <1>4, <2>1, <2>2 DEF OneMap
  <2> QED
    BY <1>0, <2>3 DEF Contents
<1> QED
  BY <1>2, <1>3, <1>4, PhaseChanges

\* What the types say of the ticks and the lists
LEMMA Basics ==
    ASSUME TypeOK
    PROVE  /\ cStore \in Seq(Holder) /\ Len(cStore) \in Nat
           /\ cStore # <<>> => Len(cStore) \in Nat \ {0}
           /\ LastTick(cStore) \in Ticks \cup {Null} /\ LastTick(cStore) \in Int
           /\ LastTick(cStore) # Null => LastTick(cStore) \in StoredTicks(cStore)
           /\ StoredTicks(cStore) \subseteq Ticks
           /\ LastTick(sStore) \in Ticks \cup {Null} /\ LastTick(sStore) \in Int
           /\ Ticks \subseteq Nat /\ Null \in Int /\ Null = -1
           /\ tick \in Nat /\ recvTick \in Nat /\ map \in Nat
           /\ \A t \in {lastAcked, ackTick, prev, cur} : t \in Ticks \cup {Null} /\ t \in Int
           /\ \A m \in down : /\ m \in SnapPacket /\ m.tick \in Ticks /\ m.tick \in Nat
                             /\ m.base \in Ticks \cup {Null} /\ m.base \in Int
           /\ up \in Seq(Input) /\ Len(up) \in Nat
           /\ \A i \in 1 .. Len(up) :
                 /\ up[i] \in Input /\ up[i].ack \in Ticks \cup {Null} /\ up[i].ack \in Int
                 /\ up[i].map \in Nat /\ up[i].overtaken \in BOOLEAN
<1>1. Ticks \subseteq Nat /\ Null \in Int /\ Null = -1 /\ Ticks \cup {Null} \subseteq Int
  BY DEF Ticks, Null
<1>2. cStore \in Seq(Holder) /\ sStore \in Seq(Holder) /\ up \in Seq(Input)
  BY DEF TypeOK, Store, Holder
<1>3. Len(cStore) \in Nat /\ Len(up) \in Nat /\ (cStore # <<>> => Len(cStore) \in Nat \ {0})
  BY <1>2, LenProperties, EmptySeq
<1>4. /\ LastTick(cStore) \in Ticks \cup {Null} /\ LastTick(sStore) \in Ticks \cup {Null}
      /\ LastTick(cStore) # Null => LastTick(cStore) \in StoredTicks(cStore)
      /\ StoredTicks(cStore) \subseteq Ticks
  BY <1>2, LastTickStored
<1>5. tick \in Nat /\ recvTick \in Nat /\ map \in Nat
  BY DEF TypeOK, Maps
<1>6. \A t \in {lastAcked, ackTick, prev, cur} : t \in Ticks \cup {Null}
  BY DEF TypeOK
<1>7. \A m \in down : m \in SnapPacket /\ m.tick \in Ticks /\ m.base \in Ticks \cup {Null}
  BY DEF TypeOK, SnapPacket
<1>8. \A i \in 1 .. Len(up) : up[i] \in Input
  BY <1>2, ElementOfSeq
<1>9. \A x \in Input : x.ack \in Ticks \cup {Null} /\ x.map \in Nat /\ x.overtaken \in BOOLEAN
  BY DEF Input, Maps
<1>10. /\ LastTick(cStore) \in Int /\ LastTick(sStore) \in Int
       /\ \A t \in {lastAcked, ackTick, prev, cur} : t \in Int
       /\ \A m \in down : m.tick \in Nat /\ m.base \in Int
       /\ \A i \in 1 .. Len(up) : up[i].ack \in Int
  BY <1>1, <1>4, <1>6, <1>7, <1>8, <1>9
<1> QED
  BY <1>1, <1>2, <1>3, <1>4, <1>5, <1>6, <1>7, <1>8, <1>9, <1>10

\* A list in the order of time ends with the latest tick.
LEMMA LastIsLatest ==
    ASSUME IInv, NEW u \in StoredTicks(cStore)
    PROVE  u <= LastTick(cStore)
<1>1. PICK i \in 1 .. Len(cStore) : u = cStore[i].tick
  BY DEF StoredTicks
<1>2. cStore \in Seq(Holder) /\ Len(cStore) \in Nat
  BY LenProperties DEF IInv, TypeOK, Store, Holder
<1>3. Len(cStore) \in 1 .. Len(cStore) /\ LastTick(cStore) = cStore[Len(cStore)].tick
  BY <1>1, <1>2, LastTickStored, EmptySeq
<1>4. u \in Int /\ i <= Len(cStore)
  BY <1>1, <1>2, LastTickStored DEF Ticks
<1>5. i < Len(cStore) => u < LastTick(cStore)
  BY <1>1, <1>3 DEF IInv, Pointers, PointersValid
<1>6. LastTick(cStore) \in Int
  BY Basics DEF IInv
<1> QED
  BY <1>1, <1>2, <1>3, <1>4, <1>5, <1>6

\* What the client accepts is later than all it stores.
LEMMA AcceptedIsLater ==
    ASSUME IInv, NEW m \in down, Acceptable(m)
    PROVE  /\ m.tick \in Ticks /\ m.tick \in Nat
           /\ LastTick(cStore) < m.tick /\ recvTick <= m.tick /\ ackTick < m.tick
<1>1. m.tick \in Ticks /\ m.tick \in Nat /\ recvTick \in Nat
  BY DEF IInv, TypeOK, SnapPacket, Ticks
<1>2. m.tick >= recvTick /\ m.tick > ackTick
  BY DEF Acceptable
<1>3. LastTick(cStore) \in Int /\ ackTick \in Int
  BY Basics DEF IInv
<1>4. CASE ackTick = Null
  BY <1>1, <1>2, <1>3, <1>4 DEF IInv, Clock
<1>5. CASE ackTick = LastTick(cStore)
  BY <1>1, <1>2, <1>3, <1>5
<1> QED
  BY <1>1, <1>2, <1>3, <1>4, <1>5 DEF IInv, Clock

\* The client's clock changes when a map is entered or a packet taken.
LEMMA ClockChanges ==
    ASSUME [Next]_vars
    PROVE  \/ UNCHANGED <<cStore, ackTick, recvTick>>
           \/ EnterGame
           \/ \E m \in down : /\ ReceiveSnap(m)
                              /\ Collect(m) \/ MissBase(m) \/ Unpack(m)
<1>1. CASE \E m \in down : ReceiveSnap(m)
  BY <1>1 DEF ReceiveSnap, Discard, clientVars
<1> QED
  BY <1>1 DEF Next, vars, serverVars, clientVars, Tick, ReloadMap, ClientEnters, SendInput,
              SwitchSnapshot, LoadMap, LoseSnap, ReceiveInput, LoseInput

LEMMA TickChanges ==
    ASSUME [Next]_vars
    PROVE  tick' = tick \/ (Tick /\ tick' = tick + 1) \/ ReloadMap
<1>1. CASE Tick
  BY <1>1 DEF Tick
<1> QED
  BY <1>1 DEF Next, vars, serverVars, ClientEnters, SendInput, SwitchSnapshot, LoadMap,
              EnterGame, ReceiveSnap, LoseSnap, ReceiveInput, LoseInput

LEMMA ClockStep ==
    ASSUME IInv, [Next]_vars
    PROVE  Clock'
<1>0. /\ recvTick \in Nat /\ tick \in Nat /\ ackTick \in Ticks \cup {Null}
      /\ LastTick(cStore) \in Ticks \cup {Null}
      /\ \A m \in down : m.tick \in Nat
      /\ Null \in Int /\ Null < 0 /\ Ticks \subseteq Nat
      /\ LastTick(cStore) \in Int
  BY Basics DEF IInv
<1>1. CASE EnterGame
  <2>1. ackTick' = Null /\ LastTick(cStore)' = Null /\ recvTick' = 0 /\ tick' = tick /\ down' = {}
    BY <1>1 DEF EnterGame, LastTick, serverVars
  <2> QED
    BY <1>0, <2>1 DEF Clock
<1>2. CASE ~EnterGame
  <2>1. /\ ackTick' \in {Null, LastTick(cStore)'}
        /\ LastTick(cStore)' <= recvTick'
        /\ ackTick' = Null => LastTick(cStore)' < recvTick'
    <3>1. CASE UNCHANGED <<cStore, ackTick, recvTick>>
      BY <3>1 DEF IInv, Clock, LastTick
    <3>2. ASSUME NEW m \in down, Collect(m) \/ MissBase(m) \/ Unpack(m)
          PROVE  /\ ackTick' \in {Null, LastTick(cStore)'}
                 /\ LastTick(cStore)' <= recvTick'
                 /\ ackTick' = Null => LastTick(cStore)' < recvTick'
      <4>0. Acceptable(m) /\ recvTick' = m.tick
        BY <3>2 DEF Collect, MissBase, Unpack, Complete
      <4>1. m.tick \in Nat /\ m.tick \in Ticks /\ LastTick(cStore) < m.tick
        BY <4>0, AcceptedIsLater
      <4>2. CASE Collect(m) \/ MissBase(m)
        <5>1. LastTick(cStore)' = LastTick(cStore) /\ ackTick' \in {Null, ackTick}
          BY <4>2 DEF Collect, MissBase, LastTick
        <5>2. ackTick \in {Null, LastTick(cStore)}
          BY DEF IInv, Clock
        <5> QED
          BY <1>0, <4>0, <4>1, <5>1, <5>2
      <4>3. CASE Unpack(m)
        <5>1. m \in SnapPacket
          BY DEF IInv, TypeOK
        <5>2. LastTick(cStore)' = m.tick
          BY <4>3, <5>1, SnapshotStored DEF IInv, Renewed, LastTick
        <5>3. ackTick' = m.tick
          BY <4>3 DEF Unpack
        <5> QED
          BY <1>0, <4>0, <4>1, <5>2, <5>3 DEF Ticks, Null
      <4> QED
        BY <3>2, <4>2, <4>3
    <3> QED
      BY <1>2, <3>1, <3>2, ClockChanges
  <2>2. ASSUME Entered'
        PROVE  recvTick' <= tick' /\ \A m \in down' : m.tick <= tick'
    <3>1. Entered /\ map' = map
      BY <1>2, <2>2, PhaseChanges DEF ReloadMap, Entered
    <3>2. recvTick <= tick /\ \A m \in down : m.tick <= tick
      BY <3>1 DEF IInv, Clock
    <3>3. tick' \in Nat /\ (tick' = tick \/ (Tick /\ tick' = tick + 1))
      <4>1. ~ReloadMap
        BY <2>2 DEF ReloadMap, Entered
      <4>2. tick' = tick \/ (Tick /\ tick' = tick + 1)
        BY <4>1, TickChanges
      <4> QED
        BY <1>0, <4>2
    <3>4. tick <= tick'
      BY <1>0, <3>3
    <3>5. recvTick' <= tick'
      <4>1. recvTick' = recvTick \/ \E m \in down : recvTick' = m.tick
        BY <1>2, ClockChanges DEF Collect, MissBase, Unpack, Complete
      <4> QED
        BY <1>0, <3>2, <3>3, <3>4, <4>1
    <3>6. ASSUME NEW m \in down'
          PROVE  m.tick <= tick'
      <4>1. CASE m \in down
        BY <1>0, <3>2, <3>3, <3>4, <4>1
      <4>2. CASE m \notin down
        <5>1. Tick /\ DoSnapshot(tick')
          BY <3>6, <4>2, DownShrinks
        <5>2. tick' \in Ticks
          BY <5>1 DEF IInv, TypeOK, Tick, Ticks, MIN_TICK
        <5>3. m.tick = tick'
          BY <3>6, <4>2, <5>1, <5>2, SnapshotMade, PacketFields DEF IInv
        <5> QED
          BY <3>3, <5>3
      <4> QED
        BY <4>1, <4>2
    <3> QED
      BY <3>5, <3>6
  <2> QED
    BY <2>1, <2>2 DEF Clock
<1> QED
  BY <1>1, <1>2

LEMMA PointersStep ==
    ASSUME IInv, [Next]_vars
    PROVE  Pointers'
<1>0. /\ cStore \in Seq(Holder) /\ Len(cStore) \in Nat /\ received \in 0 .. 3
      /\ prev \in Ticks \cup {Null} /\ cur \in Ticks \cup {Null}
      /\ \A i, j \in 1 .. Len(cStore) : i < j => cStore[i].tick < cStore[j].tick
      /\ prev = Null <=> cur = Null
      /\ prev # Null => prev < cur /\ prev \in StoredTicks(cStore) /\ cur \in StoredTicks(cStore)
      /\ prev = Null <=> received <= 1
      /\ received >= 1 => cStore # <<>>
  BY LenProperties DEF IInv, TypeOK, Store, Holder, Pointers, PointersValid
<1>1. CASE UNCHANGED <<cStore, prev, cur, received>>
  BY <1>1 DEF IInv, Pointers, PointersValid, StoredTicks
<1>2. CASE EnterGame
  <2>1. cStore' = <<>> /\ Len(cStore') = 0 /\ prev' = Null /\ cur' = Null /\ received' = 0
    BY <1>2, EmptySeq DEF EnterGame
  <2> QED
    BY <2>1 DEF Pointers, PointersValid
<1>3. CASE SwitchSnapshot
  <2>1. PICK i \in 1 .. Len(cStore) - 1 :
           cStore[i].tick = cur /\ prev' = cur /\ cur' = cStore[i + 1].tick
    BY <1>3 DEF SwitchSnapshot
  <2>2. cStore' = cStore /\ received' = received /\ cur # Null
    BY <1>3 DEF SwitchSnapshot
  <2>3. i \in 1 .. Len(cStore) /\ i + 1 \in 1 .. Len(cStore) /\ i < i + 1
    BY <1>0, <2>1
  <2>4. cur < cStore[i + 1].tick
    BY <1>0, <2>1, <2>3
  <2>5. cStore[i + 1].tick \in StoredTicks(cStore) /\ cStore[i + 1].tick \in Ticks
    BY <1>0, <2>3, LastTickStored DEF StoredTicks
  <2>6. cur' # Null
    BY <2>1, <2>5 DEF Ticks, Null
  <2>7. StoredTicks(cStore') = StoredTicks(cStore)
    BY <2>2
  <2> QED
    BY <1>0, <2>1, <2>2, <2>4, <2>5, <2>6, <2>7 DEF Pointers, PointersValid, StoredTicks
<1>4. ASSUME NEW m \in down, Unpack(m)
      PROVE  Pointers'
  <2>1. m \in SnapPacket /\ Acceptable(m)
    BY <1>4 DEF IInv, TypeOK, Unpack, Complete
  <2>2. Renewed(cStore', cStore, PurgeTick(m), m.tick, Unpacked(m))
    BY <1>4, <2>1, SnapshotStored DEF IInv
  <2>3. PICK k \in 0 .. Len(cStore) :
           /\ Len(cStore') = Len(cStore) - k + 1
           /\ \A i \in 1 .. Len(cStore') - 1 :
                 i + k \in 1 .. Len(cStore) /\ cStore'[i] = cStore[i + k]
           /\ \A i \in 1 .. k : cStore[i].tick < PurgeTick(m)
    BY <2>2 DEF Renewed
  <2>4. /\ cStore' # <<>> /\ Len(cStore') \in Nat \ {0}
        /\ cStore'[Len(cStore')].tick = m.tick
        /\ \A u \in StoredTicks(cStore) : PurgeTick(m) <= u => u \in StoredTicks(cStore')
    BY <2>2 DEF Renewed
  <2>5. \A i \in 1 .. Len(cStore) : cStore[i].tick \in Ticks /\ cStore[i].tick < m.tick
    <3>1. \A i \in 1 .. Len(cStore) : cStore[i].tick \in StoredTicks(cStore)
      BY DEF StoredTicks
    <3>2. StoredTicks(cStore) \subseteq Ticks /\ LastTick(cStore) \in Ticks \cup {Null}
      BY <1>0, LastTickStored
    <3> QED
      BY <2>1, <3>1, <3>2, LastIsLatest, AcceptedIsLater DEF Ticks, Null
  <2>6. ASSUME NEW i \in 1 .. Len(cStore'), NEW j \in 1 .. Len(cStore'), i < j
        PROVE  cStore'[i].tick < cStore'[j].tick
    <3>1. i \in 1 .. Len(cStore') - 1 /\ i + k \in 1 .. Len(cStore)
      BY <2>3, <2>4, <2>6
    <3>2. CASE j = Len(cStore')
      BY <2>3, <2>4, <2>5, <3>1, <3>2
    <3>3. CASE j # Len(cStore')
      <4>1. j \in 1 .. Len(cStore') - 1 /\ i + k < j + k /\ j + k \in 1 .. Len(cStore)
        BY <2>3, <2>4, <2>6, <3>3
      <4> QED
        BY <1>0, <2>3, <3>1, <4>1
    <3> QED
      BY <3>2, <3>3
  <2>7. CASE received = 1
    <3>1. /\ prev = Null /\ received' = 2
          /\ prev' = cStore'[1].tick /\ cur' = cStore'[Len(cStore')].tick
      BY <1>0, <1>4, <2>7 DEF Unpack
    <3>2. PurgeTick(m) = m.base
      BY <2>1, <3>1, PurgeTickLeast DEF IInv
    <3>3. Len(cStore') # 1
      <4>1. SUFFICES ASSUME Len(cStore') = 1
                     PROVE  FALSE
        OBVIOUS
      <4>2. k = Len(cStore) /\ 1 \in 1 .. Len(cStore)
        <5>1. Len(cStore) \in Nat \ {0}
          BY <1>0, <2>7, Basics DEF IInv
        <5>2. Len(cStore') = Len(cStore) - k + 1
          BY <2>3
        <5>3. k \in Int
          BY <5>1
        <5>4. 1 = Len(cStore) - k + 1
          BY <4>1, <5>2
        <5>5. k = Len(cStore)
          BY <5>1, <5>3, <5>4
        <5> QED
          BY <5>1, <5>5
      <4>3. \A i \in 1 .. Len(cStore) : cStore[i].tick < m.base
        BY <2>3, <3>2, <4>2
      <4>4. m.base # Null
        BY <2>5, <4>2, <4>3 DEF Ticks, Null
      <4>5. m.base \in StoredTicks(cStore)
        BY <1>4, <4>4 DEF Unpack
      <4>6. PICK i \in 1 .. Len(cStore) : m.base = cStore[i].tick
        BY <4>5 DEF StoredTicks
      <4> QED
        BY <2>5, <4>3, <4>6 DEF Ticks
    <3>4. 1 \in 1 .. Len(cStore') /\ Len(cStore') \in 1 .. Len(cStore') /\ 1 < Len(cStore')
      <4>1. Len(cStore') \in Nat \ {0}
        BY <2>4
      <4> QED
        BY <3>3, <4>1
    <3>5. prev' < cur' /\ prev' \in StoredTicks(cStore') /\ cur' \in StoredTicks(cStore')
      BY <2>6, <3>1, <3>4 DEF StoredTicks
    <3>6. cStore' \in Seq(Holder)
      BY <2>2 DEF Renewed
    <3>7. prev' # Null /\ cur' # Null
      BY <3>5, <3>6, LastTickStored DEF Ticks, Null
    <3> QED
      BY <2>4, <2>6, <3>1, <3>5, <3>7 DEF Pointers, PointersValid
  <2>8. CASE received # 1
    <3>1. prev' = prev /\ cur' = cur /\ received' = (IF received = 3 THEN 3 ELSE received + 1)
      BY <1>4, <2>8 DEF Unpack
    <3>2. prev # Null => prev \in StoredTicks(cStore') /\ cur \in StoredTicks(cStore')
      BY <1>0, <2>1, <2>4, PurgeTickLeast DEF IInv
    <3>3. prev' = Null <=> received' <= 1
      BY <1>0, <2>8, <3>1
    <3> QED
      BY <1>0, <2>4, <2>6, <3>1, <3>2, <3>3 DEF Pointers, PointersValid
  <2> QED
    BY <2>7, <2>8
<1> QED
  BY <1>1, <1>2, <1>3, <1>4
     DEF Next, vars, serverVars, clientVars, Tick, ReloadMap, ClientEnters, SendInput, LoadMap,
         ReceiveSnap, LoseSnap, ReceiveInput, LoseInput, Discard, Collect, MissBase

---------------------------------------------------------------------------
(* Inputs.                                                                 *)

\* The inputs in flight change when one is received, lost or sent.
LEMMA UpChanges ==
    ASSUME TypeOK, [Next]_vars
    PROVE  \/ up' = up
           \/ \E i \in 1 .. Len(up) : ReceiveInput(i) /\ \E f : Left(up', f, i)
           \/ \E i \in 1 .. Len(up) : LoseInput(i) /\ \E f : Left(up', f, 1)
           \/ SendInput /\ Send(ackTick)
           \/ \E m \in down : ReceiveSnap(m) /\ MissBase(m) /\ Send(Null)
<1>1. up \in Seq(Input)
  BY DEF TypeOK
<1>2. ASSUME NEW i \in 1 .. Len(up), ReceiveInput(i)
      PROVE  \E f : Left(up', f, i)
  BY <1>1, <1>2, InputsLeft DEF ReceiveInput
<1>3. ASSUME NEW i \in 1 .. Len(up), LoseInput(i)
      PROVE  \E f : Left(up', f, 1)
  BY <1>1, <1>3, InputsLost DEF LoseInput
<1>4. ASSUME NEW m \in down, ReceiveSnap(m)
      PROVE  up' = up \/ (MissBase(m) /\ Send(Null))
  BY <1>4 DEF ReceiveSnap, Discard, Collect, MissBase, Unpack
<1>5. SendInput => Send(ackTick)
  BY DEF SendInput
<1>6. \/ UNCHANGED vars \/ Tick \/ ReloadMap \/ ClientEnters
      \/ SwitchSnapshot \/ LoadMap \/ EnterGame
      \/ \E m \in down : LoseSnap(m)
      => up' = up
  BY DEF vars, Tick, ReloadMap, ClientEnters, SwitchSnapshot, LoadMap, EnterGame, LoseSnap
<1> QED
  BY <1>2, <1>3, <1>4, <1>5, <1>6 DEF Next

\* What the server knows of the client changes with the map and with inputs.
LEMMA AckChanges ==
    ASSUME [Next]_vars
    PROVE  \/ lastAcked' = lastAcked /\ late' = late
           \/ ReloadMap
           \/ \E i \in 1 .. Len(up) : ReceiveInput(i)
BY DEF Next, vars, serverVars, Tick, ClientEnters, SendInput, SwitchSnapshot, LoadMap,
       EnterGame, ReceiveSnap, LoseSnap, LoseInput

LEMMA InputsStep ==
    ASSUME IInv, [Next]_vars
    PROVE  Inputs'
<1>0. /\ up \in Seq(Input) /\ Len(up) \in Nat /\ map \in Nat
      /\ \A i \in 1 .. Len(up) : up[i].map \in Nat /\ up[i].overtaken \in BOOLEAN
      /\ \A i \in 1 .. Len(up) : up[i].map <= map /\ (up[i].map = map => Entered)
      /\ \A i, j \in 1 .. Len(up) : i < j /\ up[j].overtaken => up[i].overtaken
      /\ ~Entered => lastAcked = Null \/ late = "foreign"
  BY Basics DEF IInv, Inputs
<1>2. map' \in Nat /\ \A i \in 1 .. Len(up) : up[i].map <= map' /\ (up[i].map = map' => Entered')
  <2>1. CASE ReloadMap
    BY <1>0, <2>1 DEF ReloadMap
  <2>2. CASE EnterGame
    BY <1>0, <2>2 DEF EnterGame, serverVars, Entered
  <2> QED
    BY <1>0, <2>1, <2>2, PhaseChanges
<1>3. ~Entered' => lastAcked' = Null \/ late' = "foreign"
  <2>1. CASE ReloadMap
    BY <2>1 DEF ReloadMap
  <2>2. CASE EnterGame
    BY <2>2 DEF EnterGame, Entered
  <2>3. CASE map' = map /\ Entered' = Entered /\ lastAcked' = lastAcked /\ late' = late
    BY <1>0, <2>3
  <2>4. ASSUME NEW i \in 1 .. Len(up), ReceiveInput(i), Entered' = Entered
        PROVE  ~Entered' => late' = "foreign"
    BY <1>0, <2>4 DEF ReceiveInput
  <2> QED
    BY <2>1, <2>2, <2>3, <2>4, PhaseChanges, AckChanges
<1>4. ASSUME UNCHANGED up
      PROVE  Inputs'
  BY <1>0, <1>2, <1>3, <1>4 DEF Inputs
<1>5. ASSUME NEW i \in Nat, NEW f, Left(up', f, i)
      PROVE  Inputs'
  <2>1. /\ \A j \in 1 .. Len(up') : f[j] \in 1 .. Len(up)
        /\ \A j, l \in 1 .. Len(up') : j < l => f[j] < f[l]
        /\ \A j \in 1 .. Len(up') :
              /\ up'[j].map = up[f[j]].map
              /\ up'[j].overtaken = (up[f[j]].overtaken \/ f[j] < i)
    BY <1>5 DEF Left
  <2>2. ASSUME NEW j \in 1 .. Len(up'), NEW l \in 1 .. Len(up'), j < l, up'[l].overtaken
        PROVE  up'[j].overtaken
    <3>1. f[j] \in 1 .. Len(up) /\ f[l] \in 1 .. Len(up) /\ f[j] < f[l]
      BY <2>1, <2>2
    <3>2. up'[l].overtaken = (up[f[l]].overtaken \/ f[l] < i)
      BY <2>1
    <3>3. up'[j].overtaken = (up[f[j]].overtaken \/ f[j] < i)
      BY <2>1
    <3>4. up[f[l]].overtaken => up[f[j]].overtaken
      BY <1>0, <3>1
    <3>5. f[l] < i => f[j] < i
      BY <1>0, <3>1
    <3> QED
      BY <2>2, <3>2, <3>3, <3>4, <3>5
  <2>3. \A j \in 1 .. Len(up') : up'[j].map <= map' /\ (up'[j].map = map' => Entered')
    BY <1>2, <2>1
  <2> QED
    BY <1>3, <2>2, <2>3 DEF Inputs
<1>6. ASSUME NEW a \in Ticks \cup {Null}, Send(a), Entered' = Entered, map' = map
      PROVE  Inputs'
  <2>1. /\ up' \in Seq(Input)
        /\ \A j \in 1 .. Len(up') :
              \/ j \in 1 .. Len(up) /\ up'[j] = up[j]
              \/ /\ j = Len(up') /\ Len(up') = Len(up) + 1
                 /\ up'[j].map = ClientMap /\ ~up'[j].overtaken
    BY <1>0, <1>6, InputSent DEF IInv, TypeOK
  <2>2. ASSUME NEW j \in 1 .. Len(up'), NEW l \in 1 .. Len(up'), j < l, up'[l].overtaken
        PROVE  up'[j].overtaken
    <3>1. l \in 1 .. Len(up) /\ up'[l] = up[l]
      BY <2>1, <2>2
    <3>2. j \in 1 .. Len(up) /\ up'[j] = up[j]
      BY <1>0, <2>1, <2>2, <3>1
    <3> QED
      BY <1>0, <2>2, <3>1, <3>2
  <2>3. ClientMap <= map' /\ (ClientMap = map' => Entered')
    BY <1>0, <1>6 DEF ClientMap, IInv, TypeOK, Maps
  <2>4. \A j \in 1 .. Len(up') : up'[j].map <= map' /\ (up'[j].map = map' => Entered')
    BY <1>2, <2>1, <2>3
  <2> QED
    BY <1>3, <2>2, <2>4 DEF Inputs
<1>7. ackTick \in Ticks \cup {Null} /\ Null \in Ticks \cup {Null}
  BY DEF IInv, TypeOK
<1>8. \/ SendInput
      \/ \E m \in down : ReceiveSnap(m) /\ MissBase(m)
      => map' = map /\ Entered' = Entered
  BY DEF SendInput, ReceiveSnap, serverVars, Entered
<1> QED
  BY <1>4, <1>5, <1>6, <1>7, <1>8, UpChanges DEF IInv

---------------------------------------------------------------------------
(* Bases and acknowledgements.                                             *)

\* A snapshot that is not older than the base of the one unpacked stays.
LEMMA NeededStays ==
    ASSUME IInv, NEW m \in down, Unpack(m), NEW t \in StoredTicks(cStore), m.base <= t
    PROVE  t \in StoredTicks(cStore')
<1>1. m \in SnapPacket /\ m.base \in Int /\ t \in Int
  BY Basics DEF IInv
<1>2. PurgeTick(m) \in Int /\ PurgeTick(m) <= m.base
  BY <1>1, PurgeTickLeast DEF IInv, Ticks, Null
<1>3. Renewed(cStore', cStore, PurgeTick(m), m.tick, Unpacked(m))
  BY <1>1, SnapshotStored DEF IInv
<1>4. PurgeTick(m) <= t
  BY <1>1, <1>2
<1> QED
  BY <1>3, <1>4 DEF Renewed

\* The storage gains later snapshots, and does not lose a safe one.
LEMMA StorageGrows ==
    ASSUME IInv, [Next]_vars, ~EnterGame
    PROVE  /\ LastTick(cStore') \in Int /\ LastTick(cStore) <= LastTick(cStore')
           /\ \A t \in StoredTicks(cStore) :
                 (\A m \in down : m.base <= t) => t \in StoredTicks(cStore')
<1>0. LastTick(cStore) \in Int
  BY Basics DEF IInv
<1>1. CASE UNCHANGED cStore
  BY <1>0, <1>1 DEF LastTick
<1>2. ASSUME NEW m \in down, Unpack(m)
      PROVE  /\ LastTick(cStore') \in Int /\ LastTick(cStore) <= LastTick(cStore')
             /\ \A t \in StoredTicks(cStore) : m.base <= t => t \in StoredTicks(cStore')
  <2>1. Acceptable(m) /\ m \in SnapPacket
    BY <1>2 DEF IInv, TypeOK, Unpack, Complete
  <2>2. LastTick(cStore') = m.tick
    BY <1>2, <2>1, SnapshotStored DEF IInv, Renewed
  <2>3. m.tick \in Int /\ LastTick(cStore) < m.tick
    BY <2>1, AcceptedIsLater
  <2> QED
    BY <1>0, <1>2, <2>2, <2>3, NeededStays
<1> QED
  BY <1>1, <1>2, StorageChanges

\* What the client accepts it could have accepted before, and it is later than
\* the snapshot just unpacked.
LEMMA AcceptableBefore ==
    ASSUME IInv, [Next]_vars, ~EnterGame, NEW n \in down, Acceptable(n)'
    PROVE  /\ Acceptable(n)
           /\ cStore' = cStore \/ \E m \in down : Unpack(m) /\ m.tick < n.tick
<1>0. n.tick \in Nat /\ recvTick \in Nat /\ ackTick \in Int
  BY Basics DEF IInv
<1>1. n.tick >= recvTick' /\ n.tick > ackTick'
  BY DEF Acceptable
<1>2. CASE UNCHANGED <<cStore, ackTick, recvTick>>
  BY <1>1, <1>2 DEF Acceptable
<1>3. ASSUME NEW m \in down, Collect(m) \/ MissBase(m) \/ Unpack(m)
      PROVE  /\ Acceptable(n)
             /\ cStore' = cStore \/ \E l \in down : Unpack(l) /\ l.tick < n.tick
  <2>1. m.tick \in Nat /\ m.tick >= recvTick /\ m.tick > ackTick /\ recvTick' = m.tick
    BY <1>3, Basics DEF IInv, Collect, MissBase, Unpack, Complete, Acceptable
  <2>2. Acceptable(n)
    BY <1>0, <1>1, <2>1 DEF Acceptable
  <2>3. Collect(m) \/ MissBase(m) => cStore' = cStore
    BY DEF Collect, MissBase
  <2>4. Unpack(m) => m.tick < n.tick
    BY <1>0, <1>1, <2>1 DEF Unpack
  <2> QED
    BY <1>3, <2>2, <2>3, <2>4
<1> QED
  BY <1>2, <1>3, ClockChanges

\* A new snapshot is later than all before; its base is the acknowledgement the
\* server took, which is safe.
LEMMA NewPackets ==
    ASSUME IInv, Tick, DoSnapshot(tick')
    PROVE  /\ Entered /\ UNCHANGED <<map, join, lastAcked, late, clientVars, up>>
           /\ tick' \in Ticks /\ \A m \in down : m.tick < tick'
           /\ \E n \in Nat \ {0}, b \in {Null, lastAcked}, f \in Content \cup {NoMap} :
                 down' = down \cup Packets(tick', b, f, n)
           /\ \A m \in down' : m \notin down =>
                 m.tick = tick' /\ m.base \in {Null, lastAcked} /\ m.late = late
           /\ late = "no" /\ lastAcked # Null => Safe(lastAcked)
<1>1. tick' \in Ticks /\ tick' = tick + 1 /\ tick \in Nat
  BY DEF IInv, TypeOK, Tick, Ticks, MIN_TICK
<1>2. join = "playing"
  BY <1>1, SnapshotMade DEF IInv
<1>3. Entered /\ UNCHANGED <<map, join, lastAcked, late, clientVars, up>>
  BY <1>2 DEF Tick, Entered
<1>4. PICK n \in Nat \ {0}, b \in {Null, lastAcked}, f \in Content \cup {NoMap} :
         down' = down \cup Packets(tick', b, f, n)
  BY <1>1, SnapshotMade DEF IInv
<1>5. \A m \in down' : m \notin down =>
         m.tick = tick' /\ m.base \in {Null, lastAcked} /\ m.late = late
  BY <1>4, PacketFields
<1>6. \A m \in down : m.tick <= tick /\ m.tick \in Nat
  BY <1>3, Basics DEF IInv, Clock
<1>7. late = "no" /\ lastAcked # Null => Safe(lastAcked)
  BY <1>3 DEF IInv, Acked
<1>8. \A m \in down : m.tick < tick'
  BY <1>1, <1>6
<1> QED
  BY <1>1, <1>3, <1>4, <1>5, <1>7, <1>8

LEMMA BaseKeptStep ==
    ASSUME IInv, [Next]_vars
    PROVE  BaseKept'
<1> SUFFICES ASSUME NEW n \in down', Acceptable(n)', n.late = "no", n.base # Null
             PROVE  n.base \in StoredTicks(cStore')
  BY DEF BaseKept
<1>1. CASE EnterGame
  BY <1>1 DEF EnterGame
<1>2. CASE ~EnterGame /\ n \in down
  <2>1. /\ Acceptable(n)
        /\ cStore' = cStore \/ \E m \in down : Unpack(m) /\ m.tick < n.tick
    BY <1>2, AcceptableBefore
  <2>2. n.base \in StoredTicks(cStore)
    BY <1>2, <2>1 DEF IInv, BaseKept
  <2>3. ASSUME NEW m \in down, Unpack(m), m.tick < n.tick
        PROVE  n.base \in StoredTicks(cStore')
    <3>1. m.base <= n.base
      BY <1>2, <2>3 DEF IInv, BasesGrow
    <3> QED
      BY <2>2, <2>3, <3>1, NeededStays
  <2> QED
    BY <2>1, <2>2, <2>3
<1>3. CASE n \notin down
  <2>1. Tick /\ DoSnapshot(tick')
    BY <1>3, DownShrinks
  <2>2. n.base = lastAcked /\ Safe(lastAcked) /\ cStore' = cStore
    BY <1>3, <2>1, NewPackets DEF clientVars
  <2> QED
    BY <2>2 DEF Safe
<1> QED
  BY <1>1, <1>2, <1>3

LEMMA BasesGrowStep ==
    ASSUME IInv, [Next]_vars
    PROVE  BasesGrow'
<1>1. CASE ~(Tick /\ DoSnapshot(tick'))
  BY <1>1, DownShrinks DEF IInv, BasesGrow
<1>2. CASE Tick /\ DoSnapshot(tick')
  <2> SUFFICES ASSUME NEW m \in down', NEW n \in down', m.tick < n.tick, n.late = "no", n.base # Null
               PROVE  m.base <= n.base
    BY DEF BasesGrow
  <2>1. /\ tick' \in Int /\ \A l \in down : l.tick \in Int /\ l.tick < tick'
        /\ \A l \in down' : l \notin down =>
              l.tick = tick' /\ l.base \in {Null, lastAcked} /\ l.late = late
        /\ late = "no" /\ lastAcked # Null => Safe(lastAcked)
    BY <1>2, NewPackets, Basics DEF IInv, Ticks
  <2>2. CASE m \in down /\ n \in down
    BY <2>2 DEF IInv, BasesGrow
  <2>3. CASE m \in down /\ n \notin down
    BY <2>1, <2>3 DEF Safe
  <2>4. CASE m \notin down
    BY <2>1, <2>4
  <2> QED
    BY <2>2, <2>3, <2>4
<1> QED
  BY <1>1, <1>2

\* What is safe stays safe while a map is played, unless the server makes a
\* snapshot against a later one.
LEMMA SafeStays ==
    ASSUME IInv, [Next]_vars, ~EnterGame, NEW t \in Int, Safe(t),
           down' \subseteq down \/ lastAcked <= t
    PROVE  Safe(t)'
<1>1. t \in StoredTicks(cStore')
  BY StorageGrows DEF Safe
<1>2. ASSUME NEW m \in down'
      PROVE  m.base <= t
  <2>1. CASE m \in down
    BY <2>1 DEF Safe
  <2>2. CASE m \notin down
    <3>1. Tick /\ DoSnapshot(tick')
      BY <2>2, DownShrinks
    <3>2. m.base \in {Null, lastAcked}
      BY <2>2, <3>1, NewPackets
    <3>3. m.base = Null => m.base <= t
      <4>1. t \in Ticks
        BY Basics DEF IInv, Safe
      <4> QED
        BY <4>1 DEF Null, Ticks
    <3> QED
      BY <2>2, <3>2, <3>3
  <2> QED
    BY <2>1, <2>2
<1> QED
  BY <1>1, <1>2 DEF Safe

\* The part of Acked that is about what the server took and what it sent
AckedByServer(i) ==
    /\ late' = "no" /\ lastAcked' # Null => Safe(lastAcked)'
    /\ lastAcked' <= LastTick(cStore')
    /\ i \in 1 .. Len(up) =>
          /\ Own(i) /\ lastAcked' = up[i].ack
          /\ late' = "no" => ~up[i].overtaken

\* The acknowledgement the server takes is that of an input of the map played,
\* and safe unless the input was overtaken.
LEMMA AckTaken ==
    ASSUME IInv, [Next]_vars, Entered, Entered', late' # "foreign", ~EnterGame, ~ReloadMap
    PROVE  /\ late # "foreign"
           /\ \/ lastAcked' = lastAcked /\ AckedByServer(0)
              \/ \E i \in 1 .. Len(up) : ReceiveInput(i) /\ AckedByServer(i)
<1>0. /\ lastAcked \in Int /\ LastTick(cStore) \in Int /\ LastTick(cStore') \in Int
      /\ LastTick(cStore) <= LastTick(cStore')
      /\ \A i \in 1 .. Len(up) : up[i].ack \in Int
      /\ ~(0 \in 1 .. Len(up))
  BY StorageGrows, Basics DEF IInv
<1>1. CASE lastAcked' = lastAcked /\ late' = late
  <2>1. /\ late = "no" /\ lastAcked # Null => Safe(lastAcked)
        /\ lastAcked <= LastTick(cStore)
    BY <1>1 DEF IInv, Acked
  <2>2. late' = "no" /\ lastAcked' # Null => Safe(lastAcked)'
    <3>1. late = "no" /\ lastAcked # Null
             => lastAcked \in StoredTicks(cStore') /\ \A m \in down' : m.base <= lastAcked
      <4>1. ASSUME NEW t \in Int, t = lastAcked, Safe(lastAcked)
            PROVE  t \in StoredTicks(cStore') /\ \A m \in down' : m.base <= t
        BY <4>1, SafeStays DEF Safe
      <4> QED
        BY <1>0, <2>1, <4>1
    <3> QED
      BY <1>1, <3>1 DEF Safe
  <2> QED
    BY <1>0, <1>1, <2>1, <2>2 DEF AckedByServer
<1>2. ASSUME NEW i \in 1 .. Len(up), ReceiveInput(i)
      PROVE  late # "foreign" /\ AckedByServer(i)
  <2>1. /\ late # "foreign" /\ Own(i) /\ lastAcked' = up[i].ack
        /\ late' = "no" => ~up[i].overtaken
    BY <1>2 DEF ReceiveInput, Own
  <2>2. up[i].ack <= LastTick(cStore)
    BY <2>1 DEF IInv, Acked, AcksInFlight
  <2>3. late' = "no" /\ lastAcked' # Null => Safe(up[i].ack)
    BY <2>1 DEF IInv, Acked, AcksInFlight
  <2>4. down' = down /\ cStore' = cStore
    BY <1>2 DEF ReceiveInput, clientVars
  <2>5. late' = "no" /\ lastAcked' # Null => Safe(lastAcked)'
    BY <2>1, <2>3, <2>4 DEF Safe
  <2> QED
    BY <1>0, <2>1, <2>2, <2>5 DEF AckedByServer
<1> QED
  BY <1>1, <1>2, AckChanges

LEMMA AcksInFlightStep ==
    ASSUME IInv, [Next]_vars, Entered, Entered', late' # "foreign", ~EnterGame, ~ReloadMap
    PROVE  AcksInFlight'
<1> DEFINE was(j, l) ==
             /\ l \in 1 .. Len(up)
             /\ up'[j].ack = up[l].ack /\ up'[j].map = up[l].map
             /\ ~up'[j].overtaken => ~up[l].overtaken
<1>0. /\ late # "foreign" /\ map' = map
      /\ lastAcked \in Int /\ LastTick(cStore) \in Int /\ LastTick(cStore') \in Int
      /\ LastTick(cStore) <= LastTick(cStore')
      /\ up \in Seq(Input) /\ Len(up) \in Nat
      /\ \A i \in 1 .. Len(up) : up[i].ack \in Int
  BY AckTaken, PhaseChanges, StorageGrows, Basics DEF IInv
<1>1. /\ \A i \in 1 .. Len(up) : Own(i) => up[i].ack <= LastTick(cStore)
      /\ \A i \in 1 .. Len(up) :
            Own(i) /\ ~up[i].overtaken /\ up[i].ack # Null
                => Safe(up[i].ack) /\ lastAcked <= up[i].ack
      /\ \A i, j \in 1 .. Len(up) :
            i < j /\ Own(i) /\ Own(j) /\ up[j].ack # Null => up[i].ack <= up[j].ack
  BY <1>0 DEF IInv, Acked, AcksInFlight
<1>2. ASSUME NEW j \in 1 .. Len(up'), NEW l, was(j, l), Own(j)'
      PROVE  /\ Own(l) /\ up'[j].ack \in Int
             /\ up'[j].ack <= LastTick(cStore')
             /\ ~up'[j].overtaken /\ up'[j].ack # Null => Safe(up[j].ack)'
  <2>1. Own(l) /\ up'[j].ack = up[l].ack /\ up[l].ack <= LastTick(cStore) /\ up[l].ack \in Int
    BY <1>0, <1>1, <1>2 DEF Own
  <2>2. ASSUME ~up'[j].overtaken, up'[j].ack # Null
        PROVE  Safe(up[j].ack)'
    <3>1. Safe(up[l].ack) /\ lastAcked <= up[l].ack
      BY <1>1, <1>2, <2>1, <2>2
    <3>2. ASSUME NEW t \in Int, t = up[l].ack
          PROVE  t \in StoredTicks(cStore') /\ \A m \in down' : m.base <= t
      BY <3>1, <3>2, SafeStays DEF Safe
    <3> QED
      BY <2>1, <3>2 DEF Safe
  <2> QED
    BY <1>0, <2>1, <2>2
<1>3. ASSUME NEW f, NEW k \in Nat, Left(up', f, k)
      PROVE  /\ \A j \in 1 .. Len(up') : was(j, f[j])
             /\ \A i, j \in 1 .. Len(up') : i < j => f[i] < f[j]
             /\ \A j \in 1 .. Len(up') : ~up'[j].overtaken => k <= f[j]
  <2>1. ASSUME NEW j \in 1 .. Len(up')
        PROVE  was(j, f[j]) /\ (~up'[j].overtaken => k <= f[j])
    <3>1. /\ f[j] \in 1 .. Len(up)
          /\ up'[j].ack = up[f[j]].ack /\ up'[j].map = up[f[j]].map
          /\ up'[j].overtaken = (up[f[j]].overtaken \/ f[j] < k)
      BY <1>3 DEF Left
    <3>2. ~up'[j].overtaken => ~up[f[j]].overtaken /\ ~(f[j] < k)
      BY <3>1
    <3>3. f[j] \in Nat /\ (~(f[j] < k) => k <= f[j])
      BY <1>0, <3>1
    <3> QED
      BY <3>1, <3>2, <3>3
  <2>2. \A i, j \in 1 .. Len(up') : i < j => f[i] < f[j]
    BY <1>3 DEF Left
  <2> QED
    BY <2>1, <2>2
<1> HIDE DEF was
<1>4. ASSUME NEW f, NEW k \in Nat, Left(up', f, k),
             \A j \in 1 .. Len(up) :
                Own(j) /\ ~up[j].overtaken /\ up[j].ack # Null /\ k <= j
                    => lastAcked' <= up[j].ack
      PROVE  AcksInFlight'
  <2>0. /\ \A j \in 1 .. Len(up') : was(j, f[j])
        /\ \A i, j \in 1 .. Len(up') : i < j => f[i] < f[j]
        /\ \A j \in 1 .. Len(up') : ~up'[j].overtaken => k <= f[j]
    BY <1>3, <1>4
  <2>1. ASSUME NEW j \in 1 .. Len(up'), Own(j)'
        PROVE  /\ up'[j].ack <= LastTick(cStore')
               /\ ~up'[j].overtaken /\ up'[j].ack # Null
                      => Safe(up[j].ack)' /\ lastAcked' <= up'[j].ack
    <3>1. /\ Own(f[j])
          /\ up'[j].ack <= LastTick(cStore')
          /\ ~up'[j].overtaken /\ up'[j].ack # Null => Safe(up[j].ack)'
      BY <1>2, <2>0, <2>1
    <3>2. /\ f[j] \in 1 .. Len(up) /\ up'[j].ack = up[f[j]].ack
          /\ ~up'[j].overtaken => ~up[f[j]].overtaken /\ k <= f[j]
      BY <2>0 DEF was
    <3>3. ~up'[j].overtaken /\ up'[j].ack # Null => lastAcked' <= up'[j].ack
      BY <1>4, <3>1, <3>2
    <3> QED
      BY <3>1, <3>3
  <2>2. ASSUME NEW i \in 1 .. Len(up'), NEW j \in 1 .. Len(up'),
               i < j, Own(i)', Own(j)', up'[j].ack # Null
        PROVE  up'[i].ack <= up'[j].ack
    <3>1. Own(f[i]) /\ Own(f[j]) /\ f[i] < f[j]
      BY <1>2, <2>0, <2>2
    <3>2. /\ f[i] \in 1 .. Len(up) /\ f[j] \in 1 .. Len(up)
          /\ up'[i].ack = up[f[i]].ack /\ up'[j].ack = up[f[j]].ack
      BY <2>0 DEF was
    <3> QED
      BY <1>1, <2>2, <3>1, <3>2
  <2> QED
    BY <2>1, <2>2 DEF AcksInFlight
<1>5. CASE up' = up /\ lastAcked' = lastAcked
  <2>1. Left(up', [j \in 1 .. Len(up) |-> j], 0)
    <3>1. \A j \in 1 .. Len(up) : up[j].overtaken \in BOOLEAN
      BY Basics DEF IInv
    <3> QED
      BY <1>0, <1>5, <3>1 DEF Left
  <2> QED
    BY <1>1, <1>4, <1>5, <2>1
<1>6. ASSUME NEW i \in 1 .. Len(up), ReceiveInput(i), NEW f, Left(up', f, i)
      PROVE  \A j \in 1 .. Len(up) :
                Own(j) /\ ~up[j].overtaken /\ up[j].ack # Null /\ i <= j
                    => lastAcked' <= up[j].ack
  <2>1. Own(i) /\ lastAcked' = up[i].ack
    BY <1>6 DEF ReceiveInput, Own
  <2> QED
    BY <1>0, <1>1, <2>1
<1>7. ASSUME NEW a \in Ticks \cup {Null}, Send(a), a # Null => Safe(a)' /\ a = LastTick(cStore),
             lastAcked' = lastAcked
      PROVE  AcksInFlight'
  <2>1. \A j \in 1 .. Len(up') :
           \/ j \in 1 .. Len(up) /\ up'[j] = up[j]
           \/ j = Len(up') /\ Len(up') = Len(up) + 1 /\ up'[j].ack = a
    BY <1>0, <1>7, InputSent DEF IInv, TypeOK
  <2>2. a <= LastTick(cStore') /\ (a # Null => lastAcked <= a)
    <3>1. Null <= LastTick(cStore')
      BY <1>0, Basics DEF IInv, Ticks
    <3>2. lastAcked <= LastTick(cStore)
      BY <1>0 DEF IInv, Acked
    <3> QED
      BY <1>0, <1>7, <3>1, <3>2
  <2>3. ASSUME NEW j \in 1 .. Len(up'), Own(j)'
        PROVE  /\ up'[j].ack <= LastTick(cStore')
               /\ ~up'[j].overtaken /\ up'[j].ack # Null
                      => Safe(up[j].ack)' /\ lastAcked' <= up'[j].ack
    <3>1. CASE j \in 1 .. Len(up) /\ up'[j] = up[j]
      <4>1. was(j, j)
        BY <3>1 DEF was
      <4>2. Own(j) /\ up'[j].ack <= LastTick(cStore')
            /\ (~up'[j].overtaken /\ up'[j].ack # Null => Safe(up[j].ack)')
        BY <1>2, <2>3, <4>1
      <4> QED
        BY <1>1, <1>7, <3>1, <4>2
    <3>2. CASE up'[j].ack = a
      BY <1>7, <2>2, <3>2 DEF Safe
    <3> QED
      BY <2>1, <3>1, <3>2
  <2>4. ASSUME NEW i \in 1 .. Len(up'), NEW j \in 1 .. Len(up'),
               i < j, Own(i)', Own(j)', up'[j].ack # Null
        PROVE  up'[i].ack <= up'[j].ack
    <3>0. up' \in Seq(Input) /\ Len(up') \in Nat
      BY <1>0, <1>7, InputSent DEF IInv, TypeOK
    <3>1. i \in 1 .. Len(up) /\ up'[i] = up[i] /\ Own(i)
      BY <1>0, <2>1, <2>4, <3>0 DEF Own
    <3>2. CASE j \in 1 .. Len(up) /\ up'[j] = up[j]
      BY <1>0, <1>1, <2>4, <3>1, <3>2 DEF Own
    <3>3. CASE up'[j].ack = a
      BY <1>1, <1>7, <2>4, <3>1, <3>3
    <3> QED
      BY <2>1, <3>2, <3>3
  <2> QED
    BY <2>3, <2>4 DEF AcksInFlight
<1>8. SendInput => lastAcked' = lastAcked /\ (ackTick # Null => Safe(ackTick)' /\ ackTick = LastTick(cStore))
  <2> SUFFICES ASSUME SendInput
               PROVE  lastAcked' = lastAcked
                      /\ (ackTick # Null => Safe(ackTick)' /\ ackTick = LastTick(cStore))
    OBVIOUS
  <2>1. UNCHANGED <<lastAcked, down, cStore, ackTick>>
    BY DEF SendInput, serverVars
  <2>2. ackTick # Null => ackTick = LastTick(cStore) /\ ackTick \in StoredTicks(cStore)
    BY Basics DEF IInv, Clock
  <2>3. \A m \in down : m.base <= LastTick(cStore)
    BY <1>0 DEF IInv, Acked
  <2> QED
    BY <2>1, <2>2, <2>3 DEF Safe
<1>9. \A i \in 1 .. Len(up) : LoseInput(i) => lastAcked' = lastAcked
  BY DEF LoseInput, serverVars
<1>10. \A m \in down : ReceiveSnap(m) => lastAcked' = lastAcked
  BY DEF ReceiveSnap, serverVars
<1>11. CASE \E i \in 1 .. Len(up) : LoseInput(i) /\ \E f : Left(up', f, 1)
  BY <1>1, <1>4, <1>9, <1>11
<1>12. CASE \E i \in 1 .. Len(up) : ReceiveInput(i) /\ \E f : Left(up', f, i)
  <2>1. PICK i \in 1 .. Len(up) : ReceiveInput(i) /\ \E f : Left(up', f, i)
    BY <1>12
  <2>2. PICK f : Left(up', f, i)
    BY <2>1
  <2> QED
    BY <1>4, <1>6, <2>1, <2>2
<1>13. CASE \E m \in down : ReceiveSnap(m) /\ MissBase(m) /\ Send(Null)
  BY <1>7, <1>10, <1>13
<1>14. CASE SendInput /\ Send(ackTick)
  <2>1. ackTick \in Ticks \cup {Null} /\ ackTick' = ackTick
    BY <1>14 DEF IInv, TypeOK, SendInput
  <2>2. \A t : t = ackTick /\ Safe(ackTick)' => Safe(t)'
    BY <2>1 DEF Safe
  <2> QED
    BY <1>7, <1>8, <1>14, <2>1, <2>2
<1>15. up' = up => lastAcked' = lastAcked \/ \E i \in 1 .. Len(up) : ReceiveInput(i)
  BY AckChanges
<1>16. ASSUME up' = up, NEW i \in 1 .. Len(up), ReceiveInput(i)
       PROVE  \E f : Left(up', f, i)
  BY <1>0, <1>16, InputsLeft DEF ReceiveInput
<1> QED
  BY <1>5, <1>11, <1>12, <1>13, <1>14, <1>15, <1>16, UpChanges DEF IInv

LEMMA AckedStep ==
    ASSUME IInv, [Next]_vars
    PROVE  Acked'
<1>1. CASE EnterGame
  <2>1. /\ ~Entered /\ map' = map /\ cStore' = <<>> /\ down' = {} /\ up' = up
        /\ lastAcked' = lastAcked /\ late' = late
    BY <1>1 DEF EnterGame, Entered, serverVars
  <2>2. late' # "foreign" => lastAcked' = Null
    BY <2>1 DEF IInv, Inputs
  <2>3. \A i \in 1 .. Len(up') : ~Own(i)'
    BY <2>1 DEF IInv, Inputs, Own
  <2>4. LastTick(cStore)' = Null
    BY <2>1 DEF LastTick
  <2>5. AcksInFlight'
    BY <2>3 DEF AcksInFlight
  <2> QED
    BY <2>1, <2>2, <2>4, <2>5 DEF Acked, Null
<1>2. CASE ReloadMap
  BY <1>2 DEF ReloadMap, Acked, Entered
<1>3. CASE Entered' = Entered /\ ~EnterGame /\ ~ReloadMap
  <2> SUFFICES ASSUME Entered', late' # "foreign"
               PROVE  /\ late' = "no" /\ lastAcked' # Null => Safe(lastAcked)'
                      /\ lastAcked' <= LastTick(cStore')
                      /\ \A m \in down' : m.base <= LastTick(cStore')
                      /\ AcksInFlight'
    BY DEF Acked, LastTick
  <2>1. /\ late # "foreign"
        /\ late' = "no" /\ lastAcked' # Null => Safe(lastAcked)'
        /\ lastAcked' <= LastTick(cStore')
    BY <1>3, AckTaken DEF AckedByServer
  <2>2. AcksInFlight'
    BY <1>3, AcksInFlightStep
  <2>3. ASSUME NEW m \in down'
        PROVE  m.base <= LastTick(cStore')
    <3>1. /\ LastTick(cStore) \in Int /\ LastTick(cStore') \in Int
          /\ LastTick(cStore) <= LastTick(cStore') /\ Null <= LastTick(cStore)
          /\ \A l \in down : l.base \in Int
      BY <1>3, StorageGrows, Basics DEF IInv, Ticks
    <3>2. CASE m \in down
      <4>1. m.base <= LastTick(cStore)
        BY <1>3, <2>1, <3>2 DEF IInv, Acked
      <4> QED
        BY <3>1, <3>2, <4>1
    <3>3. CASE m \notin down
      <4>1. m.base \in {Null, lastAcked} /\ lastAcked' = lastAcked
        BY <3>3, DownShrinks, NewPackets
      <4> QED
        BY <2>1, <3>1, <4>1, Basics DEF IInv
    <3> QED
      BY <3>2, <3>3
  <2> QED
    BY <2>1, <2>2, <2>3
<1> QED
  BY <1>1, <1>2, <1>3, PhaseChanges DEF EnterGame, Entered, ReloadMap

---------------------------------------------------------------------------
(* What the server keeps.                                                  *)

\* A snapshot stays with the server for KeepTicks, and it gives up deltas only
\* when the one acknowledged is not there.
LEMMA ServerStored ==
    ASSUME TypeOK, NEW t \in Ticks, DoSnapshot(t)
    PROVE  /\ Renewed(sStore', sStore, t - KeepTicks, t, map)
           /\ rate = "FULL" /\ rate' = "RECOVER" => lastAcked \notin StoredTicks(sStore')
<1> DEFINE store == Add(PurgeUntil(sStore, t - KeepTicks), t, map)
<1>1. sStore \in Seq(Holder) /\ map \in Content /\ t - KeepTicks \in Int
  BY SnapshotAssumption DEF TypeOK, Store, Holder, Content, Ticks
<1>2. Renewed(store, sStore, t - KeepTicks, t, map)
  BY <1>1, PurgedAndAdded
<1>3. /\ sStore' = store
      /\ rate' = IF DeltaTick(store) = Null /\ rate = "FULL" THEN "RECOVER" ELSE rate
  BY DEF DoSnapshot
<1> HIDE DEF store
<1>4. StoredTicks(store) \subseteq Ticks
  BY <1>2, LastTickStored DEF Renewed
<1>5. DeltaTick(store) = Null => lastAcked \notin StoredTicks(store)
  BY <1>4 DEF DeltaTick, Ticks, Null
<1> QED
  BY <1>2, <1>3, <1>5

LEMMA KeptStays ==
    ASSUME IInv, [Next]_vars, ~ReloadMap
    PROVE  /\ \A t \in Int : Kept(sStore, t) => Kept(sStore', t)
           /\ \A m \in down' : m \notin down => Kept(sStore', m.tick)
           /\ LastTick(sStore') <= tick'
<1>0. /\ LastTick(sStore) \in Int /\ LastTick(sStore) <= tick /\ tick \in Nat
      /\ KeepTicks \in Nat
  BY Basics, SnapshotAssumption DEF IInv, Served
<1>1. CASE Tick /\ DoSnapshot(tick')
  <2>1. /\ tick' \in Ticks /\ tick' = tick + 1
        /\ \A m \in down' : m \notin down => m.tick = tick'
    BY <1>1, NewPackets DEF Tick
  <2>2. Renewed(sStore', sStore, tick' - KeepTicks, tick', map)
    BY <1>1, <2>1, ServerStored DEF IInv
  <2>3. /\ LastTick(sStore') = tick' /\ tick' \in StoredTicks(sStore')
        /\ \A u \in StoredTicks(sStore) : tick' - KeepTicks <= u => u \in StoredTicks(sStore')
    BY <2>2 DEF Renewed
  <2>4. ASSUME NEW t \in Int, Kept(sStore, t)
        PROVE  Kept(sStore', t)
    BY <1>0, <2>1, <2>3, <2>4 DEF Kept
  <2> QED
    BY <1>0, <2>1, <2>3, <2>4 DEF Kept
<1>2. CASE ~(Tick /\ DoSnapshot(tick'))
  <2>1. down' \subseteq down
    BY <1>2, DownShrinks
  <2>2. sStore' = sStore
    BY <1>2 DEF Next, vars, serverVars, Tick, ClientEnters, SendInput, SwitchSnapshot, LoadMap,
                EnterGame, ReceiveSnap, LoseSnap, ReceiveInput, LoseInput
  <2>3. tick' = tick \/ tick' = tick + 1
    BY TickChanges
  <2> QED
    BY <1>0, <2>1, <2>2, <2>3
<1> QED
  BY <1>1, <1>2

LEMMA ServedStep ==
    ASSUME IInv, [Next]_vars
    PROVE  Served'
<1>1. CASE ReloadMap
  BY <1>1 DEF ReloadMap, Served, Entered, LastTick, Null, MIN_TICK
<1>2. CASE EnterGame
  <2>1. /\ ~Entered /\ map' = map /\ Len(cStore') = 0 /\ down' = {} /\ up' = up
        /\ lastAcked' = lastAcked /\ late' = late /\ sStore' = sStore /\ tick' = tick
    BY <1>2, EmptySeq DEF EnterGame, Entered, serverVars
  <2>2. late' # "foreign" => lastAcked' = Null
    BY <2>1 DEF IInv, Inputs
  <2>3. \A i \in 1 .. Len(up') : ~Own(i)'
    BY <2>1 DEF IInv, Inputs, Own
  <2>4. StoredTicks(cStore') = {}
    BY <2>1 DEF StoredTicks
  <2> QED
    BY <2>1, <2>2, <2>3, <2>4 DEF IInv, Served, LastTick
<1>3. CASE Entered' = Entered /\ map' = map /\ ~EnterGame /\ ~ReloadMap
  <2>0. /\ \A t \in Int : Kept(sStore, t) => Kept(sStore', t)
        /\ \A m \in down' : m \notin down => Kept(sStore', m.tick)
        /\ LastTick(sStore') <= tick'
    BY <1>3, KeptStays
  <2> SUFFICES ASSUME Entered'
               PROVE  /\ \A t \in StoredTicks(cStore') : Kept(sStore', t)
                      /\ \A m \in down' : Kept(sStore', m.tick)
                      /\ late' # "foreign" /\ lastAcked' # Null => Kept(sStore', lastAcked')
                      /\ \A i \in 1 .. Len(up') :
                            Own(i)' /\ up'[i].ack # Null => Kept(sStore', up'[i].ack)
    BY <2>0 DEF Served, LastTick
  <2>1. /\ \A t \in StoredTicks(cStore) : Kept(sStore', t)
        /\ \A m \in down : Kept(sStore', m.tick)
        /\ late # "foreign" /\ lastAcked # Null => Kept(sStore', lastAcked)
        /\ \A i \in 1 .. Len(up) : Own(i) /\ up[i].ack # Null => Kept(sStore', up[i].ack)
    <3>1. /\ \A t \in StoredTicks(cStore) : t \in Int
          /\ \A m \in down : m.tick \in Int
          /\ lastAcked \in Int /\ \A i \in 1 .. Len(up) : up[i].ack \in Int
      BY Basics DEF IInv
    <3>2. Entered
      BY <1>3
    <3> QED
      BY <2>0, <3>1, <3>2 DEF IInv, Served
  <2>2. \A t \in StoredTicks(cStore') : Kept(sStore', t)
    <3>1. ASSUME NEW m \in down, Unpack(m)
          PROVE  \A t \in StoredTicks(cStore') : t = m.tick \/ t \in StoredTicks(cStore)
      <4>1. m \in SnapPacket
        BY DEF IInv, TypeOK
      <4> QED
        BY <3>1, <4>1, SnapshotStored DEF IInv, Renewed
    <3> QED
      BY <1>3, <2>1, <3>1, StorageChanges
  <2>3. \A m \in down' : Kept(sStore', m.tick)
    BY <2>0, <2>1
  <2>4. late' # "foreign" /\ lastAcked' # Null => Kept(sStore', lastAcked')
    <3>1. ASSUME NEW i \in 1 .. Len(up), ReceiveInput(i), late' # "foreign"
          PROVE  Own(i) /\ lastAcked' = up[i].ack
      BY <3>1 DEF ReceiveInput, Own
    <3> QED
      BY <1>3, <2>1, <3>1, AckChanges
  <2>5. \A i \in 1 .. Len(up') : Own(i)' /\ up'[i].ack # Null => Kept(sStore', up'[i].ack)
    <3>1. CASE up' = up
      BY <1>3, <2>1, <3>1 DEF Own
    <3>2. ASSUME NEW f, NEW k, Left(up', f, k)
          PROVE  \A i \in 1 .. Len(up') : Own(i)' /\ up'[i].ack # Null => Kept(sStore', up'[i].ack)
      <4>1. \A i \in 1 .. Len(up') : f[i] \in 1 .. Len(up) /\ up'[i].ack = up[f[i]].ack
                                     /\ up'[i].map = up[f[i]].map
        BY <3>2 DEF Left
      <4> QED
        BY <1>3, <2>1, <4>1 DEF Own
    <3>3. ASSUME NEW a \in Ticks \cup {Null}, Send(a), a # Null => a \in StoredTicks(cStore)
          PROVE  \A i \in 1 .. Len(up') : Own(i)' /\ up'[i].ack # Null => Kept(sStore', up'[i].ack)
      <4>1. \A j \in 1 .. Len(up') :
               \/ j \in 1 .. Len(up) /\ up'[j] = up[j]
               \/ up'[j].ack = a
        BY <3>3, InputSent DEF IInv, TypeOK
      <4> QED
        BY <1>3, <2>1, <3>3, <4>1 DEF Own
    <3>4. /\ ackTick \in Ticks \cup {Null} /\ (ackTick # Null => ackTick \in StoredTicks(cStore))
          /\ Null \in Ticks \cup {Null}
      BY Basics DEF IInv, Clock
    <3> QED
      BY <3>1, <3>2, <3>3, <3>4, UpChanges DEF IInv
  <2> QED
    BY <2>2, <2>3, <2>4, <2>5
<1> QED
  BY <1>1, <1>2, <1>3, PhaseChanges

---------------------------------------------------------------------------
(* Rounds.                                                                 *)

\* A loss, or another snapshot, ends the round and the count of rounds.
LEMMA DisturbedRounds ==
    ASSUME Disturbed
    PROVE  Rounds'
BY DEF Disturbed, Rounds

\* What neither side notices leaves the round as it is.
LEMMA SameRounds ==
    ASSUME IInv, join' = "playing" \/ join # "playing",
           UNCHANGED <<sStore, lastAcked, cStore, ackTick, recvTick, parts, down, up, round, calm>>
    PROVE  Rounds'
BY DEF IInv, Rounds, Arriving, Got, LastTick

\* A round begins when nothing else is in flight.
LEMMA RoundStarts ==
    ASSUME IInv, Tick, DoSnapshot(tick'), down = {}, up = <<>>, round = "off",
           round' = "down", UNCHANGED calm
    PROVE  Rounds'
<1>1. /\ Entered /\ UNCHANGED <<join, lastAcked, clientVars, up>>
      /\ tick' \in Ticks
  BY NewPackets
<1>2. PICK n \in Nat \ {0}, b \in {Null, lastAcked}, f \in Content \cup {NoMap} :
         down' = down \cup Packets(tick', b, f, n)
  BY NewPackets
<1>3. join = "playing" /\ sStore' # <<>> /\ LastTick(sStore') = tick'
  BY <1>1, SnapshotMade DEF IInv
<1>4. /\ recvTick \in Nat /\ tick' \in Nat /\ recvTick < tick' /\ ackTick < tick'
      /\ b \in Ticks \cup {Null}
  <2>1. recvTick <= tick /\ tick' = tick + 1 /\ tick \in Nat /\ recvTick \in Nat
    BY <1>1, Basics DEF IInv, Clock, Tick
  <2>2. ackTick \in {Null, LastTick(cStore)} /\ LastTick(cStore) <= recvTick
    BY DEF IInv, Clock
  <2>3. LastTick(cStore) \in Int /\ Null \in Int /\ Null = -1 /\ b \in Ticks \cup {Null}
    BY Basics DEF IInv
  <2> QED
    BY <2>1, <2>2, <2>3
<1>5. calm > 0 => b = Null \/ b \in StoredTicks(cStore)
  <2>1. calm > 0 => lastAcked = ackTick
    BY DEF IInv, Rounds
  <2>2. ackTick = Null \/ ackTick \in StoredTicks(cStore)
    BY Basics DEF IInv, Clock
  <2> QED
    BY <2>1, <2>2
<1>6. Got' = {}
  <2>1. recvTick' # LastTick(sStore')
    BY <1>1, <1>3, <1>4 DEF clientVars
  <2> QED
    BY <2>1 DEF Got, LastTick
<1>7. \A m \in down' : m.tick = tick' /\ m.parts = n /\ m.base = b /\ m.part < n
  <2>1. \A m \in down' : /\ m.tick = tick' /\ m.parts = n /\ m.base = b
                         /\ m.part \in 0 .. n - 1
    BY <1>2, PacketFields
  <2> QED
    BY <2>1
<1>8. \A p \in 0 .. n - 1 : \E m \in down' : m.part = p
  <2> TAKE p \in 0 .. n - 1
  <2> DEFINE m == [tick |-> tick', base |-> b, from |-> f, snap |-> map,
                   part |-> p, parts |-> n, late |-> late]
  <2>1. m \in Packets(tick', b, f, n)
    BY DEF Packets
  <2>2. m.part = p
    OBVIOUS
  <2> QED
    BY <1>2, <2>1, <2>2
<1>9. Got' # 0 .. n - 1
  <2>1. 0 \in 0 .. n - 1
    OBVIOUS
  <2> QED
    BY <1>6, <2>1
<1>10. Arriving(n, b)'
  <2>1. UNCHANGED <<cStore, ackTick, recvTick>>
    BY <1>1 DEF clientVars
  <2>2. LastTick(sStore)' = tick'
    BY <1>3 DEF LastTick
  <2> QED
    BY <1>4, <1>5, <1>6, <1>7, <1>8, <1>9, <2>1, <2>2 DEF Arriving
<1> QED
  BY <1>1, <1>3, <1>4, <1>10 DEF Rounds

\* A packet of the round's snapshot is taken, and the round goes on.
LEMMA PacketArrives ==
    ASSUME IInv, NEW m \in down, ReceiveSnap(m), NEW n \in Nat \ {0}, NEW b \in Ticks \cup {Null},
           Arriving(n, b), sStore # <<>>
    PROVE  Arriving(n, b)'
<1> DEFINE L == LastTick(sStore)
<1>0. /\ L \in Ticks /\ L \in Nat /\ L > Null /\ recvTick \in Nat /\ ackTick \in Int
      /\ sStore' = sStore /\ calm' = calm /\ LastTick(sStore)' = L
      /\ down' \in {down, down \ {m}}
      /\ m.part \in Nat /\ m.part < n /\ m.tick = L /\ m.base = b /\ m.parts = n
      /\ recvTick <= L
  <2>1. L \in Ticks /\ L \in Nat /\ L > Null
    <3>1. sStore \in Seq(Holder)
      BY DEF IInv, TypeOK, Store, Holder
    <3> QED
      BY <3>1, LastTickStored DEF Ticks, Null
  <2>2. sStore' = sStore /\ calm' = calm /\ down' \in {down, down \ {m}}
    BY DEF ReceiveSnap, serverVars
  <2>3. m.part \in Nat
    BY DEF IInv, TypeOK, SnapPacket
  <2> QED
    BY <2>1, <2>2, <2>3, Basics DEF IInv, Arriving, LastTick
<1> HIDE DEF L
<1>1. /\ \A l \in down' : l.tick = L /\ l.parts = n /\ l.base = b /\ l.part < n
      /\ recvTick' \in Nat /\ recvTick' <= L
  <2>1. recvTick' = recvTick \/ recvTick' = m.tick
    BY DEF ReceiveSnap, Discard, Collect, MissBase, Unpack, Complete, clientVars
  <2> QED
    BY <1>0, <2>1 DEF Arriving, L
<1>2. calm' > 0 => b = Null \/ b \in StoredTicks(cStore')
  <2>1. calm > 0 => b = Null \/ b \in StoredTicks(cStore)
    BY DEF Arriving
  <2>2. b \in Int /\ b <= b
    BY Basics DEF IInv
  <2>3. b \in StoredTicks(cStore) => b \in StoredTicks(cStore')
    <3>1. Unpack(m) \/ cStore' = cStore
      BY DEF ReceiveSnap, Discard, Collect, MissBase, clientVars
    <3> QED
      BY <1>0, <2>2, <3>1, NeededStays
  <2> QED
    BY <1>0, <2>1, <2>3
<1>3. \/ ackTick = L
      \/ ackTick = Null /\ b # Null /\ b \notin StoredTicks(cStore)
      \/ /\ ackTick < L
         /\ Got \subseteq 0 .. n - 1 /\ Got # 0 .. n - 1
         /\ \A p \in 0 .. n - 1 : p \in Got \/ \E l \in down : l.part = p
  BY DEF Arriving, L
<1>4. SUFFICES \/ ackTick' = L
               \/ ackTick' = Null /\ b # Null /\ b \notin StoredTicks(cStore')
               \/ /\ ackTick' < L
                  /\ Got' \subseteq 0 .. n - 1 /\ Got' # 0 .. n - 1
                  /\ \A p \in 0 .. n - 1 : p \in Got' \/ \E l \in down' : l.part = p
  BY <1>0, <1>1, <1>2, <1>4 DEF Arriving
<1>5. CASE Discard(m)
  <2>1. ~Acceptable(m) /\ ackTick' = ackTick
    BY <1>5 DEF Discard, clientVars
  <2> QED
    BY <1>0, <1>3, <2>1 DEF Acceptable
<1>6. CASE Collect(m)
  <2>1. /\ ackTick < L /\ ackTick' = ackTick /\ cStore' = cStore
        /\ recvTick' = L /\ parts' = PartsWith(m) /\ Cardinality(PartsWith(m)) < n
    BY <1>0, <1>6 DEF Collect, Acceptable
  <2>2. PartsWith(m) = Got \cup {m.part} /\ Got' = Got \cup {m.part}
    <3>1. PartsWith(m) = Got \cup {m.part}
      BY <1>0 DEF PartsWith, Got, L
    <3> QED
      BY <1>0, <2>1, <3>1 DEF Got
  <2>3. CASE ackTick = Null /\ b # Null /\ b \notin StoredTicks(cStore)
    BY <2>1, <2>3
  <2>4. CASE /\ Got \subseteq 0 .. n - 1 /\ Got # 0 .. n - 1
             /\ \A p \in 0 .. n - 1 : p \in Got \/ \E l \in down : l.part = p
    <3>1. Got' \subseteq 0 .. n - 1
      <4>1. m.part \in 0 .. n - 1
        BY <1>0
      <4> QED
        BY <2>2, <2>4, <4>1
    <3>2. Got' # 0 .. n - 1
      <4>1. n - 1 \in Int /\ 0 <= n - 1 /\ n - 1 - 0 + 1 = n
        OBVIOUS
      <4>2. Cardinality(0 .. n - 1) = n
        BY <4>1, FS_Interval
      <4>3. Cardinality(Got') < n
        BY <2>1, <2>2
      <4> QED
        BY <4>2, <4>3
    <3>3. ASSUME NEW p \in 0 .. n - 1
          PROVE  p \in Got' \/ \E l \in down' : l.part = p
      BY <1>0, <2>2, <2>4
    <3> QED
      BY <2>1, <3>1, <3>2, <3>3
  <2> QED
    BY <1>0, <1>3, <2>1, <2>3, <2>4
<1>7. CASE MissBase(m)
  BY <1>0, <1>7 DEF MissBase
<1>8. CASE Unpack(m)
  BY <1>0, <1>8 DEF Unpack
<1> QED
  BY <1>5, <1>6, <1>7, <1>8 DEF ReceiveSnap

LEMMA SnapRounds ==
    ASSUME IInv, NEW m \in down, ReceiveSnap(m)
    PROVE  Rounds'
<1>1. UNCHANGED <<join, sStore, round, calm, lastAcked>>
  BY DEF ReceiveSnap, serverVars
<1>2. ~(round = "up" \/ (round = "off" /\ calm > 0))
  BY DEF IInv, Rounds
<1>3. round = "down" => \E n \in Nat \ {0}, b \in Ticks \cup {Null} : Arriving(n, b)'
  BY PacketArrives DEF IInv, Rounds
<1>4. calm \in 0 .. 2
  BY DEF IInv, TypeOK
<1>5. ~(round' = "up" \/ (round' = "off" /\ calm' > 0)) /\ ~(round' = "off" /\ calm' = 2)
  BY <1>1, <1>2, <1>4
<1> QED
  BY <1>1, <1>3, <1>5 DEF IInv, Rounds

\* Of a snapshot no packet of which is left the client put all together, or the
\* base is missing.
LEMMA NothingArrives ==
    ASSUME NEW n, NEW b, Arriving(n, b), down = {}
    PROVE  \/ ackTick = LastTick(sStore)
           \/ ackTick = Null /\ b # Null /\ b \notin StoredTicks(cStore)
<1>1. ASSUME Got \subseteq 0 .. n - 1, Got # 0 .. n - 1,
             \A p \in 0 .. n - 1 : p \in Got \/ \E m \in down : m.part = p
      PROVE  FALSE
  BY <1>1
<1> QED
  BY <1>1 DEF Arriving

LEMMA SendRounds ==
    ASSUME IInv, SendInput
    PROVE  Rounds'
<1>1. /\ UNCHANGED <<sStore, lastAcked, join, cStore, ackTick, recvTick, parts, down, calm>>
      /\ Send(ackTick) /\ calm \in 0 .. 2
      /\ up \in Seq(Input) /\ Len(up) \in Nat /\ ackTick \in Ticks \cup {Null}
      /\ map \in Maps /\ (up = <<>> => Len(up) = 0)
  <2>1. /\ UNCHANGED <<sStore, lastAcked, join, cStore, ackTick, recvTick, parts, down, calm>>
        /\ Send(ackTick)
    BY DEF SendInput, serverVars, Undisturbed
  <2>2. calm \in 0 .. 2 /\ map \in Maps /\ up \in Seq(Input) /\ ackTick \in Ticks \cup {Null}
    BY DEF IInv, TypeOK
  <2> QED
    BY <2>1, <2>2, LenProperties, EmptySeq
<1>2. (\A i \in 1 .. Len(up) : up[i].ack = ackTick) => \A i \in 1 .. Len(up') : up'[i].ack = ackTick
  BY <1>1, InputSent
<1>3. CASE round = "down" /\ down = {} /\ up = <<>>
  <2>1. round' = "up" /\ down' = {}
    BY <1>1, <1>3 DEF SendInput
  <2>2. \A i \in 1 .. Len(up') : up'[i].ack = ackTick'
    BY <1>1, <1>2, <1>3
  <2>3. calm' > 0 => ackTick' = LastTick(sStore)'
    <3>1. PICK n \in Nat \ {0}, b \in Ticks \cup {Null} : Arriving(n, b)
      BY <1>3 DEF IInv, Rounds
    <3>2. calm > 0 => b = Null \/ b \in StoredTicks(cStore)
      BY <3>1 DEF Arriving
    <3>3. \/ ackTick = LastTick(sStore)
          \/ ackTick = Null /\ b # Null /\ b \notin StoredTicks(cStore)
      BY <1>3, <3>1, NothingArrives
    <3> QED
      BY <1>1, <3>2, <3>3 DEF LastTick
  <2>4. sStore' # <<>> /\ join' = "playing"
    BY <1>1, <1>3 DEF IInv, Rounds
  <2> QED
    BY <2>1, <2>2, <2>3, <2>4 DEF Rounds
<1>4. CASE ~(round = "down" /\ down = {} /\ up = <<>>)
  <2>1. round' = round
    BY <1>4 DEF SendInput, Undisturbed
  <2>2. round' = "down" => \E n \in Nat \ {0}, b \in Ticks \cup {Null} : Arriving(n, b)'
    BY <1>1, <2>1 DEF IInv, Rounds, Arriving, Got, LastTick
  <2>3. round' = "up" \/ (round' = "off" /\ calm' > 0) =>
           down' = {} /\ \A i \in 1 .. Len(up') : up'[i].ack = ackTick'
    BY <1>1, <1>2, <2>1 DEF IInv, Rounds
  <2>4. LastTick(sStore)' = LastTick(sStore)
    BY <1>1 DEF LastTick
  <2> QED
    BY <1>1, <2>1, <2>2, <2>3, <2>4 DEF IInv, Rounds
<1> QED
  BY <1>3, <1>4

LEMMA AckRounds ==
    ASSUME IInv, NEW i \in 1 .. Len(up), ReceiveInput(i)
    PROVE  Rounds'
<1>1. /\ UNCHANGED <<sStore, join, cStore, ackTick, recvTick, parts, down>>
      /\ lastAcked' = up[i].ack /\ calm \in 0 .. 2
      /\ up \in Seq(Input)
  BY DEF ReceiveInput, clientVars, IInv, TypeOK
<1>2. LastTick(sStore)' = LastTick(sStore)
  BY <1>1 DEF LastTick
<1>3. (\A j \in 1 .. Len(up) : up[j].ack = ackTick) => \A j \in 1 .. Len(up') : up'[j].ack = ackTick
  <2>1. PICK f : Left(up', f, i)
    BY <1>1, InputsLeft DEF ReceiveInput
  <2> QED
    BY <2>1 DEF Left
<1>4. CASE round = "up" /\ Len(up') = 0
  <2>1. round' = "off" /\ calm' = IF calm = 2 THEN 2 ELSE calm + 1
    BY <1>4 DEF ReceiveInput, RoundAfter
  <2>2. /\ down = {} /\ up[i].ack = ackTick /\ sStore # <<>> /\ join = "playing"
        /\ calm > 0 => ackTick = LastTick(sStore)
    BY <1>4 DEF IInv, Rounds
  <2>3. calm' = 2 => calm > 0
    BY <1>1, <2>1
  <2>4. \A j \in 1 .. Len(up') : up'[j].ack = ackTick'
    BY <1>4
  <2> QED
    BY <1>1, <1>2, <2>1, <2>2, <2>3, <2>4 DEF Rounds
<1>5. CASE ~(round = "up" /\ Len(up') = 0)
  <2>1. UNCHANGED <<round, calm>>
    BY <1>5 DEF ReceiveInput, RoundAfter, Undisturbed
  <2>2. round' = "down" => \E n \in Nat \ {0}, b \in Ticks \cup {Null} : Arriving(n, b)'
    BY <1>1, <2>1 DEF IInv, Rounds, Arriving, Got, LastTick
  <2>3. round' = "up" \/ (round' = "off" /\ calm' > 0) =>
           down' = {} /\ \A j \in 1 .. Len(up') : up'[j].ack = ackTick'
    BY <1>1, <1>3, <2>1 DEF IInv, Rounds
  <2>4. round' = "off" /\ calm' > 0 => lastAcked' = ackTick'
    BY <1>1, <2>1 DEF IInv, Rounds
  <2> QED
    BY <1>1, <1>2, <2>1, <2>2, <2>3, <2>4 DEF IInv, Rounds
<1> QED
  BY <1>4, <1>5

LEMMA RoundsStep ==
    ASSUME IInv, [Next]_vars
    PROVE  Rounds'
<1>1. CASE Tick
  <2>1. UNCHANGED <<join, lastAcked, clientVars, up>>
    BY <1>1 DEF Tick
  <2>2. CASE UNCHANGED <<sStore, rate, down, round, calm>>
    BY <2>1, <2>2, SameRounds DEF clientVars
  <2>3. CASE DoSnapshot(tick')
    <3>1. \/ Disturbed
          \/ down = {} /\ up = <<>> /\ round = "off" /\ round' = "down" /\ UNCHANGED calm
      BY <2>3 DEF DoSnapshot
    <3> QED
      BY <1>1, <2>3, <3>1, DisturbedRounds, RoundStarts
  <2> QED
    BY <1>1, <2>2, <2>3 DEF Tick
<1>2. CASE ReloadMap \/ EnterGame \/ (\E m \in down : LoseSnap(m))
           \/ \E i \in 1 .. Len(up) : LoseInput(i)
  BY <1>2, DisturbedRounds DEF ReloadMap, EnterGame, LoseSnap, LoseInput
<1>3. CASE UNCHANGED vars \/ ClientEnters \/ SwitchSnapshot \/ LoadMap
  BY <1>3, SameRounds DEF vars, serverVars, clientVars, ClientEnters, SwitchSnapshot, LoadMap
<1> QED
  BY <1>1, <1>2, <1>3, SnapRounds, SendRounds, AckRounds DEF Next

---------------------------------------------------------------------------
(* The inductive invariant.                                                *)

LEMMA InitInv == ASSUME Init PROVE IInv
<1>1. TypeOK
  <2>1. <<>> \in Store /\ <<>> \in Seq(Input) /\ 1 \in Maps
    BY EmptySeq, SnapshotAssumption DEF Store, Maps
  <2>2. /\ sStore \in Store /\ cStore \in Store /\ up \in Seq(Input) /\ map \in Maps
        /\ parts \subseteq Nat /\ down \subseteq SnapPacket
    BY <2>1 DEF Init
  <2>3. /\ lastAcked \in Ticks \cup {Null} /\ {prev, cur, ackTick} \subseteq Ticks \cup {Null}
        /\ tick \in Nat /\ recvTick \in Nat /\ received \in 0 .. 3 /\ calm \in 0 .. 2
    BY DEF Init, MIN_TICK
  <2> QED
    BY <2>2, <2>3 DEF Init, TypeOK
<1>2. /\ Len(cStore) = 0 /\ Len(sStore) = 0 /\ Len(up) = 0
      /\ LastTick(cStore) = Null /\ ~Entered /\ down = {}
  BY EmptySeq DEF Init, LastTick, Entered
<1>3. Contents
  <2>1. OneMap(0)
    BY <1>2 DEF Init, OneMap
  <2> QED
    BY <1>2, <2>1 DEF Contents
<1>4. Clock /\ Pointers
  BY <1>2 DEF Init, Clock, Pointers, PointersValid, Null
<1>5. Inputs /\ BaseKept /\ BasesGrow /\ Acked
  BY <1>2 DEF Init, Inputs, BaseKept, BasesGrow, Acked
<1>6. Rounds
  BY DEF Init, Rounds
<1>7. Served
  BY <1>2 DEF Init, Served, LastTick, Null, MIN_TICK
<1> QED
  BY <1>1, <1>3, <1>4, <1>5, <1>6, <1>7 DEF IInv

LEMMA NextInv == ASSUME IInv, [Next]_vars PROVE IInv'
<1>1. TypeOK'
  BY TypeStep DEF IInv
<1> QED
  BY <1>1, ContentsStep, ClockStep, PointersStep, InputsStep, BaseKeptStep, BasesGrowStep,
     AckedStep, ServedStep, RoundsStep DEF IInv

\* The two sides' storages, their clocks, what is acknowledged and what is in
\* flight fit together in every state.
THEOREM SnapshotsInv == Spec => []IInv
BY InitInv, NextInv, PTL DEF Spec

\* Both sides' state and all that is in flight stay well-formed.
THEOREM SnapshotsTypeOK == Spec => []TypeOK
<1>1. IInv => TypeOK
  BY DEF IInv
<1> QED
  BY <1>1, SnapshotsInv, PTL

\* Unpack purges the storage up to PurgeTick, and the two snapshots that
\* m_aapSnapshots points to are still in it, in the order of time.
THEOREM PointersStayValid == Spec => []PointersValid
<1>1. IInv => PointersValid
  BY DEF IInv, Pointers
<1> QED
  BY <1>1, SnapshotsInv, PTL

\* No delta is unpacked against another snapshot than the one CServer::DoSnapshot
\* made it from, and no snapshot of another map stays in m_aSnapshotStorage.
THEOREM StoredRightAlways == Spec => []StoredRight
<1>1. ASSUME IInv
      PROVE  StoredRight
  <2>1. PICK k \in Nat : OneMap(k)
    BY <1>1 DEF IInv, Contents
  <2>2. cStore \in Seq(Holder) /\ map \in Nat
    BY <1>1, Basics DEF IInv
  <2>3. ASSUME NEW i \in 1 .. Len(cStore)
        PROVE  cStore[i].snap \in (IF Entered THEN {map} ELSE 1 .. (map - 1))
    <3>1. cStore[i] \in Holder
      BY <2>2, ElementOfSeq
    <3>2. k \in Maps /\ cStore[i].snap = k
      BY <2>1, <3>1, SnapshotAssumption DEF OneMap, Holder, Content
    <3> QED
      BY <2>1, <2>2, <3>2 DEF OneMap, Maps
  <2> QED
    BY <2>3 DEF StoredRight
<1> QED
  BY <1>1, SnapshotsInv, PTL

\* Whatever the client purges in Unpack, the base of a snapshot it can still
\* accept is not among it, unless the server's lastAcked is from an input that
\* was overtaken or meant for another map.
THEOREM BasesStay == Spec => []BaseKept
<1>1. IInv => BaseKept
  BY DEF IInv
<1> QED
  BY <1>1, SnapshotsInv, PTL

\* After two rounds without a loss m_aAckGameTick is the snapshot that
\* CServer::DoSnapshot made last and the one the client stored last.
THEOREM TwoRoundsRecover == Spec => []Recovers
<1>1. ASSUME IInv
      PROVE  Recovers
  <2> SUFFICES ASSUME calm = 2, round = "off"
               PROVE  /\ ackTick = sStore[Len(sStore)].tick
                      /\ ackTick = cStore[Len(cStore)].tick
    BY DEF Recovers
  <2>1. sStore # <<>> /\ ackTick = LastTick(sStore)
    BY <1>1 DEF IInv, Rounds
  <2>2. LastTick(sStore) # Null
    BY <1>1, <2>1, LastTickStored DEF IInv, TypeOK, Store, Holder
  <2>3. ackTick = LastTick(cStore)
    BY <1>1, <2>1, <2>2 DEF IInv, Clock
  <2> QED
    BY <2>1, <2>2, <2>3 DEF LastTick
<1> QED
  BY <1>1, SnapshotsInv, PTL

\* CServer::DoSnapshot turns to SNAPRATE_RECOVER only when m_LastAckedSnapshot is
\* not set or older than TickSpeed() * 3, or is from an input for another map:
\* what PurgeUntil leaves in m_Snapshots has every tick the client acknowledges.
THEOREM DeltasWhileKept == Spec => DeltaWhileKept
<1>1. ASSUME IInv, [Next]_vars, rate = "FULL", rate' = "RECOVER"
      PROVE  lastAcked = Null \/ lastAcked < tick' - KeepTicks \/ late = "foreign"
  <2>1. Tick /\ DoSnapshot(tick')
    BY <1>1 DEF Next, vars, serverVars, Tick, ReloadMap, ClientEnters, SendInput, SwitchSnapshot,
                LoadMap, EnterGame, ReceiveSnap, LoseSnap, ReceiveInput, LoseInput
  <2>2. tick' \in Ticks /\ Entered
    BY <1>1, <2>1, NewPackets
  <2>3. /\ lastAcked \notin StoredTicks(sStore')
        /\ LastTick(sStore') = tick'
    BY <1>1, <2>1, <2>2, ServerStored DEF IInv, Renewed
  <2>4. lastAcked # Null /\ late # "foreign" => Kept(sStore', lastAcked)
    <3>1. ~ReloadMap /\ lastAcked \in Int
      <4>1. tick' # MIN_TICK
        BY <2>2 DEF Ticks
      <4> QED
        BY <1>1, <4>1, Basics DEF ReloadMap, IInv
    <3>2. lastAcked # Null /\ late # "foreign" => Kept(sStore, lastAcked)
      BY <1>1, <2>2 DEF IInv, Served
    <3> QED
      BY <1>1, <3>1, <3>2, KeptStays
  <2> QED
    BY <2>3, <2>4 DEF Kept
<1> QED
  BY <1>1, SnapshotsInv, PTL DEF Spec, DeltaWhileKept

---------------------------------------------------------------------------
(* The view.                                                               *)

\* What is shown is of the one map of all that is stored.
LEMMA ShownMap ==
    ASSUME NEW s, NEW k, \A i \in 1 .. Len(s) : s[i].snap = k, NEW t \in StoredTicks(s)
    PROVE  HolderOf(s, t).snap = k
BY HolderFound

LEMMA ShownNow ==
    ASSUME IInv, prev # Null, NEW k \in Nat, OneMap(k)
    PROVE  Shown(prev) = [map |-> k, tick |-> prev] /\ Shown(cur) = [map |-> k, tick |-> cur]
<1>1. prev \in StoredTicks(cStore) /\ cur \in StoredTicks(cStore)
  BY DEF IInv, Pointers, PointersValid
<1>2. \A i \in 1 .. Len(cStore) : cStore[i].snap = k
  BY DEF OneMap
<1> QED
  BY <1>1, <1>2, ShownMap DEF Shown

\* Two moments of one map, the later of which happened on the server
LEMMA PictureMade ==
    ASSUME NEW k \in Nat, NEW p \in Ticks, NEW c \in Ticks, p < c,
           map \in Nat, tick \in Nat, k <= map, k = map => c <= tick
    PROVE  View!Picture(<<[map |-> k, tick |-> p], [map |-> k, tick |-> c]>>)
BY DEF View!Picture, View!Moment, View!Before, View!Happened, Ticks

\* A step that leaves what is shown alone, and what it leaves of it
LEMMA ViewStays ==
    ASSUME UNCHANGED <<cStore, prev, cur>>
    PROVE  UNCHANGED (IF prev = Null THEN <<>> ELSE <<Shown(prev), Shown(cur)>>)
BY DEF Shown

LEMMA WorldProceeds ==
    ASSUME IInv, IInv', Tick \/ ReloadMap
    PROVE  View!Proceed
<1>1. /\ map \in Nat /\ tick \in Nat
      /\ \/ map' = map /\ tick' = tick + 1
         \/ map' = map + 1 /\ tick' = 0
  BY Basics DEF IInv, Tick, ReloadMap, MIN_TICK
<1>2. UNCHANGED <<cStore, prev, cur>>
  BY DEF Tick, ReloadMap, clientVars
<1> QED
  BY <1>1, <1>2, ViewStays DEF View!Proceed, View!Moment, View!Happened

LEMMA ViewLeaves ==
    ASSUME EnterGame
    PROVE  View!Leave
<1>1. prev' = Null /\ map' = map /\ tick' = tick
  BY DEF EnterGame, serverVars
<1> QED
  BY <1>1 DEF View!Leave

LEMMA ViewAdvances ==
    ASSUME IInv, IInv', SwitchSnapshot
    PROVE  View!Advance
<1>1. PICK k \in Nat : OneMap(k)
  BY DEF IInv, Contents
<1>2. /\ UNCHANGED <<cStore, map, tick>>
      /\ prev # Null /\ prev' = cur /\ cur # Null
  BY DEF SwitchSnapshot, serverVars, IInv, Pointers, PointersValid
<1>3. cur' \in Ticks /\ cur \in Ticks /\ cur < cur' /\ cur \in StoredTicks(cStore) /\ cur' \in StoredTicks(cStore)
  BY <1>2 DEF IInv, TypeOK, Pointers, PointersValid
<1>4. /\ Shown(prev) = [map |-> k, tick |-> prev] /\ Shown(cur) = [map |-> k, tick |-> cur]
      /\ Shown(prev)' = [map |-> k, tick |-> cur] /\ Shown(cur)' = [map |-> k, tick |-> cur']
  <2>1. \A i \in 1 .. Len(cStore) : cStore[i].snap = k
    BY <1>1 DEF OneMap
  <2>2. HolderOf(cStore, cur).snap = k /\ HolderOf(cStore, cur').snap = k
    BY <1>3, <2>1, ShownMap
  <2> QED
    BY <1>1, <1>2, <2>2, ShownNow DEF Shown
<1>5. k <= map /\ (k = map => cur' <= tick)
  <2>1. k <= map /\ (k = map <=> Entered)
    BY <1>1 DEF OneMap
  <2>2. cur' <= LastTick(cStore)
    BY <1>3, LastIsLatest
  <2>3. Entered => LastTick(cStore) <= recvTick /\ recvTick <= tick
    BY DEF IInv, Clock
  <2>4. /\ LastTick(cStore) \in Int /\ recvTick \in Int /\ tick \in Int /\ cur' \in Int
    BY <1>3, Basics DEF IInv, Ticks
  <2> QED
    BY <2>1, <2>2, <2>3, <2>4
<1>6. View!Picture(<<[map |-> k, tick |-> cur], [map |-> k, tick |-> cur']>>)
  BY <1>3, <1>5, PictureMade, Basics DEF IInv
<1>7. prev' # Null
  BY <1>2
<1> QED
  BY <1>2, <1>4, <1>6, <1>7 DEF View!Advance

\* The second snapshot since the map was entered opens the view; a later one
\* leaves it alone.
LEMMA ViewOpens ==
    ASSUME IInv, IInv', NEW m \in down, Unpack(m), ReceiveSnap(m)
    PROVE  View!Open \/ UNCHANGED <<[map |-> map, tick |-> tick],
                                    IF prev = Null THEN <<>> ELSE <<Shown(prev), Shown(cur)>> >>
<1>1. PICK k \in Nat : OneMap(k)
  BY DEF IInv, Contents
<1>2. UNCHANGED <<map, tick>> /\ map \in Nat /\ tick \in Nat
  BY Basics DEF IInv, ReceiveSnap, serverVars
<1>3. \A i \in 1 .. Len(cStore') : cStore'[i].snap = k
  BY <1>1, UnpackedAll
<1>4. /\ prev' = Null <=> cur' = Null
      /\ prev' # Null => /\ prev' \in Ticks /\ cur' \in Ticks /\ prev' < cur'
                         /\ prev' \in StoredTicks(cStore') /\ cur' \in StoredTicks(cStore')
  BY DEF IInv, TypeOK, Pointers, PointersValid
<1>5. prev' # Null => /\ Shown(prev)' = [map |-> k, tick |-> prev']
                      /\ Shown(cur)' = [map |-> k, tick |-> cur']
  BY <1>3, <1>4, ShownMap DEF Shown
<1>6. CASE received = 1
  <2>1. prev = Null /\ received' = 2
    BY <1>6 DEF IInv, Pointers, Unpack
  <2>2. prev' # Null
    BY <2>1 DEF IInv, Pointers
  <2>3. cur' = m.tick
    <3>1. m \in SnapPacket
      BY DEF IInv, TypeOK
    <3>2. cStore'[Len(cStore')].tick = m.tick
      BY <3>1, SnapshotStored DEF IInv, Renewed
    <3> QED
      BY <1>6, <3>2 DEF Unpack
  <2>4. k <= map /\ (k = map => cur' <= tick)
    BY <1>1, <2>3 DEF OneMap, IInv, Clock
  <2>5. View!Picture(<<[map |-> k, tick |-> prev'], [map |-> k, tick |-> cur']>>)
    BY <1>2, <1>4, <2>2, <2>4, PictureMade
  <2> QED
    BY <1>2, <1>5, <2>1, <2>2, <2>5 DEF View!Open
<1>7. CASE received # 1
  <2>1. prev' = prev /\ cur' = cur
    BY <1>7 DEF Unpack
  <2>2. prev # Null => Shown(prev)' = Shown(prev) /\ Shown(cur)' = Shown(cur)
    BY <1>1, <1>5, <2>1, ShownNow
  <2> QED
    BY <1>2, <2>1, <2>2
<1> QED
  BY <1>6, <1>7

LEMMA ViewStep ==
    ASSUME IInv, IInv', [Next]_vars
    PROVE  View!Next \/ UNCHANGED <<[map |-> map, tick |-> tick],
                                    IF prev = Null THEN <<>> ELSE <<Shown(prev), Shown(cur)>> >>
<1>1. CASE UNCHANGED <<cStore, prev, cur, map, tick>>
  BY <1>1, ViewStays
<1>2. CASE \E m \in down : Unpack(m) /\ ReceiveSnap(m)
  BY <1>2, ViewOpens DEF View!Next
<1>3. \/ UNCHANGED <<cStore, prev, cur, map, tick>>
      \/ Tick \/ ReloadMap \/ EnterGame \/ SwitchSnapshot
      \/ \E m \in down : Unpack(m) /\ ReceiveSnap(m)
  BY DEF Next, vars, serverVars, clientVars, ClientEnters, SendInput, LoadMap, ReceiveSnap,
         LoseSnap, ReceiveInput, LoseInput, Discard, Collect, MissBase
<1> QED
  BY <1>1, <1>2, <1>3, WorldProceeds, ViewLeaves, ViewAdvances DEF View!Next

\* What the player sees through m_aapSnapshots is SnapshotView: two moments of
\* one map that were played on the server, and never a step back, whatever is
\* lost, repeated and reordered on the way.
THEOREM ImplementsView == Spec => ViewSpec
<1>1. ASSUME Init
      PROVE  View!Init
  <2>1. map = 1 /\ tick = 0 /\ prev = Null
    BY <1>1 DEF Init, MIN_TICK
  <2> QED
    BY <2>1 DEF View!Init, View!Moment
<1>2. ASSUME IInv, IInv', [Next]_vars
      PROVE  [View!Next]_(<<[map |-> map, tick |-> tick],
                            IF prev = Null THEN <<>> ELSE <<Shown(prev), Shown(cur)>> >>)
  BY <1>2, ViewStep
<1> QED
  BY <1>1, <1>2, SnapshotsInv, PTL DEF Spec, ViewSpec, View!Spec
=============================================================================
