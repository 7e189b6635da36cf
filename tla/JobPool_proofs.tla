-------------------------- MODULE JobPool_proofs --------------------------
(***************************************************************************)
(* Proofs about JobPool for any number of jobs and worker threads: the     *)
(* invariant PInv is inductive, and the properties follow from it.         *)
(***************************************************************************)
EXTENDS JobPool, FiniteSetTheorems, SequenceTheorems, TLAPS

-----------------------------------------------------------------------------
(* Operators *)

\* Unlinking an entry shifts the later ones, as Shutdown's pPrev does.
LEMMA RemoveAtEntries ==
    ASSUME NEW s \in Seq(Job), NEW n \in 1 .. Len(s)
    PROVE  /\ RemoveAt(s, n) \in Seq(Job)
           /\ Len(RemoveAt(s, n)) = Len(s) - 1
           /\ \A i \in 1 .. Len(s) - 1 :
                RemoveAt(s, n)[i] = IF i < n THEN s[i] ELSE s[i + 1]
<1> DEFINE front == SubSeq(s, 1, n - 1)
           back == SubSeq(s, n + 1, Len(s))
<1>1. /\ front \in Seq(Job)
      /\ Len(front) = n - 1
      /\ \A i \in 1 .. n - 1 : front[i] = s[i]
  BY SMT
<1>2. /\ back \in Seq(Job)
      /\ Len(back) = Len(s) - n
      /\ \A i \in 1 .. Len(s) - n : back[i] = s[n + i]
  BY SMT
<1>3. RemoveAt(s, n) = front \o back
  BY DEF RemoveAt
<1> HIDE DEF front, back
<1>4. /\ front \o back \in Seq(Job)
      /\ Len(front \o back) = Len(front) + Len(back)
      /\ \A i \in 1 .. Len(front) + Len(back) :
           (front \o back)[i] = IF i <= Len(front) THEN front[i] ELSE back[i - Len(front)]
  BY <1>1, <1>2, ConcatProperties
<1>5. Len(s) \in Nat /\ Len(front) + Len(back) = Len(s) - 1
  BY <1>1, <1>2
<1>6. ASSUME NEW i \in 1 .. Len(s) - 1
      PROVE  (front \o back)[i] = IF i < n THEN s[i] ELSE s[i + 1]
  <2>1. CASE i < n
    BY <1>1, <1>4, <1>5, <2>1
  <2>2. CASE i >= n
    <3>1. (front \o back)[i] = back[i - (n - 1)]
      BY <1>1, <1>4, <1>5, <2>2
    <3>2. i - (n - 1) \in 1 .. Len(s) - n
      BY <1>5, <2>2
    <3>3. back[i - (n - 1)] = s[n + (i - (n - 1))] /\ n + (i - (n - 1)) = i + 1
      BY <1>2, <3>2
    <3> QED BY <1>5, <3>1, <3>3, <2>2
  <2> QED BY <1>5, <2>1, <2>2
<1> QED BY <1>3, <1>4, <1>5, <1>6

\* The unlinked job is the only one that leaves the queue.
LEMMA RemoveAtRange ==
    ASSUME NEW s \in Seq(Job), NEW n \in 1 .. Len(s), IsInjective(s)
    PROVE  /\ IsInjective(RemoveAt(s, n))
           /\ Range(RemoveAt(s, n)) = Range(s) \ {s[n]}
<1> DEFINE r == RemoveAt(s, n)
<1>1. /\ r \in Seq(Job) /\ Len(r) = Len(s) - 1
      /\ \A i \in 1 .. Len(s) - 1 : r[i] = IF i < n THEN s[i] ELSE s[i + 1]
  BY RemoveAtEntries
<1> HIDE DEF r
<1>2. Len(s) \in Nat /\ DOMAIN r = 1 .. Len(s) - 1 /\ DOMAIN s = 1 .. Len(s)
  BY <1>1
<1>3. /\ Len(s) \in Nat
      /\ DOMAIN r = 1 .. Len(s) - 1 /\ DOMAIN s = 1 .. Len(s)
      /\ \A i \in 1 .. Len(s) - 1 : r[i] = IF i < n THEN s[i] ELSE s[i + 1]
  BY <1>1, <1>2
<1>4. \A i, k \in 1 .. Len(s) : s[i] = s[k] => i = k
  BY <1>3 DEF IsInjective
<1>5. IsInjective(r)
  BY <1>3, <1>4 DEF IsInjective
<1>6. ASSUME NEW x \in Range(r) PROVE x \in Range(s) \ {s[n]}
  <2>1. PICK i \in 1 .. Len(s) - 1 : x = r[i]
    BY <1>3, <1>6 DEF Range
  <2> QED BY <1>3, <1>4, <2>1 DEF Range
<1>7. ASSUME NEW x \in Range(s) \ {s[n]} PROVE x \in Range(r)
  <2>1. PICK i \in 1 .. Len(s) : x = s[i] /\ i # n
    BY <1>3, <1>7 DEF Range
  <2>2. CASE i < n
    BY <1>3, <2>1, <2>2 DEF Range
  <2>3. CASE i > n
    <3>1. i - 1 \in 1 .. Len(s) - 1 /\ r[i - 1] = s[i]
      BY <1>3, <2>1, <2>3
    <3> QED BY <1>3, <2>1, <3>1 DEF Range
  <2> QED BY <1>3, <2>1, <2>2, <2>3
<1> QED BY <1>5, <1>6, <1>7 DEF r

\* The first job leaves the queue.
LEMMA TailRange ==
    ASSUME NEW s \in Seq(Job), s # <<>>, IsInjective(s)
    PROVE  /\ Tail(s) \in Seq(Job) /\ Len(Tail(s)) = Len(s) - 1
           /\ Head(s) \in Range(s)
           /\ IsInjective(Tail(s))
           /\ Range(Tail(s)) = Range(s) \ {Head(s)}
<1>1. /\ Tail(s) \in Seq(Job) /\ Len(Tail(s)) = Len(s) - 1 /\ Len(s) \in Nat \ {0}
      /\ DOMAIN Tail(s) = 1 .. Len(s) - 1 /\ DOMAIN s = 1 .. Len(s)
      /\ \A i \in 1 .. Len(s) - 1 : Tail(s)[i] = s[i + 1]
      /\ Head(s) = s[1]
  BY SMT
<1>2. \A i, k \in 1 .. Len(s) : s[i] = s[k] => i = k
  BY <1>1 DEF IsInjective
<1>3. IsInjective(Tail(s))
  BY <1>1, <1>2 DEF IsInjective
<1>4. ASSUME NEW x \in Range(Tail(s)) PROVE x \in Range(s) \ {Head(s)}
  <2>1. PICK i \in 1 .. Len(s) - 1 : x = s[i + 1]
    BY <1>1, <1>4 DEF Range
  <2> QED BY <1>1, <1>2, <2>1 DEF Range
<1>5. ASSUME NEW x \in Range(s) \ {Head(s)} PROVE x \in Range(Tail(s))
  <2>1. PICK i \in 1 .. Len(s) : x = s[i] /\ i # 1
    BY <1>1, <1>5 DEF Range
  <2>2. i - 1 \in 1 .. Len(s) - 1 /\ Tail(s)[i - 1] = s[i]
    BY <1>1, <2>1
  <2> QED BY <1>1, <2>1, <2>2 DEF Range
<1>6. Head(s) \in Range(s)
  BY <1>1 DEF Range
<1> QED BY <1>1, <1>3, <1>4, <1>5, <1>6

\* A new job enters at the end of the queue.
LEMMA AppendRange ==
    ASSUME NEW s \in Seq(Job), NEW j \in Job, j \notin Range(s), IsInjective(s)
    PROVE  /\ Append(s, j) \in Seq(Job) /\ Len(Append(s, j)) = Len(s) + 1
           /\ IsInjective(Append(s, j))
           /\ Range(Append(s, j)) = Range(s) \union {j}
<1>1. /\ Append(s, j) \in Seq(Job) /\ Len(Append(s, j)) = Len(s) + 1 /\ Len(s) \in Nat
      /\ DOMAIN Append(s, j) = 1 .. Len(s) + 1 /\ DOMAIN s = 1 .. Len(s)
      /\ \A i \in 1 .. Len(s) : Append(s, j)[i] = s[i]
      /\ Append(s, j)[Len(s) + 1] = j
  BY SMT
<1>2. \A i \in 1 .. Len(s) : s[i] # j
  BY <1>1 DEF Range
<1>3. IsInjective(Append(s, j))
  BY <1>1, <1>2 DEF IsInjective
<1>4. Range(Append(s, j)) = Range(s) \union {j}
  BY <1>1 DEF Range
<1> QED BY <1>1, <1>3, <1>4

\* One worker thread more, or less, that is fetching.
LEMMA FetchingMore ==
    ASSUME NEW w \in Worker, w \notin Fetching, worker \in [Worker -> WorkerPlaces],
           worker' = [worker EXCEPT ![w] = "fetch"], JobPoolAssumption
    PROVE  Cardinality(Fetching') = Cardinality(Fetching) + 1
<1>1. Fetching' = Fetching \union {w}
  BY DEF Fetching
<1>2. IsFiniteSet(Fetching)
  BY FS_Subset DEF Fetching, JobPoolAssumption
<1> QED BY <1>1, <1>2, FS_AddElement

\* A worker thread stops fetching.
LEMMA FetchingLess ==
    ASSUME NEW w \in Worker, w \in Fetching, worker \in [Worker -> WorkerPlaces],
           NEW p, p # "fetch",
           worker' = [worker EXCEPT ![w] = p], JobPoolAssumption
    PROVE  Cardinality(Fetching') = Cardinality(Fetching) - 1
<1>1. Fetching' = Fetching \ {w}
  BY DEF Fetching
<1>2. IsFiniteSet(Fetching)
  BY FS_Subset DEF Fetching, JobPoolAssumption
<1> QED BY <1>1, <1>2, FS_RemoveElement

\* A worker thread that is fetching counts.
LEMMA FetchingSome ==
    ASSUME NEW w \in Worker, w \in Fetching, JobPoolAssumption
    PROVE  Cardinality(Fetching) >= 1
<1>1. IsFiniteSet(Fetching) /\ Fetching # {}
  BY FS_Subset DEF Fetching, JobPoolAssumption
<1>2. Cardinality(Fetching) \in Nat /\ Cardinality(Fetching) # 0
  BY <1>1, FS_CardinalityType, FS_EmptySet
<1> QED BY <1>2

\* A step of a worker thread elsewhere does not count.
LEMMA FetchingSame ==
    ASSUME NEW w \in Worker, NEW p, p # "fetch", worker[w] # "fetch",
           worker \in [Worker -> WorkerPlaces], worker' = [worker EXCEPT ![w] = p]
    PROVE  Fetching' = Fetching
BY DEF Fetching

\* There are finitely many worker threads.
LEMMA FetchingCount ==
    ASSUME JobPoolAssumption
    PROVE  Cardinality(Fetching) \in Nat
BY FS_Subset, FS_CardinalityType DEF Fetching, JobPoolAssumption

-----------------------------------------------------------------------------
(* The invariant *)

\* The pool as constructed satisfies the invariant.
THEOREM PInvInit == Init => PInv
<1> SUFFICES ASSUME Init PROVE PInv
  OBVIOUS
<1> USE DEF Init
<1>1. TypeOK
  BY JobPoolAssumption DEF JobPoolAssumption, TypeOK, JobStates, WorkerPlaces, MainPlaces, Holding
<1>2. OneOwner /\ JobStateValid
  BY DEF OneOwner, JobStateValid, IsInjective, Range
<1>3. EnoughSignals /\ ExactSignals
  BY JobPoolAssumption, FetchingCount DEF EnoughSignals, ExactSignals
<1>4. MainAndShutdown /\ Drained /\ Accounted
  BY JobPoolAssumption DEF JobPoolAssumption, MainAndShutdown, Drained, Accounted, Range
<1> QED BY <1>1, <1>2, <1>3, <1>4 DEF PInv

\* No worker thread is left when Init starts them again.
LEMMA InitPoolPInv == ASSUME PInv, InitPool PROVE PInv'
<1> USE DEF InitPool
<1>1. TypeOK'
  <2>1. shutdown' \in BOOLEAN
    OBVIOUS
  <2>4. /\ queue' \in Seq(Job) /\ semaphore' \in Nat
        /\ main' \in MainPlaces
    BY DEF MainPlaces
  <2>2. \A w \in Worker : taken'[w] \in Job <=> worker'[w] \in Holding
    BY DEF PInv, TypeOK, MainAndShutdown, Holding
  <2>3. worker' \in [Worker -> WorkerPlaces]
    BY DEF WorkerPlaces
  <2> QED BY <2>1, <2>2, <2>3, <2>4 DEF PInv, TypeOK
<1>2. OneOwner' /\ JobStateValid'
  BY DEF PInv, OneOwner, JobStateValid, IsInjective, Range
<1>3. Fetching' = {}
  BY DEF Fetching
<1>4. EnoughSignals' /\ ExactSignals'
  BY <1>3, FS_EmptySet DEF EnoughSignals, ExactSignals
<1>5. MainAndShutdown' /\ Drained'
  BY DEF PInv, MainAndShutdown, Drained
<1>6. Accounted'
  BY JobPoolAssumption DEF JobPoolAssumption, PInv, TypeOK, MainAndShutdown, Drained, Accounted, Range, Holding
<1> QED BY <1>1, <1>2, <1>4, <1>5, <1>6 DEF PInv

\* The signal of Add replaces the one owed for the job it queued.
LEMMA AddSignalPInv == ASSUME PInv, AddSignal PROVE PInv'
<1> USE DEF AddSignal, poolVars, mainVars, workerVars
<1>1. TypeOK'
  BY DEF PInv, TypeOK, MainPlaces
<1>2. OneOwner' /\ JobStateValid'
  BY DEF PInv, OneOwner, JobStateValid
<1>3. EnoughSignals' /\ ExactSignals'
  BY FetchingCount, JobPoolAssumption DEF PInv, TypeOK, EnoughSignals, ExactSignals, MainAndShutdown, Fetching
<1>4. MainAndShutdown' /\ Drained'
  BY DEF PInv, MainAndShutdown, Drained
<1>5. Accounted'
  BY DEF PInv, Accounted
<1> QED BY <1>1, <1>2, <1>3, <1>4, <1>5 DEF PInv

\* From here on worker threads may end.
LEMMA ShutdownPInv == ASSUME PInv, Shutdown PROVE PInv'
<1> USE DEF Shutdown, poolVars, mainVars, workerVars
<1>1. TypeOK'
  BY DEF PInv, TypeOK, MainPlaces
<1>2. OneOwner' /\ JobStateValid'
  BY DEF PInv, OneOwner, JobStateValid
<1>3. EnoughSignals' /\ ExactSignals'
  BY FetchingCount, JobPoolAssumption DEF PInv, TypeOK, EnoughSignals, ExactSignals, MainAndShutdown, Fetching
<1>4. MainAndShutdown' /\ Drained'
  BY DEF PInv, MainAndShutdown, Drained
<1>5. Accounted'
  BY DEF PInv, Accounted
<1> QED BY <1>1, <1>2, <1>3, <1>4, <1>5 DEF PInv

\* Only the place of the main thread changes.
LEMMA AbortQueuedBeginPInv == ASSUME PInv, AbortQueuedBegin PROVE PInv'
<1> USE DEF AbortQueuedBegin, poolVars, mainVars, workerVars
<1>1. TypeOK'
  BY DEF PInv, TypeOK, MainPlaces
<1>2. OneOwner' /\ JobStateValid'
  BY DEF PInv, OneOwner, JobStateValid
<1>3. EnoughSignals' /\ ExactSignals'
  BY FetchingCount, JobPoolAssumption DEF PInv, TypeOK, EnoughSignals, ExactSignals, MainAndShutdown, Fetching
<1>4. MainAndShutdown' /\ Drained'
  BY DEF PInv, MainAndShutdown, Drained
<1>5. Accounted'
  BY DEF PInv, Accounted
<1> QED BY <1>1, <1>2, <1>3, <1>4, <1>5 DEF PInv

\* Only the place of the main thread changes.
LEMMA AbortQueuedEndPInv == ASSUME PInv, AbortQueuedEnd PROVE PInv'
<1> USE DEF AbortQueuedEnd, poolVars, mainVars, workerVars
<1>1. TypeOK'
  BY DEF PInv, TypeOK, MainPlaces
<1>2. OneOwner' /\ JobStateValid'
  BY DEF PInv, OneOwner, JobStateValid
<1>3. EnoughSignals' /\ ExactSignals'
  BY FetchingCount, JobPoolAssumption DEF PInv, TypeOK, EnoughSignals, ExactSignals, MainAndShutdown, Fetching
<1>4. MainAndShutdown' /\ Drained'
  BY DEF PInv, MainAndShutdown, Drained
<1>5. Accounted'
  BY DEF PInv, Accounted
<1> QED BY <1>1, <1>2, <1>3, <1>4, <1>5 DEF PInv

\* More signals than queued jobs are allowed once the pool shuts down.
LEMMA SignalAllPInv == ASSUME PInv, SignalAll PROVE PInv'
<1> USE DEF SignalAll, poolVars, mainVars, workerVars
<1>1. Cardinality(Worker) \in Nat
  BY JobPoolAssumption, FS_CardinalityType DEF JobPoolAssumption
<1>2. TypeOK'
  <2>1. semaphore' \in Nat
    BY <1>1 DEF PInv, TypeOK
  <2> QED BY <2>1 DEF PInv, TypeOK, MainPlaces
<1>3. OneOwner' /\ JobStateValid'
  BY DEF PInv, OneOwner, JobStateValid
<1>4. EnoughSignals'
  <2>1. Fetching' = Fetching /\ Cardinality(Fetching) \in Nat
    BY JobPoolAssumption, FetchingCount DEF Fetching
  <2> QED BY <1>1, <2>1 DEF PInv, TypeOK, EnoughSignals
<1>5. ExactSignals' /\ MainAndShutdown' /\ Drained'
  BY DEF PInv, ExactSignals, MainAndShutdown, Drained
<1>6. Accounted'
  BY DEF PInv, Accounted
<1> QED BY <1>2, <1>3, <1>4, <1>5, <1>6 DEF PInv

\* All worker threads have ended.
LEMMA JoinPInv == ASSUME PInv, Join PROVE PInv'
<1> USE DEF Join, poolVars, mainVars, workerVars
<1>1. TypeOK'
  BY DEF PInv, TypeOK, MainPlaces
<1>2. OneOwner' /\ JobStateValid'
  BY DEF PInv, OneOwner, JobStateValid
<1>3. EnoughSignals' /\ ExactSignals'
  BY FetchingCount, JobPoolAssumption DEF PInv, TypeOK, EnoughSignals, ExactSignals, MainAndShutdown, Fetching
<1>4. MainAndShutdown' /\ Drained'
  BY DEF PInv, MainAndShutdown, Drained
<1>5. Accounted'
  BY DEF PInv, Accounted
<1> QED BY <1>1, <1>2, <1>3, <1>4, <1>5 DEF PInv

\* A job enters the queue that was never in it, its signal still owed.
LEMMA AddPInv == ASSUME PInv, NEW j \in Job, Add(j) PROVE PInv'
<1> USE DEF Add, poolVars, mainVars, workerVars
<1>1. /\ queue' \in Seq(Job) /\ Len(queue') = Len(queue) + 1 /\ Len(queue) \in Nat
      /\ IsInjective(queue')
      /\ Range(queue') = Range(queue) \union {j}
  <2>1. queue \in Seq(Job) /\ IsInjective(queue) /\ j \notin Range(queue)
    BY DEF PInv, TypeOK, OneOwner, Accounted
  <2> QED BY <2>1, AppendRange
<1>2. TypeOK'
  BY <1>1 DEF PInv, TypeOK, MainPlaces
<1>3. OneOwner'
  <2>1. \A w \in Worker : taken[w] # j
    BY JobPoolAssumption DEF JobPoolAssumption, PInv, Accounted
  <2> QED BY <1>1, <2>1 DEF PInv, OneOwner
<1>4. JobStateValid'
  BY DEF PInv, JobStateValid
<1>5. EnoughSignals' /\ ExactSignals'
  <2>1. Fetching' = Fetching /\ Cardinality(Fetching) \in Nat
    BY JobPoolAssumption, FetchingCount DEF Fetching
  <2> QED BY <1>1, <2>1 DEF PInv, TypeOK, EnoughSignals, ExactSignals
<1>6. MainAndShutdown' /\ Drained'
  BY DEF PInv, MainAndShutdown, Drained
<1>7. Accounted'
  BY <1>1 DEF PInv, Accounted
<1> QED BY <1>2, <1>3, <1>4, <1>5, <1>6, <1>7 DEF PInv

\* Aborting a job keeps every state the worker threads rely on.
LEMMA AbortPInv == ASSUME PInv, NEW j \in Job, Abort(j) PROVE PInv'
<1> USE DEF Abort, Aborted, poolVars, mainVars, workerVars
<1>1. TypeOK'
  BY DEF PInv, TypeOK, MainPlaces, JobStates
<1>2. OneOwner' /\ JobStateValid'
  BY DEF PInv, TypeOK, OneOwner, JobStateValid, Holding
<1>3. EnoughSignals' /\ ExactSignals'
  BY DEF PInv, EnoughSignals, ExactSignals, Fetching, MainAndShutdown
<1>4. MainAndShutdown' /\ Drained'
  BY DEF PInv, MainAndShutdown, Drained
<1>5. Accounted'
  BY DEF PInv, TypeOK, Accounted
<1> QED BY <1>1, <1>2, <1>3, <1>4, <1>5 DEF PInv

\* As Abort, for all jobs in m_RunningJobs.
LEMMA AbortRunningPInv == ASSUME PInv, AbortRunning PROVE PInv'
<1> USE DEF AbortRunning, Aborted, poolVars, mainVars, workerVars
<1>1. TypeOK'
  BY DEF PInv, TypeOK, MainPlaces, JobStates
<1>2. OneOwner' /\ JobStateValid'
  BY DEF PInv, TypeOK, OneOwner, JobStateValid, Holding
<1>3. EnoughSignals' /\ ExactSignals'
  BY DEF PInv, EnoughSignals, ExactSignals, Fetching, MainAndShutdown
<1>4. MainAndShutdown' /\ Drained'
  BY DEF PInv, MainAndShutdown, Drained
<1>5. Accounted'
  BY DEF PInv, TypeOK, Accounted
<1> QED BY <1>1, <1>2, <1>3, <1>4, <1>5 DEF PInv

\* The unlinked job was owned by the queue alone; a signal is left over.
LEMMA AbortQueuedPInv == ASSUME PInv, AbortQueued PROVE PInv'
<1> USE DEF AbortQueued, poolVars, mainVars, workerVars
<1>1. CASE queue[position] \notin Abortable
  <2>1. position' \in Nat \ {0} /\ UNCHANGED <<jobState, queue>>
    BY <1>1 DEF PInv, TypeOK
  <2>2. TypeOK'
    BY <2>1 DEF PInv, TypeOK
  <2>3. OneOwner' /\ JobStateValid' /\ EnoughSignals' /\ ExactSignals'
    BY <2>1 DEF PInv, OneOwner, JobStateValid, EnoughSignals, ExactSignals, Fetching
  <2>4. MainAndShutdown' /\ Drained' /\ Accounted'
    BY <2>1 DEF PInv, MainAndShutdown, Drained, Accounted
  <2> QED BY <2>2, <2>3, <2>4 DEF PInv
<1>2. CASE queue[position] \in Abortable
  <2> DEFINE j == queue[position]
  <2>1. /\ j \in Range(queue) /\ j \in Job
        /\ position \in 1 .. Len(queue) /\ queue \in Seq(Job) /\ IsInjective(queue)
        /\ Len(queue) \in Nat
    BY DEF PInv, TypeOK, OneOwner, Range
  <2>2. queue' = RemoveAt(queue, position)
    BY <1>2
  <2>3. /\ queue' \in Seq(Job) /\ Len(queue') = Len(queue) - 1
        /\ IsInjective(queue')
        /\ Range(queue') = Range(queue) \ {j}
    BY <2>1, <2>2, RemoveAtEntries, RemoveAtRange
  <2>4. jobState' = [jobState EXCEPT ![j] = "ABORTED"]
    BY <1>2, <2>1 DEF PInv, TypeOK, Aborted
  <2>5. UNCHANGED <<position, shutdown, running, semaphore, main, scheduled, worker, taken>>
    BY <1>2
  <2>6. \A w \in Worker : taken[w] # j
    BY <2>1 DEF PInv, OneOwner
  <2> HIDE DEF AbortQueued, j
  <2>7. TypeOK'
    BY <2>1, <2>3, <2>4, <2>5 DEF PInv, TypeOK, JobStates
  <2>8. OneOwner'
    BY <2>3, <2>5 DEF PInv, OneOwner
  <2>9. JobStateValid'
    BY <2>4, <2>5, <2>6 DEF PInv, TypeOK, JobStateValid
  <2>10. Fetching' = Fetching /\ Cardinality(Fetching) \in Nat
    BY <2>5, JobPoolAssumption, FetchingCount DEF Fetching
  <2>11. EnoughSignals'
    BY <2>1, <2>3, <2>5, <2>10 DEF PInv, TypeOK, EnoughSignals
  <2>12. MainAndShutdown' /\ ExactSignals'
    BY <2>5 DEF PInv, MainAndShutdown, ExactSignals, AbortQueued
  <2>13. Drained'
    BY <2>1, <2>3, <2>5 DEF PInv, Drained
  <2>14. Accounted'
    BY <1>2, <2>1, <2>3, <2>4, <2>5, <2>6 DEF PInv, TypeOK, Accounted, j
  <2> QED BY <2>7, <2>8, <2>9, <2>11, <2>12, <2>13, <2>14 DEF PInv
<1> QED BY <1>1, <1>2

\* A pending signal becomes a worker thread that will look at the queue.
LEMMA WakePInv == ASSUME PInv, NEW w \in Worker, Wake(w) PROVE PInv'
<1> USE DEF Wake, Goto, poolVars, mainVars, workerVars
<1>1. TypeOK'
  <2>1. semaphore' \in Nat
    BY DEF PInv, TypeOK
  <2>2. /\ worker' \in [Worker -> WorkerPlaces]
        /\ \A v \in Worker : taken'[v] \in Job <=> worker'[v] \in Holding
    BY DEF PInv, TypeOK, WorkerPlaces, Holding
  <2> QED BY <2>1, <2>2 DEF PInv, TypeOK
<1>2. OneOwner' /\ JobStateValid'
  BY DEF PInv, TypeOK, OneOwner, JobStateValid
<1>3. EnoughSignals' /\ ExactSignals'
  <2>1. Cardinality(Fetching') = Cardinality(Fetching) + 1
    <3>1. w \notin Fetching /\ worker \in [Worker -> WorkerPlaces]
      BY DEF Fetching, PInv, TypeOK
    <3> QED BY <3>1, JobPoolAssumption, FetchingMore
  <2>2. Cardinality(Fetching) \in Nat
    BY JobPoolAssumption, FetchingCount
  <2> QED BY <2>1, <2>2 DEF PInv, TypeOK, EnoughSignals, ExactSignals
<1>4. MainAndShutdown' /\ Drained'
  BY DEF PInv, TypeOK, MainAndShutdown, Drained
<1>5. Accounted'
  BY DEF PInv, TypeOK, Accounted
<1> QED BY <1>1, <1>2, <1>3, <1>4, <1>5 DEF PInv

\* A worker thread takes the first job, or finds none and was woken up by
\* Shutdown: while the pool accepts jobs, a signal never meets an empty queue.
LEMMA FetchPInv == ASSUME PInv, NEW w \in Worker, Fetch(w) PROVE PInv'
<1> USE DEF Goto, poolVars, mainVars, workerVars
<1>1. worker[w] = "fetch" /\ w \in Fetching /\ worker \in [Worker -> WorkerPlaces]
  BY DEF Fetch, Fetching, PInv, TypeOK
<1>2. Cardinality(Fetching) \in Nat /\ Len(queue) \in Nat
  BY JobPoolAssumption, FetchingCount DEF PInv, TypeOK
<1>3. taken[w] = NoJob
  BY <1>1 DEF PInv, TypeOK, Holding
<1>4. /\ UNCHANGED <<jobState, shutdown, running, semaphore, main, position, scheduled>>
      /\ queue = <<>> \/ queue # <<>>
  BY DEF Fetch
<1>5. MainAndShutdown'
  BY <1>1 DEF Fetch, PInv, TypeOK, MainAndShutdown
<1>6. CASE queue = <<>>
  <2>1. worker' = [worker EXCEPT ![w] = "check"] /\ UNCHANGED <<queue, taken>>
    BY <1>6 DEF Fetch
  <2>2. TypeOK'
    <3>1. /\ worker' \in [Worker -> WorkerPlaces]
          /\ \A v \in Worker : taken'[v] \in Job <=> worker'[v] \in Holding
      BY <1>1, <2>1 DEF PInv, TypeOK, WorkerPlaces, Holding
    <3> QED BY <1>4, <2>1, <3>1 DEF PInv, TypeOK
  <2>3. OneOwner' /\ JobStateValid'
    BY <1>1, <1>4, <2>1 DEF PInv, OneOwner, JobStateValid
  <2>4. Cardinality(Fetching') = Cardinality(Fetching) - 1
    BY <1>1, <2>1, JobPoolAssumption, FetchingLess
  <2>5. Cardinality(Fetching) >= 1
    BY <1>1, JobPoolAssumption, FetchingSome
  <2>6. shutdown
    BY <1>2, <1>6, <2>5 DEF PInv, TypeOK, ExactSignals
  <2>7. EnoughSignals' /\ ExactSignals'
    BY <1>2, <1>4, <1>6, <2>1, <2>4, <2>5, <2>6 DEF PInv, TypeOK, EnoughSignals, ExactSignals
  <2>8. Drained'
    BY <1>1, <1>4, <1>6, <2>1, <2>6 DEF PInv, Drained
  <2>9. Accounted'
    BY <1>1, <1>4, <2>1 DEF PInv, Accounted
  <2> QED BY <1>5, <2>2, <2>3, <2>7, <2>8, <2>9 DEF PInv
<1>7. CASE queue # <<>>
  <2> DEFINE j == Head(queue)
  <2>1. /\ worker' = [worker EXCEPT ![w] = "start"]
        /\ taken' = [taken EXCEPT ![w] = j]
        /\ queue' = Tail(queue)
    BY <1>7 DEF Fetch
  <2>2. /\ queue' \in Seq(Job) /\ Len(queue') = Len(queue) - 1
        /\ j \in Range(queue) /\ j \in Job
        /\ IsInjective(queue')
        /\ Range(queue') = Range(queue) \ {j}
    <3>1. queue \in Seq(Job) /\ IsInjective(queue)
      BY DEF PInv, TypeOK, OneOwner
    <3>2. j \in Job
      BY <1>7, <3>1
    <3> QED BY <1>7, <2>1, <3>1, <3>2, TailRange
  <2> HIDE DEF j
  <2>3. TypeOK'
    <3>1. /\ worker' \in [Worker -> WorkerPlaces]
          /\ taken' \in [Worker -> Job \union {NoJob}]
          /\ \A v \in Worker : taken'[v] \in Job <=> worker'[v] \in Holding
      BY <1>1, <2>1, <2>2 DEF PInv, TypeOK, WorkerPlaces, Holding
    <3> QED BY <1>4, <2>2, <3>1 DEF PInv, TypeOK
  <2>4. OneOwner'
    BY <2>1, <2>2 DEF PInv, TypeOK, OneOwner
  <2>5. JobStateValid'
    BY <1>1, <1>4, <2>1, <2>2 DEF PInv, TypeOK, JobStateValid, Accounted
  <2>6. Cardinality(Fetching') = Cardinality(Fetching) - 1
    BY <1>1, <2>1, JobPoolAssumption, FetchingLess
  <2>7. EnoughSignals' /\ ExactSignals'
    BY <1>2, <1>4, <2>2, <2>6 DEF PInv, TypeOK, EnoughSignals, ExactSignals
  <2>8. Drained'
    BY <1>1, <1>4, <1>7, <2>1 DEF PInv, Drained
  <2>9. Accounted'
    BY <1>1, <1>3, <1>4, <2>1, <2>2, JobPoolAssumption DEF JobPoolAssumption, PInv, TypeOK, Accounted
  <2> QED BY <1>5, <2>3, <2>4, <2>5, <2>7, <2>8, <2>9 DEF PInv
<1> QED BY <1>6, <1>7

\* A worker thread that found no job ends, the pool shutting down.
LEMMA CheckPInv == ASSUME PInv, NEW w \in Worker, Check(w) PROVE PInv'
<1> USE DEF Check, Goto, poolVars, mainVars, workerVars
<1>1. TypeOK'
  BY DEF PInv, TypeOK, WorkerPlaces, Holding
<1>2. OneOwner' /\ JobStateValid'
  BY DEF PInv, TypeOK, OneOwner, JobStateValid
<1>3. EnoughSignals' /\ ExactSignals'
  BY FetchingSame DEF PInv, TypeOK, EnoughSignals, ExactSignals
<1>4. MainAndShutdown' /\ Drained'
  BY DEF PInv, TypeOK, MainAndShutdown, Drained
<1>5. Accounted'
  BY JobPoolAssumption DEF JobPoolAssumption, PInv, TypeOK, OneOwner, Accounted, Holding
<1> QED BY <1>1, <1>2, <1>3, <1>4, <1>5 DEF PInv

\* The job becomes running, or was aborted while nobody looked at it.
LEMMA StartPInv == ASSUME PInv, NEW w \in Worker, Start(w) PROVE PInv'
<1> USE DEF Goto, poolVars, mainVars, workerVars
<1> DEFINE j == taken[w]
<1>1. /\ worker[w] = "start" /\ worker \in [Worker -> WorkerPlaces]
      /\ j \in Job /\ j \in scheduled /\ j \notin Range(queue)
      /\ UNCHANGED <<shutdown, queue, running, semaphore, main, position, scheduled>>
      /\ \A v \in Worker : taken[v] = j => v = w
  BY JobPoolAssumption DEF JobPoolAssumption, Start, PInv, TypeOK, OneOwner, Accounted, Holding
<1>2. /\ TypeOK' /\ OneOwner' /\ Drained' /\ MainAndShutdown'
  <2>1. TypeOK'
    <3>1. /\ worker' \in [Worker -> WorkerPlaces]
          /\ taken' \in [Worker -> Job \union {NoJob}]
          /\ jobState' \in [Job -> JobStates]
      BY DEF Start, PInv, TypeOK, WorkerPlaces, JobStates
    <3>2. \A v \in Worker : taken'[v] \in Job <=> worker'[v] \in Holding
      <4>1. CASE /\ worker' = [worker EXCEPT ![w] = "enlist"]
                 /\ UNCHANGED taken
        BY <1>1, <4>1 DEF PInv, TypeOK, Holding
      <4>2. CASE /\ worker' = [worker EXCEPT ![w] = "waiting"]
                 /\ taken' = [taken EXCEPT ![w] = NoJob]
        BY <1>1, <4>2, JobPoolAssumption DEF JobPoolAssumption, PInv, TypeOK, Holding
      <4> QED BY <4>1, <4>2 DEF Start
    <3> QED BY <1>1, <3>1, <3>2 DEF PInv, TypeOK
  <2>2. OneOwner'
    BY JobPoolAssumption DEF JobPoolAssumption, Start, PInv, TypeOK, OneOwner, Accounted
  <2>3. Drained'
    BY DEF Start, PInv, TypeOK, Drained
  <2>4. MainAndShutdown'
    BY DEF Start, PInv, TypeOK, MainAndShutdown
  <2> QED BY <2>1, <2>2, <2>3, <2>4
<1>3. Fetching' = Fetching
  BY DEF Start, Fetching, PInv, TypeOK
<1>4. EnoughSignals' /\ ExactSignals'
  BY <1>1, <1>3 DEF PInv, EnoughSignals, ExactSignals
<1>5. CASE jobState[j] = "QUEUED"
  <2>1. /\ worker' = [worker EXCEPT ![w] = "enlist"] /\ taken' = taken
        /\ jobState' = [jobState EXCEPT ![j] = "RUNNING"]
    BY <1>5 DEF Start
  <2> HIDE DEF j
  <2>2. JobStateValid'
    <3>1. ASSUME NEW v \in Worker, v # w
          PROVE  worker'[v] = worker[v] /\ (worker[v] \in Holding => jobState'[taken'[v]] = jobState[taken[v]])
      BY <1>1, <2>1, <3>1 DEF PInv, TypeOK
    <3>2. worker'[w] = "enlist" /\ taken'[w] = j /\ jobState'[j] = "RUNNING"
      BY <1>1, <2>1 DEF PInv, TypeOK, j
    <3> QED BY <3>1, <3>2 DEF PInv, JobStateValid, Holding
  <2>3. Accounted'
    BY <1>1, <2>1 DEF PInv, TypeOK, Accounted, j
  <2> QED BY <1>2, <1>4, <2>2, <2>3 DEF PInv
<1>6. CASE jobState[j] # "QUEUED"
  <2>1. /\ worker' = [worker EXCEPT ![w] = "waiting"]
        /\ taken' = [taken EXCEPT ![w] = NoJob]
        /\ jobState[j] = "ABORTED" /\ jobState' = jobState
    BY <1>6 DEF Start
  <2> HIDE DEF j
  <2>2. JobStateValid'
    BY <1>1, <2>1 DEF PInv, TypeOK, JobStateValid
  <2>3. Accounted'
    BY <1>1, <2>1, JobPoolAssumption DEF JobPoolAssumption, PInv, TypeOK, Accounted, j
  <2> QED BY <1>2, <1>4, <2>2, <2>3 DEF PInv
<1> QED BY <1>5, <1>6

\* The job of a worker thread that runs it enters m_RunningJobs.
LEMMA EnlistPInv == ASSUME PInv, NEW w \in Worker, Enlist(w) PROVE PInv'
<1> USE DEF Enlist, Goto, poolVars, mainVars, workerVars
<1>1. TypeOK'
  BY DEF PInv, TypeOK, WorkerPlaces, Holding
<1>2. OneOwner' /\ JobStateValid'
  BY DEF PInv, TypeOK, OneOwner, JobStateValid
<1>3. EnoughSignals' /\ ExactSignals'
  BY FetchingSame DEF PInv, TypeOK, EnoughSignals, ExactSignals
<1>4. MainAndShutdown' /\ Drained'
  BY DEF PInv, TypeOK, MainAndShutdown, Drained
<1>5. Accounted'
  BY JobPoolAssumption DEF JobPoolAssumption, PInv, TypeOK, OneOwner, Accounted, Holding
<1> QED BY <1>1, <1>2, <1>3, <1>4, <1>5 DEF PInv

\* The job of a worker thread leaves m_RunningJobs before it is done.
LEMMA DelistPInv == ASSUME PInv, NEW w \in Worker, Delist(w) PROVE PInv'
<1> USE DEF Delist, Goto, poolVars, mainVars, workerVars
<1>1. TypeOK'
  BY DEF PInv, TypeOK, WorkerPlaces, Holding
<1>2. OneOwner' /\ JobStateValid'
  BY DEF PInv, TypeOK, OneOwner, JobStateValid
<1>3. EnoughSignals' /\ ExactSignals'
  BY FetchingSame DEF PInv, TypeOK, EnoughSignals, ExactSignals
<1>4. MainAndShutdown' /\ Drained'
  BY DEF PInv, TypeOK, MainAndShutdown, Drained
<1>5. Accounted'
  BY JobPoolAssumption DEF JobPoolAssumption, PInv, TypeOK, OneOwner, Accounted, Holding
<1> QED BY <1>1, <1>2, <1>3, <1>4, <1>5 DEF PInv

\* A running job becomes done, an aborted one stays aborted.
LEMMA FinishPInv == ASSUME PInv, NEW w \in Worker, Finish(w) PROVE PInv'
<1> USE DEF Finish, Goto, poolVars, mainVars, workerVars
<1>1. TypeOK'
  BY JobPoolAssumption DEF JobPoolAssumption, PInv, TypeOK, WorkerPlaces, Holding, JobStates
<1>2. OneOwner'
  BY JobPoolAssumption DEF JobPoolAssumption, PInv, TypeOK, OneOwner, Accounted
<1>3. \A v \in Worker : taken[v] = taken[w] => v = w
  BY JobPoolAssumption DEF JobPoolAssumption, PInv, TypeOK, OneOwner, Holding
<1>4. JobStateValid'
  <2>1. ASSUME NEW v \in Worker, v # w
        PROVE  worker'[v] = worker[v] /\ (worker[v] \in Holding => jobState'[taken'[v]] = jobState[taken[v]])
    BY <1>3, <2>1 DEF PInv, TypeOK
  <2>2. worker'[w] = "waiting"
    BY DEF PInv, TypeOK
  <2> QED BY <2>1, <2>2 DEF PInv, JobStateValid, Holding
<1>5. EnoughSignals' /\ ExactSignals'
  BY FetchingSame DEF PInv, TypeOK, EnoughSignals, ExactSignals
<1>6. MainAndShutdown' /\ Drained'
  BY DEF PInv, TypeOK, MainAndShutdown, Drained
<1>7. Accounted'
  BY JobPoolAssumption DEF JobPoolAssumption, PInv, TypeOK, JobStateValid, Accounted, Holding
<1> QED BY <1>1, <1>2, <1>4, <1>5, <1>6, <1>7 DEF PInv

-----------------------------------------------------------------------------
(* The theorems *)

\* Every step of every thread keeps the invariant.
THEOREM PInvNext == PInv /\ [Next]_vars => PInv'
<1> SUFFICES ASSUME PInv, [Next]_vars PROVE PInv'
  OBVIOUS
<1>1. CASE InitPool
  BY <1>1, InitPoolPInv
<1>2. CASE AddSignal
  BY <1>2, AddSignalPInv
<1>3. CASE Shutdown
  BY <1>3, ShutdownPInv
<1>4. CASE AbortQueuedBegin \/ AbortQueuedEnd
  BY <1>4, AbortQueuedBeginPInv, AbortQueuedEndPInv
<1>5. CASE AbortQueued
  BY <1>5, AbortQueuedPInv
<1>6. CASE AbortRunning
  BY <1>6, AbortRunningPInv
<1>7. CASE SignalAll
  BY <1>7, SignalAllPInv
<1>8. CASE Join
  BY <1>8, JoinPInv
<1>9. CASE \E j \in Job : Add(j) \/ AddRejected(j) \/ Abort(j)
  BY <1>9, AddPInv, AbortPInv DEF AddRejected
<1>10. CASE \E w \in Worker : RunLoop(w)
  BY <1>10, WakePInv, FetchPInv, CheckPInv, StartPInv, EnlistPInv, DelistPInv, FinishPInv
     DEF RunLoop
<1>11. CASE UNCHANGED vars
  <2> USE <1>11 DEF vars, poolVars, mainVars, workerVars
  <2>1. TypeOK' /\ OneOwner' /\ JobStateValid'
    BY DEF PInv, TypeOK, OneOwner, JobStateValid
  <2>2. EnoughSignals' /\ ExactSignals'
    BY DEF PInv, EnoughSignals, ExactSignals, Fetching
  <2>3. MainAndShutdown' /\ Drained' /\ Accounted'
    BY DEF PInv, MainAndShutdown, Drained, Accounted
  <2> QED BY <2>1, <2>2, <2>3 DEF PInv
<1> QED
  BY <1>1, <1>2, <1>3, <1>4, <1>5, <1>6, <1>7, <1>8, <1>9, <1>10, <1>11 DEF Next, MainNext

\* The strengthening of the safety properties holds in every reachable state.
THEOREM Invariance == Spec => []PInv
BY PInvInit, PInvNext, PTL DEF Spec

\* Every variable keeps its type; a worker thread holds a job exactly where
\* RunLoop uses pJob.
THEOREM TypeCorrect == Spec => []TypeOK
<1>1. PInv => TypeOK
  BY DEF PInv
<1> QED BY <1>1, Invariance, PTL

\* No job is in two places: in the queue twice, held by two worker threads,
\* or held and still queued.
THEOREM JobsHaveOneOwner == Spec => []OneOwner
<1>1. PInv => OneOwner
  BY DEF PInv
<1> QED BY <1>1, Invariance, PTL

\* The assertions RunLoop makes on m_State hold, whenever Abort is called.
THEOREM AssertionsHold == Spec => []JobStateValid
<1>1. PInv => JobStateValid
  BY DEF PInv
<1> QED BY <1>1, Invariance, PTL

\* No wakeup is lost: m_Semaphore covers the queue.
THEOREM NoLostWakeup == Spec => []EnoughSignals
<1>1. PInv => EnoughSignals
  BY DEF PInv
<1> QED BY <1>1, Invariance, PTL

\* When Shutdown has returned, every job Add accepted is complete, and only
\* abortable ones were aborted: the worker threads ended with an empty queue
\* (Drained) and hold nothing, so Accounted leaves no other possibility.
THEOREM ShutdownCompletes == Spec => []CompleteAtShutdown
<1>1. PInv => CompleteAtShutdown
  <2> SUFFICES ASSUME PInv, main = "down", NEW j \in scheduled
               PROVE  /\ jobState[j] \in {"DONE", "ABORTED"}
                      /\ j \notin Abortable => jobState[j] = "DONE"
                      /\ j \notin running
    BY DEF CompleteAtShutdown
  <2>1. \A w \in Worker : worker[w] = "ended" /\ taken[w] \notin Job
    BY DEF PInv, TypeOK, MainAndShutdown, Holding
  <2>2. Range(queue) = {} /\ j \in Job
    BY <2>1, JobPoolAssumption DEF JobPoolAssumption, PInv, TypeOK, Drained, Range
  <2>3. jobState[j] \in {"DONE", "ABORTED"}
    BY <2>1, <2>2 DEF PInv, Accounted
  <2>4. j \notin running
    BY <2>1, <2>2 DEF PInv, Accounted
  <2> QED BY <2>2, <2>3, <2>4 DEF PInv, Accounted
<1> QED BY <1>1, Invariance, PTL

\* No step takes a job out of STATE_ABORTED: a worker thread that loses the
\* race with Abort skips the job, or leaves its state alone.
THEOREM AbortedJobsStay == Spec => AbortedStays
<1>1. PInv /\ [Next]_vars =>
        [\A j \in Job : jobState[j] = "ABORTED" => jobState'[j] = "ABORTED"]_vars
  <2> SUFFICES ASSUME PInv, Next, NEW j \in Job, jobState[j] = "ABORTED"
               PROVE  jobState'[j] = "ABORTED"
    OBVIOUS
  <2> USE DEF Aborted, Goto, poolVars, mainVars, workerVars
  <2>1. CASE \E w \in Worker : RunLoop(w)
    <3> SUFFICES ASSUME NEW w \in Worker, RunLoop(w) PROVE jobState'[j] = "ABORTED"
      BY <2>1
    <3>1. CASE Start(w) \/ Finish(w)
      BY <3>1 DEF Start, Finish, PInv, TypeOK
    <3>2. CASE Wake(w) \/ Fetch(w) \/ Check(w) \/ Enlist(w) \/ Delist(w)
      BY <3>2 DEF Wake, Fetch, Check, Enlist, Delist
    <3> QED BY <3>1, <3>2 DEF RunLoop
  <2>2. CASE AbortQueued \/ AbortRunning \/ \E k \in Job : Abort(k) \/ AddRejected(k)
    BY <2>2 DEF AbortQueued, AbortRunning, Abort, AddRejected
  <2>3. CASE \/ InitPool \/ AddSignal \/ Shutdown \/ AbortQueuedBegin \/ AbortQueuedEnd
             \/ SignalAll \/ Join \/ \E k \in Job : Add(k)
    BY <2>3 DEF InitPool, AddSignal, Shutdown, AbortQueuedBegin, AbortQueuedEnd, SignalAll, Join, Add
  <2> QED BY <2>1, <2>2, <2>3 DEF Next, MainNext
<1> QED BY <1>1, Invariance, PTL DEF Spec, AbortedStays
============================================================================
