---------------------------- MODULE Http_proofs ----------------------------
(***************************************************************************)
(* Proofs about Http, for every set of requests.  The invariant says where *)
(* the thread's requests can be at each point of its loop.                 *)
(***************************************************************************)
EXTENDS Http, TLAPS

\* Where requests are: NewRequests is filled only while it is worked on, and
\* nothing is there before the thread has begun and after it has ended.
Places ==
    /\ pc # "add" => taken = {}
    /\ pc \in {"init", "ended"} => pending = {} /\ running = {}

\* m_State and m_Shutdown tell that the thread is not going to take requests.
Stopping ==
    /\ pc = "init" <=> state = "UNINITIALIZED"
    /\ state = "ERROR" => pc \in {"clean", "ended"}
    /\ pc \in {"leave", "clean", "ended"} => shutdown \/ state = "ERROR"
    /\ deadline # "none" => shutdown

\* From the second look at m_Shutdown on the queue is empty, which is why the
\* thread may leave when nothing runs.
Drained ==
    /\ deadline # "none" /\ pc \in {"poll", "check", "add"} => pending = {}
    /\ pc = "leave" => pending = {} /\ (deadline = "passed" \/ running = {})
    /\ pc = "clean" =>
         \/ deadline = "passed" \/ state = "ERROR"
         \/ pending = {} /\ running = {}

HttpInv == TypeOK /\ OnePlace /\ Places /\ Stopping /\ Drained

\* The invariant holds when the thread is created.
LEMMA HttpInvInit == Init => HttpInv
BY DEF Init, HttpInv, TypeOK, OnePlace, Places, Stopping, Drained, Open

\* What handing over a request does to the set of open ones.
LEMMA OpenAfter ==
    ASSUME TypeOK, NEW r \in Requests, NEW st \in {"QUEUED", "RUNNING", "DONE", "ERROR", "ABORTED"},
           request' = [request EXCEPT ![r] = st]
    PROVE  /\ st \in {"QUEUED", "RUNNING"} => Open' = Open \cup {r}
           /\ st \notin {"QUEUED", "RUNNING"} => Open' = Open \ {r}
           /\ request' \in [Requests -> {"NEW", "QUEUED", "RUNNING", "DONE",
                                         "ERROR", "ABORTED"}]
BY DEF TypeOK, Open

\* CHttp::Run, whether it accepts the request or not.
LEMMA RunKeeps ==
    ASSUME HttpInv, NEW r \in Requests, Run(r)
    PROVE  HttpInv'
<1> USE DEF HttpInv, TypeOK, OnePlace, Places, Stopping, Drained, Locked, threadVars
<1>1. r \notin Open
  BY DEF Run, Open
<1>2. CASE shutdown \/ state = "ERROR"
  <2>1. request' = [request EXCEPT ![r] = "ABORTED"]
    BY <1>2 DEF Run, Complete
  <2>2. Open' = Open \ {r}
    BY <2>1, OpenAfter
  <2>3. Open' = Open
    BY <1>1, <2>2
  <2>4. QED
    BY <1>2, <2>1, <2>3 DEF Run
<1>3. CASE ~(shutdown \/ state = "ERROR")
  <2>1. request' = [request EXCEPT ![r] = "QUEUED"]
    BY <1>3 DEF Run
  <2>2. Open' = Open \cup {r}
    BY <2>1, OpenAfter
  <2>3. QED
    BY <1>1, <1>3, <2>1, <2>2 DEF Run
<1>4. QED
  BY <1>2, <1>3

\* A round of the thread, up to where requests are started.
LEMMA ReadKeeps ==
    ASSUME HttpInv, Read
    PROVE  HttpInv'
<1> USE DEF HttpInv, TypeOK, OnePlace, Places, Stopping, Drained
<1>1. PICK r \in over : \E result \in Results(r) :
        /\ over' = over \ {r}
        /\ running' = running \ {r}
        /\ request' = [request EXCEPT ![r] = result]
  BY DEF Read, Complete
<1>2. PICK result \in {"DONE", "ERROR", "ABORTED"} :
        request' = [request EXCEPT ![r] = result]
  BY <1>1 DEF Results
<1>3. Open' = Open \ {r}
  BY <1>2, OpenAfter
<1>4. QED
  BY <1>1, <1>2, <1>3 DEF Read

LEMMA StartKeeps ==
    ASSUME HttpInv, NEW r \in taken, Refuse(r) \/ Start(r)
    PROVE  HttpInv'
<1> USE DEF HttpInv, TypeOK, OnePlace, Places, Stopping, Drained
<1>1. CASE Refuse(r)
  <2>1. PICK result \in {"DONE", "ABORTED", "ERROR"} :
          request' = [request EXCEPT ![r] = result]
    BY <1>1 DEF Refuse, Complete
  <2>2. Open' = Open \ {r}
    BY <2>1, OpenAfter
  <2>3. QED
    BY <1>1, <2>1, <2>2 DEF Refuse
<1>2. CASE Start(r)
  <2>1. request' = [request EXCEPT ![r] = "RUNNING"]
    BY <1>2 DEF Start
  <2>2. Open' = Open \cup {r}
    BY <2>1, OpenAfter
  <2>3. QED
    BY <1>2, <2>1, <2>2 DEF Start
<1>3. QED
  BY <1>1, <1>2

LEMMA CleanUpKeeps ==
    ASSUME HttpInv, NEW r \in pending \cup running, CleanUp(r)
    PROVE  HttpInv'
<1> USE DEF HttpInv, TypeOK, OnePlace, Places, Stopping, Drained
<1>1. PICK result \in {"ABORTED", "ERROR"} :
        request' = [request EXCEPT ![r] = result]
  BY DEF CleanUp, Complete
<1>2. Open' = Open \ {r}
  BY <1>1, OpenAfter
<1>3. QED
  BY <1>1, <1>2 DEF CleanUp

\* Every step keeps the invariant.
LEMMA HttpInvStep == HttpInv /\ [Next]_vars => HttpInv'
<1> SUFFICES ASSUME HttpInv, [Next]_vars PROVE HttpInv'
  OBVIOUS
<1>a. UNCHANGED request => Open' = Open
  BY DEF Open
<1>b. Started => HttpInv'
  BY <1>a DEF HttpInv, TypeOK, OnePlace, Places, Stopping, Drained, Started
<1>c. Check => HttpInv'
  BY <1>a DEF HttpInv, TypeOK, OnePlace, Places, Stopping, Drained, Check
<1>d. CurlFails \/ Performed => HttpInv'
  BY <1>a DEF HttpInv, TypeOK, OnePlace, Places, Stopping, Drained, CurlFails, Performed
<1>e. Take => HttpInv'
  BY <1>a DEF HttpInv, TypeOK, OnePlace, Places, Stopping, Drained, Take
<1>f. StartFails => HttpInv'
  BY <1>a DEF HttpInv, TypeOK, OnePlace, Places, Stopping, Drained, StartFails
<1>g. Added => HttpInv'
  BY <1>a DEF HttpInv, TypeOK, OnePlace, Places, Stopping, Drained, Added
<1>h. Leave \/ End => HttpInv'
  BY <1>a DEF HttpInv, TypeOK, OnePlace, Places, Stopping, Drained, Leave, End
<1>i. Thread => HttpInv'
  BY <1>b, <1>c, <1>d, <1>e, <1>f, <1>g, <1>h, ReadKeeps, StartKeeps, CleanUpKeeps DEF Thread
<1>j. ASSUME Poll PROVE HttpInv'
  <2>1. TypeOK'
    BY <1>j DEF HttpInv, TypeOK, Poll
  <2>2. OnePlace'
    BY <1>a, <1>j DEF HttpInv, OnePlace, Poll
  <2>3. Places' /\ Stopping' /\ Drained'
    BY <1>j DEF HttpInv, Places, Stopping, Drained, Poll
  <2>4. QED
    BY <2>1, <2>2, <2>3 DEF HttpInv
<1>k. ASSUME Shutdown PROVE HttpInv'
  <2>1. TypeOK'
    BY <1>k DEF HttpInv, TypeOK, Shutdown, threadVars
  <2>2. OnePlace'
    BY <1>a, <1>k DEF HttpInv, OnePlace, Shutdown, threadVars
  <2>3. Places' /\ Stopping' /\ Drained'
    BY <1>k DEF HttpInv, Places, Stopping, Drained, Shutdown, threadVars
  <2>4. QED
    BY <2>1, <2>2, <2>3 DEF HttpInv
<1>o. DeadlinePasses => HttpInv'
  BY <1>a DEF HttpInv, TypeOK, OnePlace, Places, Stopping, Drained, DeadlinePasses
<1>l. ASSUME NEW r \in Requests, Abort(r) \/ TransferEnds(r)
      PROVE  HttpInv'
  BY <1>a, <1>l DEF HttpInv, TypeOK, OnePlace, Places, Stopping, Drained, Abort, TransferEnds,
     threadVars
<1>m. UNCHANGED vars => HttpInv'
  BY <1>a DEF HttpInv, TypeOK, OnePlace, Places, Stopping, Drained, vars, threadVars
<1>n. QED
  BY <1>i, <1>j, <1>k, <1>l, <1>m, <1>o, RunKeeps DEF Next

\* The invariant holds in every state.
THEOREM HttpInvariant == Spec => []HttpInv
<1>1. QED
  BY HttpInvInit, HttpInvStep, PTL DEF Spec

\* The thread's state is well-formed, and curl reports no transfer twice.
THEOREM HttpTypeOK == Spec => []TypeOK
<1>1. HttpInv => TypeOK
  BY DEF HttpInv
<1>2. QED
  BY <1>1, HttpInvariant, PTL

\* A request handed to CHttp::Run is in one place until it is completed, which
\* therefore happens once.
THEOREM RequestInOnePlace == Spec => []OnePlace
<1>1. HttpInv => OnePlace
  BY DEF HttpInv
<1>2. QED
  BY <1>1, HttpInvariant, PTL

\* When RunLoop is left every request has been completed, and later ones are
\* turned down: no Wait is left waiting.
THEOREM NoRequestLeft == Spec => []NothingLeft
<1>1. HttpInv => NothingLeft
  BY DEF HttpInv, OnePlace, Places, NothingLeft
<1>2. QED
  BY <1>1, HttpInvariant, PTL

\* Requests accepted before the shutdown get the delay the program granted.
THEOREM RequestsGetGrace == Spec => []Grace
<1>1. HttpInv => Grace
  BY DEF HttpInv, OnePlace, Places, Drained, Grace
<1>2. QED
  BY <1>1, HttpInvariant, PTL
=============================================================================
