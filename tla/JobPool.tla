------------------------------ MODULE JobPool ------------------------------
(***************************************************************************)
(* CJobPool (engine/shared/jobs.cpp): worker threads take jobs from a      *)
(* queue guarded by m_Lock and counted by m_Semaphore; the main thread     *)
(* adds jobs, shuts the pool down and may start it again.                  *)
(*                                                                         *)
(* A step is the part of a thread between two accesses to shared state     *)
(* that other threads can tell apart: one critical section, one operation  *)
(* of the semaphore or one operation on an atomic.  IJob::Abort reads      *)
(* m_Abortable and writes m_State; nothing another thread does in between  *)
(* depends on the order of the two, so it is one step.                     *)
(***************************************************************************)
EXTENDS Integers, FiniteSets, SequencesExt

CONSTANTS
    Job,            \* the jobs ever created
    Worker,         \* the worker threads Init starts
    Abortable,      \* those whose constructor calls Abortable(true)
    NoJob           \* nullptr

ASSUME JobPoolAssumption ==
    /\ IsFiniteSet(Worker) /\ Worker # {}
    /\ Abortable \subseteq Job
    /\ NoJob \notin Job

VARIABLES
    shutdown,   \* m_Shutdown
    queue,      \* the list from m_pFirstJob to m_pLastJob
    running,    \* m_RunningJobs
    semaphore,  \* m_Semaphore
    jobState,   \* IJob::m_State
    worker,     \* where a worker thread is in RunLoop
    taken,      \* pJob of a worker thread in RunLoop
    main,       \* where the main thread is in Add or Shutdown
    position,   \* the entry the loop of Shutdown over the queue looks at
    scheduled   \* ghost: the jobs Add has put into the queue

poolVars == <<shutdown, queue, running, semaphore>>
mainVars == <<main, position, scheduled>>
workerVars == <<worker, taken>>
vars == <<jobState, poolVars, mainVars, workerVars>>

\* The pool as constructed; Init has not been called.
Init ==
    /\ shutdown = TRUE
    /\ queue = <<>>
    /\ running = {}
    /\ semaphore = 0
    /\ jobState = [j \in Job |-> "QUEUED"]
    /\ worker = [w \in Worker |-> "ended"]
    /\ taken = [w \in Worker |-> NoJob]
    /\ main = "down"
    /\ position = 1
    /\ scheduled = {}

-----------------------------------------------------------------------------
(* Jobs *)

\* m_State after Abort of each of a set of jobs: only abortable ones change.
Aborted(jobs) ==
    [j \in Job |-> IF j \in jobs /\ j \in Abortable THEN "ABORTED" ELSE jobState[j]]

\* IJob::Abort, called from any thread at any time.
Abort(j) ==
    /\ jobState' = Aborted({j})
    /\ UNCHANGED <<poolVars, mainVars, workerVars>>

-----------------------------------------------------------------------------
(* The main thread *)

InitPool ==
    /\ main = "down"
    /\ main' = "ready"
    /\ shutdown' = FALSE
    /\ semaphore' = 0
    /\ queue' = <<>>
    /\ worker' = [w \in Worker |-> "waiting"]
    /\ UNCHANGED <<jobState, running, taken, position, scheduled>>

\* Add while the pool is running: into the queue, under m_Lock.
Add(j) ==
    /\ main = "ready"
    /\ j \notin scheduled
    /\ queue' = Append(queue, j)
    /\ scheduled' = scheduled \union {j}
    /\ main' = "added"
    /\ UNCHANGED <<jobState, shutdown, running, semaphore, position, workerVars>>

\* Bug: a signal only for the first job of an empty queue.
AddSignalFirst ==
    /\ main = "added"
    /\ semaphore' = IF Len(queue) = 1 THEN semaphore + 1 ELSE semaphore
    /\ main' = "ready"
    /\ UNCHANGED <<jobState, shutdown, queue, running, position, scheduled, workerVars>>

\* Add, after the lock is released.
AddSignal ==
    /\ main = "added"
    /\ semaphore' = semaphore + 1
    /\ main' = "ready"
    /\ UNCHANGED <<jobState, shutdown, queue, running, position, scheduled, workerVars>>

\* Add to a pool that is not running.
AddRejected(j) ==
    /\ main = "down"
    /\ j \notin scheduled
    /\ Abort(j)

Shutdown ==
    /\ main = "ready"
    /\ shutdown' = TRUE
    /\ main' = "stopping"
    /\ UNCHANGED <<jobState, queue, running, semaphore, position, scheduled, workerVars>>

\* Shutdown takes m_Lock, which it holds until it is through with the queue.
AbortQueuedBegin ==
    /\ main = "stopping"
    /\ main' = "abortQueued"
    /\ position' = 1
    /\ UNCHANGED <<jobState, poolVars, scheduled, workerVars>>

\* Bug: the result of Abort is ignored, every job leaves the queue.
AbortQueuedAll ==
    /\ main = "abortQueued"
    /\ position <= Len(queue)
    /\ jobState' = Aborted({queue[position]})
    /\ queue' = RemoveAt(queue, position)
    /\ UNCHANGED <<shutdown, running, semaphore, main, position, scheduled, workerVars>>

\* One iteration: an abortable job is aborted and leaves the queue.
AbortQueued ==
    /\ main = "abortQueued"
    /\ position <= Len(queue)
    /\ IF queue[position] \in Abortable
         THEN /\ jobState' = Aborted({queue[position]})
              /\ queue' = RemoveAt(queue, position)
              /\ UNCHANGED position
         ELSE /\ position' = position + 1
              /\ UNCHANGED <<jobState, queue>>
    /\ UNCHANGED <<shutdown, running, semaphore, main, scheduled, workerVars>>

AbortQueuedEnd ==
    /\ main = "abortQueued"
    /\ position > Len(queue)
    /\ main' = "abortRunning"
    /\ UNCHANGED <<jobState, poolVars, position, scheduled, workerVars>>

\* Under m_LockRunning.
AbortRunning ==
    /\ main = "abortRunning"
    /\ jobState' = Aborted(running)
    /\ main' = "signal"
    /\ UNCHANGED <<poolVars, position, scheduled, workerVars>>

\* Bug: only one worker thread is woken up.
SignalOne ==
    /\ main = "signal"
    /\ semaphore' = semaphore + 1
    /\ main' = "join"
    /\ UNCHANGED <<jobState, shutdown, queue, running, position, scheduled, workerVars>>

\* One signal for each worker thread; a worker that wakes up early finds the
\* same queue it would find after the last signal.
SignalAll ==
    /\ main = "signal"
    /\ semaphore' = semaphore + Cardinality(Worker)
    /\ main' = "join"
    /\ UNCHANGED <<jobState, shutdown, queue, running, position, scheduled, workerVars>>

\* thread_wait for every worker thread; then Shutdown returns.
Join ==
    /\ main = "join"
    /\ \A w \in Worker : worker[w] = "ended"
    /\ main' = "down"
    /\ UNCHANGED <<jobState, poolVars, position, scheduled, workerVars>>

-----------------------------------------------------------------------------
(* A worker thread: RunLoop *)

Goto(w, from, to) ==
    /\ worker[w] = from
    /\ worker' = [worker EXCEPT ![w] = to]

\* sphore_wait returns.
Wake(w) ==
    /\ Goto(w, "waiting", "fetch")
    /\ semaphore > 0
    /\ semaphore' = semaphore - 1
    /\ UNCHANGED <<jobState, shutdown, queue, running, mainVars, taken>>

\* Bug: m_pFirstJob is not advanced.
FetchLeavesFirst(w) ==
    /\ main # "abortQueued"
    /\ UNCHANGED <<jobState, shutdown, running, semaphore, mainVars, queue>>
    /\ Goto(w, "fetch", IF queue = <<>> THEN "check" ELSE "start")
    /\ taken' = [taken EXCEPT ![w] = IF queue = <<>> THEN NoJob ELSE Head(queue)]

\* Under m_Lock: take the first job, if there is one.
Fetch(w) ==
    /\ main # "abortQueued"
    /\ UNCHANGED <<jobState, shutdown, running, semaphore, mainVars>>
    /\ \/ /\ queue = <<>>
          /\ Goto(w, "fetch", "check")
          /\ UNCHANGED <<queue, taken>>
       \/ /\ queue # <<>>
          /\ Goto(w, "fetch", "start")
          /\ taken' = [taken EXCEPT ![w] = Head(queue)]
          /\ queue' = Tail(queue)

\* No job was left: leave RunLoop when the pool is shutting down.
Check(w) ==
    /\ Goto(w, "check", IF shutdown THEN "ended" ELSE "waiting")
    /\ UNCHANGED <<jobState, poolVars, mainVars, taken>>

\* Bug: the state is compared but not exchanged.
StartUnmarked(w) ==
    /\ UNCHANGED <<jobState, poolVars, mainVars, taken>>
    /\ Goto(w, "start", "enlist")

\* compare_exchange QUEUED -> RUNNING; a job aborted in the queue is skipped.
Start(w) ==
    LET j == taken[w]
    IN /\ UNCHANGED <<poolVars, mainVars>>
       /\ \/ /\ Goto(w, "start", "enlist")
             /\ jobState[j] = "QUEUED"
             /\ jobState' = [jobState EXCEPT ![j] = "RUNNING"]
             /\ UNCHANGED taken
          \/ /\ Goto(w, "start", "waiting")
             /\ jobState[j] = "ABORTED"
             /\ taken' = [taken EXCEPT ![w] = NoJob]
             /\ UNCHANGED jobState

\* Under m_LockRunning.
Enlist(w) ==
    /\ Goto(w, "enlist", "run")
    /\ running' = running \union {taken[w]}
    /\ UNCHANGED <<jobState, shutdown, queue, semaphore, mainVars, taken>>

\* Run returns; under m_LockRunning.
Delist(w) ==
    /\ Goto(w, "run", "finish")
    /\ running' = running \ {taken[w]}
    /\ UNCHANGED <<jobState, shutdown, queue, semaphore, mainVars, taken>>

\* Bugs: the state is overwritten; pJob is not released.
FinishAlways(w) ==
    /\ Goto(w, "finish", "waiting")
    /\ jobState' = [jobState EXCEPT ![taken[w]] = "DONE"]
    /\ taken' = [taken EXCEPT ![w] = NoJob]
    /\ UNCHANGED <<poolVars, mainVars>>
FinishKeepsJob(w) ==
    /\ Goto(w, "finish", "waiting")
    /\ jobState' = [jobState EXCEPT ![taken[w]] = IF @ = "RUNNING" THEN "DONE" ELSE @]
    /\ UNCHANGED <<poolVars, mainVars, taken>>

\* compare_exchange RUNNING -> DONE; a job that was aborted stays aborted.
Finish(w) ==
    /\ Goto(w, "finish", "waiting")
    /\ jobState' = [jobState EXCEPT ![taken[w]] = IF @ = "RUNNING" THEN "DONE" ELSE @]
    /\ taken' = [taken EXCEPT ![w] = NoJob]
    /\ UNCHANGED <<poolVars, mainVars>>

-----------------------------------------------------------------------------
MainNext ==
    \/ InitPool \/ AddSignal \/ Shutdown
    \/ AbortQueuedBegin \/ AbortQueued \/ AbortQueuedEnd \/ AbortRunning
    \/ SignalAll \/ Join
    \/ \E j \in Job : Add(j) \/ AddRejected(j)

RunLoop(w) ==
    \/ Wake(w) \/ Fetch(w) \/ Check(w) \/ Start(w) \/ Enlist(w)
    \/ Delist(w) \/ Finish(w)

Next ==
    \/ MainNext
    \/ \E w \in Worker : RunLoop(w)
    \/ \E j \in Job : Abort(j)

Spec == Init /\ [][Next]_vars

-----------------------------------------------------------------------------
(* Properties *)

JobStates == {"QUEUED", "RUNNING", "DONE", "ABORTED"}
MainPlaces == {"down", "ready", "added", "stopping", "abortQueued",
               "abortRunning", "signal", "join"}
WorkerPlaces == {"waiting", "fetch", "check", "start", "enlist", "run", "finish", "ended"}

\* Where a worker thread holds a job it took out of the queue.
Holding == {"start", "enlist", "run", "finish"}

\* The values the variables take; pJob is set exactly where RunLoop uses it.
TypeOK ==
    /\ shutdown \in BOOLEAN
    /\ queue \in Seq(Job)
    /\ running \subseteq Job
    /\ semaphore \in Nat
    /\ jobState \in [Job -> JobStates]
    /\ worker \in [Worker -> WorkerPlaces]
    /\ taken \in [Worker -> Job \union {NoJob}]
    /\ \A w \in Worker : taken[w] \in Job <=> worker[w] \in Holding
    /\ main \in MainPlaces
    /\ position \in Nat \ {0}
    /\ scheduled \subseteq Job

(***************************************************************************)
(* A job is in the queue once or held by one worker thread, never both:    *)
(* it cannot run twice, not even while Shutdown unlinks entries of the     *)
(* queue that worker threads are taking jobs from.                         *)
(***************************************************************************)
OneOwner ==
    /\ IsInjective(queue)
    /\ \A w \in Worker : taken[w] \notin Range(queue)
    /\ \A v, w \in Worker : taken[v] = taken[w] /\ taken[v] # NoJob => v = w

(***************************************************************************)
(* The assertions of RunLoop hold: a job taken out of the queue is queued  *)
(* or aborted, and one whose Run returned is running or aborted, whenever  *)
(* other threads call Abort.                                               *)
(***************************************************************************)
JobStateValid ==
    \A w \in Worker :
        /\ worker[w] = "start" => jobState[taken[w]] \in {"QUEUED", "ABORTED"}
        /\ worker[w] \in {"enlist", "run", "finish"} =>
              jobState[taken[w]] \in {"RUNNING", "ABORTED"}

(***************************************************************************)
(* No job is left without a worker thread that will look for it: there are *)
(* at least as many signals, pending or just received, as queued jobs.     *)
(* The skipped and unlinked jobs of Shutdown leave signals over, never too *)
(* few.                                                                    *)
(***************************************************************************)
Fetching == {w \in Worker : worker[w] = "fetch"}
EnoughSignals ==
    Len(queue) <= semaphore + Cardinality(Fetching) + (IF main = "added" THEN 1 ELSE 0)

(***************************************************************************)
(* jobs.h: "Scheduled jobs which are not abortable are guaranteed to fully *)
(* complete before the job pool is shut down"; the abortable ones are then *)
(* complete or aborted, and no worker thread still runs one.               *)
(***************************************************************************)
CompleteAtShutdown ==
    main = "down" =>
        \A j \in scheduled :
            /\ jobState[j] \in {"DONE", "ABORTED"}
            /\ j \notin Abortable => jobState[j] = "DONE"
            /\ j \notin running

\* The last compare_exchange of RunLoop never turns a job that was aborted
\* while it ran into one that is done, and nothing revives one in the queue.
AbortedStays ==
    [][\A j \in Job : jobState[j] = "ABORTED" => jobState'[j] = "ABORTED"]_vars

(***************************************************************************)
(* Why these hold.  While the pool accepts jobs, signals and queued jobs   *)
(* are equally many, so a worker thread that finds no job was woken up by  *)
(* Shutdown (Drained), and the last one to end leaves an empty queue.      *)
(***************************************************************************)
MainAndShutdown ==
    /\ shutdown <=> main \notin {"ready", "added"}
    /\ main = "down" => \A w \in Worker : worker[w] = "ended"

Drained ==
    \A w \in Worker : worker[w] \in {"check", "ended"} => shutdown /\ queue = <<>>

ExactSignals ==
    ~shutdown =>
        Len(queue) = semaphore + Cardinality(Fetching) + (IF main = "added" THEN 1 ELSE 0)

\* Where the jobs are that Add accepted, and what state the others are in.
Accounted ==
    /\ \A j \in scheduled :
          \/ j \in Range(queue)
          \/ \E w \in Worker : taken[w] = j
          \/ jobState[j] \in {"DONE", "ABORTED"}
    /\ Range(queue) \subseteq scheduled
    /\ \A w \in Worker : taken[w] # NoJob => taken[w] \in scheduled
    /\ \A j \in Job : j \notin scheduled \/ j \in Range(queue) =>
          jobState[j] \in {"QUEUED", "ABORTED"}
    /\ \A j \in Job : j \notin Abortable => jobState[j] # "ABORTED"
    /\ \A j \in running : \E w \in Worker : worker[w] = "run" /\ taken[w] = j

PInv ==
    /\ TypeOK /\ OneOwner /\ JobStateValid /\ EnoughSignals
    /\ MainAndShutdown /\ Drained /\ ExactSignals /\ Accounted

(***************************************************************************)
(* jobs.h on Shutdown: "Aborts all abortable jobs."  While Shutdown waits  *)
(* for the worker threads, no abortable job is left unaborted.             *)
(***************************************************************************)
AbortsAllAbortable ==
    main = "join" =>
        \A j \in scheduled \intersect Abortable : jobState[j] \in {"DONE", "ABORTED"}

(***************************************************************************)
(* Threads are scheduled and Run returns.                                  *)
(***************************************************************************)
MainCode ==
    \/ AddSignal \/ AbortQueuedBegin \/ AbortQueued \/ AbortQueuedEnd
    \/ AbortRunning \/ SignalAll \/ Join

Fairness == WF_vars(MainCode) /\ \A w \in Worker : WF_vars(RunLoop(w))

FairSpec == Spec /\ Fairness

\* Shutdown returns: no worker thread waits for a signal that never comes.
ShutdownReturns == main = "stopping" ~> main = "down"

\* Every job accepted by Add is completed or aborted, shutdown or not.
JobsFinish == \A j \in Job : j \in scheduled ~> jobState[j] \in {"DONE", "ABORTED"}
=============================================================================
