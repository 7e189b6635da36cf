-------------------------------- MODULE Http --------------------------------
(***************************************************************************)
(* CHttp (engine/shared/http.cpp): the thread that runs requests with      *)
(* curl's multi interface, the callers that hand it requests, abort them   *)
(* and wait for them, and its shutdown.                                    *)
(*                                                                         *)
(* curl is modelled by how it is used: a wake-up is kept until the next    *)
(* poll, a transfer ends with a result or runs on, and each of curl's      *)
(* functions may fail.  The order of requests in the queue is left out.    *)
(***************************************************************************)
EXTENDS FiniteSets

CONSTANTS
    Requests,
    Timed       \* those with a time limit: HttpPost; not HttpGet, HttpGetFile

ASSUME HttpAssumption == IsFiniteSet(Requests) /\ Timed \subseteq Requests

VARIABLES
    pc,         \* where the thread is
    state,      \* m_State
    shutdown,   \* m_Shutdown
    deadline,   \* m_ShutdownTime: not set, "set", and "passed"
    wake,       \* curl_multi_wakeup was called since the last poll
    pending,    \* m_PendingRequests
    taken,      \* NewRequests
    running,    \* m_RunningRequests
    over,       \* transfers curl has a result of
    request,    \* CHttpRequest::m_State, "NEW" before CHttp::Run
    abort       \* CHttpRequest::m_Abort

threadVars == <<pc, state, deadline, taken, running>>
vars == <<threadVars, shutdown, wake, pending, over, request, abort>>

Init ==
    /\ pc = "init"
    /\ state = "UNINITIALIZED"
    /\ shutdown = FALSE /\ deadline = "none" /\ wake = FALSE
    /\ pending = {} /\ taken = {} /\ running = {} /\ over = {}
    /\ request = [r \in Requests |-> "NEW"]
    /\ abort = [r \in Requests |-> FALSE]

\* m_Lock is held by the thread.
Locked == pc \in {"init", "clean"}

Open == {r \in Requests : request[r] \in {"QUEUED", "RUNNING"}}

-----------------------------------------------------------------------------
(* The callers.  They have waited for Init.                                *)

\* OnCompletionInternal and the end of Wait.
Complete(r, result) == request' = [request EXCEPT ![r] = result]

\* Bug: only a shutdown turns requests down.
RunUnlessShutdown(r) ==
    /\ request[r] = "NEW"
    /\ ~Locked
    /\ IF shutdown
       THEN Complete(r, "ABORTED") /\ UNCHANGED <<pending, wake>>
       ELSE /\ pending' = pending \cup {r}
            /\ wake' = TRUE
            /\ request' = [request EXCEPT ![r] = "QUEUED"]
    /\ UNCHANGED <<threadVars, shutdown, over, abort>>

\* Bug: the thread is not woken up for a request.
RunSilently(r) ==
    /\ request[r] = "NEW"
    /\ ~Locked
    /\ IF shutdown \/ state = "ERROR"
       THEN Complete(r, "ABORTED") /\ UNCHANGED pending
       ELSE /\ pending' = pending \cup {r}
            /\ request' = [request EXCEPT ![r] = "QUEUED"]
    /\ UNCHANGED <<threadVars, shutdown, wake, over, abort>>

Run(r) ==
    /\ request[r] = "NEW"
    /\ ~Locked
    /\ IF shutdown \/ state = "ERROR"
       THEN Complete(r, "ABORTED") /\ UNCHANGED <<pending, wake>>
       ELSE /\ pending' = pending \cup {r}
            /\ wake' = TRUE
            /\ request' = [request EXCEPT ![r] = "QUEUED"]
    /\ UNCHANGED <<threadVars, shutdown, over, abort>>

Abort(r) ==
    /\ request[r] # "NEW" /\ ~abort[r]
    /\ abort' = [abort EXCEPT ![r] = TRUE]
    /\ UNCHANGED <<threadVars, shutdown, wake, pending, over, request>>

\* Bug: the thread is not woken up.
ShutdownSilently ==
    /\ ~Locked /\ ~shutdown /\ state = "RUNNING"
    /\ shutdown' = TRUE
    /\ UNCHANGED <<threadVars, wake, pending, over, request, abort>>

Shutdown ==
    /\ ~Locked /\ ~shutdown /\ state = "RUNNING"
    /\ shutdown' = TRUE
    /\ wake' = TRUE
    /\ UNCHANGED <<threadVars, pending, over, request, abort>>

-----------------------------------------------------------------------------
(* RunLoop.  One round: poll, check, perform, read, take, add.             *)

Started ==
    /\ pc = "init"
    /\ \/ state' = "RUNNING" /\ pc' = "poll"
       \/ state' = "ERROR" /\ pc' = "ended"
    /\ UNCHANGED <<shutdown, deadline, wake, pending, taken, running, over,
                   request, abort>>

Woken == wake \/ over # {} \/ deadline = "passed"

\* curl_multi_poll returns, at times for no other reason than data.
Poll ==
    /\ pc = "poll"
    /\ Woken \/ running # {}
    /\ wake' = FALSE
    /\ pc' = "check"
    /\ UNCHANGED <<state, shutdown, deadline, pending, taken, running, over,
                   request, abort>>

\* Bug: the first look at m_Shutdown may be the last.
CheckOnce ==
    /\ pc = "check"
    /\ deadline' = IF shutdown /\ deadline = "none" THEN "set" ELSE deadline
    /\ pc' = IF shutdown /\ (deadline = "passed" \/ running = {})
             THEN "leave" ELSE "perform"
    /\ UNCHANGED <<state, shutdown, wake, pending, taken, running, over,
                   request, abort>>

Check ==
    /\ pc = "check"
    /\ deadline' = IF shutdown /\ deadline = "none" THEN "set" ELSE deadline
    /\ pc' = IF shutdown /\ deadline # "none"
                 /\ (deadline = "passed" \/ running = {})
             THEN "leave" ELSE "perform"
    /\ UNCHANGED <<state, shutdown, wake, pending, taken, running, over,
                   request, abort>>

\* curl_multi_poll or curl_multi_perform failed.
CurlFails ==
    /\ pc = "perform"
    /\ state' = "ERROR"
    /\ pc' = "clean"
    /\ UNCHANGED <<shutdown, deadline, wake, pending, taken, running, over,
                   request, abort>>

Performed ==
    /\ pc = "perform"
    /\ pc' = "read"
    /\ UNCHANGED <<state, shutdown, deadline, wake, pending, taken, running,
                   over, request, abort>>

Results(r) == {"DONE", "ERROR"} \cup (IF abort[r] THEN {"ABORTED"} ELSE {})

\* curl_multi_info_read has the result of a transfer.
Read ==
    /\ pc = "read"
    /\ \E r \in over : \E result \in Results(r) :
         /\ over' = over \ {r}
         /\ running' = running \ {r}
         /\ Complete(r, result)
    /\ UNCHANGED <<pc, state, shutdown, deadline, wake, pending, taken, abort>>

Take ==
    /\ pc = "read" /\ over = {}
    /\ taken' = pending
    /\ pending' = {}
    /\ pc' = "add"
    /\ UNCHANGED <<state, shutdown, deadline, wake, running, over, request,
                   abort>>

\* A request that is skipped, or that ConfigureHandle refuses.
Refuse(r) ==
    /\ pc = "add"
    /\ taken' = taken \ {r}
    /\ \E result \in {"DONE", "ABORTED", "ERROR"} : Complete(r, result)
    /\ UNCHANGED <<pc, state, shutdown, deadline, wake, pending, running, over,
                   abort>>

Start(r) ==
    /\ pc = "add"
    /\ taken' = taken \ {r}
    /\ running' = running \cup {r}
    /\ request' = [request EXCEPT ![r] = "RUNNING"]
    /\ UNCHANGED <<pc, state, shutdown, deadline, wake, pending, over, abort>>

\* Bug: the requests not yet started are forgotten.
StartFailsForgetting ==
    /\ pc = "add" /\ taken # {}
    /\ state' = "ERROR"
    /\ taken' = {}
    /\ pc' = "clean"
    /\ UNCHANGED <<shutdown, deadline, wake, pending, running, over, request,
                   abort>>

\* curl_easy_init or curl_multi_add_handle failed.
StartFails ==
    /\ pc = "add" /\ taken # {}
    /\ state' = "ERROR"
    /\ taken' = {}
    /\ pending' = pending \cup taken
    /\ pc' = "clean"
    /\ UNCHANGED <<shutdown, deadline, wake, running, over, request, abort>>

Added ==
    /\ pc = "add" /\ taken = {}
    /\ pc' = "poll"
    /\ UNCHANGED <<state, shutdown, deadline, wake, pending, taken, running,
                   over, request, abort>>

\* After the loop, under the lock.
Leave ==
    /\ pc = "leave"
    /\ pc' = "clean"
    /\ UNCHANGED <<state, shutdown, deadline, wake, pending, taken, running,
                   over, request, abort>>

CleanUp(r) ==
    /\ pc = "clean"
    /\ pending' = pending \ {r}
    /\ running' = running \ {r}
    /\ over' = over \ {r}
    /\ \E result \in {"ABORTED", "ERROR"} : Complete(r, result)
    /\ UNCHANGED <<pc, state, shutdown, deadline, wake, taken, abort>>

End ==
    /\ pc = "clean" /\ pending = {} /\ running = {}
    /\ pc' = "ended"
    /\ UNCHANGED <<state, shutdown, deadline, wake, pending, taken, running,
                   over, request, abort>>

-----------------------------------------------------------------------------
(* The world outside.                                                      *)

\* A transfer ends by itself, by its time limit or by ProgressCallback.
TransferEnds(r) ==
    /\ r \in running \ over
    /\ over' = over \cup {r}
    /\ UNCHANGED <<threadVars, shutdown, wake, pending, request, abort>>

DeadlinePasses ==
    /\ deadline = "set"
    /\ deadline' = "passed"
    /\ UNCHANGED <<pc, state, taken, running, shutdown, wake, pending, over,
                   request, abort>>

Thread ==
    \/ Started \/ Check \/ CurlFails \/ Performed \/ Read \/ Take
    \/ \E r \in taken : Refuse(r) \/ Start(r)
    \/ StartFails \/ Added \/ Leave
    \/ \E r \in pending \cup running : CleanUp(r)
    \/ End

Next ==
    \/ Thread \/ Poll \/ Shutdown \/ DeadlinePasses
    \/ \E r \in Requests : Run(r) \/ Abort(r) \/ TransferEnds(r)

Spec == Init /\ [][Next]_vars

\* The thread runs whenever it can, time passes, and what has a time limit ends.
Fairness ==
    /\ WF_vars(Thread)
    /\ WF_vars(Poll /\ Woken)
    /\ WF_vars(DeadlinePasses)
    /\ \A r \in Timed : WF_vars(TransferEnds(r))

FairSpec == Spec /\ Fairness

-----------------------------------------------------------------------------
(* Properties.                                                             *)

\* The thread's state is one of its own, and curl has results only of
\* transfers that were not reported yet.
TypeOK ==
    /\ pc \in {"init", "poll", "check", "perform", "read", "add", "leave",
               "clean", "ended"}
    /\ state \in {"UNINITIALIZED", "RUNNING", "ERROR"}
    /\ shutdown \in BOOLEAN /\ wake \in BOOLEAN
    /\ deadline \in {"none", "set", "passed"}
    /\ pending \subseteq Requests /\ taken \subseteq Requests
    /\ running \subseteq Requests /\ over \subseteq running
    /\ request \in [Requests -> {"NEW", "QUEUED", "RUNNING", "DONE", "ERROR",
                                 "ABORTED"}]
    /\ abort \in [Requests -> BOOLEAN]

\* Whatever fails, a request that was handed over and is not finished is in
\* exactly one of the three places, so that it is completed once, and a request
\* that is finished is in none.
OnePlace ==
    /\ Open = pending \cup taken \cup running
    /\ pending \cap taken = {} /\ (pending \cup taken) \cap running = {}

\* No request outlives the thread, and none is accepted when nobody is left to
\* complete it: Wait returns.
NothingLeft == pc = "ended" => Open = {}

\* When the thread gives up requests it has left, it failed or the delay for the
\* shutdown is over, even for those accepted just before the shutdown.  The
\* messages that a program sends as it stops depend on it, such as the deletes
\* of CRegister::OnShutdown.
Grace ==
    pc \in {"leave", "clean"} /\ Open # {} =>
        deadline = "passed" \/ state = "ERROR"

\* The destructor, which waits for the thread, returns, whatever the transfers
\* do.
ShutdownEnds == shutdown \/ state = "ERROR" ~> pc = "ended"

\* A request with a time limit is completed, whether or not there is a
\* shutdown.
RequestsEnd == \A r \in Timed : r \in Open ~> r \notin Open
=============================================================================
