----------------------------- MODULE Register ------------------------------
(***************************************************************************)
(* How a game server keeps itself listed: CRegister (register.cpp) and the *)
(* master server (mastersrv/src/main.rs), with requests over HTTP that     *)
(* fail or are answered in any order, challenge tokens over UDP that are   *)
(* lost, and restarts of both.                                             *)
(*                                                                         *)
(* Requests are sent by jobs (JobPool) and run in parallel.  The clock is  *)
(* abstracted: the next registration of a protocol falls due at any time   *)
(* after it was scheduled.  The state begins with the main loop, when the  *)
(* server information is known and Update was called once.                 *)
(***************************************************************************)
EXTENDS MasterServer, Sequences, FiniteSets, SequencesExt

CONSTANTS
    MaxEvents,  \* bound: changes of the information or the configuration,
                \* restarts, reseeds, losses and undue expiries, in all
    MaxJobs     \* bound: requests of a protocol in flight

ASSUME RegisterAssumption ==
    /\ MaxEvents \in Nat
    /\ MaxJobs \in Nat \ {0}
    /\ Secrets = 1 .. MaxEvents + 1

Protocols == Addrs      \* each registers an address of its own

VARIABLES
    process,    \* number of the process: m_Secret and m_ChallengeSecret
    enabled,    \* m_aProtocolEnabled
    infoSerial, \* CGlobal::m_InfoSerial
    latest,     \* CGlobal::m_LatestSuccessfulInfoSerial
    status,     \* CShared::m_LatestResponseStatus
    answered,   \* m_LatestResponseIndex = m_NumTotalRequests - 1
    token,      \* m_aChallengeToken, or NoToken
    newToken,   \* m_NewChallengeToken
    next,       \* m_NextRegister: "never" set, "later" or "due"
    jobs,       \* the CJobs of a protocol that are not done, oldest first
    strays,     \* requests of processes that are gone
    deletes,    \* delete requests on their way
    challenges, \* send_challenge's packets on their way
    events,     \* how many of MaxEvents there were
    stored      \* ghost: the latest information the master server took

globalVars == <<process, enabled, infoSerial, latest>>
protocolVars == <<status, answered, token, newToken, next>>
netVars == <<strays, deletes, challenges>>
vars == <<masterVars, globalVars, protocolVars, jobs, netVars, events,
          stored>>

NoRequest == -1         \* no serial number

Start ==
    /\ enabled' = Protocols
    /\ infoSerial' = 0
    /\ latest' = NoRequest
    /\ status' = [p \in Protocols |-> "NONE"]
    /\ answered' = [p \in Protocols |-> TRUE]
    /\ token' = [p \in Protocols |-> NoToken]
    /\ newToken' = [p \in Protocols |-> FALSE]
    /\ next' = [p \in Protocols |-> "never"]
    /\ jobs' = [p \in Protocols |-> <<>>]
    /\ stored' = NoRequest

Init ==
    /\ MasterInit
    /\ process = 1
    /\ enabled = Protocols
    /\ infoSerial = 0
    /\ latest = NoRequest
    /\ status = [p \in Protocols |-> "NONE"]
    /\ answered = [p \in Protocols |-> TRUE]
    /\ token = [p \in Protocols |-> NoToken]
    /\ newToken = [p \in Protocols |-> FALSE]
    /\ next = [p \in Protocols |-> "never"]
    /\ jobs = [p \in Protocols |-> <<>>]
    /\ strays = {} /\ deletes = {} /\ challenges = {}
    /\ events = 0
    /\ stored = NoRequest

Event == events < MaxEvents /\ events' = events + 1

-----------------------------------------------------------------------------
(* CProtocol.                                                              *)

\* The job of a new request.  The information goes along when it is not known
\* that the master server has it.
NewJob(serial, tok) ==
    [stage |-> "sent", answer |-> "NONE", serial |-> serial,
     info |-> IF serial > latest THEN serial ELSE NoInfo,
     token |-> tok, stale |-> FALSE, last |-> TRUE]

NotLast(js) == [i \in 1 .. Len(js) |-> [js[i] EXCEPT !.last = FALSE]]

\* SendRegister, for the protocols in S.
SendRegister(S, serial, tok) ==
    /\ \A p \in S : Len(jobs[p]) < MaxJobs
    /\ jobs' = [p \in Protocols |->
                  IF p \in S
                  THEN Append(NotLast(jobs[p]), NewJob(serial, tok[p]))
                  ELSE jobs[p]]
    /\ answered' = [p \in Protocols |-> p \notin S /\ answered[p]]
    /\ next' = [p \in Protocols |-> IF p \in S THEN "later" ELSE next[p]]

\* CheckChallengeStatus brings the registration forward, and m_NextRegister.
Due(p, new) ==
    \/ next[p] # "later"
    \/ answered[p] /\ status[p] = "NEEDINFO"
    \/ answered[p] /\ status[p] = "NEEDCHALLENGE" /\ new

\* CProtocol::Update of every protocol.
Update ==
    LET S == {p \in enabled : Due(p, newToken[p])}
    IN  /\ SendRegister(S, infoSerial, token)
        /\ newToken' = [p \in Protocols |-> p \notin S /\ newToken[p]]
        /\ UNCHANGED <<masterVars, globalVars, status, token, netVars, events, stored>>

\* Fifteen seconds have passed since the last request, which by then was
\* answered or timed out.
TimeUp(p) ==
    /\ next[p] = "later" /\ jobs[p] = <<>>
    /\ next' = [next EXCEPT ![p] = "due"]
    /\ UNCHANGED <<masterVars, globalVars, status, answered, token, newToken,
                   jobs, netVars, events, stored>>

\* OnPacket and OnToken, whether the protocol is enabled or not.
OnToken(c) ==
    /\ challenges' = challenges \ {c}
    /\ IF c.secret # process
       THEN UNCHANGED <<protocolVars, jobs>>
       ELSE LET p == c.addr
                S == IF Due(p, TRUE) THEN {p} ELSE {}
            IN  /\ token' = [token EXCEPT ![p] = c.token]
                /\ SendRegister(S, infoSerial, token')
                /\ newToken' = [newToken EXCEPT ![p] = p \notin S]
                /\ UNCHANGED status
    /\ UNCHANGED <<masterVars, globalVars, strays, deletes, events,
                   stored>>

\* OnNewInfo: sent at once by the protocols that are due or never registered,
\* and by the one that would be next if none of its kind registered within the
\* last second.
OnNewInfo ==
    LET new == {p \in enabled : next[p] = "never"}
        due == {p \in enabled : next[p] = "due"}
    IN  /\ Event
        /\ infoSerial' = infoSerial + 1
        /\ \E T \in SUBSET (enabled \ new) :
             /\ IF due # {} THEN T = due ELSE Cardinality(T) <= 1
             /\ SendRegister(new \cup T, infoSerial', token)
             /\ newToken' = [p \in Protocols |-> p \notin new \cup T /\ newToken[p]]
        /\ UNCHANGED <<masterVars, process, enabled, latest, status, token,
                       netVars, stored>>

Deletes(P) == [addr : {p \in P : status[p] = "OK"}, secret : {process}]

\* OnConfigChange
OnConfigChange ==
    /\ Event
    /\ enabled' \in (SUBSET Protocols) \ {enabled}
    /\ LET on == enabled' \ enabled
           off == enabled \ enabled'
       IN  /\ SendRegister(on, infoSerial, token)
           /\ newToken' = [p \in Protocols |-> p \notin on /\ newToken[p]]
           /\ deletes' = deletes \cup Deletes(off)
           /\ status' = [p \in Protocols |-> IF p \in off THEN "NONE" ELSE status[p]]
    /\ UNCHANGED <<masterVars, process, infoSerial, latest, token, strays,
                   challenges, stored>>

-----------------------------------------------------------------------------
(* CJob::Run, and the master server at the other end.                      *)

Challenge(a, secret, tok) ==
    IF tok = seed THEN {} ELSE {[addr |-> a, secret |-> secret, token |-> seed]}

Stored(secret, serial, answer) ==
    IF secret = process /\ answer = "OK" /\ serial > stored THEN serial ELSE stored

Request(p, i) ==
    LET job == jobs[p][i]
        answer == Answer(job.token, process, job.serial, job.info)
    IN  /\ job.stage = "sent"
        /\ HandleRegister(p, job.token, process, job.serial, job.info)
        /\ jobs' = [jobs EXCEPT ![p][i].stage = "reply", ![p][i].answer = answer]
        /\ challenges' = challenges \cup Challenge(p, process, job.token)
        /\ stored' = Stored(process, job.serial, answer)
        /\ UNCHANGED <<globalVars, protocolVars, strays, deletes, events>>

\* The request or its answer is lost; the job ends without a word.
Fail(p, i) ==
    /\ jobs[p][i].stage \in {"sent", "reply"}
    /\ jobs' = [jobs EXCEPT ![p] = RemoveAt(@, i)]
    /\ Event
    /\ UNCHANGED <<masterVars, globalVars, protocolVars, netVars, stored>>

\* The answer to a request that is older than another one that was answered
\* changes nothing here.
TakeAnswer(p, i) ==
    LET job == jobs[p][i]
        seen == [j \in 1 .. Len(jobs[p]) |->
                   IF j < i THEN [jobs[p][j] EXCEPT !.stale = TRUE] ELSE jobs[p][j]]
    IN  /\ job.stage = "reply"
        /\ IF job.stale THEN UNCHANGED <<status, answered>>
           ELSE /\ status' = [status EXCEPT ![p] = job.answer]
                /\ answered' = [answered EXCEPT ![p] = job.last]
        /\ jobs' = [jobs EXCEPT ![p] =
                      IF job.answer = "NEEDCHALLENGE" THEN RemoveAt(seen, i)
                      ELSE [seen EXCEPT ![i].stage = "settle"]]
        /\ UNCHANGED <<masterVars, globalVars, token, newToken, next, netVars,
                       events, stored>>

Done(p, i) ==
    /\ jobs' = [jobs EXCEPT ![p] = RemoveAt(@, i)]
    /\ UNCHANGED <<masterVars, process, enabled, infoSerial, protocolVars,
                   netVars, events, stored>>

\* Bug: the information that was acknowledged is taken to be the present one.
SettlePresent(p, i) ==
    LET job == jobs[p][i]
    IN  /\ job.stage = "settle"
        /\ latest' = IF job.answer = "OK" THEN infoSerial
                     ELSE IF job.answer = "NEEDINFO" /\ job.serial = latest
                     THEN latest - 1 ELSE latest
        /\ Done(p, i)

\* Bug: only success is counted.
SettleSuccess(p, i) ==
    LET job == jobs[p][i]
    IN  /\ job.stage = "settle"
        /\ latest' = IF job.answer = "OK" /\ job.serial > latest THEN job.serial
                     ELSE latest
        /\ Done(p, i)

\* m_LatestSuccessfulInfoSerial, under another lock than the answer was taken.
Settle(p, i) ==
    LET job == jobs[p][i]
    IN  /\ job.stage = "settle"
        /\ latest' = IF job.answer = "OK" /\ job.serial > latest THEN job.serial
                     ELSE IF job.answer = "NEEDINFO" /\ job.serial = latest
                     THEN latest - 1 ELSE latest
        /\ Done(p, i)

RequestOfTheDead(r) ==
    /\ strays' = strays \ {r}
    /\ HandleRegister(r.addr, r.token, r.secret, r.serial, r.info)
    /\ challenges' = challenges \cup Challenge(r.addr, r.secret, r.token)
    /\ UNCHANGED <<globalVars, protocolVars, jobs, deletes, events, stored>>

Delete(d) ==
    /\ deletes' = deletes \ {d}
    /\ HandleDelete(d.addr, d.secret)
    /\ UNCHANGED <<globalVars, protocolVars, jobs, strays, challenges, events, stored>>

-----------------------------------------------------------------------------
(* Faults.                                                                 *)

\* The game server stops and is started again; a clean stop sends deletes.
RestartServer ==
    /\ Event
    /\ process' = process + 1
    /\ \E clean \in BOOLEAN :
         deletes' = deletes \cup IF clean THEN Deletes(enabled) ELSE {}
    /\ strays' = strays \cup
         UNION {{[addr |-> p, secret |-> process, token |-> j.token,
                  serial |-> j.serial, info |-> j.info] :
                 j \in {jobs[p][i] : i \in {i \in 1 .. Len(jobs[p]) :
                                            jobs[p][i].stage = "sent"}}} :
                p \in Protocols}
    /\ Start
    /\ UNCHANGED <<masterVars, challenges>>

LoseToken(c) ==
    /\ challenges' = challenges \ {c}
    /\ Event
    /\ UNCHANGED <<masterVars, globalVars, protocolVars, jobs, strays, deletes,
                   stored>>

LoseDelete(d) ==
    /\ deletes' = deletes \ {d}
    /\ Event
    /\ UNCHANGED <<masterVars, globalVars, protocolVars, jobs, strays,
                   challenges, stored>>

ReseedMaster ==
    /\ Reseed
    /\ Event
    /\ UNCHANGED <<globalVars, protocolVars, jobs, netVars, stored>>

MasterRestarts ==
    /\ RestartMaster
    /\ Event
    /\ UNCHANGED <<globalVars, protocolVars, jobs, netVars, stored>>

\* Nothing came for thirty seconds: a matter of course for an address that is
\* no longer kept up, a fault for one that is.
KeptUp(a) == a \in enabled /\ addresses[a] = process

Expire(a) ==
    /\ Prune(a)
    /\ IF KeptUp(a) THEN Event ELSE UNCHANGED events
    /\ UNCHANGED <<globalVars, protocolVars, jobs, netVars, stored>>

-----------------------------------------------------------------------------
JobStep(p, i) == i \in 1 .. Len(jobs[p]) /\ (Request(p, i) \/ TakeAnswer(p, i) \/ Settle(p, i))

Next ==
    \/ Update \/ OnNewInfo \/ OnConfigChange
    \/ \E p \in Protocols : TimeUp(p) \/ Expire(p)
    \/ \E p \in Protocols : \E i \in 1 .. Len(jobs[p]) : JobStep(p, i) \/ Fail(p, i)
    \/ \E c \in challenges : OnToken(c) \/ LoseToken(c)
    \/ \E d \in deletes : Delete(d) \/ LoseDelete(d)
    \/ \E r \in strays : RequestOfTheDead(r)
    \/ RestartServer \/ ReseedMaster \/ MasterRestarts

Spec == Init /\ [][Next]_vars

\* The main loop goes on, time passes, the oldest request ends, packets arrive
\* or were lost, and the master server cleans up every second.  Sending is
\* strongly fair because nothing but the bound MaxJobs ever disables it.
Fairness ==
    /\ SF_vars(Update)
    /\ SF_vars(\E c \in challenges : OnToken(c))
    /\ \A p \in Protocols : /\ WF_vars(TimeUp(p))
                            /\ WF_vars(Expire(p) /\ ~KeptUp(p))
                            /\ WF_vars(JobStep(p, 1))
    /\ WF_vars(\E d \in deletes : Delete(d))
    /\ WF_vars(\E r \in strays : RequestOfTheDead(r))

FairSpec == Spec /\ Fairness

-----------------------------------------------------------------------------
(* Properties.                                                             *)

Serial == Nat \cup {NoRequest}
Answers == {"NONE", "OK", "NEEDCHALLENGE", "NEEDINFO"}
Job == [stage : {"sent", "reply", "settle"}, answer : Answers, serial : Nat,
        info : Nat \cup {NoInfo}, token : Nat, stale : BOOLEAN, last : BOOLEAN]
Stray == [addr : Addrs, secret : Secrets, token : Nat, serial : Nat,
          info : Nat \cup {NoInfo}]

\* The tables of the master server hold only what was sent, the game server's
\* own state is well-formed.
TypeOK ==
    /\ addresses \in [Addrs -> Secrets \cup {NoSecret}]
    /\ servers \in [Secrets -> Server \cup {NoServer}]
    /\ seed \in Nat
    /\ process \in Secrets /\ enabled \subseteq Protocols
    /\ infoSerial \in Nat /\ latest \in Serial /\ stored \in Serial
    /\ status \in [Protocols -> Answers]
    /\ answered \in [Protocols -> BOOLEAN]
    /\ token \in [Protocols -> Nat]
    /\ newToken \in [Protocols -> BOOLEAN]
    /\ next \in [Protocols -> {"never", "later", "due"}]
    /\ jobs \in [Protocols -> Seq(Job)]
    /\ strays \subseteq Stray
    /\ deletes \subseteq [addr : Addrs, secret : Secrets]
    /\ challenges \subseteq [addr : Addrs, secret : Secrets, token : Nat]
    /\ events \in Nat

\* The game server never takes the master server to know an information that
\* it was not sent, in whatever order requests are answered, so that it never
\* leaves out one that is needed for good.
NoFalseSuccess == latest <= stored

\* Once restarts, losses and changes come to an end, every enabled protocol is
\* listed for good, under the current secret and with the latest information,
\* and no other is.
Listed(p) ==
    /\ addresses[p] = process
    /\ servers[process].info = infoSerial

ListedInTheEnd ==
    <>[](\A p \in Protocols : IF p \in enabled THEN Listed(p)
                              ELSE addresses[p] = NoSecret)
=============================================================================
