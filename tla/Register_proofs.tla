-------------------------- MODULE Register_proofs --------------------------
(***************************************************************************)
(* Proofs about Register: for any number of addresses, events and requests *)
(* in flight the master server's tables agree, and the game server never   *)
(* takes an information for received that was not.                         *)
(***************************************************************************)
EXTENDS Register, SequenceTheorems, TLAPS

-----------------------------------------------------------------------------
(* The master server.                                                      *)

MasterType ==
    /\ addresses \in [Addrs -> Secrets \cup {NoSecret}]
    /\ servers \in [Secrets -> Server \cup {NoServer}]
    /\ seed \in Nat

MasterInv == MasterType /\ TablesAgree

\* Whoever loses an address: the tables without it agree but for the address.
LEMMA ReleasedAgrees ==
    ASSUME MasterInv, NEW a \in Addrs
    PROVE  /\ Released(a) \in [Secrets -> Server \cup {NoServer}]
           /\ \A s \in Secrets :
                /\ Released(a)[s] = NoServer <=>
                     {b \in Addrs \ {a} : addresses[b] = s} = {}
                /\ Released(a)[s] # NoServer =>
                     Released(a)[s].addresses = {b \in Addrs \ {a} : addresses[b] = s}
<1> USE MasterAssumption
<1>1. CASE addresses[a] = NoSecret
  <2>1. Released(a) = servers
    BY <1>1 DEF Released
  <2>2. ASSUME NEW s \in Secrets
        PROVE  {b \in Addrs \ {a} : addresses[b] = s} = {b \in Addrs : addresses[b] = s}
    BY <1>1
  <2>3. ASSUME NEW s \in Secrets
        PROVE  servers[s] = NoServer <=> {b \in Addrs : addresses[b] = s} = {}
    BY DEF MasterInv, MasterType, TablesAgree
  <2>4. QED
    BY <2>1, <2>2, <2>3 DEF MasterInv, MasterType, TablesAgree
<1>2. CASE addresses[a] # NoSecret
  <2> DEFINE old == addresses[a]
             kept == {b \in Addrs \ {a} : addresses[b] = old}
  <2>1. /\ old \in Secrets
        /\ servers[old] \in Server
        /\ servers[old].addresses = {b \in Addrs : addresses[b] = old}
    BY <1>2 DEF MasterInv, MasterType, TablesAgree
  <2>2. servers[old].addresses \ {a} = kept
    BY <2>1
  <2>3. /\ kept = {} => Without(servers[old], a) = NoServer
        /\ kept # {} => /\ Without(servers[old], a) \in Server
                        /\ Without(servers[old], a).addresses = kept
    <3>1. servers[old].addresses \subseteq {a} <=> kept = {}
      BY <2>2
    <3>2. kept \subseteq Addrs
      OBVIOUS
    <3>3. QED
      BY <2>1, <2>2, <3>1, <3>2 DEF Without, Server
  <2>4. Released(a) = [servers EXCEPT ![old] = Without(servers[old], a)]
    BY <1>2 DEF Released
  <2>5. Released(a)[old] = Without(servers[old], a)
    BY <2>1, <2>4 DEF MasterInv, MasterType
  <2>6. ASSUME NEW s \in Secrets, s # old
        PROVE  /\ Released(a)[s] = servers[s]
               /\ {b \in Addrs \ {a} : addresses[b] = s} = {b \in Addrs : addresses[b] = s}
               /\ servers[s] = NoServer <=> {b \in Addrs : addresses[b] = s} = {}
    BY <2>4, <2>6 DEF MasterInv, MasterType, TablesAgree
  <2>7. Released(a) \in [Secrets -> Server \cup {NoServer}]
    BY <2>1, <2>3, <2>4 DEF MasterInv, MasterType
  <2>8. ASSUME NEW s \in Secrets
        PROVE  /\ Released(a)[s] = NoServer <=>
                     {b \in Addrs \ {a} : addresses[b] = s} = {}
               /\ Released(a)[s] # NoServer =>
                     Released(a)[s].addresses = {b \in Addrs \ {a} : addresses[b] = s}
    <3>1. CASE s = old
      BY <2>3, <2>5, <3>1
    <3>2. CASE s # old
      BY <2>6, <3>2 DEF MasterInv, TablesAgree
    <3>3. QED
      BY <3>1, <3>2
  <2>9. QED
    BY <2>7, <2>8
<1>3. QED
  BY <1>1, <1>2

\* handle_delete and prune_before.
LEMMA RemoveKeeps ==
    ASSUME MasterInv, NEW a \in Addrs, RemoveAddr(a), UNCHANGED seed
    PROVE  MasterInv'
<1> USE MasterAssumption
<1>1. /\ addresses' = [addresses EXCEPT ![a] = NoSecret]
      /\ servers' = Released(a)
  BY DEF RemoveAddr
<1>2. MasterType'
  BY <1>1, ReleasedAgrees DEF MasterInv, MasterType
<1>3. ASSUME NEW s \in Secrets
      PROVE  {b \in Addrs : addresses'[b] = s} = {b \in Addrs \ {a} : addresses[b] = s}
  BY <1>1 DEF MasterInv, MasterType
<1>4. ASSUME NEW b \in Addrs, addresses'[b] # NoSecret
      PROVE  servers'[addresses'[b]] # NoServer
  <2>1. b # a /\ addresses'[b] = addresses[b] /\ addresses[b] \in Secrets
    BY <1>1, <1>4 DEF MasterInv, MasterType
  <2>2. b \in {c \in Addrs \ {a} : addresses[c] = addresses[b]}
    BY <2>1
  <2>3. QED
    BY <1>1, <2>1, <2>2, ReleasedAgrees
<1>5. ASSUME NEW s \in Secrets, servers'[s] # NoServer
      PROVE  /\ servers'[s].addresses # {}
             /\ servers'[s].addresses = {b \in Addrs : addresses'[b] = s}
  BY <1>1, <1>3, <1>5, ReleasedAgrees
<1>6. QED
  BY <1>2, <1>4, <1>5 DEF MasterInv, TablesAgree

\* Servers::add, once handle_register has the information it needs.
LEMMA AddKeeps ==
    ASSUME MasterInv, NEW a \in Addrs, NEW secret \in Secrets,
           NEW serial \in Nat, NEW info \in Nat \cup {NoInfo},
           ~(NeedInfo(secret, serial) /\ info = NoInfo),
           Add(a, secret, serial, info), UNCHANGED seed
    PROVE  MasterInv'
<1> USE MasterAssumption
<1> DEFINE left == IF addresses[a] = secret THEN servers ELSE Released(a)
           entry == Entry(left[secret], a, serial, info)
           Of(s) == {b \in Addrs : addresses'[b] = s}
<1>1. /\ addresses' = [addresses EXCEPT ![a] = secret]
      /\ servers' = [left EXCEPT ![secret] = entry]
  BY DEF Add
<1>2. /\ left \in [Secrets -> Server \cup {NoServer}]
      /\ left[secret] = servers[secret]
  BY ReleasedAgrees DEF MasterInv, MasterType, Released
<1>3. addresses' \in [Addrs -> Secrets \cup {NoSecret}] /\ addresses'[a] = secret
  BY <1>1 DEF MasterInv, MasterType
<1>4. /\ servers[secret] = NoServer => Of(secret) = {a}
      /\ servers[secret] # NoServer => Of(secret) = servers[secret].addresses \cup {a}
  <2>1. Of(secret) = {b \in Addrs : addresses[b] = secret} \cup {a}
    BY <1>1 DEF MasterInv, MasterType
  <2>2. servers[secret] = NoServer => {b \in Addrs : addresses[b] = secret} = {}
    BY DEF MasterInv, TablesAgree
  <2>3. servers[secret] # NoServer =>
          servers[secret].addresses = {b \in Addrs : addresses[b] = secret}
    BY DEF MasterInv, TablesAgree
  <2>4. QED
    BY <2>1, <2>2, <2>3
<1>5. entry \in Server /\ entry.addresses = Of(secret)
  <2>1. CASE servers[secret] = NoServer
    <3>1. info \in Nat
      BY <2>1 DEF NeedInfo
    <3>2. entry = [addresses |-> {a}, serial |-> serial, info |-> info]
      BY <1>2, <2>1 DEF Entry
    <3>3. QED
      BY <1>4, <2>1, <3>1, <3>2 DEF Server
  <2>2. CASE servers[secret] # NoServer
    <3> DEFINE old == servers[secret]
    <3>1. old \in Server
      BY <2>2 DEF MasterInv, MasterType
    <3>2. serial > old.serial => info \in Nat
      BY <2>2 DEF NeedInfo
    <3>3. entry = [addresses |-> old.addresses \cup {a},
                   serial |-> IF serial > old.serial THEN serial ELSE old.serial,
                   info |-> IF serial > old.serial THEN info ELSE old.info]
      BY <1>2, <2>2 DEF Entry
    <3>4. QED
      BY <1>4, <2>2, <3>1, <3>2, <3>3 DEF Server
  <2>3. QED
    BY <2>1, <2>2
<1> HIDE DEF entry
<1>6. ASSUME NEW s \in Secrets, s # secret
      PROVE  /\ left[s] = NoServer <=> Of(s) = {}
             /\ left[s] # NoServer => left[s].addresses = Of(s)
  <2>1. Of(s) = {b \in Addrs \ {a} : addresses[b] = s}
    BY <1>1, <1>6 DEF MasterInv, MasterType
  <2>2. CASE addresses[a] = secret
    <3>1. {b \in Addrs \ {a} : addresses[b] = s} = {b \in Addrs : addresses[b] = s}
      BY <1>6, <2>2
    <3>2. left = servers
      BY <2>2
    <3>3. servers[s] = NoServer <=> {b \in Addrs : addresses[b] = s} = {}
      BY DEF MasterInv, TablesAgree
    <3>4. servers[s] # NoServer => servers[s].addresses = {b \in Addrs : addresses[b] = s}
      BY DEF MasterInv, TablesAgree
    <3>5. QED
      BY <2>1, <3>1, <3>2, <3>3, <3>4
  <2>3. CASE addresses[a] # secret
    <3>1. left = Released(a)
      BY <2>3
    <3>2. QED
      BY <2>1, <3>1, ReleasedAgrees
  <2>4. QED
    BY <2>2, <2>3
<1> HIDE DEF left
<1>7. MasterType'
  BY <1>1, <1>2, <1>3, <1>5 DEF MasterInv, MasterType
<1>8. ASSUME NEW s \in Secrets
      PROVE  /\ servers'[s] = NoServer <=> Of(s) = {}
             /\ servers'[s] # NoServer => servers'[s].addresses = Of(s)
  <2>1. CASE s = secret
    <3>1. servers'[s] = entry
      BY <1>1, <1>2, <2>1
    <3>2. a \in Of(secret) /\ entry # NoServer
      BY <1>3, <1>5
    <3>3. QED
      BY <1>5, <2>1, <3>1, <3>2
  <2>2. CASE s # secret
    <3>1. servers'[s] = left[s]
      BY <1>1, <1>2, <2>2
    <3>2. QED
      BY <1>6, <2>2, <3>1
  <2>3. QED
    BY <2>1, <2>2
<1>9. ASSUME NEW b \in Addrs, addresses'[b] # NoSecret
      PROVE  servers'[addresses'[b]] # NoServer
  <2>1. addresses'[b] \in Secrets /\ b \in Of(addresses'[b])
    BY <1>3, <1>9
  <2>2. QED
    BY <1>8, <2>1
<1>10. QED
  BY <1>7, <1>8, <1>9 DEF MasterInv, TablesAgree

\* Every operation of the master server keeps the two tables in agreement.
LEMMA RegisterKeeps ==
    ASSUME MasterInv, NEW a \in Addrs, NEW secret \in Secrets, NEW tok \in Nat,
           NEW serial \in Nat, NEW info \in Nat \cup {NoInfo},
           HandleRegister(a, tok, secret, serial, info)
    PROVE  MasterInv'
<1>1. CASE Answer(tok, secret, serial, info) = "OK"
  <2>1. ~(NeedInfo(secret, serial) /\ info = NoInfo)
    BY <1>1 DEF Answer
  <2>2. Add(a, secret, serial, info) /\ UNCHANGED seed
    BY <1>1 DEF HandleRegister
  <2>3. QED
    BY <2>1, <2>2, AddKeeps
<1>2. CASE Answer(tok, secret, serial, info) # "OK"
  BY <1>2 DEF HandleRegister, MasterInv, MasterType, TablesAgree
<1>3. QED
  BY <1>1, <1>2

LEMMA DeleteKeeps ==
    ASSUME MasterInv, NEW a \in Addrs, NEW secret, HandleDelete(a, secret)
    PROVE  MasterInv'
<1>1. CASE addresses[a] = secret
  BY <1>1, RemoveKeeps DEF HandleDelete
<1>2. CASE addresses[a] # secret
  BY <1>2 DEF HandleDelete, MasterInv, MasterType, TablesAgree
<1>3. QED
  BY <1>1, <1>2

LEMMA MasterChanges ==
    ASSUME MasterInv
    PROVE  /\ \A a \in Addrs : Prune(a) => MasterInv'
           /\ Reseed => MasterInv'
           /\ RestartMaster => MasterInv'
           /\ UNCHANGED masterVars => MasterInv'
<1>1. ASSUME NEW a \in Addrs, Prune(a) PROVE MasterInv'
  BY <1>1, RemoveKeeps DEF Prune
<1>2. Reseed \/ UNCHANGED masterVars => MasterInv'
  BY DEF Reseed, masterVars, MasterInv, MasterType, TablesAgree
<1>3. RestartMaster => MasterInv'
  BY DEF RestartMaster, MasterInv, MasterType, TablesAgree
<1>4. QED
  BY <1>1, <1>2, <1>3

-----------------------------------------------------------------------------
(* The game server and what is on its way.                                 *)

\* Jobs whose success, if they have one, was really stored.
HonestJobs(st) == {j \in Job : j.answer = "OK" => j.serial <= st}

Counts ==
    /\ events \in Nat /\ events <= MaxEvents
    /\ process \in Secrets /\ process <= events + 1
    /\ enabled \subseteq Protocols
    /\ infoSerial \in Nat
    /\ latest \in Serial /\ stored \in Serial /\ latest <= stored

JobsHonest == jobs \in [Protocols -> Seq(HonestJobs(stored))]

OnTheirWay ==
    /\ strays \subseteq Stray
    /\ deletes \subseteq [addr : Addrs, secret : Secrets]
    /\ challenges \subseteq [addr : Addrs, secret : Secrets, token : Nat]

Flags ==
    /\ status \in [Protocols -> Answers]
    /\ answered \in [Protocols -> BOOLEAN]
    /\ token \in [Protocols -> Nat]
    /\ newToken \in [Protocols -> BOOLEAN]
    /\ next \in [Protocols -> {"never", "later", "due"}]

RegInv == MasterInv /\ Counts /\ JobsHonest /\ OnTheirWay /\ Flags

\* The invariant holds at the start.
LEMMA RegInvInit == Init => RegInv
<1> SUFFICES ASSUME Init PROVE RegInv
  OBVIOUS
<1> USE RegisterAssumption, MasterAssumption DEF Init, MasterInit
<1>1. MasterInv
  BY DEF MasterInv, MasterType, TablesAgree, NoToken
<1>2. Counts /\ OnTheirWay
  BY DEF Counts, OnTheirWay, Serial, NoRequest
<1>3. JobsHonest
  BY DEF JobsHonest
<1>4. Flags
  BY DEF Flags, Answers, NoToken
<1>5. QED
  BY <1>1, <1>2, <1>3, <1>4 DEF RegInv

-----------------------------------------------------------------------------
(* Sequences of jobs.                                                      *)

\* CJob's fields may change as long as the answer stays honest.
LEMMA JobsReplaced ==
    ASSUME NEW S, NEW js \in Seq(S), NEW js2 \in [1 .. Len(js) -> S]
    PROVE  js2 \in Seq(S) /\ Len(js2) = Len(js)
<1>1. Len(js) \in Nat
  OBVIOUS
<1>2. QED
  BY <1>1

LEMMA JobRemoved ==
    ASSUME NEW S, NEW js \in Seq(S), NEW i \in 1 .. Len(js)
    PROVE  RemoveAt(js, i) \in Seq(S)
<1>1. SubSeq(js, 1, i - 1) \in Seq(S)
  BY SubSeqProperties
<1>2. SubSeq(js, i + 1, Len(js)) \in Seq(S)
  BY SubSeqProperties
<1>3. QED
  BY <1>1, <1>2, ConcatProperties DEF RemoveAt

\* Success stays honest when more is stored.
LEMMA HonestLater ==
    ASSUME NEW a \in Serial, NEW b \in Serial, a <= b, NEW js \in Seq(HonestJobs(a))
    PROVE  js \in Seq(HonestJobs(b))
<1>1. HonestJobs(a) \subseteq HonestJobs(b)
  BY DEF HonestJobs, Job, Serial, NoRequest
<1>2. QED
  BY <1>1, SeqMonotonic

\* The new request has no answer yet.
LEMMA RequestAppended ==
    ASSUME RegInv, NEW js \in Seq(HonestJobs(stored)), NEW serial \in Nat, NEW tok \in Nat
    PROVE  Append(NotLast(js), NewJob(serial, tok)) \in Seq(HonestJobs(stored))
<1>1. NewJob(serial, tok) \in HonestJobs(stored)
  BY DEF NewJob, HonestJobs, Job, Answers
<1>2. ASSUME NEW i \in 1 .. Len(js)
      PROVE  NotLast(js)[i] \in HonestJobs(stored)
  <2>1. js[i] \in HonestJobs(stored)
    BY ElementOfSeq
  <2>2. NotLast(js)[i] = [js[i] EXCEPT !.last = FALSE]
    BY DEF NotLast
  <2>3. QED
    BY <2>1, <2>2 DEF HonestJobs, Job
<1>3. NotLast(js) \in Seq(HonestJobs(stored))
  <2>1. NotLast(js) \in [1 .. Len(js) -> HonestJobs(stored)]
    BY <1>2 DEF NotLast
  <2>2. QED
    BY <2>1, JobsReplaced
<1>4. QED
  BY <1>1, <1>3

\* SendRegister
LEMMA SendKeeps ==
    ASSUME RegInv, NEW S, NEW serial \in Nat, NEW tok \in [Protocols -> Nat],
           SendRegister(S, serial, tok)
    PROVE  /\ jobs' \in [Protocols -> Seq(HonestJobs(stored))]
           /\ answered' \in [Protocols -> BOOLEAN]
           /\ next' \in [Protocols -> {"never", "later", "due"}]
<1>1. ASSUME NEW p \in Protocols
      PROVE  Append(NotLast(jobs[p]), NewJob(serial, tok[p])) \in Seq(HonestJobs(stored))
  <2>1. jobs[p] \in Seq(HonestJobs(stored))
    BY DEF RegInv, JobsHonest
  <2>2. QED
    BY <2>1, RequestAppended
<1>2. jobs' \in [Protocols -> Seq(HonestJobs(stored))]
  BY <1>1 DEF SendRegister, RegInv, JobsHonest
<1>3. answered' \in [Protocols -> BOOLEAN]
  BY DEF SendRegister
<1>4. next' \in [Protocols -> {"never", "later", "due"}]
  BY DEF SendRegister, RegInv, Flags
<1>5. QED
  BY <1>2, <1>3, <1>4

-----------------------------------------------------------------------------
(* CRegister's operations.                                                 *)

LEMMA UpdateKeeps == ASSUME RegInv, Update PROVE RegInv'
<1>1. PICK S : /\ SendRegister(S, infoSerial, token)
               /\ newToken' = [p \in Protocols |-> p \notin S /\ newToken[p]]
  BY DEF Update
<1>2. infoSerial \in Nat /\ token \in [Protocols -> Nat]
  BY DEF RegInv, Counts, Flags
<1>3. JobsHonest' /\ Flags'
  <2>1. newToken' \in [Protocols -> BOOLEAN]
    BY <1>1
  <2>2. QED
    BY <1>1, <1>2, <2>1, SendKeeps DEF Update, RegInv, JobsHonest, Flags
<1>4. MasterInv'
  BY MasterChanges DEF RegInv, Update
<1>5. Counts' /\ OnTheirWay'
  BY DEF RegInv, Counts, OnTheirWay, Update, globalVars, netVars
<1>6. QED
  BY <1>3, <1>4, <1>5 DEF RegInv

LEMMA TimeUpKeeps == ASSUME RegInv, NEW p \in Protocols, TimeUp(p) PROVE RegInv'
<1>1. MasterInv'
  BY MasterChanges DEF RegInv, TimeUp
<1>2. Counts' /\ OnTheirWay' /\ JobsHonest'
  BY DEF RegInv, Counts, OnTheirWay, JobsHonest, TimeUp, globalVars, netVars
<1>3. Flags'
  BY DEF RegInv, Flags, TimeUp
<1>4. QED
  BY <1>1, <1>2, <1>3 DEF RegInv

LEMMA OnTokenKeeps == ASSUME RegInv, NEW c \in challenges, OnToken(c) PROVE RegInv'
<1>1. c.addr \in Protocols /\ c.token \in Nat
  BY DEF RegInv, OnTheirWay, Protocols
<1>2. MasterInv'
  BY MasterChanges DEF RegInv, OnToken
<1>3. Counts' /\ OnTheirWay'
  BY DEF RegInv, Counts, OnTheirWay, OnToken, globalVars
<1>4. JobsHonest' /\ Flags'
  <2>1. CASE c.secret # process
    BY <2>1 DEF OnToken, RegInv, JobsHonest, Flags, protocolVars
  <2>2. CASE c.secret = process
    <3>1. PICK S : /\ token' = [token EXCEPT ![c.addr] = c.token]
                   /\ SendRegister(S, infoSerial, token')
                   /\ newToken' = [newToken EXCEPT ![c.addr] = c.addr \notin S]
                   /\ UNCHANGED status
      BY <2>2 DEF OnToken
    <3>2. infoSerial \in Nat /\ token' \in [Protocols -> Nat]
      BY <1>1, <3>1 DEF RegInv, Counts, Flags
    <3>3. newToken' \in [Protocols -> BOOLEAN]
      BY <3>1 DEF RegInv, Flags
    <3>4. QED
      BY <3>1, <3>2, <3>3, SendKeeps DEF OnToken, RegInv, JobsHonest, Flags
  <2>3. QED
    BY <2>1, <2>2
<1>5. QED
  BY <1>2, <1>3, <1>4 DEF RegInv

LEMMA OnNewInfoKeeps == ASSUME RegInv, OnNewInfo PROVE RegInv'
<1>1. PICK S : /\ SendRegister(S, infoSerial', token)
               /\ newToken' = [p \in Protocols |-> p \notin S /\ newToken[p]]
  BY DEF OnNewInfo
<1>2. infoSerial' \in Nat /\ token \in [Protocols -> Nat]
  BY DEF RegInv, Counts, Flags, OnNewInfo
<1>3. JobsHonest' /\ Flags'
  <2>1. newToken' \in [Protocols -> BOOLEAN]
    BY <1>1
  <2>2. QED
    BY <1>1, <1>2, <2>1, SendKeeps DEF OnNewInfo, RegInv, JobsHonest, Flags
<1>4. MasterInv'
  BY MasterChanges DEF RegInv, OnNewInfo
<1>5. Counts' /\ OnTheirWay'
  BY <1>2, RegisterAssumption DEF RegInv, Counts, OnTheirWay, OnNewInfo, Event, netVars
<1>6. QED
  BY <1>3, <1>4, <1>5 DEF RegInv

\* SendDeleteIfRegistered names this process.
LEMMA DeletesTyped ==
    ASSUME RegInv, NEW P \in SUBSET Protocols
    PROVE  Deletes(P) \subseteq [addr : Addrs, secret : Secrets]
BY DEF Deletes, RegInv, Counts, Protocols

LEMMA OnConfigChangeKeeps == ASSUME RegInv, OnConfigChange PROVE RegInv'
<1> DEFINE on == enabled' \ enabled
           off == enabled \ enabled'
<1>1. /\ SendRegister(on, infoSerial, token)
      /\ newToken' = [p \in Protocols |-> p \notin on /\ newToken[p]]
      /\ deletes' = deletes \cup Deletes(off)
      /\ status' = [p \in Protocols |-> IF p \in off THEN "NONE" ELSE status[p]]
  BY DEF OnConfigChange
<1>2. infoSerial \in Nat /\ token \in [Protocols -> Nat]
  BY DEF RegInv, Counts, Flags
<1>3. JobsHonest' /\ Flags'
  <2>1. newToken' \in [Protocols -> BOOLEAN]
    BY <1>1
  <2>2. status' \in [Protocols -> Answers]
    BY <1>1 DEF RegInv, Flags, Answers
  <2>3. QED
    BY <1>1, <1>2, <2>1, <2>2, SendKeeps DEF OnConfigChange, RegInv, JobsHonest, Flags
<1>4. MasterInv'
  BY MasterChanges DEF RegInv, OnConfigChange
<1>5. Counts'
  BY RegisterAssumption DEF RegInv, Counts, OnConfigChange, Event
<1>6. OnTheirWay'
  <2>1. off \in SUBSET Protocols
    BY DEF RegInv, Counts
  <2>2. QED
    BY <1>1, <2>1, DeletesTyped DEF OnConfigChange, RegInv, OnTheirWay
<1>7. QED
  BY <1>3, <1>4, <1>5, <1>6 DEF RegInv

-----------------------------------------------------------------------------
(* CJob::Run and the master server.                                        *)

\* What a job carries.
LEMMA JobTyped ==
    ASSUME RegInv, NEW p \in Protocols, NEW i \in 1 .. Len(jobs[p])
    PROVE  /\ jobs[p] \in Seq(HonestJobs(stored))
           /\ jobs[p][i] \in HonestJobs(stored)
           /\ jobs[p][i] \in Job
<1>1. jobs[p] \in Seq(HonestJobs(stored))
  BY DEF RegInv, JobsHonest
<1>2. jobs[p][i] \in HonestJobs(stored)
  BY <1>1, ElementOfSeq
<1>3. QED
  BY <1>1, <1>2 DEF HonestJobs

LEMMA ChallengeTyped ==
    ASSUME RegInv, NEW a \in Addrs, NEW secret \in Secrets, NEW tok
    PROVE  challenges \cup Challenge(a, secret, tok)
              \subseteq [addr : Addrs, secret : Secrets, token : Nat]
BY DEF Challenge, RegInv, OnTheirWay, MasterInv, MasterType

LEMMA AnswerTyped ==
    ASSUME NEW tok, NEW secret, NEW serial, NEW info
    PROVE  Answer(tok, secret, serial, info) \in Answers
BY DEF Answer, Answers

\* One job takes another state.
LEMMA JobChanged ==
    ASSUME RegInv, NEW st \in Serial, stored <= st,
           NEW p \in Protocols, NEW js \in Seq(HonestJobs(st)),
           jobs' = [jobs EXCEPT ![p] = js]
    PROVE  jobs' \in [Protocols -> Seq(HonestJobs(st))]
<1>1. ASSUME NEW q \in Protocols PROVE jobs[q] \in Seq(HonestJobs(st))
  <2>1. jobs[q] \in Seq(HonestJobs(stored)) /\ stored \in Serial
    BY DEF RegInv, JobsHonest, Counts
  <2>2. QED
    BY <2>1, HonestLater
<1>2. QED
  BY <1>1 DEF RegInv, JobsHonest

LEMMA RequestKeeps ==
    ASSUME RegInv, NEW p \in Protocols, NEW i \in 1 .. Len(jobs[p]), Request(p, i)
    PROVE  RegInv'
<1> DEFINE job == jobs[p][i]
           answer == Answer(job.token, process, job.serial, job.info)
           js == [jobs[p] EXCEPT ![i] = [[job EXCEPT !.stage = "reply"]
                                            EXCEPT !.answer = answer]]
<1>1. /\ job \in HonestJobs(stored) /\ job \in Job
      /\ jobs[p] \in Seq(HonestJobs(stored))
  BY JobTyped
<1>2. process \in Secrets /\ p \in Addrs /\ stored \in Serial
  BY DEF RegInv, Counts, Protocols
<1>3. answer \in Answers
  BY AnswerTyped
<1>4. /\ job.token \in Nat /\ job.serial \in Nat /\ job.info \in Nat \cup {NoInfo}
  BY <1>1 DEF Job
<1>5. MasterInv'
  <2>1. HandleRegister(p, job.token, process, job.serial, job.info)
    BY DEF Request
  <2>2. QED
    BY <1>2, <1>4, <2>1, RegisterKeeps DEF RegInv
<1>6. /\ stored' \in Serial
      /\ stored <= stored'
      /\ answer = "OK" => job.serial <= stored'
  <2>1. stored' = IF answer = "OK" /\ job.serial > stored THEN job.serial ELSE stored
    BY DEF Request, Stored
  <2>2. QED
    BY <1>2, <1>4, <2>1 DEF Serial, NoRequest
<1>7. jobs' = [jobs EXCEPT ![p] = js]
  <2>1. jobs' = [jobs EXCEPT ![p][i].stage = "reply", ![p][i].answer = answer]
    BY DEF Request
  <2>2. jobs[p][i] = job
    OBVIOUS
  <2>3. QED
    BY <1>1, <2>1 DEF RegInv, JobsHonest, Job
<1>8. [[job EXCEPT !.stage = "reply"] EXCEPT !.answer = answer] \in HonestJobs(stored')
  BY <1>1, <1>3, <1>6 DEF HonestJobs, Job
<1>9. js \in Seq(HonestJobs(stored'))
  <2>1. jobs[p] \in Seq(HonestJobs(stored'))
    BY <1>1, <1>2, <1>6, HonestLater
  <2>2. QED
    BY <1>8, <2>1, ExceptSeq
<1>10. JobsHonest'
  BY <1>6, <1>7, <1>9, JobChanged DEF JobsHonest
<1>11. Counts'
  BY <1>6 DEF RegInv, Counts, Request, globalVars, Serial, NoRequest
<1>12. OnTheirWay'
  BY <1>2, ChallengeTyped DEF RegInv, OnTheirWay, Request
<1>13. Flags'
  BY DEF RegInv, Flags, Request, protocolVars
<1>14. QED
  BY <1>5, <1>10, <1>11, <1>12, <1>13 DEF RegInv

LEMMA FailKeeps ==
    ASSUME RegInv, NEW p \in Protocols, NEW i \in 1 .. Len(jobs[p]), Fail(p, i)
    PROVE  RegInv'
<1>1. MasterInv'
  BY MasterChanges DEF RegInv, Fail
<1>2. Counts'
  BY RegisterAssumption DEF RegInv, Counts, Fail, Event, globalVars
<1>3. OnTheirWay' /\ Flags'
  BY DEF RegInv, OnTheirWay, Flags, Fail, netVars, protocolVars
<1>4. JobsHonest'
  <2>1. RemoveAt(jobs[p], i) \in Seq(HonestJobs(stored))
    BY JobTyped, JobRemoved
  <2>2. QED
    BY <2>1 DEF Fail, RegInv, JobsHonest
<1>5. QED
  BY <1>1, <1>2, <1>3, <1>4 DEF RegInv

LEMMA TakeAnswerKeeps ==
    ASSUME RegInv, NEW p \in Protocols, NEW i \in 1 .. Len(jobs[p]), TakeAnswer(p, i)
    PROVE  RegInv'
<1> DEFINE job == jobs[p][i]
           seen == [j \in 1 .. Len(jobs[p]) |->
                      IF j < i THEN [jobs[p][j] EXCEPT !.stale = TRUE] ELSE jobs[p][j]]
           S == HonestJobs(stored)
           settling == [seen EXCEPT ![i].stage = "settle"]
           js == IF job.answer = "NEEDCHALLENGE" THEN RemoveAt(seen, i) ELSE settling
<1>1. job \in S /\ job \in Job /\ jobs[p] \in Seq(S)
  BY JobTyped
<1>2. seen \in Seq(S) /\ Len(seen) = Len(jobs[p])
  <2>1. ASSUME NEW j \in 1 .. Len(jobs[p]) PROVE seen[j] \in S
    <3>1. jobs[p][j] \in S
      BY JobTyped
    <3>2. [jobs[p][j] EXCEPT !.stale = TRUE] \in S
      BY <3>1 DEF HonestJobs, Job
    <3>3. QED
      BY <3>1, <3>2
  <2>2. seen \in [1 .. Len(jobs[p]) -> S]
    BY <2>1
  <2>3. QED
    BY <1>1, <2>2, JobsReplaced
<1>3. seen[i] = job
  OBVIOUS
<1>4. settling \in Seq(S)
  <2>1. settling = [seen EXCEPT ![i] = [job EXCEPT !.stage = "settle"]]
    BY <1>3
  <2>2. [job EXCEPT !.stage = "settle"] \in S
    BY <1>1 DEF HonestJobs, Job
  <2>3. QED
    BY <1>2, <2>1, <2>2, ExceptSeq
<1>5. RemoveAt(seen, i) \in Seq(S)
  BY <1>2, JobRemoved
<1>6. jobs' = [jobs EXCEPT ![p] = js]
  BY DEF TakeAnswer
<1> HIDE DEF seen, settling
<1>7. JobsHonest'
  <2>1. js \in Seq(S)
    BY <1>4, <1>5
  <2>2. stored' = stored
    BY DEF TakeAnswer
  <2>3. QED
    BY <1>6, <2>1, <2>2 DEF RegInv, JobsHonest
<1>8. MasterInv'
  BY MasterChanges DEF RegInv, TakeAnswer
<1>9. Counts' /\ OnTheirWay'
  BY DEF RegInv, Counts, OnTheirWay, TakeAnswer, globalVars, netVars
<1>10. Flags'
  <2>1. status' \in [Protocols -> Answers]
    BY <1>1 DEF TakeAnswer, RegInv, Flags, Job
  <2>2. answered' \in [Protocols -> BOOLEAN]
    BY <1>1 DEF TakeAnswer, RegInv, Flags, Job
  <2>3. QED
    BY <2>1, <2>2 DEF TakeAnswer, RegInv, Flags
<1>11. QED
  BY <1>7, <1>8, <1>9, <1>10 DEF RegInv

\* The serial number that is counted is that of a request that was answered.
LEMMA SettleKeeps ==
    ASSUME RegInv, NEW p \in Protocols, NEW i \in 1 .. Len(jobs[p]), Settle(p, i)
    PROVE  RegInv'
<1>1. MasterInv'
  BY MasterChanges DEF RegInv, Settle, Done
<1>2. JobsHonest'
  <2>1. RemoveAt(jobs[p], i) \in Seq(HonestJobs(stored))
    BY JobTyped, JobRemoved
  <2>2. QED
    BY <2>1 DEF Settle, Done, RegInv, JobsHonest
<1>3. OnTheirWay' /\ Flags'
  BY DEF RegInv, OnTheirWay, Flags, Settle, Done, netVars, protocolVars
<1>4. Counts'
  <2>1. PICK job : /\ job = jobs[p][i]
                   /\ job \in HonestJobs(stored) /\ job.serial \in Nat
    <3>1. jobs[p][i] \in HonestJobs(stored) /\ jobs[p][i] \in Job
      BY JobTyped
    <3>2. QED
      BY <3>1 DEF Job
  <2>2. latest' = IF job.answer = "OK" /\ job.serial > latest THEN job.serial
                  ELSE IF job.answer = "NEEDINFO" /\ job.serial = latest
                  THEN latest - 1 ELSE latest
    BY <2>1 DEF Settle
  <2>3. latest' \in Serial /\ latest' <= stored
    BY <2>1, <2>2 DEF RegInv, Counts, Serial, NoRequest, HonestJobs
  <2>4. QED
    BY <2>3 DEF RegInv, Counts, Settle, Done
<1>5. QED
  BY <1>1, <1>2, <1>3, <1>4 DEF RegInv

LEMMA StrayKeeps ==
    ASSUME RegInv, NEW r \in strays, RequestOfTheDead(r)
    PROVE  RegInv'
<1>1. /\ r.addr \in Addrs /\ r.secret \in Secrets /\ r.token \in Nat
      /\ r.serial \in Nat /\ r.info \in Nat \cup {NoInfo}
  BY DEF RegInv, OnTheirWay, Stray
<1>2. MasterInv'
  <2>1. HandleRegister(r.addr, r.token, r.secret, r.serial, r.info)
    BY DEF RequestOfTheDead
  <2>2. QED
    BY <1>1, <2>1, RegisterKeeps DEF RegInv
<1>3. Counts' /\ JobsHonest' /\ Flags'
  BY DEF RegInv, Counts, JobsHonest, Flags, RequestOfTheDead, globalVars, protocolVars
<1>4. OnTheirWay'
  BY <1>1, ChallengeTyped DEF RegInv, OnTheirWay, RequestOfTheDead
<1>5. QED
  BY <1>2, <1>3, <1>4 DEF RegInv

LEMMA DeleteArrives ==
    ASSUME RegInv, NEW d \in deletes, Delete(d)
    PROVE  RegInv'
<1>1. d.addr \in Addrs
  BY DEF RegInv, OnTheirWay
<1>2. MasterInv'
  BY <1>1, DeleteKeeps DEF RegInv, Delete
<1>3. Counts' /\ JobsHonest' /\ Flags' /\ OnTheirWay'
  BY DEF RegInv, Counts, JobsHonest, Flags, OnTheirWay, Delete, globalVars, protocolVars
<1>4. QED
  BY <1>2, <1>3 DEF RegInv

-----------------------------------------------------------------------------
(* Restarts, losses and what time does.                                    *)

LEMMA RestartKeeps == ASSUME RegInv, RestartServer PROVE RegInv'
<1> USE RegisterAssumption
<1>1. MasterInv'
  BY MasterChanges DEF RegInv, RestartServer
<1>2. Counts'
  <2>1. /\ events < MaxEvents /\ events' = events + 1
        /\ process' = process + 1
        /\ enabled' = Protocols /\ infoSerial' = 0
        /\ latest' = NoRequest /\ stored' = NoRequest
    BY DEF RestartServer, Event, Start
  <2>2. QED
    BY <2>1 DEF RegInv, Counts, Serial, NoRequest
<1>3. JobsHonest'
  BY DEF RestartServer, Start, JobsHonest
<1>4. Flags'
  BY DEF RestartServer, Start, Flags, Answers, NoToken
<1>5. OnTheirWay'
  <2>1. challenges' \subseteq [addr : Addrs, secret : Secrets, token : Nat]
    BY DEF RestartServer, RegInv, OnTheirWay
  <2>2. deletes' \subseteq [addr : Addrs, secret : Secrets]
    BY DeletesTyped DEF RestartServer, RegInv, OnTheirWay, Counts
  <2>3. strays' \subseteq Stray
    <3>1. ASSUME NEW p \in Protocols, NEW i \in 1 .. Len(jobs[p])
          PROVE  [addr |-> p, secret |-> process, token |-> jobs[p][i].token,
                  serial |-> jobs[p][i].serial, info |-> jobs[p][i].info] \in Stray
      <4>1. jobs[p][i] \in Job
        BY JobTyped
      <4>2. QED
        BY <4>1 DEF Job, Stray, RegInv, Counts, Protocols
    <3>2. QED
      BY <3>1 DEF RestartServer, RegInv, OnTheirWay
  <2>4. QED
    BY <2>1, <2>2, <2>3 DEF OnTheirWay
<1>6. QED
  BY <1>1, <1>2, <1>3, <1>4, <1>5 DEF RegInv

LEMMA LossKeeps ==
    ASSUME RegInv, NEW x, LoseToken(x) \/ LoseDelete(x)
    PROVE  RegInv'
<1> USE RegisterAssumption
<1>1. UNCHANGED <<masterVars, globalVars, protocolVars, jobs, strays, stored>> /\ Event
  BY DEF LoseToken, LoseDelete
<1>2. MasterInv'
  BY <1>1, MasterChanges DEF RegInv
<1>3. Counts'
  BY <1>1 DEF RegInv, Counts, Event, globalVars
<1>4. JobsHonest' /\ Flags'
  BY <1>1 DEF RegInv, JobsHonest, Flags, protocolVars
<1>5. OnTheirWay'
  BY <1>1 DEF RegInv, OnTheirWay, LoseToken, LoseDelete
<1>6. QED
  BY <1>2, <1>3, <1>4, <1>5 DEF RegInv

LEMMA MasterMoves ==
    ASSUME RegInv, ReseedMaster \/ MasterRestarts \/ (\E a \in Protocols : Expire(a))
    PROVE  RegInv'
<1> USE RegisterAssumption
<1>1. MasterInv'
  BY MasterChanges DEF RegInv, ReseedMaster, MasterRestarts, Expire, Protocols
<1>2. /\ UNCHANGED <<globalVars, protocolVars, jobs, netVars, stored>>
      /\ Event \/ UNCHANGED events
  BY DEF ReseedMaster, MasterRestarts, Expire
<1>3. Counts'
  BY <1>2 DEF RegInv, Counts, Event, globalVars
<1>4. JobsHonest' /\ Flags' /\ OnTheirWay'
  BY <1>2 DEF RegInv, JobsHonest, Flags, OnTheirWay, protocolVars, netVars
<1>5. QED
  BY <1>1, <1>3, <1>4 DEF RegInv

\* Every step keeps the invariant.
LEMMA RegInvStep == RegInv /\ [Next]_vars => RegInv'
<1> SUFFICES ASSUME RegInv, [Next]_vars PROVE RegInv'
  OBVIOUS
<1>1. ASSUME UNCHANGED vars PROVE RegInv'
  <2>1. MasterInv'
    BY <1>1, MasterChanges DEF RegInv, vars
  <2>2. Counts' /\ JobsHonest' /\ Flags' /\ OnTheirWay'
    BY <1>1 DEF RegInv, Counts, JobsHonest, Flags, OnTheirWay, vars, globalVars,
       protocolVars, netVars
  <2>3. QED
    BY <2>1, <2>2 DEF RegInv
<1>2. ASSUME NEW p \in Protocols, NEW i \in 1 .. Len(jobs[p]), JobStep(p, i) \/ Fail(p, i)
      PROVE  RegInv'
  BY <1>2, RequestKeeps, TakeAnswerKeeps, SettleKeeps, FailKeeps DEF JobStep
<1>3. QED
  BY <1>1, <1>2, UpdateKeeps, OnNewInfoKeeps, OnConfigChangeKeeps, TimeUpKeeps, OnTokenKeeps,
     DeleteArrives, StrayKeeps, RestartKeeps, LossKeeps, MasterMoves DEF Next

\* The invariant holds in every state.
THEOREM RegisterInvariant == Spec => []RegInv
<1>1. QED
  BY RegInvInit, RegInvStep, PTL DEF Spec

\* The state of both servers and what is between them is well-formed.
THEOREM RegisterTypeOK == Spec => []TypeOK
<1>1. RegInv => TypeOK
  <2> SUFFICES ASSUME RegInv PROVE TypeOK
    OBVIOUS
  <2>1. HonestJobs(stored) \subseteq Job
    BY DEF HonestJobs
  <2>2. ASSUME NEW p \in Protocols PROVE jobs[p] \in Seq(Job)
    <3>1. jobs[p] \in Seq(HonestJobs(stored))
      BY DEF RegInv, JobsHonest
    <3>2. QED
      BY <2>1, <3>1, SeqMonotonic
  <2>3. jobs \in [Protocols -> Seq(Job)]
    BY <2>2 DEF RegInv, JobsHonest
  <2>4. QED
    BY <2>3 DEF RegInv, MasterInv, MasterType, Counts, OnTheirWay, Flags, TypeOK
<1>2. QED
  BY <1>1, RegisterInvariant, PTL

\* The two tables of the master server agree, so that none of its unwraps and
\* asserts fails, whatever is registered, deleted and forgotten.
THEOREM MasterTablesAgree == Spec => []TablesAgree
<1>1. RegInv => TablesAgree
  BY DEF RegInv, MasterInv
<1>2. QED
  BY <1>1, RegisterInvariant, PTL

\* The game server only takes the master server to have what it was sent, in
\* whatever order its requests are answered.
THEOREM NoFalseSuccessEver == Spec => []NoFalseSuccess
<1>1. RegInv => NoFalseSuccess
  BY DEF RegInv, Counts, NoFalseSuccess
<1>2. QED
  BY <1>1, RegisterInvariant, PTL
=============================================================================
