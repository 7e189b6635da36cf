-------------------------- MODULE DbConnectionPool --------------------------
(***************************************************************************)
(* CDbConnectionPool (engine/server/databases/connection_pool.cpp): the    *)
(* main thread puts queries into a ring of QueueSize slots; the backup     *)
(* thread looks at each one first and copies writes into the backup        *)
(* database; the worker thread then executes it.  What a write does to the *)
(* tables is CScoreWorker::SaveScore; the other writes follow its pattern. *)
(*                                                                         *)
(* A step is one operation on a semaphore, a slot or an atomic, or one SQL *)
(* statement; the tables are what survives a crash between two steps.      *)
(* CSemaphore's own counter differs from the semaphore only inside Signal  *)
(* and Wait, which only the other thread could notice.                     *)
(***************************************************************************)
EXTENDS Integers, FiniteSets

CONSTANTS
    QueueSize,      \* std::size(m_aQueries), 512
    Backlog,        \* bound: queries the worker thread has not yet taken
    MaxQueries,     \* bound: queries ever queued
    NoQuery         \* nullptr

Number == 0 .. (MaxQueries - 1)
Slot == 0 .. (QueueSize - 1)

\* CDbConnectionPool::Mode, of an ADD_MYSQL or ADD_SQLITE query.
Mode == {"READ", "WRITE", "WRITE_BACKUP"}
Kind == {"read", "write", "print"} \union Mode
Query == [num : Number, kind : Kind]

ASSUME PoolAssumption ==
    /\ QueueSize \in Nat \ {0}
    /\ Backlog \in Nat
    /\ MaxQueries \in Nat
    /\ NoQuery \notin Query

VARIABLES
    queries,        \* m_aQueries
    insertIdx,      \* m_InsertIdx
    shutdown,       \* CSharedData::m_Shutdown
    numBackup,      \* m_NumBackup
    numWorker,      \* m_NumWorker
    main,           \* where the main thread is
    backup,         \* where the backup thread is in ProcessQueries
    backupNum,      \* its JobNum
    backupQuery,    \* its pThreadData
    backupOpen,     \* its m_pWriteBackup is set
    worker,         \* where the worker thread is in ProcessQueries
    workerNum,      \* its JobNum
    workerQuery,    \* its pThreadData
    servers,        \* which of its connections are set
    failMode,       \* FailMode
    success,        \* Success
    race,           \* rows of record_race on the WRITE server
    saved,          \* rows of record_race in the backup database
    tmp,            \* rows of record_race_backup in the backup database
    result,         \* m_Completed and m_Success, a ghost where m_pResult is not set
    inserted,       \* ghost: number of queries queued so far
    copied,         \* ghost: writes with a row inserted by BACKUP_FIRST
    unsure,         \* ghost: writes executed although reported as failed
    wanted          \* ghost: the connections asked for so far

ringVars == <<queries, insertIdx, inserted, wanted>>
mainVars == <<ringVars, main>>
backupVars == <<backup, backupNum, backupQuery, backupOpen>>
workerVars == <<worker, workerNum, workerQuery, servers, failMode, success>>
tableVars == <<race, saved, tmp, copied, unsure>>
vars == <<shutdown, numBackup, numWorker, mainVars, backupVars, workerVars,
          tableVars, result>>

Init ==
    /\ queries = [i \in Slot |-> NoQuery]
    /\ insertIdx = 0
    /\ shutdown = FALSE
    /\ numBackup = 0
    /\ numWorker = 0
    /\ main = "ready"
    /\ backup = "wait" /\ backupNum = 0 /\ backupQuery = NoQuery
    /\ backupOpen = FALSE
    /\ worker = "top" /\ workerNum = 0 /\ workerQuery = NoQuery
    /\ servers = {} /\ failMode = FALSE /\ success = FALSE
    /\ race = {} /\ saved = {} /\ tmp = {}
    /\ result = [n \in Number |-> "pending"]
    /\ inserted = 0
    /\ copied = {} /\ unsure = {}
    /\ wanted = {}

-----------------------------------------------------------------------------
(* The main thread *)

NextSlot(i) == (i + 1) % QueueSize

\* Into the next slot, whatever it holds.  Bounds: Backlog and MaxQueries.
Insert(kind) ==
    /\ main = "ready"
    /\ inserted < MaxQueries
    /\ inserted - workerNum < Backlog
    /\ queries' = [queries EXCEPT ![insertIdx] = [num |-> inserted, kind |-> kind]]
    /\ insertIdx' = NextSlot(insertIdx)
    /\ inserted' = inserted + 1
    /\ main' = "inserted"
    /\ UNCHANGED <<shutdown, numBackup, numWorker, backupVars, workerVars, tableVars, result>>

Execute == Insert("read") /\ UNCHANGED wanted
ExecuteWrite == Insert("write") /\ UNCHANGED wanted
\* CDbConnectionPool::Print.
PrintServers == Insert("print") /\ UNCHANGED wanted

\* CServer::Run: one sqlite file, a backup or both of the other connections.
RegisterSqliteDatabase(mode) == Insert(mode) /\ wanted' = wanted \union {mode}

\* ConAddSqlServer: the mode an argument is registered with, and the one it
\* names: "choose either 'r' for SqlReadServer or 'w' for SqlWriteServer".
RegisteredMode(argument) == IF argument = "w" THEN "READ" ELSE "WRITE"
NamedMode(argument) == IF argument = "w" THEN "WRITE" ELSE "READ"

RegisterMysqlDatabase(argument) ==
    Insert(RegisteredMode(argument)) /\ wanted' = wanted \union {NamedMode(argument)}

SignalBackup ==
    /\ main = "inserted"
    /\ numBackup' = numBackup + 1
    /\ main' = "ready"
    /\ UNCHANGED <<shutdown, numWorker, ringVars, backupVars, workerVars, tableVars, result>>

OnShutdown ==
    /\ main = "ready"
    /\ shutdown' = TRUE
    /\ main' = "stopping"
    /\ UNCHANGED <<numBackup, numWorker, ringVars, backupVars, workerVars, tableVars, result>>

SignalShutdown ==
    /\ main = "stopping"
    /\ numBackup' = numBackup + 1
    /\ main' = "waiting"
    /\ UNCHANGED <<shutdown, numWorker, ringVars, backupVars, workerVars, tableVars, result>>

\* OnShutdown returns; ~CDbConnectionPool waits for the threads.
ShutdownDone ==
    /\ main = "waiting"
    /\ ~shutdown
    /\ main' = "joining"
    /\ UNCHANGED <<shutdown, numBackup, numWorker, ringVars, backupVars, workerVars, tableVars, result>>

Join ==
    /\ main = "joining"
    /\ worker = "ended" /\ backup = "ended"
    /\ main' = "down"
    /\ UNCHANGED <<shutdown, numBackup, numWorker, ringVars, backupVars, workerVars, tableVars, result>>

-----------------------------------------------------------------------------
(* The backup thread: CBackup::ProcessQueries *)

BackupWait ==
    /\ backup = "wait"
    /\ numBackup > 0
    /\ numBackup' = numBackup - 1
    /\ backup' = "look"
    /\ UNCHANGED <<shutdown, numWorker, mainVars, backupNum, backupQuery, backupOpen,
                   workerVars, tableVars, result>>

\* An empty slot ends the thread, which wakes up the worker thread first.
BackupEnd ==
    /\ backup = "look"
    /\ queries[backupNum % QueueSize] = NoQuery
    /\ numWorker' = numWorker + 1
    /\ backup' = "ended"
    /\ UNCHANGED <<shutdown, numBackup, mainVars, backupNum, backupQuery, backupOpen,
                   workerVars, tableVars, result>>

BackupLook ==
    LET query == queries[backupNum % QueueSize]
    IN /\ backup = "look"
       /\ query # NoQuery
       /\ backupQuery' = query
       /\ backupOpen' = (backupOpen \/ query.kind = "WRITE_BACKUP")
       /\ backup' = IF query.kind = "write" /\ backupOpen THEN "copy" ELSE "signal"
       /\ UNCHANGED <<shutdown, numBackup, numWorker, mainVars, backupNum,
                      workerVars, tableVars, result>>

\* ExecSqlFunc with BACKUP_FIRST inserts a row, or fails.
BackupCopy ==
    /\ backup = "copy"
    /\ \/ /\ tmp' = tmp \union {backupQuery.num}
          /\ copied' = copied \union {backupQuery.num}
       \/ UNCHANGED <<tmp, copied>>
    /\ backup' = "signal"
    /\ UNCHANGED <<shutdown, numBackup, numWorker, mainVars, backupNum, backupQuery,
                   backupOpen, workerVars, race, saved, unsure, result>>

\* Bug: only writes are passed on.
BackupSignalWrites ==
    /\ backup = "signal"
    /\ numWorker' = IF backupQuery.kind = "read" THEN numWorker ELSE numWorker + 1
    /\ backup' = "wait"
    /\ backupNum' = backupNum + 1
    /\ backupQuery' = NoQuery
    /\ UNCHANGED <<shutdown, numBackup, mainVars, backupOpen, workerVars, tableVars, result>>

BackupSignal ==
    /\ backup = "signal"
    /\ numWorker' = numWorker + 1
    /\ backup' = "wait"
    /\ backupNum' = backupNum + 1
    /\ backupQuery' = NoQuery
    /\ UNCHANGED <<shutdown, numBackup, mainVars, backupOpen, workerVars, tableVars, result>>

-----------------------------------------------------------------------------
(* The worker thread: CWorker::ProcessQueries *)

\* Fail mode ends when no query waits for the worker thread.
WorkerTop ==
    /\ worker = "top"
    /\ failMode' = (failMode /\ numWorker > 0)
    /\ worker' = "wait"
    /\ UNCHANGED <<shutdown, numBackup, numWorker, mainVars, backupVars, workerNum,
                   workerQuery, servers, success, tableVars, result>>

WorkerWait ==
    /\ worker = "wait"
    /\ numWorker > 0
    /\ numWorker' = numWorker - 1
    /\ worker' = "take"
    /\ UNCHANGED <<shutdown, numBackup, mainVars, backupVars, workerNum,
                   workerQuery, servers, failMode, success, tableVars, result>>

\* Bugs: m_Shutdown ends the thread at once; it is not set back at the end.
WorkerEndAtOnce ==
    /\ worker = "take"
    /\ queries[workerNum % QueueSize] = NoQuery \/ shutdown
    /\ shutdown' = FALSE
    /\ worker' = "ended"
    /\ UNCHANGED <<numBackup, numWorker, mainVars, backupVars, workerNum,
                   workerQuery, servers, failMode, success, tableVars, result>>
WorkerEndSilently ==
    /\ worker = "take"
    /\ queries[workerNum % QueueSize] = NoQuery
    /\ worker' = "ended"
    /\ UNCHANGED <<shutdown, numBackup, numWorker, mainVars, backupVars, workerNum,
                   workerQuery, servers, failMode, success, tableVars, result>>

WorkerEnd ==
    /\ worker = "take"
    /\ queries[workerNum % QueueSize] = NoQuery
    /\ shutdown' = FALSE
    /\ worker' = "ended"
    /\ UNCHANGED <<numBackup, numWorker, mainVars, backupVars, workerNum,
                   workerQuery, servers, failMode, success, tableVars, result>>

\* The query leaves its slot.
WorkerTake ==
    LET i == workerNum % QueueSize
    IN /\ worker = "take"
       /\ queries[i] # NoQuery
       /\ workerQuery' = queries[i]
       /\ queries' = [queries EXCEPT ![i] = NoQuery]
       /\ success' = FALSE
       /\ worker' = "execute"
       /\ UNCHANGED <<shutdown, numBackup, numWorker, insertIdx, inserted, wanted, main,
                      backupVars, workerNum, servers, failMode, tableVars, result>>

\* READ_ACCESS: one of the servers answers, or none; none is asked when the
\* pool shuts down or in fail mode.
ExecuteRead ==
    /\ worker = "execute"
    /\ workerQuery.kind = "read"
    /\ success' \in {FALSE, "READ" \in servers /\ ~shutdown /\ ~failMode}
    /\ failMode' = (failMode \/ ~success')
    /\ worker' = "complete"
    /\ UNCHANGED <<shutdown, numBackup, numWorker, mainVars, backupVars, workerNum,
                   workerQuery, servers, tableVars, result>>

ExecuteOther ==
    /\ worker = "execute"
    /\ workerQuery.kind \notin {"read", "write"}
    /\ servers' = servers \union ({workerQuery.kind} \ {"print"})
    /\ success' = TRUE
    /\ worker' = "complete"
    /\ UNCHANGED <<shutdown, numBackup, numWorker, mainVars, backupVars, workerNum,
                   workerQuery, failMode, tableVars, result>>

(***************************************************************************)
(* WRITE_ACCESS with NORMAL.  While the pool shuts down or in fail mode    *)
(* only a pool without a backup connection tries the WRITE server.  The    *)
(* statement is executed and reported so, or it fails, or the connection   *)
(* breaks before the answer arrives.                                       *)
(***************************************************************************)
Skipped == "WRITE_BACKUP" \in servers /\ (shutdown \/ failMode)

ExecuteNormal ==
    LET n == workerQuery.num
    IN /\ worker = "execute"
       /\ workerQuery.kind = "write"
       /\ \/ /\ success' = FALSE
             /\ UNCHANGED <<race, unsure>>
          \/ /\ "WRITE" \in servers /\ ~Skipped
             /\ race' = race \union {n}
             /\ \/ success' = TRUE /\ UNCHANGED unsure
                \/ success' = FALSE /\ unsure' = unsure \union {n}
       /\ failMode' = (failMode \/ ~success')
       /\ worker' = IF "WRITE_BACKUP" \in servers THEN "settle" ELSE "complete"
       /\ UNCHANGED <<shutdown, numBackup, numWorker, mainVars, backupVars, workerNum,
                      workerQuery, servers, saved, tmp, copied, result>>

\* Bugs: the row is deleted, or moved, whether NORMAL succeeded or not.
SettleDeletes ==
    /\ worker = "settle"
    /\ tmp' = tmp \ {workerQuery.num}
    /\ worker' = "complete"
    /\ UNCHANGED <<shutdown, numBackup, numWorker, mainVars, backupVars, workerNum, saved,
                   workerQuery, servers, failMode, race, success, copied, unsure, result>>
SettleMoves ==
    /\ worker = "settle"
    /\ saved' = saved \union (tmp \intersect {workerQuery.num})
    /\ worker' = "delete"
    /\ UNCHANGED <<shutdown, numBackup, numWorker, mainVars, backupVars, workerNum, tmp,
                   workerQuery, servers, failMode, race, success, copied, unsure, result>>

\* NORMAL_SUCCEEDED deletes the row in the temporary table, NORMAL_FAILED
\* first inserts it into the table proper; either statement may fail.
Settle ==
    LET own == {workerQuery.num}
    IN /\ worker = "settle"
       /\ \/ /\ success
             /\ tmp' \in {tmp, tmp \ own}
             /\ worker' = "complete"
             /\ UNCHANGED saved
          \/ /\ ~success
             /\ saved' = saved \union (tmp \intersect own)
             /\ worker' = "delete"
             /\ UNCHANGED tmp
          \/ /\ ~success
             /\ worker' = "complete"
             /\ UNCHANGED <<saved, tmp>>
       /\ UNCHANGED <<shutdown, numBackup, numWorker, mainVars, backupVars, workerNum,
                      workerQuery, servers, failMode, race, success, copied, unsure, result>>

\* The second statement of NORMAL_FAILED.
SettleDelete ==
    /\ worker = "delete"
    /\ \/ tmp' = tmp \ {workerQuery.num} /\ success' = TRUE
       \/ UNCHANGED <<tmp, success>>
    /\ worker' = "complete"
    /\ UNCHANGED <<shutdown, numBackup, numWorker, mainVars, backupVars, workerNum, workerQuery,
                   servers, failMode, race, saved, copied, unsure, result>>

\* Bug: any query that was executed counts as successful.
CompleteAlways ==
    /\ worker = "complete"
    /\ result' = [result EXCEPT ![workerQuery.num] = "succeeded"]
    /\ worker' = "top"
    /\ workerNum' = workerNum + 1
    /\ workerQuery' = NoQuery
    /\ UNCHANGED <<shutdown, numBackup, numWorker, mainVars, backupVars,
                   servers, failMode, success, tableVars>>

Complete ==
    /\ worker = "complete"
    /\ result' = [result EXCEPT ![workerQuery.num] = IF success THEN "succeeded" ELSE "failed"]
    /\ worker' = "top"
    /\ workerNum' = workerNum + 1
    /\ workerQuery' = NoQuery
    /\ UNCHANGED <<shutdown, numBackup, numWorker, mainVars, backupVars,
                   servers, failMode, success, tableVars>>

-----------------------------------------------------------------------------
MainNext ==
    \/ Execute \/ ExecuteWrite \/ PrintServers
    \/ \E mode \in Mode : RegisterSqliteDatabase(mode)
    \/ \E argument \in {"r", "w"} : RegisterMysqlDatabase(argument)
    \/ SignalBackup \/ OnShutdown \/ SignalShutdown \/ ShutdownDone \/ Join

BackupNext == BackupWait \/ BackupEnd \/ BackupLook \/ BackupCopy \/ BackupSignal

WorkerNext ==
    \/ WorkerTop \/ WorkerWait \/ WorkerEnd \/ WorkerTake
    \/ ExecuteRead \/ ExecuteOther \/ ExecuteNormal
    \/ Settle \/ SettleDelete \/ Complete

Next == MainNext \/ BackupNext \/ WorkerNext

Spec == Init /\ [][Next]_vars

-----------------------------------------------------------------------------
(* Properties *)

\* The values the variables take; a thread has a query exactly where it uses it.
TypeOK ==
    /\ queries \in [Slot -> Query \union {NoQuery}]
    /\ insertIdx \in Slot
    /\ shutdown \in BOOLEAN
    /\ numBackup \in Nat /\ numWorker \in Nat
    /\ main \in {"ready", "inserted", "stopping", "waiting", "joining", "down"}
    /\ backup \in {"wait", "look", "copy", "signal", "ended"}
    /\ backupNum \in Nat
    /\ backupQuery \in Query \union {NoQuery}
    /\ backupQuery # NoQuery <=> backup \in {"copy", "signal"}
    /\ backupOpen \in BOOLEAN
    /\ worker \in {"top", "wait", "take", "execute", "settle", "delete", "complete", "ended"}
    /\ workerNum \in Nat
    /\ workerQuery \in Query \union {NoQuery}
    /\ workerQuery # NoQuery <=> worker \in {"execute", "settle", "delete", "complete"}
    /\ servers \subseteq Mode
    /\ failMode \in BOOLEAN /\ success \in BOOLEAN
    /\ race \subseteq Number /\ saved \subseteq Number /\ tmp \subseteq Number
    /\ result \in [Number -> {"pending", "succeeded", "failed"}]
    /\ inserted \in 0 .. MaxQueries
    /\ copied \subseteq Number /\ unsure \subseteq Number
    /\ wanted \subseteq Mode

(***************************************************************************)
(* "This is done to not loose ranks when the server shuts down before all  *)
(* queries are executed on the mysql server": once the backup thread has   *)
(* stored a write, there is a row of it in one of the tables at every      *)
(* moment, so a crash between any two statements does not lose it.         *)
(***************************************************************************)
CopiedStays == copied \subseteq race \union saved \union tmp

(***************************************************************************)
(* A write reported as successful is stored where it belongs, not only in  *)
(* the temporary table.  Excepted is a write the backup thread should have *)
(* stored and could not: NORMAL_FAILED then moves no row and succeeds.     *)
(***************************************************************************)
ReportedStored ==
    \A n \in Number :
        result[n] = "succeeded" /\ n \in copied => n \in race \union saved

\* The WRITE server and the backup database do not both keep a write, unless
\* the WRITE server executed one it never answered.
NotTwice == race \intersect saved \subseteq unsure

(***************************************************************************)
(* "work through all database jobs after OnShutdown is called before       *)
(* exiting the thread": a thread that ended leaves no query behind.        *)
(***************************************************************************)
AllJobsBeforeExit ==
    worker = "ended" => \A n \in 0 .. (inserted - 1) : result[n] # "pending"

(***************************************************************************)
(* README.md and ConAddSqlServer: "add_sqlserver r" adds a server to read  *)
(* from and "add_sqlserver w" one to write to.                             *)
(***************************************************************************)
ServersAsAsked == worker = "top" /\ workerNum = inserted => servers = wanted

-----------------------------------------------------------------------------
(* Progress: threads are scheduled and SQL statements end. *)

MainCode == SignalBackup \/ SignalShutdown \/ ShutdownDone \/ Join

Fairness == WF_vars(MainCode) /\ WF_vars(BackupNext) /\ WF_vars(WorkerNext)

FairSpec == Spec /\ Fairness

\* Each query gets its result, which a team waits for that saves or loads.
QueriesComplete == \A n \in Number : inserted > n ~> result[n] # "pending"

\* OnShutdown and the destructor return.
ShutdownReturns == main = "stopping" ~> main = "down"
=============================================================================
