----------------------- MODULE DbConnectionPool_proofs -----------------------
(***************************************************************************)
(* Proofs about DbConnectionPool for every size of the ring, as long as    *)
(* the ring is never full: DInv is inductive, and the properties follow    *)
(* from it.                                                                *)
(***************************************************************************)
EXTENDS DbConnectionPool, Modular, TLAPS

\* There is always a slot free for the next query.
NeverFull == Backlog < QueueSize

(***************************************************************************)
(* The semaphores count how far the threads are apart (InStep), a query    *)
(* stays in its slot until the worker thread takes it (InRing), so that    *)
(* the two threads never have the same query and find an empty slot only   *)
(* behind the last one (OwnQueries, Ends); Tables says how far the worker  *)
(* thread is with the rows of the write it has.                            *)
(***************************************************************************)
Count(condition) == IF condition THEN 1 ELSE 0
Holding == worker \in {"execute", "settle", "delete", "complete"}
Taken == workerNum + Count(Holding)

InStep ==
    /\ numBackup + backupNum + Count(backup # "wait") =
          inserted - Count(main = "inserted") + Count(main \in {"waiting", "joining", "down"})
    /\ numWorker + workerNum + Count(Holding \/ worker \in {"take", "ended"}) =
          backupNum + Count(backup = "ended")
    /\ backupNum + Count(backup \in {"copy", "signal"}) <= inserted
    /\ Taken <= inserted
    /\ inserted - workerNum <= Backlog

InRing ==
    /\ insertIdx = inserted % QueueSize
    /\ \A n \in Taken .. (inserted - 1) :
          queries[n % QueueSize] # NoQuery /\ queries[n % QueueSize].num = n
    /\ \A i \in Slot : queries[i] # NoQuery =>
          queries[i].num \in Taken .. (inserted - 1) /\ queries[i].num % QueueSize = i

OwnQueries ==
    /\ backup \in {"copy", "signal"} => backupQuery = queries[backupNum % QueueSize]
    /\ backup = "copy" => backupQuery.kind = "write"
    /\ Holding => workerQuery.num = workerNum

Ends ==
    /\ backup = "ended" => backupNum = inserted /\ main \in {"waiting", "joining", "down"}
    /\ worker = "ended" => backup = "ended" /\ workerNum = inserted

Copied ==
    /\ copied \subseteq 0 .. (backupNum - Count(backup # "signal"))
    /\ \A i \in Slot : queries[i] # NoQuery /\ queries[i].num \in copied =>
          queries[i].kind = "write"
    /\ Holding /\ workerNum \in copied => workerQuery.kind = "write"

Tables ==
    /\ race \subseteq 0 .. (Taken - 1) /\ saved \subseteq 0 .. (Taken - 1)
    /\ worker = "execute" => workerNum \notin race /\ workerNum \notin saved
    /\ worker = "settle" /\ success => workerNum \in race
    /\ worker = "settle" /\ ~success /\ workerNum \in race => workerNum \in unsure
    /\ worker = "delete" /\ workerNum \in race => workerNum \in unsure
    /\ worker = "delete" /\ workerNum \in tmp => workerNum \in saved
    /\ worker = "complete" /\ success /\ workerNum \in copied => workerNum \in race \union saved
    /\ \A n \in Number : result[n] = "pending" <=> n >= workerNum

Stored == CopiedStays /\ ReportedStored /\ NotTwice

DInv == TypeOK /\ InStep /\ InRing /\ OwnQueries /\ Ends /\ Copied /\ Tables /\ Stored

-----------------------------------------------------------------------------
(* Type correctness *)

LEMMA TypeInit ==
    ASSUME PoolAssumption
    PROVE  Init => TypeOK
<1> SUFFICES ASSUME Init PROVE TypeOK
  OBVIOUS
<1>1. /\ queries \in [Slot -> Query \union {NoQuery}]
      /\ result \in [Number -> {"pending", "succeeded", "failed"}]
  BY DEF Init
<1>2. insertIdx \in Slot /\ inserted \in 0 .. MaxQueries
  BY DEF Init, PoolAssumption, Slot
<1>3. /\ main = "ready" /\ backup = "wait" /\ worker = "top"
      /\ backupQuery = NoQuery /\ workerQuery = NoQuery
      /\ backupNum = 0 /\ workerNum = 0 /\ numBackup = 0 /\ numWorker = 0
  BY DEF Init
<1>4. /\ shutdown \in BOOLEAN /\ backupOpen \in BOOLEAN
      /\ failMode \in BOOLEAN /\ success \in BOOLEAN
      /\ servers = {} /\ race = {} /\ saved = {} /\ tmp = {}
      /\ copied = {} /\ unsure = {} /\ wanted = {}
  BY DEF Init
<1> QED BY <1>1, <1>2, <1>3, <1>4 DEF TypeOK

LEMMA TypeMain ==
    ASSUME PoolAssumption, TypeOK, MainNext
    PROVE  TypeOK'
<1> USE DEF TypeOK, mainVars, ringVars, backupVars, workerVars, tableVars
<1>1. ASSUME NEW kind \in Kind, Insert(kind), wanted' \subseteq Mode PROVE TypeOK'
  <2>1. inserted \in Number /\ inserted' \in 0 .. MaxQueries
    BY <1>1 DEF Insert, Number, PoolAssumption
  <2>2. insertIdx' \in Slot
    <3>1. QueueSize \in Nat /\ QueueSize > 0 /\ insertIdx + 1 \in Nat
      BY DEF PoolAssumption, Slot
    <3>2. (insertIdx + 1) % QueueSize \in 0 .. (QueueSize - 1)
      BY <3>1, DivMod
    <3> QED BY <1>1, <3>2 DEF Insert, NextSlot, Slot
  <2>3. [num |-> inserted, kind |-> kind] \in Query
    BY <1>1, <2>1 DEF Query
  <2>4. queries' \in [Slot -> Query \union {NoQuery}]
    BY <1>1, <2>3 DEF Insert
  <2> QED BY <1>1, <2>1, <2>2, <2>4 DEF Insert
<1>2. CASE Execute \/ ExecuteWrite \/ PrintServers
  BY <1>1, <1>2 DEF Execute, ExecuteWrite, PrintServers, Kind, Mode
<1>3. CASE \E mode \in Mode : RegisterSqliteDatabase(mode)
  BY <1>1, <1>3 DEF RegisterSqliteDatabase, Kind
<1>4. CASE \E argument \in {"r", "w"} : RegisterMysqlDatabase(argument)
  BY <1>1, <1>4 DEF RegisterMysqlDatabase, RegisteredMode, NamedMode, Kind, Mode
<1>5. CASE SignalBackup
  BY <1>5 DEF SignalBackup
<1>6. CASE OnShutdown
  BY <1>6 DEF OnShutdown
<1>7. CASE SignalShutdown
  BY <1>7 DEF SignalShutdown
<1>8. CASE ShutdownDone \/ Join
  BY <1>8 DEF ShutdownDone, Join
<1> QED BY <1>2, <1>3, <1>4, <1>5, <1>6, <1>7, <1>8 DEF MainNext

LEMMA TypeBackup ==
    ASSUME PoolAssumption, TypeOK, BackupNext
    PROVE  TypeOK'
<1> USE DEF TypeOK, mainVars, ringVars, workerVars, tableVars
<1>1. CASE BackupWait
  BY <1>1 DEF BackupWait
<1>2. CASE BackupEnd
  BY <1>2 DEF BackupEnd
<1>3. CASE BackupLook
  <2>1. queries[backupNum % QueueSize] \in Query
    <3>1. backupNum % QueueSize \in Slot
      BY DivMod DEF PoolAssumption, Slot
    <3> QED BY <1>3, <3>1 DEF BackupLook
  <2> QED BY <1>3, <2>1 DEF BackupLook
<1>4. CASE BackupCopy
  <2>1. backupQuery.num \in Number
    BY <1>4 DEF BackupCopy, Query
  <2> QED BY <1>4, <2>1 DEF BackupCopy
<1>5. CASE BackupSignal
  BY <1>5 DEF BackupSignal
<1> QED BY <1>1, <1>2, <1>3, <1>4, <1>5 DEF BackupNext

LEMMA TypeWorker ==
    ASSUME PoolAssumption, TypeOK, WorkerNext
    PROVE  TypeOK'
<1> USE DEF TypeOK, mainVars, ringVars, backupVars, tableVars
<1>1. CASE WorkerTop
  BY <1>1 DEF WorkerTop
<1>2. CASE WorkerWait
  BY <1>2 DEF WorkerWait
<1>3. CASE WorkerEnd
  BY <1>3 DEF WorkerEnd
<1>4. CASE WorkerTake
  <2>1. workerNum % QueueSize \in Slot
    BY DivMod DEF PoolAssumption, Slot
  <2> QED BY <1>4, <2>1 DEF WorkerTake
<1>5. CASE ExecuteRead
  BY <1>5 DEF ExecuteRead
<1>6. CASE ExecuteOther
  BY <1>6 DEF ExecuteOther, Query, Kind
<1>7. CASE ExecuteNormal
  BY <1>7 DEF ExecuteNormal, Query
<1>8. CASE Settle
  BY <1>8 DEF Settle, Query
<1>9. CASE SettleDelete
  BY <1>9 DEF SettleDelete
<1>10. CASE Complete
  <2>1. result' \in [Number -> {"pending", "succeeded", "failed"}]
    <3> DEFINE r == IF success THEN "succeeded" ELSE "failed"
    <3>1. r \in {"pending", "succeeded", "failed"}
      OBVIOUS
    <3>2. result' = [result EXCEPT ![workerQuery.num] = r]
      BY <1>10 DEF Complete
    <3> HIDE DEF r
    <3> QED BY <3>1, <3>2
  <2> QED BY <1>10, <2>1 DEF Complete
<1> QED BY <1>1, <1>2, <1>3, <1>4, <1>5, <1>6, <1>7, <1>8, <1>9, <1>10 DEF WorkerNext

LEMMA TypeStep ==
    ASSUME PoolAssumption, TypeOK, [Next]_vars
    PROVE  TypeOK'
<1>1. CASE UNCHANGED vars
  BY <1>1 DEF TypeOK, vars, mainVars, ringVars, backupVars, workerVars, tableVars
<1> QED BY <1>1, TypeMain, TypeBackup, TypeWorker DEF Next

\* Every value is well formed, whatever the size of the ring and its use.
THEOREM TypeCorrect == Spec => []TypeOK
<1>1. Init => TypeOK
  BY PoolAssumption, TypeInit
<1>2. TypeOK /\ [Next]_vars => TypeOK'
  BY PoolAssumption, TypeStep
<1> QED BY <1>1, <1>2, PTL DEF Spec

-----------------------------------------------------------------------------
(* The invariant *)

LEMMA InvInit ==
    ASSUME PoolAssumption
    PROVE  Init => DInv
<1> SUFFICES ASSUME Init PROVE DInv
  OBVIOUS
<1>1. TypeOK
  BY TypeInit
<1>2. InStep /\ Taken = 0
  BY DEF Init, InStep, Count, Holding, Taken, PoolAssumption
<1>3. InRing
  <2>1. 0 % QueueSize = 0
    <3>1. QueueSize \in Nat /\ QueueSize > 0
      BY DEF PoolAssumption
    <3> QED BY <3>1, DivMod
  <2> QED BY <1>2, <2>1 DEF Init, InRing
<1>4. OwnQueries /\ Ends /\ Copied
  BY DEF Init, OwnQueries, Ends, Copied, Holding
<1>5. Tables /\ Stored
  BY DEF Init, Tables, Stored, CopiedStays, ReportedStored, NotTwice, Number
<1> QED BY <1>1, <1>2, <1>3, <1>4, <1>5 DEF DInv

\* Two queries between the worker thread's and the last one have different slots.
LEMMA SlotUnique ==
    ASSUME PoolAssumption, NeverFull, TypeOK, InStep,
           NEW a \in workerNum .. inserted, NEW b \in workerNum .. inserted,
           a % QueueSize = b % QueueSize
    PROVE  a = b
<1>1. /\ QueueSize \in Nat /\ QueueSize > 0 /\ a \in Nat /\ b \in Nat
      /\ a - b < QueueSize /\ b - a < QueueSize
  BY DEF PoolAssumption, NeverFull, TypeOK, InStep
<1> QED BY <1>1, ModUnique

LEMMA InSlot ==
    ASSUME PoolAssumption, NEW n \in Nat
    PROVE  n % QueueSize \in Slot
BY DivMod DEF PoolAssumption, Slot

\* The query in the slot a thread looks at is the one it is looking for.
LEMMA Found ==
    ASSUME PoolAssumption, NeverFull, TypeOK, InStep, InRing,
           NEW n \in workerNum .. inserted, queries[n % QueueSize] # NoQuery
    PROVE  /\ queries[n % QueueSize] \in Query
           /\ queries[n % QueueSize].num = n
           /\ n \in Taken .. (inserted - 1)
<1> DEFINE i == n % QueueSize
           q == queries[i]
<1>1. n \in Nat /\ workerNum \in Nat /\ inserted \in Nat /\ Taken \in Nat /\ workerNum <= Taken
  BY DEF TypeOK, Taken, Count
<1>2. i \in Slot
  BY <1>1, InSlot
<1>3. q \in Query /\ q.num \in Taken .. (inserted - 1) /\ q.num % QueueSize = i
  BY <1>2 DEF InRing, TypeOK
<1>4. q.num = n
  BY <1>1, <1>3, SlotUnique
<1> QED BY <1>3, <1>4

\* An empty slot is behind the last query, or the worker thread has taken it.
LEMMA Missing ==
    ASSUME InRing, NEW n \in Taken .. inserted, inserted \in Nat, Taken \in Nat,
           queries[n % QueueSize] = NoQuery
    PROVE  n = inserted
BY DEF InRing

\* Where the threads are.
LEMMA Positions ==
    ASSUME TypeOK, InStep
    PROVE  /\ workerNum \in Nat /\ backupNum \in Nat /\ inserted \in Nat /\ Taken \in Nat
           /\ workerNum <= Taken /\ Taken <= inserted /\ backupNum <= inserted
           /\ Holding => Taken = workerNum + 1
           /\ ~Holding => Taken = workerNum
           /\ backup # "ended" => Taken <= backupNum
           /\ backup # "ended" /\ worker = "take" => workerNum < backupNum
           /\ backup \in {"copy", "signal"} => backupNum < inserted
BY DEF TypeOK, InStep, Taken, Count

\* The actions that change where queries are.
LEMMA Effects ==
    ASSUME [Next]_vars
    PROVE  \/ \E kind \in Kind : Insert(kind)
           \/ WorkerTake
           \/ Complete
           \/ /\ UNCHANGED <<queries, insertIdx, inserted, workerNum, workerQuery, result>>
              /\ Holding' = Holding
<1> USE DEF mainVars, ringVars, backupVars, workerVars
<1>1. CASE MainNext
  <2>1. \/ \E kind \in Kind : Insert(kind)
        \/ SignalBackup \/ OnShutdown \/ SignalShutdown \/ ShutdownDone \/ Join
    BY <1>1 DEF MainNext, Execute, ExecuteWrite, PrintServers, RegisterSqliteDatabase,
                RegisterMysqlDatabase, RegisteredMode, Kind, Mode
  <2> QED BY <2>1 DEF SignalBackup, OnShutdown, SignalShutdown, ShutdownDone, Join, Holding
<1>2. CASE BackupNext
  BY <1>2 DEF BackupNext, BackupWait, BackupEnd, BackupLook, BackupCopy, BackupSignal, Holding
<1>3. CASE WorkerNext
  <2>1. CASE WorkerTop \/ WorkerWait \/ WorkerEnd
    BY <2>1 DEF WorkerTop, WorkerWait, WorkerEnd, Holding
  <2>2. CASE ExecuteRead \/ ExecuteOther
    <3>1. /\ worker = "execute" /\ worker' = "complete"
          /\ UNCHANGED <<queries, insertIdx, inserted, workerNum, workerQuery, result>>
      BY <2>2 DEF ExecuteRead, ExecuteOther
    <3> QED BY <3>1 DEF Holding
  <2>3. CASE ExecuteNormal
    BY <2>3 DEF ExecuteNormal, Holding
  <2>4. CASE Settle \/ SettleDelete
    BY <2>4 DEF Settle, SettleDelete, Holding
  <2> QED BY <1>3, <2>1, <2>2, <2>3, <2>4 DEF WorkerNext
<1>4. CASE UNCHANGED vars
  BY <1>4 DEF vars, Holding
<1> QED BY <1>1, <1>2, <1>3, <1>4 DEF Next

LEMMA InRingStep ==
    ASSUME PoolAssumption, NeverFull, TypeOK, InStep, InRing, OwnQueries, [Next]_vars
    PROVE  InRing'
<1> DEFINE N == QueueSize
<1>1. N \in Nat /\ N > 0
  BY DEF PoolAssumption
<1>2. CASE /\ UNCHANGED <<queries, insertIdx, inserted, workerNum, workerQuery>>
           /\ Holding' = Holding
  BY <1>2 DEF InRing, Taken, Count
<1>3. ASSUME NEW kind \in Kind, Insert(kind) PROVE InRing'
  <2>1. /\ inserted' = inserted + 1
        /\ workerNum' = workerNum /\ Taken' = Taken
        /\ insertIdx' = (insertIdx + 1) % N
        /\ queries' = [queries EXCEPT ![inserted % N] = [num |-> inserted, kind |-> kind]]
    BY <1>3 DEF Insert, workerVars, Holding, Taken, Count, NextSlot, InRing
  <2>2. inserted % N \in Slot /\ Taken \in workerNum .. inserted
    BY InSlot, Positions
  <2>3. insertIdx' = inserted' % N
    <3>1. insertIdx = inserted % N /\ inserted \in Nat
      BY Positions DEF InRing
    <3> QED BY <1>1, <2>1, <3>1, NextMod
  <2> DEFINE new == [num |-> inserted, kind |-> kind]
  <2>5. new \in Query /\ new # NoQuery /\ new.num = inserted
    BY <1>3 DEF Insert, PoolAssumption, TypeOK, Query, Number
  <2>6. \A i \in Slot : queries'[i] = IF i = inserted % N THEN new ELSE queries[i]
    BY <2>1, <2>2 DEF TypeOK
  <2> HIDE DEF new
  <2>4. ASSUME NEW n \in Taken' .. (inserted' - 1)
        PROVE  queries'[n % N] # NoQuery /\ queries'[n % N].num = n
    <3>1. CASE n = inserted
      BY <2>2, <2>5, <2>6, <3>1
    <3>2. CASE n # inserted
      <4>1. n \in Taken .. (inserted - 1) /\ n \in workerNum .. inserted
        BY <2>1, <3>2, Positions
      <4>2. n % N # inserted % N
        BY <3>2, <4>1, SlotUnique, Positions
      <4>3. n % N \in Slot
        BY <4>1, InSlot, Positions
      <4> QED BY <2>6, <4>1, <4>2, <4>3 DEF InRing
    <3> QED BY <3>1, <3>2
  <2>7. ASSUME NEW i \in Slot, queries'[i] # NoQuery
        PROVE  queries'[i].num \in Taken' .. (inserted' - 1) /\ queries'[i].num % N = i
    <3>1. CASE i = inserted % N
      BY <2>1, <2>5, <2>6, <3>1, Positions
    <3>2. CASE i # inserted % N
      <4>1. queries[i].num \in Taken .. (inserted - 1) /\ queries[i].num % N = i
        BY <2>6, <2>7, <3>2 DEF InRing
      <4> QED BY <2>1, <2>6, <3>2, <4>1, Positions
    <3> QED BY <3>1, <3>2
  <2> QED BY <2>3, <2>4, <2>7 DEF InRing
<1>4. CASE WorkerTake
  <2> DEFINE w == workerNum % N
  <2>1. /\ inserted' = inserted /\ insertIdx' = insertIdx
        /\ Taken = workerNum /\ Taken' = workerNum + 1
        /\ queries' = [queries EXCEPT ![w] = NoQuery]
    BY <1>4, Positions DEF WorkerTake, Holding, Taken, Count
  <2>2. workerNum \in workerNum .. inserted /\ w \in Slot
    BY Positions, InSlot
  <2>3. \A i \in Slot : queries'[i] = IF i = w THEN NoQuery ELSE queries[i]
    BY <2>1, <2>2 DEF TypeOK
  <2> HIDE DEF w
  <2>4. ASSUME NEW n \in Taken' .. (inserted' - 1)
        PROVE  queries'[n % N] # NoQuery /\ queries'[n % N].num = n
    <3>1. n \in Taken .. (inserted - 1) /\ n \in workerNum .. inserted /\ n # workerNum /\ n \in Nat
      BY <2>1, Positions
    <3>2. n % N # w
      BY <2>2, <3>1, SlotUnique DEF w
    <3>3. n % N \in Slot
      BY <3>1, InSlot
    <3> QED BY <2>3, <3>1, <3>2, <3>3 DEF InRing
  <2>5. ASSUME NEW i \in Slot, queries'[i] # NoQuery
        PROVE  queries'[i].num \in Taken' .. (inserted' - 1) /\ queries'[i].num % N = i
    <3>1. i # w /\ queries'[i] = queries[i]
      BY <2>3, <2>5
    <3>2. queries[i].num \in Taken .. (inserted - 1) /\ queries[i].num % N = i
      BY <2>5, <3>1 DEF InRing
    <3>3. queries[i].num # workerNum
      BY <3>1, <3>2 DEF w
    <3> QED BY <2>1, <3>1, <3>2, <3>3, Positions
  <2> QED BY <2>1, <2>4, <2>5 DEF InRing
<1>5. CASE Complete
  <2>1. UNCHANGED <<queries, insertIdx, inserted>> /\ Taken' = Taken
    BY <1>5, Positions DEF Complete, mainVars, ringVars, Holding, Taken, Count
  <2> QED BY <2>1 DEF InRing
<1> QED BY <1>2, <1>3, <1>4, <1>5, Effects

LEMMA InStepMain ==
    ASSUME PoolAssumption, TypeOK, InStep, Ends, MainNext
    PROVE  InStep'
<1> USE DEF TypeOK, InStep, Taken, Holding, Count, mainVars, ringVars, backupVars, workerVars
<1>1. ASSUME NEW kind \in Kind, Insert(kind) PROVE InStep'
  BY <1>1 DEF Insert, PoolAssumption, Ends
<1>2. CASE \E kind \in Kind : Insert(kind)
  BY <1>1, <1>2
<1>3. CASE SignalBackup
  BY <1>3 DEF SignalBackup
<1>4. CASE OnShutdown
  BY <1>4 DEF OnShutdown
<1>5. CASE SignalShutdown
  BY <1>5 DEF SignalShutdown
<1>6. CASE ShutdownDone
  BY <1>6 DEF ShutdownDone
<1>7. CASE Join
  BY <1>7 DEF Join
<1> HIDE DEF TypeOK, InStep
<1>8. \/ \E kind \in Kind : Insert(kind)
      \/ SignalBackup \/ OnShutdown \/ SignalShutdown \/ ShutdownDone \/ Join
  BY DEF MainNext, Execute, ExecuteWrite, PrintServers, RegisterSqliteDatabase,
         RegisterMysqlDatabase, RegisteredMode, Kind, Mode
<1> QED BY <1>2, <1>3, <1>4, <1>5, <1>6, <1>7, <1>8

LEMMA InStepBackup ==
    ASSUME PoolAssumption, NeverFull, TypeOK, InStep, InRing, BackupNext
    PROVE  InStep'
<1> USE DEF TypeOK, InStep, Taken, Holding, Count, mainVars, ringVars, workerVars
<1>1. CASE BackupWait
  BY <1>1 DEF BackupWait
<1>2. CASE BackupEnd
  BY <1>2 DEF BackupEnd
<1>3. CASE BackupLook
  <2>1. backupNum \in workerNum .. inserted
    BY <1>3, Positions DEF BackupLook
  <2>2. backupNum < inserted
    BY <1>3, <2>1, Found DEF BackupLook
  <2> QED BY <1>3, <2>2 DEF BackupLook
<1>4. CASE BackupCopy
  BY <1>4 DEF BackupCopy
<1>5. CASE BackupSignal
  BY <1>5 DEF BackupSignal
<1> QED BY <1>1, <1>2, <1>3, <1>4, <1>5 DEF BackupNext

LEMMA InStepWorker ==
    ASSUME PoolAssumption, NeverFull, TypeOK, InStep, InRing, WorkerNext
    PROVE  InStep'
<1> USE DEF TypeOK, InStep, Taken, Holding, Count, mainVars, ringVars, backupVars
<1>1. CASE WorkerTop
  BY <1>1 DEF WorkerTop
<1>2. CASE WorkerWait
  BY <1>2 DEF WorkerWait
<1>3. CASE WorkerEnd
  BY <1>3 DEF WorkerEnd
<1>4. CASE WorkerTake
  <2>1. workerNum \in workerNum .. inserted
    BY Positions
  <2>2. workerNum < inserted
    BY <1>4, <2>1, Found DEF WorkerTake
  <2> QED BY <1>4, <2>2 DEF WorkerTake
<1>5. CASE ExecuteRead
  BY <1>5 DEF ExecuteRead
<1>6. CASE ExecuteOther
  BY <1>6 DEF ExecuteOther
<1>7. CASE ExecuteNormal
  BY <1>7 DEF ExecuteNormal
<1>8. CASE Settle
  BY <1>8 DEF Settle
<1>9. CASE SettleDelete
  BY <1>9 DEF SettleDelete
<1>10. CASE Complete
  BY <1>10 DEF Complete
<1> QED BY <1>1, <1>2, <1>3, <1>4, <1>5, <1>6, <1>7, <1>8, <1>9, <1>10 DEF WorkerNext

LEMMA BackupUnchanged ==
    ASSUME [Next]_vars
    PROVE  BackupNext \/ UNCHANGED backupVars
<1>1. CASE MainNext
  <2>1. \/ \E kind \in Kind : Insert(kind)
        \/ SignalBackup \/ OnShutdown \/ SignalShutdown \/ ShutdownDone \/ Join
    BY <1>1 DEF MainNext, Execute, ExecuteWrite, PrintServers, RegisterSqliteDatabase,
                RegisterMysqlDatabase, RegisteredMode, Kind, Mode
  <2> QED BY <2>1 DEF Insert, SignalBackup, OnShutdown, SignalShutdown, ShutdownDone, Join
<1>2. CASE WorkerNext
  BY <1>2 DEF WorkerNext, WorkerTop, WorkerWait, WorkerEnd, WorkerTake, ExecuteRead,
              ExecuteOther, ExecuteNormal, Settle, SettleDelete, Complete
<1>3. CASE UNCHANGED vars
  BY <1>3 DEF vars
<1> QED BY <1>1, <1>2, <1>3 DEF Next

\* The backup thread keeps its query, the worker thread its own.
LEMMA OwnQueriesStep ==
    ASSUME PoolAssumption, NeverFull, TypeOK, InStep, InRing, OwnQueries, [Next]_vars
    PROVE  OwnQueries'
<1> USE DEF OwnQueries
<1> DEFINE Mine == backup \in {"copy", "signal"} =>
                      /\ backupNum \in workerNum .. inserted
                      /\ backupNum # inserted
                      /\ backupNum % QueueSize \in Slot
<1>1. Mine
  BY Positions, InSlot
<1>2. ASSUME NEW kind \in Kind, Insert(kind) PROVE OwnQueries'
  <2>1. backup \in {"copy", "signal"} =>
          queries'[backupNum % QueueSize] = queries[backupNum % QueueSize]
    <3> SUFFICES ASSUME backup \in {"copy", "signal"}
                 PROVE  queries'[backupNum % QueueSize] = queries[backupNum % QueueSize]
      OBVIOUS
    <3>1. inserted \in workerNum .. inserted
      BY Positions
    <3>2. backupNum % QueueSize # inserted % QueueSize
      BY <1>1, <3>1, SlotUnique
    <3> QED BY <1>1, <1>2, <3>2 DEF Insert, InRing, TypeOK
  <2> QED BY <1>2, <2>1 DEF Insert, backupVars, workerVars, Holding
<1>3. CASE WorkerTake
  <2>1. backup \in {"copy", "signal"} =>
          queries'[backupNum % QueueSize] = queries[backupNum % QueueSize]
    <3> SUFFICES ASSUME backup \in {"copy", "signal"}
                 PROVE  queries'[backupNum % QueueSize] = queries[backupNum % QueueSize]
      OBVIOUS
    <3>1. workerNum \in workerNum .. inserted /\ workerNum # backupNum
      BY <1>3, Positions DEF WorkerTake
    <3>2. backupNum % QueueSize # workerNum % QueueSize
      BY <1>1, <3>1, SlotUnique
    <3> QED BY <1>1, <1>3, <3>2 DEF WorkerTake, TypeOK
  <2>2. workerQuery'.num = workerNum
    <3>1. workerNum \in workerNum .. inserted
      BY Positions
    <3> QED BY <1>3, <3>1, Found DEF WorkerTake
  <2> QED BY <1>3, <2>1, <2>2 DEF WorkerTake, backupVars, Holding
<1>4. CASE BackupLook
  BY <1>4 DEF BackupLook, mainVars, ringVars, workerVars, Holding
<1>5. CASE BackupWait \/ BackupEnd \/ BackupCopy \/ BackupSignal
  BY <1>5 DEF BackupWait, BackupEnd, BackupCopy, BackupSignal, mainVars, ringVars, workerVars, Holding
<1>6. CASE Complete
  BY <1>6 DEF Complete, mainVars, ringVars, backupVars, Holding
<1>7. CASE /\ UNCHANGED <<queries, inserted, workerNum, workerQuery, backupVars>>
           /\ Holding' = Holding
  BY <1>7 DEF backupVars
<1>8. \/ \E kind \in Kind : Insert(kind)
      \/ WorkerTake \/ Complete \/ BackupNext
      \/ /\ UNCHANGED <<queries, inserted, workerNum, workerQuery, backupVars>>
         /\ Holding' = Holding
  BY Effects, BackupUnchanged
<1> QED BY <1>2, <1>3, <1>4, <1>5, <1>6, <1>7, <1>8 DEF BackupNext

\* A thread ends only behind the last query, after OnShutdown.
LEMMA EndsStep ==
    ASSUME PoolAssumption, NeverFull, TypeOK, InStep, InRing, Ends, [Next]_vars
    PROVE  Ends'
<1> USE DEF Ends
<1>1. CASE BackupEnd
  <2>1. backupNum \in Taken .. inserted
    BY <1>1, Positions DEF BackupEnd
  <2>2. backupNum = inserted
    BY <1>1, <2>1, Missing, Positions DEF BackupEnd
  <2>3. main \in {"waiting", "joining", "down"}
    BY <1>1, <2>2 DEF BackupEnd, InStep, TypeOK, Count
  <2> QED BY <1>1, <2>2, <2>3 DEF BackupEnd, mainVars, ringVars, workerVars
<1>2. CASE WorkerEnd
  <2>1. Taken = workerNum /\ workerNum \in Taken .. inserted
    BY <1>2, Positions DEF WorkerEnd, Holding
  <2>2. workerNum = inserted
    BY <1>2, <2>1, Missing, Positions DEF WorkerEnd
  <2>3. backup = "ended"
    BY <1>2, <2>2 DEF WorkerEnd, InStep, TypeOK, Count, Holding
  <2> QED BY <1>2, <2>2, <2>3 DEF WorkerEnd, mainVars, ringVars, backupVars
<1>3. CASE MainNext
  <2>1. \/ \E kind \in Kind : Insert(kind)
        \/ SignalBackup \/ OnShutdown \/ SignalShutdown \/ ShutdownDone \/ Join
    BY <1>3 DEF MainNext, Execute, ExecuteWrite, PrintServers, RegisterSqliteDatabase,
                RegisterMysqlDatabase, RegisteredMode, Kind, Mode
  <2> QED BY <2>1 DEF Insert, SignalBackup, OnShutdown, SignalShutdown, ShutdownDone, Join,
                      ringVars, backupVars, workerVars
<1>4. CASE BackupWait \/ BackupLook \/ BackupCopy \/ BackupSignal
  BY <1>4 DEF BackupWait, BackupLook, BackupCopy, BackupSignal, mainVars, ringVars, workerVars
<1>5. CASE WorkerTop \/ WorkerWait \/ WorkerTake
  BY <1>5 DEF WorkerTop, WorkerWait, WorkerTake, mainVars, ringVars, backupVars
<1>6. CASE ExecuteRead \/ ExecuteOther \/ ExecuteNormal \/ Settle \/ SettleDelete \/ Complete
  <2>1. worker' # "ended" /\ UNCHANGED <<backup, backupNum, inserted, main>>
    BY <1>6 DEF ExecuteRead, ExecuteOther, ExecuteNormal, Settle, SettleDelete, Complete,
                mainVars, ringVars, backupVars
  <2> QED BY <2>1
<1>7. CASE UNCHANGED vars
  BY <1>7 DEF vars, mainVars, ringVars, backupVars, workerVars
<1> QED BY <1>1, <1>2, <1>3, <1>4, <1>5, <1>6, <1>7 DEF Next, BackupNext, WorkerNext

\* Which step changes which of the variables Copied and Tables are about.
LEMMA CopiedUnchanged ==
    ASSUME [Next]_vars
    PROVE  BackupNext \/ UNCHANGED <<copied, backup, backupNum>>
<1>1. BackupNext \/ UNCHANGED backupVars
  BY BackupUnchanged
<1>2. CASE MainNext
  <2>1. \/ \E kind \in Kind : Insert(kind)
        \/ SignalBackup \/ OnShutdown \/ SignalShutdown \/ ShutdownDone \/ Join
    BY <1>2 DEF MainNext, Execute, ExecuteWrite, PrintServers, RegisterSqliteDatabase,
                RegisterMysqlDatabase, RegisteredMode, Kind, Mode
  <2> QED BY <1>1, <2>1 DEF Insert, SignalBackup, OnShutdown, SignalShutdown, ShutdownDone,
                            Join, tableVars, backupVars
<1>3. CASE WorkerNext
  BY <1>1, <1>3 DEF WorkerNext, WorkerTop, WorkerWait, WorkerEnd, WorkerTake, ExecuteRead,
                    ExecuteOther, ExecuteNormal, Settle, SettleDelete, Complete,
                    tableVars, backupVars
<1>4. CASE UNCHANGED vars
  BY <1>4 DEF vars, tableVars, backupVars
<1> QED BY <1>2, <1>3, <1>4 DEF Next

\* Only writes are copied.
LEMMA CopiedStep ==
    ASSUME PoolAssumption, NeverFull, TypeOK, InStep, InRing, OwnQueries, Copied, [Next]_vars
    PROVE  Copied'
<1>1. CASE BackupWait
  BY <1>1 DEF BackupWait, Copied, Count, Holding, mainVars, ringVars, workerVars, tableVars
<1>2. CASE BackupEnd
  BY <1>2 DEF BackupEnd, Copied, Count, Holding, mainVars, ringVars, workerVars, tableVars
<1>3. CASE BackupLook
  BY <1>3 DEF BackupLook, Copied, Count, Holding, mainVars, ringVars, workerVars, tableVars,
              TypeOK
<1>4. CASE BackupSignal
  BY <1>4 DEF BackupSignal, Copied, Count, Holding, mainVars, ringVars, workerVars, tableVars,
              TypeOK
<1>5. CASE BackupCopy
  <2>1. /\ backupNum \in workerNum .. inserted /\ backupNum \in Nat
        /\ Taken <= backupNum
    BY <1>5, Positions DEF BackupCopy
  <2>2. /\ backupQuery = queries[backupNum % QueueSize]
        /\ backupQuery # NoQuery /\ backupQuery.kind = "write"
    BY <1>5 DEF BackupCopy, OwnQueries, TypeOK
  <2>3. backupQuery.num = backupNum
    BY <2>1, <2>2, Found
  <2>4. copied' \subseteq copied \union {backupNum}
    BY <1>5, <2>3 DEF BackupCopy
  <2>5. UNCHANGED <<queries, workerNum, workerQuery, worker, backupNum>>
    BY <1>5 DEF BackupCopy, mainVars, ringVars, workerVars
  <2>6. copied' \subseteq 0 .. (backupNum' - Count(backup # "signal")')
    BY <1>5, <2>1, <2>4, <2>5 DEF BackupCopy, Copied, Count
  <2>7. ASSUME NEW i \in Slot, queries[i] # NoQuery, queries[i].num \in copied'
        PROVE  queries[i].kind = "write"
    <3>1. CASE queries[i].num \in copied
      BY <2>7, <3>1 DEF Copied
    <3>2. CASE queries[i].num = backupNum
      BY <2>2, <2>7, <3>2 DEF InRing
    <3> QED BY <2>4, <2>7, <3>1, <3>2
  <2>8. Holding /\ workerNum \in copied' => workerQuery.kind = "write"
    <3>1. Holding => workerNum # backupNum
      BY <2>1, Positions
    <3> QED BY <2>4, <3>1 DEF Copied
  <2> QED BY <2>5, <2>6, <2>7, <2>8 DEF Copied, Holding
<1>6. CASE UNCHANGED <<copied, backup, backupNum>>
  <2>1. ASSUME NEW kind \in Kind, Insert(kind) PROVE Copied'
    <3>1. inserted \notin copied
      BY Positions DEF Copied, Count
    <3>2. [num |-> inserted, kind |-> kind].num = inserted
      OBVIOUS
    <3>3. \A i \in Slot : queries'[i] = queries[i] \/ queries'[i].num = inserted
      BY <2>1, <3>2 DEF Insert, TypeOK
    <3>4. UNCHANGED <<workerNum, workerQuery, worker>>
      BY <2>1 DEF Insert, workerVars
    <3> QED BY <1>6, <3>1, <3>3, <3>4 DEF Copied, Holding, Count
  <2>2. CASE WorkerTake
    <3>1. \A i \in Slot : queries'[i] = queries[i] \/ queries'[i] = NoQuery
      BY <2>2 DEF WorkerTake, TypeOK
    <3>2. workerNum \in workerNum .. inserted
      BY Positions
    <3>3. /\ workerNum % QueueSize \in Slot
          /\ workerQuery' = queries[workerNum % QueueSize] /\ workerQuery' # NoQuery
          /\ workerQuery'.num = workerNum /\ workerNum' = workerNum
      BY <2>2, <3>2, Found, InSlot, Positions DEF WorkerTake
    <3> QED BY <1>6, <3>1, <3>3 DEF Copied, Count
  <2>3. CASE Complete
    BY <1>6, <2>3 DEF Complete, Copied, Holding, Count, mainVars, ringVars
  <2>4. CASE /\ UNCHANGED <<queries, insertIdx, inserted, workerNum, workerQuery>>
             /\ Holding' = Holding
    BY <1>6, <2>4 DEF Copied, Count
  <2> QED BY <2>1, <2>2, <2>3, <2>4, Effects
<1> QED BY <1>1, <1>2, <1>3, <1>4, <1>5, <1>6, CopiedUnchanged DEF BackupNext

LEMMA WorkerUnchanged ==
    ASSUME MainNext \/ BackupNext \/ UNCHANGED vars
    PROVE  /\ UNCHANGED <<worker, workerNum, workerQuery, success, race, saved, unsure, result>>
           /\ BackupCopy \/ UNCHANGED <<tmp, copied>>
<1>1. CASE MainNext
  <2>1. \/ \E kind \in Kind : Insert(kind)
        \/ SignalBackup \/ OnShutdown \/ SignalShutdown \/ ShutdownDone \/ Join
    BY <1>1 DEF MainNext, Execute, ExecuteWrite, PrintServers, RegisterSqliteDatabase,
                RegisterMysqlDatabase, RegisteredMode, Kind, Mode
  <2> QED BY <2>1 DEF Insert, SignalBackup, OnShutdown, SignalShutdown, ShutdownDone, Join,
                      workerVars, tableVars
<1>2. CASE BackupNext
  BY <1>2 DEF BackupNext, BackupWait, BackupEnd, BackupLook, BackupCopy, BackupSignal,
              workerVars, tableVars
<1>3. CASE UNCHANGED vars
  BY <1>3 DEF vars, workerVars, tableVars
<1> QED BY <1>1, <1>2, <1>3

\* The backup thread stores one row, of a query the worker thread does not have.
LEMMA CopyOne ==
    ASSUME PoolAssumption, NeverFull, TypeOK, InStep, InRing, OwnQueries, BackupCopy
    PROVE  /\ Taken <= backupNum
           /\ \/ tmp' = tmp \union {backupNum} /\ copied' = copied \union {backupNum}
              \/ UNCHANGED <<tmp, copied>>
<1>1. backupNum \in workerNum .. inserted /\ Taken <= backupNum
  BY Positions DEF BackupCopy
<1>2. backupQuery = queries[backupNum % QueueSize] /\ backupQuery # NoQuery
  BY DEF BackupCopy, OwnQueries, TypeOK
<1>3. backupQuery.num = backupNum
  BY <1>1, <1>2, Found
<1> QED BY <1>1, <1>3 DEF BackupCopy

\* The rows of the write in hand follow the statements of SaveScore.
LEMMA TablesStep ==
    ASSUME PoolAssumption, NeverFull, TypeOK, InStep, InRing, OwnQueries, Copied,
           Tables, CopiedStays, [Next]_vars
    PROVE  Tables'
<1> DEFINE w == workerNum
<1>1. /\ w \in Nat /\ Taken \in Nat
      /\ Holding => Taken = w + 1 /\ workerQuery.num = w
      /\ ~Holding => Taken = w
  BY Positions DEF OwnQueries
<1>2. CASE MainNext \/ BackupNext \/ UNCHANGED vars
  <2>3. UNCHANGED <<worker, workerNum, workerQuery, success, race, saved, unsure, result>>
    BY <1>2, WorkerUnchanged
  <2>1. CASE BackupCopy
    <3>1. worker \in {"delete", "complete"} => w # backupNum
      BY <1>1, <2>1, CopyOne, Positions DEF Holding
    <3>2. worker \in {"delete", "complete"} =>
            (w \in tmp' <=> w \in tmp) /\ (w \in copied' <=> w \in copied)
      BY <2>1, <3>1, CopyOne
    <3>3. Taken' = Taken
      BY <2>3 DEF Taken, Holding
    <3> QED BY <2>3, <3>2, <3>3 DEF Tables
  <2>2. CASE UNCHANGED <<tmp, copied>>
    BY <2>2, <2>3 DEF Tables, Taken, Holding
  <2> QED BY <1>2, <2>1, <2>2, WorkerUnchanged
<1>3. CASE WorkerTop \/ WorkerWait \/ WorkerEnd
  BY <1>3 DEF WorkerTop, WorkerWait, WorkerEnd, Tables, Taken, Holding, Count, tableVars
<1>4. CASE WorkerTake
  <2>1. /\ worker' = "execute" /\ Taken = w /\ Taken' = w + 1
        /\ UNCHANGED <<workerNum, race, saved, result>>
    BY <1>1, <1>4 DEF WorkerTake, Holding, Taken, Count, tableVars
  <2>2. w \notin race /\ w \notin saved
    BY <1>1, <2>1 DEF Tables
  <2> QED BY <1>1, <2>1, <2>2 DEF Tables
<1>5. CASE ExecuteRead \/ ExecuteOther
  <2>1. /\ worker = "execute" /\ worker' = "complete" /\ workerQuery.kind # "write"
        /\ UNCHANGED <<workerNum, race, saved, copied, result>>
    BY <1>5 DEF ExecuteRead, ExecuteOther, tableVars
  <2>2. w \notin copied /\ Taken' = Taken
    BY <2>1 DEF Copied, Holding, Taken
  <2> QED BY <2>1, <2>2 DEF Tables
<1>6. CASE ExecuteNormal
  <2>1. /\ worker = "execute" /\ worker' \in {"settle", "complete"} /\ Taken' = Taken
        /\ workerQuery.num = w /\ w \in 0 .. (Taken - 1)
        /\ UNCHANGED <<workerNum, saved, copied, result>>
    BY <1>1, <1>6 DEF ExecuteNormal, Holding, Taken, Count
  <2>2. \/ success' = FALSE /\ UNCHANGED race
        \/ success' = TRUE /\ race' = race \union {w}
        \/ success' = FALSE /\ race' = race \union {w} /\ unsure' = unsure \union {w}
    BY <1>6, <2>1 DEF ExecuteNormal
  <2>3. w \notin race
    BY <2>1 DEF Tables
  <2> QED BY <2>1, <2>2, <2>3 DEF Tables
<1>7. CASE Settle
  <2>1. /\ worker = "settle" /\ Taken' = Taken /\ workerQuery.num = w /\ w \in 0 .. (Taken - 1)
        /\ UNCHANGED <<workerNum, race, copied, success, unsure, result>>
    BY <1>1, <1>7 DEF Settle, Holding, Taken, Count
  <2>2. CASE success /\ worker' = "complete" /\ UNCHANGED saved
    BY <2>1, <2>2 DEF Tables
  <2>3. CASE ~success /\ worker' = "delete" /\ saved' = saved \union (tmp \intersect {w}) /\ UNCHANGED tmp
    BY <2>1, <2>3 DEF Tables
  <2>4. CASE ~success /\ worker' = "complete" /\ UNCHANGED <<saved, tmp>>
    BY <2>1, <2>4 DEF Tables
  <2> QED BY <1>7, <2>1, <2>2, <2>3, <2>4 DEF Settle
<1>8. CASE SettleDelete
  <2>1. /\ worker = "delete" /\ worker' = "complete" /\ Taken' = Taken
        /\ UNCHANGED <<workerNum, race, saved, copied, result>>
    BY <1>8 DEF SettleDelete, Holding, Taken, Count
  <2>2. w \in copied => w \in race \union saved
    BY <2>1 DEF Tables, CopiedStays
  <2> QED BY <2>1, <2>2 DEF Tables
<1>9. CASE Complete
  <2> DEFINE r == IF success THEN "succeeded" ELSE "failed"
  <2>0. result' = [result EXCEPT ![workerQuery.num] = r]
    BY <1>9 DEF Complete
  <2>1. /\ worker' = "top" /\ workerNum' = w + 1 /\ Taken' = Taken /\ Taken = w + 1
        /\ workerQuery.num = w
        /\ UNCHANGED <<race, saved>>
    BY <1>1, <1>9 DEF Complete, Holding, Taken, Count, tableVars
  <2>2. r # "pending"
    OBVIOUS
  <2> HIDE DEF r
  <2>3. \A n \in Number : result'[n] = IF n = w THEN r ELSE result[n]
    BY <2>0, <2>1 DEF TypeOK
  <2>4. \A n \in Number : result'[n] = "pending" <=> n >= workerNum'
    BY <1>1, <2>1, <2>2, <2>3 DEF Tables, Number
  <2> QED BY <2>1, <2>4 DEF Tables
<1> QED BY <1>2, <1>3, <1>4, <1>5, <1>6, <1>7, <1>8, <1>9 DEF Next, WorkerNext

\* Settling a write never leaves it without a row, nor with two.
LEMMA StoredStep ==
    ASSUME PoolAssumption, NeverFull, TypeOK, InStep, InRing, OwnQueries, Copied,
           Tables, Stored, [Next]_vars
    PROVE  Stored'
<1> USE DEF Stored, CopiedStays, ReportedStored, NotTwice
<1> DEFINE w == workerNum
<1>1. Holding => workerQuery.num = w
  BY DEF OwnQueries
<1>2. CASE MainNext \/ BackupNext \/ UNCHANGED vars
  <2>1. UNCHANGED <<race, saved, unsure, result>>
    BY <1>2, WorkerUnchanged
  <2>2. CASE BackupCopy
    <3>1. backupNum >= workerNum
      BY <2>2, CopyOne, Positions
    <3>2. \A n \in Number : result[n] = "succeeded" /\ n \in copied' => n \in copied
      <4> SUFFICES ASSUME NEW n \in Number, result[n] = "succeeded", n \in copied'
                   PROVE  n \in copied
        OBVIOUS
      <4>1. ~ (n >= workerNum)
        BY DEF Tables
      <4> QED BY <2>2, <3>1, <4>1, CopyOne
    <3> QED BY <2>1, <2>2, <3>2, CopyOne
  <2>3. CASE UNCHANGED <<tmp, copied>>
    BY <2>1, <2>3
  <2> QED BY <1>2, <2>2, <2>3, WorkerUnchanged
<1>3. CASE WorkerTop \/ WorkerWait \/ WorkerEnd \/ WorkerTake \/ ExecuteRead \/ ExecuteOther
  <2>1. UNCHANGED <<race, saved, tmp, copied, unsure, result>>
    BY <1>3 DEF WorkerTop, WorkerWait, WorkerEnd, WorkerTake, ExecuteRead, ExecuteOther, tableVars
  <2> QED BY <2>1
<1>4. CASE ExecuteNormal
  <2>1. /\ worker = "execute" /\ workerQuery.num = w
        /\ UNCHANGED <<saved, tmp, copied, result>>
    BY <1>1, <1>4 DEF ExecuteNormal, Holding
  <2>2. w \notin saved
    BY <2>1 DEF Tables
  <2>3. \/ UNCHANGED <<race, unsure>>
        \/ race' = race \union {w} /\ UNCHANGED unsure
        \/ race' = race \union {w} /\ unsure' = unsure \union {w}
    BY <1>4, <2>1 DEF ExecuteNormal
  <2> QED BY <2>1, <2>2, <2>3
<1>5. CASE Settle
  <2>1. /\ worker = "settle" /\ workerQuery.num = w
        /\ UNCHANGED <<race, copied, unsure, result>>
    BY <1>1, <1>5 DEF Settle, Holding
  <2>2. \/ success /\ tmp' \in {tmp, tmp \ {w}} /\ UNCHANGED saved
        \/ ~success /\ saved' = saved \union (tmp \intersect {w}) /\ UNCHANGED tmp
        \/ UNCHANGED <<saved, tmp>>
    BY <1>5, <2>1 DEF Settle
  <2>3. (success => w \in race) /\ (~success /\ w \in race => w \in unsure)
    BY <2>1 DEF Tables
  <2> QED BY <2>1, <2>2, <2>3
<1>6. CASE SettleDelete
  <2>1. /\ worker = "delete" /\ workerQuery.num = w
        /\ tmp' = tmp \ {w} \/ UNCHANGED tmp
        /\ UNCHANGED <<race, saved, copied, unsure, result>>
    BY <1>1, <1>6 DEF SettleDelete, Holding
  <2>2. w \in tmp => w \in saved
    BY <2>1 DEF Tables
  <2> QED BY <2>1, <2>2
<1>7. CASE Complete
  <2> DEFINE r == IF success THEN "succeeded" ELSE "failed"
  <2>1. /\ worker = "complete" /\ workerQuery.num = w
        /\ UNCHANGED <<race, saved, tmp, copied, unsure>>
    BY <1>1, <1>7 DEF Complete, Holding, tableVars
  <2>2. result' = [result EXCEPT ![w] = r]
    BY <1>7, <2>1 DEF Complete
  <2>3. r = "succeeded" => success
    OBVIOUS
  <2> HIDE DEF r
  <2>4. \A n \in Number : result'[n] = IF n = w THEN r ELSE result[n]
    BY <2>2 DEF TypeOK
  <2>5. success /\ w \in copied => w \in race \union saved
    BY <2>1 DEF Tables
  <2> QED BY <2>1, <2>3, <2>4, <2>5
<1> QED BY <1>2, <1>3, <1>4, <1>5, <1>6, <1>7 DEF Next, WorkerNext

LEMMA InvStep ==
    ASSUME PoolAssumption, NeverFull, DInv, [Next]_vars
    PROVE  DInv'
<1> USE DEF DInv
<1>1. TypeOK'
  BY TypeStep
<1>2. InStep'
  <2>1. CASE UNCHANGED vars
    BY <2>1 DEF vars, mainVars, ringVars, backupVars, workerVars, InStep, Taken, Holding
  <2> QED BY <2>1, InStepMain, InStepBackup, InStepWorker DEF Next
<1>3. InRing' /\ OwnQueries'
  BY InRingStep, OwnQueriesStep
<1>4. Ends' /\ Copied'
  BY EndsStep, CopiedStep
<1>5. Tables' /\ Stored'
  BY TablesStep, StoredStep DEF Stored
<1> QED BY <1>1, <1>2, <1>3, <1>4, <1>5

THEOREM Invariance == ASSUME NeverFull PROVE Spec => []DInv
<1>1. Init => DInv
  BY PoolAssumption, InvInit
<1>2. DInv /\ [Next]_vars => DInv'
  BY PoolAssumption, NeverFull, InvStep
<1> QED BY <1>1, <1>2, PTL DEF Spec

-----------------------------------------------------------------------------
(* What follows from it, for a ring that is never full *)

\* A write the backup thread stored has a row in some table at every moment,
\* whichever statements fail and wherever the server crashes.
THEOREM CopiedWritesStay == ASSUME NeverFull PROVE Spec => []CopiedStays
<1>1. DInv => CopiedStays
  BY DEF DInv, Stored
<1> QED BY <1>1, Invariance, PTL

\* A stored write that is reported as successful has left the temporary table.
THEOREM ReportedWritesStored == ASSUME NeverFull PROVE Spec => []ReportedStored
<1>1. DInv => ReportedStored
  BY DEF DInv, Stored
<1> QED BY <1>1, Invariance, PTL

\* Only a write whose answer was lost is kept by both databases.
THEOREM WritesNotTwice == ASSUME NeverFull PROVE Spec => []NotTwice
<1>1. DInv => NotTwice
  BY DEF DInv, Stored
<1> QED BY <1>1, Invariance, PTL

\* A thread ends only after OnShutdown, with every query executed.
THEOREM JobsBeforeExit == ASSUME NeverFull PROVE Spec => []AllJobsBeforeExit
<1>1. DInv => AllJobsBeforeExit
  <2> SUFFICES ASSUME DInv, worker = "ended", NEW n \in 0 .. (inserted - 1)
               PROVE  result[n] # "pending"
    BY DEF AllJobsBeforeExit
  <2>1. workerNum = inserted /\ n \in Number /\ inserted \in Nat
    BY PoolAssumption DEF DInv, Ends, TypeOK, Number, PoolAssumption
  <2> QED BY <2>1 DEF DInv, Tables
<1> QED BY <1>1, Invariance, PTL
=============================================================================
