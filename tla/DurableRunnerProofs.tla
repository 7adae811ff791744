------------------------ MODULE DurableRunnerProofs ------------------------
(***************************************************************************)
(* Proofs about DurableRunner for every stage, pool size and number of     *)
(* faults; the first two are about a kill that ends the process group, the *)
(* others about any kill.                                                  *)
(*                                                                         *)
(*   OneWriter     Spec => []OneWriterPerObject                            *)
(*   WorkOnce      Spec => []NoRework                                      *)
(*   StateIsTrue   Spec => []StateTruthful                                 *)
(*   FuturesKept   Spec => []NoFutureLost                                  *)
(*   RunsOneStage  Spec => ImplementsStage                                 *)
(***************************************************************************)
EXTENDS DurableRunner, FiniteSetTheorems, TLAPS

\* The part of the type invariant the argument needs.
CallsTyped ==
    /\ launch \in Nat
    /\ queue \subseteq Tasks
    /\ running \subseteq Nat \X Tasks
    /\ landed \subseteq Nat \X Tasks
    /\ handed \subseteq Nat \X Tasks
    /\ status \in [Tasks -> {"absent", "valid", "damaged"}]
    /\ produced \in [Tasks -> Nat]
    /\ damages \in [Tasks -> Nat]

WorkInv == CallsTyped /\ OneLaunch /\ WorkIsNeeded

LEMMA WorkInit == Init => WorkInv
BY DEF Init, WorkInv, CallsTyped, OneLaunch, WorkIsNeeded, Store!Init

\* Steps that touch neither the pool nor the store.
LEMMA Idle ==
    ASSUME WorkInv, UNCHANGED <<launch, running, landed, handed, store, groupKill>>, queue' \subseteq Tasks
    PROVE  WorkInv'
BY DEF WorkInv, CallsTyped, OneLaunch, WorkIsNeeded, store

LEMMA WorkStep ==
    ASSUME WorkInv, [Next]_vars
    PROVE  WorkInv'
<1>. USE DEF memory, disk, pool
<1>1. CASE Launch
  BY <1>1 DEF Launch, WorkInv, CallsTyped, OneLaunch, WorkIsNeeded, store
<1>2. ASSUME NEW t \in Tasks, Scan(t) PROVE WorkInv'
  BY <1>2, Idle DEF Scan, WorkInv, CallsTyped
<1>3. CASE WriteStart \/ WriteTask \/ EventTask \/ EventEnd \/ WriteInterrupted \/ EventInterrupted
  BY <1>3, Idle DEF WriteStart, WriteTask, EventTask, EventEnd, WriteInterrupted,
     EventInterrupted, WorkInv, CallsTyped
<1>4. CASE EventStart
  BY <1>4, Idle DEF EventStart
<1>5. ASSUME NEW t \in Tasks, NEW result \in Final, Collect(t, result) PROVE WorkInv'
  BY <1>5, Idle DEF Collect, WorkInv, CallsTyped
<1>6. CASE Finish
  BY <1>6, Idle DEF Finish, WorkInv, CallsTyped
<1>7. ASSUME NEW t \in Tasks, Take(t) PROVE WorkInv'
  BY <1>7 DEF Take, WorkInv, CallsTyped, OneLaunch, WorkIsNeeded, store
<1>8. ASSUME NEW c \in Calls, TakeHanded(c[1], c[2]) PROVE WorkInv'
  BY <1>8 DEF TakeHanded, WorkInv, CallsTyped, OneLaunch, WorkIsNeeded, store
<1>9. ASSUME NEW c \in Calls, Publish(c[1], c[2]) PROVE WorkInv'
  <2>1. c \in running /\ c = <<c[1], c[2]>> /\ c[2] \in Tasks
    BY <1>9 DEF Publish, WorkInv, CallsTyped, Calls
  <2>2. groupKill => \A d \in running' : d \in running /\ d[2] # c[2]
    BY <1>9, <2>1 DEF Publish, WorkInv, CallsTyped, OneLaunch
  <2>3. /\ UNCHANGED <<launch, queue, handed, damages, groupKill>>
        /\ running' = running \ {c} /\ landed' = landed \cup {c}
        /\ status' = [status EXCEPT ![c[2]] = "valid"]
        /\ produced' = [produced EXCEPT ![c[2]] = @ + 1]
    BY <1>9, <2>1 DEF Publish
  <2>4. status[c[2]] # "valid"
    BY <1>9 DEF Publish
  <2>5. CallsTyped' /\ OneLaunch'
    BY <2>1, <2>3 DEF WorkInv, CallsTyped, OneLaunch
  <2>6. ASSUME groupKill PROVE WorkIsNeeded'
    BY <2>1, <2>2, <2>3, <2>4, <2>6 DEF WorkInv, CallsTyped, WorkIsNeeded
  <2>7. ~ groupKill => WorkIsNeeded'
    BY <2>3 DEF WorkIsNeeded
  <2>. QED
    BY <2>5, <2>6, <2>7 DEF WorkInv
<1>10. ASSUME NEW c \in Calls, Duplicate(c[1], c[2]) PROVE WorkInv'
  <2>1. c \in running /\ c[2] \in Tasks /\ status[c[2]] = "valid"
    BY <1>10 DEF Duplicate, Calls
  <2>2. ~ groupKill
    BY <2>1 DEF WorkInv, WorkIsNeeded
  <2>. QED
    BY <1>10, <2>1, <2>2 DEF Duplicate, WorkInv, CallsTyped, OneLaunch, WorkIsNeeded
<1>11. ASSUME NEW c \in Calls, Return(c[1], c[2]) \/ CallFails(c[1], c[2]) \/ LeftoverDies(c)
       PROVE  WorkInv'
  BY <1>11 DEF Return, CallFails, LeftoverDies, WorkInv, CallsTyped, OneLaunch,
     WorkIsNeeded, store
<1>12. CASE PoolBreaks \/ Interrupt
  BY <1>12 DEF PoolBreaks, Interrupt, DropQueue, WorkInv, CallsTyped, OneLaunch, WorkIsNeeded,
     store
<1>16. CASE Kill
  BY <1>16 DEF Kill, DropQueue, WorkInv, CallsTyped, OneLaunch, WorkIsNeeded, store
<1>13. CASE Rerun
  BY <1>13, Idle DEF Rerun, WorkInv, CallsTyped
<1>14. ASSUME NEW t \in Tasks, Damage(t) PROVE WorkInv'
  BY <1>14 DEF Damage, Store!Decay, Store!Set, WorkInv, CallsTyped, OneLaunch,
     WorkIsNeeded
<1>15. CASE UNCHANGED vars
  BY <1>15, Idle DEF vars, WorkInv, CallsTyped
<1>. QED
  BY <1>1, <1>2, <1>3, <1>4, <1>5, <1>6, <1>7, <1>8, <1>9, <1>10, <1>11,
     <1>12, <1>13, <1>14, <1>15, <1>16 DEF Next, ParentStep, WorkerStep, FaultStep

LEMMA WorkInvariant ==
    Spec => []WorkInv
<1>1. WorkInv /\ [Next]_vars => WorkInv'
  BY WorkStep
<1>. QED
  BY <1>1, WorkInit, PTL DEF Spec

\* When a kill ends the process group, no two calls are ever at one object:
\* the assumption under which ContentStore implements ObjectStore.
THEOREM OneWriter ==
    Spec => []OneWriterPerObject
<1>1. WorkInv => OneWriterPerObject
  BY DEF WorkInv, CallsTyped, OneLaunch, OneWriterPerObject
<1>. QED
  BY <1>1, WorkInvariant, PTL

\* When a kill ends the process group, however often it happens and wherever,
\* an object is computed once and once more per damage: no work is repeated.
THEOREM WorkOnce ==
    Spec => []NoRework
<1>1. WorkInv => NoRework
  BY DEF WorkInv, CallsTyped, WorkIsNeeded, NoRework
<1>. QED
  BY <1>1, WorkInvariant, PTL

-----------------------------------------------------------------------------
(* What is said of the work, whatever a kill spares.                       *)

Collecting == main \in {"collect", "stateTask", "eventTask"}
Waiting(t) == t \in queue
Computing(t) == ~ broken /\ <<launch, t>> \in running \cup landed
Handed(t) == <<launch, t>> \in handed

RunnerTyped ==
    /\ main \in {"down", "scan", "eventStart", "collect", "stateTask", "eventTask",
                 "eventEnd", "interrupted", "eventInterrupted", "returned"}
    /\ launch \in Nat
    /\ main # "down" => launch > 0
    /\ queue \subseteq Tasks
    /\ running \subseteq Calls /\ landed \subseteq Calls /\ handed \subseteq Calls
    /\ broken \in BOOLEAN
    /\ results \subseteq Tasks \X Final
    /\ records \in [Tasks -> {"none", "pending"} \cup Final]
    /\ state.records \in [Tasks -> {"none", "pending"} \cup Final]
    /\ status \in [Tasks -> {"absent", "valid", "damaged"}]
    /\ produced \in [Tasks -> Nat]

\* An object that is there, a result and a record of one stand for work done.
WorkIsDone ==
    \A t \in Tasks :
        /\ status[t] = "valid" => produced[t] > 0
        /\ records[t] \in {"cached", "completed"} => produced[t] > 0
        /\ \A r \in {"cached", "completed"} : <<t, r>> \in results => produced[t] > 0

\* Futures are there only while they are collected, a launch begins and ends
\* without a call, and only one that was given up leaves calls nobody waits for.
PoolEmpty ==
    /\ ~ Collecting => queue = {} /\ results = {}
    /\ broken => queue = {} /\ main \notin {"scan", "eventStart"}
    /\ main \in {"scan", "eventStart", "eventEnd", "returned"} => PoolIdle
    /\ Collecting /\ ~ broken => \A t \in Tasks : ~ Handed(t)

\* A task has a record as soon as its object has been verified.
Scanned ==
    /\ main = "scan" => \A t \in Tasks \ toScan : records[t] \in {"pending", "cached"}
    /\ main = "eventStart" => \A t \in Tasks : records[t] \in {"pending", "cached"}

\* While a launch collects, a task is pending as long as it has a future, and
\* has one at most.
OneFuture ==
    Collecting =>
    \A t \in Tasks :
        /\ records[t] # "none"
        /\ records[t] = "pending" <=> (Waiting(t) \/ Computing(t) \/ Finished(t))
        /\ ~ (Waiting(t) /\ Computing(t))
        /\ ~ (Waiting(t) /\ Finished(t))
        /\ ~ (Computing(t) /\ Finished(t))
        /\ \A r, q \in Final : (<<t, r>> \in results /\ <<t, q>> \in results) => r = q

\* A call is in one place.
Apart == running \cap landed = {} /\ handed \cap (running \cup landed) = {}

StageInv ==
    RunnerTyped /\ WorkIsDone /\ PoolEmpty /\ Scanned /\ OneFuture /\ StateTruthful

LEMMA StageInit == Init => StageInv
<1>. SUFFICES ASSUME Init PROVE StageInv
  OBVIOUS
<1>1. RunnerTyped
  BY DEF Init, RunnerTyped, Store!Init
<1>2. WorkIsDone /\ StateTruthful
  BY DEF Init, WorkIsDone, StateTruthful, Store!Init
<1>3. PoolEmpty /\ Scanned /\ OneFuture
  BY DEF Init, PoolEmpty, Scanned, OneFuture, Collecting
<1>. QED
  BY <1>1, <1>2, <1>3 DEF StageInv

\* Which tasks have a record, by their number.
LEMMA Counted ==
    ASSUME RunnerTyped, NEW s
    PROVE  /\ Count(s) > 0 <=> \E t \in Tasks : records[t] = s
           /\ Count(s) \in Nat
<1>. DEFINE S == {t \in Tasks : records[t] = s}
<1>1. IsFiniteSet(S)
  BY StageAssumption, FS_Subset
<1>2. Cardinality(S) \in Nat /\ (Cardinality(S) = 0 <=> S = {})
  BY <1>1, FS_CardinalityType, FS_EmptySet
<1>. QED
  BY <1>2 DEF Count

\* Steps that leave the pool and the records alone and collect as before.
LEMMA Aside ==
    ASSUME StageInv, UNCHANGED <<launch, records, queue, results, pool>>,
           status' \in [Tasks -> {"absent", "valid", "damaged"}],
           \A t \in Tasks : status'[t] = "valid" => status[t] = "valid",
           UNCHANGED produced, Collecting' = Collecting, main' # "down" => main # "down",
           main' \in {"down", "scan", "eventStart", "collect", "stateTask", "eventTask",
                     "eventEnd", "interrupted", "eventInterrupted", "returned"},
           main' \in {"scan", "eventStart", "eventEnd", "returned"} =>
               PoolIdle,
           main' \in {"scan", "eventStart"} => ~ broken,
           Scanned', StateTruthful',
           state'.records \in [Tasks -> {"none", "pending"} \cup Final]
    PROVE  StageInv'
<1>1. RunnerTyped' /\ WorkIsDone'
  BY DEF StageInv, RunnerTyped, WorkIsDone, Calls, pool
<1>2. PoolEmpty' /\ OneFuture'
  BY DEF StageInv, PoolEmpty, PoolIdle, OneFuture, Waiting, Computing, Handed, Finished, pool
<1>. QED
  BY <1>1, <1>2 DEF StageInv

\* A launch is alone with its number: calls left over have a smaller one.
LEMMA LaunchKeeps ==
    ASSUME StageInv, Launch
    PROVE  StageInv'
<1>1. /\ main' = "scan" /\ launch' = launch + 1 /\ toScan' = Tasks
      /\ records' = [t \in Tasks |-> "none"] /\ queue' = {} /\ results' = {}
      /\ broken' = FALSE
      /\ UNCHANGED <<running, landed, handed, state, status, produced>>
  BY DEF Launch, disk, store
<1>2. PoolIdle'
  BY <1>1 DEF StageInv, RunnerTyped, Calls, PoolIdle
<1>3. /\ running' \subseteq (1..launch') \X Tasks /\ landed' \subseteq (1..launch') \X Tasks
      /\ handed' \subseteq (1..launch') \X Tasks
  BY <1>1 DEF StageInv, RunnerTyped, Calls
<1>4. RunnerTyped' /\ WorkIsDone'
  <2>1. RunnerTyped'
    <3>1. Calls' = (1..launch') \X Tasks
      BY DEF Calls
    <3>2. launch' \in Nat /\ launch' > 0
      BY <1>1 DEF StageInv, RunnerTyped
    <3>. QED
      BY <1>1, <1>3, <3>1, <3>2 DEF StageInv, RunnerTyped
  <2>2. \A t \in Tasks : records'[t] = "none" /\ \A r : <<t, r>> \notin results'
    BY <1>1
  <2>. QED
    BY <1>1, <2>1, <2>2 DEF StageInv, WorkIsDone
<1>5. PoolEmpty' /\ Scanned' /\ OneFuture' /\ StateTruthful'
  BY <1>1, <1>2 DEF StageInv, PoolEmpty, Scanned, OneFuture, StateTruthful, Collecting
<1>. QED
  BY <1>4, <1>5 DEF StageInv

LEMMA ScanKeeps ==
    ASSUME StageInv, NEW t \in Tasks, Scan(t)
    PROVE  StageInv'
<1>1. /\ main = "scan" /\ toScan' = toScan \ {t}
      /\ records' = [records EXCEPT ![t] = IF status[t] = "valid" THEN "cached" ELSE "pending"]
      /\ UNCHANGED <<main, launch, queue, results, running, landed, handed, broken, state, status, produced>>
  BY DEF Scan, Record, pool, disk, store
<1>2. RunnerTyped' /\ WorkIsDone'
  BY <1>1 DEF StageInv, RunnerTyped, WorkIsDone, Calls, Final
<1>3. Scanned'
  BY <1>1 DEF StageInv, RunnerTyped, Scanned
<1>4. PoolEmpty' /\ OneFuture' /\ StateTruthful'
  BY <1>1 DEF StageInv, PoolEmpty, OneFuture, StateTruthful, Collecting, PoolIdle
<1>. QED
  BY <1>2, <1>3, <1>4 DEF StageInv

LEMMA StartKeeps ==
    ASSUME StageInv, WriteStart
    PROVE  StageInv'
<1>1. /\ main = "scan" /\ toScan = {} /\ main' = "eventStart"
      /\ state' = [status |-> IF Count("pending") > 0 THEN "running" ELSE "complete",
                   records |-> records]
      /\ UNCHANGED <<launch, toScan, records, queue, results, pool, status, produced>>
  BY DEF WriteStart, Checkpoint, memory, store
<1>2. \A t \in Tasks : records[t] \in {"pending", "cached"}
  BY <1>1 DEF StageInv, Scanned
<1>3. Scanned'
  BY <1>1, <1>2 DEF Scanned
<1>4. StateTruthful'
  <2>1. state'.status = "complete" => \A t \in Tasks : records[t] = "cached"
    BY <1>1, <1>2, Counted DEF StageInv
  <2>2. \A t \in Tasks : records[t] \in {"cached", "completed"} => produced[t] > 0
    BY DEF StageInv, WorkIsDone
  <2>. QED
    BY <1>1, <2>1, <2>2 DEF StateTruthful
<1>5. state'.records \in [Tasks -> {"none", "pending"} \cup Final]
  BY <1>1 DEF StageInv, RunnerTyped
<1>. QED
  BY <1>1, <1>3, <1>4, <1>5, Aside DEF StageInv, PoolEmpty, Collecting, RunnerTyped

LEMMA EventStartKeeps ==
    ASSUME StageInv, EventStart
    PROVE  StageInv'
<1>1. /\ main = "eventStart" /\ queue' = {t \in Tasks : records[t] = "pending"}
      /\ main' = IF queue' = {} THEN "returned" ELSE "collect"
      /\ UNCHANGED <<launch, toScan, records, results, running, landed, handed, broken, state, status, produced>>
  BY DEF EventStart, pool, store
<1>2. /\ results = {} /\ PoolIdle
      /\ \A t \in Tasks : ~ Computing(t) /\ ~ Handed(t) /\ records[t] \in {"pending", "cached"}
  BY <1>1 DEF StageInv, PoolEmpty, Scanned, Collecting, PoolIdle, Computing, Handed
<1>5. ~ broken
  BY <1>1 DEF StageInv, PoolEmpty
<1>3. RunnerTyped' /\ WorkIsDone' /\ StateTruthful' /\ Scanned'
  BY <1>1 DEF StageInv, RunnerTyped, WorkIsDone, StateTruthful, Scanned, Calls
<1>4. PoolEmpty' /\ OneFuture'
  BY <1>1, <1>2, <1>5 DEF PoolEmpty, PoolIdle, OneFuture, Collecting, Waiting, Computing, Handed,
     Finished
<1>. QED
  BY <1>3, <1>4 DEF StageInv

LEMMA CollectKeeps ==
    ASSUME StageInv, NEW t \in Tasks, NEW result \in Final, Collect(t, result)
    PROVE  StageInv'
<1>1. /\ main = "collect" /\ main' = "stateTask" /\ <<t, result>> \in results
      /\ results' = results \ {<<t, result>>}
      /\ records' = [records EXCEPT ![t] = result]
      /\ UNCHANGED <<launch, toScan, queue, running, landed, handed, broken, state, status, produced>>
  BY DEF Collect, Record, pool, disk, store
<1>2. RunnerTyped'
  BY <1>1 DEF StageInv, RunnerTyped, Calls
<1>3. WorkIsDone'
  BY <1>1 DEF StageInv, RunnerTyped, WorkIsDone
<1>4. OneFuture'
  <2>1. /\ ~ Waiting(t) /\ ~ Computing(t)
        /\ \A q \in Final : <<t, q>> \in results => q = result
    BY <1>1 DEF StageInv, OneFuture, Collecting, Finished
  <2>2. ~ Waiting(t)' /\ ~ Computing(t)' /\ ~ Finished(t)' /\ records'[t] = result
    BY <1>1, <2>1 DEF Waiting, Computing, Finished, StageInv, RunnerTyped
  <2>3. result \notin {"none", "pending"}
    BY DEF Final
  <2>4. ASSUME NEW u \in Tasks, u # t
        PROVE  /\ records'[u] = records[u]
               /\ Waiting(u)' = Waiting(u) /\ Computing(u)' = Computing(u)
               /\ Finished(u)' = Finished(u)
    BY <1>1, <2>4 DEF Waiting, Computing, Finished, StageInv, RunnerTyped
  <2>. QED
    BY <1>1, <2>2, <2>3, <2>4 DEF StageInv, OneFuture, Collecting
<1>5. PoolEmpty' /\ Scanned' /\ StateTruthful'
  BY <1>1 DEF StageInv, PoolEmpty, PoolIdle, Handed, Scanned, StateTruthful, Collecting
<1>. QED
  BY <1>2, <1>3, <1>4, <1>5 DEF StageInv

LEMMA CheckpointsKeep ==
    ASSUME StageInv, WriteTask \/ EventTask \/ WriteInterrupted \/ EventInterrupted \/ EventEnd
    PROVE  StageInv'
<1>1. /\ UNCHANGED <<launch, toScan, records, queue, results, pool, status, produced>>
      /\ Collecting' = Collecting
      /\ main' \in {"collect", "eventTask", "eventInterrupted", "down", "returned"}
      /\ main # "down"
      /\ main' = "returned" => main = "eventEnd"
  BY DEF WriteTask, EventTask, WriteInterrupted, EventInterrupted, EventEnd, Collecting,
     memory, store
<1>2. /\ \/ UNCHANGED state
         \/ state'.records = records /\ state'.status \in {"running", "interrupted"}
      /\ main' \notin {"scan", "eventStart"}
  BY DEF WriteTask, EventTask, WriteInterrupted, EventInterrupted, EventEnd, Checkpoint
<1>3. StateTruthful'
  BY <1>1, <1>2 DEF StageInv, WorkIsDone, StateTruthful
<1>4. state'.records \in [Tasks -> {"none", "pending"} \cup Final]
  BY <1>2 DEF StageInv, RunnerTyped
<1>. QED
  BY <1>1, <1>2, <1>3, <1>4, Aside DEF StageInv, RunnerTyped, PoolEmpty, Scanned

LEMMA FinishKeeps ==
    ASSUME StageInv, Finish
    PROVE  StageInv'
<1>1. /\ main = "collect" /\ main' = "eventEnd" /\ queue = {} /\ results = {} /\ PoolIdle
      /\ state' = [status |-> IF Count("failed") > 0 THEN "failed" ELSE "complete",
                   records |-> records]
      /\ UNCHANGED <<launch, toScan, records, queue, results, running, landed, handed, broken, status, produced>>
  BY DEF Finish, Checkpoint, memory, pool, store
<1>2. \A t \in Tasks : ~ Computing(t)
  BY <1>1 DEF PoolIdle, Computing
<1>3. \A t \in Tasks : records[t] \in Final
  <2>1. \A t \in Tasks : ~ Waiting(t) /\ ~ Finished(t)
    BY <1>1 DEF Waiting, Finished
  <2>. QED
    BY <1>1, <1>2, <2>1 DEF StageInv, OneFuture, Collecting, RunnerTyped
<1>4. StateTruthful'
  <2>1. (\E t \in Tasks : records[t] = "failed") <=> Count("failed") > 0
    BY Counted DEF StageInv
  <2>2. \A t \in Tasks : records[t] \in {"cached", "completed"} => produced[t] > 0
    BY DEF StageInv, WorkIsDone
  <2>. QED
    BY <1>1, <1>3, <2>1, <2>2 DEF StateTruthful, Final
<1>5. RunnerTyped' /\ WorkIsDone'
  BY <1>1 DEF StageInv, RunnerTyped, WorkIsDone, Calls
<1>6. PoolEmpty' /\ Scanned' /\ OneFuture'
  BY <1>1 DEF PoolEmpty, PoolIdle, Scanned, OneFuture, Collecting
<1>. QED
  BY <1>4, <1>5, <1>6 DEF StageInv

\* A call ends whose future is collected; any other result is nobody's.
Awaited(c) == c[1] = launch /\ Collecting /\ ~ broken

LEMMA ResultKept ==
    ASSUME StageInv, NEW c \in Calls, c \in running \cup landed, NEW r \in Final,
           Result(c[1], c[2], r)
    PROVE  /\ Awaited(c) => results' = results \cup {<<c[2], r>>}
           /\ ~ Awaited(c) => results' = results
<1>1. c[1] = launch => main \notin {"scan", "eventStart", "eventEnd", "returned"}
  BY DEF StageInv, PoolEmpty, PoolIdle
<1>2. CASE c[1] # launch \/ broken \/ main \in {"down", "interrupted", "eventInterrupted"}
  BY <1>2 DEF Result, Collecting, Awaited
<1>3. CASE c[1] = launch /\ ~ broken /\ main \notin {"down", "interrupted", "eventInterrupted"}
  BY <1>1, <1>3 DEF Result, Collecting, Awaited, StageInv, RunnerTyped
<1>. QED
  BY <1>2, <1>3

\* A call ends: its future finishes, or is forgotten with its launch.
LEMMA CallEnds ==
    ASSUME StageInv, NEW c \in Calls, c \in running \cup landed, NEW r \in Final,
           running' = running \ {c}, landed' = landed \ {c}, Result(c[1], c[2], r),
           r \in {"cached", "completed"} => produced'[c[2]] > 0,
           \A t \in Tasks : produced'[t] \in Nat /\ produced'[t] >= produced[t],
           produced' \in [Tasks -> Nat],
           UNCHANGED <<main, launch, toScan, records, queue, handed, broken, state, status>>
    PROVE  StageInv'
<1>1. c = <<c[1], c[2]>> /\ c[2] \in Tasks
  BY DEF Calls
<1>2. /\ Awaited(c) => results' = results \cup {<<c[2], r>>}
      /\ ~ Awaited(c) => results' = results
  BY ResultKept
<1>3. RunnerTyped'
  BY <1>1, <1>2 DEF StageInv, RunnerTyped, Calls
<1>4. WorkIsDone'
  <2>1. \A t \in Tasks : produced[t] > 0 => produced'[t] > 0
    BY DEF StageInv, RunnerTyped
  <2>2. \A t, q : <<t, q>> \in results' => <<t, q>> \in results \/ (t = c[2] /\ q = r)
    BY <1>2
  <2>3. ASSUME NEW t \in Tasks, NEW q \in {"cached", "completed"}, <<t, q>> \in results'
        PROVE  produced'[t] > 0
    BY <2>1, <2>2, <2>3 DEF StageInv, WorkIsDone
  <2>4. \A t \in Tasks : records'[t] \in {"cached", "completed"} => produced'[t] > 0
    BY <2>1 DEF StageInv, WorkIsDone
  <2>5. \A t \in Tasks : status'[t] = "valid" => produced'[t] > 0
    BY <2>1 DEF StageInv, WorkIsDone
  <2>. QED
    BY <2>3, <2>4, <2>5 DEF WorkIsDone
<1>5. StateTruthful'
  BY DEF StageInv, RunnerTyped, StateTruthful
<1>6. PoolEmpty' /\ Scanned'
  BY <1>2 DEF StageInv, PoolEmpty, PoolIdle, Handed, Scanned, Collecting, Awaited
<1>7. OneFuture'
  <2>. SUFFICES ASSUME Collecting PROVE OneFuture'
    BY DEF OneFuture, Collecting
  <2>1. CASE Awaited(c)
    <3>1. ~ Waiting(c[2]) /\ Computing(c[2]) /\ ~ Finished(c[2]) /\ records[c[2]] = "pending"
      BY <1>1, <2>1 DEF StageInv, OneFuture, Computing, Awaited
    <3>2. /\ ~ Waiting(c[2])' /\ ~ Computing(c[2])' /\ Finished(c[2])'
          /\ \A q \in Final : <<c[2], q>> \in results' => q = r
      BY <1>1, <1>2, <2>1, <3>1 DEF Waiting, Computing, Finished, Awaited
    <3>3. ASSUME NEW t \in Tasks, t # c[2]
          PROVE  /\ Waiting(t)' = Waiting(t) /\ Computing(t)' = Computing(t)
                 /\ Finished(t)' = Finished(t)
                 /\ \A q : <<t, q>> \in results' <=> <<t, q>> \in results
      <4>1. \A q : <<t, q>> \in results' <=> <<t, q>> \in results
        BY <1>2, <2>1, <3>3
      <4>2. Computing(t)' = Computing(t)
        BY <1>1, <3>3 DEF Computing
      <4>. QED
        BY <4>1, <4>2 DEF Waiting, Finished
    <3>. QED
      BY <3>1, <3>2, <3>3 DEF StageInv, OneFuture
  <2>2. CASE ~ Awaited(c)
    <3>1. ASSUME NEW t \in Tasks
          PROVE  Waiting(t)' = Waiting(t) /\ Computing(t)' = Computing(t) /\ Finished(t)' = Finished(t)
      BY <1>1, <1>2, <2>2 DEF Waiting, Computing, Finished, Awaited
    <3>. QED
      BY <1>2, <2>2, <3>1 DEF StageInv, OneFuture
  <2>. QED
    BY <2>1, <2>2
<1>. QED
  BY <1>3, <1>4, <1>5, <1>6, <1>7 DEF StageInv

\* A call that goes on in another place is at work as before.
LEMMA CallMoves ==
    ASSUME StageInv, NEW c \in Calls,
           running' \cup landed' = running \cup landed,
           running' \subseteq Calls, landed' \subseteq Calls,
           status' \in [Tasks -> {"absent", "valid", "damaged"}],
           produced' \in [Tasks -> Nat],
           \A t \in Tasks : produced'[t] >= produced[t],
           \A t \in Tasks : status'[t] = "valid" => produced'[t] > 0,
           UNCHANGED <<main, launch, toScan, records, queue, results, handed, broken, state>>
    PROVE  StageInv'
<1>1. RunnerTyped' /\ Scanned'
  BY DEF StageInv, RunnerTyped, Scanned, Calls
<1>2. WorkIsDone' /\ StateTruthful'
  <2>1. \A t \in Tasks : produced[t] > 0 => produced'[t] > 0
    BY DEF StageInv, RunnerTyped
  <2>. QED
    BY <2>1 DEF StageInv, WorkIsDone, StateTruthful
<1>3. PoolIdle => PoolIdle'
  BY DEF PoolIdle
<1>4. \A t \in Tasks : /\ Computing(t)' = Computing(t) /\ Waiting(t)' = Waiting(t)
                        /\ Handed(t)' = Handed(t) /\ Finished(t)' = Finished(t)
  BY DEF Computing, Waiting, Handed, Finished
<1>5. PoolEmpty' /\ OneFuture'
  BY <1>3, <1>4 DEF StageInv, PoolEmpty, OneFuture, Collecting
<1>. QED
  BY <1>1, <1>2, <1>5 DEF StageInv

LEMMA TakeKeeps ==
    ASSUME StageInv, NEW t \in Tasks, Take(t)
    PROVE  StageInv'
<1>1. /\ t \in queue /\ queue' = queue \ {t}
      /\ UNCHANGED <<main, launch, toScan, records, landed, handed, broken, state, status, produced>>
  BY DEF Take, disk, store
<1>2. /\ Collecting /\ ~ broken /\ launch > 0
      /\ ~ Computing(t) /\ ~ Finished(t) /\ records[t] = "pending"
  BY <1>1 DEF StageInv, PoolEmpty, OneFuture, Waiting, RunnerTyped, Collecting
<1>3. ASSUME NEW u \in Tasks, u # t
      PROVE  Waiting(u)' = Waiting(u)
  BY <1>1, <1>3 DEF Waiting
<1>4. CASE status[t] = "valid" /\ results' = results \cup {<<t, "cached">>} /\ UNCHANGED running
  <2>1. produced[t] > 0
    BY <1>4 DEF StageInv, WorkIsDone
  <2>2. RunnerTyped' /\ StateTruthful' /\ PoolEmpty' /\ Scanned'
    BY <1>1, <1>2, <1>4 DEF StageInv, RunnerTyped, StateTruthful, PoolEmpty, PoolIdle, Handed, Scanned,
       Calls, Collecting, Final
  <2>3. WorkIsDone'
    <3>1. \A u, q : <<u, q>> \in results' => <<u, q>> \in results \/ u = t
      BY <1>4
    <3>. QED
      BY <1>1, <2>1, <3>1 DEF StageInv, WorkIsDone
  <2>4. /\ ~ Waiting(t)' /\ ~ Computing(t)' /\ Finished(t)'
        /\ \A q \in Final : <<t, q>> \in results' => q = "cached"
    BY <1>1, <1>2, <1>4 DEF Waiting, Computing, Finished, Final
  <2>5. ASSUME NEW u \in Tasks, u # t
        PROVE  /\ Computing(u)' = Computing(u) /\ Finished(u)' = Finished(u)
               /\ \A q : <<u, q>> \in results' <=> <<u, q>> \in results
    BY <1>1, <1>4, <2>5 DEF Computing, Finished
  <2>6. OneFuture'
    BY <1>1, <1>2, <1>3, <2>4, <2>5 DEF StageInv, OneFuture, Collecting
  <2>. QED
    BY <2>2, <2>3, <2>6 DEF StageInv
<1>5. CASE running' = running \cup {<<launch, t>>} /\ UNCHANGED results
  <2>1. RunnerTyped' /\ StateTruthful' /\ Scanned' /\ WorkIsDone'
    BY <1>1, <1>2, <1>5 DEF StageInv, RunnerTyped, StateTruthful, Scanned, WorkIsDone, Calls
  <2>2. PoolEmpty'
    BY <1>1, <1>2, <1>5 DEF StageInv, PoolEmpty, Handed, Collecting
  <2>3. ~ Waiting(t)' /\ Computing(t)' /\ ~ Finished(t)'
    BY <1>1, <1>2, <1>5 DEF Waiting, Computing, Finished
  <2>4. ASSUME NEW u \in Tasks, u # t
        PROVE  Computing(u)' = Computing(u) /\ Finished(u)' = Finished(u)
    BY <1>1, <1>5, <2>4 DEF Computing, Finished
  <2>5. OneFuture'
    BY <1>1, <1>2, <1>3, <1>5, <2>3, <2>4 DEF StageInv, OneFuture, Collecting
  <2>. QED
    BY <2>1, <2>2, <2>5 DEF StageInv
<1>. QED
  BY <1>2, <1>4, <1>5 DEF Take, Result, Collecting

\* What is dropped from the queue was submitted by this launch.
LEMMA QueueDropped ==
    ASSUME StageInv, main # "down", DropQueue
    PROVE  queue' = {} /\ handed' \subseteq Calls
<1>1. launch \in 1..launch /\ handed \subseteq Calls /\ queue \subseteq Tasks
  BY DEF StageInv, RunnerTyped
<1>. QED
  BY <1>1 DEF DropQueue, Calls

LEMMA PoolBreaksKeeps ==
    ASSUME StageInv, PoolBreaks
    PROVE  StageInv'
<1>1. /\ Collecting /\ queue' = {}
      /\ results' = results \cup {<<t, "failed">> : t \in queue \cup InFlight}
      /\ broken' = TRUE /\ DropQueue
      /\ UNCHANGED <<main, launch, toScan, records, running, landed, state, status, produced>>
      /\ main # "down" /\ InFlight # {}
  <2>1. queue' = {}
    BY DEF PoolBreaks, DropQueue
  <2>. QED
    BY <2>1 DEF PoolBreaks, Collecting, disk, store
<1>2. \A t \in Tasks : ~ Waiting(t)' /\ ~ Computing(t)'
  BY <1>1 DEF Waiting, Computing
<1>3. \A t \in Tasks, q \in Final :
         <<t, q>> \in results' <=>
             \/ <<t, q>> \in results
             \/ q = "failed" /\ (Waiting(t) \/ Computing(t))
  BY <1>1 DEF InFlight, Busy, Waiting, Computing
<1>4. RunnerTyped'
  <2>1. results' \subseteq Tasks \X Final
    <3>1. queue \cup InFlight \subseteq Tasks /\ "failed" \in Final
      BY DEF StageInv, RunnerTyped, InFlight, Busy, Final
    <3>2. results \subseteq Tasks \X Final
      BY DEF StageInv, RunnerTyped
    <3>. QED
      BY <1>1, <3>1, <3>2
  <2>. QED
    BY <1>1, <2>1, QueueDropped DEF StageInv, RunnerTyped, Calls
<1>5. WorkIsDone'
  <2>1. \A t \in Tasks, q \in {"cached", "completed"} :
            <<t, q>> \in results' => <<t, q>> \in results
    BY <1>1
  <2>. QED
    BY <1>1, <2>1 DEF StageInv, WorkIsDone
<1>6. OneFuture'
  <2>1. \A t \in Tasks : Finished(t)' <=> (Waiting(t) \/ Computing(t) \/ Finished(t))
    BY <1>3 DEF Finished, Final
  <2>2. ASSUME NEW t \in Tasks, NEW q \in Final, NEW r \in Final,
               <<t, q>> \in results', <<t, r>> \in results'
        PROVE  q = r
    BY <1>1, <1>3, <2>2 DEF StageInv, OneFuture, Finished
  <2>. QED
    BY <1>1, <1>2, <2>1, <2>2 DEF StageInv, OneFuture, Collecting
<1>7. PoolEmpty' /\ Scanned' /\ StateTruthful'
  BY <1>1 DEF StageInv, PoolEmpty, Scanned, StateTruthful, Collecting
<1>. QED
  BY <1>4, <1>5, <1>6, <1>7 DEF StageInv

\* The parent is gone, and its futures with it.
LEMMA ParentGone ==
    ASSUME StageInv, Interrupt \/ Kill
    PROVE  StageInv'
<1>1. /\ main' \in {"interrupted", "down"} /\ queue' = {} /\ results' = {}
      /\ UNCHANGED <<launch, toScan, records, broken, state, status, produced>>
      /\ running' \in {running, {}} /\ landed' \in {landed, {}}
      /\ main # "down"
      /\ handed' = {} \/ DropQueue
  BY DEF Interrupt, Kill, Alive, DropQueue, disk, store
<1>2. running' \subseteq Calls /\ landed' \subseteq Calls /\ handed' \subseteq Calls /\ Calls' = Calls
  BY <1>1, QueueDropped DEF StageInv, RunnerTyped, Calls
<1>3. RunnerTyped'
  BY <1>1, <1>2 DEF StageInv, RunnerTyped
<1>. QED
  BY <1>1, <1>3 DEF StageInv, WorkIsDone, PoolEmpty, Scanned, OneFuture, StateTruthful, Collecting

LEMMA LeftoverKeeps ==
    ASSUME StageInv, NEW c \in Calls, LeftoverDies(c)
    PROVE  StageInv'
<1>1. /\ c[1] = launch => broken \/ ~ Alive
      /\ running' = running \ {c} /\ landed' = landed \ {c} /\ handed' = handed \ {c}
      /\ UNCHANGED <<main, launch, toScan, records, queue, results, broken, state, status, produced>>
  BY DEF LeftoverDies, memory, disk, store
<1>2. RunnerTyped' /\ WorkIsDone' /\ Scanned' /\ StateTruthful'
  BY <1>1 DEF StageInv, RunnerTyped, WorkIsDone, Scanned, StateTruthful, Calls
<1>3. PoolEmpty'
  BY <1>1 DEF StageInv, PoolEmpty, PoolIdle, Handed, Collecting
<1>4. OneFuture'
  <2>. SUFFICES ASSUME Collecting PROVE OneFuture'
    BY <1>1 DEF OneFuture, Collecting
  <2>1. c[1] # launch \/ broken
    BY <1>1 DEF Alive, Collecting
  <2>2. \A t \in Tasks :
            Waiting(t)' = Waiting(t) /\ Computing(t)' = Computing(t) /\ Finished(t)' = Finished(t)
    BY <1>1, <2>1 DEF Waiting, Computing, Finished
  <2>. QED
    BY <1>1, <2>2 DEF StageInv, OneFuture
<1>. QED
  BY <1>2, <1>3, <1>4 DEF StageInv

\* A call nobody waits for is taken: of an earlier launch, of one that is over
\* or of a broken pool.
LEMMA TakeHandedKeeps ==
    ASSUME StageInv, NEW c \in Calls, TakeHanded(c[1], c[2])
    PROVE  StageInv'
<1>1. /\ c \in handed /\ c = <<c[1], c[2]>> /\ handed' = handed \ {c}
      /\ running' = running \/ running' = running \cup {c}
      /\ UNCHANGED <<main, launch, toScan, records, queue, results, landed, broken, state, status,
                     produced>>
  BY DEF TakeHanded, Calls, memory, disk, store
<1>2. c[1] = launch => ~ Collecting \/ broken
  BY <1>1 DEF StageInv, PoolEmpty, Handed, Calls
<1>3. RunnerTyped' /\ WorkIsDone' /\ Scanned' /\ StateTruthful'
  BY <1>1 DEF StageInv, RunnerTyped, WorkIsDone, Scanned, StateTruthful, Calls
<1>4. PoolEmpty'
  BY <1>1 DEF StageInv, PoolEmpty, PoolIdle, Handed, Collecting
<1>5. OneFuture'
  <2>. SUFFICES ASSUME Collecting PROVE OneFuture'
    BY <1>1 DEF OneFuture, Collecting
  <2>1. \A t \in Tasks :
            Waiting(t)' = Waiting(t) /\ Computing(t)' = Computing(t) /\ Finished(t)' = Finished(t)
    BY <1>1, <1>2 DEF Waiting, Computing, Finished
  <2>. QED
    BY <1>1, <2>1 DEF StageInv, OneFuture
<1>. QED
  BY <1>3, <1>4, <1>5 DEF StageInv

LEMMA StageStep ==
    ASSUME StageInv, Apart, [Next]_vars
    PROVE  StageInv'
<1>1. CASE ParentStep
  BY <1>1, LaunchKeeps, ScanKeeps, StartKeeps, EventStartKeeps, CollectKeeps, CheckpointsKeep,
     FinishKeeps DEF ParentStep
<1>2. ASSUME NEW c \in Calls, Publish(c[1], c[2]) PROVE StageInv'
  <2>1. /\ c \in running /\ c[2] \in Tasks
        /\ running' = running \ {c} /\ landed' = landed \cup {c}
        /\ status' = [status EXCEPT ![c[2]] = "valid"]
        /\ produced' = [produced EXCEPT ![c[2]] = @ + 1]
        /\ UNCHANGED <<main, launch, toScan, records, queue, results, handed, broken, state>>
    BY <1>2 DEF Publish, Calls, memory, disk
  <2>5. produced \in [Tasks -> Nat] /\ status \in [Tasks -> {"absent", "valid", "damaged"}]
    BY DEF StageInv, RunnerTyped
  <2>2. /\ \A t \in Tasks : produced'[t] >= produced[t]
        /\ produced' \in [Tasks -> Nat]
        /\ status' \in [Tasks -> {"absent", "valid", "damaged"}]
        /\ running' \subseteq Calls /\ landed' \subseteq Calls
    <3>1. running \subseteq Calls /\ landed \subseteq Calls
      BY DEF StageInv, RunnerTyped
    <3>2. running' \subseteq Calls /\ landed' \subseteq Calls
      BY <2>1, <3>1
    <3>3. produced' \in [Tasks -> Nat] /\ status' \in [Tasks -> {"absent", "valid", "damaged"}]
      BY <2>1, <2>5
    <3>4. \A t \in Tasks : produced'[t] >= produced[t]
      BY <2>1, <2>5
    <3>. QED
      BY <3>2, <3>3, <3>4
  <2>3. \A t \in Tasks : status'[t] = "valid" => produced'[t] > 0
    <3>1. ASSUME NEW t \in Tasks, status'[t] = "valid" PROVE produced'[t] > 0
      <4>1. CASE t = c[2]
        BY <2>1, <2>5, <4>1
      <4>2. CASE t # c[2]
        BY <2>1, <2>5, <3>1, <4>2 DEF StageInv, WorkIsDone
      <4>. QED
        BY <4>1, <4>2
    <3>. QED
      BY <3>1
  <2>4. running' \cup landed' = running \cup landed
    BY <2>1
  <2>. QED
    BY <2>1, <2>2, <2>3, <2>4, CallMoves
<1>3. ASSUME NEW c \in Calls, Duplicate(c[1], c[2]) \/ Return(c[1], c[2]) \/ CallFails(c[1], c[2])
      PROVE  StageInv'
  <2>1. /\ c = <<c[1], c[2]>> /\ c[2] \in Tasks
        /\ UNCHANGED <<main, launch, toScan, records, queue, handed, broken, state, status>>
    BY <1>3 DEF Duplicate, Return, CallFails, Calls, disk, store
  <2>2. PICK r \in Final :
            /\ Result(c[1], c[2], r)
            /\ r # "failed" => status[c[2]] = "valid" /\ r = "completed"
    <3>1. "completed" \in Final /\ "failed" \in Final /\ "failed" # "completed"
      BY DEF Final
    <3>. QED
      BY <1>3, <3>1 DEF Duplicate, Return, CallFails
  <2>3. /\ produced' = produced \/ produced' = [produced EXCEPT ![c[2]] = @ + 1]
        /\ c \in running \cup landed
    BY <1>3, <2>1 DEF Duplicate, Return, CallFails, store
  <2>4. running' = running \ {c} /\ landed' = landed \ {c}
    <3>1. CASE Duplicate(c[1], c[2])
      BY <3>1, <2>1 DEF Duplicate, Apart
    <3>2. CASE Return(c[1], c[2])
      BY <3>2, <2>1 DEF Return, Apart
    <3>3. CASE CallFails(c[1], c[2])
      BY <3>3, <2>1 DEF CallFails
    <3>. QED
      BY <1>3, <3>1, <3>2, <3>3
  <2>5. /\ produced' \in [Tasks -> Nat]
        /\ \A t \in Tasks : produced'[t] \in Nat /\ produced'[t] >= produced[t]
    <3>1. produced \in [Tasks -> Nat]
      BY DEF StageInv, RunnerTyped
    <3>2. CASE produced' = produced
      BY <3>1, <3>2
    <3>3. CASE produced' = [produced EXCEPT ![c[2]] = @ + 1]
      BY <2>1, <3>1, <3>3
    <3>. QED
      BY <2>3, <3>2, <3>3
  <2>6. r \in {"cached", "completed"} => produced'[c[2]] > 0
    <3>1. status[c[2]] = "valid" => produced[c[2]] > 0
      BY <2>1 DEF StageInv, WorkIsDone
    <3>2. produced[c[2]] \in Nat /\ r # "failed" => status[c[2]] = "valid"
      BY <2>1, <2>2 DEF StageInv, RunnerTyped
    <3>3. produced[c[2]] \in Nat
      BY <2>1 DEF StageInv, RunnerTyped
    <3>. QED
      BY <2>1, <2>5, <3>1, <3>2, <3>3
  <2>. QED
    BY <2>1, <2>2, <2>3, <2>4, <2>5, <2>6, CallEnds
<1>4. ASSUME NEW t \in Tasks, Damage(t) PROVE StageInv'
  <2>1. /\ status' = [status EXCEPT ![t] = "damaged"]
        /\ UNCHANGED <<main, launch, toScan, records, queue, results, pool, state, produced>>
    BY <1>4 DEF Damage, Store!Decay, Store!Set, memory, disk
  <2>. QED
    BY <2>1, Aside DEF StageInv, RunnerTyped, PoolEmpty, Scanned, StateTruthful, Collecting
<1>5. CASE Rerun
  BY <1>5, Aside DEF Rerun, memory, disk, store, StageInv, RunnerTyped, Scanned, StateTruthful,
     Collecting
<1>6. CASE UNCHANGED vars
  BY <1>6, Aside DEF vars, memory, disk, store, StageInv, RunnerTyped, PoolEmpty, Scanned,
     StateTruthful, Collecting
<1>. QED
  BY <1>1, <1>2, <1>3, <1>4, <1>5, <1>6, TakeKeeps, TakeHandedKeeps, PoolBreaksKeeps,
     ParentGone, LeftoverKeeps
     DEF Next, WorkerStep, FaultStep

LEMMA ApartStep ==
    ASSUME StageInv, Apart, [Next]_vars
    PROVE  Apart'
<1>1. CASE UNCHANGED <<running, landed, handed>>
  BY <1>1 DEF Apart
<1>2. ASSUME NEW t \in Tasks, Take(t) PROVE Apart'
  <2>1. Collecting /\ ~ broken /\ ~ Computing(t) /\ ~ Handed(t)
    BY <1>2 DEF Take, StageInv, PoolEmpty, OneFuture, Waiting
  <2>. QED
    BY <1>2, <2>1 DEF Take, Computing, Handed, Apart
<1>3. ASSUME DropQueue, running' \subseteq running, landed' \subseteq landed PROVE Apart'
  <2>1. \A t \in queue : t \in Tasks /\ Collecting /\ ~ broken /\ ~ Computing(t)
    BY DEF StageInv, RunnerTyped, PoolEmpty, OneFuture, Waiting
  <2>2. \A c \in handed' : c \in handed \/ c \notin running \cup landed
    BY <1>3, <2>1 DEF DropQueue, Computing
  <2>. QED
    BY <1>3, <2>2 DEF Apart
<1>4. CASE PoolBreaks \/ Interrupt
  BY <1>4, <1>3 DEF PoolBreaks, Interrupt
<1>5. CASE Kill
  <2>1. CASE groupKill
    BY <1>5, <2>1 DEF Kill, Apart
  <2>2. CASE ~ groupKill
    BY <1>5, <2>2, <1>3 DEF Kill
  <2>. QED
    BY <2>1, <2>2
<1>6. ASSUME NEW c \in Calls,
             \/ TakeHanded(c[1], c[2]) \/ Publish(c[1], c[2]) \/ Duplicate(c[1], c[2])
             \/ Return(c[1], c[2]) \/ CallFails(c[1], c[2]) \/ LeftoverDies(c)
      PROVE  Apart'
  BY <1>6 DEF TakeHanded, Publish, Duplicate, Return, CallFails, LeftoverDies, Apart
<1>. QED
  BY <1>1, <1>2, <1>4, <1>5, <1>6 DEF Next, ParentStep, WorkerStep, FaultStep, vars, pool,
     Launch, Scan, WriteStart, EventStart, Collect, WriteTask, EventTask, Finish, EventEnd,
     WriteInterrupted, EventInterrupted, Rerun, Damage

LEMMA StageInvariant ==
    Spec => [](StageInv /\ Apart)
<1>1. StageInv /\ Apart /\ [Next]_vars => (StageInv /\ Apart)'
  BY StageStep, ApartStep
<1>2. Init => StageInv /\ Apart
  BY StageInit DEF Init, Apart
<1>. QED
  BY <1>1, <1>2, PTL DEF Spec

\* What state.json says is true whoever is killed when: finished means
\* computed, a complete stage has nothing outstanding, a failed one a failure.
THEOREM StateIsTrue ==
    Spec => []StateTruthful
<1>1. StageInv => StateTruthful
  BY DEF StageInv
<1>. QED
  BY <1>1, StageInvariant, PTL

\* Whoever dies when, a launch that collects has each pending task in exactly
\* one of the queue, the pool and the finished futures.
THEOREM FuturesKept ==
    Spec => []NoFutureLost
<1>1. ASSUME StageInv, main = "collect", NEW t \in Tasks
      PROVE  LET places == {"queue" : x \in queue \cap {t}}
                               \cup {"pool" : x \in InFlight \cap {t}}
                               \cup {<<"done", r>> : r \in {r \in Final : <<t, r>> \in results}}
             IN  Cardinality(places) = IF records[t] = "pending" THEN 1 ELSE 0
  <2>. DEFINE q == {"queue" : x \in queue \cap {t}}
              p == {"pool" : x \in InFlight \cap {t}}
              d == {<<"done", r>> : r \in {r \in Final : <<t, r>> \in results}}
              places == q \cup p \cup d
  <2>1. /\ q = IF Waiting(t) THEN {"queue"} ELSE {}
        /\ p = IF Computing(t) THEN {"pool"} ELSE {}
    BY <1>1 DEF Waiting, Computing, InFlight, Busy
  <2>2. /\ ~ Finished(t) => d = {}
        /\ Finished(t) => \E r \in Final : d = {<<"done", r>>}
    BY <1>1 DEF Finished, StageInv, OneFuture, Collecting
  <2>3. CASE records[t] = "pending"
    <3>1. \E x : places = {x}
      BY <1>1, <2>1, <2>2, <2>3 DEF StageInv, OneFuture, Collecting
    <3>. QED
      BY <2>3, <3>1, FS_Singleton
  <2>4. CASE records[t] # "pending"
    <3>1. places = {}
      BY <1>1, <2>1, <2>2, <2>4 DEF StageInv, OneFuture, Collecting
    <3>. QED
      BY <2>4, <3>1, FS_EmptySet
  <2>. QED
    BY <2>3, <2>4
<1>2. StageInv => NoFutureLost
  BY <1>1 DEF NoFutureLost
<1>. QED
  BY <1>2, StageInvariant, PTL

-----------------------------------------------------------------------------
(* A launch is the stage that its caller was promised.                     *)

\* Under a kill that ends the group, what is still to be computed is missing,
\* unless its own call has just published it.
PendingIsNeeded ==
    groupKill /\ InRun =>
        \A t \in Tasks :
            records[t] = "pending" /\ ~ Finished(t) /\ t \notin Made => status[t] # "valid"

\* Nothing is known of a task before its object has been verified.
Unscanned == main = "scan" => \A t \in Tasks : t \in toScan => records[t] = "none"

\* A call of a broken pool works for a task that has failed.
GivenUp ==
    InRun /\ broken =>
        \A t \in Tasks : <<launch, t>> \in running \cup landed \cup handed => t \in Failed

RunInv == WorkInv /\ StageInv /\ Apart /\ PendingIsNeeded /\ Unscanned /\ GivenUp

LEMMA RunInit == Init => RunInv
BY WorkInit, StageInit DEF Init, RunInv, Apart, PendingIsNeeded, Unscanned, GivenUp, InRun

LEMMA PendingStep ==
    ASSUME RunInv, [Next]_vars
    PROVE  PendingIsNeeded'
<1>. SUFFICES ASSUME groupKill', InRun', NEW t \in Tasks, records'[t] = "pending", ~ Finished(t)',
                     t \notin Made'
              PROVE  status'[t] # "valid"
  BY DEF PendingIsNeeded
<1>. USE DEF memory, disk, store, pool
<1>a. /\ records \in [Tasks -> {"none", "pending"} \cup Final]
      /\ status \in [Tasks -> {"absent", "valid", "damaged"}]
      /\ groupKill /\ InRun /\ records[t] = "pending" /\ ~ Finished(t) /\ t \notin Made
            => status[t] # "valid"
      /\ groupKill' = groupKill
  <2>1. groupKill' = groupKill
    BY DEF Next, ParentStep, WorkerStep, FaultStep, vars, Launch, Scan, WriteStart, EventStart,
       Collect, WriteTask, EventTask, Finish, EventEnd, WriteInterrupted, EventInterrupted,
       Take, TakeHanded, Publish, Duplicate, Return, CallFails, LeftoverDies, PoolBreaks, Interrupt, Kill, Rerun, Damage
  <2>. QED
    BY <2>1 DEF RunInv, PendingIsNeeded, StageInv, RunnerTyped
<1>1. CASE Launch
  BY <1>1 DEF Launch
<1>2. ASSUME NEW u \in Tasks, Scan(u) PROVE status'[t] # "valid"
  <2>1. /\ UNCHANGED <<main, launch, results, landed, broken, status>>
        /\ records' = [records EXCEPT ![u] = IF status[u] = "valid" THEN "cached" ELSE "pending"]
    BY <1>2 DEF Scan, Record
  <2>2. Made' = Made /\ Finished(t)' = Finished(t) /\ InRun' = InRun
    BY <2>1 DEF Made, Finished, InRun
  <2>3. CASE t = u
    BY <1>a, <2>1, <2>3
  <2>4. CASE t # u
    BY <1>a, <2>1, <2>2, <2>4
  <2>. QED
    BY <2>3, <2>4
<1>3. CASE WriteStart \/ EventStart \/ WriteTask \/ EventTask
  <2>1. UNCHANGED <<launch, records, results, landed, broken, status>> /\ InRun
    BY <1>3 DEF WriteStart, EventStart, WriteTask, EventTask, InRun
  <2>2. Made' = Made /\ Finished(t)' = Finished(t)
    BY <2>1 DEF Made, Finished
  <2>. QED
    BY <1>a, <2>1, <2>2
<1>4. CASE Finish \/ EventEnd \/ WriteInterrupted \/ EventInterrupted \/ Interrupt \/ Kill \/ Rerun
  BY <1>4 DEF Finish, EventEnd, WriteInterrupted, EventInterrupted, Interrupt, Kill, Rerun, InRun
<1>5. ASSUME NEW u \in Tasks, NEW r \in Final, Collect(u, r) PROVE status'[t] # "valid"
  <2>1. t # u
    BY <1>5, <1>a DEF Collect, Record, Final
  <2>. QED
    BY <1>5, <1>a, <2>1 DEF Collect, Record, Finished, InRun, Made
<1>6. ASSUME NEW u \in Tasks, Take(u) PROVE status'[t] # "valid"
  BY <1>6, <1>a DEF Take, Result, Finished, InRun, Made
<1>7. ASSUME NEW c \in Calls, c \in running \cup landed, Result(c[1], c[2], "failed")
                                \/ Result(c[1], c[2], "completed"),
             UNCHANGED <<main, launch, records, broken, groupKill, status>>,
             \A u \in Tasks : u # c[2] => (u \in Made <=> u \in Made')
      PROVE  status'[t] # "valid"
  <2>1. c[1] = launch
    BY <1>7, <1>a DEF RunInv, WorkInv, OneLaunch
  <2>2. CASE broken
    <3>1. Collecting /\ queue = {} /\ ~ Computing(t)
      BY <2>1, <2>2, <1>7 DEF RunInv, StageInv, PoolEmpty, PoolIdle, Computing, Collecting, InRun
    <3>2. records[t] = "pending" /\ ~ Finished(t)
      BY <1>7, <2>2 DEF Result, Finished
    <3>. QED
      BY <3>1, <3>2 DEF RunInv, StageInv, OneFuture, Waiting
  <2>3. CASE ~ broken
    <3>1. PICK r \in Final : results' = results \cup {<<c[2], r>>}
      BY <1>7, <2>1, <2>3 DEF Result, InRun, Final
    <3>2. t # c[2] /\ (Finished(t) => Finished(t)')
      BY <3>1 DEF Finished
    <3>. QED
      BY <1>7, <1>a, <3>2 DEF InRun
  <2>. QED
    BY <2>2, <2>3
<1>8. ASSUME NEW c \in Calls, Duplicate(c[1], c[2]) \/ Return(c[1], c[2]) \/ CallFails(c[1], c[2])
      PROVE  status'[t] # "valid"
  <2>1. /\ c = <<c[1], c[2]>> /\ c \in running \cup landed
        /\ UNCHANGED <<main, launch, records, broken, groupKill, status>>
        /\ Result(c[1], c[2], "failed") \/ Result(c[1], c[2], "completed")
        /\ landed' = landed \/ landed' = landed \ {c}
    <3>1. c = <<c[1], c[2]>>
      BY DEF Calls
    <3>2. CASE Duplicate(c[1], c[2])
      BY <3>1, <3>2 DEF Duplicate
    <3>3. CASE Return(c[1], c[2])
      BY <3>1, <3>3 DEF Return
    <3>4. CASE CallFails(c[1], c[2])
      BY <3>1, <3>4 DEF CallFails
    <3>. QED
      BY <1>8, <3>2, <3>3, <3>4
  <2>2. \A u \in Tasks : u # c[2] => (u \in Made <=> u \in Made')
    BY <2>1 DEF Made, InRun
  <2>. QED
    BY <1>7, <2>1, <2>2
<1>9. ASSUME NEW c \in Calls, Publish(c[1], c[2]) PROVE status'[t] # "valid"
  <2>1. /\ c \in running /\ c[1] = launch /\ c = <<c[1], c[2]>> /\ c[2] \in Tasks
        /\ landed' = landed \cup {c} /\ status' = [status EXCEPT ![c[2]] = "valid"]
        /\ UNCHANGED <<main, launch, records, results, broken, queue>>
    BY <1>9, <1>a DEF Publish, Calls, RunInv, WorkInv, OneLaunch
  <2>2. CASE broken
    <3>1. Collecting /\ queue = {} /\ ~ Computing(t)
      BY <2>1, <2>2 DEF RunInv, StageInv, PoolEmpty, PoolIdle, Computing, Collecting, InRun
    <3>. QED
      BY <2>1, <3>1 DEF RunInv, StageInv, OneFuture, Waiting, Finished
  <2>3. CASE ~ broken
    <3>1. t # c[2] /\ ~ Finished(t) /\ t \notin Made
      BY <2>1, <2>3 DEF Made, InRun, Finished
    <3>. QED
      BY <1>a, <2>1, <3>1 DEF InRun
  <2>. QED
    BY <2>2, <2>3
<1>12. ASSUME NEW c \in Calls, TakeHanded(c[1], c[2]) \/ LeftoverDies(c)
       PROVE  status'[t] # "valid"
  <2>1. /\ UNCHANGED <<main, launch, records, results, broken, status>>
        /\ c[1] = launch /\ ~ broken /\ Alive => landed' = landed
        /\ landed' = landed \/ landed' = landed \ {c}
    BY <1>12 DEF TakeHanded, LeftoverDies
  <2>2. \A u \in Tasks : u \in Made <=> u \in Made'
    BY <2>1 DEF Made, InRun, Alive
  <2>. QED
    BY <1>a, <2>1, <2>2 DEF Finished, InRun
<1>13. CASE PoolBreaks
  <2>1. /\ main \in {"collect", "stateTask", "eventTask"}
        /\ records' = records /\ "failed" \in Final
        /\ results' = results \cup {<<u, "failed">> : u \in queue \cup InFlight}
    BY <1>13 DEF PoolBreaks, Final
  <2>2. t \in queue \/ t \in InFlight \/ Finished(t)
    BY <2>1 DEF RunInv, StageInv, OneFuture, Collecting, Waiting, Computing, InFlight, Busy
  <2>. QED
    BY <2>1, <2>2 DEF Finished
<1>10. ASSUME NEW u \in Tasks, Damage(u) PROVE status'[t] # "valid"
  BY <1>10, <1>a DEF Damage, Store!Decay, Store!Set, Finished, InRun, Made
<1>11. CASE UNCHANGED vars
  <2>1. UNCHANGED <<main, launch, records, results, landed, broken, status>>
    BY <1>11 DEF vars
  <2>. QED
    BY <2>1, <1>a DEF Finished, InRun, Made
<1>. QED
  BY <1>1, <1>2, <1>3, <1>4, <1>5, <1>6, <1>7, <1>8, <1>9, <1>10, <1>11, <1>12, <1>13
     DEF Next, ParentStep, WorkerStep, FaultStep

LEMMA UnscannedStep ==
    ASSUME RunInv, [Next]_vars
    PROVE  Unscanned'
<1>. USE DEF memory, disk, store
<1>1. CASE Launch
  BY <1>1 DEF Launch, Unscanned
<1>2. ASSUME NEW t \in Tasks, Scan(t) PROVE Unscanned'
  BY <1>2 DEF Scan, Record, Unscanned, RunInv, StageInv, RunnerTyped
<1>3. CASE main' # "scan"
  BY <1>3 DEF Unscanned
<1>4. CASE main' = main /\ toScan' = toScan /\ records' = records
  BY <1>4 DEF RunInv, Unscanned
<1>. QED
  BY <1>1, <1>2, <1>3, <1>4 DEF Next, ParentStep, WorkerStep, FaultStep, vars, WriteStart,
     EventStart, Collect, WriteTask, EventTask, Finish, EventEnd, WriteInterrupted,
     EventInterrupted, Take, TakeHanded, Publish, Duplicate, Return, CallFails, LeftoverDies, PoolBreaks, Interrupt, Kill,
     Rerun, Damage

(* Every step of a launch is one of the stage or invisible to its caller.  *)

LEMMA LaunchBegins ==
    ASSUME RunInv, Launch
    PROVE  Stage!Begin(Tasks)
<1>1. /\ main \in {"down", "returned"} /\ main' = "scan" /\ toScan' = Tasks
      /\ records' = [t \in Tasks |-> "none"] /\ results' = {}
      /\ launch' = launch + 1
      /\ UNCHANGED <<status, landed, groupKill>>
  BY DEF Launch, store
<1>2. ~ InRun /\ InRun' /\ Left' = Tasks /\ Failed' = {}
  BY <1>1 DEF InRun, Left, Failed
<1>3. Made' = {}
  BY <1>1 DEF Made, RunInv, StageInv, RunnerTyped, Calls
<1>. QED
  BY <1>1, <1>2, <1>3 DEF Stage!Begin

LEMMA ScanIsStage ==
    ASSUME RunInv, NEW t \in Tasks, Scan(t)
    PROVE  Stage!Succeed(t) \/ UNCHANGED Stage!vars
<1>1. /\ main = "scan" /\ t \in toScan /\ toScan' = toScan \ {t}
      /\ records' = [records EXCEPT ![t] = IF status[t] = "valid" THEN "cached" ELSE "pending"]
      /\ UNCHANGED <<main, launch, results, pool, status, groupKill>>
  BY DEF Scan, Record, store
<1>2. results = {} /\ records[t] = "none" /\ records \in [Tasks -> {"none", "pending"} \cup Final]
  BY <1>1 DEF RunInv, Unscanned, StageInv, PoolEmpty, Collecting, RunnerTyped
<1>3. status \in [Tasks -> {"absent", "valid", "damaged"}]
  BY DEF RunInv, StageInv, RunnerTyped
<1>4. InRun /\ InRun' /\ t \in Left /\ Failed' = Failed
  BY <1>1, <1>2 DEF InRun, Left, Failed
<1>5. Left' = IF status[t] = "valid" THEN Left \ {t} ELSE Left
  BY <1>1, <1>2 DEF Left, InRun, Finished
<1>6. Made = {} /\ Made' = {}
  BY <1>1 DEF Made, RunInv, StageInv, PoolEmpty, PoolIdle, pool
<1>. QED
  BY <1>1, <1>3, <1>4, <1>5, <1>6 DEF Stage!Succeed, Stage!Become, Stage!vars

LEMMA StartIsStage ==
    ASSUME RunInv, WriteStart \/ EventStart
    PROVE  Stage!Close \/ UNCHANGED Stage!vars
<1>1. CASE WriteStart
  <2>1. /\ main = "scan" /\ main' = "eventStart" /\ toScan = {}
        /\ UNCHANGED <<launch, records, results, pool, status, groupKill>>
    BY <1>1 DEF WriteStart, memory, store
  <2>2. UNCHANGED <<InRun, Left, Failed, Made>>
    BY <2>1 DEF InRun, Left, Failed, Made, Finished, pool
  <2>. QED
    BY <2>1, <2>2 DEF Stage!vars
<1>2. CASE EventStart
  <2>1. /\ main = "eventStart" /\ queue' = {t \in Tasks : records[t] = "pending"}
        /\ main' = IF queue' = {} THEN "returned" ELSE "collect"
        /\ UNCHANGED <<launch, records, results, pool, status, groupKill>>
    BY <1>2 DEF EventStart, store
  <2>2. results = {} /\ Made = {} /\ Made' = {}
    BY <2>1 DEF RunInv, StageInv, PoolEmpty, PoolIdle, Collecting, Made, pool
  <2>3. InRun /\ Failed' = Failed
    BY <2>1, <2>2 DEF InRun, Failed
  <2>4. CASE queue' = {}
    <3>1. ~ InRun' /\ Left = {} /\ Left' = {}
      BY <2>1, <2>4 DEF InRun, Left
    <3>. QED
      BY <2>1, <2>2, <2>3, <3>1 DEF Stage!Close
  <2>5. CASE queue' # {}
    <3>1. InRun' /\ Left' = Left
      BY <2>1, <2>5 DEF InRun, Left, Finished
    <3>. QED
      BY <2>1, <2>2, <2>3, <3>1 DEF Stage!vars
  <2>. QED
    BY <2>4, <2>5
<1>. QED
  BY <1>1, <1>2

\* A result has ended its task before it is recorded.
LEMMA CollectIsUnseen ==
    ASSUME RunInv, NEW t \in Tasks, NEW r \in Final, Collect(t, r)
    PROVE  UNCHANGED Stage!vars
<1>1. /\ main = "collect" /\ main' = "stateTask" /\ <<t, r>> \in results
      /\ results' = results \ {<<t, r>>}
      /\ records' = [records EXCEPT ![t] = r]
      /\ UNCHANGED <<launch, pool, status, groupKill>>
  BY DEF Collect, Record, store
<1>2. /\ records[t] = "pending" /\ records \in [Tasks -> {"none", "pending"} \cup Final]
      /\ \A q \in Final : <<t, q>> \in results => q = r
  BY <1>1 DEF RunInv, StageInv, OneFuture, Collecting, Finished, RunnerTyped
<1>3. r # "pending" /\ "failed" \in Final
  BY DEF Final
<1>4. InRun /\ InRun'
  BY <1>1 DEF InRun
<1>5. \A u \in Tasks : u # t => records'[u] = records[u] /\ (Finished(u)' <=> Finished(u))
  BY <1>1, <1>2 DEF Finished
<1>6. Left' = Left
  <2>1. t \notin Left /\ t \notin Left'
    BY <1>1, <1>2, <1>3 DEF Left, Finished
  <2>2. \A u \in Tasks : u # t => (u \in Left <=> u \in Left')
    BY <1>1, <1>4, <1>5 DEF Left
  <2>. QED
    BY <2>1, <2>2 DEF Left
<1>7. Failed' = Failed
  <2>1. t \in Failed <=> t \in Failed'
    BY <1>1, <1>2, <1>3, <1>4 DEF Failed
  <2>2. \A u \in Tasks : u # t => (u \in Failed <=> u \in Failed')
    BY <1>1, <1>4, <1>5 DEF Failed
  <2>. QED
    BY <2>1, <2>2 DEF Failed
<1>8. Made' = Made
  BY <1>1, <1>4 DEF Made, pool
<1>. QED
  BY <1>1, <1>4, <1>6, <1>7, <1>8 DEF Stage!vars

LEMMA CheckpointsAreUnseen ==
    ASSUME RunInv, WriteTask \/ EventTask \/ EventEnd \/ WriteInterrupted \/ EventInterrupted
    PROVE  UNCHANGED Stage!vars
<1>1. /\ InRun' = InRun /\ main # "scan" /\ main' # "scan"
      /\ main \in {"eventEnd", "returned"} <=> main' \in {"eventEnd", "returned"}
      /\ UNCHANGED <<launch, records, results, pool, status, groupKill>>
  BY DEF WriteTask, EventTask, EventEnd, WriteInterrupted, EventInterrupted, InRun, memory, store
<1>2. Left' = Left /\ Failed' = Failed /\ Made' = Made
  BY <1>1 DEF Left, Failed, Made, Finished, pool
<1>. QED
  BY <1>1, <1>2 DEF Stage!vars

LEMMA FinishCloses ==
    ASSUME RunInv, Finish
    PROVE  Stage!Close
<1>1. /\ main = "collect" /\ main' = "eventEnd"
      /\ queue = {} /\ PoolIdle /\ results = {}
      /\ UNCHANGED <<records, results, status, groupKill>>
      /\ UNCHANGED <<launch, landed>>
  BY DEF Finish, memory, store, pool
<1>2. \A t \in Tasks : records[t] # "pending"
  <2>1. \A t \in Tasks : ~ Waiting(t) /\ ~ Computing(t) /\ ~ Finished(t)
    BY <1>1 DEF Waiting, Computing, Finished, PoolIdle
  <2>. QED
    BY <1>1, <2>1 DEF RunInv, StageInv, OneFuture, Collecting
<1>3. InRun /\ ~ InRun' /\ Left = {} /\ Left' = {} /\ Failed' = Failed
  BY <1>1, <1>2 DEF InRun, Left, Failed
<1>4. Made = {} /\ Made' = {}
  BY <1>1, <1>3 DEF Made, PoolIdle
<1>. QED
  BY <1>1, <1>3, <1>4 DEF Stage!Close

LEMMA GivingUpAbandons ==
    ASSUME RunInv, Interrupt \/ Kill \/ Rerun
    PROVE  Stage!Abandon
<1>1. main' \in {"interrupted", "down"} /\ UNCHANGED <<status, groupKill>>
  BY DEF Interrupt, Kill, Rerun, store
<1>2. ~ InRun' /\ Left' = {} /\ Failed' = {} /\ Made' = {}
  BY <1>1 DEF InRun, Left, Failed, Made
<1>. QED
  BY <1>1, <1>2 DEF Stage!Abandon

\* Futures that finish end their tasks.
LEMMA FuturesEnd ==
    ASSUME NEW S \in SUBSET Tasks, NEW r \in Final, Collecting,
           \A t \in S : records[t] = "pending" /\ ~ Finished(t),
           results' = results \cup {<<t, r>> : t \in S},
           UNCHANGED <<main, records>>
    PROVE  /\ InRun /\ InRun'
           /\ S \subseteq Left /\ Left' = Left \ S
           /\ Failed' = IF r = "failed" THEN Failed \cup S ELSE Failed
<1>1. InRun /\ InRun' /\ main # "scan" /\ main' # "scan"
  BY DEF Collecting, InRun
<1>2. \A t \in Tasks : Finished(t)' <=> (Finished(t) \/ t \in S)
  BY DEF Finished
<1>3. S \subseteq Left /\ Left' = Left \ S
  BY <1>1, <1>2 DEF Left
<1>4. \A t \in Tasks : <<t, "failed">> \in results' <=>
                           <<t, "failed">> \in results \/ (r = "failed" /\ t \in S)
  OBVIOUS
<1>5. Failed' = IF r = "failed" THEN Failed \cup S ELSE Failed
  <2>1. \A t \in Tasks : t \in Failed' <=> t \in Failed \/ (r = "failed" /\ t \in S)
    BY <1>1, <1>4 DEF Failed
  <2>2. Failed \subseteq Tasks /\ Failed' \subseteq Tasks
    BY DEF Failed
  <2>. QED
    BY <2>1, <2>2
<1>. QED
  BY <1>1, <1>3, <1>5

LEMMA FutureEnds ==
    ASSUME NEW t \in Tasks, NEW r \in Final, Collecting,
           records[t] = "pending", ~ Finished(t),
           results' = results \cup {<<t, r>>},
           UNCHANGED <<main, records>>
    PROVE  /\ InRun /\ InRun'
           /\ t \in Left /\ Left' = Left \ {t}
           /\ Failed' = IF r = "failed" THEN Failed \cup {t} ELSE Failed
<1>. DEFINE S == {t}
<1>1. S \in SUBSET Tasks /\ \A u \in S : records[u] = "pending" /\ ~ Finished(u)
  OBVIOUS
<1>2. results' = results \cup {<<u, r>> : u \in S}
  <2>1. {<<u, r>> : u \in S} = {<<t, r>>}
    OBVIOUS
  <2>. QED
    BY <2>1
<1>. HIDE DEF S
<1>3. /\ InRun /\ InRun' /\ S \subseteq Left /\ Left' = Left \ S
      /\ Failed' = IF r = "failed" THEN Failed \cup S ELSE Failed
  BY <1>1, <1>2, FuturesEnd
<1>. QED
  BY <1>3 DEF S

LEMMA TakeIsStage ==
    ASSUME RunInv, NEW t \in Tasks, Take(t)
    PROVE  Stage!Succeed(t) \/ UNCHANGED Stage!vars
<1>1. /\ t \in queue /\ launch \in Nat
      /\ UNCHANGED <<main, launch, toScan, records, landed, broken, status, groupKill>>
  BY DEF Take, store, RunInv, StageInv, RunnerTyped
<1>2. Collecting /\ ~ broken /\ records[t] = "pending" /\ ~ Finished(t) /\ ~ Computing(t)
  BY <1>1 DEF RunInv, StageInv, PoolEmpty, OneFuture, Waiting
<1>5. Made' = Made /\ t \notin Made
  BY <1>1, <1>2 DEF Made, InRun, Computing
<1>3. CASE status[t] = "valid"
  <2>1. results' = results \cup {<<t, "cached">>}
    BY <1>2, <1>3 DEF Take, Result, Collecting
  <2>2. "cached" \in Final
    BY DEF Final
  <2>3. InRun /\ InRun' /\ t \in Left /\ Left' = Left \ {t} /\ Failed' = Failed
    BY <1>1, <1>2, <2>1, <2>2, FutureEnds
  <2>4. status' = [status EXCEPT ![t] = "valid"]
    BY <1>1, <1>3 DEF RunInv, StageInv, RunnerTyped
  <2>. QED
    BY <1>1, <1>5, <2>3, <2>4 DEF Stage!Succeed, Stage!Become
<1>4. CASE status[t] # "valid"
  <2>1. results' = results
    BY <1>4 DEF Take
  <2>2. UNCHANGED <<InRun, Left, Failed>>
    BY <1>1, <2>1 DEF InRun, Left, Failed, Finished
  <2>. QED
    BY <1>1, <1>5, <2>2 DEF Stage!vars
<1>. QED
  BY <1>3, <1>4

\* A call whose future is awaited: its task is one of those left.
LEMMA AwaitedIsLeft ==
    ASSUME RunInv, NEW c \in Calls, c \in running \cup landed, Awaited(c)
    PROVE  /\ InRun /\ c[2] \in Left
           /\ records[c[2]] = "pending" /\ ~ Finished(c[2])
           /\ c[2] \in Made <=> c \in landed
<1>1. c = <<c[1], c[2]>> /\ c[2] \in Tasks
  BY DEF Calls
<1>2. records[c[2]] = "pending" /\ ~ Finished(c[2])
  BY <1>1 DEF RunInv, StageInv, OneFuture, Computing, Awaited
<1>. QED
  BY <1>1, <1>2 DEF InRun, Left, Made, Awaited, Collecting

\* One that nobody awaits, under a kill that ends the group, was given up with
\* its launch or with its pool.
LEMMA GivenUpHasFailed ==
    ASSUME RunInv, NEW c \in Calls, c \in running \cup landed, ~ Awaited(c), groupKill, InRun
    PROVE  c[2] \in Failed
<1>1. c = <<c[1], c[2]>> /\ c[2] \in Tasks /\ c[1] = launch
  BY DEF Calls, RunInv, WorkInv, OneLaunch
<1>2. broken
  BY <1>1 DEF RunInv, StageInv, PoolEmpty, PoolIdle, InRun, Collecting, Awaited
<1>. QED
  BY <1>1, <1>2 DEF RunInv, GivenUp

LEMMA PublishIsStage ==
    ASSUME RunInv, NEW c \in Calls, Publish(c[1], c[2])
    PROVE  Stage!Publish(c[2]) \/ Stage!Appear(c[2])
<1>1. /\ c \in running /\ c = <<c[1], c[2]>> /\ c[2] \in Tasks
      /\ landed' = landed \cup {c}
      /\ status' = [status EXCEPT ![c[2]] = "valid"]
      /\ UNCHANGED <<main, launch, toScan, records, results, broken, groupKill>>
  BY DEF Publish, Calls, memory
<1>2. UNCHANGED <<InRun, Left, Failed>>
  BY <1>1 DEF InRun, Left, Failed, Finished
<1>3. CASE Awaited(c)
  <2>1. InRun /\ c[2] \in Left /\ c[2] \notin Made
    BY <1>1, <1>3, AwaitedIsLeft DEF RunInv, Apart
  <2>2. Made' = Made \cup {c[2]}
    BY <1>1, <1>2, <1>3, <2>1 DEF Made, Awaited
  <2>. QED
    BY <1>1, <1>2, <2>1, <2>2 DEF Stage!Publish, Stage!Become
<1>4. CASE ~ Awaited(c)
  <2>1. groupKill => ~ InRun \/ c[2] \in Failed
    BY <1>1, <1>4, GivenUpHasFailed
  <2>2. Made' = Made
    <3>1. InRun /\ ~ broken => c[1] # launch
      BY <1>1, <1>4 DEF Awaited, InRun, Collecting, RunInv, StageInv, PoolEmpty, PoolIdle
    <3>. QED
      BY <1>1, <1>2, <3>1 DEF Made
  <2>. QED
    BY <1>1, <1>2, <2>1, <2>2 DEF Stage!Appear, Stage!Become
<1>. QED
  BY <1>3, <1>4

\* What is left of the stage when a call ends.
LEMMA CallEndsTask ==
    ASSUME RunInv, NEW c \in Calls, c \in running \cup landed, NEW r \in Final,
           Result(c[1], c[2], r),
           landed' = landed \ {c},
           UNCHANGED <<main, launch, toScan, records, broken>>
    PROVE  /\ Made' = Made \ {c[2]} \/ Made' = Made
           /\ Awaited(c) => /\ InRun /\ InRun'
                            /\ c[2] \in Left /\ Left' = Left \ {c[2]} /\ Made' = Made \ {c[2]}
                            /\ Failed' = IF r = "failed" THEN Failed \cup {c[2]} ELSE Failed
           /\ ~ Awaited(c) => UNCHANGED <<InRun, Left, Failed, Made>>
<1>1. c = <<c[1], c[2]>> /\ c[2] \in Tasks
  BY DEF Calls
<1>2. /\ Awaited(c) => results' = results \cup {<<c[2], r>>}
      /\ ~ Awaited(c) => results' = results
  BY ResultKept DEF RunInv
<1>3. CASE Awaited(c)
  <2>1. Collecting /\ records[c[2]] = "pending" /\ ~ Finished(c[2])
    BY <1>3, AwaitedIsLeft DEF Awaited
  <2>2. /\ InRun /\ InRun' /\ c[2] \in Left /\ Left' = Left \ {c[2]}
        /\ Failed' = IF r = "failed" THEN Failed \cup {c[2]} ELSE Failed
    BY <1>1, <1>2, <1>3, <2>1, FutureEnds
  <2>3. Made' = Made \ {c[2]}
    BY <1>1, <1>3, <2>2 DEF Made, Awaited
  <2>. QED
    BY <1>3, <2>2, <2>3
<1>4. CASE ~ Awaited(c)
  <2>1. UNCHANGED <<InRun, Left, Failed>>
    BY <1>2, <1>4 DEF InRun, Left, Failed, Finished
  <2>2. InRun /\ ~ broken => c[1] # launch
    BY <1>4 DEF Awaited, InRun, Collecting, RunInv, StageInv, PoolEmpty, PoolIdle
  <2>3. Made' = Made
    BY <1>1, <2>1, <2>2 DEF Made
  <2>. QED
    BY <1>4, <2>1, <2>3
<1>. QED
  BY <1>3, <1>4

LEMMA CallEndIsStage ==
    ASSUME RunInv, NEW c \in Calls,
           Duplicate(c[1], c[2]) \/ Return(c[1], c[2]) \/ CallFails(c[1], c[2])
    PROVE  \/ Stage!Succeed(c[2]) \/ Stage!Fail({c[2]}, {})
           \/ UNCHANGED Stage!vars
<1>1. /\ c = <<c[1], c[2]>> /\ c[2] \in Tasks /\ c \in running \cup landed
      /\ landed' = landed \ {c}
      /\ UNCHANGED <<main, launch, toScan, records, broken, status, groupKill>>
  <2>1. c = <<c[1], c[2]>> /\ c[2] \in Tasks
    BY DEF Calls
  <2>2. CASE Duplicate(c[1], c[2])
    BY <2>1, <2>2 DEF Duplicate, RunInv, Apart
  <2>3. CASE Return(c[1], c[2]) \/ CallFails(c[1], c[2])
    BY <2>1, <2>3 DEF Return, CallFails, store
  <2>. QED
    BY <2>1, <2>2, <2>3
<1>2. \/ Result(c[1], c[2], "completed") /\ status[c[2]] = "valid"
      \/ Result(c[1], c[2], "failed") /\ (groupKill => status[c[2]] # "valid" \/ c \in landed)
  <2>1. CASE Duplicate(c[1], c[2])
    BY <2>1 DEF Duplicate
  <2>2. CASE Return(c[1], c[2])
    BY <2>2 DEF Return
  <2>3. CASE CallFails(c[1], c[2])
    BY <1>1, <2>3 DEF CallFails, RunInv, WorkInv, WorkIsNeeded
  <2>. QED
    BY <2>1, <2>2, <2>3
<1>3. "completed" \in Final /\ "failed" \in Final
  BY DEF Final
<1>4. CASE ~ Awaited(c)
  <2>1. UNCHANGED <<InRun, Left, Failed, Made>>
    BY <1>1, <1>2, <1>3, <1>4, CallEndsTask
  <2>. QED
    BY <1>1, <2>1 DEF Stage!vars
<1>5. CASE Awaited(c) /\ Result(c[1], c[2], "completed") /\ status[c[2]] = "valid"
  <2>1. /\ InRun /\ InRun' /\ c[2] \in Left /\ Left' = Left \ {c[2]}
        /\ Made' = Made \ {c[2]} /\ Failed' = Failed
    BY <1>1, <1>3, <1>5, CallEndsTask
  <2>2. status' = [status EXCEPT ![c[2]] = "valid"]
    BY <1>1, <1>5 DEF RunInv, StageInv, RunnerTyped
  <2>. QED
    BY <1>1, <2>1, <2>2 DEF Stage!Succeed, Stage!Become
<1>6. CASE /\ Awaited(c) /\ Result(c[1], c[2], "failed")
           /\ groupKill => status[c[2]] # "valid" \/ c \in landed
  <2>1. /\ InRun /\ InRun' /\ c[2] \in Left /\ Left' = Left \ {c[2]}
        /\ Made' = Made \ {c[2]} /\ Failed' = Failed \cup {c[2]}
    BY <1>1, <1>3, <1>6, CallEndsTask
  <2>2. groupKill => \A t \in {c[2]} \ Made : status[t] # "valid"
    BY <1>1, <1>6, AwaitedIsLeft
  <2>3. status' = [t \in Tasks |-> IF t \in {} THEN "valid" ELSE status[t]]
    BY <1>1 DEF RunInv, StageInv, RunnerTyped
  <2>. QED
    BY <1>1, <2>1, <2>2, <2>3 DEF Stage!Fail
<1>. QED
  BY <1>2, <1>4, <1>5, <1>6

LEMMA BreakFailsTheRest ==
    ASSUME RunInv, PoolBreaks
    PROVE  Stage!Fail(queue \cup InFlight, {})
<1>1. /\ Collecting /\ "failed" \in Final
      /\ results' = results \cup {<<t, "failed">> : t \in queue \cup InFlight}
      /\ broken' = TRUE /\ InFlight # {}
      /\ UNCHANGED <<main, launch, toScan, records, landed, status, groupKill>>
  BY DEF PoolBreaks, Collecting, Final, store
<1>2. queue \cup InFlight \in SUBSET Tasks /\ ~ broken
  BY <1>1 DEF InFlight, Busy, RunInv, StageInv, RunnerTyped
<1>3. \A t \in queue \cup InFlight : records[t] = "pending" /\ ~ Finished(t)
  BY <1>1, <1>2 DEF RunInv, StageInv, OneFuture, Waiting, Computing, InFlight, Busy
<1>4. /\ InRun /\ InRun' /\ queue \cup InFlight \subseteq Left
      /\ Left' = Left \ (queue \cup InFlight) /\ Failed' = Failed \cup (queue \cup InFlight)
  BY <1>1, <1>2, <1>3, FuturesEnd
<1>5. groupKill => \A t \in (queue \cup InFlight) \ Made : status[t] # "valid"
  BY <1>2, <1>3, <1>4 DEF RunInv, PendingIsNeeded
<1>6. Made' = {} /\ Made \subseteq queue \cup InFlight
  BY <1>1, <1>2 DEF Made, InFlight, Busy
<1>7. status' = [t \in Tasks |-> IF t \in {} THEN "valid" ELSE status[t]]
  BY <1>1 DEF RunInv, StageInv, RunnerTyped
<1>. QED
  BY <1>1, <1>4, <1>5, <1>6, <1>7 DEF Stage!Fail

LEMMA OthersAreUnseen ==
    ASSUME RunInv, NEW c \in Calls, LeftoverDies(c) \/ TakeHanded(c[1], c[2])
    PROVE  UNCHANGED Stage!vars
<1>1. /\ UNCHANGED <<main, launch, toScan, records, results, broken, status, groupKill>>
      /\ c[1] = launch /\ ~ broken /\ Alive => landed' = landed
      /\ landed' = landed \/ landed' = landed \ {c}
  BY DEF LeftoverDies, TakeHanded, memory, store
<1>2. UNCHANGED <<InRun, Left, Failed>>
  BY <1>1 DEF InRun, Left, Failed, Finished
<1>3. Made' = Made
  BY <1>1, <1>2 DEF Made, InRun, Alive
<1>. QED
  BY <1>1, <1>2, <1>3 DEF Stage!vars

LEMMA DamageDecays ==
    ASSUME RunInv, NEW t \in Tasks, Damage(t)
    PROVE  Stage!Decay(t)
<1>1. /\ status[t] = "valid" /\ status' = [status EXCEPT ![t] = "damaged"]
      /\ UNCHANGED <<main, launch, toScan, records, results, pool, groupKill>>
  BY DEF Damage, Store!Decay, Store!Set, memory
<1>. QED
  BY <1>1 DEF Stage!Decay, Stage!Become, InRun, Left, Failed, Made, Finished, pool

LEMMA RunStep ==
    ASSUME RunInv, [Next]_vars
    PROVE  [Stage!Next]_(Stage!vars)
<1>1. CASE Launch
  <2>1. Tasks \in SUBSET Tasks
    OBVIOUS
  <2>. QED
    BY <1>1, <2>1, LaunchBegins DEF Stage!Next
<1>2. ASSUME NEW t \in Tasks, Scan(t) \/ Take(t) PROVE [Stage!Next]_(Stage!vars)
  BY <1>2, ScanIsStage, TakeIsStage DEF Stage!Next
<1>3. CASE WriteStart \/ EventStart \/ Finish
  BY <1>3, StartIsStage, FinishCloses DEF Stage!Next
<1>4. CASE \/ \E t \in Tasks, r \in Final : Collect(t, r)
           \/ WriteTask \/ EventTask \/ EventEnd \/ WriteInterrupted \/ EventInterrupted
  BY <1>4, CollectIsUnseen, CheckpointsAreUnseen
<1>5. ASSUME NEW c \in Calls, Publish(c[1], c[2]) PROVE [Stage!Next]_(Stage!vars)
  <2>1. c[2] \in Tasks
    BY DEF Calls
  <2>. QED
    BY <1>5, <2>1, PublishIsStage DEF Stage!Next
<1>6. ASSUME NEW c \in Calls,
             \/ Duplicate(c[1], c[2]) \/ Return(c[1], c[2]) \/ CallFails(c[1], c[2])
             \/ TakeHanded(c[1], c[2]) \/ LeftoverDies(c)
      PROVE  [Stage!Next]_(Stage!vars)
  <2>1. c[2] \in Tasks /\ {c[2]} \in SUBSET Tasks /\ {} \in SUBSET {c[2]}
    BY DEF Calls
  <2>. QED
    BY <1>6, <2>1, CallEndIsStage, OthersAreUnseen DEF Stage!Next
<1>7. CASE PoolBreaks
  <2>1. queue \cup InFlight \in SUBSET Tasks /\ {} \in SUBSET (queue \cup InFlight)
    BY DEF InFlight, Busy, RunInv, StageInv, RunnerTyped
  <2>. QED
    BY <1>7, <2>1, BreakFailsTheRest DEF Stage!Next
<1>8. CASE Interrupt \/ Kill \/ Rerun
  BY <1>8, GivingUpAbandons DEF Stage!Next
<1>9. ASSUME NEW t \in Tasks, Damage(t) PROVE [Stage!Next]_(Stage!vars)
  BY <1>9, DamageDecays DEF Stage!Next
<1>10. CASE UNCHANGED vars
  BY <1>10 DEF vars, memory, pool, store, Stage!vars, InRun, Left, Failed, Made, Finished
<1>. QED
  BY <1>1, <1>2, <1>3, <1>4, <1>5, <1>6, <1>7, <1>8, <1>9, <1>10
     DEF Next, ParentStep, WorkerStep, FaultStep

LEMMA GivenUpStep ==
    ASSUME RunInv, [Next]_vars
    PROVE  GivenUp'
<1>1. CASE PoolBreaks
  <2>1. /\ Collecting /\ UNCHANGED <<launch, running, landed>> /\ DropQueue
        /\ InFlight # {}
    BY <1>1 DEF PoolBreaks, Collecting
  <2>2. ~ broken /\ \A t \in Tasks : ~ Handed(t)
    BY <2>1 DEF InFlight, RunInv, StageInv, PoolEmpty
  <2>3. \A t \in Tasks : <<launch, t>> \in running' \cup landed' \cup handed'
                             => t \in queue \cup InFlight
    BY <2>1, <2>2 DEF DropQueue, InFlight, Busy, Handed
  <2>4. Failed' = Failed \cup queue \cup InFlight
    BY <1>1, BreakFailsTheRest DEF Stage!Fail
  <2>. QED
    BY <2>1, <2>3, <2>4 DEF GivenUp
<1>2. ASSUME InRun, broken, launch' = launch, Failed \subseteq Failed',
             running' \cup landed' \cup handed' \subseteq running \cup landed \cup handed
      PROVE  GivenUp'
  BY <1>2 DEF RunInv, GivenUp
<1>3. CASE Launch
  BY <1>3 DEF Launch, GivenUp
<1>4. ASSUME NEW t \in Tasks, Scan(t) PROVE GivenUp'
  BY <1>4, <1>2 DEF Scan, GivenUp, pool, InRun, Failed, Record, RunInv, Unscanned, StageInv,
     RunnerTyped, PoolEmpty, PoolIdle
<1>5. CASE \/ WriteStart \/ EventStart \/ WriteTask \/ EventTask
  <2>1. /\ UNCHANGED <<launch, records, results, pool>> /\ InRun
    BY <1>5 DEF WriteStart, EventStart, WriteTask, EventTask, memory, InRun
  <2>2. InRun' => Failed' = Failed
    BY <2>1 DEF Failed
  <2>. QED
    BY <2>1, <2>2, <1>2 DEF GivenUp, pool
<1>6. ASSUME NEW t \in Tasks, NEW r \in Final, Collect(t, r) PROVE GivenUp'
  <2>1. UNCHANGED <<InRun, Failed>>
    BY <1>6, CollectIsUnseen DEF Stage!vars, Collect, InRun
  <2>. QED
    BY <1>6, <2>1, <1>2 DEF Collect, GivenUp, pool
<1>7. CASE Finish \/ EventEnd \/ WriteInterrupted \/ EventInterrupted \/ Interrupt \/ Kill \/ Rerun
  BY <1>7 DEF Finish, EventEnd, WriteInterrupted, EventInterrupted, Interrupt, Kill, Rerun, InRun,
     GivenUp
<1>8. ASSUME NEW t \in Tasks, Take(t) PROVE GivenUp'
  <2>1. ~ broken
    BY <1>8 DEF Take, RunInv, StageInv, PoolEmpty
  <2>. QED
    BY <1>8, <2>1 DEF Take, GivenUp
<1>9. ASSUME NEW c \in Calls,
             \/ TakeHanded(c[1], c[2]) \/ Publish(c[1], c[2]) \/ Duplicate(c[1], c[2])
             \/ Return(c[1], c[2]) \/ CallFails(c[1], c[2]) \/ LeftoverDies(c)
      PROVE  GivenUp'
  <2>1. /\ UNCHANGED <<main, launch, records, broken>>
        /\ running' \cup landed' \cup handed' \subseteq running \cup landed \cup handed
        /\ results \subseteq results'
    BY <1>9 DEF TakeHanded, Publish, Duplicate, Return, CallFails, LeftoverDies, Result, memory
  <2>2. Failed \subseteq Failed'
    BY <2>1 DEF Failed, InRun
  <2>. QED
    BY <2>1, <2>2, <1>2 DEF GivenUp, InRun
<1>10. ASSUME UNCHANGED <<main, launch, records, results, pool>> PROVE GivenUp'
  BY <1>10 DEF RunInv, GivenUp, InRun, Failed, pool
<1>. QED
  BY <1>1, <1>3, <1>4, <1>5, <1>6, <1>7, <1>8, <1>9, <1>10
     DEF Next, ParentStep, WorkerStep, FaultStep, vars, memory, Damage

LEMMA RunInvariant ==
    Spec => []RunInv
<1>1. RunInv /\ [Next]_vars => RunInv'
  BY WorkStep, StageStep, ApartStep, PendingStep, UnscannedStep, GivenUpStep DEF RunInv
<1>. QED
  BY <1>1, RunInit, PTL DEF Spec

LEMMA RunStarts == Init => Stage!Init
BY DEF Init, Stage!Init, Store!Init, InRun, Left, Failed, Made

\* For every stage, pool size and number of faults, whatever a kill spares: to
\* its caller run() is the stage of TaskStage. It returns when every task has
\* ended, none twice; and when a kill ends the process group, a task that is
\* reported failed has no object, or one its own call put there in this launch
\* before it failed or died: an object found in the cache is never a failure.
THEOREM RunsOneStage ==
    Spec => ImplementsStage
<1>1. RunInv /\ [Next]_vars => [Stage!Next]_(Stage!vars)
  BY RunStep
<1>. QED
  BY <1>1, RunStarts, RunInvariant, PTL DEF Spec, ImplementsStage, Stage!Spec

=============================================================================
