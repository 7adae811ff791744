--------------------------- MODULE DurableRunner ---------------------------
(***************************************************************************)
(* DurableTaskRunner of ctsteg.runtime: one stage of independent tasks, a  *)
(* spawn pool of workers, state.json and the event log as checkpoints, and *)
(* the process being killed, interrupted and started again.                *)
(*                                                                         *)
(* The cache behind it is the abstract ObjectStore that ContentStore       *)
(* implements; a task and the object it produces have one name. Launches   *)
(* are numbered, and at most one is alive at a time (RunLock).             *)
(***************************************************************************)
EXTENDS Naturals, Sequences, FiniteSets

CONSTANTS
    Tasks,       \* the tasks of the stage: object ids, unique by run's check
    NoTask,
    MaxWorkers,  \* processes in the pool
    MaxFaults    \* bound on kills, interrupts, failures, damages and reruns

ASSUME StageAssumption  == Tasks # {} /\ IsFiniteSet(Tasks) /\ NoTask \notin Tasks
ASSUME RunnerAssumption == MaxWorkers \in Nat \ {0} /\ MaxFaults \in Nat

VARIABLES
    main,      \* where run() stands
    launch,    \* number of the current launch
    toScan,    \* tasks whose object is still to be verified
    records,   \* run's local records: the status of each task
    queue,     \* submitted tasks no worker has taken
    running,   \* <<launch, task>> of every worker call that is producing
    landed,    \* calls whose rename is done and that have not returned
    handed,    \* calls given up that the executor had handed to its processes
    broken,    \* the pool of this launch broke: its futures have all failed
    results,   \* finished futures not yet seen by as_completed
    current,   \* the task whose result is being recorded
    state,     \* state.json
    events,    \* the event log
    status,    \* the object store
    produced,  \* how often each task was computed to the end
    damages,   \* how often each object was damaged
    faults,    \* environment steps taken so far
    groupKill  \* fixed by the way the study was started: a service manager
               \* ends the pool with its parent, a shell does not

memory == <<toScan, records, queue, results, current>>
disk   == <<state, events>>
store  == <<status, produced, damages>>
pool   == <<running, landed, handed, broken>>
vars   == <<main, launch, memory, pool, disk, store, faults, groupKill>>

Store == INSTANCE ObjectStore WITH Objects <- Tasks

-----------------------------------------------------------------------------
Final == {"cached", "completed", "failed"}
Alive == main \notin {"down", "returned"}

Calls == (1..launch) \X Tasks

\* Worker calls that have a process, of one launch.
Busy(g) == {t \in Tasks : <<g, t>> \in running \cup landed}

\* Tasks whose future waits for a call in the pool.
InFlight == IF broken THEN {} ELSE Busy(launch)

\* No process of this launch's pool has a call.
PoolIdle == \A c \in running \cup landed \cup handed : c[1] # launch

\* The futures are given up; calls that are in the executor's call queue
\* already cannot be cancelled any more.
DropQueue ==
    /\ queue' = {}
    /\ \E S \in SUBSET queue :
          /\ Cardinality(S) <= MaxWorkers + 1
          /\ handed' = handed \cup {<<launch, t>> : t \in S}

Count(status_) == Cardinality({t \in Tasks : records[t] = status_})

Checkpoint(status_) == state' = [status |-> status_, records |-> records]

Event(kind, task, result) ==
    events' = Append(events, [kind |-> kind, launch |-> launch,
                              task |-> task, result |-> result])

Record(t, result) == records' = [records EXCEPT ![t] = result]

-----------------------------------------------------------------------------
(* run(): the parent process                                               *)

\* Mutant: exit status 3 is in RestartPreventExitStatus.
LaunchUnlessFailed ==
    /\ main = "down"
    /\ groupKill => running \cup landed \cup handed = {}
    /\ main' = "scan"
    /\ launch' = launch + 1
    /\ toScan' = Tasks
    /\ records' = [t \in Tasks |-> "none"]
    /\ queue' = {} /\ results' = {} /\ current' = NoTask /\ broken' = FALSE
    /\ UNCHANGED <<running, landed, handed, disk, store, faults, groupKill>>

\* The service starts, or starts again after anything but a complete stage.
Launch ==
    /\ main = "down" \/ (main = "returned" /\ state.status # "complete")
    /\ groupKill => running \cup landed \cup handed = {}
    /\ main' = "scan"
    /\ launch' = launch + 1
    /\ toScan' = Tasks
    /\ records' = [t \in Tasks |-> "none"]
    /\ queue' = {} /\ results' = {} /\ current' = NoTask /\ broken' = FALSE
    /\ UNCHANGED <<running, landed, handed, disk, store, faults, groupKill>>

\* Every object is verified before anything is computed.
Scan(t) ==
    /\ main = "scan"
    /\ t \in toScan
    /\ toScan' = toScan \ {t}
    /\ Record(t, IF status[t] = "valid" THEN "cached" ELSE "pending")
    /\ UNCHANGED <<main, launch, queue, results, current, pool, disk, store, faults, groupKill>>

WriteStart ==
    /\ main = "scan"
    /\ toScan = {}
    /\ Checkpoint(IF Count("pending") > 0 THEN "running" ELSE "complete")
    /\ main' = "eventStart"
    /\ UNCHANGED <<launch, memory, pool, events, store, faults, groupKill>>

\* stage_started; an all-cached stage returns, any other submits its tasks.
EventStart ==
    /\ main = "eventStart"
    /\ Event("stage_started", NoTask, state.status)
    /\ queue' = {t \in Tasks : records[t] = "pending"}
    /\ main' = IF queue' = {} THEN "returned" ELSE "collect"
    /\ UNCHANGED <<launch, toScan, records, results, current, pool, state, store, faults, groupKill>>

\* as_completed yields one finished future; its result enters the records.
Collect(t, result) ==
    /\ main = "collect"
    /\ <<t, result>> \in results
    /\ results' = results \ {<<t, result>>}
    /\ Record(t, result)
    /\ current' = t
    /\ main' = "stateTask"
    /\ UNCHANGED <<launch, toScan, queue, pool, disk, store, faults, groupKill>>

WriteTask ==
    /\ main = "stateTask"
    /\ Checkpoint("running")
    /\ main' = "eventTask"
    /\ UNCHANGED <<launch, memory, pool, events, store, faults, groupKill>>

EventTask ==
    /\ main = "eventTask"
    /\ Event("task_finished", current, records[current])
    /\ main' = "collect"
    /\ UNCHANGED <<launch, memory, pool, state, store, faults, groupKill>>

\* Mutant: failures are not counted.
FinishIgnoringFailures ==
    /\ main = "collect"
    /\ queue = {} /\ results = {} /\ PoolIdle
    /\ Checkpoint("complete")
    /\ main' = "eventEnd"
    /\ UNCHANGED <<launch, memory, pool, events, store, faults, groupKill>>

\* Every future has been seen and shutdown(wait=True) has seen the processes
\* of the pool end: the stage is closed.
Finish ==
    /\ main = "collect"
    /\ queue = {} /\ results = {} /\ PoolIdle
    /\ Checkpoint(IF Count("failed") > 0 THEN "failed" ELSE "complete")
    /\ main' = "eventEnd"
    /\ UNCHANGED <<launch, memory, pool, events, store, faults, groupKill>>

EventEnd ==
    /\ main = "eventEnd"
    /\ Event("stage_finished", NoTask, state.status)
    /\ main' = "returned"
    /\ UNCHANGED <<launch, memory, pool, state, store, faults, groupKill>>

\* The except branch: futures are cancelled, workers are not waited for.
WriteInterrupted ==
    /\ main = "interrupted"
    /\ Checkpoint("interrupted")
    /\ main' = "eventInterrupted"
    /\ UNCHANGED <<launch, memory, pool, events, store, faults, groupKill>>

EventInterrupted ==
    /\ main = "eventInterrupted"
    /\ Event("stage_interrupted", NoTask, state.status)
    /\ main' = "down"
    /\ UNCHANGED <<launch, memory, pool, state, store, faults, groupKill>>

-----------------------------------------------------------------------------
(* The pool: a worker call looks the object up, produces and publishes it,  *)
(* verifies it once more and returns                                       *)

\* A future finishes, if anybody still waits for it.
Result(g, t, result) ==
    IF g = launch /\ ~ broken /\ main \notin {"down", "interrupted", "eventInterrupted"}
    THEN results' = results \cup {<<t, result>>}
    ELSE UNCHANGED results

Take(t) ==
    /\ t \in queue
    /\ Cardinality(Busy(launch)) < MaxWorkers
    /\ queue' = queue \ {t}
    /\ IF status[t] = "valid"
       THEN Result(launch, t, "cached") /\ UNCHANGED running
       ELSE running' = running \cup {<<launch, t>>} /\ UNCHANGED results
    /\ UNCHANGED <<main, launch, toScan, records, current, landed, handed, broken, disk, store, faults, groupKill>>

\* A process takes a call that nobody waits for any more.
TakeHanded(g, t) ==
    /\ <<g, t>> \in handed
    /\ Cardinality(Busy(g)) < MaxWorkers
    /\ handed' = handed \ {<<g, t>>}
    /\ running' = IF status[t] = "valid" THEN running ELSE running \cup {<<g, t>>}
    /\ UNCHANGED <<main, launch, memory, landed, broken, disk, store, faults, groupKill>>

\* Mutant: the call returns before its attempt is renamed into objects/.
PublishWithoutRename(g, t) ==
    /\ <<g, t>> \in running /\ status[t] # "valid"
    /\ running' = running \ {<<g, t>>}
    /\ produced' = [produced EXCEPT ![t] = @ + 1]
    /\ Result(g, t, "completed")
    /\ UNCHANGED <<main, launch, toScan, records, queue, current, landed, handed, broken, disk, status, damages, faults, groupKill>>

\* commit_attempt renames the attempt into objects/, whether or not a damaged
\* object had to go first.
Publish(g, t) ==
    /\ <<g, t>> \in running /\ status[t] # "valid"
    /\ running' = running \ {<<g, t>>}
    /\ landed' = landed \cup {<<g, t>>}
    /\ status' = [status EXCEPT ![t] = "valid"]
    /\ produced' = [produced EXCEPT ![t] = @ + 1]
    /\ UNCHANGED <<main, launch, memory, handed, broken, disk, damages, faults, groupKill>>

\* Another call published it meanwhile: this attempt is a duplicate.
Duplicate(g, t) ==
    /\ <<g, t>> \in running /\ status[t] = "valid"
    /\ running' = running \ {<<g, t>>}
    /\ produced' = [produced EXCEPT ![t] = @ + 1]
    /\ Result(g, t, "completed")
    /\ UNCHANGED <<main, launch, toScan, records, queue, current, landed, handed, broken, disk, status, damages, faults, groupKill>>

\* What was renamed is verified before the call returns.
Return(g, t) ==
    /\ <<g, t>> \in landed
    /\ landed' = landed \ {<<g, t>>}
    /\ Result(g, t, IF status[t] = "valid" THEN "completed" ELSE "failed")
    /\ UNCHANGED <<main, launch, toScan, records, queue, current, running, handed, broken, disk, store, faults, groupKill>>

-----------------------------------------------------------------------------
(* Faults, a bounded number of them                                        *)

Fault == faults < MaxFaults /\ faults' = faults + 1

\* The producer raises, or the directory cannot be synchronized or read again
\* after the rename: FAILED.json and status "failed", the object there or not.
CallFails(g, t) ==
    /\ Fault
    /\ <<g, t>> \in running \cup landed
    /\ running' = running \ {<<g, t>>} /\ landed' = landed \ {<<g, t>>}
    /\ Result(g, t, "failed")
    /\ UNCHANGED <<main, launch, toScan, records, queue, current, handed, broken, disk, store, groupKill>>

\* Mutant: only the futures in flight raise, the queued ones are forgotten.
PoolBreakForgetsQueued ==
    /\ Fault
    /\ main \in {"collect", "stateTask", "eventTask"}
    /\ InFlight # {}
    /\ results' = results \cup {<<t, "failed">> : t \in InFlight}
    /\ broken' = TRUE
    /\ DropQueue
    /\ UNCHANGED <<main, launch, toScan, records, current, running, landed, disk, store, groupKill>>

\* A pool process dies, before or after its rename: every future left raises.
\* The other processes are terminated afterwards (LeftoverDies) and may have
\* published, or taken a call more, by then.
PoolBreaks ==
    /\ Fault
    /\ main \in {"collect", "stateTask", "eventTask"}
    /\ InFlight # {}
    /\ results' = results \cup {<<t, "failed">> : t \in queue \cup InFlight}
    /\ broken' = TRUE
    /\ DropQueue
    /\ UNCHANGED <<main, launch, toScan, records, current, running, landed, disk, store, groupKill>>

\* KeyboardInterrupt or a checkpoint that cannot be written: no process of the
\* pool is waited for.
Interrupt ==
    /\ Fault
    /\ main \in {"collect", "stateTask", "eventTask"}
    /\ DropQueue
    /\ results' = {}
    /\ main' = "interrupted"
    /\ UNCHANGED <<launch, toScan, records, current, running, landed, broken, disk, store, groupKill>>

\* SIGKILL or power loss of the whole group, or of the parent alone.
Kill ==
    /\ Fault
    /\ Alive
    /\ main' = "down"
    /\ results' = {}
    /\ IF groupKill THEN queue' = {} /\ running' = {} /\ landed' = {} /\ handed' = {}
       ELSE DropQueue /\ UNCHANGED <<running, landed>>
    /\ UNCHANGED <<launch, toScan, records, current, broken, disk, store, groupKill>>

\* Terminated with its pool, or dead without its parent.
LeftoverDies(c) ==
    /\ c[1] = launch => broken \/ ~ Alive
    /\ c \in running \cup landed \cup handed
    /\ running' = running \ {c} /\ landed' = landed \ {c} /\ handed' = handed \ {c}
    /\ UNCHANGED <<main, launch, memory, broken, disk, store, faults, groupKill>>

Damage(t) ==
    /\ Fault
    /\ Store!Decay(t)
    /\ damages' = [damages EXCEPT ![t] = @ + 1]
    /\ UNCHANGED <<main, launch, memory, pool, disk, produced, groupKill>>

\* A complete stage is run again: a re-run, or the next run on this cache.
Rerun ==
    /\ Fault
    /\ main = "returned" /\ state.status = "complete"
    /\ main' = "down"
    /\ UNCHANGED <<launch, memory, pool, disk, store, groupKill>>

-----------------------------------------------------------------------------
Init ==
    /\ main = "down"
    /\ launch = 0
    /\ toScan = {}
    /\ records = [t \in Tasks |-> "none"]
    /\ queue = {}
    /\ running = {} /\ landed = {} /\ handed = {}
    /\ broken = FALSE
    /\ results = {}
    /\ current = NoTask
    /\ state = [status |-> "none", records |-> records]
    /\ events = <<>>
    /\ Store!Init
    /\ produced = [t \in Tasks |-> 0]
    /\ damages = [t \in Tasks |-> 0]
    /\ faults = 0
    /\ groupKill \in BOOLEAN

ParentStep ==
    \/ Launch
    \/ \E t \in Tasks : Scan(t)
    \/ WriteStart \/ EventStart
    \/ \E t \in Tasks, result \in Final : Collect(t, result)
    \/ WriteTask \/ EventTask
    \/ Finish \/ EventEnd
    \/ WriteInterrupted \/ EventInterrupted

WorkerStep ==
    \/ \E t \in Tasks : Take(t)
    \/ \E c \in Calls :
          \/ TakeHanded(c[1], c[2]) \/ Publish(c[1], c[2])
          \/ Duplicate(c[1], c[2]) \/ Return(c[1], c[2])

FaultStep ==
    \/ \E c \in Calls : CallFails(c[1], c[2]) \/ LeftoverDies(c)
    \/ PoolBreaks \/ Interrupt \/ Kill \/ Rerun
    \/ \E t \in Tasks : Damage(t)

Next == ParentStep \/ WorkerStep \/ FaultStep

Spec == Init /\ [][Next]_vars

(* The service manager starts the run again after a failure                *)
(* (Restart=on-failure), the parent is straight-line code around           *)
(* as_completed, and a producer either ends or raises.                     *)
FairSpec == Spec /\ WF_vars(ParentStep) /\ WF_vars(WorkerStep)

-----------------------------------------------------------------------------
(* Properties                                                              *)

TypeOK ==
    /\ main \in {"down", "scan", "eventStart", "collect", "stateTask", "eventTask",
                 "eventEnd", "interrupted", "eventInterrupted", "returned"}
    /\ launch \in Nat
    /\ toScan \subseteq Tasks
    /\ records \in [Tasks -> {"none", "pending"} \cup Final]
    /\ queue \subseteq Tasks
    /\ running \subseteq Calls /\ landed \subseteq Calls /\ handed \subseteq Calls
    /\ broken \in BOOLEAN
    /\ results \subseteq Tasks \X Final
    /\ current \in Tasks \cup {NoTask}
    /\ state.status \in {"none", "running", "complete", "failed", "interrupted"}
    /\ state.records \in [Tasks -> {"none", "pending"} \cup Final]
    /\ status \in [Tasks -> {"absent", "valid", "damaged"}]
    /\ produced \in [Tasks -> Nat]
    /\ damages \in [Tasks -> Nat]
    /\ faults \in 0..MaxFaults
    /\ groupKill \in BOOLEAN

\* "a crash between committing an object and updating state.json cannot cause
\* the scientific work to repeat": over all launches, an object is computed
\* once, and once more each time storage destroys it, if kills end the group.
NoRework == groupKill => \A t \in Tasks : produced[t] <= 1 + damages[t]

\* If kills end the group no two worker calls are ever at one object: what
\* ContentStore takes for granted when Shared is FALSE.
OneWriterPerObject ==
    groupKill => \A c, d \in running \cup landed \cup handed : c[2] = d[2] => c = d

\* What state.json says of the work is true whoever died when: a task it calls
\* finished was computed, and a complete stage has nothing outstanding.
StateTruthful ==
    /\ \A t \in Tasks : state.records[t] \in {"cached", "completed"} => produced[t] > 0
    /\ state.status = "complete" =>
          \A t \in Tasks : state.records[t] \in {"cached", "completed"}
    /\ state.status = "failed" => \E t \in Tasks : state.records[t] = "failed"

\* No future is lost or counted twice: while a launch collects, each pending
\* task is in exactly one of the queue, the pool and the finished futures.
NoFutureLost ==
    main = "collect" =>
        \A t \in Tasks :
            LET places == {"queue" : x \in queue \cap {t}}
                              \cup {"pool" : x \in InFlight \cap {t}}
                              \cup {<<"done", r>> : r \in {r \in Final : <<t, r>> \in results}}
            IN  Cardinality(places) = IF records[t] = "pending" THEN 1 ELSE 0

(* The inductive invariant behind OneWriterPerObject and NoRework.         *)

\* With the group killed as one, every call alive belongs to this launch.
OneLaunch == groupKill => \A c \in running \cup landed \cup handed : c[1] = launch

\* A call that is producing has nothing published to compete with, and every
\* computation is paid for by a missing or a destroyed object.
WorkIsNeeded ==
    groupKill =>
    /\ \A c \in running : status[c[2]] # "valid"
    /\ \A t \in Tasks :
          produced[t] <= (IF status[t] = "valid" THEN 1 ELSE 0) + damages[t]

(* What run() looks like to its caller: the stage that TaskStage describes. *)

InRun == main \in {"scan", "eventStart", "collect", "stateTask", "eventTask"}

Finished(t) == \E r \in Final : <<t, r>> \in results

Left ==
    {t \in Tasks : \/ main = "scan" /\ t \in toScan
                   \/ InRun /\ records[t] = "pending" /\ ~ Finished(t)}

Failed ==
    {t \in Tasks : /\ InRun \/ main \in {"eventEnd", "returned"}
                   /\ records[t] = "failed" \/ <<t, "failed">> \in results}

Made == {t \in Tasks : InRun /\ ~ broken /\ <<launch, t>> \in landed}

Stage == INSTANCE TaskStage WITH
    Objects <- Tasks,
    phase   <- IF InRun THEN "running" ELSE "idle",
    left    <- Left,
    failed  <- Failed,
    made    <- Made,
    alone   <- groupKill

\* A launch is one stage run as TaskStage promises it: it returns when every
\* task has ended, and no task ends twice or is forgotten. Unless calls were
\* left over from an earlier launch, a task that is reported failed has no
\* object, or one that a call of this very launch put there before it failed
\* or died: no object that was there before is reported as a failure.
ImplementsStage == Stage!Spec

\* However often it is killed, interrupted or fails, the stage completes once
\* the faults stop.
StageCompletes == <>[](main = "returned" /\ state.status = "complete")

=============================================================================
