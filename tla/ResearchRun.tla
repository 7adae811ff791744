----------------------------- MODULE ResearchRun -----------------------------
(***************************************************************************)
(* execute_research_plan of digital_ad/research_runtime.py as the service  *)
(* runs it: three stages of durable tasks with the clean gate before the   *)
(* second and the hard-check triggers before the third, the files of the   *)
(* run directory published one by one, the download bundle, the exit code, *)
(* and the service manager starting it again.                              *)
(*                                                                         *)
(* A stage is DurableTaskRunner.run seen from outside: every task ends     *)
(* with its object published or as a failure (DurableRunner). The channel  *)
(* evaluations of one hard-check family are one task, named by the family. *)
(* A row is named by the task whose object it is read from. Whether the    *)
(* clean gate passes and which families trigger is fixed by the inputs:    *)
(* objects are deterministic.                                              *)
(***************************************************************************)
EXTENDS Naturals, FiniteSets

CONSTANTS
    Embeddings,  \* one task per pair and method; its object holds a clean row
    Core,        \* the channel evaluations of the second stage
    Families,    \* the hard-check families
    SourcesOf,   \* the embeddings whose objects an evaluation reads
    None,
    MaxFaults    \* bound on failures, kills, damages, full disks and reboots

Tasks == Embeddings \cup Core \cup Families

ASSUME PlanAssumption ==
    /\ Embeddings # {} /\ Core # {} /\ Families # {} /\ IsFiniteSet(Tasks)
    /\ Embeddings \cap Core = {} /\ (Embeddings \cup Core) \cap Families = {}
    /\ SourcesOf \in [Core \cup Families -> SUBSET Embeddings]
    /\ None \notin Tasks
ASSUME FaultAssumption == MaxFaults \in Nat

VARIABLES
    gate,       \* the 16 clean rows all decode
    verdict,    \* families the rows of the core stage trigger
    status,     \* the object store: "absent", "valid" or "damaged"
    made,       \* how often each object was published
    attempts,   \* directories each task left under attempts/
    main,       \* where execute_research_plan stands
    toRun,      \* tasks of the current stage that have not ended
    failed,     \* tasks of the current stage that ended in a failure
    requested,  \* referenced_ids: tasks of the stages run so far
    outcome,    \* the run's status
    rows,       \* the rows it reports
    decisions,  \* its trigger decisions
    bundle,     \* the archive it made or reused
    published,  \* trigger_decisions.json, reports/ and run_summary.json
    archives,   \* archives under exports/
    listed,     \* those with their .json manifest
    exit,       \* exit status of the last run, None while one is alive
    faults      \* environment steps taken so far

science == <<gate, verdict>>
store   == <<status, made, attempts>>
memory  == <<toRun, failed, requested, outcome, rows, decisions, bundle>>
disk    == <<published, archives, listed>>
vars    == <<science, store, main, memory, disk, exit, faults>>

-----------------------------------------------------------------------------
(* Decisions and results                                                   *)

\* decide_hard_checks on the clean rows alone and on all core rows.
Decide(collected) ==
    [f \in Families |-> IF ~gate THEN "blocked_by_clean_gate"
                        ELSE IF ~(Core \subseteq collected) THEN "blocked_by_incomplete_core"
                        ELSE IF f \in verdict THEN "triggered" ELSE "not_triggered"]

Settled(answer) == [f \in Families |-> IF f \in verdict THEN answer ELSE decisions[f]]

\* What an operational failure publishes instead names no family.
Undecided == [f \in {} |-> "blocked_by_operational_failure"]

Valid(tasks) == \A t \in tasks : status[t] = "valid"

Fault == faults < MaxFaults /\ faults' = faults + 1

\* An exception leaves the with block: the lock is released, status is 1.
Raise == main' = "stopped" /\ exit' = 1

Publish(result, rows_, decisions_) ==
    /\ main' = "decisions"
    /\ outcome' = result
    /\ rows' = rows_
    /\ decisions' = decisions_

\* What a run keeps in memory, apart from its stage.
Forget ==
    /\ requested' = {} /\ rows' = {}
    /\ outcome' = None /\ decisions' = Undecided /\ bundle' = None

BeginStage(stage, tasks) ==
    /\ main' = stage
    /\ toRun' = tasks
    /\ failed' = {}

-----------------------------------------------------------------------------
(* The service and the stages                                              *)

\* Restart=on-failure, RestartPreventExitStatus=2; a killed run has no status.
Startable == main = "down" \/ (main = "stopped" /\ exit \notin {0, 2})

\* Mutant: any failure ends the service.
LaunchOnce ==
    /\ main = "down"
    /\ BeginStage("embeddings", Embeddings)
    /\ Forget
    /\ exit' = None
    /\ UNCHANGED <<science, store, disk, faults>>

Launch ==
    /\ Startable
    /\ BeginStage("embeddings", Embeddings)
    /\ Forget
    /\ exit' = None
    /\ UNCHANGED <<science, store, disk, faults>>

\* The disk gate refuses before the lock is taken and before any task.
DiskFull ==
    /\ Fault
    /\ Startable
    /\ Raise
    /\ UNCHANGED <<science, store, memory, disk>>

InStage == main \in {"embeddings", "core", "conditional"}

\* A valid object is a cache hit; otherwise the task is computed, a channel
\* evaluation from the objects of its embeddings.
TaskEnds(t) ==
    /\ InStage /\ t \in toRun
    /\ toRun' = toRun \ {t}
    /\ IF status[t] = "valid"
       THEN UNCHANGED <<status, made, failed, attempts>>
       ELSE IF t \in Embeddings \/ Valid(SourcesOf[t])
       THEN /\ status' = [status EXCEPT ![t] = "valid"]
            /\ made' = [made EXCEPT ![t] = @ + 1]
            /\ UNCHANGED <<failed, attempts>>
       ELSE /\ failed' = failed \cup {t}
            /\ attempts' = [attempts EXCEPT ![t] = @ + 1]
            /\ UNCHANGED <<status, made>>
    /\ UNCHANGED <<science, main, requested, outcome, rows, decisions, bundle, disk, exit, faults>>

\* Its call raises or its process dies, before or after the object is renamed
\* into the cache: the failure leaves a directory under attempts/ or none, and
\* the object of a task that is reported failed may be there.
TaskFails(t) ==
    /\ Fault
    /\ InStage /\ t \in toRun /\ status[t] # "valid"
    /\ toRun' = toRun \ {t}
    /\ failed' = failed \cup {t}
    /\ \/ UNCHANGED <<status, made>>
       \/ /\ t \notin Embeddings => Valid(SourcesOf[t])
          /\ status' = [status EXCEPT ![t] = "valid"]
          /\ made' = [made EXCEPT ![t] = @ + 1]
    /\ \E left \in {0, 1} : attempts' = [attempts EXCEPT ![t] = @ + left]
    /\ UNCHANGED <<science, main, requested, outcome, rows, decisions, bundle, disk, exit>>

EmbeddingsDone ==
    /\ main = "embeddings" /\ toRun = {}
    /\ requested' = requested \cup Embeddings
    /\ IF failed # {}
       THEN Publish("operational_failure_embeddings", {}, Undecided)
       ELSE main' = "gate" /\ UNCHANGED <<outcome, rows, decisions>>
    /\ UNCHANGED <<science, store, toRun, failed, bundle, disk, exit, faults>>

\* Mutant: the clean rows need only be there.
GateOpen ==
    /\ main = "gate"
    /\ IF ~Valid(Embeddings)
       THEN Raise /\ UNCHANGED <<toRun, failed, outcome, rows, decisions>>
       ELSE BeginStage("core", Core) /\ UNCHANGED <<exit, outcome, rows, decisions>>
    /\ UNCHANGED <<science, store, requested, bundle, disk, faults>>

\* collect_evaluations verifies every object again and raises for a bad one.
Gate ==
    /\ main = "gate"
    /\ IF ~Valid(Embeddings)
       THEN Raise /\ UNCHANGED <<toRun, failed, outcome, rows, decisions>>
       ELSE /\ UNCHANGED exit
            /\ IF gate
               THEN BeginStage("core", Core) /\ UNCHANGED <<outcome, rows, decisions>>
               ELSE /\ Publish("blocked_by_clean_gate", Embeddings, Decide(Embeddings))
                    /\ UNCHANGED <<toRun, failed>>
    /\ UNCHANGED <<science, store, requested, bundle, disk, faults>>

CoreDone ==
    /\ main = "core" /\ toRun = {}
    /\ requested' = requested \cup Core
    /\ IF failed # {}
       THEN Publish("operational_failure_core", Embeddings, Undecided)
       ELSE main' = "decide" /\ UNCHANGED <<outcome, rows, decisions>>
    /\ UNCHANGED <<science, store, toRun, failed, bundle, disk, exit, faults>>

Triggers ==
    /\ main = "decide"
    /\ IF ~Valid(Embeddings \cup Core)
       THEN Raise /\ UNCHANGED <<toRun, failed, outcome, rows, decisions>>
       ELSE /\ UNCHANGED exit
            /\ IF verdict = {}
               THEN /\ Publish("complete", Embeddings \cup Core, Decide(Embeddings \cup Core))
                    /\ UNCHANGED <<toRun, failed>>
               ELSE /\ BeginStage("conditional", verdict)
                    /\ rows' = Embeddings \cup Core
                    /\ decisions' = Decide(Embeddings \cup Core)
                    /\ UNCHANGED outcome
    /\ UNCHANGED <<science, store, requested, bundle, disk, faults>>

ConditionalDone ==
    /\ main = "conditional" /\ toRun = {}
    /\ requested' = requested \cup verdict
    /\ IF failed # {}
       THEN Publish("operational_failure_conditional", rows, Settled("blocked_by_operational_failure"))
       ELSE main' = "aggregate" /\ UNCHANGED <<outcome, rows, decisions>>
    /\ UNCHANGED <<science, store, toRun, failed, bundle, disk, exit, faults>>

Aggregate ==
    /\ main = "aggregate"
    /\ IF ~Valid(Embeddings \cup Core \cup verdict)
       THEN Raise /\ UNCHANGED <<outcome, rows, decisions>>
       ELSE /\ Publish("complete", Embeddings \cup Core \cup verdict, Settled("triggered_and_run"))
            /\ UNCHANGED exit
    /\ UNCHANGED <<science, store, toRun, failed, requested, bundle, disk, faults>>

-----------------------------------------------------------------------------
(* Publishing                                                              *)

WriteDecisions ==
    /\ main = "decisions"
    /\ published' = [published EXCEPT !.decisions = decisions]
    /\ main' = "reports"
    /\ UNCHANGED <<science, store, memory, archives, listed, exit, faults>>

\* Mutant: reports that are already there are kept.
WriteReportsOnce ==
    /\ main = "reports"
    /\ published' = [published EXCEPT !.reports = IF @ = {} THEN rows ELSE @]
    /\ main' = "summary"
    /\ UNCHANGED <<science, store, memory, archives, listed, exit, faults>>

\* Without rows the reports of an earlier run stay where they are.
WriteReports ==
    /\ main = "reports"
    /\ published' = [published EXCEPT !.reports = IF rows # {} THEN rows ELSE @]
    /\ main' = "summary"
    /\ UNCHANGED <<science, store, memory, archives, listed, exit, faults>>

Summary(archive) == [outcome |-> outcome, rows |-> rows, bundle |-> archive]

WriteSummary ==
    /\ main = "summary"
    /\ published' = [published EXCEPT !.summary = Summary(None)]
    /\ main' = "package"
    /\ UNCHANGED <<science, store, memory, archives, listed, exit, faults>>

Present == {t \in requested : status[t] = "valid"}

\* Mutant: the objects alone identify a bundle.
MaterialObjectsOnly == [objects |-> [t \in Present |-> made[t]]]

\* bundle_material: what must agree for an archive to be reused. run_summary,
\* state.json and the events are in the archive but not in the material.
Material ==
    [objects   |-> [t \in Present |-> made[t]],
     missing   |-> requested \ Present,
     attempts  |-> [t \in requested |-> attempts[t]],
     decisions |-> published.decisions,
     reports   |-> published.reports]

Reusable == {a \in listed : a.material = Material}

\* Mutant: missing objects are allowed whatever the status.
PackageAnyway ==
    /\ main = "package"
    /\ IF Reusable # {}
       THEN /\ bundle' = CHOOSE a \in Reusable : TRUE
            /\ main' = "final"
            /\ UNCHANGED <<archives, exit>>
       ELSE /\ bundle' = [id |-> Cardinality(archives) + 1, material |-> Material, summary |-> published.summary]
            /\ archives' = archives \cup {bundle'}
            /\ main' = "manifest"
            /\ UNCHANGED exit
    /\ UNCHANGED <<science, store, toRun, failed, requested, outcome, rows, decisions, published, listed, faults>>

\* create_download_bundle up to the rename of the verified archive: its name
\* holds the checksum of run_summary.json, so every new one has a new name.
Package ==
    /\ main = "package"
    /\ IF outcome = "complete" /\ Present # requested
       THEN Raise /\ UNCHANGED <<bundle, archives>>
       ELSE IF Reusable # {}
       THEN /\ bundle' = CHOOSE a \in Reusable : TRUE
            /\ main' = "final"
            /\ UNCHANGED <<archives, exit>>
       ELSE /\ bundle' = [id |-> Cardinality(archives) + 1, material |-> Material, summary |-> published.summary]
            /\ archives' = archives \cup {bundle'}
            /\ main' = "manifest"
            /\ UNCHANGED exit
    /\ UNCHANGED <<science, store, toRun, failed, requested, outcome, rows, decisions, published, listed, faults>>

WriteManifest ==
    /\ main = "manifest"
    /\ listed' = listed \cup {bundle}
    /\ main' = "final"
    /\ UNCHANGED <<science, store, memory, published, archives, exit, faults>>

\* run_summary.json again, now with the bundle; then the exit status.
Finish ==
    /\ main = "final"
    /\ published' = [published EXCEPT !.summary = Summary(bundle)]
    /\ main' = "stopped"
    /\ exit' = IF outcome = "complete" THEN 0 ELSE IF outcome = "blocked_by_clean_gate" THEN 2 ELSE 3
    /\ UNCHANGED <<science, store, memory, archives, listed, faults>>

-----------------------------------------------------------------------------
(* The surroundings                                                        *)

\* The control group is killed; calls that had begun leave their attempts.
Kill ==
    /\ Fault
    /\ main \notin {"down", "stopped"}
    /\ BeginStage("down", {}) /\ Forget
    /\ \E begun \in SUBSET {t \in toRun : InStage /\ status[t] # "valid"} :
          attempts' = [t \in Tasks |-> attempts[t] + (IF t \in begun THEN 1 ELSE 0)]
    /\ UNCHANGED <<science, status, made, disk, exit>>

Damage(t) ==
    /\ Fault
    /\ status[t] = "valid"
    /\ status' = [status EXCEPT ![t] = "damaged"]
    /\ UNCHANGED <<science, made, attempts, main, memory, disk, exit>>

\* The unit is enabled: after a reboot it runs again whatever its last status.
Reboot ==
    /\ Fault
    /\ main = "stopped"
    /\ BeginStage("down", {}) /\ Forget
    /\ exit' = None
    /\ UNCHANGED <<science, store, disk>>

Init ==
    /\ gate \in BOOLEAN
    /\ verdict \in SUBSET Families
    /\ status = [t \in Tasks |-> "absent"]
    /\ made = [t \in Tasks |-> 0] /\ attempts = [t \in Tasks |-> 0]
    /\ main = "down" /\ exit = None
    /\ toRun = {} /\ failed = {} /\ requested = {}
    /\ outcome = None /\ rows = {} /\ decisions = Undecided /\ bundle = None
    /\ published = [decisions |-> None, reports |-> {}, summary |-> None]
    /\ archives = {} /\ listed = {}
    /\ faults = 0

Stages ==
    \/ \E t \in Tasks : TaskEnds(t)
    \/ EmbeddingsDone \/ Gate \/ CoreDone \/ Triggers \/ ConditionalDone \/ Aggregate

Publishing ==
    \/ WriteDecisions \/ WriteReports \/ WriteSummary
    \/ Package \/ WriteManifest \/ Finish

Progress == Launch \/ Stages \/ Publishing

Environment ==
    \/ DiskFull \/ Kill \/ Reboot
    \/ \E t \in Tasks : TaskFails(t) \/ Damage(t)

Next == Progress \/ Environment

Spec == Init /\ [][Next]_vars

\* The process runs on, and the service manager starts it again.
FairSpec == Spec /\ WF_vars(Progress)

-----------------------------------------------------------------------------
(* Properties                                                              *)

Complete == Embeddings \cup Core \cup verdict

TypeOK ==
    /\ status \in [Tasks -> {"absent", "valid", "damaged"}]
    /\ made \in [Tasks -> Nat] /\ attempts \in [Tasks -> Nat]
    /\ toRun \subseteq Tasks /\ failed \subseteq Tasks /\ requested \subseteq Tasks
    /\ rows \subseteq Tasks /\ published.reports \subseteq Tasks
    /\ main \in {"down", "embeddings", "gate", "core", "decide", "conditional", "aggregate",
                  "decisions", "reports", "summary", "package", "manifest", "final", "stopped"}
    /\ exit \in {None, 0, 1, 2, 3}
    /\ listed \subseteq archives
    /\ faults \in 0..MaxFaults

\* No evaluation is ever spent out of order: no channel object exists unless
\* the clean gate passed, and none of a family the core rows did not trigger,
\* whatever was killed, damaged and run again.
ScheduleRespected ==
    /\ (\E t \in Core \cup Families : made[t] > 0) => gate
    /\ \A f \in Families : made[f] > 0 => f \in verdict /\ \A t \in Core : made[t] > 0

\* A summary that says complete and names a bundle names an archive with every
\* object the reports are made of, the matching reports and the decisions.
CompleteMeansWhole ==
    published.summary # None /\ published.summary.outcome = "complete" /\ published.summary.bundle # None =>
        LET a == published.summary.bundle IN
        /\ a \in archives
        /\ DOMAIN a.material.objects = Complete /\ a.material.missing = {}
        /\ a.material.reports = Complete /\ published.summary.rows = Complete
        /\ \A f \in Families : a.material.decisions[f] =
               IF f \in verdict THEN "triggered_and_run" ELSE "not_triggered"

\* A reused archive holds an older run_summary.json: it tells the same outcome
\* and rows as the summary that names it, though neither is in the material.
ArchivedSummaryAgrees ==
    published.summary # None /\ published.summary.bundle # None =>
        /\ published.summary.bundle.summary.outcome = published.summary.outcome
        /\ published.summary.bundle.summary.rows = published.summary.rows

\* When a run has ended, the reports beside its summary are of the rows it
\* counts, not of an earlier run that got less far or further. Only a summary
\* that says its embeddings failed, and counts no row, may sit beside the
\* reports of an earlier run, which stay where they are.
ReportsMatchSummary ==
    main = "stopped" /\ exit \in {0, 2, 3} =>
        IF published.summary.outcome = "operational_failure_embeddings"
        THEN published.summary.rows = {}
        ELSE published.reports = published.summary.rows

\* Once the faults are over the study settles: complete with status 0 if the
\* clean gate passes, and blocked with status 2, not restarted, if it fails.
StudySettles ==
    <>[](/\ main = "stopped"
         /\ exit = (IF gate THEN 0 ELSE 2)
         /\ published.summary.outcome = (IF gate THEN "complete" ELSE "blocked_by_clean_gate"))

\* Every stage is run as TaskStage promises, the promise DurableRunner keeps;
\* the lock and the service manager leave the run alone with the cache.
Stage == INSTANCE TaskStage WITH
    Objects <- Tasks,
    phase   <- IF InStage THEN "running" ELSE "idle",
    left    <- toRun,
    made    <- {},
    alone   <- TRUE

StagesAsPromised == Stage!Spec

\* A resume with the same objects, attempts, decisions and reports reuses the
\* archive there is (create_download_bundle).
ResumeReusesArchive ==
    \A a, b \in archives : a.material = b.material => a = b

=============================================================================
