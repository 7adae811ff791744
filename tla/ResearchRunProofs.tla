-------------------------- MODULE ResearchRunProofs --------------------------
(***************************************************************************)
(* ResearchRun never spends an evaluation out of order, and what it has    *)
(* published when it ends agrees with itself, for every plan and every     *)
(* number of faults.                                                       *)
(***************************************************************************)
EXTENDS ResearchRun, TLAPS

\* What each stage may still run, and why it was allowed to begin.
StagePlan ==
    /\ main = "embeddings"  => toRun \subseteq Embeddings
    /\ main = "core"        => gate /\ toRun \subseteq Core
    /\ main = "decide"      => gate
    /\ main = "conditional" => gate /\ toRun \subseteq verdict /\ \A t \in Core : made[t] > 0

Typed ==
    /\ verdict \subseteq Families
    /\ status \in [Tasks -> {"absent", "valid", "damaged"}]
    /\ made \in [Tasks -> Nat]
    /\ toRun \subseteq Tasks

\* A valid object has been published.
ValidIsMade == \A t \in Tasks : status[t] = "valid" => made[t] > 0

IInv == Typed /\ ValidIsMade /\ StagePlan /\ ScheduleRespected

\* The stages' tasks are different tasks.
LEMMA StagesDisjoint ==
    /\ \A t \in Embeddings : t \notin Core /\ t \notin Families
    /\ \A t \in Core : t \notin Families
    /\ Embeddings \subseteq Tasks /\ Core \subseteq Tasks /\ Families \subseteq Tasks
BY PlanAssumption DEF Tasks

LEMMA Initially == Init => IInv
BY DEF Init, IInv, Typed, ValidIsMade, StagePlan, ScheduleRespected, Tasks

\* A call publishes its own object only, which its stage was allowed to run.
LEMMA PublishedKeeps ==
    ASSUME IInv, NEW t \in Tasks, InStage, t \in toRun,
           UNCHANGED <<main, gate, verdict>>, toRun' \subseteq toRun,
           status' = [status EXCEPT ![t] = "valid"], made' = [made EXCEPT ![t] = @ + 1]
    PROVE  IInv'
<1>. USE StagesDisjoint
<1>1. /\ made'[t] > 0 /\ made' \in [Tasks -> Nat]
      /\ status' \in [Tasks -> {"absent", "valid", "damaged"}]
      /\ \A s \in Tasks : s # t => made'[s] = made[s] /\ status'[s] = status[s]
      /\ \A s \in Tasks : made[s] > 0 => made'[s] > 0
      BY DEF IInv, Typed
<1>2. Typed' /\ ValidIsMade'
      BY <1>1 DEF IInv, Typed, ValidIsMade
<1>3. StagePlan'
      BY <1>1 DEF IInv, StagePlan, Typed
<1>4. t \in Core \cup Families => gate
      BY DEF InStage, IInv, StagePlan
<1>5. t \in Families => t \in verdict /\ \A k \in Core : made[k] > 0
      BY DEF InStage, IInv, StagePlan
<1>6. ScheduleRespected'
      BY <1>1, <1>4, <1>5 DEF IInv, ScheduleRespected
<1>. QED
     BY <1>2, <1>3, <1>6 DEF IInv

\* Ending a task publishes at most its object.
LEMMA TaskEndsKeeps ==
    ASSUME IInv, NEW t \in Tasks, TaskEnds(t)
    PROVE  IInv'
<1>1. /\ InStage /\ t \in toRun /\ toRun' \subseteq toRun
      /\ UNCHANGED <<main, gate, verdict>>
      BY DEF TaskEnds, science
<1>2. CASE UNCHANGED <<status, made>>
      BY <1>1, <1>2 DEF IInv, Typed, ValidIsMade, StagePlan, ScheduleRespected
<1>3. CASE status' = [status EXCEPT ![t] = "valid"] /\ made' = [made EXCEPT ![t] = @ + 1]
      BY <1>1, <1>3, PublishedKeeps
<1>. QED
     BY <1>2, <1>3 DEF TaskEnds

\* A task that fails after its object was renamed into the cache has published
\* it like one that ends.
LEMMA TaskFailsKeeps ==
    ASSUME IInv, NEW t \in Tasks, TaskFails(t)
    PROVE  IInv'
<1>1. /\ InStage /\ t \in toRun /\ toRun' = toRun \ {t}
      /\ UNCHANGED <<gate, verdict, main>>
      BY DEF TaskFails, science
<1>2. CASE UNCHANGED <<status, made>>
      BY <1>1, <1>2 DEF IInv, Typed, ValidIsMade, StagePlan, ScheduleRespected
<1>3. CASE status' = [status EXCEPT ![t] = "valid"] /\ made' = [made EXCEPT ![t] = @ + 1]
      BY <1>1, <1>3, PublishedKeeps
<1>. QED
     BY <1>2, <1>3 DEF TaskFails

\* A stage begins behind its gate; what was published stays published.
LEMMA StageChanges ==
    ASSUME IInv, EmbeddingsDone \/ Gate \/ CoreDone \/ Triggers \/ ConditionalDone \/ Aggregate
    PROVE  IInv'
<1>. USE StagesDisjoint DEF IInv, Typed
<1>1. UNCHANGED <<status, made, gate, verdict>>
      BY DEF EmbeddingsDone, Gate, CoreDone, Triggers, ConditionalDone, Aggregate, store, science
<1>2. ValidIsMade' /\ ScheduleRespected'
      BY <1>1 DEF ValidIsMade, ScheduleRespected
<1>3. CASE EmbeddingsDone
      BY <1>1, <1>2, <1>3 DEF EmbeddingsDone, Publish, StagePlan
<1>4. CASE Gate
      BY <1>1, <1>2, <1>4 DEF Gate, Raise, BeginStage, Publish, StagePlan
<1>5. CASE CoreDone
      BY <1>1, <1>2, <1>5 DEF CoreDone, Publish, StagePlan
<1>6. CASE Triggers
  <2>1. \A k \in Core : Valid(Embeddings \cup Core) => made[k] > 0
        BY DEF Valid, ValidIsMade
  <2>. QED
        BY <1>1, <1>2, <1>6, <2>1 DEF Triggers, Raise, BeginStage, Publish, StagePlan
<1>7. CASE ConditionalDone
      BY <1>1, <1>2, <1>7 DEF ConditionalDone, Publish, StagePlan
<1>8. CASE Aggregate
      BY <1>1, <1>2, <1>8 DEF Aggregate, Raise, Publish, StagePlan
<1>. QED
     BY <1>3, <1>4, <1>5, <1>6, <1>7, <1>8

\* Steps that publish nothing into the store and begin no stage but the first.
LEMMA OtherStepsKeep ==
    ASSUME IInv, UNCHANGED <<made, gate, verdict>>,
           toRun' \subseteq toRun \/ (main' = "embeddings" /\ toRun' = Embeddings),
           main' = main \/ main' \notin {"core", "decide", "conditional"},
           main' = "embeddings" => main = "embeddings" \/ toRun' = Embeddings,
           status' \in [Tasks -> {"absent", "valid", "damaged"}],
           \A t \in Tasks : status'[t] = "valid" => status[t] = "valid"
    PROVE  IInv'
<1>. USE StagesDisjoint
<1>1. Typed' /\ ValidIsMade'
      BY DEF IInv, Typed, ValidIsMade
<1>2. StagePlan'
      BY DEF IInv, StagePlan
<1>3. ScheduleRespected'
      BY DEF IInv, ScheduleRespected
<1>. QED
     BY <1>1, <1>2, <1>3 DEF IInv

LEMMA Preserved == IInv /\ [Next]_vars => IInv'
<1>. SUFFICES ASSUME IInv, [Next]_vars PROVE IInv'
     OBVIOUS
<1>. USE DEF science, store, memory, disk
<1>1. CASE UNCHANGED vars
      BY <1>1 DEF vars, IInv, Typed, ValidIsMade, StagePlan, ScheduleRespected
<1>2. CASE Launch
      BY <1>2, OtherStepsKeep DEF Launch, BeginStage, IInv, Typed
<1>3. CASE Stages
      BY <1>3, TaskEndsKeeps, StageChanges DEF Stages
<1>4. CASE Publishing
  <2>1. /\ UNCHANGED <<made, gate, verdict, status, toRun>>
        /\ main' \in {"reports", "summary", "package", "stopped", "final", "manifest"}
        BY <1>4 DEF Publishing, WriteDecisions, WriteReports, WriteSummary, Package, WriteManifest, Finish, Raise
  <2>. QED
        BY <2>1, OtherStepsKeep DEF IInv, Typed
<1>5. CASE Environment
  <2>1. CASE DiskFull
        BY <2>1, OtherStepsKeep DEF DiskFull, Raise, IInv, Typed
  <2>2. CASE Kill
        BY <2>2, OtherStepsKeep DEF Kill, BeginStage, IInv, Typed
  <2>3. CASE Reboot
        BY <2>3, OtherStepsKeep DEF Reboot, BeginStage, IInv, Typed
  <2>4. ASSUME NEW t \in Tasks, TaskFails(t) PROVE IInv'
        BY <2>4, TaskFailsKeeps
  <2>5. ASSUME NEW t \in Tasks, Damage(t) PROVE IInv'
        BY <2>5, OtherStepsKeep DEF Damage, IInv, Typed
  <2>. QED
        BY <1>5, <2>1, <2>2, <2>3, <2>4, <2>5 DEF Environment
<1>. QED
     BY <1>1, <1>2, <1>3, <1>4, <1>5 DEF Next, Progress

\* No channel object exists unless the clean gate passed, and none of a family
\* the core rows did not trigger, for every plan and any number of kills,
\* failures, damages and restarts of execute_research_plan.
THEOREM ScheduleKept == Spec => []ScheduleRespected
<1>1. IInv => ScheduleRespected
      BY DEF IInv
<1>. QED
     BY Initially, Preserved, <1>1, PTL DEF Spec

-----------------------------------------------------------------------------
(* What is published of a run.                                             *)

Answers(yes, no) == [f \in Families |-> IF f \in verdict THEN yes ELSE no]

\* The five ways a run ends: its outcome, the rows it reports, the decisions
\* it publishes and the tasks it has asked for.
Told(result, rows_, decisions_, asked) ==
    \/ /\ result = "operational_failure_embeddings"
       /\ rows_ = {} /\ decisions_ = Undecided /\ asked = Embeddings
    \/ /\ result = "blocked_by_clean_gate"
       /\ rows_ = Embeddings /\ asked = Embeddings
       /\ decisions_ = Answers("blocked_by_clean_gate", "blocked_by_clean_gate")
    \/ /\ result = "operational_failure_core"
       /\ rows_ = Embeddings /\ decisions_ = Undecided /\ asked = Embeddings \cup Core
    \/ /\ result = "operational_failure_conditional"
       /\ rows_ = Embeddings \cup Core /\ asked = Complete /\ verdict # {}
       /\ decisions_ = Answers("blocked_by_operational_failure", "not_triggered")
    \/ /\ result = "complete"
       /\ rows_ = Complete /\ asked = Complete
       /\ decisions_ = Answers("triggered_and_run", "not_triggered")

\* Decisions and tasks tell the way a run ended: that is why an archive whose
\* material agrees holds a summary that agrees.
LEMMA ToldOnce ==
    ASSUME verdict \subseteq Families, NEW d, NEW q,
           NEW o1, NEW r1, Told(o1, r1, d, q),
           NEW o2, NEW r2, Told(o2, r2, d, q)
    PROVE  o1 = o2 /\ r1 = r2
<1>1. PICK f \in Families : verdict # {} => f \in verdict
  BY PlanAssumption
<1>2. DOMAIN Undecided # Families
  BY PlanAssumption DEF Undecided
<1>3. \A yes, no : /\ DOMAIN Answers(yes, no) = Families
                   /\ f \in verdict => Answers(yes, no)[f] = yes
                   /\ f \notin verdict => Answers(yes, no)[f] = no
  BY <1>1 DEF Answers
<1>4. Embeddings # Embeddings \cup Core
  BY PlanAssumption
<1>. DEFINE answer == d[f]
<1>5. CASE DOMAIN d = Families
  <2>1. d # Undecided
    BY <1>2, <1>5
  <2>. QED
    BY <1>1, <1>3, <2>1 DEF Told
<1>6. CASE DOMAIN d # Families
  <2>1. \A yes, no : d # Answers(yes, no)
    BY <1>3, <1>6
  <2>. QED
    BY <1>4, <2>1 DEF Told
<1>. QED
  BY <1>5, <1>6

Publishes == {"decisions", "reports", "summary", "package", "manifest", "final"}

\* The tasks a run has asked for, at each point of it.
Asked ==
    /\ main = "embeddings" => requested = {}
    /\ main \in {"gate", "core"} => requested = Embeddings
    /\ main \in {"decide", "conditional"} => requested = Embeddings \cup Core
    /\ main = "conditional" =>
          /\ rows = Embeddings \cup Core /\ verdict # {}
          /\ \A f \in Families \ verdict : decisions[f] = "not_triggered"
    /\ main = "aggregate" =>
          /\ requested = Complete
          /\ \A f \in Families \ verdict : decisions[f] = "not_triggered"

\* What has been written is what the run has in memory.
Written ==
    /\ DOMAIN published = {"decisions", "reports", "summary"}
    /\ main \in Publishes => Told(outcome, rows, decisions, requested)
    /\ main \in Publishes \ {"decisions"} => published.decisions = decisions
    /\ main \in Publishes \ {"decisions", "reports"} => (rows # {} => published.reports = rows)
    /\ main \in {"package", "manifest", "final"} => published.summary = Summary(None)

\* Every archive tells of its run in both of its parts.
ArchivesTold ==
    /\ listed \subseteq archives
    /\ \A a \in archives :
          Told(a.summary.outcome, a.summary.rows, a.material.decisions, DOMAIN a.material.attempts)

Whole(a) ==
    /\ DOMAIN a.material.objects = Complete /\ a.material.missing = {}
    /\ a.material.reports = Complete
    /\ a.material.decisions = Answers("triggered_and_run", "not_triggered")

\* An archive that is about to be named, or is named, agrees with the summary.
BundleAgrees ==
    main \in {"manifest", "final"} =>
        /\ bundle \in archives
        /\ bundle.summary.outcome = outcome /\ bundle.summary.rows = rows
        /\ outcome = "complete" => Whole(bundle)
NamedAgrees ==
    (published.summary # None /\ published.summary.bundle # None) =>
        LET a == published.summary.bundle IN
        /\ a \in archives
        /\ a.summary.outcome = published.summary.outcome
        /\ a.summary.rows = published.summary.rows
        /\ published.summary.outcome = "complete" => Whole(a) /\ published.summary.rows = Complete

PublishInv ==
    /\ verdict \subseteq Families
    /\ Asked /\ Written /\ ArchivesTold /\ BundleAgrees /\ NamedAgrees /\ ReportsMatchSummary

LEMMA PublishInit == Init => PublishInv
BY DEF Init, PublishInv, Asked, Written, ArchivesTold, BundleAgrees, NamedAgrees,
   ReportsMatchSummary, Publishes

\* A step that leaves the run's memory alone.
LEMMA MemoryKept ==
    ASSUME PublishInv,
           UNCHANGED <<verdict, main, requested, outcome, rows, decisions, bundle, disk, exit>>
    PROVE  PublishInv'
<1>. USE DEF disk, PublishInv
<1>1. Asked'
  BY DEF Asked, Complete
<1>2. Written'
  BY DEF Written, Told, Answers, Complete, Summary
<1>3. ArchivesTold'
  BY DEF ArchivesTold, Told, Answers, Complete
<1>4. BundleAgrees'
  BY DEF BundleAgrees, Whole, Answers, Complete
<1>5. NamedAgrees' /\ ReportsMatchSummary'
  BY DEF NamedAgrees, Whole, Answers, Complete, ReportsMatchSummary
<1>. QED
  BY <1>1, <1>2, <1>3, <1>4, <1>5

\* A step that writes no file: it begins or ends a stage, or ends the run
\* without one of its own statuses.
LEMMA OffDisk ==
    ASSUME PublishInv, Asked', UNCHANGED <<verdict, disk>>,
           main' \notin Publishes \ {"decisions"},
           main' = "decisions" => Told(outcome', rows', decisions', requested'),
           main' = "stopped" => exit' = 1
    PROVE  PublishInv'
<1>. USE DEF disk, PublishInv
<1>1. Written'
  BY DEF Written, Told, Answers, Complete, Publishes
<1>2. ArchivesTold'
  BY DEF ArchivesTold, Told, Answers, Complete
<1>3. BundleAgrees' /\ ReportsMatchSummary'
  BY DEF BundleAgrees, ReportsMatchSummary, Publishes
<1>4. NamedAgrees'
  BY DEF NamedAgrees, Whole, Answers, Complete
<1>. QED
  BY <1>1, <1>2, <1>3, <1>4

\* What the triggers answer once the core rows are all there.
LEMMA DecideAnswers ==
    /\ ~ gate => \A q : Decide(q) = Answers("blocked_by_clean_gate", "blocked_by_clean_gate")
    /\ gate => Decide(Embeddings \cup Core) = Answers("triggered", "not_triggered")
BY DEF Decide, Answers

LEMMA SettledAnswers ==
    ASSUME NEW answer, \A f \in Families \ verdict : decisions[f] = "not_triggered"
    PROVE  Settled(answer) = Answers(answer, "not_triggered")
BY DEF Settled, Answers

\* Each stage ends in one of the five ways a run can end, or in the next stage.
LEMMA StagesTold ==
    ASSUME IInv, PublishInv,
           EmbeddingsDone \/ Gate \/ CoreDone \/ Triggers \/ ConditionalDone \/ Aggregate
    PROVE  PublishInv'
<1>. DEFINE Kept == /\ UNCHANGED <<verdict, disk>>
                    /\ main' \notin Publishes \ {"decisions"}
                    /\ main' = "stopped" => exit' = 1
<1>. USE DEF science, Publishes, PublishInv
<1>1. CASE EmbeddingsDone
  <2>1. Kept /\ Asked'
    BY <1>1 DEF EmbeddingsDone, Publish, Asked
  <2>2. main' = "decisions" => Told(outcome', rows', decisions', requested')
    BY <1>1 DEF EmbeddingsDone, Publish, Asked, Told
  <2>. QED
    BY <2>1, <2>2, OffDisk
<1>2. CASE Gate
  <2>1. Kept /\ Asked'
    BY <1>2 DEF Gate, Publish, Raise, BeginStage, Asked
  <2>2. main' = "decisions" => Told(outcome', rows', decisions', requested')
    BY <1>2, DecideAnswers DEF Gate, Publish, Raise, BeginStage, Asked, Told
  <2>. QED
    BY <2>1, <2>2, OffDisk
<1>3. CASE CoreDone
  <2>1. Kept /\ Asked'
    BY <1>3 DEF CoreDone, Publish, Asked
  <2>2. main' = "decisions" => Told(outcome', rows', decisions', requested')
    BY <1>3 DEF CoreDone, Publish, Asked, Told
  <2>. QED
    BY <2>1, <2>2, OffDisk
<1>4. CASE Triggers
  <2>1. gate /\ requested = Embeddings \cup Core
    BY <1>4 DEF Triggers, IInv, StagePlan, Asked
  <2>2. \A f \in Families \ verdict : Decide(Embeddings \cup Core)[f] = "not_triggered"
    BY <2>1, DecideAnswers DEF Answers
  <2>3. Kept /\ Asked'
    BY <1>4, <2>1, <2>2 DEF Triggers, Publish, Raise, BeginStage, Asked
  <2>4. verdict = {} => /\ Complete = Embeddings \cup Core
                        /\ Answers("triggered", "not_triggered") = Answers("triggered_and_run", "not_triggered")
    BY DEF Complete, Answers
  <2>5. main' = "decisions" => Told(outcome', rows', decisions', requested')
    BY <1>4, <2>1, <2>4, DecideAnswers DEF Triggers, Publish, Raise, BeginStage, Told
  <2>. QED
    BY <2>3, <2>5, OffDisk
<1>5. CASE ConditionalDone
  <2>1. /\ requested' = Complete /\ rows = Embeddings \cup Core /\ verdict # {}
        /\ \A f \in Families \ verdict : decisions[f] = "not_triggered"
    BY <1>5 DEF ConditionalDone, Asked, Complete
  <2>2. Settled("blocked_by_operational_failure")
          = Answers("blocked_by_operational_failure", "not_triggered")
    BY <2>1, SettledAnswers
  <2>3. Kept /\ Asked'
    BY <1>5, <2>1 DEF ConditionalDone, Publish, Asked, Complete
  <2>4. main' = "decisions" => Told(outcome', rows', decisions', requested')
    BY <1>5, <2>1, <2>2 DEF ConditionalDone, Publish, Told
  <2>. QED
    BY <2>3, <2>4, OffDisk
<1>6. CASE Aggregate
  <2>1. /\ requested = Complete
        /\ Settled("triggered_and_run") = Answers("triggered_and_run", "not_triggered")
    BY <1>6, SettledAnswers DEF Aggregate, Asked
  <2>2. Kept /\ Asked'
    BY <1>6 DEF Aggregate, Publish, Raise, Asked
  <2>3. main' = "decisions" => Told(outcome', rows', decisions', requested')
    BY <1>6, <2>1 DEF Aggregate, Publish, Raise, Told, Complete
  <2>. QED
    BY <2>2, <2>3, OffDisk
<1>. QED
  BY <1>1, <1>2, <1>3, <1>4, <1>5, <1>6

\* The files of the run directory are written one by one.
LEMMA FilesTold ==
    ASSUME PublishInv, WriteDecisions \/ WriteReports \/ WriteSummary \/ WriteManifest
    PROVE  PublishInv'
<1>. USE DEF science, memory, Publishes, PublishInv
<1>1. UNCHANGED <<verdict, requested, outcome, rows, decisions, bundle, archives, exit>>
  BY DEF WriteDecisions, WriteReports, WriteSummary, WriteManifest
<1>2. Asked' /\ ReportsMatchSummary'
  BY <1>1 DEF WriteDecisions, WriteReports, WriteSummary, WriteManifest, Asked, ReportsMatchSummary
<1>3. Told(outcome, rows, decisions, requested)' <=> Told(outcome, rows, decisions, requested)
  BY <1>1 DEF Told, Answers, Complete
<1>4. Written'
  <2>1. CASE WriteDecisions
    BY <1>1, <1>3, <2>1 DEF WriteDecisions, Written
  <2>2. CASE WriteReports
    BY <1>1, <1>3, <2>2 DEF WriteReports, Written
  <2>3. CASE WriteSummary
    BY <1>1, <1>3, <2>3 DEF WriteSummary, Written, Summary
  <2>4. CASE WriteManifest
    BY <1>1, <1>3, <2>4 DEF WriteManifest, Written, Summary
  <2>. QED
    BY <2>1, <2>2, <2>3, <2>4
<1>5. ArchivesTold'
  <2>1. listed' \subseteq archives
    BY DEF WriteDecisions, WriteReports, WriteSummary, WriteManifest, ArchivesTold, BundleAgrees
  <2>. QED
    BY <1>1, <2>1 DEF ArchivesTold, Told, Answers, Complete
<1>6. BundleAgrees'
  BY <1>1 DEF WriteDecisions, WriteReports, WriteSummary, WriteManifest, BundleAgrees, Whole,
     Answers, Complete
<1>7. published'.summary = published.summary \/ published'.summary.bundle = None
  BY DEF WriteDecisions, WriteReports, WriteSummary, WriteManifest, Written, Summary
<1>8. NamedAgrees'
  BY <1>1, <1>7 DEF NamedAgrees, Whole, Answers, Complete
<1>. QED
  BY <1>1, <1>2, <1>4, <1>5, <1>6, <1>8

\* An archive made or reused tells of this run; one of a complete run is whole.
LEMMA PackageTold ==
    ASSUME PublishInv, Package
    PROVE  PublishInv'
<1>. USE DEF science, PublishInv
<1>1. /\ main = "package"
      /\ UNCHANGED <<verdict, requested, outcome, rows, decisions, published, listed>>
  BY DEF Package
<1>2. /\ Told(outcome, rows, decisions, requested)
      /\ published.decisions = decisions /\ published.summary = Summary(None)
      /\ rows # {} => published.reports = rows
  BY <1>1 DEF Written, Publishes
<1>3. CASE main' = "stopped" /\ exit' = 1 /\ UNCHANGED <<bundle, archives>>
  BY <1>1, <1>3, OffDisk DEF disk, Asked, Publishes
<1>4. CASE /\ main' \in {"manifest", "final"} /\ UNCHANGED exit
           /\ outcome = "complete" => Present = requested
           /\ bundle' \in archives' /\ bundle'.material = Material
           /\ archives \subseteq archives' /\ archives' \subseteq archives \cup {bundle'}
           /\ bundle' \in archives \/ bundle'.summary = published.summary
  <2>1. /\ Material.decisions = decisions /\ DOMAIN Material.attempts = requested
        /\ Material.missing = requested \ Present /\ DOMAIN Material.objects = Present
        /\ Material.reports = published.reports
    BY <1>2 DEF Material
  <2>2. bundle'.summary.outcome = outcome /\ bundle'.summary.rows = rows
    <3>1. CASE bundle' \in archives
      <4>1. Told(bundle'.summary.outcome, bundle'.summary.rows, decisions, requested)
        BY <1>4, <2>1, <3>1 DEF ArchivesTold
      <4>. QED
        BY <1>2, <4>1, ToldOnce
    <3>2. CASE bundle'.summary = published.summary
      BY <1>2, <3>2 DEF Summary
    <3>. QED
      BY <1>4, <3>1, <3>2
  <2>3. outcome = "complete" => Whole(bundle')
    <3>. SUFFICES ASSUME outcome = "complete" PROVE Whole(bundle')
      OBVIOUS
    <3>1. /\ rows = Complete /\ requested = Complete
          /\ decisions = Answers("triggered_and_run", "not_triggered")
      BY <1>2 DEF Told
    <3>2. Complete # {}
      BY PlanAssumption DEF Complete
    <3>. QED
      BY <1>2, <1>4, <2>1, <3>1, <3>2 DEF Whole
  <2>4. BundleAgrees'
    BY <1>1, <1>4, <2>2, <2>3 DEF BundleAgrees, Whole, Answers, Complete
  <2>5. ArchivesTold'
    <3>1. Told(bundle'.summary.outcome, bundle'.summary.rows,
               bundle'.material.decisions, DOMAIN bundle'.material.attempts)
      BY <1>2, <1>4, <2>1, <2>2
    <3>2. \A a \in archives' :
              Told(a.summary.outcome, a.summary.rows, a.material.decisions, DOMAIN a.material.attempts)
      BY <1>4, <3>1 DEF ArchivesTold
    <3>. QED
      BY <1>1, <1>4, <3>2 DEF ArchivesTold, Told, Answers, Complete
  <2>6. NamedAgrees'
    BY <1>1, <1>4 DEF NamedAgrees, Whole, Answers, Complete
  <2>7. Asked' /\ ReportsMatchSummary'
    BY <1>1, <1>4 DEF Asked, ReportsMatchSummary
  <2>8. Written'
    BY <1>1, <1>2, <1>4 DEF Written, Publishes, Told, Answers, Complete, Summary
  <2>. QED
    BY <1>1, <2>4, <2>5, <2>6, <2>7, <2>8
<1>. QED
  <2>1. Reusable # {} => (CHOOSE a \in Reusable : TRUE) \in Reusable
    OBVIOUS
  <2>2. Reusable \subseteq archives /\ \A a \in Reusable : a.material = Material
    BY DEF Reusable, ArchivesTold
  <2>. QED
    BY <1>3, <1>4, <2>1, <2>2 DEF Package, Raise

\* The summary names the archive last.
LEMMA FinishTold ==
    ASSUME PublishInv, Finish
    PROVE  PublishInv'
<1>. USE DEF science, memory, Publishes, PublishInv
<1>1. /\ main = "final" /\ main' = "stopped"
      /\ UNCHANGED <<verdict, requested, outcome, rows, decisions, bundle, archives, listed>>
      /\ DOMAIN published' = DOMAIN published
      /\ published'.summary = Summary(bundle)
      /\ published'.reports = published.reports
  BY DEF Finish, Written
<1>2. /\ Told(outcome, rows, decisions, requested)
      /\ rows # {} => published.reports = rows
  BY <1>1 DEF Written
<1>3. Asked' /\ Written'
  BY <1>1 DEF Asked, Written
<1>4. ArchivesTold' /\ BundleAgrees'
  BY <1>1 DEF ArchivesTold, BundleAgrees, Told, Answers, Complete
<1>5. outcome = "complete" => rows = Complete
  BY <1>2 DEF Told
<1>6. NamedAgrees'
  BY <1>1, <1>5 DEF NamedAgrees, BundleAgrees, Summary, Whole, Answers, Complete
<1>7. ReportsMatchSummary'
  <2>1. IF outcome = "operational_failure_embeddings" THEN rows = {} ELSE rows # {}
    BY <1>2, PlanAssumption DEF Told, Complete
  <2>. QED
    BY <1>1, <1>2, <2>1 DEF ReportsMatchSummary, Summary
<1>. QED
  BY <1>1, <1>3, <1>4, <1>6, <1>7

LEMMA PublishStep == IInv /\ PublishInv /\ [Next]_vars => PublishInv'
<1>. SUFFICES ASSUME IInv, PublishInv, [Next]_vars PROVE PublishInv'
  OBVIOUS
<1>1. CASE UNCHANGED vars
  BY <1>1, MemoryKept DEF vars, science, memory
<1>2. CASE Launch
  BY <1>2, OffDisk DEF Launch, BeginStage, Forget, science, Asked, Publishes
<1>3. CASE Stages
  <2>1. ASSUME NEW t \in Tasks, TaskEnds(t) PROVE PublishInv'
    BY <2>1, MemoryKept DEF TaskEnds, science
  <2>. QED
    BY <1>3, <2>1, StagesTold DEF Stages
<1>4. CASE Publishing
  BY <1>4, FilesTold, PackageTold, FinishTold DEF Publishing
<1>5. CASE Environment
  <2>1. CASE DiskFull
    BY <2>1, OffDisk DEF DiskFull, Raise, science, memory, Asked, Publishes
  <2>2. CASE Kill
    BY <2>2, OffDisk DEF Kill, BeginStage, Forget, science, Asked, Publishes
  <2>3. CASE Reboot
    BY <2>3, OffDisk DEF Reboot, BeginStage, Forget, science, Asked, Publishes
  <2>4. ASSUME NEW t \in Tasks, TaskFails(t) \/ Damage(t) PROVE PublishInv'
    BY <2>4, MemoryKept DEF TaskFails, Damage, science, memory
  <2>. QED
    BY <1>5, <2>1, <2>2, <2>3, <2>4 DEF Environment
<1>. QED
  BY <1>1, <1>2, <1>3, <1>4, <1>5 DEF Next, Progress

LEMMA Published == Spec => []PublishInv
BY Initially, Preserved, PublishInit, PublishStep, PTL DEF Spec

\* A summary that says complete and names a bundle names an archive with every
\* object the reports are made of, whatever was killed, damaged, failed and run
\* again (create_download_bundle).
THEOREM CompleteIsWhole == Spec => []CompleteMeansWhole
<1>1. PublishInv => CompleteMeansWhole
  BY DEF PublishInv, NamedAgrees, CompleteMeansWhole, Whole, Answers
<1>. QED
  BY Published, <1>1, PTL

\* An archive reused by a later run tells the outcome and the rows of the
\* summary that names it, though neither is compared (create_download_bundle).
THEOREM ArchiveAgrees == Spec => []ArchivedSummaryAgrees
<1>1. PublishInv => ArchivedSummaryAgrees
  BY DEF PublishInv, NamedAgrees, ArchivedSummaryAgrees
<1>. QED
  BY Published, <1>1, PTL

\* When a run has ended its reports are of the rows its summary counts; only a
\* summary of failed embeddings, which counts none, sits beside older reports
\* (execute_research_plan).
THEOREM ReportsAgree == Spec => []ReportsMatchSummary
<1>1. PublishInv => ReportsMatchSummary
  BY DEF PublishInv
<1>. QED
  BY Published, <1>1, PTL

-----------------------------------------------------------------------------
(* Every stage is the one TaskStage promises.                              *)

LEMMA BeginsStage ==
    ASSUME NEW stage \in {"embeddings", "core", "conditional"}, NEW tasks \in SUBSET Tasks,
           ~ InStage, BeginStage(stage, tasks), UNCHANGED status
    PROVE  Stage!Begin(tasks)
<1>1. ~ InStage /\ InStage'
  BY DEF BeginStage, InStage
<1>. QED
  BY <1>1 DEF BeginStage, Stage!Begin

\* Steps before, between and after the stages.
LEMMA OutsideStages ==
    ASSUME ~ InStage, ~ InStage', UNCHANGED <<toRun, failed, status>>
    PROVE  UNCHANGED Stage!vars
BY DEF Stage!vars

LEMMA StagesStep ==
    ASSUME IInv, Stages
    PROVE  [Stage!Next]_(Stage!vars)
<1>1. ASSUME NEW t \in Tasks, TaskEnds(t) PROVE [Stage!Next]_(Stage!vars)
  <2>1. /\ InStage /\ InStage' = InStage /\ t \in toRun /\ toRun' = toRun \ {t}
        /\ status \in [Tasks -> {"absent", "valid", "damaged"}]
    BY <1>1 DEF TaskEnds, InStage, IInv, Typed
  <2>2. CASE status' = [status EXCEPT ![t] = "valid"] /\ failed' = failed
    BY <2>1, <2>2 DEF Stage!Next, Stage!Succeed, Stage!Become
  <2>3. CASE status[t] = "valid" /\ UNCHANGED <<status, failed>>
    <3>1. status' = [status EXCEPT ![t] = "valid"]
      BY <2>1, <2>3
    <3>. QED
      BY <2>2, <2>3, <3>1
  <2>4. CASE status[t] # "valid" /\ UNCHANGED status /\ failed' = failed \cup {t}
    <3>1. Stage!Fail({t}, {})
      BY <2>1, <2>4 DEF Stage!Fail
    <3>. QED
      BY <2>1, <3>1 DEF Stage!Next
  <2>. QED
    BY <1>1, <2>2, <2>3, <2>4 DEF TaskEnds
<1>2. CASE EmbeddingsDone \/ CoreDone \/ ConditionalDone
  <2>1. /\ InStage /\ ~ InStage' /\ toRun = {} /\ UNCHANGED <<toRun, failed, status>>
    BY <1>2 DEF EmbeddingsDone, CoreDone, ConditionalDone, Publish, InStage, store
  <2>. QED
    BY <2>1 DEF Stage!Next, Stage!Close
<1>3. CASE Gate
  <2>1. ~ InStage /\ UNCHANGED status
    BY <1>3 DEF Gate, InStage, store
  <2>2. CASE BeginStage("core", Core)
    BY <2>1, <2>2, BeginsStage, StagesDisjoint DEF Stage!Next
  <2>3. CASE main' \in {"stopped", "decisions"} /\ UNCHANGED <<toRun, failed>>
    BY <2>1, <2>3, OutsideStages DEF InStage
  <2>. QED
    BY <1>3, <2>2, <2>3 DEF Gate, Raise, Publish
<1>4. CASE Triggers
  <2>1. ~ InStage /\ UNCHANGED status /\ verdict \in SUBSET Tasks
    BY <1>4, StagesDisjoint DEF Triggers, InStage, store, IInv, Typed
  <2>2. CASE BeginStage("conditional", verdict)
    BY <2>1, <2>2, BeginsStage DEF Stage!Next
  <2>3. CASE main' \in {"stopped", "decisions"} /\ UNCHANGED <<toRun, failed>>
    BY <2>1, <2>3, OutsideStages DEF InStage
  <2>. QED
    BY <1>4, <2>2, <2>3 DEF Triggers, Raise, Publish
<1>5. CASE Aggregate
  <2>1. ~ InStage /\ ~ InStage' /\ UNCHANGED <<toRun, failed, status>>
    BY <1>5 DEF Aggregate, Raise, Publish, InStage, store
  <2>. QED
    BY <2>1, OutsideStages
<1>. QED
  BY <1>1, <1>2, <1>3, <1>4, <1>5 DEF Stages

LEMMA EnvironmentStep ==
    ASSUME IInv, Environment
    PROVE  [Stage!Next]_(Stage!vars)
<1>1. CASE DiskFull
  <2>1. ~ InStage /\ ~ InStage' /\ UNCHANGED <<toRun, failed, status>>
    BY <1>1 DEF DiskFull, Startable, Raise, InStage, memory, store
  <2>. QED
    BY <2>1, OutsideStages
<1>2. CASE Kill \/ Reboot
  <2>1. ~ InStage' /\ toRun' = {} /\ failed' = {} /\ UNCHANGED status
    BY <1>2 DEF Kill, Reboot, BeginStage, InStage, store
  <2>. QED
    BY <2>1 DEF Stage!Next, Stage!Abandon
<1>3. ASSUME NEW t \in Tasks, TaskFails(t) PROVE [Stage!Next]_(Stage!vars)
  <2>1. /\ InStage /\ InStage' = InStage /\ t \in toRun /\ toRun' = toRun \ {t}
        /\ status[t] # "valid" /\ failed' = failed \cup {t}
        /\ status \in [Tasks -> {"absent", "valid", "damaged"}]
        /\ status' = status \/ status' = [status EXCEPT ![t] = "valid"]
    BY <1>3 DEF TaskFails, InStage, IInv, Typed
  <2>2. CASE status' = status
    <3>1. Stage!Fail({t}, {})
      BY <2>1, <2>2 DEF Stage!Fail
    <3>. QED
      BY <3>1 DEF Stage!Next
  <2>3. CASE status' = [status EXCEPT ![t] = "valid"]
    <3>1. Stage!Fail({t}, {t})
      BY <2>1, <2>3 DEF Stage!Fail
    <3>. QED
      BY <3>1 DEF Stage!Next
  <2>. QED
    BY <2>1, <2>2, <2>3
<1>4. ASSUME NEW t \in Tasks, Damage(t) PROVE [Stage!Next]_(Stage!vars)
  <2>1. Stage!Decay(t)
    BY <1>4 DEF Damage, Stage!Decay, Stage!Become, InStage, memory
  <2>. QED
    BY <2>1 DEF Stage!Next
<1>. QED
  BY <1>1, <1>2, <1>3, <1>4 DEF Environment

LEMMA RunStep ==
    ASSUME IInv, [Next]_vars
    PROVE  [Stage!Next]_(Stage!vars)
<1>1. CASE Launch
  <2>1. ~ InStage /\ BeginStage("embeddings", Embeddings) /\ UNCHANGED status
    BY <1>1 DEF Launch, Startable, InStage, store
  <2>. QED
    BY <2>1, BeginsStage, StagesDisjoint DEF Stage!Next
<1>2. CASE Publishing
  <2>1. ~ InStage /\ ~ InStage' /\ UNCHANGED <<toRun, failed, status>>
    BY <1>2 DEF Publishing, WriteDecisions, WriteReports, WriteSummary, Package, WriteManifest,
       Finish, Raise, InStage, memory, store
  <2>. QED
    BY <2>1, OutsideStages
<1>3. CASE UNCHANGED vars
  BY <1>3 DEF vars, memory, store, InStage, Stage!vars
<1>. QED
  BY <1>1, <1>2, <1>3, StagesStep, EnvironmentStep DEF Next, Progress

LEMMA RunStarts == Init => Stage!Init
BY DEF Init, Stage!Init, InStage

\* For every study and any number of faults, the three stages of a run, of all
\* its restarts, are stages as TaskStage promises them: what DurableRunner is
\* proved to keep is all the research run asks of it. A failed task may have its
\* object, put there by its own call; none fails whose object was found.
THEOREM StagesPromised ==
    Spec => StagesAsPromised
<1>1. IInv /\ [Next]_vars => [Stage!Next]_(Stage!vars)
  BY RunStep
<1>. QED
  BY <1>1, RunStarts, Initially, Preserved, PTL DEF Spec, StagesAsPromised, Stage!Spec

=============================================================================
