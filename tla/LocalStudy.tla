----------------------------- MODULE LocalStudy -----------------------------
(***************************************************************************)
(* A FINAL-5J study on one machine: dispatch_research verifies the bound   *)
(* plan and everything it names, then run_local_study executes the         *)
(* embeddings, accepts them, and executes the evaluations. Every task is a *)
(* worker process that re-reads its inputs and goes through the store.     *)
(*                                                                         *)
(* DurableRunner has the pool, its retries and its kills, ContentStore the *)
(* renames; here a stage runs its tasks one at a time, in any order, and an*)
(* object is published in one step. Tasks share nothing but their inputs.  *)
(* What a worker checks it opens once more to use it: whatever is edited or*)
(* damaged in between is used unnoticed.                                   *)
(***************************************************************************)
EXTENDS PlanFreeze

CONSTANTS
    Methods,     \* the methods of the plan, one pair and one channel each
    Baselines,   \* B1, B2: computed without the transform
    Adaptive     \* A and D variants: allocation by the stability profile

ASSUME MethodsAssumption == Baselines \subseteq Methods /\ Adaptive \subseteq Methods \ Baselines

VARIABLES
    frozen,      \* execution_plan.json of the run directory
    summary,     \* its dispatch_summary.json
    objects,     \* the published objects
    damaged,     \* identities whose object fails its inventory
    decodes,     \* does a method's clean embedding of the pair decode?
    task,        \* the task the worker executes
    pending,     \* the tasks its stage still has to finish
    lost         \* the stage gave up on a task

runVars == <<frozen, summary>>
storeVars == <<objects, damaged>>
stageVars == <<task, pending, lost>>
studyVars == <<runVars, storeVars, decodes, stageVars>>

-----------------------------------------------------------------------------
Tasks(kind) == [kind : {kind}, method : Methods]

\* _embedding_identity and _evaluation_identity: what the digest covers.
Identity(t, plan) ==
    [ task    |-> t,
      common  |-> plan.from,
      runtime |-> plan.runtime,
      rows    |-> plan.rows,
      method  |-> IF t.method \in Baselines THEN plan.contracts ELSE plan.from["source"] ]

Published(id) == \E o \in objects : o.id = id
ObjectAt(id)  == CHOOSE o \in objects : o.id = id
Valid(id)     == Published(id) /\ id \notin damaged

StudyInit ==
    /\ frozen = Missing
    /\ summary = Missing
    /\ objects = {}
    /\ damaged = {}
    /\ decodes \in [Methods -> BOOLEAN]
    /\ task = Missing
    /\ pending = {}
    /\ lost = FALSE

-----------------------------------------------------------------------------
(* dispatch_research: everything the plan names is read again.             *)

Recorded == [f \in Bound \cup CreatedFrom |->
                IF f \in Bound THEN binding[f] ELSE bound.from[f]]

CreatedFromReads ==
    << Check("study"), Check("main"), Check("sweep"), Check("registry"),
       Check("config"), Check("source") >>
PairReads ==
    << Parse("main"), Fits("sweep"), Fits("images") >>
DispatchReads == ValidatorReads \o CreatedFromReads \o PairReads

\* dispatch_research, or run_research, which makes the same checks and stops.
StartDispatch ==
    /\ running = "none"
    /\ bound # Missing
    /\ bound.runtime = binding
    /\ Load("dispatch")
    /\ UNCHANGED <<inputVars, planVars, studyVars>>

DispatchVerifies ==
    /\ running = "dispatch"
    /\ ReadNext(DispatchReads, Recorded)
    /\ UNCHANGED <<planVars, studyVars>>

\* A program stops with an error; a stage that was running is over.
Stop ==
    /\ Exit
    /\ task' = Missing
    /\ pending' = {}
    /\ lost' = FALSE

\* Mutant: the plan is written whatever is there.
ClaimAnyway(plan) == frozen' = plan

\* A run directory belongs to the plan that was frozen in it.
Claim(plan) ==
    /\ frozen \in {Missing, plan}
    /\ frozen' = plan

\* Mutant: the rows the tasks were expanded from are not compared.
PairsUnchecked == TRUE

\* resolve_pair_inputs: the rows are those the tasks were expanded from.
PairsResolve == seen[Parse("main")] = bound.rows

\* The plan stands and its inputs are there: the study may begin.
DispatchBegins ==
    /\ Through("dispatch", DispatchReads)
    /\ PairsResolve
    /\ Claim(bound)
    /\ Load("embeddings")
    /\ pending' = Tasks("embedding")
    /\ UNCHANGED <<inputVars, planVars, summary, storeVars, decodes, task, lost>>

\* run_research stops after the preflight.
PreflightPasses ==
    /\ Through("dispatch", DispatchReads)
    /\ PairsResolve
    /\ Claim(bound)
    /\ Exit
    /\ UNCHANGED <<inputVars, planVars, summary, storeVars, decodes, stageVars>>

DispatchAborts ==
    /\ running = "dispatch"
    /\ \/ refused
       \/ /\ Through("dispatch", DispatchReads)
          /\ ~ PairsResolve \/ frozen \notin {Missing, bound}
    /\ Stop
    /\ UNCHANGED <<inputVars, planVars, runVars, storeVars, decodes>>

-----------------------------------------------------------------------------
(* The tasks of a stage.                                                   *)

StageOf(kind) == IF kind = "embedding" THEN "embeddings" ELSE "evaluations"

StageTakes(t) ==
    /\ running = StageOf(t.kind)
    /\ t \in pending
    /\ IF Valid(Identity(t, bound))
       THEN pending' = pending \ {t} /\ UNCHANGED <<task, programVars>>
       ELSE task' = t /\ Load("worker") /\ UNCHANGED pending
    /\ UNCHANGED <<inputVars, planVars, runVars, storeVars, decodes, lost>>

\* _load_config, _pair, _stability: the file is hashed, then opened.
Opens(f) == << Check(f), Parse(f) >>

\* An adapter inventories the toolbox when it is made and holds it against the
\* evidence; only an adaptive method loads the stability profile.
ToolboxRead == Parse("toolbox")
EvidenceFits == Fits("stage0")
AdapterReads == << ToolboxRead, EvidenceFits >>
ProfileReads(method) == IF method \in Adaptive THEN Opens("stability") ELSE << >>

\* The store verifies the embedding; its record and its image are read after.
VerifyEmbedding == Check("embedding")
ReadEmbedding   == Parse("embedding")

\* The embedding an evaluation read failed cleanly: there is nothing to decode.
NothingToDecode ==
    ReadEmbedding \in DOMAIN seen /\ seen[ReadEmbedding].status = "scientific_failure"

PairAndEmbedding(t) ==
    IF t.kind = "embedding" THEN Opens("images")
    ELSE Opens("images") \o << VerifyEmbedding, ReadEmbedding >>

\* Mutant: the configuration is parsed without comparing its digest.
ConfigUnchecked == << Parse("config") >>

ConfigReads == Opens("config")

InternalReads(t) ==
    ( IF t.kind = "embedding"
      THEN ConfigReads \o PairAndEmbedding(t)
      ELSE PairAndEmbedding(t) \o ConfigReads )
    \o ProfileReads(t.method) \o AdapterReads

BaselineReads(t) == PairAndEmbedding(t)

WorkerReads(t) ==
    IF t.method \in Baselines THEN BaselineReads(t)
    ELSE IF NothingToDecode THEN PairAndEmbedding(t)
    ELSE InternalReads(t)

\* The context names the configuration and the profile, the task the images.
Context == [f \in {"config", "stability", "images"} |->
               CASE f = "config"    -> bound.from["config"]
                 [] f = "stability" -> binding["stability"]
                 [] f = "images"    -> bound.rows]

EmbeddingOf(t) == [t EXCEPT !.kind = "embedding"]

AtEmbedding(how) == at <= Len(WorkerReads(task)) /\ WorkerReads(task)[at] = how

WorkerReadsNext ==
    /\ running = "worker"
    /\ ~ AtEmbedding(VerifyEmbedding) /\ ~ AtEmbedding(ReadEmbedding)
    /\ ReadNext(WorkerReads(task), Context)
    /\ UNCHANGED <<planVars, studyVars>>

EmbeddingId == Identity(EmbeddingOf(task), bound)

\* Mutant: the embedding was accepted before the stage began.
EmbeddingAccepted == Published(EmbeddingId)

\* store.verify(embedding_id, deep=True)
EmbeddingVerifies == Valid(EmbeddingId)

WorkerVerifiesEmbedding ==
    /\ running = "worker"
    /\ AtEmbedding(VerifyEmbedding)
    /\ ~ refused
    /\ Learn(VerifyEmbedding, TRUE)
    /\ refused' = ~ EmbeddingVerifies
    /\ at' = at + 1
    /\ UNCHANGED <<running, slipped, inputVars, planVars, studyVars>>

\* How it ended, and its image: as they are by now. A record that cannot be
\* read any more fails the worker (WorkerFails).
WorkerReadsEmbedding ==
    /\ running = "worker"
    /\ AtEmbedding(ReadEmbedding)
    /\ ~ refused
    /\ Learn(ReadEmbedding, [status |-> ObjectAt(EmbeddingId).status, sound |-> Valid(EmbeddingId)])
    /\ at' = at + 1
    /\ UNCHANGED <<running, refused, slipped, inputVars, planVars, studyVars>>

\* The fingerprint of the profile is that of the transform in use.
TransformFingerprint == seen[ToolboxRead]
TransformFits ==
    Parse("stability") \in DOMAIN seen => seen[Parse("stability")] = TransformFingerprint

\* A clean failure of the embedding is a result; so is what it leaves out.
EmbeddingOutcome == IF decodes[task.method] THEN "complete" ELSE "scientific_failure"
EvaluationOutcome == IF NothingToDecode THEN "not_evaluated" ELSE "measured"
Outcome == IF task.kind = "embedding" THEN EmbeddingOutcome ELSE EvaluationOutcome

\* The bytes an object was computed from, and the embedding as it was then.
Made == [f \in {g \in Files \cup {"embedding"} : Parse(g) \in DOMAIN seen} |-> seen[Parse(f)]]

\* The object takes the place of a damaged one; its stage goes on.
WorkerCompletes ==
    /\ running = "worker"
    /\ Through("worker", WorkerReads(task))
    /\ TransformFits
    /\ LET id == Identity(task, bound) IN
       /\ objects' = {o \in objects : o.id # id}
                       \cup {[id |-> id, status |-> Outcome, made |-> Made, slipped |-> slipped]}
       /\ damaged' = damaged \ {id}
    /\ Load(StageOf(task.kind))
    /\ pending' = pending \ {task}
    /\ task' = Missing
    /\ UNCHANGED <<inputVars, planVars, runVars, decodes, lost>>

\* Any read may find other bytes, the transform may fail or time out: the
\* runner tries again or gives the task up.
WorkerFails ==
    /\ running = "worker"
    /\ Load(StageOf(task.kind))
    /\ \/ UNCHANGED <<pending, lost>>
       \/ pending' = pending \ {task} /\ lost' = TRUE
    /\ task' = Missing
    /\ UNCHANGED <<inputVars, planVars, runVars, storeVars, decodes>>

-----------------------------------------------------------------------------
(* run_local_study                                                         *)

\* Mutant: the count of failed tasks is never looked at.
StageFailedNever == FALSE

\* _stage_failed
StageFailed == lost

\* _verify_embedding_acceptance: all there; a failure of the clean round trip
\* is a typed one.
Accepted == \A t \in Tasks("embedding") : Valid(Identity(t, bound))

EmbeddingsEnd ==
    /\ running = "embeddings"
    /\ pending = {}
    /\ IF StageFailed
       THEN Stop
       ELSE Load("acceptance") /\ UNCHANGED stageVars
    /\ UNCHANGED <<inputVars, planVars, runVars, storeVars, decodes>>

AcceptanceRefuses ==
    /\ running = "acceptance"
    /\ ~ Accepted
    /\ Stop
    /\ UNCHANGED <<inputVars, planVars, runVars, storeVars, decodes>>

Summarise(status) ==
    /\ summary' = [plan |-> bound, status |-> status]
    /\ Stop

\* --stop-after embeddings
AcceptanceStops ==
    /\ running = "acceptance"
    /\ Accepted
    /\ Summarise("embeddings_complete_local")
    /\ UNCHANGED <<inputVars, planVars, frozen, storeVars, decodes>>

AcceptancePasses ==
    /\ running = "acceptance"
    /\ Accepted
    /\ Load("evaluations")
    /\ pending' = Tasks("evaluation")
    /\ UNCHANGED <<inputVars, planVars, runVars, storeVars, decodes, task, lost>>

EvaluationsEnd ==
    /\ running = "evaluations"
    /\ pending = {}
    /\ Summarise(IF StageFailed THEN "run_incomplete_operational_failures"
                 ELSE "run_complete_local")
    /\ UNCHANGED <<inputVars, planVars, frozen, storeVars, decodes>>

-----------------------------------------------------------------------------
\* A disk or a hand changes a published object.
Damage(o) ==
    /\ Fault
    /\ o \in objects
    /\ o.id \notin damaged
    /\ damaged' = damaged \cup {o.id}
    /\ IF running = "worker" /\ o.id = EmbeddingId THEN Slip({"embedding"}) ELSE UNCHANGED slipped
    /\ UNCHANGED <<disk, running, at, seen, refused, planVars, runVars, objects, decodes>>
    /\ UNCHANGED stageVars

\* A new plan gets a run directory of its own; the cache is shared.
NewRunDirectory ==
    /\ running = "none"
    /\ bound # Missing
    /\ frozen \notin {Missing, bound}
    /\ frozen' = Missing
    /\ summary' = Missing
    /\ UNCHANGED <<inputVars, programVars, planVars, storeVars, decodes, stageVars>>

StudyNext ==
    \/ StartDispatch \/ DispatchVerifies \/ DispatchBegins \/ PreflightPasses \/ DispatchAborts
    \/ \E kind \in {"embedding", "evaluation"} : \E t \in Tasks(kind) : StageTakes(t)
    \/ WorkerReadsNext \/ WorkerVerifiesEmbedding \/ WorkerReadsEmbedding
    \/ WorkerCompletes \/ WorkerFails
    \/ EmbeddingsEnd \/ AcceptanceRefuses \/ AcceptanceStops \/ AcceptancePasses
    \/ EvaluationsEnd
    \/ \E o \in objects : Damage(o)
    \/ NewRunDirectory

=============================================================================
