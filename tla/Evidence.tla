------------------------------ MODULE Evidence ------------------------------
(***************************************************************************)
(* From the frozen inputs to the archive: one operator runs one program at *)
(* a time (PlanFreeze, LocalStudy, Reporting); files are edited, objects   *)
(* damaged and programs killed between any two of their steps.             *)
(***************************************************************************)
EXTENDS Reporting

vars == <<inputVars, programVars, planVars, studyVars, reportVars>>

-----------------------------------------------------------------------------
Init == InputInit /\ PlanInit /\ StudyInit /\ ReportInit

\* A kill loses what the program has read; its files stay.
Kill ==
    /\ running # "none"
    /\ Fault
    /\ Stop
    /\ preparing' = FALSE
    /\ UNCHANGED <<disk, unbound, binding, bound, papers, runVars, storeVars, decodes, reportVars>>

\* Bounds: planning is over once a run directory has its plan, until the plan
\* is discarded; reports are made of a study that has a summary and end it.
PlanningTime == running = "none" => (frozen = Missing \/ bound = Missing)
StudyTime == analysis = Missing /\ archive = Missing

Next ==
    \/ StudyTime /\ PlanningTime /\ PlanNext /\ UNCHANGED <<studyVars, reportVars>>
    \/ StudyTime /\ Discard /\ UNCHANGED <<studyVars, reportVars>>
    \/ StudyTime /\ StudyNext /\ UNCHANGED reportVars
    \/ ReportNext
    \/ \E F \in Editable : Edit(F) /\ UNCHANGED <<planVars, studyVars, reportVars>>
    \/ Kill

Spec == Init /\ [][Next]_vars

-----------------------------------------------------------------------------
\* Every published object was computed from the image, configuration and
\* profile bytes its identity names, whatever was edited between the freeze,
\* the verification of the dispatch and the worker, and whatever while it ran.
\* One gap is left: a file that is edited between the moment the worker hashes
\* it and the moment it opens it again.
ObjectsFromNamedBytes ==
    \A o \in objects : \A f \in DOMAIN o.made \ o.slipped :
        /\ f = "config"    => o.made[f] = o.id.common["config"]
        /\ f = "images"    => o.made[f] = o.id.rows
        /\ f = "stability" => o.made[f] = o.id.runtime["stability"]

\* An evaluation is computed from an embedding that still was the object that
\* had been verified, however late the damage; the same gap is left.
EvaluationsOfSoundEmbeddings ==
    \A o \in objects : o.id.task.kind = "evaluation" =>
        /\ "embedding" \in DOMAIN o.made
        /\ o.made["embedding"].sound \/ "embedding" \in o.slipped

\* A run directory is claimed only for a plan whose tasks were expanded from
\* the manifest that its created_from names, though build_execution_plan
\* parses the manifest first and hashes it later; or the manifest was edited
\* under the dispatch itself, between its check and its use.
ClaimedPlanOfItsManifest ==
    [][ frozen' \notin {frozen, Missing} =>
            frozen'.rows = frozen'.from["main"] \/ "main" \in slipped ]_vars

\* A plan that is announced as ready is the finalization of the binding beside
\* it, and stays so whatever single program is run there afterwards.
ReadyPlanStands ==
    "ready" \in papers => bound # Missing /\ bound.runtime = binding

\* A run directory's summary is about the plan that is frozen in it.
SummaryOfTheFrozenPlan ==
    summary # Missing => summary.plan = frozen

\* A study is reported complete only when every embedding and every evaluation
\* of its plan has been published, and an evaluation is left out exactly where
\* the embedding itself is a clean failure.
CompleteMeansEvaluated ==
    [][ (summary' \notin {summary, Missing} /\ summary'.status = "run_complete_local") =>
        \A t \in Tasks("evaluation") :
            LET e == Identity(t, summary'.plan)
                m == Identity(EmbeddingOf(t), summary'.plan) IN
            /\ Published(e) /\ Published(m)
            /\ (ObjectAt(e).status = "not_evaluated")
                  <=> (ObjectAt(m).status = "scientific_failure") ]_vars

\* An inventory that does not say "partial" and still matches the analysis
\* beside it stands for every evaluation of its plan.
AnalysisOfTheStudy ==
    (inventory # Missing /\ ~ inventory.partial /\ inventory.data = analysis) =>
        {r.id : r \in analysis} = Evaluations(inventory.plan)

\* A verified archive holds the bytes its manifest lists, though files change
\* between the hashing pass and the packing pass.
VerifiedArchiveFaithful ==
    verified # Missing => \A f \in Included : verified.members[f] = verified.manifest[f]

=============================================================================
