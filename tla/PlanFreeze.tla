----------------------------- MODULE PlanFreeze -----------------------------
(***************************************************************************)
(* How a FINAL-5J plan comes to be: build_execution_plan expands the study *)
(* into tasks, freeze_runtime_bindings names the external runtime,         *)
(* finalize_execution_plan re-addresses every task with both, and          *)
(* prepare_final_execution_plan runs the three in one empty directory.     *)
(***************************************************************************)
EXTENDS Inputs

VARIABLES
    unbound,     \* final-5j-unbound.json
    binding,     \* final-5j-runtime-bindings.json
    bound,       \* final-5j-bound.json, the plan a dispatch executes
    papers,      \* the reports written beside them
    preparing    \* the program runs as a stage of prepare_final_execution_plan

planVars == <<unbound, binding, bound, papers, preparing>>

-----------------------------------------------------------------------------
Papers == {"readiness", "binding_report", "final_report", "ready"}

\* The bindings and the plans there can be.
Bindings == [Bound -> Versions]
Plans ==
    [ channels : Versions, rows : Versions, contracts : Versions,
      from : [CreatedFrom -> Versions], runtime : Bindings \cup {Missing} ]

ASSUME MissingAssumption == Missing \notin Plans \cup Bindings

PlanInit ==
    /\ unbound = Missing
    /\ binding = Missing
    /\ bound = Missing
    /\ papers = {}
    /\ preparing = FALSE

\* A program of the operator's own, or the next stage of a preparation.
Run(program) ==
    /\ \/ running = "none" /\ preparing' = FALSE
       \/ running = "prepare" /\ preparing' = TRUE
    /\ Load(program)

\* A stage returns to the preparation that started it.
Done ==
    /\ Load(IF preparing THEN "prepare" ELSE "none")
    /\ UNCHANGED preparing

-----------------------------------------------------------------------------
(* build_execution_plan: every file is parsed first and hashed afterwards. *)

BuilderReads ==
    << Parse("study"), Parse("main"), Fits("sweep"), Hash("source"),
       Parse("registry"), Parse("contracts"), Hash("study"), Hash("main"),
       Hash("sweep"), Hash("registry"), Hash("config") >>

StartBuild ==
    /\ running = "none" \/ (running = "prepare" /\ "readiness" \in papers /\ unbound = Missing)
    /\ Run("build")
    /\ UNCHANGED <<inputVars, unbound, binding, bound, papers>>

BuildReads ==
    /\ running = "build"
    /\ ReadNext(BuilderReads, disk)
    /\ UNCHANGED planVars

\* The tasks take the channels, rows and contracts that were parsed.
ExpandedFrom(f) == seen[Parse(f)]

\* created_from takes what was hashed.
BuildWrites ==
    /\ Through("build", BuilderReads)
    /\ unbound' = [ channels  |-> ExpandedFrom("study"),
                    rows      |-> ExpandedFrom("main"),
                    contracts |-> ExpandedFrom("contracts"),
                    from      |-> [f \in CreatedFrom |-> seen[Hash(f)]],
                    runtime   |-> Missing ]
    /\ Done
    /\ UNCHANGED <<inputVars, binding, bound, papers>>

-----------------------------------------------------------------------------
(* freeze_runtime_bindings: hash, validate the candidate, rename it into   *)
(* place, validate again.                                                  *)

FreezerReads ==
    << Hash("toolbox"), Hash("stage0"), Hash("stability") >>
ValidatorReads ==
    << Check("toolbox"), Check("stage0"), Check("stability") >>

\* A binding that is already there is never replaced.
StartFreeze ==
    /\ running = "none" \/ (running = "prepare" /\ unbound # Missing)
    /\ binding = Missing
    /\ Run("freeze")
    /\ UNCHANGED <<inputVars, unbound, binding, bound, papers>>

Hashed == [f \in Bound |-> seen[Hash(f)]]

FreezeReads ==
    /\ running = "freeze"
    /\ IF at <= Len(FreezerReads)
       THEN ReadNext(FreezerReads, disk)
       ELSE ReadNext(FreezerReads \o ValidatorReads, Hashed)
    /\ UNCHANGED planVars

FreezePublishes ==
    /\ Through("freeze", FreezerReads \o ValidatorReads)
    /\ binding' = Hashed
    /\ Load("freeze_verify")
    /\ UNCHANGED <<inputVars, unbound, bound, papers, preparing>>

FreezeVerifies ==
    /\ running = "freeze_verify"
    /\ ReadNext(ValidatorReads, binding)
    /\ UNCHANGED planVars

FreezeReports ==
    /\ Through("freeze_verify", ValidatorReads)
    /\ papers' = papers \cup {"binding_report"}
    /\ Done
    /\ UNCHANGED <<inputVars, unbound, binding, bound>>

-----------------------------------------------------------------------------
(* finalize_execution_plan *)

StartFinalize ==
    /\ running = "none" \/ (running = "prepare" /\ "binding_report" \in papers /\ bound = Missing)
    /\ unbound # Missing
    /\ binding # Missing
    /\ Run("finalize")
    /\ UNCHANGED <<inputVars, unbound, binding, bound, papers>>

FinalizeReads ==
    /\ running = "finalize"
    /\ ReadNext(ValidatorReads, binding)
    /\ UNCHANGED planVars

\* Every task gets the address it has with the binding.
Finalized(plan, runtime) == [plan EXCEPT !.runtime = runtime]

\* A different plan is not replaced; the same one is left as it is.
FinalizeWrites ==
    /\ Through("finalize", ValidatorReads)
    /\ IF bound \notin {Missing, Finalized(unbound, binding)}
       THEN Exit /\ preparing' = FALSE /\ UNCHANGED bound
       ELSE /\ bound' = Finalized(unbound, binding)
            /\ Load("finalize_report")
            /\ UNCHANGED preparing
    /\ UNCHANGED <<inputVars, unbound, binding, papers>>

FinalizeReports ==
    /\ running = "finalize_report"
    /\ papers' = papers \cup {"final_report"}
    /\ Done
    /\ UNCHANGED <<inputVars, unbound, binding, bound>>

-----------------------------------------------------------------------------
(* prepare_final_execution_plan *)

\* Refused when any artifact of an earlier preparation is there.
StartPrepare ==
    /\ running = "none"
    /\ unbound = Missing /\ binding = Missing /\ bound = Missing
    /\ papers \subseteq {"ready"}
    /\ Load("prepare")
    /\ UNCHANGED <<inputVars, planVars>>

\* validate_inputs --check-files comes first: the images are those of the manifests.
ReadinessReads == << Parse("main"), Fits("sweep"), Fits("images") >>

PrepareReads ==
    /\ running = "prepare"
    /\ "readiness" \notin papers
    /\ ReadNext(ReadinessReads, disk)
    /\ UNCHANGED planVars

PrepareReadiness ==
    /\ Through("prepare", ReadinessReads)
    /\ "readiness" \notin papers
    /\ papers' = papers \cup {"readiness"}
    /\ Load("prepare")
    /\ UNCHANGED <<inputVars, unbound, binding, bound, preparing>>

PrepareReady ==
    /\ running = "prepare"
    /\ "final_report" \in papers
    /\ papers' = papers \cup {"ready"}
    /\ Exit
    /\ preparing' = FALSE
    /\ UNCHANGED <<inputVars, unbound, binding, bound>>

-----------------------------------------------------------------------------
PlanPrograms == {"build", "freeze", "freeze_verify", "finalize", "finalize_report", "prepare"}

\* A failed check ends the program, and a preparation with it; what has been
\* written stays.
PlanAbort ==
    /\ running \in PlanPrograms
    /\ refused
    /\ Exit
    /\ preparing' = FALSE
    /\ UNCHANGED <<inputVars, unbound, binding, bound, papers>>

\* The plan names bytes that are no longer there: no dispatch accepts it.
Stale ==
    \/ binding # Missing /\ \E f \in Bound : disk[f] # binding[f]
    \/ unbound # Missing /\ \E f \in CreatedFrom : disk[f] # unbound.from[f]

\* A preparation was stopped half-way: it refuses to be repeated.
Stuck == "readiness" \in papers /\ "ready" \notin papers

\* The operator empties the output directory.
Discard ==
    /\ running = "none"
    /\ Stale \/ Stuck
    /\ unbound' = Missing
    /\ binding' = Missing
    /\ bound' = Missing
    /\ papers' = {}
    /\ UNCHANGED <<inputVars, programVars, preparing>>

PlanNext ==
    \/ StartBuild \/ BuildReads \/ BuildWrites
    \/ StartFreeze \/ FreezeReads \/ FreezePublishes \/ FreezeVerifies \/ FreezeReports
    \/ StartFinalize \/ FinalizeReads \/ FinalizeWrites \/ FinalizeReports
    \/ StartPrepare \/ PrepareReads \/ PrepareReadiness \/ PrepareReady
    \/ PlanAbort

=============================================================================
