--------------------------- MODULE EvidenceProofs ---------------------------
(***************************************************************************)
(* What a study's plan, summary and reports say of one another, for any    *)
(* set of methods and any number of edits, damaged objects and kills.      *)
(***************************************************************************)
EXTENDS Evidence, TLAPS

\* What a program has read of its script so far is a version of a file.
ReadSoFar(script) ==
    /\ at \in Nat \ {0}
    /\ \A i \in 1..Len(script) :
        i < at => script[i] \in DOMAIN seen /\ seen[script[i]] \in Versions

DiskTyped == disk \in [Files -> Versions]
BuildRead == running = "build" => ReadSoFar(BuilderReads)
FreezeRead == running = "freeze" => ReadSoFar(FreezerReads) /\ binding = Missing
PlansTyped == unbound \in Plans \cup {Missing} /\ binding \in Bindings \cup {Missing}
Finalizing == running = "finalize" => unbound # Missing /\ binding # Missing
FinalizeWrote == running = "finalize_report" => bound # Missing

\* A bound plan is final: a binding stays while there is one, and is replaced
\* only with everything that was made from it.
BoundIsFinal == bound # Missing => binding # Missing /\ bound.runtime = binding
PapersAfterPlan == ("final_report" \in papers \/ "ready" \in papers) => bound # Missing

PlanInv ==
    /\ DiskTyped /\ BuildRead /\ FreezeRead /\ PlansTyped
    /\ Finalizing /\ FinalizeWrote /\ BoundIsFinal /\ PapersAfterPlan

-----------------------------------------------------------------------------
\* A read of the script, or one behind its end, keeps what has been read.
LEMMA ReadKeeps ==
    ASSUME NEW script, NEW longer, NEW recorded,
           DiskTyped, ReadSoFar(script), ReadNext(longer, recorded),
           longer[at][2] \in Files,
           at \in 1..Len(script) => longer[at] = script[at]
    PROVE  ReadSoFar(script)'
<1> DEFINE key == longer[at]
<1>1. /\ DOMAIN seen' = {key} \cup DOMAIN seen
      /\ seen'[key] \in Versions
      /\ \A k \in DOMAIN seen : k # key => seen'[k] = seen[k]
  <2>1. Learn(key, disk[key[2]])
    BY DEF ReadNext
  <2>2. disk[key[2]] \in Versions
    BY DEF DiskTyped
  <2> QED
    BY <2>1, <2>2 DEF Learn
<1>2. at' = at + 1 /\ at' \in Nat \ {0} /\ at \in Nat \ {0}
  BY DEF ReadNext, ReadSoFar
<1>3. ASSUME NEW i \in 1..Len(script), i < at'
      PROVE  script[i] \in DOMAIN seen' /\ seen'[script[i]] \in Versions
  <2>1. CASE i < at
    BY <2>1, <1>1 DEF ReadSoFar
  <2>2. CASE i = at
    BY <2>2, <1>1
  <2> QED
    BY <1>2, <1>3, <2>1, <2>2
<1> QED
  BY <1>2, <1>3 DEF ReadSoFar

\* Every read of the three scripts is of a file.
LEMMA ScriptsReadFiles ==
    /\ \A i \in 1..Len(BuilderReads) : BuilderReads[i][2] \in Files
    /\ \A i \in 1..Len(FreezerReads) : FreezerReads[i][2] \in Files
    /\ \A i \in 1..Len(FreezerReads \o ValidatorReads) :
           (FreezerReads \o ValidatorReads)[i][2] \in Files
  BY DEF BuilderReads, FreezerReads, ValidatorReads, Parse, Hash, Check, Fits, Files,
     CreatedFrom, Bound

-----------------------------------------------------------------------------
(* The programs that make a plan.                                          *)

\* What a step may do to the plan without undoing PlanInv: programs start
\* having read nothing, or go on as they are.
PlanUntouched == UNCHANGED <<unbound, binding, bound, papers>>
StartsOrStays ==
    \/ UNCHANGED <<running, at, seen>>
    \/ running' \notin {"build", "freeze", "finalize", "finalize_report"}
    \/ running' \in {"build", "freeze"} /\ at' = 1

LEMMA UntouchedKeeps ==
    ASSUME PlanInv, PlanUntouched, disk' \in [Files -> Versions], StartsOrStays,
           (running' = "freeze" /\ running # "freeze") => binding = Missing,
           running' \in {"finalize", "finalize_report"} => running' = running
    PROVE  PlanInv'
<1>1. ASSUME NEW script, at' = 1 PROVE ReadSoFar(script)'
  BY <1>1 DEF ReadSoFar
<1>2. (DiskTyped /\ PlansTyped /\ BoundIsFinal /\ PapersAfterPlan)'
  BY DEF PlanInv, DiskTyped, PlansTyped, BoundIsFinal, PapersAfterPlan, PlanUntouched
<1>3. (Finalizing /\ FinalizeWrote)'
  BY DEF PlanInv, Finalizing, FinalizeWrote, PlanUntouched
<1>4. BuildRead' /\ FreezeRead'
  <2>1. CASE UNCHANGED <<running, at, seen>>
    BY <2>1 DEF PlanInv, BuildRead, FreezeRead, ReadSoFar, PlanUntouched
  <2>2. CASE running' \notin {"build", "freeze"}
    BY <2>2 DEF BuildRead, FreezeRead
  <2>3. CASE running' \in {"build", "freeze"} /\ at' = 1 /\ ~ UNCHANGED <<running, at, seen>>
    <3>1. ReadSoFar(BuilderReads)' /\ ReadSoFar(FreezerReads)'
      BY <2>3, <1>1
    <3>2. running' = "freeze" => binding = Missing
      BY DEF PlanInv, FreezeRead
    <3> QED
      BY <3>1, <3>2 DEF BuildRead, FreezeRead, PlanUntouched
  <2> QED
    BY <2>1, <2>2, <2>3 DEF StartsOrStays
<1> QED
  BY <1>2, <1>3, <1>4 DEF PlanInv

\* The files stay as they are.
LEMMA SameDisk == PlanInv /\ UNCHANGED inputVars => disk' \in [Files -> Versions]
  BY DEF PlanInv, DiskTyped, inputVars

LEMMA StartsKeep ==
    ASSUME PlanInv, StartBuild \/ StartFreeze \/ StartPrepare \/ PlanAbort
    PROVE  PlanInv'
<1>1. PlanUntouched /\ UNCHANGED inputVars
  BY DEF StartBuild, StartFreeze, StartPrepare, PlanAbort, PlanUntouched, planVars
<1>2. StartsOrStays /\ running' \notin {"finalize", "finalize_report"}
  BY DEF StartBuild, StartFreeze, StartPrepare, PlanAbort, Run, Load, Exit, StartsOrStays
<1>3. running' = "freeze" => binding = Missing
  BY DEF StartBuild, StartFreeze, StartPrepare, PlanAbort, Run, Load, Exit
<1> QED
  BY <1>1, <1>2, <1>3, SameDisk, UntouchedKeeps

LEMMA FinalizeStartKeeps ==
    ASSUME PlanInv, StartFinalize
    PROVE  PlanInv'
<1>1. unbound' # Missing /\ binding' # Missing /\ running' = "finalize"
      /\ PlanUntouched /\ UNCHANGED inputVars
  BY DEF StartFinalize, Run, Load, PlanUntouched
<1>2. (DiskTyped /\ PlansTyped /\ BoundIsFinal /\ PapersAfterPlan)'
  BY <1>1, SameDisk DEF PlanInv, DiskTyped, PlansTyped, BoundIsFinal, PapersAfterPlan,
     PlanUntouched
<1> QED
  BY <1>1, <1>2 DEF PlanInv, BuildRead, FreezeRead, Finalizing, FinalizeWrote

\* A read of a script leaves the plan and the disk alone.
LEMMA ReadsKeep ==
    ASSUME PlanInv, BuildReads \/ FreezeReads \/ FreezeVerifies \/ FinalizeReads \/ PrepareReads
    PROVE  PlanInv'
<1>1. PlanUntouched /\ UNCHANGED inputVars /\ UNCHANGED running
  BY DEF BuildReads, FreezeReads, FreezeVerifies, FinalizeReads, PrepareReads, ReadNext,
     PlanUntouched, planVars
<1>2. (DiskTyped /\ PlansTyped /\ BoundIsFinal /\ PapersAfterPlan /\ Finalizing /\ FinalizeWrote)'
  BY <1>1, SameDisk DEF PlanInv, DiskTyped, PlansTyped, BoundIsFinal, PapersAfterPlan,
     Finalizing, FinalizeWrote, PlanUntouched
<1>3. BuildRead'
  <2>1. CASE running = "build"
    <3>1. ReadNext(BuilderReads, disk) /\ ReadSoFar(BuilderReads)
      BY <2>1 DEF PlanInv, BuildRead, BuildReads, FreezeReads, FreezeVerifies,
         FinalizeReads, PrepareReads
    <3>2. at \in 1..Len(BuilderReads)
      BY <3>1 DEF ReadNext, ReadSoFar, BuilderReads
    <3>3. DiskTyped
      BY DEF PlanInv
    <3>4. ReadSoFar(BuilderReads)'
      BY <3>1, <3>2, <3>3, ReadKeeps, ScriptsReadFiles
    <3> QED
      BY <3>4 DEF BuildRead
  <2> QED
    BY <2>1, <1>1 DEF BuildRead
<1>4. FreezeRead'
  <2>1. CASE running = "freeze"
    <3>1. FreezeReads /\ ReadSoFar(FreezerReads) /\ DiskTyped /\ binding = Missing
      BY <2>1 DEF PlanInv, FreezeRead, BuildReads, FreezeReads, FreezeVerifies,
         FinalizeReads, PrepareReads
    <3>2. CASE at <= Len(FreezerReads)
      <4>1. ReadNext(FreezerReads, disk)
        BY <3>1, <3>2 DEF FreezeReads
      <4>2. at \in 1..Len(FreezerReads)
        BY <3>1, <3>2 DEF ReadSoFar, FreezerReads
      <4>3. ReadSoFar(FreezerReads)'
        BY <3>1, <4>1, <4>2, ReadKeeps, ScriptsReadFiles
      <4> QED
        BY <4>3, <3>1, <1>1 DEF FreezeRead, PlanUntouched
    <3>3. CASE ~ (at <= Len(FreezerReads))
      <4>1. ReadNext(FreezerReads \o ValidatorReads, Hashed)
        BY <3>1, <3>3 DEF FreezeReads
      <4>2. at \in 1..Len(FreezerReads \o ValidatorReads)
        BY <3>1, <4>1 DEF ReadSoFar, ReadNext, FreezerReads, ValidatorReads
      <4>3. at \notin 1..Len(FreezerReads)
        BY <3>3
      <4>4. ReadSoFar(FreezerReads)'
        BY <3>1, <4>1, <4>2, <4>3, ReadKeeps, ScriptsReadFiles
      <4> QED
        BY <4>4, <3>1, <1>1 DEF FreezeRead, PlanUntouched
    <3> QED
      BY <3>2, <3>3
  <2> QED
    BY <2>1, <1>1 DEF FreezeRead
<1> QED
  BY <1>2, <1>3, <1>4 DEF PlanInv

LEMMA BuildWritesKeeps ==
    ASSUME PlanInv, BuildWrites
    PROVE  PlanInv'
<1>1. /\ ReadSoFar(BuilderReads) /\ at > Len(BuilderReads)
      /\ running' \in {"prepare", "none"}
      /\ UNCHANGED <<inputVars, binding, bound, papers>>
  BY DEF PlanInv, BuildRead, BuildWrites, Through, Done, Load
<1>2. /\ seen[Parse("study")] \in Versions /\ seen[Parse("main")] \in Versions
      /\ seen[Parse("contracts")] \in Versions
      /\ \A f \in CreatedFrom : seen[Hash(f)] \in Versions
  <2>1. Len(BuilderReads) = 11
    BY DEF BuilderReads
  <2>2. \A i \in 1..11 : seen[BuilderReads[i]] \in Versions
    BY <1>1, <2>1 DEF ReadSoFar
  <2>3. /\ BuilderReads[1] = Parse("study") /\ BuilderReads[2] = Parse("main")
        /\ BuilderReads[6] = Parse("contracts") /\ BuilderReads[4] = Hash("source")
        /\ BuilderReads[7] = Hash("study") /\ BuilderReads[8] = Hash("main")
        /\ BuilderReads[9] = Hash("sweep") /\ BuilderReads[10] = Hash("registry")
        /\ BuilderReads[11] = Hash("config")
    BY DEF BuilderReads
  <2>4. /\ seen[BuilderReads[1]] \in Versions /\ seen[BuilderReads[2]] \in Versions
        /\ seen[BuilderReads[6]] \in Versions /\ seen[BuilderReads[4]] \in Versions
        /\ seen[BuilderReads[7]] \in Versions /\ seen[BuilderReads[8]] \in Versions
        /\ seen[BuilderReads[9]] \in Versions /\ seen[BuilderReads[10]] \in Versions
        /\ seen[BuilderReads[11]] \in Versions
    BY <2>2
  <2> QED
    BY <2>3, <2>4 DEF CreatedFrom
<1>3. unbound' \in Plans
  <2>1. unbound' = [ channels  |-> seen[Parse("study")],
                     rows      |-> seen[Parse("main")],
                     contracts |-> seen[Parse("contracts")],
                     from      |-> [f \in CreatedFrom |-> seen[Hash(f)]],
                     runtime   |-> Missing ]
    BY DEF BuildWrites, ExpandedFrom
  <2>2. [f \in CreatedFrom |-> seen[Hash(f)]] \in [CreatedFrom -> Versions]
    BY <1>2
  <2> QED
    BY <1>2, <2>1, <2>2 DEF Plans
<1>4. (DiskTyped /\ PlansTyped /\ BoundIsFinal /\ PapersAfterPlan)'
  BY <1>1, <1>3, SameDisk DEF PlanInv, DiskTyped, PlansTyped, BoundIsFinal, PapersAfterPlan
<1> QED
  BY <1>1, <1>4 DEF PlanInv, BuildRead, FreezeRead, Finalizing, FinalizeWrote

LEMMA FreezePublishesKeeps ==
    ASSUME PlanInv, FreezePublishes
    PROVE  PlanInv'
<1>1. /\ ReadSoFar(FreezerReads) /\ at > Len(FreezerReads \o ValidatorReads)
      /\ binding = Missing /\ binding' = Hashed /\ running' = "freeze_verify"
      /\ UNCHANGED <<inputVars, unbound, bound, papers>>
  BY DEF PlanInv, FreezeRead, FreezePublishes, Through, Load
<1>2. binding' \in Bindings
  <2>1. Len(FreezerReads) = 3 /\ at > 3
    BY <1>1 DEF FreezerReads, ValidatorReads, ReadSoFar
  <2>2. \A i \in 1..3 : seen[FreezerReads[i]] \in Versions
    BY <1>1, <2>1 DEF ReadSoFar
  <2>3. /\ FreezerReads[1] = Hash("toolbox") /\ FreezerReads[2] = Hash("stage0")
        /\ FreezerReads[3] = Hash("stability")
    BY DEF FreezerReads
  <2>4. /\ seen[FreezerReads[1]] \in Versions /\ seen[FreezerReads[2]] \in Versions
        /\ seen[FreezerReads[3]] \in Versions
    BY <2>2
  <2>5. \A f \in Bound : seen[Hash(f)] \in Versions
    BY <2>3, <2>4 DEF Bound
  <2> QED
    BY <1>1, <2>5 DEF Hashed, Bindings
<1>3. bound = Missing
  BY <1>1 DEF PlanInv, BoundIsFinal
<1>4. (DiskTyped /\ PlansTyped /\ BoundIsFinal /\ PapersAfterPlan)'
  BY <1>1, <1>2, <1>3, SameDisk DEF PlanInv, DiskTyped, PlansTyped, BoundIsFinal,
     PapersAfterPlan
<1> QED
  BY <1>1, <1>4 DEF PlanInv, BuildRead, FreezeRead, Finalizing, FinalizeWrote

LEMMA FinalizeWritesKeeps ==
    ASSUME PlanInv, FinalizeWrites
    PROVE  PlanInv'
<1>1. /\ unbound \in Plans /\ binding \in Bindings
      /\ UNCHANGED <<inputVars, unbound, binding, papers>>
  BY DEF FinalizeWrites, Through, PlanInv, Finalizing, PlansTyped
<1>2. Finalized(unbound, binding) \in Plans /\ Finalized(unbound, binding).runtime = binding
  BY <1>1 DEF Finalized, Plans
<1>3. binding # Missing /\ Finalized(unbound, binding) # Missing
  BY <1>1, <1>2, MissingAssumption
<1>4. CASE running' = "none" /\ UNCHANGED bound
  BY <1>1, <1>4, SameDisk DEF PlanInv, DiskTyped, BuildRead, FreezeRead, PlansTyped,
     Finalizing, FinalizeWrote, BoundIsFinal, PapersAfterPlan
<1>5. CASE running' = "finalize_report" /\ bound' = Finalized(unbound, binding)
  BY <1>1, <1>2, <1>3, <1>5, SameDisk DEF PlanInv, DiskTyped, BuildRead, FreezeRead,
     PlansTyped, Finalizing, FinalizeWrote, BoundIsFinal, PapersAfterPlan
<1> QED
  BY <1>4, <1>5 DEF FinalizeWrites, Exit, Load

LEMMA PapersKeep ==
    ASSUME PlanInv, FreezeReports \/ FinalizeReports \/ PrepareReadiness \/ PrepareReady
    PROVE  PlanInv'
<1>1. /\ running' \in {"prepare", "none"}
      /\ UNCHANGED <<inputVars, unbound, binding, bound>>
  BY DEF FreezeReports, FinalizeReports, PrepareReadiness, PrepareReady, Done, Load, Exit
<1>2. PapersAfterPlan'
  BY DEF FreezeReports, FinalizeReports, PrepareReadiness, PrepareReady, Through, PlanInv,
     FinalizeWrote, PapersAfterPlan
<1>3. (DiskTyped /\ PlansTyped /\ BoundIsFinal)'
  BY <1>1, SameDisk DEF PlanInv, DiskTyped, PlansTyped, BoundIsFinal
<1> QED
  BY <1>1, <1>2, <1>3 DEF PlanInv, BuildRead, FreezeRead, Finalizing, FinalizeWrote

LEMMA DiscardKeeps ==
    ASSUME PlanInv, Discard
    PROVE  PlanInv'
  BY SameDisk DEF Discard, programVars, PlanInv, DiskTyped, BuildRead, FreezeRead,
     PlansTyped, Finalizing, FinalizeWrote, BoundIsFinal, PapersAfterPlan

LEMMA PlanNextKeeps == PlanInv /\ PlanNext => PlanInv'
  BY StartsKeep, FinalizeStartKeeps, ReadsKeep, BuildWritesKeeps, FreezePublishesKeeps,
     FinalizeWritesKeeps, PapersKeep DEF PlanNext

-----------------------------------------------------------------------------
(* The programs that use it.                                               *)

StudyPrograms == {"dispatch", "embeddings", "worker", "acceptance", "evaluations"}
ReportPrograms == {"analysis", "archive", "sidecar"}
OtherPrograms == {"none"} \cup StudyPrograms \cup ReportPrograms

\* A dispatch, its stages and its workers are no programs of the plan.
LEMMA StudyIsOther ==
    ASSUME StudyNext
    PROVE  /\ UNCHANGED <<disk, planVars>>
           /\ running' \in {"none"} \cup StudyPrograms \/ UNCHANGED <<running, at, seen>>
<1> USE DEF StudyPrograms, Load, Exit, Stop, inputVars
<1>1. CASE StartDispatch \/ DispatchBegins \/ PreflightPasses \/ DispatchAborts
  BY <1>1 DEF StartDispatch, DispatchBegins, PreflightPasses, DispatchAborts
<1>2. CASE DispatchVerifies \/ WorkerReadsNext \/ WorkerVerifiesEmbedding \/ WorkerReadsEmbedding
  BY <1>2 DEF DispatchVerifies, WorkerReadsNext, WorkerVerifiesEmbedding,
     WorkerReadsEmbedding, ReadNext
<1>3. CASE \E kind \in {"embedding", "evaluation"} : \E t \in Tasks(kind) : StageTakes(t)
  BY <1>3 DEF StageTakes, programVars
<1>4. CASE WorkerCompletes \/ WorkerFails
  BY <1>4 DEF WorkerCompletes, WorkerFails, StageOf
<1>5. CASE EmbeddingsEnd \/ AcceptanceRefuses \/ AcceptanceStops \/ AcceptancePasses
             \/ EvaluationsEnd
  BY <1>5 DEF EmbeddingsEnd, AcceptanceRefuses, AcceptanceStops, AcceptancePasses,
     EvaluationsEnd, Summarise
<1>6. CASE (\E o \in objects : Damage(o)) \/ NewRunDirectory
  BY <1>6 DEF Damage, NewRunDirectory, programVars
<1> QED
  BY <1>1, <1>2, <1>3, <1>4, <1>5, <1>6 DEF StudyNext

LEMMA ReportIsOther ==
    ASSUME ReportNext
    PROVE  /\ UNCHANGED <<disk, planVars, studyVars>>
           /\ running' \in {"none"} \cup ReportPrograms
  BY DEF ReportNext, AnalysisLoads, AnalysisWrites, AnalysisInventories, StartArchive,
     ArchiveReadsNext, ReadNext, ArchivePublishes, ArchiveDescribes, VerifyArchive, Load, Exit,
     ReportPrograms, programVars, inputVars, allStudyVars

LEMMA KillIsOther ==
    ASSUME Kill
    PROVE  UNCHANGED <<disk, unbound, binding, bound, papers>> /\ running' \in OtherPrograms
  BY DEF Kill, Stop, Exit, Load, OtherPrograms

LEMMA OthersKeepPlan ==
    ASSUME PlanInv, disk' \in [Files -> Versions], PlanUntouched,
           running' \in OtherPrograms \/ UNCHANGED <<running, at, seen>>
    PROVE  PlanInv'
<1>1. CASE running' \in OtherPrograms
  BY <1>1, UntouchedKeeps DEF StartsOrStays, OtherPrograms, StudyPrograms, ReportPrograms
<1>2. CASE UNCHANGED <<running, at, seen>>
  BY <1>2, UntouchedKeeps DEF StartsOrStays
<1> QED
  BY <1>1, <1>2

LEMMA EditKeepsDisk ==
    ASSUME DiskTyped, NEW F \in SUBSET Files, Edit(F)
    PROVE  disk' \in [Files -> Versions]
<1>1. \A f \in Files : disk[f] \in 0..1 /\ 1 - disk[f] \in 0..1
  BY DEF DiskTyped, Versions
<1> QED
  BY <1>1 DEF Edit, Versions

LEMMA PlanInvHolds == PlanInv /\ [Next]_vars => PlanInv'
<1> SUFFICES ASSUME PlanInv, [Next]_vars PROVE PlanInv'
    OBVIOUS
<1>1. CASE PlanNext
  BY <1>1, PlanNextKeeps
<1>2. CASE Discard
  BY <1>2, DiscardKeeps
<1>3. CASE StudyNext
  BY <1>3, StudyIsOther, OthersKeepPlan DEF PlanInv, DiskTyped, PlanUntouched, planVars,
     OtherPrograms
<1>4. CASE ReportNext
  BY <1>4, ReportIsOther, OthersKeepPlan DEF PlanInv, DiskTyped, PlanUntouched, planVars,
     OtherPrograms
<1>5. CASE \E F \in Editable : Edit(F) /\ UNCHANGED <<planVars, studyVars, reportVars>>
  <2> PICK F \in Editable : Edit(F) /\ UNCHANGED <<planVars, studyVars, reportVars>>
    BY <1>5
  <2> QED
    BY EditKeepsDisk, EditableAssumption, OthersKeepPlan DEF PlanInv, Edit, PlanUntouched, planVars
<1>6. CASE Kill
  BY <1>6, KillIsOther, OthersKeepPlan DEF PlanInv, DiskTyped, PlanUntouched
<1>7. CASE UNCHANGED vars
  BY <1>7, OthersKeepPlan DEF PlanInv, DiskTyped, PlanUntouched, vars, inputVars, planVars,
     programVars
<1> QED
  BY <1>1, <1>2, <1>3, <1>4, <1>5, <1>6, <1>7 DEF Next

LEMMA PlanInvStarts == Init => PlanInv
  BY DEF Init, InputInit, PlanInit, PlanInv, DiskTyped, BuildRead, FreezeRead, PlansTyped,
     Finalizing, FinalizeWrote, BoundIsFinal, PapersAfterPlan, Versions

\* A plan announced as ready is the finalization of the binding beside it: no
\* program replaces either while the other is there, and no kill, edit or
\* failed check between their steps leaves the announcement alone.
THEOREM ReadyPlan == Spec => []ReadyPlanStands
<1>1. PlanInv => ReadyPlanStands
  BY DEF PlanInv, BoundIsFinal, PapersAfterPlan, ReadyPlanStands
<1> QED
  BY <1>1, PlanInvStarts, PlanInvHolds, PTL DEF Spec

-----------------------------------------------------------------------------
(* The run directory and its summary.                                      *)

Stages == {"embeddings", "worker", "acceptance", "evaluations"}

Dispatching == running = "dispatch" => bound # Missing

\* A study that runs has frozen the plan it executes.
StageOwnsDirectory == running \in Stages => bound # Missing /\ frozen = bound
NoPlanNoSummary == frozen = Missing => summary = Missing

SummaryInv ==
    Dispatching /\ StageOwnsDirectory /\ NoPlanNoSummary /\ SummaryOfTheFrozenPlan

\* Outside of a study the directory stays as it is.
LEMMA OutsideStudyKeeps ==
    ASSUME SummaryInv, UNCHANGED runVars,
           \/ running' \notin Stages \cup {"dispatch"}
           \/ UNCHANGED <<running, bound>>
    PROVE  SummaryInv'
  BY DEF SummaryInv, Dispatching, StageOwnsDirectory, NoPlanNoSummary,
     SummaryOfTheFrozenPlan, runVars, Stages

LEMMA PlanIsOther == PlanNext => running' \in PlanPrograms \cup {"none"}
  BY DEF PlanNext, StartBuild, BuildReads, BuildWrites, StartFreeze, FreezeReads,
     FreezePublishes, FreezeVerifies, FreezeReports, StartFinalize, FinalizeReads,
     FinalizeWrites, FinalizeReports, StartPrepare, PrepareReads, PrepareReadiness,
     PrepareReady, PlanAbort, Run, Load, Exit, Done, ReadNext, PlanPrograms, inputVars

\* The dispatch claims the directory for the plan it has verified.
LEMMA DispatchKeeps ==
    ASSUME SummaryInv,
           StartDispatch \/ DispatchVerifies \/ DispatchBegins \/ PreflightPasses
             \/ DispatchAborts
    PROVE  SummaryInv'
<1> USE DEF SummaryInv, Dispatching, StageOwnsDirectory, NoPlanNoSummary,
            SummaryOfTheFrozenPlan, Stages
<1>1. CASE StartDispatch
  BY <1>1 DEF StartDispatch, Load, planVars, studyVars, runVars
<1>2. CASE DispatchVerifies
  BY <1>2 DEF DispatchVerifies, ReadNext, planVars, studyVars, runVars
<1>3. CASE DispatchBegins
  BY <1>3 DEF DispatchBegins, Through, Claim, Load, planVars
<1>4. CASE PreflightPasses
  BY <1>4 DEF PreflightPasses, Through, Claim, Exit, Load, planVars
<1>5. CASE DispatchAborts
  BY <1>5 DEF DispatchAborts, Stop, Exit, Load, planVars, runVars
<1> QED
  BY <1>1, <1>2, <1>3, <1>4, <1>5

LEMMA StagesKeep ==
    ASSUME SummaryInv,
           \/ \E kind \in {"embedding", "evaluation"} : \E t \in Tasks(kind) : StageTakes(t)
           \/ WorkerReadsNext \/ WorkerVerifiesEmbedding \/ WorkerReadsEmbedding
           \/ WorkerCompletes \/ WorkerFails
           \/ EmbeddingsEnd \/ AcceptanceRefuses \/ AcceptancePasses
    PROVE  SummaryInv'
<1>1. UNCHANGED <<bound, runVars>> /\ running \in Stages
  BY DEF StageTakes, WorkerReadsNext, WorkerVerifiesEmbedding, WorkerReadsEmbedding,
     WorkerCompletes, WorkerFails,
     EmbeddingsEnd, AcceptanceRefuses, AcceptancePasses, StageOf, Stages, planVars, studyVars
<1>2. running' # "dispatch"
  BY <1>1 DEF StageTakes, WorkerReadsNext, WorkerVerifiesEmbedding, WorkerReadsEmbedding,
     WorkerCompletes, WorkerFails,
     EmbeddingsEnd, AcceptanceRefuses, AcceptancePasses, StageOf, Stages, ReadNext, Load, Stop,
     Exit, programVars
<1> QED
  BY <1>1, <1>2 DEF SummaryInv, Dispatching, StageOwnsDirectory, NoPlanNoSummary,
     SummaryOfTheFrozenPlan, runVars

LEMMA SummariesKeep ==
    ASSUME SummaryInv, AcceptanceStops \/ EvaluationsEnd
    PROVE  SummaryInv'
<1>1. PICK status : Summarise(status)
  BY DEF AcceptanceStops, EvaluationsEnd
<1>2. running \in Stages /\ frozen' = frozen
  BY DEF AcceptanceStops, EvaluationsEnd, Stages
<1>3. summary'.plan = frozen' /\ frozen' # Missing /\ running' = "none"
  BY <1>1, <1>2 DEF Summarise, Stop, Exit, Load, SummaryInv, StageOwnsDirectory
<1> QED
  BY <1>3 DEF SummaryInv, Dispatching, StageOwnsDirectory, NoPlanNoSummary,
     SummaryOfTheFrozenPlan, Stages

LEMMA StudyKeepsSummary == SummaryInv /\ StudyNext => SummaryInv'
<1> SUFFICES ASSUME SummaryInv, StudyNext PROVE SummaryInv'
    OBVIOUS
<1>1. CASE \E o \in objects : Damage(o)
  BY <1>1, OutsideStudyKeeps DEF Damage, planVars
<1>2. CASE NewRunDirectory
  BY <1>2 DEF NewRunDirectory, SummaryInv, Dispatching, StageOwnsDirectory,
     NoPlanNoSummary, SummaryOfTheFrozenPlan, Stages, programVars
<1> QED
  BY <1>1, <1>2, DispatchKeeps, StagesKeep, SummariesKeep DEF StudyNext

LEMMA SummaryInvHolds == SummaryInv /\ [Next]_vars => SummaryInv'
<1> SUFFICES ASSUME SummaryInv, [Next]_vars PROVE SummaryInv'
    OBVIOUS
<1>1. CASE PlanNext /\ UNCHANGED <<studyVars, reportVars>>
  BY <1>1, PlanIsOther, OutsideStudyKeeps DEF studyVars, Stages, PlanPrograms
<1>2. CASE Discard /\ UNCHANGED <<studyVars, reportVars>>
  BY <1>2, OutsideStudyKeeps DEF Discard, programVars, studyVars, Stages
<1>3. CASE StudyNext
  BY <1>3, StudyKeepsSummary
<1>4. CASE ReportNext
  BY <1>4, ReportIsOther, OutsideStudyKeeps DEF studyVars, Stages, ReportPrograms
<1>5. CASE \E F \in Editable : Edit(F) /\ UNCHANGED <<planVars, studyVars, reportVars>>
  BY <1>5, OutsideStudyKeeps DEF Edit, programVars, planVars, studyVars
<1>6. CASE Kill
  BY <1>6, OutsideStudyKeeps DEF Kill, Stop, Exit, Load, Stages
<1>7. CASE UNCHANGED vars
  BY <1>7, OutsideStudyKeeps DEF vars, programVars, planVars, studyVars
<1> QED
  BY <1>1, <1>2, <1>3, <1>4, <1>5, <1>6, <1>7 DEF Next

LEMMA SummaryInvStarts == Init => SummaryInv
  BY DEF Init, InputInit, StudyInit, SummaryInv, Dispatching, StageOwnsDirectory,
     NoPlanNoSummary, SummaryOfTheFrozenPlan, Stages

\* A run directory's summary is about the plan frozen in it: a study claims
\* the directory before it begins, and the plan it executes stays the one it
\* has claimed until it has written how it ended.
THEOREM SummaryOfPlan == Spec => []SummaryOfTheFrozenPlan
<1>1. SummaryInv => SummaryOfTheFrozenPlan
  BY DEF SummaryInv
<1> QED
  BY <1>1, SummaryInvStarts, SummaryInvHolds, PTL DEF Spec

-----------------------------------------------------------------------------
(* The reports.                                                            *)

IdsOf(rows) == {r.id : r \in rows}

\* An analysis that is under way and is not called partial has every row of
\* the plan; so has the data of an inventory that is not called partial.
AnalysisRunning ==
    running = "analysis" =>
        /\ at \in {1, 2}
        /\ at = 2 => analysis = seen[Rows]
        /\ seen[Partial] \/ IdsOf(seen[Rows]) = Evaluations(bound)
InventoryWhole ==
    (inventory # Missing /\ ~ inventory.partial) =>
        IdsOf(inventory.data) = Evaluations(inventory.plan)

ReportInv == AnalysisRunning /\ InventoryWhole /\ VerifiedArchiveFaithful

\* Outside of the reports: no other program becomes an analysis.
LEMMA OutsideReportsKeep ==
    ASSUME ReportInv, UNCHANGED reportVars,
           \/ running' # "analysis"
           \/ UNCHANGED <<running, at, seen, bound>>
    PROVE  ReportInv'
<1>1. InventoryWhole' /\ VerifiedArchiveFaithful'
  BY DEF ReportInv, InventoryWhole, VerifiedArchiveFaithful, reportVars, Evaluations, Identity,
     Tasks
<1>2. AnalysisRunning'
  BY DEF ReportInv, AnalysisRunning, reportVars, Evaluations, Identity, Tasks
<1> QED
  BY <1>1, <1>2 DEF ReportInv

LEMMA AnalysisKeeps ==
    ASSUME ReportInv,
           (\E partial \in BOOLEAN : AnalysisLoads(partial)) \/ AnalysisWrites
             \/ AnalysisInventories
    PROVE  ReportInv'
<1>1. CASE \E partial \in BOOLEAN : AnalysisLoads(partial)
  <2> PICK partial \in BOOLEAN : AnalysisLoads(partial)
    BY <1>1
  <2>1. seen' = [h \in {Rows, Partial} |-> IF h = Rows THEN Loadable(bound) ELSE partial]
    BY DEF AnalysisLoads
  <2>2. seen'[Rows] = Loadable(bound) /\ seen'[Partial] = partial
    BY <2>1 DEF Rows, Partial
  <2>3. partial \/ IdsOf(Loadable(bound)) = Evaluations(bound)
    BY DEF AnalysisLoads, Complete, IdsOf
  <2>4. at' = 1 /\ bound' = bound /\ UNCHANGED reportVars
    BY DEF AnalysisLoads, allStudyVars, planVars
  <2>5. AnalysisRunning'
    BY <2>2, <2>3, <2>4 DEF AnalysisRunning, Evaluations, Identity, Tasks, IdsOf
  <2> QED
    BY <2>4, <2>5 DEF ReportInv, InventoryWhole, VerifiedArchiveFaithful, reportVars,
       Evaluations, Identity, Tasks
<1>2. CASE AnalysisWrites
  <2>1. /\ UNCHANGED <<running, seen, bound, inventory, verified>>
        /\ at' = 2 /\ analysis' = seen[Rows] /\ running = "analysis"
    BY <1>2 DEF AnalysisWrites, allStudyVars, planVars
  <2> QED
    BY <2>1 DEF ReportInv, AnalysisRunning, InventoryWhole, VerifiedArchiveFaithful,
       Evaluations, Identity, Tasks, IdsOf
<1>3. CASE AnalysisInventories
  <2>1. /\ inventory' = [ plan |-> bound, partial |-> seen[Partial], data |-> analysis ]
        /\ running = "analysis" /\ at = 2 /\ running' = "none" /\ UNCHANGED verified
    BY <1>3 DEF AnalysisInventories, Exit, Load
  <2>2. ~ inventory'.partial => IdsOf(inventory'.data) = Evaluations(inventory'.plan)
    BY <2>1 DEF ReportInv, AnalysisRunning
  <2> QED
    BY <2>1, <2>2 DEF ReportInv, AnalysisRunning, InventoryWhole, VerifiedArchiveFaithful,
       Evaluations, Identity, Tasks, IdsOf
<1> QED
  BY <1>1, <1>2, <1>3

LEMMA ArchiveKeeps ==
    ASSUME ReportInv,
           StartArchive \/ ArchiveReadsNext \/ ArchivePublishes \/ ArchiveDescribes
             \/ VerifyArchive
    PROVE  ReportInv'
<1>1. running' # "analysis" /\ UNCHANGED inventory
  BY DEF StartArchive, ArchiveReadsNext, ReadNext, ArchivePublishes, ArchiveDescribes,
     VerifyArchive, Load, Exit, programVars, reportVars
<1>2. UNCHANGED verified \/ (verified' = archive /\ archive.members = archive.manifest)
  BY DEF StartArchive, ArchiveReadsNext, ArchivePublishes, ArchiveDescribes,
     VerifyArchive, Consistent, reportVars
<1> QED
  BY <1>1, <1>2 DEF ReportInv, AnalysisRunning, InventoryWhole, VerifiedArchiveFaithful,
     Evaluations, Identity, Tasks

LEMMA ReportInvHolds == ReportInv /\ [Next]_vars => ReportInv'
<1> SUFFICES ASSUME ReportInv, [Next]_vars PROVE ReportInv'
    OBVIOUS
<1>1. CASE PlanNext /\ UNCHANGED <<studyVars, reportVars>>
  BY <1>1, PlanIsOther, OutsideReportsKeep DEF PlanPrograms
<1>2. CASE Discard /\ UNCHANGED <<studyVars, reportVars>>
  BY <1>2, OutsideReportsKeep DEF Discard, programVars
<1>3. CASE StudyNext /\ UNCHANGED reportVars
  BY <1>3, StudyIsOther, OutsideReportsKeep DEF StudyPrograms, planVars
<1>4. CASE ReportNext
  BY <1>4, AnalysisKeeps, ArchiveKeeps DEF ReportNext
<1>5. CASE \E F \in Editable : Edit(F) /\ UNCHANGED <<planVars, studyVars, reportVars>>
  BY <1>5, OutsideReportsKeep DEF Edit, planVars
<1>6. CASE Kill
  BY <1>6, OutsideReportsKeep DEF Kill, Stop, Exit, Load
<1>7. CASE UNCHANGED vars
  BY <1>7, OutsideReportsKeep DEF vars, planVars, programVars
<1> QED
  BY <1>1, <1>2, <1>3, <1>4, <1>5, <1>6, <1>7 DEF Next

LEMMA ReportInvStarts == Init => ReportInv
  BY DEF Init, InputInit, ReportInit, ReportInv, AnalysisRunning, InventoryWhole,
     VerifiedArchiveFaithful

\* An inventory that is not called partial and still matches the analysis
\* beside it stands for every evaluation of its plan: the rows are those that
\* were complete when they were loaded, whatever is damaged while they are
\* written.
THEOREM AnalysisIsWhole == Spec => []AnalysisOfTheStudy
<1>1. ReportInv => AnalysisOfTheStudy
  BY DEF ReportInv, InventoryWhole, AnalysisOfTheStudy, IdsOf
<1> QED
  BY <1>1, ReportInvStarts, ReportInvHolds, PTL DEF Spec

\* A verified archive holds the bytes its manifest lists, whatever changed
\* between the hashing pass and the packing pass.
THEOREM ArchiveFaithful == Spec => []VerifiedArchiveFaithful
<1>1. ReportInv => VerifiedArchiveFaithful
  BY DEF ReportInv
<1> QED
  BY <1>1, ReportInvStarts, ReportInvHolds, PTL DEF Spec

-----------------------------------------------------------------------------
(* What a program has checked, and what it uses.                           *)

\* A program that reads a script has read what is behind it and nothing else.
InScript(script) ==
    /\ at \in Nat \ {0}
    /\ \A how \in DOMAIN seen : \E i \in 1..Len(script) : i < at /\ script[i] = how
    /\ ~ refused => \A i \in 1..Len(script) : i < at => script[i] \in DOMAIN seen

\* It checks before it opens, and does neither twice.
ChecksFirst(script, f) ==
    \A i \in 1..Len(script) :
        /\ script[i] = Parse(f) =>
              /\ i > 1 /\ \E j \in 1..Len(script) : j < i /\ script[j] = Check(f)
              /\ \A j \in 1..Len(script) : script[j] = Parse(f) => j = i
        /\ script[i] = Check(f) => \A j \in 1..Len(script) : script[j] = Parse(f) => j > i

\* Unless the file slipped away, what is used is what was checked.
UsesChecked(f) ==
    (Check(f) \in DOMAIN seen /\ f \notin slipped) =>
        IF Parse(f) \in DOMAIN seen THEN seen[Parse(f)] = seen[Check(f)]
        ELSE disk[f] = seen[Check(f)]

LEMMA Learned ==
    ASSUME NEW how, NEW what, Learn(how, what)
    PROVE  /\ DOMAIN seen' = {how} \cup DOMAIN seen
           /\ seen'[how] = what
           /\ \A h \in DOMAIN seen : h # how => seen'[h] = seen[h]
  BY DEF Learn

LEMMA HowsDiffer ==
    \A f, g : /\ Parse(f) # Check(g) /\ Parse(f) = Parse(g) => f = g
              /\ Check(f) = Check(g) => f = g
  BY DEF Parse, Check

\* The next read of the script.
LEMMA ReadInScript ==
    ASSUME NEW script, InScript(script), at \in 1..Len(script), at' = at + 1, ~ refused,
           NEW what, Learn(script[at], what), Len(script) \in Nat
    PROVE  InScript(script)'
<1>1. DOMAIN seen' = {script[at]} \cup DOMAIN seen
  BY Learned
<1>2. /\ at' \in Nat \ {0}
      /\ \A i \in 1..Len(script) : i < at' <=> i < at \/ i = at
  BY DEF InScript
<1> QED
  BY <1>1, <1>2 DEF InScript

\* A read that checks or opens a file, in order, and one of another file.
LEMMA ReadUsesChecked ==
    ASSUME NEW script, NEW f, InScript(script), at \in 1..Len(script), ~ refused,
           Learn(script[at], disk[script[at][2]]), UNCHANGED <<disk, slipped>>,
           ChecksFirst(script, f), UsesChecked(f)
    PROVE  UsesChecked(f)'
<1> DEFINE key == script[at]
<1>1. /\ DOMAIN seen' = {key} \cup DOMAIN seen /\ seen'[key] = disk[key[2]]
      /\ \A h \in DOMAIN seen : h # key => seen'[h] = seen[h]
  BY Learned
<1>2. CASE key = Check(f)
  <2>1. Parse(f) \notin DOMAIN seen'
    BY <1>1, <1>2, HowsDiffer DEF InScript, ChecksFirst
  <2>2. seen'[Check(f)] = disk[f]
    BY <1>1, <1>2 DEF Check
  <2> QED
    BY <2>1, <2>2 DEF UsesChecked
<1>3. CASE key = Parse(f)
  <2>1. Check(f) \in DOMAIN seen /\ Parse(f) \notin DOMAIN seen
    BY <1>3 DEF InScript, ChecksFirst
  <2>2. seen'[Parse(f)] = disk[f] /\ seen'[Check(f)] = seen[Check(f)]
    BY <1>1, <1>3, <2>1, HowsDiffer DEF Parse
  <2> QED
    BY <1>1, <1>3, <2>1, <2>2 DEF UsesChecked
<1>4. CASE key # Check(f) /\ key # Parse(f)
  BY <1>1, <1>4 DEF UsesChecked
<1> QED
  BY <1>2, <1>3, <1>4

\* An edit, noticed by the history variable if it falls into the gap.
LEMMA EditUsesChecked ==
    ASSUME NEW f \in Files, NEW F \in SUBSET Files, DiskTyped, Edit(F), UsesChecked(f)
    PROVE  UsesChecked(f)'
<1>1. UNCHANGED seen /\ (f \notin F => disk'[f] = disk[f]) /\ slipped \subseteq slipped'
  BY DEF Edit, Slip, DiskTyped
<1>2. (f \in F /\ Check(f) \in DOMAIN seen /\ Parse(f) \notin DOMAIN seen) => f \in slipped'
  BY DEF Edit, Slip
<1> QED
  BY <1>1, <1>2 DEF UsesChecked

-----------------------------------------------------------------------------
(* Scripts are put together from short ones.                               *)

OpensNever(script, f) == \A i \in 1..Len(script) : script[i] \notin {Check(f), Parse(f)}

LEMMA Concat ==
    ASSUME NEW S, NEW s \in Seq(S), NEW t \in Seq(S)
    PROVE  /\ Len(s \o t) = Len(s) + Len(t) /\ s \o t \in Seq(S) /\ Len(s) \in Nat /\ Len(t) \in Nat
           /\ \A i \in 1..Len(s) : (s \o t)[i] = s[i]
           /\ \A i \in 1..Len(t) : (s \o t)[Len(s) + i] = t[i]
           /\ \A i \in 1..Len(s \o t) : i \in 1..Len(s) \/ i - Len(s) \in 1..Len(t)
  OBVIOUS

\* A script may be lengthened at either end by reads of other files.
LEMMA NeverNever ==
    ASSUME NEW S, NEW f, NEW s \in Seq(S), NEW t \in Seq(S), OpensNever(s, f), OpensNever(t, f)
    PROVE  OpensNever(s \o t, f)
<1> DEFINE r == s \o t
<1>1. \A i \in 1..Len(r) : i \in 1..Len(s) \/ i - Len(s) \in 1..Len(t)
  BY Concat
<1>2. /\ \A i \in 1..Len(s) : r[i] = s[i]
      /\ \A i \in 1..Len(r) : i - Len(s) \in 1..Len(t) => r[i] = t[i - Len(s)]
  BY Concat
<1> HIDE DEF r
<1> QED
  BY <1>1, <1>2 DEF OpensNever, r

LEMMA FirstNever ==
    ASSUME NEW S, NEW f, NEW s \in Seq(S), NEW t \in Seq(S), ChecksFirst(s, f), OpensNever(t, f)
    PROVE  ChecksFirst(s \o t, f)
<1> DEFINE r == s \o t
<1>1. \A i \in 1..Len(r) : i \in 1..Len(s) \/ i - Len(s) \in 1..Len(t)
  BY Concat
<1>2. /\ \A i \in 1..Len(s) : r[i] = s[i] /\ i \in 1..Len(r)
      /\ \A i \in 1..Len(r) : i - Len(s) \in 1..Len(t) => r[i] = t[i - Len(s)]
  BY Concat
<1>3. \A i \in 1..Len(r) : r[i] \in {Check(f), Parse(f)} => i \in 1..Len(s)
  BY <1>1, <1>2 DEF OpensNever
<1> HIDE DEF r
<1>4. ChecksFirst(r, f)
  BY <1>2, <1>3 DEF ChecksFirst
<1> QED
  BY <1>4 DEF r

LEMMA NeverFirst ==
    ASSUME NEW S, NEW f, NEW s \in Seq(S), NEW t \in Seq(S), OpensNever(s, f), ChecksFirst(t, f)
    PROVE  ChecksFirst(s \o t, f)
<1> DEFINE r == s \o t
           n == Len(s)
<1>1. \A i \in 1..Len(r) : i \in 1..n \/ i - n \in 1..Len(t)
  BY Concat
<1>2. /\ \A i \in 1..n : r[i] = s[i]
      /\ \A i \in 1..Len(t) : r[n + i] = t[i] /\ n + i \in 1..Len(r)
      /\ n \in Nat
  BY Concat
<1>3. \A i \in 1..Len(r) : r[i] \in {Check(f), Parse(f)} => i - n \in 1..Len(t) /\ r[i] = t[i - n]
  BY <1>1, <1>2 DEF OpensNever
<1> HIDE DEF r, n
<1>4. ASSUME NEW i \in 1..Len(r), r[i] = Parse(f)
      PROVE  /\ i > 1 /\ \E j \in 1..Len(r) : j < i /\ r[j] = Check(f)
             /\ \A j \in 1..Len(r) : r[j] = Parse(f) => j = i
  <2>1. i - n \in 1..Len(t) /\ t[i - n] = Parse(f)
    BY <1>3, <1>4
  <2>2. PICK k \in 1..Len(t) : k < i - n /\ t[k] = Check(f)
    BY <2>1 DEF ChecksFirst
  <2>3. n + k \in 1..Len(r) /\ n + k < i /\ r[n + k] = Check(f)
    BY <1>2, <2>2
  <2>4. ASSUME NEW j \in 1..Len(r), r[j] = Parse(f) PROVE j = i
    <3>1. j - n \in 1..Len(t) /\ t[j - n] = Parse(f)
      BY <1>3, <2>4
    <3> QED
      BY <1>2, <2>1, <3>1 DEF ChecksFirst
  <2> QED
    BY <1>2, <2>3, <2>4
<1>5. ASSUME NEW i \in 1..Len(r), r[i] = Check(f), NEW j \in 1..Len(r), r[j] = Parse(f)
      PROVE  j > i
  <2>1. /\ i - n \in 1..Len(t) /\ t[i - n] = Check(f)
        /\ j - n \in 1..Len(t) /\ t[j - n] = Parse(f)
    BY <1>3, <1>5
  <2> QED
    BY <1>2, <2>1 DEF ChecksFirst
<1> QED
  BY <1>4, <1>5 DEF ChecksFirst, r

\* The shortest scripts.
LEMMA ShortScripts ==
    /\ \A f : ChecksFirst(Opens(f), f)
    /\ \A f, g : f # g => OpensNever(Opens(g), f)
    /\ \A f : OpensNever(<< >>, f)
    /\ \A f : f # "toolbox" => OpensNever(AdapterReads, f)
    /\ \A f : f # "embedding" => OpensNever(<< VerifyEmbedding, ReadEmbedding >>, f)
    /\ ChecksFirst(<< VerifyEmbedding, ReadEmbedding >>, "embedding")
<1>1. \A f : ChecksFirst(Opens(f), f)
  BY DEF ChecksFirst, Opens, Check, Parse
<1>2. \A f, g : f # g => OpensNever(Opens(g), f)
  BY DEF OpensNever, Opens, Check, Parse
<1>3. \A f : OpensNever(<< >>, f)
  BY DEF OpensNever
<1>4. \A f : f # "toolbox" => OpensNever(AdapterReads, f)
  BY DEF OpensNever, AdapterReads, ToolboxRead, EvidenceFits, Fits, Check, Parse
<1>5. \A f : f # "embedding" => OpensNever(<< VerifyEmbedding, ReadEmbedding >>, f)
  BY <1>2 DEF Opens, VerifyEmbedding, ReadEmbedding
<1>6. ChecksFirst(<< VerifyEmbedding, ReadEmbedding >>, "embedding")
  BY <1>1 DEF Opens, VerifyEmbedding, ReadEmbedding
<1> QED
  BY <1>1, <1>2, <1>3, <1>4, <1>5, <1>6

LEMMA NeverIsFirst == \A script, f : OpensNever(script, f) => ChecksFirst(script, f)
  BY DEF OpensNever, ChecksFirst

-----------------------------------------------------------------------------
(* The worker.                                                             *)

\* The script of a task that finds something to decode.
FullReads(t) == IF t.method \in Baselines THEN PairAndEmbedding(t) ELSE InternalReads(t)

Kinds == {"embedding", "evaluation"}
ContextFiles == {"config", "images", "stability"}
Opened == ContextFiles \cup {"embedding", "toolbox", "stage0"}
Reads == {Check(f) : f \in Opened} \cup {Parse(f) : f \in Opened} \cup {Fits(f) : f \in Opened}

LEMMA ShortSequences ==
    ASSUME NEW S, NEW a \in S, NEW b \in S
    PROVE  << a, b >> \in Seq(S) /\ << >> \in Seq(S)
  OBVIOUS

LEMMA ScriptsAreSequences ==
    ASSUME NEW t, t.kind \in Kinds
    PROVE  /\ PairAndEmbedding(t) \in Seq(Reads) /\ ConfigReads \in Seq(Reads)
           /\ ProfileReads(t.method) \in Seq(Reads) /\ AdapterReads \in Seq(Reads)
           /\ Opens("images") \in Seq(Reads) /\ << VerifyEmbedding, ReadEmbedding >> \in Seq(Reads)
<1>1. \A f \in Opened : Parse(f) \in Reads /\ Check(f) \in Reads /\ Fits(f) \in Reads
  BY DEF Reads
<1>2. \A f \in Opened : Opens(f) \in Seq(Reads)
  BY <1>1, ShortSequences DEF Opens
<1>3. \A f \in ContextFiles \cup {"embedding", "toolbox", "stage0"} : f \in Opened
  BY DEF Opened
<1>4. /\ "config" \in Opened /\ "images" \in Opened /\ "stability" \in Opened
      /\ "embedding" \in Opened /\ "toolbox" \in Opened /\ "stage0" \in Opened
  BY <1>3 DEF ContextFiles
<1>5. /\ << VerifyEmbedding, ReadEmbedding >> \in Seq(Reads) /\ AdapterReads \in Seq(Reads)
      /\ << >> \in Seq(Reads)
  <2>1. VerifyEmbedding \in Reads /\ ReadEmbedding \in Reads
    BY <1>1, <1>4 DEF VerifyEmbedding, ReadEmbedding
  <2>2. ToolboxRead \in Reads /\ EvidenceFits \in Reads
    BY <1>1, <1>4 DEF ToolboxRead, EvidenceFits
  <2> QED
    BY <2>1, <2>2, ShortSequences DEF AdapterReads
<1>6. /\ ConfigReads \in Seq(Reads) /\ ProfileReads(t.method) \in Seq(Reads)
      /\ Opens("images") \in Seq(Reads)
  BY <1>2, <1>4, <1>5 DEF ConfigReads, ProfileReads
<1>7. PairAndEmbedding(t) \in Seq(Reads)
  <2>1. Opens("images") \o << VerifyEmbedding, ReadEmbedding >> \in Seq(Reads)
    BY <1>5, <1>6, Concat
  <2> QED
    BY <1>6, <2>1 DEF PairAndEmbedding
<1> QED
  BY <1>5, <1>6, <1>7

\* What an evaluation reads of its embedding comes first, and all of it if
\* there is nothing to decode.
LEMMA EvaluationReads ==
    ASSUME NEW t, t.kind = "evaluation"
    PROVE  /\ Len(PairAndEmbedding(t)) = 4
           /\ PairAndEmbedding(t)[3] = VerifyEmbedding /\ PairAndEmbedding(t)[4] = ReadEmbedding
           /\ Len(FullReads(t)) >= 4
           /\ \A i \in 1..4 : FullReads(t)[i] = PairAndEmbedding(t)[i]
<1> DEFINE pair == PairAndEmbedding(t)
           one == pair \o ConfigReads
           two == one \o ProfileReads(t.method)
<1>1. Len(pair) = 4 /\ pair[3] = VerifyEmbedding /\ pair[4] = ReadEmbedding
  BY DEF PairAndEmbedding, Opens
<1>2. /\ pair \in Seq(Reads) /\ ConfigReads \in Seq(Reads)
      /\ ProfileReads(t.method) \in Seq(Reads) /\ AdapterReads \in Seq(Reads)
  BY ScriptsAreSequences DEF Kinds
<1>3. InternalReads(t) = two \o AdapterReads
  BY DEF InternalReads
<1> HIDE DEF pair
<1>4. one \in Seq(Reads) /\ Len(one) >= 4 /\ \A i \in 1..4 : one[i] = pair[i]
  <2>1. one \in Seq(Reads) /\ Len(one) = Len(pair) + Len(ConfigReads) /\ Len(ConfigReads) \in Nat
    BY <1>2, Concat
  <2>2. \A i \in 1..Len(pair) : one[i] = pair[i]
    BY <1>2, Concat
  <2> HIDE DEF one
  <2> QED
    BY <1>1, <2>1, <2>2
<1> HIDE DEF one
<1>5. two \in Seq(Reads) /\ Len(two) >= 4 /\ \A i \in 1..4 : two[i] = pair[i]
  BY <1>2, <1>4, Concat
<1> HIDE DEF two
<1>6. /\ Len(two \o AdapterReads) >= 4
      /\ \A i \in 1..4 : (two \o AdapterReads)[i] = pair[i]
  BY <1>2, <1>5, Concat
<1>7. Len(FullReads(t)) >= 4 /\ \A i \in 1..4 : FullReads(t)[i] = pair[i]
  <2>1. CASE t.method \in Baselines
    <3>1. FullReads(t) = pair
      BY <2>1 DEF FullReads, pair
    <3> QED
      BY <1>1, <3>1
  <2>2. CASE t.method \notin Baselines
    <3>1. FullReads(t) = two \o AdapterReads
      BY <1>3, <2>2 DEF FullReads
    <3> QED
      BY <1>6, <3>1
  <2> QED
    BY <2>1, <2>2
<1> QED
  BY <1>1, <1>7 DEF pair

\* Whatever the method, a file is hashed before it is opened, and an embedding
\* reads no embedding.
LEMMA FullReadsOrder ==
    ASSUME NEW t, t.kind \in Kinds
    PROVE  /\ Len(FullReads(t)) \in Nat
           /\ \A f \in ContextFiles : ChecksFirst(FullReads(t), f)
           /\ t.kind = "embedding" => OpensNever(FullReads(t), "embedding")
           /\ t.kind = "evaluation" => ChecksFirst(FullReads(t), "embedding")
<1> DEFINE pair == PairAndEmbedding(t)
           profile == ProfileReads(t.method)
           one == IF t.kind = "embedding" THEN ConfigReads \o pair ELSE pair \o ConfigReads
           two == one \o profile
<1>1. /\ pair \in Seq(Reads) /\ ConfigReads \in Seq(Reads) /\ profile \in Seq(Reads)
      /\ AdapterReads \in Seq(Reads) /\ Opens("images") \in Seq(Reads)
      /\ << VerifyEmbedding, ReadEmbedding >> \in Seq(Reads)
  BY ScriptsAreSequences
<1>2. /\ ChecksFirst(pair, "images")
      /\ \A f \in {"config", "stability"} : OpensNever(pair, f)
      /\ t.kind = "embedding" => OpensNever(pair, "embedding")
      /\ t.kind = "evaluation" => ChecksFirst(pair, "embedding")
  <2> DEFINE look == << VerifyEmbedding, ReadEmbedding >>
  <2>1. /\ ChecksFirst(Opens("images"), "images")
        /\ \A f \in {"config", "stability", "embedding"} : OpensNever(Opens("images"), f)
    BY ShortScripts
  <2>2. /\ ChecksFirst(look, "embedding")
        /\ \A f \in ContextFiles : OpensNever(look, f)
    BY ShortScripts DEF ContextFiles
  <2>3. look \in Seq(Reads)
    BY <1>1
  <2> HIDE DEF look
  <2>4. /\ ChecksFirst(Opens("images") \o look, "images")
        /\ ChecksFirst(Opens("images") \o look, "embedding")
    BY <1>1, <2>1, <2>2, <2>3, FirstNever, NeverFirst DEF ContextFiles
  <2>5. \A f \in {"config", "stability"} : OpensNever(Opens("images") \o look, f)
    BY <1>1, <2>1, <2>2, <2>3, NeverNever DEF ContextFiles
  <2>6. CASE t.kind = "embedding"
    BY <2>1, <2>6 DEF PairAndEmbedding
  <2>7. CASE t.kind = "evaluation"
    BY <2>4, <2>5, <2>7 DEF PairAndEmbedding, look
  <2> QED
    BY <2>6, <2>7 DEF Kinds
<1>3. /\ ChecksFirst(ConfigReads, "config")
      /\ \A f \in {"images", "stability", "embedding"} : OpensNever(ConfigReads, f)
  BY ShortScripts DEF ConfigReads
<1>4. /\ ChecksFirst(profile, "stability")
      /\ \A f \in {"images", "config", "embedding"} : OpensNever(profile, f)
  BY ShortScripts, NeverIsFirst DEF ProfileReads
<1>5. \A f \in ContextFiles \cup {"embedding"} : OpensNever(AdapterReads, f)
  BY ShortScripts DEF ContextFiles
<1>6. InternalReads(t) = two \o AdapterReads
  BY DEF InternalReads
<1> HIDE DEF pair, profile
<1>7. /\ one \in Seq(Reads) /\ ChecksFirst(one, "images") /\ ChecksFirst(one, "config")
      /\ OpensNever(one, "stability")
      /\ t.kind = "embedding" => OpensNever(one, "embedding")
      /\ t.kind = "evaluation" => ChecksFirst(one, "embedding")
  BY <1>1, <1>2, <1>3, Concat, NeverNever, FirstNever, NeverFirst DEF Kinds
<1> HIDE DEF one
<1>8. /\ two \in Seq(Reads) /\ \A f \in ContextFiles : ChecksFirst(two, f)
      /\ t.kind = "embedding" => OpensNever(two, "embedding")
      /\ t.kind = "evaluation" => ChecksFirst(two, "embedding")
  BY <1>1, <1>4, <1>7, Concat, NeverNever, FirstNever, NeverFirst DEF ContextFiles
<1> HIDE DEF two
<1>9. /\ Len(two \o AdapterReads) \in Nat
      /\ \A f \in ContextFiles : ChecksFirst(two \o AdapterReads, f)
      /\ t.kind = "embedding" => OpensNever(two \o AdapterReads, "embedding")
      /\ t.kind = "evaluation" => ChecksFirst(two \o AdapterReads, "embedding")
  BY <1>1, <1>5, <1>8, Concat, NeverNever, FirstNever
<1>10. Len(pair) \in Nat /\ \A f \in ContextFiles : ChecksFirst(pair, f)
  BY <1>1, <1>2, NeverIsFirst DEF ContextFiles
<1> QED
  BY <1>2, <1>6, <1>9, <1>10 DEF FullReads, pair

\* How the embedding of a method ends, whenever it is computed.
EndOf(method) == IF decodes[method] THEN "complete" ELSE "scientific_failure"

\* What the worker knows: it follows the script, the files it has checked are
\* those its context names, and it uses what it has checked.
WorkerSaw ==
    running = "worker" =>
        /\ task \in Tasks("embedding") \cup Tasks("evaluation")
        /\ InScript(FullReads(task))
        /\ \A f \in ContextFiles :
              /\ UsesChecked(f)
              /\ (~ refused /\ Check(f) \in DOMAIN seen) => seen[Check(f)] = Context[f]

\* An evaluation that has verified its embedding finds it, knows how it ended
\* once it has read it, and has read it sound unless it slipped away.
LooksBack ==
    (running = "worker" /\ task.kind = "evaluation") =>
        /\ (VerifyEmbedding \in DOMAIN seen /\ ~ refused) => Published(EmbeddingId)
        /\ ReadEmbedding \in DOMAIN seen => seen[ReadEmbedding].status = EndOf(task.method)
        /\ (VerifyEmbedding \in DOMAIN seen /\ ~ refused /\ "embedding" \notin slipped) =>
               IF ReadEmbedding \in DOMAIN seen THEN seen[ReadEmbedding].sound
               ELSE Valid(EmbeddingId)

\* How an object ended is decided by the pair alone.
ObjectsTruthful ==
    \A o \in objects :
        /\ o.id.task.kind = "embedding" => o.status = EndOf(o.id.task.method)
        /\ o.id.task.kind = "evaluation" =>
              (o.status = "not_evaluated" <=> EndOf(o.id.task.method) = "scientific_failure")

\* In the stage of the evaluations the embeddings have been published, and so
\* have the evaluations the stage is through with unless it lost one.
Evaluating ==
    running = "evaluations" \/ (running = "worker" /\ task.kind = "evaluation")
EvaluatingProgress ==
    Evaluating =>
        /\ \A t \in Tasks("embedding") : Published(Identity(t, bound))
        /\ lost \/ \A t \in Tasks("evaluation") \ pending : Published(Identity(t, bound))

\* What the objects say, and what the worker knows.
StoreInv ==
    ObjectsTruthful /\ ObjectsFromNamedBytes /\ EvaluationsOfSoundEmbeddings
StudyInv == WorkerSaw /\ LooksBack /\ StoreInv /\ EvaluatingProgress

StoreUntouched == UNCHANGED <<objects, decodes>>

LEMMA StoreKeeps == StoreInv /\ StoreUntouched => StoreInv'
  BY DEF StoreInv, ObjectsTruthful, ObjectsFromNamedBytes, EvaluationsOfSoundEmbeddings,
     StoreUntouched, EndOf

\* Outside the worker and its stage, nothing depends on the program.
LEMMA OutsideWorkerKeeps ==
    ASSUME StudyInv, StoreUntouched, running' \notin {"worker", "evaluations"}
    PROVE  StudyInv'
<1>1. StoreInv'
  BY StoreKeeps DEF StudyInv
<1> QED
  BY <1>1 DEF StudyInv, WorkerSaw, LooksBack, EvaluatingProgress, Evaluating

\* Only the slip of a file or of the embedding changes what a worker knows
\* while it does not move.
LEMMA WorkerStaysKeeps ==
    ASSUME StudyInv, StoreUntouched,
           UNCHANGED <<running, at, seen, refused, stageVars, bound, binding>>,
           slipped \subseteq slipped',
           running = "worker" => \A f \in ContextFiles : UsesChecked(f)',
           (/\ running = "worker" /\ EmbeddingId \in damaged' \ damaged
            /\ VerifyEmbedding \in DOMAIN seen /\ ReadEmbedding \notin DOMAIN seen)
              => "embedding" \in slipped'
    PROVE  StudyInv'
<1>1. StoreInv'
  BY StoreKeeps DEF StudyInv
<1>2. CASE running # "worker"
  BY <1>1, <1>2 DEF StudyInv, WorkerSaw, LooksBack, EvaluatingProgress, Evaluating,
     StoreUntouched, stageVars, Published, Identity, Tasks
<1>3. CASE running = "worker"
  <2>1. FullReads(task)' = FullReads(task)
    BY DEF FullReads, PairAndEmbedding, InternalReads, stageVars
  <2>2. WorkerSaw'
    BY <1>3, <2>1 DEF StudyInv, WorkerSaw, InScript, stageVars, Context, Tasks
  <2>3. LooksBack'
    BY <1>3 DEF StudyInv, LooksBack, StoreUntouched, EndOf, stageVars, EmbeddingId, Identity,
       EmbeddingOf, Published, Valid
  <2>4. EvaluatingProgress'
    BY <1>3 DEF StudyInv, EvaluatingProgress, Evaluating, StoreUntouched, stageVars, Published,
       Identity, Tasks
  <2> QED
    BY <1>1, <2>2, <2>3, <2>4 DEF StudyInv
<1> QED
  BY <1>2, <1>3

LEMMA EditKeeps ==
    ASSUME StudyInv, PlanInv, NEW F \in SUBSET Files, Edit(F),
           UNCHANGED <<planVars, studyVars, reportVars>>
    PROVE  StudyInv'
<1>1. /\ StoreUntouched /\ UNCHANGED <<running, at, seen, refused, stageVars, bound, binding>>
      /\ UNCHANGED damaged /\ slipped \subseteq slipped'
  BY DEF Edit, Slip, planVars, studyVars, storeVars, stageVars, StoreUntouched
<1>2. \A g \in ContextFiles : g \in Files
  BY DEF ContextFiles, Files, CreatedFrom, Bound
<1>3. ASSUME running = "worker", NEW g \in ContextFiles
      PROVE  UsesChecked(g)'
  BY <1>2, <1>3, EditUsesChecked DEF StudyInv, WorkerSaw, PlanInv
<1> QED
  BY <1>1, <1>3, WorkerStaysKeeps

LEMMA DamageKeeps ==
    ASSUME StudyInv, NEW o \in objects, Damage(o)
    PROVE  StudyInv'
<1>1. /\ StoreUntouched /\ UNCHANGED <<running, at, seen, refused, stageVars, bound, binding>>
      /\ UNCHANGED disk /\ slipped \subseteq slipped'
      /\ damaged' = damaged \cup {o.id}
  BY DEF Damage, Slip, planVars, StoreUntouched
<1>2. ASSUME running = "worker", NEW g \in ContextFiles
      PROVE  UsesChecked(g)'
  BY <1>1, <1>2 DEF StudyInv, WorkerSaw, UsesChecked
<1>3. (running = "worker" /\ o.id = EmbeddingId) =>
        (VerifyEmbedding \in DOMAIN seen /\ ReadEmbedding \notin DOMAIN seen =>
           "embedding" \in slipped')
  BY DEF Damage, Slip, VerifyEmbedding, ReadEmbedding
<1> QED
  BY <1>1, <1>2, <1>3, WorkerStaysKeeps

\* A worker stays within the script of a task that finds something to decode.
LEMMA ScriptPrefix ==
    ASSUME StudyInv, running = "worker", NEW i \in 1..Len(WorkerReads(task))
    PROVE  /\ i \in 1..Len(FullReads(task))
           /\ WorkerReads(task)[i] = FullReads(task)[i]
<1>1. task.kind \in Kinds
  BY DEF StudyInv, WorkerSaw, Tasks, Kinds
<1>2. CASE task.method \in Baselines \/ ~ NothingToDecode
  BY <1>2 DEF WorkerReads, BaselineReads, FullReads
<1>3. CASE task.method \notin Baselines /\ NothingToDecode
  <2>1. WorkerReads(task) = PairAndEmbedding(task)
    BY <1>3 DEF WorkerReads
  <2>2. task.kind = "evaluation"
    <3> SUFFICES ASSUME task.kind = "embedding" PROVE FALSE
      BY <1>1 DEF Kinds
    <3>1. OpensNever(FullReads(task), "embedding")
      BY <1>1, FullReadsOrder
    <3>2. PICK j \in 1..Len(FullReads(task)) : FullReads(task)[j] = ReadEmbedding
      BY <1>3 DEF StudyInv, WorkerSaw, InScript, NothingToDecode
    <3> QED
      BY <3>1, <3>2 DEF OpensNever, ReadEmbedding
  <2>3. Len(FullReads(task)) \in Nat
    BY <1>1, FullReadsOrder
  <2>4. /\ Len(PairAndEmbedding(task)) = 4 /\ Len(FullReads(task)) >= 4
        /\ \A k \in 1..4 : FullReads(task)[k] = PairAndEmbedding(task)[k]
    BY <2>2, EvaluationReads
  <2>5. i \in 1..4
    BY <2>1, <2>4
  <2> QED
    BY <2>1, <2>3, <2>4, <2>5
<1> QED
  BY <1>2, <1>3

\* The embedding is verified before it is read.
LEMMA VerifiedBeforeRead ==
    ASSUME StudyInv, running = "worker", task.kind = "evaluation", ~ refused,
           \/ at \in 1..Len(FullReads(task)) /\ FullReads(task)[at] = ReadEmbedding
           \/ ReadEmbedding \in DOMAIN seen
    PROVE  VerifyEmbedding \in DOMAIN seen
<1>1. ChecksFirst(FullReads(task), "embedding") /\ InScript(FullReads(task))
  BY FullReadsOrder DEF Kinds, StudyInv, WorkerSaw
<1>2. PICK i \in 1..Len(FullReads(task)) : i <= at /\ FullReads(task)[i] = ReadEmbedding
  BY <1>1 DEF InScript
<1>3. PICK j \in 1..Len(FullReads(task)) : j < i /\ FullReads(task)[j] = VerifyEmbedding
  BY <1>1, <1>2 DEF ChecksFirst, ReadEmbedding, VerifyEmbedding
<1> QED
  BY <1>1, <1>2, <1>3 DEF InScript

LEMMA StageTakesKeeps ==
    ASSUME StudyInv, NEW kind \in Kinds, NEW t \in Tasks(kind), StageTakes(t)
    PROVE  StudyInv'
<1>1. StoreUntouched /\ UNCHANGED <<bound, binding, lost>> /\ t.kind = kind
      /\ running = StageOf(t.kind)
  BY DEF StageTakes, StoreUntouched, storeVars, planVars, Tasks
<1>2. StoreInv'
  BY <1>1, StoreKeeps DEF StudyInv
<1>3. CASE Valid(Identity(t, bound)) /\ pending' = pending \ {t} /\ UNCHANGED <<task, programVars>>
  <2>1. running' # "worker" /\ (Evaluating' => running = "evaluations" /\ kind = "evaluation")
    BY <1>1, <1>3 DEF StageOf, Evaluating, programVars, Kinds
  <2>2. EvaluatingProgress'
    BY <1>1, <1>3, <2>1 DEF StudyInv, EvaluatingProgress, Evaluating, Valid, Published,
       Identity, Tasks, StoreUntouched
  <2> QED
    BY <1>2, <2>1, <2>2 DEF StudyInv, WorkerSaw, LooksBack
<1>4. CASE task' = t /\ Load("worker") /\ UNCHANGED pending
  <2>1. running' = "worker" /\ at' = 1 /\ DOMAIN seen' = {} /\ task' = t
    BY <1>4 DEF Load
  <2>2. t \in Tasks("embedding") \cup Tasks("evaluation")
    BY DEF Kinds
  <2>3. WorkerSaw' /\ LooksBack'
    BY <2>1, <2>2 DEF WorkerSaw, LooksBack, Tasks, InScript, UsesChecked
  <2>4. EvaluatingProgress'
    BY <1>1, <1>4, <2>1 DEF StudyInv, EvaluatingProgress, Evaluating, StageOf, Published,
       Identity, Tasks, StoreUntouched, Kinds
  <2> QED
    BY <1>2, <2>3, <2>4 DEF StudyInv
<1> QED
  BY <1>3, <1>4 DEF StageTakes

\* One more step of a worker, whatever it reads.
LEMMA WorkerStepKeeps ==
    ASSUME StudyInv, running = "worker", ~ refused, at \in 1..Len(WorkerReads(task)),
           NEW what, Learn(WorkerReads(task)[at], what), at' = at + 1,
           UNCHANGED <<running, bound, binding, stageVars>>, StoreUntouched
    PROVE  /\ InScript(FullReads(task))' /\ (StoreInv /\ EvaluatingProgress)'
           /\ WorkerReads(task)[at] = FullReads(task)[at] /\ at \in 1..Len(FullReads(task))
<1> DEFINE script == FullReads(task)
<1>1. task.kind \in Kinds /\ InScript(script)
  BY DEF StudyInv, WorkerSaw, Tasks, Kinds
<1>2. at \in 1..Len(script) /\ script[at] = WorkerReads(task)[at] /\ Len(script) \in Nat
  BY <1>1, ScriptPrefix, FullReadsOrder
<1>3. script' = script
  BY DEF FullReads, PairAndEmbedding, InternalReads, stageVars
<1>4. EvaluatingProgress'
  BY DEF StudyInv, EvaluatingProgress, Evaluating, Published, Identity, Tasks, stageVars,
     StoreUntouched
<1>5. StoreInv'
  BY StoreKeeps DEF StudyInv
<1>6. InScript(script)'
  <2> HIDE DEF script
  <2>1. \A s : s = script => (InScript(s))'
    BY <1>1, <1>2, ReadInScript
  <2> QED
    BY <1>3, <2>1 DEF InScript
<1> QED
  BY <1>2, <1>4, <1>5, <1>6

LEMMA WorkerReadKeeps ==
    ASSUME StudyInv, WorkerReadsNext
    PROVE  StudyInv'
<1> DEFINE script == FullReads(task)
           key == WorkerReads(task)[at]
<1>1. /\ StoreUntouched /\ UNCHANGED <<bound, binding, damaged, stageVars, running, slipped, disk>>
      /\ running = "worker" /\ ~ refused /\ at \in Nat \ {0}
      /\ ReadNext(WorkerReads(task), Context)
  BY DEF WorkerReadsNext, StoreUntouched, storeVars, planVars, studyVars, stageVars, ReadNext,
     inputVars, StudyInv, WorkerSaw, InScript
<1>2. /\ at \in 1..Len(WorkerReads(task)) /\ at' = at + 1 /\ Learn(key, disk[key[2]])
      /\ (key[1] = "check" /\ ~ refused') => disk[key[2]] = Context[key[2]]
      /\ key # VerifyEmbedding /\ key # ReadEmbedding
  BY <1>1 DEF ReadNext, WorkerReadsNext, AtEmbedding
<1>3. /\ (InScript(script) /\ StoreInv /\ EvaluatingProgress)'
      /\ key = script[at] /\ at \in 1..Len(script)
  BY <1>1, <1>2, WorkerStepKeeps
<1>4. /\ task \in Tasks("embedding") \cup Tasks("evaluation") /\ InScript(script)
      /\ \A f \in ContextFiles : ChecksFirst(script, f) /\ UsesChecked(f)
  BY <1>1, FullReadsOrder DEF StudyInv, WorkerSaw, Tasks, Kinds
<1>5. /\ DOMAIN seen' = {key} \cup DOMAIN seen /\ seen'[key] = disk[key[2]]
      /\ \A h \in DOMAIN seen : h # key => seen'[h] = seen[h]
  BY <1>2, Learned
<1> HIDE DEF key
<1>6. WorkerSaw'
  <2>1. ASSUME NEW f \in ContextFiles PROVE UsesChecked(f)'
    <3>1. Learn(script[at], disk[script[at][2]])
      BY <1>2, <1>3
    <3> HIDE DEF script
    <3> QED
      BY <1>1, <1>3, <1>4, <3>1, ReadUsesChecked
  <2>2. ASSUME NEW f \in ContextFiles, ~ refused', Check(f) \in DOMAIN seen'
        PROVE  seen'[Check(f)] = Context[f]
    <3>1. CASE Check(f) = key
      BY <1>2, <1>5, <3>1, <2>2 DEF Check
    <3>2. CASE Check(f) # key
      BY <1>1, <1>5, <2>2, <3>2 DEF StudyInv, WorkerSaw
    <3> QED
      BY <3>1, <3>2
  <2>3. Context' = Context
    BY <1>1 DEF Context
  <2> QED
    BY <1>1, <1>3, <1>4, <2>1, <2>2, <2>3 DEF WorkerSaw, Tasks, stageVars
<1>7. LooksBack'
  BY <1>1, <1>2, <1>5 DEF StudyInv, LooksBack, StoreUntouched, stageVars, EndOf, EmbeddingId,
     Identity, EmbeddingOf, Published, Valid
<1> QED
  BY <1>3, <1>6, <1>7 DEF StudyInv

LEMMA PublishedIsThere ==
    ASSUME NEW id, Published(id)
    PROVE  ObjectAt(id) \in objects /\ ObjectAt(id).id = id
  BY DEF Published, ObjectAt

\* The worker turns to its embedding: what it knows of the files stays.
LEMMA EmbeddingStepKeeps ==
    ASSUME StudyInv, NEW how \in {VerifyEmbedding, ReadEmbedding}, AtEmbedding(how),
           running = "worker", ~ refused, NEW what, Learn(how, what), at' = at + 1,
           UNCHANGED <<running, slipped, inputVars, planVars, studyVars>>
    PROVE  /\ (WorkerSaw /\ StoreInv /\ EvaluatingProgress)'
           /\ FullReads(task)[at] = how /\ at \in 1..Len(FullReads(task))
<1>1. /\ StoreUntouched /\ UNCHANGED <<bound, binding, stageVars, disk>>
      /\ at \in Nat \ {0}
  BY DEF StoreUntouched, storeVars, planVars, studyVars, stageVars, inputVars, StudyInv,
     WorkerSaw, InScript
<1>2. at \in 1..Len(WorkerReads(task)) /\ WorkerReads(task)[at] = how
  BY <1>1 DEF AtEmbedding
<1>3. /\ (InScript(FullReads(task)) /\ StoreInv /\ EvaluatingProgress)'
      /\ FullReads(task)[at] = how /\ at \in 1..Len(FullReads(task))
  BY <1>1, <1>2, WorkerStepKeeps
<1>4. /\ DOMAIN seen' = {how} \cup DOMAIN seen
      /\ \A h \in DOMAIN seen : h # how => seen'[h] = seen[h]
  BY Learned
<1>5. \A f \in ContextFiles : Check(f) # how /\ Parse(f) # how
  BY DEF ContextFiles, Check, Parse, VerifyEmbedding, ReadEmbedding
<1>6. \A f \in ContextFiles : UsesChecked(f)'
  BY <1>1, <1>4, <1>5 DEF StudyInv, WorkerSaw, UsesChecked
<1>7. Context' = Context
  BY <1>1 DEF Context
<1>8. WorkerSaw'
  BY <1>1, <1>3, <1>4, <1>5, <1>6, <1>7 DEF StudyInv, WorkerSaw, Tasks, stageVars
<1> QED
  BY <1>3, <1>8

LEMMA WorkerVerifiesKeeps ==
    ASSUME StudyInv, WorkerVerifiesEmbedding
    PROVE  StudyInv'
<1>1. /\ running = "worker" /\ ~ refused /\ at' = at + 1
      /\ AtEmbedding(VerifyEmbedding) /\ Learn(VerifyEmbedding, TRUE)
      /\ refused' = ~ Valid(EmbeddingId)
      /\ UNCHANGED <<running, slipped, inputVars, planVars, studyVars>>
  BY DEF WorkerVerifiesEmbedding, EmbeddingVerifies
<1>2. /\ (WorkerSaw /\ StoreInv /\ EvaluatingProgress)'
      /\ FullReads(task)[at] = VerifyEmbedding /\ at \in 1..Len(FullReads(task))
  BY <1>1, EmbeddingStepKeeps
<1>3. /\ DOMAIN seen' = {VerifyEmbedding} \cup DOMAIN seen
      /\ \A h \in DOMAIN seen : h # VerifyEmbedding => seen'[h] = seen[h]
  BY <1>1, Learned
<1>4. VerifyEmbedding # ReadEmbedding
  BY DEF VerifyEmbedding, ReadEmbedding, Check, Parse
<1>5. ASSUME task.kind = "evaluation" PROVE ReadEmbedding \notin DOMAIN seen
  <2>1. ChecksFirst(FullReads(task), "embedding") /\ InScript(FullReads(task))
    BY <1>1, <1>5, FullReadsOrder DEF Kinds, StudyInv, WorkerSaw
  <2> QED
    BY <1>2, <2>1 DEF ChecksFirst, InScript, VerifyEmbedding, ReadEmbedding
<1>6. LooksBack'
  BY <1>1, <1>3, <1>4, <1>5 DEF StudyInv, LooksBack, studyVars, stageVars, storeVars, planVars,
     EndOf, EmbeddingId, Identity, EmbeddingOf, Published, Valid
<1> QED
  BY <1>2, <1>6 DEF StudyInv

LEMMA WorkerLooksKeeps ==
    ASSUME StudyInv, WorkerReadsEmbedding
    PROVE  StudyInv'
<1> DEFINE what == [status |-> ObjectAt(EmbeddingId).status, sound |-> Valid(EmbeddingId)]
<1>1. /\ running = "worker" /\ ~ refused /\ at' = at + 1 /\ UNCHANGED refused
      /\ AtEmbedding(ReadEmbedding) /\ Learn(ReadEmbedding, what)
      /\ UNCHANGED <<running, slipped, inputVars, planVars, studyVars>>
  BY DEF WorkerReadsEmbedding
<1>2. /\ (WorkerSaw /\ StoreInv /\ EvaluatingProgress)'
      /\ FullReads(task)[at] = ReadEmbedding /\ at \in 1..Len(FullReads(task))
  BY <1>1, EmbeddingStepKeeps
<1>3. /\ DOMAIN seen' = {ReadEmbedding} \cup DOMAIN seen /\ seen'[ReadEmbedding] = what
      /\ \A h \in DOMAIN seen : h # ReadEmbedding => seen'[h] = seen[h]
  BY <1>1, Learned
<1>4. ASSUME task.kind = "evaluation"
      PROVE  /\ VerifyEmbedding \in DOMAIN seen /\ Published(EmbeddingId)
             /\ ObjectAt(EmbeddingId).status = EndOf(task.method)
             /\ "embedding" \notin slipped => ReadEmbedding \in DOMAIN seen \/ Valid(EmbeddingId)
  <2>1. VerifyEmbedding \in DOMAIN seen
    BY <1>1, <1>2, <1>4, VerifiedBeforeRead
  <2>2. Published(EmbeddingId) /\ ("embedding" \notin slipped =>
            ReadEmbedding \in DOMAIN seen \/ Valid(EmbeddingId))
    BY <1>1, <1>4, <2>1 DEF StudyInv, LooksBack
  <2>3. ObjectAt(EmbeddingId) \in objects /\ ObjectAt(EmbeddingId).id = EmbeddingId
    BY <2>2, PublishedIsThere
  <2>4. EmbeddingId.task.kind = "embedding" /\ EmbeddingId.task.method = task.method
    BY <1>1 DEF EmbeddingId, Identity, EmbeddingOf, StudyInv, WorkerSaw, Tasks
  <2> QED
    BY <2>1, <2>2, <2>3, <2>4 DEF StudyInv, StoreInv, ObjectsTruthful
<1>5. ASSUME task.kind = "evaluation" PROVE ReadEmbedding \notin DOMAIN seen
  <2>1. ChecksFirst(FullReads(task), "embedding") /\ InScript(FullReads(task))
    BY <1>1, <1>5, FullReadsOrder DEF Kinds, StudyInv, WorkerSaw
  <2> QED
    BY <1>2, <2>1 DEF ChecksFirst, InScript, ReadEmbedding
<1>6. EmbeddingId' = EmbeddingId /\ Published(EmbeddingId)' = Published(EmbeddingId)
  BY <1>1 DEF EmbeddingId, Identity, EmbeddingOf, Published, studyVars, stageVars, storeVars,
     planVars
<1>7. UNCHANGED <<task, decodes, slipped>>
  BY <1>1 DEF studyVars, stageVars
<1>8. what.status = ObjectAt(EmbeddingId).status /\ what.sound = Valid(EmbeddingId)
  OBVIOUS
<1> HIDE DEF what
<1>9. LooksBack'
  BY <1>1, <1>3, <1>4, <1>5, <1>6, <1>7, <1>8 DEF LooksBack, EndOf
<1> QED
  BY <1>2, <1>9 DEF StudyInv

\* An object that takes the place of another one has its identity.
LEMMA PublishingKeepsPublished ==
    ASSUME NEW id, NEW new, new.id = id, NEW other, Published(other),
           objects' = {o \in objects : o.id # id} \cup {new}
    PROVE  Published(other)'
<1>1. PICK o \in objects : o.id = other
  BY DEF Published
<1>2. CASE other = id
  BY <1>2 DEF Published
<1>3. CASE other # id
  BY <1>1, <1>3 DEF Published
<1> QED
  BY <1>2, <1>3

\* What a worker that is through its script has computed from.
LEMMA MadeFromContext ==
    ASSUME StudyInv, running = "worker", ~ refused,
           NEW f \in ContextFiles, f \in DOMAIN Made, f \notin slipped
    PROVE  Made[f] = Context[f]
<1> DEFINE script == FullReads(task)
<1>1. Parse(f) \in DOMAIN seen /\ Made[f] = seen[Parse(f)]
  BY DEF Made
<1>2. InScript(script) /\ ChecksFirst(script, f) /\ UsesChecked(f)
  BY FullReadsOrder DEF StudyInv, WorkerSaw, Tasks, Kinds
<1> HIDE DEF script
<1>3. PICK i \in 1..Len(script) : i < at /\ script[i] = Parse(f)
  BY <1>1, <1>2 DEF InScript
<1>4. PICK j \in 1..Len(script) : j < i /\ script[j] = Check(f)
  BY <1>2, <1>3 DEF ChecksFirst
<1>5. Check(f) \in DOMAIN seen
  BY <1>2, <1>3, <1>4 DEF InScript
<1> QED
  BY <1>1, <1>2, <1>5 DEF UsesChecked, StudyInv, WorkerSaw

\* An evaluation that is through has verified its embedding and read it.
LEMMA ThroughReadsEmbedding ==
    ASSUME StudyInv, Through("worker", WorkerReads(task)), task.kind = "evaluation"
    PROVE  VerifyEmbedding \in DOMAIN seen /\ ReadEmbedding \in DOMAIN seen
<1>1. running = "worker" /\ ~ refused /\ at > Len(WorkerReads(task)) /\ InScript(FullReads(task))
  BY DEF Through, StudyInv, WorkerSaw
<1>2. /\ Len(FullReads(task)) >= 4 /\ Len(FullReads(task)) \in Nat
      /\ Len(PairAndEmbedding(task)) = 4
      /\ FullReads(task)[4] = ReadEmbedding
  BY EvaluationReads, FullReadsOrder DEF Kinds
<1>3. WorkerReads(task) = PairAndEmbedding(task) \/ WorkerReads(task) = FullReads(task)
  BY DEF WorkerReads, BaselineReads, FullReads
<1>4. Len(WorkerReads(task)) >= 4 /\ Len(WorkerReads(task)) \in Nat
  <2>1. CASE WorkerReads(task) = PairAndEmbedding(task)
    <3>1. Len(WorkerReads(task)) = 4
      BY <1>2, <2>1
    <3> QED
      BY <3>1
  <2>2. CASE WorkerReads(task) = FullReads(task)
    BY <1>2, <2>2
  <2> QED
    BY <1>3, <2>1, <2>2
<1>5. 4 < at /\ 4 \in 1..Len(FullReads(task))
  BY <1>1, <1>2, <1>4 DEF InScript
<1>6. ReadEmbedding \in DOMAIN seen
  BY <1>1, <1>2, <1>5 DEF InScript
<1> QED
  BY <1>1, <1>6, VerifiedBeforeRead

LEMMA WorkerCompletesKeeps ==
    ASSUME StudyInv, SummaryInv, PlanInv, WorkerCompletes
    PROVE  StudyInv'
<1> DEFINE id  == Identity(task, bound)
           new == [id |-> id, status |-> Outcome, made |-> Made, slipped |-> slipped]
<1>1. /\ running = "worker" /\ running' = StageOf(task.kind) /\ ~ refused
      /\ Through("worker", WorkerReads(task))
      /\ UNCHANGED <<bound, binding, decodes, lost>> /\ pending' = pending \ {task}
      /\ objects' = {o \in objects : o.id # id} \cup {new}
  BY DEF WorkerCompletes, Through, Load, planVars
<1>2. /\ task \in Tasks("embedding") \cup Tasks("evaluation")
      /\ id.task = task /\ new.id = id /\ new.status = Outcome /\ new.made = Made
      /\ new.slipped = slipped
  BY <1>1 DEF StudyInv, WorkerSaw, Identity
<1>3. bound # Missing /\ bound.runtime = binding
  BY <1>1 DEF SummaryInv, StageOwnsDirectory, Stages, PlanInv, BoundIsFinal
<1>4. ObjectsFromNamedBytes'
  <2>1. ASSUME NEW f \in DOMAIN Made \ slipped
        PROVE  /\ f = "config"    => Made[f] = id.common["config"]
               /\ f = "images"    => Made[f] = id.rows
               /\ f = "stability" => Made[f] = id.runtime["stability"]
    <3>1. f \in ContextFiles => Made[f] = Context[f]
      BY <1>1, <2>1, MadeFromContext
    <3>2. /\ Context["config"] = bound.from["config"]
          /\ Context["images"] = bound.rows
          /\ Context["stability"] = binding["stability"]
      BY DEF Context
    <3> QED
      BY <1>3, <3>1, <3>2 DEF Identity, ContextFiles
  <2> HIDE DEF id, new
  <2>2. ASSUME NEW o \in objects', NEW f \in DOMAIN o.made \ o.slipped
        PROVE  /\ f = "config"    => o.made[f] = o.id.common["config"]
               /\ f = "images"    => o.made[f] = o.id.rows
               /\ f = "stability" => o.made[f] = o.id.runtime["stability"]
    <3>1. CASE o = new
      BY <1>2, <2>1, <2>2, <3>1
    <3>2. CASE o \in objects
      BY <2>2, <3>2 DEF StudyInv, StoreInv, ObjectsFromNamedBytes
    <3> QED
      BY <1>1, <2>2, <3>1, <3>2
  <2> QED
    BY <2>2 DEF ObjectsFromNamedBytes
<1>5. EvaluationsOfSoundEmbeddings'
  <2>1. ASSUME task.kind = "evaluation"
        PROVE  /\ "embedding" \in DOMAIN Made
               /\ Made["embedding"].sound \/ "embedding" \in slipped
    <3>1. VerifyEmbedding \in DOMAIN seen /\ ReadEmbedding \in DOMAIN seen
      BY <1>1, <2>1, ThroughReadsEmbedding
    <3>2. "embedding" \in DOMAIN Made /\ Made["embedding"] = seen[ReadEmbedding]
      BY <3>1 DEF Made, ReadEmbedding
    <3> QED
      BY <1>1, <2>1, <3>1, <3>2 DEF StudyInv, LooksBack
  <2> HIDE DEF id, new
  <2>2. ASSUME NEW o \in objects', o.id.task.kind = "evaluation"
        PROVE  /\ "embedding" \in DOMAIN o.made
               /\ o.made["embedding"].sound \/ "embedding" \in o.slipped
    <3>1. CASE o = new
      BY <1>2, <2>1, <2>2, <3>1
    <3>2. CASE o \in objects
      BY <2>2, <3>2 DEF StudyInv, StoreInv, EvaluationsOfSoundEmbeddings
    <3> QED
      BY <1>1, <2>2, <3>1, <3>2
  <2> QED
    BY <2>2 DEF EvaluationsOfSoundEmbeddings
<1>6. ObjectsTruthful'
  <2>1. task.kind = "embedding" => Outcome = EndOf(task.method)
    BY DEF Outcome, EmbeddingOutcome, EndOf
  <2>2. ASSUME task.kind = "evaluation"
        PROVE  Outcome = "not_evaluated" <=> EndOf(task.method) = "scientific_failure"
    <3>1. ReadEmbedding \in DOMAIN seen
      BY <1>1, <2>2, ThroughReadsEmbedding
    <3>2. seen[ReadEmbedding].status = EndOf(task.method)
      BY <1>1, <2>2, <3>1 DEF StudyInv, LooksBack
    <3>3. NothingToDecode <=> EndOf(task.method) = "scientific_failure"
      BY <3>1, <3>2 DEF NothingToDecode
    <3> QED
      BY <2>2, <3>3 DEF Outcome, EvaluationOutcome
  <2> HIDE DEF id, new
  <2>3. \A method : EndOf(method)' = EndOf(method)
    BY <1>1 DEF EndOf
  <2>4. ASSUME NEW o \in objects'
        PROVE  /\ o.id.task.kind = "embedding" => o.status = EndOf(o.id.task.method)
               /\ o.id.task.kind = "evaluation" =>
                     (o.status = "not_evaluated" <=> EndOf(o.id.task.method) = "scientific_failure")
    <3>1. CASE o = new
      BY <1>2, <2>1, <2>2, <3>1
    <3>2. CASE o \in objects
      BY <3>2 DEF StudyInv, StoreInv, ObjectsTruthful
    <3> QED
      BY <1>1, <2>4, <3>1, <3>2
  <2> QED
    BY <2>3, <2>4 DEF ObjectsTruthful
<1>7. EvaluatingProgress'
  <2> SUFFICES ASSUME task.kind = "evaluation"
      PROVE  /\ \A t \in Tasks("embedding") : Published(Identity(t, bound))'
             /\ lost \/ \A t \in Tasks("evaluation") \ (pending \ {task}) :
                            Published(Identity(t, bound))'
    BY <1>1, <1>2 DEF EvaluatingProgress, Evaluating, StageOf, Tasks, Identity
  <2>1. /\ \A t \in Tasks("embedding") : Published(Identity(t, bound))
        /\ lost \/ \A t \in Tasks("evaluation") \ pending : Published(Identity(t, bound))
    BY <1>1 DEF StudyInv, EvaluatingProgress, Evaluating
  <2>2. \A other : Published(other) => Published(other)'
    BY <1>1, <1>2, PublishingKeepsPublished
  <2>3. \A t : Identity(t, bound)' = Identity(t, bound)
    BY <1>1 DEF Identity
  <2>4. ASSUME NEW t, Published(Identity(t, bound))
        PROVE  Published(Identity(t, bound))'
    BY <2>2, <2>3, <2>4 DEF Published
  <2>5. ASSUME NEW t, t = task
        PROVE  Published(Identity(t, bound))'
    <3>1. new \in objects' /\ new.id = Identity(t, bound)
      BY <1>1, <1>2, <2>5
    <3> QED
      BY <2>3, <3>1 DEF Published
  <2> QED
    BY <1>1, <2>1, <2>4, <2>5
<1>8. WorkerSaw' /\ LooksBack'
  BY <1>1 DEF WorkerSaw, LooksBack, StageOf
<1> QED
  BY <1>4, <1>5, <1>6, <1>7, <1>8 DEF StudyInv, StoreInv

LEMMA WorkerFailsKeeps ==
    ASSUME StudyInv, WorkerFails
    PROVE  StudyInv'
<1>1. /\ StoreUntouched /\ UNCHANGED bound /\ running = "worker"
      /\ running' = StageOf(task.kind)
      /\ task \in Tasks("embedding") \cup Tasks("evaluation")
      /\ lost' \/ UNCHANGED <<pending, lost>>
  BY DEF WorkerFails, Load, StoreUntouched, storeVars, planVars, StudyInv, WorkerSaw
<1>2. running' # "worker" /\ (Evaluating' => Evaluating)
  BY <1>1 DEF StageOf, Evaluating, Tasks
<1>3. EvaluatingProgress'
  BY <1>1, <1>2 DEF StudyInv, EvaluatingProgress, Published, Identity, Tasks, StoreUntouched
<1>4. StoreInv'
  BY <1>1, StoreKeeps DEF StudyInv
<1> QED
  BY <1>2, <1>3, <1>4 DEF StudyInv, WorkerSaw, LooksBack

LEMMA AcceptanceKeeps ==
    ASSUME StudyInv, AcceptancePasses
    PROVE  StudyInv'
<1>1. /\ StoreUntouched /\ UNCHANGED bound /\ running' = "evaluations"
      /\ pending' = Tasks("evaluation") /\ Accepted
  BY DEF AcceptancePasses, Load, StoreUntouched, storeVars, planVars
<1>2. EvaluatingProgress'
  BY <1>1 DEF EvaluatingProgress, Accepted, Valid, Published, Identity, Tasks, StoreUntouched
<1>3. StoreInv'
  BY <1>1, StoreKeeps DEF StudyInv
<1> QED
  BY <1>1, <1>2, <1>3 DEF StudyInv, WorkerSaw, LooksBack

LEMMA StudyNextKeeps ==
    ASSUME StudyInv, SummaryInv, PlanInv, StudyNext
    PROVE  StudyInv'
<1>1. CASE \E kind \in {"embedding", "evaluation"} : \E t \in Tasks(kind) : StageTakes(t)
  BY <1>1, StageTakesKeeps DEF Kinds
<1>2. CASE \E o \in objects : Damage(o)
  BY <1>2, DamageKeeps
<1>3. CASE \/ StartDispatch \/ DispatchVerifies \/ DispatchBegins \/ PreflightPasses
           \/ DispatchAborts \/ EmbeddingsEnd \/ AcceptanceRefuses \/ AcceptanceStops
           \/ EvaluationsEnd \/ NewRunDirectory
  <2>1. StoreUntouched
    BY <1>3 DEF StartDispatch, DispatchVerifies, DispatchBegins, PreflightPasses,
       DispatchAborts, EmbeddingsEnd, AcceptanceRefuses, AcceptanceStops, EvaluationsEnd,
       NewRunDirectory, StoreUntouched, studyVars, storeVars
  <2>2. running' \notin {"worker", "evaluations"}
    BY <1>3 DEF StartDispatch, DispatchVerifies, DispatchBegins, PreflightPasses,
       DispatchAborts, EmbeddingsEnd, AcceptanceRefuses, AcceptanceStops, EvaluationsEnd,
       NewRunDirectory, ReadNext, Load, Stop, Exit, Summarise, programVars
  <2> QED
    BY <2>1, <2>2, OutsideWorkerKeeps
<1> QED
  BY <1>1, <1>2, <1>3, WorkerReadKeeps, WorkerVerifiesKeeps, WorkerLooksKeeps,
     WorkerCompletesKeeps, WorkerFailsKeeps, AcceptanceKeeps DEF StudyNext

LEMMA StudyInvHolds == StudyInv /\ SummaryInv /\ PlanInv /\ [Next]_vars => StudyInv'
<1> SUFFICES ASSUME StudyInv, SummaryInv, PlanInv, [Next]_vars PROVE StudyInv'
    OBVIOUS
<1>1. CASE PlanNext /\ UNCHANGED <<studyVars, reportVars>>
  BY <1>1, PlanIsOther, OutsideWorkerKeeps DEF studyVars, storeVars, StoreUntouched, PlanPrograms
<1>2. CASE Discard /\ UNCHANGED <<studyVars, reportVars>>
  BY <1>2, OutsideWorkerKeeps DEF Discard, programVars, studyVars, storeVars, StoreUntouched
<1>3. CASE StudyNext
  BY <1>3, StudyNextKeeps
<1>4. CASE ReportNext
  BY <1>4, ReportIsOther, OutsideWorkerKeeps DEF studyVars, storeVars, StoreUntouched,
     ReportPrograms
<1>5. CASE \E F \in Editable : Edit(F) /\ UNCHANGED <<planVars, studyVars, reportVars>>
  BY <1>5, EditKeeps, EditableAssumption
<1>6. CASE Kill
  BY <1>6, OutsideWorkerKeeps DEF Kill, Stop, Exit, Load, storeVars, StoreUntouched
<1>7. CASE UNCHANGED vars
  <2>1. StoreUntouched /\ UNCHANGED <<programVars, stageVars, bound, binding, damaged, disk>>
    BY <1>7 DEF vars, planVars, studyVars, storeVars, inputVars, StoreUntouched
  <2>2. running = "worker" => \A f \in ContextFiles : UsesChecked(f)'
    BY <2>1 DEF StudyInv, WorkerSaw, UsesChecked, programVars
  <2> QED
    BY <2>1, <2>2, WorkerStaysKeeps DEF programVars
<1> QED
  BY <1>1, <1>2, <1>3, <1>4, <1>5, <1>6, <1>7 DEF Next

LEMMA StudyInvStarts == Init => StudyInv
  BY DEF Init, InputInit, StudyInit, StudyInv, StoreInv, WorkerSaw, LooksBack, ObjectsTruthful,
     ObjectsFromNamedBytes, EvaluationsOfSoundEmbeddings, EvaluatingProgress, Evaluating

\* Every published object was computed from the bytes its identity names,
\* unless a file changed between the moment the worker hashed it and the moment
\* it opened it: what is hashed is held against the plan the study has frozen,
\* the plan cannot change under the worker, and what is opened was hashed.
THEOREM NamedBytes == Spec => []ObjectsFromNamedBytes
<1>1. StudyInv => ObjectsFromNamedBytes
  BY DEF StudyInv, StoreInv
<1> QED
  BY <1>1, PlanInvStarts, PlanInvHolds, SummaryInvStarts, SummaryInvHolds, StudyInvStarts,
     StudyInvHolds, PTL DEF Spec

\* An evaluation is computed from an embedding that was sound when its worker
\* read it, or was damaged between the verification and the reading.
THEOREM SoundEmbeddings == Spec => []EvaluationsOfSoundEmbeddings
<1>1. StudyInv => EvaluationsOfSoundEmbeddings
  BY DEF StudyInv, StoreInv
<1> QED
  BY <1>1, PlanInvStarts, PlanInvHolds, SummaryInvStarts, SummaryInvHolds, StudyInvStarts,
     StudyInvHolds, PTL DEF Spec

\* The summary is written in three steps only, once with this status.
LEMMA CompleteIsWritten ==
    ASSUME Next, summary' \notin {summary, Missing}, summary'.status = "run_complete_local"
    PROVE  EvaluationsEnd
<1>1. AcceptanceStops \/ EvaluationsEnd
  BY ReportIsOther DEF Next, StudyNext, StartDispatch, DispatchVerifies, DispatchBegins,
     PreflightPasses, DispatchAborts, StageTakes, WorkerReadsNext, WorkerVerifiesEmbedding,
     WorkerReadsEmbedding, WorkerCompletes, WorkerFails, EmbeddingsEnd, AcceptanceRefuses,
     AcceptancePasses, Damage, NewRunDirectory, studyVars, runVars, Kill
<1>2. CASE AcceptanceStops
  BY <1>2 DEF AcceptanceStops, Summarise
<1> QED
  BY <1>1, <1>2

\* A study is reported complete only when every embedding and every evaluation
\* of its plan has been published, and an evaluation is left out exactly where
\* the embedding is a clean failure.
THEOREM CompleteStudy == Spec => CompleteMeansEvaluated
<1> DEFINE Whole ==
        \A t \in Tasks("evaluation") :
            LET e == Identity(t, summary'.plan)
                m == Identity(EmbeddingOf(t), summary'.plan) IN
            /\ Published(e) /\ Published(m)
            /\ (ObjectAt(e).status = "not_evaluated")
                  <=> (ObjectAt(m).status = "scientific_failure")
           Reported == summary' \notin {summary, Missing} /\ summary'.status = "run_complete_local"
<1>1. ASSUME StudyInv, Next, Reported
      PROVE  Whole
  <2>1. /\ running = "evaluations" /\ pending = {} /\ ~ lost /\ summary'.plan = bound
    BY <1>1, CompleteIsWritten DEF EvaluationsEnd, Summarise, StageFailed
  <2> SUFFICES ASSUME NEW t \in Tasks("evaluation")
      PROVE  LET e == Identity(t, bound)
                 m == Identity(EmbeddingOf(t), bound) IN
             /\ Published(e) /\ Published(m)
             /\ (ObjectAt(e).status = "not_evaluated")
                   <=> (ObjectAt(m).status = "scientific_failure")
    BY <2>1
  <2> DEFINE e == Identity(t, bound)
             m == Identity(EmbeddingOf(t), bound)
  <2>2. EmbeddingOf(t) \in Tasks("embedding")
    BY DEF EmbeddingOf, Tasks
  <2>3. Published(e) /\ Published(m)
    BY <1>1, <2>1, <2>2 DEF StudyInv, EvaluatingProgress, Evaluating
  <2>4. /\ ObjectAt(e) \in objects /\ ObjectAt(e).id.task = t
        /\ ObjectAt(m) \in objects /\ ObjectAt(m).id.task = EmbeddingOf(t)
    BY <2>3, PublishedIsThere DEF Identity
  <2>5. /\ t.kind = "evaluation" /\ EmbeddingOf(t).kind = "embedding"
        /\ EmbeddingOf(t).method = t.method
    BY DEF EmbeddingOf, Tasks
  <2>6. ObjectAt(e).status = "not_evaluated" <=> EndOf(t.method) = "scientific_failure"
    BY <1>1, <2>4, <2>5 DEF StudyInv, StoreInv, ObjectsTruthful
  <2>7. ObjectAt(m).status = EndOf(t.method)
    BY <1>1, <2>4, <2>5 DEF StudyInv, StoreInv, ObjectsTruthful
  <2> QED
    BY <2>3, <2>6, <2>7
<1>2. ASSUME StudyInv, [Next]_vars
      PROVE  [Reported => Whole]_vars
  <2>1. CASE Next
    BY <2>1, <1>1, <1>2
  <2>2. CASE UNCHANGED vars
    BY <2>2
  <2> QED
    BY <1>2, <2>1, <2>2
<1> QED
  BY <1>2, PlanInvStarts, PlanInvHolds, SummaryInvStarts, SummaryInvHolds, StudyInvStarts,
     StudyInvHolds, PTL DEF Spec, CompleteMeansEvaluated

-----------------------------------------------------------------------------
(* The dispatch.                                                           *)

\* The main manifest is checked before its rows are parsed.
LEMMA DispatchScript ==
    /\ Len(DispatchReads) = 12
    /\ DispatchReads[5] = Check("main") /\ DispatchReads[10] = Parse("main")
    /\ ChecksFirst(DispatchReads, "main")
<1>1. /\ Len(DispatchReads) = 12
      /\ DispatchReads[5] = Check("main") /\ DispatchReads[10] = Parse("main")
  BY DEF DispatchReads, ValidatorReads, CreatedFromReads, PairReads
<1>2. /\ \A i \in 1..12 : DispatchReads[i] = Check("main") => i = 5
      /\ \A i \in 1..12 : DispatchReads[i] = Parse("main") => i = 10
  BY DEF DispatchReads, ValidatorReads, CreatedFromReads, PairReads, Check, Parse, Fits
<1> QED
  BY <1>1, <1>2 DEF ChecksFirst

\* What the dispatch has checked of the main manifest is what the plan names.
DispatchSaw ==
    running = "dispatch" =>
        /\ InScript(DispatchReads) /\ UsesChecked("main")
        /\ (~ refused /\ Check("main") \in DOMAIN seen) =>
               seen[Check("main")] = bound.from["main"]

LEMMA DispatchReadKeeps ==
    ASSUME DispatchSaw, DispatchVerifies
    PROVE  DispatchSaw'
<1> DEFINE key == DispatchReads[at]
<1>1. /\ running = "dispatch" /\ ~ refused /\ ReadNext(DispatchReads, Recorded)
      /\ UNCHANGED <<bound, binding, running, slipped, disk>>
  BY DEF DispatchVerifies, ReadNext, planVars, inputVars
<1>2. InScript(DispatchReads) /\ at \in 1..12
  BY <1>1, DispatchScript DEF DispatchSaw, ReadNext, InScript
<1>3. /\ at' = at + 1 /\ Learn(key, disk[key[2]])
      /\ (key[1] = "check" /\ ~ refused') => disk[key[2]] = Recorded[key[2]]
  BY <1>1 DEF ReadNext
<1>4. InScript(DispatchReads)'
  <2>1. PICK s : s = DispatchReads
    OBVIOUS
  <2>2. InScript(s) /\ at \in 1..Len(s) /\ Len(s) \in Nat /\ Learn(s[at], disk[key[2]])
    <3>1. Len(s) = 12
      BY <2>1, DispatchScript
    <3> QED
      BY <1>2, <1>3, <2>1, <3>1
  <2>3. InScript(s)'
    BY <1>1, <1>3, <2>2, ReadInScript
  <2>4. DispatchReads' = s
    BY <2>1 DEF DispatchReads, ValidatorReads, CreatedFromReads, PairReads
  <2> QED
    BY <2>3, <2>4 DEF InScript
<1>5. UsesChecked("main")'
  BY <1>1, <1>2, <1>3, DispatchScript, ReadUsesChecked DEF DispatchSaw
<1>6. ASSUME ~ refused', Check("main") \in DOMAIN seen'
      PROVE  seen'[Check("main")] = bound.from["main"]
  <2>1. /\ DOMAIN seen' = {key} \cup DOMAIN seen /\ seen'[key] = disk[key[2]]
        /\ \A h \in DOMAIN seen : h # key => seen'[h] = seen[h]
    BY <1>3, Learned
  <2>2. Recorded["main"] = bound.from["main"]
    BY DEF Recorded, Bound, CreatedFrom
  <2>3. CASE key = Check("main")
    BY <1>3, <1>6, <2>1, <2>2, <2>3 DEF Check
  <2>4. CASE key # Check("main")
    BY <1>1, <1>6, <2>1, <2>4 DEF DispatchSaw
  <2> QED
    BY <2>3, <2>4
<1> QED
  BY <1>1, <1>4, <1>5, <1>6 DEF DispatchSaw

\* Only a dispatch goes on with a dispatch.
LEMMA DispatchGoesOn ==
    ASSUME Next, running' = "dispatch"
    PROVE  \/ StartDispatch \/ DispatchVerifies
           \/ \E o \in objects : Damage(o)
           \/ \E F \in Editable : Edit(F) /\ UNCHANGED <<planVars, studyVars, reportVars>>
<1>1. CASE StudyNext
  BY <1>1 DEF StudyNext, DispatchBegins, PreflightPasses, DispatchAborts, StageTakes,
     WorkerReadsNext, WorkerVerifiesEmbedding, WorkerReadsEmbedding, WorkerCompletes,
     WorkerFails, StageOf, EmbeddingsEnd, AcceptanceRefuses, AcceptanceStops, AcceptancePasses,
     EvaluationsEnd, NewRunDirectory, Summarise, Stop, Exit, Load, ReadNext, programVars
<1>2. CASE PlanNext \/ ReportNext
  BY <1>2, PlanIsOther, ReportIsOther DEF PlanPrograms, ReportPrograms
<1>3. ~ Kill /\ ~ Discard
  BY DEF Kill, Stop, Exit, Load, Discard, programVars
<1> QED
  BY <1>1, <1>2, <1>3 DEF Next

LEMMA DispatchSawHolds == DispatchSaw /\ PlanInv /\ [Next]_vars => DispatchSaw'
<1> SUFFICES ASSUME DispatchSaw, PlanInv, [Next]_vars, running' = "dispatch"
    PROVE  DispatchSaw'
    BY DEF DispatchSaw
<1>1. CASE StartDispatch
  BY <1>1 DEF StartDispatch, Load, DispatchSaw, InScript, UsesChecked
<1>2. CASE DispatchVerifies
  BY <1>2, DispatchReadKeeps
<1>3. CASE \E o \in objects : Damage(o)
  <2>1. UNCHANGED <<running, at, seen, refused, bound, disk, slipped>>
    BY <1>3 DEF Damage, planVars
  <2>2. InScript(DispatchReads)' = InScript(DispatchReads)
    BY <2>1 DEF InScript, DispatchReads, ValidatorReads, CreatedFromReads, PairReads
  <2> QED
    BY <2>1, <2>2 DEF DispatchSaw, UsesChecked
<1>4. ASSUME NEW F \in Editable, Edit(F), UNCHANGED <<planVars, studyVars, reportVars>>
      PROVE  DispatchSaw'
  <2>1. UNCHANGED <<running, at, seen, refused, bound>>
    BY <1>4 DEF Edit, planVars
  <2>2. InScript(DispatchReads)' = InScript(DispatchReads)
    BY <2>1 DEF InScript, DispatchReads, ValidatorReads, CreatedFromReads, PairReads
  <2>3. UsesChecked("main")'
    BY <1>4, <2>1, EditUsesChecked, EditableAssumption
       DEF DispatchSaw, PlanInv, Files, CreatedFrom
  <2> QED
    BY <2>1, <2>2, <2>3 DEF DispatchSaw
<1>5. CASE UNCHANGED vars
  <2>1. UNCHANGED <<running, at, seen, refused, bound, disk, slipped>>
    BY <1>5 DEF vars, programVars, inputVars, planVars
  <2>2. InScript(DispatchReads)' = InScript(DispatchReads)
    BY <2>1 DEF InScript, DispatchReads, ValidatorReads, CreatedFromReads, PairReads
  <2> QED
    BY <2>1, <2>2 DEF DispatchSaw, UsesChecked
<1> QED
  BY <1>1, <1>2, <1>3, <1>4, <1>5, DispatchGoesOn

\* The directory is claimed in two steps.
LEMMA DirectoryIsClaimed ==
    ASSUME Next, frozen' \notin {frozen, Missing}
    PROVE  /\ Through("dispatch", DispatchReads) /\ PairsResolve /\ frozen' = bound
<1>1. DispatchBegins \/ PreflightPasses
  BY ReportIsOther DEF Next, StudyNext, StartDispatch, DispatchVerifies, DispatchAborts,
     StageTakes, WorkerReadsNext, WorkerVerifiesEmbedding, WorkerReadsEmbedding,
     WorkerCompletes, WorkerFails, EmbeddingsEnd, AcceptanceRefuses, AcceptanceStops,
     AcceptancePasses, EvaluationsEnd, Damage, NewRunDirectory, studyVars, runVars, Kill
<1> QED
  BY <1>1 DEF DispatchBegins, PreflightPasses, Claim

\* A run directory is claimed only for a plan whose tasks were expanded from
\* the manifest its created_from names: the dispatch checks the digest, then
\* parses the rows and holds them against the plan; unless the manifest was
\* edited between these two.
THEOREM ClaimedPlan == Spec => ClaimedPlanOfItsManifest
<1> DEFINE Claimed == frozen' \notin {frozen, Missing}
           OfManifest == frozen'.rows = frozen'.from["main"] \/ "main" \in slipped
<1>1. ASSUME DispatchSaw, Next, Claimed
      PROVE  OfManifest
  <2>1. /\ Through("dispatch", DispatchReads) /\ PairsResolve /\ frozen' = bound
    BY <1>1, DirectoryIsClaimed
  <2>2. running = "dispatch" /\ ~ refused /\ at > 12 /\ InScript(DispatchReads)
    BY <1>1, <2>1, DispatchScript DEF Through, DispatchSaw
  <2>3. 5 < at /\ 10 < at /\ 5 \in 1..12 /\ 10 \in 1..12
    BY <2>2 DEF InScript
  <2>4. Check("main") \in DOMAIN seen /\ Parse("main") \in DOMAIN seen
    BY <2>2, <2>3, DispatchScript DEF InScript
  <2> QED
    BY <1>1, <2>1, <2>2, <2>4 DEF DispatchSaw, UsesChecked, PairsResolve
<1>2. ASSUME DispatchSaw, [Next]_vars
      PROVE  [Claimed => OfManifest]_vars
  BY <1>1, <1>2
<1>3. Init => DispatchSaw
  BY DEF Init, InputInit, DispatchSaw
<1> QED
  BY <1>2, <1>3, PlanInvStarts, PlanInvHolds, DispatchSawHolds, PTL
     DEF Spec, ClaimedPlanOfItsManifest

=============================================================================
