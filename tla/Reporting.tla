----------------------------- MODULE Reporting -----------------------------
(***************************************************************************)
(* What is made of a study: build_analysis loads the evaluations of the    *)
(* plan and writes its files one after the other, the inventory last;      *)
(* build_final_archive hashes the included files in one pass and packs     *)
(* them in another; verify_final_archive compares the two.                 *)
(***************************************************************************)
EXTENDS LocalStudy

VARIABLES
    analysis,    \* analysis.json: the rows it aggregates
    inventory,   \* analysis_inventory.json
    archive,     \* the .tar.gz: its manifest and its members
    sidecar,     \* the external manifest beside it, naming its digest
    verified     \* the archive of the last verification report

reportVars == <<analysis, inventory, archive, sidecar, verified>>
allStudyVars == <<planVars, studyVars>>

-----------------------------------------------------------------------------
ReportInit ==
    /\ analysis = Missing
    /\ inventory = Missing
    /\ archive = Missing
    /\ sidecar = Missing
    /\ verified = Missing

Rows    == <<"load", "rows">>
Partial == <<"load", "partial">>

Evaluations(plan) == {Identity(t, plan) : t \in Tasks("evaluation")}

\* load_analysis_inputs: the valid evaluations of the plan, and no others.
Loadable(plan) ==
    {[id |-> o.id, status |-> o.status] : o \in {p \in objects : p.id \in Evaluations(plan) /\ Valid(p.id)}}

\* Mutant: missing and invalid objects are counted and nothing else.
CompleteEnough(rows, plan) == rows # {}

Complete(rows, plan) == {r.id : r \in rows} = Evaluations(plan)

\* Without --allow-incomplete every evaluation has to be there.
AnalysisLoads(partial) ==
    /\ running = "none"
    /\ summary # Missing /\ bound # Missing
    /\ partial \/ Complete(Loadable(bound), bound)
    /\ running' = "analysis"
    /\ at' = 1
    /\ seen' = [h \in {Rows, Partial} |-> IF h = Rows THEN Loadable(bound) ELSE partial]
    /\ refused' = FALSE /\ slipped' = {}
    /\ UNCHANGED <<inputVars, allStudyVars, reportVars>>

AnalysisWrites ==
    /\ running = "analysis"
    /\ at = 1
    /\ analysis' = seen[Rows]
    /\ at' = 2
    /\ UNCHANGED <<running, seen, refused, slipped, inputVars, allStudyVars,
                   inventory, archive, sidecar, verified>>

\* The inventory hashes the files that are there.
AnalysisInventories ==
    /\ running = "analysis"
    /\ at = 2
    /\ inventory' = [ plan    |-> bound,
                      partial |-> seen[Partial],
                      data    |-> analysis ]
    /\ Exit
    /\ UNCHANGED <<inputVars, allStudyVars, analysis, archive, sidecar, verified>>

-----------------------------------------------------------------------------
\* Two of the files an archive includes; hashed first, added afterwards.
Included == {"main", "config"}
ArchiveReads ==
    << Hash("main"), Hash("config"), Parse("main"), Parse("config") >>

StartArchive ==
    /\ running = "none"
    /\ summary # Missing
    /\ Load("archive")
    /\ UNCHANGED <<inputVars, allStudyVars, reportVars>>

ArchiveReadsNext ==
    /\ running = "archive"
    /\ ReadNext(ArchiveReads, disk)
    /\ UNCHANGED <<allStudyVars, reportVars>>

ArchivePublishes ==
    /\ Through("archive", ArchiveReads)
    /\ archive' = [ manifest |-> [f \in Included |-> seen[Hash(f)]],
                    members  |-> [f \in Included |-> seen[Parse(f)]] ]
    /\ Load("sidecar")
    /\ UNCHANGED <<inputVars, allStudyVars, analysis, inventory, sidecar, verified>>

ArchiveDescribes ==
    /\ running = "sidecar"
    /\ sidecar' = archive
    /\ Exit
    /\ UNCHANGED <<inputVars, allStudyVars, analysis, inventory, archive, verified>>

\* Mutant: the member set and the sizes are compared, the digests are not.
SameMembers(file) == DOMAIN file.members = DOMAIN file.manifest

\* Every member has the digest the manifest inside the archive gives it.
Consistent(file) == file.members = file.manifest

\* --expected-sha256 is the digest the sidecar names.
VerifyArchive ==
    /\ running = "none"
    /\ archive # Missing
    /\ sidecar = archive
    /\ Consistent(archive)
    /\ verified' = archive
    /\ UNCHANGED <<inputVars, programVars, allStudyVars, analysis, inventory, archive, sidecar>>

ReportNext ==
    \/ \E partial \in BOOLEAN : AnalysisLoads(partial)
    \/ AnalysisWrites \/ AnalysisInventories
    \/ StartArchive \/ ArchiveReadsNext \/ ArchivePublishes \/ ArchiveDescribes
    \/ VerifyArchive

=============================================================================
