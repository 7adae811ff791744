------------------------------- MODULE Inputs -------------------------------
(***************************************************************************)
(* The frozen inputs of a study and the programs that read them.           *)
(*                                                                         *)
(* A file's content is one of two versions; a manifest's content is the    *)
(* version of the images its rows name, so a digest is the version itself. *)
(* A program is a script of reads, one file per step, and a finishing      *)
(* action in the module of that program. Between two steps anything may    *)
(* happen: files are edited, objects are damaged, the program is killed.   *)
(***************************************************************************)
EXTENDS Integers, Sequences

CONSTANTS
    Missing,     \* no such file
    Editable,    \* bound: the input files that are edited, one or several together
    MaxFaults    \* bound: edits, damaged objects and kills together

ASSUME FaultsAssumption == MaxFaults \in Nat

VARIABLES
    disk,        \* the version of every input file
    faults,      \* how many faults have happened
    running,     \* the program the operator has started, or "none"
    at,          \* its next read
    seen,        \* what it has read: <<how, file>> |-> version
    refused,     \* a check failed: the program is about to exit with an error
    slipped      \* history: what was changed after the program had checked it
                 \* and before it opened it again to use it

inputVars == <<disk, faults>>
programVars == <<running, at, seen, refused, slipped>>

-----------------------------------------------------------------------------
\* study_plan and seeds.lock; the pair manifests; the baseline registry; the
\* Python source tree; the files a runtime binding names. The images the
\* manifests name and the contracts the registry names are recorded nowhere
\* but in the tasks that were expanded from them.
CreatedFrom == {"study", "main", "sweep", "registry", "config", "source"}
Bound == {"toolbox", "stage0", "stability"}
Files == CreatedFrom \cup Bound \cup {"images", "contracts"}

ASSUME EditableAssumption == Editable \subseteq SUBSET Files

Versions == 0..1

Parse(f) == <<"parse", f>>    \* its content is used
Hash(f)  == <<"hash", f>>     \* its digest is recorded
Check(f) == <<"check", f>>    \* its digest must be the one on record

\* A file that has to agree with another one the program has parsed before:
\* the rows of the sweep and the images with the main manifest, the Stage-0
\* evidence with the toolbox it was taken from.
Fits(f)  == <<"fits", f>>
Partner(f) == IF f = "stage0" THEN "toolbox" ELSE "main"

Load(program) ==
    /\ running' = program
    /\ at' = 1
    /\ seen' = << >>
    /\ refused' = FALSE
    /\ slipped' = {}

Exit == Load("none")

\* Everything of the script has been read and no check failed.
Through(program, script) ==
    running = program /\ at > Len(script) /\ ~ refused

\* What is known after one more read.
Learn(how, what) ==
    seen' = [h \in {how} \cup DOMAIN seen |-> IF h = how THEN what ELSE seen[h]]

\* One read of a script; recorded[f] is the digest a check compares with.
ReadNext(script, recorded) ==
    /\ at <= Len(script)
    /\ ~ refused
    /\ LET how == script[at][1]
           f   == script[at][2] IN
       /\ Learn(script[at], disk[f])
       /\ refused' = \/ how = "check" /\ disk[f] # recorded[f]
                     \/ how = "fits" /\ disk[f] # seen[Parse(Partner(f))]
    /\ at' = at + 1
    /\ UNCHANGED <<running, slipped, inputVars>>

\* What is changed under a program that has checked it and will open it again.
Slip(F) ==
    slipped' = slipped \cup {f \in F : Check(f) \in DOMAIN seen /\ Parse(f) \notin DOMAIN seen}

-----------------------------------------------------------------------------
InputInit ==
    /\ disk = [f \in Files |-> 0]
    /\ faults = 0
    /\ running = "none"
    /\ at = 1
    /\ seen = << >>
    /\ refused = FALSE
    /\ slipped = {}

Fault == faults < MaxFaults /\ faults' = faults + 1

\* Somebody rewrites an input file, or puts the old bytes back; or puts another
\* data set in place, whose files agree with one another.
Edit(F) ==
    /\ Fault
    /\ disk' = [f \in Files |-> IF f \in F THEN 1 - disk[f] ELSE disk[f]]
    /\ Slip(F)
    /\ UNCHANGED <<running, at, seen, refused>>

=============================================================================
