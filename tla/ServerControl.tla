---------------------------- MODULE ServerControl ----------------------------
(***************************************************************************)
(* Requests pushed to the control repository, run one at a time by a       *)
(* self-hosted runner in one shared checkout of the scientific repository: *)
(* control/head_request.py, run_request.py, dispatch.py and operations.py. *)
(***************************************************************************)
EXTENDS Naturals

CONSTANTS
    Missing,      \* no request, no revision
    Commits,      \* revisions of the scientific repository
    MaxPushes,    \* bound on the pushes to the control repository
    MaxCuts       \* bound on killed jobs and timed-out git commands

\* A push whose head commit changes exactly one requests/*.json file names
\* that request; the others name nothing that can be run.
Native == "health_check"
Commands == {Native, "bootstrap_check", "run_final_5j"}
Requests == [command : Commands, commit : Commits, valid : BOOLEAN]

VARIABLES
    queued,     \* the request waiting for the runner: the last one pushed
    pushes,
    cuts,
    job,        \* the request of the running job, or Missing
    jobPc,      \* "idle" or the next step of run_request
    repository, \* "absent", "no_remote" (git init alone was done), "usable"
    head,       \* the revision HEAD names
    tree,       \* the revision of the files, or "mixed"
    leftovers,  \* files of an earlier operation are in the checkout
    indexLock,  \* a killed git left .git/index.lock
    outcome     \* of the last job: "none", "refused", "done", "cut"

controlVars == <<queued, pushes, cuts, job, jobPc, repository, head, tree,
                 leftovers, indexLock, outcome>>
checkoutVars == <<repository, head, tree, leftovers, indexLock>>

ControlInit ==
    /\ queued = Missing /\ job = Missing /\ jobPc = "idle" /\ outcome = "none"
    /\ pushes = 0 /\ cuts = 0
    /\ repository = "absent" /\ head = Missing /\ tree = Missing
    /\ leftovers = FALSE /\ indexLock = FALSE

-----------------------------------------------------------------------------
\* The concurrency group keeps one running and one waiting job: a newer push
\* takes the place of the one that waits.
Push(r) ==
    /\ pushes < MaxPushes
    /\ pushes' = pushes + 1
    /\ queued' = r
    /\ UNCHANGED <<cuts, job, jobPc, outcome, checkoutVars>>

EndJob(result) ==
    /\ outcome' = result
    /\ job' = Missing
    /\ jobPc' = "idle"

At(step) == job # Missing /\ jobPc = step

GoTo(step) ==
    /\ jobPc' = step
    /\ UNCHANGED <<job, outcome>>

Quiet == UNCHANGED <<queued, pushes, cuts>>

\* The first step of prepare_exact_checkout looks for .git.
PreparationOf(r) == IF repository = "absent" THEN "init" ELSE "remote"

\* health_check reads the host and needs no checkout.
FirstStep(r) == IF r.command = Native THEN "run" ELSE PreparationOf(r)

\* The request is parsed before anything is touched.
StartJob ==
    /\ job = Missing /\ queued # Missing
    /\ IF queued.valid
         THEN job' = queued /\ jobPc' = FirstStep(queued) /\ UNCHANGED outcome
         ELSE EndJob("refused")
    /\ queued' = Missing
    /\ UNCHANGED <<pushes, cuts, checkoutVars>>

InitRepository ==
    /\ At("init")
    /\ repository' = "no_remote"
    /\ GoTo("remote_add")
    /\ Quiet /\ UNCHANGED <<head, tree, leftovers, indexLock>>

AddRemote ==
    /\ At("remote_add")
    /\ repository' = "usable"
    /\ GoTo("fetch")
    /\ Quiet /\ UNCHANGED <<head, tree, leftovers, indexLock>>

\* set-url fails in a repository that never got its remote.
SetRemote ==
    /\ At("remote")
    /\ IF repository = "usable" THEN GoTo("fetch") ELSE EndJob("refused")
    /\ Quiet /\ UNCHANGED checkoutVars

\* [mutant] A checkout whose HEAD already is the commit is taken as it stands.
FetchTrustingHead ==
    /\ At("fetch")
    /\ \/ IF head = job.commit THEN GoTo("clean") ELSE GoTo("checkout")
       \/ EndJob("refused")
    /\ Quiet /\ UNCHANGED checkoutVars

\* The network may fail, or not have the commit.
Fetch ==
    /\ At("fetch")
    /\ GoTo("checkout") \/ EndJob("refused")
    /\ Quiet /\ UNCHANGED checkoutVars

\* git checkout --detach --force: the files first, then HEAD; it needs the index.
Checkout ==
    /\ At("checkout")
    /\ IF indexLock
         THEN EndJob("refused") /\ UNCHANGED <<head, tree>>
         ELSE tree' = job.commit /\ head' = job.commit /\ GoTo("reset")
    /\ Quiet /\ UNCHANGED <<repository, leftovers, indexLock>>

Reset ==
    /\ At("reset")
    /\ tree' = job.commit /\ head' = job.commit
    /\ GoTo("clean")
    /\ Quiet /\ UNCHANGED <<repository, leftovers, indexLock>>

Clean ==
    /\ At("clean")
    /\ leftovers' = FALSE
    /\ GoTo("verify")
    /\ Quiet /\ UNCHANGED <<repository, head, tree, indexLock>>

VerifyHead ==
    /\ At("verify")
    /\ IF head = job.commit THEN GoTo("run") ELSE EndJob("refused")
    /\ Quiet /\ UNCHANGED checkoutVars

\* build_operation and control.operations: health_check is answered at once;
\* the others need the checkout directory and become one subprocess.
Operate ==
    /\ At("run")
    /\ IF job.command = Native THEN EndJob("done")
                               ELSE GoTo("running") \/ EndJob("refused")
    /\ Quiet /\ UNCHANGED checkoutVars

\* The operation leaves files of its own beside the tracked ones. A time-out
\* kills its first process only; what that had started writes on until the
\* runner, which takes no other job before, has ended it with the job.
OperationEnds ==
    /\ At("running")
    /\ leftovers' \in {leftovers, TRUE}
    /\ EndJob("done")
    /\ Quiet /\ UNCHANGED <<repository, head, tree, indexLock>>

\* A git command that writes the work tree holds the index lock; one that is
\* killed leaves the lock, one that is asked to stop removes it.
Writing == jobPc \in {"checkout", "reset"} /\ ~ indexLock

\* The runner kills the job, the host stops, or git exceeds its 600 seconds:
\* whatever the command had done stays.
Cut ==
    /\ job # Missing /\ cuts < MaxCuts
    /\ cuts' = cuts + 1
    /\ EndJob("cut")
    /\ \/ /\ ~ Writing /\ UNCHANGED <<tree, indexLock>>
       \/ /\ Writing
          /\ tree' \in {tree, "mixed"}
          /\ indexLock' \in BOOLEAN
    /\ leftovers' = (leftovers \/ jobPc = "running")
    /\ UNCHANGED <<queued, pushes, repository, head>>

\* The operator removes a stale index.lock, or a checkout nothing can repair.
Unlock ==
    /\ job = Missing /\ indexLock
    /\ indexLock' = FALSE
    /\ UNCHANGED <<queued, pushes, cuts, job, jobPc, outcome, repository, head, tree, leftovers>>

RemoveCheckout ==
    /\ job = Missing /\ repository = "no_remote"
    /\ repository' = "absent" /\ head' = Missing /\ tree' = Missing
    /\ leftovers' = FALSE /\ indexLock' = FALSE
    /\ UNCHANGED <<queued, pushes, cuts, job, jobPc, outcome>>

ControlNext ==
    \/ \E r \in Requests : Push(r)
    \/ StartJob
    \/ InitRepository
    \/ AddRemote
    \/ SetRemote
    \/ Fetch
    \/ Checkout
    \/ Reset
    \/ Clean
    \/ VerifyHead
    \/ Operate
    \/ OperationEnds
    \/ Cut
    \/ Unlock
    \/ RemoveCheckout

ControlSpec == ControlInit /\ [][ControlNext]_controlVars

-----------------------------------------------------------------------------
\* While an operation of a request is running, HEAD and the files of the shared
\* checkout are the commit it names, and no earlier operation's files are there,
\* whatever jobs and git commands were cut short before.
OperationRunsNamedCommit ==
    At("running") => head = job.commit /\ tree = job.commit /\ ~ leftovers

=============================================================================
