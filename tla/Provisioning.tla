---------------------------- MODULE Provisioning ----------------------------
(***************************************************************************)
(* scripts/bootstrap_ubuntu_server.sh and ctsteg-bootstrap.service: the    *)
(* installation of a pinned commit, applied by the operator and ensured by *)
(* systemd at every boot, with failing downloads, kills, reboots and a pin *)
(* that is edited.  Assumption: two bootstraps do not run at once.         *)
(***************************************************************************)
EXTENDS Naturals

CONSTANTS
    None,         \* no commit, no runtime
    Releases,     \* the commits a configuration may pin
    RuntimeOf,    \* the six-file runtime fingerprint of each commit
    Attempts,     \* attempts of a retried command
    Burst,        \* starts of the service per day
    MaxTroubles   \* bound on edits of the pin, kills and reboots

VARIABLES
    pin,          \* CTSTEG_GIT_REF of /etc/ctsteg-bootstrap.env
    gateWanted,   \* CTSTEG_RUN_RUNTIME_GATE of the same file: it is never edited
    script,       \* who runs the script, or "nobody"
    want,         \* the commit it has read
    step,         \* its next step
    tries,        \* attempts of that step
    mirror,       \* repository.git exists
    release,      \* the worktree of each commit: "none", "partial", "whole"
    env,          \* its environment: "none", "bare", "broken", "ready"
    current,      \* the commit of the current symlink
    toolboxes,    \* MATLAB and the contourlet toolbox are in place
    reports,      \* commits with a runtime gate report
    gate,         \* the runtime of the report latest_runtime_gate.json links
    service,      \* ctsteg-bootstrap.service
    starts,       \* its starts today
    troubles,
    tested,       \* commits whose tests have passed
    gated         \* runtimes that have passed the SIGKILL gate

scriptVars == <<script, want, step, tries>>
installed == <<mirror, release, env, current, toolboxes, reports, gate, tested, gated>>
bootVars == <<pin, gateWanted, scriptVars, installed, service, starts, troubles>>

BootInit ==
    /\ pin \in Releases /\ gateWanted \in BOOLEAN
    /\ script = "nobody" /\ want = None /\ step = "none" /\ tries = 0
    /\ mirror = FALSE
    /\ release = [c \in Releases |-> "none"] /\ env = [c \in Releases |-> "none"]
    /\ current = None /\ toolboxes = FALSE /\ reports = {} /\ gate = None
    /\ service = "disabled" /\ starts = 0 /\ troubles = 0
    /\ tested = {} /\ gated = {}

-----------------------------------------------------------------------------
\* [mutant] The link moves as soon as the dependencies are installed.
FollowsSwitchingEarly ==
    [preflight |-> "packages", packages |-> "repository", repository |-> "update",
     update |-> "worktree", worktree |-> "python", python |-> "dependencies",
     dependencies |-> "switch", switch |-> "tests", tests |-> "toolboxes",
     toolboxes |-> "gate", gate |-> "units", units |-> "verify"]

\* The order of the script.
Follows ==
    [preflight |-> "packages", packages |-> "repository", repository |-> "update",
     update |-> "worktree", worktree |-> "python", python |-> "dependencies",
     dependencies |-> "tests", tests |-> "switch", switch |-> "toolboxes",
     toolboxes |-> "gate", gate |-> "units", units |-> "verify"]

Does(s) == script # "nobody" /\ step = s
Proceed == step' = Follows[step] /\ tries' = 0 /\ UNCHANGED <<script, want>>

\* The script ends. Of the service, systemd restarts a failure after five
\* minutes, but not one with status 2 or 64, and not more than Burst times a day.
Exit(status) ==
    /\ script' = "nobody" /\ step' = "none" /\ tries' = 0 /\ want' = None
    /\ service' = CASE script # "service"    -> service
                    [] status = 0            -> "ready"
                    [] status \in {2, 64}    -> "held"
                    [] starts < Burst        -> "waiting"
                    [] OTHER                 -> "exhausted"

Stay == UNCHANGED <<service, starts, pin, troubles>>
Ends(status) == Exit(status) /\ UNCHANGED <<starts, pin, troubles>>

\* ctsteg_retry_command: a failing attempt is repeated, the last one's status
\* is the script's (set -e); some tools report a failed download as 2.
AttemptFails(limit) ==
    IF tries + 1 < limit
    THEN tries' = tries + 1 /\ UNCHANGED <<script, want, step>> /\ Stay
    ELSE Ends(1) \/ Ends(2)

\* What validate_runtime_gate_report returns of a report it accepts: one of the
\* runtime that reads it.
Validated == {"schema", "path", "sha256", "gate_id", "runtime_gate_fingerprint", "checks"}
ReportHolds == gate = RuntimeOf[current]

\* The link names a worktree of the pinned commit with its environment and its
\* toolboxes, and the linked report, when one is wanted, is of its runtime.
Installed ==
    /\ current = want /\ current # None
    /\ env[current] = "ready"
    /\ toolboxes
    /\ gateWanted => ReportHolds

\* verify_installation looks for the executable, which a reinstallation that
\* broke off may have left, and prints the "status" of the validated report.
Verified(outcome) ==
    /\ current = want /\ current # None
    /\ env[current] = "ready" \/ (env[current] = "broken" /\ outcome)
    /\ toolboxes
    /\ gateWanted => ReportHolds /\ "status" \in Validated

-----------------------------------------------------------------------------
EditPin(c) ==
    /\ troubles < MaxTroubles /\ troubles' = troubles + 1
    /\ c # pin /\ pin' = c
    /\ UNCHANGED <<scriptVars, installed, service, starts>>

Starts(who, s) ==
    /\ script = "nobody" /\ script' = who
    /\ want' = pin /\ step' = s /\ tries' = 0

\* --apply.
OperatorApplies ==
    /\ Starts("operator", "preflight")
    /\ Stay /\ UNCHANGED installed

\* --ensure, at boot and at a restart.
ServiceStarts ==
    /\ service \in {"off", "waiting"} /\ starts < Burst
    /\ Starts("service", "ensure")
    /\ service' = "running" /\ starts' = starts + 1
    /\ UNCHANGED <<pin, troubles, installed>>

Ensure ==
    /\ Does("ensure")
    /\ \E outcome \in BOOLEAN :
        IF Verified(outcome) THEN Ends(0)
        ELSE step' = "preflight" /\ UNCHANGED <<script, want, tries>> /\ Stay
    /\ UNCHANGED installed

\* classify_failure: 2 for a host that does not fit, 3 when only the network,
\* each of whose targets is tried several times, is the reason.
Refusals == {2, 3}

Preflight ==
    /\ Does("preflight")
    /\ (Proceed /\ Stay) \/ \E status \in Refusals : Ends(status)
    /\ UNCHANGED installed

\* apt-get, the service user, the directories and MATLAB's own dependencies.
Packages ==
    /\ Does("packages")
    /\ (Proceed /\ Stay) \/ AttemptFails(Attempts)
    /\ UNCHANGED installed

\* The mirror is cloned beside its place and moved there whole; one of another
\* origin is refused.
CloneRepository ==
    /\ Does("repository")
    /\ \/ mirror' = TRUE /\ Proceed /\ Stay
       \/ ~ mirror /\ UNCHANGED mirror /\ AttemptFails(Attempts)
       \/ mirror /\ UNCHANGED mirror /\ Ends(64)
    /\ UNCHANGED <<release, env, current, toolboxes, reports, gate, tested, gated>>

\* The pinned commit must be in the updated mirror: git reports one that is not
\* there with a status of its own, the script a name that is no commit's with 64.
UpdateRepository ==
    /\ Does("update")
    /\ (Proceed /\ Stay) \/ AttemptFails(Attempts) \/ Ends(64) \/ Ends(128)
    /\ UNCHANGED installed

\* git worktree add is tried once and may leave what it had begun. An existing
\* directory is taken when its HEAD is the commit, which a worktree that was
\* being written when it was killed may already have.
AddWorktree ==
    /\ Does("worktree")
    /\ IF release[want] = "none"
         THEN \/ release' = [release EXCEPT ![want] = "whole"] /\ Proceed /\ Stay
              \/ /\ release' \in {release, [release EXCEPT ![want] = "partial"]}
                 /\ Ends(1) \/ Ends(128)
         ELSE /\ UNCHANGED release
              /\ (Proceed /\ Stay) \/ (release[want] = "partial" /\ (Ends(64) \/ Ends(1)))
    /\ UNCHANGED <<mirror, env, current, toolboxes, reports, gate, tested, gated>>

CreateEnvironment ==
    /\ Does("python")
    /\ IF env[want] = "none"
         THEN \/ env' = [env EXCEPT ![want] = "bare"] /\ Proceed /\ Stay
              \/ AttemptFails(Attempts) /\ UNCHANGED env
         ELSE UNCHANGED env /\ Proceed /\ Stay
    /\ UNCHANGED <<mirror, release, current, toolboxes, reports, gate, tested, gated>>

\* uv pip install works in the release's environment, the current one's too.
InstallDependencies ==
    /\ Does("dependencies")
    /\ \/ env' = [env EXCEPT ![want] = "ready"] /\ Proceed /\ Stay
       \/ env' = [env EXCEPT ![want] = "broken"] /\ AttemptFails(Attempts)
    /\ UNCHANGED <<mirror, release, current, toolboxes, reports, gate, tested, gated>>

RunTests ==
    /\ Does("tests")
    /\ \/ tested' = tested \cup {want} /\ Proceed /\ Stay
       \/ UNCHANGED tested /\ Ends(1)
    /\ UNCHANGED <<mirror, release, env, current, toolboxes, reports, gate, gated>>

\* ln to a temporary name and mv -T over the link.
SwitchCurrent ==
    /\ Does("switch")
    /\ current' = want
    /\ Proceed /\ Stay
    /\ UNCHANGED <<mirror, release, env, toolboxes, reports, gate, tested, gated>>

\* mpm, the contourlet archive (checked by its digest) and the prefetched images.
InstallToolboxes ==
    /\ Does("toolboxes")
    /\ \/ toolboxes' = TRUE /\ Proceed /\ Stay
       \/ UNCHANGED toolboxes /\ (AttemptFails(Attempts) \/ Ends(64))
    /\ UNCHANGED <<mirror, release, env, current, reports, gate, tested, gated>>

\* run_runtime_gate kills a probe run, resumes it, exports it, and leaves its
\* report only when every committed object was kept and reused.
GatePasses ==
    /\ reports' = reports \cup {want}
    /\ gated' = gated \cup {RuntimeOf[want]}

\* A valid report of this commit is used again; without one, or in another
\* directory when it does not validate, the gate is run. The link is made last.
RunGate ==
    /\ Does("gate")
    /\ \/ ~ gateWanted /\ Proceed /\ Stay /\ UNCHANGED <<reports, gated, gate>>
       \/ /\ gateWanted
          /\ \/ want \in reports /\ UNCHANGED <<reports, gated>>
             \/ GatePasses
          /\ gate' = RuntimeOf[want] /\ Proceed /\ Stay
       \/ /\ gateWanted
          /\ UNCHANGED <<reports, gated, gate>> /\ AttemptFails(Attempts)
    /\ UNCHANGED <<mirror, release, env, current, toolboxes, tested>>

\* The units are installed from the release and enabled for the next boot.
InstallUnits ==
    /\ Does("units")
    /\ service' = IF service = "disabled" THEN "enabled" ELSE service
    /\ Proceed
    /\ UNCHANGED <<starts, pin, troubles, installed>>

Verify ==
    /\ Does("verify")
    /\ \E outcome \in BOOLEAN : Ends(IF Verified(outcome) THEN 0 ELSE 1)
    /\ UNCHANGED installed

\* A kill in the middle of a step leaves what the step had begun.
HalfDone ==
    /\ \/ /\ step = "worktree" /\ release[want] = "none"
          /\ release' = [release EXCEPT ![want] = "partial"] /\ UNCHANGED env
       \/ /\ step = "dependencies"
          /\ env' = [env EXCEPT ![want] = "broken"] /\ UNCHANGED release
       \/ UNCHANGED <<release, env>>
    /\ UNCHANGED <<mirror, current, toolboxes, reports, gate, tested, gated>>

KillScript ==
    /\ script # "nobody" /\ troubles < MaxTroubles
    /\ HalfDone
    /\ Exit(137) /\ troubles' = troubles + 1 /\ UNCHANGED <<starts, pin>>

\* A reboot starts the enabled service with a fresh count.
Reboot ==
    /\ troubles < MaxTroubles /\ troubles' = troubles + 1
    /\ IF script = "nobody" THEN UNCHANGED installed ELSE HalfDone
    /\ script' = "nobody" /\ step' = "none" /\ want' = None /\ tries' = 0 /\ starts' = 0
    /\ service' = IF service = "disabled" THEN "disabled" ELSE "off"
    /\ UNCHANGED pin

BootStep ==
    \/ \E c \in Releases : EditPin(c)
    \/ OperatorApplies
    \/ ServiceStarts
    \/ Ensure
    \/ Preflight
    \/ Packages
    \/ CloneRepository
    \/ UpdateRepository
    \/ AddWorktree
    \/ CreateEnvironment
    \/ InstallDependencies
    \/ RunTests
    \/ SwitchCurrent
    \/ InstallToolboxes
    \/ RunGate
    \/ InstallUnits
    \/ Verify
    \/ KillScript
    \/ Reboot

BootNext == UNCHANGED gateWanted /\ BootStep

BootSpec == BootInit /\ [][BootNext]_bootVars

-----------------------------------------------------------------------------
\* The current release moves only to a commit whose tests have passed, the
\* linked gate report only to one of a runtime that has survived the SIGKILL
\* gate, and the service reports itself ready only over such a commit, the
\* pinned one, whatever broke off before.
ServerIsSound ==
    [][ /\ current' # current => current' \in tested
        /\ gate' # gate => gate' \in gated'
        /\ (service' = "ready" /\ service # "ready") =>
               /\ current' = want /\ current' \in tested' ]_bootVars

\* "bootstrap runs a fast verification and enters idempotent repair/install
\* only if the pinned release is incomplete" (docs/SERVER_DEPLOYMENT.md).
RepairOnlyIfIncomplete ==
    [][ (Does("ensure") /\ step' = "preflight") => ~ Installed ]_bootVars

=============================================================================
