----------------------------- MODULE ServerProofs -----------------------------
(***************************************************************************)
(* The programs that surround the studies on the server, each for itself:  *)
(* the control requests for any commits, the bootstrap for any releases,   *)
(* the monitor for any number of launches, samples and failures, and what  *)
(* a locked preparation of the inputs leaves and when --resume is refused. *)
(***************************************************************************)
EXTENDS Provisioning, ServerControl, LockedInputs, Monitor, TLAPS

-----------------------------------------------------------------------------
(* The control requests                                                    *)
\* What each step of prepare_exact_checkout leaves for the next one: from reset
\* on the files are the request's, from verify on nothing else is there, and
\* once verified HEAD is too.
Prepared ==
    /\ jobPc \in {"reset", "clean", "verify", "running"} => tree = job.commit
    /\ jobPc \in {"reset", "clean", "verify", "running"} => head = job.commit
    /\ jobPc \in {"verify", "running"} => ~ leftovers

\* Only health_check reaches its operation without these steps.
Skips ==
    jobPc = "run" => \/ job.command = Native
                     \/ tree = job.commit /\ head = job.commit /\ ~ leftovers

\* Without a job there is no step.
Idle == job = Missing => jobPc = "idle"

ControlInv == Prepared /\ Skips /\ Idle

-----------------------------------------------------------------------------
\* A new job starts before all of these steps.
LEMMA StartPrepared == ControlInv /\ StartJob => ControlInv'
<1> SUFFICES ASSUME ControlInv, StartJob PROVE ControlInv'
    OBVIOUS
<1>1. CASE queued.valid
  <2>1. job' = queued /\ queued # Missing /\ jobPc' = FirstStep(queued)
    BY <1>1 DEF StartJob
  <2>2. FirstStep(queued) \in {"init", "remote"} \/ (FirstStep(queued) = "run" /\ queued.command = Native)
    BY DEF FirstStep, PreparationOf
  <2> QED
    BY <2>1, <2>2 DEF ControlInv, Prepared, Skips, Idle
<1>2. CASE ~ queued.valid
  BY <1>2 DEF StartJob, EndJob, ControlInv, Prepared, Skips, Idle
<1> QED
  BY <1>1, <1>2

\* The steps before the files are touched.
LEMMA EarlyPrepared ==
    ControlInv /\ (InitRepository \/ AddRemote \/ SetRemote \/ Fetch) => ControlInv'
  BY DEF ControlInv, Prepared, Skips, Idle, InitRepository, AddRemote, SetRemote, Fetch,
         At, GoTo, EndJob, Quiet, checkoutVars

\* The steps that make the checkout the commit's.
LEMMA CheckoutPrepared ==
    ControlInv /\ (Checkout \/ Reset \/ Clean \/ VerifyHead) => ControlInv'
<1> SUFFICES ASSUME ControlInv, Checkout \/ Reset \/ Clean \/ VerifyHead PROVE ControlInv'
    OBVIOUS
<1>1. CASE Checkout
  BY <1>1 DEF ControlInv, Prepared, Skips, Idle, Checkout, At, GoTo, EndJob, Quiet
<1>2. CASE Reset
  BY <1>2 DEF ControlInv, Prepared, Skips, Idle, Reset, At, GoTo, Quiet
<1>3. CASE Clean
  BY <1>3 DEF ControlInv, Prepared, Skips, Idle, Clean, At, GoTo, Quiet
<1>4. CASE VerifyHead
  BY <1>4 DEF ControlInv, Prepared, Skips, Idle, VerifyHead, At, GoTo, EndJob, Quiet, checkoutVars
<1> QED
  BY <1>1, <1>2, <1>3, <1>4

\* The operation, and everything that ends a job or happens between jobs.
LEMMA RestPrepared ==
    ControlInv /\ (Operate \/ OperationEnds \/ Cut \/ Unlock \/ RemoveCheckout
                     \/ \E r \in Requests : Push(r)) => ControlInv'
<1> SUFFICES ASSUME ControlInv,
                    Operate \/ OperationEnds \/ Cut \/ Unlock \/ RemoveCheckout
                      \/ \E r \in Requests : Push(r)
             PROVE  ControlInv'
    OBVIOUS
<1>1. CASE Operate
  BY <1>1 DEF ControlInv, Prepared, Skips, Idle, Operate, At, GoTo, EndJob, Quiet, checkoutVars
<1>2. CASE OperationEnds \/ Cut
  BY <1>2 DEF ControlInv, Prepared, Skips, Idle, OperationEnds, Cut, EndJob
<1>3. CASE Unlock \/ \E r \in Requests : Push(r)
  BY <1>3 DEF ControlInv, Prepared, Skips, Idle, Unlock, Push, checkoutVars
<1>4. CASE RemoveCheckout
  BY <1>4 DEF RemoveCheckout, ControlInv, Prepared, Skips, Idle
<1> QED
  BY <1>1, <1>2, <1>3, <1>4

\* The files under a running operation are the commit of its request, after any
\* sequence of requests, refusals, kills, time-outs and repairs.
THEOREM CheckoutIsNamedCommit == ControlSpec => []OperationRunsNamedCommit
<1>1. ControlInit => ControlInv
  BY DEF ControlInit, ControlInv, Prepared, Skips, Idle
<1>2. ControlInv /\ [ControlNext]_controlVars => ControlInv'
  <2> SUFFICES ASSUME ControlInv, [ControlNext]_controlVars PROVE ControlInv'
      OBVIOUS
  <2>1. CASE ControlNext
    BY <2>1, StartPrepared, EarlyPrepared, CheckoutPrepared, RestPrepared DEF ControlNext
  <2>2. CASE UNCHANGED controlVars
    BY <2>2 DEF controlVars, ControlInv, Prepared, Skips, Idle
  <2> QED
    BY <2>1, <2>2
<1>3. ControlInv => OperationRunsNamedCommit
  BY DEF ControlInv, Prepared, OperationRunsNamedCommit, At
<1> QED
  BY <1>1, <1>2, <1>3, PTL DEF ControlSpec

-----------------------------------------------------------------------------
(* The bootstrap                                                           *)

\* The steps behind the tests.
Late == {"switch", "toolboxes", "gate", "units", "verify"}

\* The script gets behind the tests only with the commit that passed them.
TestsPassed == step \in Late => want \in tested

\* The link names a tested commit or nothing.
LinkTested == current = None \/ current \in tested

\* A report is left only by a gate that was passed.
ReportsEarned == \A c \in reports : RuntimeOf[c] \in gated

\* What is read from the configuration is a commit.
WantsCommit == want \in Releases \cup {None} /\ pin \in Releases
NamesCommit == current \in Releases \cup {None}

BootInv == TestsPassed /\ LinkTested /\ ReportsEarned /\ WantsCommit /\ NamesCommit

\* What a step of the script, or its end, does to the obligations of Late: it
\* enters Late from the tests only.
LEMMA FollowsLate ==
    /\ \A s \in DOMAIN Follows : Follows[s] \in Late => s \in Late \cup {"tests"}
    /\ \A s \in DOMAIN Follows : Follows[s] # "none"
  BY DEF Follows, Late

-----------------------------------------------------------------------------
\* Starting, editing and ending change neither what is installed nor what is
\* tested, and leave the script before the tests or nowhere.
LEMMA OutsidePreserves ==
    ASSUME BootInv,
           (\E c \in Releases : EditPin(c)) \/ OperatorApplies \/ ServiceStarts \/ Ensure
             \/ KillScript \/ Reboot
    PROVE  BootInv'
<1>1. CASE \E c \in Releases : EditPin(c)
  BY <1>1 DEF BootInv, TestsPassed, LinkTested, ReportsEarned, WantsCommit, NamesCommit,
     EditPin, scriptVars, installed
<1>2. CASE OperatorApplies \/ ServiceStarts
  BY <1>2 DEF BootInv, TestsPassed, LinkTested, ReportsEarned, WantsCommit, NamesCommit,
     OperatorApplies, ServiceStarts, Starts, Stay, installed, Late
<1>3. CASE Ensure
  BY <1>3 DEF BootInv, TestsPassed, LinkTested, ReportsEarned, WantsCommit, NamesCommit,
     Ensure, Ends, Exit, Stay, installed, Late
<1>4. CASE KillScript \/ Reboot
  <2>1. step' = "none" /\ want' = None /\ pin' = pin
    BY <1>4 DEF KillScript, Reboot, Exit
  <2>2. UNCHANGED <<current, reports, gate, tested, gated>>
    BY <1>4 DEF KillScript, Reboot, HalfDone, installed
  <2> QED
    BY <2>1, <2>2 DEF BootInv, TestsPassed, LinkTested, ReportsEarned, WantsCommit,
       NamesCommit, Late
<1> QED
  BY <1>1, <1>2, <1>3, <1>4

\* The end of the script and a failed attempt.
LEMMA FailurePreserves ==
    ASSUME BootInv, UNCHANGED <<current, reports, gate, tested, gated>>,
           (\E status \in Nat : Ends(status)) \/ AttemptFails(Attempts)
    PROVE  BootInv'
  BY DEF BootInv, TestsPassed, LinkTested, ReportsEarned, WantsCommit, NamesCommit,
     AttemptFails, Ends, Exit, Stay, Late

\* A step that goes on and touches neither the link nor the gate.
LEMMA ProceedPreserves ==
    ASSUME BootInv, Proceed, Stay, step \in DOMAIN Follows,
           UNCHANGED <<current, reports, gate, gated>>,
           tested \subseteq tested', step = "tests" => want \in tested'
    PROVE  BootInv'
<1>1. step' \in Late => step \in Late \cup {"tests"}
  BY FollowsLate DEF Proceed
<1> QED
  BY <1>1 DEF BootInv, TestsPassed, LinkTested, ReportsEarned, WantsCommit, NamesCommit,
     Proceed, Stay

\* The steps up to the tests.
LEMMA EarlyPreserves ==
    ASSUME BootInv,
           Preflight \/ Packages \/ CloneRepository \/ UpdateRepository \/ AddWorktree
             \/ CreateEnvironment \/ InstallDependencies \/ RunTests
    PROVE  BootInv'
<1>1. UNCHANGED <<current, reports, gate, gated>>
  BY DEF Preflight, Packages, CloneRepository, UpdateRepository, AddWorktree,
     CreateEnvironment, InstallDependencies, RunTests, installed
<1>2. step \in DOMAIN Follows
  BY DEF Preflight, Packages, CloneRepository, UpdateRepository, AddWorktree,
     CreateEnvironment, InstallDependencies, RunTests, Does, Follows
<1>3. CASE RunTests
  <2>1. CASE tested' = tested \cup {want} /\ Proceed /\ Stay
    BY <2>1, <1>1, <1>2, ProceedPreserves
  <2>2. CASE UNCHANGED tested /\ Ends(1)
    BY <2>2, <1>1, FailurePreserves
  <2> QED
    BY <1>3, <2>1, <2>2 DEF RunTests
<1>4. CASE ~ RunTests
  <2>1. UNCHANGED tested /\ step # "tests"
    BY <1>4 DEF Preflight, Packages, CloneRepository, UpdateRepository, AddWorktree,
       CreateEnvironment, InstallDependencies, installed, Does
  <2>2. (Proceed /\ Stay) \/ (\E status \in Nat : Ends(status)) \/ AttemptFails(Attempts)
    BY <1>4 DEF Preflight, Refusals, Packages, CloneRepository, UpdateRepository,
       AddWorktree, CreateEnvironment, InstallDependencies
  <2> QED
    BY <1>1, <1>2, <2>1, <2>2, ProceedPreserves, FailurePreserves
<1> QED
  BY <1>3, <1>4

\* The steps behind the tests.
LEMMA LatePreserves ==
    ASSUME BootInv,
           SwitchCurrent \/ InstallToolboxes \/ RunGate \/ InstallUnits \/ Verify
    PROVE  BootInv'
<1>1. UNCHANGED tested /\ step \in Late
  BY DEF SwitchCurrent, InstallToolboxes, RunGate, InstallUnits, Verify, installed, Does, Late
<1>2. want \in tested
  BY <1>1 DEF BootInv, TestsPassed
<1>3. CASE SwitchCurrent
  BY <1>1, <1>2, <1>3 DEF SwitchCurrent, Proceed, Stay, BootInv, TestsPassed, LinkTested,
     ReportsEarned, WantsCommit, NamesCommit
<1>4. CASE InstallToolboxes
  <2>1. UNCHANGED <<current, reports, gate, tested, gated>> /\ step \in DOMAIN Follows
    BY <1>4 DEF InstallToolboxes, Does, Follows
  <2>2. (Proceed /\ Stay) \/ (\E status \in Nat : Ends(status)) \/ AttemptFails(Attempts)
    BY <1>4 DEF InstallToolboxes
  <2> QED
    BY <1>1, <1>2, <2>1, <2>2, ProceedPreserves, FailurePreserves
<1>5. CASE RunGate
  <2>1. CASE /\ gate' = RuntimeOf[want] /\ Proceed /\ Stay
             /\ RuntimeOf[want] \in gated' /\ reports' \subseteq reports \cup {want}
             /\ gated \subseteq gated' /\ UNCHANGED current
    BY <1>1, <1>2, <2>1 DEF Proceed, Stay, BootInv, TestsPassed, LinkTested, ReportsEarned,
       WantsCommit, NamesCommit
  <2>2. CASE UNCHANGED <<reports, gated, gate, current>> /\ AttemptFails(Attempts)
    BY <1>1, <2>2, FailurePreserves
  <2>3. CASE Proceed /\ Stay /\ UNCHANGED <<reports, gated, gate, current>>
    BY <1>1, <1>2, <2>3 DEF Proceed, Stay, BootInv, TestsPassed, LinkTested, ReportsEarned,
       WantsCommit, NamesCommit
  <2> QED
    BY <1>5, <1>1, <2>1, <2>2, <2>3 DEF RunGate, GatePasses, BootInv, ReportsEarned
<1>6. CASE InstallUnits
  BY <1>1, <1>2, <1>6 DEF InstallUnits, Proceed, installed, BootInv, TestsPassed, LinkTested,
     ReportsEarned, WantsCommit, NamesCommit
<1>7. CASE Verify
  <2>1. UNCHANGED <<current, reports, gate, tested, gated>>
    BY <1>7 DEF Verify, installed
  <2>2. \E status \in Nat : Ends(status)
    BY <1>7 DEF Verify
  <2> QED
    BY <2>1, <2>2, FailurePreserves
<1> QED
  BY <1>3, <1>4, <1>5, <1>6, <1>7

LEMMA NextPreserves == BootInv /\ [BootNext]_bootVars => BootInv'
<1> SUFFICES ASSUME BootInv, [BootNext]_bootVars PROVE BootInv'
    OBVIOUS
<1>1. CASE BootNext
  BY <1>1, OutsidePreserves, EarlyPreserves, LatePreserves DEF BootNext, BootStep
<1>2. CASE UNCHANGED bootVars
  BY <1>2 DEF bootVars, scriptVars, installed, BootInv, TestsPassed, LinkTested,
     ReportsEarned, WantsCommit, NamesCommit
<1> QED
  BY <1>1, <1>2

-----------------------------------------------------------------------------
\* Only an exit with status 0 makes the service ready, and only after a
\* verification.
LEMMA ReadyIsVerified ==
    ASSUME BootNext, service' = "ready", service # "ready"
    PROVE  /\ \E verdict \in BOOLEAN : Verified(verdict)
           /\ UNCHANGED <<current, gate, tested, gated>>
<1>1. CASE Ensure \/ Verify
  BY <1>1 DEF Ensure, Verify, Ends, Exit, Stay, installed
<1>2. CASE (\E c \in Releases : EditPin(c)) \/ OperatorApplies \/ ServiceStarts
             \/ KillScript \/ Reboot
  BY <1>2 DEF EditPin, OperatorApplies, ServiceStarts, Starts, Stay, KillScript, Reboot, Exit
<1>3. CASE Preflight \/ Packages \/ CloneRepository \/ UpdateRepository \/ AddWorktree
             \/ CreateEnvironment
  BY <1>3 DEF Preflight, Packages, CloneRepository, UpdateRepository, AddWorktree,
     CreateEnvironment, Refusals, AttemptFails, Ends, Exit, Stay
<1>4. CASE InstallDependencies \/ RunTests \/ SwitchCurrent \/ InstallToolboxes \/ RunGate
             \/ InstallUnits
  BY <1>4 DEF InstallDependencies, RunTests, SwitchCurrent, InstallToolboxes, RunGate,
     InstallUnits, AttemptFails, Ends, Exit, Stay
<1> QED
  BY <1>1, <1>2, <1>3, <1>4 DEF BootNext, BootStep

\* The link moves in one step of the script only.
LEMMA LinkMoves ==
    ASSUME BootNext, current' # current
    PROVE  SwitchCurrent
  BY DEF BootNext, BootStep, EditPin, OperatorApplies, ServiceStarts, Ensure, Preflight, Packages,
     CloneRepository, UpdateRepository, AddWorktree, CreateEnvironment,
     InstallDependencies, RunTests, InstallToolboxes, RunGate, InstallUnits, Verify,
     KillScript, Reboot, HalfDone, installed

\* So does the linked report, to the one of a runtime that passed the gate.
LEMMA GateMoves ==
    ASSUME BootInv, BootNext, gate' # gate
    PROVE  gate' \in gated'
<1>1. RunGate
  BY DEF BootNext, BootStep, EditPin, OperatorApplies, ServiceStarts, Ensure, Preflight,
     Packages, CloneRepository, UpdateRepository, AddWorktree, CreateEnvironment,
     InstallDependencies, RunTests, SwitchCurrent, InstallToolboxes, InstallUnits, Verify,
     KillScript, Reboot, HalfDone, installed
<1> QED
  BY <1>1 DEF RunGate, GatePasses, BootInv, ReportsEarned

\* The release link moves only to tested commits, the report link only to a
\* runtime that has survived the gate, and readiness stands for a tested and
\* pinned commit.
THEOREM BootIsSound == BootSpec => ServerIsSound
<1>1. BootInit => BootInv
  BY DEF BootInit, BootInv, TestsPassed, LinkTested, ReportsEarned, WantsCommit,
     NamesCommit, Late
<1>2. ASSUME BootInv, [BootNext]_bootVars
      PROVE  [ /\ current' # current => current' \in tested
               /\ gate' # gate => gate' \in gated'
               /\ (service' = "ready" /\ service # "ready") =>
                      /\ current' = want /\ current' \in tested' ]_bootVars
  <2>1. CASE BootNext
    <3>1. current' # current => current' \in tested
      BY <2>1, <1>2, LinkMoves
         DEF SwitchCurrent, Does, BootInv, TestsPassed, Late
    <3>2. ASSUME service' = "ready", service # "ready"
          PROVE  current' = want /\ current' \in tested'
      <4>1. /\ \E verdict \in BOOLEAN : Verified(verdict)
            /\ UNCHANGED <<current, gate, tested, gated>>
        BY <2>1, <3>2, ReadyIsVerified
      <4> QED
        BY <4>1, <1>2 DEF Verified, BootInv, LinkTested
    <3>3. gate' # gate => gate' \in gated'
      BY <2>1, <1>2, GateMoves
    <3> QED
      BY <3>1, <3>2, <3>3
  <2>2. CASE UNCHANGED bootVars
    BY <2>2
  <2> QED
    BY <1>2, <2>1, <2>2
<1> QED
  BY <1>1, <1>2, NextPreserves, PTL DEF BootSpec, ServerIsSound

-----------------------------------------------------------------------------
(* The monitor                                                             *)

SamplerSteps == {"idle", "progress", "decisions", "summary", "latest", "open", "append"}
DraftFields  == {"id", "active", "read", "progress", "relaunched", "lifecycle"}
Fragments    == [id : Nat, whole : BOOLEAN]

Busy(w) == sampler[w] # "idle"

\* What the log and the writers have to do with each other.
LogTyped ==
    /\ samples \in Nat
    /\ sampler \in [Writers -> SamplerSteps]
    /\ DOMAIN draft = Writers
    /\ \A w \in Writers : Busy(w) => DOMAIN draft[w] = DraftFields
    /\ opened \in [Writers -> Nat]
    /\ \A w \in Writers : sampler[w] = "append" => opened[w] \in DOMAIN logs
    /\ logs \in Seq(Seq(Fragments)) /\ Len(logs) >= 1

\* A number is given to one sample, and goes to the log once at most.
NumbersUsedOnce ==
    /\ \A w \in Writers : Busy(w) => draft[w].id \in 1..samples
    /\ \A v, w \in Writers : v # w /\ Busy(v) /\ Busy(w) => draft[v].id # draft[w].id
    /\ \A g \in DOMAIN logs : \A i \in DOMAIN logs[g] :
          /\ logs[g][i].id \in 1..samples
          /\ \A w \in Writers : Busy(w) => logs[g][i].id # draft[w].id
          /\ \A h \in DOMAIN logs : \A j \in DOMAIN logs[h] :
                logs[g][i].id = logs[h][j].id => g = h /\ i = j

WrittenThere ==
    \A n \in written : \E g \in DOMAIN logs : \E i \in DOMAIN logs[g] :
        logs[g][i] = [id |-> n, whole |-> TRUE]

LogInv == LogTyped /\ NumbersUsedOnce /\ WrittenThere

Entries == [status : {"not_started", "running", "complete", "failed"},
            total : Nat, finished : Nat, failed : Nat]

\* The conditional stage counts what its families make, or has not started.
Fits(st) ==
    /\ st \in [DOMAIN Default -> Entries]
    /\ st["conditional"].total \in {0, 8 * families}
    /\ st["conditional"].finished <= st["conditional"].total

\* Until a second launch nothing is decided while the run goes on, the
\* conditional stage has a row only once it starts, and a decision against the
\* families comes from a stage before theirs.
FirstLaunch ==
    /\ launches = 0 => triggered = Nothing /\ stage = 1 /\ ~ begun /\ ~ active
    /\ stage < 3 \/ (stage = 3 /\ ~ begun) => state["conditional"].total = 0
    /\ active => triggered = Nothing
    /\ triggered \notin {Nothing, families} => state["conditional"].total = 0 /\ ~ active

RunTyped ==
    /\ families \in Nat /\ launches \in Nat /\ stage \in 1..4
    /\ triggered \in {Nothing, 0, families}

UnderWay ==
    begun => stage < 4 /\ Entry.total = TotalOf(Stages[stage], families) /\ Entry.total > 0

RunInv == RunTyped /\ Fits(state) /\ UnderWay /\ (launches < 2 => FirstLaunch)

\* A state read earlier has no conditional row the present one has not.
ReadInv ==
    \A w \in Writers : sampler[w] = "decisions" =>
        /\ Fits(draft[w].read)
        /\ launches < 2 /\ state["conditional"].total = 0 => draft[w].read["conditional"].total = 0

SoundSample(d) ==
    \/ d.progress = Nothing \/ d.relaunched \/ d.progress.selected = Nothing
    \/ d.progress.completed <= d.progress.selected

SampleInv ==
    /\ \A w \in Writers : sampler[w] \in {"summary", "latest"} => SoundSample(draft[w])
    /\ latest = Nothing \/ SoundSample(latest)

MonitorInv == LogInv /\ RunInv /\ ReadInv /\ SampleInv

\* Progress of a state that fits never counts more than was selected.
LEMMA ProgressSound ==
    ASSUME families \in Nat, NEW st, Fits(st), NEW decided \in {Nothing, 0, families},
           decided \notin {Nothing, families} => st["conditional"].total = 0
    PROVE  \/ Progress(st, decided).selected = Nothing
           \/ Progress(st, decided).completed <= Progress(st, decided).selected
<1> SUFFICES ASSUME decided # Nothing
             PROVE  Progress(st, decided).completed <= Progress(st, decided).selected
    BY DEF Progress
<1> DEFINE done(s) == Counts(st, s, decided).finished
           evaluated == done("embeddings") + done("core")
           mandatory == IF evaluated < 64 THEN evaluated ELSE 64
<1>1. decided \in Nat
  OBVIOUS
<1>2. \A s \in {"embeddings", "core", "conditional"} : st[s].finished \in Nat /\ st[s].total \in Nat
  BY DEF Fits, Entries, Default
<1>3. done("embeddings") \in Nat /\ done("core") \in Nat
  BY <1>1, <1>2 DEF Counts, TotalOf, Default
<1>4. done("conditional") \in Nat /\ done("conditional") <= 8 * decided
  <2>1. CASE st["conditional"].total = 0
    BY <2>1, <1>1, <1>2 DEF Counts, TotalOf
  <2>2. CASE st["conditional"].total # 0
    <3>1. decided = families /\ st["conditional"].total = 8 * families
      BY <2>2 DEF Fits
    <3> QED
      BY <2>2, <3>1, <1>1, <1>2 DEF Counts
  <2> QED
    BY <2>1, <2>2
<1>5. /\ Progress(st, decided).selected = 64 + 8 * decided
      /\ Progress(st, decided).completed = mandatory + done("conditional")
  BY DEF Progress, Default
<1> HIDE DEF done
<1> QED
  BY <1>1, <1>3, <1>4, <1>5

\* The run's steps leave the monitor's files and samplers alone.
LEMMA RunLeavesFiles ==
    ASSUME UNCHANGED <<sampler, draft, opened, latest, logs, written, samples>>
    PROVE  /\ LogInv => LogInv'
           /\ SampleInv => SampleInv'
<1>1. LogInv => LogInv'
  BY DEF LogInv, LogTyped, NumbersUsedOnce, WrittenThere, Busy
<1>2. SampleInv => SampleInv'
  BY DEF SampleInv, SoundSample
<1> QED
  BY <1>1, <1>2

\* A conditional row that is there stays, within a launch.
LEMMA ReadStays ==
    ASSUME ReadInv, UNCHANGED <<sampler, draft, families>>, launches' >= launches,
           launches \in Nat, launches' \in Nat,
           state'["conditional"].total = 0 => state["conditional"].total = 0
    PROVE  ReadInv'
<1> SUFFICES ASSUME NEW w \in Writers, sampler'[w] = "decisions"
             PROVE  /\ Fits(draft[w].read)'
                    /\ launches' < 2 /\ state'["conditional"].total = 0
                          => draft'[w].read["conditional"].total = 0
    BY DEF ReadInv
<1>1. Fits(draft[w].read)
  BY DEF ReadInv
<1>2. Fits(draft[w].read)'
  BY <1>1 DEF Fits
<1> QED
  BY <1>2 DEF ReadInv

\* The stages, and what a stage's total is.
LEMMA StageTotals ==
    ASSUME families \in Nat, stage \in 1..3
    PROVE  /\ Stages[stage] \in DOMAIN Default
           /\ TotalOf(Stages[stage], families) \in Nat
           /\ stage = 3 <=> Stages[stage] = "conditional"
           /\ stage = 3 => TotalOf(Stages[stage], families) = 8 * families
           /\ stage < 3 => TotalOf(Stages[stage], families) > 0
<1>1. families # Nothing
  BY NothingAssumption
<1>2. CASE stage = 1
  BY <1>2 DEF Stages, TotalOf, Default
<1>3. CASE stage = 2
  BY <1>3 DEF Stages, TotalOf, Default
<1>4. CASE stage = 3
  BY <1>1, <1>4 DEF Stages, TotalOf, Default
<1> QED
  BY <1>2, <1>3, <1>4

LEMMA LaunchesKeep ==
    ASSUME RunInv, RunLaunches PROVE RunInv' /\ (ReadInv => ReadInv')
<1>1. /\ launches' = launches + 1 /\ stage' = 1 /\ begun' = FALSE /\ active' = TRUE
      /\ UNCHANGED <<families, state, triggered, sampler, draft>> /\ launches \in Nat
  BY DEF RunLaunches, Files, RunInv, RunTyped
<1>2. Fits(state)'
  BY <1>1 DEF RunInv, Fits
<1>3. launches' < 2 => FirstLaunch'
  BY <1>1 DEF RunInv, RunTyped, FirstLaunch
<1>4. UnderWay'
  BY <1>1 DEF UnderWay
<1>5. RunTyped'
  BY <1>1 DEF RunInv, RunTyped
<1> QED
  BY <1>1, <1>2, <1>3, <1>4, <1>5, ReadStays DEF RunInv

LEMMA StageStartsKeep ==
    ASSUME RunInv, StageStarts PROVE RunInv' /\ (ReadInv => ReadInv')
<1> DEFINE s == Stages[stage]
           total == TotalOf(s, families)
<1>1. /\ stage \in 1..3 /\ ~ begun /\ active
      /\ UNCHANGED <<families, active, launches, triggered, sampler, draft>>
  BY DEF StageStarts, OnStage, RunInv, RunTyped, Files, Stages
<1>2. /\ s \in DOMAIN Default /\ total \in Nat /\ (stage = 3 <=> s = "conditional")
      /\ stage = 3 => total = 8 * families
      /\ stage < 3 => total > 0
  BY <1>1, StageTotals DEF RunInv, RunTyped
<1>3. Fits(state) /\ RunTyped
  BY DEF RunInv
<1>4. CASE total = 0
  <2>1. stage = 3 /\ stage' = 4 /\ begun' = FALSE /\ UNCHANGED state
    BY <1>1, <1>2, <1>4 DEF StageStarts, NextStage
  <2>2. Fits(state)'
    BY <1>1, <1>3, <2>1 DEF Fits
  <2>3. launches' < 2 => FirstLaunch'
    BY <1>1, <2>1 DEF RunInv, FirstLaunch
  <2>4. UnderWay'
    BY <2>1 DEF UnderWay
  <2>5. RunTyped'
    BY <1>1, <1>3, <2>1 DEF RunTyped
  <2>6. ReadInv => ReadInv'
    BY <1>1, <1>3, <2>1, ReadStays DEF RunTyped
  <2> QED
    BY <2>2, <2>3, <2>4, <2>5, <2>6 DEF RunInv
<1>5. CASE total # 0
  <2> DEFINE row == [status |-> "running", total |-> total, finished |-> 0, failed |-> 0]
  <2>1. state' = [state EXCEPT ![s] = row] /\ begun' = TRUE /\ UNCHANGED stage
    BY <1>5 DEF StageStarts
  <2>2. row \in Entries /\ row.total = total /\ row.finished = 0
    BY <1>2 DEF Entries
  <2> HIDE DEF row
  <2>3. /\ state' \in [DOMAIN Default -> Entries] /\ state'[s] = row
        /\ s # "conditional" => state'["conditional"] = state["conditional"]
    BY <1>2, <1>3, <2>1, <2>2 DEF Fits
  <2>4. Fits(state)'
    BY <1>1, <1>2, <1>3, <2>2, <2>3 DEF Fits, Default, RunTyped
  <2>5. state'["conditional"].total = 0 => state["conditional"].total = 0
    <3>1. CASE s = "conditional"
      BY <1>5, <2>2, <2>3, <3>1
    <3>2. CASE s # "conditional"
      BY <2>3, <3>2
    <3> QED
      BY <3>1, <3>2
  <2>6. launches' < 2 => FirstLaunch'
    <3> SUFFICES ASSUME launches < 2 PROVE FirstLaunch'
        BY <1>1
    <3>1. FirstLaunch /\ triggered = Nothing
      BY <1>1 DEF RunInv, RunTyped, FirstLaunch
    <3>2. stage < 3 => state'["conditional"].total = 0
      BY <1>1, <1>2, <2>3, <3>1 DEF FirstLaunch
    <3> QED
      BY <1>1, <2>1, <3>1, <3>2 DEF FirstLaunch
  <2>7. Entry' = row
    BY <2>1, <2>3 DEF Entry
  <2>8. RunTyped'
    BY <1>1, <1>3, <2>1 DEF RunTyped
  <2>9. TotalOf(Stages[stage], families)' = total
    BY <1>1, <2>1 DEF TotalOf
  <2>10. UnderWay'
    BY <1>1, <1>2, <1>5, <2>1, <2>2, <2>7, <2>9 DEF UnderWay
  <2>11. ReadInv => ReadInv'
    BY <1>1, <1>3, <2>5, ReadStays DEF RunTyped
  <2> QED
    BY <2>4, <2>6, <2>8, <2>10, <2>11 DEF RunInv
<1> QED
  BY <1>4, <1>5

LEMMA StageEndsKeep ==
    ASSUME RunInv, StageEnds PROVE RunInv' /\ (ReadInv => ReadInv')
<1> DEFINE s == Stages[stage]
           row == [Entry EXCEPT !.finished = Entry.total, !.status = "complete"]
<1>1. /\ stage \in 1..3 /\ begun /\ active /\ stage' = stage + 1 /\ begun' = FALSE
      /\ UNCHANGED <<families, active, launches, triggered, sampler, draft>>
  BY DEF StageEnds, OnStage, NextStage, RunInv, RunTyped, Files, Stages
<1>2. Fits(state) /\ RunTyped /\ UnderWay /\ (launches < 2 => FirstLaunch)
  BY DEF RunInv
<1>3. s \in DOMAIN Default /\ Entry \in Entries /\ (stage = 3 <=> s = "conditional")
  BY <1>1, <1>2, StageTotals DEF RunTyped, Fits, Entry
<1>4. row \in Entries /\ row.total = Entry.total /\ row.finished = Entry.total
  BY <1>3 DEF Entries
<1>5. state' = [state EXCEPT ![s] = row]
  BY <1>2, <1>3 DEF StageEnds, Fits, Entry
<1> HIDE DEF row
<1>6. /\ state' \in [DOMAIN Default -> Entries] /\ state'[s] = row
      /\ s # "conditional" => state'["conditional"] = state["conditional"]
  BY <1>2, <1>3, <1>4, <1>5 DEF Fits
<1>7. state'["conditional"].total = state["conditional"].total
  BY <1>3, <1>4, <1>6 DEF Entry
<1>8. Fits(state)'
  BY <1>1, <1>2, <1>3, <1>4, <1>6, <1>7 DEF Fits, Default, RunTyped, Entry
<1>9. launches' < 2 => FirstLaunch'
  BY <1>1, <1>2, <1>7 DEF FirstLaunch, RunTyped
<1>10. UnderWay'
  BY <1>1 DEF UnderWay
<1>11. RunTyped'
  BY <1>1, <1>2 DEF RunTyped
<1>12. ReadInv => ReadInv'
  BY <1>1, <1>2, <1>7, ReadStays DEF RunTyped
<1> QED
  BY <1>8, <1>9, <1>10, <1>11, <1>12 DEF RunInv

LEMMA StageFailsKeep ==
    ASSUME RunInv, StageFails PROVE RunInv' /\ (ReadInv => ReadInv')
<1> DEFINE s == Stages[stage]
           row == [Entry EXCEPT !.failed = 1, !.finished = Entry.total - 1, !.status = "failed"]
<1>1. /\ stage \in 1..3 /\ begun /\ active /\ active' = FALSE
      /\ triggered' = IF s = "conditional" THEN families ELSE 0
      /\ UNCHANGED <<families, stage, begun, launches, sampler, draft>>
  BY DEF StageFails, Decides, OnStage, RunInv, RunTyped, Files, Stages
<1>2. Fits(state) /\ RunTyped /\ UnderWay /\ (launches < 2 => FirstLaunch)
  BY DEF RunInv
<1>3. /\ s \in DOMAIN Default /\ Entry \in Entries /\ (stage = 3 <=> s = "conditional")
      /\ Entry.total > 0
  BY <1>1, <1>2, StageTotals DEF RunTyped, Fits, Entry, UnderWay
<1>4. row \in Entries /\ row.total = Entry.total /\ row.finished = Entry.total - 1
  <2> DEFINE n == Entry.total - 1
             e == Entry
  <2>1. n \in Nat /\ e \in Entries
    BY <1>3 DEF Entries
  <2>2. row = [e EXCEPT !.failed = 1, !.finished = n, !.status = "failed"]
    OBVIOUS
  <2> HIDE DEF n, e, row
  <2>3. row \in Entries /\ row.total = e.total /\ row.finished = n
    BY <2>1, <2>2 DEF Entries
  <2> QED
    BY <2>3 DEF n, e
<1>5. state' = [state EXCEPT ![s] = row]
  BY <1>2, <1>3 DEF StageFails, Fits, Entry
<1> HIDE DEF row
<1>6. /\ state' \in [DOMAIN Default -> Entries] /\ state'[s] = row
      /\ s # "conditional" => state'["conditional"] = state["conditional"]
  BY <1>2, <1>3, <1>4, <1>5 DEF Fits
<1>7. state'["conditional"].total = state["conditional"].total
  BY <1>3, <1>4, <1>6 DEF Entry
<1>8. Fits(state)'
  <2>1. CASE s = "conditional"
    BY <1>1, <1>2, <1>3, <1>4, <1>6, <1>7, <2>1 DEF Fits, Default, Entries, RunTyped, Entry
  <2>2. CASE s # "conditional"
    BY <1>1, <1>2, <1>6, <1>7, <2>2 DEF Fits
  <2> QED
    BY <2>1, <2>2
<1>9. launches' < 2 => FirstLaunch'
  BY <1>1, <1>2, <1>3, <1>7 DEF FirstLaunch, RunTyped
<1>10. UnderWay'
  <2>1. Entry' = row /\ TotalOf(Stages[stage], families)' = TotalOf(s, families)
    BY <1>1, <1>6 DEF Entry, TotalOf
  <2> QED
    BY <1>1, <1>2, <1>3, <1>4, <2>1 DEF UnderWay
<1>11. RunTyped'
  BY <1>1, <1>2 DEF RunTyped
<1>12. ReadInv => ReadInv'
  BY <1>1, <1>2, <1>7, ReadStays DEF RunTyped
<1> QED
  BY <1>8, <1>9, <1>10, <1>11, <1>12 DEF RunInv

LEMMA RunStopsKeep ==
    ASSUME RunInv, RunEnds \/ RunKilled PROVE RunInv' /\ (ReadInv => ReadInv')
<1>1. /\ active /\ active' = FALSE /\ triggered' \in {triggered, families}
      /\ RunEnds => stage = 4 /\ triggered' = families
      /\ RunKilled => triggered' = triggered
      /\ UNCHANGED <<families, state, stage, begun, launches, sampler, draft>>
  BY DEF RunEnds, RunKilled, Decides, Files, RunInv, RunTyped, Stages
<1>2. Fits(state) /\ RunTyped /\ UnderWay /\ (launches < 2 => FirstLaunch)
  BY DEF RunInv
<1>3. Fits(state)'
  BY <1>1, <1>2 DEF Fits
<1>4. launches' < 2 => FirstLaunch'
  BY <1>1, <1>2 DEF FirstLaunch
<1>5. UnderWay'
  BY <1>1, <1>2 DEF UnderWay, Entry, TotalOf
<1>6. RunTyped'
  BY <1>1, <1>2 DEF RunTyped
<1>7. ReadInv => ReadInv'
  BY <1>1, <1>2, ReadStays DEF RunTyped
<1> QED
  BY <1>3, <1>4, <1>5, <1>6, <1>7 DEF RunInv

\* What a writer's step does to its own sample is all there is to check, as the
\* run and the other writer stand still.
LEMMA WriterStep ==
    ASSUME NEW w \in Writers, LogTyped, RunInv, ReadInv, SampleInv, UNCHANGED runSide,
           NEW to, sampler' = [sampler EXCEPT ![w] = to],
           \A v \in Writers : v # w => draft'[v] = draft[v],
           to = "decisions" => draft'[w].read = state,
           to \in {"summary", "latest"} => SoundSample(draft'[w]),
           latest' = Nothing \/ SoundSample(latest')
    PROVE  RunInv' /\ ReadInv' /\ SampleInv'
<1>1. /\ sampler'[w] = to
      /\ \A v \in Writers : v # w => sampler'[v] = sampler[v]
  BY DEF LogTyped
<1>2. UNCHANGED <<families, active, stage, begun, launches, state, triggered>>
  BY DEF runSide
<1>3. RunInv'
  BY <1>2 DEF RunInv, RunTyped, Fits, UnderWay, FirstLaunch, Entry, TotalOf
<1>4. SampleInv'
  <2>1. ASSUME NEW v \in Writers, sampler'[v] \in {"summary", "latest"}
        PROVE  SoundSample(draft'[v])
    BY <1>1, <2>1 DEF SampleInv
  <2> QED
    BY <2>1 DEF SampleInv, SoundSample
<1>5. ReadInv'
  <2> SUFFICES ASSUME NEW v \in Writers, sampler'[v] = "decisions"
               PROVE  /\ Fits(draft[v].read)'
                      /\ launches' < 2 /\ state'["conditional"].total = 0
                            => draft'[v].read["conditional"].total = 0
      BY DEF ReadInv
  <2>1. CASE v = w
    <3>1. draft'[v].read = state /\ Fits(state)
      BY <1>1, <2>1 DEF RunInv
    <3>2. Fits(draft[v].read)'
      BY <1>2, <3>1 DEF Fits
    <3> QED
      BY <1>2, <3>1, <3>2
  <2>2. CASE v # w
    <3>1. draft'[v].read = draft[v].read /\ sampler[v] = "decisions"
      BY <1>1, <2>2
    <3>2. Fits(draft[v].read)
      BY <3>1 DEF ReadInv
    <3>3. Fits(draft[v].read)'
      BY <1>2, <3>1, <3>2 DEF Fits
    <3> QED
      BY <1>2, <3>1, <3>3 DEF ReadInv
  <2> QED
    BY <2>1, <2>2
<1> QED
  BY <1>3, <1>4, <1>5

\* A step on a sample that keeps its number leaves the log as it is.
LEMMA DraftStep ==
    ASSUME NEW w \in Writers, LogInv, Busy(w),
           NEW to \in SamplerSteps, to \notin {"idle", "append"},
           sampler' = [sampler EXCEPT ![w] = to],
           DOMAIN draft' = Writers, DOMAIN draft'[w] = DraftFields,
           draft'[w].id = draft[w].id,
           \A v \in Writers : v # w => draft'[v] = draft[v],
           UNCHANGED <<opened, logs, written, samples>>
    PROVE  LogInv'
<1>1. /\ sampler' \in [Writers -> SamplerSteps] /\ sampler'[w] = to
      /\ \A v \in Writers : v # w => sampler'[v] = sampler[v]
  BY DEF LogInv, LogTyped
<1>2. \A v \in Writers : (Busy(v))' => Busy(v) /\ draft'[v].id = draft[v].id
  BY <1>1 DEF Busy
<1>3. LogTyped'
  BY <1>1, <1>2 DEF LogInv, LogTyped, Busy
<1>4. NumbersUsedOnce'
  BY <1>2 DEF LogInv, NumbersUsedOnce, Busy
<1>5. WrittenThere'
  BY DEF LogInv, WrittenThere
<1> QED
  BY <1>3, <1>4, <1>5 DEF LogInv

LEMMA DiscoverKeeps ==
    ASSUME NEW w \in Writers, MonitorInv, Discover(w) PROVE MonitorInv'
<1> DEFINE d == [id |-> samples + 1, active |-> active, read |-> Nothing,
                 progress |-> Nothing, relaunched |-> FALSE, lifecycle |-> Nothing]
           to == IF launches = 0 THEN "latest" ELSE "progress"
<1>1. LogInv /\ RunInv /\ ReadInv /\ SampleInv
  BY DEF MonitorInv
<1>2. /\ sampler' = [sampler EXCEPT ![w] = to] /\ draft' = [draft EXCEPT ![w] = d]
      /\ sampler[w] = "idle" /\ samples' = samples + 1
      /\ UNCHANGED <<runSide, opened, latest, logs, written>>
  BY DEF Discover, Step
<1>3. DOMAIN d = DraftFields /\ d.id = samples + 1 /\ d.progress = Nothing
  BY DEF DraftFields
<1>4. to \in SamplerSteps /\ to \notin {"idle", "append", "decisions"}
  BY DEF SamplerSteps
<1> HIDE DEF d, to
<1>5. /\ DOMAIN draft' = Writers /\ draft'[w] = d
      /\ \A v \in Writers : v # w => draft'[v] = draft[v]
  BY <1>1, <1>2 DEF LogInv, LogTyped
<1>6. RunInv' /\ ReadInv' /\ SampleInv'
  BY <1>1, <1>2, <1>3, <1>4, <1>5, WriterStep DEF LogInv, SampleInv, SoundSample
<1>7. /\ sampler' \in [Writers -> SamplerSteps] /\ sampler'[w] = to
      /\ \A v \in Writers : v # w => sampler'[v] = sampler[v]
  BY <1>1, <1>2, <1>4 DEF LogInv, LogTyped
<1>8. LogTyped'
  BY <1>1, <1>2, <1>3, <1>4, <1>5, <1>7 DEF LogInv, LogTyped, Busy
<1>9. NumbersUsedOnce'
  <2>1. samples \in Nat
    BY <1>1 DEF LogInv, LogTyped
  <2>2. \A v \in Writers : Busy(v)' /\ v # w => Busy(v) /\ draft'[v].id \in 1..samples
    BY <1>1, <1>5, <1>7 DEF LogInv, NumbersUsedOnce, Busy
  <2>3. \A v \in Writers : Busy(v)' => draft'[v].id \in 1..samples'
    BY <1>2, <1>3, <1>5, <2>1, <2>2
  <2>4. \A u, v \in Writers : u # v /\ Busy(u)' /\ Busy(v)' => draft'[u].id # draft'[v].id
    <3> SUFFICES ASSUME NEW u \in Writers, NEW v \in Writers, u # v, Busy(u)', Busy(v)'
                 PROVE  draft'[u].id # draft'[v].id
        OBVIOUS
    <3>1. CASE u = w
      BY <1>3, <1>5, <2>1, <2>2, <3>1
    <3>2. CASE v = w
      BY <1>3, <1>5, <2>1, <2>2, <3>2
    <3>3. CASE u # w /\ v # w
      BY <1>1, <1>5, <2>2, <3>3 DEF LogInv, NumbersUsedOnce
    <3> QED
      BY <3>1, <3>2, <3>3
  <2>5. ASSUME NEW g \in DOMAIN logs, NEW i \in DOMAIN logs[g]
        PROVE  /\ logs[g][i].id \in 1..samples'
               /\ \A v \in Writers : Busy(v)' => logs[g][i].id # draft'[v].id
    <3>1. logs[g][i].id \in 1..samples
      BY <1>1 DEF LogInv, NumbersUsedOnce
    <3>2. \A v \in Writers : Busy(v) => logs[g][i].id # draft[v].id
      BY <1>1 DEF LogInv, NumbersUsedOnce
    <3>3. \A v \in Writers : Busy(v)' /\ v # w => logs[g][i].id # draft'[v].id
      BY <1>5, <2>2, <3>2
    <3>4. logs[g][i].id # draft'[w].id
      BY <1>3, <1>5, <2>1, <3>1
    <3> QED
      BY <1>2, <2>1, <3>1, <3>3, <3>4
  <2> QED
    BY <1>1, <1>2, <2>3, <2>4, <2>5 DEF LogInv, NumbersUsedOnce
<1>10. WrittenThere'
  BY <1>1, <1>2 DEF LogInv, WrittenThere
<1> QED
  BY <1>6, <1>8, <1>9, <1>10 DEF MonitorInv, LogInv

\* The steps that fill the sample in, and the one that publishes it.
LEMMA ReadsKeep ==
    ASSUME NEW w \in Writers, MonitorInv,
           ReadState(w) \/ ReadDecisions(w) \/ ReadSummary(w) \/ WriteLatest(w)
    PROVE  MonitorInv'
<1>1. LogInv /\ LogTyped /\ RunInv /\ ReadInv /\ SampleInv
  BY DEF MonitorInv, LogInv
<1>2. DOMAIN draft = Writers /\ (Busy(w) => DOMAIN draft[w] = DraftFields)
  BY <1>1 DEF LogTyped
<1>3. latest = Nothing \/ SoundSample(latest)
  BY <1>1 DEF SampleInv
<1>4. CASE ReadState(w)
  <2>1. /\ sampler' = [sampler EXCEPT ![w] = "decisions"] /\ sampler[w] = "progress"
        /\ draft' = [draft EXCEPT ![w].read = state]
        /\ UNCHANGED <<runSide, opened, latest, logs, written, samples>>
    BY <1>4 DEF ReadState, Step
  <2>2. Busy(w) /\ DOMAIN draft[w] = DraftFields
    BY <1>2, <2>1 DEF Busy
  <2>3. /\ DOMAIN draft' = Writers /\ DOMAIN draft'[w] = DraftFields
        /\ draft'[w].id = draft[w].id /\ draft'[w].read = state
        /\ \A v \in Writers : v # w => draft'[v] = draft[v]
    BY <1>2, <2>1, <2>2 DEF DraftFields
  <2>4. LogInv'
    BY <1>1, <2>1, <2>2, <2>3, DraftStep DEF SamplerSteps
  <2>5. RunInv' /\ ReadInv' /\ SampleInv'
    BY <1>1, <1>3, <2>1, <2>3, WriterStep
  <2> QED
    BY <2>4, <2>5 DEF MonitorInv
<1>5. CASE ReadDecisions(w)
  <2> DEFINE made == Progress(draft[w].read, triggered)
  <2>1. /\ sampler' = [sampler EXCEPT ![w] = "summary"] /\ sampler[w] = "decisions"
        /\ draft' = [draft EXCEPT ![w].read = Nothing, ![w].relaunched = launches > 1,
                                  ![w].progress = made]
        /\ UNCHANGED <<runSide, opened, latest, logs, written, samples>>
    BY <1>5 DEF ReadDecisions, Step
  <2>2. Busy(w) /\ DOMAIN draft[w] = DraftFields
    BY <1>2, <2>1 DEF Busy
  <2>3. \/ launches > 1 \/ made.selected = Nothing
        \/ made.completed <= made.selected
    <3> SUFFICES ASSUME ~ (launches > 1)
                 PROVE  made.selected = Nothing \/ made.completed <= made.selected
        OBVIOUS
    <3>1. /\ families \in Nat /\ triggered \in {Nothing, 0, families} /\ launches < 2
          /\ triggered \notin {Nothing, families} => state["conditional"].total = 0
      BY <1>1 DEF RunInv, RunTyped, FirstLaunch
    <3>2. /\ Fits(draft[w].read)
          /\ state["conditional"].total = 0 => draft[w].read["conditional"].total = 0
      BY <1>1, <2>1, <3>1 DEF ReadInv
    <3> QED
      BY <3>1, <3>2, ProgressSound
  <2> HIDE DEF made
  <2>4. /\ DOMAIN draft' = Writers /\ DOMAIN draft'[w] = DraftFields
        /\ draft'[w].id = draft[w].id
        /\ draft'[w].relaunched = (launches > 1) /\ draft'[w].progress = made
        /\ \A v \in Writers : v # w => draft'[v] = draft[v]
    BY <1>2, <2>1, <2>2 DEF DraftFields
  <2>5. LogInv'
    BY <1>1, <2>1, <2>2, <2>4, DraftStep, ZenonT(30) DEF SamplerSteps
  <2>6. SoundSample(draft'[w])
    BY <2>3, <2>4 DEF SoundSample
  <2>7. RunInv' /\ ReadInv' /\ SampleInv'
    BY <1>1, <1>3, <2>1, <2>4, <2>6, WriterStep, ZenonT(30)
  <2> QED
    BY <2>5, <2>7 DEF MonitorInv
<1>6. CASE ReadSummary(w)
  <2> DEFINE said == IF draft[w].active THEN "running"
                     ELSE IF summary = Nothing THEN "inactive" ELSE summary
  <2>1. /\ sampler' = [sampler EXCEPT ![w] = "latest"] /\ sampler[w] = "summary"
        /\ draft' = [draft EXCEPT ![w].lifecycle = said]
        /\ UNCHANGED <<runSide, opened, latest, logs, written, samples>>
    BY <1>6 DEF ReadSummary, Step
  <2> HIDE DEF said
  <2>2. Busy(w) /\ DOMAIN draft[w] = DraftFields /\ SoundSample(draft[w])
    BY <1>1, <1>2, <2>1 DEF Busy, SampleInv
  <2>3. /\ DOMAIN draft' = Writers /\ DOMAIN draft'[w] = DraftFields
        /\ draft'[w].id = draft[w].id /\ draft'[w].progress = draft[w].progress
        /\ draft'[w].relaunched = draft[w].relaunched
        /\ \A v \in Writers : v # w => draft'[v] = draft[v]
    BY <1>2, <2>1, <2>2 DEF DraftFields
  <2>4. LogInv'
    BY <1>1, <2>1, <2>2, <2>3, DraftStep DEF SamplerSteps
  <2>5. SoundSample(draft'[w])
    BY <2>2, <2>3 DEF SoundSample
  <2>6. RunInv' /\ ReadInv' /\ SampleInv'
    BY <1>1, <1>3, <2>1, <2>3, <2>5, WriterStep
  <2> QED
    BY <2>4, <2>6 DEF MonitorInv
<1>7. CASE WriteLatest(w)
  <2>1. /\ sampler' = [sampler EXCEPT ![w] = "open"] /\ sampler[w] = "latest"
        /\ latest' = draft[w]
        /\ UNCHANGED <<runSide, draft, opened, logs, written, samples>>
    BY <1>7 DEF WriteLatest, Step
  <2>2. Busy(w) /\ DOMAIN draft[w] = DraftFields /\ SoundSample(draft[w])
    BY <1>1, <1>2, <2>1 DEF Busy, SampleInv
  <2>3. LogInv'
    BY <1>1, <1>2, <2>1, <2>2, DraftStep DEF SamplerSteps
  <2>4. RunInv' /\ ReadInv' /\ SampleInv'
    BY <1>1, <2>1, <2>2, WriterStep
  <2> QED
    BY <2>3, <2>4 DEF MonitorInv
<1> QED
  BY <1>4, <1>5, <1>6, <1>7

LEMMA OpenKeeps ==
    ASSUME NEW w \in Writers, MonitorInv, OpenLog(w) PROVE MonitorInv'
<1>1. LogInv /\ LogTyped /\ RunInv /\ ReadInv /\ SampleInv
  BY DEF MonitorInv, LogInv
<1>2. /\ sampler' = [sampler EXCEPT ![w] = "append"] /\ sampler[w] = "open"
      /\ opened' = [opened EXCEPT ![w] = Len(logs)]
      /\ UNCHANGED <<runSide, draft, latest, logs, written, samples>>
  BY DEF OpenLog, Step
<1>3. RunInv' /\ ReadInv' /\ SampleInv'
  BY <1>1, <1>2, WriterStep DEF SampleInv
<1>4. Len(logs) \in DOMAIN logs /\ Len(logs) \in Nat
  BY <1>1 DEF LogTyped
<1>5. /\ sampler' \in [Writers -> SamplerSteps] /\ opened' \in [Writers -> Nat]
      /\ opened'[w] = Len(logs)
      /\ \A v \in Writers : v # w => sampler'[v] = sampler[v] /\ opened'[v] = opened[v]
      /\ \A v \in Writers : Busy(v)' => Busy(v)
  BY <1>1, <1>2, <1>4 DEF LogTyped, SamplerSteps, Busy
<1>6. LogTyped'
  BY <1>1, <1>2, <1>4, <1>5 DEF LogTyped
<1>7. NumbersUsedOnce' /\ WrittenThere'
  BY <1>1, <1>2, <1>5 DEF LogInv, NumbersUsedOnce, WrittenThere
<1> QED
  BY <1>3, <1>6, <1>7 DEF MonitorInv, LogInv

\* A writer that stops, its line written or not, has no sample any more.
LEMMA WriterStops ==
    ASSUME NEW w \in Writers, LogTyped, sampler' = [sampler EXCEPT ![w] = "idle"],
           draft' = [draft EXCEPT ![w] = Nothing]
    PROVE  /\ sampler' \in [Writers -> SamplerSteps] /\ DOMAIN draft' = Writers
           /\ ~ Busy(w)' /\ sampler'[w] = "idle"
           /\ \A v \in Writers : v # w => sampler'[v] = sampler[v] /\ draft'[v] = draft[v]
           /\ \A v \in Writers : Busy(v)' => Busy(v) /\ v # w /\ draft'[v] = draft[v]
BY DEF LogTyped, SamplerSteps, Busy

LEMMA KilledKeeps ==
    ASSUME NEW w \in Writers, MonitorInv, WriterKilled(w) PROVE MonitorInv'
<1>1. LogInv /\ LogTyped /\ RunInv /\ ReadInv /\ SampleInv
  BY DEF MonitorInv, LogInv
<1>2. /\ sampler' = [sampler EXCEPT ![w] = "idle"] /\ draft' = [draft EXCEPT ![w] = Nothing]
      /\ UNCHANGED <<runSide, opened, latest, logs, written, samples>>
  BY DEF WriterKilled
<1>3. /\ sampler' \in [Writers -> SamplerSteps] /\ DOMAIN draft' = Writers
      /\ ~ Busy(w)' /\ sampler'[w] = "idle"
      /\ \A v \in Writers : v # w => sampler'[v] = sampler[v] /\ draft'[v] = draft[v]
      /\ \A v \in Writers : Busy(v)' => Busy(v) /\ v # w /\ draft'[v] = draft[v]
  BY <1>1, <1>2, WriterStops
<1>4. RunInv' /\ ReadInv' /\ SampleInv'
  BY <1>1, <1>2, <1>3, WriterStep DEF SampleInv
<1>5. LogTyped'
  BY <1>1, <1>2, <1>3 DEF LogTyped
<1>6. NumbersUsedOnce' /\ WrittenThere'
  BY <1>1, <1>2, <1>3 DEF LogInv, NumbersUsedOnce, WrittenThere
<1> QED
  BY <1>4, <1>5, <1>6 DEF MonitorInv, LogInv

\* A line put at the end of a generation leaves what is in the log in its place.
LEMMA AppendKeeps ==
    ASSUME NEW w \in Writers, MonitorInv, AppendLine(w) PROVE MonitorInv'
<1>1. LogInv /\ LogTyped /\ RunInv /\ ReadInv /\ SampleInv
  BY DEF MonitorInv, LogInv
<1> DEFINE here == opened[w]
           id   == draft[w].id
<1>2. PICK whole \in BOOLEAN :
        /\ logs' = [logs EXCEPT ![here] = Append(@, [id |-> id, whole |-> whole])]
        /\ written' = IF whole THEN written \cup {id} ELSE written
  BY DEF AppendLine, Place
<1> DEFINE line == [id |-> id, whole |-> whole]
           last == Len(logs[here]) + 1
<1>3. /\ sampler' = [sampler EXCEPT ![w] = "idle"] /\ draft' = [draft EXCEPT ![w] = Nothing]
      /\ sampler[w] = "append" /\ UNCHANGED <<runSide, opened, latest, samples>>
  BY DEF AppendLine, Step
<1>4. Busy(w) /\ here \in DOMAIN logs /\ id \in 1..samples /\ samples \in Nat
  BY <1>1, <1>3 DEF LogTyped, LogInv, NumbersUsedOnce, Busy
<1>5. line \in Fragments /\ line.id = id /\ line.whole = whole
  BY <1>4 DEF Fragments
<1>6. /\ sampler' \in [Writers -> SamplerSteps] /\ DOMAIN draft' = Writers
      /\ ~ Busy(w)' /\ sampler'[w] = "idle"
      /\ \A v \in Writers : v # w => sampler'[v] = sampler[v] /\ draft'[v] = draft[v]
      /\ \A v \in Writers : Busy(v)' => Busy(v) /\ v # w /\ draft'[v] = draft[v]
  BY <1>1, <1>3, WriterStops
<1>7. RunInv' /\ ReadInv' /\ SampleInv'
  BY <1>1, <1>3, <1>6, WriterStep DEF SampleInv
<1> HIDE DEF here, id, line
<1>8. /\ logs' \in Seq(Seq(Fragments)) /\ Len(logs') = Len(logs)
      /\ DOMAIN logs' = DOMAIN logs
      /\ \A g \in DOMAIN logs : g # here => logs'[g] = logs[g]
      /\ logs'[here] = Append(logs[here], line)
  <2> DEFINE longer == Append(logs[here], line)
  <2>1. logs \in Seq(Seq(Fragments)) /\ logs[here] \in Seq(Fragments)
    BY <1>1, <1>4 DEF LogTyped
  <2>2. longer \in Seq(Fragments)
    BY <1>5, <2>1
  <2>3. logs' = [logs EXCEPT ![here] = longer]
    BY <1>2 DEF line
  <2> HIDE DEF longer
  <2>4. /\ logs' \in Seq(Seq(Fragments)) /\ Len(logs') = Len(logs)
        /\ DOMAIN logs' = DOMAIN logs
        /\ \A g \in DOMAIN logs : g # here => logs'[g] = logs[g]
        /\ logs'[here] = longer
    BY <1>4, <2>1, <2>2, <2>3
  <2> QED
    BY <2>4 DEF longer
<1>9. /\ last \in DOMAIN logs'[here] /\ logs'[here][last] = line
      /\ \A i \in DOMAIN logs[here] : i \in DOMAIN logs'[here] /\ logs'[here][i] = logs[here][i]
      /\ \A i \in DOMAIN logs'[here] : i = last \/ i \in DOMAIN logs[here]
  <2>1. logs[here] \in Seq(Fragments)
    BY <1>1, <1>4 DEF LogTyped
  <2> QED
    BY <1>5, <1>8, <2>1
<1> HIDE DEF last
<1>10. \A g \in DOMAIN logs : \A i \in DOMAIN logs[g] :
          i \in DOMAIN logs'[g] /\ logs'[g][i] = logs[g][i]
  BY <1>8, <1>9
<1>11. \A g \in DOMAIN logs' : \A i \in DOMAIN logs'[g] :
          \/ g = here /\ i = last /\ logs'[g][i] = line
          \/ g \in DOMAIN logs /\ i \in DOMAIN logs[g] /\ logs'[g][i] = logs[g][i]
  BY <1>8, <1>9
<1>12. LogTyped'
  BY <1>1, <1>3, <1>6, <1>8 DEF LogTyped
<1>13. \A g \in DOMAIN logs : \A i \in DOMAIN logs[g] : logs[g][i].id # id
  BY <1>1, <1>4 DEF LogInv, NumbersUsedOnce, id
<1>14. NumbersUsedOnce'
  <2>1. \A v \in Writers : Busy(v)' => draft'[v].id \in 1..samples /\ draft'[v].id # id
    BY <1>1, <1>4, <1>6 DEF LogInv, NumbersUsedOnce, id
  <2>2. \A u, v \in Writers : u # v /\ Busy(u)' /\ Busy(v)' => draft'[u].id # draft'[v].id
    BY <1>1, <1>6 DEF LogInv, NumbersUsedOnce
  <2>3. ASSUME NEW g \in DOMAIN logs', NEW i \in DOMAIN logs'[g]
        PROVE  /\ logs'[g][i].id \in 1..samples
               /\ \A v \in Writers : Busy(v)' => logs'[g][i].id # draft'[v].id
    <3>1. CASE g = here /\ i = last /\ logs'[g][i] = line
      BY <1>4, <1>5, <2>1, <3>1
    <3>2. CASE g \in DOMAIN logs /\ i \in DOMAIN logs[g] /\ logs'[g][i] = logs[g][i]
      BY <1>1, <1>6, <3>2 DEF LogInv, NumbersUsedOnce
    <3> QED
      BY <1>11, <3>1, <3>2
  <2>4. ASSUME NEW g \in DOMAIN logs', NEW i \in DOMAIN logs'[g],
               NEW h \in DOMAIN logs', NEW j \in DOMAIN logs'[h],
               logs'[g][i].id = logs'[h][j].id
        PROVE  g = h /\ i = j
    <3>1. CASE g = here /\ i = last /\ logs'[g][i] = line
      BY <1>5, <1>11, <1>13, <2>4, <3>1
    <3>2. CASE h = here /\ j = last /\ logs'[h][j] = line
      BY <1>5, <1>11, <1>13, <2>4, <3>2
    <3>3. CASE /\ g \in DOMAIN logs /\ i \in DOMAIN logs[g] /\ logs'[g][i] = logs[g][i]
               /\ h \in DOMAIN logs /\ j \in DOMAIN logs[h] /\ logs'[h][j] = logs[h][j]
      BY <1>1, <2>4, <3>3 DEF LogInv, NumbersUsedOnce
    <3> QED
      BY <1>11, <3>1, <3>2, <3>3
  <2> QED
    BY <1>3, <2>1, <2>2, <2>3, <2>4 DEF NumbersUsedOnce
<1>15. WrittenThere'
  <2> SUFFICES ASSUME NEW n \in written'
               PROVE  \E g \in DOMAIN logs' : \E i \in DOMAIN logs'[g] :
                          logs'[g][i] = [id |-> n, whole |-> TRUE]
      BY DEF WrittenThere
  <2>1. CASE n \in written
    <3>1. PICK g \in DOMAIN logs : \E i \in DOMAIN logs[g] : logs[g][i] = [id |-> n, whole |-> TRUE]
      BY <1>1, <2>1 DEF LogInv, WrittenThere
    <3>2. PICK i \in DOMAIN logs[g] : logs[g][i] = [id |-> n, whole |-> TRUE]
      BY <3>1
    <3>3. /\ g \in DOMAIN logs' /\ i \in DOMAIN logs'[g]
          /\ logs'[g][i] = [id |-> n, whole |-> TRUE]
      BY <1>8, <1>10, <3>2
    <3> QED
      BY <3>3
  <2>2. CASE n \notin written
    <3>1. n = id /\ whole = TRUE
      BY <1>2, <2>2
    <3>2. logs'[here][last] = [id |-> n, whole |-> TRUE]
      BY <1>9, <3>1 DEF line
    <3> QED
      BY <1>4, <1>8, <1>9, <3>2
  <2> QED
    BY <2>1, <2>2
<1> QED
  BY <1>7, <1>12, <1>14, <1>15 DEF MonitorInv, LogInv

\* A new generation is empty, and the old ones keep their names in the model.
LEMMA RotateKeeps ==
    ASSUME MonitorInv, Rotate PROVE MonitorInv'
<1>1. LogInv /\ LogTyped /\ RunInv /\ ReadInv /\ SampleInv
  BY DEF MonitorInv, LogInv
<1>2. logs' = Append(logs, <<>>)
      /\ UNCHANGED <<runSide, sampler, draft, opened, latest, written, samples>>
  BY DEF Rotate
<1>3. RunInv' /\ ReadInv' /\ SampleInv'
  BY <1>1, <1>2 DEF runSide, RunInv, RunTyped, Fits, UnderWay, FirstLaunch, Entry, TotalOf,
                    ReadInv, SampleInv, SoundSample
<1>4. /\ logs' \in Seq(Seq(Fragments)) /\ Len(logs') = Len(logs) + 1
      /\ \A g \in DOMAIN logs : g \in DOMAIN logs' /\ logs'[g] = logs[g]
      /\ \A g \in DOMAIN logs' : g \in DOMAIN logs \/ logs'[g] = <<>>
  <2>1. <<>> \in Seq(Fragments) /\ logs \in Seq(Seq(Fragments))
    BY <1>1 DEF LogTyped
  <2> QED
    BY <1>2, <2>1
<1>5. LogTyped'
  BY <1>1, <1>2, <1>4 DEF LogTyped, Busy
<1>6. \A g \in DOMAIN logs' : \A i \in DOMAIN logs'[g] :
          g \in DOMAIN logs /\ i \in DOMAIN logs[g] /\ logs'[g][i] = logs[g][i]
  BY <1>4
<1>7. NumbersUsedOnce'
  BY <1>1, <1>2, <1>6 DEF LogInv, NumbersUsedOnce, Busy
<1>8. WrittenThere'
  BY <1>1, <1>2, <1>4, ZenonT(30) DEF LogInv, WrittenThere
<1> QED
  BY <1>3, <1>5, <1>7, <1>8 DEF MonitorInv, LogInv

LEMMA MonitorInvInductive == MonitorInv /\ [MonitorNext]_monitorVars => MonitorInv'
<1> SUFFICES ASSUME MonitorInv, [MonitorNext]_monitorVars PROVE MonitorInv'
    OBVIOUS
<1>1. LogInv /\ RunInv /\ ReadInv /\ SampleInv
  BY DEF MonitorInv
<1>2. CASE RunLaunches \/ StageStarts \/ StageEnds \/ StageFails \/ RunEnds \/ RunKilled
  <2>1. UNCHANGED <<sampler, draft, opened, latest, logs, written, samples>>
    BY <1>2 DEF RunLaunches, StageStarts, StageEnds, StageFails, RunEnds, RunKilled, Files
  <2>2. RunInv' /\ (ReadInv => ReadInv')
    BY <1>1, <1>2, LaunchesKeep, StageStartsKeep, StageEndsKeep, StageFailsKeep, RunStopsKeep
  <2> QED
    BY <1>1, <2>1, <2>2, RunLeavesFiles DEF MonitorInv
<1>3. CASE \E w \in Writers : \/ Discover(w) \/ ReadState(w) \/ ReadDecisions(w)
                              \/ ReadSummary(w) \/ WriteLatest(w) \/ OpenLog(w)
                              \/ AppendLine(w) \/ WriterKilled(w)
  BY <1>3, DiscoverKeeps, ReadsKeep, OpenKeeps, AppendKeeps, KilledKeeps
<1>4. CASE Rotate
  BY <1>4, RotateKeeps
<1>5. CASE UNCHANGED monitorVars
  BY <1>5 DEF monitorVars, MonitorInv, LogInv, LogTyped, NumbersUsedOnce, WrittenThere, Busy,
              RunInv, RunTyped, Fits, UnderWay, FirstLaunch, Entry, TotalOf, ReadInv,
              SampleInv, SoundSample
<1> QED
  BY <1>2, <1>3, <1>4, <1>5 DEF MonitorNext

LEMMA MonitorInvInit == MonitorInit => MonitorInv
<1> SUFFICES ASSUME MonitorInit PROVE MonitorInv
    OBVIOUS
<1>1. LogInv
  <2>1. /\ sampler \in [Writers -> SamplerSteps] /\ opened \in [Writers -> Nat]
        /\ DOMAIN draft = Writers /\ samples = 0 /\ written = {}
        /\ \A w \in Writers : sampler[w] = "idle"
    BY DEF MonitorInit, SamplerSteps
  <2>2. /\ logs \in Seq(Seq(Fragments)) /\ Len(logs) = 1
        /\ \A g \in DOMAIN logs : logs[g] = <<>>
    <3>1. <<>> \in Seq(Fragments)
      OBVIOUS
    <3> QED
      BY <3>1 DEF MonitorInit
  <2> QED
    BY <2>1, <2>2 DEF LogInv, LogTyped, NumbersUsedOnce, WrittenThere, Busy
<1>2. RunInv
  <2>1. Fits(state)
    BY DEF MonitorInit, Fits, Default, NotStarted, Entries
  <2>2. RunTyped /\ UnderWay /\ FirstLaunch
    BY DEF MonitorInit, RunTyped, UnderWay, FirstLaunch, Default, NotStarted
  <2> QED
    BY <2>1, <2>2 DEF RunInv
<1>3. ReadInv /\ SampleInv
  BY DEF MonitorInit, ReadInv, SampleInv
<1> QED
  BY <1>1, <1>2, <1>3 DEF MonitorInv

LEMMA MonitorInvTells == MonitorInv => MonitorTellsTruth
<1> SUFFICES ASSUME MonitorInv PROVE MonitorTellsTruth
    OBVIOUS
<1>1. CompletedWithinSelected
  BY DEF MonitorInv, SampleInv, SoundSample, CompletedWithinSelected
<1>2. SamplesContained
  <2> SUFFICES ASSUME NEW n \in written
               PROVE  \E g \in DOMAIN logs : \E i \in DOMAIN logs[g] :
                        /\ logs[g][i] = [id |-> n, whole |-> TRUE]
                        /\ \A h \in DOMAIN logs : \A j \in DOMAIN logs[h] :
                               logs[h][j].id = n => h = g /\ j = i
      BY DEF SamplesContained
  <2>1. PICK g \in DOMAIN logs : \E i \in DOMAIN logs[g] : logs[g][i] = [id |-> n, whole |-> TRUE]
    BY DEF MonitorInv, LogInv, WrittenThere
  <2>2. PICK i \in DOMAIN logs[g] : logs[g][i] = [id |-> n, whole |-> TRUE]
    BY <2>1
  <2>3. \A h \in DOMAIN logs : \A j \in DOMAIN logs[h] : logs[h][j].id = n => h = g /\ j = i
    BY <2>2 DEF MonitorInv, LogInv, NumbersUsedOnce
  <2> QED
    BY <2>2, <2>3
<1> QED
  BY <1>1, <1>2 DEF MonitorTellsTruth

\* Whatever the numbers of launches, samples, short writes, kills and rotations:
\* latest.json never counts more rows than it says are selected in a run that
\* was launched once, and every sample whose line went to disk whole stays in
\* one generation of samples.jsonl, once.
THEOREM MonitorIsTruthful == MonitorSpec => []MonitorTellsTruth
<1>1. MonitorInit => MonitorInv
  BY MonitorInvInit
<1>2. MonitorInv /\ [MonitorNext]_monitorVars => MonitorInv'
  BY MonitorInvInductive
<1>3. MonitorInv => MonitorTellsTruth
  BY MonitorInvTells
<1> QED
  BY <1>1, <1>2, <1>3, PTL DEF MonitorSpec

-----------------------------------------------------------------------------
(* The locking of the inputs                                               *)
\* The steps that come after each file was written or fetched.
AfterReport    == {"done"}
AfterInventory == {"report"} \cup AfterReport
AfterPairs     == {"inventory"} \cup AfterInventory
AfterMetadata  == {"pairs"} \cup AfterPairs
AfterSecret    == {"metadata"} \cup AfterMetadata
AfterDownload  == {"secret"} \cup AfterSecret
AfterQuery     == {"download"} \cup AfterDownload
AfterCover     == {"query"} \cup AfterQuery
AfterLock      == {"checksums", "snapshot", "fetch_cover"} \cup AfterCover
AfterStart     == {"lock"} \cup AfterLock

Past(steps) == program # Absent /\ program.step \in steps

Typed ==
    /\ today \in Nat
    /\ DOMAIN upstream = {"cksum", "image", "rights", "layout"}
    /\ DOMAIN disk = Paths
    /\ disk["lock"] \in {Absent, Damaged} \cup [date : Nat]
    /\ program # Absent =>
          /\ program \in [mode : Modes, asked : {Absent, 2}, step : Steps]
          /\ program.step \in {"start"} \cup AfterStart
          /\ result = "none"
    /\ Past(AfterStart) => date \in Nat

\* What the running program has behind it is on the disk as it wrote it, or as
\* it found and accepted it.
WrittenInPlace ==
    /\ Past(AfterLock) => disk["lock"] = [date |-> date]
    /\ Past(AfterCover) => disk["cover"] = "pinned"
    /\ Past(AfterSecret) => disk["secret"] = bytes
    /\ Past(AfterMetadata) =>
          disk["metadata"].image = page.image /\ disk["metadata"].sha = disk["secret"]
    /\ Past(AfterPairs) => disk["pairs"] = [cover |-> disk["cover"], secret |-> disk["secret"]]
    /\ Past(AfterInventory) =>
          disk["inventory"] = [date |-> date, cover |-> disk["cover"], secret |-> disk["secret"],
                               image |-> page.image, rights |-> page.rights]
    /\ Past(AfterReport) =>
          disk["report"] = [date |-> date, pairs |-> disk["pairs"], inventory |-> disk["inventory"]]

-----------------------------------------------------------------------------
(* Files that no drift explains                                            *)

Calm == upstream.image = "first" /\ upstream.rights = 0

\* While the sources are as they were, the program downloads what they were.
Downloads ==
    Calm => /\ Past(AfterQuery) => page.image = "first" /\ page.rights = 0
            /\ Past(AfterDownload) => bytes = "first"

File(p) == disk[p] \notin {Absent, Damaged}
FirstPairs == [cover |-> "pinned", secret |-> "first"]
FirstInventory(d) == [date |-> d, cover |-> "pinned", secret |-> "first",
                      image |-> "first", rights |-> 0]

\* The readable files are those of one run that was locked on day d.
OfDay(d) ==
    /\ File("lock") => disk["lock"] = [date |-> d]
    /\ File("cover") => disk["cover"] = "pinned"
    /\ File("secret") => disk["secret"] = "first"
    /\ File("metadata") => disk["metadata"].image = "first" /\ disk["metadata"].sha = "first"
    /\ File("pairs") => disk["pairs"] = FirstPairs
    /\ File("inventory") => disk["inventory"] = FirstInventory(d)
    /\ File("report") =>
          disk["report"] = [date |-> d, pairs |-> FirstPairs, inventory |-> FirstInventory(d)]

Overwriting == program # Absent /\ program.mode = "overwrite" /\ program.step # "start"

\* No broken-off overwrite, none under way, and no drift: the lock comes first,
\* and all files are of its day.
Unmixed ==
    (Calm /\ ~ halfway /\ ~ Overwriting) =>
        /\ \E d \in Nat : OfDay(d)
        /\ disk["lock"] = Absent => \A p \in Paths : disk[p] = Absent

\* A program that goes on with them has settled on that day: --resume reads it
\* in the lock, another mode passes the lock only when there was none.
SettlesOnDay ==
    (/\ Calm /\ ~ halfway /\ ~ Overwriting /\ Past(AfterStart)
     /\ program.mode = "resume" \/ Past(AfterLock)) => OfDay(date)

LockInv == Typed /\ WrittenInPlace /\ Downloads /\ Unmixed /\ SettlesOnDay

LEMMA LockStarts == LockInit => LockInv
<1>. SUFFICES ASSUME LockInit PROVE LockInv
  OBVIOUS
<1>1. Typed /\ WrittenInPlace /\ Downloads /\ SettlesOnDay
  BY DEF LockInit, Typed, WrittenInPlace, Downloads, SettlesOnDay, Past, Paths
<1>2. OfDay(1) /\ \A p \in Paths : disk[p] = Absent
  BY DEF LockInit, OfDay, File, Paths
<1>. QED
  BY <1>1, <1>2 DEF LockInv, Unmixed

-----------------------------------------------------------------------------
(* The surroundings                                                        *)

LEMMA DaysKeep == ASSUME LockInv, NextDay PROVE LockInv'
<1>. USE DEF NextDay, OwnVars
<1>1. Typed'
  BY DEF LockInv, Typed, Past
<1>2. WrittenInPlace' /\ Downloads'
  BY DEF LockInv, WrittenInPlace, Downloads, Calm, Past
<1>3. Unmixed' /\ SettlesOnDay'
  BY DEF LockInv, Unmixed, SettlesOnDay, Calm, Past, Overwriting, OfDay, File
<1>. QED
  BY <1>1, <1>2, <1>3 DEF LockInv

\* Sources that have changed never change back.
LEMMA ChangesKeep == ASSUME LockInv, UpstreamChanges PROVE LockInv'
<1>. USE DEF OwnVars
<1>1. /\ UNCHANGED <<today, disk, program, date, page, bytes, result, halfway>>
      /\ DOMAIN upstream' = DOMAIN upstream /\ (Calm' => Calm)
  BY DEF UpstreamChanges, Calm, LockInv, Typed
<1>2. Typed'
  BY <1>1 DEF LockInv, Typed, Past
<1>3. WrittenInPlace' /\ Downloads'
  BY <1>1 DEF LockInv, WrittenInPlace, Downloads, Past
<1>4. Unmixed' /\ SettlesOnDay'
  BY <1>1 DEF LockInv, Unmixed, SettlesOnDay, Past, Overwriting, OfDay, File
<1>. QED
  BY <1>2, <1>3, <1>4 DEF LockInv

LEMMA DamageKeeps == ASSUME LockInv, NEW p \in Paths, Damage(p) PROVE LockInv'
<1>1. /\ program = Absent /\ program' = Absent /\ File(p)
      /\ UNCHANGED <<upstream, today, date, page, bytes, result, halfway>>
  BY DEF Damage, File
<1>2. PICK e : /\ disk' = [disk EXCEPT ![p] = e]
               /\ p \notin {"snapshot", "metadata"} => e = Damaged
               /\ p = "metadata" /\ e # Damaged =>
                      e.image = disk[p].image /\ e.sha = disk[p].sha
  <2>1. CASE disk' = [disk EXCEPT ![p] = Damaged]
    BY <2>1
  <2>2. CASE p \in {"snapshot", "metadata"} /\ disk' = [disk EXCEPT ![p] = Retouched(p)]
    <3>1. p = "metadata" =>
             Retouched(p).image = disk[p].image /\ Retouched(p).sha = disk[p].sha
      BY DEF Retouched
    <3>. QED
      BY <2>2, <3>1
  <2>. QED
    BY <2>1, <2>2 DEF Damage
<1>3. DOMAIN disk = Paths /\ "lock" \in Paths
  BY DEF LockInv, Typed, Paths
<1>4. Typed'
  BY <1>1, <1>2, <1>3 DEF LockInv, Typed, Past
<1>5. WrittenInPlace' /\ Downloads' /\ SettlesOnDay'
  BY <1>1 DEF WrittenInPlace, Downloads, SettlesOnDay, Past
<1>6. ASSUME NEW d \in Nat, OfDay(d) PROVE OfDay(d)'
  BY <1>1, <1>2, <1>3, <1>6 DEF OfDay, File
<1>7. Unmixed'
  <2>1. Calm' = Calm /\ ~ Overwriting /\ ~ Overwriting'
    BY <1>1 DEF Calm, Overwriting
  <2>2. disk'["lock"] = Absent => disk["lock"] = Absent
    BY <1>2, <1>3, AbsentAssumption
  <2>3. ~ (Calm /\ ~ halfway /\ disk["lock"] = Absent)
    BY <1>1, <2>1 DEF LockInv, Unmixed, File
  <2>. QED
    BY <1>1, <1>6, <2>1, <2>2, <2>3 DEF LockInv, Unmixed
<1>. QED
  BY <1>4, <1>5, <1>7 DEF LockInv

-----------------------------------------------------------------------------
(* The program                                                             *)

\* A run that is through with all files has left those of its day.
LEMMA DoneIsOfDay ==
    ASSUME LockInv, Past({"done"}), Calm
    PROVE  OfDay(date) /\ disk["lock"] # Absent
<1>. USE DEF Past, AfterReport, AfterInventory, AfterPairs, AfterMetadata, AfterSecret,
         AfterDownload, AfterQuery, AfterCover, AfterLock, AfterStart
<1>1. /\ disk["lock"] = [date |-> date] /\ date \in Nat
      /\ disk["cover"] = "pinned" /\ disk["secret"] = "first"
      /\ disk["metadata"].image = "first" /\ disk["metadata"].sha = "first"
  BY DEF LockInv, Typed, WrittenInPlace, Downloads
<1>2. disk["pairs"] = FirstPairs /\ disk["inventory"] = FirstInventory(date)
  BY <1>1 DEF LockInv, WrittenInPlace, Downloads, FirstPairs, FirstInventory
<1>3. disk["report"] = [date |-> date, pairs |-> FirstPairs, inventory |-> FirstInventory(date)]
  BY <1>2 DEF LockInv, WrittenInPlace
<1>. QED
  BY <1>1, <1>2, <1>3, AbsentAssumption DEF OfDay

LEMMA EndKeeps ==
    ASSUME LockInv, program # Absent, NEW reason, End(reason),
           reason = "locked" => program.step = "done",
           UNCHANGED <<upstream, today, disk>>
    PROVE  LockInv'
<1>1. program' = Absent
  BY DEF End
<1>2. Typed'
  BY <1>1 DEF LockInv, Typed, Past
<1>3. WrittenInPlace' /\ Downloads' /\ SettlesOnDay'
  BY <1>1 DEF WrittenInPlace, Downloads, SettlesOnDay, Past
<1>4. Calm' = Calm /\ \A d : OfDay(d)' = OfDay(d)
  BY DEF Calm, OfDay, File
<1>5. Unmixed'
  <2>1. CASE Overwriting
    <3>1. halfway' = (reason # "locked")
      BY <2>1 DEF End, Overwriting
    <3>2. Calm /\ ~ halfway' => date \in Nat /\ OfDay(date) /\ disk["lock"] # Absent
      BY <3>1, DoneIsOfDay DEF Past, LockInv, Typed, AfterReport, AfterInventory, AfterPairs,
         AfterMetadata, AfterSecret, AfterDownload, AfterQuery, AfterCover, AfterLock, AfterStart
    <3>. QED
      BY <1>4, <3>2 DEF Unmixed
  <2>2. CASE ~ Overwriting
    <3>1. halfway' = halfway
      BY <2>2 DEF End, Overwriting
    <3>. QED
      BY <1>4, <2>2, <3>1 DEF LockInv, Unmixed
  <2>. QED
    BY <2>1, <2>2
<1>. QED
  BY <1>2, <1>3, <1>5 DEF LockInv

LEMMA GoesOn ==
    ASSUME LockInv, program # Absent, NEW next \in Steps,
           program' = [program EXCEPT !.step = next]
    PROVE  /\ program' # Absent
           /\ program' \in [mode : Modes, asked : {Absent, 2}, step : Steps]
           /\ program'.step = next /\ program'.mode = program.mode /\ program'.asked = program.asked
<1>1. program \in [mode : Modes, asked : {Absent, 2}, step : Steps]
  BY DEF LockInv, Typed
<1>. QED
  BY <1>1, AbsentAssumption

\* A step behind the lock keeps everything if it keeps the files of the day.
LEMMA StepKeeps ==
    ASSUME LockInv, Past(AfterStart), NEW next \in AfterLock,
           program' = [program EXCEPT !.step = next],
           UNCHANGED <<upstream, today, result, halfway, date>>, DOMAIN disk' = Paths,
           WrittenInPlace', Downloads',
           (Calm /\ ~ halfway /\ ~ Overwriting) => OfDay(date)'
    PROVE  LockInv'
<1>1. next \in Steps /\ next \in AfterStart /\ next # "start"
  BY DEF Steps, AfterReport, AfterInventory, AfterPairs, AfterMetadata, AfterSecret, AfterDownload,
     AfterQuery, AfterCover, AfterLock, AfterStart
<1>2. /\ program # Absent /\ program' # Absent
      /\ program' \in [mode : Modes, asked : {Absent, 2}, step : Steps]
      /\ program'.step = next /\ program'.mode = program.mode
  BY <1>1, GoesOn DEF Past
<1>3. program.step # "start" /\ date \in Nat
  BY DEF Past, LockInv, Typed, AfterReport, AfterInventory, AfterPairs, AfterMetadata, AfterSecret,
     AfterDownload, AfterQuery, AfterCover, AfterLock, AfterStart
<1>4. disk'["lock"] = [date |-> date] /\ disk'["lock"] \in [date : Nat] /\ disk'["lock"] # Absent
  BY <1>2, <1>3, AbsentAssumption DEF WrittenInPlace, Past
<1>5. Typed'
  BY <1>1, <1>2, <1>3, <1>4 DEF LockInv, Typed
<1>6. Calm' = Calm /\ Overwriting' = Overwriting
  BY <1>1, <1>2, <1>3 DEF Calm, Overwriting
<1>7. Unmixed' /\ SettlesOnDay'
  BY <1>3, <1>4, <1>6 DEF Unmixed, SettlesOnDay
<1>. QED
  BY <1>5, <1>7 DEF LockInv

LEMMA StartKeeps ==
    ASSUME LockInv, NEW mode \in Modes, NEW asked \in {Absent, 2}, StartProgram(mode, asked)
    PROVE  LockInv'
<1>1. /\ program = Absent /\ program' = [mode |-> mode, asked |-> asked, step |-> "start"]
      /\ result' = "none"
      /\ UNCHANGED <<upstream, today, events, disk, date, page, bytes, halfway>>
  BY DEF StartProgram, sourceVars
<1>2. program'.step = "start"
  BY <1>1
<1>3. Typed'
  BY <1>1, <1>2 DEF LockInv, Typed, Past, Steps, AfterReport, AfterInventory, AfterPairs,
     AfterMetadata, AfterSecret, AfterDownload, AfterQuery, AfterCover, AfterLock, AfterStart
<1>4. WrittenInPlace' /\ Downloads' /\ SettlesOnDay'
  BY <1>2 DEF WrittenInPlace, Downloads, SettlesOnDay, Past, AfterReport, AfterInventory,
     AfterPairs, AfterMetadata, AfterSecret, AfterDownload, AfterQuery, AfterCover, AfterLock, AfterStart
<1>5. Unmixed'
  BY <1>1, <1>2 DEF LockInv, Unmixed, Calm, Overwriting, OfDay, File
<1>. QED
  BY <1>3, <1>4, <1>5 DEF LockInv

\* The date is one, and that of the files where there are any.
LEMMA DateFound ==
    ASSUME LockInv, program # Absent, AccessDate # Damaged
    PROVE  /\ AccessDate \in Nat
           /\ (program.mode = "resume" /\ disk["lock"] # Absent) =>
                 disk["lock"] # Damaged /\ disk["lock"] = [date |-> AccessDate]
<1>1. /\ program.asked \in {Absent, 2} /\ today \in Nat
      /\ disk["lock"] \in {Absent, Damaged} \cup [date : Nat]
  BY DEF LockInv, Typed
<1>2. CASE program.mode # "resume" \/ disk["lock"] = Absent
  BY <1>1, <1>2 DEF AccessDate
<1>3. CASE program.mode = "resume" /\ disk["lock"] # Absent
  <2>1. disk["lock"] # Damaged
    BY <1>3 DEF AccessDate
  <2>2. AccessDate = disk["lock"].date
    BY <1>3, <2>1 DEF AccessDate
  <2>3. disk["lock"] \in [date : Nat]
    BY <1>1, <1>3, <2>1
  <2>4. disk["lock"] = [date |-> disk["lock"].date] /\ disk["lock"].date \in Nat
    BY <2>3
  <2>. QED
    BY <2>1, <2>2, <2>4
<1>. QED
  BY <1>2, <1>3

LEMMA ResolveKeeps == ASSUME LockInv, Resolve PROVE LockInv'
<1>. USE DEF At_, sourceVars
<1>1. program # Absent /\ program.step = "start"
  BY DEF Resolve
<1>2. CASE End("conflict")
  BY <1>1, <1>2, EndKeeps DEF Resolve
<1>3. CASE AccessDate # Damaged
  <2>1. /\ date' = AccessDate /\ program' = [program EXCEPT !.step = "lock"]
        /\ UNCHANGED <<upstream, today, disk, page, bytes, result, halfway>>
    BY <1>3 DEF Resolve, Continue
  <2>2. /\ program' # Absent
        /\ program' \in [mode : Modes, asked : {Absent, 2}, step : Steps]
        /\ program'.step = "lock" /\ program'.mode = program.mode
    BY <1>1, <2>1, GoesOn DEF Steps
  <2>3. "lock" \in AfterStart /\ "lock" \notin AfterLock
    BY DEF AfterReport, AfterInventory, AfterPairs, AfterMetadata, AfterSecret, AfterDownload,
       AfterQuery, AfterCover, AfterLock, AfterStart
  <2>4. Typed'
    BY <1>1, <1>3, <2>1, <2>2, <2>3, DateFound DEF LockInv, Typed, Past
  <2>5. WrittenInPlace' /\ Downloads'
    BY <2>2 DEF WrittenInPlace, Downloads, Past, AfterReport, AfterInventory, AfterPairs,
       AfterMetadata, AfterSecret, AfterDownload, AfterQuery, AfterCover, AfterLock
  <2>6. Calm' = Calm /\ ~ Overwriting /\ \A d : OfDay(d)' = OfDay(d)
    BY <1>1, <2>1 DEF Calm, Overwriting, OfDay, File
  <2>7. Unmixed'
    BY <2>1, <2>6 DEF LockInv, Unmixed
  <2>8. ASSUME Calm, ~ halfway, program.mode = "resume" PROVE OfDay(AccessDate)
    <3>1. PICK d \in Nat : OfDay(d)
      BY <2>6, <2>8 DEF LockInv, Unmixed
    <3>2. CASE disk["lock"] = Absent
      BY <2>6, <2>8, <3>2 DEF LockInv, Unmixed, OfDay, File, Paths
    <3>3. CASE disk["lock"] # Absent
      <4>1. disk["lock"] = [date |-> AccessDate] /\ disk["lock"] = [date |-> d]
        BY <1>1, <1>3, <2>8, <3>1, <3>3, DateFound DEF OfDay, File
      <4>2. d = AccessDate
        <5>1. [date |-> AccessDate].date = [date |-> d].date
          BY <4>1
        <5>. QED
          BY <5>1
      <4>. QED
        BY <3>1, <4>2
    <3>. QED
      BY <3>2, <3>3
  <2>9. SettlesOnDay'
    <3>1. ~ Past(AfterLock)'
      BY <2>2, <2>3 DEF Past
    <3>2. OfDay(date)' = OfDay(AccessDate)
      BY <2>1 DEF OfDay, File, FirstInventory
    <3>. QED
      BY <2>1, <2>2, <2>6, <2>8, <3>1, <3>2 DEF SettlesOnDay
  <2>. QED
    BY <2>4, <2>5, <2>7, <2>9 DEF LockInv
<1>. QED
  BY <1>2, <1>3 DEF Resolve

-----------------------------------------------------------------------------
(* Its files                                                               *)

Took(p, content) ==
    \/ disk' = [disk EXCEPT ![p] = content]
    \/ UNCHANGED disk /\ Accepts(p, disk[p], content)

GoesTo(next) ==
    /\ program # Absent /\ program' # Absent
    /\ program' = [program EXCEPT !.step = next]
    /\ program'.step = next /\ program'.mode = program.mode
    /\ UNCHANGED <<upstream, today, result, halfway, date, page, bytes>>

\* A file is written, or there already and accepted, or the run ends.
LEMMA WriteOutcome ==
    ASSUME LockInv, program # Absent, NEW p, NEW content, NEW next \in Steps,
           WriteLocked(p, content, next), Keeping(<<date, page, bytes>>), UNCHANGED <<upstream, today>>
    PROVE  \/ UNCHANGED disk /\ \E reason : reason # "locked" /\ End(reason)
           \/ /\ GoesTo(next) /\ Took(p, content)
              /\ \/ disk' = [disk EXCEPT ![p] = content]
                    /\ (disk[p] = Absent \/ program.mode = "overwrite")
                 \/ UNCHANGED disk /\ program.mode = "resume"
<1>1. CASE \E reason : reason # "locked" /\ End(reason) /\ UNCHANGED disk
  BY <1>1
<1>2. CASE Continue(next) /\ Took(p, content)
           /\ \/ disk' = [disk EXCEPT ![p] = content]
                 /\ (disk[p] = Absent \/ program.mode = "overwrite")
              \/ UNCHANGED disk /\ program.mode = "resume"
  <2>1. program' = [program EXCEPT !.step = next] /\ UNCHANGED <<result, halfway>>
    BY <1>2 DEF Continue
  <2>2. program' # Absent /\ program'.step = next /\ program'.mode = program.mode
    BY <2>1, GoesOn
  <2>. QED
    BY <1>2, <2>1, <2>2 DEF GoesTo, Keeping
<1>. QED
  BY <1>1, <1>2 DEF WriteLocked, Took

LEMMA WriteKeeps ==
    ASSUME LockInv, NEW at \in AfterLock, At_(at), NEW p \in Paths, NEW content,
           NEW next \in AfterLock,
           WriteLocked(p, content, next), Keeping(<<date, page, bytes>>), UNCHANGED <<upstream, today>>,
           next \in AfterQuery => at \in AfterQuery, next \in AfterDownload => at \in AfterDownload,
           GoesTo(next) /\ Took(p, content) => WrittenInPlace',
           GoesTo(next) /\ Took(p, content) /\ Calm /\ OfDay(date) => OfDay(date)'
    PROVE  LockInv'
<1>1. /\ program # Absent /\ program.step = at /\ next \in Steps
      /\ Past(AfterLock) /\ Past(AfterStart)
  BY DEF At_, Past, Steps, AfterReport, AfterInventory, AfterPairs, AfterMetadata, AfterSecret,
     AfterDownload, AfterQuery, AfterCover, AfterLock, AfterStart
<1>2. CASE UNCHANGED disk /\ \E reason : reason # "locked" /\ End(reason)
  BY <1>1, <1>2, EndKeeps
<1>3. CASE GoesTo(next) /\ Took(p, content)
  <2>1. Downloads'
    BY <1>1, <1>3 DEF GoesTo, LockInv, Downloads, Calm, Past
  <2>2. (Calm /\ ~ halfway /\ ~ Overwriting) => OfDay(date)
    BY <1>1 DEF LockInv, SettlesOnDay
  <2>3. DOMAIN disk' = Paths
    BY <1>3 DEF Took, LockInv, Typed
  <2>4. (Calm /\ ~ halfway /\ ~ Overwriting) => OfDay(date)'
    BY <1>3, <2>2
  <2>. QED
    BY <1>1, <1>3, <2>1, <2>3, <2>4, StepKeeps DEF GoesTo
<1>. QED
  BY <1>1, <1>2, <1>3, WriteOutcome

LEMMA WriteLockKeeps == ASSUME LockInv, WriteLock PROVE LockInv'
<1>1. /\ program # Absent /\ program.step = "lock" /\ Past(AfterStart)
      /\ "checksums" \in AfterLock /\ "checksums" \in Steps /\ "lock" \in Paths
  BY DEF WriteLock, At_, Past, Steps, Paths, AfterReport, AfterInventory, AfterPairs, AfterMetadata,
     AfterSecret, AfterDownload, AfterQuery, AfterCover, AfterLock, AfterStart
<1>2. CASE UNCHANGED <<upstream, today, disk>> /\ \E reason : reason # "locked" /\ End(reason)
  BY <1>1, <1>2, EndKeeps
<1>3. CASE /\ GoesTo("checksums") /\ Took("lock", [date |-> date])
           /\ \/ disk' = [disk EXCEPT !["lock"] = [date |-> date]]
                 /\ (disk["lock"] = Absent \/ program.mode = "overwrite")
              \/ UNCHANGED disk /\ program.mode = "resume"
  <2>1. DOMAIN disk = Paths /\ DOMAIN disk' = Paths
    BY <1>3 DEF Took, LockInv, Typed
  <2>2. disk'["lock"] = [date |-> date]
    BY <1>1, <1>3, <2>1 DEF Took, Accepts
  <2>3. WrittenInPlace' /\ Downloads'
    BY <1>3, <2>2 DEF GoesTo, WrittenInPlace, Downloads, Past, AfterReport, AfterInventory, AfterPairs,
       AfterMetadata, AfterSecret, AfterDownload, AfterQuery, AfterCover
  <2>4. ASSUME Calm, ~ halfway, ~ Overwriting PROVE OfDay(date)'
    <3>1. CASE program.mode = "resume" /\ UNCHANGED disk
      BY <1>1, <1>3, <2>4, <3>1 DEF LockInv, SettlesOnDay, OfDay, File, GoesTo, FirstInventory
    <3>2. CASE disk["lock"] = Absent /\ disk' = [disk EXCEPT !["lock"] = [date |-> date]]
      <4>1. \A p \in Paths : p # "lock" => disk'[p] = Absent
        BY <2>1, <2>4, <3>2 DEF LockInv, Unmixed
      <4>. QED
        BY <1>3, <2>2, <4>1 DEF OfDay, File, Paths, GoesTo
    <3>3. program.mode # "overwrite"
      BY <1>1, <2>4 DEF Overwriting
    <3>. QED
      BY <1>3, <3>1, <3>2, <3>3
  <2>. QED
    BY <1>1, <1>3, <2>1, <2>3, <2>4, StepKeeps DEF GoesTo
<1>4. WriteLocked("lock", [date |-> date], "checksums") /\ Keeping(<<date, page, bytes>>)
      /\ UNCHANGED <<upstream, today>>
  BY DEF WriteLock, sourceVars
<1>. QED
  BY <1>1, <1>2, <1>3, <1>4, WriteOutcome

\* Steps that only fetch something.
LEMMA FetchKeeps ==
    ASSUME LockInv, FetchChecksums \/ QueryPage \/ DownloadSecret
    PROVE  LockInv'
<1>. USE DEF Past, AfterReport, AfterInventory, AfterPairs, AfterMetadata,
         AfterSecret, AfterDownload, AfterQuery, AfterCover, AfterLock, AfterStart
<1>1. /\ program # Absent /\ program.step \in {"checksums", "query", "download"}
      /\ UNCHANGED <<upstream, today, disk>>
  BY DEF FetchChecksums, QueryPage, DownloadSecret, At_, sourceVars
<1>2. CASE \E reason : reason # "locked" /\ End(reason)
  BY <1>1, <1>2, EndKeeps
<1>3. CASE \E next \in {"snapshot", "download", "secret"} :
              /\ program' = [program EXCEPT !.step = next] /\ UNCHANGED <<result, halfway, date>>
              /\ next = "download" => page'.image = upstream.image /\ page'.rights = upstream.rights
              /\ next = "secret" => bytes' = upstream.image
              /\ next # "download" => UNCHANGED page
              /\ next = "secret" => program.step = "download"
              /\ next = "download" => program.step = "query"
  <2>1. PICK next \in {"snapshot", "download", "secret"} :
              /\ program' = [program EXCEPT !.step = next] /\ UNCHANGED <<result, halfway, date>>
              /\ next = "download" => page'.image = upstream.image /\ page'.rights = upstream.rights
              /\ next = "secret" => bytes' = upstream.image
              /\ next # "download" => UNCHANGED page
              /\ next = "secret" => program.step = "download"
              /\ next = "download" => program.step = "query"
    BY <1>3
  <2>2. program' # Absent /\ program'.step = next /\ next \in AfterLock /\ DOMAIN disk' = Paths
    BY <1>1, <2>1, GoesOn DEF Steps, LockInv, Typed
  <2>3. WrittenInPlace'
    BY <1>1, <2>1, <2>2 DEF LockInv, WrittenInPlace
  <2>4. Downloads'
    BY <1>1, <2>1, <2>2 DEF LockInv, Downloads, Calm
  <2>5. (Calm /\ ~ halfway /\ ~ Overwriting) => OfDay(date)'
    BY <1>1, <2>1 DEF LockInv, SettlesOnDay, OfDay, File, FirstInventory
  <2>. QED
    BY <1>1, <2>1, <2>2, <2>3, <2>4, <2>5, StepKeeps
<1>. QED
  BY <1>2, <1>3 DEF FetchChecksums, QueryPage, DownloadSecret, At_, Unreachable, Continue

LEMMA SnapshotKeeps == ASSUME LockInv, WriteSnapshot PROVE LockInv'
<1>. USE DEF Past, Paths, AfterReport, AfterInventory, AfterPairs, AfterMetadata, AfterSecret,
         AfterDownload, AfterQuery, AfterCover, AfterLock, AfterStart
<1>. DEFINE content == [date |-> date, layout |-> upstream.layout]
<1>1. At_("snapshot") /\ WriteLocked("snapshot", content, "fetch_cover")
      /\ Keeping(<<date, page, bytes>>) /\ UNCHANGED <<upstream, today>>
  BY DEF WriteSnapshot, sourceVars
<1>2. DOMAIN disk = Paths
  BY DEF LockInv, Typed
<1>. HIDE DEF content
<1>3. ASSUME GoesTo("fetch_cover"), Took("snapshot", content) PROVE WrittenInPlace'
  BY <1>1, <1>2, <1>3 DEF LockInv, WrittenInPlace, Took, Accepts, GoesTo, At_, content
<1>4. ASSUME GoesTo("fetch_cover"), Took("snapshot", content), Calm, OfDay(date) PROVE OfDay(date)'
  BY <1>1, <1>2, <1>4 DEF LockInv, WrittenInPlace, Downloads, Took, Accepts, GoesTo, At_, content,
     OfDay, File, FirstPairs, FirstInventory
<1>5. /\ "snapshot" \in AfterLock /\ "fetch_cover" \in AfterLock /\ "snapshot" \in Paths
      /\ "fetch_cover" \notin AfterQuery /\ "fetch_cover" \notin AfterDownload
  OBVIOUS
<1>. HIDE DEF Paths, AfterLock, AfterQuery, AfterDownload
<1>. QED
  BY <1>1, <1>3, <1>4, <1>5, WriteKeeps

LEMMA SecretKeeps == ASSUME LockInv, WriteSecret PROVE LockInv'
<1>. USE DEF Past, Paths, AfterReport, AfterInventory, AfterPairs, AfterMetadata, AfterSecret,
         AfterDownload, AfterQuery, AfterCover, AfterLock, AfterStart
<1>. DEFINE content == bytes
<1>1. At_("secret") /\ WriteLocked("secret", content, "metadata")
      /\ Keeping(<<date, page, bytes>>) /\ UNCHANGED <<upstream, today>>
  BY DEF WriteSecret, sourceVars
<1>2. DOMAIN disk = Paths
  BY DEF LockInv, Typed
<1>. HIDE DEF content
<1>3. ASSUME GoesTo("metadata"), Took("secret", content) PROVE WrittenInPlace'
  BY <1>1, <1>2, <1>3 DEF LockInv, WrittenInPlace, Took, Accepts, GoesTo, At_, content
<1>4. ASSUME GoesTo("metadata"), Took("secret", content), Calm, OfDay(date) PROVE OfDay(date)'
  BY <1>1, <1>2, <1>4 DEF LockInv, WrittenInPlace, Downloads, Took, Accepts, GoesTo, At_, content,
     OfDay, File, FirstPairs, FirstInventory
<1>. QED
  BY <1>1, <1>3, <1>4, WriteKeeps

LEMMA MetadataKeeps == ASSUME LockInv, WriteMetadata PROVE LockInv'
<1>. USE DEF Past, Paths, AfterReport, AfterInventory, AfterPairs, AfterMetadata, AfterSecret,
         AfterDownload, AfterQuery, AfterCover, AfterLock, AfterStart
<1>. DEFINE content == [image |-> page.image, rights |-> page.rights,
                        layout |-> page.layout, date |-> date, sha |-> disk["secret"]]
<1>1. At_("metadata") /\ WriteLocked("metadata", content, "pairs")
      /\ Keeping(<<date, page, bytes>>) /\ UNCHANGED <<upstream, today>>
  BY DEF WriteMetadata, sourceVars
<1>2. DOMAIN disk = Paths
  BY DEF LockInv, Typed
<1>. HIDE DEF content
<1>3. ASSUME GoesTo("pairs"), Took("metadata", content) PROVE WrittenInPlace'
  BY <1>1, <1>2, <1>3 DEF LockInv, WrittenInPlace, Took, Accepts, GoesTo, At_, content
<1>4. ASSUME GoesTo("pairs"), Took("metadata", content), Calm, OfDay(date) PROVE OfDay(date)'
  BY <1>1, <1>2, <1>4 DEF LockInv, WrittenInPlace, Downloads, Took, Accepts, GoesTo, At_, content,
     OfDay, File, FirstPairs, FirstInventory
<1>. QED
  BY <1>1, <1>3, <1>4, WriteKeeps, ZenonT(30)

LEMMA PairsKeep == ASSUME LockInv, WritePairs PROVE LockInv'
<1>. USE DEF Past, Paths, AfterReport, AfterInventory, AfterPairs, AfterMetadata, AfterSecret,
         AfterDownload, AfterQuery, AfterCover, AfterLock, AfterStart
<1>. DEFINE content == [cover |-> disk["cover"], secret |-> disk["secret"]]
<1>1. At_("pairs") /\ WriteLocked("pairs", content, "inventory")
      /\ Keeping(<<date, page, bytes>>) /\ UNCHANGED <<upstream, today>>
  BY DEF WritePairs, sourceVars
<1>2. DOMAIN disk = Paths
  BY DEF LockInv, Typed
<1>. HIDE DEF content
<1>3. ASSUME GoesTo("inventory"), Took("pairs", content) PROVE WrittenInPlace'
  BY <1>1, <1>2, <1>3 DEF LockInv, WrittenInPlace, Took, Accepts, GoesTo, At_, content
<1>4. ASSUME GoesTo("inventory"), Took("pairs", content), Calm, OfDay(date) PROVE OfDay(date)'
  BY <1>1, <1>2, <1>4 DEF LockInv, WrittenInPlace, Downloads, Took, Accepts, GoesTo, At_, content,
     OfDay, File, FirstPairs, FirstInventory
<1>. QED
  BY <1>1, <1>3, <1>4, WriteKeeps, ZenonT(30)

LEMMA InventoryKeeps == ASSUME LockInv, WriteInventory PROVE LockInv'
<1>. USE DEF Past, Paths, AfterReport, AfterInventory, AfterPairs, AfterMetadata, AfterSecret,
         AfterDownload, AfterQuery, AfterCover, AfterLock, AfterStart
<1>. DEFINE content == [date |-> date, cover |-> disk["cover"],
                        secret |-> disk["secret"], image |-> page.image, rights |-> page.rights]
<1>1. At_("inventory") /\ WriteLocked("inventory", content, "report")
      /\ Keeping(<<date, page, bytes>>) /\ UNCHANGED <<upstream, today>>
  BY DEF WriteInventory, sourceVars
<1>2. DOMAIN disk = Paths
  BY DEF LockInv, Typed
<1>. HIDE DEF content
<1>3. ASSUME GoesTo("report"), Took("inventory", content) PROVE WrittenInPlace'
  BY <1>1, <1>2, <1>3 DEF LockInv, WrittenInPlace, Took, Accepts, GoesTo, At_, content
<1>4. ASSUME GoesTo("report"), Took("inventory", content), Calm, OfDay(date) PROVE OfDay(date)'
  BY <1>1, <1>2, <1>4 DEF LockInv, WrittenInPlace, Downloads, Took, Accepts, GoesTo, At_, content,
     OfDay, File, FirstPairs, FirstInventory
<1>. QED
  BY <1>1, <1>3, <1>4, WriteKeeps, ZenonT(30)

LEMMA ReportKeeps == ASSUME LockInv, WriteReport PROVE LockInv'
<1>. USE DEF Past, Paths, AfterReport, AfterInventory, AfterPairs, AfterMetadata, AfterSecret,
         AfterDownload, AfterQuery, AfterCover, AfterLock, AfterStart
<1>. DEFINE content == [date |-> date, pairs |-> disk["pairs"],
                        inventory |-> disk["inventory"]]
<1>1. At_("report") /\ WriteLocked("report", content, "done")
      /\ Keeping(<<date, page, bytes>>) /\ UNCHANGED <<upstream, today>>
  BY DEF WriteReport, sourceVars
<1>2. DOMAIN disk = Paths
  BY DEF LockInv, Typed
<1>. HIDE DEF content
<1>3. ASSUME GoesTo("done"), Took("report", content) PROVE WrittenInPlace'
  BY <1>1, <1>2, <1>3 DEF LockInv, WrittenInPlace, Took, Accepts, GoesTo, At_, content
<1>4. ASSUME GoesTo("done"), Took("report", content), Calm, OfDay(date) PROVE OfDay(date)'
  BY <1>1, <1>2, <1>4 DEF LockInv, WrittenInPlace, Downloads, Took, Accepts, GoesTo, At_, content,
     OfDay, File, FirstPairs, FirstInventory
<1>. QED
  BY <1>1, <1>3, <1>4, WriteKeeps, ZenonT(30)

\* The cover is fetched and written in one step.
LEMMA CoverKeeps == ASSUME LockInv, FetchCover PROVE LockInv'
<1>. USE DEF Past, Paths, AfterReport, AfterInventory, AfterPairs, AfterMetadata, AfterSecret,
         AfterDownload, AfterQuery, AfterCover, AfterLock, AfterStart
<1>1. /\ At_("fetch_cover") /\ program # Absent /\ program.step = "fetch_cover"
      /\ UNCHANGED <<upstream, today>>
  BY DEF FetchCover, sourceVars, At_
<1>2. CASE UNCHANGED disk /\ \E reason : reason # "locked" /\ End(reason)
  BY <1>1, <1>2, EndKeeps
<1>3. CASE WriteLocked("cover", "pinned", "query") /\ Keeping(<<date, page, bytes>>)
  <2>1. DOMAIN disk = Paths
    BY DEF LockInv, Typed
  <2>2. ASSUME GoesTo("query"), Took("cover", "pinned") PROVE WrittenInPlace'
    BY <1>1, <2>1, <2>2 DEF LockInv, WrittenInPlace, Took, Accepts, GoesTo
  <2>3. ASSUME GoesTo("query"), Took("cover", "pinned"), Calm, OfDay(date) PROVE OfDay(date)'
    BY <1>1, <2>1, <2>3 DEF LockInv, Took, Accepts, GoesTo, OfDay, File, FirstPairs, FirstInventory
  <2>4. /\ "fetch_cover" \in AfterLock /\ "query" \in AfterLock /\ "cover" \in Paths
        /\ "query" \notin AfterQuery /\ "query" \notin AfterDownload
    OBVIOUS
  <2>. HIDE DEF Paths, AfterLock, AfterQuery, AfterDownload
  <2>. QED
    BY <1>1, <1>3, <2>2, <2>3, <2>4, WriteKeeps
<1>. QED
  BY <1>2, <1>3 DEF FetchCover, Unreachable

LEMMA LockStepKeeps == LockInv /\ [LockNext]_inputVariables => LockInv'
<1>. SUFFICES ASSUME LockInv, [LockNext]_inputVariables PROVE LockInv'
  OBVIOUS
<1>1. CASE UNCHANGED inputVariables
  <2>1. UNCHANGED <<upstream, today, events, disk, program, date, page, bytes, result, halfway>>
    BY <1>1 DEF inputVariables
  <2>2. Typed'
    BY <2>1 DEF LockInv, Typed, Past
  <2>3. WrittenInPlace' /\ Downloads'
    BY <2>1 DEF LockInv, WrittenInPlace, Downloads, Calm, Past
  <2>4. Unmixed' /\ SettlesOnDay'
    BY <2>1 DEF LockInv, Unmixed, SettlesOnDay, Calm, Past, Overwriting, OfDay, File
  <2>. QED
    BY <2>2, <2>3, <2>4 DEF LockInv
<1>2. ASSUME Finish PROVE LockInv'
  <2>1. program # Absent /\ program.step = "done" /\ End("locked") /\ UNCHANGED <<upstream, today, disk>>
    BY <1>2 DEF Finish, At_, sourceVars
  <2>. QED
    BY <2>1, EndKeeps
<1>3. ASSUME KillProgram PROVE LockInv'
  BY <1>3, EndKeeps DEF KillProgram
<1>. QED
  BY <1>1, <1>2, <1>3, DaysKeep, ChangesKeep, DamageKeeps, StartKeeps, ResolveKeeps, WriteLockKeeps,
     FetchKeeps, SnapshotKeeps, CoverKeeps, SecretKeeps, MetadataKeeps, PairsKeep, InventoryKeeps,
     ReportKeeps DEF LockNext

LEMMA LockHolds == LockSpec => []LockInv
BY LockStarts, LockStepKeeps, PTL DEF LockSpec

-----------------------------------------------------------------------------
(* How a run ends                                                          *)

\* Only the last step says that the inputs are locked.
LEMMA LockedAtTheEnd ==
    ASSUME LockInv, LockNext, program # Absent, program' = Absent, result' = "locked"
    PROVE  Past({"done"}) /\ UNCHANGED disk
<1>1. result = "none" /\ program.step \in Steps
  BY DEF LockInv, Typed
<1>2. ASSUME NEW reason, End(reason) PROVE result' = reason
  BY <1>2 DEF End
<1>3. ASSUME NEW p, NEW content, NEW next, WriteLocked(p, content, next) PROVE FALSE
  BY <1>1, <1>2, <1>3 DEF WriteLocked, Continue
<1>4. ~ (\E p \in Paths : Damage(p)) /\ ~ (\E m \in Modes, a \in {Absent, 2} : StartProgram(m, a))
  BY DEF Damage, StartProgram
<1>5. ~ WriteLock /\ ~ WriteSnapshot /\ ~ WriteSecret /\ ~ WriteMetadata /\ ~ WritePairs
      /\ ~ WriteInventory /\ ~ WriteReport
  BY <1>3 DEF WriteLock, WriteSnapshot, WriteSecret, WriteMetadata, WritePairs, WriteInventory, WriteReport
<1>6. ~ FetchCover /\ ~ FetchChecksums /\ ~ QueryPage /\ ~ DownloadSecret /\ ~ Resolve /\ ~ KillProgram
  BY <1>1, <1>2, <1>3 DEF FetchCover, FetchChecksums, QueryPage, DownloadSecret, Resolve, KillProgram,
     Unreachable, Continue
<1>7. ~ NextDay /\ ~ UpstreamChanges
  BY <1>1 DEF NextDay, UpstreamChanges, OwnVars
<1>. QED
  BY <1>4, <1>5, <1>6, <1>7 DEF LockNext, Finish, At_, Past

\* Report, manifests and files agree when a run ends locked, for any number of
\* days, upstream changes, damages and kills (prepare_locked_inputs).
THEOREM InputsAgree == LockSpec => LockedInputsAgree
<1>1. ASSUME LockInv, Past({"done"}) PROVE LockedTogether
  <2>1. /\ disk["lock"] = [date |-> date]
        /\ disk["metadata"].image = page.image /\ disk["metadata"].sha = disk["secret"]
        /\ disk["pairs"] = [cover |-> disk["cover"], secret |-> disk["secret"]]
        /\ disk["inventory"] = [date |-> date, cover |-> disk["cover"], secret |-> disk["secret"],
                                image |-> page.image, rights |-> page.rights]
        /\ disk["report"] = [date |-> date, pairs |-> disk["pairs"], inventory |-> disk["inventory"]]
    BY <1>1 DEF LockInv, WrittenInPlace, Past, AfterReport, AfterInventory, AfterPairs,
       AfterMetadata, AfterSecret, AfterDownload, AfterQuery, AfterCover, AfterLock
  <2>2. /\ disk["lock"].date = date /\ disk["report"].date = date
        /\ disk["report"].pairs = disk["pairs"] /\ disk["report"].inventory = disk["inventory"]
        /\ disk["inventory"].secret = disk["secret"] /\ disk["inventory"].image = page.image
        /\ disk["pairs"].cover = disk["cover"] /\ disk["pairs"].secret = disk["secret"]
    BY <2>1
  <2>. QED
    BY <2>1, <2>2 DEF LockedTogether
<1>2. ASSUME LockInv, LockNext, EndsAs("locked") PROVE LockedTogether'
  <2>1. Past({"done"}) /\ disk' = disk
    BY <1>2, LockedAtTheEnd DEF EndsAs
  <2>. QED
    BY <1>1, <1>2, <2>1 DEF LockedTogether
<1>3. ASSUME LockInv, [LockNext]_inputVariables
      PROVE  [EndsAs("locked") => LockedTogether']_inputVariables
  BY <1>2, <1>3
<1>. QED
  BY <1>3, LockHolds, PTL DEF LockSpec, LockedInputsAgree

\* A file a resumed run of an undrifted preparation finds is the one it would
\* have written.
LEMMA FoundIsWritten ==
    ASSUME LockInv, ~ Drifted, program.mode = "resume", NEW at \in AfterStart, At_(at),
           NEW p \in Paths, NEW content,
           /\ p = "lock" => content = [date |-> date]
           /\ p = "cover" => content = "pinned"
           /\ p = "secret" => content = bytes /\ at = "secret"
           /\ p = "metadata" => content.image = page.image /\ content.sha = disk["secret"]
                                /\ at = "metadata"
           /\ p = "pairs" => content = [cover |-> disk["cover"], secret |-> disk["secret"]]
                             /\ at = "pairs"
           /\ p = "inventory" =>
                 /\ content = [date |-> date, cover |-> disk["cover"], secret |-> disk["secret"],
                               image |-> page.image, rights |-> page.rights]
                 /\ at = "inventory"
           /\ p = "report" =>
                 /\ content = [date |-> date, pairs |-> disk["pairs"], inventory |-> disk["inventory"]]
                 /\ at = "report",
           disk[p] # Absent
    PROVE  Accepts(p, disk[p], content)
<1>. USE DEF Past, AfterReport, AfterInventory, AfterPairs, AfterMetadata, AfterSecret,
         AfterDownload, AfterQuery, AfterCover, AfterLock, AfterStart
<1>1. /\ program # Absent /\ program.step = at
      /\ Calm /\ ~ halfway /\ ~ Overwriting /\ disk[p] # Damaged /\ File(p)
  BY DEF At_, Drifted, Calm, Overwriting, File
<1>2. OfDay(date)
  BY <1>1 DEF LockInv, SettlesOnDay
<1>3. /\ at = "secret" => bytes = "first"
      /\ at \in AfterSecret => disk["secret"] = "first"
      /\ at \in AfterSecret => disk["cover"] = "pinned" /\ page.image = "first" /\ page.rights = 0
  BY <1>1 DEF LockInv, WrittenInPlace, Downloads
<1>4. at \in AfterPairs => disk["pairs"] = FirstPairs
  BY <1>1, <1>3 DEF LockInv, WrittenInPlace, FirstPairs
<1>5. at = "report" => disk["inventory"] = FirstInventory(date)
  BY <1>1, <1>3 DEF LockInv, WrittenInPlace, FirstInventory
<1>6. p \in {"lock", "cover", "secret"} => disk[p] = content
  BY <1>1, <1>2, <1>3 DEF OfDay
<1>7. p = "metadata" => disk[p].image = content.image /\ disk[p].sha = content.sha
  BY <1>1, <1>2, <1>3 DEF OfDay
<1>8. p = "pairs" => disk[p] = content
  BY <1>1, <1>2, <1>3 DEF OfDay, FirstPairs
<1>9. p = "inventory" => disk[p] = content
  BY <1>1, <1>2, <1>3 DEF OfDay, FirstInventory
<1>10. p = "report" => disk[p] = content
  BY <1>1, <1>2, <1>4, <1>5 DEF OfDay
<1>. HIDE DEF AfterReport, AfterInventory, AfterPairs, AfterMetadata, AfterSecret, AfterDownload,
          AfterQuery, AfterCover, AfterLock, AfterStart
<1>. QED
  BY <1>1, <1>6, <1>7, <1>8, <1>9, <1>10 DEF Accepts, Paths

\* So no file stops it.
LEMMA NoFileRefused ==
    ASSUME LockInv, ~ Drifted, program # Absent, program.mode = "resume",
           \/ WriteLock \/ WriteSnapshot \/ WriteSecret \/ WriteMetadata \/ WritePairs
           \/ WriteInventory \/ WriteReport
           \/ FetchCover /\ ~ End("drift") /\ ~ Unreachable
    PROVE  result' # "conflict"
<1>. USE DEF At_
<1>1. result = "none" /\ ~ (program.mode = "overwrite")
  BY DEF LockInv, Typed
<1>2. ASSUME NEW p, NEW content, NEW next, WriteLocked(p, content, next),
             disk[p] # Absent => Accepts(p, disk[p], content)
      PROVE  result' # "conflict"
  BY <1>1, <1>2 DEF WriteLocked, Continue
<1>3. AfterStart = Steps \ {"start"}
  BY DEF Steps, AfterReport, AfterInventory, AfterPairs, AfterMetadata, AfterSecret, AfterDownload,
     AfterQuery, AfterCover, AfterLock, AfterStart
<1>4. CASE WriteLock
  BY <1>2, <1>3, <1>4, FoundIsWritten DEF WriteLock, Paths, Steps
<1>5. CASE WriteSnapshot
  BY <1>1, <1>2, <1>3, <1>5, FoundIsWritten DEF WriteSnapshot, Paths, Steps
<1>6. CASE WriteSecret
  BY <1>2, <1>3, <1>6, FoundIsWritten DEF WriteSecret, Paths, Steps
<1>7. CASE WriteMetadata
  BY <1>2, <1>3, <1>7, FoundIsWritten DEF WriteMetadata, Paths, Steps
<1>8. CASE WritePairs
  BY <1>2, <1>3, <1>8, FoundIsWritten DEF WritePairs, Paths, Steps
<1>9. CASE WriteInventory
  BY <1>2, <1>3, <1>9, FoundIsWritten DEF WriteInventory, Paths, Steps
<1>10. CASE WriteReport
  BY <1>2, <1>3, <1>10, FoundIsWritten DEF WriteReport, Paths, Steps
<1>11. CASE FetchCover /\ ~ End("drift") /\ ~ Unreachable
  BY <1>2, <1>3, <1>11, FoundIsWritten DEF FetchCover, Paths, Steps
<1>. QED
  BY <1>4, <1>5, <1>6, <1>7, <1>8, <1>9, <1>10, <1>11

\* Nor does the day, where it names none itself.
LEMMA NoDayRefused ==
    ASSUME LockInv, ~ Drifted, program # Absent, program.mode = "resume", program.asked = Absent,
           Resolve
    PROVE  result' # "conflict"
<1>1. /\ result = "none" /\ today \in Nat /\ disk["lock"] # Damaged
      /\ disk["lock"] \in {Absent, Damaged} \cup [date : Nat]
  BY DEF LockInv, Typed, Drifted, Paths
<1>2. CASE disk["lock"] = Absent
  <2>1. AccessDate = today
    BY <1>2, AbsentAssumption DEF AccessDate
  <2>. QED
    BY <1>1, <2>1, AbsentAssumption DEF Resolve, Continue
<1>3. CASE disk["lock"] # Absent
  <2>1. AccessDate = disk["lock"].date
    BY <1>1, <1>3 DEF AccessDate
  <2>2. disk["lock"].date \in Nat
    BY <1>1, <1>3
  <2>. QED
    BY <1>1, <2>1, <2>2, AbsentAssumption DEF Resolve, Continue
<1>. QED
  BY <1>2, <1>3

\* A resumed run without a date of its own is refused only for a drift or a
\* broken-off overwrite, however many days have passed (_resolve_access_date,
\* _write_locked).
THEOREM ResumeIsWelcome == LockSpec => RefusedOnlyOnDrift
<1>1. ASSUME LockInv, LockNext, EndsAs("conflict"), program.mode = "resume", program.asked = Absent,
             ~ Drifted
      PROVE  FALSE
  <2>1. /\ program # Absent /\ program' = Absent /\ result' = "conflict" /\ result = "none"
        /\ program.step \in Steps
    BY <1>1 DEF EndsAs, LockInv, Typed
  <2>2. ASSUME NEW reason, End(reason) PROVE reason = "conflict"
    BY <2>1, <2>2 DEF End
  <2>3. ~ End("drift") /\ ~ Unreachable
    BY <2>2 DEF Unreachable
  <2>4. ~ (\E p \in Paths : Damage(p)) /\ ~ (\E m \in Modes, a \in {Absent, 2} : StartProgram(m, a))
    BY <2>1 DEF Damage, StartProgram
  <2>5. ~ FetchChecksums /\ ~ QueryPage /\ ~ DownloadSecret /\ ~ KillProgram /\ ~ Finish
    BY <2>1, <2>2, <2>3 DEF FetchChecksums, QueryPage, DownloadSecret, KillProgram, Finish, Continue
  <2>6. ~ NextDay /\ ~ UpstreamChanges
    BY <2>1 DEF NextDay, UpstreamChanges, OwnVars
  <2>. QED
    BY <1>1, <2>1, <2>3, <2>4, <2>5, <2>6, NoFileRefused, NoDayRefused DEF LockNext
<1>2. ASSUME LockInv, [LockNext]_inputVariables
      PROVE  [ (EndsAs("conflict") /\ program.mode = "resume" /\ program.asked = Absent)
                   => Drifted ]_inputVariables
  BY <1>1, <1>2
<1>. QED
  BY <1>2, LockHolds, PTL DEF LockSpec, RefusedOnlyOnDrift
=============================================================================
