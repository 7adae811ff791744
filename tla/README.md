# Verification of the contourlet-steganography runtime

TLA+ models of this repository: the parts that run for days on a server, are
killed and restarted, and decide whether a study may be called complete (run
lock, content-addressed cache, task runner, research run, local two-stage study,
plans, reports, backup); the code that carries a payload through a channel
(Reed-Solomon, bitstream, allocation); and the programs around the studies
(server bootstrap, control requests, input acquisition, monitor). TLC checks each
on small instances, TLAPS proves the properties that matter most for every
instance. Paths below are relative to the repository root; `runtime.py` and
`runtime_monitor.py` are in `src/ctsteg/`, and every other `.py` file without a
directory is in `src/ctsteg/digital_ad/` or `scripts/5j/`.

## 1. Inventory

| Component | State it keeps | Operations | Hard behaviour | Properties that make it correct | Modules |
|---|---|---|---|---|---|
| `RunLock` (runtime.py 433-525) | `run.lock`, evidence copies in `locks/` | `acquire`, `release` | interleaved acquires, kills between any two system calls, torn file, reboot, pid reuse | one holder; no payload lost; takeover after a crash | RunLock, RunLockProofs |
| `ContentStore` (runtime.py 120-412) and the worker entry points | `objects/`, `attempts/`, `quarantine/`, markers | `verify`, `begin_attempt`, `commit_attempt`, `_quarantine_invalid`, `record_failure` | two writers, crash around the renames, damaged files | never a partial object; nothing lost; only damaged objects leave; success implies an object | ObjectStore, ContentStore, ContentStoreProofs |
| `DurableTaskRunner` (runtime.py 650-885) | `state.json`, `events/`, futures, a process pool | `run` (scan, submit, collect, finish, interrupt) | broken pool, interrupt, kill, leftover workers, relaunch | no repeated work; checkpoints never ahead of the store; every future accounted for; a stage returns when all its tasks have ended | TaskStage, DurableRunner, DurableRunnerProofs |
| Research run (`execute_research_plan`; cli.py 600-642; `ctsteg-research@.service`) | summary, decisions, reports, bundle archive and its manifest, exit status | three stages, two decision points, aggregation, packaging, restart | damage between stages, kill between two files, restart policy | gates before evaluations; complete means whole; archive and summary agree | ResearchRun, ResearchRunProofs |
| Final backup (`backup_common.py`, `sync_completed_objects.py`, `verify_remote_backup.py`, `evacuate_server.py`) | the ledger file, bundles, remote assets | sync, re-verification, evacuation check | no lock on the ledger, files changing while packed, kill between upload and ledger, remote damage | committed means restorable; a revocation stands; evacuation is earned | BackupLedger, BackupLedgerProofs |
| Plans (`build_execution_plan.py`, `freeze_runtime_bindings.py`, `finalize_execution_plan.py`, `prepare_final_execution_plan.py`, `runtime_bindings_5j.py`) | the unbound plan, the bindings, the bound plan, reports | build, freeze, finalize, prepare, verify | many files read one after another, edits in between, kills between outputs | a plan announced as ready is the finalization of its bindings, and one that is claimed was made of the manifest it names | Inputs, PlanFreeze |
| Local two-stage study (`runtime_dispatch_5j.py`, `dispatch_research.py`, the two workers) | frozen plan, objects, summary | verify, claim, embeddings, acceptance, evaluations | inputs re-read hours after verification, objects damaged between the stages, another plan | objects come from the bytes they name; the summary is about the frozen plan; complete means evaluated | LocalStudy |
| Reports (`build_analysis.py`, `build_final_archive.py`, `verify_final_archive.py`) | analysis files, inventory, archive, sidecar | load, write, inventory, pack, verify | kill between files, file edited between hashing and packing | an analysis not called partial has every row; a verified archive is what its manifest says | Reporting, Evidence |
| Allocation (`allocation.py`) | none | `capped_largest_remainder`, `build_slot_plan` | caps binding during rounding, ties | exact total, caps, disjoint slots, the shares | Allocation, CodecProofs |
| Bitstream, header, Reed-Solomon, failure diagnosis | none | encode, decode, classify | bursts at and beyond the radius, lost layers, foreign identities | within the radius corrected; what is recovered was sent; Base survives Detail; each failure has a stage | ReedSolomon, Bitstream |
| Embedding and extraction (`pipeline.py`, `embedding.py`, `distortion.py`) | strength, stego coefficients | `search_lambda`, embed, extract | no feasible strength | target kept, slots disjoint | Codec, CodecProofs |
| Server bootstrap (`scripts/bootstrap_ubuntu_server.sh`, `scripts/server_preflight.py`, `ctsteg-bootstrap.service`) | worktrees, environments, the links `current` and `latest_runtime_gate.json` | apply, ensure, verify | kill at any command, reboot, edited pin, bounded restarts | links move only to tested and gated releases; ready means verified | Provisioning, ServerProofs |
| Server control (`control/`) | one shared checkout | push, run request, operate | broken-off git commands, index lock, time-outs | an operation runs the commit its request names | ServerControl, ServerProofs |
| Input acquisition (`scripts/prepare_locked_inputs.py`) | lock, images, metadata, manifests, report | fail, resume, overwrite | kills, another day, changing sources | what is locked agrees; a resume is refused only for drift | LockedInputs, ServerProofs |
| Monitor (runtime_monitor.py) | `latest.json`, `samples.jsonl` | discover, sample, append | reads files the run is writing, short writes, two writers, rotation | completed within selected; no sample lost or merged but the torn ones | Monitor, ServerProofs |
| Statistics, tables, figures, transforms, attacks, metrics, first-generation pipeline | none between calls | - | floating point | - | not modelled |
| Worker trials, COCO downloads, panels | report files | - | I/O | - | not modelled |

How they interact. `cli.py` starts `execute_research_plan`, which takes the run
lock of its run directory and calls `DurableTaskRunner.run` once per stage; so
does `run_local_study` for its two stages. The runner submits each task to a
process pool, where a worker looks the object up in the content store, produces
it in an attempt directory and publishes it by a rename. A research run collects
the published objects between stages, decides which evaluations are due, and
ends with decisions, reports, summary and a bundle; its exit status tells systemd
whether to start it again. A local study executes a plan that three programs
froze from files; its summary and objects feed the analysis and the archive. The
monitor reads the files of a research run while it goes on. The backup tools work
on what a finished run left. The bootstrap installs the release a service runs;
control requests run operations over a checkout of their own.

So the models form chains. `RunLock` shows when one launch at a time is real;
`DurableRunner` takes that as given and shows when no two calls are at one object;
`ContentStore` takes that as given (`Shared = FALSE`) and implements `ObjectStore`,
through which `DurableRunner` sees the cache (`Store == INSTANCE ObjectStore`). What a
stage is to the code that calls it is `TaskStage`: `DurableRunner` implements it, and
the stages of `ResearchRun` are proved to be nothing more than it (`Stage == INSTANCE
TaskStage` in both). `LocalStudy` sees a stage as tasks that each end published or lost.
`Inputs`, `PlanFreeze`, `LocalStudy` and `Reporting` extend one another and are composed
by `Evidence`, because they share the files. `ReedSolomon`, `Bitstream` and `Allocation`
are composed by `Codec`. `Server` puts the four programs that share nothing into one
run; `ServerProofs` has the theorems of all four.

## 2. Modules

**RunLock.** `lock` is the file `run.lock` (a process, `Torn` for created and
not yet written, `NoLock`), `stale` and `released` the evidence in `locks/`,
`pc` where an acquire or a release stands, `seen` the owner it read. One action
per system call: `Exists`, `Read`, `Judge` (same host, same boot and
`_pid_is_alive`), `Move` and `Rewrite` (`_archive_existing`), `Create`
(`O_EXCL`), `Write`; `ReadOwn`, `MoveOwn`, `RewriteOwn`. `Kill`, `Reboot` and
reuse of a pid may come anywhere. `Overlap` says whether two acquires may
interleave.

**ObjectStore / ContentStore.** ObjectStore says what the cache promises: an object is
absent, valid, or damaged, and leaves only when damaged. ContentStore has one process
per worker call, which goes through `Lookup`, `Produce`, `Check`, `Quarantine`, `Note`,
`Seal`, `Publish`, `Confirm` or ends in `RecordFailure`; a call may die at any label,
and may raise at any step of a commit (`StepFails`: a write, an fsync or the deep
verification, before the rename or after it, when `FAILED.json` goes into a new
directory of the attempt's name). `published` is the directory at `objects/<id>`.
`verify` is one atomic step: a directory changes under it only through damage, which the
model has as an action of its own, and the distinction between the ways a directory can
be invalid is dropped.

**DurableRunner.** The parent scans the stage (`Scan`), writes and announces
the start, collects futures (`Collect`, `WriteTask`, `EventTask`), finishes
(`Finish`, `EventEnd`) or handles an interrupt. Each checkpoint and each event
is a step of its own, since a kill may fall between them. Worker calls carry
the launch that submitted them. A call takes its task (`Take`), renames its object
into the cache (`Publish`, or `Duplicate` where one is there), verifies it once more and
returns (`Return`); between rename and return it is `landed`. `CallFails` is an
exception at any of these points, so a task may fail whose object is there.
`PoolBreaks` is the death of a pool process: every future left fails at once
(`broken`), but the other processes work on until they are terminated (`LeftoverDies`).
`handed` are calls that the executor had passed to its processes when the futures
were given up (by `PoolBreaks`, `Interrupt` or a kill of the parent): at most
`MaxWorkers + 1`, the size of its call queue; they cannot be cancelled and may still
run (`TakeHanded`). `Finish` waits for the processes as `shutdown(wait=True)` does,
`WriteInterrupted` does not. `groupKill`, chosen at `Init`, says whether a
kill ends the calls with their parent (`KillMode=control-group`) or they run on into
the next launch.

**TaskStage.** The promise of `run` without pool, checkpoints or launches: a stage
is begun, each of its tasks succeeds or fails, and it closes when none is `left`,
or is abandoned. `Publish` is the rename of a call that has not returned (`made` until
the task ends). A failed task (`Fail`) may have its object there, if its own call put
it there in this very stage; what `alone` excludes is that a task fails whose object
was there already. `Appear` is a call publishing that outlived its launch, or its
future in a broken pool; `alone` leaves only the second. In `DurableRunner` a task has
ended when its future has, before `as_completed` hands it over (`Left`, `Failed`,
`Made`), and `alone` is `groupKill`; in `ResearchRun` the variables are `toRun` and
`failed`, the rename and the end of a task are one step (a caller of `run` sees neither
apart from the other), and the run is alone.

**ResearchRun.** `status[t]` is what the cache holds for a task, `made[t]` how
often it was produced, `gate` and `verdict` what the hard checks allow and
which challenge families the core rows select. `TaskFails` ends a task before or after
its object was published. The actions follow
`execute_research_plan` from `Launch` (or `DiskFull`, when the disk check refuses
to start) through the three stages, `Aggregate`, `WriteDecisions`,
`WriteReports`, `WriteSummary`, `Package`, `WriteManifest` to `Finish`, which
sets the exit status; `Startable` is the restart rule of the unit. What the
hard checks and triggers answer is a fixed but arbitrary choice at `Init`.

**BackupLedger.** `ledger` is the file; each command keeps its own copy in
`job[p].ledger` and replaces the file as a whole. `Fetch`/`Commit` are the
verification by download, `Register`, `Rehash`, `Pack`, `Upload`, `Enrol` the
way of a new bundle, `Recheck`/`SaveVerify` the periodic re-verification,
`Inspect`/`Report` the evacuation check. `Edit`, `Damage`, `Lose` and `Kill`
are its surroundings. `condemned`, `spoiled` and `disturbed` are history
variables that only properties read. `verify_bundle_archive` also refuses an
asset whose digest differs from the ledger's; in the model the asset's name
carries contents and sequence number, so the two comparisons are one.

**Inputs, PlanFreeze, LocalStudy, Reporting, Evidence.** A program is a script
of reads: `Parse` (its content is used), `Hash` (its digest is recorded),
`Check` (its digest must be the one on record) and `Fits` (its content must agree
with its partner's), one file per step, kept in `seen`; then comes the
program's own action. A file that is hashed and then opened again is two reads
(`Opens`), as `_load_config`, `_pair`, `_stability` and the baseline worker do; so is
an embedding that is verified and then read (`VerifyEmbedding`, `ReadEmbedding`). The
history variable `slipped` collects what was changed between the two: nothing in the
code can notice it. An edit changes one file or several at once: files that agree
with one another, another data set for instance, may be put in place between any two
reads. The contracts a registry names are parsed by the builder and compared by nobody
later. `PlanFreeze` has the four planning programs and their output
files, `LocalStudy` the dispatch: it verifies (`DispatchVerifies`), claims the
run directory (`Claim`), takes tasks (`StageTakes`, the worker's reads,
`WorkerCompletes` or `WorkerFails`), accepts (`Accepted`) and summarises. An
evaluation also recomputes the protected bits and fails when they differ from the
embedding's; `WorkerFails`, which may come anywhere, stands for that too.
`objects` keeps, with each object, the bytes it was made of (`made`) beside the
identity it is published under (`id`); only properties compare the two.
`Reporting` loads, writes and inventories an analysis, and packs and verifies an
archive. `Evidence` composes them with `Edit` and `Kill` between any two steps.

**ReedSolomon, Bitstream, Allocation, Codec.** Operators translated from the code,
over a field of any size: encoding, syndromes, Berlekamp-Massey, root search and
the linear solve; bit planes, layers, interleaving, masking, body order, header,
CRC and identity comparison, validity and failure stage; floors, remainders and
slot plan. One `Allocate` is one round of `capped_largest_remainder`'s loop; a
round places at least one slot, so `amount` rounds are enough. Weights and `Epsilon`
(`allocation_epsilon`) are integers in a common unit, so that shares and their
fractions are exact; floating-point ties of the code are outside the model.
`Codec` runs one secret: `Embed` (allocation, strength search; only where the
coefficients suffice, `Capable`, as `build_slot_plan` raises otherwise),
`Channel` (a burst anywhere in the slots), `Read` as the owner or as a stranger.
A CRC or digest is what it is computed from, so collisions are outside the model;
a layer's random permutation is a rotation fixed by its digest.

**Provisioning.** One action per phase of the script, in the order of `Follows`; each
may fail by its own rule (`AttemptFails` counts retries, `Refusals` are the preflight's
exit codes), and `Exit` is what systemd makes of a status. `KillScript`, `Reboot` and
`EditPin` may come between any two. `release`, `env`, `current`, `gate` are what is on
disk; `tested` and `gated` are history: what has really passed. A clone of another
origin is refused, `git worktree add` may fail and leave nothing or a part, and a gate
is run again over a report that no longer validates. `Verified` is the verification that
`--ensure` begins and every mode ends with.

**ServerControl.** `queued` is the last request pushed, `job` the running one
(GitHub runs one job of the concurrency group and keeps one waiting), `jobPc` its
git command. `Cut` is a kill or time-out inside a command and may leave
`index.lock`, a half-written work tree or an unverified head. The time-out of an
operation kills its first process only (`run_request.py` 160); what that one had started
works on until the runner ends the job, which it does before the next job begins. The
runner is external, and this is the one thing assumed of it besides its queue.

**LockedInputs.** `disk` has the file at each path, `program` the run with its mode
and step. Each download may end the run; `WriteLocked` is the rule of the three
modes; `Accepts` what `--resume` takes for the file it would write. `Damage` makes a
file unreadable, or changes only what `--resume` does not compare (`Retouched`).

**Monitor.** The run (`RunLaunches` to `RunEnds`) and two writers, the service
and an operator's `--once`. A sample reads state, decisions and summary in three steps
(`draft`), replaces `latest.json`, opens the log, and appends (`Place`) a line
that a full disk or a kill may cut short; `Rotate` renames the log under an open
descriptor.

The `MC*` modules give constants their values. Definitions whose comment begins
`Mutant:` (or `[mutant]`) are plausible wrong versions of the definition that
follows; no specification uses them.

## 3. Runs

| Run | Instance | Shows |
|---|---|---|
| `lock_serial` | 3 processes on one host, one reboot, acquires one at a time, kills anywhere | one holder, no payload lost, takeover after a crash |
| `lock_race` | 2 processes, acquires interleave | **violation** of `MutualExclusion` |
| `store_exclusive` | 3 calls, an embedding and an evaluation that reads it | the cache implements `ObjectStore` and the calls report the truth |
| `runner_stage` | 2 tasks, pool of 2, 2 faults, kills that do and do not end the group, calls that fail or die before and after their rename | no rework where kills end the group, truthful state, a stage as `TaskStage` promises it, completion |
| `backup_serial` | 3 objects (two fit in a bundle, one fills it), 2 versions, 4 environment steps, one command at a time | the ledger never claims a backup that was not verified |
| `backup_overlap` | 2 objects, 2 commands | **violation** of `RevocationStands` |
| `study_run` | 1 embedding, 1 core evaluation, 2 families, 3 faults | gates, completeness, archive and restarts |
| `study_reuse` | 2 embeddings, 1 core, 1 family, 1 fault | **violation** of `ResumeReusesArchive` |
| `codec` | GF(16), codewords of 15 symbols, every method, format and fraction, bursts of 1 to 20 slots, strangers | recovered is sent, Base survives Detail, failures are classified |
| `evidence` | an adaptive method and a baseline, one edit (of a file, or of manifests and images together), damage or kill anywhere | a claimed plan is of the manifest it names; objects, summaries, analyses and archives stand for the bytes they name, evaluations for sound embeddings |
| `server` | four scenes, see below | links, checkouts, locked inputs and samples tell the truth |
| `server_repair` | the bootstrap with the gate wanted, one commit | **violation** of `RepairOnlyIfIncomplete` |

Why these bounds. A third process is the first that can meet both a stale lock
and a competitor, and one reboot changes the boot id of everything before it.
Three calls suffice for a lookup, a competing commit and a retry of one object
while another object depends on it. Two tasks and two faults are a fault and one
during its recovery, with a queued future left when the pool breaks early. In
`backup_serial` the sizes 2, 1, 1 under a maximum of 2 make two bundles, one of
them with two objects, so that entry and bundle states can differ; four
environment steps are a partial sync, an edit or damage, a kill and a
re-verification. In `study_run` two families give every verdict, and three faults
cover damage, a kill and a failure in one history.

`codec` has two profile shapes per layer kind, with and without padding, and
codewords of two rates; `ASSUME CodeProfilesFit` evaluates the layout arithmetic
for the program's own profiles over 128 x 128 pixels, too. Bursts reach from one
symbol to more than a codeword, so that each codeword meets its radius from both
sides; the capacities make caps bind for some weights, and `Epsilon = 1` against
weights in thousandths makes every comparison one of the weights. In `evidence` one fault
(`MaxFaults = 1`) between any two reads is the smallest history in which two
reads of one file differ. `Editable` has each file alone, and the two manifests with
the images, which must change together before anything but a digest can notice it.
Versions are two because a digest only tells equal from different.

`server` follows one program per behaviour (`scene`), since they share no
variable: the bootstrap with three commits, two of which share a runtime (a
gate report may or may not carry over), 2 attempts, 2 starts a day, and 2 kills,
reboots or edits; three pushes of two commits (one waits, one is superseded) and 2
cuts; two events of acquisition (a kill and a change of the sources); a run
launched once, sampled twice by two writers with 2 short writes, kills or
rotations.

Bounds that are not in the code: `Editable`, `MaxBoots`, `MaxFaults`, `MaxVisits`,
`MaxVersion`, `MaxTroubles`, `MaxPushes`, `MaxCuts`, `MaxEvents`, `MaxLaunches`,
`MaxSamples`, `MaxFailures`. They count steps of the environment (kills, damage,
edits, reboots, pushes, launches, samples), so no program that has begun is cut
off by one. `Evidence` also has an order: no planning while a run directory is
frozen, until the plan is discarded; reports are made of a study that has a
summary, and end it.

`CHECK_DEADLOCK FALSE` is set where the system really stops: all calls have
returned, the study is finished, no process is left to start. The backup
model never stops (an operator can always sync again) and is checked.

### Findings

1. `lock_race` (code bug, runtime.py 471): the second acquire reads `run.lock`
   between the first one's `os.open` and `os.write`, finds no JSON, archives
   the live lock as stale and creates its own. Both runs go on.
2. `study_reuse` (code bug, research_runtime.py 1804): a kill between the
   archive's rename and its manifest makes the next run write a second archive
   of unchanged material.
3. `backup_overlap` (divergence, sync_completed_objects.py 165): a sync that
   read the ledger before a re-verification revoked a bundle writes the stale
   `committed_complete` back.
4. `server_repair` (code bug, scripts/bootstrap_ubuntu_server.sh 303): with
   `CTSTEG_RUN_RUNTIME_GATE=1`, the default, `verify_installation` prints
   `validated["status"]`, a key `validate_runtime_gate_report` does not return. The
   KeyError fails the verification, so `--ensure` repairs a complete release at
   every boot and the service never becomes ready.

Seen and not listed as findings, since no document promises otherwise:

- a kill between the quarantine rename and `QUARANTINED.json` loses the reason
  (`ContentStore!ReasonPreserved`);
- two writers at one damaged object: the second quarantines by path the valid
  object the first has just published (`store_exclusive` has one writer per
  object, which `DurableRunner` justifies where kills end the group);
- after a revocation no sync ever uploads the bundle again: each one re-verifies
  the damaged asset and stops (`BackupCompletes` is about undisturbed backups);
- after a relaunch the monitor adds decisions and stage entries of the earlier
  launch to the new one's, and may report 86 rows of 64 until they are rewritten
  (`CompletedWithinSelected` excludes samples marked `relaunched`);
- a `git init` killed before `remote add` makes every later request fail in
  `set-url` until the operator removes the checkout (`RemoveCheckout`), and a
  worktree broken off after its HEAD was written is taken by the next bootstrap as it
  is, so that only the tests stand between it and `current`;
- a killed `--overwrite` leaves files that no later `--resume` accepts;
- a worker hashes configuration, images and profile and then opens each again
  (runtime_worker_5j.py 227/230, 252/258, 272/275; runtime_baseline_worker_5j.py
  124/130): bytes put there in between are computed with and published under the
  digest of the old ones. `ObjectsFromNamedBytes` has this gap in its statement
  (`slipped`);
- the contracts of the baselines are read when a plan is built and not compared when
  it is dispatched;
- a run whose embeddings fail leaves the reports of an earlier launch beside its
  summary, which says `operational_failure_embeddings` (`ReportsMatchSummary` allows
  exactly that).

### Fairness

- `TakeoverAfterCrash`: an acquire that has begun keeps taking steps. A
  process that is not killed runs on.
- `StageCompletes`: the parent and each worker call take steps
  (`WF_vars(ParentStep)`, `WF_vars(WorkerStep)`), and a relaunch is among the
  parent's steps: the unit restarts a failed run. Faults are bounded and
  never fair.
- `BackupCompletes`: the operator starts a sync of the whole inventory again
  and again and it runs to its end. There is no timer in the repository; the
  assumption is the documented procedure.
- `StudySettles`: the process runs on and the unit is started when systemd
  would start it. `StartLimitBurst` is not modelled there: with it, a run that
  fails often enough within the limit's interval stays down.

`Evidence`, `Codec` and `Server` state no fairness: their programs are started by
hand or by a timer the repository does not have, and all their properties are
safety properties.

## 4. Proofs

TLAPS checks the theorems below with no assumption other than the named
`ASSUME`s of the modules, which every run evaluates.

| Module | Theorem | Says |
|---|---|---|
| RunLockProofs | `TypeCorrect` | types |
| | `ExclusiveCreate` | whatever interleaves, at most one process owns `run.lock` while nothing was archived as stale |
| | `SingleRun` | one holder, when acquires are serial and on one host |
| | `EvidenceKept` | no payload is lost, same assumptions |
| ContentStoreProofs | `TypeCorrect`, `NeverPartial`, `NothingLost` | for any number of writers at one object |
| | `OnlyDamagedLeave`, `Uncontended`, `SuccessStays`, `StoreRefines` | with one writer per object; the last is the refinement of `ObjectStore` |
| DurableRunnerProofs | `OneWriter`, `WorkOnce` | when kills end the process group |
| | `StateIsTrue`, `FuturesKept` | state.json is true and no future is lost, whatever a kill spares |
| | `RunsOneStage` | the refinement of `TaskStage`, whatever a kill spares and wherever a call fails |
| ResearchRunProofs | `StagesPromised` | the stages of a run are stages of `TaskStage` |
| | `ScheduleKept` | no evaluation before its gate, no family nobody selected |
| | `CompleteIsWhole`, `ArchiveAgrees`, `ReportsAgree` | a summary agrees with the archive it names and the reports beside it, and complete means every object is in it |
| BackupLedgerProofs | `BackupTyped` | types, and bundles numbered in their order |
| | `CommittedCanBeRestored`, `LedgerTellsOneStory` | a committed object has an asset, intact unless somebody else damaged it; entries and bundles agree, however many commands overlap |
| | `RevocationsStand`, `ReadyIsEarned` | a revocation stands and evacuation is earned, when one command runs at a time |
| ServerProofs | `CheckoutIsNamedCommit` | an operation runs exactly the commit its request names |
| | `BootIsSound` | links move only to tested and gated releases, readiness stands for the pinned commit |
| | `MonitorIsTruthful` | latest.json counts no more rows than are selected, no whole sample is lost or written twice |
| | `InputsAgree` | report, manifests and files agree when a run ends locked |
| | `ResumeIsWelcome` | a resume is refused only for drift, damage or a broken-off overwrite |
| CodecProofs | `NothingElseIsRecovered` | what a reader is given is what was embedded, and only under its identity |
| | `EveryFailureIsClassified` | every failure has a stage and a validity the study goes on with, and the stage is true |
| | `StrengthKeepsTheTarget` | the strength keeps the PSNR target, the next half step does not |
| | `EverySymbolHasItsSlot` | slots are as many as the payload needs, distinct and within their bands, and shared as the weights say |
| | `ProgressFollowsFromTheRadius` | *if* codewords within their radius are corrected, Base is recovered whatever happens to Detail |
| EvidenceProofs | `ReadyPlan` | a ready plan is the finalization of the binding beside it |
| | `SummaryOfPlan` | a summary is about the plan frozen in its directory |
| | `ClaimedPlan` | a run directory is claimed only for a plan of the manifest it names |
| | `NamedBytes` | an object was computed from the bytes its identity names, but for an edit between a worker's check and its use |
| | `SoundEmbeddings` | an evaluation was computed from an embedding that was sound when it was read, with the same gap |
| | `CompleteStudy` | complete means every embedding and evaluation is published, and a skipped evaluation has a failed embedding |
| | `AnalysisIsWhole`, `ArchiveFaithful` | an analysis not called partial has every row; a verified archive is what its manifest says |

The argument. `MutualExclusion` of the lock is not inductive: an acquire that
has passed `Judge` may be about to archive the lock of a live holder.
`SerialInv` adds that at most one acquire is under way, that a holder is named
by the file (`OwnerNamed`), that a live owner is recognised as one
(`LiveOwnerRecognised`, where one host is needed: the test says "not mine" of
every other host), that what an acquire read is still there
(`ReadStillCurrent`), and that a payload moved without its rewrite is the one
somebody is about to rewrite (`MovedIsRewritten`, `EvidenceFresh`).

For the store, a directory is in one place at a time and is published only
when sealed (types, `NeverPartial`, `NothingLost`, with no assumption on
writers). The others need that between a call's `Check` and its `Quarantine`
or `Publish` nobody else touches the object; the strengthening says exactly
that of each label, and holds under `~Shared`. For the refinement each step
maps to `Publish`, `Evict` or damage of ObjectStore, or to a stutter.

`DurableRunner` discharges `~Shared`: with group kills every running call
belongs to the current launch (`OneLaunch`) and a launch submits each task
once, so `OneWriterPerObject` follows, and with it that work is done once per
absence (`WorkIsNeeded`, `NoRework`). What `DurableRunner` itself assumes is
that one parent runs at a time, which is `SingleRun`.

`StateTruthful` and `NoFutureLost` need no group kill. `StageInv` relates a record to
where its task is: a record, a result or a published object of a task stands for work
done (`WorkIsDone`), a launch finds no call with its own number (`PoolEmpty`: the calls
a kill has spared carry a smaller one, so their results are nobody's), and while it
collects a task is pending exactly as long as it has one future (`OneFuture`). That is
why an empty pool means that every task has a final record when the stage is closed.

For `RunsOneStage` each step is one of `TaskStage` or a stutter: what ends a task is
the end of its future (`FuturesEnd`), one by one or, when the pool breaks, all that are
left at once; recording a result changes nothing a caller could see. `OneFuture` is why
no task ends twice and why nothing is left when the pool is empty. A failed task may
have its object, for a call may fail or die after its rename; that with group kills such
an object is one its own call renamed in this launch, and never one that was there
before, needs `PendingIsNeeded`: a task still pending was found without its object by
the scan, and whatever has been published since is a landed call's (`Made`).
On the other side `StagesPromised` shows that every step of `ResearchRun`'s stages is
one `TaskStage` allows, so the research run relies on nothing but what is proved of the
runner.

`ScheduleRespected` needs to know at each program point which tasks the run
has asked for: `StagePlan` relates the requested tasks to the stage and to gate
and verdict, and `ValidIsMade` that an object that is valid was produced.

What a run publishes rests on `Told`: the five ways a run can end, each with its
outcome, rows, decisions and requested tasks. `Asked` leads each stage to one of them,
`Written` says how far they are on disk, and `ArchivesTold` keeps the fact for every
archive. The reuse of an archive compares decisions, tasks, objects and reports but not
the summary inside; `ToldOnce` shows that decisions and tasks determine the outcome and
the rows, which is why a reused archive still agrees. It needs that a decision made
without an answer names no family (`Undecided`), as the code writes it.

For the checkout, the invariant says what each git command of a preparation has
established when the next one runs, and that a cut removes the job that relied on
it: no later job inherits an unverified head. For the bootstrap it says which of
the facts (worktree whole, environment ready, tests passed) hold for the wanted
commit at each step, and that nothing but the script's own steps moves a link; the
theorem is an action property because a step, not a state, moves it.

For the backup there are two invariants. `BackupInv` holds for any number of commands
at once, because every command saves a ledger that was sound by itself: `Sane` says of
*every* ledger, the file and each command's copy, that bundles are numbered in their
order, that an entry and the one bundle that holds its object agree (`OneStory`) and
that a committed bundle's contents are the registered ones (`Matches`); `Backed`, that
the asset of every bundle is intact at the remote unless somebody else damaged or
removed it (`Held`); `Prepared` says what a command has established at
each step, among it that the groups it has still to pack are disjoint and of unbundled
objects. Disjointness comes from the shape of `Partition`: a group is the set of objects
placed under one first object. That two properties need no exclusion at all while the
other two do is the content of `OneAtATime`: `SerialInv` adds that the running command's
copy follows the file (`Follows`) and claims nothing a verification has condemned
(`NotClaimed`), and the run `backup_overlap` shows both false for two commands.

For the monitor, `NumbersUsedOnce` says that a sample number is in the log or with one
writer, never both and never twice: that is why a whole line is found exactly once.
`WrittenThere` follows each line into its generation, and needs that appending moves
nothing that is there already. For `latest.json`, `ReadInv` compares the state a sampler
read with the one the run has now: in the first launch a conditional row that was read is
still there, and `FirstLaunch` shows that a decision against the families is only ever
made where there is no such row. `ProgressSound` computes the rest: of a state that
`Fits` its families no combination of state and decision counts too many rows.

For the inputs, `WrittenInPlace` says that what a running preparation has behind it is
on the disk as it wrote it or as it accepted it; nothing edits files while it runs.
That is the agreement of a locked run. That a resume is refused for no other reason
needs more: while the sources are as they were and no overwrite was broken off, all
readable files are of one day (`Unmixed`) and a program that goes on with them has
settled on that day (`SettlesOnDay`), so that what it would write is what it finds.
Both need `AbsentAssumption`: the model values for "nothing" and "damaged" are no
date, no lock and no program.

For `Evidence` there are four invariants, one on top of the other, for any set of
methods and any number of edits, damaged objects and kills. `PlanInv`: what a program of
the plan has read so far are versions of files, so that what it writes is a plan (this
needs `MissingAssumption`: no plan is the model value for "no file"), a binding is there
as long as anything was made of it, and a bound plan carries it. `SummaryInv`: while a
stage or a worker runs, the directory holds the plan it executes. `StudyInv` needs both:
a worker has read what stands in its script before `at` (`InScript`), the script checks
each file before it uses it (`ChecksFirst`), what it has checked is what its context
names, and what it has used is what it had checked unless that slipped in between
(`UsesChecked`, all in `WorkerSaw`); an evaluation has verified its embedding and read
it sound unless that slipped (`LooksBack`), how an object ended is decided by its pair
(`ObjectsTruthful`), and in the stage of the evaluations everything the stage is through
with is published unless it lost a task (`EvaluatingProgress`). `DispatchSaw` says the
same of the dispatch and the main manifest: the rows it resolves are those of the digest
the plan names, and they are the rows the tasks were expanded from, which is
`ClaimedPlan`. `ReportInv` keeps the rows of an analysis whole from the moment they are
loaded until the inventory names them.

For the codec the channel is unrestricted: `StreamIsHonest` is about *any* sequence of
symbols, so nothing of Berlekamp-Massey is needed. What is decoded is believed only if
it equals what the header's CRC was taken of, and `Honest` says what may follow from
that: a complete outcome has both layers of the job, because a CRC over their
concatenation determines them when each has the length of its profile
(`SplitConcatenation`; format 1, which has no CRC of its own per layer, needs it) and
because the lengths are those of the profiles (`LayerDecoded`, `ImageLayers`, from
`JobsAssumption`: a profile takes a layer exactly, which `CodeProfilesFit` checks of the
code's own ones). `UnpackPack` and `PixelRecombined` turn layers back into pixels, for
both symbol sizes and every layout. A header names its pair through its seeds
(`DigestNamesThePair`). `S3_PAYLOAD_ECC_FAILURE` is said by the diagnosis, which decodes
each codeword again and looks at each one's own padding; the decoder looks at the
padding of the whole layer. `DiagnosedLayerFailed` shows that they cannot disagree:
every symbol of a codeword has its place in the joined layer (`Flattened`), and what is
padding of a codeword is padding of the layer (`PaddingOf`). `CodecInv` carries these
facts from `Embed` to the reads. The strength search keeps a feasible and an infeasible
end and its bracket shrinks (`BisectSound`); no monotonicity is assumed, and none holds.

The slots. `Good` is what every round of the rounding keeps: the caps are respected and
what is placed and what remains add up to the amount, which is at most the room.
`FloorsFit` says that whole shares never exceed what remains: the shares times the
divisor add up to the amount times the divisor (`SharesFit`), an argument about sums over
bands (`TotalAdds`, `TotalScales`, `TotalMonotone`). `ExtraFits` says that what
remains after them goes, one each, to the bands with the largest fractions, and that
there is at least one such band. So every round with something left places a slot, and
`CappedSound` follows: after `amount` rounds everything is placed, however the caps
bind. When no cap binds one round is enough (`OneRound`): all bands are still open
after the whole shares, so fewer slots remain than there are bands and each gets at most
one of them; that is the fairness of `EmbeddingSound` (`FairShares`). For the order,
`Listing` says that a sequence is a set without repetition; joining listings of sets
apart gives one of their union (`JoinLists`, `FlattenLists`), and falling score is a
permutation of the bands because ranks are (`AllRanks`, `RankedSorts`), ties included. Band
after band (`ByScore`) and place after place (`RoundRobinLists`) therefore list the
same slots, and header and body are apart because the body starts in each band where
the header ends (`PlanSlots`).

Recovery. `ProgressFollowsFromTheRadius` is conditional, as its statement says:
`WithinRadiusCorrected` is its hypothesis, in the same state. What it proves is all the
rest of the way: the header's data symbols are then the ones that were sent, so it is
decoded (`HeaderRestored`); the number of symbols read is the one the header announces, since
the reader's plan has a slot for each (`JobSlots`); a layer all of whose codewords were
restored is the raw layer followed by its padding, because every position of the joined
layer belongs to a codeword (`Located`, `LayerRestored`); and the CRCs, the
seeds and the identity then agree, whatever the Detail layer has become
(`ConcludedFromRestored`). The last point is what the property is about: neither the
header's validity nor the Base verdict may depend on Detail.

The recursions of the codec are functions, so that they can be reasoned about:
induction goes through `AllNumbers`, which says of a *set* of numbers what the induction
theorems of the library say of an operator, and a recursive function is first shown to
exist (`SumsExist`, `JoinsExist`, `BracketsExist`). `Failure`, the code's
`data=None`, is assumed to be no sequence of symbols (`FailureAssumption`: it has an
index 0).

Two theorems are about properties no run checks by themselves: `OneWriter`, which
`NoRework` rests on, and `ReadyPlan` (`PlanInv` contains it).

Only model-checked: everything temporal (`TakeoverAfterCrash`, `StageCompletes`,
`BackupCompletes`, `StudySettles`: liveness under fairness and ENABLED are out of
the prover's reach), and one safety property, `WithinRadiusCorrected`. It is the
correctness of Berlekamp-Massey and of the linear solve over a field, an algebraic
theorem with no invariant of the program in it; TLC decodes every burst of the run over
GF(16), on both sides of the radius.

## 5. Not modelled

- Numerics: transforms, PDFB round trip, attacks, metrics, statistics,
  calibration curves, MATLAB. They keep no state between calls and their
  correctness is about floating point.
- Layout: tables, figures, panels, the rendering of a monitor sample, and its
  resource counters (rates over `/proc` and `nvidia-smi`).
- One-shot scripts whose behaviour is I/O: worker trials, COCO downloads, protocol
  validation, `plan_run.py`, `research_status.py` with `reconstruct_status` (a report
  that changes nothing).
- The inside of `verify` (inventory and marker comparisons); members of a research
  archive; the GitHub backend of the backup, its secret scan and classification;
  disk-full other than the check before the first stage.
- Two programs of one kind at once where the models have one: two claims of one run
  directory in the same instant, two bootstraps. A floating ref in place of a pinned
  commit, and `CTSTEG_RUN_TESTS=0`.
- Workers of a local study in parallel: tasks of a stage share only their inputs, so
  `LocalStudy` runs them one at a time in any order; `DurableRunner` has the pool.

## 6. Open

1. `WithinRadiusCorrected` for every field, data and error pattern: the field laws of
   `Add` and `Mul`, the key equation behind `Massey`, and the regularity of the
   system `SolveGF` solves.
2. `reconstruct_status` as an operator against a definition from cache and ledgers.
