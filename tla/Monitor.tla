------------------------------- MODULE Monitor -------------------------------
(***************************************************************************)
(* src/ctsteg/runtime_monitor.py: the sampler of ctsteg-monitor@.service   *)
(* and an operator's research-monitor --once read a run that goes on       *)
(* beside them and write latest.json and samples.jsonl.                    *)
(***************************************************************************)
EXTENDS Naturals, Sequences

CONSTANTS
    Nothing,      \* no sample, no summary, no decision
    MaxLaunches,  \* bound on the launches of the run
    MaxSamples,   \* bound on the samples of a behaviour
    MaxFailures   \* bound on short writes and kills, and on rotations

ASSUME NothingAssumption == Nothing \notin Nat

Writers == {"service", "operator"}

\* The stages in order, and the totals a monitor assumes before they start.
Stages == <<"embeddings", "core", "conditional">>
Default == [embeddings |-> 16, core |-> 48, conditional |-> 24]

VARIABLES
    active,       \* the process the run lock names is alive
    families,     \* conditional families the core results trigger
    stage,        \* the stage the run is at
    begun,        \* whether that stage has started in this launch
    launches,
    state,        \* state.json: what it says of each stage
    triggered,    \* trigger_decisions.json: the number of families, or Nothing
    summary,      \* the status in run_summary.json, or Nothing
    sampler,      \* of each writer: its next step
    draft,        \* and the sample it is making
    opened,       \* and the generation of samples.jsonl it has open
    latest,       \* latest.json
    logs,         \* of each generation: the fragments written to it, in order
    written,      \* the samples whose line went to disk whole
    samples,
    failures

monitorVars == <<families, active, stage, begun, launches, state, triggered,
                 summary, sampler, draft, opened, latest, logs, written, samples, failures>>
runSide == <<families, active, stage, begun, launches, state, triggered, summary>>

NotStarted == [status |-> "not_started", total |-> 0, finished |-> 0, failed |-> 0]

MonitorInit ==
    /\ families \in {0, 3}
    /\ active = FALSE /\ stage = 1 /\ begun = FALSE /\ launches = 0
    /\ triggered = Nothing /\ summary = Nothing
    /\ state = [s \in DOMAIN Default |-> NotStarted]
    /\ sampler = [w \in Writers |-> "idle"]
    /\ draft = [w \in Writers |-> Nothing]
    /\ opened = [w \in Writers |-> 0]
    /\ latest = Nothing /\ logs = << <<>> >> /\ written = {}
    /\ samples = 0 /\ failures = 0

-----------------------------------------------------------------------------
\* What a sample says, computed from one reading of each file.
TotalOf(s, decided) ==
    IF s = "conditional" /\ decided # Nothing THEN 8 * decided ELSE Default[s]

Counts(st, s, decided) ==
    LET total == IF st[s].total = 0 THEN TotalOf(s, decided) ELSE st[s].total
        done  == IF st[s].finished < total THEN st[s].finished ELSE total
        left  == total - done - st[s].failed IN
    [status |-> st[s].status, finished |-> done, remaining |-> IF left > 0 THEN left ELSE 0]

\* The running stage, else the first with something left.
CurrentStage(counts) ==
    LET running_ == SelectSeq(Stages, LAMBDA s : counts[s].status = "running")
        open     == SelectSeq(Stages, LAMBDA s : counts[s].remaining > 0) IN
    Head(running_ \o open \o <<"finished">>)

Progress(st, decided) ==
    LET counts == [s \in DOMAIN Default |-> Counts(st, s, decided)]
        evaluated == counts["embeddings"].finished + counts["core"].finished
        mandatory == IF evaluated < 64 THEN evaluated ELSE 64 IN
    [stage     |-> CurrentStage(counts),
     mandatory |-> mandatory,
     completed |-> mandatory + counts["conditional"].finished,
     selected  |-> IF decided = Nothing THEN Nothing ELSE 64 + 8 * decided]

-----------------------------------------------------------------------------
\* The run beside the monitor: it holds the lock, rewrites state.json by
\* rename, and ends with its decisions and a summary; a launch after one that
\* was killed or failed does every stage again.
Files == <<sampler, draft, opened, latest, logs, written, samples, failures>>
OnStage == active /\ stage <= Len(Stages)
Entry == state[Stages[stage]]
NextStage == stage' = stage + 1 /\ begun' = FALSE

RunLaunches ==
    /\ ~ active /\ summary # "complete" /\ launches < MaxLaunches
    /\ active' = TRUE /\ stage' = 1 /\ begun' = FALSE /\ launches' = launches + 1
    /\ UNCHANGED <<families, state, triggered, summary, Files>>

\* A stage's entry is replaced when it starts; without a triggered family the
\* conditional stage never does.
StageStarts ==
    /\ OnStage /\ ~ begun
    /\ LET s == Stages[stage]
           total == TotalOf(s, families) IN
       IF total = 0
       THEN NextStage /\ UNCHANGED state
       ELSE /\ state' = [state EXCEPT ![s] = [status |-> "running", total |-> total,
                                              finished |-> 0, failed |-> 0]]
            /\ begun' = TRUE /\ UNCHANGED stage
    /\ UNCHANGED <<families, active, launches, triggered, summary, Files>>

\* The tasks of a stage, taken together.
StageEnds ==
    /\ OnStage /\ begun
    /\ state' = [state EXCEPT ![Stages[stage]].finished = Entry.total,
                               ![Stages[stage]].status = "complete"]
    /\ NextStage
    /\ UNCHANGED <<families, active, launches, triggered, summary, Files>>

\* trigger_decisions.json is written when a launch ends.
Decides(n) == triggered' = n

\* A failed task ends the run, before the conditional stage with no family.
StageFails ==
    /\ OnStage /\ begun
    /\ state' = [state EXCEPT ![Stages[stage]].failed = 1,
                               ![Stages[stage]].finished = Entry.total - 1,
                               ![Stages[stage]].status = "failed"]
    /\ Decides(IF Stages[stage] = "conditional" THEN families ELSE 0)
    /\ summary' = "operational_failure" /\ active' = FALSE
    /\ UNCHANGED <<families, stage, begun, launches, Files>>

RunEnds ==
    /\ active /\ stage > Len(Stages)
    /\ Decides(families)
    /\ summary' = "complete" /\ active' = FALSE
    /\ UNCHANGED <<families, state, stage, begun, launches, Files>>

RunKilled ==
    /\ active /\ failures < MaxFailures
    /\ failures' = failures + 1
    /\ active' = FALSE
    /\ UNCHANGED <<families, state, stage, begun, launches, triggered, summary,
                   sampler, draft, opened, latest, logs, written, samples>>

-----------------------------------------------------------------------------
Step(w, from, to) == sampler[w] = from /\ sampler' = [sampler EXCEPT ![w] = to]

\* discover_research_run: the lock decides whether the run is active; without a
\* run there is nothing more to read.
Discover(w) ==
    /\ Step(w, "idle", IF launches = 0 THEN "latest" ELSE "progress")
    /\ samples < MaxSamples
    /\ samples' = samples + 1
    /\ draft' = [draft EXCEPT ![w] = [id |-> samples + 1, active |-> active, read |-> Nothing,
           progress |-> Nothing, relaunched |-> FALSE, lifecycle |-> Nothing]]
    /\ UNCHANGED <<runSide, opened, latest, logs, written, failures>>

\* build_progress reads state.json ...
ReadState(w) ==
    /\ Step(w, "progress", "decisions")
    /\ draft' = [draft EXCEPT ![w].read = state]
    /\ UNCHANGED <<runSide, opened, latest, logs, written, samples, failures>>

\* ... and then the decisions; an earlier launch may have left either.
ReadDecisions(w) ==
    /\ Step(w, "decisions", "summary")
    /\ draft' = [draft EXCEPT ![w].read = Nothing, ![w].relaunched = launches > 1,
                              ![w].progress = Progress(draft[w].read, triggered)]
    /\ UNCHANGED <<runSide, opened, latest, logs, written, samples, failures>>

\* The summary is read last and used when the run was not active.
ReadSummary(w) ==
    /\ Step(w, "summary", "latest")
    /\ draft' = [draft EXCEPT ![w].lifecycle =
           IF draft[w].active THEN "running"
           ELSE IF summary = Nothing THEN "inactive" ELSE summary]
    /\ UNCHANGED <<runSide, opened, latest, logs, written, samples, failures>>

\* atomic_write_json of latest.json.
WriteLatest(w) ==
    /\ Step(w, "latest", "open")
    /\ latest' = draft[w]
    /\ UNCHANGED <<runSide, draft, opened, logs, written, samples, failures>>

\* open(O_WRONLY | O_APPEND | O_CREAT) of samples.jsonl: the present generation.
OpenLog(w) ==
    /\ Step(w, "open", "append")
    /\ opened' = [opened EXCEPT ![w] = Len(logs)]
    /\ UNCHANGED <<runSide, draft, latest, logs, written, samples, failures>>

\* [mutant] Without O_APPEND a write goes over what the file begins with.
PlaceAtStart(fragments, f) == <<f>> \o SubSeq(fragments, 2, Len(fragments))

\* With O_APPEND a write goes to the end of the file as it is then.
Place(fragments, f) == Append(fragments, f)

\* One os.write of the line and its newline: whole, or cut short by a full disk
\* (its count is not looked at), a kill or a power loss.
AppendLine(w) ==
    /\ Step(w, "append", "idle")
    /\ \E whole \in BOOLEAN :
        /\ ~ whole => failures < MaxFailures
        /\ failures' = IF whole THEN failures ELSE failures + 1
        /\ logs' = [logs EXCEPT ![opened[w]] = Place(@, [id |-> draft[w].id, whole |-> whole])]
        /\ written' = IF whole THEN written \cup {draft[w].id} ELSE written
    /\ draft' = [draft EXCEPT ![w] = Nothing]
    /\ UNCHANGED <<runSide, opened, latest, samples>>

\* systemd restarts a killed service after ten seconds: it samples anew.
WriterKilled(w) ==
    /\ sampler[w] # "idle" /\ failures < MaxFailures
    /\ failures' = failures + 1
    /\ sampler' = [sampler EXCEPT ![w] = "idle"]
    /\ draft' = [draft EXCEPT ![w] = Nothing]
    /\ UNCHANGED <<runSide, opened, latest, logs, written, samples>>

\* logrotate renames a log that is not empty; open descriptors follow the file.
Rotate ==
    /\ logs[Len(logs)] # <<>> /\ Len(logs) <= MaxFailures
    /\ logs' = Append(logs, <<>>)
    /\ UNCHANGED <<runSide, sampler, draft, opened, latest, written, samples, failures>>

MonitorNext ==
    \/ RunLaunches
    \/ StageStarts
    \/ StageEnds
    \/ StageFails
    \/ RunEnds
    \/ RunKilled
    \/ \E w \in Writers :
        \/ Discover(w)
        \/ ReadState(w)
        \/ ReadDecisions(w)
        \/ ReadSummary(w)
        \/ WriteLatest(w)
        \/ OpenLog(w)
        \/ AppendLine(w)
        \/ WriterKilled(w)
    \/ Rotate

MonitorSpec == MonitorInit /\ [][MonitorNext]_monitorVars

-----------------------------------------------------------------------------
\* In a run that was launched once, latest.json never counts more rows than it
\* says are selected, whichever of the study's files were read before and after
\* its steps. (Entries and decisions left by an earlier launch can break this.)
CompletedWithinSelected ==
    (latest # Nothing /\ latest.progress # Nothing) =>
        \/ latest.relaunched \/ latest.progress.selected = Nothing
        \/ latest.progress.completed <= latest.progress.selected

\* Every sample whose line went to disk whole stays in one generation of
\* samples.jsonl, whole and once, whichever writers, short writes, kills and
\* rotations come between; so a reader loses no more lines than were cut short
\* and those right behind them.
SamplesContained ==
    \A n \in written : \E g \in DOMAIN logs : \E i \in DOMAIN logs[g] :
        /\ logs[g][i] = [id |-> n, whole |-> TRUE]
        /\ \A h \in DOMAIN logs : \A j \in DOMAIN logs[h] :
               logs[h][j].id = n => h = g /\ j = i

\* What the monitor's two files tell a reader.
MonitorTellsTruth == CompletedWithinSelected /\ SamplesContained

=============================================================================
