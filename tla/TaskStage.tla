----------------------------- MODULE TaskStage -----------------------------
(***************************************************************************)
(* What DurableTaskRunner.run promises the code that calls it: a stage     *)
(* ends only when every one of its tasks has its object or is reported     *)
(* failed, whatever becomes of the process meanwhile. DurableRunner is run *)
(* with its pool and its checkpoints; ResearchRun calls it three times.    *)
(***************************************************************************)
CONSTANT Objects   \* the objects of the cache; a task has its object's name

VARIABLES
    status,  \* the object store: "absent", "valid" or "damaged"
    phase,   \* "running" while run() computes, "idle" before and after
    left,    \* tasks of the stage that have not ended
    failed,  \* tasks of the stage that failed: what run() returns
    made,    \* tasks left whose object this stage has published
    alone    \* no call of an earlier run can still be at work

vars == <<status, phase, left, failed, made, alone>>

Become(t, condition) == status' = [status EXCEPT ![t] = condition]

Begin(S) ==
    /\ phase = "idle" /\ phase' = "running"
    /\ left' = S /\ failed' = {} /\ made' = {}
    /\ UNCHANGED <<status, alone>>

\* A call renames its object into the cache; it has not returned yet.
Publish(t) ==
    /\ phase = "running" /\ t \in left \ made
    /\ made' = made \cup {t}
    /\ Become(t, "valid")
    /\ UNCHANGED <<phase, left, failed, alone>>

\* A task ends with its object there, found or computed.
Succeed(t) ==
    /\ phase = "running" /\ t \in left
    /\ left' = left \ {t} /\ made' = made \ {t}
    /\ Become(t, "valid")
    /\ UNCHANGED <<phase, failed, alone>>

\* Tasks fail, one alone or all that are left of a broken pool. A call may fail
\* after its rename, now (P) or earlier (made); no task fails whose object was
\* there otherwise, unless a call of an earlier run put it there.
Fail(S, P) ==
    /\ phase = "running" /\ S \subseteq left /\ P \subseteq S
    /\ alone => \A t \in S \ made : status[t] # "valid"
    /\ left' = left \ S /\ failed' = failed \cup S /\ made' = made \ S
    /\ status' = [t \in Objects |-> IF t \in P THEN "valid" ELSE status[t]]
    /\ UNCHANGED <<phase, alone>>

Close ==
    /\ phase = "running" /\ phase' = "idle"
    /\ left = {}
    /\ UNCHANGED <<status, left, failed, made, alone>>

\* Interrupted or killed, or its result is dropped: nothing is returned.
Abandon ==
    /\ phase' = "idle" /\ left' = {} /\ failed' = {} /\ made' = {}
    /\ UNCHANGED <<status, alone>>

\* A call publishes that outlived its run, or its future in a broken pool.
Appear(t) ==
    /\ alone => phase = "idle" \/ t \in failed
    /\ Become(t, "valid")
    /\ UNCHANGED <<phase, left, failed, made, alone>>

Decay(t) ==
    /\ status[t] = "valid"
    /\ Become(t, "damaged")
    /\ UNCHANGED <<phase, left, failed, made, alone>>

Init ==
    /\ status = [t \in Objects |-> "absent"]
    /\ phase = "idle"
    /\ left = {} /\ failed = {} /\ made = {}
    /\ alone \in BOOLEAN

Next ==
    \/ \E S \in SUBSET Objects : Begin(S) \/ \E P \in SUBSET S : Fail(S, P)
    \/ \E t \in Objects : Publish(t) \/ Succeed(t) \/ Appear(t) \/ Decay(t)
    \/ Close \/ Abandon

Spec == Init /\ [][Next]_vars

=============================================================================
