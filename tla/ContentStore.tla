---------------------------- MODULE ContentStore ----------------------------
(***************************************************************************)
(* The durable cache of ctsteg.runtime (class ContentStore) and the worker *)
(* entry points that go through it: look the object up, produce it in a    *)
(* private attempt directory, publish the directory with one rename.       *)
(*                                                                         *)
(* One element of Workers is one call of execute_internal_task,            *)
(* execute_baseline_task or worker_execute_task. The call and the attempt  *)
(* directory it creates have the same name: no directory is ever reused.   *)
(***************************************************************************)
EXTENDS FiniteSets

CONSTANTS
    Workers,     \* calls of a worker entry point
    Objects,     \* object ids
    DependsOn,   \* the embedding an evaluation reads, NoObject for embeddings
    NoObject,
    Nobody,      \* no directory
    Shared       \* TRUE: two live workers may be at the same object

ASSUME NamesAssumption ==
    /\ Nobody \notin Workers
    /\ NoObject \notin Objects
    /\ DependsOn \in [Objects -> Objects \cup {NoObject}]
ASSUME SharedAssumption == Shared \in BOOLEAN

VARIABLES
    pc,          \* where each call stands; its last value is the status it returns
    target,      \* the object each call was given
    attempts,    \* directories under attempts/
    published,   \* the directory at objects/<id>, if any
    quarantine,  \* directories under quarantine/
    sealed,      \* directories with _inventory.json and COMPLETED.json
    damaged,     \* sealed directories that no longer match their inventory
    moved,       \* the directory each call renamed into quarantine/
    noted,       \* quarantined directories with their QUARANTINED.json
    cause        \* why a call failed

dirs == <<attempts, published, quarantine>>
marks == <<sealed, damaged, noted>>
vars == <<pc, target, dirs, marks, moved, cause>>

-----------------------------------------------------------------------------
Working == {"lookup", "produce", "check", "quarantine", "note", "seal",
            "publish", "confirm", "fail"}
Returned == {"cached", "completed", "failed"}
Causes == {"none", "producer", "io", "dependency", "no_such_file", "not_empty", "invalid"}

Live(w) == pc[w] \in Working

\* verify(object_id, deep=True): the marker is there and every file matches.
Intact(d) == d \in sealed /\ d \notin damaged
Valid(o)  == published[o] # Nobody /\ Intact(published[o])

Goto(w, label) == pc' = [pc EXCEPT ![w] = label]

Fail(w, why) ==
    /\ Goto(w, "fail")
    /\ cause' = [cause EXCEPT ![w] = why]

-----------------------------------------------------------------------------
\* A call is dispatched. Unless Shared, whoever dispatches waits until no
\* other call is at the same object (unique ids in a stage, one run at a time).
Start(w, o) ==
    /\ pc[w] = "idle"
    /\ Shared \/ \A v \in Workers : ~ (Live(v) /\ target[v] = o)
    /\ target' = [target EXCEPT ![w] = o]
    /\ Goto(w, "lookup")
    /\ UNCHANGED <<dirs, marks, moved, cause>>

\* A valid object is a cache hit; otherwise begin_attempt makes a directory.
Lookup(w) ==
    /\ pc[w] = "lookup"
    /\ IF Valid(target[w])
       THEN Goto(w, "cached") /\ UNCHANGED attempts
       ELSE Goto(w, "produce") /\ attempts' = attempts \cup {w}
    /\ UNCHANGED <<target, published, quarantine, marks, moved, cause>>

\* An evaluation first verifies the embedding it decodes.
Produce(w) ==
    /\ pc[w] = "produce"
    /\ LET needed == DependsOn[target[w]] IN
       IF needed # NoObject /\ ~ Valid(needed)
       THEN Fail(w, "dependency")
       ELSE Goto(w, "check") /\ UNCHANGED cause
    /\ UNCHANGED <<target, dirs, marks, moved>>

\* The producer raises.
ProducerFails(w) ==
    /\ pc[w] = "produce"
    /\ Fail(w, "producer")
    /\ UNCHANGED <<target, dirs, marks, moved>>

\* Mutant: `if existing.path.exists()` is dropped.
CheckWithoutExists(w) ==
    /\ pc[w] = "check"
    /\ Goto(w, IF Valid(target[w]) THEN "completed" ELSE "quarantine")
    /\ UNCHANGED <<target, dirs, marks, moved, cause>>

\* commit_attempt: somebody else's valid object wins (DUPLICATE.json), an
\* invalid one has to go first.
Check(w) ==
    /\ pc[w] = "check"
    /\ Goto(w, IF Valid(target[w]) THEN "completed"
               ELSE IF published[target[w]] # Nobody THEN "quarantine" ELSE "seal")
    /\ UNCHANGED <<target, dirs, marks, moved, cause>>

\* Mutant: the invalid directory is removed instead of moved.
QuarantineByRemoval(w) ==
    /\ pc[w] = "quarantine"
    /\ published' = [published EXCEPT ![target[w]] = Nobody]
    /\ Goto(w, "seal")
    /\ UNCHANGED <<target, attempts, quarantine, marks, moved, cause>>

\* os.replace(objects/<id>, quarantine/<unique>): whatever is there now.
Quarantine(w) ==
    /\ pc[w] = "quarantine"
    /\ LET o == target[w] IN
       IF published[o] = Nobody
       THEN Fail(w, "no_such_file") /\ UNCHANGED <<published, quarantine, moved>>
       ELSE /\ quarantine' = quarantine \cup {published[o]}
            /\ moved' = [moved EXCEPT ![w] = published[o]]
            /\ published' = [published EXCEPT ![o] = Nobody]
            /\ Goto(w, "note")
            /\ UNCHANGED cause
    /\ UNCHANGED <<target, attempts, marks>>

Note(w) ==
    /\ pc[w] = "note"
    /\ noted' = noted \cup {moved[w]}
    /\ Goto(w, "seal")
    /\ UNCHANGED <<target, dirs, sealed, damaged, moved, cause>>

\* Mutant: the rename comes before the completion marker.
SealAfterRename(w) ==
    /\ pc[w] = "seal"
    /\ Goto(w, "publish")
    /\ UNCHANGED <<target, dirs, marks, moved, cause>>

\* _inventory.json, then the COMPLETED.json that names its hash.
Seal(w) ==
    /\ pc[w] = "seal"
    /\ sealed' = sealed \cup {w}
    /\ Goto(w, "publish")
    /\ UNCHANGED <<target, dirs, damaged, noted, moved, cause>>

\* os.replace(attempt, objects/<id>) fails on a directory that is not empty.
Publish(w) ==
    /\ pc[w] = "publish"
    /\ LET o == target[w] IN
       IF published[o] # Nobody
       THEN Fail(w, "not_empty") /\ UNCHANGED <<published, attempts>>
       ELSE /\ published' = [published EXCEPT ![o] = w]
            /\ attempts' = attempts \ {w}
            /\ Goto(w, "confirm")
            /\ UNCHANGED cause
    /\ UNCHANGED <<target, quarantine, marks, moved>>

Confirm(w) ==
    /\ pc[w] = "confirm"
    /\ IF Valid(target[w])
       THEN Goto(w, "completed") /\ UNCHANGED cause
       ELSE Fail(w, "invalid")
    /\ UNCHANGED <<target, dirs, marks, moved>>

\* Mutant: the except branch falls through to the success result.
FailureSwallowed(w) ==
    /\ pc[w] = "fail"
    /\ Goto(w, "completed")
    /\ UNCHANGED <<target, dirs, marks, moved, cause>>

\* record_failure writes FAILED.json into the attempt; if that was renamed
\* already, into a new directory that takes its name.
RecordFailure(w) ==
    /\ pc[w] = "fail"
    /\ Goto(w, "failed")
    /\ attempts' = attempts \cup {w}
    /\ UNCHANGED <<target, published, quarantine, marks, moved, cause>>

\* A write, an fsync or the verification raises on the way, before or after
\* the rename it was part of.
StepFails(w) ==
    /\ pc[w] \in {"check", "quarantine", "note", "seal", "publish", "confirm"}
    /\ Fail(w, "io")
    /\ UNCHANGED <<target, dirs, marks, moved>>

-----------------------------------------------------------------------------
\* A worker is killed; its attempt stays where it is.
Crash(w) ==
    /\ Live(w)
    /\ Goto(w, "crashed")
    /\ UNCHANGED <<target, dirs, marks, moved, cause>>

\* A published directory loses or changes a file: a partial restore, a disk.
Damage(o) ==
    /\ Valid(o)
    /\ damaged' = damaged \cup {published[o]}
    /\ UNCHANGED <<pc, target, dirs, sealed, noted, moved, cause>>

-----------------------------------------------------------------------------
Init ==
    /\ pc = [w \in Workers |-> "idle"]
    /\ target = [w \in Workers |-> NoObject]
    /\ attempts = {}
    /\ published = [o \in Objects |-> Nobody]
    /\ quarantine = {}
    /\ sealed = {}
    /\ damaged = {}
    /\ moved = [w \in Workers |-> Nobody]
    /\ noted = {}
    /\ cause = [w \in Workers |-> "none"]

CommitStep(w) ==
    Check(w) \/ Quarantine(w) \/ Note(w) \/ Seal(w) \/ Publish(w) \/ Confirm(w)

Step(w) ==
    \/ Lookup(w) \/ Produce(w) \/ ProducerFails(w)
    \/ CommitStep(w) \/ StepFails(w) \/ RecordFailure(w)

Next ==
    \/ \E w \in Workers : Step(w) \/ Crash(w) \/ \E o \in Objects : Start(w, o)
    \/ \E o \in Objects : Damage(o)

Spec == Init /\ [][Next]_vars

-----------------------------------------------------------------------------
(* Properties                                                              *)

TypeOK ==
    /\ pc \in [Workers -> {"idle", "crashed"} \cup Working \cup Returned]
    /\ target \in [Workers -> Objects \cup {NoObject}]
    /\ \A w \in Workers : pc[w] # "idle" => target[w] \in Objects
    /\ attempts \subseteq Workers
    /\ published \in [Objects -> Workers \cup {Nobody}]
    /\ quarantine \subseteq Workers
    /\ sealed \subseteq Workers
    /\ damaged \subseteq Workers
    /\ moved \in [Workers -> Workers \cup {Nobody}]
    /\ \A w \in Workers : pc[w] = "note" => moved[w] \in Workers
    /\ noted \subseteq Workers
    /\ cause \in [Workers -> Causes]

\* Whatever dies whenever, objects/ never shows a directory that was not
\* completed for that very object: the rename is the publication.
NoPartialObject ==
    \A o \in Objects :
        published[o] # Nobody => published[o] \in sealed /\ target[published[o]] = o

\* No evidence is destroyed: a directory once begun is in exactly one of
\* attempts/, objects/ and quarantine/, whatever renames race; only a call that
\* failed may have a second one, of its name, that holds its FAILED.json.
Places(w) ==
    {<<"attempts", w>> : x \in attempts \cap {w}}
        \cup {<<"quarantine", w>> : x \in quarantine \cap {w}}
        \cup {<<"objects", o>> : o \in {o \in Objects : published[o] = w}}

NotBegun == {"idle", "lookup", "cached"}

DirectoriesKept ==
    \A w \in Workers :
        /\ pc[w] \notin NotBegun \cup {"crashed"} => Places(w) # {}
        /\ w \in sealed => Places(w) # {}
        /\ \A a, b \in Places(w) \ {<<"attempts", w>>} : a = b
        /\ pc[w] # "failed" => \A a, b \in Places(w) : a = b

\* Only storage takes a valid object away: with one writer per object,
\* quarantine/ receives only directories that no longer verify.
QuarantineOnlyDamaged == quarantine \subseteq damaged

\* A call that reported success left an object behind that only damage, and
\* the retry that follows it, can have removed.
SuccessHasObject ==
    \A w \in Workers :
        pc[w] \in {"cached", "completed"} =>
            \E d \in sealed : /\ target[d] = target[w]
                              /\ published[target[w]] = d \/ d \in damaged

\* With one writer per object the renames of commit_attempt find what the
\* check before them saw: a call fails only for a reason outside the store.
CommitUncontended ==
    \A w \in Workers : cause[w] \notin {"no_such_file", "not_empty"}

\* The reason of every eviction is on disk before the evicted object's
\* replacement appears, and stays: docs/RUNTIME_EXECUTION_GATE.md.
ReasonPreserved ==
    \A d \in quarantine :
        d \in noted \/ \E w \in Workers : pc[w] = "note" /\ moved[w] = d

-----------------------------------------------------------------------------
(* The inductive invariants behind the properties.                         *)

\* A directory is complete before its rename, renamed once, and only ever
\* found damaged after that.
AfterRename == {"confirm", "fail", "crashed", "completed", "failed"}

SealedFirst ==
    /\ \A w \in Workers : pc[w] = "publish" => w \in sealed
    /\ \A d \in sealed : pc[d] \in {"publish"} \cup AfterRename
    /\ \A d \in damaged : pc[d] \in AfterRename
    /\ \A o \in Objects : published[o] # Nobody => pc[published[o]] \in AfterRename

\* Where a directory is, seen from where its call stands.
InPlace(w) == published[target[w]] = w

KeptInv ==
    \A w \in Workers :
        /\ pc[w] \in NotBegun => w \notin attempts \cup quarantine
        /\ pc[w] \in {"produce", "check", "quarantine", "note", "seal", "publish"}
              => w \in attempts
        /\ pc[w] \notin NotBegun \cup {"crashed"} \/ w \in sealed
              => w \in attempts \cup quarantine \/ InPlace(w)
        /\ pc[w] = "failed" => w \in attempts
        /\ (w \in attempts /\ pc[w] # "failed") => w \notin quarantine /\ ~ InPlace(w)
        /\ w \in quarantine => ~ InPlace(w)

OneWriter ==
    \A v, w \in Workers : Live(v) /\ Live(w) /\ target[v] = target[w] => v = w

\* What commit_attempt checked still holds when it acts on it.
CheckStillCurrent ==
    \A w \in Workers :
        /\ pc[w] = "quarantine" =>
              published[target[w]] # Nobody /\ ~ Valid(target[w])
        /\ pc[w] \in {"note", "seal", "publish"} => published[target[w]] = Nobody

-----------------------------------------------------------------------------
(* With one writer per object, the store implements ObjectStore.           *)

StatusOf(o) ==
    IF published[o] = Nobody THEN "absent"
    ELSE IF Intact(published[o]) THEN "valid" ELSE "damaged"

abstractStatus == [o \in Objects |-> StatusOf(o)]

Abstract == INSTANCE ObjectStore WITH status <- abstractStatus

ImplementsObjectStore == Abstract!Spec

=============================================================================
