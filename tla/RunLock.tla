------------------------------ MODULE RunLock ------------------------------
(***************************************************************************)
(* The single-run lock of ctsteg.runtime (class RunLock): one file,        *)
(* run.lock, published with O_CREAT|O_EXCL and written afterwards, moved   *)
(* to locks/stale/ when its owner is judged dead and to locks/released/    *)
(* when its owner leaves.                                                  *)
(*                                                                         *)
(* One element of Procs is one invocation of the program: its token, its   *)
(* pid and the inode of the lock file it creates all have its identity.    *)
(***************************************************************************)
EXTENDS Naturals

CONSTANTS
    Procs,      \* invocations of the program that share one run directory
    HostOf,     \* the host each invocation runs on
    NoLock,     \* run.lock (or an evidence file) does not exist
    Torn,       \* a lock file that exists but does not parse as JSON
    Overlap,    \* TRUE: acquire() of two live invocations may interleave
    MaxBoots    \* bound on the number of reboots

ASSUME TokensAssumption == NoLock \notin Procs /\ Torn \notin Procs /\ Torn # NoLock
ASSUME BootsAssumption  == MaxBoots \in Nat
ASSUME OverlapAssumption == Overlap \in BOOLEAN

VARIABLES
    pc,        \* where each invocation stands
    lock,      \* the inode run.lock names: the invocation that created it
    written,   \* invocations whose payload reached their inode
    bootOf,    \* the boot_id each payload records
    seen,      \* acquire's local `existing`: the payload it read
    stale,     \* the file each invocation put under locks/stale
    released,  \* the file each invocation put under locks/released
    boot,      \* the boot_id of the machine
    reused     \* dead invocations whose pid an unrelated process now has

vars == <<pc, lock, written, bootOf, seen, stale, released, boot, reused>>

-----------------------------------------------------------------------------
Acquiring == {"exists", "read", "judge", "move", "rewrite", "create", "write"}
Holding   == {"held", "moveOwn"}
Releasing == {"rewriteOwn"}
Ended     == {"released", "refused", "failed", "crashed"}

Live(p) == pc[p] \in Acquiring \cup Holding \cup Releasing

(* A lock file is either an inode renamed as it is, whose contents follow  *)
(* the writes of the invocation that created it, or a fresh copy.          *)
Payload == Procs \cup {Torn}
Evidence == [kind: {"moved", "rewritten"}, of: Payload]

\* "No such file" is not itself a file.
ASSUME NoFileAssumption == NoLock \notin Evidence

InodeContent(q) == IF q \in written THEN q ELSE Torn

Content(f) == IF f.kind = "moved" THEN InodeContent(f.of) ELSE f.of

Goto(p, label) == pc' = [pc EXCEPT ![p] = label]

-----------------------------------------------------------------------------
(* acquire()                                                               *)

\* The invocation enters acquire(). Without Overlap the operator starts an
\* invocation only when no other one is between its check and its own lock.
Start(p) ==
    /\ pc[p] = "idle"
    /\ Overlap \/ \A q \in Procs : pc[q] \notin Acquiring
    /\ Goto(p, "exists")
    /\ UNCHANGED <<lock, written, bootOf, seen, stale, released, boot, reused>>

Exists(p) ==
    /\ pc[p] = "exists"
    /\ Goto(p, IF lock = NoLock THEN "create" ELSE "read")
    /\ UNCHANGED <<lock, written, bootOf, seen, stale, released, boot, reused>>

\* Mutant: a vanished file is read as None instead of an empty payload.
ReadMissingAsNone(p) ==
    /\ pc[p] = "read"
    /\ seen' = [seen EXCEPT ![p] = IF lock = NoLock THEN NoLock
                                                    ELSE InodeContent(lock)]
    /\ Goto(p, "judge")
    /\ UNCHANGED <<lock, written, bootOf, stale, released, boot, reused>>

\* A file that vanished or does not parse is read as an empty payload.
Read(p) ==
    /\ pc[p] = "read"
    /\ seen' = [seen EXCEPT ![p] = IF lock = NoLock THEN Torn
                                                    ELSE InodeContent(lock)]
    /\ Goto(p, "judge")
    /\ UNCHANGED <<lock, written, bootOf, stale, released, boot, reused>>

\* Mutant: EPERM from os.kill(pid, 0) taken for a dead owner.
DeadOnEPERM(q) == q \in reused

\* _pid_is_alive: the kernel only knows the pid, not who has it.
PidIsAlive(q) == Live(q) \/ q \in reused

OwnerIsActive(p, q) ==
    /\ q \in Procs
    /\ HostOf[q] = HostOf[p]
    /\ bootOf[q] = boot
    /\ PidIsAlive(q)

\* Mutant: an unreadable lock is taken for an active one.
JudgeTornAsActive(p) ==
    /\ pc[p] = "judge"
    /\ Goto(p, IF seen[p] = Torn \/ OwnerIsActive(p, seen[p])
               THEN "refused" ELSE "move")
    /\ UNCHANGED <<lock, written, bootOf, seen, stale, released, boot, reused>>

Judge(p) ==
    /\ pc[p] = "judge"
    /\ Goto(p, IF OwnerIsActive(p, seen[p]) THEN "refused" ELSE "move")
    /\ UNCHANGED <<lock, written, bootOf, seen, stale, released, boot, reused>>

\* os.replace(lock_path, destination): whatever run.lock names now is moved;
\* with no file there the FileNotFoundError ends the invocation.
Move(p) ==
    /\ pc[p] = "move"
    /\ IF lock = NoLock
       THEN Goto(p, "failed") /\ UNCHANGED <<lock, stale>>
       ELSE /\ stale' = [stale EXCEPT ![p] = [kind |-> "moved", of |-> lock]]
            /\ lock' = NoLock
            /\ Goto(p, "rewrite")
    /\ UNCHANGED <<written, bootOf, seen, released, boot, reused>>

\* Mutant: only the reason is written, without the payload it archives.
RewriteReasonOnly(p) ==
    /\ pc[p] = "rewrite"
    /\ stale' = [stale EXCEPT ![p] = [kind |-> "rewritten", of |-> Torn]]
    /\ Goto(p, "create")
    /\ UNCHANGED <<lock, written, bootOf, seen, released, boot, reused>>

\* atomic_write_json(destination, existing + reason) replaces the moved file.
Rewrite(p) ==
    /\ pc[p] = "rewrite"
    /\ stale' = [stale EXCEPT ![p] = [kind |-> "rewritten", of |-> seen[p]]]
    /\ Goto(p, "create")
    /\ UNCHANGED <<lock, written, bootOf, seen, released, boot, reused>>

\* os.open(O_CREAT | O_EXCL): an existing file is a FileExistsError.
Create(p) ==
    /\ pc[p] = "create"
    /\ IF lock = NoLock
       THEN /\ lock' = p
            /\ bootOf' = [bootOf EXCEPT ![p] = boot]
            /\ Goto(p, "write")
       ELSE Goto(p, "failed") /\ UNCHANGED <<lock, bootOf>>
    /\ UNCHANGED <<written, seen, stale, released, boot, reused>>

\* os.write, fsync, close: the payload reaches the inode, wherever it is now.
Write(p) ==
    /\ pc[p] = "write"
    /\ written' = written \cup {p}
    /\ Goto(p, "held")
    /\ UNCHANGED <<lock, bootOf, seen, stale, released, boot, reused>>

-----------------------------------------------------------------------------
(* release()                                                               *)

\* A missing or unreadable lock is left alone; another token is an error.
ReadOwn(p) ==
    /\ pc[p] = "held"
    /\ Goto(p, IF lock = NoLock \/ InodeContent(lock) = Torn THEN "released"
               ELSE IF InodeContent(lock) = p THEN "moveOwn" ELSE "failed")
    /\ UNCHANGED <<lock, written, bootOf, seen, stale, released, boot, reused>>

MoveOwn(p) ==
    /\ pc[p] = "moveOwn"
    /\ IF lock = NoLock
       THEN Goto(p, "failed") /\ UNCHANGED <<lock, released>>
       ELSE /\ released' = [released EXCEPT ![p] = [kind |-> "moved", of |-> lock]]
            /\ lock' = NoLock
            /\ Goto(p, "rewriteOwn")
    /\ UNCHANGED <<written, bootOf, seen, stale, boot, reused>>

RewriteOwn(p) ==
    /\ pc[p] = "rewriteOwn"
    /\ released' = [released EXCEPT ![p] = [kind |-> "rewritten", of |-> p]]
    /\ Goto(p, "released")
    /\ UNCHANGED <<lock, written, bootOf, seen, stale, boot, reused>>

-----------------------------------------------------------------------------
(* The environment: kills, reboots, and pids handed to other programs.     *)

Crash(p) ==
    /\ Live(p)
    /\ Goto(p, "crashed")
    /\ UNCHANGED <<lock, written, bootOf, seen, stale, released, boot, reused>>

Reboot ==
    /\ boot < MaxBoots
    /\ boot' = boot + 1
    /\ reused' = {}
    /\ pc' = [p \in Procs |-> IF Live(p) THEN "crashed" ELSE pc[p]]
    /\ UNCHANGED <<lock, written, bootOf, seen, stale, released>>

PidReused(p) ==
    /\ pc[p] \in Ended
    /\ reused' = reused \cup {p}
    /\ UNCHANGED <<pc, lock, written, bootOf, seen, stale, released, boot>>

PidFreed(p) ==
    /\ p \in reused
    /\ reused' = reused \ {p}
    /\ UNCHANGED <<pc, lock, written, bootOf, seen, stale, released, boot>>

-----------------------------------------------------------------------------
Init ==
    /\ pc = [p \in Procs |-> "idle"]
    /\ lock = NoLock
    /\ written = {}
    /\ bootOf = [p \in Procs |-> 0]
    /\ seen = [p \in Procs |-> Torn]
    /\ stale = [p \in Procs |-> NoLock]
    /\ released = [p \in Procs |-> NoLock]
    /\ boot = 0
    /\ reused = {}

AcquireStep(p) ==
    \/ Exists(p) \/ Read(p) \/ Judge(p) \/ Move(p)
    \/ Rewrite(p) \/ Create(p) \/ Write(p)

ReleaseStep(p) == ReadOwn(p) \/ MoveOwn(p) \/ RewriteOwn(p)

Next ==
    \/ \E p \in Procs :
          \/ Start(p)
          \/ AcquireStep(p)
          \/ ReleaseStep(p)
          \/ Crash(p)
          \/ PidReused(p)
          \/ PidFreed(p)
    \/ Reboot

Spec == Init /\ [][Next]_vars

(* A started invocation runs straight-line code: the kernel schedules it   *)
(* until it holds the lock or has ended. How long a run lasts, and whether *)
(* the operator starts one, is not assumed.                                *)
FairSpec == Spec /\ \A p \in Procs : WF_vars(AcquireStep(p))

-----------------------------------------------------------------------------
(* Properties                                                              *)

TypeOK ==
    /\ pc \in [Procs -> {"idle"} \cup Acquiring \cup Holding \cup Releasing \cup Ended]
    /\ lock \in Procs \cup {NoLock}
    /\ written \subseteq Procs
    /\ bootOf \in [Procs -> Nat]
    /\ seen \in [Procs -> Payload]
    /\ stale \in [Procs -> Evidence \cup {NoLock}]
    /\ released \in [Procs -> Evidence \cup {NoLock}]
    /\ boot \in Nat
    /\ reused \subseteq Procs

\* Two live invocations are never both inside `with RunLock(run_dir)`: the
\* promise of the class, "Single-run lock", for every crash and reboot.
MutualExclusion ==
    \A p, q \in Procs : pc[p] \in Holding /\ pc[q] \in Holding => p = q

Kept(q) ==
    \/ lock = q
    \/ \E p \in Procs : stale[p] # NoLock /\ Content(stale[p]) = q
    \/ \E p \in Procs : released[p] # NoLock /\ Content(released[p]) = q

\* A payload that was ever written is still readable, as run.lock or under
\* locks/: the class "preserves stale and released lock evidence".
EvidencePreserved ==
    \A q \in written : Kept(q)

\* O_EXCL alone: as long as no lock was ever archived as stale, interleaved
\* acquires leave at most one invocation that created or holds the lock.
ExclusiveUnlessArchived ==
    (\A p \in Procs : stale[p] = NoLock) =>
        \A p, q \in Procs :
            /\ pc[p] \in Holding \cup {"write"}
            /\ pc[q] \in Holding \cup {"write"}
            => p = q

(* The inductive invariant behind MutualExclusion and EvidencePreserved.   *)

OneAcquirer ==
    \A p, q \in Procs : pc[p] \in Acquiring /\ pc[q] \in Acquiring => p = q

\* run.lock names the inode of whoever created it and has not given it up.
OwnerNamed ==
    \A p \in Procs :
        /\ pc[p] \in Holding => lock = p /\ p \in written
        /\ pc[p] = "write" => lock = p

\* A live owner is one whose payload the next acquirer will find active.
LiveOwnerRecognised ==
    lock \in Procs =>
        \/ pc[lock] \in Holding \cup {"write"} /\ bootOf[lock] = boot
        \/ pc[lock] \in Ended

\* What an acquirer read is still what run.lock holds, when that matters,
\* and what it is about to archive has no live owner.
ReadStillCurrent ==
    \A p \in Procs :
        /\ pc[p] \in {"judge", "move"} /\ lock \in written => seen[p] = lock
        /\ pc[p] = "move" /\ lock \in Procs => pc[lock] \in Ended

\* Between a move and the rewrite of the moved file, the file is the
\* payload the rewrite repeats.
MovedIsRewritten ==
    \A p \in Procs :
        /\ pc[p] = "rewrite" =>
              \E q \in Procs : /\ stale[p] = [kind |-> "moved", of |-> q]
                               /\ pc[q] \in Ended
                               /\ q \in written => seen[p] = q
        /\ pc[p] = "rewriteOwn" =>
              /\ released[p] = [kind |-> "moved", of |-> p]
              /\ p \in written

\* An invocation that has yet to move a lock has no file under locks/: each
\* evidence file has a name of its own and is never written over.
EvidenceFresh ==
    \A p \in Procs :
        /\ pc[p] \in {"idle", "exists", "read", "judge", "move"} => stale[p] = NoLock
        /\ pc[p] \in {"idle"} \cup Acquiring \cup Holding => released[p] = NoLock

\* With acquires that do not interleave, a lock changes hands only after its
\* owner has given it up or died, and the payload follows it into locks/.
SerialInv ==
    /\ OneAcquirer
    /\ OwnerNamed
    /\ LiveOwnerRecognised
    /\ ReadStillCurrent
    /\ MovedIsRewritten
    /\ EvidenceFresh
    /\ EvidencePreserved

\* A run that starts when nobody else is alive takes over whatever a killed
\* run left (no lock, a torn one, a written one): acquire() ends in a lock
\* unless the run is itself killed or some program bears the dead owner's pid.
Alone(p) == \A q \in Procs \ {p} : ~ Live(q)

TakeoverAfterCrash ==
    \A p \in Procs :
        pc[p] = "exists" /\ Alone(p) /\ reused = {}
            ~> pc[p] \in Holding \cup Releasing \cup {"released", "crashed"} \/ reused # {}

=============================================================================
