---------------------------- MODULE BackupLedger ----------------------------
(***************************************************************************)
(* The final backup of scripts/5j: sync_completed_objects bundles the      *)
(* files of an inventory, uploads and downloads each bundle, and records   *)
(* in the ledger what was verified; verify_remote_backup verifies again    *)
(* and revokes; evacuate_server decides whether the server may be deleted. *)
(*                                                                         *)
(* A command reads the ledger once, works on its own copy and replaces the *)
(* file as a whole (atomic_write_json); nothing locks it. A file is an     *)
(* object; its content is the number of times it was written. A bundle's   *)
(* asset name carries its sequence number and the digest of its contents.  *)
(* The remote is the filesystem backend.                                   *)
(***************************************************************************)
EXTENDS Naturals, Sequences, FiniteSetsExt

CONSTANTS
    Commands,    \* the commands that may run at the same time
    Objects,     \* the files of the study, in the order of their object ids
    SizeOf,      \* size_bytes of each, the 4096 bytes of tar overhead included
    MaxBundle,   \* --max-bundle-bytes
    MaxVersion,  \* bound on how often a file is written
    MaxVisits    \* bound on edits, remote damage, kills, re-verifications,
                 \* evacuation checks and syncs of part of the inventory

ASSUME ObjectsAssumption == Objects # {} /\ Objects \subseteq Nat /\ IsFiniteSet(Objects)
ASSUME BundleAssumption ==
    /\ MaxBundle \in Nat
    /\ SizeOf \in [Objects -> Nat]
    /\ \A f \in Objects : SizeOf[f] <= MaxBundle
ASSUME BoundAssumption == MaxVersion \in Nat \ {0} /\ MaxVisits \in Nat

VARIABLES
    local,      \* the content of each file on the server
    ledger,     \* the ledger file
    remote,     \* asset name -> "intact" or "damaged", for the assets there
    job,        \* what each command is doing, with its copy of the ledger
    report,     \* the last evacuation report
    condemned,  \* assets whose last completed verification was a mismatch
    spoiled,    \* assets damaged or removed at the remote since uploaded
    disturbed,  \* some file was edited or some asset damaged
    visits      \* environment steps taken so far

vars == <<local, ledger, remote, job, report, condemned, spoiled, disturbed, visits>>

-----------------------------------------------------------------------------
(* The ledger and the remote                                               *)

Unregistered == [sha |-> 0, state |-> "absent", bundle |-> 0]
EmptyLedger  == [entries |-> [f \in Objects |-> Unregistered], bundles |-> <<>>]

Asset(bundle)  == [seq |-> bundle.seq, contents |-> bundle.contents]
Incomplete(l)  == {i \in DOMAIN l.bundles : l.bundles[i].state # "committed_complete"}
Registered(l)  == {f \in Objects : l.entries[f].state # "absent"}
Unassigned(l)  == {f \in Registered(l) : /\ l.entries[f].state # "committed_complete"
                                         /\ l.entries[f].bundle = 0}

\* Mutant: the objects of a revoked bundle stay as they were.
MarkedBundleOnly(l, i, state) == [l EXCEPT !.bundles[i].state = state]

\* The bundle and every object in it change state together.
Marked(l, i, state) ==
    [bundles |-> [l.bundles EXCEPT ![i].state = state],
     entries |-> [f \in Objects |->
         IF f \in DOMAIN l.bundles[i].contents
         THEN [l.entries[f] EXCEPT !.state = state] ELSE l.entries[f]]]

\* Mutant: only the digest of the archive is compared.
RestoresByDigest(l, i) ==
    /\ Asset(l.bundles[i]) \in DOMAIN remote
    /\ remote[Asset(l.bundles[i])] = "intact"

\* download_remote_bundle and verify_bundle_archive: the asset is there, its
\* digest is the ledger's, and so is the digest of every member.
Restores(l, i) ==
    LET bundle == l.bundles[i] IN
    /\ Asset(bundle) \in DOMAIN remote
    /\ remote[Asset(bundle)] = "intact"
    /\ \A f \in DOMAIN bundle.contents : bundle.contents[f] = l.entries[f].sha

\* Groups filled in the order of the object ids, a new one when the next
\* object does not fit; a group is named by its first object.
Partition(entries) ==
    LET place[f \in entries] ==
            LET earlier == {g \in entries : g < f}
                last    == place[Max(earlier)]
            IN IF earlier # {} /\ last.size + SizeOf[f] <= MaxBundle
               THEN [first |-> last.first, size |-> last.size + SizeOf[f]]
               ELSE [first |-> f, size |-> SizeOf[f]]
    IN {{g \in entries : place[g].first = place[f].first} : f \in entries}

\* The groups are worked on in that order too.
NextGroup(groups) == CHOOSE group \in groups : Min(UNION groups) \in group

-----------------------------------------------------------------------------
(* A command                                                               *)

NoJob == [pc |-> "idle", ledger |-> EmptyLedger, files |-> {}, groups |-> {},
          bundle |-> [seq |-> 0, contents |-> [f \in {} |-> 0]], left |-> {}, done |-> {},
          seen |-> [f \in Objects |-> 0], clean |-> TRUE]

At(p, pc)   == job[p].pc = pc
Begin(p, j) == At(p, "idle") /\ job' = [job EXCEPT ![p] = j]
Go(p, j)    == job' = [job EXCEPT ![p] = j]
Exit(p)     == Go(p, NoJob)

Visit == visits < MaxVisits /\ visits' = visits + 1

Save(l) == ledger' = l

-----------------------------------------------------------------------------
(* sync_completed_objects                                                  *)

\* A sync of the whole inventory is the operator's normal run; one of a part,
\* made before the study ended, counts as a visit.
StartSync(p, inventory) ==
    /\ Begin(p, [NoJob EXCEPT !.pc = "resume", !.ledger = ledger, !.files = inventory])
    /\ IF inventory = Objects THEN UNCHANGED visits ELSE Visit
    /\ UNCHANGED <<local, ledger, remote, report, condemned, spoiled, disturbed>>

\* The next bundle that is not complete is downloaded and verified: bundles
\* an earlier run left, then the bundle just uploaded. A mismatch ends the run.
Fetch(p) ==
    /\ job[p].pc \in {"resume", "fetch"}
    /\ Incomplete(job[p].ledger) # {}
    /\ IF Restores(job[p].ledger, Min(Incomplete(job[p].ledger)))
       THEN Go(p, [job[p] EXCEPT !.pc = IF At(p, "resume") THEN "confirm" ELSE "commit"])
       ELSE Exit(p)
    /\ UNCHANGED <<local, ledger, remote, report, condemned, spoiled, disturbed, visits>>

Commit(p) ==
    LET i == Min(Incomplete(job[p].ledger))
        l == Marked(job[p].ledger, i, "committed_complete")
    IN  /\ job[p].pc \in {"confirm", "commit"}
        /\ Save(l)
        /\ condemned' = condemned \ {Asset(l.bundles[i])}
        /\ IF At(p, "confirm")
           THEN Go(p, [job[p] EXCEPT !.ledger = l, !.pc = "resume"])
           ELSE IF job[p].groups = {}
                THEN Exit(p)
                ELSE Go(p, [job[p] EXCEPT !.ledger = l, !.pc = "bundle"])
        /\ UNCHANGED <<local, remote, report, spoiled, disturbed, visits>>

WithFiles(l, files) ==
    [l EXCEPT !.entries = [f \in Objects |->
        IF f \in files \ Registered(l)
        THEN [sha |-> local[f], state |-> "hashed", bundle |-> 0]
        ELSE l.entries[f]]]

\* Files of the inventory are hashed and registered; a file that no longer
\* has its registered digest ends the run.
Register(p) ==
    LET l == job[p].ledger
        new == WithFiles(l, job[p].files)
        groups == Partition(Unassigned(new) \cap job[p].files)
    IN  /\ At(p, "resume")
        /\ Incomplete(l) = {}
        /\ IF \E f \in job[p].files \cap Registered(l) : l.entries[f].sha # local[f]
           THEN Exit(p) /\ UNCHANGED ledger
           ELSE /\ Save(new)
                /\ IF groups = {}
                   THEN Exit(p)
                   ELSE Go(p, [job[p] EXCEPT !.ledger = new, !.groups = groups, !.pc = "bundle"])
        /\ UNCHANGED <<local, remote, report, condemned, spoiled, disturbed, visits>>

\* create_bundle hashes each file again, then opens it again to copy it.
Rehash(p) ==
    /\ At(p, "bundle")
    /\ IF \A f \in NextGroup(job[p].groups) : local[f] = job[p].ledger.entries[f].sha
       THEN Go(p, [job[p] EXCEPT !.pc = "pack"])
       ELSE Exit(p)
    /\ UNCHANGED <<local, ledger, remote, report, condemned, spoiled, disturbed, visits>>

Pack(p) ==
    /\ At(p, "pack")
    /\ Go(p, [job[p] EXCEPT !.pc = "upload",
                 !.bundle = [seq |-> Len(job[p].ledger.bundles) + 1,
                             contents |-> [f \in NextGroup(job[p].groups) |-> local[f]]]])
    /\ UNCHANGED <<local, ledger, remote, report, condemned, spoiled, disturbed, visits>>

Stored(asset) ==
    [a \in DOMAIN remote \cup {asset} |-> IF a = asset THEN "intact" ELSE remote[a]]

\* Mutant: nothing may be there yet.
UploadNew(p) ==
    /\ At(p, "upload")
    /\ IF job[p].bundle \in DOMAIN remote
       THEN UNCHANGED remote /\ Exit(p)
       ELSE /\ remote' = Stored(job[p].bundle)
            /\ Go(p, [job[p] EXCEPT !.pc = "enrol"])
    /\ UNCHANGED <<local, ledger, report, condemned, spoiled, disturbed, visits>>

\* upload_filesystem: an asset of this name must already be this bundle.
Upload(p) ==
    LET name == job[p].bundle IN
    /\ At(p, "upload")
    /\ IF name \in DOMAIN remote
       THEN /\ UNCHANGED <<remote, spoiled>>
            /\ IF remote[name] = "intact" THEN Go(p, [job[p] EXCEPT !.pc = "enrol"]) ELSE Exit(p)
       ELSE /\ remote' = Stored(name)
            /\ spoiled' = spoiled \ {name}
            /\ Go(p, [job[p] EXCEPT !.pc = "enrol"])
    /\ UNCHANGED <<local, ledger, report, condemned, disturbed, visits>>

\* The uploaded bundle and its objects are recorded as "uploaded".
WithBundle(l, bundle) ==
    [bundles |-> Append(l.bundles, [seq |-> bundle.seq, contents |-> bundle.contents,
                                    state |-> "uploaded"]),
     entries |-> [f \in Objects |->
         IF f \in DOMAIN bundle.contents
         THEN [l.entries[f] EXCEPT !.state = "uploaded", !.bundle = bundle.seq]
         ELSE l.entries[f]]]

Enrol(p) ==
    LET l == WithBundle(job[p].ledger, job[p].bundle)
    IN  /\ At(p, "enrol")
        /\ Save(l)
        /\ Go(p, [job[p] EXCEPT !.ledger = l, !.groups = @ \ {NextGroup(@)}, !.pc = "fetch"])
        /\ UNCHANGED <<local, remote, report, condemned, spoiled, disturbed, visits>>

SyncStep(p) ==
    \/ Fetch(p) \/ Commit(p) \/ Register(p)
    \/ Rehash(p) \/ Pack(p) \/ Upload(p) \/ Enrol(p)

-----------------------------------------------------------------------------
(* verify_remote_backup                                                    *)

StartVerify(p, bundles) ==
    /\ Begin(p, [NoJob EXCEPT !.pc = "verify", !.ledger = ledger, !.left = bundles])
    /\ Visit
    /\ UNCHANGED <<local, ledger, remote, report, condemned, spoiled, disturbed>>

\* Each selected bundle is committed or, on a mismatch, revoked in the copy.
Recheck(p) ==
    LET i == Min(job[p].left)
        state == IF Restores(job[p].ledger, i) THEN "committed_complete" ELSE "uploaded"
    IN  /\ At(p, "verify")
        /\ job[p].left # {}
        /\ Go(p, [job[p] EXCEPT !.ledger = Marked(@, i, state), !.left = @ \ {i}, !.done = @ \cup {i}])
        /\ UNCHANGED <<local, ledger, remote, report, condemned, spoiled, disturbed, visits>>

\* Assets the verification at its end found good, and those it did not.
Verdict(p, good) ==
    {Asset(job[p].ledger.bundles[i]) :
        i \in {k \in job[p].done : good <=> k \notin Incomplete(job[p].ledger)}}

\* Mutant: a mismatch is reported and the ledger left alone.
SaveVerifyIfClean(p) ==
    /\ At(p, "verify")
    /\ job[p].left = {}
    /\ IF Verdict(p, FALSE) = {} THEN Save(job[p].ledger) ELSE UNCHANGED ledger
    /\ condemned' = (condemned \ Verdict(p, TRUE)) \cup Verdict(p, FALSE)
    /\ Exit(p)
    /\ UNCHANGED <<local, remote, report, spoiled, disturbed, visits>>

\* The whole ledger is written once, after the last bundle.
SaveVerify(p) ==
    /\ At(p, "verify")
    /\ job[p].left = {}
    /\ Save(job[p].ledger)
    /\ condemned' = (condemned \ Verdict(p, TRUE)) \cup Verdict(p, FALSE)
    /\ Exit(p)
    /\ UNCHANGED <<local, remote, report, spoiled, disturbed, visits>>

-----------------------------------------------------------------------------
(* evacuate_server                                                         *)

StartEvacuate(p) ==
    /\ Begin(p, [NoJob EXCEPT !.pc = "evacuate", !.ledger = ledger, !.left = Objects])
    /\ Visit
    /\ UNCHANGED <<local, ledger, remote, report, condemned, spoiled, disturbed>>

\* Mutant: a committed file is not hashed again.
InspectState(p) ==
    LET f == Min(job[p].left)
    IN  /\ At(p, "evacuate")
        /\ job[p].left # {}
        /\ Go(p, [job[p] EXCEPT !.left = @ \ {f}, !.seen[f] = local[f],
                     !.clean = @ /\ job[p].ledger.entries[f].state = "committed_complete"])
        /\ UNCHANGED <<local, ledger, remote, report, condemned, spoiled, disturbed, visits>>

\* Each file under the roots must be committed and have its ledger digest.
Inspect(p) ==
    LET f == Min(job[p].left)
        entry == job[p].ledger.entries[f]
    IN  /\ At(p, "evacuate")
        /\ job[p].left # {}
        /\ Go(p, [job[p] EXCEPT !.left = @ \ {f}, !.seen[f] = local[f],
                     !.clean = @ /\ entry.state = "committed_complete" /\ entry.sha = local[f]])
        /\ UNCHANGED <<local, ledger, remote, report, condemned, spoiled, disturbed, visits>>

\* evacuation_ready: besides the files, no entry and no bundle is incomplete.
Report(p) ==
    LET l == job[p].ledger IN
    /\ At(p, "evacuate")
    /\ job[p].left = {}
    /\ report' = [seen  |-> job[p].seen,
                  ready |-> /\ job[p].clean
                            /\ \A f \in Registered(l) : l.entries[f].state = "committed_complete"
                            /\ Incomplete(l) = {}]
    /\ Exit(p)
    /\ UNCHANGED <<local, ledger, remote, condemned, spoiled, disturbed, visits>>

JobStep(p) == SyncStep(p) \/ Recheck(p) \/ SaveVerify(p) \/ Inspect(p) \/ Report(p)

-----------------------------------------------------------------------------
(* The surroundings                                                        *)

Edit(f) ==
    /\ Visit
    /\ local[f] < MaxVersion
    /\ local' = [local EXCEPT ![f] = @ + 1]
    /\ disturbed' = TRUE
    /\ UNCHANGED <<ledger, remote, job, report, condemned, spoiled>>

Damage(asset) ==
    /\ Visit
    /\ remote[asset] = "intact"
    /\ remote' = [remote EXCEPT ![asset] = "damaged"]
    /\ spoiled' = spoiled \cup {asset}
    /\ disturbed' = TRUE
    /\ UNCHANGED <<local, ledger, job, report, condemned>>

Lose(asset) ==
    /\ Visit
    /\ remote' = [a \in DOMAIN remote \ {asset} |-> remote[a]]
    /\ spoiled' = spoiled \cup {asset}
    /\ disturbed' = TRUE
    /\ UNCHANGED <<local, ledger, job, report, condemned>>

Kill(p) ==
    /\ Visit
    /\ ~At(p, "idle")
    /\ Exit(p)
    /\ UNCHANGED <<local, ledger, remote, report, condemned, spoiled, disturbed>>

Init ==
    /\ local = [f \in Objects |-> 1]
    /\ ledger = EmptyLedger
    /\ remote = [asset \in {} |-> "intact"]
    /\ job = [p \in Commands |-> NoJob]
    /\ report = [seen |-> [f \in Objects |-> 0], ready |-> FALSE]
    /\ condemned = {} /\ spoiled = {}
    /\ disturbed = FALSE
    /\ visits = 0

Next ==
    \/ \E p \in Commands :
          \/ \E inventory \in (SUBSET Objects) \ {{}} : StartSync(p, inventory)
          \/ \E bundles \in (SUBSET DOMAIN ledger.bundles) \ {{}} : StartVerify(p, bundles)
          \/ StartEvacuate(p)
          \/ JobStep(p)
          \/ Kill(p)
    \/ \E f \in Objects : Edit(f)
    \/ \E asset \in DOMAIN remote : Damage(asset) \/ Lose(asset)

Spec == Init /\ [][Next]_vars

\* A started command runs to its end and the operator syncs again.
Fairness ==
    \A p \in Commands : WF_vars(StartSync(p, Objects)) /\ WF_vars(JobStep(p))

FairSpec == Spec /\ Fairness

-----------------------------------------------------------------------------
(* Properties                                                              *)

Versions == 1..MaxVersion

Entries == {Unregistered} \cup
    [sha : Versions, state : {"hashed", "uploaded", "committed_complete"}, bundle : Nat]

Contents == UNION {[group -> Versions] : group \in (SUBSET Objects) \ {{}}}

BundleStates == {"uploaded", "committed_complete"}

Bundles == [seq : Nat, contents : Contents, state : BundleStates]

Ledgers == [entries : [Objects -> Entries], bundles : Seq(Bundles)]

Numbered(l) == \A i \in DOMAIN l.bundles : l.bundles[i].seq = i

IsLedger(l) == l \in Ledgers /\ Numbered(l)

\* Types; and a bundle's sequence number is its place in the ledger.
TypeOK ==
    /\ local \in [Objects -> Versions]
    /\ IsLedger(ledger)
    /\ \A asset \in DOMAIN remote : asset.contents \in Contents /\ remote[asset] \in {"intact", "damaged"}
    /\ \A p \in Commands : IsLedger(job[p].ledger)
    /\ report.ready \in BOOLEAN
    /\ visits \in 0..MaxVisits

\* An object recorded committed_complete can be restored with its registered
\* digest from the asset of its bundle, unless that asset was damaged or
\* removed since: whatever was edited between the two readings of a file in
\* create_bundle, and wherever a sync was killed.
CommittedRestorable ==
    \A f \in Objects : ledger.entries[f].state = "committed_complete" =>
        \E i \in DOMAIN ledger.bundles :
            LET asset == Asset(ledger.bundles[i]) IN
            /\ i = ledger.entries[f].bundle
            /\ f \in DOMAIN asset.contents
            /\ asset.contents[f] = ledger.entries[f].sha
            /\ asset \in spoiled \/ (asset \in DOMAIN remote /\ remote[asset] = "intact")

\* A revocation stands: a bundle whose last completed verification was a
\* mismatch is not recorded committed_complete (verify_remote_backup).
RevocationStands ==
    \A i \in DOMAIN ledger.bundles :
        Asset(ledger.bundles[i]) \in condemned => ledger.bundles[i].state # "committed_complete"

\* Objects and bundles tell one story: an object is in at most one bundle, the
\* one its entry names, and has that bundle's state; an unbundled one is hashed.
EntriesMatchBundles ==
    \A f \in Registered(ledger) :
        LET entry == ledger.entries[f] IN
        /\ {i \in DOMAIN ledger.bundles : f \in DOMAIN ledger.bundles[i].contents} =
               (IF entry.bundle = 0 THEN {} ELSE {entry.bundle})
        /\ entry.state = IF entry.bundle = 0 THEN "hashed" ELSE ledger.bundles[entry.bundle].state

\* A report that says ready, and what backs it.
ReadyEarned ==
    report'.ready =>
        \A f \in Objects : \E i \in DOMAIN ledger.bundles :
            LET asset == Asset(ledger.bundles[i]) IN
            /\ f \in DOMAIN asset.contents /\ asset.contents[f] = report'.seen[f]
            /\ asset \notin condemned
            /\ asset \in spoiled \/ (asset \in DOMAIN remote /\ remote[asset] = "intact")

\* When evacuate_server reports ready, what it read in every file is held by an
\* asset no completed verification has found bad, and which is still there
\* unless it was damaged or removed without anyone having looked.
EvacuationEarned == [][ReadyEarned]_report

\* Wherever earlier syncs were killed, and whatever parts of the inventory they
\* covered, syncing again ends with every object committed, as long as no file
\* is edited and no asset damaged.
BackupCompletes ==
    <>[](disturbed \/ \A f \in Objects : ledger.entries[f].state = "committed_complete")

=============================================================================
