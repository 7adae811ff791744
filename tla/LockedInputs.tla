---------------------------- MODULE LockedInputs ----------------------------
(***************************************************************************)
(* scripts/prepare_locked_inputs.py: downloads the cover and secret images *)
(* and locks them with their metadata, manifests and report, while the     *)
(* sources change, days pass, files are damaged and the program is killed. *)
(* One cover (USC-SIPI, pinned by a checksum in the program) and one       *)
(* secret (Wikimedia Commons, described by its API) stand for the six.     *)
(***************************************************************************)
EXTENDS Naturals

CONSTANTS
    Absent,      \* no file, no date
    Damaged,     \* a file with other bytes, that --resume tells from its own
    MaxEvents    \* bound on days, upstream changes, damages and kills

Paths == {"lock", "snapshot", "cover", "secret", "metadata", "pairs",
          "inventory", "report"}
Modes == {"fail", "resume", "overwrite"}

Steps == {"start", "lock", "checksums", "snapshot", "fetch_cover", "query", "download",
          "secret", "metadata", "pairs", "inventory", "report", "done"}

\* What is not there is no date, no lock file and no program.
ASSUME AbsentAssumption ==
    /\ Damaged \notin Nat /\ Damaged # Absent
    /\ Absent \notin [date : Nat]
    /\ Absent \notin [mode : Modes, asked : {Absent, 2}, step : Steps]

VARIABLES
    upstream,    \* the sources: pinned checksum, image revision, rights link, page
    today,
    events,
    disk,        \* the file at each path
    program,     \* the running program: mode, asked date, next step; or Absent
    date,        \* the access date it has settled on
    page,        \* the Commons page it has queried
    bytes,       \* the image it has downloaded
    result,      \* how the last run ended
    halfway      \* an overwriting run has ended before its report

inputVariables == <<upstream, today, events, disk, program, date, page, bytes,
                    result, halfway>>
sourceVars == <<upstream, today, events>>

LockInit ==
    /\ upstream = [cksum |-> "pinned", image |-> "first", rights |-> 0, layout |-> 0]
    /\ today = 1 /\ events = 0
    /\ disk = [p \in Paths |-> Absent]
    /\ program = Absent /\ date = Absent /\ page = Absent /\ bytes = Absent
    /\ result = "none"
    /\ halfway = FALSE

-----------------------------------------------------------------------------
\* What happens around the program.
Event == events < MaxEvents /\ events' = events + 1
OwnVars == <<disk, program, date, page, bytes, result, halfway>>

NextDay == Event /\ today < 2 /\ today' = today + 1 /\ UNCHANGED <<upstream, OwnVars>>

\* A new revision of the secret, its withdrawal or a licence off the allowlist
\* ("unfree"), another rights link, another layout of the pages, or another
\* checksum of the cover.
UpstreamChanges ==
    /\ Event
    /\ \E u \in {[upstream EXCEPT !.image = "second"], [upstream EXCEPT !.image = "unfree"],
                 [upstream EXCEPT !.rights = 1], [upstream EXCEPT !.layout = 1],
                 [upstream EXCEPT !.cksum = "drifted"]} :
            u # upstream /\ upstream' = u
    /\ UNCHANGED <<today, OwnVars>>

\* The snapshot and the metadata with other contents in fields that --resume
\* does not compare.
Retouched(p) ==
    IF p = "snapshot" THEN [date |-> disk[p].date, layout |-> 2]
    ELSE [image |-> disk[p].image, sha |-> disk[p].sha, rights |-> 2, layout |-> 2,
          date |-> disk[p].date]

\* A locked file is edited or decays while no program runs.
Damage(p) ==
    /\ Event
    /\ program = Absent /\ disk[p] \notin {Absent, Damaged}
    /\ \/ disk' = [disk EXCEPT ![p] = Damaged]
       \/ p \in {"snapshot", "metadata"} /\ disk' = [disk EXCEPT ![p] = Retouched(p)]
    /\ UNCHANGED <<upstream, today, program, date, page, bytes, result, halfway>>

-----------------------------------------------------------------------------
At_(step) == program # Absent /\ program.step = step

\* The end of a run. One that was overwriting and had begun to write leaves new
\* files among old ones.
End(reason) ==
    /\ result' = reason
    /\ program' = Absent /\ date' = Absent /\ page' = Absent /\ bytes' = Absent
    /\ halfway' = IF program.mode = "overwrite" /\ program.step # "start"
                  THEN reason # "locked" ELSE halfway

Continue(step) ==
    /\ program' = [program EXCEPT !.step = step]
    /\ UNCHANGED <<result, halfway>>

\* fetch_with_retries gives up in the end: any download may fail the run.
Unreachable == End("unreachable")

\* [mutant] --resume keeps whatever file is there.
AcceptsAny(p, e, content) == TRUE

\* What --resume takes for the file it would write: the checksums of the
\* snapshot are the pinned ones on both sides, the metadata is compared in its
\* stable fields, everything else byte for byte.
Accepts(p, e, content) ==
    IF e = Damaged THEN FALSE
    ELSE CASE p = "snapshot" -> TRUE
           [] p = "metadata" -> e.image = content.image /\ e.sha = content.sha
           [] OTHER          -> e = content

\* _write_locked, then the next step.
WriteLocked(p, content, next) ==
    LET install == disk' = [disk EXCEPT ![p] = content] /\ Continue(next) IN
    IF disk[p] = Absent \/ program.mode = "overwrite"
    THEN install
    ELSE /\ UNCHANGED disk
         /\ IF program.mode = "resume" /\ Accepts(p, disk[p], content)
              THEN Continue(next)
              ELSE End(IF program.mode = "fail" THEN "exists" ELSE "conflict")

\* A step that ends the run clears date, page and bytes; the others keep them.
Keeping(v) == program' # Absent => UNCHANGED v

\* [mutant] The access date of a resumed run is the day it runs on.
AccessDateToday ==
    IF program.asked # Absent THEN program.asked ELSE today

\* _resolve_access_date: --resume takes the date of the lock; Damaged stands for
\* the conflict, of an unreadable lock or of another date asked for.
AccessDate ==
    CASE program.mode # "resume" \/ disk["lock"] = Absent ->
             IF program.asked # Absent THEN program.asked ELSE today
      [] disk["lock"] = Damaged -> Damaged
      [] OTHER -> IF program.asked \in {Absent, disk["lock"].date}
                  THEN disk["lock"].date ELSE Damaged

StartProgram(mode, asked) ==
    /\ program = Absent
    /\ program' = [mode |-> mode, asked |-> asked, step |-> "start"]
    /\ result' = "none"
    /\ UNCHANGED <<sourceVars, disk, date, page, bytes, halfway>>

Resolve ==
    /\ At_("start")
    /\ IF AccessDate = Damaged THEN End("conflict")
       ELSE date' = AccessDate /\ Continue("lock") /\ UNCHANGED <<page, bytes>>
    /\ UNCHANGED <<sourceVars, disk>>

WriteLock ==
    /\ At_("lock")
    /\ WriteLocked("lock", [date |-> date], "checksums")
    /\ Keeping(<<date, page, bytes>>)
    /\ UNCHANGED sourceVars

FetchChecksums ==
    /\ At_("checksums")
    /\ \/ Unreachable
       \/ upstream.cksum = "drifted" /\ End("drift")
       \/ upstream.cksum = "pinned" /\ Continue("snapshot") /\ UNCHANGED <<date, page, bytes>>
    /\ UNCHANGED <<sourceVars, disk>>

\* The page may be laid out anew between two fetches; the snapshot keeps the
\* digest of the one that was read.
WriteSnapshot ==
    /\ At_("snapshot")
    /\ WriteLocked("snapshot", [date |-> date, layout |-> upstream.layout], "fetch_cover")
    /\ Keeping(<<date, page, bytes>>)
    /\ UNCHANGED sourceVars

\* The downloaded cover must have the pinned checksum.
FetchCover ==
    /\ At_("fetch_cover")
    /\ \/ Unreachable /\ UNCHANGED disk
       \/ upstream.cksum = "drifted" /\ End("drift") /\ UNCHANGED disk
       \/ /\ upstream.cksum = "pinned"
          /\ WriteLocked("cover", "pinned", "query")
          /\ Keeping(<<date, page, bytes>>)
    /\ UNCHANGED sourceVars

\* The API names the revision, its licence and the download link ...
QueryPage ==
    /\ At_("query")
    /\ \/ Unreachable
       \/ upstream.image = "unfree" /\ End("drift")
       \/ /\ upstream.image # "unfree"
          /\ page' = [image |-> upstream.image, rights |-> upstream.rights,
                      layout |-> upstream.layout]
          /\ Continue("download") /\ UNCHANGED <<date, bytes>>
    /\ UNCHANGED <<sourceVars, disk>>

\* ... and the image is what the link serves when it is followed.
DownloadSecret ==
    /\ At_("download")
    /\ \/ Unreachable
       \/ upstream.image = "unfree" /\ Unreachable
       \/ /\ upstream.image # "unfree"
          /\ bytes' = upstream.image
          /\ Continue("secret") /\ UNCHANGED <<date, page>>
    /\ UNCHANGED <<sourceVars, disk>>

WriteSecret ==
    /\ At_("secret")
    /\ WriteLocked("secret", bytes, "metadata")
    /\ Keeping(<<date, page, bytes>>)
    /\ UNCHANGED sourceVars

WriteMetadata ==
    /\ At_("metadata")
    /\ WriteLocked("metadata", [image |-> page.image, rights |-> page.rights,
           layout |-> page.layout, date |-> date, sha |-> disk["secret"]], "pairs")
    /\ Keeping(<<date, page, bytes>>)
    /\ UNCHANGED sourceVars

\* The core and calibration manifests.
WritePairs ==
    /\ At_("pairs")
    /\ WriteLocked("pairs", [cover |-> disk["cover"], secret |-> disk["secret"]], "inventory")
    /\ Keeping(<<date, page, bytes>>)
    /\ UNCHANGED sourceVars

WriteInventory ==
    /\ At_("inventory")
    /\ WriteLocked("inventory", [date |-> date, cover |-> disk["cover"],
           secret |-> disk["secret"], image |-> page.image, rights |-> page.rights], "report")
    /\ Keeping(<<date, page, bytes>>)
    /\ UNCHANGED sourceVars

WriteReport ==
    /\ At_("report")
    /\ WriteLocked("report", [date |-> date, pairs |-> disk["pairs"],
                              inventory |-> disk["inventory"]], "done")
    /\ Keeping(<<date, page, bytes>>)
    /\ UNCHANGED sourceVars

Finish == At_("done") /\ End("locked") /\ UNCHANGED <<sourceVars, disk>>

KillProgram ==
    /\ program # Absent
    /\ Event
    /\ End("killed")
    /\ UNCHANGED <<upstream, today, disk>>

LockNext ==
    \/ NextDay
    \/ UpstreamChanges
    \/ \E p \in Paths : Damage(p)
    \/ \E mode \in Modes, asked \in {Absent, 2} : StartProgram(mode, asked)
    \/ Resolve
    \/ WriteLock
    \/ FetchChecksums
    \/ WriteSnapshot
    \/ FetchCover
    \/ QueryPage
    \/ DownloadSecret
    \/ WriteSecret
    \/ WriteMetadata
    \/ WritePairs
    \/ WriteInventory
    \/ WriteReport
    \/ Finish
    \/ KillProgram

LockSpec == LockInit /\ [][LockNext]_inputVariables

-----------------------------------------------------------------------------
EndsAs(reason) == program # Absent /\ program' = Absent /\ result' = reason

\* The report, the manifests and the files agree.
LockedTogether ==
    /\ disk["report"].pairs = disk["pairs"]
    /\ disk["report"].inventory = disk["inventory"]
    /\ disk["pairs"].cover = disk["cover"]
    /\ \A p \in {"pairs", "inventory"} : disk[p].secret = disk["secret"]
    /\ disk["metadata"].sha = disk["secret"]
    /\ disk["metadata"].image = disk["inventory"].image
    /\ disk["report"].date = disk["lock"].date

\* When a run of the preparation ends with its inputs locked, the report, the
\* manifests and the files agree, though another run may have been killed half
\* way, the day may have changed and files may have been damaged since.
LockedInputsAgree == [][EndsAs("locked") => LockedTogether']_inputVariables

\* The sources have changed, a file has, or an overwriting run was broken off.
Drifted ==
    \/ upstream.image # "first" \/ upstream.rights # 0
    \/ halfway
    \/ \E p \in Paths : disk[p] = Damaged

\* --resume without a date of its own is refused only when the sources, the
\* files, or a broken-off overwrite are the reason, never for the day it is.
RefusedOnlyOnDrift ==
    [][ (EndsAs("conflict") /\ program.mode = "resume" /\ program.asked = Absent)
            => Drifted ]_inputVariables

=============================================================================
