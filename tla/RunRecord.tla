------------------------- MODULE RunRecord -------------------------
(* What a run leaves on disk: the snapshot of its inputs, its request, the *)
(* artifacts it had to make, its result and the result's copy in the       *)
(* user's archive, under a state directory that is listed in the registry. *)
(* Runs are killed, the directory is deleted, the registry compacted, and  *)
(* migrations bring records of older versions to the current format.       *)
EXTENDS Naturals, FiniteSets

CONSTANTS
  Runs,           \* the runs of this instance
  Legacy,         \* those recorded by an older version
  Declared,       \* the artifacts a run must make: a set of sets of alternatives
  Migrators,      \* processes that run `aop migrate-results`
  MaxEdits,       \* bound: edits of the input
  MaxKills,       \* bound: runs killed
  Deletes         \* may the user delete the state directory?

Artifacts == UNION Declared

ASSUME RunRecordAssumption ==
  /\ Legacy \subseteq Runs
  /\ MaxEdits \in Nat /\ MaxKills \in Nat /\ Deletes \in BOOLEAN

VARIABLES
  source,    \* the version of the input the user has
  run,       \* each run: where its process is and what that holds
  disk,      \* each run's directory
  archive,   \* each run's record in the user's archive
  root,      \* does the state directory exist?
  registry,  \* the list of state directories: is this one in it, and who compacts it
  mig,       \* each migration: where it is and what it read
  torn,      \* the runs whose original one migration made while another, or a killed
             \* one, had begun to
  kills

vars == <<source, run, disk, archive, root, registry, mig, torn, kills>>

None == "none"
NoVersion == MaxEdits + 1
Versions == 0 .. MaxEdits
Made == [Artifacts -> {"missing", "good", "bad"}]
\* A record: the format it is in, and whether the run succeeded.
Record(format, ok) == [format |-> format, ok |-> ok]
NoRecord == Record(None, FALSE)
Records == {NoRecord} \cup [format: {"old", "current"}, ok: BOOLEAN]
Originals == {None, "part", "whole", "upgraded"}
Bare == [dir |-> FALSE, request |-> None, input |-> NoVersion, result |-> NoRecord,
         kept |-> {}, original |-> None, archived |-> None]

RunPlaces == {"idle", "planned", "copied", "hashed", "root", "listed", "dir", "asked",
              "running", "ended", "collected", "written", "over"}
MigPlaces == {"look", "read", "keep", "copy", "copying", "upgrade", "archive", "again", "over"}

TypeOK ==
  /\ source \in Versions /\ root \in BOOLEAN /\ torn \subseteq Runs /\ kills \in 0..MaxKills
  /\ registry \in [has: BOOLEAN, compact: {None, "keep", "drop"}]
  /\ run \in [Runs -> [at: RunPlaces, parent: Runs \cup {None}, copy: Versions \cup {NoVersion},
                       digest: Versions \cup {NoVersion}, moved: BOOLEAN, ok: BOOLEAN, made: Made,
                       todo: SUBSET Declared, kept: SUBSET Artifacts]]
  /\ disk \in [Runs -> [dir: BOOLEAN, request: {None, "old", "current"},
                        input: Versions \cup {NoVersion}, result: Records,
                        kept: SUBSET Artifacts, original: Originals, archived: Originals]]
  /\ archive \in [Runs -> Records]
  /\ mig \in [Migrators -> [at: MigPlaces, of: Runs \cup {None}, in: {"runs", "archive"},
                            value: Records, todo: SUBSET Runs, done: SUBSET Runs]]

Idle == [at |-> "idle", parent |-> None, copy |-> NoVersion, digest |-> NoVersion,
         moved |-> FALSE, ok |-> FALSE, made |-> [a \in Artifacts |-> "missing"], todo |-> {}, kept |-> {}]
NoMigration == [at |-> "over", of |-> None, in |-> "runs", value |-> NoRecord,
                todo |-> {}, done |-> {}]

Init ==
  /\ source = 0 /\ torn = {} /\ kills = 0
  /\ root = (Legacy # {})
  /\ registry = [has |-> root, compact |-> None]
  /\ run = [r \in Runs |-> IF r \in Legacy
                          THEN [Idle EXCEPT !.at = "over", !.ok = TRUE, !.digest = 0] ELSE Idle]
  /\ disk = [r \in Runs |-> IF r \notin Legacy THEN Bare
                            ELSE [Bare EXCEPT !.dir = TRUE, !.request = "old", !.input = 0,
                                    !.result = Record("old", TRUE), !.kept = Artifacts]]
  /\ archive \in [Runs -> {NoRecord, Record("old", TRUE)}]
  /\ \A r \in Runs \ Legacy : archive[r] = NoRecord
  /\ mig = [m \in Migrators |-> [NoMigration EXCEPT !.at = "look"]]

At(r, place) == run[r].at = place
Goes(r, place) == run' = [run EXCEPT ![r].at = place]
Other == <<source, registry, mig, torn, kills>>

------------------------------------------------------------------------
(* A run, from its inputs to its records.                                  *)

\* A fresh run reads the user's input; a sealed resume reads its parent's snapshot, whose
\* digest it compares first, and needs the parent's records in the current format.
Fresh(r) == Goes(r, "planned")
Resume(r, p) ==
  /\ disk[p].request = "current" /\ disk[p].result.format = "current"
  /\ disk[p].input = run[p].digest
  /\ run' = [run EXCEPT ![r].at = "planned", ![r].parent = p]
Begin(r) ==
  /\ At(r, "idle")
  /\ Fresh(r) \/ \E p \in Runs \ {r} : Resume(r, p)
  /\ UNCHANGED <<Other, disk, archive, root>>
\* The admission command says no, fails, or does not answer in time.
Refuse(r) ==
  /\ At(r, "idle") /\ Goes(r, "over")
  /\ UNCHANGED <<Other, disk, archive, root>>

\* The input is copied, and the copy hashed.  Making the snapshot makes the state directory.
Copy(r) ==
  /\ At(r, "planned")
  /\ LET p == run[r].parent
         from == IF p = None THEN source ELSE disk[p].input
     IN IF from = NoVersion THEN Goes(r, "over") /\ UNCHANGED <<disk, root>>
        ELSE /\ run' = [run EXCEPT ![r].at = "copied", ![r].copy = from]
             /\ disk' = [disk EXCEPT ![r].input = from]
             /\ root' = TRUE
  /\ UNCHANGED <<Other, archive>>

\* Slip: the digest is of what was asked for.
HashSlip(r) == IF run[r].parent = None THEN source ELSE run[run[r].parent].digest
\* The digest the request will tell.
Hash(r) == disk[r].input
Hashed(r) ==
  /\ At(r, "copied")
  /\ run' = [run EXCEPT ![r].at = IF Hash(r) = NoVersion THEN "over" ELSE "hashed",
                        ![r].digest = Hash(r)]
  /\ UNCHANGED <<Other, disk, archive, root>>

\* RunStore.create: the directory of runs, its entry in the registry, the run's own
\* directory and the request in it.
MakeRoot(r) ==
  /\ At(r, "hashed")
  /\ root' = TRUE /\ Goes(r, "root")
  /\ UNCHANGED <<Other, disk, archive>>
Enter(r) ==
  /\ registry' = [registry EXCEPT !.has = TRUE] /\ Goes(r, "listed")
  /\ UNCHANGED <<source, mig, torn, kills, disk, archive, root>>
\* Slip: the registry's lock is not taken.
RegisterSlip(r) == At(r, "root") /\ Enter(r)
Register(r) == At(r, "root") /\ registry.compact = None /\ Enter(r)
MakeRun(r) ==
  /\ At(r, "listed")
  /\ IF root THEN Goes(r, "dir") /\ disk' = [disk EXCEPT ![r].dir = TRUE]
     ELSE Goes(r, "over") /\ UNCHANGED disk
  /\ UNCHANGED <<Other, archive, root>>
Request(r) ==
  /\ At(r, "dir")
  /\ IF disk[r].dir THEN Goes(r, "asked") /\ disk' = [disk EXCEPT ![r].request = "current"]
     ELSE Goes(r, "over") /\ UNCHANGED disk
  /\ UNCHANGED <<Other, archive, root>>

\* The harness sees the snapshot and makes what it makes, well or not.
Launch(r) ==
  /\ At(r, "asked")
  /\ IF disk[r].input = NoVersion THEN Goes(r, "over") ELSE Goes(r, "running")
  /\ UNCHANGED <<Other, disk, archive, root>>
End(r) ==
  /\ At(r, "running")
  /\ \E ok \in BOOLEAN, made \in Made :
       run' = [run EXCEPT ![r].at = "ended", ![r].ok = ok, ![r].made = made,
                          ![r].todo = IF ok THEN Declared ELSE {}]
  /\ UNCHANGED <<Other, disk, archive, root>>

\* A declaration: every alternative that is well made is archived, one that is not fails
\* the run, and so does there being none.
\* Slip: none of the alternatives has to be there.
MetSlip(made, alternatives) == \A a \in alternatives : made[a] # "bad"
Met(made, alternatives) ==
  /\ \A a \in alternatives : made[a] # "bad"
  /\ \E a \in alternatives : made[a] # "missing"
Collect(r) ==
  /\ At(r, "ended")
  /\ \/ \E d \in run[r].todo :
          LET good == {a \in d : disk[r].dir /\ run[r].made[a] = "good"}
          IN /\ disk' = [disk EXCEPT ![r].kept = @ \cup good]
             /\ run' = [run EXCEPT ![r].ok = @ /\ disk[r].dir /\ Met(run[r].made, d),
                                   ![r].todo = @ \ {d}, ![r].kept = @ \cup good]
     \/ run[r].todo = {} /\ Goes(r, "collected") /\ UNCHANGED disk
  /\ UNCHANGED <<Other, archive, root>>

\* RunStore.write_result: the result, then its copy in the archive.
WriteResult(r) ==
  /\ At(r, "collected")
  /\ IF disk[r].dir
     THEN Goes(r, "written") /\ disk' = [disk EXCEPT ![r].result = Record("current", run[r].ok)]
     ELSE Goes(r, "over") /\ UNCHANGED disk
  /\ UNCHANGED <<Other, archive, root>>
ArchiveResult(r) ==
  /\ At(r, "written")
  /\ archive' = [archive EXCEPT ![r] = Record("current", run[r].ok)]
  /\ Goes(r, "over")
  /\ UNCHANGED <<Other, disk, root>>

------------------------------------------------------------------------
(* `aop migrate-results`: over the runs' results, then over those of the   *)
(* archive whose run is gone, then the registry.                           *)

Step(m, place) == mig' = [mig EXCEPT ![m].at = place]
MigOther == <<source, run, root, registry, kills>>
Kept == <<MigOther, torn>>
Stored(r, in) == IF in = "runs" THEN disk[r].result ELSE archive[r]
Original(r, in) == IF in = "runs" THEN disk[r].original ELSE disk[r].archived
Keep(r, in, what) ==
  disk' = IF in = "runs" THEN [disk EXCEPT ![r].original = what]
          ELSE [disk EXCEPT ![r].archived = what]

Look(m) ==
  /\ mig[m].at = "look"
  /\ mig' = [mig EXCEPT ![m].at = "read", ![m].in = "runs",
                        ![m].todo = {r \in Runs : disk[r].dir}]
  /\ UNCHANGED <<Kept, disk, archive>>
\* The next run; the request is upgraded in the same way and its steps are left out.
Read(m, r) ==
  /\ mig[m].at = "read" /\ r \in mig[m].todo
  /\ LET value == Stored(r, mig[m].in)
         skipped == \/ value = NoRecord
                    \/ mig[m].in = "archive" /\ disk[r].result # NoRecord
     IN mig' = [mig EXCEPT
          ![m].todo = @ \ {r}, ![m].of = r, ![m].value = value,
          ![m].at = IF skipped THEN "read" ELSE IF value.format = "old" THEN "keep"
                    ELSE IF mig[m].in = "runs" THEN "archive" ELSE "read"]
  /\ disk' = [disk EXCEPT ![r].request = IF @ = "old" /\ mig[m].in = "runs" THEN "current" ELSE @]
  /\ UNCHANGED <<Kept, archive>>
\* Two migrations, or one and what is left of a killed one, are about the same original.
Tear(r, in) == torn' = IF in = "runs" THEN torn \cup {r} ELSE torn
\* The original is copied in place, unless there is one, whole or not.
KeepOriginal(m) ==
  LET r == mig[m].of  in == mig[m].in IN
  /\ mig[m].at = "keep"
  /\ Step(m, IF Original(r, in) = None THEN "copy" ELSE "upgrade")
  /\ IF Original(r, in) = "part" THEN Tear(r, in) ELSE UNCHANGED torn
  /\ UNCHANGED <<MigOther, disk, archive>>
\* The copy begins: in a directory that is gone it fails.
BeginCopy(m) ==
  LET r == mig[m].of  in == mig[m].in IN
  /\ mig[m].at = "copy"
  /\ IF in = "runs" /\ ~disk[r].dir THEN Step(m, "over") /\ UNCHANGED <<disk, torn>>
     ELSE /\ Keep(r, in, "part") /\ Step(m, "copying")
          /\ IF Original(r, in) # None THEN Tear(r, in) ELSE UNCHANGED torn
  /\ UNCHANGED <<MigOther, archive>>
\* Slip: the record is copied after it was upgraded.
CopiedSlip(r, in) == "upgraded"
\* What the copy ends with.
Copied(r, in) == IF Stored(r, in).format = "old" THEN "whole" ELSE "upgraded"
CopyOriginal(m) ==
  LET r == mig[m].of  in == mig[m].in IN
  /\ mig[m].at = "copying"
  /\ IF in = "runs" /\ ~disk[r].dir THEN UNCHANGED disk ELSE Keep(r, in, Copied(r, in))
  /\ Step(m, "upgrade")
  /\ UNCHANGED <<Kept, archive>>
Upgrade(m) ==
  LET r == mig[m].of  new == [mig[m].value EXCEPT !.format = "current"] IN
  /\ mig[m].at = "upgrade"
  /\ IF mig[m].in = "runs"
     THEN IF disk[r].dir
          THEN /\ disk' = [disk EXCEPT ![r].result = new]
               /\ mig' = [mig EXCEPT ![m].at = "archive", ![m].value = new]
               /\ UNCHANGED archive
          ELSE Step(m, "over") /\ UNCHANGED <<disk, archive>>   \* an error ends it
     ELSE archive' = [archive EXCEPT ![r] = new] /\ Step(m, "read") /\ UNCHANGED disk
  /\ UNCHANGED Kept
\* Slip: only a result that was upgraded is copied.
BehindSlip(m) == archive[mig[m].of].format = None /\ disk[mig[m].of].original # None
\* A current result is copied to the archive when the copy is missing or differs.
Behind(m) == archive[mig[m].of] # mig[m].value
ArchiveCurrent(m) ==
  LET r == mig[m].of IN
  /\ mig[m].at = "archive"
  /\ archive' = [archive EXCEPT ![r] = IF Behind(m) THEN mig[m].value ELSE @]
  /\ mig' = [mig EXCEPT ![m].at = "read", ![m].done = @ \cup {r}]
  /\ UNCHANGED <<Kept, disk>>
\* The state directory is entered in the registry, and the archive is next.
MigrateArchive(m) ==
  /\ mig[m].at = "read" /\ mig[m].todo = {} /\ mig[m].in = "runs"
  /\ registry.compact = None
  /\ registry' = [registry EXCEPT !.has = TRUE]
  /\ mig' = [mig EXCEPT ![m].in = "archive", ![m].todo = {r \in Runs : archive[r] # NoRecord}]
  /\ UNCHANGED <<source, run, root, torn, kills, disk, archive>>

\* compact_state_roots: under its lock, the entries whose directory is there are kept.
Inspect(m) ==
  /\ mig[m].at = "read" /\ mig[m].todo = {} /\ mig[m].in = "archive"
  /\ registry.compact = None
  /\ registry' = [registry EXCEPT !.compact = IF root THEN "keep" ELSE "drop"]
  /\ Step(m, "again")
  /\ UNCHANGED <<source, run, root, torn, kills, disk, archive>>
Compact(m) ==
  /\ mig[m].at = "again"
  /\ registry' = [has |-> registry.has /\ registry.compact = "keep", compact |-> None]
  /\ Step(m, "over")
  /\ UNCHANGED <<source, run, root, torn, kills, disk, archive>>

------------------------------------------------------------------------
(* What the user and the system do.                                        *)

Edit ==
  /\ source < MaxEdits /\ source' = source + 1
  /\ UNCHANGED <<run, disk, archive, root, registry, mig, torn, kills>>
Going == {r \in Runs : run[r].at \notin {"idle", "over"}}
\* Someone changes the snapshot of a finished run, and perhaps between a resume's
\* comparison of it and its copy.
Resuming(p, r) == At(p, "planned") /\ run[p].parent = r
Tamper(r) ==
  /\ At(r, "over") /\ disk[r].input \in Versions
  /\ \E v \in Versions : disk' = [disk EXCEPT ![r].input = v]
  /\ run' = [p \in Runs |-> IF Resuming(p, r) THEN [run[p] EXCEPT !.moved = TRUE] ELSE run[p]]
  /\ UNCHANGED <<Other, archive, root>>
\* A run is killed: what it did stays on disk.
Kill(r) ==
  /\ r \in Going /\ kills < MaxKills
  /\ kills' = kills + 1 /\ Goes(r, "over")
  /\ UNCHANGED <<source, registry, mig, torn, disk, archive, root>>
\* The project's directory goes, and its .aop with it, while no run of it goes on.
Delete ==
  /\ Deletes /\ root /\ Going = {}
  /\ root' = FALSE /\ disk' = [r \in Runs |-> [Bare EXCEPT !.archived = disk[r].archived]]
  /\ UNCHANGED <<Other, run, archive>>
KillMigration(m) ==
  /\ mig[m].at # "over"
  /\ mig' = [mig EXCEPT ![m] = [NoMigration EXCEPT !.at = "look"]]
  /\ registry' = [registry EXCEPT !.compact = IF mig[m].at = "again" THEN None ELSE @]
  /\ UNCHANGED <<source, run, root, torn, kills, disk, archive>>

RunStep(r) == \/ Begin(r) \/ Refuse(r) \/ Copy(r) \/ Hashed(r) \/ MakeRoot(r) \/ Register(r)
              \/ MakeRun(r) \/ Request(r) \/ Launch(r) \/ End(r) \/ Collect(r) \/ WriteResult(r)
              \/ ArchiveResult(r)
MigrationStep(m) ==
  \/ Look(m) \/ (\E r \in Runs : Read(m, r)) \/ KeepOriginal(m) \/ BeginCopy(m) \/ CopyOriginal(m)
  \/ Upgrade(m) \/ ArchiveCurrent(m) \/ MigrateArchive(m) \/ Inspect(m) \/ Compact(m)

Next ==
  \/ \E r \in Runs : RunStep(r) \/ Kill(r) \/ Tamper(r)
  \/ \E m \in Migrators : MigrationStep(m) \/ KillMigration(m)
  \/ Edit \/ Delete

Spec == Init /\ [][Next]_vars

------------------------------------------------------------------------

\* Whatever is edited meanwhile, the request of a run tells the digest of the input its
\* harness sees, and a sealed resume sees what its parent saw, unless its parent's snapshot
\* was changed after the resume had compared it (runner.py:7195-7222, 8200-8239).
ManifestIsSnapshot ==
  \A r \in Runs : At(r, "running") =>
    /\ run[r].digest = disk[r].input
    /\ run[r].parent # None => run[r].moved \/ run[r].digest = run[run[r].parent].digest

\* A result that says the run succeeded has in its directory, for every declaration, an
\* alternative that was well made, all that were, and there is none that was not
\* (runner.py:8367-8405).
SuccessDelivered ==
  \A r \in Runs \ Legacy : disk[r].result.ok => \A d \in Declared :
    /\ disk[r].kept \cap d # {}
    /\ \A a \in d : run[r].made[a] # "bad" /\ (run[r].made[a] = "good" => a \in disk[r].kept)

\* A run's result and its copy in the archive are the same once a migration has been over
\* it, whoever was killed between the two before (migration.py:47-60, 122-133, runner.py:362-376).
ArchiveAgrees ==
  \A m \in Migrators, r \in Runs :
    r \in mig[m].done /\ disk[r].result # NoRecord => archive[r] = disk[r].result

\* The state directory of every run that has one is in the registry, so that `aop resume`,
\* cleanup and the migration find it from anywhere (worktrees.py:43-72, runner.py:330).
RecordsAreRegistered == (\E r \in Runs : disk[r].dir) => registry.has

\* A record of an older version is in place or its original is kept, whole, through any
\* number of migrations and kills, unless a migration came upon an original that another,
\* or a killed one, had begun to copy (migration.py:108-119).
OriginalsKept ==
  \A r \in Legacy \ torn : disk[r].dir =>
    disk[r].result.format = "old" \/ disk[r].original = "whole"
=============================================================================
