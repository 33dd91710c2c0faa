--------------------------- MODULE RunRecordProofs ---------------------------
(***************************************************************************)
(* What TLAPS proves of RunRecord, for any number of runs, migrations,     *)
(* kills, edits and deletions.                                             *)
(***************************************************************************)
EXTENDS RunRecord, TLAPS

Run == [at: RunPlaces, parent: Runs \cup {None}, copy: Versions \cup {NoVersion},
        digest: Versions \cup {NoVersion}, moved: BOOLEAN, ok: BOOLEAN, made: Made,
        todo: SUBSET Declared, kept: SUBSET Artifacts]
Disk == [dir: BOOLEAN, request: {None, "old", "current"},
         input: Versions \cup {NoVersion}, result: Records,
         kept: SUBSET Artifacts, original: Originals, archived: Originals]
Mig == [at: MigPlaces, of: Runs \cup {None}, in: {"runs", "archive"},
        value: Records, todo: SUBSET Runs, done: SUBSET Runs]

\* A migration that is at work on a record is so on a run's.
AtWork == {"keep", "copy", "copying", "upgrade", "archive"}
OfInv == \A m \in Migrators : mig[m].at \in AtWork => mig[m].of \in Runs

LEMMA RecordsTyped ==
  /\ NoRecord \in Records
  /\ \A ok \in BOOLEAN : Record("current", ok) \in Records /\ Record("old", ok) \in Records
BY DEF Records, NoRecord, Record, None

LEMMA RecordUpgraded ==
  ASSUME NEW v \in Records
  PROVE  [v EXCEPT !.format = "current"] \in Records /\ [v EXCEPT !.format = "current"].format = "current"
<1>1. CASE v = NoRecord
  BY <1>1 DEF Records, NoRecord, Record
<1>2. CASE v \in [format: {"old", "current"}, ok: BOOLEAN]
  BY <1>2 DEF Records
<1> QED
  BY <1>1, <1>2 DEF Records

LEMMA TypeInit == Init => TypeOK
<1> SUFFICES ASSUME Init PROVE TypeOK
  OBVIOUS
<1>1. 0 \in Versions /\ 0 \in 0..MaxKills
  BY RunRecordAssumption DEF Versions
<1>2. Idle \in Run
  BY DEF Idle, Run, RunPlaces, Made, None
<1>3. Bare \in Disk
  BY RecordsTyped DEF Bare, Disk, Originals, None
<1>4. run \in [Runs -> Run]
  BY ZenonT(40), <1>1, <1>2 DEF Init, Run, RunPlaces
<1>5. disk \in [Runs -> Disk]
  BY <1>1, <1>3, RecordsTyped DEF Init, Disk
<1>6. mig \in [Migrators -> Mig]
  BY RecordsTyped DEF Init, Mig, MigPlaces, NoMigration, None
<1>7. archive \in [Runs -> Records]
  BY RecordsTyped DEF Init
<1> QED
  BY <1>1, <1>4, <1>5, <1>6, <1>7 DEF Init, TypeOK, Run, Disk, Mig, None

\* Changing one field of one run, directory or migration keeps the types.
LEMMA RunFields ==
  ASSUME NEW f \in [Runs -> Run], NEW r \in Runs
  PROVE  /\ \A v \in RunPlaces : [f EXCEPT ![r].at = v] \in [Runs -> Run]
         /\ \A v \in Runs \cup {None} : [f EXCEPT ![r].parent = v] \in [Runs -> Run]
         /\ \A v \in Versions \cup {NoVersion} :
              [f EXCEPT ![r].copy = v] \in [Runs -> Run] /\ [f EXCEPT ![r].digest = v] \in [Runs -> Run]
         /\ \A v \in BOOLEAN : [f EXCEPT ![r].ok = v] \in [Runs -> Run]
                              /\ [f EXCEPT ![r].moved = v] \in [Runs -> Run]
         /\ \A v \in Made : [f EXCEPT ![r].made = v] \in [Runs -> Run]
         /\ \A v \in SUBSET Declared : [f EXCEPT ![r].todo = v] \in [Runs -> Run]
         /\ \A v \in SUBSET Artifacts : [f EXCEPT ![r].kept = v] \in [Runs -> Run]
BY DEF Run

LEMMA DiskFields ==
  ASSUME NEW f \in [Runs -> Disk], NEW r \in Runs
  PROVE  /\ \A v \in BOOLEAN : [f EXCEPT ![r].dir = v] \in [Runs -> Disk]
         /\ \A v \in {None, "old", "current"} : [f EXCEPT ![r].request = v] \in [Runs -> Disk]
         /\ \A v \in Versions \cup {NoVersion} : [f EXCEPT ![r].input = v] \in [Runs -> Disk]
         /\ \A v \in Records : [f EXCEPT ![r].result = v] \in [Runs -> Disk]
         /\ \A v \in SUBSET Artifacts : [f EXCEPT ![r].kept = v] \in [Runs -> Disk]
         /\ \A v \in Originals : [f EXCEPT ![r].original = v] \in [Runs -> Disk]
                                 /\ [f EXCEPT ![r].archived = v] \in [Runs -> Disk]
BY DEF Disk

LEMMA MigFields ==
  ASSUME NEW f \in [Migrators -> Mig], NEW m \in Migrators
  PROVE  /\ \A v \in MigPlaces : [f EXCEPT ![m].at = v] \in [Migrators -> Mig]
         /\ \A v \in Runs \cup {None} : [f EXCEPT ![m].of = v] \in [Migrators -> Mig]
         /\ \A v \in {"runs", "archive"} : [f EXCEPT ![m].in = v] \in [Migrators -> Mig]
         /\ \A v \in Records : [f EXCEPT ![m].value = v] \in [Migrators -> Mig]
         /\ \A v \in SUBSET Runs : [f EXCEPT ![m].todo = v] \in [Migrators -> Mig]
                                   /\ [f EXCEPT ![m].done = v] \in [Migrators -> Mig]
BY DEF Mig

\* What changes when someone changes the snapshot of a run.
LEMMA Tampered ==
  ASSUME run \in [Runs -> Run], disk \in [Runs -> Disk], NEW r \in Runs, Tamper(r)
  PROVE  /\ run' \in [Runs -> Run] /\ disk' \in [Runs -> Disk]
         /\ \A q \in Runs :
              /\ run'[q].at = run[q].at /\ run'[q].parent = run[q].parent
              /\ run'[q].digest = run[q].digest /\ run'[q].ok = run[q].ok
              /\ run'[q].made = run[q].made /\ run'[q].todo = run[q].todo
              /\ run'[q].moved = (run[q].moved \/ Resuming(q, r))
              /\ disk'[q].dir = disk[q].dir /\ disk'[q].result = disk[q].result
              /\ disk'[q].kept = disk[q].kept /\ disk'[q].original = disk[q].original
              /\ q # r => disk'[q].input = disk[q].input
<1>1. ASSUME NEW q \in Runs
      PROVE  /\ run'[q] = IF Resuming(q, r) THEN [run[q] EXCEPT !.moved = TRUE] ELSE run[q]
             /\ run'[q] \in Run
  BY DEF Tamper, Run
<1>2. run' \in [Runs -> Run]
  <2>1. run' = [q \in Runs |-> IF Resuming(q, r) THEN [run[q] EXCEPT !.moved = TRUE] ELSE run[q]]
    BY DEF Tamper
  <2>2. \A q \in Runs : (IF Resuming(q, r) THEN [run[q] EXCEPT !.moved = TRUE] ELSE run[q]) \in Run
    BY DEF Run
  <2> QED
    BY <2>1, <2>2
<1>3. PICK v \in Versions : disk' = [disk EXCEPT ![r].input = v]
  BY DEF Tamper
<1>4. disk' \in [Runs -> Disk]
  BY <1>3, DiskFields
<1>5. ASSUME NEW q \in Runs
      PROVE  /\ run'[q].at = run[q].at /\ run'[q].parent = run[q].parent
             /\ run'[q].digest = run[q].digest /\ run'[q].ok = run[q].ok
             /\ run'[q].made = run[q].made /\ run'[q].todo = run[q].todo
             /\ run'[q].moved = (run[q].moved \/ Resuming(q, r))
  <2>1. CASE Resuming(q, r)
    BY <1>1, <2>1 DEF Run
  <2>2. CASE ~Resuming(q, r)
    BY <1>1, <2>2 DEF Run
  <2> QED
    BY <2>1, <2>2
<1>6. ASSUME NEW q \in Runs
      PROVE  /\ disk'[q].dir = disk[q].dir /\ disk'[q].result = disk[q].result
             /\ disk'[q].kept = disk[q].kept /\ disk'[q].original = disk[q].original
             /\ q # r => disk'[q].input = disk[q].input
  BY <1>3 DEF Disk
<1> QED
  BY <1>2, <1>4, <1>5, <1>6

LEMMA TypeNext == TypeOK /\ OfInv /\ [Next]_vars => TypeOK'
<1> SUFFICES ASSUME TypeOK, OfInv, [Next]_vars PROVE TypeOK'
  OBVIOUS
<1>t. /\ run \in [Runs -> Run] /\ disk \in [Runs -> Disk] /\ mig \in [Migrators -> Mig]
      /\ archive \in [Runs -> Records] /\ source \in Versions /\ root \in BOOLEAN
      /\ kills \in 0..MaxKills /\ registry \in [has: BOOLEAN, compact: {None, "keep", "drop"}]
      /\ torn \subseteq Runs
  BY DEF TypeOK, Run, Disk, Mig
<1>q. ASSUME /\ run' \in [Runs -> Run] /\ disk' \in [Runs -> Disk] /\ mig' \in [Migrators -> Mig]
             /\ archive' \in [Runs -> Records] /\ source' \in Versions /\ root' \in BOOLEAN
             /\ kills' \in 0..MaxKills /\ registry' \in [has: BOOLEAN, compact: {None, "keep", "drop"}]
             /\ torn' \subseteq Runs
      PROVE  TypeOK'
  BY <1>q DEF TypeOK, Run, Disk, Mig
<1> DEFINE Places(r) == \A place \in RunPlaces : Goes(r, place) => run' \in [Runs -> Run]
<1>p. ASSUME NEW r \in Runs PROVE Places(r)
  BY <1>t DEF Goes, Run
<1> DEFINE Steps(m) == \A place \in MigPlaces : Step(m, place) => mig' \in [Migrators -> Mig]
<1>s. ASSUME NEW m \in Migrators PROVE Steps(m)
  BY SMTT(30), <1>t DEF Step, Mig
<1>0. ASSUME NEW r \in Runs, Begin(r) \/ Refuse(r) PROVE TypeOK'
  <2>1. ASSUME NEW p \in Runs, Resume(r, p) PROVE run' \in [Runs -> Run]
    <3> PICK f \in [Runs -> Run] : f = [run EXCEPT ![r].at = "planned"]
      BY <1>t, RunFields DEF RunPlaces
    <3> QED
      BY <2>1, RunFields DEF Resume
  <2>2. run' \in [Runs -> Run]
    BY <1>0, <1>p, <2>1 DEF Begin, Refuse, Fresh, RunPlaces
  <2> QED
    BY <1>0, <1>t, <1>q, <2>2 DEF Begin, Refuse, Other
<1>1. ASSUME NEW r \in Runs, Copy(r) PROVE TypeOK'
  <2> DEFINE from == IF run[r].parent = None THEN source ELSE disk[run[r].parent].input
  <2>1. CASE from = NoVersion
    BY <1>1, <1>t, <1>q, <1>p, <2>1 DEF Copy, RunPlaces, Other
  <2>2. CASE from # NoVersion
    <3>1. run[r].parent # None => run[r].parent \in Runs
      BY <1>t DEF Run
    <3>2. from \in Versions \cup {NoVersion}
      BY <1>t, <3>1 DEF Disk
    <3>3. PICK v \in Versions \cup {NoVersion} : v = from
      BY <3>2
    <3>4. run' = [run EXCEPT ![r].at = "copied", ![r].copy = v] /\ disk' = [disk EXCEPT ![r].input = v]
          /\ root' = TRUE
      BY <1>1, <2>2, <3>3 DEF Copy
    <3> HIDE DEF from
    <3> PICK f \in [Runs -> Run] : f = [run EXCEPT ![r].at = "copied"]
      BY <1>t, RunFields DEF RunPlaces
    <3>5. run' \in [Runs -> Run] /\ disk' \in [Runs -> Disk]
      BY <1>t, <3>4, RunFields, DiskFields
    <3> QED
      BY <1>1, <1>t, <1>q, <3>4, <3>5 DEF Copy, Other
  <2> QED
    BY <2>1, <2>2
<1>2. ASSUME NEW r \in Runs, Hashed(r) PROVE TypeOK'
  <2>1. PICK v \in Versions \cup {NoVersion} : v = Hash(r)
    BY <1>t DEF Hash, Disk
  <2>2. PICK place \in RunPlaces : run' = [run EXCEPT ![r].at = place, ![r].digest = v]
    BY <1>2, <2>1 DEF Hashed, RunPlaces
  <2> PICK f \in [Runs -> Run] : f = [run EXCEPT ![r].at = place]
    BY <1>t, RunFields
  <2>3. run' \in [Runs -> Run]
    BY <2>2, RunFields
  <2> QED
    BY <1>2, <1>t, <1>q, <2>3 DEF Hashed, Other
<1>3. ASSUME NEW r \in Runs, MakeRoot(r) \/ Register(r) \/ Launch(r) PROVE TypeOK'
  <2>1. run' \in [Runs -> Run]
    BY <1>3, <1>p DEF MakeRoot, Register, Enter, Launch, RunPlaces
  <2> QED
    BY <1>3, <1>t, <1>q, <2>1 DEF MakeRoot, Register, Enter, Launch, Other
<1>4. ASSUME NEW r \in Runs, MakeRun(r) \/ Request(r) PROVE TypeOK'
  <2>1. run' \in [Runs -> Run]
    BY <1>4, <1>p DEF MakeRun, Request, RunPlaces
  <2>2. disk' \in [Runs -> Disk]
    <3>1. [disk EXCEPT ![r].dir = TRUE] \in [Runs -> Disk]
      BY <1>t, DiskFields
    <3>2. [disk EXCEPT ![r].request = "current"] \in [Runs -> Disk]
      BY <1>t, DiskFields
    <3> QED
      BY <1>4, <1>t, <3>1, <3>2 DEF MakeRun, Request
  <2> QED
    BY <1>4, <1>t, <1>q, <2>1, <2>2 DEF MakeRun, Request, Other
<1>5. ASSUME NEW r \in Runs, End(r) PROVE TypeOK'
  <2>1. PICK ok \in BOOLEAN, made \in Made, todo \in SUBSET Declared :
          run' = [run EXCEPT ![r].at = "ended", ![r].ok = ok, ![r].made = made, ![r].todo = todo]
    BY <1>5 DEF End
  <2> PICK f \in [Runs -> Run] : f = [run EXCEPT ![r].at = "ended"]
    BY <1>t, RunFields DEF RunPlaces
  <2> PICK g \in [Runs -> Run] : g = [f EXCEPT ![r].ok = ok]
    BY RunFields
  <2> PICK h \in [Runs -> Run] : h = [g EXCEPT ![r].made = made]
    BY RunFields
  <2>2. run' \in [Runs -> Run]
    BY <2>1, RunFields
  <2> QED
    BY <1>5, <1>t, <1>q, <2>2 DEF End, Other
<1>6. ASSUME NEW r \in Runs, Collect(r) PROVE TypeOK'
  <2>1. CASE \E d \in run[r].todo :
          LET good == {a \in d : disk[r].dir /\ run[r].made[a] = "good"}
          IN /\ disk' = [disk EXCEPT ![r].kept = @ \cup good]
             /\ run' = [run EXCEPT ![r].ok = @ /\ disk[r].dir /\ Met(run[r].made, d),
                                   ![r].todo = @ \ {d}, ![r].kept = @ \cup good]
    <3> PICK d \in run[r].todo :
          LET good == {a \in d : disk[r].dir /\ run[r].made[a] = "good"}
          IN /\ disk' = [disk EXCEPT ![r].kept = @ \cup good]
             /\ run' = [run EXCEPT ![r].ok = @ /\ disk[r].dir /\ Met(run[r].made, d),
                                   ![r].todo = @ \ {d}, ![r].kept = @ \cup good]
      BY <2>1
    <3> DEFINE good == {a \in d : disk[r].dir /\ run[r].made[a] = "good"}
    <3>1. good \in SUBSET Artifacts
      BY <1>t DEF Run, Artifacts
    <3>2. (run[r].ok /\ disk[r].dir /\ Met(run[r].made, d)) \in BOOLEAN
      OBVIOUS
    <3> HIDE DEF good
    <3>3. disk' \in [Runs -> Disk]
      <4>1. PICK kept \in SUBSET Artifacts : kept = disk[r].kept \cup good
        BY <1>t, <3>1 DEF Disk
      <4>2. disk' = [disk EXCEPT ![r].kept = kept]
        BY <4>1 DEF good
      <4>3. [disk EXCEPT ![r].kept = kept] \in [Runs -> Disk]
        BY <1>t DEF Disk
      <4> QED
        BY <4>2, <4>3
    <3>4. run' \in [Runs -> Run]
      <4>1. PICK todo \in SUBSET Declared, kept \in SUBSET Artifacts, ok \in BOOLEAN :
              /\ todo = run[r].todo \ {d} /\ kept = run[r].kept \cup good
              /\ ok = (run[r].ok /\ disk[r].dir /\ Met(run[r].made, d))
        BY <1>t, <3>1, <3>2 DEF Run
      <4>2. run' = [run EXCEPT ![r].ok = ok, ![r].todo = todo, ![r].kept = kept]
        BY <4>1 DEF good
      <4> PICK f \in [Runs -> Run] : f = [run EXCEPT ![r].ok = ok]
        BY <1>t, RunFields
      <4> PICK g \in [Runs -> Run] : g = [f EXCEPT ![r].todo = todo]
        BY RunFields
      <4>3. [g EXCEPT ![r].kept = kept] \in [Runs -> Run]
        BY DEF Run
      <4> QED
        BY <4>2, <4>3
    <3> QED
      BY <1>6, <1>t, <1>q, <3>3, <3>4 DEF Collect, Other
  <2>2. CASE run[r].todo = {} /\ Goes(r, "collected") /\ UNCHANGED disk
    BY <1>6, <1>t, <1>q, <2>2, <1>p DEF Collect, Other, RunPlaces
  <2> QED
    BY <1>6, <2>1, <2>2 DEF Collect
<1>7. ASSUME NEW r \in Runs, WriteResult(r) \/ ArchiveResult(r) PROVE TypeOK'
  <2>1. run' \in [Runs -> Run]
    BY <1>7, <1>p DEF WriteResult, ArchiveResult, RunPlaces
  <2>2. run[r].ok \in BOOLEAN
    BY <1>t DEF Run
  <2>3. disk' \in [Runs -> Disk]
    <3>1. PICK result \in Records : result = Record("current", run[r].ok)
      BY <2>2, RecordsTyped
    <3>2. [disk EXCEPT ![r].result = result] \in [Runs -> Disk]
      BY <1>t, DiskFields
    <3> QED
      BY <1>7, <1>t, <3>1, <3>2 DEF WriteResult, ArchiveResult
  <2>4. archive' \in [Runs -> Records]
    BY <1>7, <1>t, <2>2, RecordsTyped DEF WriteResult, ArchiveResult
  <2> QED
    BY <1>7, <1>t, <1>q, <2>1, <2>3, <2>4 DEF WriteResult, ArchiveResult, Other
<1>8. ASSUME NEW m \in Migrators, Look(m) PROVE TypeOK'
  <2>1. PICK todo \in SUBSET Runs :
          mig' = [mig EXCEPT ![m].at = "read", ![m].in = "runs", ![m].todo = todo]
    BY <1>8 DEF Look
  <2> PICK f \in [Migrators -> Mig] : f = [mig EXCEPT ![m].at = "read"]
    BY <1>t, MigFields DEF MigPlaces
  <2> PICK g \in [Migrators -> Mig] : g = [f EXCEPT ![m].in = "runs"]
    BY MigFields
  <2>2. mig' \in [Migrators -> Mig]
    BY <2>1, MigFields
  <2> QED
    BY <1>8, <1>t, <1>q, <2>2 DEF Look, MigOther, Kept
<1>r. ASSUME NEW m \in Migrators, NEW r \in Runs, Read(m, r) PROVE TypeOK'
  <2>1. Stored(r, mig[m].in) \in Records /\ mig[m].todo \ {r} \in SUBSET Runs
    BY <1>t DEF Stored, Disk, Mig
  <2>2. PICK todo \in SUBSET Runs, value \in Records, place \in MigPlaces :
          mig' = [mig EXCEPT ![m].todo = todo, ![m].of = r, ![m].value = value, ![m].at = place]
    BY <1>r, <2>1 DEF Read, MigPlaces
  <2> PICK f \in [Migrators -> Mig] : f = [mig EXCEPT ![m].todo = todo]
    BY <1>t, MigFields
  <2> PICK g \in [Migrators -> Mig] : g = [f EXCEPT ![m].of = r]
    BY MigFields
  <2> PICK h \in [Migrators -> Mig] : h = [g EXCEPT ![m].value = value]
    BY MigFields
  <2>3. mig' \in [Migrators -> Mig]
    BY <2>2, MigFields
  <2>4. PICK request \in {None, "old", "current"} : disk' = [disk EXCEPT ![r].request = request]
    BY <1>r, <1>t DEF Read, Disk
  <2>5. disk' \in [Runs -> Disk]
    BY <2>4, <1>t, DiskFields
  <2> QED
    BY <1>r, <1>t, <1>q, <2>3, <2>5 DEF Read, MigOther, Kept
<1>a. ASSUME NEW m \in Migrators, ArchiveCurrent(m) PROVE TypeOK'
  <2>1. PICK done \in SUBSET Runs : mig' = [mig EXCEPT ![m].at = "read", ![m].done = done]
    <3>1. mig[m].of \in Runs \cup {None} /\ mig[m].done \in SUBSET Runs
      BY <1>t DEF Mig
    <3>2. mig[m].of \in Runs
      BY <1>a DEF ArchiveCurrent, OfInv, AtWork
    <3> QED
      BY <1>a, <3>1, <3>2 DEF ArchiveCurrent
  <2> PICK f \in [Migrators -> Mig] : f = [mig EXCEPT ![m].at = "read"]
    BY <1>t, MigFields DEF MigPlaces
  <2>2. mig' \in [Migrators -> Mig]
    BY <2>1, MigFields
  <2>3. archive' \in [Runs -> Records]
    BY <1>a, <1>t DEF ArchiveCurrent, Mig
  <2> QED
    BY <1>a, <1>t, <1>q, <2>2, <2>3 DEF ArchiveCurrent, MigOther, Kept
<1>b. ASSUME NEW m \in Migrators, MigrateArchive(m) PROVE TypeOK'
  <2>1. PICK todo \in SUBSET Runs : mig' = [mig EXCEPT ![m].in = "archive", ![m].todo = todo]
    BY <1>b DEF MigrateArchive
  <2> PICK f \in [Migrators -> Mig] : f = [mig EXCEPT ![m].in = "archive"]
    BY <1>t, MigFields
  <2>2. mig' \in [Migrators -> Mig]
    BY <2>1, MigFields
  <2>3. registry' \in [has: BOOLEAN, compact: {None, "keep", "drop"}]
    BY <1>b, <1>t DEF MigrateArchive
  <2> QED
    BY <1>b, <1>t, <1>q, <2>2, <2>3 DEF MigrateArchive
<1>c. ASSUME NEW m \in Migrators, Inspect(m) \/ Compact(m) PROVE TypeOK'
  <2>1. mig' \in [Migrators -> Mig]
    <3>1. \A place \in MigPlaces : Step(m, place) => mig' \in [Migrators -> Mig]
      BY <1>s DEF Steps
    <3> QED
      BY <1>c, <3>1 DEF Inspect, Compact, MigPlaces
  <2>2. PICK keep \in {"keep", "drop"} :
          \/ registry' = [registry EXCEPT !.compact = keep]
          \/ registry' = [has |-> registry.has /\ registry.compact = "keep", compact |-> None]
    BY <1>c DEF Inspect, Compact
  <2>3. registry' \in [has: BOOLEAN, compact: {None, "keep", "drop"}]
    <3>1. [registry EXCEPT !.compact = keep] \in [has: BOOLEAN, compact: {None, "keep", "drop"}]
      BY <1>t
    <3>2. [has |-> registry.has /\ registry.compact = "keep", compact |-> None]
            \in [has: BOOLEAN, compact: {None, "keep", "drop"}]
      OBVIOUS
    <3> QED
      BY <2>2, <3>1, <3>2
  <2> QED
    BY <1>c, <1>t, <1>q, <2>1, <2>3 DEF Inspect, Compact
<1>9. ASSUME NEW m \in Migrators, KeepOriginal(m) \/ BeginCopy(m) \/ CopyOriginal(m) PROVE TypeOK'
  <2>1. mig' \in [Migrators -> Mig]
    <3>1. \A place \in MigPlaces : Step(m, place) => mig' \in [Migrators -> Mig]
      BY <1>s DEF Steps
    <3> QED
      BY <1>9, <3>1 DEF KeepOriginal, BeginCopy, CopyOriginal, MigPlaces
  <2>2. PICK what \in Originals : Keep(mig[m].of, mig[m].in, what) \/ UNCHANGED disk
    BY <1>9 DEF KeepOriginal, BeginCopy, CopyOriginal, Copied, Originals
  <2>3. mig[m].of \in Runs
    BY <1>9 DEF KeepOriginal, BeginCopy, CopyOriginal, OfInv, AtWork
  <2>4. [disk EXCEPT ![mig[m].of].original = what] \in [Runs -> Disk]
    BY <1>t, <2>3, DiskFields
  <2>5. [disk EXCEPT ![mig[m].of].archived = what] \in [Runs -> Disk]
    BY <1>t, <2>3, DiskFields
  <2>6. disk' \in [Runs -> Disk]
    BY <1>t, <2>2, <2>4, <2>5 DEF Keep
  <2>7. torn' \subseteq Runs
    BY <1>9, <1>t, <2>3 DEF KeepOriginal, BeginCopy, CopyOriginal, Kept, Tear
  <2> QED
    BY <1>9, <1>t, <1>q, <2>1, <2>6, <2>7 DEF KeepOriginal, BeginCopy, CopyOriginal, MigOther, Kept
<1>10. ASSUME NEW m \in Migrators, Upgrade(m) PROVE TypeOK'
  <2>1. PICK new \in Records : new = [mig[m].value EXCEPT !.format = "current"]
    <3>1. mig[m].value \in Records
      BY <1>t DEF Mig
    <3>2. PICK v \in Records : v = mig[m].value
      BY <3>1
    <3> QED
      BY <3>2, RecordUpgraded
  <2>2. mig' \in [Migrators -> Mig]
    <3> PICK f \in [Migrators -> Mig] : f = [mig EXCEPT ![m].at = "archive"]
      BY <1>t, MigFields DEF MigPlaces
    <3>1. \A place \in MigPlaces : Step(m, place) => mig' \in [Migrators -> Mig]
      BY <1>s DEF Steps
    <3>2. [mig EXCEPT ![m].at = "archive", ![m].value = new] \in [Migrators -> Mig]
      BY MigFields
    <3> QED
      BY <1>10, <2>1, <3>1, <3>2 DEF Upgrade, MigPlaces
  <2>3. mig[m].of \in Runs
    BY <1>10 DEF Upgrade, OfInv, AtWork
  <2>4. [disk EXCEPT ![mig[m].of].result = new] \in [Runs -> Disk]
    BY <1>t, <2>3, DiskFields
  <2>5. disk' \in [Runs -> Disk]
    BY <1>10, <1>t, <2>1, <2>4 DEF Upgrade
  <2>6. archive' \in [Runs -> Records]
    BY <1>10, <1>t, <2>1, <2>3 DEF Upgrade
  <2> QED
    BY <1>10, <1>t, <1>q, <2>2, <2>5, <2>6 DEF Upgrade, MigOther, Kept
<1>11. ASSUME NEW r \in Runs, Tamper(r) \/ Kill(r) PROVE TypeOK'
  <2>1. CASE Tamper(r)
    BY <1>t, <1>q, <2>1, Tampered DEF Tamper, Other
  <2>2. CASE Kill(r)
    <3>1. run' \in [Runs -> Run]
      BY <1>p, <2>2 DEF Kill, RunPlaces
    <3>2. kills' \in 0..MaxKills
      BY <1>t, <2>2, RunRecordAssumption DEF Kill
    <3> QED
      BY <1>t, <1>q, <2>2, <3>1, <3>2 DEF Kill
  <2> QED
    BY <1>11, <2>1, <2>2
<1>12. ASSUME NEW m \in Migrators, KillMigration(m) PROVE TypeOK'
  <2>1. mig' \in [Migrators -> Mig]
    BY <1>12, <1>t, RecordsTyped DEF KillMigration, NoMigration, Mig, MigPlaces
  <2> QED
    BY <1>12, <1>t, <1>q, <2>1 DEF KillMigration
<1>13. CASE Edit
  BY <1>13, <1>t, <1>q, RunRecordAssumption DEF Edit, Versions
<1>14. CASE Delete
  <2>1. ASSUME NEW r \in Runs PROVE [Bare EXCEPT !.archived = disk[r].archived] \in Disk
    <3>1. disk[r].archived \in Originals /\ Bare \in Disk
      BY <1>t, RecordsTyped DEF Disk, Bare, Originals
    <3> QED
      BY <3>1 DEF Disk
  <2>2. disk' \in [Runs -> Disk]
    BY <1>14, <2>1 DEF Delete
  <2> QED
    BY <1>14, <1>t, <1>q, <2>2 DEF Delete, Other
<1>15. CASE UNCHANGED vars
  BY <1>15, <1>t, <1>q DEF vars
<1> QED
  BY <1>0, <1>1, <1>2, <1>3, <1>4, <1>5, <1>6, <1>7, <1>8, <1>r, <1>a, <1>b, <1>c, <1>9, <1>10, <1>11, <1>12, <1>13,
     <1>14, <1>15 DEF Next, RunStep, MigrationStep

LEMMA OfNext == TypeOK /\ OfInv /\ [Next]_vars => OfInv'
<1> SUFFICES ASSUME TypeOK, OfInv, [Next]_vars PROVE OfInv'
  OBVIOUS
<1>t. mig \in [Migrators -> Mig]
  BY DEF TypeOK, Mig
<1>1. ASSUME NEW m \in Migrators, MigrationStep(m) \/ KillMigration(m) PROVE OfInv'
  <2>1. CASE Look(m)
    BY <1>t, <2>1 DEF Look, OfInv, AtWork, Mig
  <2>2. ASSUME NEW r \in Runs, Read(m, r) PROVE OfInv'
    <3>1. \A n \in Migrators : mig'[n].of = IF n = m THEN r ELSE mig[n].of
      BY <1>t, <2>2 DEF Read, Mig
    <3>2. \A n \in Migrators \ {m} : mig'[n].at = mig[n].at
      BY <1>t, <2>2 DEF Read, Mig
    <3> QED
      BY <3>1, <3>2 DEF OfInv
  <2>3. CASE KeepOriginal(m) \/ BeginCopy(m) \/ CopyOriginal(m)
    BY <1>t, <2>3 DEF KeepOriginal, BeginCopy, CopyOriginal, Step, OfInv, AtWork, Mig
  <2>4. CASE Upgrade(m)
    <3>1. /\ mig[m].at = "upgrade"
          /\ \A n \in Migrators : mig'[n].of = mig[n].of /\ (n # m => mig'[n].at = mig[n].at)
      BY <1>t, <2>4 DEF Upgrade, Step, Mig
    <3> QED
      BY <3>1 DEF OfInv, AtWork
  <2>5. CASE ArchiveCurrent(m) \/ MigrateArchive(m)
    BY <1>t, <2>5 DEF ArchiveCurrent, MigrateArchive, OfInv, AtWork, Mig
  <2>6. CASE Inspect(m) \/ Compact(m)
    BY <1>t, <2>6 DEF Inspect, Compact, Step, OfInv, AtWork, Mig
  <2>7. CASE KillMigration(m)
    BY <1>t, <2>7 DEF KillMigration, NoMigration, OfInv, AtWork, Mig
  <2> QED
    BY <1>1, <2>1, <2>2, <2>3, <2>4, <2>5, <2>6, <2>7 DEF MigrationStep
<1>2. ASSUME UNCHANGED mig PROVE OfInv'
  BY <1>2 DEF OfInv
<1>3. ASSUME NEW r \in Runs, RunStep(r) \/ Kill(r) \/ Tamper(r) PROVE UNCHANGED mig
  BY <1>3 DEF RunStep, Kill, Tamper, Begin, Refuse, Copy, Hashed, MakeRoot, Register, Enter, MakeRun,
     Request, Launch, End, Collect, WriteResult, ArchiveResult, Other
<1> QED
  BY <1>1, <1>2, <1>3 DEF Next, Edit, Delete, Other, vars

\* Every reachable state is well typed.
THEOREM TypeCorrect == Spec => []TypeOK
<1>1. Init => OfInv
  BY DEF Init, OfInv, AtWork, NoMigration
<1> QED
  BY <1>1, TypeInit, TypeNext, OfNext, PTL DEF Spec

------------------------------------------------------------------------
(* The registry.                                                           *)

\* A run at one of Listed has entered the state directory in the registry; one at Rooted
\* has made the directory.
Listed == {"listed", "dir", "asked", "running", "ended", "collected", "written"}
Rooted == {"copied", "hashed", "root"} \cup Listed

\* A compaction that is to drop the entry has none to lose: whoever relies on it has the
\* directory made, which is what the compaction looked for, and enters it again only when
\* the compaction, which holds the registry's lock, is over.
RegInv ==
  /\ \A r \in Runs : disk[r].dir \/ run[r].at \in Rooted => root
  /\ \A r \in Runs : disk[r].dir \/ run[r].at \in Listed => registry.has /\ registry.compact # "drop"
  /\ \A m \in Migrators : mig[m].at = "again" => registry.compact # None
  /\ \A m, n \in Migrators : mig[m].at = "again" /\ mig[n].at = "again" => m = n

LEMMA RegInit == Init => RegInv
<1> SUFFICES ASSUME Init PROVE RegInv
  OBVIOUS
<1>1. \A r \in Runs : run[r].at \in {"idle", "over"}
  BY DEF Init, Idle
<1>2. \A r \in Runs : disk[r].dir => r \in Legacy
  BY DEF Init, Bare
<1>3. \A m \in Migrators : mig[m].at = "look"
  BY DEF Init, NoMigration
<1>4. registry.has = root /\ registry.compact = None /\ root = (Legacy # {})
  BY DEF Init
<1> QED
  BY <1>1, <1>2, <1>3, <1>4 DEF RegInv, Listed, Rooted, None

\* A step that makes no directory, takes no run into one of the places above and leaves the
\* registry alone keeps the invariant.
LEMMA RegQuiet ==
  ASSUME RegInv, UNCHANGED <<root, registry>>,
         \A r \in Runs : disk'[r].dir => disk[r].dir,
         \A r \in Runs : /\ run'[r].at \in Rooted => run[r].at \in Rooted
                         /\ run'[r].at \in Listed => run[r].at \in Listed,
         \A m \in Migrators : mig'[m].at = "again" => mig[m].at = "again"
  PROVE  RegInv'
BY DEF RegInv

LEMMA RegRun ==
  ASSUME TypeOK, RegInv, NEW r \in Runs, RunStep(r)
  PROVE  RegInv'
<1>t. run \in [Runs -> Run] /\ disk \in [Runs -> Disk]
  BY DEF TypeOK, Run, Disk
<1>m. UNCHANGED mig
  BY DEF RunStep, Begin, Refuse, Copy, Hashed, MakeRoot, Register, Enter, MakeRun,
     Request, Launch, End, Collect, WriteResult, ArchiveResult, Other
<1>1. CASE Begin(r) \/ Refuse(r)
  <2>1. \A q \in Runs : run'[q].at \in Rooted => run[q].at \in Rooted
    BY <1>t, <1>1 DEF Begin, Fresh, Resume, Refuse, Goes, Run, Rooted, Listed
  <2>2. \A q \in Runs : run'[q].at \in Listed => run[q].at \in Listed
    BY <1>t, <1>1 DEF Begin, Fresh, Resume, Refuse, Goes, Run, Listed
  <2> QED
    BY <1>1, <1>m, <2>1, <2>2, RegQuiet DEF Begin, Refuse, Other
<1>2. CASE Copy(r)
  <2>1. CASE Goes(r, "over") /\ UNCHANGED <<disk, root>>
    <3>1. \A q \in Runs : run'[q].at = IF q = r THEN "over" ELSE run[q].at
      BY <1>t, <2>1 DEF Goes, Run
    <3> QED
      BY <1>2, <1>m, <2>1, <3>1, RegQuiet DEF Copy, Other, Rooted, Listed
  <2>2. CASE \E from : /\ run' = [run EXCEPT ![r].at = "copied", ![r].copy = from]
                       /\ disk' = [disk EXCEPT ![r].input = from]
                       /\ root' = TRUE
    <3>1. \A q \in Runs : /\ run'[q].at = IF q = r THEN "copied" ELSE run[q].at
                          /\ disk'[q].dir = disk[q].dir
      BY <1>t, <2>2 DEF Run, Disk
    <3> QED
      BY ZenonT(40), <1>2, <1>m, <2>2, <3>1 DEF Copy, Other, RegInv, Listed
  <2> QED
    BY <1>2, <2>1, <2>2 DEF Copy
<1>3. CASE Hashed(r)
  <2>1. \A q \in Runs : run'[q].at = IF q # r THEN run[q].at
                                     ELSE IF Hash(r) = NoVersion THEN "over" ELSE "hashed"
    BY <1>t, <1>3 DEF Hashed, Run
  <2>2. run[r].at = "copied"
    BY <1>3 DEF Hashed, At
  <2>3. \A q \in Runs : /\ run'[q].at \in Rooted => run[q].at \in Rooted
                        /\ run'[q].at \in Listed => run[q].at \in Listed
    BY <2>1, <2>2 DEF Rooted, Listed
  <2>4. UNCHANGED <<root, registry, disk>>
    BY <1>3 DEF Hashed, Other
  <2> QED
    BY <1>m, <2>3, <2>4, RegQuiet
<1>4. CASE MakeRoot(r)
  <2>1. \A q \in Runs : run'[q].at = IF q = r THEN "root" ELSE run[q].at
    BY <1>t, <1>4 DEF MakeRoot, Goes, Run
  <2> QED
    BY <1>4, <1>m, <2>1 DEF MakeRoot, Other, RegInv, Listed
<1>5. CASE Register(r)
  <2>1. \A q \in Runs : run'[q].at = IF q = r THEN "listed" ELSE run[q].at
    BY <1>t, <1>5 DEF Register, Enter, Goes, Run
  <2>2. run[r].at = "root" /\ registry.compact = None
    BY <1>5 DEF Register, At
  <2>3. registry'.has /\ registry'.compact = registry.compact
    BY <1>5 DEF Register, Enter, TypeOK
  <2>4. root
    BY <2>2 DEF RegInv, Rooted
  <2> QED
    BY <1>5, <1>m, <2>1, <2>2, <2>3, <2>4 DEF Register, Enter, RegInv, Listed, Rooted, None
<1>6. CASE MakeRun(r) \/ Request(r)
  <2>1. \A q \in Runs : q # r => run'[q].at = run[q].at /\ disk'[q].dir = disk[q].dir
    BY <1>t, <1>6 DEF MakeRun, Request, Goes, Run, Disk
  <2>2. run[r].at \in Listed
    BY <1>6 DEF MakeRun, Request, At, Listed
  <2> QED
    BY <1>6, <1>m, <2>1, <2>2 DEF MakeRun, Request, Other, RegInv, Rooted
<1>7. CASE Launch(r) \/ End(r)
  <2>1. \A q \in Runs : q # r => run'[q].at = run[q].at
    BY <1>t, <1>7 DEF Launch, End, Goes, Run
  <2>2. run[r].at \in Listed
    BY <1>7 DEF Launch, End, At, Listed
  <2> QED
    BY <1>7, <1>m, <2>1, <2>2, RegQuiet DEF Launch, End, Other, Rooted
<1>8. CASE Collect(r)
  <2>1. \A q \in Runs : /\ q # r => run'[q].at = run[q].at
                        /\ disk'[q].dir = disk[q].dir
    <3>1. CASE Goes(r, "collected") /\ UNCHANGED disk
      BY <1>t, <3>1 DEF Goes, Run
    <3>2. ASSUME NEW d \in run[r].todo, NEW good,
                 disk' = [disk EXCEPT ![r].kept = @ \cup good],
                 run' = [run EXCEPT ![r].ok = @ /\ disk[r].dir /\ Met(run[r].made, d),
                                    ![r].todo = @ \ {d}, ![r].kept = @ \cup good]
          PROVE  \A q \in Runs : q # r => run'[q].at = run[q].at /\ disk'[q].dir = disk[q].dir
      BY <1>t, <3>2 DEF Run, Disk
    <3>3. ASSUME NEW good, disk' = [disk EXCEPT ![r].kept = @ \cup good]
          PROVE  disk'[r].dir = disk[r].dir
      BY <1>t, <3>3 DEF Disk
    <3> QED
      BY <1>8, <3>1, <3>2, <3>3 DEF Collect
  <2>2. run[r].at \in Listed
    BY <1>8 DEF Collect, At, Listed
  <2> QED
    BY <1>8, <1>m, <2>1, <2>2, RegQuiet DEF Collect, Other, Rooted
<1>9. CASE WriteResult(r) \/ ArchiveResult(r)
  <2>1. \A q \in Runs : /\ q # r => run'[q].at = run[q].at
                        /\ disk'[q].dir = disk[q].dir
    BY <1>t, <1>9 DEF WriteResult, ArchiveResult, Goes, Run, Disk
  <2>2. run[r].at \in Listed
    BY <1>9 DEF WriteResult, ArchiveResult, At, Listed
  <2> QED
    BY <1>9, <1>m, <2>1, <2>2, RegQuiet DEF WriteResult, ArchiveResult, Other, Rooted
<1> QED
  BY <1>1, <1>2, <1>3, <1>4, <1>5, <1>6, <1>7, <1>8, <1>9 DEF RunStep

LEMMA RegMigration ==
  ASSUME TypeOK, OfInv, RegInv, NEW m \in Migrators, MigrationStep(m) \/ KillMigration(m)
  PROVE  RegInv'
<1>t. disk \in [Runs -> Disk] /\ mig \in [Migrators -> Mig]
  BY DEF TypeOK, Disk, Mig
<1>n. UNCHANGED <<run, root>>
  BY DEF MigrationStep, KillMigration, Look, Read, KeepOriginal, BeginCopy, CopyOriginal, Upgrade,
     ArchiveCurrent, MigrateArchive, Inspect, Compact, MigOther, Kept
<1>1. ASSUME Look(m) \/ (\E r \in Runs : Read(m, r)) \/ ArchiveCurrent(m) PROVE RegInv'
  <2>1. \A n \in Migrators : mig'[n].at = "again" => mig[n].at = "again"
    <3>1. CASE Look(m)
      BY <1>t, <3>1 DEF Look, Mig
    <3>2. CASE ArchiveCurrent(m)
      BY <1>t, <3>2 DEF ArchiveCurrent, Mig
    <3>3. ASSUME NEW r \in Runs, Read(m, r)
          PROVE  \A n \in Migrators : mig'[n].at = "again" => mig[n].at = "again"
      <4>1. \E todo, value, place : place # "again" /\
              mig' = [mig EXCEPT ![m].todo = todo, ![m].of = r, ![m].value = value, ![m].at = place]
        BY <3>3 DEF Read
      <4> QED
        BY <1>t, <4>1 DEF Mig
    <3> QED
      BY <1>1, <3>1, <3>2, <3>3
  <2>2. \A r \in Runs : disk'[r].dir => disk[r].dir
    <3>1. UNCHANGED disk \/ \E r, request : disk' = [disk EXCEPT ![r].request = request]
      BY <1>1 DEF Look, Read, ArchiveCurrent
    <3> QED
      BY <1>t, <3>1 DEF Disk
  <2> QED
    BY <1>1, <1>n, <2>1, <2>2, RegQuiet DEF Look, Read, ArchiveCurrent, MigOther, Kept
<1>2. ASSUME KeepOriginal(m) \/ BeginCopy(m) \/ CopyOriginal(m) PROVE RegInv'
  <2>1. \A n \in Migrators : mig'[n].at = "again" => mig[n].at = "again"
    BY <1>t, <1>2 DEF KeepOriginal, BeginCopy, CopyOriginal, Step, Mig
  <2>2. \A r \in Runs : disk'[r].dir => disk[r].dir
    BY <1>t, <1>2 DEF KeepOriginal, BeginCopy, CopyOriginal, Keep, Disk
  <2> QED
    BY <1>2, <1>n, <2>1, <2>2, RegQuiet DEF KeepOriginal, BeginCopy, CopyOriginal, MigOther, Kept
<1>3. ASSUME Upgrade(m) PROVE RegInv'
  <2>1. \A n \in Migrators : mig'[n].at = "again" => mig[n].at = "again"
    BY <1>t, <1>3 DEF Upgrade, Step, Mig
  <2>2. \A r \in Runs : disk'[r].dir => disk[r].dir
    BY <1>t, <1>3 DEF Upgrade, Disk
  <2> QED
    BY <1>3, <1>n, <2>1, <2>2, RegQuiet DEF Upgrade, MigOther, Kept
<1>4. ASSUME MigrateArchive(m) PROVE RegInv'
  <2>1. \A n \in Migrators : mig'[n].at = mig[n].at
    BY <1>t, <1>4 DEF MigrateArchive, Mig
  <2>2. registry'.has /\ registry'.compact = registry.compact /\ UNCHANGED disk
    BY <1>4 DEF MigrateArchive, TypeOK
  <2> QED
    BY <1>n, <2>1, <2>2 DEF RegInv
<1>5. ASSUME Inspect(m) PROVE RegInv'
  <2>1. \A n \in Migrators : mig'[n].at = IF n = m THEN "again" ELSE mig[n].at
    BY <1>t, <1>5 DEF Inspect, Step, Mig
  <2>2. /\ registry.compact = None /\ UNCHANGED disk
        /\ registry'.has = registry.has
        /\ registry'.compact = IF root THEN "keep" ELSE "drop"
    BY <1>5 DEF Inspect, TypeOK
  <2>3. \A n \in Migrators : mig[n].at # "again"
    BY <2>2 DEF RegInv
  <2>4. \A r \in Runs : disk[r].dir \/ run[r].at \in Listed => root
    BY DEF RegInv, Rooted
  <2> QED
    BY <1>n, <2>1, <2>2, <2>3, <2>4 DEF RegInv, None
<1>6. ASSUME Compact(m) \/ KillMigration(m) PROVE RegInv'
  <2>1. \A n \in Migrators : mig'[n].at = "again" => n # m /\ mig[n].at = "again"
    BY <1>t, <1>6 DEF Compact, KillMigration, NoMigration, Step, Mig
  <2>2. UNCHANGED disk
    BY <1>6 DEF Compact, KillMigration
  <2>3. CASE mig[m].at = "again"
    <3>1. \A n \in Migrators : mig'[n].at # "again"
      BY <2>1, <2>3 DEF RegInv
    <3>2. registry.compact # "drop" /\ registry.has => registry'.has
      BY <1>6, <2>3 DEF Compact, KillMigration, TypeOK, RegInv
    <3>3. registry'.compact = None
      BY <1>6, <2>3 DEF Compact, KillMigration, TypeOK
    <3> QED
      BY <1>n, <2>2, <3>1, <3>2, <3>3 DEF RegInv, None
  <2>4. CASE mig[m].at # "again"
    <3>1. registry' = registry
      BY <1>6, <2>4 DEF Compact, KillMigration, TypeOK
    <3> QED
      BY <1>n, <2>1, <2>2, <3>1, RegQuiet
  <2> QED
    BY <2>3, <2>4
<1> QED
  BY <1>1, <1>2, <1>3, <1>4, <1>5, <1>6 DEF MigrationStep

LEMMA RegNext == TypeOK /\ OfInv /\ RegInv /\ [Next]_vars => RegInv'
<1> SUFFICES ASSUME TypeOK, OfInv, RegInv, [Next]_vars PROVE RegInv'
  OBVIOUS
<1>t. run \in [Runs -> Run] /\ disk \in [Runs -> Disk]
  BY DEF TypeOK, Run, Disk
<1>1. ASSUME NEW r \in Runs, Kill(r) \/ Tamper(r) PROVE RegInv'
  <2>1. \A q \in Runs : disk'[q].dir = disk[q].dir /\ (run'[q].at # "over" => run'[q].at = run[q].at)
    <3>1. CASE Kill(r)
      BY <1>t, <3>1 DEF Kill, Goes, Run
    <3>2. CASE Tamper(r)
      BY <1>t, <3>2, Tampered
    <3> QED
      BY <1>1, <3>1, <3>2
  <2> QED
    BY <1>1, <2>1, RegQuiet DEF Kill, Tamper, Other, Rooted, Listed
<1>2. CASE Edit \/ UNCHANGED vars
  BY <1>2, RegQuiet DEF Edit, vars
<1>3. CASE Delete
  <2>1. \A r \in Runs : run[r].at \notin Rooted
    BY <1>3 DEF Delete, Going, Rooted, Listed
  <2>2. \A r \in Runs : ~disk'[r].dir
    BY <1>3 DEF Delete, Bare
  <2> QED
    BY <1>3, <2>1, <2>2 DEF Delete, Other, RegInv, Rooted
<1> QED
  BY <1>1, <1>2, <1>3, RegRun, RegMigration DEF Next

\* Whoever compacts the registry or is killed, the state directory of every run that has one
\* is in it (worktrees.py:43-72).
THEOREM RegistryIsComplete == Spec => []RecordsAreRegistered
<1>1. Init => OfInv
  BY DEF Init, OfInv, AtWork, NoMigration
<1>2. RegInv => RecordsAreRegistered
  BY DEF RegInv, RecordsAreRegistered
<1> QED
  BY <1>1, <1>2, TypeInit, TypeNext, OfNext, RegInit, RegNext, PTL DEF Spec

------------------------------------------------------------------------
(* What a run is told of its input, and what its result says.              *)

Done == {"written", "over"}
Manifest == {"hashed", "root", "listed", "dir", "asked", "running"}

\* A migration upgrades the results of older runs only, so a result in the current format
\* is of a run that is done; such a run's digest stays, and its snapshot is what a resume
\* compared with it until someone changes it.
LegacyInv ==
  /\ \A r \in Legacy : run[r].at = "over"
  /\ \A r \in Runs : disk[r].result.format = "old" => r \in Legacy
  /\ \A m \in Migrators : mig[m].at \in {"keep", "copy", "copying", "upgrade"} /\ mig[m].in = "runs"
                            => mig[m].of \in Legacy
  /\ \A r \in Runs : disk[r].result.format = "current" => run[r].at \in Done
ChainInv ==
  /\ \A r \in Runs : run[r].at = "idle" => run[r].parent = None
  /\ \A r \in Runs : run[r].parent # None => run[run[r].parent].at \in Done
  /\ \A r \in Runs : run[r].at = "planned" /\ run[r].parent # None
                       => run[r].moved \/ disk[run[r].parent].input = run[run[r].parent].digest
  /\ \A r \in Runs : run[r].at = "copied" /\ run[r].parent # None
                       => run[r].moved \/ disk[r].input = run[run[r].parent].digest
  /\ \A r \in Runs : run[r].at \in Manifest =>
       /\ run[r].digest = disk[r].input
       /\ run[r].parent # None => run[r].moved \/ run[r].digest = run[run[r].parent].digest
ManInv == LegacyInv /\ ChainInv

LEMMA ManInit == Init => ManInv
<1> SUFFICES ASSUME Init PROVE ManInv
  OBVIOUS
<1>1. \A r \in Runs : /\ run[r].at = IF r \in Legacy THEN "over" ELSE "idle"
                      /\ run[r].parent = None
  BY DEF Init, Idle
<1>2. \A r \in Runs : disk[r].result.format = IF r \in Legacy THEN "old" ELSE None
  BY DEF Init, Bare, NoRecord, Record
<1>3. \A m \in Migrators : mig[m].at = "look"
  BY DEF Init, NoMigration
<1> QED
  BY <1>1, <1>2, <1>3, RunRecordAssumption DEF ManInv, LegacyInv, ChainInv, Done, Manifest, None

\* A step that leaves parents, digests, snapshots and results alone, and takes no run into
\* a place of which the invariant says something.
LEMMA ManQuiet ==
  ASSUME TypeOK, ManInv,
         \A r \in Runs : /\ run'[r].parent = run[r].parent /\ run'[r].digest = run[r].digest
                         /\ run'[r].moved = run[r].moved
                         /\ disk'[r].input = disk[r].input /\ disk'[r].result = disk[r].result,
         \A r \in Runs : /\ run[r].at \in Done => run'[r].at \in Done
                         /\ run[r].at = "over" => run'[r].at = "over"
                         /\ run'[r].at \in {"idle", "planned", "copied"} => run'[r].at = run[r].at
                         /\ run'[r].at \in Manifest => run[r].at \in Manifest,
         \A m \in Migrators : mig'[m].at \in {"keep", "copy", "copying", "upgrade"} /\ mig'[m].in = "runs"
                                => mig'[m].of \in Legacy
  PROVE  ManInv'
<1>1. \A r \in Runs : run[r].parent # None => run[r].parent \in Runs
  BY DEF TypeOK
<1>2. LegacyInv'
  BY RunRecordAssumption DEF ManInv, LegacyInv
<1>3. ChainInv'
  BY <1>1 DEF ManInv, ChainInv
<1> QED
  BY <1>2, <1>3 DEF ManInv

LEMMA ManRun ==
  ASSUME TypeOK, ManInv, NEW r \in Runs, RunStep(r)
  PROVE  ManInv'
<1>t. run \in [Runs -> Run] /\ disk \in [Runs -> Disk]
  BY DEF TypeOK, Run, Disk
<1>m. UNCHANGED mig
  BY DEF RunStep, Begin, Refuse, Copy, Hashed, MakeRoot, Register, Enter, MakeRun,
     Request, Launch, End, Collect, WriteResult, ArchiveResult, Other
<1>p. \A q \in Runs : run[q].parent # None => run[q].parent \in Runs
  BY <1>t DEF Run
<1>l. \A m \in Migrators : mig'[m].at \in {"keep", "copy", "copying", "upgrade"} /\ mig'[m].in = "runs"
                             => mig'[m].of \in Legacy
  BY <1>m DEF ManInv, LegacyInv
<1> DEFINE Goes2(place) == \A q \in Runs : /\ run'[q].parent = run[q].parent
                                           /\ run'[q].digest = run[q].digest
                                           /\ run'[q].moved = run[q].moved
                                           /\ run'[q].at = IF q = r THEN place ELSE run[q].at
           DiskAlone == \A q \in Runs : /\ disk'[q].input = disk[q].input
                                        /\ disk'[q].result = disk[q].result
<1>g. \A place \in RunPlaces : Goes(r, place) => Goes2(place)
  BY <1>t DEF Goes, Run
<1> HIDE DEF Goes2
<1>1. ASSUME NEW p \in Runs \ {r}, At(r, "idle"), Resume(r, p), UNCHANGED disk PROVE ManInv'
  <2>1. \A q \in Runs : /\ run'[q].digest = run[q].digest /\ run'[q].moved = run[q].moved
                        /\ run'[q].parent = IF q = r THEN p ELSE run[q].parent
                        /\ run'[q].at = IF q = r THEN "planned" ELSE run[q].at
    BY <1>t, <1>1 DEF Resume, Run
  <2>2. run[r].at = "idle" /\ run[p].at \in Done /\ disk[p].input = run[p].digest
    BY <1>1 DEF At, Resume, ManInv, LegacyInv
  <2>3. LegacyInv'
    BY <1>1, <1>l, <2>1, <2>2, RunRecordAssumption DEF ManInv, LegacyInv, Done
  <2>4. ChainInv'
    BY <1>1, <1>p, <2>1, <2>2 DEF ManInv, ChainInv, Done, Manifest
  <2> QED
    BY <2>3, <2>4 DEF ManInv
<1>2. CASE At(r, "idle") /\ Fresh(r) /\ UNCHANGED disk
  <2>1. Goes2("planned") /\ run[r].at = "idle"
    BY <1>2, <1>g DEF Fresh, RunPlaces, At
  <2>2. LegacyInv'
    BY <1>2, <1>l, <2>1, RunRecordAssumption DEF ManInv, LegacyInv, Goes2, Done
  <2>3. ChainInv'
    BY <1>2, <1>p, <2>1 DEF ManInv, ChainInv, Done, Manifest, Goes2
  <2> QED
    BY <2>2, <2>3 DEF ManInv
<1>3. CASE Refuse(r)
  <2>1. Goes2("over") /\ UNCHANGED disk
    BY <1>3, <1>g DEF Refuse, RunPlaces
  <2> QED
    BY <1>l, <2>1, ManQuiet DEF Goes2, Done, Manifest
<1>4. CASE Copy(r)
  <2>1. CASE Goes(r, "over") /\ UNCHANGED disk
    <3>1. Goes2("over")
      BY <2>1, <1>g DEF RunPlaces
    <3> QED
      BY <1>l, <2>1, <3>1, ManQuiet DEF Goes2, Done, Manifest
  <2>2. ASSUME NEW from, from = IF run[r].parent = None THEN source ELSE disk[run[r].parent].input,
               run' = [run EXCEPT ![r].at = "copied", ![r].copy = from],
               disk' = [disk EXCEPT ![r].input = from]
        PROVE  ManInv'
    <3>1. \A q \in Runs : /\ run'[q].parent = run[q].parent /\ run'[q].digest = run[q].digest
                          /\ run'[q].moved = run[q].moved
                          /\ run'[q].at = IF q = r THEN "copied" ELSE run[q].at
                          /\ disk'[q].input = IF q = r THEN from ELSE disk[q].input
                          /\ disk'[q].result = disk[q].result
      BY <1>t, <2>2 DEF Run, Disk
    <3>2. run[r].at = "planned"
      BY <1>4 DEF Copy, At
    <3>3. LegacyInv'
      BY <1>l, <3>1, <3>2, RunRecordAssumption DEF ManInv, LegacyInv, Done
    <3>f. run[r].parent # None => run[r].moved \/ from = run[run[r].parent].digest
      BY <2>2, <3>2 DEF ManInv, ChainInv
    <3>4. ChainInv'
      BY <1>p, <3>f, <3>1, <3>2 DEF ManInv, ChainInv, Done, Manifest
    <3> QED
      BY <3>3, <3>4 DEF ManInv
  <2> QED
    BY <1>4, <2>1, <2>2 DEF Copy
<1>5. CASE Hashed(r)
  <2>1. \A q \in Runs : /\ run'[q].parent = run[q].parent /\ run'[q].moved = run[q].moved
                        /\ run'[q].digest = IF q = r THEN disk[r].input ELSE run[q].digest
                        /\ run'[q].at = IF q # r THEN run[q].at
                                        ELSE IF disk[r].input = NoVersion THEN "over" ELSE "hashed"
    BY <1>t, <1>5 DEF Hashed, Hash, Run
  <2>2. run[r].at = "copied" /\ UNCHANGED disk
    BY <1>5 DEF Hashed, At
  <2>3. LegacyInv'
    BY <1>l, <2>1, <2>2, RunRecordAssumption DEF ManInv, LegacyInv, Done
  <2>4. ChainInv'
    BY <1>p, <2>1, <2>2 DEF ManInv, ChainInv, Done, Manifest
  <2> QED
    BY <2>3, <2>4 DEF ManInv
<1>6. CASE MakeRoot(r) \/ Register(r) \/ Launch(r)
  <2>1. PICK place \in {"root", "listed", "running", "over"} : Goes(r, place)
    BY <1>6 DEF MakeRoot, Register, Enter, Launch
  <2>2. Goes2(place)
    BY <2>1, <1>g DEF RunPlaces
  <2>3. run[r].at \in Manifest /\ UNCHANGED disk
    BY <1>6 DEF MakeRoot, Register, Enter, Launch, At, Manifest
  <2> QED
    BY <1>l, <2>2, <2>3, ManQuiet DEF Goes2, Done, Manifest
<1>7. CASE MakeRun(r) \/ Request(r)
  <2>1. PICK place \in {"dir", "asked", "over"} : Goes(r, place)
    BY <1>7 DEF MakeRun, Request
  <2>2. Goes2(place)
    BY <2>1, <1>g DEF RunPlaces
  <2>3. run[r].at \in Manifest
    BY <1>7 DEF MakeRun, Request, At, Manifest
  <2>4. DiskAlone
    BY <1>t, <1>7 DEF MakeRun, Request, Disk
  <2> QED
    BY <1>l, <2>2, <2>3, <2>4, ManQuiet DEF Goes2, Done, Manifest
<1>8. CASE End(r)
  <2>1. \E ok, made, todo :
          run' = [run EXCEPT ![r].at = "ended", ![r].ok = ok, ![r].made = made, ![r].todo = todo]
    BY <1>8 DEF End
  <2>2. Goes2("ended")
    BY <1>t, <2>1 DEF Run, Goes2
  <2>3. run[r].at = "running" /\ UNCHANGED disk
    BY <1>8 DEF End, At
  <2> QED
    BY <1>l, <2>2, <2>3, ManQuiet DEF Goes2, Done, Manifest
<1>9. CASE Collect(r)
  <2>1. CASE Goes(r, "collected") /\ UNCHANGED disk
    <3>1. Goes2("collected") /\ run[r].at = "ended"
      BY <1>9, <2>1, <1>g DEF RunPlaces, Collect, At
    <3> QED
      BY <1>l, <2>1, <3>1, ManQuiet DEF Goes2, Done, Manifest
  <2>2. ASSUME NEW d \in run[r].todo, NEW good,
               disk' = [disk EXCEPT ![r].kept = @ \cup good],
               run' = [run EXCEPT ![r].ok = @ /\ disk[r].dir /\ Met(run[r].made, d),
                                  ![r].todo = @ \ {d}, ![r].kept = @ \cup good]
        PROVE  ManInv'
    <3>1. \A q \in Runs : /\ run'[q].parent = run[q].parent /\ run'[q].digest = run[q].digest
                          /\ run'[q].moved = run[q].moved /\ run'[q].at = run[q].at
      BY <1>t, <2>2 DEF Run
    <3>2. DiskAlone
      BY <1>t, <2>2 DEF Disk
    <3> QED
      BY <1>l, <3>1, <3>2, ManQuiet
  <2> QED
    BY <1>9, <2>1, <2>2 DEF Collect
<1>10. CASE WriteResult(r)
  <2>1. run[r].at = "collected"
    BY <1>10 DEF WriteResult, At
  <2>2. CASE Goes(r, "over") /\ UNCHANGED disk
    <3>1. Goes2("over")
      BY <2>2, <1>g DEF RunPlaces
    <3> QED
      BY <1>l, <2>2, <3>1, ManQuiet DEF Goes2, Done, Manifest
  <2>3. CASE Goes(r, "written") /\ disk' = [disk EXCEPT ![r].result = Record("current", run[r].ok)]
    <3>1. Goes2("written")
      BY <2>3, <1>g DEF RunPlaces
    <3>2. \A q \in Runs : disk'[q].input = disk[q].input /\ (q # r => disk'[q].result = disk[q].result)
      BY <1>t, <2>3 DEF Disk
    <3>3. disk'[r].result.format = "current"
      BY <1>t, <2>3 DEF Disk, Record
    <3>4. LegacyInv'
      BY <1>l, <2>1, <3>1, <3>2, <3>3, RunRecordAssumption DEF ManInv, LegacyInv, Done, Goes2
    <3>5. ChainInv'
      BY <1>p, <2>1, <3>1, <3>2 DEF ManInv, ChainInv, Done, Manifest, Goes2
    <3> QED
      BY <3>4, <3>5 DEF ManInv
  <2> QED
    BY <1>10, <2>2, <2>3 DEF WriteResult
<1>11. CASE ArchiveResult(r)
  <2>1. Goes2("over") /\ run[r].at = "written" /\ UNCHANGED disk
    BY <1>11, <1>g DEF ArchiveResult, RunPlaces, At
  <2> QED
    BY <1>l, <2>1, ManQuiet DEF Goes2, Done, Manifest
<1> QED
  BY <1>1, <1>2, <1>3, <1>4, <1>5, <1>6, <1>7, <1>8, <1>9, <1>10, <1>11 DEF RunStep, Begin

LEMMA ManMigration ==
  ASSUME TypeOK, OfInv, ManInv, NEW m \in Migrators, MigrationStep(m) \/ KillMigration(m)
  PROVE  ManInv'
<1>t. disk \in [Runs -> Disk] /\ mig \in [Migrators -> Mig]
  BY DEF TypeOK, Disk, Mig
<1>n. UNCHANGED run
  BY DEF MigrationStep, KillMigration, Look, Read, KeepOriginal, BeginCopy, CopyOriginal, Upgrade,
     ArchiveCurrent, MigrateArchive, Inspect, Compact, MigOther, Kept
<1> DEFINE OnLegacy(n) == mig[n].at \in {"keep", "copy", "copying", "upgrade"} /\ mig[n].in = "runs"
                            => mig[n].of \in Legacy
           DiskAlone == \A q \in Runs : /\ disk'[q].input = disk[q].input
                                        /\ disk'[q].result = disk[q].result
<1>l. \A n \in Migrators : OnLegacy(n)
  BY DEF ManInv, LegacyInv
<1>q. ASSUME \A n \in Migrators : OnLegacy(n)', DiskAlone
      PROVE  ManInv'
  BY <1>n, <1>q, ManQuiet
<1>1. CASE Look(m)
  <2>1. \A n \in Migrators : mig'[n] = mig[n] \/ mig'[n].at = "read"
    BY <1>t, <1>1 DEF Look, Mig
  <2> QED
    BY <1>1, <1>l, <1>q, <2>1 DEF Look
<1>2. ASSUME NEW r \in Runs, Read(m, r) PROVE ManInv'
  <2>1. \E todo, value, place :
          /\ mig' = [mig EXCEPT ![m].todo = todo, ![m].of = r, ![m].value = value, ![m].at = place]
          /\ place = "keep" => Stored(r, mig[m].in).format = "old"
          /\ place \in {"keep", "read", "archive"}
    BY <1>2 DEF Read
  <2>2. /\ \A n \in Migrators : n # m => mig'[n] = mig[n]
        /\ mig'[m].of = r /\ mig'[m].in = mig[m].in
        /\ mig'[m].at \in {"keep", "read", "archive"}
        /\ mig'[m].at = "keep" => Stored(r, mig[m].in).format = "old"
    BY <1>t, <2>1 DEF Mig
  <2>3. OnLegacy(m)'
    BY <2>2 DEF Stored, ManInv, LegacyInv
  <2>4. \E request : disk' = [disk EXCEPT ![r].request = request]
    BY <1>2 DEF Read
  <2>5. DiskAlone
    BY <1>t, <2>4 DEF Disk
  <2> QED
    BY <1>l, <1>q, <2>2, <2>3, <2>5
<1>3. CASE KeepOriginal(m) \/ BeginCopy(m) \/ CopyOriginal(m)
  <2>1. \A n \in Migrators : /\ mig'[n].of = mig[n].of /\ mig'[n].in = mig[n].in
                             /\ n # m => mig'[n].at = mig[n].at
    BY <1>t, <1>3 DEF KeepOriginal, BeginCopy, CopyOriginal, Step, Mig
  <2>2. mig[m].at \in {"keep", "copy", "copying"}
    BY <1>3 DEF KeepOriginal, BeginCopy, CopyOriginal
  <2>3. DiskAlone
    BY <1>t, <1>3 DEF KeepOriginal, BeginCopy, CopyOriginal, Keep, Disk
  <2> QED
    BY <1>l, <1>q, <2>1, <2>2, <2>3
<1>4. CASE Upgrade(m)
  <2>1. mig[m].at = "upgrade"
    BY <1>4 DEF Upgrade
  <2>2. \A n \in Migrators : /\ mig'[n].of = mig[n].of /\ mig'[n].in = mig[n].in
                             /\ n # m => mig'[n].at = mig[n].at
    BY <1>t, <1>4 DEF Upgrade, Step, Mig
  <2>3. \A n \in Migrators : OnLegacy(n)'
    BY <1>l, <2>1, <2>2
  <2>4. CASE UNCHANGED disk
    BY <1>q, <2>3, <2>4
  <2>5. ASSUME mig[m].in = "runs", NEW new, new.format = "current",
               disk' = [disk EXCEPT ![mig[m].of].result = new]
        PROVE  ManInv'
    <3>1. mig[m].of \in Legacy /\ mig[m].of \in Runs
      BY <1>l, <2>1, <2>5, RunRecordAssumption
    <3>2. \A q \in Runs : /\ disk'[q].input = disk[q].input
                          /\ disk'[q].result = IF q = mig[m].of THEN new ELSE disk[q].result
      BY <1>t, <2>5, <3>1 DEF Disk
    <3>3. LegacyInv'
      BY <1>n, <2>3, <2>5, <3>1, <3>2, RunRecordAssumption DEF ManInv, LegacyInv, Done
    <3>4. ChainInv'
      <4>1. \A q \in Runs : run[q].parent # None => run[q].parent \in Runs
        BY DEF TypeOK
      <4> QED
        BY <1>n, <3>2, <4>1 DEF ManInv, ChainInv
    <3> QED
      BY <3>3, <3>4 DEF ManInv
  <2>6. [mig[m].value EXCEPT !.format = "current"].format = "current"
    <3>1. PICK v \in Records : v = mig[m].value
      BY <1>t DEF Mig
    <3> QED
      BY <3>1, RecordUpgraded
  <2> QED
    BY <1>4, <2>4, <2>5, <2>6 DEF Upgrade
<1>5. CASE ArchiveCurrent(m) \/ MigrateArchive(m)
  <2>1. \A n \in Migrators : n # m => mig'[n] = mig[n]
    BY <1>t, <1>5 DEF ArchiveCurrent, MigrateArchive, Mig
  <2>2. mig'[m].at = "read"
    BY <1>t, <1>5 DEF ArchiveCurrent, MigrateArchive, Mig
  <2> QED
    BY <1>5, <1>l, <1>q, <2>1, <2>2 DEF ArchiveCurrent, MigrateArchive
<1>6. CASE Inspect(m) \/ Compact(m) \/ KillMigration(m)
  <2>1. \A n \in Migrators : n # m => mig'[n] = mig[n]
    BY <1>t, <1>6 DEF Inspect, Compact, KillMigration, Step, Mig
  <2>2. mig'[m].at \in {"again", "over", "look"}
    BY <1>t, <1>6 DEF Inspect, Compact, KillMigration, NoMigration, Step, Mig
  <2> QED
    BY <1>6, <1>l, <1>q, <2>1, <2>2 DEF Inspect, Compact, KillMigration
<1> QED
  BY <1>1, <1>2, <1>3, <1>4, <1>5, <1>6 DEF MigrationStep

LEMMA ManNext == TypeOK /\ OfInv /\ ManInv /\ [Next]_vars => ManInv'
<1> SUFFICES ASSUME TypeOK, OfInv, ManInv, [Next]_vars PROVE ManInv'
  OBVIOUS
<1>t. run \in [Runs -> Run] /\ disk \in [Runs -> Disk]
  BY DEF TypeOK, Run, Disk
<1>l. \A m \in Migrators : mig[m].at \in {"keep", "copy", "copying", "upgrade"} /\ mig[m].in = "runs"
                             => mig[m].of \in Legacy
  BY DEF ManInv, LegacyInv
<1>p. \A q \in Runs : run[q].parent # None => run[q].parent \in Runs
  BY <1>t DEF Run
<1>1. ASSUME NEW r \in Runs, Kill(r) PROVE ManInv'
  <2>1. \A q \in Runs : /\ run'[q].parent = run[q].parent /\ run'[q].digest = run[q].digest
                        /\ run'[q].moved = run[q].moved
                        /\ run'[q].at = IF q = r THEN "over" ELSE run[q].at
    BY <1>t, <1>1 DEF Kill, Goes, Run
  <2> QED
    BY <1>1, <1>l, <2>1, ManQuiet DEF Kill, Done, Manifest
<1>2. ASSUME NEW r \in Runs, Tamper(r) PROVE ManInv'
  <2>1. \A q \in Runs : disk'[q].result = disk[q].result /\ (q # r => disk'[q].input = disk[q].input)
    BY <1>t, <1>2, Tampered
  <2>2. \A q \in Runs : /\ run'[q].at = run[q].at /\ run'[q].parent = run[q].parent
                        /\ run'[q].digest = run[q].digest
                        /\ run[q].moved \/ (run[q].at = "planned" /\ run[q].parent = r) => run'[q].moved
    BY <1>t, <1>2, Tampered DEF Resuming, At
  <2>3. run[r].at = "over" /\ UNCHANGED mig
    BY <1>2 DEF Tamper, At, Other
  <2>4. LegacyInv'
    BY <2>1, <2>2, <2>3, RunRecordAssumption DEF ManInv, LegacyInv
  <2>5. ChainInv'
    BY <1>p, <2>1, <2>2, <2>3 DEF ManInv, ChainInv, Manifest
  <2> QED
    BY <2>4, <2>5 DEF ManInv
<1>3. CASE Edit \/ UNCHANGED vars
  BY <1>3, <1>l, ManQuiet DEF Edit, vars
<1>4. CASE Delete
  <2>1. \A r \in Runs : run[r].at \in {"idle", "over"}
    BY <1>4 DEF Delete, Going
  <2>2. \A r \in Runs : disk'[r].result.format = None
    BY <1>4 DEF Delete, Bare, NoRecord, Record
  <2>3. UNCHANGED <<run, mig>>
    BY <1>4 DEF Delete, Other
  <2>4. LegacyInv'
    BY <2>2, <2>3 DEF ManInv, LegacyInv, None
  <2>5. ChainInv'
    BY <1>p, <2>1, <2>3 DEF ManInv, ChainInv, Manifest
  <2> QED
    BY <2>4, <2>5 DEF ManInv
<1> QED
  BY <1>1, <1>2, <1>3, <1>4, ManRun, ManMigration DEF Next

\* Whatever is edited, tampered with, deleted or killed meanwhile, the request of a run tells
\* the digest of the input its harness sees, and a sealed resume sees what its parent saw,
\* unless the parent's snapshot was changed after the resume had compared it
\* (runner.py:7195-7222, 8200-8239).
THEOREM ManifestsHold == Spec => []ManifestIsSnapshot
<1>1. Init => OfInv
  BY DEF Init, OfInv, AtWork, NoMigration
<1>2. ManInv => ManifestIsSnapshot
  BY DEF ManInv, ChainInv, ManifestIsSnapshot, At, Manifest
<1> QED
  BY <1>1, <1>2, TypeInit, TypeNext, OfNext, ManInit, ManNext, PTL DEF Spec

\* A declaration of a run is delivered: it was met, and what was well made is kept.
Delivered(r, d) == /\ Met(run[r].made, d)
                   /\ \A a \in d : run[r].made[a] = "good" => a \in disk[r].kept
\* While a run collects, whatever it has been over is delivered or the run has failed.
SuccInv ==
  \A r \in Runs \ Legacy :
    /\ run[r].at = "ended" /\ run[r].ok => \A d \in Declared : d \in run[r].todo \/ Delivered(r, d)
    /\ run[r].at = "collected" /\ run[r].ok => \A d \in Declared : Delivered(r, d)
    /\ disk[r].result.ok => run[r].at \in Done /\ \A d \in Declared : Delivered(r, d)

LEMMA SuccInit == Init => SuccInv
<1> SUFFICES ASSUME Init PROVE SuccInv
  OBVIOUS
<1>1. \A r \in Runs \ Legacy : run[r] = Idle /\ disk[r] = Bare
  BY DEF Init
<1> QED
  BY <1>1 DEF SuccInv, Idle, Bare, NoRecord, Record

\* A step that takes no run into the collection of its artifacts, and changes neither what
\* was made and kept nor the results of the runs of this version.
LEMMA SuccQuiet ==
  ASSUME SuccInv,
         \A r \in Runs \ Legacy :
           /\ run'[r].ok = run[r].ok /\ run'[r].made = run[r].made /\ run'[r].todo = run[r].todo
           /\ run'[r].at \in {"ended", "collected"} => run'[r].at = run[r].at
           /\ run[r].at \in Done => run'[r].at \in Done
           /\ disk'[r].kept = disk[r].kept /\ disk'[r].result.ok = disk[r].result.ok
  PROVE  SuccInv'
BY DEF SuccInv, Delivered

LEMMA SuccRun ==
  ASSUME TypeOK, ManInv, SuccInv, NEW r \in Runs, RunStep(r)
  PROVE  SuccInv'
<1>t. run \in [Runs -> Run] /\ disk \in [Runs -> Disk]
  BY DEF TypeOK, Run, Disk
<1>1. CASE \/ Begin(r) \/ Refuse(r) \/ Copy(r) \/ Hashed(r)
  <2>1. \A q \in Runs : /\ disk'[q].kept = disk[q].kept /\ disk'[q].result = disk[q].result
    BY <1>t, <1>1 DEF Begin, Refuse, Copy, Hashed, Disk
  <2>2. \A q \in Runs : /\ run'[q].ok = run[q].ok /\ run'[q].made = run[q].made
                        /\ run'[q].todo = run[q].todo
                        /\ run'[q].at \notin {"ended", "collected"} \/ run'[q].at = run[q].at
                        /\ q # r => run'[q].at = run[q].at
    BY <1>t, <1>1 DEF Begin, Fresh, Resume, Refuse, Copy, Hashed, Goes, Run
  <2>3. run[r].at \notin Done
    BY <1>1 DEF Begin, Refuse, Copy, Hashed, At, Done
  <2> QED
    BY <2>1, <2>2, <2>3, SuccQuiet
<1>2. CASE MakeRoot(r) \/ Register(r) \/ MakeRun(r) \/ Request(r) \/ Launch(r)
  <2>1. \A q \in Runs : /\ disk'[q].kept = disk[q].kept /\ disk'[q].result = disk[q].result
    BY <1>t, <1>2 DEF MakeRoot, Register, Enter, MakeRun, Request, Launch, Disk
  <2>2. \A q \in Runs : /\ run'[q].ok = run[q].ok /\ run'[q].made = run[q].made
                        /\ run'[q].todo = run[q].todo
                        /\ run'[q].at \notin {"ended", "collected"} \/ run'[q].at = run[q].at
                        /\ q # r => run'[q].at = run[q].at
    BY <1>t, <1>2 DEF MakeRoot, Register, Enter, MakeRun, Request, Launch, Goes, Run
  <2>3. run[r].at \notin Done
    BY <1>2 DEF MakeRoot, Register, Enter, MakeRun, Request, Launch, At, Done
  <2> QED
    BY <2>1, <2>2, <2>3, SuccQuiet
<1>3. CASE End(r)
  <2>1. PICK ok \in BOOLEAN, made \in Made, todo \in SUBSET Declared :
          /\ run' = [run EXCEPT ![r].at = "ended", ![r].ok = ok, ![r].made = made, ![r].todo = todo]
          /\ ok => todo = Declared
    <3>1. PICK ok \in BOOLEAN, made \in Made :
            run' = [run EXCEPT ![r].at = "ended", ![r].ok = ok, ![r].made = made,
                               ![r].todo = IF ok THEN Declared ELSE {}]
      BY <1>3 DEF End
    <3> WITNESS ok \in BOOLEAN, made \in Made, (IF ok THEN Declared ELSE {}) \in SUBSET Declared
    <3> QED
      BY <3>1
  <2>2. \A q \in Runs : IF q # r THEN run'[q] = run[q]
                        ELSE /\ run'[q].at = "ended" /\ run'[q].todo = todo
                             /\ run'[q].ok = ok
    BY <1>t, <2>1 DEF Run
  <2>3. run[r].at = "running" /\ UNCHANGED disk
    BY <1>3 DEF End, At
  <2> QED
    BY ZenonT(40), <2>1, <2>2, <2>3 DEF SuccInv, Delivered, Done
<1>4. CASE Collect(r)
  <2>1. run[r].at = "ended"
    BY <1>4 DEF Collect, At
  <2>2. CASE run[r].todo = {} /\ Goes(r, "collected") /\ UNCHANGED disk
    <3>1. \A q \in Runs : IF q # r THEN run'[q] = run[q]
                          ELSE /\ run'[q].at = "collected" /\ run'[q].ok = run[q].ok
                               /\ run'[q].made = run[q].made
      BY <1>t, <2>2 DEF Goes, Run
    <3> QED
      BY <2>1, <2>2, <3>1 DEF SuccInv, Delivered, Done
  <2>3. ASSUME NEW d \in run[r].todo, NEW good,
               good = {a \in d : disk[r].dir /\ run[r].made[a] = "good"},
               disk' = [disk EXCEPT ![r].kept = @ \cup good],
               run' = [run EXCEPT ![r].ok = @ /\ disk[r].dir /\ Met(run[r].made, d),
                                  ![r].todo = @ \ {d}, ![r].kept = @ \cup good]
        PROVE  SuccInv'
    <3>1. \A q \in Runs : IF q # r THEN run'[q] = run[q]
                          ELSE /\ run'[q].at = run[q].at /\ run'[q].made = run[q].made
                               /\ run'[q].todo = run[q].todo \ {d}
      BY <1>t, <2>3 DEF Run
    <3>2. run'[r].ok => run[r].ok /\ disk[r].dir /\ Met(run[r].made, d)
      BY <1>t, <2>3 DEF Run
    <3>3. \A q \in Runs : /\ disk'[q].result = disk[q].result
                          /\ disk'[q].kept = IF q = r THEN disk[q].kept \cup good ELSE disk[q].kept
      BY <1>t, <2>3 DEF Disk
    <3>4. disk[r].dir => \A a \in d : run[r].made[a] = "good" => a \in good
      BY <2>3
    <3>5. ASSUME NEW e \in Declared, r \notin Legacy, run'[r].ok, e \notin run'[r].todo
          PROVE  Delivered(r, e)'
      <4>1. e = d \/ Delivered(r, e)
        BY <2>1, <3>1, <3>2, <3>5 DEF SuccInv
      <4>2. CASE e = d
        BY <3>1, <3>2, <3>3, <3>4, <3>5, <4>2 DEF Delivered
      <4>3. CASE Delivered(r, e)
        BY <3>1, <3>3, <4>3 DEF Delivered
      <4> QED
        BY <4>1, <4>2, <4>3
    <3>6. run'[r].at = "ended" /\ (r \notin Legacy => ~disk'[r].result.ok)
      BY <2>1, <3>1, <3>3 DEF SuccInv, Done
    <3>7. ASSUME NEW q \in Runs \ Legacy, q # r
          PROVE  run'[q] = run[q] /\ disk'[q].kept = disk[q].kept /\ disk'[q].result = disk[q].result
      BY <3>1, <3>3, <3>7
    <3>8. ASSUME NEW q \in Runs \ Legacy, q # r, NEW e PROVE Delivered(q, e)' <=> Delivered(q, e)
      BY <3>7, <3>8 DEF Delivered
    <3> QED
      BY <3>5, <3>6, <3>7, <3>8 DEF SuccInv
  <2> QED
    BY <1>4, <2>2, <2>3 DEF Collect
<1>5. CASE WriteResult(r)
  <2>1. run[r].at = "collected"
    BY <1>5 DEF WriteResult, At
  <2>2. \A q \in Runs : /\ run'[q].ok = run[q].ok /\ run'[q].made = run[q].made
                        /\ run'[q].todo = run[q].todo
                        /\ IF q = r THEN run'[q].at \in Done ELSE run'[q].at = run[q].at
    BY <1>t, <1>5 DEF WriteResult, Goes, Run, Done
  <2>3. \A q \in Runs : /\ disk'[q].kept = disk[q].kept
                        /\ q # r => disk'[q].result = disk[q].result
                        /\ disk'[r].result.ok => disk[r].result.ok \/ run[r].ok
    BY <1>t, <1>5 DEF WriteResult, Disk, Record
  <2> QED
    BY <2>1, <2>2, <2>3 DEF SuccInv, Delivered, Done
<1>6. CASE ArchiveResult(r)
  <2>1. \A q \in Runs : /\ run'[q].ok = run[q].ok /\ run'[q].made = run[q].made
                        /\ run'[q].todo = run[q].todo
                        /\ run'[q].at = IF q = r THEN "over" ELSE run[q].at
    BY <1>t, <1>6 DEF ArchiveResult, Goes, Run
  <2> QED
    BY <1>6, <2>1, SuccQuiet DEF ArchiveResult, Done
<1> QED
  BY <1>1, <1>2, <1>3, <1>4, <1>5, <1>6 DEF RunStep

LEMMA SuccMigration ==
  ASSUME TypeOK, OfInv, ManInv, SuccInv, NEW m \in Migrators, MigrationStep(m) \/ KillMigration(m)
  PROVE  SuccInv'
<1>t. disk \in [Runs -> Disk]
  BY DEF TypeOK, Disk
<1>n. UNCHANGED run
  BY DEF MigrationStep, KillMigration, Look, Read, KeepOriginal, BeginCopy, CopyOriginal, Upgrade,
     ArchiveCurrent, MigrateArchive, Inspect, Compact, MigOther, Kept
<1>1. CASE Upgrade(m)
  <2>1. mig[m].in = "runs" => mig[m].of \in Legacy /\ mig[m].of \in Runs
    BY <1>1, RunRecordAssumption DEF Upgrade, ManInv, LegacyInv
  <2>2. UNCHANGED disk \/ \E new : mig[m].in = "runs" /\ disk' = [disk EXCEPT ![mig[m].of].result = new]
    BY <1>1 DEF Upgrade
  <2>3. \A r \in Runs \ Legacy : disk'[r] = disk[r]
    BY <1>t, <2>1, <2>2 DEF Disk
  <2> QED
    BY <1>n, <2>3, SuccQuiet
<1>2. CASE KeepOriginal(m) \/ BeginCopy(m) \/ CopyOriginal(m)
  <2>1. \A r \in Runs : disk'[r].kept = disk[r].kept /\ disk'[r].result = disk[r].result
    BY <1>t, <1>2 DEF KeepOriginal, BeginCopy, CopyOriginal, Keep, Disk
  <2> QED
    BY <1>n, <2>1, SuccQuiet
<1>3. ASSUME NEW q \in Runs, Read(m, q) PROVE SuccInv'
  <2>1. \E request : disk' = [disk EXCEPT ![q].request = request]
    BY <1>3 DEF Read
  <2>2. \A r \in Runs : disk'[r].kept = disk[r].kept /\ disk'[r].result = disk[r].result
    BY <1>t, <2>1 DEF Disk
  <2> QED
    BY <1>n, <2>2, SuccQuiet
<1>4. CASE UNCHANGED disk
  BY <1>n, <1>4, SuccQuiet
<1>5. ASSUME Look(m) \/ ArchiveCurrent(m) \/ MigrateArchive(m) \/ Inspect(m) \/ Compact(m) \/ KillMigration(m)
      PROVE  UNCHANGED disk
  BY <1>5 DEF Look, ArchiveCurrent, MigrateArchive, Inspect, Compact, KillMigration
<1> QED
  BY <1>1, <1>2, <1>3, <1>4, <1>5 DEF MigrationStep

LEMMA SuccNext == TypeOK /\ OfInv /\ ManInv /\ SuccInv /\ [Next]_vars => SuccInv'
<1> SUFFICES ASSUME TypeOK, OfInv, ManInv, SuccInv, [Next]_vars PROVE SuccInv'
  OBVIOUS
<1>t. run \in [Runs -> Run] /\ disk \in [Runs -> Disk]
  BY DEF TypeOK, Run, Disk
<1>1. ASSUME NEW r \in Runs, Kill(r) \/ Tamper(r) PROVE SuccInv'
  <2>1. \A q \in Runs : /\ run'[q].ok = run[q].ok /\ run'[q].made = run[q].made
                        /\ run'[q].todo = run[q].todo
                        /\ run'[q].at = run[q].at \/ run'[q].at = "over"
    <3>1. CASE Kill(r)
      BY <1>t, <3>1 DEF Kill, Goes, Run
    <3>2. CASE Tamper(r)
      BY <1>t, <3>2, Tampered
    <3> QED
      BY <1>1, <3>1, <3>2
  <2>2. \A q \in Runs : /\ disk'[q].kept = disk[q].kept /\ disk'[q].result = disk[q].result
    BY <1>t, <1>1, Tampered DEF Kill
  <2> QED
    BY <2>1, <2>2, SuccQuiet DEF Done
<1>2. CASE Edit \/ UNCHANGED vars
  BY <1>2, SuccQuiet DEF Edit, vars
<1>3. CASE Delete
  <2>1. \A r \in Runs : run[r].at \in {"idle", "over"}
    BY <1>3 DEF Delete, Going
  <2>2. \A r \in Runs : ~disk'[r].result.ok
    BY <1>3 DEF Delete, Bare, NoRecord, Record
  <2> QED
    BY <1>3, <2>1, <2>2 DEF Delete, Other, SuccInv
<1> QED
  BY <1>1, <1>2, <1>3, SuccRun, SuccMigration DEF Next

\* A result that says the run succeeded has in its directory what the run had to deliver
\* (runner.py:8367-8405).
THEOREM SuccessIsDelivered == Spec => []SuccessDelivered
<1>1. Init => OfInv
  BY DEF Init, OfInv, AtWork, NoMigration
<1>2. TypeOK /\ SuccInv => SuccessDelivered
  <2> SUFFICES ASSUME TypeOK, SuccInv, NEW r \in Runs \ Legacy, disk[r].result.ok, NEW d \in Declared
               PROVE  /\ disk[r].kept \cap d # {}
                      /\ \A a \in d : /\ run[r].made[a] # "bad"
                                      /\ run[r].made[a] = "good" => a \in disk[r].kept
    BY DEF SuccessDelivered
  <2>1. Delivered(r, d)
    BY DEF SuccInv
  <2>2. \A a \in d : run[r].made[a] \in {"missing", "good", "bad"}
    BY DEF TypeOK, Made, Artifacts
  <2> QED
    BY <2>1, <2>2 DEF Delivered, Met
<1> QED
  BY <1>1, <1>2, TypeInit, TypeNext, OfNext, ManInit, ManNext, SuccInit, SuccNext, PTL DEF Spec

------------------------------------------------------------------------
(* The archive, and the kept originals.                                    *)

\* Every copy of a run's record tells how that run ended, and there is none before it did.  One
\* that a migration has been over is current where it is, in the archive as in the run.
ArcInv ==
  /\ \A r \in Runs : disk[r].result # NoRecord =>
       run[r].at \in Done /\ disk[r].result.ok = run[r].ok
  /\ \A r \in Runs : archive[r] # NoRecord => run[r].at \in Done /\ archive[r].ok = run[r].ok
  /\ \A m \in Migrators : mig[m].at \in AtWork =>
       /\ run[mig[m].of].at \in Done
       /\ mig[m].value # NoRecord /\ mig[m].value.ok = run[mig[m].of].ok
  /\ \A m \in Migrators : mig[m].at = "archive" =>
       mig[m].value.format = "current" /\ disk[mig[m].of].result.format # "old"
  /\ \A m \in Migrators : \A r \in mig[m].done :
       /\ run[r].at \in Done
       /\ archive[r].format = "current" /\ disk[r].result.format # "old"

\* Two records of one outcome in one format are the same.
LEMMA RecordsEqual ==
  ASSUME NEW v \in Records, NEW w \in Records, v.format = "current", w.format = "current",
         v.ok = w.ok
  PROVE  v = w
BY DEF Records, NoRecord, Record, None

LEMMA RecordFormats ==
  ASSUME NEW v \in Records
  PROVE  /\ v # NoRecord => v.format \in {"old", "current"} /\ v.ok \in BOOLEAN
         /\ v.format \in {"old", "current"} => v # NoRecord
BY DEF Records, NoRecord, Record, None

LEMMA ArcInit == Init => ArcInv
<1> SUFFICES ASSUME Init PROVE ArcInv
  OBVIOUS
<1>1. \A r \in Runs : run[r].at = (IF r \in Legacy THEN "over" ELSE "idle")
  BY DEF Init, Idle
<1>2. \A r \in Legacy : run[r].ok = TRUE
  BY RunRecordAssumption DEF Init, Idle
<1>3. \A r \in Runs : disk[r].result = IF r \in Legacy THEN Record("old", TRUE) ELSE NoRecord
  BY DEF Init, Bare
<1>4. \A r \in Runs : archive[r] \in {NoRecord, Record("old", TRUE)} /\ (r \notin Legacy => archive[r] = NoRecord)
  BY DEF Init
<1>5. \A m \in Migrators : mig[m].at = "look" /\ mig[m].done = {}
  BY DEF Init, NoMigration
<1>6. Record("old", TRUE).ok = TRUE
  BY DEF Record
<1> QED
  BY <1>1, <1>2, <1>3, <1>4, <1>5, <1>6 DEF ArcInv, AtWork, Done

\* A step that writes no record, and takes no migration on to a record.
LEMMA ArcQuiet ==
  ASSUME TypeOK, OfInv, ArcInv, UNCHANGED archive,
         \A r \in Runs : disk'[r].result = disk[r].result \/ disk'[r].result = NoRecord,
         \A r \in Runs : run[r].at \in Done => run'[r].at \in Done /\ run'[r].ok = run[r].ok,
         \A m \in Migrators :
           /\ mig'[m].done \subseteq mig[m].done
           /\ mig'[m].at \in AtWork =>
                /\ mig[m].at \in AtWork /\ mig'[m].of = mig[m].of /\ mig'[m].value = mig[m].value
                /\ mig'[m].at = "archive" => mig[m].at = "archive"
  PROVE  ArcInv'
<1>1. NoRecord.format # "old"
  BY DEF NoRecord, Record, None
<1>2. \A m \in Migrators : mig[m].done \subseteq Runs /\ (mig[m].at \in AtWork => mig[m].of \in Runs)
  BY DEF TypeOK, OfInv
<1>3. \A r \in Runs : disk'[r].result # NoRecord => run'[r].at \in Done /\ disk'[r].result.ok = run'[r].ok
  BY DEF ArcInv
<1>4. \A r \in Runs : archive'[r] # NoRecord => run'[r].at \in Done /\ archive'[r].ok = run'[r].ok
  BY DEF ArcInv
<1>5. \A m \in Migrators : mig'[m].at \in AtWork =>
        /\ run'[mig'[m].of].at \in Done
        /\ mig'[m].value # NoRecord /\ mig'[m].value.ok = run'[mig'[m].of].ok
  BY <1>2 DEF ArcInv
<1>6. \A m \in Migrators : mig'[m].at = "archive" =>
        mig'[m].value.format = "current" /\ disk'[mig'[m].of].result.format # "old"
  BY <1>1, <1>2 DEF ArcInv, AtWork
<1>7. \A m \in Migrators : \A r \in mig'[m].done :
        /\ run'[r].at \in Done
        /\ archive'[r].format = "current" /\ disk'[r].result.format # "old"
  BY <1>1, <1>2 DEF ArcInv
<1> QED
  BY <1>3, <1>4, <1>5, <1>6, <1>7 DEF ArcInv

LEMMA ArcRun ==
  ASSUME TypeOK, OfInv, ArcInv, NEW r \in Runs, RunStep(r)
  PROVE  ArcInv'
<1>t. /\ run \in [Runs -> Run] /\ disk \in [Runs -> Disk] /\ archive \in [Runs -> Records]
      /\ \A m \in Migrators : mig[m].done \subseteq Runs /\ (mig[m].at \in AtWork => mig[m].of \in Runs)
  BY DEF TypeOK, Run, Disk, OfInv
<1>m. UNCHANGED mig
  BY DEF RunStep, Begin, Refuse, Copy, Hashed, MakeRoot, Register, Enter, MakeRun,
     Request, Launch, End, Collect, WriteResult, ArchiveResult, Other
<1>o. \A q \in Runs \ {r} : run'[q] = run[q]
  BY <1>t DEF RunStep, Begin, Fresh, Resume, Refuse, Copy, Hashed, MakeRoot, Register, Enter, MakeRun,
     Request, Launch, End, Collect, WriteResult, ArchiveResult, Goes
<1>1. CASE WriteResult(r)
  <2>1. run[r].at = "collected"
    BY <1>1 DEF WriteResult, At
  <2>2. CASE disk[r].dir
    <3>1. /\ run'[r].at = "written" /\ run'[r].ok = run[r].ok
          /\ disk'[r].result = Record("current", run[r].ok)
          /\ \A q \in Runs \ {r} : disk'[q] = disk[q]
          /\ UNCHANGED archive
      BY <1>t, <1>1, <2>2 DEF WriteResult, Goes, Run, Disk
    <3>2. Record("current", run[r].ok).ok = run[r].ok /\ Record("current", run[r].ok).format = "current"
      BY DEF Record
    <3>3. \A m \in Migrators : r \notin mig[m].done /\ (mig[m].at \in AtWork => mig[m].of # r)
      BY <2>1 DEF ArcInv, Done
    <3>4. \A q \in Runs : run[q].at \in Done => q # r
      BY <2>1 DEF Done
    <3> QED
      BY <1>t, <1>m, <1>o, <3>1, <3>2, <3>3, <3>4 DEF ArcInv, Done, AtWork
  <2>3. CASE ~disk[r].dir
    <3>1. UNCHANGED <<archive, disk>>
      BY <1>1, <2>3 DEF WriteResult
    <3> QED
      BY <1>m, <1>o, <2>1, <3>1, ArcQuiet DEF Done
  <2> QED
    BY <2>2, <2>3
<1>2. CASE ArchiveResult(r)
  <2>1. /\ run[r].at = "written" /\ run'[r].at = "over" /\ run'[r].ok = run[r].ok
        /\ archive'[r] = Record("current", run[r].ok)
        /\ \A q \in Runs \ {r} : archive'[q] = archive[q]
        /\ UNCHANGED disk
    BY <1>t, <1>2 DEF ArchiveResult, At, Goes, Run
  <2>2. Record("current", run[r].ok).ok = run[r].ok /\ Record("current", run[r].ok).format = "current"
    BY DEF Record
  <2>3. \A q \in Runs : run[q].at \in Done => run'[q].at \in Done /\ run'[q].ok = run[q].ok
    BY <1>o, <2>1 DEF Done
  <2>4. \A q \in Runs : archive[q].format = "current" => archive'[q].format = "current"
    BY <2>1, <2>2
  <2> QED
    BY <1>t, <1>m, <2>1, <2>2, <2>3, <2>4 DEF ArcInv, Done, AtWork
<1>3. CASE ~WriteResult(r) /\ ~ArchiveResult(r)
  <2>1. run[r].at \notin Done /\ UNCHANGED archive
    BY <1>3 DEF RunStep, Begin, Refuse, Copy, Hashed, MakeRoot, Register, Enter, MakeRun,
       Request, Launch, End, Collect, At, Done, Other
  <2>2. \A q \in Runs : disk'[q].result = disk[q].result
    <3>1. \/ UNCHANGED disk
          \/ \E v : disk' = [disk EXCEPT ![r].input = v] \/ disk' = [disk EXCEPT ![r].dir = v]
                    \/ disk' = [disk EXCEPT ![r].request = v] \/ disk' = [disk EXCEPT ![r].kept = v]
      <4>1. CASE Collect(r)
        BY <4>1 DEF Collect
      <4>2. CASE Copy(r)
        BY <4>2 DEF Copy
      <4>3. CASE ~Collect(r) /\ ~Copy(r)
        BY <1>3, <4>3 DEF RunStep, Begin, Refuse, Hashed, MakeRoot, Register, Enter, MakeRun,
           Request, Launch, End, Other
      <4> QED
        BY <4>1, <4>2, <4>3
    <3> QED
      BY <1>t, <3>1 DEF Disk
  <2> QED
    BY <1>m, <1>o, <2>1, <2>2, ArcQuiet
<1> QED
  BY <1>1, <1>2, <1>3

LEMMA ArcMigration ==
  ASSUME TypeOK, OfInv, OfInv', ArcInv, NEW m \in Migrators, MigrationStep(m) \/ KillMigration(m)
  PROVE  ArcInv'
<1>t. /\ run \in [Runs -> Run] /\ disk \in [Runs -> Disk] /\ archive \in [Runs -> Records]
      /\ mig \in [Migrators -> Mig]
      /\ \A n \in Migrators : mig[n].done \subseteq Runs /\ (mig[n].at \in AtWork => mig[n].of \in Runs)
  BY DEF TypeOK, Run, Disk, Mig, OfInv
<1>n. UNCHANGED run
  BY DEF MigrationStep, KillMigration, Look, Read, KeepOriginal, BeginCopy, CopyOriginal, Upgrade,
     ArchiveCurrent, MigrateArchive, Inspect, Compact, MigOther, Kept
<1>o. \A n \in Migrators \ {m} : mig'[n] = mig[n]
  BY <1>t DEF MigrationStep, KillMigration, Look, Read, KeepOriginal, BeginCopy, CopyOriginal, Upgrade,
     ArchiveCurrent, MigrateArchive, Inspect, Compact, Step
<1> DEFINE r == mig[m].of
<1>1. CASE Look(m) \/ MigrateArchive(m) \/ Inspect(m) \/ Compact(m) \/ KillMigration(m)
  <2>1. mig'[m].at \notin AtWork /\ mig'[m].done \subseteq mig[m].done
    BY <1>t, <1>1 DEF Look, MigrateArchive, Inspect, Compact, KillMigration, Step, NoMigration,
       AtWork, Mig
  <2>2. UNCHANGED <<disk, archive>>
    BY <1>1 DEF Look, MigrateArchive, Inspect, Compact, KillMigration
  <2> QED
    BY <1>n, <1>o, <2>1, <2>2, ArcQuiet
<1>2. CASE KeepOriginal(m) \/ BeginCopy(m) \/ CopyOriginal(m)
  <2>1. /\ mig[m].at \in AtWork /\ mig'[m].at # "archive"
        /\ mig'[m].of = mig[m].of /\ mig'[m].value = mig[m].value /\ mig'[m].done = mig[m].done
    BY <1>t, <1>2 DEF KeepOriginal, BeginCopy, CopyOriginal, Step, AtWork, Mig
  <2>4. UNCHANGED disk \/ \E what : \/ disk' = [disk EXCEPT ![r].original = what]
                                    \/ disk' = [disk EXCEPT ![r].archived = what]
    BY <1>2 DEF KeepOriginal, BeginCopy, CopyOriginal, Keep
  <2>2. \A q \in Runs : disk'[q].result = disk[q].result
    <3>1. PICK p \in Runs : p = r
      BY <1>t, <2>1
    <3>2. CASE UNCHANGED disk
      BY <3>2
    <3>3. ASSUME NEW what, disk' = [disk EXCEPT ![p].original = what]
          PROVE  \A q \in Runs : disk'[q].result = disk[q].result
      BY <1>t, <3>3 DEF Disk
    <3>4. ASSUME NEW what, disk' = [disk EXCEPT ![p].archived = what]
          PROVE  \A q \in Runs : disk'[q].result = disk[q].result
      BY <1>t, <3>4 DEF Disk
    <3> QED
      BY <2>4, <3>1, <3>2, <3>3, <3>4
  <2>3. UNCHANGED archive
    BY <1>2 DEF KeepOriginal, BeginCopy, CopyOriginal
  <2> QED
    BY <1>n, <1>o, <2>1, <2>2, <2>3, ArcQuiet
<1>3. ASSUME NEW q \in Runs, Read(m, q) PROVE ArcInv'
  <2>1. \A p \in Runs : disk'[p].result = disk[p].result
    BY <1>t, <1>3 DEF Read, Disk
  <2> DEFINE value == Stored(q, mig[m].in)
             skipped == \/ value = NoRecord
                        \/ mig[m].in = "archive" /\ disk[q].result # NoRecord
  <2>2. /\ mig'[m].of = q /\ mig'[m].value = value /\ mig'[m].done = mig[m].done
        /\ mig'[m].at = IF skipped THEN "read" ELSE IF value.format = "old" THEN "keep"
                        ELSE IF mig[m].in = "runs" THEN "archive" ELSE "read"
        /\ UNCHANGED archive
    BY <1>t, <1>3 DEF Read, Mig
  <2>3. value \in Records
    BY <1>t DEF Stored, Disk
  <2>4. value # NoRecord => run[q].at \in Done /\ value.ok = run[q].ok
    BY DEF Stored, ArcInv
  <2>5. mig'[m].at = "archive" => value.format = "current" /\ disk[q].result.format # "old"
    <3>1. mig[m].in = "runs" => value = disk[q].result
      BY DEF Stored
    <3> QED
      BY <2>2, <2>3, <3>1, RecordFormats
  <2>6. mig'[m].at \in AtWork => value # NoRecord
    BY <2>2 DEF AtWork
  <2> HIDE DEF value, skipped
  <2> QED
    BY <1>t, <1>n, <1>o, <2>1, <2>2, <2>4, <2>5, <2>6 DEF ArcInv, AtWork
<1>4. CASE Upgrade(m)
  <2> DEFINE new == [mig[m].value EXCEPT !.format = "current"]
  <2>1. mig[m].at = "upgrade" /\ mig[m].at \in AtWork
    BY <1>4 DEF Upgrade, AtWork
  <2>2. /\ r \in Runs /\ run[r].at \in Done
        /\ mig[m].value # NoRecord /\ mig[m].value.ok = run[r].ok /\ mig[m].value \in Records
    BY <1>t, <2>1 DEF ArcInv, Mig
  <2>3. new \in Records /\ new.format = "current" /\ new.ok = run[r].ok
    BY <2>2, RecordUpgraded, RecordFormats DEF Records, NoRecord, Record
  <2>4. new # NoRecord
    BY <2>3, RecordFormats
  <2>5. \A n \in Migrators : mig'[n].of = mig[n].of /\ mig'[n].done = mig[n].done
    BY <1>t, <1>4 DEF Upgrade, Step, Mig
  <2>6. CASE mig[m].in = "runs" /\ disk[r].dir
    <3>1. /\ mig'[m].at = "archive" /\ mig'[m].value = new
          /\ \A q \in Runs : disk'[q].result = IF q = r THEN new ELSE disk[q].result
          /\ UNCHANGED archive
      BY <1>t, <1>4, <2>2, <2>6 DEF Upgrade, Mig, Disk
    <3> HIDE DEF new
    <3>2. \A q \in Runs : disk[q].result.format # "old" => disk'[q].result.format # "old"
      BY <2>3, <3>1
    <3> QED
      BY SMTT(30), <1>t, <1>n, <1>o, <2>2, <2>3, <2>4, <2>5, <3>1, <3>2 DEF ArcInv, AtWork
  <2>7. CASE mig[m].in = "runs" /\ ~disk[r].dir
    <3>1. mig'[m].at = "over" /\ UNCHANGED <<disk, archive>>
      BY <1>t, <1>4, <2>7 DEF Upgrade, Step, Mig
    <3> QED
      BY <1>n, <1>o, <2>5, <3>1, ArcQuiet DEF AtWork
  <2>8. CASE mig[m].in # "runs"
    <3>1. /\ mig'[m].at = "read" /\ UNCHANGED disk
          /\ \A q \in Runs : archive'[q] = IF q = r THEN new ELSE archive[q]
      BY <1>t, <1>4, <2>8 DEF Upgrade, Step, Mig
    <3> HIDE DEF new
    <3>2. \A q \in Runs : archive[q].format = "current" => archive'[q].format = "current"
      BY <2>3, <3>1
    <3> QED
      BY <1>t, <1>n, <1>o, <2>2, <2>3, <2>5, <3>1, <3>2 DEF ArcInv, AtWork
  <2> QED
    BY <2>6, <2>7, <2>8
<1>5. CASE ArchiveCurrent(m)
  <2>1. mig[m].at = "archive" /\ mig[m].at \in AtWork
    BY <1>5 DEF ArchiveCurrent, AtWork
  <2>2. /\ r \in Runs /\ run[r].at \in Done
        /\ mig[m].value # NoRecord /\ mig[m].value.ok = run[r].ok
        /\ mig[m].value.format = "current" /\ disk[r].result.format # "old"
    BY <1>t, <2>1 DEF ArcInv
  <2>3. /\ mig'[m].at = "read" /\ mig'[m].done = mig[m].done \cup {r}
        /\ \A q \in Runs : archive'[q] = IF q = r THEN mig[m].value ELSE archive[q]
        /\ UNCHANGED disk
    BY <1>t, <1>5, <2>2 DEF ArchiveCurrent, Behind, Mig
  <2>4. \A q \in Runs : archive[q].format = "current" => archive'[q].format = "current"
    BY <2>2, <2>3
  <2> QED
    BY <1>t, <1>n, <1>o, <2>2, <2>3, <2>4 DEF ArcInv, AtWork
<1> QED
  BY <1>1, <1>2, <1>3, <1>4, <1>5 DEF MigrationStep

LEMMA ArcNext == TypeOK /\ OfInv /\ OfInv' /\ ArcInv /\ [Next]_vars => ArcInv'
<1> SUFFICES ASSUME TypeOK, OfInv, OfInv', ArcInv, [Next]_vars PROVE ArcInv'
  OBVIOUS
<1>t. run \in [Runs -> Run] /\ disk \in [Runs -> Disk]
  BY DEF TypeOK, Run, Disk
<1>1. ASSUME NEW r \in Runs, Kill(r) \/ Tamper(r) PROVE ArcInv'
  <2>1. \A q \in Runs : run'[q].ok = run[q].ok /\ (run'[q].at = run[q].at \/ run'[q].at = "over")
    <3>1. CASE Kill(r)
      BY <1>t, <3>1 DEF Kill, Goes, Run
    <3>2. CASE Tamper(r)
      BY <1>t, <3>2, Tampered
    <3> QED
      BY <1>1, <3>1, <3>2
  <2>2. \A q \in Runs : disk'[q].result = disk[q].result
    BY <1>t, <1>1, Tampered DEF Kill
  <2>3. UNCHANGED <<mig, archive>>
    BY <1>1 DEF Kill, Tamper, Other
  <2> QED
    BY <2>1, <2>2, <2>3, ArcQuiet DEF Done
<1>2. CASE Edit \/ UNCHANGED vars
  BY <1>2, ArcQuiet DEF Edit, vars
<1>3. CASE Delete
  <2>1. \A q \in Runs : disk'[q].result = NoRecord
    BY <1>3 DEF Delete, Bare
  <2> QED
    BY <1>3, <2>1, ArcQuiet DEF Delete, Other
<1> QED
  BY <1>1, <1>2, <1>3, ArcRun, ArcMigration DEF Next

\* A run's result and its copy in the archive are the same once a migration has been over it,
\* whoever was killed between the two before, and with any number of migrations at once
\* (migration.py:47-60, 122-133, runner.py:362-376).
THEOREM ArchiveIsUpToDate == Spec => []ArchiveAgrees
<1>1. Init => OfInv
  BY DEF Init, OfInv, AtWork, NoMigration
<1>2. TypeOK /\ ArcInv => ArchiveAgrees
  <2> SUFFICES ASSUME TypeOK, ArcInv, NEW m \in Migrators, NEW r \in Runs, r \in mig[m].done,
                      disk[r].result # NoRecord
               PROVE  archive[r] = disk[r].result
    BY DEF ArchiveAgrees
  <2>1. archive[r] \in Records /\ disk[r].result \in Records
    BY DEF TypeOK
  <2>2. archive[r].format = "current" /\ disk[r].result.format = "current"
    BY <2>1, RecordFormats DEF ArcInv
  <2>3. archive[r].ok = disk[r].result.ok
    BY <2>1, <2>2, RecordFormats DEF ArcInv
  <2> QED
    BY <2>1, <2>2, <2>3, RecordsEqual
<1> QED
  BY <1>1, <1>2, TypeInit, TypeNext, OfNext, ArcInit, ArcNext, PTL DEF Spec

\* Migration m is at this place with the result of run r, and not with its copy in the archive.
With(m, place, r) == mig[m].at = place /\ mig[m].in = "runs" /\ mig[m].of = r

\* Unless two migrations were about it, the record is in place or its original is whole; one
\* migration at a time copies an original, and only one that is whole lets the record be upgraded.
OrigOf(r) ==
  /\ \/ disk[r].original = "whole"
     \/ disk[r].result.format = "old" /\ disk[r].original \in {None, "part"}
  /\ \A m \in Migrators : With(m, "copying", r) => disk[r].original = "part"
  /\ \A m \in Migrators : With(m, "upgrade", r) => disk[r].original = "whole"
  /\ \A m, n \in Migrators : With(m, "copying", r) /\ With(n, "copying", r) => m = n
OrigInv == \A r \in Legacy \ torn : disk[r].dir => OrigOf(r)

LEMMA OrigInit == Init => OrigInv
<1> SUFFICES ASSUME Init PROVE OrigInv
  OBVIOUS
<1>1. \A r \in Legacy : disk[r].result.format = "old" /\ disk[r].original = None
  BY RunRecordAssumption DEF Init, Bare, Record
<1>2. \A m \in Migrators : mig[m].at = "look"
  BY DEF Init, NoMigration
<1> QED
  BY <1>1, <1>2 DEF OrigInv, OrigOf, With

\* A step that leaves a run of an older version, its original and the migrations of it alone, or
\* deletes it.
LEMMA OrigQuiet ==
  ASSUME OrigInv, torn \subseteq torn',
         \A r \in Legacy \ torn' : disk'[r].dir =>
           /\ disk[r].dir
           /\ disk'[r].result = disk[r].result /\ disk'[r].original = disk[r].original
           /\ \A m \in Migrators : /\ With(m, "copying", r)' => With(m, "copying", r)
                                   /\ With(m, "upgrade", r)' => With(m, "upgrade", r)
  PROVE  OrigInv'
<1> SUFFICES ASSUME NEW r \in Legacy \ torn', disk'[r].dir PROVE OrigOf(r)'
  BY DEF OrigInv
<1>1. OrigOf(r)
  BY DEF OrigInv
<1> QED
  BY <1>1 DEF OrigOf

LEMMA OrigMigration ==
  ASSUME TypeOK, OfInv, ManInv, OrigInv, NEW m \in Migrators, MigrationStep(m) \/ KillMigration(m)
  PROVE  OrigInv'
<1>t. disk \in [Runs -> Disk] /\ mig \in [Migrators -> Mig] /\ Legacy \subseteq Runs
  BY RunRecordAssumption DEF TypeOK, Disk, Mig
<1>o. \A n \in Migrators \ {m} : mig'[n] = mig[n]
  BY <1>t DEF MigrationStep, KillMigration, Look, Read, KeepOriginal, BeginCopy, CopyOriginal, Upgrade,
     ArchiveCurrent, MigrateArchive, Inspect, Compact, Step
<1>g. torn \subseteq torn'
  BY DEF MigrationStep, KillMigration, Look, Read, KeepOriginal, BeginCopy, CopyOriginal, Upgrade,
     ArchiveCurrent, MigrateArchive, Inspect, Compact, Kept, Tear
<1>1. CASE \/ Look(m) \/ (\E q \in Runs : Read(m, q)) \/ ArchiveCurrent(m) \/ MigrateArchive(m)
           \/ Inspect(m) \/ Compact(m) \/ KillMigration(m)
  <2>1. mig'[m].at \notin {"copying", "upgrade"}
    <3>1. ASSUME NEW q \in Runs, Read(m, q) PROVE mig'[m].at \in {"read", "keep", "archive"}
      <4>1. PICK place \in {"read", "keep", "archive"} : \E v :
              mig' = [mig EXCEPT ![m].todo = @ \ {q}, ![m].of = q, ![m].value = v, ![m].at = place]
        BY <3>1 DEF Read
      <4> QED
        BY <1>t, <4>1 DEF Mig
    <3>2. CASE KillMigration(m)
      BY <1>t, <3>2 DEF KillMigration, NoMigration, Mig
    <3>3. CASE Look(m) \/ ArchiveCurrent(m) \/ MigrateArchive(m) \/ Inspect(m) \/ Compact(m)
      BY <1>t, <3>3 DEF Look, ArchiveCurrent, MigrateArchive, Inspect, Compact, Step, Mig
    <3> QED
      BY <1>1, <3>1, <3>2, <3>3
  <2>2. \A r \in Runs : /\ disk'[r].dir = disk[r].dir /\ disk'[r].result = disk[r].result
                        /\ disk'[r].original = disk[r].original
    <3>1. CASE UNCHANGED disk
      BY <3>1
    <3>2. ASSUME NEW q \in Runs, Read(m, q)
          PROVE  \A r \in Runs : /\ disk'[r].dir = disk[r].dir /\ disk'[r].result = disk[r].result
                                 /\ disk'[r].original = disk[r].original
      <4>1. PICK v : disk' = [disk EXCEPT ![q].request = v]
        BY <3>2 DEF Read
      <4> QED
        BY <1>t, <4>1 DEF Disk
    <3> QED
      BY <1>1, <3>1, <3>2 DEF Look, ArchiveCurrent, MigrateArchive, Inspect, Compact, KillMigration
  <2>3. \A r \in Legacy, n \in Migrators : /\ With(n, "copying", r)' => With(n, "copying", r)
                                           /\ With(n, "upgrade", r)' => With(n, "upgrade", r)
    BY <1>o, <2>1 DEF With
  <2> QED
    BY <1>t, <1>g, <2>2, <2>3, OrigQuiet
<1>2. CASE mig[m].in # "runs" /\ (KeepOriginal(m) \/ BeginCopy(m) \/ CopyOriginal(m) \/ Upgrade(m))
  <2>1. mig'[m].in = mig[m].in
    BY <1>t, <1>2 DEF KeepOriginal, BeginCopy, CopyOriginal, Upgrade, Step, Mig
  <2>2. PICK p \in Runs : mig[m].of = p
    BY <1>2 DEF KeepOriginal, BeginCopy, CopyOriginal, Upgrade, OfInv, AtWork
  <2>3. UNCHANGED disk \/ \E v : disk' = [disk EXCEPT ![p].archived = v]
    BY <1>2, <2>2 DEF KeepOriginal, BeginCopy, CopyOriginal, Upgrade, Keep
  <2>4. \A r \in Runs : /\ disk'[r].dir = disk[r].dir /\ disk'[r].result = disk[r].result
                        /\ disk'[r].original = disk[r].original
    <3>1. CASE UNCHANGED disk
      BY <3>1
    <3>2. ASSUME NEW v, disk' = [disk EXCEPT ![p].archived = v]
          PROVE  \A r \in Runs : /\ disk'[r].dir = disk[r].dir /\ disk'[r].result = disk[r].result
                                 /\ disk'[r].original = disk[r].original
      BY <1>t, <3>2 DEF Disk
    <3> QED
      BY <2>3, <3>1, <3>2
  <2>5. \A r \in Legacy, n \in Migrators : /\ With(n, "copying", r)' => With(n, "copying", r)
                                           /\ With(n, "upgrade", r)' => With(n, "upgrade", r)
    BY <1>o, <1>2, <2>1 DEF With
  <2> QED
    BY <1>t, <1>g, <2>4, <2>5, OrigQuiet
<1>3. CASE mig[m].in = "runs" /\ (KeepOriginal(m) \/ BeginCopy(m) \/ CopyOriginal(m) \/ Upgrade(m))
  <2>1. PICK p \in Legacy : mig[m].of = p
    BY <1>3 DEF KeepOriginal, BeginCopy, CopyOriginal, Upgrade, ManInv, LegacyInv
  <2>2. p \in Runs /\ mig'[m].of = p /\ mig'[m].in = "runs"
    BY <1>t, <1>3, <2>1 DEF KeepOriginal, BeginCopy, CopyOriginal, Upgrade, Step, Mig
  <2>3. ASSUME NEW r \in Legacy \ torn', disk'[r].dir, r # p PROVE OrigOf(r)'
    <3>1. disk'[r] = disk[r]
      BY <1>t, <1>3, <2>1, <2>2, <2>3 DEF KeepOriginal, BeginCopy, CopyOriginal, Upgrade, Keep
    <3>2. \A n \in Migrators, place \in {"copying", "upgrade"} : With(n, place, r)' => With(n, place, r)
      BY <1>o, <2>2, <2>3 DEF With
    <3>3. OrigOf(r)
      BY <1>g, <2>3, <3>1 DEF OrigInv
    <3> QED
      BY <3>1, <3>2, <3>3 DEF OrigOf
  <2> DEFINE Others == \A n \in Migrators \ {m}, place \in {"copying", "upgrade"} :
                         With(n, place, p)' => With(n, place, p)
  <2>4. Others
    BY <1>o DEF With
  <2>5. ASSUME p \notin torn', disk'[p].dir, KeepOriginal(m) PROVE OrigOf(p)'
    <3>1. /\ UNCHANGED disk /\ mig'[m].at = IF disk[p].original = None THEN "copy" ELSE "upgrade"
          /\ disk[p].original # "part"
      BY <1>t, <1>3, <2>1, <2>5 DEF KeepOriginal, Original, Tear, Step, Mig
    <3>2. OrigOf(p)
      BY <1>g, <2>5, <3>1 DEF OrigInv
    <3> QED
      BY <2>2, <2>4, <3>1, <3>2 DEF OrigOf, With
  <2>6. ASSUME p \notin torn', disk'[p].dir, BeginCopy(m) PROVE OrigOf(p)'
    <3>1. CASE disk[p].dir
      <4>1. /\ disk[p].original = None
            /\ disk' = [disk EXCEPT ![p].original = "part"] /\ mig'[m].at = "copying"
        BY <1>t, <1>3, <2>1, <2>6, <3>1 DEF BeginCopy, Original, Keep, Tear, Step, Mig
      <4>2. disk'[p].original = "part" /\ disk'[p].result = disk[p].result
        BY <1>t, <2>2, <4>1 DEF Disk
      <4>3. OrigOf(p)
        BY <1>g, <2>6, <3>1 DEF OrigInv
      <4>4. \A n \in Migrators \ {m} : ~With(n, "copying", p)' /\ ~With(n, "upgrade", p)'
        BY <2>4, <4>1, <4>3 DEF OrigOf, None
      <4>5. ~With(m, "upgrade", p)'
        BY <4>1 DEF With
      <4> QED
        BY <4>1, <4>2, <4>3, <4>4, <4>5 DEF OrigOf, None
    <3>2. CASE ~disk[p].dir
      BY <1>3, <2>1, <2>6, <3>2 DEF BeginCopy
    <3> QED
      BY <3>1, <3>2
  <2>7. ASSUME p \notin torn', disk'[p].dir, CopyOriginal(m) PROVE OrigOf(p)'
    <3>1. CASE disk[p].dir
      <4>1. OrigOf(p) /\ With(m, "copying", p)
        BY <1>3, <1>g, <2>1, <2>7, <3>1 DEF OrigInv, CopyOriginal, With
      <4>2. disk[p].original = "part" /\ disk[p].result.format = "old"
        BY <4>1 DEF OrigOf
      <4>3. disk' = [disk EXCEPT ![p].original = "whole"] /\ mig'[m].at = "upgrade"
        BY <1>t, <1>3, <2>1, <2>7, <3>1, <4>2 DEF CopyOriginal, Copied, Stored, Keep, Step, Mig
      <4>4. disk'[p].original = "whole"
        BY <1>t, <2>2, <4>3 DEF Disk
      <4>5. \A n \in Migrators \ {m} : ~With(n, "copying", p)'
        BY <2>4, <4>1 DEF OrigOf
      <4>6. ~With(m, "copying", p)'
        BY <4>3 DEF With
      <4> QED
        BY <4>4, <4>5, <4>6 DEF OrigOf
    <3>2. CASE ~disk[p].dir
      BY <1>3, <2>1, <2>7, <3>2 DEF CopyOriginal
    <3> QED
      BY <3>1, <3>2
  <2>8. ASSUME p \notin torn', disk'[p].dir, Upgrade(m) PROVE OrigOf(p)'
    <3>1. CASE disk[p].dir
      <4>1. OrigOf(p) /\ With(m, "upgrade", p)
        BY <1>3, <1>g, <2>1, <2>8, <3>1 DEF OrigInv, Upgrade, With
      <4>2. disk[p].original = "whole"
        BY <4>1 DEF OrigOf
      <4>3. PICK new : disk' = [disk EXCEPT ![p].result = new]
        BY <1>3, <2>1, <2>8, <3>1 DEF Upgrade
      <4>4. disk'[p].original = "whole"
        BY <1>t, <2>2, <4>2, <4>3 DEF Disk
      <4>5. \A n \in Migrators \ {m} : ~With(n, "copying", p)'
        BY <2>4, <4>1, <4>2 DEF OrigOf
      <4>6. ~With(m, "copying", p)'
        BY <1>t, <1>3, <2>8 DEF Upgrade, Step, With, Mig
      <4> QED
        BY <4>4, <4>5, <4>6 DEF OrigOf
    <3>2. CASE ~disk[p].dir
      BY <1>3, <2>1, <2>8, <3>2 DEF Upgrade
    <3> QED
      BY <3>1, <3>2
  <2> QED
    BY <1>3, <2>3, <2>5, <2>6, <2>7, <2>8 DEF OrigInv
<1> QED
  BY <1>1, <1>2, <1>3 DEF MigrationStep

LEMMA OrigNext == TypeOK /\ OfInv /\ ManInv /\ OrigInv /\ [Next]_vars => OrigInv'
<1> SUFFICES ASSUME TypeOK, OfInv, ManInv, OrigInv, [Next]_vars PROVE OrigInv'
  OBVIOUS
<1>t. run \in [Runs -> Run] /\ disk \in [Runs -> Disk] /\ Legacy \subseteq Runs
  BY RunRecordAssumption DEF TypeOK, Run, Disk
<1>1. ASSUME UNCHANGED <<mig, torn>>,
             \A r \in Legacy : disk'[r].dir => /\ disk[r].dir
                /\ disk'[r].result = disk[r].result /\ disk'[r].original = disk[r].original
      PROVE  OrigInv'
  <2>1. \A r \in Legacy, m \in Migrators : /\ With(m, "copying", r)' => With(m, "copying", r)
                                           /\ With(m, "upgrade", r)' => With(m, "upgrade", r)
    BY <1>1 DEF With
  <2> QED
    BY <1>1, <2>1, OrigQuiet
<1>2. ASSUME NEW r \in Runs, RunStep(r) PROVE OrigInv'
  <2>1. UNCHANGED <<mig, torn>> /\ run[r].at # "over"
    BY <1>2 DEF RunStep, Begin, Refuse, Copy, Hashed, MakeRoot, Register, Enter, MakeRun,
       Request, Launch, End, Collect, WriteResult, ArchiveResult, At, Other
  <2>2. r \notin Legacy
    BY <2>1 DEF ManInv, LegacyInv
  <2>3. \A q \in Runs \ {r} : disk'[q] = disk[q]
    BY <1>t, <1>2 DEF RunStep, Begin, Refuse, Copy, Hashed, MakeRoot, Register, Enter, MakeRun,
       Request, Launch, End, Collect, WriteResult, ArchiveResult, Other
  <2> QED
    BY <1>t, <1>1, <2>1, <2>2, <2>3
<1>3. ASSUME NEW r \in Runs, Kill(r) \/ Tamper(r) PROVE OrigInv'
  <2>1. UNCHANGED <<mig, torn>>
    BY <1>3 DEF Kill, Tamper, Other
  <2>2. \A q \in Runs : /\ disk'[q].dir = disk[q].dir /\ disk'[q].result = disk[q].result
                        /\ disk'[q].original = disk[q].original
    BY <1>t, <1>3, Tampered DEF Kill
  <2> QED
    BY <1>t, <1>1, <2>1, <2>2
<1>4. CASE Edit \/ UNCHANGED vars
  BY <1>1, <1>4 DEF Edit, vars
<1>5. CASE Delete
  <2>1. \A r \in Runs : ~disk'[r].dir
    BY <1>5 DEF Delete, Bare
  <2> QED
    BY <1>t, <1>1, <1>5, <2>1 DEF Delete, Other
<1> QED
  BY <1>2, <1>3, <1>4, <1>5, OrigMigration DEF Next

\* A record of an older version is in place or its original is kept, whole, through any number of
\* migrations and kills, unless a migration came upon an original that another, or a killed one,
\* had begun to copy (migration.py:108-119).
THEOREM OriginalsAreKept == Spec => []OriginalsKept
<1>1. Init => OfInv
  BY DEF Init, OfInv, AtWork, NoMigration
<1>2. OrigInv => OriginalsKept
  BY DEF OrigInv, OrigOf, OriginalsKept
<1> QED
  BY <1>1, <1>2, TypeInit, TypeNext, OfNext, ManInit, ManNext, OrigInit, OrigNext, PTL DEF Spec
=============================================================================
