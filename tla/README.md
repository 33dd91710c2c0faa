# TLA+ models of AOP (agent-orchestration-process)

AOP runs coding agents ("harnesses": Codex, Claude, ZCode, Grok, Cursor, Devin, Muse, OpenCode, Agy,
Hermes, DSH) in Git worktrees, one worktree per named task, and integrates their commits into the main
worktree. It is a command-line program: every `aop` process reads and writes files below `.aop/`, calls
Git and starts harness processes. There is no server. Processes meet only through `flock` locks, files
and Git, so nearly everything that is hard about it is what two processes, a person at the keyboard and a
kill can do between two of its steps. That is what the modules here describe. Paths below are relative to
`src/src/agent_orchestration_process/`.

## 1. Inventory

| Component | State | Operations | Interacts with | Hard behaviour | What makes it correct | Module |
|---|---|---|---|---|---|---|
| Worktrees and locks (`worktrees.py`, `locks.py`) | worktrees registered with Git, `.aop/tasks/<t>.json`, private directories, `worktrees.lock`, `locks/task-<t>.lock` | create, list, get, remove, remove_private_state, update_base, run (exec) | every command | kills between the steps of create and remove; reads before the lock; lock order | one command at a time per task; metadata is the worktree's own; a task is resumable until cleaned; cleanup leaves nothing | `TaskLifecycle` |
| Agent runner (`runner.py`, `AgentRunner`) | `runs/<id>/`, scratch and provider state of the task | run, resume, admission, policy, inputs, artifacts | worktrees, adapters, records | worktree obtained before the lock; AOP_TASK_LOCK_HELD | runs of one task do not overlap; a resume without the lock is inside its exec | `TaskLifecycle` (its life cycle) |
| Checkpoint and integration (`integration.py`) | task branch (detached HEAD), recorded base, a rebase in progress, main | checkpoint, integrate | runner (author turns), Git, people in the main worktree | conflicts and failing turns in mid-rebase, kills, main moving under the integration | no commit lost, branches only grow, only the task's commits land | `Integration` |
| Batch (`batch.py`) | active futures, outcomes, next task | run | a thread pool of runs | Ctrl-C between any two statements | the bound, a truthful report, an end with nothing running | `Batch` |
| Claude sign-in (`runner.py`, `_ClaudeLogin`) | the user's credentials, a private copy per task, the token both last held | start, sync, watching | Claude in runs and in the user's sessions | rotating tokens refreshed on either side while files are being copied; kills | the only valid token is never overwritten; the user stays signed in | `ClaudeLogin` |
| Run records (`RunStore`, `models.py`) | `request.json`, `result.json`, archive copy, list of state directories | create, load, write_result, archive_result, register and compact roots | runner, cleanup, migration | kills between two files; concurrent compaction | a recorded result is in the archive; a registered root stays registered | `RunRecord` |
| Inputs and artifacts (`runner.py`) | snapshot directories, digests, archived artifacts | plan, prepare, copy, archive | runner | inputs that change between copy and hash; one of several artifacts missing | the snapshot is what its digest says; a success delivered everything | `RunRecord` |
| Migration (`migration.py`) | run records, kept originals | migrate_runs, migrate_archive | records, registry | kill between the writes, two at once | repeatable; originals kept | `RunRecord` |
| Process capture (`_capture_process`, `sandbox_launch.py`) | a child process, two reader threads | popen, stop, close | every adapter | exit against timeout, output after exit, a grandchild holding a pipe | a stopped harness is gone; the verdict fits what happened | `HarnessTurn` |
| Adapters (`runner.py`): Claude, Grok, Cursor, Devin, Muse, OpenCode, Agy, Hermes, DSH | what their parse has seen | parse, verdict, resume checks | process capture | several terminal events, errors beside answers, sessions that are not the one asked for | success is real, an answer is not lost and not an old one | `HarnessTurn` |
| Devin retries, Cursor turn end (`runner.py`) | attempts and waits; ends in the transcript | execute, notice | process capture | deadline against waits; silence against work | they end, and do not stop work under way | `HarnessTurn` |
| Codex turn (`_run_app_server`) | requests and replies by id, terminal turn ids | initialize, login, thread, turn, interrupt | Codex, `codex_auth.py` | the completion of a turn against its deadline; ends before answers | a turn is reported complete only if it was; no prompt leaves its confinement | `CodexTurn` |
| Codex credentials (`codex_auth.py`) | the source's lock and rotated token | read, retire_task_copy | Codex turn | several controllers refreshing one token under a deadline | one refresh per expiry; never another account's | the refresh request, granted or refused, in `CodexTurn`; the rest left out |
| ZCode turn (`zcode.py`, `zcode_protocol.py`) | session, selection, events read and not looked at | open, subscribe, send, wait, verify | `runner.py` | repeated events of earlier turns; another client's change of effort | success is the prompt's own; the effort is on record | `ZcodeTurn` |
| Accounting (`runner.py`, `zcode.py`) | usage, cost and status per run | each adapter's parse, `_finalize_accounting` | records | totals of a session that several runs share | a run reports its own, once | `SessionAccounting` |
| Hermes credentials (`runner.py`) | the user's, the shared and the tasks' stores, a lock | reconcile, write back | Hermes | single-use refresh tokens; kills before the write back | the freshest rotation is used | `HermesCredentials` |
| Egress proxy (`egress.py`, `egress_bridge.py`) | allowlist, connections, log | serve, connect, shut down | sandboxed runs without web | connections alive at shutdown | only allowed endpoints | left out, see section 6 |
| Profiles (`isolation.py`), routes (`codex_routes.py`), models, prices, prompt transport | none | lookups, formatting | runner | none | — | left out: no state |
| Command line (`cli.py`) | none | main, cleanup, cleanup --all, migrate-results | all | guards of cleanup | cleanup of one run does not break another | in `TaskLifecycle` and `RunRecord` |

`PROJECT.json` lists the hazards with their lines.

## 2. Modules

### TaskLifecycle, and the abstract TaskOwnership

A process runs one of eleven commands; `pc[p]` is the point it has reached and `job[p]` what it has read.
What the code does between two lock or file operations is one action:

| Action | Code |
|---|---|
| MakeLock, MakeTree, MakeMeta, MakeFail | `WorktreeManager.create`, under `worktrees.lock` |
| RunBegin, InPlaceBegin, ResumeBegin, ExecBegin, CleanupBegin | what `run`, `run --workdir`, `resume`, `exec`, `cleanup` read *before* they take the task lock |
| NestedResumeBegin | a resume that inherits AOP_TASK_LOCK_HELD from `aop exec` |
| TaskLock, TaskBusy | `exclusive_lock`, non-blocking; `Entry` says where each command goes from there |
| RunPrepare, RunLaunch, RunEnd, RunFail | `_execute_unlocked`: directories, the harness, the result |
| ExecOverlay, ExecPlain, ExecEnd, ExecFail | `WorktreeManager.run` and `_overlays` |
| CheckpointBegin, IntegrateWork, WorkEnd, IntegrateRemove | `checkpoint`, `integrate`, and `--remove-worktree` after the locks are released |
| RemoveGet, RemoveLock, RemoveTree, RemoveMeta, RemovePriv, RemoveFail | `remove`, `remove_private_state` |
| Crash | SIGKILL or power loss: the kernel drops the locks, the files stay |

Worktrees are numbered by incarnation, which lets the properties tell a worktree from the one that came
after it under the same name, and a task's metadata is the number of the worktree whose base it records.
Git content is left to `Integration`. `TaskOwnership` is the promise: a task has one owner at a time, and
only its owner makes its worktree disappear.

### Integration, and the abstract Mainline

A commit is its history, a sequence of entries, so an ancestor is a prefix; a rebased commit is the same
entry on another history. `mains` holds the branches of the main worktree, `head` and `base` each task's
HEAD and recorded base, `todo` what a rebase in progress has yet to apply, `run` the integration under way
with what it has read. People commit, merge, revert and switch branches at any time; the author resolves
or fails; the integration may be killed between any two steps. Git commands are modelled by what they do:
a commit whose change is already in is dropped by the rebase, a commit may conflict only if main moved,
the archive ref of a removal holds HEAD. `Mainline` is the promise: a branch only grows, by a
person's commit or by commits of one task in their order.

A conflict that its author resolves to no change at all, whose commit Git would drop, is taken for the
author's version of the commit like any other resolution.

Assumptions: nobody runs Git by hand in a task's worktree (agents in the `edit` profile cannot write Git
metadata), a task's worktree starts at main's HEAD (`--base` is left at its default), and cleanup is the
forced one; a removal that is refused changes nothing here.

### ClaudeLogin

`source`, `private[t]`, `live`: the generation of the refresh token in the user's file, in a task's copy,
and the one the server accepts. Reading the two tokens (`got`), copying a file and noting the stamps
(`seen`) are separate actions, as in `sync` and `watch`. A copy takes the file as it is by then, while what
was read before is remembered (`shared`). A copy may fail: at the start there is then no run
(StartCopyFails), and a sync passes over it (CopyFails, `runner.py:6306-6315`): nothing is remembered, the
stamps are noted all the same, and no other copy is tried before a stamp changes or the run ends.

Refreshes by Claude, in the runs and in the user's sessions, are external, and so is the failure of one
with a revoked token, after which Claude empties the file. Refreshes are taken to be hours apart against a
poll of a tenth of a second (`Settled`: one finds each watched run's copy in step with the user's, or
nothing that AOP would look at before a stamp changes); without it any copying is too slow and nothing
holds. A file's stamp is taken to change exactly when its token does, and the watcher to end within the
five seconds `join` gives it.

### Batch

The main thread of `BatchRunner.run` statement by statement where Ctrl-C matters (`hand` is the task
between two containers), the pool's threads, and the exit. A run ends one way or another, since
`_execute_task` turns every exception into an outcome.

### HarnessTurn

One run of a harness that gets its prompt at the start and is read until it exits. `child` is the
harness, `pipe` and `reader` its output and the thread that reads it, `parsed` what the adapter's parse
knows after each line, `capture` what `_capture_process` returns, `pc` where `execute` is.

| Action | Code |
|---|---|
| Write, TurnEnded, Exit | external: the harness writes a line, notes the end of its turn, or of a follow-up turn, in its transcript, exits |
| Launch, Waited, Deadline, Stop, Kill | `_capture_process` and `sandbox_launch.stop` |
| ReadLine | the reader thread, which may die on a line (`Fatal`); `Parse` gathers the nine adapters' parsers |
| StopCheck | `_CursorTurnEnd`: two looks without a line between them, after an end it takes for this turn's (`EndedBefore`) |
| Joined | the threads are joined; `Seen`, `Mismatch`, `Rejects`, `Failed` and `StatusOf` are the adapters' verdicts |
| LimitWait, Retry | Devin's waits for a usage limit, unless no session is found to go on with, and its next attempt |

A line is what it says of the turn (`Lines`), not its text; a "bare" one is JSON but no event. `store` is
what AOP finds of the session: `before` the turn, Hermes' export or Cursor's transcript, which may not be
there; and `after` it, Hermes' export, which may fail, or tell its last message by an id or by its text
only (`HermesFinal`). Cursor's clock is the lines that came between two looks. The reader is taken to have
read what was written when it is joined (the code gives it five seconds). Ctrl-C in a turn is left out.

### CodexTurn

A turn over Codex's app-server. `server` is what the server was sent, answered and did; `lines` the queue
between the reader thread and `_run_app_server`; `log` what `_parse_events` will make of the whole output,
which is not what the turn has seen of it; `known` the responses and identities learnt; `pc` the wait at
hand. Answer, Begin, Notify, Repeat (events of earlier turns), Ask and Exit are the server's, in any order
the protocol allows; an answer may be "hollow", without the identity it should give. Receive takes a line
(`Heard`, `Refresh`), GoOn sends the next request once the answer is there (Initialized, LoggedIn,
ThreadOpened, TurnAccepted, TurnOver). The prompt may not fit in the pipe: then the turn is "sending"
until the server has read it (TakePrompt) or is gone (PipeBroken), whatever its deadline
(`runner.py:789-794`). The other requests are small and fit. GiveUp is every other way out of a wait,
InterruptOver, Close, Grace, Stop and Kill the end of the server, and Finish the result. `codex_auth.py`
appears as the grant or refusal of a token. Events are taken to name their turn, as Codex's do: the code
compares identities of which both are missing as equal (`runner.py:1080`, `1100`, `1110`), which only a
server that names neither could make use of.

### ZcodeTurn

A turn over ZCode's protocol: `zcode_protocol.run` (Launch, Receive, Look, Deadline, EndOfOutput, Stop)
and the second reading of the stream by `zcode.parse_stream` (`Parsed`, in `log`). The server replies,
starts and ends the turn, repeats what the session remembers of an earlier one, asks for approvals, and
may have its reasoning level changed by someone else (Reselect). A session may tell no level, or have a
model, levels to choose from or a permission mode other than those selected ("unfit", `Verified`). What a
chunk of output holds is parsed line by line, where the code parses all of a chunk before it looks at any
(`zcode_protocol.py:108-147`), so that events right behind the subscription's answer may be cleared with
those before it; the prompt is not sent by then. The snapshot's projection is taken to be that of an idle
session, nobody else starts a turn in the session, and the binary is there.

### SessionAccounting

The runs of one session, each a fresh one or the resume of any earlier one, and what they report. `spent`
is what the session has cost so far, `runs` the records, `now` the run that goes on. Start, Call, Tell,
Continue (Devin goes on after a usage limit with another prompt) and Kill are what happens; Finish makes a
record by the harness's own way of counting: Claude's and Hermes' totals less what came before, Devin's
steps after the run's prompt or, in an export that begins later, after its last continuation
(`DevinStart`), Muse's session log if it agrees with the output, the streams' and ZCode's own figures, all
through `_finalize_accounting`. What is read last may be missing (`Missing`), and so may Hermes' export from
before. Tokens and dollars are one unit, the model call.

### RunRecord

What a run leaves on disk. `run[r]` goes through the steps of `AgentRunner` and `RunStore` between which
a kill matters: Begin, Refuse (a sealed resume whose snapshot was changed), Copy, Hashed, MakeRoot,
Register, MakeRun, Request, Launch, End, Collect (one declaration at a time), WriteResult, ArchiveResult.
`mig[m]` is `aop migrate-results`: Look, Read, KeepOriginal and CopyOriginal (the original is copied in
place), Upgrade, ArchiveCurrent, MigrateArchive, and the compaction of the list of state directories,
Inspect and Compact. The user edits the input, deletes the project between runs, and changes the
snapshot of a run that is over at any time, also between a resume's comparison of it and the copy it
makes. A migration may be killed anywhere. A tree of files is one version; a record is
its format and whether the run succeeded.

### HermesCredentials

`user`, `common[d]` and `home[t]` are the stores of the user, of a state directory and of a task;
`accepted` the one token each provider accepts, named by the time it was obtained. A turn is BeginTurn,
Lock, Gather (`_merge_hermes_auth_stores` over `Candidates`), Hand, any Refresh, End and PutBack, and may
be killed anywhere. Cleanup removes the home of any task that has no turn. Refreshes and sign-ins by hand
are external. A token that is used after its successor was issued fails and leaves its store rewritten, as
Hermes does. `by`, `gathered` and `lost` tell of each accepted token who obtained it, whether before the
last turn of a directory gathered, and whether its only copy is where nothing looks.

### Proof modules

`TaskLifecycleProofs`, `RunRecordProofs`, `BatchProofs`, `IntegrationProofs`, `HarnessTurnProofs`,
`CodexTurnProofs`, `ZcodeTurnProofs` and `UserStateProofs`, see section 5. The last one is about three
modules at once, `SessionAccounting`, `ClaudeLogin` and `HermesCredentials`: what runs share of the user's
own. Names that more than one of them would have carry a prefix (`LoginSpec`, `HermesSpec`). `MC*` modules
hold only symmetry sets and the function from tasks to directories; the turn modules, `RunRecord` and
`SessionAccounting` need neither and are checked as they are.

## 3. Runs

Passing runs:

| Run | Instance | Shows |
|---|---|---|
| `task_lifecycle` | two fair processes, one task, all commands but the cleanup of a `--workdir` run, two worktrees made one after the other, one kill | LockedReadHolds, MetadataSound, Resumable; the refinement of TaskOwnership; CommandsEnd: no deadlock or starvation over the locks |
| `integration_safety` | one task with two commits, two commits of people, conflicts, one kill, fair integration | CommitsKept, OnlyFastForwards, OnlyStoppedRebaseLoses, IntegrationEnds |
| `integration_mainline` | two tasks with two commits each and a person's, no conflicts, no kills | RebasesOwnCommits, and the refinement of Mainline |
| `claude_login` | two runs and the user's sessions, three refreshes, a kill, a copy that fails | SomeoneIsSignedIn, UserIsSignedIn, WipedStaysPrivate |
| `batch` | four tasks, two threads, two presses of Ctrl-C | InFlight, WaitsForActive, BatchEnds |
| `harness_turn` | one run of each of nine harnesses, fresh and resumed, with and without a deadline and artifacts, its session found before and after or not; three lines, two waits for a limit | SuccessIsReal, AnswerIsNew, AnswerIsReported, SilenceIsNotTheEnd, NothingLeftRunning, TurnEnds |
| `codex_turn` | one turn, two notifications or requests of the server and one event of an earlier turn beside its answers | SuccessIsReal, AnswerIsReported, PromptIsConfined, UsageIsOwnTurn, TurnEnds |
| `zcode_turn` | one turn, three events beside the answers, two efforts or none | SuccessIsReal, EffortIsRecorded, TurnEnds |
| `session_accounting` | three runs of two calls each in a session of each of eight harnesses, each a fresh one or the resume of any, killed, timed out or not exported | CompleteIsOwn, CountedOnce |
| `run_record` | an old and a new run, two declarations one of which has alternatives, one edit, changes of snapshots, one kill of a run, one migration that may be killed anywhere, deletions | ManifestIsSnapshot, SuccessDelivered, ArchiveAgrees, RecordsAreRegistered, OriginalsKept |
| `hermes_credentials` | three tasks of two state directories, one of them out of the search's reach, two providers, two refreshes or failures, kills and cleanups | TokensAreLive, LiveTokenIsFound |

In one run TLC finds what a document says to be violated by what the code does (the quote is in
`PROJECT.json`, "findings"): `integration_lost_commit`. Cleanup after a failed conflict resolution
archives the commit the rebase had got to and loses the task's commits it had yet to apply.

### Other disagreements

The modules show these: either as an exception that a property names, or when the invariant or the
constant told with each is given to an instance. No run is kept for them.

- `CleanupComplete` (TaskLifecycle; `docs/cli.md:238`): `run` obtains its worktree (`runner.py:7121`), a
  cleanup removes it, `run` takes the lock and makes private state that nothing removes. It also fails
  with one process and one kill: `remove` deletes the private state last, and `aop cleanup` after a kill
  before that finds no worktree and does nothing.
- `Resumable` with `"cleanup_inplace"` among the commands (`cli.py:404`, `docs/unattended.md:97`): `aop
  cleanup` of a `--workdir` run takes the private state of a worktree with the same task name.
- `NestedInsideExec` with `Detached = TRUE`: a child that outlives `aop exec` keeps AOP_TASK_LOCK_HELD
  and resumes the task without the lock.
- `RebasesOwnCommits` with `MaxCrashes = 1` (`integration.py:228`, `docs/integration.md:24`): after a kill
  between the end of the rebase and `update_base`, the next integration takes main's commits for the
  task's.
- With two branches, a switch between the last check and `merge --ff-only` fast-forwards a branch the
  integration did not begin on, if the task's head descends from it. OnlyFastForwards still holds.
- With two kills, one between a worktree's removal and its metadata's and one between the next worktree's
  creation and its metadata's, the next worktree has the earlier one's base (MetadataSound is about one).
  After the first kill alone, an integration that begins while the next worktree is being made can already
  read that base: it takes no lock that `create` holds.
- `SignInSurvives` (ClaudeLogin; the comment at `runner.py:6315`, "A later check, or the next run, tries
  again", and `docs/harnesses.md:123`): when a run is killed, or its very last copy fails, with its refresh
  in its own copy only, the next run keeps the newer private sign-in at the start and overwrites it in its
  first sync. SomeoneIsSignedIn has the two cases as its exception, `stranded`.
- A third one (`Unnoted`): a copy takes the file as it is by then while what was read before is noted, and
  a copy that failed notes nothing. So AOP can compare with a token older than the one both sides hold,
  and take the run's next refresh for the user's: it copies the older token over it.
- A refresh between a sync's reading of the tokens and its noting of the stamps (`runner.py:6260`) is
  taken for seen, and waits for another change or the end of the run. UserIsSignedIn still holds.
- `NotStartedNeverRan` (Batch; `batch.py:177`, `190-191`, `226`): Ctrl-C between `submit` and tracking, or
  between `pop` and `collect`, reports a task that ran as not launched.
- A line of JSON that is no object ends the thread that reads Claude's output (`runner.py:1591-1601`), and
  an assistant event whose message is none that of Cursor's (`runner.py:2686`; it passes over a line that is
  no object): what follows is not read, and a turn that went well is reported as failed. AnswerIsReported of
  HarnessTurn is about what was read to its end.
- `AnswerIsNew` of HarnessTurn names its exceptions: without the export from before a resumed Hermes turn
  (`runner.py:3990`), or if Hermes went on in a session other than the one asked for, which nothing checks,
  the session's last answer passes for a new one; and a Cursor stopped for its silence in a resumed chat
  whose transcript was not found when the turn began gives the earlier turn's answer, though with an error.
- Hermes' good turn is reported as failed if the export after it fails or times out (`runner.py:4006`,
  `4143-4152`), or has no ids and the answer is word for word the one from before (`4203-4216`).
- `SilenceIsNotTheEnd`: the ends in a resumed chat's transcript are not counted when it was not found at the
  start (`runner.py:2455-2457`, `2516-2524`), and an earlier turn's end is then taken for this one's. Also,
  a Cursor that ended its turn and works silently at a follow-up turn for the whole grace is stopped.
- `CompleteIsOwn` and `CountedOnce` of SessionAccounting name theirs. `docs/token-usage.md:60` says that
  resuming a session "does not turn a new run's usage into a cumulative session total". A Hermes run
  without the export from before has all of the session's usage (`runner.py:3990`), a Claude run has the
  cost of what was spent between its parent's result and itself, by killed runs or by other resumes of the
  same run (`runner.py:1408-1414`), and a Devin run whose export begins at the continuation after a usage
  limit has only what followed it (`runner.py:2852-2854`); each calls its accounting "complete".
- `TurnEnds` of CodexTurn: `send` writes to the server's pipe without a deadline (`runner.py:789-794`), so
  that a prompt larger than the pipe and a server that stops reading hold the run past its deadline.
  `<>(pc = "done")` is refuted by it. For ZCode the repository guards against this very case
  (`zcode_protocol.py:46-47`) and tests that it does (`tests/test_zcode.py:544`).
- `EffortIsRecorded` of ZcodeTurn: a session may tell no level when it is opened and one at the end
  (`zcode_protocol.py:196-206`). The check against the recorded level is then skipped, and the run reports
  a level that `request.json` does not have.
- `ManifestIsSnapshot` of RunRecord: a sealed resume compares its parent's snapshot (`runner.py:7217-7221`)
  and copies it later (`7265`, `7453`). If it is changed in between, the run's digest is that of what it
  sees, as always, but not its parent's (`moved`).
- CodexTurn with `Asks = TRUE` (`runner.py:852-862`): a request of the server with the number of AOP's own
  `turn/start` is taken for its answer, and the turn is given up while the server is at work on it. It is
  then reported as failed, so that no property of the module is violated; as an invariant,
  `~(pc = "close" /\ server.turn = "running" /\ ~late /\ ~refused /\ known.got[3] = "ok")` is refuted.
- `docs/unattended.md:34` has usage null rather than zero when it was not measured; a Claude run that
  fails before its result has zero usage with the status "complete" (`Finalize`).
- `OriginalsKept` of RunRecord has as its exception (`torn`) a migration that finds an original which
  another one had begun to copy (`migration.py:115-117`, `docs/token-usage.md:110`). A kill in the copy
  leaves a part, which the next migration takes for the whole; and of two migrations at once, which both
  found no original, the second copies the record that the first has upgraded meanwhile.
- `RotationsAreRecovered` of HermesCredentials (the comment at `runner.py:6845`, "Recover a rotation even
  if AOP was interrupted before committing it"): the search does not reach the home of a no-web or sealed
  task, and `aop cleanup` removes any home (`worktrees.py:287-339`), so that after a kill the only copy of
  the accepted token may be left where nothing looks, or go. TokensAreLive and LiveTokenIsFound are about
  the others.
- Two state directories, or a directory and the user, refresh the same token: what one of them obtains the
  others do not see (`docs/harnesses.md:209-211`), and their next use of the old one fails. The two
  properties promise a directory what its own turns, or the user before the turn, obtained.

Some properties are stated and not among a run's: `TaskMutex` and `NestedInsideExec` are proved, and so
are `NothingLeftRunning` of CodexTurn and `BaseIsAncestor` of Integration; `ReportsRuns` and
`NothingLeftRunning` of Batch say less than their neighbours; `AnswerIsReported` of ZcodeTurn holds at the
instance of `zcode_turn`, and is left out of that run for its weak premise (nothing at all went amiss);
CleanupKeepsCommits is that of the violation run; the others are those above.

### Bounds

Two processes are enough for every lock property, each of which relates two; one kill makes every torn
state, and a property that fails after a second kill is stated with the number of kills it stands. Two
worktrees made let the second meet what a kill in the removal of the first has left. One task suffices
where tasks share only `worktrees.lock` and `integration.lock`, of which two processes on one task already
compete; two tasks in `integration_mainline` let one integration build on another. Two commits make an
order, and a person's two a commit and its revert. Three refreshes let each of three parties refresh once.
Two presses of Ctrl-C reach the second handler; Count > Jobs makes a task wait. In `Integration` two
branches are used only where the property is about them: with reverts on both, histories would grow beyond
what is gained.

Three lines are a start, a piece or an error, and an end, or two ends with something between them; two
waits bring Devin to its limit and past it. An own event and an own end beside one of an earlier turn, in
any order and either side of the answers, are what Codex's two-pass parse tells apart; ZCode's three
events are an earlier turn's end before, and the own turn's start and end after it. One failed copy and
one kill strand a sign-in either way, and three refreshes are one before it and two after. Two state
directories and two tasks of one of them have what a lock excludes, and what it does not. Three runs of a
session let two of them resume the first one, or each other. One old and one new run are a chain of a
resume and its parent, and the migration of one beside the making of the other.

Deadlock is checked in the runs but three: `session_accounting`, `run_record` and `hermes_credentials`
stop at their bounds or when every run is over. `Batch` and the turn modules have a stuttering step, Over,
once they are through.

## 4. Fairness

- `TaskLifecycle`: weak fairness of every process that has begun a command, since the system schedules
  processes and turns are bounded by timeouts. Strong fairness, per process, of the two waits on
  `worktrees.lock`, which are blocking `flock` calls that the kernel queues in order, and of `ExecEnd`,
  since the command given to `aop exec` starts finitely many resumes; a process is at one of the three at
  a time. Beginning a command is never fair.
- `Integration`: weak fairness of the integration's steps, as the author's turns end by their timeout and
  Git calls return. People are never fair.
- `Batch`: weak fairness of the main thread and of each pool thread; runs end by their timeout.
- `HarnessTurn`, `CodexTurn`, `ZcodeTurn`: weak fairness of AOP's own steps and of the clock. A harness
  or server is never fair, with one exception: one without a deadline is taken to exit at some time, since
  nothing in AOP would end it. TurnEnds is then about what AOP does with what it waits for: that each
  wait has a deadline, a grace period or a count of its own. The one that has none is Codex's write of a
  prompt that does not fit in the pipe: its TurnEnds is about the runs that do not stay in it.
- `ClaudeLogin`, `HermesCredentials`, `RunRecord`, `SessionAccounting`: safety only. A kill there may
  leave a thing undone for ever; what they say is what is never wrong meanwhile.

## 5. Proofs

Each theorem below is proved for every value of the constants, from the assumption on them that the
module declares and from what is named here. None of the properties is inductive as it stands; each proof
module begins with the invariant that is, in parts that say what one place relies on of another.

`TaskLifecycleProofs`:

- `TypeCorrect`, `MutualExclusion`, `LockedReads`, `ImplementsOwnership` (`Spec => OwnershipSpec`, each
  step being a step of `TaskOwnership` or a stutter) and `NestedResumes` (without detached children). That
  two processes do not meet in a section follows from each being the lock's holder, so
  `IInv == TypeOK /\ JobInv /\ TaskLockInv /\ WorktreeLockInv`: a process at work has a job that fits its
  point; one at a point of `TaskSection` holds its task's lock unless it is a nested resume, and a holder
  is at such a point; the same for `worktrees.lock`. For the reads, `ReadingMade` and `OthersStay` show
  that a worktree goes only by a step of the task lock's holder.
- `MetadataIsSound`, for worktrees of one name made any number of times: MetaInv adds what a process
  between making a worktree and its metadata, or between removing them, has under its hands, by number of
  kills.
- `StaysResumable`, for instances without `"cleanup_inplace"` (see section 3): ResumeInv orders worktrees
  by number, so that a worktree newly made is no recorded session's.

`IntegrationProofs`: `TypeCorrect`, `BranchesOnlyGrow` and `NoCommitIsLost`. CommitsKept is not kept by
rebasing, which drops a revert of what is not there; KeptInv says more, that every change of a task with
a worktree is carried by an entry that is no revert, on a branch, in the archive, at the head or among
what the rebase has yet to apply, and IInv that a worktree with no rebase in progress has none of the
last. Further:

- `BaseStaysAncestor`: the recorded base stays an ancestor of the task's head through conflicts, failures
  and kills at any point, or `integrate` would refuse the task for ever.
- `OwnCommitsOnly`, without kills (with one, TLC refutes it, see section 3), and with any conflicts and
  failures. OwnInv: beyond its base a task's head has commits of its own in their order and nothing else,
  or a rebase is left in the middle, whose applied and remaining commits together are.
- `CommitsStay` (`Spec => OnlyStoppedRebaseLoses`), with any conflicts, failures and kills: no other step
  of the program or of a person, and no kill, takes a commit from the branches, the archive and the task
  at once. What is on a branch or archived stays there (BranchesGrow, ArchiveGrows); a task with a
  worktree has its commits by KeptInv, and GoneInv says that one without has nothing else; so what is left
  is the removal, which archives the head, and by IInv a worktree with no rebase in progress has no more
  than that.
- `ImplementsMainline` (`Spec => MainlineSpec`), for one branch and no kills, but with conflicts, which the
  run leaves out: the fast-forward appends one task's commits in their order, every other step is a person's
  commit or a stutter.

`BatchProofs`: `TypeCorrect`, `FlightIsBounded` and `ActiveIsReported`, with
`IInv == TypeOK /\ HandInv /\ FlightInv /\ KnownInv`: what the main thread holds by where it is, that the
pool has no call the main thread does not count until the first Ctrl-C, and that this loses the task in
its hand and no other.

`HarnessTurnProofs`: `SuccessesAreReal`, `AnswersAreNew`, `WorkIsLeftAlone` and `HarnessIsGone`, with any
lines, bare ones too, and any outcome of the exports, with `IInv == Typed /\ StopInv /\ SaidInv /\
ResultInv`. SaidInv is the heart of it: what has been parsed together with what is still in the pipe is
what the harness said, so that its last terminal line is the one the verdict is made of. StopInv: what a
Cursor was stopped for is more ends in its transcript than were counted at the start. The converse,
`AnswersAreReported` (a turn that went well and was read to its end is not reported as failed), rests on
ToldInv: once all of a good turn has been read, the parse has its end, its answer and its session, and no
error the harness did not report. `TypeCorrect` needs that what the reader took and what is in the pipe
are not more lines than the harness wrote.

`CodexTurnProofs`: `SuccessesAreReal`, `PromptsAreConfined`, `UsagesAreOwn` and `ServerIsGone`, for any
number of events of its own and of earlier turns, and with or without `Asks`. `IInv == Typed /\ LogInv /\
LoginInv /\ FlowInv /\ ResultInv`: the parse agrees with the server on the thread, the end and the usage
of the turn; there is one answer to the login and it is not known before it is taken; and the place in the
turn tells what was sent and confirmed. `AnswersAreReported` is the converse of the first, also with
`Asks`; HeardInv: what the server has said of thread, turn, answer and errors is in the parse of what was
put on the queue. `TypeCorrect` needs that no turn's usage is more than the events there were.

`ZcodeTurnProofs`: `SuccessesAreReal` and `EffortsAreRecorded`, for any number of events and efforts, none
included. `IInv == Typed /\ StreamInv /\ ReplyInv /\ HistoryInv /\ EffortInv /\ ResultInv`: the own turn
starts and ends once in the stream, with nothing of an earlier turn between; each request has one answer;
and once the own end has been read, the parse of the stream is settled (`Settled`): nothing is left in it
that could change what it makes of the turn. `AnswersAreReported` is the converse, a property no run
checks: a prompt that ended well, on a server that did nothing else wrong, is a success whichever of its
events come before the answer to the prompt and whatever is repeated of earlier turns. HeardInv: what has
gone by and what is still to be read is of the session asked for, and has a failure, a refusal or an
effort other than the server's only if the server did something wrong; so nothing can make the run give up
(`Foul`, `Fine`). `TypeCorrect`.

`RunRecordProofs`: `TypeCorrect`, `RegistryIsComplete` (RegInv: a compaction that is to drop the entry has
none to lose, since whoever relies on it has made the directory), `ManifestsHold` (ManInv: the digests
along a chain of sealed resumes) and `SuccessIsDelivered` (SuccInv: what a run has collected so far), for
any number of runs, migrations, edits, changes of snapshots and kills of either. A change of a snapshot
marks the resumes that have compared it and not copied it yet (`moved`). `ArchiveIsUpToDate` needs no
more: by ArcInv every copy of a record, wherever it is and in whatever format, tells how its run ended,
and one that a migration has been over is current in both places. `OriginalsAreKept` holds for any number
of migrations, killed anywhere; OrigInv: outside `torn`, the original is whole or the record still the old
one, one migration at a time copies it, and the record is upgraded only once the original is whole.

`UserStateProofs`, of `SessionAccounting`: `CompleteRunsAreOwn` and `CallsAreCountedOnce`, for any number of
runs and calls, killed, resumed from any run and not exported. SplitInv: what was exported before a run and
what the run has used since are all of the session's, but for `Strays`, which is what the total taken off
does not have; FairInv says of each record what Finish made of it, one lemma per harness's way of counting.
`AccountingTypeCorrect`.

Of `ClaudeLogin`, for any number of private homes and refreshes:

- `WipedCopiesStayPrivate`, after any number of kills. That the user's file is never emptied rests on what
  may happen between a sync's reading and its copying, which WipeInv tells: a token that was the accepted
  one when it was read is still where it was (ReadInv); a copy that differs from the token known on both
  sides is wiped or has the accepted one (KnownInv); so a copy that was found ahead is the accepted token
  when it is taken (AheadInv), and only one home can have that (OneHolder).
- `SignInIsKept` and `UserStaysSignedIn`, with any kills and failed copies, until `stranded`. KeptInv:
  whenever the user's file is behind, one watched or ending run has the accepted token in hand (`InHand`),
  with the user's token as the one known on both sides, so that its next sync gives it over and no other
  can undo that; and nobody is told that both sides have the accepted token before the user has it.
- `LoginTypeCorrect`.

Of `HermesCredentials`, for any number of tasks, state directories, providers and refreshes, with kills,
cleanups, sign-ins and refreshes by the user at any time: `HandedTokensAreLive` and `LiveTokensAreFound`.
AgeInv says that no store has a token later than the accepted one, so that the latest in any stores is
accepted if one of them is (`Merged`: a merge has, of each provider, the latest token in any store).
AuthInv says where the accepted tokens are: what the user obtained is in the user's store (UsersInv), what
is `Within` a directory is in some store that its next turn finds (FoundInv), and what the holder of the
lock gathered it has, in the state directory's store and then in its task's (HandedInv). `OnlyIn` is what
makes a kill or a cleanup safe: a token that some other store has is not lost. Beside these,
`TurnsExclude` (no two turns of one state directory between gathering and putting back),
`LatestIsAccepted` (a merge never prefers a wrong token) and `HermesTypeCorrect`.

Every module's type invariant is a theorem without assumptions, and every
invariant and action property of a run, and both refinements, are stated by a theorem whose
hypotheses the run's instance satisfies. Only model-checked is liveness (CommandsEnd, IntegrationEnds,
BatchEnds and the three TurnEnds), since TLAPS does not handle fairness and ENABLED here. No module reaches
a RECURSIVE operator.

## 6. Not modelled

- The lock of the source's Codex home and the refresh by Codex's native client (`codex_auth.py`): what
  rotates the token, and when it writes it, is outside the repository, and each process runs it alone.
- The egress proxy and bridge: a decision on a fixed list and bytes pumped by one thread per connection,
  which share nothing.
- Profiles and isolation, Codex inference routes, prompt transport, models, prices and versions: tables,
  validation, formatting and arithmetic, without state.
- Command lines and environments of the adapters, the parse of manifests and policies, reports and
  listings: data, of which no property here speaks.
- Of the conversions of the migration only that a record's format changes and whether the run succeeded
  does not; the kept originals of requests are treated like those of results, which are modelled.
- Ctrl-C in a single turn; a ZCode binary that is missing; other clients' turns in a ZCode session.

What is next, for whoever takes this further: the lock of `codex_auth.py`, once the moment of its client's
write is known, and the directories of sealed workspaces.

## 7. Running

    tlc -workers 2 -config task_lifecycle.cfg MCTaskLifecycle.tla
    tlc -workers 2 -config codex_turn.cfg CodexTurn.tla
    tlapm TaskLifecycleProofs.tla

A run takes from seconds to about two and a half minutes; `claude_login` is the largest with 2.5 million
distinct states, `task_lifecycle` the slowest for its liveness.

Definitions marked "Slip" are plausible bugs: put in place of the definition that follows them, each makes
TLC refute the property `PROJECT.json` names under "mutants".
