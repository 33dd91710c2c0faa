---------------------------- MODULE TaskLifecycle ----------------------------
(***************************************************************************)
(* The life of AOP tasks under concurrent `aop` processes: creating a      *)
(* worktree, running and resuming an agent in it, executing a command,     *)
(* checkpointing, integrating and removing it (worktrees.py, runner.py,    *)
(* integration.py, cli.py, locks.py).  A process runs one command; what    *)
(* it does between two file-system or lock operations is one action, so    *)
(* any other process may act in between.  A process may be killed at any   *)
(* point: the kernel then drops its locks and the files stay as they are.  *)
(*                                                                         *)
(* A worktree is known by its incarnation: the n-th worktree created under *)
(* a task name is n, and 0 stands for none.  Private state (provider-state,*)
(* scratch, overlays) is the set of incarnations that put something in it. *)
(* Git content is the subject of module Integration.                       *)
(***************************************************************************)
EXTENDS Naturals, FiniteSets

CONSTANTS
  Procs,        \* aop processes that may run at the same time
  Tasks,        \* task names
  NoProc,       \* not a process
  NoTask,       \* not a task
  Commands,     \* the commands the processes of this instance give
  Detached,     \* may a child of `aop exec` outlive the command it was started by?
  MaxTrees,     \* bound: worktrees created per task name
  MaxCrashes    \* bound: processes killed

AllCommands ==
  {"create", "run", "inplace", "resume", "exec", "checkpoint", "integrate",
   "integrate_remove", "remove", "cleanup", "cleanup_inplace"}

ASSUME TaskAssumption ==
  /\ NoProc \notin Procs
  /\ NoTask \notin Tasks
  /\ Commands \subseteq AllCommands
  /\ Detached \in BOOLEAN
  /\ MaxTrees \in Nat
  /\ MaxCrashes \in Nat

VARIABLES
  pc,         \* pc[p]: where process p is in its command
  job,        \* job[p]: the command p runs, its task and what it has read
  lock,       \* lock[t]: holder of .aop/locks/task-<t>.lock
  wlock,      \* holder of worktrees.lock
  ilock,      \* holder of integration.lock
  tree,       \* tree[t]: incarnation of the registered worktree, 0 for none
  stray,      \* stray[t]: the worktree's path exists but Git does not know it
  meta,       \* meta[t]: incarnation that .aop/tasks/<t>.json describes, 0 for none
  priv,       \* priv[t]: incarnations that left private state, 0 for a --workdir run
  sessions,   \* sessions[t]: incarnations some recorded, resumable run worked in
  made,       \* made[t]: worktrees created so far
  crashes     \* processes killed so far

locks == <<lock, wlock, ilock>>
files == <<tree, stray, meta, priv, sessions, made>>
vars == <<pc, job, lock, wlock, ilock, tree, stray, meta, priv, sessions, made, crashes>>

Incarnations == 0 .. MaxTrees

\* seen: the worktree the command was handed; from: the incarnation of the run
\* a resume continues; nested: AOP_TASK_LOCK_HELD names the task.
Jobs == [cmd : AllCommands \union {"none"}, task : Tasks \union {NoTask},
         seen : Incarnations, from : Incarnations, nested : BOOLEAN]
NoJob == [cmd |-> "none", task |-> NoTask, seen |-> 0, from |-> 0, nested |-> FALSE]

\* The points at which a process is inside worktrees.lock, and inside the task lock.
WorktreeSection == {"check", "meta", "remove_tree", "remove_meta", "remove_priv"}
TaskSection ==
  {"prepare", "launch", "turn", "enter", "command", "checkpoint", "commit",
   "integrate", "work", "wipe", "remove_get", "remove_wait",
   "remove_tree", "remove_meta", "remove_priv"}
Points == {"idle", "make", "check", "meta", "lock"} \union TaskSection
Integrating == {"integrate", "integrate_remove"}

TypeOK ==
  /\ pc \in [Procs -> Points]
  /\ job \in [Procs -> Jobs]
  /\ lock \in [Tasks -> Procs \union {NoProc}]
  /\ wlock \in Procs \union {NoProc}
  /\ ilock \in Procs \union {NoProc}
  /\ tree \in [Tasks -> Incarnations]
  /\ stray \in [Tasks -> BOOLEAN]
  /\ meta \in [Tasks -> Incarnations]
  /\ priv \in [Tasks -> SUBSET Incarnations]
  /\ sessions \in [Tasks -> SUBSET Incarnations]
  /\ made \in [Tasks -> Incarnations]
  /\ crashes \in Nat

Init ==
  /\ pc = [p \in Procs |-> "idle"]
  /\ job = [p \in Procs |-> NoJob]
  /\ lock = [t \in Tasks |-> NoProc]
  /\ wlock = NoProc
  /\ ilock = NoProc
  /\ tree = [t \in Tasks |-> 0]
  /\ stray = [t \in Tasks |-> FALSE]
  /\ meta = [t \in Tasks |-> 0]
  /\ priv = [t \in Tasks |-> {}]
  /\ sessions = [t \in Tasks |-> {}]
  /\ made = [t \in Tasks |-> 0]
  /\ crashes = 0

-----------------------------------------------------------------------------
(* Leaving a command: every lock is a context manager, so returning, raising
   and dying all release what the process holds. *)
At(p, point) == pc[p] = point
Goto(p, point) == pc' = [pc EXCEPT ![p] = point]
Task(p) == job[p].task

Freed(p, holder) == IF holder = p THEN NoProc ELSE holder
End(p) ==
  /\ Goto(p, "idle")
  /\ job' = [job EXCEPT ![p] = NoJob]
  /\ lock' = [t \in Tasks |-> Freed(p, lock[t])]
  /\ wlock' = Freed(p, wlock)
  /\ ilock' = Freed(p, ilock)

\* An idle process starts command c on task t, having read the worktree list.
Begin(p, c, t, point, from) ==
  /\ At(p, "idle")
  /\ c \in Commands
  /\ Goto(p, point)
  /\ job' = [job EXCEPT ![p] = [cmd |-> c, task |-> t, seen |-> tree[t],
                                from |-> from, nested |-> FALSE]]

-----------------------------------------------------------------------------
(* Creating a worktree: `aop worktree create`, or `aop run` on a new task. *)
CreateBegin(p, t) ==
  /\ Begin(p, "create", t, "make", 0)
  /\ UNCHANGED <<locks, files, crashes>>

\* Blocking flock on worktrees.lock.
MakeLock(p) ==
  /\ At(p, "make")
  /\ wlock = NoProc
  /\ wlock' = p
  /\ Goto(p, "check")
  /\ UNCHANGED <<job, lock, ilock, files, crashes>>

\* Slip: an error leaves the block without unlocking worktrees.lock.
MakeFailKeepsLock(p) ==
  /\ At(p, "check")
  /\ Goto(p, "idle")
  /\ job' = [job EXCEPT ![p] = NoJob]
  /\ UNCHANGED <<locks, files, crashes>>

\* The task has a worktree after all, its path is taken, or Git refuses the base.
MakeFail(p) ==
  /\ At(p, "check")
  /\ End(p)
  /\ UNCHANGED <<files, crashes>>

MakeTree(p) ==
  LET t == Task(p) IN
  /\ At(p, "check")
  /\ tree[t] = 0 /\ ~stray[t]
  /\ made[t] < MaxTrees
  /\ made' = [made EXCEPT ![t] = @ + 1]
  /\ tree' = [tree EXCEPT ![t] = made[t] + 1]
  /\ job' = [job EXCEPT ![p].seen = made[t] + 1]
  /\ Goto(p, "meta")
  /\ UNCHANGED <<locks, stray, meta, priv, sessions, crashes>>

\* The metadata is written; create is done, run goes on to the task lock.
MakeMeta(p) ==
  /\ At(p, "meta")
  /\ meta' = [meta EXCEPT ![Task(p)] = job[p].seen]
  /\ \/ job[p].cmd = "create" /\ End(p)
     \/ /\ job[p].cmd = "run"
        /\ Goto(p, "lock")
        /\ wlock' = NoProc
        /\ UNCHANGED <<job, lock, ilock>>
  /\ UNCHANGED <<tree, stray, priv, sessions, made, crashes>>

-----------------------------------------------------------------------------
(* Starting the commands that work under the task lock.  What they read of
   the worktree list here they read before they hold the lock. *)
RunBegin(p, t) ==
  /\ Begin(p, "run", t, IF tree[t] = 0 THEN "make" ELSE "lock", 0)
  /\ UNCHANGED <<locks, files, crashes>>

\* `aop run --workdir`, or a resume of such a run: no worktree is involved, but
\* the task lock and the task's private directories are.
InPlaceBegin(p, t) ==
  /\ At(p, "idle")
  /\ "inplace" \in Commands
  /\ Goto(p, "lock")
  /\ job' = [job EXCEPT ![p] = [NoJob EXCEPT !.cmd = "inplace", !.task = t]]
  /\ UNCHANGED <<locks, files, crashes>>

\* `aop resume`: the parent run is recorded and the task has a worktree.
ResumeBegin(p, t) ==
  /\ tree[t] # 0
  /\ \E s \in sessions[t] \ {0} : Begin(p, "resume", t, "lock", s)
  /\ UNCHANGED <<locks, files, crashes>>

\* A resume started inside `aop exec`, which inherits AOP_TASK_LOCK_HELD.
NestedResumeBegin(p, t) ==
  /\ tree[t] # 0
  /\ At(p, "idle")
  /\ "resume" \in Commands
  /\ \E q \in Procs : At(q, "command") /\ Task(q) = t
  /\ Goto(p, "prepare")
  /\ \E s \in sessions[t] \ {0} :
       job' = [job EXCEPT ![p] = [cmd |-> "resume", task |-> t, seen |-> tree[t],
                                  from |-> s, nested |-> TRUE]]
  /\ UNCHANGED <<locks, files, crashes>>

ExecBegin(p, t) ==
  /\ tree[t] # 0
  /\ Begin(p, "exec", t, "lock", 0)
  /\ UNCHANGED <<locks, files, crashes>>

\* Checkpoint, `worktree remove` and the cleanup of a --workdir run look at
\* nothing before they hold the lock; cleanup of a worktree run looks first.
PlainBegin(p, t) ==
  /\ \E c \in {"checkpoint", "remove", "cleanup_inplace"} : Begin(p, c, t, "lock", 0)
  /\ UNCHANGED <<locks, files, crashes>>

CleanupBegin(p, t) ==
  /\ tree[t] # 0
  /\ Begin(p, "cleanup", t, "lock", 0)
  /\ UNCHANGED <<locks, files, crashes>>

\* Integration takes integration.lock first; busy is an error.
IntegrateBegin(p, t) ==
  /\ ilock = NoProc
  /\ ilock' = p
  /\ \E c \in Integrating : Begin(p, c, t, "lock", 0)
  /\ UNCHANGED <<lock, wlock, files, crashes>>

\* Non-blocking flock on the task lock, and where each command goes from there.
Entry ==
  {<<"run", "prepare">>, <<"inplace", "prepare">>, <<"resume", "prepare">>,
   <<"exec", "enter">>, <<"checkpoint", "checkpoint">>,
   <<"integrate", "integrate">>, <<"integrate_remove", "integrate">>,
   <<"remove", "remove_get">>, <<"cleanup", "remove_get">>,
   <<"cleanup_inplace", "wipe">>}

\* Slip: the result of flock is ignored, so a busy task is entered too.
TaskLockIgnoresBusy(p) ==
  /\ At(p, "lock")
  /\ lock' = [lock EXCEPT ![Task(p)] = p]
  /\ \E e \in Entry : job[p].cmd = e[1] /\ Goto(p, e[2])
  /\ UNCHANGED <<job, wlock, ilock, files, crashes>>

TaskLock(p) ==
  /\ At(p, "lock")
  /\ lock[Task(p)] = NoProc
  /\ lock' = [lock EXCEPT ![Task(p)] = p]
  /\ \E e \in Entry : job[p].cmd = e[1] /\ Goto(p, e[2])
  /\ UNCHANGED <<job, wlock, ilock, files, crashes>>

TaskBusy(p) ==
  /\ At(p, "lock")
  /\ lock[Task(p)] # NoProc
  /\ End(p)
  /\ UNCHANGED <<files, crashes>>

-----------------------------------------------------------------------------
(* A run or resume under the task lock. *)

\* The incarnation whose name p's files go under: the worktree now at the path
\* p was given, the given one once it is gone, 0 for --workdir.
Home(p) ==
  IF job[p].cmd = "inplace" \/ tree[Task(p)] = 0 THEN job[p].seen ELSE tree[Task(p)]

\* Scratch, provider state and the run's request are created (or found).
RunPrepare(p) ==
  /\ At(p, "prepare")
  /\ priv' = [priv EXCEPT ![Task(p)] = @ \union {Home(p)}]
  /\ Goto(p, "launch")
  /\ UNCHANGED <<job, locks, tree, stray, meta, sessions, made, crashes>>

\* The harness is started at the worktree's path, whatever is there now.
RunLaunch(p) ==
  /\ At(p, "launch")
  /\ job[p].cmd = "inplace" \/ tree[Task(p)] # 0 \/ stray[Task(p)]
  /\ Goto(p, "turn")
  /\ UNCHANGED <<job, locks, files, crashes>>

\* The turn ends and result.json is written: with a session, which the harness
\* kept in the private state, or without.
RunEnd(p) ==
  /\ At(p, "turn")
  /\ \/ /\ sessions' = [sessions EXCEPT ![Task(p)] = @ \union {Home(p)}]
        /\ priv' = [priv EXCEPT ![Task(p)] = @ \union {Home(p)}]
     \/ UNCHANGED <<sessions, priv>>
  /\ End(p)
  /\ UNCHANGED <<tree, stray, meta, made, crashes>>

\* The harness could not be prepared or started.
RunFail(p) ==
  /\ At(p, "launch")
  /\ End(p)
  /\ UNCHANGED <<files, crashes>>

-----------------------------------------------------------------------------
(* `aop exec`: mount the overlays asked for, run the command, unmount. *)
\* With overlays: their directories and mount points are created first, which
\* makes a directory at the path of a worktree that is gone.
ExecOverlay(p) ==
  LET t == Task(p) IN
  /\ At(p, "enter")
  /\ priv' = [priv EXCEPT ![t] = @ \union {Home(p)}]
  /\ stray' = [stray EXCEPT ![t] = @ \/ tree[t] = 0]
  /\ Goto(p, "command")
  /\ UNCHANGED <<job, locks, tree, meta, sessions, made, crashes>>

ExecPlain(p) ==
  /\ At(p, "enter")
  /\ tree[Task(p)] # 0 \/ stray[Task(p)]
  /\ Goto(p, "command")
  /\ UNCHANGED <<job, locks, files, crashes>>

\* An overlay cannot be mounted, or there is no directory to run in.
ExecFail(p) ==
  /\ At(p, "enter")
  /\ End(p)
  /\ UNCHANGED <<files, crashes>>

NestedIn(t) == {q \in Procs : job[q].nested /\ Task(q) = t}

\* The command returns; unless it detached them, what it started has ended too.
ExecEnd(p) ==
  /\ At(p, "command")
  /\ Detached \/ NestedIn(Task(p)) = {}
  /\ End(p)
  /\ UNCHANGED <<files, crashes>>

-----------------------------------------------------------------------------
(* Checkpoint and integration read the worktree under the lock. *)
Recorded(t) == tree[t] # 0 /\ meta[t] # 0

CheckpointBegin(p) ==
  /\ At(p, "checkpoint")
  /\ Recorded(Task(p))
  /\ Goto(p, "commit")
  /\ UNCHANGED <<job, locks, files, crashes>>

\* Author continuations resume the task's latest recorded session: in the
\* worktree just read, or in its own directory if that was a --workdir run.
IntegrateWork(p) ==
  LET t == Task(p) IN
  /\ At(p, "integrate")
  /\ Recorded(t)
  /\ \E s \in sessions[t] :
       priv' = [priv EXCEPT ![t] = @ \union {IF s = 0 THEN 0 ELSE tree[t]}]
  /\ job' = [job EXCEPT ![p].seen = tree[t]]
  /\ Goto(p, "work")
  /\ UNCHANGED <<locks, tree, stray, meta, sessions, made, crashes>>

\* Refused, failed or done.
WorkEnd(p) ==
  /\ pc[p] \in {"checkpoint", "commit", "integrate", "work"}
  /\ End(p)
  /\ UNCHANGED <<files, crashes>>

\* integrate --remove-worktree: both locks are released, then remove() is called.
IntegrateRemove(p) ==
  /\ At(p, "work")
  /\ job[p].cmd = "integrate_remove"
  /\ Goto(p, "lock")
  /\ job' = [job EXCEPT ![p] = [NoJob EXCEPT !.cmd = "remove", !.task = Task(p)]]
  /\ lock' = [lock EXCEPT ![Task(p)] = NoProc]
  /\ ilock' = NoProc
  /\ UNCHANGED <<wlock, files, crashes>>

-----------------------------------------------------------------------------
(* Removing a worktree, and what its task kept beside it. *)
RemoveGet(p) ==
  /\ At(p, "remove_get")
  /\ tree[Task(p)] # 0
  /\ Goto(p, "remove_wait")
  /\ UNCHANGED <<job, locks, files, crashes>>

\* Slip: the private state goes before Git has agreed to remove the worktree.
RemoveLockWipesFirst(p) ==
  /\ At(p, "remove_wait")
  /\ wlock = NoProc
  /\ wlock' = p
  /\ priv' = [priv EXCEPT ![Task(p)] = {}]
  /\ Goto(p, "remove_tree")
  /\ UNCHANGED <<job, lock, ilock, tree, stray, meta, sessions, made, crashes>>

\* Slip: the task lock is dropped when worktrees.lock is taken.
RemoveLockSwapsLocks(p) ==
  /\ At(p, "remove_wait")
  /\ wlock = NoProc
  /\ wlock' = p
  /\ lock' = [lock EXCEPT ![Task(p)] = NoProc]
  /\ Goto(p, "remove_tree")
  /\ UNCHANGED <<job, ilock, files, crashes>>

RemoveLock(p) ==
  /\ At(p, "remove_wait")
  /\ wlock = NoProc
  /\ wlock' = p
  /\ Goto(p, "remove_tree")
  /\ UNCHANGED <<job, lock, ilock, files, crashes>>

RemoveTree(p) ==
  /\ At(p, "remove_tree")
  /\ tree' = [tree EXCEPT ![Task(p)] = 0]
  /\ Goto(p, "remove_meta")
  /\ UNCHANGED <<job, locks, stray, meta, priv, sessions, made, crashes>>

\* Slip: the metadata file is left behind.
RemoveMetaForgets(p) ==
  /\ At(p, "remove_meta")
  /\ Goto(p, "remove_priv")
  /\ UNCHANGED <<job, locks, files, crashes>>

RemoveMeta(p) ==
  /\ At(p, "remove_meta")
  /\ meta' = [meta EXCEPT ![Task(p)] = 0]
  /\ Goto(p, "remove_priv")
  /\ UNCHANGED <<job, locks, tree, stray, priv, sessions, made, crashes>>

RemovePriv(p) ==
  /\ pc[p] \in {"remove_priv", "wipe"}
  /\ priv' = [priv EXCEPT ![Task(p)] = {}]
  /\ End(p)
  /\ UNCHANGED <<tree, stray, meta, sessions, made, crashes>>

\* The task has no worktree, or an unforced removal met a dirty one.
RemoveFail(p) ==
  /\ \/ At(p, "remove_get") /\ tree[Task(p)] = 0
     \/ At(p, "remove_tree") /\ job[p].cmd = "remove"
  /\ End(p)
  /\ UNCHANGED <<files, crashes>>

-----------------------------------------------------------------------------
\* SIGKILL, power loss: the kernel releases the locks; the files stay.
Crash(p) ==
  /\ ~At(p, "idle")
  /\ At(p, "command") => Detached \/ NestedIn(Task(p)) = {}
  /\ crashes < MaxCrashes
  /\ crashes' = crashes + 1
  /\ End(p)
  /\ UNCHANGED files

Start(p) ==
  \E t \in Tasks :
    \/ CreateBegin(p, t)
    \/ RunBegin(p, t)
    \/ InPlaceBegin(p, t)
    \/ ResumeBegin(p, t)
    \/ NestedResumeBegin(p, t)
    \/ ExecBegin(p, t)
    \/ PlainBegin(p, t)
    \/ CleanupBegin(p, t)
    \/ IntegrateBegin(p, t)

\* Every step of a command once it has started.
Step(p) ==
  \/ MakeLock(p) \/ MakeFail(p) \/ MakeTree(p) \/ MakeMeta(p)
  \/ TaskLock(p) \/ TaskBusy(p)
  \/ RunPrepare(p) \/ RunLaunch(p) \/ RunEnd(p) \/ RunFail(p)
  \/ ExecOverlay(p) \/ ExecPlain(p) \/ ExecFail(p) \/ ExecEnd(p)
  \/ CheckpointBegin(p) \/ IntegrateWork(p) \/ WorkEnd(p) \/ IntegrateRemove(p)
  \/ RemoveGet(p) \/ RemoveLock(p) \/ RemoveTree(p) \/ RemoveMeta(p)
  \/ RemovePriv(p) \/ RemoveFail(p)

Next == \E p \in Procs : Start(p) \/ Step(p) \/ Crash(p)

Spec == Init /\ [][Next]_vars

(* The operating system schedules every process and every turn is bounded by
   its timeout, so a command that can go on does.  flock queues its waiters,
   so a waiter on worktrees.lock that is let in again and again gets in.  The
   command given to `aop exec` is taken to start finitely many resumes. *)
Fairness ==
  \A p \in Procs :
    /\ WF_vars(Step(p))
    /\ SF_vars(MakeLock(p) \/ RemoveLock(p) \/ ExecEnd(p))
FairSpec == Spec /\ Fairness

-----------------------------------------------------------------------------
(* Properties *)

\* Two processes that both act on a task under its lock, other than through
\* AOP_TASK_LOCK_HELD, are one process: runs, commands, checkpoints,
\* integrations and removals of one task never overlap.
TaskMutex ==
  \A p, q \in Procs :
    /\ {pc[p], pc[q]} \subseteq TaskSection
    /\ Task(p) = Task(q)
    /\ ~job[p].nested /\ ~job[q].nested
    => p = q

\* A resume that runs without taking the task lock, because it inherited
\* AOP_TASK_LOCK_HELD, runs inside an `aop exec` that holds it.
NestedInsideExec ==
  \A p \in Procs : job[p].nested =>
    \E q \in Procs : At(q, "command") /\ lock[Task(p)] = q

\* What checkpoint, integrate and remove read of a worktree under the task
\* lock is still so when they act on it: no other command removed the
\* worktree, replaced it or dropped its metadata in between.
LockedReadHolds ==
  \A p \in Procs :
    /\ At(p, "commit") => Recorded(Task(p))
    /\ At(p, "work") => Recorded(Task(p)) /\ tree[Task(p)] = job[p].seen
    /\ pc[p] \in {"remove_wait", "remove_tree"} => tree[Task(p)] # 0

\* While nobody makes or removes a worktree the metadata describes the one there is, and
\* only that.  A kill may leave the metadata of a worktree that is gone, or a worktree
\* without any, but the next worktree of that name never keeps an earlier one's (whose base
\* commit an integration would use): that takes a second kill, before its own is written.
MetadataSound ==
  \A t \in Tasks : wlock = NoProc =>
    /\ crashes = 0 => meta[t] = tree[t]
    /\ crashes = 1 /\ Recorded(t) => meta[t] = tree[t]

\* A task stays resumable until it is cleaned up: while the worktree a recorded
\* session worked in exists, so does the private state that session needs.
Resumable ==
  \A t \in Tasks : tree[t] # 0 /\ tree[t] \in sessions[t] => tree[t] \in priv[t]

\* Once a task's worktree is gone and nobody works on the task, its private
\* state is gone too: this is when `aop cleanup` of one of its runs finds no
\* worktree, does nothing and reports success.
CleanupComplete ==
  \A t \in Tasks :
    tree[t] = 0 /\ (\A p \in Procs : Task(p) # t) => priv[t] \subseteq {0}

\* A command that was started comes to an end, whatever the others do: no
\* order of taking the three locks leaves a process waiting for ever.
CommandsEnd == \A p \in Procs : ~At(p, "idle") ~> At(p, "idle")

\* The task locks and `git worktree` implement exclusive ownership of tasks.
Ownership == INSTANCE TaskOwnership
  WITH owner <- lock, exists <- [t \in Tasks |-> tree[t] # 0]
OwnershipSpec == Ownership!Spec
=============================================================================
