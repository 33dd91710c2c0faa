----------------------------- MODULE Integration -----------------------------
(***************************************************************************)
(* Checkpoint, integrate and cleanup of task commits (integration.py,      *)
(* worktrees.py), with people committing to the main worktree at any time  *)
(* and the integrating process failing or being killed at any point.       *)
(*                                                                         *)
(* A commit is known by its history: a sequence of entries, oldest first,  *)
(* so that being an ancestor is being a prefix.  An entry names who made   *)
(* the change and which it is; a rebased commit is the same entry on       *)
(* another history.  integration.lock admits one integration at a time and *)
(* the task lock keeps every other command off its task (TaskLifecycle);   *)
(* here they are the one variable run.                                     *)
(***************************************************************************)
EXTENDS Integers, Sequences, SequencesExt

CONSTANTS
  Tasks,        \* task names
  Person,       \* whoever commits in the main worktree
  NoTask,       \* not a task
  Branches,     \* branches of the main worktree
  First,        \* the one checked out at the start
  Detached,     \* no branch: the main worktree's HEAD is detached
  Conflicts,    \* may a rebased commit conflict with main?
  MaxMain,      \* bound: commits made by people
  MaxWork,      \* bound: commits made per task
  MaxCrashes    \* bound: integrations killed

ASSUME IntegrationAssumption ==
  /\ Person \notin Tasks /\ NoTask \notin Tasks
  /\ First \in Branches /\ Detached \notin Branches
  /\ Conflicts \in BOOLEAN
  /\ {MaxMain, MaxWork, MaxCrashes} \subseteq Nat

VARIABLES
  mains,     \* mains[b]: what branch b, or a detached HEAD, points to
  cur,       \* the branch checked out in the main worktree, or Detached
  alive,     \* alive[t]: the task has a worktree
  head,      \* head[t]: HEAD of the task's worktree
  base,      \* base[t]: base_commit in the task's metadata
  todo,      \* todo[t]: commits a rebase in progress has yet to apply
  rebasing,  \* rebasing[t]: a rebase is in progress in the worktree
  state,     \* state[t]: "clean", "dirty", or "unmerged" files in the worktree
  archive,   \* what refs/aop-archive points to
  pushed,    \* commits made by people so far
  work,      \* work[t]: commits made for the task so far
  run,       \* the integration under way, and what it has read
  crashes    \* integrations killed so far

wt == <<alive, head, base, todo, rebasing, state>>
vars == <<mains, cur, wt, archive, pushed, work, run, crashes>>

Heads == Branches \union {Detached}
Authors == Tasks \union {Person}
Numbers == 1 .. MaxMain + MaxWork
Entries == [by : Authors, n : Numbers, op : {"add", "merge", "revert"}]
Phases == {"idle", "rebase", "conflict", "rebased", "validate", "check", "merge", "merged"}

\* prev: main's head when the integration began, onto which it rebases;
\* branch: the branch it was on; source: the commits it set out to rebase.
Idle == [at |-> "idle", task |-> NoTask, branch |-> First, prev |-> << >>, source |-> << >>]

TypeOK ==
  /\ mains \in [Heads -> Seq(Entries)]
  /\ cur \in Heads
  /\ alive \in [Tasks -> BOOLEAN]
  /\ {head[t] : t \in Tasks} \union {base[t] : t \in Tasks} \subseteq Seq(Entries)
  /\ todo \in [Tasks -> Seq(Entries)]
  /\ rebasing \in [Tasks -> BOOLEAN]
  /\ state \in [Tasks -> {"clean", "dirty", "unmerged"}]
  /\ archive \subseteq Seq(Entries)
  /\ pushed \in 0 .. MaxMain
  /\ work \in [Tasks -> 0 .. MaxWork]
  /\ run \in [at : Phases, task : Tasks \union {NoTask}, branch : Branches,
              prev : Seq(Entries), source : Seq(Entries)]
  /\ crashes \in 0 .. MaxCrashes

Init ==
  /\ mains = [b \in Heads |-> << >>]
  /\ cur = First
  /\ alive = [t \in Tasks |-> FALSE]
  /\ head = [t \in Tasks |-> << >>]
  /\ base = [t \in Tasks |-> << >>]
  /\ todo = [t \in Tasks |-> << >>]
  /\ rebasing = [t \in Tasks |-> FALSE]
  /\ state = [t \in Tasks |-> "clean"]
  /\ archive = {}
  /\ pushed = 0
  /\ work = [t \in Tasks |-> 0]
  /\ run = Idle
  /\ crashes = 0

-----------------------------------------------------------------------------
(* Histories *)

Same(e, f) == e.by = f.by /\ e.n = f.n

\* Is the change of e in the files of history h: was it made, and not reverted since?
Has(h, e) ==
  \E i \in DOMAIN h :
    /\ Same(h[i], e) /\ h[i].op # "revert"
    /\ \A j \in i + 1 .. Len(h) : Same(h[j], e) => h[j].op # "revert"

\* Applying e to h changes nothing, so a rebase drops it.
Empty(h, e) == Has(h, e) <=> e.op # "revert"
Since(from, h) == SubSeq(h, Len(from) + 1, Len(h))

-----------------------------------------------------------------------------
(* The main worktree, where people commit, merge, revert and switch branches. *)
Push(e) ==
  /\ mains' = [mains EXCEPT ![cur] = Append(@, e)]
  /\ pushed' = pushed + 1
  /\ UNCHANGED <<cur, wt, archive, work, run, crashes>>

PersonCommits ==
  /\ pushed < MaxMain
  /\ \E op \in {"add", "merge"} : Push([by |-> Person, n |-> pushed + 1, op |-> op])

PersonReverts ==
  /\ pushed < MaxMain
  /\ \E i \in DOMAIN mains[cur] :
       /\ Has(mains[cur], mains[cur][i])
       /\ Push([mains[cur][i] EXCEPT !.op = "revert"])

PersonSwitches ==
  /\ cur' \in Heads \ {cur}
  /\ mains' = [mains EXCEPT ![Detached] = IF cur' = Detached THEN mains[cur] ELSE << >>]
  /\ UNCHANGED <<wt, archive, pushed, work, run, crashes>>

-----------------------------------------------------------------------------
(* A task's worktree between integrations *)
Free(t) == alive[t] /\ run.task # t

Create(t) ==
  /\ ~alive[t] /\ work[t] = 0
  /\ alive' = [alive EXCEPT ![t] = TRUE]
  /\ head' = [head EXCEPT ![t] = mains[cur]]
  /\ base' = [base EXCEPT ![t] = mains[cur]]
  /\ UNCHANGED <<mains, cur, todo, rebasing, state, archive, pushed, work, run, crashes>>

\* A run, a resume or a command leaves changed files.
Edit(t) ==
  /\ Free(t) /\ state[t] = "clean"
  /\ state' = [state EXCEPT ![t] = "dirty"]
  /\ UNCHANGED <<mains, cur, alive, head, base, todo, rebasing, archive, pushed, work, run, crashes>>

Commit(t) ==
  /\ work[t] < MaxWork
  /\ work' = [work EXCEPT ![t] = @ + 1]
  /\ head' = [head EXCEPT ![t] = Append(@, [by |-> t, n |-> work[t] + 1, op |-> "add"])]
  /\ state' = [state EXCEPT ![t] = "clean"]

\* Unmerged files and a worktree without changes are refused.
Checkpoint(t) ==
  /\ Free(t) /\ state[t] = "dirty"
  /\ Commit(t)
  /\ UNCHANGED <<mains, cur, alive, base, todo, rebasing, archive, pushed, run, crashes>>

Reachable(h) == \E r \in {mains[b] : b \in Branches} \union archive : IsPrefix(h, r)

Discard(t) ==
  /\ alive' = [alive EXCEPT ![t] = FALSE]
  /\ head' = [head EXCEPT ![t] = << >>]
  /\ base' = [base EXCEPT ![t] = << >>]
  /\ todo' = [todo EXCEPT ![t] = << >>]
  /\ rebasing' = [rebasing EXCEPT ![t] = FALSE]
  /\ state' = [state EXCEPT ![t] = "clean"]

\* Slip: the commit of a removed worktree is not archived.
CleanupKeepsNothing(t) ==
  /\ Free(t)
  /\ Discard(t)
  /\ UNCHANGED <<mains, cur, archive, pushed, work, run, crashes>>

\* Forced removal.  The commit kept is HEAD, which in a rebase in progress is
\* where the rebase has got to; Git drops the rest with the worktree.
Cleanup(t) ==
  /\ Free(t)
  /\ archive' = archive \union (IF Reachable(head[t]) THEN {} ELSE {head[t]})
  /\ Discard(t)
  /\ UNCHANGED <<mains, cur, pushed, work, run, crashes>>

-----------------------------------------------------------------------------
(* `aop integrate` *)
At(phase) == run.at = phase
Goto(phase) == run' = [run EXCEPT !.at = phase]
Raise == run' = Idle
Unmerged(t) == state' = [state EXCEPT ![t] = "unmerged"]

\* The checks, then `git rebase --onto prev base head`, which puts HEAD at prev.
\* With a rebase already in progress Git refuses, and nothing changes.
Begin(t) ==
  LET source == Since(base[t], head[t]) IN
  /\ At("idle") /\ alive[t] /\ state[t] = "clean" /\ ~rebasing[t]
  /\ cur \in Branches
  /\ IsPrefix(base[t], head[t]) /\ IsPrefix(base[t], mains[cur])
  /\ source # << >>
  /\ \A i \in DOMAIN source : source[i].op # "merge"
  /\ run' = [at |-> "rebase", task |-> t, branch |-> cur, prev |-> mains[cur], source |-> source]
  /\ head' = [head EXCEPT ![t] = mains[cur]]
  /\ todo' = [todo EXCEPT ![t] = source]
  /\ rebasing' = [rebasing EXCEPT ![t] = TRUE]
  /\ UNCHANGED <<mains, cur, alive, base, state, archive, pushed, work, crashes>>

\* Apply the next commit, unless it has become empty.
Apply(t) ==
  LET e == Head(todo[t]) IN
  /\ head' = [head EXCEPT ![t] = IF Empty(@, e) THEN @ ELSE Append(@, e)]
  /\ todo' = [todo EXCEPT ![t] = Tail(@)]

\* Slip: the rebase takes its commits newest first.
PickReversed ==
  LET t == run.task
      e == Last(todo[t]) IN
  /\ At("rebase") /\ todo[t] # << >>
  /\ head' = [head EXCEPT ![t] = IF Empty(@, e) THEN @ ELSE Append(@, e)]
  /\ todo' = [todo EXCEPT ![t] = Front(@)]
  /\ UNCHANGED <<mains, cur, alive, base, rebasing, state, archive, pushed, work, run, crashes>>

Pick ==
  /\ At("rebase") /\ todo[run.task] # << >>
  /\ Apply(run.task)
  /\ UNCHANGED <<mains, cur, alive, base, rebasing, state, archive, pushed, work, run, crashes>>

Conflict ==
  LET t == run.task IN
  /\ Conflicts
  /\ At("rebase") /\ todo[t] # << >> /\ ~Empty(head[t], Head(todo[t]))
  /\ run.prev # base[t]
  /\ Unmerged(t)
  /\ Goto("conflict")
  /\ UNCHANGED <<mains, cur, alive, head, base, todo, rebasing, archive, pushed, work, crashes>>

\* Slip: `rebase --skip` in place of `rebase --continue`.
ResolveSkips ==
  LET t == run.task IN
  /\ At("conflict")
  /\ todo' = [todo EXCEPT ![t] = Tail(@)]
  /\ state' = [state EXCEPT ![t] = "clean"]
  /\ Goto("rebase")
  /\ UNCHANGED <<mains, cur, alive, head, base, rebasing, archive, pushed, work, crashes>>

\* Slip: the rebase is not continued, so the same commit conflicts again.
ResolveStays ==
  LET t == run.task IN
  /\ At("conflict")
  /\ state' = [state EXCEPT ![t] = "clean"]
  /\ Goto("rebase")
  /\ UNCHANGED <<mains, cur, alive, head, base, todo, rebasing, archive, pushed, work, crashes>>

\* The author resolves the files; `add --all`, `rebase --continue`.  A resolution that
\* comes to no change is taken for the author's version of the commit.
Resolve ==
  LET t == run.task IN
  /\ At("conflict")
  /\ Apply(t)
  /\ state' = [state EXCEPT ![t] = "clean"]
  /\ Goto("rebase")
  /\ UNCHANGED <<mains, cur, alive, base, rebasing, archive, pushed, work, crashes>>

\* The author fails, leaves conflicts, or leaves what `diff --check` refuses
\* once it is staged.
ResolveFails ==
  /\ At("conflict")
  /\ \E s \in {"unmerged", "dirty"} : state' = [state EXCEPT ![run.task] = s]
  /\ Raise
  /\ UNCHANGED <<mains, cur, alive, head, base, todo, rebasing, archive, pushed, work, crashes>>

RebaseEnds ==
  /\ At("rebase") /\ todo[run.task] = << >>
  /\ rebasing' = [rebasing EXCEPT ![run.task] = FALSE]
  /\ Goto("rebased")
  /\ UNCHANGED <<mains, cur, alive, head, base, todo, state, archive, pushed, work, crashes>>

\* Slip: the recorded base is left where it was.
UpdateBaseForgets ==
  /\ At("rebased")
  /\ Goto("validate")
  /\ UNCHANGED <<mains, cur, wt, archive, pushed, work, crashes>>

UpdateBase ==
  /\ At("rebased")
  /\ IsPrefix(run.prev, head[run.task])
  /\ base' = [base EXCEPT ![run.task] = run.prev]
  /\ Goto("validate")
  /\ UNCHANGED <<mains, cur, alive, head, todo, rebasing, state, archive, pushed, work, crashes>>

\* The author's last turn; what it edited is committed.
Validate ==
  /\ At("validate")
  /\ Commit(run.task) \/ UNCHANGED <<work, head, state>>
  /\ Goto("check")
  /\ UNCHANGED <<mains, cur, alive, base, todo, rebasing, archive, pushed, crashes>>

\* The turn fails or leaves what `diff --check` refuses.
ValidateFails ==
  /\ At("validate")
  /\ \E s \in {"clean", "dirty"} : state' = [state EXCEPT ![run.task] = s]
  /\ Raise
  /\ UNCHANGED <<mains, cur, alive, head, base, todo, rebasing, archive, pushed, work, crashes>>

Check ==
  /\ At("check")
  /\ IF cur = run.branch /\ mains[cur] = run.prev THEN Goto("merge") ELSE Raise
  /\ UNCHANGED <<mains, cur, wt, archive, pushed, work, crashes>>

\* Slip: main is put at the task's head without --ff-only.
MergeResets ==
  /\ At("merge")
  /\ mains' = [mains EXCEPT ![cur] = head[run.task]]
  /\ Goto("merged")
  /\ UNCHANGED <<cur, wt, archive, pushed, work, crashes>>

\* `git merge --ff-only`, on whatever is checked out by then.
Merge ==
  /\ At("merge")
  /\ IF IsPrefix(mains[cur], head[run.task])
     THEN mains' = [mains EXCEPT ![cur] = head[run.task]] /\ Goto("merged")
     ELSE Raise /\ UNCHANGED mains
  /\ UNCHANGED <<cur, wt, archive, pushed, work, crashes>>

\* The second update of the base, and the audit record.
Finish ==
  /\ At("merged")
  /\ base' = IF mains[cur] = head[run.task]
             THEN [base EXCEPT ![run.task] = mains[cur]] ELSE base
  /\ Raise
  /\ UNCHANGED <<mains, cur, alive, head, todo, rebasing, state, archive, pushed, work, crashes>>

\* The process is killed: its locks go, Git's files stay.
Crash ==
  /\ ~At("idle")
  /\ crashes < MaxCrashes
  /\ crashes' = crashes + 1
  /\ Raise
  /\ UNCHANGED <<mains, cur, wt, archive, pushed, work>>

-----------------------------------------------------------------------------
Integrate ==
  \/ Pick \/ Conflict \/ Resolve \/ ResolveFails \/ RebaseEnds \/ UpdateBase
  \/ Validate \/ ValidateFails \/ Check \/ Merge \/ Finish

Next ==
  \/ PersonCommits \/ PersonReverts \/ PersonSwitches
  \/ \E t \in Tasks : Create(t) \/ Edit(t) \/ Checkpoint(t) \/ Cleanup(t) \/ Begin(t)
  \/ Integrate \/ Crash

Spec == Init /\ [][Next]_vars

(* An author's turn ends by its timeout, and Git calls return. *)
FairSpec == Spec /\ WF_vars(Integrate)

-----------------------------------------------------------------------------
(* Properties *)

\* Nothing that is on a branch is ever taken off it, whoever commits while an
\* integration is under way: AOP never force-updates a branch.
OnlyFastForwards == [][\A b \in Branches : IsPrefix(mains[b], mains'[b])]_vars

\* An integration rebases the task's own commits and no others, whatever failed
\* before it was tried again.
RebasesOwnCommits ==
  \A i \in DOMAIN run.source : run.source[i].by = run.task /\ run.source[i].op = "add"

\* The recorded base is an ancestor of the task's head, or integrate would
\* refuse the task for ever.
BaseIsAncestor == \A t \in Tasks : alive[t] => IsPrefix(base[t], head[t])

\* Commit n of the task is on a branch, in the archive, at the task's head, or
\* about to be applied by the rebase in progress.
Kept(t, n) ==
  \E h \in {mains[b] : b \in Branches} \union archive \union {head[t], todo[t]} :
    \E i \in DOMAIN h : h[i].by = t /\ h[i].n = n

\* No commit of a task that has its worktree is lost, however its integrations end.
CommitsKept == \A t \in Tasks : alive[t] => \A n \in 1 .. work[t] : Kept(t, n)

\* Cleaning a task up does not lose a commit either.
CleanupKeepsCommits == \A t \in Tasks : \A n \in 1 .. work[t] : Kept(t, n)

\* The only step that ever loses a commit is the removal of a worktree in which a rebase
\* was stopped, by a conflict nobody resolved or a kill, and then only commits it had yet
\* to apply are lost.
OnlyStoppedRebaseLoses ==
  [][\A t \in Tasks : \A n \in 1 .. work[t] : Kept(t, n) =>
       \/ Kept(t, n)'
       \/ /\ alive[t] /\ ~alive'[t] /\ rebasing[t]
          /\ \E i \in DOMAIN todo[t] : todo[t][i].n = n]_vars

\* An integration that began comes to an end: every conflict is passed or
\* given up on.
IntegrationEnds == ~At("idle") ~> At("idle")

\* All the rest of it is, to whoever looks at the branches, one append of the
\* task's own commits.
Main == INSTANCE Mainline WITH mains <- [b \in Branches |-> mains[b]]
MainlineSpec == Main!Spec
=============================================================================
