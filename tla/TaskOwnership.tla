---------------------------- MODULE TaskOwnership ----------------------------
(***************************************************************************)
(* What AOP promises about a task, without saying how: a task has at most  *)
(* one owner at a time, its worktree appears once and only its owner makes *)
(* it disappear.  TaskLifecycle implements this with kernel file locks     *)
(* (locks.py) and `git worktree` (worktrees.py).                           *)
(***************************************************************************)
CONSTANTS
  Procs,   \* the aop processes
  Tasks,   \* the task names
  NoProc   \* not a process: the task is free

VARIABLES
  owner,   \* owner[t]: the process that holds the task, or NoProc
  exists   \* exists[t]: a worktree is registered for the task

vars == <<owner, exists>>

Init ==
  /\ owner = [t \in Tasks |-> NoProc]
  /\ exists = [t \in Tasks |-> FALSE]

\* A free task is taken by one process.
Acquire(p, t) ==
  /\ owner[t] = NoProc
  /\ owner' = [owner EXCEPT ![t] = p]
  /\ UNCHANGED exists

\* A process gives up whatever it owns: it finished, failed, or was killed.
Release(p) ==
  /\ owner' = [t \in Tasks |-> IF owner[t] = p THEN NoProc ELSE owner[t]]
  /\ UNCHANGED exists

\* Anyone may create the worktree of a task that has none.
Make(t) ==
  /\ ~exists[t]
  /\ exists' = [exists EXCEPT ![t] = TRUE]
  /\ UNCHANGED owner

\* Only the owner removes it, and it keeps the task while it does.
Destroy(p, t) ==
  /\ owner[t] = p
  /\ exists[t]
  /\ exists' = [exists EXCEPT ![t] = FALSE]
  /\ UNCHANGED owner

Next ==
  \/ \E p \in Procs : Release(p)
  \/ \E t \in Tasks : Make(t)
  \/ \E p \in Procs, t \in Tasks : Acquire(p, t) \/ Destroy(p, t)

Spec == Init /\ [][Next]_vars
=============================================================================
