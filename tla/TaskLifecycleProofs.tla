------------------------- MODULE TaskLifecycleProofs -------------------------
(***************************************************************************)
(* What TLAPS proves of TaskLifecycle, for any number of processes, tasks, *)
(* worktrees and crashes.  The inductive invariant is TypeOK together with *)
(* LockInv: which points of a command hold which lock, and what a process  *)
(* at such a point knows of its job.                                       *)
(***************************************************************************)
EXTENDS TaskLifecycle, TLAPS

\* A process that is not idle has a task; inside AOP_TASK_LOCK_HELD it is at
\* one of the points of a turn.
JobInv ==
  \A p \in Procs :
    /\ pc[p] # "idle" => Task(p) \in Tasks
    /\ pc[p] = "idle" => job[p] = NoJob
    /\ job[p].nested => pc[p] \in {"prepare", "launch", "turn"}
    /\ pc[p] = "meta" => job[p].seen # 0

\* The task lock is held exactly at the points of TaskSection, by the process
\* that is there.
TaskLockInv ==
  /\ \A p \in Procs : pc[p] \in TaskSection /\ ~job[p].nested => lock[Task(p)] = p
  /\ \A p \in Procs, t \in Tasks :
       lock[t] = p => pc[p] \in TaskSection /\ Task(p) = t /\ ~job[p].nested

\* worktrees.lock is held exactly at the points of WorktreeSection.
WorktreeLockInv == \A p \in Procs : pc[p] \in WorktreeSection <=> wlock = p

LockInv == JobInv /\ TaskLockInv /\ WorktreeLockInv
IInv == TypeOK /\ LockInv

-----------------------------------------------------------------------------
\* Taking the task lock leads into the task section.
LEMMA EntryPoint == \A e \in Entry : e[2] \in TaskSection \ WorktreeSection
BY DEF Entry, TaskSection, WorktreeSection

\* The points used below are pairwise different strings, so this is only a
\* matter of expanding the two sets.
LEMMA PointSets ==
  /\ TaskSection \subseteq Points
  /\ WorktreeSection \subseteq Points
  /\ {"idle", "make", "check", "meta", "lock"} \subseteq Points
  /\ {"idle", "make", "check", "meta", "lock"} \cap TaskSection = {}
BY DEF Points, TaskSection, WorktreeSection

LEMMA NoJobType == NoJob \in Jobs
BY TaskAssumption DEF NoJob, Jobs, Incarnations

\* Leaving a command keeps the types of what it resets.
LEMMA EndType ==
  ASSUME TypeOK, NEW p \in Procs, End(p)
  PROVE  /\ pc' \in [Procs -> Points]
         /\ job' \in [Procs -> Jobs]
         /\ lock' \in [Tasks -> Procs \union {NoProc}]
         /\ wlock' \in Procs \union {NoProc}
         /\ ilock' \in Procs \union {NoProc}
BY PointSets, NoJobType DEF TypeOK, End, Goto, Freed

\* Starting a command keeps the types of the two variables it sets.
LEMMA BeginType ==
  ASSUME TypeOK, NEW p \in Procs, NEW t \in Tasks, NEW c, NEW s \in Incarnations,
         NEW point \in Points, Begin(p, c, t, point, s)
  PROVE  pc' \in [Procs -> Points] /\ job' \in [Procs -> Jobs]
BY TaskAssumption DEF TypeOK, Begin, Goto, Jobs

LEMMA TypeInit == Init => TypeOK
BY NoJobType, PointSets, TaskAssumption DEF Init, TypeOK, Incarnations

\* Each step of each command keeps the types: the commands that begin, that
\* end, and that change one variable.
LEMMA TypeNext == TypeOK /\ JobInv /\ [Next]_vars => TypeOK'
<1> SUFFICES ASSUME TypeOK, JobInv, [Next]_vars PROVE TypeOK'
  OBVIOUS
<1>a. ASSUME NEW p \in Procs, pc[p] # "idle" PROVE Task(p) \in Tasks
  BY <1>a DEF JobInv
<1> USE DEF locks, files
<1>0. 0 \in Incarnations
  BY TaskAssumption DEF Incarnations
<1>1. ASSUME NEW p \in Procs, Start(p) PROVE TypeOK'
  <2> PICK t \in Tasks :
        \/ CreateBegin(p, t) \/ RunBegin(p, t) \/ InPlaceBegin(p, t)
        \/ ResumeBegin(p, t) \/ NestedResumeBegin(p, t) \/ ExecBegin(p, t)
        \/ PlainBegin(p, t) \/ CleanupBegin(p, t) \/ IntegrateBegin(p, t)
    BY <1>1 DEF Start
  <2>1. CASE CreateBegin(p, t)
    BY <2>1, <1>0, BeginType, PointSets DEF CreateBegin, TypeOK
  <2>2. CASE RunBegin(p, t)
    BY <2>2, <1>0, BeginType, PointSets DEF RunBegin, TypeOK
  <2>3. CASE InPlaceBegin(p, t)
    BY <2>3, <1>0, PointSets DEF InPlaceBegin, TypeOK, Goto, NoJob, Jobs, AllCommands
  <2>4. CASE ResumeBegin(p, t)
    BY <2>4, BeginType, PointSets DEF ResumeBegin, TypeOK
  <2>5. CASE NestedResumeBegin(p, t)
    BY <2>5 DEF NestedResumeBegin, TypeOK, Goto, Jobs, AllCommands, Points, TaskSection
  <2>6. CASE ExecBegin(p, t)
    BY <2>6, <1>0, BeginType, PointSets DEF ExecBegin, TypeOK
  <2>7. CASE PlainBegin(p, t)
    BY <2>7, <1>0, BeginType, PointSets DEF PlainBegin, TypeOK
  <2>8. CASE CleanupBegin(p, t)
    BY <2>8, <1>0, BeginType, PointSets DEF CleanupBegin, TypeOK
  <2>9. CASE IntegrateBegin(p, t)
    BY <2>9, <1>0, BeginType, PointSets DEF IntegrateBegin, TypeOK
  <2> QED
    BY <2>1, <2>2, <2>3, <2>4, <2>5, <2>6, <2>7, <2>8, <2>9
<1>2. ASSUME NEW p \in Procs, MakeLock(p) PROVE TypeOK'
  BY <1>2, PointSets DEF MakeLock, Goto, TypeOK
<1>3. ASSUME NEW p \in Procs, MakeFail(p) \/ TaskBusy(p) \/ RunFail(p) \/ ExecFail(p)
                 \/ ExecEnd(p) \/ WorkEnd(p) \/ RemoveFail(p) \/ Crash(p)
      PROVE TypeOK'
  BY <1>3, EndType DEF MakeFail, TaskBusy, RunFail, ExecFail, ExecEnd, WorkEnd,
     RemoveFail, Crash, TypeOK
<1>4. ASSUME NEW p \in Procs, MakeTree(p) PROVE TypeOK'
  <2>1. made[Task(p)] + 1 \in Incarnations
    BY <1>4, <1>a, TaskAssumption DEF MakeTree, At, TypeOK, Incarnations
  <2>2. pc' \in [Procs -> Points]
    BY <1>4 DEF MakeTree, Goto, TypeOK, Points
  <2>3. job' \in [Procs -> Jobs]
    <3>1. PICK n \in Incarnations : job' = [job EXCEPT ![p].seen = n]
      BY <1>4, <2>1 DEF MakeTree
    <3> QED
      BY <3>1 DEF TypeOK, Jobs
  <2>4. made' \in [Tasks -> Incarnations] /\ tree' \in [Tasks -> Incarnations]
    BY <1>4, <2>1 DEF MakeTree, TypeOK
  <2> QED
    BY <1>4, <2>2, <2>3, <2>4 DEF MakeTree, TypeOK
<1>5. ASSUME NEW p \in Procs, MakeMeta(p) PROVE TypeOK'
  BY <1>5, EndType, PointSets DEF MakeMeta, Goto, TypeOK, Jobs, Task
<1>6. ASSUME NEW p \in Procs, TaskLock(p) PROVE TypeOK'
  BY <1>6, EntryPoint, PointSets DEF TaskLock, Goto, TypeOK, Jobs, Task
<1>7. ASSUME NEW p \in Procs PROVE pc[p] # "idle" => Home(p) \in Incarnations
  BY <1>a DEF Home, TypeOK, Jobs
<1>8. ASSUME NEW p \in Procs, RunPrepare(p) PROVE TypeOK'
  BY <1>8, <1>7 DEF RunPrepare, At, Goto, TypeOK, Points, TaskSection
<1>9. ASSUME NEW p \in Procs, RunLaunch(p) PROVE TypeOK'
  BY <1>9 DEF RunLaunch, Goto, TypeOK, Points, TaskSection
<1>10. ASSUME NEW p \in Procs, RunEnd(p) PROVE TypeOK'
  BY <1>10, <1>7, EndType DEF RunEnd, At, TypeOK
<1>11. ASSUME NEW p \in Procs, ExecOverlay(p) PROVE TypeOK'
  BY <1>11, <1>7 DEF ExecOverlay, At, Goto, TypeOK, Points, TaskSection
<1>12. ASSUME NEW p \in Procs, ExecPlain(p) PROVE TypeOK'
  BY <1>12 DEF ExecPlain, Goto, TypeOK, Points, TaskSection
<1>13. ASSUME NEW p \in Procs, CheckpointBegin(p) PROVE TypeOK'
  BY <1>13 DEF CheckpointBegin, Goto, TypeOK, Points, TaskSection
<1>14. ASSUME NEW p \in Procs, IntegrateWork(p) PROVE TypeOK'
  <2>1. tree[Task(p)] \in Incarnations
    BY <1>14, <1>a DEF IntegrateWork, At, TypeOK
  <2>2. PICK s \in Incarnations : priv' = [priv EXCEPT ![Task(p)] = @ \union {s}]
    BY <1>14, <1>0, <2>1 DEF IntegrateWork
  <2>3. priv' \in [Tasks -> SUBSET Incarnations]
    BY <2>2 DEF TypeOK
  <2>4. pc' \in [Procs -> Points]
    BY <1>14 DEF IntegrateWork, Goto, TypeOK, Points, TaskSection
  <2>5. PICK n \in Incarnations : job' = [job EXCEPT ![p].seen = n]
    BY <1>14, <2>1 DEF IntegrateWork
  <2>6. job' \in [Procs -> Jobs]
    BY <2>5 DEF TypeOK, Jobs
  <2> QED
    BY <1>14, <2>3, <2>4, <2>6 DEF IntegrateWork, TypeOK
<1>15. ASSUME NEW p \in Procs, IntegrateRemove(p) PROVE TypeOK'
  BY <1>15, <1>0, PointSets
     DEF IntegrateRemove, Goto, TypeOK, Jobs, NoJob, AllCommands, Task
<1>16. ASSUME NEW p \in Procs, RemoveGet(p) \/ RemoveLock(p) PROVE TypeOK'
  BY <1>16 DEF RemoveGet, RemoveLock, Goto, TypeOK, Points, TaskSection
<1>17. ASSUME NEW p \in Procs, RemoveTree(p) \/ RemoveMeta(p) PROVE TypeOK'
  BY <1>17, <1>0 DEF RemoveTree, RemoveMeta, Goto, TypeOK, Task, Points, TaskSection
<1>18. ASSUME NEW p \in Procs, RemovePriv(p) PROVE TypeOK'
  BY <1>18, EndType DEF RemovePriv, TypeOK, Task
<1>19. CASE UNCHANGED vars
  BY <1>19 DEF vars, TypeOK
<1> QED
  BY <1>1, <1>2, <1>3, <1>4, <1>5, <1>6, <1>8, <1>9, <1>10, <1>11, <1>12, <1>13,
     <1>14, <1>15, <1>16, <1>17, <1>18, <1>19 DEF Next, Step

LEMMA InvInit == Init => IInv
BY TypeInit, TaskAssumption
   DEF Init, IInv, LockInv, JobInv, TaskLockInv, WorktreeLockInv, NoJob,
       TaskSection, WorktreeSection

\* What a process knows of its job survives every step.
LEMMA JobNext == TypeOK /\ JobInv /\ [Next]_vars => JobInv'
<1> SUFFICES ASSUME TypeOK, JobInv, [Next]_vars PROVE JobInv'
  OBVIOUS
<1> USE DEF JobInv, Task, At, Goto, TypeOK
<1>1. ASSUME NEW p \in Procs, Start(p) PROVE JobInv'
  <2> PICK t \in Tasks :
        \/ CreateBegin(p, t) \/ RunBegin(p, t) \/ InPlaceBegin(p, t)
        \/ ResumeBegin(p, t) \/ NestedResumeBegin(p, t) \/ ExecBegin(p, t)
        \/ PlainBegin(p, t) \/ CleanupBegin(p, t) \/ IntegrateBegin(p, t)
    BY <1>1 DEF Start
  <2>1. ASSUME NEW c, NEW s, NEW point \in {"make", "lock"}, Begin(p, c, t, point, s)
        PROVE  JobInv'
    BY <2>1 DEF Begin
  <2>2. CASE InPlaceBegin(p, t)
    BY <2>2 DEF InPlaceBegin, NoJob
  <2>3. CASE NestedResumeBegin(p, t)
    BY <2>3 DEF NestedResumeBegin
  <2> QED
    BY <2>1, <2>2, <2>3 DEF CreateBegin, RunBegin, ResumeBegin, ExecBegin, PlainBegin,
       CleanupBegin, IntegrateBegin
<1>2. ASSUME NEW p \in Procs, End(p) PROVE JobInv'
  BY <1>2 DEF End, NoJob
<1>3. ASSUME NEW p \in Procs, MakeTree(p) PROVE JobInv'
  BY <1>3, TaskAssumption DEF MakeTree, Incarnations, Jobs
<1>4. ASSUME NEW p \in Procs, TaskLock(p) PROVE JobInv'
  BY <1>4, EntryPoint DEF TaskLock, TaskSection
<1>5. ASSUME NEW p \in Procs, IntegrateWork(p) \/ IntegrateRemove(p) PROVE JobInv'
  <2>1. CASE IntegrateWork(p)
    BY <2>1 DEF IntegrateWork, Jobs
  <2>2. CASE IntegrateRemove(p)
    BY <2>2 DEF IntegrateRemove, NoJob
  <2> QED
    BY <1>5, <2>1, <2>2
<1>6. ASSUME NEW p \in Procs, MakeMeta(p) PROVE JobInv'
  BY <1>6, <1>2 DEF MakeMeta
<1>7. ASSUME NEW p \in Procs, MakeLock(p) \/ RunPrepare(p) \/ RunLaunch(p) \/ ExecOverlay(p)
                 \/ ExecPlain(p) \/ CheckpointBegin(p) \/ RemoveGet(p) \/ RemoveLock(p)
                 \/ RemoveTree(p) \/ RemoveMeta(p)
      PROVE JobInv'
  BY <1>7 DEF MakeLock, RunPrepare, RunLaunch, ExecOverlay, ExecPlain, CheckpointBegin,
     RemoveGet, RemoveLock, RemoveTree, RemoveMeta
<1>8. ASSUME NEW p \in Procs, Step(p) \/ Crash(p) PROVE JobInv'
  BY <1>8, <1>2, <1>3, <1>4, <1>5, <1>6, <1>7
     DEF Step, Crash, MakeFail, TaskBusy, RunEnd, RunFail, ExecFail, ExecEnd, WorkEnd,
         RemovePriv, RemoveFail
<1>9. CASE UNCHANGED vars
  BY <1>9 DEF vars
<1> QED
  BY <1>1, <1>8, <1>9 DEF Next

\* Every variable keeps its type in every behaviour.
THEOREM TypeCorrect == Spec => []TypeOK
<1>1. Init => TypeOK /\ JobInv
  BY InvInit DEF IInv, LockInv
<1>2. TypeOK /\ JobInv /\ [Next]_vars => (TypeOK /\ JobInv)'
  BY TypeNext, JobNext
<1> QED
  BY <1>1, <1>2, PTL DEF Spec

-----------------------------------------------------------------------------
(* The locks.  A step takes one, gives back what the process holds, or moves
   between two points that hold the same ones. *)

\* Leaving a command gives back exactly what its process held.
LEMMA EndLocks ==
  ASSUME IInv, NEW p \in Procs, End(p)
  PROVE  TaskLockInv' /\ WorktreeLockInv'
<1> USE DEF IInv, LockInv, TypeOK, End, Goto, Freed, NoJob, Task
<1>1. "idle" \notin TaskSection /\ "idle" \notin WorktreeSection
  BY DEF TaskSection, WorktreeSection
<1>2. TaskLockInv'
  <2>1. p # NoProc
    BY TaskAssumption
  <2>2. \A t \in Tasks : lock'[t] # p /\ \A q \in Procs \ {p} : lock'[t] = q <=> lock[t] = q
    BY <2>1, TaskAssumption
  <2>3. \A q \in Procs \ {p} : pc'[q] = pc[q] /\ job'[q] = job[q]
    OBVIOUS
  <2>4. pc'[p] \notin TaskSection
    BY <1>1
  <2>5. ASSUME NEW q \in Procs, pc'[q] \in TaskSection, ~job'[q].nested
        PROVE  lock'[job'[q].task] = q
    <3>1. q # p
      BY <2>4, <2>5
    <3>2. job[q].task \in Tasks /\ lock[job[q].task] = q
      BY <1>1, <2>3, <2>5, <3>1 DEF TaskLockInv, JobInv
    <3> QED
      BY <2>2, <2>3, <3>1, <3>2
  <2>6. ASSUME NEW q \in Procs, NEW t \in Tasks, lock'[t] = q
        PROVE  pc'[q] \in TaskSection /\ job'[q].task = t /\ ~job'[q].nested
    BY <2>2, <2>3, <2>6 DEF TaskLockInv
  <2> QED
    BY <2>5, <2>6 DEF TaskLockInv
<1>3. WorktreeLockInv'
  BY <1>1, TaskAssumption DEF WorktreeLockInv
<1> QED
  BY <1>2, <1>3

\* Starting a command takes neither the task lock nor worktrees.lock.
LEMMA StartLocks ==
  ASSUME IInv, NEW p \in Procs, Start(p)
  PROVE  TaskLockInv' /\ WorktreeLockInv'
<1> USE DEF IInv, LockInv, TypeOK, Goto, Task, At, locks
<1>1. PICK t \in Tasks :
        \/ CreateBegin(p, t) \/ RunBegin(p, t) \/ InPlaceBegin(p, t)
        \/ ResumeBegin(p, t) \/ NestedResumeBegin(p, t) \/ ExecBegin(p, t)
        \/ PlainBegin(p, t) \/ CleanupBegin(p, t) \/ IntegrateBegin(p, t)
  BY DEF Start
<1>2. {"idle", "make", "lock"} \cap (TaskSection \union WorktreeSection) = {}
       /\ "prepare" \notin WorktreeSection
  BY DEF TaskSection, WorktreeSection
<1>3. ASSUME NEW c, NEW s, NEW point \in {"make", "lock"}, Begin(p, c, t, point, s),
             UNCHANGED <<lock, wlock>>
      PROVE  TaskLockInv' /\ WorktreeLockInv'
  BY <1>2, <1>3 DEF Begin, TaskLockInv, WorktreeLockInv
<1>4. CASE InPlaceBegin(p, t)
  BY <1>2, <1>4 DEF InPlaceBegin, TaskLockInv, WorktreeLockInv
<1>5. CASE NestedResumeBegin(p, t)
  BY <1>2, <1>5 DEF NestedResumeBegin, TaskLockInv, WorktreeLockInv
<1> QED
  BY <1>1, <1>3, <1>4, <1>5 DEF CreateBegin, RunBegin, ResumeBegin, ExecBegin, PlainBegin,
     CleanupBegin, IntegrateBegin

\* A step that moves between points holding the same locks, keeping the job's
\* task and nesting, keeps who holds what.
LEMMA MoveLocks ==
  ASSUME IInv, NEW p \in Procs, NEW point, Goto(p, point), UNCHANGED <<lock, wlock>>,
         pc[p] \in TaskSection <=> point \in TaskSection,
         pc[p] \in WorktreeSection <=> point \in WorktreeSection,
         \A q \in Procs : job'[q].task = job[q].task /\ job'[q].nested = job[q].nested
  PROVE  TaskLockInv' /\ WorktreeLockInv'
BY DEF IInv, LockInv, TypeOK, Goto, Task, TaskLockInv, WorktreeLockInv

\* Every step keeps the task locks and worktrees.lock with whom the points say.
LEMMA LocksNext == IInv /\ [Next]_vars => TaskLockInv' /\ WorktreeLockInv'
<1> SUFFICES ASSUME IInv, [Next]_vars PROVE TaskLockInv' /\ WorktreeLockInv'
  OBVIOUS
<1> USE DEF At, locks
<1>1. ASSUME NEW p \in Procs, MakeLock(p) PROVE TaskLockInv' /\ WorktreeLockInv'
  BY <1>1, TaskAssumption DEF MakeLock, IInv, LockInv, TypeOK, Goto, Task, TaskLockInv,
     WorktreeLockInv, TaskSection, WorktreeSection
<1>2. ASSUME NEW p \in Procs, MakeTree(p) PROVE TaskLockInv' /\ WorktreeLockInv'
  BY <1>2, MoveLocks DEF MakeTree, IInv, TypeOK, Jobs, TaskSection, WorktreeSection
<1>3. ASSUME NEW p \in Procs, MakeMeta(p) PROVE TaskLockInv' /\ WorktreeLockInv'
  <2>1. CASE End(p)
    BY <2>1, EndLocks
  <2>2. CASE ~End(p)
    BY <1>3, <2>2, TaskAssumption DEF MakeMeta, IInv, LockInv, TypeOK, Goto, Task,
       TaskLockInv, WorktreeLockInv, TaskSection, WorktreeSection
  <2> QED
    BY <2>1, <2>2
<1>4. ASSUME NEW p \in Procs, TaskLock(p) PROVE TaskLockInv' /\ WorktreeLockInv'
  <2>1. PICK e \in Entry : Goto(p, e[2])
    BY <1>4 DEF TaskLock
  <2>2. e[2] \in TaskSection \ WorktreeSection
    BY EntryPoint
  <2>3. pc[p] \notin TaskSection \union WorktreeSection /\ ~job[p].nested
    BY <1>4 DEF TaskLock, IInv, LockInv, JobInv, TaskSection, WorktreeSection
  <2>4. TaskLockInv'
    BY <1>4, <2>1, <2>2, <2>3, TaskAssumption
       DEF TaskLock, IInv, LockInv, TypeOK, Goto, Task, JobInv, TaskLockInv
  <2>5. WorktreeLockInv'
    BY <1>4, <2>1, <2>2, <2>3
       DEF TaskLock, IInv, LockInv, TypeOK, Goto, WorktreeLockInv
  <2> QED
    BY <2>4, <2>5
<1>5. ASSUME NEW p \in Procs, RunPrepare(p) \/ RunLaunch(p) \/ ExecOverlay(p) \/ ExecPlain(p)
                 \/ CheckpointBegin(p) \/ RemoveGet(p) \/ RemoveTree(p) \/ RemoveMeta(p)
      PROVE TaskLockInv' /\ WorktreeLockInv'
  BY <1>5, MoveLocks DEF RunPrepare, RunLaunch, ExecOverlay, ExecPlain, CheckpointBegin,
     RemoveGet, RemoveTree, RemoveMeta, TaskSection, WorktreeSection
<1>6. ASSUME NEW p \in Procs, IntegrateWork(p) PROVE TaskLockInv' /\ WorktreeLockInv'
  BY <1>6, MoveLocks DEF IntegrateWork, IInv, TypeOK, Jobs, TaskSection, WorktreeSection
<1>7. ASSUME NEW p \in Procs, IntegrateRemove(p) PROVE TaskLockInv' /\ WorktreeLockInv'
  <2>1. pc[p] \in TaskSection \ WorktreeSection /\ "lock" \notin TaskSection \union WorktreeSection
    BY <1>7 DEF IntegrateRemove, TaskSection, WorktreeSection
  <2>2. TaskLockInv'
    <3> USE DEF IInv, LockInv, TypeOK, Task
    <3>1. Task(p) \in Tasks /\ p # NoProc
      BY <2>1, TaskAssumption DEF JobInv, TaskSection
    <3>2. /\ lock' = [lock EXCEPT ![Task(p)] = NoProc]
          /\ pc' = [pc EXCEPT ![p] = "lock"]
          /\ \A q \in Procs \ {p} : job'[q] = job[q]
      BY <1>7 DEF IntegrateRemove, Goto
    <3>3. ~job[p].nested
      BY <1>7 DEF IntegrateRemove, JobInv
    <3>4. \A t \in Tasks : lock'[t] # p
      BY <3>1, <3>2 DEF TaskLockInv
    <3>5. ASSUME NEW q \in Procs, pc'[q] \in TaskSection, ~job'[q].nested
          PROVE  lock'[job'[q].task] = q
      BY <2>1, <3>1, <3>2, <3>3, <3>5 DEF TaskLockInv, JobInv, TaskSection
    <3>6. ASSUME NEW q \in Procs, NEW t \in Tasks, lock'[t] = q
          PROVE  pc'[q] \in TaskSection /\ job'[q].task = t /\ ~job'[q].nested
      BY <3>1, <3>2, <3>4, <3>6, TaskAssumption DEF TaskLockInv
    <3> QED
      BY <3>5, <3>6 DEF TaskLockInv
  <2>3. WorktreeLockInv'
    BY <1>7, <2>1 DEF IntegrateRemove, IInv, LockInv, TypeOK, Goto, WorktreeLockInv
  <2> QED
    BY <2>2, <2>3
<1>8. ASSUME NEW p \in Procs, RemoveLock(p) PROVE TaskLockInv' /\ WorktreeLockInv'
  BY <1>8, TaskAssumption DEF RemoveLock, IInv, LockInv, TypeOK, Goto, Task, TaskLockInv,
     WorktreeLockInv, TaskSection, WorktreeSection
<1>9. ASSUME NEW p \in Procs, Step(p) \/ Crash(p) PROVE TaskLockInv' /\ WorktreeLockInv'
  BY <1>9, <1>1, <1>2, <1>3, <1>4, <1>5, <1>6, <1>7, <1>8, EndLocks
     DEF Step, Crash, MakeFail, TaskBusy, RunEnd, RunFail, ExecFail, ExecEnd, WorkEnd,
         RemovePriv, RemoveFail
<1>10. CASE UNCHANGED vars
  BY <1>10 DEF vars, IInv, LockInv, TaskLockInv, WorktreeLockInv, Task
<1> QED
  BY <1>9, <1>10, StartLocks DEF Next

LEMMA InvNext == IInv /\ [Next]_vars => IInv'
BY TypeNext, JobNext, LocksNext DEF IInv, LockInv

\* The inductive invariant holds in every behaviour.
LEMMA Invariance == Spec => []IInv
BY InvInit, InvNext, PTL DEF Spec

\* No two processes are inside the same task's lock at once, whatever the
\* number of processes and the order of their commands (locks.py).
THEOREM MutualExclusion == Spec => []TaskMutex
<1>1. IInv => TaskMutex
  BY DEF IInv, LockInv, TaskLockInv, TaskMutex
<1> QED
  BY <1>1, Invariance, PTL

-----------------------------------------------------------------------------
(* What is read under the task lock stays true under it. *)

\* A step changes the place and the job of its own process only.
LEMMA OthersStay ==
  ASSUME TypeOK, NEW p \in Procs, Start(p) \/ Step(p) \/ Crash(p), NEW q \in Procs, q # p
  PROVE  pc'[q] = pc[q] /\ job'[q] = job[q]
<1> USE DEF TypeOK, Goto, locks
<1>1. CASE Start(p)
  BY <1>1 DEF Start, Begin, CreateBegin, RunBegin, InPlaceBegin, ResumeBegin,
     NestedResumeBegin, ExecBegin, PlainBegin, CleanupBegin, IntegrateBegin
<1>2. CASE End(p)
  BY <1>2 DEF End
<1>3. CASE Step(p) \/ Crash(p)
  BY <1>2, <1>3 DEF Step, Crash, MakeLock, MakeFail, MakeTree, MakeMeta, TaskLock, TaskBusy,
     RunPrepare, RunLaunch, RunEnd, RunFail, ExecOverlay, ExecPlain, ExecFail, ExecEnd,
     CheckpointBegin, IntegrateWork, WorkEnd, IntegrateRemove, RemoveGet, RemoveLock,
     RemoveTree, RemoveMeta, RemovePriv, RemoveFail
<1> QED
  BY <1>1, <1>3

\* The points at which a process relies on what it read of the worktree.
Relying == {"commit", "work", "remove_wait", "remove_tree"}

\* LockedReadHolds, for one process.
ReadHolds(p) ==
  /\ At(p, "commit") => Recorded(Task(p))
  /\ At(p, "work") => Recorded(Task(p)) /\ tree[Task(p)] = job[p].seen
  /\ pc[p] \in {"remove_wait", "remove_tree"} => tree[Task(p)] # 0

\* The worktree and the metadata of a task change only where its lock is held,
\* or where there is no worktree yet.
LEMMA WorktreeChanges ==
  ASSUME IInv, NEW p \in Procs, Start(p) \/ Step(p) \/ Crash(p), NEW t \in Tasks
  PROVE  \/ tree'[t] = tree[t] /\ (meta[t] # 0 => meta'[t] # 0)
         \/ tree[t] = 0
         \/ pc[p] \in {"remove_tree", "remove_meta"} /\ Task(p) = t
<1> USE DEF IInv, TypeOK, files
<1>1. CASE Start(p)
  BY <1>1 DEF Start, CreateBegin, RunBegin, InPlaceBegin, ResumeBegin,
     NestedResumeBegin, ExecBegin, PlainBegin, CleanupBegin, IntegrateBegin
<1>2. CASE MakeTree(p)
  BY <1>2 DEF MakeTree
<1>3. CASE MakeMeta(p)
  BY <1>3 DEF MakeMeta, At, LockInv, JobInv
<1>4. CASE RemoveTree(p) \/ RemoveMeta(p)
  BY <1>4 DEF RemoveTree, RemoveMeta, At
<1>5. CASE (Step(p) \/ Crash(p)) /\ ~MakeTree(p) /\ ~MakeMeta(p) /\ ~RemoveTree(p) /\ ~RemoveMeta(p)
  BY <1>5 DEF Step, Crash, MakeLock, MakeFail, TaskLock, TaskBusy,
     RunPrepare, RunLaunch, RunEnd, RunFail, ExecOverlay, ExecPlain, ExecFail, ExecEnd,
     CheckpointBegin, IntegrateWork, WorkEnd, IntegrateRemove, RemoveGet, RemoveLock,
     RemovePriv, RemoveFail
<1> QED
  BY <1>1, <1>2, <1>3, <1>4, <1>5

\* A process that comes to rely on a reading has just made it.
LEMMA ReadingMade ==
  ASSUME IInv, NEW p \in Procs, Start(p) \/ Step(p) \/ Crash(p), ReadHolds(p)
  PROVE  ReadHolds(p)'
<1> USE DEF IInv, TypeOK, Goto, At, Task, ReadHolds
<1>1. CASE pc'[p] \notin Relying
  BY <1>1 DEF Relying
<1>2. CASE CheckpointBegin(p)
  BY <1>2 DEF CheckpointBegin, Recorded, files
<1>3. CASE IntegrateWork(p)
  BY <1>3 DEF IntegrateWork, Recorded, Jobs
<1>4. CASE RemoveGet(p) \/ RemoveLock(p)
  BY <1>4 DEF RemoveGet, RemoveLock, files
<1>5. CASE Start(p) /\ pc'[p] \in Relying
  BY <1>5 DEF Start, Begin, CreateBegin, RunBegin, InPlaceBegin, ResumeBegin,
     NestedResumeBegin, ExecBegin, PlainBegin, CleanupBegin, IntegrateBegin, Relying
<1>6. End(p) => pc'[p] \notin Relying
  BY DEF End, Relying
<1>7. CASE /\ Step(p) \/ Crash(p)
           /\ ~CheckpointBegin(p) /\ ~IntegrateWork(p) /\ ~RemoveGet(p) /\ ~RemoveLock(p)
  <2>1. TaskLock(p) => pc'[p] \notin Relying
    BY DEF TaskLock, Entry, Relying
  <2> QED
    BY <1>1, <1>6, <1>7, <2>1 DEF Step, Crash, MakeLock, MakeFail, MakeTree, MakeMeta, TaskBusy,
       RunPrepare, RunLaunch, RunEnd, RunFail, ExecOverlay, ExecPlain, ExecFail, ExecEnd,
       WorkEnd, IntegrateRemove, RemoveTree, RemoveMeta, RemovePriv, RemoveFail, Relying
<1> QED
  BY <1>1, <1>2, <1>3, <1>4, <1>5, <1>7

\* No step of anyone takes away what a process relies on.
LEMMA ReadNext == IInv /\ LockedReadHolds /\ [Next]_vars => LockedReadHolds'
<1> SUFFICES ASSUME IInv, LockedReadHolds, [Next]_vars, NEW q \in Procs PROVE ReadHolds(q)'
  BY DEF LockedReadHolds, ReadHolds
<1>1. ReadHolds(q)
  BY DEF LockedReadHolds, ReadHolds
<1>2. CASE UNCHANGED vars
  BY <1>1, <1>2 DEF ReadHolds, vars, At, Task, Recorded
<1>3. ASSUME NEW p \in Procs, Start(p) \/ Step(p) \/ Crash(p) PROVE ReadHolds(q)'
  <2>1. CASE q = p
    BY <1>1, <1>3, <2>1, ReadingMade
  <2>2. CASE q # p
    <3>1. pc'[q] = pc[q] /\ job'[q] = job[q]
      BY <1>3, <2>2, OthersStay DEF IInv
    <3>2. CASE pc[q] \notin Relying
      BY <3>1, <3>2 DEF ReadHolds, At, Relying
    <3>3. CASE pc[q] \in Relying
      <4>1. Task(q) \in Tasks /\ tree[Task(q)] # 0
        BY <1>1, <3>3 DEF ReadHolds, At, Recorded, Relying, IInv, LockInv, JobInv
      <4>2. lock[Task(q)] = q
        BY <3>3 DEF IInv, LockInv, JobInv, TaskLockInv, Relying, TaskSection
      <4>3. ~(pc[p] \in {"remove_tree", "remove_meta"} /\ Task(p) = Task(q))
        BY <2>2, <4>2 DEF IInv, LockInv, JobInv, TaskLockInv, TaskSection
      <4>4. tree'[Task(q)] = tree[Task(q)] /\ (meta[Task(q)] # 0 => meta'[Task(q)] # 0)
        BY <1>3, <4>1, <4>3, WorktreeChanges
      <4> QED
        BY <1>1, <3>1, <4>4 DEF ReadHolds, At, Recorded, Task
    <3> QED
      BY <3>2, <3>3
  <2> QED
    BY <2>1, <2>2
<1> QED
  BY <1>2, <1>3 DEF Next

\* What checkpoint, integrate and remove read of a worktree under the task lock
\* is still so when they act on it (integration.py, worktrees.py).
THEOREM LockedReads == Spec => []LockedReadHolds
<1>1. Init => LockedReadHolds
  BY DEF Init, LockedReadHolds, At
<1> QED
  BY <1>1, ReadNext, Invariance, PTL DEF Spec

-----------------------------------------------------------------------------
(* The refinement: a step of a command is a step of its task's ownership, or
   changes nothing of it. *)

\* Whatever ends a command releases what its process owned.
LEMMA EndReleases ==
  ASSUME NEW p \in Procs, End(p), UNCHANGED tree
  PROVE  Ownership!Release(p)
BY DEF End, Freed, Ownership!Release

\* Steps that touch neither a task lock nor a worktree.
LEMMA OwnershipStutter ==
  ASSUME UNCHANGED <<lock, tree>>
  PROVE  UNCHANGED Ownership!vars
BY DEF Ownership!vars

LEMMA OwnershipNext ==
  ASSUME IInv, LockedReadHolds, [Next]_vars
  PROVE  [Ownership!Next]_(Ownership!vars)
<1> USE DEF locks, files, IInv, TypeOK
<1>1. CASE UNCHANGED vars
  BY <1>1, OwnershipStutter DEF vars
<1>2. ASSUME NEW p \in Procs, Start(p) PROVE UNCHANGED Ownership!vars
  BY <1>2, OwnershipStutter DEF Start, CreateBegin, RunBegin, InPlaceBegin, ResumeBegin,
     NestedResumeBegin, ExecBegin, PlainBegin, CleanupBegin, IntegrateBegin
<1>3. ASSUME NEW p \in Procs, End(p), UNCHANGED tree PROVE Ownership!Next
  BY <1>3, EndReleases DEF Ownership!Next
<1>4. ASSUME NEW p \in Procs, MakeTree(p) PROVE Ownership!Next
  <2>1. Task(p) \in Tasks
    BY <1>4 DEF MakeTree, At, LockInv, JobInv
  <2>2. made[Task(p)] + 1 # 0
    BY <2>1 DEF Incarnations
  <2>3. \E t \in Tasks : Ownership!Make(t)
    BY <1>4, <2>1, <2>2 DEF MakeTree, Ownership!Make
  <2> QED
    BY <2>3 DEF Ownership!Next
<1>5. ASSUME NEW p \in Procs, TaskLock(p) PROVE Ownership!Next
  <2>1. Task(p) \in Tasks
    BY <1>5 DEF TaskLock, At, LockInv, JobInv
  <2>2. Ownership!Acquire(p, Task(p))
    BY <1>5 DEF TaskLock, Ownership!Acquire
  <2> QED
    BY <2>1, <2>2 DEF Ownership!Next
<1>6. ASSUME NEW p \in Procs, RemoveTree(p) PROVE Ownership!Next
  <2>1. Task(p) \in Tasks /\ lock[Task(p)] = p
    BY <1>6 DEF RemoveTree, At, LockInv, JobInv, TaskLockInv, TaskSection
  <2>2. tree[Task(p)] # 0
    BY <1>6 DEF RemoveTree, At, LockedReadHolds
  <2>3. \E t \in Tasks : Ownership!Destroy(p, t)
    BY <1>6, <2>1, <2>2 DEF RemoveTree, Ownership!Destroy
  <2> QED
    BY <2>3 DEF Ownership!Next
<1>7. ASSUME NEW p \in Procs, IntegrateRemove(p) PROVE Ownership!Next
  <2>1. \A t \in Tasks : lock[t] = p <=> t = Task(p)
    BY <1>7 DEF IntegrateRemove, At, LockInv, JobInv, TaskLockInv, TaskSection
  <2>2. Ownership!Release(p)
    BY <1>7, <2>1 DEF IntegrateRemove, Ownership!Release
  <2> QED
    BY <2>2 DEF Ownership!Next
<1>8. ASSUME NEW p \in Procs, MakeLock(p) \/ RunPrepare(p) \/ RunLaunch(p) \/ ExecOverlay(p)
                 \/ ExecPlain(p) \/ CheckpointBegin(p) \/ IntegrateWork(p) \/ RemoveGet(p)
                 \/ RemoveLock(p) \/ RemoveMeta(p)
      PROVE UNCHANGED Ownership!vars
  BY <1>8, OwnershipStutter DEF MakeLock, RunPrepare, RunLaunch, ExecOverlay, ExecPlain,
     CheckpointBegin, IntegrateWork, RemoveGet, RemoveLock, RemoveMeta
<1>9. ASSUME NEW p \in Procs, MakeMeta(p) PROVE [Ownership!Next]_(Ownership!vars)
  <2>1. CASE End(p)
    BY <1>3, <1>9, <2>1 DEF MakeMeta
  <2>2. CASE ~End(p)
    BY <1>9, <2>2, OwnershipStutter DEF MakeMeta
  <2> QED
    BY <2>1, <2>2
<1>10. ASSUME NEW p \in Procs, MakeFail(p) \/ TaskBusy(p) \/ RunEnd(p) \/ RunFail(p)
                 \/ ExecFail(p) \/ ExecEnd(p) \/ WorkEnd(p) \/ RemovePriv(p) \/ RemoveFail(p)
                 \/ Crash(p)
       PROVE Ownership!Next
  BY <1>3, <1>10 DEF MakeFail, TaskBusy, RunEnd, RunFail, ExecFail, ExecEnd, WorkEnd,
     RemovePriv, RemoveFail, Crash
<1> QED
  BY <1>1, <1>2, <1>4, <1>5, <1>6, <1>7, <1>8, <1>9, <1>10 DEF Next, Step

\* The kernel file locks and `git worktree`, as AOP uses them, implement
\* exclusive ownership of tasks: TaskOwnership describes every behaviour.
THEOREM ImplementsOwnership == Spec => OwnershipSpec
<1>1. Init => Ownership!Init
  BY DEF Init, Ownership!Init
<1>2. IInv /\ LockedReadHolds /\ [Next]_vars => [Ownership!Next]_(Ownership!vars)
  BY OwnershipNext
<1> QED
  BY <1>1, <1>2, Invariance, LockedReads, PTL DEF Spec, OwnershipSpec, Ownership!Spec

-----------------------------------------------------------------------------
(* Resumes that inherit AOP_TASK_LOCK_HELD. *)

\* Nobody else's step takes a held task lock away.
LEMMA HeldStays ==
  ASSUME IInv, NEW p \in Procs, Start(p) \/ Step(p) \/ Crash(p),
         NEW t \in Tasks, NEW x \in Procs, x # p, lock[t] = x
  PROVE  lock'[t] = x
<1> USE DEF IInv, TypeOK, locks
<1>0. x # NoProc
  BY TaskAssumption
<1>1. CASE Start(p)
  BY <1>1 DEF Start, CreateBegin, RunBegin, InPlaceBegin, ResumeBegin,
     NestedResumeBegin, ExecBegin, PlainBegin, CleanupBegin, IntegrateBegin
<1>2. CASE End(p)
  BY <1>2 DEF End, Freed
<1>3. CASE TaskLock(p)
  BY <1>0, <1>3 DEF TaskLock
<1>4. CASE IntegrateRemove(p)
  <2>1. Task(p) \in Tasks /\ lock[Task(p)] = p
    BY <1>4 DEF IntegrateRemove, At, LockInv, JobInv, TaskLockInv, TaskSection
  <2> QED
    BY <1>4, <2>1 DEF IntegrateRemove
<1>5. CASE (Step(p) \/ Crash(p)) /\ ~TaskLock(p) /\ ~IntegrateRemove(p)
  BY <1>2, <1>5 DEF Step, Crash, MakeLock, MakeFail, MakeTree, MakeMeta, TaskBusy,
     RunPrepare, RunLaunch, RunEnd, RunFail, ExecOverlay, ExecPlain, ExecFail, ExecEnd,
     CheckpointBegin, IntegrateWork, WorkEnd, RemoveGet, RemoveLock,
     RemoveTree, RemoveMeta, RemovePriv, RemoveFail
<1> QED
  BY <1>1, <1>3, <1>4, <1>5

\* A process inside the command of `aop exec` only ends, and not before the
\* resumes that inherited its lock.
LEMMA CommandStays ==
  ASSUME ~Detached, IInv, NEW p \in Procs, Start(p) \/ Step(p) \/ Crash(p), pc[p] = "command"
  PROVE  NestedIn(Task(p)) = {}
<1>1. ~Start(p)
  BY DEF Start, Begin, CreateBegin, RunBegin, InPlaceBegin, ResumeBegin,
     NestedResumeBegin, ExecBegin, PlainBegin, CleanupBegin, IntegrateBegin, At
<1>2. Step(p) => ExecEnd(p)
  BY DEF Step, At, MakeLock, MakeFail, MakeTree, MakeMeta, TaskLock, TaskBusy,
     RunPrepare, RunLaunch, RunEnd, RunFail, ExecOverlay, ExecPlain, ExecFail,
     CheckpointBegin, IntegrateWork, WorkEnd, IntegrateRemove, RemoveGet, RemoveLock,
     RemoveTree, RemoveMeta, RemovePriv, RemoveFail
<1> QED
  BY <1>1, <1>2 DEF ExecEnd, Crash, At

\* A process that is nested after its own step began inside a command, or was
\* nested in the same task before.
LEMMA NestedBegins ==
  ASSUME IInv, NEW p \in Procs, Start(p) \/ Step(p) \/ Crash(p), job'[p].nested
  PROVE  \/ job[p].nested /\ Task(p)' = Task(p)
         \/ Task(p)' \in Tasks /\ \E x \in Procs \ {p} : pc[x] = "command" /\ Task(x) = Task(p)'
<1> USE DEF IInv, TypeOK, Task, Goto, At
<1>1. CASE End(p)
  BY <1>1 DEF End, NoJob
<1>2. CASE Start(p)
  <2> PICK t \in Tasks :
        \/ CreateBegin(p, t) \/ RunBegin(p, t) \/ InPlaceBegin(p, t)
        \/ ResumeBegin(p, t) \/ NestedResumeBegin(p, t) \/ ExecBegin(p, t)
        \/ PlainBegin(p, t) \/ CleanupBegin(p, t) \/ IntegrateBegin(p, t)
    BY <1>2 DEF Start
  <2>1. CASE NestedResumeBegin(p, t)
    BY <2>1 DEF NestedResumeBegin
  <2>2. ASSUME NEW c, NEW s, NEW point, Begin(p, c, t, point, s) PROVE FALSE
    BY <2>2 DEF Begin
  <2>3. CASE InPlaceBegin(p, t)
    BY <2>3 DEF InPlaceBegin, NoJob
  <2> QED
    BY <2>1, <2>2, <2>3 DEF CreateBegin, RunBegin, ResumeBegin, ExecBegin, PlainBegin,
       CleanupBegin, IntegrateBegin
<1>3. CASE MakeTree(p)
  BY <1>3 DEF MakeTree, Jobs
<1>4. CASE IntegrateWork(p)
  BY <1>4 DEF IntegrateWork, Jobs
<1>5. CASE IntegrateRemove(p)
  BY <1>5 DEF IntegrateRemove, NoJob
<1>6. CASE (Step(p) \/ Crash(p)) /\ ~MakeTree(p) /\ ~IntegrateWork(p) /\ ~IntegrateRemove(p)
  BY <1>1, <1>6 DEF Step, Crash, MakeLock, MakeFail, MakeMeta, TaskLock, TaskBusy,
     RunPrepare, RunLaunch, RunEnd, RunFail, ExecOverlay, ExecPlain, ExecFail, ExecEnd,
     CheckpointBegin, WorkEnd, RemoveGet, RemoveLock,
     RemoveTree, RemoveMeta, RemovePriv, RemoveFail
<1> QED
  BY <1>2, <1>3, <1>4, <1>5, <1>6

LEMMA NestedNext ==
  ASSUME ~Detached, IInv, NestedInsideExec, [Next]_vars
  PROVE  NestedInsideExec'
<1> SUFFICES ASSUME NEW q \in Procs, job'[q].nested
             PROVE  \E x \in Procs : pc'[x] = "command" /\ lock'[Task(q)'] = x
  BY DEF NestedInsideExec, At
<1>1. CASE UNCHANGED vars
  BY <1>1 DEF vars, NestedInsideExec, At, Task
<1>2. ASSUME NEW p \in Procs, Start(p) \/ Step(p) \/ Crash(p)
      PROVE  \E x \in Procs : pc'[x] = "command" /\ lock'[Task(q)'] = x
  <2>1. \/ job[q].nested /\ Task(q)' = Task(q)
        \/ q = p /\ Task(q)' \in Tasks
           /\ \E x \in Procs \ {p} : pc[x] = "command" /\ Task(x) = Task(q)'
    BY <1>2, NestedBegins, OthersStay DEF IInv, Task
  <2>2. Task(q)' \in Tasks
    BY <2>1 DEF IInv, LockInv, JobInv
  <2>3. PICK x \in Procs : x # q /\ pc[x] = "command" /\ lock[Task(q)'] = x /\ Task(x) = Task(q)'
    <3>1. CASE job[q].nested /\ Task(q)' = Task(q)
      BY <2>2, <3>1 DEF NestedInsideExec, At, IInv, LockInv, JobInv, TaskLockInv
    <3>2. CASE \E x \in Procs \ {p} : q = p /\ pc[x] = "command" /\ Task(x) = Task(q)'
      BY <3>2 DEF IInv, LockInv, JobInv, TaskLockInv, TaskSection
    <3> QED
      BY <2>1, <3>1, <3>2
  <2>4. x # p
    <3>1. CASE q = p
      BY <2>3, <3>1
    <3>2. CASE q # p
      <4>1. q \in NestedIn(Task(x))
        BY <2>1, <2>3, <3>2 DEF NestedIn
      <4> QED
        BY <1>2, <2>3, <4>1, CommandStays
    <3> QED
      BY <3>1, <3>2
  <2>5. pc'[x] = "command"
    BY <1>2, <2>3, <2>4, OthersStay DEF IInv
  <2>6. lock'[Task(q)'] = x
    BY <1>2, <2>2, <2>3, <2>4, HeldStays
  <2> QED
    BY <2>5, <2>6
<1> QED
  BY <1>1, <1>2 DEF Next

\* When what `aop exec` starts ends before the command does, a resume that did
\* not take the task lock always runs inside a command that holds it
\* (worktrees.py run, runner.py resume).
THEOREM NestedResumes == ASSUME ~Detached PROVE Spec => []NestedInsideExec
<1>1. Init => NestedInsideExec
  BY DEF Init, NestedInsideExec, NoJob
<1>2. IInv /\ NestedInsideExec /\ [Next]_vars => NestedInsideExec'
  BY NestedNext
<1> QED
  BY <1>1, <1>2, Invariance, PTL DEF Spec

-----------------------------------------------------------------------------
(* The metadata.  Between the two writes that make or remove a worktree and
   its metadata their process holds worktrees.lock; one crash in between leaves
   one of the two without the other, and never two that disagree. *)

\* A process is between making t's worktree and its metadata, or removing them.
MakingMeta(t) == \E p \in Procs : pc[p] = "meta" /\ Task(p) = t
RemovingMeta(t) == \E p \in Procs : pc[p] = "remove_meta" /\ Task(p) = t

MetaInv ==
  /\ \A p \in Procs :
       /\ pc[p] = "meta" => tree[Task(p)] = job[p].seen
       /\ pc[p] \in {"remove_meta", "remove_priv"} => tree[Task(p)] = 0
  /\ crashes = 0 => \A t \in Tasks :
       \/ meta[t] = tree[t]
       \/ meta[t] = 0 /\ MakingMeta(t)
       \/ tree[t] = 0 /\ RemovingMeta(t)
  /\ crashes = 1 => \A t \in Tasks : Recorded(t) => meta[t] = tree[t] \/ MakingMeta(t)

\* The steps that write a worktree or its metadata, and the rest.
LEMMA WorktreeSteps ==
  ASSUME IInv, NEW p \in Procs, Start(p) \/ Step(p) \/ Crash(p)
  PROVE  \/ MakeTree(p) \/ MakeMeta(p) \/ RemoveTree(p) \/ RemoveMeta(p) \/ Crash(p)
         \/ /\ UNCHANGED <<tree, meta, made, crashes>>
            /\ pc[p] \notin {"meta", "remove_meta"}
            /\ pc'[p] \notin {"meta", "remove_meta", "remove_priv"}
<1> USE DEF IInv, TypeOK, Goto, At, files, locks
<1>1. CASE Start(p)
  BY ZenonT(40), <1>1 DEF Start, Begin, CreateBegin, RunBegin, InPlaceBegin, ResumeBegin,
     NestedResumeBegin, ExecBegin, PlainBegin, CleanupBegin, IntegrateBegin
<1>2. End(p) => pc'[p] = "idle"
  BY DEF End
<1>3. CASE TaskLock(p)
  <2>1. \A e \in Entry : e[2] \notin {"meta", "remove_meta", "remove_priv"}
    BY DEF Entry
  <2> QED
    BY <1>3, <2>1 DEF TaskLock
<1>4. CASE Step(p) /\ ~TaskLock(p)
  BY <1>2, <1>4 DEF Step, MakeLock, MakeFail, TaskBusy, RunPrepare, RunLaunch, RunEnd, RunFail,
     ExecOverlay, ExecPlain, ExecFail, ExecEnd, CheckpointBegin, IntegrateWork, WorkEnd,
     IntegrateRemove, RemoveGet, RemoveLock, RemovePriv, RemoveFail
<1> QED
  BY <1>1, <1>3, <1>4

\* Only one process is at the points that worktrees.lock covers.
LEMMA OneInSection ==
  ASSUME IInv, NEW p \in Procs, NEW q \in Procs,
         pc[p] \in WorktreeSection, pc[q] \in WorktreeSection
  PROVE  p = q
BY DEF IInv, LockInv, WorktreeLockInv

LEMMA MetaNext == IInv /\ MetaInv /\ [Next]_vars => MetaInv'
<1> SUFFICES ASSUME IInv, MetaInv, [Next]_vars PROVE MetaInv'
  OBVIOUS
<1> USE DEF IInv, TypeOK, At, Goto
<1>1. CASE UNCHANGED vars
  BY <1>1 DEF vars, MetaInv, Task, Recorded, MakingMeta, RemovingMeta
<1>2. ASSUME NEW p \in Procs, Start(p) \/ Step(p) \/ Crash(p) PROVE MetaInv'
  <2>1. \A q \in Procs \ {p} : pc'[q] = pc[q] /\ job'[q] = job[q]
    BY <1>2, OthersStay
  <2>2. pc[p] # "idle" => Task(p) \in Tasks
    BY DEF LockInv, JobInv
  <2>3. ASSUME pc[p] \in WorktreeSection
        PROVE  \A q \in Procs \ {p} :
                 pc[q] \notin {"meta", "remove_meta", "remove_priv"}
    BY <2>3, OneInSection DEF WorktreeSection
  <2>4. CASE /\ UNCHANGED <<tree, meta, made, crashes>>
             /\ pc[p] \notin {"meta", "remove_meta"}
             /\ pc'[p] \notin {"meta", "remove_meta", "remove_priv"}
    <3>1. \A t \in Tasks : MakingMeta(t) => MakingMeta(t)'
      BY <2>1, <2>4 DEF MakingMeta, Task
    <3>2. \A t \in Tasks : RemovingMeta(t) => RemovingMeta(t)'
      BY <2>1, <2>4 DEF RemovingMeta, Task
    <3> QED
      BY <2>1, <2>4, <3>1, <3>2 DEF MetaInv, Task, Recorded
  <2>5. CASE MakeTree(p)
    <3>1. pc[p] = "check" /\ pc'[p] = "meta" /\ Task(p)' = Task(p) /\ Task(p) \in Tasks
      BY <2>2, <2>5 DEF MakeTree, Task, Jobs
    <3>2. \A q \in Procs \ {p} : pc'[q] \notin {"meta", "remove_meta", "remove_priv"}
      BY <2>1, <2>3, <3>1 DEF WorktreeSection
    <3>3. /\ tree' = [tree EXCEPT ![Task(p)] = made[Task(p)] + 1]
          /\ job'[p].seen = made[Task(p)] + 1
          /\ tree[Task(p)] = 0
          /\ UNCHANGED <<meta, crashes>>
      BY <2>5 DEF MakeTree, Jobs
    <3>5. \A t \in Tasks : ~MakingMeta(t) /\ ~RemovingMeta(t)
      BY <2>3, <3>1 DEF MakingMeta, RemovingMeta, WorktreeSection
    <3>6. crashes = 0 => \A t \in Tasks : meta[t] = tree[t]
      BY <3>5 DEF MetaInv
    <3>7. \A t \in Tasks : t # Task(p) => tree'[t] = tree[t]
      BY <3>3
    <3>8. crashes = 0 => meta'[Task(p)] = 0
      BY <3>1, <3>3, <3>6
    <3>9. \A q \in Procs : /\ pc'[q] = "meta" => tree'[Task(q)'] = job'[q].seen
                           /\ pc'[q] \notin {"remove_meta", "remove_priv"}
      BY <3>1, <3>2, <3>3
    <3> QED
      <4>1. crashes' = 0 => \A t \in Tasks : meta'[t] = tree'[t] \/ (meta'[t] = 0 /\ MakingMeta(t)')
        BY <3>1, <3>3, <3>6, <3>7, <3>8 DEF MakingMeta
      <4>2. crashes = 1 => \A t \in Tasks : Recorded(t) => meta[t] = tree[t]
        BY <3>5 DEF MetaInv
      <4>3. crashes' = 1 => \A t \in Tasks : Recorded(t)' => meta'[t] = tree'[t] \/ MakingMeta(t)'
        BY <3>1, <3>3, <3>7, <4>2 DEF MakingMeta, Recorded
      <4> QED
        BY <3>9, <4>1, <4>3 DEF MetaInv, MakingMeta, RemovingMeta
  <2>6. CASE MakeMeta(p)
    <3>1. pc[p] = "meta" /\ pc'[p] \notin {"meta", "remove_meta", "remove_priv"} /\ Task(p) \in Tasks
      BY <2>2, <2>6 DEF MakeMeta, End
    <3>2. \A q \in Procs : pc'[q] \notin {"meta", "remove_meta", "remove_priv"}
      BY <2>1, <2>3, <3>1 DEF WorktreeSection
    <3>3. /\ meta' = [meta EXCEPT ![Task(p)] = tree[Task(p)]]
          /\ UNCHANGED <<tree, crashes>>
      BY <2>6 DEF MakeMeta, MetaInv
    <3>4. \A t \in Tasks : t # Task(p) => ~MakingMeta(t) /\ ~RemovingMeta(t)
      BY <2>3, <3>1 DEF MakingMeta, RemovingMeta, WorktreeSection
    <3> QED
      BY <3>1, <3>2, <3>3, <3>4 DEF MetaInv, Recorded
  <2>7. CASE RemoveTree(p)
    <3>1. /\ pc[p] = "remove_tree" /\ pc'[p] = "remove_meta" /\ job' = job
          /\ Task(p)' = Task(p) /\ Task(p) \in Tasks
      BY <2>2, <2>7 DEF RemoveTree, Task
    <3>2. \A q \in Procs \ {p} : pc'[q] \notin {"meta", "remove_meta", "remove_priv"}
      BY <2>1, <2>3, <3>1 DEF WorktreeSection
    <3>3. tree' = [tree EXCEPT ![Task(p)] = 0] /\ UNCHANGED <<meta, crashes>>
      BY <2>7 DEF RemoveTree
    <3>5. \A t \in Tasks : ~MakingMeta(t) /\ ~RemovingMeta(t)
      BY <2>3, <3>1 DEF MakingMeta, RemovingMeta, WorktreeSection
    <3>6. tree'[Task(p)] = 0 /\ \A t \in Tasks : t # Task(p) => tree'[t] = tree[t]
      BY <3>1, <3>3
    <3>7. \A q \in Procs : /\ pc'[q] # "meta"
                           /\ pc'[q] \in {"remove_meta", "remove_priv"} => tree'[Task(q)'] = 0
      BY <3>1, <3>2, <3>6
    <3> QED
      <4>1. crashes = 0 => \A t \in Tasks : meta[t] = tree[t]
        BY <3>5 DEF MetaInv
      <4>2. crashes' = 0 => \A t \in Tasks : meta'[t] = tree'[t] \/ (tree'[t] = 0 /\ RemovingMeta(t)')
        BY <3>1, <3>3, <3>6, <4>1 DEF RemovingMeta
      <4>3. crashes = 1 => \A t \in Tasks : Recorded(t) => meta[t] = tree[t]
        BY <3>5 DEF MetaInv
      <4>4. crashes' = 1 => \A t \in Tasks : Recorded(t)' => meta'[t] = tree'[t]
        BY <3>3, <3>6, <4>3 DEF Recorded
      <4> QED
        BY <3>7, <4>2, <4>4 DEF MetaInv, MakingMeta, RemovingMeta
  <2>8. CASE RemoveMeta(p)
    <3>1. /\ pc[p] = "remove_meta" /\ pc'[p] = "remove_priv" /\ job' = job
          /\ Task(p)' = Task(p) /\ Task(p) \in Tasks
      BY <2>2, <2>8 DEF RemoveMeta, Task
    <3>2. \A q \in Procs \ {p} : pc'[q] \notin {"meta", "remove_meta", "remove_priv"}
      BY <2>1, <2>3, <3>1 DEF WorktreeSection
    <3>3. meta' = [meta EXCEPT ![Task(p)] = 0] /\ UNCHANGED <<tree, crashes>>
      BY <2>8 DEF RemoveMeta
    <3>4. \A t \in Tasks : t # Task(p) => ~MakingMeta(t) /\ ~RemovingMeta(t)
      BY <2>3, <3>1 DEF MakingMeta, RemovingMeta, WorktreeSection
    <3>5. tree[Task(p)] = 0
      BY <3>1 DEF MetaInv
    <3>6. \A t \in Tasks : ~MakingMeta(t)
      BY <2>3, <3>1 DEF MakingMeta, WorktreeSection
    <3>7. \A q \in Procs : /\ pc'[q] # "meta"
                           /\ pc'[q] \in {"remove_meta", "remove_priv"} => tree'[Task(q)'] = 0
      BY <3>1, <3>2, <3>3, <3>5
    <3>8. \A t \in Tasks : \/ t = Task(p) /\ meta'[t] = 0 /\ tree'[t] = 0
                           \/ t # Task(p) /\ meta'[t] = meta[t] /\ tree'[t] = tree[t]
      BY <3>1, <3>3, <3>5
    <3> QED
      BY <3>3, <3>4, <3>6, <3>7, <3>8 DEF MetaInv, Recorded
  <2>9. CASE Crash(p)
    <3>1. /\ UNCHANGED <<tree, meta>> /\ crashes' = crashes + 1
          /\ pc'[p] = "idle" /\ pc[p] # "idle"
      BY <2>9 DEF Crash, End, files
    <3>2. \A q \in Procs : /\ pc'[q] = "meta" => tree'[Task(q)'] = job'[q].seen
                           /\ pc'[q] \in {"remove_meta", "remove_priv"} => tree'[Task(q)'] = 0
      BY <2>1, <3>1 DEF MetaInv, Task
    <3>3. crashes' = 1 => \A t \in Tasks : Recorded(t)' => meta'[t] = tree'[t]
      BY <3>1 DEF MetaInv, Recorded
    <3>4. crashes' # 0
      BY <3>1
    <3> QED
      BY <3>2, <3>3, <3>4 DEF MetaInv
  <2> QED
    BY <1>2, <2>4, <2>5, <2>6, <2>7, <2>8, <2>9, WorktreeSteps
<1> QED
  BY <1>1, <1>2 DEF Next

\* The metadata describes the worktree that exists, and after one crash it is
\* never another worktree's (worktrees.py create and remove).
THEOREM MetadataIsSound == Spec => []MetadataSound
<1>1. Init => MetaInv
  BY TaskAssumption DEF Init, MetaInv
<1>2. IInv /\ MetaInv => MetadataSound
  <2> SUFFICES ASSUME IInv, MetaInv, wlock = NoProc, NEW t \in Tasks
               PROVE  ~MakingMeta(t) /\ ~RemovingMeta(t)
    BY DEF MetaInv, MetadataSound
  <2> QED
    BY TaskAssumption DEF IInv, LockInv, WorktreeLockInv, WorktreeSection, MakingMeta, RemovingMeta
<1> QED
  BY <1>1, <1>2, MetaNext, Invariance, PTL DEF Spec

-----------------------------------------------------------------------------
(* Resumability.  A worktree newly made is no recorded session's, a session is
   recorded together with the private state it needs, and that state goes only
   once the worktree has gone.  Cleaning up a --workdir run is the exception:
   it empties the task's directories whatever worktree the task has. *)
ResumeInv ==
  /\ \A t \in Tasks : tree[t] <= made[t] /\ \A s \in sessions[t] : s <= made[t]
  /\ \A p \in Procs : pc[p] # "idle" => job[p].seen <= made[Task(p)]
  /\ \A p \in Procs : job[p].cmd # "cleanup_inplace" /\ pc[p] # "wipe"
  /\ Resumable

\* What a step may do to the files when nothing is removed: private state only
\* grows, and a session is recorded with the state it needs.
Keeps(p) ==
  /\ UNCHANGED <<tree, made>>
  /\ \A t \in Tasks : priv[t] \subseteq priv'[t]
  /\ \/ UNCHANGED sessions
     \/ /\ pc[p] # "idle"
        /\ sessions' = [sessions EXCEPT ![Task(p)] = @ \union {Home(p)}]
        /\ Home(p) \in priv'[Task(p)]

LEMMA ResumeSteps ==
  ASSUME "cleanup_inplace" \notin Commands, IInv, ResumeInv,
         NEW p \in Procs, Start(p) \/ Step(p) \/ Crash(p)
  PROVE  \/ MakeTree(p) \/ RemoveTree(p) \/ (RemovePriv(p) /\ pc[p] = "remove_priv")
         \/ /\ Keeps(p)
            /\ \/ pc'[p] = "idle" /\ job'[p] = NoJob
               \/ /\ job'[p].cmd # "cleanup_inplace" /\ pc'[p] # "wipe"
                  /\ job'[p].task \in Tasks
                  /\ \/ job'[p].seen \in {0, tree[job'[p].task]}
                     \/ job'[p] = job[p] /\ pc[p] # "idle"
<1> USE DEF IInv, TypeOK, Goto, At, files, locks, Task
<1>1. pc[p] # "idle" => Task(p) \in Tasks
  BY DEF LockInv, JobInv
<1>2. End(p) => pc'[p] = "idle" /\ job'[p] = NoJob
  BY DEF End
<1>3. CASE Start(p)
  <2>1. PICK t \in Tasks :
          /\ UNCHANGED files
          /\ \/ IntegrateBegin(p, t)
             \/ CreateBegin(p, t) \/ RunBegin(p, t) \/ InPlaceBegin(p, t) \/ ResumeBegin(p, t)
             \/ NestedResumeBegin(p, t) \/ ExecBegin(p, t) \/ PlainBegin(p, t) \/ CleanupBegin(p, t)
    BY <1>3 DEF Start, CreateBegin, RunBegin, InPlaceBegin, ResumeBegin, NestedResumeBegin,
       ExecBegin, PlainBegin, CleanupBegin, IntegrateBegin
  <2> DEFINE Started == /\ pc'[p] # "wipe" /\ job'[p].cmd # "cleanup_inplace"
                        /\ job'[p].task = t /\ job'[p].seen \in {0, tree[t]}
  <2>2. ASSUME CreateBegin(p, t) \/ RunBegin(p, t) \/ ExecBegin(p, t) \/ CleanupBegin(p, t) PROVE Started
    BY <2>2 DEF CreateBegin, RunBegin, ExecBegin, CleanupBegin, Begin
  <2>3. ASSUME InPlaceBegin(p, t) PROVE Started
    BY <2>3 DEF InPlaceBegin, NoJob
  <2>4. ASSUME ResumeBegin(p, t) \/ NestedResumeBegin(p, t) PROVE Started
    BY <2>4 DEF ResumeBegin, NestedResumeBegin, Begin
  <2>5. ASSUME PlainBegin(p, t) PROVE Started
    BY <2>5 DEF PlainBegin, Begin
  <2>6. ASSUME IntegrateBegin(p, t) PROVE Started
    BY <2>6 DEF IntegrateBegin, Begin, Integrating
  <2>7. Started
    BY <2>1, <2>2, <2>3, <2>4, <2>5, <2>6
  <2> QED
    BY <2>1, <2>7 DEF Keeps
<1>4. CASE TaskLock(p)
  <2>1. PICK e \in Entry : job[p].cmd = e[1] /\ pc' = [pc EXCEPT ![p] = e[2]]
    BY <1>4 DEF TaskLock
  <2>2. e[2] # "wipe"
    BY <2>1 DEF Entry, ResumeInv
  <2> QED
    BY <1>1, <1>4, <2>1, <2>2 DEF TaskLock, Keeps, ResumeInv
<1>5. CASE RunEnd(p)
  BY <1>1, <1>2, <1>5 DEF RunEnd, Keeps
<1>6. CASE IntegrateRemove(p)
  BY <1>1, <1>6 DEF IntegrateRemove, Keeps, NoJob
<1>11. CASE IntegrateWork(p)
  <2>1. /\ job'[p].cmd = job[p].cmd /\ job'[p].task = job[p].task
        /\ job'[p].seen = tree[job[p].task] /\ pc'[p] = "work" /\ job[p].task \in Tasks
    BY <1>1, <1>11 DEF IntegrateWork, Jobs
  <2>2. Keeps(p)
    BY <1>1, <1>11 DEF IntegrateWork, Keeps
  <2> QED
    BY <2>1, <2>2 DEF ResumeInv
<1>7. CASE MakeFail(p) \/ TaskBusy(p) \/ RunFail(p) \/ ExecFail(p) \/ ExecEnd(p) \/ WorkEnd(p)
           \/ RemoveFail(p) \/ Crash(p)
  BY <1>2, <1>7 DEF MakeFail, TaskBusy, RunFail, ExecFail, ExecEnd, WorkEnd, RemoveFail, Crash, Keeps
<1>8. CASE MakeLock(p) \/ RunPrepare(p) \/ RunLaunch(p) \/ ExecOverlay(p) \/ ExecPlain(p)
           \/ CheckpointBegin(p) \/ RemoveGet(p) \/ RemoveLock(p) \/ RemoveMeta(p)
  <2>1. /\ job' = job /\ pc[p] # "idle" /\ pc'[p] # "wipe"
    BY <1>8 DEF MakeLock, RunPrepare, RunLaunch, ExecOverlay, ExecPlain, CheckpointBegin,
       RemoveGet, RemoveLock, RemoveMeta
  <2>2. Keeps(p)
    BY <1>1, <1>8 DEF MakeLock, RunPrepare, RunLaunch, ExecOverlay, ExecPlain, CheckpointBegin,
       RemoveGet, RemoveLock, RemoveMeta, Keeps
  <2> QED
    BY <1>1, <2>1, <2>2 DEF ResumeInv
<1>9. CASE MakeMeta(p)
  BY <1>1, <1>2, <1>9 DEF MakeMeta, Keeps, ResumeInv
<1>10. CASE RemovePriv(p)
  BY <1>10 DEF RemovePriv, ResumeInv
<1> QED
  BY <1>3, <1>4, <1>5, <1>6, <1>7, <1>8, <1>9, <1>10, <1>11 DEF Step

LEMMA ResumeNext ==
  ASSUME "cleanup_inplace" \notin Commands
  PROVE  IInv /\ MetaInv /\ ResumeInv /\ [Next]_vars => ResumeInv'
<1> SUFFICES ASSUME IInv, MetaInv, ResumeInv, [Next]_vars PROVE ResumeInv'
  OBVIOUS
<1> USE TaskAssumption DEF IInv, TypeOK, Incarnations
<1>1. CASE UNCHANGED vars
  BY <1>1 DEF vars, files, ResumeInv, Resumable, Task
<1>2. ASSUME NEW p \in Procs, Start(p) \/ Step(p) \/ Crash(p) PROVE ResumeInv'
  <2>1. \A q \in Procs \ {p} : pc'[q] = pc[q] /\ job'[q] = job[q]
    BY <1>2, OthersStay
  <2>2. \A q \in Procs : pc[q] # "idle" => job[q].task \in Tasks
    BY DEF LockInv, JobInv, Task
  <2>3. CASE MakeTree(p)
    <3>1. /\ pc[p] = "check" /\ pc'[p] = "meta" /\ job[p].task \in Tasks
          /\ made' = [made EXCEPT ![job[p].task] = made[job[p].task] + 1]
          /\ tree' = [tree EXCEPT ![job[p].task] = made[job[p].task] + 1]
          /\ job' = [job EXCEPT ![p].seen = made[job[p].task] + 1]
          /\ UNCHANGED <<sessions, priv>>
      BY <2>2, <2>3 DEF MakeTree, Task, At, Goto
    <3>2. /\ job'[p].task = job[p].task /\ job'[p].cmd = job[p].cmd
          /\ job'[p].seen = made[job[p].task] + 1
      BY <3>1 DEF Jobs
    <3>3. \A t \in Tasks : made[t] \in Nat /\ made[t] <= made'[t]
      BY <3>1
    <3>4. \A t \in Tasks : tree'[t] <= made'[t] /\ \A s \in sessions'[t] : s <= made'[t]
      BY <3>1, <3>3 DEF ResumeInv
    <3>5. \A q \in Procs : pc'[q] # "idle" => job'[q].seen <= made'[job'[q].task]
      <4>1. \A q \in Procs \ {p} : pc[q] # "idle" => job[q].seen <= made[job[q].task]
        BY DEF ResumeInv, Task
      <4>2. \A q \in Procs : job[q].seen \in Nat
        BY DEF Jobs
      <4>3. \A q \in Procs \ {p} : pc[q] # "idle" => job[q].seen <= made'[job[q].task]
        BY <2>2, <3>3, <3>1, <4>1, <4>2
      <4>4. job'[p].seen <= made'[job'[p].task]
        BY <3>1, <3>2, <3>3
      <4> QED
        BY <2>1, <4>3, <4>4
    <3>6. \A q \in Procs : job'[q].cmd # "cleanup_inplace" /\ pc'[q] # "wipe"
      BY <2>1, <3>1, <3>2 DEF ResumeInv
    <3>7. Resumable'
      <4>1. tree'[job[p].task] \notin sessions[job[p].task]
        BY <3>1, <3>3 DEF ResumeInv
      <4>2. \A t \in Tasks : t # job[p].task => tree'[t] = tree[t]
        BY <3>1
      <4> QED
        BY <3>1, <4>1, <4>2 DEF ResumeInv, Resumable
    <3> QED
      BY <3>4, <3>5, <3>6, <3>7 DEF ResumeInv, Task
  <2>4. CASE RemoveTree(p)
    <3>1. /\ pc[p] = "remove_tree" /\ pc'[p] = "remove_meta"
          /\ tree' = [tree EXCEPT ![job[p].task] = 0]
          /\ UNCHANGED <<job, sessions, priv, made>>
      BY <2>4 DEF RemoveTree, Task, At, Goto
    <3>2. \A t \in Tasks : tree'[t] \in {0, tree[t]}
      BY <3>1
    <3> QED
      BY <2>1, <3>1, <3>2 DEF ResumeInv, Resumable, Task
  <2>5. CASE RemovePriv(p) /\ pc[p] = "remove_priv"
    <3>1. /\ pc'[p] = "idle" /\ job'[p] = NoJob
          /\ priv' = [priv EXCEPT ![job[p].task] = {}]
          /\ UNCHANGED <<tree, sessions, made>>
      BY <2>5 DEF RemovePriv, End, Goto, Task
    <3>2. tree[job[p].task] = 0
      BY <2>5 DEF MetaInv, Task
    <3>3. \A q \in Procs : job'[q].cmd # "cleanup_inplace" /\ pc'[q] # "wipe"
      BY <2>1, <3>1 DEF ResumeInv, NoJob
    <3>4. \A q \in Procs : pc'[q] # "idle" => job'[q].seen <= made'[job'[q].task]
      BY <2>1, <3>1 DEF ResumeInv, Task
    <3>5. Resumable'
      BY <3>1, <3>2 DEF ResumeInv, Resumable
    <3> QED
      BY <3>1, <3>3, <3>4, <3>5 DEF ResumeInv, Task
  <2>6. CASE /\ Keeps(p)
             /\ \/ pc'[p] = "idle" /\ job'[p] = NoJob
                \/ /\ job'[p].cmd # "cleanup_inplace" /\ pc'[p] # "wipe"
                   /\ job'[p].task \in Tasks
                   /\ \/ job'[p].seen \in {0, tree[job'[p].task]}
                      \/ job'[p] = job[p] /\ pc[p] # "idle"
    <3>1. UNCHANGED <<tree, made>>
      BY <2>6 DEF Keeps
    <3>2. pc[p] # "idle" => Home(p) \in Nat /\ Home(p) <= made[job[p].task]
      BY <2>2 DEF Home, ResumeInv, Task, Jobs
    <3>3. \A t \in Tasks : \A s \in sessions'[t] :
             s \in sessions[t] \/ (pc[p] # "idle" /\ t = job[p].task /\ s = Home(p) /\ s \in priv'[t])
      BY <2>2, <2>6 DEF Keeps, Task
    <3>4. \A t \in Tasks : tree'[t] <= made'[t] /\ \A s \in sessions'[t] : s <= made'[t]
      BY <3>1, <3>2, <3>3 DEF ResumeInv
    <3>5. \A q \in Procs : job'[q].cmd # "cleanup_inplace" /\ pc'[q] # "wipe"
      BY <2>1, <2>6 DEF ResumeInv, NoJob
    <3>6. \A q \in Procs : pc'[q] # "idle" => job'[q].seen <= made'[job'[q].task]
      <4>1. \A t \in Tasks : made[t] \in Nat /\ 0 <= made[t] /\ tree[t] <= made[t]
        BY DEF ResumeInv
      <4> QED
        BY <2>1, <2>6, <3>1, <4>1 DEF ResumeInv, Task
    <3>7. Resumable'
      BY <2>6, <3>1, <3>3 DEF ResumeInv, Resumable, Keeps
    <3> QED
      BY <3>4, <3>5, <3>6, <3>7 DEF ResumeInv, Task
  <2> QED
    BY <1>2, <2>3, <2>4, <2>5, <2>6, ResumeSteps
<1> QED
  BY <1>1, <1>2 DEF Next

\* A task stays resumable until it is cleaned up, for commands other than the
\* cleanup of a --workdir run (worktrees.py remove_private_state, runner.py
\* resume).
THEOREM StaysResumable ==
  ASSUME "cleanup_inplace" \notin Commands
  PROVE  Spec => []Resumable
<1>1. Init => ResumeInv
  BY DEF Init, ResumeInv, Resumable, NoJob
<1>2. Init => MetaInv
  BY TaskAssumption DEF Init, MetaInv
<1>3. ResumeInv => Resumable
  BY DEF ResumeInv
<1> QED
  BY <1>1, <1>2, <1>3, MetaNext, ResumeNext, Invariance, PTL DEF Spec
=============================================================================
