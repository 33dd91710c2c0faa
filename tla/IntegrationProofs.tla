-------------------------- MODULE IntegrationProofs --------------------------
(***************************************************************************)
(* What TLAPS proves of Integration, for any tasks, branches and numbers   *)
(* of commits and kills, with or without conflicts where not said.         *)
(***************************************************************************)
EXTENDS Integration, SequenceTheorems, TLAPS

Hist == Seq(Entries)
States == {"clean", "dirty", "unmerged"}

\* A step of the integration is about a task, a conflict about a commit still to apply, and a
\* worktree with nothing in progress has nothing left to apply.
IInv ==
  /\ mains \in [Heads -> Hist]
  /\ cur \in Heads
  /\ alive \in [Tasks -> BOOLEAN]
  /\ head \in [Tasks -> Hist]
  /\ base \in [Tasks -> Hist]
  /\ todo \in [Tasks -> Hist]
  /\ rebasing \in [Tasks -> BOOLEAN]
  /\ state \in [Tasks -> States]
  /\ archive \subseteq Hist
  /\ pushed \in 0 .. MaxMain
  /\ work \in [Tasks -> 0 .. MaxWork]
  /\ run \in [at : Phases, task : Tasks \union {NoTask}, branch : Branches,
              prev : Hist, source : Hist]
  /\ ~At("idle") => run.task \in Tasks
  /\ At("conflict") => todo[run.task] # << >>
  /\ \A t \in Tasks : ~rebasing[t] => todo[t] = << >>
  /\ crashes \in 0 .. MaxCrashes

\* The change numbered n of task t was made in history h, whatever was reverted since.
Carries(h, t, n) ==
  \E i \in DOMAIN h : h[i].by = t /\ h[i].n = n /\ h[i].op # "revert"

Safe(t, n) ==
  \/ \E b \in Branches : Carries(mains[b], t, n)
  \/ \E h \in archive : Carries(h, t, n)
  \/ Carries(head[t], t, n)
  \/ Carries(todo[t], t, n)

\* Stronger than CommitsKept: that the reverting entry of a change is somewhere is not enough, as
\* a rebase drops a reverting entry of what is not there.
KeptInv == \A t \in Tasks : alive[t] => \A n \in 1 .. work[t] : Safe(t, n)

\* Nothing is left in the worktree of a task that has none, and no integration is about it.
GoneInv ==
  /\ \A t \in Tasks : ~alive[t] => head[t] = << >> /\ todo[t] = << >>
  /\ ~At("idle") => alive[run.task]

\* From place m + 1 on, history h has commits of task t only, in the order they were made.
Own(t, h, m, made) ==
  /\ \A i \in m + 1 .. Len(h) : h[i].by = t /\ h[i].op = "add" /\ h[i].n <= made
  /\ \A i, j \in m + 1 .. Len(h) : i < j => h[i].n < h[j].n

\* A rebase has put prev under commits of the task's own, and has later ones of them to come.
Rebased(t, prev) ==
  /\ IsPrefix(prev, head[t])
  /\ Own(t, head[t], Len(prev), work[t]) /\ Own(t, todo[t], 0, work[t])
  /\ \A i \in Len(prev) + 1 .. Len(head[t]), j \in 1 .. Len(todo[t]) :
       head[t][i].n < todo[t][j].n

\* Beyond its recorded base a task has only commits of its own, but while a rebase is in progress
\* or the base is yet to be updated after one.
Settled(t) == ~rebasing[t] /\ ~(At("rebased") /\ run.task = t)
TaskOwn(t) ==
  alive[t] => /\ IsPrefix(base[t], head[t])
              /\ Settled(t) => Own(t, head[t], Len(base[t]), work[t])

RunOwn ==
  /\ At("rebase") \/ At("conflict") => rebasing[run.task]
  /\ At("rebase") \/ At("conflict") \/ At("rebased") => Rebased(run.task, run.prev)
  /\ At("rebased") => ~rebasing[run.task]
  /\ At("validate") \/ At("check") \/ At("merge") \/ At("merged") =>
       base[run.task] = run.prev /\ ~rebasing[run.task]
  /\ ~At("idle") => alive[run.task] /\ IsPrefix(run.prev, mains[run.branch])
  /\ RebasesOwnCommits

OwnInv == (\A t \in Tasks : TaskOwn(t)) /\ RunOwn

-----------------------------------------------------------------------------
(* Histories *)

LEMMA PrefixElements ==
  ASSUME NEW h \in Hist, NEW k \in Hist, IsPrefix(h, k)
  PROVE  Len(h) <= Len(k) /\ \A i \in 1 .. Len(h) : k[i] = h[i]
<1>1. Len(h) \in Nat /\ Len(k) \in Nat /\ Len(h) <= Len(k)
  BY LenProperties DEF Hist, IsPrefix
<1>2. ASSUME NEW i \in 1 .. Len(h) PROVE k[i] = h[i]
  <2>1. SubSeq(h, 1, Len(h))[i] = h[i] /\ SubSeq(k, 1, Len(h))[i] = k[i]
    BY <1>1, <1>2 DEF Hist
  <2> QED
    BY <2>1 DEF IsPrefix
<1> QED
  BY <1>1, <1>2

LEMMA PrefixSelf ==
  ASSUME NEW h \in Hist
  PROVE  IsPrefix(h, h)
BY LenProperties DEF Hist, IsPrefix

LEMMA PrefixAppend ==
  ASSUME NEW h \in Hist, NEW e \in Entries
  PROVE  Append(h, e) \in Hist /\ IsPrefix(h, Append(h, e))
<1> DEFINE k == Append(h, e)
<1>1. Len(h) \in Nat /\ k \in Hist /\ Len(k) = Len(h) + 1
  BY AppendProperties, LenProperties DEF Hist
<1>2. SubSeq(h, 1, Len(h)) = SubSeq(k, 1, Len(h))
  BY <1>1 DEF Hist
<1> QED
  BY <1>1, <1>2 DEF IsPrefix

LEMMA PrefixCarries ==
  ASSUME NEW h \in Hist, NEW k \in Hist, IsPrefix(h, k), NEW t, NEW n, Carries(h, t, n)
  PROVE  Carries(k, t, n)
<1>1. Len(h) <= Len(k) /\ \A i \in 1 .. Len(h) : k[i] = h[i]
  BY PrefixElements
<1>2. DOMAIN h = 1 .. Len(h) /\ DOMAIN k = 1 .. Len(k) /\ Len(h) \in Nat /\ Len(k) \in Nat
  BY LenProperties DEF Hist
<1> QED
  BY <1>1, <1>2 DEF Carries

\* What is in a history is in the part of it that another begins with, or in the rest.
LEMMA SinceCarries ==
  ASSUME NEW h \in Hist, NEW b \in Hist, IsPrefix(b, h), NEW t, NEW n, Carries(h, t, n)
  PROVE  Carries(b, t, n) \/ Carries(Since(b, h), t, n)
<1>1. Len(b) <= Len(h) /\ \A i \in 1 .. Len(b) : h[i] = b[i]
  BY PrefixElements
<1>2. DOMAIN h = 1 .. Len(h) /\ DOMAIN b = 1 .. Len(b) /\ Len(h) \in Nat /\ Len(b) \in Nat
  BY LenProperties DEF Hist
<1>3. PICK i \in 1 .. Len(h) : h[i].by = t /\ h[i].n = n /\ h[i].op # "revert"
  BY <1>2 DEF Carries
<1>4. CASE i <= Len(b)
  BY <1>1, <1>2, <1>3, <1>4 DEF Carries
<1>5. CASE ~(i <= Len(b))
  <2> DEFINE s == Since(b, h)
             j == i - Len(b)
             m == Len(b)
  <2>1. m \in Nat /\ m < Len(h) /\ j \in 1 .. Len(h) - m /\ i = m + j
    BY <1>1, <1>2, <1>5
  <2>2. DOMAIN s = 1 .. Len(h) - m /\ s[j] = h[m + j]
    BY <2>1 DEF Since, Hist
  <2> QED
    BY <1>3, <2>1, <2>2 DEF Carries
<1> QED
  BY <1>4, <1>5

LEMMA SinceIsHistory ==
  ASSUME NEW h \in Hist, NEW b \in Hist, IsPrefix(b, h)
  PROVE  Since(b, h) \in Hist
<1>1. Len(b) \in Nat /\ Len(h) \in Nat /\ Len(b) <= Len(h)
  BY LenProperties DEF Hist, IsPrefix
<1> QED
  BY <1>1, SubSeqProperties DEF Since, Hist

\* A commit the rebase leaves out has its change in the history already.
LEMMA AppliedCarries ==
  ASSUME NEW h \in Hist, NEW q \in Hist, q # << >>, NEW t, NEW n, Carries(q, t, n),
         ~Carries(Tail(q), t, n)
  PROVE  Carries(IF Empty(h, Head(q)) THEN h ELSE Append(h, Head(q)), t, n)
<1> DEFINE e == Head(q)
<1>1. Len(q) \in Nat /\ Len(q) > 0 /\ DOMAIN q = 1 .. Len(q) /\ e = q[1]
  BY EmptySeq, LenProperties DEF Hist
<1>2. PICK i \in 1 .. Len(q) : q[i].by = t /\ q[i].n = n /\ q[i].op # "revert"
  BY <1>1 DEF Carries
<1>3. i = 1
  <2>1. ASSUME i # 1 PROVE FALSE
    <3>1. Tail(q) \in Hist /\ Len(Tail(q)) = Len(q) - 1 /\ Tail(q)[i - 1] = q[i]
      BY <1>1, <1>2, <2>1, HeadTailProperties DEF Hist
    <3>2. i - 1 \in DOMAIN Tail(q)
      BY <1>1, <1>2, <2>1, <3>1, LenProperties DEF Hist
    <3> QED
      BY <1>2, <3>1, <3>2 DEF Carries
  <2> QED
    BY <2>1
<1>4. e \in Entries /\ e.by = t /\ e.n = n /\ e.op # "revert"
  BY <1>1, <1>2, <1>3, ElementOfSeq DEF Hist
<1>5. CASE Empty(h, e)
  BY <1>4, <1>5 DEF Empty, Has, Same, Carries
<1>6. CASE ~Empty(h, e)
  <2>1. /\ Append(h, e)[Len(h) + 1] = e
        /\ Len(h) + 1 \in DOMAIN Append(h, e)
    BY <1>4, AppendProperties, LenProperties DEF Hist
  <2> QED
    BY <1>4, <1>6, <2>1 DEF Carries
<1> QED
  BY <1>5, <1>6

LEMMA AppliedIsHistory ==
  ASSUME NEW h \in Hist, NEW q \in Hist, q # << >>
  PROVE  /\ (IF Empty(h, Head(q)) THEN h ELSE Append(h, Head(q))) \in Hist
         /\ IsPrefix(h, IF Empty(h, Head(q)) THEN h ELSE Append(h, Head(q)))
         /\ Tail(q) \in Hist
<1>1. Head(q) \in Entries /\ Tail(q) \in Hist
  BY HeadTailProperties DEF Hist
<1> QED
  BY <1>1, PrefixAppend, PrefixSelf

-----------------------------------------------------------------------------
(* What the actions keep of IInv *)

LEMMA InitInv == Init => IInv /\ KeptInv
<1> SUFFICES ASSUME Init PROVE IInv /\ KeptInv
  OBVIOUS
<1>1. << >> \in Hist
  BY EmptySeq DEF Hist
<1>2. Idle \in [at : Phases, task : Tasks \union {NoTask}, branch : Branches,
                prev : Hist, source : Hist]
  BY <1>1, IntegrationAssumption DEF Idle, Phases
<1>3. IInv
  BY <1>1, <1>2, IntegrationAssumption DEF Init, IInv, At, Idle, States, Heads
<1> QED
  BY <1>3 DEF Init, KeptInv

LEMMA CommitTypes ==
  ASSUME IInv, NEW t \in Tasks, Commit(t)
  PROVE  /\ head' \in [Tasks -> Hist]
         /\ work' \in [Tasks -> 0 .. MaxWork]
         /\ state' \in [Tasks -> States]
<1>1. /\ head \in [Tasks -> Hist] /\ work \in [Tasks -> 0 .. MaxWork]
      /\ state \in [Tasks -> States]
  BY DEF IInv
<1> DEFINE e == [by |-> t, n |-> work[t] + 1, op |-> "add"]
<1>2. work[t] + 1 \in 0 .. MaxWork /\ e \in Entries
  BY <1>1, IntegrationAssumption DEF Commit, Entries, Authors, Numbers
<1>3. Append(head[t], e) \in Hist
  BY <1>1, <1>2, PrefixAppend
<1> QED
  BY <1>1, <1>2, <1>3 DEF Commit, States

LEMMA PushTypes ==
  ASSUME IInv, NEW e \in Entries, Push(e), pushed < MaxMain
  PROVE  IInv'
<1>1. mains[cur] \in Hist
  BY DEF IInv
<1>2. Append(mains[cur], e) \in Hist
  BY <1>1, PrefixAppend
<1>3. mains' \in [Heads -> Hist] /\ pushed' \in 0 .. MaxMain
  BY <1>2, IntegrationAssumption DEF Push, IInv
<1> QED
  BY <1>3 DEF Push, IInv, At, wt

LEMMA PushedEntry ==
  ASSUME IInv, PersonCommits \/ PersonReverts
  PROVE  pushed < MaxMain /\ \E e \in Entries : Push(e)
<1>1. CASE PersonCommits
  <2>1. PICK op \in {"add", "merge"} : Push([by |-> Person, n |-> pushed + 1, op |-> op])
    BY <1>1 DEF PersonCommits
  <2>2. pushed < MaxMain /\ pushed + 1 \in Numbers
    BY <1>1, IntegrationAssumption DEF PersonCommits, Numbers, IInv
  <2>3. [by |-> Person, n |-> pushed + 1, op |-> op] \in Entries
    BY <2>2 DEF Entries, Authors
  <2> QED
    BY <2>1, <2>2, <2>3
<1>2. CASE PersonReverts
  <2>1. PICK i \in DOMAIN mains[cur] : Push([mains[cur][i] EXCEPT !.op = "revert"])
    BY <1>2 DEF PersonReverts
  <2>2. mains[cur] \in Seq(Entries)
    BY DEF IInv, Hist
  <2>3. mains[cur][i] \in Entries
    BY <2>1, <2>2, ElementOfSeq, LenProperties
  <2>4. [mains[cur][i] EXCEPT !.op = "revert"] \in Entries
    BY <2>3 DEF Entries
  <2> QED
    BY <1>2, <2>1, <2>4 DEF PersonReverts
<1> QED
  BY <1>1, <1>2

LEMMA TypeNext == IInv /\ [Next]_vars => IInv'
<1> SUFFICES ASSUME IInv, [Next]_vars PROVE IInv'
  OBVIOUS
<1> USE DEF At, wt
<1>0. << >> \in Hist
  BY EmptySeq DEF Hist
<1>1. CASE PersonCommits \/ PersonReverts
  BY <1>1, PushedEntry, PushTypes
<1>2. CASE PersonSwitches
  <2>1. mains' \in [Heads -> Hist] /\ cur' \in Heads
    BY <1>0, <1>2 DEF PersonSwitches, IInv
  <2> QED
    BY <1>2, <2>1 DEF PersonSwitches, IInv
<1>3. ASSUME NEW t \in Tasks, Create(t) PROVE IInv'
  <2>1. mains[cur] \in Hist
    BY DEF IInv
  <2>2. /\ alive' \in [Tasks -> BOOLEAN] /\ head' \in [Tasks -> Hist]
        /\ base' \in [Tasks -> Hist]
    BY <1>3, <2>1 DEF Create, IInv
  <2> QED
    BY <1>3, <2>2 DEF Create, IInv
<1>4. ASSUME NEW t \in Tasks, Edit(t) PROVE IInv'
  <2>1. state' \in [Tasks -> States]
    BY <1>4 DEF Edit, IInv, States
  <2> QED
    BY <1>4, <2>1 DEF Edit, IInv
<1>5. ASSUME NEW t \in Tasks, Checkpoint(t) PROVE IInv'
  <2>1. /\ head' \in [Tasks -> Hist] /\ work' \in [Tasks -> 0 .. MaxWork]
        /\ state' \in [Tasks -> States]
    BY <1>5, CommitTypes DEF Checkpoint
  <2> QED
    BY <1>5, <2>1 DEF Checkpoint, IInv
<1>6. ASSUME NEW t \in Tasks, Cleanup(t) PROVE IInv'
  <2>1. /\ alive' \in [Tasks -> BOOLEAN] /\ head' \in [Tasks -> Hist]
        /\ base' \in [Tasks -> Hist] /\ todo' \in [Tasks -> Hist]
        /\ rebasing' \in [Tasks -> BOOLEAN] /\ state' \in [Tasks -> States]
    BY <1>0, <1>6 DEF Cleanup, Discard, IInv, States
  <2>2. archive' \subseteq Hist
    BY <1>6 DEF Cleanup, IInv
  <2>3. ~At("idle") => todo'[run.task] = todo[run.task]
    BY <1>6 DEF Cleanup, Free, Discard, IInv
  <2>4. UNCHANGED <<mains, cur, pushed, work, run, crashes>>
    BY <1>6 DEF Cleanup
  <2>5. \A u \in Tasks : ~rebasing'[u] => todo'[u] = << >>
    BY <1>6 DEF Cleanup, Discard, IInv
  <2> QED
    BY <2>1, <2>2, <2>3, <2>4, <2>5 DEF IInv
<1>7. ASSUME NEW t \in Tasks, Begin(t) PROVE IInv'
  <2> DEFINE source == Since(base[t], head[t])
  <2>1. mains[cur] \in Hist /\ source \in Hist /\ cur \in Branches
    BY <1>7, SinceIsHistory DEF Begin, IInv
  <2>2. run' = [at |-> "rebase", task |-> t, branch |-> cur, prev |-> mains[cur], source |-> source]
    BY <1>7 DEF Begin
  <2>3. /\ head' \in [Tasks -> Hist] /\ todo' \in [Tasks -> Hist]
        /\ rebasing' \in [Tasks -> BOOLEAN]
    BY <1>7, <2>1 DEF Begin, IInv
  <2>4. /\ run' \in [at : Phases, task : Tasks \union {NoTask}, branch : Branches,
                     prev : Hist, source : Hist]
        /\ run'.task \in Tasks /\ run'.at = "rebase"
    BY <2>1, <2>2 DEF Phases
  <2> QED
    BY <1>7, <2>3, <2>4 DEF Begin, IInv
<1>8. ASSUME Integrate \/ Crash PROVE IInv'
  <2> DEFINE t == run.task
             Runs == [at : Phases, task : Tasks \union {NoTask}, branch : Branches,
                      prev : Hist, source : Hist]
  <2>1. ~At("idle") /\ t \in Tasks
    BY <1>8 DEF IInv, Integrate, Pick, Conflict, Resolve, ResolveFails, RebaseEnds,
                UpdateBase, Validate, ValidateFails, Check, Merge, Finish, Crash
  <2>2. Idle \in Runs /\ Idle.at = "idle"
    BY <1>0, IntegrationAssumption DEF Idle, Phases
  <2>3. \A phase \in Phases : Goto(phase) =>
          run' \in Runs /\ run'.at = phase /\ run'.task = t
    BY DEF Goto, IInv
  <2>4. \A s \in States : [state EXCEPT ![t] = s] \in [Tasks -> States]
    BY <2>1 DEF IInv
  <2>5. Apply(t) /\ todo[t] # << >> =>
          head' \in [Tasks -> Hist] /\ todo' \in [Tasks -> Hist]
    BY <2>1, AppliedIsHistory DEF Apply, IInv
  <2>17. Apply(t) /\ todo[t] # << >> /\ UNCHANGED rebasing =>
           \A u \in Tasks : ~rebasing'[u] => todo'[u] = << >>
    BY <2>1 DEF Apply, IInv
  <2>6. CASE Pick
    BY <2>1, <2>5, <2>17, <2>6 DEF Pick, IInv
  <2>7. CASE Conflict
    <3>1. run' \in Runs /\ run'.task = t /\ state' \in [Tasks -> States]
      BY <2>3, <2>4, <2>7 DEF Conflict, Unmerged, Phases, States
    <3> QED
      BY <2>1, <2>7, <3>1 DEF Conflict, IInv
  <2>8. CASE Resolve
    <3>1. /\ run' \in Runs /\ run'.task = t /\ run'.at = "rebase"
          /\ state' \in [Tasks -> States]
      BY <2>3, <2>4, <2>8 DEF Resolve, Phases, States
    <3>2. head' \in [Tasks -> Hist] /\ todo' \in [Tasks -> Hist]
      BY <2>5, <2>8 DEF Resolve, IInv
    <3>3. \A u \in Tasks : ~rebasing'[u] => todo'[u] = << >>
      BY <2>17, <2>8 DEF Resolve, IInv
    <3> QED
      BY <2>1, <2>8, <3>1, <3>2, <3>3 DEF Resolve, IInv
  <2>9. CASE ResolveFails \/ ValidateFails
    <3>1. state' \in [Tasks -> States]
      BY <2>4, <2>9 DEF ResolveFails, ValidateFails, States
    <3> QED
      BY <2>2, <2>9, <3>1 DEF ResolveFails, ValidateFails, Raise, IInv
  <2>10. CASE RebaseEnds
    <3>1. run' \in Runs /\ run'.task = t /\ run'.at = "rebased"
      BY <2>3, <2>10 DEF RebaseEnds, Phases
    <3>2. rebasing' \in [Tasks -> BOOLEAN]
      BY <2>1, <2>10 DEF RebaseEnds, IInv
    <3> QED
      BY <2>1, <2>10, <3>1, <3>2 DEF RebaseEnds, IInv
  <2>11. CASE UpdateBase
    <3>1. run' \in Runs /\ run'.task = t /\ run'.at = "validate"
      BY <2>3, <2>11 DEF UpdateBase, Phases
    <3>2. base' \in [Tasks -> Hist]
      BY <2>1, <2>11 DEF UpdateBase, IInv
    <3> QED
      BY <2>1, <2>11, <3>1, <3>2 DEF UpdateBase, IInv
  <2>12. CASE Validate
    <3>1. run' \in Runs /\ run'.task = t /\ run'.at = "check"
      BY <2>3, <2>12 DEF Validate, Phases
    <3>2. /\ head' \in [Tasks -> Hist] /\ work' \in [Tasks -> 0 .. MaxWork]
          /\ state' \in [Tasks -> States]
      BY <2>1, <2>12, CommitTypes DEF Validate, IInv
    <3> QED
      BY <2>1, <2>12, <3>1, <3>2 DEF Validate, IInv
  <2>13. CASE Check
    <3>1. \/ run' = Idle
          \/ run' \in Runs /\ run'.task = t /\ run'.at = "merge"
      BY <2>3, <2>13 DEF Check, Raise, Phases
    <3> QED
      BY <2>1, <2>2, <2>13, <3>1 DEF Check, IInv
  <2>14. CASE Merge
    <3>1. \/ run' = Idle
          \/ run' \in Runs /\ run'.task = t /\ run'.at = "merged"
      BY <2>3, <2>14 DEF Merge, Raise, Phases
    <3>2. mains' \in [Heads -> Hist]
      BY <2>1, <2>14 DEF Merge, IInv
    <3> QED
      BY <2>1, <2>2, <2>14, <3>1, <3>2 DEF Merge, IInv
  <2>15. CASE Finish
    <3>1. base' \in [Tasks -> Hist]
      BY <2>1, <2>15 DEF Finish, IInv
    <3> QED
      BY <2>2, <2>15, <3>1 DEF Finish, Raise, IInv
  <2>16. CASE Crash
    <3>1. crashes' \in 0 .. MaxCrashes
      BY <2>16, IntegrationAssumption DEF Crash, IInv
    <3> QED
      BY <2>2, <2>16, <3>1 DEF Crash, Raise, IInv
  <2> QED
    BY <1>8, <2>6, <2>7, <2>8, <2>9, <2>10, <2>11, <2>12, <2>13, <2>14, <2>15, <2>16 DEF Integrate
<1>9. CASE UNCHANGED vars
  BY <1>9 DEF vars, IInv
<1> QED
  BY <1>1, <1>2, <1>3, <1>4, <1>5, <1>6, <1>7, <1>8, <1>9 DEF Next

-----------------------------------------------------------------------------
(* Branches and the archive only grow *)

LEMMA BranchesGrow ==
  IInv /\ [Next]_vars => \A b \in Branches : IsPrefix(mains[b], mains'[b])
<1> SUFFICES ASSUME IInv, [Next]_vars, NEW b \in Branches
             PROVE  IsPrefix(mains[b], mains'[b])
  OBVIOUS
<1>1. b \in Heads /\ b # Detached /\ mains \in [Heads -> Hist] /\ cur \in Heads
  BY IntegrationAssumption DEF Heads, IInv
<1>2. IsPrefix(mains[b], mains[b])
  BY <1>1, PrefixSelf
<1>3. CASE PersonCommits \/ PersonReverts
  <2>1. PICK e \in Entries : Push(e)
    BY <1>3, PushedEntry
  <2>2. IsPrefix(mains[cur], Append(mains[cur], e))
    BY <1>1, PrefixAppend
  <2> QED
    BY <1>1, <1>2, <2>1, <2>2 DEF Push
<1>4. CASE PersonSwitches
  BY <1>1, <1>2, <1>4 DEF PersonSwitches
<1>5. CASE Merge
  BY <1>1, <1>2, <1>5 DEF Merge
<1>6. CASE UNCHANGED mains
  BY <1>2, <1>6
<1>7. \/ UNCHANGED mains
      \/ PersonCommits \/ PersonReverts \/ PersonSwitches \/ Merge
  BY DEF Next, vars, Create, Edit, Checkpoint, Cleanup, Begin, Integrate, Pick, Conflict,
         Resolve, ResolveFails, RebaseEnds, UpdateBase, Validate, ValidateFails, Check, Finish,
         Crash
<1> QED
  BY <1>3, <1>4, <1>5, <1>6, <1>7

LEMMA ArchiveGrows == [Next]_vars => archive \subseteq archive'
BY DEF Next, vars, PersonCommits, PersonReverts, PersonSwitches, Push, Create, Edit, Checkpoint,
       Cleanup, Begin, Integrate, Pick, Conflict, Resolve, ResolveFails, RebaseEnds, UpdateBase,
       Validate, ValidateFails, Check, Merge, Finish, Crash

-----------------------------------------------------------------------------
(* What the actions keep of KeptInv *)

\* A change that leaves the task's head and the rebase's list is elsewhere.
LEMMA StaysSafe ==
  ASSUME IInv, IInv', [Next]_vars, NEW t \in Tasks, NEW n, Safe(t, n),
         Carries(head[t], t, n) \/ Carries(todo[t], t, n) => Safe(t, n)'
  PROVE  Safe(t, n)'
<1>1. ASSUME NEW b \in Branches, Carries(mains[b], t, n) PROVE Safe(t, n)'
  <2>1. /\ mains[b] \in Hist /\ mains'[b] \in Hist
        /\ IsPrefix(mains[b], mains'[b])
    BY BranchesGrow DEF IInv, Heads
  <2>2. Carries(mains'[b], t, n)
    BY <1>1, <2>1, PrefixCarries
  <2> QED
    BY <2>2 DEF Safe, Carries
<1>2. ASSUME NEW h \in archive, Carries(h, t, n) PROVE Safe(t, n)'
  BY <1>2, ArchiveGrows DEF Safe, Carries
<1> QED
  BY <1>1, <1>2 DEF Safe

\* A commit made for the task.
LEMMA CommitSafe ==
  ASSUME IInv, IInv', [Next]_vars, NEW t \in Tasks, \A n \in 1 .. work[t] : Safe(t, n),
         Commit(t), UNCHANGED todo
  PROVE  \A n \in 1 .. work'[t] : Safe(t, n)'
<1> DEFINE e == [by |-> t, n |-> work[t] + 1, op |-> "add"]
<1>1. /\ work[t] \in Nat /\ work'[t] = work[t] + 1
      /\ head[t] \in Hist /\ head'[t] = Append(head[t], e) /\ head'[t] \in Hist
  BY DEF IInv, Commit
<1>2. e \in Entries
  BY IntegrationAssumption DEF IInv, Commit, Entries, Authors, Numbers
<1>3. ASSUME NEW n \in 1 .. work[t] PROVE Safe(t, n)'
  <2>1. Safe(t, n)
    OBVIOUS
  <2>2. IsPrefix(head[t], head'[t])
    BY <1>1, <1>2, PrefixAppend
  <2>3. Carries(head[t], t, n) => Carries(head'[t], t, n)
    BY <1>1, <2>2, PrefixCarries
  <2>4. Carries(head[t], t, n) \/ Carries(todo[t], t, n) => Safe(t, n)'
    BY <2>3 DEF Safe, Carries
  <2> QED
    BY <2>1, <2>4, StaysSafe
<1>4. ASSUME NEW n, n = work[t] + 1 PROVE Safe(t, n)'
  <2>1. /\ Append(head[t], e)[Len(head[t]) + 1] = e
        /\ Len(head[t]) + 1 \in DOMAIN Append(head[t], e)
    BY <1>1, <1>2, AppendProperties, LenProperties DEF Hist
  <2>2. Carries(head'[t], t, n)
    BY <1>1, <1>4, <2>1 DEF Carries
  <2> QED
    BY <2>2 DEF Safe, Carries
<1> QED
  <2> SUFFICES ASSUME NEW n \in 1 .. work'[t] PROVE Safe(t, n)'
    OBVIOUS
  <2>1. n \in 1 .. work[t] \/ n = work[t] + 1
    BY <1>1
  <2> QED
    BY <1>3, <1>4, <2>1

\* Only a cleanup may lose what is still at the task's head or in its rebase.
LEMMA SafeNext ==
  ASSUME IInv, IInv', [Next]_vars, NEW u \in Tasks, \A n \in 1 .. work[u] : Safe(u, n),
         ~Cleanup(u)
  PROVE  \A n \in 1 .. work'[u] : Safe(u, n)'
<1> SUFFICES ASSUME NEW n \in 1 .. work'[u] PROVE Safe(u, n)'
  OBVIOUS
<1> USE DEF wt
<1>1. CASE UNCHANGED <<alive[u], head[u], todo[u], work[u]>>
  <2>1. Safe(u, n)
    BY <1>1
  <2>2. Carries(head[u], u, n) \/ Carries(todo[u], u, n) => Safe(u, n)'
    BY <1>1 DEF Safe, Carries
  <2> QED
    BY <2>1, <2>2, StaysSafe
<1>2. ASSUME NEW t \in Tasks, Create(t) PROVE Safe(u, n)'
  <2>1. CASE t = u
    BY <1>2, <2>1 DEF Create
  <2>2. CASE t # u
    BY <1>1, <1>2, <2>2 DEF Create, IInv
  <2> QED
    BY <2>1, <2>2
<1>3. ASSUME NEW t \in Tasks, Checkpoint(t) PROVE Safe(u, n)'
  <2>1. CASE t = u
    BY <1>3, <2>1, CommitSafe DEF Checkpoint
  <2>2. CASE t # u
    BY <1>1, <1>3, <2>2 DEF Checkpoint, Commit, IInv
  <2> QED
    BY <2>1, <2>2
<1>4. ASSUME NEW t \in Tasks, Cleanup(t) PROVE Safe(u, n)'
  <2>1. t # u
    BY <1>4
  <2> QED
    BY ZenonT(40), <1>1, <1>4, <2>1 DEF Cleanup, Discard, IInv
<1>5. ASSUME NEW t \in Tasks, Begin(t) PROVE Safe(u, n)'
  <2>1. CASE t = u
    <3>1. /\ head[t] \in Hist /\ base[t] \in Hist /\ mains[cur] \in Hist
          /\ cur \in Branches
          /\ IsPrefix(base[t], head[t]) /\ IsPrefix(base[t], mains[cur])
          /\ todo'[t] = Since(base[t], head[t])
          /\ UNCHANGED <<alive, work, mains>>
      BY <1>5 DEF Begin, IInv
    <3>2. Safe(t, n)
      BY <2>1, <3>1
    <3>3. ASSUME Carries(head[t], t, n) PROVE Safe(t, n)'
      <4>1. Carries(base[t], t, n) => Carries(mains[cur], t, n)
        BY <3>1, PrefixCarries
      <4>2. Carries(base[t], t, n) \/ Carries(todo'[t], t, n)
        BY <3>1, <3>3, SinceCarries
      <4> QED
        BY <3>1, <4>1, <4>2 DEF Safe, Carries
    <3>4. ~Carries(todo[t], t, n)
      <4>1. todo[t] = << >>
        BY <1>5 DEF Begin, IInv
      <4> QED
        BY <4>1 DEF Carries
    <3> QED
      BY <2>1, <3>2, <3>3, <3>4, StaysSafe
  <2>2. CASE t # u
    BY <1>1, <1>5, <2>2 DEF Begin, IInv
  <2> QED
    BY <2>1, <2>2
<1>6. CASE Pick \/ Resolve
  <2> DEFINE t == run.task
             q == todo[t]
  <2>1. /\ t \in Tasks /\ q # << >> /\ q \in Hist /\ head[t] \in Hist
        /\ Apply(t) /\ UNCHANGED <<alive, work, mains, archive>>
    BY <1>6 DEF Pick, Resolve, At, IInv
  <2>2. /\ head' = [head EXCEPT ![t] = IF Empty(@, Head(q)) THEN @ ELSE Append(@, Head(q))]
        /\ todo' = [todo EXCEPT ![t] = Tail(q)]
    BY <2>1 DEF Apply
  <2>3. CASE t = u
    <3>1. /\ head'[t] = IF Empty(head[t], Head(q)) THEN head[t] ELSE Append(head[t], Head(q))
          /\ todo'[t] = Tail(q)
      BY <2>1, <2>2 DEF IInv
    <3>2. head'[t] \in Hist /\ IsPrefix(head[t], head'[t])
      BY <2>1, <3>1, AppliedIsHistory
    <3>3. Carries(head[t], t, n) => Carries(head'[t], t, n)
      BY <2>1, <3>2, PrefixCarries
    <3>4. Carries(q, t, n) => Carries(todo'[t], t, n) \/ Carries(head'[t], t, n)
      BY <2>1, <3>1, AppliedCarries
    <3>5. Safe(t, n)
      BY <2>1, <2>3
    <3> QED
      BY <2>1, <2>3, <3>3, <3>4, <3>5 DEF Safe, Carries
  <2>4. CASE t # u
    BY <1>1, <2>1, <2>2, <2>4 DEF IInv
  <2> QED
    BY <2>3, <2>4
<1>7. CASE Validate
  <2> DEFINE t == run.task
  <2>1. t \in Tasks /\ UNCHANGED <<alive, todo>>
    BY <1>7 DEF Validate, At, IInv
  <2>2. CASE Commit(t) /\ t = u
    BY <1>7, <2>1, <2>2, CommitSafe
  <2>3. CASE ~(Commit(t) /\ t = u)
    BY <1>1, <1>7, <2>1, <2>3 DEF Validate, Commit, IInv
  <2> QED
    BY <2>2, <2>3
<1>8. \/ UNCHANGED <<alive, head, todo, work>>
      \/ \E t \in Tasks : Create(t) \/ Checkpoint(t) \/ Cleanup(t) \/ Begin(t)
      \/ Pick \/ Resolve \/ Validate
  BY DEF Next, vars, PersonCommits, PersonReverts, PersonSwitches, Push, Edit, Integrate,
         Conflict, ResolveFails, RebaseEnds, UpdateBase, ValidateFails, Check, Merge, Finish,
         Crash
<1> QED
  BY <1>1, <1>2, <1>3, <1>4, <1>5, <1>6, <1>7, <1>8

LEMMA KeptNext == IInv /\ IInv' /\ KeptInv /\ [Next]_vars => KeptInv'
<1> SUFFICES ASSUME IInv, IInv', KeptInv, [Next]_vars, NEW u \in Tasks, alive'[u]
             PROVE  \A n \in 1 .. work'[u] : Safe(u, n)'
  BY DEF KeptInv
<1>1. ~Cleanup(u)
  BY DEF Cleanup, Discard, IInv
<1>2. alive[u] \/ work[u] = 0
  BY ZenonT(40) DEF Next, vars, wt, PersonCommits, PersonReverts, PersonSwitches, Push, Create, Edit,
         Checkpoint, Commit, Cleanup, Discard, Begin, Integrate, Pick, Conflict, Resolve,
         ResolveFails, RebaseEnds, UpdateBase, Validate, ValidateFails, Check, Merge, Finish,
         Crash, IInv
<1>3. \A n \in 1 .. work[u] : Safe(u, n)
  BY <1>2 DEF KeptInv
<1> QED
  BY <1>1, <1>3, SafeNext

-----------------------------------------------------------------------------
(* What is lost, and when *)

\* Commits made are counted up, and only a cleanup takes a worktree away.
LEMMA WorkGrows ==
  ASSUME IInv, IInv', [Next]_vars, NEW t \in Tasks PROVE work[t] <= work'[t]
<1>1. work[t] \in Nat
  BY DEF IInv
<1>2. UNCHANGED work \/ \E u \in Tasks : Commit(u)
  BY DEF Next, vars, wt, PersonCommits, PersonReverts, PersonSwitches, Push, Create, Edit,
         Checkpoint, Cleanup, Begin, Integrate, Pick, Conflict, Resolve, ResolveFails,
         RebaseEnds, UpdateBase, Validate, ValidateFails, Check, Merge, Finish, Crash, At, IInv
<1>3. ASSUME NEW u \in Tasks, Commit(u) PROVE work[t] <= work'[t]
  <2>1. work' = [work EXCEPT ![u] = @ + 1] /\ work \in [Tasks -> 0 .. MaxWork]
    BY <1>3 DEF Commit, IInv
  <2> QED
    BY <1>1, <2>1
<1> QED
  BY <1>1, <1>2, <1>3

LEMMA OnlyCleanup ==
  ASSUME IInv, [Next]_vars, NEW t \in Tasks, alive[t], ~alive'[t] PROVE Cleanup(t)
<1>1. \/ UNCHANGED alive
      \/ \E u \in Tasks : Create(u) \/ Cleanup(u)
  BY DEF Next, vars, wt, PersonCommits, PersonReverts, PersonSwitches, Push, Edit,
         Checkpoint, Begin, Integrate, Pick, Conflict, Resolve, ResolveFails, RebaseEnds,
         UpdateBase, Validate, ValidateFails, Check, Merge, Finish, Crash
<1>2. ASSUME NEW u \in Tasks, Create(u) PROVE FALSE
  BY <1>2 DEF Create, IInv
<1>3. ASSUME NEW u \in Tasks, Cleanup(u) PROVE u = t
  BY <1>3 DEF Cleanup, Discard, IInv
<1> QED
  BY <1>1, <1>2, <1>3

LEMMA GoneNext == IInv /\ IInv' /\ GoneInv /\ [Next]_vars => GoneInv'
<1> SUFFICES ASSUME IInv, IInv', GoneInv, [Next]_vars PROVE GoneInv'
  OBVIOUS
<1> USE DEF At, wt
<1>1. CASE UNCHANGED <<alive, head, todo, run>>
  BY <1>1 DEF GoneInv
<1>2. ASSUME NEW t \in Tasks, Create(t) PROVE GoneInv'
  BY <1>2 DEF Create, GoneInv, IInv
<1>3. ASSUME NEW t \in Tasks, Checkpoint(t) PROVE GoneInv'
  BY <1>3 DEF Checkpoint, Free, Commit, GoneInv, IInv
<1>4. ASSUME NEW t \in Tasks, Cleanup(t) PROVE GoneInv'
  BY <1>4 DEF Cleanup, Free, Discard, GoneInv, IInv
<1>5. ASSUME NEW t \in Tasks, Begin(t) PROVE GoneInv'
  BY <1>5 DEF Begin, GoneInv, IInv
<1>6. CASE Pick
  BY <1>6 DEF Pick, Apply, GoneInv, IInv
<1>7. CASE Resolve
  BY <1>7 DEF Resolve, Apply, Goto, GoneInv, IInv
<1>8. CASE Validate
  BY <1>8 DEF Validate, Commit, Goto, GoneInv, IInv
<1>9. CASE Crash \/ ResolveFails \/ ValidateFails \/ Finish
  BY <1>9 DEF Crash, ResolveFails, ValidateFails, Finish, Raise, Idle, GoneInv, IInv
<1>10. CASE Conflict \/ RebaseEnds \/ UpdateBase
  BY <1>10 DEF Conflict, RebaseEnds, UpdateBase, Goto, GoneInv, IInv
<1>11. CASE Check \/ Merge
  BY <1>11 DEF Check, Merge, Goto, Raise, Idle, GoneInv, IInv
<1> QED
  BY <1>1, <1>2, <1>3, <1>4, <1>5, <1>6, <1>7, <1>8, <1>9, <1>10, <1>11
     DEF Next, vars, PersonCommits, PersonReverts, PersonSwitches, Push, Edit, Integrate

\* What a cleanup throws away is on a branch or goes to the archive, but for what a stopped
\* rebase had yet to apply.
LEMMA CleanupSafe ==
  ASSUME IInv, IInv', [Next]_vars, NEW u \in Tasks, Cleanup(u), NEW n, Safe(u, n),
         ~Carries(todo[u], u, n)
  PROVE  Safe(u, n)'
<1>1. /\ head[u] \in Hist /\ UNCHANGED mains
      /\ archive' = archive \union (IF Reachable(head[u]) THEN {} ELSE {head[u]})
  BY DEF Cleanup, IInv
<1>2. ASSUME Carries(head[u], u, n) PROVE Safe(u, n)'
  <2>1. CASE Reachable(head[u])
    <3>1. PICK r \in {mains[b] : b \in Branches} \union archive : IsPrefix(head[u], r)
      BY <2>1 DEF Reachable
    <3>2. r \in Hist
      BY <3>1 DEF IInv, Heads
    <3>3. Carries(r, u, n)
      BY <1>1, <1>2, <3>1, <3>2, PrefixCarries
    <3> QED
      BY <1>1, <3>1, <3>3 DEF Safe, Carries
  <2>2. CASE ~Reachable(head[u])
    BY <1>1, <1>2, <2>2 DEF Safe, Carries
  <2> QED
    BY <2>1, <2>2
<1> QED
  BY <1>2, StaysSafe

\* What an entry of a branch or of the archive keeps, it goes on to keep.
LEMMA StoredStays ==
  ASSUME IInv, IInv', [Next]_vars, NEW t \in Tasks, NEW n,
         NEW h \in {mains[b] : b \in Branches} \union archive,
         \E i \in DOMAIN h : h[i].by = t /\ h[i].n = n
  PROVE  Kept(t, n)'
<1>1. CASE h \in archive
  BY <1>1, ArchiveGrows DEF Kept
<1>2. CASE h \in {mains[b] : b \in Branches}
  <2>1. PICK b \in Branches : h = mains[b]
    BY <1>2
  <2>2. mains[b] \in Hist /\ mains'[b] \in Hist /\ IsPrefix(mains[b], mains'[b])
    BY BranchesGrow DEF IInv, Heads
  <2>3. \E i \in DOMAIN mains'[b] : mains'[b][i].by = t /\ mains'[b][i].n = n
    BY <2>1, <2>2, PrefixElements DEF Hist
  <2> QED
    BY <2>3 DEF Kept
<1> QED
  BY <1>1, <1>2

LEMMA LostNext ==
  ASSUME IInv, IInv', KeptInv, KeptInv', GoneInv, [Next]_vars, NEW t \in Tasks,
         NEW n \in 1 .. work[t], Kept(t, n)
  PROVE  \/ Kept(t, n)'
         \/ /\ alive[t] /\ ~alive'[t] /\ rebasing[t]
            /\ \E i \in DOMAIN todo[t] : todo[t][i].n = n
<1>1. Safe(t, n)' => Kept(t, n)'
  BY DEF Safe, Carries, Kept
<1>2. CASE alive'[t]
  <2>1. work[t] \in Nat /\ work'[t] \in Nat /\ work[t] <= work'[t]
    BY WorkGrows DEF IInv
  <2>2. n \in 1 .. work'[t]
    BY <2>1
  <2> QED
    BY <1>1, <1>2, <2>2 DEF KeptInv
<1>3. CASE ~alive[t]
  <2>1. PICK h \in {mains[b] : b \in Branches} \union archive \union {head[t], todo[t]} :
          \E i \in DOMAIN h : h[i].by = t /\ h[i].n = n
    BY DEF Kept
  <2>2. h # head[t] /\ h # todo[t]
    BY <1>3, <2>1 DEF GoneInv
  <2> QED
    BY <2>1, <2>2, StoredStays
<1>4. CASE alive[t] /\ ~alive'[t]
  <2>1. Cleanup(t)
    BY <1>4, OnlyCleanup
  <2>2. Safe(t, n)
    BY <1>4 DEF KeptInv
  <2>3. CASE Carries(todo[t], t, n)
    <3>1. todo[t] # << >> /\ \E i \in DOMAIN todo[t] : todo[t][i].n = n
      BY <2>3 DEF Carries
    <3>2. rebasing[t]
      BY <3>1 DEF IInv
    <3> QED
      BY <1>4, <3>1, <3>2
  <2>4. CASE ~Carries(todo[t], t, n)
    BY <1>1, <2>1, <2>2, <2>4, CleanupSafe
  <2> QED
    BY <2>3, <2>4
<1> QED
  BY <1>2, <1>3, <1>4

-----------------------------------------------------------------------------
(* Histories with commits of one task on top *)

LEMMA EntryNumber == ASSUME NEW h \in Hist, NEW i \in 1 .. Len(h) PROVE h[i].n \in Nat
<1>1. h[i] \in Entries
  BY ElementOfSeq DEF Hist
<1> QED
  BY <1>1, IntegrationAssumption DEF Entries, Numbers

LEMMA PrefixTransitive ==
  ASSUME NEW h \in Hist, NEW k \in Hist, NEW l \in Hist, IsPrefix(h, k), IsPrefix(k, l)
  PROVE  IsPrefix(h, l)
<1>1. /\ Len(h) \in Nat /\ Len(k) \in Nat /\ Len(l) \in Nat
      /\ Len(h) <= Len(k) /\ Len(k) <= Len(l)
      /\ \A i \in 1 .. Len(h) : k[i] = h[i]
      /\ \A i \in 1 .. Len(k) : l[i] = k[i]
  BY PrefixElements, LenProperties DEF Hist
<1>2. SubSeq(h, 1, Len(h)) = SubSeq(l, 1, Len(h))
  <2>1. \A i \in 1 .. Len(h) : h[i] \in Entries /\ l[i] = h[i]
    BY <1>1, ElementOfSeq DEF Hist
  <2>2. /\ SubSeq(h, 1, Len(h)) \in Seq(Entries) /\ SubSeq(l, 1, Len(h)) \in Seq(Entries)
        /\ Len(SubSeq(h, 1, Len(h))) = Len(h) /\ Len(SubSeq(l, 1, Len(h))) = Len(h)
        /\ \A i \in 1 .. Len(h) : SubSeq(h, 1, Len(h))[i] = SubSeq(l, 1, Len(h))[i]
    BY <1>1, <2>1, SubSeqProperties
  <2> QED
    BY <2>2, SeqEqual
<1> QED
  BY <1>1, <1>2 DEF IsPrefix

\* A history has nothing beyond its own end.
LEMMA OwnNothing ==
  ASSUME NEW h \in Hist, NEW t, NEW made PROVE Own(t, h, Len(h), made)
BY LenProperties DEF Own, Hist

LEMMA OwnMore ==
  ASSUME NEW h \in Hist, NEW t, NEW m \in Nat, NEW made \in Nat, NEW more \in Nat, made <= more,
         Own(t, h, m, made)
  PROVE  Own(t, h, m, more)
<1>1. \A i \in m + 1 .. Len(h) : h[i].n \in Nat
  BY EntryNumber, LenProperties DEF Hist
<1> QED
  BY <1>1 DEF Own

LEMMA OwnAppend ==
  ASSUME NEW h \in Hist, NEW e \in Entries, NEW t, NEW m \in Nat, NEW made \in Nat,
         Own(t, h, m, made), e.by = t, e.op = "add", e.n <= made,
         \A i \in m + 1 .. Len(h) : h[i].n < e.n
  PROVE  Own(t, Append(h, e), m, made)
<1> DEFINE k == Append(h, e)
<1>1. /\ Len(h) \in Nat /\ Len(k) = Len(h) + 1
      /\ \A i \in 1 .. Len(h) : k[i] = h[i]
      /\ k[Len(h) + 1] = e
  BY AppendProperties, LenProperties DEF Hist
<1>2. \A i \in m + 1 .. Len(k) : 
          (i \in m + 1 .. Len(h) /\ k[i] = h[i]) \/ (i = Len(h) + 1 /\ k[i] = e)
  BY <1>1
<1>3. ASSUME NEW i \in m + 1 .. Len(k) PROVE k[i].by = t /\ k[i].op = "add" /\ k[i].n <= made
  BY <1>2 DEF Own
<1>4. ASSUME NEW i \in m + 1 .. Len(k), NEW j \in m + 1 .. Len(k), i < j PROVE k[i].n < k[j].n
  <2>1. i \in m + 1 .. Len(h) /\ k[i] = h[i]
    BY <1>1, <1>4
  <2> QED
    BY <1>2, <1>4, <2>1 DEF Own
<1> HIDE DEF k
<1> QED
  BY <1>3, <1>4 DEF Own, k

LEMMA OwnTail ==
  ASSUME NEW q \in Hist, q # << >>, NEW t, NEW made, Own(t, q, 0, made)
  PROVE  /\ Own(t, Tail(q), 0, made)
         /\ Head(q).by = t /\ Head(q).op = "add" /\ Head(q).n <= made
         /\ \A j \in 1 .. Len(Tail(q)) : Head(q).n < Tail(q)[j].n
<1>1. /\ Len(q) \in Nat /\ Len(q) > 0 /\ Head(q) = q[1]
      /\ Len(Tail(q)) = Len(q) - 1 /\ \A i \in 1 .. Len(Tail(q)) : Tail(q)[i] = q[i + 1]
  BY EmptySeq, LenProperties, HeadTailProperties DEF Hist
<1>2. /\ \A i \in 1 .. Len(q) : q[i].by = t /\ q[i].op = "add" /\ q[i].n <= made
      /\ \A i, j \in 1 .. Len(q) : i < j => q[i].n < q[j].n
  BY DEF Own
<1> QED
  BY <1>1, <1>2 DEF Own

LEMMA OwnSince ==
  ASSUME NEW b \in Hist, NEW h \in Hist, IsPrefix(b, h), NEW t, NEW made,
         Own(t, h, Len(b), made)
  PROVE  Own(t, Since(b, h), 0, made)
<1> DEFINE s == Since(b, h)
           m == Len(b)
<1>1. m \in Nat /\ Len(h) \in Nat /\ m <= Len(h)
  BY PrefixElements, LenProperties DEF Hist
<1>2. Len(s) = Len(h) - m /\ \A i \in 1 .. Len(s) : s[i] = h[m + i]
  BY <1>1 DEF Since, Hist
<1>3. /\ \A i \in m + 1 .. Len(h) : h[i].by = t /\ h[i].op = "add" /\ h[i].n <= made
      /\ \A i, j \in m + 1 .. Len(h) : i < j => h[i].n < h[j].n
  BY DEF Own
<1> HIDE DEF s
<1>4. \A i \in 1 .. Len(s) : m + i \in m + 1 .. Len(h)
  BY <1>1, <1>2
<1>5. \A i \in 1 .. Len(s) : s[i].by = t /\ s[i].op = "add" /\ s[i].n <= made
  BY <1>2, <1>3, <1>4
<1>6. \A i, j \in 1 .. Len(s) : i < j => s[i].n < s[j].n
  <2> SUFFICES ASSUME NEW i \in 1 .. Len(s), NEW j \in 1 .. Len(s), i < j PROVE s[i].n < s[j].n
    OBVIOUS
  <2>1. m + i < m + j
    BY <1>1
  <2> QED
    BY <1>2, <1>3, <1>4, <2>1
<1> QED
  BY <1>5, <1>6 DEF Own, s

-----------------------------------------------------------------------------
(* What the actions keep of OwnInv, when no integration is killed *)

LEMMA InitOwn == Init => OwnInv
<1> SUFFICES ASSUME Init PROVE OwnInv
  OBVIOUS
<1>1. run.at = "idle" /\ run.source = << >>
  BY DEF Init, Idle
<1> QED
  BY <1>1 DEF Init, OwnInv, TaskOwn, RunOwn, RebasesOwnCommits, At

\* A task that a step leaves alone.
LEMMA TaskOwnStays ==
  ASSUME NEW u \in Tasks, TaskOwn(u),
         UNCHANGED <<alive[u], head[u], base[u], rebasing[u], work[u]>>,
         At("rebased") /\ run.task = u => (At("rebased") /\ run.task = u)'
  PROVE  TaskOwn(u)'
BY DEF TaskOwn, Settled, Own

\* A run that a step leaves alone, with its task.
LEMMA RunOwnStays ==
  ASSUME IInv, IInv', RunOwn, [Next]_vars, UNCHANGED run,
         ~At("idle") => UNCHANGED <<alive[run.task], head[run.task], base[run.task],
                                    todo[run.task], rebasing[run.task], work[run.task]>>
  PROVE  RunOwn'
<1> USE DEF At
<1>1. ASSUME ~At("idle") PROVE IsPrefix(run.prev, mains'[run.branch])
  <2>1. /\ run.branch \in Branches /\ Branches \subseteq Heads /\ run.prev \in Hist
        /\ mains \in [Heads -> Hist] /\ mains' \in [Heads -> Hist]
    BY DEF IInv, Heads
  <2>2. IsPrefix(mains[run.branch], mains'[run.branch])
    BY <2>1, BranchesGrow
  <2>3. IsPrefix(run.prev, mains[run.branch])
    BY <1>1 DEF RunOwn
  <2>4. mains[run.branch] \in Hist /\ mains'[run.branch] \in Hist
    BY <2>1
  <2> QED
    BY <2>1, <2>2, <2>3, <2>4, PrefixTransitive
<1>2. RebasesOwnCommits'
  BY DEF RunOwn, RebasesOwnCommits
<1>3. ~At("idle") => alive'[run.task] /\ (rebasing'[run.task] <=> rebasing[run.task])
  BY DEF RunOwn
<1>4. base[run.task] = run.prev /\ ~At("idle") => base'[run.task] = run.prev
  OBVIOUS
<1>5. Rebased(run.task, run.prev) /\ ~At("idle") => Rebased(run.task, run.prev)'
  BY ZenonT(40) DEF Rebased, Own
<1> QED
  BY <1>1, <1>2, <1>3, <1>4, <1>5 DEF RunOwn

\* An integration that is over says nothing.
LEMMA RunOwnOver == Raise => RunOwn'
BY DEF Raise, Idle, RunOwn, RebasesOwnCommits, At

\* A step of the integration that changes no more than where it is.
LEMMA OthersOwn ==
  ASSUME IInv, OwnInv, NEW t \in Tasks, run.task = t,
         \A u \in Tasks \ {t} :
           UNCHANGED <<alive[u], head[u], base[u], rebasing[u], work[u]>>
  PROVE  \A u \in Tasks \ {t} : TaskOwn(u)'
BY DEF OwnInv, TaskOwn, Settled, Own

LEMMA CommitOwn ==
  ASSUME IInv, OwnInv, NEW t \in Tasks, alive[t], Commit(t), UNCHANGED <<alive, base, rebasing>>,
         ~(At("rebased") /\ run.task = t)
  PROVE  TaskOwn(t)'
<1> DEFINE e == [by |-> t, n |-> work[t] + 1, op |-> "add"]
<1>1. /\ work[t] \in Nat /\ work'[t] = work[t] + 1
      /\ head[t] \in Hist /\ base[t] \in Hist /\ head'[t] = Append(head[t], e)
  BY DEF IInv, Commit
<1>2. e \in Entries
  BY IntegrationAssumption DEF IInv, Commit, Entries, Authors, Numbers
<1>3. IsPrefix(base[t], head[t]) /\ (Settled(t) => Own(t, head[t], Len(base[t]), work[t]))
  BY DEF OwnInv, TaskOwn
<1>4. Append(head[t], e) \in Hist /\ IsPrefix(head[t], Append(head[t], e))
  BY <1>1, <1>2, PrefixAppend
<1>5. IsPrefix(base[t], Append(head[t], e))
  BY <1>1, <1>3, <1>4, PrefixTransitive
<1>6. ASSUME ~rebasing[t]
      PROVE  Own(t, Append(head[t], e), Len(base[t]), work[t] + 1)
  <2>1. Own(t, head[t], Len(base[t]), work[t])
    BY <1>3, <1>6 DEF Settled
  <2>2. Len(base[t]) \in Nat /\ Len(head[t]) \in Nat
    BY <1>1, LenProperties DEF Hist
  <2>3. Own(t, head[t], Len(base[t]), work[t] + 1)
    BY <1>1, <2>1, <2>2, OwnMore
  <2>4. \A i \in Len(base[t]) + 1 .. Len(head[t]) : head[t][i].n < work[t] + 1
    <3>1. \A i \in Len(base[t]) + 1 .. Len(head[t]) : head[t][i].n \in Nat
      BY <1>1, <2>2, EntryNumber
    <3> QED
      BY <1>1, <2>1, <3>1 DEF Own
  <2> QED
    BY SMTT(30), <1>1, <1>2, <2>2, <2>3, <2>4, OwnAppend
<1> QED
  BY <1>1, <1>5, <1>6 DEF TaskOwn, Settled

\* A step of the rebase: the commit applied comes after those before it.
LEMMA AppliedOwn ==
  ASSUME IInv, OwnInv, NEW t \in Tasks, run.task = t, At("rebase") \/ At("conflict"),
         Apply(t), todo[t] # << >>, UNCHANGED work
  PROVE  Rebased(t, run.prev)' \/ run'.prev # run.prev
<1> DEFINE q == todo[t]
           h == head[t]
           e == Head(q)
           p == run.prev
<1>1. h \in Hist /\ q \in Hist /\ p \in Hist /\ work[t] \in Nat
  BY DEF IInv
<1>2. head'[t] = (IF Empty(h, e) THEN h ELSE Append(h, e)) /\ todo'[t] = Tail(q)
  BY DEF Apply, IInv
<1>3. /\ IsPrefix(p, h) /\ Own(t, h, Len(p), work[t]) /\ Own(t, q, 0, work[t])
      /\ \A i \in Len(p) + 1 .. Len(h), j \in 1 .. Len(q) : h[i].n < q[j].n
  BY DEF OwnInv, RunOwn, Rebased
<1>4. /\ Own(t, Tail(q), 0, work[t])
      /\ e.by = t /\ e.op = "add" /\ e.n <= work[t]
      /\ \A j \in 1 .. Len(Tail(q)) : e.n < Tail(q)[j].n
  BY <1>1, <1>3, OwnTail
<1>5. /\ Len(q) \in Nat /\ Len(q) > 0 /\ e = q[1] /\ e \in Entries
      /\ Len(Tail(q)) = Len(q) - 1 /\ \A i \in 1 .. Len(Tail(q)) : Tail(q)[i] = q[i + 1]
  BY <1>1, EmptySeq, LenProperties, HeadTailProperties DEF Hist
<1>6. Len(p) \in Nat /\ Len(h) \in Nat
  BY <1>1, LenProperties DEF Hist
<1>7. \A i \in Len(p) + 1 .. Len(h) :
        h[i].n < e.n /\ \A j \in 1 .. Len(Tail(q)) : h[i].n < Tail(q)[j].n
  BY <1>3, <1>5
<1>8. CASE Empty(h, e)
  BY <1>1, <1>2, <1>3, <1>4, <1>7, <1>8 DEF Rebased
<1>9. CASE ~Empty(h, e)
  <2> DEFINE k == Append(h, e)
  <2>1. k \in Hist /\ IsPrefix(h, k)
    BY <1>1, <1>5, PrefixAppend
  <2>2. IsPrefix(p, k)
    BY <1>1, <1>3, <2>1, PrefixTransitive
  <2>3. Own(t, k, Len(p), work[t])
    BY <1>1, <1>3, <1>4, <1>5, <1>6, <1>7, OwnAppend
  <2>4. Len(k) = Len(h) + 1 /\ (\A i \in 1 .. Len(h) : k[i] = h[i]) /\ k[Len(h) + 1] = e
    BY <1>1, <1>5, AppendProperties DEF Hist
  <2>5. head'[t] = k
    BY <1>2, <1>9
  <2> HIDE DEF k
  <2>6. \A i \in Len(p) + 1 .. Len(k), j \in 1 .. Len(Tail(q)) : k[i].n < Tail(q)[j].n
    <3> SUFFICES ASSUME NEW i \in Len(p) + 1 .. Len(k), NEW j \in 1 .. Len(Tail(q))
                 PROVE  k[i].n < Tail(q)[j].n
      OBVIOUS
    <3>1. CASE i = Len(h) + 1
      BY <1>4, <2>4, <3>1
    <3>2. CASE i # Len(h) + 1
      BY SMTT(30), <1>6, <1>7, <2>4, <3>2
    <3> QED
      BY <3>1, <3>2
  <2> QED
    BY <1>2, <1>4, <2>2, <2>3, <2>5, <2>6 DEF Rebased
<1> QED
  BY <1>8, <1>9

LEMMA OwnNext ==
  ASSUME MaxCrashes = 0, IInv, IInv', OwnInv, [Next]_vars
  PROVE  OwnInv'
<1> USE DEF At, wt
<1>1. CASE UNCHANGED <<wt, work, run>>
  <2>1. \A u \in Tasks : TaskOwn(u)'
    BY <1>1, TaskOwnStays DEF OwnInv
  <2>2. RunOwn'
    BY <1>1, RunOwnStays DEF OwnInv
  <2> QED
    BY <2>1, <2>2 DEF OwnInv
<1>2. ASSUME NEW t \in Tasks, Create(t) PROVE OwnInv'
  <2>1. /\ head'[t] = mains[cur] /\ base'[t] = mains[cur] /\ mains[cur] \in Hist
        /\ ~alive[t]
    BY <1>2 DEF Create, IInv
  <2>2. TaskOwn(t)'
    BY <2>1, PrefixSelf, OwnNothing DEF TaskOwn
  <2>3. \A u \in Tasks \ {t} : TaskOwn(u)'
    BY <1>2, TaskOwnStays DEF Create, OwnInv, IInv
  <2>4. RunOwn'
    <3>1. ~At("idle") => run.task # t /\ run.task \in Tasks
      BY <2>1 DEF OwnInv, RunOwn, IInv
    <3> QED
      BY <1>2, <3>1, RunOwnStays DEF Create, OwnInv, IInv
  <2> QED
    BY <2>2, <2>3, <2>4 DEF OwnInv
<1>3. ASSUME NEW t \in Tasks, Edit(t) PROVE OwnInv'
  <2>1. \A u \in Tasks : TaskOwn(u)'
    BY <1>3, TaskOwnStays DEF Edit, OwnInv
  <2>2. RunOwn'
    BY <1>3, RunOwnStays DEF Edit, OwnInv
  <2> QED
    BY <2>1, <2>2 DEF OwnInv
<1>4. ASSUME NEW t \in Tasks, Checkpoint(t) PROVE OwnInv'
  <2>1. TaskOwn(t)'
    BY <1>4, CommitOwn DEF Checkpoint, Free
  <2>2. \A u \in Tasks \ {t} : TaskOwn(u)'
    BY <1>4, TaskOwnStays DEF Checkpoint, Commit, OwnInv, IInv
  <2>3. RunOwn'
    BY <1>4, RunOwnStays DEF Checkpoint, Free, Commit, OwnInv, IInv
  <2> QED
    BY <2>1, <2>2, <2>3 DEF OwnInv
<1>5. ASSUME NEW t \in Tasks, Cleanup(t) PROVE OwnInv'
  <2>1. TaskOwn(t)'
    BY <1>5 DEF Cleanup, Discard, TaskOwn, IInv
  <2>2. \A u \in Tasks \ {t} : TaskOwn(u)'
    BY ZenonT(40), <1>5, TaskOwnStays DEF Cleanup, Discard, OwnInv, IInv
  <2>3. RunOwn'
    BY <1>5, RunOwnStays DEF Cleanup, Free, Discard, OwnInv, IInv
  <2> QED
    BY <2>1, <2>2, <2>3 DEF OwnInv
<1>6. ASSUME NEW t \in Tasks, Begin(t) PROVE OwnInv'
  <2>11. PICK source \in Hist : source = Since(base[t], head[t])
    BY <1>6, SinceIsHistory DEF Begin, IInv
  <2>12. PICK p \in Hist : p = mains[cur]
    BY DEF IInv
  <2>1. /\ head[t] \in Hist /\ base[t] \in Hist /\ work[t] \in Nat
    BY DEF IInv
  <2>2. /\ run' = [at |-> "rebase", task |-> t, branch |-> cur, prev |-> p, source |-> source]
        /\ head'[t] = p /\ todo'[t] = source /\ rebasing'[t] /\ base'[t] = base[t]
        /\ work'[t] = work[t] /\ alive'[t]
        /\ IsPrefix(base[t], head[t]) /\ IsPrefix(base[t], p) /\ UNCHANGED mains /\ p = mains[cur]
    BY <1>6, <2>11, <2>12 DEF Begin, IInv
  <2>3. Own(t, head[t], Len(base[t]), work[t])
    BY <1>6 DEF Begin, OwnInv, TaskOwn, Settled
  <2>4. Own(t, source, 0, work[t])
    BY <2>1, <2>2, <2>3, <2>11, OwnSince
  <2>5. TaskOwn(t)'
    BY <2>2 DEF TaskOwn, Settled
  <2>6. \A u \in Tasks \ {t} : TaskOwn(u)'
    BY ZenonT(40), <1>6, TaskOwnStays DEF Begin, OwnInv, IInv
  <2>7. Rebased(t, p)'
    <3>1. IsPrefix(p, p) /\ Own(t, p, Len(p), work[t])
      BY <2>1, PrefixSelf, OwnNothing
    <3>2. Len(p) \in Nat
      BY <2>1, LenProperties DEF Hist
    <3>3. \A i \in Len(p) + 1 .. Len(p), j \in 1 .. Len(source) : p[i].n < source[j].n
      BY <3>2
    <3> QED
      BY <2>2, <2>4, <3>1, <3>3 DEF Rebased
  <2>8. RebasesOwnCommits'
    <3>1. DOMAIN source = 1 .. Len(source)
      BY <2>1, LenProperties DEF Hist
    <3> QED
      BY <2>2, <2>4, <3>1 DEF RebasesOwnCommits, Own
  <2>9. IsPrefix(p, p)
    BY <2>1, PrefixSelf
  <2>10. RunOwn'
    BY <2>2, <2>7, <2>8, <2>9 DEF RunOwn
  <2> QED
    BY <2>5, <2>6, <2>10 DEF OwnInv
<1>7. CASE Integrate
  <2>0. ~At("idle") /\ run.task \in Tasks
    BY <1>7 DEF IInv, Integrate, Pick, Conflict, Resolve, ResolveFails, RebaseEnds,
                UpdateBase, Validate, ValidateFails, Check, Merge, Finish
  <2>1. PICK t \in Tasks : ~At("idle") /\ run.task = t
    BY <2>0
  <2>16. PICK p \in Hist : run.prev = p
    BY DEF IInv
  <2>2. \A phase : Goto(phase) =>
          run'.at = phase /\ run'.task = t /\ run'.prev = p /\ run'.source = run.source
                          /\ run'.branch = run.branch
    BY <2>1, <2>16 DEF Goto, IInv
  <2>3. /\ head[t] \in Hist /\ base[t] \in Hist /\ todo[t] \in Hist /\ p \in Hist
        /\ work[t] \in Nat
    BY <2>1, <2>16, <2>1 DEF IInv
  <2>4. TaskOwn(t) /\ RunOwn /\ alive[t] /\ RebasesOwnCommits
    BY <2>1, <2>16, <2>1 DEF OwnInv, RunOwn
  <2>5. run'.branch = run.branch /\ run'.prev = p => IsPrefix(p, mains'[run'.branch])
    <3>1. run.branch \in Branches /\ mains[run.branch] \in Hist /\ mains'[run.branch] \in Hist
      BY <2>1, <2>16 DEF IInv, Heads
    <3>2. IsPrefix(p, mains[run.branch]) /\ IsPrefix(mains[run.branch], mains'[run.branch])
      BY <2>1, <2>16, <3>1, BranchesGrow DEF OwnInv, RunOwn
    <3> QED
      BY <2>1, <2>16, <2>3, <3>1, <3>2, PrefixTransitive
  <2>6. run'.task = t /\ run'.source = run.source => RebasesOwnCommits'
    BY <2>1, <2>16, <2>4 DEF RebasesOwnCommits
  <2>7. \A u \in Tasks \ {t} : TaskOwn(u)'
    <3>1. \A u \in Tasks \ {t} :
            UNCHANGED <<alive[u], head[u], base[u], rebasing[u], work[u]>>
      BY <1>7, <2>1, <2>16, <2>1 DEF IInv, Integrate, Pick, Conflict, Resolve, ResolveFails, RebaseEnds,
                UpdateBase, Validate, ValidateFails, Check, Merge, Finish, Apply, Commit
    <3> QED
      BY <2>1, <2>16, <3>1, OthersOwn DEF OwnInv, TaskOwn
  <2>8. CASE Pick \/ Resolve
    <3>1. /\ At("rebase") \/ At("conflict")
          /\ Apply(t) /\ todo[t] # << >> /\ UNCHANGED <<work, base, rebasing, alive>>
      BY <2>1, <2>16, <2>8 DEF Pick, Resolve, IInv
    <3>2. /\ run'.at = "rebase" /\ run'.task = t /\ run'.prev = p /\ run'.source = run.source
          /\ run'.branch = run.branch
      BY <2>1, <2>16, <2>2, <2>8 DEF Pick, Resolve
    <3>3. Rebased(t, p)'
      BY <2>1, <2>16, <3>1, <3>2, AppliedOwn
    <3>4. rebasing[t] /\ rebasing'[t] /\ alive'[t]
      BY <2>1, <2>16, <2>4, <3>1 DEF RunOwn
    <3>5. IsPrefix(base[t], head'[t])
      <4>1. head'[t] = IF Empty(head[t], Head(todo[t])) THEN head[t]
                                                       ELSE Append(head[t], Head(todo[t]))
        BY <2>1, <2>16, <3>1 DEF Apply, IInv
      <4>2. head'[t] \in Hist /\ IsPrefix(head[t], head'[t])
        BY <2>1, <2>16, <2>3, <3>1, <4>1, AppliedIsHistory
      <4> QED
        BY <2>1, <2>16, <2>3, <2>4, <4>2, PrefixTransitive DEF TaskOwn
    <3>6. TaskOwn(t)'
      BY <2>1, <2>16, <3>1, <3>4, <3>5 DEF TaskOwn, Settled
    <3>7. RunOwn'
      BY <2>1, <2>16, <2>5, <2>6, <3>2, <3>3, <3>4 DEF RunOwn
    <3> QED
      BY <2>1, <2>16, <2>7, <3>6, <3>7 DEF OwnInv
  <2>9. CASE Conflict
    <3>1. /\ run'.at = "conflict" /\ run'.task = t /\ run'.prev = p /\ run'.source = run.source
          /\ run'.branch = run.branch
      BY <2>1, <2>16, <2>2, <2>9 DEF Conflict
    <3>2. UNCHANGED <<alive, head, base, todo, rebasing, work>>
      BY <2>1, <2>16, <2>9 DEF Conflict
    <3>3. Rebased(t, p) /\ rebasing[t]
      BY <2>1, <2>16, <2>4, <2>9 DEF RunOwn, Conflict
    <3>4. Rebased(t, p)'
      BY <2>1, <2>16, <3>1, <3>2, <3>3 DEF Rebased, Own
    <3>5. TaskOwn(t)'
      BY <2>1, <2>16, <2>4, <2>9, <3>2, TaskOwnStays DEF Conflict
    <3>6. RunOwn'
      BY <2>1, <2>16, <2>4, <2>5, <2>6, <3>1, <3>2, <3>3, <3>4 DEF RunOwn
    <3> QED
      BY <2>1, <2>16, <2>7, <3>5, <3>6 DEF OwnInv
  <2>10. CASE ResolveFails \/ ValidateFails
    <3>1. TaskOwn(t)'
      BY <2>1, <2>16, <2>4, <2>10, TaskOwnStays DEF ResolveFails, ValidateFails
    <3> QED
      BY <2>1, <2>16, <2>7, <2>10, <3>1, RunOwnOver DEF OwnInv, ResolveFails, ValidateFails
  <2>11. CASE RebaseEnds
    <3>1. /\ run'.at = "rebased" /\ run'.task = t /\ run'.prev = p /\ run'.source = run.source
          /\ run'.branch = run.branch
      BY <2>1, <2>16, <2>2, <2>11 DEF RebaseEnds
    <3>2. UNCHANGED <<alive, head, base, todo, work>> /\ ~rebasing'[t]
      BY <2>1, <2>16, <2>11 DEF RebaseEnds, IInv
    <3>3. Rebased(t, p)'
      BY <2>1, <2>16, <2>4, <2>11, <3>1, <3>2 DEF RebaseEnds, RunOwn, Rebased, Own
    <3>4. TaskOwn(t)'
      BY <2>1, <2>16, <2>4, <3>1, <3>2 DEF TaskOwn, Settled
    <3>5. RunOwn'
      BY <2>1, <2>16, <2>4, <2>5, <2>6, <3>1, <3>2, <3>3 DEF RunOwn
    <3> QED
      BY <2>1, <2>16, <2>7, <3>4, <3>5 DEF OwnInv
  <2>12. CASE UpdateBase
    <3>1. /\ run'.at = "validate" /\ run'.task = t /\ run'.prev = p /\ run'.source = run.source
          /\ run'.branch = run.branch
      BY <2>1, <2>16, <2>2, <2>12 DEF UpdateBase
    <3>2. base'[t] = p /\ IsPrefix(p, head[t]) /\ UNCHANGED <<alive, head, rebasing, work>>
      BY <2>1, <2>16, <2>12 DEF UpdateBase, IInv
    <3>6. ~rebasing[t]
      BY <2>1, <2>4, <2>12 DEF UpdateBase, RunOwn
    <3>3. Own(t, head[t], Len(p), work[t])
      BY <2>1, <2>16, <2>4, <2>12 DEF UpdateBase, RunOwn, Rebased
    <3>4. TaskOwn(t)'
      BY <2>1, <2>16, <3>2, <3>3 DEF TaskOwn
    <3>5. RunOwn'
      BY <2>1, <2>16, <2>4, <2>5, <2>6, <3>1, <3>2, <3>6 DEF RunOwn
    <3> QED
      BY <2>1, <2>16, <2>7, <3>4, <3>5 DEF OwnInv
  <2>13. CASE Validate
    <3>1. /\ run'.at = "check" /\ run'.task = t /\ run'.prev = p /\ run'.source = run.source
          /\ run'.branch = run.branch
      BY <2>1, <2>16, <2>2, <2>13 DEF Validate
    <3>2. TaskOwn(t)'
      <4>1. CASE Commit(t)
        BY <2>1, <2>16, <2>4, <2>13, <4>1, CommitOwn DEF Validate
      <4>2. CASE UNCHANGED <<work, head, state>>
        BY <2>1, <2>16, <2>4, <2>13, <4>2, TaskOwnStays DEF Validate
      <4> QED
        BY <2>1, <2>16, <2>13, <4>1, <4>2 DEF Validate
    <3>3. base'[t] = p /\ alive'[t] /\ ~rebasing'[t]
      BY <2>1, <2>16, <2>4, <2>13 DEF Validate, RunOwn
    <3>4. RunOwn'
      BY <2>1, <2>16, <2>5, <2>6, <3>1, <3>3 DEF RunOwn
    <3> QED
      BY <2>1, <2>16, <2>7, <3>2, <3>4 DEF OwnInv
  <2>14. CASE Check \/ Merge
    <3>1. UNCHANGED wt /\ UNCHANGED work /\ ~At("rebased") /\ base[t] = p /\ ~rebasing[t]
      BY <2>1, <2>16, <2>4, <2>14 DEF Check, Merge, RunOwn
    <3>2. TaskOwn(t)'
      BY <2>1, <2>16, <2>4, <3>1, TaskOwnStays
    <3>3. Raise \/ Goto("merge") \/ Goto("merged")
      BY <2>1, <2>16, <2>14 DEF Check, Merge
    <3>4. CASE ~Raise
      <4>1. /\ run'.at \in {"merge", "merged"} /\ run'.task = t /\ run'.prev = p
            /\ run'.source = run.source /\ run'.branch = run.branch
        BY <2>1, <2>16, <2>2, <3>3, <3>4
      <4> QED
        BY <2>1, <2>16, <2>4, <2>5, <2>6, <2>7, <3>1, <3>2, <4>1 DEF OwnInv, RunOwn
    <3> QED
      BY <2>1, <2>16, <2>7, <3>2, <3>4, RunOwnOver DEF OwnInv
  <2>15. CASE Finish
    <3>1. TaskOwn(t)'
      <4>1. CASE mains[cur] = head[t]
        <5>1. base'[t] = head[t] /\ UNCHANGED <<alive, head, work>>
          BY <2>1, <2>16, <2>15, <4>1 DEF Finish, IInv
        <5> QED
          BY <2>1, <2>16, <2>3, <5>1, PrefixSelf, OwnNothing DEF TaskOwn
      <4>2. CASE mains[cur] # head[t]
        BY <2>1, <2>16, <2>4, <2>15, <4>2, TaskOwnStays DEF Finish
      <4> QED
        BY <4>1, <4>2
    <3> QED
      BY <2>1, <2>16, <2>7, <2>15, <3>1, RunOwnOver DEF OwnInv, Finish
  <2> QED
    BY <1>7, <2>1, <2>16, <2>8, <2>9, <2>10, <2>11, <2>12, <2>13, <2>14, <2>15 DEF Integrate
<1>8. \/ UNCHANGED <<wt, work, run>>
      \/ \E t \in Tasks : Create(t) \/ Edit(t) \/ Checkpoint(t) \/ Cleanup(t) \/ Begin(t)
      \/ Integrate
  <2>1. ~Crash
    BY DEF Crash, IInv
  <2> QED
    BY <2>1 DEF Next, vars, PersonCommits, PersonReverts, PersonSwitches, Push
<1> QED
  BY <1>1, <1>2, <1>3, <1>4, <1>5, <1>6, <1>7, <1>8

-----------------------------------------------------------------------------
(* The recorded base and the head *)

LEMMA AncestorNext == IInv /\ IInv' /\ BaseIsAncestor /\ [Next]_vars => BaseIsAncestor'
<1> SUFFICES ASSUME IInv, IInv', BaseIsAncestor, [Next]_vars, NEW u \in Tasks, alive'[u]
             PROVE  IsPrefix(base'[u], head'[u])
  BY DEF BaseIsAncestor
<1> USE DEF wt, At
<1>1. head[u] \in Hist /\ head'[u] \in Hist /\ base[u] \in Hist /\ base'[u] \in Hist
  BY DEF IInv
<1>2. CASE base'[u] = base[u] /\ alive[u] /\ IsPrefix(head[u], head'[u])
  BY <1>1, <1>2, PrefixTransitive DEF BaseIsAncestor
<1>3. CASE UNCHANGED <<base[u], alive[u], head[u]>>
  BY <1>3 DEF BaseIsAncestor
<1>4. ASSUME NEW t \in Tasks, Create(t) PROVE IsPrefix(base'[u], head'[u])
  BY <1>1, <1>3, <1>4, PrefixSelf DEF Create, IInv
<1>5. ASSUME NEW t \in Tasks, Commit(t), UNCHANGED <<base, alive>>
      PROVE  IsPrefix(base'[u], head'[u])
  <2>1. CASE t = u
    <3>1. [by |-> t, n |-> work[t] + 1, op |-> "add"] \in Entries
      BY <1>5, IntegrationAssumption DEF IInv, Commit, Entries, Authors, Numbers
    <3>2. head'[u] = Append(head[u], [by |-> t, n |-> work[t] + 1, op |-> "add"])
      BY <1>5, <2>1 DEF Commit, IInv
    <3>3. IsPrefix(head[u], head'[u])
      BY <1>1, <3>1, <3>2, <2>1, PrefixAppend
    <3> QED
      BY <1>2, <1>5, <3>3
  <2>2. CASE t # u
    BY <1>3, <1>5, <2>2 DEF Commit, IInv
  <2> QED
    BY <2>1, <2>2
<1>6. ASSUME NEW t \in Tasks, Cleanup(t) PROVE IsPrefix(base'[u], head'[u])
  BY <1>3, <1>6 DEF Cleanup, Discard, IInv
<1>7. ASSUME NEW t \in Tasks, Begin(t) PROVE IsPrefix(base'[u], head'[u])
  BY <1>3, <1>7 DEF Begin, IInv
<1>8. CASE Pick \/ Resolve
  <2>1. PICK t \in Tasks : run.task = t /\ Apply(t) /\ todo[t] # << >> /\ UNCHANGED <<base, alive>>
    BY <1>8 DEF Pick, Resolve, IInv
  <2>2. CASE t = u
    <3>1. head'[u] = IF Empty(head[u], Head(todo[u])) THEN head[u]
                                                      ELSE Append(head[u], Head(todo[u]))
      BY <2>1, <2>2 DEF Apply, IInv
    <3>2. todo[u] \in Hist
      BY DEF IInv
    <3>3. IsPrefix(head[u], head'[u])
      BY <1>1, <2>1, <2>2, <3>1, <3>2, AppliedIsHistory
    <3> QED
      BY <1>2, <2>1, <3>3
  <2>3. CASE t # u
    BY <1>3, <2>1, <2>3 DEF Apply, IInv
  <2> QED
    BY <2>2, <2>3
<1>9. CASE UpdateBase
  BY <1>3, <1>9 DEF UpdateBase, IInv
<1>10. CASE Finish
  <2>1. PICK t \in Tasks : run.task = t
    BY <1>10 DEF Finish, IInv
  <2>2. CASE t = u /\ mains[cur] = head[t]
    <3>1. base'[u] = head[u] /\ head'[u] = head[u]
      BY <1>10, <2>1, <2>2 DEF Finish, IInv
    <3> QED
      BY <1>1, <3>1, PrefixSelf
  <2>3. CASE ~(t = u /\ mains[cur] = head[t])
    BY <1>3, <1>10, <2>1, <2>3 DEF Finish, IInv
  <2> QED
    BY <2>2, <2>3
<1>11. \/ UNCHANGED <<base, alive, head>>
       \/ \E t \in Tasks : Create(t) \/ Cleanup(t) \/ Begin(t)
       \/ \E t \in Tasks : Commit(t) /\ UNCHANGED <<base, alive>>
       \/ Pick \/ Resolve \/ UpdateBase \/ Finish
  <2>1. CASE Validate
    <3>1. run.task \in Tasks
      BY <2>1 DEF Validate, IInv
    <3> QED
      BY <2>1, <3>1 DEF Validate
  <2> QED
    BY <2>1 DEF Next, vars, PersonCommits, PersonReverts, PersonSwitches, Push, Edit, Checkpoint,
       Integrate, Conflict, ResolveFails, RebaseEnds, ValidateFails, Check, Merge, Crash
<1> QED
  BY <1>3, <1>4, <1>5, <1>6, <1>7, <1>8, <1>9, <1>10, <1>11

-----------------------------------------------------------------------------
(* The steps of the integration as steps of Mainline *)

LEMMA SinceAppends ==
  ASSUME NEW h \in Hist, NEW k \in Hist, IsPrefix(h, k)
  PROVE  /\ Since(h, k) \in Hist /\ k = h \o Since(h, k)
         /\ k # h => Since(h, k) # << >>
<1> DEFINE s == Since(h, k)
<1>1. /\ Len(h) \in Nat /\ Len(k) \in Nat /\ Len(h) <= Len(k)
      /\ \A i \in 1 .. Len(h) : k[i] = h[i]
  BY PrefixElements, LenProperties DEF Hist
<1>2. s \in Hist
  BY SinceIsHistory
<1>3. Len(s) = Len(k) - Len(h) /\ \A i \in 1 .. Len(s) : s[i] = k[Len(h) + i]
  BY <1>1 DEF Since, Hist
<1> HIDE DEF s
<1>4. /\ h \o s \in Hist /\ Len(h \o s) = Len(k)
      /\ \A i \in 1 .. Len(k) : (h \o s)[i] = IF i <= Len(h) THEN h[i] ELSE s[i - Len(h)]
  BY <1>1, <1>2, <1>3, ConcatProperties DEF Hist
<1>5. ASSUME NEW i \in 1 .. Len(k) PROVE (h \o s)[i] = k[i]
  <2>1. CASE i <= Len(h)
    BY <1>1, <1>4, <2>1
  <2>2. CASE ~(i <= Len(h))
    <3>1. i - Len(h) \in 1 .. Len(s) /\ Len(h) + (i - Len(h)) = i
      BY <1>1, <1>3, <2>2
    <3> QED
      BY <1>3, <1>4, <2>2, <3>1
  <2> QED
    BY <2>1, <2>2
<1>6. k = h \o s
  BY <1>4, <1>5, SeqEqual DEF Hist
<1>7. s = << >> => k = h
  BY <1>6, ConcatEmptySeq DEF Hist
<1> QED
  BY <1>2, <1>6, <1>7 DEF s

LEMMA OwnLater ==
  ASSUME NEW h \in Hist, NEW t, NEW m \in Nat, NEW l \in Nat, m <= l, NEW made, Own(t, h, m, made)
  PROVE  Own(t, h, l, made)
<1>1. Len(h) \in Nat
  BY LenProperties DEF Hist
<1>2. \A i \in l + 1 .. Len(h) : i \in m + 1 .. Len(h)
  BY <1>1
<1> QED
  BY <1>2 DEF Own

\* A branch that grows, the others left alone.
LEMMA MainGrows ==
  ASSUME IInv, IInv', NEW b \in Branches, IsPrefix(mains[b], mains'[b]), mains'[b] # mains[b],
         \A c \in Branches \ {b} : mains'[c] = mains[c]
  PROVE  /\ Main!Extend(b)
         /\ Main!Appended(b) = Since(mains[b], mains'[b])
         /\ Since(mains[b], mains'[b]) \in Hist
<1>1. mains[b] \in Hist /\ mains'[b] \in Hist
  BY DEF IInv, Heads
<1>2. /\ Since(mains[b], mains'[b]) \in Hist
      /\ mains'[b] = mains[b] \o Since(mains[b], mains'[b])
      /\ Since(mains[b], mains'[b]) # << >>
  BY <1>1, SinceAppends
<1>3. Main!Appended(b) = Since(mains[b], mains'[b])
  BY DEF Main!Appended, Since
<1>4. Main!Extend(b)
  BY <1>2, <1>3 DEF Main!Extend
<1> QED
  BY <1>2, <1>3, <1>4

LEMMA MainStep ==
  ASSUME MaxCrashes = 0, Branches = {First}, IInv, IInv', OwnInv, [Next]_vars
  PROVE  [Main!Next]_([b \in Branches |-> mains[b]])
<1> DEFINE g == [b \in Branches |-> mains[b]]
<1>1. CASE mains'[First] = mains[First]
  <2>1. g' = g
    BY <1>1
  <2> QED
    BY <2>1
<1>2. CASE mains'[First] # mains[First]
  <2>1. /\ First \in Branches /\ Detached # First /\ First \in Heads
        /\ mains[First] \in Hist /\ mains'[First] \in Hist /\ mains \in [Heads -> Hist]
    BY IntegrationAssumption DEF IInv, Heads
  <2>2. IsPrefix(mains[First], mains'[First])
    BY <2>1, BranchesGrow
  <2> DEFINE s == Since(mains[First], mains'[First])
  <2>3. Main!Extend(First) /\ Main!Appended(First) = s /\ s \in Hist
    BY <1>2, <2>1, <2>2, MainGrows
  <2>4. CASE PersonCommits \/ PersonReverts
    <3>1. PICK e \in Entries : Push(e) /\ (e.by \notin Tasks \/ e.op = "revert")
      <4>1. CASE PersonCommits
        <5>1. PICK op \in {"add", "merge"} : Push([by |-> Person, n |-> pushed + 1, op |-> op])
          BY <4>1 DEF PersonCommits
        <5>2. pushed + 1 \in Numbers
          BY <4>1, IntegrationAssumption DEF PersonCommits, Numbers, IInv
        <5>3. [by |-> Person, n |-> pushed + 1, op |-> op] \in Entries
          BY <5>2 DEF Entries, Authors
        <5> QED
          BY <5>1, <5>3, IntegrationAssumption
      <4>2. CASE PersonReverts
        <5>1. PICK i \in DOMAIN mains[cur] : Push([mains[cur][i] EXCEPT !.op = "revert"])
          BY <4>2 DEF PersonReverts
        <5>2. mains[cur] \in Seq(Entries)
          BY DEF IInv, Hist
        <5>3. mains[cur][i] \in Entries
          BY <5>1, <5>2, ElementOfSeq, LenProperties
        <5>4. /\ [mains[cur][i] EXCEPT !.op = "revert"] \in Entries
              /\ [mains[cur][i] EXCEPT !.op = "revert"].op = "revert"
          BY <5>3 DEF Entries
        <5> QED
          BY <5>1, <5>4
      <4> QED
        BY <2>4, <4>1, <4>2
    <3>2. mains'[First] = Append(mains[First], e)
      BY <1>2, <2>1, <3>1 DEF Push
    <3>3. Len(mains'[First]) = Len(mains[First]) + 1 /\ mains'[First][Len(mains[First]) + 1] = e
      BY <2>1, <3>2, AppendProperties DEF Hist
    <3>4. Len(mains[First]) \in Nat
      BY <2>1, LenProperties DEF Hist
    <3>5. Len(s) = 1 /\ s[1] = e
      BY <2>1, <3>3, <3>4 DEF Since, Hist
    <3>6. Main!Commit(First)
      BY <2>3, <3>1, <3>5 DEF Main!Commit
    <3> QED
      BY <2>1, <3>6 DEF Main!Next
  <2>5. CASE Merge
    <3>1. PICK t \in Tasks : run.task = t
      BY <2>5 DEF Merge, At, IInv
    <3>2. /\ mains'[First] = head[t] /\ head[t] \in Hist /\ run.prev \in Hist /\ work[t] \in Nat
          /\ run.branch = First /\ At("merge")
      BY <1>2, <2>1, <2>5, <3>1 DEF Merge, IInv
    <3>3. /\ base[t] = run.prev /\ ~rebasing[t] /\ alive[t]
          /\ IsPrefix(run.prev, mains[First])
      BY <3>1, <3>2 DEF OwnInv, RunOwn, At
    <3>4. Own(t, head[t], Len(run.prev), work[t])
      BY <3>1, <3>2, <3>3 DEF OwnInv, TaskOwn, Settled, At
    <3>5. /\ Len(run.prev) \in Nat /\ Len(mains[First]) \in Nat
          /\ Len(run.prev) <= Len(mains[First])
      BY <2>1, <3>2, <3>3, PrefixElements, LenProperties DEF Hist
    <3>6. Own(t, head[t], Len(mains[First]), work[t])
      BY <3>2, <3>4, <3>5, OwnLater
    <3>7. Own(t, s, 0, work[t])
      BY <2>1, <2>2, <3>2, <3>6, OwnSince
    <3>8. DOMAIN s = 1 .. Len(s) /\ \A i \in 1 .. Len(s) : s[i] \in Entries
      BY <2>3, LenProperties, ElementOfSeq DEF Hist
    <3> HIDE DEF s
    <3>9. Main!WorkOf(t, s)
      BY <3>7, <3>8 DEF Main!WorkOf, Own
    <3>10. Main!Integrate(First, t)
      BY <2>3, <3>9 DEF Main!Integrate
    <3> QED
      BY <2>1, <3>10 DEF Main!Next
  <2>6. PersonCommits \/ PersonReverts \/ Merge
    <3>1. ~PersonSwitches
      BY <1>2, <2>1 DEF PersonSwitches
    <3> QED
      BY <1>2, <3>1
         DEF Next, vars, Create, Edit, Checkpoint, Cleanup, Begin, Integrate, Pick, Conflict,
             Resolve, ResolveFails, RebaseEnds, UpdateBase, Validate, ValidateFails, Check,
             Finish, Crash
  <2> QED
    BY <2>4, <2>5, <2>6
<1> QED
  BY <1>1, <1>2

-----------------------------------------------------------------------------
(* Theorems *)

\* Every variable has its type.
THEOREM TypeCorrect == Spec => []TypeOK
<1>1. IInv => TypeOK
  BY DEF IInv, TypeOK, Hist, States
<1> QED
  BY <1>1, InitInv, TypeNext, PTL DEF Spec

\* What is on a branch stays on it, whoever commits, reverts or switches branches between the
\* checks of _integrate_locked and its `merge --ff-only`.
THEOREM BranchesOnlyGrow == Spec => OnlyFastForwards
<1>1. IInv /\ [Next]_vars => [\A b \in Branches : IsPrefix(mains[b], mains'[b])]_vars
  BY BranchesGrow
<1> QED
  BY <1>1, InitInv, TypeNext, PTL DEF Spec, OnlyFastForwards

\* No commit of a task that has its worktree is lost, however often its integrations conflict,
\* fail or are killed and whatever people commit and revert meanwhile.
THEOREM NoCommitIsLost == Spec => []CommitsKept
<1>1. KeptInv => CommitsKept
  <2> SUFFICES ASSUME KeptInv, NEW t \in Tasks, alive[t], NEW n \in 1 .. work[t]
               PROVE  Kept(t, n)
    BY DEF CommitsKept
  <2>1. Safe(t, n)
    BY DEF KeptInv
  <2> QED
    BY <2>1 DEF Safe, Carries, Kept
<1> QED
  BY <1>1, InitInv, TypeNext, KeptNext, PTL DEF Spec

\* An integration rebases the commits of its own task and no others, however often integrations
\* conflicted or failed before it and whatever people do to the branches: a failed one leaves
\* either the old base with the old head, or a rebase in progress, with which the next is refused.
\* (A kill between the end of the rebase and the update of the base leaves the old base with the
\* new head, and TLC refutes this with one kill.)
THEOREM OwnCommitsOnly == ASSUME MaxCrashes = 0 PROVE Spec => []RebasesOwnCommits
<1>1. IInv /\ IInv' /\ OwnInv /\ [Next]_vars => OwnInv'
  BY OwnNext
<1>2. OwnInv => RebasesOwnCommits
  BY DEF OwnInv, RunOwn
<1> QED
  BY <1>1, <1>2, InitInv, InitOwn, TypeNext, PTL DEF Spec

\* The base recorded for a task stays an ancestor of its head, or integrate would refuse the
\* task for ever (worktrees.py): through conflicts, failures and kills at any point.
THEOREM BaseStaysAncestor == Spec => []BaseIsAncestor
<1>1. Init => BaseIsAncestor
  BY DEF Init, BaseIsAncestor
<1> QED
  BY <1>1, InitInv, TypeNext, AncestorNext, PTL DEF Spec

\* A commit of a task stays on a branch, in the archive or with its task for good, through
\* conflicts, kills and removals, but for those a stopped rebase had yet to apply when the
\* worktree it was stopped in is removed.
THEOREM CommitsStay == Spec => OnlyStoppedRebaseLoses
<1>1. Init => GoneInv
  <2>1. ASSUME Init PROVE run.at = "idle"
    BY <2>1 DEF Init, Idle
  <2> QED
    BY <2>1 DEF Init, GoneInv, At
<1>2. IInv /\ IInv' /\ GoneInv /\ [Next]_vars => GoneInv'
  BY GoneNext
<1>3. IInv /\ IInv' /\ KeptInv /\ [Next]_vars => KeptInv'
  BY KeptNext
<1> DEFINE Stays == \A t \in Tasks : \A n \in 1 .. work[t] : Kept(t, n) =>
                      \/ Kept(t, n)'
                      \/ /\ alive[t] /\ ~alive'[t] /\ rebasing[t]
                         /\ \E i \in DOMAIN todo[t] : todo[t][i].n = n
<1>4. IInv /\ IInv' /\ KeptInv /\ KeptInv' /\ GoneInv /\ [Next]_vars => [Stays]_vars
  BY LostNext
<1>5. [][Stays]_vars => OnlyStoppedRebaseLoses
  BY PTL DEF OnlyStoppedRebaseLoses
<1> HIDE DEF Stays
<1> QED
  BY <1>1, <1>2, <1>3, <1>4, <1>5, InitInv, TypeNext, PTL DEF Spec

\* With one branch and no kills the whole integration implements Mainline: to whoever looks at
\* the branch, rebase, conflicts, validation and merge are one append of the task's own commits.
\* (With two branches a person may switch between the check and the merge.)
THEOREM ImplementsMainline ==
  ASSUME MaxCrashes = 0, Branches = {First} PROVE Spec => MainlineSpec
<1>1. IInv => Main!Init
  BY DEF IInv, Main!Init, Hist, Heads
<1>2. IInv /\ IInv' /\ OwnInv /\ [Next]_vars => [Main!Next]_([b \in Branches |-> mains[b]])
  BY MainStep
<1>3. IInv /\ IInv' /\ OwnInv /\ [Next]_vars => OwnInv'
  BY OwnNext
<1> QED
  BY <1>1, <1>2, <1>3, InitInv, InitOwn, TypeNext, PTL DEF Spec, MainlineSpec, Main!Spec
=============================================================================
