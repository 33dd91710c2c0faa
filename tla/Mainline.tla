------------------------------ MODULE Mainline ------------------------------
(***************************************************************************)
(* What `aop integrate` promises about the main worktree's branches, and   *)
(* not how: people add commits as they like, and an integration appends,   *)
(* in one step, commits of one task, in the order they were made.  Nothing *)
(* is ever taken off a branch, and no commit but the task's own is put on  *)
(* it.                                                                     *)
(***************************************************************************)
EXTENDS Integers, Sequences

CONSTANTS
  Branches,   \* branches of the main worktree
  Tasks,      \* task names
  Entries     \* commits, a record with: by (a task, or else a person), n, op

VARIABLE mains   \* mains[b]: the history of branch b, oldest commit first

\* Commits of task t only, in the order in which they were made.
WorkOf(t, s) ==
  /\ \A i \in DOMAIN s : s[i] \in Entries /\ s[i].by = t /\ s[i].op = "add"
  /\ \A i, j \in DOMAIN s : i < j => s[i].n < s[j].n

Appended(b) == SubSeq(mains'[b], Len(mains[b]) + 1, Len(mains'[b]))

Init == \A b \in Branches : mains[b] \in Seq(Entries)

Extend(b) ==
  /\ mains' = [mains EXCEPT ![b] = @ \o Appended(b)]
  /\ Appended(b) # << >>

\* A commit of a person's own, or one that takes a commit back.
Commit(b) ==
  /\ Extend(b)
  /\ Len(Appended(b)) = 1
  /\ Appended(b)[1].by \notin Tasks \/ Appended(b)[1].op = "revert"

Integrate(b, t) ==
  /\ Extend(b)
  /\ WorkOf(t, Appended(b))

Next == \E b \in Branches : Commit(b) \/ \E t \in Tasks : Integrate(b, t)

Spec == Init /\ [][Next]_mains
=============================================================================
