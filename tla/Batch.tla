-------------------------------- MODULE Batch --------------------------------
(***************************************************************************)
(* BatchRunner.run (batch.py): a main thread that keeps at most Jobs tasks *)
(* in flight on a thread pool, collects their outcomes, and on Ctrl-C      *)
(* waits for what is in flight and reports the rest as not started.        *)
(* Ctrl-C may arrive between any two steps of the main thread.             *)
(***************************************************************************)
EXTENDS Naturals, FiniteSets

CONSTANTS
  Count,           \* tasks in the manifest, which are 1 .. Count
  Jobs,            \* tasks in flight at most, and threads in the pool
  MaxInterrupts    \* bound: presses of Ctrl-C

ASSUME BatchAssumption == Count \in Nat /\ Jobs \in Nat \ {0} /\ MaxInterrupts \in Nat

VARIABLES
  pc,            \* where the main thread is
  next,          \* the next task to submit
  hand,          \* the task the main thread is submitting or collecting, 0 for none
  active,        \* tasks in flight, as the main thread knows
  completed,     \* tasks the last wait() found done and not yet collected
  future,        \* future[t]: where t's call is in the pool
  outcome,       \* outcome[t]: what the batch will report of t
  interrupted,   \* the report will say so
  presses        \* presses of Ctrl-C so far

main == <<pc, next, hand, active, completed, outcome, interrupted, presses>>
vars == <<main, future>>

Tasks == 1 .. Count
Statuses == {"succeeded", "failed"}
Started == {"running"} \union Statuses
InTry == {"submit", "launch", "track", "loop", "wait", "drain", "collect"}
AfterInterrupt == {"wind_down", "wind_collect"}
Points == InTry \union AfterInterrupt \union {"shutdown", "abort", "report", "done", "exit", "aborted"}

TypeOK ==
  /\ pc \in Points
  /\ next \in 1 .. Count + 1
  /\ hand \in 0 .. Count
  /\ active \subseteq Tasks /\ completed \subseteq Tasks
  /\ future \in [Tasks -> Started \union {"none", "queued", "cancelled"}]
  /\ outcome \in [Tasks -> Statuses \union {"none", "not_started"}]
  /\ interrupted \in BOOLEAN
  /\ presses \in 0 .. MaxInterrupts

Init ==
  /\ pc = "submit" /\ next = 1 /\ hand = 0
  /\ active = {} /\ completed = {}
  /\ future = [t \in Tasks |-> "none"]
  /\ outcome = [t \in Tasks |-> "none"]
  /\ interrupted = FALSE /\ presses = 0

At(point) == pc = point
Goto(point) == pc' = point
Finished == {t \in Tasks : future[t] \in Statuses}

-----------------------------------------------------------------------------
(* submit_available *)

\* Slip: the number in flight is not looked at.
TakeAny ==
  /\ At("submit")
  /\ next <= Count
  /\ hand' = next
  /\ next' = next + 1
  /\ Goto("launch")
  /\ UNCHANGED <<active, completed, future, outcome, interrupted, presses>>

Take ==
  /\ At("submit")
  /\ Cardinality(active) < Jobs /\ next <= Count
  /\ hand' = next
  /\ next' = next + 1
  /\ Goto("launch")
  /\ UNCHANGED <<active, completed, future, outcome, interrupted, presses>>

Launch ==
  /\ At("launch")
  /\ future' = [future EXCEPT ![hand] = "queued"]
  /\ Goto("track")
  /\ UNCHANGED <<next, hand, active, completed, outcome, interrupted, presses>>

Track ==
  /\ At("track")
  /\ active' = active \union {hand}
  /\ hand' = 0
  /\ Goto("submit")
  /\ UNCHANGED <<next, completed, future, outcome, interrupted, presses>>

Submitted ==
  /\ At("submit")
  /\ Cardinality(active) >= Jobs \/ next > Count
  /\ Goto("loop")
  /\ UNCHANGED <<next, hand, active, completed, future, outcome, interrupted, presses>>

-----------------------------------------------------------------------------
(* The main loop *)

Loop ==
  /\ At("loop")
  /\ Goto(IF active = {} THEN "shutdown" ELSE "wait")
  /\ UNCHANGED <<next, hand, active, completed, future, outcome, interrupted, presses>>

\* wait(FIRST_COMPLETED)
Wait ==
  /\ At("wait")
  /\ active \intersect Finished # {}
  /\ completed' = active \intersect Finished
  /\ Goto("drain")
  /\ UNCHANGED <<next, hand, active, future, outcome, interrupted, presses>>

\* Slip: the future stays among those in flight.
PopKeeps ==
  /\ At("drain")
  /\ \E t \in completed : completed' = completed \ {t} /\ hand' = t
  /\ Goto("collect")
  /\ UNCHANGED <<next, active, future, outcome, interrupted, presses>>

Pop ==
  /\ At("drain")
  /\ \E t \in completed :
       /\ completed' = completed \ {t}
       /\ active' = active \ {t}
       /\ hand' = t
  /\ Goto("collect")
  /\ UNCHANGED <<next, future, outcome, interrupted, presses>>

Collect ==
  /\ At("collect")
  /\ outcome' = [outcome EXCEPT ![hand] = future[hand]]
  /\ hand' = 0
  /\ Goto("drain")
  /\ UNCHANGED <<next, active, completed, future, interrupted, presses>>

Drained ==
  /\ At("drain") /\ completed = {}
  /\ Goto("submit")
  /\ UNCHANGED <<next, hand, active, completed, future, outcome, interrupted, presses>>

-----------------------------------------------------------------------------
(* KeyboardInterrupt: in the try block it is caught once, and what is in
   flight is waited for; after that it ends the batch without a report, and in
   the middle of shutdown() nothing is cancelled any more. *)
Interrupt ==
  /\ presses < MaxInterrupts
  /\ presses' = presses + 1
  /\ hand' = 0 /\ completed' = {}
  /\ \/ pc \in InTry /\ Goto("wind_down") /\ interrupted' = TRUE
     \/ pc \in AfterInterrupt /\ Goto("abort") /\ UNCHANGED interrupted
     \/ pc \in {"shutdown", "abort"} /\ Goto("exit") /\ UNCHANGED interrupted
  /\ UNCHANGED <<next, active, future, outcome>>

\* Slip: what is in flight is not waited for.
WindDownAtOnce ==
  /\ At("wind_down")
  /\ outcome' = [t \in Tasks |-> IF t \in active \intersect Finished THEN future[t] ELSE outcome[t]]
  /\ active' = {}
  /\ Goto("shutdown")
  /\ UNCHANGED <<next, hand, completed, future, interrupted, presses>>

\* The next future in flight, which is waited for.
WindDown ==
  /\ At("wind_down")
  /\ IF active = {}
     THEN Goto("shutdown") /\ UNCHANGED <<active, hand>>
     ELSE /\ hand' \in active
          /\ active' = active \ {hand'}
          /\ Goto("wind_collect")
  /\ UNCHANGED <<next, completed, future, outcome, interrupted, presses>>

WindCollect ==
  /\ At("wind_collect")
  /\ hand \in Finished
  /\ outcome' = [outcome EXCEPT ![hand] = future[hand]]
  /\ hand' = 0
  /\ Goto("wind_down")
  /\ UNCHANGED <<next, active, completed, future, interrupted, presses>>

Idle == \A t \in Tasks : future[t] \notin {"queued", "running"}
Cancelled == [t \in Tasks |-> IF future[t] = "queued" THEN "cancelled" ELSE future[t]]

\* shutdown(wait=True, cancel_futures=True), then the exception goes on, if any.
Shutdown ==
  /\ pc \in {"shutdown", "abort"}
  /\ future' = Cancelled
  /\ IF \E t \in Tasks : future[t] = "running"
     THEN UNCHANGED pc
     ELSE Goto(IF At("shutdown") THEN "report" ELSE "aborted")
  /\ UNCHANGED <<next, hand, active, completed, outcome, interrupted, presses>>

\* The process exits, and Python waits for the threads of the pool, which take
\* what is still queued.
Exit ==
  /\ At("exit")
  /\ Idle
  /\ Goto("aborted")
  /\ UNCHANGED <<next, hand, active, completed, future, outcome, interrupted, presses>>

\* Everything without an outcome is reported as interrupted before launch.
Report ==
  /\ At("report")
  /\ outcome' = [t \in Tasks |-> IF outcome[t] = "none" THEN "not_started" ELSE outcome[t]]
  /\ Goto("done")
  /\ UNCHANGED <<next, hand, active, completed, future, interrupted, presses>>

-----------------------------------------------------------------------------
(* A pool thread takes a queued call; its run ends one way or another, an
   exception being an outcome too. *)
Run(t) ==
  /\ future[t] = "queued"
  /\ Cardinality({u \in Tasks : future[u] = "running"}) < Jobs
  /\ future' = [future EXCEPT ![t] = "running"]
  /\ UNCHANGED main

End(t) ==
  /\ future[t] = "running"
  /\ \E s \in Statuses : future' = [future EXCEPT ![t] = s]
  /\ UNCHANGED main

\* The batch is over and the process has ended.
Over == pc \in {"done", "aborted"} /\ UNCHANGED vars

MainThread ==
  \/ Take \/ Launch \/ Track \/ Submitted \/ Loop \/ Wait \/ Pop \/ Collect \/ Drained
  \/ WindDown \/ WindCollect \/ Shutdown \/ Report \/ Exit

Next == MainThread \/ Interrupt \/ (\E t \in Tasks : Run(t) \/ End(t)) \/ Over

Spec == Init /\ [][Next]_vars

(* Threads are scheduled, and a run ends by its timeout. *)
FairSpec == Spec /\ WF_vars(MainThread) /\ \A t \in Tasks : WF_vars(Run(t)) /\ WF_vars(End(t))

-----------------------------------------------------------------------------
(* Properties *)

\* The main thread's count of what is in flight bounds the pool's: no more than
\* Jobs agents run, and no call waits in the pool behind another.
InFlight ==
  /\ Cardinality({t \in Tasks : future[t] \in {"queued", "running"}}) <= Jobs
  /\ presses = 0 => \A t \in Tasks : future[t] \in Started \union {"queued"} =>
       t \in active \/ t = hand \/ outcome[t] # "none"

\* A report never disagrees with a run: an outcome that names one is that run's
\* own, and without an interrupt every task has one.
ReportsRuns ==
  At("done") =>
    /\ \A t \in Tasks : outcome[t] \in Statuses => future[t] = outcome[t]
    /\ ~interrupted => \A t \in Tasks : outcome[t] \in Statuses

\* What was in flight, as the main thread knew, is waited for and reported after
\* the first Ctrl-C: then only the task in its hand can go missing.
WaitsForActive ==
  At("done") => Cardinality({t \in Tasks : outcome[t] = "not_started" /\ future[t] \in Started}) <= 1

\* No agent is left running when the batch is over, however it ended.
NothingLeftRunning == pc \in {"report", "done", "aborted"} => Idle

\* A task reported as interrupted before launch was not launched.
NotStartedNeverRan ==
  At("done") => \A t \in Tasks : outcome[t] = "not_started" => future[t] \in {"none", "cancelled"}

\* Every batch ends.
BatchEnds == <>(pc \in {"done", "aborted"})
=============================================================================
