----------------------------- MODULE BatchProofs -----------------------------
(***************************************************************************)
(* What TLAPS proves of Batch, for any number of tasks, jobs and presses   *)
(* of Ctrl-C.                                                              *)
(***************************************************************************)
EXTENDS Batch, FiniteSetTheorems, TLAPS

Busy == {t \in Tasks : future[t] \in {"queued", "running"}}
Launched == {t \in Tasks : future[t] \in Started \union {"queued"}}
Held == {"launch", "track", "collect", "wind_collect"}
Known(t) == t \in active \/ t = hand \/ outcome[t] # "none"

\* What the main thread holds, by where it is.
HandInv ==
  /\ hand \in IF pc \in Held THEN Tasks ELSE {0}
  /\ completed \subseteq Finished
  /\ pc \in {"submit", "launch", "track", "loop", "wait"} => completed = {}
  /\ pc = "collect" => hand \in Finished
  /\ pc \in {"shutdown", "report", "done"} => active = {}
  /\ pc \in InTry => presses = 0
  /\ pc # "done" => \A t \in Tasks : outcome[t] # "not_started"

\* Until the first Ctrl-C the pool has no call that the main thread does not count; after it
\* nothing is submitted.
FlightInv ==
  /\ Cardinality(Busy) <= Jobs
  /\ Cardinality(active) <= Jobs
  /\ pc \in {"launch", "track"} => Cardinality(active) < Jobs
  /\ pc \in InTry => Busy \subseteq IF pc = "track" THEN active \union {hand} ELSE active

\* The first Ctrl-C loses the task in the main thread's hand, and no other.
KnownInv ==
  /\ presses = 0 => \A t \in Launched : Known(t)
  /\ pc \in AfterInterrupt \union {"shutdown", "report", "done"} =>
       \E x \in 0 .. Count : \A t \in Launched : t = x \/ (Known(t) /\ outcome[t] # "not_started")

IInv == TypeOK /\ HandInv /\ FlightInv /\ KnownInv

LEMMA Counts ==
  ASSUME NEW S \in SUBSET Tasks
  PROVE  /\ IsFiniteSet(S) /\ Cardinality(S) \in Nat
         /\ \A t \in Tasks : Cardinality(S \union {t}) <= Cardinality(S) + 1
         /\ \A R \in SUBSET S : Cardinality(R) <= Cardinality(S)
<1>1. IsFiniteSet(Tasks)
  BY BatchAssumption, FS_Interval DEF Tasks
<1>2. IsFiniteSet(S)
  BY <1>1, FS_Subset
<1>3. Cardinality(S) \in Nat
  BY <1>2, FS_CardinalityType
<1>4. ASSUME NEW t \in Tasks PROVE Cardinality(S \union {t}) <= Cardinality(S) + 1
  <2>1. Cardinality(S \union {t}) = IF t \in S THEN Cardinality(S) ELSE Cardinality(S) + 1
    BY <1>2, FS_AddElement
  <2> QED
    BY <1>3, <2>1
<1>5. \A R \in SUBSET S : Cardinality(R) <= Cardinality(S)
  BY <1>2, FS_Subset
<1> QED
  BY <1>2, <1>3, <1>4, <1>5

LEMMA InitInv == Init => IInv
<1> SUFFICES ASSUME Init PROVE IInv
  OBVIOUS
<1>1. TypeOK
  <2>1. pc \in Points /\ next \in 1 .. Count + 1 /\ hand \in 0 .. Count /\ presses \in 0 .. MaxInterrupts
    BY BatchAssumption DEF Init, Points, InTry
  <2> QED
    BY <2>1 DEF Init, TypeOK
<1>2. Busy = {} /\ Launched = {}
  BY DEF Init, Busy, Launched, Started, Statuses
<1>3. Cardinality({}) = 0
  BY FS_EmptySet
<1>4. HandInv
  BY DEF Init, HandInv, Held, InTry
<1>5. FlightInv /\ KnownInv
  BY <1>2, <1>3, BatchAssumption DEF Init, FlightInv, KnownInv, InTry, AfterInterrupt
<1> QED
  BY <1>1, <1>4, <1>5 DEF IInv

\* Taking a step on what is in flight without launching anything.
LEMMA Fewer ==
  ASSUME IInv, TypeOK', UNCHANGED main, Busy' \subseteq Busy, Launched' \subseteq Launched,
         Finished \subseteq Finished'
  PROVE  IInv'
<1>1. Busy \in SUBSET Tasks /\ Busy' \in SUBSET Tasks
  BY DEF Busy
<1>2. Cardinality(Busy') <= Cardinality(Busy) /\ Cardinality(Busy) \in Nat /\ Cardinality(Busy') \in Nat
  BY <1>1, Counts
<1>3. HandInv'
  BY DEF IInv, HandInv, main
<1>4. FlightInv'
  BY <1>2, BatchAssumption DEF IInv, FlightInv, main
<1>5. KnownInv'
  BY DEF IInv, KnownInv, Known, main
<1> QED
  BY <1>3, <1>4, <1>5 DEF IInv

LEMMA TypeNext == TypeOK /\ HandInv /\ [Next]_vars => TypeOK'
<1> SUFFICES ASSUME TypeOK, HandInv, [Next]_vars PROVE TypeOK'
  OBVIOUS
<1> USE BatchAssumption
<1>i. hand \in 0 .. Count /\ next \in 1 .. Count + 1 /\ (pc \in Held => hand \in Tasks)
  BY DEF TypeOK, HandInv
<1>1. CASE Take \/ Submitted
  <2>1. pc' \in Points
    BY <1>1 DEF Take, Submitted, Goto, Points, InTry
  <2>2. hand' \in 0 .. Count /\ next' \in 1 .. Count + 1
    BY <1>1, <1>i DEF Take, Submitted
  <2> QED
    BY <1>1, <2>1, <2>2 DEF Take, Submitted, TypeOK
<1>2. CASE Launch \/ Track
  <2>1. pc' \in Points /\ hand \in Tasks /\ hand' \in 0 .. Count
    BY <1>2, <1>i DEF Launch, Track, At, Goto, Points, InTry, Held
  <2> QED
    BY <1>2, <2>1 DEF Launch, Track, TypeOK
<1>3. CASE Loop \/ Wait \/ Drained \/ Exit
  <2>1. pc' \in Points
    BY <1>3 DEF Loop, Wait, Drained, Exit, Goto, Points, InTry
  <2>2. completed' \subseteq Tasks
    BY <1>3 DEF Loop, Wait, Drained, Exit, TypeOK
  <2> QED
    BY <1>3, <2>1, <2>2 DEF Loop, Wait, Drained, Exit, TypeOK
<1>4. CASE Pop \/ WindDown
  <2>1. pc' \in Points
    BY <1>4 DEF Pop, WindDown, Goto, Points, InTry, AfterInterrupt
  <2>2. hand' \in 0 .. Count /\ active' \subseteq Tasks /\ completed' \subseteq Tasks
    <3>1. Tasks \subseteq 0 .. Count
      BY DEF Tasks
    <3> QED
      BY <1>4, <1>i, <3>1 DEF Pop, WindDown, TypeOK
  <2> QED
    BY <1>4, <2>1, <2>2 DEF Pop, WindDown, TypeOK
<1>5. CASE Collect \/ WindCollect
  <2>1. pc' \in Points
    BY <1>5 DEF Collect, WindCollect, Goto, Points, InTry, AfterInterrupt
  <2>2. hand \in Finished /\ hand' \in 0 .. Count
    BY <1>5, <1>i DEF Collect, WindCollect, At, HandInv
  <2>3. outcome' \in [Tasks -> Statuses \union {"none", "not_started"}]
    BY <1>5, <2>2 DEF Collect, WindCollect, Finished, TypeOK
  <2> QED
    BY <1>5, <2>1, <2>2, <2>3 DEF Collect, WindCollect, TypeOK
<1>6. CASE Shutdown \/ Report
  BY <1>6 DEF Shutdown, Report, Cancelled, TypeOK, At, Goto, Points
<1>9. CASE Interrupt
  <2>1. pc' \in Points
    BY <1>9 DEF Interrupt, Goto, Points, AfterInterrupt
  <2>2. presses' \in 0 .. MaxInterrupts /\ hand' \in 0 .. Count
    BY <1>9 DEF Interrupt, TypeOK
  <2> QED
    BY <1>9, <2>1, <2>2 DEF Interrupt, TypeOK
<1>7. ASSUME NEW t \in Tasks, Run(t) \/ End(t) PROVE TypeOK'
  BY <1>7 DEF Run, End, main, TypeOK, Started, Statuses
<1>8. CASE UNCHANGED vars
  BY <1>8 DEF vars, main, TypeOK
<1> QED
  BY <1>1, <1>2, <1>3, <1>4, <1>5, <1>6, <1>7, <1>8, <1>9 DEF Next, MainThread, Over

LEMMA MainInv == IInv /\ TypeOK' /\ (MainThread \/ Interrupt) => HandInv' /\ FlightInv' /\ KnownInv'
<1> SUFFICES ASSUME IInv, TypeOK', MainThread \/ Interrupt PROVE HandInv' /\ FlightInv' /\ KnownInv'
  OBVIOUS
<1> USE BatchAssumption
<1>t. TypeOK /\ HandInv /\ FlightInv /\ KnownInv
  BY DEF IInv
<1>c. Cardinality(active) \in Nat /\ Cardinality(Busy) \in Nat
  BY <1>t, Counts DEF TypeOK, Busy
<1>f. ASSUME UNCHANGED future PROVE UNCHANGED <<Busy, Launched, Finished>>
  BY <1>f DEF Busy, Launched, Finished
<1> DEFINE Kept == HandInv' /\ FlightInv' /\ KnownInv'
<1>1. CASE Take
  <2>1. HandInv'
    BY <1>1, <1>t, <1>f DEF Take, At, Goto, TypeOK, HandInv, Held, InTry, Tasks
  <2>2. FlightInv'
    BY <1>1, <1>t, <1>f, <1>c DEF Take, At, Goto, FlightInv, InTry
  <2>3. KnownInv'
    BY <1>1, <1>t, <1>f DEF Take, At, Goto, HandInv, Held, InTry, KnownInv, Known, AfterInterrupt, Launched, Tasks
  <2> QED
    BY <2>1, <2>2, <2>3
<1>2. CASE Launch
  <2>1. hand \in Tasks /\ presses = 0
    BY <1>2, <1>t DEF Launch, At, HandInv, Held, InTry
  <2>2. Busy' = Busy \union {hand} /\ Launched' = Launched \union {hand} /\ Finished' = Finished \ {hand}
    BY <1>2, <1>t, <2>1 DEF Launch, TypeOK, Busy, Launched, Finished, Statuses
  <2>3. HandInv'
    BY <1>2, <1>t, <2>1, <2>2 DEF Launch, At, Goto, HandInv, Held, InTry
  <2>4. FlightInv'
    <3>1. Busy \subseteq active /\ Cardinality(active) < Jobs
      BY <1>2, <1>t DEF Launch, At, FlightInv, InTry
    <3>2. Cardinality(Busy') <= Cardinality(active \union {hand}) /\ Cardinality(Busy') \in Nat
          /\ Cardinality(active \union {hand}) \in Nat
      <4>1. active \union {hand} \in SUBSET Tasks /\ Busy' \in SUBSET (active \union {hand})
            /\ Busy' \in SUBSET Tasks
        BY <1>t, <2>1, <2>2, <3>1 DEF TypeOK
      <4> QED
        BY <4>1, Counts
    <3>3. Cardinality(active \union {hand}) <= Cardinality(active) + 1
      BY <1>t, <2>1, Counts DEF TypeOK
    <3>4. Cardinality(Busy') <= Jobs
      BY <1>c, <3>1, <3>2, <3>3
    <3>5. UNCHANGED active /\ pc' = "track" /\ UNCHANGED hand
      BY <1>2 DEF Launch, Goto
    <3> QED
      BY <2>2, <3>1, <3>4, <3>5, <1>c DEF FlightInv, InTry
  <2>5. KnownInv'
    BY <1>2, <1>t, <2>1, <2>2 DEF Launch, At, Goto, KnownInv, Known, AfterInterrupt
  <2> QED
    BY <2>3, <2>4, <2>5
<1>3. CASE Track
  <2>1. hand \in Tasks /\ presses = 0 /\ active \in SUBSET Tasks
    BY <1>3, <1>t DEF Track, At, HandInv, Held, InTry, TypeOK
  <2>2. Cardinality(active') <= Cardinality(active) + 1 /\ Cardinality(active') \in Nat
    <3>1. active' = active \union {hand} /\ active' \in SUBSET Tasks
      BY <1>3, <2>1 DEF Track
    <3> QED
      BY <2>1, <3>1, Counts
  <2>3. HandInv'
    BY <1>3, <1>t, <1>f, <2>1 DEF Track, At, Goto, HandInv, Held, InTry
  <2>4. FlightInv'
    BY <1>3, <1>t, <1>f, <1>c, <2>2 DEF Track, At, Goto, FlightInv, InTry
  <2>5. KnownInv'
    BY <1>3, <1>t, <1>f, <2>1 DEF Track, At, Goto, KnownInv, Known, AfterInterrupt
  <2> QED
    BY <2>3, <2>4, <2>5
<1>4. CASE Submitted \/ Loop \/ Wait \/ Drained
  <2>1. pc \in InTry \ Held /\ presses = 0 /\ hand = 0 /\ pc' \notin Held \union {"report", "done"}
    BY <1>4, <1>t DEF Submitted, Loop, Wait, Drained, At, Goto, HandInv, Held, InTry
  <2>2. HandInv'
    BY <1>4, <1>t, <1>f, <2>1 DEF Submitted, Loop, Wait, Drained, At, Goto, HandInv, Held, InTry
  <2>3. FlightInv'
    BY <1>4, <1>t, <1>f, <2>1 DEF Submitted, Loop, Wait, Drained, At, Goto, FlightInv, InTry, Held
  <2>4. KnownInv'
    BY <1>4, <1>t, <1>f, <2>1 DEF Submitted, Loop, Wait, Drained, KnownInv, Known, HandInv, Launched
  <2> QED
    BY <2>2, <2>3, <2>4
<1>5. CASE Pop
  <2>1. hand' \in completed /\ hand' \in Finished /\ active' = active \ {hand'} /\ presses = 0 /\ hand = 0
    BY <1>5, <1>t DEF Pop, At, HandInv, Held, InTry
  <2>2. Cardinality(active') <= Cardinality(active) /\ Cardinality(active') \in Nat
    <3>1. active \in SUBSET Tasks /\ active' \in SUBSET active /\ active' \in SUBSET Tasks
      BY <1>t, <2>1 DEF TypeOK
    <3> QED
      BY <3>1, Counts
  <2>3. HandInv'
    BY <1>5, <1>t, <1>f, <2>1 DEF Pop, At, Goto, HandInv, Held, InTry, Finished
  <2>4. FlightInv'
    <3>1. hand' \notin Busy
      BY <2>1 DEF Busy, Finished, Statuses
    <3> QED
      BY <1>5, <1>t, <1>f, <1>c, <2>1, <2>2, <3>1 DEF Pop, At, Goto, FlightInv, InTry
  <2>5. KnownInv'
    BY <1>5, <1>t, <1>f, <2>1 DEF Pop, At, Goto, KnownInv, Known, AfterInterrupt, Launched, Tasks
  <2> QED
    BY <2>3, <2>4, <2>5
<1>6. CASE Collect \/ WindCollect
  <2>1. hand \in Tasks /\ hand \in Finished /\ outcome' = [outcome EXCEPT ![hand] = future[hand]]
        /\ hand' = 0 /\ UNCHANGED <<active, completed, future, presses>>
    BY <1>6, <1>t DEF Collect, WindCollect, At, HandInv, Held, InTry
  <2>2. \A t \in Tasks : outcome'[t] = IF t = hand THEN future[t] ELSE outcome[t]
    BY <1>t, <2>1 DEF TypeOK
  <2>3. future[hand] \in Statuses
    BY <2>1 DEF Finished
  <2>4. \/ pc = "collect" /\ pc' = "drain"
        \/ pc = "wind_collect" /\ pc' = "wind_down"
    BY <1>6 DEF Collect, WindCollect, At, Goto
  <2>5. HandInv'
    BY <1>t, <1>f, <2>1, <2>2, <2>3, <2>4 DEF HandInv, Held, InTry, Statuses
  <2>6. FlightInv'
    BY <1>t, <1>f, <2>1, <2>4 DEF FlightInv, InTry
  <2>7. \A t \in Launched : Known(t) => Known(t)' /\ (outcome[t] # "not_started" => outcome'[t] # "not_started")
    BY <2>1, <2>2, <2>3 DEF Known, Launched, Statuses
  <2>8. KnownInv'
    <3>1. presses' = 0 => \A t \in Launched' : Known(t)'
      BY <1>t, <1>f, <2>1, <2>7 DEF KnownInv
    <3>2. CASE pc = "collect"
      BY <2>4, <3>1, <3>2 DEF KnownInv, AfterInterrupt
    <3>3. CASE pc = "wind_collect"
      <4>1. PICK x \in 0 .. Count : \A t \in Launched : t = x \/ (Known(t) /\ outcome[t] # "not_started")
        BY <1>t, <3>3 DEF KnownInv, AfterInterrupt
      <4>2. ASSUME NEW t \in Launched' PROVE t = x \/ (Known(t)' /\ outcome'[t] # "not_started")
        <5>1. t \in Launched
          BY <1>f, <2>1, <4>2
        <5> QED
          BY <2>7, <4>1, <5>1 DEF Known
      <4> QED
        BY <3>1, <4>2 DEF KnownInv
    <3> QED
      BY <2>4, <3>2, <3>3
  <2> QED
    BY <2>5, <2>6, <2>8
<1>7. CASE WindDown
  <2>1. CASE active = {} /\ Goto("shutdown") /\ UNCHANGED <<active, hand>>
    BY <1>7, <1>t, <1>f, <2>1 DEF WindDown, At, Goto, HandInv, FlightInv, KnownInv, Known, Held, InTry, AfterInterrupt
  <2>2. CASE hand' \in active /\ active' = active \ {hand'} /\ Goto("wind_collect")
    <3>1. Cardinality(active') <= Cardinality(active) /\ Cardinality(active') \in Nat
      <4>1. active \in SUBSET Tasks /\ active' \in SUBSET active /\ active' \in SUBSET Tasks
        BY <1>t, <2>2 DEF TypeOK
      <4> QED
        BY <4>1, Counts
    <3>2. hand = 0 /\ hand' \in Tasks /\ pc = "wind_down" /\ pc' = "wind_collect"
      BY <1>7, <1>t, <2>2 DEF WindDown, At, Goto, HandInv, Held, TypeOK
    <3>3. HandInv' /\ FlightInv'
      BY <1>7, <1>t, <1>f, <1>c, <3>1, <3>2 DEF WindDown, HandInv, FlightInv, Held, InTry
    <3>4. \A t \in Launched : Known(t) => Known(t)'
      BY <1>7, <2>2, <3>2 DEF WindDown, Known, Launched, Tasks
    <3>5. KnownInv'
      BY <1>7, <1>t, <1>f, <3>2, <3>4 DEF WindDown, KnownInv, AfterInterrupt
    <3> QED
      BY <3>3, <3>5
  <2> QED
    BY <1>7, <2>1, <2>2 DEF WindDown
<1>8. CASE Shutdown
  <2>1. Busy' \subseteq Busy /\ Launched' \subseteq Launched /\ Finished \subseteq Finished'
    BY <1>8, <1>t DEF Shutdown, Cancelled, TypeOK, Busy, Launched, Finished, Statuses, Started
  <2>2. Cardinality(Busy') <= Cardinality(Busy) /\ Cardinality(Busy') \in Nat
    <3>1. Busy \in SUBSET Tasks /\ Busy' \in SUBSET Tasks
      BY DEF Busy
    <3> QED
      BY <2>1, <3>1, Counts
  <2>3. /\ pc \in {"shutdown", "abort"} /\ pc' \in {"shutdown", "abort", "report", "aborted"}
        /\ pc' \in {"shutdown", "report"} => pc = "shutdown"
        /\ UNCHANGED <<hand, active, completed, outcome, presses>>
    BY <1>8 DEF Shutdown, At, Goto
  <2>4. HandInv' /\ FlightInv'
    BY <1>t, <1>c, <2>1, <2>2, <2>3 DEF HandInv, FlightInv, Held, InTry
  <2>5. KnownInv'
    BY <1>t, <2>1, <2>3 DEF KnownInv, Known, AfterInterrupt
  <2> QED
    BY <2>4, <2>5
<1>9. CASE Report
  <2>1. /\ pc = "report" /\ pc' = "done" /\ active = {} /\ hand = 0
        /\ UNCHANGED <<hand, active, completed, future, presses>>
        /\ \A t \in Tasks : outcome[t] # "none" => outcome'[t] = outcome[t]
    BY <1>9, <1>t DEF Report, At, Goto, HandInv, Held
  <2>2. HandInv' /\ FlightInv'
    BY <1>t, <1>f, <2>1 DEF HandInv, FlightInv, Held, InTry
  <2>3. \A t \in Launched : Known(t) => outcome'[t] # "none" /\ outcome'[t] # "not_started"
    BY <1>t, <2>1 DEF Known, Launched, HandInv, Tasks
  <2>4. \A t \in Launched : Known(t) => Known(t)' /\ outcome'[t] # "not_started"
    BY <2>3 DEF Known
  <2>5. KnownInv'
    <3>1. PICK x \in 0 .. Count : \A t \in Launched : t = x \/ (Known(t) /\ outcome[t] # "not_started")
      BY <1>t, <2>1 DEF KnownInv, AfterInterrupt
    <3>2. ASSUME NEW t \in Launched' PROVE t = x \/ (Known(t)' /\ outcome'[t] # "not_started")
      <4>1. t \in Launched
        BY <1>f, <2>1, <3>2
      <4> QED
        BY <2>4, <3>1, <4>1 DEF Known
    <3>3. presses' = 0 => \A t \in Launched' : Known(t)'
      BY <1>t, <1>f, <2>1, <2>4 DEF KnownInv
    <3> QED
      BY <3>2, <3>3 DEF KnownInv
  <2> QED
    BY <2>2, <2>5
<1>10. CASE Exit
  BY <1>10, <1>t, <1>f DEF Exit, At, Goto, HandInv, FlightInv, KnownInv, Known, Held, InTry, AfterInterrupt
<1>11. CASE Interrupt
  <2>1. presses' # 0 /\ hand' = 0 /\ completed' = {} /\ UNCHANGED <<active, future, outcome>>
        /\ \/ pc \in InTry /\ pc' = "wind_down"
           \/ pc' \in {"abort", "exit"} /\ pc # "done"
    BY <1>11, <1>t DEF Interrupt, Goto, TypeOK, AfterInterrupt
  <2>2. HandInv' /\ FlightInv'
    BY <1>t, <1>f, <2>1 DEF HandInv, FlightInv, Held, InTry
  <2>3. CASE pc \in InTry
    <3>1. \A t \in Launched : t = hand \/ (Known(t)' /\ outcome'[t] # "not_started")
      BY <1>t, <2>1, <2>3 DEF HandInv, KnownInv, Known, InTry, Launched
    <3>2. hand \in 0 .. Count
      BY <1>t DEF TypeOK
    <3> QED
      BY <1>f, <2>1, <2>2, <3>1, <3>2 DEF KnownInv
  <2>4. CASE pc' \in {"abort", "exit"}
    BY <2>1, <2>2, <2>4 DEF KnownInv, AfterInterrupt
  <2> QED
    BY <2>1, <2>3, <2>4
<1> QED
  BY <1>1, <1>2, <1>3, <1>4, <1>5, <1>6, <1>7, <1>8, <1>9, <1>10, <1>11 DEF MainThread

LEMMA NextInv == IInv /\ [Next]_vars => IInv'
<1> SUFFICES ASSUME IInv, [Next]_vars PROVE IInv'
  OBVIOUS
<1>1. TypeOK'
  BY TypeNext DEF IInv
<1>2. CASE MainThread \/ Interrupt
  BY <1>1, <1>2, MainInv DEF IInv
<1>3. ASSUME NEW t \in Tasks, Run(t) \/ End(t) PROVE IInv'
  <2>1. Busy' \subseteq Busy /\ Launched' \subseteq Launched /\ Finished \subseteq Finished'
    BY <1>3 DEF IInv, TypeOK, Run, End, Busy, Launched, Finished, Started, Statuses
  <2> QED
    BY <1>1, <1>3, <2>1, Fewer DEF Run, End
<1>4. CASE UNCHANGED vars
  BY <1>1, <1>4, Fewer DEF vars, Busy, Launched, Finished
<1> QED
  BY <1>2, <1>3, <1>4 DEF Next, Over

\* However many tasks there are and wherever Ctrl-C falls, no more than Jobs agents are in
\* flight, and until then the main thread knows of each (batch.py:171-192).
THEOREM FlightIsBounded == Spec => []InFlight
<1>1. IInv => InFlight
  BY DEF IInv, FlightInv, KnownInv, InFlight, Busy, Launched, Known
<1> QED
  BY <1>1, InitInv, NextInv, PTL DEF Spec

\* A batch that reports after a Ctrl-C tells of every task that ran but for the one the main
\* thread was handing over at that moment (batch.py:187-202).
THEOREM ActiveIsReported == Spec => []WaitsForActive
<1>1. IInv => WaitsForActive
  <2> SUFFICES ASSUME IInv, pc = "done"
               PROVE  Cardinality({t \in Tasks : outcome[t] = "not_started" /\ future[t] \in Started}) <= 1
    BY DEF WaitsForActive, At
  <2>1. PICK x \in 0 .. Count : \A t \in Launched : t = x \/ outcome[t] # "not_started"
    BY DEF IInv, KnownInv
  <2>2. {t \in Tasks : outcome[t] = "not_started" /\ future[t] \in Started} \in SUBSET {x}
    BY <2>1 DEF Launched
  <2>3. IsFiniteSet({x}) /\ Cardinality({x}) = 1
    BY FS_Singleton
  <2> QED
    BY <2>2, <2>3, FS_Subset
<1> QED
  BY <1>1, InitInv, NextInv, PTL DEF Spec

\* What the main thread keeps of the tasks, and what the pool's threads make of them, is of
\* its type in every reachable state.
THEOREM TypeCorrect == Spec => []TypeOK
<1>1. IInv => TypeOK
  BY DEF IInv
<1> QED
  BY <1>1, InitInv, NextInv, PTL DEF Spec
=============================================================================
