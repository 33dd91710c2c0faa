------------------------ MODULE SessionAccounting ------------------------
(* What the runs of one session report to have used and cost.  A harness   *)
(* tells its usage per turn, per model call, or as a running total of the  *)
(* session; each adapter makes of it what this run alone used, and the     *)
(* result says whether that is all of it.  Tokens and dollars are counted  *)
(* in one unit, a model call: a call costs what it uses.                   *)
EXTENDS Naturals, Sequences

CONSTANTS
  Harnesses,   \* the adapters of this instance
  MaxRuns,     \* bound: runs of the session
  MaxCalls     \* bound: model calls of one run

Streaming == {"codex", "grok", "opencode", "agy", "dsh", "cursor"}
AllHarnesses == Streaming \cup {"claude", "zcode", "muse", "devin", "hermes"}

ASSUME AccountingAssumption ==
  /\ Harnesses \subseteq AllHarnesses
  /\ MaxRuns \in Nat /\ MaxCalls \in Nat

VARIABLES
  harness,  \* the session's harness
  spent,    \* calls made in the session so far, recorded runs or not
  runs,     \* the recorded runs
  now       \* the run that is going on

vars == <<harness, spent, runs, now>>

None == "none"
NoTotal == MaxRuns * MaxCalls + 1
Amounts == 0 .. MaxRuns * MaxCalls
Fates == {"ended", "failed", "timed_out"}
\* parent: the run it resumes; base: the session's calls before it; before: the same as
\* exported; own, main: calls it made, and those of the main agent; told: calls its output
\* told of; kept: those made before Devin's last continuation past a usage limit.
Idle == [on |-> FALSE, parent |-> 0, base |-> 0, before |-> NoTotal,
         own |-> 0, main |-> 0, told |-> 0, kept |-> 0]

TypeOK ==
  /\ harness \in Harnesses /\ spent \in Nat
  /\ now \in [on: BOOLEAN, parent: 0..MaxRuns, base: Amounts, before: Amounts \cup {NoTotal},
              own: 0..MaxCalls, main: 0..MaxCalls, told: 0..MaxCalls, kept: 0..MaxCalls]
  /\ \A i \in DOMAIN runs :
       /\ runs[i].fate \in Fates /\ runs[i].parent < i
       /\ runs[i].usage \in Amounts \cup {NoTotal} /\ runs[i].cost \in Amounts \cup {NoTotal}
       /\ runs[i].status \in {"complete", "partial", "unavailable"}

Init ==
  /\ harness \in Harnesses
  /\ spent = 0 /\ runs = <<>> /\ now = Idle

\* What the export of a Hermes session that is to go on says it has used so far.
ExportedTotal(parent, exported) ==
  IF harness = "hermes" /\ parent # 0 /\ exported THEN spent ELSE NoTotal

\* A fresh run, or the resume of any recorded one, whatever was recorded or killed after
\* it.  Hermes' session is exported first, which may fail.
Start(parent) ==
  /\ ~now.on /\ Len(runs) < MaxRuns
  /\ IF runs = <<>> THEN parent = 0 /\ spent = 0 ELSE parent \in DOMAIN runs
  /\ \E exported \in BOOLEAN :
       now' = [Idle EXCEPT !.on = TRUE, !.parent = parent, !.base = spent,
                           !.before = ExportedTotal(parent, exported)]
  /\ UNCHANGED <<harness, spent, runs>>

\* A model call, of the main agent or of one of Muse's reminders.
Call(main) ==
  /\ now.on /\ now.own < MaxCalls
  /\ main \/ harness = "muse"
  /\ spent < MaxRuns * MaxCalls      \* bound
  /\ spent' = spent + 1
  /\ now' = [now EXCEPT !.own = @ + 1, !.main = IF main THEN @ + 1 ELSE @]
  /\ UNCHANGED <<harness, runs>>

\* Its usage appears in the output: Muse's shows only the main agent's.
Tell ==
  /\ now.on /\ now.told < now.main
  /\ now' = [now EXCEPT !.told = @ + 1]
  /\ UNCHANGED <<harness, spent, runs>>

\* A usage limit stopped Devin, and its session goes on with the continuation's prompt.
Continue ==
  /\ now.on /\ harness = "devin" /\ now.kept < now.own
  /\ now' = [now EXCEPT !.kept = now.own]
  /\ UNCHANGED <<harness, spent, runs>>

\* The calls of a killed run are the session's, and no run's.
Kill ==
  /\ now.on
  /\ now' = Idle
  /\ UNCHANGED <<harness, spent, runs>>

------------------------------------------------------------------------
(* What each adapter measures: usage, whether any was seen, and a cost.    *)

Measure(usage, seen, cost) == [usage |-> usage, seen |-> seen, cost |-> cost]
Less(a, b) == IF a > b THEN a - b ELSE 0
Priced(usage) == Measure(usage, TRUE, usage)
Unmeasured == Measure(0, FALSE, NoTotal)

\* A result event has the turn's usage and the session's running cost, recognised by its
\* being more than the turn used.  What the parent's result said is taken off, and if it
\* said nothing the usage is priced instead.
ClaudeCost ==
  IF now.parent = 0 \/ now.base = 0 THEN spent
  ELSE IF runs[now.parent].total # NoTotal THEN Less(spent, runs[now.parent].total)
  ELSE now.own
Claude(wrote) == IF wrote THEN Measure(now.own, TRUE, ClaudeCost) ELSE Unmeasured

\* Slip: all of the session's usage is this run's.
HermesUsageSlip == spent
\* The export after the run less the one before it, component by component.
HermesUsage == IF now.before = NoTotal THEN spent ELSE Less(spent, now.before)
Hermes(wrote) ==
  IF ~wrote THEN Unmeasured
  ELSE Measure(HermesUsage, now.before = NoTotal \/ spent # now.before, HermesUsage)

\* The steps of the session's trajectory that follow the last one with the prompt, this
\* run's own or, in an export that starts there, that of its last continuation.  A turn
\* that does not end well writes no export.
DevinStart(wrote) == IF wrote THEN now.base ELSE now.base + now.kept
\* Slip: every step of the trajectory.
DevinStepsSlip(wrote) == spent
DevinSteps(wrote) == spent - DevinStart(wrote)
Devin(fate, wrote) ==
  IF fate = "ended" THEN Measure(DevinSteps(wrote), DevinSteps(wrote) > 0, NoTotal) ELSE Unmeasured

\* The session's log has every call by its run; it counts if the main agent's calls in it
\* are those the output told of.
Reconciled(fate, wrote) == wrote /\ now.told > 0 /\ fate # "timed_out" /\ now.main = now.told
Muse(fate, wrote) ==
  IF Reconciled(fate, wrote) THEN Priced(now.own) ELSE Measure(now.told, now.told > 0, NoTotal)

\* Usage is told call by call (Cursor's in its result event, without a cost).
Stream(fate) ==
  CASE harness = "cursor" -> IF fate = "ended" THEN Measure(now.own, TRUE, NoTotal) ELSE Unmeasured
    [] harness = "dsh" /\ now.told = 0 -> Unmeasured
    [] OTHER -> Measure(now.told, now.told > 0, now.told)

Measured(fate, wrote) ==
  CASE harness = "claude" -> Claude(wrote)
    [] harness = "hermes" -> Hermes(wrote)
    [] harness = "devin"  -> Devin(fate, wrote)
    [] harness = "muse"   -> Muse(fate, wrote)
    [] OTHER              -> Stream(fate)

\* The adapters that report nothing rather than zero when they saw no usage.
RequireObserved(fate) ==
  harness \in {"devin", "muse", "dsh"} \/ (harness = "cursor" /\ fate # "ended")

Account(usage, cost, status) == [usage |-> usage, cost |-> cost, status |-> status]
Unavailable == Account(NoTotal, NoTotal, "unavailable")

\* _finalize_accounting
Finalize(fate, m) ==
  IF RequireObserved(fate) /\ ~m.seen THEN Unavailable
  ELSE IF fate # "timed_out" THEN Account(m.usage, m.cost, "complete")
  ELSE IF m.seen THEN Account(m.usage, m.cost, "partial") ELSE Unavailable

\* Zcode's terminal event has the turn's usage; without it, what the calls told is partial.
ZcodeAccount(fate) ==
  IF fate = "ended" THEN Account(now.own, now.own, "complete")
  ELSE IF now.told > 0 THEN Account(now.told, now.told, "partial") ELSE Unavailable

Reported(fate, wrote) ==
  IF harness = "zcode" THEN ZcodeAccount(fate)
  ELSE LET a == Finalize(fate, Measured(fate, wrote))
       IN  IF harness = "muse" /\ ~Reconciled(fate, wrote) /\ a.status = "complete"
           THEN [a EXCEPT !.status = "partial"] ELSE a

\* What AOP reads last may be missing: Muse's session log, a Claude's result and Hermes'
\* export, without which their run has not ended well, and, of Devin's export, the part
\* before a continuation.
Missing(fate) ==
  {"muse"} \cup (IF fate # "ended" THEN {"claude", "hermes"} ELSE {})
           \cup (IF now.kept > 0 THEN {"devin"} ELSE {})

\* The run is over and recorded.  One that ends by itself has told all it used.
Finish(fate, wrote) ==
  /\ now.on
  /\ fate = "ended" => now.told = now.main
  /\ ~wrote => harness \in Missing(fate)
  /\ LET a == Reported(fate, wrote)
     IN  runs' = Append(runs,
           [parent |-> now.parent, fate |-> fate, base |-> now.base, before |-> now.before,
            own |-> now.own, kept |-> now.kept, wrote |-> wrote,
            usage |-> a.usage, cost |-> a.cost, status |-> a.status,
            total |-> IF wrote THEN spent ELSE NoTotal])
  /\ now' = Idle
  /\ UNCHANGED <<harness, spent>>

Next ==
  \/ \E parent \in 0..MaxRuns : Start(parent)
  \/ \E main \in BOOLEAN : Call(main)
  \/ Tell \/ Continue \/ Kill
  \/ \E fate \in Fates, wrote \in BOOLEAN : Finish(fate, wrote)

Spec == Init /\ [][Next]_vars

------------------------------------------------------------------------
(* Properties                                                              *)

\* The calls made before run r that no total taken off has: those of the session when
\* the export before a Hermes run failed, and, for the cost of Claude, those of killed
\* runs and of resumes of earlier runs that came between its parent's result and r.
Strays(r) ==
  IF harness = "hermes" /\ r.before = NoTotal THEN r.base
  ELSE IF harness = "claude" /\ r.parent # 0 /\ runs[r.parent].total # NoTotal
       THEN r.base - runs[r.parent].total
  ELSE 0

\* A run that ended and calls its accounting complete reports what it used, no more and
\* no less, however many runs went before it in the session, and whichever were killed,
\* unless there are such calls or Devin's export began at its continuation.
CompleteIsOwn ==
  \A i \in DOMAIN runs :
    LET r == runs[i]
    IN  r.fate = "ended" /\ r.status = "complete" /\ (harness = "devin" => r.wrote) =>
          /\ r.usage = r.own \/ (harness = "hermes" /\ Strays(r) > 0)
          /\ r.cost \in {r.own, NoTotal} \/ Strays(r) > 0

\* No call is counted for two runs, nor for one that did not make it, but for those
\* strays: each run's figures are at most its own calls and they, stopped and failed
\* runs' too.  What Claude's use is told by is never one of them.
CountedOnce ==
  \A i \in DOMAIN runs :
    LET r == runs[i]
    IN  /\ r.usage # NoTotal => r.usage <= r.own + (IF harness = "hermes" THEN Strays(r) ELSE 0)
        /\ r.cost # NoTotal => r.cost <= r.own + Strays(r)
========================================================================
